SPECIFICATION Spec
CONSTANTS
  Users = {u1, u2}
  Requests = {r1, r2, r3}
  MaxTokens = 3
SYMMETRY Sym
INVARIANT TypeOK
INVARIANT OneLiveTokenPerFamily
INVARIANT RotationIsAChain
