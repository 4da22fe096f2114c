--------------------------- MODULE CatalogueProofs ---------------------------
(***************************************************************************)
(* Theorems about what MCCheckout brings together besides the checkout,    *)
(* each about the specification of its own module, for any catalogue,      *)
(* sheets, texts, wishes, baskets, discounts, zones and requests, and in   *)
(* the end about the composition, with the checkout's own theorems.        *)
(***************************************************************************)
EXTENDS MCCheckout, FiniteSetTheorems, WellFoundedInduction, TLAPS

-----------------------------------------------------------------------------
(* Delivery: the default address.  A request makes an address the default  *)
(* that it found supported before its transaction, or found to be the      *)
(* newest supported one.  Statuses are never taken back from a supported   *)
(* address, and a number is not given to another one, so what it found is  *)
(* so as long as the address is there.                                     *)

\* that address is supported, or is not there any more
StaysSupported(i) ==
  i < nextAddress /\ (i \in C!D!Saved => addresses[i].status = "supported")

\* what a request knows: a new default has coverage, and clears the others; so
\* has one that was chosen, and the one that replaces a default; and the row an
\* order is going to write was there
AddressKnown(s, j) ==
  /\ s = "insert" => (j.isDefault => j.to.status = "supported") /\ (j.clear # {} => j.isDefault)
  /\ s = "order" /\ j.existing # 0 => j.row # C!D!NoAddress
  /\ s \in {"choose", "default"} => StaysSupported(j.address)
  /\ s = "delete" /\ j.replacement # 0 => StaysSupported(j.replacement)

AddressTables ==
  /\ zones \in [Zones -> {"none", "active", "inactive"}]
  /\ areas \in [Areas -> C!D!AreaRows \cup {C!D!NoArea}]
  /\ addresses \in [C!D!AddressIds -> C!D!Addresses \cup {C!D!NoAddress}]
  /\ nextAddress \in 1..(MaxAddresses + 1)
  /\ \A i \in C!D!AddressIds : i >= nextAddress => addresses[i] = C!D!NoAddress
  /\ DefaultIsSupported

AddressFits(s, j) == j \in C!D!Jobs[s] /\ AddressKnown(s, j)

AddressesInHand ==
  /\ pcOfAddress \in [Pair -> DOMAIN C!D!Jobs]
  /\ jobOfAddress = [r \in Pair |-> jobOfAddress[r]]
  /\ \A r \in Pair : AddressFits(pcOfAddress[r], jobOfAddress[r])

AddressInv == AddressTables /\ AddressesInHand

\* What may happen to the addresses: the numbers given grow, and a supported
\* address stays supported or goes.
AddressesKeep ==
  /\ nextAddress' >= nextAddress
  /\ \A i \in C!D!AddressIds : i < nextAddress /\ i \in C!D!Saved' =>
       /\ i \in C!D!Saved
       /\ addresses[i].status = "supported" => addresses'[i].status = "supported"

LEMMA AddressAssumed ==
  /\ MaxAddresses \in Nat /\ "none" \notin Zones
BY MCCheckoutAssumption DEF C!MCCatalogueAssumption, C!D!DeliveryAssumption

LEMMA AddressJobsAre ==
  /\ DOMAIN C!D!Jobs =
       {"idle", "create", "insert", "order", "choose", "default", "remove", "delete"}
  /\ C!D!Jobs["idle"] = {C!D!NoJob}
  /\ C!D!Jobs["create"] = [place: Places, to: C!D!Resolutions, wish: BOOLEAN]
  /\ C!D!Jobs["insert"] = [place: Places, to: C!D!Resolutions, isDefault: BOOLEAN,
                           clear: SUBSET C!D!AddressIds]
  /\ C!D!Jobs["order"] = [place: Places, to: C!D!Resolutions, existing: {0} \cup C!D!AddressIds,
                          row: C!D!Addresses \cup {C!D!NoAddress}]
  /\ C!D!Jobs["choose"] = [address: C!D!AddressIds]
  /\ C!D!Jobs["default"] = [address: C!D!AddressIds, clear: SUBSET C!D!AddressIds]
  /\ C!D!Jobs["remove"] = [address: C!D!AddressIds, wasDefault: BOOLEAN]
  /\ C!D!Jobs["delete"] = [address: C!D!AddressIds, replacement: {0} \cup C!D!AddressIds]
BY DEF C!D!Jobs

LEMMA AddressConstantsStay ==
  /\ C!D!AddressIds' = C!D!AddressIds /\ C!D!Addresses' = C!D!Addresses
  /\ C!D!NoAddress' = C!D!NoAddress /\ C!D!NoArea' = C!D!NoArea /\ C!D!AreaRows' = C!D!AreaRows
  /\ C!D!Jobs' = C!D!Jobs /\ C!D!NoJob' = C!D!NoJob
BY DEF C!D!AddressIds, C!D!Addresses, C!D!NoAddress, C!D!NoArea, C!D!AreaRows, C!D!Jobs, C!D!NoJob,
       C!D!Resolutions, C!D!Statuses

LEMMA AddressShape ==
  /\ C!D!NoAddress \notin C!D!Addresses
  /\ \A x \in C!D!Addresses :
       x.place \in Places /\ x.status \in C!D!Statuses /\ x.zone \in Zones \cup {"none"}
       /\ x.isDefault \in BOOLEAN
BY DEF C!D!NoAddress, C!D!Addresses

\* What a request knows stays so, whatever another one does to the addresses.
LEMMA AddressKnowledgeStays ==
  ASSUME AddressesKeep, nextAddress \in Int, nextAddress' \in Int,
         NEW s \in DOMAIN C!D!Jobs, NEW j, AddressFits(s, j)
  PROVE  AddressFits(s, j)'
<1>1. ASSUME NEW i \in C!D!AddressIds, StaysSupported(i)
      PROVE  StaysSupported(i)'
  BY <1>1, AddressConstantsStay
     DEF StaysSupported, AddressesKeep, C!D!AddressIds, C!D!Saved
<1>2. s \in {"choose", "default"} => j.address \in C!D!AddressIds
  <2>1. CASE s = "choose"
    <3>1. j \in [address: C!D!AddressIds]
      BY <2>1, AddressJobsAre DEF AddressFits
    <3>. QED BY <3>1
  <2>2. CASE s = "default"
    <3>1. j \in [address: C!D!AddressIds, clear: SUBSET C!D!AddressIds]
      BY <2>2, AddressJobsAre DEF AddressFits
    <3>. QED BY <3>1
  <2>. QED BY <2>1, <2>2
<1>3. s = "delete" /\ j.replacement # 0 => j.replacement \in C!D!AddressIds
  <2>. SUFFICES ASSUME s = "delete", j.replacement # 0
                PROVE  j.replacement \in C!D!AddressIds
    OBVIOUS
  <2>1. j \in [address: C!D!AddressIds, replacement: {0} \cup C!D!AddressIds]
    BY AddressJobsAre DEF AddressFits
  <2>. QED BY <2>1
<1>4. s \in {"choose", "default"} => StaysSupported(j.address)'
  BY <1>1, <1>2 DEF AddressFits, AddressKnown
<1>5. s = "delete" /\ j.replacement # 0 => StaysSupported(j.replacement)'
  BY <1>1, <1>3 DEF AddressFits, AddressKnown
<1>. QED BY <1>4, <1>5, AddressConstantsStay DEF AddressFits, AddressKnown

\* A request goes on with what it has read.
LEMMA AddressRequestMoves ==
  ASSUME AddressInv, AddressesKeep, nextAddress' \in Int,
         NEW r \in Pair, NEW s \in DOMAIN C!D!Jobs, NEW j,
         C!D!Goto(r, s, j), AddressFits(s, j)'
  PROVE  AddressesInHand'
<1>1. pcOfAddress' \in [Pair -> DOMAIN C!D!Jobs]
  BY DEF C!D!Goto, AddressInv, AddressesInHand
<1>2. jobOfAddress' = [x \in Pair |-> jobOfAddress'[x]]
  BY DEF C!D!Goto, AddressInv, AddressesInHand
<1>3. ASSUME NEW x \in Pair
      PROVE  AddressFits(pcOfAddress[x], jobOfAddress[x])'
  <2>1. CASE x = r
    <3>1. pcOfAddress'[x] = s /\ jobOfAddress'[x] = j
      BY <2>1 DEF C!D!Goto, AddressInv, AddressesInHand
    <3>. QED BY <3>1 DEF AddressFits, AddressKnown, StaysSupported
  <2>2. CASE x # r
    <3>. PICK t \in DOMAIN C!D!Jobs, k \in C!D!Jobs[pcOfAddress[x]] :
           t = pcOfAddress[x] /\ k = jobOfAddress[x]
      BY DEF AddressInv, AddressesInHand, AddressFits
    <3>1. AddressFits(t, k)
      BY DEF AddressInv, AddressesInHand
    <3>2. AddressFits(t, k)'
      BY <3>1, AddressKnowledgeStays DEF AddressInv, AddressTables
    <3>3. pcOfAddress'[x] = t /\ jobOfAddress'[x] = k
      BY <2>2 DEF C!D!Goto, AddressInv, AddressesInHand
    <3>. QED BY <3>2, <3>3 DEF AddressFits, AddressKnown, StaysSupported
  <2>. QED BY <2>1, <2>2
<1>. QED BY <1>1, <1>2, <1>3, AddressConstantsStay DEF AddressesInHand

\* A request ends, or goes on, and the tables stay as they are.
LEMMA QuietAddresses ==
  ASSUME AddressInv, UNCHANGED <<zones, areas, addresses, nextAddress>>
  PROVE  AddressTables' /\ AddressesKeep /\ nextAddress' \in Int
<1>1. /\ zones' = zones /\ areas' = areas /\ addresses' = addresses /\ nextAddress' = nextAddress
  OBVIOUS
<1>2. C!D!Saved' = C!D!Saved /\ C!D!Defaults' = C!D!Defaults
  BY <1>1, AddressConstantsStay DEF C!D!Saved, C!D!Defaults
<1>3. AddressTables'
  BY <1>1, <1>2, AddressConstantsStay
     DEF AddressInv, AddressTables, DefaultIsSupported, C!DefaultIsSupported, C!D!DefaultIsSupported
<1>4. AddressesKeep /\ nextAddress' \in Int
  BY <1>1, <1>2, AddressAssumed DEF AddressesKeep, AddressInv, AddressTables
<1>. QED BY <1>3, <1>4

\* A request returns, whatever it wrote.
LEMMA AddressRequestEnds ==
  ASSUME AddressInv, AddressesKeep, nextAddress' \in Int, NEW r \in Pair, C!D!Return(r)
  PROVE  AddressesInHand'
<1>1. "idle" \in DOMAIN C!D!Jobs /\ C!D!NoJob \in C!D!Jobs["idle"]
  BY AddressJobsAre
<1>2. AddressFits("idle", C!D!NoJob)'
  BY <1>1, AddressConstantsStay DEF AddressFits, AddressKnown
<1>3. C!D!Goto(r, "idle", C!D!NoJob)
  BY DEF C!D!Return
<1>. QED
  <2>. PICK s, j : s = "idle" /\ j = C!D!NoJob
    OBVIOUS
  <2>1. AddressFits(s, j)'
    BY <1>2, AddressConstantsStay DEF AddressFits, AddressKnown, StaysSupported
  <2>2. C!D!Goto(r, s, j) /\ s \in DOMAIN C!D!Jobs
    BY <1>1, <1>3
  <2>. QED BY <2>1, <2>2, AddressRequestMoves

\* A step of a request that only reads.
LEMMA AddressIsRead ==
  ASSUME AddressInv, UNCHANGED <<zones, areas, addresses, nextAddress>>,
         NEW r \in Pair, NEW s \in DOMAIN C!D!Jobs, NEW j,
         C!D!Goto(r, s, j), AddressFits(s, j)
  PROVE  AddressInv'
<1>1. AddressTables' /\ AddressesKeep /\ nextAddress' \in Int
  BY QuietAddresses
<1>2. AddressFits(s, j)'
  BY <1>1, AddressKnowledgeStays DEF AddressInv, AddressTables
<1>3. AddressesInHand'
  BY <1>1, <1>2, AddressRequestMoves
<1>. QED BY <1>1, <1>3 DEF AddressInv

LEMMA ResolutionsFit ==
  ASSUME AddressInv, NEW place
  PROVE  C!D!Resolve(place) \subseteq C!D!Resolutions
BY AddressShape DEF AddressInv, AddressTables, C!D!Resolve, C!D!Resolutions, C!D!Statuses,
   C!D!AreaRows, C!D!NoArea

LEMMA AddressIsCreated ==
  ASSUME AddressInv, NEW r \in Pair, NEW place \in Places, NEW w \in BOOLEAN,
         C!D!Create(r, place, w)
  PROVE  AddressInv'
<1>1. PICK to \in C!D!Resolve(place) :
        C!D!Goto(r, "create", [place |-> place, to |-> to, wish |-> w])
  BY DEF C!D!Create
<1>2. to \in C!D!Resolutions
  BY ResolutionsFit
<1>. PICK s, j : s = "create" /\ j = [place |-> place, to |-> to, wish |-> w]
  OBVIOUS
<1>3. j \in C!D!Jobs[s] /\ s \in DOMAIN C!D!Jobs
  BY <1>2, AddressJobsAre
<1>4. AddressFits(s, j)
  BY <1>3 DEF AddressFits, AddressKnown
<1>. QED BY <1>1, <1>3, <1>4, AddressIsRead DEF C!D!Create

LEMMA AddressDefaultIsChosen ==
  ASSUME AddressInv, NEW r \in Pair, C!D!Choose(r)
  PROVE  AddressInv'
<1>1. jobOfAddress[r] \in [place: Places, to: C!D!Resolutions, wish: BOOLEAN]
  BY AddressJobsAre DEF C!D!Choose, AddressInv, AddressesInHand, AddressFits
<1>. DEFINE isDefault == jobOfAddress[r].to.status = "supported"
                         /\ (jobOfAddress[r].wish \/ C!D!Defaults = {})
<1>. PICK s, j : s = "insert" /\ j = [place |-> jobOfAddress[r].place, to |-> jobOfAddress[r].to,
       isDefault |-> isDefault, clear |-> IF isDefault THEN C!D!Defaults ELSE {}]
  OBVIOUS
<1>2. isDefault \in BOOLEAN /\ C!D!Defaults \subseteq C!D!AddressIds
  BY <1>1 DEF C!D!Defaults, C!D!Saved
<1>3. j \in [place: Places, to: C!D!Resolutions, isDefault: BOOLEAN, clear: SUBSET C!D!AddressIds]
  BY <1>1, <1>2
<1>4. j \in C!D!Jobs[s] /\ s \in DOMAIN C!D!Jobs
  BY <1>3, AddressJobsAre
<1>5. AddressFits(s, j)
  BY <1>4 DEF AddressFits, AddressKnown
<1>. QED BY <1>4, <1>5, AddressIsRead DEF C!D!Choose

\* Taking the flag from some addresses changes nothing else.
LEMMA ClearedAre ==
  ASSUME AddressInv, NEW some
  PROVE  /\ C!D!Cleared(some) \in [C!D!AddressIds -> C!D!Addresses \cup {C!D!NoAddress}]
         /\ \A i \in C!D!AddressIds \ C!D!Saved : C!D!Cleared(some)[i] = C!D!NoAddress
         /\ \A i \in C!D!Saved :
              /\ C!D!Cleared(some)[i] \in C!D!Addresses
              /\ C!D!Cleared(some)[i].status = addresses[i].status
              /\ C!D!Cleared(some)[i].isDefault <=> i \notin some /\ addresses[i].isDefault
<1>1. ASSUME NEW i \in C!D!AddressIds \ C!D!Saved
      PROVE  C!D!Cleared(some)[i] = C!D!NoAddress
  BY <1>1 DEF C!D!Cleared, C!D!Saved
<1>2. ASSUME NEW i \in C!D!Saved
      PROVE  /\ C!D!Cleared(some)[i] \in C!D!Addresses
             /\ C!D!Cleared(some)[i].status = addresses[i].status
             /\ C!D!Cleared(some)[i].isDefault <=> i \notin some /\ addresses[i].isDefault
  <2>1. addresses[i] \in C!D!Addresses /\ i \in C!D!AddressIds
    BY <1>2 DEF C!D!Saved, AddressInv, AddressTables
  <2>2. C!D!Cleared(some)[i] =
          IF i \in some THEN [addresses[i] EXCEPT !.isDefault = FALSE] ELSE addresses[i]
    BY <2>1, <1>2 DEF C!D!Cleared
  <2>3. /\ [addresses[i] EXCEPT !.isDefault = FALSE] \in C!D!Addresses
        /\ [addresses[i] EXCEPT !.isDefault = FALSE].status = addresses[i].status
        /\ [addresses[i] EXCEPT !.isDefault = FALSE].isDefault = FALSE
    BY <2>1 DEF C!D!Addresses
  <2>. QED BY <2>1, <2>2, <2>3, AddressShape
<1>3. C!D!Cleared(some) = [i \in C!D!AddressIds |-> C!D!Cleared(some)[i]]
  BY DEF C!D!Cleared
<1>4. \A i \in C!D!AddressIds : C!D!Cleared(some)[i] \in C!D!Addresses \cup {C!D!NoAddress}
  BY <1>1, <1>2
<1>. QED BY <1>1, <1>2, <1>3, <1>4

\* The addresses after a write fit if each of them does.
LEMMA AddressesFit ==
  ASSUME AddressInv, zones' \in [Zones -> {"none", "active", "inactive"}],
         areas' \in [Areas -> C!D!AreaRows \cup {C!D!NoArea}],
         addresses' = [i \in C!D!AddressIds |-> addresses'[i]],
         nextAddress' \in 1..(MaxAddresses + 1), nextAddress' >= nextAddress,
         \A i \in C!D!AddressIds :
           \/ addresses'[i] = C!D!NoAddress
           \/ /\ addresses'[i] \in C!D!Addresses /\ i < nextAddress'
              /\ addresses'[i].isDefault => addresses'[i].status = "supported"
              /\ i < nextAddress =>
                   /\ i \in C!D!Saved
                   /\ addresses[i].status = "supported" => addresses'[i].status = "supported"
  PROVE  AddressTables' /\ AddressesKeep /\ nextAddress' \in Int
<1>1. addresses' \in [C!D!AddressIds -> C!D!Addresses \cup {C!D!NoAddress}]
  OBVIOUS
<1>2. \A i \in C!D!AddressIds : i >= nextAddress' => addresses'[i] = C!D!NoAddress
  BY DEF C!D!AddressIds
<1>3. DefaultIsSupported'
  BY AddressConstantsStay
     DEF DefaultIsSupported, C!DefaultIsSupported, C!D!DefaultIsSupported, C!D!Defaults, C!D!Saved
<1>4. AddressesKeep
  BY AddressConstantsStay DEF AddressesKeep, C!D!Saved
<1>5. nextAddress' \in Int /\ MaxAddresses' = MaxAddresses
  BY AddressAssumed
<1>. QED BY <1>1, <1>2, <1>3, <1>4, <1>5, AddressConstantsStay DEF AddressTables

\* What an address is like that is there.
LEMMA SavedAre ==
  ASSUME AddressInv, NEW i \in C!D!AddressIds
  PROVE  /\ i \in C!D!Saved <=> addresses[i] \in C!D!Addresses
         /\ i \notin C!D!Saved <=> addresses[i] = C!D!NoAddress
         /\ i \in C!D!Saved => i < nextAddress
         /\ i \in C!D!Saved /\ addresses[i].isDefault => addresses[i].status = "supported"
BY AddressShape DEF C!D!Saved, C!D!Defaults, AddressInv, AddressTables, C!D!AddressIds,
   DefaultIsSupported, C!DefaultIsSupported, C!D!DefaultIsSupported

LEMMA AddressIsInserted ==
  ASSUME AddressInv, NEW r \in Pair, C!D!Insert(r)
  PROVE  AddressInv'
<1>. DEFINE j == jobOfAddress[r]
            new == [place |-> j.place, status |-> j.to.status, zone |-> j.to.zone,
                    isDefault |-> j.isDefault]
            clear == j.clear
<1>1. CASE UNCHANGED <<zones, areas, addresses, nextAddress>>
  BY <1>1, QuietAddresses, AddressRequestEnds DEF C!D!Insert, AddressInv
<1>2. CASE /\ addresses' = [C!D!Cleared(clear) EXCEPT ![nextAddress] = new]
           /\ nextAddress' = nextAddress + 1
  <2>1. j \in [place: Places, to: C!D!Resolutions, isDefault: BOOLEAN, clear: SUBSET C!D!AddressIds]
    BY AddressJobsAre DEF C!D!Insert, AddressInv, AddressesInHand, AddressFits
  <2>2. j.isDefault => j.to.status = "supported"
    BY DEF C!D!Insert, AddressInv, AddressesInHand, AddressFits, AddressKnown
  <2>3. new \in C!D!Addresses /\ (new.isDefault => new.status = "supported")
    BY <2>1, <2>2 DEF C!D!Addresses, C!D!Resolutions
  <2>4. nextAddress \in C!D!AddressIds /\ nextAddress \in Int
        /\ nextAddress' \in 1..(MaxAddresses + 1) /\ nextAddress' >= nextAddress
    BY <1>2, AddressAssumed DEF C!D!Insert, C!D!AddressIds
  <2>. HIDE DEF new, clear
  <2>5. addresses' = [i \in C!D!AddressIds |-> addresses'[i]]
    BY <1>2 DEF C!D!Cleared
  <2>6. ASSUME NEW i \in C!D!AddressIds
        PROVE  \/ addresses'[i] = C!D!NoAddress
               \/ /\ addresses'[i] \in C!D!Addresses /\ i < nextAddress'
                  /\ addresses'[i].isDefault => addresses'[i].status = "supported"
                  /\ i < nextAddress =>
                       /\ i \in C!D!Saved
                       /\ addresses[i].status = "supported" => addresses'[i].status = "supported"
    <3>1. CASE i = nextAddress
      <4>1. addresses'[i] = new
        BY <1>2, <3>1, ClearedAre, <2>4
      <4>. QED BY <4>1, <3>1, <1>2, <2>3, <2>4
    <3>2. CASE i # nextAddress
      <4>1. addresses'[i] = C!D!Cleared(clear)[i]
        BY <1>2, <3>2, ClearedAre, <2>4
      <4>2. CASE i \in C!D!Saved
        BY <4>1, <4>2, <1>2, ClearedAre, SavedAre, <2>4 DEF C!D!AddressIds
      <4>3. CASE i \notin C!D!Saved
        BY <4>1, <4>3, ClearedAre
      <4>. QED BY <4>2, <4>3
    <3>. QED BY <3>1, <3>2
  <2>7. AddressTables' /\ AddressesKeep /\ nextAddress' \in Int
    BY <2>4, <2>5, <2>6, AddressesFit DEF C!D!Insert, AddressInv, AddressTables
  <2>. QED BY <2>7, AddressRequestEnds DEF C!D!Insert, AddressInv
<1>. QED BY <1>1, <1>2 DEF C!D!Insert

LEMMA OrderAddressIsFound ==
  ASSUME AddressInv, NEW r \in Pair, NEW place \in Places, C!D!OrderAddress(r, place)
  PROVE  AddressInv'
<1>. DEFINE same == {i \in C!D!Saved : addresses[i].place = place}
<1>1. PICK to \in C!D!Resolve(place), i \in same \cup (IF same = {} THEN {0} ELSE {}) :
        C!D!Goto(r, "order", [place |-> place, to |-> to, existing |-> i,
                              row |-> IF i = 0 THEN C!D!NoAddress ELSE addresses[i]])
  BY DEF C!D!OrderAddress
<1>2. to \in C!D!Resolutions
  BY ResolutionsFit
<1>3. i = 0 \/ (i \in C!D!AddressIds /\ addresses[i] \in C!D!Addresses)
  BY SavedAre DEF C!D!Saved
<1>. PICK s, j : s = "order" /\ j = [place |-> place, to |-> to, existing |-> i,
                                     row |-> IF i = 0 THEN C!D!NoAddress ELSE addresses[i]]
  OBVIOUS
<1>4. j \in [place: Places, to: C!D!Resolutions, existing: {0} \cup C!D!AddressIds,
             row: C!D!Addresses \cup {C!D!NoAddress}]
  BY <1>2, <1>3
<1>5. j \in C!D!Jobs[s] /\ s \in DOMAIN C!D!Jobs
  BY <1>4, AddressJobsAre
<1>6. AddressFits(s, j)
  BY <1>3, <1>5, AddressShape DEF AddressFits, AddressKnown
<1>. QED BY <1>1, <1>5, <1>6, AddressIsRead DEF C!D!OrderAddress

LEMMA AddressIsOrderedTo ==
  ASSUME AddressInv, NEW r \in Pair, C!D!OrderWithAddress(r)
  PROVE  AddressInv'
<1>. DEFINE j == jobOfAddress[r]
<1>1. CASE UNCHANGED <<zones, areas, addresses, nextAddress>>
  BY <1>1, QuietAddresses, AddressRequestEnds DEF C!D!OrderWithAddress, AddressInv
<1>2. CASE /\ j.to.status = "supported"
           /\ C!D!Unchanged(j) /\ C!D!SaveOrderAddress(j)
  <2>1. j \in [place: Places, to: C!D!Resolutions, existing: {0} \cup C!D!AddressIds,
               row: C!D!Addresses \cup {C!D!NoAddress}]
    BY AddressJobsAre DEF C!D!OrderWithAddress, AddressInv, AddressesInHand, AddressFits
  <2>2. j.existing # 0 => j.row \in C!D!Addresses
    BY <2>1 DEF C!D!OrderWithAddress, AddressInv, AddressesInHand, AddressFits, AddressKnown
  <2>3. ASSUME NEW d \in BOOLEAN
        PROVE  /\ C!D!Written(j, d) \in C!D!Addresses
               /\ C!D!Written(j, d).status = "supported"
    BY <1>2, <2>1 DEF C!D!Written, C!D!Addresses, C!D!Resolutions
  <2>4. nextAddress \in Int /\ nextAddress \in 1..(MaxAddresses + 1)
        /\ addresses = [i \in C!D!AddressIds |-> addresses[i]]
    BY AddressAssumed DEF AddressInv, AddressTables
  <2>5. CASE j.existing = 0
    <3>1. PICK new \in C!D!Addresses :
            /\ nextAddress \in C!D!AddressIds /\ nextAddress' = nextAddress + 1
            /\ addresses' = [addresses EXCEPT ![nextAddress] = new]
            /\ new.status = "supported"
      BY <1>2, <2>3, <2>5 DEF C!D!SaveOrderAddress
    <3>2. nextAddress' \in 1..(MaxAddresses + 1) /\ nextAddress' >= nextAddress
      BY <3>1, <2>4, AddressAssumed DEF C!D!AddressIds
    <3>3. ASSUME NEW i \in C!D!AddressIds
          PROVE  \/ addresses'[i] = C!D!NoAddress
                 \/ /\ addresses'[i] \in C!D!Addresses /\ i < nextAddress'
                    /\ addresses'[i].isDefault => addresses'[i].status = "supported"
                    /\ i < nextAddress =>
                         /\ i \in C!D!Saved
                         /\ addresses[i].status = "supported" => addresses'[i].status = "supported"
      <4>1. CASE i = nextAddress
        <5>1. addresses'[i] = new
          BY <4>1, <3>1, <2>4
        <5>. QED BY <4>1, <5>1, <3>1, <2>4
      <4>2. CASE i # nextAddress
        <5>1. addresses'[i] = addresses[i]
          BY <4>2, <3>1, <2>4
        <5>. QED BY <4>2, <5>1, <3>1, <2>4, SavedAre DEF C!D!AddressIds
      <4>. QED BY <4>1, <4>2
    <3>4. addresses' = [i \in C!D!AddressIds |-> addresses'[i]]
      BY <3>1, <2>4
    <3>5. AddressTables' /\ AddressesKeep /\ nextAddress' \in Int
      BY <3>2, <3>3, <3>4, AddressesFit DEF C!D!OrderWithAddress, AddressInv, AddressTables
    <3>. QED BY <3>5, AddressRequestEnds DEF C!D!OrderWithAddress, AddressInv
  <2>6. CASE j.existing # 0
    <3>1. j.existing \in C!D!AddressIds /\ addresses[j.existing] \in C!D!Addresses
          /\ j.row.isDefault \in BOOLEAN
      BY <1>2, <2>1, <2>2, <2>6, AddressShape DEF C!D!Unchanged
    <3>2. PICK k \in C!D!AddressIds, new \in C!D!Addresses :
            /\ k = j.existing /\ new.status = "supported"
            /\ addresses' = [addresses EXCEPT ![k] = new] /\ nextAddress' = nextAddress
      BY <1>2, <2>3, <2>6, <3>1 DEF C!D!SaveOrderAddress
    <3>3. ASSUME NEW i \in C!D!AddressIds
          PROVE  \/ addresses'[i] = C!D!NoAddress
                 \/ /\ addresses'[i] \in C!D!Addresses /\ i < nextAddress'
                    /\ addresses'[i].isDefault => addresses'[i].status = "supported"
                    /\ i < nextAddress =>
                         /\ i \in C!D!Saved
                         /\ addresses[i].status = "supported" => addresses'[i].status = "supported"
      <4>1. CASE i = k
        <5>1. addresses'[i] = new /\ i \in C!D!Saved
          BY <4>1, <3>1, <3>2, <2>4, SavedAre
        <5>. QED BY <5>1, <3>2, SavedAre
      <4>2. CASE i # k
        <5>1. addresses'[i] = addresses[i]
          BY <4>2, <3>2, <2>4
        <5>. QED BY <5>1, <3>2, SavedAre
      <4>. QED BY <4>1, <4>2
    <3>4. addresses' = [i \in C!D!AddressIds |-> addresses'[i]]
      BY <3>2, <2>4
    <3>5. AddressTables' /\ AddressesKeep /\ nextAddress' \in Int
      BY <2>4, <3>2, <3>3, <3>4, AddressesFit DEF C!D!OrderWithAddress, AddressInv, AddressTables
    <3>. QED BY <3>5, AddressRequestEnds DEF C!D!OrderWithAddress, AddressInv
  <2>. QED BY <2>5, <2>6
<1>. QED BY <1>1, <1>2 DEF C!D!OrderWithAddress

LEMMA DefaultIsRequested ==
  ASSUME AddressInv, NEW r \in Pair, NEW i \in C!D!AddressIds, C!D!SetDefault(r, i)
  PROVE  AddressInv'
<1>. PICK s, j : s = "choose" /\ j = [address |-> i]
  OBVIOUS
<1>1. j \in C!D!Jobs[s] /\ s \in DOMAIN C!D!Jobs
  BY AddressJobsAre
<1>2. AddressFits(s, j)
  BY <1>1, SavedAre DEF AddressFits, AddressKnown, StaysSupported, C!D!SetDefault
<1>. QED BY <1>1, <1>2, AddressIsRead DEF C!D!SetDefault

LEMMA DefaultsAreFound ==
  ASSUME AddressInv, NEW r \in Pair, C!D!ClearDefaults(r)
  PROVE  AddressInv'
<1>. PICK s, j : s = "default" /\ j = [address |-> jobOfAddress[r].address, clear |-> C!D!Defaults]
  OBVIOUS
<1>1. jobOfAddress[r] \in [address: C!D!AddressIds] /\ StaysSupported(jobOfAddress[r].address)
  BY AddressJobsAre
     DEF C!D!ClearDefaults, AddressInv, AddressesInHand, AddressFits, AddressKnown
<1>2. C!D!Defaults \subseteq C!D!AddressIds
  BY DEF C!D!Defaults, C!D!Saved
<1>3. j \in [address: C!D!AddressIds, clear: SUBSET C!D!AddressIds]
  BY <1>1, <1>2
<1>4. j \in C!D!Jobs[s] /\ s \in DOMAIN C!D!Jobs
  BY <1>3, AddressJobsAre
<1>5. AddressFits(s, j)
  BY <1>1, <1>4 DEF AddressFits, AddressKnown
<1>. QED BY <1>4, <1>5, AddressIsRead DEF C!D!ClearDefaults

LEMMA AddressBecomesDefault ==
  ASSUME AddressInv, NEW r \in Pair, C!D!BecomesDefault(r)
  PROVE  AddressInv'
<1>1. CASE UNCHANGED addresses
  BY <1>1, QuietAddresses, AddressRequestEnds DEF C!D!BecomesDefault, AddressInv
<1>2. CASE ~UNCHANGED addresses
  <2>1. PICK k, clear :
          /\ k = jobOfAddress[r].address /\ k \in C!D!Saved
          /\ addresses' = [C!D!Cleared(clear) EXCEPT ![k].isDefault = TRUE]
    BY <1>2 DEF C!D!BecomesDefault
  <2>2. StaysSupported(k) /\ k \in C!D!AddressIds
    BY <2>1 DEF C!D!BecomesDefault, AddressInv, AddressesInHand, AddressFits, AddressKnown,
                C!D!Saved
  <2>3. addresses[k].status = "supported"
    BY <2>1, <2>2 DEF StaysSupported
  <2>4. nextAddress \in Int /\ nextAddress \in 1..(MaxAddresses + 1) /\ nextAddress' = nextAddress
    BY AddressAssumed DEF AddressInv, AddressTables, C!D!BecomesDefault
  <2>5. C!D!Cleared(clear) \in [C!D!AddressIds -> C!D!Addresses \cup {C!D!NoAddress}]
        /\ C!D!Cleared(clear)[k] \in C!D!Addresses
        /\ C!D!Cleared(clear)[k].status = "supported"
    BY <2>1, <2>3, ClearedAre
  <2>6. PICK new \in C!D!Addresses :
          new.status = "supported" /\ addresses' = [C!D!Cleared(clear) EXCEPT ![k] = new]
    <3>1. PICK old : old = C!D!Cleared(clear)[k]
      OBVIOUS
    <3>2. /\ [old EXCEPT !.isDefault = TRUE] \in C!D!Addresses
          /\ [old EXCEPT !.isDefault = TRUE].status = "supported"
      BY <3>1, <2>5 DEF C!D!Addresses
    <3>3. addresses' = [C!D!Cleared(clear) EXCEPT ![k] = [old EXCEPT !.isDefault = TRUE]]
      BY <2>1, <3>1
    <3>. QED BY <3>2, <3>3
  <2>7. ASSUME NEW i \in C!D!AddressIds
        PROVE  \/ addresses'[i] = C!D!NoAddress
               \/ /\ addresses'[i] \in C!D!Addresses /\ i < nextAddress'
                  /\ addresses'[i].isDefault => addresses'[i].status = "supported"
                  /\ i < nextAddress =>
                       /\ i \in C!D!Saved
                       /\ addresses[i].status = "supported" => addresses'[i].status = "supported"
    <3>1. CASE i = k
      <4>1. addresses'[i] = new
        BY <3>1, <2>6, <2>5
      <4>. QED BY <4>1, <3>1, <2>1, <2>4, <2>6, SavedAre
    <3>2. CASE i # k
      <4>1. addresses'[i] = C!D!Cleared(clear)[i]
        BY <3>2, <2>6, <2>5
      <4>2. CASE i \in C!D!Saved
        BY <4>1, <4>2, <2>4, ClearedAre, SavedAre
      <4>3. CASE i \notin C!D!Saved
        BY <4>1, <4>3, ClearedAre
      <4>. QED BY <4>2, <4>3
    <3>. QED BY <3>1, <3>2
  <2>8. addresses' = [i \in C!D!AddressIds |-> addresses'[i]]
    BY <2>5, <2>6
  <2>9. /\ zones' \in [Zones -> {"none", "active", "inactive"}]
        /\ areas' \in [Areas -> C!D!AreaRows \cup {C!D!NoArea}]
        /\ nextAddress' \in 1..(MaxAddresses + 1) /\ nextAddress' >= nextAddress
    BY <2>4 DEF C!D!BecomesDefault, AddressInv, AddressTables
  <2>10. AddressTables' /\ AddressesKeep /\ nextAddress' \in Int
    BY <2>7, <2>8, <2>9, AddressesFit
  <2>. QED BY <2>10, AddressRequestEnds DEF C!D!BecomesDefault, AddressInv
<1>. QED BY <1>1, <1>2

LEMMA AddressIsGivenUp ==
  ASSUME AddressInv, NEW r \in Pair, NEW i \in C!D!AddressIds, C!D!Remove(r, i)
  PROVE  AddressInv'
<1>. PICK s, j : s = "remove" /\ j = [address |-> i, wasDefault |-> addresses[i].isDefault]
  OBVIOUS
<1>1. addresses[i].isDefault \in BOOLEAN
  BY SavedAre, AddressShape DEF C!D!Remove
<1>2. j \in [address: C!D!AddressIds, wasDefault: BOOLEAN]
  BY <1>1
<1>3. j \in C!D!Jobs[s] /\ s \in DOMAIN C!D!Jobs
  BY <1>2, AddressJobsAre
<1>4. AddressFits(s, j)
  BY <1>3 DEF AddressFits, AddressKnown
<1>. QED BY <1>3, <1>4, AddressIsRead DEF C!D!Remove

LEMMA ReplacementIsFound ==
  ASSUME AddressInv, NEW r \in Pair, C!D!FindReplacement(r)
  PROVE  AddressInv'
<1>. DEFINE i == jobOfAddress[r].address
            others == IF jobOfAddress[r].wasDefault THEN C!D!Replacements(i) ELSE {}
<1>1. PICK k \in others \cup (IF others = {} THEN {0} ELSE {}) :
        C!D!Goto(r, "delete", [address |-> i, replacement |-> k])
  BY DEF C!D!FindReplacement
<1>2. i \in C!D!AddressIds
  <2>1. jobOfAddress[r] \in [address: C!D!AddressIds, wasDefault: BOOLEAN]
    BY AddressJobsAre DEF C!D!FindReplacement, AddressInv, AddressesInHand, AddressFits
  <2>. QED BY <2>1
<1>3. k = 0 \/ (k \in C!D!AddressIds /\ StaysSupported(k))
  <2>1. k # 0 => k \in C!D!Saved /\ addresses[k].status = "supported"
    BY DEF C!D!Replacements
  <2>. QED BY <2>1, SavedAre DEF StaysSupported, C!D!Saved
<1>. PICK s, j : s = "delete" /\ j = [address |-> i, replacement |-> k]
  OBVIOUS
<1>4. j \in C!D!Jobs[s] /\ s \in DOMAIN C!D!Jobs
  BY <1>2, <1>3, AddressJobsAre
<1>5. AddressFits(s, j)
  BY <1>3, <1>4 DEF AddressFits, AddressKnown
<1>. QED BY <1>1, <1>4, <1>5, AddressIsRead DEF C!D!FindReplacement

LEMMA AddressIsDeleted ==
  ASSUME AddressInv, NEW r \in Pair, C!D!Delete(r)
  PROVE  AddressInv'
<1>1. CASE UNCHANGED addresses
  BY <1>1, QuietAddresses, AddressRequestEnds DEF C!D!Delete, AddressInv
<1>2. CASE ~UNCHANGED addresses
  <2>1. PICK i, k :
          /\ i = jobOfAddress[r].address /\ k = jobOfAddress[r].replacement
          /\ {i, k} \ {0} \subseteq C!D!Saved
          /\ addresses' = [l \in C!D!AddressIds |->
               IF l = i THEN C!D!NoAddress
               ELSE IF l = k THEN [addresses[k] EXCEPT !.isDefault = TRUE] ELSE addresses[l]]
    BY <1>2 DEF C!D!Delete
  <2>2. k # 0 => StaysSupported(k) /\ k \in C!D!AddressIds
    BY <2>1 DEF C!D!Delete, AddressInv, AddressesInHand, AddressFits, AddressKnown, C!D!Saved
  <2>3. ASSUME k \in C!D!AddressIds
        PROVE  /\ addresses[k] \in C!D!Addresses /\ addresses[k].status = "supported"
               /\ k < nextAddress /\ k \in C!D!Saved
    BY <2>1, <2>2, <2>3, SavedAre DEF StaysSupported, C!D!AddressIds
  <2>4. /\ zones' \in [Zones -> {"none", "active", "inactive"}]
        /\ areas' \in [Areas -> C!D!AreaRows \cup {C!D!NoArea}]
        /\ nextAddress' \in 1..(MaxAddresses + 1) /\ nextAddress' >= nextAddress
        /\ nextAddress' = nextAddress
    BY AddressAssumed DEF C!D!Delete, AddressInv, AddressTables
  <2>5. ASSUME NEW l \in C!D!AddressIds
        PROVE  \/ addresses'[l] = C!D!NoAddress
               \/ /\ addresses'[l] \in C!D!Addresses /\ l < nextAddress'
                  /\ addresses'[l].isDefault => addresses'[l].status = "supported"
                  /\ l < nextAddress =>
                       /\ l \in C!D!Saved
                       /\ addresses[l].status = "supported" => addresses'[l].status = "supported"
    <3>1. CASE l = i
      BY <2>1, <3>1
    <3>2. CASE l # i /\ l = k
      <4>1. PICK old : old = addresses[k]
        OBVIOUS
      <4>2. addresses'[l] = [old EXCEPT !.isDefault = TRUE]
        BY <2>1, <3>2, <4>1
      <4>3. /\ [old EXCEPT !.isDefault = TRUE] \in C!D!Addresses
            /\ [old EXCEPT !.isDefault = TRUE].status = "supported"
        BY <2>3, <3>2, <4>1 DEF C!D!Addresses
      <4>. QED BY <2>3, <2>4, <3>2, <4>2, <4>3
    <3>3. CASE l # i /\ l # k
      <4>1. addresses'[l] = addresses[l]
        BY <2>1, <3>3
      <4>. QED BY <4>1, <2>4, SavedAre
    <3>. QED BY <3>1, <3>2, <3>3
  <2>6. addresses' = [l \in C!D!AddressIds |-> addresses'[l]]
    BY <2>1
  <2>7. AddressTables' /\ AddressesKeep /\ nextAddress' \in Int
    BY <2>4, <2>5, <2>6, AddressesFit
  <2>. QED BY <2>7, AddressRequestEnds DEF C!D!Delete, AddressInv
<1>. QED BY <1>1, <1>2

\* Zones and areas change, and the requests stay where they are.
LEMMA AddressRequestsStay ==
  ASSUME AddressInv, AddressesKeep, nextAddress' \in Int, UNCHANGED <<pcOfAddress, jobOfAddress>>
  PROVE  AddressesInHand'
<1>1. ASSUME NEW x \in Pair
      PROVE  AddressFits(pcOfAddress[x], jobOfAddress[x])'
  <2>. PICK t \in DOMAIN C!D!Jobs, k \in C!D!Jobs[pcOfAddress[x]] :
         t = pcOfAddress[x] /\ k = jobOfAddress[x]
    BY DEF AddressInv, AddressesInHand, AddressFits
  <2>1. AddressFits(t, k)
    BY DEF AddressInv, AddressesInHand
  <2>2. AddressFits(t, k)'
    BY <2>1, AddressKnowledgeStays DEF AddressInv, AddressTables
  <2>3. pcOfAddress'[x] = t /\ jobOfAddress'[x] = k
    OBVIOUS
  <2>. QED BY <2>2, <2>3 DEF AddressFits, AddressKnown, StaysSupported
<1>. QED BY <1>1, AddressConstantsStay DEF AddressesInHand, AddressInv

LEMMA ZoneIsPut ==
  ASSUME AddressInv, NEW z \in Zones, NEW status \in {"active", "inactive"},
         C!D!PutZone(z, status)
  PROVE  AddressInv'
<1>1. zones' \in [Zones -> {"none", "active", "inactive"}]
  BY DEF C!D!PutZone, AddressInv, AddressTables
<1>2. C!D!Saved' = C!D!Saved /\ C!D!Defaults' = C!D!Defaults
  BY AddressConstantsStay DEF C!D!Saved, C!D!Defaults, C!D!PutZone
<1>3. AddressTables'
  BY <1>1, <1>2, AddressConstantsStay
     DEF C!D!PutZone, AddressInv, AddressTables,
         DefaultIsSupported, C!DefaultIsSupported, C!D!DefaultIsSupported
<1>4. AddressesKeep /\ nextAddress' \in Int
  BY <1>2, AddressAssumed DEF AddressesKeep, AddressInv, AddressTables, C!D!PutZone
<1>. QED BY <1>3, <1>4, AddressRequestsStay DEF AddressInv, C!D!PutZone

LEMMA AreasAreWritten ==
  ASSUME AddressInv, UNCHANGED <<zones, addresses, nextAddress, pcOfAddress, jobOfAddress>>,
         areas' \in [Areas -> C!D!AreaRows \cup {C!D!NoArea}]
  PROVE  AddressInv'
<1>2. C!D!Saved' = C!D!Saved /\ C!D!Defaults' = C!D!Defaults
  BY AddressConstantsStay DEF C!D!Saved, C!D!Defaults
<1>3. AddressTables'
  BY <1>2, AddressConstantsStay
     DEF AddressInv, AddressTables,
         DefaultIsSupported, C!DefaultIsSupported, C!D!DefaultIsSupported
<1>4. AddressesKeep /\ nextAddress' \in Int
  BY <1>2, AddressAssumed DEF AddressesKeep, AddressInv, AddressTables
<1>. QED BY <1>3, <1>4, AddressRequestsStay DEF AddressInv

LEMMA ZoneIsRemoved ==
  ASSUME AddressInv, NEW z \in Zones, C!D!RemoveDeliveryZone(z)
  PROVE  AddressInv'
<1>1. /\ zones' \in [Zones -> {"none", "active", "inactive"}]
      /\ areas' \in [Areas -> C!D!AreaRows \cup {C!D!NoArea}]
      /\ nextAddress' \in 1..(MaxAddresses + 1) /\ nextAddress' >= nextAddress
      /\ nextAddress' = nextAddress
  BY AddressAssumed DEF C!D!RemoveDeliveryZone, AddressInv, AddressTables
<1>2. ASSUME NEW i \in C!D!AddressIds
      PROVE  \/ addresses'[i] = C!D!NoAddress
             \/ /\ addresses'[i] \in C!D!Addresses /\ i < nextAddress'
                /\ addresses'[i].isDefault => addresses'[i].status = "supported"
                /\ i < nextAddress =>
                     /\ i \in C!D!Saved
                     /\ addresses[i].status = "supported" => addresses'[i].status = "supported"
  <2>1. CASE i \in C!D!Saved /\ addresses[i].zone = z
    <3>1. PICK old : old = addresses[i]
      OBVIOUS
    <3>2. addresses'[i] = [old EXCEPT !.zone = "none"]
      BY <2>1, <3>1 DEF C!D!RemoveDeliveryZone
    <3>3. old \in C!D!Addresses /\ (old.isDefault => old.status = "supported") /\ i < nextAddress
      BY <2>1, <3>1, SavedAre
    <3>4. /\ [old EXCEPT !.zone = "none"] \in C!D!Addresses
          /\ [old EXCEPT !.zone = "none"].status = old.status
          /\ [old EXCEPT !.zone = "none"].isDefault = old.isDefault
      BY <3>3 DEF C!D!Addresses
    <3>. QED BY <1>1, <2>1, <3>1, <3>2, <3>3, <3>4
  <2>2. CASE ~(i \in C!D!Saved /\ addresses[i].zone = z)
    <3>1. addresses'[i] = addresses[i]
      BY <2>2 DEF C!D!RemoveDeliveryZone
    <3>. QED BY <3>1, <1>1, SavedAre
  <2>. QED BY <2>1, <2>2
<1>3. addresses' = [i \in C!D!AddressIds |-> addresses'[i]]
  BY DEF C!D!RemoveDeliveryZone
<1>4. AddressTables' /\ AddressesKeep /\ nextAddress' \in Int
  BY <1>1, <1>2, <1>3, AddressesFit
<1>. QED BY <1>4, AddressRequestsStay DEF AddressInv, C!D!RemoveDeliveryZone

LEMMA AddressInit == C!D!Init => AddressInv
<1>. SUFFICES ASSUME C!D!Init
              PROVE  AddressInv
  OBVIOUS
<1>1. AddressTables
  BY AddressAssumed DEF C!D!Init, AddressTables, C!D!Saved, C!D!Defaults,
     DefaultIsSupported, C!DefaultIsSupported, C!D!DefaultIsSupported
<1>2. \A r \in Pair : pcOfAddress[r] = "idle" /\ jobOfAddress[r] = C!D!NoJob
  BY DEF C!D!Init
<1>3. AddressesInHand
  BY <1>2, AddressJobsAre DEF C!D!Init, AddressesInHand, AddressFits, AddressKnown
<1>. QED BY <1>1, <1>3 DEF AddressInv

LEMMA AddressNext == AddressInv /\ [C!D!Next]_(C!D!vars) => AddressInv'
<1>. SUFFICES ASSUME AddressInv, [C!D!Next]_(C!D!vars)
              PROVE  AddressInv'
  OBVIOUS
<1>1. ASSUME NEW r \in Pair, NEW place \in Places,
             C!D!OrderAddress(r, place) \/ \E w \in BOOLEAN : C!D!Create(r, place, w)
      PROVE  AddressInv'
  BY <1>1, OrderAddressIsFound, AddressIsCreated
<1>2. ASSUME NEW r \in Pair, NEW i \in C!D!AddressIds, C!D!SetDefault(r, i) \/ C!D!Remove(r, i)
      PROVE  AddressInv'
  BY <1>2, DefaultIsRequested, AddressIsGivenUp
<1>3. ASSUME NEW r \in Pair, C!D!Choose(r) \/ C!D!Insert(r) \/ C!D!OrderWithAddress(r)
      PROVE  AddressInv'
  BY <1>3, AddressDefaultIsChosen, AddressIsInserted, AddressIsOrderedTo
<1>4. ASSUME NEW r \in Pair, C!D!ClearDefaults(r) \/ C!D!BecomesDefault(r)
      PROVE  AddressInv'
  BY <1>4, DefaultsAreFound, AddressBecomesDefault
<1>5. ASSUME NEW r \in Pair, C!D!FindReplacement(r) \/ C!D!Delete(r)
      PROVE  AddressInv'
  BY <1>5, ReplacementIsFound, AddressIsDeleted
<1>6. ASSUME NEW r \in Pair, C!D!RequestDies(r)
      PROVE  AddressInv'
  BY <1>6, QuietAddresses, AddressRequestEnds DEF C!D!RequestDies, AddressInv
<1>7. ASSUME NEW z \in Zones,
             C!D!RemoveDeliveryZone(z) \/ \E s \in {"active", "inactive"} : C!D!PutZone(z, s)
      PROVE  AddressInv'
  BY <1>7, ZoneIsRemoved, ZoneIsPut
<1>8. ASSUME NEW a \in Areas,
             C!D!RemoveDeliveryArea(a) \/ \E row \in C!D!AreaRows : C!D!PutArea(a, row)
      PROVE  AddressInv'
  <2>1. areas' \in [Areas -> C!D!AreaRows \cup {C!D!NoArea}]
    BY <1>8 DEF C!D!RemoveDeliveryArea, C!D!PutArea, AddressInv, AddressTables
  <2>. QED BY <1>8, <2>1, AreasAreWritten DEF C!D!RemoveDeliveryArea, C!D!PutArea
<1>9. CASE UNCHANGED C!D!vars
  <2>1. UNCHANGED <<zones, areas, addresses, nextAddress, pcOfAddress, jobOfAddress>>
    BY <1>9 DEF C!D!vars
  <2>. QED BY <2>1, QuietAddresses, AddressRequestsStay DEF AddressInv
<1>. QED BY <1>1, <1>2, <1>3, <1>4, <1>5, <1>6, <1>7, <1>8, <1>9 DEF C!D!Next

LEMMA AddressInvHolds == C!D!Spec => []AddressInv
BY AddressInit, AddressNext, PTL DEF C!D!Spec

\* The default address of a customer was found supported, whatever requests save,
\* choose, delete and order to addresses at once, and zones come and go.
THEOREM DefaultsAreSupported == C!D!Spec => []DefaultIsSupported
<1>1. AddressInv => DefaultIsSupported
  BY DEF AddressInv, AddressTables
<1>. QED BY <1>1, AddressInvHolds, PTL

\* Whichever of them is the default, one that stays there stays it, or another
\* becomes it.
LEMMA DefaultStays ==
  ASSUME AddressInv,
         \A i \in C!D!Defaults :
           \/ addresses'[i] = C!D!NoAddress
           \/ \E k \in C!D!AddressIds : /\ addresses'[k] # C!D!NoAddress
                                        /\ addresses'[k].isDefault
  PROVE  C!D!Defaults # {} /\ C!D!Defaults' = {} =>
           \E i \in C!D!Defaults : addresses'[i] = C!D!NoAddress
BY AddressConstantsStay DEF C!D!Defaults, C!D!Saved

LEMMA DefaultsAre ==
  ASSUME AddressInv, NEW i \in C!D!Defaults
  PROVE  /\ i \in C!D!AddressIds /\ i \in C!D!Saved /\ i < nextAddress
         /\ addresses[i] \in C!D!Addresses /\ addresses[i].isDefault
BY SavedAre DEF C!D!Defaults, C!D!Saved

\* A customer loses the default address only by deleting it: whatever else is
\* saved, chosen or ordered to at once leaves or makes one the default.
THEOREM DefaultsLostByDeletion == C!D!Spec => DefaultLostByDeletion
<1>. DEFINE P == C!D!Defaults # {} /\ C!D!Defaults' = {} =>
                   \E i \in C!D!Defaults : addresses'[i] = C!D!NoAddress
            Stays(i) == \/ addresses'[i] = C!D!NoAddress
                        \/ \E k \in C!D!AddressIds : /\ addresses'[k] # C!D!NoAddress
                                                     /\ addresses'[k].isDefault
<1>1. ASSUME AddressInv, C!D!Next
      PROVE  P
  <2>. SUFFICES ASSUME NEW i \in C!D!Defaults
                PROVE  Stays(i)
    BY <1>1, DefaultStays
  <2>1. CASE UNCHANGED addresses
    BY <1>1, <2>1, DefaultsAre, AddressShape
  <2>2. ASSUME NEW r \in Pair, C!D!Insert(r), ~UNCHANGED addresses
        PROVE  Stays(i)
    <3>. DEFINE j == jobOfAddress[r]
                new == [place |-> j.place, status |-> j.to.status, zone |-> j.to.zone,
                        isDefault |-> j.isDefault]
                clear == j.clear
    <3>1. addresses' = [C!D!Cleared(clear) EXCEPT ![nextAddress] = new]
          /\ nextAddress \in C!D!AddressIds
      BY <2>2 DEF C!D!Insert
    <3>2. /\ j \in [place: Places, to: C!D!Resolutions, isDefault: BOOLEAN,
                    clear: SUBSET C!D!AddressIds]
          /\ clear # {} => j.isDefault
      BY <1>1, <2>2, AddressJobsAre
         DEF C!D!Insert, AddressInv, AddressesInHand, AddressFits, AddressKnown
    <3>3. new \in C!D!Addresses
      BY <3>2 DEF C!D!Addresses, C!D!Resolutions
    <3>4. C!D!Cleared(clear) \in [C!D!AddressIds -> C!D!Addresses \cup {C!D!NoAddress}]
      BY <1>1, ClearedAre
    <3>5. CASE clear = {}
      <4>1. addresses'[i] = C!D!Cleared(clear)[i]
        BY <1>1, <3>1, <3>4, DefaultsAre DEF C!D!AddressIds
      <4>2. addresses'[i] \in C!D!Addresses /\ addresses'[i].isDefault
        BY <1>1, <3>5, <4>1, ClearedAre, DefaultsAre
      <4>. QED BY <4>2, <1>1, DefaultsAre, AddressShape
    <3>6. CASE clear # {}
      <4>. HIDE DEF new
      <4>1. addresses'[nextAddress] = new
        BY <3>1, <3>4
      <4>2. new.isDefault
        BY <3>2, <3>6 DEF new
      <4>. QED BY <3>1, <3>3, <4>1, <4>2, AddressShape
    <3>. QED BY <3>5, <3>6
  <2>3. ASSUME NEW r \in Pair, C!D!OrderWithAddress(r), ~UNCHANGED addresses
        PROVE  Stays(i)
    <3>. DEFINE j == jobOfAddress[r]
    <3>1. C!D!Unchanged(j) /\ C!D!SaveOrderAddress(j)
      BY <2>3 DEF C!D!OrderWithAddress
    <3>2. addresses = [l \in C!D!AddressIds |-> addresses[l]]
      BY <1>1 DEF AddressInv, AddressTables
    <3>3. CASE j.existing = i
      <4>1. j.row = addresses[i] /\ j.existing # 0
        BY <1>1, <3>1, <3>3, DefaultsAre DEF C!D!Unchanged, C!D!AddressIds
      <4>2. addresses'[i] = C!D!Written(j, j.row.isDefault)
        BY <1>1, <3>1, <3>2, <3>3, <4>1, DefaultsAre DEF C!D!SaveOrderAddress
      <4>3. addresses'[i].isDefault /\ addresses'[i] # C!D!NoAddress
        BY <1>1, <4>1, <4>2, DefaultsAre DEF C!D!Written, C!D!NoAddress
      <4>. QED BY <1>1, <4>3, DefaultsAre
    <3>4. CASE j.existing # i
      <4>1. i # nextAddress
        BY <1>1, DefaultsAre DEF C!D!AddressIds
      <4>2. addresses'[i] = addresses[i]
        BY <1>1, <3>1, <3>2, <3>4, <4>1, DefaultsAre DEF C!D!SaveOrderAddress
      <4>. QED BY <1>1, <4>2, DefaultsAre, AddressShape
    <3>. QED BY <3>3, <3>4
  <2>4. ASSUME NEW r \in Pair, C!D!BecomesDefault(r), ~UNCHANGED addresses
        PROVE  Stays(i)
    <3>1. PICK k, clear :
            /\ k = jobOfAddress[r].address /\ k \in C!D!Saved
            /\ addresses' = [C!D!Cleared(clear) EXCEPT ![k].isDefault = TRUE]
      BY <2>4 DEF C!D!BecomesDefault
    <3>2. /\ C!D!Cleared(clear) \in [C!D!AddressIds -> C!D!Addresses \cup {C!D!NoAddress}]
          /\ C!D!Cleared(clear)[k] \in C!D!Addresses /\ k \in C!D!AddressIds
      BY <1>1, <3>1, ClearedAre DEF C!D!Saved
    <3>3. PICK old : old = C!D!Cleared(clear)[k]
      OBVIOUS
    <3>4. addresses'[k] = [old EXCEPT !.isDefault = TRUE]
      BY <3>1, <3>2, <3>3
    <3>5. [old EXCEPT !.isDefault = TRUE] \in C!D!Addresses
          /\ [old EXCEPT !.isDefault = TRUE].isDefault
      BY <3>2, <3>3 DEF C!D!Addresses
    <3>. QED BY <3>2, <3>4, <3>5, AddressShape
  <2>5. ASSUME NEW r \in Pair, C!D!Delete(r), ~UNCHANGED addresses
        PROVE  Stays(i)
    <3>1. PICK d, k :
            /\ d = jobOfAddress[r].address /\ k = jobOfAddress[r].replacement
            /\ addresses' = [l \in C!D!AddressIds |->
                 IF l = d THEN C!D!NoAddress
                 ELSE IF l = k THEN [addresses[k] EXCEPT !.isDefault = TRUE] ELSE addresses[l]]
      BY <2>5 DEF C!D!Delete
    <3>2. i \in C!D!AddressIds /\ addresses[i] \in C!D!Addresses /\ addresses[i].isDefault
      BY <1>1, DefaultsAre
    <3>3. CASE i = d
      BY <3>1, <3>2, <3>3
    <3>4. CASE i # d /\ i = k
      <4>1. PICK old : old = addresses[k]
        OBVIOUS
      <4>2. addresses'[i] = [old EXCEPT !.isDefault = TRUE]
        BY <3>1, <3>2, <3>4, <4>1
      <4>3. [old EXCEPT !.isDefault = TRUE] \in C!D!Addresses
            /\ [old EXCEPT !.isDefault = TRUE].isDefault
        BY <3>2, <3>4, <4>1 DEF C!D!Addresses
      <4>. QED BY <3>2, <4>2, <4>3, AddressShape
    <3>5. CASE i # d /\ i # k
      <4>1. addresses'[i] = addresses[i]
        BY <3>1, <3>2, <3>5
      <4>. QED BY <3>2, <4>1, AddressShape
    <3>. QED BY <3>3, <3>4, <3>5
  <2>6. ASSUME NEW z \in Zones, C!D!RemoveDeliveryZone(z)
        PROVE  Stays(i)
    <3>1. i \in C!D!AddressIds /\ addresses[i] \in C!D!Addresses /\ addresses[i].isDefault
      BY <1>1, DefaultsAre
    <3>2. PICK old : old = addresses[i]
      OBVIOUS
    <3>3. addresses'[i] \in {old, [old EXCEPT !.zone = "none"]}
      BY <2>6, <3>1, <3>2 DEF C!D!RemoveDeliveryZone
    <3>4. [old EXCEPT !.zone = "none"] \in C!D!Addresses
          /\ [old EXCEPT !.zone = "none"].isDefault
      BY <3>1, <3>2 DEF C!D!Addresses
    <3>. QED BY <3>1, <3>2, <3>3, <3>4, AddressShape
  <2>7. ASSUME NEW r \in Pair,
               \/ C!D!Choose(r) \/ C!D!ClearDefaults(r) \/ C!D!FindReplacement(r)
               \/ C!D!RequestDies(r)
        PROVE  UNCHANGED addresses
    BY <2>7 DEF C!D!Choose, C!D!ClearDefaults, C!D!FindReplacement, C!D!RequestDies
  <2>8. ASSUME NEW r \in Pair, NEW place \in Places,
               C!D!OrderAddress(r, place) \/ \E w \in BOOLEAN : C!D!Create(r, place, w)
        PROVE  UNCHANGED addresses
    BY <2>8 DEF C!D!OrderAddress, C!D!Create
  <2>9. ASSUME NEW r \in Pair, NEW k \in C!D!AddressIds, C!D!SetDefault(r, k) \/ C!D!Remove(r, k)
        PROVE  UNCHANGED addresses
    BY <2>9 DEF C!D!SetDefault, C!D!Remove
  <2>10. ASSUME NEW z \in Zones, NEW s \in {"active", "inactive"}, C!D!PutZone(z, s)
         PROVE  UNCHANGED addresses
    BY <2>10 DEF C!D!PutZone
  <2>11. ASSUME NEW a \in Areas,
                C!D!RemoveDeliveryArea(a) \/ \E row \in C!D!AreaRows : C!D!PutArea(a, row)
         PROVE  UNCHANGED addresses
    BY <2>11 DEF C!D!RemoveDeliveryArea, C!D!PutArea
  <2>. HIDE DEF Stays
  <2>. QED BY <1>1, <2>1, <2>2, <2>3, <2>4, <2>5, <2>6, <2>7, <2>8, <2>9, <2>10, <2>11
           DEF C!D!Next
<1>2. AddressInv /\ [C!D!Next]_(C!D!vars) => [P]_(C!D!vars)
  BY <1>1
<1>3. [P]_(C!D!vars) <=>
        [C!D!Defaults # {} /\ C!D!Defaults' = {} =>
           \E i \in C!D!Defaults : addresses'[i] = C!D!NoAddress]_(C!D!vars)
  OBVIOUS
<1>. QED BY <1>2, <1>3, AddressInvHolds, PTL
         DEF C!D!Spec, DefaultLostByDeletion, C!DefaultLostByDeletion, C!D!DefaultLostByDeletion

-----------------------------------------------------------------------------
(* Wishlists: what is decided for an item follows from the prices that     *)
(* were seen for it, and only what is matched is ordered.                  *)

WishItem(i) == i = [product |-> i.product, offering |-> i.offering, unit |-> i.unit]

WishInv ==
  /\ active \subseteq C!L!Ids
  /\ wish # C!L!NoWish =>
       /\ wish = [stage |-> wish.stage, item |-> wish.item, seen |-> wish.seen,
                  outcome |-> C!L!ResolveItem(wish.item, wish.seen)]
       /\ WishItem(wish.item) /\ wish.seen \subseteq C!L!Ids
       /\ wish.stage = "ordered" => wish.outcome.status = "matched"

\* What module WishlistPrices counts is counted here the same way.
LEMMA WishesCounted ==
  \A S : (C!L!IsFiniteSet(S) <=> IsFiniteSet(S)) /\ C!L!Cardinality(S) = Cardinality(S)
BY DEF C!L!IsFiniteSet, IsFiniteSet, C!L!Cardinality, Cardinality

LEMMA WishesAssumed ==
  /\ C!L!Ids \subseteq Nat /\ IsFiniteSet(C!L!Ids)
  /\ \A p \in C!L!Ids : Offers[p].cost \in Nat
  /\ \A i \in Wishes : WishItem(i)
BY MCCheckoutAssumption, WishesCounted
  DEF C!MCCatalogueAssumption, C!L!WishlistPricesAssumption, C!L!Ids, WishItem

\* Some natural number of a set is the smallest.
LEMMA SmallestNat ==
  ASSUME NEW S \in SUBSET Nat, S # {}
  PROVE  \E n \in S : \A m \in S : n <= m
<1>1. PICK n \in S : \A m \in S : <<m, n>> \notin OpToRel(<, Nat)
  BY NatLessThanWellFounded, WFMin, Zenon
<1>2. \A m \in S : ~(m < n)
  BY <1>1, Zenon DEF OpToRel
<1> QED
  BY <1>2

\* The cheapest of some prices is one of them, and none costs less.
LEMMA CheapestIsCheapest ==
  ASSUME NEW rows \in SUBSET C!L!Ids, rows # {}
  PROVE  /\ C!L!Cheapest(rows) \in rows
         /\ \A q \in rows : Offers[C!L!Cheapest(rows)].cost <= Offers[q].cost
<1> DEFINE costs == {Offers[p].cost : p \in rows}
<1>1. costs \in SUBSET Nat /\ costs # {}
  BY WishesAssumed
<1>2. PICK c \in costs : \A d \in costs : c <= d
  BY <1>1, SmallestNat
<1> DEFINE least == {p \in rows : Offers[p].cost = c}
<1>3. least \in SUBSET Nat /\ least # {}
  BY <1>2, WishesAssumed
<1>4. PICK p \in least : \A q \in least : p <= q
  BY <1>3, SmallestNat
<1>5. p \in rows /\ \A q \in rows :
        Offers[p].cost < Offers[q].cost \/ (Offers[p].cost = Offers[q].cost /\ p <= q)
  BY <1>2, <1>4, WishesAssumed
<1>6. /\ C!L!Cheapest(rows) \in rows
      /\ \A q \in rows :
           \/ Offers[C!L!Cheapest(rows)].cost < Offers[q].cost
           \/ /\ Offers[C!L!Cheapest(rows)].cost = Offers[q].cost
              /\ C!L!Cheapest(rows) <= q
  BY <1>5 DEF C!L!Cheapest
<1>7. \A q \in rows : Offers[q].cost \in Nat
  BY WishesAssumed
<1> HIDE DEF costs, least
<1> QED
  BY <1>6, <1>7

\* The prices of a product and a unit, and of an offering if one is named.
WishFits(i, seen) ==
  {p \in seen : /\ Offers[p].product = i.product /\ Offers[p].unit = i.unit
                /\ i.offering \in {Absent, Offers[p].offering}}

LEMMA WishForAnOffering ==
  ASSUME NEW i, NEW seen \in SUBSET C!L!Ids, i.offering # Absent
  PROVE  C!L!ResolveItem(i, seen) =
           IF WishFits(i, seen) = {} THEN C!L!UnavailableItem(i, seen)
           ELSE C!L!MatchedItem(C!L!Cheapest(WishFits(i, seen)))
<1> DEFINE matching == {p \in C!L!PricesOfProduct(i, seen) : Offers[p].unit = i.unit}
           exact == {p \in matching : Offers[p].offering = i.offering}
<1>1. exact = WishFits(i, seen)
  BY DEF C!L!PricesOfProduct, WishFits
<1>2. C!L!ResolveItem(i, seen) =
        IF exact = {} THEN C!L!UnavailableItem(i, seen) ELSE C!L!MatchedItem(C!L!Cheapest(exact))
  BY DEF C!L!ResolveItem
<1> QED
  BY <1>1, <1>2

LEMMA WishForAnyOffering ==
  ASSUME NEW i, NEW seen \in SUBSET C!L!Ids, i.offering = Absent
  PROVE  LET fit == WishFits(i, seen)
             detailed == {p \in fit : Offers[p].offering # Absent}
         IN C!L!ResolveItem(i, seen) =
              IF fit = {} THEN C!L!UnavailableItem(i, seen)
              ELSE IF Cardinality(detailed) > 1 \/ (detailed # {} /\ detailed # fit)
              THEN [status |-> "needs_confirmation", choices |-> detailed]
              ELSE C!L!MatchedItem(C!L!Cheapest(fit))
<1> DEFINE fit == WishFits(i, seen)
           matching == {p \in C!L!PricesOfProduct(i, seen) : Offers[p].unit = i.unit}
           detailed(some) == {p \in some : Offers[p].offering # Absent}
<1>1. matching = fit
  BY DEF C!L!PricesOfProduct, WishFits
<1>2. C!L!ResolveItem(i, seen) =
        IF matching = {} THEN C!L!UnavailableItem(i, seen)
        ELSE IF C!L!Cardinality(detailed(matching)) > 1
                \/ (detailed(matching) # {} /\ detailed(matching) # matching)
        THEN [status |-> "needs_confirmation", choices |-> detailed(matching)]
        ELSE C!L!MatchedItem(C!L!Cheapest(matching))
  BY DEF C!L!ResolveItem
<1> HIDE DEF matching, fit
<1> QED
  BY <1>1, <1>2, WishesCounted DEF fit

\* Of a set of which no two are counted, any two are the same.
LEMMA NoTwo ==
  ASSUME NEW S, IsFiniteSet(S), ~(Cardinality(S) > 1), NEW x \in S, NEW y \in S
  PROVE  x = y
<1>1. Cardinality(S) \in Nat /\ IsFiniteSet(S \ {x})
  BY FS_CardinalityType, FS_RemoveElement
<1>2. Cardinality(S \ {x}) = Cardinality(S) - 1
  BY FS_RemoveElement
<1>3. Cardinality(S \ {x}) = 0
  BY <1>1, <1>2, FS_CardinalityType
<1> QED
  BY <1>1, <1>3, FS_EmptySet

\* What ResolveItem answers for an item and the prices that were seen.
WishRightly(i, seen, out) ==
  LET fit == WishFits(i, seen)
  IN /\ out.status = "matched" => out.price \in fit /\ \A p \in fit :
          /\ Offers[p].offering = Offers[out.price].offering
          /\ Offers[p].cost >= Offers[out.price].cost
     /\ out.status = "needs_confirmation" => \A p \in out.choices :
          LET chosen == C!L!ResolveItem([i EXCEPT !.offering = Offers[p].offering], seen)
          IN chosen.status = "matched" /\ Offers[chosen.price].cost <= Offers[p].cost
     /\ out.status = "unavailable" => fit = {} /\ \A u \in out.units :
          C!L!ResolveItem([i EXCEPT !.offering = Absent, !.unit = u], seen).status # "unavailable"

LEMMA ResolveItemIsRight ==
  ASSUME NEW i, WishItem(i), NEW seen \in SUBSET C!L!Ids
  PROVE  WishRightly(i, seen, C!L!ResolveItem(i, seen))
<1> DEFINE out == C!L!ResolveItem(i, seen)
           fit == WishFits(i, seen)
           detailed == {p \in fit : Offers[p].offering # Absent}
<1>1. fit \in SUBSET C!L!Ids /\ \A p \in fit : Offers[p].cost \in Nat
  BY WishesAssumed DEF WishFits
<1>2. /\ i.offering # Absent => out =
           IF fit = {} THEN C!L!UnavailableItem(i, seen) ELSE C!L!MatchedItem(C!L!Cheapest(fit))
      /\ i.offering = Absent => out =
           IF fit = {} THEN C!L!UnavailableItem(i, seen)
           ELSE IF Cardinality(detailed) > 1 \/ (detailed # {} /\ detailed # fit)
           THEN [status |-> "needs_confirmation", choices |-> detailed]
           ELSE C!L!MatchedItem(C!L!Cheapest(fit))
  BY WishForAnOffering, WishForAnyOffering
<1> HIDE DEF out
<1>3. ASSUME out.status = "matched"
      PROVE  out.price \in fit /\ \A p \in fit : /\ Offers[p].offering = Offers[out.price].offering
                                                /\ Offers[p].cost >= Offers[out.price].cost
  <2>1. fit # {} /\ out = C!L!MatchedItem(C!L!Cheapest(fit))
    BY <1>2, <1>3 DEF C!L!UnavailableItem
  <2>2. out.price \in fit /\ \A p \in fit : Offers[out.price].cost <= Offers[p].cost
    BY <1>1, <2>1, CheapestIsCheapest DEF C!L!MatchedItem
  <2>3. \A p \in fit : Offers[p].offering = Offers[out.price].offering
    <3>1. CASE i.offering # Absent
      BY <3>1, <2>2 DEF WishFits
    <3>2. CASE i.offering = Absent
      <4>1. ~(Cardinality(detailed) > 1) /\ (detailed = {} \/ detailed = fit)
        BY <1>2, <1>3, <3>2, <2>1
      <4>2. IsFiniteSet(detailed)
        BY <1>1, WishesAssumed, FS_Subset
      <4>3. CASE detailed = {}
        BY <4>3, <2>2
      <4>4. CASE detailed = fit
        BY <4>1, <4>2, <4>4, <2>2, NoTwo
      <4> QED BY <4>1, <4>3, <4>4
    <3> QED BY <3>1, <3>2
  <2> QED BY <1>1, <2>2, <2>3
<1>4. ASSUME out.status = "needs_confirmation", NEW p \in out.choices
      PROVE  LET chosen == C!L!ResolveItem([i EXCEPT !.offering = Offers[p].offering], seen)
             IN chosen.status = "matched" /\ Offers[chosen.price].cost <= Offers[p].cost
  <2> DEFINE item == [i EXCEPT !.offering = Offers[p].offering]
  <2>1. i.offering = Absent /\ p \in detailed
    BY <1>2, <1>4 DEF C!L!UnavailableItem, C!L!MatchedItem
  <2>2. item.offering = Offers[p].offering /\ item.product = i.product /\ item.unit = i.unit
    BY DEF WishItem
  <2>3. p \in WishFits(item, seen) /\ WishFits(item, seen) \in SUBSET C!L!Ids
    BY <2>1, <2>2 DEF WishFits
  <2>4. C!L!ResolveItem(item, seen) = C!L!MatchedItem(C!L!Cheapest(WishFits(item, seen)))
    BY <2>1, <2>2, <2>3, WishForAnOffering
  <2>5. Offers[C!L!Cheapest(WishFits(item, seen))].cost <= Offers[p].cost
    BY <2>3, CheapestIsCheapest
  <2> QED BY <2>4, <2>5 DEF C!L!MatchedItem
<1>5. ASSUME out.status = "unavailable"
      PROVE  /\ fit = {}
             /\ \A u \in out.units :
                  C!L!ResolveItem([i EXCEPT !.offering = Absent, !.unit = u], seen).status
                    # "unavailable"
  <2>1. fit = {} /\ out = C!L!UnavailableItem(i, seen)
    BY <1>2, <1>5 DEF C!L!MatchedItem
  <2>2. ASSUME NEW u \in out.units
        PROVE  C!L!ResolveItem([i EXCEPT !.offering = Absent, !.unit = u], seen).status
                 # "unavailable"
    <3> DEFINE item == [i EXCEPT !.offering = Absent, !.unit = u]
    <3>1. item.offering = Absent /\ item.product = i.product /\ item.unit = u
      BY DEF WishItem
    <3>2. PICK p \in seen : Offers[p].product = i.product /\ Offers[p].unit = u
      BY <2>1 DEF C!L!UnavailableItem, C!L!PricesOfProduct
    <3>3. p \in WishFits(item, seen)
      BY <3>1, <3>2 DEF WishFits
    <3> HIDE DEF item
    <3> DEFINE some == {q \in WishFits(item, seen) : Offers[q].offering # Absent}
    <3>4. C!L!ResolveItem(item, seen) \in
            {[status |-> "needs_confirmation", choices |-> some],
             C!L!MatchedItem(C!L!Cheapest(WishFits(item, seen)))}
      BY <3>1, <3>3, WishForAnyOffering
    <3> HIDE DEF some
    <3>5. C!L!ResolveItem(item, seen).status \in {"needs_confirmation", "matched"}
      BY <3>4 DEF C!L!MatchedItem
    <3> QED BY <3>5 DEF item
  <2> QED BY <2>1, <2>2
<1> QED
  BY <1>3, <1>4, <1>5 DEF WishRightly, out

LEMMA WishInvInit == C!L!Init => WishInv
BY DEF C!L!Init, WishInv

LEMMA WishInvNext == WishInv /\ [C!L!Next]_(C!L!vars) => WishInv'
<1> SUFFICES ASSUME WishInv, [C!L!Next]_(C!L!vars)
             PROVE  WishInv'
  OBVIOUS
<1> USE DEF WishInv
<1>1. ASSUME NEW item \in Wishes, C!L!ResolveItems(item)
      PROVE  WishInv'
  <2>1. wish' = [stage |-> "resolved", item |-> item, seen |-> active,
                 outcome |-> C!L!ResolveItem(item, active)] /\ UNCHANGED active
    BY <1>1 DEF C!L!ResolveItems
  <2> QED BY <2>1, WishesAssumed
<1>2. ASSUME C!L!OrderItem
      PROVE  WishInv'
  <2>1. PICK s : wish' = [wish EXCEPT !.stage = s] /\ wish.outcome.status = "matched"
                 /\ wish.stage = "resolved" /\ UNCHANGED active
    BY <1>2 DEF C!L!OrderItem
  <2>2. wish # C!L!NoWish
    BY <2>1 DEF C!L!NoWish
  <2> QED BY <2>1, <2>2
<1>3. ASSUME NEW p \in C!L!Ids, C!L!ChooseOffering(p)
      PROVE  WishInv'
  <2>1. PICK item : /\ item = [wish.item EXCEPT !.offering = Offers[p].offering]
                    /\ wish' = [wish EXCEPT !.item = item, !.seen = active,
                                            !.outcome = C!L!ResolveItem(item, active)]
                    /\ wish.stage = "resolved" /\ UNCHANGED active
    BY <1>3 DEF C!L!ChooseOffering
  <2>2. wish # C!L!NoWish
    BY <2>1 DEF C!L!NoWish
  <2>3. WishItem(item)
    BY <2>1, <2>2 DEF WishItem
  <2>4. wish' = [stage |-> "resolved", item |-> item, seen |-> active,
                 outcome |-> C!L!ResolveItem(item, active)]
    BY <2>1, <2>2
  <2> QED BY <2>1, <2>3, <2>4
<1>4. ASSUME NEW p \in C!L!Ids, C!L!SwitchPrice(p)
      PROVE  WishInv'
  BY <1>4 DEF C!L!SwitchPrice
<1>5. ASSUME UNCHANGED C!L!vars
      PROVE  WishInv'
  BY <1>5 DEF C!L!vars
<1> QED
  BY <1>1, <1>2, <1>3, <1>4, <1>5 DEF C!L!Next

LEMMA WishInvRight == WishInv => C!L!WishesAreNotGuessed
<1> SUFFICES ASSUME WishInv, wish # C!L!NoWish
             PROVE  C!L!WishesAreNotGuessed
  BY DEF C!L!WishesAreNotGuessed
<1>1. WishRightly(wish.item, wish.seen, wish.outcome)
  <2>1. wish.outcome = C!L!ResolveItem(wish.item, wish.seen)
    BY DEF WishInv
  <2>2. WishItem(wish.item) /\ wish.seen \in SUBSET C!L!Ids
    BY DEF WishInv
  <2> QED BY <2>1, <2>2, ResolveItemIsRight
<1>2. wish.stage = "ordered" => wish.outcome.status = "matched"
  BY DEF WishInv
<1> QED
  BY <1>1, <1>2 DEF WishRightly, WishFits, C!L!WishesAreNotGuessed

LEMMA WishesNotGuessed == C!L!Spec => []C!L!WishesAreNotGuessed
BY WishInvInit, WishInvNext, WishInvRight, PTL DEF C!L!Spec

-----------------------------------------------------------------------------
(* Orders that are written out: what a text is taken for follows from what *)
(* was read for it, and stays so until the customer chooses.               *)

TextInv ==
  /\ available \subseteq DOMAIN PriceList /\ sold \subseteq Products
  /\ \/ text \in {C!O!Empty, [at |-> "refused"]}
     \/ /\ text = [at |-> "reading", line |-> text.line, catalog |-> text.catalog,
                   products |-> text.products]
        /\ text.line \in Lines
        /\ text.catalog \subseteq SUBSET DOMAIN PriceList /\ text.products \subseteq SUBSET Products
     \/ /\ text = [at |-> text.at, line |-> text.line, catalog |-> text.catalog,
                   products |-> text.products, item |-> text.item, chosen |-> text.chosen]
        /\ text.at \in {"shown", "quoted"} /\ text.line \in Lines
        /\ text.catalog \subseteq DOMAIN PriceList /\ text.products \subseteq Products
        /\ ~text.chosen =>
             text.item \in C!O!NormalizeItem(text.line, text.catalog, text.products)

\* What module OrderText counts is counted here the same way.
LEMMA TextsCounted ==
  \A S : (C!O!IsFiniteSet(S) <=> IsFiniteSet(S)) /\ C!O!Cardinality(S) = Cardinality(S)
BY DEF C!O!IsFiniteSet, IsFiniteSet, C!O!Cardinality, Cardinality

LEMMA TextsAssumed ==
  /\ \A x \in Products : Name[x] \in Seq(STRING)
  /\ IsFiniteSet(DOMAIN PriceList)
  /\ \A texts \in DOMAIN Likeness : Likeness[texts] \in 1..99
BY MCCheckoutAssumption, TextsCounted
  DEF C!MCCatalogueAssumption, C!O!OrderTextAssumption

\* A text is part of itself, and how alike two texts are is a number.
LEMMA WithinItself == \A s \in Seq(STRING) : C!O!Within(s, s)
<1> SUFFICES ASSUME NEW s \in Seq(STRING)
             PROVE  C!O!Within(s, s)
  OBVIOUS
<1>1. s = SubSeq(s, 0 + 1, Len(s)) /\ 0 \in 0..Len(s) /\ Len(s) \in 0..Len(s)
  OBVIOUS
<1> QED
  BY <1>1 DEF C!O!Within, C!O!SubSeqs

LEMMA AlikeIsNumber == \A a, b : C!O!Alike(a, b) \in 0..100
BY TextsAssumed DEF C!O!Alike

\* Words that no product's name contains or is like are not a product, and the
\* name of a product that no other is called like is that one.
LEMMA NotAProduct ==
  ASSUME NEW products \in SUBSET Products, NEW words,
         \A y \in products : ~C!O!Within(words, Name[y]) /\ C!O!Alike(words, Name[y]) < 72
  PROVE  C!O!MatchProductStrict(words, products) = {}
<1>1. ASSUME NEW y \in products
      PROVE  words # Name[y]
  BY WithinItself, TextsAssumed
<1>2. \A y \in products : ~(C!O!Alike(words, Name[y]) >= 72)
  BY AlikeIsNumber
<1> QED
  BY <1>1, <1>2 DEF C!O!MatchProductStrict

LEMMA SurelyAProduct ==
  ASSUME NEW products \in SUBSET Products, NEW x \in products,
         \A y \in products \ {x} : C!O!Alike(Name[x], Name[y]) <= 92
  PROVE  x \in C!O!MatchProductStrict(Name[x], products)
<1> DEFINE score == [z \in products |->
             IF Name[x] = Name[z] THEN 100
             ELSE IF C!O!Within(Name[x], Name[z]) THEN 85 ELSE C!O!Alike(Name[x], Name[z])]
<1>1. score[x] = 100
  OBVIOUS
<1>2. ASSUME NEW y \in products \ {x}
      PROVE  score[y] \in 0..92
  <2>1. C!O!Alike(Name[x], Name[y]) \in 0..92
    BY AlikeIsNumber
  <2>2. Name[x] # Name[y]
    BY <2>1 DEF C!O!Alike
  <2> QED BY <2>1, <2>2
<1>3. C!O!MatchProductStrict(Name[x], products) =
        {z \in products : score[z] >= 72 /\ \A y \in products \ {z} : score[z] - score[y] >= 8}
  BY DEF C!O!MatchProductStrict
<1> HIDE DEF score
<1> QED
  BY <1>1, <1>2, <1>3

\* So a word that could be a unit, but is not, is seen.
LEMMA UnknownUnitIsSeen ==
  ASSUME NEW line, NEW products \in SUBSET Products, C!O!NamesUnknownUnit(line, products)
  PROVE  C!O!UnrecognizedUnit(line.words, products) # {}
<1> DEFINE said == C!O!Said(line.words)
<1>1. C!O!MatchProductStrict(said, products) = {}
  BY NotAProduct DEF C!O!NamesUnknownUnit
<1>2. PICK x \in products, n \in 1..2 :
        /\ n < Len(said) /\ C!O!After(said, n) = Name[x]
        /\ \A y \in products \ {x} : C!O!Alike(Name[x], Name[y]) <= 92
  BY DEF C!O!NamesUnknownUnit
<1>3. x \in C!O!MatchProductStrict(C!O!After(said, n), products)
  BY <1>2, SurelyAProduct
<1> DEFINE Rest(k) ==
             IF k < Len(said) THEN C!O!MatchProductStrict(C!O!After(said, k), products) ELSE {}
<1>4. C!O!UnrecognizedUnit(line.words, products) =
        IF C!O!MatchProductStrict(said, products) # {} THEN {}
        ELSE IF Rest(1) # {} THEN Rest(1) ELSE Rest(2)
  BY DEF C!O!UnrecognizedUnit
<1>5. Rest(n) # {} /\ n \in {1, 2}
  BY <1>2, <1>3
<1> HIDE DEF Rest, said
<1> QED
  BY <1>1, <1>4, <1>5

\* Whatever is found in a text for a product or an amount has no price.
LEMMA AmountItems ==
  ASSUME NEW words, NEW products, NEW item \in C!O!AmountItem(words, products)
  PROVE  item.status \in {"matched_amount", "product_not_found", "needs_confirmation"}
BY DEF C!O!AmountItem, C!O!NoProduct, C!O!Unclear

LEMMA UnsupportedUnits ==
  ASSUME NEW x, NEW catalog
  PROVE  C!O!UnsupportedUnitItem(x, catalog).status \in {"product_not_found", "unsupported_unit"}
BY DEF C!O!UnsupportedUnitItem, C!O!Unclear

\* How many of an offering's names are part of what was said.
NamedIn(q, said) == Cardinality({name \in PriceList[q].called : C!O!Within(name, said)})
SaidAfter(u, words) == u.hint \o C!O!WithoutOf(C!O!After(words, u.taken))

\* The other offerings of the product and the unit that a price is of.
RivalsOf(price, catalog) ==
  {q \in catalog \ {price} : /\ PriceList[q].product = PriceList[price].product
                             /\ PriceList[q].unit = PriceList[price].unit
                             /\ PriceList[q].called # {}}

\* A price that is found is of a product in the unit that was read, and no
\* other with a name is named as well.
LEMMA PriceCandidates ==
  ASSUME NEW words, NEW ps \in SUBSET DOMAIN PriceList, NEW p \in C!O!PriceCandidate(words, ps)
  PROVE  /\ p \in ps
         /\ \A q \in ps \ {p} :
              PriceList[q].called # {} => NamedIn(p, words) > NamedIn(q, words)
<1> DEFINE named(q) == C!O!Cardinality({name \in PriceList[q].called : C!O!Within(name, words)})
           detailed == {q \in ps : PriceList[q].called # {}}
<1>1. C!O!PriceCandidate(words, ps) =
        IF C!O!Cardinality(ps) = 1 THEN ps
        ELSE IF detailed = {}
        THEN {r \in ps : \A q \in ps : PriceList[r].cost <= PriceList[q].cost}
        ELSE {r \in detailed : named(r) > 0 /\ \A q \in detailed \ {r} : named(r) > named(q)}
  BY DEF C!O!PriceCandidate
<1>2. p \in ps /\ \A q \in ps \ {p} : q \in detailed => named(p) > named(q)
  <2>1. CASE C!O!Cardinality(ps) = 1
    <3>1. IsFiniteSet(ps) /\ ~(Cardinality(ps) > 1)
      BY <2>1, TextsAssumed, TextsCounted, FS_Subset
    <3>2. p \in ps /\ ps \ {p} = {}
      <4>1. p \in ps
        BY <1>1, <2>1
      <4> QED BY <4>1, <3>1, NoTwo
    <3> QED BY <3>2
  <2>2. CASE C!O!Cardinality(ps) # 1 /\ detailed = {}
    <3>1. p \in ps
      BY <1>1, <2>2
    <3> QED BY <2>2, <3>1
  <2>3. CASE C!O!Cardinality(ps) # 1 /\ detailed # {}
    <3> HIDE DEF named
    <3>1. p \in detailed /\ \A q \in detailed \ {p} : named(p) > named(q)
      BY <1>1, <2>3
    <3> QED BY <3>1
  <2> QED BY <2>1, <2>2, <2>3
<1>3. \A q : named(q) = NamedIn(q, words)
  BY TextsCounted DEF NamedIn
<1> HIDE DEF named
<1> QED
  BY <1>2, <1>3

\* What is read as a number of units is matched to such a price, if to any.
LEMMA UnitItems ==
  ASSUME NEW u, NEW words, NEW catalog \in SUBSET DOMAIN PriceList,
         NEW item \in C!O!UnitItem(u, words, catalog)
  PROVE  /\ item.status # "matched_amount"
         /\ item.status = "matched" => \A q \in RivalsOf(item.price, catalog) :
              NamedIn(item.price, SaidAfter(u, words)) > NamedIn(q, SaidAfter(u, words))
<1> DEFINE said == C!O!WithoutOf(C!O!After(words, u.taken))
           match == C!O!MatchProduct(said, {PriceList[p].product : p \in catalog})
           Of(x) == {p \in C!O!PricesOf(x, catalog) : PriceList[p].unit = u.unit}
           found(x) == C!O!PriceCandidate(u.hint \o said, Of(x))
           Item(x) == IF Of(x) = {} THEN {C!O!UnsupportedUnitItem(x, catalog)}
                      ELSE IF found(x) = {} THEN {C!O!Unclear("needs_confirmation", Of(x))}
                      ELSE {[status |-> "matched", price |-> p] : p \in found(x)}
<1>1. item \in IF match.product = {} THEN {C!O!NoProduct(match)}
               ELSE UNION {Item(x) : x \in match.product}
  BY DEF C!O!UnitItem
<1>2. CASE item = C!O!NoProduct(match)
  BY <1>2 DEF C!O!NoProduct, C!O!Unclear
<1>3. CASE \E x \in match.product : item \in Item(x)
  <2>1. PICK x \in match.product : item \in Item(x)
    BY <1>3
  <2> HIDE DEF match
  <2>2. CASE item = C!O!UnsupportedUnitItem(x, catalog)
    BY <2>2, UnsupportedUnits
  <2>3. CASE item = C!O!Unclear("needs_confirmation", Of(x))
    BY <2>3 DEF C!O!Unclear
  <2>4. CASE \E p \in found(x) : item = [status |-> "matched", price |-> p]
    <3>1. PICK p \in found(x) : item = [status |-> "matched", price |-> p]
      BY <2>4
    <3>2. Of(x) \in SUBSET DOMAIN PriceList
      BY DEF C!O!PricesOf
    <3>3. p \in Of(x) /\ \A q \in Of(x) \ {p} : PriceList[q].called # {} =>
             NamedIn(p, u.hint \o said) > NamedIn(q, u.hint \o said)
      BY <3>1, <3>2, PriceCandidates
    <3>4. PriceList[p].product = x /\ PriceList[p].unit = u.unit
      BY <3>3 DEF C!O!PricesOf
    <3>5. \A q \in RivalsOf(p, catalog) : q \in Of(x) \ {p} /\ PriceList[q].called # {}
      BY <3>4 DEF C!O!PricesOf, RivalsOf
    <3> HIDE DEF Of, found
    <3>6. \A q \in RivalsOf(p, catalog) : NamedIn(p, u.hint \o said) > NamedIn(q, u.hint \o said)
      BY <3>3, <3>5
    <3>7. item.status = "matched" /\ item.price = p
      BY <3>1
    <3> QED BY <3>6, <3>7 DEF SaidAfter
  <2> QED BY <2>1, <2>2, <2>3, <2>4
<1> QED
  BY <1>1, <1>2, <1>3

\* What is quoted of a text without the customer's choice is not guessed.
LEMMA NormalizedRightly ==
  ASSUME NEW line, NEW catalog \in SUBSET DOMAIN PriceList, NEW products \in SUBSET Products,
         NEW item \in C!O!NormalizeItem(line, catalog, products)
  PROVE  /\ item.status = "matched_amount" => ~C!O!NamesUnknownUnit(line, products)
         /\ item.status = "matched" => \E u \in C!O!ParseUnit(line.words) :
              \A q \in RivalsOf(item.price, catalog) :
                NamedIn(item.price, SaidAfter(u, line.words)) > NamedIn(q, SaidAfter(u, line.words))
<1> DEFINE unknown == C!O!UnrecognizedUnit(line.words, products)
           units == C!O!ParseUnit(line.words)
           amounts == C!O!AmountItem(C!O!WithoutOf(line.words), products)
<1>1. item \in
        IF line.marked /\ line.number # "none" THEN amounts
        ELSE IF line.marked \/ line.number = "none"
        THEN {C!O!Unclear("invalid_quantity", {})}
        ELSE IF units # {} THEN UNION {C!O!UnitItem(u, line.words, catalog) : u \in units}
        ELSE IF unknown # {} THEN {C!O!UnsupportedUnitItem(x, catalog) : x \in unknown}
        ELSE amounts
  BY DEF C!O!NormalizeItem
<1> HIDE DEF unknown, units, amounts
<1>2. CASE item \in amounts /\ (line.marked \/ (units = {} /\ unknown = {}))
  <2>1. item.status # "matched"
    BY <1>2, AmountItems DEF amounts
  <2>2. ~C!O!NamesUnknownUnit(line, products)
    <3>1. CASE line.marked
      BY <3>1 DEF C!O!NamesUnknownUnit
    <3>2. CASE unknown = {}
      BY <3>2, UnknownUnitIsSeen DEF unknown
    <3> QED BY <1>2, <3>1, <3>2
  <2> QED BY <2>1, <2>2
<1>3. CASE item = C!O!Unclear("invalid_quantity", {})
  BY <1>3 DEF C!O!Unclear
<1>4. CASE \E u \in units : item \in C!O!UnitItem(u, line.words, catalog)
  <2>1. PICK u \in units : item \in C!O!UnitItem(u, line.words, catalog)
    BY <1>4
  <2> QED BY <2>1, UnitItems DEF units
<1>5. CASE \E x \in unknown : item = C!O!UnsupportedUnitItem(x, catalog)
  BY <1>5, UnsupportedUnits
<1>6. \/ item \in amounts /\ (line.marked \/ (units = {} /\ unknown = {}))
      \/ item = C!O!Unclear("invalid_quantity", {})
      \/ \E u \in units : item \in C!O!UnitItem(u, line.words, catalog)
      \/ \E x \in unknown : item = C!O!UnsupportedUnitItem(x, catalog)
  <2>1. CASE line.marked /\ line.number # "none"
    BY <1>1, <2>1
  <2>2. CASE ~(line.marked /\ line.number # "none") /\ (line.marked \/ line.number = "none")
    BY <1>1, <2>2
  <2>3. CASE ~line.marked /\ line.number # "none" /\ units # {}
    BY <1>1, <2>3
  <2>4. CASE ~line.marked /\ line.number # "none" /\ units = {} /\ unknown # {}
    BY <1>1, <2>4
  <2>5. CASE ~line.marked /\ line.number # "none" /\ units = {} /\ unknown = {}
    BY <1>1, <2>5
  <2> QED BY <2>1, <2>2, <2>3, <2>4, <2>5
<1> QED
  BY <1>2, <1>3, <1>4, <1>5, <1>6

LEMMA TextInvRight == TextInv => C!O!NothingIsGuessed
<1> SUFFICES ASSUME TextInv, text.at = "quoted", ~text.chosen
             PROVE  C!O!NothingIsGuessed
  BY DEF C!O!NothingIsGuessed
<1>1. PICK line, catalog, products, item :
        /\ text.line = line /\ text.catalog = catalog /\ text.products = products
        /\ text.item = item
  OBVIOUS
<1>2. /\ catalog \in SUBSET DOMAIN PriceList /\ products \in SUBSET Products
      /\ item \in C!O!NormalizeItem(line, catalog, products)
  <2>1. /\ text.at # "reading" /\ text # C!O!Empty /\ text # [at |-> "refused"]
    BY DEF C!O!Empty
  <2> QED BY <1>1, <2>1 DEF TextInv
<1>3. /\ item.status = "matched_amount" => ~C!O!NamesUnknownUnit(line, products)
      /\ item.status = "matched" => \E u \in C!O!ParseUnit(line.words) :
           \A q \in RivalsOf(item.price, catalog) :
             NamedIn(item.price, SaidAfter(u, line.words)) > NamedIn(q, SaidAfter(u, line.words))
  BY <1>2, NormalizedRightly
<1>4. \A q, said :
        NamedIn(q, said) = C!O!Cardinality({name \in PriceList[q].called : C!O!Within(name, said)})
  BY TextsCounted DEF NamedIn
<1>5. item.status = "matched" => \E u \in C!O!ParseUnit(line.words) :
        \A q \in RivalsOf(item.price, catalog) :
          C!O!Cardinality({name \in PriceList[item.price].called :
                             C!O!Within(name, SaidAfter(u, line.words))})
            > C!O!Cardinality({name \in PriceList[q].called :
                                 C!O!Within(name, SaidAfter(u, line.words))})
  BY <1>3, <1>4
<1> QED
  BY <1>1, <1>3, <1>5 DEF C!O!NothingIsGuessed, RivalsOf, SaidAfter

LEMMA TextInvInit == C!O!Init => TextInv
BY DEF C!O!Init, TextInv

LEMMA TextInvNext == TextInv /\ [C!O!Next]_(C!O!vars) => TextInv'
<1> SUFFICES ASSUME TextInv, [C!O!Next]_(C!O!vars)
             PROVE  TextInv'
  OBVIOUS
<1> USE DEF TextInv
<1>0. C!O!Catalog \in SUBSET DOMAIN PriceList
  BY DEF C!O!Catalog
<1>1. ASSUME NEW line \in Lines, C!O!Read(line)
      PROVE  TextInv'
  BY <1>1 DEF C!O!Read
<1>2. ASSUME C!O!GetCatalog \/ C!O!GetActiveProducts
      PROVE  TextInv'
  <2>1. text.at = "reading" /\ UNCHANGED <<available, sold>>
        /\ (\/ text' = [text EXCEPT !.catalog = {C!O!Catalog}]
            \/ text' = [text EXCEPT !.products = {sold}])
    BY <1>2 DEF C!O!GetCatalog, C!O!GetActiveProducts
  <2>2. PICK line, catalog, products :
          /\ text = [at |-> "reading", line |-> line, catalog |-> catalog,
                     products |-> products]
          /\ line \in Lines
          /\ catalog \subseteq SUBSET DOMAIN PriceList /\ products \subseteq SUBSET Products
    BY <2>1 DEF C!O!Empty
  <2>3. PICK c2, p2 :
          /\ text' = [at |-> "reading", line |-> line, catalog |-> c2, products |-> p2]
          /\ c2 \subseteq SUBSET DOMAIN PriceList /\ p2 \subseteq SUBSET Products
    BY <1>0, <2>1, <2>2
  <2> QED BY <2>1, <2>2, <2>3
<1>3. ASSUME C!O!Normalize
      PROVE  TextInv'
  <2>1. text.at = "reading" /\ UNCHANGED <<available, sold>>
    BY <1>3 DEF C!O!Normalize
  <2>2. PICK line : /\ text.line = line /\ line \in Lines
                    /\ text.catalog \subseteq SUBSET DOMAIN PriceList
                    /\ text.products \subseteq SUBSET Products
    BY <2>1 DEF C!O!Empty
  <2>3. PICK catalog \in text.catalog, products \in text.products :
          \E item \in C!O!NormalizeItem(line, catalog, products) :
            text' = [at |-> "shown", line |-> line, catalog |-> catalog,
                     products |-> products, item |-> item, chosen |-> FALSE]
    BY <1>3, <2>2 DEF C!O!Normalize
  <2>4. PICK item \in C!O!NormalizeItem(line, catalog, products) :
          text' = [at |-> "shown", line |-> line, catalog |-> catalog,
                   products |-> products, item |-> item, chosen |-> FALSE]
    BY <2>3
  <2> QED BY <2>1, <2>2, <2>3, <2>4
<1>4. ASSUME C!O!ResolveChoice
      PROVE  TextInv'
  <2>1. text.at = "shown" /\ UNCHANGED <<available, sold>>
    BY <1>4 DEF C!O!ResolveChoice
  <2>2. PICK p : \/ text' = [text EXCEPT !.item = [status |-> "matched", price |-> p],
                                         !.chosen = TRUE]
                 \/ text' = [at |-> "refused"]
    BY <1>4 DEF C!O!ResolveChoice
  <2>3. /\ text = [at |-> "shown", line |-> text.line, catalog |-> text.catalog,
                   products |-> text.products, item |-> text.item, chosen |-> text.chosen]
        /\ text.line \in Lines
        /\ text.catalog \subseteq DOMAIN PriceList /\ text.products \subseteq Products
    BY <2>1 DEF C!O!Empty
  <2> QED BY <2>1, <2>2, <2>3
<1>5. ASSUME C!O!Quote
      PROVE  TextInv'
  <2>1. text.at = "shown" /\ UNCHANGED <<available, sold>>
        /\ text' \in {[at |-> "refused"], [text EXCEPT !.at = "quoted"]}
    BY <1>5 DEF C!O!Quote
  <2>2. PICK line, catalog, products, item, chosen :
          /\ text = [at |-> "shown", line |-> line, catalog |-> catalog,
                     products |-> products, item |-> item, chosen |-> chosen]
          /\ line \in Lines /\ catalog \subseteq DOMAIN PriceList /\ products \subseteq Products
          /\ ~chosen => item \in C!O!NormalizeItem(line, catalog, products)
    BY <2>1 DEF C!O!Empty
  <2>3. CASE text' = [at |-> "refused"]
    BY <2>1, <2>3
  <2>4. CASE text' = [at |-> "quoted", line |-> line, catalog |-> catalog,
                      products |-> products, item |-> item, chosen |-> chosen]
    BY <2>1, <2>2, <2>4
  <2> QED BY <2>1, <2>2, <2>3, <2>4
<1>6. ASSUME NEW p \in DOMAIN PriceList, C!O!PricesChange(p)
      PROVE  TextInv'
  BY <1>6 DEF C!O!PricesChange, C!O!Flip
<1>7. ASSUME NEW x \in Products, C!O!ProductsChange(x)
      PROVE  TextInv'
  BY <1>7 DEF C!O!ProductsChange, C!O!Flip
<1>8. ASSUME UNCHANGED C!O!vars
      PROVE  TextInv'
  BY <1>8 DEF C!O!vars
<1> QED
  BY <1>1, <1>2, <1>3, <1>4, <1>5, <1>6, <1>7, <1>8 DEF C!O!Next

LEMMA TextsNotGuessed == C!O!Spec => []C!O!NothingIsGuessed
BY TextInvInit, TextInvNext, TextInvRight, PTL DEF C!O!Spec

\* Nothing is guessed: neither is the number before a word that could be a
\* unit taken for money, nor one of several offerings for what was written or
\* wished (order-quote-normalizer.service.ts; wishlists.service.ts, resolveItems).
THEOREM NothingGuessed == C!O!Spec /\ C!L!Spec => []NothingIsGuessed
<1>1. NothingIsGuessed <=> C!O!NothingIsGuessed /\ C!L!WishesAreNotGuessed
  BY DEF NothingIsGuessed, C!NothingIsGuessed
<1> QED
  BY <1>1, TextsNotGuessed, WishesNotGuessed, PTL

-----------------------------------------------------------------------------
(* Quotes: what the parts of a bill add up to, and what a coupon does.     *)

\* The sum over a finite set, as the folds work it out one element after the
\* other, is there, and is a natural number when what is added is.
LEMMA SumOfNats ==
  ASSUME NEW S, IsFiniteSet(S), NEW f \in [S -> Nat]
  PROVE  LET pick(s) == CHOOSE y \in s : TRUE
             Sums(i) == i = [s \in SUBSET S |->
                              IF s = {} THEN 0 ELSE f[pick(s)] + i[s \ {pick(s)}]]
         IN (\E i : Sums(i)) /\ \A i : Sums(i) => i[S] \in Nat
<1> DEFINE pick(s) == CHOOSE y \in s : TRUE
           Small(n) == {s \in SUBSET S : Cardinality(s) <= n}
           Sums(i, some) ==
             i = [s \in some |-> IF s = {} THEN 0 ELSE f[pick(s)] + i[s \ {pick(s)}]]
           Good == {n \in Nat : \E i \in [Small(n) -> Nat] : Sums(i, Small(n))}
<1>1. ASSUME NEW s \in SUBSET S
      PROVE  /\ IsFiniteSet(s) /\ Cardinality(s) \in Nat
             /\ s # {} => /\ pick(s) \in s
                          /\ Cardinality(s \ {pick(s)}) = Cardinality(s) - 1
  <2>1. IsFiniteSet(s)
    BY FS_Subset
  <2>2. s # {} => pick(s) \in s
    OBVIOUS
  <2> HIDE DEF pick
  <2> QED BY <2>1, <2>2, FS_CardinalityType, FS_RemoveElement
<1>2. \A s \in SUBSET S : Cardinality(s) = 0 <=> s = {}
  BY <1>1, FS_EmptySet
<1> HIDE DEF pick
<1>3. 0 \in Good
  <2>1. ASSUME NEW s \in Small(0)
        PROVE  s = {}
    <3>1. s \in SUBSET S /\ Cardinality(s) <= 0
      OBVIOUS
    <3> HIDE DEF Small, Good
    <3>2. Cardinality(s) \in Nat
      BY <3>1, <1>1
    <3>3. Cardinality(s) = 0
      BY <3>1, <3>2
    <3> QED BY <3>1, <3>3, <1>2
  <2> DEFINE i == [s \in Small(0) |-> 0]
  <2>2. i \in [Small(0) -> Nat]
    OBVIOUS
  <2>3. i = [s \in Small(0) |-> IF s = {} THEN 0 ELSE f[pick(s)] + i[s \ {pick(s)}]]
    BY <2>1
  <2> QED BY <2>2, <2>3
<1>4. ASSUME NEW n \in Good
      PROVE  n + 1 \in Good
  <2>1. PICK i \in [Small(n) -> Nat] : Sums(i, Small(n))
    OBVIOUS
  <2> DEFINE next(s) == IF s = {} THEN 0 ELSE f[pick(s)] + i[s \ {pick(s)}]
             j == [s \in Small(n + 1) |-> next(s)]
  <2>2. \A s \in Small(n + 1) : s # {} => pick(s) \in S /\ s \ {pick(s)} \in Small(n)
    BY <1>1
  <2>3. ASSUME NEW s \in Small(n)
        PROVE  s \in Small(n + 1) /\ i[s] = next(s)
    <3>1. i[s] = next(s)
      BY <2>1
    <3>2. s \in SUBSET S /\ Cardinality(s) <= n /\ n \in Nat
      OBVIOUS
    <3> HIDE DEF Small, Good, next
    <3>3. Cardinality(s) \in Nat
      BY <3>2, <1>1
    <3>4. Cardinality(s) <= n + 1
      BY <3>2, <3>3
    <3> QED BY <3>1, <3>2, <3>4 DEF Small
  <2>4. j \in [Small(n + 1) -> Nat]
    <3>1. \A s \in Small(n + 1) : next(s) \in Nat
      BY <2>2
    <3> HIDE DEF next, Small
    <3> QED BY <3>1
  <2>5. \A s \in Small(n + 1) : s # {} => j[s \ {pick(s)}] = i[s \ {pick(s)}]
    BY <2>2, <2>3
  <2>6. j = [s \in Small(n + 1) |-> IF s = {} THEN 0 ELSE f[pick(s)] + j[s \ {pick(s)}]]
    <3> DEFINE again(s) == IF s = {} THEN 0 ELSE f[pick(s)] + j[s \ {pick(s)}]
    <3> HIDE DEF j, Small
    <3>1. \A s \in Small(n + 1) : next(s) = again(s)
      BY <2>5
    <3> HIDE DEF next, again
    <3>2. [s \in Small(n + 1) |-> next(s)] = [s \in Small(n + 1) |-> again(s)]
      BY <3>1
    <3> QED BY <3>2 DEF j, again
  <2> HIDE DEF j, Small
  <2>7. Sums(j, Small(n + 1))
    BY <2>6
  <2>8. n + 1 \in Nat
    OBVIOUS
  <2> HIDE DEF Sums
  <2> QED BY <2>4, <2>7, <2>8
<1> HIDE DEF Good
<1>5. \A n \in Nat : n \in Good
  <2> SUFFICES ASSUME NEW m \in Nat, m \notin Good
               PROVE  FALSE
    OBVIOUS
  <2>1. PICK n \in Nat \ Good : \A k \in Nat \ Good : n <= k
    BY SmallestNat
  <2>2. n # 0 /\ n - 1 \in Nat /\ n - 1 \in Good
    BY <2>1, <1>3
  <2> QED BY <2>1, <2>2, <1>4
<1>6. \E i : Sums(i, SUBSET S)
  <2>1. Cardinality(S) \in Nat /\ Cardinality(S) \in Good
    BY <1>1, <1>5
  <2>2. Small(Cardinality(S)) = SUBSET S
    BY FS_Subset
  <2> QED BY <2>1, <2>2 DEF Good
<1>7. ASSUME NEW g, Sums(g, SUBSET S)
      PROVE  g[S] \in Nat
  <2> SUFFICES ASSUME g[S] \notin Nat
               PROVE  FALSE
    OBVIOUS
  <2>0. \A s \in SUBSET S : g[s] = IF s = {} THEN 0 ELSE f[pick(s)] + g[s \ {pick(s)}]
    BY <1>7
  <2> DEFINE bad == {n \in Nat : \E s \in SUBSET S : Cardinality(s) = n /\ g[s] \notin Nat}
  <2>1. bad \in SUBSET Nat /\ bad # {}
    BY <1>1
  <2>2. PICK n \in bad : \A m \in bad : n <= m
    BY <2>1, SmallestNat
  <2>3. PICK s \in SUBSET S : Cardinality(s) = n /\ g[s] \notin Nat
    BY <2>2
  <2>4. s # {} /\ g[s] = f[pick(s)] + g[s \ {pick(s)}]
    BY <2>3, <2>0
  <2>5. Cardinality(s \ {pick(s)}) = n - 1 /\ n - 1 \in Nat /\ pick(s) \in S
    BY <2>3, <2>4, <1>1
  <2>6. g[s \ {pick(s)}] \in Nat
    BY <2>2, <2>5
  <2> QED BY <2>3, <2>4, <2>5, <2>6
<1> QED
  BY <1>6, <1>7 DEF pick

LEMMA QuotesAssumed ==
  /\ \A b \in Baskets : /\ DOMAIN b = 1..Len(b) /\ Len(b) \in Nat
                        /\ \A i \in DOMAIN b : b[i].price \in Nat /\ b[i].quantity \in Nat
  /\ \A d \in Promotions \cup Coupons :
       d.value \in Nat /\ d.maximum \subseteq Nat /\ d.minimum \in Nat
  /\ \A f \in FeeRules : f.percentage \in Nat /\ f.base \in Nat
  /\ \A f \in FeeRules : f.minimum \subseteq Nat /\ f.maximum \subseteq Nat
  /\ \A f \in FeeRules : \A m, n \in f.minimum : m = n
  /\ Fallback \in Nat /\ ZoneCosts \subseteq Nat
<1> C!Q!QuotesAssumption
  BY MCCheckoutAssumption DEF C!MCCatalogueAssumption
<1>1. \A b \in Baskets : b \in
        Seq([mode: {"amount", "unit"}, price: Nat, quantity: Nat, currency: STRING])
  BY DEF C!Q!QuotesAssumption
<1>2. ASSUME NEW b \in Baskets
      PROVE  /\ DOMAIN b = 1..Len(b) /\ Len(b) \in Nat
             /\ \A i \in DOMAIN b : b[i].price \in Nat /\ b[i].quantity \in Nat
  <2> DEFINE lines == [mode: {"amount", "unit"}, price: Nat, quantity: Nat, currency: STRING]
  <2>1. b \in Seq(lines)
    BY <1>1
  <2>2. \A l \in lines : l.price \in Nat /\ l.quantity \in Nat
    OBVIOUS
  <2> HIDE DEF lines
  <2> QED BY <2>1, <2>2
<1>3. ASSUME NEW d \in Promotions \cup Coupons
      PROVE  d.value \in Nat /\ d.maximum \subseteq Nat /\ d.minimum \in Nat
  <2>1. [type |-> d.type, value |-> d.value, maximum |-> d.maximum, minimum |-> d.minimum]
          \in C!Q!Discounts
    BY DEF C!Q!QuotesAssumption
  <2> QED BY <2>1 DEF C!Q!Discounts
<1>4. ASSUME NEW f \in FeeRules
      PROVE  f.percentage \in Nat /\ f.base \in Nat
             /\ f.minimum \subseteq Nat /\ f.maximum \subseteq Nat
  <2>1. f \in [percentage: 0..100, base: Nat, minimum: SUBSET Nat, maximum: SUBSET Nat]
    BY DEF C!Q!QuotesAssumption
  <2> QED BY <2>1
<1>5. ASSUME NEW f \in FeeRules
      PROVE  \A m, n \in f.minimum : m = n
  <2>1. f.minimum \in UNION {{x.minimum, x.maximum} : x \in FeeRules}
                       \cup {d.maximum : d \in Promotions \cup Coupons}
    OBVIOUS
  <2>2. \A n \in UNION {{x.minimum, x.maximum} : x \in FeeRules}
                  \cup {d.maximum : d \in Promotions \cup Coupons} :
          \A x, y \in n : x = y
    BY DEF C!Q!QuotesAssumption
  <2> QED BY <2>1, <2>2
<1>6. Fallback \in Nat /\ ZoneCosts \subseteq Nat
  BY DEF C!Q!QuotesAssumption
<1> QED
  BY <1>2, <1>3, <1>4, <1>5, <1>6

\* A share of an amount is an amount, and of more at least as much.
LEMMA ShareIsNat == \A n, h \in Nat : C!Q!Share(n, h) \in Nat
<1> SUFFICES ASSUME NEW n \in Nat, NEW h \in Nat
             PROVE  C!Q!Share(n, h) \in Nat
  OBVIOUS
<1>1. n * h \in Nat
  OBVIOUS
<1>2. 2 * n * h = 2 * (n * h)
  OBVIOUS
<1>3. \A m \in Nat : (2 * m + 100) \div 200 \in Nat
  OBVIOUS
<1> QED
  BY <1>1, <1>2, <1>3 DEF C!Q!Share

LEMMA ShareGrows ==
  ASSUME NEW h \in Nat, NEW n \in Nat, NEW m \in Nat, n <= m
  PROVE  C!Q!Share(n, h) <= C!Q!Share(m, h)
<1>1. PICK d \in Nat : m = n + d
  <2>1. m - n \in Nat /\ m = n + (m - n)
    OBVIOUS
  <2> QED BY <2>1
<1>2. m * h = n * h + d * h /\ d * h \in Nat /\ n * h \in Nat
  BY <1>1
<1>3. 2 * n * h = 2 * (n * h) /\ 2 * m * h = 2 * (m * h)
  OBVIOUS
<1>4. \A a, b \in Nat : a <= b => (2 * a + 100) \div 200 <= (2 * b + 100) \div 200
  OBVIOUS
<1>5. m * h \in Nat /\ n * h <= m * h
  BY <1>2
<1> QED
  BY <1>2, <1>3, <1>4, <1>5 DEF C!Q!Share

\* What the lines of a basket come to is an amount.
LEMMA SubtotalIsNat ==
  ASSUME NEW basket \in Baskets
  PROVE  C!Q!Subtotal(basket) \in Nat
<1> DEFINE S == DOMAIN basket
           f == [i \in S |-> C!Q!LineTotal(basket[i])]
<1>1. IsFiniteSet(S)
  BY QuotesAssumed, FS_Interval
<1>2. f \in [S -> Nat]
  <2>1. \A i \in S : C!Q!LineTotal(basket[i]) \in Nat
    BY QuotesAssumed, ShareIsNat DEF C!Q!LineTotal
  <2> HIDE DEF S
  <2> QED BY <2>1
<1> DEFINE pick(s) == CHOOSE y \in s : TRUE
           Sums(i) == i = [s \in SUBSET S |->
                            IF s = {} THEN 0 ELSE f[pick(s)] + i[s \ {pick(s)}]]
           Totals(i) == i = [s \in SUBSET S |->
                              IF s = {} THEN 0
                              ELSE C!Q!LineTotal(basket[pick(s)]) + i[s \ {pick(s)}]]
<1>3. \A s \in SUBSET S : s # {} => f[pick(s)] = C!Q!LineTotal(basket[pick(s)])
  OBVIOUS
<1>4. C!Q!Subtotal(basket) = (CHOOSE i : Totals(i))[S]
  BY DEF C!Q!Subtotal, C!Q!MapThenSumSet, C!Q!MapThenFoldSet
<1> HIDE DEF f, S
<1>5. (\E i : Sums(i)) /\ \A i : Sums(i) => i[S] \in Nat
  BY <1>1, <1>2, SumOfNats
<1> HIDE DEF pick
<1>6. \A i : Sums(i) <=> Totals(i)
  BY <1>3
<1> HIDE DEF Sums, Totals
<1> QED
  BY <1>4, <1>5, <1>6

\* Of some amounts there is a least one; and so of two, where Max is the other.
LEMMA LeastAmount ==
  ASSUME NEW S \in SUBSET Nat, S # {}
  PROVE  C!Q!Min(S) \in S /\ \A n \in S : C!Q!Min(S) <= n
<1>1. PICK n \in S : \A m \in S : n <= m
  BY SmallestNat
<1> QED
  BY <1>1 DEF C!Q!Min

LEMMA LesserAmount ==
  \A m, n \in Nat : C!Q!Min({m, n}) = IF m <= n THEN m ELSE n
<1> SUFFICES ASSUME NEW m \in Nat, NEW n \in Nat
             PROVE  C!Q!Min({m, n}) = IF m <= n THEN m ELSE n
  OBVIOUS
<1>1. {m, n} \in SUBSET Nat /\ {m, n} # {}
  OBVIOUS
<1>2. C!Q!Min({m, n}) \in {m, n} /\ \A k \in {m, n} : C!Q!Min({m, n}) <= k
  BY <1>1, LeastAmount
<1> QED
  BY <1>2

LEMMA GreatestAmount ==
  ASSUME NEW n \in Nat, NEW low \in SUBSET Nat, \A x, y \in low : x = y
  PROVE  /\ C!Q!Max({n} \cup low) \in Nat /\ n <= C!Q!Max({n} \cup low)
         /\ \A y \in low : C!Q!Max({n} \cup low) = IF n >= y THEN n ELSE y
         /\ low = {} => C!Q!Max({n} \cup low) = n
<1> DEFINE S == {n} \cup low
<1>1. \E m \in S : \A k \in S : m >= k
  <2>1. CASE \E y \in low : y > n
    <3>1. PICK y \in low : y > n
      BY <2>1
    <3> QED BY <3>1
  <2>2. CASE ~\E y \in low : y > n
    BY <2>2
  <2> QED BY <2>1, <2>2
<1>2. C!Q!Max(S) \in S /\ \A k \in S : C!Q!Max(S) >= k
  BY <1>1 DEF C!Q!Max
<1>3. C!Q!Max(S) \in Nat
  BY <1>2
<1> QED
  BY <1>2, <1>3

\* The fee of more is at least as much.
FeeRule(rule) ==
  /\ rule.percentage \in Nat /\ rule.base \in Nat
  /\ rule.minimum \subseteq Nat /\ rule.maximum \subseteq Nat
  /\ \A x, y \in rule.minimum : x = y

LEMMA RulesAreFeeRules == \A rule \in C!Q!Rules : FeeRule(rule)
BY QuotesAssumed DEF C!Q!Rules, C!Q!NoRule, FeeRule

LEMMA FeeGrows ==
  ASSUME NEW rule, FeeRule(rule), NEW n \in Nat, NEW m \in Nat, n <= m
  PROVE  /\ C!Q!ServiceFee(rule, n) \in Nat /\ C!Q!ServiceFee(rule, m) \in Nat
         /\ C!Q!ServiceFee(rule, n) <= C!Q!ServiceFee(rule, m)
<1> DEFINE fee(k) == rule.base + C!Q!Share(k, rule.percentage)
           raised(k) == C!Q!Max({fee(k)} \cup rule.minimum)
           capped(k) == C!Q!Min({raised(k)} \cup rule.maximum)
<1>1. fee(n) \in Nat /\ fee(m) \in Nat /\ fee(n) <= fee(m)
  <2>1. /\ C!Q!Share(n, rule.percentage) \in Nat /\ C!Q!Share(m, rule.percentage) \in Nat
        /\ C!Q!Share(n, rule.percentage) <= C!Q!Share(m, rule.percentage)
    BY ShareIsNat, ShareGrows DEF FeeRule
  <2> QED BY <2>1 DEF FeeRule
<1> HIDE DEF fee
<1>2. raised(n) \in Nat /\ raised(m) \in Nat /\ raised(n) <= raised(m)
  <2>1. rule.minimum \in SUBSET Nat /\ \A x, y \in rule.minimum : x = y
    BY DEF FeeRule
  <2>2. \A k \in {n, m} :
          /\ raised(k) \in Nat /\ fee(k) <= raised(k)
          /\ \A y \in rule.minimum : raised(k) = IF fee(k) >= y THEN fee(k) ELSE y
          /\ rule.minimum = {} => raised(k) = fee(k)
    BY <1>1, <2>1, GreatestAmount
  <2> HIDE DEF raised
  <2>3. CASE rule.minimum = {}
    BY <1>1, <2>2, <2>3
  <2>4. CASE \E y : y \in rule.minimum
    <3>1. PICK y \in rule.minimum : y \in Nat
      BY <2>1, <2>4
    <3>2. /\ raised(n) = IF fee(n) >= y THEN fee(n) ELSE y
          /\ raised(m) = IF fee(m) >= y THEN fee(m) ELSE y
      BY <2>2, <3>1
    <3> QED BY <1>1, <3>1, <3>2
  <2> QED BY <2>3, <2>4
<1> HIDE DEF raised
<1>3. \A k \in {n, m} : capped(k) \in {raised(k)} \cup rule.maximum
                        /\ \A x \in {raised(k)} \cup rule.maximum : capped(k) <= x
  <2>1. ASSUME NEW k \in {n, m}
        PROVE  {raised(k)} \cup rule.maximum \in SUBSET Nat /\ {raised(k)} \cup rule.maximum # {}
    BY <1>2 DEF FeeRule
  <2> QED BY <2>1, LeastAmount
<1> HIDE DEF capped
<1>4. capped(n) \in Nat /\ capped(m) \in Nat /\ capped(n) <= capped(m)
  BY <1>2, <1>3 DEF FeeRule
<1>5. \A k \in {n, m} : C!Q!ServiceFee(rule, k) = capped(k)
  BY DEF C!Q!ServiceFee, capped, raised, fee
<1> QED
  BY <1>4, <1>5

\* A discount is at most what it is taken of.
LEMMA DiscountIsLimited ==
  ASSUME NEW d \in Promotions \cup Coupons, NEW subtotal \in Nat
  PROVE  C!Q!DiscountOf(d, subtotal) \in 0..subtotal
<1> DEFINE value == IF d.type = "percentage" THEN C!Q!Share(subtotal, d.value) ELSE d.value
           S == {subtotal} \cup d.maximum \cup {value}
<1>1. value \in Nat
  BY QuotesAssumed, ShareIsNat
<1>2. S \in SUBSET Nat /\ S # {} /\ subtotal \in S
  BY <1>1, QuotesAssumed
<1>3. C!Q!DiscountOf(d, subtotal) = C!Q!Min(S)
  BY DEF C!Q!DiscountOf
<1> HIDE DEF S
<1>4. C!Q!Min(S) \in S /\ C!Q!Min(S) <= subtotal
  BY <1>2, LeastAmount
<1>5. C!Q!Min(S) \in Nat
  BY <1>2, <1>4
<1> QED
  BY <1>3, <1>4, <1>5

\* Some discount, as far as the bill is concerned.
Discount(d, subtotal) ==
  /\ d = [id |-> d.id, discount |-> d.discount, stacks |-> d.stacks]
  /\ d.discount \in 0..subtotal

LEMMA NoDiscount == \A subtotal \in Nat : Discount(C!Q!None, subtotal)
BY DEF Discount, C!Q!None

\* Discounts that are resolved add up, and take at least what the promotion takes.
LEMMA DiscountsResolved ==
  ASSUME NEW subtotal \in Nat, NEW promotion, Discount(promotion, subtotal),
         NEW coupon, Discount(coupon, subtotal)
  PROVE  LET applied == C!Q!Resolve(subtotal, promotion, coupon)
         IN /\ applied.promotion.discount \in Nat /\ applied.coupon.discount \in Nat
            /\ applied.total = applied.promotion.discount + applied.coupon.discount
            /\ applied.total \in promotion.discount..subtotal
            /\ coupon.discount = 0 => applied.total = promotion.discount
<1> DEFINE rivals == promotion.discount > 0 /\ coupon.discount > 0 /\ ~promotion.stacks
           p == IF rivals /\ coupon.discount > promotion.discount THEN C!Q!None ELSE promotion
           c == IF rivals /\ coupon.discount <= promotion.discount THEN C!Q!None ELSE coupon
           shortened == C!Q!Min({c.discount, subtotal - p.discount})
           short == [c EXCEPT !.discount = shortened]
           total == C!Q!Min({subtotal, p.discount + c.discount})
<1>1. C!Q!Resolve(subtotal, promotion, coupon) =
        [promotion |-> p, coupon |-> short, total |-> total]
  BY DEF C!Q!Resolve
<1>2. PICK a \in Nat, b \in Nat :
        /\ a = promotion.discount /\ b = coupon.discount /\ a <= subtotal /\ b <= subtotal
  BY DEF Discount
<1>3. C!Q!None.discount = 0
  BY DEF C!Q!None
<1>4. PICK x \in Nat, y \in Nat :
        /\ p.discount = x /\ c.discount = y /\ x <= subtotal /\ y <= subtotal
        /\ \/ x = a /\ y = b
           \/ x = 0 /\ y = b /\ b > a
           \/ x = a /\ y = 0
  BY <1>2, <1>3
<1>5. c = [id |-> c.id, discount |-> c.discount, stacks |-> c.stacks]
  BY NoDiscount DEF Discount
<1> HIDE DEF p, c
<1>6. short.discount = shortened
  BY <1>5
<1>7. shortened = IF y <= subtotal - x THEN y ELSE subtotal - x
  <2>1. subtotal - x \in Nat
    BY <1>4
  <2> QED BY <1>4, <2>1, LesserAmount
<1>8. total = IF subtotal <= x + y THEN subtotal ELSE x + y
  BY <1>4, LesserAmount
<1> HIDE DEF shortened, short, total
<1>9. /\ x \in Nat /\ shortened \in Nat /\ total = x + shortened /\ total \in a..subtotal
      /\ b = 0 => total = a
  BY <1>2, <1>4, <1>7, <1>8
<1>10. /\ C!Q!Resolve(subtotal, promotion, coupon).promotion.discount = x
       /\ C!Q!Resolve(subtotal, promotion, coupon).coupon.discount = shortened
       /\ C!Q!Resolve(subtotal, promotion, coupon).total = total
  BY <1>1, <1>4, <1>6
<1> QED
  BY <1>2, <1>9, <1>10

\* The quote with what was read: its parts add up, and a coupon makes it no dearer.
LEMMA PricedRightly ==
  ASSUME NEW subtotal \in Nat, NEW promotion, Discount(promotion, subtotal),
         NEW coupon, Discount(coupon, subtotal), NEW rule \in C!Q!Rules, NEW delivery \in Nat
  PROVE  LET t == C!Q!Priced(subtotal, promotion, coupon, rule, delivery)
         IN /\ t.total = t.subtotal - t.promotion - t.coupon + t.fee + t.delivery
            /\ t.discount = t.promotion + t.coupon /\ t.discount <= t.subtotal
            /\ t.subtotal = subtotal /\ t.delivery = delivery
            /\ t.total <= C!Q!Priced(subtotal, promotion, C!Q!None, rule, delivery).total
<1>1. FeeRule(rule)
  BY RulesAreFeeRules
<1> DEFINE applied == C!Q!Resolve(subtotal, promotion, coupon)
           without == C!Q!Resolve(subtotal, promotion, C!Q!None)
<1>2. PICK a \in Nat, p \in Nat, c \in Nat, d \in Nat :
        /\ promotion.discount = a /\ a <= d /\ d <= subtotal /\ d = p + c
        /\ applied.promotion.discount = p /\ applied.coupon.discount = c /\ applied.total = d
  <2>1. promotion.discount \in Nat
    BY DEF Discount
  <2>2. /\ applied.promotion.discount \in Nat /\ applied.coupon.discount \in Nat
        /\ applied.total = applied.promotion.discount + applied.coupon.discount
        /\ applied.total \in promotion.discount..subtotal
    BY DiscountsResolved
  <2> HIDE DEF applied
  <2>3. applied.total \in Nat /\ promotion.discount <= applied.total /\ applied.total <= subtotal
    BY <2>1, <2>2
  <2> QED BY <2>1, <2>2, <2>3
<1>3. without.total = a
  <2>1. Discount(C!Q!None, subtotal) /\ C!Q!None.discount = 0
    BY NoDiscount DEF C!Q!None
  <2> QED BY <1>2, <2>1, DiscountsResolved
<1> HIDE DEF applied, without
<1> DEFINE chargeable == subtotal - d
           fee == C!Q!ServiceFee(rule, chargeable)
           feeWithout == C!Q!ServiceFee(rule, subtotal - a)
<1>4. chargeable \in Nat /\ subtotal - a \in Nat /\ chargeable <= subtotal - a
  BY <1>2
<1>5. fee \in Nat /\ feeWithout \in Nat /\ fee <= feeWithout
  BY <1>1, <1>4, FeeGrows
<1>6. C!Q!Priced(subtotal, promotion, coupon, rule, delivery) =
        [subtotal |-> subtotal, discount |-> d, promotion |-> p, coupon |-> c,
         fee |-> fee, delivery |-> delivery, total |-> chargeable + fee + delivery]
  BY <1>2 DEF C!Q!Priced, applied
<1>7. C!Q!Priced(subtotal, promotion, C!Q!None, rule, delivery).total =
        (subtotal - a) + feeWithout + delivery
  BY <1>3 DEF C!Q!Priced, without
<1> HIDE DEF fee, feeWithout
<1>8. /\ chargeable + fee + delivery = subtotal - p - c + fee + delivery
      /\ chargeable + fee + delivery <= (subtotal - a) + feeWithout + delivery
  BY <1>2, <1>4, <1>5
<1> QED
  BY <1>2, <1>6, <1>7, <1>8

\* What a quote knows, step by step.
QuoteInv ==
  \/ quote \in {C!Q!Empty, [at |-> "refused"]}
  \/ \E s \in Nat : quote = [at |-> "items", subtotal |-> s]
  \/ \E s \in Nat : \E p : /\ quote = [at |-> "promotion", subtotal |-> s, promotion |-> p]
                       /\ Discount(p, s)
  \/ \E s \in Nat : \E p, c :
       /\ quote = [at |-> "coupon", subtotal |-> s, promotion |-> p, coupon |-> c]
       /\ Discount(p, s) /\ Discount(c, s)
  \/ \E s \in Nat, rule \in C!Q!Rules : \E p, c :
       /\ quote = [at |-> "fee", subtotal |-> s, promotion |-> p, coupon |-> c, rule |-> rule]
       /\ Discount(p, s) /\ Discount(c, s)
  \/ \E s \in Nat, rule \in C!Q!Rules, delivery \in Nat : \E p, c :
       /\ quote = [at |-> "done", promotion |-> p, rule |-> rule,
                   totals |-> C!Q!Priced(s, p, c, rule, delivery)]
       /\ Discount(p, s) /\ Discount(c, s)

LEMMA QuoteInvInit == C!Q!Init => QuoteInv
BY DEF C!Q!Init, QuoteInv

LEMMA QuoteInvNext == QuoteInv /\ [C!Q!Next]_(C!Q!vars) => QuoteInv'
<1> SUFFICES ASSUME QuoteInv, [C!Q!Next]_(C!Q!vars)
             PROVE  QuoteInv'
  OBVIOUS
<1>0. quote' = [at |-> "refused"] => QuoteInv'
  BY DEF QuoteInv
<1>1. ASSUME NEW b \in Baskets, C!Q!QuoteItems(b)
      PROVE  QuoteInv'
  <2>1. quote' = [at |-> "refused"] \/ quote' = [at |-> "items", subtotal |-> C!Q!Subtotal(b)]
    BY <1>1 DEF C!Q!QuoteItems, C!Q!Refuse
  <2>2. C!Q!Subtotal(b) \in Nat
    BY SubtotalIsNat
  <2> QED BY <1>0, <2>1, <2>2 DEF QuoteInv
<1>2. ASSUME NEW running \in SUBSET Promotions, C!Q!CalculatePromotion(running)
      PROVE  QuoteInv'
  <2>1. PICK s \in Nat : quote = [at |-> "items", subtotal |-> s]
    BY <1>2 DEF QuoteInv, C!Q!CalculatePromotion, C!Q!Empty
  <2>2. \/ quote' = [at |-> "promotion", subtotal |-> s, promotion |-> C!Q!None]
        \/ \E d \in C!Q!BestPromotions(running, s) :
             quote' = [at |-> "promotion", subtotal |-> s,
                       promotion |-> [id |-> "promotion", stacks |-> d.stacks,
                                      discount |-> C!Q!DiscountOf(d, s)]]
    BY <1>2, <2>1 DEF C!Q!CalculatePromotion
  <2>3. C!Q!BestPromotions(running, s) \subseteq Promotions
    BY DEF C!Q!BestPromotions
  <2>4. \A d \in Promotions :
          Discount([id |-> "promotion", stacks |-> d.stacks, discount |-> C!Q!DiscountOf(d, s)], s)
    BY DiscountIsLimited DEF Discount
  <2>5. PICK p : quote' = [at |-> "promotion", subtotal |-> s, promotion |-> p] /\ Discount(p, s)
    BY <2>2, <2>3, <2>4, NoDiscount
  <2> QED BY <2>5 DEF QuoteInv
<1>3. ASSUME C!Q!CalculateCoupon
      PROVE  QuoteInv'
  <2>1. quote.at = "promotion"
    BY <1>3 DEF C!Q!CalculateCoupon
  <2>2. PICK s \in Nat : \E q : quote = [at |-> "promotion", subtotal |-> s, promotion |-> q]
                                /\ Discount(q, s)
    BY <2>1 DEF QuoteInv, C!Q!Empty
  <2>3. PICK p : quote = [at |-> "promotion", subtotal |-> s, promotion |-> p] /\ Discount(p, s)
    BY <2>2
  <2> DEFINE Found(c) ==
               quote' = [at |-> "coupon", subtotal |-> s, promotion |-> p, coupon |-> c]
  <2>4. \/ quote' = [at |-> "refused"] \/ Found(C!Q!None)
        \/ \E d \in Coupons : Found([id |-> "coupon", stacks |-> FALSE,
                                     discount |-> C!Q!DiscountOf(d, s)])
    BY <1>3, <2>3 DEF C!Q!CalculateCoupon, C!Q!Refuse
  <2>5. \A d \in Coupons :
          Discount([id |-> "coupon", stacks |-> FALSE, discount |-> C!Q!DiscountOf(d, s)], s)
    BY DiscountIsLimited DEF Discount
  <2>6. quote' = [at |-> "refused"] \/ \E c : Found(c) /\ Discount(c, s)
    BY <2>4, <2>5, NoDiscount
  <2> QED BY <1>0, <2>3, <2>6 DEF QuoteInv
<1>4. ASSUME C!Q!CalculateServiceFee
      PROVE  QuoteInv'
  <2>1. quote.at = "coupon"
    BY <1>4 DEF C!Q!CalculateServiceFee
  <2>2. PICK s \in Nat :
          \E q, d : /\ quote = [at |-> "coupon", subtotal |-> s, promotion |-> q, coupon |-> d]
                    /\ Discount(q, s) /\ Discount(d, s)
    BY <2>1 DEF QuoteInv, C!Q!Empty
  <2>3. PICK p, c : /\ quote = [at |-> "coupon", subtotal |-> s, promotion |-> p, coupon |-> c]
                    /\ Discount(p, s) /\ Discount(c, s)
    BY <2>2
  <2>4. PICK rule \in C!Q!Rules :
          quote' = [at |-> "fee", subtotal |-> s, promotion |-> p, coupon |-> c, rule |-> rule]
    BY <1>4, <2>3 DEF C!Q!CalculateServiceFee
  <2> QED BY <2>3, <2>4 DEF QuoteInv
<1>5. ASSUME C!Q!CalculateDelivery
      PROVE  QuoteInv'
  <2>1. quote.at = "fee"
    BY <1>5 DEF C!Q!CalculateDelivery
  <2>2. PICK s \in Nat, rule \in C!Q!Rules :
          \E q, d : /\ quote = [at |-> "fee", subtotal |-> s, promotion |-> q, coupon |-> d,
                                rule |-> rule]
                    /\ Discount(q, s) /\ Discount(d, s)
    BY <2>1 DEF QuoteInv, C!Q!Empty
  <2>3. PICK p, c : /\ quote = [at |-> "fee", subtotal |-> s, promotion |-> p, coupon |-> c,
                                rule |-> rule]
                    /\ Discount(p, s) /\ Discount(c, s)
    BY <2>2
  <2>4. \/ quote' = [at |-> "refused"]
        \/ \E delivery \in ZoneCosts :
             quote' = [at |-> "done", promotion |-> p, rule |-> rule,
                       totals |-> C!Q!Priced(s, p, c, rule, delivery)]
    BY <1>5, <2>3 DEF C!Q!CalculateDelivery, C!Q!Refuse
  <2>5. ASSUME NEW delivery \in ZoneCosts,
               quote' = [at |-> "done", promotion |-> p, rule |-> rule,
                         totals |-> C!Q!Priced(s, p, c, rule, delivery)]
        PROVE  QuoteInv'
    <3>1. delivery \in Nat
      BY QuotesAssumed
    <3> QED BY <3>1, <2>3, <2>5 DEF QuoteInv
  <2> QED BY <1>0, <2>4, <2>5
<1>6. ASSUME UNCHANGED C!Q!vars
      PROVE  QuoteInv'
  BY <1>6 DEF C!Q!vars, QuoteInv
<1> QED
  BY <1>1, <1>2, <1>3, <1>4, <1>5, <1>6 DEF C!Q!Next

LEMMA QuoteInvRight == QuoteInv => C!Q!QuoteIsRight
<1> SUFFICES ASSUME QuoteInv, quote.at = "done"
             PROVE  C!Q!QuoteIsRight
  BY DEF C!Q!QuoteIsRight, C!Q!QuoteAddsUp, C!Q!CouponNeverHurts
<1>1. PICK s \in Nat, rule \in C!Q!Rules, delivery \in Nat :
        \E q, d : /\ quote = [at |-> "done", promotion |-> q, rule |-> rule,
                              totals |-> C!Q!Priced(s, q, d, rule, delivery)]
                  /\ Discount(q, s) /\ Discount(d, s)
  BY DEF QuoteInv, C!Q!Empty
<1>2. PICK p, c : /\ quote = [at |-> "done", promotion |-> p, rule |-> rule,
                              totals |-> C!Q!Priced(s, p, c, rule, delivery)]
                  /\ Discount(p, s) /\ Discount(c, s)
  BY <1>1
<1>3. PICK t : t = C!Q!Priced(s, p, c, rule, delivery)
  OBVIOUS
<1>4. /\ t.total = t.subtotal - t.promotion - t.coupon + t.fee + t.delivery
      /\ t.discount = t.promotion + t.coupon /\ t.discount <= t.subtotal
      /\ t.subtotal = s /\ t.delivery = delivery
      /\ t.total <= C!Q!Priced(s, p, C!Q!None, rule, delivery).total
  BY <1>2, <1>3, PricedRightly
<1>5. quote.totals = t /\ quote.promotion = p /\ quote.rule = rule
  BY <1>2, <1>3
<1> QED
  BY <1>4, <1>5 DEF C!Q!QuoteIsRight, C!Q!QuoteAddsUp, C!Q!CouponNeverHurts

\* The total is what the parts of the bill say, whatever the lines, discounts,
\* fees and delivery are; and a coupon never makes it more
\* (orders.service.ts, calculateQuote, resolveAppliedDiscounts).
THEOREM QuotesAreRight == C!Q!Spec => []QuoteIsRight
BY QuoteInvInit, QuoteInvNext, QuoteInvRight, PTL
   DEF C!Q!Spec, QuoteIsRight, C!QuoteIsRight

-----------------------------------------------------------------------------
(* Sheets of the catalogue.  A sheet that is written to the catalogue that *)
(* it was valid against finds the offerings that it was compared with.     *)

\* module Imports' Valid, of any catalogue
ValidAgainst(sheet, ps, os) ==
  /\ C!I!Consistent(sheet)
  /\ \E keptParts \in C!I!OnePerKey(ps, [p \in ps |->
          <<p.kind, Key[p.name], IF p.kind = "variant" THEN p.of ELSE "">>]),
        keptOfferings \in C!I!OnePerKey(os, [o \in os |-> Key[o.sku]]) :
       \A i \in DOMAIN sheet : C!I!FitsExisting(sheet[i], keptParts, keptOfferings)

ImportKnown(s) ==
  /\ s.at = "write" => s.sheet \in C!I!Sheets /\ ValidAgainst(s.sheet, s.parts, s.offerings)
  /\ s.at = "create" => s.offering.sku \in C!I!Names

ImportInv ==
  /\ step = [r \in Pair |-> step[r]]
  /\ \A r \in Pair : ImportKnown(step[r])
  /\ \A o \in offerings : o.sku \in C!I!Names

LEMMA ImportsAssumed ==
  /\ MaxRows \in Nat /\ Absent \notin C!I!Names
  /\ \A row \in Rows : row.sku \in C!I!Names
<1>1. C!I!ImportsAssumption
  BY MCCheckoutAssumption DEF C!MCCatalogueAssumption
<1>2. MaxRows \in Nat /\ Absent \notin C!I!Names
  BY <1>1 DEF C!I!ImportsAssumption
<1>3. ASSUME NEW row \in Rows
      PROVE  row.sku \in C!I!Names
  <2>1. row \in [parts: [C!I!Kinds -> C!I!PartsOf], sku: C!I!Names, price: C!I!Prices]
    BY <1>1 DEF C!I!ImportsAssumption
  <2> QED BY <2>1
<1> QED
  BY <1>2, <1>3

LEMMA AlikeIsEquivalence ==
  /\ \A a : C!I!Alike(a, a)
  /\ \A a, b : C!I!Alike(a, b) => C!I!Alike(b, a)
  /\ \A a, b, c : C!I!Alike(a, b) /\ C!I!Alike(b, c) => C!I!Alike(a, c)
BY DEF C!I!Alike

LEMMA SheetIs ==
  ASSUME NEW sheet \in C!I!Sheets
  PROVE  \E n \in Nat : DOMAIN sheet = 1..n /\ \A i \in 1..n : sheet[i] \in Rows
<1>1. PICK n \in 1..MaxRows : sheet \in [1..n -> Rows]
  BY DEF C!I!Sheets
<1> QED
  BY <1>1, ImportsAssumed

\* Some rows of a sheet have a last one.
LEMMA LastRow ==
  ASSUME NEW sheet \in C!I!Sheets, NEW some \in SUBSET DOMAIN sheet, some # {}
  PROVE  C!I!Max(some) \in some
<1>1. PICK n \in Nat : DOMAIN sheet = 1..n
  BY SheetIs
<1> DEFINE after == {n - k : k \in some}
<1>2. after \in SUBSET Nat /\ after # {}
  BY <1>1
<1>3. PICK m \in after : \A k \in after : m <= k
  BY <1>2, SmallestNat
<1>4. PICK k \in some : m = n - k
  BY <1>3
<1>5. \A l \in some : k >= l
  <2> SUFFICES ASSUME NEW l \in some
               PROVE  k >= l
    OBVIOUS
  <2>1. n - k <= n - l
    BY <1>3, <1>4
  <2>2. k \in Int /\ l \in Int
    BY <1>1
  <2> QED BY <2>1, <2>2
<1> QED
  BY <1>4, <1>5 DEF C!I!Max

\* The SKU that is written for a row is alike to that of the row, ...
LEMMA SkuIsOfRow ==
  ASSUME NEW sheet \in C!I!Sheets, NEW i \in DOMAIN sheet
  PROVE  /\ C!I!LastOfSku(sheet, i) \in DOMAIN sheet
         /\ C!I!Alike(sheet[i].sku, sheet[C!I!LastOfSku(sheet, i)].sku)
<1> DEFINE some == {k \in DOMAIN sheet : C!I!Alike(sheet[i].sku, sheet[k].sku)}
<1>1. some \in SUBSET DOMAIN sheet /\ some # {}
  BY AlikeIsEquivalence
<1>2. C!I!Max(some) \in some
  BY <1>1, LastRow
<1> QED
  BY <1>2 DEF C!I!LastOfSku

\* ... and so is the name of a product, variant, brand or package.
LEMMA PartIsOfRow ==
  ASSUME NEW sheet \in C!I!Sheets, NEW i \in DOMAIN sheet, NEW kind \in C!I!Kinds
  PROVE  C!I!Alike(C!I!Spelled(sheet, kind, i).name, sheet[i].parts[kind].name)
<1>1. CASE sheet[i].parts[kind].name = Absent
  BY <1>1, AlikeIsEquivalence DEF C!I!Spelled
<1>2. CASE sheet[i].parts[kind].name # Absent
  <2> DEFINE some == {k \in DOMAIN sheet : C!I!SamePart(kind, sheet[i], sheet[k])}
  <2>1. some \in SUBSET DOMAIN sheet /\ some # {}
    <3>1. i \in some
      BY <1>2, AlikeIsEquivalence DEF C!I!SamePart
    <3> QED BY <3>1
  <2>2. C!I!Max(some) \in some
    BY <2>1, LastRow
  <2>3. C!I!Alike(sheet[i].parts[kind].name, sheet[C!I!Max(some)].parts[kind].name)
    BY <2>2 DEF C!I!SamePart
  <2>4. C!I!Spelled(sheet, kind, i) = sheet[C!I!Max(some)].parts[kind]
    BY <1>2 DEF C!I!Spelled
  <2> QED BY <2>3, <2>4, AlikeIsEquivalence
<1> QED
  BY <1>1, <1>2

\* An offering that was there for the SKU of a row has the parts of that row.
LEMMA ExistingFits ==
  ASSUME NEW sheet, ValidAgainst(sheet, parts, offerings), NEW i \in DOMAIN sheet,
         \A o \in offerings : o.sku \in C!I!Names, C!I!OneSpelling(offerings),
         NEW o \in offerings, C!I!Alike(o.sku, sheet[i].sku), NEW kind \in C!I!Kinds
  PROVE  o.parts[kind] = Absent \/ C!I!Alike(o.parts[kind], sheet[i].parts[kind].name)
<1>1. PICK keptParts, keptOfferings :
        /\ keptOfferings \in C!I!OnePerKey(offerings, [q \in offerings |-> Key[q.sku]])
        /\ C!I!FitsExisting(sheet[i], keptParts, keptOfferings)
  BY DEF ValidAgainst
<1>2. o \in keptOfferings
  <2>1. PICK y \in keptOfferings : y \in offerings /\ Key[y.sku] = Key[o.sku]
    BY <1>1 DEF C!I!OnePerKey
  <2>2. C!I!Alike(y.sku, o.sku)
    BY <2>1, ImportsAssumed DEF C!I!Alike
  <2> QED BY <2>1, <2>2 DEF C!I!OneSpelling
<1> DEFINE row == sheet[i]
           Existing(k) == {p \in keptParts : /\ p.kind = k /\ row.parts[k].name # Absent
                                             /\ C!I!Alike(p.name, row.parts[k].name)}
           product == {p.name : p \in Existing("product")}
           Id(k) == {p.name : p \in {q \in Existing(k) : k = "variant" => q.of \in product}}
<1>3. IF Id(kind) # {} THEN o.parts[kind] \in Id(kind)
      ELSE kind \in C!I!Optional /\ o.parts[kind] = Absent
  BY <1>1, <1>2 DEF C!I!FitsExisting
<1>4. \A name \in Id(kind) : C!I!Alike(name, row.parts[kind].name)
  OBVIOUS
<1> HIDE DEF Id
<1> QED
  BY <1>3, <1>4

\* An offering that is written for the SKU of a row has the parts of that row.
LEMMA WrittenFits ==
  ASSUME NEW sheet \in C!I!Sheets, C!I!Consistent(sheet), NEW i \in DOMAIN sheet,
         NEW o \in C!I!OfferingsWritten(sheet), C!I!Alike(o.sku, sheet[i].sku),
         NEW kind \in C!I!Kinds
  PROVE  C!I!Alike(o.parts[kind], sheet[i].parts[kind].name)
<1>1. PICK j \in {C!I!LastOfSku(sheet, k) : k \in DOMAIN sheet} :
        o = [sku |-> sheet[j].sku,
             parts |-> [k \in C!I!Kinds |-> C!I!Spelled(sheet, k, j).name]]
  BY DEF C!I!OfferingsWritten
<1>2. j \in DOMAIN sheet
  BY SkuIsOfRow
<1>3. o.sku = sheet[j].sku /\ o.parts[kind] = C!I!Spelled(sheet, kind, j).name
  BY <1>1
<1>4. C!I!SameCombination(sheet[j], sheet[i])
  BY <1>2, <1>3 DEF C!I!Consistent
<1>5. C!I!Alike(sheet[j].parts[kind].name, sheet[i].parts[kind].name)
  BY <1>4 DEF C!I!SameCombination
<1>6. C!I!Alike(o.parts[kind], sheet[j].parts[kind].name)
  BY <1>2, <1>3, PartIsOfRow
<1> QED
  BY <1>5, <1>6, AlikeIsEquivalence

\* A valid sheet that has just been written: its rows are in offerings of theirs.
LEMMA RowsFit ==
  ASSUME ImportInv, NEW r \in Pair, C!I!Import(r), C!I!WrittenAsAnalyzed(r),
         C!I!OneSpelling(offerings), NEW i \in DOMAIN step[r].sheet, NEW kind \in C!I!Kinds
  PROVE  LET part == C!I!OfferingOf(step[r].sheet, i).parts[kind]
         IN part = Absent \/ C!I!Alike(part, step[r].sheet[i].parts[kind].name)
<1>1. PICK sheet : sheet = step[r].sheet
  OBVIOUS
<1>2. /\ sheet \in C!I!Sheets /\ ValidAgainst(sheet, parts, offerings)
      /\ C!I!Consistent(sheet) /\ i \in DOMAIN sheet
  BY <1>1 DEF ImportInv, ImportKnown, C!I!WrittenAsAnalyzed, ValidAgainst
<1>3. /\ offerings' = offerings \cup C!I!OfferingsWritten(sheet)
      /\ C!I!Indexed(parts \cup C!I!PartsWritten(sheet), offerings')
  BY <1>1 DEF C!I!Import, C!I!WrittenAsAnalyzed
<1> DEFINE last == C!I!LastOfSku(sheet, i)
           o == C!I!OfferingOf(sheet, i)
<1>4. last \in DOMAIN sheet /\ C!I!Alike(sheet[i].sku, sheet[last].sku)
  BY <1>2, SkuIsOfRow
<1>5. \E q \in offerings' : q.sku = sheet[last].sku
  <2> DEFINE new == [sku |-> sheet[last].sku,
                     parts |-> [k \in C!I!Kinds |-> C!I!Spelled(sheet, k, last).name]]
  <2>1. new.sku = sheet[last].sku
    OBVIOUS
  <2>2. CASE \E q \in offerings : q.sku = new.sku
    BY <1>3, <2>1, <2>2
  <2>3. CASE ~\E q \in offerings : q.sku = new.sku
    <3>1. new \in C!I!OfferingsWritten(sheet)
      BY <1>2, <2>3 DEF C!I!OfferingsWritten
    <3> QED BY <1>3, <2>1, <3>1
  <2> QED BY <2>2, <2>3
<1>6. o \in offerings' /\ o.sku = sheet[last].sku
  BY <1>5 DEF C!I!OfferingOf, C!I!SpelledSku
<1>7. C!I!Alike(o.sku, sheet[i].sku)
  BY <1>4, <1>6, AlikeIsEquivalence
<1> HIDE DEF o, last
<1>8. ASSUME o \in offerings
      PROVE  o.parts[kind] = Absent \/ C!I!Alike(o.parts[kind], sheet[i].parts[kind].name)
  BY <1>2, <1>7, <1>8, ExistingFits DEF ImportInv
<1>9. ASSUME o \in C!I!OfferingsWritten(sheet)
      PROVE  C!I!Alike(o.parts[kind], sheet[i].parts[kind].name)
  BY <1>2, <1>7, <1>9, WrittenFits
<1>10. o.parts[kind] = Absent \/ C!I!Alike(o.parts[kind], sheet[i].parts[kind].name)
  BY <1>3, <1>6, <1>8, <1>9
<1> QED
  BY <1>1, <1>10 DEF o

LEMMA ImportInvInit == C!I!Init => ImportInv
BY DEF C!I!Init, C!I!Idle, ImportInv, ImportKnown

LEMMA ImportInvNext == ImportInv /\ [C!I!Next]_(C!I!vars) => ImportInv'
<1> SUFFICES ASSUME ImportInv, [C!I!Next]_(C!I!vars)
             PROVE  ImportInv'
  OBVIOUS
<1>0. ASSUME NEW r \in Pair, NEW s, ImportKnown(s), step' = [step EXCEPT ![r] = s],
             \A o \in offerings' : o.sku \in C!I!Names
      PROVE  ImportInv'
  <2>1. step = [q \in Pair |-> step[q]]
    BY DEF ImportInv
  <2>2. \A q \in Pair : step'[q] = IF q = r THEN s ELSE step[q]
    BY <1>0, <2>1
  <2>3. step' = [q \in Pair |-> step'[q]]
    BY <1>0, <2>1
  <2>4. ASSUME NEW q \in Pair
        PROVE  ImportKnown(step'[q])
    BY <1>0, <2>2 DEF ImportInv
  <2> QED BY <1>0, <2>3, <2>4 DEF ImportInv
<1>i. ImportKnown(C!I!Idle)
  BY DEF ImportKnown, C!I!Idle
<1>1. ASSUME NEW r \in Pair, C!I!Analyze(r)
      PROVE  ImportInv'
  <2>1. PICK sheet \in C!I!Sheets :
          /\ C!I!Valid(sheet)
          /\ step' = [step EXCEPT ![r] = [at |-> "write", sheet |-> sheet,
                                          parts |-> parts, offerings |-> offerings]]
    BY <1>1 DEF C!I!Analyze
  <2>2. ValidAgainst(sheet, parts, offerings)
    BY <2>1 DEF C!I!Valid, C!I!PartKey, C!I!OfferingKey, ValidAgainst
  <2>3. ImportKnown([at |-> "write", sheet |-> sheet, parts |-> parts, offerings |-> offerings])
    BY <2>2 DEF ImportKnown
  <2>4. \A o \in offerings' : o.sku \in C!I!Names
    BY <1>1 DEF C!I!Analyze, ImportInv
  <2> QED BY <1>0, <2>1, <2>3, <2>4
<1>2. ASSUME NEW r \in Pair, C!I!Import(r)
      PROVE  ImportInv'
  <2>1. PICK sheet : sheet = step[r].sheet
    OBVIOUS
  <2>2. sheet \in C!I!Sheets
    BY <1>2, <2>1 DEF C!I!Import, ImportInv, ImportKnown
  <2>3. \A o \in C!I!OfferingsWritten(sheet) : o.sku \in C!I!Names
    <3>1. ASSUME NEW o \in C!I!OfferingsWritten(sheet)
          PROVE  o.sku \in C!I!Names
      <4>1. PICK j \in {C!I!LastOfSku(sheet, k) : k \in DOMAIN sheet} : o.sku = sheet[j].sku
        BY DEF C!I!OfferingsWritten
      <4>2. j \in DOMAIN sheet
        BY <2>2, SkuIsOfRow
      <4>3. sheet[j] \in Rows
        BY <2>2, <4>2, SheetIs
      <4> QED BY <4>1, <4>3, ImportsAssumed
    <3> QED BY <3>1
  <2>4. offerings' = offerings \/ offerings' = offerings \cup C!I!OfferingsWritten(sheet)
    BY <1>2, <2>1 DEF C!I!Import
  <2>5. \A o \in offerings' : o.sku \in C!I!Names
    BY <2>3, <2>4 DEF ImportInv
  <2> QED BY <1>0, <1>i, <1>2, <2>5 DEF C!I!Import, C!I!Return
<1>3. ASSUME NEW r \in Pair, NEW row \in Rows, NEW p, NEW v, NEW b, NEW k,
             C!I!CheckOffering(r, row.sku, p, v, b, k)
      PROVE  ImportInv'
  <2>1. PICK c : step' = [step EXCEPT ![r] =
                            [at |-> "create", offering |-> [sku |-> row.sku, parts |-> c]]]
    BY <1>3 DEF C!I!CheckOffering
  <2>2. ImportKnown([at |-> "create", offering |-> [sku |-> row.sku, parts |-> c]])
    BY ImportsAssumed DEF ImportKnown
  <2>3. \A o \in offerings' : o.sku \in C!I!Names
    BY <1>3 DEF C!I!CheckOffering, ImportInv
  <2> QED BY <1>0, <2>1, <2>2, <2>3
<1>4. ASSUME NEW r \in Pair, C!I!CreateOffering(r)
      PROVE  ImportInv'
  <2>1. step[r].offering.sku \in C!I!Names
    BY <1>4 DEF C!I!CreateOffering, ImportInv, ImportKnown
  <2>2. \A o \in offerings' : o.sku \in C!I!Names
    BY <1>4, <2>1 DEF C!I!CreateOffering, ImportInv
  <2> QED BY <1>0, <1>i, <1>4, <2>2 DEF C!I!CreateOffering, C!I!Return
<1>5. ASSUME NEW r \in Pair, NEW rows, C!I!AnalyzePrices(r, rows)
      PROVE  ImportInv'
  <2>1. ImportKnown([at |-> "prices", rows |-> rows])
    BY DEF ImportKnown
  <2>2. \A o \in offerings' : o.sku \in C!I!Names
    BY <1>5 DEF C!I!AnalyzePrices, ImportInv
  <2> QED BY <1>0, <1>5, <2>1, <2>2 DEF C!I!AnalyzePrices
<1>6. ASSUME NEW r \in Pair, C!I!ImportPrices(r)
      PROVE  ImportInv'
  <2>1. \A o \in offerings' : o.sku \in C!I!Names
    BY <1>6 DEF C!I!ImportPrices, ImportInv
  <2> QED BY <1>0, <1>i, <1>6, <2>1 DEF C!I!ImportPrices, C!I!Return
<1>7. ASSUME NEW row \in Rows, NEW kind \in C!I!Kinds, C!I!CreatePart(row, kind)
      PROVE  ImportInv'
  <2>1. UNCHANGED <<step, offerings>>
    BY <1>7 DEF C!I!CreatePart
  <2> QED BY <2>1 DEF ImportInv
<1>8. ASSUME UNCHANGED C!I!vars
      PROVE  ImportInv'
  BY <1>8 DEF C!I!vars, ImportInv
<1> QED
  BY <1>1, <1>2, <1>3, <1>4, <1>5, <1>6, <1>7, <1>8 DEF C!I!Next

LEMMA ImportInvHolds == C!I!Spec => []ImportInv
BY ImportInvInit, ImportInvNext, PTL DEF C!I!Spec

\* Only its own import ends a request that was going to write a sheet.
LEMMA WrittenByImport ==
  ASSUME ImportInv, C!I!Next, NEW r \in Pair, C!I!WrittenAsAnalyzed(r)
  PROVE  C!I!Import(r)
<1>1. /\ step[r].at = "write" /\ step'[r] = C!I!Idle /\ step[r] # C!I!Idle
      /\ step = [q \in Pair |-> step[q]]
      /\ <<parts', offerings', prices'>> # <<parts, offerings, prices>>
  BY DEF C!I!WrittenAsAnalyzed, ImportInv, C!I!Idle
<1>2. ASSUME NEW q \in Pair, C!I!Import(q)
      PROVE  C!I!Import(r)
  <2>1. step' = [step EXCEPT ![q] = C!I!Idle]
    BY <1>2 DEF C!I!Import, C!I!Return
  <2> QED BY <1>1, <1>2, <2>1
<1>3. ASSUME NEW q \in Pair, C!I!CreateOffering(q) \/ C!I!ImportPrices(q)
      PROVE  FALSE
  <2>1. step' = [step EXCEPT ![q] = C!I!Idle] /\ step[q].at # "write"
    BY <1>3 DEF C!I!CreateOffering, C!I!ImportPrices, C!I!Return
  <2> QED BY <1>1, <2>1
<1>4. ASSUME NEW q \in Pair, NEW rows, C!I!Analyze(q) \/ C!I!AnalyzePrices(q, rows)
      PROVE  FALSE
  BY <1>1, <1>4 DEF C!I!Analyze, C!I!AnalyzePrices
<1>5. ASSUME NEW q \in Pair, NEW sku, NEW p, NEW v, NEW b, NEW k,
             C!I!CheckOffering(q, sku, p, v, b, k)
      PROVE  FALSE
  BY <1>1, <1>5 DEF C!I!CheckOffering
<1>6. ASSUME NEW row \in Rows, NEW kind \in C!I!Kinds, C!I!CreatePart(row, kind)
      PROVE  FALSE
  BY <1>1, <1>6 DEF C!I!CreatePart
<1> QED
  BY <1>2, <1>3, <1>4, <1>5, <1>6 DEF C!I!Next

\* A valid sheet never puts a row under an offering of another product,
\* variant, brand or package, in any catalogue and by any number of requests
\* (catalogue-bulk.service.ts, validateAgainstExisting, writeRows).
THEOREM RowsStayPut == C!I!Spec => NoRowGoesToAnother
<1> DEFINE P == \A r \in Pair : C!I!WrittenAsAnalyzed(r) /\ C!I!OneSpelling(offerings) =>
                  \A i \in DOMAIN step[r].sheet : LET row == step[r].sheet[i]
                    IN \A kind \in C!I!Kinds :
                         LET part == C!I!OfferingOf(step[r].sheet, i).parts[kind]
                         IN part = Absent \/ C!I!Alike(part, row.parts[kind].name)
<1>1. ImportInv /\ C!I!Next => P
  BY WrittenByImport, RowsFit
<1>2. ImportInv /\ [C!I!Next]_(C!I!vars) => [P]_(C!I!vars)
  BY <1>1
<1>3. [P]_(C!I!vars) <=>
        [\A r \in Pair : C!I!WrittenAsAnalyzed(r) /\ C!I!OneSpelling(offerings) =>
           \A i \in DOMAIN step[r].sheet : LET row == step[r].sheet[i]
             IN \A kind \in C!I!Kinds :
                  LET part == C!I!OfferingOf(step[r].sheet, i).parts[kind]
                  IN part = Absent \/ C!I!Alike(part, row.parts[kind].name)]_(C!I!vars)
  OBVIOUS
<1> QED
  BY <1>2, <1>3, ImportInvHolds, PTL
     DEF C!I!Spec, NoRowGoesToAnother, C!NoRowGoesToAnother, C!I!NoRowGoesToAnother

-----------------------------------------------------------------------------
(* Shapes: what each service keeps, and what its requests have read.        *)

\* What is decided for an item is one of the outcomes, and an offering that can
\* be chosen is of the item's product and unit.
LEMMA WishOutcomes ==
  ASSUME NEW i, WishItem(i), NEW seen \in SUBSET C!L!Ids
  PROVE  LET out == C!L!ResolveItem(i, seen)
         IN /\ out \in C!L!Outcomes
            /\ out.status = "needs_confirmation" => \A p \in out.choices :
                 /\ p \in C!L!Ids /\ Offers[p].offering # Absent
                 /\ Offers[p].product = i.product /\ Offers[p].unit = i.unit
<1> DEFINE out == C!L!ResolveItem(i, seen)
           fit == WishFits(i, seen)
           detailed == {p \in fit : Offers[p].offering # Absent}
<1>1. \/ out = C!L!UnavailableItem(i, seen)
      \/ out = C!L!MatchedItem(C!L!Cheapest(fit)) /\ fit # {}
      \/ out = [status |-> "needs_confirmation", choices |-> detailed]
  BY WishForAnOffering, WishForAnyOffering
<1>2. fit \in SUBSET C!L!Ids
  BY DEF WishFits
<1>3. C!L!UnavailableItem(i, seen) \in C!L!Outcomes
  BY DEF C!L!UnavailableItem, C!L!PricesOfProduct, C!L!Outcomes
<1>4. fit # {} => C!L!MatchedItem(C!L!Cheapest(fit)) \in C!L!Outcomes
  BY <1>2, CheapestIsCheapest DEF C!L!MatchedItem, C!L!Outcomes
<1>5. [status |-> "needs_confirmation", choices |-> detailed] \in C!L!Outcomes
  BY <1>2 DEF C!L!Outcomes
<1>6. \A p \in detailed : /\ p \in C!L!Ids /\ Offers[p].offering # Absent
                          /\ Offers[p].product = i.product /\ Offers[p].unit = i.unit
  BY <1>2 DEF WishFits
<1> HIDE DEF out, detailed, fit
<1>7. out \in C!L!Outcomes
  BY <1>1, <1>3, <1>4, <1>5
<1>8. out.status = "needs_confirmation" => out.choices = detailed
  BY <1>1 DEF C!L!UnavailableItem, C!L!MatchedItem
<1> QED
  BY <1>6, <1>7, <1>8 DEF out

\* So the tables and the reads of the wishlists keep their shape.
LEMMA WishesTyped ==
  /\ C!L!Init => C!L!TypeOK
  /\ WishInv /\ C!L!TypeOK /\ [C!L!Next]_(C!L!vars) => C!L!TypeOK'
<1>0. MaxChanges \in Nat /\ \A i \in Wishes, p \in C!L!Ids :
        /\ Offers[p].product = i.product /\ Offers[p].unit = i.unit /\ Offers[p].offering # Absent
        => [i EXCEPT !.offering = Offers[p].offering] \in Wishes
  BY MCCheckoutAssumption DEF C!MCCatalogueAssumption, C!L!WishlistPricesAssumption, C!L!Ids
<1>1. C!L!Init => C!L!TypeOK
  BY <1>0 DEF C!L!Init, C!L!TypeOK
<1>2. ASSUME WishInv, C!L!TypeOK, [C!L!Next]_(C!L!vars)
      PROVE  C!L!TypeOK'
  <2>0. active \in SUBSET C!L!Ids /\ edits \in 0..MaxChanges
    BY <1>2 DEF C!L!TypeOK
  <2>1. ASSUME NEW item \in Wishes, NEW stage \in {"resolved"},
               wish' = [stage |-> stage, item |-> item, seen |-> active,
                        outcome |-> C!L!ResolveItem(item, active)],
               UNCHANGED <<active, edits>>
        PROVE  C!L!TypeOK'
    <3>1. C!L!ResolveItem(item, active) \in C!L!Outcomes
      BY <2>0, WishOutcomes, WishesAssumed
    <3> QED BY <2>0, <2>1, <3>1 DEF C!L!TypeOK
  <2>2. ASSUME NEW item \in Wishes, C!L!ResolveItems(item)
        PROVE  C!L!TypeOK'
    BY <2>1, <2>2 DEF C!L!ResolveItems
  <2>3. ASSUME wish.stage = "resolved"
        PROVE  /\ wish = [stage |-> wish.stage, item |-> wish.item, seen |-> wish.seen,
                          outcome |-> C!L!ResolveItem(wish.item, wish.seen)]
               /\ wish.item \in Wishes /\ wish.seen \in SUBSET C!L!Ids
               /\ wish.outcome \in C!L!Outcomes
    BY <1>2, <2>3 DEF WishInv, C!L!TypeOK, C!L!NoWish
  <2>4. ASSUME C!L!OrderItem
        PROVE  C!L!TypeOK'
    <3>1. PICK s \in {"ordered", "refused"} : wish' = [wish EXCEPT !.stage = s]
      BY <2>4 DEF C!L!OrderItem
    <3>2. wish.stage = "resolved" /\ UNCHANGED <<active, edits>>
      BY <2>4 DEF C!L!OrderItem
    <3>3. PICK item, seen, outcome :
            /\ wish = [stage |-> "resolved", item |-> item, seen |-> seen, outcome |-> outcome]
            /\ item \in Wishes /\ seen \in SUBSET C!L!Ids /\ outcome \in C!L!Outcomes
      BY <2>3, <3>2
    <3>4. wish' = [stage |-> s, item |-> item, seen |-> seen, outcome |-> outcome]
      BY <3>1, <3>3
    <3> QED BY <2>0, <3>2, <3>3, <3>4 DEF C!L!TypeOK
  <2>5. ASSUME NEW p \in C!L!Ids, C!L!ChooseOffering(p)
        PROVE  C!L!TypeOK'
    <3> DEFINE item == [wish.item EXCEPT !.offering = Offers[p].offering]
    <3>1. /\ wish.stage = "resolved" /\ wish.outcome.status = "needs_confirmation"
          /\ p \in wish.outcome.choices /\ UNCHANGED <<active, edits>>
          /\ wish' = [wish EXCEPT !.item = item, !.seen = active,
                                  !.outcome = C!L!ResolveItem(item, active)]
      BY <2>5 DEF C!L!ChooseOffering
    <3>2. WishItem(wish.item)
      BY <2>3, <3>1, WishesAssumed
    <3>3. wish.outcome = C!L!ResolveItem(wish.item, wish.seen)
      BY <2>3, <3>1
    <3>4. /\ Offers[p].offering # Absent
          /\ Offers[p].product = wish.item.product /\ Offers[p].unit = wish.item.unit
      BY <2>3, <3>1, <3>2, <3>3, WishOutcomes
    <3>5. item \in Wishes
      BY <1>0, <2>3, <3>1, <3>4
    <3> HIDE DEF item
    <3>6. wish' = [stage |-> "resolved", item |-> item, seen |-> active,
                   outcome |-> C!L!ResolveItem(item, active)]
      BY <2>3, <3>1
    <3> QED BY <2>1, <3>1, <3>5, <3>6
  <2>6. ASSUME NEW p \in C!L!Ids, C!L!SwitchPrice(p)
        PROVE  C!L!TypeOK'
    <3>1. /\ edits < MaxChanges /\ edits' = edits + 1 /\ UNCHANGED wish
          /\ active' = (active \ {p}) \cup ({p} \ active)
      BY <2>6 DEF C!L!SwitchPrice
    <3>2. edits' \in 0..MaxChanges /\ active' \subseteq C!L!Ids
      BY <1>0, <2>0, <3>1
    <3> QED BY <1>2, <3>1, <3>2 DEF C!L!TypeOK
  <2>7. ASSUME UNCHANGED C!L!vars
        PROVE  C!L!TypeOK'
    BY <1>2, <2>7 DEF C!L!vars, C!L!TypeOK
  <2> QED BY <1>2, <2>2, <2>4, <2>5, <2>6, <2>7 DEF C!L!Next
<1> QED
  BY <1>1, <1>2

\* A text is taken for one of the outcomes.
LEMMA TextOutcomes ==
  ASSUME NEW line, NEW catalog \in SUBSET DOMAIN PriceList, NEW products \in SUBSET Products
  PROVE  C!O!NormalizeItem(line, catalog, products) \subseteq C!O!Outcomes
<1> DEFINE Reasons == {"needs_confirmation", "unsupported_unit", "product_not_found",
                       "invalid_quantity"}
<1>1. ASSUME NEW reason \in Reasons, NEW choices \in SUBSET DOMAIN PriceList
      PROVE  C!O!Unclear(reason, choices) \in C!O!Outcomes
  BY DEF C!O!Unclear, C!O!Outcomes
<1>2. \A match : C!O!NoProduct(match) \in C!O!Outcomes
  BY <1>1 DEF C!O!NoProduct
<1>3. \A x : C!O!PricesOf(x, catalog) \in SUBSET DOMAIN PriceList
  BY DEF C!O!PricesOf
<1>4. \A x : C!O!UnsupportedUnitItem(x, catalog) \in C!O!Outcomes
  BY <1>1, <1>3 DEF C!O!UnsupportedUnitItem
<1>5. ASSUME NEW words
      PROVE  C!O!AmountItem(words, products) \subseteq C!O!Outcomes
  <2>1. C!O!MatchProduct(words, products).product \subseteq Products
    BY DEF C!O!MatchProduct
  <2>2. \A x \in Products : [status |-> "matched_amount", product |-> x] \in C!O!Outcomes
    BY DEF C!O!Outcomes
  <2> QED BY <1>2, <2>1, <2>2 DEF C!O!AmountItem
<1>6. ASSUME NEW u, NEW words
      PROVE  C!O!UnitItem(u, words, catalog) \subseteq C!O!Outcomes
  <2> DEFINE said == C!O!WithoutOf(C!O!After(words, u.taken))
             match == C!O!MatchProduct(said, {PriceList[p].product : p \in catalog})
             Of(x) == {p \in C!O!PricesOf(x, catalog) : PriceList[p].unit = u.unit}
             found(x) == C!O!PriceCandidate(u.hint \o said, Of(x))
             Item(x) == IF Of(x) = {} THEN {C!O!UnsupportedUnitItem(x, catalog)}
                        ELSE IF found(x) = {} THEN {C!O!Unclear("needs_confirmation", Of(x))}
                        ELSE {[status |-> "matched", price |-> p] : p \in found(x)}
  <2>1. C!O!UnitItem(u, words, catalog) =
          IF match.product = {} THEN {C!O!NoProduct(match)}
          ELSE UNION {Item(x) : x \in match.product}
    BY DEF C!O!UnitItem
  <2>2. \A p \in DOMAIN PriceList : [status |-> "matched", price |-> p] \in C!O!Outcomes
    BY DEF C!O!Outcomes
  <2>3. ASSUME NEW x
        PROVE  Item(x) \subseteq C!O!Outcomes
    <3>1. Of(x) \in SUBSET DOMAIN PriceList
      BY <1>3
    <3>2. found(x) \subseteq DOMAIN PriceList
      BY <3>1, PriceCandidates
    <3> HIDE DEF Of, found
    <3> QED BY <1>1, <1>4, <2>2, <3>1, <3>2
  <2> HIDE DEF Item, match
  <2> QED BY <1>2, <2>1, <2>3
<1> QED
  BY <1>1, <1>4, <1>5, <1>6 DEF C!O!NormalizeItem

\* So the texts, and what was read for them, keep their shape.
LEMMA TextsTyped ==
  /\ C!O!Init => C!O!TypeOK
  /\ TextInv /\ C!O!TypeOK /\ [C!O!Next]_(C!O!vars) => C!O!TypeOK'
<1>0. MaxChanges \in Nat
  BY MCCheckoutAssumption DEF C!MCCatalogueAssumption, C!O!OrderTextAssumption
<1>1. C!O!Init => C!O!TypeOK
  BY <1>0 DEF C!O!Init, C!O!TypeOK
<1>2. ASSUME TextInv, C!O!TypeOK, [C!O!Next]_(C!O!vars)
      PROVE  C!O!TypeOK'
  <2> DEFINE Tables == /\ available \subseteq DOMAIN PriceList /\ sold \subseteq Products
                       /\ changes \in 0..MaxChanges
             Shown == [at: {"shown", "quoted"}, line: Lines, catalog: SUBSET DOMAIN PriceList,
                       products: SUBSET Products, item: C!O!Outcomes, chosen: BOOLEAN]
             Reading == [at: {"reading"}, line: Lines, catalog: SUBSET SUBSET DOMAIN PriceList,
                         products: SUBSET SUBSET Products]
             Fits == text \in {C!O!Empty, [at |-> "refused"]} \cup Reading \cup Shown
  <2>1. Tables /\ Fits
    BY <1>2 DEF C!O!TypeOK, TextInv
  <2>2. Tables' /\ Fits' => C!O!TypeOK'
    BY DEF C!O!TypeOK
  <2>3. UNCHANGED <<available, sold, changes>> => Tables'
    BY <2>1
  <2>4. C!O!Catalog \in SUBSET DOMAIN PriceList /\ sold \in SUBSET Products
    BY <2>1 DEF C!O!Catalog
  <2>5. ASSUME text.at = "shown"
        PROVE  text \in Shown
    BY <2>1, <2>5 DEF C!O!Empty
  <2>6. ASSUME text.at = "reading"
        PROVE  text \in Reading
    BY <2>1, <2>6 DEF C!O!Empty
  <2> HIDE DEF Tables
  <2>7. ASSUME NEW line \in Lines, C!O!Read(line)
        PROVE  C!O!TypeOK'
    <3>1. text' \in Reading /\ UNCHANGED <<available, sold, changes>>
      BY <2>7 DEF C!O!Read
    <3> QED BY <2>2, <2>3, <3>1
  <2>8. ASSUME C!O!GetCatalog \/ C!O!GetActiveProducts
        PROVE  C!O!TypeOK'
    <3>1. /\ text \in Reading /\ UNCHANGED <<available, sold, changes>>
          /\ \/ text' = [text EXCEPT !.catalog = {C!O!Catalog}]
             \/ text' = [text EXCEPT !.products = {sold}]
      BY <2>6, <2>8 DEF C!O!GetCatalog, C!O!GetActiveProducts
    <3>2. text' \in Reading
      BY <2>4, <3>1
    <3> QED BY <2>2, <2>3, <3>1, <3>2
  <2>9. ASSUME C!O!Normalize
        PROVE  C!O!TypeOK'
    <3>1. text \in Reading /\ UNCHANGED <<available, sold, changes>>
      BY <2>6, <2>9 DEF C!O!Normalize
    <3>2. PICK catalog \in text.catalog, products \in text.products :
            \E item \in C!O!NormalizeItem(text.line, catalog, products) :
              text' = [at |-> "shown", line |-> text.line, catalog |-> catalog,
                       products |-> products, item |-> item, chosen |-> FALSE]
      BY <2>9 DEF C!O!Normalize
    <3>3. /\ text.line \in Lines /\ catalog \in SUBSET DOMAIN PriceList
          /\ products \in SUBSET Products
      BY <3>1
    <3>4. PICK item \in C!O!Outcomes :
            text' = [at |-> "shown", line |-> text.line, catalog |-> catalog,
                     products |-> products, item |-> item, chosen |-> FALSE]
      BY <3>2, <3>3, TextOutcomes
    <3>5. text' \in Shown
      BY <3>3, <3>4
    <3> QED BY <2>2, <2>3, <3>1, <3>5
  <2>10. ASSUME C!O!ResolveChoice
         PROVE  C!O!TypeOK'
    <3>1. /\ text.at = "shown" /\ UNCHANGED <<available, sold, changes>>
          /\ \E p \in text.item.choices :
               text' = IF p \in C!O!Catalog
                         THEN [text EXCEPT !.item = [status |-> "matched", price |-> p],
                                           !.chosen = TRUE]
                         ELSE [at |-> "refused"]
      BY <2>10 DEF C!O!ResolveChoice
    <3>2. text \in Shown
      BY <2>5, <3>1
    <3>3. \A p \in DOMAIN PriceList : [status |-> "matched", price |-> p] \in C!O!Outcomes
      BY DEF C!O!Outcomes
    <3>4. PICK line, catalog, products, item, at, chosen :
            /\ text = [at |-> at, line |-> line, catalog |-> catalog, products |-> products,
                       item |-> item, chosen |-> chosen]
            /\ at \in {"shown", "quoted"} /\ line \in Lines
            /\ catalog \in SUBSET DOMAIN PriceList /\ products \in SUBSET Products
      BY <3>2
    <3>5. PICK p : text' = [at |-> "refused"] \/ (p \in C!O!Catalog /\
             text' = [text EXCEPT !.item = [status |-> "matched", price |-> p], !.chosen = TRUE])
      BY <3>1
    <3>6. ASSUME p \in C!O!Catalog,
                 text' = [text EXCEPT !.item = [status |-> "matched", price |-> p],
                                      !.chosen = TRUE]
          PROVE  text' \in Shown
      <4>1. text' = [at |-> at, line |-> line, catalog |-> catalog, products |-> products,
                     item |-> [status |-> "matched", price |-> p], chosen |-> TRUE]
        BY <3>4, <3>6
      <4>2. [status |-> "matched", price |-> p] \in C!O!Outcomes
        BY <2>4, <3>3, <3>6
      <4> QED BY <3>4, <4>1, <4>2
    <3> QED BY <2>2, <2>3, <3>1, <3>5, <3>6
  <2>11. ASSUME C!O!Quote
         PROVE  C!O!TypeOK'
    <3>1. /\ text.at = "shown" /\ UNCHANGED <<available, sold, changes>>
          /\ text' \in {[at |-> "refused"], [text EXCEPT !.at = "quoted"]}
      BY <2>11 DEF C!O!Quote
    <3>2. text' = [at |-> "refused"] \/ text' \in Shown
      BY <2>5, <3>1
    <3> QED BY <2>2, <2>3, <3>1, <3>2
  <2>12. ASSUME changes < MaxChanges, changes' = changes + 1, UNCHANGED text,
                available' \subseteq DOMAIN PriceList, sold' \subseteq Products
         PROVE  C!O!TypeOK'
    <3>1. changes' \in 0..MaxChanges
      BY <1>0, <2>1, <2>12 DEF Tables
    <3> QED BY <2>1, <2>2, <2>12, <3>1 DEF Tables
  <2>13. ASSUME NEW p \in DOMAIN PriceList, C!O!PricesChange(p)
         PROVE  C!O!TypeOK'
    BY <2>1, <2>12, <2>13 DEF C!O!PricesChange, C!O!Flip, Tables
  <2>14. ASSUME NEW x \in Products, C!O!ProductsChange(x)
         PROVE  C!O!TypeOK'
    BY <2>1, <2>12, <2>14 DEF C!O!ProductsChange, C!O!Flip, Tables
  <2>15. ASSUME UNCHANGED C!O!vars
         PROVE  C!O!TypeOK'
    BY <2>1, <2>2, <2>3, <2>15 DEF C!O!vars
  <2> HIDE DEF Fits, Reading, Shown
  <2> QED
    BY <1>2, <2>7, <2>8, <2>9, <2>10, <2>11, <2>13, <2>14, <2>15 DEF C!O!Next
<1> QED
  BY <1>1, <1>2

\* Resolved discounts, and the quote they go into, have the shape they should.
LEMMA QuoteTotals ==
  ASSUME NEW subtotal \in Nat, NEW promotion, Discount(promotion, subtotal),
         NEW coupon, Discount(coupon, subtotal), NEW rule \in C!Q!Rules, NEW delivery \in Nat
  PROVE  C!Q!Priced(subtotal, promotion, coupon, rule, delivery) \in C!Q!Totals
<1> DEFINE applied == C!Q!Resolve(subtotal, promotion, coupon)
           fee == C!Q!ServiceFee(rule, subtotal - applied.total)
<1>1. PICK p \in Nat, c \in Nat, d \in Nat :
        /\ applied.promotion.discount = p /\ applied.coupon.discount = c
        /\ applied.total = d /\ d <= subtotal
  <2>1. /\ applied.promotion.discount \in Nat /\ applied.coupon.discount \in Nat
        /\ applied.total = applied.promotion.discount + applied.coupon.discount
        /\ applied.total \in promotion.discount..subtotal
    BY DiscountsResolved
  <2> HIDE DEF applied
  <2> QED BY <2>1
<1>2. C!Q!Priced(subtotal, promotion, coupon, rule, delivery) =
        [subtotal |-> subtotal, discount |-> applied.total,
         promotion |-> applied.promotion.discount, coupon |-> applied.coupon.discount,
         fee |-> fee, delivery |-> delivery,
         total |-> subtotal - applied.total + fee + delivery]
  BY DEF C!Q!Priced
<1> HIDE DEF applied
<1>3. subtotal - d \in Nat /\ subtotal - d <= subtotal - d
  BY <1>1
<1>4. fee \in Nat
  BY <1>1, <1>3, RulesAreFeeRules, FeeGrows
<1> HIDE DEF fee
<1>5. subtotal - d + fee + delivery \in Nat
  BY <1>3, <1>4
<1> QED
  BY <1>1, <1>2, <1>4, <1>5 DEF C!Q!Totals

\* So what a quote has come to keeps its shape.
LEMMA QuotesTyped ==
  /\ C!Q!Init => C!Q!TypeOK
  /\ QuoteInv /\ C!Q!TypeOK /\ [C!Q!Next]_(C!Q!vars) => C!Q!TypeOK'
<1>1. C!Q!Init => C!Q!TypeOK
  BY DEF C!Q!Init, C!Q!TypeOK
<1>2. ASSUME QuoteInv, C!Q!TypeOK, [C!Q!Next]_(C!Q!vars)
      PROVE  C!Q!TypeOK'
  <2>0. quote' = [at |-> "refused"] => C!Q!TypeOK'
    BY DEF C!Q!TypeOK
  <2>n. C!Q!None \in C!Q!Outcomes
    BY DEF C!Q!None, C!Q!Outcomes
  <2>1. ASSUME NEW b \in Baskets, C!Q!QuoteItems(b)
        PROVE  C!Q!TypeOK'
    <3>1. quote' = [at |-> "refused"] \/ quote' = [at |-> "items", subtotal |-> C!Q!Subtotal(b)]
      BY <2>1 DEF C!Q!QuoteItems, C!Q!Refuse
    <3> QED BY <2>0, <3>1, SubtotalIsNat DEF C!Q!TypeOK
  <2>2. ASSUME NEW running \in SUBSET Promotions, C!Q!CalculatePromotion(running)
        PROVE  C!Q!TypeOK'
    <3>1. PICK s \in Nat : quote = [at |-> "items", subtotal |-> s]
      BY <1>2, <2>2 DEF QuoteInv, C!Q!CalculatePromotion, C!Q!Empty
    <3>2. \/ quote' = [at |-> "promotion", subtotal |-> s, promotion |-> C!Q!None]
          \/ \E d \in C!Q!BestPromotions(running, s) :
               quote' = [at |-> "promotion", subtotal |-> s,
                         promotion |-> [id |-> "promotion", stacks |-> d.stacks,
                                        discount |-> C!Q!DiscountOf(d, s)]]
      BY <2>2, <3>1 DEF C!Q!CalculatePromotion
    <3>3. C!Q!BestPromotions(running, s) \subseteq Promotions
      BY DEF C!Q!BestPromotions
    <3>4. \A d \in Promotions : d.stacks \in BOOLEAN
      BY MCCheckoutAssumption DEF C!MCCatalogueAssumption, C!Q!QuotesAssumption
    <3>5. \A d \in Promotions :
            [id |-> "promotion", stacks |-> d.stacks, discount |-> C!Q!DiscountOf(d, s)]
              \in C!Q!Outcomes
      BY <3>4, DiscountIsLimited DEF C!Q!Outcomes
    <3>6. PICK p \in C!Q!Outcomes : quote' = [at |-> "promotion", subtotal |-> s, promotion |-> p]
      BY <2>n, <3>2, <3>3, <3>5
    <3> QED BY <3>6 DEF C!Q!TypeOK
  <2>3. ASSUME C!Q!CalculateCoupon
        PROVE  C!Q!TypeOK'
    <3>1. PICK s \in Nat, p \in C!Q!Outcomes :
            quote = [at |-> "promotion", subtotal |-> s, promotion |-> p]
      BY <1>2, <2>3 DEF C!Q!TypeOK, C!Q!CalculateCoupon, C!Q!Empty
    <3> DEFINE Found(c) ==
                 quote' = [at |-> "coupon", subtotal |-> s, promotion |-> p, coupon |-> c]
    <3>2. \/ quote' = [at |-> "refused"] \/ Found(C!Q!None)
          \/ \E d \in Coupons : Found([id |-> "coupon", stacks |-> FALSE,
                                       discount |-> C!Q!DiscountOf(d, s)])
      BY <2>3, <3>1 DEF C!Q!CalculateCoupon, C!Q!Refuse
    <3>3. \A d \in Coupons :
            [id |-> "coupon", stacks |-> FALSE, discount |-> C!Q!DiscountOf(d, s)]
              \in C!Q!Outcomes
      BY DiscountIsLimited DEF C!Q!Outcomes
    <3>4. quote' = [at |-> "refused"] \/ \E c \in C!Q!Outcomes : Found(c)
      BY <2>n, <3>2, <3>3
    <3> QED BY <2>0, <3>4 DEF C!Q!TypeOK
  <2>4. ASSUME C!Q!CalculateServiceFee
        PROVE  C!Q!TypeOK'
    <3>1. PICK s \in Nat, p \in C!Q!Outcomes, c \in C!Q!Outcomes :
            quote = [at |-> "coupon", subtotal |-> s, promotion |-> p, coupon |-> c]
      BY <1>2, <2>4 DEF C!Q!TypeOK, C!Q!CalculateServiceFee, C!Q!Empty
    <3>2. PICK rule \in C!Q!Rules :
            quote' = [at |-> "fee", subtotal |-> s, promotion |-> p, coupon |-> c, rule |-> rule]
      BY <2>4, <3>1 DEF C!Q!CalculateServiceFee
    <3> QED BY <3>2 DEF C!Q!TypeOK
  <2>5. ASSUME C!Q!CalculateDelivery
        PROVE  C!Q!TypeOK'
    <3>1. quote.at = "fee"
      BY <2>5 DEF C!Q!CalculateDelivery
    <3>2. quote.promotion \in C!Q!Outcomes
      BY <1>2, <3>1 DEF C!Q!TypeOK, C!Q!Empty
    <3>3. PICK s \in Nat, rule \in C!Q!Rules :
            \E q, d : /\ quote = [at |-> "fee", subtotal |-> s, promotion |-> q, coupon |-> d,
                                  rule |-> rule]
                      /\ Discount(q, s) /\ Discount(d, s)
      BY <1>2, <3>1 DEF QuoteInv, C!Q!Empty
    <3>4. PICK p, c : /\ quote = [at |-> "fee", subtotal |-> s, promotion |-> p, coupon |-> c,
                                  rule |-> rule]
                      /\ Discount(p, s) /\ Discount(c, s)
      BY <3>3
    <3>5. \/ quote' = [at |-> "refused"]
          \/ \E delivery \in ZoneCosts :
               quote' = [at |-> "done", promotion |-> p, rule |-> rule,
                         totals |-> C!Q!Priced(s, p, c, rule, delivery)]
      BY <2>5, <3>4 DEF C!Q!CalculateDelivery, C!Q!Refuse
    <3>6. \A delivery \in ZoneCosts : C!Q!Priced(s, p, c, rule, delivery) \in C!Q!Totals
      BY <3>4, QuoteTotals, QuotesAssumed
    <3>7. \/ quote' = [at |-> "refused"]
          \/ \E t \in C!Q!Totals :
               quote' = [at |-> "done", promotion |-> p, rule |-> rule, totals |-> t]
      BY <3>5, <3>6
    <3>8. p \in C!Q!Outcomes
      BY <3>2, <3>4
    <3> QED BY <2>0, <3>7, <3>8 DEF C!Q!TypeOK
  <2>6. ASSUME UNCHANGED C!Q!vars
        PROVE  C!Q!TypeOK'
    BY <1>2, <2>6 DEF C!Q!vars, C!Q!TypeOK
  <2> QED
    BY <1>2, <2>1, <2>2, <2>3, <2>4, <2>5, <2>6 DEF C!Q!Next
<1> QED
  BY <1>1, <1>2

\* A row of a sheet, and what is known of one, have their fields.
LEMMA RowIs ==
  ASSUME NEW row \in Rows
  PROVE  /\ row.sku \in C!I!Names /\ row.price \in C!I!Prices
         /\ \A kind \in C!I!Kinds : /\ row.parts[kind] \in C!I!PartsOf
                                    /\ row.parts[kind].name \in C!I!Names \cup {Absent}
                                    /\ row.parts[kind].detail \in C!I!Names \cup {Absent}
         /\ row.parts["product"].name # Absent
<1>1. C!I!ImportsAssumption
  BY MCCheckoutAssumption DEF C!MCCatalogueAssumption
<1>2. row \in [parts: [C!I!Kinds -> C!I!PartsOf], sku: C!I!Names, price: C!I!Prices]
  BY <1>1 DEF C!I!ImportsAssumption
<1>3. "product" \in C!I!Kinds \ C!I!Optional
  BY DEF C!I!Kinds, C!I!Optional
<1>4. row.parts["product"].name # Absent
  BY <1>1, <1>3 DEF C!I!ImportsAssumption
<1>5. \A kind \in C!I!Kinds : row.parts[kind] \in C!I!PartsOf
  BY <1>2
<1> QED
  BY <1>2, <1>4, <1>5 DEF C!I!PartsOf

\* What is written for a row is spelled as in some row, and it is named if the
\* row names it.
LEMMA SpelledIs ==
  ASSUME NEW sheet \in C!I!Sheets, NEW i \in DOMAIN sheet, NEW kind \in C!I!Kinds
  PROVE  LET part == C!I!Spelled(sheet, kind, i)
         IN /\ part.name \in C!I!Names \cup {Absent} /\ part.detail \in C!I!Names \cup {Absent}
            /\ sheet[i].parts[kind].name # Absent => part.name # Absent
            /\ kind = "product" => part.name # Absent
<1> DEFINE some == {k \in DOMAIN sheet : C!I!SamePart(kind, sheet[i], sheet[k])}
<1>1. \A k \in DOMAIN sheet : sheet[k] \in Rows
  BY SheetIs
<1>2. C!I!Spelled(sheet, kind, i) =
        IF sheet[i].parts[kind].name = Absent THEN sheet[i].parts[kind]
        ELSE sheet[C!I!Max(some)].parts[kind]
  BY DEF C!I!Spelled
<1>3. sheet[i].parts[kind].name # Absent => i \in some
  BY AlikeIsEquivalence DEF C!I!SamePart
<1>4. sheet[i].parts[kind].name # Absent => C!I!Max(some) \in DOMAIN sheet
  BY <1>3, LastRow
<1>5. PICK j \in DOMAIN sheet : C!I!Spelled(sheet, kind, i) = sheet[j].parts[kind]
  BY <1>2, <1>4
<1>6. /\ C!I!Spelled(sheet, kind, i).name \in C!I!Names \cup {Absent}
      /\ C!I!Spelled(sheet, kind, i).detail \in C!I!Names \cup {Absent}
      /\ kind = "product" => C!I!Spelled(sheet, kind, i).name # Absent
  BY <1>1, <1>5, RowIs
<1>7. C!I!Alike(C!I!Spelled(sheet, kind, i).name, sheet[i].parts[kind].name)
  BY PartIsOfRow
<1> QED
  BY <1>6, <1>7 DEF C!I!Alike

\* So what a sheet writes has the shape of the tables.
LEMMA SheetWrites ==
  ASSUME NEW sheet \in C!I!Sheets
  PROVE  /\ C!I!PartsWritten(sheet) \subseteq C!I!PartRows
         /\ C!I!OfferingsWritten(sheet) \subseteq C!I!OfferingRows
         /\ \A o \in C!I!OfferingsWritten(sheet) : o.parts["product"] # Absent
         /\ C!I!PricesWritten(sheet) \subseteq C!I!PriceRows
<1>0. /\ "product" \in C!I!Kinds
      /\ \A i \in DOMAIN sheet : sheet[i] \in Rows
  BY SheetIs DEF C!I!Kinds
<1>1. ASSUME NEW p \in C!I!PartsWritten(sheet)
      PROVE  p \in C!I!PartRows
  <2>1. PICK kind \in C!I!Kinds, i \in DOMAIN sheet :
          /\ sheet[i].parts[kind].name # Absent
          /\ p = [kind |-> kind, name |-> C!I!Spelled(sheet, kind, i).name,
                  detail |-> C!I!Spelled(sheet, kind, i).detail,
                  of |-> IF kind = "variant" THEN C!I!Spelled(sheet, "product", i).name
                         ELSE Absent]
    BY DEF C!I!PartsWritten
  <2>2. /\ C!I!Spelled(sheet, kind, i).name \in C!I!Names
        /\ C!I!Spelled(sheet, kind, i).detail \in C!I!Names \cup {Absent}
        /\ C!I!Spelled(sheet, "product", i).name \in C!I!Names \cup {Absent}
    BY <1>0, <2>1, SpelledIs
  <2> QED BY <2>1, <2>2 DEF C!I!PartRows
<1>2. ASSUME NEW o \in C!I!OfferingsWritten(sheet)
      PROVE  o \in C!I!OfferingRows /\ o.parts["product"] # Absent
  <2>1. PICK j \in {C!I!LastOfSku(sheet, k) : k \in DOMAIN sheet} :
          o = [sku |-> sheet[j].sku,
               parts |-> [kind \in C!I!Kinds |-> C!I!Spelled(sheet, kind, j).name]]
    BY DEF C!I!OfferingsWritten
  <2>2. j \in DOMAIN sheet
    BY SkuIsOfRow
  <2>3. sheet[j].sku \in C!I!Names
    BY <1>0, <2>2, RowIs
  <2>4. \A kind \in C!I!Kinds : C!I!Spelled(sheet, kind, j).name \in C!I!Names \cup {Absent}
    BY <2>2, SpelledIs
  <2>5. C!I!Spelled(sheet, "product", j).name # Absent
    BY <1>0, <2>2, SpelledIs
  <2> QED BY <1>0, <2>1, <2>3, <2>4, <2>5 DEF C!I!OfferingRows
<1>3. ASSUME NEW x \in C!I!PricesWritten(sheet)
      PROVE  x \in C!I!PriceRows
  <2>1. PICK i \in DOMAIN sheet :
          /\ sheet[i].price # Absent
          /\ x = [sku |-> C!I!SpelledSku(sheet, i),
                  product |-> C!I!Spelled(sheet, "product", i).name, price |-> sheet[i].price]
    BY DEF C!I!PricesWritten
  <2>2. C!I!SpelledSku(sheet, i) \in C!I!Names
    BY <1>0, SkuIsOfRow, RowIs DEF C!I!SpelledSku
  <2>3. C!I!Spelled(sheet, "product", i).name \in C!I!Names
    BY <1>0, SpelledIs
  <2>4. sheet[i].price \in C!I!Names
    BY <1>0, <2>1, RowIs DEF C!I!Prices
  <2> QED BY <2>1, <2>2, <2>3, <2>4 DEF C!I!PriceRows
<1> QED
  BY <1>1, <1>2, <1>3

\* The shape of what a request knows.
StepTyped(s) ==
  \/ s = C!I!Idle
  \/ /\ s.at = "write" /\ s.sheet \in C!I!Sheets
     /\ s.parts \subseteq C!I!PartRows /\ s.offerings \subseteq C!I!OfferingRows
  \/ s.at = "create" /\ s.offering \in C!I!OfferingRows /\ s.offering.parts["product"] # Absent
  \/ s.at = "prices" /\ s.rows \subseteq C!I!PriceRows

ImportTyped ==
  /\ parts \subseteq C!I!PartRows /\ prices \subseteq C!I!PriceRows
  /\ offerings \subseteq C!I!OfferingRows
  /\ \A o \in offerings : o.parts["product"] # Absent
  /\ step = [r \in Pair |-> step[r]]
  /\ \A r \in Pair : StepTyped(step[r])

\* The shape of the tables and of the requests is kept.
LEMMA ImportsTyped ==
  /\ C!I!Init => ImportTyped
  /\ ImportTyped /\ [C!I!Next]_(C!I!vars) => ImportTyped'
  /\ ImportTyped => C!I!TypeOK
<1>1. C!I!Init => ImportTyped
  BY DEF C!I!Init, ImportTyped, StepTyped
<1>2. ImportTyped => C!I!TypeOK
  BY DEF ImportTyped, StepTyped, C!I!TypeOK
<1>3. ASSUME ImportTyped, [C!I!Next]_(C!I!vars)
      PROVE  ImportTyped'
  <2> DEFINE Tables == /\ parts \subseteq C!I!PartRows /\ prices \subseteq C!I!PriceRows
                       /\ offerings \subseteq C!I!OfferingRows
                       /\ \A o \in offerings : o.parts["product"] # Absent
  <2>0. Tables /\ step = [r \in Pair |-> step[r]] /\ \A r \in Pair : StepTyped(step[r])
    BY <1>3 DEF ImportTyped
  <2>1. UNCHANGED <<parts, offerings, prices>> => Tables'
    BY <2>0
  <2>2. ASSUME NEW r \in Pair, NEW s, StepTyped(s), step' = [step EXCEPT ![r] = s], Tables'
        PROVE  ImportTyped'
    <3>1. \A q \in Pair : step'[q] = IF q = r THEN s ELSE step[q]
      BY <2>0, <2>2
    <3>2. step' = [q \in Pair |-> step'[q]]
      BY <2>0, <2>2
    <3>3. ASSUME NEW q \in Pair
          PROVE  StepTyped(step[q])'
      <4>1. StepTyped(step'[q])
        BY <2>0, <2>2, <3>1
      <4> QED BY <4>1 DEF StepTyped
    <3> QED BY <2>2, <3>2, <3>3 DEF ImportTyped
  <2>i. StepTyped(C!I!Idle)
    BY DEF StepTyped
  <2> HIDE DEF Tables
  <2>3. ASSUME NEW r \in Pair, C!I!Analyze(r)
        PROVE  ImportTyped'
    <3>1. PICK sheet \in C!I!Sheets :
            step' = [step EXCEPT ![r] = [at |-> "write", sheet |-> sheet,
                                         parts |-> parts, offerings |-> offerings]]
      BY <2>3 DEF C!I!Analyze
    <3>2. StepTyped([at |-> "write", sheet |-> sheet, parts |-> parts, offerings |-> offerings])
      BY <2>0 DEF StepTyped, Tables
    <3>3. Tables'
      BY <2>1, <2>3 DEF C!I!Analyze
    <3> QED BY <2>2, <3>1, <3>2, <3>3
  <2>4. ASSUME NEW r \in Pair, C!I!Import(r)
        PROVE  ImportTyped'
    <3>1. PICK sheet : sheet = step[r].sheet
      OBVIOUS
    <3>2. sheet \in C!I!Sheets
      BY <2>0, <2>4, <3>1 DEF StepTyped, C!I!Import, C!I!Idle
    <3>3. \/ UNCHANGED <<parts, offerings, prices>>
          \/ /\ parts' = parts \cup C!I!PartsWritten(sheet)
             /\ offerings' = offerings \cup C!I!OfferingsWritten(sheet)
             /\ prices' = prices \cup C!I!PricesWritten(sheet)
      BY <2>4, <3>1 DEF C!I!Import
    <3>4. Tables'
      BY <2>0, <2>1, <3>2, <3>3, SheetWrites DEF Tables
    <3> QED BY <2>2, <2>i, <2>4, <3>4 DEF C!I!Import, C!I!Return
  <2>5. ASSUME NEW r \in Pair, NEW row \in Rows,
               C!I!CheckOffering(r, row.sku, row.parts["product"].name,
                 row.parts["variant"].name, row.parts["brand"].name, row.parts["package"].name)
        PROVE  ImportTyped'
    <3> DEFINE names == [kind \in C!I!Kinds |->
                 CASE kind = "product" -> row.parts["product"].name
                   [] kind = "variant" -> row.parts["variant"].name
                   [] kind = "brand" -> row.parts["brand"].name
                   [] kind = "package" -> row.parts["package"].name]
    <3>1. /\ step' = [step EXCEPT ![r] =
                        [at |-> "create", offering |-> [sku |-> row.sku, parts |-> names]]]
          /\ UNCHANGED <<parts, offerings, prices>>
      BY <2>5 DEF C!I!CheckOffering
    <3>2. /\ names \in [C!I!Kinds -> C!I!Names \cup {Absent}]
          /\ names["product"] = row.parts["product"].name
      BY RowIs DEF C!I!Kinds
    <3> HIDE DEF names
    <3>3. [sku |-> row.sku, parts |-> names] \in C!I!OfferingRows
      BY <3>2, RowIs DEF C!I!OfferingRows
    <3>4. StepTyped([at |-> "create", offering |-> [sku |-> row.sku, parts |-> names]])
      BY <3>2, <3>3, RowIs DEF StepTyped
    <3> QED BY <2>1, <2>2, <3>1, <3>4
  <2>6. ASSUME NEW r \in Pair, C!I!CreateOffering(r)
        PROVE  ImportTyped'
    <3>1. /\ step[r].offering \in C!I!OfferingRows
          /\ step[r].offering.parts["product"] # Absent
      BY <2>0, <2>6 DEF StepTyped, C!I!CreateOffering, C!I!Idle
    <3>2. /\ offerings' \in {offerings, offerings \cup {step[r].offering}}
          /\ UNCHANGED <<parts, prices>>
      BY <2>6 DEF C!I!CreateOffering
    <3>3. Tables'
      BY <2>0, <3>1, <3>2 DEF Tables
    <3> QED BY <2>2, <2>i, <2>6, <3>3 DEF C!I!CreateOffering, C!I!Return
  <2>7. ASSUME NEW r \in Pair, NEW rows \in SUBSET C!I!Observable, C!I!AnalyzePrices(r, rows)
        PROVE  ImportTyped'
    <3>1. ASSUME NEW x \in C!I!Observable
          PROVE  x \in C!I!PriceRows
      <4>1. PICK o \in offerings, row \in {y \in Rows : y.price # Absent} :
              x = [sku |-> o.sku, product |-> o.parts["product"], price |-> row.price]
        BY DEF C!I!Observable
      <4>2. o.sku \in C!I!Names /\ o.parts["product"] \in C!I!Names
        BY <2>0 DEF Tables, C!I!OfferingRows, C!I!Kinds
      <4>3. row.price \in C!I!Names
        BY RowIs DEF C!I!Prices
      <4> QED BY <4>1, <4>2, <4>3 DEF C!I!PriceRows
    <3>2. StepTyped([at |-> "prices", rows |-> rows])
      BY <3>1 DEF StepTyped
    <3> QED BY <2>1, <2>2, <2>7, <3>2 DEF C!I!AnalyzePrices
  <2>8. ASSUME NEW r \in Pair, C!I!ImportPrices(r)
        PROVE  ImportTyped'
    <3>1. step[r].rows \subseteq C!I!PriceRows
      BY <2>0, <2>8 DEF StepTyped, C!I!ImportPrices, C!I!Idle
    <3>2. prices' = prices \cup step[r].rows /\ UNCHANGED <<parts, offerings>>
      BY <2>8 DEF C!I!ImportPrices
    <3>3. Tables'
      BY <2>0, <3>1, <3>2 DEF Tables
    <3> QED BY <2>2, <2>i, <2>8, <3>3 DEF C!I!ImportPrices, C!I!Return
  <2>9. ASSUME NEW row \in Rows, NEW kind \in C!I!Kinds, C!I!CreatePart(row, kind)
        PROVE  ImportTyped'
    <3> DEFINE new == [kind |-> kind, name |-> row.parts[kind].name,
                       detail |-> row.parts[kind].detail,
                       of |-> IF kind = "variant" THEN row.parts["product"].name ELSE Absent]
    <3>1. /\ new.name # Absent /\ parts' \in {parts, parts \cup {new}}
          /\ UNCHANGED <<offerings, prices, step>>
      BY <2>9 DEF C!I!CreatePart
    <3>2. new \in C!I!PartRows
      BY <3>1, RowIs DEF C!I!PartRows, C!I!Kinds
    <3> HIDE DEF new
    <3>3. Tables'
      BY <2>0, <3>1, <3>2 DEF Tables
    <3> QED BY <2>0, <3>1, <3>3 DEF Tables, ImportTyped, StepTyped
  <2>10. ASSUME UNCHANGED C!I!vars
         PROVE  ImportTyped'
    BY <1>3, <2>10 DEF C!I!vars, ImportTyped, StepTyped
  <2> QED
    BY <1>3, <2>3, <2>4, <2>5, <2>6, <2>7, <2>8, <2>9, <2>10 DEF C!I!Next
<1> QED
  BY <1>1, <1>2, <1>3

-----------------------------------------------------------------------------
(* The composition.  MCCheckout runs the checkout with wishlists and no     *)
(* tokens, or with tokens and no wishlists, beside the other services.      *)
(* What CheckoutProofs proves for all values of the constants holds of the  *)
(* two instances; every step of the composition is one of each service, or  *)
(* leaves it alone.                                                         *)

WP == INSTANCE CheckoutProofs WITH MaxChallenges <- 0, MaxTokens <- 0
TP == INSTANCE CheckoutProofs WITH Customers <- {c1}, Wishlists <- {}, Owner <- <<>>,
        Requests <- Pair, UsageLimit <- 0, PerCustomerLimit <- 0

\* W and WP are one module with one set of values: they count alike,
LEMMA WishlistCounted == \A S : W!Cardinality(S) = WP!Cardinality(S)
BY DEF W!Cardinality, WP!Cardinality, W!IsFiniteSet, WP!IsFiniteSet
\* begin an order alike,
LEMMA WishlistBegins ==
  \A r, c, h, w, items : W!BeginOrder(r, c, h, w, items) <=> WP!BeginOrder(r, c, h, w, items)
<1>1. W!Redeemed = WP!Redeemed /\ W!NoChallenge = WP!NoChallenge
  BY DEF W!Redeemed, WP!Redeemed, W!OrderIds, WP!OrderIds, W!NoOrder, WP!NoOrder,
     W!NoChallenge, WP!NoChallenge
<1>2. \A c : W!RedeemedBy(c) = WP!RedeemedBy(c)
  BY <1>1 DEF W!RedeemedBy, WP!RedeemedBy
<1>3. \A c : W!CouponLeft(c) <=> WP!CouponLeft(c)
  <2> SUFFICES ASSUME NEW c
               PROVE  W!CouponLeft(c) <=> WP!CouponLeft(c)
    OBVIOUS
  <2>1. W!Cardinality(W!Redeemed) = WP!Cardinality(WP!Redeemed)
    BY <1>1, WishlistCounted
  <2>2. W!Cardinality(W!RedeemedBy(c)) = WP!Cardinality(WP!RedeemedBy(c))
    BY <1>2, WishlistCounted
  <2> QED BY <2>1, <2>2 DEF W!CouponLeft, WP!CouponLeft
<1> QED
  BY <1>1, <1>3, SMTT(60) DEF W!BeginOrder, WP!BeginOrder, W!Goto, WP!Goto

\* take the same steps,
LEMMA WishlistNext == W!Next <=> WP!Next
<1>1. \A r : W!WrongOtp(r) <=> WP!WrongOtp(r)
  BY ZenonT(60) DEF W!WrongOtp, WP!WrongOtp, W!NoChallenge, WP!NoChallenge, W!Return,
     WP!Return, W!Goto, WP!Goto, W!NoJob, WP!NoJob
<1>2. \A r : W!RightOtp(r) <=> WP!RightOtp(r)
  BY ZenonT(60) DEF W!RightOtp, WP!RightOtp, W!NoChallenge, WP!NoChallenge, W!Return,
     WP!Return, W!Goto, WP!Goto, W!NoJob, WP!NoJob
<1>3. \A r : W!CheckLine(r) <=> WP!CheckLine(r)
  BY ZenonT(60) DEF W!CheckLine, WP!CheckLine, W!NoWishlist, WP!NoWishlist, W!Goto, WP!Goto
<1>4. \A r : W!WriteLine(r) <=> WP!WriteLine(r)
  BY ZenonT(60) DEF W!WriteLine, WP!WriteLine, W!NoWishlist, WP!NoWishlist, W!Return,
     WP!Return, W!Goto, WP!Goto, W!NoJob, WP!NoJob
<1>5. \A r : W!DeleteWishlist(r) <=> WP!DeleteWishlist(r)
  BY ZenonT(60) DEF W!DeleteWishlist, WP!DeleteWishlist, W!NoWishlist, WP!NoWishlist, W!Return,
     WP!Return, W!Goto, WP!Goto, W!NoJob, WP!NoJob
<1>6. \A r : W!ConvertWishlist(r) <=> WP!ConvertWishlist(r)
  BY WishlistBegins, ZenonT(60) DEF W!ConvertWishlist, WP!ConvertWishlist, W!Editable,
     WP!Editable, W!NoWishlist, WP!NoWishlist, W!OrderedItems, WP!OrderedItems, W!Contents,
     WP!Contents, W!Return, WP!Return, W!Goto, WP!Goto, W!NoJob, WP!NoJob
<1>7. \A r : W!CommitOrder(r) <=> WP!CommitOrder(r)
  BY ZenonT(60) DEF W!CommitOrder, WP!CommitOrder, W!OrderIds, WP!OrderIds, W!Serializable,
     WP!Serializable, W!SameRow, WP!SameRow, W!NoChallenge, WP!NoChallenge, W!NoWishlist,
     WP!NoWishlist, W!Redeemed, WP!Redeemed, W!NoOrder, WP!NoOrder, W!Return, WP!Return,
     W!Goto, WP!Goto, W!NoJob, WP!NoJob
<1>8. \A r : W!RequestDies(r) <=> WP!RequestDies(r)
  BY ZenonT(60) DEF W!RequestDies, WP!RequestDies, W!Return, WP!Return, W!Goto, WP!Goto,
     W!NoJob, WP!NoJob
<1>9. \A r, w, kind : W!OpenWishlist(r, w, kind) <=> WP!OpenWishlist(r, w, kind)
  BY ZenonT(60) DEF W!OpenWishlist, WP!OpenWishlist, W!Editable, WP!Editable, W!NoWishlist,
     WP!NoWishlist, W!Goto, WP!Goto
<1>10. \A r, c : W!VerifyOrderOtp(r, c) <=> WP!VerifyOrderOtp(r, c)
  BY ZenonT(60) DEF W!VerifyOrderOtp, WP!VerifyOrderOtp, W!OpenToVerify, WP!OpenToVerify,
     W!Pending, WP!Pending, W!ChallengeIds, WP!ChallengeIds, W!Goto, WP!Goto
<1>11. \A r, c : W!OrderWithAccount(r, c) <=> WP!OrderWithAccount(r, c)
  BY WishlistBegins, ZenonT(60) DEF W!OrderWithAccount, WP!OrderWithAccount, W!OrderedItems,
     WP!OrderedItems, W!Contents, WP!Contents
<1>12. \A r, c, t : W!OrderWithToken(r, c, t) <=> WP!OrderWithToken(r, c, t)
  BY WishlistBegins, ZenonT(60) DEF W!OrderWithToken, WP!OrderWithToken, W!ChallengeIds,
     WP!ChallengeIds, W!OrderedItems, WP!OrderedItems, W!Contents, WP!Contents, W!Usable,
     WP!Usable
<1>13. \A c : W!RequestOrderOtp(c) <=> WP!RequestOrderOtp(c)
  BY ZenonT(60) DEF W!RequestOrderOtp, WP!RequestOrderOtp, W!ChallengeIds, WP!ChallengeIds,
     W!Pending, WP!Pending, W!NoChallenge, WP!NoChallenge
<1>14. \A h : W!OtpExpires(h) <=> WP!OtpExpires(h)
  BY ZenonT(60) DEF W!OtpExpires, WP!OtpExpires, W!NoChallenge, WP!NoChallenge
<1>15. \A h : W!TokenExpires(h) <=> WP!TokenExpires(h)
  BY ZenonT(60) DEF W!TokenExpires, WP!TokenExpires, W!NoChallenge, WP!NoChallenge
<1> QED
  BY ZenonT(60), <1>1, <1>2, <1>3, <1>4, <1>5, <1>6, <1>7, <1>8, <1>9, <1>10, <1>11, <1>12,
     <1>13, <1>14, <1>15 DEF W!Next, WP!Next, W!Request, WP!Request, W!Kinds, WP!Kinds,
     W!ChallengeIds, WP!ChallengeIds

\* and begin in the same states, of the same shape.
LEMMA WishlistShape == (W!Init <=> WP!Init) /\ (W!TypeOK <=> WP!TypeOK) /\ W!vars = WP!vars
<1>1. W!Init <=> WP!Init
  BY ZenonT(60) DEF W!Init, WP!Init, W!ChallengeIds, WP!ChallengeIds, W!NoChallenge,
     WP!NoChallenge, W!OrderIds, WP!OrderIds, W!NoOrder, WP!NoOrder, W!NoJob, WP!NoJob
<1>2. W!TypeOK <=> WP!TypeOK
  BY ZenonT(60) DEF W!TypeOK, WP!TypeOK, W!ChallengeIds, WP!ChallengeIds, W!Challenges,
     WP!Challenges, W!NoChallenge, WP!NoChallenge, W!WishlistRows, WP!WishlistRows, W!Contents,
     WP!Contents, W!NoWishlist, WP!NoWishlist, W!OrderIds, WP!OrderIds, W!OrderRows,
     WP!OrderRows, W!NoOrder, WP!NoOrder, W!Steps, WP!Steps, W!Jobs, WP!Jobs, W!NoJob,
     WP!NoJob, W!VerifyJobs, WP!VerifyJobs, W!EditJobs, WP!EditJobs, W!Kinds, WP!Kinds,
     W!LineJobs, WP!LineJobs, W!OrderJobs, WP!OrderJobs
<1>3. W!vars = WP!vars
  BY ZenonT(60) DEF W!vars, WP!vars
<1> QED
  BY <1>1, <1>2, <1>3

\* T and TP are one module with one set of values: they count alike,
LEMMA TokenCounted == \A S : T!Cardinality(S) = TP!Cardinality(S)
BY DEF T!Cardinality, TP!Cardinality, T!IsFiniteSet, TP!IsFiniteSet
\* begin an order alike,
LEMMA TokenBegins ==
  \A r, c, h, w, items : T!BeginOrder(r, c, h, w, items) <=> TP!BeginOrder(r, c, h, w, items)
<1>1. T!Redeemed = TP!Redeemed /\ T!NoChallenge = TP!NoChallenge
  BY DEF T!Redeemed, TP!Redeemed, T!OrderIds, TP!OrderIds, T!NoOrder, TP!NoOrder,
     T!NoChallenge, TP!NoChallenge
<1>2. \A c : T!RedeemedBy(c) = TP!RedeemedBy(c)
  BY <1>1 DEF T!RedeemedBy, TP!RedeemedBy
<1>3. \A c : T!CouponLeft(c) <=> TP!CouponLeft(c)
  <2> SUFFICES ASSUME NEW c
               PROVE  T!CouponLeft(c) <=> TP!CouponLeft(c)
    OBVIOUS
  <2>1. T!Cardinality(T!Redeemed) = TP!Cardinality(TP!Redeemed)
    BY <1>1, TokenCounted
  <2>2. T!Cardinality(T!RedeemedBy(c)) = TP!Cardinality(TP!RedeemedBy(c))
    BY <1>2, TokenCounted
  <2> QED BY <2>1, <2>2 DEF T!CouponLeft, TP!CouponLeft
<1> QED
  BY <1>1, <1>3, SMTT(60) DEF T!BeginOrder, TP!BeginOrder, T!Goto, TP!Goto

\* take the same steps,
LEMMA TokenNext == T!Next <=> TP!Next
<1>1. \A r : T!WrongOtp(r) <=> TP!WrongOtp(r)
  BY ZenonT(60) DEF T!WrongOtp, TP!WrongOtp, T!NoChallenge, TP!NoChallenge, T!Return,
     TP!Return, T!Goto, TP!Goto, T!NoJob, TP!NoJob
<1>2. \A r : T!RightOtp(r) <=> TP!RightOtp(r)
  BY ZenonT(60) DEF T!RightOtp, TP!RightOtp, T!NoChallenge, TP!NoChallenge, T!Return,
     TP!Return, T!Goto, TP!Goto, T!NoJob, TP!NoJob
<1>3. \A r : T!CheckLine(r) <=> TP!CheckLine(r)
  BY ZenonT(60) DEF T!CheckLine, TP!CheckLine, T!NoWishlist, TP!NoWishlist, T!Goto, TP!Goto
<1>4. \A r : T!WriteLine(r) <=> TP!WriteLine(r)
  BY ZenonT(60) DEF T!WriteLine, TP!WriteLine, T!NoWishlist, TP!NoWishlist, T!Return,
     TP!Return, T!Goto, TP!Goto, T!NoJob, TP!NoJob
<1>5. \A r : T!DeleteWishlist(r) <=> TP!DeleteWishlist(r)
  BY ZenonT(60) DEF T!DeleteWishlist, TP!DeleteWishlist, T!NoWishlist, TP!NoWishlist, T!Return,
     TP!Return, T!Goto, TP!Goto, T!NoJob, TP!NoJob
<1>6. \A r : T!ConvertWishlist(r) <=> TP!ConvertWishlist(r)
  BY TokenBegins, ZenonT(60) DEF T!ConvertWishlist, TP!ConvertWishlist, T!Editable,
     TP!Editable, T!NoWishlist, TP!NoWishlist, T!OrderedItems, TP!OrderedItems, T!Contents,
     TP!Contents, T!Return, TP!Return, T!Goto, TP!Goto, T!NoJob, TP!NoJob
<1>7. \A r : T!CommitOrder(r) <=> TP!CommitOrder(r)
  BY ZenonT(60) DEF T!CommitOrder, TP!CommitOrder, T!OrderIds, TP!OrderIds, T!Serializable,
     TP!Serializable, T!SameRow, TP!SameRow, T!NoChallenge, TP!NoChallenge, T!NoWishlist,
     TP!NoWishlist, T!Redeemed, TP!Redeemed, T!NoOrder, TP!NoOrder, T!Return, TP!Return,
     T!Goto, TP!Goto, T!NoJob, TP!NoJob
<1>8. \A r : T!RequestDies(r) <=> TP!RequestDies(r)
  BY ZenonT(60) DEF T!RequestDies, TP!RequestDies, T!Return, TP!Return, T!Goto, TP!Goto,
     T!NoJob, TP!NoJob
<1>9. \A r, w, kind : T!OpenWishlist(r, w, kind) <=> TP!OpenWishlist(r, w, kind)
  BY ZenonT(60) DEF T!OpenWishlist, TP!OpenWishlist, T!Editable, TP!Editable, T!NoWishlist,
     TP!NoWishlist, T!Goto, TP!Goto
<1>10. \A r, c : T!VerifyOrderOtp(r, c) <=> TP!VerifyOrderOtp(r, c)
  BY ZenonT(60) DEF T!VerifyOrderOtp, TP!VerifyOrderOtp, T!OpenToVerify, TP!OpenToVerify,
     T!Pending, TP!Pending, T!ChallengeIds, TP!ChallengeIds, T!Goto, TP!Goto
<1>11. \A r, c : T!OrderWithAccount(r, c) <=> TP!OrderWithAccount(r, c)
  BY TokenBegins, ZenonT(60) DEF T!OrderWithAccount, TP!OrderWithAccount, T!OrderedItems,
     TP!OrderedItems, T!Contents, TP!Contents
<1>12. \A r, c, t : T!OrderWithToken(r, c, t) <=> TP!OrderWithToken(r, c, t)
  BY TokenBegins, ZenonT(60) DEF T!OrderWithToken, TP!OrderWithToken, T!ChallengeIds,
     TP!ChallengeIds, T!OrderedItems, TP!OrderedItems, T!Contents, TP!Contents, T!Usable,
     TP!Usable
<1>13. \A c : T!RequestOrderOtp(c) <=> TP!RequestOrderOtp(c)
  BY ZenonT(60) DEF T!RequestOrderOtp, TP!RequestOrderOtp, T!ChallengeIds, TP!ChallengeIds,
     T!Pending, TP!Pending, T!NoChallenge, TP!NoChallenge
<1>14. \A h : T!OtpExpires(h) <=> TP!OtpExpires(h)
  BY ZenonT(60) DEF T!OtpExpires, TP!OtpExpires, T!NoChallenge, TP!NoChallenge
<1>15. \A h : T!TokenExpires(h) <=> TP!TokenExpires(h)
  BY ZenonT(60) DEF T!TokenExpires, TP!TokenExpires, T!NoChallenge, TP!NoChallenge
<1> QED
  BY ZenonT(60), <1>1, <1>2, <1>3, <1>4, <1>5, <1>6, <1>7, <1>8, <1>9, <1>10, <1>11, <1>12,
     <1>13, <1>14, <1>15 DEF T!Next, TP!Next, T!Request, TP!Request, T!Kinds, TP!Kinds,
     T!ChallengeIds, TP!ChallengeIds

\* and begin in the same states, of the same shape.
LEMMA TokenShape == (T!Init <=> TP!Init) /\ (T!TypeOK <=> TP!TypeOK) /\ T!vars = TP!vars
<1>1. T!Init <=> TP!Init
  BY ZenonT(60) DEF T!Init, TP!Init, T!ChallengeIds, TP!ChallengeIds, T!NoChallenge,
     TP!NoChallenge, T!OrderIds, TP!OrderIds, T!NoOrder, TP!NoOrder, T!NoJob, TP!NoJob
<1>2. T!TypeOK <=> TP!TypeOK
  BY ZenonT(60) DEF T!TypeOK, TP!TypeOK, T!ChallengeIds, TP!ChallengeIds, T!Challenges,
     TP!Challenges, T!NoChallenge, TP!NoChallenge, T!WishlistRows, TP!WishlistRows, T!Contents,
     TP!Contents, T!NoWishlist, TP!NoWishlist, T!OrderIds, TP!OrderIds, T!OrderRows,
     TP!OrderRows, T!NoOrder, TP!NoOrder, T!Steps, TP!Steps, T!Jobs, TP!Jobs, T!NoJob,
     TP!NoJob, T!VerifyJobs, TP!VerifyJobs, T!EditJobs, TP!EditJobs, T!Kinds, TP!Kinds,
     T!LineJobs, TP!LineJobs, T!OrderJobs, TP!OrderJobs
<1>3. T!vars = TP!vars
  BY ZenonT(60) DEF T!vars, TP!vars
<1> QED
  BY <1>1, <1>2, <1>3

\* What those instances assume is so.
LEMMA WishlistAssumed == WP!CheckoutAssumption
BY CheckoutAssumption DEF WP!CheckoutAssumption

LEMMA TokenAssumed == TP!CheckoutAssumption
<1>1. <<>> \in [{} -> {c1}]
  OBVIOUS
<1>2. c1 \in Customers
  BY MCCheckoutAssumption
<1> QED
  BY <1>1, <1>2, CheckoutAssumption DEF TP!CheckoutAssumption

\* In a behaviour with wishlists the invariant of orders made with them holds,
\* in any other that of orders made with tokens, and everywhere those of the
\* other services.
CheckoutsInv ==
  /\ IF scenario = "wishlist" THEN WP!IInv ELSE TP!IInv
  /\ AddressInv /\ ImportTyped
  /\ WishInv /\ C!L!TypeOK
  /\ TextInv /\ C!O!TypeOK
  /\ QuoteInv /\ C!Q!TypeOK

\* Whatever the scenario, a step is one of each service, or none.
LEMMA CheckoutSteps ==
  ASSUME [MCNext]_<<scenario, vars, catalogueVars>>
  PROVE  /\ scenario' = scenario
         /\ IF scenario = "wishlist" THEN [W!Next]_(W!vars) ELSE [T!Next]_(T!vars)
         /\ [C!D!Next]_(C!D!vars) /\ [C!I!Next]_(C!I!vars) /\ [C!L!Next]_(C!L!vars)
         /\ [C!O!Next]_(C!O!vars) /\ [C!Q!Next]_(C!Q!vars)
<1>1. UNCHANGED vars => UNCHANGED W!vars /\ UNCHANGED T!vars
  BY DEF vars, W!vars, T!vars
<1>2. UNCHANGED catalogueVars =>
        /\ UNCHANGED C!D!vars /\ UNCHANGED C!I!vars /\ UNCHANGED C!L!vars
        /\ UNCHANGED C!O!vars /\ UNCHANGED C!Q!vars
  BY DEF catalogueVars, C!D!vars, C!I!vars, C!L!vars, C!O!vars, C!Q!vars
<1>3. ASSUME C!Next
      PROVE  /\ scenario' = scenario
             /\ [C!D!Next]_(C!D!vars) /\ [C!I!Next]_(C!I!vars) /\ [C!L!Next]_(C!L!vars)
             /\ [C!O!Next]_(C!O!vars) /\ [C!Q!Next]_(C!Q!vars)
  BY <1>3 DEF C!Next, C!importsVars, C!deliveryVars, C!textVars, C!wishVars,
     C!D!vars, C!I!vars, C!L!vars, C!O!vars, C!Q!vars
<1>4. CASE UNCHANGED <<scenario, vars, catalogueVars>>
  BY <1>1, <1>2, <1>4
<1>5. CASE /\ UNCHANGED <<scenario, catalogueVars>>
           /\ \/ scenario = "wishlist" /\ W!Next
              \/ scenario = "token" /\ T!Next
  BY <1>2, <1>5
<1>6. CASE C!Next /\ UNCHANGED vars
  BY <1>1, <1>3, <1>6
<1> QED
  BY <1>4, <1>5, <1>6 DEF MCNext

\* They hold to begin with,
LEMMA CheckoutStarts == MCInit => CheckoutsInv
<1> SUFFICES ASSUME MCInit
             PROVE  CheckoutsInv
  OBVIOUS
<1>1. C!D!Init /\ C!I!Init /\ C!L!Init /\ C!O!Init /\ C!Q!Init
  BY DEF MCInit, C!Tables
<1>2. W!Init => WP!IInv
  BY WishlistShape, WishlistAssumed, WP!InitInvariant
<1>3. T!Init => TP!IInv
  BY TokenShape, TokenAssumed, TP!InitInvariant
<1>4. IF scenario = "wishlist" THEN WP!IInv ELSE TP!IInv
  BY <1>2, <1>3 DEF MCInit
<1> QED
  BY <1>1, <1>4, AddressInit, ImportsTyped, WishInvInit, WishesTyped, TextInvInit,
     TextsTyped, QuoteInvInit, QuotesTyped DEF CheckoutsInv

\* after every step of the composition,
LEMMA CheckoutNext ==
  CheckoutsInv /\ [MCNext]_<<scenario, vars, catalogueVars>> => CheckoutsInv'
<1> SUFFICES ASSUME CheckoutsInv, [MCNext]_<<scenario, vars, catalogueVars>>
             PROVE  CheckoutsInv'
  OBVIOUS
<1>1. /\ scenario' = scenario
      /\ IF scenario = "wishlist" THEN [W!Next]_(W!vars) ELSE [T!Next]_(T!vars)
      /\ [C!D!Next]_(C!D!vars) /\ [C!I!Next]_(C!I!vars) /\ [C!L!Next]_(C!L!vars)
      /\ [C!O!Next]_(C!O!vars) /\ [C!Q!Next]_(C!Q!vars)
  BY CheckoutSteps
<1>2. W!vars' = WP!vars' /\ T!vars' = TP!vars' /\ W!vars = WP!vars /\ T!vars = TP!vars
  BY DEF W!vars, WP!vars, T!vars, TP!vars
<1>3. ASSUME WP!IInv, [W!Next]_(W!vars)
      PROVE  WP!IInv'
  <2>1. [WP!Next]_(WP!vars)
    BY <1>2, <1>3, WishlistNext
  <2> QED BY <1>3, <2>1, WishlistAssumed, WP!NextKeepsIInv
<1>4. ASSUME TP!IInv, [T!Next]_(T!vars)
      PROVE  TP!IInv'
  <2>1. [TP!Next]_(TP!vars)
    BY <1>2, <1>4, TokenNext
  <2> QED BY <1>4, <2>1, TokenAssumed, TP!NextKeepsIInv
<1>5. (IF scenario = "wishlist" THEN WP!IInv ELSE TP!IInv)'
  BY <1>1, <1>3, <1>4 DEF CheckoutsInv
<1>6. /\ AddressInv' /\ ImportTyped' /\ WishInv' /\ C!L!TypeOK' /\ TextInv' /\ C!O!TypeOK'
      /\ QuoteInv' /\ C!Q!TypeOK'
  BY <1>1, AddressNext, ImportsTyped, WishInvNext, WishesTyped, TextInvNext, TextsTyped,
     QuoteInvNext, QuotesTyped DEF CheckoutsInv
<1> QED
  BY <1>5, <1>6 DEF CheckoutsInv

\* and so always;
LEMMA CheckoutInvHolds == MCSpec => []CheckoutsInv
BY CheckoutStarts, CheckoutNext, PTL DEF MCSpec

\* and they contain the shape of every table.
LEMMA CheckoutsTyped == CheckoutsInv => MCTypeOK
<1> SUFFICES ASSUME CheckoutsInv
             PROVE  MCTypeOK
  OBVIOUS
<1>1. scenario = "wishlist" => W!TypeOK
  BY WishlistShape, WishlistAssumed, WP!InvariantImpliesType DEF CheckoutsInv
<1>2. scenario # "wishlist" => T!TypeOK
  BY TokenShape, TokenAssumed, TP!InvariantImpliesType DEF CheckoutsInv
<1>3. C!D!TypeOK
  BY DEF CheckoutsInv, AddressInv, AddressTables, AddressesInHand, AddressFits, C!D!TypeOK
<1>4. C!TypeOK
  BY <1>3, ImportsTyped DEF CheckoutsInv, C!TypeOK
<1> QED
  BY <1>1, <1>2, <1>4 DEF MCTypeOK

\* The tables, and what the requests have read, always have the shape they should.
THEOREM CheckoutsTypeCorrect == MCSpec => []MCTypeOK
BY CheckoutInvHolds, CheckoutsTyped, PTL

\* What the invariants of the two instances say of the orders.
LEMMA OrdersAreLimited == CheckoutsInv => CouponWithinLimits /\ OneOrderEach
<1> SUFFICES ASSUME CheckoutsInv
             PROVE  CouponWithinLimits /\ OneOrderEach
  OBVIOUS
<1>1. CASE scenario = "wishlist"
  <2>1. WP!CouponWithinLimits /\ WP!OneOrderEach
    BY <1>1 DEF CheckoutsInv, WP!IInv, WP!Tables
  <2>2. \A S : WP!Cardinality(S) = Cardinality(S)
    BY DEF WP!Cardinality, Cardinality, WP!IsFiniteSet, IsFiniteSet
  <2>3. Redeemed = WP!Redeemed /\ \A c : RedeemedBy(c) = WP!RedeemedBy(c)
    BY DEF Redeemed, WP!Redeemed, RedeemedBy, WP!RedeemedBy, OrderIds, WP!OrderIds,
       NoOrder, WP!NoOrder
  <2>4. CouponWithinLimits
    BY <2>1, <2>2, <2>3 DEF CouponWithinLimits, WP!CouponWithinLimits
  <2>5. OneOrderEach
    BY <2>1 DEF OneOrderEach, OneOrderPerChallenge, OneOrderPerWishlist, OrderIds, NoOrder,
       NoWishlist, WP!OneOrderEach, WP!OneOrderPerChallenge, WP!OneOrderPerWishlist,
       WP!OrderIds, WP!NoOrder, WP!NoWishlist
  <2> QED BY <2>4, <2>5
<1>2. CASE scenario # "wishlist"
  <2>1. /\ TP!CouponWithinLimits /\ TP!OneOrderEach
        /\ orders \in [TP!OrderIds -> TP!OrderRows \cup {TP!NoOrder}]
    BY <1>2 DEF CheckoutsInv, TP!IInv, TP!Tables
  <2>2. \A S : TP!Cardinality(S) = Cardinality(S)
    BY DEF TP!Cardinality, Cardinality, TP!IsFiniteSet, IsFiniteSet
  <2>3. Redeemed = TP!Redeemed
    BY DEF Redeemed, TP!Redeemed, OrderIds, TP!OrderIds, NoOrder, TP!NoOrder
  <2>4. IsFiniteSet(Redeemed) /\ Cardinality(Redeemed) <= 0
    <3>1. Redeemed \subseteq 1..MaxOrders /\ MaxOrders \in Nat
      BY CheckoutAssumption DEF Redeemed, OrderIds
    <3>2. IsFiniteSet(Redeemed)
      <4>1. IsFiniteSet(1..MaxOrders)
        BY <3>1, FS_Interval
      <4> QED BY <3>1, <4>1, FS_Subset
    <3>3. TP!Cardinality(TP!Redeemed) <= 0
      BY <2>1 DEF TP!CouponWithinLimits
    <3>4. TP!Cardinality(TP!Redeemed) = Cardinality(Redeemed)
      BY <2>2, <2>3
    <3> QED BY <3>2, <3>3, <3>4
  <2>5. Redeemed = {} /\ \A c \in Customers : RedeemedBy(c) = {}
    BY <2>4, FS_CardinalityType, FS_EmptySet DEF RedeemedBy
  <2>6. CouponWithinLimits
    BY <2>5, FS_EmptySet, CheckoutAssumption DEF CouponWithinLimits
  <2>7. OneOrderPerChallenge
    BY <2>1 DEF OneOrderPerChallenge, OrderIds, NoOrder, TP!OneOrderEach,
       TP!OneOrderPerChallenge, TP!OrderIds, TP!NoOrder
  <2>8. OneOrderPerWishlist
    <3>1. \A o \in OrderIds : orders[o] # NoOrder => orders[o].wishlist = "none"
      BY <2>1 DEF OrderIds, NoOrder, TP!OrderIds, TP!NoOrder, TP!OrderRows
    <3> QED BY <3>1 DEF OneOrderPerWishlist
  <2> QED BY <2>6, <2>7, <2>8 DEF OneOrderEach
<1> QED
  BY <1>1, <1>2

\* Every behaviour is one of each service besides the checkout.
LEMMA CheckoutsServe ==
  MCSpec => C!D!Spec /\ C!I!Spec /\ C!L!Spec /\ C!O!Spec /\ C!Q!Spec
<1>1. MCInit => C!D!Init /\ C!I!Init /\ C!L!Init /\ C!O!Init /\ C!Q!Init
  BY DEF MCInit, C!Tables
<1> QED
  BY <1>1, CheckoutSteps, PTL DEF MCSpec, C!D!Spec, C!I!Spec, C!L!Spec, C!O!Spec, C!Q!Spec

\* Whatever is ordered, quoted, written or imported: coupons, codes and wishlists
\* are good for what they should, bills add up, nothing is guessed, and default
\* addresses and rows of sheets are where they belong.
THEOREM CheckoutsAreSafe ==
  MCSpec => /\ [](CouponWithinLimits /\ OneOrderEach)
            /\ [](QuoteIsRight /\ NothingIsGuessed /\ DefaultIsSupported)
            /\ NoRowGoesToAnother /\ DefaultLostByDeletion
BY CheckoutInvHolds, OrdersAreLimited, CheckoutsServe, QuotesAreRight, NothingGuessed,
   DefaultsAreSupported, RowsStayPut, DefaultsLostByDeletion, PTL
=============================================================================
