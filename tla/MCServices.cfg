SPECIFICATION MCSpec
CONSTANTS
  Requests = {x1, x2}
  Three = {r1, r2, r3}
  Staff = {s1, s2}
  Customers = {c1}
  Choices = {"waiting_on_customer", "resolved"}
  MaxTickets = 4
  Users = {u1}
  Offerings = {o1}
  Targets = {2, 3}
  Amounts = {0, 2, 3}
  Moments = {1, 2, 3}
  Day = 2
  Week = 3
  Keep = Keep
  Wishes <- SampleWishes
  Edits <- SampleEdits
  MaxAlerts = 2
  Benchmarks = {b1, b2}
  MaxDate = 2
  MaxPrice = 1
  Emails = {e1}
  Subs = {g1, g2}
  MaxLinks = 2
  Orders = {d1, d2}
  Settable = {"delivered", "cancelled"}
  Earlier = {"pending"}
  MaxChanges = 2
  MaxNotices = 1
  MaxDay = 3
  Observations <- SampleObservations
  PackageUnit <- SamplePackageUnit
  UnitIsActive <- SampleUnitIsActive
  Costs <- SampleCosts
  Questions <- SampleQuestions
  Absent = Absent
  MaxRules = 3
  Switches = {w1}
  Processes = {n1}
  Units = {"u1", "u2"}
  Codes = {"kg", "bag"}
  NoCode = "none"
  Seeded <- SampleSeeded
  MaxWrites = 2
  MaxRecords = 1
CHECK_DEADLOCK FALSE
INVARIANT MCTypeOK
INVARIANT TicketsAreAssigned
INVARIANT ToldOncePerTrigger
INVARIANT CompletedIsOneAnalysis
INVARIANT AccountsAreVouchedFor
INVARIANT NobodyIsLockedOut
 
INVARIANT StatusIsAccountedFor
 
INVARIANT FeesFollowOneRule
INVARIANT UnitsAreCurrent
PROPERTY TriggersMoveForward
