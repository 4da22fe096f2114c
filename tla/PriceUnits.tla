----------------------------- MODULE PriceUnits -----------------------------
(***************************************************************************)
(* The units prices are asked in (src/src/price-units/                     *)
(* price-units.service.ts).  Every process keeps its own reading of the    *)
(* table and resolves codes by it; whoever changes the table reads it anew *)
(* for its own process, in a statement of its own.  What is then recorded  *)
(* - a price, an alert, an item - refers to the unit by its id, for which  *)
(* the table has a foreign key.  A reading is the number of the change it  *)
(* has seen last.  Labels, aliases and the order of units are left out;    *)
(* what is refused without a write is no step.                             *)
(***************************************************************************)
EXTENDS Naturals, Sequences, FiniteSets

CONSTANTS
  Requests,   \* requests served at the same time; a served one is reused
  Processes,  \* instances of the server
  Units,      \* the ids units may get
  Codes,
  Seeded,     \* the code of each unit the migration inserts, or NoCode
  NoCode,
  MaxWrites,  \* bound: changes of the table
  MaxRecords  \* bound: what is recorded

PriceUnitsAssumption ==
  /\ MaxWrites \in Nat /\ MaxRecords \in Nat
  /\ Seeded \in [Units -> Codes \cup {NoCode}] /\ NoCode \notin Codes
  /\ \A u, w \in Units : Seeded[u] = Seeded[w] => u = w \/ Seeded[u] = NoCode

VARIABLES
  tables,     \* price_units, as it was after each change
  lookup,     \* of each process: the reading it keeps, or 0
  recorded,   \* what was recorded in a unit, and asked for by a code
  known,      \* history: of each process, the last change it has answered for
  mixed,      \* history: processes with two refreshes at once
  pc, job     \* where a request stands, and what it knows

vars == <<tables, lookup, recorded, known, mixed, pc, job>>

NoUnit == [code |-> NoCode]
NoJob == [at |-> "none"]

UnitRows == [code: Codes, active: BOOLEAN]
Readings == 1..(MaxWrites + 1)
Now == Len(tables)
Table == tables[Now]

Records == [unit: Units, code: Codes, since: Readings]
Jobs ==
  [idle |-> {NoJob},
   read |-> [process: Processes, change: {0} \cup Readings],
   keep |-> [process: Processes, change: {0} \cup Readings, reading: Readings],
   write |-> [process: Processes, row: Records]]

TypeOK ==
  /\ Now \in Readings
  /\ \A v \in 1..Now : tables[v] \in [Units -> UnitRows \cup {NoUnit}]
  /\ lookup \in [Processes -> {0} \cup Readings]
  /\ recorded \subseteq Records
  /\ known \in [Processes -> Readings]
  /\ mixed \subseteq Processes
  /\ pc \in [Requests -> DOMAIN Jobs]
  /\ \A r \in Requests : job[r] \in Jobs[pc[r]]

Init ==
  /\ tables = <<[u \in Units |-> IF Seeded[u] = NoCode THEN NoUnit
                                 ELSE [code |-> Seeded[u], active |-> TRUE]]>>
  /\ lookup \in [Processes -> {0, 1}]
  /\ recorded = {} /\ mixed = {}
  /\ known = [p \in Processes |-> 1]
  /\ pc = [r \in Requests |-> "idle"]
  /\ job = [r \in Requests |-> NoJob]

Goto(r, step, knows) ==
  /\ pc' = [pc EXCEPT ![r] = step]
  /\ job' = [job EXCEPT ![r] = knows]
Return(r) == Goto(r, "idle", NoJob)

-----------------------------------------------------------------------------
(* Changes                                                                 *)

\* the code is unique
CodeIsFree(u, code) == \A w \in Units \ {u} : Table[w].code # code

\* creates the unit, or updates it; an id is given once
Put(r, p, u, row) ==
  /\ pc[r] = "idle" /\ Now <= MaxWrites
  /\ Table[u] = NoUnit => \A v \in 1..Now : tables[v][u] = NoUnit
  /\ CodeIsFree(u, row.code)
  /\ tables' = Append(tables, [Table EXCEPT ![u] = row])
  /\ Goto(r, "read", [process |-> p, change |-> Now + 1])
  /\ UNCHANGED <<lookup, recorded, known, mixed>>

\* a unit that something refers to cannot be removed
Used(u) == \E x \in recorded : x.unit = u

\* (faulty Remove: the process goes on with the reading it has)
RemoveOnly(r, p, u) ==
  /\ pc[r] = "idle" /\ Now <= MaxWrites
  /\ Table[u] # NoUnit /\ ~Used(u)
  /\ tables' = Append(tables, [Table EXCEPT ![u] = NoUnit])
  /\ known' = [known EXCEPT ![p] = Now + 1]
  /\ UNCHANGED <<lookup, recorded, mixed, pc, job>>

Remove(r, p, u) ==
  /\ pc[r] = "idle" /\ Now <= MaxWrites
  /\ Table[u] # NoUnit /\ ~Used(u)
  /\ tables' = Append(tables, [Table EXCEPT ![u] = NoUnit])
  /\ Goto(r, "read", [process |-> p, change |-> Now + 1])
  /\ UNCHANGED <<lookup, recorded, known, mixed>>

-----------------------------------------------------------------------------
(* Readings                                                                *)

\* a process without a reading fetches one when it needs it
GetLookup(r, p) ==
  /\ pc[r] = "idle" /\ lookup[p] = 0
  /\ Goto(r, "read", [process |-> p, change |-> 0])
  /\ UNCHANGED <<tables, lookup, recorded, known, mixed>>

Refresh(r) ==
  /\ pc[r] = "read"
  /\ Goto(r, "keep", [process |-> job[r].process, change |-> job[r].change, reading |-> Now])
  /\ UNCHANGED <<tables, lookup, recorded, known, mixed>>

\* another request is about to keep the reading it made for the process
Overlaps(r) == \E q \in Requests \ {r} : pc[q] = "keep" /\ job[q].process = job[r].process

\* what was read is kept, whatever was kept meanwhile; a change is answered for
Refreshed(r) ==
  /\ pc[r] = "keep"
  /\ LET p == job[r].process
     IN /\ lookup' = [lookup EXCEPT ![p] = job[r].reading]
        /\ known' = [known EXCEPT ![p] = IF job[r].change > @ THEN job[r].change ELSE @]
        /\ mixed' = IF Overlaps(r) THEN mixed \cup {p} ELSE mixed
  /\ Return(r)
  /\ UNCHANGED <<tables, recorded>>

-----------------------------------------------------------------------------
(* Use                                                                     *)

\* the code of an active unit
RequireByCode(r, p, code) ==
  /\ pc[r] = "idle" /\ lookup[p] # 0 /\ Cardinality(recorded) < MaxRecords
  /\ \E u \in Units :
       /\ tables[lookup[p]][u] = [code |-> code, active |-> TRUE]
       /\ Goto(r, "write", [process |-> p,
            row |-> [unit |-> u, code |-> code, since |-> IF p \in mixed THEN 1 ELSE known[p]]])
  /\ UNCHANGED <<tables, lookup, recorded, known, mixed>>

\* the foreign key refuses a unit that was removed since
Record(r) ==
  /\ pc[r] = "write"
  /\ LET x == job[r].row
     IN recorded' = IF Table[x.unit] # NoUnit THEN recorded \cup {x} ELSE recorded
  /\ Return(r)
  /\ UNCHANGED <<tables, lookup, known, mixed>>

\* a change that cannot read the table fails although it was made
RequestFails(r) ==
  /\ pc[r] # "idle"
  /\ Return(r)
  /\ UNCHANGED <<tables, lookup, recorded, known, mixed>>

\* a process reads the table before it serves requests, or starts without
Restart(p) ==
  /\ lookup' \in {[lookup EXCEPT ![p] = v] : v \in {0, Now}}
  /\ LET ended == {r \in Requests : pc[r] # "idle" /\ job[r].process = p}
     IN /\ pc' = [r \in Requests |-> IF r \in ended THEN "idle" ELSE pc[r]]
        /\ job' = [r \in Requests |-> IF r \in ended THEN NoJob ELSE job[r]]
  /\ UNCHANGED <<tables, recorded, known, mixed>>

Next ==
  \/ \E r \in Requests :
       \/ \E p \in Processes :
            \/ \E u \in Units : Remove(r, p, u) \/ \E row \in UnitRows : Put(r, p, u, row)
            \/ GetLookup(r, p)
            \/ \E code \in Codes : RequireByCode(r, p, code)
       \/ Refresh(r) \/ Refreshed(r) \/ Record(r) \/ RequestFails(r)
  \/ \E p \in Processes : Restart(p)

Spec == Init /\ [][Next]_vars

-----------------------------------------------------------------------------
\* A process resolves units by a reading that has seen every change it has
\* answered for, unless two of its refreshes overlapped.
LookupsAreCurrent ==
  \A p \in Processes \ mixed : lookup[p] # 0 => lookup[p] >= known[p]

\* What was recorded refers to a unit there is, one that was active under the
\* code it was asked for by, at some time since the last change its process had
\* answered for.
RecordedAsAsked ==
  \A x \in recorded :
    /\ Table[x.unit] # NoUnit
    /\ \E v \in x.since..Now : tables[v][x.unit] = [code |-> x.code, active |-> TRUE]

UnitsAreCurrent == LookupsAreCurrent /\ RecordedAsAsked
=============================================================================
