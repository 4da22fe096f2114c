------------------------------- MODULE Delivery -------------------------------
(***************************************************************************)
(* The delivery addresses of a customer (src/src/addresses) and the zones  *)
(* and areas they are assigned by (src/src/logistics).  An address is in   *)
(* the zone of an area that matches it, as the areas were when it was      *)
(* saved; a quote without an address goes to the default one.  Requests    *)
(* read, and then write in a transaction at READ COMMITTED, whose          *)
(* statements see what is committed when they start; it takes effect as a  *)
(* whole at its last step.  Customers share no address, so there is one.   *)
(***************************************************************************)
EXTENDS Integers, FiniteSets

CONSTANTS
  Zones, Areas,
  Places,        \* what an address is found again by: place, contact and wording
  Requests,
  MaxAddresses   \* bound: addresses ever saved

DeliveryAssumption == MaxAddresses \in Nat /\ "none" \notin Zones

VARIABLES
  zones,      \* delivery_zones
  areas,      \* delivery_areas, each with the places it matches by its names
  addresses,  \* user_addresses of the customer, numbered by age
  nextAddress,
  pc, job     \* where a request stands, and what it has read

vars == <<zones, areas, addresses, nextAddress, pc, job>>

AddressIds == 1..MaxAddresses
NoArea == [zone |-> "none"]
AreaRows == [zone: Zones, active: BOOLEAN, covers: SUBSET Places]
Statuses == {"supported", "unsupported", "zone_inactive"}
Resolutions == [status: Statuses, zone: Zones \cup {"none"}]
NoAddress == [place |-> "none"]
Addresses == [place: Places, status: Statuses, zone: Zones \cup {"none"}, isDefault: BOOLEAN]

NoJob == [at |-> "none"]
\* what a request has read, by where it stands
Jobs ==
  [idle |-> {NoJob},
   create |-> [place: Places, to: Resolutions, wish: BOOLEAN],
   insert |-> [place: Places, to: Resolutions, isDefault: BOOLEAN, clear: SUBSET AddressIds],
   order |-> [place: Places, to: Resolutions, existing: {0} \cup AddressIds,
              row: Addresses \cup {NoAddress}],
   choose |-> [address: AddressIds],
   default |-> [address: AddressIds, clear: SUBSET AddressIds],
   remove |-> [address: AddressIds, wasDefault: BOOLEAN],
   delete |-> [address: AddressIds, replacement: {0} \cup AddressIds]]

TypeOK ==
  /\ zones \in [Zones -> {"none", "active", "inactive"}]
  /\ areas \in [Areas -> AreaRows \cup {NoArea}]
  /\ addresses \in [AddressIds -> Addresses \cup {NoAddress}]
  /\ nextAddress \in 1..(MaxAddresses + 1)
  /\ pc \in [Requests -> DOMAIN Jobs]
  /\ \A r \in Requests : job[r] \in Jobs[pc[r]]

Init ==
  /\ zones = [z \in Zones |-> "none"]
  /\ areas = [a \in Areas |-> NoArea]
  /\ addresses = [i \in AddressIds |-> NoAddress]
  /\ nextAddress = 1
  /\ pc = [r \in Requests |-> "idle"]
  /\ job = [r \in Requests |-> NoJob]

Goto(r, step, knows) ==
  /\ pc' = [pc EXCEPT ![r] = step]
  /\ job' = [job EXCEPT ![r] = knows]
Return(r) == Goto(r, "idle", NoJob)

Saved == {i \in AddressIds : addresses[i] # NoAddress}
Defaults == {i \in Saved : addresses[i].isDefault}

\* resolveDeliveryZone: by the first area that matches, in whatever order the
\* areas come, active or not
Resolve(place) ==
  LET matching == {a \in Areas : areas[a] # NoArea /\ place \in areas[a].covers}
      By(a) == [status |-> IF areas[a].active /\ zones[areas[a].zone] = "active"
                             THEN "supported" ELSE "zone_inactive",
                zone |-> areas[a].zone]
  IN IF matching = {} THEN {[status |-> "unsupported", zone |-> "none"]}
     ELSE {By(a) : a \in matching}

\* an address may name a zone only while it is there (foreign key)
ZoneThere(zone) == zone \notin {z \in Zones : zones[z] = "none"}

Cleared(some) ==
  [i \in AddressIds |-> IF i \in some \cap Saved THEN [addresses[i] EXCEPT !.isDefault = FALSE]
                        ELSE addresses[i]]

-----------------------------------------------------------------------------
(* Saving an address                                                       *)

\* create resolves the zone before its transaction
Create(r, place, wish) ==
  /\ pc[r] = "idle"
  /\ \E to \in Resolve(place) : Goto(r, "create", [place |-> place, to |-> to, wish |-> wish])
  /\ UNCHANGED <<zones, areas, addresses, nextAddress>>
\* the first supported address becomes the default, and so does one that is
\* to be it: then the others are no longer
Choose(r) ==
  /\ pc[r] = "create"
  /\ LET isDefault == job[r].to.status = "supported" /\ (job[r].wish \/ Defaults = {})
     IN Goto(r, "insert", [place |-> job[r].place, to |-> job[r].to, isDefault |-> isDefault,
                           clear |-> IF isDefault THEN Defaults ELSE {}])
  /\ UNCHANGED <<zones, areas, addresses, nextAddress>>
\* an address without coverage is saved all the same, and then refused (422)
Insert(r) ==
  /\ pc[r] = "insert" /\ nextAddress \in AddressIds
  /\ LET j == job[r]
     IN IF ZoneThere(j.to.zone)
          THEN /\ addresses' = [Cleared(j.clear) EXCEPT ![nextAddress] =
                    [place |-> j.place, status |-> j.to.status, zone |-> j.to.zone,
                     isDefault |-> j.isDefault]]
               /\ nextAddress' = nextAddress + 1
          ELSE UNCHANGED <<addresses, nextAddress>>
  /\ Return(r)
  /\ UNCHANGED <<zones, areas>>

\* getOrCreateOrderAddress, in the transaction of an order (SERIALIZABLE): the
\* address is resolved, and one that is there already is going to be updated
OrderAddress(r, place) ==
  /\ pc[r] = "idle"
  /\ LET same == {i \in Saved : addresses[i].place = place}
     IN \E to \in Resolve(place), i \in same \cup (IF same = {} THEN {0} ELSE {}) :
          Goto(r, "order", [place |-> place, to |-> to, existing |-> i,
                            row |-> IF i = 0 THEN NoAddress ELSE addresses[i]])
  /\ UNCHANGED <<zones, areas, addresses, nextAddress>>

Written(j, isDefault) ==
  [place |-> j.place, status |-> j.to.status, zone |-> j.to.zone, isDefault |-> isDefault]
SaveOrderAddress(j) ==
  IF j.existing = 0
    THEN /\ nextAddress \in AddressIds
         /\ addresses' = [addresses EXCEPT ![nextAddress] = Written(j, FALSE)]
         /\ nextAddress' = nextAddress + 1
    ELSE /\ addresses' = [addresses EXCEPT ![j.existing] = Written(j, j.row.isDefault)]
         /\ UNCHANGED nextAddress

\* the row that is going to be updated is as the transaction found it
Unchanged(j) == \A i \in AddressIds \cap {j.existing} : addresses[i] = j.row

\* (faulty OrderWithAddress: the address is saved although the order is refused)
OrderAddressKept(r) ==
  /\ pc[r] = "order"
  /\ Unchanged(job[r]) /\ ZoneThere(job[r].to.zone) /\ SaveOrderAddress(job[r])
  /\ Return(r)
  /\ UNCHANGED <<zones, areas>>

\* all of the order commits, or nothing: not one to an address without coverage
\* (422), and not one that another transaction has got ahead of
OrderWithAddress(r) ==
  /\ pc[r] = "order"
  /\ \/ /\ job[r].to.status = "supported"
        /\ Unchanged(job[r]) /\ ZoneThere(job[r].to.zone) /\ SaveOrderAddress(job[r])
     \/ UNCHANGED <<addresses, nextAddress>>
  /\ Return(r)
  /\ UNCHANGED <<zones, areas>>

-----------------------------------------------------------------------------
(* The default address                                                     *)

\* setDefault reads the address before its transaction (404, 422)
SetDefault(r, i) ==
  /\ pc[r] = "idle" /\ i \in Saved
  /\ addresses[i].status = "supported" /\ addresses[i].zone # "none"
  /\ zones[addresses[i].zone] = "active"
  /\ Goto(r, "choose", [address |-> i])
  /\ UNCHANGED <<zones, areas, addresses, nextAddress>>
ClearDefaults(r) ==
  /\ pc[r] = "choose"
  /\ Goto(r, "default", [address |-> job[r].address, clear |-> Defaults])
  /\ UNCHANGED <<zones, areas, addresses, nextAddress>>

\* (faulty BecomesDefault: without a transaction)
BecomesDefaultAnyway(r) ==
  /\ pc[r] = "default"
  /\ LET cleared == Cleared(job[r].clear)
     IN addresses' = IF job[r].address \notin Saved THEN cleared
                     ELSE [cleared EXCEPT ![job[r].address].isDefault = TRUE]
  /\ Return(r)
  /\ UNCHANGED <<zones, areas, nextAddress>>

\* the address may be gone by now, and then the others stay as they are
BecomesDefault(r) ==
  /\ pc[r] = "default"
  /\ addresses' = IF job[r].address \notin Saved THEN addresses
                  ELSE [Cleared(job[r].clear) EXCEPT ![job[r].address].isDefault = TRUE]
  /\ Return(r)
  /\ UNCHANGED <<zones, areas, nextAddress>>

Remove(r, i) ==
  /\ pc[r] = "idle" /\ i \in Saved
  /\ Goto(r, "remove", [address |-> i, wasDefault |-> addresses[i].isDefault])
  /\ UNCHANGED <<zones, areas, addresses, nextAddress>>
\* the newest other address that is supported replaces a default
Replacements(i) ==
  {k \in Saved \ {i} : addresses[k].status = "supported" /\ addresses[k].zone # "none"}
FindReplacement(r) ==
  /\ pc[r] = "remove"
  /\ LET i == job[r].address
         others == IF job[r].wasDefault THEN Replacements(i) ELSE {}
     IN \E k \in others \cup (IF others = {} THEN {0} ELSE {}) :
          /\ \A l \in others : l <= k
          /\ Goto(r, "delete", [address |-> i, replacement |-> k])
  /\ UNCHANGED <<zones, areas, addresses, nextAddress>>
\* either of the two may be gone by now, and then nothing is deleted
Delete(r) ==
  /\ pc[r] = "delete"
  /\ LET i == job[r].address
         k == job[r].replacement
     IN IF {i, k} \ {0} \subseteq Saved
          THEN addresses' = [l \in AddressIds |->
                 IF l = i THEN NoAddress
                 ELSE IF l = k THEN [addresses[k] EXCEPT !.isDefault = TRUE] ELSE addresses[l]]
          ELSE UNCHANGED addresses
  /\ Return(r)
  /\ UNCHANGED <<zones, areas, nextAddress>>

RequestDies(r) ==
  /\ pc[r] # "idle"
  /\ Return(r)
  /\ UNCHANGED <<zones, areas, addresses, nextAddress>>

-----------------------------------------------------------------------------
(* Zones and areas                                                         *)

\* createDeliveryZone, updateDeliveryZone (one that changes nothing is no step)
PutZone(z, status) ==
  /\ zones[z] # status
  /\ zones' = [zones EXCEPT ![z] = status]
  /\ UNCHANGED <<areas, addresses, nextAddress, pc, job>>
\* a zone takes its areas with it, and its addresses lose it (but not their status)
RemoveDeliveryZone(z) ==
  /\ zones[z] # "none"
  /\ zones' = [zones EXCEPT ![z] = "none"]
  /\ areas' = [a \in Areas |-> IF areas[a].zone = z THEN NoArea ELSE areas[a]]
  /\ addresses' = [i \in AddressIds |->
       IF i \in Saved /\ addresses[i].zone = z THEN [addresses[i] EXCEPT !.zone = "none"]
       ELSE addresses[i]]
  /\ UNCHANGED <<nextAddress, pc, job>>

\* createDeliveryArea, updateDeliveryArea: no address is resolved again
PutArea(a, row) ==
  /\ zones[row.zone] # "none" /\ areas[a] # row
  /\ areas' = [areas EXCEPT ![a] = row]
  /\ UNCHANGED <<zones, addresses, nextAddress, pc, job>>
RemoveDeliveryArea(a) ==
  /\ areas[a] # NoArea
  /\ areas' = [areas EXCEPT ![a] = NoArea]
  /\ UNCHANGED <<zones, addresses, nextAddress, pc, job>>

Next ==
  \/ \E r \in Requests, place \in Places :
       OrderAddress(r, place) \/ \E wish \in BOOLEAN : Create(r, place, wish)
  \/ \E r \in Requests, i \in AddressIds : SetDefault(r, i) \/ Remove(r, i)
  \/ \E r \in Requests :
       \/ Choose(r) \/ Insert(r) \/ OrderWithAddress(r)
       \/ ClearDefaults(r) \/ BecomesDefault(r)
       \/ FindReplacement(r) \/ Delete(r)
       \/ RequestDies(r)
  \/ \E z \in Zones : RemoveDeliveryZone(z) \/ \E s \in {"active", "inactive"} : PutZone(z, s)
  \/ \E a \in Areas : RemoveDeliveryArea(a) \/ \E row \in AreaRows : PutArea(a, row)

Spec == Init /\ [][Next]_vars

-----------------------------------------------------------------------------
(* Safety                                                                  *)

\* The default address has coverage when it becomes the default and keeps that
\* status: no order that is refused, and no request that read the address
\* earlier, leaves a customer with a default that was found unsupported.
DefaultIsSupported == \A i \in Defaults : addresses[i].status = "supported"

(* What a step may never do                                                *)

\* A customer who has a default address is left without one only by deleting
\* it: making another address the default, or deleting one that replaces it,
\* is done as a whole or not at all.
DefaultLostByDeletion ==
  [][Defaults # {} /\ Defaults' = {} => \E i \in Defaults : addresses'[i] = NoAddress]_vars
=============================================================================
