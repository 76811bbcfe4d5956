--------------------------- MODULE SourcingProofs ---------------------------
(***************************************************************************)
(* Proofs about Sourcing and the searches table under it, for any number   *)
(* of searches, toggles, listings, requests and failures.                  *)
(***************************************************************************)
EXTENDS Sourcing, TLAPS

-----------------------------------------------------------------------------
(* Types.                                                                  *)

LEMMA IdleApart == Idle \notin Read /\ Idle \notin Clients
  BY SearchesAssumption DEF SearchesAssumption

LEMMA Bounds == MaxID \in Nat /\ MaxWrites \in Nat /\ MaxFaults \in Nat
  BY SearchesAssumption, SourcingAssumption DEF SearchesAssumption, SourcingAssumption

LEMMA InitSearches == SearchesInit => SearchesTypeOK
<1> SUFFICES ASSUME SearchesInit
             PROVE  SearchesTypeOK
  OBVIOUS
<1>1. /\ FirstRows \in Seq(Row) /\ Len(FirstRows) <= MaxID
      /\ MaxID \in Nat /\ MaxWrites \in Nat
  BY SearchesAssumption DEF SearchesAssumption
<1>2. DOMAIN FirstRows = 1..Len(FirstRows) /\ Len(FirstRows) \in Nat
  BY <1>1
<1>3. FirstRows \in [DOMAIN FirstRows -> Row]
  BY <1>1
<1>4. toggles \in [Clients -> Read \cup {Idle}]
  BY DEF SearchesInit
<1> QED
  BY <1>1, <1>2, <1>3, <1>4 DEF SearchesInit, SearchesTypeOK, IDs

\* Overtaking a toggle changes a history variable of it, and nothing else.
LEMMA OvertakeType ==
  ASSUME toggles \in [Clients -> Read \cup {Idle}], NEW id, NEW c
  PROVE  Overtake(id, c) \in [Clients -> Read \cup {Idle}]
<1> SUFFICES ASSUME NEW d \in Clients, toggles[d] # Idle
             PROVE  [toggles[d] EXCEPT !.overtaken = TRUE] \in Read
  BY DEF Overtake
<1>1. toggles[d] \in Read
  OBVIOUS
<1> QED
  BY <1>1 DEF Read

-----------------------------------------------------------------------------
(* The table.                                                              *)

\* A name means one search.
NamesUnique == \A a, b \in DOMAIN rows : rows[a].name = rows[b].name => a = b

TableInv == SearchesTypeOK /\ NamesUnique

\* What the worker's snapshot can rely on: an ID that is gone stays gone.
Grown == /\ DOMAIN rows' \subseteq DOMAIN rows \cup {nextID}
         /\ nextID' >= nextID

LEMMA InitTable == SearchesInit => TableInv
  BY InitSearches, SearchesAssumption DEF TableInv, NamesUnique, SearchesInit, SearchesAssumption

LEMMA WriteType == SearchesTypeOK /\ Write => writes' \in 0..MaxWrites
  BY Bounds DEF SearchesTypeOK, Write

LEMMA CreateTable ==
  ASSUME TableInv, NEW name \in Names, NEW url \in URLs, NEW enabled \in BOOLEAN,
         Create(name, url, enabled)
  PROVE  TableInv' /\ Grown /\ DOMAIN rows \subseteq DOMAIN rows'
<1> DEFINE row == [name |-> name, url |-> url, enabled |-> enabled]
<1>1. row \in Row /\ row.name = name
  BY DEF Row
<1>2. nextID \in IDs /\ nextID' \in 1..MaxID + 1 /\ nextID' = nextID + 1
  BY Bounds DEF Create, TableInv, SearchesTypeOK, IDs
<1>3. nextID \notin DOMAIN rows /\ DOMAIN rows \subseteq IDs /\ \A id \in DOMAIN rows : id < nextID
  BY <1>2 DEF TableInv, SearchesTypeOK, IDs
<1>4. writes' \in 0..MaxWrites /\ toggles' = toggles
  BY WriteType DEF Create, TableInv
<1>5. CASE UNCHANGED rows
  BY <1>2, <1>3, <1>4, <1>5 DEF TableInv, SearchesTypeOK, NamesUnique, Grown, IDs
<1>6. CASE /\ NameFree(name, nextID)
           /\ rows' = [id \in DOMAIN rows \cup {nextID} |-> IF id = nextID THEN row ELSE rows[id]]
  <2>1. DOMAIN rows' = DOMAIN rows \cup {nextID}
    BY <1>6
  <2>2. rows'[nextID] = row /\ \A id \in DOMAIN rows : rows'[id] = rows[id]
    BY <1>3, <1>6
  <2>3. rows' \in [DOMAIN rows' -> Row]
    BY <1>1, <1>6, <2>1 DEF TableInv, SearchesTypeOK
  <2>4. SearchesTypeOK'
    BY <1>2, <1>3, <1>4, <2>1, <2>3 DEF TableInv, SearchesTypeOK, IDs
  <2>5. NamesUnique'
    BY <1>1, <1>3, <1>6, <2>1, <2>2 DEF TableInv, NamesUnique, NameFree
  <2> QED
    BY <1>2, <2>1, <2>4, <2>5 DEF TableInv, Grown, IDs
<1> QED
  BY <1>5, <1>6 DEF Create

\* A row that is replaced where it stands, by one whose name is free.
LEMMA ReplaceTable ==
  ASSUME TableInv, NEW id \in DOMAIN rows, NEW row \in Row, NameFree(row.name, id),
         rows' = [rows EXCEPT ![id] = row], nextID' = nextID,
         writes' \in 0..MaxWrites, toggles' \in [Clients -> Read \cup {Idle}]
  PROVE  TableInv' /\ Grown /\ DOMAIN rows' = DOMAIN rows
<1>1. DOMAIN rows' = DOMAIN rows /\ rows' \in [DOMAIN rows -> Row]
  BY DEF TableInv, SearchesTypeOK
<1>2. rows'[id] = row /\ \A other \in DOMAIN rows \ {id} : rows'[other] = rows[other]
  OBVIOUS
<1>3. SearchesTypeOK'
  BY <1>1 DEF TableInv, SearchesTypeOK
<1>4. NamesUnique'
  BY <1>1, <1>2 DEF TableInv, NamesUnique, NameFree
<1> QED
  BY <1>1, <1>3, <1>4 DEF TableInv, SearchesTypeOK, Grown

LEMMA UpdateTable ==
  ASSUME TableInv, NEW id, NEW name \in Names, NEW url \in URLs, NEW enabled \in BOOLEAN,
         Update(id, name, url, enabled)
  PROVE  TableInv' /\ Grown /\ DOMAIN rows' = DOMAIN rows
<1> DEFINE row == [name |-> name, url |-> url, enabled |-> enabled]
<1>1. row \in Row /\ row.name = name
  BY DEF Row
<1>2. writes' \in 0..MaxWrites /\ toggles' \in [Clients -> Read \cup {Idle}]
  BY WriteType, OvertakeType DEF Update, TableInv, SearchesTypeOK
<1> QED
  BY <1>1, <1>2, ReplaceTable DEF Update

\* A write of the enabled flag alone.
LEMMA FlagTable ==
  ASSUME TableInv, NEW id \in DOMAIN rows, NEW enabled \in BOOLEAN,
         rows' = [rows EXCEPT ![id].enabled = enabled], nextID' = nextID,
         writes' \in 0..MaxWrites, toggles' \in [Clients -> Read \cup {Idle}]
  PROVE  TableInv' /\ Grown /\ DOMAIN rows' = DOMAIN rows
<1> DEFINE row == [rows[id] EXCEPT !.enabled = enabled]
<1>1. rows[id] \in Row
  BY DEF TableInv, SearchesTypeOK
<1>2. row \in Row /\ row.name = rows[id].name
  BY <1>1 DEF Row
<1>3. NameFree(row.name, id)
  BY <1>2 DEF TableInv, NamesUnique, NameFree
<1> QED
  BY <1>2, <1>3, ReplaceTable

LEMMA ToggleTable ==
  ASSUME TableInv, NEW c \in Clients, ToggleWrite(c)
  PROVE  TableInv' /\ Grown /\ DOMAIN rows' = DOMAIN rows
<1>1. toggles[c] \in Read
  BY DEF ToggleWrite, TableInv, SearchesTypeOK
<1>2. writes' \in 0..MaxWrites /\ toggles' \in [Clients -> Read \cup {Idle}] /\ nextID' = nextID
  BY WriteType, OvertakeType DEF ToggleWrite, TableInv, SearchesTypeOK
<1>3. CASE toggles[c].id \in DOMAIN rows
  <2>1. rows' = [rows EXCEPT ![toggles[c].id].enabled = ~toggles[c].enabled]
    BY <1>3 DEF ToggleWrite
  <2>2. (~toggles[c].enabled) \in BOOLEAN
    BY Zenon
  <2> QED
    BY <1>2, <1>3, <2>1, <2>2, FlagTable
<1>4. CASE toggles[c].id \notin DOMAIN rows
  BY <1>2, <1>4 DEF ToggleWrite, TableInv, SearchesTypeOK, NamesUnique, Grown
<1> QED
  BY <1>3, <1>4

LEMMA ToggleReadTable ==
  ASSUME TableInv, NEW c \in Clients, NEW id, ToggleRead(c, id)
  PROVE  TableInv' /\ Grown /\ DOMAIN rows' = DOMAIN rows
<1> DEFINE read == [id |-> id, enabled |-> rows[id].enabled, overtaken |-> FALSE]
<1>1. rows[id] \in Row /\ id \in IDs
  BY DEF ToggleRead, TableInv, SearchesTypeOK
<1>2. rows[id].enabled \in BOOLEAN
  BY <1>1 DEF Row
<1>3. read \in Read
  BY <1>1, <1>2 DEF Read
<1>4. toggles' \in [Clients -> Read \cup {Idle}]
  BY <1>3 DEF ToggleRead, TableInv, SearchesTypeOK
<1> QED
  BY <1>4 DEF ToggleRead, TableInv, SearchesTypeOK, NamesUnique, Grown

LEMMA DeleteTable ==
  ASSUME TableInv, NEW id, DeleteSearch(id)
  PROVE  TableInv' /\ Grown /\ DOMAIN rows' = DOMAIN rows \ {id}
<1>1. rows' = [kept \in DOMAIN rows \ {id} |-> rows[kept]]
  BY DEF DeleteSearch, Restrict
<1>2. DOMAIN rows' = DOMAIN rows \ {id} /\ rows' \in [DOMAIN rows' -> Row]
  BY <1>1 DEF TableInv, SearchesTypeOK
<1>3. writes' \in 0..MaxWrites
  BY WriteType DEF DeleteSearch, TableInv
<1>4. SearchesTypeOK'
  BY <1>2, <1>3 DEF DeleteSearch, TableInv, SearchesTypeOK
<1>5. NamesUnique'
  BY <1>1, <1>2 DEF TableInv, NamesUnique
<1>6. nextID' = nextID /\ nextID \in Int
  BY DEF DeleteSearch, TableInv, SearchesTypeOK
<1>7. Grown
  BY <1>2, <1>6 DEF Grown
<1> QED
  BY <1>2, <1>4, <1>5, <1>7 DEF TableInv

LEMMA EditTable ==
  ASSUME TableInv, Edit
  PROVE  TableInv' /\ Grown /\ DOMAIN rows \subseteq DOMAIN rows'
<1>1. ASSUME NEW name \in Names, NEW url \in URLs, NEW enabled \in BOOLEAN,
             Create(name, url, enabled) \/ \E id \in IDs : Update(id, name, url, enabled)
      PROVE  TableInv' /\ Grown /\ DOMAIN rows \subseteq DOMAIN rows'
  BY <1>1, CreateTable, UpdateTable
<1>2. ASSUME NEW id \in IDs, NEW enabled \in BOOLEAN, SetEnabled(id, enabled)
      PROVE  TableInv' /\ Grown /\ DOMAIN rows \subseteq DOMAIN rows'
  <2>1. writes' \in 0..MaxWrites /\ toggles' \in [Clients -> Read \cup {Idle}]
    BY <1>2, WriteType, OvertakeType DEF SetEnabled, TableInv, SearchesTypeOK
  <2> QED
    BY <1>2, <2>1, FlagTable DEF SetEnabled
<1>3. ASSUME NEW c \in Clients, ToggleWrite(c) \/ \E id \in IDs : ToggleRead(c, id)
      PROVE  TableInv' /\ Grown /\ DOMAIN rows \subseteq DOMAIN rows'
  BY <1>3, ToggleTable, ToggleReadTable
<1>4. ASSUME NEW c \in Clients, ToggleAbandon(c)
      PROVE  TableInv' /\ Grown /\ DOMAIN rows \subseteq DOMAIN rows'
  BY <1>4 DEF ToggleAbandon, TableInv, SearchesTypeOK, NamesUnique, Grown
<1> QED
  BY <1>1, <1>2, <1>3, <1>4 DEF Edit

-----------------------------------------------------------------------------
(* The poll, the hand and the records keep their types.                    *)

\* Where the worker stands tells what it holds; what it holds stays below
\* the IDs still to be given; and only a poll that began without an enabled
\* search delivers listings that no search found.
Working ==
  /\ phase = "idle" => \A i \in Items : searchIDs[i] = {}
  /\ cur # NoItem => phase = "delivering"
  /\ listingID => cur \in Items /\ cur \in listings
  /\ \A id \in DOMAIN batch : id < nextID
  /\ (phase = "delivering" /\ wanted # {}) => \A i \in entries : searchIDs[i] # {}

Inv == TypeOK /\ NamesUnique /\ Working

\* The types of this module's own variables.
PollTypes ==
  /\ phase \in {"idle", "searching", "delivering"}
  /\ DOMAIN batch \subseteq IDs
  /\ batch \in [DOMAIN batch -> Row]
  /\ pending \subseteq DOMAIN batch
  /\ searchIDs \in [Items -> SUBSET DOMAIN batch]
  /\ entries \subseteq Items
  /\ wanted \subseteq IDs

HandTypes ==
  /\ cur \in Items \cup {NoItem}
  /\ listingID \in BOOLEAN
  /\ upsertFault \in BOOLEAN

FailingTypes == faults \in 0..MaxFaults /\ spoiled \in BOOLEAN

RecordTypes ==
  /\ health \in [IDs -> Attempt \cup {NoAttempt}]
  /\ listings \subseteq Items
  /\ attributions \subseteq listings \X DOMAIN rows
  /\ told \subseteq Items
  /\ audited \subseteq told \cap listings
  /\ FailingTypes

LEMMA Types == TypeOK <=> SearchesTypeOK /\ PollTypes /\ HandTypes /\ RecordTypes
  BY DEF TypeOK, PollTypes, HandTypes, RecordTypes, FailingTypes

LEMMA EmptyShape == DOMAIN Empty = {} /\ Empty \in [{} -> Row]
  BY DEF Empty

LEMMA NoPollTypes ==
  ASSUME NoPoll
  PROVE  PollTypes' /\ \A i \in Items : searchIDs'[i] = {}
<1>1. DOMAIN batch' = {} /\ batch' \in [{} -> Row]
  BY EmptyShape DEF NoPoll
<1>2. searchIDs' = [i \in Items |-> {}]
  BY DEF NoPoll
<1> QED
  BY <1>1, <1>2 DEF NoPoll, PollTypes

LEMMA FailingType ==
  ASSUME TypeOK, Fault \/ Fresh \/ UNCHANGED failing
  PROVE  FailingTypes'
<1>1. faults' \in 0..MaxFaults
  BY Bounds DEF Fault, Fresh, failing, TypeOK
<1>2. spoiled' = TRUE \/ spoiled' = FALSE \/ spoiled' = spoiled
  BY Zenon DEF Fault, Fresh, failing
<1>3. spoiled' \in BOOLEAN
  BY <1>2, Zenon DEF TypeOK
<1> QED
  BY <1>1, <1>3 DEF FailingTypes

LEMMA InitInv == Init => Inv
<1> SUFFICES ASSUME Init
             PROVE  Inv
  OBVIOUS
<1>1. TableInv
  BY InitTable DEF Init
<1>2. PollTypes
  BY EmptyShape DEF Init, PollTypes
<1>3. HandTypes /\ RecordTypes
  <2>1. HandTypes
    BY Zenon DEF Init, HandTypes
  <2>2. FailingTypes
    <3>1. spoiled \in BOOLEAN
      BY Zenon DEF Init
    <3> QED
      BY <3>1, Bounds DEF Init, FailingTypes
  <2>3. RecordTypes
    BY <2>2 DEF Init, RecordTypes
  <2> QED
    BY <2>1, <2>3
<1>4. listingID => cur \in Items /\ cur \in listings
  BY Zenon DEF Init
<1>5. /\ phase = "idle" => \A i \in Items : searchIDs[i] = {}
      /\ cur # NoItem => phase = "delivering"
      /\ \A id \in DOMAIN batch : id < nextID
      /\ phase # "delivering"
  BY EmptyShape DEF Init
<1>6. Working
  BY <1>4, <1>5 DEF Working
<1> QED
  BY <1>1, <1>2, <1>3, <1>6, Types DEF Inv, TableInv

\* Steps of the worker leave the table alone.
LEMMA WorkerTable == (Worker \/ Crash) => UNCHANGED table
  BY DEF Worker, Crash, ListSearches, RunOnceReturns, Alert, EndOfBatch, RunSearch, UpsertListing

LEMMA TableStays ==
  ASSUME UNCHANGED table, Inv
  PROVE  TableInv' /\ UNCHANGED <<rows, nextID>>
  BY DEF table, Inv, TypeOK, TableInv, SearchesTypeOK, NamesUnique

LEMMA InvStays ==
  ASSUME Inv, UNCHANGED table, PollTypes', HandTypes', RecordTypes', Working'
  PROVE  Inv'
<1>1. TableInv'
  BY TableStays
<1> QED
  BY <1>1, Types
  DEF Inv, TableInv, TypeOK, PollTypes, HandTypes, RecordTypes, FailingTypes

LEMMA NoHandTypes == NoHand => HandTypes' /\ cur' = NoItem /\ (listingID' <=> FALSE)
<1> SUFFICES ASSUME NoHand
             PROVE  HandTypes' /\ cur' = NoItem /\ (listingID' <=> FALSE)
  OBVIOUS
<1>1. cur' = NoItem
  BY DEF NoHand
<1>2. listingID' \in BOOLEAN /\ upsertFault' \in BOOLEAN /\ (listingID' <=> FALSE)
  BY Zenon DEF NoHand
<1> QED
  BY <1>1, <1>2 DEF HandTypes

LEMMA EnabledShape ==
  ASSUME TypeOK
  PROVE  /\ DOMAIN Restrict(rows, Enabled) = Enabled
         /\ Restrict(rows, Enabled) \in [Enabled -> Row]
         /\ Enabled \subseteq DOMAIN rows
         /\ \A id \in Enabled : Restrict(rows, Enabled)[id] = rows[id]
  BY DEF TypeOK, SearchesTypeOK, Enabled, Restrict

LEMMA ListSearchesInv == Inv /\ ListSearches => Inv'
<1> SUFFICES ASSUME Inv, ListSearches
             PROVE  Inv'
  OBVIOUS
<1> USE DEF Inv
<1>1. /\ UNCHANGED <<searchIDs, hand, records, alerts>> /\ phase = "idle" /\ UNCHANGED table
      /\ cur = NoItem
  BY DEF ListSearches, Working
<1>2. HandTypes'
  BY <1>1 DEF hand, TypeOK, HandTypes
<1>3. UNCHANGED <<rows, nextID>> /\ \A i \in Items : searchIDs[i] = {}
  BY <1>1, TableStays DEF Working
<1>4. RecordTypes'
  <2>1. FailingTypes'
    BY FailingType, Zenon DEF ListSearches
  <2> QED
    BY <1>1, <1>3, <2>1 DEF records, alerts, TypeOK, RecordTypes
<1>5. PollTypes'
  <2>1. CASE batch' = Restrict(rows, Enabled) /\ pending' = Enabled
             /\ phase' = "searching" /\ entries' = entries /\ wanted' = Enabled
    BY <1>1, <1>3, <2>1, EnabledShape DEF TypeOK, PollTypes, SearchesTypeOK
  <2>2. CASE UNCHANGED <<batch, pending>> /\ phase' \in {"idle", "delivering"}
             /\ entries' \in {entries, LegacyFinds} /\ wanted' \in {wanted, {}}
    BY <1>1, <2>2, SourcingAssumption DEF TypeOK, PollTypes, SourcingAssumption
  <2> QED
    BY <1>1, <2>1, <2>2 DEF ListSearches
<1>6. Working'
  <2>1. listingID' => cur' \in Items /\ cur' \in listings'
    BY <1>1 DEF hand, records, Working
  <2>2. \A id \in DOMAIN batch' : id < nextID'
    BY <1>3, EnabledShape DEF ListSearches, Working, TypeOK, SearchesTypeOK
  <2>3. phase' = "delivering" => wanted' = {}
    BY <1>1 DEF ListSearches
  <2> QED
    BY <1>1, <1>3, <2>1, <2>2, <2>3 DEF hand, Working
<1> QED
  BY <1>1, <1>2, <1>4, <1>5, <1>6, InvStays

LEMMA RunSearchInv == ASSUME Inv, NEW id \in IDs, RunSearch(id) PROVE Inv'
<1> USE DEF Inv
<1>1. /\ UNCHANGED <<table, phase, batch, entries, wanted, hand, listings, attributions, alerts>>
      /\ phase = "searching" /\ id \in DOMAIN batch /\ pending' = pending \ {id}
  BY DEF RunSearch, TypeOK
<1>2. UNCHANGED <<rows, nextID>>
  BY <1>1, TableStays
<1>3. HandTypes'
  BY <1>1 DEF hand, TypeOK, HandTypes
<1>4. PollTypes'
  <2>1. searchIDs' \in [Items -> SUBSET DOMAIN batch]
    <3>1. CASE UNCHANGED searchIDs
      BY <3>1 DEF TypeOK
    <3>2. CASE searchIDs' = [i \in Items |-> IF i \in Finds[batch[id].url]
                                            THEN searchIDs[i] \cup {id} ELSE searchIDs[i]]
      BY <1>1, <3>2 DEF TypeOK
    <3> QED
      BY <3>1, <3>2, Zenon DEF RunSearch
  <2> QED
    BY <1>1, <2>1 DEF TypeOK, PollTypes
<1>5. RecordTypes'
  <2>1. FailingTypes'
    BY FailingType, Zenon DEF RunSearch
  <2>2. health' \in [IDs -> Attempt \cup {NoAttempt}]
    <3> DEFINE Attempted(ok) == [health EXCEPT ![id] = [by |-> id, url |-> batch[id].url,
                                                        ok |-> ok]]
    <3>1. \A ok \in BOOLEAN : Attempted(ok) \in [IDs -> Attempt \cup {NoAttempt}]
      <4>1. id \in IDs /\ batch[id] \in Row
        BY <1>1 DEF TypeOK
      <4>2. \A ok \in BOOLEAN : [by |-> id, url |-> batch[id].url, ok |-> ok] \in Attempt
        BY <4>1 DEF Row, Attempt
      <4> QED
        BY <4>2 DEF TypeOK
    <3>2. health' \in {health, Attempted(TRUE), Attempted(FALSE)}
      BY DEF RunSearch, RecordSearchAttempt
    <3> QED
      BY <3>1, <3>2 DEF TypeOK
  <2> QED
    BY <1>1, <1>2, <2>1, <2>2 DEF alerts, TypeOK, RecordTypes
<1>6. Working'
  BY <1>1, <1>2 DEF hand, Working
<1> QED
  BY <1>1, <1>3, <1>4, <1>5, <1>6, InvStays

LEMMA RunOnceReturnsInv == ASSUME Inv, RunOnceReturns PROVE Inv'
<1> USE DEF Inv
<1>1. /\ UNCHANGED <<table, batch, pending, searchIDs, wanted, hand, records, alerts, failing>>
      /\ phase' = "delivering" /\ entries' \subseteq Items
      /\ \A i \in entries' : searchIDs[i] # {}
  BY DEF RunOnceReturns
<1>2. UNCHANGED <<rows, nextID>>
  BY <1>1, TableStays
<1>3. HandTypes'
  BY <1>1 DEF hand, TypeOK, HandTypes
<1>4. PollTypes'
  BY <1>1 DEF TypeOK, PollTypes
<1>5. RecordTypes'
  BY <1>1, <1>2, FailingType DEF records, alerts, TypeOK, RecordTypes
<1>6. Working'
  BY <1>1, <1>2 DEF hand, records, Working
<1> QED
  BY <1>1, <1>3, <1>4, <1>5, <1>6, InvStays

LEMMA UpsertListingInv == ASSUME Inv, NEW i \in Items, UpsertListing(i) PROVE Inv'
<1> USE DEF Inv
<1>1. /\ UNCHANGED <<table, phase, batch, pending, searchIDs, wanted, health, alerts>>
      /\ phase = "delivering" /\ cur = NoItem /\ cur' = i /\ entries' = entries \ {i}
  BY DEF UpsertListing
<1>2. UNCHANGED <<rows, nextID>>
  BY <1>1, TableStays
<1>3. i # NoItem /\ ~listingID
  BY <1>1, SourcingAssumption DEF Working, SourcingAssumption
<1>4. HandTypes'
  <2>1. listingID' \in BOOLEAN
    <3>1. listingID' = TRUE \/ UNCHANGED listingID
      BY Zenon DEF UpsertListing
    <3> QED
      BY <3>1, Zenon DEF TypeOK
  <2>2. upsertFault' \in BOOLEAN
    <3>1. upsertFault' = TRUE \/ UNCHANGED upsertFault
      BY Zenon DEF UpsertListing
    <3> QED
      BY <3>1, Zenon DEF TypeOK
  <2> QED
    BY <1>1, <2>1, <2>2 DEF HandTypes
<1>5. PollTypes'
  BY <1>1 DEF TypeOK, PollTypes
<1>6. \/ Attribute(i) /\ searchIDs[i] \subseteq DOMAIN rows
      \/ UNCHANGED <<listings, attributions, listingID>>
  BY Zenon DEF UpsertListing
<1>7. RecordTypes'
  <2>1. FailingTypes'
    BY FailingType, Zenon DEF UpsertListing
  <2>2. /\ listings \subseteq listings' /\ listings' \subseteq Items
        /\ attributions' \subseteq listings' \X DOMAIN rows
    BY <1>6 DEF Attribute, TypeOK
  <2> QED
    BY <1>1, <1>2, <2>1, <2>2 DEF alerts, TypeOK, RecordTypes
<1>8. Working'
  <2>1. listingID' => cur' \in Items /\ cur' \in listings'
    BY <1>1, <1>3, <1>6 DEF Attribute
  <2> QED
    BY <1>1, <1>2, <2>1 DEF Working
<1> QED
  BY <1>1, <1>4, <1>5, <1>7, <1>8, InvStays

LEMMA AlertInv == ASSUME Inv, Alert PROVE Inv'
<1> USE DEF Inv
<1>1. UNCHANGED <<table, poll, records>> /\ cur # NoItem /\ NoHand
  BY DEF Alert
<1>2. UNCHANGED <<rows, nextID>>
  BY <1>1, TableStays
<1>3. HandTypes' /\ cur' = NoItem /\ (listingID' <=> FALSE)
  BY <1>1, NoHandTypes
<1>4. PollTypes'
  BY <1>1 DEF poll, TypeOK, PollTypes
<1>5. RecordTypes'
  <2>1. FailingTypes'
    BY FailingType, Zenon DEF Alert
  <2>2. cur \in Items
    BY <1>1 DEF TypeOK
  <2>3. told' \subseteq Items /\ audited' \subseteq told' \cap listings
    <3>1. \/ /\ told' = told \cup {cur}
             /\ audited' = (IF listingID THEN audited \cup {cur} ELSE audited)
          \/ UNCHANGED alerts
      BY Zenon DEF Alert
    <3>2. CASE listingID /\ told' = told \cup {cur} /\ audited' = audited \cup {cur}
      BY <2>2, <3>2 DEF TypeOK, Working
    <3>3. CASE told' = told \cup {cur} /\ audited' = audited
      BY <2>2, <3>3 DEF TypeOK
    <3>4. CASE UNCHANGED alerts
      BY <3>4 DEF alerts, TypeOK
    <3> QED
      BY <3>1, <3>2, <3>3, <3>4
  <2> QED
    BY <1>1, <1>2, <2>1, <2>3 DEF records, TypeOK, RecordTypes
<1>6. Working'
  BY <1>1, <1>2, <1>3 DEF poll, Working
<1> QED
  BY <1>1, <1>3, <1>4, <1>5, <1>6, InvStays

\* The end of a batch, and of the process.
LEMMA EndInv == ASSUME Inv, EndOfBatch \/ Crash PROVE Inv'
<1> USE DEF Inv
<1>1. UNCHANGED <<table, records, alerts>> /\ NoPoll /\ ((UNCHANGED hand /\ cur = NoItem) \/ NoHand)
  BY DEF EndOfBatch, Crash
<1>2. UNCHANGED <<rows, nextID>>
  BY <1>1, TableStays
<1>3. PollTypes' /\ \A i \in Items : searchIDs'[i] = {}
  BY <1>1, NoPollTypes
<1>4. HandTypes' /\ cur' = NoItem /\ (listingID' => cur' \in Items /\ cur' \in listings')
  BY <1>1, NoHandTypes DEF hand, records, TypeOK, HandTypes, Working
<1>5. RecordTypes'
  <2>1. FailingTypes'
    BY FailingType, Zenon DEF EndOfBatch, Crash
  <2> QED
    BY <1>1, <1>2, <2>1 DEF records, alerts, TypeOK, RecordTypes
<1>6. Working'
  BY <1>1, <1>3, <1>4, EmptyShape DEF NoPoll, Working
<1> QED
  BY <1>1, <1>3, <1>4, <1>5, <1>6, InvStays

\* Requests.
LEMMA AdminInv ==
  ASSUME Inv, Administer \/ \E id \in IDs : Delete(id)
  PROVE  Inv'
<1> USE DEF Inv
<1>1. UNCHANGED <<poll, hand, health, listings, alerts, failing>>
  BY DEF Administer, Delete, records
<1>2. TableInv' /\ Grown /\ attributions' \subseteq listings \X DOMAIN rows'
  <2>1. TableInv
    BY DEF TypeOK, TableInv
  <2>2. CASE Administer
    BY <2>1, <2>2, EditTable DEF Administer, records, TypeOK
  <2>3. ASSUME NEW id \in IDs, Delete(id)
        PROVE  TableInv' /\ Grown /\ attributions' \subseteq listings \X DOMAIN rows'
    <3>1. TableInv' /\ Grown /\ DOMAIN rows' = DOMAIN rows \ {id}
      BY <2>1, <2>3, DeleteTable DEF Delete
    <3>2. \A a \in attributions' : a \in listings \X DOMAIN rows /\ a[2] # id
      BY <2>3 DEF Delete, TypeOK
    <3> QED
      BY <3>1, <3>2
  <2> QED
    BY <2>2, <2>3
<1>3. PollTypes' /\ HandTypes'
  BY <1>1 DEF poll, hand, TypeOK, PollTypes, HandTypes
<1>4. RecordTypes'
  BY <1>1, <1>2, FailingType DEF alerts, TypeOK, RecordTypes
<1>5. Working'
  <2>1. nextID' \in Int /\ nextID \in Int /\ nextID' >= nextID
    BY <1>2 DEF Grown, TableInv, SearchesTypeOK, TypeOK
  <2>2. \A id \in DOMAIN batch : id \in Int /\ id < nextID
    BY DEF TypeOK, IDs, Working
  <2> QED
    BY <1>1, <2>1, <2>2 DEF poll, hand, Working
<1> QED
  BY <1>2, <1>3, <1>4, <1>5, Types
  DEF TableInv, TypeOK, PollTypes, HandTypes, RecordTypes, FailingTypes

LEMMA StepInv == Inv /\ [Next]_vars => Inv'
<1> SUFFICES ASSUME Inv, [Next]_vars
             PROVE  Inv'
  OBVIOUS
<1>1. CASE Worker \/ Crash
  BY <1>1, ListSearchesInv, RunSearchInv, RunOnceReturnsInv, UpsertListingInv, AlertInv, EndInv
  DEF Worker
<1>2. CASE Administer \/ \E id \in IDs : Delete(id)
  BY <1>2, AdminInv
<1>3. CASE UNCHANGED vars
  <2>1. UNCHANGED <<table, poll, hand, records, alerts, failing>>
    BY <1>3 DEF vars
  <2>2. PollTypes' /\ HandTypes' /\ RecordTypes' /\ Working'
    BY <2>1, TableStays, FailingType
    DEF Inv, Working, TypeOK, PollTypes, HandTypes, RecordTypes, poll, hand, records, alerts
  <2> QED
    BY <2>1, <2>2, InvStays
<1> QED
  BY <1>1, <1>2, <1>3 DEF Next

LEMMA InvAlways == Spec => []Inv
  BY InitInv, StepInv, PTL DEF Spec

\* Every variable keeps its type, the foreign keys of listing_searches and
\* the audit of what was announced and recorded included.
THEOREM TypeCorrect == Spec => []TypeOK
<1>1. Inv => TypeOK
  BY DEF Inv
<1> QED
  BY <1>1, InvAlways, PTL

-----------------------------------------------------------------------------
(* What the worker's snapshot and the table still agree on.                *)

\* Within one poll a name means one search, whatever requests do meanwhile.
THEOREM NamesStayDistinct == Spec => []PollNamesDistinct
<1>1. Init => PollNamesDistinct
  BY EmptyShape DEF Init, PollNamesDistinct
<1>2. ASSUME Inv, PollNamesDistinct, [Next]_vars
      PROVE  PollNamesDistinct'
  <2>1. CASE UNCHANGED batch
    BY <1>2, <2>1 DEF PollNamesDistinct
  <2>2. CASE ListSearches
    <3>1. CASE batch' = Restrict(rows, Enabled)
      BY <1>2, <3>1, EnabledShape DEF Inv, NamesUnique, PollNamesDistinct
    <3> QED
      BY <2>1, <2>2, <3>1 DEF ListSearches
  <2>3. CASE NoPoll
    BY <2>3, EmptyShape DEF NoPoll, PollNamesDistinct
  <2> QED
    BY <1>2, <2>1, <2>2, <2>3
    DEF Next, Worker, RunSearch, RunOnceReturns, UpsertListing, Alert, EndOfBatch, Crash,
        Administer, Delete, vars, poll
<1> QED
  BY <1>1, <1>2, InvAlways, PTL DEF Spec

\* A listing is announced with its record and all its attributions, or for
\* one of three reasons; no edit, pause or new search is one of them, and no
\* failure makes the worker poll the environment's query while searches are
\* enabled.
THEOREM NoRecordWithoutReason == Spec => []RecordedOrReason
<1>1. Init => RecordedOrReason
  BY DEF Init, RecordedOrReason
<1>2. ASSUME Inv, RecordedOrReason, [Next]_vars
      PROVE  RecordedOrReason'
  <2>1. CASE cur' = NoItem
    BY <2>1 DEF RecordedOrReason
  <2>2. CASE UNCHANGED <<rows, searchIDs, wanted, cur, listingID, upsertFault, attributions>>
    BY <1>2, <2>2 DEF RecordedOrReason
  <2>3. CASE cur = NoItem /\ UNCHANGED cur
    BY <2>1, <2>3
  <2>4. ASSUME NEW i \in Items, UpsertListing(i)
        PROVE  RecordedOrReason'
    <3>1. /\ UNCHANGED <<rows, searchIDs, wanted>> /\ cur' = i
          /\ wanted = {} \/ searchIDs[i] # {}
      BY <1>2, <2>4, TableStays DEF UpsertListing, Inv, Working
    <3>2. CASE Attribute(i) /\ listingID' = TRUE
      <4>1. \A id \in searchIDs[i] : <<i, id>> \in attributions'
        BY <3>2 DEF Attribute
      <4>2. listingID'
        BY <3>2, Zenon
      <4> QED
        BY <3>1, <4>1, <4>2 DEF RecordedOrReason
    <3>3. CASE searchIDs[i] = {} \/ ~(searchIDs[i] \subseteq DOMAIN rows)
      BY <3>1, <3>3 DEF RecordedOrReason
    <3>4. CASE upsertFault' = TRUE
      <4>1. upsertFault'
        BY <3>4, Zenon
      <4> QED
        BY <4>1 DEF RecordedOrReason
    <3> QED
      BY <2>4, <3>2, <3>3, <3>4, Zenon DEF UpsertListing
  <2>5. ASSUME cur # NoItem, Administer \/ \E id \in IDs : Delete(id)
        PROVE  RecordedOrReason'
    <3>1. UNCHANGED <<searchIDs, wanted, cur, listingID, upsertFault>> /\ searchIDs[cur] \subseteq DOMAIN batch
      BY <1>2, <2>5 DEF Administer, Delete, poll, hand, Inv, TypeOK
    <3>2. DOMAIN rows' \subseteq DOMAIN rows \cup {nextID} /\ nextID \notin DOMAIN batch
      <4>1. Grown
        BY <1>2, <2>5, EditTable, DeleteTable DEF Administer, Delete, Inv, TypeOK, TableInv
      <4>2. \A id \in DOMAIN batch : id \in Int /\ id < nextID
        BY <1>2 DEF Inv, TypeOK, Working, IDs
      <4> QED
        BY <4>1, <4>2 DEF Grown
    <3>3. searchIDs[cur] \cap DOMAIN rows' \subseteq searchIDs[cur] \cap DOMAIN rows
      BY <3>1, <3>2
    <3>4. \A id \in DOMAIN rows' : <<cur, id>> \in attributions => <<cur, id>> \in attributions'
      <4>1. CASE Administer
        BY <4>1 DEF Administer, records
      <4>2. ASSUME NEW gone \in IDs, Delete(gone)
            PROVE  \A id \in DOMAIN rows' : <<cur, id>> \in attributions
                                              => <<cur, id>> \in attributions'
        <5>1. gone \notin DOMAIN rows'
          <6>1. TableInv /\ DeleteSearch(gone)
            BY <1>2, <4>2, Zenon DEF Delete, Inv, TypeOK, TableInv
          <6> QED
            BY <6>1, DeleteTable
        <5> QED
          BY <4>2, <5>1 DEF Delete
      <4> QED
        BY <2>5, <4>1, <4>2
    <3> QED
      BY <1>2, <2>5, <3>1, <3>3, <3>4 DEF RecordedOrReason
  <2>6. CASE Worker \/ Crash
    <3>1. UNCHANGED rows
      BY <1>2, <2>6, WorkerTable, TableStays
    <3>2. CASE ListSearches \/ RunOnceReturns
      BY <1>2, <2>2, <2>3, <3>1, <3>2 DEF ListSearches, RunOnceReturns, hand, records, Inv, Working
    <3>3. CASE Alert \/ EndOfBatch \/ Crash
      BY <2>1, <2>3, <3>3 DEF Alert, EndOfBatch, Crash, NoHand, hand
    <3>4. CASE \E id \in IDs : RunSearch(id)
      BY <1>2, <2>3, <3>4 DEF RunSearch, hand, Inv, Working
    <3> QED
      BY <2>4, <2>6, <3>2, <3>3, <3>4 DEF Worker
  <2>7. CASE UNCHANGED vars
    BY <2>2, <2>7 DEF vars, table, poll, hand, records
  <2>8. CASE cur = NoItem /\ (Administer \/ \E id \in IDs : Delete(id))
    BY <2>3, <2>8 DEF Administer, Delete, hand
  <2> QED
    BY <1>2, <2>5, <2>6, <2>7, <2>8 DEF Next
<1> QED
  BY <1>1, <1>2, InvAlways, PTL DEF Spec

-----------------------------------------------------------------------------
(* What a poll in which no call failed has done.                           *)

\* A search of the snapshot that is gone from the table stays gone.
LEMMA GoneStaysGone ==
  ASSUME Inv, Administer \/ \E id \in IDs : Delete(id)
  PROVE  DOMAIN batch \cap DOMAIN rows' \subseteq DOMAIN rows
<1>1. Grown
  BY EditTable, DeleteTable DEF Administer, Delete, Inv, TypeOK, TableInv
<1>2. \A id \in DOMAIN batch : id \in Int /\ id < nextID
  BY DEF Inv, TypeOK, Working, IDs
<1> QED
  BY <1>1, <1>2 DEF Grown

LEMMA FaultSpoils == Fault => spoiled'
  BY Zenon DEF Fault

LEMMA CallsThatSucceed ==
  ASSUME ~Fault, RunOnceReturns \/ Alert \/ \E i \in Items : UpsertListing(i)
  PROVE  UNCHANGED failing
<1>1. RunOnceReturns => UNCHANGED failing
  BY Zenon DEF RunOnceReturns
<1>2. Alert => Fault \/ UNCHANGED failing
  BY Zenon DEF Alert
<1>3. \A i \in Items : UpsertListing(i) => Fault \/ UNCHANGED failing
  BY Zenon DEF UpsertListing
<1> QED
  BY <1>1, <1>2, <1>3, Zenon

\* Outside a poll's search phase nothing waits to be searched, and without a
\* poll there is no snapshot.
Pace ==
  /\ phase # "searching" => pending = {}
  /\ phase = "idle" => DOMAIN batch = {}

LEMMA InitPace == Init => Pace
  BY EmptyShape DEF Init, Pace

LEMMA StepPace == Inv /\ Pace /\ [Next]_vars => Pace'
<1> SUFFICES ASSUME Inv, Pace, [Next]_vars
             PROVE  Pace'
  OBVIOUS
<1>1. CASE UNCHANGED <<phase, batch, pending>>
  BY <1>1 DEF Pace
<1>2. CASE ListSearches
  BY <1>2 DEF ListSearches, Pace
<1>3. ASSUME NEW id \in IDs, RunSearch(id)
      PROVE  Pace'
  BY <1>3 DEF RunSearch, Pace
<1>4. CASE RunOnceReturns
  BY <1>4 DEF RunOnceReturns, Pace
<1>5. CASE NoPoll
  BY <1>5, EmptyShape DEF NoPoll, Pace
<1> QED
  BY <1>1, <1>2, <1>3, <1>4, <1>5
  DEF Next, Worker, UpsertListing, Alert, EndOfBatch, Crash, Administer, Delete, vars, poll

\* The health of a search polled without a failed call is the outcome of the
\* attempt of this poll, at the URL the snapshot has for it.
THEOREM PollTellsHealth == Spec => []HealthOfPoll
<1> DEFINE Told(id, b, h) ==
      h[id] = [by |-> id, url |-> b[id].url, ok |-> JobFromSearchURL(b[id].url)]
<1>1. Init => HealthOfPoll
  BY EmptyShape DEF Init, HealthOfPoll
<1>2. ASSUME Inv, Pace, HealthOfPoll, [Next]_vars
      PROVE  HealthOfPoll'
  <2>1. CASE spoiled'
    BY <2>1, Zenon DEF HealthOfPoll
  <2>2. SUFFICES ASSUME ~spoiled', NEW id \in (DOMAIN batch' \ pending') \cap DOMAIN rows'
                 PROVE  Told(id, batch', health')
    BY <2>1, Zenon DEF HealthOfPoll
  <2>3. ~Fault
    BY <2>2, FaultSpoils, Zenon
  <2>4. CASE UNCHANGED <<batch, pending, health, spoiled>> /\ id \in DOMAIN rows
    <3>1. ~spoiled
      BY <2>2, <2>4, Zenon
    <3> QED
      BY <1>2, <2>2, <2>4, <3>1 DEF HealthOfPoll
  <2>5. CASE DOMAIN batch' = pending' \/ DOMAIN batch' = {}
    BY <2>2, <2>5
  <2>6. CASE ListSearches
    <3>1. CASE batch' = Restrict(rows, Enabled) /\ pending' = Enabled
      BY <1>2, <2>5, <3>1, EnabledShape DEF Inv
    <3>2. CASE phase = "idle" /\ UNCHANGED batch
      BY <1>2, <2>5, <3>2 DEF Pace
    <3> QED
      BY <2>3, <2>6, <3>1, <3>2, Zenon DEF ListSearches
  <2>7. ASSUME NEW run \in IDs, RunSearch(run)
        PROVE  Told(id, batch', health')
    <3>1. /\ UNCHANGED <<batch, rows>> /\ pending' = pending \ {run} /\ run \in DOMAIN batch
          /\ health \in [IDs -> Attempt \cup {NoAttempt}]
      BY <1>2, <2>7, TableStays DEF RunSearch, Inv, TypeOK
    <3> DEFINE url == batch[run].url
    <3>2. /\ UNCHANGED failing
          /\ \/ JobFromSearchURL(url) /\ RecordSearchAttempt(run, TRUE)
             \/ ~JobFromSearchURL(url) /\ RecordSearchAttempt(run, FALSE)
      BY <2>3, <2>7, Zenon DEF RunSearch
    <3>3. RecordSearchAttempt(run, JobFromSearchURL(url))
      <4>1. JobFromSearchURL(url) => JobFromSearchURL(url) = TRUE
        BY Zenon DEF JobFromSearchURL
      <4>2. ~JobFromSearchURL(url) => JobFromSearchURL(url) = FALSE
        BY Zenon DEF JobFromSearchURL
      <4> QED
        BY <3>2, <4>1, <4>2, Zenon
    <3> HIDE DEF url
    <3>4. CASE id = run
      BY <2>2, <3>1, <3>3, <3>4 DEF RecordSearchAttempt, url
    <3>5. CASE id # run
      <4>1. ~spoiled
        BY <2>2, <3>2, Zenon DEF failing
      <4>2. id \in (DOMAIN batch \ pending) \cap DOMAIN rows
        BY <2>2, <3>1, <3>5
      <4>3. Told(id, batch, health)
        BY <1>2, <4>1, <4>2 DEF HealthOfPoll
      <4>4. health'[id] = health[id]
        BY <3>1, <3>3, <3>5, <4>2 DEF RecordSearchAttempt
      <4> QED
        BY <3>1, <4>3, <4>4
    <3> QED
      BY <3>4, <3>5
  <2>8. CASE NoPoll
    BY <2>5, <2>8, EmptyShape DEF NoPoll
  <2>9. CASE Administer \/ \E gone \in IDs : Delete(gone)
    <3>1. UNCHANGED <<batch, pending, health, spoiled>>
      BY <2>9 DEF Administer, Delete, poll, records, failing
    <3>2. id \in DOMAIN rows
      BY <1>2, <2>2, <2>9, <3>1, GoneStaysGone
    <3> QED
      BY <2>4, <3>1, <3>2
  <2>10. CASE RunOnceReturns \/ Alert \/ \E i \in Items : UpsertListing(i)
    <3>1. UNCHANGED <<table, batch, pending, health>>
      BY <2>10 DEF RunOnceReturns, Alert, UpsertListing, poll, records
    <3>2. UNCHANGED failing
      BY <2>3, <2>10, CallsThatSucceed, Zenon
    <3>3. UNCHANGED spoiled
      BY <3>2 DEF failing
    <3>4. id \in DOMAIN rows
      BY <1>2, <2>2, <3>1, TableStays
    <3> QED
      BY <2>4, <3>1, <3>3, <3>4
  <2>11. CASE UNCHANGED vars
    BY <2>2, <2>4, <2>11 DEF vars, table, poll, records, failing
  <2> QED
    BY <1>2, <2>6, <2>7, <2>8, <2>9, <2>10, <2>11 DEF Next, Worker, EndOfBatch, Crash
<1> QED
  BY <1>1, <1>2, InitPace, StepPace, InvAlways, PTL DEF Spec

\* Unless a call failed, the batch attributes a listing to exactly those of
\* the searches run so far that find it.
Found == ~spoiled => \A i \in Items : searchIDs[i] = Finders(i) \ pending

LEMMA StepFound == Inv /\ Pace /\ Found /\ [Next]_vars => Found'
<1> SUFFICES ASSUME Inv, Pace, Found, [Next]_vars, ~spoiled', NEW i \in Items
             PROVE  searchIDs'[i] = Finders(i)' \ pending'
  BY DEF Found
<1>1. ~Fault
  BY FaultSpoils, Zenon
<1>2. CASE UNCHANGED <<batch, pending, searchIDs, spoiled>>
  <2>1. ~spoiled
    BY <1>2, Zenon
  <2>2. Finders(i)' = Finders(i)
    BY <1>2 DEF Finders
  <2> QED
    BY <1>2, <2>1, <2>2 DEF Found
<1>3. CASE searchIDs'[i] = {} /\ (DOMAIN batch' = pending' \/ DOMAIN batch' = {})
  BY <1>3 DEF Finders
<1>4. CASE ListSearches
  <2>1. phase = "idle" /\ UNCHANGED searchIDs
    BY <1>4 DEF ListSearches
  <2>2. searchIDs'[i] = {} /\ DOMAIN batch = {}
    BY <2>1 DEF Inv, Working, Pace
  <2>3. CASE batch' = Restrict(rows, Enabled) /\ pending' = Enabled
    BY <1>3, <2>2, <2>3, EnabledShape DEF Inv
  <2>4. CASE UNCHANGED batch
    BY <1>3, <2>2, <2>4
  <2> QED
    BY <1>1, <1>4, <2>3, <2>4, Zenon DEF ListSearches
<1>5. ASSUME NEW run \in IDs, RunSearch(run)
      PROVE  searchIDs'[i] = Finders(i)' \ pending'
  <2>1. /\ UNCHANGED batch /\ pending' = pending \ {run}
        /\ run \in DOMAIN batch /\ run \in pending
    BY <1>5 DEF RunSearch, Inv, TypeOK
  <2>2. Finders(i)' = Finders(i)
    BY <2>1 DEF Finders
  <2>3. /\ UNCHANGED failing
        /\ \/ /\ JobFromSearchURL(batch[run].url)
              /\ searchIDs' = [j \in Items |-> IF j \in Finds[batch[run].url]
                                               THEN searchIDs[j] \cup {run} ELSE searchIDs[j]]
           \/ ~JobFromSearchURL(batch[run].url) /\ UNCHANGED searchIDs
    BY <1>1, <1>5, Zenon DEF RunSearch
  <2>4. ~spoiled
    BY <2>3, Zenon DEF failing
  <2>5. searchIDs[i] = Finders(i) \ pending
    BY <2>4 DEF Found
  <2>6. searchIDs'[i] = IF run \in Finders(i) THEN searchIDs[i] \cup {run} ELSE searchIDs[i]
    BY <2>1, <2>3 DEF Finders
  <2> QED
    BY <2>1, <2>2, <2>5, <2>6
<1>6. CASE NoPoll
  BY <1>3, <1>6, EmptyShape, NoPollTypes DEF NoPoll
<1>7. CASE RunOnceReturns \/ Alert \/ \E j \in Items : UpsertListing(j)
  <2>1. UNCHANGED <<batch, pending, searchIDs>>
    BY <1>7 DEF RunOnceReturns, Alert, UpsertListing, poll
  <2>2. UNCHANGED failing
    BY <1>1, <1>7, CallsThatSucceed
  <2> QED
    BY <1>2, <2>1, <2>2 DEF failing
<1>8. CASE Administer \/ \E gone \in IDs : Delete(gone)
  BY <1>2, <1>8 DEF Administer, Delete, poll, failing
<1>9. CASE UNCHANGED vars
  BY <1>2, <1>9 DEF vars, poll, failing
<1> QED
  BY <1>4, <1>5, <1>6, <1>7, <1>8, <1>9 DEF Next, Worker, EndOfBatch, Crash

\* Unless a call failed, every listing of the batch that processItems has
\* taken is in hand or announced, and has its attributions unless one of its
\* searches was deleted.
Handled ==
  (phase = "delivering" /\ ~spoiled) =>
    \A i \in Items \ entries : searchIDs[i] # {} =>
      /\ i = cur \/ i \in told
      /\ searchIDs[i] \subseteq DOMAIN rows => {i} \X searchIDs[i] \subseteq attributions

LEMMA StepHandled == Inv /\ Handled /\ [Next]_vars => Handled'
<1> SUFFICES ASSUME Inv, Handled, [Next]_vars, phase' = "delivering", ~spoiled',
                    NEW i \in Items \ entries', searchIDs'[i] # {}
             PROVE  /\ i = cur' \/ i \in told'
                    /\ searchIDs'[i] \subseteq DOMAIN rows'
                         => {i} \X searchIDs'[i] \subseteq attributions'
  BY DEF Handled
<1> USE DEF Inv
<1>1. ~Fault
  BY FaultSpoils, Zenon
<1>2. ASSUME phase = "delivering", UNCHANGED <<spoiled, searchIDs>>, i \notin entries
      PROVE  /\ i = cur \/ i \in told
             /\ searchIDs[i] \subseteq DOMAIN rows => {i} \X searchIDs[i] \subseteq attributions
  <2>1. ~spoiled
    BY <1>2, Zenon
  <2> QED
    BY <1>2, <2>1 DEF Handled
<1>3. CASE ListSearches
  BY <1>3 DEF ListSearches, Working
<1>4. ASSUME NEW run \in IDs, RunSearch(run)
      PROVE  FALSE
  BY <1>4 DEF RunSearch
<1>5. CASE RunOnceReturns
  BY <1>5 DEF RunOnceReturns
<1>6. CASE NoPoll
  BY <1>6 DEF NoPoll
<1>7. ASSUME NEW j \in Items, UpsertListing(j)
      PROVE  /\ i = cur' \/ i \in told'
             /\ searchIDs'[i] \subseteq DOMAIN rows'
                  => {i} \X searchIDs'[i] \subseteq attributions'
  <2>1. /\ UNCHANGED <<table, phase, searchIDs, alerts>> /\ cur = NoItem /\ cur' = j
        /\ entries' = entries \ {j}
    BY <1>7 DEF UpsertListing
  <2>2. UNCHANGED rows
    BY <2>1, TableStays
  <2>3. UNCHANGED failing
    BY <1>1, <1>7, CallsThatSucceed
  <2>4. \/ Attribute(j)
        \/ /\ searchIDs[j] = {} \/ ~(searchIDs[j] \subseteq DOMAIN rows)
           /\ UNCHANGED attributions
    BY <1>1, <1>7, Zenon DEF UpsertListing
  <2>5. CASE i = j
    BY <2>1, <2>2, <2>4, <2>5 DEF Attribute
  <2>6. CASE i # j
    <3>1. /\ i = cur \/ i \in told
          /\ searchIDs[i] \subseteq DOMAIN rows => {i} \X searchIDs[i] \subseteq attributions
      BY <1>2, <2>1, <2>3, <2>6 DEF failing
    <3>2. i # cur /\ attributions \subseteq attributions'
      BY <2>1, <2>4, SourcingAssumption DEF SourcingAssumption, Attribute
    <3> QED
      BY <2>1, <2>2, <3>1, <3>2 DEF alerts
  <2> QED
    BY <2>5, <2>6
<1>8. CASE Alert
  <2>1. UNCHANGED <<table, poll, records>> /\ cur # NoItem /\ cur' = NoItem
    BY <1>8 DEF Alert, NoHand
  <2>2. UNCHANGED rows
    BY <2>1, TableStays
  <2>3. UNCHANGED failing /\ told \cup {cur} \subseteq told'
    <3>1. UNCHANGED failing
      BY <1>1, <1>8, CallsThatSucceed
    <3>2. told' = told \cup {cur} \/ (cur \in told /\ UNCHANGED alerts)
      BY <1>1, <1>8, Zenon DEF Alert
    <3> QED
      BY <3>1, <3>2 DEF alerts
  <2>4. /\ i = cur \/ i \in told
        /\ searchIDs[i] \subseteq DOMAIN rows => {i} \X searchIDs[i] \subseteq attributions
    BY <1>2, <2>1, <2>3 DEF poll, failing
  <2> QED
    BY <2>1, <2>2, <2>3, <2>4 DEF poll, records
<1>9. CASE Administer \/ \E gone \in IDs : Delete(gone)
  <2>1. UNCHANGED <<poll, cur, alerts, failing>>
    BY <1>9 DEF Administer, Delete, hand
  <2>2. /\ i = cur \/ i \in told
        /\ searchIDs[i] \subseteq DOMAIN rows => {i} \X searchIDs[i] \subseteq attributions
    BY <1>2, <2>1 DEF poll, failing
  <2>3. searchIDs[i] \subseteq DOMAIN rows' => searchIDs[i] \subseteq DOMAIN rows
    BY <1>9, GoneStaysGone DEF TypeOK
  <2>4. \A id \in DOMAIN rows' : <<i, id>> \in attributions => <<i, id>> \in attributions'
    <3>1. CASE Administer
      BY <3>1 DEF Administer, records
    <3>2. ASSUME NEW gone \in IDs, Delete(gone)
          PROVE  \A id \in DOMAIN rows' : <<i, id>> \in attributions
                                            => <<i, id>> \in attributions'
      <4>1. gone \notin DOMAIN rows'
        <5>1. TableInv /\ DeleteSearch(gone)
          BY <1>1, <3>2, Zenon DEF Delete, TypeOK, TableInv
        <5> QED
          BY <5>1, DeleteTable
      <4>2. attributions' = {a \in attributions : a[2] # gone}
        BY <3>2, Zenon DEF Delete
      <4> HIDE DEF Inv
      <4> TAKE id \in DOMAIN rows'
      <4>3. id # gone /\ <<i, id>>[2] = id
        BY <4>1
      <4> QED
        BY <4>2, <4>3
    <3> QED
      BY <1>9, <3>1, <3>2
  <2> QED
    BY <2>1, <2>2, <2>3, <2>4 DEF poll, alerts
<1>10. CASE UNCHANGED vars
  BY <1>2, <1>10 DEF vars, table, poll, hand, records, alerts, failing
<1> QED
  BY <1>3, <1>4, <1>5, <1>6, <1>7, <1>8, <1>9, <1>10
  DEF Next, Worker, EndOfBatch, Crash

\* At the end of a poll in which no call failed everything its searches found
\* has been announced, with all attributions but where a search was deleted;
\* no other edit, at whatever moment, costs a listing its alert.
THEOREM PollsSurface == Spec => []PollSurfaces
<1>1. Init => Found /\ Handled
  BY EmptyShape DEF Init, Found, Handled, Finders
<1>2. Pace /\ Found /\ Handled => PollSurfaces
  <2> SUFFICES ASSUME Pace, Found, Handled, phase = "delivering", entries = {},
                      cur = NoItem, ~spoiled, NEW i \in Items, Finders(i) # {}
               PROVE  /\ i \in told
                      /\ Finders(i) \subseteq DOMAIN rows
                           => {i} \X Finders(i) \subseteq attributions
    BY DEF PollSurfaces
  <2>1. searchIDs[i] = Finders(i)
    BY DEF Found, Pace
  <2>2. i # cur
    BY SourcingAssumption DEF SourcingAssumption
  <2> QED
    BY <2>1, <2>2 DEF Handled
<1> QED
  BY <1>1, <1>2, InitPace, StepPace, StepFound, StepHandled, InvAlways, PTL DEF Spec

-----------------------------------------------------------------------------
(* The toggle.                                                             *)

\* What a toggle has read is true until it is overtaken or its search gone,
\* and no search ever comes back under the ID it has read.
ReadsTrue ==
  \A c \in Clients : toggles[c] # Idle =>
    /\ toggles[c].id < nextID
    /\ (~toggles[c].overtaken /\ toggles[c].id \in DOMAIN rows)
         => rows[toggles[c].id].enabled = toggles[c].enabled

LEMMA OvertakeShape ==
  ASSUME toggles \in [Clients -> Read \cup {Idle}], NEW id, NEW c, NEW d \in Clients, d # c
  PROVE  LET after == Overtake(id, c)[d] IN
         /\ after = Idle <=> toggles[d] = Idle
         /\ toggles[d] # Idle =>
              /\ after.id = toggles[d].id
              /\ after.id = id => after.overtaken
              /\ after.id # id => after = toggles[d]
<1>1. Overtake(id, c)[d] = IF toggles[d] # Idle /\ toggles[d].id = id
                           THEN [toggles[d] EXCEPT !.overtaken = TRUE] ELSE toggles[d]
  BY DEF Overtake
<1>2. CASE toggles[d] # Idle /\ toggles[d].id = id
  <2> DEFINE after == [toggles[d] EXCEPT !.overtaken = TRUE]
  <2>1. toggles[d] \in Read
    BY <1>2
  <2>2. after \in Read /\ after.id = toggles[d].id
    BY <2>1 DEF Read
  <2>3. after.overtaken = TRUE
    BY <2>1 DEF Read
  <2>4. after.overtaken
    BY <2>3, Zenon
  <2> QED
    BY <1>1, <1>2, <2>2, <2>4, IdleApart
<1> QED
  BY <1>1, <1>2

\* A write of search id that overtakes the toggles which have read it.
LEMMA ReadsTrueAfterWrite ==
  ASSUME Inv, ReadsTrue, NEW id, NEW c, UNCHANGED nextID,
         DOMAIN rows' = DOMAIN rows,
         \A other \in DOMAIN rows \ {id} : rows'[other] = rows[other],
         \A d \in Clients : IF d = c THEN toggles'[d] = Idle
                                     ELSE toggles'[d] = Overtake(id, c)[d]
  PROVE  ReadsTrue'
<1> SUFFICES ASSUME NEW d \in Clients, toggles'[d] # Idle
             PROVE  /\ toggles'[d].id < nextID
                    /\ (~toggles'[d].overtaken /\ toggles'[d].id \in DOMAIN rows)
                         => rows'[toggles'[d].id].enabled = toggles'[d].enabled
  BY DEF ReadsTrue
<1>1. d # c /\ toggles'[d] = Overtake(id, c)[d]
  OBVIOUS
<1>2. /\ toggles[d] # Idle
      /\ toggles'[d].id = toggles[d].id
      /\ toggles'[d].id = id => toggles'[d].overtaken
      /\ toggles'[d].id # id => toggles'[d] = toggles[d]
  BY <1>1, OvertakeShape DEF Inv, TypeOK, SearchesTypeOK
<1> QED
  BY <1>2 DEF ReadsTrue

LEMMA EditReads ==
  ASSUME Inv, ReadsTrue, Edit
  PROVE  ReadsTrue'
<1> USE DEF ReadsTrue
<1>1. ASSUME NEW name, NEW url, NEW enabled, Create(name, url, enabled)
      PROVE  ReadsTrue'
  <2>1. toggles' = toggles /\ nextID' = nextID + 1 /\ nextID \in Int
    BY <1>1 DEF Create, Inv, TypeOK, SearchesTypeOK
  <2>2. \A c \in Clients : toggles[c] # Idle => toggles[c].id \in Int /\ toggles[c].id < nextID
    BY DEF Inv, TypeOK, SearchesTypeOK, Read, IDs
  <2>3. \A id \in DOMAIN rows' : id # nextID => id \in DOMAIN rows /\ rows'[id] = rows[id]
    BY <1>1 DEF Create
  <2> QED
    BY <2>1, <2>2, <2>3
<1>2. ASSUME NEW id, NEW name, NEW url, NEW enabled, Update(id, name, url, enabled)
      PROVE  ReadsTrue'
  <2>1. /\ UNCHANGED nextID /\ DOMAIN rows' = DOMAIN rows
        /\ \A other \in DOMAIN rows \ {id} : rows'[other] = rows[other]
        /\ toggles' = Overtake(id, Idle)
    BY <1>2 DEF Update, Inv, TypeOK, SearchesTypeOK
  <2> QED
    BY <2>1, IdleApart, ReadsTrueAfterWrite
<1>3. ASSUME NEW id, NEW enabled, SetEnabled(id, enabled)
      PROVE  ReadsTrue'
  <2>1. /\ UNCHANGED nextID /\ DOMAIN rows' = DOMAIN rows
        /\ \A other \in DOMAIN rows \ {id} : rows'[other] = rows[other]
        /\ toggles' = Overtake(id, Idle)
    BY <1>3 DEF SetEnabled, Inv, TypeOK, SearchesTypeOK
  <2> QED
    BY <2>1, IdleApart, ReadsTrueAfterWrite
<1>4. ASSUME NEW c \in Clients, ToggleWrite(c)
      PROVE  ReadsTrue'
  <2>1. /\ UNCHANGED nextID /\ DOMAIN rows' = DOMAIN rows
        /\ \A other \in DOMAIN rows \ {toggles[c].id} : rows'[other] = rows[other]
        /\ toggles' = [Overtake(toggles[c].id, c) EXCEPT ![c] = Idle]
    BY <1>4 DEF ToggleWrite, Inv, TypeOK, SearchesTypeOK
  <2>2. \A d \in Clients : IF d = c THEN toggles'[d] = Idle
                                    ELSE toggles'[d] = Overtake(toggles[c].id, c)[d]
    BY <2>1 DEF Overtake
  <2> QED
    BY <2>1, <2>2, ReadsTrueAfterWrite
<1>5. ASSUME NEW c \in Clients, ToggleAbandon(c)
      PROVE  ReadsTrue'
  BY <1>5 DEF ToggleAbandon, Inv, TypeOK, SearchesTypeOK
<1>6. ASSUME NEW c \in Clients, NEW id, ToggleRead(c, id)
      PROVE  ReadsTrue'
  <2> DEFINE read == [id |-> id, enabled |-> rows[id].enabled, overtaken |-> FALSE]
  <2>1. /\ UNCHANGED <<rows, nextID>> /\ id < nextID
        /\ toggles'[c] = read
        /\ \A d \in Clients \ {c} : toggles'[d] = toggles[d]
    BY <1>6 DEF ToggleRead, Inv, TypeOK, SearchesTypeOK
  <2>2. read.id = id /\ read.enabled = rows[id].enabled
    OBVIOUS
  <2> QED
    BY <2>1, <2>2
<1> QED
  BY <1>1, <1>2, <1>3, <1>4, <1>5, <1>6 DEF Edit

LEMMA StepReads == Inv /\ ReadsTrue /\ [Next]_vars => ReadsTrue'
<1> SUFFICES ASSUME Inv, ReadsTrue, [Next]_vars
             PROVE  ReadsTrue'
  OBVIOUS
<1>1. CASE UNCHANGED table
  BY <1>1 DEF table, ReadsTrue
<1>2. CASE Administer
  BY <1>2, EditReads DEF Administer
<1>3. ASSUME NEW id \in IDs, Delete(id)
      PROVE  ReadsTrue'
  BY <1>3 DEF Delete, DeleteSearch, Restrict, ReadsTrue
<1> QED
  BY <1>1, <1>2, <1>3, WorkerTable DEF Next, vars

\* A click changes the search it names to the opposite, unless another
\* request wrote it in between: for any number of concurrent requests.
THEOREM TogglesFlip == Spec => ToggleFlips
<1> DEFINE Flips == \A c \in Clients :
              (ToggleWrite(c) /\ ~toggles[c].overtaken /\ toggles[c].id \in DOMAIN rows)
                => rows'[toggles[c].id].enabled = ~rows[toggles[c].id].enabled
<1>1. Init => ReadsTrue
  BY DEF Init, SearchesInit, ReadsTrue
<1>2. Inv /\ ReadsTrue => [Flips]_table
  <2> SUFFICES ASSUME Inv, ReadsTrue, NEW c \in Clients, ToggleWrite(c),
                      ~toggles[c].overtaken, toggles[c].id \in DOMAIN rows
               PROVE  rows'[toggles[c].id].enabled = ~rows[toggles[c].id].enabled
    OBVIOUS
  <2> DEFINE id == toggles[c].id
  <2>1. rows' = [rows EXCEPT ![id].enabled = ~toggles[c].enabled] /\ toggles[c] # Idle
    BY DEF ToggleWrite
  <2>2. rows[id].enabled = toggles[c].enabled
    BY <2>1 DEF ReadsTrue
  <2>3. rows[id] \in Row
    BY DEF Inv, TypeOK, SearchesTypeOK
  <2>4. rows'[id].enabled = ~toggles[c].enabled
    BY <2>1, <2>3 DEF Row, Inv, TypeOK, SearchesTypeOK
  <2> QED
    BY <2>2, <2>4
<1> QED
  BY <1>1, <1>2, InvAlways, StepReads, PTL DEF Spec, ToggleFlips

=============================================================================
