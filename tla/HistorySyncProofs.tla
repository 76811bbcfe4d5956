------------------------- MODULE HistorySyncProofs -------------------------
(***************************************************************************)
(* Proofs about HistorySync, for any sheets, any finite set of sales and   *)
(* any bounds: types, what the three places that hold the prices have to   *)
(* do with each other, with and without a sheet, and that failures cost no *)
(* prices.                                                                 *)
(***************************************************************************)
EXTENDS HistorySync, FiniteSetTheorems, TLAPS

-----------------------------------------------------------------------------
(* Type correctness.                                                       *)

LEMMA ContentsShape ==
  ASSUME NEW c \in Contents
  PROVE  /\ c.header \in BOOLEAN
         /\ c.valid \subseteq Sales
         /\ c.invalid \in Nat
         /\ Cardinality(c.valid) \in Nat
<1>1. c.header \in BOOLEAN /\ c.valid \subseteq Sales /\ c.invalid \in 0..1
  <2>1. CASE c = Blank
    <3>1. c = [header |-> FALSE, valid |-> {}, invalid |-> 0]
      BY <2>1 DEF Blank
    <3>2. c.header = FALSE
      BY <3>1, Zenon
    <3>3. c.valid = {}
      BY <3>1, Zenon
    <3>4. c.invalid = 0
      BY <3>1, Zenon
    <3>5. c.header \in BOOLEAN
      BY <3>2, Zenon
    <3> QED
      BY <3>3, <3>4, <3>5
  <2>2. CASE c # Blank
    <3>1. c \in [header : {TRUE}, valid : SUBSET Sales, invalid : 0..1]
      BY <2>2 DEF Contents
    <3>2. c.header = TRUE
      BY <3>1
    <3> QED
      BY <3>1, <3>2
  <2> QED
    BY <2>1, <2>2
<1>2. IsFiniteSet(c.valid)
  BY <1>1, FS_Subset, HistorySyncAssumption DEF HistorySyncAssumption
<1> QED
  BY <1>1, <1>2, FS_CardinalityType

LEMMA BlankContents == Blank \in Contents
  BY DEF Contents

LEMMA FaultTypes ==
  ASSUME TypeOK, Fault \/ UNCHANGED budget
  PROVE  {faults', edits', saves', crashes'} \subseteq Nat
  BY DEF TypeOK, Fault, budget

LEMMA SavedTypes ==
  ASSUME TypeOK, NEW write \in Writes, Saved(write) \/ Lost(write)
  PROVE  /\ unsaved' \subseteq Writes
         /\ {faults', edits', saves', crashes'} \subseteq Nat
  BY FaultTypes DEF TypeOK, Saved, Lost

LEMMA InitType == Init => TypeOK
  BY BlankContents DEF Init, TypeOK, Status

\* The worker that synchronizes at startup has a sheet to read.
Started == pc = "initial" => historySyncer # NoSheet

LEMMA InitStarted == Init => Started
  BY DEF Init, Started

LEMMA StepStarted == Started /\ [Next]_vars => Started'
  BY DEF Started, Next, Worker, vars, memory, Configure, InitialSync, InitialFailed,
         SyncHistory, SyncNotDue, SyncFailed, RecordError, Publish, Record, Poll, Tick,
         Elapse, Crash, Restart, Save, Edit

LEMMA StepType == TypeOK /\ Started /\ [Next]_vars => TypeOK'
<1> SUFFICES ASSUME TypeOK, Started, [Next]_vars
             PROVE  TypeOK'
  OBVIOUS
<1> USE DEF memory, tables
<1>0. {"snapshot", "status"} \subseteq Writes
  BY DEF Writes
<1>1. CASE Configure
  <2>1. Environment \in Sheets \cup {NoSheet} /\ Choice \in Sheets \cup {NoSheet}
    <3>1. settings.sheet \in Sheets \cup {NoSheet}
      BY DEF TypeOK
    <3>2. Environment \in Sheets \cup {NoSheet}
      BY HistorySyncAssumption DEF Environment, HistorySyncAssumption
    <3> QED
      BY <3>1, <3>2 DEF Choice
  <2>2. historySyncer' \in Sheets \cup {NoSheet} /\ (Fault \/ UNCHANGED budget)
    BY <1>1, <2>1 DEF Configure
  <2>3. found' \subseteq [status : Status, published : SUBSET Sales]
    BY <1>1 DEF Configure, TypeOK
  <2> QED
    BY <1>1, <2>2, <2>3, FaultTypes DEF Configure, TypeOK
<1>2. CASE InitialSync
  <2>1. contents[historySyncer] \in Contents
    BY <1>2 DEF InitialSync, Started, TypeOK
  <2>2. prices' \subseteq Sales /\ (Fault \/ UNCHANGED budget)
    BY <1>2, <2>1, ContentsShape DEF InitialSync, TypeOK, Readable, Unreadable
  <2> QED
    BY <1>2, <2>2, FaultTypes DEF InitialSync, TypeOK
<1>3. CASE SyncHistory
  <2>1. contents[historySyncer] \in Contents
    BY <1>3 DEF SyncHistory, Due, TypeOK
  <2>2. /\ prices' \subseteq Sales
        /\ taken' \in Contents
        /\ Fault \/ UNCHANGED budget
    BY <1>3, <2>1, ContentsShape DEF SyncHistory, TypeOK, Readable, Unreadable
  <2> QED
    BY <1>3, <2>2, FaultTypes DEF SyncHistory, TypeOK
<1>4. CASE InitialFailed \/ SyncFailed
  <2>1. \E after \in {"run", "poll"} : RecordError(after)
    BY <1>4 DEF InitialFailed, SyncFailed
  <2>2. status' \in Status
    BY <2>1 DEF RecordError, TypeOK, Status
  <2>3. unsaved' \subseteq Writes /\ {faults', edits', saves', crashes'} \subseteq Nat
    BY <1>0, <2>1, SavedTypes DEF RecordError
  <2> QED
    BY <2>1, <2>2, <2>3 DEF RecordError, TypeOK
<1>5. CASE Publish
  <2>1. published' \subseteq Sales
    BY <1>5, ContentsShape DEF Publish, TypeOK
  <2>2. unsaved' \subseteq Writes /\ {faults', edits', saves', crashes'} \subseteq Nat
    BY <1>0, <1>5, SavedTypes DEF Publish
  <2> QED
    BY <1>5, <2>1, <2>2 DEF Publish, TypeOK
<1>6. CASE Record
  <2>1. status' \in Status
    <3>1. taken \in Contents
      BY DEF TypeOK
    <3>2. taken.invalid \in Nat /\ Cardinality(taken.valid) \in Nat
      BY <3>1, ContentsShape
    <3>3. CASE UNCHANGED status
      BY <3>3 DEF TypeOK
    <3>4. CASE status' = [error |-> FALSE, accepted |-> Cardinality(taken.valid),
                          rejected |-> taken.invalid]
      BY <3>2, <3>4 DEF Status
    <3> QED
      BY <1>6, <3>3, <3>4 DEF Record
  <2>2. unsaved' \subseteq Writes /\ {faults', edits', saves', crashes'} \subseteq Nat
    BY <1>0, <1>6, SavedTypes DEF Record
  <2> QED
    BY <1>6, <2>1, <2>2, BlankContents DEF Record, TypeOK
<1>7. CASE SyncNotDue \/ Poll \/ Tick \/ Elapse \/ Restart
  BY <1>7 DEF SyncNotDue, Poll, Tick, Elapse, Restart, budget, TypeOK
<1>8. CASE Crash
  BY <1>8, BlankContents DEF Crash, TypeOK
<1>9. ASSUME NEW s \in Sheets, NEW e \in BOOLEAN, Save(s, e)
      PROVE  TypeOK'
  BY <1>9 DEF Save, TypeOK
<1>10. ASSUME NEW s \in Sheets, NEW c \in Contents, Edit(s, c)
       PROVE  TypeOK'
  BY <1>10 DEF Edit, TypeOK
<1>11. CASE UNCHANGED vars
  BY <1>11 DEF vars, budget, TypeOK
<1> QED
  BY <1>1, <1>2, <1>3, <1>4, <1>5, <1>6, <1>7, <1>8, <1>9, <1>10, <1>11 DEF Next, Worker

\* Every variable keeps its type.
THEOREM TypeCorrect == Spec => []TypeOK
  BY InitType, StepType, InitStarted, StepStarted, PTL DEF Spec

-----------------------------------------------------------------------------
(* The three places.                                                       *)

\* A synchronization under way has a sheet and knows how it went; before the
\* first one nothing but another is possible, and after it the places agree.
\* A process without a sheet, or not configured yet, changed none of them.
PlacesInv ==
  /\ pc \in {"down", "boot"} => historySyncer = NoSheet
  /\ pc \in {"down", "boot", "initial", "initialFailed"} => lastSync = "never"
  /\ pc \in {"initial", "initialFailed", "failed", "publish", "record"}
       => historySyncer # NoSheet
  /\ pc = "failed" => outcome = "error"
  /\ pc \in {"publish", "record"} => outcome = "ok" /\ prices = taken.valid
  /\ (pc = "record" /\ "snapshot" \notin unsaved) => published = prices
  /\ (historySyncer # NoSheet /\ (pc \in {"poll", "idle"} \/ (pc = "run" /\ lastSync # "never")))
       => SheetPlacesAgree
  /\ pc \in {"down", "boot"} => prices = {} /\ outcome = "none"
  /\ (historySyncer = NoSheet /\ pc \notin {"down", "boot"}) => NoSheetPlacesStay

LEMMA InitPlaces == Init => PlacesInv
  BY DEF Init, PlacesInv

LEMMA StepPlaces == TypeOK /\ PlacesInv /\ [Next]_vars => PlacesInv'
<1> SUFFICES ASSUME TypeOK, PlacesInv, [Next]_vars
             PROVE  PlacesInv'
  OBVIOUS
<1> USE DEF memory, tables, PlacesInv, SheetPlacesAgree, NoSheetPlacesStay
<1>1. CASE Configure
  BY <1>1 DEF Configure
<1>2. CASE InitialSync
  BY <1>2 DEF InitialSync
<1>3. CASE SyncHistory
  <2> DEFINE sheet == contents[historySyncer]
  <2>1. /\ pc = "run" /\ lastSync' = "recent"
        /\ historySyncer # NoSheet /\ UNCHANGED <<historySyncer, tables>>
        /\ \/ pc' = "publish" /\ outcome' = "ok" /\ prices' = sheet.valid /\ taken' = sheet
           \/ pc' = "failed" /\ outcome' = "error"
    BY <1>3 DEF SyncHistory, Due
  <2> QED
    BY <2>1
<1>4. CASE InitialFailed
  BY <1>4 DEF InitialFailed, RecordError
<1>5. CASE SyncFailed
  <2>1. /\ pc = "failed" /\ pc' = "poll"
        /\ UNCHANGED <<memory, published>>
        /\ historySyncer # NoSheet /\ outcome = "error"
    BY <1>5 DEF SyncFailed, RecordError
  <2>2. "status" \notin unsaved' => status'.error
    <3>1. CASE Saved("status") /\ status' = [status EXCEPT !.error = TRUE]
      <4>1. status'.error = TRUE
        BY <3>1 DEF TypeOK, Status
      <4> QED
        BY <4>1, Zenon
    <3>2. CASE Lost("status")
      BY <3>2 DEF Lost
    <3> QED
      BY <1>5, <3>1, <3>2, Zenon DEF SyncFailed, RecordError
  <2>3. SheetPlacesAgree'
    BY <2>1, <2>2
  <2> QED
    BY <2>1, <2>3
<1>6. CASE Publish
  BY <1>6 DEF Publish, Saved, Lost
<1>7. CASE Record
  BY <1>7 DEF Record, Saved, Lost, TypeOK
<1>8. CASE SyncNotDue
  BY <1>8 DEF SyncNotDue, Due
<1>9. CASE Poll \/ Tick \/ Elapse \/ Restart
  BY <1>9 DEF Poll, Tick, Elapse, Restart
<1>10. CASE Crash
  BY <1>10 DEF Crash
<1>11. ASSUME NEW s \in Sheets, NEW e \in BOOLEAN, Save(s, e)
       PROVE  PlacesInv'
  BY <1>11 DEF Save
<1>12. ASSUME NEW s \in Sheets, NEW c \in Contents, Edit(s, c)
       PROVE  PlacesInv'
  BY <1>12 DEF Edit
<1>13. CASE UNCHANGED vars
  BY <1>13 DEF vars
<1> QED
  BY <1>1, <1>2, <1>3, <1>4, <1>5, <1>6, <1>7, <1>8, <1>9, <1>10, <1>11, <1>12, <1>13
  DEF Next, Worker

\* With a sheet, the prices in memory, the newest snapshot and the status on
\* the page agree when listings are evaluated, unless a write failed; without
\* one, page and snapshot are what the last process left, in whatever order
\* edits, saves, failures and crashes come.
THEOREM PlacesAlwaysAgree == Spec => []PlacesAgree
<1>1. PlacesInv => PlacesAgree
  BY DEF PlacesInv, PlacesAgree
<1> QED
  BY <1>1, TypeCorrect, InitPlaces, StepPlaces, PTL DEF Spec

\* While the process lives, prices change only to those of a readable sheet.
THEOREM LastGoodIsRetained == Spec => LastGoodRetained
<1> DEFINE Kept == prices' # prices =>
                     \/ pc' = "down"
                     \/ /\ contents[historySyncer].header
                        /\ prices' = contents[historySyncer].valid
<1>1. [Next]_vars => [Kept]_vars
  <2> SUFFICES ASSUME Next
               PROVE  Kept
    OBVIOUS
  <2> USE DEF memory
  <2>1. CASE InitialSync \/ SyncHistory
    BY <2>1 DEF InitialSync, SyncHistory, Readable
  <2>2. CASE Crash
    BY <2>2 DEF Crash
  <2>3. CASE UNCHANGED prices
    BY <2>3
  <2> QED
    BY <2>1, <2>2, <2>3
    DEF Next, Worker, Configure, InitialFailed, SyncFailed, RecordError, Publish, Record,
        SyncNotDue, Poll, Tick, Elapse, Restart, Save, Edit
<1> QED
  BY <1>1, PTL DEF Spec, LastGoodRetained

=============================================================================
