-------------------------- MODULE DiscoveryProofs --------------------------
(***************************************************************************)
(* Proofs about Discovery, for any set of searches and listings and any    *)
(* concurrency: types and slots, the attribution of listings, the report   *)
(* of errors and health, and the implementation of Round.                  *)
(***************************************************************************)
EXTENDS Discovery, FiniteSetTheorems, TLAPS

-----------------------------------------------------------------------------
(* Where a goroutine may stand, and what that says of its search.          *)

States == Working \cup {"none", "waiting", "done", "skipped"}

FieldTypes ==
  /\ phase \in {"idle", "running", "returned"}
  /\ stopping \in BOOLEAN
  /\ searches \subseteq Searches
  /\ at \in [Searches -> States]
  /\ found \in [Searches -> SUBSET Items]
  /\ failed \subseteq Searches
  /\ firstErr \in Searches \cup {NoSearch}
  /\ searchIDs \in [Items -> SUBSET Searches]
  /\ foundBy \in [Items -> Seq(Range(Name))]
  /\ health \in [Searches -> {"never", "ok", "error"}]
  /\ recorded \subseteq Searches

\* Goroutines exist for the searches of the poll, and outlive no poll.
Lifetime ==
  /\ \A s \in Searches : at[s] = "none" <=> s \notin searches
  /\ phase # "running" => \A s \in searches : at[s] \in {"done", "skipped"}
  /\ \A s \in Searches : at[s] = "skipped" => stopping

\* A search has found or failed only once it has run, and never both.
Fates ==
  \A s \in Searches :
    /\ found[s] \subseteq Results[s]
    /\ at[s] \in {"none", "waiting", "skipped", "searching"} => found[s] = {} /\ s \notin failed
    /\ s \in failed => found[s] = {} /\ at[s] # "adding"
    /\ at[s] = "reporting" => s \in failed

Shape == FieldTypes /\ Lifetime /\ Fates

LEMMA InitShape == Init => Shape
<1> SUFFICES ASSUME Init
             PROVE  Shape
  OBVIOUS
<1>1. foundBy \in [Items -> Seq(Range(Name))]
  <2>1. <<>> \in Seq(Range(Name))
    OBVIOUS
  <2> QED
    BY <2>1 DEF Init
<1>2. FieldTypes
  BY <1>1 DEF Init, FieldTypes, States
<1>3. Lifetime
  BY DEF Init, Lifetime
<1>4. Fates
  BY DiscoveryAssumption DEF Init, Fates, DiscoveryAssumption
<1> QED
  BY <1>2, <1>3, <1>4 DEF Shape

LEMMA StepShape == Shape /\ [Next]_vars => Shape'
<1> SUFFICES ASSUME Shape, [Next]_vars
             PROVE  Shape'
  OBVIOUS
<1> USE DiscoveryAssumption DEF Shape, FieldTypes, Lifetime, Fates, States, Working, Goto
<1>1. CASE Start
  BY <1>1 DEF Start, DiscoveryAssumption
<1>2. CASE Return
  BY <1>2 DEF Return
<1>3. CASE Deliver
  BY <1>3 DEF Deliver
<1>4. CASE Stop
  BY <1>4 DEF Stop
<1>5. ASSUME NEW s \in Searches, Acquire(s)
      PROVE  Shape'
  BY <1>5 DEF Acquire
<1>6. ASSUME NEW s \in Searches, Skip(s)
      PROVE  Shape'
  BY <1>6 DEF Skip
<1>7. ASSUME NEW s \in Searches, Search(s)
      PROVE  Shape'
  BY <1>7 DEF Search, DiscoveryAssumption
<1>8. ASSUME NEW s \in Searches, Record(s)
      PROVE  Shape'
  BY <1>8 DEF Record
<1>9. ASSUME NEW s \in Searches, Add(s)
      PROVE  Shape'
  BY <1>9 DEF Add
<1>10. ASSUME NEW s \in Searches, Report(s)
       PROVE  Shape'
  BY <1>10 DEF Report
<1>11. ASSUME NEW s \in Searches, Finish(s)
       PROVE  Shape'
  BY <1>11 DEF Finish
<1>12. CASE UNCHANGED vars
  BY <1>12 DEF vars
<1> QED
  BY <1>1, <1>2, <1>3, <1>4, <1>5, <1>6, <1>7, <1>8, <1>9, <1>10, <1>11, <1>12
  DEF Next, Goroutine

LEMMA AlwaysShape == Spec => []Shape
  BY InitShape, StepShape, PTL DEF Spec

-----------------------------------------------------------------------------
(* The semaphore: its length is the number of goroutines at work.          *)

Active == {s \in Searches : at[s] \in Working}

Slots ==
  /\ IsFiniteSet(Active)
  /\ slots = Cardinality(Active)
  /\ slots <= limit

LEMMA LimitType == limit \in Nat
  BY DiscoveryAssumption DEF limit, DiscoveryAssumption

LEMMA InitSlots == Init => Slots
<1> SUFFICES ASSUME Init
             PROVE  Slots
  OBVIOUS
<1>1. Active = {}
  BY DEF Init, Active, Working
<1> QED
  BY <1>1, FS_EmptySet, LimitType DEF Init, Slots

LEMMA StepSlots == Shape /\ Slots /\ [Next]_vars => Slots'
<1> SUFFICES ASSUME Shape, Slots, [Next]_vars
             PROVE  Slots'
  OBVIOUS
<1> USE DEF Shape, FieldTypes
<1>0. limit \in Nat /\ limit' = limit /\ slots \in Nat
  BY LimitType, FS_CardinalityType DEF Slots, limit
<1>1. CASE Start
  <2>1. Active' = {}
    BY <1>1 DEF Start, Active, Working
  <2>2. slots' = 0
    BY <1>1 DEF Start
  <2> QED
    BY <1>0, <2>1, <2>2, FS_EmptySet DEF Slots
<1>2. CASE UNCHANGED <<at, slots>>
  <2>1. Active' = Active
    BY <1>2 DEF Active
  <2> QED
    BY <1>0, <1>2, <2>1 DEF Slots
<1>3. ASSUME NEW s \in Searches, Acquire(s)
      PROVE  Slots'
  <2>1. s \notin Active /\ Active' = Active \cup {s}
    BY <1>3 DEF Acquire, Active, Goto, Working
  <2>2. IsFiniteSet(Active') /\ Cardinality(Active') = Cardinality(Active) + 1
    BY <2>1, FS_AddElement DEF Slots
  <2>3. slots' = slots + 1 /\ slots < limit
    BY <1>3 DEF Acquire
  <2> QED
    BY <1>0, <2>2, <2>3 DEF Slots
<1>4. ASSUME NEW s \in Searches, Finish(s)
      PROVE  Slots'
  <2>1. s \in Active /\ Active' = Active \ {s}
    BY <1>4 DEF Finish, Active, Goto, Working
  <2>2. IsFiniteSet(Active') /\ Cardinality(Active') = Cardinality(Active) - 1
    BY <2>1, FS_RemoveElement DEF Slots
  <2>3. slots' = slots - 1
    BY <1>4 DEF Finish
  <2> QED
    BY <1>0, <2>2, <2>3 DEF Slots
<1>5. ASSUME NEW s \in Searches,
             Skip(s) \/ Search(s) \/ Record(s) \/ Add(s) \/ Report(s)
      PROVE  Slots'
  <2>1. Active' = Active /\ slots' = slots
    BY <1>5 DEF Skip, Search, Record, Add, Report, Active, Goto, Working
  <2> QED
    BY <1>0, <2>1 DEF Slots
<1> QED
  BY <1>1, <1>2, <1>3, <1>4, <1>5 DEF Next, Goroutine, Return, Deliver, Stop, vars

LEMMA AlwaysSlots == Spec => []Slots
  BY InitShape, StepShape, InitSlots, StepSlots, PTL DEF Spec

\* Every variable keeps its type; in particular no more than `limit` slots
\* are ever taken, and none is given back that was not taken.
THEOREM TypeCorrect == Spec => []TypeOK
<1>1. Shape /\ Slots => TypeOK
  BY LimitType, FS_CardinalityType
  DEF Shape, FieldTypes, Slots, TypeOK, States
<1> QED
  BY <1>1, AlwaysShape, AlwaysSlots, PTL

\* The semaphore counts exactly the searches at work, on every path through
\* a goroutine and for any concurrency.
THEOREM NoSlotLost == Spec => []BoundedConcurrency
<1>1. Slots => BoundedConcurrency
  BY DEF Slots, Active, BoundedConcurrency
<1> QED
  BY <1>1, AlwaysSlots, PTL

\* As long as a goroutine of RunOnce is not over, some goroutine can take its
\* next step: the semaphore keeps out no search for good.
THEOREM NoDeadlock == Spec => []NeverStuck
<1>1. Shape /\ Slots => NeverStuck
  <2> SUFFICES ASSUME Shape, Slots, NEW s \in searches, at[s] \notin {"done", "skipped"},
                      \A t \in searches : at[t] \notin Working
               PROVE  at[s] = "waiting" /\ slots < limit
    BY DEF NeverStuck
  <2>1. \A t \in Searches : t \notin searches => at[t] \notin Working
    BY DEF Shape, Lifetime, Working
  <2>2. Active = {}
    BY <2>1 DEF Active
  <2>3. slots = 0
    BY <2>2, FS_EmptySet DEF Slots
  <2>4. limit > 0
    BY DiscoveryAssumption DEF limit, DiscoveryAssumption
  <2>5. s \in Searches /\ at[s] \in States /\ at[s] # "none"
    BY DEF Shape, FieldTypes, Lifetime
  <2>6. at[s] = "waiting"
    BY <2>5 DEF States
  <2> QED
    BY <2>3, <2>4, <2>6
<1> QED
  BY <1>1, AlwaysShape, AlwaysSlots, PTL

-----------------------------------------------------------------------------
(* The batch.                                                              *)

LEMMA InitAttribution == Init => Attribution
  BY DEF Init, Attribution

LEMMA StepAttribution == Shape /\ Attribution /\ [Next]_vars => Attribution'
<1> SUFFICES ASSUME Shape, Attribution, [Next]_vars
             PROVE  Attribution'
  OBVIOUS
<1> USE DEF Shape, FieldTypes, Lifetime, Fates, States, Working, Goto, Attribution
<1>1. CASE Start
  BY <1>1 DEF Start
<1>2. CASE Return \/ Deliver \/ Stop \/ UNCHANGED vars
  BY <1>2 DEF Return, Deliver, Stop, vars
<1>3. ASSUME NEW s \in Searches, Acquire(s) \/ Skip(s) \/ Record(s)
      PROVE  Attribution'
  BY <1>3 DEF Acquire, Skip, Record
<1>4. ASSUME NEW s \in Searches, Search(s)
      PROVE  Attribution'
  BY <1>4 DEF Search
<1>5. ASSUME NEW s \in Searches, Add(s)
      PROVE  Attribution'
  BY <1>5 DEF Add
<1>6. ASSUME NEW s \in Searches, Report(s) \/ Finish(s)
      PROVE  Attribution'
  BY <1>6 DEF Report, Finish
<1> QED
  BY <1>1, <1>2, <1>3, <1>4, <1>5, <1>6 DEF Next, Goroutine

\* The batch attributes a listing to exactly the searches that found it,
\* whatever the interleaving.
THEOREM AttributionIsExact == Spec => []Attribution
  BY InitShape, StepShape, InitAttribution, StepAttribution, PTL DEF Spec

\* A name appended to names that lack it.
LEMMA AppendName ==
  ASSUME NEW N, NEW names \in Seq(N), NEW n \in N, n \notin ToSet(names),
         \A j, k \in DOMAIN names : names[j] = names[k] => j = k
  PROVE  /\ ToSet(Append(names, n)) = ToSet(names) \cup {n}
         /\ \A j, k \in DOMAIN Append(names, n) :
              Append(names, n)[j] = Append(names, n)[k] => j = k
<1>1. /\ DOMAIN names = 1..Len(names)
      /\ DOMAIN Append(names, n) = 1..Len(names) + 1
      /\ \A j \in 1..Len(names) : Append(names, n)[j] = names[j]
      /\ Append(names, n)[Len(names) + 1] = n
      /\ Len(names) \in Nat
  OBVIOUS
<1>2. \A j \in 1..Len(names) : names[j] # n
  BY <1>1 DEF ToSet
<1>3. \A j \in 1..Len(names) + 1 : j \in 1..Len(names) \/ j = Len(names) + 1
  BY <1>1
<1>4. ToSet(Append(names, n)) = ToSet(names) \cup {n}
  BY <1>1, <1>3 DEF ToSet
<1> QED
  BY <1>1, <1>2, <1>3, <1>4

LEMMA InitNames == Init => FoundByNames
<1> SUFFICES ASSUME Init, NEW i \in Items
             PROVE  /\ ToSet(foundBy[i]) = {Name[s] : s \in searchIDs[i]}
                    /\ \A m, n \in DOMAIN foundBy[i] : foundBy[i][m] = foundBy[i][n] => m = n
  BY DEF FoundByNames
<1>1. foundBy[i] = <<>> /\ searchIDs[i] = {}
  BY DEF Init
<1>2. DOMAIN foundBy[i] = {}
  BY <1>1
<1> QED
  BY <1>1, <1>2 DEF ToSet

LEMMA StepNames == Shape /\ Attribution /\ FoundByNames /\ [Next]_vars => FoundByNames'
<1> SUFFICES ASSUME Shape, Attribution, FoundByNames, [Next]_vars
             PROVE  FoundByNames'
  OBVIOUS
<1>1. CASE Start
  <2> SUFFICES ASSUME NEW i \in Items
               PROVE  /\ ToSet(foundBy'[i]) = {Name[s] : s \in searchIDs'[i]}
                      /\ \A m, n \in DOMAIN foundBy'[i] :
                           foundBy'[i][m] = foundBy'[i][n] => m = n
    BY DEF FoundByNames
  <2>1. foundBy'[i] = <<>> /\ searchIDs'[i] = {}
    BY <1>1 DEF Start
  <2>2. DOMAIN foundBy'[i] = {}
    BY <2>1
  <2> QED
    BY <2>1, <2>2 DEF ToSet
<1>2. CASE UNCHANGED <<searchIDs, foundBy>>
  BY <1>2 DEF FoundByNames
<1>3. ASSUME NEW s \in Searches, Add(s)
      PROVE  FoundByNames'
  <2> SUFFICES ASSUME NEW i \in Items
               PROVE  /\ ToSet(foundBy'[i]) = {Name[t] : t \in searchIDs'[i]}
                      /\ \A m, n \in DOMAIN foundBy'[i] :
                           foundBy'[i][m] = foundBy'[i][n] => m = n
    BY DEF FoundByNames
  <2>1. /\ searchIDs[i] \subseteq Searches
        /\ s \notin searchIDs[i]
        /\ foundBy[i] \in Seq(Range(Name))
        /\ Name[s] \in Range(Name)
    BY <1>3, DiscoveryAssumption
    DEF Add, Shape, FieldTypes, Attribution, DiscoveryAssumption, Range
  <2>2. /\ ToSet(foundBy[i]) = {Name[t] : t \in searchIDs[i]}
        /\ \A m, n \in DOMAIN foundBy[i] : foundBy[i][m] = foundBy[i][n] => m = n
    BY DEF FoundByNames
  <2>3. Name[s] \notin ToSet(foundBy[i])
    BY <2>1, <2>2, DiscoveryAssumption DEF DiscoveryAssumption
  <2>4. CASE i \in found[s]
    <3>1. foundBy[i] = <<>> \/ Last(foundBy[i]) # Name[s]
      <4> SUFFICES ASSUME foundBy[i] # <<>>
                   PROVE  Last(foundBy[i]) # Name[s]
        OBVIOUS
      <4>1. Len(foundBy[i]) \in DOMAIN foundBy[i]
        BY <2>1
      <4> QED
        BY <2>3, <4>1 DEF Last, ToSet
    <3>2. /\ foundBy'[i] = Append(foundBy[i], Name[s])
          /\ searchIDs'[i] = searchIDs[i] \cup {s}
      BY <1>3, <2>1, <2>4, <3>1 DEF Add
    <3>3. {Name[t] : t \in searchIDs'[i]} = {Name[t] : t \in searchIDs[i]} \cup {Name[s]}
      BY <3>2
    <3> QED
      BY <2>1, <2>2, <2>3, <3>2, <3>3, AppendName
  <2>5. CASE i \notin found[s]
    BY <1>3, <2>2, <2>5 DEF Add
  <2> QED
    BY <2>4, <2>5
<1> QED
  BY <1>1, <1>2, <1>3
  DEF Next, Goroutine, Return, Deliver, Stop, Acquire, Skip, Search, Record, Report,
      Finish, vars

\* The names on a listing are the names of those searches, each once, since
\* names are unique within a poll.
THEOREM NamesAreExact == Spec => []FoundByNames
  BY InitShape, StepShape, InitAttribution, StepAttribution, InitNames, StepNames, PTL
  DEF Spec

-----------------------------------------------------------------------------
(* Errors and health.                                                      *)

\* The search RunOnce will blame has failed, and nobody is left to blame
\* once every failure has been reported.
Blame ==
  /\ firstErr # NoSearch => firstErr \in failed
  /\ \A s \in failed : at[s] \in {"finishing", "done"} => firstErr # NoSearch

\* A recorded attempt is over, and its outcome stands.
Health ==
  \A s \in recorded :
    /\ at[s] \in {"adding", "reporting", "finishing", "done"}
    /\ health[s] = IF s \in failed THEN "error" ELSE "ok"

LEMMA InitReports == Init => Blame /\ Health
  BY DEF Init, Blame, Health

LEMMA StepBlame == Shape /\ Blame /\ [Next]_vars => Blame'
<1> SUFFICES ASSUME Shape, Blame, [Next]_vars
             PROVE  Blame'
  OBVIOUS
<1> USE DiscoveryAssumption
    DEF Shape, FieldTypes, Lifetime, Fates, States, Working, Goto, Blame, DiscoveryAssumption
<1>1. CASE Start
  BY <1>1 DEF Start
<1>2. CASE Return \/ Deliver \/ Stop \/ UNCHANGED vars
  BY <1>2 DEF Return, Deliver, Stop, vars
<1>3. ASSUME NEW s \in Searches, Acquire(s) \/ Skip(s) \/ Record(s) \/ Finish(s)
      PROVE  Blame'
  BY <1>3 DEF Acquire, Skip, Record, Finish
<1>4. ASSUME NEW s \in Searches, Search(s)
      PROVE  Blame'
  BY <1>4 DEF Search
<1>5. ASSUME NEW s \in Searches, Add(s)
      PROVE  Blame'
  BY <1>5 DEF Add
<1>6. ASSUME NEW s \in Searches, Report(s)
      PROVE  Blame'
  BY <1>6 DEF Report
<1> QED
  BY <1>1, <1>2, <1>3, <1>4, <1>5, <1>6 DEF Next, Goroutine

LEMMA StepHealth == Shape /\ Health /\ [Next]_vars => Health'
<1> SUFFICES ASSUME Shape, Health, [Next]_vars
             PROVE  Health'
  OBVIOUS
<1> USE DEF Shape, FieldTypes, Lifetime, Fates, States, Working, Goto, Health
<1>1. CASE Start
  BY <1>1 DEF Start
<1>2. CASE Return \/ Deliver \/ Stop \/ UNCHANGED vars
  BY <1>2 DEF Return, Deliver, Stop, vars
<1>3. ASSUME NEW s \in Searches, Acquire(s) \/ Skip(s) \/ Add(s) \/ Report(s) \/ Finish(s)
      PROVE  Health'
  BY <1>3 DEF Acquire, Skip, Add, Report, Finish
<1>4. ASSUME NEW s \in Searches, Search(s)
      PROVE  Health'
  BY <1>4 DEF Search
<1>5. ASSUME NEW s \in Searches, Record(s)
      PROVE  Health'
  BY <1>5 DEF Record
<1> QED
  BY <1>1, <1>2, <1>3, <1>4, <1>5 DEF Next, Goroutine

LEMMA AlwaysReports == Spec => [](Shape /\ Blame /\ Health)
  BY InitShape, StepShape, InitReports, StepBlame, StepHealth, PTL DEF Spec

\* RunOnce returns an error exactly when a search failed, the error of one
\* that did.
THEOREM ErrorsAreReported == Spec => []ErrorReported
<1>1. Shape /\ Blame => ErrorReported
  BY DEF Shape, FieldTypes, Lifetime, Fates, Blame, ErrorReported
<1> QED
  BY <1>1, AlwaysReports, PTL

\* A recorded attempt tells the outcome of this poll's search.
THEOREM HealthIsTrue == Spec => []HealthIsOutcome
<1>1. Health => HealthIsOutcome
  BY DEF Health, HealthIsOutcome
<1> QED
  BY <1>1, AlwaysReports, PTL

\* The batch is quiescent and complete when the worker reads it.
THEOREM BatchIsComplete == Spec => []CompleteBatch
<1>1. Shape /\ Slots /\ Attribution => CompleteBatch
  <2> SUFFICES ASSUME Shape, Slots, Attribution, phase = "returned"
               PROVE  /\ slots = 0
                      /\ \A s \in searches \ failed :
                           at[s] = "done" \/ (stopping /\ at[s] = "skipped")
                      /\ \A s \in searches \ failed : \A i \in found[s] : s \in searchIDs[i]
    BY DEF CompleteBatch
  <2> USE DEF Shape, FieldTypes, Lifetime, Fates
  <2>1. Active = {}
    BY DEF Active, Working
  <2>2. slots = 0
    BY <2>1, FS_EmptySet DEF Slots
  <2>3. \A s \in searches : at[s] = "done" \/ (stopping /\ at[s] = "skipped")
    OBVIOUS
  <2>4. \A s \in searches \ failed : \A i \in found[s] : s \in searchIDs[i]
    BY <2>3 DEF Attribution
  <2> QED
    BY <2>2, <2>3, <2>4
<1> QED
  BY <1>1, AlwaysShape, AlwaysSlots, AttributionIsExact, PTL

-----------------------------------------------------------------------------
(* Discovery implements Round.                                             *)

RoundInv == Shape /\ Attribution /\ Blame

LEMMA RoundInit == Init => OneStep!Init
  BY DEF Init, OneStep!Init, OneStep!NoReport, OneStep!None

\* A step that leaves these alone before the return is none of Round's.
LEMMA RoundStutter ==
  ASSUME UNCHANGED <<phase, stopping, searches>>, phase # "returned"
  PROVE  UNCHANGED OneStep!vars
  BY DEF OneStep!vars

\* Goroutines run only while RunOnce does.
LEMMA GoroutineRuns ==
  ASSUME Shape, NEW s \in Searches, Goroutine(s)
  PROVE  phase = "running" /\ UNCHANGED <<phase, stopping, searches>>
<1> USE DEF Shape, FieldTypes, Lifetime, Goroutine
<1>1. at[s] \notin {"none", "done", "skipped"}
  BY DEF Acquire, Skip, Search, Record, Add, Report, Finish
<1>2. phase = "running"
  BY <1>1
<1> QED
  BY <1>2 DEF Acquire, Skip, Search, Record, Add, Report, Finish

\* wait.Wait returning is the one step in which Round's poll happens.
LEMMA ReturnCompletes == RoundInv /\ Return => OneStep!Complete
<1> SUFFICES ASSUME RoundInv, Return
             PROVE  OneStep!Complete
  OBVIOUS
<1> DEFINE result == [s \in Searches |-> Outcome(s)]
           finders(i) == {s \in Searches : i \in result[s].items}
<1>1. /\ phase = "running" /\ phase' = "returned"
      /\ UNCHANGED <<stopping, searches, at, found, failed, firstErr, searchIDs>>
      /\ \A s \in searches : at[s] \in {"done", "skipped"}
  BY DEF Return
<1>2. \A s \in Searches : Outcome(s)' = Outcome(s)
  BY <1>1 DEF Outcome
<1>3. \A s \in Searches :
        /\ Outcome(s) \in OneStep!Outcome
        /\ Outcome(s).how = "none" <=> s \notin searches
        /\ Outcome(s).how = "skipped" => stopping
        /\ Outcome(s).items \subseteq Results[s]
        /\ Outcome(s).how # "found" => Outcome(s).items = {}
        /\ Outcome(s).how = "failed" <=> s \in failed
        /\ Outcome(s).items = IF s \in searches THEN found[s] ELSE {}
  BY <1>1
  DEF Outcome, OneStep!Outcome, RoundInv, Shape, FieldTypes, Lifetime, Fates
<1>4. searchIDs = [i \in Items |-> finders(i)]
  <2>1. \A i \in Items : searchIDs[i] = finders(i)
    BY <1>1, <1>3 DEF RoundInv, Shape, FieldTypes, Lifetime, Fates, Attribution
  <2>2. searchIDs \in [Items -> SUBSET Searches]
    BY DEF RoundInv, Shape, FieldTypes
  <2> HIDE DEF finders
  <2> QED
    BY <2>1, <2>2
<1>5. {s \in Searches : result[s].how = "failed"} = failed
  BY <1>3 DEF RoundInv, Shape, FieldTypes
<1>6. firstErr \in IF failed = {} THEN {NoSearch} ELSE failed
  BY <1>1 DEF Blame, RoundInv, Shape, FieldTypes, Lifetime, Fates
<1>7. result \in [Searches -> OneStep!Outcome]
  BY <1>3
<1>8. /\ (IF phase' = "returned" THEN [s \in Searches |-> Outcome(s)']
          ELSE [s \in Searches |-> [how |-> "none", items |-> {}]]) = result
      /\ (IF phase' = "returned" THEN searchIDs' ELSE [i \in Items |-> {}]) = searchIDs
      /\ (IF phase' = "returned" THEN firstErr' ELSE NoSearch) = firstErr
  BY <1>1, <1>2
<1>9. \A s \in Searches :
        /\ result[s].how = "none" <=> s \notin searches
        /\ result[s].how = "skipped" => stopping
        /\ result[s].items \subseteq Results[s]
        /\ result[s].how # "found" => result[s].items = {}
  BY <1>3
<1> HIDE DEF result
<1> QED
  BY <1>1, <1>4, <1>5, <1>6, <1>7, <1>8, <1>9 DEF OneStep!Complete

LEMMA RoundStep == RoundInv /\ [Next]_vars => [OneStep!Next]_(OneStep!vars)
<1> SUFFICES ASSUME RoundInv, [Next]_vars
             PROVE  OneStep!Next \/ UNCHANGED OneStep!vars
  OBVIOUS
<1>1. CASE Start
  <2>1. OneStep!Begin
    BY <1>1 DEF Start, OneStep!Begin
  <2> QED
    BY <2>1 DEF OneStep!Next
<1>2. CASE Return
  BY <1>2, ReturnCompletes DEF OneStep!Next
<1>3. CASE Deliver
  <2>1. OneStep!Hand
    BY <1>3 DEF Deliver, OneStep!Hand, OneStep!NoReport, OneStep!None
  <2> QED
    BY <2>1 DEF OneStep!Next
<1>4. CASE Stop
  <2>1. \A s \in Searches : Outcome(s)' = Outcome(s)
    BY <1>4 DEF Stop, Outcome
  <2>2. OneStep!Stop
    BY <1>4, <2>1 DEF Stop, OneStep!Stop
  <2> QED
    BY <2>2 DEF OneStep!Next
<1>5. ASSUME NEW s \in Searches, Goroutine(s)
      PROVE  UNCHANGED OneStep!vars
  BY <1>5, GoroutineRuns, RoundStutter DEF RoundInv
<1>6. CASE UNCHANGED vars
  <2>1. \A s \in Searches : Outcome(s)' = Outcome(s)
    BY <1>6 DEF vars, Outcome
  <2> QED
    BY <1>6, <2>1 DEF vars, OneStep!vars
<1> QED
  BY <1>1, <1>2, <1>3, <1>4, <1>5, <1>6 DEF Next

\* Goroutines, slots and locks amount to a poll in one step: every search is
\* accounted for, the batch is all they found, an error is never swallowed.
THEOREM ImplementsRound == Spec => RoundSpec
<1>1. Spec => []RoundInv
  BY InitShape, StepShape, InitAttribution, StepAttribution, InitReports, StepBlame, PTL
  DEF Spec, RoundInv
<1> QED
  BY <1>1, RoundInit, RoundStep, PTL DEF Spec, RoundSpec, OneStep!Spec

=============================================================================
