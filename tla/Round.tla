------------------------------- MODULE Round -------------------------------
(***************************************************************************)
(* What a poll promises, without goroutines, slots or locks.  When it      *)
(* returns, every search that was to run has found some listings or has    *)
(* failed, and is left out only after a stop.  The batch is all the        *)
(* searches found and nothing else, an error is returned exactly if one    *)
(* failed, and both stay as they are while the batch is delivered.         *)
(***************************************************************************)
CONSTANTS
  Searches,
  Items,
  NoSearch,   \* no error
  Results     \* Results[s]: listings s may find

VARIABLES
  phase,      \* "idle", "running", "returned"
  stopping,   \* a stop was asked for
  searches,   \* the searches of this poll
  outcome,    \* outcome[s]: what became of s, once the poll returned
  batch,      \* batch[i]: the searches that found i
  error       \* the search whose error is returned

vars == <<phase, stopping, searches, outcome, batch, error>>

Outcome == [how : {"none", "skipped", "failed", "found"}, items : SUBSET Items]
None    == [how |-> "none", items |-> {}]

NoReport ==
  /\ outcome = [s \in Searches |-> None]
  /\ batch = [i \in Items |-> {}]
  /\ error = NoSearch

Init ==
  /\ phase = "idle"
  /\ stopping = FALSE
  /\ searches = {}
  /\ NoReport

Begin ==
  /\ phase = "idle"
  /\ ~stopping
  /\ phase' = "running"
  /\ searches' \in SUBSET Searches \ {{}}
  /\ UNCHANGED <<stopping, outcome, batch, error>>

\* The whole poll, in one step.
Complete ==
  /\ phase = "running"
  /\ phase' = "returned"
  /\ outcome' \in [Searches -> Outcome]
  /\ \A s \in Searches :
       /\ outcome'[s].how = "none" <=> s \notin searches
       /\ outcome'[s].how = "skipped" => stopping
       /\ outcome'[s].items \subseteq Results[s]
       /\ outcome'[s].how # "found" => outcome'[s].items = {}
  /\ batch' = [i \in Items |-> {s \in Searches : i \in outcome'[s].items}]
  /\ LET failed == {s \in Searches : outcome'[s].how = "failed"}
     IN error' \in IF failed = {} THEN {NoSearch} ELSE failed
  /\ UNCHANGED <<stopping, searches>>

\* The batch has been delivered.
Hand ==
  /\ phase = "returned"
  /\ phase' = "idle"
  /\ NoReport'
  /\ UNCHANGED <<stopping, searches>>

Stop ==
  /\ ~stopping
  /\ stopping' = TRUE
  /\ UNCHANGED <<phase, searches, outcome, batch, error>>

Next == Begin \/ Complete \/ Hand \/ Stop

Spec == Init /\ [][Next]_vars

=============================================================================
