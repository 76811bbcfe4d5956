----------------------------- MODULE Discovery -----------------------------
(***************************************************************************)
(* One poll of the enabled searches: scheduler.RunOnce with the worker's   *)
(* callback, which searches Vinted, records the attempt in PostgreSQL and  *)
(* adds what it found to the discovery.Batch all searches share.           *)
(*                                                                         *)
(* Every search is a goroutine that waits for one of `limit` slots of the  *)
(* semaphore channel, or for ctx.Done.  RunOnce returns when all of them   *)
(* have finished; the worker then reads the batch and delivers it (module  *)
(* Delivery).                                                              *)
(***************************************************************************)
EXTENDS Integers, FiniteSets, Functions, SequencesExt

CONSTANTS
  Searches,     \* IDs of the searches in PostgreSQL
  Items,        \* listings, by platform and external ID
  NoSearch,     \* firstErr is nil
  Results,      \* Results[s]: listings Vinted may return for s
  Name,         \* Name[s]: the name of s, UNIQUE in the snapshot of a poll
  Concurrency   \* SEARCH_CONCURRENCY as RunOnce receives it

ASSUME DiscoveryAssumption ==
  /\ NoSearch \notin Searches
  /\ Results \in [Searches -> SUBSET Items]
  /\ Name \in [Searches -> Range(Name)]
  /\ \A s, t \in Searches : Name[s] = Name[t] => s = t
  /\ Concurrency \in Int

\* RunOnce raises a concurrency below 1 to 1.
limit == IF Concurrency < 1 THEN 1 ELSE Concurrency

VARIABLES
  phase,      \* what the worker's main goroutine does
  stopping,   \* ctx is cancelled
  searches,   \* the enabled searches ListSearches returned
  at,         \* at[s]: where the goroutine of s stands
  slots,      \* len(sem)
  found,      \* found[s]: items its search returned, empty on error
  failed,     \* searches whose callback returned an error
  firstErr,   \* the search RunOnce blames
  searchIDs,  \* searchIDs[i]: the batch's attribution of i
  foundBy,    \* foundBy[i]: the names on i's item, in order
  health,     \* health[s]: what the searches table says of the last attempt
  recorded    \* searches whose attempt PostgreSQL recorded this time

vars == <<phase, stopping, searches, at, slots, found, failed, firstErr,
          searchIDs, foundBy, health, recorded>>

Working == {"searching", "recording", "adding", "reporting", "finishing"}

TypeOK ==
  /\ phase \in {"idle", "running", "returned"}
  /\ stopping \in BOOLEAN
  /\ searches \subseteq Searches
  /\ at \in [Searches -> Working \cup {"none", "waiting", "done", "skipped"}]
  /\ slots \in 0..limit
  /\ found \in [Searches -> SUBSET Items]
  /\ failed \subseteq Searches
  /\ firstErr \in Searches \cup {NoSearch}
  /\ searchIDs \in [Items -> SUBSET Searches]
  /\ foundBy \in [Items -> Seq(Range(Name))]
  /\ health \in [Searches -> {"never", "ok", "error"}]
  /\ recorded \subseteq Searches

Init ==
  /\ phase = "idle"
  /\ stopping = FALSE
  /\ searches = {}
  /\ at = [s \in Searches |-> "none"]
  /\ slots = 0
  /\ found = [s \in Searches |-> {}]
  /\ failed = {}
  /\ firstErr = NoSearch
  /\ searchIDs = [i \in Items |-> {}]
  /\ foundBy = [i \in Items |-> <<>>]
  /\ health = [s \in Searches |-> "never"]
  /\ recorded = {}

Goto(s, where) == at' = [at EXCEPT ![s] = where]

-----------------------------------------------------------------------------
(* The main goroutine.                                                     *)

\* ListSearches, NewBatch, and the loop of RunOnce that starts a goroutine
\* per search.  Without enabled searches the worker polls SEARCH_QUERY
\* instead and has no batch.
Start ==
  /\ phase = "idle"
  /\ ~stopping
  /\ phase' = "running"
  /\ searches' \in SUBSET Searches \ {{}}
  /\ at' = [s \in Searches |-> IF s \in searches' THEN "waiting" ELSE "none"]
  /\ slots' = 0
  /\ found' = [s \in Searches |-> {}]
  /\ failed' = {}
  /\ firstErr' = NoSearch
  /\ searchIDs' = [i \in Items |-> {}]
  /\ foundBy' = [i \in Items |-> <<>>]
  /\ recorded' = {}
  /\ UNCHANGED <<stopping, health>>

\* Mutant: RunOnce waits for the semaphore to drain, not for the goroutines.
ReturnOnIdleSlots ==
  /\ phase = "running"
  /\ slots = 0
  /\ phase' = "returned"
  /\ UNCHANGED <<stopping, searches, at, slots, found, failed, firstErr,
                 searchIDs, foundBy, health, recorded>>

\* wait.Wait returns, and RunOnce with it.
Return ==
  /\ phase = "running"
  /\ \A s \in searches : at[s] \in {"done", "skipped"}
  /\ phase' = "returned"
  /\ UNCHANGED <<stopping, searches, at, slots, found, failed, firstErr,
                 searchIDs, foundBy, health, recorded>>

\* batch.Listings is read and delivered; the next tick may come.
Deliver ==
  /\ phase = "returned"
  /\ phase' = "idle"
  /\ UNCHANGED <<stopping, searches, at, slots, found, failed, firstErr,
                 searchIDs, foundBy, health, recorded>>

Stop ==
  /\ ~stopping
  /\ stopping' = TRUE
  /\ UNCHANGED <<phase, searches, at, slots, found, failed, firstErr,
                 searchIDs, foundBy, health, recorded>>

-----------------------------------------------------------------------------
(* The goroutine of search s.                                              *)

\* Mutant: the semaphore channel has room for everyone.
AcquireUnbounded(s) ==
  /\ at[s] = "waiting"
  /\ slots' = slots + 1
  /\ Goto(s, "searching")
  /\ UNCHANGED <<phase, stopping, searches, found, failed, firstErr,
                 searchIDs, foundBy, health, recorded>>

\* select: sem <- struct{}{}, possible while the channel has room ...
Acquire(s) ==
  /\ at[s] = "waiting"
  /\ slots < limit
  /\ slots' = slots + 1
  /\ Goto(s, "searching")
  /\ UNCHANGED <<phase, stopping, searches, found, failed, firstErr,
                 searchIDs, foundBy, health, recorded>>

\* Mutant: a default in the select, for when no slot is free.
SkipWhenFull(s) ==
  /\ at[s] = "waiting"
  /\ stopping \/ slots = limit
  /\ Goto(s, "skipped")
  /\ UNCHANGED <<phase, stopping, searches, slots, found, failed, firstErr,
                 searchIDs, foundBy, health, recorded>>

\* ... or ctx.Done: the search does not run, and no error says so.
Skip(s) ==
  /\ at[s] = "waiting"
  /\ stopping
  /\ Goto(s, "skipped")
  /\ UNCHANGED <<phase, stopping, searches, slots, found, failed, firstErr,
                 searchIDs, foundBy, health, recorded>>

\* JobFromSearchURL and scraper.Search: a bad URL, Vinted's refusal or the
\* cancelled ctx is an error; otherwise some of the search's listings.
Search(s) ==
  /\ at[s] = "searching"
  /\ Goto(s, "recording")
  /\ \/ /\ ~stopping
        /\ \E items \in SUBSET Results[s] : found' = [found EXCEPT ![s] = items]
        /\ UNCHANGED failed
     \/ /\ failed' = failed \cup {s}
        /\ UNCHANGED found
  /\ UNCHANGED <<phase, stopping, searches, slots, firstErr, searchIDs,
                 foundBy, health, recorded>>

\* Mutant: the callback records the error and goes on as if there were none.
RecordSwallows(s) ==
  /\ at[s] = "recording"
  /\ Goto(s, "adding")
  /\ health' = [health EXCEPT ![s] = IF s \in failed THEN "error" ELSE "ok"]
  /\ recorded' = recorded \cup {s}
  /\ UNCHANGED <<phase, stopping, searches, slots, found, failed, firstErr,
                 searchIDs, foundBy>>

\* Mutant: a success does not clear last_error.
RecordKeepsError(s) ==
  /\ at[s] = "recording"
  /\ Goto(s, IF s \in failed THEN "reporting" ELSE "adding")
  /\ health' = [health EXCEPT ![s] = IF s \in failed \/ @ = "error" THEN "error" ELSE "ok"]
  /\ recorded' = recorded \cup {s}
  /\ UNCHANGED <<phase, stopping, searches, slots, found, failed, firstErr,
                 searchIDs, foundBy>>

\* RecordSearchAttempt, with context.Background(); its error is dropped.
Record(s) ==
  /\ at[s] = "recording"
  /\ Goto(s, IF s \in failed THEN "reporting" ELSE "adding")
  /\ \/ /\ health' = [health EXCEPT ![s] = IF s \in failed THEN "error" ELSE "ok"]
        /\ recorded' = recorded \cup {s}
     \/ UNCHANGED <<health, recorded>>
  /\ UNCHANGED <<phase, stopping, searches, slots, found, failed, firstErr,
                 searchIDs, foundBy>>

\* Mutant: only the first search to find a listing is attributed.
AddFirstOnly(s) ==
  /\ at[s] = "adding"
  /\ Goto(s, "finishing")
  /\ searchIDs' = [i \in Items |-> IF i \in found[s] /\ searchIDs[i] = {} THEN {s}
                                                                         ELSE searchIDs[i]]
  /\ foundBy' = [i \in Items |-> IF i \in found[s] /\ foundBy[i] = <<>> THEN <<Name[s]>>
                                                                     ELSE foundBy[i]]
  /\ UNCHANGED <<phase, stopping, searches, slots, found, failed, firstErr,
                 health, recorded>>

\* Mutant: the listing's names are those of the search that found it first.
AddFirstName(s) ==
  /\ at[s] = "adding"
  /\ Goto(s, "finishing")
  /\ searchIDs' = [i \in Items |-> IF i \in found[s] THEN searchIDs[i] \cup {s}
                                                     ELSE searchIDs[i]]
  /\ foundBy' = [i \in Items |-> IF i \in found[s] /\ foundBy[i] = <<>> THEN <<Name[s]>>
                                                                     ELSE foundBy[i]]
  /\ UNCHANGED <<phase, stopping, searches, slots, found, failed, firstErr,
                 health, recorded>>

\* batch.Add, under its mutex.  A search is attributed once per listing, and
\* its name appended unless it is the last one there already.
Add(s) ==
  /\ at[s] = "adding"
  /\ Goto(s, "finishing")
  /\ searchIDs' = [i \in Items |-> IF i \in found[s] THEN searchIDs[i] \cup {s}
                                                     ELSE searchIDs[i]]
  /\ foundBy' = [i \in Items |->
       IF /\ i \in found[s]
          /\ s \notin searchIDs[i]
          /\ foundBy[i] = <<>> \/ Last(foundBy[i]) # Name[s]
       THEN Append(foundBy[i], Name[s])
       ELSE foundBy[i]]
  /\ UNCHANGED <<phase, stopping, searches, slots, found, failed, firstErr,
                 health, recorded>>

\* firstErr, under mu: only the first error is kept.
Report(s) ==
  /\ at[s] = "reporting"
  /\ Goto(s, "finishing")
  /\ firstErr' = IF firstErr = NoSearch THEN s ELSE firstErr
  /\ UNCHANGED <<phase, stopping, searches, slots, found, failed,
                 searchIDs, foundBy, health, recorded>>

\* Mutant: an error return skips the release of the slot.
FinishLeaks(s) ==
  /\ at[s] = "finishing"
  /\ slots' = IF s \in failed THEN slots ELSE slots - 1
  /\ Goto(s, "done")
  /\ UNCHANGED <<phase, stopping, searches, found, failed, firstErr,
                 searchIDs, foundBy, health, recorded>>

\* The deferred calls: the slot is given back, then wait.Done.
Finish(s) ==
  /\ at[s] = "finishing"
  /\ slots' = slots - 1
  /\ Goto(s, "done")
  /\ UNCHANGED <<phase, stopping, searches, found, failed, firstErr,
                 searchIDs, foundBy, health, recorded>>

-----------------------------------------------------------------------------

Goroutine(s) ==
  \/ Acquire(s) \/ Skip(s) \/ Search(s) \/ Record(s)
  \/ Add(s) \/ Report(s) \/ Finish(s)

Next ==
  \/ Start \/ Return \/ Deliver \/ Stop
  \/ \E s \in Searches : Goroutine(s)

Spec == Init /\ [][Next]_vars

\* The Go scheduler runs every goroutine that can run, and a search ends: its
\* HTTP client has a timeout (30 s) and its retries a limit.  The recording
\* has neither, for RecordSearchAttempt takes context.Background(): it is an
\* assumption that PostgreSQL answers or the connection fails.
FairSpec ==
  /\ Spec
  /\ WF_vars(Return) /\ WF_vars(Deliver)
  /\ \A s \in Searches : WF_vars(Goroutine(s))

-----------------------------------------------------------------------------
(* What should hold.                                                       *)

\* No more than `limit` searches are at Vinted or PostgreSQL at a time, and
\* the semaphore counts exactly them: no slot is lost on an error path.
BoundedConcurrency ==
  slots = Cardinality({s \in Searches : at[s] \in Working})

\* The goroutines never all wait for each other: as long as one is not over,
\* one holds a slot, and so goes on, or can take a slot or leave.
NeverStuck ==
  (phase = "running" /\ \E s \in searches : at[s] \notin {"done", "skipped"}) =>
    \E s \in searches :
      at[s] \in Working \/ (at[s] = "waiting" /\ (slots < limit \/ stopping))

\* A listing's attribution is exactly the searches that succeeded, got as
\* far as the batch and found it, in whatever order the goroutines ran
\* (README: "retains every search that found the listing").
Attribution ==
  \A i \in Items :
    searchIDs[i] = {s \in searches : at[s] \in {"finishing", "done"} /\ i \in found[s]}

\* The names a batch keeps for a listing (Item.FoundBy, which batch_test.go
\* counts) are the names of those searches, each once.  They end in the batch:
\* SendListing does not put them into the message it is handed them for.
FoundByNames ==
  \A i \in Items :
    /\ ToSet(foundBy[i]) = {Name[s] : s \in searchIDs[i]}
    /\ \A m, n \in DOMAIN foundBy[i] : foundBy[i][m] = foundBy[i][n] => m = n

\* When the worker reads the batch, no goroutine is left that could still
\* write to it, and the batch lacks no search that succeeded.
CompleteBatch ==
  phase = "returned" =>
    /\ slots = 0
    /\ \A s \in searches \ failed : at[s] = "done" \/ (stopping /\ at[s] = "skipped")
    /\ \A s \in searches \ failed : \A i \in found[s] : s \in searchIDs[i]

\* RunOnce returns an error exactly when a search failed, and blames one
\* that did.
ErrorReported ==
  phase = "returned" => IF failed = {} THEN firstErr = NoSearch ELSE firstErr \in failed

\* The health shown for a search is the outcome of its last recorded attempt.
HealthIsOutcome ==
  phase = "returned" =>
    \A s \in recorded : health[s] = IF s \in failed THEN "error" ELSE "ok"

\* What became of search s when RunOnce returned.
Outcome(s) ==
  [how   |-> CASE s \notin searches   -> "none"
               [] at[s] = "skipped"   -> "skipped"
               [] s \in failed        -> "failed"
               [] OTHER               -> "found",
   items |-> IF s \in searches THEN found[s] ELSE {}]

\* The goroutines of a poll amount to the one step of Round, whatever their
\* order.
OneStep == INSTANCE Round WITH
  outcome <- IF phase = "returned" THEN [s \in Searches |-> Outcome(s)]
             ELSE [s \in Searches |-> [how |-> "none", items |-> {}]],
  batch   <- IF phase = "returned" THEN searchIDs ELSE [i \in Items |-> {}],
  error   <- IF phase = "returned" THEN firstErr ELSE NoSearch

RoundSpec == OneStep!Spec

\* RunOnce returns, cancelled or not, however the slots go round.
RunReturns == phase = "running" ~> phase = "returned"

=============================================================================
