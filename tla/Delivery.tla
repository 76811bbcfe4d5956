------------------------------ MODULE Delivery ------------------------------
(***************************************************************************)
(* How one poll's listings become Discord messages: processItems and the   *)
(* poll loop of cmd/worker/main.go, with the three services each listing   *)
(* passes through.                                                         *)
(*                                                                         *)
(*   - Redis (internal/store/redis.go) keeps a delivery claim per listing. *)
(*     Every command has its own TCP connection and a 5 s deadline, so the *)
(*     worker may give up on a command that Redis executes, at once or     *)
(*     later, and out of order with the worker's next command.             *)
(*   - Discord (internal/notify/discord.go) may accept a message whose     *)
(*     answer the worker never reads (15 s client timeout, cancelled ctx). *)
(*   - PostgreSQL (internal/store/postgres.go) keeps the listings and one  *)
(*     notification_deliveries row per attempt.                            *)
(*                                                                         *)
(* SIGTERM cancels ctx, and every later call that takes ctx fails before   *)
(* it reaches its service; the process may also die anywhere, and is then  *)
(* restarted (docker-compose: restart: always).                            *)
(*                                                                         *)
(* A call to a service is one step, taken where the service acts on it.    *)
(***************************************************************************)
EXTENDS Integers, FiniteSets

CONSTANTS
  Items,        \* listing IDs the marketplace may show
  NoItem,       \* "no listing in hand"
  Unsendable,   \* listings whose message Discord rejects every time
  Qualified,    \* OPPORTUNITY_MODE is "qualified" (otherwise "shadow")
  Attributed,   \* a database is configured and enabled searches exist
  MaxFaults,    \* bound: calls that fail, or whose reply is lost
  MaxStops,     \* bound: SIGTERMs
  MaxCrashes,   \* bound: deaths of the process without warning
  MaxLapses     \* bound: lapses, per listing, of a claim that was delivered

ASSUME DeliveryAssumption ==
  /\ NoItem \notin Items
  /\ Unsendable \subseteq Items
  /\ Qualified \in BOOLEAN
  /\ Attributed \in BOOLEAN
  /\ {MaxFaults, MaxStops, MaxCrashes, MaxLapses} \subseteq Nat

VARIABLES
  pc,         \* where the worker stands
  todo,       \* entries processItems has still to visit
  cur,        \* the listing in hand
  listingID,  \* UpsertListing gave a non-zero ID for cur
  sendErr,    \* SendListing returned an error for cur
  stopping,   \* ctx is cancelled
  claims,     \* keys vinted:delivered:<id> that exist in Redis
  late,       \* Redis commands the worker gave up on, still under way
  market,     \* listings a poll finds
  listings,   \* listings with a row in PostgreSQL
  failures,   \* listings with a failed delivery row
  successes,  \* successes[i]: successful delivery rows of i
  posted,     \* posted[i]: messages about i that Discord accepted
  lapsed,     \* lapsed[i]: claims on i that expired or that Redis lost
  blurred,    \* blurred[i]: messages or claims on i the worker lost sight of
  faults, stops, crashes   \* how much of each bound is used

worker  == <<pc, todo, cur, listingID, sendErr>>
redis   == <<claims, late>>
db      == <<listings, failures, successes>>
discord == <<posted, lapsed, blurred>>
budget  == <<stopping, faults, stops, crashes>>
vars    == <<worker, redis, db, discord, budget, market>>

\* The listing in hand is claimed, and its message is not known to be out.
InFlight == {"send", "recordFailure", "release"}
Busy     == InFlight \cup {"persist", "evaluate", "claim", "recordSuccess", "pause"}
PCs      == Busy \cup {"idle", "next", "down"}
Commands == {"SET", "DEL"} \X Items

TypeOK ==
  /\ pc \in PCs
  /\ todo \subseteq Items
  /\ cur \in Items \cup {NoItem}
  /\ pc \in Busy => cur \in Items
  /\ listingID \in BOOLEAN
  /\ sendErr \in BOOLEAN
  /\ stopping \in BOOLEAN
  /\ claims \subseteq Items
  /\ late \subseteq Commands
  /\ market \subseteq Items
  /\ listings \subseteq Items
  /\ failures \subseteq Items
  /\ successes \in [Items -> Nat]
  /\ posted \in [Items -> Nat]
  /\ lapsed \in [Items -> Nat]
  /\ blurred \in [Items -> Nat]
  /\ faults \in Nat
  /\ stops \in Nat
  /\ crashes \in Nat

Init ==
  /\ pc = "idle"
  /\ todo = {}
  /\ cur = NoItem
  /\ listingID = FALSE
  /\ sendErr = FALSE
  /\ stopping = FALSE
  /\ claims = {}
  /\ late = {}
  /\ market \in SUBSET Items
  /\ listings = {}
  /\ failures = {}
  /\ successes = [i \in Items |-> 0]
  /\ posted = [i \in Items |-> 0]
  /\ lapsed = [i \in Items |-> 0]
  /\ blurred = [i \in Items |-> 0]
  /\ faults = 0
  /\ stops = 0
  /\ crashes = 0

-----------------------------------------------------------------------------
(* What may happen to a call.                                              *)

Bump(f, i) == [f EXCEPT ![i] = @ + 1]

\* A service is unreachable, slow, or answers with an error.
Fault ==
  /\ ~stopping
  /\ faults < MaxFaults
  /\ faults' = faults + 1
  /\ UNCHANGED <<stopping, stops, crashes>>

\* SIGTERM: signal.NotifyContext cancels ctx.
Cancel ==
  /\ ~stopping
  /\ stops < MaxStops
  /\ stopping' = TRUE
  /\ stops' = stops + 1
  /\ UNCHANGED <<faults, crashes>>

\* The call reaches its service and the answer comes back.
Answered == ~stopping /\ UNCHANGED budget

\* The call has no effect and returns an error: a fault, or a ctx that was
\* cancelled before the call began.
NoEffect == Fault \/ (stopping /\ UNCHANGED budget)

\* The call has its effect and returns an error all the same: the answer is
\* lost, or ctx is cancelled while the worker waits for it.
Unanswered == Fault \/ Cancel

-----------------------------------------------------------------------------
(* The worker.                                                             *)

\* run() up to processItems.  Failed searches leave their listings out of
\* the batch; with ctx cancelled nothing is found and nothing changes.
Poll ==
  /\ pc = "idle"
  /\ \/ Answered /\ todo' = market
     \/ Fault /\ todo' \in SUBSET market
  /\ pc' = "next"
  /\ UNCHANGED <<cur, listingID, sendErr, redis, db, discord, market>>

\* Mutant: the loop runs one past the end of entries.
NextEntryPastEnd ==
  /\ pc = "next"
  /\ \E i \in todo \cup {NoItem} : cur' = i /\ todo' = todo \ {i}
  /\ listingID' = FALSE
  /\ sendErr' = FALSE
  /\ pc' = IF Attributed THEN "persist" ELSE "evaluate"
  /\ UNCHANGED <<redis, db, discord, budget, market>>

\* The head of the loop over entries, in the random order of Batch.Listings.
NextEntry ==
  /\ pc = "next"
  /\ \E i \in todo :
       /\ cur' = i
       /\ todo' = todo \ {i}
  /\ listingID' = FALSE
  /\ sendErr' = FALSE
  /\ pc' = IF Attributed THEN "persist" ELSE "evaluate"
  /\ UNCHANGED <<redis, db, discord, budget, market>>

EndOfBatch ==
  /\ pc = "next"
  /\ todo = {}
  /\ pc' = "idle"
  /\ cur' = NoItem
  /\ UNCHANGED <<todo, listingID, sendErr, redis, db, discord, budget, market>>

\* Mutant: a failed upsert returns the ID of the row it rolled back.
PersistKeepsID ==
  /\ pc = "persist"
  /\ \/ Answered /\ listings' = listings \cup {cur}
     \/ NoEffect /\ UNCHANGED listings
  /\ listingID' = TRUE
  /\ pc' = "evaluate"
  /\ UNCHANGED <<todo, cur, sendErr, redis, failures, successes, discord, market>>

\* UpsertListing, one transaction.  Its error is logged and the listing goes
\* on without a listing ID; a refusal by PostgreSQL, because a search has been
\* deleted since the poll began (module Sourcing), is one of the faults here.
Persist ==
  /\ pc = "persist"
  /\ \/ Answered   /\ listingID' = TRUE /\ listings' = listings \cup {cur}
     \/ NoEffect   /\ UNCHANGED <<listingID, listings>>
     \/ Unanswered /\ UNCHANGED listingID /\ listings' = listings \cup {cur}
  /\ pc' = "evaluate"
  /\ UNCHANGED <<todo, cur, sendErr, redis, failures, successes, discord, market>>

\* The verdict depends on prices and history (module Pricing); only the
\* qualified mode acts on it.
Evaluate ==
  /\ pc = "evaluate"
  /\ \E qualified \in BOOLEAN :
       pc' = IF Qualified /\ ~qualified THEN "next" ELSE "claim"
  /\ UNCHANGED <<todo, cur, listingID, sendErr, redis, db, discord, budget, market>>

\* Mutant: SET without NX, so that every claim succeeds.
ClaimAnyway ==
  /\ pc = "claim"
  /\ Answered
  /\ claims' = claims \cup {cur}
  /\ pc' = "send"
  /\ UNCHANGED <<todo, cur, listingID, sendErr, late, db, discord, market>>

\* Mutant: MarkDelivered with context.Background(), the rest still with ctx.
ClaimUncancelled ==
  /\ pc = "claim"
  /\ claims' = claims \cup {cur}
  /\ pc' = IF cur \in claims THEN "next" ELSE "send"
  /\ UNCHANGED <<todo, cur, listingID, sendErr, late, db, discord, budget, market>>

\* Mutant: an error of MarkDelivered is retried until it goes away.
ClaimUntilAnswered ==
  /\ pc = "claim"
  /\ \/ /\ Answered
        /\ claims' = claims \cup {cur}
        /\ pc' = IF cur \in claims THEN "next" ELSE "send"
     \/ NoEffect /\ UNCHANGED <<pc, claims>>
  /\ UNCHANGED <<todo, cur, listingID, sendErr, late, db, discord, market>>

\* MarkDelivered: SET key 1 NX PX ttl.  An error skips the listing, without
\* a pause, whether or not Redis executes the command.
Claim ==
  /\ pc = "claim"
  /\ \/ /\ Answered
        /\ cur \notin claims
        /\ claims' = claims \cup {cur}
        /\ pc' = "send"
        /\ UNCHANGED late
     \/ /\ Answered
        /\ cur \in claims
        /\ pc' = "next"
        /\ UNCHANGED redis
     \/ /\ NoEffect
        /\ pc' = "next"
        /\ UNCHANGED redis
     \/ /\ Fault
        /\ claims' = claims \cup {cur}
        /\ pc' = "next"
        /\ UNCHANGED late
     \/ /\ Fault
        /\ late' = late \cup {<<"SET", cur>>}
        /\ pc' = "next"
        /\ UNCHANGED claims
  /\ UNCHANGED <<todo, cur, listingID, sendErr, db, discord, market>>

\* SendListing.  A message Discord rejects (its multipart body is too large,
\* say) has no fallback and fails again on every retry.
Send ==
  /\ pc = "send"
  /\ \/ /\ Answered
        /\ cur \notin Unsendable
        /\ posted' = Bump(posted, cur)
        /\ pc' = IF listingID THEN "recordSuccess" ELSE "pause"
        /\ UNCHANGED <<sendErr, blurred>>
     \/ /\ NoEffect \/ (Answered /\ cur \in Unsendable)
        /\ sendErr' = TRUE
        /\ pc' = IF listingID THEN "recordFailure" ELSE "release"
        /\ UNCHANGED <<posted, blurred>>
     \/ /\ Unanswered
        /\ cur \notin Unsendable
        /\ posted' = Bump(posted, cur)
        /\ blurred' = Bump(blurred, cur)
        /\ sendErr' = TRUE
        /\ pc' = IF listingID THEN "recordFailure" ELSE "release"
  /\ UNCHANGED <<todo, cur, listingID, redis, db, lapsed, market>>

\* RecordNotification; its error is dropped.
RecordFailure ==
  /\ pc = "recordFailure"
  /\ \/ Answered /\ failures' = failures \cup {cur}
     \/ NoEffect /\ UNCHANGED failures
  /\ pc' = "release"
  /\ UNCHANGED <<todo, cur, listingID, sendErr, redis, listings, successes, discord, market>>

\* Mutant: the success path falls through to Forget.
RecordSuccessThenRelease ==
  /\ pc = "recordSuccess"
  /\ Answered
  /\ successes' = Bump(successes, cur)
  /\ pc' = "release"
  /\ UNCHANGED <<todo, cur, listingID, sendErr, redis, listings, failures, discord, market>>

RecordSuccess ==
  /\ pc = "recordSuccess"
  /\ \/ Answered /\ successes' = Bump(successes, cur)
     \/ NoEffect /\ UNCHANGED successes
  /\ pc' = "pause"
  /\ UNCHANGED <<todo, cur, listingID, sendErr, redis, listings, failures, discord, market>>

\* Forget: DEL key.  Its error is only logged, so a lost answer is as good
\* as an answer.
Release ==
  /\ pc = "release"
  /\ \/ Answered /\ claims' = claims \ {cur} /\ UNCHANGED late
     \/ NoEffect /\ UNCHANGED redis
     \/ Fault    /\ UNCHANGED claims /\ late' = late \cup {<<"DEL", cur>>}
  /\ pc' = "pause"
  /\ UNCHANGED <<todo, cur, listingID, sendErr, db, discord, market>>

\* Mutant: a failed send returns from processItems instead of going on.
PauseGivesUp ==
  /\ pc = "pause"
  /\ IF stopping \/ sendErr
     THEN pc' = "idle" /\ todo' = {} /\ cur' = NoItem
     ELSE pc' = "next" /\ UNCHANGED <<todo, cur>>
  /\ UNCHANGED <<listingID, sendErr, redis, db, discord, budget, market>>

\* waitForNextNotification: with both the timer and ctx ready, select takes
\* either one, so a cancelled worker may still visit the next entry.
Pause ==
  /\ pc = "pause"
  /\ \/ pc' = "next" /\ UNCHANGED <<todo, cur>>
     \/ stopping /\ pc' = "idle" /\ todo' = {} /\ cur' = NoItem
  /\ UNCHANGED <<listingID, sendErr, redis, db, discord, budget, market>>

\* What dies with the process: everything but the services' state.
Die ==
  /\ pc' = "down"
  /\ todo' = {}
  /\ cur' = NoItem
  /\ listingID' = FALSE
  /\ sendErr' = FALSE

\* The main loop sees ctx.Done between two polls and returns.
Exit ==
  /\ pc = "idle"
  /\ stopping
  /\ Die
  /\ UNCHANGED <<redis, db, discord, budget, market>>

Stop ==
  /\ pc # "down"
  /\ Cancel
  /\ UNCHANGED <<worker, redis, db, discord, market>>

Crash ==
  /\ pc # "down"
  /\ crashes < MaxCrashes
  /\ crashes' = crashes + 1
  /\ Die
  /\ UNCHANGED <<redis, db, discord, stopping, faults, stops, market>>

Restart ==
  /\ pc = "down"
  /\ pc' = "idle"
  /\ stopping' = FALSE
  /\ UNCHANGED <<todo, cur, listingID, sendErr, redis, db, discord, faults, stops, crashes, market>>

-----------------------------------------------------------------------------
(* Redis and the marketplace.                                              *)

\* A listing nobody was told of, that nobody is being told of, and that its
\* claim keeps from ever being told.
Silent(i) ==
  /\ i \in claims
  /\ posted[i] = 0
  /\ ~(pc \in InFlight /\ cur = i)

\* A claim goes without the worker asking: its TTL of 30 days passes, or
\* Redis restarts from a snapshot older than the claim.
Lapse(i) ==
  /\ i \in claims
  /\ Silent(i) \/ lapsed[i] < MaxLapses
  /\ claims' = claims \ {i}
  /\ lapsed' = Bump(lapsed, i)
  /\ UNCHANGED <<worker, late, db, posted, blurred, budget, market>>

\* Redis executes a command its sender gave up on.  A late DEL may fall on
\* a claim newer than the one it was meant for.
LateSet(i) ==
  /\ <<"SET", i>> \in late
  /\ late' = late \ {<<"SET", i>>}
  /\ claims' = claims \cup {i}
  /\ UNCHANGED <<worker, db, discord, budget, market>>

LateDel(i) ==
  /\ <<"DEL", i>> \in late
  /\ late' = late \ {<<"DEL", i>>}
  /\ claims' = claims \ {i}
  /\ blurred' = IF i \in claims THEN Bump(blurred, i) ELSE blurred
  /\ UNCHANGED <<worker, db, posted, lapsed, budget, market>>

\* ... or its connection is reset first.
LateLost(c) ==
  /\ c \in late
  /\ late' = late \ {c}
  /\ UNCHANGED <<worker, claims, db, discord, budget, market>>

\* Listings come, and are sold, edited or pushed off the first page of 96.
Appear(i) ==
  /\ i \notin market
  /\ market' = market \cup {i}
  /\ UNCHANGED <<worker, redis, db, discord, budget>>

Vanish(i) ==
  /\ i \in market
  /\ market' = market \ {i}
  /\ UNCHANGED <<worker, redis, db, discord, budget>>

-----------------------------------------------------------------------------

Deliver ==
  \/ Poll \/ NextEntry \/ EndOfBatch
  \/ Persist \/ Evaluate \/ Claim
  \/ Send \/ RecordFailure \/ Release \/ RecordSuccess
  \/ Pause \/ Exit

Environment ==
  \/ Stop \/ Crash \/ Restart
  \/ \E i \in Items : Lapse(i) \/ LateSet(i) \/ LateDel(i) \/ Appear(i) \/ Vanish(i)
  \/ \E c \in late : LateLost(c)

Next == Deliver \/ Environment

Spec == Init /\ [][Next]_vars

\* The worker is one goroutine that nothing blocks for good: its calls to
\* Redis and Discord have deadlines (5 s, 15 s), and the ticker fires again.
\* The PostgreSQL calls have none: it is an assumption that PostgreSQL
\* answers them or the connection fails.  Compose restarts the worker, and
\* Redis ends every claim after its TTL.
Fairness ==
  /\ WF_vars(Deliver)
  /\ WF_vars(Restart)
  /\ \A i \in Items : WF_vars(Silent(i) /\ Lapse(i))

FairSpec == Spec /\ Fairness

-----------------------------------------------------------------------------
(* What should hold.                                                       *)

Pending(i) == IF pc \in InFlight /\ cur = i THEN 1 ELSE 0
Held(i)    == IF i \in claims THEN 1 ELSE 0

\* A listing is told once, and once more only for each time its claim went
\* without the worker's doing or the worker lost sight of its message
\* (README: "overlapping searches notify only once"; the claim is taken
\* before the send and released only after a failed one).
NoUnexplainedDuplicate ==
  \A i \in Items : posted[i] <= 1 + lapsed[i] + blurred[i]

\* Every message out, and the one being sent, stands on the claim that is
\* held or on an excuse: why NoUnexplainedDuplicate holds.
Backed ==
  \A i \in Items : posted[i] + Pending(i) <= Held(i) + lapsed[i] + blurred[i]

Silenced == {i \in Items : Silent(i)}
LateSets == {c \in late : c[1] = "SET"}

\* Each failure silences one listing at most: claims nobody was told of,
\* with the SETs that may still become such claims, never outnumber the
\* faults, stops and crashes so far, however many listings a batch has.
SilenceAccounted ==
  Cardinality(Silenced) + Cardinality(LateSets) <= faults + stops + crashes

\* The audit table overstates nothing: a successful delivery row stands for
\* a message that Discord accepted, and a row exists only for a listing that
\* was persisted, although a failed upsert never stops the delivery.
AuditHonest ==
  \A i \in Items :
    /\ successes[i] <= posted[i]
    /\ (successes[i] > 0 \/ i \in failures) => i \in listings

\* The worker keeps the promise of AlertLedger.
Ledger == INSTANCE AlertLedger WITH
            told    <- posted,
            excused <- [i \in Items |-> lapsed[i] + blurred[i]]

LedgerSpec == Ledger!Spec

\* A listing that stays on the first page is told in the end, in spite of
\* failed calls, stops, crashes, claims left behind (they lapse) and other
\* listings that Discord never accepts.
EventuallyTold ==
  \A i \in Items \ Unsendable :
    i \in market ~> (posted[i] > 0 \/ i \notin market)

\* SIGTERM ends the worker, wherever in a batch it comes.
StopEnds == stopping ~> (pc = "down")

\* What README.md:143 says: "A failed Discord send releases the Redis claim
\* so the listing can be retried."  Only sends that Discord did not accept
\* are meant: after an accepted one a claim that stays is no loss.  Redis is
\* up in the run that checks it.
FailedSendReleasesClaim ==
  (pc = "pause" /\ sendErr /\ posted[cur] = 0) => cur \notin claims

\* What the comment at the claim says: "Claim the item before delivering so
\* a later poll cannot send it twice", with a lost claim as the one excuse.
NeverSentTwice ==
  \A i \in Items : posted[i] <= 1 + lapsed[i]

=============================================================================
