# Verification of the Vinted sourcing assistant

TLA+ modules, TLC runs and TLAPS proofs for the Go service in this repository: a
worker that polls Vinted searches and posts new listings to Discord, and an API with
an admin page that configures it. Paths such as `cmd/worker/main.go` are relative to
the repository's root.

    tlc -workers 2 -config Delivery.cfg MCDelivery           # any run below
    tlapm DeliveryProofs.tla                                 # any of the *Proofs modules

## 1. The system

| Component | State it keeps | Operations | Talks to |
|---|---|---|---|
| **Worker: delivery** (`cmd/worker/main.go` 126-186, 233-246) | nothing between polls; in a batch: the entry in hand, its listing ID | visit an entry, persist, evaluate, claim, send, record, release, pause | PostgreSQL, Redis, Discord; the ticker; SIGTERM |
| **Redis claims** (`internal/store/redis.go`) | one key per listing, TTL 30 days | `MarkDelivered` (`SET NX PX`), `Forget` (`DEL`), each on a connection of its own with a 5 s deadline | worker |
| **Discord notifier** (`internal/notify/discord.go`) | none | `SendListing`: JSON, or multipart with the photos; 15 s client timeout | Discord |
| **Worker: polling** (`internal/scheduler`, `pkg/discovery`, `main.go` 188-231) | semaphore, `firstErr`, the batch | one goroutine per enabled search: acquire, search, record, add, release | Vinted, PostgreSQL |
| **Vinted client** (`internal/scrapers/vinted`) | cookie jar | `Search`: two requests, three attempts each | Vinted |
| **Sales-history sync** (`internal/historysync`, `main.go` 59-124, 248-289) | `salesHistory`, `lastHistorySync`, the configured sheet | sync at startup, sync before a poll | Google Sheets, PostgreSQL |
| **Pricing and evaluation** (`pkg/history`, `pkg/pricing`, `pkg/evaluation`) | none, pure functions | parse and normalize rows, estimate, evaluate | worker |
| **API and admin page** (`cmd/api/main.go`) | none | search CRUD, enable, toggle, save the history settings | PostgreSQL |
| **PostgreSQL store** (`internal/store/postgres.go`) | searches and their health, listings and attributions, delivery audit, history snapshots, history settings and status | one statement or one transaction per method | worker and API share the tables |

The worker's main goroutine runs one poll at a time: synchronize history if it is due,
load the enabled searches, run them concurrently, then deliver the combined batch entry
by entry with a pause of a second. API and worker meet only in the database. SIGTERM
cancels one context; Redis, Discord, Vinted and most database calls take it,
`RecordSearchAttempt` and the history synchronization do not
(`context.Background()`). Compose restarts whatever dies.

What is hard here, and what should hold:

- **Delivery** is a claim before an unacknowledged side effect. A crash, a stop, or a
  lost reply between the claim and the send leaves a listing claimed and untold; a lost
  answer from Discord, a late `DEL` or an expired claim tells it twice. The property is
  therefore not "exactly once" but: every duplicate and every silence has a cause that
  can be named and counted, the audit rows never claim more than happened, and a listing
  that stays on the market is told in the end.
- **Polling** is concurrent: no slot of the semaphore may be lost, the batch must be
  complete and quiescent when it is read, every search that found a listing must be
  attributed whatever the interleaving, and errors and health must match what happened.
- **History** has one value in three places (memory, snapshots, the admin page's status),
  written by separate calls that fail separately, and settings that another process
  changes. Failed reads must cost no prices, and the places must agree unless a write
  failed, for a worker that has a sheet; one without a sheet prices from nothing and
  leaves the other two places to the process before it.
- **Administration** edits the searches while the worker polls a snapshot of them. What the
  snapshot and the table disagree on (a search deleted, renamed, replaced under its old
  name, given another URL) must not end up under the wrong search, must not cost a listing
  its record without a reason, and must be put right by a later poll.
- **Pricing** is index arithmetic on samples around thresholds: the estimate must be the
  median of enough comparable sales, and one exceptional sale must not decide it.

`PROJECT.json` lists each hazard at its line, with the properties that cover it.

## 2. The modules

| Module | Models | Written for |
|---|---|---|
| `AlertLedger` | the promise: one message per listing, one more per excuse | abstract specification |
| `Delivery` | delivery, Redis, Discord and the audit rows, with faults | TLC and TLAPS |
| `MCDelivery` | instances of `Delivery` | TLC |
| `DeliveryProofs` | theorems about `Delivery` | TLAPS |
| `Round` | the promise of a poll: all searches in one step | abstract specification |
| `Discovery`, `MCDiscovery` | one poll of the searches, and its instance | TLC and TLAPS |
| `DiscoveryProofs` | theorems about `Discovery` | TLAPS |
| `Searches` | the searches table and the API's handlers | part of `Sourcing` |
| `Sourcing`, `MCSourcing` | `Searches` composed with the worker's polls and alerts | TLC and TLAPS |
| `SourcingProofs` | theorems about `Sourcing` and `Searches` | TLAPS |
| `HistorySync`, `MCHistorySync` | the sheet, the settings, the syncer and the three places | TLC and TLAPS |
| `HistorySyncProofs` | theorems about `HistorySync` | TLAPS |
| `Pricing`, `MCPricing` | rows to sales to estimate to verdict | TLC and TLAPS |
| `PricingProofs` | theorems about `Pricing` | TLAPS |

`Sourcing` extends `Searches`. `Delivery` implements `AlertLedger`, `Discovery` implements
`Round`. `Discovery` and `Delivery` are the detail of what is one step in `Sourcing`:
`RunSearch` (a search, its recording and its `Batch.Add`) and `Alert` (claim, message and
audit row); `PollNamesDistinct`, proved of `Sourcing`, is what `Discovery` assumes of the
names it is given.

### Delivery

The state is the worker's (`pc`, the entries `todo`, the listing `cur`, whether it has a
`listingID`, whether its send failed), Redis's (`claims`, and `late`: commands the worker
gave up on that are still under way), PostgreSQL's (`listings`, `failures`, `successes`)
and Discord's (`posted`). `lapsed` and `blurred` are history variables: how often a
claim went by expiry or loss, and how often the worker lost sight of a message or claim.

Each action is one call of `processItems` taken where the service acts on it, with the
control that follows: `Poll`, `NextEntry`, `EndOfBatch`, `Persist` (`UpsertListing`),
`Evaluate`, `Claim` (`MarkDelivered`), `Send`, `RecordFailure`, `Release` (`Forget`),
`RecordSuccess`, `Pause`, `Exit`. What may become of a call is stated once: `Answered`;
`NoEffect` (the service did not act, or `ctx` was cancelled before the call began);
`Unanswered` (it acted, and the worker sees an error). `Stop`, `Crash`, `Restart`,
`Lapse`, `LateSet`, `LateDel`, `LateLost`, `Appear` and `Vanish` are the environment.

What is abstracted: which listings qualify is a free choice in `Evaluate` (the worker
really consults `Pricing`); message layout and image downloads are part of `Send`, where
a listing that Discord rejects on every retry is a member of `Unsendable`; database
rows are counted, not their contents.

`UpsertListing` may fail in `Delivery` as any call may; that a deleted search makes it fail
without any fault of the database is in `Sourcing`, where deletions are.

The legacy poll without enabled searches, or a worker without `DATABASE_URL`, is
`Attributed = FALSE`: no listing ID, so no audit rows.

### Discovery

One poll: `Start` (the loop that starts the goroutines), then per search `Acquire` or
`Skip` (the `select` on the semaphore and `ctx.Done`), `Search`, `Record`
(`RecordSearchAttempt`, whose error is dropped), `Add` (`Batch.Add` under its mutex),
`Report` (`firstErr`) and `Finish` (the deferred release, then `wait.Done`); `Return` is
`wait.Wait`, `Deliver` reads the batch. `searchIDs` and `foundBy` are the batch's
attribution of each listing, `health` the searches table's. Names of searches are unique
(the table's `UNIQUE`, and one `SELECT` is one snapshot). `foundBy` is what the batch keeps
in `Item.FoundBy`; no alert shows it (section 5).

`Round` says the same without goroutines: a poll begins, completes in one step with an
outcome for every search, a batch and an error that follow from the outcomes, and is
handed on. `OneStep` in `Discovery` instantiates it: while the goroutines run nothing has
happened yet, and when `Return` fires everything has.

### Searches and Sourcing

`Searches` has the table (`rows`, by ID) and its sequence (`nextID`: a failed insert uses
one up, so IDs are never used twice), and one action per handler of `cmd/api/main.go` that
writes: `Create`, `Update`, `SetEnabled`, `DeleteSearch` are one statement each;
`ToggleRead` and `ToggleWrite` are the two statements of the admin page's toggle, and
`ToggleAbandon` is its client going away. `overtaken` is a history variable. A URL is its
host and the form of its prices, which is what `validateSearch` and `JobFromSearchURL`
tell apart, differently.

`Sourcing` lets those handlers run against the worker: `ListSearches` takes the snapshot
(`batch`), `RunSearch` runs one search of it and records its attempt in the table as it is
by then, `UpsertListing` writes listing and attributions in one transaction or nothing,
`Alert` announces. `Delete` takes the attributions along (`ON DELETE CASCADE`). `health`
keeps which search and which URL an attempt was really at, which the table does not.
`spoiled` and `wanted` are history variables: whether a call has failed since the poll
began, and which searches were enabled when it did.

### HistorySync

`Configure` picks the sheet, once per process, or none: nothing is configured, the settings
cannot be read, or the source cannot be set up. `InitialSync` reads it without recording a
success; `SyncHistory`, `Publish` and `Record` are the synchronization before a poll,
`InitialFailed` and `SyncFailed` the error paths; every write may fail on its own.
`Save` is the admin page, `Edit` the sheet's owner, `Elapse` the interval. A sheet is its
header, the set of its valid rows and whether it has invalid ones. `outcome`,
`unsaved` and `found` are history variables: how this process's last synchronization ended,
which of its writes failed, and, if it has no sheet, what it found in the tables. Calls without effect on control (a lost database answer is logged
like any other) need no state of their own.

### Pricing

Pure functions of a bag of sheet rows: `sheet` counts the rows of each kind, and `Entries`
numbers them, so that a set of sales is a set and its size a cardinality. `ParseCSV` says
which rows count, `NormalizedModel`, `normalizeSize` and `normalizeCondition` what their
names become (a known product is recognized in any spelling; a listing's size and condition
are not normalized, so a "very good" one has no segment), `Estimate` chooses segment,
model, rule or nothing, `Evaluate` is the gate. `RobustEstimate` takes the code's indices
into `Sorted`, the sorted prices, whose k-th element is the price with at most k sales
below it and more than k at or below it: the same sequence `sort` gives, stated by
counting, so that it can be reasoned about. The order of rows is thereby abstracted.
`AddRow` grows the sheet, so every bag up to the bound is a state, and a property can
compare an estimate with the one before.

## 3. The runs

| Run | Shows | Bounds | Result |
|---|---|---|---|
| `delivery` | safety of delivery under every kind of failure, liveness, refinement of `AlertLedger` | 2 listings (one `Unsendable`), 1 fault, 1 stop, 1 crash, 1 lapse per told listing; 738 k states | holds |
| `delivery_shutdown` | README.md:143 "A failed Discord send releases the Redis claim", of a send Discord never got | 1 stop, no fault | **violated** |
| `delivery_lost_ack` | main.go:152 "so a later poll cannot send it twice" | 1 fault | **violated** |
| `discovery` | safety of a poll, no deadlock among its goroutines, refinement of `Round`, `RunOnce` returns | 3 searches on 2 slots, overlapping results, a stop anywhere; 470 k states | holds |
| `sourcing` | what polls make of searches that change under them, safety and liveness | 2 searches and room for a third, 3 URLs, 1 listing, 2 writing requests, 1 failure; 117 k states | holds |
| `sourcing_deleted` | README.md:143 "persists the record, then claims and sends" | 1 request, no failure | **violated** |
| `history_sync` | agreement of the places with a sheet and without, retention and freshness of prices, polling goes on | 2 sheets in every content, 1 fault, 1 edit, 1 save, 1 crash; 194 k states | holds |
| `history_invalid_rows` | README.md:100 "Invalid rows ... do not replace the last valid snapshot" | 1 edit | **violated** |
| `history_new_sheet` | PRD line 444 "The next synchronization should use the newly configured sheet" | 1 save | **violated** |
| `pricing` | the estimate against a reference median, and its stability | every bag of at most 10 rows of 5 kinds | holds |
| `pricing_own_name` | import.go:15 "Normalized* fields are used for matching" | 8 rows | **violated** |
| `pricing_incomplete` | PRD line 396 "tolerate incomplete historical rows" | 1 row | **violated** |

Why these bounds are enough to be interesting:

- Two listings are one to be in hand and one to be waiting, claimed or poisonous; every
  delivery property is per listing, except `SilenceAccounted`, which counts them. One of
  each failure, in any order, includes a failed call whose repair fails too (a stop, or
  a crash, after a fault). For more of
  them, more listings and `qualified` mode the safety invariants and the refinement are
  proved (section 4); the liveness properties are checked for this instance only.
- Three searches on two slots leave one waiting while another finishes; all overlap on
  one listing. `SEARCH_CONCURRENCY` below one becomes one (`limit`).
- In `Sourcing` two requests are what it takes to delete a search and give its name to a
  new one, or to edit a search twice under a poll; the third ID is for the new one. One
  toggle is enough, for what overtakes it may as well be `SetEnabled` or `Update`. Both
  searches find the listing, so deleting one shows what becomes of the other's
  attribution. Any number of requests, toggles and searches is left to the proofs.
- In `HistorySync` a fault, an edit, a save and a crash, in any order, put any two of the
  three places out of step, and a process without a sheet (the fault at its startup) follows
  one that has published and recorded.
- Ten rows are the first count at which `len/10` trims at all, and include the thresholds
  5 and 8 from both sides, with odd and even samples.

Every property of a passing run is broken by a mutant: an operator beside the definition
it replaces that makes a plausible mistake (a `SET` without `NX`, a slot not released on
error, a startup synchronization that counts as the first one).

### Fairness

- `Delivery`: weak fairness of the worker's steps (one goroutine; Redis has a deadline of
  5 s and Discord one of 15 s; the ticker fires again). The PostgreSQL calls take a context
  without a deadline: that PostgreSQL answers or fails in the end is an assumption. Weak
  fairness also of `Restart` (`restart: always`) and of the expiry of a claim that silences
  a listing (TTL of 30 days). Nothing is assumed of other lapses, of late commands, of the
  market or of failures; faults are bounded, which stands for "failures end".
- `Discovery`: weak fairness of every goroutine (the Go scheduler; a search ends because
  its client has a 30 s timeout and three attempts) and of the main goroutine.
  `RecordSearchAttempt` runs with `context.Background()`: that it ends is the same assumption
  about PostgreSQL, and so is every database call of `Sourcing` and `HistorySync`.
- `Sourcing`: weak fairness of the worker, whose every step is one of `Discovery` or
  `Delivery` that has just been argued for. Nothing is assumed of the admin, who may stop
  anywhere, between the two statements of a toggle too; failures are bounded.
- `HistorySync`: weak fairness of the worker, of `Elapse` and of `Restart`. That a
  read of Google Sheets ends is an assumption about its client (see section 5).

## 4. What is proved

For every value of the constants, from the named assumptions on them alone, each of these
properties of a passing run is a theorem too:

| Module | Theorems (property) |
|---|---|
| `DeliveryProofs` | `TypeCorrect` (`TypeOK`), `AlwaysBacked` (`Backed`), `NoDuplicate` (`NoUnexplainedDuplicate`), `ImplementsLedger` (`LedgerSpec`), `SilenceIsAccounted` (`SilenceAccounted`), `AuditIsHonest` (`AuditHonest`) |
| `DiscoveryProofs` | `TypeCorrect` (`TypeOK`), `NoSlotLost` (`BoundedConcurrency`), `AttributionIsExact` (`Attribution`), `NamesAreExact` (`FoundByNames`), `ErrorsAreReported` (`ErrorReported`), `HealthIsTrue` (`HealthIsOutcome`), `NoDeadlock` (`NeverStuck`), `BatchIsComplete` (`CompleteBatch`), `ImplementsRound` (`RoundSpec`) |
| `SourcingProofs` | `TypeCorrect` (`TypeOK`), `NamesStayDistinct` (`PollNamesDistinct`), `NoRecordWithoutReason` (`RecordedOrReason`), `PollTellsHealth` (`HealthOfPoll`), `PollsSurface` (`PollSurfaces`), `TogglesFlip` (`ToggleFlips`) |
| `HistorySyncProofs` | `TypeCorrect` (`TypeOK`), `PlacesAlwaysAgree` (`PlacesAgree`), `LastGoodIsRetained` (`LastGoodRetained`) |
| `PricingProofs` | `EstimateIsMedianThm` (`EstimateIsMedian`), `QualifiedPaysOffThm` (`QualifiedPaysOff`), `OneSaleNeverDecidesThm` (`OneSaleNeverDecides`) |

`Delivery`, from `DeliveryAssumption`:

- `NoUnexplainedDuplicate` is not inductive: it says nothing of a message about to be
  sent. `Backed` is: the messages out *plus the one being sent* never exceed the claim
  held plus the excuses. A claim adds one to both sides, a release takes the claim only
  when nothing is pending, and a lapse or a late `DEL` turns a claim into an excuse.
- `ImplementsLedger` follows from `Backed`: a `Send` that Discord accepts happens with a
  claim pending, so `posted[i] <= lapsed[i] + blurred[i]` before it, which is the guard of
  `Tell` and `TellUnheard`; `Lapse` and `LateDel` map to `Excuse`, the rest stutters.
- `SilenceAccounted` counts listings, so its proof needs the finiteness of `claims` and
  `late` (they start empty and grow by one), and a strengthening: `SilenceInv` adds
  `Doomed`, the listing in hand when a stop has already made its send and release fail,
  to what must be paid for. Each action changes the count by one listing at most.
- `AuditHonest` needs to know that a worker about to write an audit row has persisted the
  listing, and that one about to record a success has a message out without a row
  (`AuditInv`).

`Discovery`, from `DiscoveryAssumption` (finitely many searches, with names of their own):

- `Shape` is types plus the life of a goroutine: goroutines exist for the searches of the
  poll and outlive no poll (`Lifetime`), and a search has found or failed only once it has
  run, never both (`Fates`).
- The semaphore's count is inductive only as an equation: `Slots` says it *equals* the
  number of searches between their acquire and their release, so that no path loses one.
  `NeverStuck` follows: were nobody at work, the semaphore would be empty, and whoever
  waits could enter. It is the safety half of `RunReturns`, for any number of searches
  and slots.
- `Blame` (the first error is that of a search that failed, and is set once such a search
  has reported) and `Health` (a recorded attempt is over and its outcome stands) give the
  error and the health. `CompleteBatch` follows from `Shape`, `Slots` and `Attribution`.
- `ImplementsRound`: `Return` is the step that maps to `Complete`; by the invariants its
  outcomes, batch and error are ones that `Complete` allows.

`Sourcing`, from `SearchesAssumption` and `SourcingAssumption`:

- The handlers keep the table well typed, its names unique, and *grown*: no ID appears but
  `nextID`. `Working` says that the snapshot's IDs stay below `nextID`. Together: a search
  gone from the table stays gone for the snapshot, whoever takes its name. Without it
  `RecordedOrReason` is not inductive, for a new search could claim an attribution that
  was never written. It also says that a poll that began with enabled searches delivers only
  listings one of them found, which is why the environment's query is no way out of
  `RecordedOrReason` for such a poll, whatever call fails.
- `ReadsTrue` is the toggle's invariant: what it has read is true until a write of the same
  search overtakes it; it needs the same fact about IDs when a search is deleted.
- `PollSurfaces` speaks of the end of a poll only. Its invariant follows a listing there:
  while no call has failed, `searchIDs` are exactly the polled searches that find it
  (`Found`), and a listing that is no longer an entry is in hand or told, with its
  attributions as far as their searches exist (`Handled`). `Handled` would break if an ID
  came back, since its attribution went with the deleted search: `Grown` and `Working`
  again (`GoneStaysGone`).
- `HealthOfPoll` is inductive with `Pace` (nothing is pending outside the search phase,
  and an idle worker holds no snapshot) and because `RecordSearchAttempt` goes by ID.

`HistorySync`, from `HistorySyncAssumption`: `PlacesInv` says of every point between the
writes which of the three places are already new, and that a process which has not
synchronized yet can only do that next; of a process without a sheet, that it holds no
prices and that nothing has written to either place since `found` was taken. At the poll it
is `PlacesAgree`.

`Pricing`, from `PricingAssumption` (finitely many kinds of rows, whole amounts, known
targets), for every sheet:

- A *rank* is a pair of counts: `c` has rank k when at most k sales are below it and more
  than k are at or below it. `RankTaken` says that every k below the number of sales is the
  rank of some sale's price, and `RankOfOne` that it is of one only; so `Sorted`, defined
  by choice, is what it should be (`SortedAt`), and it ascends (`SortedUp`). That there is
  a lowest price with enough sales at or below it needs a least element, which comes from
  the well-foundedness of `<` on `Nat` (`NatMin`, `Least`) rather than from induction.
- `EstimateIsMedian`: a tenth off both ends leaves the middle indices where they were
  (`TrimmedMiddle`, for odd and even counts), the elements there are the medians by
  counting (`Medians`), and the ends of the range have at most a tenth beyond them
  (`TrimmedTenth`).
- `QualifiedPaysOff`: half of the sales are at or above the upper median, which is at or
  above the estimate (`HalfPaid`).
- `OneSaleNeverDecides` compares two sheets. The k-th price with one sale more lies between
  the k-1st and the k-th without it (`Interlaced`); with the parity of the count that
  gives `OneSaleMoves`. `SheetGrows` and `ComparablesGrow` carry it to the state.
- The inductive invariant is only that the sheet is one and that `estimate` is what it
  says (`PricingInv`); all else are lemmas about the operators.

Only model-checked: the liveness properties (`EventuallyTold`, `StopEnds`, `RunReturns`,
`EventuallySurfaced`, `HealthCatchesUp`, `Freshens`, `PollsGoOn`), which are out of the
prover's reach, and the runs that find a violation. `NeverStuck`, `PollSurfaces` and
`HealthOfPoll` are what can be proved of three of them: that nothing waits for good in a
poll, and what one poll without failures achieves.

## 5. What is not modelled

- **A read of Google Sheets that never ends.** It would stop polling and ignore SIGTERM,
  since it runs before the poll with `context.Background()`; whether it can happen
  depends on the client library's transport, which is not in this repository. That reads
  which *fail* never stop polling is `PollsGoOn`.
- **The Vinted client's retries** (`doWithRetry`): at most three attempts in a sequential
  loop without state of its own; `Search` is their outcome. Building URLs and decoding
  JSON is formatting.
- **Listings pushed off the first page**: each search reads page 1, the 96 newest. The PRD
  (lines 7 and 19) promises that every listing of a configured search is detected and
  announced, and the code does not do that for a search that gets more than a page between
  two polls; how fast a page fills is not in this repository. In `Delivery` such a listing
  vanishes, so `EventuallyTold` says nothing of it.
- **The names in an alert**: README.md:12 and README.md:15 promise the source searches in
  Discord alerts. The batch keeps them (`Item.FoundBy`, exact by `FoundByNames`), but
  `SendListing` shows neither them nor anything made of them, and nothing else reads them.
  The code disagrees with its documentation here; since no message content is modelled, no
  run shows it.
- **A stale page**: a worker restarted without a sheet (the admin disabled it, the settings
  could not be read, the credentials do not parse) prices from nothing, and the admin page
  goes on showing the counts of the process before, without an error. The repository does
  not say what it should show; `PlacesAgree` states that this is so.
- **The edit form's lost update**: the page writes back every field as it was shown, so the
  last writer wins. `Update` writes any fields at any time, which includes it; the
  repository promises nothing that it could break.
- **A claim by two workers**: Compose runs one.
- **The recent-listings query, templates, authorization, message layout, logging,
  environment parsing**: no state a property is about. The table `evaluations` has no
  writer, the rows of `sales_history` have one (postgres.go:250) and no reader, and
  **condition analysis** has no caller.
- In `Pricing`: parsing of amounts and dates, decimal spellings of sizes, ROI.
  The worker's scraper leaves a listing's condition empty, so in `qualified` mode no
  scraped listing qualifies (README.md:80 says an unknown condition is intentionally not
  qualified); `Listings` of the model has assessed conditions too.

## 6. Plan

What would add most next:

1. A single specification of the whole worker, with `HistorySync`'s prices deciding
   `Evaluate` in `Delivery`, refined by the modules here.
2. `doWithRetry` and the two requests of a search as a refinement of `Search`.
