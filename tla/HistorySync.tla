---------------------------- MODULE HistorySync ----------------------------
(***************************************************************************)
(* How the reseller's Google Sheet becomes the prices listings are         *)
(* evaluated with: the settings row the admin page writes (cmd/api), the   *)
(* syncer the worker configures once, at startup, and the synchronization  *)
(* that precedes a poll when the last one is old enough (cmd/worker,       *)
(* internal/historysync).                                                  *)
(*                                                                         *)
(* The prices live in three places: the worker's memory (the only one the  *)
(* estimator reads), the history_snapshots tables, and as row counts in    *)
(* history_source, next to the settings, for the admin page.               *)
(*                                                                         *)
(* These calls take context.Background(), so SIGTERM reaches none of them  *)
(* but the one that loads the settings, where it is a fault; the exit it   *)
(* leads to is one of the process's deaths.  DATABASE_URL is set.          *)
(***************************************************************************)
EXTENDS Integers, FiniteSets

CONSTANTS
  Sheets,       \* worksheets that can be read or configured
  NoSheet,      \* no source: historySyncer is nil, the row's empty URL
  Sales,        \* completed sales a sheet may list
  EnvSheet,     \* GOOGLE_SHEET_ID and GOOGLE_WORKSHEET, or NoSheet
  Credentials,  \* GOOGLE_SERVICE_ACCOUNT_JSON is set
  MaxFaults,    \* bound: calls that fail
  MaxEdits,     \* bound: edits of a sheet
  MaxSaves,     \* bound: saves of the settings
  MaxCrashes    \* bound: deaths of the worker

ASSUME HistorySyncAssumption ==
  /\ NoSheet \notin Sheets
  /\ EnvSheet \in Sheets \cup {NoSheet}
  /\ Credentials \in BOOLEAN
  /\ IsFiniteSet(Sales)
  /\ {MaxFaults, MaxEdits, MaxSaves, MaxCrashes} \subseteq Nat

VARIABLES
  pc,         \* where the worker stands
  historySyncer, \* the sheet the worker's syncer reads
  lastSync,   \* lastHistorySync: "never", "recent" or older than the interval
  prices,     \* salesHistory
  taken,      \* the snapshot of the synchronization under way
  contents,   \* contents[s]: what sheet s holds
  settings,   \* history_source: the admin's choice
  status,     \* history_source: the last synchronization, for the admin page
  published,  \* the sales of the newest row of history_snapshots
  outcome,    \* of this process's last synchronization (history variable)
  unsaved,    \* writes it made that failed (history variable)
  found,      \* what it found in the tables, if it has no sheet (history variable)
  faults, edits, saves, crashes   \* how much of each bound is used

budget == <<faults, edits, saves, crashes>>
tables == <<status, published, unsaved, found>>
memory == <<historySyncer, lastSync, prices, taken, outcome>>
vars   == <<pc, memory, contents, settings, tables, budget>>

\* A worksheet: a header row, rows that parse and rows that do not.  A sheet
\* whose header lacks a required column has rows that do not parse.
Blank    == [header |-> FALSE, valid |-> {}, invalid |-> 0]
Contents == {Blank} \cup [header : {TRUE}, valid : SUBSET Sales, invalid : 0..1]
Writes   == {"snapshot", "status"}
Status   == [error : BOOLEAN, accepted : Nat, rejected : Nat]

TypeOK ==
  /\ pc \in {"down", "boot", "initial", "initialFailed", "idle", "run",
             "failed", "publish", "record", "poll"}
  /\ historySyncer \in Sheets \cup {NoSheet}
  /\ lastSync \in {"never", "recent", "old"}
  /\ prices \subseteq Sales
  /\ taken \in Contents
  /\ contents \in [Sheets -> Contents]
  /\ settings \in [sheet : Sheets \cup {NoSheet}, enabled : BOOLEAN]
  /\ status \in Status
  /\ published \subseteq Sales
  /\ outcome \in {"none", "ok", "error"}
  /\ unsaved \subseteq Writes
  /\ found \subseteq [status : Status, published : SUBSET Sales]
  /\ {faults, edits, saves, crashes} \subseteq Nat

Init ==
  /\ pc = "boot"
  /\ historySyncer = NoSheet
  /\ lastSync = "never"
  /\ prices = {}
  /\ taken = Blank
  /\ contents \in [Sheets -> Contents]
  /\ settings = [sheet |-> NoSheet, enabled |-> FALSE]
  /\ status = [error |-> FALSE, accepted |-> 0, rejected |-> 0]
  /\ published = {}
  /\ outcome = "none"
  /\ unsaved = {}
  /\ found = {}
  /\ faults = 0 /\ edits = 0 /\ saves = 0 /\ crashes = 0

Fault ==
  /\ faults < MaxFaults
  /\ faults' = faults + 1
  /\ UNCHANGED <<edits, saves, crashes>>

-----------------------------------------------------------------------------
(* Startup.                                                                *)

\* configureEnvironmentHistorySyncer
Environment == IF Credentials THEN EnvSheet ELSE NoSheet

\* configureHistorySyncer, given the settings it read.
Choice == IF settings.enabled
          THEN IF Credentials THEN settings.sheet ELSE NoSheet
          ELSE Environment

\* The settings are read here and never again; if they cannot be read the
\* environment decides.  A source that cannot be set up (credentials that do
\* not parse) leaves the worker without a sheet.
Configure ==
  /\ pc = "boot"
  /\ \/ historySyncer' = Choice /\ UNCHANGED budget
     \/ historySyncer' = Environment /\ Fault
     \/ historySyncer' = NoSheet /\ Credentials /\ Fault
  /\ IF historySyncer' = NoSheet
     THEN pc' = "run" /\ found' = {[status |-> status, published |-> published]}
     ELSE pc' = "initial" /\ UNCHANGED found
  /\ UNCHANGED <<lastSync, prices, taken, outcome, contents, settings, status, published, unsaved>>

\* Syncer.Sync: rows that do not parse are set aside and the rest is the new
\* snapshot, if it is empty too.  Only a read that fails or finds no header
\* row is an error.
Readable(c) == c.header /\ UNCHANGED budget

Unreadable(c) == Fault \/ (~c.header /\ UNCHANGED budget)

\* Mutant: the startup synchronization counts as the first one.
InitialSyncCounts ==
  /\ pc = "initial"
  /\ LET sheet == contents[historySyncer] IN
     \/ Readable(sheet) /\ prices' = sheet.valid /\ outcome' = "ok" /\ pc' = "run"
     \/ Unreadable(sheet) /\ outcome' = "error" /\ pc' = "initialFailed" /\ UNCHANGED prices
  /\ lastSync' = "recent"
  /\ UNCHANGED <<historySyncer, taken, contents, settings, tables>>

\* The Sync at startup.  Its success is recorded nowhere, and it does not
\* set lastHistorySync: the first run synchronizes again.
InitialSync ==
  /\ pc = "initial"
  /\ LET sheet == contents[historySyncer] IN
     \/ Readable(sheet) /\ prices' = sheet.valid /\ outcome' = "ok" /\ pc' = "run"
     \/ Unreadable(sheet) /\ outcome' = "error" /\ pc' = "initialFailed" /\ UNCHANGED prices
  /\ UNCHANGED <<historySyncer, lastSync, taken, contents, settings, tables>>

-----------------------------------------------------------------------------
(* RecordHistorySync and ReplaceSalesHistorySnapshot: one statement and    *)
(* one transaction; their errors are only logged, so a lost answer is as   *)
(* good as an answer.                                                      *)

Saved(write) == unsaved' = unsaved \ {write} /\ UNCHANGED budget
Lost(write)  == unsaved' = unsaved \cup {write} /\ Fault

\* An error leaves the time and the counts of the last success.
RecordError(after) ==
  /\ \/ Saved("status") /\ status' = [status EXCEPT !.error = TRUE]
     \/ Lost("status") /\ UNCHANGED status
  /\ pc' = after
  /\ UNCHANGED <<memory, contents, settings, published, found>>

\* Mutant: logger.Fatal instead of logger.Error.
InitialFailedFatal == pc = "initialFailed" /\ RecordError("down")

InitialFailed == pc = "initialFailed" /\ RecordError("run")

SyncFailed    == pc = "failed" /\ RecordError("poll")

Publish ==
  /\ pc = "publish"
  /\ \/ Saved("snapshot") /\ published' = taken.valid
     \/ Lost("snapshot") /\ UNCHANGED published
  /\ pc' = "record"
  /\ UNCHANGED <<memory, contents, settings, status, found>>

\* Mutant: the rejected rows are taken off the accepted ones again.
RecordNet ==
  /\ pc = "record"
  /\ \/ /\ Saved("status")
        /\ status' = [error |-> FALSE,
                      accepted |-> Cardinality(taken.valid) - taken.invalid,
                      rejected |-> taken.invalid]
     \/ Lost("status") /\ UNCHANGED status
  /\ pc' = "poll"
  /\ taken' = Blank
  /\ UNCHANGED <<historySyncer, lastSync, prices, outcome, contents, settings, published, found>>

\* Whether or not Publish succeeded; syncHistory returns.
Record ==
  /\ pc = "record"
  /\ \/ /\ Saved("status")
        /\ status' = [error |-> FALSE, accepted |-> Cardinality(taken.valid),
                      rejected |-> taken.invalid]
     \/ Lost("status") /\ UNCHANGED status
  /\ pc' = "poll"
  /\ taken' = Blank
  /\ UNCHANGED <<historySyncer, lastSync, prices, outcome, contents, settings, published, found>>

-----------------------------------------------------------------------------
(* The poll loop.                                                          *)

\* Mutant: without the interval clause only the first run synchronizes.
DueOnce == historySyncer # NoSheet /\ lastSync = "never"

\* A zero lastHistorySync is due at once.
Due == historySyncer # NoSheet /\ lastSync # "recent"

\* Mutant: salesHistory is assigned before the error is looked at.
SyncHistoryAssignsFirst ==
  /\ pc = "run"
  /\ Due
  /\ lastSync' = "recent"
  /\ LET sheet == contents[historySyncer] IN
     \/ /\ Readable(sheet)
        /\ prices' = sheet.valid /\ taken' = sheet /\ outcome' = "ok"
        /\ pc' = "publish"
     \/ /\ Unreadable(sheet)
        /\ prices' = {} /\ outcome' = "error"
        /\ pc' = "failed"
        /\ UNCHANGED taken
  /\ UNCHANGED <<historySyncer, contents, settings, tables>>

\* syncHistory at the head of run.  lastHistorySync is set whatever comes of
\* it, so a failed read is repeated only when the interval has passed.
SyncHistory ==
  /\ pc = "run"
  /\ Due
  /\ lastSync' = "recent"
  /\ LET sheet == contents[historySyncer] IN
     \/ /\ Readable(sheet)
        /\ prices' = sheet.valid /\ taken' = sheet /\ outcome' = "ok"
        /\ pc' = "publish"
     \/ Unreadable(sheet) /\ outcome' = "error" /\ pc' = "failed" /\ UNCHANGED <<prices, taken>>
  /\ UNCHANGED <<historySyncer, contents, settings, tables>>

SyncNotDue ==
  /\ pc = "run"
  /\ ~Due
  /\ pc' = "poll"
  /\ UNCHANGED <<memory, contents, settings, tables, budget>>

\* The searches, and the listings evaluated with prices (module Delivery).
Poll ==
  /\ pc = "poll"
  /\ pc' = "idle"
  /\ UNCHANGED <<memory, contents, settings, tables, budget>>

Tick ==
  /\ pc = "idle"
  /\ pc' = "run"
  /\ UNCHANGED <<memory, contents, settings, tables, budget>>

\* HISTORY_SYNC_INTERVAL_MIN passes.
Elapse ==
  /\ lastSync = "recent"
  /\ lastSync' = "old"
  /\ UNCHANGED <<pc, historySyncer, prices, taken, outcome, contents, settings, tables, budget>>

Crash ==
  /\ pc # "down"
  /\ crashes < MaxCrashes
  /\ crashes' = crashes + 1
  /\ pc' = "down"
  /\ historySyncer' = NoSheet
  /\ lastSync' = "never"
  /\ prices' = {}
  /\ taken' = Blank
  /\ outcome' = "none"
  /\ unsaved' = {}
  /\ found' = {}
  /\ UNCHANGED <<contents, settings, status, published, faults, edits, saves>>

\* docker-compose: restart: always.  The snapshots in PostgreSQL are not
\* read back.
Restart ==
  /\ pc = "down"
  /\ pc' = "boot"
  /\ UNCHANGED <<memory, contents, settings, tables, budget>>

-----------------------------------------------------------------------------
(* The admin page and the sheets' owner.                                   *)

\* SaveHistorySource, after validateHistorySource: the upsert leaves the
\* status columns of the row alone.
Save(s, e) ==
  /\ saves < MaxSaves
  /\ saves' = saves + 1
  /\ settings' = [sheet |-> s, enabled |-> e]
  /\ UNCHANGED <<pc, memory, contents, tables, faults, edits, crashes>>

Edit(s, c) ==
  /\ edits < MaxEdits
  /\ c # contents[s]
  /\ edits' = edits + 1
  /\ contents' = [contents EXCEPT ![s] = c]
  /\ UNCHANGED <<pc, memory, settings, tables, faults, saves, crashes>>

-----------------------------------------------------------------------------

Worker ==
  \/ Configure \/ InitialSync \/ InitialFailed
  \/ SyncHistory \/ SyncNotDue \/ SyncFailed \/ Publish \/ Record
  \/ Poll \/ Tick

Next ==
  \/ Worker \/ Elapse \/ Crash \/ Restart
  \/ \E s \in Sheets : \/ \E e \in BOOLEAN : Save(s, e)
                       \/ \E c \in Contents : Edit(s, c)

Spec == Init /\ [][Next]_vars

\* The ticker fires again after every poll, the interval passes while the
\* worker runs, and Compose restarts it.
Fairness == WF_vars(Worker) /\ WF_vars(Elapse) /\ WF_vars(Restart)

FairSpec == Spec /\ Fairness

-----------------------------------------------------------------------------
(* What should hold.                                                       *)

\* When listings are evaluated with a sheet, the admin page tells the truth
\* about the prices they are evaluated with: unless a write failed, it shows
\* an error exactly if this process's last synchronization failed, and
\* otherwise the counts, and the newest snapshot in PostgreSQL, are those of
\* the prices in memory, although the startup synchronization is recorded
\* nowhere.
SheetPlacesAgree ==
  /\ outcome # "none"
  /\ "status" \notin unsaved => (status.error <=> outcome = "error")
  /\ ("status" \notin unsaved /\ outcome = "ok") => status.accepted = Cardinality(prices)
  /\ ("snapshot" \notin unsaved /\ outcome = "ok") => published = prices

\* Without a sheet listings are evaluated without prices, and the page and
\* the newest snapshot go on telling of the process before: nothing clears
\* its counts, and no error is recorded that would say they are stale.
NoSheetPlacesStay ==
  /\ prices = {} /\ outcome = "none"
  /\ found = {[status |-> status, published |-> published]}

\* What the page and the snapshots say of the prices in use is of this
\* process if it has a sheet, and untouched since the last one if not.
PlacesAgree ==
  pc = "poll" => IF historySyncer # NoSheet THEN SheetPlacesAgree ELSE NoSheetPlacesStay

\* While the process lives, a synchronization that fails costs no prices:
\* they change only to what a readable sheet holds ("retaining last good
\* pricing snapshot").
LastGoodRetained ==
  [][prices' # prices =>
       \/ pc' = "down"
       \/ /\ contents[historySyncer].header
          /\ prices' = contents[historySyncer].valid]_vars

\* A sheet that stays readable and unchanged is what listings are priced
\* with in the end, whatever failed before.
Freshens ==
  \A s \in Sheets, c \in Contents :
    (historySyncer = s /\ contents[s] = c /\ c.header)
      ~> (prices = c.valid \/ historySyncer # s \/ contents[s] # c)

\* Listings are polled again and again whatever becomes of the history, a
\* sheet that can never be read included ("using fallback pricing",
\* cmd/worker/main.go:73): sourcing does not depend on pricing.
PollsGoOn == []<>(pc = "poll")

\* What README.md:100 says: "Invalid rows are reported and do not replace
\* the last valid snapshot."
InvalidRowsReplaceNothing ==
  [][(pc = "run" /\ pc' = "publish" /\ taken'.valid = {} /\ taken'.invalid > 0)
       => prices' = prices]_vars

\* What the PRD says of a saved Google Sheet link (line 444): "The next
\* synchronization should use the newly configured sheet."
NextSyncUsesSavedSheet ==
  [][(pc = "run" /\ pc' = "publish") => historySyncer = Choice]_vars

=============================================================================
