------------------------------ MODULE Sourcing ------------------------------
(***************************************************************************)
(* From the searches an admin edits to the alerts and records they lead    *)
(* to: the worker polls the searches of module Searches while requests go  *)
(* on changing them, attributes the listings it finds, and announces them. *)
(*                                                                         *)
(* The worker works on the snapshot ListSearches gave it; PostgreSQL knows *)
(* the searches by ID only, so what the snapshot and the table disagree on *)
(* shows when an attempt is recorded and when a listing is persisted.      *)
(* What modules Discovery and Delivery have in detail is one step here: a  *)
(* search with its recording and its Batch.Add (RunSearch), a listing's    *)
(* claim, message and audit row (Alert).                                   *)
(***************************************************************************)
EXTENDS Searches, FiniteSets

CONSTANTS
  Items,        \* listings, by external ID
  NoItem,       \* "no listing in hand"
  NoAttempt,    \* a search that was never attempted
  Finds,        \* Finds[url]: the listings Vinted shows for it
  LegacyFinds,  \* the listings it shows for SEARCH_QUERY
  MaxFaults     \* bound: calls that fail, and deaths of the worker

ASSUME SourcingAssumption ==
  /\ NoItem \notin Items
  /\ Finds \in [URLs -> SUBSET Items]
  /\ LegacyFinds \subseteq Items
  /\ MaxFaults \in Nat

VARIABLES
  phase,         \* where the worker stands
  batch,         \* the searches of this poll, as ListSearches returned them
  pending,       \* those that have not run yet
  searchIDs,     \* searchIDs[i]: the batch's attribution of i
  entries,       \* listings processItems has still to visit
  wanted,        \* the searches enabled when this poll began (history variable)
  cur,           \* the listing in hand
  listingID,     \* UpsertListing gave a non-zero ID for cur
  upsertFault,   \* the database failed that call (history variable)
  health,        \* health[id]: the last attempt the table shows for search id
  listings,      \* listings with a row in PostgreSQL
  attributions,  \* listing_searches
  told,          \* listings announced on Discord
  audited,       \* listings with a successful notification_deliveries row
  faults,        \* how much of MaxFaults is used
  spoiled        \* a call failed since the poll began (history variable)

poll    == <<phase, batch, pending, searchIDs, entries, wanted>>
hand    == <<cur, listingID, upsertFault>>
records == <<health, listings, attributions>>
alerts  == <<told, audited>>
failing == <<faults, spoiled>>
vars    == <<table, poll, hand, records, alerts, failing>>

Attempt == [by : IDs, url : URLs, ok : BOOLEAN]
Empty   == [id \in {} |-> id]

\* Besides the types, the foreign keys of listing_searches.
TypeOK ==
  /\ SearchesTypeOK
  /\ phase \in {"idle", "searching", "delivering"}
  /\ DOMAIN batch \subseteq IDs
  /\ batch \in [DOMAIN batch -> Row]
  /\ pending \subseteq DOMAIN batch
  /\ searchIDs \in [Items -> SUBSET DOMAIN batch]
  /\ entries \subseteq Items
  /\ wanted \subseteq IDs
  /\ cur \in Items \cup {NoItem}
  /\ listingID \in BOOLEAN
  /\ upsertFault \in BOOLEAN
  /\ health \in [IDs -> Attempt \cup {NoAttempt}]
  /\ listings \subseteq Items
  /\ attributions \subseteq listings \X DOMAIN rows
  /\ told \subseteq Items
  /\ audited \subseteq told \cap listings
  /\ faults \in 0..MaxFaults
  /\ spoiled \in BOOLEAN

NoPoll ==
  /\ phase' = "idle"
  /\ batch' = Empty
  /\ pending' = {}
  /\ searchIDs' = [i \in Items |-> {}]
  /\ entries' = {}
  /\ wanted' = {}

NoHand ==
  /\ cur' = NoItem
  /\ listingID' = FALSE
  /\ upsertFault' = FALSE

Init ==
  /\ SearchesInit
  /\ phase = "idle"
  /\ batch = Empty
  /\ pending = {}
  /\ searchIDs = [i \in Items |-> {}]
  /\ entries = {}
  /\ wanted = {}
  /\ cur = NoItem
  /\ listingID = FALSE
  /\ upsertFault = FALSE
  /\ health = [id \in IDs |-> NoAttempt]
  /\ listings = {}
  /\ attributions = {}
  /\ told = {}
  /\ audited = {}
  /\ faults = 0
  /\ spoiled = FALSE

Fault ==
  /\ faults < MaxFaults
  /\ faults' = faults + 1
  /\ spoiled' = TRUE

\* A poll begins in which nothing has failed yet.
Fresh == spoiled' = FALSE /\ UNCHANGED faults

-----------------------------------------------------------------------------
(* The poll.                                                               *)

\* Mutant: an error of ListSearches is taken for "no enabled searches".
ListOrLegacy ==
  /\ phase = "idle"
  /\ \/ /\ Enabled # {}
        /\ phase' = "searching"
        /\ batch' = Restrict(rows, Enabled)
        /\ pending' = Enabled
        /\ Fresh
        /\ UNCHANGED entries
     \/ /\ (Enabled = {} /\ Fresh) \/ Fault
        /\ phase' = "delivering"
        /\ entries' = LegacyFinds
        /\ UNCHANGED <<batch, pending>>
  /\ wanted' = Enabled
  /\ UNCHANGED <<table, searchIDs, hand, records, alerts>>

\* Mutant: the worker goes on with the searches there were when it started.
ListOnce ==
  /\ phase = "idle"
  /\ phase' = "searching"
  /\ batch' = FirstRows
  /\ pending' = DOMAIN FirstRows
  /\ Fresh
  /\ wanted' = Enabled
  /\ UNCHANGED <<table, searchIDs, entries, hand, records, alerts>>

\* run: ListSearches(enabledOnly), one statement and so one snapshot.  If it
\* fails there is no poll; without enabled searches the environment's
\* SEARCH_QUERY is polled, whose listings have no search.
ListSearches ==
  /\ phase = "idle"
  /\ \/ /\ Enabled # {}
        /\ phase' = "searching"
        /\ batch' = Restrict(rows, Enabled)
        /\ pending' = Enabled
        /\ wanted' = Enabled
        /\ Fresh
        /\ UNCHANGED entries
     \/ /\ Enabled = {}
        /\ phase' = "delivering"
        /\ entries' = LegacyFinds
        /\ wanted' = {}
        /\ Fresh
        /\ UNCHANGED <<batch, pending>>
     \/ Fault /\ UNCHANGED <<phase, batch, pending, entries, wanted>>
  /\ UNCHANGED <<table, searchIDs, hand, records, alerts>>

\* JobFromSearchURL wants whole prices, which validateSearch never checked.
JobFromSearchURL(url) == url.host \in {"vinted.de", "vinted.fr"} /\ url.prices = "whole"

\* Mutant: UPDATE searches ... WHERE name instead of id.
RecordByName(id, ok) ==
  health' = [other \in IDs |->
               IF other \in DOMAIN rows /\ rows[other].name = batch[id].name
               THEN [by |-> id, url |-> batch[id].url, ok |-> ok]
               ELSE health[other]]

\* Mutant: a failed attempt is recorded only in the log.
RecordSuccessOnly(id, ok) ==
  health' = IF id \in DOMAIN rows /\ ok
            THEN [health EXCEPT ![id] = [by |-> id, url |-> batch[id].url, ok |-> ok]]
            ELSE health

\* RecordSearchAttempt: UPDATE searches ... WHERE id, which updates nothing
\* if the search is gone, and whatever URL it has by now.
RecordSearchAttempt(id, ok) ==
  health' = IF id \in DOMAIN rows
            THEN [health EXCEPT ![id] = [by |-> id, url |-> batch[id].url, ok |-> ok]]
            ELSE health

\* The callback of RunOnce for one search: what Vinted shows for the URL of
\* the snapshot, then the recording, whose error is dropped.
RunSearch(id) ==
  /\ phase = "searching"
  /\ id \in pending
  /\ pending' = pending \ {id}
  /\ LET url == batch[id].url IN
     \/ /\ JobFromSearchURL(url)
        /\ searchIDs' = [i \in Items |-> IF i \in Finds[url] THEN searchIDs[i] \cup {id}
                                                            ELSE searchIDs[i]]
        /\ \/ RecordSearchAttempt(id, TRUE) /\ UNCHANGED failing
           \/ Fault /\ UNCHANGED health
     \/ /\ \/ ~JobFromSearchURL(url) /\ RecordSearchAttempt(id, FALSE) /\ UNCHANGED failing
           \/ Fault /\ (RecordSearchAttempt(id, FALSE) \/ UNCHANGED health)
        /\ UNCHANGED searchIDs
  /\ UNCHANGED <<table, phase, batch, entries, wanted, hand, listings, attributions, alerts>>

\* RunOnce returns, and processItems gets batch.Listings.
RunOnceReturns ==
  /\ phase = "searching"
  /\ pending = {}
  /\ phase' = "delivering"
  /\ entries' = {i \in Items : searchIDs[i] # {}}
  /\ UNCHANGED <<table, batch, pending, searchIDs, wanted, hand, records, alerts, failing>>

-----------------------------------------------------------------------------
(* Delivery.                                                               *)

\* Mutant: every search but the first is taken for one seen before.
AttributeFirst(i) ==
  /\ listings' = listings \cup {i}
  /\ \E id \in searchIDs[i] : attributions' = attributions \cup {<<i, id>>}

\* The rows UpsertListing commits.
Attribute(i) ==
  /\ listings' = listings \cup {i}
  /\ attributions' = attributions \cup ({i} \X searchIDs[i])

\* UpsertListing: listing and attributions in one transaction, so a search
\* that was deleted since ListSearches (a foreign key violation) leaves the
\* listing without any of them.  Listings without a search are not persisted.
\* A commit whose answer is lost returns an error, and no listing ID.
UpsertListing(i) ==
  /\ phase = "delivering"
  /\ cur = NoItem
  /\ i \in entries
  /\ entries' = entries \ {i}
  /\ cur' = i
  /\ \/ /\ searchIDs[i] # {}
        /\ searchIDs[i] \subseteq DOMAIN rows
        /\ Attribute(i)
        /\ listingID' = TRUE
        /\ UNCHANGED <<upsertFault, failing>>
     \/ /\ searchIDs[i] = {} \/ ~(searchIDs[i] \subseteq DOMAIN rows)
        /\ UNCHANGED <<listingID, upsertFault, listings, attributions, failing>>
     \/ /\ searchIDs[i] # {}
        /\ Fault
        /\ \/ searchIDs[i] \subseteq DOMAIN rows /\ Attribute(i)
           \/ UNCHANGED <<listings, attributions>>
        /\ upsertFault' = TRUE
        /\ UNCHANGED listingID
  /\ UNCHANGED <<table, phase, batch, pending, searchIDs, wanted, health, alerts>>

\* Claim, message and audit row (module Delivery), persisted or not: at most
\* one message, or none yet if any of it fails.
Alert ==
  /\ cur # NoItem
  /\ \/ /\ cur \notin told
        /\ told' = told \cup {cur}
        /\ audited' = IF listingID THEN audited \cup {cur} ELSE audited
        /\ UNCHANGED failing
     \/ cur \in told /\ UNCHANGED <<alerts, failing>>
     \/ cur \notin told /\ Fault /\ UNCHANGED alerts
  /\ NoHand
  /\ UNCHANGED <<table, poll, records>>

EndOfBatch ==
  /\ phase = "delivering"
  /\ entries = {}
  /\ cur = NoItem
  /\ NoPoll
  /\ UNCHANGED <<table, hand, records, alerts, failing>>

Crash ==
  /\ phase # "idle"
  /\ Fault
  /\ NoPoll
  /\ NoHand
  /\ UNCHANGED <<table, records, alerts>>

-----------------------------------------------------------------------------
(* The admin.                                                              *)

\* Mutant: listing_searches without ON DELETE CASCADE, and without the
\* foreign key that would then refuse the deletion.
DeleteAlone(id) ==
  /\ DeleteSearch(id)
  /\ UNCHANGED <<poll, hand, records, alerts, failing>>

\* listing_searches goes with its search (ON DELETE CASCADE); the listings
\* and their audit rows stay.
Delete(id) ==
  /\ DeleteSearch(id)
  /\ attributions' = {a \in attributions : a[2] # id}
  /\ UNCHANGED <<poll, hand, health, listings, alerts, failing>>

Administer == Edit /\ UNCHANGED <<poll, hand, records, alerts, failing>>

-----------------------------------------------------------------------------

Worker ==
  \/ ListSearches \/ RunOnceReturns \/ Alert \/ EndOfBatch
  \/ \E id \in IDs : RunSearch(id)
  \/ \E i \in Items : UpsertListing(i)

Next ==
  \/ Worker \/ Crash
  \/ Administer \/ \E id \in IDs : Delete(id)

Spec == Init /\ [][Next]_vars

\* The worker is never blocked for good and is restarted when it dies (see
\* Discovery and Delivery); nothing is assumed of the admin.
FairSpec == Spec /\ WF_vars(Worker)

-----------------------------------------------------------------------------
(* What should hold.                                                       *)

\* What Discovery and the names a batch keeps for a listing take for granted:
\* within one poll a name means one search, however searches are renamed,
\* deleted and created anew under an old name.
PollNamesDistinct ==
  \A a, b \in DOMAIN batch : batch[a].name = batch[b].name => a = b

\* The searches of this poll that find listing i.
Finders(i) == {id \in DOMAIN batch : JobFromSearchURL(batch[id].url) /\ i \in Finds[batch[id].url]}

\* Unless a call failed, the health of every search polled so far, and not
\* deleted, is the outcome of its attempt in this poll, at the URL it had
\* when the poll began, however it was renamed or edited since.
HealthOfPoll ==
  ~spoiled =>
    \A id \in (DOMAIN batch \ pending) \cap DOMAIN rows :
      health[id] = [by |-> id, url |-> batch[id].url, ok |-> JobFromSearchURL(batch[id].url)]

\* A poll in which no call failed leaves nothing behind: every listing that
\* one of its searches found has been announced by now, and is attributed to
\* all of them unless one was deleted.
PollSurfaces ==
  (phase = "delivering" /\ entries = {} /\ cur = NoItem /\ ~spoiled) =>
    \A i \in Items : Finders(i) # {} =>
      /\ i \in told
      /\ Finders(i) \subseteq DOMAIN rows => {i} \X Finders(i) \subseteq attributions

\* A listing about to be announced is recorded, and attributed to every
\* search that found it and still exists - or there is a reason: the poll
\* began without an enabled search, so that the environment's query found it
\* (README.md:56), the database failed when it was to be recorded, or one of
\* its searches was deleted since the poll began.  Edits and pauses are no
\* reason, and neither is a database that fails to list the searches.
RecordedOrReason ==
  cur # NoItem =>
    \/ /\ listingID
       /\ \A id \in searchIDs[cur] \cap DOMAIN rows : <<cur, id>> \in attributions
    \/ wanted = {}
    \/ upsertFault
    \/ ~(searchIDs[cur] \subseteq DOMAIN rows)

\* Search id finds listing i, and the worker can parse its URL.
Sources(id, i) ==
  /\ id \in Enabled
  /\ JobFromSearchURL(rows[id].url)
  /\ i \in Finds[rows[id].url]

\* A listing that an enabled search keeps finding is announced, persisted
\* and attributed to that search in the end, in spite of failed calls,
\* crashes, and other searches deleted under the worker's hands.
EventuallySurfaced ==
  \A id \in IDs, i \in Items :
    Sources(id, i) ~> ((i \in told /\ <<i, id>> \in attributions) \/ ~Sources(id, i))

\* The table catches up with an edited URL: while a search stays enabled
\* under a URL, its health becomes that of an attempt at this URL, a failed
\* one if the worker cannot parse what the API accepted.
HealthCatchesUp ==
  \A id \in IDs, url \in {u \in URLs : validateSearch(u)} :
    LET Polled == id \in Enabled /\ rows[id].url = url
    IN Polled ~> (\/ ~Polled
                  \/ /\ health[id] # NoAttempt
                     /\ health[id].url = url
                     /\ JobFromSearchURL(url) \/ ~health[id].ok)

\* What README.md:143 says of a polling cycle: it "retains every search that
\* found the listing, persists the record, then claims and sends one Discord
\* notification".  No call fails in the run that checks it.
AlertsAreRecorded ==
  [][\A i \in told' \ told : searchIDs[i] # {} => i \in listings]_vars

=============================================================================
