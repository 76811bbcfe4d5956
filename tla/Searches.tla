------------------------------ MODULE Searches ------------------------------
(***************************************************************************)
(* The searches table and the handlers of cmd/api/main.go that change it,  *)
(* from the JSON API and from the admin page's forms alike.                *)
(*                                                                         *)
(* A handler that executes one SQL statement is one step; if its client    *)
(* goes away the statement takes effect or it does not, and either way     *)
(* nothing else is left behind.  The toggle is the one handler of two      *)
(* statements, and net/http runs handlers concurrently.  A request with a  *)
(* bad token, ID or JSON body changes nothing and is left out.             *)
(***************************************************************************)
EXTENDS Integers, Sequences, Functions

CONSTANTS
  Clients,     \* concurrent toggle requests
  Idle,        \* "no toggle under way"
  Names,       \* names a search may be given
  URLs,        \* URLs a search may be given
  MaxID,       \* bound: IDs of searches
  MaxWrites,   \* bound: requests that write
  FirstRows    \* the searches at the start, by ID

VARIABLES
  rows,      \* the table: a row for every ID in its domain
  nextID,    \* the sequence behind BIGSERIAL: IDs are never used twice
  toggles,   \* toggles[c]: what request c has read, and must still write
  writes     \* how much of MaxWrites is used

table == <<rows, nextID, toggles, writes>>

IDs  == 1..MaxID
Row  == [name : Names, url : URLs, enabled : BOOLEAN]
Read == [id : IDs, enabled : BOOLEAN, overtaken : BOOLEAN]

\* What the readers of a URL look at: its host, and the form of its prices.
ASSUME SearchesAssumption ==
  /\ URLs \subseteq [host : {"vinted.de", "vinted.fr", "example.com"},
                     prices : {"whole", "decimal"}]
  /\ {MaxID, MaxWrites} \subseteq Nat
  /\ FirstRows \in Seq(Row) /\ Len(FirstRows) <= MaxID
  /\ \A a, b \in DOMAIN FirstRows : FirstRows[a].name = FirstRows[b].name => a = b
  /\ Idle \notin Read \cup Clients

SearchesTypeOK ==
  /\ DOMAIN rows \subseteq IDs
  /\ rows \in [DOMAIN rows -> Row]
  /\ nextID \in 1..MaxID + 1
  /\ \A id \in DOMAIN rows : id < nextID
  /\ toggles \in [Clients -> Read \cup {Idle}]
  /\ writes \in 0..MaxWrites

SearchesInit ==
  /\ rows = FirstRows
  /\ nextID = Len(FirstRows) + 1
  /\ toggles = [c \in Clients |-> Idle]
  /\ writes = 0

Enabled == {id \in DOMAIN rows : rows[id].enabled}

-----------------------------------------------------------------------------

\* validateSearch: HTTPS and the German site, although the worker would poll
\* the French one too; it does not look at the query.
validateSearch(url) == url.host = "vinted.de"

\* The table's UNIQUE constraint on name.
NameFree(name, id) == \A other \in DOMAIN rows \ {id} : rows[other].name # name

Write == writes < MaxWrites /\ writes' = writes + 1

\* History: toggles of this search that have read it are overtaken by a
\* write of its enabled flag.
Overtake(id, c) ==
  [d \in Clients |-> IF d # c /\ toggles[d] # Idle /\ toggles[d].id = id
                     THEN [toggles[d] EXCEPT !.overtaken = TRUE]
                     ELSE toggles[d]]

\* CreateSearch.  A name in use is a 409, and costs an ID all the same.
Create(name, url, enabled) ==
  /\ Write
  /\ validateSearch(url)
  /\ nextID <= MaxID
  /\ nextID' = nextID + 1
  /\ \/ /\ NameFree(name, nextID)
        /\ rows' = [id \in DOMAIN rows \cup {nextID} |->
                      IF id = nextID THEN [name |-> name, url |-> url, enabled |-> enabled]
                                     ELSE rows[id]]
     \/ ~NameFree(name, nextID) /\ UNCHANGED rows
  /\ UNCHANGED toggles

\* Mutant: a table whose names are not UNIQUE.
UpdateAnyName(id, name, url, enabled) ==
  /\ Write
  /\ validateSearch(url)
  /\ id \in DOMAIN rows
  /\ rows' = [rows EXCEPT ![id] = [name |-> name, url |-> url, enabled |-> enabled]]
  /\ toggles' = Overtake(id, Idle)
  /\ UNCHANGED nextID

\* UpdateSearch: all fields of the form or body at once, whatever they were
\* when the form was loaded.
Update(id, name, url, enabled) ==
  /\ Write
  /\ validateSearch(url)
  /\ id \in DOMAIN rows
  /\ NameFree(name, id)
  /\ rows' = [rows EXCEPT ![id] = [name |-> name, url |-> url, enabled |-> enabled]]
  /\ toggles' = Overtake(id, Idle)
  /\ UNCHANGED nextID

SetEnabled(id, enabled) ==
  /\ Write
  /\ id \in DOMAIN rows
  /\ rows' = [rows EXCEPT ![id].enabled = enabled]
  /\ toggles' = Overtake(id, Idle)
  /\ UNCHANGED nextID

DeleteSearch(id) ==
  /\ Write
  /\ id \in DOMAIN rows
  /\ rows' = Restrict(rows, DOMAIN rows \ {id})
  /\ UNCHANGED <<nextID, toggles>>

\* Mutant: the loop over the list keeps the flag of another search.
ToggleReadOther(c, id) ==
  /\ writes < MaxWrites
  /\ toggles[c] = Idle
  /\ id \in DOMAIN rows
  /\ \E other \in DOMAIN rows :
       toggles' = [toggles EXCEPT ![c] = [id |-> id, enabled |-> rows[other].enabled,
                                          overtaken |-> FALSE]]
  /\ UNCHANGED <<rows, nextID, writes>>

\* The toggle of the admin page: ListSearches, the search looked up in it ...
ToggleRead(c, id) ==
  /\ writes < MaxWrites
  /\ toggles[c] = Idle
  /\ id \in DOMAIN rows
  /\ toggles' = [toggles EXCEPT ![c] = [id |-> id, enabled |-> rows[id].enabled,
                                        overtaken |-> FALSE]]
  /\ UNCHANGED <<rows, nextID, writes>>

\* ... then SetSearchEnabled to the negation, which finds no row if the
\* search has been deleted meanwhile.
ToggleWrite(c) ==
  /\ toggles[c] # Idle
  /\ Write
  /\ LET id == toggles[c].id IN
     /\ rows' = IF id \in DOMAIN rows
                THEN [rows EXCEPT ![id].enabled = ~toggles[c].enabled]
                ELSE rows
     /\ toggles' = [Overtake(id, c) EXCEPT ![c] = Idle]
  /\ UNCHANGED nextID

\* The client is gone, and with it the context of the second statement.
ToggleAbandon(c) ==
  /\ toggles[c] # Idle
  /\ toggles' = [toggles EXCEPT ![c] = Idle]
  /\ UNCHANGED <<rows, nextID, writes>>

-----------------------------------------------------------------------------

\* Everything but a deletion, which takes rows of another table along
\* (module Sourcing).
Edit ==
  \/ \E name \in Names, url \in URLs, enabled \in BOOLEAN :
       Create(name, url, enabled) \/ \E id \in IDs : Update(id, name, url, enabled)
  \/ \E id \in IDs, enabled \in BOOLEAN : SetEnabled(id, enabled)
  \/ \E c \in Clients : ToggleWrite(c) \/ ToggleAbandon(c) \/ \E id \in IDs : ToggleRead(c, id)

-----------------------------------------------------------------------------

\* A click on Pause or Enable changes the search it names to the opposite of
\* what it is, unless another request wrote the same search after the click's
\* list was read: the toggle is not atomic, but only an overlap can tell.
ToggleFlips ==
  [][\A c \in Clients :
       (ToggleWrite(c) /\ ~toggles[c].overtaken /\ toggles[c].id \in DOMAIN rows)
         => rows'[toggles[c].id].enabled = ~rows[toggles[c].id].enabled]_table

=============================================================================
