------------------------------ MODULE OpenWishes ------------------------------
(***************************************************************************)
(* The list of open requests, page by page (SeerrClient::open_wishes,       *)
(* src/seerr/mod.rs).                                                       *)
(*                                                                          *)
(* Seerr lists requests newest first and numbers them in the order they are *)
(* made, so the place of a request is the number of listed ones that are    *)
(* not older.  Between two pages requests are made, removed and become      *)
(* available, and the places of those below them move.                      *)
(*                                                                          *)
(* Bounds: MaxRequest, the highest number; MaxFaults, how many calls fail.  *)
(***************************************************************************)
EXTENDS Naturals, FiniteSets

CONSTANTS
  Take,         \* how many entries a page is asked for (100)
  Limit,        \* how many Seerr gives at most
  Readable,     \* the entries wish_from can read
  MaxRequest, MaxFaults

ASSUME PagingAssumption ==
  /\ Take \in Nat \ {0} /\ Limit \in Nat \ {0}
  /\ MaxRequest \in Nat /\ MaxFaults \in Nat

VARIABLES
  listed,       \* what Seerr has
  available,    \* what of it is available (media_status 5)
  newest,       \* the number of the newest request
  asking, skip, pages_read,
  wishes,       \* what was read as open
  entries,      \* and how many entries that took
  answer,       \* the list returned last
  faults,
  \* -- history, since the question was asked
  stayed, seen, \* open all the time, and open at some time
  removed, added

seerr   == <<listed, available, newest>>
paging  == <<asking, skip, pages_read, wishes, entries, answer>>
history == <<stayed, seen, removed, added>>
vars    == <<seerr, paging, faults, history>>

-----------------------------------------------------------------------------
(* Seerr                                                                    *)

Open == (listed \cap Readable) \ available

PageSize == IF Take <= Limit THEN Take ELSE Limit

Place(r) == Cardinality({ s \in listed : s >= r })

\* The entries a page holds, and how many pages Seerr says there are.
Page == { r \in listed : skip < Place(r) /\ Place(r) <= skip + PageSize }
Pages == (Cardinality(listed) + PageSize - 1) \div PageSize

\* Every change of Seerr's is also noted in the history.
Noted ==
  IF asking
    THEN /\ stayed' = stayed \cap Open' /\ seen' = seen \cup Open'
         /\ removed' = removed + Cardinality(listed \ listed')
         /\ added' = added + Cardinality(listed' \ listed)
    ELSE UNCHANGED history

Init ==
  /\ newest \in 0 .. MaxRequest
  /\ listed = 1 .. newest /\ available \in SUBSET listed
  /\ asking = FALSE /\ skip = 0 /\ pages_read = 0
  /\ wishes = {} /\ entries = 0 /\ answer = {}
  /\ faults = MaxFaults
  /\ stayed = {} /\ seen = {} /\ removed = 0 /\ added = 0

Make ==
  /\ newest < MaxRequest
  /\ newest' = newest + 1 /\ listed' = listed \cup {newest + 1}
  /\ UNCHANGED <<available, paging, faults>>
  /\ Noted

Remove(r) ==
  /\ r \in listed /\ listed' = listed \ {r} /\ available' = available \ {r}
  /\ UNCHANGED <<newest, paging, faults>>
  /\ Noted

Becomes(r) ==
  /\ r \in listed \ available /\ available' = available \cup {r}
  /\ UNCHANGED <<listed, newest, paging, faults>>
  /\ Noted

-----------------------------------------------------------------------------
(* open_wishes                                                              *)

Ask ==
  /\ ~asking /\ asking' = TRUE
  /\ skip' = 0 /\ pages_read' = 0 /\ wishes' = {} /\ entries' = 0
  /\ stayed' = Open /\ seen' = Open /\ removed' = 0 /\ added' = 0
  /\ answer' = {}
  /\ UNCHANGED <<seerr, faults>>

\* The vector, and the history of the question, are gone.
Forget ==
  /\ asking' = FALSE /\ skip' = 0 /\ pages_read' = 0 /\ wishes' = {} /\ entries' = 0
  /\ stayed' = {} /\ seen' = {} /\ removed' = 0 /\ added' = 0

\* An empty page ends it whatever `pages` claims.
Last == Page = {} \/ pages_read + 1 >= Pages

\* Mutant: what was asked for is skipped, not what was delivered.
AdvanceAsked == skip + Take

\* Mutant: the last entry of a page is read again.
AdvanceOverlapping == IF Page = {} THEN skip ELSE skip + Cardinality(Page) - 1

\* "skip COUNTS WHAT WAS DELIVERED".
Advance == skip + Cardinality(Page)

NextPage ==
  /\ asking /\ ~Last
  /\ wishes' = wishes \cup (Page \cap Open)
  /\ entries' = entries + Cardinality(Page \cap Open)
  /\ pages_read' = pages_read + 1 /\ skip' = Advance
  /\ UNCHANGED <<seerr, asking, answer, faults, history>>

LastPage ==
  /\ asking /\ Last
  /\ answer' = wishes \cup (Page \cap Open)
  /\ Forget
  /\ UNCHANGED <<seerr, faults>>

\* A page that cannot be had is an error: there is no list, rather than half.
PageFails ==
  /\ asking /\ faults > 0 /\ faults' = faults - 1
  /\ Forget
  /\ UNCHANGED <<seerr, answer>>

-----------------------------------------------------------------------------
Next ==
  \/ Make \/ \E r \in listed : Remove(r) \/ Becomes(r)
  \/ Ask \/ NextPage \/ LastPage \/ PageFails

Spec == Init /\ [][Next]_vars

-----------------------------------------------------------------------------
(* Properties                                                               *)

\* Every variable keeps its type, and what stayed open is open.
TypeOK ==
  /\ newest \in Nat /\ listed \subseteq 1 .. newest /\ available \subseteq listed
  /\ asking \in BOOLEAN /\ skip \in Nat /\ pages_read \in Nat
  /\ wishes \subseteq Nat /\ entries \in Nat /\ answer \subseteq Nat
  /\ faults \in Nat
  /\ stayed \subseteq Open /\ seen \subseteq Nat /\ removed \in Nat /\ added \in Nat

\* The list is what OpenList promises: nothing that was not open, and what has
\* been open all the time but for one request per removal, however the pages
\* shift under the reader and however few entries Seerr gives per page.
Promise == INSTANCE OpenList WITH open <- Open
ListKept == Promise!Spec

\* A wish is listed twice only when requests were made meanwhile: a round of
\* the watcher considers nobody more often than that.
TwiceOnlyIfAdded == entries <= Cardinality(wishes) + added
=============================================================================
