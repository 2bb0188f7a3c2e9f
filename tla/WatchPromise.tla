----------------------------- MODULE WatchPromise -----------------------------
(***************************************************************************)
(* What the watcher promises the people it writes to, the indexers it       *)
(* searches and Seerr, without its rounds, its record and its restarts:     *)
(*                                                                          *)
(*   - nobody is told the same about a wish twice, unless what there is to  *)
(*     say has changed, and two messages are a gap apart;                   *)
(*   - a request is handed over once more at most once;                     *)
(*   - no UTC day sees more searches than the budget.                       *)
(*                                                                          *)
(* The promise ends where the record ends: `forgotten` are the wishes about *)
(* which something that happened is not on record, `recount` says that a    *)
(* restart may have lost searches.  Watch implements this module.           *)
(***************************************************************************)
EXTENDS Integers

CONSTANTS
  Wish, Class, None,
  MaxSearchesPerDay,
  MIN_NOTICE_GAP,
  DayLength

VARIABLES
  now,         \* the instant of the last round
  about,       \* what is known to stand in the way of each wish
  heard,       \* what each requester was told, news excepted
  heardAt,     \* when each requester was last told anything
  handed,      \* requests handed over once more
  calls,       \* searches on the UTC day of `now`
  forgotten,
  recount

told  == <<heard, heardAt>>
spent == <<calls, recount>>
vars  == <<now, about, told, handed, spent, forgotten>>

Init ==
  /\ now = 0 /\ calls = 0 /\ recount = FALSE
  /\ about = [w \in Wish |-> {}]
  /\ heard = [w \in Wish |-> {}] /\ heardAt = [w \in Wish |-> None]
  /\ handed = {} /\ forgotten = {}

Round ==
  /\ now' >= now
  /\ calls' = IF now' \div DayLength = now \div DayLength THEN calls ELSE 0
  /\ UNCHANGED <<about, told, handed, recount, forgotten>>

\* A message, and possibly one of which no record is kept.
Tell(w) ==
  /\ w \notin forgotten => heardAt[w] = None \/ now - heardAt[w] >= MIN_NOTICE_GAP
  /\ \E class \in Class :
       /\ w \notin forgotten => class \notin heard[w]
       /\ heard' = [heard EXCEPT ![w] = @ \cup {class}]
  /\ heardAt' = [heardAt EXCEPT ![w] = now]
  /\ forgotten' \in {forgotten, forgotten \cup {w}}
  /\ UNCHANGED <<now, about, handed, spent>>

\* Only another obstacle is news.
News(w) ==
  /\ about[w] # {} /\ about'[w] # {} /\ about'[w] # about[w]
  /\ heard' = [heard EXCEPT ![w] = @ \ {"unsuitable"}]
  /\ UNCHANGED <<now, heardAt, handed, spent, forgotten>>

HandOver(w) ==
  /\ w \notin handed
  /\ handed' = handed \cup {w}
  /\ UNCHANGED <<now, about, told, spent, forgotten>>

Search ==
  /\ calls < MaxSearchesPerDay \/ recount
  /\ calls' = calls + 1
  /\ recount' \in {recount, TRUE}
  /\ UNCHANGED <<now, about, told, handed, forgotten>>

\* An obstacle is found or cleared, a record is lost.
LearnOrForget ==
  /\ forgotten \subseteq forgotten'
  /\ UNCHANGED <<now, told, handed, spent>>

Next ==
  \/ Round \/ Search \/ LearnOrForget
  \/ \E w \in Wish : Tell(w) \/ News(w) \/ HandOver(w)

Spec == Init /\ [][Next]_vars
=============================================================================
