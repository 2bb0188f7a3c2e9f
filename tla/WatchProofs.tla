----------------------------- MODULE WatchProofs -----------------------------
(***************************************************************************)
(* What the watcher keeps for every set of wishes, every budget, deadline   *)
(* and day length, every answer of the services and every sequence of       *)
(* failures.  The types come first, then the shape of a round (RoundOK),    *)
(* then the properties, each from a statement of its own about the record   *)
(* in memory and on disk.                                                   *)
(***************************************************************************)
EXTENDS Watch, InsightProofs

-----------------------------------------------------------------------------
(* The record                                                               *)

\* Changing the note of one wish leaves a record of notes and the count alone.
LEMMA WithNoteType ==
  ASSUME mem \in Notices, NEW w \in Wish, NEW n \in Note
  PROVE  /\ WithNote(w, n) \in Notices
         /\ WithNote(w, n).requests[w] = n
         /\ \A v \in Wish \ {w} : WithNote(w, n).requests[v] = mem.requests[v]
         /\ WithNote(w, n).search_day = mem.search_day
         /\ WithNote(w, n).searches_today = mem.searches_today
BY DEF WithNote, Notices

\* What a search comes back with is a reason.
LEMMA FoundIsReason ==
  ASSUME NEW w \in Wish
  PROVE  Found(w) \subseteq Reason
BY DEF Reason

LEMMA NewNoteType == NewNote \in Note
BY DEF NewNote, Note, Maybe

LEMMA NoNoticesType == NoNotices \in Notices
BY NewNoteType DEF NoNotices, Notices, Maybe

LEMMA RetainType ==
  ASSUME NEW l \in Notices, NEW live
  PROVE  /\ retain_only(l, live) \in Notices
         /\ \A w \in Wish : w \in live => retain_only(l, live).requests[w] = l.requests[w]
         /\ retain_only(l, live).search_day = l.search_day
         /\ retain_only(l, live).searches_today = l.searches_today
BY NewNoteType DEF retain_only, Notices

LEMMA DayType == ASSUME NEW t \in Nat PROVE Day(t) \in Nat
BY SettingsAssumption DEF Day

\* A search is counted on top of what the record says of that day.
LEMMA CountType ==
  ASSUME NEW l \in Notices, NEW t \in Nat
  PROVE  /\ count_search(l, t) \in Notices
         /\ count_search(l, t).requests = l.requests
         /\ searches_on(l, Day(t)) \in Nat
         /\ searches_on(count_search(l, t), Day(t)) = searches_on(l, Day(t)) + 1
<1>1. Day(t) \in Nat
  BY DayType
<1>2. searches_on(l, Day(t)) \in Nat
  BY DEF searches_on, Notices
<1> QED
  BY <1>1, <1>2 DEF Notices, Maybe, searches_on, count_search

LEMMA ObserveType ==
  ASSUME NEW n \in Note, NEW w \in Wish, NEW available \in BOOLEAN, now \in Nat
  PROVE  observe(n, w, available) \in Note
BY WishAssumption DEF observe, Note, Maybe

LEMMA NoEvidenceType == NoEvidence \in Evidence
BY DEF NoEvidence, Evidence, Maybe

-----------------------------------------------------------------------------
(* The shape of a round                                                     *)

\* A call is about a listed wish, what is announced is a class, and a round
\* lists open wishes: all of them, if Seerr leaves none out.
RoundOK ==
  /\ pc \in {"consider", "retry", "history", "judge", "search", "send", "sent", "refresh"}
       => cur \in listed
  /\ pc \in {"send", "sent"} => notice \in Class
  /\ pc = "idle" => listed = {}
  /\ \A w \in listed : answer[w] \in Answers
  /\ listed \subseteq open
  /\ ~MayOmit /\ pc # "idle" => listed = open

TypedRound == TypeOK /\ RoundOK

LEMMA TypedRoundInit == Init => TypedRound
<1> SUFFICES ASSUME Init PROVE TypedRound
  OBVIOUS
<1>1. releasedAt \in [Wish -> Nat \cup {None}]
  BY DEF Init
<1>2. answer \in [Wish -> Answers \cup {None}]
  BY DEF Init
<1>3. heardAt \in [Wish -> Nat \cup {None}] /\ heard \in [Wish -> SUBSET Class]
  BY DEF Init
<1>4. searched \in BOOLEAN /\ recount \in BOOLEAN
  BY DEF Init
<1>5. TypeOK
  BY <1>1, <1>2, <1>3, <1>4, NoNoticesType, NoEvidenceType, SettingsAssumption
  DEF Init, TypeOK, Maybe
<1>6. RoundOK
  BY DEF Init, RoundOK
<1> QED
  BY <1>5, <1>6 DEF TypedRound

\* The two ways a write can end leave a record on disk.
LEMMA WriteType ==
  ASSUME mem' \in Notices, disk \in Notices, faults \in Nat, Persisted \/ NotPersisted
  PROVE  disk' \in Notices /\ faults' \in Nat
BY DEF Persisted, NotPersisted, NoFault, Fault

LEMMA SearchType ==
  ASSUME TypedRound, search_once
  PROVE  /\ mem' \in Notices /\ disk' \in Notices /\ faults' \in Nat
         /\ searched' = TRUE /\ calls' \in Nat /\ issued' \in Nat /\ recount' \in BOOLEAN
<1>1. mem' \in Notices
  BY CountType DEF search_once, TypedRound, TypeOK
<1>2. disk' \in Notices /\ faults' \in Nat
  BY <1>1, WriteType DEF search_once, TypedRound, TypeOK
<1>3. recount' \in BOOLEAN
  BY DEF search_once, TypedRound, TypeOK
<1>4. searched' = TRUE /\ calls' \in Nat /\ issued' \in Nat
  BY DEF search_once, TypedRound, TypeOK
<1> QED
  BY <1>1, <1>2, <1>3, <1>4

\* A step of consider or refresh that ends the call, or goes on with it, moves
\* none of the variables of the round.
LEMMA TypedRoundStep == TypedRound /\ [Next]_vars => TypedRound'
<1> SUFFICES ASSUME TypedRound, [Next]_vars PROVE TypedRound'
  OBVIOUS
<1> USE DEF TypedRound, TypeOK, RoundOK, Maybe
<1> USE DEF env, round, call, history
<1>1. CASE UNCHANGED vars
  BY <1>1 DEF vars
<1>2. CASE Tick
  BY <1>2 DEF Tick
<1>3. ASSUME NEW w \in Wish, Close(w) PROVE TypedRound'
  BY <1>3 DEF Close
<1>4. ASSUME NEW w \in Wish, Release(w) PROVE TypedRound'
  BY <1>4 DEF Release
<1>5. CASE Crash
  <2>1. forgotten' \subseteq Wish
    BY <1>5 DEF Crash
  <2>2. answer' \in [Wish -> Answers \cup {None}] /\ listed' = {} /\ todo' = {}
    BY <1>5 DEF Crash, Idle
  <2>3. cur' = None /\ ev' \in Evidence /\ notice' = None /\ pc' = "idle" /\ searched' = FALSE
    BY <1>5, NoEvidenceType DEF Crash, Idle, NoCall
  <2>4. mem' \in Notices /\ disk' \in Notices /\ faults' \in Nat
    BY <1>5 DEF Crash, Fault
  <2> QED
    BY <1>5, <2>1, <2>2, <2>3, <2>4 DEF Crash
<1>6. CASE BeginRound
  <2>1. /\ pc = "idle" /\ pc' = "next" /\ now' = clock /\ todo' = listed'
        /\ UNCHANGED <<env, faults, mem, disk, searched, call, answered, handed, heard,
                       heardAt, forgotten, recount>>
        /\ calls' \in Nat /\ issued' \in Nat
    BY <1>6 DEF BeginRound
  <2>2. listed' \subseteq open /\ (~MayOmit => listed' = open)
    BY <1>6, SettingsAssumption DEF BeginRound
  <2>3. /\ answer' \in [Wish -> Answers \cup {None}]
        /\ \A w \in listed' : answer'[w] \in Answers
    BY <1>6, <2>2 DEF BeginRound
  <2> QED
    BY <2>1, <2>2, <2>3
<1>7. CASE Outage
  BY <1>7 DEF Outage, Fault
<1>8. ASSUME NEW w \in Wish, Consider(w) PROVE TypedRound'
  BY <1>8 DEF Consider
<1>9. ASSUME NEW w \in Wish, Refresh(w) PROVE TypedRound'
  BY <1>9, SearchType DEF Refresh, RefreshesNow, refresh_candidates, RefreshDue
<1>10. ASSUME NEW w \in Wish, NoRefresh(w) PROVE TypedRound'
  BY <1>10, NoEvidenceType DEF NoRefresh, RefreshesNow, LeaveRefresh, NoCall, Fault, NoFault
<1>11. CASE FinishRound
  <2>1. mem' \in Notices
    BY <1>11, RetainType DEF FinishRound
  <2>2. disk' \in Notices /\ faults' \in Nat
    BY <1>11, <2>1, WriteType DEF FinishRound
  <2> QED
    BY <1>11, <2>1, <2>2, NoEvidenceType DEF FinishRound, Idle, NoCall
<1>12. CASE RecordRetry
  <2>1. cur \in Wish /\ note(cur) \in Note
    BY <1>12 DEF RecordRetry, note, Notices
  <2>2. mem' \in Notices
    BY <1>12, <2>1, WithNoteType DEF RecordRetry, Note
  <2>3. disk' \in Notices /\ faults' \in Nat
    BY <1>12, <2>2, WriteType DEF RecordRetry
  <2> QED
    BY <1>12, <2>2, <2>3, NoEvidenceType DEF RecordRetry, NextWish, NoCall
<1>13. CASE Retry
  BY <1>13, NoEvidenceType DEF Retry, NextWish, NoCall
<1>14. CASE TakeQueueItem
  <2>1. Known(cur) \in Evidence /\ answer[cur].queue_item \in QueueState \cup {None}
    BY <1>14, AnswerAssumption
    DEF TakeQueueItem, Known, note, Notices, Note, Evidence, NoEvidence
  <2>2. ev' \in Evidence
    BY <1>14, <2>1 DEF TakeQueueItem, Evidence
  <2> QED
    BY <1>14, <2>2 DEF TakeQueueItem
<1>15. CASE LookAtMovie
  <2>1. Known(cur) \in Evidence /\ note(cur) \in Note /\ cur \in Wish
    BY <1>15 DEF LookAtMovie, Known, note, Notices, Note, Evidence, NoEvidence
  <2>2. ev' \in Evidence
    BY <1>15, <2>1 DEF LookAtMovie, Evidence
  <2>3. mem' \in Notices
    BY <1>15, <2>1, ObserveType, WithNoteType DEF LookAtMovie
  <2> QED
    BY <1>15, <2>2, <2>3 DEF LookAtMovie
<1>16. CASE LookAtSeries
  <2>1. Known(cur) \in Evidence
    BY <1>16 DEF LookAtSeries, Known, note, Notices, Note, Evidence, NoEvidence
  <2>2. PICK show \in Shows :
          ev' = [Known(cur) EXCEPT !.series = series_facts(show, answer[cur].seasons, now)]
    BY <1>16 DEF LookAtSeries
  <2>3. series_facts(show, answer[cur].seasons, now) \in Facts
    BY ShowAssumption, SeriesFactsSound
  <2>4. ev' \in Evidence
    BY <2>1, <2>2, <2>3 DEF Evidence
  <2> QED
    BY <1>16, <2>4 DEF LookAtSeries
<1>17. CASE ReadHistory
  <2>1. ev' \in Evidence
    BY <1>17 DEF ReadHistory, Evidence
  <2> QED
    BY <1>17, <2>1 DEF ReadHistory
<1>18. CASE NoAnswer
  BY <1>18, NoEvidenceType DEF NoAnswer, NextWish, NoCall, Fault
<1>19. CASE StaySilent
  BY <1>19, NoEvidenceType DEF StaySilent, NextWish, NoCall
<1>20. CASE NobodyToTell
  BY <1>20, NoEvidenceType DEF NobodyToTell, NextWish, NoCall, Fault
<1>21. CASE Announce
  <2>1. notice' \in Class
    BY <1>21, NoticeClassType DEF Announce, SpeaksUp
  <2> QED
    BY <1>21, <2>1 DEF Announce
<1>22. CASE SearchForReason
  BY <1>22, SearchType DEF SearchForReason
<1>23. CASE ReasonFound
  <2>1. PICK r \in Found(cur) :
          mem' = WithNote(cur, [note(cur) EXCEPT !.reason = r, !.searched_at = now])
    BY <1>23 DEF ReasonFound
  <2>2. cur \in Wish /\ note(cur) \in Note
    BY <1>23 DEF ReasonFound, note, Notices
  <2>3. mem' \in Notices
    BY <2>1, <2>2, WithNoteType, FoundIsReason DEF Note
  <2>4. disk' \in Notices /\ faults' \in Nat
    BY <1>23, <2>3, WriteType DEF ReasonFound
  <2> QED
    BY <1>23, <2>2, <2>3, <2>4, NoEvidenceType DEF ReasonFound, NextWish, NoCall, Class
<1>24. CASE SearchFailed
  BY <1>24, NoEvidenceType DEF SearchFailed, NextWish, NoCall, Fault
<1>25. CASE Send
  <2>1. cur \in Wish /\ note(cur) \in Note
    BY <1>25 DEF Send, note, Notices
  <2>2. mem' \in Notices
    BY <1>25, <2>1, WithNoteType DEF Send, Note
  <2> QED
    BY <1>25, <2>1, <2>2 DEF Send, Hear
<1>26. CASE SendFailed
  BY <1>26, NoEvidenceType DEF SendFailed, Hear, NextWish, NoCall, Fault
<1>27. CASE RecordTold
  <2>1. disk' \in Notices /\ faults' \in Nat
    BY <1>27, WriteType DEF RecordTold
  <2> QED
    BY <1>27, <2>1, NoEvidenceType DEF RecordTold, NextWish, NoCall
<1>28. CASE Refreshed
  <2>1. cur \in Wish /\ note(cur) \in Note
    BY <1>28 DEF Refreshed, note, Notices
  <2>2. PICK r \in Found(cur) :
          mem' = WithNote(cur,
            IF ~same_class(note(cur).reason, r)
              THEN [[note(cur) EXCEPT !.searched_at = now]
                      EXCEPT !.reason = r, !.told = @ \ {"unsuitable"}]
              ELSE [note(cur) EXCEPT !.searched_at = now])
    BY <1>28 DEF Refreshed
  <2>3. mem' \in Notices
    BY <2>1, <2>2, WithNoteType, FoundIsReason DEF Note
  <2>4. disk' \in Notices /\ faults' \in Nat
    BY <1>28, <2>3, WriteType DEF Refreshed
  <2>5. heard' \in [Wish -> SUBSET Class]
    BY <1>28 DEF Refreshed
  <2> QED
    BY <1>28, <2>3, <2>4, <2>5, NoEvidenceType DEF Refreshed, LeaveRefresh, NoCall
<1>29. CASE RefreshFailed
  BY <1>29, NoEvidenceType DEF RefreshFailed, LeaveRefresh, NoCall, Fault
<1> HIDE DEF TypedRound, TypeOK, RoundOK
<1> QED
  BY <1>1, <1>2, <1>3, <1>4, <1>5, <1>6, <1>7, <1>8, <1>9, <1>10, <1>11, <1>12, <1>13,
     <1>14, <1>15, <1>16, <1>17, <1>18, <1>19, <1>20, <1>21, <1>22, <1>23, <1>24, <1>25,
     <1>26, <1>27, <1>28, <1>29
  DEF Next, Watcher, World, Turn

\* Every reachable state is well typed, and its round well formed.
THEOREM Types == Spec => []TypeOK
<1>1. Init => TypedRound
  BY TypedRoundInit
<1>2. TypedRound /\ [Next]_vars => TypedRound'
  BY TypedRoundStep
<1>3. TypedRound => TypeOK
  BY DEF TypedRound
<1> QED
  BY <1>1, <1>2, <1>3, PTL DEF Spec

-----------------------------------------------------------------------------
(* What is on record, in memory and on disk                                 *)

\* Unless a save of the count failed, the searches of the day are counted in
\* memory and on disk, so a restart does not buy new ones.
CountOnRecord ==
  recount \/ /\ calls <= MaxSearchesPerDay
             /\ calls <= searches_on(mem, Day(now))
             /\ calls <= searches_on(disk, Day(now))

\* A hand-over that was made again, or is about to be, is on record twice.
RetryOnRecord ==
  /\ \A w \in handed \cap open :
       mem.requests[w].retried_at # None /\ disk.requests[w].retried_at # None
  /\ pc = "retry" =>
       /\ mem.requests[cur].retried_at # None /\ disk.requests[cur].retried_at # None
       /\ cur \notin handed

\* The reason a first search came back with is on record, and a first search
\* is only made for a wish without one.
SearchOnRecord ==
  /\ \A w \in (answered \cap open) \ forgotten :
       mem.requests[w].reason # None /\ disk.requests[w].reason # None
  /\ pc = "search" => mem.requests[cur].reason = None

\* What a requester heard, and when, is on record: in memory at once, on disk
\* unless the save is the next thing to happen.
Unsaved(w) == pc = "sent" /\ cur = w

ToldOnRecord ==
  \A w \in open \ forgotten :
    /\ heard[w] \subseteq mem.requests[w].told
    /\ heardAt[w] = mem.requests[w].last_notice
    /\ Unsaved(w) \/ /\ heard[w] \subseteq disk.requests[w].told
                     /\ heardAt[w] = disk.requests[w].last_notice

\* What is about to be said was not said before, and not too early.
MayBeSaid(class) ==
  /\ class \notin mem.requests[cur].told
  /\ mem.requests[cur].last_notice # None =>
       now - mem.requests[cur].last_notice >= MIN_NOTICE_GAP

AboutToTell ==
  /\ pc = "search" => MayBeSaid("unsuitable")
  /\ pc = "send" => MayBeSaid(notice)
-----------------------------------------------------------------------------
(* The search budget                                                        *)

\* A write leaves the old file or the new one.
LEMMA WriteEither ==
  ASSUME Persisted \/ NotPersisted
  PROVE  disk' = disk \/ disk' = mem'
BY DEF Persisted, NotPersisted

\* A step that neither searches nor starts a round keeps the count, whatever it
\* writes or loses.
LEMMA CountUntouched ==
  ASSUME CountOnRecord, UNCHANGED <<now, calls, recount>>,
         \/ mem'.search_day = mem.search_day /\ mem'.searches_today = mem.searches_today
         \/ mem' = disk,
         disk' = disk \/ disk' = mem'
  PROVE  CountOnRecord'
BY DEF CountOnRecord, searches_on

LEMMA CountSearched ==
  ASSUME TypedRound, CountOnRecord, search_once, UNCHANGED now
  PROVE  CountOnRecord'
<1> now \in Nat /\ mem \in Notices /\ calls \in Nat
  BY DEF TypedRound, TypeOK
<1>1. CASE recount' = TRUE
  BY <1>1 DEF CountOnRecord
<1>2. CASE Persisted /\ UNCHANGED recount
  <2>1. searches_on(mem', Day(now)) = searches_on(mem, Day(now)) + 1
    BY CountType DEF search_once
  <2>2. disk' = mem' /\ calls' = calls + 1 /\ searches_on(mem, Day(now)) < MaxSearchesPerDay
    BY <1>2 DEF search_once, Persisted, may_search
  <2>3. searches_on(mem, Day(now)) \in Nat
    BY CountType
  <2> HIDE DEF searches_on
  <2>4. recount \/ calls <= searches_on(mem, Day(now))
    BY DEF CountOnRecord
  <2>5. recount \/ (calls' <= MaxSearchesPerDay /\ calls' <= searches_on(mem', Day(now)))
    BY <2>1, <2>2, <2>3, <2>4, SettingsAssumption
  <2>6. (searches_on(mem, Day(now)))' = searches_on(mem', Day(now))
       /\ (searches_on(disk, Day(now)))' = searches_on(mem', Day(now))
    BY <2>2 DEF searches_on, Day
  <2> QED
    BY <1>2, <2>5, <2>6 DEF CountOnRecord
<1> QED
  BY <1>1, <1>2 DEF search_once

LEMMA CountStep == TypedRound /\ CountOnRecord /\ [Next]_vars => CountOnRecord'
<1> SUFFICES ASSUME TypedRound, CountOnRecord, [Next]_vars PROVE CountOnRecord'
  OBVIOUS
<1> USE DEF env, round, call, history
<1>0. cur \in Wish => \A n : /\ WithNote(cur, n).search_day = mem.search_day
                            /\ WithNote(cur, n).searches_today = mem.searches_today
  BY DEF WithNote, TypedRound, TypeOK, Notices
<1>c. pc \in {"consider", "retry", "history", "judge", "search", "send", "sent", "refresh"}
        => cur \in Wish
  BY DEF TypedRound, TypeOK, RoundOK
<1>1. CASE UNCHANGED vars
  BY <1>1, CountUntouched DEF vars
<1>2. CASE Tick
  BY <1>2, CountUntouched DEF Tick
<1>3. ASSUME NEW w \in Wish, Close(w) PROVE CountOnRecord'
  BY <1>3, CountUntouched DEF Close
<1>4. ASSUME NEW w \in Wish, Release(w) PROVE CountOnRecord'
  BY <1>4, CountUntouched DEF Release
<1>5. CASE Crash
  BY <1>5, CountUntouched DEF Crash
<1>6. CASE BeginRound
  <2>1. UNCHANGED <<mem, disk, recount>> /\ now' = clock
       /\ calls' = IF Day(clock) = Day(now) THEN calls ELSE 0
    BY <1>6 DEF BeginRound
  <2>2. CASE Day(clock) = Day(now)
    BY <2>1, <2>2 DEF CountOnRecord, searches_on, Day
  <2>3. CASE Day(clock) # Day(now)
    <3>1. searches_on(mem, Day(clock)) \in Nat /\ searches_on(disk, Day(clock)) \in Nat
      BY CountType DEF TypedRound, TypeOK
    <3>2. calls' = 0 /\ 0 <= MaxSearchesPerDay
      BY <2>1, <2>3, SettingsAssumption
    <3>3. /\ (searches_on(mem, Day(now)))' = searches_on(mem, Day(clock))
          /\ (searches_on(disk, Day(now)))' = searches_on(disk, Day(clock))
      BY <2>1 DEF searches_on, Day
    <3> QED
      BY <3>1, <3>2, <3>3 DEF CountOnRecord
  <2> QED
    BY <2>2, <2>3
<1>7. CASE Outage
  BY <1>7, CountUntouched DEF Outage
<1>8. ASSUME NEW w \in Wish, Consider(w) PROVE CountOnRecord'
  BY <1>8, CountUntouched DEF Consider
<1>9. ASSUME NEW w \in Wish, Refresh(w) PROVE CountOnRecord'
  BY <1>9, CountSearched DEF Refresh
<1>10. ASSUME NEW w \in Wish, NoRefresh(w) PROVE CountOnRecord'
  BY <1>10, CountUntouched DEF NoRefresh
<1>11. CASE FinishRound
  BY <1>11, WriteEither, CountUntouched DEF FinishRound, retain_only, TypedRound, TypeOK, Notices
<1>12. CASE RecordRetry
  BY <1>0, <1>c, <1>12, WriteEither, CountUntouched DEF RecordRetry
<1>13. CASE Retry
  BY <1>13, CountUntouched DEF Retry
<1>14. CASE TakeQueueItem
  BY <1>14, CountUntouched DEF TakeQueueItem
<1>15. CASE LookAtMovie
  BY <1>0, <1>c, <1>15, CountUntouched DEF LookAtMovie
<1>16. CASE LookAtSeries
  BY <1>16, CountUntouched DEF LookAtSeries
<1>17. CASE ReadHistory
  BY <1>17, CountUntouched DEF ReadHistory
<1>18. CASE NoAnswer
  BY <1>18, CountUntouched DEF NoAnswer
<1>19. CASE StaySilent
  BY <1>19, CountUntouched DEF StaySilent
<1>20. CASE NobodyToTell
  BY <1>20, CountUntouched DEF NobodyToTell
<1>21. CASE Announce
  BY <1>21, CountUntouched DEF Announce
<1>22. CASE SearchForReason
  BY <1>22, CountSearched DEF SearchForReason
<1>23. CASE ReasonFound
  BY <1>0, <1>c, <1>23, WriteEither, CountUntouched DEF ReasonFound
<1>24. CASE SearchFailed
  BY <1>24, CountUntouched DEF SearchFailed
<1>25. CASE Send
  BY <1>0, <1>c, <1>25, CountUntouched DEF Send
<1>26. CASE SendFailed
  BY <1>26, CountUntouched DEF SendFailed
<1>27. CASE RecordTold
  BY <1>27, WriteEither, CountUntouched DEF RecordTold
<1>28. CASE Refreshed
  BY <1>0, <1>c, <1>28, WriteEither, CountUntouched DEF Refreshed
<1>29. CASE RefreshFailed
  BY <1>29, CountUntouched DEF RefreshFailed
<1> QED
  BY <1>1, <1>2, <1>3, <1>4, <1>5, <1>6, <1>7, <1>8, <1>9, <1>10, <1>11, <1>12, <1>13,
     <1>14, <1>15, <1>16, <1>17, <1>18, <1>19, <1>20, <1>21, <1>22, <1>23, <1>24, <1>25,
     <1>26, <1>27, <1>28, <1>29
  DEF Next, Watcher, World, Turn

\* The household never costs more than max_searches_per_day indexer searches a
\* UTC day, across restarts, unless the file could not be written
\* (watch.rs search_once, notices.rs may_search and count_search).
THEOREM Budget == Spec => []BudgetKept
<1>1. Init => TypedRound /\ CountOnRecord
  <2>1. Init => CountOnRecord
    BY SettingsAssumption DEF Init, CountOnRecord, NoNotices, searches_on
  <2> QED
    BY <2>1, TypedRoundInit
<1>2. TypedRound /\ CountOnRecord /\ [Next]_vars => (TypedRound /\ CountOnRecord)'
  BY TypedRoundStep, CountStep
<1>3. CountOnRecord => BudgetKept
  BY DEF CountOnRecord, BudgetKept
<1> QED
  BY <1>1, <1>2, <1>3, PTL DEF Spec

-----------------------------------------------------------------------------
(* One search a round                                                       *)

\* While a round runs, `searched` is set by the first search it issues and is
\* not unset before the round is over.
SearchNoted == issued <= 1 /\ (pc # "idle" /\ ~searched => issued = 0)

LEMMA SearchNotedStep ==
  ASSUME SearchNoted, [Next]_vars
  PROVE  SearchNoted'
<1>1. CASE BeginRound
  BY <1>1 DEF BeginRound, SearchNoted
<1>2. CASE SearchForReason
  <2>1. issued = 0
    BY <1>2 DEF SearchForReason, SearchNoted
  <2>2. issued' = issued + 1 /\ searched' = TRUE
    BY <1>2 DEF SearchForReason, search_once
  <2> QED
    BY <2>1, <2>2 DEF SearchNoted
<1>3. ASSUME NEW w \in Wish, Refresh(w) PROVE SearchNoted'
  <2>1. issued = 0
    BY <1>3 DEF Refresh, RefreshesNow, SearchNoted
  <2>2. issued' = issued + 1 /\ searched' = TRUE
    BY <1>3 DEF Refresh, search_once
  <2> QED
    BY <2>1, <2>2 DEF SearchNoted
<1>4. CASE FinishRound \/ Crash
  BY <1>4 DEF FinishRound, Crash, Idle, history, SearchNoted
<1>5. CASE ~BeginRound /\ ~SearchForReason /\ ~FinishRound /\ ~Crash
           /\ ~(\E w \in Wish : Refresh(w))
  <2>1. UNCHANGED <<issued, searched>>
    BY <1>5
    DEF vars, history, Next, Watcher, World, Turn, Tick, Close, Release, Outage, Consider,
        NoRefresh, RecordRetry, Retry, TakeQueueItem, LookAtMovie, LookAtSeries,
        ReadHistory, NoAnswer, StaySilent, NobodyToTell, Announce, ReasonFound,
        SearchFailed, Send, SendFailed, RecordTold, Refreshed, RefreshFailed
  <2>2. pc' # "idle" => pc # "idle"
    BY <1>5
    DEF vars, NextWish, LeaveRefresh, RefreshesNow, Next, Watcher, World, Turn, Tick, Close,
        Release, Outage, Consider, NoRefresh, RecordRetry, Retry, TakeQueueItem,
        LookAtMovie, LookAtSeries, ReadHistory, NoAnswer, StaySilent, NobodyToTell, Announce, ReasonFound,
        SearchFailed, Send, SendFailed, RecordTold, Refreshed, RefreshFailed
  <2> QED
    BY <2>1, <2>2 DEF SearchNoted
<1> QED
  BY <1>1, <1>2, <1>3, <1>4, <1>5

\* No round issues a second search, whatever becomes of the first: of its
\* answer, of the save of the count, of the process (watch.rs round).
THEOREM OneSearch == Spec => []OneSearchPerRound
<1>1. Init => SearchNoted
  BY DEF Init, SearchNoted
<1>2. SearchNoted /\ [Next]_vars => SearchNoted'
  BY SearchNotedStep
<1>3. SearchNoted => OneSearchPerRound
  BY DEF SearchNoted, OneSearchPerRound
<1> QED
  BY <1>1, <1>2, <1>3, PTL DEF Spec

-----------------------------------------------------------------------------
(* The notes of open wishes                                                 *)

\* Every step writes the file whole or not at all.
LEMMA DiskStep == [Next]_vars => disk' = disk \/ disk' = mem'
BY WriteEither
DEF vars, env, round, call, history, search_once, Next, Watcher, World, Turn, Tick, Close,
    Release, Crash, Outage, BeginRound, Consider, Refresh, NoRefresh, FinishRound,
    RecordRetry, Retry, TakeQueueItem, LookAtMovie, LookAtSeries, ReadHistory, NoAnswer,
    StaySilent, NobodyToTell, Announce, SearchForReason, ReasonFound, SearchFailed, Send,
    SendFailed, RecordTold, Refreshed, RefreshFailed

\* What is on record both in memory and on disk survives.
Survives(was, saved, is) ==
  /\ was.retried_at # None /\ saved.retried_at # None => is.retried_at # None
  /\ was.reason # None /\ saved.reason # None => is.reason # None

NotesSurvive ==
  \A w \in open' : Survives(mem.requests[w], disk.requests[w], mem'.requests[w])

\* As long as Seerr leaves no open wish out of its answer, no step loses the
\* retry or the reason of a wish that stays open: not the clean-up at the end of
\* a round, not a kill.
LEMMA NotesStep ==
  ASSUME ~MayOmit, TypedRound, [Next]_vars
  PROVE  NotesSurvive
<1> USE DEF NotesSurvive, Survives
<1>0. UNCHANGED mem /\ open' \subseteq open => NotesSurvive
  OBVIOUS
<1>c. /\ pc \in {"consider", "retry", "history", "judge", "search", "send", "sent", "refresh"}
           => cur \in Wish /\ note(cur) \in Note
      /\ open \subseteq Wish /\ mem \in Notices /\ now \in Nat
  BY DEF TypedRound, TypeOK, RoundOK, note, Notices
<1>1. ASSUME cur \in Wish, NEW n, mem' = WithNote(cur, n), UNCHANGED open,
             n.retried_at = note(cur).retried_at \/ n.retried_at # None,
             n.reason = note(cur).reason \/ n.reason # None
      PROVE  NotesSurvive
  <2>1. mem'.requests = [mem.requests EXCEPT ![cur] = n]
    BY <1>1, <1>c DEF WithNote, Notices
  <2>2. \A w \in open : mem'.requests[w] = IF w = cur THEN n ELSE mem.requests[w]
    BY <2>1, <1>1, <1>c DEF Notices
  <2> QED
    BY <2>2, <1>1 DEF note
<1>2. CASE Crash
  BY <1>2 DEF Crash, env
<1>3. CASE FinishRound
  <2>1. listed = open /\ mem' = retain_only(mem, listed) /\ open' = open
    BY <1>3 DEF FinishRound, TypedRound, RoundOK, env
  <2> QED
    BY <2>1, <1>c, RetainType
<1>4. CASE RecordRetry
  <2>1. mem' = WithNote(cur, [note(cur) EXCEPT !.retried_at = now]) /\ now # None
    BY <1>4, <1>c, AnswerAssumption DEF RecordRetry
  <2>2. [note(cur) EXCEPT !.retried_at = now].retried_at = now
       /\ [note(cur) EXCEPT !.retried_at = now].reason = note(cur).reason
    BY <1>4, <1>c DEF RecordRetry, Note
  <2> QED
    BY <1>4, <2>1, <2>2, <1>c, <1>1 DEF RecordRetry, env
<1>5. CASE LookAtMovie
  <2> DEFINE n == observe(note(cur), cur, releasedAt[cur] # None)
  <2>1. n.retried_at = note(cur).retried_at /\ n.reason = note(cur).reason
    BY <1>5, <1>c DEF LookAtMovie, observe, Note
  <2>2. mem' = WithNote(cur, n) /\ UNCHANGED open /\ cur \in Wish
    BY <1>5, <1>c DEF LookAtMovie, env
  <2> QED
    BY <2>1, <2>2, <1>1
<1>6. CASE ReasonFound
  <2>1. PICK r \in Found(cur) :
          mem' = WithNote(cur, [note(cur) EXCEPT !.reason = r, !.searched_at = now])
    BY <1>6 DEF ReasonFound
  <2> DEFINE n == [note(cur) EXCEPT !.reason = r, !.searched_at = now]
  <2>2. n.retried_at = note(cur).retried_at /\ n.reason # None
    BY <1>6, <1>c, AnswerAssumption, FoundIsReason DEF ReasonFound, Note
  <2>3. UNCHANGED open /\ cur \in Wish
    BY <1>6, <1>c DEF ReasonFound, env
  <2> QED
    BY <2>1, <2>2, <2>3, <1>1
<1>7. CASE Send
  <2> DEFINE n == [note(cur) EXCEPT !.told = @ \cup {notice}, !.last_notice = now]
  <2>1. n.retried_at = note(cur).retried_at /\ n.reason = note(cur).reason
    BY <1>7, <1>c DEF Send, Note
  <2>2. mem' = WithNote(cur, n) /\ UNCHANGED open /\ cur \in Wish
    BY <1>7, <1>c DEF Send, env
  <2> QED
    BY <2>1, <2>2, <1>1
<1>8. CASE Refreshed
  <2>1. PICK r \in Found(cur) :
          mem' = WithNote(cur,
            IF ~same_class(note(cur).reason, r)
              THEN [[note(cur) EXCEPT !.searched_at = now]
                      EXCEPT !.reason = r, !.told = @ \ {"unsuitable"}]
              ELSE [note(cur) EXCEPT !.searched_at = now])
    BY <1>8 DEF Refreshed
  <2>2. UNCHANGED open /\ cur \in Wish /\ note(cur) \in Note /\ r # None
    BY <1>8, <1>c, AnswerAssumption, FoundIsReason DEF Refreshed, env
  <2>3. CASE ~same_class(note(cur).reason, r)
    <3> DEFINE n == [[note(cur) EXCEPT !.searched_at = now]
                      EXCEPT !.reason = r, !.told = @ \ {"unsuitable"}]
    <3>1. n.retried_at = note(cur).retried_at /\ n.reason # None
      BY <2>2 DEF Note
    <3> QED
      BY <2>1, <2>2, <2>3, <3>1, <1>1
  <2>4. CASE same_class(note(cur).reason, r)
    <3> DEFINE n == [note(cur) EXCEPT !.searched_at = now]
    <3>1. n.retried_at = note(cur).retried_at /\ n.reason = note(cur).reason
      BY <2>2 DEF Note
    <3> QED
      BY <2>1, <2>2, <2>4, <3>1, <1>1
  <2> QED
    BY <2>3, <2>4
<1>9. ASSUME search_once, UNCHANGED open PROVE NotesSurvive
  BY <1>9, <1>c, CountType DEF search_once
<1>10. CASE UNCHANGED vars
  BY <1>10, <1>0 DEF vars, env
<1> HIDE DEF NotesSurvive, Survives
<1> QED
  BY <1>0, <1>2, <1>3, <1>4, <1>5, <1>6, <1>7, <1>8, <1>9, <1>10
  DEF env, round, call, history, Next, Watcher, World, Turn, Tick, Close, Release, Outage,
      BeginRound, Consider, Refresh, NoRefresh, Retry, TakeQueueItem, LookAtSeries,
      ReadHistory, NoAnswer, StaySilent, NobodyToTell, Announce, SearchForReason,
      SearchFailed, SendFailed, RecordTold, RefreshFailed

-----------------------------------------------------------------------------
(* The retry                                                                *)

LEMMA RetryStep ==
  ASSUME ~MayOmit, TypedRound, RetryOnRecord, [Next]_vars
  PROVE  RetryOnRecord'
<1>1. \A w \in handed \cap open' : /\ mem'.requests[w].retried_at # None
                                  /\ disk'.requests[w].retried_at # None
  <2>1. open' \subseteq open
    BY DEF vars, env, round, call, history, Next, Watcher, World, Turn, Tick, Close, Release,
           Crash, Outage, BeginRound, Consider, Refresh, NoRefresh, FinishRound,
           RecordRetry, Retry, TakeQueueItem, LookAtMovie, LookAtSeries, ReadHistory,
           NoAnswer, StaySilent, NobodyToTell, Announce, SearchForReason, ReasonFound,
           SearchFailed, Send, SendFailed, RecordTold, Refreshed, RefreshFailed
  <2> QED
    BY <2>1, NotesStep, DiskStep DEF RetryOnRecord, NotesSurvive, Survives
<1>2. CASE Retry
  <2>1. /\ handed' = handed \cup {cur} /\ UNCHANGED <<mem, disk, open>>
       /\ pc = "retry" /\ pc' = "next"
    BY <1>2 DEF Retry, NextWish, env
  <2> QED
    BY <2>1, <1>1 DEF RetryOnRecord
<1>3. CASE RecordRetry
  <2>1. /\ cur \in Wish /\ note(cur) \in Note /\ cur \in open
       /\ now # None /\ mem \in Notices
    BY <1>3, AnswerAssumption DEF RecordRetry, TypedRound, TypeOK, RoundOK, note, Notices
  <2>2. mem'.requests[cur].retried_at = now
    <3>1. [note(cur) EXCEPT !.retried_at = now] \in Note
         /\ [note(cur) EXCEPT !.retried_at = now].retried_at = now
      BY <2>1 DEF Note, TypedRound, TypeOK, Maybe
    <3> QED
      BY <1>3, <2>1, <3>1, WithNoteType DEF RecordRetry
  <2>3. cur \notin handed
    BY <1>3, <2>1 DEF RecordRetry, RetryDue, RetryOnRecord, note
  <2>4. pc' = "retry" => disk' = mem' /\ cur' = cur
    BY <1>3 DEF RecordRetry, Persisted, NextWish, call
  <2>5. UNCHANGED <<handed, open>>
    BY <1>3 DEF RecordRetry, env, history
  <2> QED
    BY <1>1, <2>1, <2>2, <2>3, <2>4, <2>5 DEF RetryOnRecord
<1>4. ~Retry /\ ~RecordRetry =>
        /\ handed' = handed
        /\ pc' = "retry" => UNCHANGED <<pc, mem, disk, cur>>
  BY DEF vars, env, round, call, history, NextWish, LeaveRefresh, Idle, Next, Watcher, World,
         Turn, Tick, Close, Release, Crash, Outage, BeginRound, Consider, Refresh,
         NoRefresh, FinishRound, TakeQueueItem, LookAtMovie, LookAtSeries, ReadHistory,
         NoAnswer, StaySilent, NobodyToTell, Announce, SearchForReason, ReasonFound,
         SearchFailed, Send, SendFailed, RecordTold, Refreshed, RefreshFailed
<1>5. CASE ~Retry /\ ~RecordRetry
  <2>1. handed' = handed /\ (pc' = "retry" => UNCHANGED <<pc, mem, disk, cur>>)
    BY <1>4, <1>5
  <2>2. \A w \in (handed \cap open)' : /\ mem'.requests[w].retried_at # None
                                      /\ disk'.requests[w].retried_at # None
    BY <1>1, <2>1
  <2>3. pc' = "retry" => /\ mem'.requests[cur'].retried_at # None
                         /\ disk'.requests[cur'].retried_at # None
                         /\ cur' \notin handed'
    BY <2>1 DEF RetryOnRecord
  <2> QED
    BY <2>2, <2>3 DEF RetryOnRecord
<1> QED
  BY <1>2, <1>3, <1>5

\* A failed hand-over is made again at most once, whatever is killed and
\* whatever write fails, provided Seerr lists every open wish every time
\* (watch.rs consider: retried_at is written before the call).
THEOREM RetriedOnce ==
  ASSUME ~MayOmit
  PROVE  Spec => []RetryOnce
<1>1. Init => TypedRound /\ RetryOnRecord
  <2>1. Init => RetryOnRecord
    BY DEF Init, RetryOnRecord
  <2> QED
    BY <2>1, TypedRoundInit
<1>2. TypedRound /\ RetryOnRecord /\ [Next]_vars => (TypedRound /\ RetryOnRecord)'
  BY TypedRoundStep, RetryStep
<1>3. RetryOnRecord => RetryOnce
  BY DEF RetryOnRecord, RetryOnce
<1> QED
  BY <1>1, <1>2, <1>3, PTL DEF Spec
-----------------------------------------------------------------------------
(* The first search                                                         *)

LEMMA SearchedStep ==
  ASSUME ~MayOmit, TypedRound, SearchOnRecord, [Next]_vars
  PROVE  SearchOnRecord'
<1> USE DEF env, round, call, history
<1>1. CASE ReasonFound
  <2>1. PICK r \in Found(cur) :
          mem' = WithNote(cur, [note(cur) EXCEPT !.reason = r, !.searched_at = now])
    BY <1>1 DEF ReasonFound
  <2>2. /\ cur \in Wish /\ note(cur) \in Note /\ r # None /\ mem \in Notices
        /\ now \in Nat /\ open \subseteq Wish
    BY <1>1, AnswerAssumption, FoundIsReason
    DEF ReasonFound, TypedRound, TypeOK, RoundOK, note, Notices
  <2>3. /\ [note(cur) EXCEPT !.reason = r, !.searched_at = now] \in Note
        /\ [note(cur) EXCEPT !.reason = r, !.searched_at = now].reason = r
    BY <2>2, FoundIsReason DEF Note, Maybe
  <2>4. /\ mem'.requests[cur].reason = r
        /\ \A w \in Wish \ {cur} : mem'.requests[w] = mem.requests[w]
    BY <2>1, <2>2, <2>3, WithNoteType
  <2>5. /\ answered' = answered \cup {cur} /\ open' = open
        /\ pc' \in {"send", "next"}
    BY <1>1 DEF ReasonFound, NextWish
  <2>6. \/ disk' = mem' /\ forgotten' = forgotten
        \/ (disk' = disk \/ disk' = mem') /\ forgotten' = forgotten \cup {cur}
    BY <1>1, WriteEither DEF ReasonFound, Persisted
  <2>7. \A w \in (answered' \cap open') \ forgotten' :
          /\ mem'.requests[w].reason # None /\ disk'.requests[w].reason # None
    BY <2>2, <2>4, <2>5, <2>6 DEF SearchOnRecord
  <2> QED
    BY <2>5, <2>7 DEF SearchOnRecord
<1>2. ~ReasonFound => answered' = answered /\ forgotten \subseteq forgotten'
                      /\ open' \subseteq open
  BY DEF vars, Next, Watcher, World, Turn, Tick, Close, Release, Crash, Outage, BeginRound,
         Consider, Refresh, NoRefresh, FinishRound, RecordRetry, Retry, TakeQueueItem,
         LookAtMovie, LookAtSeries, ReadHistory, NoAnswer, StaySilent, NobodyToTell,
         Announce, SearchForReason, SearchFailed, Send, SendFailed, RecordTold, Refreshed,
         RefreshFailed
<1>3. ~ReasonFound /\ ~SearchForReason /\ pc' = "search" => UNCHANGED <<pc, mem, cur>>
  BY DEF vars, NextWish, LeaveRefresh, Idle, Next, Watcher, World, Turn, Tick, Close,
         Release, Crash, Outage, BeginRound, Consider, Refresh, NoRefresh, FinishRound,
         RecordRetry, Retry, TakeQueueItem, LookAtMovie, LookAtSeries, ReadHistory,
         NoAnswer, StaySilent, NobodyToTell, Announce, SearchFailed, Send, SendFailed,
         RecordTold, Refreshed, RefreshFailed
<1>4. CASE SearchForReason
  <2>1. mem' = count_search(mem, now) /\ cur' = cur /\ mem.requests[cur].reason = None
    BY <1>4 DEF SearchForReason, search_once, WantsSearch, note
  <2>2. mem'.requests[cur'].reason = None
    BY <2>1 DEF count_search
  <2>3. ~ReasonFound
    BY <1>4 DEF SearchForReason, ReasonFound
  <2>4. \A w \in (answered' \cap open') \ forgotten' :
          /\ mem'.requests[w].reason # None /\ disk'.requests[w].reason # None
    BY <1>2, <2>3, NotesStep, DiskStep DEF SearchOnRecord, NotesSurvive, Survives
  <2> QED
    BY <2>2, <2>4 DEF SearchOnRecord
<1>5. CASE ~ReasonFound /\ ~SearchForReason
  <2>1. \A w \in (answered' \cap open') \ forgotten' :
          /\ mem'.requests[w].reason # None /\ disk'.requests[w].reason # None
    BY <1>2, <1>5, NotesStep, DiskStep DEF SearchOnRecord, NotesSurvive, Survives
  <2>2. pc' = "search" => mem'.requests[cur'].reason = None
    BY <1>3, <1>5 DEF SearchOnRecord
  <2> QED
    BY <2>1, <2>2 DEF SearchOnRecord
<1> QED
  BY <1>1, <1>4, <1>5

\* A first search whose result could be saved is never made again for the same
\* open wish (watch.rs consider: the bar is reason.is_none()).
THEOREM FirstSearchOnce ==
  ASSUME ~MayOmit
  PROVE  Spec => []SearchedOnce
<1>1. Init => TypedRound /\ SearchOnRecord
  <2>1. Init => SearchOnRecord
    BY DEF Init, SearchOnRecord
  <2> QED
    BY <2>1, TypedRoundInit
<1>2. TypedRound /\ SearchOnRecord /\ [Next]_vars => (TypedRound /\ SearchOnRecord)'
  BY TypedRoundStep, SearchedStep
<1>3. TypedRound /\ SearchOnRecord => SearchedOnce
  BY DEF SearchOnRecord, SearchedOnce, TypedRound, RoundOK
<1> QED
  BY <1>1, <1>2, <1>3, PTL DEF Spec

-----------------------------------------------------------------------------
(* The notices                                                              *)

\* Nothing a requester was told moves for the wishes that stay open.
ToldStays ==
  \A w \in open' : /\ mem'.requests[w].told = mem.requests[w].told
                   /\ mem'.requests[w].last_notice = mem.requests[w].last_notice

\* A step that tells nobody anything and forgets nothing keeps the record, if
\* it does not come between a message and its save.
LEMMA ToldUntouched ==
  ASSUME ToldOnRecord, ToldStays, UNCHANGED <<heard, heardAt>>,
         open' \subseteq open, forgotten \subseteq forgotten',
         \/ disk' = mem'
         \/ disk' = disk /\ pc # "sent"
         \/ disk' = disk /\ UNCHANGED <<pc, cur>>
  PROVE  ToldOnRecord'
BY DEF ToldOnRecord, ToldStays, Unsaved

LEMMA ToldStep ==
  ASSUME ~MayOmit, TypedRound, ToldOnRecord, [Next]_vars
  PROVE  ToldOnRecord'
<1> USE DEF env, round, call, history
<1>0. UNCHANGED mem => ToldStays
  BY DEF ToldStays
<1>c. /\ pc \in {"consider", "retry", "history", "judge", "search", "send", "sent", "refresh"}
           => cur \in Wish /\ note(cur) \in Note
      /\ open \subseteq Wish /\ mem \in Notices /\ now \in Nat /\ disk \in Notices
      /\ heard \in [Wish -> SUBSET Class] /\ notice \in Class \cup {None}
      /\ heardAt \in [Wish -> Nat \cup {None}]
  BY DEF TypedRound, TypeOK, RoundOK, note, Notices, Maybe
<1>w. ASSUME cur \in Wish, NEW n, mem' = WithNote(cur, n)
      PROVE  /\ mem'.requests[cur] = n
             /\ \A w \in open : w # cur => mem'.requests[w] = mem.requests[w]
             /\ n.told = note(cur).told /\ n.last_notice = note(cur).last_notice
                  /\ open' = open => ToldStays
  <2>1. mem'.requests = [mem.requests EXCEPT ![cur] = n]
    BY <1>w, <1>c DEF WithNote, Notices
  <2>2. \A w \in Wish : mem'.requests[w] = IF w = cur THEN n ELSE mem.requests[w]
    BY <2>1, <1>w, <1>c DEF Notices
  <2> QED
    BY <2>2, <1>w, <1>c DEF ToldStays, note
<1>s. ASSUME search_once, open' = open PROVE ToldStays /\ (disk' = disk \/ disk' = mem')
  BY <1>s, <1>c, CountType, WriteEither DEF search_once, ToldStays
<1>1. CASE UNCHANGED vars
  BY <1>1, <1>0, ToldUntouched DEF vars
<1>2. CASE Tick
  BY <1>2, <1>0, ToldUntouched DEF Tick
<1>3. ASSUME NEW w \in Wish, Close(w) PROVE ToldOnRecord'
  BY <1>3, <1>0, ToldUntouched DEF Close
<1>4. ASSUME NEW w \in Wish, Release(w) PROVE ToldOnRecord'
  BY <1>4, <1>0, ToldUntouched DEF Release
<1>5. CASE Crash
  BY <1>5 DEF Crash, Idle, NoCall, ToldOnRecord, Unsaved
<1>6. CASE BeginRound
  BY <1>6, <1>0, ToldUntouched DEF BeginRound
<1>7. CASE Outage
  BY <1>7, <1>0, ToldUntouched DEF Outage
<1>8. ASSUME NEW w \in Wish, Consider(w) PROVE ToldOnRecord'
  BY <1>8, <1>0, ToldUntouched DEF Consider
<1>9. ASSUME NEW w \in Wish, Refresh(w) PROVE ToldOnRecord'
  BY <1>9, <1>s, ToldUntouched DEF Refresh, RefreshesNow
<1>10. ASSUME NEW w \in Wish, NoRefresh(w) PROVE ToldOnRecord'
  BY <1>10, <1>0, ToldUntouched DEF NoRefresh, RefreshesNow
<1>11. CASE FinishRound
  <2>1. listed = open /\ mem' = retain_only(mem, listed) /\ open' = open /\ pc # "sent"
    BY <1>11 DEF FinishRound, TypedRound, RoundOK
  <2>2. ToldStays
    BY <2>1, <1>c, RetainType DEF ToldStays
  <2> QED
    BY <1>11, <2>1, <2>2, WriteEither, ToldUntouched DEF FinishRound
<1>12. CASE RecordRetry
  <2> DEFINE n == [note(cur) EXCEPT !.retried_at = now]
  <2>1. n.told = note(cur).told /\ n.last_notice = note(cur).last_notice
    BY <1>12, <1>c DEF RecordRetry, Note
  <2>2. ToldStays
    BY <1>12, <1>c, <1>w, <2>1 DEF RecordRetry
  <2> QED
    BY <1>12, <2>2, WriteEither, ToldUntouched DEF RecordRetry
<1>13. CASE Retry
  BY <1>13, <1>0, ToldUntouched DEF Retry
<1>14. CASE TakeQueueItem
  BY <1>14, <1>0, ToldUntouched DEF TakeQueueItem
<1>15. CASE LookAtMovie
  <2> DEFINE n == observe(note(cur), cur, releasedAt[cur] # None)
  <2>1. n.told = note(cur).told /\ n.last_notice = note(cur).last_notice
    BY <1>15, <1>c DEF LookAtMovie, observe, Note
  <2>2. ToldStays
    BY <1>15, <1>c, <1>w, <2>1 DEF LookAtMovie
  <2> QED
    BY <1>15, <2>2, ToldUntouched DEF LookAtMovie
<1>16. CASE LookAtSeries
  BY <1>16, <1>0, ToldUntouched DEF LookAtSeries
<1>17. CASE ReadHistory
  BY <1>17, <1>0, ToldUntouched DEF ReadHistory
<1>18. CASE NoAnswer
  BY <1>18, <1>0, ToldUntouched DEF NoAnswer
<1>19. CASE StaySilent
  BY <1>19, <1>0, ToldUntouched DEF StaySilent
<1>20. CASE NobodyToTell
  BY <1>20, <1>0, ToldUntouched DEF NobodyToTell
<1>21. CASE Announce
  BY <1>21, <1>0, ToldUntouched DEF Announce
<1>22. CASE SearchForReason
  BY <1>22, <1>s, ToldUntouched DEF SearchForReason
<1>23. CASE ReasonFound
  <2>1. PICK r \in Found(cur) :
          mem' = WithNote(cur, [note(cur) EXCEPT !.reason = r, !.searched_at = now])
    BY <1>23 DEF ReasonFound
  <2> DEFINE n == [note(cur) EXCEPT !.reason = r, !.searched_at = now]
  <2>2. n.told = note(cur).told /\ n.last_notice = note(cur).last_notice
    BY <1>23, <1>c DEF ReasonFound, Note
  <2>3. ToldStays
    BY <1>23, <1>c, <1>w, <2>1, <2>2 DEF ReasonFound
  <2> QED
    BY <1>23, <2>3, WriteEither, ToldUntouched DEF ReasonFound
<1>24. CASE SearchFailed
  BY <1>24, <1>0, ToldUntouched DEF SearchFailed
<1>25. CASE Send
  <2> DEFINE n == [note(cur) EXCEPT !.told = @ \cup {notice}, !.last_notice = now]
  <2>1. n.told = note(cur).told \cup {notice} /\ n.last_notice = now
    BY <1>25, <1>c DEF Send, Note
  <2>2. /\ mem'.requests[cur] = n
        /\ \A w \in open : w # cur => mem'.requests[w] = mem.requests[w]
    BY <1>25, <1>c, <1>w DEF Send
  <2>3. /\ heard' = [heard EXCEPT ![cur] = @ \cup {notice}]
        /\ heardAt' = [heardAt EXCEPT ![cur] = now]
        /\ pc = "send" /\ pc' = "sent" /\ cur' = cur /\ cur \in Wish
        /\ UNCHANGED <<disk, open, forgotten>>
    BY <1>25, <1>c DEF Send, Hear
  <2> SUFFICES ASSUME NEW w \in open \ forgotten
               PROVE /\ heard'[w] \subseteq mem'.requests[w].told
                     /\ heardAt'[w] = mem'.requests[w].last_notice
                     /\ Unsaved(w)' \/ /\ heard'[w] \subseteq disk'.requests[w].told
                                       /\ heardAt'[w] = disk'.requests[w].last_notice
    BY <2>3 DEF ToldOnRecord
  <2>4. CASE w = cur
    BY <1>c, <2>1, <2>2, <2>3, <2>4 DEF ToldOnRecord, Unsaved, note
  <2>5. CASE w # cur
    BY <1>c, <2>2, <2>3, <2>5 DEF ToldOnRecord, Unsaved
  <2> QED
    BY <2>4, <2>5
<1>26. CASE SendFailed
  <2>1. UNCHANGED <<mem, disk, open>> /\ pc = "send" /\ cur \in Wish
    BY <1>26, <1>c DEF SendFailed
  <2>2. CASE UNCHANGED <<heard, heardAt, forgotten>>
    BY <2>1, <2>2, <1>0, ToldUntouched
  <2>3. CASE Hear /\ forgotten' = forgotten \cup {cur}
    BY <1>c, <2>1, <2>3 DEF Hear, ToldOnRecord, Unsaved
  <2> QED
    BY <1>26, <2>2, <2>3 DEF SendFailed
<1>27. CASE RecordTold
  <2>1. UNCHANGED <<mem, open, heard, heardAt>> /\ pc = "sent"
    BY <1>27 DEF RecordTold
  <2>2. \/ disk' = mem' /\ forgotten' = forgotten
        \/ (disk' = disk \/ disk' = mem') /\ forgotten' = forgotten \cup {cur}
    BY <1>27, WriteEither DEF RecordTold, Persisted
  <2> QED
    BY <2>1, <2>2 DEF ToldOnRecord, Unsaved
<1>28. CASE Refreshed
  <2>1. PICK r \in Found(cur) :
          /\ mem' = WithNote(cur,
               IF ~same_class(note(cur).reason, r)
                 THEN [[note(cur) EXCEPT !.searched_at = now]
                         EXCEPT !.reason = r, !.told = @ \ {"unsuitable"}]
                 ELSE [note(cur) EXCEPT !.searched_at = now])
          /\ heard' = IF ~same_class(note(cur).reason, r)
                        THEN [heard EXCEPT ![cur] = @ \ {"unsuitable"}] ELSE heard
    BY <1>28 DEF Refreshed
  <2>2. /\ cur \in Wish /\ note(cur) \in Note /\ pc = "refresh"
        /\ UNCHANGED <<open, heardAt, forgotten>> /\ (disk' = disk \/ disk' = mem')
    BY <1>28, <1>c, WriteEither DEF Refreshed
  <2>3. CASE same_class(note(cur).reason, r)
    <3> DEFINE n == [note(cur) EXCEPT !.searched_at = now]
    <3>1. n.told = note(cur).told /\ n.last_notice = note(cur).last_notice
      BY <2>2 DEF Note
    <3>2. ToldStays
      BY <2>1, <2>2, <2>3, <3>1, <1>w
    <3> QED
      BY <2>1, <2>2, <2>3, <3>2, ToldUntouched
  <2>4. CASE ~same_class(note(cur).reason, r)
    <3> DEFINE n == [[note(cur) EXCEPT !.searched_at = now]
                      EXCEPT !.reason = r, !.told = @ \ {"unsuitable"}]
    <3>1. n.told = note(cur).told \ {"unsuitable"} /\ n.last_notice = note(cur).last_notice
      BY <2>2 DEF Note
    <3>2. /\ mem'.requests[cur] = n
          /\ \A w \in open : w # cur => mem'.requests[w] = mem.requests[w]
      BY <2>1, <2>2, <2>4, <1>w
    <3>3. \A w \in open : heard'[w] = IF w = cur THEN heard[w] \ {"unsuitable"} ELSE heard[w]
      BY <2>1, <2>2, <2>4, <1>c
    <3> SUFFICES ASSUME NEW w \in open \ forgotten
                 PROVE /\ heard'[w] \subseteq mem'.requests[w].told
                       /\ heardAt'[w] = mem'.requests[w].last_notice
                       /\ heard'[w] \subseteq disk'.requests[w].told
                       /\ heardAt'[w] = disk'.requests[w].last_notice
      BY <2>2 DEF ToldOnRecord
    <3>4. CASE w = cur
      BY <2>2, <3>1, <3>2, <3>3, <3>4 DEF ToldOnRecord, Unsaved, note
    <3>5. CASE w # cur
      BY <2>2, <3>2, <3>3, <3>5 DEF ToldOnRecord, Unsaved
    <3> QED
      BY <3>4, <3>5
  <2> QED
    BY <2>3, <2>4
<1>29. CASE RefreshFailed
  BY <1>29, <1>0, ToldUntouched DEF RefreshFailed
<1> QED
  BY <1>1, <1>2, <1>3, <1>4, <1>5, <1>6, <1>7, <1>8, <1>9, <1>10, <1>11, <1>12, <1>13,
     <1>14, <1>15, <1>16, <1>17, <1>18, <1>19, <1>20, <1>21, <1>22, <1>23, <1>24, <1>25,
     <1>26, <1>27, <1>28, <1>29
  DEF Next, Watcher, World, Turn

LEMMA AboutToTellStep ==
  ASSUME TypedRound, AboutToTell, [Next]_vars
  PROVE  AboutToTell'
<1> USE DEF env, round, call, history
<1>1. CASE SearchForReason
  <2>1. /\ notice_class(State) = "unsuitable" /\ SpeaksUp
        /\ mem' = count_search(mem, now) /\ UNCHANGED <<cur, now>> /\ pc' = "search"
    BY <1>1 DEF SearchForReason, search_once, WantsSearch, notice_class
  <2>2. mem'.requests = mem.requests
    BY <2>1 DEF count_search
  <2> QED
    BY <2>1, <2>2 DEF AboutToTell, MayBeSaid, SpeaksUp, note
<1>2. CASE Announce
  <2>1. /\ notice' = notice_class(State) /\ SpeaksUp
        /\ UNCHANGED <<mem, cur, now>> /\ pc' = "send"
    BY <1>2 DEF Announce
  <2> QED
    BY <2>1 DEF AboutToTell, MayBeSaid, SpeaksUp, note
<1>3. CASE ReasonFound
  <2>1. PICK r \in Found(cur) :
          mem' = WithNote(cur, [note(cur) EXCEPT !.reason = r, !.searched_at = now])
    BY <1>3 DEF ReasonFound
  <2> DEFINE n == [note(cur) EXCEPT !.reason = r, !.searched_at = now]
  <2>2. /\ cur \in Wish /\ note(cur) \in Note /\ mem \in Notices /\ now \in Nat
        /\ pc = "search" /\ UNCHANGED now
        /\ \/ pc' = "send" /\ notice' = "unsuitable" /\ cur' = cur
           \/ pc' = "next"
    BY <1>3 DEF ReasonFound, NextWish, TypedRound, TypeOK, RoundOK, note, Notices
  <2>3. /\ n.told = note(cur).told /\ n.last_notice = note(cur).last_notice /\ n \in Note
    BY <2>2, FoundIsReason DEF Note, Maybe
  <2>4. mem'.requests[cur] = n
    BY <2>1, <2>2, <2>3, WithNoteType
  <2> QED
    BY <2>2, <2>3, <2>4 DEF AboutToTell, MayBeSaid, note
<1>4. ~SearchForReason /\ ~Announce /\ ~ReasonFound /\ pc' \in {"search", "send"}
        => UNCHANGED <<pc, mem, cur, now, notice>>
  BY DEF vars, NextWish, LeaveRefresh, Idle, Next, Watcher, World, Turn, Tick, Close,
         Release, Crash, Outage, BeginRound, Consider, Refresh, NoRefresh, FinishRound,
         RecordRetry, Retry, TakeQueueItem, LookAtMovie, LookAtSeries, ReadHistory,
         NoAnswer, StaySilent, NobodyToTell, SearchFailed, Send, SendFailed, RecordTold,
         Refreshed, RefreshFailed
<1>5. CASE ~SearchForReason /\ ~Announce /\ ~ReasonFound
  BY <1>4, <1>5 DEF AboutToTell, MayBeSaid
<1> QED
  BY <1>1, <1>2, <1>3, <1>5

\* What both notice properties rest on.
ToldOK == TypedRound /\ ToldOnRecord /\ AboutToTell

LEMMA ToldInvariant ==
  ASSUME ~MayOmit
  PROVE  Spec => []ToldOK
<1>1. Init => ToldOK
  <2>1. Init => ToldOnRecord
    BY DEF Init, ToldOnRecord, NoNotices, NewNote
  <2>2. Init => AboutToTell
    BY DEF Init, AboutToTell
  <2> QED
    BY <2>1, <2>2, TypedRoundInit DEF ToldOK
<1>2. ToldOK /\ [Next]_vars => ToldOK'
  BY TypedRoundStep, ToldStep, AboutToTellStep DEF ToldOK
<1> QED
  BY <1>1, <1>2, PTL DEF Spec

\* Nobody is told the same thing about the same wish twice, unless the reason
\* changed or the first message is not on record (watch.rs consider: told).
THEOREM ToldOnce ==
  ASSUME ~MayOmit
  PROVE  Spec => []NoNoticeTwice
<1>1. ToldOK => NoNoticeTwice
  BY DEF ToldOK, TypedRound, RoundOK, ToldOnRecord, AboutToTell, MayBeSaid, NoNoticeTwice
<1> QED
  BY <1>1, ToldInvariant, PTL

\* Two messages about one wish are at least MIN_NOTICE_GAP apart, whatever their
\* classes (watch.rs consider: last_notice).
THEOREM NoticesApart ==
  ASSUME ~MayOmit
  PROVE  Spec => []GapKept
<1>1. ToldOK => GapKept
  BY DEF ToldOK, TypedRound, RoundOK, ToldOnRecord, AboutToTell, MayBeSaid, GapKept
<1> QED
  BY <1>1, ToldInvariant, PTL
-----------------------------------------------------------------------------
(* The promise                                                              *)

\* A reason that names no languages is known by its class.
LEMMA ReasonShape ==
  ASSUME NEW r \in Reason, r.class # "only_in_languages"
  PROVE  r = Because(r.class)
<1>1. PICK releases, wanted : r = reason_from(releases, wanted)
  BY DEF Reason, Found
<1>2. \/ r \in { Because(c) : c \in ReasonClass }
      \/ r = OnlyInLanguages(languages_by_frequency(releases))
  BY <1>1 DEF reason_from, ReasonClass
<1> QED
  BY <1>2 DEF Because, OnlyInLanguages

\* Reasons of different classes are different obstacles (watch.rs same_class).
LEMMA AnotherObstacle ==
  ASSUME NEW a \in Reason, NEW b \in Reason, ~same_class(a, b)
  PROVE  <<a.class, Named(a)>> # <<b.class, Named(b)>>
<1>1. CASE a.class # "only_in_languages" /\ b.class # "only_in_languages"
  <2>1. a = Because(a.class) /\ b = Because(b.class) /\ a # b
    BY <1>1, ReasonShape DEF same_class
  <2> QED
    BY <2>1
<1> QED
  BY <1>1 DEF same_class

\* A reason that is looked at again is one.
Refreshing == pc = "refresh" => note(cur).reason \in Reason

LEMMA RefreshingStep == TypedRound /\ Refreshing /\ [Next]_vars => Refreshing'
<1> SUFFICES ASSUME TypedRound, Refreshing, [Next]_vars, pc' = "refresh"
             PROVE  (note(cur).reason \in Reason)'
  BY DEF Refreshing
<1> USE DEF env, round, call, history
<1>1. CASE UNCHANGED <<pc, mem, cur>>
  BY <1>1 DEF Refreshing, note
<1>2. ASSUME NEW w \in Wish, Refresh(w) PROVE (note(cur).reason \in Reason)'
  <2>1. note(w).reason # None /\ note(w) \in Note /\ cur' = w
    BY <1>2 DEF Refresh, refresh_candidates, RefreshDue, TypedRound, TypeOK, Notices, note
  <2>2. mem'.requests = mem.requests
    BY <1>2 DEF Refresh, search_once, count_search
  <2> QED
    BY <2>1, <2>2 DEF note, Note, Maybe
<1> QED
  BY <1>1, <1>2
  DEF vars, NextWish, LeaveRefresh, Idle, Next, Watcher, World, Turn, Tick, Close,
      Release, Crash, Outage, BeginRound, Consider, NoRefresh, FinishRound, RecordRetry,
      Retry, TakeQueueItem, LookAtMovie, LookAtSeries, ReadHistory, NoAnswer, StaySilent,
      NobodyToTell, Announce, SearchForReason, ReasonFound, SearchFailed, Send,
      SendFailed, RecordTold, Refreshed, RefreshFailed

PromiseOK == ToldOK /\ CountOnRecord /\ RetryOnRecord /\ Refreshing

\* One lemma per promise: a step that touches what a promise is about is the
\* promised step.
LEMMA ASearch ==
  ASSUME TypedRound, CountOnRecord, search_once,
         UNCHANGED <<now, heard, heardAt, handed, forgotten>>
  PROVE  Promise!Search
<1>1. /\ now \in Nat /\ calls \in Nat /\ mem \in Notices /\ MaxSearchesPerDay \in Nat
      /\ searches_on(mem, Day(now)) \in Nat /\ recount \in BOOLEAN
  BY SettingsAssumption, CountType DEF TypedRound, TypeOK
<1>2. calls < MaxSearchesPerDay \/ recount
  BY <1>1 DEF search_once, may_search, CountOnRecord
<1>3. /\ calls' = calls + 1 /\ recount' \in {recount, TRUE}
      /\ mem'.requests = mem.requests
  BY DEF search_once, count_search
<1>4. About' = About
  BY <1>3 DEF About, note
<1> QED
  BY <1>2, <1>3, <1>4 DEF Promise!Search, Promise!told

LEMMA AMessage ==
  ASSUME PromiseOK, pc = "send", Hear, UNCHANGED <<now, handed, calls, recount>>,
         About' = About, forgotten' \in {forgotten, forgotten \cup {cur}}
  PROVE  \E w \in Wish : Promise!Tell(w)
<1>1. /\ cur \in Wish /\ notice \in Class
      /\ cur \notin forgotten =>
           /\ notice \notin heard[cur]
           /\ heardAt[cur] = None \/ now - heardAt[cur] >= MIN_NOTICE_GAP
  BY DEF PromiseOK, ToldOK, TypedRound, TypeOK, RoundOK, ToldOnRecord, AboutToTell, MayBeSaid
<1>2. Promise!Tell(cur)
  BY <1>1 DEF Promise!Tell, Promise!spent, Hear
<1> QED
  BY <1>1, <1>2

\* A refresh that forgets what was said found another obstacle.
LEMMA ARefresh ==
  ASSUME PromiseOK, Refreshed
  PROVE  Promise!LearnOrForget \/ \E w \in Wish : Promise!News(w)
<1> USE DEF env, round, call, history
<1>1. cur \in Wish /\ note(cur) \in Note /\ note(cur).reason \in Reason /\ mem \in Notices
  BY DEF PromiseOK, ToldOK, TypedRound, TypeOK, RoundOK, Refreshing, Refreshed, Notices, note
<1>2. PICK r \in Found(cur) :
        /\ mem' = WithNote(cur,
             IF ~same_class(note(cur).reason, r)
               THEN [[note(cur) EXCEPT !.searched_at = now]
                       EXCEPT !.reason = r, !.told = @ \ {"unsuitable"}]
               ELSE [note(cur) EXCEPT !.searched_at = now])
        /\ heard' = IF ~same_class(note(cur).reason, r)
                      THEN [heard EXCEPT ![cur] = @ \ {"unsuitable"}] ELSE heard
  BY DEF Refreshed
<1>3. UNCHANGED <<now, heardAt, handed, calls, recount, forgotten>>
  BY DEF Refreshed
<1>4. CASE same_class(note(cur).reason, r)
  BY <1>2, <1>3, <1>4 DEF Promise!LearnOrForget, Promise!told, Promise!spent
<1>5. CASE ~same_class(note(cur).reason, r)
  <2> DEFINE n == [[note(cur) EXCEPT !.searched_at = now]
                     EXCEPT !.reason = r, !.told = @ \ {"unsuitable"}]
  <2>1. r \in Reason /\ n \in Note /\ n.reason = r /\ r # None
    BY <1>1, FoundIsReason, AnswerAssumption DEF Note, Maybe, PromiseOK, ToldOK, TypedRound, TypeOK
  <2>2. mem' = WithNote(cur, n)
    BY <1>2, <1>5
  <2>3. mem'.requests[cur].reason = r
    BY <1>1, <2>1, <2>2, WithNoteType
  <2>4. /\ About[cur] = {<<note(cur).reason.class, Named(note(cur).reason)>>}
        /\ About'[cur] = {<<r.class, Named(r)>>}
    BY <1>1, <2>1, <2>3, AnswerAssumption DEF About, note
  <2>5. About[cur] # {} /\ About'[cur] # {} /\ About'[cur] # About[cur]
    BY <1>1, <1>5, <2>1, <2>4, AnotherObstacle
  <2>6. Promise!News(cur)
    BY <1>2, <1>3, <1>5, <2>5 DEF Promise!News, Promise!spent
  <2> QED
    BY <1>1, <2>6
<1> QED
  BY <1>4, <1>5

\* Every other step learns something, loses something, or does not concern the
\* promise.
LEMMA ASilentStep ==
  ASSUME UNCHANGED <<now, heard, heardAt, handed, calls, recount>>,
         forgotten \subseteq forgotten'
  PROVE  Promise!LearnOrForget
BY DEF Promise!LearnOrForget, Promise!told, Promise!spent
LEMMA PromiseStep == PromiseOK /\ [Next]_vars => [Promise!Next]_Promise!vars
<1> SUFFICES ASSUME PromiseOK, [Next]_vars PROVE [Promise!Next]_Promise!vars
  OBVIOUS
<1> USE DEF env, round, call, history
<1>c. /\ cur \in Maybe(Wish) /\ now \in Nat /\ clock \in Nat /\ now <= clock
      /\ pc \in {"retry", "send"} => cur \in Wish /\ note(cur) \in Note /\ mem \in Notices
  BY DEF PromiseOK, ToldOK, TypedRound, TypeOK, RoundOK, Notices, note
<1>1. CASE UNCHANGED vars
  BY <1>1 DEF vars, About, note, Promise!vars, Promise!told, Promise!spent
<1>2. CASE BeginRound
  <2>1. About' = About
    BY <1>2 DEF BeginRound, About, note
  <2>2. Promise!Round
    BY <1>2, <1>c, <2>1 DEF BeginRound, Day, Promise!Round, Promise!told
  <2> QED
    BY <2>2 DEF Promise!Next
<1>3. ASSUME NEW w \in Wish, Refresh(w) PROVE Promise!Next
  <2>1. Promise!Search
    BY <1>3, ASearch DEF Refresh, PromiseOK, ToldOK
  <2> QED
    BY <2>1 DEF Promise!Next
<1>4. CASE SearchForReason
  <2>1. Promise!Search
    BY <1>4, ASearch DEF SearchForReason, PromiseOK, ToldOK
  <2> QED
    BY <2>1 DEF Promise!Next
<1>5. CASE Retry
  <2>1. About' = About
    BY <1>5 DEF Retry, About, note
  <2>2. cur \in Wish /\ cur \notin handed
    BY <1>5, <1>c DEF Retry, PromiseOK, RetryOnRecord
  <2>3. Promise!HandOver(cur)
    BY <1>5, <2>1, <2>2 DEF Retry, Promise!HandOver, Promise!told, Promise!spent
  <2> QED
    BY <2>2, <2>3 DEF Promise!Next
<1>6. CASE Send
  <2> DEFINE n == [note(cur) EXCEPT !.told = @ \cup {notice}, !.last_notice = now]
  <2>1. notice \in Class
    BY <1>6 DEF Send, PromiseOK, ToldOK, TypedRound, RoundOK
  <2>2. n \in Note /\ n.reason = note(cur).reason /\ mem' = WithNote(cur, n)
    BY <1>6, <1>c, <2>1 DEF Send, Note, Maybe
  <2> HIDE DEF n
  <2>n. mem \in Notices /\ cur \in Wish
    BY <1>6, <1>c DEF Send
  <2>m. /\ mem'.requests[cur] = n
        /\ \A w \in Wish \ {cur} : mem'.requests[w] = mem.requests[w]
    BY <2>2, <2>n, WithNoteType
  <2>3. \A w \in Wish : mem'.requests[w].reason = mem.requests[w].reason
    BY <2>2, <2>m DEF note
  <2>4. About' = About
    BY <2>3 DEF About, note
  <2>5. \E w \in Wish : Promise!Tell(w)
    BY <1>6, <2>4, AMessage DEF Send
  <2> QED
    BY <2>5 DEF Promise!Next
<1>7. CASE SendFailed
  <2>1. About' = About
    BY <1>7 DEF SendFailed, About, note
  <2>2. CASE Hear
    <3>1. \E w \in Wish : Promise!Tell(w)
      BY <1>7, <2>1, <2>2, AMessage DEF SendFailed
    <3> QED
      BY <3>1 DEF Promise!Next
  <2>3. CASE ~Hear
    BY <1>7, <2>3, ASilentStep DEF SendFailed, Promise!Next
  <2> QED
    BY <2>2, <2>3
<1>8. CASE Refreshed
  BY <1>8, ARefresh DEF Promise!Next
<1> DEFINE Silent == /\ UNCHANGED <<now, heard, heardAt, handed, calls, recount>>
                     /\ forgotten \subseteq forgotten'
<1>9. Silent => Promise!Next
  BY ASilentStep DEF Promise!Next
<1>10. \/ Silent \/ UNCHANGED vars \/ BeginRound \/ SearchForReason \/ Retry \/ Send
       \/ SendFailed \/ Refreshed \/ \E w \in Wish : Refresh(w)
  BY DEF Next, Watcher, World, Turn, Tick, Close, Release, Crash, Outage, Consider,
         NoRefresh, FinishRound, RecordRetry, TakeQueueItem, LookAtMovie, LookAtSeries,
         ReadHistory, NoAnswer, StaySilent, NobodyToTell, Announce, ReasonFound,
         SearchFailed, RecordTold, RefreshFailed
<1> QED
  BY <1>1, <1>2, <1>3, <1>4, <1>5, <1>6, <1>7, <1>8, <1>9, <1>10

\* The watcher with its rounds, its record and its restarts implements what it
\* promises, if Seerr lists every open wish every time.
THEOREM KeepsPromise ==
  ASSUME ~MayOmit
  PROVE  Spec => PromiseKept
<1>1. Init => PromiseOK /\ Promise!Init
  <2>1. Init => CountOnRecord
    BY SettingsAssumption DEF Init, CountOnRecord, NoNotices, searches_on
  <2>2. Init => RetryOnRecord /\ Refreshing /\ ToldOnRecord /\ AboutToTell
    BY DEF Init, RetryOnRecord, Refreshing, ToldOnRecord, AboutToTell, NoNotices, NewNote
  <2>3. Init => About = [w \in Wish |-> {}]
    BY DEF Init, About, note, NoNotices, NewNote
  <2> QED
    BY <2>1, <2>2, <2>3, TypedRoundInit DEF Init, PromiseOK, ToldOK, Promise!Init
<1>2. PromiseOK /\ [Next]_vars => PromiseOK'
  BY TypedRoundStep, ToldStep, AboutToTellStep, CountStep, RetryStep, RefreshingStep
  DEF PromiseOK, ToldOK
<1> QED
  BY <1>1, <1>2, PromiseStep, PTL DEF Spec, PromiseKept, Promise!Spec

-----------------------------------------------------------------------------
(* Films that were not out yet                                              *)

\* A film whose note n has a date is out, and if it was seen unreleased the date
\* is not before the day it came out, give or take the tick a round may last.
Dated(w, n) ==
  n.released_seen # None =>
    /\ releasedAt[w] # None
    /\ n.seen_unreleased => n.released_seen + 1 >= releasedAt[w]

\* The film that is being considered was asked about.
FilmSeen ==
  pc \in {"history", "judge"} /\ ev.movie # None =>
    /\ ev.queue_item = None /\ ev.series = None
    /\ ev.movie # "unavailable" => note(cur).released_seen # None

\* What is about to be told of a film waited for its deadline.
FilmDue ==
  /\ pc \in {"search", "send"} /\ ev.movie # None
  /\ pc = "send" => notice # "not_handed_over"
  => /\ note(cur).released_seen # None
     /\ now - note(cur).released_seen >= StallAfter

Released ==
  /\ \A w \in Wish : releasedAt[w] # None => releasedAt[w] <= clock
  /\ pc # "idle" => clock <= now + 1
  /\ \A w \in Wish : Dated(w, mem.requests[w]) /\ Dated(w, disk.requests[w])

SameDates(n, m) == n.released_seen = m.released_seen /\ n.seen_unreleased = m.seen_unreleased

DatesSurvive ==
  \A w \in Wish : \E n \in {mem.requests[w], disk.requests[w], NewNote} :
    SameDates(mem'.requests[w], n)

\* Only a look at the film changes the dates on record; a kill goes back to
\* those on file, and the clean-up to none.
LEMMA DatesStay ==
  ASSUME TypedRound, [Next]_vars, ~LookAtMovie
  PROVE  DatesSurvive
<1>0. mem'.requests = mem.requests => DatesSurvive
  BY DEF DatesSurvive, SameDates
<1>c. /\ pc \in {"consider", "retry", "history", "judge", "search", "send", "sent", "refresh"}
           => cur \in Wish /\ note(cur) \in Note
      /\ mem \in Notices /\ now \in Nat
  BY DEF TypedRound, TypeOK, RoundOK, note, Notices
<1>1. ASSUME cur \in Wish, NEW n, mem' = WithNote(cur, n), SameDates(n, note(cur))
      PROVE  DatesSurvive
  <2>1. mem'.requests = [mem.requests EXCEPT ![cur] = n]
    BY <1>1, <1>c DEF WithNote, Notices
  <2>2. \A w \in Wish : mem'.requests[w] = IF w = cur THEN n ELSE mem.requests[w]
    BY <2>1, <1>1, <1>c DEF Notices
  <2> QED
    BY <2>2, <1>1 DEF DatesSurvive, note, SameDates
<1>2. CASE Crash
  BY <1>2 DEF DatesSurvive, Crash, SameDates
<1>3. CASE FinishRound
  <2>1. mem' = retain_only(mem, listed)
    BY <1>3 DEF FinishRound
  <2>2. \A w \in Wish : mem'.requests[w] \in {mem.requests[w], NewNote}
    BY <2>1, <1>c DEF retain_only, Notices
  <2> QED
    BY <2>2 DEF DatesSurvive, SameDates
<1>4. CASE RecordRetry
  <2>1. cur \in Wish /\ mem' = WithNote(cur, [note(cur) EXCEPT !.retried_at = now])
    BY <1>4, <1>c DEF RecordRetry
  <2>2. SameDates([note(cur) EXCEPT !.retried_at = now], note(cur))
    BY <1>4, <1>c DEF RecordRetry, Note, SameDates
  <2> QED
    BY <2>1, <2>2, <1>1
<1>5. CASE ReasonFound
  <2>1. PICK r \in Found(cur) :
          mem' = WithNote(cur, [note(cur) EXCEPT !.reason = r, !.searched_at = now])
    BY <1>5 DEF ReasonFound
  <2> DEFINE n == [note(cur) EXCEPT !.reason = r, !.searched_at = now]
  <2>2. cur \in Wish /\ SameDates(n, note(cur))
    BY <1>5, <1>c DEF ReasonFound, Note, SameDates
  <2> QED
    BY <2>1, <2>2, <1>1
<1>6. CASE Send
  <2> DEFINE n == [note(cur) EXCEPT !.told = @ \cup {notice}, !.last_notice = now]
  <2>1. cur \in Wish /\ SameDates(n, note(cur))
    BY <1>6, <1>c DEF Send, Note, SameDates
  <2>2. mem' = WithNote(cur, n)
    BY <1>6 DEF Send
  <2> HIDE DEF n
  <2> QED
    BY <2>1, <2>2, <1>1
<1>7. CASE Refreshed
  <2>1. PICK r \in Found(cur) :
          mem' = WithNote(cur,
            IF ~same_class(note(cur).reason, r)
              THEN [[note(cur) EXCEPT !.searched_at = now]
                      EXCEPT !.reason = r, !.told = @ \ {"unsuitable"}]
              ELSE [note(cur) EXCEPT !.searched_at = now])
    BY <1>7 DEF Refreshed
  <2> DEFINE n == IF ~same_class(note(cur).reason, r)
                    THEN [[note(cur) EXCEPT !.searched_at = now]
                            EXCEPT !.reason = r, !.told = @ \ {"unsuitable"}]
                    ELSE [note(cur) EXCEPT !.searched_at = now]
  <2>2. cur \in Wish /\ note(cur) \in Note
    BY <1>7, <1>c DEF Refreshed
  <2>3. SameDates(n, note(cur))
    BY <2>2 DEF Note, SameDates
  <2>4. mem' = WithNote(cur, n)
    BY <2>1
  <2> HIDE DEF n
  <2> QED
    BY <2>2, <2>3, <2>4, <1>1
<1>8. ASSUME search_once PROVE DatesSurvive
  BY <1>8, <1>0, <1>c, CountType DEF search_once
<1>9. CASE UNCHANGED vars
  BY <1>9, <1>0 DEF vars
<1> QED
  BY <1>0, <1>2, <1>3, <1>4, <1>5, <1>6, <1>7, <1>8, <1>9
  DEF env, round, call, history, Next, Watcher, World, Turn, Tick, Close, Release, Outage,
      BeginRound, Consider, Refresh, NoRefresh, Retry, TakeQueueItem, LookAtSeries,
      ReadHistory, NoAnswer, StaySilent, NobodyToTell, Announce, SearchForReason,
      SearchFailed, SendFailed, RecordTold, RefreshFailed

\* The clock does not go back, a film comes out once, and a round is under way
\* for no more than a tick.
LEMMA WorldStep ==
  ASSUME TypedRound, Released, [Next]_vars
  PROVE  /\ clock' \in Nat /\ clock' >= clock
         /\ pc' # "idle" => clock' <= now' + 1
         /\ \A w \in Wish : /\ releasedAt[w] # None => releasedAt'[w] = releasedAt[w]
                            /\ releasedAt'[w] # None => releasedAt'[w] <= clock'
<1> USE DEF env, round, call, history
<1>c. clock \in Nat /\ now \in Nat /\ releasedAt \in [Wish -> Maybe(Nat)]
  BY DEF TypedRound, TypeOK
<1>1. CASE Tick
  BY <1>1, <1>c DEF Tick, Released, Maybe
<1>2. CASE BeginRound
  BY <1>2, <1>c DEF BeginRound, Released
<1>3. ASSUME NEW w \in Wish, Release(w)
      PROVE  /\ clock' \in Nat /\ clock' >= clock
             /\ pc' # "idle" => clock' <= now' + 1
             /\ \A v \in Wish : /\ releasedAt[v] # None => releasedAt'[v] = releasedAt[v]
                                /\ releasedAt'[v] # None => releasedAt'[v] <= clock'
  BY <1>3, <1>c DEF Release, Released, Maybe
<1>4. CASE UNCHANGED <<clock, releasedAt>> /\ (pc' = "idle" \/ (pc # "idle" /\ UNCHANGED now))
  BY <1>4, <1>c DEF Released
<1> QED
  BY <1>1, <1>2, <1>3, <1>4
  DEF vars, Next, Watcher, World, Turn, Close, Crash, Outage, Consider, Refresh, NoRefresh,
      RefreshesNow, FinishRound, RecordRetry, Retry, TakeQueueItem, LookAtMovie,
      LookAtSeries, ReadHistory,
      NoAnswer, StaySilent, NobodyToTell, Announce, SearchForReason, ReasonFound,
      SearchFailed, Send, SendFailed, RecordTold, Refreshed, RefreshFailed, NextWish,
      LeaveRefresh, Idle

LEMMA ReleasedStep ==
  ASSUME TypedRound, Released, [Next]_vars
  PROVE  Released'
<1>c. /\ clock \in Nat /\ now \in Nat /\ releasedAt \in [Wish -> Maybe(Nat)]
      /\ mem \in Notices /\ disk \in Notices
  BY DEF TypedRound, TypeOK
<1>1. \A w \in Wish, n \in Note : Dated(w, n) => Dated(w, n)'
  BY WorldStep DEF Dated
<1>2. ASSUME NEW w \in Wish, ~LookAtMovie PROVE Dated(w, mem.requests[w])'
  <2>1. PICK n \in {mem.requests[w], disk.requests[w], NewNote} :
          SameDates(mem'.requests[w], n)
    BY <1>2, DatesStay DEF DatesSurvive
  <2>2. n \in Note /\ Dated(w, n)
    <3>1. NewNote.released_seen = None
      BY DEF NewNote
    <3>2. mem.requests[w] \in Note /\ disk.requests[w] \in Note
      BY <1>c DEF Notices
    <3>3. Dated(w, NewNote) /\ Dated(w, mem.requests[w]) /\ Dated(w, disk.requests[w])
      BY <3>1 DEF Released, Dated
    <3> QED
      BY <3>2, <3>3, NewNoteType
  <2>3. Dated(w, n)'
    BY <1>1, <2>2
  <2> QED
    BY <2>1, <2>3 DEF SameDates, Dated
<1>3. ASSUME NEW w \in Wish, LookAtMovie PROVE Dated(w, mem.requests[w])'
  <2> DEFINE n == observe(note(cur), cur, releasedAt[cur] # None)
  <2>1. cur \in Wish /\ note(cur) \in Note /\ Dated(cur, note(cur)) /\ clock <= now + 1
    BY <1>3, <1>c DEF LookAtMovie, Released, TypedRound, RoundOK, TypeOK, note, Notices
  <2>2. mem' = WithNote(cur, n) /\ UNCHANGED releasedAt
    BY <1>3 DEF LookAtMovie, env
  <2>3. n \in Note
    BY <2>1, <1>c, ObserveType
  <2>4. Dated(cur, n)
    <3>1. CASE releasedAt[cur] = None
      BY <2>1, <3>1 DEF observe, Dated, Note
    <3>2. CASE releasedAt[cur] # None /\ note(cur).released_seen # None
      BY <2>1, <3>2 DEF observe
    <3>3. CASE releasedAt[cur] # None /\ note(cur).released_seen = None
      <4>1. releasedAt[cur] \in Nat /\ releasedAt[cur] <= clock
        BY <2>1, <3>3, <1>c DEF Released, Maybe
      <4>2. CASE note(cur).seen_unreleased
        BY <2>1, <3>3, <4>1, <4>2, <1>c DEF observe, Dated, Note
      <4>3. CASE ~note(cur).seen_unreleased
        BY <2>1, <3>3, <4>3 DEF observe, Dated, Note
      <4> QED
        BY <4>2, <4>3
    <3> QED
      BY <3>1, <3>2, <3>3
  <2>5. CASE w = cur
    <3>1. mem'.requests[w] = n
      BY <2>1, <2>2, <2>3, <2>5, <1>c, WithNoteType
    <3> HIDE DEF n
    <3> QED
      BY <2>2, <2>4, <2>5, <3>1 DEF Dated
  <2>6. CASE w # cur
    <3>1. mem'.requests[w] = mem.requests[w] /\ mem.requests[w] \in Note
      BY <2>1, <2>2, <2>3, <2>6, <1>c, WithNoteType DEF Notices
    <3> QED
      BY <2>2, <3>1 DEF Dated, Released
  <2> QED
    BY <2>5, <2>6
<1>4. ASSUME NEW w \in Wish PROVE Dated(w, disk.requests[w])'
  <2>1. disk' = disk => Dated(w, disk.requests[w])'
    <3>1. disk.requests[w] \in Note /\ Dated(w, disk.requests[w])
      BY <1>c DEF Notices, Released
    <3> QED
      BY <1>1, <3>1 DEF Dated
  <2>2. Dated(w, mem.requests[w])'
    BY <1>2, <1>3
  <2> QED
    BY <2>1, <2>2, DiskStep DEF Dated
<1> QED
  BY <1>2, <1>3, <1>4, WorldStep DEF Released

LEMMA FilmSeenStep ==
  ASSUME TypedRound, FilmSeen, [Next]_vars
  PROVE  FilmSeen'
<1> USE DEF env, round, call, history
<1>1. CASE LookAtMovie
  <2> DEFINE n == observe(note(cur), cur, releasedAt[cur] # None)
  <2>1. /\ cur \in Wish /\ note(cur) \in Note /\ mem \in Notices /\ now \in Nat
        /\ UNCHANGED cur /\ mem' = WithNote(cur, n)
        /\ ev' = [Known(cur) EXCEPT !.movie =
                    IF releasedAt[cur] # None THEN "available" ELSE "unavailable"]
    BY <1>1 DEF LookAtMovie, TypedRound, TypeOK, RoundOK, note, Notices
  <2>2. ev'.queue_item = None /\ ev'.series = None
    BY <2>1 DEF Known, NoEvidence
  <2>3. ev'.movie # "unavailable" => releasedAt[cur] # None
    BY <2>1 DEF Known, NoEvidence
  <2>4. releasedAt[cur] # None => n.released_seen # None
    <3>1. now # None /\ CreatedAt[cur] # None
      BY <2>1, AnswerAssumption, WishAssumption
    <3> QED
      BY <2>1, <3>1 DEF observe, Note
  <2>5. n \in Note
    BY <2>1, ObserveType
  <2> HIDE DEF n
  <2>6. mem'.requests[cur] = n
    BY <2>1, <2>5, WithNoteType
  <2> QED
    BY <2>1, <2>2, <2>3, <2>4, <2>6 DEF FilmSeen, note
<1>2. CASE TakeQueueItem \/ LookAtSeries
  BY <1>2 DEF TakeQueueItem, LookAtSeries, Known, NoEvidence, FilmSeen
<1>3. CASE ReadHistory
  <2>1. PICK e \in LastEvents : ev' = [ev EXCEPT !.last_event = e]
    BY <1>3 DEF ReadHistory
  <2>2. ev'.movie = ev.movie /\ ev'.queue_item = ev.queue_item /\ ev'.series = ev.series
    BY <2>1 DEF TypedRound, TypeOK, Evidence
  <2> QED
    BY <1>3, <2>2 DEF ReadHistory, FilmSeen, note
<1>4. ~LookAtMovie /\ ~TakeQueueItem /\ ~LookAtSeries /\ ~ReadHistory
        => pc' \notin {"history", "judge"} \/ UNCHANGED <<pc, ev, mem, cur>>
  BY DEF vars, NextWish, LeaveRefresh, Idle, Next, Watcher, World, Turn, Tick, Close,
         Release, Crash, Outage, BeginRound, Consider, Refresh, NoRefresh, FinishRound,
         RecordRetry, Retry, NoAnswer, StaySilent, NobodyToTell, Announce, SearchForReason,
         ReasonFound, SearchFailed, Send, SendFailed, RecordTold, Refreshed, RefreshFailed
<1>5. CASE ~LookAtMovie /\ ~TakeQueueItem /\ ~LookAtSeries /\ ~ReadHistory
  BY <1>4, <1>5 DEF FilmSeen, note
<1> QED
  BY <1>1, <1>2, <1>3, <1>5

\* What speaks up for a film has seen it available, and its deadline pass.
LEMMA FilmWaited ==
  ASSUME TypedRound, FilmSeen, pc = "judge", ev.movie # None, SpeaksUp,
         notice_class(State) # "not_handed_over"
  PROVE  /\ note(cur).released_seen # None
         /\ now - note(cur).released_seen >= StallAfter
<1>1. /\ cur \in Wish /\ note(cur) \in Note /\ now \in Nat /\ CreatedAt[cur] \in Nat
      /\ StallAfter \in Nat /\ answer[cur] \in Answers
  BY WishAssumption, SettingsAssumption DEF TypedRound, TypeOK, RoundOK, note, Notices
<1>2. ev.queue_item = None /\ ev.series = None
  BY DEF FilmSeen
<1>3. State \in {"Searching", "Unsuitable", "DownloadFailed", "ImportStuck"}
  BY DEF SpeaksUp, notice_class
<1>4. ev.movie # "unavailable" /\ State # "NotHandedOver"
  BY <1>2, <1>3 DEF State, classify
<1>5. note(cur).released_seen # None
  BY <1>4 DEF FilmSeen
<1>6. note(cur).released_seen \in Nat
  BY <1>1, <1>5 DEF Note, Maybe
<1>7. Since(State) = Later(CreatedAt[cur], note(cur).released_seen)
  BY <1>2, <1>4, <1>5 DEF Since
<1>8. now - Since(State) >= StallAfter
  BY DEF SpeaksUp
<1> QED
  BY <1>1, <1>5, <1>6, <1>7, <1>8 DEF Later

LEMMA FilmDueStep ==
  ASSUME TypedRound, FilmSeen, FilmDue, [Next]_vars
  PROVE  FilmDue'
<1> USE DEF env, round, call, history
<1>1. CASE SearchForReason
  <2>1. /\ pc = "judge" /\ notice_class(State) = "unsuitable" /\ SpeaksUp
        /\ mem' = count_search(mem, now) /\ UNCHANGED <<cur, now, ev>>
    BY <1>1 DEF SearchForReason, search_once, WantsSearch, notice_class
  <2>2. mem'.requests = mem.requests
    BY <2>1 DEF count_search
  <2> QED
    BY <2>1, <2>2, FilmWaited DEF FilmDue, note
<1>2. CASE Announce
  <2>1. /\ pc = "judge" /\ pc' = "send" /\ notice' = notice_class(State) /\ SpeaksUp
        /\ UNCHANGED <<mem, cur, now, ev>>
    BY <1>2 DEF Announce
  <2> QED
    BY <2>1, FilmWaited DEF FilmDue, note
<1>3. CASE ReasonFound
  <2>1. PICK r \in Found(cur) :
          mem' = WithNote(cur, [note(cur) EXCEPT !.reason = r, !.searched_at = now])
    BY <1>3 DEF ReasonFound
  <2> DEFINE n == [note(cur) EXCEPT !.reason = r, !.searched_at = now]
  <2>2. /\ cur \in Wish /\ note(cur) \in Note /\ mem \in Notices /\ now \in Nat
        /\ pc = "search" /\ UNCHANGED now
        /\ \/ pc' = "send" /\ UNCHANGED <<cur, ev>>
           \/ pc' = "next"
    BY <1>3 DEF ReasonFound, NextWish, TypedRound, TypeOK, RoundOK, note, Notices
  <2>3. n.released_seen = note(cur).released_seen /\ n \in Note
    BY <2>2, FoundIsReason DEF Note, Maybe
  <2>4. mem'.requests[cur] = n
    BY <2>1, <2>2, <2>3, WithNoteType
  <2> HIDE DEF n
  <2> QED
    BY <2>2, <2>3, <2>4 DEF FilmDue, note
<1>4. ~SearchForReason /\ ~Announce /\ ~ReasonFound /\ pc' \in {"search", "send"}
        => UNCHANGED <<pc, mem, cur, now, notice, ev>>
  BY DEF vars, NextWish, LeaveRefresh, Idle, Next, Watcher, World, Turn, Tick, Close,
         Release, Crash, Outage, BeginRound, Consider, Refresh, NoRefresh, FinishRound,
         RecordRetry, Retry, TakeQueueItem, LookAtMovie, LookAtSeries, ReadHistory,
         NoAnswer, StaySilent, NobodyToTell, SearchFailed, Send, SendFailed, RecordTold,
         Refreshed, RefreshFailed
<1>5. CASE ~SearchForReason /\ ~Announce /\ ~ReasonFound
  BY <1>4, <1>5 DEF FilmDue, note
<1> QED
  BY <1>1, <1>2, <1>3, <1>5

\* What Radarr says of a film that was seen unreleased is told when it has been
\* out for StallAfter, not before (watch.rs consider: seen_unreleased,
\* released_seen; notices.rs Note).
THEOREM ToldAfterRelease == Spec => []NoticeAfterRelease
<1> DEFINE FilmOK == TypedRound /\ Released /\ FilmSeen /\ FilmDue
<1>1. Init => Released /\ FilmSeen /\ FilmDue
  <2> SUFFICES ASSUME Init PROVE Released /\ FilmSeen /\ FilmDue
    OBVIOUS
  <2>1. \A w \in Wish : releasedAt[w] # None => releasedAt[w] <= clock
    BY DEF Init
  <2>2. \A w \in Wish : Dated(w, mem.requests[w]) /\ Dated(w, disk.requests[w])
    BY DEF Init, NoNotices, NewNote, Dated
  <2> QED
    BY <2>1, <2>2 DEF Init, Released, FilmSeen, FilmDue
<1>2. FilmOK => NoticeAfterRelease
  <2> SUFFICES ASSUME FilmOK, pc = "send", notice # "not_handed_over", ev.movie # None,
                      note(cur).seen_unreleased
               PROVE  releasedAt[cur] # None /\ now + 1 - releasedAt[cur] >= StallAfter
    BY DEF NoticeAfterRelease
  <2>1. /\ cur \in Wish /\ note(cur) \in Note /\ now \in Nat /\ StallAfter \in Nat
        /\ releasedAt[cur] \in Maybe(Nat)
    BY SettingsAssumption DEF TypedRound, TypeOK, RoundOK, note, Notices
  <2>2. /\ note(cur).released_seen # None
        /\ now - note(cur).released_seen >= StallAfter
    BY DEF FilmDue
  <2>3. note(cur).released_seen \in Nat
    BY <2>1, <2>2 DEF Note, Maybe
  <2>4. releasedAt[cur] # None /\ note(cur).released_seen + 1 >= releasedAt[cur]
    BY <2>1, <2>2 DEF Released, Dated, note
  <2> QED
    BY <2>1, <2>2, <2>3, <2>4 DEF Maybe
<1>3. FilmOK /\ [Next]_vars => FilmOK'
  BY TypedRoundStep, ReleasedStep, FilmSeenStep, FilmDueStep
<1> HIDE DEF FilmOK
<1>4. Init => FilmOK
  BY <1>1, TypedRoundInit DEF FilmOK
<1> QED
  BY <1>2, <1>3, <1>4, PTL DEF Spec
=============================================================================
