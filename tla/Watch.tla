-------------------------------- MODULE Watch --------------------------------
(***************************************************************************)
(* The watcher (src/watch.rs) and its record on disk (src/notices.rs).      *)
(*                                                                          *)
(* Every poll interval one round walks over the open wishes.  For a wish it *)
(* may hand a failed request over once more, gather evidence, search the    *)
(* indexers for a reason, and send one message to whoever asked.  The round *)
(* is one async function; an action here is what happens between two of its *)
(* awaits, so the process can be killed, the clock can move and a person    *)
(* can withdraw a wish between any two actions.                             *)
(*                                                                          *)
(* `mem` is the shared Notices record, `disk` the notices file.  Every save *)
(* of a snapshot writes the whole record: disk' = mem'.                     *)
(*                                                                          *)
(* Bounds: MaxTime stops the clock; MaxFaults bounds how many things go     *)
(* wrong in one behaviour (a kill, a write that fails, a call that fails,   *)
(* a requester without a Signal name).                                      *)
(***************************************************************************)
EXTENDS Insight

CONSTANTS
  Wish,            \* request ids
  Kind,            \* [Wish -> {"movie", "tv"}]
  CreatedAt,       \* [Wish -> Nat], Wish::created_at
  Answers,         \* what open_wishes and the queue may say about one wish
  Shows,           \* what Sonarr may answer about a series
  LastEvents,      \* what the history may answer: None, "DownloadFailed", ...
  ReleaseAnswers,  \* what an interactive search may answer
  wanted_languages,\* by wish: those its quality profile accepts, or None
  MayOmit,         \* may open_wishes leave an open wish out of its answer?
  \* -- WatchSettings
  SearchOn,        \* is the interactive search configured?
  MaxSearchesPerDay,
  StallAfter,
  RetryFailedAfter,   \* or None: never
  RefreshReasonAfter, \* or None: never
  MIN_NOTICE_GAP,
  \* -- time
  DayLength,       \* ticks in one UTC day
  MaxTime,
  MaxFaults

\* The reasons a search for w can come back with.
Found(w) == { reason_from(releases, wanted_languages[w]) : releases \in ReleaseAnswers }
Reason == UNION { Found(w) : w \in Wish }

ASSUME WishAssumption ==
  /\ IsFiniteSet(Wish) /\ Wish # {}
  /\ None \notin Wish
  /\ Kind \in [Wish -> {"movie", "tv"}]
  /\ CreatedAt \in [Wish -> Nat]

ASSUME AnswerAssumption ==
  /\ None \notin Nat
  /\ None \notin QueueState
  /\ None \notin Class
  /\ None \notin Reason
  /\ None \notin {"available", "unavailable"}
  /\ Answers # {}
  /\ \A a \in Answers :
       /\ a.request_status \in Nat
       /\ a.media_status \in Nat \ {AVAILABLE}   \* open_wishes drops those
       /\ a.arr_id \in BOOLEAN
       /\ a.queue_item \in QueueState \cup {None}
       /\ ~a.arr_id => a.queue_item = None       \* items are found by arr_id

ASSUME ShowAssumption == \A show \in Shows : Series(show)

ASSUME SettingsAssumption ==
  /\ MayOmit \in BOOLEAN /\ SearchOn \in BOOLEAN
  /\ MaxSearchesPerDay \in Nat
  /\ StallAfter \in Nat /\ MIN_NOTICE_GAP \in Nat
  /\ RetryFailedAfter \in Nat \cup {None}
  /\ RefreshReasonAfter \in Nat \cup {None}
  /\ DayLength \in Nat \ {0}
  /\ MaxTime \in Nat /\ MaxFaults \in Nat

VARIABLES
  \* -- the world the watcher asks about
  clock,        \* the time of day
  open,         \* wishes Seerr holds as open
  releasedAt,   \* when a film came out; None: not yet
  faults,       \* how many more things may go wrong
  \* -- the record
  mem, disk,
  \* -- the running round
  pc,           \* the await the round is at
  now,          \* the instant the round was started with
  listed,       \* the wishes open_wishes answered with
  answer,       \* what it said about each
  todo,         \* those not considered yet
  searched,     \* searched_this_round
  \* -- the running call of consider or refresh
  cur,          \* its wish
  ev,           \* its evidence
  notice,       \* the class about to be told
  \* -- history, for the properties only
  calls,        \* searches issued on the UTC day of `now`
  issued,       \* searches issued since the last round began
  answered,     \* wishes for which a first search came back
  handed,       \* wishes handed over once more
  heard,        \* the classes each requester was told, a refresh forgets
  heardAt,      \* when each requester was last told anything
  forgotten,    \* wishes about which something that happened is not on record
  recount       \* a restart lost searches the file could not be told about

env     == <<clock, open, releasedAt>>
round   == <<now, listed, answer, todo>>
call    == <<cur, ev, notice>>
history == <<calls, issued, answered, handed, heard, heardAt, forgotten, recount>>
vars    == <<env, faults, mem, disk, pc, round, searched, call, history>>

-----------------------------------------------------------------------------
(* The record: notices.rs                                                   *)

Time == 0 .. MaxTime
Maybe(S) == S \cup {None}
Day(t) == t \div DayLength                                   \* today_utc

\* Note.  `title` and `first_seen` are never read by a decision and left out.
Note ==
  [ seen_unreleased : BOOLEAN,
    released_seen   : Maybe(Nat),
    reason          : Maybe(Reason),
    searched_at     : Maybe(Nat),
    told            : SUBSET Class,
    last_notice     : Maybe(Nat),
    retried_at      : Maybe(Nat) ]

\* Note::new.  Nothing distinguishes a wish without a note from one whose note
\* is new, so a missing note is this one.
NewNote ==
  [ seen_unreleased |-> FALSE, released_seen |-> None, reason |-> None,
    searched_at |-> None, told |-> {}, last_notice |-> None, retried_at |-> None ]

Notices ==
  [ requests : [Wish -> Note], search_day : Maybe(Nat), searches_today : Nat ]

NoNotices ==
  [ requests |-> [w \in Wish |-> NewNote], search_day |-> None, searches_today |-> 0 ]

note(w) == mem.requests[w]

WithNote(w, n) == [mem EXCEPT !.requests = [@ EXCEPT ![w] = n]]

retain_only(l, live) ==
  [l EXCEPT !.requests = [w \in Wish |-> IF w \in live THEN @[w] ELSE NewNote]]

searches_on(l, day) == IF l.search_day = day THEN l.searches_today ELSE 0

\* Mutant: an off-by-one at the budget.
may_search_one_more(l, t) == searches_on(l, Day(t)) <= MaxSearchesPerDay

may_search(l, t) == searches_on(l, Day(t)) < MaxSearchesPerDay

count_search(l, t) ==
  [ requests |-> l.requests, search_day |-> Day(t),
    searches_today |-> searches_on(l, Day(t)) + 1 ]

-----------------------------------------------------------------------------
(* Things that go wrong                                                     *)

Fault == faults > 0 /\ faults' = faults - 1
NoFault == UNCHANGED faults

\* persist -> true: the file holds the snapshot.
Persisted == NoFault /\ disk' = mem'

\* persist -> false.  The rename happens before the directory is flushed, so a
\* failed write leaves the old file or the new one.
NotPersisted == Fault /\ disk' \in {disk, mem'}

-----------------------------------------------------------------------------
(* Ways out of consider and refresh                                         *)

NoCall == cur' = None /\ ev' = NoEvidence /\ notice' = None

NextWish == pc' = "next" /\ NoCall
LeaveRefresh == pc' = "close" /\ NoCall

Init ==
  /\ clock = 0
  /\ open = Wish
  /\ releasedAt \in { r \in [Wish -> {None, 0}] : \A w \in Wish : Kind[w] = "tv" => r[w] = None }
  /\ faults = MaxFaults
  /\ mem = NoNotices /\ disk = NoNotices
  /\ pc = "idle" /\ now = 0
  /\ listed = {} /\ todo = {} /\ searched = FALSE
  /\ answer = [w \in Wish |-> None]
  /\ cur = None /\ ev = NoEvidence /\ notice = None
  /\ calls = 0 /\ issued = 0 /\ answered = {} /\ handed = {}
  /\ heard = [w \in Wish |-> {}]
  /\ heardAt = [w \in Wish |-> None]
  /\ forgotten = {} /\ recount = FALSE

-----------------------------------------------------------------------------
(* The world                                                                *)

\* The clock moves, also under a running round; a round is taken to last less
\* than one tick.
Tick ==
  /\ clock < MaxTime
  /\ pc = "idle" \/ clock = now
  /\ clock' = clock + 1
  /\ UNCHANGED <<open, releasedAt, faults, mem, disk, pc, round, searched, call, history>>

\* A wish is withdrawn, deleted or available: Seerr does not list it again.
\* Only open_wishes reads `open`, so a wish closed during a round is closed
\* after it.
Close(w) ==
  /\ pc = "idle" /\ w \in open
  /\ open' = open \ {w}
  /\ UNCHANGED <<clock, releasedAt, faults, mem, disk, pc, round, searched, call, history>>

Release(w) ==
  /\ Kind[w] = "movie" /\ releasedAt[w] = None
  /\ releasedAt' = [releasedAt EXCEPT ![w] = clock]
  /\ UNCHANGED <<clock, open, faults, mem, disk, pc, round, searched, call, history>>

-----------------------------------------------------------------------------
(* round                                                                    *)

\* The interval fires; Seerr answers with the open wishes and the queues are
\* read.  A queue that cannot be read counts as empty: queue_item None.
BeginRound ==
  /\ pc = "idle"
  /\ pc' = "next" /\ now' = clock
  /\ listed' \in IF MayOmit THEN SUBSET open ELSE {open}
  /\ todo' = listed'
  /\ \E a \in [Wish -> Answers] :
       answer' = [w \in Wish |-> IF w \in listed' THEN a[w] ELSE None]
  /\ IF Day(clock) = Day(now) THEN UNCHANGED calls ELSE calls' = 0
  /\ issued' = 0
  /\ UNCHANGED <<env, faults, mem, disk, searched, call, answered, handed, heard,
                 heardAt, forgotten, recount>>

\* Mutant: an outage read as "no open wishes", with the record cleared to match.
OutageClearsRecord ==
  /\ pc = "idle" /\ Fault
  /\ mem' = retain_only(mem, {}) /\ disk' = mem'
  /\ UNCHANGED <<env, pc, round, searched, call, history>>

\* Seerr does not answer: the round is over and has touched nothing.
Outage ==
  /\ pc = "idle" /\ Fault
  /\ UNCHANGED <<env, mem, disk, pc, round, searched, call, history>>

\* The loop takes the next wish: consider starts.  The order is Seerr's.
Consider(w) ==
  /\ pc = "next" /\ w \in todo
  /\ pc' = "consider" /\ cur' = w /\ todo' = todo \ {w}
  /\ UNCHANGED <<env, faults, mem, disk, now, listed, answer, searched, ev, notice, history>>

-----------------------------------------------------------------------------
(* consider: the retry of a failed hand-over                                *)

RetryDue(w) ==
  /\ answer[w].request_status = FAILED
  /\ RetryFailedAfter # None
  /\ note(w).retried_at = None
  /\ now - CreatedAt[w] >= RetryFailedAfter

\* Mutant: the retry is made whether or not it could be recorded.
RetryUnrecorded ==
  /\ pc = "consider" /\ RetryDue(cur)
  /\ mem' = WithNote(cur, [note(cur) EXCEPT !.retried_at = now])
  /\ Persisted \/ NotPersisted
  /\ pc' = "retry" /\ UNCHANGED call
  /\ UNCHANGED <<env, round, searched, history>>

\* retried_at is on disk before the call, or there is no call.
RecordRetry ==
  /\ pc = "consider" /\ RetryDue(cur)
  /\ mem' = WithNote(cur, [note(cur) EXCEPT !.retried_at = now])
  /\ \/ Persisted /\ pc' = "retry" /\ UNCHANGED call
     \/ NotPersisted /\ NextWish
  /\ UNCHANGED <<env, round, searched, history>>

\* Requests::retry.  Whatever Seerr makes of it, the turn is over.
Retry ==
  /\ pc = "retry"
  /\ handed' = handed \cup {cur}
  /\ NextWish
  /\ UNCHANGED <<env, faults, mem, disk, round, searched, calls, issued, answered, heard, heardAt,
                 forgotten, recount>>

-----------------------------------------------------------------------------
(* consider: the evidence                                                   *)

\* Mutant: the clock starts at the first sight of an available film.
observe_any_sight(n, w, available) ==
  IF ~available THEN [n EXCEPT !.seen_unreleased = TRUE]
  ELSE IF n.released_seen = None THEN [n EXCEPT !.released_seen = CreatedAt[w]]
  ELSE n

\* What a look at the film adds to its note.  Only a film that was once seen
\* unreleased has its clock moved to the day it came out.
observe(n, w, available) ==
  IF ~available THEN [n EXCEPT !.seen_unreleased = TRUE]
  ELSE IF n.released_seen = None
    THEN [n EXCEPT !.released_seen = IF n.seen_unreleased THEN now ELSE CreatedAt[w]]
  ELSE n

Known(w) == [NoEvidence EXCEPT !.known_reason = note(w).reason]

AsksArr(w) == answer[w].queue_item = None /\ answer[w].arr_id

\* A queue item is evidence enough, and without an arr id there is none.
TakeQueueItem ==
  /\ pc = "consider" /\ ~RetryDue(cur) /\ ~AsksArr(cur)
  /\ ev' = [Known(cur) EXCEPT !.queue_item = answer[cur].queue_item]
  /\ pc' = "judge"
  /\ UNCHANGED <<env, faults, mem, disk, round, searched, cur, notice, history>>

\* Insight::movie answers.  What it says is noted before the next call, and is
\* not saved here.
LookAtMovie ==
  /\ pc = "consider" /\ ~RetryDue(cur) /\ AsksArr(cur) /\ Kind[cur] = "movie"
  /\ LET available == releasedAt[cur] # None IN
       /\ ev' = [Known(cur) EXCEPT !.movie = IF available THEN "available" ELSE "unavailable"]
       /\ mem' = WithNote(cur, observe(note(cur), cur, available))
  /\ pc' = "history"
  /\ UNCHANGED <<env, faults, disk, round, searched, cur, notice, history>>

\* Insight::series answers; the episodes of the wished seasons count.
LookAtSeries ==
  /\ pc = "consider" /\ ~RetryDue(cur) /\ AsksArr(cur) /\ Kind[cur] = "tv"
  /\ \E show \in Shows :
       ev' = [Known(cur) EXCEPT !.series = series_facts(show, answer[cur].seasons, now)]
  /\ pc' = "history"
  /\ UNCHANGED <<env, faults, mem, disk, round, searched, cur, notice, history>>

ReadHistory ==
  /\ pc = "history"
  /\ \E e \in LastEvents : ev' = [ev EXCEPT !.last_event = e]
  /\ pc' = "judge"
  /\ UNCHANGED <<env, faults, mem, disk, round, searched, cur, notice, history>>

\* Radarr or Sonarr does not answer: half the evidence is no evidence.
NoAnswer ==
  /\ \/ pc = "consider" /\ ~RetryDue(cur) /\ AsksArr(cur)
     \/ pc = "history"
  /\ Fault /\ NextWish
  /\ UNCHANGED <<env, mem, disk, round, searched, history>>

-----------------------------------------------------------------------------
(* consider: the notice rule                                                *)

State == classify(answer[cur], ev)

Later(a, b) == IF a >= b THEN a ELSE b

\* Where the stall clock starts.
Since(state) ==
  IF state = "NotHandedOver" THEN note(cur).retried_at
  ELSE Later(CreatedAt[cur],
         IF ev.series # None
           THEN IF ev.series.missing_oldest # None
                  THEN ev.series.missing_oldest.air ELSE CreatedAt[cur]
           ELSE IF note(cur).released_seen # None
                  THEN note(cur).released_seen ELSE CreatedAt[cur])

\* Mutant: the gap is kept per class, not per wish.
SpeaksUpGapless ==
  LET class == notice_class(State) IN
  /\ class # None
  /\ State = "NotHandedOver" => note(cur).retried_at # None
  /\ now - Since(State) >= StallAfter
  /\ class \notin note(cur).told

SpeaksUp ==
  LET class == notice_class(State) IN
  /\ class # None
  /\ State = "NotHandedOver" => note(cur).retried_at # None
  /\ now - Since(State) >= StallAfter
  /\ class \notin note(cur).told
  /\ note(cur).last_notice # None => now - note(cur).last_notice >= MIN_NOTICE_GAP

\* A search that is wanted, and one that can be aimed: at a film, or at the
\* season of the oldest missing episode.
WantsSearch == State = "Searching" /\ note(cur).reason = None /\ SearchOn
Aimed ==
  /\ answer[cur].arr_id
  /\ Kind[cur] = "tv" => ev.series # None /\ ev.series.missing_oldest # None

\* Nothing to say, or a search has to come first and cannot be made now.
StaySilent ==
  /\ pc = "judge"
  /\ \/ ~SpeaksUp
     \/ SpeaksUp /\ WantsSearch /\ Aimed
          /\ (searched \/ ~may_search(mem, now))
     \/ SpeaksUp /\ WantsSearch /\ ~Aimed /\ answer[cur].arr_id
  /\ NextWish
  /\ UNCHANGED <<env, faults, mem, disk, round, searched, history>>

\* Mutant: a notice nobody could be sent is recorded as told.
NobodyToTellForgotten ==
  /\ pc = "judge" /\ SpeaksUp
  /\ mem' = WithNote(cur, [note(cur) EXCEPT !.told = @ \cup {notice_class(State)}])
  /\ Fault /\ NextWish
  /\ UNCHANGED <<env, disk, round, searched, history>>

\* by_user finds nobody: told stays empty, so they still hear about it one day.
NobodyToTell ==
  /\ pc = "judge" /\ SpeaksUp
  /\ Fault /\ NextWish
  /\ UNCHANGED <<env, mem, disk, round, searched, history>>

Announce ==
  /\ pc = "judge" /\ SpeaksUp
  /\ ~WantsSearch \/ (~Aimed /\ ~answer[cur].arr_id)
  /\ notice' = notice_class(State) /\ pc' = "send"
  /\ UNCHANGED <<env, faults, mem, disk, round, searched, cur, ev, history>>

-----------------------------------------------------------------------------
(* The budgeted search, for a first reason and for a refresh                *)

\* Mutant: the count is kept in memory and written with the rest of the round.
search_once_unsaved ==
  /\ may_search(mem, now)
  /\ mem' = count_search(mem, now)
  /\ UNCHANGED <<disk, faults, recount>>
  /\ searched' = TRUE /\ calls' = calls + 1 /\ issued' = issued + 1

\* Counted, written out, issued -- whether or not the write worked.
search_once ==
  /\ may_search(mem, now)
  /\ mem' = count_search(mem, now)
  /\ \/ Persisted /\ UNCHANGED recount
     \/ NotPersisted /\ recount' = TRUE
  /\ searched' = TRUE /\ calls' = calls + 1 /\ issued' = issued + 1

SearchForReason ==
  /\ pc = "judge" /\ SpeaksUp /\ WantsSearch /\ Aimed
  /\ ~searched
  /\ search_once
  /\ pc' = "search"
  /\ UNCHANGED <<env, round, call, answered, handed, heard, heardAt, forgotten>>

\* Mutant: the reason is told first and saved with the rest of the round.
ReasonUnsaved ==
  /\ pc = "search"
  /\ \E r \in Found(cur) :
       mem' = WithNote(cur, [note(cur) EXCEPT !.reason = r, !.searched_at = now])
  /\ answered' = answered \cup {cur}
  /\ UNCHANGED <<disk, faults, forgotten>>
  /\ pc' = "send" /\ notice' = "unsuitable" /\ UNCHANGED <<cur, ev>>
  /\ UNCHANGED <<env, round, searched, calls, issued, handed, heard, heardAt, recount>>

\* The releases arrive: the reason is noted and saved, and only then told.
ReasonFound ==
  /\ pc = "search"
  /\ \E r \in Found(cur) :
       mem' = WithNote(cur, [note(cur) EXCEPT !.reason = r, !.searched_at = now])
  /\ answered' = answered \cup {cur}
  /\ \/ /\ Persisted /\ UNCHANGED forgotten
        /\ pc' = "send" /\ notice' = "unsuitable" /\ UNCHANGED <<cur, ev>>
     \/ /\ NotPersisted /\ forgotten' = forgotten \cup {cur}
        /\ NextWish
  /\ UNCHANGED <<env, round, searched, calls, issued, handed, heard, heardAt, recount>>

\* Mutant: a search is reported to the round only once it has answered.
SearchFailedUnreported ==
  /\ pc = "search" /\ Fault /\ NextWish
  /\ searched' = FALSE
  /\ UNCHANGED <<env, mem, disk, round, history>>

\* The search failed or timed out: no reason, and nothing is said.
SearchFailed ==
  /\ pc = "search" /\ Fault /\ NextWish
  /\ UNCHANGED <<env, mem, disk, round, searched, history>>

-----------------------------------------------------------------------------
(* consider: the message                                                    *)

Hear ==
  /\ heard' = [heard EXCEPT ![cur] = @ \cup {notice}]
  /\ heardAt' = [heardAt EXCEPT ![cur] = now]

\* Messenger::send answers Ok: the message is out, told and last_notice are set.
Send ==
  /\ pc = "send" /\ Hear
  /\ mem' = WithNote(cur, [note(cur) EXCEPT !.told = @ \cup {notice}, !.last_notice = now])
  /\ pc' = "sent"
  /\ UNCHANGED <<env, faults, disk, round, searched, call, calls, issued, answered, handed,
                 forgotten, recount>>

\* send answers an error, for a message that went out (the answer was lost or
\* came too late) or for one that did not.  Either way it is not recorded.
SendFailed ==
  /\ pc = "send" /\ Fault
  /\ \/ Hear /\ forgotten' = forgotten \cup {cur}
     \/ UNCHANGED <<heard, heardAt, forgotten>>
  /\ NextWish
  /\ UNCHANGED <<env, mem, disk, round, searched, calls, issued, answered, handed, recount>>

RecordTold ==
  /\ pc = "sent" /\ UNCHANGED mem
  /\ \/ Persisted /\ UNCHANGED forgotten
     \/ NotPersisted /\ forgotten' = forgotten \cup {cur}
  /\ NextWish
  /\ UNCHANGED <<env, round, searched, calls, issued, answered, handed, heard, heardAt, recount>>

-----------------------------------------------------------------------------
(* The refresh, after every wish had its turn and none of them searched     *)

RefreshDue(w) ==
  /\ w \in listed /\ answer[w].arr_id
  /\ note(w).reason # None /\ note(w).searched_at # None
  /\ now - note(w).searched_at >= RefreshReasonAfter

refresh_candidates ==
  IF SearchOn /\ RefreshReasonAfter # None
    THEN { w \in Wish : RefreshDue(w) /\ \A v \in Wish :
             RefreshDue(v) => note(w).searched_at <= note(v).searched_at }
    ELSE {}

RefreshesNow == pc = "next" /\ todo = {} /\ ~searched

Refresh(w) ==
  /\ RefreshesNow /\ w \in refresh_candidates
  /\ Kind[w] = "tv" =>
       \E show \in Shows : series_facts(show, answer[w].seasons, now).missing_oldest # None
  /\ search_once
  /\ cur' = w /\ pc' = "refresh"
  /\ UNCHANGED <<env, round, ev, notice, answered, handed, heard, heardAt, forgotten>>

\* The budget is spent, no episode is missing any more, or Sonarr fails.
NoRefresh(w) ==
  /\ RefreshesNow /\ w \in refresh_candidates
  /\ \/ ~may_search(mem, now) /\ NoFault
     \/ /\ Kind[w] = "tv" /\ NoFault
        /\ \E show \in Shows : series_facts(show, answer[w].seasons, now).missing_oldest = None
     \/ Kind[w] = "tv" /\ Fault
  /\ LeaveRefresh
  /\ UNCHANGED <<env, mem, disk, round, searched, history>>

\* The same class again moves searched_at; another one is news, so it replaces
\* the reason, forgets that the old one was told, and the wish is considered
\* once more -- without a search, `searched` is set.
Refreshed ==
  /\ pc = "refresh"
  /\ \E r \in Found(cur) :
       LET changed == ~same_class(note(cur).reason, r)
           seen    == [note(cur) EXCEPT !.searched_at = now]
       IN  /\ mem' = WithNote(cur,
                       IF changed THEN [seen EXCEPT !.reason = r, !.told = @ \ {"unsuitable"}]
                       ELSE seen)
           /\ heard' = IF changed THEN [heard EXCEPT ![cur] = @ \ {"unsuitable"}] ELSE heard
           /\ \/ /\ Persisted
                 /\ IF changed THEN pc' = "consider" /\ UNCHANGED call ELSE LeaveRefresh
              \/ NotPersisted /\ LeaveRefresh
  /\ UNCHANGED <<env, round, searched, calls, issued, answered, handed, heardAt, forgotten,
                 recount>>

\* A refresh that failed leaves searched_at alone: it is due again next round.
RefreshFailed ==
  /\ pc = "refresh" /\ Fault /\ LeaveRefresh
  /\ UNCHANGED <<env, mem, disk, round, searched, history>>

-----------------------------------------------------------------------------
(* The end of a round, and of the process                                   *)

\* Mutant: the rest of an interrupted round is taken up again after a restart.
IdleKeepsTodo ==
  /\ pc' = "idle" /\ searched' = FALSE /\ NoCall
  /\ listed' = {} /\ todo' = todo /\ answer' = [w \in Wish |-> None]

\* Between rounds the locals of round and consider are gone.
Idle ==
  /\ pc' = "idle" /\ searched' = FALSE /\ NoCall
  /\ listed' = {} /\ todo' = {} /\ answer' = [w \in Wish |-> None]

\* The notes of wishes no longer listed go, and the record is saved.
FinishRound ==
  /\ \/ pc = "next" /\ todo = {} /\ (searched \/ refresh_candidates = {})
     \/ pc = "close"
  /\ mem' = retain_only(mem, listed)
  /\ Persisted \/ NotPersisted
  /\ Idle
  /\ UNCHANGED <<env, now, history>>

\* The process is killed and started again: Notices::load.  What was sent and
\* not yet saved is not on record.
Crash ==
  /\ Fault
  /\ mem' = disk
  /\ forgotten' = IF pc = "sent" THEN forgotten \cup {cur} ELSE forgotten
  /\ Idle
  /\ UNCHANGED <<env, disk, now, calls, issued, answered, handed, heard, heardAt, recount>>

-----------------------------------------------------------------------------
Turn ==
  \/ RecordRetry \/ Retry
  \/ TakeQueueItem \/ LookAtMovie \/ LookAtSeries \/ ReadHistory \/ NoAnswer
  \/ StaySilent \/ NobodyToTell \/ Announce
  \/ SearchForReason \/ ReasonFound \/ SearchFailed
  \/ Send \/ SendFailed \/ RecordTold
  \/ Refreshed \/ RefreshFailed

Watcher ==
  \/ BeginRound \/ Outage
  \/ \E w \in Wish : Consider(w) \/ Refresh(w) \/ NoRefresh(w)
  \/ Turn
  \/ FinishRound

World ==
  \/ Tick
  \/ \E w \in Wish : Close(w) \/ Release(w)
  \/ Crash

Next == Watcher \/ World

Spec == Init /\ [][Next]_vars

\* The task is polled and its interval keeps firing, and time passes.  Nothing
\* is assumed of the world: no release, no withdrawal, no answer in time.
LiveSpec == Spec /\ WF_vars(Watcher) /\ WF_vars(Tick)

-----------------------------------------------------------------------------
(* Properties                                                               *)

Evidence ==
  [ movie : Maybe({"available", "unavailable"}), series : Maybe(Facts),
    queue_item : Maybe(QueueState), last_event : LastEvents \cup {None},
    known_reason : Maybe(Reason) ]

\* Every variable keeps its type; in particular what is saved can be loaded.
TypeOK ==
  /\ clock \in Nat /\ now \in Nat /\ now <= clock
  /\ open \subseteq Wish
  /\ releasedAt \in [Wish -> Maybe(Nat)]
  /\ faults \in Nat
  /\ mem \in Notices /\ disk \in Notices
  /\ pc \in {"idle", "next", "consider", "retry", "history", "judge", "search", "send",
             "sent", "refresh", "close"}
  /\ listed \subseteq Wish /\ todo \subseteq listed
  /\ answer \in [Wish -> Answers \cup {None}]
  /\ searched \in BOOLEAN
  /\ cur \in Maybe(Wish)
  /\ ev \in Evidence
  /\ notice \in Maybe(Class)
  /\ calls \in Nat /\ issued \in Nat
  /\ answered \subseteq Wish /\ handed \subseteq Wish
  /\ forgotten \subseteq Wish
  /\ heard \in [Wish -> SUBSET Class]
  /\ heardAt \in [Wish -> Maybe(Nat)]
  /\ recount \in BOOLEAN

\* "At most max_searches_per_day across the whole household per UTC day", also
\* across restarts: never more searches issued than the budget, unless a save
\* of the count failed (watch.rs search_once, notices.rs may_search).
BudgetKept == recount \/ calls <= MaxSearchesPerDay

\* "There is never a second attempt": a request is handed over once more at
\* most once, whatever is killed and whatever write fails, as long as Seerr
\* lists an open wish in every answer (watch.rs consider, the retry).
RetryOnce == pc = "retry" => cur \notin handed

\* A first search that came back is not made again for the same wish, also
\* after a restart, unless its result could not be saved.
SearchedOnce == pc = "search" /\ cur \notin forgotten => cur \notin answered

\* Nobody is told the same class about the same wish twice, unless the reason
\* changed in between or the first message is not on record: its save failed
\* or was cut off by a kill, or its delivery was reported as failed.
NoNoticeTwice == pc = "send" /\ cur \notin forgotten => notice \notin heard[cur]

\* And between two messages about one wish there are 24 hours, whatever the
\* classes, refreshes and restarts in between.
GapKept ==
  pc = "send" /\ cur \notin forgotten =>
    heardAt[cur] = None \/ now - heardAt[cur] >= MIN_NOTICE_GAP

\* The stall clock of a film that was seen unreleased starts when it came out:
\* nothing Radarr said about it is told before it has been out for StallAfter,
\* give or take the tick a round may last (the round keeps one `now`).  (That it
\* was never handed over is what Seerr says, whatever Radarr was asked before.)
NoticeAfterRelease ==
  /\ pc = "send" /\ notice # "not_handed_over"
  /\ ev.movie # None /\ note(cur).seen_unreleased
  => releasedAt[cur] # None /\ now + 1 - releasedAt[cur] >= StallAfter

\* One round asks the indexers at most once, first searches and the refresh
\* taken together, whether the search answered, failed or was counted on a file
\* that could not be written (watch.rs round, searched_this_round).
OneSearchPerRound == issued <= 1

\* What stands in the way of a wish, as a person is told it.
About ==
  [ w \in Wish |->
      { <<reason.class, Named(reason)>> : reason \in {note(w).reason} \ {None} } ]

\* The rounds, the record and its restarts keep what WatchPromise promises: in
\* particular a refresh is news only if what it found differs (watch.rs
\* same_class), the two languages of a reason in the other order do not.
Promise == INSTANCE WatchPromise WITH about <- About
PromiseKept == Promise!Spec

\* The deadline of w falls before the clock stops: a series, or a film whose
\* stall clock started at its creation or at a saved observation early enough.
Due(w) ==
  /\ w \in open
  /\ Kind[w] = "movie" =>
       /\ releasedAt[w] # None
       /\ note(w).seen_unreleased =>
            /\ disk.requests[w].released_seen # None
            /\ disk.requests[w].released_seen + StallAfter <= MaxTime

\* "A wish that gets stuck used to be silent for ever": a wish that stays
\* stuck and open is told about eventually, whatever finite number of kills,
\* failed writes, failed searches and failed sends lie in between.
StuckIsTold == \A w \in Wish : Due(w) ~> (heard[w] # {} \/ w \notin open)
=============================================================================
