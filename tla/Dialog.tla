------------------------------- MODULE Dialog -------------------------------
(***************************************************************************)
(* The dialog (src/src/dialog/mod.rs): one task that takes one message      *)
(* after the other, and between them remembers for every phone what its     *)
(* next message answers -- a list of hits, which seasons, which version.    *)
(* `job` is where the task is: one value for each await of `handle`.        *)
(* While it waits the mapping may be swapped (main.rs:393), requests come   *)
(* and go in Seerr, and time passes; no second message is read.             *)
(*                                                                          *)
(* Replies are kept by the key of their text.  What a person sees, meant    *)
(* and asked for is history, for the properties.                            *)
(***************************************************************************)
EXTENDS Limiter, Filter, FiniteSets, SequencesExt

CONSTANTS
  None,
  User,              \* Seerr accounts, each of one Authentik account
  KindOf,            \* the hits there are: a function to "movie" and "tv"
  SeasonCount,       \* how many seasons Seerr names for a series
  Pages,             \* what Seerr finds: query -> its pages, each a sequence of hits
  Blank, Literal,    \* the query nothing is left of; what a text that is no title finds
  PAGE,              \* hits shown of a page
  Configured,        \* quality_profiles of the configuration, in order
  Available,         \* the profiles Seerr lists
  RESULTS_LIVE, STRANGER_QUIET,
  Text,              \* the messages people send
  Stored,            \* the requests Seerr has to begin with
  Members,           \* what the mapping says of each phone to begin with
  MaxTime, MaxFaults, MaxChanges

Hit == DOMAIN KindOf
Query == DOMAIN Pages
Member == [user : User, allowed : BOOLEAN]

Kind == {None, "movie", "tv"}

ASSUME DialogAssumption ==
  /\ Members \in [Person -> Member \cup {None}]
  /\ Pages \in [Query -> Seq(Seq(Hit))]
  /\ Blank \in Query /\ Literal \in Query
  /\ Configured \in Seq(ToSet(Configured)) /\ Available \in Seq(ToSet(Available))
  /\ \A t \in Text : /\ t.cmd = "ask" => t.query \in Query /\ t.kind \in Kind
                     /\ t.cmd = "numbers" => t.list \subseteq Nat
  /\ IsFiniteSet(Stored)
  /\ \A r \in Stored : r.id \in 1..Cardinality(Stored) /\ r.hit \in Hit
  /\ \A r, s \in Stored : r.id = s.id => r = s
  /\ PAGE \in Nat \ {0} /\ RESULTS_LIVE \in Nat /\ STRANGER_QUIET \in Nat
  /\ None \notin [to : Person, key : {"list", "seasons_question", "profile_question"},
                   list : Seq(Hit) \cup Seq(ToSet(Available))]

VARIABLES
  mapping,         \* phone -> what SharedDirectory::lookup says of it
  requests,        \* Seerr's requests
  conversations,   \* phone -> what its next message answers
  told_strangers,  \* phone -> when it was told that nobody knows it
  job,             \* the await `handle` is in, or None
  reply,           \* the answer that is being sent, or None
  faults, changes  \* failures and changes of the world so far

\* History: nothing below is state of the program.
VARIABLES
  lists,           \* phone -> how many lists of hits it was sent
  screen,          \* phone -> the last question it received, and whether a later one was lost
  shown,           \* phone -> the hits it was shown of the query it is at
  meant,           \* phone -> what it has asked for with its answers
  cancelled,       \* phone -> how many lists it had been sent when it cancelled last
  speaksFor,       \* the accounts the writer of this message had while it is handled
  placed           \* every request made by the dialog

world == <<mapping, requests>>
history == <<lists, screen, shown, meant, cancelled, placed>>
vars == <<now, buckets, passed, mapping, requests, conversations, told_strangers,
          job, reply, faults, changes, history, speaksFor>>

-----------------------------------------------------------------------------
(* Messages.  The same words mean different things to different questions.   *)

Help == [cmd |-> "help"]
Cancel == [cmd |-> "cancel"]
More == [cmd |-> "more"]
Status == [cmd |-> "status"]
All == [cmd |-> "all"]
Numbers(S) == [cmd |-> "numbers", list |-> S]
Ask(query, kind) == [cmd |-> "ask", query |-> query, kind |-> kind]
Withdraw(id) == [cmd |-> "withdraw", id |-> id]

IsNumber(t) == t.cmd = "numbers" /\ Cardinality(t.list) = 1
NumberOf(t) == CHOOSE n \in t.list : TRUE
QueryOf(t) == IF t.cmd = "ask" THEN t.query ELSE Literal
KindIn(t) == IF t.cmd = "ask" THEN t.kind ELSE None

AllSeasons == {0}
SeasonsIn(t) == IF t = All THEN AllSeasons ELSE IF t.cmd = "numbers" THEN t.list ELSE {}
AnswersSeasons(t, hit) ==
  t = All \/ (t.cmd = "numbers" /\ t.list # {} /\ t.list \subseteq 1..SeasonCount[hit])

-----------------------------------------------------------------------------
(* Seerr.                                                                    *)

\* One page of Seerr's, narrowed to a kind after it was cut.
Found(query, kind, page) ==
  IF page > Len(Pages[query]) THEN <<>>
  ELSE Only(Pages[query][page], {h \in Hit : kind = None \/ KindOf[h] = kind})

Already == {r.hit : r \in requests}

order_profiles(available) ==
  IF Configured = <<>> THEN available ELSE Only(Configured, ToSet(available))

\* Requests are numbered in the order they are made.
NextId == Cardinality(Stored) + Cardinality(placed) + 1

-----------------------------------------------------------------------------
(* Conversations.                                                            *)

Is(p, kind) == conversations[p] # None /\ conversations[p].is = kind
Live(p) == now - conversations[p].at <= RESULTS_LIVE
Question(p) == Is(p, "seasons") \/ Is(p, "profile")

\* A question that has gone stale is dropped by the next message.
Swept(p) == Question(p) /\ ~Live(p)
Closed(p) == [conversations EXCEPT ![p] = None]
Remaining(p) == IF Swept(p) THEN Closed(p) ELSE conversations

Free == job = None /\ reply = None

Say(p, key, list) == reply' = [to |-> p, key |-> key, list |-> list]

\* The answer of this message is there, and the task is free when it is sent.
Answer(p, key) ==
  /\ job' = None
  /\ speaksFor' = {}
  /\ Say(p, key, <<>>)

Silence ==
  /\ job' = None
  /\ speaksFor' = {}
  /\ UNCHANGED reply

Await(next) == job' = next /\ UNCHANGED reply

-----------------------------------------------------------------------------
(* What one message does before its first await.                             *)

Init ==
  /\ LimiterInit
  /\ mapping = Members
  /\ requests = Stored
  /\ conversations = [p \in Person |-> None]
  /\ told_strangers = [p \in Person |-> None]
  /\ job = None /\ reply = None
  /\ faults = 0 /\ changes = 0
  /\ lists = [p \in Person |-> 0]
  /\ screen = [p \in Person |-> [key |-> None, list |-> <<>>, lost |-> FALSE]]
  /\ shown = [p \in Person |-> {}]
  /\ meant = [p \in Person |-> None]
  /\ cancelled = [p \in Person |-> 0]
  /\ speaksFor = {}
  /\ placed = {}

\* Somebody the mapping does not know: told so, once in STRANGER_QUIET.
tell_stranger_once(p) ==
  LET recent == [q \in Person |->
                   IF told_strangers[q] # None /\ now - told_strangers[q] < STRANGER_QUIET
                   THEN told_strangers[q] ELSE None]
  IN  IF recent[p] # None
      THEN told_strangers' = recent /\ Silence
      ELSE told_strangers' = [recent EXCEPT ![p] = now] /\ Answer(p, "unknown_sender")

Stranger(p) ==
  /\ Free /\ mapping[p] = None
  /\ tell_stranger_once(p)
  /\ UNCHANGED <<limiterVars, world, conversations, faults, changes, history>>

NotAllowed(p) ==
  /\ Free /\ mapping[p] # None /\ ~mapping[p].allowed
  /\ Answer(p, "not_allowed")
  /\ UNCHANGED <<limiterVars, world, conversations, told_strangers, faults, changes, history>>

\* Mutant: the message is read and the bucket left as it was.
PassesUncharged(p) ==
  /\ Free /\ mapping[p] # None /\ mapping[p].allowed
  /\ verdict(buckets[p]) = "Pass"
  /\ passed' = [passed EXCEPT ![p] = Append(@, now)]
  /\ UNCHANGED <<now, buckets>>

Passes(p) ==
  /\ Free /\ mapping[p] # None /\ mapping[p].allowed
  /\ Admit(p, "Pass")

\* Over the limit: one answer, then none.
TooFast(p) ==
  /\ Free /\ mapping[p] # None /\ mapping[p].allowed
  /\ \/ Admit(p, "SlowDown") /\ Answer(p, "slow_down")
     \/ Admit(p, "Silent") /\ Silence
  /\ UNCHANGED <<world, conversations, told_strangers, faults, changes, history>>

\* Mutant: only an open list is forgotten, a question stays open.
AbandonList(p) ==
  IF Is(p, "results") THEN conversations' = Closed(p) ELSE UNCHANGED conversations

Abandon(p) == conversations' = Closed(p)

\* The two ways out of any question.
GetHelp(p) ==
  /\ Passes(p) /\ Answer(p, "help")
  /\ UNCHANGED <<world, conversations, told_strangers, faults, changes, history>>

CancelAll(p) ==
  /\ Passes(p) /\ Silence
  /\ Abandon(p)
  /\ cancelled' = [cancelled EXCEPT ![p] = lists[p]]
  /\ UNCHANGED <<world, told_strangers, faults, changes,
                 lists, screen, shown, meant, placed>>

\* The task turns to a message of p that is neither, and waits for `next`.
Begin(p, next) ==
  /\ Await(next)
  /\ speaksFor' = {mapping[p].user}

\* An open seasons question takes any message for its answer.
place_series(p, t) ==
  LET c == conversations[p] IN
  /\ Passes(p) /\ t \notin {Help, Cancel} /\ Is(p, "seasons") /\ Live(p)
  /\ \/ /\ AnswersSeasons(t, c.hit)
        /\ Begin(p, [at |-> "profiles", from |-> p, hit |-> c.hit, seasons |-> SeasonsIn(t)])
        /\ meant' = [meant EXCEPT ![p] =
             IF ~screen[p].lost THEN [@ EXCEPT !.seasons = SeasonsIn(t)]
             ELSE [@ EXCEPT !.sure = FALSE]]
     \/ /\ ~AnswersSeasons(t, c.hit)
        /\ Answer(p, "seasons_question")
        /\ UNCHANGED meant
  /\ UNCHANGED <<world, conversations, told_strangers, faults, changes,
                 lists, screen, shown, cancelled, placed>>

\* Mutant: the number counts in the list as Seerr has it.
PickedAtSeerr(choices, n) == Available[n]

Picked(choices, n) == choices[n]

\* And so does an open profile question.
answer_profile(p, t) ==
  LET c == conversations[p]
      valid == IsNumber(t) /\ NumberOf(t) \in DOMAIN c.choices
  IN
  /\ Passes(p) /\ t \notin {Help, Cancel} /\ Is(p, "profile") /\ Live(p)
  /\ \/ /\ valid
        /\ Begin(p, [at |-> "user", from |-> p, to |-> "place", hit |-> c.hit,
                     seasons |-> c.seasons, profile |-> Picked(c.choices, NumberOf(t))])
        /\ meant' = [meant EXCEPT ![p] =
             IF screen[p].key = "profile_question" /\ ~screen[p].lost
             THEN [@ EXCEPT !.profile = screen[p].list[NumberOf(t)]]
             ELSE [@ EXCEPT !.sure = FALSE]]
     \/ /\ ~valid
        /\ job' = None /\ speaksFor' = {}
        /\ Say(p, "profile_question", c.choices)
        /\ UNCHANGED meant
  /\ UNCHANGED <<world, conversations, told_strangers, faults, changes,
                 lists, screen, shown, cancelled, placed>>

\* No question is open: what follows reads t as a number or a command.
Ordinary(p, t) ==
  /\ Passes(p) /\ t \notin {Help, Cancel}
  /\ ~(Question(p) /\ Live(p))

\* A number after a list that is still good.
choose(p, t) ==
  LET c == conversations[p]
      n == NumberOf(t)
      seen == screen[p]
  IN
  /\ Ordinary(p, t) /\ IsNumber(t) /\ Is(p, "results") /\ Live(p)
  /\ \/ /\ n \notin DOMAIN c.hits
        /\ Answer(p, "not_understood")
        /\ UNCHANGED <<conversations, meant>>
     \/ /\ n \in DOMAIN c.hits /\ c.hits[n] \in c.already
        /\ conversations' = Closed(p)
        /\ Answer(p, "already")
        /\ UNCHANGED meant
     \/ /\ n \in DOMAIN c.hits /\ c.hits[n] \notin c.already
        /\ Begin(p, IF KindOf[c.hits[n]] = "tv"
                    THEN [at |-> "season_count", from |-> p, hit |-> c.hits[n]]
                    ELSE [at |-> "profiles", from |-> p, hit |-> c.hits[n], seasons |-> {}])
        /\ meant' = [meant EXCEPT ![p] =
             IF seen.key = "list" /\ ~seen.lost
             THEN [hit |-> seen.list[n], seasons |-> {}, profile |-> None, sure |-> TRUE]
             ELSE [hit |-> None, seasons |-> {}, profile |-> None, sure |-> FALSE]]
        /\ UNCHANGED conversations
  /\ UNCHANGED <<world, told_strangers, faults, changes, lists, screen, shown, cancelled, placed>>

\* A search that is worth a call; what is stale is dropped first.
Search(p, query, kind, page) ==
  /\ conversations' = Remaining(p)
  /\ IF query = Blank
     THEN Answer(p, "not_understood")
     ELSE Begin(p, [at |-> "search", from |-> p, query |-> query, kind |-> kind, page |-> page])

next_page(p) ==
  LET c == conversations[p] IN
  /\ Ordinary(p, More)
  /\ \/ /\ Is(p, "results") /\ Live(p)
        /\ Search(p, c.query, c.kind, c.page + 1)
     \/ /\ ~(Is(p, "results") /\ Live(p))
        /\ conversations' = Closed(p)
        /\ Answer(p, "not_understood")
  /\ UNCHANGED <<world, told_strangers, faults, changes, history>>

\* Any other text is a title to look for, a number after a stale list, too.
SearchFor(p, t) ==
  /\ Ordinary(p, t)
  /\ t.cmd \notin {"more", "status", "withdraw"}
  /\ ~(IsNumber(t) /\ Is(p, "results") /\ Live(p))
  /\ IF IsNumber(t) /\ Is(p, "results")
     THEN /\ conversations' = Closed(p)
          /\ Begin(p, [at |-> "search", from |-> p, query |-> Literal, kind |-> None, page |-> 1])
     ELSE Search(p, QueryOf(t), KindIn(t), 1)
  /\ UNCHANGED <<world, told_strangers, faults, changes, history>>

AskStatus(p) ==
  /\ Ordinary(p, Status)
  /\ conversations' = Remaining(p)
  /\ Begin(p, [at |-> "user", from |-> p, to |-> "read"])
  /\ UNCHANGED <<world, told_strangers, faults, changes, history>>

AskWithdraw(p, t) ==
  /\ Ordinary(p, t) /\ t.cmd = "withdraw"
  /\ conversations' = Remaining(p)
  /\ IF t.id = None
     THEN Answer(p, "not_understood")
     ELSE Begin(p, [at |-> "user", from |-> p, to |-> "owner", id |-> t.id])
  /\ UNCHANGED <<world, told_strangers, faults, changes, history>>

MessageOf(p) ==
  \/ Stranger(p) \/ NotAllowed(p) \/ TooFast(p) \/ next_page(p) \/ AskStatus(p)
  \/ Help \in Text /\ GetHelp(p)
  \/ Cancel \in Text /\ CancelAll(p)
  \/ \E t \in Text : \/ place_series(p, t) \/ answer_profile(p, t) \/ choose(p, t)
                     \/ SearchFor(p, t) \/ AskWithdraw(p, t)

-----------------------------------------------------------------------------
(* The awaits.                                                               *)

At(step) == job # None /\ job.at = step
Fault == faults < MaxFaults /\ faults' = faults + 1
Keep(p, c) == conversations' = [conversations EXCEPT ![p] = c]

search ==
  LET p == job.from
      hits == Found(job.query, job.kind, job.page)
  IN
  /\ At("search")
  /\ \/ /\ hits = <<>>
        /\ Answer(p, IF job.page > 1 THEN "no_more" ELSE "none")
        /\ UNCHANGED <<conversations, lists, shown>>
     \/ /\ hits # <<>>
        /\ Keep(p, [is |-> "results", query |-> job.query, kind |-> job.kind,
                    page |-> job.page, hits |-> hits, already |-> Already, at |-> now])
        /\ job' = None /\ speaksFor' = {}
        /\ Say(p, "list", hits)
        /\ lists' = [lists EXCEPT ![p] = @ + 1]
        /\ shown' = [shown EXCEPT ![p] =
             (IF job.page > 1 THEN @ ELSE {})
               \cup {hits[i] : i \in 1..(IF Len(hits) < PAGE THEN Len(hits) ELSE PAGE)}]
  /\ UNCHANGED <<limiterVars, world, told_strangers, faults, changes,
                 screen, meant, cancelled, placed>>

SearchFailed ==
  /\ At("search") /\ Fault
  /\ Answer(job.from, "seerr_down")
  /\ UNCHANGED <<limiterVars, world, conversations, told_strangers, changes, history>>

SeasonsCounted ==
  /\ At("season_count")
  /\ Keep(job.from, [is |-> "seasons", hit |-> job.hit, at |-> now])
  /\ Answer(job.from, "seasons_question")
  /\ UNCHANGED <<limiterVars, world, told_strangers, faults, changes, history>>

SeasonsUnknown ==
  /\ At("season_count") /\ Fault
  /\ conversations' = Closed(job.from)
  /\ Answer(job.from, "seerr_down")
  /\ UNCHANGED <<limiterVars, world, told_strangers, changes, history>>

\* Mutant: the question forgets the seasons already answered.
ProfileQuestionAlone(hit, seasons, choices) ==
  [is |-> "profile", hit |-> hit, seasons |-> {}, choices |-> choices, at |-> now]

ProfileQuestion(hit, seasons, choices) ==
  [is |-> "profile", hit |-> hit, seasons |-> seasons, choices |-> choices, at |-> now]

\* With nothing to choose between, or when Seerr does not say, the wish goes
\* out without a profile.
ask_profile(choices) ==
  LET p == job.from IN
  /\ \/ /\ choices = <<>>
        /\ Await([at |-> "user", from |-> p, to |-> "place", hit |-> job.hit,
                  seasons |-> job.seasons, profile |-> None])
        /\ UNCHANGED <<conversations, speaksFor>>
     \/ /\ choices # <<>>
        /\ Keep(p, ProfileQuestion(job.hit, job.seasons, choices))
        /\ job' = None /\ speaksFor' = {}
        /\ Say(p, "profile_question", choices)
  /\ UNCHANGED <<limiterVars, world, told_strangers, changes, history>>

ProfilesRead == At("profiles") /\ ask_profile(order_profiles(Available)) /\ UNCHANGED faults

ProfilesUnknown == At("profiles") /\ Fault /\ ask_profile(<<>>)

\* Mutant: the conversation is left open while the wish is placed.
LeaveOpen(p) == UNCHANGED conversations

Close(p) == conversations' = Closed(p)

\* The account is looked up anew, and the mapping may have changed meanwhile.
seerr_user ==
  LET p == job.from
      user == mapping[p].user
  IN
  /\ At("user") /\ mapping[p] # None
  /\ \/ /\ job.to = "place"
        /\ Close(p)
        /\ Await([at |-> "request", from |-> p, user |-> user, hit |-> job.hit,
                  seasons |-> job.seasons, profile |-> job.profile])
     \/ /\ job.to = "owner"
        /\ Await([at |-> "owner", from |-> p, user |-> user, id |-> job.id])
        /\ UNCHANGED conversations
     \/ /\ job.to = "read"
        /\ Await([at |-> "read", from |-> p, key |-> "status"])
        /\ UNCHANGED conversations
  /\ UNCHANGED <<limiterVars, world, told_strangers, faults, changes, history, speaksFor>>

\* Not in the mapping any more, and nothing is said; or Seerr has no such
\* account or does not answer.  What the person was at stays open.
NoUser ==
  /\ At("user")
  /\ \/ mapping[job.from] = None /\ Silence /\ UNCHANGED faults
     \/ mapping[job.from] # None /\ Fault /\ Answer(job.from, "seerr_down")
  /\ UNCHANGED <<limiterVars, world, conversations, told_strangers, changes, history>>

Store ==
  /\ requests' = requests \cup
       {[id |-> NextId, owner |-> job.user, hit |-> job.hit,
         seasons |-> job.seasons, profile |-> job.profile]}
  /\ placed' = placed \cup
       {[id |-> NextId, by |-> job.from, list |-> lists[job.from], hit |-> job.hit,
         seasons |-> job.seasons, profile |-> job.profile]}

place ==
  /\ At("request")
  /\ Store
  /\ Await([at |-> "read", from |-> job.from, key |-> "placed"])
  /\ UNCHANGED <<limiterVars, mapping, conversations, told_strangers, faults, changes,
                 lists, screen, shown, meant, cancelled, speaksFor>>

\* Refused, or made and never confirmed: an answer without an id, or none in
\* time.
PlaceFailed ==
  /\ At("request") /\ Fault
  /\ Store \/ UNCHANGED <<requests, placed>>
  /\ Answer(job.from, "seerr_down")
  /\ UNCHANGED <<limiterVars, mapping, conversations, told_strangers, changes,
                 lists, screen, shown, meant, cancelled>>

\* What is read back after placing, and all that /status reads, changes the
\* words of the answer and nothing else.
ReadBack ==
  /\ At("read")
  /\ Answer(job.from, job.key)
  /\ UNCHANGED <<limiterVars, world, conversations, told_strangers, faults, changes, history>>

\* Mutant: the request is there, whoever made it.
Exists(id, user) == \E r \in requests : r.id = id

Owns(id, user) == \E r \in requests : r.id = id /\ r.owner = user

\* Anybody's request could be deleted with the key Seerr is asked with.
withdraw ==
  LET mine == Owns(job.id, job.user) IN
  /\ At("owner")
  /\ \/ mine /\ Await([at |-> "delete", from |-> job.from, id |-> job.id]) /\ UNCHANGED <<faults, speaksFor>>
     \/ ~mine /\ Answer(job.from, "unknown_id") /\ UNCHANGED faults
     \/ Fault /\ Answer(job.from, "unknown_id")
  /\ UNCHANGED <<limiterVars, world, conversations, told_strangers, changes, history>>

Without(id) == {r \in requests : r.id # id}

Delete ==
  /\ At("delete")
  /\ requests' = Without(job.id)
  /\ Answer(job.from, IF requests' # requests THEN "withdrawn" ELSE "unknown_id")
  /\ UNCHANGED <<limiterVars, mapping, conversations, told_strangers, faults, changes, history>>

DeleteFailed ==
  /\ At("delete") /\ Fault
  /\ requests' \in {requests, Without(job.id)}
  /\ Answer(job.from, "unknown_id")
  /\ UNCHANGED <<limiterVars, mapping, conversations, told_strangers, changes, history>>

Asks(key) == key \in {"list", "seasons_question", "profile_question"}

Send ==
  /\ reply # None
  /\ reply' = None
  /\ screen' = IF Asks(reply.key)
               THEN [screen EXCEPT ![reply.to] =
                       [key |-> reply.key, list |-> reply.list, lost |-> FALSE]]
               ELSE screen
  /\ UNCHANGED <<limiterVars, world, conversations, told_strangers, job, faults, changes,
                 lists, shown, meant, cancelled, placed, speaksFor>>

\* "cannot reply": logged, and the conversation is where it is.
SendFailed ==
  /\ reply # None /\ Fault
  /\ reply' = None
  /\ screen' = IF Asks(reply.key) THEN [screen EXCEPT ![reply.to].lost = TRUE] ELSE screen
  /\ UNCHANGED <<limiterVars, world, conversations, told_strangers, job, changes,
                 lists, shown, meant, cancelled, placed, speaksFor>>

Handle ==
  \/ search \/ SearchFailed \/ SeasonsCounted \/ SeasonsUnknown
  \/ ProfilesRead \/ ProfilesUnknown \/ seerr_user \/ NoUser \/ place \/ PlaceFailed
  \/ ReadBack \/ withdraw \/ Delete \/ DeleteFailed \/ Send \/ SendFailed

-----------------------------------------------------------------------------
(* The world.                                                                *)

\* A pass of the reconciler swaps the mapping.
MappingChanges(p) ==
  /\ changes < MaxChanges /\ changes' = changes + 1
  /\ \E m \in Member \cup {None} :
       /\ m # mapping[p]
       /\ mapping' = [mapping EXCEPT ![p] = m]
       /\ speaksFor' = IF job # None /\ job.from = p /\ m # None
                       THEN speaksFor \cup {m.user} ELSE speaksFor
  /\ UNCHANGED <<limiterVars, requests, conversations, told_strangers, job, reply, faults,
                 history>>

\* A request is withdrawn in Seerr itself, or done with.
RequestGone ==
  /\ changes < MaxChanges /\ changes' = changes + 1
  /\ \E r \in requests : requests' = Without(r.id)
  /\ UNCHANGED <<limiterVars, mapping, conversations, told_strangers, job, reply, faults,
                 history, speaksFor>>

Tick ==
  /\ now < MaxTime
  /\ ClockTicks
  /\ UNCHANGED <<world, conversations, told_strangers, job, reply, faults, changes, history,
                 speaksFor>>

\* The process ends anywhere, and nothing of the dialog is on disk.  A call
\* that is out may arrive all the same.
Crash ==
  /\ Fault
  /\ Forget
  /\ \/ UNCHANGED <<requests, placed>>
     \/ At("request") /\ Store
     \/ At("delete") /\ requests' = Without(job.id) /\ UNCHANGED placed
  /\ conversations' = [p \in Person |-> None]
  /\ told_strangers' = [p \in Person |-> None]
  /\ job' = None /\ reply' = None
  /\ speaksFor' = {}
  /\ UNCHANGED <<mapping, changes, lists, screen, shown, meant, cancelled>>

Next ==
  \/ \E p \in Person : MessageOf(p) \/ MappingChanges(p)
  \/ Handle
  \/ RequestGone \/ Tick \/ Crash

Spec == Init /\ [][Next]_vars

-----------------------------------------------------------------------------
(* Properties.                                                               *)

Conversation ==
  [is : {"results"}, query : Query, kind : Kind, page : Nat \ {0},
   hits : Seq(Hit), already : SUBSET Hit, at : Nat]
  \cup [is : {"seasons"}, hit : Hit, at : Nat]
  \cup [is : {"profile"}, hit : Hit, seasons : SUBSET Nat,
        choices : Seq(ToSet(Available)), at : Nat]

\* A list that is open has something on it and a question something to choose
\* from; what is asked or placed of a series has seasons, of a film none; and
\* a task that waits for Seerr has no answer on its way.
TypeOK ==
  /\ LimiterTypeOK
  /\ mapping \in [Person -> Member \cup {None}]
  /\ \A p \in Person :
       /\ conversations[p] # None => conversations[p] \in Conversation
       /\ Is(p, "results") => conversations[p].hits # <<>>
       /\ Is(p, "profile") => conversations[p].choices # <<>>
       /\ Is(p, "profile") =>
            (KindOf[conversations[p].hit] = "tv") = (conversations[p].seasons # {})
       /\ told_strangers[p] \in Nat \cup {None}
  /\ \A r \in placed : (KindOf[r.hit] = "tv") = (r.seasons # {})
  /\ job = None \/ reply = None

\* One list leads to one wish at most: an answer given twice, a call that was
\* made and never confirmed, an account that could not be looked up at first
\* never make two of it (the conversation is closed before the call, 644).
OneWishPerList ==
  \A r, s \in placed : r.by = s.by /\ r.list = s.list => r = s

\* The wish that goes out is the hit, the seasons and the version the person
\* typed the numbers of, as the lists they had before them count them, through
\* every question in between -- unless one of these never arrived.
PlacedAsMeant ==
  [][\A r \in placed' \ placed :
       LET m == meant[r.by] IN
       m.sure => r.hit = m.hit /\ r.seasons = m.seasons /\ r.profile = m.profile]_vars

\* After /cancel nothing is placed of a list sent before it, whichever
\* question was open (334-349).
CancelIsFinal ==
  [][\A r \in placed' \ placed : r.list > cancelled[r.by]]_vars

\* The key the bot asks Seerr with is an administrator's: whatever a message
\* makes or deletes there belongs to an account its writer had while the
\* message was handled, however the mapping and the requests change meanwhile.
OnBehalfOfWriter ==
  [][job # None /\ job' # job =>
       /\ \A r \in requests' \ requests : r.owner \in speaksFor
       /\ \A r \in requests \ requests' : r.owner \in speaksFor]_vars

\* "more shows the next results" (i18n/en.toml:17): whoever is at a later page
\* has been shown what the pages before it hold.
MoreShowsTheNext ==
  \A p \in Person : Is(p, "results") =>
    \A k \in 1..(conversations[p].page - 1) :
      ToSet(Found(conversations[p].query, conversations[p].kind, k)) \subseteq shown[p]
=============================================================================
