# signal-seerr, in TLA+

A specification of [signal-seerr](../src/README.md), the bot through which the
members of a household wish for films and series over Signal. This directory
holds the modules, the TLC configurations that check them on small instances,
and the proofs that TLAPS checks for every instance. Line numbers refer to the
files of `src/src` unless a path says otherwise.

```
tlc -workers 2 -config MCWatchSearch.cfg MCWatch     # one run
tlapm WatchProofs.tla                                # one module of proofs
```

## 1. The system

One process, four tasks (`main.rs`), a separate filter in front of the Signal
daemon (`bin/signal-sieb.rs`), and four services outside: Signal, Authentik
(accounts), Seerr (requests), Radarr/Sonarr (what became of them). The process
ends when any of its tasks ends, and is started again.

| Component | State | Operations | Talks to | What makes it correct |
|---|---|---|---|---|
| **Watcher** `watch.rs` | the round it is in, `searched_this_round` | one round per poll interval: retry, evidence, search, notice, refresh, clean-up | Seerr, Radarr/Sonarr, the mapping, Signal, the notices record | nobody is told twice, nor twice in 24 hours; a stuck wish is told about in the end; the search budget; a hand-over is retried once |
| **Notices record** `notices.rs` | per request: reason, told, last notice, retry, sightings; searches of the day | `may_search`, `count_search`, `retain_only`, load, save | the notices file; read by `/status` | what happened is on record before it can happen again |
| **Insight** `insight.rs`, `model.rs` | none | `series_facts`, `classify`, `notice_class`, `reason_from`, `same_class` | used by watcher and dialog | what is announced has evidence behind it; the same obstacle is one obstacle |
| **Radarr and Sonarr client** `arr/mod.rs` | none | `movie`, `series`, `queue`, `last_event`, releases | HTTP | an answer is read as what it is, a missing one as nothing |
| **Directory** `directory/`, `state.rs`, reconciler in `main.rs` | the mapping served, its copy during a pass, the state file | one pass: list, plan, hold back, resolve / greet / say goodbye / warn, save, swap | Authentik, Signal | everybody settled gets known and greeted once; nobody's chat moves to another phone; a bad answer does not empty the mapping |
| **Dialog** `dialog/mod.rs` | per phone: list, seasons question or version question; strangers told | one message at a time | the mapping (read), Seerr, Signal, insight and record (read) | what is placed is what the person chose, once, for themselves; `/cancel` is final; `/status` says only what was measured |
| **Rate limiter** `dialog/limit.rs` | a token bucket per member | `admit` | in front of the dialog | never more than a burst and what came back |
| **Seerr client** `seerr/mod.rs` | none | search, request, withdraw, retry, paged list of open wishes | HTTP | the list is complete, only one's own request is withdrawn |
| **Webhook and bell** `webhook.rs`, `bell.rs` | a handler per delivery, a bell task beside it | one delivery | Seerr, Signal, the mapping, treff | whoever asked hears of it, and nobody else; nothing ends in silence |
| **Signal client** `signal/mod.rs`, `rpc.rs` | pending calls by id, bounded queue of messages | `call`, the reader task | the daemon's socket | every call ends, an answer reaches its own call, no message vanishes uncounted |
| **Sieve** `signal/sieb.rs`, `bin/signal-sieb.rs` | two pipes per connection | `relay`, `check` | bot and daemon | whole lines, only what is allowed |
| **Configuration, secrets, TLS** `config.rs`, `secret.rs`, `tls.rs`, start of `main.rs` | read once | `load`, `read`, `client`, `watch_settings`, `insight_parts` | files | what is accepted is complete and in range |
| **Texts** `i18n.rs` | a table compiled in | `text` | | wording |

How they interact: the reconciler owns a copy of the mapping and swaps it under
a lock (`main.rs:393`); dialog, watcher and webhook look people up in whatever
is there at that moment, each more than once in one piece of work. The notices
record is shared by watcher (writes) and dialog (reads). Everything sent goes
through the one Signal socket. The hard behaviour sits at the awaits: between
two of them the process can be killed, the mapping swapped, a request gone, a
day over; a call can fail after it took effect; and three records (notices
file, state file, Seerr's requests) have to agree with what people were told.
`PROJECT.json` lists these hazards, each at its line with the properties that
are about it.

## 2. The modules

```
                      WatchPromise                OpenList
                           ^ (refines)               ^ (refines)
Insight <-- Watch ---------+-- MCWatch   OpenWishes -+-- MCOpenWishes
   ^          ^                              ^-- OpenWishesProofs
   |          +-- WatchProofs            Limiter <-- Dialog <-- MCDialog
   |                  |                             |  ^
   |                  v                             |  +-- DialogProofs --+
   +-- Arr <-- Status <-- InsightProofs             v                     v
                                                  Filter <--------- FilterProofs
Signal <-- MCSignal                                 ^                     ^
   ^                                                |  +-- DirectoryProofs+
SignalProofs --> Frames                             |  v
                                                  Directory <-- MCDirectory
Webhook <-- MCWebhook
   ^
WebhookProofs --> Settings
```

An arrow points to the module that is extended or instantiated. Modules of
state and steps are `Watch`, `OpenWishes`, `Directory`, `Limiter`, `Dialog`,
`Webhook` and `Signal`; `Insight`, `Arr`, `Status`, `Frames`, `Settings` and
`Filter` are functions of data, because the code they model keeps no state; `WatchPromise`,
`OpenList` and `Limiter` are also abstract specifications that others implement
(that `Dialog` implements `LimiterSpec` is proved; what it is good for is checked).

In the former **an action is what the code does between two awaits**, so that
a kill, a failure or a change of the world fits into every gap the code has and
into no other. A variable `pc`, `job`, `call` or `asking` says at which await a
task is. The variables named as history record what was sent, meant or made; no
guard reads them, except to number new requests in `Dialog`. `OneSearchPerRound`
is about such a count: `issued` says how many searches a round has made, whatever
its own flag `searched` says.

### Insight
`series_facts`, `classify`, `notice_class`, `reason_from` and `same_class` as
operators over evidence (`None` is "not asked, or no answer"). A wish's own
status comes first, then hand-over, queue, film or series facts, as in the
code's order of returns. `reason_from` is the whole decision: releases that
fail for a language alone, the languages on offer by frequency and first
mention, the four patterns in rejection sentences. A language is a value, a
sentence the set of patterns it contains.

### Watch, WatchPromise
The round with its notices record.

| Code | Action |
|---|---|
| `round`: ask Seerr and the queues, or fail to | `BeginRound`, `Outage` |
| loop over the wishes, in Seerr's order | `Consider(w)` |
| `consider`: record the retry, then make it | `RecordRetry`, `Retry` |
| evidence: queue, film or series, history, or no answer | `TakeQueueItem`, `LookAtMovie`, `LookAtSeries`, `ReadHistory`, `NoAnswer` |
| decide: silence, nobody to tell, a notice, a search | `StaySilent`, `NobodyToTell`, `Announce`, `SearchForReason` |
| `search_once` comes back, or not | `ReasonFound`, `SearchFailed` |
| the message, and the record of it | `Send`, `SendFailed`, `RecordTold` |
| `refresh_candidate`, `refresh` | `Refresh(w)`, `NoRefresh(w)`, `Refreshed`, `RefreshFailed` |
| `retain_only`, last save | `FinishRound` |
| the process is killed and loads the file | `Crash` |

Every save is `Persisted \/ NotPersisted` (the file is replaced whole or stays
what it was, `state.rs:22`). A wish without a note is one with a new note, which
is what `note_mut` makes of it. Titles and `first_seen` are never read by a
decision and left out; the wording of messages is, too. A record that cannot be
read leaves the watcher off for that process (`main.rs:190`, `insight_parts` of
`Settings`) and is not a state of this module.

`WatchPromise` is the same watcher seen from outside, without rounds, records
or restarts: messages about a wish are a day apart, never twice about the same
thing unless what is in the way has changed, one retry, the budget of a day.
Two variables say where the promise ends, because the record ends there:
`forgotten` (a message or step whose record was lost) and `recount`. `Watch`
implements it (`PromiseKept`), with `about` read off the notes.

### OpenWishes, OpenList
`open_wishes` page by page, while Seerr's list changes under it: newest first,
places counted from the newest, a page size that is Seerr's own maximum if that
is smaller than what was asked for. `OpenList` is what a caller may rely on:
nothing is listed that was not open meanwhile, and what was open all along is
missing at most once per request removed meanwhile. That is what `MayOmit` of
`Watch` stands for: without a removal between two pages, no open wish is left
out.

| Code | Action |
|---|---|
| `open_wishes` is called | `Ask` |
| a page arrives, and is not the last | `NextPage` |
| the last page, the unavailable ones dropped, the answer | `LastPage` |
| a page fails, and the call with it | `PageFails` |
| Seerr: requests made, removed, become available | `Make`, `Remove`, `Becomes` |

### Directory
One pass of the reconciler, with `plan` and `hold_back_mass_removal` as
operators over sequences (the order of accounts and entries decides conflicts).
`BeginPass` / `ShortAnswer` are Authentik's answers (a short one leaves people
out); `Resolve`, `NotResolved`, `Update`, `GreetAgain`, `SayGoodbye`,
`TellHolder`, `PassOver` carry out one change each; `Greeted`, `NotGreeted`,
`Told`, `NotTold` are the answers of Signal; `EndPass` saves (or fails to) and
swaps the mapping that is served; `Crash` loads the file. Accounts, groups and
the owners of usernames change at any await. A name stands for its spellings, a
profile for groups and language. `Filter` has `Only`, what `retain` and
`filter` leave of a sequence, for `Directory` and `Dialog`: a recursive
function, so that it can be proved about.

### Limiter
The token bucket, as a component with its own specification `LimiterSpec`. The
unit of tokens is what one tick brings back, so a message costs `Cost` of them
and the arithmetic is exact where the code's is a fraction. `passed` remembers
when each message went through; a restart forgets it with the buckets. Two
invariants say the same rate from both sides: `RateKept`, no more is let through,
and `OnlyExcessRefused`, no less: `admit` moves the bucket's clock with every
message, the refused ones among them, and may lose nothing of what was on its way.

### Dialog
The dialog task, composed with `Limiter` (every message goes through `Admit`)
and with Seerr as far as the dialog sees it: pages of hits, the requests with
their owners, the profiles.

| Code | Action |
|---|---|
| `handle` up to the limiter | `Stranger`, `NotAllowed`, `TooFast` |
| the two ways out of any question | `GetHelp`, `CancelAll` |
| an open question takes the message | `place_series`, `answer_profile` |
| number, "more", title, `/status`, `/withdraw` | `choose`, `next_page`, `SearchFor`, `AskStatus`, `AskWithdraw` |
| the awaits: search, season count, profiles, account, request, read back, owner, delete | `search` ... `DeleteFailed` |
| the reply goes out, or not | `Send`, `SendFailed` |
| the mapping is swapped, a request is gone | `MappingChanges`, `RequestGone` |

A failed call to Seerr may have taken effect: `PlaceFailed` and `DeleteFailed`
choose. Stale questions go with the next message (`Swept`), a stale list when
a number or "more" is sent for it, as in the code. `screen` is what a person
has before them: the last list or question that arrived. What `/status` answers
is in the next two modules; the calls it makes change nothing.

### Arr, Status
`Arr` is what the client makes of Radarr's and Sonarr's answers: which service
is asked, the states of a queue item, the one page of a queue that is read, the
latest event of a history (of several with one date the one listed first), a
film that does not say it is available. `Status` is what `/status` says of a
wish out of those answers: which wishes are shown, which need evidence, the
queues read once, then film or series and history, and every failure answered
from what Seerr alone knows (`seerr_alone_text`). Both are functions, since the
calls change nothing: the theorems about them hold for every answer.

### Webhook
Deliveries, each with a handler and possibly a bell task, over a mapping and a
Seerr that change.

| Code | Action |
|---|---|
| token and body (401, 400) | `Refuse` |
| the event: not relayed, about no request (200 and no more), or taken | `NotRelayed`, `NoRequestId`, `Receive` |
| `requester_of` | `AskRequester`, `NoRequester` |
| the bell's task is started; title and mapping are asked | `AskTitle` with `Ring` |
| the message goes out, or not; 200 either way | `Send`, `SendFails` |
| the bell: two tries, at most one entry at treff (`source_key`) | `Rings`, `RingFails` |
| Seerr drops the connection, the process is killed | `Disconnect`, `Crash` |
| the world: a mapping changes, a request is deleted | `Remap`, `Delete` |

A delivery may come twice, and its payload carries a display name its owner
chose (`claims`), which must decide nothing. A try of the bell that fails may
have reached treff (`Taken`), and a handler that ends while Signal is asked may
have sent its message (`PerhapsSaid`). `noted` holds what somebody finds in the
log under the default filter, `info` (`main.rs:229`). An event that is not relayed
is logged for debugging only (`webhook.rs:131`), so its delivery is answered 200
and leaves nothing; `OutOrNoted` excepts it by name, and nothing else.

### Signal, Frames
The client, its reader task and its calls, the sieve between it and the daemon,
and the process around them.

| Code | Action |
|---|---|
| `call`: id and entry, the write, its failure, the answer, the deadline | `Call`, `Write`, `WriteFails`, `Answered`, `TimedOut` |
| a handler is dropped in the middle of a call | `Abandon` |
| the reader: an answer, a message, something else, the end | `ReadAnswer`, `ReadMessage`, `ReadOther`, `ReaderEnds` |
| the dialog's loop: `recv`, the message handled, the queue closed | `Take`, `Done`, `DialogEnds` |
| the process: killed, started, started in vain | `Killed`, `Start`, `StartFails` |
| the sieve: a line forwarded, its end broken, itself killed | `Forward`, `ForwardFails`, `SieveDies` |
| signal-cli: an answer, a person's message, a receipt, its end and start | `Answers`, `Says`, `Chatter`, `DaemonDies`, `DaemonStarts` |

A call is a ticket: the id it travels under (which starts over with the
process) and a number no two calls share (which does not), so that an answer
for another call under the same id would show. `link = "half"` is a connection
of which the daemon's end is gone and the bot has not been told. What a single
line is, to the sieve and to the reader, is `Frames` (`check`, `refuse`,
`parse_line`, `into_incoming`): `Signal` has their order.

### Settings
What the process is started with: which configurations `load` accepts, which
secret files are read, whose certificates a client trusts, the spans of time
out of counts of integers with their widths, and what `[insight]` adds, up to
`starts`: everything that can stop the start before the first task.

## 3. The runs

| Run | Question | Instance |
|---|---|---|
| `watch_search` | `BudgetKept`, `SearchedOnce`, `NoNoticeTwice`, `OneSearchPerRound`, `PromiseKept`: the searches and messages of two wishes that stay missing, and the watcher as an implementation of `WatchPromise` | a film and a series, two searches a day, refresh on, 2 faults, 2 days |
| `watch_troubled` | `RetryOnce`, `GapKept`, `NoticeAfterRelease`: one wish whose hand-over, download and import fail in any order | a film, no search, 2 faults, 2.5 days |
| `watch_live` | `StuckIsTold`: silence is not for ever | a film and a series, 1 fault |
| `open_wishes` | `TwiceOnlyIfAdded`, `ListKept`: what a paged answer is worth while the list changes | up to 5 requests, one of them unreadable, pages of at most 2, 1 fault |
| `directory` | `GreetedIsTrue`, `WarnedOnce`, `PhonePinned`, `FewLeaveAtOnce`, `RightsFollow`, `GreetedIsServed` | 2 accounts, names, phones, profiles; any directory to begin with; 2 changes, 2 faults |
| `directory_live` | `WelcomeReaches`, `HolderIsTold` | as above, 1 phone, 1 profile, 1 fault |
| `dialog` | `RateKept`, `OnlyExcessRefused`, `OneWishPerList`, `PlacedAsMeant`, `CancelIsFinal`, `OnBehalfOfWriter` | one member and a foreign request; 1 fault, 1 change of the world |
| `webhook` | `OwnerHears`, `BellOnce`, `OutOrNoted`, `BellRings` | 2 deliveries, 2 requests, 2 people, 2 faults |
| `signal` | `OwnAnswer`, `EntriesAreCalls`, `KeptOrCounted`, `TimeoutMeansNoAnswer`, `CallsEnd`, `ClosedEndsProcess`, `HalfEndsWithTheNextCall` | 2 tasks, a queue of 1, a socket of 2 lines, 2 calls, 3 messages, 1 restart, 2 faults, with and without the sieve |
| `name_held`, `dialog_more`, `signal_entries` | one sentence of the repository each, which the code does not keep (section 5) | as the run of the same component, or smaller |

`TypeOK` is an invariant of one run of `Watch`, `Directory`, `Dialog` and
`Signal`; that of `Webhook` is part of its inductive invariant. Of `Insight`, `Arr`, `Status`,
`Frames` and `Settings` there are no runs of their own: they are evaluated by the
runs of `Watch` (`Insight`) or proved about for every argument.

**Bounds.** In `Watch` a tick is half a day: the stall deadline and the notice
gap are 2, so that things happen before, at and after them, midnight falls
between two ticks, and a refresh, a second notice and a second day's budget fit
under `MaxTime` 4 or 5. Two faults are enough for a failed save followed by a
kill, or a failed call repeated after a restart, the shortest ways to lose a
record. `OpenWishes` asks for three entries per page and is given two, so that
a list of up to five takes one, two or three pages; it starts with any number of
requests up to five, and those that go or come can lie before, in and behind the
page that is next. `Directory` needs two accounts for a conflict, two
names for a swap, two phones for a name that moves; two edits give "leaves and
comes back" and "takes the name just released"; more people add passes, not
kinds of steps. `max_removed_per_pass` is 1 of 2. In `Dialog` a tick is the time
an answer lives, so a question is fresh in its own tick and stale in the next;
pages have two hits of which one is shown, a burst is three messages -- the
shortest way to a placed film -- and one returns per tick, so that the bucket
empties, speaks, falls silent and recovers. (At the real rate a tick would fill
the bucket; the proof of `Rate` is for every rate.) One member suffices because
conversations are kept per phone and the task takes one message at a time: what
others can do to a conversation is what they do in Seerr, which `RequestGone`,
the request of the other account and `MappingChanges` are. In `Webhook` two
deliveries are one event twice or two events; who made which request to begin
with is fixed, since any other choice only renames people, and the second person
may have no Signal name. In `Signal` two tasks are the dialog, whose calls are
followed by another message, and a delivery, whose handler can be dropped; a
queue of one is full after one message, so the third of three is read while one
is handled and one waits; two lines fill the socket while one more is written;
and one restart lets the ids start over with an answer of the old process still
to come.

Symmetry is used in `directory` only, over names, phones and profiles; accounts
have an order, and the runs for liveness use none. `CHECK_DEADLOCK FALSE` is set
for `Directory`, `Dialog`, `Webhook` and `Signal`: when edits, deliveries,
calls, faults and time are used up, nothing has to happen any more. `Watch` has
rounds and `OpenWishes` questions without end, and both check deadlock.

**Fairness.** It is weak fairness throughout, of the bot's own tasks:

- `Watch!LiveSpec`: the watcher task, and the clock. `Directory!LiveSpec`: the
  reconciler task. Each is a loop over `tokio::time::interval`.
- `Webhook!Fairness`: each handler that runs, each bell that was started.
  Nobody has to deliver anything.
- `Signal!LiveSpec`: the writing, answering or timing out of each call, the
  reader, the dialog's loop, the sieve's two pipes. Nothing is assumed of the
  daemon except that it takes lines from its socket.

Calls to the services have deadlines (HTTP client timeouts, 30 s for Signal's
answer, 120 s for a search), and a process that died is started again. Only the
write to the Signal socket has no deadline (`signal/mod.rs:133`): a write that
hangs for ever is outside what is assumed. Nothing is assumed of releases,
accounts, answers or messages; failures are bounded in number (`MaxFaults`), and
after the last of them calls succeed. `StuckIsTold` says so only for wishes
whose deadline falls before the clock stops (`Due`). `OpenWishes` and `Dialog`
claim no liveness.

## 4. What is proved

TLAPS proves, for every value of the constants within the named assumptions
(`WishAssumption`, `AnswerAssumption`, `ShowAssumption`, `SettingsAssumption`,
`PagingAssumption`, `LimiterAssumption`, `DialogAssumption`, `RosterAssumption`, `EntryAssumption`,
`WebhookAssumption`, `SignalAssumption`). They say what a constant is -- an
order of the accounts, pages of hits, numbers that are positive -- and that
`None` is none of the values it stands beside:

| Theorem | States |
|---|---|
| `InsightProofs!SeriesFactsSound`, `NoNoticeWithoutEvidence` | facts about a series are consistent; nothing is announced without evidence |
| `InsightProofs!ReasonSound` | `reason_from` answers with a well-formed reason, whatever ties or is missing: "only in" names one or two distinct languages on offer, none of them wanted |
| `WatchProofs!Types` | `Spec => []TypeOK` |
| `WatchProofs!Budget`, `OneSearch` | `BudgetKept`, `OneSearchPerRound` |
| `WatchProofs!RetriedOnce`, `FirstSearchOnce`, `ToldOnce`, `NoticesApart` | `RetryOnce`, `SearchedOnce`, `NoNoticeTwice`, `GapKept`, if Seerr never leaves an open wish out (`~MayOmit`) |
| `WatchProofs!ToldAfterRelease` | `NoticeAfterRelease`, whatever Seerr leaves out |
| `WatchProofs!KeepsPromise` | `Watch` implements `WatchPromise`, if `~MayOmit` |
| `InsightProofs!SeerrAloneIsClassify`, `EvidenceChangesNothing` | what `/status` says without evidence is what `classify` says; where none is asked for, none would matter |
| `InsightProofs!StatusIsMeasured`, `DownloadIsShown` | `/status` speaks of a search, failure or release only if it was told of one; a download it saw is shown |
| `OpenWishesProofs!PagingInvariant`, `ReadOnce` | the invariant of turning pages; `TwiceOnlyIfAdded` |
| `OpenWishesProofs!ListKeepsPromise` | `OpenWishes` implements `OpenList`, for every page size, list and order of changes |
| `OpenWishesProofs!UndisturbedIsComplete` | nothing that stayed open is missing if nothing was removed meanwhile |
| `DialogProofs!Rate`, `RefusalIsDue` | `LimiterSpec` implies `[]RateKept` and `[]OnlyExcessRefused` |
| `DialogProofs!DialogLimited`, `DialogRate`, `DialogRefusesExcess` | the dialog implements `LimiterSpec`, hence keeps both |
| `DialogProofs!OneWish`, `CancelEnds` | `OneWishPerList`, `CancelIsFinal` |
| `DialogProofs!DialogTypeCorrect`, `SpeaksForItsWriter`, `MeaningReachesSeerr` | `TypeOK`, `OnBehalfOfWriter`, `PlacedAsMeant`: every safety property the run `dialog` checks is proved |
| `DirectoryProofs!DirectoryTypeCorrect`, `FlagTellsTheTruth`, `GreetedAreKnown`, `HolderToldOnce` | `TypeOK`, `GreetedIsTrue`, `GreetedIsServed`, `WarnedOnce` |
| `DirectoryProofs!PhoneStaysPinned`, `FewAreForgotten`, `RightsAreTheListed` | `PhonePinned`, `FewLeaveAtOnce`, `RightsFollow`: for every directory, every answer and every limit |
| `DirectoryProofs!PlanLooksAfterAll`, `NoSilentTakeover` | what `plan` answers: a change for a listed account exactly if it is not in order, a farewell exactly for an entry nobody is listed for; a name to one account only, and never one that its holder keeps |
| `WebhookProofs!ToldTheOwner`, `OneBell`, `NoSilentSuccess` | `OwnerHears`, `BellOnce`, `OutOrNoted` |
| `SignalProofs!Types`, `AnswerIsOwn`, `EntriesHaveCalls`, `Kept` | `TypeOK`, `OwnAnswer`, `EntriesAreCalls`, `KeptOrCounted` |
| `SignalProofs!NoAnswerWasThere` | `TimeoutMeansNoAnswer`: with it, every safety property the run `signal` checks is proved |
| `SignalProofs!SieveAnswersTheCaller` | a request the sieve refuses is read by the bot as the failure of that call |
| `WebhookProofs!SettingsNeverWrap`, `StartIsComplete` | no span of time is another number than the file's; a start that gets to its tasks has everything they need |

The proofs about `Settings` stand at the end of `WebhookProofs`. The widths of
integers there and the length of a line in `Frames` are constants of their modules, because numerals of that size are beyond the prover:
the proofs hold for every value, the code's among them.

**Arguments.** *Watch*: `TypedRound` (types, and which locals are set at which
await) is inductive and carries the rest. The safety properties speak of one
moment (the search or the message is going out), so each is strengthened to a
statement about the record at all times: `CountOnRecord` (what was searched
today is counted in memory, and in the file unless `recount`), `SearchNoted` (a
round that has searched once has its flag set until it is over), `RetryOnRecord`,
`SearchOnRecord`, `ToldOnRecord` (whoever was handed over, searched for or told
has it in memory and in the file, unless it is in `forgotten`), and
`AboutToTell` (what is being sent has passed the checks on the note). The lemma
`NotesStep` is why `~MayOmit` is needed: notes are only dropped for wishes that
are no longer open. `KeepsPromise` goes through the actions under these
invariants: a message, retry or search is the abstract step of that name, and
every other action is a stutter, a passing of time, or a loss of the record.
`NoticeAfterRelease` needs no `~MayOmit`, since a note that is dropped takes its
date with it: `Released` says that every date in memory and in the file belongs
to a film that is out and is not before the day it came out, `FilmSeen` and
`FilmDue` carry that from the look at the film to the message. (`not_handed_over`
is exempt: it is what Seerr says, and its deadline runs from the retry. The
proof asked for that, since Seerr may know a film's id in Radarr and a later
hand-over still fail; the run `watch_troubled` has such an answer.)
*OpenWishes*: `open_wishes` counts what was delivered, so that every page but the
last is full and `skip` is the number of pages times the page size (`FullSoFar`):
the part of the list already read is its first `skip` places. A removal pulls one
request into that part unread, a new request pushes one out of it again; so no
more of what stayed can be in that part unread than were removed
(`MissedByRemoval`), and the entries read, with what may still be read again, are
no more than the wishes read and the requests added (`AgainByMaking`). What makes
this provable is that a list of `n` requests fills the places `1..n` once each
(`PlaceTaken`, `PageCount`), by induction over the requests. At the last page
nothing lies behind, and what is missed is what the answer lacks: the step of
`OpenList`.
*Limiter*: `RateKept` compares two messages, so the invariant `LimiterInv`
compares one with the bucket -- since message `i` went through, `Cost` for each
message and what is left of the bucket do not exceed a burst and the time since
(`PaidFor`). `OnlyExcessRefused` is the other half: a bucket that is not full has
been full at some message `i`, since which what it holds and the messages' cost
account for all that came back (`NothingWithheld`). *Dialog*: `ListInv` numbers the lists a person was sent; an open
conversation and a wish on its way belong to the latest list, on which nothing
was placed and which was not cancelled, and placing closes the conversation
before the call. `TypeOK` needs what the task carries from await to await
(`JobTyped`) beside what conversations hold (`Talks`). For `OnBehalfOfWriter`
the invariant `Spoken` follows the account through them: what the task is about
to place is for an account of the writer, and what it is about to delete is
owned by one -- the check was made an await earlier, and stays true because
requests never change hands and no number is given twice (`Numbered`).
`PlacedAsMeant` compares three things that are kept apart: what the person sees,
what the dialog has open, and what was meant. `SeenAsKept` says that the answer
in sight -- on the screen, or on its way there -- counts as the open conversation
does, `MeantAsAsked` that a question is about what was meant so far, and
`MeantAsCarried` that the task carries it unchanged to the call.
*Directory*: first the functions, then the steps. `PlanSound` says of `plan`
that it asks for nothing but what a listed account's entry calls for, says
farewell to nobody who is listed, and notices every change of rights; it goes
through the accounts place by place. (Library theorems of induction take an
operator as a parameter, so `FilterProofs` has the induction by hand: a set of
places that holds 0 and with each place the next holds all, `UpTo`, by its
least counterexample; and `RecursionExists` for a function defined from place to
place.) `NoSilentTakeover` needs the claims the loop keeps: whatever was given is
claimed, and who has an entry claims its name until given another (`NameOnce`). `HoldBackSound` is that removals are carried out all or not at all.
The steps then keep `Inv`: each change still to come is one the plan may have
made of the mapping served (`Justified`); no listed account loses its entry
(`ListedStay`); those gone plus those about to go are few (`FewLeave`, inductive
where `FewLeaveAtOnce` is not); rights that differ are still to be updated
(`RightsPending`); phones are pinned in the copy as in the mapping served
(`Pinned`); and what was sent is on record, or about to be (`OnRecordAll`, with
what a message is under way for in `Midway`).
*Webhook*: the invariant says of each handler and each bell
what it has read so far and that it was so when it was read (`WorldSound`,
`JobSound`, `RingSound`); what went out has it from there (`BellSound`,
`MessageSound`). *Signal*: whoever holds a ticket -- the table, a call, a line in
a pipe, the daemon -- holds one that was given out (`InPlay`), no two in this
process share an id (`NoTwins`), and an answer on the socket the bot listens to
is for a ticket of this process (`Heard`): ids are reused after a restart, but
the socket is not. `KeptOrCounted` follows from counting at each of the three
steps of a message. `TimeoutMeansNoAnswer` looks at an answer no call has read;
the reader waits for nobody, so a deadline passes only when it has nothing to
read, or when it has ended -- and then the connection was closed and read to its
end (`ReadToTheEnd`). *Status, Settings*: case by case over the answers, or over
what `load` accepted.

**Only model-checked** is what happens "in the end": `StuckIsTold` of `Watch`,
`WelcomeReaches` and `HolderIsTold` of `Directory`, `BellRings` of `Webhook`,
`CallsEnd`, `ClosedEndsProcess` and `HalfEndsWithTheNextCall` of `Signal`. They
are liveness under fairness, which is beyond the prover, as is ENABLED. Every
other property of a passing run, invariant, action property or refinement, is
proved. What the theorems of the watcher assume with `~MayOmit`, that no open wish
is left out, is what `UndisturbedIsComplete` shows of the list as long as nothing
is removed while it is read; `Watch` and `OpenWishes` are not composed.

## 5. Disagreements

Where the code and what the repository says of it differ. Three have a run:

| Run | What the repository says | What the code does |
|---|---|---|
| `name_held` | a name somebody already holds gets nothing | two entries hold it when the first holder's new name does not resolve |
| `dialog_more` | "more" shows the next results | the hits beyond the fifth of Seerr's page are skipped |
| `signal_entries` | every path that does not consume an entry takes it back out | a call that is dropped while it waits leaves it there |

`PROJECT.json` quotes each sentence with its place. The others were met while
modelling, and the models have the code's behaviour:

- A failed search "is tried again the next day" (`watch.rs:24`,
  `src/README.md:465`). It is tried again in the next round, while the day's
  budget lasts: a failed attempt counts (`watch.rs:456`) but leaves no reason,
  and the reason is all that is looked at.
- A retry is "recorded before the call, so there is never a second attempt"
  (`src/README.md:296`). There is one if an answer of Seerr once leaves the wish
  out, because its note goes with it (`watch.rs:203`). This is what `~MayOmit`
  stands for in the theorems.
- "I couldn't put it on the list on the second try either" (`i18n/en.toml:77`)
  is also sent when no second try was made, because the process was killed
  between the record of it and the call (`watch.rs:277`).
- A found reason that could not be saved holds the message back
  (`watch.rs:466`), but only in that round: in the next the reason is in memory,
  and the message goes out whether or not a save ever succeeded.
- A stored copy of somebody's groups does not freeze (`directory/diff.rs:48`).
  It does while the name they have entered since is a typo or somebody else's:
  the comparison is only made under the old name (`diff.rs:84`).
- `poll_seconds = 0` is accepted by `load`, and `tokio::time::interval` ends the
  process with it (`main.rs:331`, `467`), after its tasks were started.

## 6. Plan

Done, in this order because the watcher acts unasked and its record has to
survive restarts, the directory decides who may do anything, and the dialog acts
in people's name: `Insight`, `Watch`, `Directory`, `Limiter`, `Dialog`; then what
carries them, `Signal` with `Frames`, `Webhook`, and the list the watcher relies
on, `OpenWishes`; then the promise that sums up the watcher, `WatchPromise`; and
the code without state, `Arr`, `Status` and `Settings`.

Next:

1. `Signal` composed with `Dialog`: a person who types before the last answer
   has arrived. Today the message waits in the queue of `Signal`, and `Dialog`
   starts the next one only once the reply has been sent.
2. The rest of Seerr's client: how the account of a user name is found, and which
   server's profiles are listed.

**Not modelled**: the wording of texts (`i18n.rs`) and their completeness, which
a test of the repository compares; the parsing of HTTP, JSON, TOML and PEM
(their results, and their failure, are inputs of the models); the type that
keeps secrets out of logs (`secret.rs`; reading them is in `Settings`); the
limit systemd puts on restarts; a task that hangs in a call without a deadline; a
line from signal-cli that is not UTF-8, which would end the reader
(`signal/mod.rs:63`).
