-------------------------------- MODULE Signal --------------------------------
(***************************************************************************)
(* The way to Signal and back: the client in the bot (src/signal/mod.rs,    *)
(* rpc.rs), the sieve in front of the daemon (src/bin/signal-sieb.rs), and   *)
(* the process around them (src/main.rs), which ends with its dialog task    *)
(* and is started again.                                                    *)
(*                                                                          *)
(* Several tasks call over one socket.  A call takes an id, registers it,   *)
(* writes one line and waits; one reader task takes the lines that come     *)
(* back, hands an answer to the call registered under its id, and puts what *)
(* people write into a bounded queue for the dialog.                        *)
(*                                                                          *)
(* A line is a ticket: the id a call travels under, and which call it is    *)
(* (`of`, a number no two calls share, also across restarts).  Messages of  *)
(* people are numbered in the order they are written.  The lock on the      *)
(* writer makes a line one step.                                            *)
(*                                                                          *)
(* Bounds: MaxCalls, MaxSaid, MaxStarts and MaxFaults end a behaviour;      *)
(* PipeSize is what a socket buffers, in lines.                             *)
(***************************************************************************)
EXTENDS Naturals, Sequences, FiniteSets

CONSTANTS
  Task,            \* what may call: the dialog, the reconciler, a delivery, ...
  Dialog,          \* the task of them that takes the messages
  Hook,            \* the tasks dropped when the one who waits for them goes
  None,
  INCOMING_QUEUE,
  PipeSize,
  MaxCalls, MaxSaid, MaxStarts, MaxFaults

ASSUME SignalAssumption ==
  /\ Dialog \in Task /\ Hook \subseteq Task \ {Dialog}
  /\ None \notin Nat
  /\ INCOMING_QUEUE \in Nat \ {0} /\ PipeSize \in Nat \ {0}
  /\ MaxCalls \in Nat /\ MaxSaid \in Nat /\ MaxStarts \in Nat /\ MaxFaults \in Nat

VARIABLES
  \* -- the bot
  process,      \* is it running?
  next_id,
  pending,      \* the tickets registered
  call,         \* where each task is in `call`
  reader,       \* is the reader task running?
  queue,        \* messages waiting for the dialog
  dropped,
  talking,      \* the dialog has taken a message and is not done with it
  \* -- the sieve
  sieved,       \* is there one, or does the bot talk to the daemon itself?
  link,         \* the connection: "joined", "half" (the daemon's end is gone)
                \* or "closed"
  out, back,    \* lines to the daemon, and lines to the bot
  \* -- the daemon
  daemon,       \* is signal-cli running?
  requests,     \* the tickets it has received and not answered
  \* -- bounds and history
  made, said, starts, faults,
  read, taken,  \* messages read, and messages the dialog took, of this process
  abandoned     \* tickets of dropped calls, of this process

bot     == <<process, next_id, pending, call, reader, queue, dropped, talking>>
wire    == <<sieved, link, out, back>>
outside == <<daemon, requests>>
bounds  == <<made, said, starts, faults>>
history == <<read, taken, abandoned>>
vars    == <<bot, wire, outside, bounds, history>>

-----------------------------------------------------------------------------
Ticket == [id : Nat, of : Nat]

\* What comes back, as parse_line and into_incoming sort it: an answer, a
\* message of a person, or something that is neither (a receipt, a group, an
\* envelope without text, a frame that is not modelled).
Answer(t)  == [kind |-> "answer", ticket |-> t]
Message(n) == [kind |-> "message", n |-> n]
Other      == [kind |-> "other"]
Line == [kind : {"answer"}, ticket : Ticket] \cup [kind : {"message"}, n : Nat] \cup {Other}

Idle == [at |-> "idle", ticket |-> None, answer |-> None]

Fault == faults > 0 /\ faults' = faults - 1

Closed == link' = "closed" /\ out' = <<>>

\* Mutant: an id is taken again.
fetch_add_stuck == next_id' = next_id

\* AtomicU64::fetch_add.
fetch_add == next_id' = next_id + 1

\* HashMap::insert.
Register(t) == pending' = { p \in pending : p.id # t.id } \cup {t}

\* Mutant: a path that leaves the entry where it is.
TakeBackForgotten(t) == UNCHANGED pending

TakeBack(t) == pending' = { p \in pending : p.id # t.id }

\* A fresh process: SignalClient::connect.
Fresh ==
  /\ next_id' = 1 /\ pending' = {} /\ call' = [t \in Task |-> Idle]
  /\ reader' = TRUE /\ queue' = <<>> /\ dropped' = 0 /\ talking' = FALSE
  /\ read' = 0 /\ taken' = 0 /\ abandoned' = {}

Init ==
  /\ process = "up" /\ next_id = 1 /\ pending = {} /\ call = [t \in Task |-> Idle]
  /\ reader = TRUE /\ queue = <<>> /\ dropped = 0 /\ talking = FALSE
  /\ sieved \in BOOLEAN /\ link = "joined" /\ out = <<>> /\ back = <<>>
  /\ daemon = TRUE /\ requests = {}
  /\ made = 0 /\ said = 0 /\ starts = 0 /\ faults = MaxFaults
  /\ read = 0 /\ taken = 0 /\ abandoned = {}

-----------------------------------------------------------------------------
(* SignalClient::call                                                       *)

\* The id and the entry, before the line: the answer could be faster.
Call(t) ==
  /\ process = "up" /\ call[t].at = "idle" /\ made < MaxCalls
  /\ t = Dialog => talking
  /\ LET ticket == [id |-> next_id, of |-> made] IN
       /\ Register(ticket)
       /\ call' = [call EXCEPT ![t] = [at |-> "write", ticket |-> ticket, answer |-> None]]
  /\ fetch_add
  /\ made' = made + 1
  /\ UNCHANGED <<process, reader, queue, dropped, talking, wire, outside, said, starts, faults,
                 history>>

\* A full pipe holds the call here, and it has no deadline yet.
Write(t) ==
  /\ call[t].at = "write" /\ link # "closed" /\ Len(out) < PipeSize
  /\ out' = Append(out, call[t].ticket)
  /\ call' = [call EXCEPT ![t].at = "wait"]
  /\ UNCHANGED <<process, next_id, pending, reader, queue, dropped, talking, sieved, link, back,
                 outside, bounds, history>>

WriteFails(t) ==
  /\ call[t].at = "write" /\ link = "closed"
  /\ TakeBack(call[t].ticket)
  /\ call' = [call EXCEPT ![t] = Idle]
  /\ UNCHANGED <<process, next_id, reader, queue, dropped, talking, wire, outside, bounds,
                 history>>

\* What the answer was, a result or a refusal, is up to the caller.
Answered(t) ==
  /\ call[t].at = "wait" /\ call[t].answer # None
  /\ call' = [call EXCEPT ![t] = Idle]
  /\ UNCHANGED <<process, next_id, pending, reader, queue, dropped, talking, wire, outside,
                 bounds, history>>

\* Mutant: the reader waits for room in the queue.
TakesWhenRoom(line) == line.kind = "message" => Len(queue) < INCOMING_QUEUE

\* The reader never awaits anything but the next line.
Takes(line) == TRUE

CanRead == process = "up" /\ reader /\ back # <<>> /\ Takes(Head(back))

\* Mutant: nothing ends the wait but an answer.
TimedOutNever(t) == call[t].at = "wait" /\ FALSE /\ UNCHANGED vars

\* 30 seconds, which are long against reading a line that is there.
TimedOut(t) ==
  /\ call[t].at = "wait" /\ call[t].answer = None /\ ~CanRead
  /\ TakeBack(call[t].ticket)
  /\ call' = [call EXCEPT ![t] = Idle]
  /\ UNCHANGED <<process, next_id, reader, queue, dropped, talking, wire, outside, bounds,
                 history>>

\* Seerr closes its connection: the handler of the delivery is dropped where it
\* stands, and nobody takes its entry back out.
Abandon(t) ==
  /\ t \in Hook /\ call[t].at # "idle" /\ Fault
  /\ call' = [call EXCEPT ![t] = Idle]
  /\ abandoned' = abandoned \cup {call[t].ticket}
  /\ UNCHANGED <<process, next_id, pending, reader, queue, dropped, talking, wire, outside, made,
                 said, starts, read, taken>>

-----------------------------------------------------------------------------
(* The reader task                                                          *)

ReadAnswer ==
  /\ CanRead /\ Head(back).kind = "answer"
  /\ LET ticket == Head(back).ticket
         waiter == { p \in pending : p.id = ticket.id }
     IN  /\ TakeBack(ticket)
         /\ call' = [t \in Task |->
              IF call[t].at # "idle" /\ call[t].ticket \in waiter
                THEN [call[t] EXCEPT !.answer = ticket.of] ELSE call[t]]
  /\ back' = Tail(back)
  /\ UNCHANGED <<process, next_id, reader, queue, dropped, talking, sieved, link, out, outside,
                 bounds, history>>

\* Mutant: a message that finds the queue full goes without a trace.
try_send_silent(n) ==
  IF Len(queue) < INCOMING_QUEUE
    THEN queue' = Append(queue, n) /\ UNCHANGED dropped
    ELSE UNCHANGED <<queue, dropped>>

\* Mutant: an unbounded channel.
try_send_unbounded(n) == queue' = Append(queue, n) /\ UNCHANGED dropped

\* What does not fit is dropped and counted.
try_send(n) ==
  IF Len(queue) < INCOMING_QUEUE
    THEN queue' = Append(queue, n) /\ UNCHANGED dropped
    ELSE dropped' = dropped + 1 /\ UNCHANGED queue

ReadMessage ==
  /\ CanRead /\ Head(back).kind = "message"
  /\ try_send(Head(back).n)
  /\ read' = read + 1
  /\ back' = Tail(back)
  /\ UNCHANGED <<process, next_id, pending, call, reader, talking, sieved, link, out, outside,
                 bounds, taken, abandoned>>

ReadOther ==
  /\ CanRead /\ Head(back).kind = "other"
  /\ back' = Tail(back)
  /\ UNCHANGED <<bot, sieved, link, out, outside, bounds, history>>

\* Mutant: the reader tries again for ever at the end of the stream.
ReaderRetries ==
  /\ process = "up" /\ reader /\ link = "closed" /\ back = <<>>
  /\ UNCHANGED vars

\* The end of the stream.  The calls that wait are left to their deadline; the
\* queue loses its sender, and its end once it is empty is the dialog's end.  (A
\* line that is not UTF-8 would end the reader early; signal-cli writes JSON.)
ReaderEnds ==
  /\ process = "up" /\ reader /\ link = "closed" /\ back = <<>>
  /\ reader' = FALSE
  /\ UNCHANGED <<process, next_id, pending, call, queue, dropped, talking, wire, outside, bounds,
                 history>>

-----------------------------------------------------------------------------
(* The dialog task, and the process                                         *)

Take ==
  /\ process = "up" /\ ~talking /\ queue # <<>>
  /\ queue' = Tail(queue) /\ talking' = TRUE
  /\ taken' = taken + 1
  /\ UNCHANGED <<process, next_id, pending, call, reader, dropped, wire, outside, bounds, read,
                 abandoned>>

\* Every reply has been sent, or could not be.
Done ==
  /\ talking /\ call[Dialog].at = "idle"
  /\ talking' = FALSE
  /\ UNCHANGED <<process, next_id, pending, call, reader, queue, dropped, wire, outside, bounds,
                 history>>

\* The bot's socket goes, and with it the relay's connection to the daemon.
End ==
  /\ process' = "down"
  /\ Fresh /\ Closed /\ back' = <<>> /\ requests' = {}
  /\ UNCHANGED <<sieved, daemon>>

\* recv answers None: the dialog loop is over, and main exits.
DialogEnds ==
  /\ process = "up" /\ ~reader /\ queue = <<>> /\ ~talking
  /\ End /\ UNCHANGED bounds

Killed ==
  /\ process = "up" /\ Fault
  /\ End /\ UNCHANGED <<made, said, starts>>

\* The unit starts it again, and it waits for the socket.  The sieve's is always
\* there, but its connection ends at once if the daemon does not run.
Start ==
  /\ process = "down" /\ starts < MaxStarts
  /\ sieved \/ daemon
  /\ starts' = starts + 1
  /\ process' = "up" /\ Fresh
  /\ link' = IF daemon THEN "joined" ELSE "closed"
  /\ UNCHANGED <<sieved, out, back, outside, made, said, faults>>

\* wait_for_socket gives up.
StartFails ==
  /\ process = "down" /\ starts < MaxStarts
  /\ ~sieved /\ ~daemon
  /\ starts' = starts + 1
  /\ UNCHANGED <<bot, wire, outside, made, said, faults, history>>

-----------------------------------------------------------------------------
(* The sieve                                                                *)

\* `check` lets every call of the bot through: it makes none but ALLOWED ones.
Forward ==
  /\ link = "joined" /\ out # <<>>
  /\ requests' = requests \cup {Head(out)} /\ out' = Tail(out)
  /\ UNCHANGED <<bot, sieved, link, back, daemon, bounds, history>>

\* Mutant: a line that cannot be passed on is dropped.
ForwardDrops ==
  /\ link = "half" /\ out # <<>>
  /\ out' = Tail(out)
  /\ UNCHANGED <<bot, sieved, link, back, outside, bounds, history>>

\* The write fails, relay returns, and the bot's connection is closed.
ForwardFails ==
  /\ link = "half" /\ out # <<>>
  /\ Closed
  /\ UNCHANGED <<bot, sieved, back, outside, bounds, history>>

SieveDies ==
  /\ sieved /\ link # "closed" /\ Fault
  /\ Closed /\ requests' = {}
  /\ UNCHANGED <<bot, sieved, back, daemon, made, said, starts, history>>

-----------------------------------------------------------------------------
(* The daemon, and the people behind it                                     *)

Room == link = "joined" /\ Len(back) < PipeSize

\* Some time, or never.
Answers(t) ==
  /\ t \in requests /\ Room
  /\ requests' = requests \ {t} /\ back' = Append(back, Answer(t))
  /\ UNCHANGED <<bot, sieved, link, out, daemon, bounds, history>>

Says ==
  /\ Room /\ said < MaxSaid
  /\ back' = Append(back, Message(said)) /\ said' = said + 1
  /\ UNCHANGED <<bot, sieved, link, out, outside, made, starts, faults, history>>

Chatter ==
  /\ Room /\ said < MaxSaid
  /\ back' = Append(back, Other) /\ said' = said + 1
  /\ UNCHANGED <<bot, sieved, link, out, outside, made, starts, faults, history>>

\* The sieve's other half ends, and the bot is not told.
DaemonDies ==
  /\ daemon /\ Fault
  /\ daemon' = FALSE /\ requests' = {}
  /\ \/ link = "joined" /\ sieved /\ link' = "half" /\ UNCHANGED out
     \/ link = "joined" /\ ~sieved /\ Closed
     \/ link # "joined" /\ UNCHANGED <<link, out>>
  /\ UNCHANGED <<bot, sieved, back, made, said, starts, history>>

DaemonStarts ==
  /\ ~daemon /\ daemon' = TRUE
  /\ UNCHANGED <<bot, wire, requests, bounds, history>>

-----------------------------------------------------------------------------
Calls(t) == Call(t) \/ Write(t) \/ WriteFails(t) \/ Answered(t) \/ TimedOut(t) \/ Abandon(t)
Reader   == ReadAnswer \/ ReadMessage \/ ReadOther \/ ReaderEnds
Process  == Take \/ Done \/ DialogEnds \/ Killed \/ Start \/ StartFails
Sieve    == Forward \/ ForwardFails \/ SieveDies
Daemon   == (\E t \in requests : Answers(t)) \/ Says \/ Chatter \/ DaemonDies \/ DaemonStarts

Next == (\E t \in Task : Calls(t)) \/ Reader \/ Process \/ Sieve \/ Daemon

Spec == Init /\ [][Next]_vars

\* Every task of the bot and of the sieve is polled, and timers fire.  Nothing
\* is assumed of the daemon, except that the sieve's writes to it come through.
LiveSpec ==
  /\ Spec
  /\ \A t \in Task : WF_vars(Write(t) \/ WriteFails(t) \/ Answered(t) \/ TimedOut(t))
  /\ WF_vars(Reader) /\ WF_vars(Take) /\ WF_vars(Done) /\ WF_vars(DialogEnds)
  /\ WF_vars(Forward \/ ForwardFails)

-----------------------------------------------------------------------------
(* Properties                                                               *)

CallState ==
  [ at : {"idle", "write", "wait"}, ticket : Ticket \cup {None}, answer : Nat \cup {None} ]

\* Every variable keeps its type, and the queue its bound.
TypeOK ==
  /\ process \in {"up", "down"} /\ next_id \in Nat /\ pending \subseteq Ticket
  /\ call \in [Task -> CallState]
  /\ \A t \in Task : call[t].at # "idle" => call[t].ticket \in Ticket
  /\ reader \in BOOLEAN /\ talking \in BOOLEAN
  /\ queue \in Seq(Nat) /\ Len(queue) <= INCOMING_QUEUE /\ dropped \in Nat
  /\ sieved \in BOOLEAN /\ link \in {"joined", "half", "closed"}
  /\ out \in Seq(Ticket) /\ back \in Seq(Line)
  /\ daemon \in BOOLEAN /\ requests \subseteq Ticket
  /\ made \in Nat /\ said \in Nat /\ starts \in Nat /\ faults \in Nat
  /\ read \in Nat /\ taken \in Nat /\ abandoned \subseteq Ticket

\* An answer reaches the call it answers and no other, whatever is late, timed
\* out, dropped or restarted in between (signal/mod.rs call and the reader).
OwnAnswer == \A t \in Task : call[t].answer # None => call[t].answer = call[t].ticket.of

\* An entry in `pending` belongs to a call that is under way, or to one that was
\* dropped; every other way out of a call takes its entry along.
EntriesAreCalls ==
  \A p \in pending : p \in abandoned \/ \E t \in Task : call[t].at # "idle" /\ call[t].ticket = p

\* Every message that was read is with the dialog, in the queue, or counted as
\* dropped, and the queue holds messages in the order they were written.
KeptOrCounted ==
  /\ read = taken + Len(queue) + dropped
  /\ \A i, j \in 1 .. Len(queue) : i < j => queue[i] < queue[j]

\* "A reader waiting on the dialog is a deadlock that only the 30s timeout
\* breaks": no call times out while its answer is there to be read.
TimeoutMeansNoAnswer ==
  [][\A t \in Task :
       call[t].at = "wait" /\ call[t].answer = None /\ call'[t] = Idle /\ process' = "up"
         => \/ call[t].ticket \in abandoned'
            \/ Answer(call[t].ticket) \notin { back[i] : i \in 1 .. Len(back) }]_vars

\* "A call that never comes back would wedge the dialog for good": every call
\* ends, also when the reader has ended before it.
CallsEnd == \A t \in Task : call[t].at # "idle" ~> call[t].at = "idle"

\* A connection that is closed ends the process, whatever its tasks are doing,
\* so that it can be started again.
ClosedEndsProcess == process = "up" /\ link = "closed" ~> process = "down"

\* When the daemon's end of the sieve is gone, the next line the bot writes ends
\* the connection, and with it the process.
HalfEndsWithTheNextCall == link = "half" /\ out # <<>> ~> process = "down"

-----------------------------------------------------------------------------
(* What the repository says of the client, and the code does not do         *)

\* signal/mod.rs:134 "every path that does not consume it has to take it back
\* out": there is no entry without a call.
EveryPathTakesItBack ==
  \A p \in pending : \E t \in Task : call[t].at # "idle" /\ call[t].ticket = p
=============================================================================
