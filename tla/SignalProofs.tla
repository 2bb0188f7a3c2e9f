---------------------------- MODULE SignalProofs ----------------------------
(***************************************************************************)
(* Calls and their answers, for any number of tasks, calls and failures.    *)
(***************************************************************************)
EXTENDS Signal, Frames, SequenceTheorems, TLAPS

\* An idle task holds nothing, and a process that is down has left nothing on
\* the way.
Rest ==
  /\ \A t \in Task : call[t].at = "idle" => call[t] = Idle
  /\ process = "down" =>
       /\ link = "closed" /\ out = <<>> /\ back = <<>> /\ requests = {} /\ pending = {}
       /\ \A t \in Task : call[t] = Idle

Typed == TypeOK /\ Rest

-----------------------------------------------------------------------------
(* Types                                                                    *)

\* A call moves on within its states.
LEMMA CallMoves ==
  ASSUME NEW f \in [Task -> CallState], NEW t \in Task, NEW c \in CallState
  PROVE  /\ [f EXCEPT ![t] = c] \in [Task -> CallState]
         /\ [f EXCEPT ![t].at = "wait"] \in [Task -> CallState]
BY DEF CallState

LEMMA IdleType == Idle \in CallState /\ Idle.at = "idle" /\ Idle.answer = None
BY DEF Idle, CallState

LEMMA NothingTyped ==
  /\ <<>> \in Seq(Nat) /\ <<>> \in Seq(Ticket) /\ <<>> \in Seq(Line)
  /\ Len(<<>>) = 0
BY EmptySeq

LEMMA TypedStarts == Init => Typed
<1> SUFFICES ASSUME Init PROVE Typed
  OBVIOUS
<1>1. call \in [Task -> CallState] /\ \A t \in Task : call[t] = Idle
  BY IdleType DEF Init
<1>2. \A t \in Task : call[t].at = "idle"
  BY <1>1, IdleType
<1>3. Rest
  BY <1>1 DEF Init, Rest
<1>4. queue \in Seq(Nat) /\ Len(queue) <= INCOMING_QUEUE
  BY NothingTyped, SignalAssumption DEF Init
<1>5. out \in Seq(Ticket) /\ back \in Seq(Line)
  BY NothingTyped DEF Init
<1>6. reader \in BOOLEAN /\ talking \in BOOLEAN /\ sieved \in BOOLEAN /\ daemon \in BOOLEAN
  BY DEF Init
<1> QED
  BY <1>1, <1>2, <1>3, <1>4, <1>5, <1>6, SignalAssumption DEF Init, Typed, TypeOK

\* A fresh process is idle.
LEMMA FreshTyped ==
  ASSUME Fresh, out' = <<>>, back' = <<>>, requests' = {}, process' \in {"up", "down"},
         process' = "down" => link' = "closed",
         sieved' \in BOOLEAN, link' \in {"joined", "half", "closed"}, daemon' \in BOOLEAN,
         made' \in Nat, said' \in Nat, starts' \in Nat, faults' \in Nat
  PROVE  Typed'
<1>1. call' \in [Task -> CallState] /\ \A t \in Task : call'[t] = Idle
  BY IdleType DEF Fresh
<1>2. \A t \in Task : call'[t].at = "idle"
  BY <1>1, IdleType
<1>3. queue' = <<>> /\ queue' \in Seq(Nat) /\ Len(queue') = 0
  BY NothingTyped DEF Fresh
<1>4. Rest'
  BY <1>1 DEF Fresh, Rest
<1>5. Len(queue') <= INCOMING_QUEUE /\ out' \in Seq(Ticket) /\ back' \in Seq(Line)
  BY <1>3, NothingTyped, SignalAssumption
<1>6. reader' \in BOOLEAN /\ talking' \in BOOLEAN
  BY DEF Fresh
<1> QED
  BY <1>1, <1>2, <1>3, <1>4, <1>5, <1>6 DEF Fresh, Typed, TypeOK

LEMMA TypedKept == Typed /\ [Next]_vars => Typed'
<1> SUFFICES ASSUME Typed, [Next]_vars PROVE Typed'
  OBVIOUS
<1>0. TypeOK /\ Rest
  BY DEF Typed
<1> USE SignalAssumption
<1> USE DEF Typed, TypeOK, Rest, bot, wire, outside, bounds, history, Fault
<1>1. ASSUME NEW t \in Task, Call(t) PROVE Typed'
  <2> DEFINE ticket == [id |-> next_id, of |-> made]
             c == [at |-> "write", ticket |-> ticket, answer |-> None]
  <2>1. ticket \in Ticket /\ c \in CallState
    BY <1>0 DEF Ticket, CallState
  <2>2. call' = [call EXCEPT ![t] = c]
    BY <1>1 DEF Call
  <2>3. c.at = "write" /\ c.ticket = ticket
    OBVIOUS
  <2>4. pending' \subseteq Ticket
    BY <1>0, <1>1, <2>1 DEF Call, Register
  <2> HIDE DEF c, ticket
  <2>5. /\ call' \in [Task -> CallState]
        /\ \A s \in Task : call'[s].at # "idle" => call'[s].ticket \in Ticket
        /\ \A s \in Task : call'[s].at = "idle" => call'[s] = Idle
    BY <1>0, <2>1, <2>2, <2>3
  <2> QED
    BY <1>0, <1>1, <2>4, <2>5 DEF Call, fetch_add
<1>2. ASSUME NEW t \in Task, Write(t) PROVE Typed'
  <2>1. call' \in [Task -> CallState]
    BY <1>0, <1>2, CallMoves, IdleType, Zenon DEF Write
  <2>2. /\ \A s \in Task : call'[s].at # "idle" => call'[s].ticket \in Ticket
        /\ \A s \in Task : call'[s].at = "idle" => call'[s] = Idle
    BY <1>0, <1>2 DEF Write, CallState
  <2>3. out' \in Seq(Ticket)
    <3>1. call[t].at = "write" /\ out' = Append(out, call[t].ticket)
      BY <1>2 DEF Write
    <3>2. call[t].ticket \in Ticket /\ out \in Seq(Ticket)
      BY <1>0, <3>1
    <3> QED
      BY <3>1, <3>2, AppendProperties
  <2> QED
    BY <1>0, <1>2, <2>1, <2>2, <2>3 DEF Write
<1>3. ASSUME NEW t \in Task,
             \/ WriteFails(t) \/ TimedOut(t) \/ Answered(t) \/ Abandon(t)
      PROVE Typed'
  <2>1. /\ call' = [call EXCEPT ![t] = Idle] /\ pending' \subseteq pending
        /\ abandoned' \subseteq Ticket /\ faults' \in Nat
    <3>1. CASE WriteFails(t) \/ TimedOut(t) \/ Answered(t)
      BY <1>0, <3>1 DEF WriteFails, TimedOut, Answered, TakeBack
    <3>2. CASE Abandon(t)
      BY <1>0, <3>2 DEF Abandon
    <3> QED
      BY <1>3, <3>1, <3>2
  <2>2. /\ call' \in [Task -> CallState]
        /\ \A s \in Task : call'[s].at # "idle" => call'[s].ticket \in Ticket
        /\ \A s \in Task : call'[s].at = "idle" => call'[s] = Idle
        /\ process = "down" => \A s \in Task : call'[s] = Idle
    BY <1>0, <2>1, IdleType
  <2>3. UNCHANGED <<process, next_id, reader, queue, dropped, talking, wire, outside, made, said,
                    starts, read, taken>>
    BY <1>3 DEF WriteFails, TimedOut, Answered, Abandon
  <2> QED
    BY <1>0, <2>1, <2>2, <2>3
<1>4. CASE ReadAnswer
  <2> DEFINE ticket == Head(back).ticket
             waiter == { p \in pending : p.id = ticket.id }
             Hit(s) == call[s].at # "idle" /\ call[s].ticket \in waiter
  <2>0. back \in Seq(Line) /\ back # <<>> /\ Head(back).kind = "answer"
    BY <1>0, <1>4 DEF ReadAnswer, CanRead
  <2>1. ticket \in Ticket /\ back' \in Seq(Line)
    <3>1. Head(back) \in Line /\ Tail(back) \in Seq(Line)
      BY <2>0, HeadTailProperties
    <3>2. Head(back) \in [kind : {"answer"}, ticket : Ticket]
      BY <2>0, <3>1 DEF Line, Other
    <3> QED
      BY <1>4, <3>1, <3>2 DEF ReadAnswer
  <2>2. ticket.of \in Nat
    BY <2>1 DEF Ticket
  <2>3. call' = [s \in Task |-> IF Hit(s) THEN [call[s] EXCEPT !.answer = ticket.of] ELSE call[s]]
    BY <1>4 DEF ReadAnswer
  <2> HIDE DEF ticket, waiter, Hit
  <2>4. \A s \in Task : /\ call'[s] \in CallState
                        /\ call'[s].at = call[s].at /\ call'[s].ticket = call[s].ticket
    BY <1>0, <2>2, <2>3 DEF CallState
  <2>5. call' \in [Task -> CallState]
    BY <2>3, <2>4
  <2>6. \A s \in Task : call'[s].at = "idle" => call'[s] = Idle
    <3>1. \A s \in Task : call[s].at = "idle" => ~Hit(s)
      BY DEF Hit
    <3> QED
      BY <1>0, <2>3, <2>4, <3>1
  <2>7. pending' \subseteq pending /\ process' = "up"
    BY <1>4 DEF ReadAnswer, TakeBack, CanRead
  <2>8. UNCHANGED <<process, next_id, reader, queue, dropped, talking, sieved, link, out, outside,
                    bounds, history>>
    BY <1>4 DEF ReadAnswer
  <2> QED
    BY <1>0, <2>1, <2>4, <2>5, <2>6, <2>7, <2>8
<1>5. CASE ReadMessage
  <2>0. back \in Seq(Line) /\ back # <<>> /\ Head(back).kind = "message" /\ process = "up"
    BY <1>0, <1>5 DEF ReadMessage, CanRead
  <2>1. Head(back).n \in Nat /\ back' \in Seq(Line)
    <3>1. Head(back) \in Line /\ Tail(back) \in Seq(Line)
      BY <2>0, HeadTailProperties
    <3>2. Head(back) \in [kind : {"message"}, n : Nat]
      BY <2>0, <3>1 DEF Line, Other
    <3> QED
      BY <1>5, <3>1, <3>2 DEF ReadMessage
  <2>2. queue' \in Seq(Nat) /\ Len(queue') <= INCOMING_QUEUE /\ dropped' \in Nat
    <3>1. CASE Len(queue) < INCOMING_QUEUE
      <4>1. queue' = Append(queue, Head(back).n) /\ dropped' = dropped
        BY <1>5, <3>1 DEF ReadMessage, try_send
      <4>2. queue' \in Seq(Nat) /\ Len(queue') = Len(queue) + 1 /\ Len(queue) \in Nat
        BY <1>0, <2>1, <4>1
      <4> QED
        BY <1>0, <3>1, <4>1, <4>2
    <3>2. CASE ~(Len(queue) < INCOMING_QUEUE)
      BY <1>0, <1>5, <3>2 DEF ReadMessage, try_send
    <3> QED
      BY <3>1, <3>2
  <2> QED
    BY <1>0, <1>5, <2>0, <2>1, <2>2 DEF ReadMessage
<1>6. CASE ReadOther
  <2>1. back' \in Seq(Line) /\ process = "up"
    BY <1>0, <1>6, HeadTailProperties DEF ReadOther, CanRead
  <2> QED
    BY <1>0, <1>6, <2>1 DEF ReadOther
<1>7. CASE ReaderEnds
  BY <1>0, <1>7 DEF ReaderEnds
<1>8. CASE Take
  <2>1. queue' \in Seq(Nat) /\ Len(queue') <= INCOMING_QUEUE
    BY <1>0, <1>8, HeadTailProperties DEF Take
  <2> QED
    BY <1>0, <1>8, <2>1 DEF Take
<1>9. CASE Done
  BY <1>0, <1>9 DEF Done
<1>10. CASE DialogEnds
  BY <1>0, <1>10, FreshTyped DEF DialogEnds, End, Closed
<1>11. CASE Killed
  BY <1>0, <1>11, FreshTyped DEF Killed, End, Closed
<1>12. CASE Start
  BY <1>0, <1>12, FreshTyped DEF Start
<1>13. CASE StartFails
  BY <1>0, <1>13 DEF StartFails
<1>14. CASE Forward
  <2>1. Head(out) \in Ticket /\ out' \in Seq(Ticket)
    BY <1>0, <1>14, HeadTailProperties DEF Forward
  <2> QED
    BY <1>0, <1>14, <2>1 DEF Forward
<1>15. CASE ForwardFails \/ SieveDies
  <2>1. process = "up" \/ link = "closed"
    BY <1>0
  <2>2. link' = "closed" /\ out' = <<>> /\ out' \in Seq(Ticket) /\ link # "closed"
    BY <1>15, NothingTyped DEF ForwardFails, SieveDies, Closed
  <2>3. requests' \subseteq requests /\ faults' \in Nat
    BY <1>0, <1>15 DEF ForwardFails, SieveDies
  <2>4. UNCHANGED <<bot, sieved, back, daemon, made, said, starts, history>>
    BY <1>15 DEF ForwardFails, SieveDies
  <2> QED
    BY <1>0, <2>1, <2>2, <2>3, <2>4
<1>16. ASSUME NEW t \in requests, Answers(t) PROVE Typed'
  <2>1. Answer(t) \in Line
    BY <1>0, <1>16 DEF Line, Answer
  <2>2. back' \in Seq(Line)
    BY <1>0, <1>16, <2>1 DEF Answers
  <2> QED
    BY <1>0, <1>16, <2>2 DEF Answers, Room
<1>17. CASE Says
  <2>1. Message(said) \in Line
    BY <1>0 DEF Line, Message
  <2>2. back' \in Seq(Line)
    BY <1>0, <1>17, <2>1 DEF Says
  <2> QED
    BY <1>0, <1>17, <2>2 DEF Says, Room
<1>18. CASE Chatter
  <2>1. Other \in Line
    BY DEF Line
  <2>2. back' \in Seq(Line)
    BY <1>0, <1>18, <2>1 DEF Chatter
  <2> QED
    BY <1>0, <1>18, <2>2 DEF Chatter, Room
<1>19. CASE DaemonDies
  <2>1. /\ link' \in {"joined", "half", "closed"} /\ (link = "closed" => link' = "closed")
        /\ out' = out \/ out' = <<>>
    BY <1>0, <1>19 DEF DaemonDies, Closed
  <2>2. out' \in Seq(Ticket)
    BY <1>0, <2>1, NothingTyped
  <2>3. /\ daemon' = FALSE /\ requests' = {} /\ faults' \in Nat
        /\ UNCHANGED <<bot, sieved, back, made, said, starts, history>>
    BY <1>0, <1>19 DEF DaemonDies
  <2> QED
    BY <1>0, <2>1, <2>2, <2>3
<1>20. CASE DaemonStarts
  BY <1>0, <1>20 DEF DaemonStarts
<1>21. CASE UNCHANGED vars
  BY <1>0, <1>21 DEF vars
<1> HIDE DEF Typed, TypeOK, Rest, bot, wire, outside, bounds, history, Fault
<1> QED
  BY <1>1, <1>2, <1>3, <1>4, <1>5, <1>6, <1>7, <1>8, <1>9, <1>10, <1>11, <1>12, <1>13, <1>14,
     <1>15, <1>16, <1>17, <1>18, <1>19, <1>20, <1>21, Zenon
  DEF Next, Calls, Reader, Process, Sieve, Daemon

\* Every variable keeps its type (TypeOK of Signal), and the queue its bound,
\* however much people write while the dialog waits (signal/mod.rs INCOMING_QUEUE).
THEOREM Types == Spec => []TypeOK
<1>1. Typed => TypeOK
  BY DEF Typed
<1> QED
  BY <1>1, TypedStarts, TypedKept, PTL DEF Spec

LEMMA TypedAlways == Spec => []Typed
  BY TypedStarts, TypedKept, PTL DEF Spec

-----------------------------------------------------------------------------
(* Whose answer it is                                                       *)

\* The tickets that are registered, held by a call, or on the way there and back.
InPlay ==
  { x \in Ticket :
      \/ x \in pending
      \/ \E t \in Task : call[t].at # "idle" /\ call[t].ticket = x
      \/ \E i \in 1 .. Len(out) : out[i] = x
      \/ x \in requests
      \/ \E i \in 1 .. Len(back) : back[i] = Answer(x) }

\* An id is in play for one call only.
NoTwins ==
  \A x \in InPlay : x.id < next_id /\ \A y \in InPlay : x.id = y.id => x = y

LEMMA OnlyOneLonger ==
  ASSUME NEW S, NEW s \in Seq(S), NEW e \in S
  PROVE  \A i \in 1 .. Len(Append(s, e)) :
           \/ Append(s, e)[i] = e
           \/ \E j \in 1 .. Len(s) : Append(s, e)[i] = s[j]
OBVIOUS

LEMMA OnlyOneShorter ==
  ASSUME NEW S, NEW s \in Seq(S), s # <<>>
  PROVE  /\ \A i \in 1 .. Len(Tail(s)) : \E j \in 1 .. Len(s) : Tail(s)[i] = s[j]
         /\ Head(s) = s[1] /\ 1 \in 1 .. Len(s)
<1>1. Len(s) \in Nat /\ Len(s) > 0 /\ Len(Tail(s)) = Len(s) - 1
  BY HeadTailProperties
<1>2. \A i \in 1 .. Len(Tail(s)) : i + 1 \in 1 .. Len(s) /\ Tail(s)[i] = s[i + 1]
  BY <1>1, HeadTailProperties
<1> QED
  BY <1>1, <1>2

\* Only a call brings a ticket into play, and only a new process starts with the
\* ids again, when nothing of the old one is left.
LEMMA InPlayStep ==
  ASSUME Typed, [Next]_vars
  PROVE  \/ InPlay' \subseteq InPlay /\ next_id' = next_id
         \/ \E t \in Task : Call(t)
         \/ InPlay' = {}
<1> DEFINE Same == InPlay' \subseteq InPlay /\ next_id' = next_id
<1>0. TypeOK /\ Rest /\ TypeOK'
  BY TypedKept DEF Typed
<1>a. ASSUME UNCHANGED <<back, out>>, requests' \subseteq requests, pending' \subseteq pending,
             \A t \in Task : call'[t] = call[t] \/ call'[t].at = "idle"
      PROVE  InPlay' \subseteq InPlay
  BY <1>a DEF InPlay
<1>b. ASSUME Fresh, out' = <<>>, back' = <<>>, requests' = {}
      PROVE  InPlay' = {}
  <2>1. pending' = {} /\ \A t \in Task : call'[t].at = "idle"
    BY <1>b, IdleType DEF Fresh
  <2>2. Len(out') = 0 /\ Len(back') = 0
    BY <1>b
  <2> QED
    BY <1>b, <2>1, <2>2 DEF InPlay
<1>1. ASSUME NEW t \in Task, Write(t) PROVE Same
  <2>1. call[t].at # "idle" /\ call[t].ticket \in Ticket
    BY <1>0, <1>1 DEF Write, TypeOK
  <2>2. \A s \in Task : call'[s].at # "idle" => call[s].at # "idle" /\ call'[s].ticket = call[s].ticket
    BY <1>0, <1>1 DEF Write, TypeOK, CallState
  <2>3. \A i \in 1 .. Len(out') : out'[i] = call[t].ticket \/ \E j \in 1 .. Len(out) : out'[i] = out[j]
    <3>1. out \in Seq(Ticket) /\ out' = Append(out, call[t].ticket)
      BY <1>0, <1>1 DEF Write, TypeOK
    <3>2. \A i \in 1 .. Len(Append(out, call[t].ticket)) :
            \/ Append(out, call[t].ticket)[i] = call[t].ticket
            \/ \E j \in 1 .. Len(out) : Append(out, call[t].ticket)[i] = out[j]
      BY <2>1, <3>1, OnlyOneLonger
    <3> QED
      BY <3>1, <3>2, Zenon
  <2>4. UNCHANGED <<next_id, pending, back, requests>>
    BY <1>1 DEF Write, outside
  <2> QED
    BY <2>1, <2>2, <2>3, <2>4 DEF InPlay
<1>2. ASSUME NEW t \in Task,
             \/ WriteFails(t) \/ TimedOut(t) \/ Answered(t) \/ Abandon(t)
      PROVE  Same
  <2>1. call' = [call EXCEPT ![t] = Idle] /\ pending' \subseteq pending
    BY <1>2 DEF WriteFails, TimedOut, Answered, Abandon, TakeBack
  <2>2. \A s \in Task : call'[s] = call[s] \/ call'[s].at = "idle"
    BY <1>0, <2>1, IdleType DEF TypeOK
  <2>3. UNCHANGED <<next_id, back, out, requests>>
    BY <1>2 DEF WriteFails, TimedOut, Answered, Abandon, wire, outside
  <2> QED
    BY <1>a, <2>1, <2>2, <2>3
<1>3. CASE Reader
  <2>0. back # <<>> \/ ReaderEnds
    BY <1>3 DEF Reader, ReadAnswer, ReadMessage, ReadOther, CanRead
  <2>1. back' = Tail(back) \/ back' = back
    BY <1>3 DEF Reader, ReadAnswer, ReadMessage, ReadOther, ReaderEnds, wire
  <2>2. \A i \in 1 .. Len(back') : \E j \in 1 .. Len(back) : back'[i] = back[j]
    <3>1. CASE back' = back
      BY <3>1
    <3>2. CASE back' = Tail(back) /\ back # <<>>
      BY <1>0, <3>2, OnlyOneShorter DEF TypeOK
    <3>3. ReaderEnds => back' = back
      BY DEF ReaderEnds, wire
    <3> QED
      BY <2>0, <2>1, <3>1, <3>2, <3>3
  <2>3. \A s \in Task : call'[s].at # "idle" => call[s].at # "idle" /\ call'[s].ticket = call[s].ticket
    <3>1. CASE ReadAnswer
      <4>1. \A s \in Task : \/ call'[s] = call[s]
                            \/ call'[s] = [call[s] EXCEPT !.answer = Head(back).ticket.of]
        BY <3>1 DEF ReadAnswer
      <4> QED
        BY <1>0, <4>1 DEF TypeOK, CallState
    <3>2. CASE ReadMessage \/ ReadOther \/ ReaderEnds
      BY <3>2 DEF ReadMessage, ReadOther, ReaderEnds, bot
    <3> QED
      BY <1>3, <3>1, <3>2 DEF Reader
  <2>4. pending' \subseteq pending /\ UNCHANGED <<next_id, out, requests>>
    BY <1>3 DEF Reader, ReadAnswer, ReadMessage, ReadOther, ReaderEnds, TakeBack, bot, wire, outside
  <2> QED
    BY <2>2, <2>3, <2>4 DEF InPlay
<1>4. CASE Take \/ Done \/ StartFails \/ DaemonStarts
  BY <1>a, <1>4 DEF Take, Done, StartFails, DaemonStarts, bot, wire, outside
<1>5. CASE DialogEnds \/ Killed
  BY <1>b, <1>5 DEF DialogEnds, Killed, End, Closed
<1>6. CASE Start
  BY <1>0, <1>b, <1>6 DEF Start, Rest, outside
<1>7. CASE Forward
  <2>1. \A i \in 1 .. Len(out') : \E j \in 1 .. Len(out) : out'[i] = out[j]
    BY <1>0, <1>7, OnlyOneShorter DEF Forward, TypeOK
  <2>2. \A x \in requests' : x \in requests \/ \E j \in 1 .. Len(out) : x = out[j]
    BY <1>0, <1>7, OnlyOneShorter DEF Forward, TypeOK
  <2>3. UNCHANGED <<bot, back>>
    BY <1>7 DEF Forward
  <2> QED
    BY <2>1, <2>2, <2>3 DEF InPlay, bot
<1>8. CASE ForwardFails \/ SieveDies \/ DaemonDies
  <2>1. out' = out \/ Len(out') = 0
    BY <1>8, NothingTyped DEF ForwardFails, SieveDies, DaemonDies, Closed
  <2>2. requests' \subseteq requests /\ UNCHANGED <<bot, back>>
    BY <1>8 DEF ForwardFails, SieveDies, DaemonDies, outside
  <2> QED
    BY <2>1, <2>2 DEF InPlay, bot
<1>9. ASSUME NEW r \in requests, Answers(r) PROVE Same
  <2>1. Answer(r) \in Line /\ r \in Ticket
    BY <1>0, <1>9 DEF Line, Answer, TypeOK
  <2>2. \A i \in 1 .. Len(back') : back'[i] = Answer(r) \/ \E j \in 1 .. Len(back) : back'[i] = back[j]
    <3>1. back \in Seq(Line) /\ back' = Append(back, Answer(r))
      BY <1>0, <1>9 DEF Answers, TypeOK
    <3>2. \A i \in 1 .. Len(Append(back, Answer(r))) :
            \/ Append(back, Answer(r))[i] = Answer(r)
            \/ \E j \in 1 .. Len(back) : Append(back, Answer(r))[i] = back[j]
      BY <2>1, <3>1, OnlyOneLonger
    <3> QED
      BY <3>1, <3>2, Zenon
  <2>3. \A x : Answer(x) = Answer(r) => x = r
    BY DEF Answer
  <2>4. requests' \subseteq requests /\ UNCHANGED <<bot, out>>
    BY <1>9 DEF Answers
  <2> QED
    BY <1>9, <2>1, <2>2, <2>3, <2>4 DEF InPlay, bot
<1>10. CASE Says \/ Chatter
  <2>1. PICK line \in Line : back' = Append(back, line) /\ line.kind # "answer"
    <3>1. Message(said) \in Line /\ Message(said).kind # "answer"
      BY <1>0 DEF Line, Message, TypeOK
    <3>2. Other \in Line /\ Other.kind # "answer"
      BY DEF Line, Other
    <3> QED
      BY <1>10, <3>1, <3>2, Zenon DEF Says, Chatter
  <2>2. \A x \in Ticket : Answer(x) # line
    BY <2>1 DEF Answer
  <2>3. \A i \in 1 .. Len(back') : back'[i] = line \/ \E j \in 1 .. Len(back) : back'[i] = back[j]
    <3>1. back \in Seq(Line)
      BY <1>0 DEF TypeOK
    <3>2. \A i \in 1 .. Len(Append(back, line)) :
            \/ Append(back, line)[i] = line
            \/ \E j \in 1 .. Len(back) : Append(back, line)[i] = back[j]
      BY <2>1, <3>1, OnlyOneLonger
    <3> QED
      BY <2>1, <3>2, Zenon
  <2>4. UNCHANGED <<bot, out, requests>>
    BY <1>10 DEF Says, Chatter, outside
  <2> QED
    BY <2>2, <2>3, <2>4 DEF InPlay, bot
<1>11. CASE UNCHANGED vars
  BY <1>a, <1>11 DEF vars, bot, wire, outside
<1> HIDE DEF Same
<1> QED
  BY <1>1, <1>2, <1>3, <1>4, <1>5, <1>6, <1>7, <1>8, <1>9, <1>10, <1>11, Zenon
  DEF Next, Calls, Process, Sieve, Daemon, Same

LEMMA NoTwinsKept == Typed /\ NoTwins /\ [Next]_vars => NoTwins'
<1> SUFFICES ASSUME Typed, NoTwins, [Next]_vars PROVE NoTwins'
  OBVIOUS
<1>1. CASE InPlay' \subseteq InPlay /\ next_id' = next_id
  BY <1>1 DEF NoTwins
<1>2. ASSUME NEW t \in Task, Call(t) PROVE NoTwins'
  <2> DEFINE ticket == [id |-> next_id, of |-> made]
  <2>1. next_id \in Nat /\ next_id' = next_id + 1 /\ ticket.id = next_id
    BY <1>2 DEF Call, fetch_add, Typed, TypeOK
  <2>2. \A s \in Task : \/ call'[s] = call[s]
                        \/ s = t /\ call'[s].ticket = ticket
    BY <1>2 DEF Call, Typed, TypeOK
  <2>3. pending' \subseteq pending \cup {ticket} /\ UNCHANGED <<out, back, requests>>
    BY <1>2 DEF Call, Register, wire, outside
  <2> HIDE DEF ticket
  <2>4. InPlay' \subseteq InPlay \cup {ticket}
    BY <2>2, <2>3 DEF InPlay
  <2>5. \A x \in InPlay : x.id \in Nat
    BY DEF InPlay, Ticket
  <2> QED
    BY <2>1, <2>4, <2>5 DEF NoTwins
<1>3. CASE InPlay' = {}
  BY <1>3 DEF NoTwins
<1> QED
  BY <1>1, <1>2, <1>3, InPlayStep

\* A call that has its answer is no longer registered.
Heard ==
  \A t \in Task : call[t].answer # None =>
    /\ call[t].at # "idle"
    /\ call[t].answer = call[t].ticket.of
    /\ \A p \in pending : p.id # call[t].ticket.id

Registered == Typed /\ NoTwins /\ Heard /\ EntriesAreCalls

LEMMA HeardStarts == Init => NoTwins /\ Heard /\ EntriesAreCalls
<1> SUFFICES ASSUME Init PROVE NoTwins /\ Heard /\ EntriesAreCalls
  OBVIOUS
<1>1. \A t \in Task : call[t].at = "idle" /\ call[t].answer = None
  BY IdleType DEF Init
<1>2. InPlay = {}
  BY <1>1, NothingTyped DEF Init, InPlay
<1> QED
  BY <1>1, <1>2 DEF Init, NoTwins, Heard, EntriesAreCalls

\* What an answer finds under its id is its own call, or nothing.
LEMMA HeardKept == Registered /\ [Next]_vars => Heard' /\ EntriesAreCalls'
<1> SUFFICES ASSUME Registered, [Next]_vars PROVE Heard' /\ EntriesAreCalls'
  OBVIOUS
<1> DEFINE Goal == Heard' /\ EntriesAreCalls'
<1>0. /\ TypeOK /\ Rest /\ NoTwins /\ Heard /\ EntriesAreCalls
      /\ call \in [Task -> CallState] /\ pending \subseteq Ticket /\ next_id \in Nat
  BY DEF Registered, Typed, TypeOK
<1>a. ASSUME UNCHANGED <<call, pending, abandoned>> PROVE Goal
  BY <1>0, <1>a DEF Heard, EntriesAreCalls
<1>b. ASSUME Fresh PROVE Goal
  <2>1. pending' = {} /\ \A t \in Task : call'[t].answer = None
    BY <1>b, IdleType DEF Fresh
  <2> QED
    BY <2>1 DEF Heard, EntriesAreCalls
<1>c. \A t \in Task : call[t].at # "idle" => call[t].ticket \in InPlay
  BY <1>0 DEF InPlay, TypeOK
<1>d. pending \subseteq InPlay
  BY <1>0 DEF InPlay
<1>1. ASSUME NEW t \in Task, Call(t) PROVE Goal
  <2> DEFINE ticket == [id |-> next_id, of |-> made]
             c == [at |-> "write", ticket |-> ticket, answer |-> None]
  <2>1. /\ ticket.id = next_id /\ c.at = "write" /\ c.ticket = ticket /\ c.answer = None
        /\ call' = [call EXCEPT ![t] = c] /\ call[t].at = "idle"
        /\ pending' = { p \in pending : p.id # next_id } \cup {ticket}
        /\ abandoned' = abandoned
    BY <1>1 DEF Call, Register, history
  <2> HIDE DEF ticket, c
  <2>2. \A p \in pending : p.id # next_id
    BY <1>0, <1>d DEF NoTwins, Ticket
  <2>3. \A s \in Task : call[s].at # "idle" => call[s].ticket.id # next_id
    BY <1>0, <1>c DEF NoTwins, InPlay, Ticket
  <2>4. Heard'
    BY <1>0, <2>1, <2>3 DEF Heard
  <2>5. EntriesAreCalls'
    BY <1>0, <2>1 DEF EntriesAreCalls
  <2> QED
    BY <2>4, <2>5
<1>2. ASSUME NEW t \in Task, Write(t) PROVE Goal
  <2>1. /\ \A s \in Task : /\ call'[s].ticket = call[s].ticket /\ call'[s].answer = call[s].answer
                           /\ (call'[s].at = "idle" <=> call[s].at = "idle")
        /\ UNCHANGED <<pending, abandoned>>
    BY <1>0, <1>2 DEF Write, CallState, history
  <2> QED
    BY <1>0, <2>1 DEF Heard, EntriesAreCalls
<1>3. ASSUME NEW t \in Task, WriteFails(t) \/ TimedOut(t) PROVE Goal
  <2>1. /\ \A s \in Task : call'[s] = IF s = t THEN Idle ELSE call[s]
        /\ pending' = { p \in pending : p.id # call[t].ticket.id }
        /\ abandoned' = abandoned
    BY <1>0, <1>3 DEF WriteFails, TimedOut, TakeBack, history
  <2>2. Heard'
    BY <1>0, <2>1, IdleType DEF Heard
  <2>3. EntriesAreCalls'
    BY <1>0, <2>1 DEF EntriesAreCalls
  <2> QED
    BY <2>2, <2>3
<1>4. ASSUME NEW t \in Task, Answered(t) PROVE Goal
  <2>1. /\ \A s \in Task : call'[s] = IF s = t THEN Idle ELSE call[s]
        /\ UNCHANGED <<pending, abandoned>>
        /\ call[t].answer # None
    BY <1>0, <1>4 DEF Answered, history
  <2>2. Heard'
    BY <1>0, <2>1, IdleType DEF Heard
  <2>3. \A p \in pending : p # call[t].ticket
    BY <1>0, <2>1 DEF Heard
  <2>4. EntriesAreCalls'
    BY <1>0, <2>1, <2>3 DEF EntriesAreCalls
  <2> QED
    BY <2>2, <2>4
<1>5. ASSUME NEW t \in Task, Abandon(t) PROVE Goal
  <2>1. /\ \A s \in Task : call'[s] = IF s = t THEN Idle ELSE call[s]
        /\ pending' = pending /\ abandoned' = abandoned \cup {call[t].ticket}
    BY <1>0, <1>5 DEF Abandon
  <2>2. Heard'
    BY <1>0, <2>1, IdleType DEF Heard
  <2>3. EntriesAreCalls'
    BY <1>0, <2>1 DEF EntriesAreCalls
  <2> QED
    BY <2>2, <2>3
<1>6. CASE ReadAnswer
  <2> DEFINE ticket == Head(back).ticket
             waiter == { p \in pending : p.id = ticket.id }
             Hit(s) == call[s].at # "idle" /\ call[s].ticket \in waiter
  <2>1. ticket \in InPlay
    <3>1. back \in Seq(Line) /\ back # <<>> /\ Head(back).kind = "answer"
      BY <1>0, <1>6 DEF ReadAnswer, CanRead, TypeOK
    <3>2. Head(back) \in Line /\ Head(back) = back[1] /\ 1 \in 1 .. Len(back)
      BY <3>1, HeadTailProperties, OnlyOneShorter
    <3>3. Head(back) \in [kind : {"answer"}, ticket : Ticket]
      BY <3>1, <3>2 DEF Line, Other
    <3>4. ticket \in Ticket /\ Head(back) = Answer(ticket)
      BY <3>3 DEF Answer
    <3> QED
      BY <3>2, <3>4 DEF InPlay
  <2>2. /\ call' = [s \in Task |-> IF Hit(s) THEN [call[s] EXCEPT !.answer = ticket.of]
                                   ELSE call[s]]
        /\ pending' = { p \in pending : p.id # ticket.id }
        /\ abandoned' = abandoned
    BY <1>6 DEF ReadAnswer, TakeBack, history
  <2>3. \A s \in Task : Hit(s) => call[s].ticket = ticket
    BY <1>0, <1>d, <2>1 DEF NoTwins
  <2>4. \A s \in Task : Hit(s) => call[s].at # "idle"
    OBVIOUS
  <2> HIDE DEF ticket, waiter, Hit
  <2>5. \A s \in Task :
          /\ call'[s].at = call[s].at /\ call'[s].ticket = call[s].ticket
          /\ call'[s].answer = IF Hit(s) THEN ticket.of ELSE call[s].answer
    BY <1>0, <2>2 DEF CallState
  <2>6. Heard'
    BY <1>0, <2>2, <2>3, <2>4, <2>5 DEF Heard
  <2>7. EntriesAreCalls'
    BY <1>0, <2>2, <2>5 DEF EntriesAreCalls
  <2> QED
    BY <2>6, <2>7
<1>7. CASE ReadMessage \/ ReadOther \/ ReaderEnds \/ Take \/ Done \/ StartFails
  BY <1>a, <1>7 DEF ReadMessage, ReadOther, ReaderEnds, Take, Done, StartFails, bot, history
<1>8. CASE DialogEnds \/ Killed \/ Start
  BY <1>b, <1>8 DEF DialogEnds, Killed, Start, End
<1>9. CASE Sieve \/ Daemon
  BY <1>a, <1>9 DEF Sieve, Daemon, Forward, ForwardFails, SieveDies, Answers, Says, Chatter,
     DaemonDies, DaemonStarts, bot, history
<1>10. CASE UNCHANGED vars
  BY <1>a, <1>10 DEF vars, bot, history
<1> HIDE DEF Goal
<1> QED
  BY <1>1, <1>2, <1>3, <1>4, <1>5, <1>6, <1>7, <1>8, <1>9, <1>10, Zenon
  DEF Next, Calls, Reader, Process, Goal

LEMMA Whose == Spec => []Registered
<1>1. Init => Registered
  BY TypedStarts, HeardStarts DEF Registered
<1>2. Registered /\ [Next]_vars => Registered'
  BY TypedKept, NoTwinsKept, HeardKept DEF Registered
<1> QED
  BY <1>1, <1>2, PTL DEF Spec

\* An answer reaches the call it answers and no other (OwnAnswer of Signal;
\* signal/mod.rs call and its reader), however late it comes and whatever timed
\* out, was dropped or was restarted in between: no id in play stands for two
\* calls, because a process starts its ids again only when its socket is gone.
THEOREM AnswerIsOwn == Spec => []OwnAnswer
<1>1. Registered => OwnAnswer
  BY DEF Registered, Heard, OwnAnswer
<1> QED
  BY <1>1, Whose, PTL

\* No way out of a call but a dropped handler leaves its entry behind
\* (EntriesAreCalls of Signal; signal/mod.rs: "every path that does not consume it
\* has to take it back out").
THEOREM EntriesHaveCalls == Spec => []EntriesAreCalls
<1>1. Registered => EntriesAreCalls
  BY DEF Registered
<1> QED
  BY <1>1, Whose, PTL

-----------------------------------------------------------------------------
(* What becomes of a message                                                *)

\* Messages are numbered in the order they were written, and are read, queued and
\* taken in that order.
InOrder ==
  /\ \A i, j \in 1 .. Len(queue) : i < j => queue[i] < queue[j]
  /\ \A i \in 1 .. Len(queue) : queue[i] < said
  /\ \A j \in 1 .. Len(back) : back[j].kind = "message" =>
       /\ back[j].n < said
       /\ \A i \in 1 .. Len(queue) : queue[i] < back[j].n
       /\ \A k \in 1 .. Len(back) : j < k /\ back[k].kind = "message" => back[j].n < back[k].n

Count == read = taken + Len(queue) + dropped

\* A step that touches none of what is counted.
Calm == UNCHANGED <<queue, back, said, read, taken, dropped>>

Accounted == Typed /\ InOrder /\ Count

LEMMA AccountedStarts == Init => Accounted
<1> SUFFICES ASSUME Init PROVE Accounted
  OBVIOUS
<1>1. Typed
  BY TypedStarts
<1>2. Len(queue) = 0 /\ Len(back) = 0
  BY NothingTyped DEF Init
<1>3. InOrder
  BY <1>2 DEF InOrder
<1>4. Count
  BY <1>2 DEF Init, Count
<1> QED
  BY <1>1, <1>3, <1>4 DEF Accounted

LEMMA CalmKeeps == InOrder /\ Count /\ Calm => InOrder' /\ Count'
<1> SUFFICES ASSUME InOrder, Count, Calm PROVE InOrder' /\ Count'
  OBVIOUS
<1>1. queue' = queue /\ back' = back /\ said' = said
  BY DEF Calm
<1>2. InOrder'
  BY <1>1 DEF InOrder
<1>3. Count'
  BY DEF Calm, Count
<1> QED
  BY <1>2, <1>3

LEMMA FreshKeeps == Fresh /\ back' = <<>> => InOrder' /\ Count'
<1> SUFFICES ASSUME Fresh, back' = <<>> PROVE InOrder' /\ Count'
  OBVIOUS
<1>1. Len(queue') = 0 /\ Len(back') = 0
  BY NothingTyped DEF Fresh
<1>2. InOrder'
  BY <1>1 DEF InOrder
<1>3. Count'
  BY <1>1 DEF Fresh, Count
<1> QED
  BY <1>2, <1>3

LEMMA AccountedKept == Accounted /\ [Next]_vars => Accounted'
<1> SUFFICES ASSUME Accounted, [Next]_vars PROVE InOrder' /\ Count'
  BY TypedKept DEF Accounted
<1>0. /\ TypeOK /\ Rest /\ InOrder /\ Count
      /\ queue \in Seq(Nat) /\ Len(queue) \in Nat /\ back \in Seq(Line) /\ Len(back) \in Nat
      /\ said \in Nat /\ read \in Nat /\ taken \in Nat /\ dropped \in Nat
  BY DEF Accounted, Typed, TypeOK
<1>a. Calm => InOrder' /\ Count'
  BY <1>0, CalmKeeps
<1>b. Fresh /\ back' = <<>> => InOrder' /\ Count'
  BY FreshKeeps
<1>1. ASSUME NEW t \in Task, Calls(t) PROVE InOrder' /\ Count'
  <2>1. Calm
    BY <1>1 DEF Calls, Call, Write, WriteFails, Answered, TimedOut, Abandon, wire, history, bounds,
                Calm
  <2> QED
    BY <1>a, <2>1
<1>2. CASE ReadAnswer \/ ReadOther
  <2>1. /\ back # <<>> /\ back' = Tail(back)
        /\ UNCHANGED <<queue, said, read, taken, dropped>>
    BY <1>2 DEF ReadAnswer, ReadOther, CanRead, bot, bounds, history
  <2>2. Len(back') = Len(back) - 1 /\ \A i \in 1 .. Len(back') : back'[i] = back[i + 1]
    BY <1>0, <2>1, HeadTailProperties
  <2>3. InOrder'
    <3>1. \A i \in 1 .. Len(back') : i \in Nat /\ i + 1 \in 1 .. Len(back)
      BY <1>0, <2>2
    <3>2. queue' = queue /\ said' = said
      BY <2>1
    <3> QED
      <4>1. /\ \A i, j \in 1 .. Len(queue') : i < j => queue'[i] < queue'[j]
            /\ \A i \in 1 .. Len(queue') : queue'[i] < said'
        <5>1. /\ \A i, j \in 1 .. Len(queue) : i < j => queue[i] < queue[j]
              /\ \A i \in 1 .. Len(queue) : queue[i] < said
          BY <1>0 DEF InOrder
        <5> QED
          BY <3>2, <5>1
      <4>2. ASSUME NEW j \in 1 .. Len(back'), back'[j].kind = "message"
            PROVE  /\ back'[j].n < said'
                   /\ \A i \in 1 .. Len(queue') : queue'[i] < back'[j].n
                   /\ \A k \in 1 .. Len(back') : j < k /\ back'[k].kind = "message"
                        => back'[j].n < back'[k].n
        <5>1. back'[j] = back[j + 1] /\ j + 1 \in 1 .. Len(back)
          BY <2>2, <3>1
        <5>2. /\ back[j + 1].n < said
              /\ \A i \in 1 .. Len(queue) : queue[i] < back[j + 1].n
              /\ \A k \in 1 .. Len(back) : j + 1 < k /\ back[k].kind = "message"
                   => back[j + 1].n < back[k].n
          BY <1>0, <4>2, <5>1 DEF InOrder
        <5>3. ASSUME NEW k \in 1 .. Len(back'), j < k, back'[k].kind = "message"
              PROVE  back'[j].n < back'[k].n
          <6>1. back'[k] = back[k + 1] /\ k + 1 \in 1 .. Len(back) /\ j + 1 < k + 1
            BY <2>2, <3>1, <5>3
          <6> QED
            BY <5>1, <5>2, <5>3, <6>1
        <5> QED
          BY <3>2, <5>1, <5>2, <5>3
      <4> QED
        BY <4>1, <4>2 DEF InOrder
  <2> QED
    <3>1. Count'
      BY <1>0, <2>1 DEF Count
    <3> QED
      BY <2>3, <3>1
<1>3. CASE ReadMessage
  <2> DEFINE n == Head(back).n
  <2>1. /\ back # <<>> /\ back' = Tail(back) /\ Head(back).kind = "message"
        /\ read' = read + 1 /\ UNCHANGED <<said, taken>>
    BY <1>3 DEF ReadMessage, CanRead, bounds
  <2>2. Len(back') = Len(back) - 1 /\ \A i \in 1 .. Len(back') : back'[i] = back[i + 1]
    BY <1>0, <2>1, HeadTailProperties
  <2>3. Head(back) = back[1] /\ 1 \in 1 .. Len(back) /\ Head(back) \in Line
    BY <1>0, <2>1, OnlyOneShorter, HeadTailProperties
  <2>4. n \in Nat
    <3>1. Head(back) \in [kind : {"message"}, n : Nat]
      BY <2>1, <2>3 DEF Line, Other
    <3> QED
      BY <3>1
  <2>5. n < said /\ \A i \in 1 .. Len(queue) : queue[i] < n
    BY <1>0, <2>1, <2>3 DEF InOrder
  <2>6. \A i \in 1 .. Len(back') : i \in Nat /\ i + 1 \in 1 .. Len(back) /\ 1 < i + 1
    BY <1>0, <2>2
  <2>7. \A i \in 1 .. Len(back') : back'[i].kind = "message" => n < back'[i].n
    BY <1>0, <2>1, <2>2, <2>3, <2>6 DEF InOrder
  <2>8. \/ /\ queue' = Append(queue, n) /\ dropped' = dropped
           /\ Len(queue') = Len(queue) + 1
           /\ \A i \in 1 .. Len(queue) : queue'[i] = queue[i]
           /\ queue'[Len(queue) + 1] = n
        \/ queue' = queue /\ dropped' = dropped + 1
    <3>1. \/ queue' = Append(queue, n) /\ dropped' = dropped
          \/ queue' = queue /\ dropped' = dropped + 1
      BY <1>3 DEF ReadMessage, try_send
    <3> HIDE DEF n
    <3> QED
      BY <1>0, <2>4, <3>1
  <2> HIDE DEF n
  <2>9. Count'
    BY <1>0, <2>1, <2>8 DEF Count
  <2>10. \A i \in 1 .. Len(queue') : 
           /\ i \in Nat
           /\ \/ i \in 1 .. Len(queue) /\ queue'[i] = queue[i]
              \/ i = Len(queue) + 1 /\ queue'[i] = n
    BY <1>0, <2>8
  <2>11. \A i \in 1 .. Len(queue) : queue[i] \in Nat
    BY <1>0
  <2>12. /\ \A i, j \in 1 .. Len(queue') : i < j => queue'[i] < queue'[j]
         /\ \A i \in 1 .. Len(queue') : queue'[i] < said'
    <3>1. \A i, j \in 1 .. Len(queue) : i < j => queue[i] < queue[j]
      BY <1>0 DEF InOrder
    <3>2. \A i \in 1 .. Len(queue) : queue[i] < said
      BY <1>0 DEF InOrder
    <3>3. ASSUME NEW i \in 1 .. Len(queue'), NEW j \in 1 .. Len(queue'), i < j
          PROVE  queue'[i] < queue'[j]
      <4>1. i \in 1 .. Len(queue) /\ queue'[i] = queue[i]
        BY <1>0, <2>10, <3>3
      <4>2. CASE j \in 1 .. Len(queue) /\ queue'[j] = queue[j]
        BY <3>1, <3>3, <4>1, <4>2
      <4>3. CASE queue'[j] = n
        BY <2>5, <4>1, <4>3
      <4> QED
        BY <2>10, <4>2, <4>3
    <3>4. ASSUME NEW i \in 1 .. Len(queue') PROVE queue'[i] < said'
      BY <2>1, <2>5, <2>10, <3>2
    <3> QED
      BY <3>3, <3>4
  <2>13. \A j \in 1 .. Len(back') : back'[j].kind = "message" =>
           /\ back'[j].n < said'
           /\ \A i \in 1 .. Len(queue') : queue'[i] < back'[j].n
           /\ \A k \in 1 .. Len(back') : j < k /\ back'[k].kind = "message"
                => back'[j].n < back'[k].n
    <3> SUFFICES ASSUME NEW j \in 1 .. Len(back'), back'[j].kind = "message"
                 PROVE  /\ back'[j].n < said'
                        /\ \A i \in 1 .. Len(queue') : queue'[i] < back'[j].n
                        /\ \A k \in 1 .. Len(back') : j < k /\ back'[k].kind = "message"
                             => back'[j].n < back'[k].n
      OBVIOUS
    <3>1. back'[j] = back[j + 1] /\ j + 1 \in 1 .. Len(back) /\ j \in Nat
      BY <2>2, <2>6
    <3>2. back'[j].n < said'
      BY <1>0, <2>1, <3>1 DEF InOrder
    <3>3. \A i \in 1 .. Len(queue') : queue'[i] < back'[j].n
      BY <1>0, <2>7, <2>10, <3>1 DEF InOrder
    <3>4. \A k \in 1 .. Len(back') : j < k /\ back'[k].kind = "message" => back'[j].n < back'[k].n
      <4> SUFFICES ASSUME NEW k \in 1 .. Len(back'), j < k, back'[k].kind = "message"
                   PROVE  back'[j].n < back'[k].n
        OBVIOUS
      <4>1. back'[k] = back[k + 1] /\ k + 1 \in 1 .. Len(back) /\ j + 1 < k + 1
        BY <2>2, <2>6, <3>1
      <4>2. back[j + 1].kind = "message" /\ back[k + 1].kind = "message"
        BY <3>1, <4>1
      <4> QED
        BY <1>0, <3>1, <4>1, <4>2 DEF InOrder
    <3> QED
      BY <3>2, <3>3, <3>4
  <2> QED
    BY <2>1, <2>9, <2>12, <2>13 DEF InOrder
<1>4. CASE Take
  <2>1. /\ queue # <<>> /\ queue' = Tail(queue) /\ taken' = taken + 1
        /\ UNCHANGED <<back, said, read, dropped>>
    BY <1>4 DEF Take, wire, bounds
  <2>2. Len(queue') = Len(queue) - 1 /\ \A i \in 1 .. Len(queue') : queue'[i] = queue[i + 1]
    BY <1>0, <2>1, HeadTailProperties
  <2>3. \A i \in 1 .. Len(queue') : i \in Nat /\ i + 1 \in 1 .. Len(queue)
    BY <1>0, <2>2
  <2>4. InOrder'
    BY <1>0, <2>1, <2>2, <2>3 DEF InOrder
  <2>5. Count'
    BY <1>0, <2>1, <2>2 DEF Count
  <2> QED
    BY <2>4, <2>5
<1>5. CASE ReaderEnds \/ Done \/ StartFails
  <2>1. Calm
    BY <1>5 DEF ReaderEnds, Done, StartFails, bot, wire, bounds, history, Calm
  <2> QED
    BY <1>a, <2>1
<1>6. CASE DialogEnds \/ Killed
  <2>1. Fresh /\ back' = <<>>
    BY <1>6 DEF DialogEnds, Killed, End
  <2> QED
    BY <1>b, <2>1
<1>7. CASE Start
  BY <1>0, <1>b, <1>7 DEF Start, Rest
<1>8. CASE Sieve
  <2>1. Calm
    BY <1>8 DEF Sieve, Forward, ForwardFails, SieveDies, Closed, bot, bounds, history, Calm
  <2> QED
    BY <1>a, <2>1
<1>9. CASE DaemonDies \/ DaemonStarts
  <2>1. Calm
    BY <1>9 DEF DaemonDies, DaemonStarts, Closed, bot, wire, bounds, history, Calm
  <2> QED
    BY <1>a, <2>1
<1>10. ASSUME NEW line \in Line, back' = Append(back, line),
              line.kind = "message" => line.n = said /\ said' = said + 1,
              said' \in Nat, said <= said',
              UNCHANGED <<queue, read, taken, dropped>>
       PROVE  InOrder' /\ Count'
  <2>1. /\ Len(back') = Len(back) + 1 /\ back'[Len(back) + 1] = line
        /\ \A i \in 1 .. Len(back) : back'[i] = back[i]
    BY <1>0, <1>10
  <2>2. \A i \in 1 .. Len(back') :
          /\ i \in Nat
          /\ \/ i \in 1 .. Len(back) /\ back'[i] = back[i]
             \/ i = Len(back) + 1 /\ back'[i] = line
    BY <1>0, <2>1
  <2>3. \A i \in 1 .. Len(queue) : queue[i] \in Nat
    BY <1>0
  <2>4. \A i \in 1 .. Len(back) : back[i].kind = "message" => back[i].n \in Nat
    <3> SUFFICES ASSUME NEW i \in 1 .. Len(back), back[i].kind = "message"
                 PROVE  back[i].n \in Nat
      OBVIOUS
    <3>1. back[i] \in Line
      BY <1>0
    <3>2. back[i] \in [kind : {"message"}, n : Nat]
      BY <3>1 DEF Line, Other
    <3> QED
      BY <3>2
  <2>5. InOrder'
    <3>1. \A i \in 1 .. Len(queue) : queue[i] < said
      BY <1>0 DEF InOrder
    <3>2. /\ \A i, j \in 1 .. Len(queue') : i < j => queue'[i] < queue'[j]
          /\ \A i \in 1 .. Len(queue') : queue'[i] < said'
      <4>1. /\ \A i, j \in 1 .. Len(queue') : i < j => queue'[i] < queue'[j]
        BY <1>0, <1>10 DEF InOrder
      <4>2. ASSUME NEW i \in 1 .. Len(queue') PROVE queue'[i] < said'
        BY <1>0, <1>10, <2>3, <3>1
      <4> QED
        BY <4>1, <4>2
    <3>3. ASSUME NEW j \in 1 .. Len(back'), back'[j].kind = "message"
          PROVE  /\ back'[j].n < said'
                 /\ \A i \in 1 .. Len(queue') : queue'[i] < back'[j].n
                 /\ \A k \in 1 .. Len(back') : j < k /\ back'[k].kind = "message"
                      => back'[j].n < back'[k].n
      <4>1. CASE j \in 1 .. Len(back) /\ back'[j] = back[j]
        <5>1. /\ back[j].n < said /\ back[j].n \in Nat
              /\ \A i \in 1 .. Len(queue) : queue[i] < back[j].n
              /\ \A k \in 1 .. Len(back) : j < k /\ back[k].kind = "message"
                   => back[j].n < back[k].n
          BY <1>0, <2>4, <3>3, <4>1 DEF InOrder
        <5>2. ASSUME NEW k \in 1 .. Len(back'), j < k, back'[k].kind = "message"
              PROVE  back'[j].n < back'[k].n
          <6>1. CASE k \in 1 .. Len(back) /\ back'[k] = back[k]
            BY <4>1, <5>1, <5>2, <6>1
          <6>2. CASE back'[k] = line
            BY <1>10, <4>1, <5>1, <5>2, <6>2
          <6> QED
            BY <2>2, <6>1, <6>2
        <5>3. back'[j].n < said'
          BY <1>0, <1>10, <4>1, <5>1
        <5>4. \A i \in 1 .. Len(queue') : queue'[i] < back'[j].n
          BY <1>10, <4>1, <5>1
        <5> QED
          BY <5>2, <5>3, <5>4
      <4>2. CASE j = Len(back) + 1 /\ back'[j] = line
        <5>1. line.n = said /\ said' = said + 1
          BY <1>10, <3>3, <4>2
        <5>2. ~ \E k \in 1 .. Len(back') : j < k
          BY <1>0, <2>1, <4>2
        <5>3. \A i \in 1 .. Len(queue') : queue'[i] < back'[j].n
          BY <1>10, <3>1, <4>2, <5>1
        <5>4. back'[j].n < said'
          BY <1>0, <4>2, <5>1
        <5> QED
          BY <5>2, <5>3, <5>4
      <4> QED
        BY <2>2, <4>1, <4>2
    <3> QED
      BY <3>2, <3>3 DEF InOrder
  <2>6. Count'
    BY <1>0, <1>10 DEF Count
  <2> QED
    BY <2>5, <2>6
<1>11. ASSUME NEW r \in requests, Answers(r) PROVE InOrder' /\ Count'
  <2>1. Answer(r) \in Line /\ Answer(r).kind # "message"
    BY <1>0, <1>11 DEF Answer, Line, TypeOK
  <2>2. /\ back' = Append(back, Answer(r))
        /\ UNCHANGED <<queue, read, taken, dropped, said>>
    BY <1>11 DEF Answers, Room, bot, bounds, history
  <2> QED
    BY <1>0, <1>10, <2>1, <2>2
<1>12. CASE Says
  <2>1. Message(said) \in Line /\ Message(said).n = said
    BY <1>0 DEF Message, Line
  <2>2. /\ back' = Append(back, Message(said)) /\ said' = said + 1
        /\ UNCHANGED <<queue, read, taken, dropped>>
    BY <1>12 DEF Says, Room, bot, history
  <2> QED
    BY <1>0, <1>10, <2>1, <2>2
<1>13. CASE Chatter
  <2>1. Other \in Line /\ Other.kind # "message"
    BY DEF Other, Line
  <2>2. /\ back' = Append(back, Other) /\ said' = said + 1
        /\ UNCHANGED <<queue, read, taken, dropped>>
    BY <1>13 DEF Chatter, Room, bot, history
  <2> QED
    BY <1>0, <1>10, <2>1, <2>2
<1>14. CASE UNCHANGED vars
  <2>1. Calm
    BY <1>14 DEF vars, bot, wire, bounds, history, Calm
  <2> QED
    BY <1>a, <2>1
<1> QED
  BY <1>1, <1>2, <1>3, <1>4, <1>5, <1>6, <1>7, <1>8, <1>9, <1>11, <1>12, <1>13, <1>14, Zenon
  DEF Next, Reader, Process, Daemon

LEMMA AccountedAlways == Spec => []Accounted
  BY AccountedStarts, AccountedKept, PTL DEF Spec

\* Every message that was read is with the dialog, in the queue or counted as
\* dropped, and the dialog gets them in the order they were written
\* (KeptOrCounted of Signal; signal/mod.rs into_incoming, try_send).
THEOREM Kept == Spec => []KeptOrCounted
<1>1. Accounted => KeptOrCounted
  BY DEF Accounted, Count, InOrder, KeptOrCounted
<1> QED
  BY <1>1, AccountedAlways, PTL

-----------------------------------------------------------------------------
(* What a deadline means                                                    *)

\* A reader that has ended has left nothing behind, and nothing more comes.
ReadToTheEnd == ~reader => link = "closed" /\ back = <<>>

LEMMA ReadToTheEndKept == ReadToTheEnd /\ [Next]_vars => ReadToTheEnd'
<1> SUFFICES ASSUME ReadToTheEnd, [Next]_vars PROVE ReadToTheEnd'
  OBVIOUS
<1> USE DEF ReadToTheEnd, bot, wire, outside, bounds, history
<1>1. ASSUME NEW t \in Task, Calls(t) PROVE ReadToTheEnd'
  <2>1. UNCHANGED <<reader, link, back>>
    BY <1>1 DEF Calls, Call, Write, WriteFails, Answered, TimedOut, Abandon
  <2> QED
    BY <2>1
<1>2. CASE Reader
  <2>1. ReadAnswer \/ ReadMessage \/ ReadOther => reader /\ reader' = reader
    BY DEF ReadAnswer, ReadMessage, ReadOther, CanRead
  <2>2. ReaderEnds => UNCHANGED <<link, back>> /\ link = "closed" /\ back = <<>>
    BY DEF ReaderEnds
  <2> QED
    BY <1>2, <2>1, <2>2 DEF Reader
<1>3. CASE Process
  <2>1. Take \/ Done \/ StartFails => UNCHANGED <<reader, link, back>>
    BY DEF Take, Done, StartFails
  <2>2. DialogEnds \/ Killed \/ Start => reader'
    BY DEF DialogEnds, Killed, Start, End, Fresh
  <2> QED
    BY <1>3, <2>1, <2>2 DEF Process
<1>4. CASE Sieve
  <2>1. UNCHANGED <<reader, back>> /\ (link' = link \/ link' = "closed")
    BY <1>4 DEF Sieve, Forward, ForwardFails, SieveDies, Closed
  <2> QED
    BY <2>1
<1>5. CASE Daemon
  <2>1. (\E t \in requests : Answers(t)) \/ Says \/ Chatter => link = "joined" /\ reader' = reader
    BY DEF Answers, Says, Chatter, Room
  <2>2. DaemonDies \/ DaemonStarts =>
          UNCHANGED <<reader, back>> /\ (link = "closed" => link' = "closed")
    BY DEF DaemonDies, DaemonStarts, Closed
  <2> QED
    BY <1>5, <2>1, <2>2 DEF Daemon
<1>6. CASE UNCHANGED vars
  BY <1>6 DEF vars
<1> QED
  BY <1>1, <1>2, <1>3, <1>4, <1>5, <1>6 DEF Next

\* A call that waits for an answer and ends without one has reached its deadline,
\* was dropped, or went with its process.
LEMMA HowACallEnds ==
  ASSUME Typed, [Next]_vars, NEW t \in Task,
         call[t].at = "wait", call[t].answer = None, call'[t] = Idle, process' = "up"
  PROVE  TimedOut(t) \/ Abandon(t)
<1>0. /\ call \in [Task -> CallState] /\ process = "up" /\ call[t] # Idle
      /\ call'[t].at = "idle" /\ call'[t] # call[t]
  BY IdleType DEF Typed, TypeOK, Rest
<1> USE DEF bot, wire, outside, bounds, history
<1>1. ASSUME NEW s \in Task, Calls(s) PROVE TimedOut(t) \/ Abandon(t)
  <2>1. s = t
    <3>1. \E c : call' = [call EXCEPT ![s] = c]
      BY <1>1, Zenon DEF Calls, Call, Write, WriteFails, Answered, TimedOut, Abandon
    <3> QED
      BY <1>0, <3>1
  <2>2. ~Call(t) /\ ~WriteFails(t) /\ ~Answered(t)
    BY DEF Call, WriteFails, Answered
  <2>3. ~Write(t)
    BY DEF Write
  <2> QED
    BY <1>1, <2>1, <2>2, <2>3 DEF Calls
<1>2. CASE Reader
  <2>1. CASE ReadAnswer
    <3>1. PICK hit, of : call'[t] = IF hit THEN [call[t] EXCEPT !.answer = of] ELSE call[t]
      BY <2>1, Zenon DEF ReadAnswer
    <3>2. call'[t].at = call[t].at
      BY <1>0, <3>1 DEF CallState
    <3> QED
      BY <1>0, <3>2
  <2>2. CASE ReadMessage \/ ReadOther \/ ReaderEnds
    BY <1>0, <2>2 DEF ReadMessage, ReadOther, ReaderEnds
  <2> QED
    BY <1>2, <2>1, <2>2 DEF Reader
<1>3. CASE Process
  <2>1. Take \/ Done \/ StartFails => call' = call
    BY DEF Take, Done, StartFails
  <2>2. DialogEnds \/ Killed => process' = "down"
    BY DEF DialogEnds, Killed, End
  <2>3. Start => process = "down"
    BY DEF Start
  <2> QED
    BY <1>0, <1>3, <2>1, <2>2, <2>3 DEF Process
<1>4. CASE Sieve
  BY <1>0, <1>4 DEF Sieve, Forward, ForwardFails, SieveDies
<1>5. CASE Daemon
  BY <1>0, <1>5 DEF Daemon, Answers, Says, Chatter, DaemonDies, DaemonStarts
<1>6. CASE UNCHANGED vars
  BY <1>0, <1>6 DEF vars
<1> QED
  BY <1>1, <1>2, <1>3, <1>4, <1>5, <1>6 DEF Next

\* No call times out while its answer is there to be read (TimeoutMeansNoAnswer of
\* Signal; signal/mod.rs: "A reader waiting on the dialog is a deadlock that only
\* the 30s timeout breaks"): the reader reads on whatever the dialog does, and one
\* that has ended has read everything first.
THEOREM NoAnswerWasThere == Spec => TimeoutMeansNoAnswer
<1>1. ASSUME Typed, ReadToTheEnd, [Next]_vars
      PROVE  \A t \in Task :
               call[t].at = "wait" /\ call[t].answer = None /\ call'[t] = Idle /\ process' = "up"
                 => \/ call[t].ticket \in abandoned'
                    \/ Answer(call[t].ticket) \notin { back[i] : i \in 1 .. Len(back) }
  <2> SUFFICES ASSUME NEW t \in Task, call[t].at = "wait", call[t].answer = None,
                      call'[t] = Idle, process' = "up"
               PROVE  \/ call[t].ticket \in abandoned'
                      \/ Answer(call[t].ticket) \notin { back[i] : i \in 1 .. Len(back) }
    BY <1>1
  <2>1. TimedOut(t) \/ Abandon(t)
    BY <1>1, HowACallEnds
  <2>2. ASSUME TimedOut(t) PROVE { back[i] : i \in 1 .. Len(back) } = {}
    <3>1. process = "up"
      BY <1>1, IdleType DEF Typed, TypeOK, Rest
    <3>2. back = <<>>
      BY <1>1, <2>2, <3>1 DEF TimedOut, CanRead, Takes, ReadToTheEnd
    <3> QED
      BY <3>2, NothingTyped
  <2>3. Abandon(t) => call[t].ticket \in abandoned'
    BY DEF Abandon
  <2> QED
    BY <2>1, <2>2, <2>3
<1>2. Init => ReadToTheEnd
  BY DEF Init, ReadToTheEnd
<1>3. Spec => []ReadToTheEnd
  BY <1>2, ReadToTheEndKept, PTL DEF Spec
<1> QED
  BY <1>1, <1>3, TypedAlways, PTL DEF Spec, TimeoutMeansNoAnswer

-----------------------------------------------------------------------------
(* The sieve's word                                                         *)

\* The sieve is no obstacle to the bot and no end of its calls (sieb.rs check;
\* "The methods the bot calls. Nothing else is forwarded"): what the bot asks for
\* is forwarded; a request that is refused ends its own call at once, with an
\* error under its id, instead of leaving it to its deadline; and a line without
\* an id of its own that is refused ends nobody's call.
THEOREM SieveAnswersTheCaller ==
  ASSUME Absent \notin Text, MAX_LINE \in Nat
  PROVE  /\ \A id \in Text, method \in {"send", "getUserStatus"}, size \in 0 .. MAX_LINE :
              relayed(request(id, method, size)) = "forwarded"
         /\ \A line : relayed(line) = "answered" =>
              parse_line(refuse(line)) =
                IF line.json = "object" /\ line.id \in Text
                THEN [kind |-> "response", id |-> line.id, ok |-> FALSE]
                ELSE [kind |-> "other"]
<1>1. ASSUME NEW id \in Text, NEW method \in {"send", "getUserStatus"}, NEW size \in 0 .. MAX_LINE
      PROVE  relayed(request(id, method, size)) = "forwarded"
  <2> DEFINE line == request(id, method, size)
  <2>1. /\ line.json = "object" /\ line.method = method
        /\ line.bytes = size /\ line.blank = FALSE
    BY DEF request
  <2>2. check(line, ALLOWED)
    BY <2>1 DEF check, ALLOWED
  <2>3. ~ (line.bytes > MAX_LINE)
    BY <2>1
  <2> HIDE DEF line
  <2> QED
    BY <2>1, <2>2, <2>3, Zenon DEF relayed, line
<1>2. ASSUME NEW line
      PROVE  parse_line(refuse(line)) =
               IF line.json = "object" /\ line.id \in Text
               THEN [kind |-> "response", id |-> line.id, ok |-> FALSE]
               ELSE [kind |-> "other"]
  BY DEF parse_line, refuse
<1> QED
  BY <1>1, <1>2
=============================================================================
