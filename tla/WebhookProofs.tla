---------------------------- MODULE WebhookProofs ----------------------------
(***************************************************************************)
(* Who hears of a request, and how often, for any number of deliveries,     *)
(* people and failures; and what every configuration that is accepted       *)
(* guarantees the webhook and the other tasks (Settings).  Of the widths    *)
(* nothing is assumed but that a year in minutes fits an i64.               *)
(***************************************************************************)
EXTENDS Webhook, TLAPS

CONSTANTS U64_MAX, I64_MAX

INSTANCE Settings

\* What the deliveries may find: the owner Seerr still knows is the first one,
\* and the phone a person has is one they had.
WorldSound ==
  /\ \A r \in Request : owner[r] # None => owner[r] = owned[r]
  /\ \A u \in User : mapping[u] # None => mapping[u] \in held[u]

\* How far a handler has come; until it is over it has answered nothing.
JobSound ==
  \A d \in Delivery :
    /\ job[d].at = "due" => job[d].event = None
    /\ job[d].at # "over" => status[d] = None
    /\ job[d].at \in {"requester", "title", "send"} =>
         job[d].event \in Event /\ job[d].request \in Request
    /\ job[d].at \in {"title", "send"} =>
         job[d].user \in User /\ job[d].user = owned[job[d].request]
    /\ job[d].at = "send" => job[d].phone \in Phone /\ job[d].phone \in held[job[d].user]

\* A bell is about the delivery that started it, which never starts again.
RingSound ==
  \A d \in Delivery : ring[d].at # "none" =>
    /\ job[d].at \in {"send", "over"}
    /\ ring[d].kind \in Event
    /\ job[d].request \in Request /\ ring[d].source_key = job[d].request
    /\ ring[d].handle \in User /\ ring[d].handle = owned[job[d].request]

\* What treff holds is one entry for a kind and a key, and the key is the request.
BellSound ==
  /\ \A b \in bells : b.source_key = b.request /\ b.handle = owned[b.request]
  /\ \A a, b \in bells : a.kind = b.kind /\ a.source_key = b.source_key => a = b

MessageSound ==
  \A m \in said : owned[m.request] \in User /\ m.phone \in held[owned[m.request]]

Inv == TypeOK /\ WorldSound /\ JobSound /\ RingSound /\ BellSound /\ MessageSound /\ OutOrNoted

\* Every variable keeps its type.
LEMMA InitTyped == Init => TypeOK
<1> SUFFICES ASSUME Init PROVE TypeOK
  OBVIOUS
<1> USE WebhookAssumption DEF Init, NoJob, NoRing, Event
<1>1. /\ owner \in [Request -> User \cup {None}] /\ owned \in [Request -> User \cup {None}]
      /\ mapping \in [User -> Phone \cup {None}] /\ held \in [User -> SUBSET Phone]
  OBVIOUS
<1>2. /\ job \in [Delivery -> JobState] /\ ring \in [Delivery -> RingState]
      /\ status \in [Delivery -> {None, 200, 400, 401}] /\ failed \in [Delivery -> Nat]
  BY DEF JobState, RingState
<1> QED
  BY <1>1, <1>2 DEF TypeOK

LEMMA Starts == Init => Inv
<1> SUFFICES ASSUME Init PROVE Inv
  OBVIOUS
<1>1. TypeOK
  BY InitTyped
<1>2. WorldSound /\ JobSound /\ RingSound /\ BellSound /\ MessageSound /\ OutOrNoted
  BY WebhookAssumption
  DEF Init, NoJob, NoRing, WorldSound, JobSound, RingSound, BellSound, MessageSound, OutOrNoted
<1> QED
  BY <1>1, <1>2 DEF Inv

\* A handler moves on within its states, and so does a bell.
LEMMA JobMoves ==
  ASSUME NEW f \in [Delivery -> JobState], NEW d \in Delivery,
         NEW at \in {"requester", "title", "send", "over"},
         NEW user \in User \cup {None}, NEW phone \in Phone \cup {None}
  PROVE  /\ [f EXCEPT ![d].at = at] \in [Delivery -> JobState]
         /\ [f EXCEPT ![d].at = at, ![d].user = user] \in [Delivery -> JobState]
         /\ [f EXCEPT ![d].at = at, ![d].phone = phone] \in [Delivery -> JobState]
<1>1. /\ [f[d] EXCEPT !.at = at] \in JobState
      /\ [f[d] EXCEPT !.at = at, !.user = user] \in JobState
      /\ [f[d] EXCEPT !.at = at, !.phone = phone] \in JobState
  BY DEF JobState
<1>2. \A r \in JobState : [f EXCEPT ![d] = r] \in [Delivery -> JobState]
  BY Zenon
<1>3. /\ [f EXCEPT ![d].at = at] = [f EXCEPT ![d] = [f[d] EXCEPT !.at = at]]
      /\ [f EXCEPT ![d].at = at, ![d].user = user]
           = [f EXCEPT ![d] = [f[d] EXCEPT !.at = at, !.user = user]]
      /\ [f EXCEPT ![d].at = at, ![d].phone = phone]
           = [f EXCEPT ![d] = [f[d] EXCEPT !.at = at, !.phone = phone]]
  BY DEF JobState
<1> QED
  BY <1>1, <1>2, <1>3, Zenon

LEMMA RingMoves ==
  ASSUME NEW g \in [Delivery -> RingState], NEW d \in Delivery
  PROVE  /\ [g EXCEPT ![d].at = "over"] \in [Delivery -> RingState]
         /\ [g EXCEPT ![d].at = "second"] \in [Delivery -> RingState]
BY DEF RingState

\* Every step keeps the types.
LEMMA TypeKept == Inv /\ [Next]_vars => TypeOK'
<1> SUFFICES ASSUME Inv, [Next]_vars PROVE TypeOK'
  OBVIOUS
<1> DEFINE Jobs  == [Delivery -> JobState]
           Bells_ == [Delivery -> RingState]
<1>0. TypeOK /\ job \in Jobs /\ ring \in Bells_
  BY DEF Inv, TypeOK
<1>a. /\ None \in User \cup {None} /\ None \in Phone \cup {None}
      /\ "requester" \in {"requester", "title", "send", "over"}
      /\ "title" \in {"requester", "title", "send", "over"}
      /\ "send" \in {"requester", "title", "send", "over"}
      /\ "over" \in {"requester", "title", "send", "over"}
  OBVIOUS
<1>b. ASSUME NEW d \in Delivery, job' = [job EXCEPT ![d].at = "over"] PROVE job' \in Jobs
  BY <1>0, <1>a, <1>b, JobMoves, Zenon
<1>c. ASSUME NEW d \in Delivery, NEW code \in {200, 400, 401},
             status' = [status EXCEPT ![d] = code]
      PROVE  status' \in [Delivery -> {None, 200, 400, 401}]
  BY <1>0, <1>c DEF TypeOK
<1>d. ASSUME NEW d \in Delivery, Answer(d, 200)
      PROVE  status' \in [Delivery -> {None, 200, 400, 401}]
  <2>1. status' = [status EXCEPT ![d] = 200] /\ 200 \in {200, 400, 401}
    BY <1>d DEF Answer
  <2> QED
    BY <1>0, <2>1 DEF TypeOK
<1>1. ASSUME NEW d \in Delivery, Refuse(d) PROVE TypeOK'
  <2>1. job' \in Jobs
    BY <1>b, <1>1, Zenon DEF Refuse, Answer
  <2>2. status' \in [Delivery -> {None, 200, 400, 401}]
    <3>1. PICK code \in {401, 400} : Answer(d, code)
      BY <1>1 DEF Refuse
    <3>2. code \in {200, 400, 401} /\ status' = [status EXCEPT ![d] = code]
      BY <3>1 DEF Answer
    <3> QED
      BY <1>0, <3>2 DEF TypeOK
  <2> QED
    BY <1>0, <1>1, <2>1, <2>2 DEF Refuse, TypeOK, world, history, Fault, Note
<1>2. ASSUME NEW d \in Delivery, NotRelayed(d) PROVE TypeOK'
  <2>1. job' \in Jobs
    BY <1>b, <1>2, Zenon DEF NotRelayed, Answer
  <2>2. status' \in [Delivery -> {None, 200, 400, 401}]
    BY <1>d, <1>2, Zenon DEF NotRelayed
  <2> QED
    BY <1>0, <1>2, <2>1, <2>2 DEF NotRelayed, TypeOK, world, history, Fault
<1>3. ASSUME NEW d \in Delivery, Receive(d) PROVE TypeOK'
  BY <1>0, <1>3 DEF Receive, Payload, JobState, TypeOK, world, history, Fault, Note
<1>4. ASSUME NEW d \in Delivery, AskRequester(d) PROVE TypeOK'
  <2>1. owner[job[d].request] \in User \cup {None}
    <3>1. job[d].request \in Request
      BY <1>4 DEF AskRequester, Inv, JobSound
    <3> QED
      BY <1>0, <3>1 DEF TypeOK
  <2>2. job' \in Jobs
    BY <1>0, <1>a, <1>4, <2>1, JobMoves, Zenon DEF AskRequester
  <2> QED
    BY <1>0, <1>4, <2>2 DEF AskRequester, TypeOK, world, history, Fault, Note
<1>5. ASSUME NEW d \in Delivery, NoRequester(d) PROVE TypeOK'
  <2>1. job' \in Jobs
    BY <1>b, <1>5, Zenon DEF NoRequester, Answer
  <2>2. status' \in [Delivery -> {None, 200, 400, 401}]
    BY <1>d, <1>5, Zenon DEF NoRequester
  <2> QED
    BY <1>0, <1>5, <2>1, <2>2 DEF NoRequester, TypeOK, world, history, Fault, Note
<1>6. ASSUME NEW d \in Delivery, AskTitle(d) PROVE TypeOK'
  <2> DEFINE phone == mapping[job[d].user]
  <2>1. /\ job[d].event \in Event /\ job[d].request \in Request /\ job[d].user \in User
        /\ phone \in Phone \cup {None}
    BY <1>0, <1>6 DEF AskTitle, Inv, JobSound, TypeOK
  <2>2. \/ job' = [job EXCEPT ![d].at = "over"]
        \/ job' = [job EXCEPT ![d].at = "send", ![d].phone = phone]
    BY <1>6, Zenon DEF AskTitle, Answer
  <2>3. job' \in Jobs
    <3>1. CASE job' = [job EXCEPT ![d].at = "over"]
      BY <1>b, <3>1, Zenon
    <3>2. CASE job' = [job EXCEPT ![d].at = "send", ![d].phone = phone]
      <4>1. phone \in Phone \cup {None}
        BY <2>1
      <4> HIDE DEF phone
      <4> QED
        BY <1>0, <1>a, <3>2, <4>1, JobMoves, Zenon
    <3> QED
      BY <2>2, <3>1, <3>2, Zenon
  <2>4. ring' \in Bells_
    <3>1. [at |-> "first", kind |-> job[d].event, handle |-> job[d].user,
           source_key |-> job[d].request] \in RingState
      BY <2>1 DEF RingState
    <3> QED
      BY <1>0, <1>6, <3>1 DEF AskTitle, Ring, source_key
  <2>5. status' = [status EXCEPT ![d] = 200] \/ status' = status
    BY <1>6, Zenon DEF AskTitle, Answer
  <2>6. status' \in [Delivery -> {None, 200, 400, 401}]
    BY <1>0, <1>c, <2>5 DEF TypeOK
  <2>7. noted' \subseteq Delivery
    BY <1>0, <1>6 DEF AskTitle, Note, TypeOK
  <2> QED
    BY <1>0, <1>6, <2>3, <2>4, <2>6, <2>7 DEF AskTitle, TypeOK, world, Fault
<1>7. ASSUME NEW d \in Delivery, Send(d) PROVE TypeOK'
  <2>1. job' \in Jobs
    BY <1>b, <1>7, Zenon DEF Send, Answer
  <2>2. status' \in [Delivery -> {None, 200, 400, 401}]
    BY <1>d, <1>7, Zenon DEF Send
  <2>3. said' \subseteq
          [ delivery : Delivery, phone : Phone, event : Event, request : Request ]
    <3>1. job[d].phone \in Phone /\ job[d].event \in Event /\ job[d].request \in Request
      BY <1>7 DEF Send, Inv, JobSound
    <3> QED
      BY <1>0, <1>7, <3>1 DEF Send, Say, Message, TypeOK
  <2> QED
    BY <1>0, <1>7, <2>1, <2>2, <2>3 DEF Send, TypeOK, world, history, Fault, Note
<1>8. ASSUME NEW d \in Delivery, SendFails(d) PROVE TypeOK'
  <2>1. job' \in Jobs
    BY <1>b, <1>8, Zenon DEF SendFails, Answer
  <2>2. status' \in [Delivery -> {None, 200, 400, 401}]
    BY <1>d, <1>8, Zenon DEF SendFails
  <2>3. said' \subseteq
          [ delivery : Delivery, phone : Phone, event : Event, request : Request ]
    <3>1. job[d].phone \in Phone /\ job[d].event \in Event /\ job[d].request \in Request
      BY <1>8 DEF SendFails, Inv, JobSound
    <3> QED
      BY <1>0, <1>8, <3>1 DEF SendFails, Say, Message, TypeOK
  <2> QED
    BY <1>0, <1>8, <2>1, <2>2, <2>3 DEF SendFails, TypeOK, world, history, Fault, Note
<1>9. ASSUME NEW d \in Delivery, Rings(d) PROVE TypeOK'
  <2>1. ring' \in Bells_
    BY <1>0, <1>9, RingMoves, Zenon DEF Rings
  <2>2. bells' \subseteq [ kind : Event, source_key : Request, handle : User, request : Request ]
    <3>1. /\ ring[d].kind \in Event /\ ring[d].source_key \in Request /\ ring[d].handle \in User
          /\ job[d].request \in Request
      BY <1>9 DEF Rings, Inv, RingSound
    <3> QED
      BY <1>0, <1>9, <3>1 DEF Rings, Taken, TypeOK
  <2> QED
    BY <1>0, <1>9, <2>1, <2>2 DEF Rings, TypeOK, world, history, Fault, Note
<1>10. ASSUME NEW d \in Delivery, RingFails(d) PROVE TypeOK'
  <2>1. \/ ring' = [ring EXCEPT ![d].at = "over"]
        \/ ring' = [ring EXCEPT ![d].at = "second"]
    BY <1>10 DEF RingFails
  <2>2. ring' \in Bells_
    <3>1. CASE ring' = [ring EXCEPT ![d].at = "over"]
      BY <1>0, <3>1, RingMoves, Zenon
    <3>2. CASE ring' = [ring EXCEPT ![d].at = "second"]
      BY <1>0, <3>2, RingMoves, Zenon
    <3> QED
      BY <2>1, <3>1, <3>2, Zenon
  <2>3. bells' \subseteq [ kind : Event, source_key : Request, handle : User, request : Request ]
    <3>1. /\ ring[d].kind \in Event /\ ring[d].source_key \in Request /\ ring[d].handle \in User
          /\ job[d].request \in Request
      BY <1>10 DEF RingFails, Inv, RingSound
    <3> QED
      BY <1>0, <1>10, <3>1 DEF RingFails, Taken, TypeOK
  <2>4. failed' \in [Delivery -> Nat]
    BY <1>0, <1>10 DEF RingFails, TypeOK
  <2> QED
    BY <1>0, <1>10, <2>1, <2>2, <2>3, <2>4 DEF RingFails, TypeOK, world, history, Fault, Note
<1>e. ASSUME NEW ended \in SUBSET Delivery, PerhapsSaid(ended)
      PROVE  said' \subseteq
               [ delivery : Delivery, phone : Phone, event : Event, request : Request ]
  <2>1. \A d \in Delivery : job[d].at = "send" =>
          Message(d) \in [ delivery : Delivery, phone : Phone, event : Event, request : Request ]
    BY DEF Inv, JobSound, Message
  <2>2. PICK out \in SUBSET { d \in ended : job[d].at = "send" } :
          said' = said \cup { Message(d) : d \in out }
    BY <1>e DEF PerhapsSaid
  <2> QED
    BY <1>0, <2>1, <2>2 DEF TypeOK
<1>11. ASSUME NEW d \in Delivery, Disconnect(d) PROVE TypeOK'
  <2>1. job' \in Jobs
    BY <1>b, <1>11, Zenon DEF Disconnect
  <2>2. said' \subseteq
          [ delivery : Delivery, phone : Phone, event : Event, request : Request ]
    BY <1>e, <1>11 DEF Disconnect
  <2> QED
    BY <1>0, <1>11, <2>1, <2>2 DEF Disconnect, TypeOK, world, history, Fault, Note
<1>12. CASE Crash
  <2>1. job' \in Jobs
    <3>1. \A e \in Delivery : [job[e] EXCEPT !.at = "over"] \in JobState
      BY <1>0 DEF JobState
    <3> QED
      BY <1>0, <1>12, <3>1 DEF Crash
  <2>2. ring' \in Bells_
    <3>1. \A e \in Delivery : [ring[e] EXCEPT !.at = "over"] \in RingState
      BY <1>0 DEF RingState
    <3> QED
      BY <1>0, <1>12, <3>1 DEF Crash
  <2>3. said' \subseteq
          [ delivery : Delivery, phone : Phone, event : Event, request : Request ]
    BY <1>e, <1>12 DEF Crash
  <2> QED
    BY <1>0, <1>12, <2>1, <2>2, <2>3 DEF Crash, TypeOK, world, history, Fault, Note
<1>13. ASSUME NEW u \in User, Remap(u) PROVE TypeOK'
  BY <1>0, <1>13 DEF Remap, TypeOK, world, history, Fault, Note
<1>14. ASSUME NEW r \in Request, Delete(r) PROVE TypeOK'
  BY <1>0, <1>14 DEF Delete, TypeOK, world, history, Fault, Note
<1>15. CASE UNCHANGED vars
  BY <1>0, <1>15 DEF vars, TypeOK, world, history
<1>16. ASSUME NEW d \in Delivery, NoRequestId(d) PROVE TypeOK'
  <2>1. PICK event \in Event : job' = [job EXCEPT ![d].at = "over", ![d].event = event]
    BY <1>16 DEF NoRequestId
  <2>2. [job[d] EXCEPT !.at = "over", !.event = event] \in JobState
    BY <1>0 DEF JobState
  <2>3. job' \in Jobs
    BY <1>0, <2>1, <2>2
  <2>4. status' \in [Delivery -> {None, 200, 400, 401}]
    <3>1. status' = [status EXCEPT ![d] = 200]
      BY <1>16, Zenon DEF NoRequestId
    <3> QED
      BY <1>0, <3>1 DEF TypeOK
  <2> QED
    BY <1>0, <1>16, <2>3, <2>4 DEF NoRequestId, TypeOK, world, history, Fault, Note
<1> QED
  BY <1>1, <1>2, <1>3, <1>4, <1>5, <1>6, <1>7, <1>8, <1>9, <1>10, <1>11, <1>12, <1>13, <1>14,
     <1>15, <1>16, Zenon DEF Next, Handle, Bell

\* Every step keeps the invariant.
Sound == WorldSound /\ JobSound /\ RingSound /\ BellSound /\ MessageSound /\ OutOrNoted

LEMMA SoundKept == Inv /\ [Next]_vars => Sound'
<1> SUFFICES ASSUME Inv, [Next]_vars PROVE Sound'
  OBVIOUS
<1> USE WebhookAssumption
<1> USE DEF Inv, Sound, TypeOK, WorldSound, JobSound, RingSound, BellSound, MessageSound,
            OutOrNoted, world, history, Fault, Answer, Note, Event, JobState, RingState
<1>1. ASSUME NEW d \in Delivery, Refuse(d) PROVE Sound'
  BY <1>1 DEF Refuse
<1>2. ASSUME NEW d \in Delivery, NotRelayed(d) PROVE Sound'
  BY <1>2 DEF NotRelayed
<1>3. ASSUME NEW d \in Delivery, Receive(d) PROVE Sound'
  BY <1>3 DEF Receive, Payload
<1>4. ASSUME NEW d \in Delivery, AskRequester(d) PROVE Sound'
  BY <1>4 DEF AskRequester
<1>5. ASSUME NEW d \in Delivery, NoRequester(d) PROVE Sound'
  BY <1>5 DEF NoRequester
<1>6. ASSUME NEW d \in Delivery, AskTitle(d) PROVE Sound'
  <2> DEFINE phone == mapping[job[d].user]
  <2>1. /\ job[d].at = "title" /\ job[d].event \in Event /\ job[d].request \in Request
        /\ job[d].user \in User /\ job[d].user = owned[job[d].request]
        /\ phone # None => phone \in Phone /\ phone \in held[job[d].user]
    BY <1>6 DEF AskTitle
  <2>2. /\ UNCHANGED <<owner, mapping, bells, owned, held, said, failed, cut, killed>>
        /\ faults' \in Nat /\ noted \subseteq noted' /\ noted' \subseteq Delivery
    BY <1>6 DEF AskTitle
  <2>3. job'[d] \in JobState
    BY TypeKept
  <2>4. /\ \A e \in Delivery \ {d} : job'[e] = job[e]
        /\ job'[d].at \in {"send", "over"}
        /\ job'[d].event = job[d].event /\ job'[d].request = job[d].request
        /\ job'[d].user = job[d].user
        /\ job'[d].at = "send" => job'[d].phone = phone /\ phone # None
    BY <1>6, <2>1 DEF AskTitle
  <2>5. /\ \A e \in Delivery \ {d} : status'[e] = status[e]
        /\ job'[d].at = "send" => status'[d] = None
    BY <1>6, <2>1 DEF AskTitle
  <2>6. \E r \in RingState :
          /\ ring' = [ring EXCEPT ![d] = r]
          /\ r.at # "none" =>
               /\ r.kind = job[d].event /\ r.source_key = job[d].request
               /\ r.handle = job[d].user
    <3>1. CASE BellConfigured
      <4> DEFINE r == [at |-> "first", kind |-> job[d].event, handle |-> job[d].user,
                       source_key |-> job[d].request]
      <4>1. r \in RingState
        BY <2>1
      <4>2. ring' = [ring EXCEPT ![d] = r]
        BY <1>6, <3>1 DEF AskTitle, Ring, source_key
      <4> WITNESS r \in RingState
      <4> QED
        BY <4>2
    <3>2. CASE ~BellConfigured
      <4>1. ring' = [ring EXCEPT ![d] = ring[d]] /\ ring[d] \in RingState /\ ring[d].at = "none"
        BY <1>6, <2>1, <3>2 DEF AskTitle, Ring
      <4> QED
        BY <4>1
    <3> QED
      BY <3>1, <3>2
  <2>7. PICK r \in RingState :
          /\ ring' = [ring EXCEPT ![d] = r]
          /\ r.at # "none" =>
               /\ r.kind = job[d].event /\ r.source_key = job[d].request
               /\ r.handle = job[d].user
    BY <2>6
  <2>8. \A e \in Delivery : status'[e] = 200 => status[e] = 200 \/ (e = d /\ d \in noted')
    BY <1>6 DEF AskTitle
  <2>9. WorldSound' /\ BellSound' /\ MessageSound' /\ OutOrNoted'
    BY <2>2, <2>4, <2>8
  <2>10. JobSound'
    BY <2>1, <2>2, <2>4, <2>5
  <2>11. RingSound'
    BY <2>1, <2>2, <2>4, <2>7
  <2> QED
    BY <2>9, <2>10, <2>11
<1>7. ASSUME NEW d \in Delivery, Send(d) PROVE Sound'
  <2>1. WorldSound' /\ JobSound' /\ RingSound' /\ BellSound' /\ MessageSound'
    BY <1>7 DEF Send, Say, Message
  <2>2. OutOrNoted'
    <3> DEFINE m == [delivery |-> d, phone |-> job[d].phone, event |-> job[d].event,
                     request |-> job[d].request]
    <3>1. m \in said' /\ m.delivery = d
      BY <1>7 DEF Send, Say, Message
    <3>2. \A e \in Delivery \ {d} : status'[e] = status[e] /\ job'[e] = job[e]
      BY <1>7 DEF Send
    <3>3. said \subseteq said' /\ noted' = noted
      BY <1>7 DEF Send, Say, Message
    <3> HIDE DEF m
    <3> QED
      BY <3>1, <3>2, <3>3
  <2> QED
    BY <2>1, <2>2
<1>8. ASSUME NEW d \in Delivery, SendFails(d) PROVE Sound'
  BY <1>8 DEF SendFails, Say, Message
<1>9. ASSUME NEW d \in Delivery, Rings(d) PROVE Sound'
  BY <1>9 DEF Rings, Taken
<1>10. ASSUME NEW d \in Delivery, RingFails(d) PROVE Sound'
  BY <1>10 DEF RingFails, Taken
<1>11. ASSUME NEW d \in Delivery, Disconnect(d) PROVE Sound'
  <2>1. said \subseteq said' /\ MessageSound'
    BY <1>11 DEF Disconnect, PerhapsSaid, Message
  <2>2. WorldSound' /\ JobSound' /\ RingSound' /\ BellSound'
    BY <1>11 DEF Disconnect, Running
  <2>3. OutOrNoted'
    BY <1>11, <2>1 DEF Disconnect, Running
  <2> QED
    BY <2>1, <2>2, <2>3
<1>12. CASE Crash
  <2>1. said \subseteq said' /\ MessageSound'
    BY <1>12 DEF Crash, PerhapsSaid, Message
  <2>2. WorldSound' /\ JobSound' /\ RingSound' /\ BellSound'
    BY <1>12 DEF Crash, Running
  <2>3. OutOrNoted'
    BY <1>12, <2>1 DEF Crash, Running
  <2> QED
    BY <2>1, <2>2, <2>3
<1>13. ASSUME NEW u \in User, Remap(u) PROVE Sound'
  BY <1>13 DEF Remap
<1>14. ASSUME NEW r \in Request, Delete(r) PROVE Sound'
  BY <1>14 DEF Delete
<1>15. CASE UNCHANGED vars
  BY <1>15 DEF vars
<1>16. ASSUME NEW d \in Delivery, NoRequestId(d) PROVE Sound'
  <2>1. PICK event \in Event : job' = [job EXCEPT ![d].at = "over", ![d].event = event]
    BY <1>16 DEF NoRequestId
  <2>2. /\ \A e \in Delivery \ {d} : job'[e] = job[e] /\ status'[e] = status[e]
        /\ job[d].at = "due" /\ job'[d].at = "over" /\ d \in noted' /\ noted \subseteq noted'
        /\ UNCHANGED <<owner, mapping, ring, bells, owned, held, said>>
    BY <1>16, <2>1 DEF NoRequestId
  <2>3. WorldSound' /\ BellSound' /\ MessageSound'
    BY <2>2
  <2>4. JobSound'
    BY <2>2
  <2>5. RingSound'
    BY <2>2
  <2>6. OutOrNoted'
    BY <2>2
  <2> QED
    BY <2>3, <2>4, <2>5, <2>6
<1> HIDE DEF Inv, Sound, TypeOK, WorldSound, JobSound, RingSound, BellSound, MessageSound,
             OutOrNoted, world, history, Fault, Answer, Note, Event, JobState, RingState
<1> QED
  BY <1>1, <1>2, <1>3, <1>4, <1>5, <1>6, <1>7, <1>8, <1>9, <1>10, <1>11, <1>12, <1>13, <1>14,
     <1>15, <1>16, Zenon DEF Next, Handle, Bell

LEMMA Invariant == Spec => []Inv
<1>1. Inv /\ [Next]_vars => Inv'
  BY TypeKept, SoundKept, Zenon DEF Inv, Sound
<1> QED
  BY <1>1, Starts, PTL DEF Spec

\* Messages and bells go to whoever made the request (OwnerHears of Webhook;
\* webhook.rs handle): from the account Seerr names, the phone the mapping had for
\* it, and the handle of its bell, none of which the payload touches.
THEOREM ToldTheOwner == Spec => []OwnerHears
<1>1. Inv => OwnerHears
  BY DEF Inv, OwnerHears, MessageSound, BellSound
<1> QED
  BY <1>1, Invariant, PTL

\* However often a delivery arrives and a try of the bell is repeated, treff holds
\* one entry (BellOnce of Webhook; bell.rs source_key): the key is the request.
THEOREM OneBell == Spec => []BellOnce
<1>1. Inv => BellOnce
  BY DEF Inv, BellOnce, BellSound
<1> QED
  BY <1>1, Invariant, PTL

\* No event the bot relays was answered with success and vanished (OutOrNoted of
\* Webhook; webhook.rs handle, which answers 200 on every path that is not a
\* refusal, and logs what stopped it on every one but for events it ignores).
THEOREM NoSilentSuccess == Spec => []OutOrNoted
  BY Invariant, PTL DEF Inv

\* Type correctness of the webhook and the bell.
THEOREM Typed == Spec => []TypeOK
  BY Invariant, PTL DEF Inv

-----------------------------------------------------------------------------
(* The configuration                                                        *)

Year == MAX_STALL_AFTER_HOURS

Widths == U64_MAX \in Nat /\ I64_MAX \in Nat /\ Year * 60 <= I64_MAX

\* The absent value is no number and no record of settings.
AbsentIsAbsent == None \notin Int /\ None \notin WatchSettings

\* The counts of [insight], as the file may give them.
Counts(insight) ==
  /\ insight.stall_after_hours \in U64
  /\ insight.retry_failed_after_minutes \in U64
  /\ insight.refresh_reason_after_days \in U64
  /\ insight.max_reason_searches_per_day \in Nat

\* A count is taken as it is or refused.
LEMMA AtMostType ==
  ASSUME NEW count \in Nat, NEW bound \in Nat, I64_MAX \in Nat, bound <= I64_MAX,
         None \notin Int
  PROVE  /\ (at_most(count, bound) = None) <=> count > bound
         /\ at_most(count, bound) # None => at_most(count, bound) = count
BY DEF at_most

\* No count of a configuration file becomes a negative span, one that overflows,
\* or the span of another count (main.rs watch_settings: "`as i64` would wrap a
\* large one into a negative deadline"): a count above a year ends the start; what
\* is accepted is the number in the file, and zero switches a retry or a refresh
\* off.
THEOREM SettingsNeverWrap ==
  ASSUME NEW insight, Counts(insight), Widths, AbsentIsAbsent
  PROVE  LET s == watch_settings(insight) IN
         /\ (s = None) <=> \/ insight.stall_after_hours > Year
                           \/ insight.retry_failed_after_minutes > Year * 60
                           \/ insight.refresh_reason_after_days > Year \div 24
         /\ s # None =>
              /\ s \in WatchSettings
              /\ s.stall_after = insight.stall_after_hours /\ s.stall_after <= Year
              /\ s.retry_failed_after =
                   IF insight.retry_failed_after_minutes = 0 THEN None
                   ELSE insight.retry_failed_after_minutes
              /\ s.refresh_reason_after =
                   IF insight.refresh_reason_after_days = 0 THEN None
                   ELSE insight.refresh_reason_after_days
<1> DEFINE hours == insight.stall_after_hours
           minutes == insight.retry_failed_after_minutes
           days == insight.refresh_reason_after_days
           h == at_most(hours, MAX_STALL_AFTER_HOURS)
           m == at_most(minutes, MAX_STALL_AFTER_HOURS * 60)
           d == at_most(days, MAX_STALL_AFTER_HOURS \div 24)
           s == watch_settings(insight)
<1>1. /\ Year \in Nat /\ Year * 60 \in Nat /\ Year \div 24 \in Nat
      /\ Year <= Year * 60 /\ Year \div 24 <= Year * 60
  BY DEF Year, MAX_STALL_AFTER_HOURS
<1>2. hours \in Nat /\ minutes \in Nat /\ days \in Nat
  BY DEF Counts, U64, Widths
<1>3. Year <= I64_MAX /\ Year * 60 <= I64_MAX /\ Year \div 24 <= I64_MAX /\ I64_MAX \in Nat
  <2> DEFINE y == Year * 60  z == Year \div 24
  <2>1. y \in Nat /\ z \in Nat /\ Year \in Nat /\ Year <= y /\ z <= y /\ y <= I64_MAX
        /\ I64_MAX \in Nat
    BY <1>1 DEF Widths
  <2> HIDE DEF y, z
  <2>2. Year <= I64_MAX /\ y <= I64_MAX /\ z <= I64_MAX /\ I64_MAX \in Nat
    BY <2>1
  <2> QED
    BY <2>2 DEF y, z
<1>4. /\ h = None <=> hours > Year
      /\ m = None <=> minutes > Year * 60
      /\ d = None <=> days > Year \div 24
      /\ h # None => h = hours
      /\ m # None => m = minutes
      /\ d # None => d = days
  BY <1>1, <1>2, <1>3, AtMostType, Zenon DEF Year, AbsentIsAbsent
<1>5. ASSUME None \notin {h, m, d}
      PROVE  /\ s \in WatchSettings
             /\ s.stall_after = hours
             /\ s.retry_failed_after = unless_zero(minutes)
             /\ s.refresh_reason_after = unless_zero(days)
  <2>1. s = [ stall_after |-> hours,
              max_searches_per_day |-> insight.max_reason_searches_per_day,
              retry_failed_after |-> unless_zero(minutes),
              refresh_reason_after |-> unless_zero(days) ]
    BY <1>4, <1>5, Zenon DEF watch_settings
  <2>2. unless_zero(minutes) \in Nat \cup {None} /\ unless_zero(days) \in Nat \cup {None}
    BY <1>2 DEF unless_zero
  <2> HIDE DEF s, hours, minutes, days
  <2> QED
    BY <1>2, <2>1, <2>2 DEF WatchSettings, Counts
<1>6. None \in {h, m, d} => s = None
  BY DEF watch_settings
<1>7. (s = None) <=> None \in {h, m, d}
  BY <1>5, <1>6 DEF AbsentIsAbsent
<1>8. (s = None) <=> hours > Year \/ minutes > Year * 60 \/ days > Year \div 24
  BY <1>4, <1>7, Zenon
<1>9. ASSUME s # None
      PROVE  /\ s \in WatchSettings /\ s.stall_after = hours /\ hours <= Year
             /\ s.retry_failed_after = IF minutes = 0 THEN None ELSE minutes
             /\ s.refresh_reason_after = IF days = 0 THEN None ELSE days
  <2>1. hours <= Year
    BY <1>1, <1>2, <1>8, <1>9
  <2>2. /\ unless_zero(minutes) = IF minutes = 0 THEN None ELSE minutes
        /\ unless_zero(days) = IF days = 0 THEN None ELSE days
    BY <1>2 DEF unless_zero
  <2> QED
    BY <1>5, <1>7, <1>9, <2>1, <2>2, Zenon
<1> HIDE DEF s
<1> QED
  BY <1>8, <1>9, Zenon DEF s

\* A start that gets as far as its tasks has everything the tasks need
\* (config.rs Config::load, Secrets::read; main.rs insight_parts, "either both are
\* here or neither is"): Sonarr is served exactly if the file names it, and with
\* its own key; a watcher has settings and a record it can read; without an
\* [insight] section nothing ever asks Radarr or Sonarr; and every client of a
\* door with a ca_file trusts the certificates in that file and nothing else, and
\* the door is https.
THEOREM StartIsComplete ==
  ASSUME NEW cfg, NEW fs, starts(cfg, fs), NEW readable \in BOOLEAN,
         \A a, b : None # <<a, b>>
  PROVE  LET parts == insight_parts(cfg, readable) IN
         /\ cfg.insight = None => parts.insight = None
         /\ cfg.insight # None =>
              /\ parts.insight.radarr = <<cfg.insight.radarr_url, cfg.insight.radarr_key_file>>
              /\ parts.insight.sonarr = None <=> cfg.insight.sonarr_url = None
              /\ parts.insight.sonarr # None =>
                   parts.insight.sonarr = <<cfg.insight.sonarr_url, cfg.insight.sonarr_key_file>>
         /\ parts.watcher # None =>
              readable /\ cfg.insight # None /\ parts.watcher.settings # None
         /\ \A door \in Doors(cfg) : door.ca_file # None =>
              /\ door.url.scheme = "https"
              /\ client_trusts(door.ca_file, fs.in_file, fs.system) = fs.in_file[door.ca_file]
              /\ fs.in_file[door.ca_file] # {}
<1> DEFINE parts == insight_parts(cfg, readable)
           sonarr == zip(cfg.insight.sonarr_url, cfg.insight.sonarr_key_file)
<1>1. ASSUME cfg.insight = None
      PROVE  parts.insight = None /\ parts.watcher = None
  <2>1. parts.insight = None /\ parts.watcher = None
    BY <1>1 DEF insight_parts
  <2> QED
    BY <2>1
<1>2. ASSUME cfg.insight # None
      PROVE  /\ parts.insight.radarr = <<cfg.insight.radarr_url, cfg.insight.radarr_key_file>>
             /\ parts.insight.sonarr = None <=> cfg.insight.sonarr_url = None
             /\ parts.insight.sonarr # None =>
                  parts.insight.sonarr = <<cfg.insight.sonarr_url, cfg.insight.sonarr_key_file>>
             /\ parts.watcher # None => readable /\ parts.watcher.settings # None
  <2>1. /\ parts.insight.radarr = <<cfg.insight.radarr_url, cfg.insight.radarr_key_file>>
        /\ parts.insight.sonarr = sonarr
    BY <1>2 DEF insight_parts, radarr_key, sonarr_key
  <2>2. cfg.insight.sonarr_url = None <=> cfg.insight.sonarr_key_file = None
    BY <1>2 DEF starts, load_accepts, validate_insight
  <2>3. /\ sonarr = None <=> cfg.insight.sonarr_url = None
        /\ sonarr # None => sonarr = <<cfg.insight.sonarr_url, cfg.insight.sonarr_key_file>>
    BY <2>2, Zenon DEF zip
  <2>4. parts.watcher # None => readable /\ parts.watcher.settings = watch_settings(cfg.insight)
    BY <1>2 DEF insight_parts
  <2>5. watch_settings(cfg.insight) # None
    BY <1>2 DEF starts
  <2> HIDE DEF parts, sonarr
  <2> QED
    BY <2>1, <2>3, <2>4, <2>5, Zenon
<1>3. ASSUME NEW door \in Doors(cfg), door.ca_file # None
      PROVE  /\ door.url.scheme = "https"
             /\ client_trusts(door.ca_file, fs.in_file, fs.system) = fs.in_file[door.ca_file]
             /\ fs.in_file[door.ca_file] # {}
  <2>1. /\ ca_file_fits(door.ca_file, door.url)
        /\ client_trusts(door.ca_file, fs.in_file, fs.system) # {}
    BY Zenon DEF starts, load_accepts
  <2> QED
    BY <1>3, <2>1, Zenon DEF ca_file_fits, client_trusts
<1> HIDE DEF parts
<1>4. \A door \in Doors(cfg) : door.ca_file # None =>
        /\ door.url.scheme = "https"
        /\ client_trusts(door.ca_file, fs.in_file, fs.system) = fs.in_file[door.ca_file]
        /\ fs.in_file[door.ca_file] # {}
  BY <1>3, Zenon
<1> QED
  BY <1>1, <1>2, <1>4, Zenon DEF parts
=============================================================================
