-------------------------------- MODULE Webhook --------------------------------
(***************************************************************************)
(* The webhook (src/webhook.rs) and treff's bell (src/bell.rs).             *)
(*                                                                          *)
(* Seerr reports that a request became available, or failed, by one HTTP    *)
(* call, a delivery.  Each delivery has a handler of its own, which asks    *)
(* Seerr who made the request, rings the bell in a task beside it, looks    *)
(* the person up in the mapping and sends one message.  Seerr may deliver   *)
(* the same event more than once and drop a connection at any time; then    *)
(* the handler is dropped where it stands, and the bell rings on.           *)
(*                                                                          *)
(* An action is what happens between two awaits.  The title of the film is  *)
(* wording, and left out; asking for it is not.                             *)
(*                                                                          *)
(* Bound: MaxFaults, how many calls fail, connections or processes end and  *)
(* mappings or requests change in one behaviour.                            *)
(***************************************************************************)
EXTENDS Naturals, FiniteSets

CONSTANTS
  Delivery, Request, User, Phone, None,
  BellConfigured,    \* is there a [treff] section?
  MaxFaults

Event == {"film_available", "film_failed"}

\* What a delivery carries: the event (None: one that is not relayed), the
\* request (None: no id in it) and the display name Seerr put into it, which
\* its owner chose.  Status is the answer when it is turned away before that:
\* 401 without the token, 400 for a body that does not parse.
Payload ==
  [ event : Event \cup {None}, request : Request \cup {None}, claims : User ]

ASSUME WebhookAssumption ==
  /\ None \notin Delivery \cup Request \cup User \cup Phone \cup Event
  /\ None \notin {200, 400, 401}
  /\ BellConfigured \in BOOLEAN /\ MaxFaults \in Nat

VARIABLES
  owner,     \* who made each request, as Seerr says; None: it is gone
  mapping,   \* the phone of each user; None: no Signal name
  job,       \* the handler of each delivery
  status,    \* what Seerr was answered
  ring,      \* the bell task of each delivery
  bells,     \* what treff holds
  faults,
  \* -- history, for the properties only
  owned,     \* who made each request in the first place
  held,      \* the phones each user ever had in the mapping
  said,      \* the messages that went out
  failed,    \* tries of the bell that were answered with an error
  noted,     \* deliveries somebody finds in the log, at the level it is read
             \* with: no request id, nobody to tell, a failed call
  cut,       \* deliveries whose handler was dropped on the way
  killed     \* deliveries that lost a handler or a bell with the process

world   == <<owner, mapping>>
history == <<owned, held, said, failed, noted, cut, killed>>
vars    == <<world, job, status, ring, bells, faults, history>>

-----------------------------------------------------------------------------
NoJob == [at |-> "due", event |-> None, request |-> None, user |-> None, phone |-> None]
NoRing == [at |-> "none", kind |-> None, handle |-> None, source_key |-> None]

Fault == faults > 0 /\ faults' = faults - 1

\* The handler returns.
Answer(d, code) ==
  /\ job' = [job EXCEPT ![d].at = "over"]
  /\ status' = [status EXCEPT ![d] = code]

Note(d) == noted' = noted \cup {d}

Init ==
  /\ owner \in [Request -> User \cup {None}]
  /\ mapping \in [User -> Phone \cup {None}]
  /\ job = [d \in Delivery |-> NoJob]
  /\ status = [d \in Delivery |-> None]
  /\ ring = [d \in Delivery |-> NoRing]
  /\ bells = {} /\ faults = MaxFaults
  /\ owned = owner
  /\ held = [u \in User |-> {mapping[u]} \ {None}]
  /\ said = {} /\ failed = [d \in Delivery |-> 0] /\ noted = {} /\ cut = {} /\ killed = {}

-----------------------------------------------------------------------------
(* handle                                                                   *)

\* Turned away: the token does not match, or the body does not parse.
Refuse(d) ==
  /\ job[d].at = "due" /\ Fault
  /\ \E code \in {401, 400} : Answer(d, code)
  /\ UNCHANGED <<world, ring, bells, history>>

\* An event the bot does not relay is accepted and dropped.  That is logged for
\* debugging only, which the default filter (main.rs, "info") leaves out.
NotRelayed(d) ==
  /\ job[d].at = "due" /\ Fault
  /\ Answer(d, 200)
  /\ UNCHANGED <<world, ring, bells, history>>

\* An event to relay, but about no request: dropped, with a line in the log.
NoRequestId(d) ==
  /\ job[d].at = "due" /\ Fault
  /\ \E event \in Event : job' = [job EXCEPT ![d].at = "over", ![d].event = event]
  /\ status' = [status EXCEPT ![d] = 200] /\ Note(d)
  /\ UNCHANGED <<world, ring, bells, owned, held, said, failed, cut, killed>>

Receive(d) ==
  /\ job[d].at = "due"
  /\ \E p \in Payload :
       /\ p.event # None /\ p.request # None
       /\ job' = [job EXCEPT ![d] =
            [at |-> "requester", event |-> p.event, request |-> p.request, user |-> None,
             phone |-> None]]
  /\ UNCHANGED <<world, status, ring, bells, faults, history>>

\* Mutant: the name in the payload is taken for the account.
AskRequesterOfPayload(d) ==
  /\ job[d].at = "requester"
  /\ \E p \in Payload : job' = [job EXCEPT ![d].at = "title", ![d].user = p.claims]
  /\ UNCHANGED <<world, status, ring, bells, faults, history>>

\* requester_of: the account name, from Seerr and not from the payload.
AskRequester(d) ==
  /\ job[d].at = "requester" /\ owner[job[d].request] # None
  /\ job' = [job EXCEPT ![d].at = "title", ![d].user = owner[job[d].request]]
  /\ UNCHANGED <<world, status, ring, bells, faults, history>>

\* It names nobody, or does not answer.
NoRequester(d) ==
  /\ job[d].at = "requester"
  /\ (owner[job[d].request] = None /\ UNCHANGED faults) \/ Fault
  /\ Answer(d, 200) /\ Note(d)
  /\ UNCHANGED <<world, ring, bells, owned, held, said, failed, cut, killed>>

\* Mutant: one key for every delivery instead of one for every request.
source_key_delivery(d) == d

\* "seerr:<request id>": with the kind, what makes two deliveries one entry.
source_key(d) == job[d].request

\* Mutant: the bell is for those who have a Signal name.
RingLinked(d) ==
  IF BellConfigured /\ mapping[job[d].user] # None
    THEN ring' = [ring EXCEPT ![d] =
           [at |-> "first", kind |-> job[d].event, handle |-> job[d].user,
            source_key |-> source_key(d)]]
    ELSE UNCHANGED ring

\* The bell's own task, started before the person is looked up.
Ring(d) ==
  IF BellConfigured
    THEN ring' = [ring EXCEPT ![d] =
           [at |-> "first", kind |-> job[d].event, handle |-> job[d].user,
            source_key |-> source_key(d)]]
    ELSE UNCHANGED ring

\* Mutant: without a title there is no message.
AskTitleOrNothing(d) ==
  /\ job[d].at = "title"
  /\ Fault /\ Answer(d, 200)
  /\ UNCHANGED <<world, ring, bells, history>>

\* title_of has answered, or failed, which stops nothing.  The lookup is in the
\* same breath.
AskTitle(d) ==
  /\ job[d].at = "title"
  /\ UNCHANGED faults \/ Fault
  /\ Ring(d)
  /\ LET phone == mapping[job[d].user] IN
       IF phone = None
         THEN Answer(d, 200) /\ Note(d)
         ELSE /\ job' = [job EXCEPT ![d].at = "send", ![d].phone = phone]
              /\ UNCHANGED <<status, noted>>
  /\ UNCHANGED <<world, bells, owned, held, said, failed, cut, killed>>

Message(d) ==
  [delivery |-> d, phone |-> job[d].phone, event |-> job[d].event, request |-> job[d].request]

Say(d) == said' = said \cup {Message(d)}

Send(d) ==
  /\ job[d].at = "send"
  /\ Say(d) /\ Answer(d, 200)
  /\ UNCHANGED <<world, ring, bells, faults, owned, held, failed, noted, cut, killed>>

\* Signal answers an error, for a message that went out or for one that did
\* not.  There is no second try, and Seerr is told that all is well.
SendFails(d) ==
  /\ job[d].at = "send" /\ Fault
  /\ Say(d) \/ UNCHANGED said
  /\ Answer(d, 200) /\ Note(d)
  /\ UNCHANGED <<world, ring, bells, owned, held, failed, cut, killed>>

-----------------------------------------------------------------------------
(* TreffBell::ring                                                          *)

\* treff keeps one entry for a kind and a source key, and says 201 or 200.
Taken(d) ==
  LET same == { b \in bells : b.kind = ring[d].kind /\ b.source_key = ring[d].source_key } IN
  bells' = IF same # {} THEN bells
           ELSE bells \cup {[kind |-> ring[d].kind, source_key |-> ring[d].source_key,
                             handle |-> ring[d].handle, request |-> job[d].request]}

Rings(d) ==
  /\ ring[d].at \in {"first", "second"}
  /\ Taken(d)
  /\ ring' = [ring EXCEPT ![d].at = "over"]
  /\ UNCHANGED <<world, job, status, faults, history>>

\* Anything but 200 or 201, or no answer: treff has it, or not.  Two seconds
\* after the first try there is a second one, and no third.
RingFails(d) ==
  /\ ring[d].at \in {"first", "second"} /\ Fault
  /\ Taken(d) \/ UNCHANGED bells
  /\ ring' = [ring EXCEPT ![d].at = IF ring[d].at = "first" THEN "second" ELSE "over"]
  /\ failed' = [failed EXCEPT ![d] = @ + 1]
  /\ UNCHANGED <<world, job, status, owned, held, said, noted, cut, killed>>

-----------------------------------------------------------------------------
(* Around them                                                              *)

Running(d) == job[d].at \in {"requester", "title", "send"}

\* A handler that ends while it waits for Signal may have sent its message.
PerhapsSaid(ended) ==
  \E out \in SUBSET { d \in ended : job[d].at = "send" } :
    said' = said \cup { Message(d) : d \in out }

\* Mutant: the bell is awaited by the handler, and goes with it.
DisconnectTakesBell(d) ==
  /\ Running(d) /\ Fault
  /\ job' = [job EXCEPT ![d].at = "over"] /\ ring' = [ring EXCEPT ![d] = NoRing]
  /\ cut' = cut \cup {d} /\ PerhapsSaid({d})
  /\ UNCHANGED <<world, status, bells, owned, held, failed, noted, killed>>

\* Seerr's connection is gone, and the handler with it.
Disconnect(d) ==
  /\ Running(d) /\ Fault
  /\ job' = [job EXCEPT ![d].at = "over"] /\ cut' = cut \cup {d}
  /\ PerhapsSaid({d})
  /\ UNCHANGED <<world, status, ring, bells, owned, held, failed, noted, killed>>

Crash ==
  /\ Fault
  /\ LET lost == { d \in Delivery : Running(d) \/ ring[d].at \in {"first", "second"} } IN
       /\ lost # {}
       /\ killed' = killed \cup lost /\ PerhapsSaid(lost)
       /\ job' = [d \in Delivery |-> IF Running(d) THEN [job[d] EXCEPT !.at = "over"] ELSE job[d]]
       /\ ring' = [d \in Delivery |->
            IF d \in lost /\ ring[d].at # "none" THEN [ring[d] EXCEPT !.at = "over"] ELSE ring[d]]
  /\ UNCHANGED <<world, status, bells, owned, held, failed, noted, cut>>

\* The reconciler swaps in another mapping.
Remap(u) ==
  /\ Fault
  /\ \E phone \in Phone \cup {None} :
       /\ mapping' = [mapping EXCEPT ![u] = phone]
       /\ held' = [held EXCEPT ![u] = @ \cup ({phone} \ {None})]
  /\ UNCHANGED <<owner, job, status, ring, bells, owned, said, failed, noted, cut, killed>>

Delete(r) ==
  /\ owner[r] # None /\ Fault
  /\ owner' = [owner EXCEPT ![r] = None]
  /\ UNCHANGED <<mapping, job, status, ring, bells, history>>

-----------------------------------------------------------------------------
Handle(d) ==
  \/ Refuse(d) \/ NotRelayed(d) \/ NoRequestId(d) \/ Receive(d)
  \/ AskRequester(d) \/ NoRequester(d) \/ AskTitle(d)
  \/ Send(d) \/ SendFails(d)

Bell(d) == Rings(d) \/ RingFails(d)

Next ==
  \/ \E d \in Delivery : Handle(d) \/ Bell(d) \/ Disconnect(d)
  \/ Crash
  \/ \E u \in User : Remap(u)
  \/ \E r \in Request : Delete(r)

Spec == Init /\ [][Next]_vars

\* Handlers and bell tasks are polled, and every call in them has a deadline.
\* Nobody has to deliver anything.
Fairness == \A d \in Delivery : WF_vars(Running(d) /\ Handle(d)) /\ WF_vars(Bell(d))

LiveSpec == Spec /\ Fairness

-----------------------------------------------------------------------------
(* Properties                                                               *)

JobState ==
  [ at : {"due", "requester", "title", "send", "over"}, event : Event \cup {None},
    request : Request \cup {None}, user : User \cup {None}, phone : Phone \cup {None} ]

RingState ==
  [ at : {"none", "first", "second", "over"}, kind : Event \cup {None},
    handle : User \cup {None}, source_key : Request \cup {None} ]

\* Every variable keeps its type.
TypeOK ==
  /\ owner \in [Request -> User \cup {None}] /\ owned \in [Request -> User \cup {None}]
  /\ mapping \in [User -> Phone \cup {None}]
  /\ job \in [Delivery -> JobState]
  /\ status \in [Delivery -> {None, 200, 400, 401}]
  /\ ring \in [Delivery -> RingState]
  /\ bells \subseteq
       [ kind : Event, source_key : Request, handle : User, request : Request ]
  /\ faults \in Nat /\ held \in [User -> SUBSET Phone]
  /\ said \subseteq [ delivery : Delivery, phone : Phone, event : Event, request : Request ]
  /\ failed \in [Delivery -> Nat] /\ noted \subseteq Delivery
  /\ cut \subseteq Delivery /\ killed \subseteq Delivery

\* A message about a request, and its bell, go to whoever made it and to nobody
\* else, whatever name the payload carries, however often the event is delivered
\* and whatever is remapped or deleted meanwhile (webhook.rs handle, B43).
OwnerHears ==
  /\ \A m \in said : owned[m.request] \in User /\ m.phone \in held[owned[m.request]]
  /\ \A b \in bells : b.handle = owned[b.request]

\* "What makes a webhook that arrives twice one entry in treff": at most one per
\* request and kind of event, also when the answer to the first try was lost.
BellOnce ==
  \A a, b \in bells : a.kind = b.kind /\ a.request = b.request => a = b

\* A delivery of an event the bot relays that was answered with success is out
\* or in the log, at the level the log is kept with: Seerr does not deliver it
\* again, so it may not end in silence.  Only an event that is not relayed does
\* (webhook.rs handle).
OutOrNoted ==
  \A d \in Delivery :
    status[d] = 200 /\ job[d].event # None => d \in noted \/ \E m \in said : m.delivery = d

\* "Somebody who never linked Signal still has a bell": once it is known who made
\* the request the bell starts, with or without a Signal name; and a bell that
\* started rings, unless two tries failed or the process ended, also when the
\* handler beside it is dropped.
BellRings ==
  \A d \in Delivery :
    /\ BellConfigured /\ job[d].at = "title" ~> ring[d].at # "none" \/ d \in cut \cup killed
    /\ ring[d].at = "first" ~>
         \/ \E b \in bells : b.kind = ring[d].kind /\ b.request = job[d].request
         \/ failed[d] = 2 \/ d \in killed
=============================================================================
