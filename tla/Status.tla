-------------------------------- MODULE Status --------------------------------
(***************************************************************************)
(* What /status says of a wish (src/dialog/mod.rs: status, queues,          *)
(* state_text_for, seerr_alone_text), out of what the calls it makes        *)
(* answered.  The calls change nothing, so the answer is a function of      *)
(* them; the dialog around it is Dialog (AskStatus).                        *)
(*                                                                          *)
(* A wish is a record of kind, request_status, media_status, arr_id,        *)
(* created_at and downloading (Seerr's own account of a download).          *)
(*                                                                          *)
(* `told` is what the calls answered: `queue` and `history` are sequences   *)
(* of records, `about` the film or series, and each is None if its call     *)
(* failed or its service is not configured.                                 *)
(***************************************************************************)
EXTENDS Arr

CONSTANT STILL_NEWS      \* how long what has arrived is repeated

\* How many requests of a person one call lists, and there is no second one.
PENDING == 50

\* A request Seerr lists, if it has every field that is needed.
wish_from(entry) == IF entry.media = None \/ entry.created_at = None THEN None ELSE entry

\* The person's own requests, newest first, as far as one call lists them.
pending(entries) ==
  { i \in DOMAIN entries : i <= PENDING /\ wish_from(entries[i]) # None }

is_shown(wish, now) ==
  wish.media_status # AVAILABLE \/ wish.created_at > now - STILL_NEWS

\* Whether anything Radarr or Sonarr could say would change the answer.
needs_evidence(wish) ==
  /\ wish.media_status # AVAILABLE
  /\ wish.request_status \notin {DECLINED, FAILED}
  /\ wish.arr_id # None

\* The queues that are read for a list of wishes, once each.
queues(shown) == { wish.kind : wish \in { w \in shown : needs_evidence(w) } }

\* What Seerr alone can say.
seerr_alone_text(wish) ==
  IF wish.media_status = AVAILABLE       THEN "Available"
  ELSE IF wish.request_status = DECLINED THEN "Declined"
  ELSE IF wish.request_status = FAILED   THEN "NotHandedOver"
  ELSE IF wish.downloading               THEN "Downloading"
  ELSE IF wish.media_status = PARTLY     THEN "PartlyAvailable"
  ELSE "Waiting"

\* The film or series is asked about only when the queue says nothing, and its
\* history only after that.
Unanswered(told) == told.about = None \/ told.history = None

\* A film's evidence is Radarr's word, a series' its episodes.
Gathered(wish, told, reason, wished, now) ==
  [ movie |-> IF wish.kind = "movie" THEN movie(told.about) ELSE None,
    series |-> IF wish.kind = "tv" THEN series_facts(series(told.about), wished, now) ELSE None,
    queue_item |-> None, last_event |-> last_event(told.history), known_reason |-> reason ]

state_text_for(wish, insight, told, reason, wished, now) ==
  IF ~needs_evidence(wish) \/ ~insight \/ told.queue = None
    THEN seerr_alone_text(wish)
  ELSE IF QueueItem(told.queue, wish.arr_id) # None
    THEN classify(wish, [NoEvidence EXCEPT !.queue_item = QueueItem(told.queue, wish.arr_id)])
  ELSE IF Unanswered(told)
    THEN seerr_alone_text(wish)
  ELSE classify(wish, Gathered(wish, told, reason, wished, now))

\* Whether the film just placed is not out yet: every call that fails on the way
\* answers no.
not_released_yet(insight, arr_id, about) ==
  insight /\ arr_id # None /\ about # None /\ movie(about) = "unavailable"
=============================================================================
