------------------------------ MODULE MCWebhook ------------------------------
(***************************************************************************)
(* Webhook on a small instance: two deliveries, of the same event or of two,*)
(* about two requests of two people, of whom the second may have no Signal  *)
(* name.  Who made which request and holds which phone to begin with is     *)
(* fixed, up to that, because every other choice only renames them; a       *)
(* request nobody made any more is one that is deleted first.               *)
(***************************************************************************)
EXTENDS Webhook

CONSTANTS r1, r2, u1, u2, p1, p2

Requests == {r1, r2}
Users == {u1, u2}
Phones == {p1, p2}

SmallInit ==
  /\ Init
  /\ owner = [r \in Request |-> IF r = r1 THEN u1 ELSE u2]
  /\ mapping[u1] = p1 /\ mapping[u2] \in {p2, None}

SmallSpec == SmallInit /\ [][Next]_vars /\ Fairness
=============================================================================
