------------------------------- MODULE OpenList -------------------------------
(***************************************************************************)
(* What the watcher may expect when it asks for the open requests           *)
(* (Requests::open_wishes, src/seerr/mod.rs): the abstract specification    *)
(* that OpenWishes implements.                                              *)
(*                                                                          *)
(* While the question is under way, requests come and go.  The answer lists *)
(* nothing that was not open at some time since the question was asked; and *)
(* of what has been open all the time, it leaves out at most one request    *)
(* for each that was removed meanwhile.  So it is complete whenever nothing *)
(* was removed, which is ~MayOmit of Watch.                                 *)
(***************************************************************************)
EXTENDS Naturals, FiniteSets

VARIABLES
  open,      \* the open requests
  asking,    \* is the question under way?
  stayed,    \* open ever since it was asked
  seen,      \* open at some time since
  removed,   \* how many requests were removed since
  answer     \* what it was answered last

vars == <<open, asking, stayed, seen, removed, answer>>

Init ==
  /\ open \subseteq Nat
  /\ asking = FALSE /\ stayed = {} /\ seen = {} /\ removed = 0 /\ answer = {}

\* Requests come, go and become available.
Change ==
  /\ open' \subseteq Nat
  /\ stayed' = IF asking THEN stayed \cap open' ELSE stayed
  /\ seen' = IF asking THEN seen \cup open' ELSE seen
  /\ removed' \in {removed, removed + 1}
  /\ UNCHANGED <<asking, answer>>

Ask ==
  /\ ~asking /\ asking' = TRUE
  /\ stayed' = open /\ seen' = open /\ removed' = 0 /\ answer' = {}
  /\ UNCHANGED open

\* The question is over, with an answer or without one.
Over ==
  /\ asking /\ asking' = FALSE
  /\ stayed' = {} /\ seen' = {} /\ removed' = 0
  /\ UNCHANGED open

Answer ==
  /\ Over
  /\ answer' \subseteq seen
  /\ Cardinality(stayed \ answer') <= removed

NoAnswer == Over /\ UNCHANGED answer

Next == Change \/ Ask \/ Answer \/ NoAnswer

Spec == Init /\ [][Next]_vars
=============================================================================
