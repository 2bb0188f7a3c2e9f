-------------------------------- MODULE Frames --------------------------------
(***************************************************************************)
(* One line between the bot, the sieve and signal-cli: what the sieve lets  *)
(* through (src/signal/sieb.rs, src/bin/signal-sieb.rs) and what the bot     *)
(* reads it as (src/signal/rpc.rs, src/signal/mod.rs).  Signal has the order *)
(* of the lines; this is what each of them is.                              *)
(*                                                                          *)
(* A line is a record of what JSON it is -- `json` is "object", "other" for *)
(* an array or a scalar, "none" for no JSON at all -- of its length, of     *)
(* whether it is blank, and of its fields.  A field that is missing or null *)
(* is Absent, and its value is in Text if it is a string.  MAX_LINE is 2^20.*)
(***************************************************************************)
EXTENDS Naturals

CONSTANTS Text, Absent, MAX_LINE

ALLOWED == {"send", "getUserStatus"}

-----------------------------------------------------------------------------
(* The sieve                                                                *)

\* A single request for an allowed method.
check(line, allowed) == line.json = "object" /\ line.method \in allowed

\* The error the others are answered with, under the id of the request if it has
\* one.
refuse(line) ==
  [ json |-> "object", id |-> IF line.json = "object" THEN line.id ELSE Absent,
    method |-> Absent, error |-> TRUE, envelope |-> Absent ]

\* What becomes of a line the bot writes.
relayed(line) ==
  IF line.bytes > MAX_LINE        THEN "ends"
  ELSE IF line.blank              THEN "skipped"
  ELSE IF check(line, ALLOWED)    THEN "forwarded"
  ELSE "answered"

-----------------------------------------------------------------------------
(* The bot                                                                  *)

\* What it asks for: resolve_username and send.
request(id, method, size) ==
  [ json |-> "object", id |-> id, method |-> method, error |-> FALSE, envelope |-> Absent,
    bytes |-> size, blank |-> FALSE ]

\* An id says answer, whatever else the line says.
parse_line(line) ==
  IF line.json = "none" THEN [kind |-> "unreadable"]
  ELSE IF line.json = "object" /\ line.id \in Text
    THEN [kind |-> "response", id |-> line.id, ok |-> ~line.error]
  ELSE IF line.json = "object" /\ line.method = "receive" /\ line.envelope # Absent
    THEN [kind |-> "notification", envelope |-> line.envelope]
  ELSE [kind |-> "other"]

\* What a person wrote to the bot: no receipt, nothing said in a group, no blank.
into_incoming(envelope) ==
  IF /\ envelope.source # Absent /\ envelope.message # Absent
     /\ ~envelope.group /\ ~envelope.message_blank
    THEN [from |-> envelope.source, text |-> envelope.message]
  ELSE Absent

\* The first account of an answer; signal-cli lists a name nobody has without one.
aci_from_user_status(uuids) ==
  LET known == { i \in DOMAIN uuids : uuids[i] \in Text }
  IN  IF known = {} THEN Absent
      ELSE uuids[CHOOSE i \in known : \A j \in known : i <= j]
=============================================================================
