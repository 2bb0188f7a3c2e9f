------------------------------ MODULE Limiter ------------------------------
(* The token bucket in front of the dialog (src/src/dialog/limit.rs): how     *)
(* many messages of one member are read in any stretch of time.              *)
(*                                                                           *)
(* The unit of tokens is what comes back in one tick of the clock, so that a *)
(* message costs Cost of them: at ten messages a minute and a tick of a      *)
(* second, Cost is six. What is left of a token between two messages is kept *)
(* to the tick, where the code keeps it as a fraction.                       *)
EXTENDS Integers, Sequences

CONSTANTS
  Person,    \* the Signal accounts that write
  Burst,     \* BURST: messages that may come in one go
  Cost       \* ticks until a message is paid for: 60 / PER_MINUTE seconds

ASSUME LimiterAssumption == Burst \in Nat \ {0} /\ Cost \in Nat \ {0}

VARIABLES
  now,       \* the clock
  buckets,   \* Person -> its bucket
  passed     \* history: when each message that was let through came, per Person

limiterVars == <<now, buckets, passed>>

Full == Burst * Cost

Bucket == [tokens : 0..Full, at : Nat, told : BOOLEAN]

Verdict == {"Pass", "SlowDown", "Silent"}

-----------------------------------------------------------------------------
\* Mutant: the clock is set before what has come back is counted.
RefilledNever(b) == b.tokens

\* The tokens of b now, with what has come back since it was looked at.
Refilled(b) ==
  LET sum == b.tokens + (now - b.at)
  IN  IF sum > Full THEN Full ELSE sum

verdict(b) ==
  IF Refilled(b) >= Cost THEN "Pass" ELSE IF ~b.told THEN "SlowDown" ELSE "Silent"

\* A refused message costs nothing, and the next one let through makes the
\* bucket forget that it has asked to slow down.
admit(b) ==
  [tokens |-> Refilled(b) - (IF verdict(b) = "Pass" THEN Cost ELSE 0),
   at     |-> now,
   told   |-> verdict(b) # "Pass"]

\* A member nobody has heard of yet has a full bucket, which is what `entry`
\* puts there with the first message.
LimiterInit ==
  /\ now = 0
  /\ buckets = [p \in Person |-> [tokens |-> Full, at |-> 0, told |-> FALSE]]
  /\ passed = [p \in Person |-> <<>>]

\* A message of p is weighed, with the verdict v.
Admit(p, v) ==
  /\ v = verdict(buckets[p])
  /\ buckets' = [buckets EXCEPT ![p] = admit(@)]
  /\ passed' = IF v = "Pass" THEN [passed EXCEPT ![p] = Append(@, now)] ELSE passed
  /\ now' = now

ClockTicks ==
  /\ now' = now + 1
  /\ UNCHANGED <<buckets, passed>>

\* The process starts again, with every bucket full.
Forget ==
  /\ buckets' = [p \in Person |-> [tokens |-> Full, at |-> now, told |-> FALSE]]
  /\ passed' = [p \in Person |-> <<>>]
  /\ now' = now

LimiterNext ==
  \/ \E p \in Person, v \in Verdict : Admit(p, v)
  \/ ClockTicks
  \/ Forget

LimiterSpec == LimiterInit /\ [][LimiterNext]_limiterVars

-----------------------------------------------------------------------------
LimiterTypeOK ==
  /\ now \in Nat
  /\ buckets \in [Person -> Bucket]
  /\ passed \in [Person -> Seq(Nat)]

\* "Each person may send ten messages in a burst and ten a minute after that"
\* (README.md:198): between any two messages of one process's life that were
\* let through, no more were than a burst and what came back in between.
RateKept ==
  \A p \in Person : \A i \in 1..Len(passed[p]) : \A j \in i..Len(passed[p]) :
    Cost * (j - i + 1) <= Full + (passed[p][j] - passed[p][i])

\* "A token comes back after six seconds" (limit.rs:87), also to who goes on
\* writing: a message is refused only if, let through, it would be one more than
\* a burst and what has come back since one of those before it.
OnlyExcessRefused ==
  \A p \in Person : verdict(buckets[p]) # "Pass" =>
    \E i \in 1..Len(passed[p]) :
      Cost * (Len(passed[p]) - i + 2) > Full + (now - passed[p][i])
=============================================================================
