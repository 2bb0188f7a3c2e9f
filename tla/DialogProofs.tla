---------------------------- MODULE DialogProofs ----------------------------
(***************************************************************************)
(* What the limiter keeps, for every burst and every cost; that the dialog  *)
(* uses it as it is meant to be used; and what the dialog makes of its      *)
(* lists, answers and calls, for every directory, catalogue and message.    *)
(***************************************************************************)
EXTENDS Dialog, FilterProofs, FiniteSetTheorems

-----------------------------------------------------------------------------
(* The limiter                                                              *)

\* Every message let through is paid for: since message i, counting it, the
\* bucket has lost Cost for each and gained at most what came back since.
PaidFor ==
  \A p \in Person : \A i \in 1..Len(passed[p]) :
    /\ passed[p][i] <= buckets[p].at
    /\ buckets[p].tokens + Cost * (Len(passed[p]) - i + 1)
         <= Full + (buckets[p].at - passed[p][i])

\* No bucket was looked at in the future.
LookedAt == \A p \in Person : buckets[p].at <= now

LimiterInv == LimiterTypeOK /\ LookedAt /\ PaidFor /\ RateKept

USE LimiterAssumption

\* What is in a bucket never exceeds a burst.
LEMMA FullIsNat == Full \in Nat /\ Full >= Cost
  BY DEF Full

\* A bucket that is weighed stays a bucket, and a message let through is taken
\* out of what was there.
LEMMA AdmitBucket ==
  ASSUME LimiterTypeOK, LookedAt, NEW p \in Person
  PROVE  LET b == buckets[p] IN
         /\ admit(b) \in Bucket
         /\ admit(b).at = now
         /\ admit(b).tokens <= b.tokens + (now - b.at)
              - (IF verdict(b) = "Pass" THEN Cost ELSE 0)
         /\ admit(b).tokens <= Full - (IF verdict(b) = "Pass" THEN Cost ELSE 0)
<1> DEFINE b == buckets[p]
<1>1. b \in Bucket /\ now \in Nat /\ b.at <= now
  BY DEF LimiterTypeOK, LookedAt
<1>2. /\ b.tokens \in 0..Full /\ b.at \in Nat /\ b.told \in BOOLEAN
      /\ Full \in Nat
  BY <1>1, FullIsNat DEF Bucket
<1>3. Refilled(b) \in 0..Full /\ Refilled(b) <= b.tokens + (now - b.at)
  BY <1>1, <1>2 DEF Refilled
<1>4. verdict(b) = "Pass" => Refilled(b) >= Cost
  BY DEF verdict
<1> HIDE DEF b
<1>5. QED
  BY <1>1, <1>2, <1>3, <1>4 DEF admit, Bucket, b

\* Weighing a message keeps the types and the times.
LEMMA AdmitTypes ==
  ASSUME LimiterTypeOK, LookedAt, NEW p \in Person, NEW v \in Verdict, Admit(p, v)
  PROVE  LimiterTypeOK' /\ LookedAt'
<1>1. /\ now' = now /\ now \in Nat /\ passed \in [Person -> Seq(Nat)]
      /\ buckets \in [Person -> Bucket]
  BY DEF Admit, LimiterTypeOK
<1>2. admit(buckets[p]) \in Bucket /\ admit(buckets[p]).at = now
  BY AdmitBucket
<1>3. buckets' = [buckets EXCEPT ![p] = admit(buckets[p])]
  BY DEF Admit
<1>4. passed' \in [Person -> Seq(Nat)]
  <2>1. CASE v = "Pass"
    <3>1. passed' = [passed EXCEPT ![p] = Append(passed[p], now)]
      BY <2>1 DEF Admit
    <3>2. Append(passed[p], now) \in Seq(Nat)
      BY <1>1
    <3>3. QED
      BY <1>1, <3>1, <3>2
  <2>2. CASE v # "Pass"
    BY <1>1, <2>2 DEF Admit
  <2>3. QED
    BY <2>1, <2>2
<1>5. buckets' \in [Person -> Bucket]
  BY <1>1, <1>2, <1>3
<1>6. \A q \in Person : buckets'[q].at <= now'
  BY <1>1, <1>2, <1>3 DEF LookedAt
<1>7. QED
  BY <1>1, <1>4, <1>5, <1>6 DEF LimiterTypeOK, LookedAt

\* The arithmetic of a payment: what was true of the tokens old as of last is
\* true of new as of at, a message later.
LEMMA Spent ==
  ASSUME NEW old \in Int, NEW last \in Int, NEW new \in Int, NEW at \in Int,
         NEW k \in Int, NEW t \in Int, NEW full \in Int, NEW cost \in Int,
         t <= last, last <= at, old + k <= full + (last - t),
         new <= old + (at - last) - cost
  PROVE  new + (k + cost) <= full + (at - t) /\ t <= at
  OBVIOUS

\* And where nothing was taken out, of new tokens without a cost.
LEMMA Waited ==
  ASSUME NEW old \in Int, NEW last \in Int, NEW new \in Int, NEW at \in Int,
         NEW k \in Int, NEW t \in Int, NEW full \in Int,
         t <= last, last <= at, old + k <= full + (last - t),
         new <= old + (at - last)
  PROVE  new + k <= full + (at - t)
  OBVIOUS

\* Each further message costs the same.
LEMMA OneMessageMore ==
  ASSUME NEW c \in Nat, NEW a \in Int, NEW i \in Int
  PROVE  /\ c * (a + 1 - i + 1) = c * (a - i + 1) + c
         /\ c * (a - i + 2) = c * (a - i + 1) + c
         /\ c * (a - i + 1) \in Int
<1>1. a + 1 - i + 1 = (a - i + 1) + 1 /\ a - i + 2 = (a - i + 1) + 1
  OBVIOUS
<1>2. \A x \in Int : c * (x + 1) = c * x + c
  OBVIOUS
<1>3. a - i + 1 \in Int /\ \A x \in Int : c * x \in Int
  OBVIOUS
<1> QED
  BY <1>1, <1>2, <1>3

\* A message let through is paid for at once, and those before it stay so.
LEMMA AdmitPaid ==
  ASSUME LimiterTypeOK, LookedAt, PaidFor, NEW p \in Person, NEW v \in Verdict,
         Admit(p, v)
  PROVE  PaidFor'
<1>1. /\ now' = now /\ now \in Nat /\ passed \in [Person -> Seq(Nat)]
      /\ buckets \in [Person -> Bucket] /\ buckets[p].at <= now
  BY DEF Admit, LimiterTypeOK, LookedAt
<1>2. /\ v = verdict(buckets[p])
      /\ buckets' = [buckets EXCEPT ![p] = admit(buckets[p])]
  BY DEF Admit
<1>3. /\ admit(buckets[p]) \in Bucket
      /\ admit(buckets[p]).at = now
      /\ admit(buckets[p]).tokens <= buckets[p].tokens + (now - buckets[p].at)
           - (IF v = "Pass" THEN Cost ELSE 0)
      /\ admit(buckets[p]).tokens <= Full - (IF v = "Pass" THEN Cost ELSE 0)
  BY <1>2, AdmitBucket
<1> SUFFICES ASSUME NEW q \in Person, NEW i \in 1..Len(passed'[q])
             PROVE  /\ passed'[q][i] <= buckets'[q].at
                    /\ buckets'[q].tokens + Cost * (Len(passed'[q]) - i + 1)
                         <= Full + (buckets'[q].at - passed'[q][i])
  BY DEF PaidFor
<1>4. CASE q # p
  <2>1. passed'[q] = passed[q] /\ buckets'[q] = buckets[q]
    BY <1>1, <1>2, <1>4 DEF Admit
  <2>2. QED
    BY <2>1 DEF PaidFor
<1>5. CASE q = p /\ v # "Pass"
  <2>1. passed'[p] = passed[p] /\ buckets'[p] = admit(buckets[p])
    BY <1>1, <1>2, <1>5 DEF Admit
  <2>2. i \in 1..Len(passed[p])
    BY <1>5, <2>1
  <2>3. /\ passed[p][i] <= buckets[p].at
        /\ buckets[p].tokens + Cost * (Len(passed[p]) - i + 1)
             <= Full + (buckets[p].at - passed[p][i])
    BY <2>2 DEF PaidFor
  <2> DEFINE k == Cost * (Len(passed[p]) - i + 1)
             t == passed[p][i]
             old == buckets[p]
             new == admit(buckets[p])
  <2>4. /\ k \in Int /\ t \in Nat /\ Full \in Nat
        /\ old.at \in Nat /\ old.tokens \in Int /\ new.tokens \in Int
        /\ now \in Nat /\ old.at <= now
    <3>1. Len(passed[p]) \in Int /\ i \in Int /\ t \in Nat /\ Cost \in Nat
      BY <1>1, <2>2, FullIsNat
    <3>2. k \in Int
      BY <3>1, OneMessageMore
    <3> QED
      BY <1>1, <1>3, <3>1, <3>2, FullIsNat DEF Bucket
  <2>5. new.tokens <= old.tokens + (now - old.at) /\ new.at = now
    BY <1>3, <1>5, <2>4, <1>1
  <2>6. t <= old.at /\ old.tokens + k <= Full + (old.at - t)
    BY <2>3
  <2> HIDE DEF k, t, old, new
  <2>7. t <= now /\ new.tokens + k <= Full + (now - t)
    <3>1. /\ old.tokens \in Int /\ new.tokens \in Int /\ old.at \in Int
          /\ now \in Int /\ Full \in Int /\ k \in Int /\ t \in Int
      BY <2>4
    <3>2. t <= old.at /\ old.tokens + k <= Full + (old.at - t)
      BY <2>6
    <3>3. new.tokens <= old.tokens + (now - old.at) /\ old.at <= now
      BY <2>4, <2>5
    <3>4. t <= now
      BY <3>1, <3>2, <3>3
    <3>5. new.tokens + k <= Full + (now - t)
      BY <3>1, <3>2, <3>3, Waited, Zenon
    <3>6. QED
      BY <3>4, <3>5
  <2>8. /\ buckets'[q] = new /\ passed'[q][i] = t
        /\ Cost * (Len(passed'[q]) - i + 1) = k
    BY <1>5, <2>1 DEF k, t, new
  <2>9. QED
    BY <2>5, <2>7, <2>8
<1>6. CASE q = p /\ v = "Pass"
  <2>1. /\ passed'[p] = Append(passed[p], now)
        /\ buckets'[p] = admit(buckets[p])
    BY <1>1, <1>2, <1>6 DEF Admit
  <2>2. passed[p] \in Seq(Nat) /\ Len(passed'[p]) = Len(passed[p]) + 1
    BY <1>1, <2>1
  <2> DEFINE n == Len(passed[p])
             old == buckets[p]
             new == admit(buckets[p])
  <2>3. /\ n \in Nat /\ Full \in Nat /\ i \in 1..(n + 1)
        /\ old.at \in Nat /\ old.tokens \in Int /\ new.tokens \in Int
        /\ now \in Nat /\ old.at <= now /\ Cost \in Nat
    BY <1>1, <1>3, <1>6, <2>2, FullIsNat DEF Bucket
  <2>4. /\ new.at = now /\ new.tokens <= Full - Cost
        /\ new.tokens <= old.tokens + (now - old.at) - Cost
    BY <1>3, <1>6
  <2>5. CASE i = n + 1
    <3>1. passed'[p][i] = now
      BY <1>1, <2>1, <2>2, <2>5
    <3>2. Cost * (Len(passed'[p]) - i + 1) = Cost
      BY <2>2, <2>3, <2>5
    <3>3. new.tokens + Cost <= Full + (now - now)
      <4> HIDE DEF new
      <4> QED  BY <2>3, <2>4
    <3>4. /\ buckets'[q] = new /\ passed'[q][i] = now
          /\ Cost * (Len(passed'[q]) - i + 1) = Cost
      BY <1>6, <2>1, <3>1, <3>2
    <3>5. now <= now
      BY <2>3
    <3> HIDE DEF new
    <3>6. QED
      BY <2>4, <3>3, <3>4, <3>5
  <2>6. CASE i \in 1..n
    <3> DEFINE t == passed[p][i]
               k == Cost * (n - i + 1)
    <3>1. passed'[p][i] = t /\ t \in Nat /\ k \in Int
      <4>1. n \in Int /\ i \in Int /\ Cost \in Nat
        BY <2>3
      <4>2. k \in Int
        BY <4>1, OneMessageMore
      <4> HIDE DEF k
      <4>3. passed[p] \in Seq(Nat) /\ i \in 1..Len(passed[p])
        BY <1>1, <2>6
      <4>4. passed'[p][i] = passed[p][i] /\ passed[p][i] \in Nat
        BY <2>1, <2>3, <4>3
      <4> QED
        BY <4>2, <4>4
    <3>2. t <= old.at /\ old.tokens + k <= Full + (old.at - t)
      BY <2>6 DEF PaidFor
    <3>3. Cost * (Len(passed'[p]) - i + 1) = k + Cost
      <4>1. n \in Int /\ i \in Int /\ Cost \in Nat /\ Len(passed'[p]) = n + 1
        BY <2>2, <2>3
      <4>2. Cost * (n + 1 - i + 1) = k + Cost
        BY <4>1, OneMessageMore
      <4> QED
        BY <4>1, <4>2
    <3> HIDE DEF t, k, n
    <3>4. new.tokens + (k + Cost) <= Full + (now - t) /\ t <= now
      <4> HIDE DEF old, new
      <4>1. t <= old.at /\ old.at <= now
        BY <2>3, <3>2
      <4>2. old.tokens + k <= Full + (old.at - t)
        BY <3>2
      <4>3. new.tokens <= old.tokens + (now - old.at) - Cost
        BY <2>4
      <4>4. /\ old.tokens \in Int /\ new.tokens \in Int /\ old.at \in Int
            /\ now \in Int /\ Cost \in Int /\ Full \in Int
        BY <2>3
      <4>5. k \in Int /\ t \in Int
        BY <3>1
      <4>6. QED
        BY <4>1, <4>2, <4>3, <4>4, <4>5, Spent
    <3> USE DEF n
    <3>5. /\ buckets'[q] = new /\ passed'[q][i] = t
          /\ Cost * (Len(passed'[q]) - i + 1) = k + Cost
      BY <1>6, <2>1, <3>1, <3>3
    <3> HIDE DEF new
    <3>6. QED
      BY <2>4, <3>4, <3>5
  <2>7. i \in 1..n \/ i = n + 1
    <3> HIDE DEF n
    <3> QED  BY <2>3
  <2>8. QED
    BY <2>5, <2>6, <2>7
<1>7. QED
  BY <1>4, <1>5, <1>6

\* A bucket that has paid for its messages has let through no more than the
\* rate allows up to its last one; nothing else changes what was let through.
LEMMA AdmitRate ==
  ASSUME LimiterTypeOK, LookedAt, PaidFor, RateKept, NEW p \in Person,
         NEW v \in Verdict, Admit(p, v)
  PROVE  RateKept'
<1>1. LimiterTypeOK' /\ PaidFor'
  BY AdmitTypes, AdmitPaid
<1>2. now \in Nat /\ passed \in [Person -> Seq(Nat)]
  BY DEF LimiterTypeOK
<1> SUFFICES ASSUME NEW q \in Person, NEW i \in 1..Len(passed'[q]),
                    NEW j \in i..Len(passed'[q])
             PROVE  Cost * (j - i + 1) <= Full + (passed'[q][j] - passed'[q][i])
  BY DEF RateKept
<1>3. CASE passed'[q] = passed[q]
  BY <1>3 DEF RateKept
<1>4. CASE passed'[q] # passed[q]
  <2>1. /\ q = p /\ v = "Pass"
        /\ passed'[p] = Append(passed[p], now)
    BY <1>2, <1>4 DEF Admit
  <2>2. passed[p] \in Seq(Nat) /\ Len(passed'[p]) = Len(passed[p]) + 1
    BY <1>2, <2>1
  <2>3. CASE j = Len(passed'[p])
    <3> DEFINE n == Len(passed'[p])
               b == buckets'[p]
               t == passed'[p][i]
               k == Cost * (n - i + 1)
    <3>1. passed'[p][n] = now
      BY <1>2, <2>1, <2>2
    <3>2. b.tokens + k <= Full + (b.at - t)
      BY <1>1, <2>1 DEF PaidFor
    <3>3. b.tokens \in Nat /\ b.at = now
      BY <1>1, AdmitBucket DEF Admit, LimiterTypeOK, Bucket
    <3>4. t \in Nat /\ k \in Int /\ Full \in Nat
      BY <1>1, <2>1, <2>2, FullIsNat DEF LimiterTypeOK
    <3>5. k = Cost * (j - i + 1)
      BY <2>3
    <3> HIDE DEF k, t, b
    <3>6. k <= Full + (now - t)
      BY <1>2, <3>2, <3>3, <3>4
    <3>7. QED
      BY <2>1, <2>3, <3>1, <3>5, <3>6 DEF t
  <2>4. CASE j # Len(passed'[p])
    <3>1. i \in 1..Len(passed[p]) /\ j \in i..Len(passed[p])
      BY <2>1, <2>2, <2>4
    <3>2. passed'[p][i] = passed[p][i] /\ passed'[p][j] = passed[p][j]
      BY <1>2, <2>1, <2>2, <3>1
    <3>3. QED
      BY <2>1, <3>1, <3>2 DEF RateKept
  <2>5. QED
    BY <2>1, <2>3, <2>4
<1>5. QED
  BY <1>3, <1>4

\* LimiterInv holds at the start, and every step keeps it.
LEMMA LimiterStarts == LimiterInit => LimiterInv
<1> SUFFICES ASSUME LimiterInit PROVE LimiterInv
  OBVIOUS
<1>1. now = 0 /\ passed = [p \in Person |-> <<>>]
  BY DEF LimiterInit
<1>2. LimiterTypeOK
  BY <1>1, FullIsNat DEF LimiterInit, LimiterTypeOK, Bucket
<1>3. LookedAt /\ PaidFor /\ RateKept
  BY <1>1 DEF LimiterInit, LookedAt, PaidFor, RateKept
<1>4. QED
  BY <1>2, <1>3 DEF LimiterInv

LEMMA LimiterStep == LimiterInv /\ [LimiterNext]_limiterVars => LimiterInv'
<1> SUFFICES ASSUME LimiterInv, [LimiterNext]_limiterVars PROVE LimiterInv'
  OBVIOUS
<1> USE DEF LimiterInv
<1>1. ASSUME NEW p \in Person, NEW v \in Verdict, Admit(p, v) PROVE LimiterInv'
  BY <1>1, AdmitTypes, AdmitPaid, AdmitRate
<1>2. CASE ClockTicks
  <2>1. /\ now' = now + 1 /\ now \in Nat
        /\ buckets' = buckets /\ passed' = passed
    BY <1>2 DEF ClockTicks, LimiterTypeOK
  <2>2. LimiterTypeOK'
    BY <2>1 DEF LimiterTypeOK
  <2>3. LookedAt'
    BY <2>1 DEF LookedAt, LimiterTypeOK, Bucket
  <2>4. PaidFor' /\ RateKept'
    BY <2>1 DEF PaidFor, RateKept
  <2>5. QED
    BY <2>2, <2>3, <2>4
<1>3. CASE Forget
  <2>1. /\ now' = now /\ now \in Nat /\ passed' = [p \in Person |-> <<>>]
        /\ buckets' = [p \in Person |-> [tokens |-> Full, at |-> now, told |-> FALSE]]
    BY <1>3 DEF Forget, LimiterTypeOK
  <2>2. LimiterTypeOK'
    BY <2>1, FullIsNat DEF LimiterTypeOK, Bucket
  <2>3. LookedAt' /\ PaidFor' /\ RateKept'
    BY <2>1 DEF LookedAt, PaidFor, RateKept
  <2>4. QED
    BY <2>2, <2>3
<1>4. CASE UNCHANGED limiterVars
  BY <1>4 DEF limiterVars, LimiterTypeOK, LookedAt, PaidFor, RateKept
<1>5. QED
  BY <1>1, <1>2, <1>3, <1>4 DEF LimiterNext

\* However somebody writes, and however often the process starts again, the
\* messages read keep to the burst and the rate of limit.rs.
THEOREM Rate == LimiterSpec => []RateKept
<1>1. LimiterSpec => []LimiterInv
  BY LimiterStarts, LimiterStep, PTL DEF LimiterSpec
<1>2. QED
  BY <1>1, PTL DEF LimiterInv

\* Every bucket that is not full has been drawn on since a message that found it
\* full, by every message since, and has got back all that came back meanwhile.
DrawnOn(p, i) ==
  buckets[p].tokens + Cost * (Len(passed[p]) - i + 1) >= Full + (buckets[p].at - passed[p][i])

NothingWithheld ==
  \A p \in Person : buckets[p].tokens = Full \/ \E i \in 1..Len(passed[p]) : DrawnOn(p, i)

\* What a bucket that is not full holds now is what it held and what came back.
LEMMA RefilledExactly ==
  ASSUME NEW b \in Bucket, now \in Nat, b.at <= now
  PROVE  /\ Refilled(b) \in 0..Full
         /\ b.tokens = Full => Refilled(b) = Full
         /\ Refilled(b) # Full => Refilled(b) = b.tokens + (now - b.at)
<1>1. b.tokens \in 0..Full /\ b.at \in Nat /\ Full \in Nat
  BY FullIsNat DEF Bucket
<1> QED
  BY <1>1 DEF Refilled

\* The debt of a bucket, now: what it holds and the messages since i make up for
\* a burst and the time since i.
LEMMA DrawnOnNow ==
  ASSUME LimiterTypeOK, LookedAt, NothingWithheld, NEW p \in Person,
         Refilled(buckets[p]) # Full
  PROVE  \E i \in 1..Len(passed[p]) :
           Refilled(buckets[p]) + Cost * (Len(passed[p]) - i + 1) >= Full + (now - passed[p][i])
<1>1. /\ buckets[p] \in Bucket /\ now \in Nat /\ buckets[p].at <= now
      /\ passed[p] \in Seq(Nat)
  BY DEF LimiterTypeOK, LookedAt
<1>2. /\ buckets[p].tokens # Full
      /\ Refilled(buckets[p]) = buckets[p].tokens + (now - buckets[p].at)
  BY <1>1, RefilledExactly
<1>3. PICK i \in 1..Len(passed[p]) : DrawnOn(p, i)
  BY <1>2 DEF NothingWithheld
<1> DEFINE k == Cost * (Len(passed[p]) - i + 1)
           t == passed[p][i]
           old == buckets[p].tokens
           at == buckets[p].at
<1>4. k \in Int /\ t \in Int /\ old \in Int /\ at \in Int /\ Full \in Int /\ now \in Int
  BY <1>1, FullIsNat DEF Bucket
<1>5. old + k >= Full + (at - t)
  BY <1>3 DEF DrawnOn
<1> HIDE DEF k, t, old, at
<1>6. (old + (now - at)) + k >= Full + (now - t)
  BY <1>4, <1>5
<1> QED
  BY <1>2, <1>6 DEF k, t, old, at

\* A message that is weighed takes what it costs and nothing else.
LEMMA AdmitWithholdsNothing ==
  ASSUME LimiterTypeOK, LookedAt, NothingWithheld, NEW p \in Person, NEW v \in Verdict,
         Admit(p, v)
  PROVE  NothingWithheld'
<1> DEFINE b == buckets[p]
           r == Refilled(b)
           n == Len(passed[p])
<1>1. /\ b \in Bucket /\ now \in Nat /\ b.at <= now /\ passed \in [Person -> Seq(Nat)]
      /\ buckets \in [Person -> Bucket] /\ now' = now /\ passed[p] \in Seq(Nat) /\ n \in Nat
  BY DEF LimiterTypeOK, LookedAt, Admit
<1>2. /\ v = verdict(b) /\ buckets' = [buckets EXCEPT ![p] = admit(b)]
      /\ buckets'[p] = admit(b) /\ admit(b).at = now
      /\ admit(b).tokens = r - (IF v = "Pass" THEN Cost ELSE 0)
  BY <1>1 DEF Admit, admit
<1>3. r \in 0..Full /\ Full \in Nat /\ Cost \in Nat /\ Cost <= Full
  BY <1>1, RefilledExactly, FullIsNat
<1>4. (v = "Pass") <=> r >= Cost
  BY <1>2 DEF verdict
<1>5. ASSUME NEW q \in Person, q # p
      PROVE  buckets'[q].tokens = Full \/ \E i \in 1..Len(passed'[q]) : DrawnOn(q, i)'
  <2>1. buckets'[q] = buckets[q] /\ passed'[q] = passed[q]
    BY <1>1, <1>2, <1>5 DEF Admit
  <2> QED
    BY <2>1 DEF NothingWithheld, DrawnOn
<1>6. CASE v = "Pass"
  <2>1. passed'[p] = Append(passed[p], now) /\ Len(passed'[p]) = n + 1
    BY <1>1, <1>6 DEF Admit
  <2>2. buckets'[p].tokens = r - Cost /\ buckets'[p].at = now
    BY <1>2, <1>6
  <2>3. CASE r = Full
    <3>1. PICK last \in Nat : last = Len(passed'[p])
      BY <1>1, <2>1
    <3>2. passed'[p][last] = now /\ last \in 1..Len(passed'[p])
      BY <1>1, <2>1, <3>1
    <3>3. Len(passed'[p]) - last + 1 = 1 /\ Cost * 1 = Cost
      BY <1>3, <3>1
    <3>4. (Full - Cost) + Cost >= Full + (now - now)
      BY <1>1, <1>3
    <3>5. buckets'[p].tokens = Full - Cost
      BY <2>2, <2>3
    <3>6. DrawnOn(p, last)'
      BY <2>2, <3>2, <3>3, <3>4, <3>5, Zenon DEF DrawnOn
    <3> QED
      BY <1>5, <3>2, <3>6 DEF NothingWithheld
  <2>4. CASE r # Full
    <3>1. PICK i \in 1..n : r + Cost * (n - i + 1) >= Full + (now - passed[p][i])
      BY <2>4, DrawnOnNow
    <3> DEFINE k == Cost * (n - i + 1)
               t == passed[p][i]
    <3>2. passed'[p][i] = t /\ i \in 1..Len(passed'[p])
      BY <1>1, <2>1
    <3>3. Cost * (Len(passed'[p]) - i + 1) = k + Cost /\ k \in Int /\ t \in Int
      <4>1. Len(passed'[p]) = n + 1 /\ i \in Int /\ t \in Int
        BY <1>1, <2>1
      <4>2. Cost * (n + 1 - i + 1) = k + Cost
        BY <1>1, <1>3, <4>1, OneMessageMore
      <4> QED
        BY <1>1, <1>3, <4>1, <4>2
    <3> HIDE DEF k, t, r
    <3>4. (r - Cost) + (k + Cost) >= Full + (now - t)
      BY <1>1, <1>3, <3>1, <3>3 DEF k, t
    <3>5. DrawnOn(p, i)'
      BY <2>2, <3>2, <3>3, <3>4, Zenon DEF DrawnOn
    <3> QED
      BY <1>5, <3>2, <3>5 DEF NothingWithheld
  <2> QED
    BY <2>3, <2>4
<1>7. CASE v # "Pass"
  <2>1. passed'[p] = passed[p] /\ buckets'[p].tokens = r /\ buckets'[p].at = now
    BY <1>2, <1>3, <1>7 DEF Admit
  <2>2. r # Full
    BY <1>3, <1>4, <1>7
  <2>3. PICK i \in 1..n : r + Cost * (n - i + 1) >= Full + (now - passed[p][i])
    BY <2>2, DrawnOnNow
  <2>4. DrawnOn(p, i)' /\ i \in 1..Len(passed'[p])
    BY <2>1, <2>3, Zenon DEF DrawnOn
  <2> QED
    BY <1>5, <2>4 DEF NothingWithheld
<1> QED
  BY <1>6, <1>7

LEMMA NothingWithheldStarts == LimiterInit => NothingWithheld
<1> SUFFICES ASSUME LimiterInit, NEW p \in Person
             PROVE  buckets[p].tokens = Full
  BY DEF NothingWithheld
<1>1. buckets[p] = [tokens |-> Full, at |-> 0, told |-> FALSE]
  BY DEF LimiterInit
<1> QED
  BY <1>1

LEMMA NothingWithheldStep ==
  LimiterInv /\ NothingWithheld /\ [LimiterNext]_limiterVars => NothingWithheld'
<1> SUFFICES ASSUME LimiterInv, NothingWithheld, [LimiterNext]_limiterVars
             PROVE  NothingWithheld'
  OBVIOUS
<1>1. ASSUME NEW p \in Person, NEW v \in Verdict, Admit(p, v) PROVE NothingWithheld'
  BY <1>1, AdmitWithholdsNothing DEF LimiterInv
<1>2. CASE UNCHANGED <<buckets, passed>>
  BY <1>2 DEF NothingWithheld, DrawnOn
<1>3. CASE Forget
  BY <1>3 DEF Forget, NothingWithheld
<1> QED
  BY <1>1, <1>2, <1>3 DEF LimiterNext, ClockTicks, limiterVars

\* Nobody is refused who keeps to the rate, however often they were refused
\* before (limit.rs admit): with Rate, the limiter lets through what README.md:198
\* promises, no more and no less.
THEOREM RefusalIsDue == LimiterSpec => []OnlyExcessRefused
<1>1. ASSUME LimiterInv, NothingWithheld PROVE OnlyExcessRefused
  <2> SUFFICES ASSUME NEW p \in Person, verdict(buckets[p]) # "Pass"
               PROVE  \E i \in 1..Len(passed[p]) :
                        Cost * (Len(passed[p]) - i + 2) > Full + (now - passed[p][i])
    BY DEF OnlyExcessRefused
  <2> DEFINE r == Refilled(buckets[p])
  <2>1. /\ r \in 0..Full /\ Full \in Nat /\ Cost \in Nat /\ Cost <= Full /\ now \in Nat
        /\ passed[p] \in Seq(Nat)
    BY <1>1, RefilledExactly, FullIsNat DEF LimiterInv, LimiterTypeOK, LookedAt
  <2>2. r < Cost
    BY <2>1 DEF verdict
  <2>3. PICK i \in 1..Len(passed[p]) :
          r + Cost * (Len(passed[p]) - i + 1) >= Full + (now - passed[p][i])
    BY <1>1, <2>1, <2>2, DrawnOnNow DEF LimiterInv
  <2> DEFINE k == Cost * (Len(passed[p]) - i + 1)
             t == passed[p][i]
  <2>4. Cost * (Len(passed[p]) - i + 2) = k + Cost /\ k \in Int /\ t \in Int
    <3>1. i \in Int /\ Len(passed[p]) \in Int /\ t \in Int
      BY <2>1
    <3>2. Cost * (Len(passed[p]) - i + 2) = k + Cost
      BY <2>1, <3>1, OneMessageMore
    <3> QED
      BY <2>1, <3>1, <3>2
  <2> HIDE DEF k, t, r
  <2>5. k + Cost > Full + (now - t)
    BY <2>1, <2>2, <2>3, <2>4 DEF k, t
  <2> QED
    BY <2>4, <2>5 DEF t
<1>2. LimiterSpec => []LimiterInv
  BY LimiterStarts, LimiterStep, PTL DEF LimiterSpec
<1>3. LimiterSpec => []NothingWithheld
  BY <1>2, NothingWithheldStarts, NothingWithheldStep, PTL DEF LimiterSpec
<1> QED
  BY <1>1, <1>2, <1>3, PTL

-----------------------------------------------------------------------------
(* The limiter in front of the dialog                                       *)

\* What a message does to the buckets is one step of the limiter, or none.
LEMMA MessageIsAdmitted ==
  ASSUME NEW p \in Person, MessageOf(p)
  PROVE  [LimiterNext]_limiterVars
<1> SUFFICES \/ UNCHANGED limiterVars
             \/ \E v \in Verdict : Admit(p, v)
  BY DEF LimiterNext
<1>1. CASE Stranger(p) \/ NotAllowed(p)
  BY <1>1 DEF Stranger, NotAllowed
<1>2. CASE TooFast(p)
  BY <1>2 DEF TooFast, Verdict
<1>3. Passes(p) => \E v \in Verdict : Admit(p, v)
  BY DEF Passes, Verdict
<1>4. CASE GetHelp(p) \/ CancelAll(p) \/ next_page(p) \/ AskStatus(p)
  BY <1>3, <1>4 DEF GetHelp, CancelAll, next_page, AskStatus, Ordinary
<1>5. ASSUME NEW t \in Text,
             \/ place_series(p, t) \/ answer_profile(p, t) \/ choose(p, t)
             \/ SearchFor(p, t) \/ AskWithdraw(p, t)
      PROVE  Passes(p)
  BY <1>5 DEF place_series, answer_profile, choose, SearchFor, AskWithdraw, Ordinary
<1>6. QED
  BY <1>1, <1>2, <1>3, <1>4, <1>5 DEF MessageOf

\* The rest of the dialog leaves the buckets alone, but for the clock and for
\* a new start of the process.
LEMMA DialogStep == [Next]_vars => [LimiterNext]_limiterVars
<1>1. ASSUME NEW p \in Person, MessageOf(p) PROVE [LimiterNext]_limiterVars
  BY <1>1, MessageIsAdmitted
<1>2. Handle => UNCHANGED limiterVars
  BY DEF Handle, search, SearchFailed, SeasonsCounted, SeasonsUnknown, ProfilesRead,
         ProfilesUnknown, ask_profile, seerr_user, NoUser, place, PlaceFailed, ReadBack,
         withdraw, Delete, DeleteFailed, Send, SendFailed
<1>3. ASSUME NEW p \in Person, MappingChanges(p) PROVE UNCHANGED limiterVars
  BY <1>3 DEF MappingChanges
<1>4. RequestGone => UNCHANGED limiterVars
  BY DEF RequestGone
<1>5. Tick => LimiterNext
  BY DEF Tick, LimiterNext
<1>6. Crash => LimiterNext
  BY DEF Crash, LimiterNext
<1>7. UNCHANGED vars => UNCHANGED limiterVars
  BY DEF vars, limiterVars
<1>8. QED
  BY <1>1, <1>2, <1>3, <1>4, <1>5, <1>6, <1>7 DEF Next

\* The dialog implements the limiter.
THEOREM DialogLimited == Spec => LimiterSpec
<1>1. Init => LimiterInit
  BY DEF Init
<1>2. QED
  BY <1>1, DialogStep, PTL DEF Spec, LimiterSpec

\* No member is read faster than README.md:198 promises, whatever the dialog
\* is doing, whoever else writes and whatever Seerr and the mapping do.
THEOREM DialogRate == Spec => []RateKept
  BY DialogLimited, Rate, PTL

\* And none is refused who is not faster, for all that goes on beside.
THEOREM DialogRefusesExcess == Spec => []OnlyExcessRefused
  BY DialogLimited, RefusalIsDue, PTL

-----------------------------------------------------------------------------
(* One list, one wish.                                                       *)

\* The last list p was sent has led to no wish, and p has not cancelled since.
Unspent(p) ==
  /\ cancelled[p] < lists[p]
  /\ \A r \in placed : r.by = p => r.list < lists[p]

\* Wishes and cancellations come after the lists they are about.
ListsCounted ==
  /\ lists \in [Person -> Nat] /\ cancelled \in [Person -> Nat]
  /\ \A p \in Person : cancelled[p] <= lists[p]
  /\ \A r \in placed : r.by \in Person /\ r.list \in Nat /\ r.list <= lists[r.by]

\* Whatever is open is about a list that has led to nothing yet.
OpenIsUnspent ==
  /\ conversations = [p \in Person |-> conversations[p]]
  /\ \A p \in Person : conversations[p] # None => Unspent(p)

\* On its way to a wish the dialog holds the conversation open, and closes it
\* before the call that makes the wish.
WishIsUnspent ==
  job # None =>
    /\ job.from \in Person
    /\ (job.at \in {"season_count", "profiles"} \/ (job.at = "user" /\ job.to = "place"))
         => conversations[job.from] # None
    /\ job.at = "request" => conversations[job.from] = None /\ Unspent(job.from)

ListInv == ListsCounted /\ OpenIsUnspent /\ WishIsUnspent /\ OneWishPerList

wishes == <<lists, cancelled, placed>>

\* Conversations that are only closed, or replaced while they were open, keep
\* what is known of the lists.
LEMMA KeepsLists ==
  ASSUME ListInv, UNCHANGED wishes, NEW p \in Person,
         NEW c, conversations' = [conversations EXCEPT ![p] = c],
         c = None \/ conversations[p] # None
  PROVE  ListsCounted' /\ OpenIsUnspent' /\ OneWishPerList'
<1>1. ListsCounted' /\ OneWishPerList'
  BY DEF wishes, ListInv, ListsCounted, OneWishPerList
<1>2. \A q \in Person : Unspent(q)' = Unspent(q)
  BY DEF wishes, Unspent
<1>3. conversations' = [q \in Person |-> conversations'[q]]
  BY DEF ListInv, OpenIsUnspent
<1>4. ASSUME NEW q \in Person, conversations'[q] # None PROVE conversations[q] # None
  BY <1>4 DEF ListInv, OpenIsUnspent
<1>5. QED
  BY <1>1, <1>2, <1>3, <1>4 DEF ListInv, OpenIsUnspent

LEMMA KeepsListsSame ==
  ASSUME ListInv, UNCHANGED wishes, UNCHANGED conversations
  PROVE  ListsCounted' /\ OpenIsUnspent' /\ OneWishPerList'
BY DEF wishes, ListInv, ListsCounted, OneWishPerList, OpenIsUnspent, Unspent

\* A step that leaves the task idle has no wish under way.
LEMMA IdleHasNoWish == job' = None => WishIsUnspent'
  BY DEF WishIsUnspent

\* The message of p is taken up: nothing is placed yet, and what leads to a
\* wish starts from an open conversation.
LEMMA MessageKeepsLists ==
  ASSUME ListInv, NEW p \in Person, MessageOf(p)
  PROVE  ListInv'
<1> USE DEF wishes
<1> DEFINE Kept == ListsCounted' /\ OpenIsUnspent' /\ OneWishPerList'
<1>1. ASSUME UNCHANGED wishes,
             conversations' \in {conversations, Closed(p), Remaining(p)}
      PROVE  Kept
  BY <1>1, KeepsLists, KeepsListsSame DEF Closed, Remaining
<1>2. ASSUME NEW next, job' = next, next.from = p,
             next.at \in {"search", "user"}, next.at = "user" => next.to # "place"
      PROVE  WishIsUnspent'
  BY <1>2 DEF WishIsUnspent
<1>3. CASE Stranger(p)
  BY <1>1, <1>3, IdleHasNoWish
     DEF Stranger, tell_stranger_once, Answer, Silence, history, ListInv
<1>4. CASE NotAllowed(p) \/ TooFast(p) \/ GetHelp(p)
  BY <1>1, <1>4, IdleHasNoWish DEF NotAllowed, TooFast, GetHelp, Answer, Silence, history, ListInv
<1>5. CASE CancelAll(p)
  <2>1. /\ job' = None /\ conversations' = Closed(p)
        /\ cancelled' = [cancelled EXCEPT ![p] = lists[p]]
        /\ lists' = lists /\ placed' = placed
    BY <1>5 DEF CancelAll, Silence, Abandon
  <2>2. ListsCounted' /\ OneWishPerList'
    BY <2>1 DEF ListInv, ListsCounted, OneWishPerList
  <2>3. conversations' = [q \in Person |-> conversations'[q]] /\ conversations'[p] = None
    BY <2>1 DEF Closed, ListInv, OpenIsUnspent
  <2>4. ASSUME NEW q \in Person, conversations'[q] # None PROVE Unspent(q)'
    <3>1. q # p /\ conversations[q] # None
      BY <2>1, <2>3, <2>4 DEF Closed, ListInv, OpenIsUnspent
    <3>2. cancelled'[q] = cancelled[q]
      BY <2>1, <3>1 DEF ListInv, ListsCounted
    <3>3. QED
      BY <2>1, <3>1, <3>2 DEF Unspent, ListInv, OpenIsUnspent
  <2>5. QED
    BY <2>1, <2>2, <2>3, <2>4, IdleHasNoWish DEF ListInv, OpenIsUnspent
<1>6. ASSUME NEW t \in Text, place_series(p, t) \/ answer_profile(p, t) \/ choose(p, t)
      PROVE  ListInv'
  <2>1. UNCHANGED wishes /\ conversations[p] # None
    BY <1>6 DEF place_series, answer_profile, choose, Is
  <2>2. conversations' \in {conversations, Closed(p)}
    BY <1>6 DEF place_series, answer_profile, choose
  <2>3. job' = None \/ (conversations' = conversations /\ job'.from = p /\ job'.at # "request")
    BY <1>6 DEF place_series, answer_profile, choose, Answer, Begin, Await
  <2>4. WishIsUnspent'
    BY <2>1, <2>3 DEF WishIsUnspent
  <2>5. QED
    BY <1>1, <2>1, <2>2, <2>4 DEF ListInv
<1>7. CASE next_page(p)
  <2>1. UNCHANGED wishes /\ conversations' \in {Closed(p), Remaining(p)}
    BY <1>7 DEF next_page, Search, history
  <2>2. job' = None \/ (job'.from = p /\ job'.at = "search")
    BY <1>7 DEF next_page, Search, Answer, Begin, Await
  <2>3. QED
    BY <1>1, <1>2, <2>1, <2>2, IdleHasNoWish DEF ListInv
<1>8. ASSUME NEW t \in Text, SearchFor(p, t) PROVE ListInv'
  <2>1. UNCHANGED wishes /\ conversations' \in {Closed(p), Remaining(p)}
    BY <1>8 DEF SearchFor, Search, history
  <2>2. job' = None \/ (job'.from = p /\ job'.at = "search")
    BY <1>8 DEF SearchFor, Search, Answer, Begin, Await
  <2>3. QED
    BY <1>1, <1>2, <2>1, <2>2, IdleHasNoWish DEF ListInv
<1>9. CASE AskStatus(p) \/ \E t \in Text : AskWithdraw(p, t)
  <2>1. UNCHANGED wishes /\ conversations' = Remaining(p)
    BY <1>9 DEF AskStatus, AskWithdraw, history
  <2>2. job' = None \/ (job'.from = p /\ job'.at = "user" /\ job'.to # "place")
    BY <1>9 DEF AskStatus, AskWithdraw, Answer, Begin, Await
  <2>3. QED
    BY <1>1, <1>2, <2>1, <2>2, IdleHasNoWish DEF ListInv
<1>10. QED
  BY <1>3, <1>4, <1>5, <1>6, <1>7, <1>8, <1>9 DEF MessageOf

\* A new list has led to nothing yet.
LEMMA SearchKeepsLists ==
  ASSUME ListInv, search
  PROVE  ListInv'
<1>1. PICK p \in Person : p = job.from
  BY DEF search, At, ListInv, WishIsUnspent
<1>0. job' = None /\ UNCHANGED <<cancelled, placed>>
  BY DEF search, Answer
<1>2. CASE UNCHANGED <<conversations, lists>>
  BY <1>0, <1>2, KeepsListsSame, IdleHasNoWish DEF wishes, ListInv
<1>3. CASE ~UNCHANGED <<conversations, lists>>
  <2>1. PICK c : conversations' = [conversations EXCEPT ![p] = c]
    BY <1>1, <1>3 DEF search, Keep
  <2>2. lists' = [lists EXCEPT ![p] = lists[p] + 1]
    BY <1>1, <1>3 DEF search
  <2>3. lists'[p] = lists[p] + 1 /\ \A q \in Person : q # p => lists'[q] = lists[q]
    BY <1>1, <2>2 DEF ListInv, ListsCounted
  <2>4. ListsCounted' /\ OneWishPerList'
    BY <1>0, <1>1, <2>2, <2>3 DEF ListInv, ListsCounted, OneWishPerList
  <2>5. Unspent(p)'
    BY <1>0, <1>1, <2>3 DEF Unspent, ListInv, ListsCounted
  <2>6. ASSUME NEW q \in Person, q # p, conversations'[q] # None PROVE Unspent(q)'
    BY <1>0, <2>1, <2>3, <2>6 DEF Unspent, ListInv, OpenIsUnspent
  <2>7. conversations' = [q \in Person |-> conversations'[q]]
    BY <1>1, <2>1 DEF ListInv, OpenIsUnspent
  <2>8. QED
    BY <1>0, <2>4, <2>5, <2>6, <2>7, IdleHasNoWish DEF ListInv, OpenIsUnspent
<1>4. QED
  BY <1>2, <1>3

\* A wish is stored only at the call that makes it: its conversation is closed
\* and its list has led to nothing before.
LEMMA StoreKeepsLists ==
  ASSUME ListInv, At("request"), Store, UNCHANGED <<lists, cancelled>>,
         conversations' \in {conversations, [q \in Person |-> None]}
  PROVE  ListsCounted' /\ OpenIsUnspent' /\ OneWishPerList'
<1>0. job # None /\ job.at = "request"
  BY DEF At
<1>1. PICK p \in Person : p = job.from /\ conversations[p] = None /\ Unspent(p)
  <2>1. job.from \in Person
    BY <1>0 DEF ListInv, WishIsUnspent
  <2>2. conversations[job.from] = None /\ Unspent(job.from)
    BY <1>0, Zenon DEF ListInv, WishIsUnspent
  <2>3. QED
    BY <2>1, <2>2
<1>2. PICK r : /\ placed' = placed \cup {r}
               /\ r.by = p /\ r.list = lists[p]
  <2> DEFINE w == [id |-> NextId, by |-> job.from, list |-> lists[job.from],
                   hit |-> job.hit, seasons |-> job.seasons, profile |-> job.profile]
  <2>1. placed' = placed \cup {w}
    BY DEF Store
  <2>2. w.by = p /\ w.list = lists[p]
    BY <1>1
  <2> HIDE DEF w
  <2>3. QED
    BY <2>1, <2>2
<1>3. lists[p] \in Nat
  BY <1>1 DEF ListInv, ListsCounted
<1>4. ListsCounted'
  BY <1>1, <1>2, <1>3 DEF ListInv, ListsCounted
<1>5. OneWishPerList'
  <2>1. \A s \in placed : ~(s.by = p /\ s.list = lists[p])
    BY <1>1, <1>3 DEF Unspent, ListInv, ListsCounted
  <2>2. QED
    BY <1>2, <2>1 DEF ListInv, OneWishPerList
<1>6. OpenIsUnspent'
  <2>1. ASSUME NEW q \in Person, conversations'[q] # None PROVE Unspent(q)'
    <3>1. q # p /\ Unspent(q)
      BY <1>1, <2>1 DEF ListInv, OpenIsUnspent
    <3>2. QED
      BY <1>2, <3>1 DEF Unspent
  <2>2. QED
    BY <2>1 DEF ListInv, OpenIsUnspent
<1>7. QED
  BY <1>4, <1>5, <1>6

LEMMA HandleKeepsLists ==
  ASSUME ListInv, Handle
  PROVE  ListInv'
<1> USE DEF wishes
<1> DEFINE p == job.from
<1>1. job # None => p \in Person
  BY DEF ListInv, WishIsUnspent
<1>2. CASE search
  BY <1>2, SearchKeepsLists
<1>3. CASE \/ SearchFailed \/ NoUser \/ ReadBack \/ Delete \/ DeleteFailed
  BY <1>3, KeepsListsSame, IdleHasNoWish
     DEF SearchFailed, NoUser, ReadBack, Delete, DeleteFailed, Answer, Silence, history, ListInv
<1>4. CASE SeasonsCounted \/ SeasonsUnknown
  <2>1. UNCHANGED wishes /\ job' = None /\ p \in Person /\ conversations[p] # None
    BY <1>1, <1>4 DEF SeasonsCounted, SeasonsUnknown, Answer, At, history, ListInv, WishIsUnspent
  <2>2. \E c : conversations' = [conversations EXCEPT ![p] = c]
    BY <1>4 DEF SeasonsCounted, SeasonsUnknown, Keep, Closed
  <2>3. QED
    BY <2>1, <2>2, KeepsLists, IdleHasNoWish DEF ListInv
<1>5. CASE ProfilesRead \/ ProfilesUnknown
  <2>1. UNCHANGED wishes /\ p \in Person /\ conversations[p] # None
    BY <1>1, <1>5 DEF ProfilesRead, ProfilesUnknown, ask_profile, At, history, ListInv, WishIsUnspent
  <2>2. \/ /\ UNCHANGED conversations
           /\ job'.from = p /\ job'.at = "user"
        \/ /\ \E c : conversations' = [conversations EXCEPT ![p] = c]
           /\ job' = None
    BY <1>5 DEF ProfilesRead, ProfilesUnknown, ask_profile, Await, Keep
  <2>3. WishIsUnspent'
    BY <2>1, <2>2 DEF WishIsUnspent
  <2>4. QED
    BY <2>1, <2>2, <2>3, KeepsLists, KeepsListsSame DEF ListInv
<1>6. CASE seerr_user
  <2>1. UNCHANGED wishes /\ p \in Person
    BY <1>1, <1>6 DEF seerr_user, At, history
  <2>2. CASE job.to = "place"
    <3>1. /\ conversations' = [conversations EXCEPT ![p] = None]
          /\ job'.from = p /\ job'.at = "request"
      BY <1>6, <2>2 DEF seerr_user, Close, Closed, Await
    <3>2. conversations[p] # None
      BY <1>6, <2>2 DEF seerr_user, At, ListInv, WishIsUnspent
    <3>3. Unspent(p)' /\ conversations'[p] = None
      BY <2>1, <3>1, <3>2 DEF Unspent, ListInv, OpenIsUnspent
    <3>4. WishIsUnspent'
      BY <2>1, <3>1, <3>3 DEF WishIsUnspent
    <3>5. QED
      BY <2>1, <3>1, <3>4, KeepsLists DEF ListInv
  <2>3. CASE job.to # "place"
    <3>1. /\ UNCHANGED conversations
          /\ job'.from = p /\ job'.at \in {"owner", "read"}
      BY <1>6, <2>3 DEF seerr_user, Await
    <3>2. QED
      BY <2>1, <3>1, KeepsListsSame DEF WishIsUnspent, ListInv
  <2>4. QED
    BY <2>2, <2>3
<1>7. CASE place
  <2>1. /\ At("request") /\ Store /\ UNCHANGED <<lists, cancelled, conversations>>
        /\ job'.from = p /\ job'.at = "read"
    BY <1>7 DEF place, Await
  <2>2. p \in Person
    BY <1>1, <2>1 DEF At
  <2>3. QED
    BY <2>1, <2>2, StoreKeepsLists DEF WishIsUnspent, ListInv
<1>8. CASE PlaceFailed
  <2>1. /\ At("request") /\ job' = None /\ UNCHANGED <<lists, cancelled, conversations>>
        /\ Store \/ UNCHANGED placed
    BY <1>8 DEF PlaceFailed, Answer
  <2>2. QED
    BY <2>1, StoreKeepsLists, KeepsListsSame, IdleHasNoWish DEF ListInv
<1>9. CASE withdraw
  <2>1. /\ UNCHANGED wishes /\ UNCHANGED conversations /\ p \in Person
        /\ job' = None \/ (job'.from = p /\ job'.at = "delete")
    BY <1>1, <1>9 DEF withdraw, At, Answer, Await, history
  <2>2. QED
    BY <2>1, KeepsListsSame DEF WishIsUnspent, ListInv
<1>10. CASE Send \/ SendFailed
  <2>1. UNCHANGED wishes /\ UNCHANGED <<conversations, job>>
    BY <1>10 DEF Send, SendFailed
  <2>2. QED
    BY <2>1, KeepsListsSame DEF WishIsUnspent, Unspent, ListInv
<1>11. QED
  BY <1>2, <1>3, <1>4, <1>5, <1>6, <1>7, <1>8, <1>9, <1>10 DEF Handle

LEMMA ListInvStarts == Init => ListInv
  BY DEF Init, ListInv, ListsCounted, OpenIsUnspent, WishIsUnspent, OneWishPerList

LEMMA ListInvStep == ListInv /\ [Next]_vars => ListInv'
<1> SUFFICES ASSUME ListInv, [Next]_vars PROVE ListInv'
  OBVIOUS
<1> DEFINE Still == UNCHANGED wishes /\ UNCHANGED <<conversations, job>>
<1>1. Still => ListInv'
  BY KeepsListsSame DEF wishes, WishIsUnspent, Unspent, ListInv
<1>2. ASSUME NEW p \in Person, MessageOf(p) PROVE ListInv'
  BY <1>2, MessageKeepsLists
<1>3. CASE Handle
  BY <1>3, HandleKeepsLists
<1>4. ASSUME NEW p \in Person, MappingChanges(p) PROVE ListInv'
  BY <1>1, <1>4 DEF MappingChanges, history, wishes
<1>5. CASE RequestGone \/ Tick \/ UNCHANGED vars
  BY <1>1, <1>5 DEF RequestGone, Tick, vars, history, wishes
<1>6. CASE Crash
  <2>1. /\ job' = None /\ UNCHANGED <<lists, cancelled>>
        /\ conversations' = [p \in Person |-> None]
        /\ UNCHANGED placed \/ (At("request") /\ Store)
    BY <1>6 DEF Crash
  <2>2. CASE UNCHANGED placed
    <3>1. ListsCounted' /\ OneWishPerList'
      BY <2>1, <2>2 DEF ListInv, ListsCounted, OneWishPerList
    <3>2. OpenIsUnspent'
      BY <2>1 DEF OpenIsUnspent
    <3>3. QED
      BY <2>1, <3>1, <3>2, IdleHasNoWish DEF ListInv
  <2>3. CASE At("request") /\ Store
    BY <2>1, <2>3, StoreKeepsLists, IdleHasNoWish DEF ListInv
  <2>4. QED
    BY <2>1, <2>2, <2>3
<1>7. QED
  BY <1>2, <1>3, <1>4, <1>5, <1>6 DEF Next

LEMMA Lists == Spec => []ListInv
  BY ListInvStarts, ListInvStep, PTL DEF Spec

\* No list leads to a second wish, however answers are repeated, calls fail or
\* are never confirmed, and the process starts again.
THEOREM OneWish == Spec => []OneWishPerList
  BY Lists, PTL DEF ListInv

\* Wishes are stored by the one call that makes them.
LEMMA OnlyStored == [Next]_vars => UNCHANGED placed \/ (At("request") /\ Store)
<1>1. ASSUME NEW p \in Person, MessageOf(p) PROVE UNCHANGED placed
  BY <1>1 DEF MessageOf, Stranger, NotAllowed, TooFast, GetHelp, CancelAll, next_page,
              AskStatus, place_series, answer_profile, choose, SearchFor, AskWithdraw, history
<1>2. Handle => UNCHANGED placed \/ (At("request") /\ Store)
  BY DEF Handle, search, SearchFailed, SeasonsCounted, SeasonsUnknown, ProfilesRead,
         ProfilesUnknown, ask_profile, seerr_user, NoUser, place, PlaceFailed, ReadBack,
         withdraw, Delete, DeleteFailed, Send, SendFailed, history
<1>3. ASSUME NEW p \in Person, MappingChanges(p) PROVE UNCHANGED placed
  BY <1>3 DEF MappingChanges, history
<1>4. RequestGone \/ Tick \/ UNCHANGED vars => UNCHANGED placed
  BY DEF RequestGone, Tick, vars, history
<1>5. Crash => UNCHANGED placed \/ (At("request") /\ Store)
  BY DEF Crash
<1>6. QED
  BY <1>1, <1>2, <1>3, <1>4, <1>5 DEF Next

\* /cancel is final, whichever question it interrupts: what is placed later is
\* of a list that was sent later.
THEOREM CancelEnds == Spec => CancelIsFinal
<1>1. ListInv /\ [Next]_vars => \A r \in placed' \ placed : r.list > cancelled[r.by]
  <2> SUFFICES ASSUME ListInv, [Next]_vars, NEW r \in placed' \ placed
               PROVE  r.list > cancelled[r.by]
    OBVIOUS
  <2>1. At("request") /\ Store
    BY OnlyStored
  <2>2. PICK p \in Person : p = job.from /\ Unspent(p)
    BY <2>1 DEF At, ListInv, WishIsUnspent
  <2>3. r.by = p /\ r.list = lists[p]
    BY <2>1, <2>2 DEF Store
  <2>4. QED
    BY <2>2, <2>3 DEF Unspent, ListInv, ListsCounted
<1>2. QED
  BY <1>1, Lists, PTL DEF CancelIsFinal, Spec

-----------------------------------------------------------------------------
(* Types.                                                                    *)

\* From the choice of a hit to the call that places it.
Wishing == job.at \in {"profiles", "request"} \/ (job.at = "user" /\ job.to = "place")

\* A series is wished for with seasons, a film without.
Fits(hit, seasons) ==
  /\ hit \in Hit /\ seasons \subseteq Nat
  /\ (KindOf[hit] = "tv") = (seasons # {})

\* What an open conversation holds: a list has hits, seasons are asked of a
\* series, and a version of what fits.
Holds(c) ==
  c # None =>
    /\ c \in Conversation
    /\ c.is = "results" => c.hits # <<>>
    /\ c.is = "seasons" => KindOf[c.hit] = "tv"
    /\ c.is = "profile" => c.choices # <<>> /\ Fits(c.hit, c.seasons)

Talks ==
  /\ conversations = [p \in Person |-> conversations[p]]
  /\ \A p \in Person : Holds(conversations[p])

\* What the task carries from await to await.
JobTyped ==
  job # None =>
    /\ job.from \in Person
    /\ job.at = "search" => job.query \in Query /\ job.kind \in Kind /\ job.page \in Nat \ {0}
    /\ job.at = "season_count" => job.hit \in Hit /\ KindOf[job.hit] = "tv"
    /\ Wishing => Fits(job.hit, job.seasons)
    /\ job.at = "read" => ~Asks(job.key)

\* Requests are told apart by their numbers, and the next one is not taken.
Numbered ==
  /\ IsFiniteSet(placed)
  /\ \A r \in requests : r.hit \in Hit /\ r.id \in Nat /\ r.id < NextId
  /\ \A r \in placed : r.id \in Nat /\ r.id < NextId
  /\ \A r, s \in requests : r.id = s.id => r = s

PlacedFits == \A r \in placed : (KindOf[r.hit] = "tv") = (r.seasons # {})

Strangers ==
  /\ told_strangers = [p \in Person |-> told_strangers[p]]
  /\ \A p \in Person : told_strangers[p] \in Nat \cup {None}

OneAwait == job = None \/ reply = None

TypeInv ==
  /\ LimiterInv
  /\ mapping \in [Person -> Member \cup {None}]
  /\ Talks /\ JobTyped /\ Numbered /\ PlacedFits /\ Strangers /\ OneAwait

\* A page that Seerr found, narrowed, is a sequence of hits.
LEMMA FoundIsHits ==
  ASSUME NEW query \in Query, NEW kind, NEW page \in Nat \ {0}
  PROVE  Found(query, kind, page) \in Seq(Hit)
<1>1. CASE page > Len(Pages[query])
  BY <1>1 DEF Found
<1>2. CASE ~(page > Len(Pages[query]))
  <2>1. Pages[query] \in Seq(Seq(Hit))
    BY DialogAssumption
  <2>2. page \in 1..Len(Pages[query])
    BY <1>2, <2>1
  <2>3. Pages[query][page] \in Seq(Hit)
    BY <2>1, <2>2
  <2> DEFINE s == Pages[query][page]
             K == {h \in Hit : kind = None \/ KindOf[h] = kind}
  <2>4. Found(query, kind, page) = Only(s, K)
    BY <1>2 DEF Found
  <2> HIDE DEF s, K
  <2>5. Only(s, K) \in Seq(Hit)
    BY <2>3, OnlyProperties DEF s
  <2>6. QED
    BY <2>4, <2>5
<1>3. QED
  BY <1>1, <1>2

\* What is offered to choose between is what Seerr has.
LEMMA OfferedAreAvailable == order_profiles(Available) \in Seq(ToSet(Available))
<1>1. CASE Configured = <<>>
  BY <1>1, DialogAssumption DEF order_profiles
<1>2. CASE Configured # <<>>
  <2> DEFINE o == Only(Configured, ToSet(Available))
  <2>1. /\ o \in Seq(ToSet(Configured))
        /\ ToSet(o) = ToSet(Configured) \cap ToSet(Available)
    BY DialogAssumption, OnlyProperties
  <2>2. order_profiles(Available) = o
    BY <1>2 DEF order_profiles
  <2> HIDE DEF o
  <2>3. \A i \in 1..Len(o) : o[i] \in ToSet(Available)
    <3>1. DOMAIN o = 1..Len(o)
      BY <2>1
    <3>2. \A i \in DOMAIN o : o[i] \in ToSet(o)
      BY DEF ToSet
    <3>3. QED
      BY <2>1, <3>1, <3>2
  <2>4. o \in Seq(ToSet(Available))
    BY <2>1, <2>3
  <2>5. QED
    BY <2>2, <2>4
<1>3. QED
  BY <1>1, <1>2

-----------------------------------------------------------------------------
(* Conversations and the task, step by step.                                 *)

LEMMA ReplacedHolds ==
  ASSUME Talks, NEW p \in Person, NEW c, Holds(c),
         conversations' = [conversations EXCEPT ![p] = c]
  PROVE  Talks'
<1>1. conversations' = [q \in Person |-> IF q = p THEN c ELSE conversations[q]]
  BY DEF Talks
<1>2. \A q \in Person : Holds(conversations'[q])
  BY <1>1 DEF Talks
<1>3. QED
  BY <1>1, <1>2 DEF Talks, Holds, Fits, Conversation

LEMMA SameTalks == Talks /\ UNCHANGED conversations => Talks'
  BY DEF Talks, Holds, Fits, Conversation

LEMMA DroppedHolds ==
  ASSUME Talks, NEW p \in Person,
         conversations' \in {conversations, Closed(p), Remaining(p)}
  PROVE  Talks'
<1>1. Holds(None)
  BY DEF Holds
<1>2. QED
  BY <1>1, ReplacedHolds, SameTalks DEF Closed, Remaining

LEMMA IdleIsTyped == job' = None => JobTyped'
  BY DEF JobTyped

\* A message is taken up by the task in one of these ways.
LEMMA MessageKeepsTalks ==
  ASSUME TypeInv, NEW p \in Person, MessageOf(p)
  PROVE  Talks' /\ JobTyped'
<1>1. Talks
  BY DEF TypeInv
<1>2. ASSUME NEW query \in Query, NEW kind \in Kind, NEW page \in Nat \ {0},
             job' = [at |-> "search", from |-> p, query |-> query, kind |-> kind, page |-> page]
      PROVE  JobTyped'
  BY <1>2 DEF JobTyped, Wishing
<1>3. CASE Stranger(p) \/ NotAllowed(p) \/ TooFast(p) \/ GetHelp(p)
  <2>1. job' = None /\ UNCHANGED conversations
    BY <1>3 DEF Stranger, tell_stranger_once, NotAllowed, TooFast, GetHelp, Answer, Silence
  <2>2. QED
    BY <1>1, <2>1, SameTalks, IdleIsTyped
<1>4. CASE CancelAll(p)
  <2>1. job' = None /\ conversations' = Closed(p)
    BY <1>4 DEF CancelAll, Silence, Abandon
  <2>2. QED
    BY <1>1, <2>1, DroppedHolds, IdleIsTyped
<1>5. ASSUME NEW t \in Text, place_series(p, t) PROVE Talks' /\ JobTyped'
  <2> DEFINE c == conversations[p]
  <2>1. UNCHANGED conversations
    BY <1>5 DEF place_series
  <2>2. c # None /\ c.is = "seasons" /\ Holds(c)
    BY <1>1, <1>5 DEF place_series, Is, Talks
  <2>3. c.hit \in Hit /\ KindOf[c.hit] = "tv"
    BY <2>2 DEF Holds, Conversation
  <2>4. CASE AnswersSeasons(t, c.hit)
    <3>1. job' = [at |-> "profiles", from |-> p, hit |-> c.hit, seasons |-> SeasonsIn(t)]
      BY <1>5, <2>4 DEF place_series, Begin, Await
    <3>2. SeasonsIn(t) \subseteq Nat /\ SeasonsIn(t) # {}
      <4>1. CASE t = All
        BY <4>1 DEF SeasonsIn, AllSeasons
      <4>2. CASE t # All
        <5>1. t.cmd = "numbers" /\ t.list # {}
          BY <2>4, <4>2 DEF AnswersSeasons
        <5>2. SeasonsIn(t) = t.list /\ t.list \subseteq Nat
          BY <4>2, <5>1, DialogAssumption DEF SeasonsIn
        <5>3. QED
          BY <5>1, <5>2
      <4>3. QED
        BY <4>1, <4>2
    <3>3. QED
      BY <1>1, <2>1, <2>3, <3>1, <3>2, SameTalks DEF JobTyped, Wishing, Fits
  <2>5. CASE ~AnswersSeasons(t, c.hit)
    <3>1. job' = None
      BY <1>5, <2>5 DEF place_series, Answer
    <3>2. QED
      BY <1>1, <2>1, <3>1, SameTalks, IdleIsTyped
  <2>6. QED
    BY <2>4, <2>5
<1>6. ASSUME NEW t \in Text, answer_profile(p, t) PROVE Talks' /\ JobTyped'
  <2> DEFINE c == conversations[p]
  <2>1. UNCHANGED conversations
    BY <1>6 DEF answer_profile
  <2>2. c # None /\ c.is = "profile" /\ Holds(c)
    BY <1>1, <1>6 DEF answer_profile, Is, Talks
  <2>3. Fits(c.hit, c.seasons)
    BY <2>2 DEF Holds
  <2>4. \/ job' = None
        \/ \E profile : job' = [at |-> "user", from |-> p, to |-> "place", hit |-> c.hit,
                                seasons |-> c.seasons, profile |-> profile]
    BY <1>6 DEF answer_profile, Begin, Await
  <2>5. JobTyped'
    BY <2>3, <2>4 DEF JobTyped, Wishing, Fits
  <2>6. QED
    BY <1>1, <2>1, <2>5, SameTalks
<1>7. ASSUME NEW t \in Text, choose(p, t) PROVE Talks' /\ JobTyped'
  <2> DEFINE c == conversations[p]
             h == c.hits[NumberOf(t)]
  <2>1. conversations' \in {conversations, Closed(p)}
    BY <1>7 DEF choose
  <2>2. c # None /\ c.is = "results" /\ Holds(c)
    BY <1>1, <1>7 DEF choose, Is, Talks
  <2>3. c.hits \in Seq(Hit)
    BY <2>2 DEF Holds, Conversation
  <2>4. CASE NumberOf(t) \in DOMAIN c.hits
    <3>1. h \in Hit
      BY <2>3, <2>4
    <3>2. \/ job' = None
          \/ KindOf[h] = "tv" /\ job' = [at |-> "season_count", from |-> p, hit |-> h]
          \/ KindOf[h] # "tv" /\ job' = [at |-> "profiles", from |-> p, hit |-> h, seasons |-> {}]
      BY <1>7 DEF choose, Answer, Begin, Await
    <3> HIDE DEF h
    <3>3. JobTyped'
      BY <3>1, <3>2 DEF JobTyped, Wishing, Fits
    <3>4. QED
      BY <1>1, <2>1, <3>3, DroppedHolds
  <2>5. CASE NumberOf(t) \notin DOMAIN c.hits
    <3>1. job' = None
      BY <1>7, <2>5 DEF choose, Answer
    <3>2. QED
      BY <1>1, <2>1, <3>1, DroppedHolds, IdleIsTyped
  <2>6. QED
    BY <2>4, <2>5
<1>8. CASE next_page(p)
  <2> DEFINE c == conversations[p]
  <2>1. conversations' \in {Closed(p), Remaining(p)}
    BY <1>8 DEF next_page, Search
  <2>2. CASE job' = None
    BY <1>1, <2>1, <2>2, DroppedHolds, IdleIsTyped
  <2>3. CASE job' # None
    <3>1. /\ c # None /\ c.is = "results" /\ Holds(c)
          /\ job' = [at |-> "search", from |-> p, query |-> c.query, kind |-> c.kind,
                     page |-> c.page + 1]
      BY <1>1, <1>8, <2>3 DEF next_page, Search, Is, Talks, Answer, Begin, Await
    <3>2. c.query \in Query /\ c.kind \in Kind /\ c.page + 1 \in Nat \ {0}
      BY <3>1 DEF Holds, Conversation
    <3>3. JobTyped'
      BY <1>2, <3>1, <3>2
    <3>4. QED
      BY <1>1, <2>1, <3>3, DroppedHolds
  <2>4. QED
    BY <2>2, <2>3
<1>9. ASSUME NEW t \in Text, SearchFor(p, t) PROVE Talks' /\ JobTyped'
  <2>1. conversations' \in {Closed(p), Remaining(p)}
    BY <1>9 DEF SearchFor, Search
  <2>2. QueryOf(t) \in Query /\ KindIn(t) \in Kind /\ Literal \in Query /\ None \in Kind
    BY DialogAssumption DEF QueryOf, KindIn, Kind
  <2>3. \/ job' = None
        \/ job' = [at |-> "search", from |-> p, query |-> Literal, kind |-> None, page |-> 1]
        \/ job' = [at |-> "search", from |-> p, query |-> QueryOf(t), kind |-> KindIn(t), page |-> 1]
    BY <1>9 DEF SearchFor, Search, Answer, Begin, Await
  <2>4. JobTyped'
    BY <1>2, <2>2, <2>3, IdleIsTyped
  <2>5. QED
    BY <1>1, <2>1, <2>4, DroppedHolds
<1>10. CASE AskStatus(p) \/ \E t \in Text : AskWithdraw(p, t)
  <2>1. conversations' = Remaining(p)
    BY <1>10 DEF AskStatus, AskWithdraw
  <2>2. job' = None \/ (job'.from = p /\ job'.at = "user" /\ job'.to # "place")
    BY <1>10 DEF AskStatus, AskWithdraw, Answer, Begin, Await
  <2>3. QED
    BY <1>1, <2>1, <2>2, DroppedHolds DEF JobTyped, Wishing
<1>11. QED
  BY <1>3, <1>4, <1>5, <1>6, <1>7, <1>8, <1>9, <1>10 DEF MessageOf

\* And so does every await, once its answer is there.
LEMMA HandleKeepsTalks ==
  ASSUME TypeInv, Handle
  PROVE  Talks' /\ JobTyped'
<1> DEFINE p == job.from
<1>1. Talks /\ JobTyped /\ now \in Nat
  BY DEF TypeInv, LimiterInv, LimiterTypeOK
<1>2. job # None => p \in Person
  BY <1>1 DEF JobTyped
<1>3. CASE search
  <2> DEFINE hits == Found(job.query, job.kind, job.page)
             c == [is |-> "results", query |-> job.query, kind |-> job.kind,
                   page |-> job.page, hits |-> hits, already |-> Already, at |-> now]
  <2>1. /\ job # None /\ p \in Person
        /\ job.query \in Query /\ job.kind \in Kind /\ job.page \in Nat \ {0}
    BY <1>1, <1>2, <1>3 DEF search, At, JobTyped
  <2>2. hits \in Seq(Hit) /\ Already \subseteq Hit
    <3>1. hits \in Seq(Hit)
      BY <2>1, FoundIsHits
    <3>2. Already \subseteq Hit
      BY DEF Already, TypeInv, Numbered
    <3>3. QED
      BY <3>1, <3>2
  <2>3. /\ job' = None
        /\ \/ UNCHANGED conversations
           \/ hits # <<>> /\ conversations' = [conversations EXCEPT ![p] = c]
    BY <1>3 DEF search, Answer, Keep
  <2>4. hits # <<>> => Holds(c)
    <3> HIDE DEF hits
    <3>1. QED
      BY <1>1, <2>1, <2>2 DEF Holds, Conversation
  <2> HIDE DEF c, hits
  <2>5. Talks'
    BY <1>1, <2>1, <2>3, <2>4, SameTalks, ReplacedHolds
  <2>6. QED
    BY <2>3, <2>5, IdleIsTyped
<1>4. CASE \/ SearchFailed \/ NoUser \/ PlaceFailed \/ ReadBack \/ Delete \/ DeleteFailed
  <2>1. job' = None /\ UNCHANGED conversations
    BY <1>4 DEF SearchFailed, NoUser, PlaceFailed, ReadBack, Delete, DeleteFailed, Answer, Silence
  <2>2. QED
    BY <1>1, <2>1, SameTalks, IdleIsTyped
<1>5. CASE SeasonsCounted
  <2> DEFINE c == [is |-> "seasons", hit |-> job.hit, at |-> now]
  <2>1. p \in Person /\ job.hit \in Hit /\ KindOf[job.hit] = "tv"
    BY <1>1, <1>2, <1>5 DEF SeasonsCounted, At, JobTyped
  <2>2. job' = None /\ conversations' = [conversations EXCEPT ![p] = c]
    BY <1>5 DEF SeasonsCounted, Keep, Answer
  <2>3. Holds(c)
    BY <1>1, <2>1 DEF Holds, Conversation
  <2> HIDE DEF c
  <2>4. QED
    BY <1>1, <2>1, <2>2, <2>3, ReplacedHolds, IdleIsTyped
<1>6. CASE SeasonsUnknown
  <2>1. p \in Person /\ job' = None /\ conversations' = Closed(p)
    BY <1>2, <1>6 DEF SeasonsUnknown, At, Answer
  <2>2. QED
    BY <1>1, <2>1, DroppedHolds, IdleIsTyped
<1>7. CASE ProfilesRead \/ ProfilesUnknown
  <2>1. PICK choices \in Seq(ToSet(Available)) : ask_profile(choices)
    <3>1. <<>> \in Seq(ToSet(Available))
      OBVIOUS
    <3>2. QED
      BY <1>7, <3>1, OfferedAreAvailable DEF ProfilesRead, ProfilesUnknown
  <2>2. p \in Person /\ Fits(job.hit, job.seasons)
    BY <1>1, <1>2, <1>7 DEF ProfilesRead, ProfilesUnknown, At, JobTyped, Wishing
  <2>3. CASE choices = <<>>
    <3>1. /\ UNCHANGED conversations
          /\ job' = [at |-> "user", from |-> p, to |-> "place", hit |-> job.hit,
                     seasons |-> job.seasons, profile |-> None]
      BY <2>1, <2>3 DEF ask_profile, Await
    <3>2. JobTyped'
      BY <2>2, <3>1 DEF JobTyped, Wishing, Fits
    <3>3. QED
      BY <1>1, <3>1, <3>2, SameTalks
  <2>4. CASE choices # <<>>
    <3> DEFINE c == ProfileQuestion(job.hit, job.seasons, choices)
    <3>1. job' = None /\ conversations' = [conversations EXCEPT ![p] = c]
      BY <2>1, <2>4 DEF ask_profile, Keep
    <3>2. c = [is |-> "profile", hit |-> job.hit, seasons |-> job.seasons,
               choices |-> choices, at |-> now]
      BY DEF ProfileQuestion
    <3> HIDE DEF c
    <3>3. Holds(c)
      BY <1>1, <2>1, <2>2, <2>4, <3>2 DEF Holds, Conversation, Fits
    <3>4. QED
      BY <1>1, <2>2, <3>1, <3>3, ReplacedHolds, IdleIsTyped
  <2>5. QED
    BY <2>3, <2>4
<1>8. CASE seerr_user
  <2>1. p \in Person /\ conversations' \in {conversations, Closed(p)}
    BY <1>2, <1>8 DEF seerr_user, At, Close
  <2>2. CASE job.to = "place"
    <3>1. Fits(job.hit, job.seasons)
      BY <1>1, <1>8, <2>2 DEF seerr_user, At, JobTyped, Wishing
    <3>2. job' = [at |-> "request", from |-> p, user |-> mapping[p].user, hit |-> job.hit,
                  seasons |-> job.seasons, profile |-> job.profile]
      BY <1>8, <2>2 DEF seerr_user, Await
    <3>3. JobTyped'
      BY <2>1, <3>1, <3>2 DEF JobTyped, Wishing, Fits
    <3>4. QED
      BY <1>1, <2>1, <3>3, DroppedHolds
  <2>3. CASE job.to # "place"
    <3>1. /\ job'.from = p
          /\ job'.at = "owner" \/ (job'.at = "read" /\ ~Asks(job'.key))
      BY <1>8, <2>3 DEF seerr_user, Await, Asks
    <3>2. QED
      BY <1>1, <2>1, <3>1, DroppedHolds DEF JobTyped, Wishing
  <2>4. QED
    BY <2>2, <2>3
<1>9. CASE place \/ withdraw
  <2>1. /\ p \in Person /\ UNCHANGED conversations
        /\ \/ job' = None
           \/ job'.from = p /\ job'.at = "delete"
           \/ job'.from = p /\ job'.at = "read" /\ ~Asks(job'.key)
    BY <1>2, <1>9 DEF place, withdraw, At, Answer, Await, Asks
  <2>2. JobTyped'
    BY <2>1 DEF JobTyped, Wishing
  <2>3. QED
    BY <1>1, <2>1, <2>2, SameTalks
<1>10. CASE Send \/ SendFailed
  <2>1. UNCHANGED <<conversations, job>>
    BY <1>10 DEF Send, SendFailed
  <2>2. JobTyped'
    BY <1>1, <2>1 DEF JobTyped, Wishing, Fits
  <2>3. QED
    BY <1>1, <2>1, <2>2, SameTalks
<1>11. QED
  BY <1>3, <1>4, <1>5, <1>6, <1>7, <1>8, <1>9, <1>10 DEF Handle

LEMMA TalksStep == TypeInv /\ [Next]_vars => Talks' /\ JobTyped'
<1> SUFFICES ASSUME TypeInv, [Next]_vars PROVE Talks' /\ JobTyped'
  OBVIOUS
<1>1. Talks /\ JobTyped
  BY DEF TypeInv
<1>2. UNCHANGED <<conversations, job>> => Talks' /\ JobTyped'
  BY <1>1, SameTalks DEF JobTyped, Wishing, Fits
<1>3. ASSUME NEW p \in Person, MessageOf(p) \/ MappingChanges(p) PROVE Talks' /\ JobTyped'
  BY <1>2, <1>3, MessageKeepsTalks DEF MappingChanges
<1>4. CASE Handle
  BY <1>4, HandleKeepsTalks
<1>5. CASE RequestGone \/ Tick \/ UNCHANGED vars
  BY <1>2, <1>5 DEF RequestGone, Tick, vars
<1>6. CASE Crash
  BY <1>6 DEF Crash, Talks, Holds, JobTyped
<1>7. QED
  BY <1>3, <1>4, <1>5, <1>6 DEF Next

-----------------------------------------------------------------------------
(* Requests, strangers, and one await at a time.                             *)

\* A request is withdrawn: by the task, or in Seerr while the task stays where
\* it is.
Withdrawn(id) == requests' = Without(id) /\ (job' = job \/ (At("delete") /\ id = job.id))

\* Requests are made by the one call that makes them, and go one by one.
LEMMA RequestsChange ==
  [Next]_vars => \/ UNCHANGED <<requests, placed>>
                 \/ At("request") /\ Store
                 \/ placed' = placed /\ \E id : Withdrawn(id)
<1> DEFINE Same == UNCHANGED <<requests, placed>>
           Gone == placed' = placed /\ \E id : Withdrawn(id)
<1>1. ASSUME NEW p \in Person, MessageOf(p) PROVE Same
  BY <1>1 DEF MessageOf, Stranger, NotAllowed, TooFast, GetHelp, CancelAll, next_page,
              AskStatus, place_series, answer_profile, choose, SearchFor, AskWithdraw,
              history, world
<1>2. ASSUME NEW p \in Person, MappingChanges(p) PROVE Same
  BY <1>2 DEF MappingChanges, history
<1>3. place \/ PlaceFailed => Same \/ (At("request") /\ Store)
  BY DEF place, PlaceFailed
<1>4. Delete => Gone
  BY DEF Delete, history, Withdrawn
<1>5. DeleteFailed => Same \/ Gone
  BY DEF DeleteFailed, history, Withdrawn
<1>6. ASSUME Handle PROVE Same \/ (At("request") /\ Store) \/ Gone
  <2>1. CASE \/ search \/ SearchFailed \/ SeasonsCounted \/ SeasonsUnknown \/ ProfilesRead
             \/ ProfilesUnknown \/ seerr_user \/ NoUser \/ ReadBack \/ withdraw \/ Send
             \/ SendFailed
    <3>1. Same
      BY <2>1 DEF search, SearchFailed, SeasonsCounted, SeasonsUnknown, ProfilesRead,
           ProfilesUnknown, ask_profile, seerr_user, NoUser, ReadBack, withdraw, Send,
           SendFailed, history, world
    <3>2. QED
      BY <3>1
  <2> HIDE DEF Same, Gone
  <2>2. QED
    BY <1>3, <1>4, <1>5, <1>6, <2>1, Zenon DEF Handle
<1>7. RequestGone => Gone
  BY DEF RequestGone, history, Withdrawn
<1>8. Tick \/ UNCHANGED vars => Same
  BY DEF Tick, vars, history, world
<1>9. Crash => Same \/ (At("request") /\ Store) \/ Gone
  BY DEF Crash, Withdrawn
<1>10. QED
  BY <1>1, <1>2, <1>6, <1>7, <1>8, <1>9 DEF Next

\* What is made has the next number, and is counted.
LEMMA StoreNumbers ==
  ASSUME TypeInv, At("request"), Store
  PROVE  Numbered' /\ PlacedFits'
<1>1. job # None /\ Fits(job.hit, job.seasons)
  BY DEF At, TypeInv, JobTyped, Wishing
<1>2. PICK w : /\ requests' = requests \cup {w}
               /\ w.id = NextId /\ w.hit = job.hit
  <2> DEFINE w == [id |-> NextId, owner |-> job.user, hit |-> job.hit,
                   seasons |-> job.seasons, profile |-> job.profile]
  <2>1. requests' = requests \cup {w}
    BY DEF Store
  <2>2. w.id = NextId /\ w.hit = job.hit
    OBVIOUS
  <2> HIDE DEF w
  <2>3. QED
    BY <2>1, <2>2
<1>3. PICK v : /\ placed' = placed \cup {v}
               /\ v.id = NextId /\ v.hit = job.hit /\ v.seasons = job.seasons
  <2> DEFINE v == [id |-> NextId, by |-> job.from, list |-> lists[job.from],
                   hit |-> job.hit, seasons |-> job.seasons, profile |-> job.profile]
  <2>1. placed' = placed \cup {v}
    BY DEF Store
  <2>2. v.id = NextId /\ v.hit = job.hit /\ v.seasons = job.seasons
    OBVIOUS
  <2> HIDE DEF v
  <2>3. QED
    BY <2>1, <2>2
<1>4. Numbered /\ PlacedFits
  BY DEF TypeInv
<1>5. /\ IsFiniteSet(placed) /\ Cardinality(placed) \in Nat /\ Cardinality(Stored) \in Nat
  BY <1>4, DialogAssumption, FS_CardinalityType DEF Numbered
<1>6. NextId \in Nat
  BY <1>5 DEF NextId
<1>7. v \notin placed
  BY <1>3, <1>4, <1>6 DEF Numbered
<1>8. IsFiniteSet(placed') /\ Cardinality(placed') = Cardinality(placed) + 1
  BY <1>3, <1>5, <1>7, FS_AddElement
<1>9. NextId' = NextId + 1
  BY <1>5, <1>8 DEF NextId
<1>10. \A r \in requests' : r.hit \in Hit /\ r.id \in Nat /\ r.id < NextId'
  BY <1>1, <1>2, <1>4, <1>6, <1>9 DEF Numbered, Fits
<1>11. \A r \in placed' : r.id \in Nat /\ r.id < NextId'
  BY <1>3, <1>4, <1>6, <1>9 DEF Numbered
<1>12. \A r, s \in requests' : r.id = s.id => r = s
  BY <1>2, <1>4, <1>6 DEF Numbered
<1>13. PlacedFits'
  BY <1>1, <1>3, <1>4 DEF PlacedFits, Fits
<1>14. QED
  BY <1>8, <1>10, <1>11, <1>12, <1>13 DEF Numbered

LEMMA NumberedStep == TypeInv /\ [Next]_vars => Numbered' /\ PlacedFits'
<1> SUFFICES ASSUME TypeInv, [Next]_vars PROVE Numbered' /\ PlacedFits'
  OBVIOUS
<1>1. Numbered /\ PlacedFits
  BY DEF TypeInv
<1>2. ASSUME requests' \subseteq requests, placed' = placed
      PROVE  Numbered' /\ PlacedFits'
  BY <1>1, <1>2 DEF Numbered, PlacedFits, NextId
<1>3. \A id : Withdrawn(id) => requests' \subseteq requests
  BY DEF Withdrawn, Without
<1>4. QED
  BY <1>2, <1>3, RequestsChange, StoreNumbers

\* Strangers are told, forgotten again, and nobody else is noted.
LEMMA StrangersStep == TypeInv /\ [Next]_vars => Strangers'
<1> SUFFICES ASSUME TypeInv, [Next]_vars PROVE Strangers'
  OBVIOUS
<1>1. Strangers /\ now \in Nat
  BY DEF TypeInv, LimiterInv, LimiterTypeOK
<1>2. CASE UNCHANGED told_strangers
  BY <1>1, <1>2 DEF Strangers
<1>3. ASSUME NEW p \in Person, Stranger(p) PROVE Strangers'
  <2>1. PICK recent : /\ recent = [q \in Person |-> recent[q]]
                      /\ \A q \in Person : recent[q] \in Nat \cup {None}
                      /\ told_strangers' \in {recent, [recent EXCEPT ![p] = now]}
    <3> DEFINE recent == [q \in Person |->
                            IF told_strangers[q] # None /\ now - told_strangers[q] < STRANGER_QUIET
                            THEN told_strangers[q] ELSE None]
    <3>1. told_strangers' \in {recent, [recent EXCEPT ![p] = now]}
      BY <1>3 DEF Stranger, tell_stranger_once
    <3>2. \A q \in Person : recent[q] \in Nat \cup {None}
      BY <1>1 DEF Strangers
    <3>3. recent = [q \in Person |-> recent[q]]
      OBVIOUS
    <3> HIDE DEF recent
    <3>4. QED
      BY <3>1, <3>2, <3>3
  <2>2. QED
    BY <1>1, <2>1 DEF Strangers
<1>4. CASE Crash
  BY <1>4 DEF Crash, Strangers
<1>5. ASSUME NEW p \in Person, MessageOf(p) PROVE UNCHANGED told_strangers \/ Stranger(p)
  BY <1>5 DEF MessageOf, NotAllowed, TooFast, GetHelp, CancelAll, next_page,
              AskStatus, place_series, answer_profile, choose, SearchFor, AskWithdraw
<1>6. ASSUME NEW p \in Person, MappingChanges(p) PROVE UNCHANGED told_strangers
  BY <1>6 DEF MappingChanges
<1>7. Handle => UNCHANGED told_strangers
  BY DEF Handle, search, SearchFailed, SeasonsCounted, SeasonsUnknown, ProfilesRead,
         ProfilesUnknown, ask_profile, seerr_user, NoUser, place, PlaceFailed, ReadBack,
         withdraw, Delete, DeleteFailed, Send, SendFailed
<1>8. RequestGone \/ Tick \/ UNCHANGED vars => UNCHANGED told_strangers
  BY DEF RequestGone, Tick, vars
<1>9. QED
  BY <1>2, <1>3, <1>4, <1>5, <1>6, <1>7, <1>8 DEF Next

\* A message is read when nothing is under way, an await goes on to the next
\* one or ends in an answer.
LEMMA OneAwaitStep == OneAwait /\ [Next]_vars => OneAwait'
<1> SUFFICES ASSUME OneAwait, [Next]_vars PROVE job' = None \/ reply' = None
  BY DEF OneAwait
<1>1. ASSUME NEW p \in Person, MessageOf(p) PROVE job' = None \/ reply' = None
  <2>1. Free
    BY <1>1 DEF MessageOf, Stranger, NotAllowed, TooFast, GetHelp, CancelAll, next_page,
                AskStatus, place_series, answer_profile, choose, SearchFor, AskWithdraw,
                Ordinary, Passes
  <2>2. job' = None \/ UNCHANGED reply
    BY <1>1 DEF MessageOf, Stranger, tell_stranger_once, NotAllowed, TooFast, GetHelp,
                CancelAll, next_page, Search, AskStatus, place_series, answer_profile, choose,
                SearchFor, AskWithdraw, Answer, Silence, Begin, Await
  <2>3. QED
    BY <2>1, <2>2 DEF Free
<1>2. CASE Send \/ SendFailed
  BY <1>2 DEF Send, SendFailed
<1>3. CASE Handle /\ ~(Send \/ SendFailed)
  <2>1. job # None
    BY <1>3 DEF Handle, search, SearchFailed, SeasonsCounted, SeasonsUnknown, ProfilesRead,
                ProfilesUnknown, seerr_user, NoUser, place, PlaceFailed, ReadBack,
                withdraw, Delete, DeleteFailed, At
  <2>2. job' = None \/ UNCHANGED reply
    BY <1>3 DEF Handle, search, SearchFailed, SeasonsCounted, SeasonsUnknown, ProfilesRead,
                ProfilesUnknown, ask_profile, seerr_user, NoUser, place, PlaceFailed, ReadBack,
                withdraw, Delete, DeleteFailed, Answer, Silence, Await
  <2>3. QED
    BY <2>1, <2>2 DEF OneAwait
<1>4. ASSUME NEW p \in Person, MappingChanges(p) PROVE UNCHANGED <<job, reply>>
  BY <1>4 DEF MappingChanges
<1>5. RequestGone \/ Tick \/ UNCHANGED vars => UNCHANGED <<job, reply>>
  BY DEF RequestGone, Tick, vars
<1>6. Crash => job' = None
  BY DEF Crash
<1>7. QED
  BY <1>1, <1>2, <1>3, <1>4, <1>5, <1>6 DEF Next, OneAwait

\* The mapping is swapped for another one, and by nothing of the dialog.
LEMMA MappingStep ==
  [Next]_vars => UNCHANGED mapping \/ \E p \in Person : MappingChanges(p)
<1>1. ASSUME NEW p \in Person, MessageOf(p) PROVE UNCHANGED mapping
  BY <1>1 DEF MessageOf, Stranger, NotAllowed, TooFast, GetHelp, CancelAll, next_page,
              AskStatus, place_series, answer_profile, choose, SearchFor, AskWithdraw, world
<1>2. Handle => UNCHANGED mapping
  BY DEF Handle, search, SearchFailed, SeasonsCounted, SeasonsUnknown, ProfilesRead,
         ProfilesUnknown, ask_profile, seerr_user, NoUser, place, PlaceFailed, ReadBack,
         withdraw, Delete, DeleteFailed, Send, SendFailed, world
<1>3. RequestGone \/ Tick \/ Crash \/ UNCHANGED vars => UNCHANGED mapping
  BY DEF RequestGone, Tick, Crash, vars, world
<1>4. QED
  BY <1>1, <1>2, <1>3 DEF Next

LEMMA TypeInvStarts == Init => TypeInv
<1> SUFFICES ASSUME Init PROVE TypeInv
  OBVIOUS
<1>1. LimiterInv
  BY LimiterStarts DEF Init
<1>2. mapping \in [Person -> Member \cup {None}]
  BY DialogAssumption DEF Init
<1>3. Talks /\ JobTyped /\ Strangers /\ OneAwait /\ PlacedFits
  BY DEF Init, Talks, Holds, JobTyped, Strangers, OneAwait, PlacedFits
<1>4. Numbered
  <2>1. requests = Stored /\ placed = {} /\ Cardinality(Stored) \in Nat
    BY DialogAssumption, FS_CardinalityType DEF Init
  <2>2. IsFiniteSet(placed) /\ Cardinality(placed) = 0
    BY <2>1, FS_EmptySet
  <2>3. NextId = Cardinality(Stored) + 1
    BY <2>1, <2>2 DEF NextId
  <2>4. QED
    BY <2>1, <2>2, <2>3, DialogAssumption DEF Numbered
<1>5. QED
  BY <1>1, <1>2, <1>3, <1>4 DEF TypeInv

LEMMA TypeInvStep == TypeInv /\ [Next]_vars => TypeInv'
<1> SUFFICES ASSUME TypeInv, [Next]_vars PROVE TypeInv'
  OBVIOUS
<1>1. LimiterInv'
  BY DialogStep, LimiterStep DEF TypeInv
<1>2. mapping' \in [Person -> Member \cup {None}]
  BY MappingStep DEF TypeInv, MappingChanges
<1>3. OneAwait'
  BY OneAwaitStep DEF TypeInv
<1>4. QED
  BY <1>1, <1>2, <1>3, TalksStep, NumberedStep, StrangersStep DEF TypeInv

LEMMA Typed == Spec => []TypeInv
  BY TypeInvStarts, TypeInvStep, PTL DEF Spec

\* Whatever is sent, answered, lost or swapped, every reachable state of the
\* dialog is well typed: an open list has hits, a question choices, a series
\* that is wished for seasons and a film none (dialog/mod.rs Conversation), and
\* no answer is on its way while the task waits for Seerr.
THEOREM DialogTypeCorrect == Spec => []TypeOK
<1>1. TypeInv => TypeOK
  <2> SUFFICES ASSUME TypeInv PROVE TypeOK
    OBVIOUS
  <2>1. LimiterTypeOK /\ mapping \in [Person -> Member \cup {None}] /\ (job = None \/ reply = None)
    BY DEF TypeInv, LimiterInv, OneAwait
  <2>2. \A p \in Person :
          /\ conversations[p] # None => conversations[p] \in Conversation
          /\ Is(p, "results") => conversations[p].hits # <<>>
          /\ Is(p, "profile") => conversations[p].choices # <<>>
          /\ Is(p, "profile") =>
               (KindOf[conversations[p].hit] = "tv") = (conversations[p].seasons # {})
    BY DEF TypeInv, Talks, Holds, Fits, Is
  <2>3. \A p \in Person : told_strangers[p] \in Nat \cup {None}
    BY DEF TypeInv, Strangers
  <2>4. \A r \in placed : (KindOf[r.hit] = "tv") = (r.seasons # {})
    BY DEF TypeInv, PlacedFits
  <2>5. QED
    BY <2>1, <2>2, <2>3, <2>4 DEF TypeOK
<1>2. QED
  BY <1>1, Typed, PTL

-----------------------------------------------------------------------------
(* For whom the bot speaks.                                                  *)

\* Whoever the task acts for is an account its writer has had meanwhile, and
\* the request it is about to delete is one of theirs.
Spoken ==
  job # None =>
    /\ mapping[job.from] # None => mapping[job.from].user \in speaksFor
    /\ job.at \in {"request", "owner"} => job.user \in speaksFor
    /\ job.at = "delete" => \A r \in requests : r.id = job.id => r.owner \in speaksFor

\* A message is handled for the account that wrote it.
LEMMA MessageSpeaks ==
  ASSUME NEW p \in Person, MessageOf(p)
  PROVE  Spoken'
<1>1. CASE job' = None
  BY <1>1 DEF Spoken
<1>2. CASE job' # None
  <2> DEFINE Begun == /\ UNCHANGED mapping /\ speaksFor' = {mapping[p].user}
                      /\ job'.from = p /\ job'.at \notin {"request", "owner", "delete"}
  <2>1. ASSUME NEW t \in Text, place_series(p, t) PROVE Begun
    BY <1>2, <2>1 DEF place_series, Answer, Begin, Await, world
  <2>2. ASSUME NEW t \in Text, answer_profile(p, t) PROVE Begun
    BY <1>2, <2>2 DEF answer_profile, Begin, Await, world
  <2>3. ASSUME NEW t \in Text, choose(p, t) PROVE Begun
    BY <1>2, <2>3 DEF choose, Answer, Begin, Await, world
  <2>4. ASSUME NEW t \in Text, SearchFor(p, t) PROVE Begun
    BY <1>2, <2>4 DEF SearchFor, Search, Answer, Begin, Await, world
  <2>5. ASSUME NEW t \in Text, AskWithdraw(p, t) PROVE Begun
    BY <1>2, <2>5 DEF AskWithdraw, Answer, Begin, Await, world
  <2>6. next_page(p) => Begun
    BY <1>2 DEF next_page, Search, Answer, Begin, Await, world
  <2>7. AskStatus(p) => Begun
    BY <1>2 DEF AskStatus, Begin, Await, world
  <2>8. ~(Stranger(p) \/ NotAllowed(p) \/ TooFast(p) \/ GetHelp(p) \/ CancelAll(p))
    BY <1>2 DEF Stranger, tell_stranger_once, NotAllowed, TooFast, GetHelp, CancelAll,
                Answer, Silence
  <2>9. Begun
    <3> HIDE DEF Begun
    <3> QED  BY <2>1, <2>2, <2>3, <2>4, <2>5, <2>6, <2>7, <2>8 DEF MessageOf
  <2>10. QED
    BY <2>9 DEF Spoken
<1>3. QED
  BY <1>1, <1>2

\* It goes on for that account, as it is looked up, and checks whose request it
\* deletes.
LEMMA HandleSpeaks ==
  ASSUME TypeInv, Spoken, Handle
  PROVE  Spoken'
<1>1. CASE job' = None
  BY <1>1 DEF Spoken
<1>2. CASE Send \/ SendFailed
  <2>1. UNCHANGED <<mapping, requests, job, speaksFor>>
    BY <1>2 DEF Send, SendFailed, world
  <2>2. QED
    BY <2>1 DEF Spoken
<1>3. CASE job' # None /\ (ProfilesRead \/ ProfilesUnknown \/ place)
  <2>1. /\ job # None /\ job'.from = job.from /\ job'.at \in {"user", "read"}
        /\ UNCHANGED <<mapping, speaksFor>>
    BY <1>3 DEF ProfilesRead, ProfilesUnknown, ask_profile, place, At, Await, world
  <2>2. QED
    BY <2>1 DEF Spoken
<1>4. CASE seerr_user
  <2>1. /\ job # None /\ job'.from = job.from /\ mapping[job.from] # None
        /\ job'.at \in {"request", "owner", "read"}
        /\ job'.at \in {"request", "owner"} => job'.user = mapping[job.from].user
        /\ UNCHANGED <<mapping, speaksFor>>
    BY <1>4 DEF seerr_user, At, Await, world
  <2>2. QED
    BY <2>1 DEF Spoken
<1>5. CASE job' # None /\ withdraw
  <2>1. /\ job # None /\ job.at = "owner" /\ Owns(job.id, job.user)
        /\ job'.from = job.from /\ job'.at = "delete" /\ job'.id = job.id
        /\ UNCHANGED <<mapping, requests, speaksFor>>
    BY <1>5 DEF withdraw, At, Answer, Await, world
  <2>2. PICK mine \in requests : mine.id = job.id /\ mine.owner = job.user
    BY <2>1 DEF Owns
  <2>3. \A r \in requests : r.id = job.id => r = mine
    BY <2>2 DEF TypeInv, Numbered
  <2>4. \A r \in requests : r.id = job.id => r.owner \in speaksFor
    BY <2>1, <2>2, <2>3 DEF Spoken
  <2>5. QED
    BY <2>1, <2>4 DEF Spoken
<1>6. job' = None \/ Send \/ SendFailed \/ ProfilesRead \/ ProfilesUnknown \/ place
        \/ seerr_user \/ withdraw
  BY DEF Handle, search, SearchFailed, SeasonsCounted, SeasonsUnknown, NoUser, PlaceFailed,
         ReadBack, Delete, DeleteFailed, Answer, Silence
<1>7. QED
  BY <1>1, <1>2, <1>3, <1>4, <1>5, <1>6

LEMMA SpokenStep == TypeInv /\ Spoken /\ [Next]_vars => Spoken'
<1> SUFFICES ASSUME TypeInv, Spoken, [Next]_vars PROVE Spoken'
  OBVIOUS
<1>1. ASSUME NEW p \in Person, MessageOf(p) PROVE Spoken'
  BY <1>1, MessageSpeaks
<1>2. CASE Handle
  BY <1>2, HandleSpeaks
<1>3. ASSUME NEW p \in Person, MappingChanges(p) PROVE Spoken'
  <2>1. UNCHANGED <<requests, job>> /\ speaksFor \subseteq speaksFor'
    BY <1>3 DEF MappingChanges
  <2>2. ASSUME job # None, mapping'[job.from] # None
        PROVE  mapping'[job.from].user \in speaksFor'
    <3>1. CASE job.from = p
      BY <1>3, <2>2, <3>1 DEF MappingChanges, TypeInv
    <3>2. CASE job.from # p
      <4>1. mapping'[job.from] = mapping[job.from]
        BY <1>3, <2>2, <3>2 DEF MappingChanges, TypeInv, JobTyped
      <4>2. QED
        BY <2>1, <2>2, <4>1 DEF Spoken
    <3>3. QED
      BY <3>1, <3>2
  <2>3. QED
    BY <2>1, <2>2 DEF Spoken
<1>4. CASE RequestGone \/ Tick \/ UNCHANGED vars
  <2>1. UNCHANGED <<mapping, job, speaksFor>> /\ requests' \subseteq requests
    BY <1>4 DEF RequestGone, Without, Tick, vars, world
  <2>2. QED
    BY <2>1 DEF Spoken
<1>5. CASE Crash
  BY <1>5 DEF Crash, Spoken
<1>6. QED
  BY <1>1, <1>2, <1>3, <1>4, <1>5 DEF Next

LEMMA SpokenAlways == Spec => [](TypeInv /\ Spoken)
<1>1. Init => Spoken
  BY DEF Init, Spoken
<1>2. QED
  BY <1>1, TypeInvStarts, TypeInvStep, SpokenStep, PTL DEF Spec

\* Nothing is made or deleted in Seerr, where the bot may do anything, but for
\* an account that whoever wrote the message had while it was handled
\* (dialog/mod.rs withdraw, place; seerr/mod.rs withdraw).
THEOREM SpeaksForItsWriter == Spec => OnBehalfOfWriter
<1>1. TypeInv /\ Spoken /\ [Next]_vars =>
        (job # None /\ job' # job =>
           /\ \A r \in requests' \ requests : r.owner \in speaksFor
           /\ \A r \in requests \ requests' : r.owner \in speaksFor)
  <2> SUFFICES ASSUME TypeInv, Spoken, [Next]_vars, job # None, job' # job
               PROVE  /\ \A r \in requests' \ requests : r.owner \in speaksFor
                      /\ \A r \in requests \ requests' : r.owner \in speaksFor
    OBVIOUS
  <2>1. CASE At("request") /\ Store
    <3>1. job.user \in speaksFor
      BY <2>1 DEF At, Spoken
    <3>2. requests \subseteq requests' /\ \A r \in requests' \ requests : r.owner = job.user
      BY <2>1 DEF Store
    <3>3. QED
      BY <3>1, <3>2
  <2>2. ASSUME NEW id, Withdrawn(id)
        PROVE  /\ requests' \subseteq requests
               /\ \A r \in requests \ requests' : r.owner \in speaksFor
    <3>1. At("delete") /\ requests' = Without(job.id)
      BY <2>2 DEF Withdrawn
    <3>2. QED
      BY <3>1 DEF At, Without, Spoken
  <2>3. QED
    BY <2>1, <2>2, RequestsChange
<1>2. QED
  BY <1>1, SpokenAlways, PTL DEF Spec, OnBehalfOfWriter

-----------------------------------------------------------------------------
(* What is placed is what was meant.                                         *)

\* The question p has before them once the answer on its way has arrived.
InSight(p) ==
  IF reply # None /\ reply.to = p /\ Asks(reply.key)
  THEN [key |-> reply.key, list |-> reply.list, lost |-> FALSE] ELSE screen[p]

\* The numbers of the question s, unless one after it was lost, are those the
\* conversation c counts by.
Shows(s, c) ==
  ~s.lost /\ c # None =>
    /\ c.is = "results" /\ s.key = "list" => s.list = c.hits
    /\ c.is = "profile" /\ s.key = "profile_question" => s.list = c.choices

SeenAsKept ==
  /\ screen = [p \in Person |-> screen[p]]
  /\ \A p \in Person : screen[p] = [key |-> screen[p].key, list |-> screen[p].list,
                                    lost |-> screen[p].lost]
  /\ \A p \in Person : Shows(InSight(p), conversations[p])

IsMeaning(m) == m = [hit |-> m.hit, seasons |-> m.seasons, profile |-> m.profile, sure |-> m.sure]

\* The question c is about what its person has meant so far.
AskedOf(m, c) ==
  c # None =>
    /\ c.is = "seasons" => IsMeaning(m) /\ (m.sure => m.hit = c.hit /\ m.profile = None)
    /\ c.is = "profile" => IsMeaning(m) /\ (m.sure => m.hit = c.hit /\ m.seasons = c.seasons)

MeantAsAsked ==
  /\ meant = [p \in Person |-> meant[p]]
  /\ \A p \in Person : AskedOf(meant[p], conversations[p])

\* And what the task j carries towards a wish is what they meant, as far as it
\* has got.
CarriedAs(m, j) ==
  /\ j.at = "season_count" => IsMeaning(m) /\ (m.sure => m.hit = j.hit /\ m.profile = None)
  /\ j.at = "profiles" =>
       /\ IsMeaning(m)
       /\ m.sure => m.hit = j.hit /\ m.seasons = j.seasons /\ m.profile = None
  /\ j.at = "request" \/ (j.at = "user" /\ j.to = "place") =>
       /\ IsMeaning(m)
       /\ m.sure => m.hit = j.hit /\ m.seasons = j.seasons /\ m.profile = j.profile

MeantAsCarried == job # None => CarriedAs(meant[job.from], job)

\* An answer that asks nothing, or nothing by number, leaves in sight what was.
LEMMA NothingNewInSight ==
  ASSUME TypeInv, SeenAsKept, NEW p \in Person, reply = None, UNCHANGED screen,
         conversations' \in {conversations, Closed(p), Remaining(p)},
         \/ reply' = None
         \/ ~Asks(reply'.key)
         \/ reply' = [to |-> p, key |-> "seasons_question", list |-> <<>>]
  PROVE  SeenAsKept'
<1>1. conversations = [q \in Person |-> conversations[q]]
  BY DEF TypeInv, Talks
<1>2. \A q \in Person : conversations'[q] \in {None, conversations[q]}
  BY <1>1 DEF Closed, Remaining
<1>3. \A q \in Person : InSight(q) = screen[q]
  BY DEF InSight
<1>4. \A q \in Person : \/ InSight(q)' = screen[q]
                        \/ InSight(q)' = [key |-> "seasons_question", list |-> <<>>, lost |-> FALSE]
  <2> SUFFICES ASSUME NEW q \in Person, InSight(q)' # screen[q]
               PROVE  InSight(q)' = [key |-> "seasons_question", list |-> <<>>, lost |-> FALSE]
    OBVIOUS
  <2>1. reply' # None /\ Asks(reply'.key)
    BY DEF InSight
  <2>2. reply' = [to |-> p, key |-> "seasons_question", list |-> <<>>]
    BY <2>1
  <2>3. reply'.key = "seasons_question" /\ reply'.list = <<>>
    BY <2>2
  <2>4. InSight(q)' = [key |-> reply'.key, list |-> reply'.list, lost |-> FALSE]
    BY DEF InSight
  <2>5. QED
    BY <2>3, <2>4
<1>5. \A q \in Person : Shows(InSight(q), conversations[q])
  BY DEF SeenAsKept
<1>6. ASSUME NEW q \in Person PROVE Shows(InSight(q)', conversations'[q])
  <2>1. CASE InSight(q)' = screen[q]
    BY <1>2, <1>3, <1>5, <2>1 DEF Shows
  <2>2. CASE InSight(q)' = [key |-> "seasons_question", list |-> <<>>, lost |-> FALSE]
    BY <2>2 DEF Shows
  <2>3. QED
    BY <1>4, <2>1, <2>2
<1>7. /\ screen' = [q \in Person |-> screen'[q]]
      /\ \A q \in Person : screen'[q] = [key |-> screen'[q].key, list |-> screen'[q].list,
                                          lost |-> screen'[q].lost]
  BY DEF SeenAsKept
<1>8. QED
  BY <1>6, <1>7 DEF SeenAsKept

\* A conversation that is opened with its question has that question in sight.
LEMMA QuestionInSight ==
  ASSUME TypeInv, SeenAsKept, NEW p \in Person, reply = None, UNCHANGED screen,
         NEW c, conversations' = [conversations EXCEPT ![p] = c],
         NEW key, NEW list \in Seq(Hit) \cup Seq(ToSet(Available)),
         reply' = [to |-> p, key |-> key, list |-> list], Asks(key),
         Shows([key |-> key, list |-> list, lost |-> FALSE], c)
  PROVE  SeenAsKept'
<1>1. conversations = [q \in Person |-> conversations[q]]
  BY DEF TypeInv, Talks
<1>2. /\ conversations'[p] = c
      /\ \A q \in Person : q # p => conversations'[q] = conversations[q]
  BY <1>1
<1>3. \A q \in Person : InSight(q) = screen[q]
  BY DEF InSight
<1>4. /\ InSight(p)' = [key |-> key, list |-> list, lost |-> FALSE]
      /\ \A q \in Person : q # p => InSight(q)' = screen[q]
  <2>1. reply' # None
    BY DialogAssumption DEF Asks
  <2>2. reply'.to = p /\ reply'.key = key /\ reply'.list = list
    OBVIOUS
  <2>3. QED
    BY <2>1, <2>2 DEF InSight
<1>5. ASSUME NEW q \in Person PROVE Shows(InSight(q)', conversations'[q])
  <2>1. CASE q = p
    BY <1>2, <1>4, <2>1
  <2>2. CASE q # p
    BY <1>2, <1>3, <1>4, <2>2 DEF SeenAsKept
  <2>3. QED
    BY <2>1, <2>2
<1>6. /\ screen' = [q \in Person |-> screen'[q]]
      /\ \A q \in Person : screen'[q] = [key |-> screen'[q].key, list |-> screen'[q].list,
                                          lost |-> screen'[q].lost]
  BY DEF SeenAsKept
<1>7. QED
  BY <1>5, <1>6 DEF SeenAsKept

\* No message changes what its writer has before them, and the list or the
\* question that counts their numbers stays the one they see.
LEMMA MessageKeepsSight ==
  ASSUME TypeInv, SeenAsKept, NEW p \in Person, MessageOf(p)
  PROVE  SeenAsKept'
<1> DEFINE Quiet == /\ reply = None /\ UNCHANGED screen
                    /\ conversations' \in {conversations, Closed(p), Remaining(p)}
                    /\ \/ reply' = None
                       \/ ~Asks(reply'.key)
                       \/ reply' = [to |-> p, key |-> "seasons_question", list |-> <<>>]
<1>1. Stranger(p) => Quiet
  BY DEF Stranger, Free, tell_stranger_once, Silence, Answer, Say, Asks, history
<1>2. NotAllowed(p) => Quiet
  BY DEF NotAllowed, Free, Answer, Say, Asks, history
<1>3. TooFast(p) => Quiet
  BY DEF TooFast, Free, Silence, Answer, Say, Asks, history
<1>4. next_page(p) => Quiet
  BY DEF next_page, Ordinary, Passes, Free, Search, Begin, Await, Answer, Say, Asks, history
<1>5. AskStatus(p) => Quiet
  BY DEF AskStatus, Ordinary, Passes, Free, Begin, Await, history
<1>6. GetHelp(p) => Quiet
  BY DEF GetHelp, Passes, Free, Answer, Say, Asks, history
<1>7. CancelAll(p) => Quiet
  BY DEF CancelAll, Passes, Free, Silence, Abandon
<1>8. ASSUME NEW t \in Text, place_series(p, t) PROVE Quiet
  BY <1>8 DEF place_series, Passes, Free, Begin, Await, Answer, Say
<1>9. ASSUME NEW t \in Text, choose(p, t) PROVE Quiet
  BY <1>9 DEF choose, Ordinary, Passes, Free, Begin, Await, Answer, Say, Asks
<1>10. ASSUME NEW t \in Text, SearchFor(p, t) PROVE Quiet
  BY <1>10 DEF SearchFor, Ordinary, Passes, Free, Search, Begin, Await, Answer, Say, Asks, history
<1>11. ASSUME NEW t \in Text, AskWithdraw(p, t) PROVE Quiet
  BY <1>11 DEF AskWithdraw, Ordinary, Passes, Free, Begin, Await, Answer, Say, Asks, history
<1>12. Quiet => SeenAsKept'
  BY NothingNewInSight
<1>13. ASSUME NEW t \in Text, answer_profile(p, t) PROVE SeenAsKept'
  <2> DEFINE c == conversations[p]
  <2>1. /\ reply = None /\ UNCHANGED <<screen, conversations>>
        /\ \/ reply' = None
           \/ reply' = [to |-> p, key |-> "profile_question", list |-> c.choices]
    BY <1>13 DEF answer_profile, Passes, Free, Begin, Await, Say
  <2>2. CASE reply' = None
    BY <2>1, <2>2, NothingNewInSight
  <2>3. CASE reply' = [to |-> p, key |-> "profile_question", list |-> c.choices]
    <3>1. c # None /\ c.is = "profile" /\ Holds(c)
      BY <1>13 DEF answer_profile, Is, TypeInv, Talks
    <3>2. c.choices \in Seq(Hit) \cup Seq(ToSet(Available))
      BY <3>1 DEF Holds, Conversation
    <3>3. conversations' = [conversations EXCEPT ![p] = c]
      BY <2>1 DEF TypeInv, Talks
    <3>4. Shows([key |-> "profile_question", list |-> c.choices, lost |-> FALSE], c)
      BY <3>1 DEF Shows
    <3>5. Asks("profile_question")
      BY DEF Asks
    <3> HIDE DEF c
    <3>6. QED
      BY <2>1, <2>3, <3>2, <3>3, <3>4, <3>5, QuestionInSight
  <2>4. QED
    BY <2>1, <2>2, <2>3
<1> HIDE DEF Quiet
<1>14. QED
  BY <1>1, <1>2, <1>3, <1>4, <1>5, <1>6, <1>7, <1>8, <1>9, <1>10, <1>11, <1>12, <1>13
     DEF MessageOf

\* What the task asks is about the conversation it opens with the question.
LEMMA HandleKeepsSight ==
  ASSUME TypeInv, SeenAsKept, Handle
  PROVE  SeenAsKept'
<1> DEFINE p == job.from
           Busy == /\ job # None /\ reply = None /\ p \in Person /\ UNCHANGED screen
           Quiet == /\ Busy
                    /\ conversations' \in {conversations, Closed(p)}
                    /\ reply' = None \/ ~Asks(reply'.key)
<1>1. ASSUME job # None PROVE reply = None /\ p \in Person
  BY <1>1 DEF TypeInv, OneAwait, JobTyped
<1>2. SearchFailed => Quiet
  BY <1>1 DEF SearchFailed, At, Answer, Say, Asks, history
<1>3. SeasonsUnknown => Quiet
  BY <1>1 DEF SeasonsUnknown, At, Answer, Say, Asks, history
<1>4. seerr_user => Quiet
  BY <1>1 DEF seerr_user, At, Await, Close, history
<1>5. NoUser => Quiet
  BY <1>1 DEF NoUser, At, Silence, Answer, Say, Asks, history
<1>6. place => Quiet
  BY <1>1 DEF place, At, Await
<1>7. PlaceFailed => Quiet
  BY <1>1 DEF PlaceFailed, At, Answer, Say, Asks
<1>8. ReadBack => Quiet
  BY <1>1 DEF ReadBack, At, Answer, Say, TypeInv, JobTyped, history
<1>9. withdraw => Quiet
  BY <1>1 DEF withdraw, At, Await, Answer, Say, Asks, history
<1>10. Delete => Quiet
  BY <1>1 DEF Delete, At, Answer, Say, Asks, history
<1>11. DeleteFailed => Quiet
  BY <1>1 DEF DeleteFailed, At, Answer, Say, Asks, history
<1>12. Quiet => SeenAsKept'
  BY NothingNewInSight
<1>13. ASSUME search PROVE SeenAsKept'
  <2> DEFINE hits == Found(job.query, job.kind, job.page)
             c == [is |-> "results", query |-> job.query, kind |-> job.kind, page |-> job.page,
                   hits |-> hits, already |-> Already, at |-> now]
  <2>1. Busy
    BY <1>1, <1>13 DEF search, At
  <2>2. CASE hits = <<>>
    <3>1. UNCHANGED conversations /\ ~Asks(reply'.key)
      BY <1>13, <2>2 DEF search, Answer, Say, Asks
    <3>2. QED
      BY <1>12, <2>1, <3>1
  <2>3. CASE hits # <<>>
    <3>1. conversations' = [conversations EXCEPT ![p] = c]
      BY <1>13, <2>3 DEF search, Keep
    <3>2. reply' = [to |-> p, key |-> "list", list |-> hits]
      BY <1>13, <2>3 DEF search, Say
    <3>3. hits \in Seq(Hit) \cup Seq(ToSet(Available))
      BY <1>13, FoundIsHits DEF search, At, TypeInv, JobTyped
    <3>4. Shows([key |-> "list", list |-> hits, lost |-> FALSE], c)
      BY DEF Shows
    <3>5. Asks("list")
      BY DEF Asks
    <3> HIDE DEF c, hits, p
    <3>6. QED
      BY <2>1, <3>1, <3>2, <3>3, <3>4, <3>5, QuestionInSight
  <2>4. QED
    BY <2>2, <2>3
<1>14. ASSUME SeasonsCounted PROVE SeenAsKept'
  <2> DEFINE c == [is |-> "seasons", hit |-> job.hit, at |-> now]
  <2>1. Busy /\ conversations' = [conversations EXCEPT ![p] = c]
    BY <1>1, <1>14 DEF SeasonsCounted, At, Keep, history
  <2>2. reply' = [to |-> p, key |-> "seasons_question", list |-> <<>>]
    BY <1>14 DEF SeasonsCounted, Answer, Say
  <2>3. Shows([key |-> "seasons_question", list |-> <<>>, lost |-> FALSE], c)
    BY DEF Shows
  <2>4. /\ Asks("seasons_question")
        /\ <<>> \in Seq(Hit) \cup Seq(ToSet(Available))
    BY DEF Asks
  <2> HIDE DEF c, p
  <2>5. QED
    BY <2>1, <2>2, <2>3, <2>4, QuestionInSight
<1>15. ASSUME NEW choices \in Seq(ToSet(Available)), job # None, ask_profile(choices)
       PROVE  SeenAsKept'
  <2> DEFINE c == ProfileQuestion(job.hit, job.seasons, choices)
  <2>1. Busy
    BY <1>1, <1>15 DEF ask_profile, history
  <2>2. CASE choices = <<>>
    <3>1. UNCHANGED <<conversations, reply>>
      BY <1>15, <2>2 DEF ask_profile, Await
    <3>2. QED
      BY <1>12, <2>1, <3>1
  <2>3. CASE choices # <<>>
    <3>1. conversations' = [conversations EXCEPT ![p] = c]
      BY <1>15, <2>3 DEF ask_profile, Keep
    <3>2. reply' = [to |-> p, key |-> "profile_question", list |-> choices]
      BY <1>15, <2>3 DEF ask_profile, Say
    <3>3. Shows([key |-> "profile_question", list |-> choices, lost |-> FALSE], c)
      BY DEF Shows, ProfileQuestion
    <3>4. /\ Asks("profile_question")
          /\ choices \in Seq(Hit) \cup Seq(ToSet(Available))
      BY <1>15 DEF Asks
    <3> HIDE DEF c, p
    <3>5. QED
      BY <2>1, <3>1, <3>2, <3>3, <3>4, QuestionInSight
  <2>4. QED
    BY <2>2, <2>3
<1>16. ProfilesRead \/ ProfilesUnknown => SeenAsKept'
  <2>1. ProfilesRead => SeenAsKept'
    BY <1>15, OfferedAreAvailable DEF ProfilesRead, At
  <2>2. ProfilesUnknown => SeenAsKept'
    <3>1. <<>> \in Seq(ToSet(Available))
      OBVIOUS
    <3>2. QED
      BY <1>15, <3>1 DEF ProfilesUnknown, At
  <2>3. QED
    BY <2>1, <2>2
<1>17. ASSUME Send PROVE SeenAsKept'
  <2>1. reply # None /\ reply' = None /\ UNCHANGED conversations
    BY <1>17 DEF Send
  <2>2. \A q \in Person : screen'[q] = InSight(q) /\ InSight(q)' = screen'[q]
    BY <1>17, <2>1 DEF Send, InSight, SeenAsKept
  <2>3. screen' = [q \in Person |-> screen'[q]]
    BY <1>17 DEF Send, SeenAsKept
  <2>4. \A q \in Person : screen'[q] = [key |-> screen'[q].key, list |-> screen'[q].list,
                                        lost |-> screen'[q].lost]
    BY <2>2 DEF InSight, SeenAsKept
  <2>5. \A q \in Person : Shows(InSight(q)', conversations'[q])
    BY <2>1, <2>2 DEF SeenAsKept
  <2>6. QED
    BY <2>3, <2>4, <2>5 DEF SeenAsKept
<1>18. ASSUME SendFailed PROVE SeenAsKept'
  <2>1. reply # None /\ reply' = None /\ UNCHANGED conversations
    BY <1>18 DEF SendFailed
  <2>2. screen' = [q \in Person |-> screen'[q]]
    BY <1>18 DEF SendFailed, SeenAsKept
  <2>3. ASSUME NEW q \in Person
        PROVE  \/ /\ Asks(reply.key) /\ reply.to = q
                  /\ screen'[q] = [key |-> screen[q].key, list |-> screen[q].list, lost |-> TRUE]
               \/ screen'[q] = screen[q] /\ InSight(q) = screen[q]
    <3>1. screen[q] = [key |-> screen[q].key, list |-> screen[q].list, lost |-> screen[q].lost]
      BY DEF SeenAsKept
    <3>2. screen = [r \in Person |-> screen[r]]
      BY DEF SeenAsKept
    <3>3. CASE Asks(reply.key) /\ reply.to = q
      BY <1>18, <3>1, <3>2, <3>3 DEF SendFailed
    <3>4. CASE ~(Asks(reply.key) /\ reply.to = q)
      BY <1>18, <3>2, <3>4 DEF SendFailed, InSight
    <3>5. QED
      BY <3>3, <3>4
  <2>4. \A q \in Person : screen'[q] = [key |-> screen'[q].key, list |-> screen'[q].list,
                                        lost |-> screen'[q].lost]
    BY <2>3 DEF SeenAsKept
  <2>5. \A q \in Person : InSight(q)' = screen'[q]
    BY <2>1 DEF InSight
  <2>6. ASSUME NEW q \in Person PROVE Shows(InSight(q)', conversations'[q])
    <3>1. CASE screen'[q].lost = TRUE
      BY <2>5, <3>1 DEF Shows
    <3>2. CASE InSight(q) = screen'[q]
      BY <2>1, <2>5, <3>2 DEF SeenAsKept
    <3>3. CASE screen'[q] = screen[q] /\ InSight(q) = screen[q]
      BY <3>2, <3>3
    <3>4. screen'[q] = [key |-> screen[q].key, list |-> screen[q].list, lost |-> TRUE]
            => screen'[q].lost = TRUE
      OBVIOUS
    <3>5. QED
      BY <2>3, <3>1, <3>3, <3>4
  <2>7. QED
    BY <2>2, <2>4, <2>6 DEF SeenAsKept
<1> HIDE DEF Quiet
<1>19. QED
  BY <1>2, <1>3, <1>4, <1>5, <1>6, <1>7, <1>8, <1>9, <1>10, <1>11, <1>12, <1>13, <1>14,
     <1>16, <1>17, <1>18 DEF Handle

LEMMA SeenStep == TypeInv /\ SeenAsKept /\ [Next]_vars => SeenAsKept'
<1> SUFFICES ASSUME TypeInv, SeenAsKept, [Next]_vars PROVE SeenAsKept'
  OBVIOUS
<1>1. ASSUME NEW p \in Person, MessageOf(p) PROVE SeenAsKept'
  BY <1>1, MessageKeepsSight
<1>2. CASE Handle
  BY <1>2, HandleKeepsSight
<1>3. UNCHANGED <<screen, reply, conversations>> => SeenAsKept'
  BY DEF SeenAsKept, InSight
<1>4. ASSUME NEW p \in Person, MappingChanges(p) PROVE SeenAsKept'
  BY <1>3, <1>4 DEF MappingChanges, history
<1>5. CASE RequestGone \/ Tick \/ UNCHANGED vars
  BY <1>3, <1>5 DEF RequestGone, Tick, vars, history
<1>6. CASE Crash
  BY <1>6 DEF Crash, SeenAsKept, Shows
<1>7. QED
  BY <1>1, <1>2, <1>4, <1>5, <1>6 DEF Next

\* A task like this is not about to place anything.
Idle(j) ==
  j # None => /\ j.at \notin {"season_count", "profiles", "request"}
              /\ ~(j.at = "user" /\ j.to = "place")

LEMMA MeantStays ==
  ASSUME MeantAsAsked, UNCHANGED meant,
         \A q \in Person : conversations'[q] \in {None, conversations[q]}
                             \/ (conversations'[q] # None => conversations'[q].is = "results")
  PROVE  MeantAsAsked'
BY DEF MeantAsAsked, AskedOf

LEMMA IdleCarriesNothing == Idle(job') => MeantAsCarried'
BY DEF Idle, MeantAsCarried, CarriedAs

\* An answer means what the question before the person says, and that is the
\* question the dialog has open.
LEMMA MessageKeepsMeaning ==
  ASSUME TypeInv, SeenAsKept, MeantAsAsked, NEW p \in Person, MessageOf(p)
  PROVE  MeantAsAsked' /\ MeantAsCarried'
<1> DEFINE Quiet == /\ UNCHANGED meant
                    /\ conversations' \in {conversations, Closed(p), Remaining(p)}
                    /\ Idle(job')
           c == conversations[p]
           m == meant[p]
           s == screen[p]
<1>1. Stranger(p) => Quiet
  BY DEF Stranger, tell_stranger_once, Silence, Answer, history, Idle
<1>2. NotAllowed(p) => Quiet
  BY DEF NotAllowed, Answer, history, Idle
<1>3. TooFast(p) => Quiet
  BY DEF TooFast, Silence, Answer, history, Idle
<1>4. next_page(p) => Quiet
  BY DEF next_page, Search, Begin, Await, Answer, history, Idle
<1>5. AskStatus(p) => Quiet
  BY DEF AskStatus, Begin, Await, history, Idle
<1>6. GetHelp(p) => Quiet
  BY DEF GetHelp, Answer, history, Idle
<1>7. CancelAll(p) => Quiet
  BY DEF CancelAll, Silence, Abandon, Idle
<1>8. ASSUME NEW t \in Text, SearchFor(p, t) PROVE Quiet
  BY <1>8 DEF SearchFor, Search, Begin, Await, Answer, history, Idle
<1>9. ASSUME NEW t \in Text, AskWithdraw(p, t) PROVE Quiet
  BY <1>9 DEF AskWithdraw, Begin, Await, Answer, history, Idle
<1>10. conversations = [q \in Person |-> conversations[q]] /\ Holds(c)
  BY DEF TypeInv, Talks
<1>11. ASSUME Quiet PROVE MeantAsAsked' /\ MeantAsCarried'
  <2>1. \A q \in Person : conversations'[q] \in {None, conversations[q]}
    BY <1>10, <1>11 DEF Closed, Remaining
  <2>2. QED
    BY <1>11, <2>1, MeantStays, IdleCarriesNothing
<1>12. meant = [q \in Person |-> meant[q]] /\ AskedOf(m, c)
  BY DEF MeantAsAsked
\* What is meant changes of p alone, and its conversation stays open.
<1>13. ASSUME NEW n, meant' = [meant EXCEPT ![p] = n], UNCHANGED conversations, AskedOf(n, c)
       PROVE  MeantAsAsked' /\ meant'[p] = n
  <2>1. meant'[p] = n /\ \A q \in Person : q # p => meant'[q] = meant[q]
    BY <1>12, <1>13
  <2>2. meant' = [q \in Person |-> meant'[q]]
    BY <1>12, <1>13
  <2>3. ASSUME NEW q \in Person PROVE AskedOf(meant'[q], conversations'[q])
    BY <1>13, <2>1 DEF MeantAsAsked
  <2>4. QED
    BY <2>1, <2>2, <2>3 DEF MeantAsAsked
<1>14. reply = None => Shows(s, c)
  BY DEF SeenAsKept, InSight
<1>15. ASSUME NEW t \in Text, place_series(p, t) PROVE MeantAsAsked' /\ MeantAsCarried'
  <2> DEFINE n == IF ~s.lost THEN [m EXCEPT !.seasons = SeasonsIn(t)]
                  ELSE [m EXCEPT !.sure = FALSE]
  <2>1. UNCHANGED conversations /\ c # None /\ c.is = "seasons"
    BY <1>15 DEF place_series, Is
  <2>2. CASE AnswersSeasons(t, c.hit)
    <3>1. job' = [at |-> "profiles", from |-> p, hit |-> c.hit, seasons |-> SeasonsIn(t)]
      BY <1>15, <2>2 DEF place_series, Begin, Await
    <3>2. meant' = [meant EXCEPT ![p] = n]
      BY <1>15, <2>2 DEF place_series
    <3>3. IsMeaning(m) /\ (m.sure => m.hit = c.hit /\ m.profile = None)
      BY <1>12, <2>1 DEF AskedOf
    <3>4. /\ IsMeaning(n)
          /\ n.sure => /\ n.hit = c.hit /\ n.seasons = SeasonsIn(t)
                       /\ n.profile = None
      <4>1. CASE ~s.lost
        <5>1. n = [hit |-> m.hit, seasons |-> SeasonsIn(t), profile |-> m.profile,
                   sure |-> m.sure]
          BY <3>3, <4>1 DEF IsMeaning
        <5>2. QED
          BY <3>3, <5>1 DEF IsMeaning
      <4>2. CASE s.lost
        <5>1. n = [hit |-> m.hit, seasons |-> m.seasons, profile |-> m.profile, sure |-> FALSE]
          BY <3>3, <4>2 DEF IsMeaning
        <5>2. QED
          BY <5>1 DEF IsMeaning
      <4>3. QED
        BY <4>1, <4>2
    <3>5. AskedOf(n, c)
      BY <2>1, <3>4 DEF AskedOf
    <3>6. CarriedAs(n, job')
      BY <3>1, <3>4 DEF CarriedAs
    <3> HIDE DEF n
    <3>7. MeantAsAsked' /\ meant'[p] = n
      BY <1>13, <2>1, <3>2, <3>5
    <3>8. QED
      BY <3>1, <3>6, <3>7 DEF MeantAsCarried
  <2>3. CASE ~AnswersSeasons(t, c.hit)
    <3>1. job' = None /\ UNCHANGED meant
      BY <1>15, <2>3 DEF place_series, Answer
    <3>2. QED
      BY <1>11, <2>1, <3>1 DEF Idle
  <2>4. QED
    BY <2>2, <2>3
<1>16. ASSUME NEW t \in Text, answer_profile(p, t) PROVE MeantAsAsked' /\ MeantAsCarried'
  <2> DEFINE k == NumberOf(t)
             n == IF s.key = "profile_question" /\ ~s.lost
                  THEN [m EXCEPT !.profile = s.list[k]] ELSE [m EXCEPT !.sure = FALSE]
  <2>1. UNCHANGED conversations /\ c # None /\ c.is = "profile" /\ reply = None
    BY <1>16 DEF answer_profile, Is, Passes, Free
  <2>2. CASE IsNumber(t) /\ k \in DOMAIN c.choices
    <3>1. job' = [at |-> "user", from |-> p, to |-> "place", hit |-> c.hit,
                  seasons |-> c.seasons, profile |-> Picked(c.choices, k)]
      BY <1>16, <2>2 DEF answer_profile, Begin, Await
    <3>2. meant' = [meant EXCEPT ![p] = n]
      BY <1>16, <2>2 DEF answer_profile
    <3>3. IsMeaning(m) /\ (m.sure => m.hit = c.hit /\ m.seasons = c.seasons)
      BY <1>12, <2>1 DEF AskedOf
    <3>4. /\ IsMeaning(n)
          /\ n.sure => /\ n.hit = c.hit /\ n.seasons = c.seasons
                       /\ n.profile = Picked(c.choices, k)
      <4>1. CASE s.key = "profile_question" /\ ~s.lost
        <5>1. s.list = c.choices
          BY <1>14, <2>1, <4>1 DEF Shows
        <5>2. n = [hit |-> m.hit, seasons |-> m.seasons, profile |-> s.list[k],
                   sure |-> m.sure]
          BY <3>3, <4>1 DEF IsMeaning
        <5>3. QED
          BY <3>3, <5>1, <5>2 DEF IsMeaning, Picked
      <4>2. CASE ~(s.key = "profile_question" /\ ~s.lost)
        <5>1. n = [hit |-> m.hit, seasons |-> m.seasons, profile |-> m.profile, sure |-> FALSE]
          BY <3>3, <4>2 DEF IsMeaning
        <5>2. QED
          BY <5>1 DEF IsMeaning
      <4>3. QED
        BY <4>1, <4>2
    <3>5. AskedOf(n, c)
      BY <2>1, <3>4 DEF AskedOf
    <3>6. CarriedAs(n, job')
      BY <3>1, <3>4 DEF CarriedAs
    <3> HIDE DEF n
    <3>7. MeantAsAsked' /\ meant'[p] = n
      BY <1>13, <2>1, <3>2, <3>5
    <3>8. QED
      BY <3>1, <3>6, <3>7 DEF MeantAsCarried
  <2>3. CASE ~(IsNumber(t) /\ k \in DOMAIN c.choices)
    <3>1. job' = None /\ UNCHANGED meant
      BY <1>16, <2>3 DEF answer_profile
    <3>2. QED
      BY <1>11, <2>1, <3>1 DEF Idle
  <2>4. QED
    BY <2>2, <2>3
<1>17. ASSUME NEW t \in Text, choose(p, t) PROVE MeantAsAsked' /\ MeantAsCarried'
  <2> DEFINE k == NumberOf(t)
             h == c.hits[k]
             n == IF s.key = "list" /\ ~s.lost
                  THEN [hit |-> s.list[k], seasons |-> {}, profile |-> None, sure |-> TRUE]
                  ELSE [hit |-> None, seasons |-> {}, profile |-> None, sure |-> FALSE]
  <2>1. c # None /\ c.is = "results" /\ reply = None
    BY <1>17 DEF choose, Is, Ordinary, Passes, Free
  <2>2. CASE k \in DOMAIN c.hits /\ h \notin c.already
    <3>1. UNCHANGED conversations /\ meant' = [meant EXCEPT ![p] = n]
      BY <1>17, <2>2 DEF choose
    <3>2. job' = IF KindOf[h] = "tv"
                 THEN [at |-> "season_count", from |-> p, hit |-> h]
                 ELSE [at |-> "profiles", from |-> p, hit |-> h, seasons |-> {}]
      BY <1>17, <2>2 DEF choose, Begin, Await
    <3>3. IsMeaning(n) /\ (n.sure => n.hit = h /\ n.seasons = {} /\ n.profile = None)
      <4>1. CASE s.key = "list" /\ ~s.lost
        <5>1. s.list = c.hits
          BY <1>14, <2>1, <4>1 DEF Shows
        <5>2. n = [hit |-> h, seasons |-> {}, profile |-> None, sure |-> TRUE]
          BY <4>1, <5>1
        <5>3. QED
          BY <5>2 DEF IsMeaning
      <4>2. CASE ~(s.key = "list" /\ ~s.lost)
        BY <4>2 DEF IsMeaning
      <4>3. QED
        BY <4>1, <4>2
    <3>4. AskedOf(n, c)
      BY <2>1 DEF AskedOf
    <3> HIDE DEF n, h
    <3>5. CarriedAs(n, job') /\ job'.from = p
      BY <3>2, <3>3 DEF CarriedAs
    <3>6. MeantAsAsked' /\ meant'[p] = n
      BY <1>13, <3>1, <3>4
    <3>7. QED
      BY <3>5, <3>6 DEF MeantAsCarried
  <2>3. CASE ~(k \in DOMAIN c.hits /\ h \notin c.already)
    <3>1. job' = None /\ UNCHANGED meant /\ conversations' \in {conversations, Closed(p)}
      BY <1>17, <2>3 DEF choose, Answer
    <3>2. QED
      BY <1>11, <3>1 DEF Idle
  <2>4. QED
    BY <2>2, <2>3
<1> HIDE DEF Quiet
<1>18. QED
  BY <1>1, <1>2, <1>3, <1>4, <1>5, <1>6, <1>7, <1>8, <1>9, <1>11, <1>15, <1>16, <1>17
     DEF MessageOf

\* The task carries it on, into the next question and to the wish itself.
LEMMA HandleKeepsMeaning ==
  ASSUME TypeInv, MeantAsAsked, MeantAsCarried, Handle
  PROVE  MeantAsAsked' /\ MeantAsCarried'
<1> DEFINE p == job.from
           Quiet == /\ UNCHANGED meant
                    /\ conversations' \in {conversations, Closed(p)}
                    /\ Idle(job') \/ UNCHANGED job
<1>1. conversations = [q \in Person |-> conversations[q]]
  BY DEF TypeInv, Talks
<1>2. job # None => p \in Person /\ CarriedAs(meant[p], job)
  BY DEF TypeInv, JobTyped, MeantAsCarried
<1>3. ASSUME Quiet PROVE MeantAsAsked' /\ MeantAsCarried'
  <2>1. \A q \in Person : conversations'[q] \in {None, conversations[q]}
    BY <1>1, <1>3 DEF Closed
  <2>2. MeantAsAsked'
    BY <1>3, <2>1, MeantStays
  <2>3. UNCHANGED job => MeantAsCarried'
    BY <1>3 DEF MeantAsCarried
  <2>4. QED
    BY <1>3, <2>2, <2>3, IdleCarriesNothing
\* The conversation of p is opened anew, and the task is free.
<1>4. ASSUME NEW c, conversations' = [conversations EXCEPT ![p] = c], UNCHANGED meant,
             p \in Person, AskedOf(meant[p], c), job' = None
      PROVE  MeantAsAsked' /\ MeantAsCarried'
  <2>1. conversations'[p] = c /\ \A q \in Person : q # p => conversations'[q] = conversations[q]
    BY <1>1, <1>4
  <2>2. ASSUME NEW q \in Person PROVE AskedOf(meant'[q], conversations'[q])
    BY <1>4, <2>1 DEF MeantAsAsked
  <2>3. MeantAsAsked'
    BY <1>4, <2>2 DEF MeantAsAsked
  <2>4. QED
    BY <1>4, <2>3 DEF MeantAsCarried
<1>5. SearchFailed => Quiet
  BY DEF SearchFailed, Answer, history, Idle
<1>6. SeasonsUnknown => Quiet
  BY DEF SeasonsUnknown, Answer, history, Idle
<1>7. NoUser => Quiet
  BY DEF NoUser, Silence, Answer, history, Idle
<1>8. place => Quiet
  BY DEF place, Await, Idle
<1>9. PlaceFailed => Quiet
  BY DEF PlaceFailed, Answer, Idle
<1>10. ReadBack => Quiet
  BY DEF ReadBack, Answer, history, Idle
<1>11. withdraw => Quiet
  BY DEF withdraw, Await, Answer, history, Idle
<1>12. Delete \/ DeleteFailed => Quiet
  BY DEF Delete, DeleteFailed, Answer, history, Idle
<1>13. Send \/ SendFailed => Quiet
  BY DEF Send, SendFailed
<1>14. ASSUME search PROVE MeantAsAsked' /\ MeantAsCarried'
  <2>1. job' = None /\ UNCHANGED meant /\ p \in Person
    BY <1>2, <1>14 DEF search, At, Answer
  <2>2. \/ UNCHANGED conversations
        \/ \E c : conversations' = [conversations EXCEPT ![p] = c] /\ c.is = "results"
    BY <1>14 DEF search, Keep
  <2>3. ASSUME NEW c, conversations' = [conversations EXCEPT ![p] = c], c.is = "results"
        PROVE  MeantAsAsked' /\ MeantAsCarried'
    <3>1. AskedOf(meant[p], c)
      BY <2>3 DEF AskedOf
    <3>2. QED
      BY <1>4, <2>1, <2>3, <3>1
  <2>4. UNCHANGED conversations => Quiet
    BY <2>1 DEF Idle
  <2> HIDE DEF Quiet
  <2>5. QED
    BY <1>3, <2>2, <2>3, <2>4
<1>15. ASSUME SeasonsCounted PROVE MeantAsAsked' /\ MeantAsCarried'
  <2> DEFINE c == [is |-> "seasons", hit |-> job.hit, at |-> now]
  <2>1. /\ job # None /\ job.at = "season_count" /\ job' = None /\ UNCHANGED meant
        /\ conversations' = [conversations EXCEPT ![p] = c]
    BY <1>15 DEF SeasonsCounted, At, Keep, Answer, history
  <2>2. AskedOf(meant[p], c)
    BY <1>2, <2>1 DEF CarriedAs, AskedOf
  <2> HIDE DEF c
  <2>3. QED
    BY <1>2, <1>4, <2>1, <2>2
<1>16. ASSUME NEW choices, job # None, job.at = "profiles", ask_profile(choices)
       PROVE  MeantAsAsked' /\ MeantAsCarried'
  <2> DEFINE c == ProfileQuestion(job.hit, job.seasons, choices)
             m == meant[p]
  <2>1. UNCHANGED meant
    BY <1>16 DEF ask_profile, history
  <2>2. IsMeaning(m) /\ (m.sure => m.hit = job.hit /\ m.seasons = job.seasons /\ m.profile = None)
    BY <1>2, <1>16 DEF CarriedAs
  <2>3. CASE choices = <<>>
    <3>1. /\ UNCHANGED conversations
          /\ job' = [at |-> "user", from |-> p, to |-> "place", hit |-> job.hit,
                     seasons |-> job.seasons, profile |-> None]
      BY <1>16, <2>3 DEF ask_profile, Await
    <3>2. CarriedAs(m, job') /\ job'.from = p
      BY <2>2, <3>1 DEF CarriedAs
    <3>3. MeantAsAsked'
      BY <2>1, <3>1 DEF MeantAsAsked
    <3>4. QED
      BY <2>1, <3>2, <3>3 DEF MeantAsCarried
  <2>4. CASE choices # <<>>
    <3>1. job' = None /\ conversations' = [conversations EXCEPT ![p] = c]
      BY <1>16, <2>4 DEF ask_profile, Keep
    <3>2. AskedOf(m, c)
      BY <2>2 DEF AskedOf, ProfileQuestion
    <3> HIDE DEF c
    <3>3. QED
      BY <1>2, <1>4, <1>16, <2>1, <3>1, <3>2
  <2>5. QED
    BY <2>3, <2>4
<1>17. ProfilesRead \/ ProfilesUnknown => MeantAsAsked' /\ MeantAsCarried'
  BY <1>16 DEF ProfilesRead, ProfilesUnknown, At
<1>18. ASSUME seerr_user PROVE MeantAsAsked' /\ MeantAsCarried'
  <2>1. job # None /\ job.at = "user" /\ UNCHANGED meant
    BY <1>18 DEF seerr_user, At, history
  <2>2. conversations' \in {conversations, Closed(p)}
    BY <1>18 DEF seerr_user, Close
  <2>3. CASE Idle(job')
    BY <1>3, <2>1, <2>2, <2>3
  <2>4. CASE /\ job.to = "place"
             /\ \E user : job' = [at |-> "request", from |-> p, user |-> user, hit |-> job.hit,
                                  seasons |-> job.seasons, profile |-> job.profile]
    <3>1. /\ job'.from = p /\ job'.at = "request" /\ job'.hit = job.hit
          /\ job'.seasons = job.seasons /\ job'.profile = job.profile
      BY <2>4
    <3>2. CarriedAs(meant[p], job')
      BY <1>2, <2>1, <2>4, <3>1 DEF CarriedAs
    <3>3. \A q \in Person : conversations'[q] \in {None, conversations[q]}
      BY <1>1, <2>2 DEF Closed
    <3>4. MeantAsAsked'
      BY <2>1, <3>3, MeantStays
    <3>5. QED
      BY <2>1, <3>1, <3>2, <3>4 DEF MeantAsCarried
  <2>5. Idle(job') \/ job.to = "place"
    BY <1>18 DEF seerr_user, Await, Idle
  <2>6. job.to = "place" =>
          \E user : job' = [at |-> "request", from |-> p, user |-> user, hit |-> job.hit,
                            seasons |-> job.seasons, profile |-> job.profile]
    BY <1>18 DEF seerr_user, Await
  <2>7. QED
    BY <2>3, <2>4, <2>5, <2>6
<1> HIDE DEF Quiet
<1>19. QED
  BY <1>3, <1>5, <1>6, <1>7, <1>8, <1>9, <1>10, <1>11, <1>12, <1>13, <1>14, <1>15, <1>17, <1>18
     DEF Handle

LEMMA MeantStep ==
  TypeInv /\ SeenAsKept /\ MeantAsAsked /\ MeantAsCarried /\ [Next]_vars
    => MeantAsAsked' /\ MeantAsCarried'
<1> SUFFICES ASSUME TypeInv, SeenAsKept, MeantAsAsked, MeantAsCarried, [Next]_vars
             PROVE  MeantAsAsked' /\ MeantAsCarried'
  OBVIOUS
<1>1. ASSUME NEW p \in Person, MessageOf(p) PROVE MeantAsAsked' /\ MeantAsCarried'
  BY <1>1, MessageKeepsMeaning
<1>2. CASE Handle
  BY <1>2, HandleKeepsMeaning
<1>3. UNCHANGED <<meant, conversations, job>> => MeantAsAsked' /\ MeantAsCarried'
  BY DEF MeantAsAsked, MeantAsCarried
<1>4. ASSUME NEW p \in Person, MappingChanges(p) PROVE MeantAsAsked' /\ MeantAsCarried'
  BY <1>3, <1>4 DEF MappingChanges, history
<1>5. CASE RequestGone \/ Tick \/ UNCHANGED vars
  BY <1>3, <1>5 DEF RequestGone, Tick, vars, history
<1>6. CASE Crash
  BY <1>6 DEF Crash, MeantAsAsked, MeantAsCarried, AskedOf
<1>7. QED
  BY <1>1, <1>2, <1>4, <1>5, <1>6 DEF Next

\* What goes out is what the person typed the numbers of, as the lists they had
\* before them count them, through the question of the seasons and that of the
\* version (dialog/mod.rs choose, place_series, answer_profile, place).
THEOREM MeaningReachesSeerr == Spec => PlacedAsMeant
<1>1. Init => SeenAsKept /\ MeantAsAsked /\ MeantAsCarried
  <2> SUFFICES ASSUME Init PROVE SeenAsKept /\ MeantAsAsked /\ MeantAsCarried
    OBVIOUS
  <2>1. /\ screen = [p \in Person |-> screen[p]]
        /\ \A p \in Person : screen[p] = [key |-> screen[p].key, list |-> screen[p].list,
                                          lost |-> screen[p].lost]
    BY DEF Init
  <2>2. \A p \in Person : Shows(InSight(p), conversations[p])
    BY DEF Init, Shows
  <2>3. MeantAsAsked /\ MeantAsCarried
    BY DEF Init, MeantAsAsked, AskedOf, MeantAsCarried
  <2>4. QED
    BY <2>1, <2>2, <2>3 DEF SeenAsKept
<1>2. MeantAsCarried /\ [Next]_vars =>
        \A r \in placed' \ placed :
          LET m == meant[r.by] IN
          m.sure => r.hit = m.hit /\ r.seasons = m.seasons /\ r.profile = m.profile
  <2> SUFFICES ASSUME MeantAsCarried, [Next]_vars, NEW r \in placed' \ placed,
                      meant[r.by].sure
               PROVE  /\ r.hit = meant[r.by].hit /\ r.seasons = meant[r.by].seasons
                      /\ r.profile = meant[r.by].profile
    OBVIOUS
  <2>1. At("request") /\ Store
    BY OnlyStored
  <2>2. r.by = job.from /\ r.hit = job.hit /\ r.seasons = job.seasons /\ r.profile = job.profile
    BY <2>1 DEF Store
  <2>3. CarriedAs(meant[job.from], job)
    BY <2>1 DEF At, MeantAsCarried
  <2>4. QED
    BY <2>1, <2>2, <2>3 DEF At, CarriedAs
<1>3. Spec => [](TypeInv /\ SeenAsKept /\ MeantAsAsked /\ MeantAsCarried)
  BY <1>1, TypeInvStarts, TypeInvStep, SeenStep, MeantStep, PTL DEF Spec
<1>4. QED
  BY <1>2, <1>3, PTL DEF Spec, PlacedAsMeant
=============================================================================
