---------------------------- MODULE FilterProofs ----------------------------
(***************************************************************************)
(* What is left of a sequence by Only, and what is at its places, for every *)
(* sequence.  What is defined by recursion over the places is reached by    *)
(* least counterexamples (UpTo).                                            *)
(***************************************************************************)
EXTENDS Filter, SequencesExt, SequenceTheorems, WellFoundedInduction, TLAPS

-----------------------------------------------------------------------------
(* Recursion over the places of a sequence                                  *)

\* Natural numbers are well ordered.
LEMMA LeastExists ==
  ASSUME NEW T, T \subseteq Nat, T # {}
  PROVE  \E t \in T : \A u \in T : t <= u
<1>1. PICK t \in T : \A u \in T : <<u, t>> \notin OpToRel(<, Nat)
  BY NatLessThanWellFounded, WFMin, Zenon
<1>2. \A u \in Nat : u < t => <<u, t>> \in OpToRel(<, Nat)
  BY Zenon DEF OpToRel
<1>3. \A u \in T : ~ (u < t)
  BY <1>1, <1>2, Zenon
<1>4. t \in Nat /\ \A u \in T : u \in Nat
  BY Zenon
<1>5. \A u \in T : t <= u
  BY <1>3, <1>4, SMT
<1> QED
  BY <1>5, Zenon

\* Induction over the places up to n, for a set of them.
LEMMA UpTo ==
  ASSUME NEW n \in Nat, NEW P, 0 \in P, \A i \in 1 .. n : i - 1 \in P => i \in P
  PROVE  \A i \in 0 .. n : i \in P
<1> DEFINE T == { i \in 0 .. n : i \notin P }
<1> SUFFICES ASSUME T # {} PROVE FALSE
  OBVIOUS
<1>1. PICK t \in T : \A u \in T : t <= u
  <2> T \subseteq Nat
    OBVIOUS
  <2> QED
    BY LeastExists
<1>2. t # 0 /\ t \in 1 .. n
  OBVIOUS
<1>3. t - 1 \in 0 .. n /\ ~ (t <= t - 1)
  BY <1>2
<1>4. t - 1 \in P
  BY <1>1, <1>3
<1> QED
  BY <1>2, <1>4

\* f is built from base by n steps.
Built(f, base, step, n) ==
  f[0] = base /\ \A i \in 1 .. n : f[i] = step[<<i, f[i - 1]>>]

\* A function defined by recursion over the places up to n exists.
LEMMA RecursionExists ==
  ASSUME NEW A, NEW n \in Nat, NEW base \in A, NEW step \in [(1 .. n) \X A -> A]
  PROVE  \E f \in [0 .. n -> A] : Built(f, base, step, n)
<1> DEFINE Fits(f, k) == f[0] = base /\ \A i \in 1 .. k : f[i] = step[<<i, f[i - 1]>>]
           P == { k \in 0 .. n : \E f \in [0 .. k -> A] : Fits(f, k) }
<1>1. 0 \in P
  <2> DEFINE f == [i \in 0 .. 0 |-> base]
  <2>1. f \in [0 .. 0 -> A] /\ Fits(f, 0)
    OBVIOUS
  <2>2. \E h \in [0 .. 0 -> A] : Fits(h, 0)
    BY <2>1, Zenon
  <2>3. 0 \in 0 .. n
    OBVIOUS
  <2> QED
    BY <2>2, <2>3, Zenon
<1>2. ASSUME NEW k \in 1 .. n, k - 1 \in P PROVE k \in P
  <2>1. PICK f \in [0 .. k - 1 -> A] : Fits(f, k - 1)
    BY <1>2
  <2> DEFINE g == [i \in 0 .. k |-> IF i = k THEN step[<<k, f[k - 1]>>] ELSE f[i]]
  <2>2. f[k - 1] \in A
    OBVIOUS
  <2>3. step[<<k, f[k - 1]>>] \in A
    BY <2>2
  <2>4. g \in [0 .. k -> A]
    BY <2>3
  <2>5. \A i \in 0 .. k - 1 : g[i] = f[i]
    OBVIOUS
  <2>6. g[k] = step[<<k, f[k - 1]>>] /\ g[k - 1] = f[k - 1]
    OBVIOUS
  <2> HIDE DEF g
  <2>7. g[0] = base
    <3> 0 \in 0 .. k - 1
      OBVIOUS
    <3> QED
      BY <2>1, <2>5
  <2>8. ASSUME NEW i \in 1 .. k PROVE g[i] = step[<<i, g[i - 1]>>]
    <3>1. CASE i = k
      BY <3>1, <2>6
    <3>2. CASE i # k
      <4>1. i \in 1 .. k - 1 /\ i \in 0 .. k - 1 /\ i - 1 \in 0 .. k - 1
        BY <3>2
      <4>2. g[i] = f[i] /\ g[i - 1] = f[i - 1]
        BY <2>5, <4>1
      <4>3. f[i] = step[<<i, f[i - 1]>>]
        BY <2>1, <4>1
      <4> QED
        BY <4>2, <4>3
    <3> QED
      BY <3>1, <3>2
  <2>9. \E h \in [0 .. k -> A] : Fits(h, k)
    BY <2>4, <2>7, <2>8, Zenon
  <2>10. k \in 0 .. n
    OBVIOUS
  <2> QED
    BY <2>9, <2>10, Zenon
<1>3. n \in P
  <2> HIDE DEF P
  <2> QED
    BY <1>1, <1>2, UpTo
<1> QED
  BY <1>3 DEF Built

-----------------------------------------------------------------------------
(* Only                                                                     *)

\* The equation Only is defined by.
Keeping(f, s, K) ==
  /\ f[0] = <<>>
  /\ \A i \in 1 .. Len(s) : f[i] = IF s[i] \in K THEN Append(f[i - 1], s[i]) ELSE f[i - 1]
  /\ Only(s, K) = f[Len(s)]

LEMMA OnlyByPlace ==
  ASSUME NEW S, NEW s \in Seq(S), NEW K
  PROVE  \E f \in [0 .. Len(s) -> Seq(S)] : Keeping(f, s, K)
<1> DEFINE n == Len(s)
           kept == CHOOSE f : f = [i \in 0 .. Len(s) |->
                     IF i = 0 THEN <<>>
                     ELSE IF s[i] \in K THEN Append(f[i - 1], s[i]) ELSE f[i - 1]]
           step == [p \in (1 .. n) \X Seq(S) |->
                     IF s[p[1]] \in K THEN Append(p[2], s[p[1]]) ELSE p[2]]
<1>0. n \in Nat /\ <<>> \in Seq(S) /\ \A i \in 1 .. n : s[i] \in S
  BY EmptySeq, LenProperties, ElementOfSeq
<1>1. step \in [(1 .. n) \X Seq(S) -> Seq(S)]
  <2>1. \A p \in (1 .. n) \X Seq(S) : p[2] \in Seq(S) /\ s[p[1]] \in S
    BY <1>0
  <2>2. \A t \in Seq(S), e \in S : Append(t, e) \in Seq(S)
    BY AppendProperties
  <2> QED
    BY <2>1, <2>2
<1>2. PICK f \in [0 .. n -> Seq(S)] : Built(f, <<>>, step, n)
  <2> HIDE DEF step, n
  <2> QED
    BY <1>0, <1>1, RecursionExists, Zenon
<1>3. \A i \in 1 .. n : f[i - 1] \in Seq(S) /\ <<i, f[i - 1]>> \in (1 .. n) \X Seq(S)
  <2>1. \A i \in 1 .. n : i - 1 \in 0 .. n
    BY <1>0
  <2> QED
    BY <2>1
<1>4. \A i \in 1 .. n : step[<<i, f[i - 1]>>] =
                          IF s[i] \in K THEN Append(f[i - 1], s[i]) ELSE f[i - 1]
  BY <1>3
<1>5. \A i \in 0 .. n : i = 0 \/ i \in 1 .. n
  BY <1>0
<1>7. f = [i \in 0 .. n |-> IF i = 0 THEN <<>>
             ELSE IF s[i] \in K THEN Append(f[i - 1], s[i]) ELSE f[i - 1]]
  <2> HIDE DEF step
  <2> QED
    BY <1>2, <1>4, <1>5 DEF Built
<1>8. kept = [i \in 0 .. n |-> IF i = 0 THEN <<>>
                ELSE IF s[i] \in K THEN Append(kept[i - 1], s[i]) ELSE kept[i - 1]]
  BY <1>7, Zenon
<1>9. Only(s, K) = kept[n]
  BY Zenon DEF Only
<1> HIDE DEF kept
<1>10. kept[0] = <<>>
  BY <1>0, <1>8
<1>11. \A i \in 1 .. n :
         kept[i] = IF s[i] \in K THEN Append(kept[i - 1], s[i]) ELSE kept[i - 1]
  <2> SUFFICES ASSUME NEW i \in 1 .. n
               PROVE  kept[i] = IF s[i] \in K THEN Append(kept[i - 1], s[i]) ELSE kept[i - 1]
    OBVIOUS
  <2>1. i \in 0 .. n /\ i # 0
    BY <1>0
  <2> QED
    BY <1>8, <2>1, Zenon
<1>12. \A i \in 0 .. n : kept[i] \in Seq(S)
  <2> DEFINE P == { i \in 0 .. n : kept[i] \in Seq(S) }
  <2> HIDE DEF n
  <2>0. 0 \in 0 .. n /\ \A i \in 1 .. n : i \in 0 .. n
    BY <1>0
  <2>1. 0 \in P
    BY <1>0, <1>10, <2>0, Zenon
  <2>2. \A i \in 1 .. n : i - 1 \in P => i \in P
    <3> SUFFICES ASSUME NEW i \in 1 .. n, kept[i - 1] \in Seq(S) PROVE kept[i] \in Seq(S)
      BY <2>0, Zenon
    <3>1. s[i] \in S
      BY <1>0, Zenon
    <3>2. Append(kept[i - 1], s[i]) \in Seq(S)
      BY <3>1, AppendProperties
    <3> QED
      BY <1>11, <3>2
  <2>3. \A i \in 0 .. n : i \in P
    <3> HIDE DEF P
    <3> QED
      BY <1>0, <2>1, <2>2, UpTo
  <2> QED
    BY <2>3, Zenon
<1>13. kept \in [0 .. n -> Seq(S)]
  BY <1>8, <1>12
<1> QED
  BY <1>9, <1>10, <1>11, <1>13, Zenon DEF Keeping

\* t is what the first i elements of s leave in K.
Drawn(s, K, t, i) ==
  /\ \A p \in 1 .. Len(t) : \E a \in 1 .. i : t[p] = s[a] /\ s[a] \in K
  /\ \A a \in 1 .. i : s[a] \in K => \E p \in 1 .. Len(t) : t[p] = s[a]
  /\ \A p, q \in 1 .. Len(t) : p < q =>
       \E a, b \in 1 .. i : a < b /\ t[p] = s[a] /\ t[q] = s[b]

\* One element more.
LEMMA DrawnGrows ==
  ASSUME NEW S, NEW s \in Seq(S), NEW K, NEW t \in Seq(S), NEW i \in 1 .. Len(s),
         Drawn(s, K, t, i - 1)
  PROVE  Drawn(s, K, IF s[i] \in K THEN Append(t, s[i]) ELSE t, i)
<1>0. Len(s) \in Nat /\ i \in Nat /\ s[i] \in S
  BY LenProperties, ElementOfSeq
<1>2. \A a \in 1 .. i : a = i \/ a \in 1 .. i - 1
  BY <1>0
<1>3. \A a \in 1 .. i - 1 : a \in 1 .. i /\ a < i
  BY <1>0
<1>4. CASE s[i] \notin K
  BY <1>2, <1>3, <1>4 DEF Drawn
<1>5. CASE s[i] \in K
  <2> DEFINE u == Append(t, s[i])
  <2>2. /\ Len(t) \in Nat /\ Len(u) = Len(t) + 1
        /\ \A p \in 1 .. Len(t) : u[p] = t[p]
        /\ u[Len(t) + 1] = s[i]
    BY <1>0, AppendProperties, LenProperties
  <2> HIDE DEF u
  <2>3. \A p \in 1 .. Len(u) : p \in 1 .. Len(t) \/ p = Len(t) + 1
    BY <2>2
  <2>4. /\ \A p \in 1 .. Len(t) : p \in 1 .. Len(u)
        /\ Len(t) + 1 \in 1 .. Len(u) /\ i \in 1 .. i
    BY <1>0, <2>2
  <2>5. ASSUME NEW p \in 1 .. Len(u) PROVE \E a \in 1 .. i : u[p] = s[a] /\ s[a] \in K
    <3>1. CASE p \in 1 .. Len(t)
      <4>1. PICK a \in 1 .. i - 1 : t[p] = s[a] /\ s[a] \in K
        BY <3>1 DEF Drawn
      <4> QED
        BY <1>3, <2>2, <3>1, <4>1, Zenon
    <3>2. CASE p = Len(t) + 1
      BY <1>5, <2>2, <2>4, <3>2, Zenon
    <3> QED
      BY <2>3, <3>1, <3>2, Zenon
  <2>6. ASSUME NEW a \in 1 .. i, s[a] \in K PROVE \E p \in 1 .. Len(u) : u[p] = s[a]
    <3>1. CASE a \in 1 .. i - 1
      <4>1. PICK p \in 1 .. Len(t) : t[p] = s[a]
        BY <2>6, <3>1 DEF Drawn
      <4> QED
        BY <2>2, <2>4, <4>1, Zenon
    <3>2. CASE a = i
      BY <2>2, <2>4, <3>2, Zenon
    <3> QED
      BY <1>2, <3>1, <3>2, Zenon
  <2>7. ASSUME NEW p \in 1 .. Len(u), NEW q \in 1 .. Len(u), p < q
        PROVE  \E a, b \in 1 .. i : a < b /\ u[p] = s[a] /\ u[q] = s[b]
    <3>1. p \in 1 .. Len(t)
      BY <2>2, <2>7
    <3>2. CASE q \in 1 .. Len(t)
      <4>1. PICK a \in 1 .. i - 1, b \in 1 .. i - 1 : a < b /\ t[p] = s[a] /\ t[q] = s[b]
        BY <2>7, <3>1, <3>2 DEF Drawn
      <4> QED
        BY <1>3, <2>2, <3>1, <3>2, <4>1, Zenon
    <3>3. CASE q = Len(t) + 1
      <4>1. PICK a \in 1 .. i - 1 : t[p] = s[a]
        BY <3>1 DEF Drawn
      <4> QED
        BY <1>3, <2>2, <2>4, <3>1, <3>3, <4>1, Zenon
    <3> QED
      BY <2>3, <3>2, <3>3, Zenon
  <2>8. Drawn(s, K, u, i)
    BY <2>5, <2>6, <2>7 DEF Drawn
  <2> QED
    BY <1>5, <2>8 DEF u
<1> QED
  BY <1>4, <1>5

\* Only(s, K) holds what of s is in K, in the order of s.
LEMMA OnlyProperties ==
  ASSUME NEW S, NEW s \in Seq(S), NEW K
  PROVE  /\ Only(s, K) \in Seq(S)
         /\ ToSet(Only(s, K)) = ToSet(s) \cap K
         /\ \A p, q \in DOMAIN Only(s, K) : p < q =>
              \E a, b \in DOMAIN s : a < b /\ Only(s, K)[p] = s[a] /\ Only(s, K)[q] = s[b]
<1> DEFINE n == Len(s)
<1>0. n \in Nat /\ DOMAIN s = 1 .. n /\ \A i \in 1 .. n : s[i] \in S
  BY LenProperties, ElementOfSeq
<1>1. PICK f \in [0 .. n -> Seq(S)] : Keeping(f, s, K)
  BY OnlyByPlace, Zenon
<1> DEFINE P == { i \in 0 .. n : Drawn(s, K, f[i], i) }
<1>2. 0 \in P
  <2>1. Len(f[0]) = 0
    BY <1>1 DEF Keeping
  <2>2. Drawn(s, K, f[0], 0)
    BY <2>1 DEF Drawn
  <2>3. 0 \in 0 .. n
    BY <1>0
  <2> QED
    BY <2>2, <2>3, Zenon
<1>3. ASSUME NEW i \in 1 .. n, i - 1 \in P PROVE i \in P
  <2>1. i - 1 \in 0 .. n /\ i \in 0 .. n
    BY <1>0
  <2>2. f[i - 1] \in Seq(S)
    BY <2>1
  <2>3. Drawn(s, K, f[i - 1], i - 1)
    BY <1>3, Zenon
  <2>4. Drawn(s, K, f[i], i)
    <3>1. Drawn(s, K, IF s[i] \in K THEN Append(f[i - 1], s[i]) ELSE f[i - 1], i)
      BY <2>2, <2>3, DrawnGrows, Zenon
    <3> QED
      BY <1>1, <3>1, Zenon DEF Keeping
  <2> QED
    BY <2>1, <2>4, Zenon
<1>4. Drawn(s, K, f[n], n)
  <2>1. \A i \in 0 .. n : i \in P
    <3> HIDE DEF P, n
    <3> QED
      BY <1>0, <1>2, <1>3, UpTo
  <2>2. n \in 0 .. n
    BY <1>0
  <2> QED
    BY <2>1, <2>2, Zenon
<1> DEFINE o == Only(s, K)
<1>5. o \in Seq(S) /\ DOMAIN o = 1 .. Len(o) /\ Drawn(s, K, o, n)
  <2>1. n \in 0 .. n
    BY <1>0
  <2>2. f[n] \in Seq(S)
    BY <2>1
  <2> QED
    BY <1>1, <1>4, <2>2, LenProperties DEF Keeping
<1> HIDE DEF o, n
<1>6. ToSet(o) = ToSet(s) \cap K
  <2>1. ASSUME NEW p \in DOMAIN o PROVE o[p] \in ToSet(s) \cap K
    <3>1. p \in 1 .. Len(o)
      BY <1>5
    <3>2. PICK a \in 1 .. n : o[p] = s[a] /\ s[a] \in K
      BY <1>5, <3>1 DEF Drawn
    <3>3. s[a] \in ToSet(s)
      BY <1>0, <3>2 DEF ToSet
    <3> QED
      BY <3>2, <3>3
  <2>2. ASSUME NEW a \in DOMAIN s, s[a] \in K PROVE s[a] \in ToSet(o)
    <3>1. PICK p \in 1 .. Len(o) : o[p] = s[a]
      BY <1>0, <1>5, <2>2 DEF Drawn
    <3> QED
      BY <1>5, <3>1 DEF ToSet
  <2> QED
    BY <2>1, <2>2 DEF ToSet
<1>7. ASSUME NEW p \in DOMAIN o, NEW q \in DOMAIN o, p < q
      PROVE  \E a, b \in DOMAIN s : a < b /\ o[p] = s[a] /\ o[q] = s[b]
  <2>1. p \in 1 .. Len(o) /\ q \in 1 .. Len(o)
    BY <1>5, Zenon
  <2>2. PICK a \in 1 .. n, b \in 1 .. n : a < b /\ o[p] = s[a] /\ o[q] = s[b]
    BY <1>5, <1>7, <2>1 DEF Drawn
  <2> QED
    BY <1>0, <2>2, Zenon
<1> QED
  BY <1>5, <1>6, <1>7 DEF o

-----------------------------------------------------------------------------
(* What is at the places of a sequence                                      *)

\* What is at the places of a sequence that was put together of two.
LEMMA ToSetOfTwo ==
  ASSUME NEW S, NEW s \in Seq(S), NEW t \in Seq(S)
  PROVE  s \o t \in Seq(S) /\ ToSet(s \o t) = ToSet(s) \cup ToSet(t)
<1>1. /\ s \o t \in Seq(S) /\ Len(s \o t) = Len(s) + Len(t)
      /\ \A i \in 1 .. Len(s) + Len(t) : (s \o t)[i] = IF i <= Len(s) THEN s[i] ELSE t[i - Len(s)]
  BY ConcatProperties
<1>2. /\ Len(s) \in Nat /\ Len(t) \in Nat /\ DOMAIN s = 1 .. Len(s) /\ DOMAIN t = 1 .. Len(t)
      /\ DOMAIN (s \o t) = 1 .. Len(s \o t)
  BY <1>1, LenProperties
<1> DEFINE o == s \o t
<1> HIDE DEF o
<1>3. ASSUME NEW i \in DOMAIN o PROVE o[i] \in ToSet(s) \cup ToSet(t)
  <2>1. CASE i <= Len(s)
    BY <1>1, <1>2, <2>1 DEF ToSet, o
  <2>2. CASE ~ (i <= Len(s))
    <3>1. i - Len(s) \in DOMAIN t /\ o[i] = t[i - Len(s)]
      BY <1>1, <1>2, <2>2 DEF o
    <3> QED
      BY <3>1 DEF ToSet
  <2> QED
    BY <2>1, <2>2
<1>4. ASSUME NEW i \in DOMAIN s PROVE s[i] \in ToSet(o)
  <2>1. i \in DOMAIN o /\ o[i] = s[i]
    BY <1>1, <1>2 DEF o
  <2> QED
    BY <2>1 DEF ToSet
<1>5. ASSUME NEW i \in DOMAIN t PROVE t[i] \in ToSet(o)
  <2>1. i + Len(s) \in DOMAIN o /\ o[i + Len(s)] = t[i]
    BY <1>1, <1>2 DEF o
  <2> QED
    BY <2>1 DEF ToSet
<1>6. ToSet(o) = ToSet(s) \cup ToSet(t)
  BY <1>3, <1>4, <1>5 DEF ToSet
<1> QED
  BY <1>1, <1>6 DEF o

LEMMA ToSetOfOne ==
  ASSUME NEW S, NEW e \in S
  PROVE  <<e>> \in Seq(S) /\ ToSet(<<e>>) = {e}
<1>1. DOMAIN <<e>> = {1} /\ <<e>>[1] = e
  OBVIOUS
<1> QED
  BY <1>1 DEF ToSet

LEMMA ToSetOfNone ==
  ASSUME NEW S
  PROVE  <<>> \in Seq(S) /\ ToSet(<<>>) = {}
BY EmptySeq DEF ToSet

\* What is at a sequence's places, appended to.
LEMMA ToSetAppend ==
  ASSUME NEW S, NEW s \in Seq(S), NEW e \in S
  PROVE  Append(s, e) \in Seq(S) /\ ToSet(Append(s, e)) = ToSet(s) \cup {e}
<1> DEFINE t == <<e>>
<1>1. t \in Seq(S) /\ ToSet(t) = {e}
  BY ToSetOfOne
<1>2. Append(s, e) = s \o t
  BY AppendIsConcat
<1> HIDE DEF t
<1>3. s \o t \in Seq(S) /\ ToSet(s \o t) = ToSet(s) \cup ToSet(t)
  BY <1>1, ToSetOfTwo
<1> QED
  BY <1>1, <1>2, <1>3

\* What is left of a sequence without its head.
LEMMA ToSetTail ==
  ASSUME NEW S, NEW s \in Seq(S), s # <<>>
  PROVE  /\ Head(s) \in S /\ Tail(s) \in Seq(S)
         /\ ToSet(s) = {Head(s)} \cup ToSet(Tail(s))
<1>1. /\ Head(s) \in S /\ Tail(s) \in Seq(S) /\ Len(Tail(s)) = Len(s) - 1
      /\ \A i \in 1 .. Len(Tail(s)) : Tail(s)[i] = s[i + 1]
  BY HeadTailProperties
<1>2. /\ Len(s) \in Nat \ {0} /\ DOMAIN s = 1 .. Len(s) /\ DOMAIN Tail(s) = 1 .. Len(Tail(s))
      /\ Head(s) = s[1]
  BY <1>1, LenProperties, EmptySeq
<1> DEFINE t == Tail(s)
<1> HIDE DEF t
<1>3. ASSUME NEW i \in DOMAIN s PROVE s[i] \in {Head(s)} \cup ToSet(t)
  <2>1. CASE i = 1
    BY <1>2, <2>1
  <2>2. CASE i # 1
    <3>1. i - 1 \in DOMAIN t /\ t[i - 1] = s[i]
      BY <1>1, <1>2, <2>2 DEF t
    <3> QED
      BY <3>1 DEF ToSet
  <2> QED
    BY <2>1, <2>2
<1>4. ASSUME NEW i \in DOMAIN t PROVE t[i] \in ToSet(s)
  <2>1. i + 1 \in DOMAIN s /\ t[i] = s[i + 1]
    BY <1>1, <1>2 DEF t
  <2> QED
    BY <2>1 DEF ToSet
<1>5. Head(s) \in ToSet(s)
  <2>1. 1 \in DOMAIN s
    BY <1>2
  <2> QED
    BY <1>2, <2>1 DEF ToSet
<1>6. ToSet(s) = {Head(s)} \cup ToSet(t)
  BY <1>3, <1>4, <1>5 DEF ToSet
<1> QED
  BY <1>1, <1>6 DEF t

\* The elements of a sequence are in the set it is a sequence over.
LEMMA ToSetType ==
  ASSUME NEW S, NEW s \in Seq(S)
  PROVE  ToSet(s) \subseteq S
BY LenProperties, ElementOfSeq DEF ToSet

\* The least place of a set of places is one of them.
LEMMA MinOfPlaces ==
  ASSUME NEW S, NEW s \in Seq(S), NEW at, at \subseteq DOMAIN s, at # {}
  PROVE  Min(at) \in at
<1>1. DOMAIN s \subseteq Nat
  BY LenProperties
<1>2. at \subseteq Nat
  BY <1>1
<1>3. \E t \in at : \A v \in at : t <= v
  BY <1>2, LeastExists
<1> QED
  BY <1>3 DEF Min
=============================================================================
