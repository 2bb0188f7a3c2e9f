-------------------------- MODULE OpenWishesProofs --------------------------
(***************************************************************************)
(* The list of open requests, for any number of them, any size of a page    *)
(* and any changes between two pages.                                       *)
(***************************************************************************)
EXTENDS OpenWishes, FiniteSetTheorems, TLAPS

-----------------------------------------------------------------------------
(* Places                                                                   *)

\* The place of a request among those of S: how many are not older.
PlaceIn(S, r) == Cardinality({ s \in S : s >= r })

\* The requests of S at `size` places behind the first `from`.
PageIn(S, from, size) == { r \in S : from < PlaceIn(S, r) /\ PlaceIn(S, r) <= from + size }

\* The places of n requests are 1 to n.
LEMMA PlaceRange ==
  ASSUME NEW S, IsFiniteSet(S), S \subseteq Nat, NEW r \in S
  PROVE  PlaceIn(S, r) \in 1 .. Cardinality(S)
<1> DEFINE N == { s \in S : s >= r }
<1>1. N \in SUBSET S /\ r \in N
  OBVIOUS
<1>2. IsFiniteSet(N) /\ Cardinality(N) <= Cardinality(S) /\ N # {}
  BY <1>1, FS_Subset
<1>3. Cardinality(N) \in Nat /\ Cardinality(S) \in Nat /\ Cardinality(N) # 0
  BY <1>2, FS_CardinalityType, FS_EmptySet
<1> HIDE DEF N
<1>4. Cardinality(N) \in 1 .. Cardinality(S)
  BY <1>2, <1>3
<1> QED
  BY <1>4 DEF PlaceIn, N

LEMMA PlaceType ==
  ASSUME NEW S, IsFiniteSet(S), S \subseteq Nat, NEW r \in S
  PROVE  PlaceIn(S, r) \in Nat /\ PlaceIn(S, r) >= 1
<1> DEFINE k == PlaceIn(S, r)
<1>1. Cardinality(S) \in Nat /\ k \in 1 .. Cardinality(S)
  BY PlaceRange, FS_CardinalityType, Zenon
<1> HIDE DEF k
<1>2. k \in Nat /\ k >= 1
  BY <1>1
<1> QED
  BY <1>2 DEF k

\* The newer one comes first.
LEMMA PlaceOrder ==
  ASSUME NEW S, IsFiniteSet(S), S \subseteq Nat, NEW r \in S, NEW q \in S, r < q
  PROVE  PlaceIn(S, q) < PlaceIn(S, r)
<1> DEFINE N == { s \in S : s >= r }  M == { s \in S : s >= q }
<1>1. N \in SUBSET S /\ M \in SUBSET N /\ r \in N /\ r \notin M
  <2>1. r \in Nat /\ q \in Nat /\ \A s \in S : s \in Nat
    OBVIOUS
  <2>2. r >= r /\ ~ (r >= q) /\ \A s \in S : s >= q => s >= r
    BY <2>1
  <2> QED
    BY <2>2, Zenon
<1>2. IsFiniteSet(N) /\ IsFiniteSet(M)
  BY <1>1, FS_Subset
<1>3. Cardinality(M) <= Cardinality(N) /\ Cardinality(M) # Cardinality(N)
  BY <1>1, <1>2, FS_Subset
<1>4. Cardinality(N) \in Nat /\ Cardinality(M) \in Nat
  BY <1>2, FS_CardinalityType
<1> HIDE DEF N, M
<1>5. Cardinality(M) < Cardinality(N)
  BY <1>3, <1>4
<1> QED
  BY <1>5 DEF PlaceIn, N, M

\* No two share a place.
LEMMA PlaceOwn ==
  ASSUME NEW S, IsFiniteSet(S), S \subseteq Nat, NEW r \in S, NEW q \in S,
         PlaceIn(S, r) = PlaceIn(S, q)
  PROVE  r = q
<1> DEFINE k == PlaceIn(S, r)
<1>1. k \in Nat
  BY PlaceType
<1>2. r < q => k < k
  BY PlaceOrder, Zenon
<1>3. q < r => k < k
  BY PlaceOrder, Zenon
<1>4. r \in Nat /\ q \in Nat
  OBVIOUS
<1> HIDE DEF k
<1> QED
  BY <1>1, <1>2, <1>3, <1>4

\* And none is empty.
LEMMA PlaceTaken ==
  ASSUME NEW S, IsFiniteSet(S), S \subseteq Nat, NEW k \in 1 .. Cardinality(S)
  PROVE  \E r \in S : PlaceIn(S, r) = k
<1> DEFINE n == Cardinality(S)
           f == [r \in S |-> PlaceIn(S, r)]
<1>1. n \in Nat /\ IsFiniteSet(1 .. n) /\ Cardinality(1 .. n) = n
  BY FS_CardinalityType, FS_Interval
<1>2. f \in [S -> 1 .. n]
  BY PlaceRange
<1>3. \A r, q \in S : f[r] = f[q] => r = q
  BY PlaceOwn
<1> HIDE DEF f
<1>4. f \in Injection(S, 1 .. n)
  BY <1>2, <1>3 DEF Injection, IsInjective
<1>5. f \in Surjection(S, 1 .. n)
  BY <1>1, <1>4, FS_Injection
<1>6. \E r \in S : f[r] = k
  BY <1>5 DEF Surjection
<1> QED
  BY <1>6 DEF f

\* A page is full unless the list ends on it, and what is on it is delivered
\* without a gap.
LEMMA PageHolds ==
  ASSUME NEW S, IsFiniteSet(S), S \subseteq Nat, NEW from \in Nat, NEW size \in Nat
  PROVE  LET P == PageIn(S, from, size) IN
         /\ IsFiniteSet(P) /\ Cardinality(P) \in Nat /\ Cardinality(P) <= size
         /\ \A r \in P : PlaceIn(S, r) <= from + Cardinality(P)
         /\ from + size <= Cardinality(S) => Cardinality(P) = size
         /\ size # 0 /\ P = {} => Cardinality(S) <= from
<1> DEFINE n == Cardinality(S)
           P == PageIn(S, from, size)
           last == IF n <= from + size THEN n ELSE from + size
           I == from + 1 .. last
           f == [r \in P |-> PlaceIn(S, r)]
<1>1. n \in Nat /\ \A r \in S : PlaceIn(S, r) \in 1 .. n
  BY FS_CardinalityType, PlaceRange
<1>2. last \in Nat /\ last <= n /\ last <= from + size
  BY <1>1
<1>3. P \subseteq S /\ IsFiniteSet(P) /\ Cardinality(P) \in Nat
  <2>1. P \in SUBSET S
    BY DEF PageIn
  <2> QED
    BY <2>1, FS_Subset, FS_CardinalityType
<1>4. \A r \in P : PlaceIn(S, r) \in I
  BY <1>1, <1>3 DEF PageIn
<1>5. \A k \in I : \E r \in P : PlaceIn(S, r) = k
  <2> SUFFICES ASSUME NEW k \in I PROVE \E r \in P : PlaceIn(S, r) = k
    OBVIOUS
  <2>1. k \in 1 .. n /\ from < k /\ k <= from + size
    BY <1>1, <1>2
  <2>2. PICK r \in S : PlaceIn(S, r) = k
    BY <2>1, PlaceTaken
  <2> QED
    BY <2>1, <2>2 DEF PageIn
<1>6. \A r, q \in P : PlaceIn(S, r) = PlaceIn(S, q) => r = q
  BY <1>3, PlaceOwn
<1> HIDE DEF P
<1>7. f \in Bijection(P, I)
  <2>1. f \in [P -> I] /\ \A r, q \in P : f[r] = f[q] => r = q
    BY <1>4, <1>6
  <2>2. \A k \in I : \E r \in P : f[r] = k
    BY <1>5
  <2> HIDE DEF f, I
  <2> QED
    BY <2>1, <2>2 DEF Bijection, Injection, IsInjective, Surjection
<1>8. Cardinality(I) = Cardinality(P)
  <2>1. ExistsBijection(P, I)
    BY <1>7 DEF ExistsBijection
  <2> HIDE DEF I
  <2> QED
    BY <1>3, <2>1, FS_Bijection
<1>9. Cardinality(I) = IF from + 1 > last THEN 0 ELSE last - from
  <2>1. from + 1 \in Int /\ last \in Int
    BY <1>2
  <2> HIDE DEF last
  <2>2. Cardinality(I) = IF from + 1 > last THEN 0 ELSE last - (from + 1) + 1
    BY <2>1, FS_Interval
  <2> QED
    BY <1>2, <2>2
<1>10. Cardinality(P) <= size /\ (from + size <= n => Cardinality(P) = size)
  BY <1>1, <1>2, <1>8, <1>9
<1>11. \A r \in P : PlaceIn(S, r) <= from + Cardinality(P)
  BY <1>1, <1>2, <1>4, <1>8, <1>9
<1>12. ASSUME size # 0, P = {} PROVE n <= from
  <2>1. Cardinality(P) = 0
    BY <1>12, FS_EmptySet
  <2> QED
    BY <1>1, <1>2, <1>8, <1>9, <1>12, <2>1
<1> QED
  BY <1>3, <1>10, <1>11, <1>12 DEF P

\* A newer request moves every other one down by one place.
LEMMA PlaceAdded ==
  ASSUME NEW S, IsFiniteSet(S), S \subseteq Nat, NEW m \in Nat, \A s \in S : s < m,
         NEW r \in S
  PROVE  PlaceIn(S \cup {m}, r) = PlaceIn(S, r) + 1
<1> DEFINE N == { s \in S : s >= r }  M == { s \in S \cup {m} : s >= r }
<1>1. m >= r /\ m \notin S
  <2>1. r < m /\ r \in Nat
    OBVIOUS
  <2>2. ~ (m < m)
    OBVIOUS
  <2> QED
    BY <2>1, <2>2
<1>2. M = N \cup {m} /\ m \notin N /\ N \in SUBSET S
  BY <1>1, Zenon
<1>3. IsFiniteSet(N)
  BY <1>2, FS_Subset
<1> HIDE DEF N, M
<1>4. Cardinality(M) = Cardinality(N) + 1
  BY <1>2, <1>3, FS_AddElement
<1> QED
  BY <1>4 DEF PlaceIn, N, M

\* One that goes moves the others up by one place at most.
LEMMA PlaceRemoved ==
  ASSUME NEW S, IsFiniteSet(S), S \subseteq Nat, NEW q \in S, NEW r \in S \ {q}
  PROVE  /\ PlaceIn(S, r) \in Nat /\ PlaceIn(S \ {q}, r) \in Nat
         /\ PlaceIn(S \ {q}, r) <= PlaceIn(S, r)
         /\ PlaceIn(S, r) <= PlaceIn(S \ {q}, r) + 1
<1> DEFINE N == { s \in S : s >= r }  M == { s \in S \ {q} : s >= r }
<1>1. M = N \ {q} /\ N \in SUBSET S
  BY Zenon
<1>2. IsFiniteSet(N)
  BY <1>1, FS_Subset
<1> HIDE DEF N, M
<1>3. IsFiniteSet(M) /\ Cardinality(M) = IF q \in N THEN Cardinality(N) - 1 ELSE Cardinality(N)
  BY <1>1, <1>2, FS_RemoveElement
<1>4. Cardinality(N) \in Nat /\ Cardinality(M) \in Nat
  BY <1>2, <1>3, FS_CardinalityType
<1>5. Cardinality(M) <= Cardinality(N) /\ Cardinality(N) <= Cardinality(M) + 1
  BY <1>3, <1>4
<1> QED
  BY <1>4, <1>5 DEF PlaceIn, N, M

\* A set that gains one element at most grows by one at most.
LEMMA OneMore ==
  ASSUME NEW A, IsFiniteSet(A), NEW C, \A x, y \in C : x = y, NEW B, B \subseteq A \cup C
  PROVE  IsFiniteSet(B) /\ Cardinality(B) <= Cardinality(A) + 1
<1>1. CASE C = {}
  <2>1. B \in SUBSET A
    BY <1>1
  <2>2. IsFiniteSet(B) /\ Cardinality(B) <= Cardinality(A)
    BY <2>1, FS_Subset
  <2>3. Cardinality(A) \in Nat /\ Cardinality(B) \in Nat
    BY <2>2, FS_CardinalityType
  <2> QED
    BY <2>2, <2>3
<1>2. CASE C # {}
  <2>1. PICK c \in C : TRUE
    BY <1>2
  <2>2. B \in SUBSET (A \cup {c})
    BY <2>1, Zenon
  <2>3. /\ IsFiniteSet(A \cup {c})
        /\ Cardinality(A \cup {c}) = IF c \in A THEN Cardinality(A) ELSE Cardinality(A) + 1
    BY FS_AddElement
  <2>4. IsFiniteSet(B) /\ Cardinality(B) <= Cardinality(A \cup {c})
    BY <2>2, <2>3, FS_Subset
  <2>5. Cardinality(A) \in Nat /\ Cardinality(B) \in Nat
    BY <2>4, FS_CardinalityType
  <2> QED
    BY <2>3, <2>4, <2>5
<1> QED
  BY <1>1, <1>2

\* A subset has no more elements.
LEMMA Fewer ==
  ASSUME NEW A, IsFiniteSet(A), NEW B, B \subseteq A
  PROVE  /\ IsFiniteSet(B) /\ Cardinality(A) \in Nat /\ Cardinality(B) \in Nat
         /\ Cardinality(B) <= Cardinality(A)
<1>1. B \in SUBSET A
  OBVIOUS
<1>2. IsFiniteSet(B) /\ Cardinality(B) <= Cardinality(A)
  BY <1>1, FS_Subset
<1> QED
  BY <1>2, FS_CardinalityType

-----------------------------------------------------------------------------
(* Pages                                                                    *)

\* The pages of n entries: all but the last are full, and the last ends the list.
LEMMA PageCount ==
  ASSUME NEW n \in Nat, NEW k \in Nat, NEW size \in Nat \ {0}
  PROVE  LET pages == (n + size - 1) \div size IN
         /\ k * size \in Nat /\ (k + 1) * size = k * size + size
         /\ ~ (k + 1 >= pages) => k * size + size <= n
         /\ k + 1 >= pages => n <= k * size + size
<1> DEFINE a == n + size - 1
           d == a \div size
<1>1. a \in Nat
  OBVIOUS
<1> HIDE DEF a
<1>2. d \in Nat /\ d * size <= a /\ a < d * size + size
  BY <1>1
<1> HIDE DEF d
<1>3. k * size \in Nat /\ (k + 1) * size = k * size + size
      /\ (k + 2) * size = k * size + size + size
  OBVIOUS
<1>4. ASSUME ~ (k + 1 >= d) PROVE (k + 2) * size <= d * size
  <2>1. k + 2 <= d
    BY <1>2, <1>4
  <2> QED
    BY <1>2, <2>1
<1>5. ASSUME k + 1 >= d PROVE d * size <= (k + 1) * size
  BY <1>2, <1>5
<1>6. d * size \in Nat
  BY <1>2
<1>7. ~ (k + 1 >= d) => k * size + size <= n
  BY <1>2, <1>3, <1>4, <1>6 DEF a
<1>8. k + 1 >= d => n <= k * size + size
  BY <1>2, <1>3, <1>5, <1>6 DEF a
<1> QED
  BY <1>3, <1>7, <1>8 DEF d, a

-----------------------------------------------------------------------------
(* The invariant                                                            *)

\* Without a question nothing is under way, and what is noted of one began with it.
Grounded ==
  /\ wishes \subseteq 1 .. newest /\ wishes \subseteq seen
  /\ asking => Open \subseteq seen
  /\ ~asking => /\ skip = 0 /\ pages_read = 0 /\ wishes = {} /\ entries = 0
                /\ stayed = {} /\ seen = {} /\ removed = 0 /\ added = 0

\* Every page before the one that is next was full.
FullSoFar == skip = pages_read * PageSize

Typed == TypeOK /\ Grounded

\* What has stayed open and is not read, though its place was passed.
Missed == { r \in stayed \ wishes : PlaceIn(listed, r) <= skip }

\* What has been read and is still to come.
Again == { r \in listed \cap wishes : skip < PlaceIn(listed, r) }

\* Each of the missed was moved up by a removal of its own, and each that is read
\* twice, now or later, was moved down by a request made.
MissedByRemoval == Cardinality(Missed) <= removed
AgainByMaking == entries + Cardinality(Again) <= Cardinality(wishes) + added

IInv == Typed /\ FullSoFar /\ MissedByRemoval /\ AgainByMaking

LEMMA PageSizeType == PageSize \in Nat \ {0}
BY PagingAssumption DEF PageSize

\* What there is, is finite.
LEMMA AllFinite ==
  ASSUME Typed
  PROVE  /\ listed \subseteq Nat /\ IsFiniteSet(listed) /\ Cardinality(listed) \in Nat
         /\ wishes \subseteq Nat /\ IsFiniteSet(wishes) /\ Cardinality(wishes) \in Nat
         /\ IsFiniteSet(stayed) /\ stayed \subseteq listed
         /\ IsFiniteSet(Missed) /\ IsFiniteSet(Again)
<1>1. newest \in Nat /\ listed \subseteq 1 .. newest /\ wishes \subseteq 1 .. newest
  BY DEF Typed, TypeOK, Grounded
<1>2. IsFiniteSet(1 .. newest) /\ 1 .. newest \subseteq Nat
  BY <1>1, FS_Interval
<1>3. IsFiniteSet(listed) /\ IsFiniteSet(wishes)
  BY <1>1, <1>2, Fewer
<1>4. stayed \subseteq listed
  BY DEF Typed, TypeOK, Open
<1>5. Missed \subseteq listed /\ Again \subseteq listed
  BY <1>4 DEF Missed, Again
<1> QED
  BY <1>1, <1>2, <1>3, <1>4, <1>5, Fewer, FS_CardinalityType

\* The page, as a piece of the list.
LEMMA ThePage == Page = PageIn(listed, skip, PageSize)
BY DEF Page, PageIn, Place, PlaceIn

\* Nothing is on the way at first.
LEMMA IInvStarts == Init => IInv
<1> SUFFICES ASSUME Init PROVE IInv
  OBVIOUS
<1>1. /\ newest \in Nat /\ listed = 1 .. newest /\ available \subseteq listed
      /\ asking = FALSE /\ skip = 0 /\ pages_read = 0 /\ wishes = {} /\ entries = 0
      /\ answer = {} /\ faults \in Nat /\ stayed = {} /\ seen = {} /\ removed = 0 /\ added = 0
  BY PagingAssumption DEF Init
<1>2. Typed
  BY <1>1 DEF Typed, TypeOK, Grounded
<1>3. FullSoFar
  BY <1>1, PageSizeType DEF FullSoFar
<1>4. Missed = {} /\ Again = {}
  BY <1>1 DEF Missed, Again
<1>5. Cardinality({}) = 0
  BY FS_EmptySet
<1>6. MissedByRemoval /\ AgainByMaking
  BY <1>1, <1>4, <1>5 DEF MissedByRemoval, AgainByMaking
<1> QED
  BY <1>2, <1>3, <1>6 DEF IInv

-----------------------------------------------------------------------------
(* Types                                                                    *)

\* What Seerr does keeps the types, and the notes of it.
LEMMA ChangeTyped ==
  ASSUME Typed, UNCHANGED <<paging, faults>>, Noted,
         newest' \in Nat, newest <= newest', listed' \subseteq 1 .. newest',
         available' \subseteq listed',
         IsFiniteSet(listed \ listed'), IsFiniteSet(listed' \ listed)
  PROVE  Typed'
<1>1. /\ 1 .. newest \subseteq 1 .. newest' /\ 1 .. newest' \subseteq Nat
  BY DEF Typed, TypeOK
<1>2. Open' \subseteq Nat
  BY <1>1 DEF Open
<1>3. Cardinality(listed \ listed') \in Nat /\ Cardinality(listed' \ listed) \in Nat
  BY FS_CardinalityType
<1>4. CASE asking
  <2>1. /\ stayed' = stayed \cap Open' /\ seen' = seen \cup Open'
        /\ removed' \in Nat /\ added' \in Nat
    BY <1>3, <1>4 DEF Noted, Typed, TypeOK
  <2>2. TypeOK'
    BY <1>2, <2>1 DEF Typed, TypeOK, paging
  <2>3. Grounded'
    BY <1>1, <1>4, <2>1 DEF Typed, Grounded, paging
  <2> QED
    BY <2>2, <2>3 DEF Typed
<1>5. CASE ~asking
  <2>1. UNCHANGED history /\ stayed = {}
    BY <1>5 DEF Noted, Typed, Grounded
  <2>2. TypeOK'
    BY <2>1 DEF Typed, TypeOK, paging, history
  <2>3. Grounded'
    BY <1>1, <1>5, <2>1 DEF Typed, Grounded, paging, history
  <2> QED
    BY <2>2, <2>3 DEF Typed
<1> QED
  BY <1>4, <1>5

LEMMA ForgetTyped ==
  ASSUME Typed, Forget, UNCHANGED seerr, faults' \in Nat, answer' \subseteq Nat
  PROVE  Typed' /\ FullSoFar'
<1>1. PageSize \in Nat
  BY PageSizeType
<1>2. PageSize' = PageSize
  BY DEF PageSize
<1>3. Typed'
  BY DEF Typed, TypeOK, Grounded, Forget, seerr
<1> QED
  BY <1>1, <1>2, <1>3 DEF Forget, FullSoFar

\* Where the next page begins, and that what is read is of the page.
LEMMA NextPageFacts ==
  ASSUME Typed, FullSoFar, NextPage
  PROVE  /\ IsFiniteSet(Page) /\ Cardinality(Page) \in Nat /\ Page \subseteq listed
         /\ \A r \in listed : r \in Page <=>
              skip < PlaceIn(listed, r) /\ PlaceIn(listed, r) <= skip + Cardinality(Page)
         /\ Cardinality(Page) = PageSize /\ skip' = skip + PageSize
         /\ FullSoFar'
<1> DEFINE n == Cardinality(listed)  p == Cardinality(Page)
<1>1. PageSize \in Nat /\ PageSize # 0 /\ skip \in Nat /\ pages_read \in Nat
  BY PageSizeType DEF Typed, TypeOK
<1>2. listed \subseteq Nat /\ IsFiniteSet(listed) /\ n \in Nat
  BY AllFinite
<1>3. IsFiniteSet(Page) /\ p \in Nat /\ (skip + PageSize <= n => p = PageSize)
  BY <1>1, <1>2, PageHolds, ThePage
<1>4. skip = pages_read * PageSize /\ ~ (pages_read + 1 >= Pages)
  BY DEF FullSoFar, NextPage, Last
<1>5. skip + PageSize <= n /\ (pages_read + 1) * PageSize = skip + PageSize
  BY <1>1, <1>2, <1>4, PageCount DEF Pages
<1>6. p = PageSize /\ skip' = skip + PageSize /\ pages_read' = pages_read + 1
  BY <1>3, <1>5 DEF NextPage, Advance
<1>7. PageSize' = PageSize
  BY DEF PageSize
<1>8. FullSoFar'
  BY <1>5, <1>6, <1>7 DEF FullSoFar
<1>9. Page \subseteq listed /\ \A r \in listed : r \in Page <=>
        skip < PlaceIn(listed, r) /\ PlaceIn(listed, r) <= skip + PageSize
  BY Zenon DEF Page, Place, PlaceIn
<1> QED
  BY <1>3, <1>6, <1>8, <1>9

LEMMA TypedStep ==
  ASSUME Typed, FullSoFar, [Next]_vars
  PROVE  Typed' /\ FullSoFar'
<1> USE DEF paging
<1>1. newest \in Nat /\ listed \subseteq 1 .. newest /\ available \subseteq listed
  BY DEF Typed, TypeOK
<1> Open \subseteq Nat
  <2>1. 1 .. newest \subseteq Nat
    BY <1>1
  <2> QED
    BY <1>1, <2>1, Zenon DEF Open
<1>2. IsFiniteSet({}) /\ \A r : IsFiniteSet({r})
  BY FS_EmptySet, FS_Singleton
<1>3. ASSUME UNCHANGED <<skip, pages_read>> PROVE FullSoFar'
  BY <1>3 DEF FullSoFar, PageSize
<1>4. CASE Make
  <2>1. /\ newest' = newest + 1 /\ listed' = listed \cup {newest + 1}
        /\ available' = available /\ UNCHANGED <<paging, faults>> /\ Noted
    BY <1>4 DEF Make
  <2>2. newest' \in Nat /\ newest <= newest' /\ listed' \subseteq 1 .. newest'
    BY <1>1, <2>1
  <2>3. listed \ listed' = {} /\ listed' \ listed \subseteq {newest + 1}
    BY <2>1, Zenon
  <2>4. IsFiniteSet(listed \ listed') /\ IsFiniteSet(listed' \ listed)
    BY <1>2, <2>3, Fewer
  <2>5. Typed'
    BY <1>1, <2>1, <2>2, <2>4, ChangeTyped
  <2> QED
    BY <1>3, <2>1, <2>5
<1>5. ASSUME NEW r \in listed, Remove(r) PROVE Typed' /\ FullSoFar'
  <2>1. /\ newest' = newest /\ listed' = listed \ {r} /\ available' = available \ {r}
        /\ UNCHANGED <<paging, faults>> /\ Noted
    BY <1>5 DEF Remove
  <2>2. listed \ listed' \subseteq {r} /\ listed' \ listed = {}
    BY <2>1, Zenon
  <2>3. IsFiniteSet(listed \ listed') /\ IsFiniteSet(listed' \ listed)
    BY <1>2, <2>2, Fewer
  <2>4. newest' \in Nat /\ newest <= newest' /\ listed' \subseteq 1 .. newest'
        /\ available' \subseteq listed'
    BY <1>1, <2>1
  <2>5. Typed'
    BY <2>1, <2>3, <2>4, ChangeTyped
  <2> QED
    BY <1>3, <2>1, <2>5
<1>6. ASSUME NEW r \in listed, Becomes(r) PROVE Typed' /\ FullSoFar'
  <2>1. /\ newest' = newest /\ listed' = listed /\ available' = available \cup {r}
        /\ UNCHANGED <<paging, faults>> /\ Noted
    BY <1>6 DEF Becomes
  <2>2. IsFiniteSet(listed \ listed') /\ IsFiniteSet(listed' \ listed)
    <3>1. listed \ listed' = {} /\ listed' \ listed = {}
      BY <2>1
    <3> QED
      BY <1>2, <3>1
  <2>3. newest' \in Nat /\ newest <= newest' /\ listed' \subseteq 1 .. newest'
        /\ available' \subseteq listed'
    BY <1>1, <2>1
  <2>4. Typed'
    BY <2>1, <2>2, <2>3, ChangeTyped
  <2> QED
    BY <1>3, <2>1, <2>4
<1>7. CASE Ask
  <2>1. Open' = Open
    BY <1>7 DEF Open, Ask, seerr
  <2>2. Typed'
    BY <1>7, <2>1 DEF Ask, Typed, TypeOK, Grounded, seerr
  <2>3. FullSoFar'
    BY <1>7, PageSizeType DEF Ask, FullSoFar, PageSize
  <2> QED
    BY <2>2, <2>3
<1>8. CASE NextPage
  <2>1. /\ Page \subseteq listed /\ Cardinality(Page) \in Nat /\ IsFiniteSet(Page)
        /\ skip' = skip + PageSize /\ FullSoFar'
    BY <1>8, NextPageFacts
  <2>2. Cardinality(Page \cap Open) \in Nat
    BY <2>1, FS_Intersection, FS_CardinalityType
  <2>3. Page \cap Open \subseteq 1 .. newest /\ Open' = Open
    BY <1>1, <1>8, <2>1 DEF NextPage, Open, seerr
  <2>4. skip' \in Nat /\ pages_read' \in Nat /\ entries' \in Nat
    BY <1>8, <2>1, <2>2, PageSizeType DEF NextPage, Typed, TypeOK
  <2>5. TypeOK'
    BY <1>8, <2>3, <2>4 DEF NextPage, Typed, TypeOK, Grounded, seerr, history
  <2>6. Grounded'
    BY <1>8, <2>3 DEF NextPage, Typed, Grounded, seerr, history
  <2> QED
    BY <2>1, <2>5, <2>6 DEF Typed
<1>9. CASE LastPage
  <2>1. wishes \cup (Page \cap Open) \subseteq Nat /\ faults \in Nat
    BY DEF Typed, TypeOK
  <2> QED
    BY <1>9, <2>1, ForgetTyped DEF LastPage
<1>10. CASE PageFails
  <2>1. answer \subseteq Nat /\ faults - 1 \in Nat
    BY <1>10 DEF PageFails, Typed, TypeOK
  <2> QED
    BY <1>10, <2>1, ForgetTyped DEF PageFails
<1>11. CASE UNCHANGED vars
  BY <1>3, <1>11 DEF vars, seerr, history, Typed, TypeOK, Grounded, Open
<1> QED
  BY <1>4, <1>5, <1>6, <1>7, <1>8, <1>9, <1>10, <1>11 DEF Next

-----------------------------------------------------------------------------
(* What is missed                                                           *)

\* Only a removal makes the reader miss one more, and it makes it miss no other.
LEMMA MissedStep ==
  ASSUME Typed, Typed', FullSoFar, MissedByRemoval, [Next]_vars
  PROVE  MissedByRemoval'
<1>1. /\ listed \subseteq Nat /\ IsFiniteSet(listed) /\ IsFiniteSet(Missed)
      /\ stayed \subseteq listed /\ Cardinality(Missed) <= removed
  BY AllFinite DEF MissedByRemoval
<1>2. removed \in Nat /\ removed' \in Nat /\ skip \in Nat /\ newest \in Nat
  BY DEF Typed, TypeOK
<1>3. ASSUME Missed' \subseteq Missed, removed <= removed' PROVE MissedByRemoval'
  <2>1. /\ Cardinality(Missed') \in Nat /\ Cardinality(Missed) \in Nat
        /\ Cardinality(Missed') <= Cardinality(Missed)
    BY <1>1, <1>3, Fewer
  <2> QED
    BY <1>1, <1>2, <1>3, <2>1 DEF MissedByRemoval
<1>4. ASSUME Missed' = {} PROVE MissedByRemoval'
  BY <1>2, <1>4, FS_EmptySet DEF MissedByRemoval
<1>5. CASE ~ asking'
  <2>1. stayed' = {}
    BY <1>5 DEF Typed, Grounded
  <2> QED
    BY <1>4, <2>1 DEF Missed
<1>6. CASE asking' /\ Make
  <2>1. /\ listed' = listed \cup {newest + 1} /\ UNCHANGED paging /\ asking
        /\ stayed' \subseteq stayed /\ removed' = removed + Cardinality(listed \ listed')
    BY <1>6 DEF Make, Noted, paging
  <2>2. listed \ listed' = {} /\ Cardinality({}) = 0
    BY <2>1, FS_EmptySet, Zenon
  <2>3. removed' = removed
    BY <1>2, <2>1, <2>2
  <2>4. ASSUME NEW r \in listed PROVE PlaceIn(listed', r) = PlaceIn(listed, r) + 1
    <3>1. newest + 1 \in Nat /\ \A s \in listed : s < newest + 1
      BY <1>2 DEF Typed, TypeOK
    <3> QED
      BY <1>1, <2>1, <3>1, PlaceAdded, Zenon
  <2>5. \A r \in listed : PlaceIn(listed, r) \in Nat
    BY <1>1, PlaceType
  <2>6. ASSUME NEW r \in Missed' PROVE r \in Missed
    <3>1. r \in stayed /\ r \in listed /\ r \notin wishes /\ PlaceIn(listed', r) <= skip
      BY <1>1, <2>1 DEF Missed, paging
    <3>2. PlaceIn(listed, r) <= skip
      BY <1>2, <2>4, <2>5, <3>1
    <3> QED
      BY <3>1, <3>2 DEF Missed
  <2> QED
    BY <1>2, <1>3, <2>3, <2>6
<1>7. ASSUME asking', NEW q \in listed, Remove(q) PROVE MissedByRemoval'
  <2>1. /\ listed' = listed \ {q} /\ UNCHANGED paging /\ asking
        /\ stayed' = stayed \cap Open' /\ removed' = removed + Cardinality(listed \ listed')
    BY <1>7 DEF Remove, Noted, paging
  <2>2. listed \ listed' = {q}
    BY <2>1, Zenon
  <2>3. removed' = removed + 1
    BY <2>1, <2>2, FS_Singleton
  <2> DEFINE C == { r \in listed : PlaceIn(listed, r) = skip + 1 }
  <2>4. \A x, y \in C : x = y
    BY <1>1, PlaceOwn
  <2>5. ASSUME NEW r \in Missed' PROVE r \in Missed \cup C
    <3>1. /\ r \in stayed /\ r \in listed \ {q} /\ r \notin wishes
          /\ PlaceIn(listed \ {q}, r) <= skip
      BY <1>1, <2>1 DEF Missed, Open, paging
    <3> DEFINE k == PlaceIn(listed, r)  j == PlaceIn(listed \ {q}, r)
    <3>2. k \in Nat /\ j \in Nat /\ k <= j + 1
      BY <1>1, <3>1, PlaceRemoved, Zenon
    <3>3. j <= skip
      BY <3>1
    <3> HIDE DEF k, j
    <3>4. k <= skip \/ k = skip + 1
      BY <1>2, <3>2, <3>3
    <3> QED
      BY <3>1, <3>4, Zenon DEF Missed, k
  <2> HIDE DEF C
  <2>6. IsFiniteSet(Missed') /\ Cardinality(Missed') <= Cardinality(Missed) + 1
    BY <1>1, <2>4, <2>5, OneMore
  <2>7. Cardinality(Missed) \in Nat /\ Cardinality(Missed') \in Nat
    BY <1>1, <2>6, FS_CardinalityType
  <2> QED
    BY <1>1, <1>2, <2>3, <2>6, <2>7 DEF MissedByRemoval
<1>8. ASSUME asking', NEW q \in listed, Becomes(q) PROVE MissedByRemoval'
  <2>1. /\ listed' = listed /\ UNCHANGED paging /\ asking
        /\ stayed' \subseteq stayed /\ removed' = removed + Cardinality(listed \ listed')
    BY <1>8 DEF Becomes, Noted, paging
  <2>2. listed \ listed' = {} /\ Cardinality({}) = 0
    BY <2>1, FS_EmptySet, Zenon
  <2>3. removed' = removed
    BY <1>2, <2>1, <2>2
  <2>4. Missed' \subseteq Missed
    BY <2>1 DEF Missed, paging
  <2> QED
    BY <1>2, <1>3, <2>3, <2>4
<1>9. CASE Ask
  <2>1. skip' = 0 /\ listed' = listed /\ stayed' \subseteq listed
    BY <1>9 DEF Ask, Open, seerr
  <2>2. ASSUME NEW r \in Missed' PROVE FALSE
    <3>1. r \in listed /\ PlaceIn(listed, r) <= 0
      BY <2>1, <2>2 DEF Missed
    <3>2. PlaceIn(listed, r) \in Nat /\ PlaceIn(listed, r) >= 1
      BY <1>1, <3>1, PlaceType
    <3> QED
      BY <3>1, <3>2
  <2> QED
    BY <1>4, <2>2
<1>10. CASE asking' /\ NextPage
  <2>1. /\ listed' = listed /\ stayed' = stayed /\ removed' = removed
        /\ wishes' = wishes \cup (Page \cap Open)
    BY <1>10 DEF NextPage, seerr, history
  <2>2. /\ skip' = skip + Cardinality(Page) /\ Page \subseteq listed
        /\ \A r \in listed : r \in Page <=>
             skip < PlaceIn(listed, r) /\ PlaceIn(listed, r) <= skip + Cardinality(Page)
    BY <1>10, NextPageFacts
  <2>3. ASSUME NEW r \in Missed' PROVE r \in Missed
    <3>1. r \in stayed /\ r \in listed /\ r \notin wishes /\ r \notin Page \cap Open
          /\ PlaceIn(listed, r) <= skip + Cardinality(Page)
      BY <1>1, <2>1, <2>2 DEF Missed
    <3>2. r \in Open
      BY <3>1 DEF Typed, TypeOK
    <3>3. ~ (skip < PlaceIn(listed, r))
      BY <2>2, <3>1, <3>2, Zenon
    <3>4. PlaceIn(listed, r) \in Nat
      BY <1>1, <3>1, PlaceType
    <3>5. PlaceIn(listed, r) <= skip
      BY <1>2, <3>3, <3>4
    <3> QED
      BY <3>1, <3>5 DEF Missed
  <2> QED
    BY <1>2, <1>3, <2>1, <2>3
<1>11. CASE LastPage \/ PageFails
  BY <1>5, <1>11 DEF LastPage, PageFails, Forget
<1>12. CASE UNCHANGED vars
  BY <1>2, <1>3, <1>12 DEF vars, seerr, paging, history, Missed
<1> QED
  BY <1>5, <1>6, <1>7, <1>8, <1>9, <1>10, <1>11, <1>12 DEF Next

-----------------------------------------------------------------------------
(* What is read again                                                       *)

\* Only a request made brings one that was read before the reader once more.
LEMMA AgainStep ==
  ASSUME Typed, Typed', FullSoFar, AgainByMaking, [Next]_vars
  PROVE  AgainByMaking'
<1>1. /\ listed \subseteq Nat /\ IsFiniteSet(listed) /\ IsFiniteSet(Again)
      /\ IsFiniteSet(wishes) /\ Cardinality(wishes) \in Nat
      /\ entries + Cardinality(Again) <= Cardinality(wishes) + added
  BY AllFinite DEF AgainByMaking
<1>2. /\ entries \in Nat /\ added \in Nat /\ added' \in Nat /\ skip \in Nat /\ newest \in Nat
      /\ Cardinality(Again) \in Nat
  BY <1>1, FS_CardinalityType DEF Typed, TypeOK
<1>3. ASSUME Again' \subseteq Again, UNCHANGED <<entries, wishes>>, added <= added'
      PROVE  AgainByMaking'
  <2>1. Cardinality(Again') \in Nat /\ Cardinality(Again') <= Cardinality(Again)
    BY <1>1, <1>3, Fewer
  <2> QED
    BY <1>1, <1>2, <1>3, <2>1 DEF AgainByMaking
<1>4. ASSUME wishes' = {}, entries' = 0 PROVE AgainByMaking'
  <2>1. Again' = {} /\ Cardinality({}) = 0
    BY <1>4, FS_EmptySet DEF Again
  <2> QED
    BY <1>2, <1>4, <2>1 DEF AgainByMaking
<1>5. CASE ~ asking'
  BY <1>4, <1>5 DEF Typed, Grounded
<1>6. CASE asking' /\ Make
  <2>1. /\ listed' = listed \cup {newest + 1} /\ UNCHANGED paging /\ asking
        /\ added' = added + Cardinality(listed' \ listed)
    BY <1>6 DEF Make, Noted, paging
  <2>2. newest + 1 \in Nat /\ \A s \in listed : s < newest + 1
    BY <1>2 DEF Typed, TypeOK
  <2>3. newest + 1 \notin listed /\ newest + 1 \notin wishes
    BY <1>2 DEF Typed, TypeOK, Grounded
  <2>4. listed' \ listed = {newest + 1}
    BY <2>1, <2>3, Zenon
  <2>5. added' = added + 1
    BY <2>1, <2>4, FS_Singleton
  <2>6. ASSUME NEW r \in listed PROVE PlaceIn(listed', r) = PlaceIn(listed, r) + 1
    BY <1>1, <2>1, <2>2, PlaceAdded, Zenon
  <2>7. \A r \in listed : PlaceIn(listed, r) \in Nat
    BY <1>1, PlaceType
  <2> DEFINE C == { r \in listed : PlaceIn(listed, r) = skip }
  <2>8. \A x, y \in C : x = y
    BY <1>1, PlaceOwn
  <2>9. ASSUME NEW r \in Again' PROVE r \in Again \cup C
    <3>1. r \in listed /\ r \in wishes /\ skip < PlaceIn(listed', r)
      BY <2>1, <2>3 DEF Again, paging
    <3>2. skip < PlaceIn(listed, r) \/ PlaceIn(listed, r) = skip
      BY <1>2, <2>6, <2>7, <3>1
    <3> QED
      BY <3>1, <3>2, Zenon DEF Again
  <2> HIDE DEF C
  <2>10. IsFiniteSet(Again') /\ Cardinality(Again') <= Cardinality(Again) + 1
    BY <1>1, <2>8, <2>9, OneMore
  <2>11. Cardinality(Again') \in Nat
    BY <2>10, FS_CardinalityType
  <2>12. entries' = entries /\ wishes' = wishes
    BY <2>1 DEF paging
  <2> QED
    BY <1>1, <1>2, <2>5, <2>10, <2>11, <2>12 DEF AgainByMaking
<1>7. ASSUME asking', NEW q \in listed, Remove(q) PROVE AgainByMaking'
  <2>1. /\ listed' = listed \ {q} /\ UNCHANGED paging /\ asking
        /\ added' = added + Cardinality(listed' \ listed)
    BY <1>7 DEF Remove, Noted, paging
  <2>2. listed' \ listed = {} /\ Cardinality({}) = 0
    BY <2>1, FS_EmptySet, Zenon
  <2>3. added' = added
    BY <1>2, <2>1, <2>2
  <2>4. ASSUME NEW r \in Again' PROVE r \in Again
    <3>1. r \in listed \ {q} /\ r \in wishes /\ skip < PlaceIn(listed \ {q}, r)
      BY <2>1 DEF Again, paging
    <3> DEFINE k == PlaceIn(listed, r)  j == PlaceIn(listed \ {q}, r)
    <3>2. k \in Nat /\ j \in Nat /\ j <= k
      BY <1>1, <3>1, PlaceRemoved, Zenon
    <3>3. skip < j
      BY <3>1
    <3> HIDE DEF k, j
    <3>4. skip < k
      BY <1>2, <3>2, <3>3
    <3> QED
      BY <3>1, <3>4, Zenon DEF Again, k
  <2>5. UNCHANGED <<entries, wishes>>
    BY <2>1 DEF paging
  <2> QED
    BY <1>2, <1>3, <2>3, <2>4, <2>5
<1>8. ASSUME asking', NEW q \in listed, Becomes(q) PROVE AgainByMaking'
  <2>1. /\ listed' = listed /\ UNCHANGED paging /\ asking
        /\ added' = added + Cardinality(listed' \ listed)
    BY <1>8 DEF Becomes, Noted, paging
  <2>2. listed' \ listed = {} /\ Cardinality({}) = 0
    BY <2>1, FS_EmptySet, Zenon
  <2>3. added' = added
    BY <1>2, <2>1, <2>2
  <2>4. Again' \subseteq Again /\ UNCHANGED <<entries, wishes>>
    BY <2>1 DEF Again, paging
  <2> QED
    BY <1>2, <1>3, <2>3, <2>4
<1>9. CASE Ask
  BY <1>4, <1>9 DEF Ask
<1>10. CASE asking' /\ NextPage
  <2> DEFINE R == Page \cap Open
             D == wishes \cap R
  <2>1. /\ listed' = listed /\ added' = added /\ wishes' = wishes \cup R
        /\ entries' = entries + Cardinality(R)
    BY <1>10 DEF NextPage, seerr, history
  <2>2. /\ skip' = skip + Cardinality(Page) /\ Page \subseteq listed /\ IsFiniteSet(Page)
        /\ Cardinality(Page) \in Nat
        /\ \A r \in listed : r \in Page <=>
             skip < PlaceIn(listed, r) /\ PlaceIn(listed, r) <= skip + Cardinality(Page)
    BY <1>10, NextPageFacts
  <2>3. IsFiniteSet(R) /\ Cardinality(R) \in Nat
    BY <2>2, FS_Intersection, FS_CardinalityType
  <2>4. IsFiniteSet(D) /\ Cardinality(D) \in Nat
    BY <1>1, FS_Intersection, FS_CardinalityType
  <2>5. Cardinality(wishes') = Cardinality(wishes) + Cardinality(R) - Cardinality(D)
    BY <1>1, <2>1, <2>3, FS_Union
  <2>6. D \subseteq Again
    BY <2>2 DEF Again
  <2>7. ASSUME NEW r \in Again' PROVE r \in Again \ D
    <3>1. r \in listed /\ r \in wishes \cup R /\ skip + Cardinality(Page) < PlaceIn(listed, r)
      BY <2>1, <2>2 DEF Again
    <3>2. PlaceIn(listed, r) \in Nat
      BY <1>1, <3>1, PlaceType
    <3>3. skip < PlaceIn(listed, r) /\ ~ (PlaceIn(listed, r) <= skip + Cardinality(Page))
      BY <1>2, <2>2, <3>1, <3>2
    <3>4. r \notin Page
      BY <2>2, <3>1, <3>3, Zenon
    <3> QED
      BY <3>1, <3>3, <3>4, Zenon DEF Again
  <2> HIDE DEF R, D
  <2>8. Again \cap D = D
    BY <2>6, Zenon
  <2>9. IsFiniteSet(Again \ D) /\ Cardinality(Again \ D) = Cardinality(Again) - Cardinality(D)
    BY <1>1, <2>8, FS_Difference
  <2>10. /\ Cardinality(Again') \in Nat /\ Cardinality(Again') <= Cardinality(Again \ D)
    BY <2>7, <2>9, Fewer
  <2> QED
    BY <1>1, <1>2, <2>1, <2>3, <2>4, <2>5, <2>9, <2>10 DEF AgainByMaking
<1>11. CASE LastPage \/ PageFails
  BY <1>5, <1>11 DEF LastPage, PageFails, Forget
<1>12. CASE UNCHANGED vars
  BY <1>2, <1>3, <1>12 DEF vars, seerr, paging, history, Again
<1> QED
  BY <1>5, <1>6, <1>7, <1>8, <1>9, <1>10, <1>11, <1>12 DEF Next

-----------------------------------------------------------------------------
(* What is proved                                                           *)

LEMMA IInvStep ==
  ASSUME IInv, [Next]_vars
  PROVE  IInv'
<1>1. Typed' /\ FullSoFar'
  BY TypedStep DEF IInv
<1>2. MissedByRemoval' /\ AgainByMaking'
  BY <1>1, MissedStep, AgainStep DEF IInv
<1> QED
  BY <1>1, <1>2 DEF IInv

\* The variables keep their types, every page but the last is full, and neither
\* what is missed nor what is read twice outnumbers the changes under the reader.
THEOREM PagingInvariant == Spec => []IInv
<1>1. Init => IInv
  BY IInvStarts
<1>2. IInv /\ [Next]_vars => IInv'
  BY IInvStep
<1> QED
  BY <1>1, <1>2, PTL DEF Spec

\* A round of the watcher considers nobody twice but for the requests made while
\* it was reading (open_wishes, "skip COUNTS WHAT WAS DELIVERED"), whatever Seerr
\* gives per page.
THEOREM ReadOnce == Spec => []TwiceOnlyIfAdded
<1>1. ASSUME IInv PROVE TwiceOnlyIfAdded
  <2>1. /\ entries + Cardinality(Again) <= Cardinality(wishes) + added
        /\ entries \in Nat /\ added \in Nat
    BY <1>1 DEF IInv, AgainByMaking, Typed, TypeOK
  <2>2. Cardinality(wishes) \in Nat /\ Cardinality(Again) \in Nat
    BY <1>1, AllFinite, FS_CardinalityType DEF IInv
  <2> QED
    BY <2>1, <2>2 DEF TwiceOnlyIfAdded
<1> QED
  BY <1>1, PagingInvariant, PTL

\* The last page ends the list: what has stayed open is read, but for the missed.
LEMMA AnswerKept ==
  ASSUME IInv, LastPage
  PROVE  answer' \subseteq seen /\ Cardinality(stayed \ answer') <= removed
<1> DEFINE n == Cardinality(listed)
<1>1. /\ listed \subseteq Nat /\ IsFiniteSet(listed) /\ n \in Nat /\ stayed \subseteq listed
      /\ IsFiniteSet(Missed) /\ Cardinality(Missed) <= removed
  BY AllFinite DEF IInv, MissedByRemoval
<1>2. /\ removed \in Nat /\ skip \in Nat /\ pages_read \in Nat /\ stayed \subseteq Open
      /\ wishes \subseteq seen /\ Open \subseteq seen
  BY DEF IInv, Typed, TypeOK, Grounded, LastPage
<1>3. answer' = wishes \cup (Page \cap Open)
  BY DEF LastPage
<1>4. n <= skip + PageSize
  <2>1. PageSize \in Nat /\ PageSize # 0 /\ PageSize \in Nat \ {0}
    BY PageSizeType
  <2>2. CASE Page = {}
    <3>1. PageIn(listed, skip, PageSize) = {}
      BY <2>2, ThePage
    <3>2. n <= skip
      BY <1>1, <1>2, <2>1, <3>1, PageHolds
    <3> QED
      BY <1>1, <1>2, <2>1, <3>2
  <2>3. CASE pages_read + 1 >= Pages
    <3>1. skip = pages_read * PageSize
      BY DEF IInv, FullSoFar
    <3> QED
      BY <1>1, <1>2, <2>1, <2>3, <3>1, PageCount DEF Pages
  <2> QED
    BY <2>2, <2>3 DEF LastPage, Last
<1>5. ASSUME NEW r \in stayed \ answer' PROVE r \in Missed
  <2>1. r \in listed /\ r \in Open /\ r \notin wishes /\ r \notin Page
    BY <1>1, <1>2, <1>3
  <2>2. PlaceIn(listed, r) \in 1 .. n
    BY <1>1, <2>1, PlaceRange
  <2>3. PlaceIn(listed, r) \in Nat /\ PlaceIn(listed, r) <= skip + PageSize
    BY <1>1, <1>2, <1>4, <2>2, PageSizeType
  <2>4. ~ (skip < PlaceIn(listed, r))
    BY <2>1, <2>3, ThePage DEF PageIn
  <2>5. PlaceIn(listed, r) <= skip
    BY <1>2, <2>3, <2>4
  <2> QED
    BY <2>1, <2>5 DEF Missed
<1>6. /\ Cardinality(stayed \ answer') \in Nat /\ Cardinality(Missed) \in Nat
      /\ Cardinality(stayed \ answer') <= Cardinality(Missed)
  BY <1>1, <1>5, Fewer
<1>7. Cardinality(stayed \ answer') <= removed
  BY <1>1, <1>2, <1>6
<1> QED
  BY <1>2, <1>3, <1>7

\* What Seerr does is a change of the promise: a removal is counted once.
LEMMA ChangeKept ==
  ASSUME Typed, Typed', Make \/ \E r \in listed : Remove(r) \/ Becomes(r)
  PROVE  Promise!Change
<1>1. Open' \subseteq Nat
  <2>1. newest' \in Nat /\ listed' \subseteq 1 .. newest'
    BY DEF Typed, TypeOK
  <2>2. 1 .. newest' \subseteq Nat
    BY <2>1
  <2> QED
    BY <2>1, <2>2, Zenon DEF Open
<1>2. UNCHANGED paging /\ Noted
  BY DEF Make, Remove, Becomes, paging
<1>3. /\ stayed' = IF asking THEN stayed \cap Open' ELSE stayed
      /\ seen' = IF asking THEN seen \cup Open' ELSE seen
      /\ removed' = IF asking THEN removed + Cardinality(listed \ listed') ELSE removed
  BY <1>2 DEF Noted, history
<1>4. Cardinality(listed \ listed') \in {0, 1}
  <2>1. \/ listed \ listed' = {}
        \/ \E r \in listed : listed \ listed' = {r}
    BY Zenon DEF Make, Remove, Becomes
  <2> QED
    BY <2>1, FS_EmptySet, FS_Singleton
<1>5. removed' \in {removed, removed + 1}
  <2>1. removed \in Nat
    BY DEF Typed, TypeOK
  <2> QED
    BY <1>3, <1>4, <2>1
<1>6. UNCHANGED <<asking, answer>>
  BY <1>2 DEF paging
<1> QED
  BY <1>1, <1>3, <1>5, <1>6 DEF Promise!Change

\* The promise counts as the module does.
LEMMA SameCardinality == \A S : Promise!Cardinality(S) = Cardinality(S)
BY Zenon DEF Promise!Cardinality, Cardinality

\* Every step is a step of the promise, or none.
LEMMA PromiseStep ==
  ASSUME IInv, IInv', [Next]_vars
  PROVE  [Promise!Next]_(Promise!vars)
<1>1. CASE Make \/ \E r \in listed : Remove(r) \/ Becomes(r)
  BY <1>1, ChangeKept DEF IInv, Promise!Next
<1>2. CASE Ask
  <2>1. Promise!Ask
    BY <1>2 DEF Ask, Promise!Ask, seerr, Open
  <2> QED
    BY <2>1 DEF Promise!Next
<1>3. CASE NextPage
  <2>1. UNCHANGED Promise!vars
    BY <1>3 DEF NextPage, Promise!vars, seerr, history, Open
  <2> QED
    BY <2>1
<1>4. CASE LastPage
  <2>1. Promise!Over
    BY <1>4 DEF LastPage, Forget, Promise!Over, seerr, Open
  <2>2. answer' \subseteq seen /\ Cardinality(stayed \ answer') <= removed
    BY <1>4, AnswerKept
  <2>3. Promise!Answer
    BY <2>1, <2>2, SameCardinality DEF Promise!Answer
  <2> QED
    BY <2>3 DEF Promise!Next
<1>5. CASE PageFails
  <2>1. Promise!NoAnswer
    BY <1>5 DEF PageFails, Forget, Promise!Over, Promise!NoAnswer, seerr, Open
  <2> QED
    BY <2>1 DEF Promise!Next
<1>6. CASE UNCHANGED vars
  <2>1. UNCHANGED Promise!vars
    BY <1>6 DEF vars, Promise!vars, seerr, paging, history, Open
  <2> QED
    BY <2>1
<1> QED
  BY <1>1, <1>2, <1>3, <1>4, <1>5, <1>6 DEF Next

\* The list open_wishes returns is what the watcher may take it for
\* (SeerrClient::open_wishes; OpenList): nothing that was not open while it read,
\* and of what was open all the time at most one request missing for each that was
\* removed under it, so that a wish that is not on the list after an undisturbed
\* reading is no longer open.
THEOREM ListKeepsPromise == Spec => ListKept
<1>1. Init => Promise!Init
  <2> SUFFICES ASSUME Init PROVE Promise!Init
    OBVIOUS
  <2>1. newest \in Nat /\ listed = 1 .. newest
    BY PagingAssumption DEF Init
  <2>2. Open \subseteq Nat
    BY <2>1 DEF Open
  <2> QED
    BY <2>2 DEF Init, Promise!Init
<1>2. IInv /\ IInv' /\ [Next]_vars => [Promise!Next]_(Promise!vars)
  BY PromiseStep
<1>3. Spec => []IInv
  BY PagingInvariant
<1> QED
  BY <1>1, <1>2, <1>3, PTL DEF Spec, ListKept, Promise!Spec

\* What the watcher's record rests on (watch.rs retain_only drops the note of every
\* wish that is not listed): if nothing was removed while open_wishes read, no wish
\* that stayed open is missing; if nothing changed at all, the list is what is open.
THEOREM UndisturbedIsComplete ==
  Spec => [][LastPage /\ removed = 0 =>
               /\ stayed \subseteq answer'
               /\ stayed = seen => answer' = stayed]_vars
<1>1. ASSUME IInv, LastPage, removed = 0
      PROVE  stayed \subseteq answer' /\ (stayed = seen => answer' = stayed)
  <2>1. answer' \subseteq seen /\ Cardinality(stayed \ answer') <= 0
    BY <1>1, AnswerKept
  <2>2. IsFiniteSet(stayed \ answer')
    BY <1>1, AllFinite, FS_Difference DEF IInv
  <2>3. stayed \ answer' = {}
    <3>1. Cardinality(stayed \ answer') \in Nat
      BY <2>2, FS_CardinalityType
    <3>2. Cardinality(stayed \ answer') = 0
      BY <2>1, <3>1
    <3> QED
      BY <2>2, <3>2, FS_EmptySet
  <2> QED
    BY <2>1, <2>3
<1>2. Spec => []IInv
  BY PagingInvariant
<1> QED
  BY <1>1, <1>2, PTL
=============================================================================
