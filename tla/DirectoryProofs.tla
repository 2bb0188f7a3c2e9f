--------------------------- MODULE DirectoryProofs ---------------------------
(***************************************************************************)
(* What the reconciler keeps of the mapping, for every directory, every     *)
(* sequence of changes to it, and whatever fails or is killed.              *)
(***************************************************************************)
EXTENDS Directory, FilterProofs, FiniteSetTheorems

-----------------------------------------------------------------------------
(* The mapping                                                              *)

\* No account has two entries.
LEMMA OneEntryEach ==
  ASSUME NEW m, Mapping(m), NEW e \in Entries(m), NEW f \in Entries(m), e.user = f.user
  PROVE  e = f
BY DEF Mapping, Entries, ToSet

LEMMA EntriesType ==
  ASSUME NEW m, Mapping(m)
  PROVE  /\ m.entries \in Seq(Entry) /\ Entries(m) \subseteq Entry
         /\ m.reported \subseteq User \X Name /\ Users(m) \subseteq User
<1>1. m.entries \in Seq(Entry) /\ m.reported \subseteq User \X Name
  BY DEF Mapping
<1>2. Entries(m) \subseteq Entry
  BY <1>1, ToSetType DEF Entries
<1> QED
  BY <1>1, <1>2 DEF Users, Entry

\* by_user finds the entry of an account exactly if it has one.
LEMMA ByUser ==
  ASSUME NEW m, Mapping(m), NEW u
  PROVE  /\ u \in Users(m) => by_user(m, u) \in Entries(m) /\ by_user(m, u).user = u
         /\ u \notin Users(m) => by_user(m, u) = None
         /\ u \in Users(m) <=> by_user(m, u) # None
<1> DEFINE at == { i \in DOMAIN m.entries : m.entries[i].user = u }
<1>1. m.entries \in Seq(Entry) /\ Entries(m) \subseteq Entry
  BY EntriesType
<1>2. DOMAIN m.entries = 1 .. Len(m.entries) /\ Len(m.entries) \in Nat
  BY <1>1, LenProperties
<1>3. at = {} <=> u \notin Users(m)
  BY DEF Users, Entries, ToSet
<1>4. at # {} => Min(at) \in at
  <2> SUFFICES ASSUME at # {} PROVE Min(at) \in at
    OBVIOUS
  <2>1. at \subseteq Nat
    BY <1>2
  <2>2. \E t \in at : \A v \in at : t <= v
    <3> HIDE DEF at
    <3> QED
      BY <2>1, LeastExists
  <2> HIDE DEF at
  <2> QED
    BY <2>2 DEF Min
<1>5. by_user(m, u) = IF at = {} THEN None ELSE m.entries[Min(at)]
  BY DEF by_user
<1>6. ASSUME at # {}
      PROVE  by_user(m, u) \in Entries(m) /\ by_user(m, u).user = u
  <2>1. Min(at) \in DOMAIN m.entries /\ m.entries[Min(at)].user = u
    BY <1>4, <1>6
  <2> QED
    BY <1>5, <1>6, <2>1 DEF Entries, ToSet
<1> HIDE DEF at
<1>7. None \notin Entry
  BY EntryAssumption
<1> QED
  BY <1>1, <1>3, <1>5, <1>6, <1>7

\* remove_user takes the entry of an account out, and nothing else.
LEMMA RemoveUser ==
  ASSUME NEW m, Mapping(m), NEW u
  PROVE  /\ Mapping(remove_user(m, u))
         /\ Entries(remove_user(m, u)) = { e \in Entries(m) : e.user # u }
         /\ remove_user(m, u).reported = m.reported
<1> DEFINE K == { e \in Entries(m) : e.user # u }
           o == Only(m.entries, K)
           r == remove_user(m, u)
<1>1. m \in [entries : Seq(Entry), reported : SUBSET (User \X Name)] /\ m.entries \in Seq(Entry)
  BY DEF Mapping
<1>2. /\ o \in Seq(Entry) /\ ToSet(o) = ToSet(m.entries) \cap K
      /\ \A p, q \in DOMAIN o : p < q =>
           \E a, b \in DOMAIN m.entries :
             a < b /\ o[p] = m.entries[a] /\ o[q] = m.entries[b]
  <2> HIDE DEF K
  <2> QED
    BY <1>1, OnlyProperties
<1>3. r = [m EXCEPT !.entries = o]
  BY DEF remove_user
<1> HIDE DEF o
<1>4. r.entries = o /\ r.reported = m.reported
      /\ r \in [entries : Seq(Entry), reported : SUBSET (User \X Name)]
  <2> HIDE DEF r, K
  <2> QED
    BY <1>1, <1>2, <1>3
<1>5. Entries(r) = K
  <2> HIDE DEF r
  <2> QED
    BY <1>2, <1>4 DEF Entries
<1> HIDE DEF r, K
<1>6. DOMAIN o = 1 .. Len(o) /\ Len(o) \in Nat /\ DOMAIN m.entries = 1 .. Len(m.entries)
      /\ Len(m.entries) \in Nat
  BY <1>1, <1>2, LenProperties
<1>7. ASSUME NEW p \in DOMAIN o, NEW q \in DOMAIN o, p < q, o[p].user = o[q].user PROVE FALSE
  <2>1. PICK a \in DOMAIN m.entries, b \in DOMAIN m.entries :
          a < b /\ o[p] = m.entries[a] /\ o[q] = m.entries[b]
    BY <1>2, <1>7
  <2>2. a = b
    BY <1>7, <2>1 DEF Mapping
  <2> QED
    BY <1>6, <2>1, <2>2
<1>8. \A p, q \in DOMAIN o : p = q \/ p < q \/ q < p
  BY <1>6
<1>9. \A p, q \in DOMAIN o : o[p].user = o[q].user => p = q
  BY <1>7, <1>8
<1>10. Mapping(r)
  BY <1>4, <1>9 DEF Mapping
<1> QED
  BY <1>4, <1>5, <1>10 DEF r, K

\* upsert leaves one entry of the account, the new one, and every other as it was.
LEMMA Upsert ==
  ASSUME NEW m, Mapping(m), NEW e \in Entry
  PROVE  /\ Mapping(upsert(m, e))
         /\ Entries(upsert(m, e)) = { f \in Entries(m) : f.user # e.user } \cup {e}
         /\ upsert(m, e).reported = m.reported
<1> DEFINE r == remove_user(m, e.user)
           w == upsert(m, e)
<1>1. /\ Mapping(r) /\ Entries(r) = { f \in Entries(m) : f.user # e.user }
      /\ r.reported = m.reported
  BY RemoveUser
<1>2. w = [r EXCEPT !.entries = Append(r.entries, e)]
  BY DEF upsert
<1> HIDE DEF r, w
<1>3. /\ r \in [entries : Seq(Entry), reported : SUBSET (User \X Name)]
      /\ r.entries \in Seq(Entry)
      /\ \A i, j \in DOMAIN r.entries : r.entries[i].user = r.entries[j].user => i = j
  BY <1>1 DEF Mapping
<1> DEFINE o == Append(r.entries, e)
<1>4. /\ o \in Seq(Entry) /\ ToSet(o) = ToSet(r.entries) \cup {e}
      /\ Len(o) = Len(r.entries) + 1
      /\ \A i \in 1 .. Len(r.entries) : o[i] = r.entries[i]
      /\ o[Len(r.entries) + 1] = e
  BY <1>3, ToSetAppend, AppendProperties
<1> HIDE DEF o
<1>5. /\ w.entries = o /\ w.reported = r.reported
      /\ w \in [entries : Seq(Entry), reported : SUBSET (User \X Name)]
  BY <1>2, <1>3, <1>4 DEF o
<1>6. Entries(w) = Entries(r) \cup {e}
  BY <1>4, <1>5 DEF Entries
<1>7. /\ DOMAIN o = 1 .. Len(o) /\ DOMAIN r.entries = 1 .. Len(r.entries)
      /\ Len(r.entries) \in Nat
  BY <1>3, <1>4, LenProperties
<1>8. \A i \in DOMAIN r.entries : r.entries[i].user # e.user
  BY <1>1 DEF Entries, ToSet
<1>9. \A i \in DOMAIN o :
        \/ i \in DOMAIN r.entries /\ o[i] = r.entries[i]
        \/ i = Len(r.entries) + 1 /\ o[i] = e
  BY <1>4, <1>7
<1>10. \A i, j \in DOMAIN o : o[i].user = o[j].user => i = j
  BY <1>3, <1>8, <1>9
<1>11. Mapping(w)
  BY <1>5, <1>10 DEF Mapping
<1> QED
  BY <1>1, <1>5, <1>6, <1>11 DEF w
-----------------------------------------------------------------------------
(* The plan                                                                 *)

\* An answer of Authentik: no account twice.
Answer(listed) ==
  /\ listed \in Seq(Listed)
  /\ \A i, j \in DOMAIN listed : listed[i].user = listed[j].user => i = j

\* There is nothing to do for user's account: it entered no name and has no
\* entry, or its entry is what it entered, with its rights, and was greeted.
InOrder(user, m) ==
  IF user.name = None
    THEN user.user \notin Users(m)
    ELSE \E e \in Entries(m) :
           e.user = user.user /\ e.name = user.name /\ e.profile = user.profile /\ e.greeted

\* c is a change that user's account asks for, of the mapping m.
AskedBy(user, m, c) ==
  /\ c \in Change /\ c.user = user.user
  /\ ~InOrder(user, m)
  /\ c.kind \in {"Updated", "Greet"} => user.user \in Users(m) /\ user.name # None
  /\ c.kind = "Removed" => user.name = None
  /\ c.kind \in {"Added", "Rebound"} =>
       /\ c.name = user.name /\ c.name \in Name
       /\ \A e \in Entries(m) : e.user = user.user => e.name # user.name
  /\ c.kind = "Conflict" => c.name \in Name /\ c.held_by \in User

\* A profile that is not the one on record is among the changes cs.
Noticed(user, m, cs) ==
  \A e \in Entries(m) :
    e.user = user.user /\ e.name = user.name /\ e.profile # user.profile =>
      \E c \in ToSet(cs) : c.kind = "Updated" /\ c.user = user.user

\* An account that is not in order has a change of its own among cs.
LookedAfter(user, m, cs) == ~InOrder(user, m) => \E c \in ToSet(cs) : c.user = user.user

Planning == [claimed : Seq(Name \X User), changes : Seq(Change)]

\* What upkeep asks for.
LEMMA UpkeepSound ==
  ASSUME NEW existing, NEW user \in Listed
  PROVE  /\ upkeep(existing, user) \in Seq(Change)
         /\ \A c \in ToSet(upkeep(existing, user)) :
              c.user = user.user /\ c.kind \in {"Updated", "Greet"}
         /\ existing.profile # user.profile =>
              \E c \in ToSet(upkeep(existing, user)) : c.kind = "Updated" /\ c.user = user.user
         /\ (\E c \in ToSet(upkeep(existing, user)) : TRUE) <=>
              existing.profile # user.profile \/ ~existing.greeted
<1> DEFINE a == IF existing.profile # user.profile THEN <<To("Updated", user.user)>> ELSE <<>>
           b == IF ~existing.greeted THEN <<To("Greet", user.user)>> ELSE <<>>
<1>1. /\ To("Updated", user.user) \in Change /\ To("Greet", user.user) \in Change
      /\ To("Updated", user.user).kind = "Updated" /\ To("Greet", user.user).kind = "Greet"
      /\ To("Updated", user.user).user = user.user /\ To("Greet", user.user).user = user.user
  BY DEF To, Change, Maybe, Listed
<1>2. /\ a \in Seq(Change)
      /\ ToSet(a) = IF existing.profile # user.profile THEN {To("Updated", user.user)} ELSE {}
  BY <1>1, ToSetOfOne, ToSetOfNone
<1>3. /\ b \in Seq(Change)
      /\ ToSet(b) = IF ~existing.greeted THEN {To("Greet", user.user)} ELSE {}
  BY <1>1, ToSetOfOne, ToSetOfNone
<1>4. upkeep(existing, user) = a \o b
  BY DEF upkeep
<1> HIDE DEF a, b
<1>5. a \o b \in Seq(Change) /\ ToSet(a \o b) = ToSet(a) \cup ToSet(b)
  BY <1>2, <1>3, ToSetOfTwo
<1> QED
  BY <1>1, <1>2, <1>3, <1>4, <1>5

\* The changes `added` are what user's account asks for.
Asks(user, m, added) ==
  /\ added \in Seq(Change)
  /\ \A c \in ToSet(added) : AskedBy(user, m, c)
  /\ Noticed(user, m, added) /\ LookedAfter(user, m, added)

\* next is acc with what user's account asks for.
PlannedFor(user, m, acc, next) ==
  /\ next \in Planning
  /\ ToSet(acc.changes) \subseteq ToSet(next.changes)
  /\ \A c \in ToSet(next.changes) : c \in ToSet(acc.changes) \/ AskedBy(user, m, c)
  /\ Noticed(user, m, next.changes) /\ LookedAfter(user, m, next.changes)

\* Whatever is added, it is added at the end.
LEMMA AddedAtTheEnd ==
  ASSUME NEW m, NEW user, NEW acc \in Planning, NEW claimed \in Seq(Name \X User), NEW added,
         Asks(user, m, added)
  PROVE  PlannedFor(user, m, acc, [claimed |-> claimed, changes |-> acc.changes \o added])
<1>1. acc.changes \in Seq(Change)
  BY DEF Planning
<1>2. /\ acc.changes \o added \in Seq(Change)
      /\ ToSet(acc.changes \o added) = ToSet(acc.changes) \cup ToSet(added)
  BY <1>1, ToSetOfTwo DEF Asks
<1> DEFINE next == [claimed |-> claimed, changes |-> acc.changes \o added]
<1>3. next \in Planning /\ next.changes = acc.changes \o added
  BY <1>2 DEF Planning
<1> HIDE DEF next
<1>4. PlannedFor(user, m, acc, next)
  BY <1>2, <1>3 DEF PlannedFor, Asks, Noticed, LookedAfter
<1> QED
  BY <1>4 DEF next

\* One account: nothing planned before is dropped, what is added is asked for by
\* it, and a profile that changed is noticed (diff.rs, the body of the loop).
LEMMA PlanUserSound ==
  ASSUME NEW m, Mapping(m), NEW acc \in Planning, NEW user \in Listed
  PROVE  PlannedFor(user, m, acc, PlanUser(m, acc, user))
<1> DEFINE next == PlanUser(m, acc, user)
           existing == by_user(m, user.user)
           rivals == { i \in DOMAIN acc.claimed :
                         acc.claimed[i][1] = user.name /\ acc.claimed[i][2] # user.user }
           others == Only(acc.claimed, { c \in ToSet(acc.claimed) : c[2] # user.user })
<1> SUFFICES PlannedFor(user, m, acc, next)
  OBVIOUS
<1>0. /\ acc.claimed \in Seq(Name \X User) /\ acc.changes \in Seq(Change)
      /\ acc = [claimed |-> acc.claimed, changes |-> acc.changes]
      /\ user.user \in User /\ user.name \in Maybe(Name)
  BY DEF Planning, Listed
<1>1. /\ user.user \in Users(m) => existing \in Entries(m) /\ existing.user = user.user
      /\ user.user \in Users(m) <=> existing # None
  BY ByUser
<1>2. \A e \in Entries(m) : e.user = user.user => e = existing /\ user.user \in Users(m)
  <2>1. \A e \in Entries(m) : e.user \in Users(m)
    BY DEF Users
  <2> QED
    BY <1>1, <2>1, OneEntryEach
<1>3. \A e \in Entries(m) : e.name \in Name /\ e.name # None
  BY EntriesType, RosterAssumption DEF Entry
<1>9. /\ user.name = None => (InOrder(user, m) <=> existing = None)
      /\ user.name # None => (InOrder(user, m) <=>
           /\ existing # None /\ existing.name = user.name
           /\ existing.profile = user.profile /\ existing.greeted)
  <2> HIDE DEF existing
  <2> QED
    BY <1>1, <1>2, Zenon DEF InOrder
<1>4. ASSUME NEW claimed \in Seq(Name \X User), NEW added, Asks(user, m, added),
             next = [claimed |-> claimed, changes |-> acc.changes \o added]
      PROVE  PlannedFor(user, m, acc, next)
  <2> HIDE DEF next
  <2>1. PlannedFor(user, m, acc, [claimed |-> claimed, changes |-> acc.changes \o added])
    BY <1>4, AddedAtTheEnd, Zenon
  <2> QED
    BY <1>4, <2>1, Zenon
<1>5. CASE user.name = None
  <2>0. \A cs : Noticed(user, m, cs)
    BY <1>3, <1>5 DEF Noticed
  <2>1. CASE existing # None
    <3> DEFINE c == Removal(user.user)
               added == <<c>>
    <3>1. next = [claimed |-> acc.claimed, changes |-> acc.changes \o added]
      BY <1>0, <1>5, <2>1 DEF PlanUser
    <3>2. AskedBy(user, m, c) /\ c \in Change
      BY <1>0, <1>5, <1>9, <2>1 DEF AskedBy, Removal, To, Change, Maybe
    <3>5. c.user = user.user
      BY DEF Removal, To
    <3> HIDE DEF c
    <3>3. added \in Seq(Change) /\ ToSet(added) = {c}
      BY <3>2, ToSetOfOne
    <3> HIDE DEF added, next
    <3>4. Asks(user, m, added)
      BY <2>0, <3>2, <3>3, <3>5 DEF Asks, LookedAfter
    <3> QED
      BY <1>0, <1>4, <3>1, <3>4, Zenon
  <2>2. CASE existing = None
    <3>1. next = [claimed |-> acc.claimed, changes |-> acc.changes \o <<>>]
      BY <1>0, <1>5, <2>2 DEF PlanUser
    <3>2. Asks(user, m, <<>>)
      BY <1>5, <1>9, <2>0, <2>2, ToSetOfNone DEF Asks, LookedAfter
    <3> HIDE DEF next
    <3> QED
      BY <1>0, <1>4, <3>1, <3>2, Zenon
  <2> QED
    BY <2>1, <2>2
<1>6. CASE user.name # None /\ existing # None /\ existing.name = user.name
  <2> DEFINE added == upkeep(existing, user)
  <2>1. /\ added \in Seq(Change)
        /\ \A c \in ToSet(added) : c.user = user.user /\ c.kind \in {"Updated", "Greet"}
        /\ existing.profile # user.profile =>
             \E c \in ToSet(added) : c.kind = "Updated" /\ c.user = user.user
        /\ (\E c \in ToSet(added) : TRUE) <=>
             existing.profile # user.profile \/ ~existing.greeted
    BY UpkeepSound
  <2>2. next = [claimed |-> acc.claimed, changes |-> acc.changes \o added]
    BY <1>0, <1>6 DEF PlanUser
  <2> HIDE DEF added
  <2>3. \A c \in ToSet(added) : AskedBy(user, m, c)
    <3>1. ToSet(added) \subseteq Change
      BY <2>1, ToSetType
    <3> QED
      BY <1>1, <1>6, <1>9, <2>1, <3>1 DEF AskedBy
  <2> HIDE DEF next, existing
  <2>4. Noticed(user, m, added)
    BY <1>2, <2>1 DEF Noticed
  <2>6. LookedAfter(user, m, added)
    BY <1>6, <1>9, <2>1, Zenon DEF LookedAfter
  <2>5. Asks(user, m, added)
    BY <2>1, <2>3, <2>4, <2>6 DEF Asks
  <2> QED
    BY <1>0, <1>4, <2>2, <2>5, Zenon
<1>7. CASE /\ user.name # None /\ ~ (existing # None /\ existing.name = user.name)
           /\ rivals # {}
  <2> DEFINE c == [To("Conflict", user.user) EXCEPT
                     !.name = user.name, !.held_by = acc.claimed[Min(rivals)][2]]
             added == <<c>>
  <2>1. Min(rivals) \in rivals
    <3> HIDE DEF rivals
    <3>1. rivals \subseteq DOMAIN acc.claimed
      BY DEF rivals
    <3> QED
      BY <1>0, <1>7, <3>1, MinOfPlaces
  <2>2. acc.claimed[Min(rivals)] \in Name \X User
    BY <1>0, <2>1, LenProperties, ElementOfSeq
  <2>3. AskedBy(user, m, c) /\ c \in Change
    BY <1>0, <1>7, <1>9, <2>2 DEF AskedBy, To, Change, Maybe
  <2>4. next = [acc EXCEPT !.changes = @ \o added]
    BY <1>7, Zenon DEF PlanUser
  <2> HIDE DEF c
  <2>5. added \in Seq(Change) /\ ToSet(added) = {c}
    BY <2>3, ToSetOfOne
  <2> HIDE DEF added, next, existing, rivals
  <2>6. Noticed(user, m, added)
    BY <1>1, <1>2, <1>7 DEF Noticed
  <2>7. Asks(user, m, added)
    BY <2>3, <2>5, <2>6 DEF Asks, LookedAfter, AskedBy
  <2>8. next = [claimed |-> acc.claimed, changes |-> acc.changes \o added]
    BY <1>0, <2>4
  <2> QED
    BY <1>0, <1>4, <2>7, <2>8, Zenon
<1>8. CASE /\ user.name # None /\ ~ (existing # None /\ existing.name = user.name)
           /\ rivals = {}
  <2> DEFINE c == [To(IF existing # None THEN "Rebound" ELSE "Added", user.user)
                     EXCEPT !.name = user.name]
             claim == <<user.name, user.user>>
             claimed == Append(others, claim)
             added == <<c>>
  <2>1. AskedBy(user, m, c) /\ c \in Change
    BY <1>0, <1>1, <1>2, <1>8, <1>9 DEF AskedBy, To, Change, Maybe
  <2>2. others \in Seq(Name \X User)
    BY <1>0, OnlyProperties
  <2>3. claim \in Name \X User
    BY <1>0, <1>8 DEF Maybe
  <2>4. next = [claimed |-> claimed, changes |-> Append(acc.changes, c)]
    BY <1>8 DEF PlanUser
  <2> HIDE DEF c, claim, others
  <2>5. claimed \in Seq(Name \X User)
    BY <2>2, <2>3, AppendProperties
  <2>6. Append(acc.changes, c) = acc.changes \o added
    BY <1>0, <2>1, AppendIsConcat
  <2>7. added \in Seq(Change) /\ ToSet(added) = {c}
    BY <2>1, ToSetOfOne
  <2> HIDE DEF added, next, existing, rivals, claimed
  <2>8. Noticed(user, m, added)
    BY <1>1, <1>2, <1>8 DEF Noticed
  <2>9. Asks(user, m, added)
    BY <2>1, <2>7, <2>8 DEF Asks, LookedAfter, AskedBy
  <2>10. next = [claimed |-> claimed, changes |-> acc.changes \o added]
    BY <2>4, <2>6
  <2> QED
    BY <1>4, <2>5, <2>9, <2>10, Zenon
<1> QED
  BY <1>5, <1>6, <1>7, <1>8

\* The equation the plan is defined by.
Planned(f, m, listed) ==
  /\ f[0] = OnRecord(m)
  /\ \A i \in 1 .. Len(listed) : f[i] = PlanUser(m, f[i - 1], listed[i])

Gone(m, listed) ==
  Only(m.entries, { e \in Entries(m) : \A u \in ToSet(listed) : u.user # e.user })

Goodbyes(m, listed) ==
  [i \in DOMAIN Gone(m, listed) |-> Removal(Gone(m, listed)[i].user)]

LEMMA OnRecordType ==
  ASSUME NEW m, Mapping(m)
  PROVE  OnRecord(m) \in Planning /\ OnRecord(m).changes = <<>>
<1>1. m.entries \in Seq(Entry)
  BY EntriesType
<1>2. /\ Len(m.entries) \in Nat /\ DOMAIN m.entries = 1 .. Len(m.entries)
      /\ \A i \in 1 .. Len(m.entries) : m.entries[i] \in Entry
  BY <1>1, LenProperties, ElementOfSeq
<1> DEFINE claimed == [i \in DOMAIN m.entries |-> <<m.entries[i].name, m.entries[i].user>>]
<1>3. claimed \in [1 .. Len(m.entries) -> Name \X User]
  BY <1>2 DEF Entry
<1> HIDE DEF claimed
<1>4. claimed \in Seq(Name \X User)
  BY <1>2, <1>3, SeqDef
<1>5. OnRecord(m) = [claimed |-> claimed, changes |-> <<>>]
  BY DEF OnRecord, claimed
<1> QED
  BY <1>4, <1>5, EmptySeq DEF Planning

LEMMA PlanByPlace ==
  ASSUME NEW m, Mapping(m), NEW listed, Answer(listed)
  PROVE  \E f \in [0 .. Len(listed) -> Planning] :
           /\ Planned(f, m, listed)
           /\ plan(m, listed) = f[Len(listed)].changes \o Goodbyes(m, listed)
<1> DEFINE n == Len(listed)
           after == CHOOSE f : f = [i \in 0 .. Len(listed) |->
                      IF i = 0 THEN OnRecord(m) ELSE PlanUser(m, f[i - 1], listed[i])]
           step == [p \in (1 .. n) \X Planning |-> PlanUser(m, p[2], listed[p[1]])]
<1>0. n \in Nat /\ \A i \in 1 .. n : listed[i] \in Listed
  BY LenProperties, ElementOfSeq DEF Answer
<1>1. step \in [(1 .. n) \X Planning -> Planning]
  <2>1. \A p \in (1 .. n) \X Planning : p[2] \in Planning /\ listed[p[1]] \in Listed
    BY <1>0
  <2>2. ASSUME NEW acc \in Planning, NEW u \in Listed PROVE PlanUser(m, acc, u) \in Planning
    <3>1. PlannedFor(u, m, acc, PlanUser(m, acc, u))
      BY PlanUserSound, Zenon
    <3> QED
      BY <3>1, Zenon DEF PlannedFor
  <2>3. ASSUME NEW p \in (1 .. n) \X Planning PROVE PlanUser(m, p[2], listed[p[1]]) \in Planning
    BY <2>1, <2>2, Zenon
  <2> QED
    BY <2>3, Zenon
<1>2. PICK f \in [0 .. n -> Planning] : Built(f, OnRecord(m), step, n)
  <2>1. OnRecord(m) \in Planning
    BY OnRecordType
  <2> HIDE DEF step, n
  <2> QED
    BY <1>0, <1>1, <2>1, RecursionExists, Zenon
<1>3. \A i \in 1 .. n : f[i - 1] \in Planning /\ <<i, f[i - 1]>> \in (1 .. n) \X Planning
  <2>1. \A i \in 1 .. n : i - 1 \in 0 .. n
    BY <1>0
  <2> QED
    BY <2>1
<1>4. \A i \in 1 .. n : step[<<i, f[i - 1]>>] = PlanUser(m, f[i - 1], listed[i])
  BY <1>3
<1>5. \A i \in 0 .. n : i = 0 \/ i \in 1 .. n
  BY <1>0
<1>6. f = [i \in 0 .. n |-> IF i = 0 THEN OnRecord(m) ELSE PlanUser(m, f[i - 1], listed[i])]
  <2> HIDE DEF step
  <2> QED
    BY <1>2, <1>4, <1>5 DEF Built
<1>7. after = [i \in 0 .. n |->
                 IF i = 0 THEN OnRecord(m) ELSE PlanUser(m, after[i - 1], listed[i])]
  BY <1>6, Zenon
<1>8. plan(m, listed) = after[n].changes \o Goodbyes(m, listed)
  BY Zenon DEF plan, Goodbyes, Gone
<1> HIDE DEF after
<1>9. after[0] = OnRecord(m)
  <2> 0 \in 0 .. n
    BY <1>0
  <2> QED
    BY <1>7
<1>10. ASSUME NEW i \in 1 .. n PROVE after[i] = PlanUser(m, after[i - 1], listed[i])
  <2>1. i \in 0 .. n /\ i # 0
    BY <1>0
  <2> QED
    BY <1>7, <2>1, Zenon
<1>11. \A i \in 0 .. n : after[i] \in Planning
  <2> DEFINE P == { i \in 0 .. n : after[i] \in Planning }
  <2> HIDE DEF n
  <2>0. 0 \in 0 .. n /\ \A i \in 1 .. n : i \in 0 .. n
    BY <1>0
  <2>1. 0 \in P
    BY <1>9, <2>0, OnRecordType, Zenon
  <2>2. \A i \in 1 .. n : i - 1 \in P => i \in P
    <3> SUFFICES ASSUME NEW i \in 1 .. n, after[i - 1] \in Planning PROVE after[i] \in Planning
      BY <2>0, Zenon
    <3>1. PlannedFor(listed[i], m, after[i - 1], PlanUser(m, after[i - 1], listed[i]))
      BY <1>0, PlanUserSound, Zenon
    <3> QED
      BY <1>10, <3>1, Zenon DEF PlannedFor
  <2>3. \A i \in 0 .. n : i \in P
    <3> HIDE DEF P
    <3> QED
      BY <1>0, <2>1, <2>2, UpTo
  <2> QED
    BY <2>3, Zenon
<1>12. after \in [0 .. n -> Planning]
  BY <1>7, <1>11
<1>13. Planned(after, m, listed)
  BY <1>9, <1>10 DEF Planned
<1> QED
  BY <1>8, <1>12, <1>13, Zenon

\* What the accounts up to place i asked for is planned, and nothing else.
PlannedUpTo(m, listed, i, acc) ==
  /\ \A c \in ToSet(acc.changes) : \E a \in 1 .. i : AskedBy(listed[a], m, c)
  /\ \A a \in 1 .. i : /\ Noticed(listed[a], m, acc.changes)
                       /\ LookedAfter(listed[a], m, acc.changes)

\* What a pass may carry out: changes that a listed account asks for, farewells
\* to accounts that are not listed any more, and every change of rights.
Sound(m, listed, cs) ==
  /\ cs \in Seq(Change)
  /\ \A c \in ToSet(cs) :
       \/ \E u \in ToSet(listed) : AskedBy(u, m, c)
       \/ c.kind = "Removed" /\ \A u \in ToSet(listed) : u.user # c.user
  /\ \A u \in ToSet(listed) : Noticed(u, m, cs)

LEMMA PlannedUpToAll ==
  ASSUME NEW m, Mapping(m), NEW listed, Answer(listed),
         NEW f \in [0 .. Len(listed) -> Planning], Planned(f, m, listed)
  PROVE  /\ PlannedUpTo(m, listed, Len(listed), f[Len(listed)])
         /\ \A i \in 0 .. Len(listed) : PlannedUpTo(m, listed, i, f[i])
<1> DEFINE n == Len(listed)
           P == { i \in 0 .. n : PlannedUpTo(m, listed, i, f[i]) }
<1>0. n \in Nat /\ \A i \in 1 .. n : listed[i] \in Listed
  BY LenProperties, ElementOfSeq DEF Answer
<1>1. /\ 0 \in 0 .. n /\ n \in 0 .. n
      /\ \A i \in 1 .. n : i \in 0 .. n /\ i - 1 \in 0 .. n
      /\ \A i \in 1 .. n : \A a \in 1 .. i : a = i \/ a \in 1 .. i - 1
      /\ \A i \in 1 .. n : i \in 1 .. i /\ \A a \in 1 .. i - 1 : a \in 1 .. i
  BY <1>0
<1>2. 0 \in P
  <2>1. ToSet(f[0].changes) = {}
    BY OnRecordType, ToSetOfNone DEF Planned
  <2>2. PlannedUpTo(m, listed, 0, f[0])
    BY <2>1 DEF PlannedUpTo
  <2> QED
    BY <1>1, <2>2, Zenon
<1>3. ASSUME NEW i \in 1 .. n, i - 1 \in P PROVE i \in P
  <2>1. PlannedUpTo(m, listed, i - 1, f[i - 1])
    BY <1>3, Zenon
  <2>2. f[i - 1] \in Planning /\ listed[i] \in Listed
    BY <1>0, <1>1
  <2>3. PlannedFor(listed[i], m, f[i - 1], f[i])
    <3>1. PlannedFor(listed[i], m, f[i - 1], PlanUser(m, f[i - 1], listed[i]))
      BY <2>2, PlanUserSound, Zenon
    <3> QED
      BY <3>1, Zenon DEF Planned
  <2>4. ASSUME NEW c \in ToSet(f[i].changes)
        PROVE  \E a \in 1 .. i : AskedBy(listed[a], m, c)
    <3>1. CASE c \in ToSet(f[i - 1].changes)
      BY <1>1, <2>1, <3>1, Zenon DEF PlannedUpTo
    <3>2. CASE AskedBy(listed[i], m, c)
      BY <1>1, <3>2, Zenon
    <3> QED
      BY <2>3, <3>1, <3>2, Zenon DEF PlannedFor
  <2>5. ASSUME NEW a \in 1 .. i
        PROVE  Noticed(listed[a], m, f[i].changes) /\ LookedAfter(listed[a], m, f[i].changes)
    <3>1. CASE a = i
      BY <2>3, <3>1, Zenon DEF PlannedFor
    <3>2. CASE a \in 1 .. i - 1
      <4>1. Noticed(listed[a], m, f[i - 1].changes) /\ LookedAfter(listed[a], m, f[i - 1].changes)
        BY <2>1, <3>2, Zenon DEF PlannedUpTo
      <4> QED
        BY <2>3, <4>1 DEF PlannedFor, Noticed, LookedAfter
    <3> QED
      BY <1>1, <3>1, <3>2, Zenon
  <2>6. PlannedUpTo(m, listed, i, f[i])
    BY <2>4, <2>5, Zenon DEF PlannedUpTo
  <2> QED
    BY <1>1, <2>6, Zenon
<1>4. \A i \in 0 .. n : i \in P
  <2> HIDE DEF P, n
  <2> QED
    BY <1>0, <1>2, <1>3, UpTo
<1> QED
  BY <1>1, <1>4, Zenon

\* Those the directory does not list any more, and none of those it does.
LEMMA GoodbyesSound ==
  ASSUME NEW m, Mapping(m), NEW listed
  PROVE  /\ Goodbyes(m, listed) \in Seq(Change)
         /\ \A c \in ToSet(Goodbyes(m, listed)) :
              /\ c.kind = "Removed" /\ c.user \in Users(m)
              /\ \A u \in ToSet(listed) : u.user # c.user
         /\ \A e \in Entries(m) : (\A u \in ToSet(listed) : u.user # e.user) =>
              \E c \in ToSet(Goodbyes(m, listed)) : c.kind = "Removed" /\ c.user = e.user
<1> DEFINE K == { e \in Entries(m) : \A u \in ToSet(listed) : u.user # e.user }
           g == Gone(m, listed)
           b == Goodbyes(m, listed)
<1>1. g = Only(m.entries, K)
  BY DEF Gone
<1>2. m.entries \in Seq(Entry)
  BY EntriesType
<1>3. g \in Seq(Entry) /\ ToSet(g) = K
  <2> HIDE DEF g, K
  <2>1. Only(m.entries, K) \in Seq(Entry) /\ ToSet(Only(m.entries, K)) = ToSet(m.entries) \cap K
    BY <1>2, OnlyProperties
  <2>2. K \subseteq ToSet(m.entries)
    BY DEF K, Entries
  <2> QED
    BY <1>1, <2>1, <2>2
<1>4. /\ Len(g) \in Nat /\ DOMAIN g = 1 .. Len(g)
      /\ \A i \in 1 .. Len(g) : g[i] \in Entry /\ g[i] \in K
  BY <1>3, LenProperties, ElementOfSeq DEF ToSet
<1>5. b = [i \in 1 .. Len(g) |-> Removal(g[i].user)]
  BY <1>4 DEF Goodbyes
<1> HIDE DEF g, b
<1>6. \A i \in 1 .. Len(g) : Removal(g[i].user) \in Change
  BY <1>4 DEF Removal, To, Change, Maybe, Entry
<1>7. b \in [1 .. Len(g) -> Change]
  BY <1>5, <1>6
<1>8. b \in Seq(Change)
  BY <1>4, <1>7, SeqDef
<1>9. ASSUME NEW c \in ToSet(b)
      PROVE  /\ c.kind = "Removed" /\ c.user \in Users(m)
             /\ \A u \in ToSet(listed) : u.user # c.user
  <2>1. PICK i \in 1 .. Len(g) : c = Removal(g[i].user)
    BY <1>5 DEF ToSet
  <2> QED
    BY <1>4, <2>1 DEF Removal, To, Users
<1>10. ASSUME NEW e \in Entries(m), \A u \in ToSet(listed) : u.user # e.user
       PROVE  \E c \in ToSet(b) : c.kind = "Removed" /\ c.user = e.user
  <2>1. e \in ToSet(g)
    BY <1>3, <1>10
  <2>2. PICK i \in 1 .. Len(g) : e = g[i]
    BY <1>4, <2>1 DEF ToSet
  <2>3. b[i] = Removal(e.user) /\ b[i] \in ToSet(b)
    BY <1>5, <2>2 DEF ToSet
  <2> QED
    BY <2>3 DEF Removal, To
<1> QED
  BY <1>8, <1>9, <1>10 DEF b

\* The plan carries out nothing else than what changed (diff.rs plan).
LEMMA PlanSound ==
  ASSUME NEW m, Mapping(m), NEW listed, Answer(listed)
  PROVE  Sound(m, listed, plan(m, listed))
<1> DEFINE n == Len(listed)
           b == Goodbyes(m, listed)
<1>1. PICK f \in [0 .. n -> Planning] :
        Planned(f, m, listed) /\ plan(m, listed) = f[n].changes \o b
  BY PlanByPlace, Zenon
<1>2. PlannedUpTo(m, listed, n, f[n])
  BY <1>1, PlannedUpToAll, Zenon
<1>3. n \in Nat /\ DOMAIN listed = 1 .. n
  BY LenProperties DEF Answer
<1>4. f[n] \in Planning
  <2> n \in 0 .. n
    BY <1>3
  <2> QED
    BY Zenon
<1> DEFINE a == f[n].changes
<1>5. a \in Seq(Change)
  BY <1>4 DEF Planning
<1>6. /\ b \in Seq(Change)
      /\ \A c \in ToSet(b) : c.kind = "Removed" /\ \A u \in ToSet(listed) : u.user # c.user
  BY GoodbyesSound
<1>7. /\ \A c \in ToSet(a) : \E i \in 1 .. n : AskedBy(listed[i], m, c)
      /\ \A i \in 1 .. n : Noticed(listed[i], m, a) /\ LookedAfter(listed[i], m, a)
  BY <1>2, Zenon DEF PlannedUpTo
<1> HIDE DEF a, b, n
<1>8. a \o b \in Seq(Change) /\ ToSet(a \o b) = ToSet(a) \cup ToSet(b)
  BY <1>5, <1>6, ToSetOfTwo
<1>9. \A u \in ToSet(listed) : \E i \in 1 .. n : u = listed[i]
  BY <1>3 DEF ToSet
<1>10. \A i \in 1 .. n : listed[i] \in ToSet(listed)
  BY <1>3 DEF ToSet
<1>11. \A c \in ToSet(a \o b) :
         \/ \E u \in ToSet(listed) : AskedBy(u, m, c)
         \/ c.kind = "Removed" /\ \A u \in ToSet(listed) : u.user # c.user
  BY <1>6, <1>7, <1>8, <1>10, Zenon
<1>12. \A u \in ToSet(listed) : Noticed(u, m, a \o b)
  <2>1. \A u \in ToSet(listed) : Noticed(u, m, a)
    BY <1>7, <1>9, Zenon
  <2> QED
    BY <1>8, <2>1 DEF Noticed
<1>13. Sound(m, listed, a \o b)
  BY <1>8, <1>11, <1>12, Zenon DEF Sound
<1> QED
  BY <1>1, <1>13 DEF a

\* A pass leaves nobody out and bothers nobody (diff.rs plan;
\* an_unchanged_name_produces_nothing, unchanged_groups_plan_nothing): a listed
\* account has a change of its own exactly if it is not in order, an account with
\* an entry that is not listed any more is said farewell to, and what is planned
\* for anybody else is nothing. So a plan is empty only when all is in order.
THEOREM PlanLooksAfterAll ==
  ASSUME NEW m, Mapping(m), NEW listed, Answer(listed)
  PROVE  /\ \A u \in ToSet(listed) :
              InOrder(u, m) <=> \A c \in ToSet(plan(m, listed)) : c.user # u.user
         /\ \A v \in User : (\A u \in ToSet(listed) : u.user # v) =>
              (v \in Users(m) <=>
                 \E c \in ToSet(plan(m, listed)) : c.kind = "Removed" /\ c.user = v)
<1> DEFINE n == Len(listed)
           b == Goodbyes(m, listed)
<1>1. PICK f \in [0 .. n -> Planning] :
        Planned(f, m, listed) /\ plan(m, listed) = f[n].changes \o b
  BY PlanByPlace, Zenon
<1>2. PlannedUpTo(m, listed, n, f[n])
  BY <1>1, PlannedUpToAll, Zenon
<1>3. n \in Nat /\ DOMAIN listed = 1 .. n
  BY LenProperties DEF Answer
<1>4. f[n] \in Planning
  <2> n \in 0 .. n
    BY <1>3
  <2> QED
    BY Zenon
<1> DEFINE a == f[n].changes
<1>5. a \in Seq(Change)
  BY <1>4 DEF Planning
<1>6. /\ b \in Seq(Change)
      /\ \A c \in ToSet(b) :
           /\ c.kind = "Removed" /\ c.user \in Users(m)
           /\ \A u \in ToSet(listed) : u.user # c.user
      /\ \A e \in Entries(m) : (\A u \in ToSet(listed) : u.user # e.user) =>
           \E c \in ToSet(b) : c.kind = "Removed" /\ c.user = e.user
  BY GoodbyesSound
<1>7. /\ \A c \in ToSet(a) : \E i \in 1 .. n : AskedBy(listed[i], m, c)
      /\ \A i \in 1 .. n : LookedAfter(listed[i], m, a)
  BY <1>2, Zenon DEF PlannedUpTo
<1>8. /\ \A u \in ToSet(listed) : \E i \in 1 .. n : u = listed[i]
      /\ \A i \in 1 .. n : listed[i] \in ToSet(listed)
      /\ \A i, j \in 1 .. n : listed[i].user = listed[j].user => i = j
  BY <1>3 DEF ToSet, Answer
<1> HIDE DEF a, b, n
<1>9. ToSet(a \o b) = ToSet(a) \cup ToSet(b)
  BY <1>5, <1>6, ToSetOfTwo
<1>10. ASSUME NEW u \in ToSet(listed)
       PROVE  InOrder(u, m) <=> \A c \in ToSet(a \o b) : c.user # u.user
  <2>1. PICK i \in 1 .. n : u = listed[i]
    BY <1>8
  <2>2. ASSUME InOrder(u, m), NEW c \in ToSet(a \o b) PROVE c.user # u.user
    <3>1. CASE c \in ToSet(b)
      BY <1>6, <3>1, Zenon
    <3>2. CASE c \in ToSet(a)
      <4>1. PICK j \in 1 .. n : AskedBy(listed[j], m, c)
        BY <1>7, <3>2, Zenon
      <4>2. c.user = listed[j].user /\ ~InOrder(listed[j], m)
        BY <4>1, Zenon DEF AskedBy
      <4> QED
        BY <1>8, <2>1, <2>2, <4>2, Zenon
    <3> QED
      BY <1>9, <3>1, <3>2
  <2>3. ASSUME ~InOrder(u, m) PROVE \E c \in ToSet(a \o b) : c.user = u.user
    <3>1. \E c \in ToSet(a) : c.user = u.user
      BY <1>7, <2>1, <2>3, Zenon DEF LookedAfter
    <3> QED
      BY <1>9, <3>1
  <2> QED
    BY <2>2, <2>3, Zenon
<1>11. ASSUME NEW v \in User, \A u \in ToSet(listed) : u.user # v
       PROVE  v \in Users(m) <=>
                \E c \in ToSet(a \o b) : c.kind = "Removed" /\ c.user = v
  <2>1. ASSUME v \in Users(m)
        PROVE  \E c \in ToSet(a \o b) : c.kind = "Removed" /\ c.user = v
    <3>1. PICK e \in Entries(m) : e.user = v
      BY <2>1 DEF Users
    <3>2. \E c \in ToSet(b) : c.kind = "Removed" /\ c.user = e.user
      BY <1>6, <1>11, <3>1
    <3> QED
      BY <1>9, <3>1, <3>2
  <2>2. ASSUME NEW c \in ToSet(a \o b), c.user = v PROVE v \in Users(m)
    <3>1. CASE c \in ToSet(b)
      BY <1>6, <2>2, <3>1, Zenon
    <3>2. CASE c \in ToSet(a)
      <4>1. PICK j \in 1 .. n : AskedBy(listed[j], m, c)
        BY <1>7, <3>2, Zenon
      <4> QED
        BY <1>8, <1>11, <2>2, <4>1, Zenon DEF AskedBy
    <3> QED
      BY <1>9, <3>1, <3>2
  <2> QED
    BY <2>1, <2>2, Zenon
<1> QED
  BY <1>1, <1>10, <1>11 DEF a

\* A change that gives its account the name it entered.
Gives(c) == c.kind \in {"Added", "Rebound"}

\* What user's account does to the claims, and to the names given so far: nothing,
\* or it is given a name nobody else claims, and claims that one alone.
GivesTo(user, m, acc, next) ==
  \/ /\ next.claimed = acc.claimed
     /\ ToSet(acc.changes) \subseteq ToSet(next.changes)
     /\ \A c \in ToSet(next.changes) : c \in ToSet(acc.changes) \/ ~Gives(c)
  \/ /\ \A v : <<user.name, v>> \in ToSet(acc.claimed) => v = user.user
     /\ ToSet(next.claimed) = { x \in ToSet(acc.claimed) : x[2] # user.user }
                                 \cup {<<user.name, user.user>>}
     /\ \E c \in Change :
          /\ c.user = user.user /\ c.name = user.name
          /\ c.kind = IF user.user \in Users(m) THEN "Rebound" ELSE "Added"
          /\ ToSet(next.changes) = ToSet(acc.changes) \cup {c}

LEMMA PlanUserGives ==
  ASSUME NEW m, Mapping(m), NEW acc \in Planning, NEW user \in Listed
  PROVE  GivesTo(user, m, acc, PlanUser(m, acc, user))
<1> DEFINE next == PlanUser(m, acc, user)
           existing == by_user(m, user.user)
           rivals == { i \in DOMAIN acc.claimed :
                         acc.claimed[i][1] = user.name /\ acc.claimed[i][2] # user.user }
           others == Only(acc.claimed, { c \in ToSet(acc.claimed) : c[2] # user.user })
<1> SUFFICES GivesTo(user, m, acc, next)
  OBVIOUS
<1>0. /\ acc.claimed \in Seq(Name \X User) /\ acc.changes \in Seq(Change)
      /\ acc = [claimed |-> acc.claimed, changes |-> acc.changes]
      /\ user.user \in User /\ user.name \in Maybe(Name)
  BY DEF Planning, Listed
<1>1. user.user \in Users(m) <=> existing # None
  BY ByUser
<1>2. ASSUME NEW added \in Seq(Change), \A c \in ToSet(added) : ~Gives(c),
             next = [claimed |-> acc.claimed, changes |-> acc.changes \o added]
      PROVE  GivesTo(user, m, acc, next)
  <2> HIDE DEF next
  <2>1. ToSet(acc.changes \o added) = ToSet(acc.changes) \cup ToSet(added)
    BY <1>0, ToSetOfTwo
  <2>2. next.claimed = acc.claimed /\ next.changes = acc.changes \o added
    BY <1>2
  <2> QED
    BY <1>2, <2>1, <2>2 DEF GivesTo
<1>3. CASE user.name = None /\ existing # None
  <2> DEFINE c == Removal(user.user)
  <2>1. c \in Change /\ ~Gives(c)
    BY <1>0 DEF Removal, To, Change, Maybe, Gives
  <2>2. next = [claimed |-> acc.claimed, changes |-> acc.changes \o <<c>>]
    BY <1>0, <1>3 DEF PlanUser
  <2> HIDE DEF c, next
  <2>3. <<c>> \in Seq(Change) /\ ToSet(<<c>>) = {c}
    BY <2>1, ToSetOfOne
  <2> QED
    BY <1>2, <2>1, <2>2, <2>3
<1>4. CASE user.name = None /\ existing = None
  <2>1. next = [claimed |-> acc.claimed, changes |-> acc.changes \o <<>>]
    BY <1>0, <1>4 DEF PlanUser
  <2> HIDE DEF next
  <2> QED
    BY <1>2, <2>1, ToSetOfNone
<1>5. CASE user.name # None /\ existing # None /\ existing.name = user.name
  <2>1. /\ upkeep(existing, user) \in Seq(Change)
        /\ \A c \in ToSet(upkeep(existing, user)) : ~Gives(c)
    BY UpkeepSound DEF Gives
  <2>2. next = [claimed |-> acc.claimed, changes |-> acc.changes \o upkeep(existing, user)]
    BY <1>0, <1>5 DEF PlanUser
  <2> HIDE DEF next, existing
  <2> QED
    BY <1>2, <2>1, <2>2
<1>6. CASE /\ user.name # None /\ ~ (existing # None /\ existing.name = user.name)
           /\ rivals # {}
  <2> DEFINE c == [To("Conflict", user.user) EXCEPT
                     !.name = user.name, !.held_by = acc.claimed[Min(rivals)][2]]
  <2>1. acc.claimed[Min(rivals)] \in Name \X User
    <3>1. rivals \subseteq DOMAIN acc.claimed
      BY DEF rivals
    <3>2. Min(rivals) \in DOMAIN acc.claimed
      <4> HIDE DEF rivals
      <4> QED
        BY <1>0, <1>6, <3>1, MinOfPlaces
    <3> QED
      BY <1>0, <3>2, LenProperties, ElementOfSeq
  <2>2. c \in Change /\ ~Gives(c)
    BY <1>0, <2>1 DEF To, Change, Maybe, Gives
  <2>3. next = [acc EXCEPT !.changes = @ \o <<c>>]
    BY <1>6, Zenon DEF PlanUser
  <2> HIDE DEF c, next, existing, rivals
  <2>4. <<c>> \in Seq(Change) /\ ToSet(<<c>>) = {c}
    BY <2>2, ToSetOfOne
  <2>5. next = [claimed |-> acc.claimed, changes |-> acc.changes \o <<c>>]
    BY <1>0, <2>3
  <2> QED
    BY <1>2, <2>2, <2>4, <2>5
<1>7. CASE /\ user.name # None /\ ~ (existing # None /\ existing.name = user.name)
           /\ rivals = {}
  <2> DEFINE c == [To(IF existing # None THEN "Rebound" ELSE "Added", user.user)
                     EXCEPT !.name = user.name]
             claim == <<user.name, user.user>>
             K == { x \in ToSet(acc.claimed) : x[2] # user.user }
  <2>1. /\ c \in Change /\ c.user = user.user /\ c.name = user.name
        /\ c.kind = IF user.user \in Users(m) THEN "Rebound" ELSE "Added"
    BY <1>0, <1>1 DEF To, Change, Maybe
  <2>2. others \in Seq(Name \X User) /\ ToSet(others) = K
    BY <1>0, OnlyProperties
  <2>3. claim \in Name \X User
    BY <1>0, <1>7 DEF Maybe
  <2>4. next = [claimed |-> Append(others, claim), changes |-> Append(acc.changes, c)]
    BY <1>7 DEF PlanUser
  <2>5. \A v : <<user.name, v>> \in ToSet(acc.claimed) => v = user.user
    <3> SUFFICES ASSUME NEW i \in DOMAIN acc.claimed, NEW v, acc.claimed[i] = <<user.name, v>>
                 PROVE  v = user.user
      BY DEF ToSet
    <3> QED
      BY <1>7
  <2> HIDE DEF c, claim, others, next, existing, rivals
  <2>6. ToSet(Append(others, claim)) = K \cup {claim}
    BY <2>2, <2>3, ToSetAppend
  <2>7. ToSet(Append(acc.changes, c)) = ToSet(acc.changes) \cup {c}
    BY <1>0, <2>1, ToSetAppend
  <2>8. next.claimed = Append(others, claim) /\ next.changes = Append(acc.changes, c)
    BY <2>4
  <2>9. ToSet(next.claimed) = { x \in ToSet(acc.claimed) : x[2] # user.user }
                                \cup {<<user.name, user.user>>}
    BY <2>6, <2>8 DEF claim
  <2>10. ToSet(next.changes) = ToSet(acc.changes) \cup {c}
    BY <2>7, <2>8
  <2> QED
    BY <2>1, <2>5, <2>9, <2>10 DEF GivesTo
<1> QED
  BY <1>3, <1>4, <1>5, <1>6, <1>7

\* No name is taken from anybody, up to here: what was given is claimed, and whoever
\* has an entry claims its name until they are given another.
NameOnce(m, acc) ==
  /\ \A c \in ToSet(acc.changes) : Gives(c) => <<c.name, c.user>> \in ToSet(acc.claimed)
  /\ \A c, d \in ToSet(acc.changes) :
       Gives(c) /\ Gives(d) /\ c.name = d.name => c.user = d.user
  /\ \A e \in Entries(m) :
       \/ <<e.name, e.user>> \in ToSet(acc.claimed)
       \/ \E d \in ToSet(acc.changes) : d.kind = "Rebound" /\ d.user = e.user
  /\ \A c \in ToSet(acc.changes), e \in Entries(m) :
       Gives(c) /\ e.name = c.name /\ e.user # c.user =>
         \E d \in ToSet(acc.changes) : d.kind = "Rebound" /\ d.user = e.user

\* An account whose turn comes for the first time keeps it so.
LEMMA NameOnceStep ==
  ASSUME NEW m, Mapping(m), NEW acc, NEW next, NEW user,
         NameOnce(m, acc), GivesTo(user, m, acc, next),
         \A c \in ToSet(acc.changes) : c.user # user.user
  PROVE  NameOnce(m, next)
<1>1. CASE /\ next.claimed = acc.claimed
           /\ ToSet(acc.changes) \subseteq ToSet(next.changes)
           /\ \A c \in ToSet(next.changes) : c \in ToSet(acc.changes) \/ ~Gives(c)
  <2> DEFINE A == ToSet(acc.changes)
             B == ToSet(next.changes)
  <2> HIDE DEF A, B
  <2>1. A \subseteq B /\ next.claimed = acc.claimed /\ \A c \in B : c \in A \/ ~Gives(c)
    BY <1>1 DEF A, B
  <2> QED
    BY <2>1 DEF NameOnce, A, B
<1>2. ASSUME NEW given \in Change, given.user = user.user, given.name = user.name,
             given.kind = IF user.user \in Users(m) THEN "Rebound" ELSE "Added",
             ToSet(next.changes) = ToSet(acc.changes) \cup {given},
             \A v : <<user.name, v>> \in ToSet(acc.claimed) => v = user.user,
             ToSet(next.claimed) = { x \in ToSet(acc.claimed) : x[2] # user.user }
                                     \cup {<<user.name, user.user>>}
      PROVE  NameOnce(m, next)
  <2>1. \A n, v : <<n, v>> \in ToSet(acc.claimed) /\ v # user.user
                    => <<n, v>> \in ToSet(next.claimed)
    BY <1>2
  <2>2. <<given.name, given.user>> \in ToSet(next.claimed)
    BY <1>2
  <2>3. \A c \in ToSet(acc.changes) : Gives(c) => c.name # given.name
    BY <1>2, Zenon DEF NameOnce
  <2>4. \A e \in Entries(m) : e.user = user.user => given.kind = "Rebound"
    BY <1>2 DEF Users
  <2>5. \A c \in ToSet(next.changes) : Gives(c) => <<c.name, c.user>> \in ToSet(next.claimed)
    BY <1>2, <2>1, <2>2 DEF NameOnce
  <2>6. \A c, d \in ToSet(next.changes) :
          Gives(c) /\ Gives(d) /\ c.name = d.name => c.user = d.user
    <3> SUFFICES ASSUME NEW c \in ToSet(next.changes), NEW d \in ToSet(next.changes),
                        Gives(c), Gives(d), c.name = d.name
                 PROVE  c.user = d.user
      OBVIOUS
    <3>1. (c \in ToSet(acc.changes) \/ c = given) /\ (d \in ToSet(acc.changes) \/ d = given)
      BY <1>2
    <3> QED
      BY <2>3, <3>1, Zenon DEF NameOnce
  <2>7. ASSUME NEW e \in Entries(m)
        PROVE  \/ <<e.name, e.user>> \in ToSet(next.claimed)
               \/ \E d \in ToSet(next.changes) : d.kind = "Rebound" /\ d.user = e.user
    <3>1. CASE e.user = user.user
      BY <1>2, <2>4, <3>1
    <3>2. CASE e.user # user.user
      BY <1>2, <2>1, <3>2 DEF NameOnce
    <3> QED
      BY <3>1, <3>2
  <2>8. ASSUME NEW c \in ToSet(next.changes), NEW e \in Entries(m),
               Gives(c), e.name = c.name, e.user # c.user
        PROVE  \E d \in ToSet(next.changes) : d.kind = "Rebound" /\ d.user = e.user
    <3>1. CASE c \in ToSet(acc.changes)
      <4>1. \E d \in ToSet(acc.changes) : d.kind = "Rebound" /\ d.user = e.user
        BY <2>8, <3>1, Zenon DEF NameOnce
      <4> QED
        BY <1>2, <4>1
    <3>2. CASE c = given
      <4>1. <<e.name, e.user>> \notin ToSet(acc.claimed)
        BY <1>2, <2>8, <3>2, Zenon
      <4>2. \E d \in ToSet(acc.changes) : d.kind = "Rebound" /\ d.user = e.user
        BY <4>1, Zenon DEF NameOnce
      <4> QED
        BY <1>2, <4>2
    <3> QED
      BY <1>2, <3>1, <3>2
  <2> QED
    BY <2>5, <2>6, <2>7, <2>8, Zenon DEF NameOnce
<1> QED
  BY <1>1, <1>2, Zenon DEF GivesTo

\* To begin with, the names on record are claimed.
LEMMA NameOnceStarts ==
  ASSUME NEW m, Mapping(m)
  PROVE  NameOnce(m, OnRecord(m))
<1>1. OnRecord(m).changes = <<>> /\ ToSet(OnRecord(m).changes) = {}
  BY OnRecordType, ToSetOfNone
<1>2. ASSUME NEW e \in Entries(m) PROVE <<e.name, e.user>> \in ToSet(OnRecord(m).claimed)
  <2>1. PICK i \in DOMAIN m.entries : e = m.entries[i]
    BY DEF Entries, ToSet
  <2>2. OnRecord(m).claimed = [j \in DOMAIN m.entries |-> <<m.entries[j].name, m.entries[j].user>>]
    BY DEF OnRecord
  <2>3. i \in DOMAIN OnRecord(m).claimed /\ OnRecord(m).claimed[i] = <<e.name, e.user>>
    BY <2>1, <2>2
  <2> QED
    BY <2>3 DEF ToSet
<1> QED
  BY <1>1, <1>2 DEF NameOnce

LEMMA NameOnceAll ==
  ASSUME NEW m, Mapping(m), NEW listed, Answer(listed),
         NEW f \in [0 .. Len(listed) -> Planning], Planned(f, m, listed)
  PROVE  NameOnce(m, f[Len(listed)])
<1> DEFINE n == Len(listed)
           P == { i \in 0 .. n : NameOnce(m, f[i]) }
<1>0. n \in Nat /\ DOMAIN listed = 1 .. n /\ \A i \in 1 .. n : listed[i] \in Listed
  BY LenProperties, ElementOfSeq DEF Answer
<1>1. /\ 0 \in 0 .. n /\ n \in 0 .. n
      /\ \A i \in 1 .. n : i \in 0 .. n /\ i - 1 \in 0 .. n
      /\ \A i \in 1 .. n : \A a \in 1 .. i - 1 : a \in 1 .. n /\ a # i
  BY <1>0
<1>2. 0 \in P
  <2>1. NameOnce(m, f[0])
    BY NameOnceStarts, Zenon DEF Planned
  <2> QED
    BY <1>1, <2>1, Zenon
<1>3. ASSUME NEW i \in 1 .. n, i - 1 \in P PROVE i \in P
  <2>1. NameOnce(m, f[i - 1]) /\ f[i - 1] \in Planning
    BY <1>1, <1>3
  <2>2. GivesTo(listed[i], m, f[i - 1], f[i])
    <3>1. GivesTo(listed[i], m, f[i - 1], PlanUser(m, f[i - 1], listed[i]))
      BY <1>0, <2>1, PlanUserGives, Zenon
    <3> QED
      BY <3>1, Zenon DEF Planned
  <2>3. ASSUME NEW c \in ToSet(f[i - 1].changes) PROVE c.user # listed[i].user
    <3>1. PlannedUpTo(m, listed, i - 1, f[i - 1])
      BY <1>1, PlannedUpToAll, Zenon
    <3>2. PICK a \in 1 .. i - 1 : AskedBy(listed[a], m, c)
      BY <3>1, Zenon DEF PlannedUpTo
    <3>3. a \in 1 .. n /\ a # i /\ c.user = listed[a].user
      BY <1>1, <3>2, Zenon DEF AskedBy
    <3> QED
      BY <1>0, <3>3, Zenon DEF Answer
  <2>4. NameOnce(m, f[i])
    BY <2>1, <2>2, <2>3, NameOnceStep, Zenon
  <2> QED
    BY <1>1, <2>4, Zenon
<1>4. \A i \in 0 .. n : i \in P
  <2> HIDE DEF P, n
  <2> QED
    BY <1>0, <1>2, <1>3, UpTo
<1> QED
  BY <1>1, <1>4, Zenon

\* "A conflict, not a silent takeover" (diff.rs plan and its tests): no two accounts
\* are given one name in a pass, and a name that another account has is given only
\* in a pass that gives its holder another one.  (Whether that other name resolves
\* is not known to the plan: README, Disagreements, `name_held`.)
THEOREM NoSilentTakeover ==
  ASSUME NEW m, Mapping(m), NEW listed, Answer(listed),
         NEW c \in ToSet(plan(m, listed)), Gives(c)
  PROVE  /\ \A d \in ToSet(plan(m, listed)) :
              Gives(d) /\ d.name = c.name => d.user = c.user
         /\ \A e \in Entries(m) : e.name = c.name =>
              /\ e.user # c.user
              /\ \E d \in ToSet(plan(m, listed)) :
                   d.kind = "Rebound" /\ d.user = e.user /\ d.name # e.name
<1> DEFINE n == Len(listed)
           b == Goodbyes(m, listed)
           all == plan(m, listed)
<1>1. PICK f \in [0 .. n -> Planning] : Planned(f, m, listed) /\ all = f[n].changes \o b
  BY PlanByPlace, Zenon
<1> DEFINE a == f[n].changes
<1>2. NameOnce(m, f[n])
  BY <1>1, NameOnceAll, Zenon
<1>3. a \in Seq(Change)
  <2>1. n \in 0 .. n
    BY LenProperties DEF Answer
  <2> QED
    BY <2>1 DEF Planning
<1>4. b \in Seq(Change) /\ \A d \in ToSet(b) : ~Gives(d)
  BY GoodbyesSound DEF Gives
<1>5. Sound(m, listed, all)
  BY PlanSound
<1> HIDE DEF a, b, n, all
<1>6. ToSet(all) = ToSet(a) \cup ToSet(b)
  BY <1>1, <1>3, <1>4, ToSetOfTwo DEF a
<1>7. /\ \A x, y \in ToSet(a) : Gives(x) /\ Gives(y) /\ x.name = y.name => x.user = y.user
      /\ \A x \in ToSet(a), e \in Entries(m) :
           Gives(x) /\ e.name = x.name /\ e.user # x.user =>
             \E d \in ToSet(a) : d.kind = "Rebound" /\ d.user = e.user
  BY <1>2, Zenon DEF NameOnce, a
<1>8. c \in ToSet(a)
  BY <1>4, <1>6 DEF all
<1>9. \A d \in ToSet(all) : Gives(d) =>
        \A e \in Entries(m) : e.user = d.user => e.name # d.name
  <2> SUFFICES ASSUME NEW d \in ToSet(all), Gives(d), NEW e \in Entries(m), e.user = d.user
               PROVE  e.name # d.name
    OBVIOUS
  <2>1. d.kind \in {"Added", "Rebound"} /\ d.kind # "Removed"
    BY DEF Gives
  <2>2. PICK u \in ToSet(listed) : AskedBy(u, m, d)
    BY <1>5, <2>1, Zenon DEF Sound
  <2>3. /\ d.user = u.user /\ d.name = u.name
        /\ \A g \in Entries(m) : g.user = u.user => g.name # u.name
    BY <2>1, <2>2, Zenon DEF AskedBy
  <2> QED
    BY <2>3
<1>10. ASSUME NEW d \in ToSet(all), Gives(d), d.name = c.name PROVE d.user = c.user
  BY <1>4, <1>6, <1>7, <1>8, <1>10
<1>11. ASSUME NEW e \in Entries(m), e.name = c.name
       PROVE  /\ e.user # c.user
              /\ \E d \in ToSet(all) : d.kind = "Rebound" /\ d.user = e.user /\ d.name # e.name
  <2>1. e.user # c.user
    BY <1>6, <1>8, <1>9, <1>11
  <2>2. PICK d \in ToSet(a) : d.kind = "Rebound" /\ d.user = e.user
    BY <1>7, <1>8, <1>11, <2>1, Zenon
  <2>3. Gives(d) /\ d \in ToSet(all)
    BY <1>6, <2>2 DEF Gives
  <2>4. d.name # e.name
    BY <1>9, <2>2, <2>3
  <2> QED
    BY <2>1, <2>2, <2>3, <2>4, Zenon
<1> QED
  BY <1>10, <1>11 DEF all

\* Whom the changes cs say farewell to.
Leaving(cs) == { c.user : c \in { d \in ToSet(cs) : d.kind = "Removed" } }

AtMost(S, n) == IsFiniteSet(S) /\ Cardinality(S) <= n

LEMMA AtMostSubset ==
  ASSUME NEW n \in Nat, NEW S, AtMost(S, n), NEW T, T \subseteq S
  PROVE  AtMost(T, n)
<1>1. IsFiniteSet(T) /\ Cardinality(T) <= Cardinality(S)
  BY FS_Subset DEF AtMost
<1>2. Cardinality(T) \in Nat /\ Cardinality(S) \in Nat
  BY <1>1, FS_CardinalityType DEF AtMost
<1> QED
  BY <1>1, <1>2 DEF AtMost

\* Everybody who is to leave stands at a place of a removal of their own.
LEMMA LeavingAtPlaces ==
  ASSUME NEW cs \in Seq(Change), Cardinality(Removals(cs)) <= max_removed_per_pass
  PROVE  AtMost(Leaving(cs), max_removed_per_pass)
<1> DEFINE R == Removals(cs)
           L == Leaving(cs)
           f == [i \in R |-> cs[i].user]
<1>1. DOMAIN cs = 1 .. Len(cs) /\ Len(cs) \in Nat
  BY LenProperties
<1>2. IsFiniteSet(R)
  <2>1. IsFiniteSet(1 .. Len(cs))
    BY <1>1, FS_Interval
  <2>2. R \in SUBSET (1 .. Len(cs))
    BY <1>1 DEF Removals
  <2> HIDE DEF R
  <2> QED
    BY <2>1, <2>2, FS_Subset
<1>3. f \in Surjection(R, L)
  <2>1. f \in [R -> L]
    BY DEF Removals, Leaving, ToSet
  <2>2. \A u \in L : \E i \in R : f[i] = u
    BY DEF Removals, Leaving, ToSet
  <2> HIDE DEF f, R, L
  <2> QED
    BY <2>1, <2>2 DEF Surjection
<1>4. IsFiniteSet(L) /\ Cardinality(L) <= Cardinality(R)
  <2> HIDE DEF f, R, L
  <2> QED
    BY <1>2, <1>3, FS_Surjection
<1>5. Cardinality(L) \in Nat /\ Cardinality(R) \in Nat /\ max_removed_per_pass \in Nat
  BY <1>2, <1>4, FS_CardinalityType, RosterAssumption
<1> QED
  BY <1>4, <1>5 DEF AtMost

\* What is held back is removals, all of them, when they are too many.
LEMMA HoldBackSound ==
  ASSUME NEW m, NEW listed, NEW cs, Sound(m, listed, cs)
  PROVE  /\ Sound(m, listed, hold_back_mass_removal(cs))
         /\ AtMost(Leaving(hold_back_mass_removal(cs)), max_removed_per_pass)
<1>0. cs \in Seq(Change)
  BY DEF Sound
<1>1. CASE Cardinality(Removals(cs)) <= max_removed_per_pass
  BY <1>0, <1>1, LeavingAtPlaces DEF hold_back_mass_removal
<1>2. CASE ~ (Cardinality(Removals(cs)) <= max_removed_per_pass)
  <2> DEFINE K == { c \in ToSet(cs) : c.kind # "Removed" }
             o == Only(cs, K)
  <2>1. hold_back_mass_removal(cs) = o
    BY <1>2 DEF hold_back_mass_removal, WithoutRemovals
  <2>2. o \in Seq(Change) /\ ToSet(o) = ToSet(cs) \cap K
    <3> HIDE DEF K
    <3> QED
      BY <1>0, OnlyProperties
  <2> HIDE DEF o
  <2>3. /\ ToSet(o) \subseteq ToSet(cs)
        /\ \A c \in ToSet(cs) : c.kind = "Updated" => c \in ToSet(o)
        /\ \A c \in ToSet(o) : c.kind # "Removed"
    BY <2>2
  <2> HIDE DEF K
  <2>4. \A u \in ToSet(listed) : Noticed(u, m, o)
    BY <2>3 DEF Sound, Noticed
  <2>5. Sound(m, listed, o)
    BY <2>2, <2>3, <2>4 DEF Sound
  <2>6. Leaving(o) = {}
    BY <2>3 DEF Leaving
  <2>7. AtMost({}, max_removed_per_pass)
    BY FS_EmptySet, RosterAssumption DEF AtMost
  <2> QED
    BY <2>1, <2>5, <2>6, <2>7
<1> QED
  BY <1>1, <1>2

\* Authentik lists no account twice.
LEMMA ListingAnswers ==
  ASSUME account \in [User -> Account], NEW S
  PROVE  Answer(Listing(S))
<1> DEFINE here == Only(Roster, S)
           l == Listing(S)
<1>1. Roster \in Seq(User) /\ \A i, j \in DOMAIN Roster : Roster[i] = Roster[j] => i = j
  BY RosterAssumption
<1>2. /\ here \in Seq(User)
      /\ \A p, q \in DOMAIN here : p < q =>
           \E a, b \in DOMAIN Roster : a < b /\ here[p] = Roster[a] /\ here[q] = Roster[b]
  BY <1>1, OnlyProperties
<1>3. l = [i \in DOMAIN here |->
             [user |-> here[i], name |-> account[here[i]].name, profile |-> account[here[i]].profile]]
  BY DEF Listing
<1> HIDE DEF here, l
<1>4. /\ Len(here) \in Nat /\ DOMAIN here = 1 .. Len(here)
      /\ \A i \in 1 .. Len(here) : here[i] \in User
      /\ Len(Roster) \in Nat /\ DOMAIN Roster = 1 .. Len(Roster)
  BY <1>1, <1>2, LenProperties, ElementOfSeq
<1>5. \A u \in User : account[u].name \in Maybe(Name) /\ account[u].profile \in Profile
  BY DEF Account
<1>6. l \in [1 .. Len(here) -> Listed]
  BY <1>3, <1>4, <1>5 DEF Listed
<1>7. l \in Seq(Listed) /\ DOMAIN l = 1 .. Len(here)
  BY <1>4, <1>6, SeqDef
<1>8. \A p, q \in 1 .. Len(here) : p < q => here[p] # here[q]
  <2> SUFFICES ASSUME NEW p \in 1 .. Len(here), NEW q \in 1 .. Len(here), p < q,
                      here[p] = here[q]
               PROVE  FALSE
    OBVIOUS
  <2>1. PICK a \in DOMAIN Roster, b \in DOMAIN Roster :
          a < b /\ here[p] = Roster[a] /\ here[q] = Roster[b]
    BY <1>2, <1>4
  <2>2. a = b
    BY <1>1, <2>1
  <2> QED
    BY <1>4, <2>1, <2>2
<1>9. \A p, q \in 1 .. Len(here) : p = q \/ p < q \/ q < p
  BY <1>4
<1>10. \A p \in 1 .. Len(here) : l[p].user = here[p]
  BY <1>3, <1>4
<1>11. \A p, q \in DOMAIN l : l[p].user = l[q].user => p = q
  BY <1>7, <1>8, <1>9, <1>10
<1>12. Answer(l)
  BY <1>7, <1>11 DEF Answer
<1> QED
  BY <1>12 DEF l

-----------------------------------------------------------------------------
(* The invariant                                                            *)

\* Every change still to be carried out is one this pass may carry out.
Justified ==
  /\ Answer(users)
  /\ \A c \in ToSet(changes) :
       \/ \E u \in ToSet(users) : AskedBy(u, served, c)
       \/ c.kind = "Removed" /\ \A u \in ToSet(users) : u.user # c.user

\* Nobody who is listed under a name loses their entry.
ListedStay ==
  \A u \in ToSet(users) : u.name # None /\ u.user \in Users(served) => u.user \in Users(working)

\* Those who left in this pass, and those who still will.
FewLeave ==
  AtMost((Users(served) \ Users(working)) \cup Leaving(changes), max_removed_per_pass)

\* Rights that are not the ones Authentik gave are going to be.
RightsPending ==
  \A e \in Entries(working), u \in ToSet(users) :
    u.user = e.user /\ u.name = e.name =>
      \/ e.profile = u.profile
      \/ \E c \in ToSet(changes) : c.kind = "Updated" /\ c.user = u.user

Pinned ==
  \A e \in Entries(served), f \in Entries(working) :
    e.user = f.user /\ e.name = f.name => e.aci = f.aci

\* What a greeting and a notice are under way for.
Midway ==
  /\ pc = "greet" => /\ changes # <<>> /\ This.kind \in {"Added", "Rebound", "Greet"}
                     /\ This.user \in Users(working)
  /\ pc = "warn" => /\ changes # <<>> /\ This.kind = "Conflict"
                    /\ ~conflict_reported(working, This.user, This.name)

\* What was sent is on record.
OnRecordAll ==
  ~lost => /\ \A e \in Entries(Current) : e.greeted <=> e.user \in welcomed
           /\ welcomed \subseteq Users(Current)
           /\ warned \subseteq Current.reported

Running == Justified /\ ListedStay /\ FewLeave /\ RightsPending /\ Pinned

Inv == TypeOK /\ (pc # "idle" => Running) /\ Midway /\ OnRecordAll

-----------------------------------------------------------------------------
(* Steps of a pass                                                          *)

\* Authentik answers once for an account, so its profile is the one it has.
LEMMA ProfileOfListed ==
  ASSUME Answer(users), NEW u \in ToSet(users)
  PROVE  ProfileOf(u.user) = u.profile /\ u \in Listed
<1>1. \A v \in ToSet(users) : v.user = u.user => v = u
  BY DEF Answer, ToSet
<1>2. (CHOOSE i \in ToSet(users) : i.user = u.user) = u
  BY <1>1
<1>3. u \in Listed
  BY ToSetType DEF Answer
<1> QED
  BY <1>2, <1>3 DEF ProfileOf

\* The change at hand, and those that are left after it.
LEMMA AtHand ==
  ASSUME Inv, changes # <<>>
  PROVE  /\ This \in Change /\ This \in ToSet(changes)
         /\ Tail(changes) \in Seq(Change) /\ ToSet(Tail(changes)) \subseteq ToSet(changes)
         /\ \A c \in ToSet(changes) : c = This \/ c \in ToSet(Tail(changes))
<1>1. changes \in Seq(Change)
  BY DEF Inv, TypeOK
<1> QED
  BY <1>1, ToSetTail DEF This

\* What a step of a pass leaves as it was, and what its changes make true.
LEMMA PassGoesOn ==
  ASSUME Inv, pc # "idle",
         UNCHANGED <<world, served, disk, users>>, faults' \in Nat,
         changes' \in Seq(Change), ToSet(changes') \subseteq ToSet(changes),
         Mapping(working'), welcomed' \subseteq User, warned' \subseteq User \X Name, lost' \in BOOLEAN,
         pc' \in {"apply", "greet", "warn"},
         \A u \in Users(working) : u \in Users(working') \/ u \in Leaving(changes),
         ListedStay', RightsPending', Pinned', Midway', OnRecordAll'
  PROVE  Inv'
<1>1. TypeOK'
  BY DEF Inv, TypeOK, world
<1>2. Justified'
  BY DEF Inv, Running, Justified
<1>3. FewLeave'
  <2> DEFINE S == (Users(served) \ Users(working)) \cup Leaving(changes)
             T == (Users(served) \ Users(working')) \cup Leaving(changes')
  <2>1. AtMost(S, max_removed_per_pass)
    BY DEF Inv, Running, FewLeave
  <2>2. T \subseteq S
    BY DEF Leaving
  <2>3. max_removed_per_pass \in Nat
    BY RosterAssumption
  <2> HIDE DEF S, T
  <2>4. AtMost(T, max_removed_per_pass)
    BY <2>1, <2>2, <2>3, AtMostSubset
  <2> QED
    BY <2>4 DEF FewLeave, T
<1> QED
  BY <1>1, <1>2, <1>3 DEF Inv, Running

\* Rights are still the listed ones or going to be, when an update is dropped
\* only together with the entry it is about.
LEMMA RightsStay ==
  ASSUME RightsPending, users' = users,
         \A e \in Entries(working') :
           \/ \E f \in Entries(working) :
                e.user = f.user /\ e.name = f.name /\ e.profile = f.profile
           \/ \A u \in ToSet(users) : u.user = e.user /\ u.name = e.name => e.profile = u.profile,
         \A c \in ToSet(changes) : c.kind = "Updated" => c \in ToSet(changes')
  PROVE  RightsPending'
BY DEF RightsPending

LEMMA GreetAgainKeeps ==
  ASSUME Inv, GreetAgain
  PROVE  Inv'
<1>1. /\ pc = "apply" /\ changes # <<>> /\ This.kind = "Greet" /\ pc' = "greet"
      /\ UNCHANGED <<world, faults, served, disk, users, changes, working, welcomed, warned, lost>>
  BY DEF GreetAgain, pass, history
<1>2. Running
  BY <1>1 DEF Inv
<1>3. ListedStay' /\ RightsPending' /\ Pinned'
  BY <1>1, <1>2 DEF Running, ListedStay, RightsPending, Pinned
<1>4. This.user \in Users(working)
  <2>1. This \in ToSet(changes)
    BY <1>1, AtHand
  <2>2. PICK u \in ToSet(users) : AskedBy(u, served, This)
    BY <1>1, <1>2, <2>1 DEF Running, Justified
  <2> QED
    BY <1>1, <1>2, <2>2 DEF Running, ListedStay, AskedBy
<1>5. Midway'
  BY <1>1, <1>4 DEF Midway, This
<1>6. OnRecordAll'
  BY <1>1 DEF Inv, OnRecordAll, Current
<1> QED
  BY <1>1, <1>3, <1>5, <1>6, PassGoesOn DEF Inv, TypeOK

LEMMA TellHolderKeeps ==
  ASSUME Inv, TellHolder
  PROVE  Inv'
<1>1. /\ pc = "apply" /\ changes # <<>> /\ This.kind = "Conflict" /\ pc' = "warn"
      /\ ~conflict_reported(working, This.user, This.name)
      /\ UNCHANGED <<world, faults, served, disk, users, changes, working, welcomed, warned, lost>>
  BY DEF TellHolder, pass, history
<1>2. Running
  BY <1>1 DEF Inv
<1>3. ListedStay' /\ RightsPending' /\ Pinned'
  BY <1>1, <1>2 DEF Running, ListedStay, RightsPending, Pinned
<1>4. Midway'
  BY <1>1 DEF Midway, This, conflict_reported
<1>5. OnRecordAll'
  BY <1>1 DEF Inv, OnRecordAll, Current
<1> QED
  BY <1>1, <1>3, <1>4, <1>5, PassGoesOn DEF Inv, TypeOK

\* A change that comes to nothing: no phone, no greeting, nobody to tell.
LEMMA NothingDoneKeeps ==
  ASSUME Inv, pc # "idle", changes # <<>>, This.kind # "Updated", Done("apply"),
         UNCHANGED <<world, served, disk, working, warned>>, faults' \in Nat,
         welcomed' \subseteq User, lost' \in BOOLEAN,
         ~lost' => ~lost /\ welcomed' = welcomed
  PROVE  Inv'
<1>1. Running
  BY DEF Inv
<1>2. pc' = "apply" /\ changes' = Tail(changes) /\ users' = users
  BY DEF Done
<1>3. /\ changes' \in Seq(Change) /\ ToSet(changes') \subseteq ToSet(changes)
      /\ \A c \in ToSet(changes) : c = This \/ c \in ToSet(changes')
  BY <1>2, AtHand
<1>4. ListedStay' /\ Pinned'
  BY <1>1, <1>2 DEF Running, ListedStay, Pinned
<1>5. RightsPending'
  BY <1>1, <1>2, <1>3, RightsStay DEF Running
<1>6. Midway' /\ OnRecordAll'
  BY <1>2 DEF Inv, Midway, OnRecordAll, Current
<1> QED
  BY <1>2, <1>3, <1>4, <1>5, <1>6, PassGoesOn DEF Inv, TypeOK

LEMMA NotResolvedKeeps ==
  ASSUME Inv, NotResolved
  PROVE  Inv'
<1>1. faults' \in Nat
  BY DEF NotResolved, Fault, NoFault, Inv, TypeOK
<1>2. /\ pc # "idle" /\ changes # <<>> /\ This.kind # "Updated" /\ Done("apply")
      /\ UNCHANGED <<world, served, disk, working, welcomed, warned, lost>>
  BY DEF NotResolved, history
<1> QED
  BY <1>1, <1>2, NothingDoneKeeps DEF Inv, TypeOK

LEMMA PassOverKeeps ==
  ASSUME Inv, PassOver
  PROVE  Inv'
<1>1. faults' \in Nat
  BY DEF PassOver, Inv, TypeOK
<1>2. /\ pc # "idle" /\ changes # <<>> /\ This.kind # "Updated" /\ Done("apply")
      /\ UNCHANGED <<world, served, disk, working, welcomed, warned, lost>>
  BY DEF PassOver, history
<1> QED
  BY <1>1, <1>2, NothingDoneKeeps DEF Inv, TypeOK

LEMMA NotGreetedKeeps ==
  ASSUME Inv, NotGreeted
  PROVE  Inv'
<1>1. faults' \in Nat
  BY DEF NotGreeted, Fault, Inv, TypeOK
<1>2. /\ pc # "idle" /\ changes # <<>> /\ This.kind # "Updated" /\ Done("apply")
      /\ UNCHANGED <<world, served, disk, working, warned>>
      /\ This.user \in Users(working)
  BY DEF NotGreeted, Inv, Midway
<1>3. This.user \in User
  BY <1>2, EntriesType DEF Inv, TypeOK
<1>4. \/ welcomed' = welcomed /\ lost' = lost
      \/ welcomed' = welcomed \cup {This.user} /\ lost' = TRUE
  BY DEF NotGreeted
<1> QED
  BY <1>1, <1>2, <1>3, <1>4, NothingDoneKeeps DEF Inv, TypeOK

\* An entry is put in the copy: everybody known before is known after, and the
\* other entries are as they were.
LEMMA Stored ==
  ASSUME NEW m, Mapping(m), NEW e \in Entry, NEW w, w = upsert(m, e)
  PROVE  /\ Mapping(w) /\ w.reported = m.reported
         /\ Users(w) = Users(m) \cup {e.user} /\ e \in Entries(w)
         /\ \A f \in Entries(w) : f = e \/ (f \in Entries(m) /\ f.user # e.user)
<1>1. /\ Mapping(w) /\ w.reported = m.reported
      /\ Entries(w) = { f \in Entries(m) : f.user # e.user } \cup {e}
  BY Upsert
<1>2. \A u \in Users(w) : u \in Users(m) \cup {e.user}
  BY <1>1 DEF Users
<1>3. e.user \in Users(w)
  BY <1>1 DEF Users
<1>4. ASSUME NEW f \in Entries(m) PROVE f.user \in Users(w)
  BY <1>1, <1>3 DEF Users
<1>5. \A u \in Users(m) : u \in Users(w)
  BY <1>4 DEF Users
<1>6. Users(w) = Users(m) \cup {e.user}
  BY <1>2, <1>3, <1>5
<1>7. e \in Entries(w)
  BY <1>1
<1>8. ASSUME NEW f \in Entries(w) PROVE f = e \/ (f \in Entries(m) /\ f.user # e.user)
  BY <1>1
<1> QED
  BY <1>1, <1>6, <1>7, <1>8

LEMMA ResolveKeeps ==
  ASSUME Inv, Resolve
  PROVE  Inv'
<1> DEFINE e == [ user |-> This.user, name |-> This.name, aci |-> owner[This.name],
                  greeted |-> FALSE, profile |-> ProfileOf(This.user) ]
<1>1. /\ pc = "apply" /\ changes # <<>> /\ This.kind \in {"Added", "Rebound"}
      /\ owner[This.name] # None
      /\ working' = upsert(working, e)
      /\ welcomed' = welcomed \ {This.user}
      /\ pc' = "greet"
      /\ UNCHANGED <<world, faults, served, disk, users, changes, warned, lost>>
  BY DEF Resolve
<1>2. Running /\ TypeOK /\ Mapping(working)
  BY <1>1 DEF Inv, TypeOK
<1>3. PICK u \in ToSet(users) : AskedBy(u, served, This)
  <2>1. This \in ToSet(changes)
    BY <1>1, AtHand
  <2> QED
    BY <1>1, <1>2, <2>1 DEF Running, Justified
<1>4. u \in Listed /\ u.user = This.user /\ ProfileOf(This.user) = u.profile
  BY <1>2, <1>3, ProfileOfListed DEF Running, Justified, AskedBy
<1>5. /\ u.name = This.name /\ This.name \in Name
      /\ \A f \in Entries(served) : f.user = u.user => f.name # u.name
  BY <1>1, <1>3 DEF AskedBy
<1>6. owner[This.name] \in Aci
  BY <1>1, <1>2, <1>5 DEF TypeOK, Maybe
<1>7. e \in Entry
  BY <1>4, <1>5, <1>6 DEF Entry, Listed
<1>8. /\ e.user = This.user /\ e.name = This.name /\ ~e.greeted /\ e.profile = u.profile
      /\ e.user = u.user /\ e.name = u.name
  BY <1>4, <1>5
<1> HIDE DEF e
<1>9. /\ Mapping(working') /\ working'.reported = working.reported
      /\ Users(working') = Users(working) \cup {e.user}
      /\ \A f \in Entries(working') : f = e \/ (f \in Entries(working) /\ f.user # e.user)
  BY <1>1, <1>2, <1>7, Stored
<1>10. ListedStay'
  BY <1>1, <1>2, <1>9 DEF Running, ListedStay
<1>11. RightsPending'
  <2>1. \A v \in ToSet(users) : v.user = e.user => v = u
    BY <1>2, <1>8 DEF Running, Justified, Answer, ToSet
  <2> QED
    BY <1>1, <1>2, <1>8, <1>9, <2>1, RightsStay DEF Running
<1>12. Pinned'
  BY <1>1, <1>2, <1>5, <1>8, <1>9 DEF Running, Pinned
<1>13. Midway'
  BY <1>1, <1>8, <1>9 DEF Midway, This
<1>14. OnRecordAll'
  BY <1>1, <1>8, <1>9 DEF Inv, OnRecordAll, Current
<1>15. welcomed' \subseteq User /\ warned' \subseteq User \X Name
  BY <1>1, <1>2 DEF TypeOK
<1> QED
  BY <1>1, <1>2, <1>9, <1>10, <1>11, <1>12, <1>13, <1>14, <1>15, PassGoesOn DEF TypeOK

LEMMA UpdateKeeps ==
  ASSUME Inv, Update
  PROVE  Inv'
<1> DEFINE f == by_user(working, This.user)
           e == [f EXCEPT !.profile = ProfileOf(This.user)]
<1>1. /\ pc = "apply" /\ changes # <<>> /\ This.kind = "Updated"
      /\ working' = upsert(working, e)
      /\ pc' = "apply" /\ changes' = Tail(changes)
      /\ UNCHANGED <<world, faults, served, disk, users, welcomed, warned, lost>>
  BY DEF Update, Done, history
<1>2. Running /\ TypeOK /\ Mapping(working)
  BY <1>1 DEF Inv, TypeOK
<1>0. /\ This \in ToSet(changes) /\ changes' \in Seq(Change)
      /\ ToSet(changes') \subseteq ToSet(changes)
      /\ \A c \in ToSet(changes) : c = This \/ c \in ToSet(changes')
  BY <1>1, AtHand
<1>3. PICK u \in ToSet(users) : AskedBy(u, served, This)
  BY <1>0, <1>1, <1>2 DEF Running, Justified
<1>4. u \in Listed /\ u.user = This.user /\ ProfileOf(This.user) = u.profile
  BY <1>2, <1>3, ProfileOfListed DEF Running, Justified, AskedBy
<1>5. This.user \in Users(working)
  BY <1>1, <1>2, <1>3, <1>4 DEF Running, ListedStay, AskedBy
<1>6. f \in Entries(working) /\ f \in Entry /\ f.user = This.user
  BY <1>2, <1>5, ByUser, EntriesType
<1> HIDE DEF f
<1>7. /\ e \in Entry /\ e.user = f.user /\ e.name = f.name /\ e.aci = f.aci
      /\ e.greeted = f.greeted /\ e.profile = u.profile
  BY <1>4, <1>6 DEF Entry, Listed
<1> HIDE DEF e
<1>8. /\ Mapping(working') /\ working'.reported = working.reported
      /\ Users(working') = Users(working) \cup {e.user}
      /\ \A g \in Entries(working') : g = e \/ (g \in Entries(working) /\ g.user # e.user)
  BY <1>1, <1>2, <1>7, Stored
<1>9. ListedStay'
  BY <1>1, <1>2, <1>8 DEF Running, ListedStay
<1>10. RightsPending'
  <2> SUFFICES ASSUME NEW g \in Entries(working'), NEW v \in ToSet(users),
                      v.user = g.user, v.name = g.name
               PROVE  \/ g.profile = v.profile
                      \/ \E c \in ToSet(changes') : c.kind = "Updated" /\ c.user = v.user
    BY <1>1 DEF RightsPending
  <2>1. CASE g = e
    <3>1. v = u
      BY <1>2, <1>4, <1>6, <1>7, <2>1 DEF Running, Justified, Answer, ToSet
    <3> QED
      BY <1>7, <2>1, <3>1
  <2>2. CASE g \in Entries(working) /\ g.user # e.user
    <3>1. \/ g.profile = v.profile
          \/ \E c \in ToSet(changes) : c.kind = "Updated" /\ c.user = v.user
      BY <1>2, <2>2 DEF Running, RightsPending
    <3> QED
      BY <1>0, <1>6, <1>7, <2>2, <3>1
  <2> QED
    BY <1>8, <2>1, <2>2
<1>11. Pinned'
  BY <1>1, <1>2, <1>6, <1>7, <1>8 DEF Running, Pinned
<1>12. Midway'
  BY <1>1 DEF Midway
<1>13. OnRecordAll'
  BY <1>1, <1>6, <1>7, <1>8 DEF Inv, OnRecordAll, Current
<1> QED
  BY <1>0, <1>1, <1>2, <1>8, <1>9, <1>10, <1>11, <1>12, <1>13, PassGoesOn DEF TypeOK

LEMMA GreetedKeeps ==
  ASSUME Inv, Greeted
  PROVE  Inv'
<1> DEFINE f == by_user(working, This.user)
           e == [f EXCEPT !.greeted = TRUE]
<1>1. /\ pc = "greet"
      /\ working' = upsert(working, e)
      /\ welcomed' = welcomed \cup {This.user}
      /\ pc' = "apply" /\ changes' = Tail(changes)
      /\ UNCHANGED <<world, faults, served, disk, users, warned, lost>>
  BY DEF Greeted, Done
<1>2. /\ Running /\ TypeOK /\ Mapping(working)
      /\ changes # <<>> /\ This.kind # "Updated" /\ This.user \in Users(working)
  BY <1>1 DEF Inv, TypeOK, Midway
<1>3. /\ changes' \in Seq(Change) /\ ToSet(changes') \subseteq ToSet(changes)
      /\ \A c \in ToSet(changes) : c = This \/ c \in ToSet(changes')
  BY <1>1, <1>2, AtHand
<1>4. f \in Entries(working) /\ f \in Entry /\ f.user = This.user
  BY <1>2, ByUser, EntriesType
<1> HIDE DEF f
<1>5. /\ e \in Entry /\ e.user = f.user /\ e.name = f.name /\ e.aci = f.aci
      /\ e.greeted = TRUE /\ e.profile = f.profile
  BY <1>4 DEF Entry
<1> HIDE DEF e
<1>6. /\ Mapping(working') /\ working'.reported = working.reported
      /\ Users(working') = Users(working) \cup {e.user}
      /\ \A g \in Entries(working') : g = e \/ (g \in Entries(working) /\ g.user # e.user)
  BY <1>1, <1>2, <1>5, Stored
<1>7. ListedStay'
  BY <1>1, <1>2, <1>6 DEF Running, ListedStay
<1>8. RightsPending'
  BY <1>1, <1>2, <1>3, <1>4, <1>5, <1>6, RightsStay DEF Running
<1>9. Pinned'
  BY <1>1, <1>2, <1>4, <1>5, <1>6 DEF Running, Pinned
<1>10. Midway'
  BY <1>1 DEF Midway
<1>11. OnRecordAll'
  BY <1>1, <1>2, <1>4, <1>5, <1>6 DEF Inv, OnRecordAll, Current
<1>12. welcomed' \subseteq User
  BY <1>1, <1>4 DEF Inv, TypeOK, Entry
<1> QED
  BY <1>1, <1>2, <1>3, <1>6, <1>7, <1>8, <1>9, <1>10, <1>11, <1>12, PassGoesOn DEF TypeOK

LEMMA SayGoodbyeKeeps ==
  ASSUME Inv, SayGoodbye
  PROVE  Inv'
<1>1. /\ pc = "apply" /\ changes # <<>> /\ This.kind = "Removed"
      /\ working' = remove_user(working, This.user)
      /\ welcomed' = welcomed \ {This.user}
      /\ pc' = "apply" /\ changes' = Tail(changes)
      /\ UNCHANGED <<world, faults, served, disk, users, warned, lost>>
  BY DEF SayGoodbye, Done
<1>2. Running /\ TypeOK /\ Mapping(working)
  BY <1>1 DEF Inv, TypeOK
<1>3. /\ This \in ToSet(changes) /\ changes' \in Seq(Change)
      /\ ToSet(changes') \subseteq ToSet(changes)
      /\ \A c \in ToSet(changes) : c = This \/ c \in ToSet(changes')
  BY <1>1, AtHand
<1>4. /\ Mapping(working') /\ working'.reported = working.reported
      /\ Entries(working') = { e \in Entries(working) : e.user # This.user }
  BY <1>1, <1>2, RemoveUser
<1>5. Users(working') = Users(working) \ {This.user}
  BY <1>4 DEF Users
<1>6. \A u \in ToSet(users) : u.user = This.user => u.name = None
  <2>1. \A u, v \in ToSet(users) : u.user = v.user => u = v
    BY <1>2 DEF Running, Justified, Answer, ToSet
  <2> QED
    BY <1>1, <1>2, <1>3, <2>1 DEF Running, Justified, AskedBy
<1>7. ListedStay'
  BY <1>1, <1>2, <1>5, <1>6 DEF Running, ListedStay
<1>8. RightsPending'
  BY <1>1, <1>2, <1>3, <1>4, RightsStay DEF Running
<1>9. Pinned'
  BY <1>1, <1>2, <1>4 DEF Running, Pinned
<1>10. Midway'
  BY <1>1 DEF Midway
<1>11. OnRecordAll'
  BY <1>1, <1>4, <1>5 DEF Inv, OnRecordAll, Current
<1>12. \A u \in Users(working) : u \in Users(working') \/ u \in Leaving(changes)
  BY <1>1, <1>3, <1>5 DEF Leaving
<1> QED
  BY <1>1, <1>2, <1>3, <1>4, <1>7, <1>8, <1>9, <1>10, <1>11, <1>12, PassGoesOn DEF TypeOK

\* What a notice that is under way is about.
LEMMA Noticing ==
  ASSUME Inv, pc = "warn"
  PROVE  /\ changes # <<>> /\ This.kind = "Conflict"
         /\ This.user \in User /\ This.name \in Name
<1>1. changes # <<>> /\ This.kind = "Conflict"
  BY DEF Inv, Midway
<1>2. This \in Change /\ This \in ToSet(changes)
  BY <1>1, AtHand
<1>3. PICK u \in ToSet(users) : AskedBy(u, served, This)
  BY <1>1, <1>2 DEF Inv, Running, Justified
<1> QED
  BY <1>1, <1>2, <1>3 DEF AskedBy, Change

LEMMA ToldKeeps ==
  ASSUME Inv, Told
  PROVE  Inv'
<1>1. /\ pc = "warn"
      /\ working' = mark_conflict_reported(working, This.user, This.name)
      /\ warned' = warned \cup {<<This.user, This.name>>}
      /\ pc' = "apply" /\ changes' = Tail(changes)
      /\ UNCHANGED <<world, faults, served, disk, users, welcomed, lost>>
  BY DEF Told, Done
<1>2. /\ Running /\ TypeOK /\ Mapping(working)
      /\ changes # <<>> /\ This.kind # "Updated" /\ <<This.user, This.name>> \in User \X Name
  BY <1>1, Noticing DEF Inv, TypeOK
<1>3. /\ changes' \in Seq(Change) /\ ToSet(changes') \subseteq ToSet(changes)
      /\ \A c \in ToSet(changes) : c = This \/ c \in ToSet(changes')
  BY <1>1, <1>2, AtHand
<1>4. /\ Mapping(working') /\ Entries(working') = Entries(working)
      /\ working'.reported = working.reported \cup {<<This.user, This.name>>}
  BY <1>1, <1>2 DEF mark_conflict_reported, Mapping, Entries
<1>5. Users(working') = Users(working)
  BY <1>4 DEF Users
<1>6. ListedStay' /\ Pinned'
  BY <1>1, <1>2, <1>4, <1>5 DEF Running, ListedStay, Pinned
<1>7. RightsPending'
  BY <1>1, <1>2, <1>3, <1>4, RightsStay DEF Running
<1>8. Midway'
  BY <1>1 DEF Midway
<1>9. OnRecordAll'
  BY <1>1, <1>4, <1>5 DEF Inv, OnRecordAll, Current
<1>10. warned' \subseteq User \X Name
  BY <1>1, <1>2 DEF TypeOK
<1> QED
  BY <1>1, <1>2, <1>3, <1>4, <1>5, <1>6, <1>7, <1>8, <1>9, <1>10, PassGoesOn DEF TypeOK

LEMMA NotToldKeeps ==
  ASSUME Inv, NotTold
  PROVE  Inv'
<1>1. /\ pc = "warn" /\ faults' \in Nat
      /\ pc' = "apply" /\ changes' = Tail(changes)
      /\ UNCHANGED <<world, served, disk, users, working, welcomed>>
      /\ \/ warned' = warned /\ lost' = lost
         \/ warned' = warned \cup {<<This.user, This.name>>} /\ lost' = TRUE
  BY DEF NotTold, Done, Fault, Inv, TypeOK
<1>2. /\ Running /\ TypeOK
      /\ changes # <<>> /\ This.kind # "Updated" /\ <<This.user, This.name>> \in User \X Name
  BY <1>1, Noticing DEF Inv, TypeOK
<1>3. /\ changes' \in Seq(Change) /\ ToSet(changes') \subseteq ToSet(changes)
      /\ \A c \in ToSet(changes) : c = This \/ c \in ToSet(changes')
  BY <1>1, <1>2, AtHand
<1>4. ListedStay' /\ Pinned'
  BY <1>1, <1>2 DEF Running, ListedStay, Pinned
<1>5. RightsPending'
  BY <1>1, <1>2, <1>3, RightsStay DEF Running
<1>6. Midway' /\ OnRecordAll'
  BY <1>1 DEF Inv, Midway, OnRecordAll, Current
<1>7. warned' \subseteq User \X Name /\ lost' \in BOOLEAN
  BY <1>1, <1>2 DEF TypeOK
<1> QED
  BY <1>1, <1>2, <1>3, <1>4, <1>5, <1>6, <1>7, PassGoesOn DEF TypeOK

-----------------------------------------------------------------------------
(* The beginning and the end of a pass, and everything else                 *)

\* The pass over whichever accounts Authentik lists.
LEMMA BeginKeeps ==
  ASSUME Inv, pc = "idle", NEW S, Begin(S),
         UNCHANGED <<world, served, disk, welcomed, lost>>, faults' \in Nat
  PROVE  Inv'
<1> DEFINE listed == Listing(S)
           todo == hold_back_mass_removal(plan(served, listed))
           told == ConflictsIn(todo)
<1>1. TypeOK /\ Mapping(served) /\ OnRecordAll
  BY DEF Inv, TypeOK
<1>2. Answer(listed)
  BY <1>1, ListingAnswers DEF TypeOK
<1>3. Sound(served, listed, todo) /\ AtMost(Leaving(todo), max_removed_per_pass)
  <2> HIDE DEF listed
  <2>1. Sound(served, listed, plan(served, listed))
    BY <1>1, <1>2, PlanSound
  <2> QED
    BY <2>1, HoldBackSound
<1>4. \/ UNCHANGED <<pc, users, changes, working, warned>>
      \/ /\ users' = listed /\ changes' = todo
         /\ working' = keep_reported_conflicts(served, told)
         /\ warned' = warned \cap told
         /\ pc' = "apply"
  BY DEF Begin, pass
<1> HIDE DEF listed, todo, told
<1>5. CASE UNCHANGED <<pc, users, changes, working, warned>>
  <2>1. TypeOK'
    BY <1>1, <1>5 DEF TypeOK, world
  <2>2. Midway' /\ OnRecordAll'
    BY <1>1, <1>5 DEF Midway, OnRecordAll, Current
  <2> QED
    BY <1>5, <2>1, <2>2 DEF Inv
<1>6. CASE /\ users' = listed /\ changes' = todo
           /\ working' = keep_reported_conflicts(served, told)
           /\ warned' = warned \cap told
           /\ pc' = "apply"
  <2>1. /\ Mapping(working') /\ Entries(working') = Entries(served)
        /\ working'.reported = served.reported \cap told
    BY <1>1, <1>6 DEF keep_reported_conflicts, Mapping, Entries
  <2>2. Users(working') = Users(served)
    BY <2>1 DEF Users
  <2>3. TypeOK'
    BY <1>1, <1>2, <1>3, <1>6, <2>1 DEF TypeOK, world, Answer, Sound
  <2>4. Justified'
    BY <1>2, <1>3, <1>6 DEF Justified, Sound
  <2>5. ListedStay'
    BY <1>6, <2>2 DEF ListedStay
  <2>6. FewLeave'
    <3>1. (Users(served) \ Users(working')) \cup Leaving(changes') = Leaving(todo)
      BY <1>6, <2>2
    <3> QED
      BY <1>3, <3>1 DEF FewLeave
  <2>7. RightsPending'
    <3>1. \A u \in ToSet(listed) : Noticed(u, served, todo)
      BY <1>3 DEF Sound
    <3> QED
      BY <1>6, <2>1, <3>1 DEF RightsPending, Noticed
  <2>8. Pinned'
    BY <1>1, <2>1, OneEntryEach DEF Pinned
  <2>9. Midway'
    BY <1>6 DEF Midway
  <2>10. OnRecordAll'
    BY <1>1, <1>6, <2>1, <2>2 DEF OnRecordAll, Current
  <2> QED
    BY <2>3, <2>4, <2>5, <2>6, <2>7, <2>8, <2>9, <2>10 DEF Inv, Running
<1> QED
  BY <1>4, <1>5, <1>6

LEMMA BeginPassKeeps ==
  ASSUME Inv, BeginPass
  PROVE  Inv'
<1>1. /\ pc = "idle" /\ Begin(Here) /\ faults' \in Nat
      /\ UNCHANGED <<world, served, disk, welcomed, lost>>
  BY DEF BeginPass, NoFault, Inv, TypeOK
<1> QED
  BY <1>1, BeginKeeps

LEMMA ShortAnswerKeeps ==
  ASSUME Inv, ShortAnswer
  PROVE  Inv'
<1>1. /\ pc = "idle" /\ faults' \in Nat
      /\ UNCHANGED <<world, served, disk, welcomed, lost>>
  BY DEF ShortAnswer, Fault, Inv, TypeOK
<1>2. PICK S \in SUBSET Here : Begin(S)
  BY DEF ShortAnswer
<1> QED
  BY <1>1, <1>2, BeginKeeps

LEMMA EndPassKeeps ==
  ASSUME Inv, EndPass
  PROVE  Inv'
<1>1. /\ pc = "apply" /\ disk' \in {disk, working} /\ faults' \in Nat
      /\ served' = working /\ pc' = "idle" /\ users' = <<>> /\ working' = Empty
      /\ UNCHANGED <<account, owner, edits, changes, welcomed, warned, lost>>
  BY DEF EndPass, Fault, NoFault, Inv, TypeOK, world, history
<1>2. Mapping(Empty) /\ <<>> \in Seq(Listed)
  BY EmptySeq DEF Mapping, Empty
<1>3. TypeOK'
  BY <1>1, <1>2 DEF Inv, TypeOK
<1>4. Midway' /\ OnRecordAll'
  BY <1>1 DEF Inv, Midway, OnRecordAll, Current
<1> QED
  BY <1>1, <1>3, <1>4 DEF Inv

LEMMA CrashKeeps ==
  ASSUME Inv, Crash
  PROVE  Inv'
<1>1. /\ served' = disk /\ faults' \in Nat
      /\ pc' = "idle" /\ users' = <<>> /\ changes' = <<>> /\ working' = Empty
      /\ lost' = (lost \/ pc # "idle" \/ served # disk)
      /\ UNCHANGED <<account, owner, edits, disk, welcomed, warned>>
  BY DEF Crash, Fault, Inv, TypeOK, world
<1>2. Mapping(Empty) /\ <<>> \in Seq(Listed) /\ <<>> \in Seq(Change)
  BY EmptySeq DEF Mapping, Empty
<1>3. lost' \in BOOLEAN
  BY <1>1
<1>4. TypeOK'
  BY <1>1, <1>2, <1>3 DEF Inv, TypeOK
<1>5. Midway' /\ OnRecordAll'
  BY <1>1 DEF Inv, TypeOK, Midway, OnRecordAll, Current
<1> QED
  BY <1>1, <1>4, <1>5 DEF Inv

\* Accounts and phones are nothing the mapping depends on.
LEMMA EditKeeps ==
  ASSUME Inv, account' \in [User -> Account], owner' \in [Name -> Maybe(Aci)], edits' \in Nat,
         UNCHANGED <<faults, served, disk, pc, pass, working, history>>
  PROVE  Inv'
<1>1. UNCHANGED <<faults, served, disk, pc, users, changes, working, welcomed, warned, lost>>
  BY DEF pass, history
<1>2. TypeOK'
  BY <1>1 DEF Inv, TypeOK
<1>3. pc' # "idle" => Running'
  BY <1>1 DEF Inv, Running, Justified, ListedStay, FewLeave, RightsPending, Pinned
<1>4. Midway' /\ OnRecordAll'
  BY <1>1 DEF Inv, Midway, OnRecordAll, Current, This
<1> QED
  BY <1>2, <1>3, <1>4 DEF Inv

LEMMA WorldKeeps ==
  ASSUME Inv, World
  PROVE  Inv'
<1>0. /\ account \in [User -> Account] /\ owner \in [Name -> Maybe(Aci)]
      /\ edits \in Nat
  BY DEF Inv, TypeOK
<1>1. Edit => /\ edits' \in Nat
              /\ UNCHANGED <<faults, served, disk, pc, pass, working, history>>
  BY <1>0 DEF Edit
<1>2. ASSUME NEW u \in User, NEW n \in Maybe(Name), EnterName(u, n) PROVE Inv'
  <2>1. account' \in [User -> Account] /\ owner' = owner /\ Edit
    BY <1>0, <1>2 DEF EnterName, Account
  <2> QED
    BY <1>0, <1>1, <2>1, EditKeeps
<1>3. ASSUME NEW u \in User, NEW p \in Profile, ChangeProfile(u, p) PROVE Inv'
  <2>1. account' \in [User -> Account] /\ owner' = owner /\ Edit
    BY <1>0, <1>3 DEF ChangeProfile, Account
  <2> QED
    BY <1>0, <1>1, <2>1, EditKeeps
<1>4. ASSUME NEW u \in User, ComeOrGo(u) PROVE Inv'
  <2>1. account' \in [User -> Account] /\ owner' = owner /\ Edit
    BY <1>0, <1>4 DEF ComeOrGo, Account
  <2> QED
    BY <1>0, <1>1, <2>1, EditKeeps
<1>5. ASSUME NEW n \in Name, NEW a \in Maybe(Aci), NameMoves(n, a) PROVE Inv'
  <2>1. owner' \in [Name -> Maybe(Aci)] /\ account' = account /\ Edit
    BY <1>0, <1>5 DEF NameMoves
  <2> QED
    BY <1>0, <1>1, <2>1, EditKeeps
<1> QED
  BY <1>2, <1>3, <1>4, <1>5, CrashKeeps DEF World

LEMMA InitInv == Init => Inv
<1> SUFFICES ASSUME Init PROVE Inv
  OBVIOUS
<1>1. Mapping(Empty) /\ <<>> \in Seq(Listed) /\ <<>> \in Seq(Change)
  BY EmptySeq DEF Mapping, Empty
<1>2. TypeOK
  BY <1>1, RosterAssumption DEF Init, TypeOK
<1>3. Midway /\ pc = "idle"
  BY DEF Init, Midway
<1>4. OnRecordAll
  <2>1. Entries(Empty) = {} /\ Users(Empty) = {}
    BY ToSetOfNone DEF Entries, Users, Empty
  <2> QED
    BY <2>1 DEF Init, OnRecordAll, Current
<1> QED
  BY <1>2, <1>3, <1>4 DEF Inv

LEMMA NextInv == Inv /\ [Next]_vars => Inv'
<1> SUFFICES ASSUME Inv, [Next]_vars PROVE Inv'
  OBVIOUS
<1>1. CASE Reconciler
  BY <1>1, BeginPassKeeps, ShortAnswerKeeps, ResolveKeeps, NotResolvedKeeps, UpdateKeeps,
     GreetAgainKeeps, GreetedKeeps, NotGreetedKeeps, SayGoodbyeKeeps, TellHolderKeeps,
     PassOverKeeps, ToldKeeps, NotToldKeeps, EndPassKeeps DEF Reconciler
<1>2. CASE World
  BY <1>2, WorldKeeps
<1>3. CASE UNCHANGED vars
  BY <1>3, EditKeeps DEF vars, world, Inv, TypeOK
<1> QED
  BY <1>1, <1>2, <1>3 DEF Next

LEMMA InvHolds == Spec => []Inv
BY InitInv, NextInv, PTL DEF Spec

-----------------------------------------------------------------------------
(* What follows                                                             *)

\* Every variable keeps its type and no account ever has two entries, whatever
\* the directory lists (state.rs upsert and remove_user, diff.rs plan).
THEOREM DirectoryTypeCorrect == Spec => []TypeOK
<1>1. Inv => TypeOK
  BY DEF Inv
<1> QED
  BY <1>1, InvHolds, PTL

\* The flag `greeted` tells the truth as long as all that was sent is on record
\* (directory/mod.rs apply and greet).
THEOREM FlagTellsTheTruth == Spec => []GreetedIsTrue
<1>1. Inv => GreetedIsTrue
  BY DEF Inv, OnRecordAll, GreetedIsTrue
<1> QED
  BY <1>1, InvHolds, PTL

\* Between passes whoever was greeted is known to the lookups (main.rs, the swap
\* at the end of a pass, saved or not).
THEOREM GreetedAreKnown == Spec => []GreetedIsServed
<1>1. Inv => GreetedIsServed
  BY DEF Inv, OnRecordAll, GreetedIsServed, Current
<1> QED
  BY <1>1, InvHolds, PTL

\* The holder of a name is told once of a conflict while it lasts (directory/mod.rs
\* apply, the Conflict arm; state.rs keep_reported_conflicts).
THEOREM HolderToldOnce == Spec => []WarnedOnce
<1>1. Inv => WarnedOnce
  BY DEF Inv, OnRecordAll, Midway, WarnedOnce, Current, conflict_reported
<1> QED
  BY <1>1, InvHolds, PTL

\* A pass never gives an account another phone under the name it has (state.rs
\* Entry::aci, "pinned once and never re-resolved").
THEOREM PhoneStaysPinned == Spec => []PhonePinned
<1>1. Inv => PhonePinned
  BY DEF Inv, Running, Pinned, PhonePinned
<1> QED
  BY <1>1, InvHolds, PTL

\* One pass forgets at most max_removed_per_pass accounts, whatever the directory
\* answers and whatever else the pass does (diff.rs hold_back_mass_removal).
THEOREM FewAreForgotten == Spec => []FewLeaveAtOnce
<1>1. Inv => FewLeaveAtOnce
  <2> SUFFICES ASSUME Inv, pc # "idle"
               PROVE  Cardinality(Users(served) \ Users(working)) <= max_removed_per_pass
    BY DEF FewLeaveAtOnce
  <2> DEFINE S == (Users(served) \ Users(working)) \cup Leaving(changes)
             T == Users(served) \ Users(working)
  <2>1. AtMost(S, max_removed_per_pass)
    BY DEF Inv, Running, FewLeave
  <2>2. T \subseteq S /\ max_removed_per_pass \in Nat
    BY RosterAssumption
  <2> HIDE DEF S, T
  <2>3. AtMost(T, max_removed_per_pass)
    BY <2>1, <2>2, AtMostSubset
  <2> QED
    BY <2>3 DEF AtMost, T
<1> QED
  BY <1>1, InvHolds, PTL

\* At the end of a pass whoever is mapped under the name they entered has the
\* rights Authentik gave for them in that pass (diff.rs Updated).
THEOREM RightsAreTheListed == Spec => []RightsFollow
<1>1. Inv => RightsFollow
  <2> SUFFICES ASSUME Inv, pc = "apply", changes = <<>>
               PROVE  \A e \in Entries(working), u \in ToSet(users) :
                        u.user = e.user /\ u.name = e.name => e.profile = u.profile
    BY DEF RightsFollow
  <2>1. ToSet(changes) = {}
    BY ToSetOfNone
  <2> QED
    BY <2>1 DEF Inv, Running, RightsPending
<1> QED
  BY <1>1, InvHolds, PTL
=============================================================================
