---------------------------- MODULE InsightProofs ----------------------------
(***************************************************************************)
(* What the pure functions of Insight promise for every input, and what an  *)
(* answer to /status rests on, for every answer of Seerr, Radarr and Sonarr.*)
(***************************************************************************)
EXTENDS Status, FiniteSetTheorems, WellFoundedInduction, TLAPS

\* Instants are well ordered.
LEMMA EarliestExists ==
  ASSUME NEW T, T \subseteq Nat, T # {}
  PROVE  \E t \in T : \A u \in T : t <= u
<1>1. PICK t \in T : \A u \in T : <<u, t>> \notin OpToRel(<, Nat)
  BY NatLessThanWellFounded, WFMin, Zenon
<1>2. \A u \in Nat : u < t => <<u, t>> \in OpToRel(<, Nat)
  BY Zenon DEF OpToRel
<1>3. \A u \in T : ~ (u < t)
  BY <1>1, <1>2, Zenon
<1>4. t \in Nat /\ \A u \in T : u \in Nat
  BY Zenon
<1>5. \A u \in T : t <= u
  BY <1>3, <1>4, SMT
<1> QED
  BY <1>5, Zenon

\* A set of episodes with air dates has an oldest one (insight.rs series_facts,
\* the min over the missing episodes).
LEMMA OldestExists ==
  ASSUME NEW S, S # {}, \A e \in S : e.air_date \in Nat
  PROVE  /\ Oldest(S) \in S
         /\ \A f \in S : Oldest(S).air_date <= f.air_date
<1>1. PICK d \in { e.air_date : e \in S } : \A c \in { e.air_date : e \in S } : d <= c
  <2> { e.air_date : e \in S } \subseteq Nat /\ { e.air_date : e \in S } # {}
    OBVIOUS
  <2> QED
    BY EarliestExists
<1>2. PICK e \in S : e.air_date = d
  OBVIOUS
<1>3. \A f \in S : e.air_date <= f.air_date
  BY <1>1, <1>2
<1> QED
  BY <1>3 DEF Oldest

\* The facts of a series are consistent: no more episodes are on file than have
\* aired, something is missing exactly when the two differ, and what is reported
\* as the oldest missing episode aired, is not on file, and no missing episode
\* aired before it (insight.rs series_facts).
THEOREM SeriesFactsSound ==
  ASSUME NEW show, Series(show), NEW wished, NEW now \in Nat
  PROVE  LET f == series_facts(show, wished, now)
             M == Missing(show, wished, now)
         IN  /\ f \in Facts
             /\ f.have <= f.aired
             /\ (M = {}) <=> (f.have = f.aired)
             /\ M # {} => /\ f.missing_oldest.air <= now
                          /\ \A e \in M : f.missing_oldest.air <= e.air_date
                          /\ \E e \in M : /\ f.missing_oldest.air = e.air_date
                                          /\ f.missing_oldest.season = e.season
<1> DEFINE A == Aired(show, wished, now)
           M == Missing(show, wished, now)
           f == series_facts(show, wished, now)
<1>1. /\ A \subseteq show.episodes /\ M \subseteq A
      /\ \A e \in A : e.air_date <= now /\ e.season \in Nat
      /\ \A e \in A : e.air_date \in Nat
  BY DEF Aired, Missing, Counting, Series
<1>2. IsFiniteSet(A) /\ Cardinality(A) \in Nat
  BY <1>1, FS_Subset, FS_CardinalityType DEF Series
<1>3. /\ IsFiniteSet(A \ M) /\ Cardinality(A \ M) \in Nat
      /\ Cardinality(A \ M) <= Cardinality(A)
      /\ Cardinality(A) = Cardinality(A \ M) => A = A \ M
  <2>1. A \ M \in SUBSET A
    OBVIOUS
  <2> QED
    BY <2>1, <1>2, FS_Subset, FS_CardinalityType
<1>4. f.aired = Cardinality(A) /\ f.have = Cardinality(A \ M)
  BY DEF series_facts
<1>5. (M = {}) <=> (f.have = f.aired)
  <2>1. M = {} => A \ M = A
    OBVIOUS
  <2>2. A = A \ M => M = {}
    BY <1>1
  <2> QED
    BY <2>1, <2>2, <1>3, <1>4
<1>6. CASE M = {}
  <2>1. f \in Facts
    BY <1>6, <1>2, <1>3 DEF series_facts, Facts
  <2> QED
    BY <1>3, <1>4, <1>5, <1>6, <2>1
<1>7. CASE M # {}
  <2>1. Oldest(M) \in M /\ \A e \in M : Oldest(M).air_date <= e.air_date
    BY <1>1, <1>7, OldestExists
  <2>2. f.missing_oldest = [air |-> Oldest(M).air_date, season |-> Oldest(M).season]
    BY <1>7 DEF series_facts
  <2>3. f \in Facts
    <3>1. f.missing_oldest \in [air : Nat, season : Nat]
      BY <1>1, <2>1, <2>2
    <3> HIDE DEF M, A
    <3>2. f = [aired |-> Cardinality(A), have |-> Cardinality(A \ M),
               missing_oldest |-> f.missing_oldest]
      BY DEF series_facts, A, M
    <3> QED
      BY <1>2, <1>3, <3>1, <3>2 DEF Facts
  <2> QED
    BY <1>1, <1>3, <1>4, <1>5, <1>7, <2>1, <2>2, <2>3
<1> QED
  BY <1>6, <1>7

\* The classes a person can be told about are the four notice_text knows
\* (model.rs notice_class).
LEMMA NoticeClassType ==
  ASSUME NEW state
  PROVE  notice_class(state) \in Class \cup {None}
BY DEF notice_class, Class

\* Nobody is told anything about a wish Seerr has handed over and neither
\* Radarr, Sonarr nor a queue has said anything about (insight.rs classify:
\* without a measurement a wish is waiting, and waiting is not a problem).
THEOREM NoNoticeWithoutEvidence ==
  ASSUME NEW wish, wish.request_status # FAILED,
         None \notin QueueState, None # "DownloadFailed"
  PROVE  notice_class(classify(wish, NoEvidence)) = None
<1>1. PICK n : n = NoEvidence
  OBVIOUS
<1>2. /\ n.movie = None /\ n.series = None /\ n.queue_item = None
      /\ n.last_event = None /\ n.known_reason = None
  BY <1>1 DEF NoEvidence
<1>3. classify(wish, n) \in {"Available", "Declined", "PartlyAvailable", "NotReleased", "Waiting"}
  BY <1>2 DEF classify, QueueState
<1> QED
  BY <1>1, <1>3 DEF notice_class
-----------------------------------------------------------------------------
(* The reason of a search                                                   *)

Releases == Seq([rejected : BOOLEAN, patterns : SUBSET Pattern, languages : Seq(STRING)])

\* A language is named finitely often, and at places of its own.
LEMMA MentionsType ==
  ASSUME NEW releases \in Releases
  PROVE  /\ \A l : /\ IsFiniteSet(Mentions(releases, l))
                   /\ \A m \in Mentions(releases, l) :
                        /\ m = <<m[1], m[2]>> /\ m[1] \in Nat /\ m[2] \in Nat
                        /\ releases[m[1]].languages[m[2]] = l
         /\ \A l \in Offered(releases) : Mentions(releases, l) # {}
         /\ \E bound \in Nat : \A l : Cardinality(Mentions(releases, l)) <= bound
<1> DEFINE At(i) == { <<i, j>> : j \in DOMAIN releases[i].languages }
           All == UNION { At(i) : i \in Own(releases) }
<1>1. /\ Own(releases) \subseteq DOMAIN releases
      /\ DOMAIN releases = 1 .. Len(releases) /\ Len(releases) \in Nat
      /\ \A i \in Own(releases) :
           /\ DOMAIN releases[i].languages = 1 .. Len(releases[i].languages)
           /\ Len(releases[i].languages) \in Nat
  BY DEF Own, Releases
<1>i. ASSUME NEW n \in Nat PROVE IsFiniteSet(1 .. n)
  BY FS_Interval
<1>2. IsFiniteSet(Own(releases))
  <2>1. IsFiniteSet(DOMAIN releases)
    BY <1>1, <1>i
  <2> QED
    BY <2>1, <1>1, FS_Subset, Zenon
<1>3. \A i \in Own(releases) : IsFiniteSet(At(i))
  <2> SUFFICES ASSUME NEW i \in Own(releases) PROVE IsFiniteSet(At(i))
    OBVIOUS
  <2>1. IsFiniteSet(DOMAIN releases[i].languages)
    <3>1. /\ DOMAIN releases[i].languages = 1 .. Len(releases[i].languages)
          /\ Len(releases[i].languages) \in Nat
      BY <1>1, Zenon
    <3> QED
      BY <3>1, <1>i, Zenon
  <2> DEFINE f == [j \in DOMAIN releases[i].languages |-> <<i, j>>]
  <2>2. f \in Surjection(DOMAIN releases[i].languages, At(i))
    BY DEF Surjection
  <2> HIDE DEF f, At
  <2> QED
    BY <2>1, <2>2, FS_Surjection
<1>4. IsFiniteSet(All)
  <2>1. IsFiniteSet({ At(i) : i \in Own(releases) })
    <3> DEFINE f == [i \in Own(releases) |-> At(i)]
    <3> HIDE DEF At
    <3>1. f \in Surjection(Own(releases), { At(i) : i \in Own(releases) })
      BY DEF Surjection
    <3> QED
      BY <3>1, <1>2, FS_Surjection, Zenon
  <2> QED
    BY <2>1, <1>3, FS_UNION, Zenon
<1>5. \A l : Mentions(releases, l) \subseteq All
  BY DEF Mentions
<1>6. \A l : IsFiniteSet(Mentions(releases, l))
             /\ Cardinality(Mentions(releases, l)) <= Cardinality(All)
  BY <1>4, <1>5, FS_Subset, Zenon
<1>7. Cardinality(All) \in Nat
  BY <1>4, FS_CardinalityType
<1>8. \A l : \A m \in Mentions(releases, l) :
        /\ m = <<m[1], m[2]>> /\ m[1] \in Nat /\ m[2] \in Nat
        /\ releases[m[1]].languages[m[2]] = l
  <2> SUFFICES ASSUME NEW l, NEW m \in Mentions(releases, l)
               PROVE  /\ m = <<m[1], m[2]>> /\ m[1] \in Nat /\ m[2] \in Nat
                      /\ releases[m[1]].languages[m[2]] = l
    OBVIOUS
  <2>0. PICK i \in Own(releases) : \E j \in DOMAIN releases[i].languages :
          m = <<i, j>> /\ releases[i].languages[j] = l
    BY DEF Mentions
  <2>1. PICK j \in DOMAIN releases[i].languages :
          m = <<i, j>> /\ releases[i].languages[j] = l
    BY <2>0
  <2>2. i \in Nat /\ j \in Nat
    BY <1>1
  <2> QED
    BY <2>1, <2>2
<1>9. \A l \in Offered(releases) : Mentions(releases, l) # {}
  <2> SUFFICES ASSUME NEW l \in Offered(releases) PROVE Mentions(releases, l) # {}
    OBVIOUS
  <2>1. PICK i \in Own(releases) : l \in Named(releases[i])
    BY DEF Offered
  <2>2. PICK j \in DOMAIN releases[i].languages : releases[i].languages[j] = l
    BY <2>1 DEF Named
  <2>3. <<i, j>> \in Mentions(releases, l)
    BY <2>2 DEF Mentions
  <2> QED
    BY <2>3
<1> QED
  BY <1>6, <1>7, <1>8, <1>9

\* Some language is named most often, and before any that is named as often.
LEMMA ForemostExists ==
  ASSUME NEW releases \in Releases, NEW S, S # {}, S \subseteq Offered(releases)
  PROVE  /\ Foremost(releases, S) \in S
         /\ \A k \in S \ {Foremost(releases, S)} : Precedes(releases, Foremost(releases, S), k)
<1> DEFINE M(l) == Mentions(releases, l)
           C(l) == Cardinality(M(l))
<1>1. \A l : IsFiniteSet(M(l)) /\ C(l) \in Nat
  BY MentionsType, FS_CardinalityType
<1>2. PICK bound \in Nat : \A l : C(l) <= bound
  BY MentionsType
<1>3. \E l \in S : \A k \in S : C(k) <= C(l)
  <2> DEFINE T == { bound - C(l) : l \in S }
  <2>0. \A l \in S : bound - C(l) \in Nat
    BY <1>1, <1>2
  <2>1. T \subseteq Nat /\ T # {}
    BY <2>0
  <2>2. PICK t \in T : \A u \in T : t <= u
    BY <2>1, EarliestExists
  <2>3. PICK l \in S : t = bound - C(l)
    OBVIOUS
  <2>4. \A k \in S : C(k) <= C(l)
    <3> SUFFICES ASSUME NEW k \in S PROVE C(k) <= C(l)
      OBVIOUS
    <3>1. bound - C(l) <= bound - C(k)
      BY <2>2, <2>3
    <3> HIDE DEF C
    <3> QED
      BY <3>1, <1>1
  <2> QED
    BY <2>4
<1>4. PICK top \in S : \A k \in S : C(k) <= C(top)
  BY <1>3
<1> DEFINE Ties == { l \in S : C(l) = C(top) }
           P == UNION { M(l) : l \in Ties }
<1>5. P # {} /\ \A m \in P : m[1] \in Nat /\ m[2] \in Nat /\ m = <<m[1], m[2]>>
  BY MentionsType
<1>6. PICK i \in { m[1] : m \in P } : \A u \in { m[1] : m \in P } : i <= u
  <2> { m[1] : m \in P } \subseteq Nat /\ { m[1] : m \in P } # {}
    BY <1>5
  <2> QED
    BY EarliestExists
<1> DEFINE Q == { m \in P : m[1] = i }
<1>7. PICK j \in { m[2] : m \in Q } : \A u \in { m[2] : m \in Q } : j <= u
  <2> { m[2] : m \in Q } \subseteq Nat /\ { m[2] : m \in Q } # {}
    BY <1>5, <1>6
  <2> QED
    BY EarliestExists
<1>8. <<i, j>> \in P
  BY <1>5, <1>7
<1>9. PICK l \in Ties : <<i, j>> \in M(l)
  BY <1>8
<1>10. \A k \in S \ {l} : Precedes(releases, l, k)
  <2> SUFFICES ASSUME NEW k \in S \ {l} PROVE Precedes(releases, l, k)
    OBVIOUS
  <2>1. CASE C(k) = C(l)
    <3>1. k \in Ties
      BY <2>1, <1>9
    <3>2. ASSUME NEW n \in M(k) PROVE Earlier(<<i, j>>, n)
      <4>1. n \in P /\ n[1] \in Nat /\ n[2] \in Nat /\ n = <<n[1], n[2]>>
        BY <3>1, <3>2, <1>5
      <4>2. i \in Nat /\ j \in Nat /\ i <= n[1] /\ (n[1] = i => j <= n[2])
        BY <4>1, <1>5, <1>6, <1>7
      <4>3. releases[i].languages[j] = l
        BY <1>9, MentionsType
      <4>4. releases[n[1]].languages[n[2]] = k
        BY MentionsType
      <4>5. ~ (n[1] = i /\ n[2] = j)
        BY <4>3, <4>4
      <4> QED
        BY <4>1, <4>2, <4>5 DEF Earlier
    <3> QED
      BY <2>1, <3>2, <1>9 DEF Precedes
  <2>2. CASE C(k) # C(l)
    <3>1. C(l) > C(k)
      BY <2>2, <1>1, <1>4, <1>9
    <3> QED
      BY <3>1 DEF Precedes
  <2> QED
    BY <2>1, <2>2
<1>11. l \in S
  BY <1>9
<1> HIDE DEF M, C, Ties, P, Q
<1> QED
  BY <1>10, <1>11 DEF Foremost

\* What a person is told of a search follows from what it found (insight.rs
\* reason_from): nothing exists exactly if there was nothing but other series'
\* releases; "only in" names one or two different languages that are on offer,
\* none of them wanted; a size or a quality is blamed only if every release in
\* a wanted language, and there is one, was rejected and is of that kind.
THEOREM ReasonSound ==
  ASSUME NEW releases \in Releases, NEW wanted
  PROVE  LET r == reason_from(releases, wanted)
             fitting == Candidates(releases, wanted)
         IN  /\ r.class \in ReasonClass
             /\ r.class = "nothing_exists" <=> Own(releases) = {}
             /\ r.class = "only_in_languages" =>
                  /\ wanted # None /\ Len(r.languages) \in {1, 2}
                  /\ Named(r) \subseteq Offered(releases) \ wanted
                  /\ Len(r.languages) = 2 => r.languages[1] # r.languages[2]
             /\ r.class \in {"too_large", "too_small", "wrong_quality"} =>
                  /\ fitting # {}
                  /\ \A i \in Own(releases) : releases[i].rejected
                  /\ \A i \in fitting : r.class \in releases[i].patterns
<1> DEFINE r == reason_from(releases, wanted)
           fitting == Candidates(releases, wanted)
           offered == Offered(releases)
           named == languages_by_frequency(releases)
<1>1. CASE r.class = "only_in_languages"
  <2>1. /\ fitting = {} /\ Own(releases) # {} /\ offered # {}
        /\ r = OnlyInLanguages(named)
    BY <1>1 DEF reason_from, Because, OnlyInLanguages
  <2>2. wanted # None /\ offered \cap wanted = {}
    BY <2>1 DEF Candidates, carries_any, Offered
  <2>3. \/ \E k \in offered : named = <<k>>
        \/ \E k, l \in offered : named = <<k, l>> /\ k # l
    <3> DEFINE first == Foremost(releases, offered)
               others == offered \ {first}
    <3>1. first \in offered
      BY <2>1, ForemostExists
    <3>2. CASE others = {}
      BY <2>1, <3>1, <3>2 DEF languages_by_frequency
    <3>3. CASE others # {}
      <4>1. Foremost(releases, others) \in others
        BY <3>3, ForemostExists
      <4>2. named = <<first, Foremost(releases, others)>>
        BY <2>1, <3>3 DEF languages_by_frequency
      <4> QED
        BY <3>1, <4>1, <4>2
    <3> QED
      BY <3>2, <3>3
  <2>4. r.languages = named /\ r.class = "only_in_languages"
    BY <2>1 DEF OnlyInLanguages
  <2>5. /\ Len(named) \in {1, 2}
        /\ { named[j] : j \in DOMAIN named } \subseteq offered
        /\ Len(named) = 2 => named[1] # named[2]
    <3> HIDE DEF named, offered
    <3>1. ASSUME NEW k \in offered, named = <<k>>
          PROVE  /\ Len(named) = 1
                 /\ \A j \in DOMAIN named : named[j] \in offered
      BY <3>1
    <3>2. ASSUME NEW k \in offered, NEW l \in offered, named = <<k, l>>, k # l
          PROVE  /\ Len(named) = 2 /\ named[1] # named[2]
                 /\ \A j \in DOMAIN named : named[j] \in offered
      BY <3>2
    <3>3. \/ Len(named) = 1
          \/ Len(named) = 2 /\ named[1] # named[2]
      BY <2>3, <3>1, <3>2
    <3>4. \A j \in DOMAIN named : named[j] \in offered
      BY <2>3, <3>1, <3>2
    <3>5. { named[j] : j \in DOMAIN named } \subseteq offered
      BY <3>4, Zenon
    <3>6. Len(named) \in {1, 2} /\ (Len(named) = 2 => named[1] # named[2])
      BY <3>3
    <3> QED
      BY <3>5, <3>6
  <2> QED
    BY <2>1, <2>2, <2>4, <2>5 DEF Named, ReasonClass
<1>2. CASE r.class # "only_in_languages"
  <2>1. \E class \in ReasonClass : r = Because(class)
    BY <1>2 DEF reason_from, ReasonClass, OnlyInLanguages
  <2> QED
    BY <1>2, <2>1 DEF reason_from, Because, OnlyInLanguages, ReasonClass, has_pattern, Own
<1> QED
  BY <1>1, <1>2

-----------------------------------------------------------------------------
(* The answer to /status                                                    *)

\* The absent value is none of the states and events.
AbsentIsAbsent == None \notin QueueState \cup {"DownloadFailed", "unavailable", "available"}

\* The states only a measurement at Radarr or Sonarr can give.
Measured ==
  { "NotReleased", "NotAired", "DownloadFailed", "Unsuitable", "Searching", "ImportStuck" }

\* What Seerr alone can say is what classify makes of a wish of which nothing is
\* known but Seerr's own account of its download (dialog/mod.rs seerr_alone_text
\* beside insight.rs classify): the two orders of the rows cannot drift apart.
THEOREM SeerrAloneIsClassify ==
  ASSUME NEW wish, wish.downloading \in BOOLEAN, AbsentIsAbsent
  PROVE  seerr_alone_text(wish) =
           classify(wish, [NoEvidence EXCEPT !.queue_item =
                             IF wish.downloading THEN "Downloading" ELSE None])
<1>1. PICK ev : ev = [NoEvidence EXCEPT !.queue_item =
                        IF wish.downloading THEN "Downloading" ELSE None]
  OBVIOUS
<1>2. /\ ev.queue_item = IF wish.downloading THEN "Downloading" ELSE None
      /\ ev.movie = None /\ ev.series = None /\ ev.last_event = None /\ ev.known_reason = None
  BY <1>1 DEF NoEvidence
<1>3. seerr_alone_text(wish) = classify(wish, ev)
  BY <1>2 DEF seerr_alone_text, classify, AbsentIsAbsent, QueueState
<1> QED
  BY <1>1, <1>3

\* A call is saved only where nothing it could answer would be said
\* (dialog/mod.rs needs_evidence): of a wish with a film or series at Radarr or
\* Sonarr that needs no evidence, all evidence says the same as none.
THEOREM EvidenceChangesNothing ==
  ASSUME NEW wish, NEW ev, wish.arr_id # None, ~needs_evidence(wish)
  PROVE  classify(wish, ev) = seerr_alone_text(wish)
BY DEF needs_evidence, classify, seerr_alone_text

\* Nobody is told of a search, a failed download, a stuck import or a release
\* date that was not measured (dialog/mod.rs state_text_for: a call that failed is
\* no evidence of anything): these answers are given only if the queue was read,
\* and either showed the item or the film or series and its history were read
\* too; and of a film that is searched for Radarr has said that it is out.
THEOREM StatusIsMeasured ==
  ASSUME NEW wish, NEW insight \in BOOLEAN, NEW told, NEW reason, NEW wished, NEW now,
         wish.kind \in {"movie", "tv"}, AbsentIsAbsent,
         state_text_for(wish, insight, told, reason, wished, now) \in Measured
  PROVE  /\ insight /\ needs_evidence(wish) /\ told.queue # None
         /\ \/ QueueItem(told.queue, wish.arr_id) # None
            \/ told.about # None /\ told.history # None
         /\ (/\ wish.kind = "movie"
             /\ state_text_for(wish, insight, told, reason, wished, now) = "Searching")
              => told.about.isAvailable = TRUE
<1> DEFINE said == state_text_for(wish, insight, told, reason, wished, now)
           item == QueueItem(told.queue, wish.arr_id)
           ev   == Gathered(wish, told, reason, wished, now)
           inQueue == [NoEvidence EXCEPT !.queue_item = item]
<1>1. seerr_alone_text(wish) \notin Measured
  BY DEF seerr_alone_text, Measured
<1>2. insight /\ needs_evidence(wish) /\ told.queue # None
  BY <1>1 DEF state_text_for
<1>3. item # None \/ ~Unanswered(told)
  BY <1>1, <1>2 DEF state_text_for
<1>4. ASSUME wish.kind = "movie", said = "Searching"
      PROVE  told.about.isAvailable = TRUE
  <2>1. said = classify(wish, inQueue) \/ said = classify(wish, ev)
    BY <1>1, <1>2, <1>4 DEF state_text_for, Measured
  <2>2. classify(wish, inQueue) # "Searching"
    <3>1. item \in QueueState \cup {None}
      BY DEF QueueItem, queue_state, QueueState
    <3>2. PICK e : e = inQueue
      OBVIOUS
    <3>3. /\ e.queue_item = item /\ e.movie = None /\ e.series = None
          /\ e.last_event = None /\ e.known_reason = None
      BY <3>2 DEF NoEvidence
    <3> HIDE DEF item, inQueue
    <3>4. classify(wish, e) # "Searching"
      BY <3>1, <3>3 DEF classify, QueueState
    <3> QED
      BY <3>2, <3>4
  <2>3. /\ ev.queue_item = None /\ ev.series = None /\ ev.movie = movie(told.about)
    BY <1>4 DEF Gathered
  <2>4. ev.movie # "unavailable"
    <3> HIDE DEF ev, said, item, inQueue
    <3>1. classify(wish, ev) = "Searching"
      BY <1>4, <2>1, <2>2
    <3> QED
      BY <3>1, <2>3 DEF classify
  <2> QED
    BY <2>3, <2>4 DEF movie
<1> QED
  BY <1>2, <1>3, <1>4 DEF Unanswered

\* A download that is on the first page of the queue is shown whatever else
\* failed (dialog/mod.rs state_text_for, arr/mod.rs queue): the wish is said to
\* be in a state of the queue, and the first record about it decides which.
THEOREM DownloadIsShown ==
  ASSUME NEW wish, NEW told, NEW reason, NEW wished, NEW now, AbsentIsAbsent,
         needs_evidence(wish), told.queue # None,
         DOMAIN told.queue \subseteq Nat,
         NEW place \in DOMAIN told.queue, place <= QUEUE_PAGE,
         told.queue[place].id = wish.arr_id
  PROVE  /\ state_text_for(wish, TRUE, told, reason, wished, now) \in QueueState
         /\ \E first \in DOMAIN told.queue :
              /\ told.queue[first].id = wish.arr_id
              /\ \A i \in DOMAIN told.queue :
                   told.queue[i].id = wish.arr_id => first <= i
              /\ state_text_for(wish, TRUE, told, reason, wished, now) =
                   queue_state(told.queue[first].tracked)
<1> DEFINE hits == { i \in queue(told.queue) : told.queue[i].id = wish.arr_id }
           item == QueueItem(told.queue, wish.arr_id)
           first == CHOOSE i \in hits : \A j \in hits : i <= j
           said == state_text_for(wish, TRUE, told, reason, wished, now)
<1>1. place \in hits /\ hits \subseteq Nat
  BY DEF queue, needs_evidence
<1>2. first \in hits /\ \A j \in hits : first <= j
  BY <1>1, EarliestExists
<1>3. item = queue_state(told.queue[first].tracked)
  BY <1>1 DEF QueueItem
<1>4. item \in QueueState
  BY <1>3 DEF queue_state, QueueState
<1>5. said = item
  <2>1. item # None
    BY <1>4 DEF AbsentIsAbsent
  <2>2. said = classify(wish, [NoEvidence EXCEPT !.queue_item = item])
    BY <2>1 DEF state_text_for
  <2>3. [NoEvidence EXCEPT !.queue_item = item].queue_item = item
    BY DEF NoEvidence
  <2> HIDE DEF item
  <2>4. classify(wish, [NoEvidence EXCEPT !.queue_item = item]) = item
    BY <2>1, <2>3 DEF classify, needs_evidence
  <2> QED
    BY <2>2, <2>4
<1>6. \A i \in DOMAIN told.queue : told.queue[i].id = wish.arr_id => first <= i
  <2> SUFFICES ASSUME NEW i \in DOMAIN told.queue, told.queue[i].id = wish.arr_id
               PROVE  first <= i
    OBVIOUS
  <2>1. i \in Nat /\ first \in Nat /\ first <= place /\ QUEUE_PAGE \in Nat /\ place \in Nat
    BY <1>1, <1>2 DEF QUEUE_PAGE
  <2>2. CASE i <= QUEUE_PAGE
    <3>1. i \in hits
      BY <2>2 DEF queue, needs_evidence
    <3> QED
      BY <3>1, <1>2
  <2>3. CASE ~(i <= QUEUE_PAGE)
    <3> HIDE DEF first
    <3> QED
      BY <2>1, <2>3 DEF QUEUE_PAGE
  <2> QED
    BY <2>2, <2>3
<1>7. first \in DOMAIN told.queue /\ told.queue[first].id = wish.arr_id
  BY <1>2 DEF queue
<1> HIDE DEF first, item, said
<1> QED
  BY <1>3, <1>4, <1>5, <1>6, <1>7 DEF said

=============================================================================
