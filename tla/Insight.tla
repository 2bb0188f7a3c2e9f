------------------------------- MODULE Insight -------------------------------
(***************************************************************************)
(* What state a wish is in (src/insight.rs, src/model.rs): pure functions   *)
(* of what Seerr, Radarr and Sonarr answered.  They are used by the watcher *)
(* (Watch) and by the dialog's /status.                                     *)
(*                                                                          *)
(* Data abstracted: a film is "available" or "unavailable"; a queue item is *)
(* its QueueState; percentages and dates that are only printed are left     *)
(* out.  Instants are natural numbers.  A language stands for its spellings *)
(* in upper and lower case, and of the sentences in `rejections` a release  *)
(* keeps only which of the known ones it matches.                           *)
(***************************************************************************)
EXTENDS Integers, FiniteSets, Sequences

CONSTANT None                    \* the absent value, Rust's Option::None

QueueState == {"Downloading", "ImportStuck"}

\* Seerr's MediaRequestStatus and MediaStatus, as far as the code reads them.
DECLINED == 3
FAILED == 4
PARTLY == 4
AVAILABLE == 5

WishState ==
  { "Available", "Declined", "NotHandedOver", "PartlyAvailable", "ImportStuck",
    "Downloading", "NotReleased", "NotAired", "DownloadFailed", "Unsuitable",
    "Searching", "Waiting" }

Class == {"unsuitable", "download_failed", "import_stuck", "not_handed_over"}

(***************************************************************************)
(* series_facts: an episode counts when it and its season are monitored and *)
(* the season was wished (no season wished: all are); without an air date   *)
(* it is neither aired nor missing.  Episodes are a set of records, so two  *)
(* episodes that aired at the same instant have no order: the season of the *)
(* oldest missing one is then either's.                                     *)
(***************************************************************************)
Counting(series, wished) ==
  { e \in series.episodes :
      /\ e.monitored
      /\ e.season \in series.monitored_seasons
      /\ wished = {} \/ e.season \in wished
      /\ e.air_date # None }

Aired(series, wished, now) == { e \in Counting(series, wished) : e.air_date <= now }

Missing(series, wished, now) == { e \in Aired(series, wished, now) : ~e.has_file }

Oldest(S) == CHOOSE e \in S : \A f \in S : e.air_date <= f.air_date

series_facts(series, wished, now) ==
  LET aired   == Aired(series, wished, now)
      missing == Missing(series, wished, now)
  IN  [ aired |-> Cardinality(aired),
        have  |-> Cardinality(aired \ missing),
        missing_oldest |->
          IF missing = {} THEN None
          ELSE [air |-> Oldest(missing).air_date, season |-> Oldest(missing).season] ]

\* What a round has gathered about one wish; the empty record is what is known
\* of a wish neither Radarr nor Sonarr was asked about.
NoEvidence ==
  [ movie |-> None, series |-> None, queue_item |-> None, last_event |-> None,
    known_reason |-> None ]

\* The types of the above.  A series is one Sonarr could have answered with.
Series(show) ==
  /\ IsFiniteSet(show.episodes)
  /\ \A e \in show.episodes : e.air_date \in Nat \cup {None} /\ e.season \in Nat

Facts ==
  [ aired : Nat, have : Nat,
    missing_oldest : [air : Nat, season : Nat] \cup {None} ]

(***************************************************************************)
(* classify, row by row: the first row that applies wins.                   *)
(***************************************************************************)
classify(wish, ev) ==
  IF wish.media_status = AVAILABLE      THEN "Available"
  ELSE IF wish.request_status = DECLINED THEN "Declined"
  ELSE IF wish.request_status = FAILED   THEN "NotHandedOver"
  ELSE IF ev.queue_item # None           THEN ev.queue_item
  ELSE IF ev.series # None /\ ev.series.aired = 0 THEN "NotAired"
  ELSE IF ev.series # None /\ ev.series.missing_oldest = None THEN "PartlyAvailable"
  ELSE IF ev.series = None /\ wish.media_status = PARTLY THEN "PartlyAvailable"
  ELSE IF ev.movie = "unavailable"       THEN "NotReleased"
  ELSE IF ev.last_event = "DownloadFailed" THEN "DownloadFailed"
  ELSE IF ev.known_reason # None         THEN "Unsuitable"
  ELSE IF ev.movie # None \/ ev.series # None THEN "Searching"
  ELSE "Waiting"

\* The key under which "already told" is remembered; None: never announced.
notice_class(state) ==
  IF state \in {"Searching", "Unsuitable"} THEN "unsuitable"
  ELSE IF state = "DownloadFailed" THEN "download_failed"
  ELSE IF state = "ImportStuck" THEN "import_stuck"
  ELSE IF state = "NotHandedOver" THEN "not_handed_over"
  ELSE None
(***************************************************************************)
(* reason_from: one interactive search turned into one class of reason.  A  *)
(* search answers with a sequence of releases; those of another series say  *)
(* nothing about the one asked for and are dropped first.                   *)
(***************************************************************************)
Pattern == {"foreign", "too_large", "too_small", "wrong_quality"}
NOT_A_LANGUAGE == {"Unknown", "Original"}

ReasonClass ==
  { "nothing_exists", "only_in_languages", "too_large", "too_small", "wrong_quality",
    "otherwise" }

Because(class) == [class |-> class, languages |-> <<>>]
OnlyInLanguages(languages) == [class |-> "only_in_languages", languages |-> languages]

has_pattern(release, p) == p \in release.patterns
Named(release) == { release.languages[j] : j \in DOMAIN release.languages }
carries_any(release, wanted) == Named(release) \cap wanted # {}

\* The places of the releases that are this series' or film's own.
Own(releases) == { i \in DOMAIN releases : ~has_pattern(releases[i], "foreign") }

Offered(releases) == UNION { Named(releases[i]) : i \in Own(releases) } \ NOT_A_LANGUAGE

\* The places at which a language is named, <<release, position>>.
Mentions(releases, l) ==
  UNION { { <<i, j>> : j \in { k \in DOMAIN releases[i].languages :
                                releases[i].languages[k] = l } } : i \in Own(releases) }

Earlier(m, n) == m[1] < n[1] \/ (m[1] = n[1] /\ m[2] < n[2])

\* The stable sort by count: more often named, or as often and named before.
Precedes(releases, k, l) ==
  LET often(x) == Cardinality(Mentions(releases, x)) IN
  \/ often(k) > often(l)
  \/ /\ often(k) = often(l)
     /\ \E m \in Mentions(releases, k) : \A n \in Mentions(releases, l) : Earlier(m, n)

Foremost(releases, S) ==
  CHOOSE l \in S : \A k \in S \ {l} : Precedes(releases, l, k)

\* The two languages named most often.
languages_by_frequency(releases) ==
  LET offered == Offered(releases)
      first   == Foremost(releases, offered)
      others  == offered \ {first}
  IN  IF offered = {} THEN <<>>
      ELSE IF others = {} THEN <<first>>
      ELSE <<first, Foremost(releases, others)>>

\* `wanted`: the languages the wish's quality profile accepts, None if no
\* languages are configured for it.  Row by row: the first that applies wins.
Candidates(releases, wanted) ==
  { i \in Own(releases) : wanted = None \/ carries_any(releases[i], wanted) }

reason_from(releases, wanted) ==
  LET candidates == Candidates(releases, wanted)
      AllAre(p)  == \A i \in candidates : has_pattern(releases[i], p)
  IN  IF Own(releases) = {} THEN Because("nothing_exists")
      ELSE IF \E i \in Own(releases) : ~releases[i].rejected THEN Because("otherwise")
      ELSE IF candidates = {}
        THEN IF Offered(releases) = {} THEN Because("otherwise")
             ELSE OnlyInLanguages(languages_by_frequency(releases))
      ELSE IF AllAre("too_large")     THEN Because("too_large")
      ELSE IF AllAre("too_small")     THEN Because("too_small")
      ELSE IF AllAre("wrong_quality") THEN Because("wrong_quality")
      ELSE Because("otherwise")

\* Mutant: the same languages in another order are taken for another reason.
same_class_in_order(a, b) == a = b

\* What a person would have to be told again: the same two languages in the
\* other order are no news.
same_class(a, b) ==
  IF a.class = "only_in_languages" /\ b.class = "only_in_languages"
    THEN Named(a) = Named(b)
    ELSE a = b
=============================================================================
