--------------------------------- MODULE Arr ---------------------------------
(***************************************************************************)
(* What Radarr and Sonarr answer, as the client reads it (src/arr/mod.rs):  *)
(* the evidence of Insight out of the bodies of the calls.  A call that     *)
(* fails, is not configured or runs into its deadline answers None.         *)
(*                                                                          *)
(* Data abstracted: percentages, release dates and episode numbers, which   *)
(* are only printed; a date is a natural number, a field that is missing or *)
(* unreadable None.                                                         *)
(***************************************************************************)
EXTENDS Insight

\* One page, and the client reads no second one.
QUEUE_PAGE == 200

\* Which of the two serves a kind; None: Sonarr is not configured.
service(kind, sonarr) ==
  IF kind = "movie" THEN "radarr" ELSE IF sonarr THEN "sonarr" ELSE None

\* Finished, and not in the library on its own.  A value nobody has seen is a
\* download in progress.
Stuck == {"importBlocked", "importPending", "failedPending", "failed"}

queue_state(tracked) == IF tracked \in Stuck THEN "ImportStuck" ELSE "Downloading"

map_event_type(event_type) ==
  CASE event_type = "grabbed"                -> "Grabbed"
    [] event_type = "downloadFailed"         -> "DownloadFailed"
    [] event_type = "downloadFolderImported" -> "Imported"
    [] OTHER                                 -> "Other"

\* A field that is missing says that the film is not out.
movie(body) == IF body.isAvailable = TRUE THEN "available" ELSE "unavailable"

\* Two bodies in one: the seasons that are monitored, and the episodes.
series(body) ==
  [ monitored_seasons |-> { s.seasonNumber : s \in { t \in body.seasons : t.monitored } },
    episodes |->
      { [ season |-> e.seasonNumber, air_date |-> e.airDateUtc, has_file |-> e.hasFile,
          monitored |-> e.monitored ] : e \in body.episodes } ]

\* The records of a queue that are seen: those with an id, on the first page.
queue(records) ==
  { i \in DOMAIN records : i <= QUEUE_PAGE /\ records[i].id # None }

\* The item about one film or series: the first of its records.
QueueItem(records, arr_id) ==
  LET hits == { i \in queue(records) : records[i].id = arr_id }
  IN  IF hits = {} THEN None
      ELSE queue_state(records[CHOOSE i \in hits : \A j \in hits : i <= j].tracked)

\* The latest entry of a history; of several with one date the one listed first,
\* as the stable sort keeps it.
last_event(entries) ==
  LET dated == { i \in DOMAIN entries : entries[i].date # None /\ entries[i].type # None }
      Before(i, j) == entries[i].date > entries[j].date
                        \/ (entries[i].date = entries[j].date /\ i <= j)
  IN  IF dated = {} THEN None
      ELSE map_event_type(entries[CHOOSE i \in dated : \A j \in dated : Before(i, j)].type)
=============================================================================
