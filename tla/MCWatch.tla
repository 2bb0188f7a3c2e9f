------------------------------- MODULE MCWatch -------------------------------
(***************************************************************************)
(* Instances of Watch for TLC.  A tick is half a day: DayLength 2, the      *)
(* stall deadline and the notice gap (24 hours each) 2 ticks.               *)
(***************************************************************************)
EXTENDS Watch

Approved(queue) ==
  [request_status |-> 2, media_status |-> 3, arr_id |-> TRUE, queue_item |-> queue,
   seasons |-> {}]
NotYetHandedOver == [Approved(None) EXCEPT !.arr_id = FALSE]
HandOverFailed == [NotYetHandedOver EXCEPT !.request_status = FAILED]
\* Radarr has the film from an earlier request and can be asked about it.
HandOverFailedAgain == [Approved(None) EXCEPT !.request_status = FAILED]

\* One film.
MCFilm == <<"movie">>
MCCreated1 == <<0>>

\* A film and a series.
MCFilmAndSeries == <<"movie", "tv">>
MCCreated2 == <<0, 0>>

\* Releases in one language, too large or not; German is what is wanted.
Offer(languages, patterns) ==
  [rejected |-> TRUE, languages |-> languages, patterns |-> patterns]
German == Offer(<<"German">>, {"too_large"})
French == Offer(<<"French">>, {})
Danish == Offer(<<"Danish">>, {})
MCWanted1 == <<{"German"}>>
MCWanted2 == <<{"German"}, None>>
\* A film in two languages nobody wants, in either order; then in German.
MCOffers == { <<French, Danish>>, <<Danish, French>>, <<French, German>> }
MCOneOffer == { <<French, German>> }

AnswersSearching == {Approved(None)}
\* Imports that hang, downloads that fail, hand-overs that fail.
AnswersTroubled ==
  {Approved(None), Approved("ImportStuck"), HandOverFailed, HandOverFailedAgain}
MCEvents == {None, "DownloadFailed"}

Episode(n, air, file) ==
  [number |-> n, season |-> 1, monitored |-> TRUE, air_date |-> air, has_file |-> file]

\* One episode on file, one that airs on the first day and never comes.
MCShows == { [monitored_seasons |-> {1}, episodes |-> {Episode(1, 0, TRUE), Episode(2, 1, FALSE)}] }
=============================================================================
