------------------------------ MODULE Settings ------------------------------
(***************************************************************************)
(* What the process is started with (src/config.rs, src/tls.rs, and the    *)
(* start of src/main.rs): which configurations are accepted, which secrets  *)
(* are read, which clients and tasks come of them.                          *)
(*                                                                          *)
(* A configuration is a record with the fields of the TOML file, after its  *)
(* defaults; None is an optional field or section that is absent.  Data     *)
(* abstracted: a URL is a record of its scheme, "http", "https" or "other"  *)
(* for a value that starts with neither; the content of a file is what      *)
(* reading it gives.  Integers have the width of the code.                  *)
(***************************************************************************)
EXTENDS Integers

CONSTANTS None, U64_MAX, I64_MAX

U64 == 0 .. U64_MAX

\* A year, in hours.
MAX_STALL_AFTER_HOURS == 24 * 365

-----------------------------------------------------------------------------
(* Config::load                                                             *)

\* The optional fields of [insight], where the file says nothing.
InsightDefaults ==
  [ sonarr_url |-> None, sonarr_key_file |-> None, ca_file |-> None, poll_seconds |-> 600,
    stall_after_hours |-> 24, reason_search |-> FALSE, max_reason_searches_per_day |-> 5,
    retry_failed_after_minutes |-> 10, refresh_reason_after_days |-> 7 ]

has_scheme(url) == url.scheme \in {"http", "https"}

\* A certificate to trust needs a door that shows one.
ca_file_fits(ca_file, url) == ca_file # None => url.scheme = "https"

\* The URL of Sonarr and the file of its key come together or not at all.
validate_insight(insight) == (insight.sonarr_url = None) <=> (insight.sonarr_key_file = None)

\* The doors a credential is sent to, each with the certificates for it.
InsightDoors(insight) ==
  { [url |-> insight.radarr_url, ca_file |-> insight.ca_file] } \cup
  (IF insight.sonarr_url = None THEN {}
   ELSE { [url |-> insight.sonarr_url, ca_file |-> insight.ca_file] })

Doors(cfg) ==
  { [url |-> cfg.authentik_url, ca_file |-> cfg.authentik_ca_file],
    [url |-> cfg.seerr_url, ca_file |-> cfg.seerr_ca_file] } \cup
  (IF cfg.treff = None THEN {}
   ELSE { [url |-> cfg.treff.events_url, ca_file |-> cfg.treff.ca_file] }) \cup
  (IF cfg.insight = None THEN {} ELSE InsightDoors(cfg.insight))

load_accepts(cfg) ==
  /\ cfg.insight # None => validate_insight(cfg.insight)
  /\ \A door \in Doors(cfg) : has_scheme(door.url) /\ ca_file_fits(door.ca_file, door.url)

\* What the journal warns of.
plain_http(cfg) == { door.url : door \in { d \in Doors(cfg) : d.url.scheme = "http" } }

-----------------------------------------------------------------------------
(* Secrets::read, and tls::client                                           *)

\* A secret file that cannot be read ends the start; an empty one does not.
SecretFiles(cfg) ==
  { cfg.signal_account_file, cfg.authentik_token_file, cfg.seerr_key_file,
    cfg.webhook_token_file } \cup
  (IF cfg.treff = None THEN {} ELSE {cfg.treff.token_file}) \cup
  (IF cfg.insight = None THEN {}
   ELSE {cfg.insight.radarr_key_file} \cup ({cfg.insight.sonarr_key_file} \ {None}))

radarr_key(cfg) == IF cfg.insight = None THEN None ELSE cfg.insight.radarr_key_file
sonarr_key(cfg) == IF cfg.insight = None THEN None ELSE cfg.insight.sonarr_key_file

\* The certificates of a client: those in its file and no other, or the
\* system's.  A file that is not there, is not PEM, holds no certificate or none
\* that can be used gives none, and a client that trusts nobody is not built.
client_trusts(ca_file, in_file, system) ==
  IF ca_file = None THEN system ELSE in_file[ca_file]

-----------------------------------------------------------------------------
(* watch_settings: counts of a file into spans of time                      *)

\* i64::try_from and a filter; None is the error that ends the start.
at_most(count, bound) == IF count <= I64_MAX /\ count <= bound THEN count ELSE None

\* Zero switches it off.
unless_zero(count) == IF count > 0 THEN count ELSE None

\* Spans in hours, minutes and days.
WatchSettings ==
  [ stall_after : Nat, max_searches_per_day : Nat, retry_failed_after : Nat \cup {None},
    refresh_reason_after : Nat \cup {None} ]

watch_settings(insight) ==
  LET hours   == at_most(insight.stall_after_hours, MAX_STALL_AFTER_HOURS)
      minutes == at_most(insight.retry_failed_after_minutes, MAX_STALL_AFTER_HOURS * 60)
      days    == at_most(insight.refresh_reason_after_days, MAX_STALL_AFTER_HOURS \div 24)
  IN  IF None \in {hours, minutes, days} THEN None
      ELSE [ stall_after |-> hours,
             max_searches_per_day |-> insight.max_reason_searches_per_day,
             retry_failed_after |-> unless_zero(minutes),
             refresh_reason_after |-> unless_zero(days) ]

-----------------------------------------------------------------------------
(* insight_parts, and the start of main                                     *)

\* Option::zip.
zip(a, b) == IF a = None \/ b = None THEN None ELSE <<a, b>>

\* What [insight] adds.  A notices file that cannot be read leaves out the
\* watcher and nothing else.
insight_parts(cfg, notices_readable) ==
  IF cfg.insight = None THEN [insight |-> None, watcher |-> None]
  ELSE LET arr == [ radarr |-> <<cfg.insight.radarr_url, radarr_key(cfg)>>,
                    sonarr |-> zip(cfg.insight.sonarr_url, sonarr_key(cfg)) ]
       IN [ insight |-> arr,
            watcher |-> IF ~notices_readable THEN None
                        ELSE [ search |-> cfg.insight.reason_search,
                               settings |-> watch_settings(cfg.insight) ] ]

\* Whether the start gets past all that can stop it, up to the first task.
\* `fs` is what the start finds: the secret files that can be read, the
\* certificates of files and system, the socket, the state file.
starts(cfg, fs) ==
  /\ load_accepts(cfg)
  /\ SecretFiles(cfg) \subseteq fs.secrets
  /\ \A door \in Doors(cfg) : client_trusts(door.ca_file, fs.in_file, fs.system) # {}
  /\ fs.socket /\ fs.state_loads
  /\ cfg.insight # None => watch_settings(cfg.insight) # None
=============================================================================
