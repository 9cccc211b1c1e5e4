------------------------------- MODULE Startup -------------------------------
(***************************************************************************)
(* From a configuration file and an environment to a running process: Load *)
(* layers defaults, YAML and environment and validates the result, Build   *)
(* opens the sinks and asks the bind policy, Serve starts the sweeper and  *)
(* the two listeners, shutdown undoes it.  Each step that can fail may     *)
(* fail.  The operator edits file and environment between starts: a        *)
(* running process has read both and does not look again.                  *)
(***************************************************************************)
EXTENDS Integers, Sequences

CONSTANTS
  Unset,       \* an absent key or variable
  Empty,       \* the empty string
  Bad,         \* text that does not parse as the setting's type
  YAMLValues,  \* what the operator may write for a key of the file
  EnvValues    \* what the operator may write for a variable

Timeouts == {"read_header", "read", "write", "idle"}
Caps == {"body_cap", "max_events_payload", "max_events_per_batch"}
SinkFlags == {"stdout", "memory", "sqlite"}

\* Settings are keyed by the last part of their YAML path.  "unknown_key" holds
\* the section in which the file has a key that Config does not know.
Settings ==
  Timeouts \cup Caps \cup SinkFlags \cup
  {"capture_port", "capture_bind", "queue_size", "workers", "service_header",
   "log_format", "memory_capacity", "sqlite_path", "max_age", "max_count",
   "interval", "redaction", "admin_bind", "token", "insecure_listen",
   "session_ttl", "session_secure", "query_timeout"}
Keys == Settings \cup {"unknown_key"}
Variables == (Settings \ (SinkFlags \cup {"redaction"})) \cup {"sinks"}

\* Numbers and durations are told apart by their sign only; 65535 is a port.
Defaults ==
  [s \in Settings |->
     CASE s \in {"capture_bind", "token"} -> Empty
       [] s \in {"max_age", "max_count", "interval"} -> 0
       [] s \in SinkFlags \cup {"insecure_listen", "session_secure"} -> FALSE
       [] s \in {"service_header", "sqlite_path"} -> "default"
       [] s = "log_format" -> "text"
       [] s = "admin_bind" -> "loopback"
       [] s = "redaction" -> "none"
       [] OTHER -> 1]

\* The steps of NewSQLiteSink that can fail, and the handles each leaves open:
\* sql.Open follows the second.
OpenSteps == <<"directory", "file", "ping", "pragmas", "sidecars", "schema",
               "request statement", "event statement">>
Opened(i) ==
  {h \in {"db", "stmtRequest", "stmtEvent"} :
     i >= CASE h = "db" -> 2 [] h = "stmtRequest" -> 7 [] h = "stmtEvent" -> 8}

VARIABLES
  yaml, env,   \* the file and the environment
  phase,       \* where main is; "down" when no process runs
  step,        \* the step of NewSQLiteSink that comes next
  cfg,         \* the Config that Load returned
  handles,     \* open handles of the SQLite sink
  listeners,   \* open listeners
  sweeper,     \* the retention sweeper runs
  warnings     \* what EmitStartupWarnings logged

vars == <<yaml, env, phase, step, cfg, handles, listeners, sweeper, warnings>>

Init ==
  /\ yaml = [k \in Keys |-> Unset]
  /\ env = [v \in Variables |-> Unset]
  /\ phase = "down"
  /\ step = 1
  /\ cfg = Defaults
  /\ handles = {}
  /\ listeners = {}
  /\ sweeper = FALSE
  /\ warnings = {}

-----------------------------------------------------------------------------
(* Load *)

\* The sections whose UnmarshalYAML refuses a key it does not know.
StrictSections == {"timeouts", "retention", "redaction", "admin", "inspect"}

Unreadable ==
  \/ yaml["unknown_key"] \in StrictSections
  \/ \E k \in Keys : yaml[k] = Bad
  \/ \E v \in Variables : env[v] = Bad
  \/ env["sinks"] # Unset /\ ~ (env["sinks"] \subseteq SinkFlags)

Absent(v) == env[v] \in {Unset, Empty}

\* A pointer that is nil leaves the default.
applyRaw(c) == [s \in Settings |-> IF yaml[s] = Unset THEN c[s] ELSE yaml[s]]

\* HTTPCATCH_SINKS speaks for the three sinks at once; redaction has no variable.
applyEnv(c) ==
  [s \in Settings |->
     CASE s \in SinkFlags -> IF Absent("sinks") THEN c[s] ELSE s \in env["sinks"]
       [] s \in Settings \cap Variables -> IF Absent(s) THEN c[s] ELSE env[s]
       [] OTHER -> c[s]]

Layered ==
  LET c == applyEnv(applyRaw(Defaults)) IN
  IF c["capture_bind"] = Empty THEN [c EXCEPT !["capture_bind"] = "any"] ELSE c

Validate(c) ==
  /\ c["capture_port"] \in 1..65535
  /\ c["capture_bind"] # "malformed"
  /\ \A s \in {"queue_size", "workers", "memory_capacity", "session_ttl"} : c[s] >= 1
  /\ \A s \in Caps \cup Timeouts \cup {"max_age", "max_count", "interval", "query_timeout"} :
       c[s] >= 0
  /\ c["sqlite"] => c["sqlite_path"] # Empty
  /\ ~ (c["max_age"] > 0 /\ c["max_count"] > 0)
  /\ (\E s \in {"max_age", "max_count", "interval"} : c[s] > 0) => c["sqlite"]
  /\ c["log_format"] \in {"text", "json"}

Edit ==
  /\ phase = "down"
  /\ \/ \E k \in DOMAIN YAMLValues : \E x \in YAMLValues[k] :
          yaml' = [yaml EXCEPT ![k] = x] /\ UNCHANGED env
     \/ \E v \in DOMAIN EnvValues : \E x \in EnvValues[v] :
          env' = [env EXCEPT ![v] = x] /\ UNCHANGED yaml
  /\ UNCHANGED <<phase, step, cfg, handles, listeners, sweeper, warnings>>

\* A new process; what the last one held is gone.  When Load returns an error
\* main exits at once and nothing has changed.
Load ==
  /\ phase = "down"
  /\ ~Unreadable
  /\ Validate(Layered)
  /\ cfg' = Layered
  /\ phase' = "sinks"
  /\ handles' = {}
  /\ warnings' = {}
  /\ UNCHANGED <<yaml, env, step, listeners, sweeper>>

-----------------------------------------------------------------------------
(* Build *)

Exit ==
  /\ phase' = "down"
  /\ step' = 1
  /\ cfg' = Defaults

\* Mutant: the last error path closes the database but not the statement.
OpenFails_KeepsStatement ==
  /\ phase = "sinks" /\ cfg["sqlite"]
  /\ handles' = handles \ {"db"}
  /\ Exit
  /\ UNCHANGED <<yaml, env, listeners, sweeper, warnings>>

OpenFails ==
  /\ phase = "sinks" /\ cfg["sqlite"]
  /\ handles' = {}
  /\ Exit
  /\ UNCHANGED <<yaml, env, listeners, sweeper, warnings>>

OpenStep ==
  /\ phase = "sinks" /\ cfg["sqlite"]
  /\ handles' = Opened(step)
  /\ IF step = Len(OpenSteps) THEN step' = 1 /\ phase' = "ruleset"
                              ELSE step' = step + 1 /\ UNCHANGED phase
  /\ UNCHANGED <<yaml, env, cfg, listeners, sweeper, warnings>>

NoSQLite ==
  /\ phase = "sinks" /\ ~cfg["sqlite"]
  /\ phase' = "ruleset"
  /\ UNCHANGED <<yaml, env, step, cfg, handles, listeners, sweeper, warnings>>

\* An error leaves the SQLite sink to the end of the process.
NewRuleset ==
  /\ phase = "ruleset"
  /\ IF cfg["redaction"] = "invalid"
       THEN Exit
       ELSE phase' = "admin" /\ UNCHANGED <<step, cfg>>
  /\ UNCHANGED <<yaml, env, handles, listeners, sweeper, warnings>>

\* Mutant: the opt-in is taken for a permission of its own.
Guard_InsecureOnly(c) ==
  CASE c["admin_bind"] = "malformed" -> "refused"
    [] c["admin_bind"] = "loopback" -> "loopback-default"
    [] OTHER -> "insecure-mode"

\* The bind policy: the reason to allow the address, or "refused".
Guard(c) ==
  CASE c["admin_bind"] = "malformed" -> "refused"
    [] c["admin_bind"] = "loopback" -> "loopback-default"
    [] c["token"] # Empty -> "token-configured"
    [] c["insecure_listen"] -> "insecure-mode"
    [] OTHER -> "refused"

NewAdmin ==
  /\ phase = "admin"
  /\ IF Guard(cfg) = "refused" THEN Exit ELSE phase' = "built" /\ UNCHANGED <<step, cfg>>
  /\ UNCHANGED <<yaml, env, handles, listeners, sweeper, warnings>>

Warn(w, condition) == IF condition THEN {w} ELSE {}

EmitStartupWarnings ==
  /\ phase = "built"
  /\ phase' = "serve"
  /\ warnings' =
       Warn("zero sinks", \A s \in SinkFlags : ~cfg[s]) \cup
       Warn("unredacted", cfg["redaction"] = "none") \cup
       {s \in Caps : cfg[s] = 0} \cup
       Warn("plaintext cookie", Guard(cfg) = "token-configured" /\ ~cfg["session_secure"])
  /\ UNCHANGED <<yaml, env, step, cfg, handles, listeners, sweeper>>

-----------------------------------------------------------------------------
(* Serve *)

Policy(c) == c["max_age"] > 0 \/ c["max_count"] > 0

StartSweeper ==
  /\ phase = "serve"
  /\ phase' = "listen"
  /\ sweeper' = (cfg["sqlite"] /\ Policy(cfg))
  /\ UNCHANGED <<yaml, env, step, cfg, handles, listeners, warnings>>

ListenCapture ==
  /\ phase = "listen"
  /\ \/ phase' = "serving" /\ listeners' = {"capture"}
     \/ phase' = "unheard" /\ UNCHANGED listeners
  /\ UNCHANGED <<yaml, env, step, cfg, handles, sweeper, warnings>>

\* The admin server's goroutine binds its port after the capture port listens,
\* even when its context is done by then.
ListenAdmin ==
  /\ phase \in {"serving", "stopping"}
  /\ "admin" \notin listeners
  /\ listeners' = listeners \cup {"admin"}
  /\ UNCHANGED <<yaml, env, phase, step, cfg, handles, sweeper, warnings>>

\* A signal, or either server fails (the admin port may be taken): the capture
\* server is shut down, and the context of the admin server is done.
Stop ==
  /\ phase = "serving"
  /\ phase' = "stopping"
  /\ listeners' = listeners \ {"capture"}
  /\ UNCHANGED <<yaml, env, step, cfg, handles, sweeper, warnings>>

\* The admin server shuts down on its own; Serve does not wait for it.
AdminStops ==
  /\ phase = "stopping" /\ "admin" \in listeners
  /\ listeners' = listeners \ {"admin"}
  /\ UNCHANGED <<yaml, env, phase, step, cfg, handles, sweeper, warnings>>

\* The queue drains or times out, SQLite is closed, Serve returns and the
\* process ends, with the sweeper and what the admin server still has open.
shutdown ==
  /\ phase \in {"stopping", "unheard"}
  /\ Exit
  /\ handles' = {}
  /\ listeners' = {}
  /\ sweeper' = FALSE
  /\ UNCHANGED <<yaml, env, warnings>>

Next ==
  \/ Edit \/ Load
  \/ OpenStep \/ OpenFails \/ NoSQLite \/ NewRuleset \/ NewAdmin \/ EmitStartupWarnings
  \/ StartSweeper \/ ListenCapture \/ ListenAdmin \/ Stop \/ AdminStops \/ shutdown

Spec == Init /\ [][Next]_vars

-----------------------------------------------------------------------------
Loaded == phase # "down"
Serving == phase \in {"serving", "stopping"}

\* "environment variable overrides (HTTPCATCH_*) that always take precedence":
\* a variable that is set decides, a key of the file decides next, and what
\* neither sets has its default.
FromLayers ==
  \A s \in Settings \ {"capture_bind"} :
    LET v == IF s \in SinkFlags THEN "sinks" ELSE s
        set == v \in Variables /\ env[v] \notin {Unset, Empty}
    IN  cfg[s] = CASE set -> IF s \in SinkFlags THEN s \in env[v] ELSE env[v]
                   [] ~set /\ yaml[s] # Unset -> yaml[s]
                   [] OTHER -> Defaults[s]

\* What the components take for granted: a queue and workers (capture pipeline),
\* a ring of at least one place (memory sink), a positive session lifetime, and
\* at most one retention bound, with a database to trim.
Usable ==
  /\ \A s \in {"queue_size", "workers", "memory_capacity", "session_ttl"} : cfg[s] > 0
  /\ cfg["max_age"] = 0 \/ cfg["max_count"] = 0
  /\ ~cfg["sqlite"] => cfg["max_age"] = 0 /\ cfg["max_count"] = 0

\* What runs is what the operator asked for, from Load to exit.  The configuration
\* is the layers' and meets the components' assumptions.  "fail startup before any
\* listener is created": while a port is open the admin bind is loopback, or a
\* token is set, or the operator opted in.  And no retention bound is without its
\* sweeper, no sweeper without a bound.
RunningAsConfigured ==
  /\ Loaded => FromLayers /\ Usable
  /\ listeners # {} => /\ cfg["admin_bind"] # "malformed"
                       /\ \/ cfg["admin_bind"] = "loopback"
                          \/ cfg["token"] # Empty
                          \/ cfg["insecure_listen"]
  /\ phase \in {"listen", "unheard"} \/ Serving =>
       (sweeper <=> handles # {} /\ (cfg["max_age"] > 0 \/ cfg["max_count"] > 0))

\* A start that fails at any step of opening the database, a capture port that
\* cannot be bound, a server that fails and a signal all close every handle of
\* the database before the process ends.  (An error of the ruleset or of the
\* bind policy leaves them to the exit.)
CleanExit ==
  [][phase \notin {"down", "ruleset", "admin"} /\ phase' = "down" => handles' = {}]_vars

==============================================================================
