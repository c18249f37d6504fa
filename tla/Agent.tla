------------------------------- MODULE Agent -------------------------------
(***************************************************************************)
(* The program's entry point: main builds the configuration (src/src/      *)
(* main.rs, config.rs) and runs an Agent (agent.rs), which owns a Client   *)
(* (client.rs) and a Server (server.rs) and waits for a signal.            *)
(*                                                                         *)
(* A source of settings is a function from the settings it gives to their  *)
(* texts; " " stands for a text of blanks.                                 *)
(*                                                                         *)
(* Agent::run does not give way before it waits for the signals, so no     *)
(* other call on the agent falls in between; the operating system delivers *)
(* signals at any time.  A signal whose handler is not installed ends the  *)
(* process.                                                                *)
(* tokio never takes a handler off again, and a stream is told of the      *)
(* signals that arrive after it was made.  main runs the agent once; a     *)
(* caller that keeps it may call run and stop in any order, and drop run   *)
(* while it waits.                                                         *)
(*                                                                         *)
(* Every run that starts something makes a server of its own, with its own *)
(* shutdown flag, and the server's scheduler worker is a task on another   *)
(* thread.  Server::stop only sets the flag and aborts the task: the       *)
(* worker goes on until it looks at the flag or awaits, while the agent is *)
(* Stopped already, or runs again with another worker.  What a worker does *)
(* in between is the subject of Server.                                    *)
(***************************************************************************)
EXTENDS Integers, Sequences

CONSTANTS
  FileText, EnvText, CliText,  \* the sources main may be started with
  MaxRuns                      \* bound: calls of run() that start something

Setting ==
  {"data_dir", "log_dir", "log_level", "bind_addr", "datacenter", "node_name", "region"}

\* There is no flag for the datacenter.
Flag == Setting \ {"datacenter"}

LogLevel == {"error", "warn", "info", "debug", "trace"}

Unknown == "unknown"

\* In the order their handlers are installed.
Signal == <<"SIGINT", "SIGTERM", "SIGHUP">>

VARIABLES
  input,      \* [file, env, cli]: what main is started with; file is [is, text],
              \* "none" (no --config), "broken" (unreadable or not TOML) or "toml"
  config,     \* what main made of it
  pc,         \* "main", "idle" (run is not in progress), "registering", "waiting",
              \* "ended"
  exit,       \* how the process ended: "", "error" or the signal that killed it
  status,     \* Agent.status
  client_status,  \* the status of Agent.client, "none" if there is none
  server_status,  \* that of Agent.server
  worker,     \* worker[r]: where the worker of the r-th run is: "flag" (about to look
              \* at the flag), "lap" (past it), "asleep", "ended"
  cancelled,  \* the runs whose server was stopped: flag set and worker aborted
  installed,  \* signals that have a handler
  streams,    \* the signals run listens to
  pending     \* those it was sent and has not received

agentVars ==
  <<input, config, pc, exit, status, client_status, server_status, worker, cancelled,
    installed, streams, pending>>

lifeVars ==
  <<status, client_status, server_status, worker, cancelled, installed, streams, pending>>

\* The sub-agents and the workers.
partVars == <<status, client_status, server_status, worker, cancelled>>

----------------------------------------------------------------------------
(* Configuration.                                                          *)

\* Config::default(); the node name is the host's.
Default ==
  [data_dir |-> "/opt/nomad/data", log_dir |-> "/opt/nomad/log", log_level |-> "info",
   bind_addr |-> "0.0.0.0:4646", datacenter |-> "dc1", node_name |-> "localhost",
   region |-> "global"]

\* to_lowercase()
Lower(text) ==
  CASE text = "DEBUG" -> "debug" [] text = "Warning" -> "warning" [] OTHER -> text

\* LogLevel::parse
Parse(text) ==
  IF Lower(text) = "warning" THEN "warn"
  ELSE IF Lower(text) \in LogLevel THEN Lower(text) ELSE Unknown

\* Whether Config::from_file returns Ok: no setting is unknown, and a level
\* must be spelled as it is.
FileLoads(file) ==
  /\ file.is = "toml"
  /\ DOMAIN file.text \subseteq Setting
  /\ "log_level" \in DOMAIN file.text => file.text["log_level"] \in LogLevel

\* What it returns then: a setting the file leaves out has its default.
FromFile(text) == [s \in Setting |-> IF s \in DOMAIN text THEN text[s] ELSE Default[s]]

\* Faulty variant: the variable of a setting that the file gives is ignored.
MergeEnvUnderFile(c, env) ==
  [s \in Setting |->
     IF s \notin DOMAIN env \/ c[s] # Default[s] THEN c[s]
     ELSE IF s = "log_level" THEN (IF Parse(env[s]) = Unknown THEN c[s] ELSE Parse(env[s]))
     ELSE env[s]]

\* Config::merge_env; a level nobody knows is passed over.
MergeEnv(c, env) ==
  [s \in Setting |->
     IF s \notin DOMAIN env THEN c[s]
     ELSE IF s = "log_level" THEN (IF Parse(env[s]) = Unknown THEN c[s] ELSE Parse(env[s]))
     ELSE env[s]]

\* Config::merge_cli, and main's parsing of the level.
MergeCli(c, cli) ==
  [s \in Setting |->
     IF s \notin Flag \cap DOMAIN cli THEN c[s]
     ELSE IF s = "log_level" THEN (IF Parse(cli[s]) = Unknown THEN c[s] ELSE Parse(cli[s]))
     ELSE cli[s]]

\* Config::validate
Validate(c) == c["bind_addr"] \notin {"", " "} /\ c["data_dir"] # ""

----------------------------------------------------------------------------
(* The process.                                                            *)

AgentInit ==
  /\ input \in [file : FileText, env : EnvText, cli : CliText]
  /\ config = Default
  /\ pc = "main"
  /\ exit = ""
  /\ status = "Initialized"
  /\ client_status = "none" /\ server_status = "none" /\ worker = <<>> /\ cancelled = {}
  /\ installed = {} /\ streams = {} /\ pending = {}

\* main up to Agent::new.
Main ==
  /\ pc = "main"
  /\ LET base == IF input.file.is = "none" THEN Default ELSE FromFile(input.file.text)
         merged == MergeCli(MergeEnv(base, input.env), input.cli)
         ok == (input.file.is # "none" => FileLoads(input.file)) /\ Validate(merged)
     IN  /\ pc' = IF ok THEN "idle" ELSE "ended"
         /\ exit' = IF ok THEN "" ELSE "error"
         /\ config' = IF ok THEN merged ELSE config
  /\ UNCHANGED <<input, lifeVars>>

\* Agent::run up to the first handler: a client, and a server that spawns its
\* worker.  When the agent runs already, it returns at once.
RunAgent ==
  /\ pc = "idle" /\ status # "Running"
  /\ Len(worker) < MaxRuns
  /\ client_status' = "Running"
  /\ server_status' = "Running"
  /\ worker' = Append(worker, "flag")
  /\ status' = "Running"
  /\ pc' = "registering"
  /\ UNCHANGED <<input, config, exit, cancelled, installed, streams, pending>>

\* signal(kind), in the order of the code.
Register ==
  /\ pc = "registering"
  /\ LET s == CHOOSE x \in {Signal[i] : i \in DOMAIN Signal} \ streams :
                \E i \in DOMAIN Signal :
                  x = Signal[i] /\ \A j \in 1 .. (i - 1) : Signal[j] \in streams
     IN  /\ installed' = installed \cup {s}
         /\ streams' = streams \cup {s}
         /\ pc' = IF s = "SIGHUP" THEN "waiting" ELSE pc
  /\ UNCHANGED <<input, config, exit, partVars, pending>>

\* Registration fails, or the future is dropped while it waits: run is left
\* as it is, and the streams are gone.
RunBroken ==
  /\ pc \in {"registering", "waiting"}
  /\ pc' = "idle"
  /\ streams' = {}
  /\ pending' = {}
  /\ UNCHANGED <<input, config, exit, partVars, installed>>

\* Agent::stop: Client::stop, and Server::stop, which tells the worker and does
\* not wait for it.
StopBoth ==
  /\ client_status' = IF status = "Running" THEN "Stopped" ELSE client_status
  /\ server_status' = IF status = "Running" THEN "Stopped" ELSE server_status
  /\ cancelled' = IF status = "Running" THEN cancelled \cup {Len(worker)} ELSE cancelled
  /\ status' = "Stopped"
  /\ UNCHANGED worker

\* Faulty variant: SIGHUP is left for a reload that nobody wrote.
ShutdownOnlyTwo == pending \cap {"SIGINT", "SIGTERM"} # {}

ShutdownSignal == pending # {}

\* The select of run has a signal; run stops the agent and returns.
Shutdown ==
  /\ pc = "waiting" /\ ShutdownSignal
  /\ StopBoth
  /\ pc' = "idle"
  /\ streams' = {}
  /\ pending' = {}
  /\ UNCHANGED <<input, config, exit, installed>>

\* stop(), called when run is not in progress.
StopAgent ==
  /\ pc = "idle"
  /\ StopBoth
  /\ UNCHANGED <<input, config, pc, exit, installed, streams, pending>>

\* A signal arrives: it ends the process, is noted for the stream of run that
\* listens to it, or is swallowed.
Deliver(s) ==
  /\ pc # "ended"
  /\ pc' = IF s \in installed THEN pc ELSE "ended"
  /\ exit' = IF s \in installed THEN exit ELSE s
  /\ pending' = IF s \in streams THEN pending \cup {s} ELSE pending
  /\ UNCHANGED <<input, config, partVars, installed, streams>>

\* The worker of the r-th run gets to the position at, unless it was cancelled.
Proceed(r, at) == worker' = [worker EXCEPT ![r] = IF r \in cancelled THEN "ended" ELSE at]

\* Faulty variant: the worker gives up when there is nothing to do.
FinishUntilEmpty(r) == worker' \in {[worker EXCEPT ![r] = "flag"], [worker EXCEPT ![r] = "ended"]}

\* A lap ends at the flag again, when there was an evaluation to deal with, or
\* in the sleep, where an abort takes effect.
FinishLap(r) == worker' = [worker EXCEPT ![r] = "flag"] \/ Proceed(r, "asleep")

\* A step of that worker.
WorkerStep(r) ==
  /\ pc # "ended"
  /\ \/ worker[r] = "flag" /\ Proceed(r, "lap")
     \/ worker[r] = "lap" /\ FinishLap(r)
     \/ worker[r] = "asleep" /\ Proceed(r, "flag")
  /\ UNCHANGED <<input, config, pc, exit, status, client_status, server_status, cancelled,
                 installed, streams, pending>>

AgentNext ==
  \/ Main \/ RunAgent \/ Register \/ RunBroken \/ Shutdown \/ StopAgent
  \/ \E i \in DOMAIN Signal : Deliver(Signal[i])
  \/ \E r \in DOMAIN worker : WorkerStep(r)

\* The process by itself.
AgentSpec == AgentInit /\ [][AgentNext]_agentVars

----------------------------------------------------------------------------
(* Properties.                                                             *)

\* Whether the source gives the setting in a way that is to be used.
Gives(source, s) ==
  s \in DOMAIN source /\ (s = "log_level" => Parse(source[s]) # Unknown)

\* The value of the strongest source that gives the setting.
Effective(s) ==
  LET level(text) == IF s = "log_level" THEN Parse(text) ELSE text IN
  IF s \in Flag /\ Gives(input.cli, s) THEN level(input.cli[s])
  ELSE IF Gives(input.env, s) THEN level(input.env[s])
  ELSE IF input.file.is = "toml" /\ s \in DOMAIN input.file.text THEN input.file.text[s]
  ELSE Default[s]

\* "Builds a Config (defaults -> file -> env -> CLI flags)": an agent is run
\* only with every setting from the strongest source that gives a usable
\* one, and main refuses to start exactly when the file does not load or
\* what won in the end is no address or no directory, whatever weaker
\* sources say.
Precedence ==
  (pc # "main" /\ exit \in {"", "error"}) =>
    /\ exit = "" => \A s \in Setting : config[s] = Effective(s)
    /\ exit = "error" <=>
         \/ input.file.is # "none" /\ ~FileLoads(input.file)
         \/ Effective("bind_addr") \in {"", " "} \/ Effective("data_dir") = ""

\* The agent's status is that of its parts, however run, failed or dropped
\* runs, stop, signals and workers follow each other: while it is Running,
\* client and server run, and of all the workers of all its runs just that of
\* the present server is not cancelled, and it goes on; otherwise neither
\* runs, and every worker is cancelled.  (Cancelled, not gone: stop() does not
\* wait, so a worker of an earlier run may still be at work.)
StatusOfAll ==
  LET serving == DOMAIN worker \ cancelled IN
  /\ IF status = "Running"
       THEN client_status = "Running" /\ server_status = "Running" /\ serving = {Len(worker)}
       ELSE client_status # "Running" /\ server_status # "Running" /\ serving = {}
  /\ \A r \in serving : worker[r] # "ended"

\* A signal that run listens to is not lost, not even one that arrives while
\* the other handlers are being installed: the agent is stopped and run
\* returns, or run is dropped, or another signal kills the process first.
SignalEnds == pending # {} ~> (pending = {} \/ pc = "ended")

============================================================================
