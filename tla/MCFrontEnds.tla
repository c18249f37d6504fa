---------------------------- MODULE MCFrontEnds ----------------------------
(***************************************************************************)
(* What a server shows to the outside: the HTTP API over the consensus     *)
(* node's state (Api, RaftNode), the RPC connections (RpcWire), the TLS    *)
(* configurations for them (Tls), and the launch times of a periodic job   *)
(* (Periodic); and what servers are started by: the in-process cluster of  *)
(* the integration tests (Cluster) and the agent process (Agent).  They    *)
(* share no state, so a behaviour moves only one of them: the part it      *)
(* starts with.                                                            *)
(*                                                                         *)
(* Two keys in each table, one of them a job name that begins with the     *)
(* route's own prefix; a valid body and an invalid one, and a second valid *)
(* one, so that an upsert can overwrite.                                   *)
(*                                                                         *)
(* In the part "config" main is started with one setting given by some of  *)
(* the three sources: the settings do not influence each other.  A file    *)
(* may also give one that nobody knows.  The part "agent" goes on from the *)
(* defaults: what runs afterwards does not depend on the settings.         *)
(***************************************************************************)
EXTENDS Api, RpcWire, Tls, Periodic, Cluster, Agent

CONSTANTS good, other, invalid, c1, b1, b2

VARIABLE part

MCPrefix == "/v1/job/"
MCNamePart == {MCPrefix, "web"}
MCKey == {<<"web">>, <<MCPrefix, "web">>}
MCBody == {good, other, invalid}
MCValid == {good, other}
MCConn == {c1}
MCBuilder == {b1, b2}
MCGeneration == {1, 2}
MCSchedule == {Unparsable, {}, {2, 3, 5}, {1, 6}}

Text(s) ==
  IF s = "log_level" THEN {"error", "DEBUG", "Warning", "loud"} ELSE {"", " ", "x", "y"}

Source == {[x \in {} |-> ""]} \cup UNION {{[x \in {s} |-> v] : v \in Text(s)} : s \in Setting}

MCFileText ==
  {[is |-> "none", text |-> [x \in {} |-> ""]], [is |-> "broken", text |-> [x \in {} |-> ""]]}
    \cup {[is |-> "toml", text |-> f] : f \in Source \cup {[x \in {"colour"} |-> "red"]}}

\* The sources give one setting between them, or none.
OneSetting ==
  \A f, g \in {DOMAIN input.file.text, DOMAIN input.env, DOMAIN input.cli} :
    f = {} \/ g = {} \/ f = g

\* No source but the defaults.
NoSource == input.file.is = "none" /\ input.env = input.file.text /\ input.cli = input.file.text

vars == <<part, nodeVars, apiVars, wireVars, tlsVars, periodicVars, clusterVars, agentVars>>

Init ==
  /\ part \in {"state", "wire", "tls", "periodic", "cluster", "config", "agent"}
  /\ ApiInit /\ WireInit /\ TlsInit /\ PeriodicInit /\ ClusterInit /\ AgentInit
  /\ (part # "tls" => files["cert"] = 1) /\ (part # "periodic" => schedule = Unparsable)
  /\ OneSetting /\ (part # "config" => NoSource)

StateStep ==
  /\ part = "state" /\ ApiNext
  /\ UNCHANGED <<part, wireVars, tlsVars, periodicVars, clusterVars, agentVars>>

WireOnly == part = "wire" /\ UNCHANGED <<part, nodeVars, apiVars, tlsVars, periodicVars, clusterVars, agentVars>>

WireStep == WireNext /\ WireOnly

TlsStep ==
  /\ part = "tls" /\ TlsNext
  /\ UNCHANGED <<part, nodeVars, apiVars, wireVars, periodicVars, clusterVars, agentVars>>

PeriodicStep ==
  /\ part = "periodic" /\ PeriodicNext
  /\ UNCHANGED <<part, nodeVars, apiVars, wireVars, tlsVars, clusterVars, agentVars>>

ClusterStep ==
  /\ part = "cluster" /\ ClusterNext
  /\ UNCHANGED <<part, nodeVars, apiVars, wireVars, tlsVars, periodicVars, agentVars>>

AgentOnly ==
  part = "agent" /\ UNCHANGED <<part, nodeVars, apiVars, wireVars, tlsVars, periodicVars, clusterVars>>

AgentStep ==
  \/ AgentNext /\ AgentOnly
  \/ /\ part = "config" /\ Main
     /\ UNCHANGED <<part, nodeVars, apiVars, wireVars, tlsVars, periodicVars, clusterVars>>

\* A task that can go on is scheduled again, and TCP delivers; run() goes on to
\* its end once a signal has come.
Fairness ==
  /\ \A k \in Conn :
       /\ WF_vars(ClientStep(k) /\ WireOnly)
       /\ WF_vars(ServerStep(k) /\ WireOnly)
       /\ WF_vars(Accept(k) /\ WireOnly)
  /\ WF_vars(Register /\ AgentOnly)
  /\ WF_vars(Shutdown /\ AgentOnly)

Spec == Init /\ [][StateStep \/ WireStep \/ TlsStep \/ PeriodicStep \/ ClusterStep \/ AgentStep]_vars /\ Fairness

============================================================================
