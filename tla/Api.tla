-------------------------------- MODULE Api --------------------------------
(***************************************************************************)
(* The HTTP API (src/src/api.rs) over the cluster state of RaftNode.       *)
(*                                                                         *)
(* HttpApi owns the StateStore it was made with: a copy, which does not    *)
(* follow what the node commits afterwards.  Its handlers only read.       *)
(*                                                                         *)
(* A request is [method, route, name].  The route is the path up to and    *)
(* including the prefix "/v1/job/" for route "job" (and then name is what  *)
(* follows), or the whole path.  A job name, and so a key of RaftNode, is  *)
(* a sequence of units of which Prefix is the text "/v1/job/" itself, <<>> *)
(* the empty name.  A response is [status, body]; its body is a table, the *)
(* entities it lists, or None where it is a fixed text.                    *)
(***************************************************************************)
EXTENDS RaftNode

CONSTANTS
  NamePart,  \* what names are made of
  Prefix,
  None

\* No entity passes validate() with an empty name or id.
ASSUME ApiAssumption == \A name \in Key : name \in Seq(NamePart) /\ name # <<>>

VARIABLES
  api,   \* the copy HttpApi holds, or None
  apiAt  \* history: the number of commands that were committed when it was made

apiVars == <<api, apiAt>>

ListRoute ==
  [r \in {"/v1/jobs", "/v1/evaluations", "/v1/allocations", "/v1/nodes"} |->
     CASE r = "/v1/jobs" -> "jobs" [] r = "/v1/evaluations" -> "evals"
       [] r = "/v1/allocations" -> "allocs" [] r = "/v1/nodes" -> "nodes"]

\* Routes that answer with a fixed text.
FixedRoute ==
  {"/v1/agent", "/v1/agent/members", "/v1/agent/self", "/v1/status/leader",
   "/v1/status/peers", "/v1/operator/raft/configuration"}

NoEntity == [k \in {} |-> {}]

Ok(body) == [status |-> 200, body |-> body]
BadRequest == [status |-> 400, body |-> None]
NotFound == [status |-> 404, body |-> None]

----------------------------------------------------------------------------
(* The handlers, given what the API holds.                                 *)

HandleList(s, table) == Ok(IF s = None THEN NoEntity ELSE s[table])

\* trim_start_matches: the prefix is taken off as often as it is there.
TrimPrefix(path) ==
  LET first == CHOOSE i \in 1 .. Len(path) + 1 :
                 /\ i <= Len(path) => path[i] # Prefix
                 /\ \A j \in 1 .. (i - 1) : path[j] = Prefix
  IN  SubSeq(path, first, Len(path))

HandleGetJob(s, name) ==
  IF name = <<>> THEN BadRequest
  ELSE IF s = None THEN NotFound
  ELSE IF name \notin DOMAIN s.jobs THEN NotFound
  ELSE Ok([k \in {name} |-> s.jobs[name]])

Handle(s, request) ==
  IF request.method # "GET" THEN NotFound
  ELSE IF request.route \in DOMAIN ListRoute THEN HandleList(s, ListRoute[request.route])
  ELSE IF request.route = "job" THEN HandleGetJob(s, TrimPrefix(<<Prefix>> \o request.name))
  ELSE IF request.route \in FixedRoute THEN Ok(None)
  ELSE NotFound

----------------------------------------------------------------------------
(* The node with an API beside it.                                         *)

ApiInit == NodeInit /\ api = None /\ apiAt = 0

\* Faulty variant: the API is given a store without evaluations.
NewApiPartial ==
  /\ api' = [state EXCEPT !.evals = NoEntity]
  /\ apiAt' = Len(log)
  /\ UNCHANGED nodeVars

\* HttpApi::new with a copy of the present state.
NewApi ==
  /\ api' = state
  /\ apiAt' = Len(log)
  /\ UNCHANGED nodeVars

\* A node step; when the process ends, so does the API.
NodeStep ==
  \/ NodeNext /\ UNCHANGED apiVars
  \/ SaveCrash /\ api' = None /\ apiAt' = 0

ApiNext == NewApi \/ NodeStep

\* The node and the API by themselves.
ApiSpec == ApiInit /\ [][ApiNext]_<<nodeVars, apiVars>>

----------------------------------------------------------------------------
(* Properties.                                                             *)

Get(route, name) == Handle(api, [method |-> "GET", route |-> route, name |-> name])

\* Whatever the API answers about the cluster, all its answers together were
\* true at one moment, the one it was made at, however the node goes on: no
\* list is older or newer than another, and GET /v1/job/{name} finds just the
\* jobs that are listed, with the content they are listed with.  (The answers
\* do not become true again: "Shared cluster state" is a copy.)  Excepted are
\* names that themselves begin with "/v1/job/", which the route takes off
\* again.
AnswersOfOneMoment ==
  /\ api # None =>
       /\ apiAt <= Len(log)
       /\ \A r \in DOMAIN ListRoute : Get(r, <<>>).body = Replay(log)[apiAt][ListRoute[r]]
  /\ \A name \in Key :
       Head(name) # Prefix =>
         LET listed == Get("/v1/jobs", <<>>).body IN
         Get("job", name) = IF name \in DOMAIN listed
                              THEN Ok([k \in {name} |-> listed[name]]) ELSE NotFound

============================================================================
