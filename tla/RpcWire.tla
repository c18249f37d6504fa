------------------------------ MODULE RpcWire ------------------------------
(***************************************************************************)
(* RPC over TCP (src/src/rpc.rs): length-prefixed frames, RpcServer with   *)
(* one task per connection, and RpcClient, one call at a time.             *)
(*                                                                         *)
(* A frame travels as three units: two halves of its length prefix and its *)
(* body.  A unit is <<n, bad, i>>: unit i of the frame of the connection's *)
(* n-th call, whose request the endpoint refuses iff bad; a response       *)
(* carries the number of the request it answers.  The streams are TCP's:   *)
(* nothing is repeated or overtaken, but a stream may end anywhere, also   *)
(* before units that are on their way (a reset).                           *)
(* What the endpoint does with a request is in Server; here it is noted    *)
(* in handled.                                                             *)
(*                                                                         *)
(* A call is an async function: whoever awaits it may drop it at any await *)
(* (a timeout, a select), leaving on the stream what was written so far,   *)
(* and use the client again.  Frames stay below MAX_FRAME; a length that   *)
(* is put together from units of two frames is any number.                 *)
(***************************************************************************)
EXTENDS Integers, SequencesExt

CONSTANTS
  Conn,     \* the connections that are made, each by an RpcClient of its own
  MaxCalls  \* bound: calls on a connection

ASSUME RpcWireAssumption == MaxCalls \in Nat

VARIABLES
  client,     \* "unused", "idle", "writing", "reading", "gone"
  call,       \* the present or last call: its number, whether its request is bad
  sent,       \* units of its frame written so far
  up, down,   \* units under way to the server and to the client
  server,     \* the task of the connection: "none", "backlog" (not accepted yet),
              \* "reading", "writing", "starved" (waiting for the rest of a frame
              \* that will never come), "ended"
  answering,  \* <<n, i>>: it has written i units of the response to request n
  listening,  \* serve() is accepting connections
  handled,    \* history: the requests the endpoint processed, in order
  result,     \* history: what each call returned: the request its response
              \* belongs to, 0 for an error or no result
  spoiled     \* history: a call was dropped after its first unit was written

wireVars ==
  <<client, call, sent, up, down, server, answering, listening, handled, result, spoiled>>

Frame(n, bad) == [i \in 1 .. 3 |-> <<n, bad, i>>]

IsFrame(s) == \E n \in 1 .. MaxCalls, bad \in BOOLEAN : s = Frame(n, bad)

\* The client will write no more; the server will write no more.
UpClosed(k) == client[k] = "gone"
DownClosed(k) == server[k] = "ended"

WireInit ==
  /\ client = [k \in Conn |-> "unused"]
  /\ call = [k \in Conn |-> [n |-> 0, bad |-> FALSE]]
  /\ sent = [k \in Conn |-> 0]
  /\ up = [k \in Conn |-> <<>>]
  /\ down = [k \in Conn |-> <<>>]
  /\ server = [k \in Conn |-> "none"]
  /\ answering = [k \in Conn |-> <<0, 0>>]
  /\ listening = TRUE
  /\ handled = [k \in Conn |-> <<>>]
  /\ result = [k \in Conn |-> [n \in 1 .. MaxCalls |-> 0]]
  /\ spoiled = [k \in Conn |-> FALSE]

----------------------------------------------------------------------------
(* RpcClient.                                                              *)

Connect(k) ==
  /\ client[k] = "unused" /\ listening
  /\ client' = [client EXCEPT ![k] = "idle"]
  /\ server' = [server EXCEPT ![k] = "backlog"]
  /\ UNCHANGED <<call, sent, up, down, answering, listening, handled, result, spoiled>>

Call(k, bad) ==
  /\ client[k] = "idle" /\ call[k].n < MaxCalls
  /\ client' = [client EXCEPT ![k] = "writing"]
  /\ call' = [call EXCEPT ![k] = [n |-> @.n + 1, bad |-> bad]]
  /\ sent' = [sent EXCEPT ![k] = 0]
  /\ UNCHANGED <<up, down, server, answering, listening, handled, result, spoiled>>

\* write_frame, a unit further.
Send(k) ==
  /\ client[k] = "writing"
  /\ sent' = [sent EXCEPT ![k] = @ + 1]
  /\ up' = [up EXCEPT ![k] = Append(@, <<call[k].n, call[k].bad, sent'[k]>>)]
  /\ client' = [client EXCEPT ![k] = IF sent'[k] = 3 THEN "reading" ELSE "writing"]
  /\ UNCHANGED <<call, down, server, answering, listening, handled, result, spoiled>>

\* The call returns; got is 0 for an error.
Return(k, got) ==
  /\ client' = [client EXCEPT ![k] = "idle"]
  /\ result' = [result EXCEPT ![k][call[k].n] = got]

\* The write fails, because the peer has closed the connection.
SendFails(k) ==
  /\ client[k] = "writing" /\ DownClosed(k)
  /\ Return(k, 0)
  /\ UNCHANGED <<call, sent, up, down, server, answering, listening, handled, spoiled>>

\* Faulty variant: the response is not taken off the stream.
ReceivePeek(k) ==
  /\ client[k] = "reading" /\ Len(down[k]) >= 3
  /\ Return(k, down[k][1][1])
  /\ UNCHANGED <<call, sent, up, down, server, answering, listening, handled, spoiled>>

\* read_frame finds a whole response.
Receive(k) ==
  /\ client[k] = "reading" /\ Len(down[k]) >= 3
  /\ Return(k, down[k][1][1])
  /\ down' = [down EXCEPT ![k] = SubSeq(@, 4, Len(@))]
  /\ UNCHANGED <<call, sent, up, server, answering, listening, handled, spoiled>>

\* It finds the end of the stream, within a frame or between two.
ReceiveFails(k) ==
  /\ client[k] = "reading" /\ DownClosed(k)
  /\ Return(k, 0)
  /\ down' = [down EXCEPT ![k] = <<>>]
  /\ UNCHANGED <<call, sent, up, server, answering, listening, handled, spoiled>>

\* The future of the call is dropped.
Abandon(k) ==
  /\ client[k] \in {"writing", "reading"}
  /\ client' = [client EXCEPT ![k] = "idle"]
  /\ spoiled' = [spoiled EXCEPT ![k] = @ \/ sent[k] > 0]
  /\ UNCHANGED <<call, sent, up, down, server, answering, listening, handled, result>>

\* The client is dropped, within a call or between two.
Hangup(k) ==
  /\ client[k] \in {"idle", "writing", "reading"}
  /\ client' = [client EXCEPT ![k] = "gone"]
  /\ UNCHANGED <<call, sent, up, down, server, answering, listening, handled, result, spoiled>>

----------------------------------------------------------------------------
(* RpcServer.                                                              *)

\* serve(): a task for the next connection.
Accept(k) ==
  /\ listening /\ server[k] = "backlog"
  /\ server' = [server EXCEPT ![k] = "reading"]
  /\ UNCHANGED <<client, call, sent, up, down, answering, listening, handled, result, spoiled>>

\* accept() fails and serve() returns: the listener is gone, and with it the
\* connections nobody accepted.  Tasks that run already go on.
ServeFails ==
  /\ listening
  /\ listening' = FALSE
  /\ server' = [k \in Conn |-> IF server[k] = "backlog" THEN "ended" ELSE server[k]]
  /\ UNCHANGED <<client, call, sent, up, down, answering, handled, result, spoiled>>

\* Faulty variant: a refused request is passed over in silence.
RefuseSilently(k) == server' = [server EXCEPT ![k] = "reading"]

\* A handler error closes the connection.
Refuse(k) == server' = [server EXCEPT ![k] = "ended"]

\* read_frame takes a frame off the stream.
Take(k) == up' = [up EXCEPT ![k] = SubSeq(@, 4, Len(@))]

\* serve_conn reads a request and hands it to the endpoint; a write that is
\* pending then is the response's.
Serve(k) ==
  /\ server[k] = "reading" /\ Len(up[k]) >= 3 /\ IsFrame(SubSeq(up[k], 1, 3))
  /\ LET n == up[k][1][1]
         bad == up[k][1][2]
     IN  /\ handled' = IF bad THEN handled ELSE [handled EXCEPT ![k] = Append(@, n)]
         /\ answering' = IF bad THEN answering ELSE [answering EXCEPT ![k] = <<n, 0>>]
         /\ IF bad THEN Refuse(k) ELSE server' = [server EXCEPT ![k] = "writing"]
  /\ Take(k)
  /\ UNCHANGED <<client, call, sent, down, listening, result, spoiled>>

\* What is on the stream is the beginning of one frame and a part of another.
\* The length is wrong or the JSON does not parse, and the task ends; or the
\* length asks for more than there is.
Misread(k) ==
  /\ server[k] = "reading" /\ Len(up[k]) >= 3 /\ ~IsFrame(SubSeq(up[k], 1, 3))
  /\ \E outcome \in {"ended", "starved"} : server' = [server EXCEPT ![k] = outcome]
  /\ UNCHANGED <<client, call, sent, up, down, answering, listening, handled, result, spoiled>>

\* The stream ends within a frame or between two: the loop ends.
EndOfStream(k) ==
  /\ UpClosed(k) /\ server[k] \in {"reading", "starved"}
  /\ server' = [server EXCEPT ![k] = "ended"]
  /\ UNCHANGED <<client, call, sent, up, down, answering, listening, handled, result, spoiled>>

\* write_frame of the response, a unit further.
Answer(k) ==
  /\ server[k] = "writing"
  /\ LET n == answering[k][1]
         i == answering[k][2] + 1
     IN  /\ down' = [down EXCEPT ![k] = Append(@, <<n, FALSE, i>>)]
         /\ answering' = [answering EXCEPT ![k] = <<n, i>>]
         /\ server' = [server EXCEPT ![k] = IF i = 3 THEN "reading" ELSE "writing"]
  /\ UNCHANGED <<client, call, sent, up, listening, handled, result, spoiled>>

\* The write fails, because the client is gone.
AnswerFails(k) ==
  /\ server[k] = "writing" /\ UpClosed(k)
  /\ server' = [server EXCEPT ![k] = "ended"]
  /\ UNCHANGED <<client, call, sent, up, down, answering, listening, handled, result, spoiled>>

\* The server's process ends, and with it the listener and every task.
ServerDies ==
  /\ \E k \in Conn : server[k] \in {"backlog", "reading", "writing", "starved"}
  /\ listening' = FALSE
  /\ server' = [k \in Conn |-> IF server[k] = "none" THEN "none" ELSE "ended"]
  /\ UNCHANGED <<client, call, sent, up, down, answering, handled, result, spoiled>>

ClientStep(k) == Send(k) \/ SendFails(k) \/ Receive(k) \/ ReceiveFails(k)

ServerStep(k) == Serve(k) \/ Misread(k) \/ EndOfStream(k) \/ Answer(k) \/ AnswerFails(k)

WireNext ==
  \/ \E k \in Conn :
       \/ Connect(k) \/ Abandon(k) \/ Hangup(k) \/ Accept(k)
       \/ \E bad \in BOOLEAN : Call(k, bad)
       \/ ClientStep(k) \/ ServerStep(k)
  \/ ServeFails \/ ServerDies

WireSpec == WireInit /\ [][WireNext]_wireVars

----------------------------------------------------------------------------
(* Properties.                                                             *)

InCall(k) == client[k] \in {"writing", "reading"}

\* "one request/response at a time": a call returns the response to its own
\* request, over any number of calls on the connection, unless one of them
\* was dropped after it had begun to write; then a later call is given what
\* the dropped one left on the stream, or nothing.  In any case a request
\* reaches the endpoint at most once and in the order of the calls, and
\* whatever is answered was handled.  (A call that fails may have been
\* handled all the same: retrying it on a new connection handles it twice.)
OwnAnswer ==
  \A k \in Conn :
    /\ ~spoiled[k] => \A n \in 1 .. MaxCalls : result[k][n] \in {0, n}
    /\ \A i, j \in DOMAIN handled[k] : i < j => handled[k][i] < handled[k][j]
    /\ \A n \in 1 .. MaxCalls : result[k][n] \in Range(handled[k]) \cup {0}

\* Without any timeout of its own a call comes to an end: the server answers
\* or the connection is closed, whatever the endpoint says to the request and
\* whether the listener or the whole server ends in between.
CallEnds == \A k \in Conn : (InCall(k) /\ ~spoiled[k]) ~> (~InCall(k) \/ spoiled[k])

============================================================================
