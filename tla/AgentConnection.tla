---------------------------- MODULE AgentConnection ----------------------------
(***************************************************************************)
(* The connections of agents: the client of internal/agent/client.go and    *)
(* control.go, the SSH bridge of internal/remote, ServeConn and Serve of    *)
(* internal/agent/server.go, and the frames of internal/protocol.           *)
(*                                                                          *)
(* A client reaches the daemon on the daemon's socket, or over SSH through  *)
(* a bridge process that holds the socket for it.  Each connection serves   *)
(* one request.  What the request does is the subject of GateService; here  *)
(* it accepts, reports and ends as that module allows it to.                *)
(***************************************************************************)
EXTENDS Integers, Sequences, FiniteSets

CONSTANTS
    Conns,        \* client processes, one connection each
    Kinds,        \* what clients ask for: see RequestKinds
    Seconds,      \* what a client may send after its request
    MaxReports    \* bound on the state and output frames of one request

(* "exec", "add" (a forward or an alias) and "list" (or a removal) are the  *)
(* requests of the repository's clients; "stray" is a valid frame that is   *)
(* no request of its own, a second hello or a cancel.                       *)
RequestKinds == {"exec", "add", "list", "stray"}

(* A cancel frame names the active command or another one.                  *)
Cancels == {"cancel", "cancel other"}

ASSUME ConnectionAssumption ==
    /\ Kinds \subseteq RequestKinds
    /\ Seconds \subseteq Cancels \cup {"exec", "junk"}
    /\ MaxReports \in Nat

VARIABLES
    bridged,    \* the clients that came through SSH
    wire,       \* the two directions of each byte stream and its two closings
    client,     \* where Client.Exec or Client.Control stands
    kind,       \* what the client asks for
    told,       \* the client has read the accepted frame, hence the command ID
    second,     \* the client has sent its second frame
    outcome,    \* what the client made of the answer
    bridge,     \* where Bridge.Run stands
    srv,        \* where ServeConn stands
    next,       \* what the one-frame reader of ServeConn has found
    request,    \* where the goroutine of runRequest stands
    plan,       \* the frames it has left to send
    commandID,  \* protocolSink.commandID is set
    cancelled,  \* cancel of the request's context was called
    loop,       \* Serve: "accept", the connection it is about to enter, ...
    active,     \* the map of connections Serve would close
    stopped,    \* the daemon's context is done
    closer,     \* the goroutine that closes the listener, then the connections
    \* history
    reports,    \* state and output frames sent so far
    final,      \* the first exit or error frame the daemon sent
    refused     \* a cancel frame that named the active command was refused

clientVars == <<client, kind, told, second, outcome>>
requestVars == <<request, plan, commandID, reports>>
serverVars == <<srv, next, cancelled, refused>>
serveVars == <<loop, active, closer>>
vars == <<bridged, wire, clientVars, bridge, serverVars, requestVars, serveVars,
          stopped, final>>

(* The streams: a client of the socket and a bridge hold the "unix" end, a  *)
(* remote client and its bridge the two ends of "ssh".                      *)
Links == Conns \X {"unix", "ssh"}
Frames == {"hello", "junk", "accepted", "report", "resource", "exit", "error"}
            \cup RequestKinds \cup Cancels
Streams == [up : Seq(Frames), down : Seq(Frames), gone : BOOLEAN, shut : BOOLEAN]

Silent == [up |-> <<>>, down |-> <<>>, gone |-> FALSE, shut |-> FALSE]
Near(n) == IF n \in bridged THEN <<n, "ssh">> ELSE <<n, "unix">>
Far(n) == <<n, "unix">>

Init ==
    /\ bridged \in SUBSET Conns
    /\ wire = [l \in Links |-> Silent]
    /\ client = [n \in Conns |-> "idle"]
    /\ kind \in [Conns -> Kinds]
    /\ told = [n \in Conns |-> FALSE]
    /\ second = [n \in Conns |-> FALSE]
    /\ outcome = [n \in Conns |-> "none"]
    /\ bridge = [n \in Conns |-> "none"]
    /\ srv = [n \in Conns |-> "none"]
    /\ next = [n \in Conns |-> "none"]
    /\ request = [n \in Conns |-> "none"]
    /\ plan = [n \in Conns |-> <<>>]
    /\ commandID = [n \in Conns |-> FALSE]
    /\ cancelled = [n \in Conns |-> FALSE]
    /\ loop = "accept"
    /\ active = {}
    /\ stopped = FALSE
    /\ closer = "waiting"
    /\ reports = [n \in Conns |-> 0]
    /\ final = [n \in Conns |-> "none"]
    /\ refused = [n \in Conns |-> FALSE]

-----------------------------------------------------------------------------
(* Streams.                                                                 *)

(* Decode and Validate refuse a frame that is malformed, too long, of an    *)
(* unknown type or without a required field: "junk" stands for all.         *)
Valid(frame) == frame # "junk"

(* Reading meets the frames that were sent first, the end of the stream     *)
(* after them.                                                              *)
UpHas(l, frame) == wire[l].up # <<>> /\ Head(wire[l].up) = frame
UpEnds(l) == wire[l].up = <<>> /\ wire[l].gone
DownEnds(l) == wire[l].down = <<>> /\ wire[l].shut

(* Sending fails once the other side, or one's own, is closed.              *)
Sendable(l) == ~wire[l].gone /\ ~wire[l].shut

SendUp(w, l, frame) == [w EXCEPT ![l].up = Append(@, frame)]
SendDown(w, l, frames) ==
    IF w[l].gone \/ w[l].shut THEN w ELSE [w EXCEPT ![l].down = @ \o frames]
TakeUp(w, l) == [w EXCEPT ![l].up = Tail(@)]
TakeDown(w, l) == [w EXCEPT ![l].down = Tail(@)]
Hang(w, l) == [w EXCEPT ![l].gone = TRUE]
Shut(w, l) == [w EXCEPT ![l].shut = TRUE]

ListenerOpen == closer = "waiting"

-----------------------------------------------------------------------------
(* The client.                                                              *)

(* Dial, then the hello frame.  SSHDialer starts ssh, whose forced command  *)
(* is the bridge.                                                           *)
Dial(n) ==
    /\ client[n] = "idle"
    /\ n \in bridged \/ ListenerOpen
    /\ \E hello \in {"hello", "junk"} : wire' = SendUp(wire, Near(n), hello)
    /\ client' = [client EXCEPT ![n] = "hello"]
    /\ bridge' = [bridge EXCEPT ![n] = IF n \in bridged THEN "hello" ELSE "none"]
    /\ UNCHANGED <<bridged, kind, told, second, outcome, serverVars,
                   requestVars, serveVars, stopped, final>>

(* Exec and Control return: the deferred Close ends the stream.             *)
Return(n, w, result) ==
    /\ wire' = Hang(w, Near(n))
    /\ client' = [client EXCEPT ![n] = "ended"]
    /\ outcome' = [outcome EXCEPT ![n] = result]

(* The answer to hello and, if it is hello, the request; anything else, or  *)
(* a request that cannot be sent, ends the call.                            *)
Greeted(n) ==
    LET l == Near(n) IN
    /\ client[n] = "hello"
    /\ wire[l].down # <<>>
    /\ IF Head(wire[l].down) = "hello" /\ Sendable(l)
       THEN /\ wire' = SendUp(TakeDown(wire, l), l, kind[n])
            /\ client' = [client EXCEPT ![n] = "reading"]
            /\ UNCHANGED outcome
       ELSE Return(n, TakeDown(wire, l),
                   IF Head(wire[l].down) = "hello" THEN "eof" ELSE "error")
    /\ UNCHANGED <<bridged, bridge, kind, told, second, serverVars, requestVars,
                   serveVars, stopped, final>>

(* Exec and Control skip everything up to an error or an exit frame.        *)
Receive(n) ==
    LET l == Near(n)
        frame == Head(wire[l].down)
    IN
    /\ client[n] = "reading"
    /\ wire[l].down # <<>>
    /\ told' = [told EXCEPT ![n] = @ \/ frame = "accepted"]
    /\ IF frame \in {"exit", "error"}
       THEN Return(n, TakeDown(wire, l), frame)
       ELSE /\ wire' = TakeDown(wire, l)
            /\ UNCHANGED <<client, outcome>>
    /\ UNCHANGED <<bridged, bridge, kind, second, serverVars, requestVars,
                   serveVars, stopped, final>>

(* Decode meets the end of the stream.                                      *)
ReadEnd(n) ==
    /\ client[n] \in {"hello", "reading"}
    /\ DownEnds(Near(n))
    /\ Return(n, wire, "eof")
    /\ UNCHANGED <<bridged, bridge, kind, told, second, serverVars, requestVars,
                   serveVars, stopped, final>>

(* Another client of the same protocol may send a second frame; to name     *)
(* the active command it must have been told its ID.                        *)
SendSecond(n) ==
    /\ client[n] = "reading"
    /\ ~second[n]
    /\ Sendable(Near(n))
    /\ \E frame \in Seconds :
          /\ frame = "cancel" => told[n]
          /\ wire' = SendUp(wire, Near(n), frame)
    /\ second' = [second EXCEPT ![n] = TRUE]
    /\ UNCHANGED <<bridged, bridge, client, kind, told, outcome, serverVars,
                   requestVars, serveVars, stopped, final>>

(* The client is killed.                                                    *)
Leave(n) ==
    /\ client[n] \in {"hello", "reading"}
    /\ Return(n, wire, "left")
    /\ UNCHANGED <<bridged, bridge, kind, told, second, serverVars, requestVars,
                   serveVars, stopped, final>>

Client(n) == Dial(n) \/ Greeted(n) \/ Receive(n) \/ ReadEnd(n) \/ SendSecond(n)
               \/ Leave(n)

-----------------------------------------------------------------------------
(* The bridge: one goroutine, so it reads from one side at a time.          *)

(* Run returns: it sends the remote client its last frames, the process     *)
(* ends, and with it both streams.                                          *)
BridgeEnds(n, w, frames) ==
    /\ wire' = Hang(Shut(SendDown(w, <<n, "ssh">>, frames), <<n, "ssh">>), Far(n))
    /\ bridge' = [bridge EXCEPT ![n] = "ended"]

(* The claimed hello, the identity of the SSH key, the daemon's socket and  *)
(* a hello of the bridge's own: each may fail.                              *)
BridgeHello(n) ==
    LET l == <<n, "ssh">> IN
    /\ bridge[n] = "hello"
    /\ \/ /\ UpEnds(l)
          /\ BridgeEnds(n, wire, <<>>)
       \/ /\ wire[l].up # <<>>
          /\ BridgeEnds(n, TakeUp(wire, l), <<"error">>)
       \/ /\ UpHas(l, "hello")
          /\ ListenerOpen
          /\ wire' = SendUp(TakeUp(wire, l), Far(n), "hello")
          /\ bridge' = [bridge EXCEPT ![n] = "greet"]
    /\ UNCHANGED <<bridged, clientVars, serverVars, requestVars, serveVars,
                   stopped, final>>

(* Mutation: the bridge does not notice that its client is gone.            *)
RelayBlind(n, last, then) ==
    LET frame == Head(wire[Far(n)].down) IN
    /\ wire[Far(n)].down # <<>>
    /\ IF frame \in last
       THEN BridgeEnds(n, TakeDown(wire, Far(n)), <<frame>>)
       ELSE /\ wire' = SendDown(TakeDown(wire, Far(n)), <<n, "ssh">>, <<frame>>)
            /\ bridge' = [bridge EXCEPT ![n] = then]

(* Mutation: the bridge looks at the last frame before it writes it.        *)
RelayBeforeLast(n, last, then) ==
    LET l == <<n, "ssh">>
        frame == Head(wire[Far(n)].down)
    IN
    /\ wire[Far(n)].down # <<>>
    /\ IF ~Sendable(l) \/ frame \in last
       THEN BridgeEnds(n, TakeDown(wire, Far(n)), <<>>)
       ELSE /\ wire' = SendDown(TakeDown(wire, Far(n)), l, <<frame>>)
            /\ bridge' = [bridge EXCEPT ![n] = then]

(* A frame of the daemon is written to the remote client; the bridge ends   *)
(* when the client is gone and after a last frame.                          *)
Relay(n, last, then) ==
    LET l == <<n, "ssh">>
        frame == Head(wire[Far(n)].down)
    IN
    /\ wire[Far(n)].down # <<>>
    /\ IF ~Sendable(l) \/ frame \in last
       THEN BridgeEnds(n, TakeDown(wire, Far(n)), <<frame>>)
       ELSE /\ wire' = SendDown(TakeDown(wire, Far(n)), l, <<frame>>)
            /\ bridge' = [bridge EXCEPT ![n] = then]

(* Mutation: the end of the daemon's stream is taken for the end of the     *)
(* command.                                                                 *)
DaemonEndsWell(n) ==
    /\ DownEnds(Far(n))
    /\ BridgeEnds(n, wire, <<"exit">>)

(* The daemon has closed its end.                                           *)
DaemonEnds(n) ==
    /\ DownEnds(Far(n))
    /\ BridgeEnds(n, wire, <<"error">>)

BridgeGreet(n) ==
    /\ bridge[n] = "greet"
    /\ Relay(n, {"error"}, "request") \/ DaemonEnds(n)
    /\ UNCHANGED <<bridged, clientVars, serverVars, requestVars, serveVars,
                   stopped, final>>

(* One request, and no hello or cancel.                                     *)
BridgeRequest(n) ==
    LET l == <<n, "ssh">>
        frame == Head(wire[l].up)
        accepted == Valid(frame) /\ frame \notin {"stray"} \cup Cancels
    IN
    /\ bridge[n] = "request"
    /\ \/ /\ UpEnds(l)
          /\ BridgeEnds(n, wire, <<>>)
       \/ /\ wire[l].up # <<>>
          /\ IF accepted /\ Sendable(Far(n))
             THEN /\ wire' = SendUp(TakeUp(wire, l), Far(n), frame)
                  /\ bridge' = [bridge EXCEPT ![n] = "relay"]
             ELSE BridgeEnds(n, TakeUp(wire, l), <<"error">>)
    /\ UNCHANGED <<bridged, clientVars, serverVars, requestVars, serveVars,
                   stopped, final>>

(* From here on the bridge reads the daemon only.                           *)
BridgeRelay(n) ==
    /\ bridge[n] = "relay"
    /\ Relay(n, {"exit", "error"}, "relay") \/ DaemonEnds(n)
    /\ UNCHANGED <<bridged, clientVars, serverVars, requestVars, serveVars,
                   stopped, final>>

Bridge(n) == BridgeHello(n) \/ BridgeGreet(n) \/ BridgeRequest(n) \/ BridgeRelay(n)

-----------------------------------------------------------------------------
(* The goroutine of one request, as the service lets it speak.              *)

(* Mutation: any frame is taken for the decisive one.                       *)
RecordAny(n, frame) ==
    final' = IF final[n] = "none" THEN [final EXCEPT ![n] = frame] ELSE final

(* What the daemon sends first of exit and error decides the call.          *)
Record(n, frame) ==
    final' = IF frame \in {"exit", "error"} /\ final[n] = "none"
             THEN [final EXCEPT ![n] = frame] ELSE final

(* Mutation: the request's context is derived from the background.          *)
CancelledByPeer(n) == cancelled[n]

(* The request's context is the connection's, cancelled by ServeConn or     *)
(* by the end of the daemon.                                                *)
Cancelled(n) == cancelled[n] \/ stopped

(* Mutation: the accepted frame goes out before the ID is stored.           *)
BeginUnstored(n) ==
    /\ request[n] = "start"
    /\ \/ /\ kind[n] \in {"exec", "add"}
          /\ request' = [request EXCEPT ![n] = "accepting"]
          /\ UNCHANGED plan
       \/ /\ kind[n] \in {"list", "stray"}
          /\ plan' = [plan EXCEPT ![n] = <<"error">>]
          /\ request' = [request EXCEPT ![n] = "sending"]
    /\ UNCHANGED <<bridged, wire, clientVars, bridge, serverVars, commandID,
                   reports, serveVars, stopped, final>>

(* execute and authorizeCapability set out to accept a command, unless it   *)
(* cannot be created or recorded; a list or a removal answers at once.      *)
Begin(n) ==
    /\ request[n] = "start"
    /\ \/ /\ kind[n] \in {"exec", "add"}
          /\ \/ /\ request' = [request EXCEPT ![n] = "accepting"]
                /\ commandID' = [commandID EXCEPT ![n] = TRUE]
             \/ /\ request' = [request EXCEPT ![n] = "done"]
                /\ UNCHANGED commandID
          /\ UNCHANGED plan
       \/ /\ kind[n] \in {"list", "stray"}
          /\ \E p \in {<<"resource", "exit">>, <<"error">>} :
                /\ kind[n] = "stray" => p = <<"error">>
                /\ plan' = [plan EXCEPT ![n] = p]
          /\ request' = [request EXCEPT ![n] = "sending"]
          /\ UNCHANGED commandID
    /\ UNCHANGED <<bridged, wire, clientVars, bridge, serverVars, reports,
                   serveVars, stopped, final>>

(* The accepted frame: the ID is stored first, since the answer may come    *)
(* at once.                                                                 *)
SendAccepted(n) ==
    /\ request[n] = "accepting"
    /\ wire' = SendDown(wire, Far(n), <<"accepted">>)
    /\ request' = [request EXCEPT ![n] = IF Sendable(Far(n)) THEN "running"
                                                             ELSE "done"]
    /\ UNCHANGED <<bridged, clientVars, bridge, serverVars, plan, commandID,
                   reports, serveVars, stopped, final>>

(* A state or output frame; one that cannot be sent ends the request.       *)
Report(n) ==
    /\ request[n] = "running"
    /\ reports[n] < MaxReports
    /\ reports' = [reports EXCEPT ![n] = @ + 1]
    /\ wire' = SendDown(wire, Far(n), <<"report">>)
    /\ request' = [request EXCEPT ![n] = IF Sendable(Far(n)) THEN @ ELSE "done"]
    /\ UNCHANGED <<bridged, clientVars, bridge, serverVars, plan, commandID,
                   serveVars, stopped, final>>

(* The ways a command or a capability ends: with its result or its denial,  *)
(* with an error, or without a word when a wait or a write fails.           *)
Endings(k) ==
    {<<"exit">>, <<"error", "exit">>, <<>>}
      \cup IF k = "add" THEN {<<"resource", "exit">>} ELSE {}

Finish(n) ==
    /\ request[n] = "running"
    /\ \E p \in Endings(kind[n]) : plan' = [plan EXCEPT ![n] = p]
    /\ request' = [request EXCEPT ![n] = "sending"]
    /\ UNCHANGED <<bridged, wire, clientVars, bridge, serverVars, commandID,
                   reports, serveVars, stopped, final>>

(* One frame of the ending; the last is followed by runRequest's return.    *)
SendNext(n) ==
    /\ request[n] = "sending"
    /\ IF plan[n] = <<>> \/ ~Sendable(Far(n))
       THEN /\ request' = [request EXCEPT ![n] = "done"]
            /\ UNCHANGED <<wire, plan, final>>
       ELSE /\ wire' = SendDown(wire, Far(n), <<Head(plan[n])>>)
            /\ plan' = [plan EXCEPT ![n] = Tail(@)]
            /\ Record(n, Head(plan[n]))
            /\ UNCHANGED request
    /\ UNCHANGED <<bridged, clientVars, bridge, serverVars, commandID, reports,
                   serveVars, stopped>>

Request(n) == Begin(n) \/ SendAccepted(n) \/ Report(n) \/ Finish(n) \/ SendNext(n)

-----------------------------------------------------------------------------
(* ServeConn.                                                               *)

(* It returns: the stream is closed and the connection leaves the map.      *)
Close(n, w) ==
    /\ wire' = Shut(w, Far(n))
    /\ srv' = [srv EXCEPT ![n] = "closed"]
    /\ active' = active \ {n}

(* An error frame, if it can still be sent, and the return.                 *)
CloseWithError(n, w) ==
    /\ Close(n, SendDown(w, Far(n), <<"error">>))
    /\ Record(n, "error")

(* Decode fails at the end of the peer's stream and once Serve has closed   *)
(* the connection.                                                          *)
Ends(n) == UpEnds(Far(n)) \/ wire[Far(n)].shut

(* The hello frame opens a session, which the service refuses to an agent   *)
(* that is not attached, and when its row cannot be written.                *)
ServeHello(n) ==
    LET l == Far(n) IN
    /\ srv[n] = "hello"
    /\ \/ /\ Ends(n) \/ wire[l].up # <<>>
          /\ CloseWithError(n, wire)
       \/ /\ UpHas(l, "hello")
          /\ ~wire[l].shut
          /\ IF Sendable(l)
             THEN /\ wire' = SendDown(TakeUp(wire, l), l, <<"hello">>)
                  /\ srv' = [srv EXCEPT ![n] = "request"]
                  /\ UNCHANGED active
             ELSE Close(n, wire)
          /\ UNCHANGED final
    /\ UNCHANGED <<bridged, clientVars, bridge, next, cancelled, refused,
                   requestVars, loop, closer, stopped>>

(* The one request: runRequest and the reader of a second frame start.      *)
ServeRequest(n) ==
    LET l == Far(n) IN
    /\ srv[n] = "request"
    /\ \/ /\ UpEnds(l)
          /\ Close(n, wire)
          /\ UNCHANGED <<next, request, final>>
       \/ /\ wire[l].shut \/ (wire[l].up # <<>> /\ ~Valid(Head(wire[l].up)))
          /\ CloseWithError(n, wire)
          /\ UNCHANGED <<next, request>>
       \/ /\ wire[l].up # <<>>
          /\ Valid(Head(wire[l].up))
          /\ ~wire[l].shut
          /\ wire' = TakeUp(wire, l)
          /\ srv' = [srv EXCEPT ![n] = "select"]
          /\ next' = [next EXCEPT ![n] = "reading"]
          /\ request' = [request EXCEPT ![n] = "start"]
          /\ UNCHANGED <<active, final>>
    /\ UNCHANGED <<bridged, clientVars, bridge, cancelled, refused, plan,
                   commandID, reports, loop, closer, stopped>>

(* The reader decodes at most one more frame.                               *)
ReadSecond(n) ==
    LET l == Far(n) IN
    /\ next[n] = "reading"
    /\ \/ /\ Ends(n)
          /\ next' = [next EXCEPT ![n] = "end"]
          /\ UNCHANGED wire
       \/ /\ wire[l].up # <<>>
          /\ ~wire[l].shut
          /\ next' = [next EXCEPT ![n] = Head(wire[l].up)]
          /\ wire' = TakeUp(wire, l)
    /\ UNCHANGED <<bridged, clientVars, bridge, srv, cancelled, refused,
                   requestVars, serveVars, stopped, final>>

(* select: the request is done.                                             *)
SelectDone(n) ==
    /\ srv[n] = "select"
    /\ request[n] = "done"
    /\ Close(n, wire)
    /\ UNCHANGED <<bridged, clientVars, bridge, next, cancelled, refused,
                   requestVars, loop, closer, stopped, final>>

(* A cancel frame names the active command.                                 *)
Named(n) == next[n] = "cancel" /\ commandID[n]

(* select: the peer has gone, or has sent a frame.  Whatever it is, the     *)
(* request is cancelled and its end awaited; an error frame follows unless  *)
(* the frame named the command.                                             *)
SelectCancel(n) ==
    /\ srv[n] = "select"
    /\ next[n] \notin {"none", "reading"}
    /\ cancelled' = [cancelled EXCEPT ![n] = TRUE]
    /\ srv' = [srv EXCEPT ![n] = IF next[n] = "end" \/ Named(n) THEN "drain"
                                                              ELSE "drain, tell"]
    /\ refused' = [refused EXCEPT ![n] = next[n] = "cancel" /\ ~Named(n)]
    /\ UNCHANGED <<bridged, wire, clientVars, bridge, next, requestVars,
                   serveVars, stopped, final>>

Drained(n) ==
    /\ request[n] = "done"
    /\ \/ srv[n] = "drain" /\ Close(n, wire) /\ UNCHANGED final
       \/ srv[n] = "drain, tell" /\ CloseWithError(n, wire)
    /\ UNCHANGED <<bridged, clientVars, bridge, next, cancelled, refused,
                   requestVars, loop, closer, stopped>>

ServeConn(n) == ServeHello(n) \/ ServeRequest(n) \/ SelectDone(n) \/ SelectCancel(n)
                  \/ Drained(n)

-----------------------------------------------------------------------------
(* Serve.                                                                   *)

(* A connection waits in the listener's queue.                              *)
Queued(n) == srv[n] = "none" /\ (wire[Far(n)].up # <<>> \/ wire[Far(n)].gone)
               /\ ~wire[Far(n)].shut

(* Accept returns a connection, which is not yet in the map ...             *)
Accept(n) ==
    /\ loop = "accept"
    /\ closer = "waiting"
    /\ Queued(n)
    /\ loop' = n
    /\ UNCHANGED <<bridged, wire, clientVars, bridge, serverVars, requestVars,
                   active, closer, stopped, final>>

(* ... and is entered, and its goroutine started.                           *)
Enter(n) ==
    /\ loop = n
    /\ loop' = "accept"
    /\ active' = active \cup {n}
    /\ srv' = [srv EXCEPT ![n] = "hello"]
    /\ UNCHANGED <<bridged, wire, clientVars, bridge, next, cancelled, refused,
                   requestVars, closer, stopped, final>>

(* Accept fails once the listener is closed; Serve waits for all            *)
(* connections.                                                             *)
AcceptEnds ==
    /\ loop = "accept"
    /\ closer # "waiting"
    /\ loop' = "wait"
    /\ UNCHANGED <<bridged, wire, clientVars, bridge, serverVars, requestVars,
                   active, closer, stopped, final>>

ServeReturns ==
    /\ loop = "wait"
    /\ \A n \in Conns : srv[n] \in {"none", "closed"}
    /\ loop' = "returned"
    /\ UNCHANGED <<bridged, wire, clientVars, bridge, serverVars, requestVars,
                   active, closer, stopped, final>>

(* The operator ends the daemon, or a signal does: its context is done.     *)
Stop ==
    /\ ~stopped
    /\ stopped' = TRUE
    /\ UNCHANGED <<bridged, wire, clientVars, bridge, serverVars, requestVars,
                   serveVars, final>>

(* The closing goroutine: first the listener, with what it has queued ...   *)
CloseListener ==
    /\ stopped
    /\ closer = "waiting"
    /\ closer' = "listener"
    /\ wire' = [l \in Links |->
                   IF l[2] = "unix" /\ l[1] # loop /\ srv[l[1]] = "none"
                   THEN [wire[l] EXCEPT !.shut = TRUE] ELSE wire[l]]
    /\ UNCHANGED <<bridged, clientVars, bridge, serverVars, requestVars, loop,
                   active, stopped, final>>

(* ... then the connections the map holds at this moment.                   *)
CloseActive ==
    /\ closer = "listener"
    /\ closer' = "done"
    /\ wire' = [l \in Links |->
                   IF l[2] = "unix" /\ l[1] \in active
                   THEN [wire[l] EXCEPT !.shut = TRUE] ELSE wire[l]]
    /\ UNCHANGED <<bridged, clientVars, bridge, serverVars, requestVars, loop,
                   active, stopped, final>>

Serve == AcceptEnds \/ ServeReturns \/ CloseListener \/ CloseActive
           \/ \E n \in Conns : Accept(n) \/ Enter(n)

Next ==
    \/ \E n \in Conns : Client(n) \/ Bridge(n) \/ ServeConn(n) \/ ReadSecond(n)
                          \/ Request(n)
    \/ Serve
    \/ Stop

Spec == Init /\ [][Next]_vars

(* Goroutines and processes run, ready cases of select are taken, and a     *)
(* request whose context is cancelled ends, as CancelledRequestEnds of      *)
(* GateService has it.  Clients, operators and uncancelled requests owe     *)
(* nothing, except that a client reads what it is sent.                     *)
Fairness ==
    /\ WF_vars(Serve)
    /\ \A n \in Conns :
          /\ WF_vars(Greeted(n) \/ Receive(n) \/ ReadEnd(n))
          /\ WF_vars(Bridge(n))
          /\ WF_vars(ServeConn(n))
          /\ WF_vars(ReadSecond(n))
          /\ WF_vars(Begin(n) \/ SendAccepted(n) \/ SendNext(n))
          /\ WF_vars(Cancelled(n) /\ Finish(n))

FairSpec == Spec /\ Fairness

-----------------------------------------------------------------------------
(* Properties.                                                              *)

TypeOK ==
    /\ bridged \subseteq Conns
    /\ wire \in [Links -> Streams]
    /\ client \in [Conns -> {"idle", "hello", "reading", "ended"}]
    /\ kind \in [Conns -> Kinds]
    /\ told \in [Conns -> BOOLEAN]
    /\ second \in [Conns -> BOOLEAN]
    /\ outcome \in [Conns -> {"none", "exit", "error", "eof", "left"}]
    /\ bridge \in [Conns -> {"none", "hello", "greet", "request", "relay", "ended"}]
    /\ srv \in [Conns -> {"none", "hello", "request", "select", "drain",
                          "drain, tell", "closed"}]
    /\ next \in [Conns -> {"none", "reading", "end"} \cup Frames]
    /\ request \in [Conns -> {"none", "start", "accepting", "running", "sending",
                              "done"}]
    /\ plan \in [Conns -> Seq({"resource", "exit", "error"})]
    /\ commandID \in [Conns -> BOOLEAN]
    /\ cancelled \in [Conns -> BOOLEAN]
    /\ loop \in {"accept", "wait", "returned"} \cup Conns
    /\ active \subseteq Conns
    /\ stopped \in BOOLEAN
    /\ closer \in {"waiting", "listener", "done"}
    /\ reports \in [Conns -> 0 .. MaxReports]
    /\ final \in [Conns -> {"none", "exit", "error"}]
    /\ refused \in [Conns -> BOOLEAN]

(* A client that answers the accepted frame with a cancel of the command    *)
(* it names is not told that the ID does not match the active request.      *)
CancelRecognised == \A n \in Conns : ~refused[n]

(* A client that takes an exit frame for its result takes the first ending  *)
(* the daemon sent on its connection, bridge or not.                        *)
OutcomeTruth == \A n \in Conns : outcome[n] = "exit" => final[n] = "exit"

(* When a local client goes away the daemon gives the request up and        *)
(* closes; when a remote one does, the bridge finds out no later than the   *)
(* next frame it has to relay.                                              *)
DepartureEnds ==
    \A n \in Conns :
        (/\ outcome[n] = "left"
         /\ srv[n] # "none"
         /\ n \in bridged => wire[Far(n)].down # <<>> /\ bridge[n] = "relay")
            ~> srv[n] = "closed"

(* A result the daemon has sent first reaches the client, unless the        *)
(* client leaves: closing the connection right after it loses nothing.      *)
ResultReaches ==
    \A n \in Conns : final[n] = "exit" ~> outcome[n] \in {"exit", "left"}

(* When the daemon is stopped every request under way ends, also on a       *)
(* connection accepted too late for the closing goroutine.                  *)
ShutdownEnds ==
    \A n \in Conns : (stopped /\ srv[n] = "select") ~> srv[n] = "closed"
=============================================================================
