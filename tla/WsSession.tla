----------------------------- MODULE WsSession -----------------------------
(***************************************************************************)
(* The WebSocket session of a sandbox: the client's loop with its reader   *)
(* goroutine (sandbox/ws.go), the handler of the server (ws-server/        *)
(* main.go) and the network between them, beside the workload of module    *)
(* Sandbox, whose context and whose end the session depends on.            *)
(*                                                                         *)
(* Pings and pongs only count, so a successful exchange changes nothing    *)
(* here; what a failing one leads to is modelled.                          *)
(***************************************************************************)
EXTENDS Sandbox

CONSTANTS
    Conns,      \* TCP connections; one can be used again when both ends are done
    NoConn,
    ErrCap,     \* capacity of errCh
    MaxFaults   \* bound: how often the network or the server fails

ASSUME ConnsAssumption == NoConn \notin Conns /\ IsFiniteSet(Conns)
ASSUME ErrCapAssumption == ErrCap \in Nat \ {0}
ASSUME FaultsAssumption == MaxFaults \in Nat

VARIABLES
    ws,         \* where wsSessionLoop is
    cur,        \* the connection wsConnect holds
    wsShown,    \* sandboxState.WSConnected
    client,     \* per connection, the sandbox's end: "none", "open" or "closed"
    reader,     \* ... its reader goroutine: "none", "reading" or "failed"
    errs,       \* ... what is in its errCh
    server,     \* ... a handleWS of the server reads from it
    cut,        \* ... the network no longer carries it
    active,     \* activeConnections
    faults

loopVars == <<ws, cur, wsShown>>
connVars == <<client, reader, errs>>
serverVars == <<server, active>>
netVars == <<cut, faults>>
wsVars == <<loopVars, connVars, serverVars, netVars>>
vars == <<sandboxVars, wsVars>>

\* Nothing is left of the connection on either side.
Done(c) == client[c] # "open" /\ reader[c] = "none" /\ ~server[c]

\* The connection can no longer carry a ping and its pong.
Dead(c) == cut[c] \/ ~server[c]

-----------------------------------------------------------------------------
(***************************************************************************)
(* The client: wsSessionLoop and wsConnect.                                *)
(***************************************************************************)
WsTop ==
    /\ ws = "top"
    /\ ws' = IF cancelled THEN "ended" ELSE "dialing"
    /\ wsShown' = IF cancelled THEN FALSE ELSE wsShown
    /\ UNCHANGED <<sandboxVars, cur, connVars, serverVars, netVars>>

\* No token, no route, refused, timed out or cancelled.
DialFails ==
    /\ ws = "dialing"
    /\ ws' = "lost"
    /\ UNCHANGED <<sandboxVars, cur, wsShown, connVars, serverVars, netVars>>

\* The server upgraded, but its answer comes too late.
DialHalf(c) ==
    /\ ws = "dialing"
    /\ Done(c)
    /\ ws' = "lost"
    /\ client' = [client EXCEPT ![c] = "closed"]
    /\ server' = [server EXCEPT ![c] = TRUE]
    /\ cut' = [cut EXCEPT ![c] = FALSE]
    /\ active' = active + 1
    /\ UNCHANGED <<sandboxVars, cur, wsShown, reader, errs, faults>>

\* Mutant: one errCh for all connections of the session.
DialSharingErrCh(c) ==
    /\ ws = "dialing"
    /\ Done(c)
    /\ ws' = "connected"
    /\ cur' = c
    /\ wsShown' = TRUE
    /\ client' = [client EXCEPT ![c] = "open"]
    /\ reader' = [reader EXCEPT ![c] = "reading"]
    /\ server' = [server EXCEPT ![c] = TRUE]
    /\ cut' = [cut EXCEPT ![c] = FALSE]
    /\ active' = active + 1
    /\ UNCHANGED <<sandboxVars, errs, faults>>

\* The handshake is answered: handleWS counts the connection and reads, the
\* client shows it and starts its reader.
Dial(c) ==
    /\ ws = "dialing"
    /\ Done(c)
    /\ ws' = "connected"
    /\ cur' = c
    /\ wsShown' = TRUE
    /\ client' = [client EXCEPT ![c] = "open"]
    /\ reader' = [reader EXCEPT ![c] = "reading"]
    /\ errs' = [errs EXCEPT ![c] = 0]
    /\ server' = [server EXCEPT ![c] = TRUE]
    /\ cut' = [cut EXCEPT ![c] = FALSE]
    /\ active' = active + 1
    /\ UNCHANGED <<sandboxVars, faults>>

\* Mutant: the deferred function does not close the connection.
HangUpOpen ==
    /\ ws' = "lost"
    /\ cur' = NoConn
    /\ UNCHANGED <<sandboxVars, wsShown, client, reader, serverVars, netVars>>

\* wsConnect returns: its deferred function sends a close frame and closes.
HangUp ==
    /\ ws' = "lost"
    /\ cur' = NoConn
    /\ client' = [client EXCEPT ![cur] = "closed"]
    /\ UNCHANGED <<sandboxVars, wsShown, reader, serverVars, netVars>>

SelectCancelled ==
    /\ ws = "connected"
    /\ cancelled
    /\ HangUp
    /\ UNCHANGED errs

SelectError ==
    /\ ws = "connected"
    /\ errs[cur] > 0
    /\ errs' = [errs EXCEPT ![cur] = @ - 1]
    /\ HangUp

\* Writing the ping fails, at once or when TCP gives up.
PingFails ==
    /\ ws = "connected"
    /\ Dead(cur)
    /\ HangUp
    /\ UNCHANGED errs

\* Mutant: the flag is cleared at the end of the loop only.
WsLostStillShown ==
    /\ ws = "lost"
    /\ ws' = "backoff"
    /\ UNCHANGED <<sandboxVars, cur, wsShown, connVars, serverVars, netVars>>

WsLost ==
    /\ ws = "lost"
    /\ ws' = "backoff"
    /\ wsShown' = FALSE
    /\ UNCHANGED <<sandboxVars, cur, connVars, serverVars, netVars>>

\* Mutant: a session that is lost is given up.
BackoffGivesUp ==
    /\ ws = "backoff"
    /\ ws' = "ended"
    /\ UNCHANGED <<sandboxVars, cur, wsShown, connVars, serverVars, netVars>>

\* The delay of 2 s, or ctx.
BackoffOver ==
    /\ ws = "backoff"
    /\ ws' \in IF cancelled THEN {"top", "ended"} ELSE {"top"}
    /\ UNCHANGED <<sandboxVars, cur, wsShown, connVars, serverVars, netVars>>

-----------------------------------------------------------------------------
(***************************************************************************)
(* The reader goroutine of a connection.                                   *)
(***************************************************************************)
ReadFails(c) ==
    /\ reader[c] = "reading"
    /\ client[c] = "closed" \/ Dead(c)
    /\ reader' = [reader EXCEPT ![c] = "failed"]
    /\ UNCHANGED <<sandboxVars, loopVars, client, errs, serverVars, netVars>>

\* Mutant: errCh has no buffer, somebody must be receiving.
ReaderReportsUnbuffered(c) ==
    /\ reader[c] = "failed"
    /\ ws = "connected" /\ cur = c
    /\ reader' = [reader EXCEPT ![c] = "none"]
    /\ errs' = [errs EXCEPT ![c] = 1]
    /\ UNCHANGED <<sandboxVars, loopVars, client, serverVars, netVars>>

\* errCh <- err, and the goroutine returns.
ReaderReports(c) ==
    /\ reader[c] = "failed"
    /\ errs[c] < ErrCap
    /\ reader' = [reader EXCEPT ![c] = "none"]
    /\ errs' = [errs EXCEPT ![c] = @ + 1]
    /\ UNCHANGED <<sandboxVars, loopVars, client, serverVars, netVars>>

-----------------------------------------------------------------------------
(***************************************************************************)
(* The server, one instance of it, and the network.                        *)
(***************************************************************************)

\* Mutant: the return after a failed pong forgets the counter.
ServerEndsUncounted(c) ==
    /\ server[c]
    /\ client[c] # "open" \/ cut[c]
    /\ server' = [server EXCEPT ![c] = FALSE]
    /\ active' \in {active, active - 1}
    /\ UNCHANGED <<sandboxVars, loopVars, connVars, netVars>>

\* ReadMessage or WriteMessage fails: the peer has closed, or keepalive or
\* retransmission gave up.  The deferred function closes and counts down.
ServerEnds(c) ==
    /\ server[c]
    /\ client[c] # "open" \/ cut[c]
    /\ server' = [server EXCEPT ![c] = FALSE]
    /\ active' = active - 1
    /\ UNCHANGED <<sandboxVars, loopVars, connVars, netVars>>

\* Cloud Run ends the request at its time limit.
ServerTimeout(c) ==
    /\ server[c]
    /\ faults < MaxFaults
    /\ faults' = faults + 1
    /\ server' = [server EXCEPT ![c] = FALSE]
    /\ active' = active - 1
    /\ UNCHANGED <<sandboxVars, loopVars, connVars, cut>>

\* The instance is replaced: its handlers and its counter are gone.
ServerRestart ==
    /\ faults < MaxFaults
    /\ faults' = faults + 1
    /\ server' = [c \in Conns |-> FALSE]
    /\ active' = 0
    /\ UNCHANGED <<sandboxVars, loopVars, connVars, cut>>

Cut(c) ==
    /\ faults < MaxFaults
    /\ client[c] = "open" \/ server[c]
    /\ ~cut[c]
    /\ faults' = faults + 1
    /\ cut' = [cut EXCEPT ![c] = TRUE]
    /\ UNCHANGED <<sandboxVars, loopVars, connVars, serverVars>>

-----------------------------------------------------------------------------
(***************************************************************************)
(* Both together.                                                          *)
(***************************************************************************)

\* go wsSessionLoop(ctx); without WS_SERVER_URL it returns at once.
SessionStart ==
    /\ Setup
    /\ ws' \in {"top", "ended"}
    /\ UNCHANGED <<cur, wsShown, connVars, serverVars, netVars>>

\* The kernel closes the sockets of a process that is gone.
SessionDies ==
    /\ ws' = "off"
    /\ cur' = NoConn
    /\ wsShown' = FALSE
    /\ client' = [c \in Conns |-> IF client[c] = "open" THEN "closed" ELSE client[c]]
    /\ reader' = [c \in Conns |-> "none"]
    /\ errs' = [c \in Conns |-> 0]
    /\ UNCHANGED <<serverVars, netVars>>

StopsItself == (SignalDefault \/ PhaseCancelled \/ HoldCancelled) /\ SessionDies

Init ==
    /\ SandboxInit
    /\ ws = "off"
    /\ cur = NoConn
    /\ wsShown = FALSE
    /\ client = [c \in Conns |-> "none"]
    /\ reader = [c \in Conns |-> "none"]
    /\ errs = [c \in Conns |-> 0]
    /\ server = [c \in Conns |-> FALSE]
    /\ cut = [c \in Conns |-> FALSE]
    /\ active = 0
    /\ faults = 0

LoopStep ==
    \/ WsTop \/ DialFails \/ WsLost \/ BackoffOver
    \/ SelectCancelled \/ SelectError \/ PingFails

ConnStep(c) ==
    \/ Dial(c) \/ DialHalf(c)
    \/ ReadFails(c) \/ ReaderReports(c)
    \/ ServerEnds(c) \/ ServerTimeout(c) \/ Cut(c)

Next ==
    \/ SandboxStep /\ UNCHANGED wsVars
    \/ SessionStart
    \/ StopsItself
    \/ Killed /\ SessionDies
    \/ LoopStep
    \/ \E c \in Conns : ConnStep(c)
    \/ ServerRestart

Spec == Init /\ [][Next]_vars
=============================================================================
