------------------------------ MODULE Terminal ------------------------------
(***************************************************************************)
(* A terminal session (controller/terminal.go): the browser's WebSocket,   *)
(* handleTerminal, the goroutine of the exec client that copies from       *)
(* wsStream.Read to the shell's stdin, and the shell.  Output (Write) has  *)
(* no state of its own and is left out.                                    *)
(***************************************************************************)
EXTENDS Naturals, Sequences

CONSTANTS
    Characters, \* what a message consists of
    Messages,   \* what the browser may send, as sequences of characters
    Brace,      \* the opening brace
    Buf,        \* bytes the copier asks Read for
    MaxSent     \* bound: messages of the browser

ASSUME MessagesAssumption == Messages \subseteq Seq(Characters)
ASSUME BufAssumption == Buf \in Nat \ {0}
ASSUME SentAssumption == MaxSent \in Nat

VARIABLES
    handler,   \* handleTerminal: "start", "streaming" or "ended"
    open,      \* the browser's end of the WebSocket
    sent,      \* what the browser has sent
    wire,      \* of it, what ReadMessage has not returned yet
    readBuf,   \* the rest of the message Read has begun
    copier,    \* the stdin goroutine: "none", "copying" or "ended"
    shell,     \* "none", "running" or "exited"
    typed      \* what has reached the shell's stdin

browserVars == <<open, sent>>
streamVars == <<wire, readBuf, copier, typed>>
vars == <<handler, browserVars, streamVars, shell>>

-----------------------------------------------------------------------------
(***************************************************************************)
(* handleTerminal.                                                         *)
(***************************************************************************)

\* No such sandbox, no upgrade, or no exec session: the connection is closed.
Refuse ==
    /\ handler = "start"
    /\ handler' = "ended"
    /\ UNCHANGED <<browserVars, streamVars, shell>>

Stream ==
    /\ handler = "start"
    /\ handler' = "streaming"
    /\ copier' = "copying"
    /\ shell' = "running"
    /\ UNCHANGED <<browserVars, wire, readBuf, typed>>

\* The shell is gone, or the 30 minutes are over; the deferred functions close
\* the connection and cancel.
StreamEnds ==
    /\ handler = "streaming"
    /\ shell = "exited"
    /\ handler' = "ended"
    /\ UNCHANGED <<browserVars, streamVars, shell>>

Expire ==
    /\ handler = "streaming"
    /\ handler' = "ended"
    /\ UNCHANGED <<browserVars, streamVars, shell>>

-----------------------------------------------------------------------------
(***************************************************************************)
(* The goroutine that copies stdin: Read, and a write to the shell.        *)
(***************************************************************************)
Reading == copier = "copying" /\ handler = "streaming" /\ shell = "running"

\* Mutant: readBuf = msg, not what is left of it.
DeliverAgain(msg) ==
    LET n == IF Len(msg) < Buf THEN Len(msg) ELSE Buf
    IN  /\ typed' = typed \o SubSeq(msg, 1, n)
        /\ readBuf' = msg

\* copy(p, msg), and what it leaves.
Deliver(msg) ==
    LET n == IF Len(msg) < Buf THEN Len(msg) ELSE Buf
    IN  /\ typed' = typed \o SubSeq(msg, 1, n)
        /\ readBuf' = SubSeq(msg, n + 1, Len(msg))

\* Mutant: the rest of a message is tested for the brace as well.
ReadLeftoverTested ==
    /\ Reading
    /\ readBuf # <<>>
    /\ IF readBuf[1] = Brace THEN readBuf' = <<>> /\ UNCHANGED typed
       ELSE Deliver(readBuf)
    /\ UNCHANGED <<handler, browserVars, wire, copier, shell>>

ReadLeftover ==
    /\ Reading
    /\ readBuf # <<>>
    /\ Deliver(readBuf)
    /\ UNCHANGED <<handler, browserVars, wire, copier, shell>>

\* A message that begins with a brace is taken for a resize and dropped.
IsResize(msg) == msg # <<>> /\ msg[1] = Brace

ReadMessage ==
    /\ Reading
    /\ readBuf = <<>>
    /\ wire # <<>>
    /\ wire' = Tail(wire)
    /\ IF IsResize(Head(wire)) THEN UNCHANGED <<typed, readBuf>>
       ELSE Deliver(Head(wire))
    /\ UNCHANGED <<handler, browserVars, copier, shell>>

\* ReadMessage fails after the browser has closed; the shell's stdin is closed.
ReadFails ==
    /\ copier = "copying"
    /\ readBuf = <<>>
    /\ wire = <<>>
    /\ ~open
    /\ copier' = "ended"
    /\ UNCHANGED <<handler, browserVars, wire, readBuf, typed, shell>>

\* The bytes read cannot be written to a shell that has exited.
WriteFails ==
    /\ copier = "copying"
    /\ shell = "exited"
    /\ readBuf # <<>> \/ wire # <<>>
    /\ copier' = "ended"
    /\ UNCHANGED <<handler, browserVars, wire, readBuf, typed, shell>>

\* Mutant: handleTerminal returns without closing the connection.
NeverUnblocked == FALSE

\* conn.Close makes the blocked ReadMessage return, and a write fails too.
ReadUnblocked ==
    /\ copier = "copying"
    /\ handler = "ended"
    /\ copier' = "ended"
    /\ UNCHANGED <<handler, browserVars, wire, readBuf, typed, shell>>

-----------------------------------------------------------------------------
(***************************************************************************)
(* The browser and the shell.                                              *)
(***************************************************************************)
Send(msg) ==
    /\ open
    /\ handler = "streaming"
    /\ Len(sent) < MaxSent
    /\ sent' = Append(sent, msg)
    /\ wire' = Append(wire, msg)
    /\ UNCHANGED <<handler, open, readBuf, copier, typed, shell>>

CloseTab ==
    /\ open
    /\ open' = FALSE
    /\ UNCHANGED <<handler, sent, streamVars, shell>>

\* By itself, at the end of its input, or because its pod is deleted.
ShellExits ==
    /\ shell = "running"
    /\ shell' = "exited"
    /\ UNCHANGED <<handler, browserVars, streamVars>>

Init ==
    /\ handler = "start"
    /\ open = TRUE
    /\ sent = <<>>
    /\ wire = <<>>
    /\ readBuf = <<>>
    /\ copier = "none"
    /\ shell = "none"
    /\ typed = <<>>

CopierStep == ReadLeftover \/ ReadMessage \/ ReadFails \/ WriteFails \/ ReadUnblocked

Next ==
    \/ Refuse \/ Stream \/ StreamEnds \/ Expire
    \/ CopierStep
    \/ \E msg \in Messages : Send(msg)
    \/ CloseTab
    \/ ShellExits

\* The copier runs, the exec client notices the shell's end, time passes.
\* The shell need not exit and the browser need not do anything.
Spec == Init /\ [][Next]_vars
FairSpec == Spec /\ WF_vars(CopierStep) /\ WF_vars(StreamEnds) /\ WF_vars(Expire)

-----------------------------------------------------------------------------
\* The type invariant; of a message Read has begun less than all is left.
TerminalTypeOK ==
    /\ handler \in {"start", "streaming", "ended"}
    /\ open \in BOOLEAN
    /\ sent \in Seq(Messages)
    /\ wire \in Seq(Messages)
    /\ \/ readBuf = <<>>
       \/ \E m \in Messages : \E k \in 2..Len(m) : readBuf = SubSeq(m, k, Len(m))
    /\ copier \in {"none", "copying", "ended"}
    /\ shell \in {"none", "running", "exited"}
    /\ typed \in Seq(Characters)

\* What a message types if it is not split.
Keys(msg) == IF IsResize(msg) THEN <<>> ELSE msg

\* cut[i] is where the keys of the i-th message end in what has been read.
CutsInto(cut, keys, msgs) ==
    /\ cut[0] = 0
    /\ cut[Len(msgs)] = Len(keys)
    /\ \A i \in 1..Len(msgs) :
          /\ cut[i] = cut[i - 1] + Len(Keys(msgs[i]))
          /\ \A k \in 1..Len(Keys(msgs[i])) : keys[cut[i - 1] + k] = Keys(msgs[i])[k]

\* The keys are those of the messages, one message after the other.
AreTheKeysOf(keys, msgs) ==
    \E cut \in [0..Len(msgs) -> 0..Len(keys)] : CutsInto(cut, keys, msgs)

\* The shell reads what was typed: the characters of all messages that do not
\* begin with a brace, in order, whole, however Read had to split them; a brace
\* inside a message is typed, also when a piece begins with it, and what has not
\* been read yet is still to come (wsStream.Read).
ShellReadsKeys ==
    \E taken \in 0..Len(sent) :
        /\ wire = SubSeq(sent, taken + 1, Len(sent))
        /\ AreTheKeysOf(typed \o readBuf, SubSeq(sent, 1, taken))

\* Every session ends, with a shell that never exits and a browser that stays,
\* and leaves no goroutine blocked in ReadMessage behind (the timeout and the
\* deferred Close of handleTerminal).
SessionsEnd == handler = "streaming" ~> (handler = "ended" /\ copier = "ended")
=============================================================================
