--------------------------- MODULE TerminalProofs ---------------------------
(***************************************************************************)
(* Proofs about Terminal: its type invariant, and that the shell reads     *)
(* what was typed, for every set of messages, every size of a Read and     *)
(* any number of messages.                                                 *)
(***************************************************************************)
EXTENDS Terminal, SequenceTheorems, TLAPS

-----------------------------------------------------------------------------
(***************************************************************************)
(* Deliver hands over the beginning of a message and keeps the rest.       *)
(***************************************************************************)

\* The rest is a suffix, a proper one unless the message is empty, and no
\* character is lost or doubled.
LEMMA DeliverSplits ==
    ASSUME NEW msg \in Seq(Characters), typed \in Seq(Characters), Deliver(msg)
    PROVE  \E n \in 0..Len(msg) :
             /\ msg # <<>> => n > 0
             /\ readBuf' = SubSeq(msg, n + 1, Len(msg))
             /\ typed' \in Seq(Characters)
             /\ typed' \o readBuf' = typed \o msg
<1> DEFINE n == IF Len(msg) < Buf THEN Len(msg) ELSE Buf
           first == SubSeq(msg, 1, n)
           rest == SubSeq(msg, n + 1, Len(msg))
<1>1. typed' = typed \o first /\ readBuf' = rest
  BY DEF Deliver
<1>2. n \in 0..Len(msg) /\ (msg # <<>> => n > 0)
  BY BufAssumption
<1> HIDE DEF n
<1>3. first \in Seq(Characters) /\ rest \in Seq(Characters)
  BY <1>2
<1>4. first \o rest = msg
  <2>1. first \o rest = SubSeq(msg, 1, Len(msg))
    <3>1. /\ 1 \in 1..Len(msg) + 1
          /\ n \in 1 - 1..Len(msg)
          /\ Len(msg) \in n..Len(msg)
      BY <1>2
    <3> QED
      BY <3>1, ConcatAdjacentSubSeq
  <2>2. SubSeq(msg, 1, Len(msg)) = msg
    BY SubSeqFull
  <2> QED
    BY <2>1, <2>2
<1>5. (typed \o first) \o rest = typed \o msg
  <2> HIDE DEF first, rest
  <2>1. (typed \o first) \o rest = typed \o (first \o rest)
    BY <1>3, ConcatAssociative
  <2> QED
    BY <1>4, <2>1
<1>6. typed \o first \in Seq(Characters)
  BY <1>3, ConcatProperties
<1> QED
  BY <1>1, <1>2, <1>5, <1>6

-----------------------------------------------------------------------------
(***************************************************************************)
(* The type invariant.                                                     *)
(***************************************************************************)

\* What is left of a message: nothing, or a suffix of it that is not all.
RestOfAMessage(rest) ==
    \/ rest = <<>>
    \/ \E m \in Messages : \E k \in 2..Len(m) : rest = SubSeq(m, k, Len(m))

LEMMA RestIsKeys ==
    ASSUME NEW rest, RestOfAMessage(rest)
    PROVE  rest \in Seq(Characters)
<1>1. ASSUME NEW m \in Messages, NEW k \in 2..Len(m), rest = SubSeq(m, k, Len(m))
      PROVE  rest \in Seq(Characters)
  <2>1. m \in Seq(Characters)
    BY MessagesAssumption
  <2> QED
    BY <1>1, <2>1
<1>2. <<>> \in Seq(Characters)
  OBVIOUS
<1> QED
  BY <1>1, <1>2 DEF RestOfAMessage

\* A Read of a message, or of what was left of one, leaves less of it.
LEMMA DeliverLeavesARest ==
    ASSUME NEW m \in Messages, NEW k \in 1..Len(m) + 1, typed \in Seq(Characters),
           k > Len(m) => m = <<>>,
           Deliver(SubSeq(m, k, Len(m)))
    PROVE  RestOfAMessage(readBuf')
<1> DEFINE msg == SubSeq(m, k, Len(m))
<1>1. m \in Seq(Characters) /\ Len(m) \in Nat
  BY MessagesAssumption
<1>2. msg \in Seq(Characters) /\ Len(msg) = Len(m) + 1 - k
  BY <1>1
<1>3. PICK n \in 0..Len(msg) : /\ msg # <<>> => n > 0
                               /\ readBuf' = SubSeq(msg, n + 1, Len(msg))
  <2> HIDE DEF msg
  <2> QED
    BY <1>2, DeliverSplits DEF msg
<1>4. CASE n = Len(msg)
  <2>1. readBuf' = <<>>
    BY <1>2, <1>3, <1>4
  <2> QED
    BY <2>1 DEF RestOfAMessage
<1>5. CASE n < Len(msg)
  <2>1. k + n \in 2..Len(m)
    BY <1>1, <1>2, <1>3, <1>5
  <2>2. readBuf' = SubSeq(m, k + n, Len(m))
    BY <1>1, <1>2, <1>3, <1>5
  <2> QED
    BY <2>1, <2>2 DEF RestOfAMessage
<1> QED
  BY <1>2, <1>3, <1>4, <1>5

\* TerminalTypeOK is inductive.
LEMMA TypeInit == Init => TerminalTypeOK
  BY DEF Init, TerminalTypeOK

LEMMA TypeStep == TerminalTypeOK /\ [Next]_vars => TerminalTypeOK'
<1> SUFFICES ASSUME TerminalTypeOK, [Next]_vars PROVE TerminalTypeOK'
  OBVIOUS
<1> USE DEF TerminalTypeOK
<1>1. CASE Refuse
  BY <1>1 DEF Refuse, browserVars, streamVars
<1>2. CASE Stream
  BY <1>2 DEF Stream, browserVars
<1>3. CASE StreamEnds
  BY <1>3 DEF StreamEnds, browserVars, streamVars
<1>4. CASE Expire
  BY <1>4 DEF Expire, browserVars, streamVars
<1>5. CASE ReadLeftover
  <2>1. PICK m \in Messages : \E k \in 2..Len(m) : readBuf = SubSeq(m, k, Len(m))
    BY <1>5 DEF ReadLeftover
  <2>2. PICK k \in 2..Len(m) : readBuf = SubSeq(m, k, Len(m))
    BY <2>1
  <2>3. RestOfAMessage(readBuf')
    <3>1. Deliver(SubSeq(m, k, Len(m)))
      BY <1>5, <2>2 DEF ReadLeftover
    <3>2. m \in Seq(Characters)
      BY MessagesAssumption
    <3>3. k \in 1..Len(m) + 1 /\ ~(k > Len(m))
      BY <2>2, <3>2
    <3> QED
      BY <3>1, <3>3, DeliverLeavesARest
  <2>4. readBuf \in Seq(Characters)
    BY <2>2, MessagesAssumption
  <2>5. typed' \in Seq(Characters)
    BY <1>5, <2>4, DeliverSplits DEF ReadLeftover
  <2> QED
    BY <1>5, <2>3, <2>5 DEF ReadLeftover, browserVars, RestOfAMessage
<1>6. CASE ReadMessage
  <2>1. wire' \in Seq(Messages) /\ Head(wire) \in Messages
    BY <1>6 DEF ReadMessage
  <2>2. CASE IsResize(Head(wire))
    BY <1>6, <2>1, <2>2 DEF ReadMessage, browserVars
  <2>3. CASE ~IsResize(Head(wire))
    <3>1. PICK m \in Messages : m = Head(wire)
      BY <2>1
    <3>2. m \in Seq(Characters) /\ m = SubSeq(m, 1, Len(m)) /\ Deliver(m)
      BY <1>6, <2>3, <3>1, MessagesAssumption, SubSeqFull DEF ReadMessage
    <3>3. RestOfAMessage(readBuf')
      <4>1. 1 \in 1..Len(m) + 1 /\ (1 > Len(m) => m = <<>>)
        BY <3>2
      <4>2. Deliver(SubSeq(m, 1, Len(m)))
        BY <3>2
      <4> QED
        BY <4>1, <4>2, DeliverLeavesARest
    <3>4. typed' \in Seq(Characters)
      BY <3>2, DeliverSplits
    <3> QED
      BY <1>6, <2>1, <3>3, <3>4 DEF ReadMessage, browserVars, RestOfAMessage
  <2> QED
    BY <2>2, <2>3
<1>7. CASE ReadFails
  BY <1>7 DEF ReadFails, browserVars
<1>8. CASE WriteFails
  BY <1>8 DEF WriteFails, browserVars
<1>9. CASE ReadUnblocked
  BY <1>9 DEF ReadUnblocked, browserVars
<1>10. ASSUME NEW msg \in Messages, Send(msg) PROVE TerminalTypeOK'
  BY <1>10 DEF Send
<1>11. CASE CloseTab
  BY <1>11 DEF CloseTab, streamVars
<1>12. CASE ShellExits
  BY <1>12 DEF ShellExits, browserVars, streamVars
<1>13. CASE UNCHANGED vars
  BY <1>13 DEF vars, browserVars, streamVars
<1> QED
  BY <1>1, <1>2, <1>3, <1>4, <1>5, <1>6, <1>7, <1>8, <1>9, <1>10, <1>11, <1>12, <1>13
     DEF Next, CopierStep

\* The variables stay in their types; of a message that Read has begun a proper
\* suffix is left, whatever the messages and the size of the Read
\* (wsStream.Read).
THEOREM TerminalTypeOKAlways == Spec => []TerminalTypeOK
<1> QED
  BY TypeInit, TypeStep, PTL DEF Spec

-----------------------------------------------------------------------------
(***************************************************************************)
(* The shell reads what was typed.                                         *)
(***************************************************************************)

LEMMA KeysType == \A msg \in Messages : Keys(msg) \in Seq(Characters)
  BY MessagesAssumption DEF Keys

\* One more message, and its keys.
LEMMA OneMoreMessage ==
    ASSUME NEW keys \in Seq(Characters), NEW msgs \in Seq(Messages),
           NEW msg \in Messages, AreTheKeysOf(keys, msgs)
    PROVE  AreTheKeysOf(keys \o Keys(msg), Append(msgs, msg))
<1> DEFINE more == keys \o Keys(msg)
           all == Append(msgs, msg)
<1>1. PICK cut \in [0..Len(msgs) -> 0..Len(keys)] : CutsInto(cut, keys, msgs)
  BY DEF AreTheKeysOf
<1>2. Keys(msg) \in Seq(Characters)
  BY KeysType
<1>3. /\ more \in Seq(Characters)
      /\ Len(more) = Len(keys) + Len(Keys(msg))
      /\ \A i \in 1..Len(more) :
           more[i] = IF i <= Len(keys) THEN keys[i] ELSE Keys(msg)[i - Len(keys)]
  BY <1>2, ConcatProperties
<1>4. /\ all \in Seq(Messages)
      /\ Len(all) = Len(msgs) + 1
      /\ \A i \in 1..Len(msgs) : all[i] = msgs[i]
      /\ all[Len(msgs) + 1] = msg
  BY AppendProperties
<1> HIDE DEF more, all
<1> DEFINE cut2 == [i \in 0..Len(all) |-> IF i <= Len(msgs) THEN cut[i] ELSE Len(more)]
<1>5. /\ cut2 \in [0..Len(all) -> 0..Len(more)]
      /\ \A i \in 0..Len(msgs) : cut2[i] = cut[i]
      /\ cut2[Len(all)] = Len(more)
  BY <1>1, <1>2, <1>3, <1>4
<1> HIDE DEF cut2
<1>6. ASSUME NEW i \in 1..Len(all)
      PROVE  /\ cut2[i] = cut2[i - 1] + Len(Keys(all[i]))
             /\ \A k \in 1..Len(Keys(all[i])) : more[cut2[i - 1] + k] = Keys(all[i])[k]
  <2>1. CASE i \in 1..Len(msgs)
    <3>1. all[i] = msgs[i] /\ Keys(msgs[i]) \in Seq(Characters)
      BY <1>4, <2>1, KeysType
    <3>2. /\ cut2[i] = cut[i]
          /\ cut2[i - 1] = cut[i - 1]
          /\ cut[i] \in 0..Len(keys)
          /\ cut[i - 1] \in 0..Len(keys)
      <4>1. i \in 0..Len(msgs) /\ i - 1 \in 0..Len(msgs)
        BY <2>1
      <4> QED
        BY <1>1, <1>5, <4>1
    <3>3. /\ cut[i] = cut[i - 1] + Len(Keys(msgs[i]))
          /\ \A k \in 1..Len(Keys(msgs[i])) : keys[cut[i - 1] + k] = Keys(msgs[i])[k]
      BY <1>1, <2>1 DEF CutsInto
    <3>4. ASSUME NEW k \in 1..Len(Keys(msgs[i]))
          PROVE  more[cut[i - 1] + k] = keys[cut[i - 1] + k]
      <4>1. cut[i - 1] + k \in 1..Len(keys)
        BY <3>1, <3>2, <3>3
      <4> QED
        BY <1>2, <1>3, <4>1
    <3> QED
      BY <3>1, <3>2, <3>3, <3>4
  <2>2. CASE i = Len(msgs) + 1
    <3>1. all[i] = msg /\ cut2[i] = Len(more)
      BY <1>4, <1>5, <2>2
    <3>2. cut2[i - 1] = Len(keys)
      <4>1. i - 1 = Len(msgs) /\ Len(msgs) \in 0..Len(msgs)
        BY <2>2
      <4> QED
        BY <1>1, <1>5, <4>1 DEF CutsInto
    <3>3. ASSUME NEW k \in 1..Len(Keys(msg))
          PROVE  more[Len(keys) + k] = Keys(msg)[k]
      <4>1. /\ Len(keys) + k \in 1..Len(more)
            /\ ~(Len(keys) + k <= Len(keys))
            /\ (Len(keys) + k) - Len(keys) = k
        BY <1>2, <1>3
      <4> QED
        BY <1>3, <4>1
    <3> QED
      BY <1>3, <3>1, <3>2, <3>3
  <2> QED
    BY <1>4, <2>1, <2>2
<1>7. cut2[0] = 0
  BY <1>1, <1>5 DEF CutsInto
<1>8. CutsInto(cut2, more, all)
  BY <1>5, <1>6, <1>7 DEF CutsInto
<1> QED
  BY <1>5, <1>8 DEF AreTheKeysOf, more, all

LEMMA KeysInit == Init => ShellReadsKeys
<1> SUFFICES ASSUME Init PROVE ShellReadsKeys
  OBVIOUS
<1>1. typed \o readBuf = <<>> /\ SubSeq(sent, 1, 0) = <<>> /\ Len(sent) = 0
  BY DEF Init
<1>2. wire = SubSeq(sent, 0 + 1, Len(sent))
  BY DEF Init
<1> DEFINE cut == [i \in 0..0 |-> 0]
<1>3. cut \in [0..Len(<<>>) -> 0..Len(<<>>)] /\ CutsInto(cut, <<>>, <<>>)
  BY DEF CutsInto
<1> QED
  BY <1>1, <1>2, <1>3 DEF ShellReadsKeys, AreTheKeysOf

\* What neither the browser nor a Read does leaves the keys alone.
LEMMA KeysKept ==
    ASSUME ShellReadsKeys, UNCHANGED <<sent, wire, typed, readBuf>>
    PROVE  ShellReadsKeys'
  BY DEF ShellReadsKeys

\* A message that is sent is still to come.
LEMMA KeysSent ==
    ASSUME TerminalTypeOK, ShellReadsKeys, NEW msg \in Messages, Send(msg)
    PROVE  ShellReadsKeys'
<1>1. PICK taken \in 0..Len(sent) :
        /\ wire = SubSeq(sent, taken + 1, Len(sent))
        /\ AreTheKeysOf(typed \o readBuf, SubSeq(sent, 1, taken))
  BY DEF ShellReadsKeys
<1>2. /\ sent' = Append(sent, msg)
      /\ wire' = Append(wire, msg)
      /\ UNCHANGED <<typed, readBuf>>
  BY DEF Send
<1>3. /\ sent' \in Seq(Messages)
      /\ Len(sent') = Len(sent) + 1
      /\ sent \in Seq(Messages)
      /\ wire \in Seq(Messages)
      /\ sent'[Len(sent')] = msg
  BY <1>2, AppendProperties DEF TerminalTypeOK
<1>4. SubSeq(sent', 1, taken) = SubSeq(sent, 1, taken)
  BY <1>2, <1>3
<1>5. wire' = SubSeq(sent', taken + 1, Len(sent'))
  <2>1. /\ taken + 1 \in 1..Len(sent')
        /\ Len(sent') \in taken + 1..Len(sent')
        /\ Len(sent') - 1 = Len(sent)
    BY <1>3
  <2>2. SubSeq(sent', taken + 1, Len(sent'))
          = SubSeq(sent', taken + 1, Len(sent)) \o <<msg>>
    BY <1>3, <2>1, SubSeqRecursiveSecond
  <2>3. SubSeq(sent', taken + 1, Len(sent)) = wire
    BY <1>1, <1>2, <1>3
  <2> QED
    BY <1>2, <1>3, <2>2, <2>3, AppendIsConcat
<1>6. taken \in 0..Len(sent')
  BY <1>3
<1>7. AreTheKeysOf(typed' \o readBuf', SubSeq(sent', 1, taken))
  BY <1>1, <1>2, <1>4
<1> QED
  BY <1>5, <1>6, <1>7 DEF ShellReadsKeys

\* The rest of a message follows what was read of it.
LEMMA KeysOfLeftover ==
    ASSUME TerminalTypeOK, ShellReadsKeys, ReadLeftover
    PROVE  ShellReadsKeys'
<1>1. readBuf \in Seq(Characters)
  BY RestIsKeys DEF TerminalTypeOK, RestOfAMessage
<1>2. typed' \o readBuf' = typed \o readBuf /\ UNCHANGED <<sent, wire>>
  BY <1>1, DeliverSplits DEF ReadLeftover, TerminalTypeOK, browserVars
<1> QED
  BY <1>2 DEF ShellReadsKeys

\* A message is read when nothing is left of the one before.
LEMMA KeysOfMessage ==
    ASSUME TerminalTypeOK, ShellReadsKeys, ReadMessage
    PROVE  ShellReadsKeys'
<1>1. PICK taken \in 0..Len(sent) :
        /\ wire = SubSeq(sent, taken + 1, Len(sent))
        /\ AreTheKeysOf(typed \o readBuf, SubSeq(sent, 1, taken))
  BY DEF ShellReadsKeys
<1>2. /\ sent \in Seq(Messages)
      /\ wire \in Seq(Messages)
      /\ typed \in Seq(Characters)
      /\ wire # <<>>
      /\ readBuf = <<>>
      /\ wire' = Tail(wire)
      /\ sent' = sent
  BY DEF TerminalTypeOK, ReadMessage, browserVars
<1>3. taken + 1 \in 1..Len(sent) /\ Len(sent) \in taken + 1..Len(sent)
  BY <1>1, <1>2
<1>4. /\ Head(wire) = sent[taken + 1]
      /\ wire' = SubSeq(sent, (taken + 1) + 1, Len(sent))
  BY <1>1, <1>2, <1>3, HeadTailOfSubSeq
<1> DEFINE msg == sent[taken + 1]
           read == SubSeq(sent, 1, taken)
<1>5. msg \in Messages /\ read \in Seq(Messages)
  BY <1>2, <1>3
<1>6. SubSeq(sent', 1, taken + 1) = Append(read, msg)
  BY <1>2, <1>3
<1> HIDE DEF msg, read
<1>7. typed' \o readBuf' = typed \o Keys(msg)
  <2>1. CASE IsResize(msg)
    <3>1. typed' \o readBuf' = typed /\ Keys(msg) = <<>>
      BY <1>2, <1>4, <2>1, ConcatEmptySeq DEF ReadMessage, Keys, msg
    <3>2. typed \o <<>> = typed
      BY <1>2, ConcatEmptySeq
    <3> QED
      BY <3>1, <3>2
  <2>2. CASE ~IsResize(msg)
    <3>1. Deliver(msg) /\ Keys(msg) = msg
      BY <1>4, <2>2 DEF ReadMessage, Keys, msg
    <3>2. msg \in Seq(Characters)
      BY <1>5, MessagesAssumption
    <3> QED
      BY <1>2, <3>1, <3>2, DeliverSplits
  <2> QED
    BY <2>1, <2>2
<1>8. typed \o readBuf = typed
  BY <1>2, ConcatEmptySeq
<1>9. AreTheKeysOf(typed' \o readBuf', SubSeq(sent', 1, taken + 1))
  <2>1. AreTheKeysOf(typed, read)
    BY <1>1, <1>8 DEF read
  <2> QED
    BY <1>2, <1>5, <1>6, <1>7, <2>1, OneMoreMessage
<1>10. taken + 1 \in 0..Len(sent')
  BY <1>2, <1>3
<1> QED
  BY <1>2, <1>4, <1>9, <1>10 DEF ShellReadsKeys

LEMMA KeysStep == TerminalTypeOK /\ ShellReadsKeys /\ [Next]_vars => ShellReadsKeys'
<1> SUFFICES ASSUME TerminalTypeOK, ShellReadsKeys, [Next]_vars PROVE ShellReadsKeys'
  OBVIOUS
<1>1. CASE Refuse
  BY <1>1, KeysKept DEF Refuse, browserVars, streamVars
<1>2. CASE Stream
  BY <1>2, KeysKept DEF Stream, browserVars
<1>3. CASE StreamEnds
  BY <1>3, KeysKept DEF StreamEnds, browserVars, streamVars
<1>4. CASE Expire
  BY <1>4, KeysKept DEF Expire, browserVars, streamVars
<1>5. CASE ReadLeftover
  BY <1>5, KeysOfLeftover
<1>6. CASE ReadMessage
  BY <1>6, KeysOfMessage
<1>7. CASE ReadFails
  BY <1>7, KeysKept DEF ReadFails, browserVars
<1>8. CASE WriteFails
  BY <1>8, KeysKept DEF WriteFails, browserVars
<1>9. CASE ReadUnblocked
  BY <1>9, KeysKept DEF ReadUnblocked, browserVars
<1>10. ASSUME NEW msg \in Messages, Send(msg) PROVE ShellReadsKeys'
  BY <1>10, KeysSent
<1>11. CASE CloseTab
  BY <1>11, KeysKept DEF CloseTab, streamVars
<1>12. CASE ShellExits
  BY <1>12, KeysKept DEF ShellExits, browserVars, streamVars
<1>13. CASE UNCHANGED vars
  BY <1>13, KeysKept DEF vars, browserVars, streamVars
<1> QED
  BY <1>1, <1>2, <1>3, <1>4, <1>5, <1>6, <1>7, <1>8, <1>9, <1>10, <1>11, <1>12, <1>13
     DEF Next, CopierStep

\* The shell has read, and the copier still holds, the characters of the messages
\* taken from the WebSocket, in order and whole, those that begin with a brace
\* left out; the other messages are still to come (wsStream.Read).
THEOREM ShellReadsKeysAlways == Spec => []ShellReadsKeys
<1>1. Init => TerminalTypeOK /\ ShellReadsKeys
  BY TypeInit, KeysInit
<1>2. TerminalTypeOK /\ ShellReadsKeys /\ [Next]_vars => (TerminalTypeOK /\ ShellReadsKeys)'
  BY TypeStep, KeysStep
<1> QED
  BY <1>1, <1>2, PTL DEF Spec
=============================================================================
