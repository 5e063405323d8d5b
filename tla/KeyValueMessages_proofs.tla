---------------------- MODULE KeyValueMessages_proofs ----------------------
(* Safety of the point-to-point messages of a KeyValueContext, for any      *)
(* ranks, tags, payloads, threads and number of messages.                   *)
EXTENDS KeyValueMessages, TLAPS

Sending == {"send", "ssend"}
Receiving == {"recv", "recv_ack"}

\* The send counter of a channel counts the messages whose key was chosen.
CountersOK ==
  \A ch \in Channels : sendSeq[ch] = Len(sent[ch])

\* A call holds a number its counter has passed, and a sender's payload is the
\* message of that number.
CallsOK ==
  \A t \in Callers : LET c == call[t] IN
    /\ c.op \in Sending \cup {"ssend_ack"} =>
         c.n < Len(sent[c.ch]) /\ c.data = sent[c.ch][c.n + 1]
    /\ c.op \in Receiving => c.n < recvSeq[c.ch]
    /\ c.op = "recv_ack" => \E m \in received[c.ch] : m[1] = c.n

\* No two sends, and no two receives, hold the same key.
KeysHeldOnce ==
  \A t, u \in Callers :
    /\ t # u
    /\ \/ call[t].op \in Sending /\ call[u].op \in Sending
       \/ call[t].op \in Receiving /\ call[u].op \in Receiving
    => <<call[t].ch, call[t].n>> # <<call[u].ch, call[u].n>>

\* What the store holds: messages as sent, acknowledgements of copied messages.
StoreOK ==
  \A ch \in Channels, n \in Nat :
    /\ MessageKey(ch, n) \in DOMAIN store =>
         n < Len(sent[ch]) /\ store[MessageKey(ch, n)] = sent[ch][n + 1]
    /\ AckKey(ch, n) \in DOMAIN store =>
         /\ n < recvSeq[ch]
         /\ \E m \in received[ch] : m[1] = n

\* A receive in progress has not been acknowledged.
AcksUnwritten ==
  \A t \in Callers :
    call[t].op \in Receiving => AckKey(call[t].ch, call[t].n) \notin DOMAIN store

IInv == TypeOK /\ CountersOK /\ CallsOK /\ KeysHeldOnce /\ StoreOK /\ AcksUnwritten
        /\ PutsAreFresh /\ ReceivesInOrder /\ SynchronousSend

-----------------------------------------------------------------------------
\* Keys of different messages differ, and no acknowledgement is a message.
LEMMA KeysDiffer ==
  \A ch1, ch2, n1, n2 :
    /\ MessageKey(ch1, n1) = MessageKey(ch2, n2) <=> ch1 = ch2 /\ n1 = n2
    /\ AckKey(ch1, n1) = AckKey(ch2, n2) <=> ch1 = ch2 /\ n1 = n2
    /\ MessageKey(ch1, n1) # AckKey(ch2, n2)
<1>1. \A ch, n : Len(MessageKey(ch, n)) = 3 /\ Len(AckKey(ch, n)) = 4
  BY DEF MessageKey, AckKey
<1> QED BY <1>1 DEF MessageKey, AckKey

LEMMA NoCallIsACall == NoCall \in Calls /\ NoCall.op = "idle"
  BY MessagesAssumption DEF NoCall, Calls, Ops, Sizes

LEMMA InitIInv == Init => IInv
<1> SUFFICES ASSUME Init PROVE IInv
  OBVIOUS
<1> USE NoCallIsACall
<1>1. TypeOK
  BY DEF Init, TypeOK
<1>2. CountersOK /\ CallsOK /\ KeysHeldOnce
  BY DEF Init, CountersOK, CallsOK, KeysHeldOnce, Sending, Receiving
<1>3. StoreOK /\ AcksUnwritten /\ PutsAreFresh
  BY DEF Init, StoreOK, AcksUnwritten, PutsAreFresh
<1>4. ReceivesInOrder /\ SynchronousSend
  BY DEF Init, ReceivesInOrder, SynchronousSend
<1> QED BY <1>1, <1>2, <1>3, <1>4 DEF IInv
-----------------------------------------------------------------------------
\* What Put does to the store, without looking inside keys.
LEMMA PutEffect ==
  ASSUME NEW key, NEW value, Put(key, value)
  PROVE  /\ DOMAIN store' = DOMAIN store \cup {key}
         /\ store'[key] = value
         /\ \A k \in DOMAIN store : k # key => store'[k] = store[k]
  BY DEF Put

\* A new number for a sender: the counter and the history grow together.
LEMMA StartSendStep ==
  ASSUME IInv, NEW t \in Threads, NEW op \in {"send", "ssend"}, NEW ch \in Channels,
         NEW v \in Payloads, StartSend(t, op, ch, v)
  PROVE  IInv'
<1> DEFINE n == sendSeq[ch]
           new == [NoCall EXCEPT !.op = op, !.ch = ch, !.data = v, !.n = n]
<1>1. /\ t \in Callers /\ n \in Nat /\ n = Len(sent[ch])
  BY DEF IInv, TypeOK, Callers, CountersOK
<1>2. /\ new \in Calls /\ new.op = op /\ new.ch = ch /\ new.data = v /\ new.n = n
  BY <1>1, NoCallIsACall DEF Calls, Ops
<1>3. /\ call' = [call EXCEPT ![t] = new]
      /\ sendSeq' = [sendSeq EXCEPT ![ch] = n + 1]
      /\ sent' = [sent EXCEPT ![ch] = Append(sent[ch], v)]
      /\ UNCHANGED <<recvSeq, store, received, thrown, acked>>
  BY DEF StartSend, AdvanceSend
<1> HIDE DEF new, n
<1>4. TypeOK /\ CountersOK /\ CallsOK /\ KeysHeldOnce /\ StoreOK /\ AcksUnwritten
        /\ PutsAreFresh /\ ReceivesInOrder /\ SynchronousSend
  BY DEF IInv
<1>5. /\ call'[t] = new
      /\ \A u \in Callers \ {t} : call'[u] = call[u] /\ call[u] \in Calls
  BY <1>1, <1>3, <1>4 DEF TypeOK
<1>6. TypeOK'
  BY <1>1, <1>2, <1>3, <1>4 DEF TypeOK
<1>7. \A c \in Channels : \A i \in Nat :
        i < Len(sent[c]) => i < Len(sent'[c]) /\ sent'[c][i + 1] = sent[c][i + 1]
  BY <1>1, <1>3, <1>4 DEF TypeOK
<1>8. Len(sent'[ch]) = n + 1 /\ sent'[ch][n + 1] = v
  BY <1>1, <1>3, <1>4 DEF TypeOK
<1>9. CountersOK'
  BY <1>1, <1>3, <1>4, <1>8 DEF TypeOK, CountersOK
<1>10. CallsOK'
  <2> SUFFICES ASSUME NEW u \in Callers
               PROVE  CallsOK!(u)'
    BY DEF CallsOK
  <2>1. CASE u = t
    BY <2>1, <1>1, <1>2, <1>5, <1>8 DEF Sending, Receiving
  <2>2. CASE u # t
    BY <2>2, <1>3, <1>4, <1>5, <1>7 DEF Calls, CallsOK
  <2> QED BY <2>1, <2>2
<1>11. KeysHeldOnce'
  BY <1>1, <1>2, <1>4, <1>5 DEF KeysHeldOnce, CallsOK, Calls, Sending, Receiving
<1>12. StoreOK'
  BY <1>3, <1>4, <1>7 DEF StoreOK
<1>13. PutsAreFresh'
  <2>1. MessageKey(ch, n) \notin DOMAIN store
    BY <1>1, <1>4 DEF StoreOK
  <2> QED BY <2>1, <1>2, <1>3, <1>4, <1>5 DEF PutsAreFresh
<1>14. AcksUnwritten'
  BY <1>2, <1>3, <1>4, <1>5 DEF AcksUnwritten, Receiving
<1>15. ReceivesInOrder'
  BY <1>3, <1>4, <1>7 DEF TypeOK, ReceivesInOrder
<1>16. SynchronousSend'
  BY <1>3, <1>4 DEF SynchronousSend
<1> QED BY <1>6, <1>9, <1>10, <1>11, <1>12, <1>13, <1>14, <1>15, <1>16 DEF IInv

\* The message reaches the store under the key its sender alone holds.
LEMMA PutMessageStep ==
  ASSUME IInv, NEW t \in Callers, PutMessage(t)
  PROVE  IInv'
<1> DEFINE c == call[t]
           key == MessageKey(c.ch, c.n)
           next == IF c.op = "send" THEN NoCall ELSE [c EXCEPT !.op = "ssend_ack"]
<1>1. /\ DOMAIN store' = DOMAIN store \cup {key}
      /\ store'[key] = c.data
      /\ \A k \in DOMAIN store : k # key => store'[k] = store[k]
  BY PutEffect DEF PutMessage
<1>2. TypeOK /\ CountersOK /\ CallsOK /\ KeysHeldOnce /\ StoreOK /\ AcksUnwritten
        /\ PutsAreFresh /\ ReceivesInOrder /\ SynchronousSend
  BY DEF IInv
<1>3. /\ c \in Calls /\ c.op \in Sending
      /\ c.n < Len(sent[c.ch])
      /\ c.data = sent[c.ch][c.n + 1]
  BY <1>2 DEF TypeOK, CallsOK, PutMessage, Sending
<1>4. /\ call' = [call EXCEPT ![t] = next]
      /\ UNCHANGED <<sendSeq, recvSeq, sent, received, thrown, acked>>
  BY DEF PutMessage
<1>5. /\ next \in Calls /\ next.op \in {"idle", "ssend_ack"}
      /\ next.op = "ssend_ack" => next.ch = c.ch /\ next.n = c.n /\ next.data = c.data
  BY <1>3, NoCallIsACall DEF Calls, Ops
<1> HIDE DEF next
<1>6. /\ call'[t] = next
      /\ \A u \in Callers \ {t} : call'[u] = call[u] /\ call[u] \in Calls
  BY <1>2, <1>4 DEF TypeOK
<1>7. TypeOK'
  BY <1>2, <1>4, <1>5 DEF TypeOK
<1>8. CountersOK' /\ ReceivesInOrder' /\ SynchronousSend'
  BY <1>2, <1>4 DEF CountersOK, ReceivesInOrder, SynchronousSend
<1>9. CallsOK'
  BY <1>2, <1>3, <1>4, <1>5, <1>6 DEF CallsOK, Sending, Receiving
<1>10. KeysHeldOnce'
  BY <1>2, <1>5, <1>6 DEF KeysHeldOnce, Sending, Receiving
<1> HIDE DEF c
<1>11. StoreOK'
  <2> SUFFICES ASSUME NEW ch \in Channels, NEW n \in Nat
               PROVE  StoreOK!(ch, n)'
    BY DEF StoreOK
  <2>1. AckKey(ch, n) # key
    BY KeysDiffer
  <2>2. MessageKey(ch, n) = key => ch = c.ch /\ n = c.n
    BY KeysDiffer
  <2> QED BY <1>1, <1>2, <1>3, <1>4, <2>1, <2>2 DEF StoreOK
<1>12. PutsAreFresh'
  <2> SUFFICES ASSUME NEW u \in Callers
               PROVE  PutsAreFresh!(u)'
    BY DEF PutsAreFresh
  <2>1. CASE u = t
    BY <2>1, <1>5, <1>6
  <2>2. CASE u # t
    <3>1. call'[u] = call[u]
      BY <2>2, <1>6
    <3>2. AckKey(call[u].ch, call[u].n) # key
      BY KeysDiffer
    <3>3. call[u].op \in Sending => MessageKey(call[u].ch, call[u].n) # key
      BY <2>2, <1>2, <1>3, KeysDiffer DEF KeysHeldOnce, c
    <3> QED BY <3>1, <3>2, <3>3, <1>1, <1>2 DEF PutsAreFresh, Sending
  <2> QED BY <2>1, <2>2
<1>13. AcksUnwritten'
  BY <1>1, <1>2, <1>5, <1>6, KeysDiffer DEF AcksUnwritten, Receiving
<1> QED BY <1>7, <1>8, <1>9, <1>10, <1>11, <1>12, <1>13 DEF IInv
\* A call that ends, or turns into a snoop, gives up its key and disturbs nothing.
LEMMA CallEnds ==
  ASSUME IInv, NEW t \in Callers, NEW next \in Calls, next.op \in {"idle", "snoop"},
         call' = [call EXCEPT ![t] = next],
         UNCHANGED <<sendSeq, recvSeq, store, sent, received>>,
         thrown' \in [Channels -> SUBSET Nat],
         acked' \in [Channels -> SUBSET Nat],
         SynchronousSend'
  PROVE  IInv'
<1>1. TypeOK /\ CountersOK /\ CallsOK /\ KeysHeldOnce /\ StoreOK /\ AcksUnwritten
        /\ PutsAreFresh /\ ReceivesInOrder
  BY DEF IInv
<1>2. /\ call'[t] = next
      /\ \A u \in Callers \ {t} : call'[u] = call[u] /\ call[u] \in Calls
  BY <1>1 DEF TypeOK
<1>3. TypeOK' /\ CountersOK' /\ StoreOK' /\ ReceivesInOrder'
  BY <1>1 DEF TypeOK, CountersOK, StoreOK, ReceivesInOrder
<1>4. CallsOK' /\ KeysHeldOnce' /\ AcksUnwritten' /\ PutsAreFresh'
  BY <1>1, <1>2 DEF CallsOK, KeysHeldOnce, AcksUnwritten, PutsAreFresh, Sending, Receiving
<1> QED BY <1>3, <1>4 DEF IInv

LEMMA GetAckStep ==
  ASSUME IInv, NEW t \in Callers, GetAck(t)
  PROVE  IInv'
<1> DEFINE c == call[t]
<1>1. TypeOK /\ StoreOK /\ SynchronousSend /\ c \in Calls
  BY DEF IInv, TypeOK
<1>2. c.ch \in Channels /\ c.n \in Nat
  BY <1>1 DEF Calls
<1>3. acked' = [acked EXCEPT ![c.ch] = @ \cup {c.n}] /\ received' = received
  BY DEF GetAck
<1>4. acked' \in [Channels -> SUBSET Nat]
  BY <1>1, <1>2, <1>3 DEF TypeOK
<1>5. SynchronousSend'
  <2>1. \E m \in received[c.ch] : m[1] = c.n
    BY <1>1, <1>2 DEF GetAck, StoreOK
  <2> QED BY <2>1, <1>1, <1>2, <1>3 DEF TypeOK, SynchronousSend
<1> QED BY <1>1, <1>4, <1>5, NoCallIsACall, CallEnds DEF GetAck, TypeOK

\* A throw, and both ends of a snoop.
LEMMA QuietSteps ==
  ASSUME IInv, NEW t \in Callers,
         \/ CopyMismatch(t) \/ FinishSnoop(t) \/ RequestFails(t)
         \/ \E ch \in Channels : StartSnoop(t, ch)
  PROVE  IInv'
<1>1. TypeOK /\ SynchronousSend /\ call[t] \in Calls
  BY DEF IInv, TypeOK
<1>2. SynchronousSend' /\ acked' = acked /\ UNCHANGED <<sendSeq, recvSeq, store, sent, received>>
  BY <1>1 DEF SynchronousSend, CopyMismatch, FinishSnoop, RequestFails, StartSnoop
<1>3. thrown' \in [Channels -> SUBSET Nat]
  <2>1. call[t].ch \in Channels /\ call[t].n \in Nat /\ thrown \in [Channels -> SUBSET Nat]
    BY <1>1 DEF TypeOK, Calls
  <2>2. thrown' = thrown \/ thrown' = [thrown EXCEPT ![call[t].ch] = @ \cup {call[t].n}]
        \/ thrown' = [thrown EXCEPT ![call[t].ch] = @]
    BY DEF CopyMismatch, FinishSnoop, RequestFails, StartSnoop
  <2> QED BY <2>1, <2>2
<1>4. PICK next \in Calls : next.op \in {"idle", "snoop"} /\ call' = [call EXCEPT ![t] = next]
  <2>1. CASE \E ch \in Channels : StartSnoop(t, ch)
    <3>1. PICK ch \in Channels : StartSnoop(t, ch)
      BY <2>1
    <3>2. [NoCall EXCEPT !.op = "snoop", !.ch = ch, !.n = recvSeq[ch]] \in Calls
      BY <1>1, NoCallIsACall DEF Calls, Ops, TypeOK
    <3> QED BY <3>1, <3>2, NoCallIsACall DEF StartSnoop, Calls
  <2>2. CASE CopyMismatch(t) \/ FinishSnoop(t) \/ RequestFails(t)
    BY <2>2, NoCallIsACall DEF CopyMismatch, FinishSnoop, RequestFails
  <2> QED BY <2>1, <2>2
<1> QED BY <1>1, <1>2, <1>3, <1>4, CallEnds DEF TypeOK

\* A new number for a receiver, held by itself or by the thread irecv starts.
LEMMA StartReceiveStep ==
  ASSUME IInv, NEW t \in Threads, NEW worker \in Callers, NEW ch \in Channels,
         NEW size \in Sizes, StartReceive(t, worker, ch, size)
  PROVE  IInv'
<1> DEFINE n == recvSeq[ch]
           new == [NoCall EXCEPT !.op = "recv", !.ch = ch, !.size = size, !.n = n]
<1>1. TypeOK /\ CountersOK /\ CallsOK /\ KeysHeldOnce /\ StoreOK /\ AcksUnwritten
        /\ PutsAreFresh /\ ReceivesInOrder /\ SynchronousSend
  BY DEF IInv
<1>2. /\ call' = [call EXCEPT ![worker] = new]
      /\ recvSeq' = [recvSeq EXCEPT ![ch] = n + 1]
      /\ UNCHANGED <<sendSeq, store, sent, received, thrown, acked>>
  BY DEF StartReceive, AdvanceRecv
<1>3. /\ n \in Nat /\ n = recvSeq[ch]
      /\ new \in Calls /\ new.op = "recv" /\ new.ch = ch /\ new.n = n
  BY <1>1, NoCallIsACall DEF TypeOK, Calls, Ops
<1> HIDE DEF new, n
<1>4. /\ call'[worker] = new
      /\ \A u \in Callers \ {worker} : call'[u] = call[u] /\ call[u] \in Calls
  BY <1>1, <1>2 DEF TypeOK
<1>5. TypeOK'
  BY <1>1, <1>2, <1>3 DEF TypeOK
<1>6. \A c \in Channels : recvSeq[c] \in Nat /\ recvSeq'[c] \in Nat /\ recvSeq[c] <= recvSeq'[c]
  BY <1>1, <1>2, <1>3 DEF TypeOK
<1>7. recvSeq'[ch] = n + 1
  BY <1>1, <1>2 DEF TypeOK
<1>8. CallsOK'
  <2> SUFFICES ASSUME NEW u \in Callers
               PROVE  CallsOK!(u)'
    BY DEF CallsOK
  <2>1. CASE u = worker
    BY <2>1, <1>3, <1>4, <1>7 DEF Sending, Receiving
  <2>2. CASE u # worker
    BY <2>2, <1>1, <1>2, <1>4, <1>6 DEF Calls, CallsOK
  <2> QED BY <2>1, <2>2
<1>9. KeysHeldOnce'
  BY <1>1, <1>3, <1>4 DEF KeysHeldOnce, CallsOK, Calls, Sending, Receiving
<1>10. StoreOK'
  BY <1>1, <1>2, <1>6 DEF StoreOK
<1>11. PutsAreFresh'
  BY <1>1, <1>2, <1>3, <1>4 DEF PutsAreFresh
<1>12. CountersOK' /\ ReceivesInOrder' /\ SynchronousSend'
  BY <1>1, <1>2 DEF CountersOK, ReceivesInOrder, SynchronousSend
<1>13. AcksUnwritten'
  <2>1. AckKey(ch, n) \notin DOMAIN store
    BY <1>1, <1>3 DEF StoreOK
  <2> QED BY <2>1, <1>1, <1>2, <1>3, <1>4 DEF AcksUnwritten
<1> QED BY <1>5, <1>8, <1>9, <1>10, <1>11, <1>12, <1>13 DEF IInv
\* The n-th receive copies what the store holds for it: the n-th message.
LEMMA CopyMessageStep ==
  ASSUME IInv, NEW t \in Callers, CopyMessage(t)
  PROVE  IInv'
<1> DEFINE c == call[t]
           key == MessageKey(c.ch, c.n)
           next == [c EXCEPT !.op = "recv_ack"]
<1>1. TypeOK /\ CountersOK /\ CallsOK /\ KeysHeldOnce /\ StoreOK /\ AcksUnwritten
        /\ PutsAreFresh /\ ReceivesInOrder /\ SynchronousSend
  BY DEF IInv
<1>2. /\ call' = [call EXCEPT ![t] = next]
      /\ received' = [received EXCEPT ![c.ch] = @ \cup {<<c.n, store[key]>>}]
      /\ UNCHANGED <<sendSeq, recvSeq, store, sent, thrown, acked>>
  BY DEF CopyMessage
<1>3. /\ c \in Calls /\ c.op = "recv" /\ c.ch \in Channels /\ c.n \in Nat
      /\ c.n < recvSeq[c.ch]
  BY <1>1 DEF TypeOK, Calls, CallsOK, CopyMessage, Receiving
<1>4. c.n < Len(sent[c.ch]) /\ store[key] = sent[c.ch][c.n + 1] /\ store[key] \in Payloads
  BY <1>1, <1>3 DEF CopyMessage, StoreOK, TypeOK
<1>5. next \in Calls /\ next.op = "recv_ack" /\ next.ch = c.ch /\ next.n = c.n
  BY <1>3 DEF Calls, Ops
<1> HIDE DEF next
<1>6. /\ call'[t] = next
      /\ \A u \in Callers \ {t} : call'[u] = call[u] /\ call[u] \in Calls
  BY <1>1, <1>2 DEF TypeOK
<1>7. /\ received'[c.ch] = received[c.ch] \cup {<<c.n, store[key]>>}
      /\ \A ch \in Channels : ch # c.ch => received'[ch] = received[ch]
      /\ \A ch \in Channels : received[ch] \subseteq received'[ch]
  BY <1>1, <1>2, <1>3 DEF TypeOK
<1>8. \E m \in received'[c.ch] : m[1] = c.n
  <2>1. <<c.n, store[key]>> \in received'[c.ch]
    BY <1>7
  <2> QED BY <2>1
<1> HIDE DEF c
<1>9. TypeOK'
  BY <1>1, <1>2, <1>3, <1>4, <1>5 DEF TypeOK
<1>10. CountersOK'
  BY <1>1, <1>2 DEF CountersOK
<1>11. CallsOK'
  <2> SUFFICES ASSUME NEW u \in Callers
               PROVE  CallsOK!(u)'
    BY DEF CallsOK
  <2>1. CASE u = t
    BY <2>1, <1>2, <1>3, <1>5, <1>6, <1>8 DEF Sending, Receiving
  <2>2. CASE u # t
    BY <2>2, <1>1, <1>2, <1>6, <1>7 DEF Calls, CallsOK
  <2> QED BY <2>1, <2>2
<1>12. KeysHeldOnce' /\ AcksUnwritten'
  BY <1>1, <1>2, <1>3, <1>5, <1>6 DEF KeysHeldOnce, AcksUnwritten, Sending, Receiving, c
<1>13. StoreOK'
  BY <1>1, <1>2, <1>7 DEF StoreOK
<1>14. PutsAreFresh'
  BY <1>12, <1>1, <1>2, <1>5, <1>6 DEF PutsAreFresh, AcksUnwritten, Receiving
<1>15. ReceivesInOrder'
  BY <1>1, <1>2, <1>4, <1>7 DEF ReceivesInOrder
<1>16. SynchronousSend'
  BY <1>1, <1>2, <1>7 DEF SynchronousSend
<1> QED BY <1>9, <1>10, <1>11, <1>12, <1>13, <1>14, <1>15, <1>16 DEF IInv

\* The acknowledgement is put by the one receive that copied the message.
LEMMA PutAckStep ==
  ASSUME IInv, NEW t \in Callers, PutAck(t)
  PROVE  IInv'
<1> DEFINE c == call[t]
           key == AckKey(c.ch, c.n)
<1>1. TypeOK /\ CountersOK /\ CallsOK /\ KeysHeldOnce /\ StoreOK /\ AcksUnwritten
        /\ PutsAreFresh /\ ReceivesInOrder /\ SynchronousSend
  BY DEF IInv
<1>2. /\ DOMAIN store' = DOMAIN store \cup {key}
      /\ \A k \in DOMAIN store : k # key => store'[k] = store[k]
  BY PutEffect DEF PutAck
<1>3. /\ call' = [call EXCEPT ![t] = NoCall]
      /\ UNCHANGED <<sendSeq, recvSeq, sent, received, thrown, acked>>
  BY DEF PutAck
<1>4. /\ c \in Calls /\ c.op = "recv_ack" /\ c.ch \in Channels /\ c.n \in Nat
      /\ c.n < recvSeq[c.ch] /\ \E m \in received[c.ch] : m[1] = c.n
  BY <1>1 DEF TypeOK, Calls, CallsOK, PutAck, Receiving
<1>5. /\ call'[t] = NoCall
      /\ \A u \in Callers \ {t} : call'[u] = call[u] /\ call[u] \in Calls
  BY <1>1, <1>3 DEF TypeOK
<1>6. TypeOK' /\ CountersOK' /\ ReceivesInOrder' /\ SynchronousSend'
  BY <1>1, <1>3, NoCallIsACall DEF TypeOK, CountersOK, ReceivesInOrder, SynchronousSend
<1>7. CallsOK' /\ KeysHeldOnce'
  BY <1>1, <1>3, <1>5, NoCallIsACall DEF CallsOK, KeysHeldOnce, Sending, Receiving
<1>8. \A ch, n : MessageKey(ch, n) # key /\ (AckKey(ch, n) = key => ch = c.ch /\ n = c.n)
  BY KeysDiffer
<1>9. StoreOK'
  BY <1>1, <1>2, <1>3, <1>4, <1>8 DEF StoreOK
<1>10. \A u \in Callers \ {t} : call[u].op \in Receiving => AckKey(call[u].ch, call[u].n) # key
  BY <1>1, <1>4, KeysDiffer DEF KeysHeldOnce, Receiving
<1>11. AcksUnwritten'
  BY <1>1, <1>2, <1>5, <1>10, NoCallIsACall DEF AcksUnwritten, Receiving
<1>12. PutsAreFresh'
  BY <1>1, <1>2, <1>5, <1>8, <1>11, NoCallIsACall DEF PutsAreFresh, AcksUnwritten, Receiving
<1> QED BY <1>6, <1>7, <1>9, <1>11, <1>12 DEF IInv

-----------------------------------------------------------------------------
LEMMA StepIInv == IInv /\ [Next]_vars => IInv'
<1> SUFFICES ASSUME IInv, [Next]_vars PROVE IInv'
  OBVIOUS
<1>1. CASE \E t \in Threads, ch \in Channels, op \in {"send", "ssend"}, v \in Payloads :
             StartSend(t, op, ch, v)
  BY <1>1, StartSendStep
<1>2. CASE \E t \in Threads, ch \in Channels, worker \in Callers, s \in Sizes :
             StartReceive(t, worker, ch, s)
  BY <1>2, StartReceiveStep
<1>3. CASE \E t \in Threads, ch \in Channels : StartSnoop(t, ch)
  BY <1>3, QuietSteps DEF Callers
<1>4. CASE \E t \in Callers : StoreStep(t) \/ RequestFails(t)
  BY <1>4, PutMessageStep, GetAckStep, CopyMessageStep, PutAckStep, QuietSteps DEF StoreStep
<1>5. CASE UNCHANGED vars
  BY <1>5 DEF vars, IInv, TypeOK, CountersOK, CallsOK, KeysHeldOnce, StoreOK, AcksUnwritten,
              PutsAreFresh, ReceivesInOrder, SynchronousSend
<1> QED BY <1>1, <1>2, <1>3, <1>4, <1>5 DEF Next

\* The invariant the properties below rest on: every key in the store belongs
\* to one message, and every call in progress alone holds the key it chose.
THEOREM Invariant == Spec => []IInv
<1>1. Init => IInv
  BY InitIInv
<1>2. IInv /\ [Next]_vars => IInv'
  BY StepIInv
<1> QED BY <1>1, <1>2, PTL DEF Spec

\* The state of the context and its calls stays well typed.
THEOREM TypeCorrect == Spec => []TypeOK
<1>1. IInv => TypeOK
  BY DEF IInv
<1> QED BY <1>1, Invariant, PTL

\* The n-th receive of a channel gets the n-th message (MessageKey).
THEOREM InOrder == Spec => []ReceivesInOrder
<1>1. IInv => ReceivesInOrder
  BY DEF IInv
<1> QED BY <1>1, Invariant, PTL

\* ssend returns only once its message has been copied (ssend, recv, irecv).
THEOREM Synchronous == Spec => []SynchronousSend
<1>1. IInv => SynchronousSend
  BY DEF IInv
<1> QED BY <1>1, Invariant, PTL

\* No message and no acknowledgement is put twice.
THEOREM FreshPuts == Spec => []PutsAreFresh
<1>1. IInv => PutsAreFresh
  BY DEF IInv
<1> QED BY <1>1, Invariant, PTL
=============================================================================
