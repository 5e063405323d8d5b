-------------------------- MODULE KeyValueMessages --------------------------
(***************************************************************************)
(* Point-to-point messages of one KeyValueContext (cpp/key_value_context   *)
(* .cc): send, ssend, recv, irecv and snoop_incoming_msg_size, over a      *)
(* key-value store whose put replaces a value and whose get blocks until   *)
(* the key exists.  Several threads of a rank may be inside the context at *)
(* once; only the choice of a key is under the context's mutex, so a key   *)
(* is chosen in one step and used in later ones.                           *)
(***************************************************************************)
EXTENDS Integers, FiniteSets, Sequences

CONSTANTS
  Ranks,          \* the ranks of the context
  Tags,           \* message tags
  Channels,       \* the channels in use, a source, a destination and a tag each
  Payloads,       \* the values a message may carry
  SizeOf,         \* SizeOf[v]: the number of bytes of payload v
  Threads,        \* threads that call into the context
  AsyncThreads,   \* threads std::async may start for irecv, a bound on requests
  RankOf,         \* RankOf[t]: the rank whose process thread t belongs to
  Workloads       \* bounds: how many messages the channels may carry together

Callers == Threads \cup AsyncThreads

ASSUME MessagesAssumption ==
  /\ Channels \subseteq Ranks \X Ranks \X Tags
  /\ Channels # {} /\ Payloads # {}
  /\ SizeOf \in [Payloads -> Nat]
  /\ RankOf \in [Callers -> Ranks]
  /\ Threads \cap AsyncThreads = {}
  /\ Workloads \subseteq [Channels -> Nat]
  /\ "1" \notin Payloads

VARIABLES
  sendSeq,    \* sendSeq[ch]: the "send/" counter of ch, in the process of its source
  recvSeq,    \* recvSeq[ch]: the "recv/" counter of ch, in the process of its destination
  store,      \* the key-value store: a function on the keys put so far
  call,       \* call[t]: what thread t is doing
  sent,       \* history: sent[ch], the payloads in the order their keys were chosen
  received,   \* history: received[ch], <<sequence number, payload>> of finished copies
  thrown,     \* history: thrown[ch], sequence numbers of receives that threw
  acked       \* history: acked[ch], sequence numbers of ssends that returned

vars == <<sendSeq, recvSeq, store, call, sent, received, thrown, acked>>

-----------------------------------------------------------------------------
(* A message is kept under the channel's name followed by its number, its   *)
(* acknowledgement below that.                                              *)

Src(ch) == ch[1]
Dst(ch) == ch[2]

\* Mutant: the tag is left out of the key.
MessageKeyWithoutTag(ch, n) == <<"message", <<Src(ch), Dst(ch)>>, n>>

MessageKey(ch, n) == <<"message", ch, n>>
AckKey(ch, n) == <<"message", ch, n, "ack">>

Ops == {"idle", "send", "ssend", "ssend_ack", "recv", "recv_ack", "snoop"}

Sizes == {SizeOf[v] : v \in Payloads}

\* A call in progress.  n is the sequence number in the key it holds, data the
\* bytes of a send, size the length of a receive's buffer.
Calls == [op : Ops, ch : Channels, n : Nat, data : Payloads, size : Sizes]

NoCall == [op |-> "idle", ch |-> CHOOSE ch \in Channels : TRUE, n |-> 0,
           data |-> CHOOSE v \in Payloads : TRUE,
           size |-> CHOOSE s \in Sizes : TRUE]

\* Bound: after one more message on ch the counters are within some workload.
Within(seq, ch) ==
  \E load \in Workloads : \A c \in Channels : (IF c = ch THEN seq[c] + 1 ELSE seq[c]) <= load[c]

Put(key, value) ==
  store' = [k \in DOMAIN store \cup {key} |-> IF k = key THEN value ELSE store[k]]

Init ==
  /\ sendSeq = [ch \in Channels |-> 0]
  /\ recvSeq = [ch \in Channels |-> 0]
  /\ store = [k \in {} |-> "1"]
  /\ call = [t \in Callers |-> NoCall]
  /\ sent = [ch \in Channels |-> << >>]
  /\ received = [ch \in Channels |-> {}]
  /\ thrown = [ch \in Channels |-> {}]
  /\ acked = [ch \in Channels |-> {}]

-----------------------------------------------------------------------------
(* MessageKey(..., advance = true): under the mutex, read the counter of    *)
(* the direction and advance it.                                            *)

AdvanceSend(ch) ==
  /\ Within(sendSeq, ch)
  /\ sendSeq' = [sendSeq EXCEPT ![ch] = @ + 1]

AdvanceRecv(ch) ==
  /\ Within(recvSeq, ch)
  /\ recvSeq' = [recvSeq EXCEPT ![ch] = @ + 1]

\* send and ssend choose the key of the next message of the channel.
StartSend(t, op, ch, v) ==
  /\ t \in Threads
  /\ call[t].op = "idle"
  /\ Src(ch) = RankOf[t]
  /\ AdvanceSend(ch)
  /\ call' = [call EXCEPT ![t] =
       [NoCall EXCEPT !.op = op, !.ch = ch, !.data = v,
                      !.n = sendSeq[ch]]]
  /\ sent' = [sent EXCEPT ![ch] = Append(@, v)]
  /\ UNCHANGED <<recvSeq, store, received, thrown, acked>>

\* store_.put(key, buffer).  send returns; ssend goes on to wait.
PutMessage(t) ==
  /\ call[t].op \in {"send", "ssend"}
  /\ Put(MessageKey(call[t].ch, call[t].n), call[t].data)
  /\ call' = [call EXCEPT ![t] = IF @.op = "send" THEN NoCall
                                 ELSE [@ EXCEPT !.op = "ssend_ack"]]
  /\ UNCHANGED <<sendSeq, recvSeq, sent, received, thrown, acked>>

\* ssend: store_.get(key + "/ack") returns.
GetAck(t) ==
  /\ call[t].op = "ssend_ack"
  /\ AckKey(call[t].ch, call[t].n) \in DOMAIN store
  /\ acked' = [acked EXCEPT ![call[t].ch] = @ \cup {call[t].n}]
  /\ call' = [call EXCEPT ![t] = NoCall]
  /\ UNCHANGED <<sendSeq, recvSeq, store, sent, received, thrown>>

-----------------------------------------------------------------------------
\* recv chooses the key of the next message; irecv does the same on behalf of
\* the thread std::async starts, and returns.
StartReceive(t, worker, ch, size) ==
  /\ t \in Threads
  /\ call[t].op = "idle"
  /\ worker = t \/ worker \in AsyncThreads
  /\ call[worker].op = "idle"
  /\ RankOf[worker] = RankOf[t]
  /\ Dst(ch) = RankOf[t]
  /\ AdvanceRecv(ch)
  /\ call' = [call EXCEPT ![worker] =
       [NoCall EXCEPT !.op = "recv", !.ch = ch, !.size = size,
                      !.n = recvSeq[ch]]]
  /\ UNCHANGED <<sendSeq, store, sent, received, thrown, acked>>

\* Copy(store_.get(key), buffer) when the sizes agree.
CopyMessage(t) ==
  LET c == call[t]
      key == MessageKey(c.ch, c.n)
  IN /\ c.op = "recv"
     /\ key \in DOMAIN store
     /\ SizeOf[store[key]] = c.size
     /\ received' = [received EXCEPT ![c.ch] = @ \cup {<<c.n, store[key]>>}]
     /\ call' = [call EXCEPT ![t].op = "recv_ack"]
     /\ UNCHANGED <<sendSeq, recvSeq, store, sent, thrown, acked>>

\* Mutant: a receive that was given the wrong length is acknowledged too.
CopyMismatchThenAck(t) ==
  LET c == call[t]
      key == MessageKey(c.ch, c.n)
  IN /\ c.op = "recv"
     /\ key \in DOMAIN store
     /\ SizeOf[store[key]] # c.size
     /\ thrown' = [thrown EXCEPT ![c.ch] = @ \cup {c.n}]
     /\ call' = [call EXCEPT ![t].op = "recv_ack"]
     /\ UNCHANGED <<sendSeq, recvSeq, store, sent, received, acked>>

\* Copy throws "Coordination message size mismatch": the number is spent and
\* nothing is acknowledged.
CopyMismatch(t) ==
  LET c == call[t]
      key == MessageKey(c.ch, c.n)
  IN /\ c.op = "recv"
     /\ key \in DOMAIN store
     /\ SizeOf[store[key]] # c.size
     /\ thrown' = [thrown EXCEPT ![c.ch] = @ \cup {c.n}]
     /\ call' = [call EXCEPT ![t] = NoCall]
     /\ UNCHANGED <<sendSeq, recvSeq, store, sent, received, acked>>

\* Mutant: the receiver forgets the acknowledgement.
PutNoAck(t) ==
  /\ call[t].op = "recv_ack"
  /\ call' = [call EXCEPT ![t] = NoCall]
  /\ UNCHANGED <<sendSeq, recvSeq, store, sent, received, thrown, acked>>

\* store_.put(key + "/ack", "1").
PutAck(t) ==
  /\ call[t].op = "recv_ack"
  /\ Put(AckKey(call[t].ch, call[t].n), "1")
  /\ call' = [call EXCEPT ![t] = NoCall]
  /\ UNCHANGED <<sendSeq, recvSeq, sent, received, thrown, acked>>

-----------------------------------------------------------------------------
\* snoop_incoming_msg_size reads the key of the next receive and leaves the
\* counter alone (advance = false).
StartSnoop(t, ch) ==
  /\ t \in Threads
  /\ call[t].op = "idle"
  /\ Dst(ch) = RankOf[t]
  /\ call' = [call EXCEPT ![t] =
       [NoCall EXCEPT !.op = "snoop", !.ch = ch,
                      !.n = recvSeq[ch]]]
  /\ UNCHANGED <<sendSeq, recvSeq, store, sent, received, thrown, acked>>

FinishSnoop(t) ==
  /\ call[t].op = "snoop"
  /\ MessageKey(call[t].ch, call[t].n) \in DOMAIN store
  /\ call' = [call EXCEPT ![t] = NoCall]
  /\ UNCHANGED <<sendSeq, recvSeq, store, sent, received, thrown, acked>>

-----------------------------------------------------------------------------
\* A request of the store throws out of the operation: a get whose key does not
\* appear in time, or a put or a get whose connection fails.  (A put whose reply alone
\* is lost is PutMessage or PutAck; an ssend then throws while it waits.)
RequestFails(t) ==
  LET c == call[t]
  IN /\ c.op # "idle"
     /\ thrown' = [thrown EXCEPT ![c.ch] = IF c.op \in {"recv", "recv_ack"} THEN @ \cup {c.n} ELSE @]
     /\ call' = [call EXCEPT ![t] = NoCall]
     /\ UNCHANGED <<sendSeq, recvSeq, store, sent, received, acked>>

StoreStep(t) ==
  \/ PutMessage(t) \/ GetAck(t) \/ CopyMessage(t) \/ CopyMismatch(t)
  \/ PutAck(t) \/ FinishSnoop(t)

Next ==
  \/ \E t \in Threads, ch \in Channels :
       \/ \E op \in {"send", "ssend"}, v \in Payloads : StartSend(t, op, ch, v)
       \/ \E worker \in Callers, s \in Sizes : StartReceive(t, worker, ch, s)
       \/ StartSnoop(t, ch)
  \/ \E t \in Callers : StoreStep(t) \/ RequestFails(t)

Spec == Init /\ [][Next]_vars

\* Nothing obliges a thread to start an operation or a request to fail; a store
\* operation that can finish does.
FairSpec == Spec /\ \A t \in Callers : WF_vars(StoreStep(t))
-----------------------------------------------------------------------------
\* The values the variables take; no call ever holds a key with a number below the
\* first, whichever counter MessageKey read.
TypeOK ==
  /\ sendSeq \in [Channels -> Nat]
  /\ recvSeq \in [Channels -> Nat]
  /\ call \in [Callers -> Calls]
  /\ sent \in [Channels -> Seq(Payloads)]
  /\ received \in [Channels -> SUBSET (Nat \X Payloads)]
  /\ thrown \in [Channels -> SUBSET Nat]
  /\ acked \in [Channels -> SUBSET Nat]

\* The n-th receive of a channel gets the n-th message sent on it, whichever
\* threads sent and received it and whenever they reached the store
\* (MessageKey's separate send and receive counters).
ReceivesInOrder ==
  \A ch \in Channels : \A m \in received[ch] :
    /\ m[1] < Len(sent[ch])
    /\ m[2] = sent[ch][m[1] + 1]

\* ssend returns only after the receiver has copied that very message.
SynchronousSend ==
  \A ch \in Channels : \A n \in acked[ch] : \E m \in received[ch] : m[1] = n

\* Nothing is put under a key that is already there: neither a message nor an
\* acknowledgement is ever replaced (the store of tests/key_value_context_test.cc
\* fails such a put, the TCP store would lose the first value).
PutsAreFresh ==
  \A t \in Callers :
    /\ call[t].op \in {"send", "ssend"} => MessageKey(call[t].ch, call[t].n) \notin DOMAIN store
    /\ call[t].op = "recv_ack" => AckKey(call[t].ch, call[t].n) \notin DOMAIN store

\* A synchronous send whose message is in the store while a receive with the right
\* buffer waits for it returns, unless that receive throws: no wakeup or
\* acknowledgement is lost.
Matched(t, u) ==
  /\ call[t].op = "ssend_ack"
  /\ call[u].op = "recv"
  /\ call[u].ch = call[t].ch /\ call[u].n = call[t].n
  /\ call[u].size = SizeOf[call[t].data]

MatchedSendReturns ==
  \A t \in Threads, u \in Callers :
    Matched(t, u) ~> call[t].op = "idle" \/ call[t].n \in thrown[call[t].ch]
=============================================================================
