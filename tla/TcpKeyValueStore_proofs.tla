---------------------- MODULE TcpKeyValueStore_proofs -----------------------
(* Where nobody dies, the server seen from its clients is a KeyValueStore,   *)
(* for any clients, keys and values: a put takes effect once between its     *)
(* call and its return, and a get returns what the map held in between.      *)
EXTENDS TcpKeyValueStore, SequenceTheorems, TLAPS

-----------------------------------------------------------------------------
(* The inductive invariant: how far each conversation is.                    *)

Chunks == {"P", "G", Length} \cup Keys \cup Values
Answers == {"K", "T", Length} \cup Values
Requests ==
  [pc : {"idle", "connect", "write", "expect", "read_length", "read_bytes", "return"},
   op : {"none", "put", "get"}, key : Keys \cup {NoValue}, value : Values \cup {NoValue},
   left : Seq(Chunks)]

TypeOK ==
  /\ server \in {"starting", "listening"}
  /\ values \in [Keys -> Values \cup {NoValue}]
  /\ client \in [Clients -> Requests]
  /\ up \in [Clients -> Seq(Chunks)] /\ read \in [Clients -> Seq(Chunks)]
  /\ down \in [Clients -> Seq(Answers)]
  /\ open \in [Clients -> SUBSET {"client", "server"}]

Wanted(c) == Request(client[c].op, client[c].key, client[c].value)

Asks(c) ==
  /\ client[c].key \in Keys
  /\ \/ client[c].op = "put" /\ client[c].value \in Values
     \/ client[c].op = "get" /\ (client[c].pc # "return" => client[c].value = NoValue)

Connected(c) == open[c] = {"client", "server"} /\ server = "listening"

\* What was read, what is on its way and what is left, in order, are w.
Along(r, u, l, w) ==
  /\ Len(r) + Len(u) + Len(l) = Len(w)
  /\ \A i \in 1 .. Len(r) : r[i] = w[i]
  /\ \A i \in 1 .. Len(u) : u[i] = w[Len(r) + i]
  /\ \A i \in 1 .. Len(l) : l[i] = w[Len(r) + Len(u) + i]

InOrder(c) == Along(read[c], up[c], client[c].left, Wanted(c))

AtRest(c) ==
  /\ client[c] = Idle /\ "client" \notin open[c]
  /\ up[c] = << >> /\ down[c] = << >> /\ read[c] = << >>

Connecting(c) ==
  /\ client[c].pc = "connect" /\ Asks(c) /\ client[c].left = Wanted(c) /\ open[c] = {}
  /\ up[c] = << >> /\ down[c] = << >> /\ read[c] = << >>

Sending(c) ==
  /\ client[c].pc \in {"write", "expect"} /\ Asks(c) /\ Connected(c) /\ down[c] = << >>
  /\ InOrder(c) /\ (client[c].pc = "write" <=> Len(client[c].left) > 0)

\* The request has been answered: nothing of it is left.
Answered(c) ==
  /\ Asks(c) /\ Connected(c) /\ up[c] = << >> /\ read[c] = << >> /\ client[c].left = << >>
  /\ \/ client[c].pc = "expect" /\ client[c].op = "put" /\ down[c] = <<"K">>
     \/ client[c].pc = "expect" /\ client[c].op = "get" /\ down[c] = <<"T">>
     \/ /\ client[c].pc = "expect" /\ client[c].op = "get"
        /\ \E v \in Values : down[c] = <<"K", Length, v>>
     \/ /\ client[c].pc = "read_length" /\ client[c].op = "get"
        /\ \E v \in Values : down[c] = <<Length, v>>
     \/ /\ client[c].pc = "read_bytes" /\ client[c].op = "get"
        /\ \E v \in Values : down[c] = <<v>>
     \/ /\ client[c].pc = "return" /\ client[c].op = "get" /\ down[c] = << >>
        /\ client[c].value \in Values

Conversation(c) == AtRest(c) \/ Connecting(c) \/ Sending(c) \/ Answered(c)

IInv == Alive => TypeOK /\ \A c \in Clients : Conversation(c)

-----------------------------------------------------------------------------
(* What a step leaves alone.                                                 *)

Untouched(d) ==
  /\ client'[d] = client[d] /\ up'[d] = up[d] /\ down'[d] = down[d]
  /\ open'[d] = open[d] /\ read'[d] = read[d]

Others(c) == \A d \in Clients \ {c} : Untouched(d)

ServerStays == server = "listening" => server' = "listening"

LEMMA Undisturbed ==
  ASSUME NEW d, Conversation(d), Untouched(d), ServerStays
  PROVE  Conversation(d)' /\ Abstract(d)' = Abstract(d)
<1>1. AtRest(d) => AtRest(d)'
  BY DEF AtRest, Untouched
<1>2. Asks(d) => Asks(d)'
  BY DEF Asks, Untouched
<1>3. Connecting(d) => Connecting(d)'
  BY <1>2 DEF Connecting, Untouched, Wanted
<1>4. Connected(d) => Connected(d)'
  BY DEF Connected, Untouched, ServerStays
<1>5. Sending(d) => Sending(d)'
  BY <1>2, <1>4 DEF Sending, InOrder, Untouched, Wanted
<1>6. Answered(d) => Answered(d)'
  BY <1>2, <1>4 DEF Answered, Untouched
<1>7. Abstract(d)' = Abstract(d)
  BY DEF Abstract, Effective, Resting, Untouched
<1> QED BY <1>1, <1>3, <1>5, <1>6, <1>7 DEF Conversation

-----------------------------------------------------------------------------
(* A client's call as the abstract store sees it.                            *)

Done(call, answer) ==
  \/ \E i \in DOMAIN answer : answer[i] = "K"
  \/ call.pc \in {"read_length", "read_bytes", "return"}

Seen(call, answer) ==
  IF call.pc = "idle" THEN Resting
  ELSE [op |-> call.op, key |-> call.key, done |-> Done(call, answer),
        value |-> IF call.op = "get" /\ Done(call, answer) /\ answer # << >>
                  THEN answer[Len(answer)] ELSE call.value]

LEMMA AbstractIsSeen ==
  ASSUME NEW c
  PROVE  Abstract(c) = Seen(client[c], down[c]) /\ Abstract(c)' = Seen(client'[c], down'[c])
BY DEF Abstract, Effective, Seen, Done

\* The call before its instant, and after it.
Before(call) == [op |-> call.op, key |-> call.key, value |-> call.value, done |-> FALSE]
After(call, value) == [op |-> call.op, key |-> call.key, value |-> value, done |-> TRUE]

LEMMA IdleIsResting ==
  ASSUME NEW answer PROVE Seen(Idle, answer) = Resting
BY DEF Seen, Idle

LEMMA NotYetDone ==
  ASSUME NEW call, NEW answer, call.pc \in {"connect", "write", "expect"}, answer = << >> \/ answer = <<"T">>
  PROVE  Seen(call, answer) = Before(call)
<1>1. ~(\E i \in DOMAIN answer : answer[i] = "K")
  <2>1. CASE answer = << >>
    BY <2>1
  <2>2. CASE answer = <<"T">>
    BY <2>2
  <2> QED BY <2>1, <2>2
<1>2. Done(call, answer) = FALSE
  BY <1>1 DEF Done
<1> QED BY <1>2 DEF Seen, Before, After

LEMMA PutIsDone ==
  ASSUME NEW call, NEW answer, call.pc = "expect", call.op = "put", answer = <<"K">>
  PROVE  Seen(call, answer) = After(call, call.value)
<1>1. 1 \in DOMAIN answer /\ answer[1] = "K"
  OBVIOUS
<1>2. Done(call, answer)
  BY <1>1 DEF Done
<1> QED BY <1>2 DEF Seen, Before, After

LEMMA GetIsDone ==
  ASSUME NEW call, NEW answer, call.op = "get", NEW v,
         \/ call.pc = "expect" /\ answer = <<"K", Length, v>>
         \/ call.pc = "read_length" /\ answer = <<Length, v>>
         \/ call.pc = "read_bytes" /\ answer = <<v>>
         \/ call.pc = "return" /\ answer = << >> /\ call.value = v
  PROVE  Seen(call, answer) = After(call, v)
<1>1. CASE call.pc = "expect" /\ answer = <<"K", Length, v>>
  <2>1. 1 \in DOMAIN answer /\ answer[1] = "K" /\ answer # << >> /\ answer[Len(answer)] = v
    BY <1>1
  <2>2. Done(call, answer)
    BY <2>1 DEF Done
  <2> QED BY <2>1, <2>2 DEF Seen, Before, After
<1>2. CASE call.pc \in {"read_length", "read_bytes"} /\ answer # << >> /\ answer[Len(answer)] = v
  <2>1. Done(call, answer)
    BY <1>2 DEF Done
  <2> QED BY <1>2, <2>1 DEF Seen, Before, After
<1>3. CASE call.pc = "return" /\ answer = << >> /\ call.value = v
  <2>1. Done(call, answer)
    BY <1>3 DEF Done
  <2> QED BY <1>3, <2>1 DEF Seen, Before, After
<1>4. CASE call.pc = "read_length" /\ answer = <<Length, v>>
  <2>1. answer # << >> /\ answer[Len(answer)] = v
    BY <1>4
  <2> QED BY <1>2, <1>4, <2>1
<1>5. CASE call.pc = "read_bytes" /\ answer = <<v>>
  <2>1. answer # << >> /\ answer[Len(answer)] = v
    BY <1>5
  <2> QED BY <1>2, <1>5, <2>1
<1> QED BY <1>1, <1>3, <1>4, <1>5

LEMMA AnsweredIsNotResting ==
  ASSUME NEW call, NEW answer, call.pc # "idle", call.op # "none" PROVE Seen(call, answer) # Resting
BY DEF Seen, Resting

-----------------------------------------------------------------------------
(* The steps of one conversation.                                            *)

Invokes(c) ==
  /\ values' = values /\ Abstract(c) = Resting
  /\ \E op \in {"put", "get"}, k \in Keys, v \in Values \cup {NoValue} :
       /\ IF op = "put" THEN v \in Values ELSE v = NoValue
       /\ Abstract(c)' = [op |-> op, key |-> k, value |-> v, done |-> FALSE]

PutsNow(c) ==
  \E k \in Keys, v \in Values :
    /\ Abstract(c) = [op |-> "put", key |-> k, value |-> v, done |-> FALSE]
    /\ values' = [values EXCEPT ![k] = v]
    /\ Abstract(c)' = [op |-> "put", key |-> k, value |-> v, done |-> TRUE]

GetsNow(c) ==
  /\ values' = values
  /\ \E k \in Keys :
       /\ Abstract(c) = [op |-> "get", key |-> k, value |-> NoValue, done |-> FALSE]
       /\ values[k] # NoValue
       /\ Abstract(c)' = [op |-> "get", key |-> k, value |-> values[k], done |-> TRUE]

Leaves(c) == values' = values /\ Abstract(c) # Resting /\ Abstract(c)' = Resting
Stutters(c) == values' = values /\ Abstract(c)' = Abstract(c)

\* A step of c's conversation, and what the abstract store does by it.
Goes(c) ==
  /\ TypeOK' /\ Others(c) /\ ServerStays /\ Conversation(c)'
  /\ Invokes(c) \/ PutsNow(c) \/ GetsNow(c) \/ Leaves(c) \/ Stutters(c)

LEMMA WritesAlong ==
  ASSUME NEW S, NEW r \in Seq(S), NEW u \in Seq(S), NEW l \in Seq(S), NEW w, Len(l) > 0, Along(r, u, l, w)
  PROVE  Along(r, Append(u, Head(l)), Tail(l), w)
<1> DEFINE q == Append(u, Head(l))
           t == Tail(l)
           m == Len(r)
           n == Len(u)
           k == Len(l)
<1>1. m \in Nat /\ n \in Nat /\ k \in Nat /\ k > 0
  OBVIOUS
<1>2. Len(q) = n + 1 /\ q[n + 1] = l[1] /\ \A i \in 1 .. n : q[i] = u[i]
  OBVIOUS
<1>3. Len(t) = k - 1 /\ \A i \in 1 .. k - 1 : t[i] = l[i + 1]
  OBVIOUS
<1>4. /\ m + n + k = Len(w) /\ \A i \in 1 .. m : r[i] = w[i]
      /\ \A i \in 1 .. n : u[i] = w[m + i]
      /\ \A i \in 1 .. k : l[i] = w[m + n + i]
  BY DEF Along
<1> HIDE DEF q, t, m, n, k
<1>5. m + (n + 1) + (k - 1) = Len(w)
  BY <1>1, <1>4
<1>6. ASSUME NEW i \in 1 .. n + 1 PROVE q[i] = w[m + i]
  <2>1. CASE i = n + 1
    <3>1. l[1] = w[m + n + 1] /\ m + n + 1 = m + i
      BY <1>1, <1>4, <2>1
    <3> QED BY <1>2, <2>1, <3>1
  <2>2. CASE i \in 1 .. n
    BY <1>2, <1>4, <2>2
  <2> QED BY <1>1, <2>1, <2>2
<1>7. ASSUME NEW i \in 1 .. k - 1 PROVE t[i] = w[m + (n + 1) + i]
  <2>1. i + 1 \in 1 .. k /\ m + n + (i + 1) = m + (n + 1) + i
    BY <1>1
  <2> QED BY <1>3, <1>4, <2>1
<1> QED BY <1>2, <1>3, <1>4, <1>5, <1>6, <1>7 DEF Along, q, t, m, n, k

LEMMA ReadsAlong ==
  ASSUME NEW S, NEW r \in Seq(S), NEW u \in Seq(S), NEW l \in Seq(S), NEW w, Len(u) > 0, Along(r, u, l, w)
  PROVE  Along(Append(r, Head(u)), Tail(u), l, w)
<1> DEFINE q == Append(r, Head(u))
           t == Tail(u)
           m == Len(r)
           n == Len(u)
           k == Len(l)
<1>1. m \in Nat /\ n \in Nat /\ k \in Nat /\ n > 0
  OBVIOUS
<1>2. Len(q) = m + 1 /\ q[m + 1] = u[1] /\ \A i \in 1 .. m : q[i] = r[i]
  OBVIOUS
<1>3. Len(t) = n - 1 /\ \A i \in 1 .. n - 1 : t[i] = u[i + 1]
  OBVIOUS
<1>4. /\ m + n + k = Len(w) /\ \A i \in 1 .. m : r[i] = w[i]
      /\ \A i \in 1 .. n : u[i] = w[m + i]
      /\ \A i \in 1 .. k : l[i] = w[m + n + i]
  BY DEF Along
<1> HIDE DEF q, t, m, n, k
<1>5. (m + 1) + (n - 1) + k = Len(w)
  <2>1. (m + 1) + (n - 1) + k = m + n + k
    BY <1>1
  <2> QED BY <1>4, <2>1
<1>6. ASSUME NEW i \in 1 .. m + 1 PROVE q[i] = w[i]
  <2>1. CASE i = m + 1
    BY <1>1, <1>2, <1>4, <2>1
  <2>2. CASE i \in 1 .. m
    BY <1>2, <1>4, <2>2
  <2> QED BY <1>1, <2>1, <2>2
<1>7. ASSUME NEW i \in 1 .. n - 1 PROVE t[i] = w[(m + 1) + i]
  <2>1. i + 1 \in 1 .. n /\ m + (i + 1) = (m + 1) + i
    BY <1>1
  <2> QED BY <1>3, <1>4, <2>1
<1>8. ASSUME NEW i \in 1 .. k PROVE l[i] = w[(m + 1) + (n - 1) + i]
  <2>1. m + n + i = (m + 1) + (n - 1) + i
    BY <1>1
  <2> QED BY <1>4, <2>1
<1> QED BY <1>2, <1>3, <1>5, <1>6, <1>7, <1>8 DEF Along, q, t, m, n, k

LEMMA RequestIs ==
  ASSUME NEW op \in {"put", "get"}, NEW k \in Keys, NEW v, op = "put" => v \in Values
  PROVE  /\ Request(op, k, v) \in Seq(Chunks)
         /\ op = "put" => Request(op, k, v) = <<"P", Length, k, Length, v>> /\ Len(Request(op, k, v)) = 5
         /\ op = "get" => Request(op, k, v) = <<"G", Length, k>> /\ Len(Request(op, k, v)) = 3
<1>1. "P" \in Chunks /\ "G" \in Chunks /\ Length \in Chunks /\ k \in Chunks /\ (op = "put" => v \in Chunks)
  BY DEF Chunks
<1>2. CASE op = "put"
  BY <1>1, <1>2 DEF Request
<1>3. CASE op = "get"
  BY <1>1, <1>3 DEF Request
<1> QED BY <1>2, <1>3

LEMMA WantedIs ==
  ASSUME NEW c, Asks(c)
  PROVE  /\ Wanted(c) \in Seq(Chunks)
         /\ client[c].op = "put" =>
              Wanted(c) = <<"P", Length, client[c].key, Length, client[c].value>> /\ Len(Wanted(c)) = 5
         /\ client[c].op = "get" => Wanted(c) = <<"G", Length, client[c].key>> /\ Len(Wanted(c)) = 3
BY RequestIs DEF Asks, Wanted

\* Of what was exchanged nothing is left when a call ends.
LEMMA Closing ==
  ASSUME TypeOK, NEW c \in Clients, Conversation(c), Close(c), UNCHANGED <<server, values, up, read>>,
         client[c].pc # "idle", up[c] = << >>, read[c] = << >>
  PROVE  Goes(c)
<1>1. Idle \in Requests
  BY DEF Idle, Requests
<1>2. << >> \in Seq(Answers)
  OBVIOUS
<1>3. TypeOK'
  BY <1>1, <1>2 DEF TypeOK, Close
<1>4. Others(c)
  BY DEF Others, Untouched, Close, TypeOK
<1>5. client'[c] = Idle /\ down'[c] = << >> /\ open'[c] = open[c] \ {"client"}
  BY DEF Close, TypeOK
<1>6. AtRest(c)'
  BY <1>5 DEF AtRest
<1>7. client[c].op # "none"
  BY DEF Conversation, AtRest, Idle, Connecting, Sending, Answered, Asks
<1>8. Abstract(c) # Resting
  BY <1>7, AnsweredIsNotResting, AbstractIsSeen
<1>9. Abstract(c)' = Resting
  BY <1>5, IdleIsResting, AbstractIsSeen
<1> QED BY <1>3, <1>4, <1>6, <1>8, <1>9 DEF Goes, Leaves, Conversation, ServerStays

LEMMA CallGoes ==
  ASSUME TypeOK, NEW c \in Clients, Conversation(c), NEW op \in {"put", "get"}, NEW k \in Keys,
         NEW v \in Values \cup {NoValue}, IF op = "put" THEN v \in Values ELSE v = NoValue, Call(c, op, k, v)
  PROVE  Goes(c)
<1> DEFINE new == [pc |-> "connect", op |-> op, key |-> k, value |-> v, left |-> Request(op, k, v)]
<1>1. AtRest(c)
  BY DEF Conversation, AtRest, Connecting, Sending, Answered, Call
<1>2. Request(op, k, v) \in Seq(Chunks)
  BY RequestIs
<1>3. new \in Requests
  BY <1>2 DEF Requests
<1>4. client' = [client EXCEPT ![c] = new] /\ UNCHANGED <<server, values, up, down, open, read>> /\ open[c] = {}
  BY DEF Call
<1>5. client'[c] = new /\ new.pc = "connect" /\ new.op = op /\ new.key = k /\ new.value = v /\ new.left = Request(op, k, v)
  BY <1>4 DEF TypeOK
<1> HIDE DEF new
<1>6. TypeOK'
  BY <1>3, <1>4 DEF TypeOK
<1>7. Others(c)
  BY <1>4 DEF Others, Untouched, TypeOK
<1>8. Connecting(c)'
  BY <1>1, <1>4, <1>5 DEF Connecting, AtRest, Asks, Wanted
<1>9. Abstract(c)' = [op |-> op, key |-> k, value |-> v, done |-> FALSE]
  <2>1. down'[c] = << >>
    BY <1>1, <1>4 DEF AtRest
  <2> QED BY <1>5, <2>1, NotYetDone, AbstractIsSeen DEF Before
<1>10. Abstract(c) = Resting
  BY <1>1, IdleIsResting, AbstractIsSeen DEF AtRest
<1>11. Invokes(c)
  BY <1>4, <1>9, <1>10 DEF Invokes
<1> QED BY <1>4, <1>6, <1>7, <1>8, <1>11 DEF Goes, Conversation, ServerStays

-----------------------------------------------------------------------------
(* The client's steps.                                                       *)

\* A client that goes on has its call, at another place of it.
LEMMA PcChanges ==
  ASSUME NEW call \in Requests,
         NEW pc \in {"connect", "write", "expect", "read_length", "read_bytes", "return"}
  PROVE  LET new == [call EXCEPT !.pc = pc]
         IN  /\ new \in Requests /\ new.pc = pc /\ new.op = call.op /\ new.key = call.key
             /\ new.value = call.value /\ new.left = call.left
BY DEF Requests

LEMMA ConnectGoes ==
  ASSUME TypeOK, NEW c \in Clients, Conversation(c), Connect(c)
  PROVE  Goes(c)
<1> DEFINE new == [client[c] EXCEPT !.pc = "write"]
<1>1. Connecting(c) /\ client[c] \in Requests
  BY DEF Conversation, AtRest, Idle, Connecting, Sending, Answered, Connect, TypeOK
<1>2. /\ new \in Requests /\ new.pc = "write" /\ new.op = client[c].op /\ new.key = client[c].key
      /\ new.value = client[c].value /\ new.left = client[c].left
  BY <1>1, PcChanges
<1>3. /\ client' = [client EXCEPT ![c] = new] /\ open' = [open EXCEPT ![c] = {"client", "server"}]
      /\ up' = [up EXCEPT ![c] = << >>] /\ down' = [down EXCEPT ![c] = << >>] /\ read' = [read EXCEPT ![c] = << >>]
      /\ UNCHANGED <<server, values>> /\ server = "listening"
  BY DEF Connect
<1> HIDE DEF new
<1>4. client'[c] = new /\ open'[c] = {"client", "server"} /\ up'[c] = << >> /\ down'[c] = << >> /\ read'[c] = << >>
  BY <1>3 DEF TypeOK
<1>5. TypeOK'
  BY <1>2, <1>3 DEF TypeOK
<1>6. Others(c)
  BY <1>3 DEF Others, Untouched, TypeOK
<1>7. Asks(c)' /\ Wanted(c)' = Wanted(c) /\ Connected(c)'
  BY <1>1, <1>2, <1>3, <1>4 DEF Asks, Wanted, Connected, Connecting
<1>8. Wanted(c) = new.left /\ Len(new.left) > 0 /\ Len(new.left) \in Nat
  <2>1. Asks(c) /\ Wanted(c) = new.left
    BY <1>1, <1>2 DEF Connecting
  <2>2. client[c].op = "put" \/ client[c].op = "get"
    BY <2>1 DEF Asks
  <2>3. Len(Wanted(c)) = 5 \/ Len(Wanted(c)) = 3
    BY <2>1, <2>2, WantedIs
  <2>4. Len(Wanted(c)) > 0 /\ Len(Wanted(c)) \in Nat
    BY <2>3
  <2> QED BY <2>1, <2>4
<1>9. Sending(c)'
  BY <1>2, <1>4, <1>7, <1>8 DEF Sending, InOrder, Along
<1>10. down[c] = << >> /\ client[c].pc = "connect"
  BY <1>1 DEF Connecting
<1>11. Abstract(c)' = Abstract(c)
  <2>1. Seen(client[c], << >>) = Before(client[c]) /\ Seen(new, << >>) = Before(new)
    BY <1>2, <1>10, NotYetDone
  <2>2. Before(new) = Before(client[c])
    BY <1>2 DEF Before
  <2> QED BY <1>4, <1>10, <2>1, <2>2, AbstractIsSeen
<1> QED BY <1>3, <1>5, <1>6, <1>9, <1>11 DEF Goes, Stutters, Conversation, ServerStays

LEMMA WriteGoes ==
  ASSUME TypeOK, NEW c \in Clients, Conversation(c), Write(c)
  PROVE  Goes(c)
<1> DEFINE left == client[c].left
           new == [client[c] EXCEPT !.left = Tail(left), !.pc = IF Len(left) = 1 THEN "expect" ELSE "write"]
<1>1. Sending(c) /\ client[c] \in Requests /\ client[c].pc = "write" /\ left \in Seq(Chunks) /\ Len(left) > 0
      /\ up[c] \in Seq(Chunks) /\ read[c] \in Seq(Chunks)
  BY DEF Conversation, AtRest, Idle, Connecting, Sending, Answered, Write, TypeOK, Requests
<1>2. Tail(left) \in Seq(Chunks) /\ Head(left) \in Chunks /\ Len(Tail(left)) = Len(left) - 1 /\ Len(left) \in Nat
      /\ Head(left) = left[1] /\ \A i \in 1 .. Len(left) - 1 : Tail(left)[i] = left[i + 1]
  BY <1>1
<1>3. /\ new \in Requests /\ new.pc = (IF Len(left) = 1 THEN "expect" ELSE "write") /\ new.op = client[c].op
      /\ new.key = client[c].key /\ new.value = client[c].value /\ new.left = Tail(left)
  BY <1>1, <1>2 DEF Requests
<1>4. client' = [client EXCEPT ![c] = new] /\ up' = [up EXCEPT ![c] = Append(up[c], Head(left))]
      /\ UNCHANGED <<server, values, down, open, read>>
  BY <1>1 DEF Write, TypeOK
<1> HIDE DEF new, left
<1>5. client'[c] = new /\ up'[c] = Append(up[c], Head(left))
  BY <1>4 DEF TypeOK
<1>6. Append(up[c], Head(left)) \in Seq(Chunks) /\ Len(Append(up[c], Head(left))) = Len(up[c]) + 1
      /\ Append(up[c], Head(left))[Len(up[c]) + 1] = Head(left)
      /\ \A i \in 1 .. Len(up[c]) : Append(up[c], Head(left))[i] = up[c][i]
      /\ Len(up[c]) \in Nat /\ Len(read[c]) \in Nat
  BY <1>1, <1>2
<1>7. TypeOK'
  BY <1>3, <1>4, <1>6 DEF TypeOK
<1>8. Others(c)
  BY <1>4 DEF Others, Untouched, TypeOK
<1>9. Asks(c)' /\ Wanted(c)' = Wanted(c) /\ Connected(c)'
  BY <1>1, <1>3, <1>4, <1>5 DEF Asks, Wanted, Connected, Sending
<1>10. InOrder(c)'
  <2>1. Along(read[c], up[c], left, Wanted(c))
    BY <1>1 DEF Sending, InOrder, left
  <2>2. Along(read[c], Append(up[c], Head(left)), Tail(left), Wanted(c))
    BY <1>1, <2>1, WritesAlong
  <2>3. read'[c] = read[c] /\ (client[c].left)' = Tail(left)
    BY <1>3, <1>4, <1>5
  <2> QED BY <1>5, <1>9, <2>2, <2>3 DEF InOrder
<1>11. Sending(c)'
  BY <1>1, <1>2, <1>3, <1>4, <1>5, <1>9, <1>10 DEF Sending
<1>12. down'[c] = << >> /\ down[c] = << >>
  BY <1>1, <1>4 DEF Sending
<1>13. Abstract(c)' = Abstract(c)
  <2>1. client[c].pc = "write" /\ new.pc \in {"write", "expect"}
    BY <1>1, <1>3
  <2>2. Seen(client[c], << >>) = Before(client[c]) /\ Seen(new, << >>) = Before(new)
    BY <2>1, NotYetDone
  <2> QED BY <1>3, <1>5, <1>12, <2>2, AbstractIsSeen DEF Before
<1> QED BY <1>4, <1>7, <1>8, <1>11, <1>13 DEF Goes, Stutters, Conversation, ServerStays

\* A step that changes c's place in its call and what has arrived for it.
LEMMA Receiving ==
  ASSUME TypeOK, NEW c \in Clients, Answered(c), NEW new \in Requests, NEW answer \in Seq(Answers),
         client' = [client EXCEPT ![c] = new], down' = [down EXCEPT ![c] = answer],
         UNCHANGED <<server, values, up, open, read>>, new.op = "get", client[c].op = "get",
         new.key = client[c].key, new.left = << >>, new.pc # "return" => new.value = NoValue,
         NEW v \in Values,
         \/ client[c].pc = "expect" /\ down[c] = <<"K", Length, v>>
         \/ client[c].pc = "read_length" /\ down[c] = <<Length, v>>
         \/ client[c].pc = "read_bytes" /\ down[c] = <<v>>,
         \/ new.pc = "read_length" /\ answer = <<Length, v>>
         \/ new.pc = "read_bytes" /\ answer = <<v>>
         \/ new.pc = "return" /\ answer = << >> /\ new.value = v
  PROVE  Goes(c)
<1>1. client'[c] = new /\ down'[c] = answer
  BY DEF TypeOK
<1>2. TypeOK'
  BY DEF TypeOK
<1>3. Others(c)
  BY DEF Others, Untouched, TypeOK
<1>4. Asks(c)' /\ Connected(c)'
  BY <1>1 DEF Answered, Asks, Connected
<1>5. Answered(c)'
  BY <1>1, <1>4 DEF Answered
<1>6. Seen(client[c], down[c]) = After(client[c], v)
  BY GetIsDone
<1>7. Seen(new, answer) = After(new, v)
  BY GetIsDone
<1>8. After(new, v) = After(client[c], v)
  BY DEF After
<1>9. Abstract(c)' = Abstract(c)
  BY <1>1, <1>6, <1>7, <1>8, AbstractIsSeen
<1> QED BY <1>2, <1>3, <1>5, <1>9 DEF Goes, Stutters, Conversation, ServerStays

LEMMA AnswersAre ==
  ASSUME NEW v \in Values
  PROVE  /\ <<Length, v>> \in Seq(Answers) /\ <<v>> \in Seq(Answers) /\ << >> \in Seq(Answers)
         /\ <<"K">> \in Seq(Answers) /\ <<"T">> \in Seq(Answers) /\ <<"K", Length, v>> \in Seq(Answers)
<1>1. "K" \in Answers /\ "T" \in Answers /\ Length \in Answers /\ v \in Answers
  BY DEF Answers
<1> QED BY <1>1

LEMMA ExpectGoes ==
  ASSUME TypeOK, NEW c \in Clients, Conversation(c), Expect(c)
  PROVE  Goes(c)
<1>1. Answered(c) /\ client[c].pc = "expect" /\ Head(down[c]) = "K" /\ client[c] \in Requests
  BY DEF Conversation, AtRest, Connecting, Sending, Answered, Expect, TypeOK
<1>2. CASE client[c].op = "put"
  BY <1>1, <1>2, Closing DEF Expect, Answered, Conversation
<1>3. CASE client[c].op = "get"
  <2>1. PICK v \in Values : down[c] = <<"K", Length, v>>
    BY <1>1, <1>3 DEF Answered
  <2>2. Tail(down[c]) = <<Length, v>>
    BY <2>1
  <2> DEFINE new == [client[c] EXCEPT !.pc = "read_length"]
  <2>3. /\ new \in Requests /\ new.pc = "read_length" /\ new.op = client[c].op /\ new.key = client[c].key
        /\ new.value = client[c].value /\ new.left = client[c].left
    BY <1>1, PcChanges
  <2>4. /\ client' = [client EXCEPT ![c] = new] /\ down' = [down EXCEPT ![c] = <<Length, v>>]
        /\ UNCHANGED <<server, values, up, open, read>>
    BY <1>3, <2>2 DEF Expect, TypeOK
  <2>5. client[c].value = NoValue /\ client[c].left = << >>
    BY <1>1, <1>3 DEF Answered, Asks
  <2> HIDE DEF new
  <2> QED BY <1>1, <1>3, <2>1, <2>3, <2>4, <2>5, AnswersAre, Receiving
<1> QED BY <1>1, <1>2, <1>3 DEF Answered

LEMMA ReadLengthGoes ==
  ASSUME TypeOK, NEW c \in Clients, Conversation(c), ReadLength(c)
  PROVE  Goes(c)
<1>1. Answered(c) /\ client[c].pc = "read_length" /\ client[c].op = "get" /\ client[c] \in Requests
  BY DEF Conversation, AtRest, Idle, Connecting, Sending, Answered, ReadLength, TypeOK
<1>2. PICK v \in Values : down[c] = <<Length, v>>
  BY <1>1 DEF Answered
<1>3. Tail(down[c]) = <<v>>
  BY <1>2
<1> DEFINE new == [client[c] EXCEPT !.pc = "read_bytes"]
<1>4. /\ new \in Requests /\ new.pc = "read_bytes" /\ new.op = client[c].op /\ new.key = client[c].key
      /\ new.value = client[c].value /\ new.left = client[c].left
  BY <1>1, PcChanges
<1>5. /\ client' = [client EXCEPT ![c] = new] /\ down' = [down EXCEPT ![c] = <<v>>]
      /\ UNCHANGED <<server, values, up, open, read>>
  BY <1>3 DEF ReadLength, TypeOK
<1>6. client[c].value = NoValue /\ client[c].left = << >>
  BY <1>1 DEF Answered, Asks
<1> HIDE DEF new
<1> QED BY <1>1, <1>2, <1>4, <1>5, <1>6, AnswersAre, Receiving

LEMMA ReadBytesGoes ==
  ASSUME TypeOK, NEW c \in Clients, Conversation(c), ReadBytes(c)
  PROVE  Goes(c)
<1>1. Answered(c) /\ client[c].pc = "read_bytes" /\ client[c].op = "get" /\ client[c] \in Requests
  BY DEF Conversation, AtRest, Idle, Connecting, Sending, Answered, ReadBytes, TypeOK
<1>2. PICK v \in Values : down[c] = <<v>>
  BY <1>1 DEF Answered
<1>3. Head(down[c]) = v /\ "server" \in open[c]
  BY <1>1, <1>2 DEF Answered, Connected
<1> DEFINE new == [client[c] EXCEPT !.pc = "return", !.value = v]
<1>4. /\ new \in Requests /\ new.pc = "return" /\ new.op = client[c].op /\ new.key = client[c].key
      /\ new.value = v /\ new.left = client[c].left
  BY <1>1 DEF Requests
<1>5. /\ client' = [client EXCEPT ![c] = new] /\ down' = [down EXCEPT ![c] = << >>]
      /\ UNCHANGED <<server, values, up, open, read>>
  BY <1>3 DEF ReadBytes, AtEnd, TypeOK
<1>6. client[c].left = << >>
  BY <1>1 DEF Answered
<1> HIDE DEF new
<1> QED BY <1>1, <1>2, <1>4, <1>5, <1>6, AnswersAre, Receiving

\* The steps by which a call ends.
LEMMA EndGoes ==
  ASSUME TypeOK, NEW c \in Clients, Conversation(c),
         ConnectFails(c) \/ WriteFails(c) \/ ReadThrows(c) \/ Return(c)
  PROVE  Goes(c)
<1>1. CASE ConnectFails(c)
  <2>1. Connecting(c)
    BY <1>1 DEF Conversation, AtRest, Idle, Connecting, Sending, Answered, ConnectFails
  <2> QED BY <1>1, <2>1, Closing DEF ConnectFails, Connecting
<1>2. CASE WriteFails(c)
  BY <1>2 DEF WriteFails, Conversation, AtRest, Idle, Connecting, Sending, Answered, Connected
<1>3. CASE ReadThrows(c)
  <2>1. Sending(c) \/ Answered(c)
    BY <1>3 DEF ReadThrows, Conversation, AtRest, Idle, Connecting
  <2>2. "server" \in open[c]
    BY <2>1 DEF Sending, Answered, Connected
  <2>3. down[c] # << >>
    BY <1>3, <2>2 DEF ReadThrows, AtEnd
  <2>4. Answered(c) /\ client[c].pc # "idle"
    BY <1>3, <2>1, <2>3 DEF Sending, ReadThrows
  <2> QED BY <1>3, <2>4, Closing DEF ReadThrows, Answered
<1>4. CASE Return(c)
  <2>1. Answered(c)
    BY <1>4 DEF Conversation, AtRest, Idle, Connecting, Sending, Return
  <2> QED BY <1>4, <2>1, Closing DEF Return, Answered
<1> QED BY <1>1, <1>2, <1>3, <1>4

-----------------------------------------------------------------------------
(* The steps of the serving thread.                                          *)

LEMMA ServeReadGoes ==
  ASSUME TypeOK, NEW c \in Clients, Conversation(c), ServeRead(c)
  PROVE  Goes(c)
<1>1. Sending(c)
  BY DEF Conversation, AtRest, Connecting, Sending, Answered, ServeRead
<1> DEFINE r == read[c]
           u == up[c]
           left == client[c].left
<1>2. r \in Seq(Chunks) /\ u \in Seq(Chunks) /\ left \in Seq(Chunks) /\ u # << >>
  BY DEF TypeOK, Requests, ServeRead
<1>3. Len(u) > 0 /\ Append(r, Head(u)) \in Seq(Chunks) /\ Tail(u) \in Seq(Chunks)
  BY <1>2
<1>4. Along(Append(r, Head(u)), Tail(u), left, Wanted(c))
  <2>1. Along(r, u, left, Wanted(c))
    BY <1>1 DEF Sending, InOrder
  <2> QED BY <1>2, <1>3, <2>1, ReadsAlong
<1> HIDE DEF left
<1>5. /\ read' = [read EXCEPT ![c] = Append(r, Head(u))] /\ up' = [up EXCEPT ![c] = Tail(u)]
      /\ UNCHANGED <<server, values, client, down, open>>
  BY DEF ServeRead
<1>6. read'[c] = Append(r, Head(u)) /\ up'[c] = Tail(u)
  BY <1>5 DEF TypeOK
<1>7. TypeOK'
  BY <1>3, <1>5 DEF TypeOK
<1>8. Others(c)
  BY <1>5 DEF Others, Untouched, TypeOK
<1>9. Asks(c)' /\ Wanted(c)' = Wanted(c) /\ Connected(c)'
  BY <1>1, <1>5 DEF Asks, Wanted, Connected, Sending
<1>10. Sending(c)'
  BY <1>1, <1>4, <1>5, <1>6, <1>9 DEF Sending, InOrder, left
<1>11. Abstract(c)' = Abstract(c)
  BY <1>5, AbstractIsSeen
<1> QED BY <1>5, <1>7, <1>8, <1>10, <1>11 DEF Goes, Stutters, Conversation, ServerStays

LEMMA ServeEndGoes ==
  ASSUME TypeOK, NEW c \in Clients, Conversation(c), ServeEnd(c)
  PROVE  Goes(c)
<1>1. CASE Sending(c)
  <2>1. up[c] # << >> /\ Head(up[c]) = Part
    BY <1>1 DEF ServeEnd, AtEnd, Sending, Connected
  <2> DEFINE u == up[c]
  <2>2. u \in Seq(Chunks) /\ Len(u) > 0 /\ u[1] = Part
    BY <2>1 DEF TypeOK
  <2>3. Part \in Chunks
    BY <2>2
  <2> QED BY <2>3, StoreAssumption DEF Chunks, Part, Length
<1>2. CASE AtRest(c)
  <2>1. /\ open' = [open EXCEPT ![c] = open[c] \ {"server"}] /\ up' = [up EXCEPT ![c] = << >>]
        /\ read' = [read EXCEPT ![c] = << >>] /\ UNCHANGED <<server, values, client, down>>
    BY DEF ServeEnd, Hangup, TypeOK
  <2>2. open'[c] = open[c] \ {"server"} /\ up'[c] = << >> /\ read'[c] = << >>
    BY <2>1 DEF TypeOK
  <2>3. TypeOK'
    BY <2>1 DEF TypeOK
  <2>4. Others(c)
    BY <2>1 DEF Others, Untouched, TypeOK
  <2>5. AtRest(c)'
    BY <1>2, <2>1, <2>2 DEF AtRest
  <2>6. Abstract(c)' = Abstract(c)
    BY <2>1, AbstractIsSeen
  <2> QED BY <2>1, <2>3, <2>4, <2>5, <2>6 DEF Goes, Stutters, Conversation, ServerStays
<1>3. ~Connecting(c)
  BY DEF Connecting, ServeEnd, Serving
<1>4. ~Answered(c)
  BY DEF Answered, ServeEnd, AtEnd, Connected
<1> QED BY <1>1, <1>2, <1>3, <1>4 DEF Conversation

\* No string of a request is lost where nobody dies.
LEMMA NoZeros ==
  ASSUME NEW c \in Clients, Conversation(c)
  PROVE  ~ServeZeros(c)
<1> SUFFICES ASSUME ServeZeros(c) PROVE FALSE
  OBVIOUS
<1>1. "client" \notin open[c] /\ "server" \in open[c] /\ Len(read[c]) \in {2, 4}
  BY DEF ServeZeros, AtEnd, Serving
<1>2. AtRest(c)
  BY <1>1 DEF Conversation, Connecting, Sending, Answered, Connected
<1> QED BY <1>1, <1>2 DEF AtRest

LEMMA LengthOfWhole ==
  ASSUME NEW r, Complete(r), Len(r) \in {3, 5}
  PROVE  \/ Len(r) = 5 /\ r[1] = "P"
         \/ Len(r) = 3 /\ r[1] # "P"
<1>1. Len(r) > 0
  OBVIOUS
<1> QED BY <1>1 DEF Complete

LEMMA AtLeastFive ==
  ASSUME NEW a \in Nat, NEW b \in Nat PROVE 5 + a + b >= 5
OBVIOUS

\* A request that was read to its end is the one the client made, and all of it.
LEMMA WholeRequest ==
  ASSUME TypeOK, NEW c \in Clients, Conversation(c), Serving(c), Complete(read[c]), Len(read[c]) \in {3, 5}
  PROVE  /\ Sending(c) /\ client[c].pc = "expect" /\ client[c].left = << >> /\ up[c] = << >>
         /\ read[c] = Wanted(c)
         /\ client[c].op = "put" <=> Len(read[c]) = 5
         /\ client[c].op = "get" <=> Len(read[c]) = 3
         /\ read[c][3] = client[c].key
         /\ client[c].op = "put" => read[c][5] = client[c].value
<1>0. read[c] # << >>
  OBVIOUS
<1>1. Sending(c)
  BY <1>0 DEF Conversation, AtRest, Connecting, Answered
<1> DEFINE r == read[c]
           w == Wanted(c)
           left == client[c].left
<1>2. r \in Seq(Chunks) /\ up[c] \in Seq(Chunks) /\ left \in Seq(Chunks) /\ w \in Seq(Chunks)
  BY <1>1, WantedIs DEF TypeOK, Requests, Sending
<1>3. Len(r) + Len(up[c]) + Len(left) = Len(w) /\ \A i \in 1 .. Len(r) : r[i] = w[i]
  BY <1>1 DEF Sending, InOrder, Along
<1>4. Len(up[c]) \in Nat /\ Len(left) \in Nat /\ Len(r) \in Nat
  BY <1>2
<1>5. r[1] = w[1]
  <2>1. 1 \in 1 .. Len(r)
    OBVIOUS
  <2> QED BY <1>3, <2>1
<1>6. /\ client[c].op \in {"put", "get"}
      /\ client[c].op = "put" => Len(w) = 5 /\ w[1] = "P" /\ w[3] = client[c].key /\ w[5] = client[c].value
      /\ client[c].op = "get" => Len(w) = 3 /\ w[1] = "G" /\ w[3] = client[c].key
  <2>1. Asks(c) /\ client[c].op \in {"put", "get"}
    BY <1>1 DEF Sending, Asks
  <2> QED BY <2>1, WantedIs
<1>7. Len(r) = Len(w)
  <2>1. \/ Len(r) = 5 /\ r[1] = "P"
        \/ Len(r) = 3 /\ r[1] # "P"
    BY LengthOfWhole
  <2>2. r[1] = "P" => client[c].op = "put"
    BY <1>5, <1>6
  <2>3. r[1] # "P" => client[c].op = "get"
    BY <1>5, <1>6
  <2> HIDE DEF r, w
  <2> QED BY <1>6, <2>1, <2>2, <2>3
<1>8. Len(up[c]) = 0 /\ Len(left) = 0
  <2> HIDE DEF r, w, left
  <2> QED BY <1>3, <1>4, <1>7
<1>9. up[c] = << >> /\ left = << >>
  BY <1>2, <1>8
<1>10. r = w
  BY <1>2, <1>3, <1>7, SeqEqual
<1>11. client[c].pc = "expect"
  BY <1>1, <1>8 DEF Sending
<1> HIDE DEF r, w
<1>12. client[c].op = "put" <=> Len(r) = 5
  BY <1>6, <1>7
<1>13. client[c].op = "get" <=> Len(r) = 3
  BY <1>6, <1>7
<1>14. r[3] = client[c].key /\ (client[c].op = "put" => r[5] = client[c].value)
  BY <1>6, <1>10
<1> QED BY <1>1, <1>9, <1>10, <1>11, <1>12, <1>13, <1>14 DEF r, w

LEMMA Replying ==
  ASSUME TypeOK, NEW c \in Clients, Sending(c), client[c].pc = "expect", client[c].left = << >>, up[c] = << >>,
         NEW answer \in Seq(Answers), Reply(c, answer), UNCHANGED <<server, client>>,
         values' \in [Keys -> Values \cup {NoValue}],
         \/ client[c].op = "put" /\ answer = <<"K">>
         \/ client[c].op = "get" /\ answer = <<"T">>
         \/ client[c].op = "get" /\ \E v \in Values : answer = <<"K", Length, v>>
  PROVE  /\ TypeOK' /\ Others(c) /\ ServerStays /\ Conversation(c)'
         /\ client'[c] = client[c] /\ down[c] = << >> /\ down'[c] = answer
<1>1. "client" \in open[c] /\ down[c] = << >>
  BY DEF Sending, Connected
<1>2. << >> \o answer = answer
  OBVIOUS
<1>3. /\ down' = [down EXCEPT ![c] = answer] /\ read' = [read EXCEPT ![c] = << >>]
      /\ UNCHANGED <<server, client, up, open>>
  BY <1>1, <1>2 DEF Reply, TypeOK
<1>4. down'[c] = answer /\ read'[c] = << >>
  BY <1>3 DEF TypeOK
<1>5. TypeOK'
  BY <1>3 DEF TypeOK
<1>6. Others(c)
  BY <1>3 DEF Others, Untouched, TypeOK
<1>7. Asks(c)' /\ Connected(c)'
  BY <1>3 DEF Sending, Asks, Connected
<1>8. Answered(c)'
  BY <1>3, <1>4, <1>7 DEF Answered
<1> QED BY <1>1, <1>3, <1>4, <1>5, <1>6, <1>8 DEF ServerStays, Conversation

LEMMA ServePutGoes ==
  ASSUME TypeOK, NEW c \in Clients, Conversation(c), ServePut(c)
  PROVE  Goes(c)
<1>1. Len(read[c]) = 5 /\ Serving(c) /\ Complete(read[c])
  <2>1. Len(read[c]) = 5 /\ Serving(c) /\ read[c] # << >>
    BY DEF ServePut
  <2>2. Sending(c)
    BY <2>1 DEF Conversation, AtRest, Connecting, Answered
  <2>3. read[c][1] = "P"
    <3>1. Along(read[c], up[c], client[c].left, Wanted(c)) /\ Asks(c)
      BY <2>2 DEF Sending, InOrder
    <3>2. read[c][1] = Wanted(c)[1] /\ Len(Wanted(c)) >= 5
      <4>1. Len(up[c]) \in Nat /\ Len(client[c].left) \in Nat
        BY DEF TypeOK, Requests
      <4>2. /\ Len(read[c]) + Len(up[c]) + Len(client[c].left) = Len(Wanted(c))
            /\ \A i \in 1 .. Len(read[c]) : read[c][i] = Wanted(c)[i]
        BY <3>1 DEF Along
      <4>3. 1 \in 1 .. Len(read[c])
        BY <2>1
      <4>4. 5 + Len(up[c]) + Len(client[c].left) >= 5
        BY <4>1, AtLeastFive
      <4> QED BY <2>1, <4>2, <4>3, <4>4
    <3>3. Wanted(c)[1] = "P"
      <4>1. Len(Wanted(c)) # 3
        BY <3>2
      <4>2. client[c].op = "put"
        BY <3>1, <4>1, WantedIs DEF Asks
      <4> QED BY <3>1, <4>2, WantedIs
    <3> QED BY <3>2, <3>3
  <2> QED BY <2>1, <2>3 DEF Complete
<1>2. /\ Sending(c) /\ client[c].pc = "expect" /\ client[c].left = << >> /\ up[c] = << >>
      /\ client[c].op = "put" /\ read[c][3] = client[c].key /\ read[c][5] = client[c].value
  BY <1>1, WholeRequest
<1> DEFINE k == client[c].key
           v == client[c].value
<1>3. k \in Keys /\ v \in Values /\ down[c] = << >>
  BY <1>2 DEF Sending, Asks
<1>4. values' = [values EXCEPT ![k] = v] /\ Reply(c, <<"K">>) /\ UNCHANGED <<server, client>>
  BY <1>2 DEF ServePut
<1>5. values' \in [Keys -> Values \cup {NoValue}] /\ <<"K">> \in Seq(Answers)
  BY <1>3, <1>4, AnswersAre DEF TypeOK
<1>6. /\ TypeOK' /\ Others(c) /\ ServerStays /\ Conversation(c)'
      /\ client'[c] = client[c] /\ down'[c] = <<"K">>
  BY <1>2, <1>4, <1>5, Replying
<1>7. Abstract(c) = [op |-> "put", key |-> k, value |-> v, done |-> FALSE]
  BY <1>2, <1>3, NotYetDone, AbstractIsSeen DEF Before
<1>8. Abstract(c)' = [op |-> "put", key |-> k, value |-> v, done |-> TRUE]
  <2>1. Seen(client[c], <<"K">>) = After(client[c], v)
    BY <1>2, PutIsDone
  <2> QED BY <1>2, <1>6, <2>1, AbstractIsSeen DEF After
<1> HIDE DEF k, v
<1> QED BY <1>3, <1>4, <1>6, <1>7, <1>8 DEF Goes, PutsNow

LEMMA ServeGetGoes ==
  ASSUME TypeOK, NEW c \in Clients, Conversation(c), ServeGet(c)
  PROVE  Goes(c)
<1>1. /\ Sending(c) /\ client[c].pc = "expect" /\ client[c].left = << >> /\ up[c] = << >>
      /\ client[c].op = "get" /\ read[c][3] = client[c].key
  BY WholeRequest DEF ServeGet
<1> DEFINE k == client[c].key
           v == values[k]
           answer == <<"K", Length, v>>
<1>2. k \in Keys /\ client[c].value = NoValue /\ down[c] = << >>
  BY <1>1 DEF Sending, Asks
<1>3. v \in Values
  BY <1>1, <1>2 DEF ServeGet, TypeOK
<1>4. Reply(c, answer) /\ UNCHANGED <<server, client, values>>
  BY <1>1 DEF ServeGet
<1>5. answer \in Seq(Answers) /\ values' \in [Keys -> Values \cup {NoValue}]
  BY <1>3, <1>4, AnswersAre DEF TypeOK
<1> HIDE DEF k, v
<1>6. /\ TypeOK' /\ Others(c) /\ ServerStays /\ Conversation(c)'
      /\ client'[c] = client[c] /\ down'[c] = answer
  BY <1>1, <1>3, <1>4, <1>5, Replying
<1>7. Abstract(c) = [op |-> "get", key |-> k, value |-> NoValue, done |-> FALSE]
  BY <1>1, <1>2, NotYetDone, AbstractIsSeen DEF Before, k
<1>8. Abstract(c)' = [op |-> "get", key |-> k, value |-> v, done |-> TRUE]
  <2>1. Seen(client[c], answer) = After(client[c], v)
    BY <1>1, GetIsDone
  <2> QED BY <1>1, <1>6, <2>1, AbstractIsSeen DEF After, k
<1>9. v # NoValue
  BY <1>3, StoreAssumption
<1> QED BY <1>2, <1>4, <1>6, <1>7, <1>8, <1>9 DEF Goes, GetsNow, v

LEMMA ServeTimeoutGoes ==
  ASSUME TypeOK, NEW c \in Clients, Conversation(c), ServeTimeout(c)
  PROVE  Goes(c)
<1>1. /\ Sending(c) /\ client[c].pc = "expect" /\ client[c].left = << >> /\ up[c] = << >>
      /\ client[c].op = "get"
  BY WholeRequest DEF ServeTimeout
<1>2. Reply(c, <<"T">>) /\ UNCHANGED <<server, client, values>>
  BY DEF ServeTimeout
<1>3. "T" \in Answers
  BY DEF Answers
<1>4. <<"T">> \in Seq(Answers) /\ values' \in [Keys -> Values \cup {NoValue}]
  BY <1>2, <1>3 DEF TypeOK
<1>5. /\ TypeOK' /\ Others(c) /\ ServerStays /\ Conversation(c)'
      /\ client'[c] = client[c] /\ down[c] = << >> /\ down'[c] = <<"T">>
  BY <1>1, <1>2, <1>4, Replying
<1>6. Seen(client[c], << >>) = Before(client[c]) /\ Seen(client[c], <<"T">>) = Before(client[c])
  BY <1>1, NotYetDone
<1>7. Abstract(c)' = Abstract(c)
  BY <1>5, <1>6, AbstractIsSeen
<1> QED BY <1>2, <1>5, <1>7 DEF Goes, Stutters

-----------------------------------------------------------------------------
(* Every step keeps the conversations and is a step of the abstract store.   *)

LEMMA StepGoes ==
  ASSUME Alive, IInv, NEW c \in Clients,
         MakeRequest(c) \/ ClientStep(c) \/ ServerStep(c) \/ ClientDies(c), failures' = failures
  PROVE  Goes(c)
<1>1. TypeOK /\ Conversation(c)
  BY DEF IInv
<1>2. ~ClientDies(c)
  BY DEF Alive, ClientDies
<1>3. MakeRequest(c) => Goes(c)
  BY <1>1, CallGoes DEF MakeRequest
<1>4. ClientStep(c) => Goes(c)
  BY <1>1, ConnectGoes, WriteGoes, ExpectGoes, ReadLengthGoes, ReadBytesGoes, EndGoes DEF ClientStep
<1>5. ServerStep(c) => Goes(c)
  BY <1>1, ServeReadGoes, ServeEndGoes, NoZeros, ServePutGoes, ServeGetGoes, ServeTimeoutGoes DEF ServerStep
<1> QED BY <1>2, <1>3, <1>4, <1>5

LEMMA ListenGoes ==
  ASSUME Listen
  PROVE  values' = values /\ ServerStays /\ \A d \in Clients : Untouched(d)
BY DEF Listen, ServerStays, Untouched

\* A step of one conversation leaves the others where they are.
LEMMA OthersStay ==
  ASSUME Alive, IInv, NEW c \in Clients, Goes(c)
  PROVE  /\ TypeOK' /\ \A d \in Clients : Conversation(d)'
         /\ \A d \in Clients \ {c} : Abstract(d)' = Abstract(d)
BY Undisturbed DEF IInv, Goes, Others

LEMMA EachStep ==
  ASSUME Alive, IInv, Next
  PROVE  \/ Listen
         \/ \E c \in Clients : Goes(c)
<1>1. failures' = failures /\ ~ServerExits
  BY DEF Next, Alive, ServerExits
<1> QED BY <1>1, StepGoes DEF Next

LEMMA Starts == Init => IInv
<1> SUFFICES ASSUME Init PROVE IInv
  OBVIOUS
<1>1. Idle \in Requests /\ << >> \in Seq(Chunks) /\ << >> \in Seq(Answers)
  BY DEF Idle, Requests
<1>2. TypeOK
  BY <1>1 DEF Init, TypeOK
<1>3. \A c \in Clients : AtRest(c)
  BY DEF Init, AtRest
<1> QED BY <1>2, <1>3 DEF IInv, Conversation

LEMMA Keeps == IInv /\ [Next]_vars => IInv'
<1> SUFFICES ASSUME IInv, [Next]_vars, Alive' PROVE TypeOK' /\ \A c \in Clients : Conversation(c)'
  BY DEF IInv
<1>1. Alive
  BY DEF Alive, Next, vars
<1>2. CASE Listen
  <2>1. TypeOK'
    BY <1>1, <1>2 DEF IInv, TypeOK, Listen
  <2>2. \A c \in Clients : Conversation(c)'
    BY <1>1, <1>2, ListenGoes, Undisturbed DEF IInv
  <2> QED BY <2>1, <2>2
<1>3. CASE \E c \in Clients : Goes(c)
  BY <1>1, <1>3, OthersStay
<1>4. CASE UNCHANGED vars
  <2>1. TypeOK'
    BY <1>1, <1>4 DEF IInv, TypeOK, vars
  <2>2. ServerStays /\ \A c \in Clients : Untouched(c)
    BY <1>4 DEF vars, ServerStays, Untouched
  <2>3. \A c \in Clients : Conversation(c)'
    BY <1>1, <2>2, Undisturbed DEF IInv
  <2> QED BY <2>1, <2>3
<1> QED BY <1>1, <1>2, <1>3, <1>4, EachStep

-----------------------------------------------------------------------------
(* The map and the calls of the abstract store.                              *)

Map == [k \in Keys |-> IF Alive THEN values[k] ELSE NoValue]
Calls == [c \in Clients |-> IF Alive THEN Abstract(c) ELSE Resting]

LEMMA StartsTheStore == Init => Store!Init
<1> SUFFICES ASSUME Init PROVE Store!Init
  OBVIOUS
<1>1. Map = [k \in Keys |-> NoValue]
  BY DEF Init, Map
<1>2. \A c \in Clients : Abstract(c) = Resting
  BY DEF Init, Abstract, Idle
<1>3. Calls = [c \in Clients |-> Resting]
  BY <1>2 DEF Calls
<1> QED BY <1>1, <1>3 DEF Store!Init, Store!Resting, Resting, Map, Calls

Fields == {"op", "key", "value", "done"}

LEMMA SameCall ==
  ASSUME NEW r, NEW s, DOMAIN r = Fields, DOMAIN s = Fields,
         r = [x \in DOMAIN r |-> r[x]], s = [x \in DOMAIN s |-> s[x]],
         r.op = s.op, r.key = s.key, r.value = s.value, r.done = s.done
  PROVE  r = s
<1>1. \A x \in Fields : r[x] = s[x]
  BY DEF Fields
<1> QED BY <1>1

LEMMA GoesInTheStore ==
  ASSUME Alive, Alive', IInv, NEW c \in Clients, Goes(c)
  PROVE  Store!Next \/ UNCHANGED <<Map, Calls>>
<1>1. values \in [Keys -> Values \cup {NoValue}] /\ values' \in [Keys -> Values \cup {NoValue}]
  BY DEF IInv, Goes, TypeOK
<1>2. Map = values /\ Map' = values'
  BY <1>1 DEF Map
<1>3. Calls = [d \in Clients |-> Abstract(d)] /\ Calls' = [d \in Clients |-> Abstract(d)']
  BY DEF Calls
<1>4. Calls' = [Calls EXCEPT ![c] = Abstract(c)'] /\ Calls[c] = Abstract(c)
  BY <1>3, OthersStay
<1>5. CASE Invokes(c)
  <2>1. PICK op \in {"put", "get"}, k \in Keys, v \in Values \cup {NoValue} :
          /\ IF op = "put" THEN v \in Values ELSE v = NoValue
          /\ Abstract(c)' = [op |-> op, key |-> k, value |-> v, done |-> FALSE]
    BY <1>5 DEF Invokes
  <2>2. Calls[c] = Resting /\ Map' = Map
          /\ Calls' = [Calls EXCEPT ![c] = [op |-> op, key |-> k, value |-> v, done |-> FALSE]]
    BY <1>2, <1>4, <1>5, <2>1 DEF Invokes
  <2>3. Store!Invoke(c, op, k, v)
    BY <2>2 DEF Store!Invoke, Store!Resting, Resting, Map, Calls
  <2> QED BY <2>1, <2>3 DEF Store!Next
<1>6. CASE PutsNow(c)
  <2>1. PICK k \in Keys, v \in Values :
          /\ Abstract(c) = [op |-> "put", key |-> k, value |-> v, done |-> FALSE]
          /\ values' = [values EXCEPT ![k] = v]
          /\ Abstract(c)' = [op |-> "put", key |-> k, value |-> v, done |-> TRUE]
    BY <1>6 DEF PutsNow
  <2>2. /\ Calls[c].op = "put" /\ ~Calls[c].done /\ Calls[c].key = k /\ Calls[c].value = v
        /\ [Calls[c] EXCEPT !.done = TRUE] = Abstract(c)'
    <3> DEFINE q == [Calls[c] EXCEPT !.done = TRUE]
               s == [op |-> "put", key |-> k, value |-> v, done |-> TRUE]
    <3>1. Calls[c] = [op |-> "put", key |-> k, value |-> v, done |-> FALSE]
      BY <1>4, <2>1
    <3>2. DOMAIN q = Fields /\ DOMAIN s = Fields
      BY <3>1 DEF Fields
    <3>3. q = [x \in DOMAIN q |-> q[x]] /\ s = [x \in DOMAIN s |-> s[x]]
      BY <3>1
    <3>4. q.op = s.op /\ q.key = s.key /\ q.value = s.value
      BY <3>1
    <3>5. q.done = s.done
      BY <3>1
    <3>6. s = Abstract(c)'
      BY <2>1
    <3>7. q = s
      <4> HIDE DEF q, s
      <4> QED BY <3>2, <3>3, <3>4, <3>5, SameCall
    <3>8. [Calls[c] EXCEPT !.done = TRUE] = Abstract(c)'
      BY <3>6, <3>7
    <3> HIDE DEF q, s
    <3> QED BY <3>1, <3>8
  <2>3. Map' = [Map EXCEPT ![Calls[c].key] = Calls[c].value]
    BY <1>2, <2>1, <2>2
  <2>4. Calls' = [Calls EXCEPT ![c].done = TRUE]
    BY <1>4, <2>2
  <2>5. Store!PutInstant(c)
    BY <2>2, <2>3, <2>4 DEF Store!PutInstant, Map, Calls
  <2> QED BY <2>5 DEF Store!Next
<1>7. CASE GetsNow(c)
  <2>1. PICK k \in Keys :
          /\ Abstract(c) = [op |-> "get", key |-> k, value |-> NoValue, done |-> FALSE]
          /\ values[k] # NoValue
          /\ Abstract(c)' = [op |-> "get", key |-> k, value |-> values[k], done |-> TRUE]
    BY <1>7 DEF GetsNow
  <2>2. /\ Calls[c].op = "get" /\ ~Calls[c].done /\ Calls[c].key = k
        /\ [Calls[c] EXCEPT !.done = TRUE, !.value = values[k]] = Abstract(c)'
    <3> DEFINE q == [Calls[c] EXCEPT !.done = TRUE, !.value = values[k]]
               s == [op |-> "get", key |-> k, value |-> values[k], done |-> TRUE]
    <3>1. Calls[c] = [op |-> "get", key |-> k, value |-> NoValue, done |-> FALSE]
      BY <1>4, <2>1
    <3>2. DOMAIN q = Fields /\ DOMAIN s = Fields
      BY <3>1 DEF Fields
    <3>3. q = [x \in DOMAIN q |-> q[x]] /\ s = [x \in DOMAIN s |-> s[x]]
      BY <3>1
    <3>4. q.op = s.op /\ q.key = s.key /\ q.value = s.value
      BY <3>1
    <3>5. q.done = s.done
      BY <3>1
    <3>6. s = Abstract(c)'
      BY <2>1
    <3>7. q = s
      <4> HIDE DEF q, s
      <4> QED BY <3>2, <3>3, <3>4, <3>5, SameCall
    <3>8. [Calls[c] EXCEPT !.done = TRUE, !.value = values[k]] = Abstract(c)'
      BY <3>6, <3>7
    <3> HIDE DEF q, s
    <3> QED BY <3>1, <3>8
  <2>3. Map[Calls[c].key] = values[k] /\ Map' = Map
    BY <1>2, <1>7, <2>2 DEF GetsNow
  <2>4. Calls' = [Calls EXCEPT ![c].done = TRUE, ![c].value = Map[Calls[c].key]]
    BY <1>4, <2>2, <2>3
  <2>5. Store!GetInstant(c)
    BY <2>1, <2>2, <2>3, <2>4 DEF Store!GetInstant, Map, Calls
  <2> QED BY <2>5 DEF Store!Next
<1>8. CASE Leaves(c)
  <2>1. Calls[c] # Resting /\ Map' = Map /\ Calls' = [Calls EXCEPT ![c] = Resting]
    BY <1>2, <1>4, <1>8 DEF Leaves
  <2>2. Store!Leave(c)
    BY <2>1 DEF Store!Leave, Store!Resting, Resting, Map, Calls
  <2> QED BY <2>2 DEF Store!Next
<1>9. CASE Stutters(c)
  BY <1>2, <1>3, <1>4, <1>9 DEF Stutters
<1> QED BY <1>5, <1>6, <1>7, <1>8, <1>9 DEF Goes

LEMMA StepsInTheStore ==
  ASSUME IInv, [Next]_vars
  PROVE  Store!Next \/ UNCHANGED <<Map, Calls>>
<1>1. failures' = failures
  BY DEF Next, vars
<1>2. CASE ~Alive
  <2>1. ~Alive'
    BY <1>1, <1>2 DEF Alive
  <2> QED BY <1>2, <2>1 DEF Map, Calls
<1>3. CASE Alive
  <2>1. Alive'
    BY <1>1, <1>3 DEF Alive
  <2>2. CASE values' = values /\ \A d \in Clients : Abstract(d)' = Abstract(d)
    BY <1>3, <2>1, <2>2 DEF Map, Calls
  <2>3. CASE Listen
    BY <1>3, <2>2, <2>3, ListenGoes, Undisturbed DEF IInv
  <2>4. CASE UNCHANGED vars
    BY <2>2, <2>4 DEF vars, Abstract, Effective
  <2>5. CASE \E c \in Clients : Goes(c)
    BY <1>3, <2>1, <2>5, GoesInTheStore
  <2> QED BY <1>3, <2>3, <2>4, <2>5, EachStep
<1> QED BY <1>2, <1>3

(* A client's request, its bytes and the answer always make up one exchange:   *)
(* where nobody dies, what Write sent, what Read took and what is still to be  *)
(* sent are together the request, and a reply is waiting only for the client   *)
(* that made it (tcp_key_value_store.cc).                                      *)
THEOREM Invariant == Spec => []IInv
<1>1. Init => IInv
  BY Starts
<1>2. IInv /\ [Next]_vars => IInv'
  BY Keeps
<1> QED BY <1>1, <1>2, PTL DEF Spec

(* The server seen from its clients is a KeyValueStore where nobody dies: a    *)
(* Put changes the map once between its call and its return, and a Get returns *)
(* what the map held under its key at an instant of the call.                  *)
THEOREM Refinement == Spec => ImplementsStore
<1>1. Init => Store!Init
  BY StartsTheStore
<1>2. IInv /\ [Next]_vars => [Store!Next]_<<Map, Calls>>
  BY StepsInTheStore
<1>3. Spec => []IInv
  BY Invariant
<1> QED BY <1>1, <1>2, <1>3, PTL DEF Spec, ImplementsStore, Store!Spec, Map, Calls
=============================================================================
