-------------------------- MODULE TcpKeyValueStore --------------------------
(***************************************************************************)
(* libtt's own key-value store (cpp/tcp_key_value_store.cc): the serving   *)
(* process keeps the map and runs one thread per connection; a client      *)
(* opens a connection for every request.  A request or a reply is a        *)
(* sequence of the chunks that separate calls of Write put on the          *)
(* connection: an operation or reply letter, and for every string its      *)
(* length and then its bytes.  A client or the serving process may die     *)
(* between any two chunks or inside one; its host closes its connections.  *)
(***************************************************************************)
EXTENDS Integers, FiniteSets, Sequences

CONSTANTS
  Clients,     \* threads with a request, one connection each
  Keys, Values,
  NoValue,     \* nothing put under a key yet
  Zeros,       \* a string of the right length whose bytes never arrived
  FailureSets  \* what may fail together, see failures

Length == "length"   \* the eight bytes of a string's length
Part == "part"       \* some of the bytes of a chunk

\* A string is told from one whose bytes are missing or cut.
ASSUME StoreAssumption ==
  /\ NoValue \notin Values /\ Zeros \notin Values \cup Keys \cup {NoValue}
  /\ Part \notin Keys \cup Values
  /\ FailureSets \subseteq SUBSET {"timeout", "death", "exit"}

VARIABLES
  failures, \* which failures happen: "timeout", "death" of a client, "exit" of
            \* the serving process
  server,   \* "starting", "listening" or "gone"
  values,   \* values_: the value under a key, or NoValue
  client,   \* client[c]: the request of c and how far it is
  up,       \* up[c]: chunks on their way to the server
  down,     \* down[c]: chunks on their way to the client
  open,     \* open[c]: the ends of c's connection that are open
  read      \* read[c]: chunks of the request the serving thread has read

vars == <<failures, server, values, client, up, down, open, read>>

-----------------------------------------------------------------------------
Request(op, key, value) ==
  IF op = "put" THEN <<"P", Length, key, Length, value>> ELSE <<"G", Length, key>>

Idle == [pc |-> "idle", op |-> "none", key |-> NoValue, value |-> NoValue, left |-> << >>]

\* The other end has closed and everything it wrote has been read.
AtEnd(c, side, queue) == side \notin open[c] /\ queue = << >>

Init ==
  /\ failures \in FailureSets
  /\ server = "starting"
  /\ values = [k \in Keys |-> NoValue]
  /\ client = [c \in Clients |-> Idle]
  /\ up = [c \in Clients |-> << >>]
  /\ down = [c \in Clients |-> << >>]
  /\ open = [c \in Clients |-> {}]
  /\ read = [c \in Clients |-> << >>]

Listen ==
  /\ server = "starting"
  /\ server' = "listening"
  /\ UNCHANGED <<values, client, up, down, open, read>>

-----------------------------------------------------------------------------
(* The client.                                                              *)

Call(c, op, key, value) ==
  /\ client[c].pc = "idle"
  /\ open[c] = {}
  /\ client' = [client EXCEPT ![c] = [pc |-> "connect", op |-> op, key |-> key,
                  value |-> value, left |-> Request(op, key, value)]]
  /\ UNCHANGED <<server, values, up, down, open, read>>

\* Connect retries until the server listens.
Connect(c) ==
  /\ client[c].pc = "connect"
  /\ server = "listening"
  /\ client' = [client EXCEPT ![c].pc = "write"]
  /\ open' = [open EXCEPT ![c] = {"client", "server"}]
  /\ up' = [up EXCEPT ![c] = << >>]
  /\ down' = [down EXCEPT ![c] = << >>]
  /\ read' = [read EXCEPT ![c] = << >>]
  /\ UNCHANGED <<server, values>>

\* The call is over, by return or by exception: ~Connection closes its end.
Close(c) ==
  /\ client' = [client EXCEPT ![c] = Idle]
  /\ open' = [open EXCEPT ![c] = @ \ {"client"}]
  /\ down' = [down EXCEPT ![c] = << >>]

ConnectFails(c) ==
  /\ "timeout" \in failures
  /\ client[c].pc = "connect"
  /\ server # "listening"
  /\ Close(c)
  /\ UNCHANGED <<server, values, up, read>>

Write(c) ==
  /\ client[c].pc = "write"
  /\ "server" \in open[c]
  /\ up' = [up EXCEPT ![c] = Append(@, Head(client[c].left))]
  /\ client' = [client EXCEPT ![c].left = Tail(@),
                              ![c].pc = IF Len(client[c].left) = 1 THEN "expect" ELSE @]
  /\ UNCHANGED <<server, values, down, open, read>>

\* Write on a broken connection throws.
WriteFails(c) ==
  /\ client[c].pc = "write"
  /\ "server" \notin open[c]
  /\ Close(c)
  /\ UNCHANGED <<server, values, up, read>>

\* Expect: 'K' goes on, for a put it returns.
Expect(c) ==
  /\ client[c].pc = "expect"
  /\ down[c] # << >> /\ Head(down[c]) = "K"
  /\ IF client[c].op = "put" THEN Close(c)
     ELSE /\ client' = [client EXCEPT ![c].pc = "read_length"]
          /\ down' = [down EXCEPT ![c] = Tail(@)]
          /\ open' = open
  /\ UNCHANGED <<server, values, up, read>>

\* Expect throws on 'T' and on a closed connection; ReadString throws when the
\* length does not arrive, and when the string arrives in part.
ReadThrows(c) ==
  /\ \/ client[c].pc = "expect" /\ down[c] # << >> /\ Head(down[c]) = "T"
     \/ client[c].pc \in {"expect", "read_length"} /\ AtEnd(c, "server", down[c])
     \/ client[c].pc \in {"read_length", "read_bytes"} /\ down[c] # << >> /\ Head(down[c]) = Part
  /\ Close(c)
  /\ UNCHANGED <<server, values, up, read>>

ReadLength(c) ==
  /\ client[c].pc = "read_length"
  /\ down[c] # << >> /\ Head(down[c]) = Length
  /\ client' = [client EXCEPT ![c].pc = "read_bytes"]
  /\ down' = [down EXCEPT ![c] = Tail(@)]
  /\ UNCHANGED <<server, values, up, open, read>>

\* ReadString ignores what Read returns for the bytes: when the connection
\* closed before the first of them it goes on with the zeros it allocated.
ReadBytes(c) ==
  /\ client[c].pc = "read_bytes"
  /\ \/ /\ down[c] # << >> /\ Head(down[c]) # Part
        /\ client' = [client EXCEPT ![c].pc = "return", ![c].value = Head(down[c])]
     \/ /\ AtEnd(c, "server", down[c])
        /\ client' = [client EXCEPT ![c].pc = "return", ![c].value = Zeros]
  /\ down' = [down EXCEPT ![c] = << >>]
  /\ UNCHANGED <<server, values, up, open, read>>

Return(c) ==
  /\ client[c].pc = "return"
  /\ Close(c)
  /\ UNCHANGED <<server, values, up, read>>

-----------------------------------------------------------------------------
(* The serving thread of a connection (Serve).                              *)

Serving(c) == server = "listening" /\ "server" \in open[c]

\* The thread leaves its loop, or an exception takes it out of it.
Hangup(c) ==
  /\ open' = [open EXCEPT ![c] = @ \ {"server"}]
  /\ up' = [up EXCEPT ![c] = << >>]
  /\ read' = [read EXCEPT ![c] = << >>]

Complete(r) == IF Len(r) > 0 /\ r[1] = "P" THEN Len(r) = 5 ELSE Len(r) = 3

ServeRead(c) ==
  /\ Serving(c) /\ ~Complete(read[c])
  /\ up[c] # << >> /\ Head(up[c]) # Part
  /\ read' = [read EXCEPT ![c] = Append(@, Head(up[c]))]
  /\ up' = [up EXCEPT ![c] = Tail(@)]
  /\ UNCHANGED <<server, values, client, down, open>>

\* The client has closed: the loop ends before an operation, ReadString throws
\* where a length is missing or a chunk is cut.
ServeEnd(c) ==
  /\ Serving(c) /\ ~Complete(read[c])
  /\ \/ AtEnd(c, "client", up[c]) /\ Len(read[c]) \in {0, 1, 3}
     \/ up[c] # << >> /\ Head(up[c]) = Part
  /\ Hangup(c)
  /\ UNCHANGED <<server, values, client, down>>

\* As in ReadBytes: the length has arrived, none of the bytes have.
ServeZeros(c) ==
  /\ Serving(c) /\ ~Complete(read[c])
  /\ AtEnd(c, "client", up[c]) /\ Len(read[c]) \in {2, 4}
  /\ read' = [read EXCEPT ![c] = Append(@, Zeros)]
  /\ UNCHANGED <<server, values, client, up, down, open>>

\* Write throws when the client is gone, and its chunks are lost with it.
Reply(c, chunks) ==
  IF "client" \in open[c]
  THEN /\ down' = [down EXCEPT ![c] = @ \o chunks]
       /\ read' = [read EXCEPT ![c] = << >>]
       /\ UNCHANGED <<open, up>>
  ELSE Hangup(c) /\ down' = down

\* Mutant: the first value put under a key stays.
ServePutOnce(c) ==
  /\ Serving(c) /\ Len(read[c]) = 5 /\ read[c][3] \in Keys
  /\ values' = [values EXCEPT ![read[c][3]] = IF @ = NoValue THEN read[c][5] ELSE @]
  /\ Reply(c, <<"K">>)
  /\ UNCHANGED <<server, client>>

\* 'P': the map changes under the lock; waiting gets are notified.
ServePut(c) ==
  /\ Serving(c) /\ Len(read[c]) = 5 /\ read[c][3] \in Keys
  /\ values' = [values EXCEPT ![read[c][3]] = read[c][5]]
  /\ Reply(c, <<"K">>)
  /\ UNCHANGED <<server, client>>

\* 'G': wait_for returns once the map has the key.
ServeGet(c) ==
  /\ Serving(c) /\ Len(read[c]) = 3 /\ Complete(read[c]) /\ read[c][3] \in Keys
  /\ values[read[c][3]] # NoValue
  /\ Reply(c, <<"K", Length, values[read[c][3]]>>)
  /\ UNCHANGED <<server, values, client>>

\* Mutant: the thread goes on to the next request and answers nothing.
ServeTimeoutSilently(c) ==
  /\ "timeout" \in failures
  /\ Serving(c) /\ Len(read[c]) = 3 /\ Complete(read[c])
  /\ read[c][3] \in Keys => values[read[c][3]] = NoValue
  /\ Reply(c, << >>)
  /\ UNCHANGED <<server, values, client>>

\* wait_for gives up; it looks at the predicate once more before it does.
ServeTimeout(c) ==
  /\ "timeout" \in failures
  /\ Serving(c) /\ Len(read[c]) = 3 /\ Complete(read[c])
  /\ read[c][3] \in Keys => values[read[c][3]] = NoValue
  /\ Reply(c, <<"T">>)
  /\ UNCHANGED <<server, values, client>>

-----------------------------------------------------------------------------
(* Failures.                                                                *)

\* Everything a dead client wrote still arrives, the chunk it was writing in part;
\* the letter that comes first is one byte and has no parts.
ClientDies(c) ==
  /\ "death" \in failures
  /\ client[c].pc # "dead"
  /\ client' = [client EXCEPT ![c].pc = "dead"]
  /\ open' = [open EXCEPT ![c] = @ \ {"client"}]
  /\ down' = [down EXCEPT ![c] = << >>]
  /\ \/ up' = up
     \/ client[c].pc = "write" /\ Len(read[c]) + Len(up[c]) > 0 /\ up' = [up EXCEPT ![c] = Append(@, Part)]
  /\ UNCHANGED <<server, values, read>>

\* Reply puts a whole reply on the connection; an exit between its chunks leaves a
\* beginning of it.
Beginnings(queue) ==
  {SubSeq(queue, 1, n) : n \in 0 .. Len(queue)}
    \cup {Append(SubSeq(queue, 1, n), Part) : n \in 1 .. Len(queue) - 1}

ServerExits ==
  /\ "exit" \in failures
  /\ server = "listening"
  /\ server' = "gone"
  /\ open' = [c \in Clients |-> open[c] \ {"server"}]
  /\ down' \in [Clients -> UNION {Beginnings(down[c]) : c \in Clients}]
  /\ \A c \in Clients : down'[c] \in Beginnings(down[c])
  /\ up' = [c \in Clients |-> << >>]
  /\ read' = [c \in Clients |-> << >>]
  /\ UNCHANGED <<values, client>>

-----------------------------------------------------------------------------
ClientStep(c) ==
  \/ Connect(c) \/ ConnectFails(c) \/ Write(c) \/ WriteFails(c) \/ Expect(c)
  \/ ReadThrows(c) \/ ReadLength(c) \/ ReadBytes(c) \/ Return(c)

ServerStep(c) ==
  ServeRead(c) \/ ServeEnd(c) \/ ServeZeros(c) \/ ServePut(c) \/ ServeGet(c) \/ ServeTimeout(c)

MakeRequest(c) ==
  \/ \E k \in Keys, v \in Values : Call(c, "put", k, v)
  \/ \E k \in Keys : Call(c, "get", k, NoValue)

Next ==
  /\ \/ Listen \/ ServerExits
     \/ \E c \in Clients : MakeRequest(c) \/ ClientStep(c) \/ ServerStep(c) \/ ClientDies(c)
  /\ failures' = failures

Spec == Init /\ [][Next]_vars

\* Threads run, and the ten minutes pass: a waiting get and a retried connect end.
FairSpec ==
  Spec /\ \A c \in Clients : /\ WF_vars(ClientStep(c) /\ failures' = failures)
                             /\ WF_vars(ServerStep(c) /\ failures' = failures)

-----------------------------------------------------------------------------
\* Seen from its clients the server is a KeyValueStore: a put changes the map once,
\* a get returns what the map held during the call.  (Where nobody dies: a truncated
\* string is read as if it were whole, see ReadBytes.)
Alive == failures \subseteq {"timeout"}

Effective(c) ==
  \/ \E i \in DOMAIN down[c] : down[c][i] = "K"
  \/ client[c].pc \in {"read_length", "read_bytes", "return"}

Resting == [op |-> "none", key |-> NoValue, value |-> NoValue, done |-> FALSE]

Abstract(c) ==
  IF client[c].pc = "idle" THEN Resting
  ELSE [op |-> client[c].op, key |-> client[c].key, done |-> Effective(c),
        value |-> IF client[c].op = "get" /\ Effective(c) /\ down[c] # << >>
                  THEN down[c][Len(down[c])] ELSE client[c].value]

Store == INSTANCE KeyValueStore
           WITH map <- [k \in Keys |-> IF Alive THEN values[k] ELSE NoValue],
                doing <- [c \in Clients |-> IF Alive THEN Abstract(c) ELSE Resting]

ImplementsStore == Store!Spec

\* Whoever dies, and whether or not the key is ever put, a request ends.
EveryRequestEnds ==
  \A c \in Clients : client[c].pc # "idle" ~> client[c].pc \in {"idle", "dead"}
=============================================================================
