------------------------- MODULE KeyValueCollectives -------------------------
(***************************************************************************)
(* The collective operations of KeyValueContext (cpp/key_value_context.cc) *)
(* and the contexts made from contexts: all_gather (barrier is one of a    *)
(* byte), broadcast, create_sub_context, duplicate and split.  All         *)
(* contexts of all processes share one key-value store, so the names they  *)
(* build are what keeps them apart.  A key is the sequence of the parts    *)
(* the code joins with "/".                                                *)
(*                                                                         *)
(* The members of a context call its collectives in the same order, as the *)
(* code requires of its callers: whoever calls the n-th collective first   *)
(* decides which one it is.                                                *)
(***************************************************************************)
EXTENDS Integers, FiniteSets, SequencesExt

CONSTANTS
  MaxProcesses,    \* bound on the number of processes
  SizeOf,          \* SizeOf[v]: the number of bytes of a value
  Undefined,       \* SPLIT_COLOR_UNDEFINED
  SortKeys,        \* keys given to split
  Groups,          \* rank sequences given to create_sub_context
  Workloads        \* what a run of the processes may do, see workload

ASSUME CollectivesAssumption ==
  /\ MaxProcesses \in Nat
  /\ \A w \in Workloads :
       /\ w.processes \in 1 .. MaxProcesses
       /\ w.values \subseteq DOMAIN SizeOf
       /\ w.collectives \in Nat /\ w.contexts \in Nat
  /\ SizeOf \in [DOMAIN SizeOf -> Nat]
  /\ \A g \in Groups : g \in Seq(Nat) /\ IsInjective(g) /\ g # << >>
  /\ SortKeys \subseteq Int

VARIABLES
  workload,  \* the number of processes; the kinds of operations they call, the
             \* values and split colors they give; bounds on the collectives
             \* called on a context and on the contexts a process makes
  store,     \* the key-value store: a function on the keys put so far
  contexts,  \* contexts[p]: the KeyValueContext objects p has made, in order, a prefix
             \* and the members each
  counters,  \* counters[p]: sequences_ of each object o of p, by o and the channel
  call,      \* call[p]: what p is doing
  agreed,    \* agreed[prefix]: the collectives of a context, in calling order
  begun,     \* begun[p][prefix]: how many collectives of a context p has called
  given,     \* history: what each process gave to each round of gathering
  taken,     \* history: what each process took out of a round of gathering
  cast       \* history: what the root of each round of broadcasting put

history == <<given, taken, cast>>
vars == <<workload, store, counters, contexts, call, agreed, begun, given, taken, cast>>

\* The abstract rounds these contexts implement.
Rounds == INSTANCE GatherRounds

-----------------------------------------------------------------------------
\* The global ranks.
Processes == 0 .. workload.processes - 1

Root == [prefix |-> <<"libtt", "control">>,
         members |-> [i \in 1 .. workload.processes |-> i - 1]]

Size(c) == Len(c.members)

\* Mutant: the position in members_ taken for the rank, counted from one.
RankFromOne(p, c) == CHOOSE i \in 1 .. Size(c) : c.members[i] = p

\* The rank of process p in context c.
RankIn(p, c) == (CHOOSE i \in 1 .. Size(c) : c.members[i] = p) - 1

Member(p, c) == \E i \in 1 .. Size(c) : c.members[i] = p

Count(f, x) == IF x \in DOMAIN f THEN f[x] ELSE 0
Incremented(f, x) == [y \in DOMAIN f \cup {x} |-> IF y = x THEN Count(f, x) + 1 ELSE f[y]]

Numeral(n) == ToString(n)

\* The name that Next of the object o makes of a channel, from o's own counter of it.
NextName(p, o, parts) ==
  contexts[p][o].prefix \o parts \o <<Numeral(Count(counters[p], <<o, parts>>))>>

\* Mutant: the counter is read and not advanced.
AdvanceNot(p, o, parts) == counters' = counters

Advance(p, o, parts) == counters' = [counters EXCEPT ![p] = Incremented(@, <<o, parts>>)]

Put(key, value) ==
  store' = [k \in DOMAIN store \cup {key} |-> IF k = key THEN value ELSE store[k]]

Idle == [op |-> "idle"]

Init ==
  /\ workload \in Workloads
  /\ store = [k \in {} |-> 0]
  /\ counters = [p \in Processes |-> [c \in {} |-> 0]]
  /\ contexts = [p \in Processes |-> <<Root>>]
  /\ call = [p \in Processes |-> Idle]
  /\ agreed = [x \in {} |-> << >>]
  /\ begun = [p \in Processes |-> [x \in {} |-> 0]]
  /\ given = {} /\ taken = {} /\ cast = {}

-----------------------------------------------------------------------------
(* The calling convention: p's next collective on c is the one agreed on,   *)
(* or p is the first to get there.                                          *)

Agreed(x) == IF x \in DOMAIN agreed THEN agreed[x] ELSE << >>

Begin(p, c, kind) ==
  LET k == Count(begun[p], c.prefix) + 1
  IN /\ k <= workload.collectives
     /\ IF k <= Len(Agreed(c.prefix)) THEN Agreed(c.prefix)[k] = kind /\ agreed' = agreed
        ELSE agreed' = [x \in DOMAIN agreed \cup {c.prefix} |->
                          IF x = c.prefix THEN Append(Agreed(x), kind) ELSE agreed[x]]
     /\ begun' = [begun EXCEPT ![p] = Incremented(@, c.prefix)]

Round(p, c) == Count(begun[p], c.prefix)

Gave(p, c, value) ==
  [group |-> c, round |-> Round(p, c) + 1, process |-> p, value |-> value]
Took(p, c, values) ==
  [group |-> c, round |-> Round(p, c), process |-> p, values |-> values]

\* all_gather of more than one member, on the object o: choose the round's key.  A
\* context of one copies and has nothing to choose.
StartGather(p, o, kind, value) ==
  LET c == contexts[p][o]
  IN /\ call[p].op = "idle"
     /\ Size(c) > 1
     /\ Begin(p, c, kind)
     /\ call' = [call EXCEPT ![p] = [op |-> "gather_put", kind |-> kind, obj |-> o, ctx |-> c,
          key |-> NextName(p, o, <<"collective">>) \o <<"all_gather">>,
          value |-> value, got |-> << >>]]
     /\ Advance(p, o, <<"collective">>)
     /\ given' = given \cup {Gave(p, c, value)}
     /\ UNCHANGED <<store, contexts, taken, cast>>

\* split of a context of one: its gathering only copies.
SplitAlone(p, o, value) ==
  /\ call[p].op = "idle"
  /\ Size(contexts[p][o]) = 1
  /\ call' = [call EXCEPT ![p] = [op |-> "split", kind |-> <<"split">>, obj |-> o,
       ctx |-> contexts[p][o], value |-> value, got |-> <<value>>]]
  /\ UNCHANGED <<store, counters, contexts, agreed, begun, history>>

\* Mutant: the ranks of a round share a key.
GatherKeyOfRound(p, i) == call[p].key

GatherKey(p, i) == call[p].key \o <<Numeral(i)>>

PutOwn(p) ==
  /\ call[p].op = "gather_put"
  /\ Put(GatherKey(p, RankIn(p, call[p].ctx)), call[p].value)
  /\ call' = [call EXCEPT ![p].op = "gather_get"]
  /\ UNCHANGED <<counters, contexts, agreed, begun, history>>

\* Copy checks the length of what a peer gave against this rank's own.
SameSize(p, v) ==
  IF call[p].kind = <<"split">> THEN TRUE ELSE SizeOf[v] = SizeOf[call[p].value]

\* The gets are in rank order; the value of the last one completes the round.
GetNext(p) ==
  LET i == Len(call[p].got)
      key == GatherKey(p, i)
      got == Append(call[p].got, store[key])
  IN /\ call[p].op = "gather_get"
     /\ key \in DOMAIN store
     /\ SameSize(p, store[key])
     /\ IF Len(got) < Size(call[p].ctx)
        THEN call' = [call EXCEPT ![p].got = got] /\ taken' = taken
        ELSE /\ call' = [call EXCEPT ![p] = IF call[p].kind = <<"split">>
                           THEN [@ EXCEPT !.op = "split", !.got = got] ELSE Idle]
             /\ taken' = taken \cup {Took(p, call[p].ctx, got)}
     /\ UNCHANGED <<store, counters, contexts, agreed, begun, given, cast>>

-----------------------------------------------------------------------------
\* broadcast: the root puts and returns, the others get.
StartBroadcast(p, o, root, value) ==
  LET c == contexts[p][o]
  IN /\ call[p].op = "idle"
     /\ Size(c) > 1
     /\ Begin(p, c, <<"broadcast", root>>)
     /\ call' = [call EXCEPT ![p] =
          [op |-> IF RankIn(p, c) = root THEN "broadcast_put" ELSE "broadcast_get",
           kind |-> <<"broadcast", root>>, ctx |-> c,
           key |-> NextName(p, o, <<"collective">>) \o <<"broadcast", Numeral(root)>>,
           value |-> value]]
     /\ Advance(p, o, <<"collective">>)
     /\ UNCHANGED <<store, contexts, history>>

Cast(p, v) == [group |-> call[p].ctx, round |-> Round(p, call[p].ctx), value |-> v]

PutBroadcast(p) ==
  /\ call[p].op = "broadcast_put"
  /\ Put(call[p].key, call[p].value)
  /\ call' = [call EXCEPT ![p] = Idle]
  /\ cast' = cast \cup {Cast(p, call[p].value)}
  /\ UNCHANGED <<counters, contexts, agreed, begun, given, taken>>

GetBroadcast(p) ==
  /\ call[p].op = "broadcast_get"
  /\ call[p].key \in DOMAIN store
  /\ SameSize(p, store[call[p].key])
  /\ call' = [call EXCEPT ![p] = Idle]
  /\ UNCHANGED <<store, counters, contexts, agreed, begun, history>>

\* The key whose value p waits for.
Awaited(p) ==
  IF call[p].op = "gather_get" THEN GatherKey(p, Len(call[p].got)) ELSE call[p].key

\* A get times out: the collective throws, its key is spent.
TimesOut(p) ==
  /\ call[p].op \in {"gather_get", "broadcast_get"}
  /\ Awaited(p) \notin DOMAIN store
  /\ call' = [call EXCEPT ![p] = Idle]
  /\ UNCHANGED <<store, counters, contexts, agreed, begun, history>>

\* Copy throws where the message has another length.
CopyThrows(p) ==
  /\ call[p].op \in {"gather_get", "broadcast_get"}
  /\ Awaited(p) \in DOMAIN store
  /\ ~SameSize(p, store[Awaited(p)])
  /\ call' = [call EXCEPT ![p] = Idle]
  /\ UNCHANGED <<store, counters, contexts, agreed, begun, history>>

-----------------------------------------------------------------------------
(* Contexts made from contexts.                                             *)

\* A new object, whose own sequences_ is empty.
MakeContext(p, prefix, members) ==
  contexts' = [contexts EXCEPT ![p] = Append(@, [prefix |-> prefix, members |-> members])]

\* Mutant: groups are told apart by their size only.
GroupChannelBySize(ranks) == <<"group", Numeral(Len(ranks))>>

GroupChannel(ranks) == <<"group">> \o [i \in 1 .. Len(ranks) |-> Numeral(ranks[i])]

SubContext(p, o, ranks) ==
  LET members == [i \in 1 .. Len(ranks) |-> contexts[p][o].members[ranks[i] + 1]]
      group == GroupChannel(ranks)
  IN IF \E i \in 1 .. Len(members) : members[i] = p
     THEN Advance(p, o, group) /\ MakeContext(p, NextName(p, o, group), members)
     ELSE UNCHANGED <<counters, contexts>>

\* create_sub_context, given distinct ranks of the context; a process that is not
\* among them gets no context and its counters stay.
CreateSubContext(p, o, ranks) ==
  /\ call[p].op = "idle"
  /\ SubContext(p, o, ranks)
  /\ UNCHANGED <<store, call, agreed, begun, history>>

Duplicate(p, o) ==
  /\ call[p].op = "idle"
  /\ MakeContext(p, NextName(p, o, <<"duplicate">>), contexts[p][o].members)
  /\ Advance(p, o, <<"duplicate">>)
  /\ UNCHANGED <<store, call, agreed, begun, history>>

\* split, after its gathering: the ranks of p's color, sorted by key and, for
\* equal keys, by rank.
SplitRanks(got, color) ==
  LET ranks == {i \in 0 .. Len(got) - 1 : got[i + 1][1] = color}
      Before(a, b) == \/ got[a + 1][2] < got[b + 1][2]
                      \/ got[a + 1][2] = got[b + 1][2] /\ a < b
  IN CHOOSE s \in [1 .. Cardinality(ranks) -> ranks] :
       \A i, j \in DOMAIN s : i < j => Before(s[i], s[j])

FinishSplit(p) ==
  LET color == call[p].value[1]
  IN /\ call[p].op = "split"
     /\ IF color = Undefined THEN UNCHANGED <<counters, contexts>>
        ELSE SubContext(p, call[p].obj, SplitRanks(call[p].got, color))
     /\ call' = [call EXCEPT ![p] = Idle]
     /\ UNCHANGED <<store, agreed, begun, history>>

-----------------------------------------------------------------------------
Continue(p) ==
  \/ PutOwn(p) \/ GetNext(p) \/ PutBroadcast(p) \/ GetBroadcast(p) \/ CopyThrows(p)
  \/ FinishSplit(p)

Start(p, o) ==
  \/ "gather" \in workload.kinds /\ \E v \in workload.values : StartGather(p, o, <<"gather">>, v)
  \/ /\ "broadcast" \in workload.kinds
     /\ \E root \in 0 .. Size(contexts[p][o]) - 1, v \in workload.values :
          StartBroadcast(p, o, root, v)
  \/ /\ Len(contexts[p]) < workload.contexts
     /\ \/ "duplicate" \in workload.kinds /\ Duplicate(p, o)
        \/ "group" \in workload.kinds /\ \E ranks \in Groups :
             ToSet(ranks) \subseteq 0 .. Size(contexts[p][o]) - 1 /\ CreateSubContext(p, o, ranks)
        \/ "split" \in workload.kinds /\ \E color \in workload.colors, key \in SortKeys :
             \/ StartGather(p, o, <<"split">>, <<color, key>>)
             \/ SplitAlone(p, o, <<color, key>>)

Next ==
  /\ \E p \in Processes :
       Continue(p) \/ TimesOut(p) \/ \E o \in DOMAIN contexts[p] : Start(p, o)
  /\ workload' = workload

Spec == Init /\ [][Next]_vars
FairSpec ==
  Spec /\ \A p \in 0 .. MaxProcesses - 1 : WF_vars(p \in Processes /\ Continue(p) /\ workload' = workload)

-----------------------------------------------------------------------------
\* Contexts of one name are one context: a process has an object of a name once,
\* whose counters nobody else's repeat, and objects of one name in two processes have
\* the same members.  So no process reads in its own context what another put in a
\* different one, however both were made (the "disjoint message namespaces" of
\* tests/key_value_context_test.cc).
SameNameSameContext ==
  \A p, q \in Processes : \A i \in DOMAIN contexts[p], j \in DOMAIN contexts[q] :
    contexts[p][i].prefix = contexts[q][j].prefix =>
      contexts[p][i].members = contexts[q][j].members /\ (p = q => i = j)

\* What a rank finds under the key of a broadcast is what the root put in that
\* very round.
BroadcastFromRoot ==
  \A p \in Processes :
    call[p].op = "broadcast_get" /\ call[p].key \in DOMAIN store
      => Cast(p, store[call[p].key]) \in cast

\* all_gather, barrier and the gathering of split do what GatherRounds says: every
\* member of a round takes the values the members gave to that round, all of them.
GathersRounds == Rounds!Spec

\* Once every member has called a gathering and none waits for another collective,
\* each of them gets out of it.
Called(p) ==
  /\ p \in Processes
  /\ call[p].op = "gather_get"
  /\ \A i \in 1 .. Size(call[p].ctx) :
       Count(begun[call[p].ctx.members[i]], call[p].ctx.prefix) >= Round(p, call[p].ctx)

GatherCompletes == \A p \in 0 .. MaxProcesses - 1 : Called(p) ~> ~Called(p)
=============================================================================
