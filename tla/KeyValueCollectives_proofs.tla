--------------------- MODULE KeyValueCollectives_proofs ---------------------
(* What keeps contexts and their collectives apart are the names they build. *)
(* Contexts of one name are one context, and all_gather and broadcast do     *)
(* what they promise, for any processes, values, groups and colors, and      *)
(* however many contexts are made out of contexts.                           *)
EXTENDS KeyValueCollectives, FiniteSetTheorems, SequenceTheorems, TLAPS

-----------------------------------------------------------------------------
(* The names.                                                               *)

Keywords == {"libtt", "control", "duplicate", "group", "collective", "all_gather", "broadcast"}
Numerals == {Numeral(n) : n \in Nat}
Names == Seq(Keywords \cup Numerals)
Numbers == Seq(Numerals)

\* What the names rely on of the text of numbers: different numbers have different
\* texts, and none of them is one of the words.
NumeralsDiffer ==
  /\ \A m, n \in Nat : Numeral(m) = Numeral(n) => m = n
  /\ Keywords \cap Numerals = {}

\* The names of the n-th collective of a context of prefix x, and of its keys.
RoundName(x, n) == x \o <<"collective">> \o <<Numeral(n)>>
GatherName(x, n, i) == RoundName(x, n) \o <<"all_gather">> \o <<Numeral(i)>>
BroadcastName(x, n, r) == RoundName(x, n) \o <<"broadcast", Numeral(r)>>

-----------------------------------------------------------------------------
(* The inductive invariant.                                                 *)

Contexts == [prefix : Names, members : Seq(Processes)]
TalliesOf(N) == UNION {[X -> Nat] : X \in SUBSET N}
Tallies == TalliesOf(Names)
Channels == Nat \X Names
SplitValues == workload.colors \X SortKeys
Values == workload.values \cup SplitValues
Kinds == {<<"gather">>, <<"split">>} \cup {<<"broadcast", r>> : r \in Nat}

Gatherings ==
  [op : {"gather_put", "gather_get", "split"}, kind : {<<"gather">>, <<"split">>}, obj : Nat,
   ctx : Contexts, key : Names, value : Values, got : Seq(Values)]
Broadcasts ==
  [op : {"broadcast_put", "broadcast_get"}, kind : Kinds, ctx : Contexts, key : Names,
   value : Values]
SplitsAlone ==
  [op : {"split"}, kind : {<<"split">>}, obj : Nat, ctx : Contexts, value : Values,
   got : Seq(Values)]
Calls == {Idle} \cup Gatherings \cup Broadcasts \cup SplitsAlone
Agreements == UNION {[X -> Seq(Kinds)] : X \in SUBSET Names}
Gifts == [group : Contexts, round : Nat \ {0}, process : Processes, value : Values]
Takings == [group : Contexts, round : Nat \ {0}, process : Processes, values : Seq(Values)]

TypeOK ==
  /\ workload \in Workloads
  /\ counters \in [Processes -> TalliesOf(Channels)] /\ begun \in [Processes -> Tallies]
  /\ contexts \in [Processes -> Seq(Contexts)]
  /\ call \in [Processes -> Calls]
  /\ agreed \in Agreements
  /\ given \subseteq Gifts /\ taken \subseteq Takings

\* The contexts of the objects of p.
Held(p) == {contexts[p][o] : o \in DOMAIN contexts[p]}

\* The channels that name contexts.
ContextChannels == {<<"duplicate">>} \cup {GroupChannel(ranks) : ranks \in Seq(Nat)}
Channel(c, parts) == c.prefix \o parts
NameIn(x, parts, n) == (x \o parts) \o <<Numeral(n)>>

\* f has made c out of one of its contexts.
Made(f, c) ==
  \E n \in Nat :
    \/ c = [prefix |-> Channel(f, <<"duplicate">>) \o <<Numeral(n)>>, members |-> f.members]
    \/ \E ranks \in Seq(0 .. Size(f) - 1) :
         c = [prefix |-> Channel(f, GroupChannel(ranks)) \o <<Numeral(n)>>,
              members |-> [i \in 1 .. Len(ranks) |-> f.members[ranks[i] + 1]]]

\* Every context is the root or made out of one, and has its process as a member.
ContextsAreMade ==
  \A p \in Processes : \A c \in Held(p) :
    Member(p, c) /\ (c = Root \/ \E f \in Held(p) : Made(f, c))

\* An object has counted the collectives begun on its context.
CountersInStep ==
  \A p \in Processes : \A o \in DOMAIN contexts[p] :
    Count(counters[p], <<o, <<"collective">>>>) = Count(begun[p], contexts[p][o].prefix)

\* The number in the name of a context made by an object is one its counter has left
\* behind.
NamesAreSpent ==
  \A p \in Processes : \A o \in DOMAIN contexts[p], parts \in ContextChannels, n \in Nat :
    (\E e \in Held(p) : e.prefix = NameIn(contexts[p][o].prefix, parts, n))
      => n < Count(counters[p], <<o, parts>>)

\* Only objects that were made have counted, and only on their contexts is anything begun.
NothingBeforehand ==
  \A p \in Processes :
    /\ \A o, parts : Count(counters[p], <<o, parts>>) # 0 => o \in DOMAIN contexts[p]
    /\ \A x : Count(begun[p], x) # 0 => \E c \in Held(p) : c.prefix = x

\* Nobody is ahead of what was agreed on.
BegunIsAgreed == \A p \in Processes, x \in Names : Count(begun[p], x) <= Len(Agreed(x))

KindOf(c, k) == Agreed(c.prefix)[k]

\* What was given and taken belongs to a collective that was begun.
HistoryIsBegun ==
  /\ \A d \in given : d.round <= Count(begun[d.process], d.group.prefix)
  /\ \A d \in taken : d.round <= Count(begun[d.process], d.group.prefix)
  /\ \A d \in given : KindOf(d.group, d.round) = <<"split">> => d.value \in SplitValues

GivenBy(c, k, i, v) == [group |-> c, round |-> k, process |-> c.members[i], value |-> v] \in given

\* A gathering under way has the key of its round, has given its value and has
\* values the members before it in the order gave.
GatheringIsGiven(p) ==
  LET c == call[p].ctx
      k == Round(p, c)
  IN call[p].op \in {"gather_put", "gather_get"} =>
       /\ c \in Held(p) /\ k # 0 /\ KindOf(c, k) = call[p].kind
       /\ call[p].key = RoundName(c.prefix, k - 1) \o <<"all_gather">>
       /\ [group |-> c, round |-> k, process |-> p, value |-> call[p].value] \in given
       /\ Len(call[p].got) < Size(c)
       /\ \A i \in DOMAIN call[p].got : GivenBy(c, k, i, call[p].got[i])
       /\ \A d \in taken : ~(d.group = c /\ d.round = k /\ d.process = p)

BroadcastHasName(p) ==
  LET c == call[p].ctx
  IN call[p].op \in {"broadcast_put", "broadcast_get"} =>
       /\ c \in Held(p) /\ Round(p, c) # 0
       /\ \E r \in Nat : call[p].key = BroadcastName(c.prefix, Round(p, c) - 1, r)

SplitHasGathered(p) ==
  call[p].op = "split" => /\ call[p].ctx \in Held(p)
                          /\ Len(call[p].got) = Size(call[p].ctx)
                          /\ call[p].got \in Seq(SplitValues) /\ call[p].value \in SplitValues

\* A split goes on to make its context with the object it was called on.
CallHasObject(p) ==
  call[p].op \in {"gather_put", "gather_get", "split"} =>
    call[p].obj \in DOMAIN contexts[p] /\ contexts[p][call[p].obj] = call[p].ctx

CallFits(p) ==
  GatheringIsGiven(p) /\ BroadcastHasName(p) /\ SplitHasGathered(p) /\ CallHasObject(p)
CallsFit == \A p \in Processes : CallFits(p)

\* What is under a key was given to the round, or put by the root of the round, that
\* the key names.
StoreIsGiven ==
  \A key \in DOMAIN store : \E q \in Processes : \E c \in Held(q), k \in Nat \ {0} :
    \/ \E i \in 1 .. Size(c) :
         key = GatherName(c.prefix, k - 1, i - 1) /\ GivenBy(c, k, i, store[key])
    \/ \E r \in Nat : /\ key = BroadcastName(c.prefix, k - 1, r)
                      /\ [group |-> c, round |-> k, value |-> store[key]] \in cast

IInv ==
  /\ TypeOK /\ ContextsAreMade /\ SameNameSameContext /\ CountersInStep /\ NamesAreSpent
  /\ NothingBeforehand /\ BegunIsAgreed /\ HistoryIsBegun /\ CallsFit /\ StoreIsGiven

-----------------------------------------------------------------------------
(* Names are read from their ends: the last word, what is before it and the  *)
(* numbers behind it.                                                        *)

Word(s, k, u) == (s \o <<k>>) \o u

LEMMA NameTypes ==
  /\ \A k \in Keywords : <<k>> \in Names
  /\ \A n \in Nat : Numeral(n) \in Numerals /\ <<Numeral(n)>> \in Names /\ <<Numeral(n)>> \in Numbers
  /\ \A s, t \in Names : s \o t \in Names
  /\ Numbers \subseteq Names
<1>1. \A k \in Keywords : <<k>> \in Names
  BY DEF Names
<1>2. \A n \in Nat : Numeral(n) \in Numerals
  BY DEF Numerals
<1>3. \A n \in Nat : <<Numeral(n)>> \in Names /\ <<Numeral(n)>> \in Numbers
  BY <1>2 DEF Names, Numbers
<1>4. \A s, t \in Names : s \o t \in Names
  BY ConcatProperties DEF Names
<1>5. Numbers \subseteq Names
  BY SeqMonotonic DEF Names, Numbers
<1> QED BY <1>1, <1>2, <1>3, <1>4, <1>5

\* Where the parts of such a name are.
LEMMA Parts ==
  ASSUME NEW s \in Names, NEW k \in Keywords, NEW u \in Numbers
  PROVE  LET X == Word(s, k, u)
         IN  /\ Len(X) = Len(s) + 1 + Len(u)
             /\ \A i \in 1 .. Len(s) : X[i] = s[i]
             /\ X[Len(s) + 1] = k
             /\ \A i \in 1 .. Len(u) : X[Len(s) + 1 + i] = u[i]
<1> DEFINE T == Keywords \cup Numerals
           w == Append(s, k)
           X == w \o u
<1>1. s \in Seq(T) /\ k \in T /\ u \in Seq(T)
  BY NameTypes DEF Names, Numbers
<1> HIDE DEF T
<1>2. w = s \o <<k>>
  BY <1>1, AppendIsConcat
<1>3. /\ w \in Seq(T) /\ Len(w) = Len(s) + 1 /\ w[Len(s) + 1] = k
      /\ \A i \in 1 .. Len(s) : w[i] = s[i]
  BY <1>1, AppendProperties
<1> HIDE DEF w
<1>4. Len(X) = Len(w) + Len(u) /\ \A i \in 1 .. Len(w) + Len(u) : X[i] = IF i <= Len(w) THEN w[i] ELSE u[i - Len(w)]
  BY <1>1, <1>3, ConcatProperties
<1>5. Len(s) \in Nat /\ Len(u) \in Nat
  BY <1>1, LenProperties
<1> HIDE DEF X
<1>6. \A i \in 1 .. Len(s) : X[i] = s[i]
  BY <1>3, <1>4, <1>5
<1>7. X[Len(s) + 1] = k
  BY <1>3, <1>4, <1>5
<1>8. ASSUME NEW i \in 1 .. Len(u) PROVE X[Len(s) + 1 + i] = u[i]
  <2>1. Len(s) + 1 + i \in 1 .. Len(w) + Len(u) /\ ~(Len(s) + 1 + i <= Len(w)) /\ (Len(s) + 1 + i) - Len(w) = i
    BY <1>3, <1>5
  <2> QED BY <1>4, <2>1
<1>9. Len(X) = Len(s) + 1 + Len(u)
  BY <1>3, <1>4
<1> QED BY <1>2, <1>6, <1>7, <1>8, <1>9 DEF X, Word

LEMMA Parsing ==
  ASSUME NumeralsDiffer, NEW s \in Names, NEW t \in Names, NEW k \in Keywords, NEW l \in Keywords,
         NEW u \in Numbers, NEW v \in Numbers,
         Word(s, k, u) = Word(t, l, v)
  PROVE  s = t /\ k = l /\ u = v
<1> DEFINE X == Word(s, k, u)
           Y == Word(t, l, v)
<1>1. X = Y
  OBVIOUS
<1>2. /\ Len(X) = Len(s) + 1 + Len(u)
      /\ \A i \in 1 .. Len(s) : X[i] = s[i]
      /\ X[Len(s) + 1] = k
      /\ \A i \in 1 .. Len(u) : X[Len(s) + 1 + i] = u[i]
  BY Parts
<1>3. /\ Len(Y) = Len(t) + 1 + Len(v)
      /\ \A i \in 1 .. Len(t) : Y[i] = t[i]
      /\ Y[Len(t) + 1] = l
      /\ \A i \in 1 .. Len(v) : Y[Len(t) + 1 + i] = v[i]
  BY Parts
<1> HIDE DEF X, Y
<1>4. Len(s) \in Nat /\ Len(t) \in Nat /\ Len(u) \in Nat /\ Len(v) \in Nat
  BY LenProperties DEF Names, Numbers
<1>5. k \notin Numerals /\ l \notin Numerals
  BY DEF NumeralsDiffer
<1>6. ~(Len(s) < Len(t))
  <2> SUFFICES ASSUME Len(s) < Len(t) PROVE FALSE
    OBVIOUS
  <2>1. Len(t) - Len(s) \in 1 .. Len(u) /\ Len(s) + 1 + (Len(t) - Len(s)) = Len(t) + 1
    BY <1>1, <1>2, <1>3, <1>4
  <2>2. X[Len(t) + 1] = u[Len(t) - Len(s)]
    BY <1>2, <2>1
  <2>3. u[Len(t) - Len(s)] \in Numerals
    BY <2>1, ElementOfSeq DEF Numbers
  <2> QED BY <1>1, <1>3, <1>5, <2>2, <2>3
<1>7. ~(Len(t) < Len(s))
  <2> SUFFICES ASSUME Len(t) < Len(s) PROVE FALSE
    OBVIOUS
  <2>1. Len(s) - Len(t) \in 1 .. Len(v) /\ Len(t) + 1 + (Len(s) - Len(t)) = Len(s) + 1
    BY <1>1, <1>2, <1>3, <1>4
  <2>2. Y[Len(s) + 1] = v[Len(s) - Len(t)]
    BY <1>3, <2>1
  <2>3. v[Len(s) - Len(t)] \in Numerals
    BY <2>1, ElementOfSeq DEF Numbers
  <2> QED BY <1>1, <1>2, <1>5, <2>2, <2>3
<1>8. Len(s) = Len(t) /\ Len(u) = Len(v) /\ k = l
  <2>1. Len(s) = Len(t) BY <1>4, <1>6, <1>7
  <2>2. Len(u) = Len(v) BY <1>1, <1>2, <1>3, <1>4, <2>1
  <2>3. k = l BY <1>1, <1>2, <1>3, <2>1
  <2> QED BY <2>1, <2>2, <2>3
<1>9. s = t
  <2>1. \A i \in 1 .. Len(s) : s[i] = t[i]
    BY <1>1, <1>2, <1>3, <1>8
  <2> QED BY <1>8, <2>1, SeqEqual DEF Names
<1>10. u = v
  <2>1. \A i \in 1 .. Len(u) : u[i] = v[i]
    BY <1>1, <1>2, <1>3, <1>8
  <2> QED BY <1>8, <2>1, SeqEqual DEF Numbers
<1> QED BY <1>8, <1>9, <1>10

LEMMA ParsingWords ==
  NumeralsDiffer =>
    \A s, t \in Names, k, l \in Keywords, u, v \in Numbers :
      Word(s, k, u) = Word(t, l, v) => s = t /\ k = l /\ u = v
BY Parsing

LEMMA SameText == NumeralsDiffer => \A m, n \in Nat : <<Numeral(m)>> = <<Numeral(n)>> => m = n
BY DEF NumeralsDiffer

LEMMA Words ==
  /\ \A s \in Names, k \in Keywords, u \in Numbers : Word(s, k, u) \in Names
  /\ \A s \in Names, k \in Keywords : s \o <<k>> = Word(s, k, << >>)
  /\ \A s \in Names, k \in Keywords : s \o <<k>> \in Names
  /\ << >> \in Numbers
<1>1. \A s \in Names, k \in Keywords : s \o <<k>> \in Names
  BY NameTypes
<1>2. \A s \in Names, k \in Keywords, u \in Numbers : Word(s, k, u) \in Names
  BY <1>1, NameTypes DEF Word
<1>3. \A s \in Names, k \in Keywords : s \o <<k>> = Word(s, k, << >>)
  BY <1>1, ConcatEmptySeq DEF Word, Names
<1>4. << >> \in Numbers
  BY DEF Numbers
<1> QED BY <1>1, <1>2, <1>3, <1>4

\* The names of rounds and keys as words.
LEMMA RoundWords ==
  ASSUME NEW x \in Names, NEW n \in Nat, NEW i \in Nat
  PROVE  /\ RoundName(x, n) = Word(x, "collective", <<Numeral(n)>>)
         /\ RoundName(x, n) \in Names
         /\ GatherName(x, n, i) = Word(RoundName(x, n), "all_gather", <<Numeral(i)>>)
         /\ BroadcastName(x, n, i) = Word(RoundName(x, n), "broadcast", <<Numeral(i)>>)
<1>1. RoundName(x, n) = Word(x, "collective", <<Numeral(n)>>)
  BY DEF RoundName, Word
<1>2. RoundName(x, n) \in Names
  BY <1>1, Words, NameTypes DEF Keywords
<1>3. GatherName(x, n, i) = Word(RoundName(x, n), "all_gather", <<Numeral(i)>>)
  BY DEF GatherName, Word
<1>4. BroadcastName(x, n, i) = Word(RoundName(x, n), "broadcast", <<Numeral(i)>>)
  <2> DEFINE r == RoundName(x, n)
             b == <<"broadcast">>
             t == <<Numeral(i)>>
  <2>1. <<"broadcast", Numeral(i)>> = b \o t
    OBVIOUS
  <2>2. b \in Names /\ t \in Names /\ r \in Names
    BY <1>2, NameTypes DEF Keywords
  <2> HIDE DEF r, b, t
  <2>3. r \o (b \o t) = (r \o b) \o t
    BY <2>2, ConcatAssociative DEF Names
  <2> QED BY <2>1, <2>3 DEF r, b, t, BroadcastName, Word
<1> QED BY <1>1, <1>2, <1>3, <1>4

\* The key of a collective says on which context it is called, which one of them it
\* is, what kind of collective and whose value.
LEMMA KeyNames ==
  ASSUME NumeralsDiffer, NEW x \in Names, NEW y \in Names, NEW m \in Nat, NEW n \in Nat, NEW i \in Nat, NEW j \in Nat
  PROVE  /\ RoundName(x, m) = RoundName(y, n) => x = y /\ m = n
         /\ GatherName(x, m, i) = GatherName(y, n, j) => x = y /\ m = n /\ i = j
         /\ BroadcastName(x, m, i) = BroadcastName(y, n, j) => x = y /\ m = n /\ i = j
         /\ GatherName(x, m, i) # BroadcastName(y, n, j)
<1> DEFINE r == RoundName(x, m)
           q == RoundName(y, n)
           um == <<Numeral(m)>>
           un == <<Numeral(n)>>
           ui == <<Numeral(i)>>
           uj == <<Numeral(j)>>
<1>1. /\ "collective" \in Keywords /\ "all_gather" \in Keywords /\ "broadcast" \in Keywords
      /\ "all_gather" # "broadcast"
  BY DEF Keywords
<1>2. um \in Numbers /\ un \in Numbers /\ ui \in Numbers /\ uj \in Numbers
  BY NameTypes
<1>3. (um = un => m = n) /\ (ui = uj => i = j)
  BY SameText
<1>4. r \in Names /\ q \in Names /\ r = Word(x, "collective", um) /\ q = Word(y, "collective", un)
  BY RoundWords
<1>5. GatherName(x, m, i) = Word(r, "all_gather", ui) /\ GatherName(y, n, j) = Word(q, "all_gather", uj)
  BY RoundWords
<1>6. BroadcastName(x, m, i) = Word(r, "broadcast", ui) /\ BroadcastName(y, n, j) = Word(q, "broadcast", uj)
  BY RoundWords
<1> HIDE DEF r, q, um, un, ui, uj
<1>7. \A s, t \in Names, k, l \in Keywords, u, v \in Numbers :
        Word(s, k, u) = Word(t, l, v) => s = t /\ k = l /\ u = v
  BY ParsingWords
<1>8. r = q => x = y /\ m = n
  BY <1>1, <1>2, <1>3, <1>4, <1>7
<1>9. Word(r, "all_gather", ui) = Word(q, "all_gather", uj) => r = q /\ i = j
  BY <1>1, <1>2, <1>3, <1>4, <1>7
<1>10. Word(r, "broadcast", ui) = Word(q, "broadcast", uj) => r = q /\ i = j
  BY <1>1, <1>2, <1>3, <1>4, <1>7
<1>11. Word(r, "all_gather", ui) # Word(q, "broadcast", uj)
  BY <1>1, <1>2, <1>4, <1>7
<1> QED BY <1>5, <1>6, <1>8, <1>9, <1>10, <1>11 DEF r, q

LEMMA NamesAssociate ==
  ASSUME NEW a \in Names, NEW b \in Names, NEW c \in Names
  PROVE  (a \o b) \o c = a \o (b \o c)
<1> DEFINE T == Keywords \cup Numerals
<1>1. a \in Seq(T) /\ b \in Seq(T) /\ c \in Seq(T)
  BY DEF Names
<1> HIDE DEF T
<1> QED BY <1>1, ConcatAssociative

Texts(ranks) == [i \in 1 .. Len(ranks) |-> Numeral(ranks[i])]

LEMMA GroupWords ==
  ASSUME NEW x \in Names, NEW ranks \in Seq(Nat), NEW n \in Nat
  PROVE  /\ Texts(ranks) \in Numbers /\ Texts(ranks) \o <<Numeral(n)>> \in Numbers
         /\ x \o GroupChannel(ranks) = Word(x, "group", Texts(ranks))
         /\ x \o GroupChannel(ranks) \in Names
         /\ (x \o GroupChannel(ranks)) \o <<Numeral(n)>> = Word(x, "group", Texts(ranks) \o <<Numeral(n)>>)
<1> DEFINE g == <<"group">>
           t == Texts(ranks)
           u == <<Numeral(n)>>
<1>1. t \in Numbers
  <2>1. \A i \in 1 .. Len(ranks) : Numeral(ranks[i]) \in Numerals
    BY ElementOfSeq, NameTypes
  <2> QED BY <2>1, LenProperties DEF Texts, Numbers
<1>2. g \in Names /\ t \in Names /\ u \in Names /\ u \in Numbers /\ "group" \in Keywords
  BY <1>1, NameTypes DEF Keywords
<1>3. GroupChannel(ranks) = g \o t
  BY DEF GroupChannel, Texts
<1>4. Word(x, "group", t) = (x \o g) \o t /\ Word(x, "group", t \o u) = (x \o g) \o (t \o u)
  BY DEF Word
<1> HIDE DEF g, t, u
<1>5. x \o (g \o t) = (x \o g) \o t /\ ((x \o g) \o t) \o u = (x \o g) \o (t \o u)
  <2>1. x \o (g \o t) = (x \o g) \o t
    BY <1>2, NamesAssociate
  <2> DEFINE xg == x \o g
  <2>2. xg \in Names
    BY <1>2, NameTypes
  <2> HIDE DEF xg
  <2>3. (xg \o t) \o u = xg \o (t \o u)
    BY <1>2, <2>2, NamesAssociate
  <2> QED BY <2>1, <2>3 DEF xg
<1>6. t \o u \in Numbers
  BY <1>1, <1>2, ConcatProperties DEF Numbers
<1>7. Word(x, "group", t) \in Names
  BY <1>1, <1>2, Words
<1> QED BY <1>1, <1>3, <1>4, <1>5, <1>6, <1>7 DEF t, u

\* The channels of collectives have counters of their own.
LEMMA ChannelNames ==
  ASSUME NumeralsDiffer, NEW x \in Names, NEW y \in Names, NEW ranks \in Seq(Nat)
  PROVE  /\ x \o <<"collective">> \in Names /\ x \o <<"duplicate">> \in Names
         /\ x \o <<"collective">> = y \o <<"collective">> => x = y
         /\ x \o <<"collective">> # y \o <<"duplicate">>
         /\ x \o <<"collective">> # y \o GroupChannel(ranks)
<1>1. /\ "collective" \in Keywords /\ "duplicate" \in Keywords /\ "group" \in Keywords
      /\ "collective" # "duplicate" /\ "collective" # "group"
  BY DEF Keywords
<1> DEFINE c(z) == z \o <<"collective">>
           d(z) == z \o <<"duplicate">>
           g(z) == z \o GroupChannel(ranks)
<1>2. \A z \in Names : /\ c(z) \in Names /\ c(z) = Word(z, "collective", << >>)
                       /\ d(z) \in Names /\ d(z) = Word(z, "duplicate", << >>)
  BY <1>1, Words
<1>3. g(y) = Word(y, "group", Texts(ranks)) /\ Texts(ranks) \in Numbers /\ << >> \in Numbers
  BY GroupWords, Words
<1> HIDE DEF c, d, g
<1>4. \A s, t \in Names, k, l \in Keywords, u, v \in Numbers :
        Word(s, k, u) = Word(t, l, v) => s = t /\ k = l /\ u = v
  BY ParsingWords
<1>5. (c(x) = c(y) => x = y) /\ c(x) # d(y)
  BY <1>1, <1>2, <1>3, <1>4
<1>6. c(x) # g(y)
  BY <1>1, <1>2, <1>3, <1>4
<1> QED BY <1>2, <1>5, <1>6 DEF c, d, g

-----------------------------------------------------------------------------
(* Contexts made out of contexts.                                           *)

\* e is named for h, a word and numbers, and has its members from h.
MadeFrom(h, e, k, u, ranks) ==
  /\ e = [prefix |-> Word(h.prefix, k, u), members |-> e.members]
  /\ k \in {"duplicate", "group"} /\ u \in Numbers
  /\ k = "duplicate" => e.members = h.members
  /\ k = "group" => /\ ranks \in Seq(Nat)
                    /\ e.members = [i \in 1 .. Len(ranks) |-> h.members[ranks[i] + 1]]
                    /\ \E n \in Nat : u = Texts(ranks) \o <<Numeral(n)>>

LEMMA HowMade ==
  ASSUME NEW h \in Contexts, NEW e, Made(h, e)
  PROVE  \E k, u, ranks : MadeFrom(h, e, k, u, ranks)
<1>1. h.prefix \in Names /\ h.members \in Seq(Processes)
  BY DEF Contexts
<1>2. PICK n \in Nat :
        \/ e = [prefix |-> h.prefix \o <<"duplicate">> \o <<Numeral(n)>>, members |-> h.members]
        \/ \E ranks \in Seq(0 .. Size(h) - 1) :
             e = [prefix |-> h.prefix \o GroupChannel(ranks) \o <<Numeral(n)>>,
                  members |-> [i \in 1 .. Len(ranks) |-> h.members[ranks[i] + 1]]]
  BY DEF Made, Channel
<1>3. CASE e = [prefix |-> h.prefix \o <<"duplicate">> \o <<Numeral(n)>>, members |-> h.members]
  <2>1. MadeFrom(h, e, "duplicate", <<Numeral(n)>>, << >>)
    BY <1>3, NameTypes DEF Word, MadeFrom
  <2> QED BY <2>1
<1>4. ASSUME NEW ranks \in Seq(0 .. Size(h) - 1),
             e = [prefix |-> h.prefix \o GroupChannel(ranks) \o <<Numeral(n)>>,
                  members |-> [i \in 1 .. Len(ranks) |-> h.members[ranks[i] + 1]]]
      PROVE  \E k, u, r : MadeFrom(h, e, k, u, r)
  <2>1. ranks \in Seq(Nat)
    <3>1. Size(h) \in Nat
      BY <1>1, LenProperties DEF Size
    <3>2. 0 .. Size(h) - 1 \subseteq Nat
      BY <3>1
    <3> QED BY <3>2, SeqMonotonic
  <2>2. /\ h.prefix \o GroupChannel(ranks) \o <<Numeral(n)>> = Word(h.prefix, "group", Texts(ranks) \o <<Numeral(n)>>)
        /\ Texts(ranks) \o <<Numeral(n)>> \in Numbers
    BY <1>1, <2>1, GroupWords
  <2>3. MadeFrom(h, e, "group", Texts(ranks) \o <<Numeral(n)>>, ranks)
    BY <1>4, <2>1, <2>2 DEF MadeFrom
  <2> QED BY <2>3
<1> QED BY <1>2, <1>3, <1>4

\* The name of a context says out of which one it was made, and of which ranks.
LEMMA MadeNames ==
  ASSUME NumeralsDiffer, NEW f \in Contexts, NEW g \in Contexts, NEW c, NEW d,
         Made(f, c), Made(g, d), c.prefix = d.prefix
  PROVE  f.prefix = g.prefix /\ (f = g => c = d)
<1>2. PICK k, u, r : MadeFrom(f, c, k, u, r)
  BY HowMade
<1>3. PICK l, v, q : MadeFrom(g, d, l, v, q)
  BY HowMade
<1>4. c.prefix = Word(f.prefix, k, u) /\ d.prefix = Word(g.prefix, l, v)
  BY <1>2, <1>3 DEF MadeFrom
<1>5. f.prefix \in Names /\ g.prefix \in Names /\ k \in Keywords /\ l \in Keywords
  BY <1>2, <1>3 DEF Contexts, Keywords, MadeFrom
<1>6. f.prefix = g.prefix /\ k = l /\ u = v
  <2>1. Word(f.prefix, k, u) = Word(g.prefix, l, v)
    BY <1>4
  <2>2. u \in Numbers /\ v \in Numbers
    BY <1>2, <1>3 DEF MadeFrom
  <2> QED BY <1>5, <2>1, <2>2, ParsingWords
<1>7. ASSUME k = "group" PROVE r = q
  <2>1. r \in Seq(Nat) /\ q \in Seq(Nat)
    BY <1>2, <1>3, <1>6, <1>7 DEF MadeFrom
  <2>2. PICK m \in Nat : u = Texts(r) \o <<Numeral(m)>>
    BY <1>2, <1>7 DEF MadeFrom
  <2>3. PICK n \in Nat : u = Texts(q) \o <<Numeral(n)>>
    BY <1>3, <1>6, <1>7 DEF MadeFrom
  <2>4. Texts(r) \in Seq(Numerals) /\ Texts(q) \in Seq(Numerals)
    BY <1>5, <2>1, GroupWords DEF Numbers
  <2>5. Append(Texts(r), Numeral(m)) = Append(Texts(q), Numeral(n))
    BY <2>2, <2>3, <2>4, NameTypes, AppendIsConcat
  <2>6. Texts(r) = Texts(q)
    BY <2>4, <2>5, NameTypes, AppendInjective
  <2>7. Len(r) = Len(q) /\ \A i \in 1 .. Len(r) : Numeral(r[i]) = Numeral(q[i])
    BY <2>1, <2>6, LenProperties DEF Texts
  <2>8. \A i \in 1 .. Len(r) : r[i] = q[i]
    BY <2>1, <2>7, ElementOfSeq DEF NumeralsDiffer
  <2> QED BY <2>1, <2>7, <2>8, SeqEqual
<1> QED BY <1>2, <1>3, <1>6, <1>7 DEF MadeFrom

\* No context that was made has the name of the root.
LEMMA MadeIsNotRoot ==
  ASSUME NumeralsDiffer, NEW f \in Contexts, NEW c, Made(f, c)
  PROVE  c.prefix # Root.prefix
<1>1. Root.prefix = Word(<<"libtt">>, "control", << >>)
  <2>1. <<"libtt">> \in Names /\ "control" \in Keywords
    BY NameTypes DEF Keywords
  <2>2. <<"libtt">> \o <<"control">> = Word(<<"libtt">>, "control", << >>)
    BY <2>1, Words
  <2> QED BY <2>2 DEF Root
<1>2. PICK k, u, ranks : MadeFrom(f, c, k, u, ranks)
  BY HowMade
<1>3. c.prefix = Word(f.prefix, k, u) /\ k \in {"duplicate", "group"} /\ u \in Numbers
  BY <1>2 DEF MadeFrom
<1>4. <<"libtt">> \in Names /\ f.prefix \in Names /\ << >> \in Numbers /\ {"control", "duplicate", "group"} \subseteq Keywords
  BY NameTypes, Words DEF Contexts, Keywords
<1> QED BY <1>1, <1>3, <1>4, ParsingWords

\* The name of a context says of which name, through which channel and with which
\* number it was made; the root's does not.
LEMMA NamesOfContexts ==
  ASSUME NumeralsDiffer, NEW x \in Names, NEW y \in Names,
         NEW parts \in ContextChannels, NEW more \in ContextChannels, NEW m \in Nat, NEW n \in Nat
  PROVE  /\ NameIn(x, parts, m) \in Names /\ NameIn(x, parts, m) # Root.prefix
         /\ NameIn(x, parts, m) = NameIn(y, more, n) => x = y /\ parts = more /\ m = n
<1>1. ASSUME NEW z \in Names, NEW c \in ContextChannels, NEW i \in Nat
      PROVE  \E r \in Seq(Nat) :
               \/ c = <<"duplicate">> /\ NameIn(z, c, i) = Word(z, "duplicate", << >> \o <<Numeral(i)>>)
               \/ c = GroupChannel(r) /\ NameIn(z, c, i) = Word(z, "group", Texts(r) \o <<Numeral(i)>>)
  <2>1. CASE c = <<"duplicate">>
    <3>1. << >> \o <<Numeral(i)>> = <<Numeral(i)>>
      OBVIOUS
    <3>2. << >> \in Seq(Nat)
      OBVIOUS
    <3> QED BY <2>1, <3>1, <3>2 DEF NameIn, Word
  <2>2. CASE c # <<"duplicate">>
    <3>1. PICK r \in Seq(Nat) : c = GroupChannel(r)
      BY <2>2 DEF ContextChannels
    <3> QED BY <3>1, GroupWords DEF NameIn
  <2> QED BY <2>1, <2>2
<1>2. << >> \in Numbers /\ "duplicate" \in Keywords /\ "group" \in Keywords /\ "duplicate" # "group"
  BY Words DEF Keywords
<1>3. ASSUME NEW t \in Numbers, NEW i \in Nat PROVE t \o <<Numeral(i)>> \in Numbers
  BY NameTypes, ConcatProperties DEF Numbers
<1>4. \A r \in Seq(Nat) : Texts(r) \in Numbers
  BY <1>2, GroupWords
<1>6. \A r, q \in Seq(Nat) : Texts(r) = Texts(q) => r = q
  <2> SUFFICES ASSUME NEW r \in Seq(Nat), NEW q \in Seq(Nat), Texts(r) = Texts(q) PROVE r = q
    OBVIOUS
  <2>1. Len(r) = Len(q) /\ \A i \in 1 .. Len(r) : Numeral(r[i]) = Numeral(q[i])
    BY LenProperties DEF Texts
  <2>2. \A i \in 1 .. Len(r) : r[i] = q[i]
    BY <2>1, ElementOfSeq DEF NumeralsDiffer
  <2> QED BY <2>1, <2>2, SeqEqual
<1>7. \A v, w \in Names, k, l \in Keywords, t, u \in Numbers :
        Word(v, k, t) = Word(w, l, u) => v = w /\ k = l /\ t = u
  BY ParsingWords
<1>8. NameIn(x, parts, m) \in Names /\ NameIn(x, parts, m) # Root.prefix
  <2>1. PICK k \in {"duplicate", "group"}, t \in Numbers : NameIn(x, parts, m) = Word(x, k, t)
    BY <1>1, <1>2, <1>3, <1>4
  <2>2. Root.prefix = Word(<<"libtt">>, "control", << >>) /\ <<"libtt">> \in Names /\ "control" \in Keywords
    <3>1. <<"libtt">> \in Names /\ "control" \in Keywords
      BY NameTypes DEF Keywords
    <3>2. <<"libtt">> \o <<"control">> = Word(<<"libtt">>, "control", << >>)
      BY <3>1, Words
    <3> QED BY <3>1, <3>2 DEF Root
  <2>3. k \in Keywords /\ k # "control"
    BY <1>2
  <2>4. NameIn(x, parts, m) \in Names
    BY <2>1, <2>3, Words
  <2> QED BY <1>2, <1>7, <2>1, <2>2, <2>3, <2>4
<1>9. ASSUME NameIn(x, parts, m) = NameIn(y, more, n) PROVE x = y /\ parts = more /\ m = n
  <2>1. PICK r \in Seq(Nat) :
          \/ parts = <<"duplicate">> /\ NameIn(x, parts, m) = Word(x, "duplicate", << >> \o <<Numeral(m)>>)
          \/ parts = GroupChannel(r) /\ NameIn(x, parts, m) = Word(x, "group", Texts(r) \o <<Numeral(m)>>)
    BY <1>1
  <2>2. PICK q \in Seq(Nat) :
          \/ more = <<"duplicate">> /\ NameIn(y, more, n) = Word(y, "duplicate", << >> \o <<Numeral(n)>>)
          \/ more = GroupChannel(q) /\ NameIn(y, more, n) = Word(y, "group", Texts(q) \o <<Numeral(n)>>)
    BY <1>1
  <2> DEFINE e == << >>
             R == Texts(r)
             Q == Texts(q)
             NW(z, k, t, i) == Word(z, k, t \o <<Numeral(i)>>)
  <2>3. e \in Numbers /\ R \in Numbers /\ Q \in Numbers
    BY <1>2, <1>4
  <2> HIDE DEF e, R, Q
  <2>4. ASSUME NEW k \in Keywords, NEW l \in Keywords, NEW t \in Numbers, NEW u \in Numbers,
               NW(x, k, t, m) = NW(y, l, u, n)
        PROVE  x = y /\ k = l /\ t = u /\ m = n
    <3>1. t \o <<Numeral(m)>> \in Numbers /\ u \o <<Numeral(n)>> \in Numbers
      BY <1>3
    <3>2. PICK a, b : a = t \o <<Numeral(m)>> /\ b = u \o <<Numeral(n)>>
      OBVIOUS
    <3>3. Word(x, k, a) = Word(y, l, b) /\ a \in Numbers /\ b \in Numbers
      BY <2>4, <3>1, <3>2
    <3> HIDE DEF NW
    <3>4. x = y /\ k = l /\ a = b
      BY <1>7, <3>3
    <3>5. t \o <<Numeral(m)>> = u \o <<Numeral(n)>>
      BY <3>2, <3>4
    <3>6. t = u /\ m = n
      <4>1. t \in Seq(Numerals) /\ u \in Seq(Numerals) /\ Numeral(m) \in Numerals /\ Numeral(n) \in Numerals
        BY NameTypes DEF Numbers
      <4>2. Append(t, Numeral(m)) = Append(u, Numeral(n))
        BY <3>5, <4>1, AppendIsConcat
      <4>3. t = u /\ Numeral(m) = Numeral(n)
        BY <4>1, <4>2, AppendInjective
      <4> QED BY <4>3 DEF NumeralsDiffer
    <3> QED BY <3>4, <3>6
  <2>5. \/ parts = <<"duplicate">> /\ NameIn(x, parts, m) = NW(x, "duplicate", e, m)
        \/ parts = GroupChannel(r) /\ NameIn(x, parts, m) = NW(x, "group", R, m)
    BY <2>1 DEF e, R
  <2>6. \/ more = <<"duplicate">> /\ NameIn(y, more, n) = NW(y, "duplicate", e, n)
        \/ more = GroupChannel(q) /\ NameIn(y, more, n) = NW(y, "group", Q, n)
    BY <2>2 DEF e, Q
  <2>7. R = Q => r = q
    BY <1>6 DEF R, Q
  <2> HIDE DEF NW
  <2> QED BY <1>2, <1>9, <2>3, <2>4, <2>5, <2>6, <2>7
<1> QED BY <1>8, <1>9

\* A context that was made has such a name.
LEMMA MadeHasName ==
  ASSUME NEW f \in Contexts, NEW c, Made(f, c)
  PROVE  \E parts \in ContextChannels, n \in Nat : c.prefix = NameIn(f.prefix, parts, n)
<1>1. PICK n \in Nat :
        \/ c = [prefix |-> Channel(f, <<"duplicate">>) \o <<Numeral(n)>>, members |-> f.members]
        \/ \E ranks \in Seq(0 .. Size(f) - 1) :
             c = [prefix |-> Channel(f, GroupChannel(ranks)) \o <<Numeral(n)>>,
                  members |-> [i \in 1 .. Len(ranks) |-> f.members[ranks[i] + 1]]]
  BY DEF Made
<1>2. CASE c = [prefix |-> Channel(f, <<"duplicate">>) \o <<Numeral(n)>>, members |-> f.members]
  <2>1. c.prefix = NameIn(f.prefix, <<"duplicate">>, n) /\ <<"duplicate">> \in ContextChannels
    BY <1>2 DEF NameIn, Channel, ContextChannels
  <2> QED BY <2>1
<1>3. ASSUME NEW ranks \in Seq(0 .. Size(f) - 1),
             c = [prefix |-> Channel(f, GroupChannel(ranks)) \o <<Numeral(n)>>,
                  members |-> [i \in 1 .. Len(ranks) |-> f.members[ranks[i] + 1]]]
      PROVE  \E parts \in ContextChannels, i \in Nat : c.prefix = NameIn(f.prefix, parts, i)
  <2>1. ranks \in Seq(Nat)
    <3>1. Size(f) \in Nat
      BY LenProperties DEF Size, Contexts
    <3>2. 0 .. Size(f) - 1 \subseteq Nat
      BY <3>1
    <3> QED BY <3>2, SeqMonotonic
  <2>2. GroupChannel(ranks) \in ContextChannels
    BY <2>1 DEF ContextChannels
  <2>3. c.prefix = NameIn(f.prefix, GroupChannel(ranks), n)
    BY <1>3 DEF NameIn, Channel
  <2> QED BY <2>2, <2>3
<1> QED BY <1>1, <1>2, <1>3

-----------------------------------------------------------------------------
(* Counters.                                                                *)

LEMMA CountingOf ==
  ASSUME NEW N, NEW f \in TalliesOf(N), NEW x \in N
  PROVE  /\ Incremented(f, x) \in TalliesOf(N)
         /\ \A y : Count(f, y) \in Nat
         /\ \A y : Count(Incremented(f, x), y) = IF y = x THEN Count(f, x) + 1 ELSE Count(f, y)
<1>1. PICK X \in SUBSET N : f \in [X -> Nat]
  BY DEF TalliesOf
<1>2. \A y : Count(f, y) \in Nat
  BY <1>1 DEF Count
<1>3. Incremented(f, x) \in [X \cup {x} -> Nat]
  BY <1>1, <1>2 DEF Incremented
<1>4. X \cup {x} \in SUBSET N
  OBVIOUS
<1>5. Incremented(f, x) \in TalliesOf(N)
  BY <1>3, <1>4 DEF TalliesOf
<1>6. \A y : Count(Incremented(f, x), y) = IF y = x THEN Count(f, x) + 1 ELSE Count(f, y)
  BY <1>1 DEF Incremented, Count
<1> QED BY <1>2, <1>5, <1>6

LEMMA Counting ==
  ASSUME NEW f \in Tallies, NEW x \in Names
  PROVE  /\ Incremented(f, x) \in Tallies
         /\ \A y : Count(f, y) \in Nat
         /\ \A y : Count(Incremented(f, x), y) = IF y = x THEN Count(f, x) + 1 ELSE Count(f, y)
<1>1. f \in TalliesOf(Names)
  BY DEF Tallies
<1> QED BY <1>1, CountingOf DEF Tallies

-----------------------------------------------------------------------------
(* The ranks of a color, in the order of their keys.                        *)

\* Sorting finds an order: the ranks have different numbers of ranks before them.
LEMMA SplitRanksAreRanks ==
  ASSUME NEW got \in Seq(SplitValues), NEW color
  PROVE  SplitRanks(got, color) \in Seq(0 .. Len(got) - 1)
<1> DEFINE R == {i \in 0 .. Len(got) - 1 : got[i + 1][1] = color}
           Before(a, b) == \/ got[a + 1][2] < got[b + 1][2]
                           \/ got[a + 1][2] = got[b + 1][2] /\ a < b
           n == Cardinality(R)
           Below(r) == {x \in R : Before(x, r)}
           Sorted(s) == \A i, j \in DOMAIN s : i < j => Before(s[i], s[j])
<1>0. Len(got) \in Nat /\ IsFiniteSet(0 .. Len(got) - 1)
  BY LenProperties, FS_Interval
<1>1. R \in SUBSET (0 .. Len(got) - 1) /\ R \subseteq Int
  BY <1>0
<1>2. IsFiniteSet(R) /\ n \in Nat
  BY <1>0, <1>1, FS_Subset, FS_CardinalityType
<1>3. \A a \in R : got[a + 1][2] \in Int
  <2> SUFFICES ASSUME NEW a \in R PROVE got[a + 1][2] \in Int
    OBVIOUS
  <2>1. got[a + 1] \in SplitValues
    BY <1>0, <1>1, ElementOfSeq
  <2> QED BY <2>1, CollectivesAssumption DEF SplitValues
<1>4. /\ \A a \in R : ~Before(a, a)
      /\ \A a, b \in R : a # b => Before(a, b) \/ Before(b, a)
      /\ \A a, b, c \in R : Before(a, b) /\ Before(b, c) => Before(a, c)
  BY <1>1, <1>3
<1> HIDE DEF R, Before
<1>5. \A r \in R : IsFiniteSet(Below(r)) /\ Cardinality(Below(r)) \in 0 .. n - 1
  <2> SUFFICES ASSUME NEW r \in R PROVE IsFiniteSet(Below(r)) /\ Cardinality(Below(r)) \in 0 .. n - 1
    OBVIOUS
  <2>1. Below(r) \in SUBSET R /\ Below(r) # R
    BY <1>4
  <2>2. IsFiniteSet(Below(r)) /\ Cardinality(Below(r)) <= n /\ n # Cardinality(Below(r))
    BY <1>2, <2>1, FS_Subset
  <2>3. Cardinality(Below(r)) \in Nat
    BY <2>2, FS_CardinalityType
  <2> HIDE DEF Below, n
  <2> QED BY <1>2, <2>2, <2>3
<1> HIDE DEF Below, n
<1>6. \A a, b \in R : Before(a, b) => Cardinality(Below(a)) < Cardinality(Below(b))
  <2> SUFFICES ASSUME NEW a \in R, NEW b \in R, Before(a, b) PROVE Cardinality(Below(a)) < Cardinality(Below(b))
    OBVIOUS
  <2>1. Below(a) \in SUBSET Below(b) /\ a \in Below(b) /\ a \notin Below(a)
    BY <1>4 DEF Below
  <2>2. Cardinality(Below(a)) <= Cardinality(Below(b)) /\ Cardinality(Below(b)) # Cardinality(Below(a))
    BY <1>5, <2>1, FS_Subset
  <2>3. Cardinality(Below(a)) \in Int /\ Cardinality(Below(b)) \in Int
    BY <1>2, <1>5
  <2> QED BY <2>2, <2>3
<1> DEFINE Position == [r \in R |-> Cardinality(Below(r)) + 1]
<1>7. Position \in Surjection(R, 1 .. n)
  <2>1. Position \in [R -> 1 .. n]
    BY <1>2, <1>5
  <2>2. \A a, b \in R : Position[a] = Position[b] => a = b
    <3> SUFFICES ASSUME NEW a \in R, NEW b \in R, Position[a] = Position[b], a # b PROVE FALSE
      OBVIOUS
    <3>1. Cardinality(Below(a)) \in Int /\ Cardinality(Below(b)) \in Int
      BY <1>2, <1>5
    <3>2. Cardinality(Below(a)) = Cardinality(Below(b))
      BY <3>1
    <3> QED BY <1>4, <1>6, <3>1, <3>2
  <2> HIDE DEF Position
  <2>3. Position \in Injection(R, 1 .. n)
    BY <2>1, <2>2 DEF Injection, IsInjective
  <2>4. IsFiniteSet(1 .. n) /\ Cardinality(1 .. n) = n
    BY <1>2, FS_Interval
  <2> QED BY <1>2, <2>3, <2>4, FS_Injection DEF n
<1>8. \A a, b \in R : Before(a, b) => Position[a] < Position[b]
  <2> SUFFICES ASSUME NEW a \in R, NEW b \in R, Before(a, b) PROVE Position[a] < Position[b]
    OBVIOUS
  <2>1. Cardinality(Below(a)) \in Int /\ Cardinality(Below(b)) \in Int /\ Cardinality(Below(a)) < Cardinality(Below(b))
    BY <1>2, <1>5, <1>6
  <2> QED BY <2>1
<1>9. \A a \in R : Position[a] \in 1 .. n /\ \A i \in 1 .. n : \E r \in R : Position[r] = i
  BY <1>7 DEF Surjection
<1> HIDE DEF Position
<1>10. \E s \in [1 .. n -> R] : Sorted(s)
  <2> DEFINE s == [i \in 1 .. n |-> CHOOSE r \in R : Position[r] = i]
  <2>1. \A i \in 1 .. n : \E r \in R : Position[r] = i
    BY <1>7 DEF Surjection
  <2>2. \A i \in 1 .. n : s[i] \in R /\ Position[s[i]] = i
    BY <2>1
  <2>3. s \in [1 .. n -> R]
    BY <2>2
  <2> HIDE DEF s
  <2>4. ASSUME NEW i \in 1 .. n, NEW j \in 1 .. n, i < j PROVE Before(s[i], s[j])
    <3>1. Before(s[i], s[j]) \/ Before(s[j], s[i])
      BY <1>4, <2>2, <2>4
    <3>2. ~Before(s[j], s[i])
      BY <1>8, <2>2, <2>4
    <3> QED BY <3>1, <3>2
  <2> QED BY <2>3, <2>4
<1> DEFINE chosen == CHOOSE s \in [1 .. n -> R] : Sorted(s)
<1>11. chosen \in [1 .. n -> R]
  <2> HIDE DEF Sorted
  <2> QED BY <1>10
<1>12. SplitRanks(got, color) = chosen
  BY DEF SplitRanks, R, n, Before
<1> HIDE DEF chosen
<1>13. chosen \in [1 .. n -> 0 .. Len(got) - 1]
  BY <1>1, <1>11
<1> QED BY <1>2, <1>12, <1>13
-----------------------------------------------------------------------------
(* What a step leaves alone.                                                *)

LEMMA SameWorkload ==
  ASSUME workload' = workload
  PROVE  /\ Processes' = Processes /\ Contexts' = Contexts /\ Root' = Root
         /\ Values' = Values /\ SplitValues' = SplitValues /\ Calls' = Calls
         /\ Gifts' = Gifts /\ Takings' = Takings
BY DEF Processes, Contexts, Root, Values, SplitValues, Calls, Gatherings, Broadcasts, SplitsAlone, Gifts, Takings

LEMMA CallTypes ==
  ASSUME NEW r \in Calls
  PROVE  /\ r.op \in {"gather_put", "gather_get"} => r \in Gatherings
         /\ r.op \in {"gather_put", "gather_get", "split"} => r.obj \in Nat
         /\ r.op \in {"broadcast_put", "broadcast_get"} => r \in Broadcasts
         /\ r.op = "split" => /\ r.ctx \in Contexts /\ r.value \in Values /\ r.got \in Seq(Values)
BY DEF Calls, Idle, Gatherings, Broadcasts, SplitsAlone

\* What steps of any process add to.
Extends ==
  /\ workload' = workload
  /\ \A q \in Processes : Held(q) \subseteq Held(q)'
  /\ \A q \in Processes : \A o \in DOMAIN contexts[q] :
       o \in DOMAIN contexts'[q] /\ contexts'[q][o] = contexts[q][o]
  /\ given \subseteq given' /\ cast \subseteq cast'
  /\ \A x \in Names : Len(Agreed(x)) <= Len(Agreed(x)')
  /\ \A x \in Names : \A k \in 1 .. Len(Agreed(x)) : Agreed(x)'[k] = Agreed(x)[k]

\* A step that leaves the contexts and the agreement alone.
Settled == UNCHANGED <<workload, counters, contexts, agreed, begun, given>>

LEMMA SameHeld == contexts' = contexts => \A q : Held(q)' = Held(q)
BY DEF Held

\* The contexts of objects, said either way.
LEMMA HeldOf ==
  ASSUME TypeOK, NEW p \in Processes
  PROVE  /\ \A o \in DOMAIN contexts[p] :
              /\ contexts[p][o] \in Held(p) /\ contexts[p][o] \in Contexts
              /\ contexts[p][o].prefix \in Names /\ o \in Nat
         /\ Held(p) \subseteq Contexts
         /\ \A c \in Held(p) : c.prefix \in Names /\ \E o \in DOMAIN contexts[p] : c = contexts[p][o]
<1>1. contexts[p] \in Seq(Contexts)
  BY DEF TypeOK
<1>2. DOMAIN contexts[p] = 1 .. Len(contexts[p]) /\ Len(contexts[p]) \in Nat
  BY <1>1, LenProperties
<1>3. \A o \in DOMAIN contexts[p] : contexts[p][o] \in Contexts /\ o \in Nat
  BY <1>1, <1>2, ElementOfSeq
<1> QED BY <1>3 DEF Held, Contexts

LEMMA HeldOnce ==
  ASSUME TypeOK, SameNameSameContext, NEW p \in Processes, NEW q \in Processes,
         NEW c \in Held(p), NEW d \in Held(q), c.prefix = d.prefix
  PROVE  c = d
<1>1. PICK i \in DOMAIN contexts[p], j \in DOMAIN contexts[q] : c = contexts[p][i] /\ d = contexts[q][j]
  BY HeldOf
<1>2. c.members = d.members
  BY <1>1 DEF SameNameSameContext
<1>3. c \in Contexts /\ d \in Contexts
  BY HeldOf
<1> QED BY <1>2, <1>3 DEF Contexts

LEMMA AgreedTypes ==
  ASSUME TypeOK, NEW x \in Names
  PROVE  Agreed(x) \in Seq(Kinds) /\ Len(Agreed(x)) \in Nat
<1>1. Agreed(x) \in Seq(Kinds)
  BY DEF TypeOK, Agreements, Agreed
<1> QED BY <1>1, LenProperties

\* A round that was begun has a kind, and keeps it.
LEMMA KindStays ==
  ASSUME TypeOK, BegunIsAgreed, Extends, NEW p \in Processes, NEW c \in Contexts, NEW k \in Nat \ {0},
         k <= Count(begun[p], c.prefix)
  PROVE  KindOf(c, k)' = KindOf(c, k)
<1>1. c.prefix \in Names
  BY DEF Contexts
<1>2. Len(Agreed(c.prefix)) \in Nat /\ Count(begun[p], c.prefix) \in Nat
  BY <1>1, AgreedTypes, Counting DEF TypeOK
<1>3. k \in 1 .. Len(Agreed(c.prefix))
  BY <1>1, <1>2 DEF BegunIsAgreed
<1> QED BY <1>1, <1>3 DEF Extends, KindOf

LEMMA SettledExtends ==
  ASSUME TypeOK, Settled, cast \subseteq cast'
  PROVE  Extends
<1>1. \A x \in Names : Agreed(x)' = Agreed(x) /\ Len(Agreed(x)) \in Nat
  BY AgreedTypes DEF Settled, Agreed
<1> QED BY <1>1, SameHeld DEF Settled, Extends

\* What another process does goes on.
LEMMA OthersGoOn ==
  ASSUME IInv, Extends, NEW q \in Processes, call'[q] = call[q], begun'[q] = begun[q],
         \A d \in taken' : d \in taken \/ d.process # q
  PROVE  CallFits(q)'
<1>1. TypeOK /\ BegunIsAgreed /\ CallFits(q)
  BY DEF IInv, CallsFit
<1>2. call[q] \in Calls
  BY <1>1 DEF TypeOK
<1>3. GatheringIsGiven(q)'
  <2> PICK c : c = call[q].ctx
    OBVIOUS
  <2> PICK k : k = Round(q, c)
    OBVIOUS
  <2> SUFFICES ASSUME call[q].op \in {"gather_put", "gather_get"}
               PROVE  /\ c \in Held(q)' /\ k # 0 /\ KindOf(c, k)' = call[q].kind
                      /\ call[q].key = RoundName(c.prefix, k - 1) \o <<"all_gather">>
                      /\ [group |-> c, round |-> k, process |-> q, value |-> call[q].value] \in given'
                      /\ Len(call[q].got) < Size(c)
                      /\ \A i \in DOMAIN call[q].got :
                           [group |-> c, round |-> k, process |-> c.members[i], value |-> call[q].got[i]] \in given'
                      /\ \A d \in taken' : ~(d.group = c /\ d.round = k /\ d.process = q)
    BY DEF GatheringIsGiven, Round, GivenBy, KindOf
  <2>1. c \in Contexts /\ c.prefix \in Names
    BY <1>2, CallTypes DEF Gatherings, Contexts
  <2>2. k \in Nat /\ k <= Count(begun[q], c.prefix)
    BY <1>1, <2>1, Counting DEF TypeOK, Round
  <2>3. /\ c \in Held(q) /\ k # 0 /\ KindOf(c, k) = call[q].kind
        /\ call[q].key = RoundName(c.prefix, k - 1) \o <<"all_gather">>
        /\ [group |-> c, round |-> k, process |-> q, value |-> call[q].value] \in given
        /\ Len(call[q].got) < Size(c)
        /\ \A i \in DOMAIN call[q].got :
             [group |-> c, round |-> k, process |-> c.members[i], value |-> call[q].got[i]] \in given
        /\ \A d \in taken : ~(d.group = c /\ d.round = k /\ d.process = q)
    BY <1>1 DEF CallFits, GatheringIsGiven, GivenBy
  <2>4. KindOf(c, k)' = call[q].kind
    <3>1. KindOf(c, k)' = KindOf(c, k)
      BY <1>1, <2>1, <2>2, <2>3, KindStays
    <3> QED BY <2>3, <3>1
  <2> QED BY <2>3, <2>4 DEF Extends
<1>4. BroadcastHasName(q)'
  BY <1>1 DEF CallFits, BroadcastHasName, Extends, Round
<1>5. SplitHasGathered(q)'
  BY <1>1, SameWorkload DEF CallFits, SplitHasGathered, Extends
<1>6. CallHasObject(q)'
  BY <1>1 DEF CallFits, CallHasObject, Extends
<1> QED BY <1>3, <1>4, <1>5, <1>6 DEF CallFits

\* What was put under keys remains there.
LEMMA StoreStays ==
  ASSUME StoreIsGiven, Extends, store' = store
  PROVE  StoreIsGiven'
BY SameWorkload DEF StoreIsGiven, Extends, GivenBy

\* A new key for a value of the round it names.
LEMMA StorePuts ==
  ASSUME StoreIsGiven, Extends, NEW key, NEW value, Put(key, value),
         NEW q \in Processes, NEW c \in Held(q)', NEW k \in Nat \ {0},
         \/ \E i \in 1 .. Size(c) :
              /\ key = GatherName(c.prefix, k - 1, i - 1)
              /\ [group |-> c, round |-> k, process |-> c.members[i], value |-> value] \in given'
         \/ \E r \in Nat : /\ key = BroadcastName(c.prefix, k - 1, r)
                           /\ [group |-> c, round |-> k, value |-> value] \in cast'
  PROVE  StoreIsGiven'
<1> DEFINE Old(y, v) == \E z \in Processes : \E d \in Held(z)', m \in Nat \ {0} :
             \/ \E i \in 1 .. Size(d) :
                  /\ y = GatherName(d.prefix, m - 1, i - 1)
                  /\ [group |-> d, round |-> m, process |-> d.members[i], value |-> v] \in given'
             \/ \E r \in Nat : /\ y = BroadcastName(d.prefix, m - 1, r)
                               /\ [group |-> d, round |-> m, value |-> v] \in cast'
<1>1. DOMAIN store' = DOMAIN store \cup {key} /\ \A y \in DOMAIN store' : store'[y] = IF y = key THEN value ELSE store[y]
  BY DEF Put
<1>2. Old(key, value)
  OBVIOUS
<1>3. \A y \in DOMAIN store : Old(y, store[y])
  BY DEF StoreIsGiven, Extends, GivenBy
<1> HIDE DEF Old
<1>4. \A y \in DOMAIN store' : Old(y, store'[y])
  BY <1>1, <1>2, <1>3
<1>5. Processes' = Processes
  BY SameWorkload DEF Extends
<1> QED BY <1>4, <1>5 DEF Old, StoreIsGiven, GivenBy

\* A step that only goes on with a collective.
LEMMA SettledKeeps ==
  ASSUME IInv, Settled, call' \in [Processes -> Calls],
         \A d \in taken' : d \in taken \/ (d \in Takings /\ d.round <= Count(begun[d.process], d.group.prefix))
  PROVE  /\ TypeOK' /\ ContextsAreMade' /\ SameNameSameContext' /\ CountersInStep'
         /\ NamesAreSpent' /\ NothingBeforehand' /\ BegunIsAgreed' /\ HistoryIsBegun'
<1>1. workload' = workload
  BY DEF Settled
<1>2. TypeOK'
  BY <1>1, SameWorkload DEF IInv, TypeOK, Settled
<1>3. ContextsAreMade' /\ SameNameSameContext'
  <2>1. \A f, c : Made(f, c)' <=> Made(f, c)
    BY DEF Made
  <2>2. \A p, c : Member(p, c)' <=> Member(p, c)
    BY DEF Member
  <2>3. ContextsAreMade'
    BY <1>1, <2>1, <2>2, SameWorkload, SameHeld DEF IInv, ContextsAreMade, Settled
  <2>4. SameNameSameContext'
    BY <1>1, SameWorkload DEF IInv, SameNameSameContext, Settled
  <2> QED BY <2>3, <2>4
<1>4. CountersInStep' /\ BegunIsAgreed'
  BY <1>1, SameWorkload DEF IInv, CountersInStep, BegunIsAgreed, Settled, Agreed
<1>5. HistoryIsBegun'
  BY <1>1, SameWorkload DEF IInv, HistoryIsBegun, Settled, KindOf, Agreed
<1>6. NamesAreSpent' /\ NothingBeforehand'
  BY <1>1, SameWorkload, SameHeld DEF IInv, NamesAreSpent, NothingBeforehand, Settled
<1> QED BY <1>2, <1>3, <1>4, <1>5, <1>6
-----------------------------------------------------------------------------
(* What a step begins and makes.                                            *)

LEMMA ChannelTypes ==
  NumeralsDiffer =>
    /\ <<"collective">> \in Names
    /\ \A parts \in ContextChannels : parts \in Names /\ parts # <<"collective">>
<1> SUFFICES ASSUME NumeralsDiffer
             PROVE  /\ <<"collective">> \in Names
                    /\ \A parts \in ContextChannels : parts \in Names /\ parts # <<"collective">>
  OBVIOUS
<1>1. <<"collective">> \in Names /\ <<"duplicate">> \in Names /\ <<"group">> \in Names /\ <<"libtt">> \in Names
  BY NameTypes DEF Keywords
<1>2. ASSUME NEW r \in Seq(Nat) PROVE GroupChannel(r) \in Names
  <2>1. Texts(r) \in Names
    <3>1. 0 \in Nat
      OBVIOUS
    <3> QED BY <1>1, <3>1, GroupWords, NameTypes
  <2>2. GroupChannel(r) = <<"group">> \o Texts(r)
    BY DEF GroupChannel, Texts
  <2> QED BY <1>1, <2>1, <2>2, NameTypes
<1>3. \A r \in Seq(Nat) : GroupChannel(r) # <<"collective">>
  BY <1>1, ChannelNames
<1>4. << >> \in Seq(Nat)
  OBVIOUS
<1>5. <<"duplicate">> # <<"collective">>
  BY <1>1, <1>4, ChannelNames
<1> QED BY <1>1, <1>2, <1>3, <1>5 DEF ContextChannels

\* To begin a collective goes on with what was agreed on, or is the first to agree.
LEMMA Begins ==
  ASSUME TypeOK, BegunIsAgreed, workload' = workload, NEW p \in Processes, NEW c \in Contexts,
         NEW kind \in Kinds, Begin(p, c, kind)
  PROVE  /\ begun' \in [Processes -> Tallies] /\ agreed' \in Agreements
         /\ \A q \in Processes : q # p => begun'[q] = begun[q]
         /\ \A y : Count(begun'[p], y) = IF y = c.prefix THEN Count(begun[p], y) + 1 ELSE Count(begun[p], y)
         /\ \A x \in Names : Len(Agreed(x)) <= Len(Agreed(x)')
         /\ \A x \in Names : \A k \in 1 .. Len(Agreed(x)) : Agreed(x)'[k] = Agreed(x)[k]
         /\ Agreed(c.prefix)'[Count(begun[p], c.prefix) + 1] = kind
         /\ BegunIsAgreed'
<1> DEFINE n == c.prefix
           k == Count(begun[p], n) + 1
<1>1. n \in Names
  BY DEF Contexts
<1>2. begun[p] \in Tallies /\ begun' = [begun EXCEPT ![p] = Incremented(@, n)]
  BY DEF TypeOK, Begin
<1>3. /\ begun' \in [Processes -> Tallies]
      /\ \A q \in Processes : q # p => begun'[q] = begun[q]
      /\ \A y : Count(begun'[p], y) = IF y = n THEN Count(begun[p], y) + 1 ELSE Count(begun[p], y)
  BY <1>1, <1>2, Counting DEF TypeOK
<1>4. \A x \in Names : Agreed(x) \in Seq(Kinds) /\ Len(Agreed(x)) \in Nat
  BY AgreedTypes
<1>5. k \in Nat /\ k <= Len(Agreed(n)) + 1
  BY <1>1, <1>2, <1>4, Counting DEF BegunIsAgreed
<1>6. PICK X \in SUBSET Names : agreed \in [X -> Seq(Kinds)]
  BY DEF TypeOK, Agreements
<1> DEFINE Extended == /\ agreed' \in Agreements /\ Agreed(n)'[k] = kind
                       /\ \A x \in Names : Len(Agreed(x)) <= Len(Agreed(x)')
                       /\ \A x \in Names : \A i \in 1 .. Len(Agreed(x)) : Agreed(x)'[i] = Agreed(x)[i]
<1>7. ASSUME k <= Len(Agreed(n)) PROVE Extended
  <2>1. agreed' = agreed /\ Agreed(n)[k] = kind
    BY <1>7 DEF Begin
  <2>2. \A x : Agreed(x)' = Agreed(x)
    BY <2>1 DEF Agreed
  <2> QED BY <1>4, <2>1, <2>2 DEF TypeOK
<1>8. ASSUME ~(k <= Len(Agreed(n))) PROVE Extended
  <2>1. agreed' = [x \in DOMAIN agreed \cup {n} |-> IF x = n THEN Append(Agreed(x), kind) ELSE agreed[x]]
    BY <1>8 DEF Begin
  <2>2. Agreed(n)' = Append(Agreed(n), kind) /\ \A x : x # n => Agreed(x)' = Agreed(x)
    BY <2>1 DEF Agreed
  <2>3. Append(Agreed(n), kind) \in Seq(Kinds)
    BY <1>1, <1>4, AppendProperties
  <2>4. agreed' \in [X \cup {n} -> Seq(Kinds)] /\ X \cup {n} \in SUBSET Names
    BY <1>1, <1>6, <2>1, <2>3
  <2>5. k = Len(Agreed(n)) + 1
    BY <1>1, <1>4, <1>5, <1>8
  <2> DEFINE old == Agreed(n)
  <2>6. /\ Len(Append(old, kind)) = Len(old) + 1 /\ Append(old, kind)[Len(old) + 1] = kind
        /\ \A i \in 1 .. Len(old) : Append(old, kind)[i] = old[i]
    BY <1>1, <1>4, AppendProperties
  <2> HIDE DEF old
  <2>7. agreed' \in Agreements
    BY <2>4 DEF Agreements
  <2>8. \A x \in Names : Len(Agreed(x)) <= Len(Agreed(x)')
    BY <1>1, <1>4, <2>2, <2>6 DEF old
  <2>9. \A x \in Names : \A i \in 1 .. Len(Agreed(x)) : Agreed(x)'[i] = Agreed(x)[i]
    BY <2>2, <2>6 DEF old
  <2>10. Agreed(n)'[k] = kind
    BY <2>2, <2>5, <2>6 DEF old
  <2> QED BY <2>7, <2>8, <2>9, <2>10
<1>9. Agreed(n)'[k] = kind /\ agreed' \in Agreements
  BY <1>7, <1>8
<1>10. \A x \in Names : Len(Agreed(x)) <= Len(Agreed(x)')
  BY <1>7, <1>8
<1>11. \A x \in Names : \A i \in 1 .. Len(Agreed(x)) : Agreed(x)'[i] = Agreed(x)[i]
  BY <1>7, <1>8
<1>12. BegunIsAgreed'
  <2> SUFFICES ASSUME NEW q \in Processes, NEW x \in Names PROVE Count(begun'[q], x) <= Len(Agreed(x)')
    BY SameWorkload DEF BegunIsAgreed
  <2>1. Count(begun[q], x) \in Nat /\ Count(begun[q], x) <= Len(Agreed(x)) /\ Len(Agreed(x)) \in Nat
    BY <1>4, Counting DEF TypeOK, BegunIsAgreed
  <2>2. Len(Agreed(x)) <= Len(Agreed(x)') /\ Len(Agreed(x)') \in Nat
    <3>1. Agreed(x)' \in Seq(Kinds)
      BY <1>9 DEF Agreements, Agreed
    <3> QED BY <1>10, <3>1, LenProperties
  <2>3. CASE q = p /\ x = n
    <3>1. Count(begun'[q], x) = k
      BY <1>3, <2>3
    <3>2. k <= Len(Agreed(n)')
      <4>1. CASE k <= Len(Agreed(n))
        BY <1>5, <2>1, <2>2, <2>3, <4>1
      <4>2. CASE ~(k <= Len(Agreed(n)))
        <5>1. Agreed(n)' = Append(Agreed(n), kind)
          BY <4>2 DEF Begin, Agreed
        <5>2. Len(Agreed(n)') = Len(Agreed(n)) + 1
          BY <1>1, <1>4, <5>1, AppendProperties
        <5> QED BY <1>5, <5>2
      <4> QED BY <4>1, <4>2
    <3> QED BY <2>3, <3>1, <3>2
  <2>4. CASE ~(q = p /\ x = n)
    <3>1. Count(begun'[q], x) = Count(begun[q], x)
      BY <1>3, <2>4
    <3> QED BY <2>1, <2>2, <3>1
  <2> QED BY <2>3, <2>4
<1> QED BY <1>3, <1>9, <1>10, <1>11, <1>12

\* The counter of a channel of an object goes on by one.
LEMMA Advances ==
  ASSUME TypeOK, NEW p \in Processes, NEW o \in Nat, NEW parts \in Names, Advance(p, o, parts)
  PROVE  /\ counters' \in [Processes -> TalliesOf(Channels)]
         /\ \A q \in Processes : q # p => counters'[q] = counters[q]
         /\ \A q \in Processes : \A y : Count(counters[q], y) \in Nat
         /\ \A y : Count(counters'[p], y) =
              IF y = <<o, parts>> THEN Count(counters[p], y) + 1 ELSE Count(counters[p], y)
         /\ \A q \in Processes : \A y : Count(counters[q], y) <= Count(counters'[q], y)
<1>1. <<o, parts>> \in Channels
  BY DEF Channels
<1>2. \A q \in Processes : counters[q] \in TalliesOf(Channels)
  BY DEF TypeOK
<1>3. \A q \in Processes : \A y : Count(counters[q], y) \in Nat
  BY <1>1, <1>2, CountingOf
<1>4. counters' = [counters EXCEPT ![p] = Incremented(@, <<o, parts>>)]
  BY DEF Advance
<1>5. /\ Incremented(counters[p], <<o, parts>>) \in TalliesOf(Channels)
      /\ \A y : Count(Incremented(counters[p], <<o, parts>>), y) =
           IF y = <<o, parts>> THEN Count(counters[p], y) + 1 ELSE Count(counters[p], y)
  BY <1>1, <1>2, CountingOf
<1>6. /\ counters' \in [Processes -> TalliesOf(Channels)]
      /\ \A q \in Processes : q # p => counters'[q] = counters[q]
      /\ counters'[p] = Incremented(counters[p], <<o, parts>>)
  BY <1>4, <1>5 DEF TypeOK
<1>7. \A q \in Processes : \A y : Count(counters[q], y) <= Count(counters'[q], y)
  BY <1>3, <1>5, <1>6
<1> QED BY <1>3, <1>5, <1>6, <1>7

\* A new object comes after those of its process.
LEMMA Appends ==
  ASSUME TypeOK, NEW p \in Processes, NEW e \in Contexts,
         contexts' = [contexts EXCEPT ![p] = Append(@, e)]
  PROVE  /\ contexts' \in [Processes -> Seq(Contexts)]
         /\ \A q \in Processes : q # p => contexts'[q] = contexts[q] /\ Held(q)' = Held(q)
         /\ DOMAIN contexts'[p] = DOMAIN contexts[p] \cup {Len(contexts[p]) + 1}
         /\ Len(contexts[p]) + 1 \notin DOMAIN contexts[p]
         /\ contexts'[p][Len(contexts[p]) + 1] = e
         /\ \A o \in DOMAIN contexts[p] : contexts'[p][o] = contexts[p][o]
         /\ Held(p)' = Held(p) \cup {e}
<1> DEFINE s == contexts[p]
           N == Len(s)
<1>1. s \in Seq(Contexts) /\ N \in Nat /\ DOMAIN s = 1 .. N
  BY LenProperties DEF TypeOK
<1>2. contexts'[p] = Append(s, e) /\ \A q \in Processes : q # p => contexts'[q] = contexts[q]
  BY DEF TypeOK
<1> HIDE DEF s
<1>3. /\ Append(s, e) \in Seq(Contexts) /\ Len(Append(s, e)) = N + 1 /\ Append(s, e)[N + 1] = e
      /\ \A i \in 1 .. N : Append(s, e)[i] = s[i]
  BY <1>1, AppendProperties
<1>4. DOMAIN Append(s, e) = 1 .. N + 1
  BY <1>1, <1>3, LenProperties
<1>5. 1 .. N + 1 = (1 .. N) \cup {N + 1} /\ N + 1 \notin 1 .. N
  BY <1>1
<1> HIDE DEF N
<1>6. contexts' \in [Processes -> Seq(Contexts)]
  BY <1>2, <1>3 DEF TypeOK, s
<1>7. \A q \in Processes : q # p => Held(q)' = Held(q)
  BY <1>2 DEF Held
<1>8. \A i \in 1 .. N : Append(s, e)[i] = s[i]
  BY <1>3
<1>9. Held(p)' = Held(p) \cup {e}
  <2>1. Held(p)' = {Append(s, e)[i] : i \in (1 .. N) \cup {N + 1}}
    BY <1>2, <1>4, <1>5 DEF Held
  <2>2. Held(p) = {s[i] : i \in 1 .. N}
    BY <1>1 DEF Held, s
  <2> QED BY <1>3, <1>8, <2>1, <2>2
<1> QED BY <1>1, <1>2, <1>3, <1>4, <1>5, <1>6, <1>7, <1>8, <1>9 DEF s, N

\* A context made out of one of the contexts of its process, for a process that is a
\* member of it, has a name that its process did not have.
LEMMA MakesContext ==
  ASSUME NumeralsDiffer, TypeOK, ContextsAreMade, SameNameSameContext, NamesAreSpent,
         workload' = workload,
         NEW p \in Processes, NEW o \in DOMAIN contexts[p], NEW f, f = contexts[p][o],
         NEW parts \in ContextChannels, NEW e \in Contexts, e.prefix = NextName(p, o, parts),
         Made(f, e), Member(p, e), Advance(p, o, parts),
         contexts' = [contexts EXCEPT ![p] = Append(@, e)]
  PROVE  /\ ContextsAreMade' /\ SameNameSameContext' /\ NamesAreSpent'
         /\ \A d \in Held(p) : d.prefix # e.prefix
<1>0. Processes' = Processes /\ Root' = Root
  BY SameWorkload
<1>1. f \in Held(p) /\ f \in Contexts /\ f.prefix \in Names /\ o \in Nat /\ e.prefix \in Names
  BY HeldOf DEF Contexts
<1>2. /\ \A q \in Processes : q # p => contexts'[q] = contexts[q] /\ Held(q)' = Held(q)
      /\ DOMAIN contexts'[p] = DOMAIN contexts[p] \cup {Len(contexts[p]) + 1}
      /\ Len(contexts[p]) + 1 \notin DOMAIN contexts[p]
      /\ contexts'[p][Len(contexts[p]) + 1] = e
      /\ \A i \in DOMAIN contexts[p] : contexts'[p][i] = contexts[p][i]
      /\ Held(p)' = Held(p) \cup {e}
  BY Appends
<1>3. parts \in Names
  BY ChannelTypes
<1>4. /\ \A q \in Processes : \A y : Count(counters[q], y) \in Nat
      /\ \A q \in Processes : \A y : Count(counters[q], y) <= Count(counters'[q], y)
      /\ Count(counters'[p], <<o, parts>>) = Count(counters[p], <<o, parts>>) + 1
      /\ \A q \in Processes : \A y : Count(counters'[q], y) \in Nat
  <2>1. /\ \A q \in Processes : \A y : Count(counters[q], y) \in Nat
        /\ \A q \in Processes : \A y : Count(counters[q], y) <= Count(counters'[q], y)
        /\ \A q \in Processes : q # p => counters'[q] = counters[q]
        /\ \A y : Count(counters'[p], y) =
             IF y = <<o, parts>> THEN Count(counters[p], y) + 1 ELSE Count(counters[p], y)
    BY <1>1, <1>3, Advances
  <2>2. Count(counters'[p], <<o, parts>>) = Count(counters[p], <<o, parts>>) + 1
    BY <2>1
  <2>3. ASSUME NEW q \in Processes, NEW y PROVE Count(counters'[q], y) \in Nat
    <3>1. Count(counters[q], y) \in Nat
      BY <2>1
    <3>2. CASE q # p
      BY <2>1, <3>1, <3>2
    <3>3. CASE q = p
      BY <2>1, <3>1, <3>3
    <3> QED BY <3>2, <3>3
  <2> QED BY <2>1, <2>2, <2>3
<1>5. PICK n \in Nat : n = Count(counters[p], <<o, parts>>)
  BY <1>4
<1>6. e.prefix = NameIn(f.prefix, parts, n)
  BY <1>5 DEF NextName, NameIn
<1>7. \A d \in Held(p) : d.prefix # e.prefix
  <2> SUFFICES ASSUME NEW d \in Held(p), d.prefix = e.prefix PROVE FALSE
    OBVIOUS
  <2>1. n < Count(counters[p], <<o, parts>>)
    BY <1>6 DEF NamesAreSpent
  <2> QED BY <1>5, <2>1
<1>8. ContextsAreMade'
  <2>1. \A g, c : Made(g, c)' <=> Made(g, c)
    BY DEF Made
  <2>2. \A q, c : Member(q, c)' <=> Member(q, c)
    BY DEF Member
  <2>3. ASSUME NEW q \in Processes, NEW c \in Held(q)'
        PROVE  Member(q, c) /\ (c = Root \/ \E g \in Held(q)' : Made(g, c))
    <3>1. CASE q # p
      BY <1>2, <3>1 DEF ContextsAreMade
    <3>2. CASE q = p /\ c \in Held(p)
      BY <1>2, <3>2 DEF ContextsAreMade
    <3>3. CASE q = p /\ c = e
      BY <1>1, <1>2, <3>3
    <3> QED BY <1>2, <3>1, <3>2, <3>3
  <2> QED BY <1>0, <2>1, <2>2, <2>3 DEF ContextsAreMade
<1>9. \A q \in Processes : \A d \in Held(q) : d.prefix = e.prefix => d.members = e.members
  <2> SUFFICES ASSUME NEW q \in Processes, NEW d \in Held(q), d.prefix = e.prefix
               PROVE  d.members = e.members
    OBVIOUS
  <2>1. d # Root
    BY <1>1, MadeIsNotRoot
  <2>2. PICK g \in Held(q) : Made(g, d)
    BY <2>1 DEF ContextsAreMade
  <2>3. g \in Contexts
    BY HeldOf
  <2>4. g.prefix = f.prefix /\ (g = f => d = e)
    BY <1>1, <2>2, <2>3, MadeNames
  <2>5. g = f
    BY <1>1, <2>4, HeldOnce
  <2> QED BY <2>4, <2>5
<1>10. SameNameSameContext'
  <2> SUFFICES ASSUME NEW q \in Processes, NEW r \in Processes,
                      NEW i \in DOMAIN contexts'[q], NEW j \in DOMAIN contexts'[r],
                      contexts'[q][i].prefix = contexts'[r][j].prefix
               PROVE  contexts'[q][i].members = contexts'[r][j].members /\ (q = r => i = j)
    BY <1>0 DEF SameNameSameContext
  <2> DEFINE Old(z, k) == k \in DOMAIN contexts[z] /\ contexts'[z][k] = contexts[z][k] /\ contexts[z][k] \in Held(z)
             Newest(z, k) == z = p /\ k = Len(contexts[p]) + 1 /\ contexts'[z][k] = e
  <2>1. ASSUME NEW z \in Processes, NEW k \in DOMAIN contexts'[z] PROVE Old(z, k) \/ Newest(z, k)
    BY <1>2, HeldOf
  <2>2. (Old(q, i) \/ Newest(q, i)) /\ (Old(r, j) \/ Newest(r, j))
    BY <2>1
  <2>3. CASE Old(q, i) /\ Old(r, j)
    BY <2>3 DEF SameNameSameContext
  <2>4. CASE Old(q, i) /\ Newest(r, j)
    BY <1>7, <1>9, <2>4
  <2>5. CASE Newest(q, i) /\ Old(r, j)
    BY <1>7, <1>9, <2>5
  <2>6. CASE Newest(q, i) /\ Newest(r, j)
    BY <2>6
  <2> QED BY <2>2, <2>3, <2>4, <2>5, <2>6
<1>11. NamesAreSpent'
  <2> SUFFICES ASSUME NEW q \in Processes, NEW i \in DOMAIN contexts'[q], NEW more \in ContextChannels,
                      NEW m \in Nat, NEW d \in Held(q)',
                      d.prefix = NameIn(contexts'[q][i].prefix, more, m)
               PROVE  m < Count(counters'[q], <<i, more>>)
    BY <1>0 DEF NamesAreSpent
  <2>0. Count(counters[q], <<i, more>>) <= Count(counters'[q], <<i, more>>)
        /\ Count(counters[q], <<i, more>>) \in Nat /\ Count(counters'[q], <<i, more>>) \in Nat
    BY <1>4
  <2>1. CASE i \in DOMAIN contexts[q] /\ d \in Held(q)
    <3>1. contexts'[q][i] = contexts[q][i]
      BY <1>2, <2>1
    <3>2. m < Count(counters[q], <<i, more>>)
      BY <2>1, <3>1 DEF NamesAreSpent
    <3> QED BY <2>0, <3>2
  <2>2. CASE i \in DOMAIN contexts[q] /\ q = p /\ d = e
    <3>1. contexts'[q][i] = contexts[p][i] /\ contexts[p][i].prefix \in Names
      BY <1>2, <2>2, HeldOf
    <3>2. contexts[p][i].prefix = f.prefix /\ more = parts /\ m = n
      <4>1. PICK x : x = contexts[p][i].prefix
        OBVIOUS
      <4>2. PICK y : y = f.prefix
        OBVIOUS
      <4>3. x \in Names /\ y \in Names /\ NameIn(x, more, m) = NameIn(y, parts, n)
        BY <1>1, <1>6, <2>2, <3>1, <4>1, <4>2
      <4>4. x = y /\ more = parts /\ m = n
        BY <4>3, NamesOfContexts
      <4> QED BY <4>1, <4>2, <4>4
    <3>3. i = o
      BY <2>2, <3>2 DEF SameNameSameContext
    <3> QED BY <1>4, <1>5, <2>2, <3>2, <3>3
  <2>3. CASE q = p /\ contexts'[q][i] = e
    <3>1. d.prefix # Root.prefix
      BY <1>1, <2>3, NamesOfContexts
    <3>2. PICK g \in Held(p) : Made(g, d)
      <4>1. d \in Held(p) \/ d = e
        BY <1>2, <2>3
      <4> QED BY <1>1, <3>1, <4>1 DEF ContextsAreMade
    <3>3. g \in Contexts /\ g.prefix \in Names
      BY HeldOf
    <3>4. PICK last \in ContextChannels, k \in Nat : d.prefix = NameIn(g.prefix, last, k)
      BY <3>2, <3>3, MadeHasName
    <3>5. g.prefix = e.prefix
      <4>1. PICK x, y : x = g.prefix /\ y = e.prefix
        OBVIOUS
      <4>2. x \in Names /\ y \in Names /\ NameIn(x, last, k) = NameIn(y, more, m)
        BY <1>1, <2>3, <3>3, <3>4, <4>1
      <4>3. x = y
        BY <4>2, NamesOfContexts
      <4> QED BY <4>1, <4>3
    <3> QED BY <1>7, <3>5
  <2> QED BY <1>2, <2>1, <2>2, <2>3
<1> QED BY <1>7, <1>8, <1>10, <1>11

-----------------------------------------------------------------------------
(* The invariant holds at first.                                            *)

LEMMA InitIInv == NumeralsDiffer /\ Init => IInv
<1> SUFFICES ASSUME NumeralsDiffer, Init PROVE IInv
  OBVIOUS
<1>1. Processes \subseteq Int /\ workload.processes \in Nat \ {0} /\ \A i \in 1 .. workload.processes : i - 1 \in Processes
  BY CollectivesAssumption DEF Init, Processes
<1>2. Root \in Contexts /\ \A p \in Processes : Member(p, Root)
  <2>1. Root.members \in Seq(Processes) /\ Len(Root.members) = workload.processes
    BY <1>1, LenProperties DEF Root
  <2>2. Root.prefix \in Names
    <3>1. <<"libtt">> \in Names /\ <<"control">> \in Names
      BY NameTypes DEF Keywords
    <3>2. <<"libtt">> \o <<"control">> \in Names
      BY <3>1, NameTypes
    <3>3. Root.prefix = <<"libtt">> \o <<"control">>
      BY DEF Root
    <3> QED BY <3>2, <3>3
  <2>3. ASSUME NEW p \in Processes PROVE Member(p, Root)
    <3>1. p + 1 \in 1 .. workload.processes /\ Root.members[p + 1] = p
      BY <1>1 DEF Processes, Root
    <3> QED BY <2>1, <3>1 DEF Member, Size
  <2>4. Root = [prefix |-> Root.prefix, members |-> Root.members]
    BY DEF Root
  <2> QED BY <2>1, <2>2, <2>3, <2>4 DEF Contexts
<1>3. TypeOK
  <2>1. [x \in {} |-> 0] \in [{} -> Nat] /\ agreed \in [{} -> Seq(Kinds)] /\ {} \in SUBSET Names /\ {} \in SUBSET Channels
    BY DEF Init
  <2>2. [x \in {} |-> 0] \in Tallies /\ [x \in {} |-> 0] \in TalliesOf(Channels) /\ agreed \in Agreements
    BY <2>1 DEF Tallies, TalliesOf, Agreements
  <2>3. <<Root>> \in Seq(Contexts)
    BY <1>2
  <2> QED BY <2>2, <2>3 DEF Init, TypeOK, Calls
<1>4. ContextsAreMade /\ SameNameSameContext /\ CountersInStep /\ NamesAreSpent /\ NothingBeforehand
  <2>1. \A p \in Processes : DOMAIN contexts[p] = {1} /\ contexts[p][1] = Root
    BY DEF Init
  <2>2. \A p \in Processes : Held(p) = {Root}
    BY <2>1 DEF Held
  <2>3. \A p \in Processes : \A y : Count(counters[p], y) = 0 /\ Count(begun[p], y) = 0
    BY DEF Init, Count
  <2>4. ContextsAreMade
    BY <1>2, <2>2 DEF ContextsAreMade
  <2>5. SameNameSameContext
    BY <2>1 DEF SameNameSameContext
  <2>6. CountersInStep /\ NothingBeforehand
    BY <2>1, <2>3 DEF CountersInStep, NothingBeforehand
  <2>7. NamesAreSpent
    <3> SUFFICES ASSUME NEW p \in Processes, NEW o \in DOMAIN contexts[p], NEW parts \in ContextChannels,
                        NEW n \in Nat, NEW e \in Held(p), e.prefix = NameIn(contexts[p][o].prefix, parts, n)
                 PROVE  FALSE
      BY DEF NamesAreSpent
    <3>1. contexts[p][o] = Root /\ e = Root /\ Root.prefix \in Names
      BY <1>2, <2>1, <2>2 DEF Contexts
    <3>2. NameIn(Root.prefix, parts, n) # Root.prefix
      BY <3>1, NamesOfContexts
    <3> QED BY <3>1, <3>2
  <2> QED BY <2>4, <2>5, <2>6, <2>7
<1>5. BegunIsAgreed
  BY DEF Init, BegunIsAgreed, Count, Agreed
<1>6. HistoryIsBegun /\ CallsFit /\ StoreIsGiven
  BY DEF Init, HistoryIsBegun, CallsFit, CallFits, GatheringIsGiven, BroadcastHasName, SplitHasGathered, CallHasObject, StoreIsGiven, Idle
<1> QED BY <1>3, <1>4, <1>5, <1>6 DEF IInv
-----------------------------------------------------------------------------
(* Steps that start a collective.                                           *)

\* A context that is held has counted its rounds.
LEMMA HeldRound ==
  ASSUME IInv, NEW p \in Processes, NEW c \in Held(p)
  PROVE  c \in Contexts /\ c.prefix \in Names /\ Round(p, c) \in Nat
<1>1. c \in Contexts /\ c.prefix \in Names
  BY HeldOf DEF IInv
<1>2. Round(p, c) \in Nat
  BY <1>1, Counting DEF IInv, TypeOK, Round
<1> QED BY <1>1, <1>2

\* The name of the next collective of an object.
LEMMA NextRound ==
  ASSUME IInv, NEW p \in Processes, NEW o \in DOMAIN contexts[p], NEW c, c = contexts[p][o]
  PROVE  /\ c \in Held(p) /\ c \in Contexts /\ c.prefix \in Names /\ Round(p, c) \in Nat /\ o \in Nat
         /\ NextName(p, o, <<"collective">>) = RoundName(c.prefix, Round(p, c))
<1>1. c \in Held(p) /\ o \in Nat
  BY HeldOf DEF IInv
<1>2. c \in Contexts /\ c.prefix \in Names /\ Round(p, c) \in Nat
  BY <1>1, HeldRound
<1>3. Count(counters[p], <<o, <<"collective">>>>) = Round(p, c)
  BY DEF IInv, CountersInStep, Round
<1> QED BY <1>1, <1>2, <1>3 DEF NextName, RoundName

LEMMA Starts ==
  ASSUME NumeralsDiffer, IInv, workload' = workload, NEW p \in Processes, NEW o \in DOMAIN contexts[p],
         NEW c, c = contexts[p][o],
         NEW kind \in Kinds, Begin(p, c, kind), Advance(p, o, <<"collective">>), given \subseteq given',
         UNCHANGED <<store, contexts, taken, cast>>
  PROVE  /\ Extends /\ begun' \in [Processes -> Tallies] /\ agreed' \in Agreements
         /\ counters' \in [Processes -> TalliesOf(Channels)]
         /\ CountersInStep' /\ BegunIsAgreed' /\ ContextsAreMade' /\ SameNameSameContext' /\ StoreIsGiven'
         /\ NamesAreSpent' /\ NothingBeforehand'
         /\ \A q \in Processes : q # p => begun'[q] = begun[q]
         /\ Count(begun'[p], c.prefix) = Round(p, c) + 1 /\ Agreed(c.prefix)'[Round(p, c) + 1] = kind
         /\ \A q \in Processes, x \in Names : Count(begun[q], x) <= Count(begun'[q], x)
         /\ \A d \in given \cup taken : d.round <= Count(begun'[d.process], d.group.prefix)
         /\ \A d \in given : KindOf(d.group, d.round)' = <<"split">> => d.value \in SplitValues
<1>1. c \in Held(p) /\ c \in Contexts /\ c.prefix \in Names /\ Round(p, c) \in Nat /\ o \in Nat
  BY NextRound
<1>2. TypeOK /\ BegunIsAgreed /\ CountersInStep /\ HistoryIsBegun /\ SameNameSameContext
  BY DEF IInv
<1>3. /\ begun' \in [Processes -> Tallies] /\ agreed' \in Agreements
      /\ \A q \in Processes : q # p => begun'[q] = begun[q]
      /\ \A y : Count(begun'[p], y) = IF y = c.prefix THEN Count(begun[p], y) + 1 ELSE Count(begun[p], y)
      /\ \A x \in Names : Len(Agreed(x)) <= Len(Agreed(x)')
      /\ \A x \in Names : \A k \in 1 .. Len(Agreed(x)) : Agreed(x)'[k] = Agreed(x)[k]
      /\ Agreed(c.prefix)'[Count(begun[p], c.prefix) + 1] = kind
      /\ BegunIsAgreed'
  BY <1>1, <1>2, Begins
<1>4. Extends
  BY <1>3, SameHeld DEF Extends
<1>5. <<"collective">> \in Names
  BY ChannelTypes
<1>6. /\ counters' \in [Processes -> TalliesOf(Channels)]
      /\ \A q \in Processes : q # p => counters'[q] = counters[q]
      /\ \A q \in Processes : \A y : Count(counters[q], y) \in Nat
      /\ \A y : Count(counters'[p], y) =
           IF y = <<o, <<"collective">>>> THEN Count(counters[p], y) + 1 ELSE Count(counters[p], y)
      /\ \A q \in Processes : \A y : Count(counters[q], y) <= Count(counters'[q], y)
  BY <1>1, <1>2, <1>5, Advances
<1>7. CountersInStep'
  <2> SUFFICES ASSUME NEW q \in Processes, NEW i \in DOMAIN contexts[q]
               PROVE  Count(counters'[q], <<i, <<"collective">>>>) = Count(begun'[q], contexts[q][i].prefix)
    BY SameWorkload DEF CountersInStep
  <2>1. Count(counters[q], <<i, <<"collective">>>>) = Count(begun[q], contexts[q][i].prefix)
    BY <1>2 DEF CountersInStep
  <2>2. q = p => (contexts[q][i].prefix = c.prefix <=> i = o)
    BY <1>2 DEF SameNameSameContext
  <2>3. CASE q # p
    BY <1>3, <1>6, <2>1, <2>3
  <2>4. CASE q = p /\ i = o
    BY <1>3, <1>6, <2>1, <2>4
  <2>5. CASE q = p /\ i # o
    <3>1. <<i, <<"collective">>>> # <<o, <<"collective">>>>
      BY <2>5
    <3> QED BY <1>3, <1>6, <2>1, <2>2, <2>5, <3>1
  <2> QED BY <2>3, <2>4, <2>5
<1>8. ContextsAreMade' /\ SameNameSameContext'
  <2>1. \A f, d : Made(f, d)' <=> Made(f, d)
    BY DEF Made
  <2>2. \A q, d : Member(q, d)' <=> Member(q, d)
    BY DEF Member
  <2> QED BY <2>1, <2>2, SameWorkload, SameHeld DEF IInv, ContextsAreMade, SameNameSameContext
<1>15. NamesAreSpent'
  <2> SUFFICES ASSUME NEW q \in Processes, NEW i \in DOMAIN contexts[q], NEW parts \in ContextChannels, NEW n \in Nat,
                      NEW e \in Held(q), e.prefix = NameIn(contexts[q][i].prefix, parts, n)
               PROVE  n < Count(counters'[q], <<i, parts>>)
    BY SameWorkload, SameHeld DEF NamesAreSpent
  <2>1. n < Count(counters[q], <<i, parts>>)
    BY DEF IInv, NamesAreSpent
  <2>2. Count(counters[q], <<i, parts>>) <= Count(counters'[q], <<i, parts>>) /\ Count(counters[q], <<i, parts>>) \in Nat
    BY <1>6
  <2>3. Count(counters'[q], <<i, parts>>) \in Int
    BY <1>6
  <2> QED BY <2>1, <2>2, <2>3
<1>16. NothingBeforehand'
  <2>1. ASSUME NEW q \in Processes, NEW i, NEW parts, Count(counters'[q], <<i, parts>>) # 0 PROVE i \in DOMAIN contexts[q]
    <3>1. Count(counters[q], <<i, parts>>) # 0 \/ (q = p /\ <<i, parts>> = <<o, <<"collective">>>>)
      BY <1>6, <2>1
    <3> QED BY <3>1 DEF IInv, NothingBeforehand
  <2>2. ASSUME NEW q \in Processes, NEW x, Count(begun'[q], x) # 0 PROVE \E d \in Held(q) : d.prefix = x
    <3>1. Count(begun[q], x) # 0 \/ (q = p /\ x = c.prefix)
      BY <1>3, <2>2
    <3> QED BY <1>1, <3>1 DEF IInv, NothingBeforehand
  <2> QED BY <2>1, <2>2, SameWorkload, SameHeld DEF NothingBeforehand
<1>9. StoreIsGiven'
  BY <1>4, StoreStays DEF IInv
<1>10. Count(begun'[p], c.prefix) = Round(p, c) + 1 /\ Agreed(c.prefix)'[Round(p, c) + 1] = kind
  BY <1>3 DEF Round
<1>11. \A q \in Processes, x \in Names : Count(begun[q], x) <= Count(begun'[q], x) /\ Count(begun[q], x) \in Nat /\ Count(begun'[q], x) \in Nat
  <2> SUFFICES ASSUME NEW q \in Processes, NEW x \in Names
               PROVE  Count(begun[q], x) <= Count(begun'[q], x) /\ Count(begun[q], x) \in Nat /\ Count(begun'[q], x) \in Nat
    OBVIOUS
  <2>1. Count(begun[q], x) \in Nat /\ Count(begun'[q], x) \in Nat
    BY <1>2, <1>3, Counting DEF TypeOK
  <2>2. Count(begun'[q], x) = Count(begun[q], x) \/ Count(begun'[q], x) = Count(begun[q], x) + 1
    BY <1>3
  <2> QED BY <2>1, <2>2
<1>12. \A d \in given \cup taken : d.round \in Nat \ {0} /\ d.process \in Processes /\ d.group \in Contexts /\ d.group.prefix \in Names
  BY <1>2 DEF TypeOK, Gifts, Takings, Contexts
<1>13. \A d \in given \cup taken : d.round <= Count(begun'[d.process], d.group.prefix)
  <2> SUFFICES ASSUME NEW d \in given \cup taken PROVE d.round <= Count(begun'[d.process], d.group.prefix)
    OBVIOUS
  <2>1. d.round <= Count(begun[d.process], d.group.prefix)
    BY <1>2 DEF HistoryIsBegun
  <2> QED BY <1>11, <1>12, <2>1
<1>14. \A d \in given : KindOf(d.group, d.round)' = <<"split">> => d.value \in SplitValues
  <2> SUFFICES ASSUME NEW d \in given, KindOf(d.group, d.round)' = <<"split">> PROVE d.value \in SplitValues
    OBVIOUS
  <2>1. PICK g, k : g = d.group /\ k = d.round
    OBVIOUS
  <2>2. g \in Contexts /\ k \in Nat \ {0} /\ k <= Count(begun[d.process], g.prefix) /\ d.process \in Processes
    BY <1>2, <1>12, <2>1 DEF HistoryIsBegun
  <2>3. KindOf(g, k)' = KindOf(g, k)
    BY <1>2, <1>4, <2>2, KindStays
  <2>4. KindOf(g, k) = <<"split">>
    BY <2>1, <2>3
  <2> QED BY <1>2, <2>1, <2>4 DEF HistoryIsBegun
<1> QED BY <1>3, <1>4, <1>6, <1>7, <1>8, <1>9, <1>10, <1>11, <1>13, <1>14, <1>15, <1>16
LEMMA StartGatherKeeps ==
  ASSUME NumeralsDiffer, IInv, workload' = workload, NEW p \in Processes, NEW o \in DOMAIN contexts[p],
         NEW kind \in {<<"gather">>, <<"split">>}, NEW value \in Values,
         kind = <<"split">> => value \in SplitValues,
         StartGather(p, o, kind, value)
  PROVE  IInv'
<1>0. PICK c : c = contexts[p][o]
  OBVIOUS
<1> DEFINE n == c.prefix
           r == [op |-> "gather_put", kind |-> kind, obj |-> o, ctx |-> c,
                 key |-> NextName(p, o, <<"collective">>) \o <<"all_gather">>, value |-> value, got |-> << >>]
<1>1. /\ c \in Held(p) /\ c \in Contexts /\ n \in Names /\ Round(p, c) \in Nat /\ o \in Nat
      /\ NextName(p, o, <<"collective">>) = RoundName(n, Round(p, c))
  BY <1>0, NextRound
<1>2. PICK k : k = Round(p, c)
  OBVIOUS
<1>3. kind \in Kinds
  BY DEF Kinds
<1>4. /\ call[p].op = "idle" /\ Size(c) > 1 /\ Begin(p, c, kind) /\ Advance(p, o, <<"collective">>)
      /\ call' = [call EXCEPT ![p] = r]
      /\ given' = given \cup {[group |-> c, round |-> k + 1, process |-> p, value |-> value]}
      /\ UNCHANGED <<store, contexts, taken, cast>>
  BY <1>0, <1>2 DEF StartGather, Gave
<1>5. given \subseteq given'
  BY <1>4
<1>6. /\ Extends /\ begun' \in [Processes -> Tallies] /\ agreed' \in Agreements
      /\ counters' \in [Processes -> TalliesOf(Channels)]
      /\ CountersInStep' /\ BegunIsAgreed' /\ ContextsAreMade' /\ SameNameSameContext' /\ StoreIsGiven'
      /\ NamesAreSpent' /\ NothingBeforehand'
      /\ \A q \in Processes : q # p => begun'[q] = begun[q]
      /\ Count(begun'[p], n) = k + 1 /\ Agreed(n)'[k + 1] = kind
      /\ \A d \in given \cup taken : d.round <= Count(begun'[d.process], d.group.prefix)
      /\ \A d \in given : KindOf(d.group, d.round)' = <<"split">> => d.value \in SplitValues
  BY <1>0, <1>2, <1>3, <1>4, <1>5, Starts
<1>7. r \in Gatherings
  <2>1. r.key \in Names
    <3>1. RoundName(n, k) \in Names /\ "all_gather" \in Keywords
      BY <1>1, <1>2, RoundWords DEF Keywords
    <3> QED BY <1>1, <1>2, <3>1, NameTypes
  <2> QED BY <1>1, <2>1 DEF Gatherings
<1>8. TypeOK'
  <2>1. given' \subseteq Gifts
    BY <1>1, <1>2, <1>4 DEF IInv, TypeOK, Gifts
  <2>2. call' \in [Processes -> Calls]
    BY <1>4, <1>7 DEF IInv, TypeOK, Calls
  <2> QED BY <1>4, <1>6, <2>1, <2>2, SameWorkload DEF IInv, TypeOK
<1>9. HistoryIsBegun'
  <2>1. k + 1 <= Count(begun'[p], n)
    BY <1>1, <1>2, <1>6
  <2>2. \A d \in given' : d.round <= Count(begun'[d.process], d.group.prefix)
    BY <1>4, <1>6, <2>1
  <2>3. \A d \in given' : KindOf(d.group, d.round)' = <<"split">> => d.value \in SplitValues
    BY <1>4, <1>6 DEF KindOf
  <2> QED BY <1>4, <1>6, <2>2, <2>3, SameWorkload DEF HistoryIsBegun
<1>10. CallFits(p)'
  <2>1. call'[p] = r
    BY <1>4 DEF IInv, TypeOK
  <2>2. Round(p, c)' = k + 1
    BY <1>6 DEF Round
  <2>3. GatheringIsGiven(p)'
    <3>1. c \in Held(p)' /\ k + 1 # 0 /\ (k + 1) - 1 = k /\ KindOf(c, k + 1)' = kind
      <4>1. c \in Held(p)'
        BY <1>1, <1>4, SameHeld
      <4>2. KindOf(c, k + 1)' = kind
        BY <1>6 DEF KindOf
      <4> QED BY <1>1, <1>2, <4>1, <4>2
    <3>2. \A d \in taken' : ~(d.group = c /\ d.round = k + 1 /\ d.process = p)
      <4> SUFFICES ASSUME NEW d \in taken, d.group = c, d.round = k + 1, d.process = p PROVE FALSE
        BY <1>4
      <4>1. d.round <= k
        BY <1>2 DEF IInv, HistoryIsBegun, Round
      <4> QED BY <1>1, <1>2, <4>1
    <3>3. [group |-> c, round |-> k + 1, process |-> p, value |-> value] \in given' /\ Len(<< >>) < Size(c)
      BY <1>1, <1>4, LenProperties DEF Size
    <3>4. RoundName(n, (k + 1) - 1) \o <<"all_gather">> = r.key
      BY <1>1, <1>2, <3>1
    <3>5. /\ (call[p].ctx)' = c /\ (call[p].kind)' = kind /\ (call[p].key)' = r.key
          /\ (call[p].value)' = value /\ (call[p].got)' = << >>
      BY <2>1
    <3> HIDE DEF r
    <3> QED BY <2>2, <3>1, <3>2, <3>3, <3>4, <3>5 DEF GatheringIsGiven, KindOf, Round
  <2>4. BroadcastHasName(p)' /\ SplitHasGathered(p)'
    BY <2>1 DEF BroadcastHasName, SplitHasGathered
  <2>5. CallHasObject(p)'
    BY <1>0, <1>4, <2>1 DEF CallHasObject
  <2> QED BY <2>3, <2>4, <2>5 DEF CallFits
<1>11. CallsFit'
  <2>1. \A q \in Processes : q # p => CallFits(q)'
    <3> SUFFICES ASSUME NEW q \in Processes, q # p PROVE CallFits(q)'
      OBVIOUS
    <3>1. call'[q] = call[q] /\ begun'[q] = begun[q] /\ \A d \in taken' : d \in taken \/ d.process # q
      BY <1>4, <1>6 DEF IInv, TypeOK
    <3> QED BY <1>6, <3>1, OthersGoOn
  <2> QED BY <1>10, <2>1, SameWorkload DEF CallsFit
<1> QED BY <1>6, <1>8, <1>9, <1>11 DEF IInv
LEMMA StartBroadcastKeeps ==
  ASSUME NumeralsDiffer, IInv, workload' = workload, NEW p \in Processes, NEW o \in DOMAIN contexts[p],
         NEW root \in Nat, NEW value \in Values, StartBroadcast(p, o, root, value)
  PROVE  IInv'
<1>0. PICK c : c = contexts[p][o]
  OBVIOUS
<1> DEFINE n == c.prefix
           kind == <<"broadcast", root>>
           r == [op |-> IF RankIn(p, c) = root THEN "broadcast_put" ELSE "broadcast_get",
                 kind |-> kind, ctx |-> c,
                 key |-> NextName(p, o, <<"collective">>) \o <<"broadcast", Numeral(root)>>, value |-> value]
<1>1. /\ c \in Held(p) /\ c \in Contexts /\ n \in Names /\ Round(p, c) \in Nat /\ o \in Nat
      /\ NextName(p, o, <<"collective">>) = RoundName(n, Round(p, c))
  BY <1>0, NextRound
<1>2. PICK k : k = Round(p, c)
  OBVIOUS
<1>3. kind \in Kinds
  BY DEF Kinds
<1>4. /\ call[p].op = "idle" /\ Begin(p, c, kind) /\ Advance(p, o, <<"collective">>)
      /\ call' = [call EXCEPT ![p] = r]
      /\ UNCHANGED <<store, contexts, given, taken, cast>>
  BY <1>0 DEF StartBroadcast, history
<1>5. given \subseteq given'
  BY <1>4
<1>6. /\ Extends /\ begun' \in [Processes -> Tallies] /\ agreed' \in Agreements
      /\ counters' \in [Processes -> TalliesOf(Channels)]
      /\ CountersInStep' /\ BegunIsAgreed' /\ ContextsAreMade' /\ SameNameSameContext' /\ StoreIsGiven'
      /\ NamesAreSpent' /\ NothingBeforehand'
      /\ \A q \in Processes : q # p => begun'[q] = begun[q]
      /\ Count(begun'[p], n) = k + 1
      /\ \A d \in given \cup taken : d.round <= Count(begun'[d.process], d.group.prefix)
      /\ \A d \in given : KindOf(d.group, d.round)' = <<"split">> => d.value \in SplitValues
  BY <1>0, <1>2, <1>3, <1>4, <1>5, Starts
<1>7. r.key = BroadcastName(n, k, root) /\ r.key \in Names
  <2>1. r.key = BroadcastName(n, k, root)
    BY <1>1, <1>2 DEF BroadcastName
  <2>2. BroadcastName(n, k, root) = Word(RoundName(n, k), "broadcast", <<Numeral(root)>>) /\ RoundName(n, k) \in Names
    BY <1>1, <1>2, RoundWords
  <2>3. BroadcastName(n, k, root) \in Names
    BY <2>2, Words, NameTypes DEF Keywords
  <2> QED BY <2>1, <2>3
<1>8. r \in Broadcasts
  BY <1>1, <1>3, <1>7 DEF Broadcasts
<1>9. TypeOK'
  <2>1. call' \in [Processes -> Calls]
    BY <1>4, <1>8 DEF IInv, TypeOK, Calls
  <2> QED BY <1>4, <1>6, <2>1, SameWorkload DEF IInv, TypeOK
<1>10. HistoryIsBegun'
  BY <1>4, <1>6, SameWorkload DEF HistoryIsBegun
<1>11. CallFits(p)'
  <2>1. call'[p] = r /\ r.op \in {"broadcast_put", "broadcast_get"}
    BY <1>4 DEF IInv, TypeOK
  <2>2. Round(p, c)' = k + 1
    BY <1>6 DEF Round
  <2>3. BroadcastHasName(p)'
    <3>1. c \in Held(p)' /\ k + 1 # 0 /\ (k + 1) - 1 = k
      BY <1>1, <1>2, <1>4, SameHeld
    <3>2. r.ctx = c
      OBVIOUS
    <3> HIDE DEF r
    <3> QED BY <1>7, <2>1, <2>2, <3>1, <3>2 DEF BroadcastHasName, Round
  <2>4. GatheringIsGiven(p)' /\ SplitHasGathered(p)' /\ CallHasObject(p)'
    <3> HIDE DEF r
    <3> QED BY <2>1 DEF GatheringIsGiven, SplitHasGathered, CallHasObject
  <2> QED BY <2>3, <2>4 DEF CallFits
<1>12. CallsFit'
  <2>1. \A q \in Processes : q # p => CallFits(q)'
    <3> SUFFICES ASSUME NEW q \in Processes, q # p PROVE CallFits(q)'
      OBVIOUS
    <3>1. call'[q] = call[q] /\ begun'[q] = begun[q] /\ \A d \in taken' : d \in taken \/ d.process # q
      BY <1>4, <1>6 DEF IInv, TypeOK
    <3> QED BY <1>6, <3>1, OthersGoOn
  <2> QED BY <1>11, <2>1, SameWorkload DEF CallsFit
<1> QED BY <1>6, <1>9, <1>10, <1>12 DEF IInv

-----------------------------------------------------------------------------
(* Steps that go on with a collective.                                      *)

\* What remains to be shown of a step of p that leaves the contexts and the agreement alone.
LEMMA GoesOn ==
  ASSUME IInv, Settled, cast \subseteq cast', NEW p \in Processes,
         NEW r \in Calls, call' = [call EXCEPT ![p] = r], CallFits(p)',
         \A d \in taken' : \/ d \in taken
                           \/ /\ d \in Takings /\ d.round <= Count(begun[d.process], d.group.prefix)
                              /\ d.process = p,
         StoreIsGiven'
  PROVE  IInv'
<1>1. call' \in [Processes -> Calls]
  BY DEF IInv, TypeOK
<1>2. /\ TypeOK' /\ ContextsAreMade' /\ SameNameSameContext' /\ CountersInStep'
      /\ NamesAreSpent' /\ NothingBeforehand' /\ BegunIsAgreed' /\ HistoryIsBegun'
  BY <1>1, SettledKeeps
<1>3. Extends
  BY SettledExtends DEF IInv
<1>4. CallsFit'
  <2>1. \A q \in Processes : q # p => CallFits(q)'
    <3> SUFFICES ASSUME NEW q \in Processes, q # p PROVE CallFits(q)'
      OBVIOUS
    <3>1. call'[q] = call[q] /\ begun'[q] = begun[q] /\ \A d \in taken' : d \in taken \/ d.process # q
      BY DEF IInv, TypeOK, Settled
    <3> QED BY <1>3, <3>1, OthersGoOn
  <2> QED BY <2>1, SameWorkload DEF CallsFit, Settled
<1> QED BY <1>2, <1>4 DEF IInv

\* A process that is done, or gives up.
LEMMA EndsKeeps ==
  ASSUME IInv, Settled, UNCHANGED <<store, taken, cast>>, NEW p \in Processes, call' = [call EXCEPT ![p] = Idle]
  PROVE  IInv'
<1>1. Idle \in Calls
  BY DEF Calls
<1>2. CallFits(p)'
  <2>1. call'[p] = Idle
    BY DEF IInv, TypeOK
  <2> QED BY <2>1 DEF CallFits, GatheringIsGiven, BroadcastHasName, SplitHasGathered, CallHasObject, Idle
<1>3. StoreIsGiven'
  BY SettledExtends, StoreStays DEF IInv
<1> QED BY <1>1, <1>2, <1>3, GoesOn

LEMMA SplitAloneKeeps ==
  ASSUME IInv, workload' = workload, NEW p \in Processes, NEW o \in DOMAIN contexts[p], NEW value \in SplitValues,
         SplitAlone(p, o, value)
  PROVE  IInv'
<1>0. PICK c : c = contexts[p][o]
  OBVIOUS
<1> DEFINE r == [op |-> "split", kind |-> <<"split">>, obj |-> o, ctx |-> c, value |-> value, got |-> <<value>>]
<1>1. /\ Size(c) = 1 /\ call' = [call EXCEPT ![p] = r] /\ Settled
      /\ UNCHANGED <<store, taken, cast>>
  BY <1>0 DEF SplitAlone, Settled, history
<1>2. r \in Calls
  <2>1. c \in Contexts /\ o \in Nat /\ value \in Values
    BY <1>0, NextRound DEF Values
  <2> QED BY <2>1 DEF Calls, SplitsAlone
<1>3. CallFits(p)'
  <2>1. call'[p] = r
    BY <1>1 DEF IInv, TypeOK
  <2>2. c \in Held(p)' /\ <<value>> \in Seq(SplitValues) /\ Len(<<value>>) = Size(c) /\ SplitValues' = SplitValues
    <3>1. c \in Held(p)
      BY <1>0, NextRound
    <3> QED BY <1>1, <3>1, SameWorkload, SameHeld DEF Settled
  <2>3. contexts' = contexts
    BY <1>1 DEF Settled
  <2> QED BY <1>0, <2>1, <2>2, <2>3 DEF CallFits, GatheringIsGiven, BroadcastHasName, SplitHasGathered, CallHasObject, Size
<1>4. StoreIsGiven'
  BY <1>1, SettledExtends, StoreStays DEF IInv
<1> QED BY <1>1, <1>2, <1>3, <1>4, GoesOn
\* A gathering under way, said of its call, its context and its round.
Gathers(p, r, c, k) ==
  /\ r \in Gatherings /\ c \in Held(p) /\ c \in Contexts /\ c.prefix \in Names
  /\ k \in Nat \ {0} /\ k - 1 \in Nat /\ k <= Count(begun[p], c.prefix) /\ KindOf(c, k) = r.kind
  /\ \A i : GatherKey(p, i) = GatherName(c.prefix, k - 1, i)
  /\ r.key = RoundName(c.prefix, k - 1) \o <<"all_gather">>
  /\ [group |-> c, round |-> k, process |-> p, value |-> r.value] \in given
  /\ Len(r.got) < Size(c) /\ r.got \in Seq(Values) /\ Len(r.got) \in Nat /\ Size(c) \in Nat
  /\ \A i \in DOMAIN r.got : GivenBy(c, k, i, r.got[i])
  /\ \A d \in taken : ~(d.group = c /\ d.round = k /\ d.process = p)

LEMMA GatheringState ==
  ASSUME IInv, NEW p \in Processes, call[p].op \in {"gather_put", "gather_get"}
  PROVE  Gathers(p, call[p], call[p].ctx, Round(p, call[p].ctx))
<1>0. PICK r, c, k : r = call[p] /\ c = r.ctx /\ k = Round(p, c) /\ r.op \in {"gather_put", "gather_get"}
  OBVIOUS
<1>1. /\ c \in Held(p) /\ k # 0 /\ KindOf(c, k) = r.kind
      /\ r.key = RoundName(c.prefix, k - 1) \o <<"all_gather">>
      /\ [group |-> c, round |-> k, process |-> p, value |-> r.value] \in given
      /\ Len(r.got) < Size(c)
      /\ \A i \in DOMAIN r.got : GivenBy(c, k, i, r.got[i])
      /\ \A d \in taken : ~(d.group = c /\ d.round = k /\ d.process = p)
  BY <1>0 DEF IInv, CallsFit, CallFits, GatheringIsGiven
<1>2. r \in Gatherings
  BY <1>0, CallTypes DEF IInv, TypeOK
<1>3. c \in Contexts /\ c.prefix \in Names /\ k \in Nat
  BY <1>0, <1>1, HeldRound
<1>4. k \in Nat \ {0} /\ k - 1 \in Nat /\ k <= Count(begun[p], c.prefix)
  BY <1>0, <1>1, <1>3 DEF Round
<1>5. \A i : GatherKey(p, i) = GatherName(c.prefix, k - 1, i)
  BY <1>0, <1>1 DEF GatherKey, GatherName
<1>6. r.got \in Seq(Values) /\ Len(r.got) \in Nat
  BY <1>2, LenProperties DEF Gatherings
<1>7. Size(c) \in Nat
  BY <1>3, LenProperties DEF Size, Contexts
<1>8. Gathers(p, r, c, k)
  BY <1>1, <1>2, <1>3, <1>4, <1>5, <1>6, <1>7 DEF Gathers
<1> QED BY <1>0, <1>8

LEMMA PutOwnKeeps ==
  ASSUME IInv, workload' = workload, NEW p \in Processes, PutOwn(p)
  PROVE  IInv'
<1>1. PICK r : r = call[p]
  OBVIOUS
<1>2. PICK c : c = r.ctx
  OBVIOUS
<1>3. PICK k : k = Round(p, c)
  OBVIOUS
<1> DEFINE s == [r EXCEPT !.op = "gather_get"]
<1>4. r.op = "gather_put" /\ Put(GatherKey(p, RankIn(p, c)), r.value) /\ call' = [call EXCEPT ![p] = s]
      /\ Settled /\ UNCHANGED <<taken, cast>>
  BY <1>1, <1>2 DEF PutOwn, Settled, history
<1>5. /\ r \in Gatherings /\ c \in Held(p) /\ k \in Nat \ {0}
      /\ \A i : GatherKey(p, i) = GatherName(c.prefix, k - 1, i)
      /\ [group |-> c, round |-> k, process |-> p, value |-> r.value] \in given
      /\ Gathers(p, r, c, k)
  <2>1. Gathers(p, r, c, k)
    BY <1>1, <1>2, <1>3, <1>4, GatheringState
  <2> QED BY <2>1 DEF Gathers
<1>6. s \in Calls
  BY <1>5 DEF Calls, Gatherings
<1>7. PICK i \in 1 .. Size(c) : RankIn(p, c) = i - 1 /\ c.members[i] = p
  BY <1>5 DEF IInv, ContextsAreMade, Member, RankIn
<1>8. Extends
  BY <1>4, SettledExtends DEF IInv
<1>9. StoreIsGiven'
  <2>1. c \in Held(p)' /\ [group |-> c, round |-> k, process |-> c.members[i], value |-> r.value] \in given'
    BY <1>4, <1>5, <1>7, SameHeld DEF Settled
  <2>2. Put(GatherName(c.prefix, k - 1, i - 1), r.value)
    BY <1>4, <1>5, <1>7
  <2> QED BY <1>5, <1>8, <2>1, <2>2, StorePuts DEF IInv
<1>10. CallFits(p)'
  <2>1. call'[p] = s
    BY <1>4 DEF IInv, TypeOK
  <2>2. s.op = "gather_get" /\ s.ctx = r.ctx /\ s.kind = r.kind /\ s.key = r.key /\ s.value = r.value /\ s.got = r.got /\ s.obj = r.obj
    BY <1>5 DEF Gatherings
  <2> HIDE DEF s
  <2>4. GatheringIsGiven(p)'
    <3>1. /\ c \in Held(p) /\ k # 0 /\ KindOf(c, k) = r.kind
          /\ r.key = RoundName(c.prefix, k - 1) \o <<"all_gather">>
          /\ [group |-> c, round |-> k, process |-> p, value |-> r.value] \in given
          /\ Len(r.got) < Size(c)
          /\ \A j \in DOMAIN r.got : [group |-> c, round |-> k, process |-> c.members[j], value |-> r.got[j]] \in given
          /\ \A d \in taken : ~(d.group = c /\ d.round = k /\ d.process = p)
      BY <1>5 DEF Gathers, GivenBy
    <3>2. Round(p, c)' = k /\ KindOf(c, k)' = KindOf(c, k) /\ Held(p)' = Held(p) /\ given' = given /\ taken' = taken
      BY <1>3, <1>4, SameHeld DEF Settled, Round, KindOf, Agreed
    <3>3. /\ (call[p].ctx)' = c /\ (call[p].kind)' = r.kind /\ (call[p].key)' = r.key
          /\ (call[p].value)' = r.value /\ (call[p].got)' = r.got
      BY <1>2, <2>1, <2>2
    <3> QED BY <3>1, <3>2, <3>3 DEF GatheringIsGiven, Round, KindOf, GivenBy
  <2>5. CallHasObject(p)'
    <3>1. r.obj \in DOMAIN contexts[p] /\ contexts[p][r.obj] = r.ctx /\ contexts' = contexts
      BY <1>1, <1>4 DEF IInv, CallsFit, CallFits, CallHasObject, Settled
    <3> QED BY <2>1, <2>2, <3>1 DEF CallHasObject
  <2> QED BY <2>1, <2>2, <2>4, <2>5 DEF CallFits, BroadcastHasName, SplitHasGathered
<1> QED BY <1>4, <1>6, <1>9, <1>10, GoesOn

\* What is under the key a gathering waits for was given to its round.
LEMMA ReadIsGiven ==
  ASSUME NumeralsDiffer, IInv, NEW p \in Processes, call[p].op = "gather_get",
         NEW c, c = call[p].ctx, NEW k, k = Round(p, c), NEW i \in Nat, GatherKey(p, i) \in DOMAIN store
  PROVE  i + 1 \in 1 .. Size(c) /\ GivenBy(c, k, i + 1, store[GatherKey(p, i)])
<1>1. /\ c \in Held(p) /\ c.prefix \in Names /\ k \in Nat \ {0} /\ k - 1 \in Nat
      /\ GatherKey(p, i) = GatherName(c.prefix, k - 1, i)
  <2>1. Gathers(p, call[p], c, k)
    BY GatheringState
  <2> QED BY <2>1 DEF Gathers
<1>2. PICK key : key = GatherKey(p, i)
  OBVIOUS
<1>3. PICK q \in Processes : \E d \in Held(q), m \in Nat \ {0} :
        \/ \E j \in 1 .. Size(d) : key = GatherName(d.prefix, m - 1, j - 1) /\ GivenBy(d, m, j, store[key])
        \/ \E r \in Nat : key = BroadcastName(d.prefix, m - 1, r)
  <2>1. PICK q \in Processes : \E d \in Held(q), m \in Nat \ {0} :
          \/ \E j \in 1 .. Size(d) : key = GatherName(d.prefix, m - 1, j - 1) /\ GivenBy(d, m, j, store[key])
          \/ \E r \in Nat : /\ key = BroadcastName(d.prefix, m - 1, r)
                            /\ [group |-> d, round |-> m, value |-> store[key]] \in cast
    BY <1>2 DEF IInv, StoreIsGiven
  <2>2. PICK d \in Held(q), m \in Nat \ {0} :
          \/ \E j \in 1 .. Size(d) : key = GatherName(d.prefix, m - 1, j - 1) /\ GivenBy(d, m, j, store[key])
          \/ \E r \in Nat : key = BroadcastName(d.prefix, m - 1, r)
    BY <2>1
  <2> QED BY <2>2
<1>4. PICK d \in Held(q), m \in Nat \ {0} :
        \/ \E j \in 1 .. Size(d) : key = GatherName(d.prefix, m - 1, j - 1) /\ GivenBy(d, m, j, store[key])
        \/ \E r \in Nat : key = BroadcastName(d.prefix, m - 1, r)
  BY <1>3
<1>5. d.prefix \in Names /\ m - 1 \in Nat /\ Size(d) \in Nat
  <2>1. d \in Contexts
    BY HeldOf DEF IInv
  <2> QED BY <2>1, LenProperties DEF Contexts, Size
<1>6. \A r \in Nat : key # BroadcastName(d.prefix, m - 1, r)
  BY <1>1, <1>2, <1>5, KeyNames
<1>7. PICK j \in 1 .. Size(d) : key = GatherName(d.prefix, m - 1, j - 1) /\ GivenBy(d, m, j, store[key])
  BY <1>4, <1>6
<1>8. d.prefix = c.prefix /\ m - 1 = k - 1 /\ j - 1 = i
  <2>1. j - 1 \in Nat
    BY <1>5
  <2>2. c.prefix \in Names /\ k - 1 \in Nat
    BY <1>1
  <2>3. GatherName(d.prefix, m - 1, j - 1) = GatherName(c.prefix, k - 1, i)
    BY <1>1, <1>2, <1>7
  <2>4. PICK x, y : x = d.prefix /\ y = c.prefix
    OBVIOUS
  <2>5. x \in Names /\ y \in Names /\ GatherName(x, m - 1, j - 1) = GatherName(y, k - 1, i)
    BY <1>5, <2>2, <2>3, <2>4
  <2>6. x = y /\ m - 1 = k - 1 /\ j - 1 = i
    BY <1>5, <2>1, <2>2, <2>5, KeyNames
  <2> QED BY <2>4, <2>6
<1>9. d = c
  BY <1>1, <1>8, HeldOnce DEF IInv
<1>10. m = k /\ j = i + 1
  BY <1>1, <1>5, <1>8
<1> QED BY <1>2, <1>7, <1>9, <1>10

LEMMA GivenTypes ==
  ASSUME IInv, NEW c, NEW k, NEW i, NEW v, GivenBy(c, k, i, v)
  PROVE  v \in Values /\ (KindOf(c, k) = <<"split">> => v \in SplitValues)
<1>1. PICK d \in given : d.group = c /\ d.round = k /\ d.value = v
  BY DEF GivenBy
<1>2. d.value \in Values
  BY DEF IInv, TypeOK, Gifts
<1>3. KindOf(d.group, d.round) = <<"split">> => d.value \in SplitValues
  BY DEF IInv, HistoryIsBegun
<1> QED BY <1>1, <1>2, <1>3

\* With the next value, a gathering still has what was given to its round, in order.
LEMMA GotIsGiven ==
  ASSUME NumeralsDiffer, IInv, NEW p \in Processes, GetNext(p), NEW c, c = call[p].ctx, NEW k, k = Round(p, c),
         NEW got, got = Append(call[p].got, store[GatherKey(p, Len(call[p].got))])
  PROVE  got \in Seq(Values) /\ Len(got) = Len(call[p].got) + 1 /\ \A i \in DOMAIN got : GivenBy(c, k, i, got[i])
<1>1. PICK r, n, v : r = call[p] /\ n = Len(r.got) /\ v = store[GatherKey(p, n)]
  OBVIOUS
<1>2. r.op = "gather_get" /\ GatherKey(p, n) \in DOMAIN store /\ got = Append(r.got, v)
  BY <1>1 DEF GetNext
<1>3. r.got \in Seq(Values) /\ n \in Nat /\ \A i \in DOMAIN r.got : GivenBy(c, k, i, r.got[i])
  <2>1. Gathers(p, r, c, k)
    BY <1>1, <1>2, GatheringState
  <2> QED BY <1>1, <2>1 DEF Gathers
<1>4. GivenBy(c, k, n + 1, v)
  BY <1>1, <1>2, <1>3, ReadIsGiven
<1>5. v \in Values
  BY <1>4, GivenTypes
<1>6. got \in Seq(Values) /\ Len(got) = n + 1 /\ got[n + 1] = v /\ \A i \in 1 .. n : got[i] = r.got[i]
  BY <1>1, <1>2, <1>3, <1>5, AppendProperties
<1>7. DOMAIN got = 1 .. n + 1 /\ DOMAIN r.got = 1 .. n
  BY <1>1, <1>3, <1>6, LenProperties
<1>8. \A i \in 1 .. n + 1 : i \in 1 .. n \/ i = n + 1
  BY <1>3
<1> QED BY <1>1, <1>3, <1>4, <1>6, <1>7, <1>8

LEMMA GetNextKeeps ==
  ASSUME NumeralsDiffer, IInv, workload' = workload, NEW p \in Processes, GetNext(p)
  PROVE  IInv'
<1>1. PICK r : r = call[p]
  OBVIOUS
<1>2. PICK c : c = r.ctx
  OBVIOUS
<1>3. PICK k : k = Round(p, c)
  OBVIOUS
<1>4. PICK n : n = Len(r.got)
  OBVIOUS
<1>5. PICK v : v = store[GatherKey(p, n)]
  OBVIOUS
<1>6. PICK got : got = Append(r.got, v)
  OBVIOUS
<1>7. /\ r.op = "gather_get" /\ GatherKey(p, n) \in DOMAIN store
      /\ IF Len(got) < Size(c)
         THEN call' = [call EXCEPT ![p].got = got] /\ taken' = taken
         ELSE /\ call' = [call EXCEPT ![p] = IF r.kind = <<"split">>
                                              THEN [@ EXCEPT !.op = "split", !.got = got] ELSE Idle]
              /\ taken' = taken \cup {[group |-> c, round |-> k, process |-> p, values |-> got]}
      /\ Settled /\ UNCHANGED <<store, cast>>
  BY <1>1, <1>2, <1>3, <1>4, <1>5, <1>6 DEF GetNext, Took, Settled
<1>8. /\ r \in Gatherings /\ c \in Held(p) /\ c \in Contexts /\ k \in Nat \ {0} /\ k <= Count(begun[p], c.prefix)
      /\ KindOf(c, k) = r.kind
      /\ n < Size(c) /\ r.got \in Seq(Values) /\ n \in Nat /\ Size(c) \in Nat
      /\ \A i \in DOMAIN r.got : GivenBy(c, k, i, r.got[i])
      /\ \A d \in taken : ~(d.group = c /\ d.round = k /\ d.process = p)
  <2>1. Gathers(p, r, c, k)
    BY <1>1, <1>2, <1>3, <1>7, GatheringState
  <2> QED BY <1>4, <2>1 DEF Gathers
<1>10. got \in Seq(Values) /\ Len(got) = n + 1 /\ \A i \in DOMAIN got : GivenBy(c, k, i, got[i])
  BY <1>1, <1>2, <1>3, <1>4, <1>5, <1>6, GotIsGiven
<1>11. Extends /\ StoreIsGiven'
  BY <1>7, SettledExtends, StoreStays DEF IInv
<1>12. CASE Len(got) < Size(c)
  <2> DEFINE s == [r EXCEPT !.got = got]
  <2>1. call' = [call EXCEPT ![p] = s] /\ taken' = taken
    BY <1>1, <1>7, <1>12
  <2>2. s \in Calls
    BY <1>8, <1>10 DEF Calls, Gatherings
  <2>3. CallFits(p)'
    <3>1. call'[p] = s
      BY <2>1 DEF IInv, TypeOK
    <3>2. s.op = r.op /\ s.ctx = r.ctx /\ s.kind = r.kind /\ s.key = r.key /\ s.value = r.value /\ s.got = got /\ s.obj = r.obj
      BY <1>8 DEF Gatherings
    <3>3. GatheringIsGiven(p)
      BY DEF IInv, CallsFit, CallFits
    <3> HIDE DEF s
    <3>4. GatheringIsGiven(p)'
      <4>1. r.op = "gather_get"
        BY <1>7
      <4>2. /\ RoundName(c.prefix, k - 1) \o <<"all_gather">> = r.key
            /\ [group |-> c, round |-> k, process |-> p, value |-> r.value] \in given
        BY <1>1, <1>2, <1>3, <3>3, <4>1 DEF GatheringIsGiven
      <4>3. contexts' = contexts /\ begun' = begun /\ agreed' = agreed /\ given' = given /\ taken' = taken
        BY <1>7, <2>1 DEF Settled
      <4>4. Round(p, c)' = k
        BY <1>3, <4>3 DEF Round
      <4>5. c \in Held(p)' /\ k # 0 /\ KindOf(c, k)' = r.kind
        BY <1>8, <4>3, SameHeld DEF KindOf, Agreed
      <4>6. /\ [group |-> c, round |-> k, process |-> p, value |-> r.value] \in given'
            /\ \A i \in DOMAIN got : GivenBy(c, k, i, got[i])'
            /\ \A d \in taken' : ~(d.group = c /\ d.round = k /\ d.process = p)
        BY <1>8, <1>10, <4>2, <4>3 DEF GivenBy
      <4>7. /\ (call[p].ctx)' = c /\ (call[p].kind)' = r.kind /\ (call[p].key)' = r.key
            /\ (call[p].value)' = r.value /\ (call[p].got)' = got
        BY <1>2, <3>1, <3>2
      <4> QED BY <1>12, <4>2, <4>4, <4>5, <4>6, <4>7 DEF GatheringIsGiven, KindOf, Round, GivenBy
    <3>5. CallHasObject(p)'
      <4>1. r.obj \in DOMAIN contexts[p] /\ contexts[p][r.obj] = r.ctx /\ contexts' = contexts
        BY <1>1, <1>7 DEF IInv, CallsFit, CallFits, CallHasObject, Settled
      <4> QED BY <3>1, <3>2, <4>1 DEF CallHasObject
    <3> QED BY <1>7, <3>1, <3>2, <3>4, <3>5 DEF CallFits, BroadcastHasName, SplitHasGathered
  <2> QED BY <1>7, <1>11, <2>1, <2>2, <2>3, GoesOn
<1>13. CASE ~(Len(got) < Size(c))
  <2> DEFINE e == [group |-> c, round |-> k, process |-> p, values |-> got]
  <2>1. Len(got) = Size(c)
    BY <1>8, <1>10, <1>13
  <2>2. taken' = taken \cup {e} /\ e \in Takings /\ e.round <= Count(begun[e.process], e.group.prefix) /\ e.process = p
    BY <1>7, <1>8, <1>10, <1>13 DEF Takings
  <2>3. \A d \in taken' : \/ d \in taken
                          \/ /\ d \in Takings /\ d.round <= Count(begun[d.process], d.group.prefix)
                             /\ d.process = p
    <3> HIDE DEF e
    <3> QED BY <2>2
  <2>4. CASE r.kind = <<"split">>
    <3> DEFINE s == [r EXCEPT !.op = "split", !.got = got]
    <3>1. call' = [call EXCEPT ![p] = s]
      BY <1>1, <1>7, <1>13, <2>4
    <3>2. s \in Calls /\ s.op = "split" /\ s.ctx = c /\ s.got = got /\ s.value = r.value /\ s.obj = r.obj
      BY <1>2, <1>8, <1>10 DEF Calls, Gatherings
    <3>3. got \in Seq(SplitValues) /\ r.value \in SplitValues
      <4>1. \A i \in DOMAIN got : got[i] \in SplitValues
        BY <1>8, <1>10, <2>4, GivenTypes
      <4>2. GivenBy(c, k, CHOOSE i \in 1 .. Size(c) : c.members[i] = p, r.value)
        <5>1. \E i \in 1 .. Size(c) : c.members[i] = p
          BY <1>8 DEF IInv, ContextsAreMade, Member
        <5>2. [group |-> c, round |-> k, process |-> p, value |-> r.value] \in given
          BY <1>1, <1>2, <1>3, <1>7, GatheringState DEF Gathers
        <5> QED BY <5>1, <5>2 DEF GivenBy
      <4>3. r.value \in SplitValues
        BY <1>8, <2>4, <4>2, GivenTypes
      <4>4. got \in Seq(SplitValues)
        BY <1>10, <4>1, LenProperties
      <4> QED BY <4>3, <4>4
    <3>4. CallFits(p)'
      <4>1. call'[p] = s
        BY <3>1 DEF IInv, TypeOK
      <4>2. c \in Held(p)' /\ SplitValues' = SplitValues
        BY <1>7, <1>8, SameWorkload, SameHeld DEF Settled
      <4>3. r.obj \in DOMAIN contexts[p] /\ contexts[p][r.obj] = r.ctx /\ contexts' = contexts
        BY <1>1, <1>7 DEF IInv, CallsFit, CallFits, CallHasObject, Settled
      <4> HIDE DEF s
      <4> QED BY <1>2, <2>1, <3>2, <3>3, <4>1, <4>2, <4>3 DEF CallFits, GatheringIsGiven, BroadcastHasName, SplitHasGathered, CallHasObject
    <3> HIDE DEF s
    <3> QED BY <1>7, <1>11, <2>3, <3>1, <3>2, <3>4, GoesOn
  <2>5. CASE r.kind # <<"split">>
    <3>1. call' = [call EXCEPT ![p] = Idle] /\ Idle \in Calls
      BY <1>1, <1>7, <1>13, <2>5 DEF Calls
    <3>2. CallFits(p)'
      <4>1. call'[p] = Idle
        BY <3>1 DEF IInv, TypeOK
      <4> QED BY <4>1 DEF CallFits, GatheringIsGiven, BroadcastHasName, SplitHasGathered, CallHasObject, Idle
    <3> QED BY <1>7, <1>11, <2>3, <3>1, <3>2, GoesOn
  <2> QED BY <2>4, <2>5
<1> QED BY <1>12, <1>13
LEMMA PutBroadcastKeeps ==
  ASSUME IInv, workload' = workload, NEW p \in Processes, PutBroadcast(p)
  PROVE  IInv'
<1>1. PICK c, k : c = call[p].ctx /\ k = Round(p, c)
  OBVIOUS
<1> DEFINE e == [group |-> c, round |-> k, value |-> call[p].value]
<1>2. /\ call[p].op = "broadcast_put" /\ Put(call[p].key, call[p].value) /\ call' = [call EXCEPT ![p] = Idle]
      /\ cast' = cast \cup {e} /\ Settled /\ taken' = taken
  BY <1>1 DEF PutBroadcast, Cast, Settled
<1>3. BroadcastHasName(p)
  BY DEF IInv, CallsFit, CallFits
<1>4. c \in Held(p) /\ k # 0 /\ \E n \in Nat : call[p].key = BroadcastName(c.prefix, k - 1, n)
  BY <1>1, <1>2, <1>3 DEF BroadcastHasName
<1>5. k \in Nat \ {0}
  BY <1>1, <1>4, HeldRound
<1>6. Idle \in Calls
  BY DEF Calls
<1>7. cast \subseteq cast' /\ Extends
  BY <1>2, SettledExtends DEF IInv
<1>8. StoreIsGiven'
  <2>1. c \in Held(p)' /\ e \in cast'
    BY <1>2, <1>4, SameHeld DEF Settled
  <2>2. PICK key, v : key = call[p].key /\ v = call[p].value
    OBVIOUS
  <2>3. Put(key, v) /\ [group |-> c, round |-> k, value |-> v] \in cast' /\ \E n \in Nat : key = BroadcastName(c.prefix, k - 1, n)
    BY <1>2, <1>4, <2>1, <2>2
  <2> HIDE DEF e
  <2> QED BY <1>5, <1>7, <2>1, <2>3, StorePuts DEF IInv
<1>9. CallFits(p)'
  <2>1. call'[p] = Idle
    BY <1>2 DEF IInv, TypeOK
  <2> QED BY <2>1 DEF CallFits, GatheringIsGiven, BroadcastHasName, SplitHasGathered, CallHasObject, Idle
<1> QED BY <1>2, <1>6, <1>7, <1>8, <1>9, GoesOn

-----------------------------------------------------------------------------
(* Steps that make contexts.                                                *)

LEMMA ChannelMakes ==
  ASSUME NumeralsDiffer, IInv, workload' = workload, NEW p \in Processes,
         NEW o \in DOMAIN contexts[p], NEW c, c = contexts[p][o], NEW parts \in ContextChannels,
         NEW e \in Contexts, e.prefix = NextName(p, o, parts), Made(c, e), Member(p, e),
         contexts' = [contexts EXCEPT ![p] = Append(@, e)],
         Advance(p, o, parts), UNCHANGED <<store, agreed, begun, given, taken, cast>>,
         NEW r \in Calls, r.op = "idle", call' = [call EXCEPT ![p] = r]
  PROVE  IInv'
<1>1. TypeOK /\ ContextsAreMade /\ SameNameSameContext /\ CountersInStep /\ NamesAreSpent /\ NothingBeforehand
  BY DEF IInv
<1>2. /\ ContextsAreMade' /\ SameNameSameContext' /\ NamesAreSpent'
      /\ \A d \in Held(p) : d.prefix # e.prefix
  BY <1>1, MakesContext
<1>3. /\ contexts' \in [Processes -> Seq(Contexts)]
      /\ \A q \in Processes : q # p => contexts'[q] = contexts[q] /\ Held(q)' = Held(q)
      /\ DOMAIN contexts'[p] = DOMAIN contexts[p] \cup {Len(contexts[p]) + 1}
      /\ Len(contexts[p]) + 1 \notin DOMAIN contexts[p]
      /\ contexts'[p][Len(contexts[p]) + 1] = e
      /\ \A i \in DOMAIN contexts[p] : contexts'[p][i] = contexts[p][i]
      /\ Held(p)' = Held(p) \cup {e}
  BY <1>1, Appends
<1>4. parts \in Names /\ parts # <<"collective">> /\ o \in Nat
  BY <1>1, ChannelTypes, HeldOf
<1>5. /\ counters' \in [Processes -> TalliesOf(Channels)]
      /\ \A q \in Processes : q # p => counters'[q] = counters[q]
      /\ \A y : Count(counters'[p], y) =
           IF y = <<o, parts>> THEN Count(counters[p], y) + 1 ELSE Count(counters[p], y)
  <2>1. TypeOK /\ parts \in Names /\ o \in Nat
    BY <1>1, <1>4
  <2> QED BY <2>1, Advances
<1>6. \A x : Agreed(x)' = Agreed(x)
  BY DEF Agreed
<1>7. Extends
  <2>1. \A q \in Processes : Held(q) \subseteq Held(q)'
    BY <1>3
  <2>2. \A q \in Processes : \A i \in DOMAIN contexts[q] : i \in DOMAIN contexts'[q] /\ contexts'[q][i] = contexts[q][i]
    BY <1>3
  <2> QED BY <1>1, <1>6, <2>1, <2>2, AgreedTypes DEF Extends
<1>8. call' \in [Processes -> Calls] /\ call'[p] = r /\ \A q \in Processes : q # p => call'[q] = call[q]
  BY <1>1 DEF TypeOK
<1>9. TypeOK'
  BY <1>1, <1>3, <1>5, <1>8, SameWorkload DEF TypeOK
<1>10. CountersInStep'
  <2> SUFFICES ASSUME NEW q \in Processes, NEW i \in DOMAIN contexts'[q]
               PROVE  Count(counters'[q], <<i, <<"collective">>>>) = Count(begun[q], contexts'[q][i].prefix)
    BY SameWorkload DEF CountersInStep
  <2>1. <<i, <<"collective">>>> # <<o, parts>>
    BY <1>4
  <2>2. Count(counters'[q], <<i, <<"collective">>>>) = Count(counters[q], <<i, <<"collective">>>>)
    BY <1>5, <2>1
  <2>3. CASE i \in DOMAIN contexts[q]
    BY <1>1, <1>3, <2>2, <2>3 DEF CountersInStep
  <2>4. CASE i \notin DOMAIN contexts[q]
    <3>1. q = p /\ contexts'[q][i] = e
      BY <1>3, <2>4
    <3>2. Count(counters[q], <<i, <<"collective">>>>) = 0
      BY <1>1, <2>4 DEF NothingBeforehand
    <3>3. Count(begun[q], e.prefix) = 0
      BY <1>1, <1>2, <3>1 DEF NothingBeforehand
    <3> QED BY <2>2, <3>1, <3>2, <3>3
  <2> QED BY <2>3, <2>4
<1>11. NothingBeforehand'
  <2>1. ASSUME NEW q \in Processes, NEW i, NEW more, Count(counters'[q], <<i, more>>) # 0 PROVE i \in DOMAIN contexts'[q]
    <3>1. Count(counters[q], <<i, more>>) # 0 \/ (q = p /\ <<i, more>> = <<o, parts>>)
      BY <1>5, <2>1
    <3>2. i \in DOMAIN contexts[q]
      BY <1>1, <3>1 DEF NothingBeforehand
    <3> QED BY <1>3, <3>2
  <2>2. ASSUME NEW q \in Processes, NEW x, Count(begun[q], x) # 0 PROVE \E d \in Held(q)' : d.prefix = x
    <3>1. \E d \in Held(q) : d.prefix = x
      BY <1>1, <2>2 DEF NothingBeforehand
    <3>2. Held(q) \subseteq Held(q)'
      BY <1>3
    <3> QED BY <3>1, <3>2
  <2> QED BY <2>1, <2>2, SameWorkload DEF NothingBeforehand
<1>12. BegunIsAgreed'
  BY <1>6, SameWorkload DEF IInv, BegunIsAgreed
<1>13. HistoryIsBegun'
  <2>1. \A g, k : KindOf(g, k)' = KindOf(g, k)
    BY <1>6 DEF KindOf
  <2> QED BY <2>1, SameWorkload DEF IInv, HistoryIsBegun
<1>14. CallsFit'
  <2>1. CallFits(p)'
    BY <1>8 DEF CallFits, GatheringIsGiven, BroadcastHasName, SplitHasGathered, CallHasObject
  <2>2. \A q \in Processes : q # p => CallFits(q)'
    BY <1>7, <1>8, OthersGoOn
  <2> QED BY <2>1, <2>2, SameWorkload DEF CallsFit
<1>15. StoreIsGiven'
  BY <1>7, StoreStays DEF IInv
<1> QED BY <1>2, <1>9, <1>10, <1>11, <1>12, <1>13, <1>14, <1>15 DEF IInv

\* Nothing happens to a process that is not in its group.
LEMMA StaysOut ==
  ASSUME IInv, UNCHANGED <<workload, counters, contexts, store, agreed, begun, given, taken, cast>>,
         NEW p \in Processes, NEW r \in Calls, r.op = "idle", call' = [call EXCEPT ![p] = r]
  PROVE  IInv'
<1>1. Settled
  BY DEF Settled
<1>2. CallFits(p)'
  <2>1. call'[p] = r
    BY DEF IInv, TypeOK
  <2> QED BY <2>1 DEF CallFits, GatheringIsGiven, BroadcastHasName, SplitHasGathered, CallHasObject
<1>3. StoreIsGiven'
  BY <1>1, SettledExtends, StoreStays DEF IInv
<1> QED BY <1>1, <1>2, <1>3, GoesOn

LEMMA SubContextKeeps ==
  ASSUME NumeralsDiffer, IInv, workload' = workload, NEW p \in Processes,
         NEW o \in DOMAIN contexts[p], NEW c, c = contexts[p][o],
         NEW ranks \in Seq(0 .. Size(c) - 1), SubContext(p, o, ranks),
         UNCHANGED <<store, agreed, begun, given, taken, cast>>,
         NEW r \in Calls, r.op = "idle", call' = [call EXCEPT ![p] = r]
  PROVE  IInv'
<1> DEFINE members == [i \in 1 .. Len(ranks) |-> c.members[ranks[i] + 1]]
           group == GroupChannel(ranks)
           e == [prefix |-> NextName(p, o, group), members |-> members]
<1>1. c \in Contexts /\ c.prefix \in Names /\ c.members \in Seq(Processes) /\ Size(c) \in Nat
  BY NextRound, LenProperties DEF Contexts, Size
<1>2. ranks \in Seq(Nat) /\ Len(ranks) \in Nat
  <2>1. 0 .. Size(c) - 1 \subseteq Nat
    BY <1>1
  <2> QED BY <2>1, SeqMonotonic, LenProperties
<1>3. members \in Seq(Processes) /\ Len(members) = Len(ranks)
  <2>1. \A i \in 1 .. Len(ranks) : c.members[ranks[i] + 1] \in Processes
    <3> SUFFICES ASSUME NEW i \in 1 .. Len(ranks) PROVE c.members[ranks[i] + 1] \in Processes
      OBVIOUS
    <3>1. ranks[i] \in 0 .. Size(c) - 1
      BY ElementOfSeq
    <3>2. ranks[i] + 1 \in 1 .. Len(c.members)
      BY <1>1, <3>1 DEF Size
    <3> QED BY <1>1, <3>2, ElementOfSeq
  <2> QED BY <1>2, <2>1, LenProperties
<1>4. group \in ContextChannels /\ group \in Names /\ o \in Nat
  <2>1. group \in ContextChannels
    BY <1>2 DEF ContextChannels
  <2> QED BY <2>1, ChannelTypes, NextRound
<1>5. PICK n \in Nat : n = Count(counters[p], <<o, group>>)
  <2>1. <<o, group>> \in Channels /\ counters[p] \in TalliesOf(Channels)
    BY <1>4 DEF IInv, TypeOK, Channels
  <2> QED BY <2>1, CountingOf
<1>6. NextName(p, o, group) = Channel(c, group) \o <<Numeral(n)>> /\ NextName(p, o, group) \in Names
  <2>1. NextName(p, o, group) = Channel(c, group) \o <<Numeral(n)>>
    BY <1>5 DEF NextName, Channel
  <2> HIDE DEF group
  <2>2. Channel(c, group) \in Names
    BY <1>1, <1>4, NameTypes DEF Channel
  <2> QED BY <2>1, <2>2, NameTypes
<1>7. e \in Contexts
  <2> HIDE DEF members
  <2> QED BY <1>3, <1>6 DEF Contexts
<1>8. Made(c, e)
  BY <1>6 DEF Made
<1>9. CASE \E i \in 1 .. Len(members) : members[i] = p
  <2>1. Advance(p, o, group) /\ MakeContext(p, NextName(p, o, group), members)
    BY <1>9 DEF SubContext
  <2>2. contexts' = [contexts EXCEPT ![p] = Append(@, e)] /\ e.prefix = NextName(p, o, group)
    BY <2>1 DEF MakeContext
  <2>3. Member(p, e)
    BY <1>9 DEF Member, Size
  <2> HIDE DEF e, group
  <2> QED BY <1>4, <1>7, <1>8, <2>1, <2>2, <2>3, ChannelMakes
<1>10. CASE ~\E i \in 1 .. Len(members) : members[i] = p
  <2>1. UNCHANGED <<counters, contexts>>
    BY <1>10 DEF SubContext
  <2> QED BY <2>1, StaysOut
<1> QED BY <1>9, <1>10

LEMMA DuplicateKeeps ==
  ASSUME NumeralsDiffer, IInv, workload' = workload, NEW p \in Processes, NEW o \in DOMAIN contexts[p],
         Duplicate(p, o)
  PROVE  IInv'
<1>0. PICK c : c = contexts[p][o]
  OBVIOUS
<1> DEFINE parts == <<"duplicate">>
           e == [prefix |-> NextName(p, o, parts), members |-> c.members]
<1>1. c \in Held(p) /\ c \in Contexts /\ c.prefix \in Names /\ c.members \in Seq(Processes) /\ o \in Nat
  BY <1>0, NextRound DEF Contexts
<1>2. parts \in ContextChannels /\ parts \in Names
  BY ChannelTypes DEF ContextChannels
<1>3. PICK n \in Nat : n = Count(counters[p], <<o, parts>>)
  <2>1. <<o, parts>> \in Channels /\ counters[p] \in TalliesOf(Channels)
    BY <1>1, <1>2 DEF IInv, TypeOK, Channels
  <2> QED BY <2>1, CountingOf
<1>4. NextName(p, o, parts) = Channel(c, parts) \o <<Numeral(n)>>
  BY <1>0, <1>3 DEF NextName, Channel
<1>5. NextName(p, o, parts) \in Names
  <2> HIDE DEF parts
  <2>1. Channel(c, parts) \in Names
    BY <1>1, <1>2, NameTypes DEF Channel
  <2> QED BY <1>4, <2>1, NameTypes
<1>6. e \in Contexts
  BY <1>1, <1>5 DEF Contexts
<1>7. Made(c, e)
  BY <1>4 DEF Made
<1>8. Member(p, e) /\ e.prefix = NextName(p, o, parts)
  BY <1>1 DEF IInv, ContextsAreMade, Member, Size
<1>9. /\ call[p].op = "idle" /\ Advance(p, o, parts) /\ contexts' = [contexts EXCEPT ![p] = Append(@, e)]
      /\ UNCHANGED <<store, call, agreed, begun, given, taken, cast>>
  BY <1>0 DEF Duplicate, MakeContext, history
<1>10. call[p] \in Calls /\ call' = [call EXCEPT ![p] = call[p]]
  BY <1>9 DEF IInv, TypeOK
<1> HIDE DEF e, parts
<1> QED BY <1>0, <1>2, <1>6, <1>7, <1>8, <1>9, <1>10, ChannelMakes

LEMMA CreateSubContextKeeps ==
  ASSUME NumeralsDiffer, IInv, workload' = workload, NEW p \in Processes, NEW o \in DOMAIN contexts[p],
         NEW ranks \in Groups, ToSet(ranks) \subseteq 0 .. Size(contexts[p][o]) - 1, CreateSubContext(p, o, ranks)
  PROVE  IInv'
<1>0. PICK c : c = contexts[p][o]
  OBVIOUS
<1>1. ranks \in Seq(Nat) /\ Len(ranks) \in Nat
  BY CollectivesAssumption, LenProperties
<1>2. ranks \in Seq(0 .. Size(c) - 1)
  <2>1. DOMAIN ranks = 1 .. Len(ranks) /\ ranks = [i \in 1 .. Len(ranks) |-> ranks[i]]
    BY <1>1, LenProperties
  <2>2. \A i \in 1 .. Len(ranks) : ranks[i] \in 0 .. Size(c) - 1
    BY <1>0, <2>1 DEF ToSet
  <2>3. ranks \in [1 .. Len(ranks) -> 0 .. Size(c) - 1]
    BY <2>1, <2>2
  <2>4. \A n \in Nat : \A S : [1 .. n -> S] \subseteq Seq(S)
    OBVIOUS
  <2> QED BY <1>1, <2>3, <2>4
<1>3. /\ call[p].op = "idle" /\ SubContext(p, o, ranks) /\ UNCHANGED <<store, call, agreed, begun, given, taken, cast>>
  BY DEF CreateSubContext, history
<1>4. call[p] \in Calls /\ call' = [call EXCEPT ![p] = call[p]]
  BY <1>3 DEF IInv, TypeOK
<1> QED BY <1>0, <1>2, <1>3, <1>4, SubContextKeeps

LEMMA FinishSplitKeeps ==
  ASSUME NumeralsDiffer, IInv, workload' = workload, NEW p \in Processes, FinishSplit(p)
  PROVE  IInv'
<1>1. PICK o, c, got, color : o = call[p].obj /\ c = call[p].ctx /\ got = call[p].got /\ color = call[p].value[1]
  OBVIOUS
<1>2. /\ call[p].op = "split" /\ call' = [call EXCEPT ![p] = Idle]
      /\ IF color = Undefined THEN UNCHANGED <<counters, contexts>> ELSE SubContext(p, o, SplitRanks(got, color))
      /\ UNCHANGED <<store, agreed, begun, given, taken, cast>>
  BY <1>1 DEF FinishSplit, history
<1>3. o \in DOMAIN contexts[p] /\ c = contexts[p][o] /\ Len(got) = Size(c) /\ got \in Seq(SplitValues)
  BY <1>1, <1>2 DEF IInv, CallsFit, CallFits, SplitHasGathered, CallHasObject
<1>4. SplitRanks(got, color) \in Seq(0 .. Size(c) - 1)
  <2>1. SplitRanks(got, color) \in Seq(0 .. Len(got) - 1)
    BY <1>3, SplitRanksAreRanks
  <2> QED BY <1>3, <2>1
<1>5. Idle \in Calls /\ Idle.op = "idle"
  BY DEF Calls, Idle
<1>6. CASE color = Undefined
  BY <1>2, <1>5, <1>6, StaysOut
<1>7. CASE color # Undefined
  <2>1. SubContext(p, o, SplitRanks(got, color))
    BY <1>2, <1>7
  <2>2. PICK ranks \in Seq(0 .. Size(c) - 1) : SubContext(p, o, ranks)
    BY <1>4, <2>1
  <2> QED BY <1>2, <1>3, <1>5, <2>2, SubContextKeeps
<1> QED BY <1>6, <1>7
-----------------------------------------------------------------------------
(* Theorems.                                                                *)

LEMMA NextKeeps == NumeralsDiffer /\ IInv /\ [Next]_vars => IInv'
<1> SUFFICES ASSUME NumeralsDiffer, IInv, [Next]_vars PROVE IInv'
  OBVIOUS
<1>1. CASE UNCHANGED vars
  <2>1. Settled /\ UNCHANGED <<call, store, taken, cast>>
    BY <1>1 DEF vars, Settled, history
  <2>2. Extends
    BY <2>1, SettledExtends DEF IInv
  <2>3. call' \in [Processes -> Calls]
    BY <2>1 DEF IInv, TypeOK
  <2>4. /\ TypeOK' /\ ContextsAreMade' /\ SameNameSameContext' /\ CountersInStep'
        /\ NamesAreSpent' /\ NothingBeforehand' /\ BegunIsAgreed' /\ HistoryIsBegun'
    BY <2>1, <2>3, SettledKeeps
  <2>5. \A q \in Processes : CallFits(q)'
    <3> SUFFICES ASSUME NEW q \in Processes PROVE CallFits(q)'
      OBVIOUS
    <3>1. call'[q] = call[q] /\ begun'[q] = begun[q] /\ \A d \in taken' : d \in taken
      BY <2>1 DEF Settled
    <3> QED BY <2>2, <3>1, OthersGoOn
  <2>6. CallsFit' /\ StoreIsGiven'
    BY <2>1, <2>2, <2>5, SameWorkload, StoreStays DEF IInv, CallsFit, Settled
  <2> QED BY <2>4, <2>6 DEF IInv
<1>2. CASE Next
  <2>1. workload' = workload
    BY <1>2 DEF Next
  <2>2. PICK p \in Processes : Continue(p) \/ TimesOut(p) \/ \E o \in DOMAIN contexts[p] : Start(p, o)
    BY <1>2 DEF Next
  <2>3. CASE Continue(p)
    <3>1. CASE PutOwn(p)
      BY <2>1, <3>1, PutOwnKeeps
    <3>2. CASE GetNext(p)
      BY <2>1, <3>2, GetNextKeeps
    <3>3. CASE PutBroadcast(p)
      BY <2>1, <3>3, PutBroadcastKeeps
    <3>4. CASE GetBroadcast(p) \/ CopyThrows(p)
      BY <2>1, <3>4, EndsKeeps DEF GetBroadcast, CopyThrows, Settled, history
    <3>5. CASE FinishSplit(p)
      BY <2>1, <3>5, FinishSplitKeeps
    <3> QED BY <2>3, <3>1, <3>2, <3>3, <3>4, <3>5 DEF Continue
  <2>4. CASE TimesOut(p)
    BY <2>1, <2>4, EndsKeeps DEF TimesOut, Settled, history
  <2>5. ASSUME NEW o \in DOMAIN contexts[p], Start(p, o) PROVE IInv'
    <3>1. \A color \in workload.colors, key \in SortKeys : <<color, key>> \in SplitValues
      BY DEF SplitValues
    <3>2. workload.values \subseteq Values /\ SplitValues \subseteq Values
      BY DEF Values
    <3>3. ASSUME NEW v \in workload.values, StartGather(p, o, <<"gather">>, v) PROVE IInv'
      BY <2>1, <3>2, <3>3, StartGatherKeeps
    <3>4. ASSUME NEW root \in 0 .. Size(contexts[p][o]) - 1, NEW v \in workload.values, StartBroadcast(p, o, root, v) PROVE IInv'
      <4>1. Size(contexts[p][o]) \in Nat
        <5>1. contexts[p][o] \in Contexts
          BY NextRound
        <5> QED BY <5>1, LenProperties DEF Size, Contexts
      <4>2. root \in Nat
        BY <4>1
      <4> QED BY <2>1, <3>2, <3>4, <4>2, StartBroadcastKeeps
    <3>5. CASE Duplicate(p, o)
      BY <2>1, <3>5, DuplicateKeeps
    <3>6. ASSUME NEW ranks \in Groups, ToSet(ranks) \subseteq 0 .. Size(contexts[p][o]) - 1, CreateSubContext(p, o, ranks) PROVE IInv'
      BY <2>1, <3>6, CreateSubContextKeeps
    <3>7. ASSUME NEW v \in SplitValues, StartGather(p, o, <<"split">>, v) PROVE IInv'
      BY <2>1, <3>2, <3>7, StartGatherKeeps
    <3>8. ASSUME NEW v \in SplitValues, SplitAlone(p, o, v) PROVE IInv'
      BY <2>1, <3>8, SplitAloneKeeps
    <3> QED BY <2>5, <3>1, <3>3, <3>4, <3>5, <3>6, <3>7, <3>8 DEF Start
  <2> QED BY <2>2, <2>3, <2>4, <2>5
<1> QED BY <1>1, <1>2

\* The invariant the theorems below rest on.
THEOREM Invariant == ASSUME NumeralsDiffer PROVE Spec => []IInv
<1>1. NumeralsDiffer /\ Init => IInv
  BY InitIInv
<1>2. NumeralsDiffer /\ IInv /\ [Next]_vars => IInv'
  BY NextKeeps
<1> QED BY <1>1, <1>2, PTL DEF Spec

\* Contexts of one name are one context, in all processes, whatever they were made of
\* and by: create_sub_context, duplicate and split cannot build a name twice.
THEOREM NamesKeepContextsApart == ASSUME NumeralsDiffer PROVE Spec => []SameNameSameContext
<1>1. IInv => SameNameSameContext
  BY DEF IInv
<1> QED BY <1>1, Invariant, PTL

\* broadcast: what a rank gets under the key of its round the root put in that round.
THEOREM BroadcastsReadTheRoot == ASSUME NumeralsDiffer PROVE Spec => []BroadcastFromRoot
<1>1. IInv => BroadcastFromRoot
  <2> SUFFICES ASSUME IInv, NEW p \in Processes, call[p].op = "broadcast_get", call[p].key \in DOMAIN store
               PROVE  Cast(p, store[call[p].key]) \in cast
    BY DEF BroadcastFromRoot
  <2>1. PICK c, k, key : c = call[p].ctx /\ k = Round(p, c) /\ key = call[p].key
    OBVIOUS
  <2>2. BroadcastHasName(p)
    BY DEF IInv, CallsFit, CallFits
  <2>3. PICK n \in Nat : c \in Held(p) /\ k # 0 /\ key = BroadcastName(c.prefix, k - 1, n)
    BY <2>1, <2>2 DEF BroadcastHasName
  <2>4. c.prefix \in Names /\ k \in Nat /\ k - 1 \in Nat
    <3>1. c.prefix \in Names /\ k \in Nat
      BY <2>1, <2>3, HeldRound
    <3> QED BY <2>3, <3>1
  <2>5. PICK q \in Processes : \E d \in Held(q), m \in Nat \ {0} :
          \/ \E i \in 1 .. Size(d) : key = GatherName(d.prefix, m - 1, i - 1)
          \/ \E r \in Nat : /\ key = BroadcastName(d.prefix, m - 1, r)
                            /\ [group |-> d, round |-> m, value |-> store[key]] \in cast
    BY <2>1 DEF IInv, StoreIsGiven
  <2>6. PICK d \in Held(q), m \in Nat \ {0} :
          \/ \E i \in 1 .. Size(d) : key = GatherName(d.prefix, m - 1, i - 1)
          \/ \E r \in Nat : /\ key = BroadcastName(d.prefix, m - 1, r)
                            /\ [group |-> d, round |-> m, value |-> store[key]] \in cast
    BY <2>5
  <2>7. d.prefix \in Names /\ m - 1 \in Nat /\ Size(d) \in Nat
    <3>1. d \in Contexts
      BY HeldOf DEF IInv
    <3> QED BY <3>1, LenProperties DEF Contexts, Size
  <2>8. \A i \in 1 .. Size(d) : key # GatherName(d.prefix, m - 1, i - 1)
    <3> SUFFICES ASSUME NEW i \in 1 .. Size(d) PROVE key # GatherName(d.prefix, m - 1, i - 1)
      OBVIOUS
    <3>1. i - 1 \in Nat
      BY <2>7
    <3> QED BY <2>3, <2>4, <2>7, <3>1, KeyNames
  <2>9. PICK r \in Nat : /\ key = BroadcastName(d.prefix, m - 1, r)
                         /\ [group |-> d, round |-> m, value |-> store[key]] \in cast
    BY <2>6, <2>8
  <2>10. d.prefix = c.prefix /\ m - 1 = k - 1
    BY <2>3, <2>4, <2>7, <2>9, KeyNames
  <2>11. d = c /\ m = k
    <3>1. d = c
      BY <2>3, <2>10, HeldOnce DEF IInv
    <3> QED BY <2>4, <2>7, <2>10, <3>1
  <2> QED BY <2>1, <2>9, <2>11 DEF Cast
<1> QED BY <1>1, Invariant, PTL

\* all_gather does what GatherRounds says: whoever takes the values of a round takes,
\* once, what each of its members gave to that round.
THEOREM GathersAreRounds == ASSUME NumeralsDiffer PROVE Spec => GathersRounds
<1>1. Init => Rounds!Init
  BY DEF Init, Rounds!Init
<1>2. ASSUME NEW p \in Processes, NEW o \in DOMAIN contexts[p], NEW kind, NEW value, IInv, StartGather(p, o, kind, value)
      PROVE  Rounds!Next
  <2>0. PICK c : c = contexts[p][o]
    OBVIOUS
  <2>1. PICK k : k = Round(p, c)
    OBVIOUS
  <2>2. PICK e : e = [group |-> c, round |-> k + 1, process |-> p, value |-> value]
    OBVIOUS
  <2>3. given' = given \cup {e} /\ taken' = taken
    BY <1>2, <2>0, <2>1, <2>2 DEF StartGather, Gave
  <2>4. k \in Nat
    BY <1>2, <2>0, <2>1, NextRound
  <2>5. \A d \in given : ~Rounds!Same(d, e)
    <3> SUFFICES ASSUME NEW d \in given, Rounds!Same(d, e) PROVE FALSE
      OBVIOUS
    <3>1. d.group = c /\ d.round = k + 1 /\ d.process = p
      BY <2>2 DEF Rounds!Same
    <3>2. d.round <= k
      BY <1>2, <2>1, <3>1 DEF IInv, HistoryIsBegun, Round
    <3> QED BY <2>4, <3>1, <3>2
  <2>6. e \notin given
    BY <2>5 DEF Rounds!Same
  <2>7. Rounds!Give(e) /\ e \in given'
    BY <2>3, <2>5, <2>6 DEF Rounds!Give
  <2> QED BY <2>7 DEF Rounds!Next
<1>3. ASSUME NEW p \in Processes, NumeralsDiffer, IInv, GetNext(p)
      PROVE  UNCHANGED <<given, taken>> \/ Rounds!Next
  <2>1. PICK r, c, k, got : /\ r = call[p] /\ c = r.ctx /\ k = Round(p, c)
                            /\ got = Append(r.got, store[GatherKey(p, Len(r.got))])
    OBVIOUS
  <2>2. PICK e : e = [group |-> c, round |-> k, process |-> p, values |-> got]
    OBVIOUS
  <2>3. given' = given /\ (IF Len(got) < Size(c) THEN taken' = taken ELSE taken' = taken \cup {e})
    BY <1>3, <2>1, <2>2 DEF GetNext, Took
  <2>4. CASE Len(got) < Size(c)
    BY <2>3, <2>4
  <2>5. CASE ~(Len(got) < Size(c))
    <3>1. got \in Seq(Values) /\ Len(got) = Len(r.got) + 1 /\ \A i \in DOMAIN got : GivenBy(c, k, i, got[i])
      BY <1>3, <2>1, GotIsGiven
    <3>2. /\ Len(r.got) < Size(c) /\ Len(r.got) \in Nat /\ Size(c) \in Nat /\ c \in Contexts
          /\ \A d \in taken : ~(d.group = c /\ d.round = k /\ d.process = p)
      <4>1. call[p].op \in {"gather_put", "gather_get"}
        BY <1>3 DEF GetNext
      <4>2. Gathers(p, r, c, k)
        BY <1>3, <2>1, <4>1, GatheringState
      <4> QED BY <4>2 DEF Gathers
    <3>3. Len(got) = Size(c)
      BY <2>5, <3>1, <3>2
    <3>4. DOMAIN e.values = DOMAIN e.group.members
      BY <2>2, <3>1, <3>2, <3>3, LenProperties DEF Contexts, Size
    <3>5. \A d \in taken : ~Rounds!Same(d, e)
      BY <2>2, <3>2 DEF Rounds!Same
    <3>6. e \notin taken
      BY <3>5 DEF Rounds!Same
    <3>7. \A i \in DOMAIN e.values :
            [group |-> e.group, round |-> e.round, process |-> e.group.members[i], value |-> e.values[i]] \in given
      BY <2>2, <3>1 DEF GivenBy
    <3>8. Rounds!Take(e) /\ e \in taken'
      BY <2>3, <2>5, <3>4, <3>5, <3>6, <3>7 DEF Rounds!Take
    <3> QED BY <3>8 DEF Rounds!Next
  <2> QED BY <2>4, <2>5
<1>4. NumeralsDiffer /\ IInv /\ [Next]_vars => [Rounds!Next]_<<given, taken>>
  <2> SUFFICES ASSUME NumeralsDiffer, IInv, [Next]_vars, ~UNCHANGED <<given, taken>> PROVE Rounds!Next
    OBVIOUS
  <2>1. PICK p \in Processes : Continue(p) \/ TimesOut(p) \/ \E o \in DOMAIN contexts[p] : Start(p, o)
    BY DEF Next, vars, history
  <2>2. CASE Continue(p) \/ TimesOut(p)
    <3>1. GetNext(p)
      BY <2>2 DEF Continue, TimesOut, PutOwn, PutBroadcast, GetBroadcast, CopyThrows, FinishSplit, history
    <3> QED BY <1>3, <3>1
  <2>3. ASSUME NEW o \in DOMAIN contexts[p], Start(p, o) PROVE Rounds!Next
    <3>1. \E kind, value : StartGather(p, o, kind, value)
      BY <2>3 DEF Start, StartBroadcast, Duplicate, CreateSubContext, SplitAlone, history
    <3> QED BY <1>2, <3>1
  <2> QED BY <2>1, <2>2, <2>3
<1> QED BY <1>1, <1>4, Invariant, PTL DEF Spec, GathersRounds, Rounds!Spec
=============================================================================
