-------------------------- MODULE UpdateEvents_proofs --------------------------
(***************************************************************************)
(* Proofs about UpdateEvents, for a queue of any length and any number of  *)
(* jobs, tools, questions, typed lines and troubles.                       *)
(*                                                                         *)
(* That a question is told rests on two things.  The tracker follows what  *)
(* a tool waits with (Following), and its event is in the queue until it   *)
(* is taken back (TheQuestion); and what the shell takes back was put away *)
(* by the person or waits no longer (Acks), although the shell decides by  *)
(* replies that may be old.                                                *)
(*                                                                         *)
(* Both that, and that nothing rings twice, come from one fact about every *)
(* event: once some reply does not show it any more, it does not wait, and *)
(* no later reply shows it (Goes).  It holds from the reply on that first  *)
(* listed the event (SeenGoes), from now on for whatever was told of       *)
(* (ToldGoes), and for what is marked as shown while a reply from before   *)
(* the mark is still to be read (MarkedGoes).  The end of a job is exempt  *)
(* that a full queue pushed out, or that is filed twice (Exempt).          *)
(***************************************************************************)
EXTENDS UpdateEvents, FiniteSetTheorems, SequenceTheorems,
        WellFoundedInduction, TLAPS

-----------------------------------------------------------------------------
(* Parts of a sequence *)

\* A set of numbers has a least one.
LEMMA LeastNumber ==
  ASSUME NEW T \in SUBSET Nat, T # {}
  PROVE  \E x \in T : \A y \in T : x <= y
<1>1. PICK x \in T : \A y \in T : ~ (<<y, x>> \in OpToRel(<, Nat))
  BY WFMin, NatLessThanWellFounded
<1>2. \A y \in T : ~ (y < x)
  BY <1>1, Zenon DEF OpToRel
<1> QED BY <1>2

\* Induction, over a set of numbers.
LEMMA SetInduction ==
  ASSUME NEW S, 0 \in S, \A n \in Nat : n \in S => n + 1 \in S
  PROVE  Nat \subseteq S
<1> DEFINE T == Nat \ S
<1> SUFFICES ASSUME T # {} PROVE FALSE
  OBVIOUS
<1>1. PICK x \in T : \A y \in T : x <= y
  <2>1. T \in SUBSET Nat
    OBVIOUS
  <2> HIDE DEF T
  <2> QED BY <2>1, LeastNumber
<1>2. x # 0 /\ x - 1 \in Nat
  OBVIOUS
<1>3. x - 1 \in S
  BY <1>1, <1>2
<1> QED BY <1>2, <1>3

\* The places of S up to i, and how many they are.
UpTo(S, i) == {k \in S : k <= i}

LEMMA UpToFinite ==
  ASSUME NEW n \in Nat, NEW S \in SUBSET (1 .. n)
  PROVE  /\ IsFiniteSet(S) /\ Cardinality(S) \in 0 .. n
         /\ UpTo(S, n) = S
         /\ \A i \in Nat : /\ IsFiniteSet(UpTo(S, i))
                           /\ Cardinality(UpTo(S, i)) \in 0 .. Cardinality(S)
<1> USE DEF UpTo
<1>1. IsFiniteSet(1 .. n) /\ Cardinality(1 .. n) = n
  BY FS_Interval
<1>2. IsFiniteSet(S) /\ Cardinality(S) <= n
  BY <1>1, FS_Subset
<1>3. Cardinality(S) \in Nat
  BY <1>2, FS_CardinalityType
<1>4. ASSUME NEW i \in Nat
      PROVE  /\ IsFiniteSet(UpTo(S, i))
             /\ Cardinality(UpTo(S, i)) \in 0 .. Cardinality(S)
  <2>1. UpTo(S, i) \in SUBSET S
    OBVIOUS
  <2>2. IsFiniteSet(UpTo(S, i)) /\ Cardinality(UpTo(S, i)) <= Cardinality(S)
    BY <1>2, <2>1, FS_Subset
  <2>3. Cardinality(UpTo(S, i)) \in Nat
    BY <2>2, FS_CardinalityType
  <2> QED BY <1>3, <2>2, <2>3
<1>5. UpTo(S, n) = S
  <2>1. \A k \in S : k <= n
    OBVIOUS
  <2> QED BY <2>1
<1> QED BY <1>2, <1>3, <1>4, <1>5

\* Every place of S has its number among them, and every number its place.
LEMMA PlacesCounted ==
  ASSUME NEW n \in Nat, NEW S \in SUBSET (1 .. n)
  PROVE  /\ \A i \in S : Cardinality(UpTo(S, i)) \in 1 .. Cardinality(S)
         /\ \A i, j \in S :
              Cardinality(UpTo(S, i)) = Cardinality(UpTo(S, j)) => i = j
         /\ \A m \in 1 .. Cardinality(S) :
              \E i \in S : Cardinality(UpTo(S, i)) = m
<1> DEFINE c(i) == Cardinality(UpTo(S, i))
<1>1. /\ Cardinality(S) \in Nat /\ c(n) = Cardinality(S)
      /\ \A i \in Nat : IsFiniteSet(UpTo(S, i)) /\ c(i) \in 0 .. Cardinality(S)
  <2>1. /\ Cardinality(S) \in 0 .. n /\ UpTo(S, n) = S
        /\ \A i \in Nat : /\ IsFiniteSet(UpTo(S, i))
                          /\ Cardinality(UpTo(S, i)) \in 0 .. Cardinality(S)
    BY UpToFinite, Zenon
  <2> QED BY <2>1
<1>2. \A i \in S : i \in Nat /\ 1 <= i /\ i <= n /\ i \in UpTo(S, i)
  BY DEF UpTo
<1>3. \A i \in S : c(i) \in 1 .. Cardinality(S)
  <2> TAKE i \in S
  <2>1. IsFiniteSet(UpTo(S, i)) /\ UpTo(S, i) # {} /\ c(i) \in 0 .. Cardinality(S)
    BY <1>1, <1>2
  <2>2. c(i) # 0
    BY <2>1, FS_EmptySet
  <2> QED BY <1>1, <2>1, <2>2
<1>4. ASSUME NEW i \in S, NEW j \in S, i < j PROVE c(i) # c(j)
  <2>1. UpTo(S, i) \in SUBSET UpTo(S, j) /\ j \notin UpTo(S, i) /\ j \in UpTo(S, j)
    <3>1. ~(j <= i) /\ \A k \in S : k <= i => k <= j
      BY <1>2, <1>4
    <3> QED BY <1>2, <3>1, Zenon DEF UpTo
  <2>2. IsFiniteSet(UpTo(S, j))
    BY <1>1, <1>2
  <2> QED BY <2>1, <2>2, FS_Subset
<1>5. \A i, j \in S : c(i) = c(j) => i = j
  <2> HIDE DEF c
  <2>1. \A i, j \in S : i = j \/ i < j \/ j < i
    BY <1>2
  <2> QED BY <1>4, <2>1
<1>6. \A m \in 1 .. Cardinality(S) : \E i \in S : c(i) = m
  <2> DEFINE Reached(i) == \A m \in 1 .. c(i) : \E k \in S : c(k) = m
             R == {i \in Nat : Reached(i)}
  <2>1. 0 \in R
    <3>1. UpTo(S, 0) = {}
      <4>1. \A k \in S : ~(k <= 0)
        BY <1>2
      <4> QED BY <4>1, Zenon DEF UpTo
    <3>2. c(0) = 0
      BY <3>1, FS_EmptySet
    <3> QED BY <3>2
  <2>2. ASSUME NEW i \in Nat, i \in R PROVE i + 1 \in R
    <3>1. CASE i + 1 \in S
      <4>1. UpTo(S, i + 1) = UpTo(S, i) \cup {i + 1} /\ i + 1 \notin UpTo(S, i)
        <5>1. \A k \in S : k <= i + 1 <=> k <= i \/ k = i + 1
          BY <1>2
        <5>2. ~(i + 1 <= i)
          OBVIOUS
        <5> QED BY <3>1, <5>1, <5>2, Zenon DEF UpTo
      <4>2. c(i + 1) = c(i) + 1
        <5>1. IsFiniteSet(UpTo(S, i))
          BY <1>1
        <5> QED BY <4>1, <5>1, FS_AddElement
      <4>3. c(i) \in Nat
        BY <1>1
      <4> HIDE DEF c
      <4>4. \A m \in 1 .. c(i + 1) : m \in 1 .. c(i) \/ m = c(i + 1)
        BY <4>2, <4>3
      <4> QED BY <2>2, <3>1, <4>4
    <3>2. CASE i + 1 \notin S
      <4>1. UpTo(S, i + 1) = UpTo(S, i)
        <5>1. \A k \in S : k <= i + 1 <=> k <= i
          BY <1>2, <3>2
        <5> QED BY <5>1, Zenon DEF UpTo
      <4> QED BY <2>2, <4>1
    <3> QED BY <3>1, <3>2
  <2>3. Nat \subseteq R
    <3> HIDE DEF R
    <3> QED BY <2>1, <2>2, SetInduction
  <2>4. Reached(n)
    BY <2>3
  <2> QED BY <1>1, <2>4
<1> QED BY <1>3, <1>5, <1>6

\* Only(q, S) has the elements of q at the places S.
LEMMA OnlyFacts ==
  ASSUME NEW E, NEW q \in Seq(E), NEW S \in SUBSET (1 .. Len(q))
  PROVE  /\ Only(q, S) \in Seq(E)
         /\ Len(Only(q, S)) <= Len(q)
         /\ Range(Only(q, S)) = {q[i] : i \in S}
<1> DEFINE At(m) == CHOOSE i \in S : Cardinality({k \in S : k <= i}) = m
           c == Cardinality(S)
<1>1. Len(q) \in Nat /\ \A i \in 1 .. Len(q) : q[i] \in E
  BY LenProperties, ElementOfSeq
<1>2. c \in 0 .. Len(q)
  BY <1>1, UpToFinite
<1>3. /\ \A i \in S : Cardinality({k \in S : k <= i}) \in 1 .. c
      /\ \A i, j \in S :
           Cardinality({k \in S : k <= i}) = Cardinality({k \in S : k <= j}) => i = j
      /\ \A m \in 1 .. c : \E i \in S : Cardinality({k \in S : k <= i}) = m
  BY <1>1, PlacesCounted DEF UpTo
<1>4. \A m \in 1 .. c : At(m) \in S
  <2> HIDE DEF c
  <2> QED BY <1>3
<1>5. \A i \in S : \E m \in 1 .. c : At(m) = i
  <2> TAKE i \in S
  <2> DEFINE m == Cardinality({k \in S : k <= i})
  <2>1. m \in 1 .. c
    BY <1>3
  <2>2. At(m) \in S /\ Cardinality({k \in S : k <= At(m)}) = m
    <3>1. \E j \in S : Cardinality({k \in S : k <= j}) = m
      OBVIOUS
    <3> HIDE DEF m
    <3> QED BY <3>1
  <2>3. At(m) = i
    <3> HIDE DEF At
    <3> QED BY <1>3, <2>2
  <2> HIDE DEF m, At
  <2> QED BY <2>1, <2>3
<1>6. Only(q, S) = [m \in 1 .. c |-> q[At(m)]]
  BY DEF Only
<1> HIDE DEF At, c
<1>7. \A m \in 1 .. c : q[At(m)] \in E
  BY <1>1, <1>4
<1>8. Only(q, S) \in Seq(E) /\ Len(Only(q, S)) = c /\ DOMAIN Only(q, S) = 1 .. c
  BY <1>2, <1>6, <1>7
<1>9. Range(Only(q, S)) = {q[At(m)] : m \in 1 .. c}
  BY <1>6, <1>8 DEF Range
<1>10. {q[At(m)] : m \in 1 .. c} = {q[i] : i \in S}
  BY <1>4, <1>5, Zenon
<1>11. Len(Only(q, S)) <= Len(q)
  BY <1>1, <1>2, <1>8
<1> QED BY <1>8, <1>9, <1>10, <1>11, Zenon

-----------------------------------------------------------------------------
(* The queue *)

EventSet == [job : Nat, number : Nat, delivered : BOOLEAN]
IdSet == [job : Nat, number : Nat]

LEMMA IdFacts ==
  ASSUME NEW e \in EventSet
  PROVE  Id(e) \in IdSet /\ Id(e).job = e.job /\ Id(e).number = e.number
BY DEF Id, EventSet, IdSet

LEMMA EventFacts ==
  ASSUME NEW j \in Nat, NEW n \in Nat
  PROVE  /\ Event(j, n) \in EventSet
         /\ Event(j, n).job = j /\ Event(j, n).number = n
         /\ Event(j, n).delivered = FALSE
         /\ Id(Event(j, n)) = [job |-> j, number |-> n]
BY DEF Event, Id, EventSet

LEMMA EventsType ==
  ASSUME NEW q \in Seq(EventSet)
  PROVE  /\ Range(q) \subseteq EventSet /\ Len(q) \in Nat
         /\ DOMAIN q = 1 .. Len(q)
         /\ IsFiniteSet(Range(q))
<1>1. /\ Len(q) \in Nat /\ DOMAIN q = 1 .. Len(q)
      /\ \A i \in 1 .. Len(q) : q[i] \in EventSet
  BY LenProperties, ElementOfSeq
<1>2. IsFiniteSet(1 .. Len(q))
  BY <1>1, FS_Interval
<1>3. q \in Surjection(1 .. Len(q), Range(q))
  <2>1. q \in [1 .. Len(q) -> Range(q)]
    <3>1. q \in [1 .. Len(q) -> EventSet]
      BY LenProperties
    <3> QED BY <1>1, <3>1 DEF Range
  <2> QED BY <1>1, <2>1 DEF Surjection, Range
<1>4. IsFiniteSet(Range(q))
  BY <1>2, <1>3, FS_Surjection
<1>5. Range(q) \subseteq EventSet
  BY <1>1 DEF Range
<1> QED BY <1>1, <1>4, <1>5

LEMMA IdsOfEvents ==
  ASSUME NEW q
  PROVE  Ids(q) = {Id(e) : e \in Range(q)}
BY DEF Ids, Range

LEMMA EmptyQueue ==
  /\ <<>> \in Seq(EventSet) /\ Len(<<>>) = 0
  /\ Range(<<>>) = {} /\ Ids(<<>>) = {}
<1>1. <<>> \in Seq(EventSet) /\ Len(<<>>) = 0 /\ DOMAIN <<>> = {}
  OBVIOUS
<1> QED BY <1>1 DEF Range, Ids

\* clear_attention() and the end of a job take questions away, nothing else.
LEMMA ClearedFacts ==
  ASSUME NEW q \in Seq(EventSet)
  PROVE  /\ Cleared(q) \in Seq(EventSet) /\ Len(Cleared(q)) <= Len(q)
         /\ Range(Cleared(q)) = {e \in Range(q) : e.number = 0}
<1> DEFINE S == {i \in DOMAIN q : ~Attention(q[i])}
<1>1. DOMAIN q = 1 .. Len(q) /\ \A i \in DOMAIN q : q[i].number \in Nat
  <2>1. DOMAIN q = 1 .. Len(q) /\ \A i \in 1 .. Len(q) : q[i] \in EventSet
    BY LenProperties, ElementOfSeq
  <2> QED BY <2>1 DEF EventSet
<1>2. \A i \in DOMAIN q : i \in S <=> q[i].number = 0
  BY <1>1 DEF Attention
<1>3. S \in SUBSET (1 .. Len(q)) /\ \A i \in S : i \in DOMAIN q
  BY <1>1
<1> HIDE DEF S
<1>4. /\ Only(q, S) \in Seq(EventSet) /\ Len(Only(q, S)) <= Len(q)
      /\ Range(Only(q, S)) = {q[i] : i \in S}
  BY <1>3, OnlyFacts
<1>5. {q[i] : i \in S} = {e \in Range(q) : e.number = 0}
  BY <1>2, <1>3, Zenon DEF Range
<1>6. Cleared(q) = Only(q, S)
  BY DEF Cleared, S
<1> QED BY <1>4, <1>5, <1>6

LEMMA UnaskedFacts ==
  ASSUME NEW q \in Seq(EventSet), NEW j
  PROVE  /\ Unasked(q, j) \in Seq(EventSet) /\ Len(Unasked(q, j)) <= Len(q)
         /\ Range(Unasked(q, j)) =
              {e \in Range(q) : e.job # j \/ e.number = 0}
<1> DEFINE S == {i \in DOMAIN q : q[i].job # j \/ ~Attention(q[i])}
<1>1. DOMAIN q = 1 .. Len(q) /\ \A i \in DOMAIN q : q[i].number \in Nat
  <2>1. DOMAIN q = 1 .. Len(q) /\ \A i \in 1 .. Len(q) : q[i] \in EventSet
    BY LenProperties, ElementOfSeq
  <2> QED BY <2>1 DEF EventSet
<1>2. \A i \in DOMAIN q : i \in S <=> q[i].job # j \/ q[i].number = 0
  BY <1>1 DEF Attention
<1>3. S \in SUBSET (1 .. Len(q)) /\ \A i \in S : i \in DOMAIN q
  BY <1>1
<1> HIDE DEF S
<1>4. /\ Only(q, S) \in Seq(EventSet) /\ Len(Only(q, S)) <= Len(q)
      /\ Range(Only(q, S)) = {q[i] : i \in S}
  BY <1>3, OnlyFacts
<1>5. {q[i] : i \in S} = {e \in Range(q) : e.job # j \/ e.number = 0}
  BY <1>2, <1>3, Zenon DEF Range
<1>6. Unasked(q, j) = Only(q, S)
  BY DEF Unasked, S
<1> QED BY <1>4, <1>5, <1>6

LEMMA AppendFacts ==
  ASSUME NEW q \in Seq(EventSet), NEW e \in EventSet
  PROVE  /\ Append(q, e) \in Seq(EventSet)
         /\ Len(Append(q, e)) = Len(q) + 1
         /\ Append(q, e)[Len(q) + 1] = e
         /\ Range(Append(q, e)) = Range(q) \cup {e}
<1>1. /\ Append(q, e) \in Seq(EventSet) /\ Len(Append(q, e)) = Len(q) + 1
      /\ \A i \in 1 .. Len(q) : Append(q, e)[i] = q[i]
      /\ Append(q, e)[Len(q) + 1] = e
  BY AppendProperties
<1>2. /\ DOMAIN q = 1 .. Len(q) /\ Len(q) \in Nat
      /\ DOMAIN Append(q, e) = 1 .. Len(q) + 1
  BY <1>1, LenProperties
<1>3. \A i : i \in 1 .. Len(q) + 1 <=> i \in 1 .. Len(q) \/ i = Len(q) + 1
  BY <1>2
<1> QED BY <1>1, <1>2, <1>3, Zenon DEF Range

\* The queue keeps its limit by losing its oldest event.
LEMMA WithinFacts ==
  ASSUME NEW q \in Seq(EventSet), Len(q) <= Kept + 1
  PROVE  /\ Within(q) \in Seq(EventSet) /\ Len(Within(q)) <= Kept
         /\ Range(Within(q)) \subseteq Range(q)
         /\ q # <<>> => q[Len(q)] \in Range(Within(q))
         /\ Len(q) <= Kept => Within(q) = q
<1>1. /\ Len(q) \in Nat /\ DOMAIN q = 1 .. Len(q) /\ Kept \in Nat \ {0}
      /\ q # <<>> => Len(q) > 0
  BY EventsAssumption, LenProperties, EmptySeq
<1>2. CASE Len(q) <= Kept
  <2>1. Within(q) = q
    <3>1. ~(Len(q) > Kept)
      BY <1>1, <1>2
    <3> QED BY <3>1 DEF Within
  <2> QED BY <1>1, <1>2, <2>1 DEF Range
<1>3. CASE Len(q) > Kept
  <2>1. Within(q) = Tail(q) /\ q # <<>>
    BY <1>1, <1>3, EmptySeq DEF Within
  <2>2. /\ Tail(q) \in Seq(EventSet) /\ Len(Tail(q)) = Len(q) - 1
        /\ \A i \in 1 .. Len(Tail(q)) : Tail(q)[i] = q[i + 1]
    BY <2>1, HeadTailProperties
  <2>3. DOMAIN Tail(q) = 1 .. Len(q) - 1
    BY <2>2, LenProperties
  <2>4. Len(q) - 1 \in DOMAIN Tail(q) /\ Tail(q)[Len(q) - 1] = q[Len(q)]
    BY <1>1, <1>3, <2>2, <2>3
  <2>5. \A i \in DOMAIN Tail(q) : i + 1 \in DOMAIN q /\ Tail(q)[i] = q[i + 1]
    BY <1>1, <2>2, <2>3
  <2>6. Range(Tail(q)) \subseteq Range(q) /\ q[Len(q)] \in Range(Tail(q))
    BY <2>4, <2>5 DEF Range
  <2>7. Len(Tail(q)) <= Kept /\ ~(Len(q) <= Kept)
    BY <1>1, <1>3, <2>2
  <2> QED BY <2>1, <2>2, <2>6, <2>7
<1> QED BY <1>1, <1>2, <1>3

\* What is queued: an event that is there already changes nothing.
LEMMA QueuedFacts ==
  ASSUME NEW q \in Seq(EventSet), Len(q) <= Kept, NEW j \in Nat, NEW n \in Nat
  PROVE  LET e == Event(j, n)
             r == Queued(q, e)
         IN  /\ r \in Seq(EventSet) /\ Len(r) <= Kept + 1
             /\ Range(r) \subseteq Range(q) \cup {e}
             /\ Id(e) \in Ids(q) => r = q
             /\ Id(e) \notin Ids(q) => r # <<>> /\ r[Len(r)] = e
             /\ \A f \in Range(q) : f.number = 0 => f \in Range(r)
<1> DEFINE e == Event(j, n)
<1>1. e \in EventSet /\ e.job = j
  BY EventFacts
<1>2. Kept \in Nat /\ Len(q) \in Nat
  BY EventsAssumption, LenProperties
<1> HIDE DEF e
<1>3. CASE Id(e) \in Ids(q)
  BY <1>2, <1>3 DEF Queued, e
<1>4. CASE Id(e) \notin Ids(q)
  <2> DEFINE p == IF Attention(e) THEN q ELSE Unasked(q, e.job)
  <2>1. /\ p \in Seq(EventSet) /\ Len(p) <= Len(q)
        /\ Range(p) \subseteq Range(q)
        /\ \A f \in Range(q) : f.number = 0 => f \in Range(p)
    BY <1>2, UnaskedFacts
  <2>2. Len(p) \in Nat
    BY <2>1, LenProperties
  <2>3. Queued(q, e) = Append(p, e)
    BY <1>4 DEF Queued
  <2> HIDE DEF p
  <2>4. /\ Append(p, e) \in Seq(EventSet) /\ Len(Append(p, e)) = Len(p) + 1
        /\ Append(p, e)[Len(p) + 1] = e
        /\ Range(Append(p, e)) = Range(p) \cup {e}
    BY <1>1, <2>1, AppendFacts
  <2>5. Append(p, e) # <<>>
    BY <1>1, <2>1, AppendProperties
  <2>6. Len(Append(p, e)) <= Kept + 1
    BY <1>2, <2>1, <2>2, <2>4
  <2> QED BY <1>4, <2>1, <2>3, <2>4, <2>5, <2>6 DEF e
<1> QED BY <1>3, <1>4

-----------------------------------------------------------------------------
(* Finite sets, and the sequences they are sent as *)

LEMMA ImageFinite ==
  ASSUME NEW S, IsFiniteSet(S), NEW f, DOMAIN f = S
  PROVE  IsFiniteSet({f[x] : x \in S})
<1> DEFINE g == [x \in S |-> f[x]]
           T == {f[x] : x \in S}
<1>1. g \in Surjection(S, T)
  BY DEF Surjection
<1> HIDE DEF g, T
<1>2. IsFiniteSet(T)
  BY <1>1, FS_Surjection
<1> QED BY <1>2 DEF T

LEMMA SetToSeqFacts ==
  ASSUME NEW S, IsFiniteSet(S)
  PROVE  /\ SetToSeq(S) \in Seq(S)
         /\ {SetToSeq(S)[i] : i \in DOMAIN SetToSeq(S)} \subseteq S
<1> DEFINE n == Cardinality(S)
<1>1. n \in Nat /\ ExistsBijection(1 .. n, S)
  BY FS_CardinalityType
<1>2. \E f \in [1 .. n -> S] : IsInjective(f)
  BY <1>1 DEF ExistsBijection, Bijection, Injection
<1>3. SetToSeq(S) \in [1 .. n -> S]
  BY <1>2 DEF SetToSeq
<1> HIDE DEF n
<1> QED BY <1>1, <1>3

LEMMA AllTogether ==
  ASSUME NEW M, NEW s \in Seq(M), NEW a \in Seq(M), NEW b \in Seq(M), NEW c \in Seq(M)
  PROVE  /\ s \o a \o b \o c \in Seq(M)
         /\ Range(s \o a \o b \o c) =
              Range(s) \cup Range(a) \cup Range(b) \cup Range(c)
<1> DEFINE u == s \o a
           v == u \o b
<1>1. u \in Seq(M) /\ Range(u) = Range(s) \cup Range(a)
  BY ConcatProperties, RangeConcatenation
<1> HIDE DEF u
<1>2. v \in Seq(M) /\ Range(v) = Range(u) \cup Range(b)
  BY <1>1, ConcatProperties, RangeConcatenation
<1> HIDE DEF v
<1>3. v \o c \in Seq(M) /\ Range(v \o c) = Range(v) \cup Range(c)
  BY <1>2, ConcatProperties, RangeConcatenation
<1> QED BY <1>1, <1>2, <1>3 DEF u, v

-----------------------------------------------------------------------------
(* Types *)

Asks == {"nothing", "yesno", "password"}
Out == [at : Nat, asks : Asks, echoed : BOOLEAN]
PhaseName == {"idle", "reviewing", "running", "ended"}
Asked == [kind : {"none", "secret", "text"}, pid : Nat, at : Nat,
          echoed : BOOLEAN]
Message == [what : {"events", "delivered", "acknowledge", "input"}, id : IdSet]
View == [job : Nat, phase : PhaseName]
Answer == [job : Nat, phase : PhaseName, events : Seq(EventSet)]

\* What the coordinator holds, and the disk.
SnapshotType ==
  /\ mode \in {"down", "starting", "serving"}
  /\ job \in Nat /\ job <= MaxJobs /\ phase \in PhaseName
  /\ phase # "idle" => job > 0
  /\ child \in Nat /\ output \in Out /\ secret \in BOOLEAN
  /\ terminal \in BOOLEAN
  /\ active \in Asked /\ answered \in Asked /\ number \in Nat
  /\ unfiled \subseteq 1 .. job

QueueType ==
  /\ queue \in Seq(EventSet) /\ Len(queue) <= Kept
  /\ file \in Seq(EventSet) /\ Len(file) <= Kept
  /\ pushed \subseteq IdSet

ToolType ==
  /\ asking \in Asks \cup {"ended"} /\ screen \in Out /\ noecho \in BOOLEAN
  /\ input \in Nat /\ tools \in Nat

ShellType ==
  /\ sent \in Seq(Message) /\ replies \in Seq(Answer)
  /\ view \in View /\ pending \subseteq IdSet
  /\ notes \subseteq IdSet /\ IsFiniteSet(notes)
  /\ listed \subseteq IdSet /\ IsFiniteSet(listed)
  /\ rang \subseteq IdSet /\ again \subseteq IdSet /\ person \subseteq IdSet
  /\ owed \subseteq IdSet

BoundType ==
  /\ filed \in [1 .. MaxJobs -> Nat]
  /\ spent \in [{"job", "question", "line", "trouble"} -> Nat]
  /\ spent["job"] = job

TypeOK ==
  /\ SnapshotType /\ QueueType /\ ToolType /\ ShellType /\ BoundType

LEMMA SpendFacts ==
  ASSUME BoundType, NEW kind \in {"question", "line", "trouble"}, Spend(kind),
         job' = job, filed' = filed
  PROVE  BoundType'
BY DEF BoundType, Spend

LEMMA QuestionFacts ==
  ASSUME NEW ph, NEW pid \in Nat, NEW out \in Out, NEW sec
  PROVE  /\ Question(ph, pid, out, sec) \in Asked
         /\ Question(ph, pid, out, sec).kind = "text"
              => Question(ph, pid, out, sec).at = out.at
         /\ NoQuestion \in Asked /\ NoQuestion.kind = "none"
         /\ ph # "running" => Question(ph, pid, out, sec) = NoQuestion
<1> DEFINE t == [kind |-> "text", pid |-> pid, at |-> out.at, echoed |-> out.echoed]
           z == [kind |-> "none", pid |-> 0, at |-> 0, echoed |-> FALSE]
<1>1. t \in Asked /\ t.kind = "text" /\ t.at = out.at
  BY DEF Asked, Out
<1>2. z \in Asked /\ z.kind = "none"
  BY DEF Asked
<1>3. Text(pid, out) = t /\ NoQuestion = z
  BY DEF Text, NoQuestion
<1>4. Secret(pid) \in Asked /\ Secret(pid).kind = "secret"
  BY <1>2, <1>3 DEF Secret, Asked
<1>5. Question(ph, pid, out, sec) \in {t, Secret(pid), z}
  BY <1>3 DEF Question
<1>6. "text" # "secret" /\ "text" # "none"
  OBVIOUS
<1> HIDE DEF t, z
<1>7. ph # "running" => Question(ph, pid, out, sec) = NoQuestion
  BY DEF Question
<1> QED BY <1>1, <1>2, <1>3, <1>4, <1>5, <1>6, <1>7

\* A save of what a queue becomes.
LEMMA SaveFacts ==
  ASSUME QueueType, BoundType,
         NEW q \in Seq(EventSet), Len(q) <= Kept + 1,
         NEW between \in Seq(EventSet), Len(between) <= Kept,
         Save(q, between)
  PROVE  /\ QueueType' /\ queue' = Within(q)
         /\ spent' \in [{"job", "question", "line", "trouble"} -> Nat]
         /\ spent'["job"] = spent["job"]
         /\ file' \in {file, queue', between}
         /\ pushed' = pushed \cup (Ids(q) \ Ids(queue'))
<1>1. /\ Within(q) \in Seq(EventSet) /\ Len(Within(q)) <= Kept
  BY WithinFacts
<1>2. queue' = Within(q) /\ pushed' = pushed \cup (Ids(q) \ Ids(queue'))
  BY DEF Save
<1>3. file' \in {file, queue', between}
  BY DEF Save
<1>4. Ids(q) \subseteq IdSet
  BY EventsType, IdsOfEvents, IdFacts
<1>5. QueueType'
  BY <1>1, <1>2, <1>3, <1>4 DEF QueueType
<1>6. /\ spent' \in [{"job", "question", "line", "trouble"} -> Nat]
      /\ spent'["job"] = spent["job"]
  <2>1. UNCHANGED spent \/ Spend("trouble")
    BY DEF Save
  <2> QED BY <2>1 DEF Spend, BoundType
<1> QED BY <1>2, <1>3, <1>5, <1>6

-----------------------------------------------------------------------------
(* What one step may do to the queue and to events.json *)

\* Nothing is added but new; what is saved is what was or what becomes; and
\* no end of a job is lost but by being pushed out, or from disk as well.
Moves(new) ==
  /\ Range(queue') \subseteq Range(queue) \cup new
  /\ file' = file \/ file' = queue' \/ Range(file') \subseteq Range(queue)
  /\ \/ file' = queue'
     \/ \A e \in Range(queue) : e.number = 0 => Id(e) \in Ids(queue') \cup pushed'
  /\ pushed \subseteq pushed'

LEMMA SaveMoves ==
  ASSUME QueueType, BoundType, NEW new,
         NEW q \in Seq(EventSet), Len(q) <= Kept + 1,
         NEW between \in Seq(EventSet), Len(between) <= Kept,
         Save(q, between),
         Range(q) \subseteq Range(queue) \cup new,
         \A e \in Range(queue) : e.number = 0 => e \in Range(q),
         Range(between) \subseteq Range(queue)
  PROVE  Moves(new)
<1>1. /\ queue' = Within(q) /\ file' \in {file, queue', between}
      /\ pushed' = pushed \cup (Ids(q) \ Ids(queue'))
  BY SaveFacts
<1>2. Range(queue') \subseteq Range(q)
  BY <1>1, WithinFacts
<1>3. \A e \in Range(queue) : e.number = 0 => Id(e) \in Ids(queue') \cup pushed'
  <2> TAKE e \in Range(queue)
  <2>1. e.number = 0 => Id(e) \in Ids(q)
    BY IdsOfEvents
  <2> QED BY <1>1, <2>1
<1> QED BY <1>1, <1>2, <1>3 DEF Moves

LEMMA NothingMoves ==
  ASSUME UNCHANGED <<queue, file, pushed>>
  PROVE  Moves({})
BY IdsOfEvents DEF Moves

\* One change() of the snapshot.
LEMMA ChangeFacts ==
  ASSUME TypeOK, NEW ph \in PhaseName, NEW pid \in Nat, NEW out \in Out,
         NEW sec \in BOOLEAN, Change(ph, pid, out, sec)
  PROVE  /\ phase' = ph /\ child' = pid /\ output' = out /\ secret' = sec
         /\ job' = job
         /\ QueueType'
         /\ spent' \in [{"job", "question", "line", "trouble"} -> Nat]
         /\ spent'["job"] = spent["job"]
         /\ answered' \in {answered, NoQuestion}
         /\ active' \in {Question(ph, pid, out, sec), NoQuestion}
         /\ \/ active' = Question(ph, pid, out, sec)
            \/ Answered(answered', Question(ph, pid, out, sec))
         /\ Question(ph, pid, out, sec) = NoQuestion => answered' = NoQuestion
         /\ \/ /\ number' = number /\ Moves({})
               /\ active' = NoQuestion \/ (active' = active /\ queue' = queue)
            \/ /\ number' = number + 1 /\ Moves({Event(job, number + 1)})
               /\ active' # NoQuestion
               /\ [job |-> job, number |-> number + 1] \in Ids(queue')
<1> DEFINE new == Question(ph, pid, out, sec)
           next == IF Answered(answered, new) THEN NoQuestion ELSE new
           asks == next # active /\ next # NoQuestion
           e == Event(job, number + 1)
           r == Queued(Cleared(queue), e)
           q == IF asks THEN r
                ELSE IF next # active THEN Cleared(queue) ELSE queue
<1>1. /\ phase' = ph /\ child' = pid /\ output' = out /\ secret' = sec
      /\ job' = job /\ active' = next
      /\ answered' = IF Answered(answered, new) THEN answered ELSE NoQuestion
      /\ number' = IF asks THEN number + 1 ELSE number
  BY DEF Change
<1>2. Save(q, Cleared(queue))
  <2>1. Save(IF asks THEN Queued(Cleared(queue), Event(job, number'))
             ELSE IF next # active THEN Cleared(queue) ELSE queue, Cleared(queue))
    BY DEF Change
  <2>2. asks => number' = number + 1
    BY <1>1
  <2>3. (IF asks THEN Queued(Cleared(queue), Event(job, number'))
         ELSE IF next # active THEN Cleared(queue) ELSE queue) = q
    <3> HIDE DEF asks, next
    <3> QED BY <2>2
  <2> HIDE DEF q
  <2> QED BY <2>1, <2>3
<1>3. /\ queue \in Seq(EventSet) /\ Len(queue) <= Kept /\ Len(queue) \in Nat
      /\ Kept \in Nat /\ job \in Nat /\ number + 1 \in Nat /\ number \in Nat
      /\ QueueType /\ BoundType
  BY EventsAssumption, LenProperties DEF TypeOK, QueueType, SnapshotType
<1>4. /\ Cleared(queue) \in Seq(EventSet) /\ Len(Cleared(queue)) \in Nat
      /\ Len(Cleared(queue)) <= Len(queue)
      /\ Range(Cleared(queue)) = {f \in Range(queue) : f.number = 0}
  BY <1>3, ClearedFacts, LenProperties
<1>5. Len(Cleared(queue)) <= Kept
  BY <1>3, <1>4
<1>6. /\ e \in EventSet /\ Id(e) = [job |-> job, number |-> number + 1]
      /\ e.number = number + 1
  BY <1>3, EventFacts
<1>7. Id(e) \notin Ids(Cleared(queue))
  <2>1. \A f \in Range(Cleared(queue)) : f \in EventSet /\ f.number = 0
    BY <1>3, <1>4, EventsType
  <2>2. \A id \in Ids(Cleared(queue)) : id.number = 0
    BY <2>1, IdsOfEvents, IdFacts
  <2>3. Id(e).number # 0
    BY <1>3, <1>6
  <2> QED BY <2>2, <2>3
<1>8. /\ r \in Seq(EventSet) /\ Len(r) <= Kept + 1
      /\ Range(r) \subseteq Range(Cleared(queue)) \cup {e}
      /\ r # <<>> /\ r[Len(r)] = e
      /\ \A f \in Range(Cleared(queue)) : f.number = 0 => f \in Range(r)
  <2> DEFINE p == Cleared(queue)
             n == number + 1
  <2>1. p \in Seq(EventSet) /\ Len(p) <= Kept /\ job \in Nat /\ n \in Nat
    BY <1>3, <1>4, <1>5
  <2> HIDE DEF p, n
  <2>2. LET f == Event(job, n)
            t == Queued(p, f)
        IN  /\ t \in Seq(EventSet) /\ Len(t) <= Kept + 1
            /\ Range(t) \subseteq Range(p) \cup {f}
            /\ Id(f) \notin Ids(p) => t # <<>> /\ t[Len(t)] = f
            /\ \A g \in Range(p) : g.number = 0 => g \in Range(t)
    BY <2>1, QueuedFacts
  <2> QED BY <1>7, <2>2 DEF p, n
<1> HIDE DEF next, e, r
<1>9. /\ q \in Seq(EventSet) /\ Len(q) <= Kept + 1
  BY <1>3, <1>4, <1>5, <1>8
<1>10. \A f \in Range(queue) : f.number = 0 => f \in Range(q)
  BY <1>4, <1>8
<1>11. Range(q) \subseteq Range(queue) \cup (IF asks THEN {e} ELSE {})
  BY <1>4, <1>8
<1>12. Range(Cleared(queue)) \subseteq Range(queue)
  BY <1>4
<1> HIDE DEF q
<1>13. Moves(IF asks THEN {e} ELSE {})
  BY <1>2, <1>3, <1>4, <1>5, <1>9, <1>10, <1>11, <1>12, SaveMoves
<1>14. /\ QueueType' /\ queue' = Within(q)
       /\ spent' \in [{"job", "question", "line", "trouble"} -> Nat]
       /\ spent'["job"] = spent["job"]
  BY <1>2, <1>3, <1>4, <1>5, <1>9, SaveFacts
<1>15. asks => [job |-> job, number |-> number + 1] \in Ids(queue')
  <2> SUFFICES ASSUME asks PROVE Id(e) \in Ids(queue')
    BY <1>6
  <2>1. q = r
    BY DEF q
  <2>2. e \in Range(Within(q))
    BY <1>8, <2>1, WithinFacts
  <2> QED BY <1>14, <2>2, IdsOfEvents
<1>16. next = active => q = queue
  BY DEF q
<1>17. next = active => queue' = queue
  BY <1>3, <1>14, <1>16, WithinFacts
<1>18. next \in {new, NoQuestion} /\ (next = new \/ Answered(answered, new))
  BY DEF next
<1>19. /\ answered' \in {answered, NoQuestion}
       /\ active' = new \/ Answered(answered', new)
       /\ new = NoQuestion => answered' = NoQuestion
  BY <1>1, <1>18 DEF next, Answered
<1>20. \/ /\ number' = number /\ Moves({})
          /\ active' = NoQuestion \/ (active' = active /\ queue' = queue)
       \/ /\ number' = number + 1 /\ Moves({e})
          /\ active' # NoQuestion
          /\ [job |-> job, number |-> number + 1] \in Ids(queue')
  <2>1. CASE asks
    BY <1>1, <1>13, <1>15, <2>1
  <2>2. CASE ~asks
    BY <1>1, <1>13, <1>17, <2>2
  <2> QED BY <2>1, <2>2
<1> QED BY <1>1, <1>14, <1>18, <1>19, <1>20 DEF e

\* What a save spends.
SpentType(s) ==
  /\ s \in [{"job", "question", "line", "trouble"} -> Nat]
  /\ s["job"] = spent["job"]

LEMMA TroubleFacts ==
  ASSUME BoundType
  PROVE  /\ SpentType(spent)
         /\ Spend("trouble") \/ Spend("question") \/ Spend("line")
              => SpentType(spent')
BY DEF BoundType, Spend, SpentType

\* Delivered marks the events of one name, acknowledge removes them.
LEMMA DeliveredFacts ==
  ASSUME QueueType, BoundType, NEW id \in IdSet, Delivered(id), pushed' = pushed
  PROVE  /\ QueueType' /\ SpentType(spent')
         /\ Ids(queue') = Ids(queue)
         /\ \A e \in Range(queue') :
              \/ Id(e) # id /\ e \in Range(queue)
              \/ Id(e) = id /\ e.delivered
         /\ file' = file \/ file' = queue'
<1> DEFINE Mark(e) == IF Id(e) = id THEN [e EXCEPT !.delivered = TRUE] ELSE e
<1>1. /\ Len(queue) \in Nat /\ DOMAIN queue = 1 .. Len(queue)
      /\ \A i \in 1 .. Len(queue) : queue[i] \in EventSet
  BY LenProperties, ElementOfSeq DEF QueueType
<1>2. queue' = [i \in 1 .. Len(queue) |-> Mark(queue[i])]
  BY <1>1 DEF Delivered
<1>3. \A e \in EventSet : /\ Mark(e) \in EventSet /\ Id(Mark(e)) = Id(e)
                          /\ Id(e) # id => Mark(e) = e
                          /\ Id(e) = id => Mark(e).delivered
  BY DEF EventSet, Id
<1> HIDE DEF Mark
<1>4. queue' \in Seq(EventSet) /\ Len(queue') = Len(queue)
      /\ DOMAIN queue' = 1 .. Len(queue)
  BY <1>1, <1>2, <1>3
<1>5. Ids(queue') = Ids(queue)
  <2>1. \A i \in 1 .. Len(queue) : Id(queue'[i]) = Id(queue[i])
    BY <1>1, <1>2, <1>3
  <2> QED BY <1>1, <1>4, <2>1, Zenon DEF Ids
<1>6. \A e \in Range(queue') :
        \/ Id(e) # id /\ e \in Range(queue)
        \/ Id(e) = id /\ e.delivered
  <2> SUFFICES ASSUME NEW i \in 1 .. Len(queue)
               PROVE  \/ Id(queue'[i]) # id /\ queue'[i] \in Range(queue)
                      \/ Id(queue'[i]) = id /\ queue'[i].delivered
    BY <1>4, Zenon DEF Range
  <2>1. queue[i] \in EventSet /\ queue'[i] = Mark(queue[i])
        /\ queue[i] \in Range(queue)
    BY <1>1, <1>2 DEF Range
  <2> QED BY <1>3, <2>1
<1>7. file' = file \/ file' = queue'
  BY DEF Delivered
<1>8. SpentType(spent')
  BY TroubleFacts DEF Delivered
<1>9. QueueType'
  BY <1>4, <1>7 DEF QueueType
<1> QED BY <1>5, <1>6, <1>7, <1>8, <1>9

LEMMA AcknowledgeFacts ==
  ASSUME QueueType, BoundType, NEW id \in IdSet, Acknowledge(id), pushed' = pushed
  PROVE  /\ QueueType' /\ SpentType(spent') /\ Moves({})
         /\ Ids(queue) \ {id} \subseteq Ids(queue')
<1>1. CASE UNCHANGED <<queue, file>> /\ Spend("trouble")
  <2>1. QueueType' /\ Moves({})
    BY <1>1, NothingMoves DEF QueueType
  <2>2. Ids(queue) \ {id} \subseteq Ids(queue')
    BY <1>1
  <2> QED BY <1>1, <2>1, <2>2, TroubleFacts
<1>2. CASE /\ queue' = Only(queue, {i \in DOMAIN queue : Id(queue[i]) # id})
           /\ file' = queue' /\ UNCHANGED spent
  <2> DEFINE S == {i \in DOMAIN queue : Id(queue[i]) # id}
  <2>1. DOMAIN queue = 1 .. Len(queue) /\ queue \in Seq(EventSet)
        /\ Len(queue) \in Nat /\ Len(queue) <= Kept /\ Kept \in Nat
    BY LenProperties, EventsAssumption DEF QueueType
  <2>2. S \in SUBSET (1 .. Len(queue))
    BY <2>1
  <2>3. \A i \in DOMAIN queue : i \in S <=> Id(queue[i]) # id
    OBVIOUS
  <2>4. \A i \in S : i \in DOMAIN queue
    OBVIOUS
  <2> HIDE DEF S
  <2>5. /\ Only(queue, S) \in Seq(EventSet) /\ Len(Only(queue, S)) <= Len(queue)
        /\ Range(Only(queue, S)) = {queue[i] : i \in S}
    BY <2>1, <2>2, OnlyFacts
  <2>6. queue' = Only(queue, S)
    BY <1>2 DEF S
  <2>7. Len(queue') <= Kept
    <3>1. Len(queue') \in Nat
      BY <2>5, <2>6, LenProperties
    <3> QED BY <2>1, <2>5, <2>6, <3>1
  <2>8. Range(queue') \subseteq Range(queue)
    BY <2>4, <2>5, <2>6 DEF Range
  <2>9. Ids(queue) \ {id} \subseteq Ids(queue')
    <3>1. Ids(queue') = {Id(e) : e \in {queue[i] : i \in S}}
      BY <2>5, <2>6, IdsOfEvents
    <3> QED BY <2>3, <3>1 DEF Ids
  <2>10. QueueType'
    BY <1>2, <2>5, <2>6, <2>7 DEF QueueType
  <2>11. Moves({})
    BY <1>2, <2>8 DEF Moves
  <2> QED BY <1>2, <2>9, <2>10, <2>11, TroubleFacts
<1> QED BY <1>1, <1>2 DEF Acknowledge

LEMMA ClearedMoves ==
  ASSUME QueueType, BoundType, Save(Cleared(queue), Cleared(queue))
  PROVE  /\ QueueType' /\ SpentType(spent') /\ Moves({})
<1>1. /\ queue \in Seq(EventSet) /\ Len(queue) <= Kept /\ Len(queue) \in Nat
      /\ Kept \in Nat
  BY EventsAssumption, LenProperties DEF QueueType
<1>2. /\ Cleared(queue) \in Seq(EventSet) /\ Len(Cleared(queue)) \in Nat
      /\ Len(Cleared(queue)) <= Len(queue)
      /\ Range(Cleared(queue)) = {f \in Range(queue) : f.number = 0}
  BY <1>1, ClearedFacts, LenProperties
<1>3. Len(Cleared(queue)) <= Kept /\ Len(Cleared(queue)) <= Kept + 1
  BY <1>1, <1>2
<1>4. /\ Range(Cleared(queue)) \subseteq Range(queue) \cup {}
      /\ \A e \in Range(queue) : e.number = 0 => e \in Range(Cleared(queue))
      /\ Range(Cleared(queue)) \subseteq Range(queue)
  BY <1>2
<1>5. Moves({})
  BY <1>2, <1>3, <1>4, SaveMoves
<1>6. QueueType' /\ SpentType(spent')
  BY <1>2, <1>3, SaveFacts DEF SpentType
<1> QED BY <1>5, <1>6

\* archive() files the job that the snapshot names by then.
LEMMA ArchiveFacts ==
  ASSUME TypeOK, Archive
  PROVE  /\ QueueType' /\ SpentType(spent')
         /\ \/ Moves({})
            \/ Moves({Event(job, 0)}) /\ Id(Event(job, 0)) \notin Ids(queue)
         /\ job \in 1 .. MaxJobs /\ job' = job
         /\ filed' \in [1 .. MaxJobs -> Nat] /\ filed'[job] = filed[job] + 1
         /\ \A j \in 1 .. MaxJobs : j # job => filed'[j] = filed[j]
         /\ unfiled' \subseteq unfiled /\ owed' \subseteq IdSet
<1>1. PICK j \in unfiled : unfiled' = unfiled \ {j}
  BY DEF Archive
<1>2. /\ job \in Nat /\ job <= MaxJobs /\ unfiled \subseteq 1 .. job
      /\ queue \in Seq(EventSet) /\ Len(queue) <= Kept
      /\ QueueType /\ BoundType /\ owed \subseteq IdSet
      /\ Kept \in Nat /\ MaxJobs \in Nat
      /\ filed \in [1 .. MaxJobs -> Nat]
  BY EventsAssumption DEF TypeOK, SnapshotType, QueueType, ShellType, BoundType
<1>3. job \in 1 .. MaxJobs
  BY <1>1, <1>2
<1>4. /\ Save(Queued(queue, Event(job, 0)), queue)
      /\ filed' = [filed EXCEPT ![job] = @ + 1]
      /\ owed' \subseteq owed \cup {Id(Event(job, 0))}
      /\ job' = job
  BY DEF Archive, snapshot
<1>5. Event(job, 0) \in EventSet /\ Id(Event(job, 0)) \in IdSet
  BY <1>2, EventFacts, IdFacts
<1> DEFINE z == 0
<1>6. z \in Nat
  OBVIOUS
<1> HIDE DEF z
<1>7. LET e == Event(job, z)
          r == Queued(queue, e)
      IN  /\ r \in Seq(EventSet) /\ Len(r) <= Kept + 1
          /\ Range(r) \subseteq Range(queue) \cup {e}
          /\ Id(e) \in Ids(queue) => r = queue
          /\ \A f \in Range(queue) : f.number = 0 => f \in Range(r)
  BY <1>2, <1>6, QueuedFacts
<1> DEFINE r == Queued(queue, Event(job, 0))
<1>8. /\ r \in Seq(EventSet) /\ Len(r) <= Kept + 1
      /\ Range(r) \subseteq Range(queue) \cup {Event(job, 0)}
      /\ Id(Event(job, 0)) \in Ids(queue) => r = queue
      /\ \A f \in Range(queue) : f.number = 0 => f \in Range(r)
  BY <1>7 DEF z
<1>9. Save(r, queue)
  BY <1>4
<1> HIDE DEF r
<1>10. \/ Moves({})
       \/ Moves({Event(job, 0)}) /\ Id(Event(job, 0)) \notin Ids(queue)
  <2>1. CASE Id(Event(job, 0)) \in Ids(queue)
    <3>1. Range(r) \subseteq Range(queue) \cup {}
      BY <1>8, <2>1
    <3> QED BY <1>2, <1>8, <1>9, <3>1, SaveMoves
  <2>2. CASE Id(Event(job, 0)) \notin Ids(queue)
    BY <1>2, <1>8, <1>9, <2>2, SaveMoves
  <2> QED BY <2>1, <2>2
<1>11. QueueType' /\ SpentType(spent')
  BY <1>2, <1>8, <1>9, SaveFacts DEF SpentType
<1> QED BY <1>1, <1>2, <1>3, <1>4, <1>5, <1>10, <1>11

-----------------------------------------------------------------------------
(* One turn of the shell's loop *)

Named(E) == {Id(e) : e \in E}

\* What a turn shows of what has arrived, what the centre keeps, and what is
\* taken back.
Showing == {e \in Arrived : ~Obsolete(Id(e), view', pending')}
Keeping == {id \in listed \cup Named(Showing) : ~Obsolete(id, view', pending')}
Taking ==
  ((notes \cup Named(Showing)) \ Keeping) \cup Named(Arrived \ Showing)

\* What the shell knows after the k-th reply that waits.
ViewAt(k) ==
  IF k = 0 THEN view
  ELSE [job |-> replies[k].job, phase |-> replies[k].phase]
PendingAt(k) == IF k = 0 THEN pending ELSE Ids(replies[k].events)

LEMMA NamedFacts ==
  ASSUME NEW E \in SUBSET EventSet, IsFiniteSet(E)
  PROVE  /\ Named(E) \subseteq IdSet /\ IsFiniteSet(Named(E))
         /\ \A id \in Named(E) : \E e \in E : id = Id(e)
<1>1. Named(E) \subseteq IdSet
  BY IdFacts DEF Named
<1>2. IsFiniteSet(Named(E))
  <2> DEFINE f == [e \in E |-> Id(e)]
  <2>1. DOMAIN f = E /\ Named(E) = {f[e] : e \in E}
    BY DEF Named
  <2> HIDE DEF f
  <2> QED BY <2>1, ImageFinite
<1> QED BY <1>1, <1>2 DEF Named

LEMMA AnswerFacts ==
  ASSUME ShellType
  PROVE  /\ Len(replies) \in Nat /\ DOMAIN replies = 1 .. Len(replies)
         /\ \A k \in 1 .. Len(replies) :
              /\ replies[k] \in Answer
              /\ replies[k].job \in Nat /\ replies[k].phase \in PhaseName
              /\ replies[k].events \in Seq(EventSet)
         /\ replies = <<>> <=> Len(replies) = 0
         /\ \A k \in 0 .. Len(replies) :
              ViewAt(k) \in View /\ PendingAt(k) \subseteq IdSet
<1>1. /\ Len(replies) \in Nat /\ DOMAIN replies = 1 .. Len(replies)
      /\ \A k \in 1 .. Len(replies) : replies[k] \in Answer
  BY LenProperties, ElementOfSeq DEF ShellType
<1>2. \A k \in 1 .. Len(replies) :
         /\ replies[k].job \in Nat /\ replies[k].phase \in PhaseName
         /\ replies[k].events \in Seq(EventSet)
  BY <1>1 DEF Answer
<1>3. replies = <<>> <=> Len(replies) = 0
  BY EmptySeq DEF ShellType
<1>4. ASSUME NEW k \in 0 .. Len(replies)
      PROVE  ViewAt(k) \in View /\ PendingAt(k) \subseteq IdSet
  <2>1. CASE k = 0
    BY <2>1 DEF ViewAt, PendingAt, ShellType
  <2>2. CASE k # 0
    <3>1. k \in 1 .. Len(replies)
      BY <1>1, <2>2
    <3>2. ViewAt(k) \in View
      BY <1>2, <2>2, <3>1 DEF ViewAt, View
    <3>3. PendingAt(k) \subseteq IdSet
      BY <1>2, <2>2, <3>1, EventsType, IdsOfEvents, IdFacts DEF PendingAt
    <3> QED BY <3>2, <3>3
  <2> QED BY <2>1, <2>2
<1> QED BY <1>1, <1>2, <1>3, <1>4

\* What has arrived is new in some reply.
LEMMA ArrivedFacts ==
  ASSUME ShellType
  PROVE  /\ Arrived \subseteq EventSet /\ IsFiniteSet(Arrived)
         /\ \A e \in Arrived : \E k \in 1 .. Len(replies) :
              /\ e \in Range(replies[k].events)
              /\ Id(e) \notin PendingAt(k - 1)
<1>1. /\ Len(replies) \in Nat /\ DOMAIN replies = 1 .. Len(replies)
      /\ \A k \in 1 .. Len(replies) : replies[k].events \in Seq(EventSet)
  BY AnswerFacts
<1>2. \A e \in Arrived : \E k \in 1 .. Len(replies) :
              /\ e \in Range(replies[k].events)
              /\ Id(e) \notin PendingAt(k - 1)
  <2> TAKE e \in Arrived
  <2>1. PICK k \in 1 .. Len(replies) :
           e \in {replies[k].events[i] :
                    i \in {i \in DOMAIN replies[k].events :
                      Id(replies[k].events[i]) \notin
                       (IF k = 1 THEN pending ELSE Ids(replies[k - 1].events))}}
    BY <1>1, Zenon DEF Arrived
  <2>2. PICK i \in DOMAIN replies[k].events :
           /\ e = replies[k].events[i]
           /\ Id(e) \notin (IF k = 1 THEN pending ELSE Ids(replies[k - 1].events))
    BY <2>1, Zenon
  <2>3. e \in Range(replies[k].events)
    BY <2>2, Zenon DEF Range
  <2>4. k = 1 <=> k - 1 = 0
    BY <1>1
  <2>5. Id(e) \notin PendingAt(k - 1)
    BY <2>2, <2>4, Zenon DEF PendingAt
  <2> QED BY <2>3, <2>5
<1> DEFINE f == [k \in 1 .. Len(replies) |-> Range(replies[k].events)]
           U == {f[k] : k \in 1 .. Len(replies)}
<1>3. \A k \in 1 .. Len(replies) : f[k] = Range(replies[k].events)
                                   /\ IsFiniteSet(f[k]) /\ f[k] \subseteq EventSet
  BY <1>1, EventsType
<1>4. IsFiniteSet(U)
  <2>1. IsFiniteSet(1 .. Len(replies)) /\ DOMAIN f = 1 .. Len(replies)
    BY <1>1, FS_Interval
  <2> HIDE DEF f
  <2> QED BY <2>1, ImageFinite
<1> HIDE DEF f
<1>5. \A T \in U : IsFiniteSet(T)
  BY <1>3
<1>6. Arrived \in SUBSET (UNION U)
  BY <1>2, <1>3
<1>7. Arrived \subseteq EventSet
  BY <1>2, <1>3
<1> HIDE DEF U
<1>8. IsFiniteSet(UNION U)
  BY <1>4, <1>5, FS_UNION
<1>9. IsFiniteSet(Arrived)
  BY <1>6, <1>8, FS_Subset
<1> QED BY <1>2, <1>7, <1>9

LEMMA PassFacts ==
  ASSUME ShellType, NEW asks \in BOOLEAN, Pass(asks)
  PROVE  /\ ShellType'
         /\ Showing \subseteq Arrived /\ Taking \subseteq IdSet
         /\ Range(sent') \subseteq
              Range(sent) \cup {Poll}
                 \cup {Request("delivered", id) : id \in Named(Showing)}
                 \cup {Request("acknowledge", id) : id \in Taking}
         /\ view' = ViewAt(Len(replies)) /\ pending' = PendingAt(Len(replies))
         /\ replies' = <<>> /\ Len(replies') = 0
         /\ notes' \subseteq Keeping /\ listed' = Keeping
         /\ notes' \subseteq notes \cup Named(Showing)
         /\ rang' \subseteq rang \cup Named(Showing)
         /\ \A id \in again' \ again :
              /\ id \in rang \cup Shown
              /\ \E e \in Showing : id = Id(e) /\ ~e.delivered
         /\ UNCHANGED <<mode, snapshot, terminal, tracker, queue, unfiled, file,
                        tool, person, pushed, filed, bounds>>
<1> DEFINE rung == {Id(e) : e \in {e \in Showing : ~e.delivered}}
           said == {Request("delivered", Id(e)) : e \in Showing}
           back == {Request("acknowledge", id) : id \in Taking}
           polled == IF asks THEN <<Poll>> ELSE <<>>
<1>1. /\ view' = (IF replies = <<>> THEN view
                  ELSE [job |-> Last(replies).job, phase |-> Last(replies).phase])
      /\ pending' = (IF replies = <<>> THEN pending ELSE Ids(Last(replies).events))
      /\ replies' = <<>>
      /\ listed' = Keeping /\ notes' = (notes \cup Named(Showing)) \cap Keeping
      /\ owed' \subseteq owed
      /\ rang' = rang \cup rung
      /\ again' = again \cup (rung \cap (rang \cup Shown))
      /\ sent' = sent \o polled \o SetToSeq(said) \o SetToSeq(back)
      /\ UNCHANGED <<mode, snapshot, terminal, tracker, queue, unfiled, file,
                     tool, person, pushed, filed, bounds>>
  BY DEF Pass, Showing, Keeping, Taking, Named
<1>2. /\ Arrived \subseteq EventSet /\ IsFiniteSet(Arrived)
  BY ArrivedFacts
<1>3. /\ Showing \in SUBSET EventSet /\ Showing \in SUBSET Arrived
      /\ (Arrived \ Showing) \in SUBSET EventSet
      /\ (Arrived \ Showing) \in SUBSET Arrived
  BY <1>2 DEF Showing
<1>4. IsFiniteSet(Showing) /\ IsFiniteSet(Arrived \ Showing)
  BY <1>2, <1>3, FS_Subset
<1>5. /\ Named(Showing) \subseteq IdSet /\ IsFiniteSet(Named(Showing))
      /\ Named(Arrived \ Showing) \subseteq IdSet
      /\ IsFiniteSet(Named(Arrived \ Showing))
  BY <1>3, <1>4, NamedFacts
<1>6. /\ Keeping \subseteq IdSet /\ IsFiniteSet(Keeping)
  <2>1. listed \subseteq IdSet /\ IsFiniteSet(listed)
    BY DEF ShellType
  <2>2. IsFiniteSet(listed \cup Named(Showing))
    BY <1>5, <2>1, FS_Union
  <2>3. Keeping \in SUBSET (listed \cup Named(Showing))
    BY DEF Keeping
  <2> QED BY <1>5, <2>1, <2>2, <2>3, FS_Subset
<1>7. /\ Taking \subseteq IdSet /\ IsFiniteSet(Taking)
      /\ (notes \cup Named(Showing)) \cap Keeping \subseteq IdSet
      /\ IsFiniteSet((notes \cup Named(Showing)) \cap Keeping)
  <2>1. notes \subseteq IdSet /\ IsFiniteSet(notes)
    BY DEF ShellType
  <2>2. IsFiniteSet(notes \cup Named(Showing))
    BY <1>5, <2>1, FS_Union
  <2>3. IsFiniteSet((notes \cup Named(Showing)) \ Keeping)
    BY <2>2, FS_Difference
  <2>4. IsFiniteSet(Taking)
    BY <1>5, <2>3, FS_Union DEF Taking
  <2>5. IsFiniteSet((notes \cup Named(Showing)) \cap Keeping)
    BY <2>2, FS_Intersection
  <2> QED BY <1>5, <2>1, <2>4, <2>5 DEF Taking
<1>8. IsFiniteSet(said) /\ IsFiniteSet(back)
  <2> DEFINE f == [e \in Showing |-> Request("delivered", Id(e))]
             g == [id \in Taking |-> Request("acknowledge", id)]
  <2>1. DOMAIN f = Showing /\ said = {f[e] : e \in Showing}
    OBVIOUS
  <2>2. DOMAIN g = Taking /\ back = {g[id] : id \in Taking}
    OBVIOUS
  <2> HIDE DEF f, g, said, back
  <2>3. IsFiniteSet(said)
    BY <1>4, <2>1, ImageFinite
  <2>4. IsFiniteSet(back)
    BY <1>7, <2>2, ImageFinite
  <2> QED BY <2>3, <2>4
<1>9. said = {Request("delivered", id) : id \in Named(Showing)}
  BY DEF Named
<1>10. said \subseteq Message /\ back \subseteq Message /\ Poll \in Message
  BY <1>5, <1>7, <1>9 DEF Message, Request, Poll, IdSet
<1>11. /\ polled \in Seq(Message) /\ Range(polled) \subseteq {Poll}
  BY <1>10 DEF Range
<1> HIDE DEF said, back, polled
<1>12. /\ SetToSeq(said) \in Seq(Message) /\ Range(SetToSeq(said)) \subseteq said
       /\ SetToSeq(back) \in Seq(Message) /\ Range(SetToSeq(back)) \subseteq back
  BY <1>8, <1>10, SetToSeqFacts, SeqMonotonic DEF Range
<1>13. /\ sent' \in Seq(Message)
       /\ Range(sent') \subseteq Range(sent) \cup {Poll} \cup said \cup back
  <2>1. sent \in Seq(Message)
    BY DEF ShellType
  <2>2. /\ sent' \in Seq(Message)
        /\ Range(sent') = Range(sent) \cup Range(polled)
                           \cup Range(SetToSeq(said)) \cup Range(SetToSeq(back))
    BY <1>1, <1>11, <1>12, <2>1, AllTogether
  <2> QED BY <1>11, <1>12, <2>2
<1>14. view' = ViewAt(Len(replies)) /\ pending' = PendingAt(Len(replies))
  BY <1>1, AnswerFacts DEF ViewAt, PendingAt, Last
<1>15. view' \in View /\ pending' \subseteq IdSet
  <2>1. Len(replies) \in 0 .. Len(replies)
    BY AnswerFacts
  <2> QED BY <1>14, <2>1, AnswerFacts
<1>16. rung \subseteq Named(Showing)
  BY DEF Named
<1>17. rung \subseteq IdSet
  BY <1>5, <1>16
<1>18. replies' \in Seq(Answer) /\ Len(replies') = 0
  BY <1>1, EmptySeq
<1>19. ShellType'
  BY <1>1, <1>6, <1>7, <1>13, <1>15, <1>17, <1>18 DEF ShellType
<1>20. \A id \in again' \ again :
          id \in rang \cup Shown /\ \E e \in Showing : id = Id(e) /\ ~e.delivered
  BY <1>1
<1> QED BY <1>1, <1>3, <1>7, <1>9, <1>13, <1>14, <1>16, <1>18, <1>19, <1>20 DEF back

-----------------------------------------------------------------------------
(* Types are kept *)

LEMMA Init_Type == ASSUME Init PROVE TypeOK
<1> DEFINE z == [kind |-> "none", pid |-> 0, at |-> 0, echoed |-> FALSE]
<1>1. NoQuestion \in Asked /\ Blank \in Out
  BY DEF NoQuestion, Asked, Blank, Line, Out, Asks
<1>2. SnapshotType
  <2>1. 0 \in Nat /\ 0 <= MaxJobs
    BY EventsAssumption
  <2>2. /\ mode = "down" /\ job = 0 /\ phase = "idle" /\ child = 0
        /\ output = Blank /\ secret = FALSE /\ terminal = FALSE
        /\ active = NoQuestion /\ answered = NoQuestion /\ number = 0
        /\ unfiled = {}
    BY DEF Init
  <2> QED BY <1>1, <2>1, <2>2 DEF SnapshotType, PhaseName
<1>3. QueueType
  BY EmptyQueue, EventsAssumption DEF Init, QueueType
<1>4. ToolType
  BY <1>1 DEF Init, ToolType, Asks
<1>5. ShellType
  <2>1. IsFiniteSet({})
    BY FS_EmptySet
  <2>2. sent \in Seq(Message) /\ replies \in Seq(Answer)
    BY EmptySeq DEF Init
  <2> QED BY <2>1, <2>2 DEF Init, ShellType, View, PhaseName
<1>6. BoundType
  BY DEF Init, BoundType, Limit
<1> QED BY <1>2, <1>3, <1>4, <1>5, <1>6 DEF TypeOK

\* What every change() leaves alone.
LEMMA ChangeType ==
  ASSUME TypeOK, NEW ph \in PhaseName, NEW pid \in Nat, NEW out \in Out,
         NEW sec \in BOOLEAN, Change(ph, pid, out, sec),
         phase = "idle" => ph = "idle",
         mode' = mode, terminal' \in BOOLEAN, unfiled' \subseteq unfiled \cup {job},
         phase = "running" \/ unfiled' = unfiled,
         ToolType', UNCHANGED <<line, shell, owed, rang, again, person, filed>>
  PROVE  TypeOK'
<1>1. /\ phase' = ph /\ child' = pid /\ output' = out /\ secret' = sec
      /\ job' = job
      /\ QueueType'
      /\ spent' \in [{"job", "question", "line", "trouble"} -> Nat]
      /\ spent'["job"] = spent["job"]
      /\ answered' \in {answered, NoQuestion}
      /\ active' \in {Question(ph, pid, out, sec), NoQuestion}
      /\ number' \in {number, number + 1}
  BY ChangeFacts
<1>2. active' \in Asked /\ answered' \in Asked
  BY <1>1, QuestionFacts DEF TypeOK, SnapshotType
<1>3. unfiled' \subseteq 1 .. job
  BY DEF TypeOK, SnapshotType
<1>4. SnapshotType'
  BY <1>1, <1>2, <1>3 DEF TypeOK, SnapshotType
<1>5. BoundType'
  BY <1>1 DEF TypeOK, BoundType
<1>6. ShellType'
  BY DEF TypeOK, ShellType, line, shell
<1> QED BY <1>1, <1>4, <1>5, <1>6 DEF TypeOK

\* The coordinator's side, but for requests.
LEMMA WorkType ==
  ASSUME TypeOK,
         \/ Check \/ Install \/ BeginTool \/ Read \/ Sample \/ Detach \/ Settle
         \/ Finish \/ Archive \/ Kill \/ Start
  PROVE  TypeOK'
<1> USE DEF snapshot, tracker, tool, line, shell, history, bounds
<1>0. /\ SnapshotType /\ QueueType /\ ToolType /\ ShellType /\ BoundType
      /\ phase \in PhaseName /\ child \in Nat /\ output \in Out
      /\ secret \in BOOLEAN /\ screen \in Out /\ noecho \in BOOLEAN
      /\ NoQuestion \in Asked /\ Blank \in Out
      /\ 0 \in Nat /\ tools \in Nat
  BY DEF TypeOK, SnapshotType, ToolType, NoQuestion, Asked, Blank, Line, Out, Asks
<1>1. CASE Check
  <2>1. SnapshotType' /\ QueueType' /\ ToolType' /\ ShellType' /\ BoundType'
    <3>1. job < MaxJobs /\ spent'["job"] = job + 1
          /\ spent' \in [{"job", "question", "line", "trouble"} -> Nat]
      BY <1>0, <1>1, EventsAssumption DEF Check, Spend, Limit, BoundType, SnapshotType
    <3>2. SnapshotType'
      <4>1. /\ job' = job + 1 /\ phase' = "reviewing" /\ child' = 0
            /\ output' = Blank /\ secret' = FALSE
            /\ UNCHANGED <<mode, terminal, active, answered, number, unfiled>>
        BY <1>1 DEF Check
      <4>2. job' \in Nat /\ job' > 0 /\ job' <= MaxJobs /\ unfiled' \subseteq 1 .. job'
        BY <1>0, <3>1, <4>1, EventsAssumption DEF SnapshotType
      <4> QED BY <1>0, <4>1, <4>2 DEF SnapshotType, PhaseName
    <3>3. QueueType' /\ ToolType' /\ ShellType'
      BY <1>0, <1>1 DEF Check, QueueType, ToolType, ShellType
    <3>4. BoundType'
      BY <1>0, <1>1, <3>1 DEF Check, BoundType
    <3> QED BY <3>2, <3>3, <3>4
  <2> QED BY <2>1 DEF TypeOK
<1>2. CASE Install
  <2>1. ToolType'
    BY <1>0, <1>2 DEF Install, ToolType
  <2> QED BY <1>0, <1>2, <2>1, ChangeType DEF Install, PhaseName, SnapshotType
<1>3. CASE BeginTool
  <2>1. tools' \in Nat /\ tools' = tools + 1
    BY <1>0, <1>3 DEF BeginTool
  <2>2. Line(output.at + 1, "nothing") \in Out
    BY <1>0 DEF Line, Out, Asks
  <2>3. ToolType'
    BY <1>0, <1>3, <2>1, <2>2 DEF BeginTool, ToolType, Asks
  <2>4. Change(phase, tools', output, secret)
    BY <1>3 DEF BeginTool
  <2> QED BY <1>0, <1>3, <2>1, <2>3, <2>4, ChangeType DEF BeginTool, SnapshotType
<1>4. CASE Read
  <2>1. ToolType'
    BY <1>0, <1>4 DEF Read, Watched, ToolType
  <2> QED BY <1>0, <1>4, <2>1, ChangeType DEF Read, Watched, SnapshotType
<1>5. CASE Sample
  <2>1. ToolType'
    BY <1>0, <1>5 DEF Sample, Watched, ToolType
  <2> QED BY <1>0, <1>5, <2>1, ChangeType DEF Sample, Watched, SnapshotType
<1>6. CASE Settle
  <2>1. ToolType'
    BY <1>0, <1>6 DEF Settle, Watched, ToolType
  <2> QED BY <1>0, <1>6, <2>1, ChangeType DEF Settle, Watched, SnapshotType
<1>7. CASE Finish
  <2>1. ToolType'
    BY <1>0, <1>7 DEF Finish, ToolType
  <2>2. "ended" \in PhaseName
    BY DEF PhaseName
  <2> QED BY <1>0, <1>7, <2>1, <2>2, ChangeType DEF Finish, SnapshotType
<1>8. CASE Detach
  BY <1>0, <1>8 DEF Detach, TypeOK, SnapshotType, QueueType, ToolType, ShellType, BoundType
<1>9. CASE Archive
  <2>1. /\ QueueType' /\ SpentType(spent') /\ job' = job
        /\ filed' \in [1 .. MaxJobs -> Nat]
        /\ unfiled' \subseteq unfiled /\ owed' \subseteq IdSet
    BY <1>9, ArchiveFacts
  <2>2. SnapshotType'
    BY <1>0, <1>9, <2>1 DEF Archive, SnapshotType
  <2>3. ToolType' /\ ShellType'
    BY <1>0, <1>9, <2>1 DEF Archive, ToolType, ShellType
  <2>4. BoundType'
    BY <1>0, <2>1 DEF BoundType, SpentType
  <2> QED BY <2>1, <2>2, <2>3, <2>4 DEF TypeOK
<1>10. CASE Kill
  <2>1. SnapshotType'
    BY <1>0, <1>10 DEF Kill, Forgotten, SnapshotType
  <2>2. QueueType'
    BY <1>0, <1>10, EmptyQueue, EventsAssumption DEF Kill, Forgotten, QueueType
  <2>3. ToolType' /\ ShellType'
    BY <1>0, <1>10 DEF Kill, ToolType, ShellType
  <2>4. BoundType'
    BY <1>0, <1>10, SpendFacts DEF Kill
  <2> QED BY <2>1, <2>2, <2>3, <2>4 DEF TypeOK
<1>11. CASE Start
  <2>1. SnapshotType'
    <3>1. job \in Nat /\ (phase = "running" => job \in 1 .. job)
      BY <1>0 DEF SnapshotType
    <3> QED BY <1>0, <1>11, <3>1 DEF Start, SnapshotType, PhaseName
  <2>2. QueueType' /\ ToolType' /\ ShellType' /\ BoundType'
    BY <1>0, <1>11 DEF Start, QueueType, ToolType, ShellType, BoundType
  <2> QED BY <2>1, <2>2 DEF TypeOK
<1> QED BY <1>1, <1>2, <1>3, <1>4, <1>5, <1>6, <1>7, <1>8, <1>9, <1>10, <1>11

\* Native tools.
LEMMA ToolKeepsTypes == ASSUME TypeOK, Tool PROVE TypeOK'
<1> USE DEF snapshot, tracker, tool, line, shell, history, bounds
<1>0. /\ SnapshotType /\ QueueType /\ ToolType /\ ShellType /\ BoundType
  BY DEF TypeOK
<1>1. UNCHANGED <<mode, snapshot, terminal, tracker, queue, unfiled, file, line,
                  shell, history, tools>>
  BY DEF Tool, Ask, Take, Say, End, Untouched
<1>2. SnapshotType' /\ QueueType' /\ ShellType'
  BY <1>0, <1>1 DEF SnapshotType, QueueType, ShellType
<1>3. BoundType'
  <2>1. UNCHANGED spent \/ Spend("question")
    BY DEF Tool, Ask, Take, Say, End
  <2> QED BY <1>0, <1>1, <2>1, SpendFacts DEF BoundType
<1>4. ToolType'
  <2>1. \A asks \in Asks : Line(screen.at + 1, asks) \in Out
    BY <1>0 DEF ToolType, Line, Out
  <2>2. \/ screen' = screen
        \/ \E asks \in Asks : screen' = Line(screen.at + 1, asks)
    BY DEF Tool, Ask, Take, Say, End, Asks
  <2>3. screen' \in Out
    BY <1>0, <2>1, <2>2 DEF ToolType
  <2>4. /\ asking' \in Asks \cup {"ended"} /\ noecho' \in BOOLEAN /\ input' \in Nat
    <3>1. asking' \in Asks \cup {"ended"}
      BY <1>0 DEF Tool, Ask, Take, Say, End, ToolType, Asks
    <3>2. noecho' \in BOOLEAN
      <4>1. \/ noecho' = noecho \/ noecho' = FALSE
            \/ noecho' = ("yesno" = "password") \/ noecho' = ("password" = "password")
        BY Zenon DEF Tool, Ask, Take, Say, End
      <4> QED BY <1>0, <4>1 DEF ToolType
    <3>3. input' = input \/ (input > 0 /\ input' = input - 1)
      BY DEF Tool, Ask, Take, Say, End
    <3> QED BY <1>0, <3>1, <3>2, <3>3 DEF ToolType
  <2> QED BY <1>0, <1>1, <2>3, <2>4 DEF ToolType
<1> QED BY <1>2, <1>3, <1>4 DEF TypeOK

\* The receipt of a request.
LEMMA ReceiveType == ASSUME TypeOK, Receive PROVE TypeOK'
<1> USE DEF snapshot, tracker, tool, line, shell, history, bounds
<1>0. /\ SnapshotType /\ QueueType /\ ToolType /\ ShellType /\ BoundType
  BY DEF TypeOK
<1> DEFINE r == Head(sent)
<1>1. /\ sent # <<>> /\ sent \in Seq(Message) /\ replies \in Seq(Answer)
      /\ sent' = Tail(sent)
      /\ replies' = Append(replies, [job |-> job, phase |-> phase, events |-> queue'])
      /\ UNCHANGED <<mode, snapshot, terminal, unfiled, asking, noecho, shell,
                     owed, rang, again, person, filed, tools>>
  BY <1>0 DEF Receive, ShellType
<1>2. r \in Message /\ r.id \in IdSet
  <2>1. r \in Message
    BY <1>1, HeadTailProperties
  <2> QED BY <2>1 DEF Message
<1>3. \/ UNCHANGED <<tracker, queue, file, pushed, screen, input, spent>>
      \/ Delivered(r.id) /\ UNCHANGED <<tracker, pushed, screen, input>>
      \/ Acknowledge(r.id) /\ UNCHANGED <<tracker, pushed, screen, input>>
      \/ Typed /\ UNCHANGED number
  BY DEF Receive
<1> HIDE DEF r
<1>4. QueueType' /\ SpentType(spent')
  <2>1. CASE UNCHANGED <<tracker, queue, file, pushed, screen, input, spent>>
    BY <1>0, <2>1, TroubleFacts DEF QueueType
  <2>2. CASE Delivered(r.id) /\ UNCHANGED <<tracker, pushed, screen, input>>
    BY <1>0, <1>2, <2>2, DeliveredFacts
  <2>3. CASE Acknowledge(r.id) /\ UNCHANGED <<tracker, pushed, screen, input>>
    BY <1>0, <1>2, <2>3, AcknowledgeFacts
  <2>4. CASE Typed
    BY <1>0, <2>4, ClearedMoves DEF Typed
  <2> QED BY <1>3, <2>1, <2>2, <2>3, <2>4
<1>5. SnapshotType'
  <2>1. NoQuestion \in Asked
    BY DEF NoQuestion, Asked
  <2>2. active' \in Asked /\ answered' \in Asked /\ number' \in Nat
    BY <1>0, <1>3, <2>1 DEF Typed, SnapshotType
  <2> QED BY <1>0, <1>1, <2>2 DEF SnapshotType
<1>6. ToolType'
  <2>1. [screen EXCEPT !.echoed = TRUE] \in Out
    BY <1>0 DEF ToolType, Out
  <2>2. screen' \in Out /\ input' \in Nat
    <3>1. screen' = screen \/ screen' = [screen EXCEPT !.echoed = TRUE]
      BY <1>3 DEF Typed
    <3>2. input' = input \/ input' = input + 1
      BY <1>3 DEF Typed
    <3>3. screen \in Out /\ input \in Nat
      BY <1>0 DEF ToolType
    <3>4. input' \in Nat
      BY <3>2, <3>3
    <3>5. screen' \in Out
      BY <2>1, <3>1, <3>3, Zenon
    <3> QED BY <3>4, <3>5
  <2> QED BY <1>0, <1>1, <2>2 DEF ToolType
<1>7. ShellType'
  <2>1. sent' \in Seq(Message)
    BY <1>1, HeadTailProperties
  <2>2. [job |-> job, phase |-> phase, events |-> queue'] \in Answer
    BY <1>0, <1>4 DEF SnapshotType, QueueType, Answer
  <2>3. replies' \in Seq(Answer)
    BY <1>1, <2>2, AppendProperties
  <2> QED BY <1>0, <1>1, <2>1, <2>3 DEF ShellType
<1>8. BoundType'
  BY <1>0, <1>1, <1>4 DEF BoundType, SpentType
<1> QED BY <1>4, <1>5, <1>6, <1>7, <1>8 DEF TypeOK

\* The shell, its person, and what goes wrong on the way.
LEMMA FrontFacts ==
  ASSUME ShellType, replies # <<>>
  PROVE  /\ Front(replies) \in Seq(Answer)
         /\ Len(replies) > 0 /\ Len(Front(replies)) = Len(replies) - 1
         /\ \A k \in 1 .. Len(replies) - 1 : Front(replies)[k] = replies[k]
<1>1. /\ Len(replies) \in Nat \ {0}
      /\ \A k \in 1 .. Len(replies) : replies[k] \in Answer
  BY EmptySeq, ElementOfSeq DEF ShellType
<1>2. \A k \in 1 .. Len(replies) - 1 : replies[k] \in Answer
  BY <1>1
<1> DEFINE n == Len(replies) - 1
<1>3. n \in Int /\ 1 \in Int /\ n >= 0
  BY <1>1
<1> HIDE DEF n
<1>4. /\ SubSeq(replies, 1, n) \in Seq(Answer)
      /\ Len(SubSeq(replies, 1, n)) = IF 1 <= n THEN n - 1 + 1 ELSE 0
      /\ \A k \in 1 .. n - 1 + 1 : SubSeq(replies, 1, n)[k] = replies[1 + k - 1]
  BY <1>2, <1>3, SubSeqProperties DEF n
<1>5. Front(replies) = SubSeq(replies, 1, n)
  BY DEF Front, n
<1>6. Len(Front(replies)) = n
  BY <1>3, <1>4, <1>5
<1>7. \A k \in 1 .. n : Front(replies)[k] = replies[k]
  BY <1>3, <1>4, <1>5
<1> QED BY <1>1, <1>4, <1>5, <1>6, <1>7 DEF n

LEMMA DeskType ==
  ASSUME TypeOK, Shell \/ Person \/ Unanswered \/ ShellKilled
  PROVE  TypeOK'
<1> USE DEF snapshot, tracker, tool, line, shell, history, bounds
<1>0. /\ SnapshotType /\ QueueType /\ ToolType /\ ShellType /\ BoundType
  BY DEF TypeOK
<1>1. UNCHANGED <<mode, snapshot, terminal, tracker, queue, unfiled, file, tool,
                  pushed, filed, tools>>
  BY DEF Shell, Pass, Person, Type, PutAway, Unanswered, ShellKilled
<1>2. SnapshotType' /\ QueueType' /\ ToolType'
  BY <1>0, <1>1 DEF SnapshotType, QueueType, ToolType
<1>3. BoundType'
  <2>1. UNCHANGED spent \/ Spend("line") \/ Spend("trouble")
    BY DEF Shell, Pass, Person, Type, PutAway, Unanswered, ShellKilled
  <2> QED BY <1>0, <1>1, <2>1, SpendFacts DEF BoundType
<1>4. ShellType'
  <2>1. CASE Shell
    BY <1>0, <2>1, PassFacts DEF Shell
  <2>2. CASE Type
    <3>1. Request("input", [job |-> view.job, number |-> 0]) \in Message
      BY <1>0 DEF ShellType, View, Request, Message, IdSet
    <3>2. sent' \in Seq(Message)
      BY <1>0, <2>2, <3>1, AppendProperties DEF Type, ShellType
    <3> QED BY <1>0, <2>2, <3>2 DEF Type, ShellType
  <2>3. CASE \E id \in listed : PutAway(id)
    <3>1. PICK id \in listed : PutAway(id)
      BY <2>3
    <3>2. IsFiniteSet(listed \ {id})
      BY <1>0, FS_Difference DEF ShellType
    <3> QED BY <1>0, <3>1, <3>2 DEF PutAway, ShellType
  <2>4. CASE Unanswered
    <3>1. /\ replies' \in Seq(Answer)
      BY <1>0, <2>4, FrontFacts DEF Unanswered, ShellType
    <3>2. sent' \in Seq(Message)
      BY <1>0, <2>4, HeadTailProperties DEF Unanswered, ShellType
    <3> QED BY <1>0, <2>4, <3>1, <3>2 DEF Unanswered, ShellType
  <2>5. CASE ShellKilled
    <3>1. IsFiniteSet({}) /\ <<>> \in Seq(Message) /\ <<>> \in Seq(Answer)
      BY FS_EmptySet, EmptySeq
    <3>2. [job |-> 0, phase |-> "idle"] \in View
      BY DEF View, PhaseName
    <3> QED BY <1>0, <2>5, <3>1, <3>2 DEF ShellKilled, ShellType
  <2> QED BY <2>1, <2>2, <2>3, <2>4, <2>5 DEF Person
<1> QED BY <1>2, <1>3, <1>4 DEF TypeOK

LEMMA TypeStep == ASSUME TypeOK, [Next]_vars PROVE TypeOK'
<1>1. CASE Coordinator
  BY <1>1, WorkType, ReceiveType DEF Coordinator
<1>2. CASE UNCHANGED vars
  BY <1>2 DEF vars, snapshot, tracker, tool, line, shell, history, bounds, TypeOK,
              SnapshotType, QueueType, ToolType, ShellType, BoundType
<1> QED BY <1>1, <1>2, WorkType, ToolKeepsTypes, DeskType DEF Next

\* Every variable of the coordinator, its queue and its disk, of the tools and
\* of the shell keeps its type; the queue and its file keep their limit.
THEOREM TypeCorrect == Spec => []TypeOK
BY Init_Type, TypeStep, PTL DEF Spec

-----------------------------------------------------------------------------
(* The tracker follows the question *)

\* Only a running job has a question, and only what was told of has a number.
Quiet ==
  /\ phase # "running" \/ mode = "down" => active = NoQuestion /\ answered = NoQuestion
  /\ active # NoQuestion => number > 0
  /\ mode = "down" => queue = <<>>

\* What was read lies behind what was written, what is tracked behind that.
Placed ==
  /\ output.at <= screen.at
  /\ answered.kind = "text" => answered.at <= output.at
  /\ active.kind = "text" => active.at <= output.at

\* A tool that waits shows its question, and one that nobody has answered is
\* not the answered one.
Waiting ==
  /\ asking \in {"yesno", "password"} =>
       screen.asks = asking /\ (noecho <=> asking = "password")
  /\ asking = "nothing" => ~noecho
  /\ asking = "yesno" /\ input = 0 /\ answered.kind = "text"
       => answered.at < screen.at

\* A question that is read and not answered is tracked.
Tracked ==
  LET q == Question(phase, child, output, secret) IN
  asking \in {"yesno", "password"} /\ input = 0 /\ output = screen
    => active = q \/ Answered(answered, q)

Following == Quiet /\ Placed /\ Waiting /\ Tracked

\* A question that waits and was read is the tracker's.
LEMMA WaitingIsActive ==
  ASSUME TypeOK, Following, phase = "running", child # 0,
         output = screen, secret = noecho, input = 0,
         asking = "yesno" \/ (asking = "password" /\ answered = NoQuestion)
  PROVE  active # NoQuestion
<1> DEFINE q == Question(phase, child, output, secret)
<1>1. /\ output \in Out /\ child \in Nat /\ answered \in Asked
      /\ secret \in BOOLEAN
  BY DEF TypeOK, SnapshotType
<1>2. NoQuestion.kind = "none" /\ "text" # "none" /\ "secret" # "none"
  BY QuestionFacts, <1>1
<1>3. active = q \/ Answered(answered, q)
  BY DEF Following, Tracked
<1>4. screen.asks = asking /\ (noecho <=> asking = "password")
  BY DEF Following, Waiting
<1>5. CASE asking = "yesno"
  <2>1. q = Text(child, output)
    BY <1>1, <1>4, <1>5 DEF Question
  <2>2. q.kind = "text" /\ q.at = output.at
    BY <2>1 DEF Text
  <2>3. answered.kind = "text" => answered.at < output.at
    BY <1>5 DEF Following, Waiting
  <2>4. ~Answered(answered, q)
    <3>1. output.at \in Nat /\ answered.at \in Nat
      BY <1>1 DEF Out, Asked
    <3>2. output.at # answered.at \/ answered.kind # "text"
      BY <2>3, <3>1
    <3>3. answered # q
      BY <2>2, <3>2
    <3> QED BY <2>2, <3>2, <3>3 DEF Answered
  <2> QED BY <1>2, <1>3, <2>2, <2>4
<1>6. CASE asking = "password" /\ answered = NoQuestion
  <2>1. q = Secret(child)
    BY <1>1, <1>4, <1>6 DEF Question
  <2>2. q.kind = "secret"
    BY <2>1 DEF Secret, NoQuestion
  <2>3. ~Answered(answered, q)
    BY <1>2, <1>6, <2>2 DEF Answered
  <2> QED BY <1>2, <1>3, <2>2, <2>3
<1> QED BY <1>5, <1>6

LEMMA ChangeFollows ==
  ASSUME TypeOK, Following, NEW ph \in PhaseName, NEW pid \in Nat, NEW out \in Out,
         NEW sec \in BOOLEAN, Change(ph, pid, out, sec),
         mode' = mode, mode # "down",
         screen' \in Out, output.at <= out.at, out.at <= screen'.at,
         \/ asking' = "nothing" /\ ~noecho'
         \/ UNCHANGED <<asking, screen, noecho, input>>
  PROVE  Following'
<1> DEFINE new == Question(ph, pid, out, sec)
<1>1. /\ phase' = ph /\ child' = pid /\ output' = out /\ secret' = sec
      /\ answered' \in {answered, NoQuestion}
      /\ active' \in {new, NoQuestion}
      /\ active' = new \/ Answered(answered', new)
      /\ new = NoQuestion => answered' = NoQuestion
      /\ \/ /\ number' = number /\ (active' = NoQuestion \/ active' = active)
         \/ number' = number + 1
  BY ChangeFacts
<1>2. /\ new.kind = "text" => new.at = out.at
      /\ NoQuestion.kind = "none" /\ "text" # "none"
      /\ ph # "running" => new = NoQuestion
  BY QuestionFacts
<1>3. number \in Nat /\ output.at \in Nat /\ out.at \in Nat /\ screen'.at \in Nat
      /\ (answered.kind = "text" => answered.at \in Nat)
  BY DEF TypeOK, SnapshotType, Out, Asked
<1> HIDE DEF new
<1>4. Quiet'
  <2>1. phase' # "running" => active' = NoQuestion /\ answered' = NoQuestion
    BY <1>1, <1>2
  <2>2. active' # NoQuestion => number' > 0
    BY <1>1, <1>3 DEF Following, Quiet
  <2> QED BY <2>1, <2>2 DEF Quiet
<1>5. Placed'
  <2>1. answered'.kind = "text" => answered'.at <= out.at
    <3>1. answered.kind = "text" => answered.at <= output.at
      BY DEF Following, Placed
    <3> QED BY <1>1, <1>2, <1>3, <3>1
  <2>2. active'.kind = "text" => active'.at <= out.at
    BY <1>1, <1>2, <1>3
  <2> QED BY <1>1, <2>1, <2>2 DEF Placed
<1>6. Waiting'
  <2>1. CASE asking' = "nothing" /\ ~noecho'
    BY <2>1 DEF Waiting
  <2>2. CASE UNCHANGED <<asking, screen, noecho, input>>
    BY <1>1, <1>2, <2>2 DEF Following, Waiting
  <2> QED BY <2>1, <2>2
<1>7. Tracked'
  BY <1>1 DEF Tracked, new
<1> QED BY <1>4, <1>5, <1>6, <1>7 DEF Following

\* The actions that do not change the snapshot, or change it unseen.
LEMMA OthersFollow ==
  ASSUME TypeOK, Following,
         \/ Check \/ Start \/ Detach \/ Archive \/ Kill \/ Receive
         \/ Tool \/ Shell \/ Person \/ Unanswered \/ ShellKilled
  PROVE  Following'
<1> USE DEF snapshot, tracker, tool, line, shell, history, bounds
<1>0. /\ SnapshotType /\ ToolType
      /\ Quiet /\ Placed /\ Waiting /\ Tracked
      /\ output.at \in Nat /\ screen.at \in Nat /\ number \in Nat
      /\ active.at \in Nat /\ answered.at \in Nat
      /\ NoQuestion.kind = "none" /\ "text" # "none" /\ Blank.at = 0
  BY DEF TypeOK, SnapshotType, ToolType, Out, Asked, Following, NoQuestion, Blank, Line
<1>1. CASE Check
  <2>1. /\ phase' = "reviewing" /\ output' = Blank
        /\ active = NoQuestion /\ answered = NoQuestion /\ mode = "serving"
        /\ UNCHANGED <<mode, active, answered, number, queue, asking, screen, noecho, input>>
    BY <1>0, <1>1 DEF Check, Serving, Quiet
  <2>2. Quiet' /\ Placed' /\ Waiting'
    BY <1>0, <2>1 DEF Quiet, Placed, Waiting
  <2>3. Tracked'
    BY <2>1 DEF Tracked, Question
  <2> QED BY <2>2, <2>3 DEF Following
<1>2. CASE Start
  <2>1. /\ phase' # "running" /\ mode' # "down"
        /\ active = NoQuestion /\ answered = NoQuestion
        /\ UNCHANGED <<output, active, answered, number, asking, screen, noecho, input>>
    BY <1>0, <1>2 DEF Start, Quiet
  <2>2. Quiet' /\ Placed' /\ Waiting'
    BY <1>0, <2>1 DEF Quiet, Placed, Waiting
  <2>3. Tracked'
    BY <2>1 DEF Tracked, Question
  <2> QED BY <2>2, <2>3 DEF Following
<1>3. CASE Kill
  <2>1. /\ output' = Blank /\ active' = NoQuestion /\ answered' = NoQuestion
        /\ asking' = "ended" /\ queue' = <<>>
        /\ UNCHANGED <<screen, number>>
    BY <1>3 DEF Kill, Forgotten
  <2> QED BY <1>0, <2>1 DEF Following, Quiet, Placed, Waiting, Tracked
<1>4. CASE Receive /\ ~Typed
  <2>1. UNCHANGED <<mode, phase, child, output, secret, active, answered, number,
                    asking, screen, noecho, input>> /\ mode # "down"
    BY <1>4 DEF Receive, Serving
  <2> QED BY <1>0, <2>1 DEF Following, Quiet, Placed, Waiting, Tracked
<1>5. CASE Receive /\ Typed
  <2>1. /\ Serving /\ UNCHANGED <<mode, phase, child, output, secret, asking, noecho>>
        /\ answered' = active /\ active' = NoQuestion
        /\ input' = input + 1
        /\ screen' = IF noecho THEN screen ELSE [screen EXCEPT !.echoed = TRUE]
        /\ phase = "running"
    <3>1. input' = input + 1 /\ input' # input
      BY <1>0, <1>5 DEF Typed, ToolType
    <3>2. phase = "running"
      BY <1>5, <3>1 DEF Receive, Accepts
    <3> QED BY <1>5, <3>2 DEF Receive, Typed
  <2>2. screen'.at = screen.at /\ screen'.asks = screen.asks
    BY <1>0, <2>1 DEF ToolType, Out
  <2>3. input' # 0
    BY <1>0, <2>1 DEF ToolType
  <2>4. Quiet' /\ Placed' /\ Waiting' /\ Tracked'
    BY <1>0, <2>1, <2>2, <2>3 DEF Serving, Quiet, Placed, Waiting, Tracked
  <2> QED BY <2>4 DEF Following
<1>6. CASE Tool
  <2>1. UNCHANGED <<mode, phase, child, output, secret, active, answered, number, queue>>
    BY <1>6 DEF Tool, Ask, Take, Say, End, Untouched
  <2>2. Quiet'
    BY <1>0, <2>1 DEF Quiet
  <2>3. screen'.at \in Nat /\ screen.at <= screen'.at
    BY <1>0, <1>6 DEF Tool, Ask, Take, Say, End, Line
  <2>4. Placed'
    BY <1>0, <2>1, <2>3 DEF Placed
  <2>5. CASE Ask("yesno") \/ Ask("password")
    <3>1. /\ screen'.at = screen.at + 1 /\ screen'.asks = asking'
          /\ asking' \in {"yesno", "password"}
          /\ noecho' <=> asking' = "password"
      <4>1. PICK kind \in {"yesno", "password"} : Ask(kind)
        BY <2>5
      <4>2. /\ screen' = Line(screen.at + 1, kind) /\ asking' = kind
            /\ noecho' <=> kind = "password"
        BY <4>1, Zenon DEF Ask
      <4>3. screen'.at = screen.at + 1 /\ screen'.asks = kind
        BY <4>2 DEF Line
      <4> QED BY <4>2, <4>3
    <3>2. answered.kind = "text" => answered.at < screen'.at
      BY <1>0, <3>1 DEF Placed
    <3>3. output' # screen'
      BY <1>0, <2>1, <3>1 DEF Placed
    <3>4. Waiting'
      BY <2>1, <3>1, <3>2 DEF Waiting
    <3>5. Tracked'
      BY <3>3 DEF Tracked
    <3> QED BY <2>2, <2>4, <3>4, <3>5 DEF Following
  <2>6. CASE Take \/ Say \/ End
    <3>1. asking' \in {"nothing", "ended"} /\ (asking' = "nothing" => ~noecho')
      BY <1>0, <2>6 DEF Take, Say, End, Waiting
    <3> QED BY <2>2, <2>4, <3>1 DEF Following, Waiting, Tracked
  <2> QED BY <1>6, <2>5, <2>6 DEF Tool
<1>7. CASE Archive
  <2>1. /\ UNCHANGED <<phase, child, output, secret, active, answered, number,
                       asking, screen, noecho, input>>
        /\ mode # "down" /\ mode' = "serving"
    BY <1>7 DEF Archive
  <2> QED BY <1>0, <2>1 DEF Following, Quiet, Placed, Waiting, Tracked
<1>8. CASE Detach \/ Shell \/ Person \/ Unanswered \/ ShellKilled
  <2>1. UNCHANGED <<mode, phase, child, output, secret, active, answered, number,
                    queue, asking, screen, noecho, input>>
    BY <1>8 DEF Detach, Shell, Pass, Person, Type, PutAway, Unanswered, ShellKilled
  <2> QED BY <1>0, <2>1 DEF Following, Quiet, Placed, Waiting, Tracked
<1> QED BY <1>1, <1>2, <1>3, <1>4, <1>5, <1>6, <1>7, <1>8

LEMMA FollowingStep ==
  ASSUME TypeOK, Following, [Next]_vars
  PROVE  Following'
<1> USE DEF snapshot, tracker, tool, line, shell, history, bounds
<1>0. /\ output \in Out /\ screen \in Out /\ phase \in PhaseName /\ child \in Nat
      /\ secret \in BOOLEAN /\ noecho \in BOOLEAN /\ 0 \in Nat /\ FALSE \in BOOLEAN
      /\ tools + 1 \in Nat /\ output.at \in Nat /\ screen.at \in Nat
      /\ output.at <= screen.at
      /\ "running" \in PhaseName /\ "ended" \in PhaseName
  BY DEF TypeOK, SnapshotType, ToolType, Following, Placed, Out, PhaseName
<1>1. output.at <= output.at /\ screen.at <= screen.at
  BY <1>0
<1>2. CASE Install
  BY <1>0, <1>1, <1>2, ChangeFollows DEF Install, Serving
<1>3. CASE BeginTool
  <2>1. /\ Change(phase, tools + 1, output, secret)
        /\ asking' = "nothing" /\ noecho' = FALSE
        /\ screen' = Line(output.at + 1, "nothing")
        /\ mode' = mode /\ mode # "down"
    BY <1>3 DEF BeginTool, Serving
  <2>2. screen' \in Out /\ output.at <= screen'.at
    BY <1>0, <2>1 DEF Line, Out, Asks
  <2> QED BY <1>0, <1>1, <2>1, <2>2, ChangeFollows
<1>4. CASE Read
  BY <1>0, <1>1, <1>4, ChangeFollows DEF Read, Watched, Serving
<1>5. CASE Sample
  BY <1>0, <1>1, <1>5, ChangeFollows DEF Sample, Watched, Serving
<1>6. CASE Settle
  BY <1>0, <1>1, <1>6, ChangeFollows DEF Settle, Watched, Serving
<1>7. CASE Finish
  BY <1>0, <1>1, <1>7, ChangeFollows DEF Finish, Serving
<1>8. CASE UNCHANGED vars
  BY <1>8 DEF vars, Following, Quiet, Placed, Waiting, Tracked
<1> QED BY <1>2, <1>3, <1>4, <1>5, <1>6, <1>7, <1>8, OthersFollow DEF Next, Coordinator

-----------------------------------------------------------------------------
(* What a step does to the events, the counts and the replies *)

Requests(what) == {m.id : m \in {m \in Range(sent) : m.what = what}}

\* A step keeps the counts, and the phases follow each other.
LEMMA CountStep ==
  ASSUME TypeOK, [Next]_vars
  PROVE  /\ \/ job' = job /\ phase' = phase
            \/ job' = job + 1 /\ phase' = "reviewing" /\ phase # "running"
               /\ number' = number
            \/ job' = job /\ phase = "reviewing" /\ phase' = "running"
            \/ job' = job /\ phase = "running" /\ phase' = "ended"
         /\ number' \in {number, number + 1}
         /\ filed' = filed \/ Archive
         /\ person \subseteq person'
         /\ mode' # "down" => mode # "down" \/ Start
<1> USE DEF snapshot, tracker, tool, line, shell, history, bounds
<1>0. /\ phase \in PhaseName /\ child \in Nat /\ output \in Out /\ screen \in Out
      /\ secret \in BOOLEAN /\ noecho \in BOOLEAN /\ 0 \in Nat /\ FALSE \in BOOLEAN
      /\ tools + 1 \in Nat
      /\ "running" \in PhaseName /\ "ended" \in PhaseName
  BY DEF TypeOK, SnapshotType, ToolType, PhaseName
<1>1. CASE Check
  BY <1>1 DEF Check
<1>2. ASSUME NEW ph \in PhaseName, NEW pid \in Nat, NEW out \in Out, NEW sec \in BOOLEAN,
             Change(ph, pid, out, sec)
      PROVE  /\ job' = job /\ phase' = ph /\ number' \in {number, number + 1}
  BY <1>2, ChangeFacts
<1>3. CASE Install
  BY <1>0, <1>2, <1>3 DEF Install
<1>4. CASE BeginTool
  <2>1. Change(phase, tools + 1, output, secret) /\ UNCHANGED <<filed, person, mode>>
    BY <1>4 DEF BeginTool
  <2> QED BY <1>0, <1>2, <2>1
<1>5. CASE Read
  BY <1>0, <1>2, <1>5 DEF Read, Watched
<1>6. CASE Sample
  BY <1>0, <1>2, <1>6 DEF Sample, Watched
<1>7. CASE Settle
  BY <1>0, <1>2, <1>7 DEF Settle, Watched
<1>8. CASE Finish
  BY <1>0, <1>2, <1>8 DEF Finish
<1>9. CASE Detach \/ Archive \/ Kill
  BY <1>9 DEF Detach, Archive, Kill
<1>10. CASE Start
  BY <1>10 DEF Start
<1>11. CASE Receive
  <2>1. UNCHANGED <<job, phase, number, filed, person, mode>>
    BY <1>11 DEF Receive
  <2> QED BY <2>1
<1>12. CASE Tool
  BY <1>12 DEF Tool, Ask, Take, Say, End, Untouched
<1>13. CASE Shell \/ Person \/ Unanswered \/ ShellKilled
  BY <1>13 DEF Shell, Pass, Person, Type, PutAway, Unanswered, ShellKilled
<1>14. CASE UNCHANGED vars
  BY <1>14 DEF vars
<1> QED BY <1>1, <1>3, <1>4, <1>5, <1>6, <1>7, <1>8, <1>9, <1>10, <1>11, <1>12, <1>13,
           <1>14 DEF Next, Coordinator

\* The six things that happen to the queue.
AddsQuestion ==
  /\ Moves({Event(job, number + 1)}) /\ number' = number + 1
  /\ job' = job /\ job > 0 /\ phase' = "running"
  /\ active' # NoQuestion /\ [job |-> job, number |-> number + 1] \in Ids(queue')
AddsEnd ==
  /\ Archive /\ job' = job /\ phase' = phase /\ number' = number
  /\ job \in 1 .. MaxJobs /\ filed'[job] = filed[job] + 1
  /\ \A j \in 1 .. MaxJobs : j # job => filed'[j] = filed[j]
  /\ \/ Moves({})
     \/ Moves({Event(job, 0)}) /\ Id(Event(job, 0)) \notin Ids(queue)
Marking(id) ==
  /\ Ids(queue') = Ids(queue) /\ pushed' = pushed
  /\ \A e \in Range(queue') :
       \/ Id(e) # id /\ e \in Range(queue)
       \/ Id(e) = id /\ e.delivered
  /\ file' = file \/ file' = queue'

LEMMA QueueStep ==
  ASSUME TypeOK, [Next]_vars
  PROVE  \/ Moves({}) /\ ~Start /\ ~Archive
         \/ AddsQuestion /\ ~Start
         \/ AddsEnd /\ ~Start
         \/ \E id \in Requests("delivered") : Marking(id) /\ mode' # "down"
                                              /\ mode # "down"
         \/ queue' = <<>> /\ UNCHANGED <<file, pushed>> /\ mode' = "down"
         \/ UNCHANGED <<file, pushed>> /\ queue' = file /\ phase' # "running"
<1> USE DEF snapshot, tracker, tool, line, shell, history, bounds
<1>0. /\ phase \in PhaseName /\ child \in Nat /\ output \in Out /\ screen \in Out
      /\ secret \in BOOLEAN /\ noecho \in BOOLEAN /\ 0 \in Nat /\ FALSE \in BOOLEAN
      /\ tools + 1 \in Nat /\ job \in Nat /\ (phase # "idle" => job > 0)
      /\ "running" \in PhaseName /\ "ended" \in PhaseName
      /\ QueueType /\ BoundType /\ ShellType
  BY DEF TypeOK, SnapshotType, ToolType, PhaseName
<1>1. ASSUME NEW ph \in PhaseName, NEW pid \in Nat, NEW out \in Out, NEW sec \in BOOLEAN,
             Change(ph, pid, out, sec), phase = "idle" => ph # "running",
             mode # "down", unfiled' = unfiled \/ ~Archive
      PROVE  Moves({}) \/ AddsQuestion
  <2>1. /\ phase' = ph /\ job' = job
        /\ active' \in {Question(ph, pid, out, sec), NoQuestion}
        /\ \/ Moves({})
           \/ /\ number' = number + 1 /\ Moves({Event(job, number + 1)})
              /\ active' # NoQuestion
              /\ [job |-> job, number |-> number + 1] \in Ids(queue')
    BY <1>1, ChangeFacts
  <2>2. active' # NoQuestion => ph = "running"
    BY <2>1, QuestionFacts
  <2> QED BY <1>0, <1>1, <2>1, <2>2 DEF AddsQuestion
<1>2. ~Start /\ ~Archive => 
        \/ Moves({}) \/ AddsQuestion
        \/ \E id \in Requests("delivered") : Marking(id) /\ mode' # "down"
                                             /\ mode # "down"
        \/ queue' = <<>> /\ UNCHANGED <<file, pushed>> /\ mode' = "down"
  <2>0. SUFFICES ASSUME ~Start, ~Archive
                 PROVE  \/ Moves({}) \/ AddsQuestion
                        \/ \E id \in Requests("delivered") :
                             Marking(id) /\ mode' # "down" /\ mode # "down"
                        \/ queue' = <<>> /\ UNCHANGED <<file, pushed>> /\ mode' = "down"
    OBVIOUS
  <2>1. CASE Install
    BY <1>0, <1>1, <2>0, <2>1 DEF Install, Serving
  <2>2. CASE BeginTool
    <3>1. Change(phase, tools + 1, output, secret) /\ mode # "down" /\ phase = "running"
      BY <2>2 DEF BeginTool, Serving
    <3> QED BY <1>0, <1>1, <2>0, <3>1
  <2>3. CASE Read
    BY <1>0, <1>1, <2>0, <2>3 DEF Read, Serving
  <2>4. CASE Sample
    BY <1>0, <1>1, <2>0, <2>4 DEF Sample, Serving
  <2>5. CASE Settle
    BY <1>0, <1>1, <2>0, <2>5 DEF Settle, Serving
  <2>6. CASE Finish
    BY <1>0, <1>1, <2>0, <2>6 DEF Finish, Serving
  <2>7. CASE Kill
    BY <2>7 DEF Kill, Forgotten
  <2>8. CASE Receive
    <3> DEFINE r == Head(sent)
    <3>1. /\ sent # <<>> /\ sent \in Seq(Message) /\ mode = "serving" /\ mode' = mode
      BY <1>0, <2>8 DEF Receive, ShellType, Serving
    <3>2. r \in Message /\ r \in Range(sent) /\ r.id \in IdSet
      <4>1. Len(sent) \in Nat \ {0} /\ DOMAIN sent = 1 .. Len(sent)
        BY <3>1, EmptySeq, LenProperties
      <4>2. 1 \in DOMAIN sent /\ r = sent[1]
        BY <3>1, <4>1
      <4>3. r \in Message
        BY <3>1, HeadTailProperties
      <4>4. r.id \in IdSet
        BY <4>3 DEF Message
      <4> QED BY <4>2, <4>3, <4>4 DEF Range
    <3>3. \/ UNCHANGED <<queue, file, pushed>>
          \/ r.what = "delivered" /\ Delivered(r.id) /\ pushed' = pushed
          \/ Acknowledge(r.id) /\ pushed' = pushed
          \/ Typed
      BY <2>8 DEF Receive
    <3> HIDE DEF r
    <3>4. CASE UNCHANGED <<queue, file, pushed>>
      BY <3>4, NothingMoves
    <3>5. CASE r.what = "delivered" /\ Delivered(r.id) /\ pushed' = pushed
      <4>1. r.id \in Requests("delivered")
        BY <3>2, <3>5 DEF Requests
      <4>2. Marking(r.id)
        BY <1>0, <3>2, <3>5, DeliveredFacts DEF Marking
      <4> QED BY <3>1, <4>1, <4>2
    <3>6. CASE Acknowledge(r.id) /\ pushed' = pushed
      BY <1>0, <3>2, <3>6, AcknowledgeFacts
    <3>7. CASE Typed
      BY <1>0, <3>7, ClearedMoves DEF Typed
    <3> QED BY <3>3, <3>4, <3>5, <3>6, <3>7
  <2>9. CASE Check \/ Detach \/ Tool \/ Shell \/ Person \/ Unanswered \/ ShellKilled
             \/ UNCHANGED vars
    <3>1. UNCHANGED <<queue, file, pushed>>
      BY <2>9 DEF Check, Detach, Tool, Ask, Take, Say, End, Untouched, Shell, Pass, Person,
                  Type, PutAway, Unanswered, ShellKilled, vars
    <3> QED BY <3>1, NothingMoves
  <2> QED BY <2>0, <2>1, <2>2, <2>3, <2>4, <2>5, <2>6, <2>7, <2>8, <2>9 DEF Next, Coordinator
<1>3. Archive => AddsEnd /\ ~Start
  <2>1. Archive => /\ mode # "down" /\ phase' = phase /\ number' = number
    BY DEF Archive
  <2>2. Start => mode = "down"
    BY DEF Start
  <2> QED BY <2>1, <2>2, ArchiveFacts DEF AddsEnd
<1>4. Start => UNCHANGED <<file, pushed>> /\ queue' = file /\ phase' # "running"
  BY DEF Start
<1> QED BY <1>2, <1>3, <1>4

-----------------------------------------------------------------------------
(* What the coordinator knows of an event, and whether it waits to be told *)

\* The event of a job and of a question that there was.
Known(id) ==
  /\ id \in IdSet /\ id.job \in 1 .. job /\ id.number <= number
  /\ id.number > 0 /\ id.job = job => phase \in {"running", "ended"}
  /\ id.number = 0 => filed[id.job] > 0

\* The end of a job is in the queue or on disk; a question is in the queue and
\* that of the running job.
Waits(id) ==
  \/ id.number = 0 /\ id \in Ids(queue) \cup Ids(file)
  \/ id.number > 0 /\ id \in Ids(queue) /\ id.job = job /\ phase = "running"

\* What may come back: the end of a job that a full queue pushed out, or of one
\* that is filed twice.
Exempt(id) == id.number = 0 /\ (id \in pushed \/ filed[id.job] > 1)

LEMMA FiledGrows ==
  ASSUME TypeOK, [Next]_vars, NEW j \in 1 .. MaxJobs
  PROVE  filed[j] \in Nat /\ filed'[j] \in Nat /\ filed[j] <= filed'[j]
<1>1. filed \in [1 .. MaxJobs -> Nat]
  BY DEF TypeOK, BoundType
<1>2. CASE filed' = filed
  BY <1>1, <1>2
<1>3. CASE Archive
  <2>1. /\ filed' \in [1 .. MaxJobs -> Nat] /\ filed'[job] = filed[job] + 1
        /\ \A i \in 1 .. MaxJobs : i # job => filed'[i] = filed[i]
    BY <1>3, ArchiveFacts
  <2> QED BY <1>1, <2>1
<1> QED BY <1>2, <1>3, CountStep

LEMMA PushedGrows == ASSUME TypeOK, [Next]_vars PROVE pushed \subseteq pushed'
BY QueueStep DEF Moves, AddsQuestion, AddsEnd, Marking

LEMMA NumbersFacts ==
  ASSUME TypeOK
  PROVE  /\ job \in Nat /\ job <= MaxJobs /\ number \in Nat /\ MaxJobs \in Nat
         /\ \A id \in IdSet : id.job \in Nat /\ id.number \in Nat
                              /\ id = [job |-> id.job, number |-> id.number]
<1>1. MaxJobs \in Nat
  BY EventsAssumption
<1>2. \A id \in IdSet : id.job \in Nat /\ id.number \in Nat
                        /\ id = [job |-> id.job, number |-> id.number]
  BY DEF IdSet
<1> QED BY <1>1, <1>2 DEF TypeOK, SnapshotType

\* What is known stays known, and what is exempt exempt.
LEMMA KnownStep ==
  ASSUME TypeOK, [Next]_vars, NEW id, Known(id)
  PROVE  Known(id)' /\ (Exempt(id) => Exempt(id)')
<1>1. /\ job \in Nat /\ job <= MaxJobs /\ number \in Nat /\ MaxJobs \in Nat
      /\ id \in IdSet /\ id.job \in 1 .. job /\ id.number <= number
      /\ id.number \in Nat /\ id.job \in Nat
  BY NumbersFacts DEF Known
<1>2. id.job \in 1 .. MaxJobs
  BY <1>1
<1>3. filed[id.job] \in Nat /\ filed'[id.job] \in Nat /\ filed[id.job] <= filed'[id.job]
  BY <1>2, FiledGrows
<1>4. /\ job' \in {job, job + 1} /\ number' \in {number, number + 1}
      /\ job' = job + 1 \/ (job' = job /\ phase' = phase)
         \/ (job' = job /\ phase' \in {"running", "ended"})
  BY CountStep
<1>5. /\ id.job \in 1 .. job' /\ id.number <= number'
      /\ id.number > 0 /\ id.job = job' => phase' \in {"running", "ended"}
  BY <1>1, <1>4 DEF Known
<1>6. id.number = 0 => filed'[id.job] > 0
  BY <1>3 DEF Known
<1>7. Exempt(id) => Exempt(id)'
  BY <1>3, PushedGrows DEF Exempt
<1> QED BY <1>1, <1>5, <1>6, <1>7 DEF Known

\* What is known and no longer waits never waits again, but for what is exempt.
LEMMA WaitsNever ==
  ASSUME TypeOK, [Next]_vars, NEW id, Known(id), Waits(id)'
  PROVE  Waits(id) \/ Exempt(id)'
<1>1. /\ job \in Nat /\ job <= MaxJobs /\ number \in Nat /\ MaxJobs \in Nat
      /\ id \in IdSet /\ id.job \in 1 .. job /\ id.number <= number
      /\ id.number \in Nat /\ id.job \in Nat
      /\ id = [job |-> id.job, number |-> id.number]
  BY NumbersFacts DEF Known
<1>2. /\ Ids(queue) = {Id(e) : e \in Range(queue)}
      /\ Ids(queue') = {Id(e) : e \in Range(queue')}
      /\ Ids(file) = {Id(e) : e \in Range(file)}
      /\ Ids(file') = {Id(e) : e \in Range(file')}
  BY IdsOfEvents
<1>3. \A new : Moves(new) =>
         /\ Ids(queue') \subseteq Ids(queue) \cup Named(new)
         /\ Ids(file') \subseteq Ids(file) \cup Ids(queue) \cup Ids(queue')
  BY <1>2 DEF Moves, Named
<1>4. /\ Named({}) = {}
      /\ Named({Event(job, number + 1)}) = {[job |-> job, number |-> number + 1]}
      /\ Named({Event(job, 0)}) = {[job |-> job, number |-> 0]}
      /\ Id(Event(job, 0)) = [job |-> job, number |-> 0]
  <2>1. Named({}) = {} /\ \A e : Named({e}) = {Id(e)}
    BY DEF Named
  <2>2. number + 1 \in Nat /\ 0 \in Nat
    BY <1>1
  <2>3. /\ Id(Event(job, number + 1)) = [job |-> job, number |-> number + 1]
        /\ Id(Event(job, 0)) = [job |-> job, number |-> 0]
    BY <1>1, <2>2, EventFacts
  <2> QED BY <2>1, <2>3
<1>5. CASE id.number = 0
  <2>1. id \in Ids(queue') \cup Ids(file')
    BY <1>5 DEF Waits
  <2>2. CASE Moves({}) \/ AddsQuestion
    <3>1. id # [job |-> job, number |-> number + 1]
      BY <1>1, <1>5
    <3> QED BY <1>3, <1>4, <1>5, <2>1, <2>2, <3>1 DEF AddsQuestion, Waits
  <2>3. CASE AddsEnd
    <3>1. CASE id \in Ids(queue) \cup Ids(file)
      BY <1>5, <3>1 DEF Waits
    <3>2. CASE id \notin Ids(queue) \cup Ids(file)
      <4>1. id = [job |-> job, number |-> 0]
        BY <1>3, <1>4, <2>1, <2>3, <3>2 DEF AddsEnd
      <4>2. filed[job] \in Nat /\ filed[job] > 0 /\ filed'[job] = filed[job] + 1
            /\ id.job = job
        BY <1>1, <1>5, <2>3, <4>1, FiledGrows DEF AddsEnd, Known
      <4> QED BY <1>5, <4>2 DEF Exempt
    <3> QED BY <3>1, <3>2
  <2>4. CASE \E i \in Requests("delivered") : Marking(i)
    BY <1>5, <2>1, <2>4 DEF Marking, Waits
  <2>5. CASE (queue' = <<>> \/ queue' = file) /\ UNCHANGED <<file, pushed>>
    BY <1>5, <2>1, <2>5, EmptyQueue DEF Waits
  <2> QED BY <2>2, <2>3, <2>4, <2>5, QueueStep
<1>6. CASE id.number > 0
  <2>1. id \in Ids(queue') /\ id.job = job' /\ phase' = "running"
    BY <1>6 DEF Waits
  <2>2. id.job = job /\ phase = "running"
    <3>1. job' = job
      BY <2>1, CountStep
    <3>2. phase \in {"running", "ended"}
      BY <1>6, <2>1, <3>1 DEF Known
    <3> QED BY <2>1, <3>1, <3>2, CountStep
  <2>3. id \in Ids(queue)
    <3>1. /\ id # [job |-> job, number |-> number + 1]
          /\ id # [job |-> job, number |-> 0]
      BY <1>1, <1>6
    <3>2. CASE Moves({}) \/ AddsQuestion \/ AddsEnd
      BY <1>3, <1>4, <2>1, <3>1, <3>2 DEF AddsQuestion, AddsEnd
    <3>3. CASE \E i \in Requests("delivered") : Marking(i)
      BY <2>1, <3>3 DEF Marking
    <3>4. CASE queue' = <<>>
      BY <2>1, <3>4, EmptyQueue
    <3> QED BY <2>1, <3>2, <3>3, <3>4, QueueStep
  <2> QED BY <1>6, <2>2, <2>3 DEF Waits
<1> QED BY <1>1, <1>5, <1>6

-----------------------------------------------------------------------------
(* What a step does to what the shell was told *)

\* What some shell rang for, notes, or says that it has shown.
Told == rang \cup notes \cup Requests("delivered")

LEMMA RequestsMove ==
  ASSUME NEW what, NEW S,
         \A m \in Range(sent') : m \in Range(sent) \/ m.what # what \/ m.id \in S
  PROVE  Requests(what)' \subseteq Requests(what) \cup S
BY DEF Requests

LEMMA TailRange ==
  ASSUME ShellType, sent # <<>>
  PROVE  Range(Tail(sent)) \subseteq Range(sent)
<1>1. /\ sent \in Seq(Message) /\ Tail(sent) \in Seq(Message)
      /\ Len(sent) \in Nat \ {0} /\ Len(Tail(sent)) = Len(sent) - 1
      /\ \A i \in 1 .. Len(Tail(sent)) : Tail(sent)[i] = sent[i + 1]
  BY HeadTailProperties, EmptySeq, LenProperties DEF ShellType
<1>2. DOMAIN sent = 1 .. Len(sent) /\ DOMAIN Tail(sent) = 1 .. Len(Tail(sent))
  BY <1>1, LenProperties
<1>3. \A i \in 1 .. Len(Tail(sent)) : i + 1 \in 1 .. Len(sent)
  BY <1>1
<1> QED BY <1>1, <1>2, <1>3 DEF Range

LEMMA LineStep ==
  ASSUME TypeOK, [Next]_vars, ~Shell
  PROVE  /\ Told' \subseteq Told
         /\ Requests("acknowledge")' \subseteq Requests("acknowledge")
         /\ again' = again
         /\ \/ notes' = {}
            \/ notes' = notes /\ listed \cup person \subseteq listed' \cup person'
         /\ \/ UNCHANGED <<replies, view, pending>>
            \/ /\ Receive /\ UNCHANGED <<view, pending>>
               /\ replies' = Append(replies, [job |-> job, phase |-> phase,
                                              events |-> queue'])
            \/ /\ replies # <<>> /\ replies' = Front(replies)
               /\ UNCHANGED <<view, pending>>
            \/ replies' = <<>> /\ pending' = {} /\ Told' = {}
<1> USE DEF snapshot, tracker, tool, line, shell, history, bounds
<1>0. ShellType
  BY DEF TypeOK
<1>1. ASSUME Range(sent') \subseteq Range(sent)
      PROVE  \A what : Requests(what)' \subseteq Requests(what)
  BY <1>1 DEF Requests
<1>2. ASSUME Range(sent') \subseteq Range(sent), UNCHANGED <<notes, rang>>
      PROVE  /\ Told' \subseteq Told
             /\ Requests("acknowledge")' \subseteq Requests("acknowledge")
  BY <1>1, <1>2 DEF Told
<1>3. CASE Receive
  <2>1. /\ sent' = Tail(sent) /\ sent # <<>>
        /\ UNCHANGED <<notes, rang, again, listed, person, view, pending>>
        /\ replies' = Append(replies, [job |-> job, phase |-> phase, events |-> queue'])
    BY <1>3 DEF Receive
  <2>2. Range(sent') \subseteq Range(sent)
    BY <1>0, <2>1, TailRange
  <2> QED BY <1>2, <1>3, <2>1, <2>2
<1>4. CASE Unanswered
  <2>1. /\ UNCHANGED <<notes, rang, again, listed, person, view, pending>>
        /\ \/ replies # <<>> /\ replies' = Front(replies) /\ sent' = sent
           \/ sent # <<>> /\ sent' = Tail(sent) /\ replies' = replies
    BY <1>4 DEF Unanswered
  <2>2. Range(sent') \subseteq Range(sent)
    BY <1>0, <2>1, TailRange
  <2> QED BY <1>2, <2>1, <2>2
<1>5. CASE ShellKilled
  <2>1. /\ rang' = {} /\ notes' = {} /\ sent' = <<>> /\ again' = again
        /\ replies' = <<>> /\ pending' = {}
    BY <1>5 DEF ShellKilled
  <2>2. Range(sent') = {}
    BY <2>1 DEF Range
  <2>3. Told' = {} /\ Requests("acknowledge")' = {}
    BY <2>1, <2>2 DEF Told, Requests
  <2> QED BY <2>1, <2>3
<1>6. CASE Type
  <2>1. /\ UNCHANGED <<notes, rang, again, listed, person, replies, view, pending>>
        /\ sent' = Append(sent, Request("input", [job |-> view.job, number |-> 0]))
    BY <1>6 DEF Type
  <2> DEFINE m == Request("input", [job |-> view.job, number |-> 0])
  <2>2. m \in Message /\ m.what = "input"
    BY <1>0 DEF ShellType, View, Message, Request, IdSet
  <2>3. Range(sent') = Range(sent) \cup {m}
    <3>1. sent \in Seq(Message) /\ sent' = Append(sent, m)
      BY <1>0, <2>1 DEF ShellType
    <3> HIDE DEF m
    <3>2. /\ sent' \in Seq(Message) /\ Len(sent') = Len(sent) + 1
          /\ \A i \in 1 .. Len(sent) : sent'[i] = sent[i]
          /\ sent'[Len(sent) + 1] = m
      BY <2>2, <3>1, AppendProperties
    <3>3. /\ DOMAIN sent = 1 .. Len(sent) /\ DOMAIN sent' = 1 .. (Len(sent) + 1)
          /\ Len(sent) \in Nat
      BY <3>1, <3>2, LenProperties
    <3>4. DOMAIN sent' = DOMAIN sent \cup {Len(sent) + 1}
      BY <3>3
    <3> QED BY <3>2, <3>3, <3>4 DEF Range
  <2>4. /\ Requests("delivered")' \subseteq Requests("delivered") \cup {}
        /\ Requests("acknowledge")' \subseteq Requests("acknowledge") \cup {}
    <3> HIDE DEF m
    <3> QED BY <2>2, <2>3, RequestsMove
  <2> QED BY <2>1, <2>4 DEF Told
<1>7. CASE \E id \in listed : PutAway(id)
  <2>1. PICK id \in listed : PutAway(id)
    BY <1>7
  <2>2. /\ UNCHANGED <<notes, rang, again, replies, view, pending, sent>>
        /\ listed' = listed \ {id} /\ person' = person \cup {id}
    BY <2>1 DEF PutAway
  <2>3. listed \cup person \subseteq listed' \cup person'
    BY <2>2
  <2> QED BY <1>2, <2>2, <2>3
<1>8. CASE \/ Check \/ Install \/ BeginTool \/ Start \/ Read \/ Sample \/ Detach
           \/ Settle \/ Finish \/ Archive \/ Tool \/ Kill \/ UNCHANGED vars
  <2>1. UNCHANGED <<notes, rang, again, listed, person, replies, view, pending, sent>>
    <3>1. CASE \/ Check \/ Install \/ BeginTool \/ Start \/ Read \/ Sample \/ Detach
      BY <3>1 DEF Check, Install, BeginTool, Start, Read, Sample, Detach, Watched
    <3>2. CASE \/ Settle \/ Finish \/ Archive \/ Tool \/ Kill \/ UNCHANGED vars
      BY <3>2 DEF Settle, Finish, Archive, Tool, Ask, Take, Say, End, Untouched, Kill,
                  Watched, vars
    <3> QED BY <1>8, <3>1, <3>2
  <2> QED BY <1>2, <2>1
<1> QED BY <1>3, <1>4, <1>5, <1>6, <1>7, <1>8 DEF Next, Coordinator, Person

\* What the shell knows after a reply stays, the last reply may go, and one more
\* may come.
LEMMA RepliesStep ==
  ASSUME TypeOK, [Next]_vars, ~Shell
  PROVE  \A k \in 0 .. Len(replies') :
           \/ /\ k \in 0 .. Len(replies)
              /\ ViewAt(k)' = ViewAt(k) /\ PendingAt(k)' = PendingAt(k)
              /\ k > 0 => replies'[k] = replies[k]
           \/ /\ k = Len(replies) + 1 /\ Receive
              /\ ViewAt(k)' = [job |-> job, phase |-> phase]
              /\ PendingAt(k)' = Ids(queue') /\ replies'[k].events = queue'
           \/ /\ k = 0 /\ PendingAt(k)' = {} /\ Told' = {} /\ Len(replies') = 0
<1> TAKE k \in 0 .. Len(replies')
<1>0. /\ replies \in Seq(Answer) /\ Len(replies) \in Nat
      /\ replies' \in Seq(Answer) /\ Len(replies') \in Nat /\ ShellType
  <2>1. TypeOK'
    BY TypeStep
  <2> QED BY <2>1, LenProperties DEF TypeOK, ShellType
<1>1. ASSUME k \in 0 .. Len(replies), UNCHANGED <<view, pending>>,
             k > 0 => replies'[k] = replies[k]
      PROVE  ViewAt(k)' = ViewAt(k) /\ PendingAt(k)' = PendingAt(k)
  <2>1. CASE k = 0
    BY <1>1, <2>1 DEF ViewAt, PendingAt
  <2>2. CASE k # 0
    <3>1. replies'[k] = replies[k]
      BY <1>0, <1>1, <2>2
    <3> QED BY <2>2, <3>1 DEF ViewAt, PendingAt
  <2> QED BY <2>1, <2>2
<1>2. CASE UNCHANGED <<replies, view, pending>>
  BY <1>1, <1>2
<1>3. CASE /\ Receive /\ UNCHANGED <<view, pending>>
           /\ replies' = Append(replies, [job |-> job, phase |-> phase,
                                          events |-> queue'])
  <2> DEFINE a == [job |-> job, phase |-> phase, events |-> queue']
  <2>1. a \in Answer /\ a.job = job /\ a.phase = phase /\ a.events = queue'
    <3>1. QueueType'
      BY TypeStep DEF TypeOK
    <3> QED BY <3>1 DEF Answer, TypeOK, SnapshotType, QueueType
  <2>2. replies' = Append(replies, a)
    BY <1>3
  <2> HIDE DEF a
  <2>3. /\ Len(replies') = Len(replies) + 1
        /\ \A i \in 1 .. Len(replies) : replies'[i] = replies[i]
        /\ replies'[Len(replies) + 1] = a
    BY <1>0, <2>1, <2>2, AppendProperties
  <2>4. CASE k = Len(replies) + 1
    <3>1. k # 0 /\ replies'[k] = a
      BY <1>0, <2>3, <2>4
    <3>2. ViewAt(k)' = [job |-> job, phase |-> phase] /\ PendingAt(k)' = Ids(queue')
      BY <2>1, <3>1 DEF ViewAt, PendingAt
    <3> QED BY <1>3, <2>1, <2>4, <3>1, <3>2
  <2>5. CASE k # Len(replies) + 1
    <3>1. k \in 0 .. Len(replies) /\ (k > 0 => replies'[k] = replies[k])
      BY <1>0, <2>3, <2>5
    <3> QED BY <1>1, <1>3, <3>1
  <2> QED BY <2>4, <2>5
<1>4. CASE /\ replies # <<>> /\ replies' = Front(replies)
           /\ UNCHANGED <<view, pending>>
  <2>1. /\ Len(replies') = Len(replies) - 1
        /\ \A i \in 1 .. Len(replies) - 1 : replies'[i] = replies[i]
    BY <1>0, <1>4, FrontFacts
  <2>2. k \in 0 .. Len(replies) /\ (k > 0 => replies'[k] = replies[k])
    BY <1>0, <2>1
  <2> QED BY <1>1, <1>4, <2>2
<1>5. CASE replies' = <<>> /\ pending' = {} /\ Told' = {}
  <2>1. Len(replies') = 0
    BY <1>5
  <2>2. k = 0
    BY <2>1
  <2> QED BY <1>5, <2>1, <2>2 DEF PendingAt
<1> QED BY <1>2, <1>3, <1>4, <1>5, LineStep

\* A turn of the shell's loop leaves the shell where the last reply put it.
LEMMA PassStep ==
  ASSUME TypeOK, Shell
  PROVE  /\ Told' \subseteq Told \cup Named(Showing)
         /\ Requests("acknowledge")' \subseteq Requests("acknowledge") \cup Taking
         /\ Len(replies') = 0
         /\ ViewAt(0)' = ViewAt(Len(replies)) /\ PendingAt(0)' = PendingAt(Len(replies))
         /\ view' = ViewAt(Len(replies)) /\ pending' = PendingAt(Len(replies))
         /\ Named(Showing) \subseteq Named(Arrived)
         /\ \A id \in Named(Arrived) : \E k \in 1 .. Len(replies) : id \in PendingAt(k)
         /\ notes' \subseteq listed'
         /\ \A id \in again' \ again :
              /\ id \in rang \cup Shown
              /\ \E e \in Showing : id = Id(e) /\ ~e.delivered
         /\ UNCHANGED <<mode, job, phase, number, queue, file, person, pushed, filed>>
<1>1. PICK asks \in BOOLEAN : Pass(asks)
  BY DEF Shell
<1>2. ShellType
  BY DEF TypeOK
<1>3. /\ Showing \subseteq Arrived
      /\ Range(sent') \subseteq
              Range(sent) \cup {Poll}
                 \cup {Request("delivered", id) : id \in Named(Showing)}
                 \cup {Request("acknowledge", id) : id \in Taking}
      /\ view' = ViewAt(Len(replies)) /\ pending' = PendingAt(Len(replies))
      /\ Len(replies') = 0
      /\ notes' \subseteq Keeping /\ listed' = Keeping
      /\ notes' \subseteq notes \cup Named(Showing)
      /\ rang' \subseteq rang \cup Named(Showing)
      /\ \A id \in again' \ again :
              /\ id \in rang \cup Shown
              /\ \E e \in Showing : id = Id(e) /\ ~e.delivered
      /\ UNCHANGED <<mode, snapshot, tracker, queue, file, person, pushed, filed>>
  BY <1>1, <1>2, PassFacts, Zenon
<1>4. /\ Requests("delivered")' \subseteq Requests("delivered") \cup Named(Showing)
      /\ Requests("acknowledge")' \subseteq Requests("acknowledge") \cup Taking
  <2>1. ASSUME NEW m \in Range(sent')
        PROVE  /\ m \in Range(sent) \/ m.what # "delivered" \/ m.id \in Named(Showing)
               /\ m \in Range(sent) \/ m.what # "acknowledge" \/ m.id \in Taking
    <3>1. \A what, id : Request(what, id).what = what /\ Request(what, id).id = id
      BY DEF Request
    <3>2. Poll.what = "events"
      BY <3>1 DEF Poll
    <3>3. CASE m \in Range(sent) \/ m = Poll
      BY <3>2, <3>3
    <3>4. CASE \E id \in Named(Showing) : m = Request("delivered", id)
      <4>1. PICK id \in Named(Showing) : m = Request("delivered", id)
        BY <3>4
      <4>2. m.what = "delivered" /\ m.id = id
        BY <3>1, <4>1
      <4> QED BY <4>2
    <3>5. CASE \E id \in Taking : m = Request("acknowledge", id)
      <4>1. PICK id \in Taking : m = Request("acknowledge", id)
        BY <3>5
      <4>2. m.what = "acknowledge" /\ m.id = id
        BY <3>1, <4>1
      <4> QED BY <4>2
    <3> QED BY <1>3, <2>1, <3>3, <3>4, <3>5
  <2> QED BY <2>1, RequestsMove
<1>5. Told' \subseteq Told \cup Named(Showing)
  BY <1>3, <1>4 DEF Told
<1>6. /\ ViewAt(0)' = view' /\ PendingAt(0)' = pending'
  BY DEF ViewAt, PendingAt
<1>7. Named(Showing) \subseteq Named(Arrived)
  BY <1>3 DEF Named
<1>8. \A id \in Named(Arrived) : \E k \in 1 .. Len(replies) : id \in PendingAt(k)
  <2> TAKE id \in Named(Arrived)
  <2>1. PICK e \in Arrived : id = Id(e)
    BY DEF Named
  <2>2. PICK k \in 1 .. Len(replies) : e \in Range(replies[k].events)
    BY <1>2, <2>1, ArrivedFacts
  <2>3. k # 0
    BY <1>2, AnswerFacts
  <2> QED BY <2>1, <2>2, <2>3, IdsOfEvents DEF PendingAt
<1> QED BY <1>3, <1>4, <1>5, <1>6, <1>7, <1>8 DEF snapshot, tracker

-----------------------------------------------------------------------------
(* Every event that is queued, saved, told of or taken back is known *)

KnownAll ==
  /\ \A id \in Ids(queue) \cup Ids(file) : Known(id)
  /\ \A id \in Told \cup Requests("acknowledge") : Known(id)
  /\ \A k \in 0 .. Len(replies) : \A id \in PendingAt(k) : Known(id)

LEMMA QueueIsKnown ==
  ASSUME TypeOK, [Next]_vars, KnownAll
  PROVE  \A id \in Ids(queue') \cup Ids(file') : Known(id)'
<1>1. \A id \in Ids(queue) \cup Ids(file) : Known(id)'
  BY KnownStep DEF KnownAll
<1>2. /\ Ids(queue) = {Id(e) : e \in Range(queue)}
      /\ Ids(queue') = {Id(e) : e \in Range(queue')}
      /\ Ids(file) = {Id(e) : e \in Range(file)}
      /\ Ids(file') = {Id(e) : e \in Range(file')}
  BY IdsOfEvents
<1>3. ASSUME NEW e, Moves({e}), Known(Id(e))'
      PROVE  \A id \in Ids(queue') \cup Ids(file') : Known(id)'
  BY <1>1, <1>2, <1>3 DEF Moves
<1>4. /\ job \in Nat /\ job <= MaxJobs /\ number \in Nat /\ number + 1 \in Nat
      /\ MaxJobs \in Nat /\ 0 \in Nat
  BY NumbersFacts
<1>5. CASE Moves({})
  BY <1>1, <1>2, <1>5 DEF Moves
<1>6. CASE AddsQuestion
  <2>0. PICK e : e = Event(job, number + 1)
    OBVIOUS
  <2>1. Id(e) = [job |-> job, number |-> number + 1]
    BY <1>4, <2>0, EventFacts
  <2>2. /\ Id(e) \in IdSet /\ Id(e).job = job /\ Id(e).number = number + 1
    BY <1>4, <2>1 DEF IdSet
  <2>3. /\ job' = job /\ job > 0 /\ number' = number + 1 /\ phase' = "running"
        /\ Moves({e})
    BY <1>6, <2>0 DEF AddsQuestion
  <2>4. Known(Id(e))'
    BY <1>4, <2>2, <2>3 DEF Known
  <2> QED BY <1>3, <2>3, <2>4
<1>7. CASE AddsEnd
  <2>0. PICK e : e = Event(job, 0)
    OBVIOUS
  <2>1. Id(e) = [job |-> job, number |-> 0]
    BY <1>4, <2>0, EventFacts
  <2>2. /\ Id(e) \in IdSet /\ Id(e).job = job /\ Id(e).number = 0
    BY <1>4, <2>1 DEF IdSet
  <2>3. /\ job' = job /\ job \in 1 .. MaxJobs /\ number' = number
        /\ filed'[job] = filed[job] + 1 /\ (Moves({}) \/ Moves({e}))
    BY <1>7, <2>0 DEF AddsEnd
  <2>4. filed[job] \in Nat
    BY <2>3, FiledGrows
  <2>5. Known(Id(e))'
    BY <1>4, <2>2, <2>3, <2>4 DEF Known
  <2> QED BY <1>3, <1>5, <2>3, <2>5
<1>8. CASE \E i \in Requests("delivered") : Marking(i)
  BY <1>1, <1>8 DEF Marking
<1>9. CASE (queue' = <<>> \/ queue' = file) /\ UNCHANGED <<file, pushed>>
  BY <1>1, <1>9, EmptyQueue
<1> QED BY <1>5, <1>6, <1>7, <1>8, <1>9, QueueStep

LEMMA KnownAllStep ==
  ASSUME TypeOK, [Next]_vars, KnownAll
  PROVE  KnownAll'
<1>1. \A id : Known(id) => Known(id)'
  BY KnownStep
<1>2. \A id \in Ids(queue') \cup Ids(file') : Known(id)'
  BY QueueIsKnown
<1>3. Len(replies) \in Nat /\ Len(replies') \in Nat
  <2>1. TypeOK'
    BY TypeStep
  <2> QED BY <2>1, LenProperties DEF TypeOK, ShellType
<1>4. CASE Shell
  <2>1. /\ Told' \subseteq Told \cup Named(Arrived)
        /\ Requests("acknowledge")' \subseteq Requests("acknowledge") \cup Taking
        /\ Len(replies') = 0 /\ PendingAt(0)' = PendingAt(Len(replies))
        /\ \A id \in Named(Arrived) : \E k \in 1 .. Len(replies) : id \in PendingAt(k)
        /\ Named(Showing) \subseteq Named(Arrived)
    BY <1>4, PassStep
  <2>2. \A k \in 1 .. Len(replies) : \A id \in PendingAt(k) : Known(id)
    BY <1>3 DEF KnownAll
  <2>3. Taking \subseteq Told \cup Named(Arrived)
    <3>1. Named(Arrived \ Showing) \subseteq Named(Arrived)
      BY DEF Named
    <3> QED BY <2>1, <3>1 DEF Taking, Told
  <2>4. \A id \in Told \cup Named(Arrived) \cup Requests("acknowledge") : Known(id)'
    BY <1>1, <2>1, <2>2 DEF KnownAll
  <2>5. \A id \in PendingAt(Len(replies)) : Known(id)'
    <3>1. Len(replies) \in 0 .. Len(replies)
      BY <1>3
    <3> QED BY <1>1, <3>1 DEF KnownAll
  <2>6. \A id \in (Told \cup Requests("acknowledge"))' : Known(id)'
    BY <2>1, <2>3, <2>4
  <2>7. \A k \in 0 .. Len(replies') : PendingAt(k)' = PendingAt(Len(replies))
    <3>1. \A k \in 0 .. Len(replies') : k = 0
      BY <2>1
    <3> QED BY <2>1, <3>1
  <2> QED BY <1>2, <2>5, <2>6, <2>7 DEF KnownAll
<1>5. CASE ~Shell
  <2>1. \A id \in (Told \cup Requests("acknowledge"))' : Known(id)'
    BY <1>1, <1>5, LineStep DEF KnownAll
  <2>2. ASSUME NEW k \in 0 .. Len(replies'), NEW id \in PendingAt(k)'
        PROVE  Known(id)'
    <3>1. \/ k \in 0 .. Len(replies) /\ PendingAt(k)' = PendingAt(k)
          \/ PendingAt(k)' = Ids(queue')
          \/ PendingAt(k)' = {}
      BY <1>5, <2>2, RepliesStep
    <3> QED BY <1>1, <1>2, <2>2, <3>1 DEF KnownAll
  <2> QED BY <1>2, <2>1, <2>2 DEF KnownAll
<1> QED BY <1>4, <1>5

-----------------------------------------------------------------------------
(* What was told of comes and goes once *)

\* What the end of a job says is on disk stays in memory, unless pushed out.
OnDisk ==
  mode # "down" =>
    \A id \in Ids(file) : id.number = 0 => id \in Ids(queue) \cup pushed

\* The shell would show the event with what it knows after the k-th reply.
ShowsAt(id, k) ==
  id \in PendingAt(k) /\ ~Obsolete(id, ViewAt(k), PendingAt(k))

\* What is not shown any more after some reply does not wait, and no later
\* reply shows it.
Goes(id, k) ==
  \A j \in k .. Len(replies) : ~ShowsAt(id, j) =>
     ~Waits(id) /\ \A l \in j .. Len(replies) : ~ShowsAt(id, l)

LEMMA OnDiskStep ==
  ASSUME TypeOK, [Next]_vars, OnDisk
  PROVE  OnDisk'
<1>1. SUFFICES ASSUME mode' # "down", NEW id \in Ids(file'), id.number = 0
               PROVE  id \in Ids(queue') \cup pushed'
  BY DEF OnDisk
<1>2. /\ Ids(queue) = {Id(e) : e \in Range(queue)}
      /\ Ids(file') = {Id(e) : e \in Range(file')}
      /\ \A e \in Range(queue) : Id(e).number = e.number
  <2>1. Range(queue) \subseteq EventSet
    BY EventsType DEF TypeOK, QueueType
  <2> QED BY <2>1, IdsOfEvents, IdFacts
<1>3. ASSUME NEW new, Moves(new), mode # "down"
      PROVE  id \in Ids(queue') \cup pushed'
  <2>1. CASE file' = queue'
    BY <1>1, <2>1
  <2>2. CASE /\ file' # queue'
             /\ \A e \in Range(queue) : e.number = 0 => Id(e) \in Ids(queue') \cup pushed'
    <3>1. \A i \in Ids(queue) : i.number = 0 => i \in Ids(queue') \cup pushed'
      BY <1>2, <2>2
    <3>2. CASE file' = file
      BY <1>1, <1>3, <3>1, <3>2 DEF OnDisk, Moves
    <3>3. CASE Range(file') \subseteq Range(queue)
      BY <1>1, <1>2, <3>1, <3>3
    <3> QED BY <1>3, <2>2, <3>2, <3>3 DEF Moves
  <2> QED BY <1>3, <2>1, <2>2 DEF Moves
<1>4. ~Start => mode # "down"
  BY <1>1, CountStep
<1>5. CASE \E i \in Requests("delivered") : Marking(i) /\ mode # "down"
  BY <1>1, <1>5 DEF Marking, OnDisk
<1>6. CASE file' = file /\ queue' = file
  BY <1>1, <1>6
<1> QED BY <1>1, <1>3, <1>4, <1>5, <1>6, QueueStep DEF AddsQuestion, AddsEnd

\* A reply shows what waits when it is given.
LEMMA ReplyShows ==
  ASSUME TypeOK, Receive, OnDisk', NEW id \in IdSet, NEW k \in Nat,
         ViewAt(k)' = [job |-> job, phase |-> phase], PendingAt(k)' = Ids(queue')
  PROVE  /\ ShowsAt(id, k)' => Waits(id)'
         /\ Waits(id)' => ShowsAt(id, k)' \/ Exempt(id)'
<1>1. /\ job' = job /\ phase' = phase /\ mode' # "down"
  BY DEF Receive, Serving, snapshot
<1>2. id.number \in Nat
  BY DEF IdSet
<1>3. ViewAt(k)'.job = job /\ ViewAt(k)'.phase = phase
  OBVIOUS
<1>4. ShowsAt(id, k)' <=>
        /\ id \in Ids(queue')
        /\ id.number > 0 => job = id.job /\ phase = "running"
  BY <1>2, <1>3 DEF ShowsAt, Obsolete
<1>5. CASE id.number = 0
  BY <1>1, <1>4, <1>5 DEF Waits, Exempt, OnDisk
<1>6. CASE id.number > 0
  BY <1>1, <1>2, <1>4, <1>6 DEF Waits
<1> QED BY <1>2, <1>5, <1>6

\* The shell was killed, and another knows nothing.
Gone == Told = {} /\ Len(replies) = 0 /\ PendingAt(0) = {}

LEMMA GoesStep ==
  ASSUME TypeOK, [Next]_vars, ~Shell, OnDisk', ~Gone',
         NEW id, Known(id), NEW k \in Nat, Goes(id, k)
  PROVE  Goes(id, k)' \/ Exempt(id)'
<1>0. Len(replies) \in Nat /\ Len(replies') \in Nat /\ id \in IdSet
  <2>1. TypeOK'
    BY TypeStep
  <2> QED BY <2>1, LenProperties DEF TypeOK, ShellType, Known
<1> DEFINE old(i) == /\ i \in 0 .. Len(replies)
                     /\ ViewAt(i)' = ViewAt(i) /\ PendingAt(i)' = PendingAt(i)
           fresh(i) == /\ i = Len(replies) + 1 /\ Receive
                       /\ ViewAt(i)' = [job |-> job, phase |-> phase]
                       /\ PendingAt(i)' = Ids(queue')
<1>1. \A i \in 0 .. Len(replies') : old(i) \/ fresh(i)
  <2> TAKE i \in 0 .. Len(replies')
  <2>1. old(i) \/ fresh(i) \/ (i = 0 /\ PendingAt(i)' = {} /\ Told' = {} /\ Len(replies') = 0)
    BY RepliesStep, Zenon
  <2> QED BY <2>1 DEF Gone
<1>2. ASSUME NEW i, old(i)
      PROVE  ShowsAt(id, i)' <=> ShowsAt(id, i)
  BY <1>2 DEF ShowsAt, Obsolete
<1>3. ASSUME NEW i \in Nat, fresh(i)
      PROVE  /\ ShowsAt(id, i)' => Waits(id)'
             /\ Waits(id)' => ShowsAt(id, i)' \/ Exempt(id)'
  BY <1>0, <1>3, ReplyShows
<1>4. Waits(id)' => Waits(id) \/ Exempt(id)'
  BY WaitsNever
<1>5. SUFFICES ASSUME ~Exempt(id)', NEW j \in k .. Len(replies'), ~ShowsAt(id, j)'
               PROVE  ~Waits(id)' /\ \A l \in j .. Len(replies') : ~ShowsAt(id, l)'
  BY DEF Goes
<1>6. j \in Nat /\ j \in 0 .. Len(replies') /\ k <= j
  BY <1>0
<1> HIDE DEF old, fresh
<1>7. CASE old(j)
  <2>1. j \in k .. Len(replies) /\ ~ShowsAt(id, j)
    BY <1>0, <1>2, <1>5, <1>6, <1>7 DEF old
  <2>2. ~Waits(id) /\ \A l \in j .. Len(replies) : ~ShowsAt(id, l)
    BY <2>1 DEF Goes
  <2>3. ~Waits(id)'
    BY <1>4, <1>5, <2>2
  <2>4. ASSUME NEW l \in j .. Len(replies')
        PROVE  ~ShowsAt(id, l)'
    <3>1. l \in Nat /\ l \in 0 .. Len(replies')
      BY <1>0, <1>6
    <3>2. CASE old(l)
      <4>1. l \in j .. Len(replies)
        BY <1>6, <3>1, <3>2 DEF old
      <4> QED BY <1>2, <2>2, <3>2, <4>1
    <3>3. CASE fresh(l)
      BY <1>3, <2>3, <3>1, <3>3
    <3> QED BY <1>1, <3>1, <3>2, <3>3
  <2> QED BY <2>3, <2>4
<1>8. CASE fresh(j)
  <2>1. ~Waits(id)'
    BY <1>3, <1>5, <1>6, <1>8
  <2>2. ASSUME NEW l \in j .. Len(replies')
        PROVE  ~ShowsAt(id, l)'
    <3>1. l \in Nat /\ l \in 0 .. Len(replies') /\ j <= l
      BY <1>0, <1>6
    <3>2. ~old(l)
      BY <1>0, <1>8, <3>1 DEF old, fresh
    <3> QED BY <1>1, <1>3, <2>1, <3>1, <3>2
  <2> QED BY <2>1, <2>2
<1> QED BY <1>1, <1>6, <1>7, <1>8

\* A turn of the loop leaves only what the last reply said.
LEMMA GoesPass ==
  ASSUME TypeOK, Shell, NEW id, NEW k \in 0 .. Len(replies), Goes(id, k)
  PROVE  /\ Goes(id, 0)'
         /\ ShowsAt(id, 0)' <=> ShowsAt(id, Len(replies))
<1>1. /\ Len(replies') = 0 /\ Len(replies) \in Nat
      /\ ViewAt(0)' = ViewAt(Len(replies)) /\ PendingAt(0)' = PendingAt(Len(replies))
      /\ UNCHANGED <<job, phase, queue, file>>
  BY PassStep, LenProperties DEF TypeOK, ShellType
<1>2. /\ ShowsAt(id, 0)' <=> ShowsAt(id, Len(replies))
  BY <1>1 DEF ShowsAt, Obsolete
<1>3. Waits(id)' <=> Waits(id)
  BY <1>1 DEF Waits
<1>4. \A j \in 0 .. Len(replies') : j = 0
  BY <1>1
<1>5. Len(replies) \in k .. Len(replies)
  BY <1>1
<1>6. ~ShowsAt(id, Len(replies)) => ~Waits(id)
  BY <1>5 DEF Goes
<1>7. \A j \in 0 .. Len(replies') : \A l \in j .. Len(replies') : l = 0 /\ j = 0
  BY <1>1
<1>8. \A j \in 0 .. Len(replies') : ~ShowsAt(id, j)' =>
        ~Waits(id)' /\ \A l \in j .. Len(replies') : ~ShowsAt(id, l)'
  BY <1>2, <1>3, <1>4, <1>6, <1>7
<1> QED BY <1>2, <1>8 DEF Goes

\* What was told of, and what some reply listed, goes for good.
ToldGoes == \A id \in Told : Exempt(id) \/ Goes(id, 0)
SeenGoes ==
  \A k \in 0 .. Len(replies) : \A id \in PendingAt(k) : Exempt(id) \/ Goes(id, k)

LEMMA ToldGoesStep ==
  ASSUME TypeOK, [Next]_vars, KnownAll, OnDisk', ToldGoes, SeenGoes
  PROVE  ToldGoes'
<1>0. Len(replies) \in Nat
  BY LenProperties DEF TypeOK, ShellType
<1>1. ASSUME NEW id \in Told'
      PROVE  Exempt(id)' \/ Goes(id, 0)'
  <2>1. CASE Shell
    <3>1. CASE id \in Told
      <4>1. Known(id)
        BY <3>1 DEF KnownAll
      <4>2. 0 \in 0 .. Len(replies)
        BY <1>0
      <4> QED BY <2>1, <3>1, <4>1, <4>2, KnownStep, GoesPass DEF ToldGoes
    <3>2. CASE id \notin Told
      <4>1. PICK k \in 1 .. Len(replies) : id \in PendingAt(k)
        BY <1>1, <2>1, <3>2, PassStep
      <4>2. k \in 0 .. Len(replies)
        BY <1>0
      <4>3. Known(id) /\ (Exempt(id) \/ Goes(id, k))
        BY <4>1, <4>2 DEF KnownAll, SeenGoes
      <4> QED BY <2>1, <4>2, <4>3, KnownStep, GoesPass
    <3> QED BY <3>1, <3>2
  <2>2. CASE ~Shell
    <3>1. id \in Told /\ ~Gone'
      BY <1>1, <2>2, LineStep DEF Gone
    <3>2. Known(id)
      BY <3>1 DEF KnownAll
    <3>3. 0 \in Nat
      OBVIOUS
    <3> QED BY <2>2, <3>1, <3>2, <3>3, KnownStep, GoesStep DEF ToldGoes
  <2> QED BY <2>1, <2>2
<1> QED BY <1>1 DEF ToldGoes

LEMMA SeenGoesStep ==
  ASSUME TypeOK, [Next]_vars, KnownAll, OnDisk', SeenGoes
  PROVE  SeenGoes'
<1>0. Len(replies) \in Nat /\ Len(replies') \in Nat
  <2>1. TypeOK'
    BY TypeStep
  <2> QED BY <2>1, LenProperties DEF TypeOK, ShellType
<1>1. ASSUME NEW k \in 0 .. Len(replies'), NEW id \in PendingAt(k)'
      PROVE  Exempt(id)' \/ Goes(id, k)'
  <2>1. CASE Shell
    <3>1. /\ Len(replies') = 0 /\ PendingAt(0)' = PendingAt(Len(replies))
      BY <2>1, PassStep
    <3>2. k = 0
      BY <3>1
    <3>3. Len(replies) \in 0 .. Len(replies)
      BY <1>0
    <3>4. id \in PendingAt(Len(replies))
      BY <1>1, <3>1, <3>2
    <3>5. Known(id) /\ (Exempt(id) \/ Goes(id, Len(replies)))
      BY <3>3, <3>4 DEF KnownAll, SeenGoes
    <3>6. Exempt(id)' \/ Goes(id, 0)'
      BY <2>1, <3>3, <3>5, KnownStep, GoesPass
    <3> QED BY <3>2, <3>6
  <2>2. CASE ~Shell
    <3>1. CASE k \in 0 .. Len(replies) /\ PendingAt(k)' = PendingAt(k)
      <4>1. Known(id) /\ (Exempt(id) \/ Goes(id, k))
        BY <1>1, <3>1 DEF KnownAll, SeenGoes
      <4>2. ~Gone'
        <5>1. ASSUME Gone' PROVE FALSE
          <6>1. k = 0 /\ PendingAt(0)' = {}
            BY <1>0, <5>1 DEF Gone
          <6> QED BY <1>1, <6>1
        <5> QED BY <5>1
      <4>3. k \in Nat
        BY <1>0
      <4> QED BY <2>2, <4>1, <4>2, <4>3, KnownStep, GoesStep
    <3>2. CASE /\ k = Len(replies) + 1 /\ Receive
               /\ ViewAt(k)' = [job |-> job, phase |-> phase]
               /\ PendingAt(k)' = Ids(queue')
      <4>1. id \in IdSet
        <5>1. TypeOK'
          BY TypeStep
        <5>2. \A e \in Range(queue') : Id(e) \in IdSet
          BY <5>1, EventsType, IdFacts DEF TypeOK, QueueType
        <5> QED BY <1>1, <3>2, <5>2, IdsOfEvents
      <4>2. /\ ShowsAt(id, k)' => Waits(id)'
            /\ Waits(id)' => ShowsAt(id, k)' \/ Exempt(id)'
        BY <1>0, <3>2, <4>1, ReplyShows
      <4>3. ASSUME NEW l \in k .. Len(replies')
            PROVE  l = k
        <5>1. l \in 0 .. Len(replies') /\ k <= l /\ l # 0
          BY <1>0, <3>2
        <5>2. l \in 0 .. Len(replies) \/ l = Len(replies) + 1
          BY <2>2, <5>1, RepliesStep
        <5> QED BY <1>0, <3>2, <5>1, <5>2
      <4>4. ASSUME ~Exempt(id)', NEW j \in k .. Len(replies'), ~ShowsAt(id, j)'
            PROVE  ~Waits(id)' /\ \A l \in j .. Len(replies') : ~ShowsAt(id, l)'
        <5>1. j = k
          BY <4>3
        <5>2. ~ShowsAt(id, k)' /\ ~Waits(id)'
          BY <4>2, <4>4, <5>1
        <5> QED BY <4>3, <5>1, <5>2
      <4> QED BY <4>4 DEF Goes
    <3>3. CASE PendingAt(k)' = {}
      BY <1>1, <3>3
    <3> QED BY <2>2, <3>1, <3>2, <3>3, RepliesStep
  <2> QED BY <2>1, <2>2
<1> QED BY <1>1 DEF SeenGoes

-----------------------------------------------------------------------------
(* What is taken back *)

\* What the notification centre dropped and the shell still notes was put away
\* by the person.
Dismissed == notes \subseteq listed \cup person

\* A question that is taken back was put away, or waits no longer.
Acks ==
  \A id \in Requests("acknowledge") : id.number > 0 => id \in person \/ ~Waits(id)

LEMMA DismissedStep == ASSUME TypeOK, [Next]_vars, Dismissed PROVE Dismissed'
<1>1. CASE Shell
  BY <1>1, PassStep DEF Dismissed
<1>2. CASE ~Shell
  BY <1>2, LineStep DEF Dismissed
<1> QED BY <1>1, <1>2

\* What a turn takes back was put away, or is not shown.
LEMMA TakenBack ==
  ASSUME TypeOK, Shell, KnownAll, ToldGoes, SeenGoes, Dismissed,
         NEW id \in Taking, id.number > 0
  PROVE  id \in person \/ ~Waits(id)
<1>0. Len(replies) \in Nat
  BY LenProperties DEF TypeOK, ShellType
<1>1. /\ view' = ViewAt(Len(replies)) /\ pending' = PendingAt(Len(replies))
      /\ Named(Showing) \subseteq Named(Arrived)
      /\ \A i \in Named(Arrived) : \E k \in 1 .. Len(replies) : i \in PendingAt(k)
  BY PassStep
<1>2. ASSUME Obsolete(id, view', pending'), id \in Told \cup Named(Arrived)
      PROVE  ~Waits(id)
  <2>1. ~ShowsAt(id, Len(replies))
    BY <1>1, <1>2 DEF ShowsAt
  <2>2. PICK k \in 0 .. Len(replies) : Goes(id, k)
    <3>1. ~Exempt(id)
      BY DEF Exempt
    <3>2. CASE id \in Told
      <4>1. 0 \in 0 .. Len(replies)
        BY <1>0
      <4> QED BY <3>1, <3>2, <4>1 DEF ToldGoes
    <3>3. CASE id \in Named(Arrived)
      <4>1. PICK k \in 1 .. Len(replies) : id \in PendingAt(k)
        BY <1>1, <3>3
      <4>2. k \in 0 .. Len(replies)
        BY <1>0
      <4> QED BY <3>1, <4>1, <4>2 DEF SeenGoes
    <3> QED BY <1>2, <3>2, <3>3
  <2>3. Len(replies) \in k .. Len(replies)
    BY <1>0
  <2> QED BY <2>1, <2>2, <2>3 DEF Goes
<1>3. CASE id \in (notes \cup Named(Showing)) \ Keeping
  <2>1. id \in Told \cup Named(Arrived)
    BY <1>1, <1>3 DEF Told
  <2>2. CASE id \in listed \cup Named(Showing)
    BY <1>2, <1>3, <2>1, <2>2 DEF Keeping
  <2>3. CASE id \notin listed \cup Named(Showing)
    BY <1>3, <2>3 DEF Dismissed
  <2> QED BY <2>2, <2>3
<1>4. CASE id \in Named(Arrived \ Showing)
  <2>1. PICK e \in Arrived \ Showing : id = Id(e)
    BY <1>4 DEF Named
  <2>2. Obsolete(id, view', pending') /\ id \in Named(Arrived)
    BY <2>1 DEF Showing, Named
  <2> QED BY <1>2, <2>2
<1> QED BY <1>3, <1>4 DEF Taking

LEMMA AcksStep ==
  ASSUME TypeOK, [Next]_vars, KnownAll, ToldGoes, SeenGoes, Dismissed, Acks
  PROVE  Acks'
<1>1. ASSUME NEW id \in Requests("acknowledge")', id.number > 0
      PROVE  id \in person' \/ ~Waits(id)'
  <2>1. person \subseteq person'
    BY CountStep
  <2>2. ASSUME Known(id), id \in person \/ ~Waits(id)
        PROVE  id \in person' \/ ~Waits(id)'
    <3>1. ~Exempt(id)'
      BY <1>1 DEF Exempt
    <3> QED BY <2>1, <2>2, <3>1, WaitsNever
  <2>3. CASE id \in Requests("acknowledge")
    BY <1>1, <2>2, <2>3 DEF Acks, KnownAll
  <2>4. CASE id \notin Requests("acknowledge")
    <3>1. Shell
      BY <1>1, <2>4, LineStep
    <3>2. id \in Taking
      BY <1>1, <2>4, <3>1, PassStep
    <3>3. id \in person \/ ~Waits(id)
      BY <1>1, <3>1, <3>2, TakenBack
    <3>4. /\ UNCHANGED <<person, queue, file, job, phase>>
      BY <3>1, PassStep
    <3> QED BY <3>3, <3>4 DEF Waits
  <2> QED BY <2>3, <2>4
<1> QED BY <1>1 DEF Acks

-----------------------------------------------------------------------------
(* What is marked as shown *)

Marks(q) == {Id(e) : e \in {e \in Range(q) : e.delivered}}

\* Of two events with one name both are marked or none.
Alike(q) ==
  \A e, f \in Range(q) : Id(e) = Id(f) => (e.delivered <=> f.delivered)

\* What is marked on disk is marked in memory.
MarksKept ==
  \A id \in Marks(file) :
    Exempt(id) \/ \A e \in Range(queue) : Id(e) = id => e.delivered

AllAlike == Alike(queue) /\ Alike(file) /\ MarksKept

\* What is marked, and was not yet in some reply, goes for good.
MarkedGoes ==
  \A id \in Marks(queue) \cup Marks(file) :
    \A k \in 1 .. Len(replies) : \A e \in Range(replies[k].events) :
      Id(e) = id /\ ~e.delivered => Exempt(id) \/ Goes(id, 0)

\* A new event is named as none that is in the queue or, but for the end of a job
\* that is filed again, on disk; and it is not marked.
LEMMA NewEvents ==
  ASSUME TypeOK, [Next]_vars, KnownAll
  PROVE  \/ \E new : /\ Moves(new)
                     /\ \A e \in new : ~e.delivered
                     /\ \A e, f \in new : e = f
                     /\ \A e \in new : Id(e) \notin Ids(queue)
                     /\ \A e \in new : Id(e) \in Ids(file) => Exempt(Id(e))'
         \/ \E id \in Requests("delivered") : Marking(id)
         \/ queue' = <<>> /\ UNCHANGED <<file, pushed>>
         \/ queue' = file /\ UNCHANGED <<file, pushed>>
<1>0. /\ job \in Nat /\ number \in Nat /\ number + 1 \in Nat /\ 0 \in Nat
  BY NumbersFacts
<1>1. CASE AddsQuestion
  <2>1. PICK e : e = Event(job, number + 1)
    OBVIOUS
  <2>2. /\ Id(e) = [job |-> job, number |-> number + 1] /\ ~e.delivered
    BY <1>0, <2>1, EventFacts
  <2>3. Id(e).number = number + 1
    BY <2>2
  <2>4. ~Known(Id(e))
    BY <1>0, <2>3 DEF Known
  <2>5. Id(e) \notin Ids(queue) \cup Ids(file)
    BY <2>4 DEF KnownAll
  <2>6. Moves({e})
    BY <1>1, <2>1 DEF AddsQuestion
  <2> QED BY <2>2, <2>5, <2>6
<1>2. CASE AddsEnd
  <2>1. PICK e : e = Event(job, 0)
    OBVIOUS
  <2>2. /\ Id(e) = [job |-> job, number |-> 0] /\ ~e.delivered
    BY <1>0, <2>1, EventFacts
  <2>3. Id(e).job = job /\ Id(e).number = 0
    BY <2>2
  <2>4. CASE Moves({})
    BY <2>4
  <2>5. CASE Moves({e}) /\ Id(e) \notin Ids(queue)
    <3>1. ASSUME Id(e) \in Ids(file)
          PROVE  Exempt(Id(e))'
      <4>1. Known(Id(e))
        BY <3>1 DEF KnownAll
      <4>2. filed[job] > 0 /\ filed[job] \in Nat /\ filed'[job] = filed[job] + 1
        BY <1>2, <2>3, <4>1, FiledGrows DEF Known, AddsEnd
      <4>3. filed'[job] > 1
        BY <4>2
      <4> QED BY <2>3, <4>3 DEF Exempt
    <3> QED BY <2>2, <2>5, <3>1
  <2> QED BY <1>2, <2>1, <2>2, <2>4, <2>5 DEF AddsEnd
<1>3. CASE Moves({})
  BY <1>3
<1> QED BY <1>1, <1>2, <1>3, QueueStep

LEMMA AlikeMoves ==
  ASSUME TypeOK, [Next]_vars, KnownAll, AllAlike, NEW new, Moves(new),
         \A e \in new : ~e.delivered,
         \A e, f \in new : e = f,
         \A e \in new : Id(e) \notin Ids(queue),
         \A e \in new : Id(e) \in Ids(file) => Exempt(Id(e))'
  PROVE  AllAlike'
<1>1. Ids(queue) = {Id(e) : e \in Range(queue)}
  BY IdsOfEvents
<1>2. /\ Range(queue') \subseteq Range(queue) \cup new
      /\ file' = file \/ file' = queue' \/ Range(file') \subseteq Range(queue)
  BY DEF Moves
<1>3. Alike(queue')
  <2>1. SUFFICES ASSUME NEW e \in Range(queue'), NEW f \in Range(queue'), Id(e) = Id(f)
                 PROVE  e.delivered <=> f.delivered
    BY DEF Alike
  <2>2. CASE e \in Range(queue) /\ f \in Range(queue)
    BY <2>1, <2>2 DEF AllAlike, Alike
  <2>3. CASE e \in new \/ f \in new
    BY <1>1, <1>2, <2>1, <2>3
  <2> QED BY <1>2, <2>2, <2>3
<1>4. Alike(file')
  <2>1. CASE file' = file
    BY <2>1 DEF AllAlike
  <2>2. CASE file' = queue'
    BY <1>3, <2>2
  <2>3. CASE Range(file') \subseteq Range(queue)
    BY <2>3 DEF AllAlike, Alike
  <2> QED BY <1>2, <2>1, <2>2, <2>3
<1>5. MarksKept'
  <2>1. SUFFICES ASSUME NEW f \in Range(file'), f.delivered,
                        NEW e \in Range(queue'), Id(e) = Id(f)
                 PROVE  Exempt(Id(f))' \/ e.delivered
    <3>1. ASSUME NEW id \in Marks(file'), ~Exempt(id)',
                 NEW e \in Range(queue'), Id(e) = id
          PROVE  e.delivered
      <4>1. PICK f \in Range(file') : f.delivered /\ id = Id(f)
        BY <3>1 DEF Marks
      <4> QED BY <2>1, <3>1, <4>1
    <3> QED BY <3>1 DEF MarksKept
  <2>2. CASE file' = queue'
    BY <1>3, <2>1, <2>2 DEF Alike
  <2>3. CASE file' = file
    <3>1. Id(f) \in Ids(file)
      BY <2>1, <2>3, IdsOfEvents
    <3>2. Exempt(Id(f)) => Exempt(Id(f))'
      BY <3>1, KnownStep DEF KnownAll
    <3>3. CASE e \in Range(queue)
      BY <2>1, <2>3, <3>2, <3>3 DEF AllAlike, MarksKept, Marks
    <3>4. CASE e \in new
      BY <2>1, <3>1, <3>4
    <3> QED BY <1>2, <3>3, <3>4
  <2>4. CASE Range(file') \subseteq Range(queue)
    <3>1. CASE e \in Range(queue)
      BY <2>1, <2>4, <3>1 DEF AllAlike, Alike
    <3>2. CASE e \in new
      BY <1>1, <2>1, <2>4, <3>2
    <3> QED BY <1>2, <3>1, <3>2
  <2> QED BY <1>2, <2>2, <2>3, <2>4
<1> QED BY <1>3, <1>4, <1>5 DEF AllAlike

LEMMA AlikeMarking ==
  ASSUME TypeOK, [Next]_vars, KnownAll, AllAlike, NEW id, Marking(id)
  PROVE  AllAlike'
<1>1. /\ \A e \in Range(queue') :
           \/ Id(e) # id /\ e \in Range(queue)
           \/ Id(e) = id /\ e.delivered
      /\ file' = file \/ file' = queue'
  BY DEF Marking
<1>2. Alike(queue')
  BY <1>1 DEF AllAlike, Alike
<1>3. Alike(file')
  BY <1>1, <1>2 DEF AllAlike
<1>4. MarksKept'
  <2>1. CASE file' = queue'
    BY <1>2, <2>1 DEF MarksKept, Marks, Alike
  <2>2. CASE file' = file
    <3>1. \A i \in Marks(file) : Exempt(i) => Exempt(i)'
      <4>1. Marks(file) \subseteq Ids(file)
        BY IdsOfEvents DEF Marks
      <4> QED BY <4>1, KnownStep DEF KnownAll
    <3>2. ASSUME NEW i \in Marks(file), ~Exempt(i)', NEW e \in Range(queue'), Id(e) = i
          PROVE  e.delivered
      BY <1>1, <3>1, <3>2 DEF AllAlike, MarksKept
    <3> QED BY <2>2, <3>2 DEF MarksKept
  <2> QED BY <1>1, <2>1, <2>2
<1> QED BY <1>2, <1>3, <1>4 DEF AllAlike

LEMMA AlikeStep ==
  ASSUME TypeOK, [Next]_vars, KnownAll, AllAlike
  PROVE  AllAlike'
<1>1. CASE queue' = <<>> /\ UNCHANGED <<file, pushed>>
  <2>1. Range(queue') = {}
    BY <1>1, EmptyQueue
  <2> QED BY <1>1, <2>1 DEF AllAlike, Alike, MarksKept
<1>2. CASE queue' = file /\ UNCHANGED <<file, pushed>>
  BY <1>2 DEF AllAlike, Alike, MarksKept, Marks
<1>3. CASE \E id \in Requests("delivered") : Marking(id)
  BY <1>3, AlikeMarking
<1> QED BY <1>1, <1>2, <1>3, NewEvents, AlikeMoves

\* What a step marks.
LEMMA MarksStep ==
  ASSUME TypeOK, [Next]_vars, KnownAll
  PROVE  Marks(queue') \cup Marks(file') \subseteq
           Marks(queue) \cup Marks(file) \cup Requests("delivered")
<1>1. ASSUME NEW new, Moves(new), \A e \in new : ~e.delivered
      PROVE  Marks(queue') \cup Marks(file') \subseteq Marks(queue) \cup Marks(file)
  <2>1. Marks(queue') \subseteq Marks(queue)
    BY <1>1 DEF Moves, Marks
  <2>2. Marks(file') \subseteq Marks(queue) \cup Marks(file)
    BY <1>1, <2>1 DEF Moves, Marks
  <2> QED BY <2>1, <2>2
<1>2. ASSUME NEW id \in Requests("delivered"), Marking(id)
      PROVE  Marks(queue') \cup Marks(file') \subseteq
                Marks(queue) \cup Marks(file) \cup {id}
  <2>1. Marks(queue') \subseteq Marks(queue) \cup {id}
    BY <1>2 DEF Marking, Marks
  <2> QED BY <1>2, <2>1 DEF Marking
<1>3. Marks(<<>>) = {}
  BY EmptyQueue DEF Marks
<1> QED BY <1>1, <1>2, <1>3, NewEvents

LEMMA MarkedGoesStep ==
  ASSUME TypeOK, [Next]_vars, KnownAll, OnDisk', ToldGoes, AllAlike', MarkedGoes
  PROVE  MarkedGoes'
<1>1. SUFFICES ASSUME NEW id \in Marks(queue') \cup Marks(file'),
                      NEW k \in 1 .. Len(replies'),
                      NEW e \in Range(replies'[k].events),
                      Id(e) = id, ~e.delivered
               PROVE  Exempt(id)' \/ Goes(id, 0)'
  BY DEF MarkedGoes
<1>2. Len(replies) \in Nat /\ Len(replies') \in Nat
  <2>1. TypeOK'
    BY TypeStep
  <2> QED BY <2>1, LenProperties DEF TypeOK, ShellType
<1>3. /\ k \in 0 .. Len(replies') /\ k > 0 /\ Len(replies') # 0
  BY <1>2
<1>4. ~Shell /\ ~Gone'
  BY <1>3, PassStep DEF Gone
<1>5. CASE k \in 0 .. Len(replies) /\ replies'[k] = replies[k]
  <2>1. k \in 1 .. Len(replies) /\ 0 \in Nat
    BY <1>2, <1>3, <1>5
  <2>2. id \in Marks(queue) \cup Marks(file) \cup Requests("delivered")
    BY MarksStep
  <2>3. Marks(queue) \subseteq Ids(queue) /\ Marks(file) \subseteq Ids(file)
    BY IdsOfEvents DEF Marks
  <2>4. Known(id) /\ (Exempt(id) \/ Goes(id, 0))
    <3>1. CASE id \in Marks(queue) \cup Marks(file)
      BY <1>1, <1>5, <2>1, <2>3, <3>1 DEF MarkedGoes, KnownAll
    <3>2. CASE id \in Requests("delivered")
      BY <3>2 DEF KnownAll, Told, ToldGoes
    <3> QED BY <2>2, <3>1, <3>2
  <2> QED BY <1>4, <2>1, <2>4, KnownStep, GoesStep
<1>6. CASE replies'[k].events = queue'
  <2>1. e \in Range(queue')
    BY <1>6
  <2>2. id \notin Marks(queue')
    BY <1>1, <2>1 DEF Marks, AllAlike, Alike
  <2>3. CASE id \in Marks(file')
    BY <1>1, <2>1, <2>3 DEF AllAlike, MarksKept
  <2> QED BY <2>2, <2>3
<1> QED BY <1>3, <1>4, <1>5, <1>6, RepliesStep DEF Gone

-----------------------------------------------------------------------------
(* No event rings twice *)

Rings == \A id \in again : id.job \in 1 .. job /\ Exempt(id)

\* What a turn rings for, and some shell rang for before or the disk has as
\* shown, is exempt.
LEMMA RungAgain ==
  ASSUME TypeOK, Shell, KnownAll, ToldGoes, MarkedGoes,
         NEW e \in Showing, ~e.delivered, Id(e) \in rang \cup Shown
  PROVE  Exempt(Id(e)) /\ Known(Id(e))
<1>0. Len(replies) \in Nat /\ ShellType
  BY LenProperties DEF TypeOK, ShellType
<1>1. /\ view' = ViewAt(Len(replies)) /\ pending' = PendingAt(Len(replies))
  BY PassStep
<1>2. e \in Arrived /\ ~Obsolete(Id(e), view', pending')
  BY DEF Showing
<1>3. PICK k \in 1 .. Len(replies) :
         e \in Range(replies[k].events) /\ Id(e) \notin PendingAt(k - 1)
  BY <1>0, <1>2, ArrivedFacts
<1>4. Id(e) \in PendingAt(k) /\ k - 1 \in 0 .. Len(replies) /\ k \in 0 .. Len(replies)
  <2>1. k # 0 /\ k - 1 \in 0 .. Len(replies) /\ k \in 0 .. Len(replies)
    BY <1>0
  <2> QED BY <1>3, <2>1, IdsOfEvents DEF PendingAt
<1>5. Known(Id(e))
  BY <1>4 DEF KnownAll
<1>6. Exempt(Id(e)) \/ Goes(Id(e), 0)
  <2>1. CASE Id(e) \in rang
    BY <2>1 DEF ToldGoes, Told
  <2>2. CASE Id(e) \in Shown
    <3>1. Shown = Marks(file)
      BY DEF Shown, Marks, Range
    <3> QED BY <1>3, <2>2, <3>1 DEF MarkedGoes
  <2> QED BY <2>1, <2>2
<1>7. ~Goes(Id(e), 0)
  <2>1. SUFFICES ASSUME Goes(Id(e), 0) PROVE FALSE
    OBVIOUS
  <2>2. ~ShowsAt(Id(e), k - 1)
    BY <1>3 DEF ShowsAt
  <2>3. \A l \in (k - 1) .. Len(replies) : ~ShowsAt(Id(e), l)
    BY <1>4, <2>1, <2>2 DEF Goes
  <2>4. k \in (k - 1) .. Len(replies) /\ Len(replies) \in (k - 1) .. Len(replies)
    BY <1>0
  <2>5. ~ShowsAt(Id(e), k) /\ ~ShowsAt(Id(e), Len(replies))
    BY <2>3, <2>4
  <2>6. Id(e).number > 0
    BY <1>4, <2>5 DEF ShowsAt, Obsolete
  <2>7. ShowsAt(Id(e), Len(replies))
    BY <1>1, <1>2, <2>6 DEF ShowsAt, Obsolete
  <2> QED BY <2>5, <2>7
<1> QED BY <1>5, <1>6, <1>7

LEMMA RingsStep ==
  ASSUME TypeOK, [Next]_vars, KnownAll, ToldGoes, MarkedGoes, Rings
  PROVE  Rings'
<1>1. /\ job \in Nat /\ job <= MaxJobs /\ MaxJobs \in Nat /\ job' \in {job, job + 1}
  BY NumbersFacts, CountStep
<1>2. \A id : Exempt(id) /\ id.job \in 1 .. job
                => Exempt(id)' /\ id.job \in 1 .. job'
  <2> SUFFICES ASSUME NEW id, Exempt(id), id.job \in 1 .. job
               PROVE  Exempt(id)' /\ id.job \in 1 .. job'
    OBVIOUS
  <2>1. id.job \in 1 .. MaxJobs /\ id.job \in 1 .. job'
    BY <1>1
  <2>2. filed[id.job] \in Nat /\ filed'[id.job] \in Nat /\ filed[id.job] <= filed'[id.job]
    BY <2>1, FiledGrows
  <2>3. filed[id.job] > 1 => filed'[id.job] > 1
    BY <2>2
  <2> QED BY <2>1, <2>3, PushedGrows DEF Exempt
<1>3. ASSUME NEW id \in again' PROVE Exempt(id)' /\ id.job \in 1 .. job'
  <2>1. CASE id \in again
    BY <1>2, <2>1 DEF Rings
  <2>2. CASE id \notin again
    <3>1. Shell
      BY <1>3, <2>2, LineStep
    <3>2. /\ id \in rang \cup Shown
          /\ \E e \in Showing : id = Id(e) /\ ~e.delivered
      BY <1>3, <2>2, <3>1, PassStep
    <3>3. Exempt(id) /\ Known(id)
      BY <3>1, <3>2, RungAgain
    <3> QED BY <1>2, <3>3 DEF Known
  <2> QED BY <2>1, <2>2
<1> QED BY <1>3 DEF Rings

-----------------------------------------------------------------------------
(* A question that is tracked is queued *)

\* The tracker's question is in the queue, or was put away; unless the end of the
\* job was filed meanwhile.
TheQuestion ==
  active # NoQuestion /\ filed[job] = 0
    => [job |-> job, number |-> number] \in Ids(queue) \cup person

\* What a step does to the tracker's question and its event.
LEMMA TrackerStep ==
  ASSUME TypeOK, Quiet, [Next]_vars
  PROVE  \/ active' = NoQuestion
         \/ filed'[job'] > 0
         \/ [job |-> job', number |-> number'] \in Ids(queue')
         \/ /\ UNCHANGED <<job, phase, active, number, filed>>
            /\ \/ Ids(queue) \subseteq Ids(queue')
               \/ \E id \in Requests("acknowledge") : Ids(queue) \ {id} \subseteq Ids(queue')
<1> USE DEF snapshot, tracker, tool, line, shell, history, bounds
<1>0. /\ phase \in PhaseName /\ child \in Nat /\ output \in Out /\ screen \in Out
      /\ secret \in BOOLEAN /\ noecho \in BOOLEAN /\ 0 \in Nat /\ FALSE \in BOOLEAN
      /\ tools + 1 \in Nat /\ "running" \in PhaseName /\ "ended" \in PhaseName
      /\ QueueType /\ BoundType /\ ShellType
  BY DEF TypeOK, SnapshotType, ToolType, PhaseName
<1>1. ASSUME NEW ph \in PhaseName, NEW pid \in Nat, NEW out \in Out, NEW sec \in BOOLEAN,
             Change(ph, pid, out, sec), ph = phase \/ phase # "running" \/ ph # "running",
             filed' = filed
      PROVE  \/ active' = NoQuestion
             \/ [job |-> job', number |-> number'] \in Ids(queue')
             \/ /\ UNCHANGED <<job, phase, active, number, filed>>
                /\ Ids(queue) \subseteq Ids(queue')
  <2>1. /\ phase' = ph /\ job' = job
        /\ active' \in {Question(ph, pid, out, sec), NoQuestion}
        /\ \/ number' = number
              /\ (active' = NoQuestion \/ (active' = active /\ queue' = queue))
           \/ /\ number' = number + 1
              /\ [job |-> job, number |-> number + 1] \in Ids(queue')
    BY <1>1, ChangeFacts
  <2>2. active' # NoQuestion => ph = "running"
    BY <2>1, QuestionFacts
  <2>3. phase # "running" => active = NoQuestion
    BY DEF Quiet
  <2> QED BY <1>1, <2>1, <2>2, <2>3
<1>2. CASE Install
  BY <1>0, <1>1, <1>2 DEF Install
<1>3. CASE BeginTool
  <2>1. Change(phase, tools + 1, output, secret) /\ filed' = filed
    BY <1>3 DEF BeginTool
  <2> QED BY <1>0, <1>1, <2>1
<1>4. CASE Read
  BY <1>0, <1>1, <1>4 DEF Read, Watched
<1>5. CASE Sample
  BY <1>0, <1>1, <1>5 DEF Sample, Watched
<1>6. CASE Settle
  BY <1>0, <1>1, <1>6 DEF Settle, Watched
<1>7. CASE Finish
  BY <1>0, <1>1, <1>7 DEF Finish
<1>8. CASE Check
  BY <1>8 DEF Check, Quiet
<1>9. CASE Kill
  BY <1>9 DEF Kill, Forgotten
<1>10. CASE Start
  BY <1>10 DEF Start, Quiet
<1>11. CASE Archive
  <2>1. /\ job \in 1 .. MaxJobs /\ job' = job /\ filed'[job] = filed[job] + 1
    BY <1>11, ArchiveFacts
  <2>2. filed[job] \in Nat
    BY <2>1, FiledGrows
  <2> QED BY <2>1, <2>2
<1>12. CASE Receive
  <2> DEFINE r == Head(sent)
  <2>1. /\ sent # <<>> /\ sent \in Seq(Message)
        /\ UNCHANGED <<job, phase, filed>>
        /\ \/ UNCHANGED <<active, number, queue>>
           \/ r.what = "delivered" /\ Delivered(r.id) /\ pushed' = pushed
              /\ UNCHANGED <<active, number>>
           \/ r.what = "acknowledge" /\ Acknowledge(r.id) /\ pushed' = pushed
              /\ UNCHANGED <<active, number>>
           \/ active' = NoQuestion
    BY <1>0, <1>12 DEF Receive, ShellType, Typed
  <2>2. r \in Range(sent) /\ r.id \in IdSet
    <3>1. Len(sent) \in Nat \ {0} /\ DOMAIN sent = 1 .. Len(sent)
      BY <2>1, EmptySeq, LenProperties
    <3>2. 1 \in DOMAIN sent /\ r = sent[1] /\ r \in Message
      BY <2>1, <3>1, HeadTailProperties
    <3> QED BY <3>2 DEF Range, Message
  <2> HIDE DEF r
  <2>3. CASE r.what = "delivered" /\ Delivered(r.id) /\ pushed' = pushed
              /\ UNCHANGED <<active, number>>
    <3>1. Ids(queue') = Ids(queue)
      BY <1>0, <2>2, <2>3, DeliveredFacts
    <3> QED BY <2>1, <2>3, <3>1
  <2>4. CASE r.what = "acknowledge" /\ Acknowledge(r.id) /\ pushed' = pushed
              /\ UNCHANGED <<active, number>>
    <3>1. Ids(queue) \ {r.id} \subseteq Ids(queue')
      BY <1>0, <2>2, <2>4, AcknowledgeFacts
    <3>2. r.id \in Requests("acknowledge")
      BY <2>2, <2>4 DEF Requests
    <3> QED BY <2>1, <2>4, <3>1, <3>2
  <2> QED BY <2>1, <2>3, <2>4
<1>13. CASE Detach \/ Tool \/ Shell \/ Person \/ Unanswered \/ ShellKilled \/ UNCHANGED vars
  <2>1. UNCHANGED <<job, phase, active, number, filed, queue>>
    BY <1>13 DEF Detach, Tool, Ask, Take, Say, End, Untouched, Shell, Pass, Person,
                 Type, PutAway, Unanswered, ShellKilled, vars
  <2> QED BY <2>1
<1> QED BY <1>2, <1>3, <1>4, <1>5, <1>6, <1>7, <1>8, <1>9, <1>10, <1>11, <1>12, <1>13
        DEF Next, Coordinator

LEMMA TheQuestionStep ==
  ASSUME TypeOK, Quiet, [Next]_vars, Acks, TheQuestion
  PROVE  TheQuestion'
<1> SUFFICES ASSUME active' # NoQuestion, filed'[job'] = 0
             PROVE  [job |-> job', number |-> number'] \in Ids(queue') \cup person'
  BY DEF TheQuestion
<1>1. ~(filed'[job'] > 0)
  OBVIOUS
<1>2. CASE [job |-> job', number |-> number'] \in Ids(queue')
  BY <1>2
<1>3. CASE UNCHANGED <<job, phase, active, number, filed>>
  <2> DEFINE q == [job |-> job, number |-> number]
  <2>1. q \in Ids(queue) \cup person
    BY <1>3 DEF TheQuestion
  <2>2. phase = "running" /\ number > 0
    BY <1>3 DEF Quiet
  <2>3. q \in Requests("acknowledge") /\ q \in Ids(queue) => q \in person
    BY <2>2 DEF Acks, Waits
  <2>4. person \subseteq person'
    BY CountStep
  <2>5. \/ Ids(queue) \subseteq Ids(queue')
        \/ \E id \in Requests("acknowledge") : Ids(queue) \ {id} \subseteq Ids(queue')
        \/ q \in Ids(queue')
    BY <1>1, <1>3, TrackerStep
  <2> HIDE DEF q
  <2>6. q \in Ids(queue') \cup person'
    BY <2>1, <2>3, <2>4, <2>5
  <2> QED BY <1>3, <2>6 DEF q
<1> QED BY <1>1, <1>2, <1>3, TrackerStep

-----------------------------------------------------------------------------
(* What the shell is still to be told of is on disk *)

\* FinishedIsTold speaks of what is owed and not pushed out: that is on disk.
OwedOnDisk == \A id \in owed \ pushed : id \in Ids(file)

\* It is the end of a job, and no shell has it or takes it back.
OwedIsUntold ==
  \A id \in owed : id.number = 0 /\ id \notin Told \cup Requests("acknowledge")

\* The ends of jobs that were in memory are so on disk, but for one.
EndsSavedBut(gone) ==
  file' = file \/ \A id \in Ids(queue) \ gone : id.number = 0 => id \in Ids(file') \cup pushed'

LEMMA EndsOf ==
  ASSUME QueueType, NEW q, \A e \in Range(queue) : e.number = 0 => e \in Range(q)
  PROVE  \A id \in Ids(queue) : id.number = 0 => id \in Ids(q)
<1>1. Range(queue) \subseteq EventSet
  BY EventsType DEF QueueType
<1>2. \A e \in Range(queue) : Id(e).number = e.number
  BY <1>1, IdFacts
<1> QED BY <1>2, IdsOfEvents

LEMMA SaveSaves ==
  ASSUME QueueType, NEW q, NEW between, Save(q, between),
         \A e \in Range(queue) : e.number = 0 => e \in Range(q),
         \A e \in Range(queue) : e.number = 0 => e \in Range(between)
  PROVE  EndsSavedBut({})
<1>1. \A id \in Ids(queue) : id.number = 0 => id \in Ids(q) /\ id \in Ids(between)
  BY EndsOf
<1>2. pushed' = pushed \cup (Ids(q) \ Ids(queue')) /\ file' \in {file, queue', between}
  BY DEF Save
<1> QED BY <1>1, <1>2 DEF EndsSavedBut

LEMMA QueuesKeepEnds ==
  ASSUME TypeOK, NEW n \in Nat
  PROVE  /\ \A e \in Range(queue) : e.number = 0 => e \in Range(Cleared(queue))
         /\ \A e \in Range(queue) : e.number = 0 => e \in Range(Queued(queue, Event(job, n)))
         /\ \A e \in Range(queue) : e.number = 0 =>
              e \in Range(Queued(Cleared(queue), Event(job, n)))
<1>1. /\ queue \in Seq(EventSet) /\ Len(queue) <= Kept /\ Len(queue) \in Nat
      /\ Kept \in Nat /\ job \in Nat
  BY EventsAssumption, LenProperties DEF TypeOK, QueueType, SnapshotType
<1>2. /\ Cleared(queue) \in Seq(EventSet) /\ Len(Cleared(queue)) \in Nat
      /\ Len(Cleared(queue)) <= Len(queue)
      /\ Range(Cleared(queue)) = {f \in Range(queue) : f.number = 0}
  BY <1>1, ClearedFacts, LenProperties
<1>3. ASSUME NEW p \in Seq(EventSet), Len(p) <= Kept
      PROVE  \A e \in Range(p) : e.number = 0 => e \in Range(Queued(p, Event(job, n)))
  BY <1>1, <1>3, QueuedFacts
<1>4. \A e \in Range(queue) : e.number = 0 => e \in Range(Queued(queue, Event(job, n)))
  BY <1>1, <1>3
<1>5. PICK p : p = Cleared(queue)
  OBVIOUS
<1>6. \A e \in Range(p) : e.number = 0 => e \in Range(Queued(p, Event(job, n)))
  BY <1>1, <1>2, <1>3, <1>5
<1> QED BY <1>2, <1>4, <1>5, <1>6

LEMMA ChangeSaves ==
  ASSUME TypeOK, NEW ph, NEW pid, NEW out, NEW sec, Change(ph, pid, out, sec)
  PROVE  EndsSavedBut({})
<1>1. PICK q \in {Queued(Cleared(queue), Event(job, number + 1)), Cleared(queue), queue} :
        Save(q, Cleared(queue))
  <2> DEFINE new == Question(ph, pid, out, sec)
             next == IF Answered(answered, new) THEN NoQuestion ELSE new
             asks == next # active /\ next # NoQuestion
  <2>1. /\ number' = IF asks THEN number + 1 ELSE number
        /\ Save(IF asks THEN Queued(Cleared(queue), Event(job, number'))
                ELSE IF next # active THEN Cleared(queue) ELSE queue, Cleared(queue))
    BY DEF Change
  <2> HIDE DEF asks, next
  <2>2. CASE asks
    BY <2>1, <2>2
  <2>3. CASE ~asks
    BY <2>1, <2>3
  <2> QED BY <2>2, <2>3
<1>2. number + 1 \in Nat /\ QueueType
  BY DEF TypeOK, SnapshotType
<1>3. /\ \A e \in Range(queue) : e.number = 0 => e \in Range(Cleared(queue))
      /\ \A e \in Range(queue) : e.number = 0 =>
           e \in Range(Queued(Cleared(queue), Event(job, number + 1)))
  BY <1>2, QueuesKeepEnds
<1>4. \A e \in Range(queue) : e.number = 0 => e \in Range(q)
  BY <1>3
<1> QED BY <1>1, <1>2, <1>3, <1>4, SaveSaves

LEMMA EndsSavedStep ==
  ASSUME TypeOK, [Next]_vars
  PROVE  \E gone : EndsSavedBut(gone) /\ gone \subseteq Requests("acknowledge")
<1> USE DEF snapshot, tracker, tool, line, shell, history, bounds
<1>1. EndsSavedBut({}) => \E gone : EndsSavedBut(gone) /\ gone \subseteq Requests("acknowledge")
  OBVIOUS
<1>2. CASE Install \/ Finish \/ Read \/ Sample \/ Settle
  BY <1>1, <1>2, ChangeSaves DEF Install, Finish, Read, Sample, Settle
<1>3. CASE BeginTool
  <2>1. Change(phase, tools + 1, output, secret)
    BY <1>3 DEF BeginTool
  <2> QED BY <1>1, <2>1, ChangeSaves
<1>4. CASE Archive
  <2>1. Save(Queued(queue, Event(job, 0)), queue) /\ 0 \in Nat /\ QueueType
    BY <1>4 DEF Archive, TypeOK
  <2>2. \A e \in Range(queue) : e.number = 0 => e \in Range(Queued(queue, Event(job, 0)))
    BY <2>1, QueuesKeepEnds
  <2> QED BY <1>1, <2>1, <2>2, SaveSaves
<1>5. CASE Receive
  <2>1. PICK r : r = Head(sent)
    OBVIOUS
  <2>2. /\ sent # <<>> /\ sent \in Seq(Message) /\ QueueType /\ BoundType
        /\ \/ file' = file
           \/ r.what = "delivered" /\ Delivered(r.id) /\ pushed' = pushed
           \/ r.what = "acknowledge" /\ Acknowledge(r.id) /\ pushed' = pushed
           \/ Typed
    BY <1>5, <2>1 DEF Receive, TypeOK, ShellType
  <2>3. r \in Range(sent) /\ r.id \in IdSet
    <3>1. Len(sent) \in Nat \ {0} /\ DOMAIN sent = 1 .. Len(sent)
      BY <2>2, EmptySeq, LenProperties
    <3>2. 1 \in DOMAIN sent /\ r = sent[1] /\ r \in Message
      BY <2>1, <2>2, <3>1, HeadTailProperties
    <3> QED BY <3>2 DEF Range, Message
  <2>4. CASE file' = file
    BY <1>1, <2>4 DEF EndsSavedBut
  <2>5. CASE Delivered(r.id) /\ pushed' = pushed
    <3>1. Ids(queue') = Ids(queue)
      BY <2>2, <2>3, <2>5, DeliveredFacts
    <3>2. file' = queue' \/ file' = file
      BY <2>5 DEF Delivered
    <3> QED BY <1>1, <3>1, <3>2 DEF EndsSavedBut
  <2>6. CASE r.what = "acknowledge" /\ Acknowledge(r.id) /\ pushed' = pushed
    <3>1. Ids(queue) \ {r.id} \subseteq Ids(queue')
      BY <2>2, <2>3, <2>6, AcknowledgeFacts
    <3>2. file' = queue' \/ file' = file
      BY <2>6 DEF Acknowledge
    <3>3. {r.id} \subseteq Requests("acknowledge")
      BY <2>3, <2>6 DEF Requests
    <3> QED BY <3>1, <3>2, <3>3 DEF EndsSavedBut
  <2>7. CASE Typed
    <3>1. Save(Cleared(queue), Cleared(queue)) /\ 0 \in Nat
      BY <2>7 DEF Typed
    <3>2. \A e \in Range(queue) : e.number = 0 => e \in Range(Cleared(queue))
      BY <3>1, QueuesKeepEnds
    <3> QED BY <1>1, <2>2, <3>1, <3>2, SaveSaves
  <2> QED BY <2>2, <2>4, <2>5, <2>6, <2>7
<1>6. CASE Check \/ Start \/ Detach \/ Kill \/ Tool \/ Shell \/ Person \/ Unanswered
           \/ ShellKilled \/ UNCHANGED vars
  <2>1. file' = file
    BY <1>6 DEF Check, Start, Detach, Kill, Tool, Ask, Take, Say, End, Untouched, Shell, Pass,
                Person, Type, PutAway, Unanswered, ShellKilled, vars
  <2> QED BY <1>1, <2>1 DEF EndsSavedBut
<1> QED BY <1>2, <1>3, <1>4, <1>5, <1>6 DEF Next, Coordinator

\* Only a coordinator writes events.json.
LEMMA NobodyWrites ==
  ASSUME [Next]_vars, mode = "down"
  PROVE  file' = file
<1> USE DEF snapshot, tracker, tool, line, shell, history, bounds
<1>1. ~(Check \/ Install \/ BeginTool \/ Read \/ Sample \/ Detach \/ Settle \/ Finish
        \/ Archive \/ Receive \/ Kill)
  BY DEF Check, Install, BeginTool, Read, Sample, Detach, Settle, Finish, Archive, Receive,
         Kill, Serving
<1>2. CASE Start \/ Tool \/ Shell \/ Person \/ Unanswered \/ ShellKilled \/ UNCHANGED vars
  BY <1>2 DEF Start, Tool, Ask, Take, Say, End, Untouched, Shell, Pass, Person, Type, PutAway,
              Unanswered, ShellKilled, vars
<1> QED BY <1>1, <1>2 DEF Next, Coordinator

\* Only the end of a job that no other filing came before is owed anew, and only
\* what is shown is owed no more.
LEMMA OwedMoves ==
  ASSUME TypeOK, [Next]_vars
  PROVE  \/ owed' = owed
         \/ /\ Archive /\ filed[job] = 0
            /\ owed' = owed \cup ({Id(Event(job, 0))} \cap (Ids(file') \ Ids(queue)))
         \/ Shell /\ owed' = owed \ Named(Showing)
<1> USE DEF snapshot, tracker, tool, line, shell, history, bounds
<1>1. CASE Archive
  <2>1. filed[job] \in Nat
    BY <1>1, ArchiveFacts, FiledGrows
  <2>2. ~(filed[job] > 0) => filed[job] = 0
    BY <2>1
  <2>3. owed' = IF filed[job] > 0 THEN owed
                ELSE owed \cup ({Id(Event(job, 0))} \cap (Ids(file') \ Ids(queue)))
    BY <1>1 DEF Archive
  <2> QED BY <1>1, <2>2, <2>3
<1>2. CASE Shell
  <2>1. PICK asks \in BOOLEAN : Pass(asks)
    BY <1>2 DEF Shell
  <2>2. owed' = owed \ Named(Showing)
    BY <2>1 DEF Pass, Showing, Named
  <2> QED BY <1>2, <2>2
<1>3. CASE Install \/ BeginTool \/ Read \/ Sample \/ Settle \/ Finish
  BY <1>3 DEF Install, BeginTool, Read, Sample, Settle, Finish, Watched
<1>4. CASE Check \/ Start \/ Detach \/ Kill \/ Tool \/ Person \/ Unanswered
           \/ ShellKilled \/ UNCHANGED vars \/ Receive
  BY <1>4 DEF Check, Start, Detach, Kill, Tool, Ask, Take, Say, End, Untouched,
              Person, Type, PutAway, Unanswered, ShellKilled, Receive, vars
<1> QED BY <1>1, <1>2, <1>3, <1>4 DEF Next, Coordinator

LEMMA OwedIsUntoldStep ==
  ASSUME TypeOK, [Next]_vars, KnownAll, OwedIsUntold
  PROVE  OwedIsUntold'
<1>1. CASE Shell
  <2>1. /\ Told' \subseteq Told \cup Named(Showing)
        /\ Requests("acknowledge")' \subseteq Requests("acknowledge") \cup Taking
    BY <1>1, PassStep
  <2>2. owed' \subseteq owed \ Named(Showing)
    <3>1. PICK asks \in BOOLEAN : Pass(asks)
      BY <1>1 DEF Shell
    <3> QED BY <3>1 DEF Pass, Showing, Named
  <2>3. \A id \in Named(Arrived \ Showing) : id.number > 0
    BY DEF Named, Showing, Obsolete
  <2>4. \A id \in Taking : id \in Told \/ id \in Named(Showing) \/ id.number > 0
    BY <2>3 DEF Taking, Told
  <2> QED BY <2>1, <2>2, <2>4 DEF OwedIsUntold
<1>2. CASE ~Shell
  <2>1. Told' \subseteq Told /\ Requests("acknowledge")' \subseteq Requests("acknowledge")
    BY <1>2, LineStep
  <2>2. CASE owed' = owed
    BY <2>1, <2>2 DEF OwedIsUntold
  <2>3. CASE /\ Archive /\ filed[job] = 0
             /\ owed' = owed \cup ({Id(Event(job, 0))} \cap (Ids(file') \ Ids(queue)))
    <3>1. Id(Event(job, 0)) = [job |-> job, number |-> 0]
      BY NumbersFacts, EventFacts
    <3>2. ~Known(Id(Event(job, 0)))
      BY <2>3, <3>1 DEF Known
    <3>3. Id(Event(job, 0)) \notin Told \cup Requests("acknowledge")
      BY <3>2 DEF KnownAll
    <3>4. PICK end : end = Id(Event(job, 0))
      OBVIOUS
    <3>5. owed' \subseteq owed \cup {end} /\ end.number = 0
      BY <2>3, <3>1, <3>4
    <3> QED BY <2>1, <3>3, <3>4, <3>5 DEF OwedIsUntold
  <2> QED BY <1>2, <2>2, <2>3, OwedMoves
<1> QED BY <1>1, <1>2

LEMMA OwedOnDiskStep ==
  ASSUME TypeOK, [Next]_vars, OnDisk, OwedIsUntold, OwedOnDisk
  PROVE  OwedOnDisk'
<1> SUFFICES ASSUME NEW id \in owed', id \notin pushed'
             PROVE  id \in Ids(file')
  BY DEF OwedOnDisk
<1>1. CASE id \in owed
  <2>1. /\ id \in Ids(file) /\ id \notin pushed /\ id.number = 0
        /\ id \notin Requests("acknowledge")
    BY <1>1, PushedGrows DEF OwedOnDisk, OwedIsUntold
  <2>2. CASE file' = file
    BY <2>1, <2>2
  <2>3. CASE file' # file
    <3>1. mode # "down"
      BY <2>3, NobodyWrites
    <3>2. id \in Ids(queue)
      BY <2>1, <3>1 DEF OnDisk
    <3>3. PICK gone : EndsSavedBut(gone) /\ gone \subseteq Requests("acknowledge")
      BY EndsSavedStep
    <3> QED BY <2>1, <2>3, <3>2, <3>3 DEF EndsSavedBut
  <2> QED BY <2>2, <2>3
<1>2. CASE id \notin owed
  <2>1. owed' \subseteq owed \cup Ids(file')
    BY OwedMoves
  <2> QED BY <1>2, <2>1
<1> QED BY <1>1, <1>2

-----------------------------------------------------------------------------
(* The theorems *)

Telling ==
  /\ KnownAll /\ OnDisk /\ ToldGoes /\ SeenGoes /\ AllAlike /\ MarkedGoes /\ Rings
  /\ Dismissed /\ Acks /\ TheQuestion /\ OwedIsUntold /\ OwedOnDisk

LEMMA Init_Telling == ASSUME Init PROVE Following /\ Telling
<1>1. /\ mode = "down" /\ job = 0 /\ phase = "idle" /\ active = NoQuestion
      /\ answered = NoQuestion /\ queue = <<>> /\ file = <<>> /\ sent = <<>>
      /\ replies = <<>> /\ pending = {} /\ notes = {} /\ listed = {} /\ rang = {}
      /\ again = {} /\ output = Blank /\ screen = Blank /\ asking = "ended"
  BY DEF Init
<1>2. /\ Ids(queue) = {} /\ Ids(file) = {} /\ Range(queue) = {} /\ Range(file) = {}
  BY <1>1, EmptyQueue
<1>3. Range(sent) = {} /\ Len(replies) = 0
  BY <1>1 DEF Range
<1>4. Requests("acknowledge") = {} /\ Told = {}
  BY <1>1, <1>3 DEF Requests, Told
<1>5. \A k \in 0 .. Len(replies) : PendingAt(k) = {}
  BY <1>1, <1>3 DEF PendingAt
<1>6. Marks(queue) = {} /\ Marks(file) = {}
  BY <1>2 DEF Marks
<1>7. NoQuestion.kind = "none"
  BY DEF NoQuestion
<1>8. Blank.at <= Blank.at
  BY DEF Blank, Line
<1>9. Following
  BY <1>1, <1>7, <1>8 DEF Following, Quiet, Placed, Waiting, Tracked
<1>10. KnownAll /\ OnDisk /\ ToldGoes /\ SeenGoes
  BY <1>1, <1>2, <1>4, <1>5 DEF KnownAll, OnDisk, ToldGoes, SeenGoes
<1>11. AllAlike /\ MarkedGoes
  BY <1>2, <1>6 DEF AllAlike, Alike, MarksKept, MarkedGoes
<1>12. Rings /\ Dismissed /\ Acks /\ TheQuestion
  BY <1>1, <1>4 DEF Rings, Dismissed, Acks, TheQuestion
<1>13. OwedIsUntold /\ OwedOnDisk
  BY DEF Init, OwedIsUntold, OwedOnDisk
<1> QED BY <1>9, <1>10, <1>11, <1>12, <1>13 DEF Telling

LEMMA TellingStep ==
  ASSUME TypeOK, Following, Telling, [Next]_vars
  PROVE  Telling'
<1>1. /\ KnownAll /\ OnDisk /\ ToldGoes /\ SeenGoes /\ AllAlike /\ MarkedGoes /\ Rings
      /\ Dismissed /\ Acks /\ TheQuestion /\ OwedIsUntold /\ OwedOnDisk /\ Quiet
  BY DEF Telling, Following
<1>2. KnownAll' /\ OnDisk' /\ AllAlike'
  BY <1>1, KnownAllStep, OnDiskStep, AlikeStep
<1>3. ToldGoes' /\ SeenGoes' /\ MarkedGoes'
  BY <1>1, <1>2, ToldGoesStep, SeenGoesStep, MarkedGoesStep
<1>4. Rings' /\ Dismissed' /\ Acks' /\ TheQuestion'
  BY <1>1, RingsStep, DismissedStep, AcksStep, TheQuestionStep
<1>5. OwedIsUntold' /\ OwedOnDisk'
  BY <1>1, OwedIsUntoldStep, OwedOnDiskStep
<1> QED BY <1>2, <1>3, <1>4, <1>5 DEF Telling

LEMMA TellingAlways == Spec => [](TypeOK /\ Following /\ Telling)
<1>1. Init => TypeOK /\ Following /\ Telling
  BY Init_Type, Init_Telling
<1>2. TypeOK /\ Following /\ Telling /\ [Next]_vars => (TypeOK /\ Following /\ Telling)'
  BY TypeStep, FollowingStep, TellingStep
<1> QED BY <1>1, <1>2, PTL DEF Spec

\* A question that a tool waits with is in the queue until the person answers or
\* puts its note away: what is tracked is queued, only the shell takes a question
\* from the queue, and it takes none that waits and that nobody dismissed,
\* however old the reply is that it decides by (service.rs, updates.rs).
THEOREM TracksItsQuestion == Spec => []QuestionIsTold
<1>1. TypeOK /\ Following /\ Telling => QuestionIsTold
  <2> SUFFICES ASSUME TypeOK, Following, Telling,
                      phase = "running", child # 0, output = screen, secret = noecho,
                      asking = "yesno" \/ (asking = "password" /\ answered = NoQuestion),
                      input = 0, filed[job] = 0
               PROVE  /\ active # NoQuestion
                      /\ [job |-> job, number |-> number] \in Ids(queue) \cup person
    BY DEF QuestionIsTold
  <2>1. active # NoQuestion
    BY WaitingIsActive
  <2> QED BY <2>1 DEF Telling, TheQuestion
<1> QED BY <1>1, TellingAlways, PTL

\* No shell rings twice for an event, nor for one that the disk has as shown, but
\* for the end of a job that is filed twice or was pushed out: with what a reply
\* no longer shows gone for good, a late reply, a failed save, a killed
\* coordinator and a killed shell bring nothing back (updates.rs, service.rs).
THEOREM RingsOnceOnly == Spec => []RingsOnce
<1>1. Telling => RingsOnce
  BY DEF Telling, Rings, Exempt, RingsOnce
<1> QED BY <1>1, TellingAlways, PTL

\* The end of a job that was queued and saved is on disk until a shell has shown
\* it or a full queue has pushed it out, and nobody takes it back before: no kill,
\* failed save, lost reply or late acknowledgement loses it. The safety half of
\* FinishedIsTold (service.rs, updates.rs).
THEOREM OwedStaysOnDisk == Spec => []OwedOnDisk
<1>1. Telling => OwedOnDisk
  BY DEF Telling
<1> QED BY <1>1, TellingAlways, PTL
=============================================================================
