----------------------------- MODULE SchedProofs -----------------------------
(***************************************************************************)
(* Proofs about Sched, for every finite set of task addresses.  The links  *)
(* threaded through the Task objects represent a sequence of tasks: Holds  *)
(* says which, Unique that there is only one, and one lemma for each of    *)
(* create_task, add_task_to_ready_list and pop_next_ready_task what it     *)
(* does to the sequence.  The invariant is then stated on the sequence.    *)
(***************************************************************************)
EXTENDS Sched, FiniteSetTheorems, WellFoundedInduction, TLAPS

Lists == [head : Option, next : [Tasks -> Option], prev : [Tasks -> Option]]

Members(c) == {c[i] : i \in 1 .. Len(c)}

\* The list l holds the tasks of c, in order, and its prev links lead back.
Holds(l, c) ==
  /\ c \in Seq(Tasks)
  /\ \A i, j \in 1 .. Len(c) : c[i] = c[j] => i = j
  /\ l.head = IF Len(c) = 0 THEN None ELSE c[1]
  /\ \A i \in 1 .. (Len(c) - 1) : l.next[c[i]] = c[i + 1]
  /\ Len(c) > 0 => l.next[c[Len(c)]] = None
  /\ \A i \in 2 .. Len(c) : l.prev[c[i]] = c[i - 1]

\* Task t has no links.
Unlinked(l, t) == l.next[t] = None /\ l.prev[t] = None

\* Every non-empty set of naturals has a least element.
LEMMA LeastNatural ==
  ASSUME NEW S \in SUBSET Nat, S # {}
  PROVE  \E x \in S : \A y \in S : x <= y
<1> DEFINE R == OpToRel(<, Nat)
<1>1. IsWellFoundedOn(R, Nat)
  BY NatLessThanWellFounded
<1>2. R = {ss \in Nat \X Nat : ss[1] < ss[2]}
  BY DEF OpToRel
<1> HIDE DEF R
<1>3. PICK x \in S : \A y \in S : ~(<<y, x>> \in R)
  BY <1>1, WFMin
<1>4. \A y \in S : ~(y < x)
  BY <1>2, <1>3
<1> QED BY <1>4

\* Two chains of next links from the same head agree as far as both go.
LEMMA SamePrefix ==
  ASSUME NEW l, NEW c \in Seq(Tasks), NEW d \in Seq(Tasks),
         Len(c) > 0, Len(d) > 0, Len(c) <= Len(d), IsList(l, c), IsList(l, d)
  PROVE  \A i \in 1 .. Len(c) : c[i] = d[i]
<1> DEFINE Bad == {i \in 1 .. Len(c) : c[i] # d[i]}
<1>1. SUFFICES ASSUME Bad # {} PROVE FALSE
  OBVIOUS
<1>2. Len(c) \in Nat /\ Len(d) \in Nat
  OBVIOUS
<1>3. PICK i \in Bad : \A j \in Bad : i <= j
  <2>1. Bad \in SUBSET Nat
    BY <1>2
  <2> QED BY <1>1, <2>1, LeastNatural
<1>4. i # 1
  BY <1>2 DEF IsList
<1>5. i - 1 \in 1 .. Len(c) /\ i - 1 \notin Bad
  BY <1>2, <1>3, <1>4
<1>6. c[i - 1] = d[i - 1]
  BY <1>5
<1>7. l.next[c[i - 1]] = c[i] /\ l.next[d[i - 1]] = d[i]
  <2>1. i - 1 \in 1 .. (Len(c) - 1) /\ i - 1 \in 1 .. (Len(d) - 1) /\ (i - 1) + 1 = i
    BY <1>2, <1>4
  <2> QED BY <2>1 DEF IsList
<1> QED BY <1>6, <1>7

\* The links determine the chain.
LEMMA SameLength ==
  ASSUME NEW l, NEW c \in Seq(Tasks), NEW d \in Seq(Tasks),
         Len(c) > 0, Len(d) > 0, Len(c) <= Len(d), IsList(l, c), IsList(l, d)
  PROVE  Len(c) = Len(d)
<1>1. Len(c) \in Nat /\ Len(d) \in Nat
  OBVIOUS
<1>2. SUFFICES ASSUME Len(c) < Len(d) PROVE FALSE
  BY <1>1
<1>3. c[Len(c)] = d[Len(c)]
  BY <1>1, SamePrefix
<1>4. l.next[d[Len(c)]] = d[Len(c) + 1] /\ d[Len(c) + 1] \in Tasks
  BY <1>1, <1>2 DEF IsList
<1> QED BY <1>3, <1>4, SchedAssumption DEF IsList

LEMMA Unique ==
  ASSUME NEW l, NEW c \in Seq(Tasks), NEW d \in Seq(Tasks),
         Len(c) > 0, Len(d) > 0, IsList(l, c), IsList(l, d)
  PROVE  c = d
<1>1. Len(c) \in Nat /\ Len(d) \in Nat
  OBVIOUS
<1>2. CASE Len(c) <= Len(d)
  <2>1. Len(c) = Len(d)
    BY <1>2, SameLength
  <2>2. \A i \in 1 .. Len(c) : c[i] = d[i]
    BY <1>2, SamePrefix
  <2> QED BY <2>1, <2>2
<1>3. CASE Len(d) <= Len(c)
  <2>1. Len(d) = Len(c)
    BY <1>3, SameLength
  <2>2. \A i \in 1 .. Len(d) : d[i] = c[i]
    BY <1>3, SamePrefix
  <2> QED BY <2>1, <2>2
<1> QED BY <1>1, <1>2, <1>3

\* A sequence of distinct tasks is no longer than there are tasks.
LEMMA ChainBound ==
  ASSUME NEW c \in Seq(Tasks), \A i, j \in 1 .. Len(c) : c[i] = c[j] => i = j
  PROVE  Len(c) <= Cardinality(Tasks)
<1>1. Len(c) \in Nat /\ c \in [1 .. Len(c) -> Tasks]
  OBVIOUS
<1>2. c \in Injection(1 .. Len(c), Tasks)
  BY <1>1 DEF Injection, IsInjective
<1>3. Cardinality(1 .. Len(c)) <= Cardinality(Tasks)
  BY <1>2, SchedAssumption, FS_Injection
<1>4. Cardinality(1 .. Len(c)) = Len(c)
  <2>1. 1 \in Int /\ Len(c) \in Int
    BY <1>1
  <2>2. Cardinality(1 .. Len(c)) = IF 1 > Len(c) THEN 0 ELSE Len(c) - 1 + 1
    BY <2>1, FS_Interval, Zenon
  <2> QED BY <1>1, <2>2
<1> QED BY <1>3, <1>4

\* ReadyList, which follows the links, yields the sequence the list holds.
LEMMA HoldsReadyList ==
  ASSUME NEW l, NEW c, Holds(l, c)
  PROVE  ReadyList(l) = c
<1>1. c \in Seq(Tasks) /\ Len(c) \in Nat
  BY DEF Holds
<1>2. CASE Len(c) = 0
  <2>1. c = << >>
    BY <1>1, <1>2
  <2> QED BY <1>2, <2>1 DEF Holds, ReadyList
<1>3. CASE Len(c) > 0
  <2>1. Cardinality(Tasks) \in Nat
    BY SchedAssumption, FS_CardinalityType
  <2>2. Len(c) \in 1 .. Cardinality(Tasks)
    BY <1>1, <1>3, <2>1, ChainBound DEF Holds
  <2>3. c \in Chains
    BY <1>1, <2>2 DEF Chains
  <2>4. IsList(l, c)
    BY <1>3 DEF Holds, IsList
  <2>5. \A d \in Chains : IsList(l, d) => d = c
    <3> SUFFICES ASSUME NEW d \in Chains, IsList(l, d) PROVE d = c
      OBVIOUS
    <3>1. PICK n \in 1 .. Cardinality(Tasks) : d \in [1 .. n -> Tasks]
      BY DEF Chains
    <3>2. d \in Seq(Tasks) /\ Len(d) > 0
      BY <2>1, <3>1
    <3> QED BY <1>1, <1>3, <2>4, <3>2, Unique
  <2>6. l.head # None
    BY <1>1, <1>3, SchedAssumption DEF Holds
  <2> QED BY <2>3, <2>4, <2>5, <2>6 DEF ReadyList
<1> QED BY <1>1, <1>2, <1>3

\* create_task gives a task off the list a clean pair of links.
LEMMA CreateHolds ==
  ASSUME NEW l \in Lists, NEW c, Holds(l, c), NEW t \in Tasks \ Members(c)
  PROVE  /\ Created(l, t) \in Lists
         /\ Holds(Created(l, t), c)
         /\ Unlinked(Created(l, t), t)
         /\ \A s \in Tasks \ {t} : Unlinked(l, s) => Unlinked(Created(l, t), s)
<1> DEFINE m == Created(l, t)
<1>1. /\ m.head = l.head
      /\ m.next = [l.next EXCEPT ![t] = None]
      /\ m.prev = [l.prev EXCEPT ![t] = None]
      /\ m \in Lists
  BY DEF Created, Lists, Option
<1>2. c \in Seq(Tasks) /\ Len(c) \in Nat
  BY DEF Holds
<1>3. \A i \in 1 .. Len(c) : c[i] \in Tasks /\ c[i] # t
  BY <1>2 DEF Members
<1>4. \A i \in 1 .. Len(c) : m.next[c[i]] = l.next[c[i]] /\ m.prev[c[i]] = l.prev[c[i]]
  BY <1>1, <1>3 DEF Lists
<1> HIDE DEF m
<1>5. Holds(m, c)
  BY <1>1, <1>2, <1>4 DEF Holds
<1>6. /\ Unlinked(m, t)
      /\ \A s \in Tasks \ {t} : Unlinked(l, s) => Unlinked(m, s)
  BY <1>1 DEF Unlinked, Lists
<1> QED BY <1>1, <1>5, <1>6 DEF m

\* add_task_to_ready_list puts a task without links at the end.
LEMMA AddHolds ==
  ASSUME NEW l \in Lists, NEW c, Holds(l, c), NEW t \in Tasks \ Members(c), Unlinked(l, t)
  PROVE  /\ Added(l, t) \in Lists
         /\ Holds(Added(l, t), Append(c, t))
         /\ \A s \in Tasks \ (Members(c) \cup {t}) : Unlinked(l, s) => Unlinked(Added(l, t), s)
<1> DEFINE m == Added(l, t)
           d == Append(c, t)
<1>1. c \in Seq(Tasks) /\ Len(c) \in Nat
  BY DEF Holds
<1>2. /\ d \in Seq(Tasks) /\ Len(d) = Len(c) + 1 /\ d[Len(d)] = t
      /\ \A i \in 1 .. Len(c) : d[i] = c[i]
  BY <1>1
<1>3. \A i \in 1 .. Len(c) : c[i] \in Tasks /\ c[i] # t
  BY <1>1 DEF Members
<1>4. \A i, j \in 1 .. Len(d) : d[i] = d[j] => i = j
  <2> HIDE DEF d
  <2> SUFFICES ASSUME NEW i \in 1 .. Len(d), NEW j \in 1 .. Len(d), d[i] = d[j] PROVE i = j
    OBVIOUS
  <2>1. (i \in 1 .. Len(c) \/ i = Len(d)) /\ (j \in 1 .. Len(c) \/ j = Len(d))
    BY <1>1, <1>2
  <2>2. i \in 1 .. Len(c) /\ j \in 1 .. Len(c) => i = j
    BY <1>2 DEF Holds
  <2> QED BY <1>2, <1>3, <2>1, <2>2
<1>5. CASE Len(c) = 0
  <2>1. l.head = None
    BY <1>5 DEF Holds
  <2>2. m.head = t /\ m.next = l.next /\ m.prev = l.prev /\ m \in Lists
    BY <2>1 DEF Added, Lists, Option
  <2> HIDE DEF m, d
  <2>3. Len(d) = 1 /\ d[1] = t
    BY <1>2, <1>5
  <2>4. Holds(m, d)
    BY <1>2, <1>4, <2>2, <2>3 DEF Holds, Unlinked
  <2> QED BY <2>2, <2>4 DEF Unlinked, m, d
<1>6. CASE Len(c) > 0
  <2> DEFINE tail == c[Len(c)]
  <2>1. l.head # None /\ l.head = c[1] /\ ReadyList(l) = c
    BY <1>1, <1>3, <1>6, HoldsReadyList, SchedAssumption DEF Holds
  <2>2. tail \in Tasks /\ tail # t
    BY <1>1, <1>3, <1>6
  <2>3. m = [l EXCEPT !.prev[t] = tail, !.next[tail] = t]
    BY <2>1 DEF Added
  <2>4. /\ m.head = l.head
        /\ m.next = [l.next EXCEPT ![tail] = t]
        /\ m.prev = [l.prev EXCEPT ![t] = tail]
        /\ m \in Lists
    <3> HIDE DEF m, tail
    <3>1. m = [l EXCEPT !.prev = [l.prev EXCEPT ![t] = tail], !.next = [l.next EXCEPT ![tail] = t]]
      BY <2>3 DEF Lists
    <3> QED BY <2>2, <3>1 DEF Lists, Option
  <2>5. m.next[tail] = t /\ m.next[t] = None /\ m.prev[t] = tail
    BY <2>2, <2>4 DEF Lists, Unlinked
  <2>6. \A i \in 1 .. (Len(c) - 1) : m.next[c[i]] = c[i + 1]
    <3> SUFFICES ASSUME NEW i \in 1 .. (Len(c) - 1) PROVE m.next[c[i]] = c[i + 1]
      OBVIOUS
    <3>1. c[i] # tail /\ c[i] \in Tasks /\ l.next[c[i]] = c[i + 1]
      BY <1>1, <1>6 DEF Holds
    <3> QED BY <2>4, <3>1 DEF Lists
  <2>7. \A i \in 2 .. Len(c) : m.prev[c[i]] = c[i - 1]
    BY <1>1, <1>3, <2>4 DEF Holds, Lists
  <2>9. \A s \in Tasks \ (Members(c) \cup {t}) : Unlinked(l, s) => Unlinked(m, s)
    <3>1. tail \in Members(c)
      BY <1>1, <1>6 DEF Members
    <3> QED BY <2>4, <3>1 DEF Unlinked, Lists
  <2> HIDE DEF m, d
  <2>10. d[1] = c[1] /\ d[Len(c)] = tail
    BY <1>1, <1>2, <1>6
  <2>11. \A i \in 1 .. (Len(d) - 1) : m.next[d[i]] = d[i + 1]
    <3> SUFFICES ASSUME NEW i \in 1 .. (Len(d) - 1) PROVE m.next[d[i]] = d[i + 1]
      OBVIOUS
    <3>1. i \in 1 .. Len(c) /\ d[i] = c[i]
      BY <1>1, <1>2
    <3>2. CASE i = Len(c)
      BY <1>2, <2>5, <2>10, <3>2
    <3>3. CASE i # Len(c)
      <4>1. i \in 1 .. (Len(c) - 1) /\ i + 1 \in 1 .. Len(c)
        BY <1>1, <3>1, <3>3
      <4> QED BY <1>2, <2>6, <3>1, <4>1
    <3> QED BY <3>2, <3>3
  <2>12. \A i \in 2 .. Len(d) : m.prev[d[i]] = d[i - 1]
    <3> SUFFICES ASSUME NEW i \in 2 .. Len(d) PROVE m.prev[d[i]] = d[i - 1]
      OBVIOUS
    <3>2. CASE i = Len(d)
      BY <1>1, <1>2, <2>5, <2>10, <3>2
    <3>3. CASE i # Len(d)
      <4>1. i \in 2 .. Len(c) /\ i - 1 \in 1 .. Len(c) /\ i \in 1 .. Len(c)
        BY <1>1, <1>2, <3>3
      <4> QED BY <1>2, <2>7, <4>1
    <3> QED BY <3>2, <3>3
  <2>13. Holds(m, d)
    BY <1>1, <1>2, <1>4, <2>1, <2>4, <2>5, <2>10, <2>11, <2>12 DEF Holds
  <2> QED BY <2>4, <2>9, <2>13 DEF m, d
<1> QED BY <1>1, <1>5, <1>6

\* pop_next_ready_task takes the first task off and clears its links.
LEMMA PopHolds ==
  ASSUME NEW l \in Lists, NEW c, Holds(l, c), c # << >>
  PROVE  /\ Popped(l) \in Lists
         /\ Holds(Popped(l), Tail(c))
         /\ Next_task(l) = c[1]
         /\ c[1] \in Tasks \ Members(Tail(c))
         /\ Members(c) = Members(Tail(c)) \cup {c[1]}
         /\ Unlinked(Popped(l), c[1])
         /\ \A s \in Tasks \ Members(c) : Unlinked(l, s) => Unlinked(Popped(l), s)
<1> DEFINE m == Popped(l)
           d == Tail(c)
           h == c[1]
<1>1. c \in Seq(Tasks) /\ Len(c) \in Nat /\ Len(c) > 0
  BY DEF Holds
<1>2. /\ d \in Seq(Tasks) /\ Len(d) = Len(c) - 1
      /\ \A i \in 1 .. Len(d) : d[i] = c[i + 1]
  BY <1>1
<1>3. l.head = h /\ h \in Tasks /\ h # None
  BY <1>1, SchedAssumption DEF Holds
<1>4. \A i \in 2 .. Len(c) : c[i] # h /\ c[i] \in Tasks
  BY <1>1 DEF Holds
<1>5. /\ m.head = l.next[h]
      /\ m.next = [l.next EXCEPT ![h] = None]
      /\ m.prev = [l.prev EXCEPT ![h] = None]
      /\ m \in Lists
  BY <1>3 DEF Popped, Lists, Option
<1>6. Next_task(l) = h
  BY <1>3 DEF Next_task
<1>7. h \in Members(c) /\ h \notin Members(d) /\ Members(c) = Members(d) \cup {h}
  <2>1. h \in Members(c)
    BY <1>1 DEF Members
  <2>2. ASSUME NEW x \in Members(d) PROVE x # h /\ x \in Members(c)
    <3>1. PICK i \in 1 .. Len(d) : x = d[i]
      BY DEF Members
    <3>2. x = c[i + 1] /\ i + 1 \in 2 .. Len(c) /\ i + 1 \in 1 .. Len(c)
      BY <1>1, <1>2, <3>1
    <3> QED BY <1>4, <3>2 DEF Members
  <2>3. ASSUME NEW x \in Members(c), x # h PROVE x \in Members(d)
    <3>1. PICK i \in 1 .. Len(c) : x = c[i]
      BY DEF Members
    <3>2. i - 1 \in 1 .. Len(d) /\ x = d[i - 1]
      BY <1>1, <1>2, <2>3, <3>1
    <3> QED BY <3>2 DEF Members
  <2> QED BY <2>1, <2>2, <2>3
<1>8. /\ Unlinked(m, h)
      /\ \A s \in Tasks \ Members(c) : Unlinked(l, s) => Unlinked(m, s)
  BY <1>3, <1>5, <1>7 DEF Unlinked, Lists
<1> HIDE DEF m, d
<1>9. \A i, j \in 1 .. Len(d) : d[i] = d[j] => i = j
  <2> SUFFICES ASSUME NEW i \in 1 .. Len(d), NEW j \in 1 .. Len(d), d[i] = d[j] PROVE i = j
    OBVIOUS
  <2>1. i + 1 \in 1 .. Len(c) /\ j + 1 \in 1 .. Len(c) /\ c[i + 1] = c[j + 1]
    BY <1>1, <1>2
  <2>2. i + 1 = j + 1
    BY <2>1 DEF Holds
  <2> QED BY <1>1, <1>2, <2>2
<1>10. m.head = IF Len(d) = 0 THEN None ELSE d[1]
  <2>1. CASE Len(c) = 1
    BY <1>2, <1>5, <2>1 DEF Holds
  <2>2. CASE Len(c) # 1
    <3>1. 1 \in 1 .. (Len(c) - 1) /\ 1 \in 1 .. Len(d) /\ Len(d) # 0
      BY <1>1, <1>2, <2>2
    <3> QED BY <1>2, <1>5, <3>1 DEF Holds
  <2> QED BY <2>1, <2>2
<1>11. \A i \in 2 .. Len(c) : m.next[c[i]] = l.next[c[i]] /\ m.prev[c[i]] = l.prev[c[i]]
  BY <1>3, <1>4, <1>5 DEF Lists
<1>12. \A i \in 1 .. (Len(d) - 1) : m.next[d[i]] = d[i + 1]
  <2> SUFFICES ASSUME NEW i \in 1 .. (Len(d) - 1) PROVE m.next[d[i]] = d[i + 1]
    OBVIOUS
  <2>1. /\ i + 1 \in 1 .. (Len(c) - 1) /\ i + 1 \in 2 .. Len(c)
        /\ i \in 1 .. Len(d) /\ i + 1 \in 1 .. Len(d)
    BY <1>1, <1>2
  <2>2. l.next[c[i + 1]] = c[(i + 1) + 1] /\ d[i] = c[i + 1] /\ d[i + 1] = c[(i + 1) + 1]
    BY <1>2, <2>1 DEF Holds
  <2> QED BY <1>11, <2>1, <2>2
<1>13. Len(d) > 0 => m.next[d[Len(d)]] = None
  <2> SUFFICES ASSUME Len(d) > 0 PROVE m.next[d[Len(d)]] = None
    OBVIOUS
  <2>1. Len(d) \in 1 .. Len(d) /\ Len(d) + 1 = Len(c) /\ Len(c) \in 2 .. Len(c)
    BY <1>1, <1>2
  <2>2. d[Len(d)] = c[Len(c)]
    BY <1>2, <2>1
  <2> QED BY <1>1, <1>11, <2>1, <2>2 DEF Holds
<1>14. \A i \in 2 .. Len(d) : m.prev[d[i]] = d[i - 1]
  <2> SUFFICES ASSUME NEW i \in 2 .. Len(d) PROVE m.prev[d[i]] = d[i - 1]
    OBVIOUS
  <2>1. i + 1 \in 2 .. Len(c) /\ i \in 1 .. Len(d) /\ i - 1 \in 1 .. Len(d)
    BY <1>1, <1>2
  <2>2. /\ l.prev[c[i + 1]] = c[(i + 1) - 1] /\ (i + 1) - 1 = (i - 1) + 1
        /\ d[i] = c[i + 1] /\ d[i - 1] = c[(i - 1) + 1]
    BY <1>2, <2>1 DEF Holds
  <2> QED BY <1>11, <2>1, <2>2
<1>15. Holds(m, d)
  BY <1>2, <1>9, <1>10, <1>12, <1>13, <1>14 DEF Holds
<1> QED BY <1>3, <1>5, <1>6, <1>7, <1>8, <1>15 DEF m, d

LEMMA MembersAppend ==
  ASSUME NEW c \in Seq(Tasks), NEW t \in Tasks
  PROVE  Members(Append(c, t)) = Members(c) \cup {t}
<1> DEFINE d == Append(c, t)
<1>1. /\ Len(c) \in Nat /\ Len(d) = Len(c) + 1 /\ d[Len(d)] = t
      /\ \A i \in 1 .. Len(c) : d[i] = c[i]
  OBVIOUS
<1> HIDE DEF d
<1>2. ASSUME NEW x \in Members(d) PROVE x \in Members(c) \cup {t}
  <2>1. PICK i \in 1 .. Len(d) : x = d[i]
    BY DEF Members
  <2>2. i \in 1 .. Len(c) \/ i = Len(d)
    BY <1>1
  <2> QED BY <1>1, <2>1, <2>2 DEF Members
<1>3. ASSUME NEW x \in Members(c) PROVE x \in Members(d)
  <2>1. PICK i \in 1 .. Len(c) : x = c[i]
    BY DEF Members
  <2>2. i \in 1 .. Len(d)
    BY <1>1
  <2> QED BY <1>1, <2>1, <2>2 DEF Members
<1>4. t \in Members(d)
  <2>1. Len(d) \in 1 .. Len(d)
    BY <1>1
  <2> QED BY <1>1, <2>1 DEF Members
<1> QED BY <1>2, <1>3, <1>4 DEF d

-----------------------------------------------------------------------------
(***************************************************************************)
(* The invariant, on the sequence c that the ready list holds.             *)
(***************************************************************************)

\* Where the tasks are while the kernel runs, and what the statics say of it.
Placed(c) ==
  /\ live = (Members(c) \cup {running, idle, dying}) \ {None}
  /\ Members(c) \cap {running, idle, dying} = {}
  /\ dying # None => dying \notin {running, idle}
  /\ current \in {None, running}
  /\ dying # None <=> mode = "clean"
  /\ mode = "boot" <=> running = None
  /\ mode \in {"boot", "init"} <=> idle = None
  /\ mode \in {"boot", "init"} => c = << >>
  /\ mode = "boot" => \A t \in Tasks : ~rsp[t]
  /\ running # None => ~rsp[running]
  /\ dying # None => ~rsp[dying]

State(c) ==
  /\ Holds(list, c)
  /\ Members(c) \subseteq live
  /\ \A t \in live \ Members(c) : Unlinked(list, t)
  /\ running # None /\ running = idle => c = << >>
  /\ panic = "no" => Placed(c)

IInv == TypeOK /\ QuitAssertsHold /\ \E c : State(c)

LEMMA EmptyList ==
  /\ << >> \in Seq(Tasks) /\ Len(<< >>) = 0 /\ Members(<< >>) = {}
  /\ \A l \in Lists : l.head = None => Holds(l, << >>)
BY DEF Members, Holds

LEMMA InitInv == Init => IInv
<1> SUFFICES ASSUME Init PROVE IInv
  OBVIOUS
<1>1. TypeOK /\ QuitAssertsHold
  BY DEF Init, TypeOK, QuitAssertsHold, Option
<1>2. list \in Lists /\ list.head = None
  BY DEF Init, Lists, Option
<1>3. State(<< >>)
  BY <1>2, EmptyList DEF Init, State, Placed
<1> QED BY <1>1, <1>3 DEF IInv

\* The two tasks of the boot sequence.
LEMMA BootStep ==
  ASSUME TypeOK, QuitAssertsHold, NEW c, State(c), InitKernelMainThread \/ KernelMainInitFn
  PROVE  IInv'
<1>0. list \in Lists
  BY DEF TypeOK, Lists
<1>1. panic = "no" /\ Placed(c) /\ c = << >> /\ mode \in {"boot", "init"} /\ dying = None /\ idle = None
  BY DEF InitKernelMainThread, KernelMainInitFn, State, Placed
<1>2. Members(c) = {} /\ list.head = None
  BY <1>1, EmptyList DEF State, Holds
<1>3. CASE OutOfMemory
  <2>1. TypeOK' /\ QuitAssertsHold'
    BY <1>3 DEF OutOfMemory, Panic, TypeOK, QuitAssertsHold
  <2>2. State(c)'
    BY <1>3 DEF OutOfMemory, Panic, State
  <2> QED BY <2>1, <2>2 DEF IInv
<1>4. CASE InitKernelMainThread /\ ~OutOfMemory
  <2>1. PICK t \in Tasks :
          /\ list' = [Created(list, t) EXCEPT !.head = None]
          /\ live' = {t} /\ current' = t /\ running' = t /\ mode' = "init"
          /\ UNCHANGED <<idle, rsp, dying, panic>>
    BY <1>4 DEF InitKernelMainThread
  <2>2. mode = "boot" /\ t # None
    BY <1>4, SchedAssumption DEF InitKernelMainThread
  <2>3. list' \in Lists /\ list'.head = None /\ Unlinked(list', t)
    BY <1>0, <2>1 DEF Created, Lists, Option, Unlinked
  <2>4. live = {}
    BY <1>1, <1>2, <2>2 DEF Placed
  <2>5. TypeOK' /\ QuitAssertsHold'
    <3>1. list' \in [head : Option, next : [Tasks -> Option], prev : [Tasks -> Option]]
      BY <2>3 DEF Lists
    <3>2. {current', idle', running', dying'} \subseteq Option
      BY <2>1 DEF TypeOK, Option
    <3> QED BY <1>1, <2>1, <2>2, <3>1, <3>2 DEF TypeOK, QuitAssertsHold
  <2>6. Holds(list', c)
    BY <1>1, <2>3, EmptyList
  <2>7. ~rsp[t]
    BY <1>1, <2>2 DEF Placed
  <2>8. State(c)'
    BY <1>1, <1>2, <2>1, <2>2, <2>3, <2>6, <2>7 DEF State, Placed
  <2> QED BY <2>5, <2>8 DEF IInv
<1>5. CASE KernelMainInitFn /\ ~OutOfMemory
  <2>1. PICK t \in Tasks \ live :
          /\ list' = Created(list, t)
          /\ live' = live \cup {t} /\ rsp' = [rsp EXCEPT ![t] = TRUE]
          /\ idle' = t /\ mode' = "task"
          /\ UNCHANGED <<current, running, dying, panic>>
    BY <1>5 DEF KernelMainInitFn
  <2>2. mode = "init" /\ t # None /\ running # None /\ running \in live /\ live = {running}
    BY <1>1, <1>2, <1>5, SchedAssumption DEF KernelMainInitFn, Placed
  <2>3. /\ list' \in Lists /\ Holds(list', c) /\ Unlinked(list', t)
        /\ \A s \in Tasks \ {t} : Unlinked(list, s) => Unlinked(list', s)
    BY <1>0, <1>2, <2>1, CreateHolds DEF State
  <2>4. TypeOK' /\ QuitAssertsHold'
    BY <1>1, <2>1, <2>2, <2>3 DEF TypeOK, Lists, Option, QuitAssertsHold
  <2>5. ~rsp'[running]
    BY <1>1, <2>1, <2>2 DEF TypeOK, Placed
  <2>6. \A s \in live' \ Members(c) : Unlinked(list', s)
    BY <1>2, <2>1, <2>2, <2>3 DEF State, TypeOK
  <2>7. Placed(c)'
    BY <1>1, <1>2, <2>1, <2>2, <2>5 DEF Placed
  <2>8. State(c)'
    BY <1>1, <1>2, <2>1, <2>2, <2>3, <2>6, <2>7 DEF State
  <2> QED BY <2>4, <2>8 DEF IInv
<1> QED BY <1>3, <1>4, <1>5

\* A thread between two calls: what a call can rely on.
LEMMA ActingFacts ==
  ASSUME TypeOK, NEW c, State(c), Acting
  PROVE  /\ list \in Lists /\ c \in Seq(Tasks) /\ panic = "no" /\ mode = "task" /\ Placed(c)
         /\ dying = None /\ running \in Tasks /\ idle \in Tasks /\ running # idle
         /\ running \notin Members(c) /\ idle \notin Members(c)
         /\ live = Members(c) \cup {running, idle}
         /\ Unlinked(list, running) /\ Unlinked(list, idle)
<1>1. list \in Lists /\ c \in Seq(Tasks) /\ panic = "no" /\ mode = "task" /\ Placed(c)
  BY DEF TypeOK, Lists, Acting, State, Holds
<1>2. dying = None /\ running # None /\ idle # None /\ running # idle
  BY <1>1 DEF Acting, Placed
<1>3. running \in Tasks /\ idle \in Tasks
  BY <1>2 DEF TypeOK, Option
<1>4. running \notin Members(c) /\ idle \notin Members(c)
  BY <1>1 DEF Placed
<1>5. None \notin Members(c)
  BY SchedAssumption DEF State, TypeOK
<1>6. live = Members(c) \cup {running, idle}
  BY <1>1, <1>2, <1>3, <1>5 DEF Placed
<1> QED BY <1>1, <1>2, <1>3, <1>4, <1>6 DEF State

\* A call that panics before it has changed anything.
LEMMA PanicStep ==
  ASSUME TypeOK, NEW c, State(c), NEW cause \in {"memory", "current", "rsp"},
         Panic(cause), UNCHANGED <<list, current, rsp>>
  PROVE  IInv'
<1>1. TypeOK' /\ QuitAssertsHold'
  BY DEF Panic, TypeOK, QuitAssertsHold
<1>2. State(c)'
  BY DEF Panic, State
<1> QED BY <1>1, <1>2 DEF IInv

LEMMA SpawnStep ==
  ASSUME TypeOK, QuitAssertsHold, NEW c, State(c), SpawnKthread
  PROVE  IInv'
<1>1. /\ list \in Lists /\ c \in Seq(Tasks) /\ panic = "no" /\ mode = "task" /\ Placed(c)
      /\ dying = None /\ running \in Tasks /\ idle \in Tasks /\ running # idle
      /\ live = Members(c) \cup {running, idle}
  BY ActingFacts DEF SpawnKthread
<1>2. CASE OutOfMemory
  BY <1>2, PanicStep DEF OutOfMemory
<1>3. CASE ~OutOfMemory
  <2>1. PICK t \in Tasks \ live :
          /\ list' = Added(Created(list, t), t)
          /\ live' = live \cup {t}
          /\ rsp' = [rsp EXCEPT ![t] = TRUE]
          /\ UNCHANGED <<current, idle, running, dying, mode, panic>>
    BY <1>3 DEF SpawnKthread
  <2>2. PICK l : l = Created(list, t)
    OBVIOUS
  <2>3. t \in Tasks \ Members(c)
    BY <1>1
  <2>4. /\ l \in Lists /\ Holds(l, c) /\ Unlinked(l, t)
        /\ \A s \in Tasks \ {t} : Unlinked(list, s) => Unlinked(l, s)
    BY <1>1, <2>2, <2>3, CreateHolds DEF State
  <2>5. PICK d : d = Append(c, t)
    OBVIOUS
  <2>6. /\ list' \in Lists /\ Holds(list', d)
        /\ \A s \in Tasks \ (Members(c) \cup {t}) : Unlinked(l, s) => Unlinked(list', s)
    BY <2>1, <2>2, <2>3, <2>4, <2>5, AddHolds
  <2>7. Members(d) = Members(c) \cup {t}
    BY <1>1, <2>5, MembersAppend
  <2>8. TypeOK' /\ QuitAssertsHold'
    <3>1. list' \in [head : Option, next : [Tasks -> Option], prev : [Tasks -> Option]]
      BY <2>6 DEF Lists
    <3> QED BY <1>1, <2>1, <3>1 DEF TypeOK, QuitAssertsHold
  <2>9. \A s \in live' \ Members(d) : Unlinked(list', s)
    BY <1>1, <2>1, <2>4, <2>6, <2>7 DEF State
  <2>10. ~rsp'[running]
    BY <1>1, <2>1, SchedAssumption DEF TypeOK, Placed
  <2>11. Placed(d)'
    BY <1>1, <2>1, <2>7, <2>10, SchedAssumption DEF Placed
  <2>12. State(d)'
    BY <1>1, <2>1, <2>6, <2>7, <2>9, <2>11 DEF State
  <2> QED BY <2>8, <2>12 DEF IInv
<1> QED BY <1>2, <1>3

\* What yield_current does to the list: the caller goes to the end, the first
\* task comes off.
LEMMA RotateHolds ==
  ASSUME TypeOK, NEW c, State(c), Acting, NEW r, r = running, NEW e, e = Append(c, r)
  PROVE  /\ e \in Seq(Tasks) /\ e # << >> /\ Tail(e) \in Seq(Tasks)
         /\ Next_task(Added(list, r)) = e[1]
         /\ Popped(Added(list, r)) \in Lists
         /\ Holds(Popped(Added(list, r)), Tail(e))
         /\ e[1] \in Tasks \ Members(Tail(e))
         /\ Members(Tail(e)) \cup {e[1]} = Members(c) \cup {r}
         /\ \A s \in live \ Members(Tail(e)) : Unlinked(Popped(Added(list, r)), s)
<1>1. /\ list \in Lists /\ c \in Seq(Tasks) /\ r \in Tasks \ Members(c) /\ Unlinked(list, r)
      /\ live \subseteq Tasks
  BY ActingFacts DEF TypeOK
<1>2. PICK l : l = Added(list, r)
  OBVIOUS
<1>3. /\ l \in Lists /\ Holds(l, e)
      /\ \A s \in Tasks \ (Members(c) \cup {r}) : Unlinked(list, s) => Unlinked(l, s)
  BY <1>1, <1>2, AddHolds DEF State
<1>4. e \in Seq(Tasks) /\ e # << >> /\ Tail(e) \in Seq(Tasks) /\ Members(e) = Members(c) \cup {r}
  BY <1>1, MembersAppend
<1>5. /\ Popped(l) \in Lists
      /\ Holds(Popped(l), Tail(e))
      /\ Next_task(l) = e[1]
      /\ e[1] \in Tasks \ Members(Tail(e))
      /\ Members(e) = Members(Tail(e)) \cup {e[1]}
      /\ Unlinked(Popped(l), e[1])
      /\ \A s \in Tasks \ Members(e) : Unlinked(l, s) => Unlinked(Popped(l), s)
  BY <1>3, <1>4, PopHolds
<1>6. ASSUME NEW s \in live \ Members(Tail(e)) PROVE Unlinked(Popped(l), s)
  <2>1. CASE s = e[1]
    BY <1>5, <2>1
  <2>2. CASE s # e[1]
    <3>1. s \in Tasks \ Members(e) /\ s \in live \ Members(c) /\ s # r
      BY <1>1, <1>4, <1>5, <2>2
    <3> QED BY <1>3, <1>4, <1>5, <3>1 DEF State
  <2> QED BY <2>1, <2>2
<1> QED BY <1>2, <1>4, <1>5, <1>6

LEMMA YieldStep ==
  ASSUME TypeOK, QuitAssertsHold, NEW c, State(c), YieldCurrent
  PROVE  IInv'
<1>1. /\ list \in Lists /\ c \in Seq(Tasks) /\ panic = "no" /\ mode = "task" /\ Placed(c)
      /\ dying = None /\ running \in Tasks /\ idle \in Tasks /\ running # idle
      /\ running \notin Members(c) /\ idle \notin Members(c)
      /\ live = Members(c) \cup {running, idle} /\ Acting
  BY ActingFacts DEF YieldCurrent
<1>2. CASE current = None
  BY <1>2, PanicStep DEF YieldCurrent
<1>3. CASE current # None
  <2>1. current = running
    BY <1>1, <1>3 DEF Placed
  <2>2. PICK r : r = running
    OBVIOUS
  <2>3. PICK e : e = Append(c, r)
    OBVIOUS
  <2>4. PICK n : n = e[1]
    OBVIOUS
  <2>5. PICK d : d = Tail(e)
    OBVIOUS
  <2>6. /\ d \in Seq(Tasks) /\ Next_task(Added(list, r)) = n
        /\ Popped(Added(list, r)) \in Lists /\ Holds(Popped(Added(list, r)), d)
        /\ n \in Tasks \ Members(d) /\ Members(d) \cup {n} = Members(c) \cup {r}
        /\ \A s \in live \ Members(d) : Unlinked(Popped(Added(list, r)), s)
    BY <1>1, <2>2, <2>3, <2>4, <2>5, RotateHolds
  <2>7. list' = Popped(Added(list, r)) /\ current' = n
    BY <1>3, <2>1, <2>2, <2>6 DEF YieldCurrent
  <2>8. idle' = idle /\ live' = live /\ dying' = dying /\ mode' = mode
    BY <1>3 DEF YieldCurrent, Panic
  <2>9. \/ n = r /\ UNCHANGED <<rsp, running, panic>>
        \/ /\ n # r /\ running' = n /\ UNCHANGED panic
           /\ \E stored \in RaxOutcomes : rsp' = [rsp EXCEPT ![n] = FALSE, ![r] = @ \/ stored]
        \/ panic' = "rsp" /\ UNCHANGED <<rsp, running>>
    BY <1>3, <2>1, <2>2, <2>6 DEF YieldCurrent, Panic
  <2>10. rsp' \in [Tasks -> BOOLEAN] /\ (running' = n /\ n # r => ~rsp'[n])
    <3>1. CASE UNCHANGED <<rsp, running>>
      BY <2>2, <3>1 DEF TypeOK
    <3>2. CASE \E stored \in RaxOutcomes : n # r /\ rsp' = [rsp EXCEPT ![n] = FALSE, ![r] = @ \/ stored]
      <4>1. PICK stored \in BOOLEAN : n # r /\ rsp' = [rsp EXCEPT ![n] = FALSE, ![r] = @ \/ stored]
        BY <3>2, SchedAssumption
      <4>2. rsp' \in [Tasks -> BOOLEAN]
        BY <1>1, <2>2, <2>6, <4>1 DEF TypeOK
      <4> QED BY <1>1, <2>2, <2>6, <4>1, <4>2 DEF TypeOK
    <3> QED BY <2>9, <3>1, <3>2
  <2>11. TypeOK' /\ QuitAssertsHold'
    <3>1. list' \in [head : Option, next : [Tasks -> Option], prev : [Tasks -> Option]]
      BY <2>6, <2>7 DEF Lists
    <3>2. {current', idle', running', dying'} \subseteq Option
      BY <1>1, <2>2, <2>6, <2>7, <2>8, <2>9 DEF TypeOK, Option
    <3>3. panic' \in {"no", "rsp"} /\ running' \in Tasks
      BY <1>1, <2>2, <2>6, <2>9
    <3> QED BY <1>1, <2>8, <2>10, <3>1, <3>2, <3>3, SchedAssumption DEF TypeOK, QuitAssertsHold
  <2>12. Members(d) \subseteq live' /\ \A s \in live' \ Members(d) : Unlinked(list', s)
    BY <1>1, <2>2, <2>6, <2>7, <2>8
  <2>13. running' # idle'
    BY <1>1, <2>2, <2>6, <2>8, <2>9
  <2>14. ASSUME panic' = "no" PROVE Placed(d)'
    <3>1. running' = n
      BY <1>1, <2>2, <2>9, <2>14
    <3>2. ~rsp'[n]
      BY <1>1, <2>2, <2>9, <2>10, <2>14, <3>1, SchedAssumption DEF Placed
    <3>3. None \notin Members(d) /\ n # None
      BY <1>1, <2>2, <2>6, SchedAssumption DEF TypeOK
    <3> QED BY <1>1, <2>2, <2>6, <2>7, <2>8, <3>1, <3>2, <3>3, SchedAssumption DEF Placed
  <2>15. State(d)'
    BY <2>6, <2>7, <2>12, <2>13, <2>14 DEF State
  <2> QED BY <2>11, <2>15 DEF IInv
<1> QED BY <1>2, <1>3

\* What quit_current takes off the list: its first task, or the idle task.
LEMMA TakeHolds ==
  ASSUME TypeOK, NEW c, State(c), Acting, NEW d, d = IF c = << >> THEN c ELSE Tail(c)
  PROVE  /\ Popped(list) \in Lists /\ Holds(Popped(list), d)
         /\ Next_task(list) = IF c = << >> THEN idle ELSE c[1]
         /\ Next_task(list) \in Tasks \ Members(d) /\ Next_task(list) # running
         /\ running \notin Members(d) /\ idle \notin Members(d)
         /\ live = Members(d) \cup {Next_task(list), running, idle}
         /\ Next_task(list) = idle => d = << >>
         /\ \A s \in live \ Members(d) : Unlinked(Popped(list), s)
<1>1. /\ list \in Lists /\ c \in Seq(Tasks) /\ running \in Tasks /\ idle \in Tasks
      /\ running # idle /\ running \notin Members(c) /\ idle \notin Members(c)
      /\ live = Members(c) \cup {running, idle} /\ Holds(list, c) /\ live \subseteq Tasks
  BY ActingFacts DEF TypeOK, State
<1>2. CASE c = << >>
  <2>1. list.head = None /\ Members(c) = {}
    BY <1>1, <1>2, EmptyList DEF Holds
  <2>2. Popped(list) = list /\ Next_task(list) = idle
    BY <2>1 DEF Popped, Next_task
  <2> QED BY <1>1, <1>2, <2>1, <2>2 DEF State
<1>3. CASE c # << >>
  <2>1. d = Tail(c)
    BY <1>3
  <2>2. /\ Popped(list) \in Lists
        /\ Holds(Popped(list), d)
        /\ Next_task(list) = c[1]
        /\ c[1] \in Tasks \ Members(d)
        /\ Members(c) = Members(d) \cup {c[1]}
        /\ Unlinked(Popped(list), c[1])
        /\ \A s \in Tasks \ Members(c) : Unlinked(list, s) => Unlinked(Popped(list), s)
    BY <1>1, <1>3, <2>1, PopHolds
  <2>3. ASSUME NEW s \in live \ Members(d) PROVE Unlinked(Popped(list), s)
    <3>1. CASE s = c[1]
      BY <2>2, <3>1
    <3>2. CASE s # c[1]
      BY <1>1, <2>2, <3>2 DEF State
    <3> QED BY <3>1, <3>2
  <2> QED BY <1>1, <1>3, <2>2, <2>3
<1> QED BY <1>2, <1>3

LEMMA QuitStep ==
  ASSUME TypeOK, QuitAssertsHold, NEW c, State(c), QuitCurrent
  PROVE  IInv'
<1>1. /\ panic = "no" /\ mode = "task" /\ Placed(c) /\ dying = None
      /\ running \in Tasks /\ idle \in Tasks /\ running # idle /\ Acting
      /\ None \notin Tasks
  BY ActingFacts, SchedAssumption DEF QuitCurrent
<1>2. CASE current = None
  BY <1>2, PanicStep DEF QuitCurrent
<1>3. CASE current # None
  <2>1. current = running
    BY <1>1, <1>3 DEF Placed
  <2>2. PICK d : d = IF c = << >> THEN c ELSE Tail(c)
    OBVIOUS
  <2>3. PICK n : n = Next_task(list)
    OBVIOUS
  <2>4. /\ Popped(list) \in Lists /\ Holds(Popped(list), d)
        /\ n \in Tasks \ Members(d) /\ n # running
        /\ running \notin Members(d) /\ idle \notin Members(d)
        /\ live = Members(d) \cup {n, running, idle}
        /\ n = idle => d = << >>
        /\ \A s \in live \ Members(d) : Unlinked(Popped(list), s)
    BY <1>1, <2>2, <2>3, TakeHolds
  <2>5. list' = Popped(list) /\ current' = None /\ idle' = idle /\ live' = live
    BY <1>3 DEF QuitCurrent, Panic
  <2>6. \/ /\ rsp' = [rsp EXCEPT ![n] = FALSE] /\ running' = n /\ dying' = running
           /\ mode' = "clean" /\ UNCHANGED panic
        \/ panic' = "rsp" /\ UNCHANGED <<rsp, running, dying, mode>>
    BY <1>3, <2>1, <2>3 DEF QuitCurrent, Panic
  <2>7. rsp' \in [Tasks -> BOOLEAN] /\ (running' = n => ~rsp'[n] /\ ~rsp'[running])
    BY <1>1, <2>4, <2>6 DEF TypeOK, Placed
  <2>8. TypeOK' /\ QuitAssertsHold'
    <3>1. list' \in [head : Option, next : [Tasks -> Option], prev : [Tasks -> Option]]
      BY <2>4, <2>5 DEF Lists
    <3>2. {current', idle', running', dying'} \subseteq Option
      BY <1>1, <2>4, <2>5, <2>6 DEF TypeOK, Option
    <3>3. /\ panic' \in {"no", "rsp"} /\ running' \in Tasks
          /\ mode' \in {"task", "clean"}
      BY <1>1, <2>4, <2>6
    <3> QED BY <1>1, <2>5, <2>7, <3>1, <3>2, <3>3 DEF TypeOK, QuitAssertsHold
  <2>9. Members(d) \subseteq live' /\ \A s \in live' \ Members(d) : Unlinked(list', s)
    BY <2>4, <2>5
  <2>10. running' = idle' => d = << >>
    BY <1>1, <2>4, <2>5, <2>6
  <2>11. ASSUME panic' = "no" PROVE Placed(d)'
    <3>1. running' = n /\ dying' = running /\ mode' = "clean"
      BY <2>6, <2>11
    <3>2. None \notin Members(d)
      BY <1>1, <2>4 DEF TypeOK
    <3>3. live' = (Members(d) \cup {running', idle', dying'}) \ {None}
      BY <1>1, <2>4, <2>5, <3>1, <3>2
    <3>4. Members(d) \cap {running', idle', dying'} = {}
      BY <1>1, <2>4, <2>5, <3>1, <3>2
    <3>5. ~rsp'[running'] /\ ~rsp'[dying']
      BY <2>7, <3>1
    <3> QED BY <1>1, <2>4, <2>5, <3>1, <3>3, <3>4, <3>5 DEF Placed
  <2>12. State(d)'
    BY <2>4, <2>5, <2>9, <2>10, <2>11 DEF State
  <2> QED BY <2>8, <2>12 DEF IInv
<1> QED BY <1>2, <1>3

LEMMA CleanStep ==
  ASSUME TypeOK, QuitAssertsHold, NEW c, State(c), CleanQuitTask
  PROVE  IInv'
<1>1. /\ panic = "no" /\ mode = "clean" /\ Placed(c) /\ dying # None /\ dying \in Tasks
      /\ dying \notin Members(c) /\ dying \in live /\ dying \notin {running, idle}
      /\ None \notin Tasks
  BY SchedAssumption DEF CleanQuitTask, State, Placed, TypeOK, Option
<1>2. Unlinked(list, dying) /\ ~rsp[dying]
  BY <1>1 DEF State, Placed
<1>3. /\ live' = live \ {dying} /\ panic' = "no" /\ dying' = None /\ mode' = "task"
      /\ UNCHANGED <<list, current, idle, rsp, running>>
  BY <1>2 DEF CleanQuitTask, Unlinked
<1>4. TypeOK' /\ QuitAssertsHold'
  <2>1. {current', idle', running', dying'} \subseteq Option
    BY <1>3 DEF TypeOK, Option
  <2> QED BY <1>1, <1>3, <2>1 DEF TypeOK, QuitAssertsHold
<1>5. Placed(c)'
  <2>1. live' = (Members(c) \cup {running', idle', dying'}) \ {None}
    BY <1>1, <1>3 DEF Placed
  <2>2. Members(c) \cap {running', idle', dying'} = {}
    BY <1>1, <1>3 DEF Placed, State, TypeOK
  <2>3. current' \in {None, running'} /\ running' # None /\ idle' # None
    BY <1>1, <1>3 DEF Placed
  <2>4. running' # None => ~rsp'[running']
    BY <1>1, <1>3 DEF Placed
  <2> QED BY <1>3, <2>1, <2>2, <2>3, <2>4 DEF Placed
<1>6. State(c)'
  BY <1>1, <1>3, <1>5 DEF State
<1> QED BY <1>4, <1>6 DEF IInv

LEMMA HaltStep ==
  ASSUME TypeOK, QuitAssertsHold, NEW c, State(c), HaltLoop \/ UNCHANGED vars
  PROVE  IInv'
<1>1. CASE HaltLoop
  <2>1. TypeOK' /\ QuitAssertsHold'
    BY <1>1 DEF HaltLoop, TypeOK, QuitAssertsHold
  <2>2. State(c)'
    BY <1>1 DEF HaltLoop, State, Placed
  <2> QED BY <2>1, <2>2 DEF IInv
<1>2. CASE UNCHANGED vars
  <2>1. TypeOK' /\ QuitAssertsHold'
    BY <1>2 DEF vars, TypeOK, QuitAssertsHold
  <2>2. State(c)'
    BY <1>2 DEF vars, State, Placed
  <2> QED BY <2>1, <2>2 DEF IInv
<1> QED BY <1>1, <1>2

LEMMA StepInv == IInv /\ [Next]_vars => IInv'
<1> SUFFICES ASSUME IInv, [Next]_vars PROVE IInv'
  OBVIOUS
<1>1. TypeOK /\ QuitAssertsHold
  BY DEF IInv
<1>2. PICK c : State(c)
  BY DEF IInv
<1>3. CASE InitKernelMainThread \/ KernelMainInitFn
  BY <1>1, <1>2, <1>3, BootStep
<1>4. CASE SpawnKthread
  BY <1>1, <1>2, <1>4, SpawnStep
<1>5. CASE YieldCurrent
  BY <1>1, <1>2, <1>5, YieldStep
<1>6. CASE QuitCurrent
  BY <1>1, <1>2, <1>6, QuitStep
<1>7. CASE CleanQuitTask
  BY <1>1, <1>2, <1>7, CleanStep
<1>8. CASE HaltLoop \/ Halted \/ UNCHANGED vars
  BY <1>1, <1>2, <1>8, HaltStep DEF Halted
<1> QED BY <1>3, <1>4, <1>5, <1>6, <1>7, <1>8 DEF Next

LEMMA Invariance == Spec => []IInv
BY InitInv, StepInv, PTL DEF Spec

-----------------------------------------------------------------------------
(***************************************************************************)
(* What the invariant gives.                                               *)
(***************************************************************************)

LEMMA ReadyMembers ==
  ASSUME NEW c, State(c)
  PROVE  ReadyList(list) = c /\ c \in Seq(Tasks) /\ DOMAIN c = 1 .. Len(c) /\ Ready = Members(c)
<1>1. ReadyList(list) = c /\ c \in Seq(Tasks)
  BY HoldsReadyList DEF State, Holds
<1>2. DOMAIN c = 1 .. Len(c)
  BY <1>1
<1> QED BY <1>1, <1>2 DEF Ready, Members

\* The statics and links of the scheduler keep their types, and kernel_main
\* never runs without an idle task for pop_next_ready_task to unwrap.
THEOREM TypeCorrect == Spec => []TypeOK
<1>1. IInv => TypeOK
  BY DEF IInv
<1> QED BY <1>1, Invariance, PTL

\* add_task_to_ready_list and pop_next_ready_task keep the intrusive list
\* linked both ways, without a cycle, however many tasks there are.
THEOREM ListStaysLinked == Spec => []ListLinked
<1>1. IInv => ListLinked
  <2> SUFFICES ASSUME IInv PROVE ListLinked
    OBVIOUS
  <2>1. PICK c : State(c)
    BY DEF IInv
  <2>2. ReadyList(list) = c /\ c \in Seq(Tasks) /\ DOMAIN c = 1 .. Len(c) /\ Ready = Members(c)
    BY <2>1, ReadyMembers
  <2>3. Len(c) \in Nat /\ Holds(list, c)
    BY <2>1, <2>2 DEF State
  <2>4. list.head # None => \E chain \in Chains : IsList(list, chain)
    <3> SUFFICES ASSUME list.head # None PROVE \E chain \in Chains : IsList(list, chain)
      OBVIOUS
    <3>1. Len(c) > 0
      BY <2>3 DEF Holds
    <3>2. Len(c) <= Cardinality(Tasks) /\ Cardinality(Tasks) \in Nat
      BY <2>2, <2>3, ChainBound, FS_CardinalityType, SchedAssumption DEF Holds
    <3>3. Len(c) \in 1 .. Cardinality(Tasks) /\ c \in [1 .. Len(c) -> Tasks]
      BY <2>2, <2>3, <3>1, <3>2
    <3>4. c \in Chains
      BY <3>3 DEF Chains
    <3>5. IsList(list, c)
      BY <2>3, <3>1 DEF Holds, IsList
    <3> QED BY <3>4, <3>5
  <2>5. \A i, j \in 1 .. Len(c) : c[i] = c[j] => i = j
    BY <2>3 DEF Holds
  <2>6. \A i \in (1 .. Len(c)) \ {1} : list.prev[c[i]] = c[i - 1]
    BY <2>3 DEF Holds
  <2>7. \A t \in live \ Ready : list.next[t] = None /\ list.prev[t] = None
    BY <2>1, <2>2 DEF State, Unlinked
  <2> QED BY <2>2, <2>4, <2>5, <2>6, <2>7 DEF ListLinked
<1> QED BY <1>1, Invariance, PTL

\* No yield, quit or spawn loses a thread or queues it twice, and
\* clean_quit_task drops no stack that is in use.
THEOREM TasksPlaced == Spec => []EveryTaskPlaced
<1>1. IInv => EveryTaskPlaced
  <2> SUFFICES ASSUME IInv, panic = "no" PROVE EveryTaskPlaced
    BY DEF EveryTaskPlaced
  <2>1. PICK c : State(c)
    BY DEF IInv
  <2>2. Ready = Members(c) /\ Placed(c)
    BY <2>1, ReadyMembers DEF State
  <2> QED BY <2>2 DEF Placed, EveryTaskPlaced
<1> QED BY <1>1, Invariance, PTL

\* The three assertions of clean_quit_task never fail.
THEOREM QuitAsserts == Spec => []QuitAssertsHold
<1>1. IInv => QuitAssertsHold
  BY DEF IInv
<1> QED BY <1>1, Invariance, PTL

\* pop_next_ready_task falls back on the idle task only with an empty list.
THEOREM IdleLast == Spec => []IdleOnlyWhenNoneReady
<1>1. IInv => IdleOnlyWhenNoneReady
  BY DEF IInv, State, Holds, IdleOnlyWhenNoneReady
<1> QED BY <1>1, Invariance, PTL

\* CURRENT_TASK is null or names the thread on the CPU.
THEOREM CurrentFresh == Spec => []CurrentNotStale
<1>1. IInv => CurrentNotStale
  BY DEF IInv, State, Placed, CurrentNotStale
<1> QED BY <1>1, Invariance, PTL

-----------------------------------------------------------------------------
(***************************************************************************)
(* The scheduler implements RoundRobin: one lemma per call that does not   *)
(* panic, and a panic is RoundRobin's Stop.                                *)
(***************************************************************************)

\* ReadyList in the two states of a step.
LEMMA QueueOf ==
  ASSUME NEW c, State(c)
  PROVE  /\ ReadyList(list) = c /\ Queue!Queued = Members(c)
         /\ panic = "no" => Tasks \ live \subseteq Queue!Unused
<1>1. ReadyList(list) = c /\ DOMAIN c = 1 .. Len(c)
  BY ReadyMembers
<1>2. Queue!Queued = Members(c)
  BY <1>1 DEF Queue!Queued, Members
<1>3. ASSUME panic = "no" PROVE Tasks \ live \subseteq Queue!Unused
  <2>1. live = (Members(c) \cup {running, idle, dying}) \ {None}
    BY <1>3 DEF State, Placed
  <2>2. ASSUME NEW t \in Tasks \ live PROVE t \in Tasks \ (Members(c) \cup {running, idle, dying})
    BY <2>1, SchedAssumption
  <2> QED BY <1>2, <2>2 DEF Queue!Unused
<1> QED BY <1>1, <1>2, <1>3

LEMMA BootRefines ==
  ASSUME TypeOK, NEW c, State(c), InitKernelMainThread \/ KernelMainInitFn, panic' = "no"
  PROVE  Queue!StartMain \/ Queue!StartIdle
<1>1. /\ panic = "no" /\ Placed(c) /\ c = << >> /\ ReadyList(list) = c /\ idle = None
      /\ list \in Lists /\ list.head = None
  BY QueueOf DEF InitKernelMainThread, KernelMainInitFn, State, Placed, Holds, TypeOK, Lists
<1>2. CASE InitKernelMainThread
  <2>1. PICK t \in Tasks :
          /\ list' = [Created(list, t) EXCEPT !.head = None]
          /\ running' = t /\ UNCHANGED <<idle, dying, panic>>
    BY <1>2 DEF InitKernelMainThread, OutOfMemory, Panic
  <2>2. list'.head = None
    BY <1>1, <2>1 DEF Created, Lists
  <2>3. ReadyList(list') = << >>
    BY <2>2 DEF ReadyList
  <2>4. running = None
    BY <1>1, <1>2 DEF Placed, InitKernelMainThread
  <2> QED BY <1>1, <2>1, <2>3, <2>4 DEF Queue!StartMain
<1>3. CASE KernelMainInitFn
  <2>1. PICK t \in Tasks \ live :
          list' = Created(list, t) /\ idle' = t /\ UNCHANGED <<running, dying, panic>>
    BY <1>3 DEF KernelMainInitFn, OutOfMemory, Panic
  <2>2. list'.head = None
    BY <1>1, <2>1 DEF Created, Lists
  <2>3. ReadyList(list') = << >>
    BY <2>2 DEF ReadyList
  <2>4. running # None
    BY <1>1, <1>3 DEF Placed, KernelMainInitFn
  <2>5. t \in Queue!Unused
    BY <1>1, <2>1, QueueOf
  <2> QED BY <1>1, <2>1, <2>3, <2>4, <2>5 DEF Queue!StartIdle
<1> QED BY <1>2, <1>3

LEMMA SpawnRefines ==
  ASSUME TypeOK, NEW c, State(c), SpawnKthread, panic' = "no"
  PROVE  Queue!Spawn
<1>1. /\ list \in Lists /\ c \in Seq(Tasks) /\ panic = "no" /\ dying = None
      /\ running \in Tasks /\ running # idle /\ ReadyList(list) = c
      /\ live = Members(c) \cup {running, idle} /\ None \notin Tasks
  BY ActingFacts, QueueOf, SchedAssumption DEF SpawnKthread
<1>2. PICK t \in Tasks \ live :
        /\ list' = Added(Created(list, t), t)
        /\ UNCHANGED <<idle, running, dying, panic>>
  BY <1>1 DEF SpawnKthread, OutOfMemory, Panic
<1>3. t \in Tasks \ Members(c)
  BY <1>1
<1>4. PICK l : l = Created(list, t)
  OBVIOUS
<1>5. l \in Lists /\ Holds(l, c) /\ Unlinked(l, t)
  BY <1>1, <1>3, <1>4, CreateHolds DEF State
<1>6. Holds(list', Append(c, t))
  BY <1>2, <1>3, <1>4, <1>5, AddHolds
<1>7. ReadyList(list') = Append(ReadyList(list), t)
  BY <1>1, <1>6, HoldsReadyList
<1>8. t \in Queue!Unused
  BY <1>1, QueueOf
<1> QED BY <1>1, <1>2, <1>7, <1>8 DEF Queue!Spawn, Queue!Acting

LEMMA YieldRefines ==
  ASSUME TypeOK, NEW c, State(c), YieldCurrent, panic' = "no"
  PROVE  Queue!Yield
<1>1. /\ c \in Seq(Tasks) /\ panic = "no" /\ dying = None /\ Placed(c) /\ Acting
      /\ running \in Tasks /\ running # idle /\ ReadyList(list) = c /\ None \notin Tasks
  BY ActingFacts, QueueOf, SchedAssumption DEF YieldCurrent
<1>2. current = running
  BY <1>1 DEF YieldCurrent, Panic, Placed
<1>3. PICK r : r = running
  OBVIOUS
<1>4. PICK e : e = Append(c, r)
  OBVIOUS
<1>5. /\ e \in Seq(Tasks) /\ e # << >> /\ Next_task(Added(list, r)) = e[1]
      /\ Holds(Popped(Added(list, r)), Tail(e))
  BY <1>1, <1>3, <1>4, RotateHolds
<1>6. list' = Popped(Added(list, r)) /\ running' = e[1] /\ UNCHANGED <<idle, dying, panic>>
  <2>1. list' = Popped(Added(list, r)) /\ current' = e[1]
    BY <1>1, <1>2, <1>3, <1>5 DEF YieldCurrent
  <2>2. CASE e[1] = current
    BY <1>1, <1>2, <1>3, <1>5, <2>1, <2>2 DEF YieldCurrent, Panic
  <2>3. CASE e[1] # current
    BY <1>1, <1>2, <1>3, <1>5, <2>1, <2>3 DEF YieldCurrent, Panic
  <2> QED BY <2>1, <2>2, <2>3
<1>7. ReadyList(list') = Tail(e)
  BY <1>5, <1>6, HoldsReadyList
<1>8. Head(e) = e[1]
  BY <1>5
<1> QED BY <1>1, <1>3, <1>4, <1>6, <1>7, <1>8 DEF Queue!Yield, Queue!Acting

LEMMA QuitRefines ==
  ASSUME TypeOK, NEW c, State(c), QuitCurrent, panic' = "no"
  PROVE  Queue!Quit
<1>1. /\ c \in Seq(Tasks) /\ panic = "no" /\ dying = None /\ Placed(c) /\ Acting
      /\ running \in Tasks /\ running # idle /\ ReadyList(list) = c /\ None \notin Tasks
  BY ActingFacts, QueueOf, SchedAssumption DEF QuitCurrent
<1>2. current = running
  BY <1>1 DEF QuitCurrent, Panic, Placed
<1>3. PICK d : d = IF c = << >> THEN c ELSE Tail(c)
  OBVIOUS
<1>4. Holds(Popped(list), d) /\ Next_task(list) = IF c = << >> THEN idle ELSE c[1]
  BY <1>1, <1>3, TakeHolds
<1>5. /\ list' = Popped(list) /\ running' = Next_task(list) /\ dying' = running
      /\ UNCHANGED <<idle, panic>>
  BY <1>1, <1>2 DEF QuitCurrent, Panic
<1>6. ReadyList(list') = d
  BY <1>4, <1>5, HoldsReadyList
<1>7. c # << >> => Head(c) = c[1]
  BY <1>1
<1> QED BY <1>1, <1>3, <1>4, <1>5, <1>6, <1>7 DEF Queue!Quit, Queue!Acting

LEMMA CleanRefines ==
  ASSUME TypeOK, NEW c, State(c), CleanQuitTask, panic' = "no"
  PROVE  Queue!Reclaim
<1>1. panic = "no" /\ dying # None
  BY DEF CleanQuitTask, State, Placed
<1>2. dying' = None /\ UNCHANGED <<list, running, idle, panic>>
  BY <1>1 DEF CleanQuitTask
<1> QED BY <1>1, <1>2 DEF Queue!Reclaim

LEMMA InitRefines == Init => Queue!Init
BY DEF Init, Queue!Init, ReadyList

LEMMA StepRefines ==
  IInv /\ [Next]_vars => [Queue!Step]_(Queue!vars)
<1> SUFFICES ASSUME IInv, [Next]_vars
             PROVE  \/ Queue!Next
                    \/ ~(panic = "no") /\ ~(panic' = "no")
                    \/ UNCHANGED Queue!vars
  BY DEF Queue!Step
<1>1. TypeOK
  BY DEF IInv
<1>2. PICK c : State(c)
  BY DEF IInv
<1>3. CASE panic' # "no"
  BY <1>3 DEF Queue!Next, Queue!Stop
<1>4. CASE panic' = "no"
  <2>1. CASE InitKernelMainThread \/ KernelMainInitFn
    BY <1>1, <1>2, <1>4, <2>1, BootRefines DEF Queue!Next
  <2>2. CASE SpawnKthread
    BY <1>1, <1>2, <1>4, <2>2, SpawnRefines DEF Queue!Next
  <2>3. CASE YieldCurrent
    BY <1>1, <1>2, <1>4, <2>3, YieldRefines DEF Queue!Next
  <2>4. CASE QuitCurrent
    BY <1>1, <1>2, <1>4, <2>4, QuitRefines DEF Queue!Next
  <2>5. CASE CleanQuitTask
    BY <1>1, <1>2, <1>4, <2>5, CleanRefines DEF Queue!Next
  <2>6. CASE HaltLoop \/ Halted \/ UNCHANGED vars
    BY <2>6 DEF HaltLoop, Halted, vars, Queue!vars
  <2> QED BY <2>1, <2>2, <2>3, <2>4, <2>5, <2>6 DEF Next
<1> QED BY <1>3, <1>4

\* Behind the links of the ready list, spawn_kthread, yield_current and
\* quit_current are the operations of a first-in first-out queue of threads.
THEOREM SchedulerIsQueue == Spec => ImplementsQueue
<1>1. Spec => []IInv
  BY Invariance
<1> QED BY <1>1, InitRefines, StepRefines, PTL DEF Spec, ImplementsQueue, Queue!Spec

-----------------------------------------------------------------------------
(***************************************************************************)
(* Saved stack pointers, whatever switch_to finds in rax.                  *)
(***************************************************************************)

\* The task just created is the only one whose saved stack pointer changes.
LEMMA CreateSaves ==
  ASSUME IInv, panic = "no", NEW t \in Tasks \ live,
         live' = live \cup {t}, rsp' = [rsp EXCEPT ![t] = TRUE],
         UNCHANGED <<running, dying>>,
         NEW s \in live', s \in live => SavedAt(s)
  PROVE  SavedAt(s)'
<1>1. live \subseteq Tasks /\ rsp \in [Tasks -> BOOLEAN] /\ {running, dying} \subseteq Option
  BY DEF IInv, TypeOK
<1>2. t \notin {running, dying}
  <2>1. PICK c : State(c)
    BY DEF IInv
  <2>2. {running, dying} \ {None} \subseteq live
    BY <2>1 DEF State, Placed
  <2> QED BY <2>2, SchedAssumption
<1>3. CASE s = t
  BY <1>1, <1>2, <1>3 DEF SavedAt
<1>4. CASE s # t
  BY <1>1, <1>4 DEF SavedAt
<1> QED BY <1>3, <1>4

\* A switch spoils no stack pointer but that of the task yield_current leaves.
LEMMA SwitchSaves ==
  ASSUME IInv, YieldCurrent \/ QuitCurrent, panic' = "no", NEW s \in live, SavedAt(s),
         ~(YieldCurrent /\ s = running /\ running' # s)
  PROVE  SavedAt(s)'
<1>1. TypeOK /\ s \in Tasks /\ rsp \in [Tasks -> BOOLEAN] /\ None \notin Tasks
  BY SchedAssumption DEF IInv, TypeOK
<1>2. PICK c : State(c)
  BY DEF IInv
<1>3. /\ panic = "no" /\ dying = None /\ running \in Tasks /\ Placed(c) /\ Acting
      /\ rsp[s] <=> s # running
  BY <1>1, <1>2, ActingFacts DEF YieldCurrent, QuitCurrent, SavedAt
<1>4. CASE YieldCurrent
  <2>1. current = running /\ dying' = dying
    BY <1>3, <1>4 DEF YieldCurrent, Panic, Placed
  <2>2. PICK n : n = Next_task(Added(list, current))
    OBVIOUS
  <2>3. CASE n = running
    <3>1. UNCHANGED <<rsp, running>>
      BY <1>3, <1>4, <2>1, <2>2, <2>3 DEF YieldCurrent, Panic
    <3> QED BY <1>1, <1>3, <2>1, <3>1 DEF SavedAt
  <2>4. CASE n # running
    <3>1. running' = n /\ \E stored \in RaxOutcomes : rsp' = [rsp EXCEPT ![n] = FALSE, ![running] = @ \/ stored]
      BY <1>3, <1>4, <2>1, <2>2, <2>4 DEF YieldCurrent, Panic
    <3>2. s # running
      BY <1>4, <2>4, <3>1
    <3>3. PICK stored : rsp' = [rsp EXCEPT ![n] = FALSE, ![running] = @ \/ stored]
      BY <3>1
    <3>4. rsp'[s] <=> s # n
      BY <1>1, <1>3, <3>2, <3>3
    <3> QED BY <1>1, <1>3, <2>1, <3>1, <3>4 DEF SavedAt
  <2> QED BY <2>3, <2>4
<1>5. CASE QuitCurrent
  <2>1. /\ current = running /\ dying' = running
        /\ running' = Next_task(list) /\ rsp' = [rsp EXCEPT ![Next_task(list)] = FALSE]
    BY <1>3, <1>5 DEF QuitCurrent, Panic, Placed
  <2>2. PICK n : n = Next_task(list)
    OBVIOUS
  <2>3. rsp'[s] <=> s \notin {n, running}
    BY <1>1, <1>3, <2>1, <2>2
  <2> QED BY <2>1, <2>2, <2>3 DEF SavedAt
<1> QED BY <1>4, <1>5

LEMMA StepSaves ==
  ASSUME IInv, [Next]_vars, panic' = "no", NEW s \in live', s \in live => SavedAt(s),
         ~(YieldCurrent /\ s = running /\ running' # s)
  PROVE  SavedAt(s)'
<1>1. PICK c : State(c)
  BY DEF IInv
<1>2. CASE InitKernelMainThread
  <2>1. PICK t \in Tasks : live' = {t} /\ running' = t /\ UNCHANGED rsp
    BY <1>2 DEF InitKernelMainThread, OutOfMemory, Panic
  <2>2. ~rsp[t]
    BY <1>1, <1>2 DEF InitKernelMainThread, State, Placed
  <2> QED BY <2>1, <2>2 DEF SavedAt
<1>3. CASE KernelMainInitFn
  BY <1>3, CreateSaves DEF KernelMainInitFn, OutOfMemory, Panic
<1>4. CASE SpawnKthread
  BY <1>4, CreateSaves DEF SpawnKthread, Acting, OutOfMemory, Panic
<1>5. CASE YieldCurrent \/ QuitCurrent
  <2>1. live' = live
    BY <1>5 DEF YieldCurrent, QuitCurrent, Panic
  <2> QED BY <1>5, <2>1, SwitchSaves
<1>6. CASE CleanQuitTask
  <2>1. /\ live' = live \ {dying} /\ dying' = None
        /\ UNCHANGED <<rsp, running>>
    BY <1>6 DEF CleanQuitTask
  <2>2. s \in Tasks /\ None \notin Tasks
    BY <2>1, SchedAssumption DEF IInv, TypeOK
  <2> QED BY <2>1, <2>2 DEF SavedAt
<1>7. CASE HaltLoop \/ Halted \/ UNCHANGED vars
  BY <1>7 DEF HaltLoop, Halted, vars, SavedAt
<1> QED BY <1>2, <1>3, <1>4, <1>5, <1>6, <1>7 DEF Next

\* For every number of tasks and whatever rax holds, the store that switch_to
\* skips leaves only the task it switches away from without a stack pointer.
THEOREM ContextDamage == Spec => MissingStoreConfined
<1>1. IInv => (panic = "no" => \A t \in live \cap {running, dying} : ~rsp[t])
  <2> SUFFICES ASSUME IInv, panic = "no", NEW t \in live \cap {running, dying} PROVE ~rsp[t]
    OBVIOUS
  <2>1. PICK c : State(c)
    BY DEF IInv
  <2>2. t # None
    BY SchedAssumption DEF IInv, TypeOK
  <2> QED BY <2>1, <2>2 DEF State, Placed
<1>2. IInv /\ [Next]_vars =>
        [panic' = "no" =>
           \A t \in live' :
             \/ SavedAt(t)'
             \/ t \in live /\ ~SavedAt(t)
             \/ YieldCurrent /\ t = running /\ running' # t]_vars
  BY StepSaves
<1> QED BY <1>1, <1>2, Invariance, PTL DEF Spec, MissingStoreConfined
==============================================================================
