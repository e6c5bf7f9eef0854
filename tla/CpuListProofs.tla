---------------------------- MODULE CpuListProofs ----------------------------
(***************************************************************************)
(* Proofs about the CPU-list algebra of CpuList: when the -a expression   *)
(* names its ranges in ascending order, add_cpus keeps the list sorted    *)
(* and merged, and make_other_cpu_list emits exactly the complement.      *)
(* The run cpu_list_unsorted_input shows that the hypothesis is needed.   *)
(***************************************************************************)
EXTENDS CpuList, FiniteSetTheorems, TLAPS

\* An expression whose well-formed tokens name their first CPUs in
\* ascending order (MCAscendingInputs on the model-checking instance).
Ascending(x) ==
  \A i, j \in 1..Len(x) :
     i < j /\ x[i] # Malformed /\ x[j] # Malformed => x[i].start <= x[j].start

\* Canonical, with the gap stated between every two nodes rather than only
\* neighbours: the form the induction needs.
Separated(l) ==
  /\ \A i \in 1..Len(l) : l[i].start <= l[i].end
  /\ \A i, j \in 1..Len(l) : i < j => l[i].end + 1 < l[j].start

\* Every node of the list starts no later than every token still to parse.
StartsBelowInput ==
  \A i \in 1..Len(list), j \in 1..Len(input) :
     input[j] # Malformed => list[i].start <= input[j].start

\* The types of the variables the invariants speak of (nrCpus, a value of
\* the recursive count, is left to TypeOK).
ListTypes ==
  /\ input \in Seq(Token)
  /\ list \in Seq(Interval)
  /\ selected \subseteq Nat
  /\ phase \in {"parse", "other", "done", "fatal"}
  /\ otherIn \in Seq([start : Nat, end : Nat, range : BOOLEAN])
  /\ curr \in Nat
  /\ other \in Seq(Interval)

\* The number of rendered nodes make_other_cpu_list has read.
Consumed == Len(list) - Len(otherIn)

\* Where make_other_cpu_list stands: otherIn is the unread suffix of the
\* rendering, curr is one past the last node read, and other holds the
\* complement of what has been read, below curr.
WalkInv ==
  /\ Len(otherIn) <= Len(list)
  /\ \A j \in 1..Len(otherIn) : otherIn[j] = Render(list)[Consumed + j]
  /\ curr = IF Consumed = 0 THEN 0 ELSE list[Consumed].end + 1
  /\ Separated(other)
  /\ \A i \in 1..Len(other) : other[i].end + 1 < curr
  /\ Cpus(other) = (0..(curr - 1)) \ selected

\* Every expression the program may be started with is ascending.
AscendingInputs == \A x \in Inputs : Ascending(x)

\* The inductive invariant.
CInv ==
  /\ ListTypes
  /\ Separated(list)
  /\ Cpus(list) = selected
  /\ phase = "parse" => /\ Ascending(input) /\ StartsBelowInput
                        /\ curr = 0 /\ other = <<>>
  /\ phase \in {"other", "done"} =>
        /\ input = <<>>
        /\ buf = Render(list)
        /\ \A i \in 1..Len(list) : list[i].end < CpuCount
  /\ phase = "other" => list # <<>> /\ WalkInv
  /\ phase = "done" /\ list # <<>> =>
        /\ Separated(other)
        /\ Cpus(other) = (0..(CpuCount - 1)) \ selected

-----------------------------------------------------------------------------
\* A CPU is in the set a list names when some node's range holds it.
LEMMA CpusMem ==
  ASSUME NEW l, NEW x
  PROVE  x \in Cpus(l) <=> \E i \in 1..Len(l) : x \in l[i].start..l[i].end
BY DEF Cpus

\* The bounds of a node of a list of intervals are numbers.
LEMMA NodeBounds ==
  ASSUME NEW l \in Seq(Interval), NEW i \in 1..Len(l)
  PROVE  l[i] \in Interval /\ l[i].start \in Nat /\ l[i].end \in Nat
<1>1. l[i] \in Interval
  OBVIOUS
<1> QED BY <1>1 DEF Interval

(***************************************************************************)
(* add_cpus on a separated list whose nodes all start no later than s.    *)
(***************************************************************************)

\* A range that lies more than one CPU beyond every node becomes a new tail.
LEMMA AppendNode ==
  ASSUME NEW l \in Seq(Interval), Separated(l),
         NEW s \in Nat, NEW e \in Nat, s <= e,
         \A i \in 1..Len(l) : l[i].end + 1 < s /\ l[i].start <= s
  PROVE  LET r == Append(l, [start |-> s, end |-> e])
         IN  /\ r \in Seq(Interval)
             /\ Separated(r)
             /\ Cpus(r) = Cpus(l) \cup s..e
             /\ \A i \in 1..Len(r) : r[i].start <= s
<1> DEFINE r == Append(l, [start |-> s, end |-> e])
<1>1. r \in Seq(Interval) /\ Len(r) = Len(l) + 1
      /\ r[Len(l) + 1] = [start |-> s, end |-> e]
      /\ \A i \in 1..Len(l) : r[i] = l[i]
  BY DEF Interval
<1>2. Separated(r)
  <2>0. \A i \in 1..Len(l) : l[i].start \in Nat /\ l[i].end \in Nat
    BY NodeBounds
  <2>1. \A i \in 1..Len(r) : r[i].start <= r[i].end
    BY <1>1 DEF Separated
  <2>2. \A i, j \in 1..Len(r) : i < j => r[i].end + 1 < r[j].start
    <3> SUFFICES ASSUME NEW i \in 1..Len(r), NEW j \in 1..Len(r), i < j
                 PROVE  r[i].end + 1 < r[j].start
      OBVIOUS
    <3>1. i \in 1..Len(l) /\ r[i] = l[i]
      BY <1>1
    <3>2. CASE j = Len(l) + 1
      BY <3>1, <3>2, <1>1
    <3>3. CASE j # Len(l) + 1
      <4>1. j \in 1..Len(l) /\ r[j] = l[j]
        BY <3>3, <1>1
      <4> QED BY <3>1, <4>1 DEF Separated
    <3> QED BY <3>2, <3>3
  <2> QED BY <2>1, <2>2 DEF Separated
<1>3. Cpus(r) = Cpus(l) \cup s..e
  <2> SUFFICES ASSUME NEW x PROVE x \in Cpus(r) <=> x \in Cpus(l) \cup s..e
    OBVIOUS
  <2>1. x \in Cpus(r) <=> \E i \in 1..(Len(l) + 1) : x \in r[i].start..r[i].end
    BY <1>1, CpusMem
  <2>2. x \in Cpus(l) <=> \E i \in 1..Len(l) : x \in l[i].start..l[i].end
    BY CpusMem
  <2> QED BY <1>1, <2>1, <2>2
<1>4. \A i \in 1..Len(r) : r[i].start <= s
  BY <1>1
<1> QED BY <1>1, <1>2, <1>3, <1>4

\* A range that starts inside or right after the last node widens it.
LEMMA WidenLast ==
  ASSUME NEW l \in Seq(Interval), Separated(l), l # <<>>,
         NEW s \in Nat, NEW e \in Nat, s <= e,
         l[Len(l)].start <= s, s <= l[Len(l)].end + 1
  PROVE  LET node == [start |-> l[Len(l)].start,
                      end |-> IF l[Len(l)].end < e THEN e ELSE l[Len(l)].end]
             r == [l EXCEPT ![Len(l)] = node]
         IN  /\ r \in Seq(Interval)
             /\ Separated(r)
             /\ Cpus(r) = Cpus(l) \cup s..e
             /\ \A i \in 1..Len(r) : r[i].start = l[i].start
<1> DEFINE n == Len(l)
           node == [start |-> l[n].start, end |-> IF l[n].end < e THEN e ELSE l[n].end]
           r == [l EXCEPT ![n] = node]
<1>1. n \in Nat \ {0} /\ node \in Interval
  <2>1. n \in Nat \ {0}
    OBVIOUS
  <2>2. l[n] \in Interval
    BY <2>1
  <2>3. l[n].start \in Nat /\ l[n].end \in Nat
    BY <2>2 DEF Interval
  <2> QED BY <2>1, <2>3 DEF Interval
<1>2. r \in Seq(Interval) /\ Len(r) = n /\ r[n] = node
      /\ \A i \in 1..(n - 1) : r[i] = l[i]
  BY <1>1
<1>3. Separated(r)
  <2>0. \A i \in 1..n : l[i].start \in Nat /\ l[i].end \in Nat
    BY NodeBounds
  <2>1. \A i \in 1..n : r[i].start = l[i].start /\ r[i].end >= l[i].end
    <3> SUFFICES ASSUME NEW i \in 1..n PROVE r[i].start = l[i].start /\ r[i].end >= l[i].end
      OBVIOUS
    <3>1. CASE i = n
      BY <3>1, <1>2, <2>0
    <3>2. CASE i # n
      BY <3>2, <1>2, <2>0
    <3> QED BY <3>1, <3>2
  <2>2. \A i \in 1..n : r[i].start <= r[i].end
    BY <2>0, <2>1 DEF Separated
  <2>3. \A i, j \in 1..n : i < j => r[i].end + 1 < r[j].start
    BY <1>2, <2>1 DEF Separated
  <2> QED BY <1>2, <2>2, <2>3 DEF Separated
<1>4. Cpus(r) = Cpus(l) \cup s..e
  <2> SUFFICES ASSUME NEW x PROVE x \in Cpus(r) <=> x \in Cpus(l) \cup s..e
    OBVIOUS
  <2>1. x \in Cpus(r) <=> \E i \in 1..n : x \in r[i].start..r[i].end
    BY <1>2, CpusMem
  <2>2. x \in Cpus(l) <=> \E i \in 1..n : x \in l[i].start..l[i].end
    BY CpusMem
  <2>3. x \in r[n].start..r[n].end <=> x \in l[n].start..l[n].end \/ x \in s..e
    <3>1. r[n].start = l[n].start /\ r[n].end = IF l[n].end < e THEN e ELSE l[n].end
      BY <1>2
    <3>2. l[n].start \in Nat /\ l[n].end \in Nat
      BY <1>1, NodeBounds
    <3> QED BY <3>1, <3>2
  <2> QED BY <1>1, <1>2, <2>1, <2>2, <2>3
<1>5. \A i \in 1..Len(r) : r[i].start = l[i].start
  BY <1>2
<1> QED BY <1>2, <1>3, <1>4, <1>5

\* add_cpus, given a range no node starts after: the walk stops at the last
\* node or runs off the list, so the range widens the tail or is appended.
LEMMA AddCpusShape ==
  ASSUME NEW l \in Seq(Interval), Separated(l),
         NEW s \in Nat, NEW e \in Nat, s <= e,
         \A i \in 1..Len(l) : l[i].start <= s
  PROVE  \/ /\ \A i \in 1..Len(l) : l[i].end + 1 < s
            /\ AddCpus(l, s, e) = Append(l, [start |-> s, end |-> e])
         \/ /\ l # <<>>
            /\ l[Len(l)].start <= s /\ s <= l[Len(l)].end + 1
            /\ AddCpus(l, s, e) =
                 [l EXCEPT ![Len(l)] =
                    [start |-> l[Len(l)].start,
                     end |-> IF l[Len(l)].end < e THEN e ELSE l[Len(l)].end]]
<1> DEFINE n == Len(l)
           node == [start |-> l[n].start, end |-> IF l[n].end < e THEN e ELSE l[n].end]
<1>0. \A i \in 1..n : l[i].start \in Nat /\ l[i].end \in Nat
  BY NodeBounds
<1>1. CASE \A i \in 1..n : l[i].end + 1 < s
  <2>1. FirstNotBefore(l, s) = n + 1
    BY <1>1 DEF FirstNotBefore
  <2>2. FirstNotBefore(l, s) > Len(l)
    BY <2>1
  <2> QED BY <1>1, <2>2, Zenon DEF AddCpus
<1>2. CASE \E i \in 1..n : ~(l[i].end + 1 < s)
  <2>1. \A i \in 1..n : ~(l[i].end + 1 < s) => i = n
    BY <1>0 DEF Separated
  <2>2. n \in 1..n /\ ~(l[n].end + 1 < s)
    BY <1>2, <2>1
  <2>3. \A j \in 1..(n - 1) : l[j].end + 1 < s
    BY <1>0, <2>2 DEF Separated
  <2>4. FirstNotBefore(l, s) = n
    <3> DEFINE P(i) == ~(l[i].end + 1 < s) /\ \A j \in 1..(i - 1) : l[j].end + 1 < s
    <3>1. \E i \in 1..n : P(i)
      BY <2>2, <2>3
    <3>2. LET c == CHOOSE i \in 1..n : P(i) IN c \in 1..n /\ P(c)
      BY <3>1
    <3>3. (CHOOSE i \in 1..n : P(i)) = n
      BY <3>2, <2>1
    <3> QED BY <3>3, <1>2 DEF FirstNotBefore
  <2>5. l # <<>> /\ l[n].start <= s /\ s <= l[n].end + 1
    BY <2>2, <1>0
  <2>6. CASE e > l[n].start
    <3>1. LastAbsorbed(l, n, e) = n
      BY <2>2 DEF LastAbsorbed
    <3>2. Concatenate(l, n, s, e) = SubSeq(l, 1, n - 1) \o <<node>> \o SubSeq(l, n + 1, n)
      <4>1. (IF s < l[n].start THEN s ELSE l[n].start) = l[n].start
        BY <2>5, <1>0
      <4>2. (IF LastAbsorbed(l, n, e) = n THEN l[n].end ELSE l[LastAbsorbed(l, n, e)].end)
              = l[n].end
        BY <3>1
      <4> QED BY <3>1, <4>1, <4>2 DEF Concatenate
    <3>3. SubSeq(l, 1, n - 1) \o <<node>> \o SubSeq(l, n + 1, n) = [l EXCEPT ![n] = node]
      BY <2>2
    <3>4. ~(FirstNotBefore(l, s) > Len(l))
          /\ e > l[FirstNotBefore(l, s)].start
          /\ s <= l[FirstNotBefore(l, s)].end + 1
      BY <2>4, <2>5, <2>6, <2>2
    <3>5. AddCpus(l, s, e) = [l EXCEPT ![n] = node]
      BY <3>4, <2>4, <3>2, <3>3, Zenon DEF AddCpus
    <3> QED BY <2>5, <3>5
  <2>7. CASE ~(e > l[n].start)
    <3>1. s = e /\ e = l[n].start
      BY <2>7, <2>5, <1>0
    <3>2. AddCpus(l, s, e) = [l EXCEPT ![n].start = s]
      <4>1. ~(FirstNotBefore(l, s) > Len(l))
            /\ ~(e > l[FirstNotBefore(l, s)].start /\ s <= l[FirstNotBefore(l, s)].end + 1)
            /\ e + 1 >= l[FirstNotBefore(l, s)].start
        BY <2>4, <2>2, <2>7, <3>1, <1>0
      <4> QED BY <4>1, <2>4, Zenon DEF AddCpus
    <3>3. [l EXCEPT ![n].start = s] = l
      <4>1. l[n] \in Interval
        BY <2>2
      <4>2. l[n] = [start |-> l[n].start, end |-> l[n].end]
        BY <4>1 DEF Interval
      <4>3. [l[n] EXCEPT !.start = s] = l[n]
        BY <4>2, <3>1
      <4> QED BY <4>3, <2>2
    <3>4. node = l[n]
      BY <3>1, <2>2, NodeBounds DEF Interval, Separated
    <3>5. [l EXCEPT ![n] = node] = l
      BY <3>4, <2>2
    <3> QED BY <2>5, <3>2, <3>3, <3>5
  <2> QED BY <2>6, <2>7
<1> QED BY <1>1, <1>2

\* add_cpus on such a range keeps the list separated, adds exactly the
\* range's CPUs, and no node starts after the range.
LEMMA AddCpusSorted ==
  ASSUME NEW l \in Seq(Interval), Separated(l),
         NEW s \in Nat, NEW e \in Nat, s <= e,
         \A i \in 1..Len(l) : l[i].start <= s
  PROVE  /\ AddCpus(l, s, e) \in Seq(Interval)
         /\ Separated(AddCpus(l, s, e))
         /\ Cpus(AddCpus(l, s, e)) = Cpus(l) \cup s..e
         /\ \A i \in 1..Len(AddCpus(l, s, e)) : AddCpus(l, s, e)[i].start <= s
<1>1. CASE /\ \A i \in 1..Len(l) : l[i].end + 1 < s
           /\ AddCpus(l, s, e) = Append(l, [start |-> s, end |-> e])
  <2>1. \A i \in 1..Len(l) : l[i].end + 1 < s /\ l[i].start <= s
    BY <1>1
  <2> QED BY <1>1, <2>1, AppendNode
<1>2. CASE /\ l # <<>>
           /\ l[Len(l)].start <= s /\ s <= l[Len(l)].end + 1
           /\ AddCpus(l, s, e) =
                [l EXCEPT ![Len(l)] =
                   [start |-> l[Len(l)].start,
                    end |-> IF l[Len(l)].end < e THEN e ELSE l[Len(l)].end]]
  <2> DEFINE node == [start |-> l[Len(l)].start,
                      end |-> IF l[Len(l)].end < e THEN e ELSE l[Len(l)].end]
             r == [l EXCEPT ![Len(l)] = node]
  <2>1. /\ r \in Seq(Interval)
        /\ Separated(r)
        /\ Cpus(r) = Cpus(l) \cup s..e
        /\ \A i \in 1..Len(r) : r[i].start = l[i].start
    <3>1. l # <<>> /\ l[Len(l)].start <= s /\ s <= l[Len(l)].end + 1
      BY <1>2
    <3> QED BY <3>1, WidenLast, ZenonT(60)
  <2>2. \A i \in 1..Len(r) : r[i].start <= s
    <3>1. Len(r) = Len(l)
      OBVIOUS
    <3> QED BY <2>1, <3>1
  <2>3. AddCpus(l, s, e) = r
    BY <1>2
  <2> QED BY <2>1, <2>2, <2>3
<1> QED BY <1>1, <1>2, AddCpusShape

(***************************************************************************)
(* make_new_list and make_other_cpu_list on a separated list.             *)
(***************************************************************************)

\* The rendering has one token per node, with the node's bounds.
LEMMA RenderFacts ==
  ASSUME NEW l \in Seq(Interval)
  PROVE  /\ Render(l) \in Seq([start : Nat, end : Nat, range : BOOLEAN])
         /\ Len(Render(l)) = Len(l)
         /\ \A i \in 1..Len(l) : /\ Render(l)[i].start = l[i].start
                                 /\ Render(l)[i].end = l[i].end
<1>1. \A i \in 1..Len(l) : l[i].start \in Nat /\ l[i].end \in Nat
  BY NodeBounds
<1> QED BY <1>1 DEF Render

\* Of two nodes, the earlier one ends before the later one starts, so
\* every CPU of a node is below the start of every later node.
LEMMA BelowLater ==
  ASSUME NEW l \in Seq(Interval), Separated(l),
         NEW k \in 1..Len(l), NEW m \in 1..Len(l), k < m,
         NEW x \in l[k].start..l[k].end
  PROVE  x + 1 < l[m].start
BY NodeBounds DEF Separated

\* One token of make_other_cpu_list: the gap between the CPU after the
\* previous node and the start of node c + 1 is exactly the CPUs up to the
\* end of node c + 1 that no node names.
LEMMA ComplementStep ==
  ASSUME NEW l \in Seq(Interval), Separated(l),
         NEW c \in 0..(Len(l) - 1),
         NEW cur, cur = IF c = 0 THEN 0 ELSE l[c].end + 1,
         NEW O, O = (0..(cur - 1)) \ Cpus(l)
  PROVE  LET t == l[c + 1]
         IN  /\ cur <= t.start
             /\ (IF t.start > cur THEN O \cup cur..(t.start - 1) ELSE O)
                  = (0..t.end) \ Cpus(l)
<1> DEFINE t == l[c + 1]
<1>0. /\ t.start \in Nat /\ t.end \in Nat /\ t.start <= t.end
      /\ t.start..t.end \subseteq Cpus(l)
  <2>1. c + 1 \in 1..Len(l)
    OBVIOUS
  <2>2. t.start \in Nat /\ t.end \in Nat
    BY <2>1, NodeBounds
  <2>3. t.start <= t.end
    BY <2>1 DEF Separated
  <2>4. \A x \in t.start..t.end : x \in Cpus(l)
    BY <2>1, CpusMem
  <2> QED BY <2>2, <2>3, <2>4
<1>1. cur \in Nat /\ cur <= t.start
  <2>1. CASE c = 0
    BY <2>1, <1>0
  <2>2. CASE c # 0
    BY <2>2, NodeBounds DEF Separated
  <2> QED BY <2>1, <2>2
<1>2. \A x \in cur..(t.start - 1) : x \notin Cpus(l)
  <2> SUFFICES ASSUME NEW x \in cur..(t.start - 1), NEW k \in 1..Len(l),
                      x \in l[k].start..l[k].end
               PROVE  FALSE
    BY CpusMem
  <2>1. CASE k < c + 1
    <3>1. c # 0 /\ x <= l[c].end
      <4>1. CASE k = c
        BY <4>1, <2>1, NodeBounds
      <4>2. CASE k < c
        <5>1. c \in 1..Len(l) /\ k \in 1..Len(l)
          BY <4>2
        <5>2. x + 1 < l[c].start
          BY <5>1, <4>2, BelowLater
        <5>3. l[c].start <= l[c].end
          BY <5>1 DEF Separated
        <5> QED BY <5>1, <5>2, <5>3, NodeBounds
      <4> QED BY <4>1, <4>2, <2>1
    <3>2. x \in Nat /\ l[c].end \in Nat /\ x >= cur /\ cur = l[c].end + 1
      BY <3>1, <1>0, NodeBounds
    <3> QED BY <3>1, <3>2
  <2>2. CASE k = c + 1
    BY <2>2, <1>0
  <2>3. CASE k > c + 1
    <3>1. c + 1 \in 1..Len(l)
      OBVIOUS
    <3>2. \A y \in t.start..t.end : y + 1 < l[k].start
      BY <3>1, <2>3, BelowLater
    <3>0. l[k].start \in Nat /\ l[k].end \in Nat
      BY NodeBounds
    <3>3. x >= l[k].start /\ x < t.start
      BY <3>0, <1>0
    <3>4. t.end + 1 < l[k].start
      <4>1. t.end \in t.start..t.end
        BY <1>0
      <4> QED BY <3>2, <4>1
    <3> QED BY <3>0, <3>3, <3>4, <1>0
  <2> QED BY <2>1, <2>2, <2>3, <1>1
<1>3. (IF t.start > cur THEN O \cup cur..(t.start - 1) ELSE O)
        = (0..t.end) \ Cpus(l)
  <2> SUFFICES ASSUME NEW x
               PROVE  x \in (IF t.start > cur THEN O \cup cur..(t.start - 1) ELSE O)
                        <=> x \in (0..t.end) \ Cpus(l)
    OBVIOUS
  <2> QED BY <1>0, <1>1, <1>2
<1> QED BY <1>1, <1>3

\* The end of make_other_cpu_list: after the last node, the CPUs from
\* curr_cpu to cpu_count - 1 complete the complement.
LEMMA ComplementEnd ==
  ASSUME NEW l \in Seq(Interval), Separated(l), l # <<>>,
         NEW N \in Nat, \A i \in 1..Len(l) : l[i].end < N,
         NEW O, O = (0..(l[Len(l)].end)) \ Cpus(l)
  PROVE  LET cur == l[Len(l)].end + 1
         IN  /\ cur <= N
             /\ (IF cur < N THEN O \cup cur..(N - 1) ELSE O) = (0..(N - 1)) \ Cpus(l)
<1> DEFINE n == Len(l)
           cur == l[n].end + 1
<1>0. n \in 1..n /\ l[n].end \in Nat
  BY NodeBounds
<1>1. \A x \in Cpus(l) : x < cur
  <2> SUFFICES ASSUME NEW x, NEW k \in 1..n, x \in l[k].start..l[k].end
               PROVE  x < cur
    BY CpusMem
  <2>1. CASE k = n
    BY <2>1, <1>0
  <2>2. CASE k < n
    <3>1. x + 1 < l[n].start
      BY <2>2, <1>0, BelowLater
    <3>2. l[n].start <= l[n].end
      BY <1>0 DEF Separated
    <3>3. l[n].start \in Nat /\ l[k].start \in Nat /\ l[k].end \in Nat
      BY <1>0, NodeBounds
    <3>4. x \in Nat
      BY <3>3
    <3> QED BY <3>1, <3>2, <3>3, <3>4, <1>0
  <2> QED BY <2>1, <2>2, NodeBounds
<1>2. cur <= N
  BY <1>0
<1>3. (IF cur < N THEN O \cup cur..(N - 1) ELSE O) = (0..(N - 1)) \ Cpus(l)
  <2> SUFFICES ASSUME NEW x
               PROVE  x \in (IF cur < N THEN O \cup cur..(N - 1) ELSE O)
                        <=> x \in (0..(N - 1)) \ Cpus(l)
    OBVIOUS
  <2> QED BY <1>0, <1>1, <1>2
<1> QED BY <1>2, <1>3

-----------------------------------------------------------------------------
(***************************************************************************)
(* The inductive invariant, one action at a time.                         *)
(***************************************************************************)
USE CpuCountAssumption, InputsAssumption

\* The program starts with an empty list and an ascending expression.
LEMMA CInvInit ==
  ASSUME AscendingInputs
  PROVE  Init => CInv
<1> SUFFICES ASSUME Init PROVE CInv
  OBVIOUS
<1>1. ListTypes
  BY DEF Init, ListTypes, Interval, Token
<1>2. Separated(list) /\ Cpus(list) = selected
  BY DEF Init, Separated, Cpus
<1>3. Ascending(input) /\ StartsBelowInput /\ curr = 0 /\ other = <<>>
  BY DEF Init, AscendingInputs, StartsBelowInput
<1> QED BY <1>1, <1>2, <1>3 DEF CInv, Init

\* One token parsed: add_cpus keeps the list sorted and merged, and the
\* tokens still to come start no earlier than any node.
LEMMA AddTokenInv ==
  ASSUME CInv, AddToken
  PROVE  CInv'
<1> DEFINE t == Head(input)
<1>1. phase = "parse" /\ input # <<>> /\ input \in Seq(Token)
      /\ Ascending(input) /\ StartsBelowInput /\ curr = 0 /\ other = <<>>
  BY DEF AddToken, CInv, ListTypes
<1>2. t \in Token /\ t = input[1]
  BY <1>1
<1>3. CASE t = Malformed \/ t.end < t.start
  <2>1. phase' = "fatal" /\ UNCHANGED <<input, list, selected, otherIn, curr, other>>
    BY <1>3 DEF AddToken
  <2> QED BY <2>1 DEF CInv, ListTypes
<1>4. CASE ~(t = Malformed \/ t.end < t.start)
  <2>1. /\ list' = AddCpus(list, t.start, t.end)
        /\ selected' = selected \cup t.start..t.end
        /\ input' = Tail(input)
        /\ phase' = "parse"
        /\ UNCHANGED <<otherIn, curr, other>>
    BY <1>1, <1>4 DEF AddToken
  <2>2. t \in Interval /\ t.start <= t.end
    BY <1>2, <1>4 DEF Token, Interval
  <2>3. \A i \in 1..Len(list) : list[i].start <= t.start
    BY <1>1, <1>2, <1>4 DEF StartsBelowInput
  <2>4. /\ list' \in Seq(Interval)
        /\ Separated(list')
        /\ Cpus(list') = Cpus(list) \cup t.start..t.end
        /\ \A i \in 1..Len(list') : list'[i].start <= t.start
    <3> DEFINE r == AddCpus(list, t.start, t.end)
    <3>1. list \in Seq(Interval) /\ Separated(list)
          /\ t.start \in Nat /\ t.end \in Nat
      BY <2>2 DEF CInv, ListTypes, Interval
    <3>2. /\ r \in Seq(Interval)
          /\ Separated(r)
          /\ Cpus(r) = Cpus(list) \cup t.start..t.end
          /\ \A i \in 1..Len(r) : r[i].start <= t.start
      BY <3>1, <2>2, <2>3, AddCpusSorted
    <3> QED BY <3>2, <2>1
  <2>5. input' \in Seq(Token) /\ Len(input') = Len(input) - 1
        /\ \A j \in 1..Len(input') : input'[j] = input[j + 1]
    BY <1>1, <2>1
  <2>6. Ascending(input')
    BY <1>1, <2>5 DEF Ascending
  <2>7. StartsBelowInput'
    <3> SUFFICES ASSUME NEW i \in 1..Len(list'), NEW j \in 1..Len(input'),
                        input'[j] # Malformed
                 PROVE  list'[i].start <= input'[j].start
      BY DEF StartsBelowInput
    <3>1. t.start <= input[j + 1].start
      BY <1>1, <1>2, <1>4, <2>5 DEF Ascending
    <3>2. input[j + 1].start \in Nat
      BY <1>1, <2>5 DEF Token
    <3>3. list'[i].start <= t.start /\ list'[i].start \in Nat
      BY <2>4, NodeBounds
    <3>4. input'[j] = input[j + 1]
      BY <2>5
    <3>5. t.start \in Nat
      BY <2>2 DEF Interval
    <3> QED BY <3>1, <3>2, <3>3, <3>4, <3>5
  <2>8. ListTypes'
    <3>2. ListTypes
      BY DEF CInv
    <3>1. selected' \subseteq Nat
      <4>1. selected \subseteq Nat /\ t.start \in Nat /\ t.end \in Nat
        BY <3>2, <2>2 DEF ListTypes, Interval
      <4>2. t.start..t.end \subseteq Nat
        BY <4>1
      <4>3. selected' = selected \cup t.start..t.end
        BY <2>1
      <4> QED BY <4>1, <4>2, <4>3, Zenon
    <3> QED BY <3>1, <3>2, <2>1, <2>4, <2>5 DEF ListTypes
  <2>9. Cpus(list') = selected'
    BY <2>1, <2>4 DEF CInv
  <2> QED BY <1>1, <2>1, <2>4, <2>6, <2>7, <2>8, <2>9 DEF CInv
<1> QED BY <1>3, <1>4

\* calc_nr_cpus' end: a count that is accepted proves every node ends below
\* cpu_count, and the walk of the rendering starts at CPU 0 with nothing
\* emitted.
LEMMA FinishParseInv ==
  ASSUME CInv, FinishParse
  PROVE  CInv'
<1>1. /\ phase = "parse" /\ input = <<>> /\ curr = 0 /\ other = <<>>
      /\ ListTypes /\ Separated(list) /\ Cpus(list) = selected
  BY DEF FinishParse, CInv
<1>2. UNCHANGED <<input, list, selected, curr, other>>
  BY DEF FinishParse
<1>3. CASE CountCpus(list) < 0 \/ CountCpus(list) > CpuCount
  <2>1. phase' = "fatal" /\ UNCHANGED otherIn
    BY <1>3 DEF FinishParse
  <2> QED BY <1>1, <1>2, <2>1 DEF CInv, ListTypes
<1>4. CASE ~(CountCpus(list) < 0 \/ CountCpus(list) > CpuCount)
  <2>1. \A i \in 1..Len(list) : list[i].end < CpuCount
    <3> SUFFICES ASSUME \E i \in 1..Len(list) : ~(list[i].end < CpuCount)
                 PROVE  FALSE
      OBVIOUS
    <3>1. \E i \in 1..Len(list) : list[i].end >= CpuCount
      BY <1>1, NodeBounds DEF ListTypes
    <3>2. CountCpus(list) = -1
      BY <3>1 DEF CountCpus
    <3> QED BY <3>2, <1>4
  <2>2. /\ buf' = Render(list) /\ otherIn' = Render(list)
        /\ phase' = IF list = <<>> THEN "done" ELSE "other"
    BY <1>4 DEF FinishParse
  <2>3. /\ Render(list) \in Seq([start : Nat, end : Nat, range : BOOLEAN])
        /\ Len(Render(list)) = Len(list)
    BY <1>1, RenderFacts DEF ListTypes
  <2>4. ListTypes'
    BY <1>1, <1>2, <2>2, <2>3 DEF ListTypes
  <2>5. CASE list = <<>>
    <3>1. phase' = "done"
      BY <2>2, <2>5
    <3> QED BY <1>1, <1>2, <2>1, <2>2, <2>4, <2>5, <3>1 DEF CInv
  <2>6. CASE list # <<>>
    <3>1. phase' = "other"
      BY <2>2, <2>6
    <3>2. WalkInv'
      <4>1. Consumed' = 0 /\ Len(otherIn') <= Len(list')
        BY <1>2, <2>2, <2>3 DEF Consumed
      <4>2. \A j \in 1..Len(otherIn') : otherIn'[j] = Render(list')[Consumed' + j]
        BY <4>1, <1>2, <2>2, <2>3
      <4>3. curr' = IF Consumed' = 0 THEN 0 ELSE list'[Consumed'].end + 1
        BY <4>1, <1>1, <1>2
      <4>4. Separated(other') /\ \A i \in 1..Len(other') : other'[i].end + 1 < curr'
        BY <1>1, <1>2 DEF Separated
      <4>5. Cpus(other') = (0..(curr' - 1)) \ selected'
        BY <1>1, <1>2 DEF Cpus
      <4> QED BY <4>1, <4>2, <4>3, <4>4, <4>5 DEF WalkInv
    <3> QED BY <1>1, <1>2, <2>1, <2>2, <2>4, <2>6, <3>1, <3>2 DEF CInv
  <2> QED BY <2>5, <2>6
<1> QED BY <1>3, <1>4

\* One token of make_other_cpu_list: the gap before node c + 1 is emitted,
\* and what has been emitted stays the complement below curr_cpu.
LEMMA OtherStepInv ==
  ASSUME CInv, OtherStep
  PROVE  CInv'
<1> DEFINE c == Consumed
           t == Head(otherIn)
<1>1. /\ phase = "other" /\ otherIn # <<>> /\ curr < CpuCount /\ list # <<>>
      /\ WalkInv /\ ListTypes /\ Separated(list) /\ Cpus(list) = selected
      /\ input = <<>> /\ buf = Render(list)
      /\ \A i \in 1..Len(list) : list[i].end < CpuCount
  BY DEF OtherStep, CInv
<1>2. /\ other' = IF t.start > curr
                  THEN Append(other, [start |-> curr, end |-> t.start - 1])
                  ELSE other
      /\ curr' = t.end + 1
      /\ otherIn' = Tail(otherIn)
      /\ UNCHANGED <<input, list, selected, phase, buf, nrCpus, allCpus>>
  BY DEF OtherStep, NextCurr
<1>3. /\ list \in Seq(Interval) /\ otherIn \in Seq([start : Nat, end : Nat, range : BOOLEAN])
      /\ other \in Seq(Interval) /\ curr \in Nat
      /\ Len(otherIn) \in 1..Len(list)
  BY <1>1 DEF ListTypes, WalkInv
<1>0. c \in 0..(Len(list) - 1)
  BY <1>3 DEF Consumed
<1>4. t = Render(list)[c + 1]
  BY <1>0, <1>1, <1>3 DEF WalkInv
<1>5. t.start = list[c + 1].start /\ t.end = list[c + 1].end
      /\ t.start \in Nat /\ t.end \in Nat /\ t.start <= t.end
  <2>1. c + 1 \in 1..Len(list)
    BY <1>0
  <2>2. Render(list)[c + 1].start = list[c + 1].start
        /\ Render(list)[c + 1].end = list[c + 1].end
    BY <1>3, <2>1, RenderFacts
  <2>3. list[c + 1].start \in Nat /\ list[c + 1].end \in Nat
    BY <1>3, <2>1, NodeBounds
  <2>4. list[c + 1].start <= list[c + 1].end
    BY <1>1, <2>1 DEF Separated
  <2> QED BY <1>4, <2>2, <2>3, <2>4
<1>6. /\ curr = IF c = 0 THEN 0 ELSE list[c].end + 1
      /\ Cpus(other) = (0..(curr - 1)) \ Cpus(list)
      /\ Separated(other)
      /\ \A i \in 1..Len(other) : other[i].end + 1 < curr
  BY <1>1 DEF WalkInv
<1>7. /\ curr <= list[c + 1].start
      /\ (IF list[c + 1].start > curr
          THEN Cpus(other) \cup curr..(list[c + 1].start - 1) ELSE Cpus(other))
           = (0..list[c + 1].end) \ Cpus(list)
  BY <1>0, <1>1, <1>3, <1>6, ComplementStep
<1>8. /\ other' \in Seq(Interval)
      /\ Separated(other')
      /\ Cpus(other') = IF t.start > curr THEN Cpus(other) \cup curr..(t.start - 1)
                                          ELSE Cpus(other)
      /\ \A i \in 1..Len(other') : other'[i].end + 1 < curr'
  <2>1. \A i \in 1..Len(other) : other[i].end + 1 < curr'
    <3> SUFFICES ASSUME NEW i \in 1..Len(other) PROVE other[i].end + 1 < curr'
      OBVIOUS
    <3>1. other[i].end \in Nat
      BY <1>3, NodeBounds
    <3>2. other[i].end + 1 < curr
      BY <1>6
    <3>3. curr <= t.start
      BY <1>7, <1>5
    <3>4. curr' = t.end + 1
      BY <1>2
    <3>5. t.start <= t.end /\ t.start \in Nat /\ t.end \in Nat
      BY <1>5
    <3>6. curr \in Nat
      BY <1>3
    <3> QED BY <3>1, <3>2, <3>3, <3>4, <3>5, <3>6
  <2>2. CASE t.start > curr
    <3> DEFINE r == Append(other, [start |-> curr, end |-> t.start - 1])
    <3>1. \A i \in 1..Len(other) : other[i].end + 1 < curr /\ other[i].start <= curr
      <4> SUFFICES ASSUME NEW i \in 1..Len(other)
                   PROVE  other[i].end + 1 < curr /\ other[i].start <= curr
        OBVIOUS
      <4>1. other[i].end \in Nat /\ other[i].start \in Nat
        BY <1>3, NodeBounds
      <4>2. other[i].end + 1 < curr /\ other[i].start <= other[i].end
        BY <1>6 DEF Separated
      <4>3. curr \in Nat
        BY <1>3
      <4> QED BY <4>1, <4>2, <4>3
    <3>2. /\ r \in Seq(Interval)
          /\ Separated(r)
          /\ Cpus(r) = Cpus(other) \cup curr..(t.start - 1)
          /\ \A i \in 1..Len(r) : r[i].start <= curr
      <4>1. curr \in Nat /\ t.start - 1 \in Nat /\ curr <= t.start - 1
        BY <1>3, <1>5, <2>2
      <4>2. other \in Seq(Interval) /\ Separated(other)
        BY <1>3, <1>6
      <4> QED BY <4>1, <4>2, <3>1, AppendNode
    <3>3. \A i \in 1..Len(r) : r[i].end + 1 < curr'
      <4> SUFFICES ASSUME NEW i \in 1..Len(r) PROVE r[i].end + 1 < curr'
        OBVIOUS
      <4>1. CASE i \in 1..Len(other)
        BY <4>1, <2>1, <1>3
      <4>2. CASE i = Len(other) + 1
        <5>1. r[i].end = t.start - 1
          BY <4>2, <1>3
        <5>2. curr' = t.end + 1
          BY <1>2
        <5>3. t.start <= t.end /\ t.start \in Nat /\ t.end \in Nat
          BY <1>5
        <5> QED BY <5>1, <5>2, <5>3
      <4> QED BY <4>1, <4>2, <1>3
    <3> QED BY <1>2, <2>2, <3>2, <3>3
  <2>3. CASE ~(t.start > curr)
    BY <1>2, <1>3, <1>6, <2>1, <2>3
  <2> QED BY <2>2, <2>3
<1>9. WalkInv'
  <2>1. otherIn' \in Seq([start : Nat, end : Nat, range : BOOLEAN])
        /\ Len(otherIn') = Len(otherIn) - 1
        /\ \A j \in 1..Len(otherIn') : otherIn'[j] = otherIn[j + 1]
    BY <1>2, <1>3
  <2>2. Consumed' = c + 1
    BY <1>2, <1>3, <2>1 DEF Consumed
  <2>3. \A j \in 1..Len(otherIn') : otherIn'[j] = Render(list')[Consumed' + j]
    <3> SUFFICES ASSUME NEW j \in 1..Len(otherIn')
                 PROVE  otherIn'[j] = Render(list')[Consumed' + j]
      OBVIOUS
    <3>1. j + 1 \in 1..Len(otherIn) /\ otherIn'[j] = otherIn[j + 1]
      BY <2>1, <1>3
    <3>2. otherIn[j + 1] = Render(list)[c + (j + 1)]
      BY <3>1, <1>1 DEF WalkInv
    <3>3. Consumed' + j = c + (j + 1) /\ list' = list
      BY <2>2, <1>2, <1>0
    <3> QED BY <3>1, <3>2, <3>3
  <2>4. curr' = IF Consumed' = 0 THEN 0 ELSE list'[Consumed'].end + 1
    <3>1. Consumed' # 0 /\ list'[Consumed'] = list[c + 1]
      BY <2>2, <1>2, <1>0
    <3> QED BY <3>1, <1>2, <1>5
  <2>5. Cpus(other') = (0..(curr' - 1)) \ selected'
    <3>1. Cpus(other') = (IF list[c + 1].start > curr
                          THEN Cpus(other) \cup curr..(list[c + 1].start - 1)
                          ELSE Cpus(other))
      BY <1>5, <1>8
    <3>2. (0..(curr' - 1)) \ selected' = (0..list[c + 1].end) \ Cpus(list)
      <4>1. curr' - 1 = list[c + 1].end
        BY <1>2, <1>5
      <4>2. selected' = Cpus(list)
        BY <1>1, <1>2
      <4> QED BY <4>1, <4>2
    <3> QED BY <3>1, <3>2, <1>7
  <2>6. Len(otherIn') <= Len(list')
    BY <2>1, <1>2, <1>3
  <2>7. Separated(other') /\ \A i \in 1..Len(other') : other'[i].end + 1 < curr'
    BY <1>8
  <2> QED BY <2>3, <2>4, <2>5, <2>6, <2>7 DEF WalkInv
<1>10. ListTypes'
  <2>1. otherIn' \in Seq([start : Nat, end : Nat, range : BOOLEAN])
    BY <1>2, <1>3
  <2>2. curr' \in Nat
    BY <1>2, <1>5
  <2>3. ListTypes
    BY <1>1
  <2> QED BY <1>2, <1>8, <2>1, <2>2, <2>3 DEF ListTypes
<1> QED BY <1>1, <1>2, <1>9, <1>10 DEF CInv

\* make_other_cpu_list's end: the walk has read every node (a node left
\* unread would have to start at or after cpu_count), and the CPUs after the
\* last node complete the complement.
LEMMA OtherEndInv ==
  ASSUME CInv, OtherEnd
  PROVE  CInv'
<1> DEFINE c == Consumed
           n == Len(list)
<1>1. /\ phase = "other" /\ (otherIn = <<>> \/ curr >= CpuCount) /\ list # <<>>
      /\ WalkInv /\ ListTypes /\ Separated(list) /\ Cpus(list) = selected
      /\ input = <<>> /\ buf = Render(list)
      /\ \A i \in 1..n : list[i].end < CpuCount
  BY DEF OtherEnd, CInv
<1>2. /\ other' = IF curr < CpuCount
                  THEN Append(other, [start |-> curr, end |-> CpuCount - 1])
                  ELSE other
      /\ phase' = "done"
      /\ UNCHANGED <<input, list, selected, buf, nrCpus, allCpus, otherIn, curr>>
  BY DEF OtherEnd
<1>3. /\ list \in Seq(Interval) /\ otherIn \in Seq([start : Nat, end : Nat, range : BOOLEAN])
      /\ other \in Seq(Interval) /\ curr \in Nat
      /\ Len(otherIn) <= n
  BY <1>1 DEF ListTypes, WalkInv
<1>4. otherIn = <<>>
  <2> SUFFICES ASSUME otherIn # <<>> PROVE FALSE
    OBVIOUS
  <2>1. curr >= CpuCount
    BY <1>1
  <2>2. c \in 0..(n - 1)
    BY <1>3 DEF Consumed
  <2>3. curr = IF c = 0 THEN 0 ELSE list[c].end + 1
    BY <1>1 DEF WalkInv
  <2>4. CASE c = 0
    BY <2>1, <2>3, <2>4, CpuCountAssumption
  <2>5. CASE c # 0
    <3>1. c \in 1..n /\ c + 1 \in 1..n
      BY <2>2, <2>5
    <3>2. list[c].end + 1 < list[c + 1].start /\ list[c + 1].start <= list[c + 1].end
      BY <3>1, <1>1 DEF Separated
    <3>3. list[c + 1].end < CpuCount
      BY <3>1, <1>1
    <3>4. list[c].end \in Nat /\ list[c + 1].start \in Nat /\ list[c + 1].end \in Nat
      BY <3>1, <1>3, NodeBounds
    <3> QED BY <2>1, <2>3, <2>5, <3>2, <3>3, <3>4
  <2> QED BY <2>4, <2>5
<1>5. n \in 1..n /\ curr = list[n].end + 1
  <2>1. c = n
    BY <1>3, <1>4 DEF Consumed
  <2>2. n # 0
    BY <1>1, <1>3
  <2> QED BY <1>1, <2>1, <2>2 DEF WalkInv
<1>6. Cpus(other) = (0..(list[n].end)) \ Cpus(list)
  <2>1. Cpus(other) = (0..(curr - 1)) \ selected
    BY <1>1 DEF WalkInv
  <2>2. list[n].end \in Nat
    BY <1>3, <1>5, NodeBounds
  <2> QED BY <2>1, <2>2, <1>1, <1>5
<1>7. /\ curr <= CpuCount
      /\ (IF curr < CpuCount THEN Cpus(other) \cup curr..(CpuCount - 1) ELSE Cpus(other))
           = (0..(CpuCount - 1)) \ Cpus(list)
  <2>1. list \in Seq(Interval) /\ Separated(list) /\ list # <<>>
        /\ CpuCount \in Nat /\ \A i \in 1..n : list[i].end < CpuCount
    BY <1>1, <1>3, CpuCountAssumption
  <2>2. LET cur == list[n].end + 1
        IN  /\ cur <= CpuCount
            /\ (IF cur < CpuCount THEN Cpus(other) \cup cur..(CpuCount - 1) ELSE Cpus(other))
                 = (0..(CpuCount - 1)) \ Cpus(list)
    BY <2>1, <1>6, ComplementEnd
  <2> QED BY <2>2, <1>5
<1>8. /\ other' \in Seq(Interval)
      /\ Separated(other')
      /\ Cpus(other') = IF curr < CpuCount THEN Cpus(other) \cup curr..(CpuCount - 1)
                                           ELSE Cpus(other)
  <2>1. CASE curr < CpuCount
    <3> DEFINE r == Append(other, [start |-> curr, end |-> CpuCount - 1])
    <3>1. \A i \in 1..Len(other) : other[i].end + 1 < curr /\ other[i].start <= curr
      <4> SUFFICES ASSUME NEW i \in 1..Len(other)
                   PROVE  other[i].end + 1 < curr /\ other[i].start <= curr
        OBVIOUS
      <4>1. other[i].end \in Nat /\ other[i].start \in Nat
        BY <1>3, NodeBounds
      <4>2. other[i].end + 1 < curr /\ Separated(other)
        BY <1>1 DEF WalkInv
      <4>3. curr \in Nat
        BY <1>3
      <4>4. other[i].start <= other[i].end
        BY <4>2 DEF Separated
      <4> QED BY <4>1, <4>2, <4>3, <4>4
    <3>2. /\ curr \in Nat /\ CpuCount - 1 \in Nat /\ curr <= CpuCount - 1
          /\ other \in Seq(Interval) /\ Separated(other)
      BY <1>1, <1>3, <2>1, CpuCountAssumption DEF WalkInv
    <3>3. /\ r \in Seq(Interval)
          /\ Separated(r)
          /\ Cpus(r) = Cpus(other) \cup curr..(CpuCount - 1)
      BY <3>1, <3>2, AppendNode
    <3> QED BY <3>3, <1>2, <2>1
  <2>2. CASE ~(curr < CpuCount)
    <3>1. other' = other /\ other \in Seq(Interval) /\ Separated(other)
      BY <1>1, <1>2, <1>3, <2>2 DEF WalkInv
    <3> QED BY <3>1, <2>2
  <2> QED BY <2>1, <2>2
<1>9. ListTypes'
  <2>1. ListTypes
    BY <1>1
  <2> QED BY <1>2, <1>8, <2>1 DEF ListTypes
<1>10. Cpus(other') = (0..(CpuCount - 1)) \ selected'
  BY <1>1, <1>2, <1>7, <1>8
<1> QED BY <1>1, <1>2, <1>8, <1>9, <1>10 DEF CInv

\* Every step of the program keeps the invariant.
LEMMA CInvNext ==
  CInv /\ [Next]_vars => CInv'
<1> SUFFICES ASSUME CInv, [Next]_vars PROVE CInv'
  OBVIOUS
<1>1. CASE AddToken
  BY <1>1, AddTokenInv
<1>2. CASE FinishParse
  BY <1>2, FinishParseInv
<1>3. CASE OtherStep
  BY <1>3, OtherStepInv
<1>4. CASE OtherEnd
  BY <1>4, OtherEndInv
<1>5. CASE UNCHANGED vars
  BY <1>5 DEF vars, CInv, ListTypes, StartsBelowInput, WalkInv, Consumed
<1> QED BY <1>1, <1>2, <1>3, <1>4, <1>5 DEF Next

-----------------------------------------------------------------------------
(***************************************************************************)
(* Spec 3 for every cpu_count and every ascending -a expression: the list *)
(* add_cpus builds (lines 820-863) is sorted, its nodes neither overlap   *)
(* nor touch, and it names exactly the CPUs of the tokens parsed so far.  *)
(***************************************************************************)
THEOREM ListSorted ==
  ASSUME AscendingInputs
  PROVE  Spec => []ListCanonical
<1>1. CInv => ListCanonical
  BY DEF CInv, ListCanonical, Canonical, Separated
<1> QED BY <1>1, CInvInit, CInvNext, PTL DEF Spec

(***************************************************************************)
(* For every cpu_count and every ascending -a expression, the list         *)
(* make_other_cpu_list emits for the "other" cpuset (lines 924-947) is     *)
(* sorted and names exactly the CPUs below cpu_count that -a does not      *)
(* name.  The run cpu_list_unsorted_input shows that the hypothesis is     *)
(* needed.                                                                 *)
(***************************************************************************)
THEOREM ComplementCorrect ==
  ASSUME AscendingInputs
  PROVE  Spec => []ComplementExact
<1>1. CInv => ComplementExact
  <2> SUFFICES ASSUME CInv, phase = "done", buf # <<>>
               PROVE  Canonical(other) /\ Cpus(other) = (0..(CpuCount - 1)) \ selected
    BY DEF ComplementExact
  <2>1. list \in Seq(Interval) /\ buf = Render(list)
    BY DEF CInv, ListTypes
  <2>2. list # <<>>
    BY <2>1, RenderFacts
  <2>3. Separated(other) /\ Cpus(other) = (0..(CpuCount - 1)) \ selected
    BY <2>2 DEF CInv
  <2> QED BY <2>3 DEF Canonical, Separated
<1> QED BY <1>1, CInvInit, CInvNext, PTL DEF Spec
-----------------------------------------------------------------------------
(***************************************************************************)
(* count_cpus (lines 865-880) sums end - start + 1 over the nodes.  The   *)
(* model's recursive function is a CHOOSE over the functions that satisfy *)
(* its equation; the invariant says such a function exists and that every *)
(* one of them ends in the number of selected CPUs, which add_cpus keeps  *)
(* true one token at a time.                                              *)
(***************************************************************************)

\* f satisfies the equation of count_cpus' running sum over l.
IsCount(f, l) ==
  f = [i \in 0..Len(l) |-> IF i = 0 THEN 0 ELSE f[i - 1] + (l[i].end - l[i].start + 1)]

\* The running sum ends in the size of S, and stops short of it by the
\* last node's size one node earlier.
CountFacts(f, l, S) ==
  /\ f[Len(l)] = Cardinality(S)
  /\ l # <<>> => f[Len(l) - 1] = Cardinality(S) - (l[Len(l)].end - l[Len(l)].start + 1)

\* The count the program computes, and what main does with it.
CountInv ==
  /\ IsFiniteSet(selected)
  /\ \E f : IsCount(f, list)
  /\ \A f : IsCount(f, list) => CountFacts(f, list, selected)
  /\ phase \in {"other", "done"} => nrCpus = Cardinality(selected)
  /\ phase = "fatal" /\ input = <<>> => \E c \in selected : c >= CpuCount

\* Two running sums agree up to node k.
Agree(h, f, k) == \A i \in 0..k : h[i] = f[i]

\* A running sum over l gives one over any r that agrees with l on the
\* first k nodes and has at most one node more.
LEMMA CountCarry ==
  ASSUME NEW l \in Seq(Interval), NEW r \in Seq(Interval), NEW k \in Nat,
         k <= Len(l), k <= Len(r), Len(r) <= k + 1,
         \A i \in 1..k : r[i] = l[i],
         NEW f, IsCount(f, l)
  PROVE  \E h : IsCount(h, r) /\ Agree(h, f, k)
<1> DEFINE h == [i \in 0..Len(r) |->
                   IF i <= k THEN f[i] ELSE f[k] + (r[i].end - r[i].start + 1)]
<1>1. \A i \in 0..k : f[i] = IF i = 0 THEN 0 ELSE f[i - 1] + (l[i].end - l[i].start + 1)
  <2>1. \A i \in 0..Len(l) : f[i] = IF i = 0 THEN 0 ELSE f[i - 1] + (l[i].end - l[i].start + 1)
    BY Zenon DEF IsCount
  <2>2. 0..k \subseteq 0..Len(l)
    OBVIOUS
  <2> QED BY <2>1, <2>2, Zenon
<1>2. \A i \in 0..Len(r) :
        h[i] = IF i = 0 THEN 0 ELSE h[i - 1] + (r[i].end - r[i].start + 1)
  <2> SUFFICES ASSUME NEW i \in 0..Len(r)
               PROVE  h[i] = IF i = 0 THEN 0 ELSE h[i - 1] + (r[i].end - r[i].start + 1)
    OBVIOUS
  <2>1. CASE i <= k
    <3>1. h[i] = f[i]
      BY <2>1
    <3>2. CASE i = 0
      BY <3>1, <3>2, <1>1
    <3>3. CASE i # 0
      <4>1. i - 1 \in 0..k /\ i \in 1..k /\ h[i - 1] = f[i - 1]
        BY <2>1, <3>3
      <4>2. r[i] = l[i]
        BY <4>1
      <4>3. f[i] = f[i - 1] + (l[i].end - l[i].start + 1)
        BY <4>1, <3>3, <1>1
      <4> QED BY <3>1, <3>3, <4>1, <4>2, <4>3
    <3> QED BY <3>2, <3>3
  <2>2. CASE ~(i <= k)
    <3>1. i = k + 1 /\ i # 0
      BY <2>2
    <3> QED BY <3>1
  <2> QED BY <2>1, <2>2
<1>3. IsCount(h, r)
  <2> DEFINE g == [i \in 0..Len(r) |-> IF i = 0 THEN 0 ELSE h[i - 1] + (r[i].end - r[i].start + 1)]
  <2>1. DOMAIN h = 0..Len(r) /\ DOMAIN g = 0..Len(r)
    OBVIOUS
  <2>2. \A i \in 0..Len(r) : h[i] = g[i]
    BY <1>2
  <2>3. h = g
    BY <2>1, <2>2, ZenonT(60)
  <2> QED BY <2>3, Zenon DEF IsCount
<1>4. Agree(h, f, k)
  BY DEF Agree
<1> QED BY <1>3, <1>4

\* Every CPU a separated list names lies within its last node's end.
LEMMA BelowLast ==
  ASSUME NEW l \in Seq(Interval), Separated(l), l # <<>>, NEW x \in Cpus(l)
  PROVE  x \in Nat /\ x <= l[Len(l)].end
<1>1. PICK i \in 1..Len(l) : x \in l[i].start..l[i].end
  BY CpusMem
<1>2. l[i].start \in Nat /\ l[i].end \in Nat /\ l[Len(l)].end \in Nat
  BY NodeBounds
<1>3. l[i].end <= l[Len(l)].end
  <2>1. CASE i = Len(l)
    BY <2>1, <1>2
  <2>2. CASE i # Len(l)
    <3>1. i < Len(l) /\ Len(l) \in 1..Len(l)
      BY <2>2
    <3>2. l[i].end + 1 < l[Len(l)].start /\ l[Len(l)].start <= l[Len(l)].end
      BY <3>1 DEF Separated
    <3> QED BY <3>1, <3>2, <1>2, NodeBounds
  <2> QED BY <2>1, <2>2
<1> QED BY <1>1, <1>2, <1>3

\* Adding a range that lies above a finite set adds its length.
LEMMA CardAddAbove ==
  ASSUME NEW S, IsFiniteSet(S), NEW a \in Nat, NEW b \in Nat, a <= b + 1,
         \A x \in S : x \in Nat /\ x < a
  PROVE  IsFiniteSet(S \cup a..b) /\ Cardinality(S \cup a..b) = Cardinality(S) + (b - a + 1)
<1>1. IsFiniteSet(a..b) /\ Cardinality(a..b) = b - a + 1
  BY FS_Interval
<1>2. S \cap a..b = {}
  OBVIOUS
<1>3. Cardinality(S \cap a..b) = 0
  BY <1>2, FS_EmptySet
<1>4. Cardinality(S) \in Nat
  BY FS_CardinalityType
<1>5. IsFiniteSet(S \cup a..b)
      /\ Cardinality(S \cup a..b) = Cardinality(S) + Cardinality(a..b) - Cardinality(S \cap a..b)
  BY <1>1, FS_Union
<1> QED BY <1>1, <1>3, <1>4, <1>5
\* add_cpus of an ascending range carries the count along: appending adds
\* the new node's size, widening the tail adds the CPUs past its old end.
LEMMA CountAddCpus ==
  ASSUME NEW l \in Seq(Interval), Separated(l),
         NEW S, IsFiniteSet(S), Cpus(l) = S,
         NEW s \in Nat, NEW e \in Nat, s <= e,
         \A i \in 1..Len(l) : l[i].start <= s,
         \E f : IsCount(f, l),
         \A f : IsCount(f, l) => CountFacts(f, l, S)
  PROVE  /\ IsFiniteSet(S \cup s..e)
         /\ \E f : IsCount(f, AddCpus(l, s, e))
         /\ \A f : IsCount(f, AddCpus(l, s, e)) =>
                     CountFacts(f, AddCpus(l, s, e), S \cup s..e)
<1> DEFINE n == Len(l)
<1>0. Cardinality(S) \in Nat
  BY FS_CardinalityType
<1>1. CASE /\ \A i \in 1..n : l[i].end + 1 < s
           /\ AddCpus(l, s, e) = Append(l, [start |-> s, end |-> e])
  <2> DEFINE r == Append(l, [start |-> s, end |-> e])
  <2>1. /\ r \in Seq(Interval) /\ Len(r) = n + 1 /\ \A i \in 1..n : r[i] = l[i]
        /\ r[n + 1].start = s /\ r[n + 1].end = e
    BY DEF Interval
  <2>2. \A x \in S : x \in Nat /\ x < s
    <3> SUFFICES ASSUME NEW x \in S PROVE x \in Nat /\ x < s
      OBVIOUS
    <3>1. l # <<>>
      BY CpusMem
    <3>2. x \in Nat /\ x <= l[n].end
      BY <3>1, BelowLast
    <3>3. l[n].end + 1 < s /\ l[n].end \in Nat
      BY <3>1, <1>1, NodeBounds
    <3> QED BY <3>2, <3>3
  <2>3. IsFiniteSet(S \cup s..e) /\ Cardinality(S \cup s..e) = Cardinality(S) + (e - s + 1)
    <3>1. s <= e + 1
      OBVIOUS
    <3> QED BY <2>2, <3>1, CardAddAbove, Zenon
  <2>4. \E f : IsCount(f, r)
    <3>1. PICK f : IsCount(f, l)
      OBVIOUS
    <3>2. \E h : IsCount(h, r) /\ Agree(h, f, n)
      <4>1. r \in Seq(Interval) /\ n \in Nat /\ n <= Len(l) /\ n <= Len(r) /\ Len(r) <= n + 1
        BY <2>1
      <4>2. \A i \in 1..n : r[i] = l[i]
        BY <2>1
      <4> QED BY <3>1, <4>1, <4>2, CountCarry
    <3> QED BY <3>2
  <2>5. \A g : IsCount(g, r) => CountFacts(g, r, S \cup s..e)
    <3> SUFFICES ASSUME NEW g, IsCount(g, r) PROVE CountFacts(g, r, S \cup s..e)
      OBVIOUS
    <3>1. PICK h : IsCount(h, l) /\ Agree(h, g, n)
      <4>1. \A i \in 1..n : l[i] = r[i]
        BY <2>1
      <4>2. r \in Seq(Interval) /\ n \in Nat /\ n <= Len(r) /\ n <= Len(l) /\ Len(l) <= n + 1
        BY <2>1
      <4> QED BY <2>1, <4>1, <4>2, CountCarry
    <3>2. g[n] = Cardinality(S)
      <4>1. CountFacts(h, l, S)
        BY <3>1
      <4>2. h[n] = Cardinality(S)
        BY <4>1 DEF CountFacts
      <4>3. h[n] = g[n]
        BY <3>1, <2>1 DEF Agree
      <4> QED BY <4>2, <4>3
    <3>3. g[n + 1] = g[n] + (e - s + 1)
      <4>0. \A i \in 0..Len(r) : g[i] = IF i = 0 THEN 0 ELSE g[i - 1] + (r[i].end - r[i].start + 1)
        BY Zenon DEF IsCount
      <4>1. n + 1 \in 0..Len(r) /\ n + 1 # 0 /\ n + 1 - 1 = n
        BY <2>1
      <4>2. g[n + 1] = g[n + 1 - 1] + (r[n + 1].end - r[n + 1].start + 1)
        BY <4>0, <4>1
      <4> QED BY <4>2, <2>1
    <3> QED BY <2>1, <2>3, <3>2, <3>3, <1>0 DEF CountFacts
  <2> QED BY <1>1, <2>3, <2>4, <2>5
<1>2. CASE /\ l # <<>>
           /\ l[n].start <= s /\ s <= l[n].end + 1
           /\ AddCpus(l, s, e) =
                [l EXCEPT ![n] = [start |-> l[n].start,
                                  end |-> IF l[n].end < e THEN e ELSE l[n].end]]
  <2> DEFINE st == l[n].start
             oe == l[n].end
             ne == IF oe < e THEN e ELSE oe
             node == [start |-> st, end |-> ne]
             r == [l EXCEPT ![n] = node]
  <2>1. n \in 1..n /\ st \in Nat /\ oe \in Nat /\ st <= oe /\ ne \in Nat /\ oe <= ne
    BY <1>2, NodeBounds DEF Separated
  <2>2. /\ node \in Interval
        /\ r \in Seq(Interval) /\ Len(r) = n /\ r[n] = node
        /\ \A i \in 1..(n - 1) : r[i] = l[i]
    BY <2>1 DEF Interval
  <2>3. S \cup s..e = S \cup (oe + 1)..ne
    <3>1. st..oe \subseteq S
      BY <2>1, CpusMem
    <3> QED BY <3>1, <2>1, <1>2
  <2>4. \A x \in S : x \in Nat /\ x < oe + 1
    <3> SUFFICES ASSUME NEW x \in S PROVE x \in Nat /\ x < oe + 1
      OBVIOUS
    <3>1. x \in Cpus(l) /\ l # <<>>
      BY <1>2
    <3>2. x \in Nat /\ x <= l[Len(l)].end
      BY <3>1, BelowLast, Zenon
    <3> QED BY <3>2, <2>1
  <2>5. IsFiniteSet(S \cup s..e) /\ Cardinality(S \cup s..e) = Cardinality(S) + (ne - oe)
    <3>1. IsFiniteSet(S \cup (oe + 1)..ne)
          /\ Cardinality(S \cup (oe + 1)..ne) = Cardinality(S) + (ne - (oe + 1) + 1)
      <4>1. oe + 1 \in Nat /\ ne \in Nat /\ oe + 1 <= ne + 1
        BY <2>1
      <4> QED BY <2>4, <4>1, CardAddAbove, Zenon
    <3>2. IsFiniteSet(S \cup s..e)
          /\ Cardinality(S \cup s..e) = Cardinality(S) + (ne - (oe + 1) + 1)
      BY <3>1, <2>3, Zenon
    <3>3. Cardinality(S) \in Nat /\ ne - (oe + 1) + 1 = ne - oe
      BY <1>0, <2>1
    <3> QED BY <3>2, <3>3
  <2>6. \E f : IsCount(f, r)
    <3>1. PICK f : IsCount(f, l)
      OBVIOUS
    <3>2. \E h : IsCount(h, r) /\ Agree(h, f, n - 1)
      <4>1. r \in Seq(Interval) /\ n - 1 \in Nat /\ n - 1 <= Len(l) /\ n - 1 <= Len(r) /\ Len(r) <= n - 1 + 1
        BY <2>1, <2>2
      <4>2. \A i \in 1..(n - 1) : r[i] = l[i]
        BY <2>2
      <4> QED BY <2>2, <3>1, <4>1, <4>2, CountCarry
    <3> QED BY <3>2
  <2>7. \A g : IsCount(g, r) => CountFacts(g, r, S \cup s..e)
    <3> SUFFICES ASSUME NEW g, IsCount(g, r) PROVE CountFacts(g, r, S \cup s..e)
      OBVIOUS
    <3>1. PICK h : IsCount(h, l) /\ Agree(h, g, n - 1)
      <4>1. r \in Seq(Interval) /\ n - 1 \in Nat /\ n - 1 <= Len(l) /\ n - 1 <= Len(r) /\ Len(l) <= n - 1 + 1
        BY <2>1, <2>2
      <4>2. \A i \in 1..(n - 1) : l[i] = r[i]
        BY <2>2
      <4> QED BY <2>2, <4>1, <4>2, CountCarry
    <3>2. g[n - 1] = Cardinality(S) - (oe - st + 1)
      <4>0. CountFacts(h, l, S)
        BY <3>1
      <4>1. h[n - 1] = Cardinality(S) - (oe - st + 1)
        BY <4>0, <1>2 DEF CountFacts
      <4>2. n - 1 \in 0..(n - 1)
        BY <2>1
      <4> QED BY <3>1, <4>1, <4>2 DEF Agree
    <3>3. g[n] = g[n - 1] + (ne - st + 1)
      <4>0. \A i \in 0..Len(r) : g[i] = IF i = 0 THEN 0 ELSE g[i - 1] + (r[i].end - r[i].start + 1)
        BY Zenon DEF IsCount
      <4>1. n \in 0..Len(r) /\ n # 0
        BY <2>1, <2>2
      <4>2. g[n] = g[n - 1] + (r[n].end - r[n].start + 1)
        BY <4>0, <4>1
      <4> QED BY <4>2, <2>2
    <3>4. g[n] = Cardinality(S \cup s..e)
      BY <2>1, <2>5, <3>2, <3>3, <1>0
    <3>5. g[n - 1] = Cardinality(S \cup s..e) - (ne - st + 1)
      BY <2>1, <2>5, <3>2, <1>0
    <3>6. Len(r) = n /\ r[Len(r)].end = ne /\ r[Len(r)].start = st /\ r # <<>>
      BY <2>1, <2>2
    <3> QED BY <3>4, <3>5, <3>6 DEF CountFacts
  <2> QED BY <1>2, <2>5, <2>6, <2>7
<1> QED BY <1>1, <1>2, AddCpusShape
\* count_cpus of a list whose nodes all exist returns the size of the set
\* its running sum counts.
LEMMA CountValue ==
  ASSUME NEW l \in Seq(Interval), NEW S,
         \E f : IsCount(f, l),
         \A f : IsCount(f, l) => CountFacts(f, l, S),
         \A i \in 1..Len(l) : l[i].end < CpuCount
  PROVE  CountCpus(l) = Cardinality(S)
<1>1. ~\E i \in 1..Len(l) : l[i].end >= CpuCount
  BY NodeBounds, CpuCountAssumption
<1>2. CountCpus(l) = (CHOOSE n : IsCount(n, l))[Len(l)]
  BY <1>1 DEF CountCpus, IsCount
<1>3. IsCount(CHOOSE n : IsCount(n, l), l)
  OBVIOUS
<1>4. CountFacts(CHOOSE n : IsCount(n, l), l, S)
  BY <1>3
<1> QED BY <1>2, <1>4 DEF CountFacts

\* A list whose nodes all exist names only existing CPUs.
LEMMA CpusBelow ==
  ASSUME NEW l \in Seq(Interval), \A i \in 1..Len(l) : l[i].end < CpuCount
  PROVE  Cpus(l) \subseteq 0..(CpuCount - 1)
<1> SUFFICES ASSUME NEW x \in Cpus(l) PROVE x \in 0..(CpuCount - 1)
  OBVIOUS
<1>1. PICK i \in 1..Len(l) : x \in l[i].start..l[i].end
  BY CpusMem
<1>2. l[i].start \in Nat /\ l[i].end \in Nat /\ l[i].end < CpuCount
  BY NodeBounds
<1> QED BY <1>1, <1>2, CpuCountAssumption

\* A list whose nodes all exist names at most cpu_count CPUs.
LEMMA CountBelowCpuCount ==
  ASSUME NEW l \in Seq(Interval), \A i \in 1..Len(l) : l[i].end < CpuCount
  PROVE  IsFiniteSet(Cpus(l)) /\ Cardinality(Cpus(l)) <= CpuCount
<1>1. Cpus(l) \subseteq 0..(CpuCount - 1)
  BY CpusBelow
<1>2. IsFiniteSet(0..(CpuCount - 1)) /\ Cardinality(0..(CpuCount - 1)) = CpuCount
  <2>1. 0 \in Int /\ CpuCount - 1 \in Int /\ ~(0 > CpuCount - 1)
    BY CpuCountAssumption
  <2>2. IsFiniteSet(0..(CpuCount - 1))
        /\ Cardinality(0..(CpuCount - 1)) = IF 0 > CpuCount - 1 THEN 0 ELSE CpuCount - 1 - 0 + 1
    BY <2>1, FS_Interval
  <2> QED BY <2>1, <2>2
<1> QED BY <1>1, <1>2, FS_Subset

\* Before the first token: no CPU, and the running sum is the single 0.
LEMMA CountInvInit ==
  Init => CountInv
<1> SUFFICES ASSUME Init PROVE CountInv
  OBVIOUS
<1>1. list = <<>> /\ selected = {} /\ phase = "parse"
  BY DEF Init
<1>2. IsCount([i \in 0..0 |-> 0], list)
  BY <1>1 DEF IsCount
<1>3. \A f : IsCount(f, list) => CountFacts(f, list, selected)
  <2> SUFFICES ASSUME NEW f, IsCount(f, list) PROVE CountFacts(f, list, selected)
    OBVIOUS
  <2>1. f[0] = 0
    BY <1>1 DEF IsCount
  <2> QED BY <1>1, <2>1, FS_EmptySet DEF CountFacts
<1> QED BY <1>1, <1>2, <1>3, FS_EmptySet DEF CountInv

\* One token of calc_nr_cpus: add_cpus carries the count along; a bad
\* token leaves the rest of the expression unparsed.
LEMMA CountTokenInv ==
  ASSUME CInv, CountInv, AddToken
  PROVE  CountInv'
<1> DEFINE t == Head(input)
<1>1. phase = "parse" /\ input # <<>> /\ input \in Seq(Token) /\ StartsBelowInput
      /\ list \in Seq(Interval) /\ Separated(list) /\ Cpus(list) = selected
  BY DEF AddToken, CInv, ListTypes
<1>2. t \in Token /\ t = input[1]
  BY <1>1
<1>3. CASE t = Malformed \/ t.end < t.start
  <2>1. phase' = "fatal" /\ UNCHANGED <<input, list, selected, nrCpus>>
    BY <1>3 DEF AddToken
  <2> QED BY <1>1, <2>1 DEF CountInv
<1>4. CASE ~(t = Malformed \/ t.end < t.start)
  <2>1. /\ list' = AddCpus(list, t.start, t.end)
        /\ selected' = selected \cup t.start..t.end
        /\ phase' = "parse"
    BY <1>1, <1>4 DEF AddToken
  <2>2. t.start \in Nat /\ t.end \in Nat /\ t.start <= t.end
    BY <1>2, <1>4 DEF Token
  <2>3. \A i \in 1..Len(list) : list[i].start <= t.start
    BY <1>1, <1>2, <1>4 DEF StartsBelowInput
  <2>4. /\ IsFiniteSet(selected)
        /\ \E f : IsCount(f, list)
        /\ \A f : IsCount(f, list) => CountFacts(f, list, selected)
    BY DEF CountInv
  <2>5. /\ IsFiniteSet(selected \cup t.start..t.end)
        /\ \E f : IsCount(f, AddCpus(list, t.start, t.end))
        /\ \A f : IsCount(f, AddCpus(list, t.start, t.end)) =>
                    CountFacts(f, AddCpus(list, t.start, t.end), selected \cup t.start..t.end)
    BY <1>1, <2>2, <2>3, <2>4, CountAddCpus, Zenon
  <2> QED BY <2>1, <2>5 DEF CountInv
<1> QED BY <1>3, <1>4

\* calc_nr_cpus' result: main goes on with the count of the CPUs named, or
\* stops because a named CPU does not exist.
LEMMA CountFinishInv ==
  ASSUME CInv, CountInv, FinishParse
  PROVE  CountInv'
<1>1. /\ phase = "parse" /\ input = <<>>
      /\ list \in Seq(Interval) /\ Separated(list) /\ Cpus(list) = selected
  BY DEF FinishParse, CInv, ListTypes
<1>2. UNCHANGED <<input, list, selected>> /\ nrCpus' = CountCpus(list)
  BY DEF FinishParse
<1>3. /\ IsFiniteSet(selected)
      /\ \E f : IsCount(f, list)
      /\ \A f : IsCount(f, list) => CountFacts(f, list, selected)
  BY DEF CountInv
<1>4. CASE \E i \in 1..Len(list) : list[i].end >= CpuCount
  <2>1. PICK i \in 1..Len(list) : list[i].end >= CpuCount
    BY <1>4
  <2>2. list[i].end \in selected
    <3>1. list[i].start \in Nat /\ list[i].end \in Nat /\ list[i].start <= list[i].end
      BY <1>1, NodeBounds DEF Separated
    <3>2. list[i].end \in list[i].start..list[i].end
      BY <3>1
    <3> QED BY <1>1, <3>2, CpusMem
  <2>3. CountCpus(list) = -1
    BY <1>4 DEF CountCpus
  <2>4. phase' = "fatal"
    BY <2>3 DEF FinishParse
  <2> QED BY <1>2, <1>3, <2>1, <2>2, <2>4 DEF CountInv
<1>5. CASE ~\E i \in 1..Len(list) : list[i].end >= CpuCount
  <2>1. \A i \in 1..Len(list) : list[i].end < CpuCount
    BY <1>1, <1>5, NodeBounds, CpuCountAssumption
  <2>2. CountCpus(list) = Cardinality(selected)
    BY <1>1, <1>3, <2>1, CountValue, Zenon
  <2>3. Cardinality(selected) \in 0..CpuCount
    <3>1. IsFiniteSet(Cpus(list)) /\ Cardinality(Cpus(list)) <= CpuCount
      BY <1>1, <2>1, CountBelowCpuCount, Zenon
    <3>2. Cardinality(selected) \in Nat
      BY <1>3, FS_CardinalityType
    <3> QED BY <1>1, <3>1, <3>2
  <2>4. phase' \in {"other", "done"}
    BY <2>2, <2>3 DEF FinishParse
  <2> QED BY <1>2, <1>3, <2>2, <2>4 DEF CountInv
<1> QED BY <1>4, <1>5

\* Only the parse touches the list, the CPUs named and the count.
LEMMA CountInvNext ==
  CInv /\ CountInv /\ [Next]_vars => CountInv'
<1> SUFFICES ASSUME CInv, CountInv, [Next]_vars PROVE CountInv'
  OBVIOUS
<1>1. CASE AddToken
  BY <1>1, CountTokenInv
<1>2. CASE FinishParse
  BY <1>2, CountFinishInv
<1>3. CASE OtherStep \/ OtherEnd
  <2>1. phase = "other" /\ phase' \in {"other", "done"}
        /\ UNCHANGED <<input, list, selected, nrCpus>>
    BY <1>3 DEF OtherStep, OtherEnd
  <2> QED BY <2>1 DEF CountInv
<1>4. CASE UNCHANGED vars
  BY <1>4 DEF vars, CountInv
<1> QED BY <1>1, <1>2, <1>3, <1>4 DEF Next

(***************************************************************************)
(* For every cpu_count and every ascending -a expression, nr_cpus as      *)
(* count_cpus returns it (lines 865-880) is the number of distinct CPUs   *)
(* named, and when main stops with "Invalid cpu input" once the whole    *)
(* expression is parsed (lines 1137-1138), a named CPU does not exist.    *)
(* The sum of end - start + 1 counts distinct CPUs only because add_cpus *)
(* merged the list.                                                       *)
(***************************************************************************)
THEOREM CountCorrect ==
  ASSUME AscendingInputs
  PROVE  Spec => []CountExact
<1>1. CInv /\ CountInv => CountExact
  <2> SUFFICES ASSUME CInv, CountInv PROVE CountExact
    OBVIOUS
  <2>1. phase \in {"other", "done"} => \A c \in selected : c < CpuCount
    <3> SUFFICES ASSUME phase \in {"other", "done"} PROVE \A c \in selected : c < CpuCount
      OBVIOUS
    <3>1. list \in Seq(Interval) /\ Cpus(list) = selected
          /\ \A i \in 1..Len(list) : list[i].end < CpuCount
      BY DEF CInv, ListTypes
    <3>2. Cpus(list) \subseteq 0..(CpuCount - 1)
      BY <3>1, CpusBelow, Zenon
    <3> QED BY <3>1, <3>2, CpuCountAssumption
  <2> QED BY <2>1 DEF CountInv, CountExact
<1>2. Init => CInv /\ CountInv
  BY CInvInit, CountInvInit
<1>3. CInv /\ CountInv /\ [Next]_vars => CInv' /\ CountInv'
  BY CInvNext, CountInvNext
<1> QED BY <1>1, <1>2, <1>3, PTL DEF Spec
=============================================================================
