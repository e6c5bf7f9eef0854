------------------------------- MODULE CpuList -------------------------------
(***************************************************************************)
(* The CPU-range algebra of cyclicdeadline.c: calc_nr_cpus parses the -a  *)
(* expression token by token into a linked list of intervals (add_cpus),   *)
(* make_new_list renders it back, count_cpus counts it, and                *)
(* make_other_cpu_list parses the rendered text again to emit the          *)
(* complement over [0, cpu_count).                                         *)
(*                                                                         *)
(* The expression is a sequence of tokens; a token is the pair of numbers  *)
(* atoi reads from "N" (start = end) or "N-M", or Malformed for text atoi  *)
(* rejects.  The linked list is a sequence of [start, end] records in     *)
(* list order.  Rendered text is a sequence of [start, end, range] tokens: *)
(* "%d" when start = end, "%d-%d" otherwise.                              *)
(***************************************************************************)
EXTENDS Integers, Sequences, FiniteSets

CONSTANTS
  CpuCount,   \* cpu_count = sysconf(_SC_NPROCESSORS_CONF)
  Inputs,     \* the -a expressions to start from
  Malformed   \* a token atoi rejects (non-numeric, negative)

ASSUME CpuCountAssumption == CpuCount \in Nat \ {0}

Interval == [start : Nat, end : Nat]
Token == [start : Nat, end : Nat] \cup {Malformed}

ASSUME InputsAssumption == Inputs \subseteq Seq(Token)

VARIABLES
  input,     \* tokens of the expression not yet parsed
  list,      \* struct cpu_list, head first
  selected,  \* history: the CPUs named by the tokens parsed so far
  phase,     \* "parse", "other", "done", "fatal"
  buf,       \* setcpu_buf: the rendered list
  nrCpus,    \* calc_nr_cpus' result
  allCpus,   \* all_cpus
  otherIn,   \* make_other_cpu_list: rendered tokens not yet read
  curr,      \* make_other_cpu_list: curr_cpu
  other      \* allcpu_buf: the complement, as intervals

vars == <<input, list, selected, phase, buf, nrCpus, allCpus, otherIn, curr, other>>

Cpus(l) == UNION {l[i].start..l[i].end : i \in 1..Len(l)}

Init ==
  /\ input \in Inputs
  /\ list = <<>>
  /\ selected = {}
  /\ phase = "parse"
  /\ buf = <<>>
  /\ nrCpus = 0
  /\ allCpus = FALSE
  /\ otherIn = <<>>
  /\ curr = 0
  /\ other = <<>>

(***************************************************************************)
(* add_cpus(&cpu_list, s, e), lines 820-863.                               *)
(***************************************************************************)
\* Mutant: the walk also passes a node that ends right before s.
FirstNotBeforeOffByOne(l, s) ==
  IF \E i \in 1..Len(l) : ~(l[i].end < s)
  THEN CHOOSE i \in 1..Len(l) : ~(l[i].end < s) /\ \A j \in 1..(i - 1) : l[j].end < s
  ELSE Len(l) + 1

\* The walk: the first node that does not end more than one below s
\* (Len + 1 when the walk reaches NULL).
FirstNotBefore(l, s) ==
  IF \E i \in 1..Len(l) : ~(l[i].end + 1 < s)
  THEN CHOOSE i \in 1..Len(l) : ~(l[i].end + 1 < s) /\ \A j \in 1..(i - 1) : l[j].end + 1 < s
  ELSE Len(l) + 1

\* The forward merge loop: the last node k >= i such that every node after
\* i up to k starts no later than e + 1.
LastAbsorbed(l, i, e) ==
  CHOOSE k \in i..Len(l) :
    /\ \A m \in (i + 1)..k : l[m].start <= e + 1
    /\ k < Len(l) => l[k + 1].start > e + 1

\* "Look to concatinate": widen node i, swallow the nodes that follow.
Concatenate(l, i, s, e) ==
  LET k == LastAbsorbed(l, i, e)
      merged == IF k = i THEN l[i].end ELSE l[k].end
      node == [start |-> IF s < l[i].start THEN s ELSE l[i].start,
               end   |-> IF merged < e THEN e ELSE merged]
  IN  SubSeq(l, 1, i - 1) \o <<node>> \o SubSeq(l, k + 1, Len(l))

AddCpus(l, s, e) ==
  LET i == FirstNotBefore(l, s)
  IN  IF i > Len(l) THEN Append(l, [start |-> s, end |-> e])
      ELSE IF e > l[i].start /\ s <= l[i].end + 1 THEN Concatenate(l, i, s, e)
      ELSE IF e + 1 >= l[i].start THEN [l EXCEPT ![i].start = s]
      \* the new node is linked in after node i
      ELSE SubSeq(l, 1, i) \o <<[start |-> s, end |-> e]>> \o SubSeq(l, i + 1, Len(l))

\* One iteration of calc_nr_cpus' parse loop: a malformed token or N-M with
\* M < N goes to err, which frees the list and returns -1: main is fatal.
AddToken ==
  /\ phase = "parse"
  /\ input # <<>>
  /\ LET t == Head(input) IN
       IF t = Malformed \/ t.end < t.start
       THEN /\ phase' = "fatal"
            /\ UNCHANGED <<input, list, selected>>
       ELSE /\ list' = AddCpus(list, t.start, t.end)
            /\ selected' = selected \cup t.start..t.end
            /\ input' = Tail(input)
            /\ UNCHANGED phase
  /\ UNCHANGED <<buf, nrCpus, allCpus, otherIn, curr, other>>

\* make_new_list / append_cpus: "%d" or "%d-%d" per node, in list order.
Render(l) ==
  [i \in 1..Len(l) |-> [start |-> l[i].start, end |-> l[i].end,
                        range |-> l[i].start # l[i].end]]

\* Mutant: count_cpus counts end - start per node.
CountCpusOffByOne(l) ==
  LET n[i \in 0..Len(l)] == IF i = 0 THEN 0 ELSE n[i - 1] + (l[i].end - l[i].start)
  IN  IF \E i \in 1..Len(l) : l[i].end >= CpuCount THEN -1 ELSE n[Len(l)]

\* count_cpus: the number of CPUs, or -1 when a node ends past cpu_count.
CountCpus(l) ==
  LET n[i \in 0..Len(l)] == IF i = 0 THEN 0 ELSE n[i - 1] + (l[i].end - l[i].start + 1)
  IN  IF \E i \in 1..Len(l) : l[i].end >= CpuCount THEN -1 ELSE n[Len(l)]

(***************************************************************************)
(* The end of calc_nr_cpus and main's use of it (lines 979-1158): render  *)
(* and count, reject a count below 0 or above cpu_count, take all_cpus    *)
(* when every CPU is named, and compute the complement of a non-empty     *)
(* rendering.                                                             *)
(***************************************************************************)
FinishParse ==
  /\ phase = "parse"
  /\ input = <<>>
  /\ buf' = Render(list)
  /\ nrCpus' = CountCpus(list)
  /\ IF CountCpus(list) < 0 \/ CountCpus(list) > CpuCount
       THEN /\ phase' = "fatal"
            /\ UNCHANGED <<allCpus, otherIn>>
       ELSE /\ allCpus' = (CountCpus(list) = CpuCount)
            /\ phase' = IF list = <<>> THEN "done" ELSE "other"
            /\ otherIn' = Render(list)
  /\ UNCHANGED <<input, list, selected, curr, other>>

\* Mutant: curr_cpu is set to the token's last CPU, not the one after it.
NextCurrSame(t) == t.end

\* curr_cpu = cpu + 1, where cpu is the token's last CPU.
NextCurr(t) == t.end + 1

\* One iteration of make_other_cpu_list's loop (lines 924-942).
OtherStep ==
  /\ phase = "other"
  /\ otherIn # <<>>
  /\ curr < CpuCount
  /\ LET t == Head(otherIn) IN
       /\ other' = IF t.start > curr
                   THEN Append(other, [start |-> curr, end |-> t.start - 1])
                   ELSE other
       /\ curr' = NextCurr(t)
  /\ otherIn' = Tail(otherIn)
  /\ UNCHANGED <<input, list, selected, phase, buf, nrCpus, allCpus>>

\* The loop ends; the CPUs after the last token are appended (lines 944-947).
OtherEnd ==
  /\ phase = "other"
  /\ otherIn = <<>> \/ curr >= CpuCount
  /\ other' = IF curr < CpuCount
              THEN Append(other, [start |-> curr, end |-> CpuCount - 1])
              ELSE other
  /\ phase' = "done"
  /\ UNCHANGED <<input, list, selected, buf, nrCpus, allCpus, otherIn, curr>>

Next ==
  \/ AddToken
  \/ FinishParse
  \/ OtherStep
  \/ OtherEnd

Spec == Init /\ [][Next]_vars

-----------------------------------------------------------------------------
TypeOK ==
  /\ input \in Seq(Token)
  /\ list \in Seq(Interval)
  /\ selected \subseteq Nat
  /\ phase \in {"parse", "other", "done", "fatal"}
  /\ buf \in Seq([start : Nat, end : Nat, range : BOOLEAN])
  /\ nrCpus \in Int
  /\ allCpus \in BOOLEAN
  /\ otherIn \in Seq([start : Nat, end : Nat, range : BOOLEAN])
  /\ curr \in Nat
  /\ other \in Seq(Interval)

\* Nodes are proper, in increasing order, neither overlapping nor adjacent.
Canonical(l) ==
  /\ \A i \in 1..Len(l) : l[i].start <= l[i].end
  /\ \A i \in 1..(Len(l) - 1) : l[i].end + 1 < l[i + 1].start

(***************************************************************************)
(* Spec 3: the cpu_list built by add_cpus stays sorted and merged, and it *)
(* names exactly the CPUs of the tokens parsed so far.                    *)
(***************************************************************************)
ListCanonical ==
  /\ Canonical(list)
  /\ Cpus(list) = selected

(***************************************************************************)
(* The complement handed to the cpuset for "other" tasks is canonical and *)
(* is exactly [0, cpu_count) minus the selected CPUs: no selected CPU is  *)
(* left open to other tasks and no other CPU is lost.                     *)
(***************************************************************************)
ComplementExact ==
  phase = "done" /\ buf # <<>> =>
    /\ Canonical(other)
    /\ Cpus(other) = (0..(CpuCount - 1)) \ selected

(***************************************************************************)
(* nr_cpus is the number of distinct CPUs named, and once the expression *)
(* is parsed the run is rejected exactly when a named CPU does not exist.  *)
(***************************************************************************)
CountExact ==
  /\ phase \in {"other", "done"} =>
        /\ nrCpus = Cardinality(selected)
        /\ \A c \in selected : c < CpuCount
  /\ phase = "fatal" /\ input = <<>> => \E c \in selected : c >= CpuCount

=============================================================================
