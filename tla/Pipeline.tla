------------------------------ MODULE Pipeline ------------------------------
(***************************************************************************)
(* The streams of tools/stream/pipelinestream.go: a slice and the stages   *)
(* that each element passes one by one when a terminal operation asks for  *)
(* it.  A stage is a closure; that of Limit keeps a count, which is what   *)
(* makes the pipeline a state machine: every terminal operation runs the   *)
(* same closures again.                                                    *)
(*                                                                         *)
(* Elements are numbers, 0 is their zero value.  A predicate is the set of *)
(* elements it accepts.                                                    *)
(***************************************************************************)
EXTENDS Integers, Sequences, SequencesExt, FiniteSetsExt

CONSTANTS
    Sources,        \* the slices streams are made of
    Predicates,     \* the sets that filters and matches use
    Limits,         \* arguments of Limit and Skip
    MaxStages,      \* bound on the stages that are added
    MaxRuns         \* bound on the terminal operations

ASSUME PipelineAssumption ==
    /\ Sources \subseteq Seq(Int)
    /\ Predicates \subseteq SUBSET Int
    /\ Limits \subseteq Nat
    /\ MaxStages \in Nat /\ MaxRuns \in Nat

VARIABLES
    initial,        \* the slice
    progresses,     \* the stages, with the counts of Limit
    peeked,         \* what each Peek was called with, by its place in the history
    stages,         \* history: every intermediate operation since the stream was made
    source,         \* history: the slice the stream was made of
    answer          \* history: the terminal operations, and the last one's result

plvars == <<initial, progresses, peeked, stages, source, answer>>

ZeroValue == 0

Places == 1..MaxStages

NoCalls == [a \in Places |-> <<>>]

NoAnswer == [runs |-> 0, op |-> "none", p |-> {}, value |-> <<>>, count |-> 0,
             after |-> 0]

\* Of
PipeInit ==
    /\ source \in Sources
    /\ initial = source
    /\ progresses = <<>>
    /\ peeked = NoCalls
    /\ stages = <<>>
    /\ answer = NoAnswer

-----------------------------------------------------------------------------
(* One element through the stages                                          *)

\* Limit counts what it lets through, Skip never counts: it stops everything
\* when it is asked to skip nothing, and nothing otherwise.
Accepts(st, e) ==
    CASE st.op = "filter" -> e \in st.keep
      [] st.op = "peek" -> TRUE
      [] st.op = "limit" -> st.index < st.n
      [] st.op = "skip" -> st.n # 0

\* Mutant: the count is not kept.
Advance_Forgets(st) == st

Advance(st) == IF st.op = "limit" THEN [st EXCEPT !.index = @ + 1] ELSE st

\* The stages that see e: those that no stage before them keeps it from.
Seen(ps, e) == {k \in DOMAIN ps : \A j \in 1..(k - 1) : Accepts(ps[j], e)}

Passed(ps, e) == \A k \in DOMAIN ps : Accepts(ps[k], e)

\* The value that comes out is that of the last stage: without a stage it is
\* the zero value and not the element.
Emitted(ps, e) == IF ps = <<>> THEN ZeroValue ELSE e

StepAll(ps, e) ==
    [k \in DOMAIN ps |-> IF k \in Seen(ps, e) /\ Accepts(ps[k], e)
                         THEN Advance(ps[k]) ELSE ps[k]]

\* The places of the Peeks that are called with e.
Peeks(ps, e) == {ps[k].at : k \in {j \in Seen(ps, e) : ps[j].op = "peek"}}

executeOne(st, e) ==
    [ps |-> StepAll(st.ps, e),
     out |-> IF Passed(st.ps, e) THEN Append(st.out, Emitted(st.ps, e)) ELSE st.out,
     seen |-> [a \in Places |-> IF a \in Peeks(st.ps, e) THEN Append(st.seen[a], e)
                                ELSE st.seen[a]]]

\* A loop of executeOne over s, which stops once an emitted element is in stop.
Turn(st, e, stop) ==
    IF ToSet(st.out) \cap stop # {} THEN st ELSE executeOne(st, e)

Turns(ps, s, stop) ==
    LET turn[k \in 0..Len(s)] ==
            IF k = 0 THEN [ps |-> ps, out |-> <<>>, seen |-> NoCalls]
            ELSE Turn(turn[k - 1], s[k], stop)
    IN  turn

RunUntil(ps, s, stop) == Turns(ps, s, stop)[Len(s)]

execute(ps, s) == RunUntil(ps, s, {})

-----------------------------------------------------------------------------
(* Intermediate operations                                                 *)

WithCalls(seen) == [a \in Places |-> peeked[a] \o seen[a]]

Stage(op) == [op |-> op, keep |-> {}, n |-> 0, index |-> 0,
              at |-> Len(stages) + 1, since |-> answer.count]

AddStage(st) ==
    /\ Len(stages) < MaxStages
    /\ progresses' = Append(progresses, st)
    /\ stages' = Append(stages, st)
    /\ UNCHANGED <<initial, peeked, source, answer>>

Filter(p) == AddStage([Stage("filter") EXCEPT !.keep = p])
Peek == AddStage(Stage("peek"))
Limit(n) == AddStage([Stage("limit") EXCEPT !.n = n])
Skip(n) == AddStage([Stage("skip") EXCEPT !.n = n])

\* sort.Slice with the order of numbers.
SortUp(s) ==
    LET order == CHOOSE p \in [DOMAIN s -> DOMAIN s] :
                     /\ \A i, j \in DOMAIN s : p[i] = p[j] => i = j
                     /\ \A i, j \in DOMAIN s : i < j => s[p[i]] <= s[p[j]]
    IN  [i \in DOMAIN s |-> s[order[i]]]

\* Runs the stages at once, and drops them.
Sorted ==
    /\ Len(stages) < MaxStages
    /\ LET r == execute(progresses, initial) IN
       /\ initial' = SortUp(r.out)
       /\ peeked' = WithCalls(r.seen)
    /\ progresses' = <<>>
    /\ stages' = Append(stages, Stage("sorted"))
    /\ UNCHANGED <<source, answer>>

-----------------------------------------------------------------------------
(* Terminal operations                                                     *)

\* The operation op, which left the stages and made the calls of r.
Answer(op, p, r, value) ==
    /\ answer.runs < MaxRuns
    /\ answer' = [runs |-> answer.runs + 1, op |-> op, p |-> p, value |-> value,
                  count |-> answer.count + Len(r.out), after |-> Len(stages)]
    /\ progresses' = r.ps
    /\ peeked' = WithCalls(r.seen)
    /\ UNCHANGED <<initial, stages, source>>

\* A run that looks at every element, and the operation op that makes it.
Run == execute(progresses, initial)

Whole(op, value) == Answer(op, {}, Run, value)

CollectSlice == Whole("slice", Run.out)
ForEach == Whole("each", Run.out)
Count == Whole("count", Len(Run.out))

\* Reduce adds up.
Reduced(out) ==
    LET r[k \in 0..Len(out)] == IF k = 0 THEN 0 ELSE r[k - 1] + out[k]
    IN  r[Len(out)]

Reduce == Whole("reduce", Reduced(Run.out))

\* The keys of CollectStringMap, CollectIntMap and CollectMap.
Key(v) == v % 2

\* A later element takes the place of one with the same key.
WithKey(m, v) ==
    [k \in DOMAIN m \cup {Key(v)} |-> IF k = Key(v) THEN v ELSE m[k]]

Keyed(out) ==
    LET m[k \in 0..Len(out)] ==
            IF k = 0 THEN [key \in {} |-> ZeroValue] ELSE WithKey(m[k - 1], out[k])
    IN  m[Len(out)]

CollectMap == Whole("map", Keyed(Run.out))

\* The element that the loops of Max (sign 1) and Min (sign -1) are left with.
Better(m, v, sign) == IF sign * m < sign * v THEN v ELSE m

Best(out, sign) ==
    LET m[k \in 0..(Len(out) - 1)] ==
            IF k = 0 THEN Head(out) ELSE Better(m[k - 1], out[k + 1], sign)
    IN  IF out = <<>> THEN <<>> ELSE <<m[Len(out) - 1]>>

MaxOf == Whole("max", Best(Run.out, 1))
MinOf == Whole("min", Best(Run.out, -1))

AnyMatch(p) ==
    LET r == RunUntil(progresses, initial, p)
    IN  Answer("any", p, r, \E i \in DOMAIN r.out : r.out[i] \in p)
AllMatch(p) ==
    LET r == RunUntil(progresses, initial, Int \ p)
    IN  Answer("all", p, r, ~ \E i \in DOMAIN r.out : r.out[i] \notin p)
NoneMatch(p) ==
    LET r == RunUntil(progresses, initial, p)
    IN  Answer("no", p, r, ~ \E i \in DOMAIN r.out : r.out[i] \in p)

First ==
    LET r == RunUntil(progresses, initial, Int)
    IN  Answer("first", {}, r, r.out)

\* Last starts at the end of the slice, and so do the counts of Limit.
Last_ ==
    LET r == RunUntil(progresses, Reverse(initial), Int)
    IN  Answer("last", {}, r, r.out)

Intermediate ==
    \/ \E p \in Predicates : Filter(p)
    \/ \E n \in Limits : Limit(n) \/ Skip(n)
    \/ Peek \/ Sorted

Terminal ==
    \/ CollectSlice \/ ForEach \/ Reduce \/ Count \/ CollectMap
    \/ MaxOf \/ MinOf \/ First \/ Last_
    \/ \E p \in Predicates : AnyMatch(p) \/ AllMatch(p) \/ NoneMatch(p)

PipeNext == Intermediate \/ Terminal

PipeSpec == PipeInit /\ [][PipeNext]_plvars

-----------------------------------------------------------------------------
(* Reference: each stage processes the whole slice before the next one     *)

Picked(out, e, keep) == IF e \in keep THEN Append(out, e) ELSE out

Selected(s, keep) ==
    LET out[k \in 0..Len(s)] ==
            IF k = 0 THEN <<>> ELSE Picked(out[k - 1], s[k], keep)
    IN  out[Len(s)]

Apply(s, st) ==
    CASE st.op = "filter" -> Selected(s, st.keep)
      [] st.op = "limit" -> IF st.n < Len(s) THEN SubSeq(s, 1, st.n) ELSE s
      [] st.op = "sorted" -> SortUp(s)
      [] OTHER -> s

\* The slices between the stages: that at k has passed the first k of them.
Between(s, sts) ==
    LET slice[k \in 0..Len(sts)] == IF k = 0 THEN s ELSE Apply(slice[k - 1], sts[k])
    IN  slice

Staged(k) == Between(source, stages)[k]

LastSort == Max({0} \cup {k \in DOMAIN stages : stages[k].op = "sorted"})

\* The same for Last, which goes backwards through what the last Sorted left.
Backwards ==
    Between(Reverse(Staged(LastSort)), SubSeq(stages, LastSort + 1, Len(stages)))
        [Len(stages) - LastSort]

\* Without a stage before each run elements come out as zero values (Emitted),
\* and Skip is no stage that a reference has: what is said is said of the others.
Clean ==
    \A k \in DOMAIN stages :
        /\ stages[k].op # "skip"
        /\ stages[k].op = "sorted" => k > 1 /\ stages[k - 1].op # "sorted"

WellFormed == Clean /\ stages # <<>> /\ stages[Len(stages)].op # "sorted"

\* The sum from the back.
Total(s) ==
    LET r[k \in 0..Len(s)] == IF k = 0 THEN 0 ELSE s[Len(s) + 1 - k] + r[k - 1]
    IN  r[Len(s)]

SpecValue(op, p, s) ==
    CASE op \in {"slice", "each"} -> s
      [] op = "count" -> Len(s)
      [] op = "reduce" -> Total(s)
      [] op = "map" -> [k \in {Key(e) : e \in ToSet(s)} |->
                           s[Max({i \in DOMAIN s : Key(s[i]) = k})]]
      [] op = "max" -> IF s = <<>> THEN <<>> ELSE <<Max(ToSet(s))>>
      [] op = "min" -> IF s = <<>> THEN <<>> ELSE <<Min(ToSet(s))>>
      [] op = "any" -> ToSet(s) \cap p # {}
      [] op = "all" -> ToSet(s) \subseteq p
      [] op = "no" -> ToSet(s) \cap p = {}
      [] op = "first" -> IF s = <<>> THEN <<>> ELSE <<Head(s)>>
      [] op = "last" -> IF s = <<>> THEN <<>> ELSE <<s[Len(s)]>>

-----------------------------------------------------------------------------
(* Properties                                                              *)

PipeTypeOK ==
    /\ initial \in Seq(Int) /\ Len(initial) <= Len(source)
    /\ Len(stages) <= MaxStages /\ Len(progresses) <= Len(stages)
    /\ \A k \in DOMAIN progresses :
          progresses[k].op # "sorted" /\ progresses[k].index \in 0..progresses[k].n
    /\ answer.runs \in 0..MaxRuns

\* The stream was run once and is as it was then.
RunOnce == answer.runs = 1 /\ answer.after = Len(stages) /\ WellFormed

\* The first terminal operation of a stream gives what it would give if every
\* stage had processed the whole slice before the next: passing elements one by
\* one, stopping early and sorting in between make no difference.  For Last the
\* slice is the reversed one, so that a Limit counts from the end.
FusionIsStaged ==
    RunOnce =>
        answer.value =
            SpecValue(answer.op, answer.p,
                      IF answer.op = "last" THEN Reverse(Backwards) ELSE Staged(Len(stages)))

\* After one complete run every Peek was called with exactly the elements that
\* reach its place, in order, also when the stages were run by Sorted.
PeekSees ==
    RunOnce /\ answer.op \in {"slice", "each", "reduce", "count", "map", "max", "min"}
        => \A k \in DOMAIN stages : stages[k].op = "peek" => peeked[k] = Staged(k - 1)

\* All terminal operations after it together get no more elements than Limit
\* allows: its count outlives the first of them.
LimitIsTotal ==
    \A k \in DOMAIN progresses : progresses[k].op = "limit" =>
        answer.count - progresses[k].since <= progresses[k].n

\* The first terminal operation of a stream gives what stage by stage processing
\* of the whole slice gives; every Peek is called with exactly the elements that
\* reach its place; all terminal operations together get no more elements than
\* Limit allows.
StreamsAgree == PipeTypeOK /\ FusionIsStaged /\ PeekSees /\ LimitIsTotal

=============================================================================
