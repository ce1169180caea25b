------------------------------ MODULE SliceOps ------------------------------
(***************************************************************************)
(* The helpers of tools/collectionutils.  Delete and DeleteFunc work in    *)
(* the array of their argument, which other slices share; the rest read a  *)
(* slice and return.  A caller applies them to its slice in any order.     *)
(*                                                                         *)
(* A predicate is the set of elements it accepts.  The variants with a P   *)
(* take pointers to the same elements.                                     *)
(***************************************************************************)
EXTENDS Slices, FiniteSetsExt

CONSTANTS
    Given,          \* the slices a caller starts with
    Accepted,       \* predicates
    Half            \* 2 ^ (bits - 1) for the integers of SliceRange and Sum

ASSUME SliceAssumption ==
    /\ Given \subseteq Seq(Int)
    /\ Accepted \subseteq SUBSET Int
    /\ Zero \in Int
    /\ Half \in Nat \ {0}

VARIABLES
    ss,             \* the slice of the caller
    older,          \* the slice it had before the last call in place
    kept,           \* history: what the slice should hold
    call            \* the last call that only reads: its operation, argument, value

svars == <<ss, older, kept, call>>

\* A loop over s: the turn of an element is a function on what the loop has found.
Loop(turn, base, s) ==
    LET st[k \in 0..Len(s)] == IF k = 0 THEN base ELSE turn[s[k]][st[k - 1]]
    IN  st[Len(s)]

\* The elements of s in p, in order.
Where(s, p) ==
    LET Pick == [e \in Int |-> [out \in Seq(Int) |-> IF e \in p THEN Append(out, e) ELSE out]]
    IN  Loop(Pick, <<>>, s)

NoCall == [op |-> "none", p |-> {}, value |-> <<>>]

SliceInit ==
    /\ kept \in Given
    /\ ss = [back |-> kept, lo |-> 0, hi |-> Len(kept)]
    /\ older = ss
    /\ call = NoCall

-----------------------------------------------------------------------------
(* In place                                                                *)

\* Mutant: the move starts one element too early.
Shifted_Early(s, index) ==
    [s EXCEPT !.back = [c \in DOMAIN @ |->
        IF c >= s.lo + index /\ c > s.lo /\ c < s.hi THEN @[c + 1] ELSE @[c]]]

\* append(ss[:index], ss[index+1:]...): the elements behind move one down, the
\* last cell keeps what it had.
Shifted(s, index) ==
    [s EXCEPT !.back = [c \in DOMAIN @ |->
        IF c > s.lo + index /\ c < s.hi THEN @[c + 1] ELSE @[c]]]

Delete(index) ==
    /\ Len_(ss) > 0 /\ index < Len_(ss)
    /\ LET moved == Shifted(ss, index) IN
       /\ ss' = Window(moved, 0, Len_(ss) - 1)
       /\ older' = moved
    /\ kept' = RemoveAt(kept, index + 1)
    /\ call' = NoCall

\* One turn of the loop of DeleteFunc, which reads the array it writes.
Keep(st, i, p) ==
    IF At(st.s, i) \in p THEN st
    ELSE [s |-> Put(st.s, st.keepIndex, At(st.s, i)), keepIndex |-> st.keepIndex + 1]

Compacted(s, p) ==
    LET States == [s : [back : Seq(Int), lo : Nat, hi : Nat], keepIndex : Nat]
    IN  Loop([i \in Nat |-> [st \in States |-> Keep(st, i, p)]],
             [s |-> s, keepIndex |-> 0], [n \in 1..Len_(s) |-> n - 1])

\* What is left behind the kept elements is cleared.
Cleared(s, from) ==
    [s EXCEPT !.back = [c \in DOMAIN @ |->
        IF c > s.lo + from /\ c <= s.hi THEN Zero ELSE @[c]]]

DeleteFunc(p) ==
    /\ Len_(ss) > 0
    /\ LET r == Compacted(ss, p)
           s == Cleared(r.s, r.keepIndex)
       IN  /\ ss' = Window(s, 0, r.keepIndex)
           /\ older' = s
    /\ kept' = Where(kept, Int \ p)
    /\ call' = NoCall

-----------------------------------------------------------------------------
(* Reading                                                                 *)

Input == Elems(ss)

Answered(op, p, value) ==
    /\ call' = [op |-> op, p |-> p, value |-> value]
    /\ UNCHANGED <<ss, older, kept>>

\* One turn of a loop that returns after the first element in stop.
Visit(st, e, stop) ==
    IF st.done THEN st ELSE [out |-> Append(st.out, e), done |-> e \in stop]

\* The elements such a loop looks at.
Visited(s, stop) ==
    LET States == [out : Seq(Int), done : BOOLEAN]
    IN  Loop([e \in Int |-> [st \in States |-> Visit(st, e, stop)]],
             [out |-> <<>>, done |-> FALSE], s)

Rest(p) == ToSet(Input) \ p

ForEachSlice == Answered("each", {}, Visited(Input, {}).out)
ForEachB(p) == Answered("eachb", p, Visited(Input, Rest(p)).out)
ForEachE(p) ==
    LET r == Visited(Input, p) IN
    Answered("eache", p, [seen |-> r.out, err |-> r.done])
Every(p) == Answered("every", p, ~Visited(Input, Rest(p)).done)
Some(p) == Answered("some", p, Visited(Input, p).done)
Find(p) ==
    LET r == Visited(Input, p) IN
    Answered("find", p, [found |-> r.done, item |-> IF r.done THEN Last(r.out) ELSE Zero])

\* nil for an empty slice, and an empty slice that is not nil when nothing is kept.
FilterSlice(p) == Answered("filter", p, [nil |-> Input = <<>>, out |-> Where(Input, p)])

\* fn doubles.
Mapped(s) == Loop([e \in Int |-> [out \in Seq(Int) |-> Append(out, 2 * e)]], <<>>, s)
Map == Answered("map", {}, [nil |-> Input = <<>>, out |-> Mapped(Input)])

\* A map is a function on all keys, <<>> where it has no entry.  The key of an
\* element says whether p accepts it.
Groups == {"yes", "no"}
GroupOf(e, p) == IF e \in p THEN "yes" ELSE "no"
Maps == [Groups -> Seq(Int)]
NoEntries == [k \in Groups |-> <<>>]
Entries(m) == {k \in Groups : m[k] # <<>>}

Grouped(s, p) ==
    Loop([v \in Int |-> [m \in Maps |-> [m EXCEPT ![GroupOf(v, p)] = Append(@, v)]]],
         NoEntries, s)

GroupBy(p) == Answered("group", p, Grouped(Input, p))

\* The value of a key is the element.
Latest(s, p) ==
    Loop([v \in Int |-> [m \in Maps |-> [m EXCEPT ![GroupOf(v, p)] = <<v>>]]], NoEntries, s)

ToMap(p) == Answered("tomap", p, Latest(Input, p))

\* Keys and Values go over the map in any order.
Keys(p) ==
    \E order \in SetToSeqs(Entries(Grouped(Input, p))) : Answered("keys", p, order)
Values(p) ==
    LET m == Grouped(Input, p) IN
    \E order \in SetToSeqs(Entries(m)) : Answered("values", p, [i \in DOMAIN order |-> m[order[i]]])

Joined(m, order) ==
    Loop([k \in Groups |-> [res \in Seq(Int) |-> res \o m[k]]], <<>>, order)

Flatten(p) ==
    LET m == Grouped(Input, p) IN
    \E order \in SetToSeqs(Entries(m)) : Answered("flatten", p, Joined(m, order))

-----------------------------------------------------------------------------
(* Integers                                                                *)

Card == 2 * Half
Hi(signed) == IF signed THEN Half - 1 ELSE Card - 1
Lo(signed) == IF signed THEN -Half ELSE 0
Wrap(x, signed) == ((x - Lo(signed)) % Card) + Lo(signed)

RangeTurn(st, end, signed) ==
    IF st.x > end THEN st
    ELSE [x |-> Wrap(st.x + 1, signed), out |-> Append(st.out, st.x)]

\* The loop: after one turn for each integer it will not end any more.
RangeTurns(start, end, signed) ==
    LET States == [x : Int, out : Seq(Int)]
    IN  Loop([n \in Nat |-> [st \in States |-> RangeTurn(st, end, signed)]],
             [x |-> start, out |-> <<>>], [n \in 1..Card |-> n])

\* make panics for a negative capacity.
Ranged(start, end, signed) ==
    IF start > end THEN [end |-> "nil", out |-> <<>>]
    ELSE IF Wrap(end - start + 1, signed) < 0 THEN [end |-> "panic", out |-> <<>>]
    ELSE LET r == RangeTurns(start, end, signed) IN
         IF r.x > end THEN [end |-> "list", out |-> r.out]
         ELSE [end |-> "endless", out |-> <<>>]

SliceRange(start, end, signed) ==
    Answered("range", {}, [from |-> start, to |-> end, signed |-> signed,
                           r |-> Ranged(start, end, signed)])

Added(s, signed) == Loop([v \in Int |-> [res \in Int |-> Wrap(res + v, signed)]], 0, s)

Sum(signed) == Answered("sum", {}, [signed |-> signed, res |-> Added(Input, signed)])

-----------------------------------------------------------------------------
Reads(p) ==
    \/ ForEachB(p) \/ ForEachE(p) \/ Every(p) \/ Some(p) \/ Find(p) \/ FilterSlice(p)
    \/ GroupBy(p) \/ ToMap(p) \/ Keys(p) \/ Values(p) \/ Flatten(p)

SliceNext ==
    \/ \E i \in 0..Len_(ss) : Delete(i)
    \/ \E p \in Accepted : DeleteFunc(p) \/ Reads(p)
    \/ ForEachSlice \/ Map
    \/ \E signed \in BOOLEAN :
          \/ Sum(signed)
          \/ \E start, end \in Lo(signed)..Hi(signed) : SliceRange(start, end, signed)

SliceSpec == SliceInit /\ [][SliceNext]_svars

-----------------------------------------------------------------------------
(* Properties                                                              *)

\* After any mix of Delete and DeleteFunc the slice holds what was not deleted,
\* in order, although both overwrite the array they read; and a slice of before
\* the call shows the same elements first, as the comment "in the original
\* slice" says.
InPlace ==
    /\ Elems(ss) = kept
    /\ SubSeq(Elems(older), 1, Len_(ss)) = kept
    /\ older.back = ss.back

\* The elements up to and with the first one in stop.
UpTo(s, stop) ==
    LET hits == {i \in DOMAIN s : s[i] \in stop} IN
    IF hits = {} THEN s ELSE SubSeq(s, 1, Min(hits))

\* out are the elements of s in p, each from its place and in the order of s.
Selects(out, s, p) ==
    LET hits == {i \in DOMAIN s : s[i] \in p} IN
    \E place \in [DOMAIN out -> hits] :
        /\ \A i, j \in DOMAIN out : i < j => place[i] < place[j]
        /\ \A h \in hits : \E i \in DOMAIN out : place[i] = h
        /\ \A i \in DOMAIN out : out[i] = s[place[i]]

\* Loops that return early have seen just enough: the answer is that of the whole
\* slice, and no element after the deciding one was touched.
EarlyReturns ==
    LET p == call.p  v == call.value  others == ToSet(kept) \ p IN
    /\ call.op = "each" => v = kept
    /\ call.op = "eachb" => v = UpTo(kept, others)
    /\ call.op = "eache" => v = [seen |-> UpTo(kept, p), err |-> ToSet(kept) \cap p # {}]
    /\ call.op = "every" => v = (others = {})
    /\ call.op = "some" => v = (ToSet(kept) \cap p # {})
    /\ call.op = "find" => /\ v.found = (ToSet(kept) \cap p # {})
                          /\ (v.found => v.item = Last(UpTo(kept, p)))
    /\ call.op = "filter" => v.nil = (kept = <<>>) /\ Selects(v.out, kept, p)
    /\ call.op = "map" => v = [nil |-> kept = <<>>, out |-> [i \in DOMAIN kept |-> 2 * kept[i]]]

\* GroupBy splits a slice into ordered parts that Flatten puts together again, in
\* whatever order the map gives them; ToMap keeps the last of each group.
Regroups ==
    LET p == call.p  v == call.value
        yes == Where(kept, p)
        no == Where(kept, Int \ p)
        Parts == {yes, no} \ {<<>>}
    IN
    /\ call.op = "group" => v = [k \in Groups |-> IF k = "yes" THEN yes ELSE no]
    /\ call.op = "tomap" =>
          /\ v["yes"] = IF yes = <<>> THEN <<>> ELSE <<Last(yes)>>
          /\ v["no"] = IF no = <<>> THEN <<>> ELSE <<Last(no)>>
    /\ call.op = "keys" =>
          /\ Len(v) = Cardinality(Parts)
          /\ ToSet(v) = {GroupOf(e, p) : e \in ToSet(kept)}
    /\ call.op = "values" => Len(v) = Cardinality(Parts) /\ ToSet(v) = Parts
    /\ call.op = "flatten" => v \in {yes \o no, no \o yes}

SumTotal(s) == Loop([e \in Int |-> [total \in Int |-> total + e]], 0, s)

\* SliceRange gives both ends and everything between as long as the type can hold
\* the integer after the end and the length; else it does not return a slice at
\* all.  Sum is right modulo the type.
IntegersExact ==
    LET v == call.value IN
    /\ call.op = "range" =>
          \/ v.from > v.to /\ v.r = [end |-> "nil", out |-> <<>>]
          \/ /\ v.from <= v.to /\ v.to < Hi(v.signed) /\ v.to - v.from < Hi(v.signed)
             /\ v.r = [end |-> "list",
                       out |-> [i \in 1..(v.to - v.from + 1) |-> v.from + i - 1]]
          \/ /\ v.to = Hi(v.signed) \/ v.to - v.from >= Hi(v.signed)
             /\ v.from <= v.to /\ v.r.end \in {"panic", "endless"}
    /\ call.op = "sum" =>
          v.res = Wrap(SumTotal(kept), v.signed)

\* Deleting in place keeps the elements that should stay, for every slice over
\* the array; loops that return early answer for the whole slice; grouping
\* loses nothing; SliceRange and Sum are right within the bounds of the type.
SlicesKeep == InPlace /\ EarlyReturns /\ Regroups /\ IntegersExact
=============================================================================
