------------------------------- MODULE Slices -------------------------------
(***************************************************************************)
(* Slices of Go: a window on a backing array that other slices may share.  *)
(* back is the array, lo and hi bound the window.                          *)
(***************************************************************************)
EXTENDS Integers, Sequences, SequencesExt

CONSTANT Zero       \* the zero value of the elements

Nil == [back |-> <<>>, lo |-> 0, hi |-> 0]

Len_(s) == s.hi - s.lo
Elems(s) == SubSeq(s.back, s.lo + 1, s.hi)
At(s, i) == s.back[s.lo + i + 1]
Put(s, i, v) == [s EXCEPT !.back[s.lo + i + 1] = v]

\* s[from:to]
Window(s, from, to) == [s EXCEPT !.lo = s.lo + from, !.hi = s.lo + to]

Zeros(n) == [i \in 1..n |-> Zero]

\* append(s, e): in place while the array has room, else in a new array that is
\* spare elements larger than needed.
AppendTo(s, e, spare) ==
    IF s.hi < Len(s.back)
    THEN [s EXCEPT !.back[s.hi + 1] = e, !.hi = @ + 1]
    ELSE [back |-> Elems(s) \o <<e>> \o Zeros(spare), lo |-> 0, hi |-> Len_(s) + 1]

\* The cells of the array outside of the window.
Outside(s) == (DOMAIN s.back) \ ((s.lo + 1)..s.hi)
=============================================================================
