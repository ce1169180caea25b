------------------------------- MODULE ToolsMC -------------------------------
(***************************************************************************)
(* The components that share nothing with the rest, side by side for TLC:  *)
(* active is the one whose specification takes the steps of a behaviour,   *)
(* the others stay as they started.                                        *)
(***************************************************************************)
EXTENDS Profile, Containers, Pipeline, SliceOps, TLC

CONSTANTS e1, e2, e3, e4

VARIABLE active

\* Streams of an unsorted slice in which two elements have the same key.
OneSource == {<<3, 1, 2>>}

\* Four elements, two with equal priority.
FourPriorities == (e1 :> 1) @@ (e2 :> 1) @@ (e3 :> 2) @@ (e4 :> 3)

\* Slices with equal neighbours.
ThreeSlices == {<<1, 2, 1, 3>>, <<2, 2, 1>>, <<>>}

vars == <<active, pvars, plvars, cvars, svars>>

Init ==
    /\ active \in {"profile", "pipeline", "containers", "slices"}
    /\ ProfileInit /\ PipeInit /\ ContInit /\ SliceInit
    /\ active # "slices" => kept = <<>>
    /\ active # "profile" => preset = {}

Next ==
    /\ UNCHANGED active
    /\ \/ /\ active = "profile" /\ ProfileNext
          /\ UNCHANGED <<plvars, cvars, svars>>
       \/ /\ active = "pipeline" /\ PipeNext
          /\ UNCHANGED <<pvars, cvars, svars>>
       \/ /\ active = "containers" /\ ContNext
          /\ UNCHANGED <<pvars, plvars, svars>>
       \/ /\ active = "slices" /\ SliceNext
          /\ UNCHANGED <<pvars, plvars, cvars>>

Spec == Init /\ [][Next]_vars /\ ProfileFairness

-----------------------------------------------------------------------------
\* A termination signal takes effect, and a stopped profile lets the next start.
ProfilesEnd == Terminates /\ FlagReturned

=============================================================================
