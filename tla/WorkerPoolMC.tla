---------------------------- MODULE WorkerPoolMC ----------------------------
(***************************************************************************)
(* Instances of WorkerPool for TLC.                                        *)
(***************************************************************************)
EXTENDS WorkerPool, TLC

\* AbortPolicy, the default.
Abort == {[retries |-> 0, then |-> "abort"]}

\* CallerRunsPolicy, and SubmitAfterwardsPolicy without an inner policy.
ElasticPolicies == {[retries |-> 0, then |-> "callerRuns"], [retries |-> 1, then |-> "nil"]}

\* The other endings, one of them after a retry.
LedgerPolicies == {[retries |-> 0, then |-> "newProc"],
                   [retries |-> 0, then |-> "discard"],
                   [retries |-> 1, then |-> "abort"]}

\* Identities are interchangeable in the properties that are not liveness.
Symmetry == Permutations(Workers) \cup Permutations(Submitters)
              \cup Permutations(Stoppers) \cup Permutations(Tasks)

=============================================================================
