----------------------------- MODULE MCWarmPool -----------------------------
(* WarmPool for TLC. *)
EXTENDS WarmPool, TLC

\* Pods, groups and job slots are interchangeable.
PoolSymmetry == Permutations(Pod) \cup Permutations(Group) \cup Permutations(Job)

\* Behaviours in which an outdated listing was applied are followed no further.
ReSyncsCurrent == ~outdated
=============================================================================
