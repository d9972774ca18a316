-------------------------- MODULE MC_ScanPipeline --------------------------
(* Instances of ScanPipeline for TLC.                                      *)
EXTENDS ScanPipeline, TLC

CONSTANTS a, b, c

None       == {}
OneEntry   == {{a}}
OneOrTwo   == {{a}, {a, b}}
JustC == {c}

\* The entries of the one built-in list are interchangeable.
Symmetry == Permutations({a, b, c})

\* Bound of the restart run: with two addresses the scans are HTTP/3 only,
\* and the second one is followed up to its tests.
ShortPairs == Cardinality(pending) = 2 => \A g \in Scans :
  mode[g] = "H3" /\ (g = 2 => job[g] \notin {"first", "retry"})
=============================================================================
