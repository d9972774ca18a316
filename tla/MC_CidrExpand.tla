--------------------------- MODULE MC_CidrExpand ---------------------------
(* Instances of CidrExpand for TLC, whose integers have 32 bits: segments  *)
(* with 31 to 64 host bits are left to the proofs.                         *)
EXTENDS CidrExpand

IntMax == 2147483647

V4(ps, ms)    == [v6: {FALSE}, prefix: ps, groups: {0}, max: ms]
V6(ps, gs, ms) == [v6: {TRUE}, prefix: ps, groups: gs, max: ms]

\* Every width TLC can count, with caps on either side of the powers of two
\* and, for the narrow ones, caps beyond the size.
SmallCaps == V4(2..33, 1..9) \cup V4(27..32, {30, 1000, IntMax})
             \cup V6(98..128, {4}, 1..9) \cup V6(46..63, {3, 4}, 1..9)
             \cup V6(60..63, {4}, {17, 64, 100})

\* The networks of regionRanges, with caps that scale 4096.
Regions == V6({48, 56, 60, 61, 62}, {4}, {16, 40})
=============================================================================
