----------------------------- MODULE CidrExpand -----------------------------
(***************************************************************************)
(* IpList.expandCidr: the sample of addresses taken of a CIDR segment.     *)
(*                                                                         *)
(* The loops of expandV4 and expandV6 are the steps; an address is the     *)
(* pair of the sub-segment it is in (0 where the segment is not split) and *)
(* its offset there.  The text of an IPv6 address matters in one way only: *)
(* how many groups stand on either side of its "::".                       *)
(***************************************************************************)
EXTENDS Integers, Sequences

CONSTANT Segments  \* records [v6, prefix, groups, max]: a CIDR and the cap

\* groups: hextets written before the "::" of an IPv6 network; max: maxHosts.
ASSUME SegmentsAssumption ==
  Segments \subseteq [v6: BOOLEAN, prefix: Nat, groups: 0..7, max: Nat \ {0}]

VARIABLES
  seg,   \* the segment being expanded
  pc,    \* "start", the loop that runs ("v4", "flat", "sub"), or "done"
  n,     \* next offset of the flat loops, index of the suffix in the sub loop
  sub,   \* the sub-segment of the sub loop
  out    \* the addresses so far

vars == <<seg, pc, n, sub, out>>

-----------------------------------------------------------------------------
(* The sizes the loops run on.                                             *)

LongMax == 2^63 - 1
HostBits(s) == IF s.v6 THEN 128 - s.prefix ELSE 32 - s.prefix
Accepted(s) == IF s.v6 THEN s.prefix <= 128 /\ HostBits(s) <= 80
                       ELSE s.prefix <= 32 /\ HostBits(s) <= 31
Split(s)    == s.v6 /\ HostBits(s) > 64
Total(s)    == IF HostBits(s) >= 63 THEN LongMax ELSE 2^HostBits(s)
Usable(s)   == Total(s) - 2

\* usable / max in expandV4, total / max in expandV6.
StepUnguarded(size, max) == size \div max
StepUp(size, max) == IF size > max THEN (size + max - 1) \div max ELSE 1
StepOf(size, max) == IF size > max THEN size \div max ELSE 1

\* The sub-segments of a network wider than /64, and the samples of each.
Subs(s)   == 2^(16 - (s.prefix % 16))
PerSub(s) == IF s.max < Subs(s) THEN 1 ELSE s.max \div Subs(s)

\* Host parts of active servers; beyond the table an arithmetic sequence.
SuffixTable == <<1, 256, 512, 4096, 8192, 8206, 8205, 8208, 8224, 12288, 16384,
                 20480, 32768, 40960, 49152, 57344>>
SuffixFromStart(i) == IF i < Len(SuffixTable) THEN SuffixTable[i + 1] ELSE 8206 + (i - Len(SuffixTable)) * 256
Suffix(i) == IF i < Len(SuffixTable) THEN SuffixTable[i + 1] ELSE 8206 + i * 256

Address(k, off) == [sub |-> k, off |-> off]

-----------------------------------------------------------------------------
Init == seg \in Segments /\ pc = "start" /\ n = 0 /\ sub = 0 /\ out = <<>>

\* A prefix out of range gives no address; /31 and /32 give theirs outright.
Reject == pc = "start" /\ ~Accepted(seg) /\ pc' = "done" /\ UNCHANGED <<seg, n, sub, out>>

Tiny ==
  /\ pc = "start" /\ Accepted(seg) /\ ~seg.v6 /\ Total(seg) <= 2
  /\ out' = [i \in 1..Total(seg) |-> Address(0, i - 1)]
  /\ pc' = "done" /\ UNCHANGED <<seg, n, sub>>

\* The first offset of a loop: expandV4 skips the network address.
BeginAtNetwork == 0
BeginV4        == 1

Begin ==
  /\ pc = "start" /\ Accepted(seg)
  /\ \/ ~seg.v6 /\ Total(seg) > 2 /\ pc' = "v4" /\ n' = BeginV4
     \/ seg.v6 /\ ~Split(seg) /\ pc' = "flat" /\ n' = 0
     \/ Split(seg) /\ pc' = "sub" /\ n' = 0
  /\ UNCHANGED <<seg, sub, out>>

\* while (i < total - 1), expandV4: the cap is in the step alone.
StepV4 ==
  /\ pc = "v4"
  /\ IF n < Total(seg) - 1
     THEN /\ out' = Append(out, Address(0, n))
          /\ n' = n + StepOf(Usable(seg), seg.max) /\ UNCHANGED pc
     ELSE pc' = "done" /\ UNCHANGED <<n, out>>
  /\ UNCHANGED <<seg, sub>>

\* out.size < max, expandV6.
Room == Len(out) < seg.max

\* while (n < total && out.size < max), expandV6 up to 64 host bits.
StepFlat ==
  /\ pc = "flat"
  /\ IF n < Total(seg) /\ Room
     THEN /\ out' = Append(out, Address(0, n))
          /\ n' = n + StepOf(Total(seg), seg.max) /\ UNCHANGED pc
     ELSE pc' = "done" /\ UNCHANGED <<n, out>>
  /\ UNCHANGED <<seg, sub>>

\* for (sub in 0 until subs)
SubsDone(k, s) == k >= Subs(s)

\* The two loops over sub-segments and suffixes, expandV6 beyond 64 host bits.
StepSub ==
  /\ pc = "sub"
  /\ \/ /\ SubsDone(sub, seg) \/ ~Room
        /\ pc' = "done" /\ UNCHANGED <<n, sub, out>>
     \/ /\ ~SubsDone(sub, seg) /\ Room /\ n < PerSub(seg)
        /\ out' = Append(out, Address(sub, Suffix(n)))
        /\ n' = n + 1 /\ UNCHANGED <<pc, sub>>
     \/ /\ ~SubsDone(sub, seg) /\ Room /\ n = PerSub(seg)
        /\ sub' = sub + 1 /\ n' = 0 /\ UNCHANGED <<pc, out>>
  /\ UNCHANGED seg

Next == Reject \/ Tiny \/ Begin \/ StepV4 \/ StepFlat \/ StepSub
Spec == Init /\ [][Next]_vars

-----------------------------------------------------------------------------
(* The texts of the addresses.                                             *)

\* suffixV6: how many groups follow the "::".
TailGroups(bits) == IF bits <= 16 THEN 1 ELSE IF bits <= 32 THEN 2 ELSE IF bits <= 48 THEN 3 ELSE 4
GroupsOfText(s)  == IF Split(s) THEN s.prefix \div 16 + 1 + TailGroups(64)
                    ELSE s.groups + TailGroups(HostBits(s))

\* The address parser of the Rust standard library: "::" stands for at
\* least one group of zeros.
Parses(s) == s.v6 => GroupsOfText(s) <= 7

-----------------------------------------------------------------------------
(* Properties.                                                             *)

Addresses == [sub: Nat, off: Nat]

\* The variables have their types.
TypeOK == /\ seg \in Segments /\ pc \in {"start", "v4", "flat", "sub", "done"}
          /\ n \in Nat /\ sub \in Nat /\ (Split(seg) => sub <= Subs(seg))
          /\ out \in Seq(Addresses)

\* Every address is of the segment, and in IPv4 neither the network nor the
\* broadcast address of a segment that has them (IpList.kt:93-97).
InSegment == \A i \in 1..Len(out) :
  /\ Split(seg) => out[i].sub < Subs(seg)
  /\ seg.v6 /\ ~Split(seg) => out[i].off < Total(seg)
  /\ ~seg.v6 => out[i].off < Total(seg)
                /\ (Total(seg) > 2 => out[i].off > 0 /\ out[i].off < Total(seg) - 1)

\* No address is listed twice, whatever the step rounds to: a step of zero
\* would also keep expandV4 in its loop for ever (IpList.kt:94, 114, 155).
NoRepeat == \A i, j \in 1..Len(out) : out[i] = out[j] => i = j

\* A segment of two addresses or one is listed outright, whatever the cap; of
\* the others the loops see so many, from the first on, a stride apart.
Small(s)  == ~s.v6 /\ Total(s) <= 2
Size(s)   == IF s.v6 \/ Small(s) THEN Total(s) ELSE Usable(s)
First(s)  == IF s.v6 THEN 0 ELSE 1
Stride(s) == IF Size(s) > s.max THEN Size(s) \div s.max ELSE 1

\* The IPv4 segments that break "at most this many of a segment" (IpList.kt:51):
\* expandV4 has the cap in its step alone, which is rounded down.
Overfull(s) == ~s.v6 /\ Size(s) > s.max /\ (Small(s) \/ Size(s) % s.max # 0)

\* The cap is kept but by those, which exceed it and at most double it.
CapKept ==
  /\ Len(out) > seg.max => Overfull(seg)
  /\ pc = "done" /\ Accepted(seg) /\ Overfull(seg) => Len(out) > seg.max
  /\ Len(out) - seg.max <= seg.max

\* An unsplit segment gives as many addresses as the cap, or all it has.
Enough == pc = "done" /\ Accepted(seg) /\ ~Split(seg) => Len(out) >= seg.max \/ Len(out) >= Size(seg)

\* The samples of an unsplit segment are evenly spread (IpList.kt:60): they
\* stand a stride apart and leave out less than a stride at the end; in IPv6,
\* where the loop stops at the cap, what the division leaves over besides.
Even == Accepted(seg) /\ ~Split(seg) /\ ~Small(seg) =>
  /\ \A i \in 1..Len(out) : out[i] = Address(0, First(seg) + (i - 1) * Stride(seg))
  /\ pc = "done" =>
       Len(out) * Stride(seg) >= Size(seg) - (IF seg.v6 /\ Size(seg) > seg.max THEN Size(seg) % seg.max ELSE 0)

\* The sub-segments of a split one get the same suffixes, as many each as the
\* cap allows; not so when there are more of them than the cap: then the
\* first get one and the others none, and the sample is not even.
EvenSplit == Accepted(seg) /\ Split(seg) =>
  /\ \A i \in 1..Len(out) : out[i] = Address((i - 1) \div PerSub(seg), Suffix((i - 1) % PerSub(seg)))
  /\ pc = "done" =>
       Len(out) = IF seg.max < Subs(seg) THEN seg.max ELSE Subs(seg) * PerSub(seg)

\* The sample of a segment keeps to its cap and is evenly spread, "at most
\* this many of a segment" and "evenly when maxHosts limits" (IpList.kt:51, 60),
\* but where Overfull, the remainder in Even and the first case of EvenSplit say.
SampleSound == CapKept /\ Enough /\ Even /\ EvenSplit

\* What the loops have still to do, at most.
Samples(s) == Subs(s) * (PerSub(s) + 1)
Left == CASE pc = "start" -> IF ~Accepted(seg) THEN 1
                             ELSE IF Split(seg) THEN Samples(seg) + PerSub(seg) + 2
                             ELSE IF n < Total(seg) THEN Total(seg) - n + 2 ELSE 2
          [] pc = "v4"    -> IF n < Total(seg) - 1 THEN Total(seg) - n ELSE 1
          [] pc = "flat"  -> IF n < Total(seg) THEN Total(seg) - n + 1 ELSE 1
          [] pc = "sub"   -> (Subs(seg) - sub) * (PerSub(seg) + 1) + PerSub(seg) - n + 1
          [] pc = "done"  -> 0

\* Every step of every loop leaves less to do, so expandCidr returns, whatever
\* the widths and the cap (IpList.kt:97, 118, 148).
Dwindles == [][Left' < Left /\ Left' \in Nat]_vars

-----------------------------------------------------------------------------
(* What the comments say and the code does not keep.                       *)

\* "IPv6 expansion: /112 and /64 are supported" (IpList.kt:106): the native
\* side can parse the addresses.
AddressesParse == out # <<>> => Parses(seg)
=============================================================================
