-------------------------- MODULE CidrExpandProofs --------------------------
(***************************************************************************)
(* Theorems about CidrExpand, for every segment and every cap: the widths  *)
(* TLC cannot count, 31 to 64 host bits, are among them.                   *)
(***************************************************************************)
EXTENDS CidrExpand, SequenceTheorems, TLAPS

-----------------------------------------------------------------------------
(* Sizes and steps.                                                        *)

LEMMA SegmentTypes ==
  ASSUME NEW s \in Segments
  PROVE  s.v6 \in BOOLEAN /\ s.prefix \in Nat /\ s.max \in Nat \ {0}
BY SegmentsAssumption

LEMMA TotalType == ASSUME NEW s \in Segments PROVE Total(s) \in Int
<1>1. HostBits(s) \in Int BY SegmentTypes DEF HostBits
<1>2. CASE HostBits(s) >= 63 BY <1>2 DEF Total, LongMax
<1>3. CASE ~(HostBits(s) >= 63) BY <1>1, <1>3 DEF Total
<1> QED BY <1>2, <1>3

\* A loop always advances (expandV4:94, expandV6:114).
LEMMA StepPositive ==
  ASSUME NEW size \in Int, NEW max \in Nat \ {0}
  PROVE  /\ StepOf(size, max) \in Nat \ {0}
         /\ size > max => StepOf(size, max) * max <= size
<1>1. CASE size > max BY <1>1 DEF StepOf
<1>2. CASE ~(size > max) BY <1>2 DEF StepOf
<1> QED BY <1>1, <1>2

Power(k) == 2^k

LEMMA PowersOfTwo ==
  /\ Power(1) = 2 /\ Power(2) = 4 /\ Power(3) = 8 /\ Power(4) = 16 /\ Power(5) = 32
  /\ Power(6) = 64 /\ Power(7) = 128 /\ Power(8) = 256 /\ Power(9) = 512 /\ Power(10) = 1024
  /\ Power(11) = 2048 /\ Power(12) = 4096 /\ Power(13) = 8192 /\ Power(14) = 16384
  /\ Power(15) = 32768 /\ Power(16) = 65536
BY SMT DEF Power

LEMMA StepCancels ==
  ASSUME NEW k \in Nat \ {0}, NEW a \in Nat, NEW b \in Nat, k * a <= b * k
  PROVE  a <= b
<1> SUFFICES ASSUME a > b PROVE FALSE OBVIOUS
<1>1. a >= b + 1 OBVIOUS
<1>2. k * a >= k * (b + 1) BY <1>1
<1> QED BY <1>2

LEMMA SubsType == ASSUME NEW s \in Segments PROVE Subs(s) \in Nat \ {0}
<1> DEFINE r == s.prefix % 16
<1>1. r \in 0..15 BY SegmentTypes
<1> DEFINE e == 16 - r
<1>2. e \in 1..16 BY <1>1
<1> HIDE DEF e
<1>3. Power(e) \in Nat \ {0} BY <1>2, PowersOfTwo, SMT
<1> QED BY <1>3 DEF Subs, Power, e

LEMMA PerSubType == ASSUME NEW s \in Segments PROVE PerSub(s) \in Nat \ {0}
<1>1. CASE s.max < Subs(s) BY <1>1 DEF PerSub
<1>2. CASE ~(s.max < Subs(s))
  <2>1. s.max \in Nat \ {0} /\ Subs(s) \in Nat \ {0} BY SegmentTypes, SubsType
  <2> HIDE DEF Subs
  <2>2. s.max \div Subs(s) \in Nat \ {0} BY <1>2, <2>1
  <2> QED BY <1>2, <2>2 DEF PerSub
<1> QED BY <1>1, <1>2

\* The samples of a sub-segment are distinct: the table repeats no value and
\* the arithmetic sequence beyond it meets none (expandV6:143-146,155).
LEMMA SuffixInjective ==
  ASSUME NEW i \in Nat, NEW j \in Nat, i # j
  PROVE  Suffix(i) \in Nat /\ Suffix(i) # Suffix(j)
<1>1. CASE i < 16 /\ j < 16 BY <1>1, Z3 DEF Suffix, SuffixTable
<1>2. CASE i < 16 /\ j >= 16 BY <1>2, Z3 DEF Suffix, SuffixTable
<1>3. CASE i >= 16 /\ j < 16 BY <1>3, Z3 DEF Suffix, SuffixTable
<1>4. CASE i >= 16 /\ j >= 16 BY <1>4, Z3 DEF Suffix, SuffixTable
<1> QED BY <1>1, <1>2, <1>3, <1>4

\* Appending an element with a new value keeps a sequence free of repeats.
LEMMA AppendFacts ==
  ASSUME NEW S, NEW q \in Seq(S), NEW e \in S
  PROVE  /\ Append(q, e) \in Seq(S) /\ Len(Append(q, e)) = Len(q) + 1
         /\ \A i \in 1..Len(q) : Append(q, e)[i] = q[i]
         /\ Append(q, e)[Len(q) + 1] = e
OBVIOUS

-----------------------------------------------------------------------------
(* The inductive invariant.                                                *)

AtStart == pc = "start" => out = <<>> /\ n = 0 /\ sub = 0

\* The n-th address of expandV4 stands n - 1 steps from the first host.
AtV4 == pc = "v4" =>
  /\ ~seg.v6 /\ Total(seg) > 2 /\ n >= 1
  /\ n = 1 + Len(out) * StepOf(Usable(seg), seg.max)
  /\ Usable(seg) <= seg.max => n <= Total(seg) - 1
  /\ \A i \in 1..Len(out) : out[i].off < n

AtFlat == pc = "flat" =>
  /\ seg.v6 /\ ~Split(seg)
  /\ \A i \in 1..Len(out) : out[i].sub = 0 /\ out[i].off < n

\* What the loops over sub-segments have behind them: all of the earlier
\* sub-segments, and n suffixes of this one.
AtSub == pc = "sub" =>
  /\ Split(seg) /\ n <= PerSub(seg) /\ (sub = Subs(seg) => n = 0)
  /\ \A i \in 1..Len(out) :
       \/ out[i].sub < sub
       \/ out[i].sub = sub /\ \E k \in 0..(n - 1) : out[i].off = Suffix(k)

\* The loops of expandV6 look at the cap before every address.
CapV6 == seg.v6 => Len(out) <= seg.max

CidrInv == TypeOK /\ AtStart /\ AtV4 /\ AtFlat /\ AtSub
           /\ InSegment /\ NoRepeat /\ CapV6

LEMMA InitInv == Init => CidrInv
<1> SUFFICES ASSUME Init PROVE CidrInv OBVIOUS
<1>1. seg.max \in Nat /\ Subs(seg) \in Nat BY SegmentTypes, SubsType DEF Init
<1> QED
  BY <1>1 DEF Init, CidrInv, TypeOK, AtStart, AtV4, AtFlat, AtSub, InSegment, NoRepeat,
     CapV6, Addresses

\* What is known of the sizes in a reachable state.
LEMMA SizeFacts ==
  ASSUME TypeOK
  PROVE  /\ Total(seg) \in Int /\ seg.max \in Nat \ {0} /\ seg.v6 \in BOOLEAN
         /\ Subs(seg) \in Nat \ {0} /\ PerSub(seg) \in Nat \ {0}
BY TotalType, SubsType, PerSubType, SegmentTypes DEF TypeOK

LEMMA RejectInv == CidrInv /\ Reject => CidrInv'
BY DEF Reject, CidrInv, TypeOK, AtStart, AtV4, AtFlat, AtSub, InSegment, NoRepeat,
   CapV6, Split, Accepted, Total, Usable, HostBits, Subs, PerSub

\* The list expandV4 returns outright.
LEMMA TinyFacts ==
  ASSUME NEW t \in Int, t <= 2, NEW q, q = [i \in 1..t |-> Address(0, i - 1)]
  PROVE  /\ q \in Seq(Addresses) /\ 1..Len(q) = 1..t
         /\ \A i \in 1..t : q[i].off = i - 1 /\ q[i].sub = 0
<1>1. \A i \in 1..t : q[i] = [sub |-> 0, off |-> i - 1] BY DEF Address
<1>2. q \in [1..t -> Addresses]
  <2> SUFFICES ASSUME NEW i \in 1..t PROVE Address(0, i - 1) \in Addresses OBVIOUS
  <2>1. i - 1 \in Nat OBVIOUS
  <2> QED BY <2>1 DEF Address, Addresses
<1>3. PICK k \in Nat : 1..k = 1..t
  <2>1. CASE t < 1
    <3>1. 1..0 = 1..t BY <2>1
    <3> QED BY <3>1
  <2>2. CASE t >= 1
    <3>1. t \in Nat BY <2>2
    <3> QED BY <3>1
  <2> QED BY <2>1, <2>2
<1>4. q \in Seq(Addresses) BY <1>2, <1>3, SeqDef
<1>5. 1..Len(q) = 1..t BY <1>2, <1>4, LenProperties
<1>6. ASSUME NEW i \in 1..t PROVE q[i].off = i - 1 /\ q[i].sub = 0
  <2>1. q[i] = [sub |-> 0, off |-> i - 1] BY <1>1
  <2> QED BY <2>1
<1> QED BY <1>4, <1>5, <1>6

LEMMA TinyInv == CidrInv /\ Tiny => CidrInv'
<1> SUFFICES ASSUME CidrInv, Tiny PROVE CidrInv' OBVIOUS
<1> USE DEF CidrInv
<1>1. TypeOK /\ Total(seg) \in Int /\ Total(seg) <= 2 /\ ~seg.v6 /\ seg' = seg /\ pc' = "done"
  BY SizeFacts DEF Tiny
<1>2. out' = [i \in 1..Total(seg) |-> Address(0, i - 1)] BY DEF Tiny
<1> DEFINE t == Total(seg)
<1> HIDE DEF t
<1>3. /\ out' \in Seq(Addresses) /\ 1..Len(out') = 1..t
      /\ \A i \in 1..t : out'[i].off = i - 1 /\ out'[i].sub = 0
  BY <1>1, <1>2, TinyFacts DEF t
<1>4. TypeOK' BY <1>1, <1>3 DEF TypeOK, Tiny, Split
<1>5. Total(seg') = t /\ t \in Int /\ t <= 2 /\ ~seg'.v6 BY <1>1 DEF t
<1>6. InSegment'
  <2>1. \A i \in 1..Len(out') : out'[i].off < t BY <1>3, <1>5
  <2> QED BY <1>5, <2>1 DEF InSegment, Split
<1>7. NoRepeat'
  <2>1. \A i, j \in 1..t : out'[i] = out'[j] => i - 1 = j - 1 BY <1>3
  <2> QED BY <1>3, <1>5, <2>1 DEF NoRepeat
<1>8. CapV6' /\ AtStart' /\ AtV4' /\ AtFlat' /\ AtSub'
  BY <1>1 DEF CapV6, AtStart, AtV4, AtFlat, AtSub, Total, HostBits
<1> QED BY <1>4, <1>6, <1>7, <1>8

LEMMA BeginInv == CidrInv /\ Begin => CidrInv'
<1> SUFFICES ASSUME CidrInv, Begin PROVE CidrInv' OBVIOUS
<1> USE DEF CidrInv
<1>1. /\ Total(seg) \in Int /\ seg.max \in Nat \ {0} /\ Subs(seg) \in Nat \ {0}
      /\ PerSub(seg) \in Nat \ {0}
  BY SizeFacts
<1>2. out = <<>> /\ out' = out /\ seg' = seg /\ sub = 0 /\ sub' = 0 BY DEF Begin, AtStart
<1>3. Len(out) = 0 /\ pc' \in {"v4", "flat", "sub"} BY <1>2 DEF Begin
<1>4. TypeOK' BY DEF TypeOK, Begin, BeginV4, Split, Subs, HostBits
<1>5. AtV4'
  <2> SUFFICES ASSUME pc' = "v4" PROVE AtV4' BY DEF AtV4
  <2>1. ~seg.v6 /\ Total(seg) > 2 /\ n' = 1 BY DEF Begin, BeginV4
  <2>2. StepOf(Usable(seg), seg.max) \in Nat BY <1>1, StepPositive DEF Usable
  <2>3. Len(out) * StepOf(Usable(seg), seg.max) = 0 BY <1>3, <2>2
  <2> HIDE DEF CidrInv
  <2> QED BY <1>1, <1>2, <1>3, <2>1, <2>3 DEF AtV4
<1>6. AtFlat'
  <2> SUFFICES ASSUME pc' = "flat" PROVE AtFlat' BY DEF AtFlat
  <2>1. seg.v6 /\ ~Split(seg) /\ n' = 0 BY DEF Begin
  <2> QED BY <1>1, <1>2, <1>3, <2>1 DEF AtFlat
<1>7. AtSub'
  <2> SUFFICES ASSUME pc' = "sub" PROVE AtSub' BY DEF AtSub
  <2>1. Split(seg) /\ n' = 0 BY DEF Begin
  <2> QED BY <1>1, <1>2, <1>3, <2>1 DEF AtSub
<1>8. InSegment' /\ NoRepeat' /\ CapV6' /\ AtStart'
  BY <1>1, <1>2, <1>3 DEF InSegment, NoRepeat, CapV6, AtStart
<1> QED BY <1>4, <1>5, <1>6, <1>7, <1>8

LEMMA StepV4Inv == CidrInv /\ StepV4 => CidrInv'
<1> SUFFICES ASSUME CidrInv, StepV4 PROVE CidrInv' OBVIOUS
<1> DEFINE t == Total(seg)  step == StepOf(Usable(seg), seg.max)
<1>1. /\ t \in Int /\ t > 2 /\ seg.max \in Nat \ {0} /\ ~seg.v6 /\ seg' = seg /\ sub' = sub
      /\ n \in Nat /\ n >= 1 /\ out \in Seq(Addresses) /\ Usable(seg) = t - 2
      /\ TypeOK
  BY SizeFacts DEF CidrInv, TypeOK, AtV4, StepV4, Usable
<1>2. step \in Nat \ {0} /\ (t - 2 > seg.max => step * seg.max <= t - 2)
  <2>1. /\ StepOf(t - 2, seg.max) \in Nat \ {0}
        /\ t - 2 > seg.max => StepOf(t - 2, seg.max) * seg.max <= t - 2
    <3>1. t - 2 \in Int BY <1>1
    <3> HIDE DEF t
    <3> QED BY <1>1, <3>1, StepPositive
  <2> QED BY <1>1, <2>1
<1>3. /\ n = 1 + Len(out) * step
      /\ t - 2 <= seg.max => n <= t - 1
      /\ t - 2 <= seg.max => step = 1
      /\ \A i \in 1..Len(out) : out[i].off < n
  BY <1>1 DEF CidrInv, AtV4, StepV4, StepOf
<1>4. Total(seg') = t /\ Usable(seg') = t - 2 /\ StepOf(Usable(seg'), seg'.max) = step /\ ~Split(seg')
  BY <1>1 DEF Split
<1>5. CASE n < t - 1
  <2>1. out' = Append(out, Address(0, n)) /\ n' = n + step /\ pc' = "v4"
    BY <1>5 DEF StepV4
  <2>2. Address(0, n) \in Addresses /\ Address(0, n).off = n BY <1>1 DEF Address, Addresses
  <2>3. /\ out' \in Seq(Addresses) /\ Len(out') = Len(out) + 1 /\ Len(out) \in Nat
        /\ \A i \in 1..Len(out) : out'[i] = out[i]
        /\ out'[Len(out) + 1].off = n
    BY <1>1, <2>1, <2>2, AppendFacts
  <2> HIDE DEF t, step
  <2>4. TypeOK' BY <1>1, <1>2, <1>4, <2>1, <2>3 DEF TypeOK
  <2>5. AtV4'
    <3>1. n' = 1 + Len(out') * step BY <1>1, <1>2, <1>3, <2>1, <2>3
    <3>2. \A i \in 1..Len(out') : out'[i].off < n'
      <4> SUFFICES ASSUME NEW i \in 1..Len(out') PROVE out'[i].off < n' OBVIOUS
      <4>1. CASE i = Len(out) + 1 BY <1>1, <1>2, <2>1, <2>3, <4>1
      <4>2. CASE i \in 1..Len(out)
        <5>1. out[i] \in Addresses BY <1>1, <4>2, ElementOfSeq
        <5>2. out[i].off < n /\ out[i].off \in Nat BY <1>3, <4>2, <5>1 DEF Addresses
        <5> QED BY <1>1, <1>2, <2>1, <2>3, <4>2, <5>2
      <4> QED BY <2>3, <4>1, <4>2
    <3>3. t - 2 <= seg.max => n' <= t - 1 BY <1>1, <1>3, <1>5, <2>1
    <3>4. n' >= 1 BY <1>1, <1>2, <2>1
    <3> QED BY <1>1, <1>4, <3>1, <3>2, <3>3, <3>4 DEF AtV4
  <2>6. InSegment'
    <3> SUFFICES ASSUME NEW i \in 1..Len(out') PROVE out'[i].off < t - 1 /\ out'[i].off > 0 /\ out'[i].off < t
      BY <1>1, <1>4 DEF InSegment
    <3>1. CASE i = Len(out) + 1 BY <1>1, <1>5, <2>3, <3>1
    <3>2. CASE i \in 1..Len(out)
      <4>1. out[i].off > 0 /\ out[i].off < t - 1 /\ out[i].off < t
        BY <1>1, <3>2 DEF CidrInv, InSegment, t
      <4> QED BY <2>3, <3>2, <4>1
    <3> QED BY <2>3, <3>1, <3>2
  <2>7. NoRepeat'
    <3>1. \A i \in 1..Len(out) : out'[i] # out'[Len(out) + 1]
      <4> SUFFICES ASSUME NEW i \in 1..Len(out) PROVE out[i].off # n BY <2>3
      <4> QED BY <1>1, <1>3 DEF Addresses
    <3> QED BY <2>3, <3>1 DEF CidrInv, NoRepeat
  <2> QED BY <1>1, <2>1, <2>4, <2>5, <2>6, <2>7
        DEF CidrInv, AtStart, AtFlat, AtSub, CapV6
<1>6. CASE ~(n < t - 1)
  <2>1. out' = out /\ n' = n /\ pc' = "done" BY <1>6 DEF StepV4
  <2>2. TypeOK' BY <1>1, <1>4, <2>1 DEF TypeOK
  <2> QED BY <1>1, <2>1, <2>2
       DEF CidrInv, AtStart, AtV4, AtFlat, AtSub, CapV6, InSegment, NoRepeat, Split, Subs, Total, HostBits
<1> QED BY <1>5, <1>6

LEMMA StepFlatInv == CidrInv /\ StepFlat => CidrInv'
<1> SUFFICES ASSUME CidrInv, StepFlat PROVE CidrInv' OBVIOUS
<1>1. /\ Total(seg) \in Int /\ seg.max \in Nat \ {0} /\ seg.v6 /\ ~Split(seg)
      /\ n \in Nat /\ out \in Seq(Addresses) /\ seg' = seg /\ sub' = sub /\ TypeOK
      /\ \A i \in 1..Len(out) : out[i].sub = 0 /\ out[i].off < n
      /\ Len(out) <= seg.max
  BY SizeFacts DEF CidrInv, TypeOK, AtFlat, StepFlat, CapV6
<1>2. CASE n < Total(seg) /\ Room
  <2> DEFINE step == StepOf(Total(seg), seg.max)
  <2>1. step \in Nat \ {0} BY <1>1, StepPositive
  <2>2. out' = Append(out, Address(0, n)) /\ n' = n + step /\ pc' = "flat"
    BY <1>2 DEF StepFlat
  <2>3. Address(0, n) \in Addresses /\ Address(0, n).off = n /\ Address(0, n).sub = 0
    BY <1>1 DEF Address, Addresses
  <2>4. /\ out' \in Seq(Addresses) /\ Len(out') = Len(out) + 1 /\ Len(out) \in Nat
        /\ \A i \in 1..Len(out) : out'[i] = out[i]
        /\ out'[Len(out) + 1].off = n /\ out'[Len(out) + 1].sub = 0
    BY <1>1, <2>2, <2>3, AppendFacts
  <2> HIDE DEF step
  <2>5. TypeOK' BY <1>1, <2>1, <2>2, <2>4 DEF TypeOK
  <2>6. ASSUME NEW i \in 1..Len(out')
        PROVE  out'[i].sub = 0 /\ out'[i].off < n' /\ out'[i].off < Total(seg)
    <3>1. CASE i = Len(out) + 1 BY <1>1, <1>2, <2>1, <2>2, <2>4, <3>1
    <3>2. CASE i \in 1..Len(out)
      <4>1. out[i] \in Addresses BY <1>1, <3>2, ElementOfSeq
      <4>2. out[i].sub = 0 /\ out[i].off < n /\ out[i].off \in Nat BY <1>1, <3>2, <4>1 DEF Addresses
      <4> QED BY <1>1, <1>2, <2>1, <2>2, <2>4, <3>2, <4>2
    <3> QED BY <2>4, <3>1, <3>2
  <2>7. AtFlat' BY <1>1, <2>6 DEF AtFlat, Split, HostBits
  <2>8. InSegment' BY <1>1, <2>6 DEF InSegment, Split, HostBits
  <2>9. NoRepeat'
    <3>1. \A i \in 1..Len(out) : out'[i] # out'[Len(out) + 1]
      <4> SUFFICES ASSUME NEW i \in 1..Len(out) PROVE out[i].off # n BY <2>4
      <4> QED BY <1>1
    <3> QED BY <2>4, <3>1 DEF CidrInv, NoRepeat
  <2>10. CapV6' BY <1>1, <1>2, <2>4 DEF CapV6, Room
  <2> QED BY <1>1, <2>2, <2>5, <2>7, <2>8, <2>9, <2>10 DEF CidrInv, AtStart, AtV4, AtSub
<1>3. CASE ~(n < Total(seg) /\ Room)
  <2>1. out' = out /\ n' = n /\ pc' = "done" BY <1>3 DEF StepFlat
  <2>2. TypeOK' BY <1>1, <2>1 DEF TypeOK
  <2> QED BY <1>1, <2>1, <2>2
       DEF CidrInv, AtStart, AtV4, AtFlat, AtSub, CapV6, InSegment, NoRepeat, Split, Subs, Total, HostBits
<1> QED BY <1>2, <1>3

LEMMA StepSubInv == CidrInv /\ StepSub => CidrInv'
<1> SUFFICES ASSUME CidrInv, StepSub PROVE CidrInv' OBVIOUS
<1>1. /\ Subs(seg) \in Nat \ {0} /\ PerSub(seg) \in Nat \ {0} /\ seg.max \in Nat \ {0}
      /\ Split(seg) /\ seg.v6 /\ n \in Nat /\ sub \in Nat /\ sub <= Subs(seg) /\ n <= PerSub(seg)
      /\ out \in Seq(Addresses) /\ seg' = seg /\ TypeOK /\ Len(out) <= seg.max /\ pc = "sub"
  BY SizeFacts DEF CidrInv, TypeOK, AtSub, StepSub, CapV6, Split
<1>2. \A i \in 1..Len(out) :
        \/ out[i].sub < sub
        \/ out[i].sub = sub /\ \E k \in 0..(n - 1) : out[i].off = Suffix(k)
  BY <1>1 DEF CidrInv, AtSub
<1>3. Subs(seg') = Subs(seg) /\ PerSub(seg') = PerSub(seg) /\ Split(seg') BY <1>1
<1>4. CASE (SubsDone(sub, seg) \/ ~Room) /\ pc' = "done" /\ UNCHANGED <<n, sub, out>>
  <2>1. TypeOK' BY <1>1, <1>4 DEF TypeOK
  <2> QED BY <1>1, <1>4, <2>1
       DEF CidrInv, AtStart, AtV4, AtFlat, AtSub, CapV6, InSegment, NoRepeat
<1>5. CASE /\ ~SubsDone(sub, seg) /\ Room /\ n < PerSub(seg)
           /\ out' = Append(out, Address(sub, Suffix(n)))
           /\ n' = n + 1 /\ UNCHANGED <<pc, sub>>
  <2>1. sub < Subs(seg) BY <1>1, <1>5 DEF SubsDone
  <2>2. Suffix(n) \in Nat BY <1>1, SuffixInjective, n # n + 1
  <2>3. Address(sub, Suffix(n)) \in Addresses /\ Address(sub, Suffix(n)).off = Suffix(n)
        /\ Address(sub, Suffix(n)).sub = sub
    BY <1>1, <2>2 DEF Address, Addresses
  <2>4. /\ out' \in Seq(Addresses) /\ Len(out') = Len(out) + 1 /\ Len(out) \in Nat
        /\ \A i \in 1..Len(out) : out'[i] = out[i]
        /\ out'[Len(out) + 1].off = Suffix(n) /\ out'[Len(out) + 1].sub = sub
    BY <1>1, <1>5, <2>3, AppendFacts
  <2>5. TypeOK' BY <1>1, <1>3, <1>5, <2>4 DEF TypeOK
  <2>6. ASSUME NEW i \in 1..Len(out')
        PROVE  /\ \/ out'[i].sub < sub
                  \/ out'[i].sub = sub /\ \E k \in 0..n : out'[i].off = Suffix(k)
               /\ out'[i].sub < Subs(seg)
    <3>1. CASE i = Len(out) + 1 BY <1>1, <2>1, <2>4, <3>1
    <3>2. CASE i \in 1..Len(out)
      <4>1. out[i] \in Addresses BY <1>1, <3>2, ElementOfSeq
      <4>2. out[i].sub \in Nat /\ out'[i] = out[i] BY <2>4, <3>2, <4>1 DEF Addresses
      <4>3. 0..(n - 1) \subseteq 0..n BY <1>1
      <4>4. CASE out[i].sub < sub BY <1>1, <2>1, <4>2, <4>4
      <4>5. CASE out[i].sub = sub /\ \E k \in 0..(n - 1) : out[i].off = Suffix(k)
        BY <2>1, <4>2, <4>3, <4>5
      <4> QED BY <1>2, <3>2, <4>4, <4>5
    <3> QED BY <2>4, <3>1, <3>2
  <2>7. AtSub'
    <3>1. n' - 1 = n /\ n' <= PerSub(seg) /\ sub' = sub /\ sub # Subs(seg) BY <1>1, <1>5, <2>1
    <3> QED BY <1>1, <1>3, <2>6, <3>1 DEF AtSub
  <2>8. InSegment' BY <1>1, <1>3, <2>6 DEF InSegment
  <2>9. NoRepeat'
    <3>1. ASSUME NEW i \in 1..Len(out) PROVE out[i] # out'[Len(out) + 1]
      <4>1. CASE out[i].sub < sub BY <1>1, <2>4, <4>1
      <4>2. CASE out[i].sub = sub /\ \E k \in 0..(n - 1) : out[i].off = Suffix(k)
        <5>1. PICK k \in 0..(n - 1) : out[i].off = Suffix(k) BY <4>2
        <5>2. k \in Nat /\ k # n BY <1>1, <5>1
        <5>3. Suffix(k) # Suffix(n) BY <1>1, <5>2, SuffixInjective
        <5> QED BY <2>4, <5>1, <5>3
      <4> QED BY <1>2, <4>1, <4>2
    <3> QED BY <2>4, <3>1 DEF CidrInv, NoRepeat
  <2>10. CapV6' BY <1>1, <1>5, <2>4 DEF CapV6, Room
  <2> QED BY <1>1, <1>5, <2>5, <2>7, <2>8, <2>9, <2>10 DEF CidrInv, AtStart, AtV4, AtFlat
<1>6. CASE /\ ~SubsDone(sub, seg) /\ Room /\ n = PerSub(seg)
           /\ sub' = sub + 1 /\ n' = 0 /\ UNCHANGED <<pc, out>>
  <2>1. sub' <= Subs(seg) BY <1>1, <1>6 DEF SubsDone
  <2>2. TypeOK' BY <1>1, <1>3, <1>6, <2>1 DEF TypeOK
  <2>3. AtSub'
    <3>1. ASSUME NEW i \in 1..Len(out) PROVE out[i].sub < sub'
      <4>1. out[i] \in Addresses BY <1>1, ElementOfSeq
      <4>2. out[i].sub \in Nat /\ sub \in Nat /\ sub' = sub + 1 BY <1>1, <1>6, <4>1 DEF Addresses
      <4>3. out[i].sub < sub \/ out[i].sub = sub BY <1>2
      <4> QED BY <4>2, <4>3
    <3> QED BY <1>1, <1>3, <1>6, <3>1 DEF AtSub
  <2> QED BY <1>1, <1>3, <1>6, <2>2, <2>3
       DEF CidrInv, AtStart, AtV4, AtFlat, CapV6, InSegment, NoRepeat
<1> QED BY <1>4, <1>5, <1>6 DEF StepSub

-----------------------------------------------------------------------------
(* The spread of the samples.                                              *)

\* How far a loop has come tells how many samples it has taken.
Progress ==
  /\ pc \in {"v4", "flat", "sub"} => Accepted(seg)
  /\ pc = "flat" => n = Len(out) * Stride(seg)
  /\ pc = "sub"  => Len(out) = sub * PerSub(seg) + n

\* A size that exceeds the cap is so many strides for each of the cap's
\* samples, and a remainder less than the cap.
Divided(size, max, q, r) ==
  size \in Int /\ max \in Nat \ {0} /\ q \in Nat \ {0} /\ r \in 0..(max - 1) /\ size = max * q + r

LEMMA StrideFacts ==
  ASSUME NEW size \in Int, NEW max \in Nat \ {0}, size > max,
         NEW q, q = size \div max, NEW r, r = size % max
  PROVE  Divided(size, max, q, r)
<1>1. q \in Int /\ r \in 0..(max - 1) /\ size = max * q + r OBVIOUS
<1>2. ASSUME q <= 0 PROVE FALSE
  <2>1. max * q <= max * 0 BY <1>1, <1>2
  <2> QED BY <1>1, <2>1
<1>3. q \in Nat \ {0} BY <1>1, <1>2
<1> QED BY <1>1, <1>3 DEF Divided

\* So many strides into the size, so many of the cap.
LEMMA StrideCount ==
  ASSUME NEW len \in Nat, NEW size, NEW max, NEW q, NEW r, Divided(size, max, q, r)
  PROVE  /\ len * q < size => len + 1 - max <= max
         /\ len * q < size /\ r = 0 => len + 1 <= max
         /\ len * q >= size => len >= max
         /\ len * q >= size /\ r # 0 => len > max
<1> USE DEF Divided
<1>1. max * q \in Nat /\ len * q \in Nat OBVIOUS
<1>2. ASSUME len * q < size, len + 1 - max > max PROVE FALSE
  <2>1. len >= max + max BY <1>2
  <2>2. len * q >= (max + max) * q BY <2>1
  <2>3. (max + max) * q = max * q + max * q OBVIOUS
  <2>4. max * q >= max OBVIOUS
  <2> QED BY <1>1, <1>2, <2>2, <2>3, <2>4
<1>3. ASSUME len * q < size, r = 0, len + 1 > max PROVE FALSE
  <2>1. len * q >= max * q BY <1>3
  <2> QED BY <1>1, <1>3, <2>1
<1>4. ASSUME len * q >= size, len < max PROVE FALSE
  <2>1. (len + 1) * q <= max * q BY <1>4
  <2>2. (len + 1) * q = len * q + q OBVIOUS
  <2> QED BY <1>1, <1>4, <2>1, <2>2
<1>5. ASSUME len * q >= size, r # 0, len <= max PROVE FALSE
  <2>1. len * q <= max * q BY <1>5
  <2> QED BY <1>1, <1>5, <2>1
<1> QED BY <1>2, <1>3, <1>4, <1>5

\* The samples stand a stride apart; a new one a stride beyond the last
\* keeps it so.
Spaced(q, first, stride) == \A i \in 1..Len(q) : q[i] = Address(0, first + (i - 1) * stride)

LEMMA SpacedAppend ==
  ASSUME NEW q \in Seq(Addresses), NEW first \in Nat, NEW stride \in Nat, Spaced(q, first, stride),
         NEW next, next = first + Len(q) * stride
  PROVE  LET new == Append(q, Address(0, next))
         IN Len(new) = Len(q) + 1 /\ Spaced(new, first, stride)
            /\ next + stride = first + Len(new) * stride
<1> DEFINE new == Append(q, Address(0, next))
<1>1. Len(q) \in Nat /\ Len(q) * stride \in Nat OBVIOUS
<1>2. Address(0, next) \in Addresses BY <1>1 DEF Address, Addresses
<1>3. /\ Len(new) = Len(q) + 1 /\ \A i \in 1..Len(q) : new[i] = q[i]
      /\ new[Len(q) + 1] = Address(0, next)
  BY <1>2, AppendFacts
<1>4. ASSUME NEW i \in 1..Len(new) PROVE new[i] = Address(0, first + (i - 1) * stride)
  <2>1. CASE i = Len(q) + 1
    <3>1. i - 1 = Len(q) BY <1>1, <2>1
    <3> QED BY <1>3, <2>1, <3>1
  <2>2. CASE i \in 1..Len(q) BY <1>3, <2>2 DEF Spaced
  <2> QED BY <1>1, <1>3, <2>1, <2>2
<1>5. (Len(q) + 1) * stride = Len(q) * stride + stride BY <1>1
<1>6. next + stride = first + Len(new) * stride BY <1>1, <1>3, <1>5
<1>7. Len(new) = Len(q) + 1 /\ Spaced(new, first, stride) BY <1>3, <1>4 DEF Spaced
<1> QED BY <1>6, <1>7

\* The sizes of a segment that is not split, nor given outright.
LEMMA LoopSizes ==
  ASSUME CidrInv, Progress, SampleSound, pc = "v4" \/ pc = "flat"
  PROVE  /\ Size(seg) \in Int /\ seg.max \in Nat \ {0} /\ Stride(seg) \in Nat \ {0} /\ First(seg) \in Nat
         /\ n = First(seg) + Len(out) * Stride(seg) /\ out \in Seq(Addresses)
         /\ Stride(seg) = StepOf(Size(seg), seg.max)
         /\ Spaced(out, First(seg), Stride(seg))
         /\ ~Split(seg) /\ ~Small(seg) /\ Accepted(seg)
         /\ pc = "v4" => ~seg.v6 /\ Size(seg) = Usable(seg) /\ Total(seg) = Size(seg) + 2 /\ First(seg) = 1
         /\ pc = "flat" => seg.v6 /\ Size(seg) = Total(seg) /\ First(seg) = 0 /\ Len(out) <= seg.max
<1>1. /\ Total(seg) \in Int /\ seg.max \in Nat \ {0} /\ seg.v6 \in BOOLEAN /\ out \in Seq(Addresses)
      /\ Len(out) \in Nat
  BY SizeFacts DEF CidrInv, TypeOK
<1>2. /\ ~Split(seg) /\ ~Small(seg) /\ Size(seg) \in Int
      /\ pc = "v4" => ~seg.v6 /\ Size(seg) = Usable(seg) /\ Total(seg) = Size(seg) + 2 /\ First(seg) = 1
      /\ pc = "flat" => seg.v6 /\ Size(seg) = Total(seg) /\ First(seg) = 0
  BY <1>1 DEF CidrInv, AtV4, AtFlat, Split, Small, Size, First, Usable
<1>3. Stride(seg) = StepOf(Size(seg), seg.max) BY DEF Stride, StepOf
<1>4. Stride(seg) \in Nat \ {0} BY <1>1, <1>2, <1>3, StepPositive
<1>5. n = First(seg) + Len(out) * Stride(seg)
  <2>1. CASE pc = "v4" BY <1>2, <1>3, <2>1 DEF CidrInv, AtV4
  <2>2. CASE pc = "flat"
    <3>1. Len(out) * Stride(seg) \in Nat BY <1>1, <1>4
    <3> QED BY <1>2, <2>2, <3>1 DEF Progress
  <2> QED BY <2>1, <2>2
<1>6. Spaced(out, First(seg), Stride(seg))
  BY <1>2 DEF SampleSound, Even, Progress, Spaced
<1> QED BY <1>1, <1>2, <1>3, <1>4, <1>5, <1>6 DEF CidrInv, CapV6, Progress

Sampling == Progress /\ SampleSound

LEMMA StepV4Sampling == CidrInv /\ Sampling /\ StepV4 => Sampling'
<1> SUFFICES ASSUME CidrInv, Sampling, StepV4 PROVE Sampling' OBVIOUS
<1> DEFINE size == Size(seg)  max == seg.max  q == Stride(seg)  len == Len(out)  r == size % max
<1>1. /\ size \in Int /\ max \in Nat \ {0} /\ q \in Nat \ {0} /\ n = 1 + len * q /\ out \in Seq(Addresses)
      /\ Spaced(out, 1, q)
      /\ ~Split(seg) /\ ~Small(seg) /\ ~seg.v6 /\ First(seg) = 1 /\ Total(seg) = size + 2 /\ len \in Nat
      /\ q = StepOf(Usable(seg), max) /\ size = Usable(seg) /\ seg' = seg /\ Accepted(seg)
  BY LoopSizes DEF Sampling, StepV4
<1>2. len * q \in Nat BY <1>1
<1>3. /\ size > max => Divided(size, max, q, r)
      /\ size <= max => q = 1
  <2>1. IF size > max THEN q = size \div max ELSE q = 1 BY DEF Stride
  <2>2. r = size % max OBVIOUS
  <2>3. size \in Int /\ max \in Nat \ {0} BY <1>1
  <2> HIDE DEF size, max, q, r
  <2>4. ASSUME size > max PROVE Divided(size, max, q, r)
    <3>1. q = size \div max BY <2>1, <2>4
    <3> QED BY <2>2, <2>3, <2>4, <3>1, StrideFacts
  <2> QED BY <2>1, <2>3, <2>4
<1>5. /\ Size(seg') = size /\ Stride(seg') = q /\ First(seg') = 1 /\ (Overfull(seg') <=> Overfull(seg))
      /\ (Accepted(seg') <=> Accepted(seg)) /\ (Split(seg') <=> Split(seg)) /\ (Small(seg') <=> Small(seg))
      /\ seg'.max = max /\ seg'.v6 = seg.v6
  BY <1>1
<1>4. Progress' /\ EvenSplit'
  <2>1. pc' \in {"v4", "done"} BY <1>1 DEF StepV4
  <2> HIDE DEF size, max, q, len, r
  <2> QED BY <1>1, <1>5, <2>1 DEF Progress, EvenSplit
<1>6. Overfull(seg) <=> size > max /\ r # 0 BY <1>1 DEF Overfull
<1>7. CASE n < Total(seg) - 1
  <2>1. out' = Append(out, Address(0, n)) /\ pc' = "v4" BY <1>1, <1>7 DEF StepV4
  <2>2. len * q < size BY <1>1, <1>2, <1>7
  <2> HIDE DEF size, max, q, len, r
  <2>3. Len(out') = len + 1 /\ Spaced(out', 1, q) BY <1>1, <2>1, SpacedAppend DEF len
  <2>4. len + 1 - max <= max /\ (len + 1 > max => size > max /\ r # 0)
    <3>1. CASE size > max
      <4>1. Divided(size, max, q, r) BY <1>3, <3>1
      <4>2. len + 1 - max <= max /\ (r = 0 => len + 1 <= max) BY <1>1, <2>2, <4>1, StrideCount
      <4> QED BY <1>1, <3>1, <4>2
    <3>2. CASE size <= max BY <1>1, <1>3, <2>2, <3>2
    <3> QED BY <1>1, <3>1, <3>2
  <2>5. CapKept' BY <1>1, <1>5, <1>6, <2>1, <2>3, <2>4 DEF CapKept
  <2>6. Enough' /\ Even' BY <1>5, <2>1, <2>3 DEF Enough, Even, Spaced
  <2> QED BY <1>4, <2>5, <2>6 DEF Sampling, SampleSound
<1>8. CASE ~(n < Total(seg) - 1)
  <2>1. out' = out /\ pc' = "done" BY <1>8 DEF StepV4
  <2>2. len * q >= size BY <1>1, <1>2, <1>8
  <2>3. len - max <= max /\ (len > max => Overfull(seg))
    BY <1>1 DEF Sampling, SampleSound, CapKept
  <2>7. Len(out') = len BY <2>1
  <2> HIDE DEF size, max, q, len, r
  <2>4. (len >= max \/ len >= size) /\ (Overfull(seg) => len > max)
    <3>1. CASE size > max
      <4>1. Divided(size, max, q, r) BY <1>3, <3>1
      <4>2. len >= max /\ (r # 0 => len > max) BY <1>1, <2>2, <4>1, StrideCount
      <4> QED BY <1>6, <4>2
    <3>2. CASE size <= max
      <4>1. len * 1 >= size BY <1>3, <2>2, <3>2
      <4> QED BY <1>1, <1>6, <3>2, <4>1
    <3> QED BY <1>1, <3>1, <3>2
  <2>5. CapKept' /\ Enough' BY <1>5, <2>1, <2>3, <2>4, <2>7 DEF CapKept, Enough
  <2>6. Even'
    <3>1. Spaced(out', 1, q) /\ Len(out') * q >= size - 0 BY <1>1, <2>1, <2>2, <2>7
    <3> QED BY <1>1, <1>5, <3>1 DEF Even, Spaced
  <2> QED BY <1>4, <2>5, <2>6 DEF Sampling, SampleSound
<1> QED BY <1>7, <1>8

LEMMA StepFlatSampling == CidrInv /\ Sampling /\ StepFlat => Sampling'
<1> SUFFICES ASSUME CidrInv, Sampling, StepFlat PROVE Sampling' OBVIOUS
<1> DEFINE size == Size(seg)  max == seg.max  q == Stride(seg)  len == Len(out)  r == size % max
<1>1. /\ size \in Int /\ max \in Nat \ {0} /\ q \in Nat \ {0} /\ n = 0 + len * q /\ out \in Seq(Addresses)
      /\ Spaced(out, 0, q)
      /\ ~Split(seg) /\ ~Small(seg) /\ seg.v6 /\ First(seg) = 0 /\ Total(seg) = size /\ len \in Nat
      /\ q = StepOf(Total(seg), max) /\ seg' = seg /\ len <= max /\ Accepted(seg)
  BY LoopSizes DEF Sampling, StepFlat
<1>2. len * q \in Nat BY <1>1
<1>3. /\ size > max => Divided(size, max, q, r)
      /\ size <= max => q = 1
  <2>1. IF size > max THEN q = size \div max ELSE q = 1 BY DEF Stride
  <2>2. r = size % max OBVIOUS
  <2>3. size \in Int /\ max \in Nat \ {0} BY <1>1
  <2> HIDE DEF size, max, q, r
  <2>4. ASSUME size > max PROVE Divided(size, max, q, r)
    <3>1. q = size \div max BY <2>1, <2>4
    <3> QED BY <2>2, <2>3, <2>4, <3>1, StrideFacts
  <2> QED BY <2>1, <2>3, <2>4
<1>4. /\ Size(seg') = size /\ Stride(seg') = q /\ First(seg') = 0 /\ (Overfull(seg') <=> Overfull(seg))
      /\ (Accepted(seg') <=> Accepted(seg)) /\ (Split(seg') <=> Split(seg)) /\ (Small(seg') <=> Small(seg))
      /\ seg'.max = max /\ seg'.v6 = seg.v6 /\ ~Overfull(seg)
  BY <1>1 DEF Overfull
<1>5. CASE n < Total(seg) /\ Room
  <2>1. out' = Append(out, Address(0, n)) /\ pc' = "flat" /\ n' = n + q /\ len < max
    BY <1>1, <1>5 DEF StepFlat, Room
  <2> HIDE DEF size, max, q, len, r
  <2>2. Len(out') = len + 1 /\ Spaced(out', 0, q) BY <1>1, <2>1, SpacedAppend DEF len
  <2>3. n' = Len(out') * q
    <3>1. (len + 1) * q = len * q + q BY <1>1
    <3> QED BY <1>1, <1>2, <2>1, <2>2, <3>1
  <2>4. Progress'
    <3>1. Accepted(seg') /\ n' = Len(out') * Stride(seg') BY <1>1, <1>4, <2>3
    <3> QED BY <2>1, <3>1 DEF Progress
  <2>5. CapKept'
    <3>1. ~(len + 1 > max) /\ len + 1 - max <= max BY <1>1, <2>1
    <3> QED BY <1>1, <1>4, <2>1, <2>2, <3>1 DEF CapKept
  <2>6. Enough' /\ Even' /\ EvenSplit' BY <1>1, <1>4, <2>1, <2>2 DEF Enough, Even, EvenSplit, Spaced
  <2> QED BY <2>4, <2>5, <2>6 DEF Sampling, SampleSound
<1>6. CASE ~(n < Total(seg) /\ Room)
  <2>1. out' = out /\ pc' = "done" BY <1>6 DEF StepFlat
  <2>2. len * q >= size \/ len = max BY <1>1, <1>2, <1>6 DEF Room
  <2>8. Len(out') = len BY <2>1
  <2> HIDE DEF size, max, q, len, r
  <2>3. /\ len >= max \/ len >= size
        /\ len * q >= size - (IF seg.v6 /\ size > max THEN r ELSE 0)
    <3>1. CASE size > max
      <4>1. Divided(size, max, q, r) BY <1>3, <3>1
      <4>2. len >= max BY <1>1, <2>2, <4>1, StrideCount
      <4>3. len = max BY <1>1, <4>2
      <4>4. len * q = size - r BY <4>1, <4>3 DEF Divided
      <4>5. len * q >= size - r BY <1>2, <4>4
      <4> QED BY <1>1, <3>1, <4>2, <4>5
    <3>2. CASE size <= max
      <4>1. len * 1 >= size \/ len = max BY <1>3, <2>2, <3>2
      <4>2. len * q = len BY <1>1, <1>3, <3>2
      <4>3. len >= size BY <1>1, <3>2, <4>1
      <4>4. len * q >= size - 0 BY <1>1, <4>2, <4>3
      <4>5. ~(seg.v6 /\ size > max) BY <1>1, <3>2
      <4> QED BY <4>3, <4>4, <4>5
    <3> QED BY <1>1, <3>1, <3>2
  <2>4. CapKept'
    <3>1. ~(len > max) /\ len - max <= max BY <1>1
    <3> QED BY <1>4, <2>1, <2>8, <3>1 DEF CapKept
  <2>5. Enough' BY <1>4, <2>1, <2>3, <2>8 DEF Enough
  <2>6. Even'
    <3>1. Spaced(out', 0, q) BY <1>1, <2>1
    <3> QED BY <1>4, <2>1, <2>3, <2>8, <3>1 DEF Even, Spaced, r
  <2>7. Progress' /\ EvenSplit' BY <1>1, <1>4, <2>1 DEF Progress, EvenSplit
  <2> QED BY <2>4, <2>5, <2>6, <2>7 DEF Sampling, SampleSound
<1> QED BY <1>5, <1>6

\* The quotient and the remainder of a position in the sub-segments.
Position(x, k, p, j) == k \in Nat /\ p \in Nat \ {0} /\ j \in 0..(p - 1) /\ x = k * p + j

LEMMA Positions ==
  ASSUME NEW x, NEW k, NEW p, NEW j, Position(x, k, p, j)
  PROVE  x \div p = k /\ x % p = j
<1> USE DEF Position
<1> DEFINE d == x \div p  m == x % p
<1>1. k * p \in Nat BY SMT
<1>2. d \in Int /\ m \in 0..(p - 1) /\ x = p * d + m BY <1>1
<1> HIDE DEF d, m
<1>3. p * (d - k) = j - m
  <2>1. p * (d - k) = p * d - p * k /\ p * k = k * p BY <1>2
  <2> QED BY <1>2, <2>1
<1>4. d = k
  <2>1. ASSUME d > k PROVE FALSE
    <3>1. p * (d - k) >= p * 1 BY <1>2, <2>1
    <3> QED BY <1>2, <1>3, <3>1
  <2>2. ASSUME d < k PROVE FALSE
    <3>1. p * (k - d) >= p * 1 BY <1>2, <2>2
    <3>2. p * (d - k) = -(p * (k - d)) BY <1>2
    <3> QED BY <1>2, <1>3, <3>1, <3>2
  <2> QED BY <1>2, <2>1, <2>2
<1>5. m = j
  <2>1. p * (d - k) = 0 BY <1>2, <1>4
  <2> QED BY <1>2, <1>3, <2>1
<1> QED BY <1>4, <1>5 DEF d, m

\* The sub-segments' share of the cap.
LEMMA ShareOfCap ==
  ASSUME NEW s \in Segments
  PROVE  /\ s.max < Subs(s) => PerSub(s) = 1
         /\ s.max >= Subs(s) => Subs(s) * PerSub(s) <= s.max
<1>1. s.max \in Nat \ {0} /\ Subs(s) \in Nat \ {0} BY SegmentTypes, SubsType
<1> HIDE DEF Subs
<1>2. CASE s.max < Subs(s) BY <1>1, <1>2 DEF PerSub
<1>3. CASE s.max >= Subs(s)
  <2>1. PerSub(s) = s.max \div Subs(s) BY <1>1, <1>3 DEF PerSub
  <2>2. Subs(s) * (s.max \div Subs(s)) <= s.max BY <1>1
  <2> QED BY <1>1, <1>3, <2>1, <2>2
<1> QED BY <1>1, <1>2, <1>3

\* A loop over rectangles that ends with the last, or at the cap.
LEMMA RectangleEnds ==
  ASSUME NEW k \in Nat, NEW s \in Nat \ {0}, NEW p \in Nat \ {0}, NEW j \in 0..p, NEW max \in Nat \ {0},
         k <= s, k = s => j = 0, NEW len \in Nat, len = k * p + j, len <= max, k = s \/ len = max,
         max < s => p = 1, max >= s => s * p <= max
  PROVE  len = IF max < s THEN max ELSE s * p
<1>1. k * p \in Nat /\ s * p \in Nat BY SMT
<1>2. len <= s * p
  <2>1. CASE k = s BY <1>1, <2>1
  <2>2. CASE k # s
    <3>1. (k + 1) * p <= s * p BY <2>2
    <3>2. (k + 1) * p = k * p + p OBVIOUS
    <3> QED BY <1>1, <3>1, <3>2
  <2> QED BY <2>1, <2>2
<1>3. CASE max < s
  <2>1. s * p = s BY <1>3
  <2>2. k = s => len = s * p BY <1>1
  <2> QED BY <1>3, <2>1, <2>2
<1>4. CASE max >= s
  <2>1. k = s => len = s * p BY <1>1
  <2> QED BY <1>1, <1>2, <1>4, <2>1
<1> QED BY <1>3, <1>4

LEMMA StepSubSampling == CidrInv /\ Sampling /\ StepSub => Sampling'
<1> SUFFICES ASSUME CidrInv, Sampling, StepSub PROVE Sampling' OBVIOUS
<1> DEFINE s == Subs(seg)  p == PerSub(seg)  max == seg.max  len == Len(out)
<1>1. /\ s \in Nat \ {0} /\ p \in Nat \ {0} /\ max \in Nat \ {0} /\ seg \in Segments /\ seg' = seg
      /\ Split(seg) /\ seg.v6 /\ n \in Nat /\ sub \in Nat /\ sub <= s /\ n <= p
      /\ (sub = s => n = 0) /\ out \in Seq(Addresses) /\ len \in Nat /\ len <= max /\ pc = "sub"
  BY SizeFacts DEF CidrInv, TypeOK, AtSub, StepSub, CapV6, Split
<1>2. /\ Accepted(seg) /\ len = sub * p + n
      /\ \A i \in 1..len : out[i] = Address((i - 1) \div p, Suffix((i - 1) % p))
  BY <1>1 DEF Sampling, Progress, SampleSound, EvenSplit
<1>3. /\ Subs(seg') = s /\ PerSub(seg') = p /\ seg'.max = max /\ Split(seg') /\ Accepted(seg')
      /\ ~Overfull(seg) /\ ~Overfull(seg')
  BY <1>1, <1>2 DEF Overfull
<1>4. Even' BY <1>3 DEF Even
<1>5. CASE (SubsDone(sub, seg) \/ ~Room) /\ pc' = "done" /\ UNCHANGED <<n, sub, out>>
  <2>1. sub = s \/ len = max BY <1>1, <1>5 DEF SubsDone, Room
  <2>2. (max < s => p = 1) /\ (max >= s => s * p <= max) BY <1>1, ShareOfCap
  <2> HIDE DEF s, p, max
  <2>3. len = IF max < s THEN max ELSE s * p
    <3>1. n \in 0..p BY <1>1
    <3> HIDE DEF len
    <3> QED BY <1>1, <1>2, <2>1, <2>2, <3>1, RectangleEnds
  <2>4. EvenSplit' BY <1>1, <1>2, <1>3, <1>5, <2>3 DEF EvenSplit
  <2>5. CapKept'
    <3>1. ~(len > max) /\ len - max <= max BY <1>1
    <3> QED BY <1>3, <1>5, <3>1 DEF CapKept
  <2>6. Enough' /\ Progress' BY <1>3, <1>5 DEF Enough, Progress
  <2> QED BY <1>4, <2>4, <2>5, <2>6 DEF Sampling, SampleSound
<1>6. CASE /\ ~SubsDone(sub, seg) /\ Room /\ n < PerSub(seg)
           /\ out' = Append(out, Address(sub, Suffix(n)))
           /\ n' = n + 1 /\ UNCHANGED <<pc, sub>>
  <2>1. Suffix(n) \in Nat BY <1>1, SuffixInjective, n # n + 1
  <2>2. Address(sub, Suffix(n)) \in Addresses BY <1>1, <2>1 DEF Address, Addresses
  <2>3. /\ Len(out') = len + 1 /\ \A i \in 1..len : out'[i] = out[i]
        /\ out'[len + 1] = Address(sub, Suffix(n)) /\ len < max
    BY <1>1, <1>6, <2>2, AppendFacts DEF Room
  <2> HIDE DEF s, p, max
  <2>4. len \div p = sub /\ len % p = n
    <3>1. n \in 0..(p - 1) BY <1>1, <1>6 DEF p
    <3>2. Position(len, sub, p, n) BY <1>1, <1>2, <3>1 DEF Position
    <3> QED BY <3>2, Positions
  <2>5. \A i \in 1..Len(out') : out'[i] = Address((i - 1) \div p, Suffix((i - 1) % p))
    <3> SUFFICES ASSUME NEW i \in 1..Len(out')
                 PROVE out'[i] = Address((i - 1) \div p, Suffix((i - 1) % p))
      OBVIOUS
    <3>1. CASE i = len + 1
      <4>1. i - 1 = len BY <1>1, <3>1
      <4> QED BY <2>3, <2>4, <3>1, <4>1
    <3>2. CASE i \in 1..len BY <1>2, <2>3, <3>2
    <3> QED BY <1>1, <2>3, <3>1, <3>2
  <2>6. EvenSplit' BY <1>1, <1>3, <1>6, <2>5 DEF EvenSplit
  <2>7. CapKept'
    <3>1. ~(len + 1 > max) /\ len + 1 - max <= max BY <1>1, <2>3
    <3> QED BY <1>1, <1>3, <1>6, <2>3, <3>1 DEF CapKept
  <2>8. Len(out') = sub' * p + n'
    <3>1. sub * p \in Nat BY <1>1
    <3> QED BY <1>1, <1>2, <1>6, <2>3, <3>1
  <2>9. Enough' /\ Progress' BY <1>1, <1>3, <1>6, <2>8 DEF Enough, Progress
  <2> QED BY <1>4, <2>6, <2>7, <2>9 DEF Sampling, SampleSound
<1>7. CASE /\ ~SubsDone(sub, seg) /\ Room /\ n = PerSub(seg)
           /\ sub' = sub + 1 /\ n' = 0 /\ UNCHANGED <<pc, out>>
  <2> HIDE DEF s, p, max
  <2>1. len = sub' * p + n'
    <3>1. (sub + 1) * p = sub * p + p /\ sub * p \in Nat BY <1>1
    <3> QED BY <1>1, <1>2, <1>7, <3>1 DEF p
  <2>2. EvenSplit' BY <1>1, <1>2, <1>3, <1>7 DEF EvenSplit
  <2>3. CapKept'
    <3>1. ~(len > max) /\ len - max <= max BY <1>1
    <3> QED BY <1>1, <1>3, <1>7, <3>1 DEF CapKept
  <2>4. Enough' /\ Progress' BY <1>1, <1>3, <1>7, <2>1 DEF Enough, Progress
  <2> QED BY <1>4, <2>2, <2>3, <2>4 DEF Sampling, SampleSound
<1> QED BY <1>5, <1>6, <1>7 DEF StepSub

\* Nothing is asked of an empty list but at the end of an accepted segment.
LEMMA EmptySampling ==
  ASSUME NEW m \in Nat \ {0}, seg.max = m, out = <<>>, ~Accepted(seg) \/ pc # "done"
  PROVE  SampleSound
<1>1. Len(out) = 0 /\ ~(Len(out) > m) /\ Len(out) - m <= m /\ 1..Len(out) = {} OBVIOUS
<1> QED BY <1>1 DEF SampleSound, CapKept, Enough, Even, EvenSplit

LEMMA InitSampling == Init => Sampling
<1> SUFFICES ASSUME Init PROVE Sampling OBVIOUS
<1>1. seg.max \in Nat \ {0} /\ out = <<>> /\ pc = "start" BY SegmentTypes DEF Init
<1> QED BY <1>1, EmptySampling DEF Sampling, Progress

LEMMA StartSampling == CidrInv /\ (Reject \/ Tiny \/ Begin) => Sampling'
<1> SUFFICES ASSUME CidrInv, Reject \/ Tiny \/ Begin PROVE Sampling' OBVIOUS
<1>1. /\ Total(seg) \in Int /\ seg.max \in Nat \ {0} /\ seg' = seg /\ out = <<>> /\ n = 0 /\ sub = 0
      /\ Subs(seg) \in Nat \ {0} /\ PerSub(seg) \in Nat \ {0} /\ pc = "start"
  BY SizeFacts DEF CidrInv, AtStart, Reject, Tiny, Begin
<1>2. CASE Reject
  <2>1. out' = <<>> /\ pc' = "done" /\ ~Accepted(seg') BY <1>1, <1>2 DEF Reject
  <2> HIDE DEF Accepted
  <2>2. SampleSound'
    <3>1. Len(out') = 0 /\ 1..Len(out') = {} /\ ~(0 > seg'.max) /\ 0 - seg'.max <= seg'.max BY <1>1, <2>1
    <3> QED BY <2>1, <3>1 DEF SampleSound, CapKept, Enough, Even, EvenSplit
  <2> QED BY <2>1, <2>2 DEF Sampling, Progress
<1>3. CASE Begin
  <2>1. /\ out' = <<>> /\ pc' \in {"v4", "flat", "sub"} /\ Accepted(seg') /\ sub' = 0
        /\ (pc' # "v4" => n' = 0)
    BY <1>1, <1>3 DEF Begin
  <2>2. Len(out') = 0 /\ 1..Len(out') = {} /\ ~(0 > seg'.max) /\ 0 - seg'.max <= seg'.max BY <1>1, <2>1
  <2>3. SampleSound' BY <2>1, <2>2 DEF SampleSound, CapKept, Enough, Even, EvenSplit
  <2>4. 0 * PerSub(seg') = 0 BY <1>1
  <2>5. pc' = "flat" => 0 = 0 * Stride(seg')
    <3> SUFFICES ASSUME pc' = "flat" PROVE 0 = 0 * Stride(seg') OBVIOUS
    <3>1. seg.v6 BY <1>3 DEF Begin
    <3>2. Size(seg) = Total(seg) BY <3>1 DEF Size
    <3>3. Stride(seg) = StepOf(Total(seg), seg.max) BY <3>2 DEF Stride, StepOf
    <3>4. Stride(seg) \in Nat BY <1>1, <3>3, StepPositive
    <3> QED BY <1>1, <3>4
  <2>6. Progress' BY <2>1, <2>2, <2>4, <2>5 DEF Progress
  <2> QED BY <2>3, <2>6 DEF Sampling
<1>4. CASE Tiny
  <2> DEFINE t == Total(seg)
  <2>1. /\ Accepted(seg) /\ ~seg.v6 /\ t <= 2 /\ pc' = "done" /\ out' = [i \in 1..t |-> Address(0, i - 1)]
    BY <1>4 DEF Tiny
  <2>2. Small(seg) /\ Size(seg) = t /\ ~Split(seg) BY <2>1 DEF Small, Size, Split
  <2>3. Overfull(seg) <=> t > seg.max BY <2>1, <2>2 DEF Overfull
  <2> HIDE DEF t
  <2>4. out' \in Seq(Addresses) /\ 1..Len(out') = 1..t BY <1>1, <2>1, TinyFacts DEF t
  <2>5. Len(out') \in Nat /\ Len(out') >= t /\ (Len(out') > seg.max => t > seg.max)
        /\ Len(out') - seg.max <= seg.max
    <3>1. Len(out') \in Nat BY <2>4
    <3>2. t \in Int BY <1>1 DEF t
    <3>3. t >= 1 => t \in 1..Len(out') BY <2>4, <3>2
    <3>4. ASSUME Len(out') >= 1 PROVE Len(out') <= t
      <4>1. Len(out') \in 1..Len(out') BY <3>1, <3>4
      <4>2. Len(out') \in 1..t BY <2>4, <4>1
      <4> QED BY <3>2, <4>2
    <3>5. t <= 2 BY <2>1
    <3> HIDE DEF t
    <3> QED BY <1>1, <3>1, <3>2, <3>3, <3>4, <3>5
  <2>6. CapKept'
    <3>1. t > seg.max => Len(out') > seg.max BY <1>1, <2>5 DEF t
    <3>2. (Len(out') > seg.max => Overfull(seg)) /\ (Overfull(seg) => Len(out') > seg.max)
      BY <2>3, <2>5, <3>1
    <3> QED BY <1>1, <2>5, <3>2 DEF CapKept
  <2>8. Enough' BY <1>1, <2>2, <2>5 DEF Enough
  <2>9. Even' /\ EvenSplit' /\ Progress' BY <1>1, <2>1, <2>2 DEF Even, EvenSplit, Progress
  <2> QED BY <2>6, <2>8, <2>9 DEF Sampling, SampleSound
<1> QED BY <1>2, <1>3, <1>4

LEMMA NextSampling == CidrInv /\ Sampling /\ [Next]_vars => Sampling'
<1> SUFFICES ASSUME CidrInv, Sampling, [Next]_vars PROVE Sampling' OBVIOUS
<1>1. CASE UNCHANGED vars
  BY <1>1 DEF vars, Sampling, Progress, SampleSound, CapKept, Enough, Even, EvenSplit
<1> QED BY <1>1, StartSampling, StepV4Sampling, StepFlatSampling, StepSubSampling DEF Next

-----------------------------------------------------------------------------
(* The loops end.                                                          *)

LEMMA Rectangle ==
  ASSUME NEW a \in Nat, NEW b \in Nat
  PROVE  /\ a * b \in Nat
         /\ a # 0 => (a - 1) * b = a * b - b
OBVIOUS

\* How far the loops over sub-segments have to go, from one to the next.
LEMMA SubsLeft ==
  ASSUME CidrInv, pc = "sub"
  PROVE  /\ seg \in Segments /\ sub \in Nat /\ n \in Nat
         /\ Subs(seg) \in Nat \ {0} /\ PerSub(seg) \in Nat \ {0} /\ sub <= Subs(seg) /\ n <= PerSub(seg)
         /\ (Subs(seg) - sub) * (PerSub(seg) + 1) \in Nat
         /\ sub # Subs(seg) =>
              (Subs(seg) - (sub + 1)) * (PerSub(seg) + 1) = (Subs(seg) - sub) * (PerSub(seg) + 1) - (PerSub(seg) + 1)
<1>1. /\ seg \in Segments /\ sub \in Nat /\ n \in Nat /\ sub <= Subs(seg) /\ n <= PerSub(seg)
  BY DEF CidrInv, TypeOK, AtSub
<1>2. Subs(seg) \in Nat \ {0} /\ PerSub(seg) \in Nat \ {0} BY <1>1, SubsType, PerSubType
<1> DEFINE s == Subs(seg)  p == PerSub(seg) + 1  r == s - sub
<1>3. r \in Nat /\ p \in Nat /\ s - (sub + 1) = r - 1 /\ (sub # s => r # 0) BY <1>1, <1>2
<1> HIDE DEF r, p
<1>4. r * p \in Nat /\ (r # 0 => (r - 1) * p = r * p - p) BY <1>3, Rectangle
<1> QED BY <1>1, <1>2, <1>3, <1>4 DEF r, p

LEMMA Dwindling == CidrInv /\ CidrInv' /\ Next => Left' < Left /\ Left' \in Nat
<1> SUFFICES ASSUME CidrInv, CidrInv', Next PROVE Left' < Left /\ Left' \in Nat
  OBVIOUS
<1>1. /\ seg \in Segments /\ n \in Nat /\ seg' = seg /\ seg.max \in Nat \ {0}
      /\ Subs(seg) \in Nat \ {0} /\ PerSub(seg) \in Nat \ {0} /\ Total(seg) \in Int
  BY SegmentTypes, SubsType, PerSubType, TotalType
     DEF CidrInv, TypeOK, Next, Reject, Tiny, Begin, StepV4, StepFlat, StepSub
<1>2. Samples(seg) \in Nat
  <2>1. PerSub(seg) + 1 \in Nat BY <1>1
  <2> QED BY <1>1, <2>1, Rectangle DEF Samples
<1>4. CASE Reject BY <1>4 DEF Reject, Left
<1>5. CASE Tiny BY <1>1, <1>2, <1>5 DEF Tiny, Left, Split
<1>6. CASE Begin
  <2>1. pc = "start" /\ Accepted(seg) /\ n = 0 /\ sub = 0
    BY <1>6 DEF Begin, CidrInv, AtStart
  <2>2. CASE ~seg.v6 /\ Total(seg) > 2 /\ pc' = "v4" /\ n' = 1
    BY <1>1, <2>1, <2>2 DEF Left, Split
  <2>3. CASE seg.v6 /\ ~Split(seg) /\ pc' = "flat" /\ n' = 0
    BY <1>1, <2>1, <2>3 DEF Left
  <2>4. CASE Split(seg) /\ pc' = "sub" /\ n' = 0
    <3>1. Left = Samples(seg) + PerSub(seg) + 2 BY <2>1, <2>4 DEF Left
    <3>2. Left' = Samples(seg) + PerSub(seg) + 1
      <4>1. sub' = 0 /\ Subs(seg) - 0 = Subs(seg) BY <1>1, <1>6, <2>1 DEF Begin
      <4> QED BY <1>1, <2>4, <4>1 DEF Left, Samples
    <3> QED BY <1>1, <1>2, <3>1, <3>2
  <2> QED BY <1>6, <2>2, <2>3, <2>4 DEF Begin, BeginV4
<1>7. CASE StepV4
  <2>1. StepOf(Usable(seg), seg.max) \in Nat \ {0} BY <1>1, StepPositive DEF Usable
  <2> QED BY <1>1, <1>7, <2>1 DEF StepV4, Left
<1>8. CASE StepFlat
  <2>1. StepOf(Total(seg), seg.max) \in Nat \ {0} BY <1>1, StepPositive
  <2> QED BY <1>1, <1>8, <2>1 DEF StepFlat, Left
<1>9. CASE StepSub
  <2>0. pc = "sub" BY <1>9 DEF StepSub
  <2>1. Left = (Subs(seg) - sub) * (PerSub(seg) + 1) + PerSub(seg) - n + 1 BY <2>0 DEF Left
  <2>2. CASE pc' = "done"
    BY <2>0, <2>1, <2>2, SubsLeft DEF Left
  <2>3. CASE n < PerSub(seg) /\ n' = n + 1 /\ UNCHANGED <<pc, sub>>
    <3>1. Left' = (Subs(seg) - sub) * (PerSub(seg) + 1) + PerSub(seg) - (n + 1) + 1
      BY <1>1, <2>0, <2>3 DEF Left
    <3> HIDE DEF Left
    <3> DEFINE rest == (Subs(seg) - sub) * (PerSub(seg) + 1)
    <3>2. rest \in Nat /\ PerSub(seg) \in Nat /\ n \in Nat BY <2>0, SubsLeft
    <3>3. Left' = rest + PerSub(seg) - (n + 1) + 1 /\ Left = rest + PerSub(seg) - n + 1 BY <2>1, <3>1
    <3> HIDE DEF rest
    <3> QED BY <2>3, <3>2, <3>3
  <2>4. CASE ~SubsDone(sub, seg) /\ n = PerSub(seg) /\ sub' = sub + 1 /\ n' = 0 /\ UNCHANGED pc
    <3>1. Left' = (Subs(seg) - (sub + 1)) * (PerSub(seg) + 1) + PerSub(seg) - 0 + 1
      BY <1>1, <2>0, <2>4 DEF Left
    <3>2. sub # Subs(seg) BY <1>1, <2>4 DEF SubsDone
    <3>3. (Subs(seg) - (sub + 1)) * (PerSub(seg) + 1) \in Nat
      BY <1>1, <2>0, <2>4, <3>2, SubsLeft, Rectangle
    <3> QED BY <2>0, <2>1, <2>4, <3>1, <3>2, <3>3, SubsLeft
  <2> QED BY <1>9, <2>2, <2>3, <2>4 DEF StepSub
<1> QED BY <1>4, <1>5, <1>6, <1>7, <1>8, <1>9 DEF Next

-----------------------------------------------------------------------------
(* The theorems.                                                           *)

\* The invariant holds in every state of every expansion.
THEOREM Invariance == Spec => []CidrInv
<1>1. CidrInv /\ [Next]_vars => CidrInv'
  <2> SUFFICES ASSUME CidrInv, [Next]_vars PROVE CidrInv' OBVIOUS
  <2>1. CASE UNCHANGED vars
    BY <2>1 DEF vars, CidrInv, TypeOK, AtStart, AtV4, AtFlat, AtSub, InSegment, NoRepeat,
       CapV6
  <2> QED BY <2>1, RejectInv, TinyInv, BeginInv, StepV4Inv, StepFlatInv, StepSubInv DEF Next
<1> QED BY <1>1, InitInv, PTL DEF Spec

\* The variables keep their types.
THEOREM TypeCorrect == Spec => []TypeOK
BY Invariance, PTL DEF CidrInv

\* Every address expandCidr returns is of the segment, of any width.
THEOREM StaysInSegment == Spec => []InSegment
BY Invariance, PTL DEF CidrInv

\* expandCidr lists no address twice: no step rounds to zero, and the
\* suffixes of a sub-segment are distinct.
THEOREM NeverRepeats == Spec => []NoRepeat
BY Invariance, PTL DEF CidrInv

\* expandV6 returns at most maxHosts addresses.
THEOREM CapHoldsV6 == Spec => []CapV6
BY Invariance, PTL DEF CidrInv

\* Whatever the prefix and the cap, the sample of a segment represents it.
THEOREM SamplesSoundly == Spec => []SampleSound
<1>1. Init => Sampling BY InitSampling
<1>2. CidrInv /\ Sampling /\ [Next]_vars => Sampling' BY NextSampling
<1> QED BY <1>1, <1>2, Invariance, PTL DEF Spec, Sampling

\* Every step of the loops leaves less to do: expandCidr returns for every
\* prefix and cap, also where the loops are too long to be counted by TLC.
THEOREM AlwaysDwindles == Spec => Dwindles
<1>1. CidrInv /\ CidrInv' /\ [Next]_vars => [Left' < Left /\ Left' \in Nat]_vars
  BY Dwindling
<1> QED BY <1>1, Invariance, PTL DEF Spec, Dwindles
=============================================================================
