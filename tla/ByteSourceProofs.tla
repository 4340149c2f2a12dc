-------------------------- MODULE ByteSourceProofs --------------------------
(***************************************************************************)
(* Theorems about ByteSource, for inputs of any length, any weights and    *)
(* any depth of nesting: cursors stay within their data, no byte is left   *)
(* to two sources, and opcodes are drawn by their weights.                 *)
(*                                                                         *)
(* The idea: the two stretches a machine was given lie one after the other *)
(* before its parent's cursor, and behind what its parent was given for    *)
(* opcodes.  Said of every pair of machines at work, not of neighbours     *)
(* only, this is inductive.                                                *)
(*                                                                         *)
(* The weighted choice needs the sums of the weights to be what their      *)
(* recursive definition says.  There are 11 families, so the function it   *)
(* defines can be written down.                                            *)
(***************************************************************************)
EXTENDS ByteSource, EvmProofs, FiniteSetTheorems

Stretches == {s \in [at : Nat, end : Nat] : s.at <= s.end}

\* What reading from a source makes of it.
Shrinks(s, t) == t \in Stretches /\ t.end = s.end /\ s.at <= t.at

MachineType ==
  [gas : 0..U64Max, gen : Stretches, src : Stretches, callable : Nat \ {0},
   over : BOOLEAN, pass : {"root", "only", "probe", "final"},
   kept : Stretches \X Stretches \X (0..U64Max)]

\* What a machine has left is of what it was given; what it was given for
\* opcodes comes before the rest, but for the root, which has but one source.
Own(m, len) ==
  /\ Shrinks(m.kept[1], m.gen) /\ Shrinks(m.kept[2], m.src)
  /\ m.kept[2].end <= len
  /\ m.kept[1].end <= IF IsRoot(m) THEN len ELSE m.kept[2].at

\* What n was given lies between what m was given and what m has left.
Above(m, n) ==
  /\ n.kept[2].end <= m.src.at
  /\ ~IsRoot(m) => m.kept[2].at <= n.kept[1].at

\* Said of machines ms at work on an input of len bytes.
Nested(ms, len) ==
  /\ ms \in Seq(MachineType) /\ ms # <<>>
  /\ \A i \in DOMAIN ms : IsRoot(ms[i]) <=> i = 1
  /\ \A i \in DOMAIN ms : Own(ms[i], len)
  /\ \A i, j \in DOMAIN ms : i < j => Above(ms[i], ms[j])

IInv ==
  /\ input \in Seq(0..255) /\ weights \in Profiles
  /\ Nested(machines, Len(input))

-----------------------------------------------------------------------------
(* Reading.                                                                *)

LEMMA ShrinksTransitive ==
  ASSUME NEW s \in Stretches, NEW t, NEW u, Shrinks(s, t), Shrinks(t, u)
  PROVE  Shrinks(s, u)
  BY DEF Shrinks, Stretches

LEMMA SkipShrinks ==
  ASSUME NEW s \in Stretches, NEW n \in Nat
  PROVE  Shrinks(s, Skip(s, n))
<1>1. /\ s.at \in Nat /\ s.end \in Nat /\ s.at <= s.end /\ s \in [at : Nat, end : Nat]
  BY DEF Stretches
<1>2. Lesser(n, Left(s)) \in 0..(s.end - s.at)
  BY <1>1 DEF Lesser, Left
<1> QED
  BY <1>1, <1>2 DEF Skip, Shrinks, Stretches

LEMMA WidthType ==
  ASSUME NEW limit
  PROVE  Width(limit) \in Nat
<1>1. \A n : ShortWidth(n) \in Nat
  BY SMT DEF ShortWidth
<1> QED
  BY <1>1, SMT DEF Width

LEMMA OperandBytesType ==
  ASSUME NEW variant
  PROVE  OperandBytes(variant) \in Nat
<1>1. /\ OffsetWidth \in Nat /\ LengthWidth \in Nat
  BY WidthType DEF OffsetWidth, LengthWidth
<1>2. RangeWidth \in Nat
  BY <1>1 DEF RangeWidth
<1> QED
  BY <1>1, <1>2 DEF OperandBytes, WordWidth, PushVariantOffset, Create2Variant,
     CallVariants

LEMMA IntInRangeShrinks ==
  ASSUME NEW s \in Stretches, NEW limit
  PROVE  Shrinks(s, IntInRange(s, limit).rest)
<1>1. Left(s) \in Nat
  BY DEF Left, Stretches
<1>2. Lesser(Width(limit), Left(s)) \in Nat
  BY <1>1, WidthType DEF Lesser
<1>3. IntInRange(s, limit).rest = Skip(s, Lesser(Width(limit), Left(s)))
  BY DEF IntInRange
<1> QED
  BY <1>2, <1>3, SkipShrinks

LEMMA ReadShrinks ==
  ASSUME NEW s \in Stretches, NEW limit, NEW variant
  PROVE  Shrinks(s, Skip(IntInRange(s, limit).rest, OperandBytes(variant)))
<1>1. Shrinks(s, IntInRange(s, limit).rest)
  BY IntInRangeShrinks
<1>2. IntInRange(s, limit).rest \in Stretches
  BY <1>1 DEF Shrinks
<1>3. Shrinks(IntInRange(s, limit).rest,
              Skip(IntInRange(s, limit).rest, OperandBytes(variant)))
  BY <1>2, OperandBytesType, SkipShrinks
<1> QED
  BY <1>1, <1>3, ShrinksTransitive

\* The number that k bytes after a place hold is a number: there is such a
\* function, as there are at most 8 bytes.
LEMMA NumberType ==
  ASSUME NEW k \in 0..8, NEW at \in Nat,
         \A n \in 1..k : input[at + n] \in Nat
  PROVE  NumberAt(at, k) \in Nat
<1> DEFINE b(n) == input[at + n]
           r0 == 0
           r1 == 256 * r0 + b(1)
           r2 == 256 * r1 + b(2)
           r3 == 256 * r2 + b(3)
           r4 == 256 * r3 + b(4)
           r5 == 256 * r4 + b(5)
           r6 == 256 * r5 + b(6)
           r7 == 256 * r6 + b(7)
           r8 == 256 * r7 + b(8)
           r(n) == CASE n = 0 -> r0 [] n = 1 -> r1 [] n = 2 -> r2 [] n = 3 -> r3
                     [] n = 4 -> r4 [] n = 5 -> r5 [] n = 6 -> r6 [] n = 7 -> r7
                     [] OTHER -> r8
           g == [n \in 0..k |-> r(n)]
           Steps(f) == f = [n \in 0..k |-> IF n = 0 THEN 0 ELSE 256 * f[n - 1] + b(n)]
<1>1. /\ r(0) = 0 /\ r(1) = 256 * r(0) + b(1) /\ r(2) = 256 * r(1) + b(2)
      /\ r(3) = 256 * r(2) + b(3) /\ r(4) = 256 * r(3) + b(4)
      /\ r(5) = 256 * r(4) + b(5) /\ r(6) = 256 * r(5) + b(6)
      /\ r(7) = 256 * r(6) + b(7) /\ r(8) = 256 * r(7) + b(8)
  <2> HIDE DEF b
  <2> QED
    OBVIOUS
<1>2. \A n \in 1..k : b(n) \in Nat
  OBVIOUS
<1> HIDE DEF b, r
<1>3. ASSUME NEW n \in 0..k
      PROVE  g[n] = IF n = 0 THEN 0 ELSE 256 * g[n - 1] + b(n)
  <2>1. n \in {0, 1, 2, 3, 4, 5, 6, 7, 8} /\ (n # 0 => n - 1 \in 0..k)
    OBVIOUS
  <2> QED
    BY <1>1, <2>1
<1>4. g = [n \in 0..k |-> g[n]]
  OBVIOUS
<1> HIDE DEF g
<1>5. Steps(g)
  BY <1>3, <1>4
<1>6. LET number[n \in 0..k] == IF n = 0 THEN 0 ELSE 256 * number[n - 1] + b(n)
      IN Steps(number)
  BY <1>5, Zenon
<1>7. ASSUME NEW f, Steps(f)
      PROVE  f[k] \in Nat
  <2>1. f[0] = 0 /\ \A n \in 1..k : f[n] = 256 * f[n - 1] + b(n)
    BY <1>7
  <2>2. \A n \in 1..k : f[n - 1] \in Nat => f[n] \in Nat
    BY <1>2, <2>1
  <2> HIDE DEF Steps
  <2>3. /\ f[0] \in Nat /\ (k >= 1 => f[1] \in Nat)
    BY <2>1, <2>2
  <2>4. k >= 2 => f[2] \in Nat
    BY <2>2, <2>3
  <2>5. k >= 3 => f[3] \in Nat
    BY <2>2, <2>4
  <2>6. k >= 4 => f[4] \in Nat
    BY <2>2, <2>5
  <2>7. k >= 5 => f[5] \in Nat
    BY <2>2, <2>6
  <2>8. k >= 6 => f[6] \in Nat
    BY <2>2, <2>7
  <2>9. k >= 7 => f[7] \in Nat
    BY <2>2, <2>8
  <2>10. k >= 8 => f[8] \in Nat
    BY <2>2, <2>9
  <2>11. k \in {0, 1, 2, 3, 4, 5, 6, 7, 8}
    OBVIOUS
  <2> QED
    BY <2>3, <2>4, <2>5, <2>6, <2>7, <2>8, <2>9, <2>10, <2>11
<1> QED
  BY <1>6, <1>7, Zenon DEF b, NumberAt

LEMMA ByteType ==
  ASSUME input \in Seq(0..255), NEW i \in 1..Len(input)
  PROVE  input[i] \in Nat
<1> DEFINE Byte == 0..255
<1>1. input \in Seq(Byte)
  OBVIOUS
<1> HIDE DEF Byte
<1>2. input[i] \in Byte
  BY <1>1
<1>3. \A n \in Byte : n \in Nat
  BY DEF Byte
<1> QED
  BY <1>2, <1>3, Zenon

\* A length takes no more bytes than there are, and leaves room for itself.
LEMMA LengthFits ==
  ASSUME input \in Seq(0..255), NEW s \in Stretches, s.end <= Len(input),
         Left(s) > 1
  PROVE  /\ LengthBytes(s) \in 1..8
         /\ ArbitraryLen(s) \in 0..(Left(s) - LengthBytes(s))
<1> DEFINE k == LengthBytes(s)
           cut == s.end - k
           from == Stretch(cut, s.end)
           most == cut - s.at
           taken == Lesser(Width(most), Left(from))
<1>1. s.at \in Nat /\ s.end \in Nat /\ Left(s) = s.end - s.at
  BY DEF Stretches, Left
<1>2. k \in 1..8 /\ k <= Left(s)
  BY <1>1 DEF LengthBytes
<1> HIDE DEF k
<1>3. /\ cut \in Nat /\ most \in Nat /\ most = Left(s) - k
  BY <1>1, <1>2
<1>4. from.at = cut /\ Left(from) = k
  BY <1>1, <1>2 DEF Stretch, Left
<1>5. taken \in 0..k
  <2>1. Width(most) \in Nat
    BY WidthType
  <2> QED
    BY <1>2, <1>4, <2>1 DEF Lesser
<1>6. \A n \in 1..taken : input[cut + n] \in Nat
  <2>1. ASSUME NEW n \in 1..taken
        PROVE  input[cut + n] \in Nat
    <3> HIDE DEF taken
    <3>1. cut + n \in 1..Len(input)
      BY <1>1, <1>2, <1>3, <1>5
    <3> QED
      BY <3>1, ByteType
  <2> QED
    BY <2>1
<1> DEFINE value == NumberAt(cut, taken)
<1>7. value \in Nat
  <2> HIDE DEF taken, cut
  <2>1. taken \in 0..8
    BY <1>2, <1>5
  <2> QED
    BY <1>3, <1>6, <2>1, NumberType
<1>8. IntInRange(from, most).value = value % (most + 1)
  BY <1>4 DEF IntInRange
<1>9. ArbitraryLen(s) = IntInRange(from, most).value
  BY <1>1 DEF ArbitraryLen, k
<1> HIDE DEF value, most, from, cut
<1>10. value % (most + 1) \in 0..most
  BY <1>3, <1>7
<1> QED
  BY <1>2, <1>3, <1>8, <1>9, <1>10 DEF k

\* A fork's child is what its parent skips, but for the bytes of its length.
LEMMA ChildFits ==
  ASSUME input \in Seq(0..255), NEW s \in Stretches, s.end <= Len(input)
  PROVE  /\ ChildSource(s).child \in Stretches
         /\ ChildSource(s).child.at = s.at
         /\ ChildSource(s).child.end <= ChildSource(s).rest.at
         /\ Shrinks(s, ChildSource(s).rest)
<1> DEFINE len == ArbitraryLen(s)
           k == LengthBytes(s)
<1>1. s.at \in Nat /\ s.end \in Nat /\ s.at <= s.end /\ Left(s) \in Nat
  BY DEF Stretches, Left
<1>2. len \in Nat /\ k \in Nat /\ len <= Left(s)
  <2>1. CASE Left(s) <= 1
    BY <1>1, <2>1 DEF ArbitraryLen, LengthBytes
  <2>2. CASE Left(s) > 1
    <3>1. k \in 1..8 /\ len \in 0..(Left(s) - k)
      BY <2>2, LengthFits
    <3> QED
      BY <1>1, <3>1
  <2> QED
    BY <1>1, <2>1, <2>2
<1> HIDE DEF len, k
<1>3. Shrinks(s, Skip(s, len + k))
  BY <1>2, SkipShrinks
<1>4. s.at + len <= Skip(s, len + k).at
  BY <1>1, <1>2 DEF Skip, Lesser, Left, Stretches
<1>5. ChildSource(s) = [child |-> Stretch(s.at, s.at + len), rest |-> Skip(s, len + k)]
  BY DEF ChildSource, len, k
<1> QED
  BY <1>1, <1>2, <1>3, <1>4, <1>5 DEF Stretch, Stretches

-----------------------------------------------------------------------------
(* Stacks of machines.                                                     *)

LEMMA MachineFields ==
  ASSUME NEW m \in MachineType
  PROVE  /\ m.gas \in 0..U64Max /\ m.callable \in Nat \ {0} /\ m.over \in BOOLEAN
         /\ m.gen \in Stretches /\ m.src \in Stretches
         /\ m.kept[1] \in Stretches /\ m.kept[2] \in Stretches
         /\ m.kept[3] \in 0..U64Max
         /\ m.gen.at \in Nat /\ m.gen.end \in Nat /\ m.gen.at <= m.gen.end
         /\ m.src.at \in Nat /\ m.src.end \in Nat /\ m.src.at <= m.src.end
         /\ m.kept[1].at \in Nat /\ m.kept[1].end \in Nat
         /\ m.kept[1].at <= m.kept[1].end
         /\ m.kept[2].at \in Nat /\ m.kept[2].end \in Nat
         /\ m.kept[2].at <= m.kept[2].end
<1>1. /\ m.gas \in 0..U64Max /\ m.callable \in Nat \ {0} /\ m.over \in BOOLEAN
      /\ m.gen \in Stretches /\ m.src \in Stretches
      /\ m.kept \in Stretches \X Stretches \X (0..U64Max)
  BY DEF MachineType
<1>2. /\ m.kept[1] \in Stretches /\ m.kept[2] \in Stretches /\ m.kept[3] \in 0..U64Max
  BY <1>1
<1> QED
  BY <1>1, <1>2 DEF Stretches

LEMMA LeqChain ==
  ASSUME NEW a \in Nat, NEW b \in Nat, NEW c \in Nat, NEW d \in Nat,
         a <= b, b <= c, c <= d
  PROVE  a <= d
  OBVIOUS

LEMMA SequenceOfFunction ==
  ASSUME NEW S, NEW k \in Nat, NEW f \in [1..k -> S]
  PROVE  f \in Seq(S) /\ Len(f) = k
  OBVIOUS

\* The machine on top gives way to one that was given the same.
LEMMA TopReplaced ==
  ASSUME NEW ms, NEW len \in Nat, Nested(ms, len),
         NEW m \in MachineType, Own(m, len),
         m.kept[1] = ms[Len(ms)].kept[1], m.kept[2] = ms[Len(ms)].kept[2],
         IsRoot(m) <=> IsRoot(ms[Len(ms)])
  PROVE  Nested([ms EXCEPT ![Len(ms)] = m], len)
<1> DEFINE k == Len(ms)
           new == [ms EXCEPT ![k] = m]
<1>1. ms \in Seq(MachineType) /\ k \in Nat \ {0} /\ DOMAIN ms = 1..k
  BY DEF Nested
<1>2. /\ new \in Seq(MachineType) /\ new # <<>> /\ DOMAIN new = 1..k
      /\ new[k] = m
      /\ \A i \in 1..k : i # k => new[i] = ms[i]
  <2>1. ms \in [1..k -> MachineType] /\ k \in 1..k
    BY <1>1
  <2>2. /\ new \in [1..k -> MachineType]
        /\ new[k] = m
        /\ \A i \in 1..k : i # k => new[i] = ms[i]
    BY <2>1
  <2>3. new \in Seq(MachineType) /\ Len(new) = k
    BY <1>1, <2>2, SequenceOfFunction
  <2> QED
    BY <1>1, <2>1, <2>2, <2>3
<1>a. /\ m.kept[1] = ms[k].kept[1] /\ m.kept[2] = ms[k].kept[2]
      /\ IsRoot(m) <=> IsRoot(ms[k])
  OBVIOUS
<1> HIDE DEF new, k
<1>3. ASSUME NEW i \in 1..k
      PROVE  (IsRoot(new[i]) <=> i = 1) /\ Own(new[i], len)
  <2>1. (IsRoot(ms[i]) <=> i = 1) /\ Own(ms[i], len)
    BY <1>1 DEF Nested
  <2>2. CASE i = k
    BY <1>2, <1>a, <2>1, <2>2
  <2>3. CASE i # k
    BY <1>2, <2>1, <2>3
  <2> QED
    BY <2>2, <2>3
<1>4. ASSUME NEW i \in 1..k, NEW j \in 1..k, i < j
      PROVE  Above(new[i], new[j])
  <2>1. i # k
    BY <1>1, <1>4
  <2>2. new[i] = ms[i] /\ Above(ms[i], ms[j])
    BY <1>1, <1>2, <1>4, <2>1 DEF Nested
  <2>3. new[j].kept[1] = ms[j].kept[1] /\ new[j].kept[2] = ms[j].kept[2]
    <3>1. CASE j = k
      BY <1>2, <1>a, <3>1
    <3>2. CASE j # k
      BY <1>2, <3>2
    <3> QED
      BY <3>1, <3>2
  <2> QED
    BY <2>2, <2>3 DEF Above
<1>5. Nested(new, len)
  BY <1>2, <1>3, <1>4 DEF Nested
<1> QED
  BY <1>5 DEF new, k

\* The machine on top is done.
LEMMA TopGone ==
  ASSUME NEW ms, NEW len, Nested(ms, len), Len(ms) > 1
  PROVE  /\ Nested(SubSeq(ms, 1, Len(ms) - 1), len)
         /\ Len(SubSeq(ms, 1, Len(ms) - 1)) = Len(ms) - 1
         /\ SubSeq(ms, 1, Len(ms) - 1)[Len(ms) - 1] = ms[Len(ms) - 1]
<1> DEFINE k == Len(ms)
           new == SubSeq(ms, 1, k - 1)
<1>1. ms \in Seq(MachineType) /\ k \in Nat \ {0} /\ DOMAIN ms = 1..k
  BY DEF Nested
<1>2. /\ new \in Seq(MachineType) /\ Len(new) = k - 1 /\ DOMAIN new = 1..(k - 1)
      /\ \A i \in 1..(k - 1) : new[i] = ms[i] /\ i \in 1..k
  <2>1. 1 \in 1..k /\ k - 1 \in 1..k /\ k - 1 \in Nat
    BY <1>1
  <2>2. new \in Seq(MachineType) /\ Len(new) = k - 1
    BY <1>1, <2>1
  <2>3. \A i \in 1..(k - 1) : new[i] = ms[i] /\ i \in 1..k
    BY <1>1, <2>1
  <2> QED
    BY <2>1, <2>2, <2>3
<1>3. new # <<>> /\ k - 1 \in 1..(k - 1)
  BY <1>1, <1>2
<1> HIDE DEF new
<1>4. ASSUME NEW i \in 1..(k - 1)
      PROVE  (IsRoot(new[i]) <=> i = 1) /\ Own(new[i], len)
  BY <1>1, <1>2 DEF Nested
<1>5. ASSUME NEW i \in 1..(k - 1), NEW j \in 1..(k - 1), i < j
      PROVE  Above(new[i], new[j])
  BY <1>1, <1>2, <1>5 DEF Nested
<1>6. Nested(new, len)
  BY <1>2, <1>3, <1>4, <1>5 DEF Nested
<1> QED
  BY <1>2, <1>3, <1>6 DEF new

\* A machine is put on top.
LEMMA TopAdded ==
  ASSUME NEW ms, NEW len \in Nat, Nested(ms, len),
         NEW m \in MachineType, Own(m, len), ~IsRoot(m),
         Above(ms[Len(ms)], m)
  PROVE  Nested(Append(ms, m), len)
<1> DEFINE k == Len(ms)
           new == Append(ms, m)
<1>1. ms \in Seq(MachineType) /\ k \in Nat \ {0} /\ DOMAIN ms = 1..k
  BY DEF Nested
<1>2. /\ new \in Seq(MachineType) /\ new # <<>> /\ DOMAIN new = 1..(k + 1)
      /\ new[k + 1] = m
      /\ \A i \in 1..k : new[i] = ms[i]
  BY <1>1
<1>a. Above(ms[k], m)
  OBVIOUS
<1> HIDE DEF new, k
<1>3. ASSUME NEW i \in 1..(k + 1)
      PROVE  (IsRoot(new[i]) <=> i = 1) /\ Own(new[i], len)
  <2>1. CASE i = k + 1
    BY <1>1, <1>2, <2>1
  <2>2. CASE i # k + 1
    <3>1. i \in 1..k
      BY <1>1, <2>2
    <3> QED
      BY <3>1, <1>1, <1>2 DEF Nested
  <2> QED
    BY <2>1, <2>2
<1>4. ASSUME NEW i \in 1..k
      PROVE  Above(ms[i], m)
  <2>1. CASE i = k
    BY <1>a, <2>1
  <2>2. CASE i # k
    <3>0. i < k /\ k # 1 /\ k \in 1..k
      BY <1>1, <2>2
    <3>1. /\ Above(ms[i], ms[k]) /\ ~IsRoot(ms[k]) /\ Own(ms[k], len)
          /\ ms[i] \in MachineType /\ ms[k] \in MachineType
      BY <1>1, <3>0 DEF Nested
    <3>2. m.kept[2].end <= ms[k].src.at /\ ms[k].kept[2].at <= m.kept[1].at
      BY <3>1, <1>a DEF Above
    <3>3. ms[k].src.end = ms[k].kept[2].end /\ ms[k].kept[1].end <= ms[k].kept[2].at
      BY <3>1 DEF Own, Shrinks
    <3>4. /\ ms[k].kept[2].end <= ms[i].src.at
          /\ ~IsRoot(ms[i]) => ms[i].kept[2].at <= ms[k].kept[1].at
      BY <3>1 DEF Above
    <3>5. /\ m.kept[1].at \in Nat /\ m.kept[2].end \in Nat
          /\ ms[i].src.at \in Nat /\ ms[i].kept[2].at \in Nat
          /\ ms[k].kept[1].at \in Nat /\ ms[k].kept[1].end \in Nat
          /\ ms[k].kept[1].at <= ms[k].kept[1].end
          /\ ms[k].kept[2].at \in Nat /\ ms[k].kept[2].end \in Nat
          /\ ms[k].src.at \in Nat /\ ms[k].src.at <= ms[k].src.end
      BY <3>1, MachineFields
    <3>6. m.kept[2].end <= ms[i].src.at
      <4>1. ms[k].src.at <= ms[k].kept[2].end
        BY <3>3, <3>5
      <4> QED
        BY <3>2, <3>4, <3>5, <4>1, LeqChain
    <3>7. ASSUME ~IsRoot(ms[i])
          PROVE  ms[i].kept[2].at <= m.kept[1].at
      <4>1. ms[i].kept[2].at <= ms[k].kept[1].at
        BY <3>4, <3>7
      <4>2. ms[i].kept[2].at <= ms[k].kept[2].at
        BY <3>3, <3>5, <4>1, LeqChain
      <4> QED
        BY <3>2, <3>5, <4>2, LeqChain
    <3> QED
      BY <3>6, <3>7 DEF Above
  <2> QED
    BY <2>1, <2>2
<1>5. ASSUME NEW i \in 1..(k + 1), NEW j \in 1..(k + 1), i < j
      PROVE  Above(new[i], new[j])
  <2>1. CASE j = k + 1
    BY <1>1, <1>2, <1>4, <1>5, <2>1
  <2>2. CASE j # k + 1
    BY <1>1, <1>2, <1>5, <2>2 DEF Nested
  <2> QED
    BY <2>1, <2>2
<1>6. Nested(new, len)
  BY <1>2, <1>3, <1>5 DEF Nested
<1> QED
  BY <1>6 DEF new

-----------------------------------------------------------------------------
(* A machine that works on, and what the actions make of the stack.        *)

Continues(m, n) ==
  /\ n \in MachineType /\ n.pass = m.pass /\ n.kept = m.kept
  /\ Shrinks(m.gen, n.gen) /\ Shrinks(m.src, n.src)

LEMMA ShrinksReflexive ==
  ASSUME NEW s \in Stretches
  PROVE  Shrinks(s, s)
  BY DEF Shrinks, Stretches

LEMMA OwnContinues ==
  ASSUME NEW len, NEW m \in MachineType, NEW n, Own(m, len), Continues(m, n)
  PROVE  Own(n, len)
<1>1. m.kept[1] \in Stretches /\ m.kept[2] \in Stretches
  BY MachineFields
<1>2. Shrinks(m.kept[1], n.gen) /\ Shrinks(m.kept[2], n.src)
  <2>1. /\ Shrinks(m.kept[1], m.gen) /\ Shrinks(m.gen, n.gen)
        /\ Shrinks(m.kept[2], m.src) /\ Shrinks(m.src, n.src)
    BY DEF Own, Continues
  <2> QED
    BY <1>1, <2>1, ShrinksTransitive
<1>3. n.kept = m.kept /\ (IsRoot(n) <=> IsRoot(m))
  BY DEF Continues, IsRoot
<1> QED
  BY <1>2, <1>3 DEF Own

LEMMA PaidContinues ==
  ASSUME NEW m \in MachineType, NEW price \in Nat
  PROVE  Continues(m, Paid(m, price))
<1>1. m.gas \in 0..U64Max /\ U64Max \in Nat
  BY MachineFields, OpcodesAssumption, SMT DEF OpcodesAssumption
<1>2. Shrinks(m.gen, m.gen) /\ Shrinks(m.src, m.src)
  BY MachineFields, ShrinksReflexive
<1>3. CASE price > m.gas
  <2>1. Paid(m, price) = [m EXCEPT !.over = TRUE]
    BY <1>3 DEF Paid, Stopped
  <2>2. [m EXCEPT !.over = TRUE] \in MachineType
    BY DEF MachineType
  <2> QED
    BY <1>2, <2>1, <2>2 DEF Continues, MachineType
<1>4. CASE ~(price > m.gas)
  <2>1. Paid(m, price) = [m EXCEPT !.gas = m.gas - price]
    BY <1>4 DEF Paid
  <2>2. m.gas - price \in 0..U64Max
    BY <1>1, <1>4
  <2>3. [m EXCEPT !.gas = m.gas - price] \in MachineType
    BY <2>2 DEF MachineType
  <2> QED
    BY <1>2, <2>1, <2>3 DEF Continues, MachineType
<1> QED
  BY <1>3, <1>4

LEMMA SrcReadContinues ==
  ASSUME NEW m \in MachineType, NEW rest, Shrinks(m.src, rest)
  PROVE  Continues(m, [m EXCEPT !.src = rest])
<1>1. Shrinks(m.gen, m.gen)
  BY MachineFields, ShrinksReflexive
<1>2. [m EXCEPT !.src = rest] \in MachineType
  BY DEF Shrinks, MachineType
<1> QED
  BY <1>1, <1>2 DEF Continues, MachineType

LEMMA GenReadContinues ==
  ASSUME NEW m \in MachineType, NEW rest, Shrinks(m.gen, rest)
  PROVE  Continues(m, [m EXCEPT !.gen = rest])
<1>1. Shrinks(m.src, m.src)
  BY MachineFields, ShrinksReflexive
<1>2. [m EXCEPT !.gen = rest] \in MachineType
  BY DEF Shrinks, MachineType
<1> QED
  BY <1>1, <1>2 DEF Continues, MachineType

LEMMA ContinuesTransitive ==
  ASSUME NEW m \in MachineType, NEW n, NEW o, Continues(m, n), Continues(n, o)
  PROVE  Continues(m, o)
<1>1. m.gen \in Stretches /\ m.src \in Stretches
  BY MachineFields
<1>2. Shrinks(m.gen, o.gen) /\ Shrinks(m.src, o.src)
  <2>1. /\ Shrinks(m.gen, n.gen) /\ Shrinks(n.gen, o.gen)
        /\ Shrinks(m.src, n.src) /\ Shrinks(n.src, o.src)
    BY DEF Continues
  <2> QED
    BY <1>1, <2>1, ShrinksTransitive
<1> QED
  BY <1>2 DEF Continues

LEMMA TopOfNested ==
  ASSUME NEW ms, NEW len, Nested(ms, len)
  PROVE  /\ Len(ms) \in Nat \ {0} /\ Len(ms) \in DOMAIN ms
         /\ ms[Len(ms)] \in MachineType /\ Own(ms[Len(ms)], len)
         /\ IsRoot(ms[Len(ms)]) <=> Len(ms) = 1
<1> DEFINE k == Len(ms)
<1>1. ms \in Seq(MachineType) /\ k \in Nat \ {0} /\ k \in DOMAIN ms
  BY DEF Nested
<1> HIDE DEF k
<1>2. ms[k] \in MachineType /\ Own(ms[k], len) /\ (IsRoot(ms[k]) <=> k = 1)
  BY <1>1 DEF Nested
<1> QED
  BY <1>1, <1>2 DEF k

\* The machine on top works on.
LEMMA TopContinued ==
  ASSUME NEW ms, NEW len \in Nat, Nested(ms, len), NEW m,
         Continues(ms[Len(ms)], m)
  PROVE  Nested([ms EXCEPT ![Len(ms)] = m], len)
<1>1. ms[Len(ms)] \in MachineType /\ Own(ms[Len(ms)], len)
  BY TopOfNested
<1>2. Own(m, len)
  BY <1>1, OwnContinues
<1>3. /\ m \in MachineType /\ m.kept[1] = ms[Len(ms)].kept[1]
      /\ m.kept[2] = ms[Len(ms)].kept[2]
      /\ IsRoot(m) <=> IsRoot(ms[Len(ms)])
  BY DEF Continues, IsRoot
<1> QED
  BY <1>2, <1>3, TopReplaced

-----------------------------------------------------------------------------
(* The invariant is inductive.                                             *)

\* The facts about a state in which it holds that the steps use.
LEMMA Facts ==
  ASSUME IInv
  PROVE  /\ Len(input) \in Nat /\ Nested(machines, Len(input))
         /\ Depth \in Nat \ {0} /\ Top = machines[Len(machines)]
         /\ Top \in MachineType /\ Own(Top, Len(input))
         /\ IsRoot(Top) <=> Depth = 1
<1>1. Len(input) \in Nat /\ Nested(machines, Len(input))
  BY DEF IInv
<1> QED
  BY <1>1, TopOfNested DEF Depth, Top

\* What is left to do for a step is to say what becomes of the stack.
LEMMA Kept ==
  ASSUME IInv, UNCHANGED <<input, weights>>, Nested(machines', Len(input))
  PROVE  IInv'
  BY DEF IInv

LEMMA ContinuesIInv ==
  ASSUME IInv, UNCHANGED <<input, weights>>, NEW m, Continues(Top, m), BecomesTop(m)
  PROVE  IInv'
<1>1. machines' = [machines EXCEPT ![Len(machines)] = m]
  BY DEF BecomesTop, Depth
<1>2. Continues(machines[Len(machines)], m)
  BY Facts
<1>3. Nested(machines', Len(input))
  BY <1>1, <1>2, Facts, TopContinued
<1> QED
  BY <1>3, Kept

LEMMA LeavesToDrawIInv ==
  ASSUME IInv, UNCHANGED <<input, weights>>, NEW rest, Shrinks(Drawer, rest),
         LeavesToDraw(rest)
  PROVE  IInv'
<1>1. Top \in MachineType
  BY Facts
<1>2. CASE IsRoot(Top)
  <2>1. Shrinks(Top.src, rest) /\ BecomesTop([Top EXCEPT !.src = rest])
    BY <1>2 DEF Drawer, LeavesToDraw
  <2> QED
    BY <1>1, <2>1, SrcReadContinues, ContinuesIInv
<1>3. CASE ~IsRoot(Top)
  <2>1. Shrinks(Top.gen, rest) /\ BecomesTop([Top EXCEPT !.gen = rest])
    BY <1>3 DEF Drawer, LeavesToDraw
  <2> QED
    BY <1>1, <2>1, GenReadContinues, ContinuesIInv
<1> QED
  BY <1>2, <1>3

LEMMA DrawerType ==
  ASSUME IInv
  PROVE  Drawer \in Stretches
  BY Facts, MachineFields DEF Drawer

LEMMA InitIInv == Init => IInv
<1> SUFFICES ASSUME Init PROVE IInv
  OBVIOUS
<1> DEFINE all == Stretch(0, Len(input))
           m == MachineOf(RootGas, all, all, 1, "root")
<1>1. input \in Seq(0..255) /\ Len(input) \in Nat
  <2>1. input \in Inputs /\ Inputs \subseteq Seq(0..255)
    BY ByteSourceAssumption, SMT DEF Init, ByteSourceAssumption
  <2> QED
    BY <2>1
<1>2. all \in Stretches /\ all.at = 0 /\ all.end = Len(input)
  BY <1>1 DEF Stretch, Stretches
<1> HIDE DEF all
<1>3. RootGas \in 0..U64Max
  BY ByteSourceAssumption, SMT DEF ByteSourceAssumption
<1>4. m \in MachineType
  BY <1>2, <1>3 DEF MachineOf, MachineType
<1>5. /\ m.gen = all /\ m.src = all /\ m.kept[1] = all /\ m.kept[2] = all
      /\ IsRoot(m)
  BY DEF MachineOf, IsRoot
<1>6. machines = <<m>> /\ weights \in Profiles
  BY DEF Init, all
<1> HIDE DEF m
<1>7. Own(m, Len(input))
  BY <1>1, <1>2, <1>5, ShrinksReflexive DEF Own
<1>8. /\ machines \in Seq(MachineType) /\ machines # <<>>
      /\ DOMAIN machines = {1} /\ machines[1] = m
  BY <1>4, <1>6
<1>9. Nested(machines, Len(input))
  <2>1. \A i \in DOMAIN machines : (IsRoot(machines[i]) <=> i = 1)
                                   /\ Own(machines[i], Len(input))
    BY <1>5, <1>7, <1>8
  <2>2. \A i, j \in DOMAIN machines : i < j => Above(machines[i], machines[j])
    BY <1>8
  <2> QED
    BY <1>8, <2>1, <2>2 DEF Nested
<1> QED
  BY <1>1, <1>6, <1>9 DEF IInv

LEMMA RollFamilyIInv == IInv /\ RollFamily => IInv'
<1> SUFFICES ASSUME IInv, RollFamily PROVE IInv'
  OBVIOUS
<1> DEFINE rest == IntInRange(Drawer, Total(weights) - 1).rest
<1>1. LeavesToDraw(rest) /\ UNCHANGED <<input, weights>>
  BY DEF RollFamily
<1>2. Shrinks(Drawer, rest)
  BY DrawerType, IntInRangeShrinks
<1> QED
  BY <1>1, <1>2, LeavesToDrawIInv

LEMMA PickVariantIInv == IInv /\ PickVariant => IInv'
<1> SUFFICES ASSUME IInv, PickVariant PROVE IInv'
  OBVIOUS
<1> DEFINE pick == IntInRange(Drawer, VariantCount[draw.family] - 1)
           rest == Skip(pick.rest,
                        OperandBytes(VariantIndexAt(draw.family, pick.value)))
<1>1. LeavesToDraw(rest) /\ UNCHANGED <<input, weights>>
  BY DEF PickVariant
<1>2. Shrinks(Drawer, rest)
  BY DrawerType, ReadShrinks
<1> QED
  BY <1>1, <1>2, LeavesToDrawIInv

LEMMA PickFlatIInv == IInv /\ PickFlat => IInv'
<1> SUFFICES ASSUME IInv, PickFlat PROVE IInv'
  OBVIOUS
<1> DEFINE pick == IntInRange(Drawer, GeneratedVariantCount - 1)
           rest == Skip(pick.rest, OperandBytes(pick.value))
<1>1. LeavesToDraw(rest) /\ UNCHANGED <<input, weights>>
  BY DEF PickFlat
<1>2. Shrinks(Drawer, rest)
  BY DrawerType, ReadShrinks
<1> QED
  BY <1>1, <1>2, LeavesToDrawIInv

LEMMA AddPushIInv == IInv /\ AddPush => IInv'
<1> SUFFICES ASSUME IInv, AddPush PROVE IInv'
  OBVIOUS
<1>1. /\ BecomesTop([Top EXCEPT !.src = PushRead(Top.src)])
      /\ UNCHANGED <<input, weights>>
  BY DEF AddPush
<1>2. Top \in MachineType /\ Top.src \in Stretches
  BY Facts, MachineFields
<1>3. Shrinks(Top.src, PushRead(Top.src))
  BY <1>2, ReadShrinks DEF PushRead
<1>4. Continues(Top, [Top EXCEPT !.src = PushRead(Top.src)])
  BY <1>2, <1>3, SrcReadContinues
<1> QED
  BY <1>1, <1>4, ContinuesIInv

LEMMA PricesType == OpcodePrices \subseteq Nat
  BY ByteSourceAssumption, SMT DEF ByteSourceAssumption

LEMMA IngestFlatIInv == IInv /\ IngestFlat => IInv'
<1> SUFFICES ASSUME IInv, IngestFlat PROVE IInv'
  OBVIOUS
<1>1. PICK price \in OpcodePrices : BecomesTop(Paid(Top, price))
  BY DEF IngestFlat
<1>2. UNCHANGED <<input, weights>>
  BY DEF IngestFlat
<1>3. Continues(Top, Paid(Top, price))
  BY PricesType, Facts, PaidContinues
<1> QED
  BY <1>1, <1>2, <1>3, ContinuesIInv

LEMMA IngestCallIInv == IInv /\ IngestCall => IInv'
<1> SUFFICES ASSUME IInv, IngestCall PROVE IInv'
  OBVIOUS
<1> DEFINE rest == IntInRange(Top.src, Top.callable - 1).rest
           m == [Top EXCEPT !.src = rest]
<1>1. PICK price \in OpcodePrices : BecomesTop(Paid(m, price))
  BY DEF IngestCall
<1>2. UNCHANGED <<input, weights>>
  BY DEF IngestCall
<1>3. Top \in MachineType /\ Top.src \in Stretches
  BY Facts, MachineFields
<1>4. Continues(Top, m)
  BY <1>3, IntInRangeShrinks, SrcReadContinues
<1>5. m \in MachineType
  BY <1>4 DEF Continues
<1>6. Continues(m, Paid(m, price))
  BY <1>5, PricesType, PaidContinues
<1> HIDE DEF m
<1>7. Continues(Top, Paid(m, price))
  BY <1>3, <1>4, <1>6, ContinuesTransitive
<1> QED
  BY <1>1, <1>2, <1>7, ContinuesIInv

LEMMA MaterializeIInv == IInv /\ Materialize => IInv'
<1> SUFFICES ASSUME IInv, Materialize PROVE IInv'
  OBVIOUS
<1> DEFINE first == ChildSource(Top.src)
           second == ChildSource(first.rest)
           parent == [Top EXCEPT !.src = second.rest]
           pass == IF draw.variant = CreateVariant THEN "only" ELSE "probe"
           m == MachineOf(SubBudget(Top.gas), first.child, second.child,
                          Top.callable, pass)
           len == Len(input)
           ms == [machines EXCEPT ![Len(machines)] = parent]
<1>1. /\ machines' = Append(ms, m)
      /\ UNCHANGED <<input, weights>>
  BY DEF Materialize, Depth
<1>2. /\ input \in Seq(0..255) /\ len \in Nat
      /\ Top \in MachineType /\ Own(Top, len)
      /\ Top.src \in Stretches /\ Top.src.end <= len
  BY Facts, MachineFields DEF IInv, Own, Shrinks
<1>3. /\ first.child \in Stretches /\ first.child.at = Top.src.at
      /\ first.child.end <= first.rest.at /\ Shrinks(Top.src, first.rest)
  BY <1>2, ChildFits
<1>4. first.rest \in Stretches /\ first.rest.end <= len
  BY <1>2, <1>3 DEF Shrinks
<1>5. /\ second.child \in Stretches /\ second.child.at = first.rest.at
      /\ second.child.end <= second.rest.at /\ Shrinks(first.rest, second.rest)
  BY <1>2, <1>4, ChildFits
<1> HIDE DEF first, second
<1>6. Continues(Top, parent) /\ parent.src = second.rest
  <2>1. Shrinks(Top.src, second.rest)
    BY <1>2, <1>3, <1>5, ShrinksTransitive
  <2> QED
    BY <1>2, <2>1, SrcReadContinues DEF MachineType
<1>7. /\ m \in MachineType /\ ~IsRoot(m)
      /\ m.gen = first.child /\ m.kept[1] = first.child
      /\ m.src = second.child /\ m.kept[2] = second.child
  <2>1. SubBudget(Top.gas) \in 0..U64Max /\ Top.callable \in Nat \ {0}
    <3>1. Top.gas \in Nat /\ Top.callable \in Nat \ {0}
      BY <1>2, MachineFields, OpcodesAssumption, SMT DEF OpcodesAssumption
    <3> QED
      BY <3>1, BudgetType
  <2>2. pass \in {"only", "probe"}
    OBVIOUS
  <2> HIDE DEF pass
  <2> QED
    BY <1>3, <1>5, <2>1, <2>2 DEF MachineOf, MachineType, IsRoot
<1> HIDE DEF m
<1>8. Own(m, len)
  <2>1. Shrinks(first.child, first.child) /\ Shrinks(second.child, second.child)
    BY <1>3, <1>5, ShrinksReflexive
  <2>2. second.child.end <= len
    <3>1. /\ second.rest.at <= second.rest.end /\ second.rest.end = first.rest.end
          /\ second.rest.at \in Nat /\ second.rest.end \in Nat
          /\ second.child.end \in Nat
      BY <1>5 DEF Shrinks, Stretches
    <3>2. second.rest.end <= len
      BY <1>4, <3>1
    <3> QED
      BY <1>2, <1>5, <3>1, <3>2, LeqChain
  <2>3. first.child.end <= second.child.at
    BY <1>3, <1>5
  <2> QED
    BY <1>7, <2>1, <2>2, <2>3 DEF Own
<1>9. Nested(ms, len) /\ ms[Len(ms)] = parent
  <2>1. Continues(machines[Len(machines)], parent)
    BY <1>6, Facts
  <2>2. Nested(ms, len)
    BY <1>2, <2>1, Facts, TopContinued
  <2>3. machines \in Seq(MachineType) /\ Len(machines) \in DOMAIN machines
    BY Facts, TopOfNested DEF Nested
  <2>4. Len(ms) = Len(machines)
    BY <2>3
  <2> QED
    BY <2>2, <2>3, <2>4
<1>10. Above(parent, m)
  <2>1. m.kept[2].end <= parent.src.at
    BY <1>5, <1>6, <1>7
  <2>2. parent.kept[2].at <= m.kept[1].at
    <3>1. parent.kept[2] = Top.kept[2] /\ Top.kept[2].at <= Top.src.at
      BY <1>2, <1>6 DEF Own, Shrinks, Continues
    <3> QED
      BY <1>3, <1>7, <3>1
  <2> QED
    BY <2>1, <2>2 DEF Above
<1> HIDE DEF ms, parent
<1>11. Nested(Append(ms, m), len)
  BY <1>2, <1>7, <1>8, <1>9, <1>10, TopAdded
<1> QED
  BY <1>1, <1>11, Kept

LEMMA StartFinalPassIInv == IInv /\ StartFinalPass => IInv'
<1> SUFFICES ASSUME IInv, StartFinalPass PROVE IInv'
  OBVIOUS
<1> DEFINE m == MachineOf(Top.kept[3], Top.kept[1], Top.kept[2],
                          Top.callable, "final")
<1>1. /\ machines' = [machines EXCEPT ![Len(machines)] = m]
      /\ UNCHANGED <<input, weights>> /\ Top.pass = "probe"
  BY DEF StartFinalPass, BecomesTop, Depth
<1>2. /\ Top \in MachineType /\ Own(Top, Len(input)) /\ Len(input) \in Nat
      /\ Top = machines[Len(machines)] /\ Nested(machines, Len(input))
  BY Facts
<1>3. /\ Top.kept[1] \in Stretches /\ Top.kept[2] \in Stretches
      /\ Top.kept[3] \in 0..U64Max /\ Top.callable \in Nat \ {0}
  BY <1>2, MachineFields
<1>4. m \in MachineType
  BY <1>3 DEF MachineOf, MachineType
<1>5. /\ m.gen = Top.kept[1] /\ m.src = Top.kept[2]
      /\ m.kept[1] = Top.kept[1] /\ m.kept[2] = Top.kept[2]
      /\ ~IsRoot(m) /\ ~IsRoot(Top)
  BY <1>1 DEF MachineOf, IsRoot
<1> HIDE DEF m
<1>6. Own(m, Len(input))
  BY <1>2, <1>3, <1>5, ShrinksReflexive DEF Own
<1>7. Nested(machines', Len(input))
  BY <1>1, <1>2, <1>4, <1>5, <1>6, TopReplaced
<1> QED
  BY <1>1, <1>7, Kept

\* A sub-machine is done and its parent works on.
LEMMA ReturnIInv ==
  ASSUME IInv, UNCHANGED <<input, weights>>, ~IsRoot(Top), NEW m,
         Continues(Parent, m), machines' = [Below EXCEPT ![Depth - 1] = m]
  PROVE  IInv'
<1>1. /\ Nested(machines, Len(input)) /\ Len(input) \in Nat
      /\ Depth \in Nat \ {0} /\ Depth # 1
  BY Facts
<1>2. Depth > 1
  BY <1>1
<1>3. /\ Nested(Below, Len(input)) /\ Len(Below) = Depth - 1
      /\ Below[Depth - 1] = Parent
  BY <1>1, <1>2, TopGone DEF Depth, Below, Parent
<1>4. Continues(Below[Len(Below)], m)
  BY <1>3
<1>5. Nested([Below EXCEPT ![Len(Below)] = m], Len(input))
  BY <1>1, <1>3, <1>4, TopContinued
<1>6. Nested(machines', Len(input))
  BY <1>3, <1>5
<1> QED
  BY <1>6, Kept

LEMMA ParentType ==
  ASSUME IInv, ~IsRoot(Top)
  PROVE  Parent \in MachineType /\ Parent = Below[Depth - 1]
<1>1. Nested(machines, Len(input)) /\ Depth \in Nat \ {0} /\ Depth # 1
  BY Facts
<1>2. Depth > 1
  BY <1>1
<1>3. /\ Nested(Below, Len(input)) /\ Len(Below) = Depth - 1
      /\ Below[Depth - 1] = Parent
  BY <1>1, <1>2, TopGone DEF Depth, Below, Parent
<1>4. Below[Len(Below)] \in MachineType
  BY <1>3, TopOfNested
<1> QED
  BY <1>3, <1>4

LEMMA FinishCreateIInv == IInv /\ FinishCreate => IInv'
<1> SUFFICES ASSUME IInv, FinishCreate PROVE IInv'
  OBVIOUS
<1>1. UNCHANGED <<input, weights>> /\ ~IsRoot(Top)
  BY DEF FinishCreate, IsRoot
<1>2. PICK price \in OpcodePrices :
        LET m == Paid(Parent, price)
        IN machines' =
             [Below EXCEPT ![Depth - 1] =
                IF IsRoot(m) /\ ~m.over THEN [m EXCEPT !.callable = @ + 1] ELSE m]
  BY DEF FinishCreate
<1> DEFINE m == Paid(Parent, price)
           n == IF IsRoot(m) /\ ~m.over
                THEN [m EXCEPT !.callable = m.callable + 1] ELSE m
<1>3. machines' = [Below EXCEPT ![Depth - 1] = n]
  BY <1>2
<1>4. Parent \in MachineType
  BY <1>1, ParentType
<1>5. Continues(Parent, m)
  BY <1>4, PricesType, PaidContinues
<1>6. m \in MachineType
  BY <1>5 DEF Continues
<1> HIDE DEF m
<1>7. Continues(m, n)
  <2>1. m.callable + 1 \in Nat \ {0}
    BY <1>6, MachineFields
  <2>2. [m EXCEPT !.callable = m.callable + 1] \in MachineType
    BY <1>6, <2>1 DEF MachineType
  <2>3. Shrinks(m.gen, m.gen) /\ Shrinks(m.src, m.src)
    BY <1>6, MachineFields, ShrinksReflexive
  <2> QED
    BY <1>6, <2>2, <2>3 DEF Continues, MachineType
<1> HIDE DEF n
<1>8. Continues(Parent, n)
  BY <1>4, <1>5, <1>7, ContinuesTransitive
<1> QED
  BY <1>1, <1>3, <1>8, ReturnIInv

LEMMA TooLongIInv == IInv /\ TooLong => IInv'
<1> SUFFICES ASSUME IInv, TooLong PROVE IInv'
  OBVIOUS
<1>1. UNCHANGED <<input, weights>> /\ ~IsRoot(Top)
  BY DEF TooLong, IsRoot
<1>2. Parent \in MachineType /\ Parent = Below[Depth - 1]
  BY <1>1, ParentType
<1>3. machines' = [Below EXCEPT ![Depth - 1] = Stopped(Parent)]
  BY <1>2 DEF TooLong
<1>4. Continues(Parent, Stopped(Parent))
  <2>1. Stopped(Parent) \in MachineType
    BY <1>2 DEF Stopped, MachineType
  <2>2. Shrinks(Parent.gen, Parent.gen) /\ Shrinks(Parent.src, Parent.src)
    BY <1>2, MachineFields, ShrinksReflexive
  <2> QED
    BY <1>2, <2>1, <2>2 DEF Continues, Stopped, MachineType
<1> QED
  BY <1>1, <1>3, <1>4, ReturnIInv

LEMMA NextIInv == IInv /\ [Next]_vars => IInv'
<1> SUFFICES ASSUME IInv, [Next]_vars PROVE IInv'
  OBVIOUS
<1>1. CASE Next
  BY <1>1, RollFamilyIInv, PickVariantIInv, PickFlatIInv, AddPushIInv,
     IngestFlatIInv, IngestCallIInv, MaterializeIInv, StartFinalPassIInv,
     FinishCreateIInv, TooLongIInv DEF Next
<1>2. CASE UNCHANGED vars
  BY <1>2 DEF vars, IInv
<1> QED
  BY <1>1, <1>2

LEMMA Invariance == Spec => []IInv
  BY InitIInv, NextIInv, PTL DEF Spec

-----------------------------------------------------------------------------
(* What the invariant says.                                                *)

LEMMA IInvSourceTypeOK == IInv => SourceTypeOK
<1> SUFFICES ASSUME IInv PROVE SourceTypeOK
  OBVIOUS
<1>1. /\ weights \in Profiles /\ Nested(machines, Len(input)) /\ Len(input) \in Nat
      /\ machines # <<>>
  BY Facts DEF IInv, Nested
<1>2. ASSUME NEW i \in DOMAIN machines
      PROVE  /\ machines[i].gas \in 0..U64Max /\ machines[i].callable \in Nat \ {0}
             /\ IsRoot(machines[i]) = (i = 1)
             /\ \A source \in {machines[i].gen, machines[i].src} :
                  /\ 0 <= source.at /\ source.at <= source.end
                  /\ source.end <= Len(input)
  <2> DEFINE m == machines[i]
  <2>1. m \in MachineType /\ Own(m, Len(input)) /\ (IsRoot(m) <=> i = 1)
    BY <1>1 DEF Nested
  <2> HIDE DEF m
  <2>2. /\ m.gas \in 0..U64Max /\ m.callable \in Nat \ {0}
        /\ m.gen.at \in Nat /\ m.gen.at <= m.gen.end /\ m.gen.end \in Nat
        /\ m.src.at \in Nat /\ m.src.at <= m.src.end /\ m.src.end \in Nat
        /\ m.kept[2].at \in Nat /\ m.kept[2].end \in Nat
        /\ m.kept[2].at <= m.kept[2].end
    BY <2>1, MachineFields
  <2>3. m.src.end <= Len(input)
    BY <2>1 DEF Own, Shrinks
  <2>4. m.gen.end <= Len(input)
    <3>1. /\ m.gen.end = m.kept[1].end /\ m.kept[2].end <= Len(input)
          /\ m.kept[1].end <= IF IsRoot(m) THEN Len(input) ELSE m.kept[2].at
      BY <2>1 DEF Own, Shrinks
    <3>2. CASE IsRoot(m)
      BY <3>1, <3>2
    <3>3. CASE ~IsRoot(m)
      BY <1>1, <2>2, <3>1, <3>3, LeqChain
    <3> QED
      BY <3>2, <3>3
  <2>5. IsRoot(m) = (i = 1)
    BY <2>1 DEF IsRoot
  <2> QED
    BY <2>2, <2>3, <2>4, <2>5 DEF m
<1> QED
  BY <1>1, <1>2 DEF SourceTypeOK

LEMMA Disjoint ==
  ASSUME NEW s, NEW t, s.at \in Nat, s.end \in Nat, t.at \in Nat, t.end \in Nat,
         s.end <= t.at \/ t.end <= s.at
  PROVE  Unread(s) \cap Unread(t) = {}
  BY DEF Unread

\* What the sources of one machine have left.
LEMMA OwnSourcesDisjoint ==
  ASSUME NEW m \in MachineType, NEW len \in Nat, Own(m, len), ~IsRoot(m)
  PROVE  Unread(m.gen) \cap Unread(m.src) = {}
<1>1. /\ m.gen.at \in Nat /\ m.gen.end \in Nat /\ m.src.at \in Nat
      /\ m.src.end \in Nat /\ m.kept[2].at \in Nat
  BY MachineFields
<1>2. m.gen.end <= m.kept[2].at /\ m.kept[2].at <= m.src.at
  BY DEF Own, Shrinks
<1>3. m.gen.end <= m.src.at
  BY <1>1, <1>2
<1> QED
  BY <1>1, <1>3, Disjoint

\* And those of two, n above m.
LEMMA SourcesDisjoint ==
  ASSUME NEW len \in Nat, NEW m \in MachineType, NEW n \in MachineType,
         Own(m, len), Own(n, len), ~IsRoot(n), Above(m, n),
         NEW s \in {m.src} \cup IF IsRoot(m) THEN {} ELSE {m.gen},
         NEW t \in {n.src, n.gen}
  PROVE  Unread(s) \cap Unread(t) = {}
<1>1. /\ s.at \in Nat /\ s.end \in Nat /\ t.at \in Nat /\ t.end \in Nat
  BY MachineFields
<1>2. /\ n.kept[1].at \in Nat /\ n.kept[1].end \in Nat
      /\ n.kept[1].at <= n.kept[1].end
      /\ n.kept[2].at \in Nat /\ n.kept[2].end \in Nat
      /\ n.kept[2].at <= n.kept[2].end
      /\ n.gen.at \in Nat /\ n.src.at \in Nat
      /\ m.src.at \in Nat /\ m.gen.end \in Nat /\ m.kept[2].at \in Nat
  BY MachineFields
<1>3. /\ n.kept[1].at <= n.gen.at /\ n.gen.end = n.kept[1].end
      /\ n.kept[2].at <= n.src.at /\ n.src.end = n.kept[2].end
      /\ n.kept[1].end <= n.kept[2].at /\ n.kept[2].end <= m.src.at
  BY DEF Own, Above, Shrinks
<1>4. t.end <= m.src.at
  <2>1. n.kept[1].end <= n.kept[2].end
    BY <1>2, <1>3
  <2>2. n.kept[1].end <= m.src.at
    BY <1>2, <1>3, <2>1
  <2> QED
    BY <1>3, <2>2
<1>5. CASE s = m.src
  BY <1>1, <1>4, <1>5, Disjoint
<1>6. CASE s # m.src
  <2>1. s = m.gen /\ ~IsRoot(m)
    BY <1>6
  <2>2. m.gen.end <= m.kept[2].at /\ m.kept[2].at <= n.kept[1].at
    BY <2>1 DEF Own, Above, Shrinks
  <2>3. n.kept[1].at <= n.src.at
    BY <1>2, <1>3, LeqChain
  <2>4. m.gen.end <= n.gen.at
    BY <1>2, <1>3, <2>2, LeqChain
  <2>5. m.gen.end <= n.src.at
    BY <1>2, <2>2, <2>3, LeqChain
  <2> QED
    BY <1>1, <2>1, <2>4, <2>5, Disjoint
<1> QED
  BY <1>5, <1>6

LEMMA IInvByteReadOnce == IInv => ByteReadOnce
<1> SUFFICES ASSUME IInv PROVE ByteReadOnce
  OBVIOUS
<1> DEFINE len == Len(input)
<1>1. Nested(machines, len) /\ len \in Nat
  BY Facts
<1> HIDE DEF len
<1>2. ASSUME NEW i \in DOMAIN machines
      PROVE  /\ machines[i] \in MachineType /\ Own(machines[i], len)
             /\ IsRoot(machines[i]) <=> i = 1
             /\ i \in Nat
  BY <1>1 DEF Nested
<1>3. ASSUME NEW a \in Sources
      PROVE  /\ a[1] \in DOMAIN machines /\ a[2] \in {"src", "gen"}
             /\ a = <<a[1], a[2]>>
             /\ a[2] = "gen" => a[1] # 1
             /\ SourceOf(a) \in {machines[a[1]].src}
                  \cup IF IsRoot(machines[a[1]]) THEN {} ELSE {machines[a[1]].gen}
  <2>1. /\ a[1] \in DOMAIN machines /\ a[2] \in {"src", "gen"}
        /\ a = <<a[1], a[2]>> /\ (a[2] = "gen" => a[1] # 1)
    BY DEF Sources
  <2> QED
    BY <1>2, <2>1 DEF SourceOf
<1>4. ASSUME NEW a \in Sources, NEW b \in Sources, a[1] < b[1]
      PROVE  Unread(SourceOf(a)) \cap Unread(SourceOf(b)) = {}
  <2> DEFINE i == a[1]
             j == b[1]
  <2>1. i \in DOMAIN machines /\ j \in DOMAIN machines
    BY <1>3
  <2>2. /\ SourceOf(a) \in {machines[i].src}
             \cup IF IsRoot(machines[i]) THEN {} ELSE {machines[i].gen}
        /\ SourceOf(b) \in {machines[j].src, machines[j].gen}
    BY <1>3
  <2>3. i < j
    BY <1>4
  <2> HIDE DEF i, j
  <2>4. j # 1
    <3>1. machines \in Seq(MachineType)
      BY <1>1 DEF Nested
    <3> QED
      BY <2>1, <2>3, <3>1
  <2>5. Above(machines[i], machines[j])
    BY <1>1, <2>1, <2>3 DEF Nested
  <2> QED
    BY <1>1, <1>2, <2>1, <2>2, <2>4, <2>5, SourcesDisjoint
<1>5. ASSUME NEW a \in Sources, NEW b \in Sources, a # b, a[1] = b[1]
      PROVE  Unread(SourceOf(a)) \cap Unread(SourceOf(b)) = {}
  <2> DEFINE i == a[1]
  <2>1. /\ i \in DOMAIN machines /\ i # 1
        /\ a[2] \in {"src", "gen"} /\ b[2] \in {"src", "gen"} /\ a[2] # b[2]
    BY <1>3, <1>5
  <2>2. \/ SourceOf(a) = machines[i].src /\ SourceOf(b) = machines[i].gen
        \/ SourceOf(a) = machines[i].gen /\ SourceOf(b) = machines[i].src
    BY <1>5, <2>1 DEF SourceOf
  <2> HIDE DEF i
  <2>3. Unread(machines[i].gen) \cap Unread(machines[i].src) = {}
    BY <1>1, <1>2, <2>1, OwnSourcesDisjoint
  <2> QED
    BY <2>2, <2>3
<1>6. ASSUME NEW a \in Sources, NEW b \in Sources, a # b
      PROVE  Unread(SourceOf(a)) \cap Unread(SourceOf(b)) = {}
  <2>1. a[1] \in Nat /\ b[1] \in Nat
    BY <1>2, <1>3
  <2>2. CASE a[1] < b[1]
    BY <1>4, <2>2
  <2>3. CASE b[1] < a[1]
    BY <1>4, <2>3
  <2>4. CASE a[1] = b[1]
    BY <1>5, <1>6, <2>4
  <2> QED
    BY <2>1, <2>2, <2>3, <2>4
<1> QED
  BY <1>6 DEF ByteReadOnce

-----------------------------------------------------------------------------
(* The weighted choice.                                                    *)

LEMMA FamiliesFacts ==
  /\ Len(Families) = 11 /\ DOMAIN Families = 1..11
  /\ \A i, j \in 1..11 : Families[i] = Families[j] => i = j
  BY DEF Families

\* The sums are what their recursive definition says: there is such a function.
LEMMA SumsExist ==
  ASSUME NEW w
  PROVE  LET sum == WeightOfFirst(w)
         IN sum = [i \in 0..11 |-> IF i = 0 THEN 0 ELSE sum[i - 1] + w[Families[i]]]
<1> DEFINE a(i) == w[Families[i]]
           s1 == 0 + a(1)
           s2 == s1 + a(2)
           s3 == s2 + a(3)
           s4 == s3 + a(4)
           s5 == s4 + a(5)
           s6 == s5 + a(6)
           s7 == s6 + a(7)
           s8 == s7 + a(8)
           s9 == s8 + a(9)
           s10 == s9 + a(10)
           s11 == s10 + a(11)
           s(i) == CASE i = 0 -> 0 [] i = 1 -> s1 [] i = 2 -> s2 [] i = 3 -> s3
                     [] i = 4 -> s4 [] i = 5 -> s5 [] i = 6 -> s6 [] i = 7 -> s7
                     [] i = 8 -> s8 [] i = 9 -> s9 [] i = 10 -> s10 [] OTHER -> s11
           g == [i \in 0..11 |-> s(i)]
<1>1. /\ s(0) = 0 /\ s(1) = s(0) + a(1) /\ s(2) = s(1) + a(2) /\ s(3) = s(2) + a(3)
      /\ s(4) = s(3) + a(4) /\ s(5) = s(4) + a(5) /\ s(6) = s(5) + a(6)
      /\ s(7) = s(6) + a(7) /\ s(8) = s(7) + a(8) /\ s(9) = s(8) + a(9)
      /\ s(10) = s(9) + a(10) /\ s(11) = s(10) + a(11)
  <2> HIDE DEF a
  <2> QED
    OBVIOUS
<1> HIDE DEF a, s
<1>2. ASSUME NEW i \in 0..11, i # 0
      PROVE  s(i) = s(i - 1) + a(i)
  <2>1. i \in {1, 2, 3, 4, 5, 6, 7, 8, 9, 10, 11}
    BY <1>2
  <2> QED
    BY <1>1, <2>1
<1>3. ASSUME NEW i \in 0..11
      PROVE  g[i] = IF i = 0 THEN 0 ELSE g[i - 1] + a(i)
  <2>1. i # 0 => i - 1 \in 0..11
    OBVIOUS
  <2> QED
    BY <1>1, <1>2, <2>1
<1>4. g = [i \in 0..11 |-> g[i]]
  OBVIOUS
<1> HIDE DEF g
<1>5. g = [i \in 0..11 |-> IF i = 0 THEN 0 ELSE g[i - 1] + w[Families[i]]]
  BY <1>3, <1>4 DEF a
<1>6. g = [i \in 0..Len(Families) |-> IF i = 0 THEN 0 ELSE g[i - 1] + w[Families[i]]]
  BY <1>5, FamiliesFacts
<1>7. LET sum == WeightOfFirst(w)
      IN sum = [i \in 0..Len(Families) |-> IF i = 0 THEN 0 ELSE sum[i - 1] + w[Families[i]]]
  BY <1>6, Zenon DEF WeightOfFirst
<1> QED
  BY <1>7, FamiliesFacts

LEMMA SumFacts ==
  ASSUME NEW w \in Weighting
  PROVE  LET sum == WeightOfFirst(w)
         IN /\ sum[0] = 0 /\ \A i \in 0..11 : sum[i] \in Nat
            /\ \A i \in 1..11 : /\ w[Families[i]] \in Nat
                                /\ sum[i] = sum[i - 1] + w[Families[i]]
<1> DEFINE sum == WeightOfFirst(w)
           a(i) == w[Families[i]]
<1>1. sum = [i \in 0..11 |-> IF i = 0 THEN 0 ELSE sum[i - 1] + a(i)]
  BY SumsExist
<1>2. \A i \in 1..11 : a(i) \in Nat
  BY FamiliesFacts DEF Weighting, Family
<1> HIDE DEF sum, a
<1>3. sum[0] = 0
  BY <1>1
<1>4. ASSUME NEW i \in 1..11
      PROVE  sum[i] = sum[i - 1] + a(i)
  BY <1>1
<1>5. \A i \in 1..11 : sum[i - 1] \in Nat => sum[i] \in Nat
  BY <1>2, <1>4
<1>6. /\ sum[1] \in Nat /\ sum[2] \in Nat /\ sum[3] \in Nat /\ sum[4] \in Nat
      /\ sum[5] \in Nat /\ sum[6] \in Nat /\ sum[7] \in Nat /\ sum[8] \in Nat
      /\ sum[9] \in Nat /\ sum[10] \in Nat /\ sum[11] \in Nat
  BY <1>3, <1>5
<1>7. ASSUME NEW i \in 0..11
      PROVE  sum[i] \in Nat
  <2>1. i \in {0, 1, 2, 3, 4, 5, 6, 7, 8, 9, 10, 11}
    OBVIOUS
  <2> QED
    BY <1>3, <1>6, <2>1
<1> QED
  BY <1>2, <1>3, <1>4, <1>7 DEF sum, a

\* The sums grow.
LEMMA SumsGrow ==
  ASSUME NEW w \in Weighting
  PROVE  LET sum == WeightOfFirst(w)
         IN \A i, j \in 0..11 : i <= j => sum[i] <= sum[j]
<1> DEFINE sum == WeightOfFirst(w)
<1>1. /\ sum[0] = 0 /\ \A i \in 0..11 : sum[i] \in Nat
      /\ \A i \in 1..11 : sum[i - 1] <= sum[i]
  <2>1. /\ sum[0] = 0 /\ \A i \in 0..11 : sum[i] \in Nat
        /\ \A i \in 1..11 : /\ w[Families[i]] \in Nat
                            /\ sum[i] = sum[i - 1] + w[Families[i]]
    BY SumFacts
  <2> HIDE DEF sum
  <2>2. ASSUME NEW i \in 1..11
        PROVE  sum[i - 1] <= sum[i]
    <3>1. i - 1 \in 0..11
      OBVIOUS
    <3> QED
      BY <2>1, <3>1
  <2> QED
    BY <2>1, <2>2
<1> HIDE DEF sum
<1>2. /\ sum[0] <= sum[1] /\ sum[1] <= sum[2] /\ sum[2] <= sum[3] /\ sum[3] <= sum[4]
      /\ sum[4] <= sum[5] /\ sum[5] <= sum[6] /\ sum[6] <= sum[7] /\ sum[7] <= sum[8]
      /\ sum[8] <= sum[9] /\ sum[9] <= sum[10] /\ sum[10] <= sum[11]
  BY <1>1
<1>3. /\ sum[0] \in Nat /\ sum[1] \in Nat /\ sum[2] \in Nat /\ sum[3] \in Nat
      /\ sum[4] \in Nat /\ sum[5] \in Nat /\ sum[6] \in Nat /\ sum[7] \in Nat
      /\ sum[8] \in Nat /\ sum[9] \in Nat /\ sum[10] \in Nat /\ sum[11] \in Nat
  BY <1>1
<1>4. ASSUME NEW i \in 0..11, NEW j \in 0..11, i <= j
      PROVE  sum[i] <= sum[j]
  <2>1. /\ i \in {0, 1, 2, 3, 4, 5, 6, 7, 8, 9, 10, 11}
        /\ j \in {0, 1, 2, 3, 4, 5, 6, 7, 8, 9, 10, 11}
    OBVIOUS
  <2> QED
    BY <1>2, <1>3, <1>4, <2>1
<1> QED
  BY <1>4 DEF sum

\* What is left of a roll when the loop comes to a family: the weights of those
\* before it have been taken off.
LEMMA RollLeftIs ==
  ASSUME NEW w \in Weighting, NEW roll \in Int
  PROVE  \A i \in 1..11 : RollLeft(w, roll)[i] = roll - WeightOfFirst(w)[i - 1]
<1> DEFINE sum == WeightOfFirst(w)
           a(i) == w[Families[i]]
           g == [i \in 1..11 |-> roll - sum[i - 1]]
           Steps(f) == f = [i \in DOMAIN Families |->
                              IF i = 1 THEN roll ELSE f[i - 1] - w[Families[i - 1]]]
<1>1. /\ sum[0] = 0 /\ \A i \in 0..11 : sum[i] \in Nat
      /\ \A i \in 1..11 : a(i) \in Nat /\ sum[i] = sum[i - 1] + a(i)
  BY SumFacts
<1> HIDE DEF sum, a
<1>2. ASSUME NEW i \in 1..11
      PROVE  g[i] = IF i = 1 THEN roll ELSE g[i - 1] - a(i - 1)
  <2>1. CASE i = 1
    BY <1>1, <2>1
  <2>2. CASE i # 1
    <3>1. i - 1 \in 1..11 /\ (i - 1) - 1 \in 0..11
      BY <2>2
    <3>2. sum[i - 1] = sum[(i - 1) - 1] + a(i - 1) /\ a(i - 1) \in Nat
      BY <1>1, <3>1
    <3>3. sum[(i - 1) - 1] \in Nat
      BY <1>1, <3>1
    <3>4. g[i] = roll - sum[i - 1] /\ g[i - 1] = roll - sum[(i - 1) - 1]
      BY <3>1
    <3> QED
      BY <2>2, <3>2, <3>3, <3>4
  <2> QED
    BY <2>1, <2>2
<1>3. g = [i \in 1..11 |-> g[i]]
  OBVIOUS
<1> HIDE DEF g
<1>4. g = [i \in 1..11 |-> IF i = 1 THEN roll ELSE g[i - 1] - a(i - 1)]
  BY <1>2, <1>3
<1>5. Steps(g)
  BY <1>4, FamiliesFacts DEF a
<1>6. Steps(RollLeft(w, roll))
  BY <1>5, Zenon DEF RollLeft
<1> DEFINE left == RollLeft(w, roll)
<1>7. /\ left[1] = roll
      /\ \A i \in 2..11 : left[i] = left[i - 1] - a(i - 1)
  <2>1. left = [i \in 1..11 |-> IF i = 1 THEN roll ELSE left[i - 1] - a(i - 1)]
    BY <1>6, FamiliesFacts DEF a
  <2> HIDE DEF left
  <2> QED
    BY <2>1
<1> HIDE DEF left, Steps
<1>8. left[1] = roll - sum[0]
  BY <1>1, <1>7
<1>9. \A i \in 2..11 : left[i - 1] = roll - sum[(i - 1) - 1] => left[i] = roll - sum[i - 1]
  <2> SUFFICES ASSUME NEW i \in 2..11, left[i - 1] = roll - sum[(i - 1) - 1]
               PROVE  left[i] = roll - sum[i - 1]
    OBVIOUS
  <2>1. i - 1 \in 1..11 /\ (i - 1) - 1 \in 0..11
    OBVIOUS
  <2>2. sum[i - 1] = sum[(i - 1) - 1] + a(i - 1) /\ a(i - 1) \in Nat
    BY <1>1, <2>1
  <2>3. sum[(i - 1) - 1] \in Nat
    BY <1>1, <2>1
  <2> QED
    BY <1>7, <2>2, <2>3
<1>10. /\ left[2] = roll - sum[1] /\ left[3] = roll - sum[2] /\ left[4] = roll - sum[3]
       /\ left[5] = roll - sum[4] /\ left[6] = roll - sum[5] /\ left[7] = roll - sum[6]
       /\ left[8] = roll - sum[7] /\ left[9] = roll - sum[8] /\ left[10] = roll - sum[9]
       /\ left[11] = roll - sum[10]
  BY <1>8, <1>9
<1>11. ASSUME NEW i \in 1..11
       PROVE  left[i] = roll - sum[i - 1]
  <2>1. i \in {1, 2, 3, 4, 5, 6, 7, 8, 9, 10, 11}
    OBVIOUS
  <2> QED
    BY <1>8, <1>10, <2>1
<1> QED
  BY <1>11 DEF left, sum

\* The loop goes on from family to family until one has more weight than is left.
LEMMA FoundFromIs ==
  ASSUME NEW w, NEW roll
  PROVE  \A i \in 1..11 :
           FoundFrom(w, roll)[i] =
             IF Finds(w[Families[i]], RollLeft(w, roll)[i]) THEN Families[i]
             ELSE FoundFrom(w, roll)[i + 1]
<1> DEFINE left == RollLeft(w, roll)
           Here(i) == Finds(w[Families[i]], left[i])
           f12 == "none"
           f11 == IF Here(11) THEN Families[11] ELSE f12
           f10 == IF Here(10) THEN Families[10] ELSE f11
           f9 == IF Here(9) THEN Families[9] ELSE f10
           f8 == IF Here(8) THEN Families[8] ELSE f9
           f7 == IF Here(7) THEN Families[7] ELSE f8
           f6 == IF Here(6) THEN Families[6] ELSE f7
           f5 == IF Here(5) THEN Families[5] ELSE f6
           f4 == IF Here(4) THEN Families[4] ELSE f5
           f3 == IF Here(3) THEN Families[3] ELSE f4
           f2 == IF Here(2) THEN Families[2] ELSE f3
           f1 == IF Here(1) THEN Families[1] ELSE f2
           s(i) == CASE i = 1 -> f1 [] i = 2 -> f2 [] i = 3 -> f3 [] i = 4 -> f4
                     [] i = 5 -> f5 [] i = 6 -> f6 [] i = 7 -> f7 [] i = 8 -> f8
                     [] i = 9 -> f9 [] i = 10 -> f10 [] i = 11 -> f11 [] OTHER -> f12
           Next12(i, f) == IF i > 11 THEN "none"
                           ELSE IF Here(i) THEN Families[i] ELSE f
           g == [i \in 1..12 |-> s(i)]
           Steps(f) == f = [i \in 1..(Len(Families) + 1) |->
                              IF i > Len(Families) THEN "none"
                              ELSE IF Finds(w[Families[i]], left[i]) THEN Families[i]
                              ELSE f[i + 1]]
<1>1. /\ s(12) = "none" /\ s(11) = Next12(11, s(12)) /\ s(10) = Next12(10, s(11))
      /\ s(9) = Next12(9, s(10)) /\ s(8) = Next12(8, s(9)) /\ s(7) = Next12(7, s(8))
      /\ s(6) = Next12(6, s(7)) /\ s(5) = Next12(5, s(6)) /\ s(4) = Next12(4, s(5))
      /\ s(3) = Next12(3, s(4)) /\ s(2) = Next12(2, s(3)) /\ s(1) = Next12(1, s(2))
  <2> HIDE DEF Here
  <2> QED
    OBVIOUS
<1> HIDE DEF Here, s
<1>2. ASSUME NEW i \in 1..12
      PROVE  g[i] = Next12(i, g[i + 1])
  <2>1. CASE i = 12
    BY <1>1, <2>1
  <2>2. CASE i # 12
    <3>1. i \in {1, 2, 3, 4, 5, 6, 7, 8, 9, 10, 11} /\ i + 1 \in 1..12
      BY <2>2
    <3>2. s(i) = Next12(i, s(i + 1))
      <4> HIDE DEF Next12
      <4> QED
        BY <1>1, <3>1
    <3>3. g[i] = s(i) /\ g[i + 1] = s(i + 1)
      BY <3>1
    <3> QED
      BY <3>2, <3>3
  <2> QED
    BY <2>1, <2>2
<1>3. g = [i \in 1..12 |-> g[i]]
  OBVIOUS
<1> HIDE DEF g
<1>4. g = [i \in 1..12 |-> Next12(i, g[i + 1])]
  BY <1>2, <1>3
<1>5. Steps(g)
  <2>1. 1..(Len(Families) + 1) = 1..12 /\ Len(Families) = 11
    BY FamiliesFacts
  <2> QED
    BY <1>4, <2>1, Zenon DEF Here
<1>6. Steps(FoundFrom(w, roll))
  BY <1>5, Zenon DEF FoundFrom
<1> DEFINE found == FoundFrom(w, roll)
<1>7. found = [i \in 1..12 |-> Next12(i, found[i + 1])]
  <2>1. 1..(Len(Families) + 1) = 1..12 /\ Len(Families) = 11
    BY FamiliesFacts
  <2> QED
    BY <1>6, <2>1, Zenon DEF Here
<1> HIDE DEF found, Next12
<1>8. \A i \in 1..11 : found[i] = Next12(i, found[i + 1])
  BY <1>7
<1>9. \A i \in 1..11 : \A f : Next12(i, f) = IF Here(i) THEN Families[i] ELSE f
  BY DEF Next12
<1> QED
  BY <1>8, <1>9, Zenon DEF found, Here, left

\* A roll less than the total is found where it is at least the weights before
\* and less than those with the family's own.
LEMMA FamilyOfRoll ==
  ASSUME NEW w \in Weighting, NEW roll \in 0..(WeightOfFirst(w)[11] - 1)
  PROVE  LET sum == WeightOfFirst(w)
         IN \E i \in 1..11 : /\ sum[i - 1] <= roll /\ roll < sum[i]
                             /\ FamilyAt(w, roll) = Families[i]
<1> DEFINE sum == WeightOfFirst(w)
           found == FoundFrom(w, roll)
           Has(i) == sum[i - 1] <= roll /\ roll < sum[i] /\ found[1] = Families[i]
           Reached(i) == sum[i - 1] <= roll /\ found[1] = found[i]
<1>1. /\ sum[0] = 0 /\ \A i \in 0..11 : sum[i] \in Nat
      /\ \A i \in 1..11 : w[Families[i]] \in Nat /\ sum[i] = sum[i - 1] + w[Families[i]]
  BY SumFacts
<1>2. \A i \in 1..11 :
        found[i] = IF Finds(w[Families[i]], RollLeft(w, roll)[i]) THEN Families[i]
                   ELSE found[i + 1]
  BY FoundFromIs
<1>3. roll \in Int /\ roll >= 0 /\ roll < sum[11]
  <2>1. sum[11] \in Nat
    BY <1>1
  <2> HIDE DEF sum
  <2> QED
    BY <2>1 DEF sum
<1>4. \A i \in 1..11 : RollLeft(w, roll)[i] = roll - sum[i - 1]
  BY <1>3, RollLeftIs
<1> HIDE DEF sum, found
<1>5. ASSUME NEW i \in 1..11
      PROVE  Finds(w[Families[i]], RollLeft(w, roll)[i]) <=> roll < sum[i]
  <2>1. i - 1 \in 0..11 /\ i \in 0..11
    OBVIOUS
  <2>2. sum[i - 1] \in Nat /\ w[Families[i]] \in Nat /\ sum[i] = sum[i - 1] + w[Families[i]]
    BY <1>1, <2>1
  <2>3. RollLeft(w, roll)[i] = roll - sum[i - 1]
    BY <1>4
  <2> QED
    BY <1>3, <2>2, <2>3 DEF Finds
<1>6. ASSUME NEW i \in 1..11, Reached(i)
      PROVE  Has(i) \/ Reached(i + 1)
  <2>1. i \in 0..11 /\ (i + 1) - 1 = i
    OBVIOUS
  <2>2. sum[i] \in Nat
    BY <1>1, <2>1
  <2>3. CASE roll < sum[i]
    BY <1>2, <1>5, <1>6, <2>3
  <2>4. CASE ~(roll < sum[i])
    BY <1>2, <1>3, <1>5, <1>6, <2>1, <2>2, <2>4
  <2> QED
    BY <2>3, <2>4
<1>7. Reached(1) /\ ~Reached(12)
  BY <1>1, <1>3
<1>8. FamilyAt(w, roll) = found[1]
  BY DEF FamilyAt, found
<1> HIDE DEF Has, Reached
<1>9. \E i \in 1..11 : Has(i)
  <2> SUFFICES ASSUME \A i \in 1..11 : ~Has(i) PROVE FALSE
    OBVIOUS
  <2>1. \A i \in 1..11 : Reached(i) => Reached(i + 1)
    BY <1>6
  <2>2. Reached(2) /\ Reached(3) /\ Reached(4) /\ Reached(5) /\ Reached(6)
    BY <1>7, <2>1
  <2>3. Reached(7) /\ Reached(8) /\ Reached(9) /\ Reached(10) /\ Reached(11)
    BY <2>1, <2>2
  <2> QED
    BY <1>7, <2>1, <2>3
<1> QED
  BY <1>8, <1>9 DEF Has, sum

\* As many rolls draw a family as it has weight.
LEMMA RollsOfFamily ==
  ASSUME NEW w \in Weighting, NEW k \in 1..11
  PROVE  Cardinality({roll \in 0..(Total(w) - 1) : FamilyAt(w, roll) = Families[k]})
           = w[Families[k]]
<1> DEFINE sum == WeightOfFirst(w)
           Has(roll, i) == sum[i - 1] <= roll /\ roll < sum[i]
<1>1. /\ sum[0] = 0 /\ \A i \in 0..11 : sum[i] \in Nat
      /\ \A i \in 1..11 : /\ w[Families[i]] \in Nat
                          /\ sum[i] = sum[i - 1] + w[Families[i]]
  BY SumFacts
<1>2. \A i, j \in 0..11 : i <= j => sum[i] <= sum[j]
  BY SumsGrow
<1>3. \A roll \in 0..(sum[11] - 1) :
        \E i \in 1..11 : Has(roll, i) /\ FamilyAt(w, roll) = Families[i]
  BY FamilyOfRoll
<1>4. Total(w) = sum[11]
  BY FamiliesFacts DEF Total
<1> DEFINE rolls == {roll \in 0..(sum[11] - 1) : FamilyAt(w, roll) = Families[k]}
           before == sum[k - 1]
           upTo == sum[k]
           own == w[Families[k]]
<1>5. /\ before \in Nat /\ upTo \in Nat /\ own \in Nat /\ upTo = before + own
      /\ upTo <= sum[11] /\ sum[11] \in Nat
  <2> HIDE DEF sum
  <2>1. k - 1 \in 0..11 /\ k \in 0..11 /\ 11 \in 0..11 /\ k <= 11
    OBVIOUS
  <2> QED
    BY <1>1, <1>2, <2>1
<1> HIDE DEF sum
<1>6. ASSUME NEW roll \in Int, NEW i \in 1..11, NEW j \in 1..11, Has(roll, i), Has(roll, j)
      PROVE  i = j
  <2>1. ~(i < j)
    <3>1. i < j => i <= j - 1 /\ j - 1 \in 0..11 /\ i \in 0..11
      OBVIOUS
    <3>2. sum[i] \in Nat /\ sum[j - 1] \in Nat
      BY <1>1
    <3> QED
      BY <1>2, <1>6, <3>1, <3>2
  <2>2. ~(j < i)
    <3>1. j < i => j <= i - 1 /\ i - 1 \in 0..11 /\ j \in 0..11
      OBVIOUS
    <3>2. sum[j] \in Nat /\ sum[i - 1] \in Nat
      BY <1>1
    <3> QED
      BY <1>2, <1>6, <3>1, <3>2
  <2> QED
    BY <2>1, <2>2
<1>7. ASSUME NEW roll \in 0..(sum[11] - 1)
      PROVE  FamilyAt(w, roll) = Families[k] <=> Has(roll, k)
  <2>1. PICK i \in 1..11 : Has(roll, i) /\ FamilyAt(w, roll) = Families[i]
    BY <1>3
  <2>2. Families[i] = Families[k] <=> i = k
    BY FamiliesFacts
  <2>3. Has(roll, k) => i = k
    <3>1. roll \in Int
      BY <1>5
    <3> HIDE DEF Has
    <3> QED
      BY <1>6, <2>1, <3>1
  <2> HIDE DEF Has
  <2> QED
    BY <2>1, <2>2, <2>3
<1>8. rolls = before..(upTo - 1)
  <2>1. ASSUME NEW roll
        PROVE  roll \in rolls <=> roll \in before..(upTo - 1)
    <3>1. roll \in rolls <=> roll \in 0..(sum[11] - 1) /\ Has(roll, k)
      BY <1>7
    <3>2. Has(roll, k) <=> before <= roll /\ roll < upTo
      OBVIOUS
    <3> HIDE DEF Has, before, upTo, rolls
    <3> QED
      BY <1>5, <3>1, <3>2
  <2> QED
    BY <2>1, Zenon
<1>9. Cardinality(before..(upTo - 1)) = own
  <2> HIDE DEF before, upTo, own
  <2>1. upTo - 1 \in Int /\ before \in Int
    BY <1>5
  <2>2. Cardinality(before..(upTo - 1))
          = IF before > upTo - 1 THEN 0 ELSE (upTo - 1) - before + 1
    BY <2>1, FS_Interval
  <2> QED
    BY <1>5, <2>2
<1> QED
  BY <1>4, <1>8, <1>9

LEMMA IInvDrawsFollowWeights == IInv => DrawsFollowWeights
<1> SUFFICES ASSUME IInv, NEW family \in Family
             PROVE  Cardinality({roll \in 0..(Total(weights) - 1) :
                                   FamilyAt(weights, roll) = family}) = weights[family]
  BY DEF DrawsFollowWeights
<1>1. weights \in Weighting
  <2>1. Profiles \subseteq Weighting
    BY ByteSourceAssumption, SMT DEF ByteSourceAssumption
  <2> QED
    BY <2>1 DEF IInv
<1>2. PICK k \in 1..11 : family = Families[k]
  BY FamiliesFacts, Zenon DEF Family
<1>3. Cardinality({roll \in 0..(Total(weights) - 1) :
                     FamilyAt(weights, roll) = Families[k]}) = weights[Families[k]]
  BY <1>1, RollsOfFamily
<1> QED
  BY <1>2, <1>3

-----------------------------------------------------------------------------
\* SourceTypeOK always holds: whatever is nested and however it ends, every
\* cursor stays within its data and its data within the input, so slicing
\* (source.rs, with_unstructured) never panics.
THEOREM SourcesStayInBounds == Spec => []SourceTypeOK
  BY Invariance, IInvSourceTypeOK, PTL

\* ByteReadOnce always holds: no byte of the input is left to two sources of
\* the machines at work, so the forks of build_init_code are independent.
THEOREM BytesReadOnce == Spec => []ByteReadOnce
  BY Invariance, IInvByteReadOnce, PTL

\* DrawsFollowWeights always holds: with any weights, each family is drawn by
\* as many rolls as it has weight; none of weight 0 is drawn and no roll escapes
\* (weighted_variant_index, its unreachable!).
THEOREM RollsFollowWeights == Spec => []DrawsFollowWeights
  BY Invariance, IInvDrawsFollowWeights, PTL
=============================================================================
