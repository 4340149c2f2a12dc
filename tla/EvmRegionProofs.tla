-------------------------- MODULE EvmRegionProofs --------------------------
(***************************************************************************)
(* Proofs about EvmRegion, for every opcode and any machine state at       *)
(* entry.  The invariant gives the frame in closed form after each number  *)
(* of instructions: how far the MSTORE chain of a CREATE has got, then     *)
(* how many operands are pushed.                                           *)
(***************************************************************************)
EXTENDS EvmRegion, EvmProofs, SequenceTheorems

-----------------------------------------------------------------------------
(* Memory prices.                                                          *)

LEMMA SatMulMonotone ==
  ASSUME NEW a \in Nat, NEW b \in Nat, NEW c \in Nat, NEW d \in Nat,
         a <= c, b <= d
  PROVE  SatMul(a, b) <= SatMul(c, d)
<1>1. U64Max \in Nat
  BY TableConstants
<1>2. a * b <= c * d /\ a * b \in Nat /\ c * d \in Nat
  <2>1. a * b <= c * b /\ c * b <= c * d
    BY SMT
  <2>2. a * b \in Nat /\ c * b \in Nat /\ c * d \in Nat
    OBVIOUS
  <2> QED
    BY <2>1, <2>2
<1>3. CASE c # 0 /\ d > U64Max \div c
  BY <1>1, <1>3, SatMulBound DEF SatMul
<1>4. CASE ~(c # 0 /\ d > U64Max \div c)
  <2>1. SatMul(c, d) = c * d
    BY <1>4 DEF SatMul
  <2>2. SatMul(a, b) <= a * b
    BY SatMulAtMost
  <2>3. SatMul(a, b) \in Nat
    BY SaturatingType
  <2> QED
    BY <1>2, <2>1, <2>2, <2>3
<1> QED
  BY <1>3, <1>4

LEMMA SatAddMonotone ==
  ASSUME NEW a \in Nat, NEW b \in Nat, NEW c \in Nat, NEW d \in Nat,
         a <= c, b <= d
  PROVE  SatAdd(a, b) <= SatAdd(c, d)
<1>1. U64Max \in Nat
  BY TableConstants
<1> QED
  BY <1>1 DEF SatAdd

LEMMA WordCostMonotone ==
  ASSUME NEW a \in Nat, NEW b \in Nat, a <= b
  PROVE  MemoryWordCost(a) <= MemoryWordCost(b)
<1>1. Words(a) \in Nat /\ Words(b) \in Nat /\ Words(a) <= Words(b)
  <2>1. /\ SatAdd(a, 31) \in Nat /\ SatAdd(b, 31) \in Nat
        /\ SatAdd(a, 31) <= SatAdd(b, 31)
    BY SaturatingType, SatAddMonotone
  <2> QED
    BY <2>1 DEF Words
<1>2. ASSUME NEW v \in Nat
      PROVE  SatMul(3, v) \in Nat /\ SatMul(v, v) \in Nat /\ SatMul(v, v) \div 512 \in Nat
  <2>1. SatMul(3, v) \in Nat /\ SatMul(v, v) \in Nat
    BY SaturatingType
  <2> QED
    BY <2>1
<1>3. /\ SatMul(3, Words(a)) <= SatMul(3, Words(b))
      /\ SatMul(Words(a), Words(a)) <= SatMul(Words(b), Words(b))
  BY <1>1, SatMulMonotone
<1>4. SatMul(Words(a), Words(a)) \div 512 <= SatMul(Words(b), Words(b)) \div 512
  <2> DEFINE X == SatMul(Words(a), Words(a))
             Y == SatMul(Words(b), Words(b))
  <2>1. X \in Nat /\ Y \in Nat /\ X <= Y
    BY <1>1, <1>2, <1>3
  <2> HIDE DEF X, Y
  <2>2. X \div 512 <= Y \div 512
    BY <2>1
  <2> QED
    BY <2>2 DEF X, Y
<1> DEFINE Linear(v) == SatMul(3, v)
           Square(v) == SatMul(v, v) \div 512
<1>5. /\ Linear(Words(a)) \in Nat /\ Square(Words(a)) \in Nat
      /\ Linear(Words(b)) \in Nat /\ Square(Words(b)) \in Nat
      /\ Linear(Words(a)) <= Linear(Words(b)) /\ Square(Words(a)) <= Square(Words(b))
  BY <1>1, <1>2, <1>3, <1>4
<1> HIDE DEF Linear, Square
<1>6. SatAdd(Linear(Words(a)), Square(Words(a))) <= SatAdd(Linear(Words(b)), Square(Words(b)))
  BY <1>5, SatAddMonotone
<1> QED
  BY <1>6 DEF MemoryWordCost, Linear, Square

LEMMA NothingTouched ==
  ASSUME NEW m \in Nat
  PROVE  Growth(0, m) = 0 /\ Larger(m, 0) = m
<1>1. MemoryWordCost(0) = 0
  BY NoMemoryIsFree
<1>2. MemoryWordCost(m) \in Nat
  BY WordTypes
<1> QED
  BY <1>1, <1>2 DEF Growth, SatSub, Larger

LEMMA GrowthType ==
  ASSUME NEW t \in Nat, NEW m \in Nat
  PROVE  Growth(t, m) \in Nat
BY WordTypes, SaturatingType DEF Growth

\* Memory grown in two steps costs what it costs in one.
LEMMA GrowthInSteps ==
  ASSUME NEW m \in Nat, NEW t \in Nat, NEW u \in Nat, t <= u
  PROVE  Growth(t, m) + Growth(u, Larger(m, t)) = Growth(u, m)
<1>1. /\ MemoryWordCost(m) \in Nat /\ MemoryWordCost(t) \in Nat
      /\ MemoryWordCost(u) \in Nat /\ MemoryWordCost(t) <= MemoryWordCost(u)
  BY WordTypes, WordCostMonotone
<1>2. CASE m > t
  <2>1. MemoryWordCost(t) <= MemoryWordCost(m)
    BY <1>2, WordCostMonotone
  <2> QED
    BY <1>1, <1>2, <2>1 DEF Growth, SatSub, Larger
<1>3. CASE ~(m > t)
  <2>1. MemoryWordCost(m) <= MemoryWordCost(t)
    BY <1>3, WordCostMonotone
  <2> QED
    BY <1>1, <1>3, <2>1 DEF Growth, SatSub, Larger
<1> QED
  BY <1>2, <1>3

-----------------------------------------------------------------------------
(* The region of an opcode, instruction by instruction.                    *)

Instructions ==
  [pops : Nat, pushes : Nat, prices : SUBSET Nat, touch : Nat, sentry : Nat]

Operation(o) == Instruction(Pops(o), Pushes(o), Prices(o), Touch(o), Sentry(o))

LEMMA OperationType ==
  ASSUME NEW o \in Opcode
  PROVE  Operation(o) \in Instructions
<1>1. Pops(o) \in Nat /\ Pushes(o) \in Nat
  BY RegionStack
<1>2. Prices(o) \subseteq Nat
  <2>1. 0 \in 0..U64Max
    BY TableConstants
  <2> QED
    BY <2>1, RegionTypes
<1>3. Touch(o) \in Nat
  BY RegionMemory, TableConstants
<1>4. Sentry(o) \in Nat
  BY DEF Sentry
<1> QED
  BY <1>1, <1>2, <1>3, <1>4 DEF Operation, Instruction, Instructions

LEMMA TwoParts ==
  ASSUME NEW s \in Seq(Instructions), NEW t \in Seq(Instructions),
         NEW m \in Nat, NEW n \in Nat, Len(s) = m, Len(t) = n
  PROVE  /\ s \o t \in Seq(Instructions)
         /\ Len(s \o t) = m + n
         /\ \A i \in 1..(m + n) :
              (s \o t)[i] = IF i <= m THEN s[i] ELSE t[i - m]
<1>1. /\ s \o t \in Seq(Instructions)
      /\ Len(s \o t) = Len(s) + Len(t)
      /\ \A i \in 1..(Len(s) + Len(t)) :
           (s \o t)[i] = IF i <= Len(s) THEN s[i] ELSE t[i - Len(s)]
  BY ConcatProperties
<1> QED
  BY <1>1

LEMMA RegionLayout ==
  ASSUME NEW o \in Opcode
  PROVE  /\ ChainWords(o) \in Nat /\ Inline(o) \in Nat
         /\ Region(o) \in Seq(Instructions)
         /\ Len(Region(o)) = 3 * ChainWords(o) + Inline(o) + 1
         /\ \A i \in 1..(3 * ChainWords(o)) :
              Region(o)[i] = IF i % 3 = 0 THEN Instruction(2, 0, {3}, 32 * (i \div 3), 0)
                             ELSE PushInstruction(3)
         /\ \A i \in 1..Inline(o) :
              Region(o)[3 * ChainWords(o) + i] = PushInstruction(InlinePrice(o, i))
         /\ Region(o)[3 * ChainWords(o) + Inline(o) + 1] = Operation(o)
<1> DEFINE W == ChainWords(o)
           C == 3 * W
           I == Inline(o)
           Operands == [i \in 1..I |-> PushInstruction(InlinePrice(o, i))]
           Last == <<Operation(o)>>
<1>1. W \in Nat /\ I \in Nat /\ C \in Nat
  <2>1. W \in Nat
    BY OpcodeParts, WordTypes DEF ChainWords
  <2>2. I \in Nat
    BY RegionStack
  <2> QED
    BY <2>1, <2>2
<1>2. ASSUME NEW price \in Nat
      PROVE  PushInstruction(price) \in Instructions
  BY DEF PushInstruction, Instruction, Instructions
<1>3. ASSUME NEW i \in 1..C
      PROVE  /\ Chain(o)[i] = IF i % 3 = 0 THEN Instruction(2, 0, {3}, 32 * (i \div 3), 0)
                              ELSE PushInstruction(3)
             /\ Chain(o)[i] \in Instructions
  <2>1. Chain(o)[i] = IF i % 3 = 0 THEN Instruction(2, 0, {3}, 32 * (i \div 3), 0)
                      ELSE PushInstruction(3)
    BY DEF Chain
  <2>2. 32 * (i \div 3) \in Nat
    BY <1>1
  <2>3. Instruction(2, 0, {3}, 32 * (i \div 3), 0) \in Instructions
    BY <2>2 DEF Instruction, Instructions
  <2> QED
    BY <1>2, <2>1, <2>3
<1>4. Chain(o) \in Seq(Instructions) /\ Len(Chain(o)) = C
  <2>1. Chain(o) \in [1..C -> Instructions]
    BY <1>3 DEF Chain
  <2> QED
    BY <1>1, <2>1 DEF Chain
<1>5. Operands \in Seq(Instructions) /\ Len(Operands) = I
  <2>1. ASSUME NEW i \in 1..I
        PROVE  InlinePrice(o, i) \in Nat
    BY DEF InlinePrice
  <2>2. Operands \in [1..I -> Instructions]
    BY <1>2, <2>1
  <2> QED
    BY <1>1, <2>2
<1>6. Last \in Seq(Instructions) /\ Len(Last) = 1 /\ Last[1] = Operation(o)
  BY OperationType
<1>7. Region(o) = (Chain(o) \o Operands) \o Last
  BY DEF Region, Operation
<1> HIDE DEF Operands, Last, C
<1>8. /\ Chain(o) \o Operands \in Seq(Instructions)
      /\ Len(Chain(o) \o Operands) = C + I
      /\ \A i \in 1..(C + I) : (Chain(o) \o Operands)[i] =
           IF i <= C THEN Chain(o)[i] ELSE Operands[i - C]
  BY <1>1, <1>4, <1>5, TwoParts
<1>9. /\ Region(o) \in Seq(Instructions)
      /\ Len(Region(o)) = C + I + 1
      /\ \A i \in 1..(C + I + 1) : Region(o)[i] =
           IF i <= C + I THEN (Chain(o) \o Operands)[i] ELSE Last[i - (C + I)]
  <2> DEFINE s == Chain(o) \o Operands
             M == C + I
  <2>1. s \in Seq(Instructions) /\ Len(s) = M /\ M \in Nat
    BY <1>1, <1>8
  <2>2. Last \in Seq(Instructions) /\ Len(Last) = 1 /\ 1 \in Nat
    BY <1>6
  <2>3. Region(o) = s \o Last
    BY <1>7
  <2> HIDE DEF s, M
  <2>4. /\ s \o Last \in Seq(Instructions)
        /\ Len(s \o Last) = M + 1
        /\ \A i \in 1..(M + 1) :
             (s \o Last)[i] = IF i <= M THEN s[i] ELSE Last[i - M]
    BY <2>1, <2>2, TwoParts
  <2> QED
    BY <2>3, <2>4 DEF s, M
<1>10. ASSUME NEW i \in 1..C
       PROVE  Region(o)[i] = IF i % 3 = 0 THEN Instruction(2, 0, {3}, 32 * (i \div 3), 0)
                             ELSE PushInstruction(3)
  <2>1. i \in 1..(C + I) /\ i \in 1..(C + I + 1) /\ i <= C /\ i <= C + I
    BY <1>1
  <2>2. Region(o)[i] = Chain(o)[i]
    BY <1>8, <1>9, <2>1
  <2> QED
    BY <1>3, <2>2
<1>11. ASSUME NEW i \in 1..I
       PROVE  Region(o)[C + i] = PushInstruction(InlinePrice(o, i))
  <2>1. /\ C + i \in 1..(C + I) /\ C + i \in 1..(C + I + 1)
        /\ ~(C + i <= C) /\ C + i <= C + I /\ (C + i) - C = i
    BY <1>1
  <2>2. Region(o)[C + i] = Operands[i]
    BY <1>8, <1>9, <2>1
  <2> QED
    BY <2>2 DEF Operands
<1>12. Region(o)[C + I + 1] = Operation(o)
  <2>1. /\ C + I + 1 \in 1..(C + I + 1) /\ ~(C + I + 1 <= C + I)
        /\ (C + I + 1) - (C + I) = 1
    BY <1>1
  <2> QED
    BY <1>6, <1>9, <2>1
<1> QED
  BY <1>1, <1>9, <1>10, <1>11, <1>12 DEF C

-----------------------------------------------------------------------------
(* The frame in closed form: what p instructions make of the entry state.  *)

ChainLen(o) == 3 * ChainWords(o)
WordsLaid(o, p) == IF p < ChainLen(o) THEN p \div 3 ELSE ChainWords(o)

Machines ==
  [stack : 0..StackLimit, memory : 0..U64Max, gas : 0..U64Max]

HeightAfter(o, e, p) ==
  e.stack + (IF p < ChainLen(o) THEN p % 3 ELSE p - ChainLen(o))
MemoryAfter(o, e, p) == Larger(e.memory, 32 * WordsLaid(o, p))

\* Every instruction before the operation costs 3, but for one PUSH0.
Saved(o, p) == IF o.kind = "Call" /\ p - ChainLen(o) >= 5 THEN 1 ELSE 0
Paid(o, p) == 3 * p - Saved(o, p)
GasAfter(o, e, p) == e.gas - Paid(o, p) - Growth(32 * WordsLaid(o, p), e.memory)

FrameAfter(o, e, p) ==
  [stack |-> HeightAfter(o, e, p), memory |-> MemoryAfter(o, e, p),
   gas |-> GasAfter(o, e, p)]

\* All but the operation itself.
Prefix(o) == ChainLen(o) + Inline(o)

LEMMA PrefixTypes ==
  ASSUME NEW o \in Opcode
  PROVE  /\ ChainWords(o) \in Nat /\ Inline(o) \in Nat
         /\ ChainLen(o) \in Nat /\ Prefix(o) \in Nat
         /\ ChainLen(o) = 3 * ChainWords(o) /\ Prefix(o) = ChainLen(o) + Inline(o)
         /\ \A p \in 0..Prefix(o) :
              WordsLaid(o, p) \in Nat /\ WordsLaid(o, p) <= ChainWords(o) /\ Paid(o, p) \in Nat
         /\ WordsLaid(o, 0) = 0 /\ WordsLaid(o, Prefix(o)) = ChainWords(o)
         /\ o.kind = "Call" => ChainWords(o) = 0
<1>1. ChainWords(o) \in Nat /\ Inline(o) \in Nat
  BY RegionLayout
<1>2. ChainLen(o) = 3 * ChainWords(o) /\ Prefix(o) = ChainLen(o) + Inline(o)
  BY DEF ChainLen, Prefix
<1>3. o.kind = "Call" => ChainWords(o) = 0
  BY DEF ChainWords, Creates
<1>4. ASSUME NEW p \in 0..Prefix(o)
      PROVE  /\ WordsLaid(o, p) \in Nat /\ WordsLaid(o, p) <= ChainWords(o)
             /\ Paid(o, p) \in Nat
  BY <1>1, <1>2, <1>3 DEF WordsLaid, Paid, Saved
<1>5. WordsLaid(o, 0) = 0 /\ WordsLaid(o, Prefix(o)) = ChainWords(o)
  BY <1>1, <1>2 DEF WordsLaid
<1> QED
  BY <1>1, <1>2, <1>3, <1>4, <1>5

LEMMA FrameAtEntry ==
  ASSUME NEW o \in Opcode, NEW e \in Machines
  PROVE  FrameAfter(o, e, 0) = e
<1>1. e.stack \in Nat /\ e.memory \in Nat /\ e.gas \in Int
  BY TableConstants DEF Machines
<1>2. ChainLen(o) \in Nat /\ WordsLaid(o, 0) = 0
  BY PrefixTypes
<1>3. HeightAfter(o, e, 0) = e.stack
  BY <1>1, <1>2 DEF HeightAfter
<1>4. Growth(0, e.memory) = 0 /\ Larger(e.memory, 0) = e.memory
  BY <1>1, NothingTouched
<1>5. Paid(o, 0) = 0
  <2>1. ~(0 - ChainLen(o) >= 5)
    BY <1>2
  <2>2. Saved(o, 0) = 0
    BY <2>1 DEF Saved
  <2> QED
    BY <2>2 DEF Paid
<1>6. MemoryAfter(o, e, 0) = e.memory /\ GasAfter(o, e, 0) = e.gas
  BY <1>1, <1>2, <1>4, <1>5 DEF MemoryAfter, GasAfter
<1>7. FrameAfter(o, e, 0) = [stack |-> e.stack, memory |-> e.memory, gas |-> e.gas]
  BY <1>3, <1>6 DEF FrameAfter
<1> QED
  BY <1>7 DEF Machines

\* The stack never leaves the strip that Rise gives, and the gas never falls
\* below what it is before the operation.
LEMMA Strip ==
  ASSUME NEW o \in Opcode, NEW e \in Machines, NEW p \in 0..Prefix(o)
  PROVE  /\ HeightAfter(o, e, p) \in Nat
         /\ HeightAfter(o, e, p) >= e.stack
         /\ HeightAfter(o, e, p) <= e.stack + Rise(o)
         /\ MemoryAfter(o, e, p) \in Nat
         /\ GasAfter(o, e, p) \in Int
         /\ GasAfter(o, e, p) <= e.gas
         /\ GasAfter(o, e, Prefix(o)) <= GasAfter(o, e, p)
<1>1. e.stack \in Nat /\ e.memory \in Nat /\ e.gas \in Nat
  BY TableConstants DEF Machines
<1>2. /\ ChainWords(o) \in Nat /\ Inline(o) \in Nat
      /\ ChainLen(o) = 3 * ChainWords(o) /\ Prefix(o) = ChainLen(o) + Inline(o)
      /\ WordsLaid(o, p) \in Nat /\ WordsLaid(o, p) <= ChainWords(o)
      /\ WordsLaid(o, Prefix(o)) = ChainWords(o)
      /\ Paid(o, p) \in Nat /\ Paid(o, Prefix(o)) \in Nat
  BY PrefixTypes
<1>3. Rise(o) \in Nat /\ Rise(o) >= Inline(o) /\ (ChainWords(o) > 0 => Rise(o) >= 2)
  <2>1. Rise(o) \in Nat /\ Pops(o) \in Nat /\ Pushes(o) \in Nat
    BY RegionStack
  <2> QED
    BY <1>2, <2>1 DEF Rise, Larger, SatSub
<1>4. /\ HeightAfter(o, e, p) \in Nat /\ HeightAfter(o, e, p) >= e.stack
      /\ HeightAfter(o, e, p) <= e.stack + Rise(o)
  BY <1>1, <1>2, <1>3 DEF HeightAfter
<1>5. MemoryAfter(o, e, p) \in Nat
  BY <1>1, <1>2 DEF MemoryAfter, Larger
<1>6. Paid(o, p) <= Paid(o, Prefix(o))
  BY <1>2 DEF Paid, Saved
<1> DEFINE Now == Growth(32 * WordsLaid(o, p), e.memory)
           Then == Growth(32 * ChainWords(o), e.memory)
<1>7. Now \in Nat /\ Then \in Nat /\ Now <= Then
  <2>1. /\ 32 * WordsLaid(o, p) \in Nat /\ 32 * ChainWords(o) \in Nat
        /\ 32 * WordsLaid(o, p) <= 32 * ChainWords(o)
    BY <1>2
  <2>2. Now + Growth(32 * ChainWords(o), Larger(e.memory, 32 * WordsLaid(o, p))) = Then
    BY <1>1, <2>1, GrowthInSteps
  <2>3. Larger(e.memory, 32 * WordsLaid(o, p)) \in Nat
    BY <1>1, <2>1 DEF Larger
  <2>4. /\ Now \in Nat /\ Then \in Nat
        /\ Growth(32 * ChainWords(o), Larger(e.memory, 32 * WordsLaid(o, p))) \in Nat
    BY <1>1, <2>1, <2>3, GrowthType
  <2> HIDE DEF Now, Then
  <2> QED
    BY <2>2, <2>4
<1>8. /\ GasAfter(o, e, p) = e.gas - Paid(o, p) - Now
      /\ GasAfter(o, e, Prefix(o)) = e.gas - Paid(o, Prefix(o)) - Then
  BY <1>2 DEF GasAfter
<1> HIDE DEF Now, Then
<1> QED
  BY <1>1, <1>2, <1>4, <1>5, <1>6, <1>7, <1>8

-----------------------------------------------------------------------------
(* One instruction, from closed form to closed form.                       *)

\* What running instruction i makes of a frame f.
Ran(f, i, price) ==
  [stack |-> f.stack - i.pops + i.pushes,
   memory |-> Larger(f.memory, i.touch),
   gas |-> f.gas - (price + Growth(i.touch, f.memory))]

LEMMA ChainStep ==
  ASSUME NEW o \in Opcode, NEW e \in Machines, NEW p \in Nat, p < ChainLen(o),
         NEW price \in Region(o)[p + 1].prices
  PROVE  /\ Ran(FrameAfter(o, e, p), Region(o)[p + 1], price) = FrameAfter(o, e, p + 1)
         /\ Region(o)[p + 1].pops <= HeightAfter(o, e, p)
         /\ Region(o)[p + 1].sentry = 0
<1> DEFINE f == FrameAfter(o, e, p)
           i == Region(o)[p + 1]
           k == p \div 3
<1>1. e.stack \in Nat /\ e.memory \in Nat /\ e.gas \in Nat
  BY TableConstants DEF Machines
<1>2. /\ ChainWords(o) \in Nat /\ ChainLen(o) = 3 * ChainWords(o)
      /\ k \in Nat /\ p + 1 \in 1..(3 * ChainWords(o))
      /\ WordsLaid(o, p) = k
      /\ o.kind # "Call"
  <2>1. ChainWords(o) \in Nat /\ ChainLen(o) = 3 * ChainWords(o)
    BY PrefixTypes
  <2>2. o.kind # "Call"
    BY <2>1, PrefixTypes
  <2> QED
    BY <2>1, <2>2 DEF WordsLaid
<1>3. i = IF (p + 1) % 3 = 0 THEN Instruction(2, 0, {3}, 32 * ((p + 1) \div 3), 0)
          ELSE PushInstruction(3)
  BY <1>2, RegionLayout
<1>4. /\ f.stack = e.stack + (p % 3) /\ f.memory = Larger(e.memory, 32 * k)
      /\ f.gas = e.gas - 3 * p - Growth(32 * k, e.memory)
  <2>1. Paid(o, p) = 3 * p
    BY <1>2 DEF Paid, Saved
  <2> QED
    BY <1>2, <2>1 DEF FrameAfter, HeightAfter, MemoryAfter, GasAfter
<1>5. price = 3 /\ i.sentry = 0
  BY <1>3 DEF Instruction, PushInstruction
<1>6. 32 * k \in Nat /\ Growth(32 * k, e.memory) \in Nat
  <2>1. 32 * k \in Nat
    BY <1>2
  <2> QED
    BY <1>1, <2>1, GrowthType
<1>7. CASE (p + 1) % 3 = 0
  <2>1. /\ i.pops = 2 /\ i.pushes = 0 /\ i.touch = 32 * (k + 1)
    <3>1. (p + 1) \div 3 = k + 1
      BY <1>7
    <3> QED
      BY <1>3, <1>7, <3>1 DEF Instruction
  <2>2. p % 3 = 2
    BY <1>7
  <2>3. /\ HeightAfter(o, e, p + 1) = e.stack
        /\ WordsLaid(o, p + 1) = k + 1
    BY <1>1, <1>2, <1>7 DEF HeightAfter, WordsLaid
  <2>4. /\ 32 * (k + 1) \in Nat /\ 32 * k <= 32 * (k + 1)
    BY <1>2
  <2>5. Growth(32 * k, e.memory) + Growth(32 * (k + 1), Larger(e.memory, 32 * k))
          = Growth(32 * (k + 1), e.memory)
    BY <1>1, <1>6, <2>4, GrowthInSteps
  <2>6. Larger(Larger(e.memory, 32 * k), 32 * (k + 1)) = Larger(e.memory, 32 * (k + 1))
    <3> HIDE DEF k
    <3> QED
      BY <1>1, <1>2 DEF Larger
  <2>7. /\ Growth(32 * (k + 1), Larger(e.memory, 32 * k)) \in Nat
        /\ Growth(32 * (k + 1), e.memory) \in Nat
    <3>1. Larger(e.memory, 32 * k) \in Nat
      BY <1>1, <1>6 DEF Larger
    <3> QED
      BY <1>1, <2>4, <3>1, GrowthType
  <2>8. GasAfter(o, e, p + 1) = e.gas - 3 * (p + 1) - Growth(32 * (k + 1), e.memory)
    BY <1>2, <2>3 DEF GasAfter, Paid, Saved
  <2>9. f.gas - (3 + Growth(32 * (k + 1), Larger(e.memory, 32 * k))) = GasAfter(o, e, p + 1)
    <3> DEFINE A == Growth(32 * k, e.memory)
               B == Growth(32 * (k + 1), Larger(e.memory, 32 * k))
               D == Growth(32 * (k + 1), e.memory)
    <3>1. A \in Nat /\ B \in Nat /\ D \in Nat /\ A + B = D
      BY <1>6, <2>5, <2>7
    <3>2. f.gas = e.gas - 3 * p - A /\ GasAfter(o, e, p + 1) = e.gas - 3 * (p + 1) - D
      BY <1>4, <2>8
    <3> HIDE DEF A, B, D, f
    <3>3. f.gas - (3 + B) = GasAfter(o, e, p + 1)
      BY <1>1, <3>1, <3>2
    <3> QED
      BY <3>3 DEF B
  <2>10. f.stack - 2 + 0 = e.stack /\ 2 <= f.stack
    BY <1>1, <1>4, <2>2
  <2>11. Ran(f, i, price) =
           [stack |-> f.stack - 2 + 0, memory |-> Larger(f.memory, 32 * (k + 1)),
            gas |-> f.gas - (3 + Growth(32 * (k + 1), f.memory))]
    BY <1>5, <2>1 DEF Ran
  <2>12. FrameAfter(o, e, p + 1) =
           [stack |-> e.stack, memory |-> Larger(e.memory, 32 * (k + 1)),
            gas |-> GasAfter(o, e, p + 1)]
    BY <2>3 DEF FrameAfter, MemoryAfter
  <2>13. HeightAfter(o, e, p) = f.stack
    BY DEF FrameAfter
  <2> HIDE DEF f, i, k
  <2>14. Ran(f, i, price) = FrameAfter(o, e, p + 1)
    BY <1>4, <2>6, <2>9, <2>10, <2>11, <2>12
  <2>15. i.pops <= HeightAfter(o, e, p) /\ i.sentry = 0
    BY <1>5, <2>1, <2>10, <2>13
  <2> QED
    BY <2>14, <2>15 DEF f, i
<1>8. CASE (p + 1) % 3 # 0
  <2>1. i.pops = 0 /\ i.pushes = 1 /\ i.touch = 0
    BY <1>3, <1>8 DEF Instruction, PushInstruction
  <2>2. (p + 1) % 3 = (p % 3) + 1 /\ (p + 1) \div 3 = k /\ p + 1 < ChainLen(o)
    BY <1>2, <1>8
  <2>3. /\ HeightAfter(o, e, p + 1) = e.stack + ((p % 3) + 1)
        /\ WordsLaid(o, p + 1) = k
    BY <2>2 DEF HeightAfter, WordsLaid
  <2>4. GasAfter(o, e, p + 1) = e.gas - 3 * (p + 1) - Growth(32 * k, e.memory)
    BY <1>2, <2>3 DEF GasAfter, Paid, Saved
  <2>5. f.memory \in Nat
    BY <1>1, <1>4, <1>6 DEF Larger
  <2>6. Growth(0, f.memory) = 0 /\ Larger(f.memory, 0) = f.memory
    BY <2>5, NothingTouched
  <2>7. Ran(f, i, price) =
          [stack |-> f.stack - 0 + 1, memory |-> Larger(f.memory, 0),
           gas |-> f.gas - (3 + Growth(0, f.memory))]
    BY <1>5, <2>1 DEF Ran
  <2>8. FrameAfter(o, e, p + 1) =
          [stack |-> e.stack + ((p % 3) + 1), memory |-> Larger(e.memory, 32 * k),
           gas |-> GasAfter(o, e, p + 1)]
    BY <2>3 DEF FrameAfter, MemoryAfter
  <2>9. f.stack - 0 + 1 = e.stack + ((p % 3) + 1) /\ f.stack \in Nat
    <3>1. p % 3 \in Nat
      OBVIOUS
    <3> QED
      BY <1>1, <1>4, <3>1
  <2>10. f.gas - (3 + 0) = GasAfter(o, e, p + 1)
    <3> DEFINE A == Growth(32 * k, e.memory)
    <3>1. A \in Nat /\ f.gas = e.gas - 3 * p - A
          /\ GasAfter(o, e, p + 1) = e.gas - 3 * (p + 1) - A
      BY <1>4, <1>6, <2>4
    <3> HIDE DEF A, f
    <3> QED
      BY <1>1, <3>1
  <2>11. HeightAfter(o, e, p) = f.stack
    BY DEF FrameAfter
  <2> HIDE DEF f, i, k
  <2>12. Ran(f, i, price) = FrameAfter(o, e, p + 1)
    BY <1>4, <2>6, <2>7, <2>8, <2>9, <2>10
  <2>13. i.pops <= HeightAfter(o, e, p) /\ i.sentry = 0
    BY <1>5, <2>1, <2>9, <2>11
  <2> QED
    BY <2>12, <2>13 DEF f, i
<1> QED
  BY <1>7, <1>8

LEMMA OperandStep ==
  ASSUME NEW o \in Opcode, NEW e \in Machines, NEW p \in Nat,
         ChainLen(o) <= p, p < Prefix(o),
         NEW price \in Region(o)[p + 1].prices
  PROVE  /\ Ran(FrameAfter(o, e, p), Region(o)[p + 1], price) = FrameAfter(o, e, p + 1)
         /\ Region(o)[p + 1].pops <= HeightAfter(o, e, p)
         /\ Region(o)[p + 1].sentry = 0
<1> DEFINE f == FrameAfter(o, e, p)
           i == Region(o)[p + 1]
           A == Growth(32 * ChainWords(o), e.memory)
           q == p - ChainLen(o)
<1>1. e.stack \in Nat /\ e.memory \in Nat /\ e.gas \in Nat
  BY TableConstants DEF Machines
<1>2. /\ ChainWords(o) \in Nat /\ ChainLen(o) = 3 * ChainWords(o)
      /\ ChainLen(o) \in Nat
      /\ q \in Nat /\ q + 1 \in 1..Inline(o)
      /\ WordsLaid(o, p) = ChainWords(o) /\ WordsLaid(o, p + 1) = ChainWords(o)
  <2>1. /\ ChainWords(o) \in Nat /\ ChainLen(o) = 3 * ChainWords(o) /\ Inline(o) \in Nat
        /\ Prefix(o) = ChainLen(o) + Inline(o)
    BY PrefixTypes
  <2> QED
    BY <2>1 DEF WordsLaid
<1>3. i = PushInstruction(InlinePrice(o, q + 1))
  <2>1. p + 1 = 3 * ChainWords(o) + (q + 1)
    BY <1>2
  <2> QED
    BY <1>2, <2>1, RegionLayout
<1>4. /\ price = InlinePrice(o, q + 1) /\ i.sentry = 0
      /\ i.pops = 0 /\ i.pushes = 1 /\ i.touch = 0
  BY <1>3 DEF PushInstruction, Instruction
<1>5. A \in Nat /\ 32 * ChainWords(o) \in Nat
  <2>1. 32 * ChainWords(o) \in Nat
    BY <1>2
  <2> QED
    BY <1>1, <2>1, GrowthType
<1>6. /\ f.stack = e.stack + q /\ f.memory = Larger(e.memory, 32 * ChainWords(o))
      /\ f.gas = e.gas - Paid(o, p) - A
  BY <1>2 DEF FrameAfter, HeightAfter, MemoryAfter, GasAfter
<1>7. FrameAfter(o, e, p + 1) =
        [stack |-> e.stack + (q + 1), memory |-> Larger(e.memory, 32 * ChainWords(o)),
         gas |-> e.gas - Paid(o, p + 1) - A]
  <2>1. HeightAfter(o, e, p + 1) = e.stack + (q + 1)
    BY <1>1, <1>2 DEF HeightAfter
  <2> QED
    BY <1>2, <2>1 DEF FrameAfter, MemoryAfter, GasAfter
<1>8. /\ Paid(o, p) \in Int /\ Paid(o, p + 1) = Paid(o, p) + price
      /\ price \in Nat
  BY <1>2, <1>4 DEF Paid, Saved, InlinePrice
<1>9. f.memory \in Nat
  BY <1>1, <1>5, <1>6 DEF Larger
<1>10. Growth(0, f.memory) = 0 /\ Larger(f.memory, 0) = f.memory
  BY <1>9, NothingTouched
<1>11. Ran(f, i, price) =
         [stack |-> f.stack - 0 + 1, memory |-> Larger(f.memory, 0),
          gas |-> f.gas - (price + Growth(0, f.memory))]
  BY <1>4 DEF Ran
<1>12. HeightAfter(o, e, p) = f.stack
  BY DEF FrameAfter
<1> HIDE DEF f, i, A, q
<1>13. f.stack - 0 + 1 = e.stack + (q + 1) /\ f.stack \in Nat
  BY <1>1, <1>2, <1>6
<1>14. f.gas - (price + 0) = e.gas - Paid(o, p + 1) - A
  BY <1>1, <1>5, <1>6, <1>8
<1>15. Ran(f, i, price) = FrameAfter(o, e, p + 1)
  BY <1>6, <1>7, <1>10, <1>11, <1>13, <1>14
<1>16. i.pops <= HeightAfter(o, e, p) /\ i.sentry = 0
  BY <1>4, <1>12, <1>13
<1> QED
  BY <1>15, <1>16 DEF f, i

\* The chain lays exactly the words the CREATE reads.
LEMMA ChainFillsTouch ==
  ASSUME NEW o \in Opcode
  PROVE  32 * ChainWords(o) <= Touch(o)
<1>1. Touch(o) \in Nat /\ Touch(o) = MemoryNeeded(o)
  BY RegionMemory, TableConstants
<1>2. CASE o.kind \in Creates
  <2>1. ChainWords(o) = Words(o.init.len) /\ MemoryNeeded(o) = SatMul(Words(o.init.len), 32)
    <3>1. CASE o.kind = "Create"
      BY <3>1 DEF ChainWords, MemoryNeeded, Creates, Calls
    <3>2. CASE o.kind = "Create2"
      BY <3>2 DEF ChainWords, MemoryNeeded, Creates, Calls
    <3> QED
      BY <1>2, <3>1, <3>2 DEF Creates
  <2>2. SatAdd(o.init.len, 31) \in 0..U64Max /\ U64Max \in Nat
    BY OpcodeParts, SaturatingType, TableConstants
  <2>3. Words(o.init.len) \in Nat /\ Words(o.init.len) <= U64Max \div 32
    BY <2>2 DEF Words
  <2> DEFINE w == Words(o.init.len)
  <2>4. SatMul(w, 32) = 32 * w
    <3> HIDE DEF w
    <3>1. w \in Nat /\ w <= U64Max \div 32
      BY <2>3 DEF w
    <3>2. CASE w # 0 /\ 32 > U64Max \div w
      <4>1. 32 * w <= U64Max
        BY <2>2, <3>1
      <4>2. U64Max < w * (U64Max \div w + 1) /\ U64Max \div w \in Nat
        BY <2>2, <3>1, <3>2, SMT
      <4>3. w * (U64Max \div w + 1) <= w * 32
        BY <3>1, <3>2, <4>2, SMT
      <4> QED
        BY <2>2, <3>1, <4>1, <4>2, <4>3
    <3>3. CASE ~(w # 0 /\ 32 > U64Max \div w)
      BY <3>1, <3>3 DEF SatMul
    <3> QED
      BY <3>2, <3>3
  <2> QED
    BY <1>1, <2>1, <2>3, <2>4
<1>3. CASE o.kind \notin Creates
  BY <1>1, <1>3 DEF ChainWords
<1> QED
  BY <1>2, <1>3

\* The operation itself, from the frame the pushes leave.
LEMMA OperationStep ==
  ASSUME NEW o \in Opcode, NEW e \in Machines, NEW price \in Prices(o)
  PROVE  LET f == FrameAfter(o, e, Prefix(o))
         IN /\ f.stack = e.stack + Inline(o)
            /\ Larger(f.memory, Touch(o)) = Larger(e.memory, Touch(o))
            /\ f.gas - (price + Growth(Touch(o), f.memory))
                 = e.gas - RegionGas(o, e.memory, price)
            /\ RegionGas(o, e.memory, price) \in Nat
            /\ Growth(Touch(o), f.memory) \in Nat
<1> DEFINE W == ChainWords(o)
           f == FrameAfter(o, e, Prefix(o))
           Before == Growth(32 * W, e.memory)
           During == Growth(Touch(o), f.memory)
           Both == Growth(Touch(o), e.memory)
<1>1. /\ e.stack \in Nat /\ e.memory \in Nat /\ e.memory \in 0..U64Max /\ e.gas \in Nat
  BY TableConstants DEF Machines
<1>2. /\ W \in Nat /\ Inline(o) \in Nat
      /\ ChainLen(o) = 3 * W /\ Prefix(o) = ChainLen(o) + Inline(o)
      /\ WordsLaid(o, Prefix(o)) = W
  BY PrefixTypes
<1>3. f.stack = e.stack + Inline(o)
  BY <1>1, <1>2 DEF FrameAfter, HeightAfter
<1>4. f.memory = Larger(e.memory, 32 * W)
  BY <1>2 DEF FrameAfter, MemoryAfter
<1>5. f.gas = e.gas - (9 * W + InlineGas(o)) - Before
  <2>1. Saved(o, Prefix(o)) = IF o.kind = "Call" THEN 1 ELSE 0
    BY <1>2 DEF Saved, Inline
  <2>2. Paid(o, Prefix(o)) = 9 * W + InlineGas(o)
    <3>1. Prefix(o) = 3 * W + Inline(o)
      BY <1>2
    <3>2. CASE o.kind = "Call"
      <4>1. Saved(o, Prefix(o)) = 1 /\ InlineGas(o) = 3 * Inline(o) - 1
        BY <2>1, <3>2 DEF InlineGas
      <4> HIDE DEF W
      <4> QED
        BY <1>2, <3>1, <4>1 DEF Paid
    <3>3. CASE o.kind # "Call"
      <4>1. Saved(o, Prefix(o)) = 0 /\ InlineGas(o) = 3 * Inline(o)
        BY <1>2, <2>1, <3>3 DEF InlineGas
      <4> HIDE DEF W
      <4> QED
        BY <1>2, <3>1, <4>1 DEF Paid
    <3> QED
      BY <3>2, <3>3
  <2> QED
    BY <1>2, <2>2 DEF FrameAfter, GasAfter
<1>6. Touch(o) \in Nat /\ 32 * W \in Nat /\ f.memory \in Nat
  <2>1. Touch(o) \in Nat /\ 32 * W \in Nat
    BY <1>2, RegionMemory, TableConstants
  <2> QED
    BY <1>1, <1>4, <2>1 DEF Larger
<1>7. 32 * W <= Touch(o)
  BY ChainFillsTouch
<1>8. Larger(f.memory, Touch(o)) = Larger(e.memory, Touch(o))
  <2> HIDE DEF W
  <2> QED
    BY <1>1, <1>4, <1>6, <1>7 DEF Larger
<1>9. Before + During = Both
  BY <1>1, <1>4, <1>6, <1>7, GrowthInSteps
<1>10. Before \in Nat /\ During \in Nat /\ Both \in Nat
  BY <1>1, <1>6, GrowthType
<1>11. /\ price \in Nat /\ InlineGas(o) \in Nat
       /\ RegionGas(o, e.memory, price) \in Nat
       /\ RegionGas(o, e.memory, price) = 9 * W + InlineGas(o) + price + Both
  BY <1>1, RegionTypes DEF RegionGas
<1> HIDE DEF W, f, Before, During, Both
<1>12. f.gas - (price + During) = e.gas - RegionGas(o, e.memory, price)
  BY <1>1, <1>2, <1>5, <1>9, <1>10, <1>11
<1> QED
  BY <1>3, <1>8, <1>10, <1>11, <1>12 DEF f, During

-----------------------------------------------------------------------------
(* The inductive invariant.                                                *)

Position == Len(Region(op)) - Len(rest)

\* What is left to run is the end of the region.
Remaining ==
  /\ rest \in Seq(Instructions) /\ Len(rest) <= Len(Region(op))
  /\ \A i \in 1..Len(rest) : rest[i] = Region(op)[Position + i]

\* Until the operation is through, no child has run and the frame is the
\* entry state plus the instructions so far.
UnderWay ==
  rest # <<>> /\ child = NoChild /\ frame = FrameAfter(op, entry, Position)

\* What child c may have been given and have spent, when `left` gas was left.
ChildFair(c, left) ==
  /\ c.spent <= left
  /\ op.kind \notin Calls \cup Creates => c = NoChild
  /\ op.kind \in Calls => c.spent <= op.gas
  /\ op.kind \in Creates =>
       c.given = AllButOne64th(left) /\ c.spent <= Budget + TailGas

\* The operation is through: it had its operands and its space, and was paid
\* for at one of its prices.
Through ==
  /\ rest = <<>>
  /\ Pops(op) <= entry.stack + Inline(op)
  /\ entry.stack + Inline(op) <= StackLimit
  /\ frame.stack = entry.stack + Inline(op) - Pops(op) + Pushes(op)
  /\ frame.memory = Larger(entry.memory, Touch(op))
  /\ \E price \in Prices(op) :
       LET left == entry.gas - RegionGas(op, entry.memory, price)
       IN left \in Nat /\ ChildFair(child, left) /\ frame.gas = left - child.spent

TypeOK ==
  /\ op \in Ops
  /\ entry \in Machines /\ frame \in Machines
  /\ child \in [given : 0..U64Max, spent : 0..U64Max, ran : BOOLEAN]
  /\ status \in {"running", "done", "fault"}

AtEntry ==
  /\ entry.memory \in Memories /\ entry.gas \in EntryGas(op, entry.memory)
  /\ paid \in Paddings(op, entry.stack) /\ entry.gas + paid <= U64Max

Unaffordable == \E price \in Instr.prices : ~Affordable(price)

IInv ==
  /\ TypeOK /\ AtEntry /\ Remaining
  /\ status \in {"running", "fault"} => UnderWay
  /\ status = "fault" => Unaffordable
  /\ status = "done" => Through

LEMMA EntryTypes ==
  ASSUME TypeOK
  PROVE  /\ op \in Opcode
         /\ entry.stack \in Nat /\ entry.stack <= StackLimit
         /\ entry.memory \in Nat /\ entry.memory \in 0..U64Max
         /\ entry.gas \in Nat /\ entry.gas <= U64Max
         /\ frame.stack \in Nat /\ frame.stack <= StackLimit
         /\ frame.memory \in Nat /\ frame.memory \in 0..U64Max
         /\ frame.gas \in Nat /\ frame.gas <= U64Max
BY EvmRegionAssumption, TableConstants DEF TypeOK, Machines

\* What the fix-ups cost that were committed before a CREATE.
LEMMA PaddingTypes ==
  ASSUME NEW o \in Opcode, NEW h, NEW p \in Paddings(o, h)
  PROVE  p \in Nat /\ p <= 16
<1>1. FlatGas("Pop") = 2
  BY DEF FlatGas
<1>2. CASE o.kind \in Creates
  <2>1. Reserved(o) \in {3, 4} /\ ReqStack(o) = 0 /\ ProvStack(o) = 1
    BY <1>2 DEF Reserved, ReqStack, ProvStack, Creates, Flat1, Flat2, Terminators
  <2>2. PeakAbove(o) \in {3, 4}
    BY <2>1 DEF PeakAbove, Larger, SatSub
  <2>3. CASE h + PeakAbove(o) = StackLimit
    <3>1. PICK n \in 0..PeakAbove(o) : p = 2 * n
      BY <1>1, <1>2, <2>3 DEF Paddings
    <3> QED
      BY <2>2, <3>1
  <2>4. CASE h + PeakAbove(o) # StackLimit
    BY <2>4 DEF Paddings
  <2> QED
    BY <2>3, <2>4
<1>3. CASE o.kind \notin Creates
  BY <1>3 DEF Paddings
<1> QED
  BY <1>2, <1>3

LEMMA PaidType ==
  ASSUME IInv
  PROVE  /\ paid \in Nat /\ paid <= 16
         /\ entry.gas + paid \in 0..U64Max /\ entry.gas + paid \in Nat
         /\ Budget \in 0..U64Max
<1>1. op \in Opcode /\ entry.gas \in Nat /\ U64Max \in Nat
  BY EntryTypes, TableConstants DEF IInv
<1>2. paid \in Nat /\ paid <= 16 /\ entry.gas + paid <= U64Max
  BY <1>1, PaddingTypes DEF IInv, AtEntry
<1>3. entry.gas + paid \in 0..U64Max /\ entry.gas + paid \in Nat
  <2> DEFINE g == entry.gas
  <2>1. g \in Nat /\ g + paid <= U64Max
    BY <1>1, <1>2
  <2> HIDE DEF g
  <2>2. g + paid \in 0..U64Max /\ g + paid \in Nat
    BY <1>1, <1>2, <2>1
  <2> QED
    BY <2>2 DEF g
<1>4. Budget \in 0..U64Max
  BY <1>3, BudgetType DEF Budget
<1> QED
  BY <1>2, <1>3, <1>4

LEMMA InitIInv == Init => IInv
<1> SUFFICES ASSUME Init
             PROVE  IInv
  OBVIOUS
<1>1. op \in Ops /\ op \in Opcode
  BY EvmRegionAssumption DEF Init
<1>2. entry \in Machines /\ frame = entry /\ AtEntry
  <2>1. PICK h \in Heights, m \in Memories : \E g \in EntryGas(op, m) :
          /\ entry = [stack |-> h, memory |-> m, gas |-> g]
          /\ paid \in {p \in Paddings(op, h) : g + p <= U64Max}
    BY DEF Init
  <2>2. PICK g \in EntryGas(op, m) :
          /\ entry = [stack |-> h, memory |-> m, gas |-> g]
          /\ paid \in {p \in Paddings(op, h) : g + p <= U64Max}
    BY <2>1
  <2>3. h \in 0..StackLimit /\ m \in 0..U64Max /\ g \in 0..U64Max
    BY <1>1, <2>1, <2>2, EvmRegionAssumption
  <2> QED
    BY <2>2, <2>3 DEF Machines, Init, AtEntry
<1>3. rest = Region(op) /\ child = NoChild /\ status = "running"
  BY DEF Init
<1>4. TypeOK
  <2>1. NoChild \in [given : 0..U64Max, spent : 0..U64Max, ran : BOOLEAN]
    BY TableConstants DEF NoChild
  <2> QED
    BY <1>1, <1>2, <1>3, <2>1 DEF TypeOK
<1>5. /\ Region(op) \in Seq(Instructions) /\ Len(Region(op)) \in Nat
      /\ Len(Region(op)) >= 1
  <2>1. /\ Region(op) \in Seq(Instructions)
        /\ Len(Region(op)) = 3 * ChainWords(op) + Inline(op) + 1
        /\ ChainWords(op) \in Nat /\ Inline(op) \in Nat
    BY <1>1, RegionLayout
  <2> QED
    BY <2>1
<1>6. Position = 0
  BY <1>3, <1>5 DEF Position
<1>7. Remaining
  BY <1>3, <1>5, <1>6 DEF Remaining
<1>8. UnderWay
  <2>1. rest # <<>>
    BY <1>3, <1>5
  <2>2. frame = FrameAfter(op, entry, Position)
    BY <1>1, <1>2, <1>6, FrameAtEntry
  <2> QED
    BY <1>3, <2>1, <2>2 DEF UnderWay
<1> QED
  BY <1>2, <1>3, <1>4, <1>7, <1>8 DEF IInv

\* Where the region is, and what comes next.
LEMMA Whereabouts ==
  ASSUME IInv, status \in {"running", "fault"}
  PROVE  /\ op \in Opcode /\ entry \in Machines
         /\ Position \in Nat /\ Position <= Prefix(op)
         /\ Instr = Region(op)[Position + 1] /\ Instr \in Instructions
         /\ Len(rest) = Prefix(op) + 1 - Position
         /\ Len(rest) = 1 <=> Position = Prefix(op)
         /\ frame = FrameAfter(op, entry, Position)
         /\ Position = Prefix(op) => Instr = Operation(op)
<1>1. op \in Opcode /\ entry \in Machines
  BY EvmRegionAssumption DEF IInv, TypeOK
<1>2. /\ Len(Region(op)) = Prefix(op) + 1 /\ Prefix(op) \in Nat
      /\ Region(op)[Prefix(op) + 1] = Operation(op)
  <2>1. /\ Len(Region(op)) = 3 * ChainWords(op) + Inline(op) + 1
        /\ Region(op)[3 * ChainWords(op) + Inline(op) + 1] = Operation(op)
    BY <1>1, RegionLayout
  <2>2. Prefix(op) = 3 * ChainWords(op) + Inline(op) /\ Prefix(op) \in Nat
    BY <1>1, PrefixTypes
  <2> QED
    BY <2>1, <2>2
<1>3. rest \in Seq(Instructions) /\ rest # <<>> /\ Len(rest) <= Prefix(op) + 1
  BY <1>2 DEF IInv, Remaining, UnderWay
<1>4. Len(rest) \in Nat /\ Len(rest) >= 1 /\ rest[1] = Head(rest) /\ Head(rest) \in Instructions
  BY <1>3
<1>5. /\ Position = Prefix(op) + 1 - Len(rest) /\ Position \in Nat
      /\ Position <= Prefix(op)
  BY <1>2, <1>3, <1>4 DEF Position
<1>6. rest[1] = Region(op)[Position + 1]
  BY <1>4 DEF IInv, Remaining
<1>7. frame = FrameAfter(op, entry, Position)
  BY DEF IInv, UnderWay
<1>8. Len(rest) = Prefix(op) + 1 - Position /\ (Len(rest) = 1 <=> Position = Prefix(op))
  <2> DEFINE l == Len(rest)
             p == Prefix(op)
  <2>1. l \in Nat /\ p \in Nat /\ Position = p + 1 - l
    BY <1>2, <1>4, <1>5
  <2> HIDE DEF l, p
  <2>2. l = p + 1 - Position /\ (l = 1 <=> Position = p)
    BY <2>1
  <2> QED
    BY <2>2 DEF l, p
<1>9. Instr = Region(op)[Position + 1] /\ Instr \in Instructions
  BY <1>4, <1>6 DEF Instr
<1>10. Position = Prefix(op) => Instr = Operation(op)
  BY <1>2, <1>9
<1> QED
  BY <1>1, <1>5, <1>7, <1>8, <1>9, <1>10

LEMMA AdvanceRemaining ==
  ASSUME IInv, status = "running", Advance
  PROVE  /\ Remaining' /\ Position' = Position + 1
         /\ op' = op /\ entry' = entry /\ paid' = paid
         /\ Len(rest) = 1 => rest' = <<>> /\ status' = "done"
         /\ Len(rest) # 1 => rest' # <<>> /\ status' = "running"
<1>1. /\ op' = op /\ entry' = entry /\ paid' = paid /\ rest' = Tail(rest)
      /\ status' = IF Len(rest) = 1 THEN "done" ELSE "running"
  BY DEF Advance
<1>2. /\ rest \in Seq(Instructions) /\ rest # <<>> /\ Len(rest) <= Len(Region(op))
      /\ \A i \in 1..Len(rest) : rest[i] = Region(op)[Position + i]
  BY DEF IInv, Remaining, UnderWay
<1>3. /\ rest' \in Seq(Instructions) /\ Len(rest') = Len(rest) - 1
      /\ \A i \in 1..Len(rest') : rest'[i] = rest[i + 1]
      /\ Len(rest) \in Nat /\ Len(rest) >= 1
  BY <1>1, <1>2, HeadTailProperties
<1>4. Len(Region(op)) \in Nat /\ Position \in Nat
  <2>1. op \in Opcode /\ Position \in Nat
    BY Whereabouts
  <2> QED
    BY <2>1, RegionLayout
<1>5. Position' = Position + 1
  BY <1>1, <1>3, <1>4 DEF Position
<1>6. ASSUME NEW i \in 1..Len(rest')
      PROVE  rest'[i] = Region(op)'[Position' + i]
  <2>1. i + 1 \in 1..Len(rest) /\ Position' + i = Position + (i + 1)
    <3>1. Len(rest') = Len(rest) - 1 /\ Len(rest) \in Nat /\ i \in Nat
      BY <1>3
    <3> HIDE DEF Position
    <3> QED
      BY <1>4, <1>5, <3>1
  <2>2. rest'[i] = Region(op)[Position + (i + 1)]
    BY <1>2, <1>3, <2>1
  <2>3. Region(op)' = Region(op)
    BY <1>1
  <2> QED
    BY <2>1, <2>2, <2>3
<1>7. Remaining'
  <2>1. Len(rest') <= Len(Region(op)') /\ Region(op)' = Region(op)
    BY <1>1, <1>2, <1>3, <1>4
  <2> QED
    BY <1>3, <1>6, <2>1 DEF Remaining
<1>8. /\ Len(rest) = 1 => rest' = <<>> /\ status' = "done"
      /\ Len(rest) # 1 => rest' # <<>> /\ status' = "running"
  <2>1. rest' \in Seq(Instructions) /\ Len(rest') = Len(rest) - 1 /\ Len(rest) \in Nat
    BY <1>3
  <2>2. Len(rest) = 1 => rest' = <<>>
    BY <2>1
  <2>3. Len(rest) # 1 => rest' # <<>>
    BY <2>1
  <2> QED
    BY <1>1, <2>2, <2>3
<1> QED
  BY <1>1, <1>5, <1>7, <1>8

\* No instruction touches memory beyond the last address.
LEMMA TouchBound ==
  ASSUME NEW o \in Opcode, NEW p \in 0..Prefix(o)
  PROVE  Region(o)[p + 1].touch \in 0..U64Max
<1>1. /\ ChainWords(o) \in Nat /\ Inline(o) \in Nat
      /\ Prefix(o) = 3 * ChainWords(o) + Inline(o)
  BY PrefixTypes
<1>2. Touch(o) \in 0..U64Max /\ 32 * ChainWords(o) <= Touch(o) /\ U64Max \in Nat
  BY RegionMemory, ChainFillsTouch, TableConstants
<1>3. CASE p + 1 \in 1..(3 * ChainWords(o))
  <2>1. Region(o)[p + 1] = IF (p + 1) % 3 = 0
                           THEN Instruction(2, 0, {3}, 32 * ((p + 1) \div 3), 0)
                           ELSE PushInstruction(3)
    BY <1>3, RegionLayout
  <2>2. 32 * ((p + 1) \div 3) \in 0..U64Max
    BY <1>1, <1>2, <1>3
  <2> QED
    BY <1>2, <2>1, <2>2 DEF Instruction, PushInstruction
<1>4. CASE p + 1 \notin 1..(3 * ChainWords(o)) /\ p # Prefix(o)
  <2> DEFINE i == p + 1 - 3 * ChainWords(o)
  <2>1. i \in 1..Inline(o) /\ p + 1 = 3 * ChainWords(o) + i
    BY <1>1, <1>4
  <2>2. Region(o)[p + 1] = PushInstruction(InlinePrice(o, i))
    BY <2>1, RegionLayout
  <2> QED
    BY <1>2, <2>2 DEF Instruction, PushInstruction
<1>5. CASE p = Prefix(o)
  <2>1. Region(o)[p + 1] = Operation(o)
    BY <1>1, <1>5, RegionLayout
  <2> QED
    BY <1>2, <2>1 DEF Operation, Instruction
<1> QED
  BY <1>3, <1>4, <1>5

LEMMA AfterType ==
  ASSUME IInv, status \in {"running", "fault"}, NEW price \in Instr.prices
  PROVE  /\ price \in Nat /\ Cost(price) \in Nat
         /\ Instr.pops \in Nat /\ Instr.pushes \in Nat
         /\ \A spent \in Nat :
              Affordable(price) /\ spent <= frame.gas - Cost(price)
                => After(price, spent) \in Machines
<1>1. /\ frame.stack \in Nat /\ frame.memory \in 0..U64Max /\ frame.memory \in Nat
      /\ frame.gas \in Nat /\ frame.gas <= U64Max
  BY EntryTypes DEF IInv
<1>2. /\ op \in Opcode /\ Position \in Nat /\ Position <= Prefix(op)
      /\ Instr = Region(op)[Position + 1] /\ Instr \in Instructions
  BY Whereabouts
<1>3. Prefix(op) \in Nat
  BY <1>2, PrefixTypes
<1>4. Instr.touch \in 0..U64Max
  BY <1>2, <1>3, TouchBound
<1>5. /\ price \in Nat /\ Instr.pops \in Nat /\ Instr.pushes \in Nat /\ Instr.touch \in Nat
  BY <1>2 DEF Instructions
<1>6. Cost(price) \in Nat
  <2>1. Growth(Instr.touch, frame.memory) \in Nat
    BY <1>1, <1>5, GrowthType
  <2> QED
    BY <1>5, <2>1 DEF Cost
<1>7. ASSUME NEW spent \in Nat, Affordable(price), spent <= frame.gas - Cost(price)
      PROVE  After(price, spent) \in Machines
  <2>1. StackLimit \in Nat /\ U64Max \in Nat
    BY TableConstants
  <2>2. frame.stack - Instr.pops + Instr.pushes \in 0..StackLimit
    BY <1>1, <1>5, <1>7, <2>1 DEF Affordable
  <2>3. Larger(frame.memory, Instr.touch) \in 0..U64Max
    BY <1>1, <1>4 DEF Larger
  <2>4. frame.gas - Cost(price) - spent \in 0..U64Max
    BY <1>1, <1>6, <1>7, <2>1
  <2> QED
    BY <2>2, <2>3, <2>4 DEF After, Machines
<1> QED
  BY <1>5, <1>6, <1>7

\* An instruction before the operation: one more of the closed form.
LEMMA PrefixStepIInv ==
  ASSUME IInv, status = "running", NEW price \in Instr.prices, Len(rest) # 1, Step(price)
  PROVE  IInv'
<1>1. /\ op \in Opcode /\ entry \in Machines /\ Position \in Nat /\ Position <= Prefix(op)
      /\ Instr = Region(op)[Position + 1]
      /\ Position # Prefix(op) /\ frame = FrameAfter(op, entry, Position)
  BY Whereabouts
<1>2. /\ Affordable(price) /\ frame' = After(price, 0) /\ child' = child /\ Advance
  BY DEF Step
<1>3. /\ Remaining' /\ Position' = Position + 1
      /\ op' = op /\ entry' = entry /\ paid' = paid /\ rest' # <<>> /\ status' = "running"
  BY <1>2, AdvanceRemaining
<1>4. /\ Cost(price) \in Nat /\ frame.gas \in Nat /\ Cost(price) <= frame.gas
      /\ After(price, 0) \in Machines
  <2>1. Cost(price) \in Nat /\ frame.gas \in Nat /\ Cost(price) <= frame.gas
    BY <1>2, AfterType, EntryTypes DEF IInv, Affordable
  <2>2. 0 \in Nat /\ 0 <= frame.gas - Cost(price)
    BY <2>1
  <2> QED
    BY <1>2, <2>1, <2>2, AfterType
<1>5. After(price, 0) = Ran(frame, Instr, price)
  <2>1. frame.gas - Cost(price) - 0 = frame.gas - Cost(price)
    BY <1>4
  <2> QED
    BY <2>1 DEF After, Ran, Cost
<1>6. Ran(frame, Instr, price) = FrameAfter(op, entry, Position + 1)
  <2>1. ChainLen(op) \in Nat /\ Prefix(op) \in Nat
    BY <1>1, PrefixTypes
  <2>2. Position < Prefix(op)
    BY <1>1, <2>1
  <2>3. CASE Position < ChainLen(op)
    BY <1>1, <2>3, ChainStep
  <2>4. CASE ~(Position < ChainLen(op))
    <3>1. ChainLen(op) <= Position
      BY <1>1, <2>1, <2>4
    <3> QED
      BY <1>1, <2>2, <3>1, OperandStep
  <2> QED
    BY <2>3, <2>4
<1>7. frame' = FrameAfter(op, entry, Position + 1) /\ frame' \in Machines
  BY <1>2, <1>4, <1>5, <1>6
<1>8. UnderWay'
  <2>1. child = NoChild
    BY DEF IInv, UnderWay
  <2>2. FrameAfter(op', entry', Position') = FrameAfter(op, entry, Position + 1)
    BY <1>3
  <2>3. frame' = FrameAfter(op', entry', Position')
    BY <1>7, <2>2
  <2> QED
    BY <1>2, <1>3, <2>1, <2>3 DEF UnderWay, FrameAfter, HeightAfter, MemoryAfter, GasAfter
<1>9. TypeOK'
  BY <1>2, <1>3, <1>7 DEF IInv, TypeOK
<1> QED
  BY <1>3, <1>8, <1>9 DEF IInv, AtEntry

\* The operation, with or without a child.
LEMMA OperationIInv ==
  ASSUME IInv, status = "running", NEW price \in Instr.prices, Len(rest) = 1,
         Affordable(price), NEW spent \in Nat, frame' = After(price, spent), Advance,
         ChildFair(child', frame.gas - Cost(price)), child'.spent = spent,
         child' \in [given : 0..U64Max, spent : 0..U64Max, ran : BOOLEAN]
  PROVE  IInv'
<1>1. /\ op \in Opcode /\ entry \in Machines /\ Instr = Operation(op)
      /\ frame = FrameAfter(op, entry, Prefix(op))
  BY Whereabouts
<1>2. /\ Remaining' /\ op' = op /\ entry' = entry /\ paid' = paid
      /\ rest' = <<>> /\ status' = "done"
  BY AdvanceRemaining
<1>3. /\ Instr.pops = Pops(op) /\ Instr.pushes = Pushes(op) /\ Instr.touch = Touch(op)
      /\ price \in Prices(op)
  BY <1>1 DEF Operation, Instruction
<1> DEFINE left == entry.gas - RegionGas(op, entry.memory, price)
<1>4. /\ frame.stack = entry.stack + Inline(op)
      /\ Larger(frame.memory, Touch(op)) = Larger(entry.memory, Touch(op))
      /\ frame.gas - (price + Growth(Touch(op), frame.memory)) = left
  BY <1>1, <1>3, OperationStep
<1>5. frame.gas - Cost(price) = left /\ left \in Nat
  <2>1. frame.gas - Cost(price) = left
    BY <1>3, <1>4 DEF Cost
  <2>2. Cost(price) \in Nat /\ frame.gas \in Nat /\ Cost(price) <= frame.gas
    BY AfterType, EntryTypes DEF IInv, Affordable
  <2> HIDE DEF left
  <2> QED
    BY <2>1, <2>2
<1>6. spent <= left
  BY <1>5 DEF ChildFair
<1>7. After(price, spent) \in Machines
  BY <1>5, <1>6, AfterType
<1>8. /\ frame'.stack = entry.stack + Inline(op) - Pops(op) + Pushes(op)
      /\ frame'.memory = Larger(entry.memory, Touch(op))
      /\ frame'.gas = left - child'.spent
  <2> HIDE DEF left
  <2>1. /\ frame'.stack = frame.stack - Pops(op) + Pushes(op)
        /\ frame'.memory = Larger(frame.memory, Touch(op))
        /\ frame'.gas = frame.gas - Cost(price) - spent
    BY <1>3 DEF After
  <2>2. frame'.stack = entry.stack + Inline(op) - Pops(op) + Pushes(op)
    <3> DEFINE h == entry.stack
    <3>1. h \in Nat /\ Inline(op) \in Nat /\ Pops(op) \in Nat /\ Pushes(op) \in Nat
      BY <1>1, RegionStack, EntryTypes DEF IInv
    <3>2. frame'.stack = (h + Inline(op)) - Pops(op) + Pushes(op)
      BY <1>4, <2>1, Zenon
    <3> HIDE DEF h
    <3>3. frame'.stack = h + Inline(op) - Pops(op) + Pushes(op)
      BY <3>1, <3>2
    <3> QED
      BY <3>3 DEF h
  <2>3. frame'.memory = Larger(entry.memory, Touch(op))
    BY <1>4, <2>1, Zenon
  <2>4. frame'.gas = left - child'.spent
    BY <1>5, <2>1, Zenon
  <2> QED
    BY <2>2, <2>3, <2>4
<1>9. /\ Pops(op) <= entry.stack + Inline(op) /\ entry.stack + Inline(op) <= StackLimit
  BY <1>3, <1>4, EntryTypes DEF IInv, Affordable
<1>10. left \in Nat /\ ChildFair(child', left) /\ frame'.gas = left - child'.spent
  BY <1>5, <1>8
<1>11. Through'
  <2> HIDE DEF left
  <2>1. \E price_1 \in Prices(op) :
          LET l == entry.gas - RegionGas(op, entry.memory, price_1)
          IN l \in Nat /\ ChildFair(child', l) /\ frame'.gas = l - child'.spent
    BY <1>3, <1>10 DEF left
  <2>2. \A c, l : ChildFair(c, l)' = ChildFair(c', l')
    BY <1>2 DEF ChildFair, Budget
  <2> QED
    BY <1>2, <1>8, <1>9, <2>1 DEF Through, ChildFair, Budget
<1>12. TypeOK'
  BY <1>2, <1>7 DEF IInv, TypeOK
<1> QED
  BY <1>2, <1>11, <1>12 DEF IInv, AtEntry

LEMMA Forwarding ==
  ASSUME IInv, status = "running", NEW price \in Instr.prices, Affordable(price)
  PROVE  /\ frame.gas - Cost(price) \in 0..U64Max
         /\ AllButOne64th(frame.gas - Cost(price)) \in Nat
         /\ AllButOne64th(frame.gas - Cost(price)) <= frame.gas - Cost(price)
         /\ Budget \in 0..U64Max
         /\ op.gas \in Nat
<1> DEFINE left == frame.gas - Cost(price)
<1>1. left \in 0..U64Max /\ left \in Nat
  <2>1. /\ Cost(price) \in Nat /\ frame.gas \in Nat /\ frame.gas <= U64Max
        /\ Cost(price) <= frame.gas
    BY AfterType, EntryTypes DEF IInv, Affordable
  <2> QED
    BY <2>1, TableConstants
<1>2. op.gas \in Nat /\ Budget \in 0..U64Max
  BY OpcodeParts, PaidType, EntryTypes DEF IInv
<1> HIDE DEF left
<1>3. AllButOne64th(left) \in Nat /\ AllButOne64th(left) <= left
  BY <1>1, ForwardedType
<1> QED
  BY <1>1, <1>2, <1>3 DEF left

LEMMA StepIInv ==
  ASSUME IInv, status = "running", NEW price \in Instr.prices, Step(price)
  PROVE  IInv'
<1>1. CASE Len(rest) # 1
  BY <1>1, PrefixStepIInv
<1>2. CASE Len(rest) = 1
  <2>1. /\ op.kind \notin Calls \cup Creates
        /\ Affordable(price) /\ frame' = After(price, 0) /\ child' = child /\ Advance
    BY <1>2 DEF Step, EntersChild
  <2>2. /\ child' = NoChild /\ child'.spent = 0
        /\ child' \in [given : 0..U64Max, spent : 0..U64Max, ran : BOOLEAN]
    BY <2>1 DEF IInv, UnderWay, TypeOK, NoChild
  <2>3. frame.gas - Cost(price) \in 0..U64Max
    BY <2>1, Forwarding
  <2>4. ChildFair(child', frame.gas - Cost(price))
    <3> DEFINE left == frame.gas - Cost(price)
    <3>1. left \in 0..U64Max
      BY <2>3
    <3> HIDE DEF left
    <3>2. 0 <= left
      BY <3>1
    <3>3. ChildFair(child', left)
      BY <2>1, <2>2, <3>2 DEF ChildFair
    <3> QED
      BY <3>3 DEF left
  <2>5. 0 \in Nat
    OBVIOUS
  <2> QED
    BY <1>2, <2>1, <2>2, <2>4, <2>5, OperationIInv
<1> QED
  BY <1>1, <1>2

LEMMA StepCallIInv ==
  ASSUME IInv, status = "running", NEW price \in Instr.prices, StepCall(price)
  PROVE  IInv'
<1> DEFINE left == frame.gas - Cost(price)
           most == AllButOne64th(left)
           given == IF op.gas < most THEN op.gas ELSE most
<1>1. /\ Len(rest) = 1 /\ op.kind \in Calls /\ Affordable(price) /\ Advance
  BY DEF StepCall, EntersChild
<1>2. PICK spent \in {0, given} :
        /\ frame' = After(price, spent)
        /\ child' = [given |-> given, spent |-> spent, ran |-> TRUE]
  BY DEF StepCall
<1>3. /\ left \in 0..U64Max /\ most \in Nat /\ most <= left /\ op.gas \in Nat
  BY <1>1, Forwarding
<1>4. op.kind \notin Creates
  BY <1>1 DEF Calls, Creates
<1>5. U64Max \in Nat
  BY TableConstants
<1> HIDE DEF left, most
<1>6. /\ given \in 0..U64Max /\ spent \in 0..U64Max /\ spent \in Nat
      /\ spent <= left /\ spent <= op.gas
  BY <1>2, <1>3, <1>5
<1> HIDE DEF given
<1>7. child' \in [given : 0..U64Max, spent : 0..U64Max, ran : BOOLEAN]
      /\ child'.spent = spent
  BY <1>2, <1>6
<1>8. ChildFair(child', left)
  BY <1>1, <1>4, <1>6, <1>7 DEF ChildFair
<1>9. ChildFair(child', frame.gas - Cost(price))
  BY <1>8 DEF left
<1> QED
  BY <1>1, <1>2, <1>6, <1>7, <1>9, OperationIInv

LEMMA StepCreateIInv ==
  ASSUME IInv, status = "running", NEW price \in Instr.prices, StepCreate(price)
  PROVE  IInv'
<1> DEFINE left == frame.gas - Cost(price)
           given == AllButOne64th(left)
<1>1. /\ Len(rest) = 1 /\ op.kind \in Creates /\ Affordable(price) /\ Advance
  BY DEF StepCreate, EntersChild
<1>2. PICK need \in {TailGas, Budget + TailGas} :
        LET spent == IF need <= given THEN need ELSE given
        IN /\ frame' = After(price, spent)
           /\ child' = [given |-> given, spent |-> spent, ran |-> TRUE]
  BY DEF StepCreate
<1> DEFINE spent == IF need <= given THEN need ELSE given
<1>3. /\ left \in 0..U64Max /\ given \in Nat /\ given <= left
      /\ Budget \in 0..U64Max /\ TailGas = 6
  BY <1>1, Forwarding DEF TailGas
<1>4. op.kind \notin Calls /\ op.kind \in Calls \cup Creates
  BY <1>1 DEF Calls, Creates
<1>5. U64Max \in Nat
  BY TableConstants
<1>6. given = AllButOne64th(left)
  OBVIOUS
<1> HIDE DEF left, given
<1>7. /\ given \in 0..U64Max /\ spent \in 0..U64Max /\ spent \in Nat
      /\ spent <= left /\ spent <= Budget + TailGas
  BY <1>2, <1>3, <1>5
<1>8. /\ frame' = After(price, spent)
      /\ child' = [given |-> given, spent |-> spent, ran |-> TRUE]
  BY <1>2
<1> HIDE DEF spent
<1>9. child' \in [given : 0..U64Max, spent : 0..U64Max, ran : BOOLEAN]
      /\ child'.spent = spent /\ child'.given = given
  BY <1>7, <1>8
<1>10. ChildFair(child', left)
  BY <1>1, <1>4, <1>6, <1>7, <1>9 DEF ChildFair
<1>11. ChildFair(child', frame.gas - Cost(price))
  BY <1>10 DEF left
<1> QED
  BY <1>1, <1>7, <1>8, <1>9, <1>11, OperationIInv

LEMMA StutterIInv ==
  ASSUME IInv, UNCHANGED <<op, entry, paid, frame, rest, child>>,
         \/ status' = status
         \/ status = "running" /\ status' = "fault" /\ Unaffordable
  PROVE  IInv'
<1>1. /\ TypeOK' /\ AtEntry' /\ Remaining'
      /\ status' \in {"running", "fault"} => UnderWay'
      /\ status' = "done" => Through'
  BY DEF IInv, TypeOK, AtEntry, Remaining, UnderWay, Through, ChildFair, Budget, Position,
         FrameAfter, HeightAfter, MemoryAfter, GasAfter
<1>2. Unaffordable' <=> Unaffordable
  BY DEF Unaffordable, Instr, Affordable, Cost
<1> QED
  BY <1>1, <1>2 DEF IInv

LEMMA NextIInv == IInv /\ [Next]_vars => IInv'
<1> SUFFICES ASSUME IInv, [Next]_vars
             PROVE  IInv'
  OBVIOUS
<1>1. CASE UNCHANGED vars
  BY <1>1, StutterIInv DEF vars
<1>2. CASE Next
  <2>1. PICK price \in Instr.prices :
          Step(price) \/ StepCall(price) \/ StepCreate(price) \/ Fault(price)
    BY <1>2 DEF Next
  <2>2. status = "running"
    BY <1>2 DEF Next
  <2>3. CASE Step(price)
    BY <2>2, <2>3, StepIInv
  <2>4. CASE StepCall(price)
    BY <2>2, <2>4, StepCallIInv
  <2>5. CASE StepCreate(price)
    BY <2>2, <2>5, StepCreateIInv
  <2>6. CASE Fault(price)
    BY <2>2, <2>6, StutterIInv DEF Fault, Unaffordable
  <2> QED
    BY <2>1, <2>3, <2>4, <2>5, <2>6
<1> QED
  BY <1>1, <1>2

LEMMA Invariance == Spec => []IInv
BY InitIInv, NextIInv, PTL DEF Spec

-----------------------------------------------------------------------------
(* What holds for every opcode and every machine state at entry.           *)

\* A region that runs through found its operands on the stack and room above
\* it: Machine::constraints asks for no fix-up (machine.rs) on such a machine.
THEOREM FixupsNeeded == Spec => []FixupsAreNeeded
<1>1. ASSUME IInv
      PROVE  FixupsAreNeeded
  <2> SUFFICES ASSUME status = "done"
               PROVE  StackDelta(op, entry.stack) = 0
    BY DEF FixupsAreNeeded
  <2> DEFINE h == entry.stack
             req == ReqStack(op)
             prov == ProvStack(op)
  <2>1. Through /\ op \in Opcode /\ h \in Nat /\ frame.stack <= StackLimit
    BY <1>1, EntryTypes DEF IInv
  <2>2. StackLimit \in Nat /\ req \in Nat /\ prov \in Nat /\ Reserved(op) \in Nat
    BY <2>1, StackTables, TableConstants
  <2>3. /\ Pops(op) \in Nat /\ Pushes(op) \in Nat /\ Inline(op) \in Nat
        /\ Inline(op) = Reserved(op)
        /\ Inline(op) = 0 => Pops(op) = req /\ Pushes(op) = prov
        /\ Inline(op) # 0 => Pops(op) = Inline(op) /\ Pushes(op) = prov /\ req = 0
    BY <2>1, RegionOperands
  <2>4. /\ Pops(op) <= h + Inline(op) /\ h + Inline(op) <= StackLimit
        /\ h + Inline(op) - Pops(op) + Pushes(op) <= StackLimit
    BY <2>1 DEF Through
  <2> HIDE DEF h, req, prov
  <2>5. req <= h /\ h + prov <= StackLimit + req
    BY <2>1, <2>2, <2>3, <2>4
  <2>6. h + Larger(Reserved(op), SatSub(prov, req)) <= StackLimit
    BY <2>1, <2>2, <2>3, <2>4, <2>5 DEF Larger, SatSub
  <2>7. /\ SatSub(req, h) = 0
        /\ SatSub(h + Larger(Reserved(op), SatSub(prov, req)), StackLimit) = 0
    BY <2>1, <2>2, <2>5, <2>6 DEF SatSub, Larger
  <2> QED
    BY <2>7 DEF StackDelta, PeakAbove, h, req, prov
<1> QED
  BY Invariance, <1>1, PTL

\* The summary Runtime runs whole regions by agrees with the instructions:
\* within Rise and Sinks at every one of them, and RegionGas at the end.
THEOREM SummaryMatches == Spec => []SummaryExact
<1>1. ASSUME IInv
      PROVE  SummaryExact
  <2>1. /\ op \in Opcode /\ entry \in Machines /\ entry.stack \in Nat /\ frame.stack \in Nat
        /\ status \in {"running", "done", "fault"}
    BY <1>1, EntryTypes DEF IInv, TypeOK
  <2>2. /\ Sinks(op) \in Nat /\ Rise(op) \in Nat
        /\ Pops(op) \in Nat /\ Pushes(op) \in Nat /\ Inline(op) \in Nat
        /\ Inline(op) # 0 => Pops(op) = Inline(op) /\ Pushes(op) <= 1
    <3>1. /\ Sinks(op) \in Nat /\ Rise(op) \in Nat
          /\ Pops(op) \in Nat /\ Pushes(op) \in Nat /\ Inline(op) \in Nat
      BY <2>1, RegionStack
    <3>2. Inline(op) # 0 => Pops(op) = Inline(op) /\ Pushes(op) <= 1
      BY <2>1, RegionOperands, StackTables
    <3> QED
      BY <3>1, <3>2
  <2>3. CASE status # "done"
    <3>1. /\ Position \in 0..Prefix(op) /\ frame.stack = HeightAfter(op, entry, Position)
      <4>1. /\ Position \in Nat /\ Position <= Prefix(op)
            /\ frame = FrameAfter(op, entry, Position)
        BY <1>1, <2>1, <2>3, Whereabouts
      <4>2. Prefix(op) \in Nat
        BY <2>1, PrefixTypes
      <4> QED
        BY <4>1, <4>2 DEF FrameAfter
    <3>2. frame.stack >= entry.stack /\ frame.stack <= entry.stack + Rise(op)
      BY <2>1, <3>1, Strip
    <3>3. frame.stack >= entry.stack - Sinks(op)
      BY <2>1, <2>2, <3>2
    <3> QED
      BY <2>3, <3>2, <3>3 DEF SummaryExact
  <2>4. CASE status = "done"
    <3>1. Through
      BY <1>1, <2>4 DEF IInv
    <3>2. frame.stack = entry.stack + Inline(op) - Pops(op) + Pushes(op)
      BY <3>1 DEF Through
    <3>3. /\ frame.stack <= entry.stack + Rise(op)
          /\ frame.stack >= entry.stack - Sinks(op)
      <4>1. /\ Rise(op) >= Inline(op)
            /\ Inline(op) = 0 => Rise(op) >= SatSub(Pushes(op), Pops(op))
        BY <2>2 DEF Rise, Larger, SatSub
      <4>2. Sinks(op) = IF Inline(op) = 0 THEN Pops(op) ELSE 0
        BY DEF Sinks
      <4> DEFINE h == entry.stack
                 s == frame.stack
      <4>3. h \in Nat /\ s = h + Inline(op) - Pops(op) + Pushes(op)
        BY <2>1, <3>2
      <4> HIDE DEF h, s
      <4>4. s <= h + Rise(op) /\ s >= h - Sinks(op)
        BY <2>2, <4>1, <4>2, <4>3 DEF SatSub
      <4> QED
        BY <4>4 DEF h, s
    <3>4. PICK price \in Prices(op) :
            LET left == entry.gas - RegionGas(op, entry.memory, price)
            IN left \in Nat /\ ChildFair(child, left) /\ frame.gas = left - child.spent
      BY <3>1 DEF Through
    <3>5. /\ RegionGas(op, entry.memory, price) \in Nat /\ child.spent \in Nat
          /\ entry.gas \in Nat
      <4>1. entry.gas \in Nat /\ entry.memory \in 0..U64Max
        BY <1>1, EntryTypes DEF IInv
      <4>2. child.spent \in Nat
        BY <1>1, TableConstants DEF IInv, TypeOK
      <4> QED
        BY <2>1, <4>1, <4>2, RegionTypes
    <3>6. entry.gas - frame.gas - child.spent = RegionGas(op, entry.memory, price)
      <4> DEFINE g == RegionGas(op, entry.memory, price)
                 e == entry.gas
      <4>1. frame.gas = e - g - child.spent /\ g \in Nat /\ e \in Nat /\ child.spent \in Nat
        BY <3>4, <3>5
      <4> HIDE DEF g, e
      <4>2. e - frame.gas - child.spent = g
        BY <4>1
      <4> QED
        BY <4>2 DEF g, e
    <3> QED
      BY <3>3, <3>6 DEF SummaryExact
  <2> QED
    BY <2>3, <2>4
<1> QED
  BY Invariance, <1>1, PTL

-----------------------------------------------------------------------------
(* What the solver's verdict is worth.  The hypotheses, and what in the    *)
(* code they are:                                                          *)

\* Lengths are at most Config::memory_length_limit, which is small.
\* (Close to u64::MAX the price of a LOG would wrap.)
LogsAreShort == \A o \in Ops : o.kind = "Log" => o.len <= U64Max \div 16

\* A price that saturates is beyond every machine.
GasBelowMax == \A o \in Ops, m \in Memories : U64Max \notin EntryGas(o, m)

\* What is charged for a budget is no less than it.
LEMMA ChargeCoversBudget ==
  ASSUME NEW g \in Nat
  PROVE  /\ SubBudget(g) \in Nat /\ SubCharge(g) \in Nat
         /\ SubBudget(g) <= SubCharge(g)
         /\ SubCharge(g) = (64 * SubBudget(g) + 62) \div 63
<1>1. U64Max \in Nat /\ Percentage \in Nat
  BY TableConstants
<1>2. SatMul(g, Percentage) \in Nat /\ SatMul(g, Percentage) <= U64Max
  BY <1>1, SaturatingType, SatMulBound
<1>3. SubBudget(g) \in Nat /\ SubBudget(g) <= U64Max \div 100
  <2> DEFINE m == SatMul(g, Percentage)
  <2>1. m \in Nat /\ m <= U64Max
    BY <1>2
  <2> HIDE DEF m
  <2>2. m \div 100 \in Nat /\ m \div 100 <= U64Max \div 100
    BY <1>1, <2>1
  <2> QED
    BY <2>2 DEF m, SubBudget
<1>4. SubCharge(g) = (64 * SubBudget(g) + 62) \div 63
  BY <1>3, Charge DEF SubCharge
<1> QED
  BY <1>3, <1>4

\* All but one 64th of what the charge leaves is the budget.
LEMMA ForwardEnough ==
  ASSUME NEW g \in Nat, NEW left \in Nat, SubCharge(g) <= left
  PROVE  SubBudget(g) <= AllButOne64th(left)
<1>1. /\ SubBudget(g) \in Nat
      /\ (64 * SubBudget(g) + 62) \div 63 <= left
  BY ChargeCoversBudget
<1> DEFINE b == SubBudget(g)
<1> HIDE DEF b
<1>2. b \in Nat /\ (64 * b + 62) \div 63 <= left
  BY <1>1 DEF b
<1>3. 64 * b <= 63 * left
  BY <1>2
<1>4. b <= left - left \div 64
  BY <1>2, <1>3
<1> QED
  BY <1>4 DEF b, AllButOne64th

LEMMA PricesExist ==
  ASSUME NEW o \in Opcode
  PROVE  \E price : price \in Prices(o)
<1>1. o.kind \in Kinds
  BY OpcodeParts
<1> QED
  BY <1>1 DEF Prices, Kinds, Flat0, Flat1, Flat2, Creates, Calls, Terminators

\* What an admitted opcode has at entry, in numbers.
LEMMA AdmittedMeans ==
  ASSUME IInv, Admitted, LogsAreShort, GasBelowMax
  PROVE  /\ ReqStack(op) <= entry.stack
         /\ entry.stack + PeakAbove(op) <= StackLimit
         /\ ReqGas(op, entry.memory, entry.gas) \in Nat
         /\ ReqGas(op, entry.memory, entry.gas) <= entry.gas
         /\ entry.gas < U64Max
         /\ op.kind = "Log" => op.len <= U64Max \div 16
<1>1. /\ op \in Ops /\ op \in Opcode /\ entry.stack \in Nat /\ entry.stack <= StackLimit
      /\ entry.memory \in Nat /\ entry.gas \in Nat /\ entry.gas <= U64Max
  BY EntryTypes DEF IInv, TypeOK
<1>2. entry.stack \in 0..StackLimit /\ U64Max \in Nat
  BY <1>1, TableConstants
<1>3. ReqStack(op) <= entry.stack /\ entry.stack + PeakAbove(op) <= StackLimit
  BY <1>1, <1>2, StackDeltaCases DEF Admitted, NoConstraints
<1>4. /\ ReqGas(op, entry.memory, entry.gas) \in Nat
      /\ ReqGas(op, entry.memory, entry.gas) <= entry.gas
  BY <1>1, GasType, GasDeltaMeans DEF Admitted, NoConstraints
<1>5. entry.gas # U64Max
  BY <1>1 DEF IInv, AtEntry, GasBelowMax
<1>6. entry.gas < U64Max
  BY <1>1, <1>2, <1>5
<1> QED
  BY <1>1, <1>3, <1>4, <1>6 DEF LogsAreShort

\* At every price the whole region, and what its child is charged for, is
\* within the gas at entry.
LEMMA AdmittedPays ==
  ASSUME IInv, Admitted, LogsAreShort, GasBelowMax, NEW price \in Prices(op)
  PROVE  /\ RegionGas(op, entry.memory, price) \in Nat /\ ChildGas(op, entry.gas) \in Nat
         /\ RegionGas(op, entry.memory, price) + ChildGas(op, entry.gas)
              <= ReqGas(op, entry.memory, entry.gas)
         /\ Sentry(op) <= entry.gas
<1>1. /\ op \in Opcode /\ entry.memory \in 0..U64Max /\ entry.gas \in Nat
  BY EntryTypes DEF IInv
<1>2. /\ ReqGas(op, entry.memory, entry.gas) \in Nat
      /\ ReqGas(op, entry.memory, entry.gas) <= entry.gas
      /\ entry.gas < U64Max
      /\ op.kind = "Log" => op.len <= U64Max \div 16
  BY AdmittedMeans
<1>3. /\ RegionGas(op, entry.memory, price) + ChildGas(op, entry.gas)
           <= ReqGas(op, entry.memory, entry.gas)
      /\ ChildGas(op, entry.gas) \in Nat
      /\ Sentry(op) <= ReqGas(op, entry.memory, entry.gas)
  BY <1>1, <1>2, RegionCost
<1>4. RegionGas(op, entry.memory, price) \in Nat
  BY <1>1, RegionTypes
<1>5. Sentry(op) \in Nat
  BY DEF Sentry
<1>6. Sentry(op) <= entry.gas
  BY <1>1, <1>2, <1>3, <1>5
<1> QED
  BY <1>3, <1>4, <1>6

\* An admitted CREATE is charged for what its init code may spend.
LEMMA TailCovered ==
  ASSUME IInv, Admitted, LogsAreShort, GasBelowMax, TailIsCharged, op.kind \in Creates
  PROVE  Budget + 6 <= SubCharge(entry.gas)
<1>1. /\ op \in Opcode /\ entry.memory \in 0..U64Max
      /\ entry.gas \in Nat /\ entry.gas \in 0..U64Max
  <2>1. /\ op \in Opcode /\ entry.memory \in 0..U64Max
        /\ entry.gas \in Nat /\ entry.gas <= U64Max
    BY EntryTypes DEF IInv
  <2> QED
    BY <2>1, TableConstants
<1>2. CreateBase <= entry.gas
  <2>1. /\ ReqGas(op, entry.memory, entry.gas) <= entry.gas
        /\ entry.gas < U64Max
        /\ op.kind = "Log" => op.len <= U64Max \div 16
    BY AdmittedMeans
  <2>2. PICK price : price \in Prices(op)
    BY <1>1, PricesExist
  <2> QED
    BY <1>1, <2>1, <2>2, RegionCost
<1>3. /\ entry.gas + paid \in 0..U64Max
      /\ entry.gas <= entry.gas + paid /\ entry.gas + paid <= entry.gas + 16
  <2>1. paid \in Nat /\ paid <= 16 /\ entry.gas + paid \in 0..U64Max
    BY PaidType
  <2> DEFINE g == entry.gas
  <2>2. g \in Nat
    BY <1>1
  <2> HIDE DEF g
  <2>3. g <= g + paid /\ g + paid <= g + 16
    BY <2>1, <2>2
  <2> QED
    BY <2>1, <2>3 DEF g
<1> QED
  BY <1>1, <1>2, <1>3 DEF TailIsCharged, Budget

LEMMA AdmittedAffords ==
  ASSUME IInv, status \in {"running", "fault"}, Admitted, LogsAreShort, GasBelowMax,
         NEW price \in Instr.prices
  PROVE  Affordable(price)
<1> DEFINE h == entry.stack
           g == entry.gas
           q == Prefix(op)
<1>1. /\ op \in Opcode /\ entry \in Machines /\ Position \in Nat /\ Position <= q
      /\ Instr = Region(op)[Position + 1]
      /\ frame = FrameAfter(op, entry, Position)
      /\ Position = q => Instr = Operation(op)
  BY Whereabouts
<1>2. /\ ChainLen(op) \in Nat /\ q \in Nat
  BY <1>1, PrefixTypes
<1>3. /\ h \in Nat /\ g \in Nat /\ frame.stack \in Nat /\ frame.gas \in Nat
      /\ price \in Nat /\ Cost(price) \in Nat
      /\ Instr.pops \in Nat /\ Instr.pushes \in Nat
      /\ StackLimit \in Nat
  BY EntryTypes, AfterType, TableConstants DEF IInv
<1>4. ReqStack(op) <= h /\ h + PeakAbove(op) <= StackLimit
  BY AdmittedMeans
<1>5. /\ ReqStack(op) \in Nat /\ ProvStack(op) \in Nat /\ PeakAbove(op) \in Nat
      /\ ProvStack(op) <= ReqStack(op) + PeakAbove(op)
      /\ Rise(op) \in Nat /\ Rise(op) <= PeakAbove(op)
  <2>1. h \in 0..StackLimit
    BY EntryTypes DEF IInv
  <2>2. PeakAbove(op) \in Nat /\ ProvStack(op) <= ReqStack(op) + PeakAbove(op)
    BY <1>1, <2>1, StackDeltaMeans
  <2> QED
    BY <1>1, <2>2, StackTables, RegionStack, TableConstants
<1>6. ASSUME NEW cost \in Prices(op)
      PROVE  /\ GasAfter(op, entry, q) \in Int
             /\ cost + Growth(Touch(op), MemoryAfter(op, entry, q)) \in Nat
             /\ cost + Growth(Touch(op), MemoryAfter(op, entry, q)) <= GasAfter(op, entry, q)
  <2> DEFINE grown == Growth(Touch(op), MemoryAfter(op, entry, q))
             whole == RegionGas(op, entry.memory, cost)
             left == GasAfter(op, entry, q)
  <2>1. left - (cost + grown) = g - whole /\ grown \in Nat
    BY <1>1, OperationStep DEF FrameAfter
  <2>2. /\ whole \in Nat /\ ChildGas(op, g) \in Nat
        /\ whole + ChildGas(op, g) <= ReqGas(op, entry.memory, g)
    BY AdmittedPays
  <2>3. /\ ReqGas(op, entry.memory, g) \in Nat
        /\ ReqGas(op, entry.memory, g) <= g
    BY AdmittedMeans
  <2>4. cost \in Nat
    BY <1>1, RegionTypes, EntryTypes DEF IInv
  <2>5. left \in Int
    <3>1. q \in 0..q
      BY <1>2
    <3> QED
      BY <1>1, <3>1, Strip
  <2> HIDE DEF grown, whole, left, g, q
  <2>6. cost + grown \in Nat /\ cost + grown <= left
    BY <1>3, <2>1, <2>2, <2>3, <2>4, <2>5
  <2> QED
    BY <2>5, <2>6 DEF grown, left
<1>7. CASE Position # q
  <2> DEFINE p == Position
  <2>1. p \in Nat /\ p < q /\ p + 1 \in 0..q
    BY <1>1, <1>2, <1>7
  <2>2. /\ Ran(frame, Instr, price) = FrameAfter(op, entry, p + 1)
        /\ Instr.pops <= HeightAfter(op, entry, p)
        /\ Instr.sentry = 0
    <3>1. CASE p < ChainLen(op)
      BY <1>1, <3>1, ChainStep
    <3>2. CASE ~(p < ChainLen(op))
      <4>1. ChainLen(op) <= p
        BY <1>2, <2>1, <3>2
      <4> QED
        BY <1>1, <2>1, <4>1, OperandStep
    <3> QED
      BY <3>1, <3>2
  <2>3. frame.stack = HeightAfter(op, entry, p)
    BY <1>1 DEF FrameAfter
  <2>4. frame.stack - Instr.pops + Instr.pushes = HeightAfter(op, entry, p + 1)
        /\ frame.gas - Cost(price) = GasAfter(op, entry, p + 1)
    BY <2>2 DEF Ran, FrameAfter, Cost
  <2>5. /\ HeightAfter(op, entry, p + 1) \in Nat
        /\ HeightAfter(op, entry, p + 1) <= h + Rise(op)
        /\ GasAfter(op, entry, p + 1) \in Int
        /\ GasAfter(op, entry, q) <= GasAfter(op, entry, p + 1)
    BY <1>1, <2>1, Strip
  <2>6. GasAfter(op, entry, q) \in Int /\ GasAfter(op, entry, q) >= 0
    <3>1. PICK cost : cost \in Prices(op)
      BY <1>1, PricesExist
    <3> QED
      BY <1>6, <3>1
  <2> HIDE DEF h, p, q
  <2>7. frame.stack - Instr.pops + Instr.pushes <= StackLimit
    BY <1>3, <1>4, <1>5, <2>4, <2>5
  <2>8. Cost(price) <= frame.gas
    BY <1>3, <2>4, <2>5, <2>6
  <2> QED
    BY <1>3, <2>2, <2>3, <2>7, <2>8 DEF Affordable
<1>8. CASE Position = q
  <2>1. /\ Instr.pops = Pops(op) /\ Instr.pushes = Pushes(op)
        /\ Instr.touch = Touch(op) /\ Instr.sentry = Sentry(op)
        /\ price \in Prices(op)
    BY <1>1, <1>8 DEF Operation, Instruction
  <2>2. /\ frame.stack = h + Inline(op) /\ frame.gas = GasAfter(op, entry, q)
        /\ frame.memory = MemoryAfter(op, entry, q)
    BY <1>1, <1>8, <2>1, OperationStep DEF FrameAfter
  <2>3. /\ Pops(op) \in Nat /\ Pushes(op) \in Nat /\ Inline(op) \in Nat
        /\ Inline(op) = 0 => Pops(op) = ReqStack(op) /\ Pushes(op) = ProvStack(op)
        /\ Inline(op) # 0 => Pops(op) = Inline(op) /\ Pushes(op) = ProvStack(op)
                             /\ ReqStack(op) = 0
    BY <1>1, RegionOperands
  <2>4. Cost(price) <= frame.gas
    BY <1>6, <2>1, <2>2 DEF Cost
  <2>5. Sentry(op) <= frame.gas
    <3>1. CASE op.kind = "SStore"
      <4>1. Prefix(op) = 0
        BY <3>1 DEF Prefix, ChainLen, ChainWords, Inline, Creates
      <4>2. frame = entry
        BY <1>1, <1>8, <4>1, FrameAtEntry
      <4> QED
        BY <2>1, <4>2, AdmittedPays
    <3>2. CASE op.kind # "SStore"
      BY <1>3, <3>2 DEF Sentry
    <3> QED
      BY <3>1, <3>2
  <2> HIDE DEF h
  <2>6. /\ frame.stack >= Pops(op)
        /\ frame.stack - Pops(op) + Pushes(op) <= StackLimit
    BY <1>3, <1>4, <1>5, <2>2, <2>3
  <2>7. Sentry(op) \in Nat
    BY DEF Sentry
  <2> QED
    BY <1>3, <2>1, <2>4, <2>5, <2>6, <2>7 DEF Affordable
<1> QED
  BY <1>7, <1>8

\* An opcode the solver found free of constraints never faults in the EVM, at
\* any instruction of its region and at any price: what lib.rs's
\* execution_fuzz_works would panic on.
THEOREM RegionsNeverFault ==
  ASSUME LogsAreShort, GasBelowMax
  PROVE  Spec => []RegionNeverFaults
<1>1. ASSUME IInv
      PROVE  RegionNeverFaults
  <2> SUFFICES ASSUME status = "fault", Admitted
               PROVE  FALSE
    BY DEF RegionNeverFaults
  <2>1. PICK price \in Instr.prices : ~Affordable(price)
    BY <1>1 DEF IInv, Unaffordable
  <2> QED
    BY <1>1, <2>1, AdmittedAffords
<1> QED
  BY Invariance, <1>1, PTL

\* When the region of an admitted opcode is through, the frame is where
\* Machine::ingest left the symbolic machine, with no less gas.  For a CREATE
\* the charge must cover the tail of its init code and a budget taken before
\* the fix-ups were paid: TailIsCharged, which fails for a percentage of 0 and
\* holds from 2 on (PercentageSuffices of RuntimeProofs).
THEOREM RegionsMatchPrediction ==
  ASSUME LogsAreShort, GasBelowMax, TailIsCharged
  PROVE  Spec => []RegionMatchesPrediction
<1>1. ASSUME IInv
      PROVE  RegionMatchesPrediction
  <2> SUFFICES ASSUME status = "done", Admitted
               PROVE  /\ frame.stack = entry.stack - ReqStack(op) + ProvStack(op)
                      /\ frame.memory = SatAdd(entry.memory, ProvMemory(op, entry.memory))
                      /\ frame.gas >= entry.gas - ReqGas(op, entry.memory, entry.gas)
    BY DEF RegionMatchesPrediction
  <2> DEFINE h == entry.stack
             g == entry.gas
  <2>1. /\ Through /\ op \in Opcode /\ h \in Nat /\ g \in Nat
        /\ entry.memory \in 0..U64Max
    BY <1>1, EntryTypes DEF IInv
  <2>2. frame.stack = h - ReqStack(op) + ProvStack(op)
    <3>1. frame.stack = h + Inline(op) - Pops(op) + Pushes(op)
      BY <2>1 DEF Through
    <3>2. /\ Inline(op) \in Nat /\ Pops(op) \in Nat /\ Pushes(op) \in Nat
          /\ Inline(op) - Pops(op) + Pushes(op) = ProvStack(op) - ReqStack(op)
      BY <2>1, RegionStack
    <3>3. ReqStack(op) \in Nat /\ ProvStack(op) \in Nat
      BY <2>1, StackTables, TableConstants
    <3> HIDE DEF h
    <3> QED
      BY <2>1, <3>1, <3>2, <3>3
  <2>3. frame.memory = SatAdd(entry.memory, ProvMemory(op, entry.memory))
    BY <2>1, RegionGrowth DEF Through
  <2>4. PICK price \in Prices(op) :
          LET left == g - RegionGas(op, entry.memory, price)
          IN left \in Nat /\ ChildFair(child, left) /\ frame.gas = left - child.spent
    BY <2>1 DEF Through
  <2>5. /\ RegionGas(op, entry.memory, price) \in Nat /\ ChildGas(op, g) \in Nat
        /\ RegionGas(op, entry.memory, price) + ChildGas(op, g)
             <= ReqGas(op, entry.memory, g)
    BY <1>1, AdmittedPays
  <2>6. child.spent \in Nat /\ child.spent <= ChildGas(op, g)
    <3>1. child.spent \in Nat
      BY <1>1, TableConstants DEF IInv, TypeOK
    <3>2. CASE op.kind \in Creates
      <4>1. child.spent <= Budget + 6
        BY <2>4, <3>2 DEF ChildFair, TailGas
      <4>2. Budget + 6 <= SubCharge(g)
        BY <1>1, <3>2, TailCovered
      <4>3. Budget \in Nat /\ SubCharge(g) \in Nat
        <5>1. Budget \in 0..U64Max /\ U64Max \in Nat
          BY <1>1, PaidType, TableConstants
        <5> QED
          BY <2>1, <5>1, BudgetType
      <4> QED
        BY <3>1, <3>2, <4>1, <4>2, <4>3 DEF ChildGas
    <3>3. CASE op.kind \in Calls
      BY <2>4, <3>1, <3>3 DEF ChildFair, ChildGas, Calls, Creates
    <3>4. CASE op.kind \notin Calls \cup Creates
      BY <2>4, <3>4 DEF ChildFair, ChildGas, NoChild
    <3> QED
      BY <3>1, <3>2, <3>3, <3>4
  <2>7. ReqGas(op, entry.memory, g) \in Nat
    BY <1>1, AdmittedMeans
  <2>8. frame.gas >= g - ReqGas(op, entry.memory, g)
    <3> DEFINE whole == RegionGas(op, entry.memory, price)
    <3>1. frame.gas = (g - whole) - child.spent
      BY <2>4
    <3> HIDE DEF whole, g
    <3> QED
      BY <2>1, <2>5, <2>6, <2>7, <3>1 DEF whole
  <2> QED
    BY <2>2, <2>3, <2>8
<1> QED
  BY Invariance, <1>1, PTL

\* More gas at the materialization is at most as much more of a budget.
LEMMA BudgetGrowth ==
  ASSUME NEW g \in Nat, NEW p \in Nat
  PROVE  SubBudget(g + p) <= SubBudget(g) + p
<1>1. U64Max \in Nat /\ Percentage \in Nat /\ Percentage <= 100
  BY TableConstants, OpcodesAssumption DEF OpcodesAssumption
<1> DEFINE x == SatMul(g, Percentage)
           y == SatMul(g + p, Percentage)
<1>2. /\ x \in Nat /\ y \in Nat /\ y <= U64Max /\ y <= (g + p) * Percentage
  <2>1. g + p \in Nat
    OBVIOUS
  <2> QED
    BY <1>1, <2>1, SaturatingType, SatMulBound, SatMulAtMost
<1>3. x = U64Max \/ x = g * Percentage
  BY DEF SatMul
<1>4. /\ (g + p) * Percentage = g * Percentage + p * Percentage
      /\ p * Percentage <= 100 * p
      /\ g * Percentage \in Nat /\ p * Percentage \in Nat
  <2>1. (g + p) * Percentage = g * Percentage + p * Percentage
    BY <1>1, SMT
  <2>2. p * Percentage <= p * 100
    BY <1>1, SMT
  <2>3. p * 100 = 100 * p
    OBVIOUS
  <2>4. g * Percentage \in Nat /\ p * Percentage \in Nat
    BY <1>1
  <2> QED
    BY <2>1, <2>2, <2>3, <2>4
<1>5. SubBudget(g) = x \div 100 /\ SubBudget(g + p) = y \div 100
  BY DEF SubBudget
<1> HIDE DEF x, y
<1>6. y <= x + 100 * p
  <2> DEFINE a == g * Percentage
             b == p * Percentage
             c == (g + p) * Percentage
  <2>1. a \in Nat /\ b \in Nat /\ c = a + b /\ b <= 100 * p /\ y <= c
    BY <1>2, <1>4
  <2>2. x = U64Max \/ x = a
    BY <1>3
  <2> HIDE DEF a, b, c
  <2> QED
    BY <1>1, <1>2, <2>1, <2>2
<1>7. y \div 100 <= x \div 100 + p
  BY <1>2, <1>6
<1> QED
  BY <1>5, <1>7

\* EIP-150 forwards the budget the sub-machine generated its init code for, less
\* at most what the fix-ups cost that were committed in between: that much of
\* the promise of the factor 64/63 in requires.rs holds.
THEOREM BudgetsForwarded ==
  ASSUME LogsAreShort, GasBelowMax
  PROVE  Spec => []ForwardCoversBudget
<1>1. ASSUME IInv
      PROVE  ForwardCoversBudget
  <2> SUFFICES ASSUME child.ran, op.kind \in Creates, Admitted
               PROVE  child.given + paid >= Budget
    BY DEF ForwardCoversBudget
  <2> DEFINE g == entry.gas
  <2>1. /\ op \in Opcode /\ g \in Nat
    BY <1>1, EntryTypes DEF IInv
  <2>2. Through
    BY <1>1 DEF IInv, UnderWay, NoChild, TypeOK
  <2>3. PICK price \in Prices(op) :
          LET left == g - RegionGas(op, entry.memory, price)
          IN left \in Nat /\ ChildFair(child, left) /\ frame.gas = left - child.spent
    BY <2>2 DEF Through
  <2> DEFINE left == g - RegionGas(op, entry.memory, price)
  <2>4. left \in Nat /\ child.given = AllButOne64th(left)
    BY <2>3 DEF ChildFair
  <2>5. SubCharge(g) <= left
    <3>1. /\ RegionGas(op, entry.memory, price) \in Nat
          /\ RegionGas(op, entry.memory, price) + SubCharge(g)
               <= ReqGas(op, entry.memory, g)
      BY <1>1, AdmittedPays DEF ChildGas
    <3>2. ReqGas(op, entry.memory, g) \in Nat /\ ReqGas(op, entry.memory, g) <= g
      BY <1>1, AdmittedMeans
    <3>3. SubCharge(g) \in Nat
      BY <2>1, BudgetType
    <3> HIDE DEF g
    <3> QED
      BY <2>1, <3>1, <3>2, <3>3
  <2> HIDE DEF left
  <2>6. SubBudget(g) <= AllButOne64th(left)
    BY <2>1, <2>4, <2>5, ForwardEnough
  <2>7. SubBudget(g + paid) <= SubBudget(g) + paid /\ paid \in Nat
    BY <1>1, <2>1, PaidType, BudgetGrowth
  <2>8. /\ SubBudget(g) \in Nat /\ SubBudget(g + paid) \in Nat
        /\ AllButOne64th(left) \in Nat
    <3>1. g + paid \in Nat /\ U64Max \in Nat
      BY <1>1, PaidType, TableConstants
    <3>2. SubBudget(g) \in 0..U64Max /\ SubBudget(g + paid) \in 0..U64Max
      BY <2>1, <3>1, BudgetType
    <3> QED
      BY <2>4, <3>1, <3>2, ForwardedType
  <2>9. Budget = SubBudget(g + paid)
    BY DEF Budget
  <2> HIDE DEF g
  <2> QED
    BY <2>4, <2>6, <2>7, <2>8, <2>9
<1> QED
  BY Invariance, <1>1, PTL
=============================================================================
