------------------------------ MODULE EvmProofs ------------------------------
(***************************************************************************)
(* Facts about Opcodes and Evm that the proofs of every component rest on. *)
(* First the resource tables by themselves: ranges of u64 arithmetic,      *)
(* prices and stack demands, what each direction of a stack constraint     *)
(* means.  Then the tables against the region an opcode is rendered to:    *)
(* stack, memory and gas.                                                  *)
(***************************************************************************)
EXTENDS Evm, TLAPS

LEMMA TableConstants ==
  /\ U64Max \in Nat /\ U64Max >= 65536
  /\ MaxIndex \in Nat /\ MaxIndex >= 2
  /\ StackLimit \in Nat /\ StackLimit >= 8 /\ StackLimit >= MaxIndex + 2
  /\ CreateBase \in Nat /\ Percentage \in Nat /\ Percentage <= 100
BY OpcodesAssumption DEF OpcodesAssumption

LEMMA SaturatingType ==
  ASSUME NEW a \in Nat, NEW b \in Nat
  PROVE  /\ SatAdd(a, b) \in Nat
         /\ SatAdd(a, b) \in 0..U64Max
         /\ SatSub(a, b) \in Nat
         /\ SatSub(a, b) <= a
         /\ SatMul(a, b) \in Nat
<1>1. U64Max \in Nat
  BY OpcodesAssumption DEF OpcodesAssumption
<1>2. a * b \in Nat
  OBVIOUS
<1> QED
  BY <1>1, <1>2 DEF SatAdd, SatSub, SatMul

LEMMA DivType ==
  ASSUME NEW a \in Nat, NEW k \in Nat \ {0}
  PROVE  a \div k \in Nat
  OBVIOUS

LEMMA SatMulBound ==
  ASSUME NEW a \in Nat, NEW b \in Nat
  PROVE  SatMul(a, b) <= U64Max
<1>1. U64Max \in Nat
  BY OpcodesAssumption DEF OpcodesAssumption
<1>2. CASE a = 0
  BY <1>1, <1>2 DEF SatMul
<1>3. CASE a # 0 /\ b > U64Max \div a
  BY <1>1, <1>3 DEF SatMul
<1>4. CASE a # 0 /\ ~(b > U64Max \div a)
  <2>1. SatMul(a, b) = a * b
    BY <1>4 DEF SatMul
  <2>2. a * (U64Max \div a) <= U64Max
    BY <1>1, <1>4, SMT
  <2>3. U64Max \div a \in Nat
    BY <1>1, <1>4
  <2>4. a * b <= a * (U64Max \div a)
    BY <2>3, <1>4, SMT
  <2>5. a * b \in Nat /\ a * (U64Max \div a) \in Nat
    BY <2>3
  <2> QED
    BY <1>1, <2>1, <2>2, <2>4, <2>5
<1> QED
  BY <1>2, <1>3, <1>4

LEMMA SatMulAtMost ==
  ASSUME NEW a \in Nat, NEW b \in Nat
  PROVE  SatMul(a, b) <= a * b
<1>1. U64Max \in Nat
  BY TableConstants
<1>2. CASE a # 0 /\ b > U64Max \div a
  <2>1. SatMul(a, b) = U64Max
    BY <1>2 DEF SatMul
  <2>2. b >= U64Max \div a + 1 /\ U64Max \div a \in Nat
    BY <1>1, <1>2
  <2>3. U64Max <= a * (U64Max \div a + 1)
    BY <1>1, <1>2, SMT
  <2>4. a * (U64Max \div a + 1) <= a * b
    BY <1>1, <1>2, <2>2, SMT
  <2>5. a * b \in Nat /\ a * (U64Max \div a + 1) \in Nat
    BY <2>2
  <2> QED
    BY <1>1, <2>1, <2>3, <2>4, <2>5
<1>3. CASE ~(a # 0 /\ b > U64Max \div a)
  BY <1>3 DEF SatMul
<1> QED
  BY <1>2, <1>3

LEMMA StackTables ==
  ASSUME NEW op \in Opcode
  PROVE  /\ ReqStack(op) \in 0..(MaxIndex + 1)
         /\ ProvStack(op) \in 0..(MaxIndex + 1)
         /\ Reserved(op) \in 0..7
         /\ ReqStack(op) > 0 => Reserved(op) = 0
         /\ ProvStack(op) <= ReqStack(op) + 1
<1>1. MaxIndex \in Nat /\ MaxIndex >= 2
  BY OpcodesAssumption DEF OpcodesAssumption
<1>2. op.n \in 0..MaxIndex /\ op.kind \in Kinds /\ (op.kind = "Log" => op.n <= 4)
  BY DEF Opcode
<1> QED
  BY <1>1, <1>2 DEF ReqStack, ProvStack, Reserved, Kinds, Flat0, Flat1, Flat2,
     Creates, Calls, Terminators

LEMMA MemoryType ==
  ASSUME NEW op \in Opcode, NEW mem \in Nat
  PROVE  /\ MemoryNeeded(op) \in Nat
         /\ Expansion(op, mem) \in Nat
         /\ ProvMemory(op, mem) \in Nat
<1>1. /\ op.dest \in Nat /\ op.src \in Nat /\ op.len \in Nat /\ op.rlen \in Nat
      /\ op.init.len \in Nat
  BY DEF Opcode, InitCode
<1>2. ASSUME NEW b \in Nat
      PROVE  Words(b) \in Nat /\ RoundUpToWord(b) \in Nat /\ MemoryWordCost(b) \in Nat
  <2>1. Words(b) \in Nat
    BY SaturatingType DEF Words
  <2>2. RoundUpToWord(b) \in Nat
    BY <2>1, SaturatingType DEF RoundUpToWord
  <2>3. /\ SatMul(3, Words(b)) \in Nat
        /\ SatMul(Words(b), Words(b)) \div 512 \in Nat
    <3>1. SatMul(3, Words(b)) \in Nat /\ SatMul(Words(b), Words(b)) \in Nat
      BY <2>1, SaturatingType
    <3> QED
      BY <3>1
  <2>4. MemoryWordCost(b) \in Nat
    BY <2>3, SaturatingType DEF MemoryWordCost
  <2> QED
    BY <2>1, <2>2, <2>4
<1>3. ASSUME NEW o \in Nat, NEW l \in Nat
      PROVE  RangeSize(o, l) \in Nat /\ SatAdd(o, l) \in Nat
  BY <1>2, SaturatingType DEF RangeSize
<1>4. ASSUME NEW a \in Nat, NEW b \in Nat
      PROVE  Larger(a, b) \in Nat
  BY DEF Larger
<1>5. MemoryNeeded(op) \in Nat
  <2>1. /\ RoundUpToWord(SatAdd(op.dest, 32)) \in Nat
        /\ RoundUpToWord(SatAdd(op.dest, 1)) \in Nat
    BY <1>1, <1>2, SaturatingType
  <2>2. /\ RangeSize(op.dest, op.len) \in Nat
        /\ CopySizeTwo(op.dest, op.src, op.len) \in Nat
        /\ Larger(RangeSize(op.dest, op.len), RangeSize(op.src, op.rlen)) \in Nat
    BY <1>1, <1>3, <1>4 DEF CopySizeTwo
  <2>3. SatMul(Words(op.init.len), 32) \in Nat
    BY <1>1, <1>2, SaturatingType
  <2> QED
    BY <2>1, <2>2, <2>3 DEF MemoryNeeded
<1>6. Expansion(op, mem) \in Nat
  BY <1>2, <1>5, SaturatingType DEF Expansion
<1>7. ProvMemory(op, mem) \in Nat
  BY <1>5, SaturatingType DEF ProvMemory
<1> QED
  BY <1>5, <1>6, <1>7

LEMMA BudgetType ==
  ASSUME NEW g \in Nat
  PROVE  SubBudget(g) \in 0..U64Max /\ SubCharge(g) \in Nat
<1>1. Percentage \in Nat /\ U64Max \in Nat
  BY OpcodesAssumption DEF OpcodesAssumption
<1>2. SatMul(g, Percentage) \in Nat /\ SatMul(g, Percentage) <= U64Max
  BY <1>1, SaturatingType, SatMulBound
<1>3. SubBudget(g) \in 0..U64Max
  BY <1>1, <1>2 DEF SubBudget
<1>4. SatAdd(SatMul(SubBudget(g), 64), 62) \in Nat
  <2>1. SubBudget(g) \in Nat
    BY <1>1, <1>3
  <2>2. SatMul(SubBudget(g), 64) \in Nat
    BY <2>1, SaturatingType
  <2> QED
    BY <2>2, SaturatingType
<1>5. SubCharge(g) \in Nat
  BY <1>4, DivType DEF SubCharge
<1> QED
  BY <1>3, <1>5

LEMMA GasType ==
  ASSUME NEW op \in Opcode, NEW mem \in Nat, NEW g \in Nat
  PROVE  ReqGas(op, mem, g) \in Nat
<1>1. Expansion(op, mem) \in Nat
  BY MemoryType
<1>2. op.len \in Nat /\ op.init.len \in Nat /\ op.gas \in Nat /\ op.n \in Nat
  BY OpcodesAssumption DEF Opcode, InitCode, OpcodesAssumption
<1>3. CreateBase \in Nat /\ U64Max \in Nat
  BY OpcodesAssumption DEF OpcodesAssumption
<1>4. Words(op.len) \in Nat /\ Words(op.init.len) \in Nat
  <2>1. SatAdd(op.len, 31) \in Nat /\ SatAdd(op.init.len, 31) \in Nat
    BY <1>2, SaturatingType
  <2> QED
    BY <2>1 DEF Words
<1>5. ASSUME op.kind \in Creates
      PROVE  CreateGas(op, mem, g) \in Nat
  <2>1. CreateWordGas(op) \in Nat /\ CreateArgGas(op) \in Nat
    BY DEF CreateWordGas, CreateArgGas
  <2>2. SubCharge(g) \in Nat
    BY BudgetType
  <2>3. SatMul(CreateWordGas(op), Words(op.init.len)) \in Nat
    BY <1>4, <2>1, SaturatingType
  <2>4. /\ SatAdd(CreateBase, SatMul(CreateWordGas(op), Words(op.init.len))) \in Nat
        /\ SatAdd(Expansion(op, mem), CreateArgGas(op)) \in Nat
    BY <1>1, <1>3, <2>1, <2>3, SaturatingType
  <2>5. SatAdd(SatAdd(CreateBase, SatMul(CreateWordGas(op), Words(op.init.len))),
               SatAdd(Expansion(op, mem), CreateArgGas(op))) \in Nat
    BY <2>4, SaturatingType
  <2> QED
    BY <2>2, <2>5, SaturatingType DEF CreateGas
<1>6. CallGas(op, mem) \in Nat
  <2>1. 100 + CallPushGas(op) \in Nat
    BY DEF CallPushGas
  <2>2. SatAdd(100 + CallPushGas(op), Expansion(op, mem)) \in Nat
    BY <1>1, <2>1, SaturatingType
  <2> QED
    BY <1>2, <2>2, SaturatingType DEF CallGas
<1>7. LogGas(op, mem) \in Nat
  <2>1. ASSUME NEW a \in Nat, NEW b \in Nat
        PROVE  WrapAdd(a, b) \in Nat
    BY <1>3 DEF WrapAdd
  <2>2. 375 * (op.n + 1) \in Nat /\ 3 * (op.n + 2) \in Nat
    BY <1>2
  <2>3. SatMul(8, op.len) \in Nat
    BY <1>2, SaturatingType
  <2>4. WrapAdd(375 * (op.n + 1), SatMul(8, op.len)) \in Nat
    BY <2>1, <2>2, <2>3
  <2>5. WrapAdd(3 * (op.n + 2), WrapAdd(375 * (op.n + 1), SatMul(8, op.len))) \in Nat
    BY <2>1, <2>4, <2>2
  <2> QED
    BY <1>1, <2>1, <2>5 DEF LogGas
<1>8. MemoryOpGas(op) \in Nat
  <2>1. CopyWordGas(op.len) \in Nat /\ SatMul(6, Words(op.len)) \in Nat
    BY <1>2, <1>4, SaturatingType DEF CopyWordGas
  <2> QED
    BY <2>1 DEF MemoryOpGas
<1>9. FlatGas(op.kind) \in Nat
  BY DEF FlatGas
<1> QED
  BY <1>1, <1>5, <1>6, <1>7, <1>8, <1>9 DEF ReqGas

LEMMA GasDeltaMeans ==
  ASSUME NEW op \in Opcode, NEW mem \in Nat, NEW g \in Nat
  PROVE  /\ GasDelta(op, mem, g) \in Nat
         /\ GasDelta(op, mem, g) = 0 <=> ReqGas(op, mem, g) <= g
<1>1. ReqGas(op, mem, g) \in Nat
  BY GasType
<1> QED
  BY <1>1 DEF GasDelta, SatSub

\* The two directions of a stack constraint.
LEMMA StackDeltaMeans ==
  ASSUME NEW op \in Opcode, NEW h \in 0..StackLimit
  PROVE  /\ StackDelta(op, h) \in Int
         /\ StackDelta(op, h) > 0 <=> h < ReqStack(op)
         /\ StackDelta(op, h) < 0 <=> h >= ReqStack(op) /\ h + PeakAbove(op) > StackLimit
         /\ PeakAbove(op) \in 0..7
         /\ ProvStack(op) <= ReqStack(op) + PeakAbove(op)
         /\ ReqStack(op) > 0 => PeakAbove(op) <= 1
         /\ ReqStack(op) > 0 /\ PeakAbove(op) = 1 => ProvStack(op) = ReqStack(op) + 1
<1>1. StackLimit \in Nat /\ MaxIndex \in Nat
  BY OpcodesAssumption DEF OpcodesAssumption
<1>2. /\ PeakAbove(op) \in 0..7
      /\ ProvStack(op) <= ReqStack(op) + PeakAbove(op)
      /\ ReqStack(op) > 0 => PeakAbove(op) <= 1
      /\ ReqStack(op) > 0 /\ PeakAbove(op) = 1 => ProvStack(op) = ReqStack(op) + 1
  BY <1>1, StackTables DEF PeakAbove, Larger, SatSub
<1>3. ReqStack(op) \in Nat
  BY <1>1, StackTables
<1> QED
  BY <1>1, <1>2, <1>3 DEF StackDelta, SatSub

LEMMA StackDeltaCases ==
  ASSUME NEW op \in Opcode, NEW h \in 0..StackLimit
  PROVE  /\ StackDelta(op, h) = 0 => h >= ReqStack(op) /\ h + PeakAbove(op) <= StackLimit
         /\ StackDelta(op, h) < 0 => h + PeakAbove(op) >= StackLimit + 1
<1>1. /\ StackLimit \in Nat /\ MaxIndex \in Nat /\ h \in Nat
      /\ ReqStack(op) \in Nat /\ PeakAbove(op) \in Nat
  BY StackTables, StackDeltaMeans, OpcodesAssumption DEF OpcodesAssumption
<1>2. ASSUME StackDelta(op, h) = 0
      PROVE  h >= ReqStack(op) /\ h + PeakAbove(op) <= StackLimit
  <2>1. ~(StackDelta(op, h) > 0) /\ ~(StackDelta(op, h) < 0)
    BY <1>2
  <2>2. ~(h < ReqStack(op))
    BY <2>1, StackDeltaMeans
  <2>3. ~(h >= ReqStack(op) /\ h + PeakAbove(op) > StackLimit)
    BY <2>1, StackDeltaMeans
  <2> QED
    BY <1>1, <2>2, <2>3
<1>3. ASSUME StackDelta(op, h) < 0
      PROVE  h + PeakAbove(op) >= StackLimit + 1
  <2>1. h + PeakAbove(op) > StackLimit
    BY <1>3, StackDeltaMeans
  <2> QED
    BY <1>1, <2>1
<1> QED
  BY <1>2, <1>3

-----------------------------------------------------------------------------
(* The region of an opcode against the opcode's rows.                      *)

LEMMA OpcodeParts ==
  ASSUME NEW op \in Opcode
  PROVE  /\ op.kind \in Kinds /\ op.n \in Nat /\ op.n <= MaxIndex
         /\ op.dest \in Nat /\ op.src \in Nat /\ op.len \in Nat
         /\ op.rlen \in Nat /\ op.gas \in Nat
         /\ op.init.len \in Nat /\ op.init.cost \in Nat /\ op.init.budget \in Nat
         /\ op.init.peak \in Nat
BY TableConstants DEF Opcode, InitCode

\* An opcode either takes its operands from the stack, as the tables say, or
\* pushes them itself and needs none.
LEMMA RegionOperands ==
  ASSUME NEW op \in Opcode
  PROVE  /\ Pops(op) \in Nat /\ Pushes(op) \in Nat /\ Inline(op) \in Nat
         /\ Inline(op) = Reserved(op)
         /\ Inline(op) = 0 => Pops(op) = ReqStack(op) /\ Pushes(op) = ProvStack(op)
         /\ Inline(op) # 0 => Pops(op) = Inline(op) /\ Pushes(op) = ProvStack(op) /\ ReqStack(op) = 0
<1>1. op.kind \in Kinds /\ op.n \in Nat /\ op.n <= MaxIndex
  BY OpcodeParts
<1>2. Reserved(op) \in Nat /\ ReqStack(op) \in Nat /\ ProvStack(op) \in Nat
  BY StackTables, TableConstants
<1> QED
  BY <1>1, <1>2 DEF Pops, Pushes, Inline, Reserved, ReqStack, ProvStack, Kinds,
     Flat0, Flat1, Flat2, Creates, Calls, Terminators

\* What the region pops, pushes and needs above and below its entry height.
LEMMA RegionStack ==
  ASSUME NEW op \in Opcode
  PROVE  /\ Sinks(op) \in Nat /\ Sinks(op) <= ReqStack(op)
         /\ Rise(op) \in Nat /\ Rise(op) <= PeakAbove(op)
         /\ Inline(op) \in Nat
         /\ Pops(op) \in Nat /\ Pushes(op) \in Nat
         /\ Inline(op) - Pops(op) + Pushes(op) = ProvStack(op) - ReqStack(op)
<1>1. op.kind \in Kinds /\ op.n \in Nat /\ op.n <= MaxIndex
  BY OpcodeParts
<1>2. Reserved(op) \in Nat /\ ReqStack(op) \in Nat /\ ProvStack(op) \in Nat
  BY StackTables, TableConstants
<1>3. /\ Pops(op) \in Nat /\ Pushes(op) \in Nat /\ Inline(op) \in Nat
      /\ Inline(op) = Reserved(op)
      /\ Inline(op) = 0 => Pops(op) = ReqStack(op) /\ Pushes(op) = ProvStack(op)
      /\ Inline(op) # 0 => Pops(op) = Inline(op) /\ Pushes(op) = ProvStack(op) /\ ReqStack(op) = 0
  BY RegionOperands
<1>4. ChainWords(op) > 0 => Inline(op) >= 2
  BY <1>1 DEF ChainWords, Inline, Creates
<1>5. Sinks(op) \in Nat /\ Sinks(op) <= ReqStack(op)
  BY <1>2, <1>3 DEF Sinks
<1>6. Rise(op) \in Nat /\ Rise(op) <= PeakAbove(op)
  BY <1>2, <1>3, <1>4 DEF Rise, PeakAbove, Larger, SatSub
<1>7. Inline(op) - Pops(op) + Pushes(op) = ProvStack(op) - ReqStack(op)
  BY <1>2, <1>3
<1> QED
  BY <1>3, <1>5, <1>6, <1>7

\* The EVM's memory is the table's, whatever the ranges.
LEMMA WordTypes ==
  ASSUME NEW b \in Nat
  PROVE  /\ Words(b) \in Nat /\ RoundUpToWord(b) \in 0..U64Max
         /\ MemoryWordCost(b) \in Nat
<1>1. Words(b) \in Nat
  BY SaturatingType DEF Words
<1>2. SatMul(Words(b), 32) \in Nat /\ SatMul(Words(b), 32) <= U64Max
  BY <1>1, SaturatingType, SatMulBound
<1>3. RoundUpToWord(b) \in 0..U64Max
  BY <1>2, TableConstants DEF RoundUpToWord
<1>4. SatMul(3, Words(b)) \in Nat /\ SatMul(Words(b), Words(b)) \in Nat
  BY <1>1, SaturatingType
<1>5. SatMul(Words(b), Words(b)) \div 512 \in Nat
  BY <1>4
<1>6. MemoryWordCost(b) \in Nat
  BY <1>4, <1>5, SaturatingType DEF MemoryWordCost
<1> QED
  BY <1>1, <1>3, <1>6

LEMMA NoMemoryIsFree == MemoryWordCost(0) = 0
<1>1. Words(0) = 0
  <2>1. SatAdd(0, 31) = 31
    BY TableConstants DEF SatAdd
  <2> QED
    BY <2>1 DEF Words
<1>2. SatMul(3, 0) = 0 /\ SatMul(0, 0) = 0
  BY TableConstants DEF SatMul
<1>3. SatAdd(0, 0) = 0
  BY TableConstants DEF SatAdd
<1> QED
  BY <1>1, <1>2, <1>3 DEF MemoryWordCost

LEMMA RangeTypes ==
  ASSUME NEW offset \in Nat, NEW length \in Nat
  PROVE  RangeSize(offset, length) \in 0..U64Max
<1>1. SatAdd(offset, length) \in Nat
  BY SaturatingType
<1> QED
  BY <1>1, WordTypes, TableConstants DEF RangeSize

LEMMA RegionMemory ==
  ASSUME NEW op \in Opcode
  PROVE  Touch(op) = MemoryNeeded(op) /\ Touch(op) \in 0..U64Max
<1>1. /\ op.kind \in Kinds /\ op.dest \in Nat /\ op.src \in Nat /\ op.len \in Nat
      /\ op.rlen \in Nat /\ op.init.len \in Nat /\ U64Max \in Nat
  BY OpcodeParts, TableConstants
<1>2. /\ RangeSize(op.dest, 32) = RoundUpToWord(SatAdd(op.dest, 32))
      /\ RangeSize(op.dest, 1) = RoundUpToWord(SatAdd(op.dest, 1))
  BY DEF RangeSize
<1>3. RangeSize(0, op.init.len) = SatMul(Words(op.init.len), 32)
  <2>1. CASE op.init.len = 0
    <3>1. SatAdd(0, 31) = 31
      BY OpcodesAssumption DEF SatAdd, OpcodesAssumption
    <3>2. Words(op.init.len) = 0
      BY <2>1, <3>1 DEF Words
    <3>3. SatMul(0, 32) = 0
      BY <1>1 DEF SatMul
    <3> QED
      BY <2>1, <3>2, <3>3 DEF RangeSize
  <2>2. CASE op.init.len # 0
    <3>1. SatAdd(SatAdd(0, op.init.len), 31) = SatAdd(op.init.len, 31)
      BY <1>1 DEF SatAdd
    <3>2. Words(SatAdd(0, op.init.len)) = Words(op.init.len)
      BY <3>1 DEF Words
    <3> QED
      BY <2>2, <3>2 DEF RangeSize, RoundUpToWord
  <2> QED
    BY <2>1, <2>2
<1>4. /\ RangeSize(op.dest, op.len) \in 0..U64Max
      /\ RangeSize(op.src, op.len) \in 0..U64Max
      /\ RangeSize(op.src, op.rlen) \in 0..U64Max
      /\ RangeSize(op.dest, 32) \in 0..U64Max
      /\ RangeSize(op.dest, 1) \in 0..U64Max
      /\ RangeSize(0, op.init.len) \in 0..U64Max
  BY <1>1, RangeTypes
<1>5. Touch(op) = MemoryNeeded(op)
  BY <1>1, <1>2, <1>3 DEF Touch, MemoryNeeded, CopySizeTwo, Kinds, Flat0, Flat1,
     Flat2, Creates, Calls, Terminators
<1>6. Touch(op) \in 0..U64Max
  BY <1>1, <1>4 DEF Touch, Larger
<1> QED
  BY <1>5, <1>6

LEMMA RegionGrowth ==
  ASSUME NEW op \in Opcode, NEW mem \in 0..U64Max
  PROVE  /\ Growth(Touch(op), mem) = Expansion(op, mem)
         /\ Growth(Touch(op), mem) \in Nat
         /\ Larger(mem, Touch(op)) = SatAdd(mem, ProvMemory(op, mem))
         /\ Larger(mem, Touch(op)) \in 0..U64Max
<1>1. Touch(op) = MemoryNeeded(op) /\ Touch(op) \in 0..U64Max
  BY RegionMemory
<1>2. U64Max \in Nat /\ mem \in Nat
  BY TableConstants
<1>3. Expansion(op, mem) \in Nat
  BY <1>2, MemoryType
<1>4. Growth(Touch(op), mem) = Expansion(op, mem)
  BY <1>1 DEF Growth, Expansion
<1>5. Larger(mem, Touch(op)) = SatAdd(mem, ProvMemory(op, mem))
  BY <1>1, <1>2 DEF Larger, SatAdd, ProvMemory, SatSub
<1>6. Larger(mem, Touch(op)) \in 0..U64Max
  BY <1>1, <1>2 DEF Larger
<1> QED
  BY <1>3, <1>4, <1>5, <1>6

LEMMA RegionTypes ==
  ASSUME NEW op \in Opcode, NEW price \in Prices(op), NEW mem \in 0..U64Max
  PROVE  /\ price \in Nat /\ InlineGas(op) \in Nat /\ ChainWords(op) \in Nat
         /\ RegionGas(op, mem, price) \in Nat
<1>1. /\ op.kind \in Kinds /\ op.n \in Nat /\ op.len \in Nat /\ op.init.len \in Nat
      /\ CreateBase \in Nat
  BY OpcodeParts, OpcodesAssumption DEF OpcodesAssumption
<1>2. /\ Words(op.len) \in Nat /\ Words(op.init.len) \in Nat
  BY <1>1, WordTypes
<1>3. /\ SatMul(3, Words(op.len)) \in Nat /\ SatMul(6, Words(op.len)) \in Nat
      /\ SatMul(8, op.len) \in Nat
  BY <1>1, <1>2, SaturatingType
<1>4. SatAdd(375 * (op.n + 1), SatMul(8, op.len)) \in Nat
  <2> DEFINE Topics == 375 * (op.n + 1)
             Bytes == SatMul(8, op.len)
  <2>1. Topics \in Nat /\ Bytes \in Nat
    BY <1>1, <1>3
  <2> HIDE DEF Topics, Bytes
  <2>2. SatAdd(Topics, Bytes) \in Nat
    BY <2>1, SaturatingType
  <2> QED
    BY <2>2 DEF Topics, Bytes
<1>5. price \in Nat
  BY <1>1, <1>2, <1>3, <1>4 DEF Prices
<1>6. ChainWords(op) \in Nat
  BY <1>2 DEF ChainWords
<1>7. InlineGas(op) \in Nat
  <2>1. Inline(op) \in Nat
    BY RegionStack
  <2>2. op.kind = "Call" => Inline(op) = 7
    BY DEF Inline
  <2> QED
    BY <2>1, <2>2 DEF InlineGas
<1>8. Growth(Touch(op), mem) \in Nat
  BY RegionGrowth
<1> QED
  BY <1>5, <1>6, <1>7, <1>8 DEF RegionGas

-----------------------------------------------------------------------------
(* The gas a row requires is what its region costs at most, and what a     *)
(* child frame takes.                                                      *)

\* What the child of a CREATE or a CALL is charged for.
ChildGas(op, g) ==
  IF op.kind \in Creates THEN SubCharge(g)
  ELSE IF op.kind \in Calls THEN op.gas ELSE 0

\* Prices below u64::MAX have not been saturated.
LEMMA Unsaturated ==
  ASSUME NEW a \in Nat, NEW b \in Nat
  PROVE  /\ SatAdd(a, b) < U64Max => SatAdd(a, b) = a + b
         /\ SatMul(a, b) < U64Max => SatMul(a, b) = a * b
<1>1. U64Max \in Nat
  BY TableConstants
<1> QED
  BY <1>1 DEF SatAdd, SatMul

LEMMA FlatRegionCost ==
  ASSUME NEW op \in Opcode, NEW price \in Prices(op), NEW mem \in 0..U64Max,
         NEW g \in Nat,
         op.kind \in Flat0 \cup Flat1 \cup Flat2 \cup
           {"Ternary8", "Dup", "Swap", "CallDataLoad", "Stop", "SelfDestruct"}
  PROVE  /\ RegionGas(op, mem, price) <= ReqGas(op, mem, g)
         /\ Sentry(op) <= ReqGas(op, mem, g)
<1>1. Growth(Touch(op), mem) = 0
  <2>1. Touch(op) = 0
    BY DEF Touch, Flat0, Flat1, Flat2, Creates, Calls
  <2>3. MemoryWordCost(0) = 0
    BY NoMemoryIsFree
  <2>4. MemoryWordCost(mem) \in Nat
    BY WordTypes, TableConstants
  <2> QED
    BY <2>1, <2>3, <2>4 DEF Growth, SatSub
<1>2. ChainWords(op) = 0
  BY DEF ChainWords, Flat0, Flat1, Flat2, Creates
<1>3. ReqGas(op, mem, g) = FlatGas(op.kind)
  BY DEF ReqGas, Flat0, Flat1, Flat2, Creates, Calls
<1>4. InlineGas(op) + price <= FlatGas(op.kind)
  BY DEF InlineGas, Inline, Prices, FlatGas, Flat0, Flat1, Flat2, Creates, Calls
<1>5. Sentry(op) <= FlatGas(op.kind)
  BY DEF Sentry, FlatGas, Flat0, Flat1, Flat2
<1>6. price \in Nat /\ InlineGas(op) \in Nat
  BY RegionTypes
<1> QED
  BY <1>1, <1>2, <1>3, <1>4, <1>5, <1>6 DEF RegionGas

LEMMA MemoryRegionCost ==
  ASSUME NEW op \in Opcode, NEW price \in Prices(op), NEW mem \in 0..U64Max,
         NEW g \in Nat,
         op.kind \in {"MStore", "MLoad", "MStore8", "MCopy", "DataCopy",
                      "ExtCodeCopy", "Keccak256", "Return"}
  PROVE  RegionGas(op, mem, price) <= ReqGas(op, mem, g)
<1>1. ChainWords(op) = 0
  BY DEF ChainWords, Creates
<1>2. ReqGas(op, mem, g) = MemoryOpGas(op) + Expansion(op, mem)
  BY DEF ReqGas, Creates, Calls
<1>3. op.len \in Nat
  BY OpcodeParts
<1>4. SatMul(3, Words(op.len)) \in Nat /\ SatMul(6, Words(op.len)) \in Nat
  BY <1>3, WordTypes, SaturatingType
<1>5. InlineGas(op) + price <= MemoryOpGas(op)
  BY <1>4 DEF InlineGas, Inline, Prices, MemoryOpGas, CopyWordGas, Calls, Creates
<1>6. /\ price \in Nat /\ InlineGas(op) \in Nat
      /\ Growth(Touch(op), mem) = Expansion(op, mem) /\ Expansion(op, mem) \in Nat
  BY RegionTypes, RegionGrowth
<1>7. MemoryOpGas(op) \in Nat
  BY <1>4 DEF MemoryOpGas, CopyWordGas
<1> QED
  BY <1>1, <1>2, <1>5, <1>6, <1>7 DEF RegionGas

LEMMA CallRegionCost ==
  ASSUME NEW op \in Opcode, NEW price \in Prices(op), NEW mem \in 0..U64Max,
         NEW g \in Nat, g < U64Max, ReqGas(op, mem, g) <= g, op.kind \in Calls
  PROVE  RegionGas(op, mem, price) + op.gas <= ReqGas(op, mem, g)
<1>1. ChainWords(op) = 0
  BY DEF ChainWords, Creates, Calls
<1>2. ReqGas(op, mem, g) =
        SatAdd(SatAdd(100 + CallPushGas(op), Expansion(op, mem)), op.gas)
  BY DEF ReqGas, CallGas, Calls, Creates
<1>3. price = 100
  BY DEF Prices, Calls
<1>4. InlineGas(op) = CallPushGas(op) /\ CallPushGas(op) \in Nat
  BY DEF InlineGas, Inline, CallPushGas, Calls
<1>5. /\ Growth(Touch(op), mem) = Expansion(op, mem) /\ Expansion(op, mem) \in Nat
      /\ op.gas \in Nat /\ U64Max \in Nat
  BY RegionGrowth, OpcodeParts, TableConstants
<1>6. SatAdd(100 + CallPushGas(op), Expansion(op, mem)) \in Nat
  <2>1. 100 + CallPushGas(op) \in Nat
    BY <1>4
  <2> QED
    BY <1>5, <2>1, SaturatingType
<1>7. ReqGas(op, mem, g) =
        SatAdd(100 + CallPushGas(op), Expansion(op, mem)) + op.gas
  <2> DEFINE Own == SatAdd(100 + CallPushGas(op), Expansion(op, mem))
  <2>1. ReqGas(op, mem, g) = SatAdd(Own, op.gas) /\ Own \in Nat
    BY <1>2, <1>6
  <2> HIDE DEF Own
  <2>2. SatAdd(Own, op.gas) \in Nat
    BY <1>5, <2>1, SaturatingType
  <2>3. SatAdd(Own, op.gas) < U64Max
    BY <1>5, <2>1, <2>2
  <2>4. SatAdd(Own, op.gas) = Own + op.gas
    BY <1>5, <2>1, <2>3, Unsaturated
  <2> QED
    BY <2>1, <2>4 DEF Own
<1>8. SatAdd(100 + CallPushGas(op), Expansion(op, mem)) =
        100 + CallPushGas(op) + Expansion(op, mem)
  <2>1. 100 + CallPushGas(op) \in Nat
    BY <1>4
  <2>2. SatAdd(100 + CallPushGas(op), Expansion(op, mem)) < U64Max
    BY <1>5, <1>6, <1>7
  <2> QED
    BY <1>5, <2>1, <2>2, Unsaturated
<1> QED
  BY <1>1, <1>3, <1>4, <1>5, <1>7, <1>8 DEF RegionGas

LEMMA NothingWraps ==
  ASSUME NEW a \in Nat, NEW b \in Nat, NEW c \in Nat, NEW d \in Nat,
         a + (b + c) + d <= U64Max
  PROVE  WrapAdd(WrapAdd(a, WrapAdd(b, c)), d) = a + (b + c) + d
<1>1. U64Max \in Nat
  BY TableConstants
<1>2. ASSUME NEW x \in Nat, x <= U64Max
      PROVE  x % (U64Max + 1) = x
  BY <1>1, <1>2
<1>3. WrapAdd(b, c) = b + c
  BY <1>1, <1>2 DEF WrapAdd
<1>4. WrapAdd(a, b + c) = a + (b + c)
  BY <1>1, <1>2 DEF WrapAdd
<1>5. WrapAdd(a + (b + c), d) = a + (b + c) + d
  BY <1>1, <1>2 DEF WrapAdd
<1> QED
  BY <1>3, <1>4, <1>5

\* A LOG's price wraps around instead of saturating; it does not while the
\* length is far enough from u64::MAX.
LEMMA LogGasExact ==
  ASSUME NEW op \in Opcode, NEW mem \in 0..U64Max,
         op.kind = "Log", op.len <= U64Max \div 16
  PROVE  /\ SatMul(8, op.len) = 8 * op.len /\ 8 * op.len \in Nat
         /\ op.n \in Nat /\ Expansion(op, mem) \in Nat
         /\ LogGas(op, mem)
              = 3 * (op.n + 2) + (375 * (op.n + 1) + 8 * op.len) + Expansion(op, mem)
<1>1. /\ U64Max \in Nat /\ U64Max >= 65536 /\ op.len \in Nat
      /\ op.n \in Nat /\ op.n <= 4
  BY OpcodeParts, OpcodesAssumption DEF OpcodesAssumption, Opcode
<1>2. SatMul(8, op.len) = 8 * op.len /\ 8 * op.len <= U64Max \div 2
  BY <1>1 DEF SatMul
<1>3. /\ Growth(Touch(op), mem) = Expansion(op, mem) /\ Expansion(op, mem) \in Nat
  BY RegionGrowth
<1>4. Expansion(op, mem) <= U64Max \div 4
  <2>1. MemoryNeeded(op) \in 0..U64Max /\ MemoryWordCost(mem) \in Nat
    BY RegionMemory, WordTypes, TableConstants
  <2> DEFINE W == Words(MemoryNeeded(op))
  <2>2. W \in Nat /\ W <= U64Max \div 32
    <3>1. SatAdd(MemoryNeeded(op), 31) \in 0..U64Max
      <4>1. MemoryNeeded(op) \in Nat
        BY <1>1, <2>1
      <4> QED
        BY <4>1, SaturatingType
    <3> QED
      BY <1>1, <3>1 DEF Words
  <2>3. SatMul(3, W) = 3 * W
    <3> HIDE DEF W
    <3> QED
      BY <1>1, <2>2 DEF SatMul
  <2>4. SatMul(W, W) \in Nat /\ SatMul(W, W) <= U64Max
    BY <2>2, SaturatingType, SatMulBound
  <2>5. MemoryWordCost(MemoryNeeded(op)) = SatAdd(SatMul(3, W), SatMul(W, W) \div 512)
    BY DEF MemoryWordCost
  <2>6. SatAdd(SatMul(3, W), SatMul(W, W) \div 512) <= U64Max \div 4
    <3> DEFINE Square == SatMul(W, W)
    <3>1. Square \in Nat /\ Square <= U64Max
      BY <2>4
    <3> HIDE DEF Square
    <3>2. 3 * W + Square \div 512 <= U64Max \div 4
      <4> HIDE DEF W
      <4>1. Square \div 512 \in Nat /\ Square \div 512 <= U64Max \div 512
        BY <1>1, <3>1
      <4> QED
        BY <1>1, <2>2, <4>1
    <3>3. SatAdd(3 * W, Square \div 512) <= 3 * W + Square \div 512
      <4> HIDE DEF W
      <4> QED
        BY <1>1, <2>2, <3>1 DEF SatAdd
    <3>4. SatAdd(3 * W, Square \div 512) \in Nat
      <4> HIDE DEF W
      <4>1. 3 * W \in Nat /\ Square \div 512 \in Nat
        BY <2>2, <3>1
      <4> QED
        BY <4>1, SaturatingType
    <3>5. SatAdd(SatMul(3, W), SatMul(W, W) \div 512) = SatAdd(3 * W, Square \div 512)
      BY <2>3 DEF Square
    <3>6. 3 * W + Square \div 512 \in Nat
      <4> HIDE DEF W
      <4> QED
        BY <2>2, <3>1
    <3> HIDE DEF W
    <3> QED
      BY <1>1, <3>2, <3>3, <3>4, <3>5, <3>6
  <2>7. MemoryWordCost(MemoryNeeded(op)) \in Nat
    BY <2>1, WordTypes
  <2>8. Expansion(op, mem) <= MemoryWordCost(MemoryNeeded(op))
    BY <2>1, <2>7, SaturatingType DEF Expansion
  <2> HIDE DEF W
  <2> QED
    BY <1>1, <1>3, <2>5, <2>6, <2>7, <2>8
<1>5. LogGas(op, mem) = 3 * (op.n + 2) + (375 * (op.n + 1) + 8 * op.len) + Expansion(op, mem)
  <2>1. /\ 3 * (op.n + 2) \in Nat /\ 375 * (op.n + 1) \in Nat
        /\ 3 * (op.n + 2) <= 18 /\ 375 * (op.n + 1) <= 1875
        /\ 8 * op.len \in Nat
    BY <1>1
  <2>2. 3 * (op.n + 2) + (375 * (op.n + 1) + 8 * op.len) + Expansion(op, mem) <= U64Max
    BY <1>1, <1>2, <1>3, <1>4, <2>1
  <2> QED
    BY <1>2, <1>3, <2>1, <2>2, NothingWraps DEF LogGas
<1> QED
  BY <1>1, <1>2, <1>3, <1>5

LEMMA LogRegionCost ==
  ASSUME NEW op \in Opcode, NEW price \in Prices(op), NEW mem \in 0..U64Max,
         NEW g \in Nat, op.kind = "Log", op.len <= U64Max \div 16
  PROVE  RegionGas(op, mem, price) <= ReqGas(op, mem, g)
<1>1. ChainWords(op) = 0
  BY DEF ChainWords, Creates
<1>2. ReqGas(op, mem, g) = LogGas(op, mem)
  BY DEF ReqGas, Creates, Calls
<1>3. /\ U64Max \in Nat /\ 8 * op.len \in Nat /\ op.n \in Nat
      /\ Expansion(op, mem) \in Nat
  BY LogGasExact, TableConstants
<1>4. Growth(Touch(op), mem) = Expansion(op, mem)
  BY RegionGrowth
<1>5. InlineGas(op) = 3 * (op.n + 2)
  BY <1>3 DEF InlineGas, Inline
<1>6. price <= 375 * (op.n + 1) + 8 * op.len
  <2>1. price = SatAdd(375 * (op.n + 1), SatMul(8, op.len))
    BY DEF Prices, Calls
  <2>2. price = SatAdd(375 * (op.n + 1), 8 * op.len)
    BY <2>1, LogGasExact
  <2> QED
    BY <1>3, <2>2 DEF SatAdd
<1>7. price \in Nat
  BY RegionTypes
<1> QED
  BY <1>1, <1>2, <1>3, <1>4, <1>5, <1>6, <1>7, LogGasExact DEF RegionGas

LEMMA CreateRegionCost ==
  ASSUME NEW op \in Opcode, NEW price \in Prices(op), NEW mem \in 0..U64Max,
         NEW g \in Nat, g < U64Max, ReqGas(op, mem, g) <= g, op.kind \in Creates
  PROVE  /\ RegionGas(op, mem, price) + SubCharge(g) <= ReqGas(op, mem, g)
         /\ CreateBase <= ReqGas(op, mem, g)
<1> DEFINE W == Words(op.init.len)
           Bytes == SatMul(CreateWordGas(op), W)
           Base == SatAdd(CreateBase, Bytes)
           Args == SatAdd(Expansion(op, mem), CreateArgGas(op))
<1>1. /\ W \in Nat /\ CreateBase \in Nat /\ U64Max \in Nat
      /\ CreateWordGas(op) \in Nat /\ CreateArgGas(op) \in Nat
      /\ Expansion(op, mem) \in Nat /\ SubCharge(g) \in Nat
      /\ Growth(Touch(op), mem) = Expansion(op, mem)
  <2>1. W \in Nat
    BY OpcodeParts, WordTypes
  <2>2. CreateBase \in Nat /\ U64Max \in Nat
    BY OpcodesAssumption DEF OpcodesAssumption
  <2>3. CreateWordGas(op) \in Nat /\ CreateArgGas(op) \in Nat
    BY DEF CreateWordGas, CreateArgGas
  <2> QED
    BY <2>1, <2>2, <2>3, RegionGrowth, BudgetType
<1>2. Bytes \in Nat /\ Base \in Nat /\ Args \in Nat /\ SatAdd(Base, Args) \in Nat
  <2>1. Bytes \in Nat
    BY <1>1, SaturatingType
  <2>2. Base \in Nat /\ Args \in Nat
    BY <1>1, <2>1, SaturatingType
  <2> QED
    BY <2>1, <2>2, SaturatingType
<1>3. ReqGas(op, mem, g) = SatAdd(SatAdd(Base, Args), SubCharge(g))
  BY DEF ReqGas, CreateGas, Creates, Calls
<1>4. ReqGas(op, mem, g) = SatAdd(Base, Args) + SubCharge(g)
  <2>1. ReqGas(op, mem, g) \in Nat
    BY <1>1, <1>2, <1>3, SaturatingType
  <2>2. SatAdd(SatAdd(Base, Args), SubCharge(g)) < U64Max
    BY <1>1, <1>3, <2>1
  <2> HIDE DEF Base, Args
  <2> QED
    BY <1>1, <1>2, <1>3, <2>2, Unsaturated
<1>5. SatAdd(Base, Args) = Base + Args
  <2> HIDE DEF Base, Args
  <2>1. SatAdd(Base, Args) < U64Max
    BY <1>1, <1>2, <1>4
  <2> QED
    BY <1>2, <2>1, Unsaturated
<1>6. Base = CreateBase + Bytes /\ Args = Expansion(op, mem) + CreateArgGas(op)
  <2>1. Base < U64Max /\ Args < U64Max
    <3> HIDE DEF Base, Args
    <3> QED
      BY <1>1, <1>2, <1>4, <1>5
  <2> HIDE DEF Bytes
  <2> QED
    BY <1>1, <1>2, <2>1, Unsaturated
<1>7. Bytes = CreateWordGas(op) * W
  <2>1. Bytes < U64Max
    <3> HIDE DEF Base, Args, Bytes
    <3> QED
      BY <1>1, <1>2, <1>4, <1>5, <1>6
  <2> HIDE DEF W
  <2> QED
    BY <1>1, <2>1, Unsaturated
<1>8. ChainWords(op) = W
  BY DEF ChainWords
<1>9. InlineGas(op) = CreateArgGas(op)
  BY DEF InlineGas, Inline, CreateArgGas, Creates
<1>10. 9 * W + price = CreateBase + CreateWordGas(op) * W
  <2>1. CASE op.kind = "Create"
    <3>1. price = CreateBase + 2 * W /\ CreateWordGas(op) = 11
      BY <2>1 DEF Prices, CreateWordGas, Calls
    <3> HIDE DEF W
    <3> QED
      BY <1>1, <3>1
  <2>2. CASE op.kind = "Create2"
    <3>1. price = CreateBase + 8 * W /\ CreateWordGas(op) = 17
      BY <2>2 DEF Prices, CreateWordGas, Calls
    <3> HIDE DEF W
    <3> QED
      BY <1>1, <3>1
  <2> QED
    BY <2>1, <2>2 DEF Creates
<1>11. price \in Nat
  BY RegionTypes
<1>12. RegionGas(op, mem, price) = 9 * W + CreateArgGas(op) + price + Expansion(op, mem)
  BY <1>1, <1>8, <1>9 DEF RegionGas
<1>13. ReqGas(op, mem, g) =
        CreateBase + CreateWordGas(op) * W + Expansion(op, mem) + CreateArgGas(op) + SubCharge(g)
  <2> HIDE DEF W, Base, Bytes, Args
  <2> QED
    BY <1>1, <1>2, <1>4, <1>5, <1>6, <1>7
<1>14. CreateWordGas(op) * W \in Nat
  <2> HIDE DEF W
  <2> QED
    BY <1>1
<1> HIDE DEF W, Base, Bytes, Args
<1> QED
  BY <1>1, <1>10, <1>11, <1>12, <1>13, <1>14

\* requires.rs against the EVM: an opcode that finds its gas pays for its
\* region at any price and keeps back what its child may take.
LEMMA RegionCost ==
  ASSUME NEW op \in Opcode, NEW price \in Prices(op), NEW mem \in 0..U64Max,
         NEW g \in Nat, g < U64Max, ReqGas(op, mem, g) <= g,
         op.kind = "Log" => op.len <= U64Max \div 16
  PROVE  /\ RegionGas(op, mem, price) + ChildGas(op, g) <= ReqGas(op, mem, g)
         /\ ChildGas(op, g) \in Nat
         /\ Sentry(op) <= ReqGas(op, mem, g)
         /\ op.kind \in Creates => CreateBase <= g
<1>1. op.kind \in Kinds /\ op.gas \in Nat
  BY OpcodeParts
<1>2. /\ RegionGas(op, mem, price) \in Nat /\ ReqGas(op, mem, g) \in Nat
      /\ SubCharge(g) \in Nat
  <2>1. mem \in Nat
    BY TableConstants
  <2> QED
    BY <2>1, RegionTypes, GasType, BudgetType
<1>3. CASE op.kind \in Creates
  <2>1. Sentry(op) = 0
    BY <1>3 DEF Sentry, Creates
  <2>2. CreateBase \in Nat
    BY OpcodesAssumption DEF OpcodesAssumption
  <2> QED
    BY <1>2, <1>3, <2>1, <2>2, CreateRegionCost DEF ChildGas
<1>4. CASE op.kind \in Calls
  <2>1. Sentry(op) = 0 /\ op.kind \notin Creates
    BY <1>4 DEF Sentry, Calls, Creates
  <2> QED
    BY <1>1, <1>2, <1>4, <2>1, CallRegionCost DEF ChildGas
<1>5. CASE op.kind \notin Creates \cup Calls
  <2>1. ChildGas(op, g) = 0
    BY <1>5 DEF ChildGas
  <2>2. CASE op.kind = "Log"
    BY <1>2, <1>5, <2>1, <2>2, LogRegionCost DEF Sentry
  <2>3. CASE op.kind \in {"MStore", "MLoad", "MStore8", "MCopy", "DataCopy",
                          "ExtCodeCopy", "Keccak256", "Return"}
    <3>1. Sentry(op) = 0
      BY <2>3 DEF Sentry
    <3> QED
      BY <1>2, <1>5, <2>1, <2>3, <3>1, MemoryRegionCost
  <2>4. CASE op.kind \in Flat0 \cup Flat1 \cup Flat2 \cup
               {"Ternary8", "Dup", "Swap", "CallDataLoad", "Stop", "SelfDestruct"}
    BY <1>2, <1>5, <2>1, <2>4, FlatRegionCost
  <2> QED
    BY <1>1, <1>5, <2>2, <2>3, <2>4 DEF Kinds, Terminators
<1> QED
  BY <1>3, <1>4, <1>5

LEMMA ForwardedType ==
  ASSUME NEW left \in Nat
  PROVE  AllButOne64th(left) \in Nat /\ AllButOne64th(left) <= left
<1>1. left \div 64 \in Nat /\ left \div 64 <= left
  OBVIOUS
<1> QED
  BY <1>1 DEF AllButOne64th

\* The charge for a sub-machine is not saturated.
LEMMA Charge ==
  ASSUME NEW b \in Nat, b <= U64Max \div 100
  PROVE  SatAdd(SatMul(b, 64), 62) \div 63 = (64 * b + 62) \div 63
<1>1. U64Max \in Nat /\ U64Max >= 65536
  BY OpcodesAssumption DEF OpcodesAssumption
<1>2. 64 * b + 62 <= U64Max
  BY <1>1
<1>3. SatMul(b, 64) = 64 * b
  BY <1>1, <1>2 DEF SatMul
<1> QED
  BY <1>1, <1>2, <1>3 DEF SatAdd

\* The charge for the budget also covers the tail, up to 8 POPs of 2 gas after
\* the budget was taken.
TailIsCharged ==
  \A g, later \in 0..U64Max :
    CreateBase <= later /\ later <= g /\ g <= later + 16 =>
      SubBudget(g) + 6 <= SubCharge(later)
=============================================================================
