------------------------------ MODULE Opcodes ------------------------------
(***************************************************************************)
(* The resource tables of the generator: what an opcode REQUIRES of the    *)
(* symbolic machine before it is committed (stack items, free stack slots, *)
(* gas) and what it PROVIDES (stack items, memory growth).                 *)
(* Opcodes that share a row of the tables share a `kind`, so "Binary3" is  *)
(* any of ADD, SUB, LT, ... and "Push" any of PUSH1..PUSH32.               *)
(***************************************************************************)
EXTENDS Integers

CONSTANTS
  U64Max,        \* u64::MAX, where saturating arithmetic stops
  StackLimit,    \* the EVM's stack limit, 1024 in the code
  MaxIndex,      \* the largest n of DUPn and SWAPn, 16 in the code
  CreateBase,    \* base price of CREATE and CREATE2, 32000 in the code
  Percentage     \* Config::create_gas_percentage

ASSUME OpcodesAssumption ==
  /\ U64Max \in Nat /\ U64Max >= 65536
  /\ MaxIndex \in Nat /\ MaxIndex >= 2
  /\ StackLimit \in Nat /\ StackLimit >= 8 /\ StackLimit >= MaxIndex + 2
  /\ CreateBase \in Nat /\ CreateBase <= U64Max
  /\ Percentage \in 0..100

-----------------------------------------------------------------------------
(* u64 arithmetic: saturating, and the wrapping `+` of a release build.    *)

SatAdd(a, b) == IF a + b > U64Max THEN U64Max ELSE a + b
SatSub(a, b) == IF a > b THEN a - b ELSE 0
SatMul(a, b) == IF a # 0 /\ b > U64Max \div a THEN U64Max ELSE a * b
WrapAdd(a, b) == (a + b) % (U64Max + 1)

Larger(a, b) == IF a > b THEN a ELSE b

-----------------------------------------------------------------------------
(* Opcodes.  `init` describes the init code a CREATE carries: its length   *)
(* in bytes (0 in the placeholder form), and, for the properties, the gas  *)
(* it burns when it runs, the highest its stack gets, and the budget its   *)
(* sub-machine was given.                                                  *)

Flat0 == {"Nullary2", "SelfBalance", "Push"}
Flat1 == {"Unary3", "Clz", "Pop", "SLoad", "TLoad", "Account", "BlockHash"}
Flat2 == {"Binary3", "Binary5", "Exp", "SStore", "TStore"}
Creates == {"Create", "Create2"}
Calls == {"Call", "CallNoValue"}
Terminators == {"Stop", "Return", "SelfDestruct"}
Kinds ==
  Flat0 \cup Flat1 \cup Flat2 \cup Creates \cup Calls \cup Terminators \cup
  {"Ternary8", "Dup", "Swap", "MStore", "MLoad", "MStore8", "Log", "MCopy",
   "DataCopy", "ExtCodeCopy", "CallDataLoad", "Keccak256"}

NoInit == [len |-> 0, cost |-> 0, peak |-> 0, budget |-> 0]
InitCode == [len : Nat, cost : Nat, peak : Nat, budget : Nat]

\* n: index of DUP/SWAP/LOG; dest, len: first memory range; src, rlen: the
\* second one; to: whom a CALL calls, address zero in the placeholder form;
\* gas: what it forwards.
Opcode ==
  {op \in [kind : Kinds, n : 0..MaxIndex, dest : Nat, src : Nat, len : Nat,
            rlen : Nat, to : {"zero", "account"}, gas : Nat,
            init : InitCode] :
     op.kind = "Log" => op.n <= 4}

Simple(k) ==
  [kind |-> k, n |-> 0, dest |-> 0, src |-> 0, len |-> 0, rlen |-> 0,
   to |-> "zero", gas |-> 0, init |-> NoInit]
Indexed(k, i) == [Simple(k) EXCEPT !.n = i]
Ranged(k, dest, len) == [Simple(k) EXCEPT !.dest = dest, !.len = len]

IsTerminating(op) == op.kind \in Terminators
IsPlaceholder(op) == op.kind \in Creates /\ op.init.len = 0

-----------------------------------------------------------------------------
(* Memory sizes and prices.                                                *)

Words(bytes) == SatAdd(bytes, 31) \div 32
RoundUpToWord(bytes) == SatMul(Words(bytes), 32)
RangeSize(offset, length) ==
  IF length = 0 THEN 0 ELSE RoundUpToWord(SatAdd(offset, length))
\* Defect: the source range of MCOPY is forgotten.
CopySizeOne(dest, src, length) == RangeSize(dest, length)

CopySizeTwo(dest, src, length) ==
  Larger(RangeSize(dest, length), RangeSize(src, length))

MemoryWordCost(bytes) ==
  SatAdd(SatMul(3, Words(bytes)), SatMul(Words(bytes), Words(bytes)) \div 512)
CopyWordGas(length) == SatMul(3, Words(length))

\* The memory size an opcode needs; 0 when it touches no memory.
MemoryNeeded(op) ==
  CASE op.kind \in {"MStore", "MLoad"} -> RoundUpToWord(SatAdd(op.dest, 32))
    [] op.kind = "MStore8" -> RoundUpToWord(SatAdd(op.dest, 1))
    [] op.kind \in {"Log", "Return", "Keccak256", "DataCopy", "ExtCodeCopy"} ->
         RangeSize(op.dest, op.len)
    [] op.kind = "MCopy" -> CopySizeTwo(op.dest, op.src, op.len)
    [] op.kind \in Creates -> SatMul(Words(op.init.len), 32)
    [] op.kind \in Calls ->
         Larger(RangeSize(op.dest, op.len), RangeSize(op.src, op.rlen))
    [] OTHER -> 0

Expansion(op, memory) ==
  SatSub(MemoryWordCost(MemoryNeeded(op)), MemoryWordCost(memory))

-----------------------------------------------------------------------------
(* Requires.                                                               *)

ReqStack(op) ==
  CASE op.kind \in Flat2 -> 2
    [] op.kind \in Flat1 -> 1
    [] op.kind = "Ternary8" -> 3
    [] op.kind = "Dup" -> op.n
    [] op.kind = "Swap" -> op.n + 1
    [] OTHER -> 0

\* Defect: CREATE2 reserves what CREATE does, its salt has no slot.
ReservedWithoutSalt(op) ==
  CASE op.kind = "Log" -> op.n + 2
    [] op.kind \in Creates -> 3
    [] op.kind \in Calls -> 7
    [] OTHER -> 4

\* Free slots the rendered region needs above the entry stack.
Reserved(op) ==
  CASE op.kind \in {"MLoad", "CallDataLoad", "SelfDestruct"} -> 1
    [] op.kind \in {"MStore", "MStore8", "Return", "Keccak256"} -> 2
    [] op.kind = "Log" -> op.n + 2
    [] op.kind \in {"MCopy", "DataCopy", "Create"} -> 3
    [] op.kind \in {"ExtCodeCopy", "Create2"} -> 4
    [] op.kind = "CallNoValue" -> 6
    [] op.kind = "Call" -> 7
    [] OTHER -> 0

\* Defect: the POPs of the solver are free.
FreePops(kind) == IF kind = "Pop" THEN 0 ELSE 3

FlatGas(kind) ==
  CASE kind = "Stop" -> 0
    [] kind \in {"Nullary2", "Pop"} -> 2
    [] kind \in {"Binary3", "Unary3", "Push", "Dup", "Swap"} -> 3
    [] kind \in {"Clz", "Binary5", "SelfBalance"} -> 5
    [] kind = "CallDataLoad" -> 6
    [] kind = "Ternary8" -> 8
    [] kind = "BlockHash" -> 20
    [] kind \in {"TLoad", "TStore"} -> 100
    [] kind = "Exp" -> 10 + 50 * 32
    [] kind = "SLoad" -> 2100
    [] kind = "Account" -> 2600
    [] kind = "SStore" -> 22100
    [] OTHER -> 3 + 32600

\* The pushes and the operation itself, without memory growth.
MemoryOpGas(op) ==
  CASE op.kind \in {"MLoad", "Return"} -> 6
    [] op.kind \in {"MStore", "MStore8"} -> 9
    [] op.kind \in {"MCopy", "DataCopy"} -> 12 + CopyWordGas(op.len)
    [] op.kind = "ExtCodeCopy" -> 12 + 2600 + CopyWordGas(op.len)
    [] OTHER -> 6 + 30 + SatMul(6, Words(op.len))

\* LOGn adds with the plain `+` of u64, every other opcode saturates or
\* cannot overflow.
LogGas(op, memory) ==
  WrapAdd(WrapAdd(3 * (op.n + 2),
                  WrapAdd(375 * (op.n + 1), SatMul(8, op.len))),
          Expansion(op, memory))

\* Machine::create_sub_budget, and the price of forwarding it (EIP-150).
SubBudget(gas) == SatMul(gas, Percentage) \div 100

\* Defect: the budget is charged as if all gas could be forwarded.
SubChargeAtPar(gas) == SubBudget(gas)

SubCharge(gas) == SatAdd(SatMul(SubBudget(gas), 64), 62) \div 63

\* 9 gas a word for the MSTORE chain, 2 for EIP-3860, 6 for CREATE2's hash.
CreateWordGas(op) == IF op.kind = "Create" THEN 11 ELSE 17
CreateArgGas(op) == IF op.kind = "Create" THEN 9 ELSE 12
CreateGas(op, memory, gas) ==
  SatAdd(SatAdd(SatAdd(CreateBase,
                       SatMul(CreateWordGas(op), Words(op.init.len))),
                SatAdd(Expansion(op, memory), CreateArgGas(op))),
         SubCharge(gas))

CallPushGas(op) == IF op.kind = "Call" THEN 20 ELSE 18

\* Defect: the gas handed to the callee is not charged.
CallGasWithoutStipend(op, memory) ==
  SatAdd(100 + CallPushGas(op), Expansion(op, memory))

CallGas(op, memory) ==
  SatAdd(SatAdd(100 + CallPushGas(op), Expansion(op, memory)), op.gas)

ReqGas(op, memory, gas) ==
  CASE op.kind \in Creates -> CreateGas(op, memory, gas)
    [] op.kind \in Calls -> CallGas(op, memory)
    [] op.kind = "Log" -> LogGas(op, memory)
    [] op.kind \in {"MStore", "MLoad", "MStore8", "MCopy", "DataCopy",
                    "ExtCodeCopy", "Keccak256", "Return"} ->
         MemoryOpGas(op) + Expansion(op, memory)
    [] OTHER -> FlatGas(op.kind)

-----------------------------------------------------------------------------
(* Provides.                                                               *)

ProvStack(op) ==
  CASE op.kind \in {"Pop", "SStore", "TStore", "MStore", "MStore8", "Log",
                    "MCopy", "DataCopy", "ExtCodeCopy"} \cup Terminators -> 0
    [] op.kind \in {"Dup", "Swap"} -> op.n + 1
    [] OTHER -> 1

\* Defect: the size needed is added, not the growth.
ProvMemoryWhole(op, memory) == MemoryNeeded(op)

ProvMemory(op, memory) == SatSub(MemoryNeeded(op), memory)

-----------------------------------------------------------------------------
(* Machine::constraints: what keeps an opcode from being committed on a    *)
(* machine with `height` items, `memory` bytes and `gas`.  A positive      *)
(* stack delta asks for pushes, a negative one for pops.                   *)

\* Defects: only the operands, only the net growth, or both added up.
PeakOfOperands(op) == Reserved(op)
PeakOfResults(op) == SatSub(ProvStack(op), ReqStack(op))
PeakOfBoth(op) == Reserved(op) + SatSub(ProvStack(op), ReqStack(op))

PeakAbove(op) == Larger(Reserved(op), SatSub(ProvStack(op), ReqStack(op)))

StackDelta(op, height) ==
  LET underflow == SatSub(ReqStack(op), height)
      overflow == SatSub(height + PeakAbove(op), StackLimit)
  IN IF underflow > 0 THEN underflow ELSE -overflow

GasDelta(op, memory, gas) == SatSub(ReqGas(op, memory, gas), gas)

NoConstraints(op, height, memory, gas) ==
  StackDelta(op, height) = 0 /\ GasDelta(op, memory, gas) = 0
=============================================================================
