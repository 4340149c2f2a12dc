-------------------------------- MODULE Evm --------------------------------
(***************************************************************************)
(* The runtime side: what an opcode renders to (opcodes/render.rs) and     *)
(* what the EVM charges, pops, pushes and touches when it runs that code.  *)
(* Every rendered region has one shape: for a CREATE a chain of MSTOREs    *)
(* that lays the init code into memory, then the PUSHes of the operands,   *)
(* then the operation.                                                     *)
(* The prices are the EVM's own, taken neither from requires.rs nor from   *)
(* provides.rs, so that a disagreement of the tables with the EVM shows.   *)
(***************************************************************************)
EXTENDS Opcodes, Sequences

\* Operands pushed inline, right before the operation.
Inline(op) ==
  CASE op.kind \in {"MLoad", "CallDataLoad", "SelfDestruct"} -> 1
    [] op.kind \in {"MStore", "MStore8", "Return", "Keccak256"} -> 2
    [] op.kind = "Log" -> op.n + 2
    [] op.kind \in {"MCopy", "DataCopy", "Create"} -> 3
    [] op.kind \in {"ExtCodeCopy", "Create2"} -> 4
    [] op.kind = "CallNoValue" -> 6
    [] op.kind = "Call" -> 7
    [] OTHER -> 0

\* The value of a CALL is the fifth operand and the only PUSH0.
InlinePrice(op, i) == IF op.kind = "Call" /\ i = 5 THEN 2 ELSE 3
InlineGas(op) == 3 * Inline(op) - (IF op.kind = "Call" THEN 1 ELSE 0)

\* Words of the MSTORE chain.
ChainWords(op) == IF op.kind \in Creates THEN Words(op.init.len) ELSE 0

-----------------------------------------------------------------------------
(* The operations.                                                         *)

Pops(op) ==
  CASE op.kind \in {"Binary3", "Binary5", "Exp", "SStore", "TStore"} -> 2
    [] op.kind \in {"Unary3", "Clz", "Pop", "SLoad", "TLoad", "Account",
                    "BlockHash"} -> 1
    [] op.kind = "Ternary8" -> 3
    [] op.kind = "Dup" -> op.n
    [] op.kind = "Swap" -> op.n + 1
    [] OTHER -> Inline(op)

Pushes(op) ==
  CASE op.kind \in {"Dup", "Swap"} -> op.n + 1
    [] op.kind \in {"Stop", "Pop", "SStore", "TStore", "MStore", "MStore8",
                    "Log", "MCopy", "DataCopy", "ExtCodeCopy", "Return",
                    "SelfDestruct"} -> 0
    [] OTHER -> 1

\* What the EVM may charge, cheapest and dearest: warm or cold accounts and
\* slots, short or long exponents.
Prices(op) ==
  LET copy == SatMul(3, Words(op.len))
  IN CASE op.kind \in {"Stop", "Return"} -> {0}
       [] op.kind \in {"Nullary2", "Pop"} -> {2}
       [] op.kind \in {"Binary3", "Unary3", "Push", "Dup", "Swap", "MStore",
                       "MLoad", "MStore8", "CallDataLoad"} -> {3}
       [] op.kind \in {"Binary5", "Clz", "SelfBalance"} -> {5}
       [] op.kind = "Ternary8" -> {8}
       [] op.kind = "BlockHash" -> {20}
       [] op.kind \in {"TLoad", "TStore"} \cup Calls -> {100}
       [] op.kind = "Exp" -> {10, 1610}
       [] op.kind = "SLoad" -> {100, 2100}
       [] op.kind = "Account" -> {100, 2600}
       [] op.kind = "SStore" -> {100, 2100 + 20000}
       [] op.kind = "SelfDestruct" -> {5000, 5000 + 2600 + 25000}
       [] op.kind \in {"MCopy", "DataCopy"} -> {3 + copy}
       [] op.kind = "ExtCodeCopy" -> {100 + copy, 2600 + copy}
       [] op.kind = "Keccak256" -> {30 + SatMul(6, Words(op.len))}
       [] op.kind = "Log" ->
            {SatAdd(375 * (op.n + 1), SatMul(8, op.len))}
       [] op.kind = "Create" -> {CreateBase + 2 * Words(op.init.len)}
       [] OTHER -> {CreateBase + 8 * Words(op.init.len)}

\* EIP-2200: SSTORE fails unless more than 2300 gas is left.
Sentry(op) == IF op.kind = "SStore" THEN 2301 ELSE 0

\* The memory the operation touches.
Touch(op) ==
  CASE op.kind \in {"MStore", "MLoad"} -> RangeSize(op.dest, 32)
    [] op.kind = "MStore8" -> RangeSize(op.dest, 1)
    [] op.kind \in {"Log", "Return", "Keccak256", "DataCopy", "ExtCodeCopy"} ->
         RangeSize(op.dest, op.len)
    [] op.kind \in {"MCopy"} \cup Calls ->
         Larger(RangeSize(op.dest, op.len),
                RangeSize(op.src, IF op.kind = "MCopy" THEN op.len ELSE op.rlen))
    [] op.kind \in Creates -> RangeSize(0, op.init.len)
    [] OTHER -> 0

Growth(touch, memory) ==
  SatSub(MemoryWordCost(touch), MemoryWordCost(memory))

\* EIP-150: all but one 64th of what is left may be forwarded.
AllButOne64th(left) == left - left \div 64

-----------------------------------------------------------------------------
(* A whole region in one step, for the modules that run programs region by *)
(* region.  EvmRegion checks these three against the instructions.         *)

\* How far the stack rises above the entry height.
Rise(op) ==
  LET net == SatSub(Pushes(op), Pops(op))
      chain == IF ChainWords(op) > 0 THEN 2 ELSE 0
  IN Larger(Larger(Inline(op), chain), IF Inline(op) = 0 THEN net ELSE 0)

\* Items the region consumes from below its entry height.
Sinks(op) == IF Inline(op) = 0 THEN Pops(op) ELSE 0

\* Defect: the MSTORE chain runs for free.
RegionGasWithoutChain(op, memory, price) ==
  InlineGas(op) + price + Growth(Touch(op), memory)

\* Gas spent before a child frame is entered, at one of the prices.
RegionGas(op, memory, price) ==
  9 * ChainWords(op) + InlineGas(op) + price + Growth(Touch(op), memory)

-----------------------------------------------------------------------------
(* The same region as a sequence of instructions.                          *)

Instruction(pops, pushes, prices, touch, sentry) ==
  [pops |-> pops, pushes |-> pushes, prices |-> prices, touch |-> touch,
   sentry |-> sentry]

PushInstruction(price) == Instruction(0, 1, {price}, 0, 0)

Chain(op) ==
  [i \in 1..(3 * ChainWords(op)) |->
     IF i % 3 = 0 THEN Instruction(2, 0, {3}, 32 * (i \div 3), 0)
     ELSE PushInstruction(3)]

Region(op) ==
  Chain(op)
    \o [i \in 1..Inline(op) |-> PushInstruction(InlinePrice(op, i))]
    \o <<Instruction(Pops(op), Pushes(op), Prices(op), Touch(op), Sentry(op))>>
=============================================================================
