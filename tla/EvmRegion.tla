----------------------------- MODULE EvmRegion -----------------------------
(***************************************************************************)
(* The EVM runs the region of ONE committed opcode, instruction by         *)
(* instruction, from any machine state.  The generator commits the opcode  *)
(* only where Machine::constraints finds nothing to solve (Admitted); the  *)
(* other states show that it does not ask for more than the EVM does.      *)
(* A CREATE was materialized earlier, with the gas the fix-ups committed    *)
(* since then have cost: that gas its init code was generated for.         *)
(* This is where the generator's tables (Opcodes) meet its renderer and    *)
(* the EVM (Evm).                                                          *)
(***************************************************************************)
EXTENDS Evm

CONSTANTS
  Ops,              \* the opcodes examined
  Heights,          \* stack heights at entry
  Memories,         \* memory sizes at entry, multiples of 32
  EntryGas(_, _)    \* gas values at entry for an opcode and a memory size

ASSUME EvmRegionAssumption ==
  /\ Ops \subseteq Opcode
  /\ Heights \subseteq 0..StackLimit /\ Memories \subseteq 0..U64Max
  /\ \A o \in Ops, m \in Memories : EntryGas(o, m) \subseteq 0..U64Max

VARIABLES
  op,       \* the committed opcode
  entry,    \* stack, memory and gas of the machine when it was committed
  paid,     \* gas of the fix-ups between its materialization and that commit
  frame,    \* stack, memory and gas of the running EVM frame
  rest,     \* instructions still to run
  child,    \* what the child frame was given and spent, if there was one
  status    \* "running", "done" or "fault"

vars == <<op, entry, paid, frame, rest, child, status>>

NoChild == [given |-> 0, spent |-> 0, ran |-> FALSE]

\* POPs made room for the operands of a CREATE if the stack is now as high as
\* it may be: no more than its operands need.
Paddings(o, height) ==
  IF o.kind \in Creates /\ height + PeakAbove(o) = StackLimit
  THEN {FlatGas("Pop") * n : n \in 0..PeakAbove(o)}
  ELSE {0}

Init ==
  /\ op \in Ops
  /\ \E h \in Heights, m \in Memories : \E g \in EntryGas(op, m) :
       /\ entry = [stack |-> h, memory |-> m, gas |-> g]
       /\ paid \in {p \in Paddings(op, h) : g + p <= U64Max}
  /\ frame = entry
  /\ rest = Region(op)
  /\ child = NoChild
  /\ status = "running"

-----------------------------------------------------------------------------
Instr == Head(rest)

Cost(price) == price + Growth(Instr.touch, frame.memory)

Affordable(price) ==
  /\ frame.stack >= Instr.pops
  /\ frame.stack - Instr.pops + Instr.pushes <= StackLimit
  /\ Cost(price) <= frame.gas
  /\ frame.gas >= Instr.sentry

After(price, spent) ==
  [stack |-> frame.stack - Instr.pops + Instr.pushes,
   memory |-> Larger(frame.memory, Instr.touch),
   gas |-> frame.gas - Cost(price) - spent]

Advance ==
  /\ rest' = Tail(rest)
  /\ status' = IF Len(rest) = 1 THEN "done" ELSE "running"
  /\ UNCHANGED <<op, entry, paid>>

EntersChild == Len(rest) = 1 /\ op.kind \in Calls \cup Creates

\* An instruction that stays in this frame.
Step(price) ==
  /\ ~EntersChild /\ Affordable(price)
  /\ frame' = After(price, 0)
  /\ child' = child
  /\ Advance

\* The child of a CALL gets the gas operand, at most 63/64 of what is left,
\* and returns it all or burns it all.
StepCall(price) ==
  /\ EntersChild /\ op.kind \in Calls /\ Affordable(price)
  /\ LET most == AllButOne64th(frame.gas - Cost(price))
         given == IF op.gas < most THEN op.gas ELSE most
     IN \E spent \in {0, given} :
          /\ frame' = After(price, spent)
          /\ child' = [given |-> given, spent |-> spent, ran |-> TRUE]
  /\ Advance

\* The budget the sub-machine of a CREATE was given, when it was materialized.
Budget == SubBudget(entry.gas + paid)
TailGas == 6

\* The init code of a CREATE is at least its tail, PUSH1 0 PUSH1 0 RETURN; the
\* program before it spends nothing, or all its sub-machine was budgeted.  When
\* that is more than was forwarded, all of that is gone.
StepCreate(price) ==
  /\ EntersChild /\ op.kind \in Creates /\ Affordable(price)
  /\ LET given == AllButOne64th(frame.gas - Cost(price))
     IN \E need \in {TailGas, Budget + TailGas} :
          LET spent == IF need <= given THEN need ELSE given
          IN /\ frame' = After(price, spent)
             /\ child' = [given |-> given, spent |-> spent, ran |-> TRUE]
  /\ Advance

Fault(price) ==
  /\ ~Affordable(price)
  /\ status' = "fault"
  /\ UNCHANGED <<op, entry, paid, frame, rest, child>>

Next ==
  /\ status = "running"
  /\ \E price \in Instr.prices :
       Step(price) \/ StepCall(price) \/ StepCreate(price) \/ Fault(price)

Spec == Init /\ [][Next]_vars

-----------------------------------------------------------------------------
\* Machine::ingest commits the opcode on the entry state.
Admitted == NoConstraints(op, entry.stack, entry.memory, entry.gas)

\* An opcode the solver found free of constraints never underflows or
\* overflows the stack, runs out of gas or trips the SSTORE sentry, at any
\* instruction of its region and at any of the EVM's prices.  The harness
\* (lib.rs execution_fuzz_works) panics on each of these outcomes.
RegionNeverFaults == status = "fault" => ~Admitted

\* When the region is through, the frame is where Machine::ingest left the
\* symbolic machine: the same stack height, the same memory size, and no
\* less gas than the symbolic machine has left.  For a CREATE that means that
\* the charge covers the tail of the init code and a budget that was taken
\* before the fix-ups were paid.
RegionMatchesPrediction ==
  status = "done" /\ Admitted =>
    /\ frame.stack = entry.stack - ReqStack(op) + ProvStack(op)
    /\ frame.memory = SatAdd(entry.memory, ProvMemory(op, entry.memory))
    /\ frame.gas >= entry.gas - ReqGas(op, entry.memory, entry.gas)

\* EIP-150 forwards the budget the sub-machine generated its init code for, or
\* falls short of it by no more than the fix-ups cost that were committed in
\* between: the promise of the charge of 64/63 in requires.rs, as far as it
\* holds (it is computed from the gas at the commit; see BudgetForwarded of
\* Runtime).  The budget alone is meant, without the tail.
ForwardCoversBudget ==
  child.ran /\ op.kind \in Creates /\ Admitted =>
    child.given + paid >= Budget

\* The other direction, for the stack: a region that runs through needed no
\* fix-up, so the solver pads a program with a PUSH or a POP only where the
\* program would fault without it.
FixupsAreNeeded == status = "done" => StackDelta(op, entry.stack) = 0

\* The one-step summary of a region agrees with its instructions: the height
\* never passes Rise, never sinks below Sinks, and the gas spent outside the
\* child is RegionGas at one of the prices.
SummaryExact ==
  /\ frame.stack <= entry.stack + Rise(op)
  /\ frame.stack >= entry.stack - Sinks(op)
  /\ status = "done" =>
       \E price \in Prices(op) :
         entry.gas - frame.gas - child.spent = RegionGas(op, entry.memory, price)
=============================================================================
