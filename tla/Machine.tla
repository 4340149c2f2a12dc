------------------------------ MODULE Machine ------------------------------
(***************************************************************************)
(* The symbolic machine (machine.rs): it ingests opcodes one by one and    *)
(* keeps the gas, stack height and memory size the EVM will have when it   *)
(* has run the bytecode emitted so far.  Before it commits an opcode it    *)
(* solves the opcode's constraints, padding the program with PUSHes or     *)
(* POPs.  The solver's `stack` is a queue in fact: it pops at the end and  *)
(* inserts at index 0.  Here the next opcode to pop is Head(work).         *)
(*                                                                         *)
(* The client is the most general one: it ingests any opcode, at any time, *)
(* whatever the last call returned.  The sub-machine of a CREATE is        *)
(* represented by the init code it may produce (InitCodes); module         *)
(* Runtime says what that init code does when it runs.                     *)
(***************************************************************************)
EXTENDS Opcodes, Sequences

CONSTANTS
  DrawnOps,          \* opcodes the client may ingest
  InitCodes(_),      \* init codes a sub-machine of that budget may produce
  Budgets,           \* gas a machine may start with
  AllowTermination,  \* values of Config::allow_termination: TRUE at the root,
                     \* FALSE in a sub-machine
  MaxInitCode,       \* EIP-3860's limit, 49152 in the code
  MaxOps             \* bound: no new opcode once the bytecode is this long

ASSUME MachineAssumption ==
  /\ DrawnOps \subseteq Opcode
  /\ Budgets \subseteq 0..U64Max
  /\ AllowTermination \subseteq BOOLEAN
  /\ MaxInitCode \in Nat /\ MaxOps \in Nat
  /\ \A budget \in 0..U64Max :
       InitCodes(budget) \subseteq {c \in InitCode : c.len \in 1..MaxInitCode}

VARIABLES
  allow_termination, gas, stack, memory, halted,
  work,      \* the solver's queue; empty when no ingest is in progress
  result,    \* what the last ingest returned, "busy" while one is in progress
  size,      \* opcodes in the bytecode
  padding    \* fix-ups committed by the ingest in progress, or else the last

vars ==
  <<allow_termination, gas, stack, memory, halted, work, result, size, padding>>

\* What waits in the queue: the ingested opcode, or a fix-up made for it.
Task(op, fixup) == [op |-> op, fixup |-> fixup]
PushTask == Task(Simple("Push"), TRUE)
PopTask == Task(Simple("Pop"), TRUE)

NoPadding == [push |-> 0, pop |-> 0]

Init ==
  /\ allow_termination \in AllowTermination
  /\ gas \in Budgets
  /\ stack = 0 /\ memory = 0 /\ halted = FALSE
  /\ work = <<>> /\ result = "ok"
  /\ size = 0 /\ padding = NoPadding

-----------------------------------------------------------------------------
(* Taking an opcode in: the part of Machine::ingest before the solver.     *)

Idle == work = <<>>

IsCallPlaceholder(op) == op.kind \in Calls /\ op.to = "zero"

\* The placeholder of a CREATE gets the init code of a fresh sub-machine, that
\* of a CALL a quarter of the gas the machine has now.
Materialize(op) ==
  CASE IsPlaceholder(op) ->
         {[op EXCEPT !.init = code] : code \in InitCodes(SubBudget(gas))}
    [] IsCallPlaceholder(op) ->
         {[op EXCEPT !.to = "account", !.gas = gas \div 4]}
    [] OTHER -> {op}

Return(r) ==
  /\ result' = r
  /\ UNCHANGED <<allow_termination, gas, stack, memory, halted, size>>

Reject(r) == Return(r) /\ work' = <<>> /\ UNCHANGED padding

IngestHalted == halted /\ Reject("HaltConditionEncountered")

Skipped(op) == ~allow_termination /\ IsTerminating(op)

SkipTerminator(op) == ~halted /\ Skipped(op) /\ Reject("ok")

\* pick_index and fork draw from a source that may be used up.
MaterializeFails(op) ==
  /\ ~halted /\ ~Skipped(op)
  /\ IsPlaceholder(op) \/ IsCallPlaceholder(op)
  /\ Reject("InputExhausted")

\* An explicit payload over the limit, or a sub-machine's program that does
\* not fit with the RETURN tail.
InitCodeTooLong(op) ==
  /\ ~halted /\ ~Skipped(op)
  /\ IsPlaceholder(op) \/ op.init.len > MaxInitCode
  /\ Reject("MaxInitCode")

Accept(op) ==
  /\ ~halted /\ ~Skipped(op) /\ op.init.len <= MaxInitCode
  /\ \E whole \in Materialize(op) : work' = <<Task(whole, FALSE)>>
  /\ padding' = NoPadding
  /\ Return("busy")

Ingest ==
  /\ Idle /\ size < MaxOps
  /\ \E op \in DrawnOps :
       \/ IngestHalted
       \/ SkipTerminator(op)
       \/ MaterializeFails(op)
       \/ InitCodeTooLong(op)
       \/ Accept(op)

-----------------------------------------------------------------------------
(* The solver: one action per turn of the loop, by what it finds.          *)

Current == Head(work).op

Free == NoConstraints(Current, stack, memory, gas)

Counted(task) ==
  [push |-> padding.push + (IF task = PushTask THEN 1 ELSE 0),
   pop |-> padding.pop + (IF task = PopTask THEN 1 ELSE 0)]

Commit ==
  /\ ~Idle /\ Free
  /\ gas' = gas - ReqGas(Current, memory, gas)
  /\ stack' = stack - ReqStack(Current) + ProvStack(Current)
  /\ memory' = SatAdd(memory, ProvMemory(Current, memory))
  /\ size' = size + 1
  /\ padding' = Counted(Head(work))
  /\ halted' = IsTerminating(Current)
  /\ work' = IF IsTerminating(Current) THEN <<>> ELSE Tail(work)
  /\ result' = IF IsTerminating(Current) THEN "HaltConditionEncountered"
               ELSE IF Len(work) = 1 THEN "ok" ELSE "busy"
  /\ UNCHANGED allow_termination

OutOfGas ==
  /\ ~Idle /\ GasDelta(Current, memory, gas) > 0
  /\ Reject("OutOfGas")

Underflow ==
  /\ ~Idle /\ GasDelta(Current, memory, gas) = 0
  /\ StackDelta(Current, stack) > 0

Overflow ==
  /\ ~Idle /\ GasDelta(Current, memory, gas) = 0
  /\ StackDelta(Current, stack) < 0

\* Defects: no fix-up is queued, or one too many.
RequeueAlone(fixup) ==
  /\ work' = Append(Tail(work), Head(work))
  /\ Return("busy") /\ UNCHANGED padding
RequeueTwice(fixup) ==
  /\ work' = Tail(work) \o <<Head(work), fixup, fixup>>
  /\ Return("busy") /\ UNCHANGED padding

\* The blocked opcode goes back to the queue, a fix-up behind it.
Requeue(fixup) ==
  /\ work' = Append(Append(Tail(work), Head(work)), fixup)
  /\ Return("busy") /\ UNCHANGED padding

AddPush == Underflow /\ Requeue(PushTask)

\* push_opcode draws the constant from the source, which may be used up.
PushSourceFails == Underflow /\ Reject("InputExhausted")

AddPop == Overflow /\ Requeue(PopTask)

Solve == Commit \/ OutOfGas \/ AddPush \/ AddPop \/ PushSourceFails

Next == Ingest \/ Solve

Spec == Init /\ [][Next]_vars

\* The loop of ingest runs on: nothing in it waits.  The client need not call.
FairSpec == Spec /\ WF_vars(Solve)

-----------------------------------------------------------------------------
Tasks == [op : Opcode, fixup : BOOLEAN]

Results ==
  {"ok", "busy", "OutOfGas", "HaltConditionEncountered", "InputExhausted",
   "MaxInitCode"}

TypeOK ==
  /\ gas \in 0..U64Max /\ stack \in 0..StackLimit /\ memory \in 0..U64Max
  /\ halted \in BOOLEAN /\ allow_termination \in BOOLEAN
  /\ work \in Seq(Tasks)
  /\ result \in Results
  /\ size \in Nat /\ padding \in [push : Nat, pop : Nat]

\* A fix-up is itself ready when its turn comes: a PUSH finds a free slot, a
\* POP an item.  Were it not, the solver would queue a fix-up for the fix-up
\* and push and pop against itself.
FixupsNeverBlock ==
  ~Idle /\ Head(work).fixup => StackDelta(Current, stack) = 0

\* One ingest pads in one direction only, by no more than the deepest DUP or
\* SWAP needs, or the widest inline region, plus the one fix-up that the
\* queue's order (insert at 0, pop at the end) always commits too many.
PaddingBounded ==
  /\ padding.push = 0 \/ padding.pop = 0
  /\ padding.push <= MaxIndex + 2
  /\ padding.pop <= 8

\* Every committed opcode but a STOP costs at least 2 gas, so that a program
\* is no longer than half its gas and the loops that ingest until the first
\* error come to an end.
CommitsCostGas ==
  [][size' > size => gas' <= gas - 2 \/ (halted' /\ gas' = gas)]_vars

\* Every call of ingest returns.
IngestReturns == ~Idle ~> Idle
=============================================================================
