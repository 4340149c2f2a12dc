------------------------------ MODULE Runtime ------------------------------
(***************************************************************************)
(* The generator and the EVM in lockstep: as soon as Machine commits an    *)
(* opcode, the EVM runs the opcode's region.  Nothing the EVM does flows   *)
(* back into the machine, so this order loses no behaviour of running the  *)
(* finished bytecode afterwards, and it lets the two states be compared    *)
(* after every opcode.                                                     *)
(*                                                                         *)
(* With allow_termination FALSE the machine is the sub-machine of a CREATE  *)
(* and the EVM frame is its init code, which the tail PUSH1 0 PUSH1 0      *)
(* RETURN ends.                                                            *)
(***************************************************************************)
EXTENDS Machine, Evm

VARIABLES
  frame,    \* stack, memory and gas of the EVM frame
  evm,      \* "running", "stopped" by a terminator, "fault" in a region;
            \* "returned" or "unreturned" when the tail of init code has run
  failed,   \* some CREATE of the program failed in the EVM
  starved   \* some CREATE was forwarded less gas than its code was built for

rtVars == <<frame, evm, failed, starved>>
allVars == <<vars, rtVars>>

RtInit ==
  /\ Init
  /\ frame = [stack |-> 0, memory |-> 0, gas |-> gas]
  /\ evm = "running" /\ failed = FALSE /\ starved = FALSE

-----------------------------------------------------------------------------
(* The EVM runs one region, at one of the prices it may charge.            *)

CanRun(op, price) ==
  /\ frame.stack >= Sinks(op)
  /\ frame.stack + Rise(op) <= StackLimit
  /\ RegionGas(op, frame.memory, price) <= frame.gas
  /\ Sentry(op) <= frame.gas

LeftForChild(op, price) == frame.gas - RegionGas(op, frame.memory, price)

Leave(op, price, spent) ==
  /\ frame' =
       [stack |-> frame.stack + Inline(op) - Pops(op) + Pushes(op),
        memory |-> Larger(frame.memory, Touch(op)),
        gas |-> LeftForChild(op, price) - spent]
  /\ evm' = IF IsTerminating(op) THEN "stopped" ELSE "running"

RunPlain(op, price) ==
  /\ op.kind \notin Calls \cup Creates
  /\ Leave(op, price, 0)
  /\ UNCHANGED <<failed, starved>>

\* The callee has no code, but is allowed to burn all it is given.
RunCall(op, price) ==
  /\ op.kind \in Calls
  /\ LET most == AllButOne64th(LeftForChild(op, price))
         given == IF op.gas < most THEN op.gas ELSE most
     IN \E spent \in {0, given} : Leave(op, price, spent)
  /\ UNCHANGED <<failed, starved>>

\* The init code runs to its RETURN if the gas forwarded and the stack are
\* enough for it; if not, all the gas forwarded is gone and 0 is pushed.
RunCreate(op, price) ==
  /\ op.kind \in Creates
  /\ LET given == AllButOne64th(LeftForChild(op, price))
         deploys == op.init.cost <= given /\ op.init.peak <= StackLimit
     IN /\ Leave(op, price, IF deploys THEN op.init.cost ELSE given)
        /\ failed' = (failed \/ ~deploys)
        /\ starved' = (starved \/ given < op.init.budget)

Crash == evm' = "fault" /\ UNCHANGED <<frame, failed, starved>>

Run(op) ==
  \E price \in Prices(op) :
    IF CanRun(op, price)
    THEN RunPlain(op, price) \/ RunCall(op, price) \/ RunCreate(op, price)
    ELSE Crash

-----------------------------------------------------------------------------
CommitAndRun ==
  /\ Commit
  /\ IF evm = "running" THEN Run(Current) ELSE UNCHANGED rtVars

NoCommit ==
  /\ Ingest \/ OutOfGas \/ AddPush \/ PushSourceFails \/ AddPop
  /\ UNCHANGED rtVars

\* The end of init code: PUSH1 0 PUSH1 0 RETURN, 6 gas and 2 slots.
RunTail ==
  /\ ~allow_termination /\ Idle /\ evm = "running"
  /\ evm' = IF frame.stack + 2 <= StackLimit /\ frame.gas >= 6
            THEN "returned" ELSE "unreturned"
  /\ UNCHANGED <<vars, frame, failed, starved>>

\* Once the tail is appended the program is complete.
Complete == evm \in {"returned", "unreturned"}

RtNext ==
  \/ ~Complete /\ CommitAndRun
  \/ ~Complete /\ NoCommit
  \/ RunTail

RtSpec == RtInit /\ [][RtNext]_allVars

-----------------------------------------------------------------------------
RtTypeOK ==
  /\ TypeOK
  /\ frame \in [stack : 0..StackLimit, memory : 0..U64Max, gas : 0..U64Max]
  /\ evm \in {"running", "stopped", "fault", "returned", "unreturned"}
  /\ failed \in BOOLEAN /\ starved \in BOOLEAN

\* While every deployment of a program succeeds the program never faults, at
\* whatever prices the EVM charges: README "stack and gas safe by
\* construction".
ProgramsNeverFault == evm = "fault" => failed

\* The symbolic stack height and memory size are the EVM's, failed
\* deployments or not: those push a zero where an address was promised.
StackAndMemoryMirror ==
  evm # "fault" => frame.stack = stack /\ frame.memory = memory

\* The symbolic gas is a lower bound of the gas the EVM has left.
GasCovered == evm # "fault" /\ ~failed => frame.gas >= gas

\* Machine::build_init_code: the appended RETURN ends the deployment.
InitCodeReturns == evm = "unreturned" => failed

\* Machine::build_init_code: a failed deployment violates no outer invariant,
\* the program still does not fault.
ProgramSurvivesFailedDeploy == evm # "fault"

\* requires.rs: the forwarded gas covers the sub-machine's budget.
BudgetForwarded == ~starved
=============================================================================
