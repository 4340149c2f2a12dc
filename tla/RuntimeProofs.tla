--------------------------- MODULE RuntimeProofs ---------------------------
(***************************************************************************)
(* Proofs about Machine and about Runtime, the generator and the EVM in    *)
(* lockstep, for every stack limit, gas, set of opcodes and set of init    *)
(* codes.                                                                  *)
(*                                                                         *)
(* Machine's invariant IInv says which shapes the solver's queue takes and *)
(* how the stack height relates to the opcode that waits in it.            *)
(*                                                                         *)
(* Runtime's theorems come from the facts of EvmProofs about one region:   *)
(* the symbolic state mirrors the EVM's with no hypothesis at all; that no *)
(* program faults rests on hypotheses about the opcodes drawn and about    *)
(* the init codes, each one named.                                         *)
(***************************************************************************)
EXTENDS Runtime, EvmProofs

-----------------------------------------------------------------------------
(* Opcodes and tasks.                                                      *)

LEMMA OpcodeFacts ==
  /\ Simple("Push") \in Opcode /\ Simple("Pop") \in Opcode
  /\ ReqStack(Simple("Push")) = 0 /\ ProvStack(Simple("Push")) = 1
  /\ ReqStack(Simple("Pop")) = 1 /\ ProvStack(Simple("Pop")) = 0
  /\ PeakAbove(Simple("Push")) = 1 /\ PeakAbove(Simple("Pop")) = 0
  /\ ~IsTerminating(Simple("Push")) /\ ~IsTerminating(Simple("Pop"))
  /\ PushTask # PopTask
<1>1. MaxIndex \in Nat
  BY OpcodesAssumption DEF OpcodesAssumption
<1>2. Simple("Push").kind = "Push" /\ Simple("Pop").kind = "Pop"
  BY DEF Simple
<1>3. Simple("Push") \in Opcode /\ Simple("Pop") \in Opcode
  BY <1>1 DEF Simple, Opcode, Kinds, Flat0, Flat1, NoInit, InitCode
<1>4. /\ ReqStack(Simple("Push")) = 0 /\ ProvStack(Simple("Push")) = 1
      /\ ReqStack(Simple("Pop")) = 1 /\ ProvStack(Simple("Pop")) = 0
      /\ Reserved(Simple("Push")) = 0 /\ Reserved(Simple("Pop")) = 0
  BY <1>2 DEF ReqStack, ProvStack, Reserved, Flat1, Flat2, Terminators
<1>5. PeakAbove(Simple("Push")) = 1 /\ PeakAbove(Simple("Pop")) = 0
  BY <1>4 DEF PeakAbove, Larger, SatSub
<1>6. ~IsTerminating(Simple("Push")) /\ ~IsTerminating(Simple("Pop"))
  BY <1>2 DEF IsTerminating, Terminators
<1>7. PushTask # PopTask
  BY <1>2 DEF PushTask, PopTask, Task
<1> QED
  BY <1>3, <1>4, <1>5, <1>6, <1>7

-----------------------------------------------------------------------------
(* The inductive invariant.                                                *)

\* On a machine of height h and padding p, m waits for k more fix-ups f (one
\* is always queued beyond those): pushes raise a stack that is too low for
\* m, at most up to what m needs; pops lower one that is too high, at least
\* down to where m fits.
Waiting(m, f, k, h, p) ==
  /\ ~m.fixup /\ f \in {PushTask, PopTask}
  /\ f = PushTask =>
       h + k <= ReqStack(m.op) /\ p.pop = 0 /\ p.push <= h
  /\ f = PopTask =>
       /\ h + PeakAbove(m.op) >= StackLimit + k
       /\ p.push = 0 /\ p.pop + h <= StackLimit

\* The opcode is committed and the fix-up queued last is left over.
LeftOver(f, h, p) ==
  /\ f \in {PushTask, PopTask}
  /\ f = PushTask => h <= MaxIndex + 1 /\ p.pop = 0 /\ p.push <= MaxIndex + 1
  /\ f = PopTask => h >= 1 /\ p.push = 0 /\ p.pop <= 7

QueueInv ==
  /\ Len(work) <= 3
  /\ Len(work) = 0 => PaddingBounded
  /\ Len(work) = 1 /\ ~work[1].fixup => padding = NoPadding
  /\ Len(work) = 1 /\ work[1].fixup => LeftOver(work[1], stack, padding)
  /\ Len(work) = 2 => Waiting(work[1], work[2], 0, stack, padding)
  /\ Len(work) = 3 =>
       work[3] = work[1] /\ Waiting(work[2], work[1], 1, stack, padding)

IInv == TypeOK /\ QueueInv

LEMMA Constants ==
  /\ U64Max \in Nat /\ MaxIndex \in Nat /\ StackLimit \in Nat
  /\ MaxIndex >= 2 /\ StackLimit >= 8 /\ StackLimit >= MaxIndex + 2
  /\ MaxOps \in Nat /\ DrawnOps \subseteq Opcode
BY OpcodesAssumption, MachineAssumption DEF OpcodesAssumption, MachineAssumption

LEMMA FixupTasks ==
  /\ PushTask \in Tasks /\ PopTask \in Tasks
  /\ PushTask.fixup /\ PopTask.fixup
  /\ PushTask.op = Simple("Push") /\ PopTask.op = Simple("Pop")
BY OpcodeFacts DEF PushTask, PopTask, Task, Tasks

LEMMA QueueFacts ==
  ASSUME TypeOK, ~Idle
  PROVE  /\ Len(work) \in Nat /\ Len(work) >= 1
         /\ Head(work) = work[1] /\ work[1] \in Tasks
         /\ Current \in Opcode
         /\ Tail(work) \in Seq(Tasks) /\ Len(Tail(work)) = Len(work) - 1
         /\ Len(work) >= 2 => Tail(work)[1] = work[2]
         /\ Len(work) >= 3 => Tail(work)[2] = work[3]
<1>1. work \in Seq(Tasks) /\ work # <<>>
  BY DEF TypeOK, Idle
<1>2. work[1] \in Tasks
  BY <1>1
<1> QED
  BY <1>1, <1>2 DEF Current, Tasks

\* What is put back behind a blocked opcode.
LEMMA RequeueFacts ==
  ASSUME TypeOK, ~Idle, NEW f \in Tasks, work' = Append(Append(Tail(work), Head(work)), f)
  PROVE  /\ work' \in Seq(Tasks)
         /\ Len(work') = Len(work) + 1
         /\ Len(work) = 1 => work'[1] = work[1] /\ work'[2] = f
         /\ Len(work) = 2 => work'[1] = work[2] /\ work'[2] = work[1] /\ work'[3] = f
<1>1. /\ Len(work) \in Nat /\ Len(work) >= 1
      /\ Head(work) = work[1] /\ work[1] \in Tasks
      /\ Tail(work) \in Seq(Tasks) /\ Len(Tail(work)) = Len(work) - 1
      /\ Len(work) >= 2 => Tail(work)[1] = work[2]
  BY QueueFacts
<1>2. /\ Append(Tail(work), work[1]) \in Seq(Tasks)
      /\ Len(Append(Tail(work), work[1])) = Len(work)
      /\ Append(Tail(work), work[1])[Len(work)] = work[1]
      /\ Len(work) = 2 => Append(Tail(work), work[1])[1] = work[2]
  BY <1>1
<1> QED
  BY <1>1, <1>2

-----------------------------------------------------------------------------
(* Each action preserves the invariant.                                    *)

LEMMA InitIInv == Init => IInv
<1> SUFFICES ASSUME Init PROVE IInv
  OBVIOUS
<1>1. TypeOK
  <2>1. gas \in 0..U64Max /\ allow_termination \in BOOLEAN
    BY MachineAssumption DEF Init, MachineAssumption
  <2>2. work \in Seq(Tasks)
    BY DEF Init
  <2>3. size \in Nat /\ padding \in [push : Nat, pop : Nat]
    BY DEF Init, NoPadding
  <2>4. stack \in 0..StackLimit /\ memory \in 0..U64Max
    BY Constants DEF Init
  <2>5. halted \in BOOLEAN
    BY DEF Init
  <2>6. result \in Results
    BY DEF Init, Results
  <2> QED
    BY <2>1, <2>2, <2>3, <2>4, <2>6, <2>5 DEF TypeOK
<1>2. QueueInv
  BY Constants DEF Init, QueueInv, PaddingBounded, NoPadding
<1> QED
  BY <1>1, <1>2 DEF IInv

LEMMA UpToThree ==
  ASSUME NEW n \in Nat, n <= 3
  PROVE  n = 0 \/ n = 1 \/ n = 2 \/ n = 3
OBVIOUS

LEMMA OneToThree ==
  ASSUME NEW n \in Nat, n >= 1, n <= 3
  PROVE  n = 1 \/ n = 2 \/ n = 3
OBVIOUS

\* What a machine that keeps the invariant knows of its padding when it drops
\* the queue or has emptied it.
LEMMA PaddingKept == IInv => PaddingBounded
<1> SUFFICES ASSUME IInv PROVE PaddingBounded
  OBVIOUS
<1>1. TypeOK /\ QueueInv
  BY DEF IInv
<1>2. padding.push \in Nat /\ padding.pop \in Nat /\ stack \in 0..StackLimit
  BY <1>1 DEF TypeOK
<1>3. work \in Seq(Tasks) /\ Len(work) \in Nat
  BY <1>1 DEF TypeOK
<1>4. CASE Len(work) = 0
  BY <1>1, <1>4 DEF QueueInv
<1>5. CASE Len(work) = 1
  BY <1>1, <1>2, <1>5, Constants DEF QueueInv, LeftOver, PaddingBounded, NoPadding
<1>6. ASSUME NEW m \in Tasks, NEW f, NEW k \in {0, 1}, Waiting(m, f, k, stack, padding)
      PROVE  PaddingBounded
  <2>1. m.op \in Opcode
    BY DEF Tasks
  <2>2. ReqStack(m.op) \in 0..(MaxIndex + 1) /\ PeakAbove(m.op) \in 0..7
    BY <1>2, <2>1, StackTables, StackDeltaMeans, Constants DEF TypeOK
  <2> QED
    BY <1>2, <1>6, <2>2, Constants DEF Waiting, PaddingBounded
<1>7. CASE Len(work) = 2
  <2>1. work[1] \in Tasks
    BY <1>3, <1>7
  <2> QED
    BY <1>1, <1>6, <1>7, <2>1 DEF QueueInv
<1>8. CASE Len(work) = 3
  <2>1. work[2] \in Tasks
    BY <1>3, <1>8
  <2> QED
    BY <1>1, <1>6, <1>8, <2>1 DEF QueueInv
<1>9. Len(work) \in Nat /\ Len(work) <= 3
  BY <1>1, <1>3 DEF QueueInv
<1>10. Len(work) = 0 \/ Len(work) = 1 \/ Len(work) = 2 \/ Len(work) = 3
  BY <1>9, UpToThree
<1> QED
  BY <1>4, <1>5, <1>7, <1>8, <1>10

LEMMA RejectIInv ==
  ASSUME IInv, NEW r \in Results, Reject(r)
  PROVE  IInv'
<1>1. work' = <<>> /\ padding' = padding /\ result' = r
  BY DEF Reject, Return
<1>2. UNCHANGED <<allow_termination, gas, stack, memory, halted, size>>
  BY DEF Reject, Return
<1>3. work' \in Seq(Tasks) /\ Len(work') = 0
  BY <1>1
<1>4. TypeOK'
  BY <1>1, <1>2, <1>3 DEF IInv, TypeOK
<1>5. PaddingBounded'
  BY <1>1, PaddingKept DEF PaddingBounded
<1>6. QueueInv'
  BY <1>3, <1>5 DEF QueueInv
<1> QED
  BY <1>4, <1>6 DEF IInv

LEMMA OneTask ==
  ASSUME NEW t \in Tasks
  PROVE  <<t>> \in Seq(Tasks) /\ Len(<<t>>) = 1 /\ <<t>>[1] = t
OBVIOUS

LEMMA FixupFits ==
  ASSUME NEW h \in 0..StackLimit
  PROVE  /\ h < StackLimit => StackDelta(Simple("Push"), h) = 0
         /\ h > 0 => StackDelta(Simple("Pop"), h) = 0
<1>1. StackLimit \in Nat
  BY Constants
<1>2. ASSUME NEW op \in Opcode, h >= ReqStack(op), h + PeakAbove(op) <= StackLimit
      PROVE  StackDelta(op, h) = 0
  <2>1. /\ StackDelta(op, h) \in Int
        /\ ~(StackDelta(op, h) > 0) /\ ~(StackDelta(op, h) < 0)
    BY <1>1, <1>2, StackDeltaMeans, StackTables, Constants
  <2> QED
    BY <2>1
<1> QED
  BY <1>1, <1>2, OpcodeFacts

LEMMA MaterializeType ==
  ASSUME TypeOK, NEW op \in Opcode, NEW whole \in Materialize(op)
  PROVE  whole \in Opcode
<1>1. gas \in Nat
  BY Constants DEF TypeOK
<1>2. CASE IsPlaceholder(op)
  <2>1. SubBudget(gas) \in 0..U64Max
    BY <1>1, BudgetType
  <2>2. InitCodes(SubBudget(gas)) \subseteq InitCode
    BY <2>1, MachineAssumption DEF MachineAssumption
  <2>3. ~IsCallPlaceholder(op)
    BY <1>2 DEF IsPlaceholder, IsCallPlaceholder, Calls, Creates
  <2>4. Materialize(op) = {[op EXCEPT !.init = code] : code \in InitCodes(SubBudget(gas))}
    BY <1>2, <2>3 DEF Materialize
  <2>5. PICK code \in InitCode : whole = [op EXCEPT !.init = code]
    BY <2>2, <2>4
  <2> QED
    BY <2>5 DEF Opcode
<1>3. CASE ~IsPlaceholder(op) /\ IsCallPlaceholder(op)
  <2>1. whole = [op EXCEPT !.to = "account", !.gas = gas \div 4]
    BY <1>3 DEF Materialize
  <2>2. gas \div 4 \in Nat
    BY <1>1, DivType
  <2> QED
    BY <2>1, <2>2 DEF Opcode
<1>4. CASE ~IsPlaceholder(op) /\ ~IsCallPlaceholder(op)
  BY <1>4 DEF Materialize
<1> QED
  BY <1>2, <1>3, <1>4

LEMMA IngestIInv ==
  ASSUME IInv, Ingest
  PROVE  IInv'
<1>1. PICK op \in DrawnOps :
        \/ IngestHalted
        \/ SkipTerminator(op)
        \/ MaterializeFails(op)
        \/ InitCodeTooLong(op)
        \/ Accept(op)
  BY DEF Ingest
<1>2. ASSUME IngestHalted \/ SkipTerminator(op) \/ MaterializeFails(op) \/ InitCodeTooLong(op)
      PROVE  IInv'
  <2>1. \E r \in Results : Reject(r)
    BY <1>2 DEF IngestHalted, SkipTerminator, MaterializeFails, InitCodeTooLong, Results
  <2> QED
    BY <2>1, RejectIInv
<1>3. ASSUME Accept(op)
      PROVE  IInv'
  <2>1. PICK whole \in Materialize(op) : work' = <<Task(whole, FALSE)>>
    BY <1>3 DEF Accept
  <2>2. /\ padding' = NoPadding /\ result' = "busy"
        /\ UNCHANGED <<allow_termination, gas, stack, memory, halted, size>>
    BY <1>3 DEF Accept, Return
  <2>3. Task(whole, FALSE) \in Tasks /\ ~Task(whole, FALSE).fixup
    BY Constants, MaterializeType DEF Task, Tasks, IInv
  <2>4. work' \in Seq(Tasks) /\ Len(work') = 1 /\ ~work'[1].fixup
    BY <2>1, <2>3, OneTask
  <2>5. padding' \in [push : Nat, pop : Nat] /\ result' \in Results
    BY <2>2 DEF NoPadding, Results
  <2>6. TypeOK'
    BY <2>2, <2>4, <2>5 DEF IInv, TypeOK
  <2>7. QueueInv'
    BY <2>2, <2>4 DEF QueueInv, NoPadding
  <2> QED
    BY <2>6, <2>7 DEF IInv
<1> QED
  BY <1>1, <1>2, <1>3

\* The task whose turn it is: what the invariant says of it.
LEMMA FixupIsFree ==
  ASSUME IInv, ~Idle, Head(work).fixup
  PROVE  /\ Head(work) \in {PushTask, PopTask}
         /\ StackDelta(Current, stack) = 0
<1>1. TypeOK /\ QueueInv
  BY DEF IInv
<1>2. /\ Len(work) \in Nat /\ Len(work) >= 1 /\ Head(work) = work[1]
      /\ stack \in 0..StackLimit /\ Len(work) <= 3
  BY <1>1, QueueFacts DEF TypeOK, QueueInv
<1>3. Len(work) # 2
  BY <1>1, <1>2 DEF QueueInv, Waiting
<1>4. CASE Len(work) = 1
  <2>1. LeftOver(work[1], stack, padding)
    BY <1>1, <1>2, <1>4 DEF QueueInv
  <2>2. CASE work[1] = PushTask
    <3>1. Current = Simple("Push") /\ stack <= MaxIndex + 1
      BY <1>2, <2>1, <2>2, FixupTasks DEF LeftOver, Current
    <3>2. stack < StackLimit
      BY <1>2, <3>1, Constants
    <3> QED
      BY <1>2, <2>2, <3>1, <3>2, FixupFits
  <2>3. CASE work[1] = PopTask
    <3>1. Current = Simple("Pop") /\ stack >= 1
      BY <1>2, <2>1, <2>3, FixupTasks DEF LeftOver, Current
    <3>2. stack > 0
      BY <1>2, <3>1, Constants
    <3> QED
      BY <1>2, <2>3, <3>1, <3>2, FixupFits
  <2> QED
    BY <2>1, <2>2, <2>3 DEF LeftOver
<1>5. CASE Len(work) = 3
  <2>1. Waiting(work[2], work[1], 1, stack, padding)
    BY <1>1, <1>5 DEF QueueInv
  <2>2. work[2] \in Tasks
    BY <1>1, <1>5 DEF TypeOK
  <2>3. work[2].op \in Opcode
    BY <2>2 DEF Tasks
  <2>4. /\ ReqStack(work[2].op) \in 0..(MaxIndex + 1)
        /\ PeakAbove(work[2].op) \in 0..7
    BY <1>2, <2>3, StackTables, StackDeltaMeans, Constants
  <2>5. CASE work[1] = PushTask
    <3>1. Current = Simple("Push") /\ stack + 1 <= ReqStack(work[2].op)
      BY <1>2, <2>1, <2>5, FixupTasks DEF Waiting, Current
    <3>2. stack < StackLimit
      BY <1>2, <2>4, <3>1, Constants
    <3> QED
      BY <1>2, <2>5, <3>1, <3>2, FixupFits
  <2>6. CASE work[1] = PopTask
    <3>1. Current = Simple("Pop") /\ stack + PeakAbove(work[2].op) >= StackLimit + 1
      BY <1>2, <2>1, <2>6, FixupTasks DEF Waiting, Current
    <3>2. stack > 0
      BY <1>2, <2>4, <3>1, Constants
    <3> QED
      BY <1>2, <2>6, <3>1, <3>2, FixupFits
  <2> QED
    BY <2>1, <2>5, <2>6 DEF Waiting
<1>6. Len(work) = 1 \/ Len(work) = 3
  <2>1. Len(work) = 0 \/ Len(work) = 1 \/ Len(work) = 2 \/ Len(work) = 3
    BY <1>2, UpToThree
  <2>2. Len(work) # 0
    BY <1>2
  <2> QED
    BY <1>3, <2>1, <2>2
<1> QED
  BY <1>4, <1>5, <1>6

\* The opcode that waits for k more fix-ups is never blocked in the other
\* direction.
LEMMA WaitingIsOneWay ==
  ASSUME TypeOK, NEW m \in Tasks, NEW f, NEW k \in {0, 1}, Waiting(m, f, k, stack, padding)
  PROVE  /\ StackDelta(m.op, stack) > 0 => f = PushTask
         /\ StackDelta(m.op, stack) < 0 => f = PopTask
<1>1. m.op \in Opcode /\ stack \in 0..StackLimit /\ StackLimit \in Nat
  BY Constants DEF Tasks, TypeOK
<1>2. /\ ReqStack(m.op) \in 0..(MaxIndex + 1) /\ PeakAbove(m.op) \in 0..7
      /\ ReqStack(m.op) > 0 => PeakAbove(m.op) <= 1
  BY <1>1, StackTables, StackDeltaMeans
<1>3. ASSUME f = PushTask, StackDelta(m.op, stack) < 0
      PROVE  FALSE
  <2>1. stack <= ReqStack(m.op) /\ stack + PeakAbove(m.op) > StackLimit
        /\ stack >= ReqStack(m.op)
    BY <1>1, <1>2, <1>3, StackDeltaMeans, Constants DEF Waiting
  <2>2. ReqStack(m.op) = MaxIndex + 1 /\ PeakAbove(m.op) = 1
    BY <1>1, <1>2, <2>1, Constants
  <2>3. ProvStack(m.op) = MaxIndex + 2
    BY <1>1, <2>2, StackDeltaMeans, Constants
  <2> QED
    BY <1>1, <2>3, StackTables, Constants
<1>4. ASSUME f = PopTask, StackDelta(m.op, stack) > 0
      PROVE  FALSE
  <2>1. stack + PeakAbove(m.op) >= StackLimit /\ stack < ReqStack(m.op)
    BY <1>1, <1>2, <1>4, StackDeltaMeans, Constants DEF Waiting
  <2>2. (ReqStack(m.op) = MaxIndex + 1 /\ PeakAbove(m.op) = 1) \/ stack >= ReqStack(m.op)
    BY <1>1, <1>2, <2>1, Constants
  <2> QED
    BY <1>1, <1>2, <2>1, <2>2, StackDeltaMeans, StackTables, Constants
<1>5. f = PushTask \/ f = PopTask
  BY DEF Waiting
<1> QED
  BY <1>3, <1>4, <1>5

LEMMA AddPushIInv ==
  ASSUME IInv, AddPush
  PROVE  IInv'
<1>1. TypeOK /\ QueueInv /\ ~Idle
  BY DEF IInv, AddPush, Underflow
<1>2. /\ work' = Append(Append(Tail(work), Head(work)), PushTask)
      /\ padding' = padding /\ result' = "busy"
      /\ UNCHANGED <<allow_termination, gas, stack, memory, halted, size>>
      /\ StackDelta(Current, stack) > 0
  BY DEF AddPush, Requeue, Return, Underflow
<1>3. /\ Len(work) \in Nat /\ Len(work) >= 1 /\ Len(work) <= 3
      /\ Head(work) = work[1] /\ work[1] \in Tasks
      /\ Current = work[1].op /\ Current \in Opcode
      /\ stack \in 0..StackLimit
  BY <1>1, QueueFacts DEF Current, TypeOK, QueueInv
<1>4. ~work[1].fixup
  BY <1>1, <1>2, <1>3, FixupIsFree DEF IInv
<1>5. /\ work' \in Seq(Tasks) /\ Len(work') = Len(work) + 1
      /\ Len(work) = 1 => work'[1] = work[1] /\ work'[2] = PushTask
      /\ Len(work) = 2 => work'[1] = work[2] /\ work'[2] = work[1] /\ work'[3] = PushTask
  BY <1>1, <1>2, RequeueFacts, FixupTasks
<1>6. TypeOK'
  BY <1>1, <1>2, <1>5 DEF TypeOK, Results
<1>7. stack < ReqStack(work[1].op)
  BY <1>2, <1>3, StackDeltaMeans
<1>8. Len(work) # 3
  BY <1>1, <1>3, <1>4, FixupTasks DEF QueueInv, Waiting
<1>9. CASE Len(work) = 1
  <2>1. padding' = NoPadding /\ Len(work') = 2
    BY <1>1, <1>2, <1>3, <1>4, <1>5, <1>9 DEF QueueInv
  <2>2. stack' + 0 <= ReqStack(work[1].op) /\ PushTask # PopTask
        /\ padding'.pop = 0 /\ padding'.push <= stack'
    BY <1>2, <1>3, <1>7, <2>1, StackTables, OpcodeFacts, Constants DEF NoPadding
  <2>3. Waiting(work[1], PushTask, 0, stack', padding')
    BY <1>4, <2>2 DEF Waiting
  <2>4. Waiting(work'[1], work'[2], 0, stack', padding')
    BY <1>5, <1>9, <2>3
  <2>5. QueueInv'
    BY <2>1, <2>4 DEF QueueInv
  <2> QED
    BY <1>6, <2>5 DEF IInv
<1>10. CASE Len(work) = 2
  <2>1. Waiting(work[1], work[2], 0, stack, padding) /\ Len(work') = 3
    BY <1>1, <1>5, <1>10 DEF QueueInv
  <2>2. work[2] = PushTask
    BY <1>1, <1>2, <1>3, <2>1, WaitingIsOneWay
  <2>3. stack' + 1 <= ReqStack(work[1].op) /\ PushTask # PopTask
        /\ padding'.pop = 0 /\ padding'.push <= stack'
    BY <1>2, <1>3, <1>7, <2>1, <2>2, StackTables, OpcodeFacts, Constants DEF Waiting
  <2>4. Waiting(work[1], PushTask, 1, stack', padding')
    BY <1>4, <2>3 DEF Waiting
  <2>5. work'[3] = work'[1] /\ Waiting(work'[2], work'[1], 1, stack', padding')
    BY <1>5, <1>10, <2>2, <2>4
  <2>6. QueueInv'
    BY <2>1, <2>5 DEF QueueInv
  <2> QED
    BY <1>6, <2>6 DEF IInv
<1>11. Len(work) = 1 \/ Len(work) = 2
  BY <1>3, <1>8, OneToThree
<1> QED
  BY <1>9, <1>10, <1>11

LEMMA AddPopIInv ==
  ASSUME IInv, AddPop
  PROVE  IInv'
<1>1. TypeOK /\ QueueInv /\ ~Idle
  BY DEF IInv, AddPop, Overflow
<1>2. /\ work' = Append(Append(Tail(work), Head(work)), PopTask)
      /\ padding' = padding /\ result' = "busy"
      /\ UNCHANGED <<allow_termination, gas, stack, memory, halted, size>>
      /\ StackDelta(Current, stack) < 0
  BY DEF AddPop, Requeue, Return, Overflow
<1>3. /\ Len(work) \in Nat /\ Len(work) >= 1 /\ Len(work) <= 3
      /\ Head(work) = work[1] /\ work[1] \in Tasks
      /\ Current = work[1].op /\ Current \in Opcode
      /\ stack \in 0..StackLimit
  BY <1>1, QueueFacts DEF Current, TypeOK, QueueInv
<1>4. ~work[1].fixup
  BY <1>1, <1>2, <1>3, FixupIsFree DEF IInv
<1>5. /\ work' \in Seq(Tasks) /\ Len(work') = Len(work) + 1
      /\ Len(work) = 1 => work'[1] = work[1] /\ work'[2] = PopTask
      /\ Len(work) = 2 => work'[1] = work[2] /\ work'[2] = work[1] /\ work'[3] = PopTask
  BY <1>1, <1>2, RequeueFacts, FixupTasks
<1>6. TypeOK'
  BY <1>1, <1>2, <1>5 DEF TypeOK, Results
<1>7. stack + PeakAbove(work[1].op) >= StackLimit + 1
  BY <1>2, <1>3, StackDeltaCases
<1>8. PeakAbove(work[1].op) \in 0..7 /\ stack \in Nat /\ StackLimit \in Nat
  BY <1>3, StackDeltaMeans, Constants
<1>9. Len(work) # 3
  BY <1>1, <1>3, <1>4, FixupTasks DEF QueueInv, Waiting
<1>10. CASE Len(work) = 1
  <2>1. padding' = NoPadding /\ Len(work') = 2
    BY <1>1, <1>2, <1>3, <1>4, <1>5, <1>10 DEF QueueInv
  <2>2. stack' + PeakAbove(work[1].op) >= StackLimit + 0 /\ PushTask # PopTask
        /\ padding'.push = 0 /\ padding'.pop + stack' <= StackLimit
    BY <1>2, <1>3, <1>7, <1>8, <2>1, OpcodeFacts DEF NoPadding
  <2>3. Waiting(work[1], PopTask, 0, stack', padding')
    BY <1>4, <2>2 DEF Waiting
  <2>4. Waiting(work'[1], work'[2], 0, stack', padding')
    BY <1>5, <1>10, <2>3
  <2>5. QueueInv'
    BY <2>1, <2>4 DEF QueueInv
  <2> QED
    BY <1>6, <2>5 DEF IInv
<1>11. CASE Len(work) = 2
  <2>1. Waiting(work[1], work[2], 0, stack, padding) /\ Len(work') = 3
    BY <1>1, <1>5, <1>11 DEF QueueInv
  <2>2. work[2] = PopTask
    BY <1>1, <1>2, <1>3, <2>1, WaitingIsOneWay
  <2>3. stack' + PeakAbove(work[1].op) >= StackLimit + 1 /\ PushTask # PopTask
        /\ padding'.push = 0 /\ padding'.pop + stack' <= StackLimit
    BY <1>2, <1>3, <1>7, <2>1, <2>2, OpcodeFacts, Constants DEF Waiting
  <2>4. Waiting(work[1], PopTask, 1, stack', padding')
    BY <1>4, <2>3 DEF Waiting
  <2>5. work'[3] = work'[1] /\ Waiting(work'[2], work'[1], 1, stack', padding')
    BY <1>5, <1>11, <2>2, <2>4
  <2>6. QueueInv'
    BY <2>1, <2>5 DEF QueueInv
  <2> QED
    BY <1>6, <2>6 DEF IInv
<1>12. Len(work) = 1 \/ Len(work) = 2
  BY <1>3, <1>9, OneToThree
<1> QED
  BY <1>10, <1>11, <1>12

LEMMA CommitType ==
  ASSUME IInv, Commit
  PROVE  /\ TypeOK'
         /\ stack >= ReqStack(Current) /\ stack + PeakAbove(Current) <= StackLimit
         /\ work' = <<>> \/ work' = Tail(work)
<1>1. TypeOK /\ QueueInv /\ ~Idle
  BY DEF IInv, Commit
<1>2. /\ Head(work) = work[1] /\ work[1] \in Tasks /\ Current \in Opcode
      /\ Tail(work) \in Seq(Tasks)
  BY <1>1, QueueFacts
<1>3. /\ gas \in 0..U64Max /\ gas \in Nat /\ stack \in 0..StackLimit
      /\ memory \in 0..U64Max /\ memory \in Nat /\ size \in Nat
      /\ padding \in [push : Nat, pop : Nat]
  BY <1>1, Constants DEF TypeOK
<1>4. ReqGas(Current, memory, gas) \in Nat /\ ReqGas(Current, memory, gas) <= gas
  BY <1>2, <1>3, GasType, GasDeltaMeans DEF Commit, Free, NoConstraints
<1>5. StackDelta(Current, stack) = 0
  BY DEF Commit, Free, NoConstraints
<1>6. stack >= ReqStack(Current) /\ stack + PeakAbove(Current) <= StackLimit
  BY <1>2, <1>3, <1>5, StackDeltaCases
<1>7. gas' \in 0..U64Max
  <2>1. gas' = gas - ReqGas(Current, memory, gas)
    BY DEF Commit
  <2> QED
    BY <1>3, <1>4, <2>1, Constants
<1>8. stack' \in 0..StackLimit
  <2>1. stack' = stack - ReqStack(Current) + ProvStack(Current)
    BY DEF Commit
  <2>2. /\ ReqStack(Current) \in 0..(MaxIndex + 1)
        /\ ProvStack(Current) \in 0..(MaxIndex + 1)
        /\ ProvStack(Current) <= ReqStack(Current) + PeakAbove(Current)
        /\ PeakAbove(Current) \in 0..7
    BY <1>2, <1>3, StackTables, StackDeltaMeans
  <2> QED
    BY <1>3, <1>6, <2>1, <2>2, Constants
<1>9. memory' \in 0..U64Max
  <2>1. memory' = SatAdd(memory, ProvMemory(Current, memory))
    BY DEF Commit
  <2>2. ProvMemory(Current, memory) \in Nat
    BY <1>2, <1>3, MemoryType
  <2> QED
    BY <1>3, <2>1, <2>2, SaturatingType
<1>10. size' \in Nat /\ padding' \in [push : Nat, pop : Nat]
  <2>1. size' = size + 1 /\ padding' = Counted(Head(work))
    BY DEF Commit
  <2> QED
    BY <1>3, <2>1 DEF Counted
<1>11. work' = <<>> \/ work' = Tail(work)
  BY DEF Commit
<1>12. work' \in Seq(Tasks)
  <2>1. CASE work' = <<>>
    BY <2>1
  <2>2. CASE work' = Tail(work)
    BY <1>2, <2>2
  <2> QED
    BY <1>11, <2>1, <2>2
<1>13. /\ halted' \in BOOLEAN /\ allow_termination' \in BOOLEAN /\ result' \in Results
  BY <1>1 DEF Commit, IsTerminating, TypeOK, Results
<1> QED
  BY <1>6, <1>7, <1>8, <1>9, <1>10, <1>11, <1>12, <1>13 DEF TypeOK

\* Only a fix-up counts as padding.
LEMMA CountedFacts ==
  ASSUME TypeOK, NEW t \in Tasks
  PROVE  /\ ~t.fixup => Counted(t) = padding
         /\ t = PushTask => Counted(t).push = padding.push + 1 /\ Counted(t).pop = padding.pop
         /\ t = PopTask => Counted(t).push = padding.push /\ Counted(t).pop = padding.pop + 1
<1>1. padding \in [push : Nat, pop : Nat]
  BY DEF TypeOK
<1>2. ASSUME ~t.fixup PROVE Counted(t) = padding
  <2>1. t # PushTask /\ t # PopTask
    BY <1>2, FixupTasks
  <2>2. Counted(t) = [push |-> padding.push + 0, pop |-> padding.pop + 0]
    BY <2>1 DEF Counted
  <2>3. padding.push + 0 = padding.push /\ padding.pop + 0 = padding.pop
    BY <1>1
  <2> QED
    BY <1>1, <2>2, <2>3
<1>3. ASSUME t = PushTask
      PROVE  Counted(t).push = padding.push + 1 /\ Counted(t).pop = padding.pop
  BY <1>1, <1>3, OpcodeFacts DEF Counted
<1>4. ASSUME t = PopTask
      PROVE  Counted(t).push = padding.push /\ Counted(t).pop = padding.pop + 1
  BY <1>1, <1>4, OpcodeFacts DEF Counted
<1> QED
  BY <1>2, <1>3, <1>4

LEMMA CommitIInv ==
  ASSUME IInv, Commit
  PROVE  IInv'
<1>1. TypeOK /\ QueueInv /\ ~Idle
  BY DEF IInv, Commit
<1>2. /\ Len(work) \in Nat /\ Len(work) >= 1 /\ Len(work) <= 3
      /\ Head(work) = work[1] /\ work[1] \in Tasks
      /\ Current = work[1].op /\ Current \in Opcode
      /\ Len(Tail(work)) = Len(work) - 1
      /\ Len(work) >= 2 => Tail(work)[1] = work[2]
      /\ Len(work) >= 3 => Tail(work)[2] = work[3]
  BY <1>1, QueueFacts DEF Current, QueueInv
<1>3. /\ stack \in Nat /\ StackLimit \in Nat /\ MaxIndex \in Nat
      /\ StackLimit >= 8 /\ StackLimit >= MaxIndex + 2
      /\ padding.push \in Nat /\ padding.pop \in Nat
  BY <1>1, Constants DEF TypeOK
<1>4. /\ padding' = Counted(work[1])
      /\ stack' = stack - ReqStack(Current) + ProvStack(Current)
  BY <1>2 DEF Commit
<1>5. TypeOK' /\ stack >= ReqStack(Current) /\ stack + PeakAbove(Current) <= StackLimit
  BY CommitType
<1>6. /\ ReqStack(Current) \in Nat /\ ReqStack(Current) <= MaxIndex + 1
      /\ ProvStack(Current) \in Nat /\ ProvStack(Current) <= MaxIndex + 1
      /\ PeakAbove(Current) \in Nat /\ PeakAbove(Current) <= 7
      /\ ReqStack(Current) > 0 => PeakAbove(Current) <= 1
      /\ ReqStack(Current) > 0 /\ PeakAbove(Current) = 1 =>
           ProvStack(Current) = ReqStack(Current) + 1
  <2>1. stack \in 0..StackLimit
    BY <1>1 DEF TypeOK
  <2>2. /\ ReqStack(Current) \in 0..(MaxIndex + 1)
        /\ ProvStack(Current) \in 0..(MaxIndex + 1)
        /\ PeakAbove(Current) \in 0..7
    BY <1>2, <2>1, StackTables, StackDeltaMeans
  <2>3. /\ ReqStack(Current) > 0 => PeakAbove(Current) <= 1
        /\ ReqStack(Current) > 0 /\ PeakAbove(Current) = 1 =>
             ProvStack(Current) = ReqStack(Current) + 1
    BY <1>2, <2>1, StackDeltaMeans
  <2> QED
    BY <1>3, <2>2, <2>3
<1>7. CASE IsTerminating(Current)
  <2>1. work' = <<>> /\ Len(work') = 0
    BY <1>7 DEF Commit
  <2>2. ~work[1].fixup
    BY <1>1, <1>2, <1>7, FixupIsFree, FixupTasks, OpcodeFacts
  <2>3. padding' = padding
    BY <1>1, <1>2, <1>4, <2>2, CountedFacts
  <2>4. PaddingBounded'
    BY <2>3, PaddingKept DEF PaddingBounded
  <2> QED
    BY <1>5, <2>1, <2>4 DEF QueueInv, IInv
<1>8. ASSUME ~IsTerminating(Current)
      PROVE  work' = Tail(work) /\ Len(work') = Len(work) - 1
  BY <1>2, <1>8 DEF Commit
<1>9. CASE ~IsTerminating(Current) /\ Len(work) = 1
  <2>1. Len(work') = 0
    BY <1>8, <1>9
  <2>2. CASE ~work[1].fixup
    <3>1. padding' = NoPadding
      BY <1>1, <1>2, <1>4, <1>9, <2>2, CountedFacts DEF QueueInv
    <3> QED
      BY <1>3, <1>5, <2>1, <3>1 DEF PaddingBounded, NoPadding, QueueInv, IInv
  <2>3. CASE work[1].fixup
    <3>1. LeftOver(work[1], stack, padding)
      BY <1>1, <1>9, <2>3 DEF QueueInv
    <3>2. PaddingBounded'
      BY <1>1, <1>2, <1>3, <1>4, <3>1, CountedFacts DEF LeftOver, PaddingBounded
    <3> QED
      BY <1>5, <2>1, <3>2 DEF QueueInv, IInv
  <2> QED
    BY <2>2, <2>3
<1>10. CASE ~IsTerminating(Current) /\ Len(work) = 2
  <2>1. Len(work') = 1 /\ work'[1] = work[2]
    BY <1>2, <1>8, <1>10
  <2>2. Waiting(work[1], work[2], 0, stack, padding)
    BY <1>1, <1>10 DEF QueueInv
  <2>3. padding' = padding
    BY <1>1, <1>2, <1>4, <2>2, CountedFacts DEF Waiting
  <2>4. ASSUME work[2] = PushTask
        PROVE  stack' <= MaxIndex + 1 /\ padding.pop = 0 /\ padding.push <= MaxIndex + 1
    <3>1. stack + 0 <= ReqStack(Current) /\ padding.pop = 0 /\ padding.push <= stack
      BY <1>2, <2>2, <2>4 DEF Waiting
    <3>2. stack = ReqStack(Current)
      BY <1>3, <1>5, <1>6, <3>1
    <3>3. stack' = ProvStack(Current)
      BY <1>4, <1>6, <3>2
    <3> QED
      BY <1>3, <1>6, <3>1, <3>2, <3>3
  <2>5. ASSUME work[2] = PopTask
        PROVE  stack' >= 1 /\ padding.push = 0 /\ padding.pop <= 7
    <3>1. /\ stack + PeakAbove(Current) >= StackLimit + 0
          /\ padding.push = 0 /\ padding.pop + stack <= StackLimit
      BY <1>2, <2>2, <2>5 DEF Waiting
    <3>2. stack + PeakAbove(Current) = StackLimit
      BY <1>3, <1>5, <1>6, <3>1
    <3>3. padding.pop <= PeakAbove(Current)
      BY <1>3, <1>6, <3>1, <3>2
    <3>4. stack - ReqStack(Current) + ProvStack(Current) >= 1
      BY <1>3, <1>5, <1>6, <3>2
    <3> QED
      BY <1>3, <1>4, <1>6, <3>1, <3>3, <3>4
  <2>6. work'[1].fixup /\ LeftOver(work'[1], stack', padding')
    BY <2>1, <2>2, <2>3, <2>4, <2>5, FixupTasks DEF Waiting, LeftOver
  <2> QED
    BY <1>5, <2>1, <2>6 DEF QueueInv, IInv
<1>11. CASE ~IsTerminating(Current) /\ Len(work) = 3
  <2>1. /\ Len(work') = 2 /\ work'[1] = work[2] /\ work'[2] = work[1]
        /\ Waiting(work[2], work[1], 1, stack, padding)
    BY <1>1, <1>2, <1>8, <1>11 DEF QueueInv
  <2>2. work[2].op \in Opcode
    <3>1. work[2] \in Tasks
      BY <1>1, <1>11 DEF TypeOK
    <3> QED
      BY <3>1 DEF Tasks
  <2>3. /\ ReqStack(work[2].op) \in Nat /\ PeakAbove(work[2].op) \in Nat
    <3>1. stack \in 0..StackLimit
      BY <1>1 DEF TypeOK
    <3> QED
      BY <1>3, <2>2, <3>1, StackTables, StackDeltaMeans
  <2>4. ASSUME work[1] = PushTask
        PROVE  Waiting(work[2], work[1], 0, stack', padding')
    <3>1. stack' = stack + 1
      BY <1>2, <1>3, <1>4, <2>4, FixupTasks, OpcodeFacts
    <3>2. padding'.push = padding.push + 1 /\ padding'.pop = padding.pop
      BY <1>1, <1>2, <1>4, <2>4, CountedFacts
    <3>3. /\ stack + 1 <= ReqStack(work[2].op) /\ padding.pop = 0
          /\ padding.push <= stack /\ ~work[2].fixup
      BY <2>1, <2>4 DEF Waiting
    <3>4. /\ stack' + 0 <= ReqStack(work[2].op) /\ padding'.pop = 0
          /\ padding'.push <= stack'
      BY <1>3, <2>3, <3>1, <3>2, <3>3
    <3> QED
      BY <2>4, <3>3, <3>4, OpcodeFacts DEF Waiting
  <2>5. ASSUME work[1] = PopTask
        PROVE  Waiting(work[2], work[1], 0, stack', padding')
    <3>1. stack' = stack - 1
      BY <1>2, <1>3, <1>4, <2>5, FixupTasks, OpcodeFacts
    <3>2. padding'.push = padding.push /\ padding'.pop = padding.pop + 1
      BY <1>1, <1>2, <1>4, <2>5, CountedFacts
    <3>3. /\ stack + PeakAbove(work[2].op) >= StackLimit + 1 /\ padding.push = 0
          /\ padding.pop + stack <= StackLimit /\ ~work[2].fixup
      BY <2>1, <2>5 DEF Waiting
    <3>4. /\ stack' + PeakAbove(work[2].op) >= StackLimit + 0 /\ padding'.push = 0
          /\ padding'.pop + stack' <= StackLimit
      BY <1>3, <2>3, <3>1, <3>2, <3>3
    <3> QED
      BY <2>5, <3>3, <3>4, OpcodeFacts DEF Waiting
  <2>6. Waiting(work'[1], work'[2], 0, stack', padding')
    BY <2>1, <2>4, <2>5 DEF Waiting
  <2> QED
    BY <1>5, <2>1, <2>6 DEF QueueInv, IInv
<1> QED
  BY <1>2, <1>7, <1>9, <1>10, <1>11, OneToThree

LEMMA NextIInv == IInv /\ [Next]_vars => IInv'
<1> SUFFICES ASSUME IInv, [Next]_vars PROVE IInv'
  OBVIOUS
<1>1. CASE Ingest
  BY <1>1, IngestIInv
<1>2. CASE Commit
  BY <1>2, CommitIInv
<1>3. CASE OutOfGas
  BY <1>3, RejectIInv DEF OutOfGas, Results
<1>4. CASE AddPush
  BY <1>4, AddPushIInv
<1>5. CASE AddPop
  BY <1>5, AddPopIInv
<1>6. CASE PushSourceFails
  BY <1>6, RejectIInv DEF PushSourceFails, Results
<1>7. CASE UNCHANGED vars
  BY <1>7 DEF vars, IInv, TypeOK, QueueInv, PaddingBounded
<1> QED
  BY <1>1, <1>2, <1>3, <1>4, <1>5, <1>6, <1>7 DEF Next, Solve

-----------------------------------------------------------------------------
(* The theorems about Machine.                                             *)

LEMMA Invariance == Spec => []IInv
BY InitIInv, NextIInv, PTL DEF Spec

\* The machine keeps its types: no commit takes more gas or items than there
\* are (the subtractions of ingest never go below 0), and the predicted stack
\* never exceeds the limit.
THEOREM TypeCorrect == Spec => []TypeOK
<1>1. IInv => TypeOK
  BY DEF IInv
<1> QED
  BY <1>1, Invariance, PTL

\* The solver never queues a fix-up for a fix-up.
THEOREM SolverNeverThrashes == Spec => []FixupsNeverBlock
<1>1. IInv => FixupsNeverBlock
  BY FixupIsFree DEF FixupsNeverBlock
<1> QED
  BY <1>1, Invariance, PTL

\* The work one ingest adds is bounded whatever the opcode.
THEOREM PaddingIsBounded == Spec => []PaddingBounded
<1>1. IInv => PaddingBounded
  BY PaddingKept
<1> QED
  BY <1>1, Invariance, PTL

-----------------------------------------------------------------------------
(* Running one region.                                                     *)

Frames == [stack : 0..StackLimit, memory : 0..U64Max, gas : 0..U64Max]

\* What a child frame may take of the gas left to it.
Takes(op, spent, unfailed) ==
  /\ op.kind \notin Calls \cup Creates => spent = 0
  /\ op.kind \in Calls => spent <= op.gas
  /\ op.kind \in Creates /\ unfailed => spent <= op.init.cost

\* A region either runs through, and its child takes what it may, or faults.
LEMMA RunMeans ==
  ASSUME NEW op \in Opcode, frame \in Frames, failed \in BOOLEAN,
         starved \in BOOLEAN, Run(op)
  PROVE  \E price \in Prices(op) :
           \/ /\ CanRun(op, price)
              /\ \E spent \in Nat :
                   /\ spent <= LeftForChild(op, price)
                   /\ Leave(op, price, spent)
                   /\ Takes(op, spent, ~failed')
              /\ failed' \in BOOLEAN /\ starved' \in BOOLEAN
              /\ failed => failed'
           \/ ~CanRun(op, price) /\ Crash
<1>1. PICK price \in Prices(op) :
        IF CanRun(op, price)
        THEN RunPlain(op, price) \/ RunCall(op, price) \/ RunCreate(op, price)
        ELSE Crash
  BY DEF Run
<1>2. CASE ~CanRun(op, price)
  BY <1>1, <1>2
<1>3. CASE CanRun(op, price)
  <2>1. LeftForChild(op, price) \in Nat
    <3>1. /\ frame.gas \in Nat /\ frame.memory \in 0..U64Max
      BY Constants DEF Frames
    <3>2. RegionGas(op, frame.memory, price) \in Nat
      BY <3>1, RegionTypes
    <3>3. RegionGas(op, frame.memory, price) <= frame.gas
      BY <1>3 DEF CanRun
    <3> QED
      BY <3>1, <3>2, <3>3 DEF LeftForChild
  <2> DEFINE Most == AllButOne64th(LeftForChild(op, price))
  <2>2. Most \in Nat /\ Most <= LeftForChild(op, price)
    BY <2>1, ForwardedType
  <2>3. op.gas \in Nat /\ op.init.cost \in Nat
    BY OpcodeParts
  <2>4. CASE RunPlain(op, price)
    <3>1. /\ op.kind \notin Calls \cup Creates /\ Leave(op, price, 0)
          /\ failed' = failed /\ starved' = starved
      BY <2>4 DEF RunPlain
    <3>2. Takes(op, 0, ~failed')
      BY <3>1 DEF Takes
    <3> QED
      BY <1>3, <2>1, <3>1, <3>2
  <2>5. CASE RunCall(op, price)
    <3> DEFINE Given == IF op.gas < Most THEN op.gas ELSE Most
    <3>1. PICK spent \in {0, Given} : Leave(op, price, spent)
      BY <2>5 DEF RunCall
    <3>2. op.kind \in Calls /\ failed' = failed /\ starved' = starved
      BY <2>5 DEF RunCall
    <3>3. spent \in Nat /\ spent <= LeftForChild(op, price) /\ spent <= op.gas
      <4> HIDE DEF Most
      <4> QED
        BY <2>1, <2>2, <2>3
    <3>4. Takes(op, spent, ~failed')
      BY <3>2, <3>3 DEF Takes, Calls, Creates
    <3> QED
      BY <1>3, <3>1, <3>2, <3>3, <3>4
  <2>6. CASE RunCreate(op, price)
    <3> DEFINE Deploys == op.init.cost <= Most /\ op.init.peak <= StackLimit
               Spent == IF Deploys THEN op.init.cost ELSE Most
    <3>1. /\ op.kind \in Creates /\ Leave(op, price, Spent)
          /\ failed' = (failed \/ ~Deploys)
          /\ starved' = (starved \/ Most < op.init.budget)
      BY <2>6 DEF RunCreate
    <3>2. Spent \in Nat /\ Spent <= LeftForChild(op, price)
      <4> HIDE DEF Most
      <4> QED
        BY <2>1, <2>2, <2>3
    <3>3. ~failed' => Spent = op.init.cost
      BY <3>1
    <3>4. Takes(op, Spent, ~failed')
      <4> HIDE DEF Spent
      <4> QED
        BY <2>3, <3>1, <3>2, <3>3 DEF Takes, Calls, Creates
    <3>5. failed' \in BOOLEAN /\ (failed => failed')
      BY <3>1
    <3>6. starved' \in BOOLEAN
      BY <3>1
    <3> HIDE DEF Spent
    <3> QED
      BY <1>3, <3>1, <3>2, <3>4, <3>5, <3>6
  <2> QED
    BY <1>1, <1>3, <2>4, <2>5, <2>6
<1> QED
  BY <1>2, <1>3

-----------------------------------------------------------------------------
(* The mirror.  It holds however the EVM prices an opcode and whatever the *)
(* init codes do: a fault only ends the comparison.                        *)

RtIInv ==
  /\ IInv
  /\ frame \in Frames
  /\ evm \in {"running", "stopped", "fault", "returned", "unreturned"}
  /\ failed \in BOOLEAN /\ starved \in BOOLEAN
  /\ evm = "stopped" => halted /\ Idle
  /\ StackAndMemoryMirror

LEMMA RtInitIInv == RtInit => RtIInv
<1> SUFFICES ASSUME RtInit PROVE RtIInv
  OBVIOUS
<1>1. IInv
  BY InitIInv DEF RtInit
<1>2. stack = 0 /\ memory = 0 /\ gas \in 0..U64Max
  BY <1>1 DEF RtInit, Init, IInv, TypeOK
<1>3. frame \in Frames
  BY <1>2, Constants DEF RtInit, Frames
<1> QED
  BY <1>1, <1>2, <1>3 DEF RtInit, RtIInv, StackAndMemoryMirror

\* Every step of the pair is a step of the machine or leaves it alone.
LEMMA RtNextIsNext ==
  ASSUME IInv, [RtNext]_allVars
  PROVE  IInv' /\ [Next]_vars
<1>1. [Next]_vars
  BY DEF RtNext, CommitAndRun, NoCommit, RunTail, Next, Solve, allVars
<1> QED
  BY <1>1, NextIInv

\* What the solver has found out when it commits the opcode at hand.
LEMMA CommitMeans ==
  ASSUME IInv, Commit
  PROVE  /\ ~Idle /\ Current \in Opcode /\ Head(work) = work[1]
         /\ stack \in Nat /\ memory \in 0..U64Max /\ gas \in Nat
         /\ stack >= ReqStack(Current) /\ stack + PeakAbove(Current) <= StackLimit
         /\ ReqGas(Current, memory, gas) \in Nat
         /\ ReqGas(Current, memory, gas) <= gas
<1>1. TypeOK /\ ~Idle
  BY DEF IInv, Commit
<1>2. Current \in Opcode /\ Head(work) = work[1]
  BY <1>1, QueueFacts
<1>3. stack \in Nat /\ memory \in 0..U64Max /\ memory \in Nat /\ gas \in Nat
  BY <1>1, Constants DEF TypeOK
<1>4. stack >= ReqStack(Current) /\ stack + PeakAbove(Current) <= StackLimit
  BY CommitType
<1>5. ReqGas(Current, memory, gas) \in Nat /\ ReqGas(Current, memory, gas) <= gas
  BY <1>2, <1>3, GasType, GasDeltaMeans DEF Commit, Free, NoConstraints
<1> QED
  BY <1>1, <1>2, <1>3, <1>4, <1>5

LEMMA CommitAndRunRtIInv ==
  ASSUME RtIInv, IInv', Commit, evm = "running", Run(Current)
  PROVE  RtIInv'
<1>1. /\ IInv /\ frame \in Frames /\ failed \in BOOLEAN /\ starved \in BOOLEAN
      /\ frame.stack = stack /\ frame.memory = memory
  BY DEF RtIInv, StackAndMemoryMirror
<1>2. /\ Current \in Opcode /\ stack \in Nat /\ memory \in 0..U64Max
      /\ stack >= ReqStack(Current)
  BY <1>1, CommitMeans
<1>3. PICK price \in Prices(Current) :
        \/ /\ CanRun(Current, price)
           /\ \E spent \in Nat :
                /\ spent <= LeftForChild(Current, price)
                /\ Leave(Current, price, spent)
                /\ Takes(Current, spent, ~failed')
           /\ failed' \in BOOLEAN /\ starved' \in BOOLEAN
           /\ failed => failed'
        \/ ~CanRun(Current, price) /\ Crash
  BY <1>1, <1>2, RunMeans
<1>4. CASE Crash
  <2>1. evm' = "fault" /\ frame' = frame /\ failed' = failed /\ starved' = starved
    BY <1>4 DEF Crash
  <2> QED
    BY <1>1, <2>1 DEF RtIInv, StackAndMemoryMirror
<1>5. ASSUME CanRun(Current, price), NEW spent \in Nat,
             spent <= LeftForChild(Current, price), Leave(Current, price, spent),
             failed' \in BOOLEAN, starved' \in BOOLEAN
      PROVE  RtIInv'
  <2>1. /\ frame' = [stack |-> frame.stack + Inline(Current) - Pops(Current) + Pushes(Current),
                     memory |-> Larger(frame.memory, Touch(Current)),
                     gas |-> LeftForChild(Current, price) - spent]
        /\ evm' = IF IsTerminating(Current) THEN "stopped" ELSE "running"
    BY <1>5 DEF Leave
  <2>2. /\ stack' = stack - ReqStack(Current) + ProvStack(Current)
        /\ memory' = SatAdd(memory, ProvMemory(Current, memory))
        /\ halted' = IsTerminating(Current)
        /\ IsTerminating(Current) => work' = <<>>
    BY DEF Commit
  <2>3. frame'.stack = stack'
    <3>1. /\ Inline(Current) \in Nat /\ Pops(Current) \in Nat /\ Pushes(Current) \in Nat
          /\ Inline(Current) - Pops(Current) + Pushes(Current)
               = ProvStack(Current) - ReqStack(Current)
      BY <1>2, RegionStack
    <3>2. ReqStack(Current) \in Nat /\ ProvStack(Current) \in Nat
      BY <1>2, StackTables, Constants
    <3>3. frame'.stack = stack + Inline(Current) - Pops(Current) + Pushes(Current)
      BY <1>1, <2>1
    <3>4. stack' = stack - ReqStack(Current) + ProvStack(Current)
      BY <2>2
    <3>5. stack \in Nat
      BY <1>2
    <3> QED
      BY <3>1, <3>2, <3>3, <3>4, <3>5
  <2>4. frame'.memory = memory'
    BY <1>1, <1>2, <2>1, <2>2, RegionGrowth
  <2>5. stack' \in 0..StackLimit /\ memory' \in 0..U64Max
    BY DEF IInv, TypeOK
  <2>6. LeftForChild(Current, price) - spent \in 0..U64Max
    <3>1. frame.gas \in 0..U64Max /\ U64Max \in Nat
      BY <1>1, Constants DEF Frames
    <3>2. RegionGas(Current, frame.memory, price) \in Nat
      BY <1>1, <1>2, RegionTypes
    <3> QED
      BY <1>5, <3>1, <3>2 DEF LeftForChild
  <2>7. frame' \in Frames
    BY <2>1, <2>3, <2>4, <2>5, <2>6 DEF Frames
  <2>8. evm' \in {"running", "stopped"} /\ (evm' = "stopped" => halted' /\ Idle')
    BY <2>1, <2>2 DEF Idle
  <2>9. StackAndMemoryMirror'
    BY <2>3, <2>4 DEF StackAndMemoryMirror
  <2> QED
    BY <1>5, <2>7, <2>8, <2>9 DEF RtIInv
<1> QED
  BY <1>3, <1>4, <1>5

LEMMA NoCommitKeeps ==
  ASSUME NoCommit
  PROVE  /\ UNCHANGED <<gas, stack, memory, halted>> /\ UNCHANGED rtVars
         /\ halted /\ Idle => Idle'
<1>1. UNCHANGED rtVars
  BY DEF NoCommit
<1>2. CASE Ingest
  <2>1. PICK op \in DrawnOps :
          \/ IngestHalted
          \/ SkipTerminator(op)
          \/ MaterializeFails(op)
          \/ InitCodeTooLong(op)
          \/ Accept(op)
    BY <1>2 DEF Ingest
  <2> QED
    BY <1>1, <2>1 DEF IngestHalted, SkipTerminator, MaterializeFails,
       InitCodeTooLong, Accept, Reject, Return, Idle
<1>3. CASE OutOfGas \/ AddPush \/ PushSourceFails \/ AddPop
  BY <1>1, <1>3 DEF OutOfGas, AddPush, PushSourceFails, AddPop, Underflow, Overflow,
     Reject, Requeue, Return
<1> QED
  BY <1>2, <1>3 DEF NoCommit

LEMMA RtNextIInv == RtIInv /\ [RtNext]_allVars => RtIInv'
<1> SUFFICES ASSUME RtIInv, [RtNext]_allVars PROVE RtIInv'
  OBVIOUS
<1>1. IInv /\ IInv'
  BY RtNextIsNext DEF RtIInv
<1>2. CASE ~Complete /\ CommitAndRun
  <2>1. CASE evm = "running"
    BY <1>1, <1>2, <2>1, CommitAndRunRtIInv DEF CommitAndRun
  <2>2. CASE evm # "running"
    <3>1. Commit /\ UNCHANGED rtVars /\ ~Idle
      BY <1>2, <2>2 DEF CommitAndRun, Commit
    <3>2. evm = "fault"
      BY <1>2, <2>2, <3>1 DEF RtIInv, Complete
    <3>3. evm' = "fault" /\ frame' = frame /\ failed' = failed /\ starved' = starved
      BY <3>1, <3>2 DEF rtVars
    <3> QED
      BY <1>1, <3>3 DEF RtIInv, StackAndMemoryMirror
  <2> QED
    BY <2>1, <2>2
<1>3. CASE ~Complete /\ NoCommit
  <2>1. /\ stack' = stack /\ memory' = memory /\ halted' = halted
        /\ frame' = frame /\ evm' = evm /\ failed' = failed /\ starved' = starved
        /\ halted /\ Idle => Idle'
    BY <1>3, NoCommitKeeps DEF rtVars
  <2> QED
    BY <1>1, <2>1 DEF RtIInv, StackAndMemoryMirror
<1>4. CASE RunTail
  <2>1. /\ evm' \in {"returned", "unreturned"} /\ evm = "running"
        /\ stack' = stack /\ memory' = memory /\ frame' = frame
        /\ failed' = failed /\ starved' = starved
    BY <1>4 DEF RunTail, vars
  <2> QED
    BY <1>1, <2>1 DEF RtIInv, StackAndMemoryMirror
<1>5. CASE UNCHANGED allVars
  BY <1>1, <1>5 DEF allVars, vars, rtVars, RtIInv, StackAndMemoryMirror, Idle
<1> QED
  BY <1>2, <1>3, <1>4, <1>5 DEF RtNext

LEMMA RtInvariance == RtSpec => []RtIInv
BY RtInitIInv, RtNextIInv, PTL DEF RtSpec

\* The pair keeps its types: in particular the EVM never goes below zero gas
\* in a region that can run, whatever its child takes.
THEOREM PairTypeCorrect == RtSpec => []RtTypeOK
<1>1. RtIInv => RtTypeOK
  BY DEF RtIInv, IInv, RtTypeOK, Frames
<1> QED
  BY <1>1, RtInvariance, PTL

\* Machine::ingest predicts the EVM's stack height and memory size exactly,
\* for any program, any prices and any outcome of its CREATEs.
THEOREM PredictionsAreExact == RtSpec => []StackAndMemoryMirror
<1>1. RtIInv => StackAndMemoryMirror
  BY DEF RtIInv
<1> QED
  BY <1>1, RtInvariance, PTL

-----------------------------------------------------------------------------
(* That no program faults.  The hypotheses, and what in the code they are: *)

\* Lengths are at most Config::memory_length_limit, which is small.
\* (Close to u64::MAX the price of a LOG would wrap.)
LogsAreShort ==
  \A op \in DrawnOps : op.kind = "Log" => op.len <= U64Max \div 16

\* The harness lets the machine build every init code itself.
OnlyPlaceholders == \A op \in DrawnOps : op.kind \in Creates => IsPlaceholder(op)

\* The program of a sub-machine keeps within its budget; the tail of the init
\* code costs 6 gas on top of it.
InitCodesPay ==
  \A g \in 0..U64Max : \A code \in InitCodes(SubBudget(g)) :
    code.cost <= SubBudget(g) + 6

\* A price that saturates is beyond every machine.
GasBelowMax == \A budget \in Budgets : budget < U64Max

Usual ==
  LogsAreShort /\ OnlyPlaceholders /\ InitCodesPay /\ GasBelowMax /\ TailIsCharged

-----------------------------------------------------------------------------
\* The gas when the ingest in progress took its opcode in.
GasThen == gas + 3 * padding.push + 2 * padding.pop

\* An opcode that waits in the queue of an ingest that began at gas g.
Sound(op, g) ==
  /\ op.kind = "Log" => op.len <= U64Max \div 16
  /\ op.kind \in Creates => op.init.cost <= SubBudget(g) + 6

SafeIInv ==
  /\ RtIInv
  /\ GasThen < U64Max
  /\ \A i \in 1..Len(work) : work[i].fixup \/ Sound(work[i].op, GasThen)
  /\ ProgramsNeverFault
  /\ GasCovered

LEMMA FixupCost ==
  ASSUME NEW mem, NEW g
  PROVE  ReqGas(Simple("Push"), mem, g) = 3 /\ ReqGas(Simple("Pop"), mem, g) = 2
<1>1. Simple("Push").kind = "Push" /\ Simple("Pop").kind = "Pop"
  BY DEF Simple
<1> QED
  BY <1>1 DEF ReqGas, FlatGas, Creates, Calls

LEMMA GasThenType ==
  ASSUME IInv
  PROVE  /\ GasThen \in Nat /\ gas \in Nat /\ gas <= GasThen
         /\ padding.push \in Nat /\ padding.pop \in Nat
         /\ work \in Seq(Tasks) /\ Len(work) \in Nat
BY Constants DEF IInv, TypeOK, GasThen

\* Rejecting an opcode empties the queue and keeps the gas.
LEMMA RejectSound ==
  ASSUME IInv, NEW r, Reject(r)
  PROVE  Len(work') = 0 /\ GasThen' = GasThen
BY DEF Reject, Return, GasThen

LEMMA AcceptSound ==
  ASSUME Usual, IInv, NEW op \in DrawnOps, Accept(op)
  PROVE  /\ GasThen' = gas
         /\ Len(work') = 1 /\ Sound(work'[1].op, gas)
<1>1. PICK whole \in Materialize(op) : work' = <<Task(whole, FALSE)>>
  BY DEF Accept
<1>2. op \in Opcode
  BY Constants
<1>3. gas \in 0..U64Max /\ gas \in Nat
  BY Constants DEF IInv, TypeOK
<1>4. GasThen' = gas
  <2>1. padding' = NoPadding /\ gas' = gas
    BY DEF Accept, Return
  <2> QED
    BY <1>3, <2>1 DEF GasThen, NoPadding
<1>5. Sound(whole, gas)
  <2>1. CASE IsPlaceholder(op)
    <3>1. ~IsCallPlaceholder(op) /\ op.kind # "Log" /\ op.kind \in Creates
      BY <2>1 DEF IsPlaceholder, IsCallPlaceholder, Calls, Creates
    <3>2. PICK code \in InitCodes(SubBudget(gas)) : whole = [op EXCEPT !.init = code]
      BY <2>1, <3>1 DEF Materialize
    <3>3. whole.kind = op.kind /\ whole.init = code
      BY <1>2, <3>2 DEF Opcode
    <3>4. code.cost <= SubBudget(gas) + 6
      BY <1>3 DEF Usual, InitCodesPay
    <3> QED
      BY <3>1, <3>3, <3>4 DEF Sound
  <2>2. CASE ~IsPlaceholder(op)
    <3>1. op.kind \notin Creates
      BY <2>2 DEF Usual, OnlyPlaceholders
    <3>2. whole.kind = op.kind /\ whole.len = op.len
      BY <1>2, <2>2 DEF Materialize, Opcode
    <3>3. op.kind = "Log" => op.len <= U64Max \div 16
      BY DEF Usual, LogsAreShort
    <3> QED
      BY <3>1, <3>2, <3>3 DEF Sound
  <2> QED
    BY <2>1, <2>2
<1>6. Len(work') = 1 /\ work'[1].op = whole
  BY <1>1 DEF Task
<1> QED
  BY <1>4, <1>5, <1>6

\* Taking 3 gas and counting one more push leaves the weighted sum unchanged.
LEMMA PushPaidBack ==
  ASSUME NEW g \in Nat, NEW pushes \in Nat, NEW pops \in Nat
  PROVE  (g - 3) + 3 * (pushes + 1) + 2 * pops = g + 3 * pushes + 2 * pops
OBVIOUS

\* Committing a fix-up gives back in padding what it takes in gas; what is
\* left behind the opcode itself are fix-ups.
LEMMA CommitSound ==
  ASSUME IInv, Commit, \A i \in 1..Len(work) : work[i].fixup \/ Sound(work[i].op, GasThen)
  PROVE  /\ GasThen' <= GasThen
         /\ \A i \in 1..Len(work') : work'[i].fixup \/ Sound(work'[i].op, GasThen')
<1>1. /\ TypeOK /\ QueueInv /\ ~Idle
  BY DEF IInv, Commit
<1>2. /\ Len(work) \in Nat /\ Len(work) >= 1 /\ Len(work) <= 3
      /\ Head(work) = work[1] /\ work[1] \in Tasks /\ Current = work[1].op
      /\ Len(Tail(work)) = Len(work) - 1 /\ work \in Seq(Tasks)
  BY <1>1, QueueFacts DEF Current, QueueInv, TypeOK
<1>3. /\ gas \in Nat /\ padding \in [push : Nat, pop : Nat]
      /\ ReqGas(Current, memory, gas) \in Nat
      /\ ReqGas(Current, memory, gas) <= gas
  BY <1>1, CommitMeans DEF TypeOK
<1>4. /\ gas' = gas - ReqGas(Current, memory, gas)
      /\ padding' = Counted(work[1])
  BY <1>2 DEF Commit
<1>5. work' = <<>> \/ work' = Tail(work)
  BY CommitType
<1>6. CASE work[1].fixup
  <2>1. work[1] \in {PushTask, PopTask}
    BY <1>1, <1>2, <1>6, FixupIsFree
  <2>2. GasThen' = GasThen
    <3>1. CASE work[1] = PushTask
      <4>1. gas' = gas - 3
        BY <1>2, <1>4, <3>1, FixupTasks, FixupCost
      <4>2. padding'.push = padding.push + 1 /\ padding'.pop = padding.pop
        BY <1>1, <1>2, <1>4, <3>1, CountedFacts
      <4>3. padding.push \in Nat /\ padding.pop \in Nat
        BY <1>3
      <4>4. GasThen' = (gas - 3) + 3 * (padding.push + 1) + 2 * padding.pop
        BY <4>1, <4>2 DEF GasThen
      <4>5. (gas - 3) + 3 * (padding.push + 1) + 2 * padding.pop
              = gas + 3 * padding.push + 2 * padding.pop
        <5>1. gas \in Nat
          BY <1>3
        <5> QED
          BY <4>3, <5>1, PushPaidBack
      <4> QED
        BY <4>4, <4>5 DEF GasThen
    <3>2. CASE work[1] = PopTask
      <4>1. gas' = gas - 2
        BY <1>2, <1>4, <3>2, FixupTasks, FixupCost
      <4>2. padding'.push = padding.push /\ padding'.pop = padding.pop + 1
        BY <1>1, <1>2, <1>4, <3>2, CountedFacts
      <4> QED
        BY <1>3, <4>1, <4>2 DEF GasThen
    <3> QED
      BY <2>1, <3>1, <3>2
  <2>3. GasThen' \in Nat
    BY <2>2, GasThenType
  <2>4. ASSUME NEW i \in 1..Len(work')
        PROVE  work'[i].fixup \/ Sound(work'[i].op, GasThen')
    <3>1. work' = Tail(work) /\ i \in 1..(Len(work) - 1)
      BY <1>2, <1>5
    <3>2. work'[i] = work[i + 1] /\ i + 1 \in 1..Len(work)
      BY <1>2, <3>1
    <3> QED
      BY <2>2, <3>2
  <2> QED
    BY <2>2, <2>3, <2>4
<1>7. CASE ~work[1].fixup
  <2>1. padding' = padding
    BY <1>1, <1>2, <1>4, <1>7, CountedFacts
  <2>2. GasThen' <= GasThen
    BY <1>3, <1>4, <2>1 DEF GasThen
  <2>3. Len(work) # 3
    BY <1>1, <1>7, FixupTasks DEF QueueInv, Waiting
  <2>4. ASSUME NEW i \in 1..Len(work')
        PROVE  work'[i].fixup
    <3>1. work' = Tail(work) /\ i \in 1..(Len(work) - 1)
      BY <1>2, <1>5
    <3>2. Len(work) = 2 /\ i = 1
      <4>1. Len(work) = 1 \/ Len(work) = 2
        BY <1>2, <2>3, OneToThree
      <4>2. Len(work) # 1
        BY <3>1
      <4> QED
        BY <3>1, <4>1, <4>2
    <3>3. work'[i] = work[2]
      BY <1>2, <3>1, <3>2
    <3> QED
      BY <1>1, <3>2, <3>3, FixupTasks DEF QueueInv, Waiting
  <2> QED
    BY <2>2, <2>4
<1> QED
  BY <1>6, <1>7

LEMMA AppendedTwice ==
  ASSUME NEW s \in Seq(Tasks), NEW a \in Tasks, NEW b \in Tasks,
         NEW i \in 1..Len(Append(Append(s, a), b))
  PROVE  \/ Append(Append(s, a), b)[i] \in {a, b}
         \/ \E j \in 1..Len(s) : Append(Append(s, a), b)[i] = s[j]
<1> DEFINE t == Append(s, a)
<1>1. t \in Seq(Tasks) /\ Len(t) = Len(s) + 1 /\ Len(s) \in Nat
  OBVIOUS
<1>2. \A j \in 1..Len(t) : t[j] = a \/ (j \in 1..Len(s) /\ t[j] = s[j])
  OBVIOUS
<1>3. Len(Append(t, b)) = Len(t) + 1
  <2> HIDE DEF t
  <2> QED
    BY <1>1
<1>4. Append(t, b)[i] = b \/ (i \in 1..Len(t) /\ Append(t, b)[i] = t[i])
  <2>1. i \in 1..(Len(t) + 1)
    BY <1>3
  <2> HIDE DEF t
  <2> QED
    BY <1>1, <2>1
<1> HIDE DEF t
<1>5. Append(t, b)[i] \in {a, b} \/ \E j \in 1..Len(s) : Append(t, b)[i] = s[j]
  BY <1>2, <1>4
<1> QED
  BY <1>5 DEF t

LEMMA RequeuedTasks ==
  ASSUME IInv, ~Idle, NEW fixup \in {PushTask, PopTask}, Requeue(fixup),
         NEW i \in 1..Len(work')
  PROVE  work'[i] = fixup \/ \E j \in 1..Len(work) : work'[i] = work[j]
<1>1. work \in Seq(Tasks) /\ Len(work) >= 1 /\ Head(work) = work[1]
  BY QueueFacts DEF IInv, TypeOK
<1>2. work' = Append(Append(Tail(work), Head(work)), fixup)
  BY DEF Requeue
<1>3. /\ Tail(work) \in Seq(Tasks) /\ Len(Tail(work)) = Len(work) - 1
      /\ work[1] \in Tasks /\ fixup \in Tasks
      /\ 1 \in 1..Len(work) /\ Len(work) \in Nat
  BY <1>1, FixupTasks
<1>4. CASE work'[i] = fixup \/ work'[i] = work[1]
  BY <1>3, <1>4
<1>5. ASSUME NEW j \in 1..Len(Tail(work)), work'[i] = Tail(work)[j]
      PROVE  \E l \in 1..Len(work) : work'[i] = work[l]
  <2>1. Tail(work)[j] = work[j + 1] /\ j + 1 \in 1..Len(work)
    BY <1>1, <1>3
  <2> QED
    BY <1>5, <2>1
<1>6. \/ work'[i] \in {work[1], fixup}
      \/ \E j \in 1..Len(Tail(work)) : work'[i] = Tail(work)[j]
  <2> DEFINE rest == Tail(work)
             first == work[1]
  <2>1. work' = Append(Append(rest, first), fixup)
    BY <1>1, <1>2
  <2>2. rest \in Seq(Tasks) /\ first \in Tasks /\ fixup \in Tasks
    BY <1>3
  <2> HIDE DEF rest, first
  <2>3. i \in 1..Len(Append(Append(rest, first), fixup))
    BY <2>1
  <2>4. \/ Append(Append(rest, first), fixup)[i] \in {first, fixup}
        \/ \E j \in 1..Len(rest) : Append(Append(rest, first), fixup)[i] = rest[j]
    BY <2>2, <2>3, AppendedTwice
  <2>5. \/ work'[i] \in {first, fixup}
        \/ \E j \in 1..Len(rest) : work'[i] = rest[j]
    BY <2>1, <2>4
  <2> QED
    BY <2>5 DEF rest, first
<1> QED
  BY <1>4, <1>5, <1>6

LEMMA RequeueSound ==
  ASSUME IInv, ~Idle, NEW fixup \in {PushTask, PopTask}, Requeue(fixup),
         \A i \in 1..Len(work) : work[i].fixup \/ Sound(work[i].op, GasThen)
  PROVE  /\ GasThen' = GasThen
         /\ \A i \in 1..Len(work') : work'[i].fixup \/ Sound(work'[i].op, GasThen')
<1>1. GasThen' = GasThen
  BY DEF Requeue, Return, GasThen
<1>2. ASSUME NEW i \in 1..Len(work')
      PROVE  work'[i] = fixup \/ \E j \in 1..Len(work) : work'[i] = work[j]
  BY RequeuedTasks
<1> QED
  BY <1>1, <1>2, FixupTasks

LEMMA QueueStaysSound ==
  ASSUME Usual, IInv, GasThen < U64Max,
         \A i \in 1..Len(work) : work[i].fixup \/ Sound(work[i].op, GasThen),
         [Next]_vars
  PROVE  /\ GasThen' < U64Max
         /\ \A i \in 1..Len(work') : work'[i].fixup \/ Sound(work'[i].op, GasThen')
<1>1. /\ GasThen \in Nat /\ gas \in Nat /\ gas <= GasThen /\ U64Max \in Nat
  BY GasThenType, Constants
<1>2. IInv'
  BY NextIInv
<1>3. GasThen' \in Nat
  <2>1. gas' \in Nat /\ padding' \in [push : Nat, pop : Nat]
    BY <1>2, Constants DEF IInv, TypeOK
  <2> QED
    BY <2>1 DEF GasThen
<1>4. ASSUME NEW r, Reject(r)
      PROVE  /\ GasThen' < U64Max
             /\ \A i \in 1..Len(work') : work'[i].fixup \/ Sound(work'[i].op, GasThen')
  BY <1>4, RejectSound
<1>5. CASE Ingest
  <2>1. PICK op \in DrawnOps :
          \/ IngestHalted
          \/ SkipTerminator(op)
          \/ MaterializeFails(op)
          \/ InitCodeTooLong(op)
          \/ Accept(op)
    BY <1>5 DEF Ingest
  <2>2. CASE Accept(op)
    <3>1. GasThen' = gas /\ Len(work') = 1 /\ Sound(work'[1].op, gas)
      BY <2>2, AcceptSound
    <3> QED
      BY <1>1, <3>1
  <2> QED
    BY <1>4, <2>1, <2>2 DEF IngestHalted, SkipTerminator, MaterializeFails,
       InitCodeTooLong
<1>6. CASE Commit
  BY <1>1, <1>3, <1>6, CommitSound
<1>7. CASE OutOfGas \/ PushSourceFails
  BY <1>4, <1>7 DEF OutOfGas, PushSourceFails
<1>8. CASE AddPush \/ AddPop
  <2>1. ~Idle /\ \E fixup \in {PushTask, PopTask} : Requeue(fixup)
    BY <1>8 DEF AddPush, AddPop, Underflow, Overflow
  <2> QED
    BY <2>1, RequeueSound
<1>9. CASE UNCHANGED vars
  BY <1>9 DEF vars, GasThen
<1> QED
  BY <1>5, <1>6, <1>7, <1>8, <1>9 DEF Next, Solve

\* What the opcode that is committed can rely on: a CREATE's init code costs
\* no more than the gas that is kept back for it.
LEMMA CommitIsSound ==
  ASSUME Usual, SafeIInv, Commit
  PROVE  /\ Current.kind = "Log" => Current.len <= U64Max \div 16
         /\ Current.kind \in Creates /\ CreateBase <= gas =>
              Current.init.cost <= SubCharge(gas)
<1>1. /\ IInv /\ TypeOK /\ QueueInv /\ ~Idle /\ GasThen < U64Max
  BY DEF SafeIInv, RtIInv, IInv, Commit
<1>2. /\ Len(work) \in Nat /\ Len(work) >= 1 /\ Len(work) <= 3
      /\ Head(work) = work[1] /\ Current = work[1].op /\ Current \in Opcode
  BY <1>1, QueueFacts DEF Current, QueueInv
<1>3. CASE work[1].fixup
  <2>1. Current.kind \in {"Push", "Pop"}
    BY <1>1, <1>2, <1>3, FixupIsFree, FixupTasks DEF Simple
  <2> QED
    BY <2>1 DEF Creates
<1>4. CASE ~work[1].fixup
  <2>1. Sound(Current, GasThen)
    BY <1>2, <1>4 DEF SafeIInv
  <2>2. ASSUME Current.kind \in Creates, CreateBase <= gas
        PROVE  Current.init.cost <= SubCharge(gas)
    <3>1. ReqStack(Current) = 0 /\ stack \in Nat
      BY <1>1, <2>2, Constants DEF ReqStack, Creates, Flat1, Flat2, TypeOK
    <3>2. padding.push \in Nat /\ padding.pop \in Nat /\ padding.pop <= 8
      BY <1>1, GasThenType, PaddingKept DEF PaddingBounded
    <3>3. padding.push = 0
      <4>1. CASE Len(work) = 1
        BY <1>1, <1>4, <4>1 DEF QueueInv, NoPadding
      <4>2. CASE Len(work) = 2
        <5>1. Waiting(work[1], work[2], 0, stack, padding)
          BY <1>1, <4>2 DEF QueueInv
        <5> QED
          BY <1>2, <3>1, <3>2, <5>1 DEF Waiting
      <4>3. CASE Len(work) = 3
        BY <1>1, <1>4, <4>3, FixupTasks DEF QueueInv, Waiting
      <4> QED
        BY <1>2, <4>1, <4>2, <4>3, OneToThree
    <3>4. /\ gas \in 0..U64Max /\ GasThen \in 0..U64Max
          /\ gas <= GasThen /\ GasThen <= gas + 16
      BY <1>1, <3>2, <3>3, GasThenType, Constants DEF GasThen
    <3>5. SubBudget(GasThen) + 6 <= SubCharge(gas)
      BY <2>2, <3>4 DEF Usual, TailIsCharged
    <3>6. /\ Current.init.cost <= SubBudget(GasThen) + 6
      BY <2>1, <2>2 DEF Sound
    <3>7. /\ Current.init.cost \in Nat /\ SubBudget(GasThen) + 6 \in Nat
          /\ SubCharge(gas) \in Nat
      <4>1. gas \in Nat /\ GasThen \in Nat
        BY <1>1, GasThenType
      <4>2. SubBudget(GasThen) \in Nat
        BY <4>1, BudgetType, Constants
      <4>3. Current.init.cost \in Nat
        BY <1>2, OpcodeParts
      <4>4. SubCharge(gas) \in Nat
        BY <4>1, BudgetType
      <4> QED
        BY <4>2, <4>3, <4>4
    <3> QED
      BY <3>5, <3>6, <3>7
  <2> QED
    BY <2>1, <2>2 DEF Sound
<1> QED
  BY <1>3, <1>4

LEMMA CommitAndRunSafe ==
  ASSUME Usual, SafeIInv, Commit, evm = "running", Run(Current), RtIInv'
  PROVE  ProgramsNeverFault' /\ GasCovered'
<1>1. /\ IInv /\ frame \in Frames /\ failed \in BOOLEAN /\ starved \in BOOLEAN
      /\ frame.stack = stack /\ frame.memory = memory
      /\ ~failed => frame.gas >= gas
  BY DEF SafeIInv, RtIInv, StackAndMemoryMirror, GasCovered
<1>2. /\ Current \in Opcode /\ stack \in Nat /\ memory \in 0..U64Max
      /\ gas \in Nat /\ gas < U64Max
      /\ stack >= ReqStack(Current) /\ stack + PeakAbove(Current) <= StackLimit
      /\ ReqGas(Current, memory, gas) \in Nat
      /\ ReqGas(Current, memory, gas) <= gas
  <2>1. GasThen < U64Max /\ GasThen \in Nat /\ gas <= GasThen /\ gas \in Nat
    BY <1>1, GasThenType DEF SafeIInv
  <2> QED
    BY <1>1, <2>1, CommitMeans, Constants
<1>3. PICK price \in Prices(Current) :
        \/ /\ CanRun(Current, price)
           /\ \E spent \in Nat :
                /\ spent <= LeftForChild(Current, price)
                /\ Leave(Current, price, spent)
                /\ Takes(Current, spent, ~failed')
           /\ failed' \in BOOLEAN /\ starved' \in BOOLEAN
           /\ failed => failed'
        \/ ~CanRun(Current, price) /\ Crash
  BY <1>1, <1>2, RunMeans
<1>4. CASE failed
  <2>1. failed'
    BY <1>3, <1>4 DEF Crash
  <2> QED
    BY <2>1 DEF ProgramsNeverFault, GasCovered
<1>5. CASE ~failed
  <2>1. /\ RegionGas(Current, memory, price) + ChildGas(Current, gas)
             <= ReqGas(Current, memory, gas)
        /\ ChildGas(Current, gas) \in Nat
        /\ Sentry(Current) <= ReqGas(Current, memory, gas)
        /\ Current.kind \in Creates => CreateBase <= gas
    BY <1>2, CommitIsSound, RegionCost
  <2>2. RegionGas(Current, memory, price) \in Nat
    BY <1>2, RegionTypes
  <2>3. frame.gas \in Nat /\ frame.gas >= gas
    BY <1>1, <1>5, Constants DEF Frames
  <2>4. CanRun(Current, price)
    <3>1. /\ Sinks(Current) \in Nat /\ Sinks(Current) <= ReqStack(Current)
          /\ Rise(Current) \in Nat /\ Rise(Current) <= PeakAbove(Current)
      BY <1>2, RegionStack
    <3>2. ReqStack(Current) \in Nat /\ PeakAbove(Current) \in Nat /\ StackLimit \in Nat
      <4>1. stack \in 0..StackLimit
        BY <1>1 DEF IInv, TypeOK
      <4> QED
        BY <1>2, <4>1, StackTables, StackDeltaMeans, Constants
    <3>3. frame.stack >= Sinks(Current) /\ frame.stack + Rise(Current) <= StackLimit
      BY <1>1, <1>2, <3>1, <3>2
    <3>4. RegionGas(Current, frame.memory, price) <= frame.gas
      BY <1>1, <1>2, <2>1, <2>2, <2>3
    <3>5. Sentry(Current) <= frame.gas
      <4>1. Sentry(Current) \in Nat
        BY DEF Sentry
      <4> QED
        BY <1>2, <2>1, <2>3, <4>1
    <3> QED
      BY <3>3, <3>4, <3>5 DEF CanRun
  <2>5. PICK spent \in Nat :
          /\ spent <= LeftForChild(Current, price)
          /\ Leave(Current, price, spent)
          /\ Takes(Current, spent, ~failed')
    BY <1>3, <2>4
  <2>6. ProgramsNeverFault'
    BY <2>5 DEF Leave, ProgramsNeverFault
  <2>7. ASSUME ~failed'
        PROVE  frame'.gas >= gas'
    <3>1. spent <= ChildGas(Current, gas)
      <4>1. CASE Current.kind \in Creates
        <5>1. spent <= Current.init.cost /\ Current.init.cost <= SubCharge(gas)
          BY <2>1, <2>5, <2>7, <4>1, CommitIsSound DEF Takes
        <5>2. ChildGas(Current, gas) = SubCharge(gas)
          BY <4>1 DEF ChildGas
        <5>3. Current.init.cost \in Nat
          BY <1>2, OpcodeParts
        <5> QED
          BY <2>1, <5>1, <5>2, <5>3
      <4>2. CASE Current.kind \in Calls
        BY <2>5, <4>2 DEF Takes, ChildGas, Calls, Creates
      <4>3. CASE Current.kind \notin Calls \cup Creates
        BY <2>5, <4>3 DEF Takes, ChildGas
      <4> QED
        BY <4>1, <4>2, <4>3
    <3>2. gas' = gas - ReqGas(Current, memory, gas)
      BY DEF Commit
    <3>3. frame'.gas = frame.gas - RegionGas(Current, memory, price) - spent
      BY <1>1, <2>5 DEF Leave, LeftForChild
    <3> QED
      BY <1>2, <2>1, <2>2, <2>3, <3>1, <3>2, <3>3
  <2> QED
    BY <2>6, <2>7 DEF GasCovered
<1> QED
  BY <1>1, <1>4, <1>5

LEMMA SafeInit ==
  ASSUME Usual, RtInit
  PROVE  SafeIInv
<1>1. RtIInv /\ IInv
  BY RtInitIInv DEF RtIInv
<1>2. gas \in Nat /\ gas < U64Max
  BY <1>1, GasThenType DEF RtInit, Init, Usual, GasBelowMax
<1>3. Len(work) = 0 /\ padding = NoPadding /\ evm = "running" /\ frame.gas = gas
  BY DEF RtInit, Init
<1>4. GasThen = gas
  BY <1>2, <1>3 DEF GasThen, NoPadding
<1> QED
  BY <1>1, <1>2, <1>3, <1>4 DEF SafeIInv, ProgramsNeverFault, GasCovered

LEMMA SafeNext ==
  ASSUME Usual, SafeIInv, [RtNext]_allVars
  PROVE  SafeIInv'
<1>1. RtIInv /\ RtIInv' /\ IInv /\ [Next]_vars
  BY RtNextIInv, RtNextIsNext DEF SafeIInv, RtIInv
<1>2. /\ GasThen' < U64Max
      /\ \A i \in 1..Len(work') : work'[i].fixup \/ Sound(work'[i].op, GasThen')
  BY <1>1, QueueStaysSound DEF SafeIInv
<1>3. ProgramsNeverFault' /\ GasCovered'
  <2>1. CASE ~Complete /\ CommitAndRun
    <3>1. CASE evm = "running"
      BY <1>1, <2>1, <3>1, CommitAndRunSafe DEF CommitAndRun
    <3>2. CASE evm # "running"
      <4>1. Commit /\ UNCHANGED rtVars /\ ~Idle
        BY <2>1, <3>2 DEF CommitAndRun, Commit
      <4>2. evm = "fault"
        BY <1>1, <2>1, <3>2, <4>1 DEF RtIInv, Complete
      <4>3. evm' = "fault" /\ failed' = failed
        BY <4>1, <4>2 DEF rtVars
      <4> QED
        BY <4>2, <4>3 DEF SafeIInv, ProgramsNeverFault, GasCovered
    <3> QED
      BY <3>1, <3>2
  <2>2. CASE ~Complete /\ NoCommit
    BY <2>2, NoCommitKeeps DEF SafeIInv, ProgramsNeverFault, GasCovered, rtVars
  <2>3. CASE RunTail
    BY <2>3 DEF RunTail, vars, SafeIInv, ProgramsNeverFault, GasCovered
  <2>4. CASE UNCHANGED allVars
    BY <2>4 DEF allVars, vars, rtVars, SafeIInv, ProgramsNeverFault, GasCovered
  <2> QED
    BY <2>1, <2>2, <2>3, <2>4 DEF RtNext
<1> QED
  BY <1>1, <1>2, <1>3 DEF SafeIInv

LEMMA SafeInvariance ==
  ASSUME Usual
  PROVE  RtSpec => []SafeIInv
<1>1. RtInit => SafeIInv
  BY SafeInit
<1>2. SafeIInv /\ [RtNext]_allVars => SafeIInv'
  BY SafeNext
<1> QED
  BY <1>1, <1>2, PTL DEF RtSpec

\* README, "stack and gas safe by construction": a program none of whose
\* deployments fails never underflows or overflows the stack, runs out of gas
\* or trips the SSTORE sentry, for every stack limit, gas and mix of opcodes.
THEOREM ProgramsAreSafe ==
  ASSUME Usual
  PROVE  RtSpec => []ProgramsNeverFault
<1>1. SafeIInv => ProgramsNeverFault
  BY DEF SafeIInv
<1> QED
  BY <1>1, SafeInvariance, PTL

\* Machine::ingest never believes it has more gas than the EVM has.
THEOREM GasIsCovered ==
  ASSUME Usual
  PROVE  RtSpec => []GasCovered
<1>1. SafeIInv => GasCovered
  BY DEF SafeIInv
<1> QED
  BY <1>1, SafeInvariance, PTL

-----------------------------------------------------------------------------
\* With create_gas_percentage 0, which machine.rs allows ("a percent in `0..=100`"),
\* the charge has no part for the child frame, although the tail of its init code spends 6 gas there:
\* for no gas and no base price is what requires.rs charges enough.
THEOREM ZeroPercentageUncovered ==
  ASSUME Percentage = 0
  PROVE  \A gas_ \in 0..U64Max : SubCharge(gas_) < SubBudget(gas_) + 6
<1> SUFFICES ASSUME NEW gas_ \in 0..U64Max
             PROVE  SubCharge(gas_) < SubBudget(gas_) + 6
  OBVIOUS
<1>1. U64Max \in Nat /\ U64Max >= 65536 /\ gas_ \in Nat
  BY OpcodesAssumption DEF OpcodesAssumption
<1>2. SatMul(gas_, 0) = 0
  <2>1. CASE gas_ = 0
    BY <2>1 DEF SatMul
  <2>2. CASE gas_ # 0
    <3>1. U64Max \div gas_ >= 0
      BY <1>1, <2>2
    <3> QED
      BY <1>1, <2>2, <3>1 DEF SatMul
  <2> QED
    BY <2>1, <2>2
<1>3. SubBudget(gas_) = 0
  BY <1>2 DEF SubBudget
<1>4. SatMul(0, 64) = 0 /\ SatAdd(0, 62) = 62
  BY <1>1 DEF SatMul, SatAdd
<1>5. SubCharge(gas_) = 0
  BY <1>3, <1>4 DEF SubCharge
<1> QED
  BY <1>3, <1>5

\* requires.rs: with CREATE at its real price, the 64/63 charge covers the
\* budget and the tail from a percentage of 2 on.
THEOREM PercentageSuffices ==
  ASSUME CreateBase = 32000, Percentage >= 2
  PROVE  TailIsCharged
<1> SUFFICES ASSUME NEW g \in 0..U64Max, NEW later \in 0..U64Max,
                    32000 <= later, later <= g, g <= later + 16
             PROVE  SubBudget(g) + 6 <= SubCharge(later)
  BY DEF TailIsCharged
<1>1. /\ U64Max \in Nat /\ U64Max >= 65536
      /\ Percentage \in Nat /\ Percentage <= 100
      /\ g \in Nat /\ later \in Nat
  BY OpcodesAssumption DEF OpcodesAssumption
<1> DEFINE x == SatMul(later, Percentage)
           y == SatMul(g, Percentage)
<1>2. /\ x \in Nat /\ y \in Nat /\ x <= U64Max /\ y <= U64Max
  <2>1. ASSUME NEW p \in Nat
        PROVE  SatMul(p, Percentage) \in Nat
    BY <1>1, SaturatingType
  <2>2. x <= U64Max /\ y <= U64Max
    BY <1>1, SatMulBound
  <2> QED
    BY <1>1, <2>1, <2>2
<1>3. /\ 32000 * Percentage <= later * Percentage
      /\ g * Percentage <= later * Percentage + 16 * Percentage
      /\ later * Percentage \in Nat /\ g * Percentage \in Nat
  BY <1>1
<1>4. x = U64Max \/ x = later * Percentage
  BY DEF SatMul
<1>5. y = U64Max \/ y = g * Percentage
  BY DEF SatMul
<1>6. y <= x + 16 * Percentage
  <2>1. CASE x = U64Max
    BY <1>1, <1>2, <2>1
  <2>2. CASE x # U64Max
    <3>1. y <= g * Percentage
      BY <1>1, SatMulAtMost
    <3> HIDE DEF x, y
    <3> QED
      BY <1>1, <1>2, <1>3, <1>4, <2>2, <3>1
  <2> QED
    BY <2>1, <2>2
<1> HIDE DEF x, y
<1>7. x >= 32000 * Percentage \/ x = U64Max
  BY <1>2, <1>3, <1>4
<1>8. /\ SubBudget(later) = x \div 100 /\ SubBudget(g) = y \div 100
  BY DEF SubBudget, x, y
<1>9. SubCharge(later) = (64 * (x \div 100) + 62) \div 63
  <2>1. x \div 100 \in Nat /\ x \div 100 <= U64Max \div 100
    BY <1>1, <1>2
  <2> QED
    BY <1>8, <2>1, Charge DEF SubCharge
<1>10. y \div 100 + 6 <= (64 * (x \div 100) + 62) \div 63
  <2>1. CASE x >= 32000 * Percentage
    BY <1>1, <1>2, <1>6, <2>1
  <2>2. CASE x = U64Max
    <3>1. y \div 100 <= x \div 100 /\ x \div 100 >= 655
      BY <1>1, <1>2, <2>2
    <3> QED
      BY <1>2, <3>1
  <2> QED
    BY <1>7, <2>1, <2>2
<1> QED
  BY <1>8, <1>9, <1>10

-----------------------------------------------------------------------------
(* Every commit costs gas, which Machine's TLC run checks and which needs  *)
(* the prices of this module.                                              *)

LEMMA CommitCost ==
  ASSUME NEW op \in Opcode, NEW mem \in 0..U64Max, NEW g \in Nat,
         op.kind = "Log" => op.len <= U64Max \div 16
  PROVE  /\ op.kind = "Stop" => ReqGas(op, mem, g) = 0
         /\ op.kind # "Stop" => ReqGas(op, mem, g) >= 2
<1>1. /\ op.kind \in Kinds /\ op.len \in Nat /\ op.gas \in Nat /\ U64Max \in Nat
      /\ U64Max >= 65536
  BY OpcodeParts, OpcodesAssumption DEF OpcodesAssumption
<1>2. Expansion(op, mem) \in Nat
  BY RegionGrowth
<1>3. ASSUME NEW a \in Nat, NEW b \in Nat, a >= 2 \/ b >= 2
      PROVE  SatAdd(a, b) >= 2
  BY <1>1, <1>3 DEF SatAdd
<1>4. CASE op.kind \in Creates
  <2> DEFINE Base == SatAdd(CreateBase, SatMul(CreateWordGas(op), Words(op.init.len)))
             Args == SatAdd(Expansion(op, mem), CreateArgGas(op))
  <2>1. /\ CreateArgGas(op) \in Nat /\ CreateArgGas(op) >= 2 /\ CreateWordGas(op) \in Nat
        /\ CreateBase \in Nat
    BY OpcodesAssumption DEF CreateArgGas, CreateWordGas, OpcodesAssumption
  <2>2. Args \in Nat /\ Args >= 2
    BY <1>2, <1>3, <2>1, SaturatingType
  <2>3. Base \in Nat
    <3>1. SatMul(CreateWordGas(op), Words(op.init.len)) \in Nat
      BY <2>1, OpcodeParts, WordTypes, SaturatingType
    <3> QED
      BY <2>1, <3>1, SaturatingType
  <2>4. SubCharge(g) \in Nat
    BY BudgetType
  <2>5. ReqGas(op, mem, g) = SatAdd(SatAdd(Base, Args), SubCharge(g))
    BY <1>4 DEF ReqGas, CreateGas, Creates, Calls
  <2> HIDE DEF Base, Args
  <2>6. SatAdd(Base, Args) \in Nat /\ SatAdd(Base, Args) >= 2
    BY <1>3, <2>2, <2>3, SaturatingType
  <2> QED
    BY <1>3, <1>4, <2>4, <2>5, <2>6 DEF Creates
<1>5. CASE op.kind \in Calls
  <2>1. 100 + CallPushGas(op) \in Nat /\ 100 + CallPushGas(op) >= 2
    BY DEF CallPushGas
  <2>2. /\ SatAdd(100 + CallPushGas(op), Expansion(op, mem)) \in Nat
        /\ SatAdd(100 + CallPushGas(op), Expansion(op, mem)) >= 2
    BY <1>2, <1>3, <2>1, SaturatingType
  <2>3. ReqGas(op, mem, g) =
          SatAdd(SatAdd(100 + CallPushGas(op), Expansion(op, mem)), op.gas)
    BY <1>5 DEF ReqGas, CallGas, Calls, Creates
  <2> QED
    BY <1>1, <1>3, <1>5, <2>2, <2>3 DEF Calls
<1>6. CASE op.kind = "Log"
  <2>1. ReqGas(op, mem, g) = LogGas(op, mem)
    BY <1>6 DEF ReqGas, Creates, Calls
  <2> QED
    BY <1>6, <2>1, LogGasExact
<1>7. CASE op.kind \in {"MStore", "MLoad", "MStore8", "MCopy", "DataCopy",
                        "ExtCodeCopy", "Keccak256", "Return"}
  <2>1. ReqGas(op, mem, g) = MemoryOpGas(op) + Expansion(op, mem)
    BY <1>7 DEF ReqGas, Creates, Calls
  <2>2. SatMul(3, Words(op.len)) \in Nat /\ SatMul(6, Words(op.len)) \in Nat
    <3>1. Words(op.len) \in Nat
      BY <1>1, WordTypes
    <3> QED
      BY <3>1, SaturatingType
  <2>3. MemoryOpGas(op) \in Nat /\ MemoryOpGas(op) >= 2
    BY <2>2 DEF MemoryOpGas, CopyWordGas
  <2> QED
    BY <1>2, <1>7, <2>1, <2>3
<1>8. CASE op.kind \in Flat0 \cup Flat1 \cup Flat2 \cup
             {"Ternary8", "Dup", "Swap", "CallDataLoad", "Stop", "SelfDestruct"}
  <2>1. ReqGas(op, mem, g) = FlatGas(op.kind)
    BY <1>8 DEF ReqGas, Flat0, Flat1, Flat2, Creates, Calls
  <2> QED
    BY <1>8, <2>1 DEF FlatGas
<1> QED
  BY <1>1, <1>4, <1>5, <1>6, <1>7, <1>8 DEF Kinds, Terminators

\* No LOG in the queue has a length at which its price wraps.
LogsWait ==
  \A i \in 1..Len(work) : work[i].op.kind = "Log" => work[i].op.len <= U64Max \div 16

LEMMA LogsWaitNext ==
  ASSUME LogsAreShort, IInv, LogsWait, [Next]_vars
  PROVE  LogsWait'
<1>1. work \in Seq(Tasks) /\ Len(work) \in Nat
  BY GasThenType
<1>2. ASSUME work' = <<>>
      PROVE  LogsWait'
  BY <1>2 DEF LogsWait
<1>3. ASSUME NEW r, Reject(r)
      PROVE  LogsWait'
  BY <1>2, <1>3 DEF Reject
<1>4. CASE Ingest
  <2>1. PICK op \in DrawnOps :
          \/ IngestHalted
          \/ SkipTerminator(op)
          \/ MaterializeFails(op)
          \/ InitCodeTooLong(op)
          \/ Accept(op)
    BY <1>4 DEF Ingest
  <2>2. CASE Accept(op)
    <3>1. PICK whole \in Materialize(op) : work' = <<Task(whole, FALSE)>>
      BY <2>2 DEF Accept
    <3>2. op \in Opcode
      BY Constants
    <3>3. whole.kind = "Log" => whole.len <= U64Max \div 16
      <4>1. CASE IsPlaceholder(op)
        <5>1. ~IsCallPlaceholder(op) /\ op.kind \in Creates
          BY <4>1 DEF IsPlaceholder, IsCallPlaceholder, Calls, Creates
        <5>2. PICK code \in InitCodes(SubBudget(gas)) : whole = [op EXCEPT !.init = code]
          BY <3>1, <4>1, <5>1 DEF Materialize
        <5> QED
          BY <3>2, <5>1, <5>2 DEF Opcode, Creates
      <4>2. CASE ~IsPlaceholder(op)
        BY <3>1, <3>2, <4>2 DEF Materialize, Opcode, LogsAreShort
      <4> QED
        BY <4>1, <4>2
    <3>4. Len(work') = 1 /\ work'[1].op = whole
      BY <3>1 DEF Task
    <3> QED
      BY <3>3, <3>4 DEF LogsWait
  <2> QED
    BY <1>3, <2>1, <2>2 DEF IngestHalted, SkipTerminator, MaterializeFails,
       InitCodeTooLong
<1>5. CASE Commit
  <2>1. CASE work' = <<>>
    BY <1>2, <2>1
  <2>2. CASE work' = Tail(work) /\ work # <<>>
    <3>1. ASSUME NEW i \in 1..Len(work')
          PROVE  work'[i] = work[i + 1] /\ i + 1 \in 1..Len(work)
      BY <1>1, <2>2
    <3> QED
      BY <3>1 DEF LogsWait
  <2> QED
    BY <1>5, <2>1, <2>2, CommitType DEF Commit, Idle
<1>6. CASE OutOfGas \/ PushSourceFails
  BY <1>3, <1>6 DEF OutOfGas, PushSourceFails
<1>7. CASE AddPush \/ AddPop
  <2>1. PICK fixup \in {PushTask, PopTask} : Requeue(fixup)
    BY <1>7 DEF AddPush, AddPop
  <2>2. ~Idle
    BY <1>7 DEF AddPush, AddPop, Underflow, Overflow
  <2>3. fixup.op.kind # "Log"
    BY FixupTasks DEF Simple
  <2>4. ASSUME NEW i \in 1..Len(work')
        PROVE  work'[i] = fixup \/ \E j \in 1..Len(work) : work'[i] = work[j]
    BY <2>1, <2>2, <2>4, RequeuedTasks
  <2> QED
    BY <2>3, <2>4 DEF LogsWait
<1>8. CASE UNCHANGED vars
  BY <1>8 DEF vars, LogsWait
<1> QED
  BY <1>4, <1>5, <1>6, <1>7, <1>8 DEF Next, Solve

\* Machine::ingest: a committed opcode takes at least 2 gas unless it is a STOP,
\* so the loops that ingest until the first error end.
THEOREM CommitsAreNotFree ==
  ASSUME LogsAreShort
  PROVE  Spec => CommitsCostGas
<1>1. Init => LogsWait
  BY DEF Init, LogsWait
<1>2. IInv /\ LogsWait /\ [Next]_vars => LogsWait'
  BY LogsWaitNext
<1>3. IInv /\ LogsWait /\ [Next]_vars =>
        [size' > size => gas' <= gas - 2 \/ (halted' /\ gas' = gas)]_vars
  <2> SUFFICES ASSUME IInv, LogsWait, [Next]_vars, size' > size
               PROVE  gas' <= gas - 2 \/ (halted' /\ gas' = gas)
    OBVIOUS
  <2>1. size \in Nat
    BY DEF IInv, TypeOK
  <2>2. Commit
    <3>1. size' # size
      BY <2>1
    <3>2. ASSUME NEW r, Return(r) PROVE FALSE
      BY <3>1, <3>2 DEF Return
    <3>3. ~Ingest
      BY <3>2 DEF Ingest, IngestHalted, SkipTerminator, MaterializeFails,
         InitCodeTooLong, Accept, Reject
    <3>4. ~OutOfGas /\ ~PushSourceFails /\ ~AddPush /\ ~AddPop
      BY <3>2 DEF OutOfGas, PushSourceFails, AddPush, AddPop, Requeue, Reject
    <3>5. ~UNCHANGED vars
      BY <3>1 DEF vars
    <3> QED
      BY <3>3, <3>4, <3>5 DEF Next, Solve
  <2>3. /\ Current \in Opcode /\ Current = work[1].op /\ memory \in 0..U64Max
        /\ gas \in Nat /\ ReqGas(Current, memory, gas) \in Nat
    BY <2>2, CommitMeans DEF Current
  <2>4. 1 \in 1..Len(work)
    BY <2>2, QueueFacts DEF IInv, Commit
  <2>5. Current.kind = "Log" => Current.len <= U64Max \div 16
    BY <2>3, <2>4 DEF LogsWait
  <2>6. gas' = gas - ReqGas(Current, memory, gas) /\ halted' = IsTerminating(Current)
    BY <2>2 DEF Commit
  <2>7. CASE Current.kind = "Stop"
    <3>1. ReqGas(Current, memory, gas) = 0
      BY <2>3, <2>5, <2>7, CommitCost
    <3>2. gas' = gas
      BY <2>3, <2>6, <3>1
    <3>3. halted'
      BY <2>6, <2>7 DEF IsTerminating, Terminators
    <3> QED
      BY <3>2, <3>3
  <2>8. CASE Current.kind # "Stop"
    BY <2>3, <2>5, <2>6, <2>8, CommitCost
  <2> QED
    BY <2>7, <2>8
<1> QED
  BY <1>1, <1>2, <1>3, InitIInv, NextIInv, PTL DEF Spec, CommitsCostGas
=============================================================================
