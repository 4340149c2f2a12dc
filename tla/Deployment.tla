----------------------------- MODULE Deployment -----------------------------
(***************************************************************************)
(* The program of Submachine run by the EVM, as runner.rs runs it: which   *)
(* accounts there are, with which nonces, and what a CALL finds.  A        *)
(* deployment may run out of gas at any point of its init code, for the    *)
(* symbolic gas does not bound what it gets; all it did is then undone.    *)
(* The gas itself is Runtime's subject.                                    *)
(***************************************************************************)
EXTENDS Submachine

VARIABLES
  frames,     \* EVM frames, the root's first; empty while generating
  accounts,   \* nonces of the accounts that exist
  deployed,   \* contracts the root frame has deployed: create_end of runner.rs
  failed,     \* some deployment ran out of gas
  lost        \* a deployment by the root frame did

evmVars == <<frames, accounts, deployed, failed, lost>>
allVars == <<genVars, evmVars>>

Init ==
  /\ GenInit
  /\ frames = <<>> /\ accounts = <<>> /\ deployed = {}
  /\ failed = FALSE /\ lost = FALSE

Generate == frames = <<>> /\ GenNext /\ UNCHANGED evmVars

Frame(address, code, saved) ==
  [address |-> address, code |-> code, saved |-> saved]

\* The transaction: the sender's nonce is bumped before any code runs.
Execute ==
  /\ frames = <<>> /\ Depth = 1
  /\ accounts' = [a \in {Caller, Contract} |-> 1]
  /\ frames' = <<Frame(Contract, Top.code, accounts')>>
  /\ UNCHANGED <<genVars, deployed, failed, lost>>

Running == Len(frames)
Inner == frames[Running]
AtOpcode == Running > 0 /\ Inner.code # <<>>
Next1 == Head(Inner.code)

\* The frame below the top has its CREATE done, the top one its next opcode.
Passed(frame) == [frame EXCEPT !.code = Tail(@)]

RunFlat ==
  /\ AtOpcode /\ Next1.kind \in {"Push", "Call"}
  /\ frames' = [frames EXCEPT ![Running] = Passed(@)]
  /\ UNCHANGED <<genVars, accounts, deployed, failed, lost>>

\* What the EVM derives from the frame and the code it is given.
RuntimeAddress ==
  IF Next1.kind = "Create"
  THEN CreateAddress(Inner.address, accounts[Inner.address])
  ELSE Create2Address(Inner.address, Next1.salt, Next1.init)

WithBump == [accounts EXCEPT ![Inner.address] = @ + 1]

EnterCreate ==
  /\ AtOpcode /\ Next1.kind \in Creates
  /\ RuntimeAddress \notin DOMAIN accounts
  /\ accounts' = Having(WithBump, RuntimeAddress, 1)
  /\ frames' = Append(frames, Frame(RuntimeAddress, Next1.init, WithBump))
  /\ UNCHANGED <<genVars, deployed, failed, lost>>

\* A second CREATE2 with the same salt and code: EIP-684.
Collide ==
  /\ AtOpcode /\ Next1.kind \in Creates
  /\ RuntimeAddress \in DOMAIN accounts
  /\ accounts' = WithBump
  /\ frames' = [frames EXCEPT ![Running] = Passed(@)]
  /\ UNCHANGED <<genVars, deployed, failed, lost>>

Outer == [SubSeq(frames, 1, Running - 1) EXCEPT ![Running - 1] = Passed(@)]

\* The RETURN tail: the contract stays, with empty code.
ReturnEmpty ==
  /\ Running > 1 /\ Inner.code = <<>>
  /\ frames' = Outer
  /\ deployed' = IF Running = 2 THEN deployed \cup {Inner.address} ELSE deployed
  /\ UNCHANGED <<genVars, accounts, failed, lost>>

RunOutOfGas ==
  /\ Running > 1
  /\ frames' = Outer /\ accounts' = Inner.saved
  /\ failed' = TRUE /\ lost' = (lost \/ Running = 2)
  /\ UNCHANGED <<genVars, deployed>>

Next ==
  \/ Generate \/ Execute \/ RunFlat \/ EnterCreate \/ Collide \/ ReturnEmpty
  \/ RunOutOfGas

Spec == Init /\ [][Next]_allVars

-----------------------------------------------------------------------------
(* What the harness compares: Machine::created_contracts and               *)
(* nonce_snapshot against the accounts.                                    *)

Symbolic == machines[1]
CreatedContracts == DOMAIN Symbolic.nonces \ {Caller, Contract}
Stopped == Running = 1 /\ Inner.code = <<>>

\* Every contract the program deployed is recorded, with the nonce it has;
\* so are the sender and the contract itself.  That holds even when other
\* deployments, beside it or inside it, failed or collided.  If the root's own
\* deployments have the gas they need nothing else is recorded.  The code this
\* is about is assert_machine_state_valid of lib.rs, which has no such exemption
\* for a deployment of the root that was lost.
NoncesMatchRuntime ==
  Stopped =>
    /\ \A a \in deployed \cup {Caller, Contract} :
         a \in DOMAIN Symbolic.nonces /\ Symbolic.nonces[a] = accounts[a]
    /\ ~lost => CreatedContracts = deployed

\* A CALL never enters code: its target is neither the contract under test
\* nor one that is being deployed; and it is there, unless some deployment
\* failed (README.md "known empty-code addresses").
CallTargetsSafe ==
  AtOpcode /\ Next1.kind = "Call" =>
    /\ \A i \in DOMAIN frames : Next1.target # frames[i].address
    /\ failed \/ Next1.target \in DOMAIN accounts
=============================================================================
