----------------------------- MODULE Submachine -----------------------------
(***************************************************************************)
(* The machines that build init code.  A CREATE or CREATE2 placeholder is  *)
(* materialized by a machine of its own, which may draw such a placeholder *)
(* in turn: `machines` is the stack of the machines at work, the root      *)
(* first, the one that draws last.  CREATE2 runs its machine twice, with   *)
(* the address zero (the probe) and with the address derived from the      *)
(* probe's code (the final pass), on clones of the same sources.           *)
(*                                                                         *)
(* The opcodes drawn here (PUSH1, CALL, CREATE, CREATE2) take no operands  *)
(* from the stack, so the solver never pads: padding is Machine's subject. *)
(* Prices and memory growth are those of Opcodes.                          *)
(*                                                                         *)
(* A source yields any value, but a clone yields what the original did:    *)
(* `drawn` remembers the value of each draw while it can be drawn again.   *)
(***************************************************************************)
EXTENDS Opcodes, Sequences, FiniteSets

CONSTANTS
  RootGas,       \* gas of the root machine
  Salts,         \* salts a CREATE2 may carry
  MaxInitCode,   \* EIP-3860's limit, 49152 in the code
  MaxDepth,      \* bound: machines at work at a time
  MaxDraws       \* bound: after so many draws every source is used up

ASSUME SubmachineAssumption ==
  /\ RootGas \in 0..U64Max
  /\ MaxInitCode \in Nat /\ MaxInitCode >= 5
  /\ MaxDepth \in Nat /\ MaxDraws \in Nat

VARIABLES
  machines,   \* the stack of machines
  drawn,      \* pairs of a source and the value it yielded there
  draws       \* how many values were drawn, replays not counted

genVars == <<machines, drawn, draws>>

-----------------------------------------------------------------------------
(* Addresses.  keccak256 is taken to be injective: an address is the tuple *)
(* it is the hash of.                                                      *)

Caller == <<"caller">>
Contract == <<"contract">>
ZeroAddress == <<"zero">>
CreateAddress(creator, nonce) == <<"create", creator, nonce>>
Create2Address(creator, salt, code) == <<"create2", creator, salt, code>>

-----------------------------------------------------------------------------
(* Opcodes as they are rendered.  `init` is the code a CREATE carries, up  *)
(* to its RETURN tail, `len` its length in bytes with the tail.            *)

TailLen == 5

PushOp ==
  [kind |-> "Push", gas |-> 0, target |-> ZeroAddress, salt |-> 0,
   init |-> <<>>, len |-> 0]
CallOp(gas, target) ==
  [PushOp EXCEPT !.kind = "Call", !.gas = gas, !.target = target]
CreateOp(kind, salt, code, bytes) ==
  [PushOp EXCEPT !.kind = kind, !.salt = salt, !.init = code,
                 !.len = bytes + TailLen]

\* The opcode as the resource tables see it.
Priced(op) ==
  [Simple(op.kind) EXCEPT !.gas = op.gas, !.init = [NoInit EXCEPT !.len = op.len]]

RenderedLen(op) ==
  CASE op.kind = "Push" -> 2
    [] op.kind = "Call" -> 68
    [] op.kind = "Create" -> 43 * Words(op.len) + 14
    [] op.kind = "Create2" -> 43 * Words(op.len) + 47

-----------------------------------------------------------------------------
(* Sources.  The n-th fork of a source yields two new ones.  The root      *)
(* draws opcodes and forks from a single source; as nothing clones that    *)
(* one, giving it two loses nothing.                                       *)

Source(id) == [id |-> id, at |-> 0]
Advance(source) == [source EXCEPT !.at = @ + 1]
GenFork(source) == Source(Append(source.id, 2 * source.at))
MachineFork(source) == Source(Append(source.id, 2 * source.at + 1))

UsedUp == <<"used up">>
Forked == <<"forked">>
Drew(kind, salt) == <<"opcode", kind, salt>>
Index(i) == <<"index", i>>

\* The pairs are what the sources yield now: their first values, or the
\* values they yielded before.
Yields(pairs) ==
  LET fresh == {pair \in pairs : \A old \in drawn : old[1] # pair[1]}
  IN /\ \A old \in drawn, pair \in pairs : old[1] = pair[1] => old = pair
     /\ draws + Cardinality({pair \in fresh : pair[2] # UsedUp}) <= MaxDraws
     /\ draws' = draws + Cardinality({pair \in fresh : pair[2] # UsedUp})
     /\ drawn' = drawn \cup pairs

-----------------------------------------------------------------------------
(* A machine.  `purpose` says for which opcode and in which pass it works; *)
(* it keeps what the second pass starts from.                              *)

NoPurpose ==
  [kind |-> "none", pass |-> "root", salt |-> 0, budget |-> 0,
   gen |-> Source(<<>>), src |-> Source(<<>>), probe |-> <<>>]

\* nonce_snapshot with one nonce set.
Having(nonces, address, nonce) ==
  [a \in DOMAIN nonces \cup {address} |->
     IF a = address THEN nonce ELSE nonces[a]]

WithContext(gas, gen, src, address, caller, callable, grow, purpose) ==
  [address |-> address, caller |-> caller, gas |-> gas, memory |-> 0,
   nonces |-> Having([a \in {caller} |-> 0], address, 1),
   callable |-> callable, grow |-> grow, code |-> <<>>, bytes |-> 0,
   gen |-> gen, src |-> src, over |-> FALSE, purpose |-> purpose]

\* Defect: the contract itself is a call target.
RootCallingItself ==
  [WithContext(RootGas, Source(<<0>>), Source(<<1>>), Contract, Caller,
               <<Caller, Contract>>, TRUE, NoPurpose)
     EXCEPT !.nonces[Caller] = 1]

Root ==
  [WithContext(RootGas, Source(<<0>>), Source(<<1>>), Contract, Caller,
               <<Caller>>, TRUE, NoPurpose)
     EXCEPT !.nonces[Caller] = 1]

\* Defect: a sub-machine adds the contracts it deploys to its call targets.
GrowingSubMachine(parent, address, purpose) ==
  WithContext(purpose.budget, purpose.gen, purpose.src, address,
              parent.address, parent.callable, TRUE, purpose)

SubMachine(parent, address, purpose) ==
  WithContext(purpose.budget, purpose.gen, purpose.src, address,
              parent.address, parent.callable, FALSE, purpose)

NonceOf(m, address) ==
  IF address \in DOMAIN m.nonces THEN m.nonces[address] ELSE 0

\* After any error the loop of a sub-machine ends; the root's client may go on.
Broken(m) == [m EXCEPT !.over = m.purpose.pass # "root"]

\* Defect: the solver looks at the stack alone.
WhateverTheGas(m, op) == TRUE

Affordable(m, op) == GasDelta(Priced(op), m.memory, m.gas) = 0

Committed(m, op) ==
  [m EXCEPT !.gas = @ - ReqGas(Priced(op), m.memory, m.gas),
            !.memory = SatAdd(@, ProvMemory(Priced(op), m.memory)),
            !.code = Append(@, op),
            !.bytes = @ + RenderedLen(op)]

Bumped(m, address) == Having(m.nonces, address, NonceOf(m, address) + 1)

Recorded(m, address, nonce) ==
  [m EXCEPT !.nonces = Having(Bumped(m, m.address), address, nonce),
            !.callable = IF m.grow THEN Append(@, address) ELSE @]

Ingested(m, op) == IF Affordable(m, op) THEN Committed(m, op) ELSE Broken(m)

\* Defect: the contract is recorded whether or not its CREATE was committed.
RecordedAnyway(m, op, address, nonce) ==
  Recorded(Ingested(m, op), address, nonce)

Deployed(m, op, address, nonce) ==
  IF Affordable(m, op) THEN Recorded(Committed(m, op), address, nonce)
  ELSE Broken(m)

-----------------------------------------------------------------------------
Depth == Len(machines)
Top == machines[Depth]
Parent == machines[Depth - 1]
Below == SubSeq(machines, 1, Depth - 1)

BecomesTop(m) == machines' = [machines EXCEPT ![Depth] = m]

\* Only the root is left: its sources have no clones.
ReturnsTo(m) ==
  /\ machines' = [Below EXCEPT ![Depth - 1] = m]
  /\ drawn' = IF Depth = 2 THEN {} ELSE drawn
  /\ UNCHANGED draws

GenInit == machines = <<Root>> /\ drawn = {} /\ draws = 0

(* Drawing an opcode and ingesting it.                                     *)

Looping == ~Top.over

AfterDraw == [Top EXCEPT !.gen = Advance(@)]
AfterMaterialization == [AfterDraw EXCEPT !.src = Advance(@)]

IngestPush ==
  /\ Looping
  /\ Yields({<<Top.gen, Drew("Push", 0)>>})
  /\ BecomesTop(Ingested(AfterDraw, PushOp))

IngestCall ==
  /\ Looping
  /\ \E i \in DOMAIN Top.callable :
       /\ Yields({<<Top.gen, Drew("Call", 0)>>, <<Top.src, Index(i)>>})
       /\ BecomesTop(Ingested(AfterMaterialization,
                              CallOp(Top.gas \div 4, Top.callable[i])))

\* The client of the root ingests a CREATE that carries the RETURN tail only.
IngestExplicit ==
  /\ Looping /\ Depth = 1 /\ draws < MaxDraws
  /\ \E op \in {CreateOp("Create", 0, <<>>, 0)}
               \cup {CreateOp("Create2", salt, <<>>, 0) : salt \in Salts} :
       LET address ==
             IF op.kind = "Create"
             THEN CreateAddress(Top.address, NonceOf(Top, Top.address))
             ELSE Create2Address(Top.address, op.salt, op.init)
       IN BecomesTop(Deployed(Top, op, address, 1))
  /\ draws' = draws + 1 /\ UNCHANGED drawn

\* next_opcode finds its source used up.
InputEnds ==
  /\ Looping /\ Depth > 1
  /\ Yields({<<Top.gen, UsedUp>>})
  /\ BecomesTop([AfterDraw EXCEPT !.over = TRUE])

\* pick_index or fork does.
MaterializationStarves ==
  /\ Looping
  /\ \E kind \in {"Call", "Create", "Create2"} :
     \E salt \in IF kind = "Create2" THEN Salts ELSE {0} :
       Yields({<<Top.gen, Drew(kind, salt)>>, <<Top.src, UsedUp>>})
  /\ BecomesTop(Broken(AfterMaterialization))

-----------------------------------------------------------------------------
(* Materializing CREATE and CREATE2.  No gas is checked before.            *)

PurposeOf(kind, pass, salt) ==
  [kind |-> kind, pass |-> pass, salt |-> salt, budget |-> SubBudget(Top.gas),
   gen |-> GenFork(Top.src), src |-> MachineFork(Top.src), probe |-> <<>>]

Start(purpose, address) ==
  /\ Looping /\ Depth < MaxDepth
  /\ Yields({<<Top.gen, Drew(purpose.kind, purpose.salt)>>,
             <<Top.src, Forked>>})
  /\ machines' = Append([machines EXCEPT ![Depth] = AfterMaterialization],
                        SubMachine(Top, address, purpose))

StartCreate ==
  Start(PurposeOf("Create", "only", 0),
        CreateAddress(Top.address, NonceOf(Top, Top.address)))

StartCreate2 ==
  \E salt \in Salts :
    Start(PurposeOf("Create2", "probe", salt), ZeroAddress)

\* render_init_code.
Fits(m) == m.bytes <= MaxInitCode - TailLen

Over(passes) == Depth > 1 /\ Top.over /\ Top.purpose.pass \in passes

TooLong ==
  /\ Over({"only", "probe", "final"}) /\ ~Fits(Top)
  /\ ReturnsTo(Broken(Parent))

StartFinalPass ==
  /\ Over({"probe"}) /\ Fits(Top)
  /\ BecomesTop(SubMachine(Parent,
                  Create2Address(Parent.address, Top.purpose.salt, Top.code),
                  [Top.purpose EXCEPT !.pass = "final", !.probe = Top.code]))
  /\ UNCHANGED <<drawn, draws>>

\* Defect: a materialized contract is taken to have deployed nothing itself.
FirstNonce(m) == 1

CreatedNonce(m) == NonceOf(m, m.address)

FinishCreate ==
  /\ Over({"only", "final"}) /\ Fits(Top)
  /\ ReturnsTo(Deployed(Parent,
                 CreateOp(Top.purpose.kind, Top.purpose.salt, Top.code, Top.bytes),
                 Top.address, CreatedNonce(Top)))

GenNext ==
  \/ IngestPush \/ IngestCall \/ IngestExplicit \/ InputEnds
  \/ MaterializationStarves \/ StartCreate \/ StartCreate2
  \/ TooLong \/ StartFinalPass \/ FinishCreate

GenSpec == GenInit /\ [][GenNext]_genVars

-----------------------------------------------------------------------------
GenTypeOK ==
  /\ machines # <<>>
  /\ \A i \in DOMAIN machines :
       LET m == machines[i]
       IN /\ m.gas \in 0..U64Max /\ m.memory \in 0..U64Max /\ m.bytes \in Nat
          /\ \A a \in DOMAIN m.nonces : m.nonces[a] \in Nat
          /\ m.grow = (i = 1) /\ (m.purpose.pass = "root") = (i = 1)
          /\ m.over => i = Len(machines) /\ i > 1
  /\ draws \in Nat

CreatesIn(code) == {j \in DOMAIN code : code[j].kind \in Creates}

\* Both passes of a CREATE2 render the same init code, so that the address
\* derived from the probe is the one the EVM will derive
\* (build_create2_init_code's debug_assert_eq, LIMITATIONS.md).
PassesAgree ==
  \A i \in DOMAIN machines :
    LET m == machines[i]
    IN m.purpose.pass = "final" /\ m.over => m.code = m.purpose.probe

\* However deep the nesting and whatever is deployed below, every machine
\* picks its call targets from what the root had deployed when the outermost
\* placeholder was drawn (build_generated_submachine: "inherits the parent's
\* `callable_addresses` so CALL target selection is independent of the sub's
\* `current_address`").  Other comments say more; see AncestorsCallable.
SnapshotIsolation ==
  \A i \in DOMAIN machines : machines[i].callable = machines[1].callable

\* A machine has recorded exactly the contracts whose CREATEs are in its
\* bytecode, whatever attempts were given up in between: its own nonce counts
\* them, and so do the call targets of the root.
RecordsMatchCode ==
  \A i \in DOMAIN machines :
    LET m == machines[i]
        deployments == Cardinality(CreatesIn(m.code))
    IN /\ NonceOf(m, m.address) = 1 + deployments
       /\ m.grow => Len(m.callable) = 1 + deployments

\* machine.rs, build_init_code: "the budget shrinks geometrically until the
\* op's requires.gas exceeds it and the inner ingest stops with OutOfGas".
RecursionNeedsGas ==
  \A i \in DOMAIN machines : i < Len(machines) => machines[i].gas >= CreateBase

MayCall(m) == {m.callable[k] : k \in DOMAIN m.callable}

\* What a machine has deployed so far.
DeployedBy(m) ==
  {a \in DOMAIN m.nonces : a[1] \in {"create", "create2"} /\ a[2] = m.address}

\* LIMITATIONS.md, of sub-machines: "They can call: [...] any contract any
\* *ancestor* deployed before the current branch".
AncestorsCallable ==
  \A i, j \in DOMAIN machines :
    i < j => DeployedBy(machines[i]) \subseteq MayCall(machines[j])
=============================================================================
