# Verification of evm-smith

evm-smith generates EVM bytecode that is meant to run to its end: no stack
underflow or overflow, no lack of gas, and a symbolic state that says what the
EVM's state will be. A differential fuzzer feeds the programs to three clients.
This directory holds TLA+ modules of the generator and of the EVM it writes
for, TLC configurations that check them, and TLAPS proofs.

## The system

| component | source | state | operations | correct when |
|---|---|---|---|---|
| resource tables | `opcodes/requires.rs`, `provides.rs`, `mod.rs:275-308`, `resource.rs` | none | what an opcode requires and provides on a machine | they bound what the EVM does for the rendered bytes |
| renderer | `opcodes/render.rs` | none | opcode to a region of bytecode | operands in order, nothing but the region's own items consumed |
| machine | `machine.rs` | gas, stack, memory, halted, bytecode, nonces, callable addresses | `ingest`, `ingest_next`, `constraints`, `bytecode` | a program made of committed opcodes never faults; `ingest` returns |
| sub-machines | `machine.rs:421-485, 658-738` | a machine of their own | `build_init_code`, `build_create2_init_code` (probe and final pass) | init code returns; both passes render the same bytes; the budget is forwarded |
| created contracts | `machine.rs:327-411` | nonces, callable addresses | `record_created_contract`, `pick_callable_address` | nonces are the EVM's; call targets have no code |
| drawing | `opcodes/weights.rs`, `mod.rs:347-640` | weights | weighted variant, immediates, push | families are drawn by their weights |
| sources | `opcodes/source.rs`, `machine.rs:62-198` | a random generator, or bytes and a cursor | draw, pick an index, fork | no byte is used twice; generation ends when the bytes do |
| runner | `runner.rs`, `lib.rs` | the accounts before and after | run the program, collect what was deployed | its records are what the symbolic machine's are compared with |
| fuzz harness | `bin/fuzz.rs` | per worker: three child processes, data and signal files; shared: counters, stop flag | run one test on three clients, time out, restart, report | an answer belongs to the test it is counted for; the fuzzer stops |
| FFI and JSON | `state_test.rs` | a heap buffer | make, free | freed once |

The client of a `Machine` (the fuzzer, the tests, the FFI entry) draws opcodes
and ingests them until the first error. `ingest` may fill in a placeholder: a
CREATE calls the machine recursively to get init code, a CALL takes a quarter
of the gas and a target. Then it solves the opcode's constraints: a solver
queue pads the bytecode with PUSHes and POPs until the opcode fits. `requires`
and `provides` read the machine's gas and memory; `render` reads only the
opcode. Nothing here is concurrent but the fuzz harness: threads that share
counters and a flag, and processes that share files.

The behaviours that are hard: the queue of the solver is FIFO although the
variable is called `stack`, so a fix-up is always left over; values taken at
materialization (gas of a CALL, budget of a CREATE) are charged after the
solver has changed the gas; regions raise the stack in the middle; the appended
`RETURN` of init code is not accounted for; a deployment that fails burns gas
the symbolic machine keeps; init code is generated recursively, for CREATE2
twice, on forks of one source, and what is recorded of it must agree with what
the EVM finds when it runs it. PROJECT.json lists these hazards line by line.

## Modules

| module | models | state and actions |
|---|---|---|
| `Opcodes` | `requires.rs`, `provides.rs`, `Machine::constraints` as operators | opcodes that share a row of the tables share a kind (`Binary3`, `Push`, `DataCopy`, ...); `Call` and `CallNoValue` (STATICCALL, DELEGATECALL) |
| `Evm` | `render.rs` and the EVM's own charges | a region as a sequence of instructions (`Region`) and as a summary in one step (`Rise`, `Sinks`, `RegionGas`) |
| `EvmRegion` | one region run instruction by instruction | `Step`, `StepCall`, `StepCreate`, `Fault`; any entry state, and for a CREATE the gas paid since it was materialized (`paid`) |
| `Machine` | `Machine::ingest` | `IngestHalted`, `SkipTerminator`, `MaterializeFails`, `InitCodeTooLong`, `Accept` for the part before the loop; `Commit`, `OutOfGas`, `AddPush`, `PushSourceFails`, `AddPop` for one turn of the loop each |
| `Runtime` | `Machine` composed with the EVM, region by region | `CommitAndRun`, `NoCommit`, `RunTail` |
| `Submachine` | the recursion of `ingest` through `build_init_code` and `build_create2_init_code`; nonces, created contracts, call targets | the stack of machines at work. `IngestPush`, `IngestCall`, `IngestExplicit`, `InputEnds`, `MaterializationStarves`; `StartCreate`, `StartCreate2`, `StartFinalPass`, `FinishCreate`, `TooLong` |
| `Deployment` | the program of `Submachine` run by the EVM, and what `runner.rs` and `lib.rs` compare | `Generate`, then `Execute`, `RunFlat`, `EnterCreate`, `Collide`, `ReturnEmpty`, `RunOutOfGas` |
| `Drawing` | `weights.rs` and the bytes each variant reads, as operators | `FamilyAt` (the subtracting loop: `RollLeft`, `Finds`), `VariantIndexAt`, `Width`, `OperandBytes` |
| `ByteSource` | generation from bytes: `ArbitraryMachineSource`, drawing, forks | `RollFamily`, `PickVariant`, `PickFlat`; `AddPush`, `IngestFlat`, `IngestCall`; `Materialize`, `StartFinalPass`, `FinishCreate`, `TooLong` |
| `Verdicts` | what `run_one` promises, abstractly | `NextTest`, `Decide`, `GiveUp` |
| `ClientServer` | one worker of `bin/fuzz.rs`: `run_one`, `ClientServer`, its `Drop` | worker: `Spawn`, `WriteTest`, `WriteStart`, `PollChild`, `ReadSignal`, `CheckDeadline`, `Restart`, `NextTest`, `LeaveLoop`, and the drop `SendExit`, `SkipUnborn`, `Reap`; each server: `TakeTest`, `WriteAnswer`, `SignalAnswer`, `ObeyExit`, `Crash`; the clock: `Expire` |
| `Fuzz` | `run`, `run_worker`, `run_iteration` | each worker: `Begin`, `CheckStop`, `Claim`, `Panic`, `RunOne`, `Complete`, `Tally`, `Report`, `RaiseStop`; the main thread: `Join` |
| `EvmRegionProofs`, `RuntimeProofs` (with those about `Machine`), `SubmachineProofs`, `DeploymentProofs`, `ByteSourceProofs`, `ClientServerProofs`, `FuzzProofs` | | theorems about the module of that name; `EvmProofs` has the facts about the tables and the regions they share |
| `MCEvmRegion`, `MCMachine`, `MCRuntime`, `MCByteSource` | | instances for TLC |

How state corresponds: `gas`, `memory`, `halted` are the fields of that name;
`stack` is the length of the Rust vector (its items are all `ONE`); `work` is
the local `stack` of `ingest`, first to be popped first; `result` is what
`ingest` returned; `size` is the length of `bytecode`; `padding` counts the
fix-ups of one ingest. `frame` and `evm` are the EVM's.

The EVM is not in the repository. Its stack effects, prices (cheapest and
dearest), memory growth and the rules EIP-150, 2200, 2929, 3860 are in `Evm` as
external definitions, taken neither from `requires.rs` nor from `provides.rs`:
that is what gives `EvmRegion` something to compare.

In `Submachine`, `machines` is the Rust call stack of `build_init_code`: each
machine with the fields of `Machine` that matter, the last one the one that
draws. `purpose` holds the locals of the function that waits for it: the pass,
the budget, the two forks, the probe's code. A source is a name and a position;
what it yields is arbitrary, but a clone at the same position yields the same
(`drawn` remembers it), which is all that `PassesAgree` can rest on. At the root
the code draws opcodes and forks from one source; it is never cloned, so two
lose nothing. A source may be used up at any draw; the bundled byte source
never is (see `ByteSource`), a source of another crate may be. Its opcodes take
no operands, so that the solver has nothing to pad; `Deployment` leaves the gas
to `Runtime` and lets any deployment run out.

In `ByteSource` a source is a stretch of the input. Every read moves a cursor as
the crate `arbitrary` does: a number takes as many bytes as its range needs, and
is 0 when none are left; a fork's length is read from the last bytes (1, 2, 4 or 8
of them, by how many are left), is counted at the front, and stays where it is, to
be read again. The prices and the number of
PUSHes an opcode is padded with are left open; `CommitsCostGas` and
`PaddingBounded` of `Machine` justify their types.

In `ClientServer`, `data` and `signal` are the two files of each server,
`done` is the array of that name in `run_one`, `late` says whether a server's
deadline has passed, `pc` and `at` where the worker is. The worker reads the
exit status, the signal and the clock in three steps, with every step of the
servers possible in between. Killing a child, clearing its files and starting
the next is one step, because nobody can touch the files in between. The
servers are not in the repository; their actions are what the worker's side of
the protocol assumes: one that sees START reads the test, writes its answer, then
the signal. The code's three servers are `NumServers` here. `ClientServer`
implements `Verdicts`, where `over` is "the worker has left its loop". In `Fuzz`,
`RunOne` is a whole `run_one`, which is justified by `KeepsPromise`: it ends,
with verdicts of that test.
`tested` is the one history variable.

What the models abstract: names of opcodes within a row, immediates, stack
contents, addresses, the order of operands. A sub-machine's program enters
`Machine` as an init code: its length, and, for `Runtime`, the gas it burns and
the highest its stack gets. `InitCodes` gives the ones a budget may produce.

Definitions marked "Defect" are variants of the definition below them, each
with one planted mistake; a property that still held with the mistake would
say nothing.

## Runs

| run | question | bounds |
|---|---|---|
| `region` | Does each row of the tables bound what the EVM does for the rendered region? | The code's own limits: 1024 items, index 16, CREATE at 32000. u64::MAX is 2^30-1, for TLC's integers. Heights around 0, 16 and 1024, memory 0, 32, 4096, gas around the least that is required. Offsets go up to u64::MAX, for ranges of length 0 or in reach of `GasCap`; a huge length has no affordable entry state, so the LOG prices that wrap are not reached. A CREATE at the top of the stack comes with up to 3 POPs (CREATE2: 4) paid since its budget was taken. |
| `machine` | Does the solver make progress under any client? | 8 items, index 2, CREATE at 60, gas 24 or 200 (`Budgets`), bytecode of 9 opcodes before the client stops (`MaxOps`). 8 is the least limit at which the widest region (7) fits with an item below it. |
| `runtime` | Do whole programs run without a fault, and does the symbolic state mirror the EVM? | 8 items, CREATE at 640, gas 1400, `MaxOps` 10: enough for a full stack with a CREATE on top, memory growth and calls on what it leaves. |
| `client_server` | Does a worker give each test its own verdicts, whatever its servers do, and end with none left? | 2 servers, so that one's steps meet every step about another; 3 tests, so that what a test leaves behind can meet the next but one. |
| `fuzz` | Is no test lost or run twice, and does the run end when it should? | 2 workers, `--count` 0 or 2, `--bail` on and off. `MaxTests` 4: with no limit, no worker passes `CheckStop` once 4 iterations are claimed, unless the flag is up. |
| `submachine` | Do nested machines agree with their second pass, with what is recorded of them, and with the EVM? | 4 machines at a time (`MaxDepth`), so that a CREATE2 is inside a CREATE2 inside a CREATE; 7 draws, enough for a deployment beside a nested one; gas 200000, so that budgets run out at the third level; one salt, so that deployments collide; init code up to 150 bytes, so that two opcodes can be too long. |
| `byte_source` | Are bytes read once, do draws follow the weights, does generation end? | All inputs of up to 5 bytes of {0, 1, 134}, and inputs of 255 to 260 bytes that end in any two of {0, 1, 255}, where the length of a fork goes from one byte to two: 134 picks CREATE with all weights 0, 0 and 1 the short and the long fork; four weightings, among them one with CREATEs only and one of 0s only. Inputs of 5 bytes fork two levels deep and are used up at every point. |
| `recursion_needs_gas` | a comment on recursion, against `Submachine` | up to 5 machines at a time |
| `ancestors_callable` | what the docs say of a sub-machine's call targets, against `Submachine` | up to 3 machines at a time |
| `init_code_returns`, `failed_deploy`, `budget_forwarded` | disagreements between a comment and the code | the same machine |

`region` and `runtime` overlap on purpose: `region` checks every row at the
real limits from any state, `SummaryExact` justifies the one-step regions of
`Runtime`, and `Runtime` puts them in sequence.

What the properties say, beyond the type invariants:

- `RegionNeverFaults`, `RegionMatchesPrediction`: an opcode the constraints let
  through faults at no instruction and at no price, and leaves the frame as the
  commit predicts. `FixupsAreNeeded` is the converse for the stack: no padding
  without need. `ForwardCoversBudget`: what EIP-150 forwards falls short of the budget
  taken at materialization by no more than the fix-ups paid since. That it may
  fall short at all is the third finding; the rest is the arithmetic of 64/63.
- `FixupsNeverBlock`, `PaddingBounded`, `CommitsCostGas`, `IngestReturns`: the
  loop of `ingest` has no counter; these say why it ends.
- `ProgramsNeverFault`, `StackAndMemoryMirror`, `GasCovered`: the promise of
  the repository's README, for whole programs.

- `AnswersAreForTheirTest`, `WorksOnlyWhenAwaited`, `NoServerSurvives`,
  `KeepsPromise`, `LeavingEnds`: timeouts against late answers, crashes between
  any two steps, failed spawns and restarts. Without the clearing of the files
  in `start_child`, a restarted server would run the old test and its answer
  would count for the next one: that is `AnswersAreForTheirTest`'s mutant.
- `Fuzz`'s type invariant also says how the counters bound each other: tallied,
  completed, claimed, `--count`.
- `EveryTestIsNew`, `OkMeansAllTested`, `BailExits`, `ErrorEndsRun`,
  `LimitedRunEnds`: workers that share a counter and a flag without a lock. A
  panic raises no flag; a run without a limit then goes on without that worker,
  which is why no property promises its end.

- `PassesAgree`: both passes of a CREATE2 give the same code, at any depth,
  although addresses differ (`machine.rs:719-730`). Its mutants make something
  address-dependent.
- `SnapshotIsolation`, `RecordsMatchCode`: call targets below are those the root
  had, which the equality of CREATE2's passes needs, and which is less than some docs say
  (finding 5); nonces count the CREATEs that made it into the bytecode, not
  those attempted.
- `NoncesMatchRuntime`, `CallTargetsSafe`: the records against the EVM, also when
  deployments collide or fail; `deployed` is what `create_end` collects. That the EVM
  has no other contracts is claimed only while no deployment of the root has
  failed (`~lost`). This exemption is the model's: the assertion of `lib.rs` has none, so
  a program that loses a deployment of the root and still ends well fails it, although
  `machine.rs:678-679` says the harness does not panic. No run shows that, because this
  module has no gas and lets any deployment fail; the first finding is one way to
  lose one.
- `ByteReadOnce`, `DrawsFollowWeights`, `GenerationEnds`: independence of the two
  forks; no unreachable family; an end also when the input has ended, except
  when the first weighted family of a used-up source is CREATE (every number is
  0 then), where nothing but the Rust stack ends the recursion.

`ProgramsNeverFault` and `GasCovered` are stated for programs whose deployments
succeed, because of the second finding below.

The gas of a deployment is covered only while `SubBudget / 63` exceeds the 6 gas
of the tail and what POPs between materialization and commit take off the
budget. With CREATE at 32000 this holds for every percentage from 2 on
(`PercentageSuffices`). The scaled-down `Runtime` has CREATE at 640 and
percentage 50, enough for the POPs that 8 slots make possible.

Deadlock is not checked where the system may stop: a machine at `MaxOps`, a
region or program that has run, a worker or a run that has ended.

Fairness: `IngestReturns` needs weak fairness of `Solve`; the loop is
sequential code that waits for nothing. The client is not assumed to call.
`GenerationEnds` needs weak fairness of `ByteSource`'s whole next step, for the
same reason: one thread that never waits, in a loop that runs until an error.
`ClientServer` assumes that the worker's thread is scheduled and that time
passes (`Expire`), and nothing of the servers: they may hang for ever. `Fuzz`
assumes that every thread is scheduled; that a `RunOne` ends is what
`ClientServer` shows.

## Findings

1. `init_code_returns`: a sub-machine may fill its stack, and the tail
   `PUSH1 0 PUSH1 0 RETURN` that `render_init_code` appends then overflows.
   The deployment fails, against `machine.rs:662-664`.
2. `failed_deploy`: a failed deployment burns all it was forwarded, so the outer
   program may run out of gas later, against `machine.rs:674-681`.
3. `budget_forwarded`: the budget is taken before the solver's POPs, the charge
   after; the forwarded gas may fall short of the budget, against
   `requires.rs:331-334`.
4. `recursion_needs_gas`: a CREATE's init code is generated, recursively, before
   any gas is compared, so a machine with no gas left still starts another:
   the gas does not bound the depth, against `machine.rs:668-671`. With only
   creates weighted nothing does.
5. `ancestors_callable`: a sub-machine's deployments enter no call targets, and its own
   sub-machines clone the root's list, so what an intermediate ancestor deployed is
   never a call target, against `LIMITATIONS.md:15` and `47-48`. For the same reason no
   sub-machine may call the address it is being deployed to, against
   `machine.rs:207-208`; it could not without breaking the equality of CREATE2's two
   passes, as the comment at `machine.rs:437-443` says.

A sixth is a theorem, since it needs no trace: at percentage 0, which
`machine.rs:20-23` allows, the charge does not cover the 6 gas of the tail, against
`requires.rs:324-325` (`ZeroPercentageUncovered`).

## Proofs

Every invariant and every action property that a passing run checks is also a
theorem, for all values of the constants that the assumptions and the hypotheses
named below allow. The exception is liveness (see the end of this section).

`EvmRegionProofs` proves for every opcode, every state of the machine at entry and
every price the EVM may charge what the run `region` samples.
`FixupsNeeded` and `SummaryMatches` (`SummaryExact`) have no hypothesis:
the summary in `Evm` by which `Runtime` runs a region in one step is what its
instructions do one by one. `RegionsNeverFault`, `RegionsMatchPrediction` and
`BudgetsForwarded` (`ForwardCoversBudget`) assume `LogsAreShort` and
`GasBelowMax`, explained below. `RegionsMatchPrediction` also assumes `TailIsCharged`, since
a CREATE's init code spends its budget and 6 gas more: by `PercentageSuffices` that
holds from a percentage of 2 on, and by `ZeroPercentageUncovered` it fails at 0. The
invariant `IInv` gives the frame in closed form: after a number of instructions
the height is a function of the opcode and that number (`MSTORE`s of an init code
come in groups of three), the memory is what the entry or the region has
reached, and the gas spent is what those instructions cost (`UnderWay`,
`FrameAfter`). At the end the region was paid for at one of its prices, and the
child took no more than it may (`Through`). A frame that faults could not pay
(`Unaffordable`). TLC checks `IInv`, too, on the instance of `region`.

`RuntimeProofs` proves of `Machine`, for every stack limit from 8, every index limit, every
budget, opcode set and set of init codes (assumptions `OpcodesAssumption` and
`MachineAssumption`):

- `TypeCorrect`: `Spec => []TypeOK`. This is more than typing: `gas` stays in
  `0..U64Max`, so the `checked_sub(..).unwrap()` of `machine.rs:607` never
  panics, and `stack` stays in `0..StackLimit`, the `debug_assert!` of
  `machine.rs:625`.
- `SolverNeverThrashes`: `Spec => []FixupsNeverBlock`.
- `PaddingIsBounded`: `Spec => []PaddingBounded`.

The properties are not inductive: a state with a POP left over and an empty
stack satisfies the types, and blocks. The invariant `IInv` adds what the queue
may look like. It is one of: empty; the opcode alone; the opcode and a fix-up
(`Waiting` with k = 0); a fix-up, the opcode, the same fix-up again (k = 1); a
fix-up left over (`LeftOver`). `Waiting` ties the height to the opcode: while
PUSHes are added the height is at most what the opcode needs, while POPs are
added it is at least where the opcode fits, so that the fix-ups never overshoot
by more than the one left over. `WaitingIsOneWay` shows that an opcode is not
blocked in both directions; this is where `StackLimit >= MaxIndex + 2` is used.
`NextIInv` has one lemma per action.

Of `Runtime` the same module proves the promise of the repository's README. `PredictionsAreExact`
(`RtSpec => []StackAndMemoryMirror`) and `PairTypeCorrect` need no hypothesis.
`ProgramsAreSafe` and `GasIsCovered` (`RtSpec => []ProgramsNeverFault`,
`[]GasCovered`) assume `Usual`, five conditions that each say something of the code:

- `LogsAreShort`: lengths, which `memory_length_limit` bounds (255 by default), stay
  where the price of a LOG does not wrap; in the code that is up to 2^60.
- `OnlyPlaceholders`: CREATEs come without a payload, as the generator draws them;
  what an explicit payload burns nobody charges for.
- `InitCodesPay`: the program of a sub-machine keeps within its budget, plus 6 gas
  for the tail. This is the same claim one level down.
- `GasBelowMax`: the machine starts below u64::MAX, so that no price it can pay was
  saturated.
- `TailIsCharged`: the charge also covers the tail and what up to 8 POPs take off
  the budget. `PercentageSuffices` proves it for CREATE at 32000 and a percentage of
  2 or more; `ZeroPercentageUncovered` refutes it at 0.

The argument goes in two halves. In `EvmProofs`, `RegionStack`, `RegionMemory`,
`RegionGrowth` and `RegionCost` compare each row of the tables with the region of the opcode: what is
required is what the region costs at the dearest price plus what its child is
charged for. For programs, `GasCovered` is not inductive: the init code of a CREATE
was made for the gas there was when the opcode was taken in, and it is paid for
later, when fix-ups have been committed. `SafeIInv` therefore keeps `GasThen`, that
earlier gas, which the gas now and the padding determine, and says of each opcode in
the queue that its init code fits it (`Sound`). `CommitIsSound` bounds the distance
with `PaddingBounded`.

`CommitsAreNotFree` (`Spec => CommitsCostGas`, under `LogsAreShort` alone) needs the
same prices.

`ClientServerProofs` proves for any number of servers and tests: `TypeCorrect`,
`AnswersBelong`, `ServersWorkOnlyWhenAwaited`, `NoServerLeft` (the invariants of
the run), and `PromiseIsSafe`: `Spec => Promise!Safety`, the safety part of the
refinement of `Verdicts`. `AnswersAreForTheirTest` is not inductive: a server
might still be busy with an older test. The invariant says of each server
that it is quiet (neither works nor sees a START) unless the worker awaits
its answer, and describes the exchange while it does (`Busy`): the files hold the
test or its answer, signalled or not. A verdict ends the exchange or, after a
timeout or a crash, leaves the server to the restart (`Condemned`), which kills
it and clears its files. `Prepared` says the tests are in place before the first
START. There is one lemma per action; `PassIInv`, `CondemnIInv`,
`SameServerIInv`, `LeavingIInv` and `DroppingIInv` are the parts they share.

`SubmachineProofs` proves for any gas, salts, number of draws and depth of nesting
`TypeCorrect`, `TargetsIsolated` and `RecordsFollowCode`. They need that no
contract has its creator's address. Of keccak256 one assumes that; of the tuples
that stand for its results it follows, for the creator's address was derived
from its own creator, and so on down to the root's (`AddressesDiffer`, a lemma:
one step down the stack is enough). The invariant is one predicate
of a stack of machines, `Nested`: each machine is `WellMade` (typed, its own
nonce and call targets in step with its code), the call targets are all the
root's, and a machine that will be recorded has another address than the one
below it (`BuildsFor`; the probe pass works for address zero, so it is excepted).
`TopReplaced`, `TopGone` and `TopAdded` say when a change of the stack keeps it;
`Follows` says what ingesting keeps of a machine; each action is one of the
former with one of the latter.

`PassesRepeat` (`GenSpec => []PassesAgree`) is about two machines
of which one is gone when the other ends. `PassesAgree` compares two finished codes,
so it says nothing of a pass under way; and a probe or a final pass makes
probes and final passes of its own. `Work` is a machine without its address and its
nonces. `Moves` says that what a turn of the loop makes of it depends on the
values drawn there and on how the machine below it ended, and on nothing else.
The invariant (`Replays`) keeps an account of what the values in `drawn`
determine: `ends` has pairs of a place and the end that a machine there
must reach, and each pair is `Justified` by a move. A machine is `Fresh`, the
first to draw its values, and `past` is where it has been; or it is `Repeating`: it
is at a place whose end is known, and for a final pass that end is the
probe's. From the first one that repeats all machines above do (`InStep`). When a
fresh machine is over, its past joins `ends`; a final pass starts where its
probe did, so that its end is known from the outset.

`DeploymentProofs` proves for any gas, salts, depth and number of draws, whichever
deployments run out of gas, `NoncesAgree` (`NoncesMatchRuntime`) and `CallsStayOut`
(`CallTargetsSafe`). Both relate what the generator recorded to an execution that
starts after it, so the invariant `DInv` has a half for each. While the machines
draw, `Honest` makes the root's records a function of its bytecode: a contract
for each CREATE in it, at the address that follows from the CREATEs before it, with
the nonce its init code leaves; and calls in a code go to what had been deployed
before it was drawn. (That a code "at any depth" calls within a set is said
without recursion: there is a set of codes, closed under the init codes in
them.) While the EVM runs, `Runs` ties each frame's nonce to the number of
CREATEs it has passed. An out-of-gas deployment puts an old table of accounts back, so
this is said of every table that is kept for that (`Table`), where it is less
by the CREATE under way. Addresses of frames differ from each other and from the
root's contracts, but for the one being deployed; that one is no call's target.
TLC checked `DInv` on the instance of the run `submachine` before it was proved.

`ByteSourceProofs` proves for inputs of any length and any depth
`SourcesStayInBounds` and `BytesReadOnce`. What the last bytes hold, up to 8 of them, is
a number for any input (`NumberAt`), and the length read is at most what lies before it.
Comparing neighbours is not
inductive, as a parent's rest is also its grandparent's past: `Nested` relates
all pairs. What a machine was given (`kept`, which also feeds the second pass)
lies between what each machine below was given and what that one has left
(`Above`). `RollsFollowWeights` (`DrawsFollowWeights`) holds for any weights. It needs
`WeightOfFirst` to be what its recursive definition says, which in general is
induction over data; with 11 families the function can be written down
(`SumsExist`), and its sums grow one by one. The loop's roll and what it finds are
written down in the same way (`RollLeftIs`, `FoundFromIs`). A family's rolls are then an
interval as long as its weight.

`FuzzProofs` proves for any number of workers and any limits `TypeCorrect`,
`NoTestTwice` and `OkIsComplete`. For the counters `Bounds` counts
the workers at a place: a claim beyond `--count` ends its worker, so `next_iter`
exceeds `--count` by no more than the workers that have ended so; those that have
completed a test will each tally it at most once.
The rest of the invariant: a claimed iteration is tested, or still held by a
worker that is about to test it or has failed (`Accounted`); claims are
distinct (`Fresh`); the flag is only up when some worker fails, and without it a
worker ends at the limit (`Stopped`); a joined worker has ended, well if no
error is known (`Joined`); `completed` lags behind `tested` by the workers that
have yet to count (`Counted`).

Model-checked only: liveness (`IngestReturns`, `LeavingEnds`, `GenerationEnds`,
the liveness part of `KeepsPromise`; `BailExits`, `ErrorEndsRun` and `LimitedRunEnds` of
`Fuzz`), which is out of TLAPS's reach.

## Not modelled

The values of immediates and memory ranges: no property here depends on them
but through the bytes they take and the sizes `EvmRegion` enumerates. Of the
harness the text of reports, the comparison of answers (its outcome is a
choice), the content of `bug.json`, panics while printing, and a kill of the
fuzzer itself, after which its servers live on. The JSON writer and the FFI
buffer (`state_test.rs`: formatting, and one allocation whose contract is the
caller's). The statistics and the trace of the runner.

What is left: the gas of nested deployments in one model with their addresses
(`Runtime` has the gas, `Deployment` the addresses), by which `InitCodesPay` of
`Usual` would become a theorem.
