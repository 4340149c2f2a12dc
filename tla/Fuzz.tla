-------------------------------- MODULE Fuzz --------------------------------
(***************************************************************************)
(* The fuzzer as a whole (bin/fuzz.rs: run, run_worker, run_iteration):    *)
(* worker threads that share counters and a stop flag, and the main thread *)
(* that joins them in order.  A worker's round with its clients (run_one)  *)
(* is one step here, with the outcome its verdicts give; module            *)
(* ClientServer shows that it ends and that the verdicts are for its test. *)
(* Panics are those of the generator; printing does not panic.             *)
(***************************************************************************)
EXTENDS Naturals

CONSTANTS
  Cores,     \* --cores
  Counts,    \* values of --count, 0 for no limit
  MaxTests   \* bound: without the stop flag, no worker gets past CheckStop
             \* once that many iterations are claimed

\* A limited run ends below the bound: each worker claims one in vain.
ASSUME FuzzAssumption ==
  /\ Cores \in Nat \ {0} /\ MaxTests \in Nat
  /\ \A count \in Counts : count \in Nat /\ count + Cores <= MaxTests

Workers == 1..Cores

VARIABLES
  cli,                                             \* --count and --bail
  next_iter, completed, mismatches, fails, stop,   \* SharedState
  pc, iter, outcome,   \* each worker: where it is, its iteration, how it went
  joined,              \* workers the main thread has joined
  first_error,         \* what run will return: "none", "error" or "panicked"
  tested               \* history: the iterations whose test all clients ran

shared == <<next_iter, completed, mismatches, fails, stop>>
vars == <<cli, shared, pc, iter, outcome, joined, first_error, tested>>

Init ==
  /\ cli \in [count : Counts, bail : BOOLEAN]
  /\ next_iter = 0 /\ completed = 0 /\ mismatches = 0 /\ fails = 0
  /\ stop = FALSE
  /\ pc = [w \in Workers |-> "begin"]
  /\ iter = [w \in Workers |-> 0]
  /\ outcome = [w \in Workers |-> "match"]
  /\ joined = 0 /\ first_error = "none" /\ tested = {}

Goto(w, from, to) == pc[w] = from /\ pc' = [pc EXCEPT ![w] = to]

rest == <<cli, joined, first_error>>

-----------------------------------------------------------------------------
(* run_worker.                                                             *)

\* create_core_workdir and the three spawns.
Begin(w) ==
  /\ \/ Goto(w, "begin", "check")
     \/ Goto(w, "begin", "failing")
  /\ UNCHANGED <<shared, iter, outcome, rest, tested>>

\* The flag is read before an iteration is claimed.
CheckStop(w) ==
  /\ stop \/ next_iter < MaxTests
  /\ Goto(w, "check", IF stop THEN "ok" ELSE "claim")
  /\ UNCHANGED <<shared, iter, outcome, rest, tested>>

LimitReached == cli.count > 0 /\ next_iter >= cli.count

\* Defect: the limit is not looked at.
ClaimUnlimited(w) ==
  /\ Goto(w, "claim", "generate")
  /\ next_iter' = next_iter + 1
  /\ iter' = [iter EXCEPT ![w] = next_iter]
  /\ UNCHANGED <<completed, mismatches, fails, stop, outcome, rest, tested>>

\* Defect: the counter is read, and not advanced in the same step.
ClaimByLoad(w) ==
  /\ Goto(w, "claim", IF LimitReached THEN "ok" ELSE "generate")
  /\ iter' = [iter EXCEPT ![w] = next_iter]
  /\ UNCHANGED <<next_iter, completed, mismatches, fails, stop, outcome, rest, tested>>

\* fetch_add, then the comparison with --count.
Claim(w) ==
  /\ Goto(w, "claim", IF LimitReached THEN "ok" ELSE "generate")
  /\ next_iter' = next_iter + 1
  /\ iter' = [iter EXCEPT ![w] = next_iter]
  /\ UNCHANGED <<completed, mismatches, fails, stop, outcome, rest, tested>>

-----------------------------------------------------------------------------
(* run_iteration.                                                          *)

Panic(w) ==
  /\ Goto(w, "generate", "panicked")
  /\ UNCHANGED <<shared, iter, outcome, rest, tested>>

\* run_one returns an error (a file, a restart) or three verdicts.
RunOne(w) ==
  /\ \/ Goto(w, "generate", "failing") /\ UNCHANGED <<outcome, tested>>
     \/ /\ Goto(w, "generate", "complete")
        /\ \E o \in {"match", "mismatch", "fail"} :
             outcome' = [outcome EXCEPT ![w] = o]
        /\ tested' = tested \union {iter[w]}
  /\ UNCHANGED <<shared, iter, rest>>

Complete(w) ==
  /\ Goto(w, "complete", IF outcome[w] = "match" THEN "check" ELSE "tally")
  /\ completed' = completed + 1
  /\ UNCHANGED <<next_iter, mismatches, fails, stop, iter, outcome, rest, tested>>

\* Defect: a FAIL is tallied as a mismatch too.
TallyBoth(w) ==
  /\ Goto(w, "tally", "report")
  /\ fails' = IF outcome[w] = "fail" THEN fails + 1 ELSE fails
  /\ mismatches' = mismatches + 1
  /\ UNCHANGED <<next_iter, completed, stop, iter, outcome, rest, tested>>

Tally(w) ==
  /\ Goto(w, "tally", "report")
  /\ IF outcome[w] = "fail"
     THEN fails' = fails + 1 /\ UNCHANGED mismatches
     ELSE mismatches' = mismatches + 1 /\ UNCHANGED fails
  /\ UNCHANGED <<next_iter, completed, stop, iter, outcome, rest, tested>>

\* Defect: --bail stops the workers, but the one that saw the bug returns Ok.
ReportAndStop(w) ==
  /\ Goto(w, "report", "check")
  /\ stop' = (stop \/ cli.bail)
  /\ UNCHANGED <<next_iter, completed, mismatches, fails, iter, outcome, rest, tested>>

\* write_bug_testcase may fail; --bail raises the flag and returns an error.
Report(w) ==
  /\ \/ Goto(w, "report", "failing") /\ UNCHANGED stop
     \/ ~cli.bail /\ Goto(w, "report", "check") /\ UNCHANGED stop
     \/ cli.bail /\ Goto(w, "report", "failing") /\ stop' = TRUE
  /\ UNCHANGED <<next_iter, completed, mismatches, fails, iter, outcome, rest, tested>>

-----------------------------------------------------------------------------
(* run: the closure around a worker, and the joins.                        *)

\* Defect: an error ends its own worker only.
FailAlone(w) ==
  /\ Goto(w, "failing", "error")
  /\ UNCHANGED <<shared, iter, outcome, rest, tested>>

\* The servers have been dropped; an error, but no panic, stops the others.
RaiseStop(w) ==
  /\ Goto(w, "failing", "error")
  /\ stop' = TRUE
  /\ UNCHANGED <<next_iter, completed, mismatches, fails, iter, outcome, rest, tested>>

\* Defect: a join that finds a panic is taken for one that finds nothing.
PanicIgnored(result) == IF result = "error" THEN "error" ELSE "none"

\* What a join says of the thread.
ErrorOf(result) == IF result = "ok" THEN "none" ELSE result

Join ==
  LET w == joined + 1 IN
  /\ w \in Workers /\ pc[w] \in {"ok", "error", "panicked"}
  /\ joined' = w
  /\ first_error' = IF first_error = "none" THEN ErrorOf(pc[w]) ELSE first_error
  /\ UNCHANGED <<cli, shared, pc, iter, outcome, tested>>

Finished == joined = Cores

Iteration(w) ==
  \/ Begin(w) \/ CheckStop(w) \/ Claim(w) \/ Panic(w) \/ RunOne(w)
  \/ Complete(w) \/ Tally(w) \/ Report(w) \/ RaiseStop(w)

Next == Join \/ \E w \in Workers : Iteration(w)

\* The system schedules every thread; run_one returns (ClientServer).
Fairness == WF_vars(Join) /\ \A w \in Workers : WF_vars(Iteration(w))

Spec == Init /\ [][Next]_vars /\ Fairness

-----------------------------------------------------------------------------
(* Properties.                                                             *)

\* Types, and how the counters of SharedState bound each other: what is tallied
\* has been completed, what is completed was claimed, and with --count each
\* worker claims at most one iteration in vain.
TypeOK ==
  /\ next_iter \in Nat /\ completed \in 0..next_iter
  /\ mismatches \in Nat /\ fails \in Nat /\ mismatches + fails <= completed
  /\ cli \in [count : Counts, bail : BOOLEAN]
  /\ cli.count > 0 => next_iter <= cli.count + Cores
  /\ stop \in BOOLEAN
  /\ pc \in [Workers -> {"begin", "check", "claim", "generate", "complete",
       "tally", "report", "failing", "ok", "error", "panicked"}]
  /\ iter \in [Workers -> 0..next_iter]
  /\ outcome \in [Workers -> {"match", "mismatch", "fail"}]
  /\ joined \in 0..Cores
  /\ first_error \in {"none", "error", "panicked"}
  /\ tested \subseteq 0..(next_iter - 1)

\* No test is run twice, by one worker or by two, and none beyond --count:
\* what fetch_add of next_iter is for (run_worker).
EveryTestIsNew ==
  [][\A w \in Workers :
       pc[w] = "generate" /\ pc'[w] = "complete" =>
         /\ iter[w] \notin tested
         /\ cli.count > 0 => iter[w] < cli.count]_vars

\* A run that returns Ok has tested every iteration it was asked for, and says
\* so: no worker that stopped early, for whatever reason, goes unreported.
OkMeansAllTested ==
  Finished /\ first_error = "none" =>
    cli.count > 0 /\ tested = 0..(cli.count - 1) /\ completed = cli.count

\* --bail: "Exit non-zero on the first FAIL or root mismatch", also when there
\* is no limit and the other workers are busy (Cli::bail).
BailExits ==
  cli.bail /\ fails + mismatches > 0 ~> Finished /\ first_error # "none"

\* An error of one worker ends the run, even one without a limit.
ErrorEndsRun == (\E w \in Workers : pc[w] = "error") ~> Finished

\* A run with a limit ends whatever its workers meet, panics included.
LimitedRunEnds == cli.count > 0 ~> Finished
=============================================================================
