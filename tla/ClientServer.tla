---------------------------- MODULE ClientServer ----------------------------
(***************************************************************************)
(* One worker of the fuzzer and its client servers (bin/fuzz.rs: run_one,  *)
(* ClientServer, the loop of run_worker).  They share two files per        *)
(* client: `data`, with the test and then the client's answer, and         *)
(* `signal`, with START, OK, FAIL or EXIT.  The worker is sequential code  *)
(* and goes through its servers in the order of their index; a server may  *)
(* answer, crash or keep still at any moment in between.  Writes of the    *)
(* worker are atomic (a temporary file and a rename).                      *)
(*                                                                         *)
(* The servers are not in the repository: their actions are what the       *)
(* worker's side of the protocol assumes of them.                          *)
(***************************************************************************)
EXTENDS Naturals

CONSTANTS
  NumServers,   \* 3 in the code: geth, nethermind, besu
  MaxTests      \* bound: tests the worker runs

ASSUME ServersAssumption == NumServers \in Nat \ {0} /\ MaxTests \in Nat

Servers == 1..NumServers

VARIABLES
  data, signal,   \* the two files of each server
  server,         \* each child process: its state and what it works with
  pc, at,         \* where the worker is, and at which server
  test, done,     \* the current iteration; `done` of run_one
  late            \* deadline of the current test passed, by server

files == <<data, signal>>
vars == <<data, signal, server, pc, at, test, done, late>>

over == pc \in {"exit", "wait", "ended"}

\* The abstract specification; its constructors of values serve here as well.
Promise == INSTANCE Verdicts WITH Clients <- Servers, verdict <- done

Doc(kind, t) == Promise!Doc(kind, t)
Nothing == Promise!Nothing
NoVerdict == Promise!NoVerdict

Process(state, doc) == [state |-> state, doc |-> doc]
Alive(c) == server[c].state \in {"idle", "running", "answering"}

Init ==
  /\ data = [c \in Servers |-> Nothing]
  /\ signal = [c \in Servers |-> "none"]
  /\ server = [c \in Servers |-> Process("unborn", Nothing)]
  /\ pc = "spawn" /\ at = 1
  /\ test = 0 /\ done = [c \in Servers |-> NoVerdict]
  /\ late = [c \in Servers |-> FALSE]

-----------------------------------------------------------------------------
(* The servers and the clock.                                              *)

Becomes(c, state, doc) == server' = [server EXCEPT ![c] = Process(state, doc)]

TakeTest(c) ==
  /\ server[c].state = "idle" /\ signal[c] = "START"
  /\ Becomes(c, "running", data[c])
  /\ UNCHANGED files

\* A document that is not a test is answered with an error.
WriteAnswer(c) ==
  /\ server[c].state = "running"
  /\ \E kind \in {"result", "error"} :
       LET answer == Doc(kind, server[c].doc.test) IN
       /\ kind = "result" => server[c].doc.kind = "test"
       /\ data' = [data EXCEPT ![c] = answer]
       /\ Becomes(c, "answering", answer)
  /\ UNCHANGED signal

SignalAnswer(c) ==
  /\ server[c].state = "answering"
  /\ signal' = [signal EXCEPT
       ![c] = IF server[c].doc.kind = "result" THEN "OK" ELSE "FAIL"]
  /\ Becomes(c, "idle", Nothing)
  /\ UNCHANGED data

ObeyExit(c) ==
  /\ server[c].state = "idle" /\ signal[c] = "EXIT"
  /\ Becomes(c, "dead", Nothing)
  /\ UNCHANGED files

Crash(c) == Alive(c) /\ Becomes(c, "dead", Nothing) /\ UNCHANGED files

ServerStep ==
  /\ \E c \in Servers :
       \/ TakeTest(c) \/ WriteAnswer(c) \/ SignalAnswer(c)
       \/ ObeyExit(c) \/ Crash(c)
  /\ UNCHANGED <<pc, at, test, done, late>>

Polling == pc \in {"poll", "read", "deadline", "restart"}

\* Time goes by: the deadline of a server that was sent START passes.
Expire(c) ==
  /\ Polling /\ done[c] = NoVerdict /\ ~late[c]
  /\ late' = [late EXCEPT ![c] = TRUE]
  /\ UNCHANGED <<data, signal, server, pc, at, test, done>>

-----------------------------------------------------------------------------
(* Starting and stopping servers.                                          *)

Goto(label, c) == pc' = label /\ at' = c

\* An error or the end of the loop: the servers are dropped, in order.
Leave == Goto("exit", 1)

\* From one server to the next in a pass over all of them.
NextOr(after) ==
  IF at < NumServers THEN pc' = pc /\ at' = at + 1 ELSE Goto(after, 1)

\* Defect: the files of the process before are left where they are.
StartWithoutClear(c, state) == UNCHANGED files /\ Becomes(c, state, Nothing)

\* start_child: both files go before the new process can see them.  The child
\* is then idle, or what it was before if it cannot be spawned.
StartChild(c, state) ==
  /\ data' = [data EXCEPT ![c] = Nothing]
  /\ signal' = [signal EXCEPT ![c] = "none"]
  /\ Becomes(c, state, Nothing)

Spawn ==
  /\ pc = "spawn"
  /\ \/ StartChild(at, "idle") /\ NextOr("next")
     \/ StartChild(at, "unborn") /\ Leave
  /\ UNCHANGED <<test, done, late>>

\* stop_child asks first; that the write may fail is ignored.
SendExit ==
  /\ pc = "exit" /\ server[at].state # "unborn"
  /\ \/ signal' = [signal EXCEPT ![at] = "EXIT"]
     \/ UNCHANGED signal
  /\ pc' = "wait"
  /\ UNCHANGED <<data, server, at, test, done, late>>

NextDrop == IF at < NumServers THEN Goto("exit", at + 1) ELSE Goto("ended", 1)

\* The server array was not complete: nothing to drop here.
SkipUnborn ==
  /\ pc = "exit" /\ server[at].state = "unborn"
  /\ NextDrop
  /\ UNCHANGED <<data, signal, server, test, done, late>>

\* Defect: a child that does not exit is left alone after two seconds.
LeaveAlone ==
  /\ pc = "wait"
  /\ NextDrop
  /\ UNCHANGED <<data, signal, server, test, done, late>>

\* Defect: the child is waited for without a limit.
AwaitExit ==
  /\ pc = "wait" /\ ~Alive(at)
  /\ NextDrop
  /\ UNCHANGED <<data, signal, server, test, done, late>>

\* The child has exited within two seconds, or is killed.
Reap ==
  /\ pc = "wait"
  /\ Becomes(at, "dead", Nothing)
  /\ NextDrop
  /\ UNCHANGED <<data, signal, test, done, late>>

-----------------------------------------------------------------------------
(* run_one.                                                                *)

NextTest ==
  /\ pc = "next" /\ test < MaxTests
  /\ test' = test + 1
  /\ done' = [c \in Servers |-> NoVerdict]
  /\ Goto("write", 1)
  /\ UNCHANGED <<data, signal, server, late>>

\* The stop flag, the count, an error while reporting, or a panic.
LeaveLoop ==
  /\ pc = "next"
  /\ Leave
  /\ UNCHANGED <<data, signal, server, test, done, late>>

\* Defect: the document written is that of the iteration to come.
WriteTestAhead ==
  /\ pc = "write"
  /\ \/ data' = [data EXCEPT ![at] = Doc("test", test + 1)] /\ NextOr("start")
     \/ UNCHANGED data /\ Leave
  /\ UNCHANGED <<signal, server, test, done, late>>

WriteTest ==
  /\ pc = "write"
  /\ \/ data' = [data EXCEPT ![at] = Doc("test", test)] /\ NextOr("start")
     \/ UNCHANGED data /\ Leave
  /\ UNCHANGED <<signal, server, test, done, late>>

WriteStart ==
  /\ pc = "start"
  /\ \/ /\ signal' = [signal EXCEPT ![at] = "START"]
        /\ late' = [late EXCEPT ![at] = FALSE]
        /\ NextOr("poll")
     \/ UNCHANGED <<signal, late>> /\ Leave
  /\ UNCHANGED <<data, server, test, done>>

Decided(verdicts) == \A c \in Servers : verdicts[c] # NoVerdict

\* On to the next server; after the last one the round is over if every
\* server has its verdict, and begins again if not.
NextServer ==
  IF at < NumServers
  THEN Goto("poll", at + 1)
  ELSE Goto(IF Decided(done') THEN "next" ELSE "poll", 1)

PollChild ==
  /\ pc = "poll"
  /\ \/ done[at] # NoVerdict /\ UNCHANGED done /\ NextServer
     \/ /\ done[at] = NoVerdict /\ server[at].state = "dead"
        /\ done' = [done EXCEPT ![at] = Promise!Fail(Nothing)]
        /\ Goto("restart", at)
     \/ /\ done[at] = NoVerdict /\ server[at].state # "dead"
        /\ UNCHANGED done /\ Goto("read", at)
  /\ UNCHANGED <<data, signal, server, test, late>>

\* A file that cannot be read makes a Fail.
Reading(c) ==
  IF signal[c] = "OK" /\ data[c] # Nothing
  THEN Promise!Ok(data[c])
  ELSE Promise!Fail(data[c])

ReadSignal ==
  /\ pc = "read"
  /\ \/ /\ signal[at] \in {"OK", "FAIL"}
        /\ done' = [done EXCEPT ![at] = Reading(at)]
        /\ NextServer
     \/ /\ signal[at] \notin {"OK", "FAIL"}
        /\ UNCHANGED done /\ Goto("deadline", at)
  /\ UNCHANGED <<data, signal, server, test, late>>

\* Defect: a server is waited for until it answers.
WaitForever ==
  /\ pc = "deadline"
  /\ UNCHANGED <<data, signal, server, test, done, late>>
  /\ NextServer

\* Defect: a server that is late has failed the test but goes on with it.
FailWithoutRestart ==
  /\ pc = "deadline"
  /\ IF late[at]
     THEN done' = [done EXCEPT ![at] = Promise!Fail(Nothing)]
     ELSE UNCHANGED done
  /\ NextServer
  /\ UNCHANGED <<data, signal, server, test, late>>

\* The signal was read a moment ago: the answer may be there by now.
CheckDeadline ==
  /\ pc = "deadline"
  /\ \/ /\ late[at]
        /\ done' = [done EXCEPT ![at] = Promise!Fail(Nothing)]
        /\ Goto("restart", at)
     \/ ~late[at] /\ UNCHANGED done /\ NextServer
  /\ UNCHANGED <<data, signal, server, test, late>>

\* Kill, wait, clear the files, start anew.  Nobody touches the files between
\* the kill and the new process, so this is one step.
Restart ==
  /\ pc = "restart"
  /\ UNCHANGED <<test, done, late>>
  /\ \/ StartChild(at, "idle") /\ NextServer
     \/ StartChild(at, "dead") /\ Leave

Worker ==
  \/ Spawn \/ SendExit \/ SkipUnborn \/ Reap
  \/ NextTest \/ LeaveLoop \/ WriteTest \/ WriteStart
  \/ PollChild \/ ReadSignal \/ CheckDeadline \/ Restart

Next == Worker \/ ServerStep \/ \E c \in Servers : Expire(c)

Spec == Init /\ [][Next]_vars

\* The worker is a thread that never waits for another one, and time passes.
\* Nothing is assumed of the servers.
Fairness == WF_vars(Worker) /\ \A c \in Servers : WF_vars(Expire(c))

FairSpec == Spec /\ Fairness

-----------------------------------------------------------------------------
(* Properties.                                                             *)

Docs == [kind : {"none", "test", "result", "error"}, test : 0..MaxTests]

TypeOK ==
  /\ data \in [Servers -> Docs]
  /\ signal \in [Servers -> {"none", "START", "OK", "FAIL", "EXIT"}]
  /\ server \in [Servers ->
       [state : {"unborn", "idle", "running", "answering", "dead"}, doc : Docs]]
  /\ pc \in {"spawn", "next", "write", "start", "poll", "read", "deadline",
             "restart", "exit", "wait", "ended"}
  /\ at \in Servers
  /\ test \in 0..MaxTests
  /\ done \in [Servers -> [kind : {"pending", "ok", "fail"}, doc : Docs]]
  /\ late \in [Servers -> BOOLEAN]

\* What a client said is a result, or an error, for the very test its verdict
\* is counted for, whatever timeouts, late answers, crashes and restarts came
\* before (run_one; the stale signal of start_child's comment).
AnswersAreForTheirTest ==
  \A c \in Servers :
    done[c] # NoVerdict => done[c] \in Promise!ProperVerdicts(test)

\* The worker waits for c's answer to the current test, or is about to kill c.
AwaitsAnswer(c) ==
  \/ pc = "start" /\ c < at
  \/ Polling /\ done[c] = NoVerdict
  \/ pc = "restart" /\ c = at

\* A server works only while the worker waits for its answer: nobody writes a
\* file while run_one replaces the test in it or a new round begins.
WorksOnlyWhenAwaited ==
  \A c \in Servers :
    server[c].state \in {"running", "answering"} => AwaitsAnswer(c) \/ over

\* When the worker has ended, for whatever reason, none of its servers is left
\* (Drop for ClientServer).
NoServerSurvives == pc = "ended" => \A c \in Servers : ~Alive(c)

\* The worker keeps the promise of Verdicts: one verdict per test and client,
\* each in the end, tests in turn (run_one, "all_done loop guarantees Some").
KeepsPromise == Promise!Spec

\* A worker that leaves its loop ends, even if servers ignore EXIT.
LeavingEnds == over ~> pc = "ended"
=============================================================================
