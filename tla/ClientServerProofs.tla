------------------------- MODULE ClientServerProofs -------------------------
(***************************************************************************)
(* Theorems about ClientServer, for any number of servers and tests: the   *)
(* safety properties of its run, and that each of its steps is a step of   *)
(* Verdicts or leaves the verdicts alone.                                  *)
(*                                                                         *)
(* The idea: at any moment a server is quiet, that is, neither works nor   *)
(* sees a START, unless the worker awaits its answer to the current test.  *)
(* While it is awaited, its files hold the test, or its answer to it.      *)
(***************************************************************************)
EXTENDS ClientServer, TLAPS

Asked(c) ==
  \/ pc = "start" /\ c < at
  \/ Polling /\ done[c] = NoVerdict

Condemned(c) == pc = "restart" /\ c = at

Quiet(c) ==
  /\ server[c].state \in {"unborn", "idle", "dead"}
  /\ signal[c] \in {"none", "OK", "FAIL"}

\* What an exchange looks like, from START to the answer's signal.
Busy(c) ==
  /\ signal[c] \in {"START", "OK", "FAIL"}
  /\ signal[c] = "START" =>
       /\ server[c].state = "idle" => data[c] = Doc("test", test)
       /\ server[c].state = "running" => server[c].doc = Doc("test", test)
       /\ server[c].state = "answering" =>
            /\ data[c] = server[c].doc
            /\ server[c].doc \in {Doc("result", test), Doc("error", test)}
  /\ signal[c] = "OK" => data[c] = Doc("result", test)
  /\ signal[c] = "FAIL" => data[c] = Doc("error", test)
  /\ signal[c] # "START" => server[c].state \in {"unborn", "idle", "dead"}

Exchanges ==
  ~over =>
    \A c \in Servers : IF Asked(c) THEN Busy(c) ELSE Quiet(c) \/ Condemned(c)

\* The tests are in place before the first START.
Prepared ==
  /\ pc = "write" => \A c \in Servers : c < at => data[c] = Doc("test", test)
  /\ pc = "start" => \A c \in Servers : c >= at => data[c] = Doc("test", test)

\* Where the worker is tells which verdicts there are.
Rounds ==
  /\ pc = "spawn" => test = 0
  /\ pc = "next" => test = 0 \/ Decided(done)
  /\ pc \in {"write", "start"} \/ Polling => test > 0
  /\ pc \in {"write", "start"} => \A c \in Servers : done[c] = NoVerdict
  /\ pc \in {"read", "deadline"} => done[at] = NoVerdict
  /\ pc = "restart" => done[at] # NoVerdict

Dropped ==
  /\ pc \in {"exit", "wait"} => \A c \in Servers : c < at => ~Alive(c)
  /\ NoServerSurvives

IInv ==
  /\ TypeOK /\ AnswersAreForTheirTest
  /\ Exchanges /\ Prepared /\ Rounds /\ Dropped

-----------------------------------------------------------------------------
(* The values.                                                             *)

Verdict == [kind : {"pending", "ok", "fail"}, doc : Docs]

LEMMA DocValues ==
  /\ Nothing \in Docs
  /\ \A k \in {"none", "test", "result", "error"}, t \in 0..MaxTests : Doc(k, t) \in Docs
  /\ \A d \in Docs : d = Doc(d.kind, d.test)
BY ServersAssumption DEF Nothing, Promise!Nothing, Doc, Promise!Doc, Docs

LEMMA VerdictValues ==
  /\ NoVerdict \in Verdict
  /\ \A d \in Docs :
       /\ Promise!Ok(d) \in Verdict /\ Promise!Ok(d) # NoVerdict
       /\ Promise!Fail(d) \in Verdict /\ Promise!Fail(d) # NoVerdict
BY DocValues DEF Verdict, NoVerdict, Promise!NoVerdict, Nothing, Promise!Ok, Promise!Fail

LEMMA InitIInv == Init => IInv
<1> SUFFICES ASSUME Init PROVE IInv
  OBVIOUS
<1> USE ServersAssumption DEF Init
<1>1. TypeOK
  BY DocValues, VerdictValues DEF TypeOK, Process, Verdict, Servers
<1>2. AnswersAreForTheirTest
  BY DEF AnswersAreForTheirTest
<1>3. Exchanges
  BY DEF Exchanges, Asked, Quiet, Polling, Process
<1>4. Prepared /\ Rounds /\ Dropped
  BY DEF Prepared, Rounds, Dropped, Polling, NoServerSurvives
<1> QED
  BY <1>1, <1>2, <1>3, <1>4 DEF IInv

-----------------------------------------------------------------------------
(* The servers and the clock.                                              *)

LEMMA ServerStepIInv == IInv /\ ServerStep => IInv'
<1> SUFFICES ASSUME IInv, ServerStep PROVE IInv'
  OBVIOUS
<1> USE DEF IInv
<1>1. PICK c \in Servers :
        \/ TakeTest(c) \/ WriteAnswer(c) \/ SignalAnswer(c)
        \/ ObeyExit(c) \/ Crash(c)
  BY DEF ServerStep
<1>2. UNCHANGED <<pc, at, test, done, late>>
  BY DEF ServerStep
<1>3. CASE TakeTest(c)
  <2> USE <1>2, <1>3 DEF TakeTest, Becomes, files, Process
  <2>1. TypeOK'
    BY DEF TypeOK
  <2>2. Exchanges'
    BY DEF Exchanges, over, Asked, Condemned, Quiet, Busy, Polling, TypeOK
  <2>3. AnswersAreForTheirTest' /\ Prepared' /\ Rounds'
    BY DEF AnswersAreForTheirTest, Prepared, Rounds, Decided, Polling
  <2>4. Dropped'
    BY DEF Dropped, NoServerSurvives, Alive, TypeOK
  <2> QED
    BY <2>1, <2>2, <2>3, <2>4
<1>4. CASE WriteAnswer(c)
  <2>0. PICK kind \in {"result", "error"} :
         LET answer == Doc(kind, server[c].doc.test) IN
         /\ kind = "result" => server[c].doc.kind = "test"
         /\ data' = [data EXCEPT ![c] = answer]
         /\ Becomes(c, "answering", answer)
    BY <1>4 DEF WriteAnswer
  <2> USE <1>2, <1>4, <2>0 DEF WriteAnswer, Becomes, files, Process
  <2>a. Doc(kind, server[c].doc.test) \in Docs /\ server[c].doc \in Docs
    BY DocValues DEF TypeOK, Docs
  <2>1. TypeOK'
    BY <2>a DEF TypeOK
  <2>2. Exchanges'
    <3>1. \A t : Doc("test", t).test = t
      BY DEF Doc, Promise!Doc
    <3> QED
    BY <3>1 DEF Exchanges, over, Asked, Condemned, Quiet, Busy, Polling, TypeOK
  <2>3. AnswersAreForTheirTest' /\ Rounds'
    BY DEF AnswersAreForTheirTest, Rounds, Decided, Polling
  <2>5. Prepared'
    BY DEF Prepared, Exchanges, over, Asked, Condemned, Quiet, Polling, TypeOK, Servers
  <2>4. Dropped'
    BY DEF Dropped, NoServerSurvives, Alive, TypeOK
  <2> QED
    BY <2>1, <2>2, <2>3, <2>4, <2>5
<1>5. CASE SignalAnswer(c)
  <2> USE <1>2, <1>5 DEF SignalAnswer, Becomes, files, Process
  <2>1. TypeOK'
    BY DocValues DEF TypeOK
  <2>2. Exchanges'
    <3>1. \A t : Doc("result", t).kind = "result" /\ Doc("error", t).kind = "error"
      BY DEF Doc, Promise!Doc
    <3> QED
      BY <3>1 DEF Exchanges, over, Asked, Condemned, Quiet, Busy, Polling, TypeOK
  <2>3. AnswersAreForTheirTest' /\ Prepared' /\ Rounds'
    BY DEF AnswersAreForTheirTest, Prepared, Rounds, Decided, Polling
  <2>4. Dropped'
    BY DEF Dropped, NoServerSurvives, Alive, TypeOK
  <2> QED
    BY <2>1, <2>2, <2>3, <2>4
<1>6. CASE ObeyExit(c) \/ Crash(c)
  <2>0. Becomes(c, "dead", Nothing) /\ UNCHANGED files
    BY <1>6 DEF ObeyExit, Crash
  <2> USE <1>2, <2>0 DEF Becomes, files, Process
  <2>1. TypeOK'
    BY DocValues DEF TypeOK
  <2>2. Exchanges'
    BY DEF Exchanges, over, Asked, Condemned, Quiet, Busy, Polling, TypeOK
  <2>3. AnswersAreForTheirTest' /\ Prepared' /\ Rounds'
    BY DEF AnswersAreForTheirTest, Prepared, Rounds, Decided, Polling
  <2>4. Dropped'
    BY DEF Dropped, NoServerSurvives, Alive, TypeOK
  <2> QED
    BY <2>1, <2>2, <2>3, <2>4
<1> QED
  BY <1>1, <1>3, <1>4, <1>5, <1>6

LEMMA ExpireIInv ==
  ASSUME NEW c \in Servers, IInv, Expire(c)
  PROVE  IInv'
<1> USE DEF IInv, Expire
<1>1. TypeOK'
  BY DEF TypeOK
<1>2. Exchanges' /\ Prepared' /\ Dropped'
  BY DEF Exchanges, over, Asked, Condemned, Quiet, Busy, Polling, Prepared, Dropped,
     NoServerSurvives, Alive
<1>3. AnswersAreForTheirTest' /\ Rounds'
  BY DEF AnswersAreForTheirTest, Rounds, Decided, Polling
<1> QED
  BY <1>1, <1>2, <1>3

-----------------------------------------------------------------------------
(* Starting and stopping servers.                                          *)

\* Any way out of the loop: nothing is asked of a worker that is over.
LEMMA LeavingIInv ==
  ASSUME IInv, TypeOK', Leave, UNCHANGED <<test, done>>
  PROVE  IInv'
<1> USE DEF IInv, Leave, Goto
<1>1. AnswersAreForTheirTest'
  BY DEF AnswersAreForTheirTest
<1>2. Exchanges' /\ Prepared' /\ Rounds'
  BY DEF Exchanges, over, Prepared, Rounds, Polling
<1>3. Dropped'
  BY DEF Dropped, NoServerSurvives, Servers
<1> QED
  BY <1>1, <1>2, <1>3

LEMMA SpawnIInv == IInv /\ Spawn => IInv'
<1> SUFFICES ASSUME IInv, Spawn PROVE IInv'
  OBVIOUS
<1>0. PICK state \in {"idle", "unborn"} : StartChild(at, state)
  BY DEF Spawn
<1>1. TypeOK'
  <2>1. at' \in Servers /\ pc' \in {"spawn", "next", "exit"}
    BY ServersAssumption DEF IInv, TypeOK, Spawn, NextOr, Leave, Goto, Servers
  <2> QED
    BY <1>0, <2>1, DocValues DEF IInv, TypeOK, Spawn, StartChild, Becomes, Process
<1>2. CASE Leave
  BY <1>1, <1>2, LeavingIInv DEF Spawn
<1>3. CASE StartChild(at, "idle") /\ NextOr("next")
  <2> USE <1>3 DEF IInv, Spawn, StartChild, Becomes, Process, NextOr, Goto
  <2>1. AnswersAreForTheirTest' /\ Prepared' /\ Rounds'
    BY DEF AnswersAreForTheirTest, Prepared, Rounds, Polling
  <2>2. Exchanges' /\ Dropped'
    BY DEF Exchanges, over, Asked, Condemned, Quiet, Polling, Dropped,
       NoServerSurvives, TypeOK
  <2> QED
    BY <1>1, <2>1, <2>2
<1> QED
  BY <1>2, <1>3 DEF Spawn

\* The drop: nothing but Dropped is at stake.
LEMMA DroppingIInv ==
  ASSUME IInv, TypeOK', over, over', UNCHANGED <<test, done>>, Dropped'
  PROVE  IInv'
<1>1. AnswersAreForTheirTest'
  BY DEF IInv, AnswersAreForTheirTest
<1>2. Exchanges' /\ Prepared' /\ Rounds'
  BY DEF Exchanges, over, Prepared, Rounds, Polling
<1> QED
  BY <1>1, <1>2 DEF IInv

LEMMA DropIInv == IInv /\ (SendExit \/ SkipUnborn \/ Reap) => IInv'
<1> SUFFICES ASSUME IInv, SendExit \/ SkipUnborn \/ Reap PROVE IInv'
  OBVIOUS
<1> USE DEF IInv
<1>1. CASE SendExit
  <2> USE <1>1 DEF SendExit
  <2>1. TypeOK'
    BY DEF TypeOK
  <2>2. Dropped'
    BY DEF Dropped, NoServerSurvives, Alive
  <2> QED
    BY <2>1, <2>2, DroppingIInv DEF over
<1>2. ASSUME pc \in {"exit", "wait"}, NextDrop, TypeOK',
             server'[at].state \in {"unborn", "dead"},
             \A c \in Servers : c # at => server'[c] = server[c]
      PROVE  Dropped'
  <2>1. \A c \in Servers : c < at => ~Alive(c)'
    BY <1>2 DEF Dropped, Alive, Servers, TypeOK
  <2>2. \A c \in Servers : c <= at => ~Alive(c)'
    BY <1>2, <2>1 DEF Alive, Servers, TypeOK
  <2>3. CASE at < NumServers
    BY <1>2, <2>2, <2>3 DEF Dropped, NoServerSurvives, NextDrop, Goto, Servers, TypeOK
  <2>4. CASE ~(at < NumServers)
    <3>1. \A c \in Servers : ~Alive(c)'
      BY <2>2, <2>4, ServersAssumption DEF Servers, TypeOK
    <3> QED
      BY <1>2, <2>4, <3>1 DEF Dropped, NoServerSurvives, NextDrop, Goto
  <2> QED
    BY <2>3, <2>4
<1>3. CASE SkipUnborn
  <2>1. TypeOK'
    BY <1>3, ServersAssumption DEF SkipUnborn, NextDrop, Goto, TypeOK, Servers
  <2>2. Dropped'
    BY <1>2, <1>3, <2>1 DEF SkipUnborn
  <2> QED
    BY <1>3, <2>1, <2>2, DroppingIInv DEF SkipUnborn, NextDrop, Goto, over
<1>4. CASE Reap
  <2>1. TypeOK'
    <3>1. at' \in Servers /\ pc' \in {"exit", "ended"}
      BY <1>4, ServersAssumption DEF Reap, NextDrop, Goto, TypeOK, Servers
    <3> QED
      BY <1>4, <3>1, DocValues DEF Reap, Becomes, Process, TypeOK
  <2>2. server'[at].state = "dead" /\ \A c \in Servers : c # at => server'[c] = server[c]
    BY <1>4 DEF Reap, Becomes, Process, TypeOK
  <2>3. Dropped'
    BY <1>2, <1>4, <2>1, <2>2 DEF Reap
  <2> QED
    BY <1>4, <2>1, <2>3, DroppingIInv DEF Reap, NextDrop, Goto, over
<1> QED
  BY <1>1, <1>3, <1>4

-----------------------------------------------------------------------------
(* run_one.                                                                *)

LEMMA BetweenTestsIInv == IInv /\ (NextTest \/ LeaveLoop) => IInv'
<1> SUFFICES ASSUME IInv, NextTest \/ LeaveLoop PROVE IInv'
  OBVIOUS
<1> USE DEF IInv
<1>1. CASE NextTest
  <2> USE <1>1 DEF NextTest, Goto
  <2>1. TypeOK'
    BY ServersAssumption, VerdictValues DEF TypeOK, Verdict, Servers
  <2>2. Exchanges'
    BY DEF Exchanges, over, Asked, Condemned, Quiet, Polling
  <2>3. AnswersAreForTheirTest' /\ Prepared' /\ Rounds' /\ Dropped'
    BY DEF AnswersAreForTheirTest, Prepared, Rounds, Polling, Dropped,
       NoServerSurvives, TypeOK, Servers
  <2> QED
    BY <2>1, <2>2, <2>3
<1>2. CASE LeaveLoop
  <2>1. TypeOK'
    BY <1>2, ServersAssumption DEF LeaveLoop, Leave, Goto, TypeOK, Servers
  <2> QED
    BY <1>2, <2>1, LeavingIInv DEF LeaveLoop
<1> QED
  BY <1>1, <1>2

LEMMA WriteTestIInv == IInv /\ WriteTest => IInv'
<1> SUFFICES ASSUME IInv, WriteTest PROVE IInv'
  OBVIOUS
<1> USE DEF IInv, WriteTest
<1>1. CASE Leave
  <2>1. TypeOK'
    <3>1. at' \in Servers /\ pc' = "exit"
      BY <1>1, ServersAssumption DEF Leave, Goto, Servers
    <3> QED
      BY <3>1, DocValues DEF TypeOK
  <2> QED
    BY <1>1, <2>1, LeavingIInv
<1>2. CASE data' = [data EXCEPT ![at] = Doc("test", test)] /\ NextOr("start")
  <2> USE <1>2 DEF NextOr, Goto
  <2>0. at' \in Servers /\ pc' \in {"write", "start"}
    BY ServersAssumption DEF TypeOK, Servers
  <2>1. TypeOK'
    BY <2>0, DocValues DEF TypeOK
  <2>2. \A c \in Servers : c <= at => data'[c] = Doc("test", test)
    BY DEF Prepared, TypeOK, Servers
  <2>3. Prepared'
    <3>1. CASE at < NumServers
      BY <2>2, <3>1 DEF Prepared, TypeOK, Servers
    <3>2. CASE ~(at < NumServers)
      <4>1. \A c \in Servers : data'[c] = Doc("test", test)
        <5>1. \A c \in Servers : c <= at
          BY <3>2, ServersAssumption DEF TypeOK, Servers
        <5> QED
          BY <2>2, <5>1
      <4> QED
        BY <3>2, <4>1 DEF Prepared
    <3> QED
      BY <3>1, <3>2
  <2>4. Exchanges'
    BY <2>0, ServersAssumption DEF Exchanges, over, Asked, Condemned, Quiet, Polling,
       TypeOK, Servers
  <2>5. AnswersAreForTheirTest' /\ Rounds' /\ Dropped'
    BY <2>0 DEF AnswersAreForTheirTest, Rounds, Polling, Dropped, NoServerSurvives
  <2> QED
    BY <2>1, <2>3, <2>4, <2>5
<1> QED
  BY <1>1, <1>2

LEMMA WriteStartIInv == IInv /\ WriteStart => IInv'
<1> SUFFICES ASSUME IInv, WriteStart PROVE IInv'
  OBVIOUS
<1> USE DEF IInv, WriteStart
<1>1. CASE UNCHANGED <<signal, late>> /\ Leave
  <2>1. TypeOK'
    <3>1. at' \in Servers /\ pc' = "exit"
      BY <1>1, ServersAssumption DEF Leave, Goto, Servers
    <3> QED
      BY <1>1, <3>1 DEF TypeOK
  <2> QED
    BY <1>1, <2>1, LeavingIInv
<1>2. CASE /\ signal' = [signal EXCEPT ![at] = "START"]
           /\ late' = [late EXCEPT ![at] = FALSE]
           /\ NextOr("poll")
  <2> USE <1>2 DEF NextOr, Goto
  <2>0. at' \in Servers /\ pc' \in {"start", "poll"}
    BY ServersAssumption DEF TypeOK, Servers
  <2>1. TypeOK'
    BY <2>0 DEF TypeOK
  <2>3. Prepared'
    BY <2>0 DEF Prepared, TypeOK, Servers
  <2>4. Exchanges'
    <3>1. Exchanges /\ Quiet(at)
      BY DEF Exchanges, over, Asked, Condemned, Polling, TypeOK, Servers
    <3>2. data[at] = Doc("test", test)
      BY DEF Prepared, TypeOK, Servers
    <3>3. \A c \in Servers : Asked(c)' <=> c <= at
      BY <2>0, ServersAssumption DEF Asked, Polling, Rounds, TypeOK, Servers
    <3>4. ASSUME NEW c \in Servers
          PROVE  IF Asked(c)' THEN Busy(c)' ELSE Quiet(c)'
      <4>1. CASE c = at
        BY <3>1, <3>2, <3>3, <4>1 DEF Busy, Quiet, TypeOK, Servers
      <4>2. CASE c < at
        <5>1. Asked(c) /\ Asked(c)'
          BY <3>3, <4>2 DEF Asked, TypeOK, Servers
        <5>2. Busy(c)
          BY <5>1 DEF Exchanges, over
        <5> QED
          BY <4>2, <5>1, <5>2 DEF Busy, TypeOK, Servers
      <4>3. CASE c > at
        <5>1. ~Asked(c) /\ ~Asked(c)' /\ ~Condemned(c)
          BY <3>3, <4>3 DEF Asked, Condemned, Polling, TypeOK, Servers
        <5>2. Quiet(c)
          BY <5>1 DEF Exchanges, over
        <5> QED
          BY <4>3, <5>1, <5>2 DEF Quiet, TypeOK, Servers
      <4> QED
        BY <4>1, <4>2, <4>3 DEF TypeOK, Servers
    <3> QED
      BY <3>4 DEF Exchanges
  <2>5. AnswersAreForTheirTest' /\ Rounds' /\ Dropped'
    BY <2>0 DEF AnswersAreForTheirTest, Rounds, Polling, Dropped, NoServerSurvives
  <2> QED
    BY <2>1, <2>3, <2>4, <2>5
<1> QED
  BY <1>1, <1>2

\* A step of the poll loop touches no file and no server unless it restarts
\* one.  What is asked of a server changes only by its verdict.
LEMMA NextServerTypes ==
  ASSUME TypeOK, NextServer
  PROVE  at' \in Servers /\ pc' \in {"poll", "next"} /\ (pc' = "next" => Decided(done'))
BY ServersAssumption DEF NextServer, Goto, TypeOK, Servers

\* The worker goes from one server to the next, in a pass in which the verdict
\* of at most the current one has come in.
LEMMA PassIInv ==
  ASSUME IInv, Polling, NextServer, TypeOK', AnswersAreForTheirTest', UNCHANGED test,
         \A c \in Servers :
           /\ done[c] # NoVerdict => done'[c] = done[c]
           /\ IF done'[c] = NoVerdict THEN Busy(c)' ELSE Quiet(c)'
  PROVE  IInv'
<1>1. /\ at' \in Servers /\ pc' \in {"poll", "next"}
      /\ pc' = "next" => Decided(done')
  BY NextServerTypes DEF IInv
<1>2. Exchanges'
  BY <1>1 DEF Exchanges, Asked, Polling, Decided
<1>3. Prepared' /\ Rounds' /\ Dropped'
  BY <1>1 DEF IInv, Prepared, Rounds, Dropped, NoServerSurvives, Polling
<1> QED
  BY <1>2, <1>3 DEF IInv

\* The current server fails the test without an answer, and will be restarted.
LEMMA CondemnIInv ==
  ASSUME IInv, Polling, pc # "restart", done[at] = NoVerdict,
         done' = [done EXCEPT ![at] = Promise!Fail(Nothing)],
         pc' = "restart", at' = at,
         UNCHANGED <<data, signal, server, test, late>>
  PROVE  IInv'
<1>0. at \in Servers /\ ~over
  BY DEF IInv, TypeOK, Polling, over
<1>1. /\ done'[at] = Promise!Fail(Nothing) /\ done'[at] # NoVerdict
      /\ \A c \in Servers : c # at => done'[c] = done[c]
  BY <1>0, DocValues, VerdictValues DEF IInv, TypeOK
<1>2. TypeOK'
  BY <1>0, DocValues, VerdictValues DEF IInv, TypeOK, Verdict
<1>3. AnswersAreForTheirTest'
  BY <1>1 DEF IInv, AnswersAreForTheirTest, Promise!ProperVerdicts, Nothing
<1>4. Exchanges'
  BY <1>0, <1>1 DEF IInv, Exchanges, Asked, Condemned, Polling, Busy, Quiet
<1>5. Prepared' /\ Rounds' /\ Dropped'
  BY <1>1 DEF IInv, Prepared, Rounds, Polling, Dropped, NoServerSurvives
<1> QED
  BY <1>2, <1>3, <1>4, <1>5 DEF IInv

\* The worker looks at the same server more closely.
LEMMA SameServerIInv ==
  ASSUME IInv, Polling, pc # "restart", done[at] = NoVerdict,
         pc' \in {"read", "deadline"}, at' = at,
         UNCHANGED <<data, signal, server, test, done, late>>
  PROVE  IInv'
<1>1. TypeOK' /\ AnswersAreForTheirTest'
  BY DEF IInv, TypeOK, AnswersAreForTheirTest
<1>2. Exchanges'
  BY DEF IInv, Exchanges, over, Asked, Condemned, Polling, Busy, Quiet
<1>3. Prepared' /\ Rounds' /\ Dropped'
  BY DEF IInv, Prepared, Rounds, Polling, Dropped, NoServerSurvives
<1> QED
  BY <1>1, <1>2, <1>3 DEF IInv

LEMMA PollChildIInv == IInv /\ PollChild => IInv'
<1> SUFFICES ASSUME IInv, PollChild PROVE IInv'
  OBVIOUS
<1> USE DEF PollChild
<1>0. Polling /\ ~over /\ at \in Servers
  BY DEF Polling, over, IInv, TypeOK
<1>1. CASE done[at] # NoVerdict /\ UNCHANGED done /\ NextServer
  <2>1. TypeOK' /\ AnswersAreForTheirTest'
    BY <1>1, NextServerTypes DEF IInv, TypeOK, AnswersAreForTheirTest
  <2>2. ASSUME NEW c \in Servers
        PROVE  IF done'[c] = NoVerdict THEN Busy(c)' ELSE Quiet(c)'
    BY <1>0, <1>1 DEF IInv, Exchanges, Asked, Condemned, Busy, Quiet
  <2> QED
    BY <1>0, <1>1, <2>1, <2>2, PassIInv
<1>2. CASE /\ done[at] = NoVerdict /\ server[at].state = "dead"
           /\ done' = [done EXCEPT ![at] = Promise!Fail(Nothing)]
           /\ Goto("restart", at)
  BY <1>0, <1>2, CondemnIInv DEF Goto
<1>3. CASE /\ done[at] = NoVerdict /\ server[at].state # "dead"
           /\ UNCHANGED done /\ Goto("read", at)
  BY <1>0, <1>3, SameServerIInv DEF Goto
<1> QED
  BY <1>1, <1>2, <1>3

LEMMA ReadSignalIInv == IInv /\ ReadSignal => IInv'
<1> SUFFICES ASSUME IInv, ReadSignal PROVE IInv'
  OBVIOUS
<1> USE DEF ReadSignal
<1>0. Polling /\ ~over /\ at \in Servers /\ done[at] = NoVerdict
  BY DEF Polling, over, IInv, TypeOK, Rounds
<1>1. CASE /\ signal[at] \in {"OK", "FAIL"}
           /\ done' = [done EXCEPT ![at] = Reading(at)]
           /\ NextServer
  <2>1. Busy(at)
    BY <1>0 DEF IInv, Exchanges, Asked
  <2>2. /\ Reading(at) \in Promise!ProperVerdicts(test)
        /\ Reading(at) \in Verdict /\ Reading(at) # NoVerdict
    <3>1. data[at] \in Docs /\ test \in 0..MaxTests
      BY <1>0 DEF IInv, TypeOK
    <3>2. Doc("result", test) # Nothing
      BY DEF Doc, Promise!Doc, Nothing, Promise!Nothing
    <3>3. Reading(at) \in Promise!ProperVerdicts(test)
      BY <1>1, <2>1, <3>2 DEF Busy, Reading, Promise!ProperVerdicts, Doc
    <3>4. Reading(at) \in Verdict /\ Reading(at) # NoVerdict
      BY <3>1, VerdictValues DEF Reading
    <3> QED
      BY <3>3, <3>4
  <2>3. done'[at] = Reading(at) /\ \A c \in Servers : c # at => done'[c] = done[c]
    BY <1>0, <1>1 DEF IInv, TypeOK
  <2>4. TypeOK'
    BY <1>1, <2>2, NextServerTypes DEF IInv, TypeOK, Verdict
  <2>5. AnswersAreForTheirTest'
    BY <2>2, <2>3 DEF IInv, AnswersAreForTheirTest
  <2>6. ASSUME NEW c \in Servers
        PROVE  IF done'[c] = NoVerdict THEN Busy(c)' ELSE Quiet(c)'
    <3>1. CASE c = at
      BY <1>1, <2>1, <2>2, <2>3, <3>1 DEF Busy, Quiet
    <3>2. CASE c # at
      BY <1>0, <2>3, <3>2 DEF IInv, Exchanges, Asked, Condemned, Busy, Quiet
    <3> QED
      BY <3>1, <3>2
  <2> QED
    BY <1>0, <1>1, <2>3, <2>4, <2>5, <2>6, PassIInv
<1>2. CASE /\ signal[at] \notin {"OK", "FAIL"}
           /\ UNCHANGED done /\ Goto("deadline", at)
  BY <1>0, <1>2, SameServerIInv DEF Goto
<1> QED
  BY <1>1, <1>2

LEMMA CheckDeadlineIInv == IInv /\ CheckDeadline => IInv'
<1> SUFFICES ASSUME IInv, CheckDeadline PROVE IInv'
  OBVIOUS
<1> USE DEF CheckDeadline
<1>0. Polling /\ ~over /\ at \in Servers /\ done[at] = NoVerdict /\ pc # "restart"
  BY DEF Polling, over, IInv, TypeOK, Rounds
<1>1. CASE /\ late[at]
           /\ done' = [done EXCEPT ![at] = Promise!Fail(Nothing)]
           /\ Goto("restart", at)
  BY <1>0, <1>1, CondemnIInv DEF Goto
<1>2. CASE ~late[at] /\ UNCHANGED done /\ NextServer
  <2>1. TypeOK' /\ AnswersAreForTheirTest'
    BY <1>2, NextServerTypes DEF IInv, TypeOK, AnswersAreForTheirTest
  <2>2. ASSUME NEW c \in Servers
        PROVE  IF done'[c] = NoVerdict THEN Busy(c)' ELSE Quiet(c)'
    BY <1>0, <1>2 DEF IInv, Exchanges, Asked, Condemned, Busy, Quiet
  <2> QED
    BY <1>0, <1>2, <2>1, <2>2, PassIInv
<1> QED
  BY <1>1, <1>2

LEMMA RestartIInv == IInv /\ Restart => IInv'
<1> SUFFICES ASSUME IInv, Restart PROVE IInv'
  OBVIOUS
<1> USE DEF Restart
<1>0. Polling /\ ~over /\ at \in Servers /\ done[at] # NoVerdict
  BY DEF Polling, over, IInv, TypeOK, Rounds
<1>1. PICK state \in {"idle", "dead"} : StartChild(at, state)
  OBVIOUS
<1>2. TypeOK'
  <2>1. at' \in Servers /\ pc' \in {"poll", "next", "exit"}
    BY NextServerTypes, ServersAssumption DEF IInv, Leave, Goto, Servers
  <2> QED
    BY <1>1, <2>1, DocValues DEF IInv, TypeOK, StartChild, Becomes, Process
<1>3. CASE Leave
  BY <1>2, <1>3, LeavingIInv
<1>4. CASE StartChild(at, "idle") /\ NextServer
  <2>1. AnswersAreForTheirTest'
    BY DEF IInv, AnswersAreForTheirTest
  <2>2. ASSUME NEW c \in Servers
        PROVE  IF done'[c] = NoVerdict THEN Busy(c)' ELSE Quiet(c)'
    <3>1. CASE c = at
      BY <1>0, <1>4, <3>1 DEF IInv, TypeOK, StartChild, Becomes, Process, Quiet
    <3>2. CASE c # at
      <4>1. data'[c] = data[c] /\ signal'[c] = signal[c] /\ server'[c] = server[c]
        BY <1>4, <3>2 DEF IInv, TypeOK, StartChild, Becomes
      <4> QED
        BY <1>0, <3>2, <4>1 DEF IInv, Exchanges, Asked, Condemned, Busy, Quiet
    <3> QED
      BY <3>1, <3>2
  <2> QED
    BY <1>0, <1>2, <1>4, <2>1, <2>2, PassIInv
<1> QED
  BY <1>3, <1>4

-----------------------------------------------------------------------------
(* The theorems.                                                           *)

\* IInv is inductive.
LEMMA NextIInv == IInv /\ [Next]_vars => IInv'
<1> SUFFICES ASSUME IInv, [Next]_vars PROVE IInv'
  OBVIOUS
<1>1. CASE ServerStep
  BY <1>1, ServerStepIInv
<1>2. ASSUME NEW c \in Servers, Expire(c)
      PROVE  IInv'
  BY <1>2, ExpireIInv
<1>3. CASE Worker
  BY <1>3, SpawnIInv, DropIInv, BetweenTestsIInv, WriteTestIInv, WriteStartIInv,
     PollChildIInv, ReadSignalIInv, CheckDeadlineIInv, RestartIInv DEF Worker
<1>4. CASE UNCHANGED vars
  BY <1>4 DEF IInv, vars, TypeOK, AnswersAreForTheirTest, Exchanges, over, Asked,
     Condemned, Quiet, Busy, Polling, Prepared, Rounds, Decided, Dropped,
     NoServerSurvives, Alive
<1> QED
  BY <1>1, <1>2, <1>3, <1>4 DEF Next

LEMMA Invariance == Spec => []IInv
<1> QED
  BY InitIInv, NextIInv, PTL DEF Spec

\* The worker, its servers and their files keep their types, for any number of
\* servers and tests.
THEOREM TypeCorrect == Spec => []TypeOK
<1>1. IInv => TypeOK
  BY DEF IInv
<1> QED
  BY <1>1, Invariance, PTL

\* A verdict is for the test it is counted for (run_one).
THEOREM AnswersBelong == Spec => []AnswersAreForTheirTest
<1>1. IInv => AnswersAreForTheirTest
  BY DEF IInv
<1> QED
  BY <1>1, Invariance, PTL

\* No server works behind the worker's back (run_one, restart).
THEOREM ServersWorkOnlyWhenAwaited == Spec => []WorksOnlyWhenAwaited
<1>1. IInv => WorksOnlyWhenAwaited
  BY DEF IInv, Exchanges, WorksOnlyWhenAwaited, AwaitsAnswer, Asked, Condemned, Quiet
<1> QED
  BY <1>1, Invariance, PTL

\* A worker that has ended leaves no server (Drop for ClientServer).
THEOREM NoServerLeft == Spec => []NoServerSurvives
<1>1. IInv => NoServerSurvives
  BY DEF IInv, Dropped
<1> QED
  BY <1>1, Invariance, PTL

-----------------------------------------------------------------------------
(* Each step of the worker is a step of Verdicts, or no step of it.        *)

LEMMA StepSimulation == IInv /\ IInv' /\ [Next]_vars => [Promise!Next]_(Promise!vars)
<1> SUFFICES ASSUME IInv, IInv', [Next]_vars
             PROVE  Promise!Next \/ UNCHANGED <<test, done, over>>
  BY DEF Promise!vars
<1> USE DEF IInv
<1>1. ASSUME UNCHANGED <<test, done>>, ~over
      PROVE  Promise!GiveUp \/ UNCHANGED <<test, done, over>>
  BY <1>1 DEF Promise!GiveUp, over
<1>2. ASSUME NEW c \in Servers, done[c] = NoVerdict, UNCHANGED test, ~over, ~over',
             NEW v, done' = [done EXCEPT ![c] = v], v # NoVerdict, test > 0
      PROVE  Promise!Decide(c)
  <2>1. done'[c] = v
    BY <1>2 DEF TypeOK
  <2>2. v \in Promise!ProperVerdicts(test)
    BY <1>2, <2>1 DEF AnswersAreForTheirTest
  <2>3. UNCHANGED over
    BY <1>2 DEF over
  <2> QED
    BY <1>2, <2>2, <2>3 DEF Promise!Decide, NoVerdict
<1>3. CASE UNCHANGED <<test, done>> /\ (over => over')
  BY <1>1, <1>3 DEF Promise!Next, over
<1>4. CASE NextTest
  BY <1>4 DEF NextTest, Goto, Rounds, Decided, over, NoVerdict, Promise!NextTest,
     Promise!AllDecided, Promise!Next
<1>5. CASE PollChild \/ ReadSignal \/ CheckDeadline
  <2>1. at \in Servers /\ test > 0 /\ ~over /\ ~over'
    BY <1>5 DEF PollChild, ReadSignal, CheckDeadline, NextServer, Goto, over, TypeOK,
       Rounds, Polling
  <2>2. Promise!Fail(Nothing) # NoVerdict /\ Reading(at) # NoVerdict
    BY <2>1, DocValues, VerdictValues DEF Reading, TypeOK
  <2>3. CASE UNCHANGED done
    BY <1>3, <1>5, <2>1, <2>3 DEF PollChild, ReadSignal, CheckDeadline
  <2>4. CASE ~UNCHANGED done
    <3>1. PICK v \in {Promise!Fail(Nothing), Reading(at)} : done' = [done EXCEPT ![at] = v]
      BY <1>5, <2>4 DEF PollChild, ReadSignal, CheckDeadline
    <3>2. done[at] = NoVerdict /\ UNCHANGED test
      BY <1>5, <2>4 DEF PollChild, ReadSignal, CheckDeadline, Rounds
    <3> QED
      BY <1>2, <2>1, <2>2, <3>1, <3>2 DEF Promise!Next
  <2> QED
    BY <2>3, <2>4
<1>6. CASE ServerStep \/ (\E c \in Servers : Expire(c)) \/ UNCHANGED vars
  BY <1>3, <1>6 DEF ServerStep, Expire, vars, over
<1>7. CASE \/ Spawn \/ SendExit \/ SkipUnborn \/ Reap
           \/ LeaveLoop \/ WriteTest \/ WriteStart \/ Restart
  BY <1>3, <1>7 DEF Spawn, SendExit, SkipUnborn, Reap, LeaveLoop, WriteTest, WriteStart,
     Restart, Leave, Goto, NextDrop, over
<1> QED
  BY <1>4, <1>5, <1>6, <1>7 DEF Next, Worker

\* Whatever its servers do, the worker gives exactly one proper verdict per
\* test and server, and takes the tests in turn: the safety of Verdicts.
THEOREM PromiseIsSafe == Spec => Promise!Safety
<1>1. Init => Promise!Init
  BY DEF Init, Promise!Init, over, NoVerdict
<1>2. IInv /\ IInv' /\ [Next]_vars => [Promise!Next]_(Promise!vars)
  BY StepSimulation
<1> QED
  BY <1>1, <1>2, Invariance, PTL DEF Spec, Promise!Safety
=============================================================================
