------------------------------ MODULE Verdicts ------------------------------
(***************************************************************************)
(* What a worker of the fuzzer promises, whatever its clients do: tests    *)
(* come one after another, each client gets exactly one verdict per test,  *)
(* an answer that is part of a verdict was given to that very test, no     *)
(* test starts before the last one has all its verdicts, and a test        *)
(* has them all in the end unless the worker gives up.                     *)
(***************************************************************************)
EXTENDS Naturals

CONSTANTS
  Clients,   \* the client servers of one worker
  MaxTests   \* bound: tests a worker runs, a natural number

VARIABLES
  test,      \* number of the current test, 0 before the first
  verdict,   \* per client, what came out of the current test
  over       \* the worker has left its loop

vars == <<test, verdict, over>>

\* A file's content, abstractly: a test, the result or the error message a
\* client wrote for one, or nothing.
Doc(kind, t) == [kind |-> kind, test |-> t]
Nothing == Doc("none", 0)

\* ClientResult: what the client said, if it said anything.
Ok(doc) == [kind |-> "ok", doc |-> doc]
Fail(doc) == [kind |-> "fail", doc |-> doc]
NoVerdict == [kind |-> "pending", doc |-> Nothing]

ProperVerdicts(t) == {Ok(Doc("result", t)), Fail(Doc("error", t)), Fail(Nothing)}

AllDecided == \A c \in Clients : verdict[c] # NoVerdict

Init == test = 0 /\ verdict = [c \in Clients |-> NoVerdict] /\ over = FALSE

NextTest ==
  /\ ~over /\ test < MaxTests
  /\ test = 0 \/ AllDecided
  /\ test' = test + 1
  /\ verdict' = [c \in Clients |-> NoVerdict]
  /\ UNCHANGED over

Decide(c) ==
  /\ ~over /\ test > 0 /\ verdict[c] = NoVerdict
  /\ \E v \in ProperVerdicts(test) : verdict' = [verdict EXCEPT ![c] = v]
  /\ UNCHANGED <<test, over>>

GiveUp == ~over /\ over' = TRUE /\ UNCHANGED <<test, verdict>>

Next == NextTest \/ GiveUp \/ \E c \in Clients : Decide(c)

Safety == Init /\ [][Next]_vars

\* Every client's verdict is due as long as the worker goes on.
Spec == Safety /\ \A c \in Clients : WF_vars(Decide(c))
=============================================================================
