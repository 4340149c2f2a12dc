----------------------------- MODULE FuzzProofs -----------------------------
(***************************************************************************)
(* Theorems about Fuzz, for any number of workers and any limits: no test  *)
(* is run twice, and a run that returns Ok has tested every iteration.     *)
(*                                                                         *)
(* The idea: an iteration that has been claimed is tested, or some worker  *)
(* that is about to test it or has failed still has it.  A worker that has *)
(* failed is found by its join, so that in a run that returns Ok there is  *)
(* none; nobody then raised the stop flag, so every worker met the limit.  *)
(***************************************************************************)
EXTENDS Fuzz, FiniteSetTheorems, TLAPS

Typed ==
  /\ next_iter \in Nat /\ completed \in Nat
  /\ cli \in [count : Counts, bail : BOOLEAN]
  /\ stop \in BOOLEAN
  /\ pc \in [Workers -> {"begin", "check", "claim", "generate", "complete",
       "tally", "report", "failing", "ok", "error", "panicked"}]
  /\ iter \in [Workers -> Nat]
  /\ joined \in 0..Cores
  /\ first_error \in {"none", "error", "panicked"}
  /\ tested \subseteq Nat /\ IsFiniteSet(tested)

Asked(i) == i < next_iter /\ (cli.count > 0 => i < cli.count)

\* A test about to be run is claimed, by one worker, and new.
Fresh ==
  /\ \A w \in Workers : pc[w] = "generate" => Asked(iter[w]) /\ iter[w] \notin tested
  /\ \A v, w \in Workers :
       pc[v] = "generate" /\ pc[w] = "generate" /\ iter[v] = iter[w] => v = w
  /\ \A i \in tested : Asked(i)

Holds(w, i) ==
  iter[w] = i /\ pc[w] \in {"generate", "failing", "error", "panicked"}

Accounted == \A i \in Nat : Asked(i) => i \in tested \/ \E w \in Workers : Holds(w, i)

\* Only a worker that fails raises the flag; without it, workers end at the limit.
Stopped ==
  /\ stop => \E w \in Workers : pc[w] \in {"failing", "error"}
  /\ \A w \in Workers : pc[w] = "ok" => stop \/ LimitReached

Joined ==
  \A w \in Workers : w <= joined =>
    /\ pc[w] \in {"ok", "error", "panicked"}
    /\ first_error = "none" => pc[w] = "ok"

Completing == {w \in Workers : pc[w] = "complete"}

Counted == completed + Cardinality(Completing) = Cardinality(tested)

IInv == Typed /\ Fresh /\ Accounted /\ Stopped /\ Joined /\ Counted

-----------------------------------------------------------------------------
(* The invariant is inductive.                                             *)

LEMMA InitIInv == Init => IInv
<1> SUFFICES ASSUME Init PROVE IInv
  OBVIOUS
<1> USE DEF Init
<1>1. Typed
  <2>1. Cores \in Nat /\ joined \in 0..Cores
    BY FuzzAssumption DEF FuzzAssumption
  <2>2. tested \subseteq Nat /\ IsFiniteSet(tested)
    BY FS_EmptySet
  <2>3. iter \in [Workers -> Nat]
    OBVIOUS
  <2> QED
    BY <2>1, <2>2, <2>3 DEF Typed
<1>2. Fresh /\ Accounted /\ Stopped /\ Joined
  BY DEF Fresh, Accounted, Asked, Stopped, Joined, Workers
<1>3. Counted
  <2>1. Completing = {}
    BY DEF Completing
  <2> QED
    BY <2>1, FS_EmptySet DEF Counted
<1> QED
  BY <1>1, <1>2, <1>3 DEF IInv

LEMMA FiniteWorkers == \A S : S \subseteq Workers => IsFiniteSet(S)
<1>1. IsFiniteSet(Workers)
  BY FuzzAssumption, FS_Interval DEF FuzzAssumption, Workers
<1> QED
  BY <1>1, FS_Subset

LEMMA Moves ==
  ASSUME Typed, NEW w \in Workers, NEW from, NEW to, Goto(w, from, to)
  PROVE  /\ pc[w] = from /\ pc'[w] = to
         /\ \A v \in Workers : v # w => pc'[v] = pc[v]
BY DEF Typed, Goto

LEMMA Uncounted ==
  ASSUME Counted, UNCHANGED <<completed, tested>>,
         \A v \in Workers : pc'[v] = "complete" <=> pc[v] = "complete"
  PROVE  Counted'
<1>1. Completing' = Completing
  BY DEF Completing
<1> QED
  BY <1>1 DEF Counted

\* A worker goes on without a claim or a result.
LEMMA PlainStep ==
  ASSUME IInv, NEW w \in Workers,
         NEW from \in {"begin", "check", "generate", "tally", "report", "failing"},
         NEW to \in {"check", "claim", "report", "failing", "ok", "error", "panicked"},
         Goto(w, from, to),
         from = "generate" => to \in {"failing", "panicked"},
         from = "failing" => to = "error",
         to = "ok" => stop,
         stop' \in BOOLEAN, stop => stop',
         stop' # stop => to \in {"failing", "error"},
         UNCHANGED <<next_iter, completed, cli, iter, joined, first_error, tested>>
  PROVE  IInv'
<1>1. /\ pc[w] = from /\ pc'[w] = to
      /\ \A v \in Workers : v # w => pc'[v] = pc[v]
  BY Moves DEF IInv
<1>2. Typed'
  BY DEF IInv, Typed, Goto
<1>3. Fresh'
  BY <1>1 DEF IInv, Fresh, Asked
<1>4. Accounted'
  <2>1. ASSUME NEW i \in Nat, NEW v \in Workers, Holds(v, i) PROVE Holds(v, i)'
    BY <1>1, <2>1 DEF Holds
  <2> QED
    BY <2>1 DEF IInv, Accounted, Asked
<1>5. Stopped'
  <2>1. stop' => \E v \in Workers : pc'[v] \in {"failing", "error"}
    BY <1>1 DEF IInv, Stopped, Typed
  <2>2. ASSUME NEW v \in Workers, pc'[v] = "ok" PROVE stop' \/ LimitReached'
    BY <1>1, <2>2 DEF IInv, Stopped, LimitReached
  <2> QED
    BY <2>1, <2>2 DEF Stopped
<1>6. Joined'
  BY <1>1 DEF IInv, Joined
<1>7. Counted'
  BY <1>1, Uncounted DEF IInv
<1> QED
  BY <1>2, <1>3, <1>4, <1>5, <1>6, <1>7 DEF IInv

LEMMA ClaimIInv ==
  ASSUME IInv, NEW w \in Workers, Claim(w)
  PROVE  IInv'
<1> DEFINE to == IF LimitReached THEN "ok" ELSE "generate"
<1>0. /\ pc[w] = "claim" /\ pc'[w] = to /\ iter'[w] = next_iter /\ next_iter' = next_iter + 1
      /\ \A v \in Workers : v # w => pc'[v] = pc[v] /\ iter'[v] = iter[v]
      /\ UNCHANGED <<completed, stop, cli, joined, first_error, tested>>
  BY Moves DEF IInv, Claim, rest, Typed
<1>t. /\ next_iter \in Nat /\ cli.count \in Nat /\ iter \in [Workers -> Nat]
      /\ tested \subseteq Nat
  BY FuzzAssumption DEF IInv, Typed, FuzzAssumption
<1>1. Typed'
  BY DEF IInv, Typed, Claim, Goto, rest
<1>2. ASSUME NEW i \in Nat PROVE Asked(i) => Asked(i)'
  BY <1>0, <1>t DEF Asked
<1>3. ASSUME NEW i \in Nat, Asked(i)', ~Asked(i) PROVE i = next_iter /\ to = "generate"
  BY <1>0, <1>t, <1>3 DEF Asked, LimitReached
<1>4. Fresh'
  <2>1. ASSUME pc'[w] = "generate", NEW i \in Nat, i = next_iter
        PROVE  Asked(i)' /\ i \notin tested
    <3>1. ~LimitReached /\ ~Asked(i)
      BY <1>0, <1>t, <2>1 DEF Asked
    <3>2. Asked(i)'
      BY <1>0, <1>t, <2>1, <3>1 DEF Asked, LimitReached
    <3> QED
      BY <3>1, <3>2 DEF IInv, Fresh
  <2>2. ASSUME NEW v \in Workers, v # w, pc'[v] = "generate"
        PROVE  Asked(iter[v]) /\ iter[v] \notin tested /\ iter[v] # next_iter
    BY <1>0, <1>t, <2>2 DEF IInv, Fresh, Asked
  <2>3. \A i \in tested' : Asked(i)'
    BY <1>0, <1>t, <1>2 DEF IInv, Fresh
  <2>4. ASSUME NEW v \in Workers, pc'[v] = "generate"
        PROVE  Asked(iter[v])' /\ iter'[v] \notin tested'
    <3>1. ASSUME NEW i \in Nat, i = iter'[v]
          PROVE  Asked(i)' /\ i \notin tested
      BY <1>0, <1>2, <2>1, <2>2, <2>4, <3>1
    <3>2. iter'[v] \in Nat
      BY <1>1 DEF Typed
    <3>3. \A i \in Nat : i = iter'[v] => Asked(i)' /\ i \notin tested
      BY <3>1
    <3> QED
      BY <1>0, <3>2, <3>3 DEF Asked
  <2>5. \A u, v \in Workers :
          pc'[u] = "generate" /\ pc'[v] = "generate" /\ iter'[u] = iter'[v] => u = v
    BY <1>0, <2>2 DEF IInv, Fresh
  <2> QED
    BY <2>3, <2>4, <2>5 DEF Fresh
<1>5. Accounted'
  <2> SUFFICES ASSUME NEW i \in Nat, Asked(i)'
               PROVE  i \in tested' \/ \E v \in Workers : Holds(v, i)'
    BY DEF Accounted
  <2>1. CASE Asked(i)
    <3>1. ASSUME NEW v \in Workers, Holds(v, i) PROVE Holds(v, i)'
      BY <1>0, <3>1 DEF Holds
    <3> QED
      BY <1>0, <2>1, <3>1 DEF IInv, Accounted
  <2>2. CASE ~Asked(i)
    BY <1>0, <1>3, <2>2 DEF Holds
  <2> QED
    BY <2>1, <2>2
<1>6. Stopped'
  <2>1. stop' => \E v \in Workers : pc'[v] \in {"failing", "error"}
    BY <1>0 DEF IInv, Stopped
  <2>2. LimitReached => LimitReached'
    BY <1>0, <1>t DEF LimitReached
  <2>3. \A v \in Workers : pc'[v] = "ok" => stop' \/ LimitReached'
    BY <1>0, <2>2 DEF IInv, Stopped
  <2> QED
    BY <2>1, <2>3 DEF Stopped
<1>7. Joined'
  BY <1>0 DEF IInv, Joined
<1>8. Counted'
  BY <1>0, Uncounted DEF IInv
<1> QED
  BY <1>1, <1>4, <1>5, <1>6, <1>7, <1>8 DEF IInv

\* A test has run: the set grows by one, and so do the workers that have yet to
\* count it.
LEMMA TestedIInv ==
  ASSUME IInv, NEW w \in Workers, Goto(w, "generate", "complete"),
         tested' = tested \union {iter[w]},
         UNCHANGED <<shared, iter, rest>>
  PROVE  IInv'
<1>0. /\ pc[w] = "generate" /\ pc'[w] = "complete"
      /\ \A v \in Workers : v # w => pc'[v] = pc[v]
      /\ UNCHANGED <<next_iter, completed, cli, stop, iter, joined, first_error>>
  BY Moves DEF IInv, shared, rest
<1>1. Typed'
  <2>1. IsFiniteSet(tested') /\ iter[w] \in Nat
    BY FS_AddElement DEF IInv, Typed
  <2> QED
    BY <1>0, <2>1 DEF IInv, Typed, Goto
<1>2. Fresh'
  BY <1>0 DEF IInv, Fresh, Asked
<1>3. Accounted'
  BY <1>0 DEF IInv, Accounted, Asked, Holds
<1>4. Stopped'
  <2>1. stop' => \E v \in Workers : pc'[v] \in {"failing", "error"}
    BY <1>0 DEF IInv, Stopped
  <2> QED
    BY <1>0, <2>1 DEF IInv, Stopped, LimitReached
<1>5. Joined'
  BY <1>0 DEF IInv, Joined
<1>6. Counted'
  <2>1. Completing' = Completing \union {w} /\ w \notin Completing
    BY <1>0 DEF Completing
  <2>2. Cardinality(Completing') = Cardinality(Completing) + 1
    BY <2>1, FiniteWorkers, FS_AddElement DEF Completing
  <2>3. Cardinality(tested') = Cardinality(tested) + 1
    BY <1>0, FS_AddElement DEF IInv, Typed, Fresh
  <2>4. Cardinality(Completing) \in Nat /\ completed \in Nat
    BY FiniteWorkers, FS_CardinalityType DEF Completing, IInv, Typed
  <2> QED
    BY <1>0, <2>2, <2>3, <2>4 DEF IInv, Counted
<1> QED
  BY <1>1, <1>2, <1>3, <1>4, <1>5, <1>6 DEF IInv

LEMMA CompleteIInv ==
  ASSUME IInv, NEW w \in Workers, Complete(w)
  PROVE  IInv'
<1>0. /\ pc[w] = "complete" /\ pc'[w] \in {"check", "tally"}
      /\ \A v \in Workers : v # w => pc'[v] = pc[v]
      /\ UNCHANGED <<next_iter, cli, stop, iter, joined, first_error, tested>>
      /\ completed' = completed + 1
  BY Moves DEF IInv, Complete, rest
<1>1. Typed'
  BY DEF IInv, Typed, Complete, Goto, rest
<1>2. Fresh'
  BY <1>0 DEF IInv, Fresh, Asked
<1>3. Accounted'
  <2>1. ASSUME NEW i \in Nat, NEW v \in Workers, Holds(v, i) PROVE Holds(v, i)'
    BY <1>0, <2>1 DEF Holds
  <2> QED
    BY <1>0, <2>1 DEF IInv, Accounted, Asked
<1>4. Stopped'
  <2>1. stop' => \E v \in Workers : pc'[v] \in {"failing", "error"}
    BY <1>0 DEF IInv, Stopped
  <2> QED
    BY <1>0, <2>1 DEF IInv, Stopped, LimitReached
<1>5. Joined'
  BY <1>0 DEF IInv, Joined
<1>6. Counted'
  <2>1. Completing' = Completing \ {w} /\ w \in Completing
    BY <1>0 DEF Completing
  <2>2. Cardinality(Completing') = Cardinality(Completing) - 1
    BY <2>1, FiniteWorkers, FS_RemoveElement DEF Completing
  <2>4. Cardinality(Completing) \in Nat /\ completed \in Nat
    BY FiniteWorkers, FS_CardinalityType DEF Completing, IInv, Typed
  <2> QED
    BY <1>0, <2>2, <2>4 DEF IInv, Counted
<1> QED
  BY <1>1, <1>2, <1>3, <1>4, <1>5, <1>6 DEF IInv

LEMMA JoinIInv == IInv /\ Join => IInv'
<1> SUFFICES ASSUME IInv, Join PROVE IInv'
  OBVIOUS
<1>0. /\ joined + 1 \in Workers /\ pc[joined + 1] \in {"ok", "error", "panicked"}
      /\ joined' = joined + 1
      /\ first_error' = IF first_error = "none" THEN ErrorOf(pc[joined + 1]) ELSE first_error
      /\ UNCHANGED <<next_iter, completed, cli, stop, pc, iter, tested>>
  BY DEF Join, shared
<1>1. Typed'
  <2>1. first_error' \in {"none", "error", "panicked"}
    BY <1>0 DEF IInv, Typed, ErrorOf
  <2>2. joined' \in 0..Cores
    BY <1>0, FuzzAssumption DEF IInv, Typed, Workers, FuzzAssumption
  <2> QED
    BY <1>0, <2>1, <2>2 DEF IInv, Typed
<1>2. Fresh' /\ Accounted' /\ Stopped'
  BY <1>0 DEF IInv, Fresh, Accounted, Asked, Holds, Stopped, LimitReached
<1>3. Joined'
  <2> SUFFICES ASSUME NEW w \in Workers, w <= joined'
               PROVE  /\ pc'[w] \in {"ok", "error", "panicked"}
                      /\ first_error' = "none" => pc'[w] = "ok"
    BY DEF Joined
  <2>1. first_error' = "none" => first_error = "none" /\ pc[joined + 1] = "ok"
    BY <1>0 DEF ErrorOf
  <2>2. w <= joined \/ w = joined + 1
    BY <1>0, FuzzAssumption DEF IInv, Typed, Workers, FuzzAssumption
  <2> QED
    BY <1>0, <2>1, <2>2 DEF IInv, Joined
<1>4. Counted'
  BY <1>0, Uncounted DEF IInv
<1> QED
  BY <1>1, <1>2, <1>3, <1>4 DEF IInv

LEMMA NextIInv == IInv /\ [Next]_vars => IInv'
<1> SUFFICES ASSUME IInv, [Next]_vars PROVE IInv'
  OBVIOUS
<1>1. CASE Join
  BY <1>1, JoinIInv
<1>2. ASSUME NEW w \in Workers, Iteration(w) PROVE IInv'
  <2>t. stop \in BOOLEAN
    BY DEF IInv, Typed
  <2>1. CASE Begin(w)
    BY <2>1, <2>t, PlainStep DEF Begin, shared, rest
  <2>2. CASE CheckStop(w)
    <3>1. CASE stop
      <4>1. Goto(w, "check", "ok")
        BY <2>2, <3>1 DEF CheckStop
      <4> QED
        BY <2>2, <2>t, <3>1, <4>1, PlainStep DEF CheckStop, shared, rest
    <3>2. CASE ~stop
      <4>1. Goto(w, "check", "claim")
        BY <2>2, <3>2 DEF CheckStop
      <4> QED
        BY <2>2, <2>t, <4>1, PlainStep DEF CheckStop, shared, rest
    <3> QED
      BY <3>1, <3>2
  <2>3. CASE Claim(w)
    BY <2>3, ClaimIInv
  <2>4. CASE Panic(w)
    BY <2>4, <2>t, PlainStep DEF Panic, shared, rest
  <2>5. CASE RunOne(w)
    <3>1. CASE Goto(w, "generate", "failing") /\ UNCHANGED <<outcome, tested>>
      BY <2>5, <2>t, <3>1, PlainStep DEF RunOne, shared, rest
    <3>2. CASE Goto(w, "generate", "complete") /\ tested' = tested \union {iter[w]}
      BY <2>5, <3>2, TestedIInv DEF RunOne
    <3> QED
      BY <2>5, <3>1, <3>2 DEF RunOne
  <2>6. CASE Complete(w)
    BY <2>6, CompleteIInv
  <2>7. CASE Tally(w)
    BY <2>7, <2>t, PlainStep DEF Tally, rest
  <2>8. CASE Report(w)
    <3>1. CASE Goto(w, "report", "failing") /\ (UNCHANGED stop \/ stop' = TRUE)
      <4>1. stop' \in BOOLEAN /\ (stop => stop')
        <5>1. CASE UNCHANGED stop
          BY <2>t, <5>1
        <5>2. CASE stop' = TRUE
          BY <5>2
        <5> QED
          BY <3>1, <5>1, <5>2
      <4>2. UNCHANGED <<next_iter, completed, cli, iter, joined, first_error, tested>>
        BY <2>8 DEF Report, rest
      <4> QED
        BY <3>1, <4>1, <4>2, PlainStep
    <3>2. CASE Goto(w, "report", "check") /\ UNCHANGED stop
      BY <2>8, <2>t, <3>2, PlainStep DEF Report, rest
    <3> QED
      BY <2>8, <3>1, <3>2 DEF Report
  <2>9. CASE RaiseStop(w)
    BY <2>9, PlainStep DEF RaiseStop, rest
  <2> QED
    BY <1>2, <2>1, <2>2, <2>3, <2>4, <2>5, <2>6, <2>7, <2>8, <2>9 DEF Iteration
<1>3. CASE UNCHANGED vars
  <2> USE <1>3 DEF vars, shared
  <2>1. Counted'
    BY Uncounted DEF IInv
  <2> QED
    BY <2>1 DEF IInv, Typed, Fresh, Accounted, Asked, Holds, Stopped, LimitReached, Joined
<1> QED
  BY <1>1, <1>2, <1>3 DEF Next

LEMMA Invariance == Spec => []IInv
<1> QED
  BY InitIInv, NextIInv, PTL DEF Spec

-----------------------------------------------------------------------------
(* How far the counters go: a claim beyond --count ends its worker, and a  *)
(* worker that has completed a test tallies it once.                       *)

At(place) == {w \in Workers : pc[w] = place}

Bounds ==
  /\ cli.count > 0 => next_iter <= cli.count + Cardinality(At("ok"))
  /\ \A w \in Workers : iter[w] <= next_iter
  /\ mismatches \in Nat /\ fails \in Nat
  /\ mismatches + fails + Cardinality(At("tally")) <= completed
  /\ outcome \in [Workers -> {"match", "mismatch", "fail"}]

LEMMA AtSizes ==
  /\ \A place : Cardinality(At(place)) \in Nat
  /\ \A place : Cardinality(At(place)) <= Cores
  /\ Cores \in Nat \ {0} /\ \A count \in Counts : count \in Nat
<1>1. Cores \in Nat \ {0} /\ \A count \in Counts : count \in Nat
  BY FuzzAssumption DEF FuzzAssumption
<1>2. IsFiniteSet(Workers) /\ Cardinality(Workers) = Cores
  BY <1>1, FS_Interval DEF Workers
<1>3. ASSUME NEW place
      PROVE  Cardinality(At(place)) \in Nat /\ Cardinality(At(place)) <= Cores
  <2>1. At(place) \subseteq Workers
    BY DEF At
  <2> QED
    BY <1>2, <2>1, FS_Subset, FS_CardinalityType
<1> QED
  BY <1>1, <1>3

\* One worker moves.
LEMMA AtMoves ==
  ASSUME Typed, NEW w \in Workers, NEW from, NEW to, from # to, Goto(w, from, to)
  PROVE  /\ \A place : place # from /\ place # to
                         => Cardinality(At(place))' = Cardinality(At(place))
         /\ Cardinality(At(from))' = Cardinality(At(from)) - 1
         /\ Cardinality(At(to))' = Cardinality(At(to)) + 1
<1>1. /\ pc[w] = from /\ pc'[w] = to
      /\ \A v \in Workers : v # w => pc'[v] = pc[v]
  BY Moves
<1>2. ASSUME NEW place, place # from, place # to
      PROVE  Cardinality(At(place))' = Cardinality(At(place))
  <2>1. At(place)' = At(place)
    BY <1>1, <1>2 DEF At
  <2> QED
    BY <2>1
<1>3. Cardinality(At(from))' = Cardinality(At(from)) - 1
  <2>1. At(from)' = At(from) \ {w} /\ w \in At(from)
    BY <1>1 DEF At
  <2>2. IsFiniteSet(At(from))
    BY FiniteWorkers DEF At
  <2> QED
    BY <2>1, <2>2, FS_RemoveElement
<1>4. Cardinality(At(to))' = Cardinality(At(to)) + 1
  <2>1. At(to)' = At(to) \cup {w} /\ w \notin At(to)
    BY <1>1 DEF At
  <2>2. IsFiniteSet(At(to))
    BY FiniteWorkers DEF At
  <2> QED
    BY <2>1, <2>2, FS_AddElement
<1> QED
  BY <1>2, <1>3, <1>4

\* A step that neither claims nor counts; it may end its worker.
LEMMA PlainBounds ==
  ASSUME IInv, Bounds, NEW w \in Workers, NEW from, NEW to, from # to,
         from \notin {"ok", "tally"}, to # "tally", Goto(w, from, to),
         UNCHANGED <<cli, next_iter, completed, mismatches, fails, iter>>,
         outcome' \in [Workers -> {"match", "mismatch", "fail"}]
  PROVE  Bounds'
<1> DEFINE c == Cardinality(At("ok"))
<1>1. c' \in {c, c + 1} /\ Cardinality(At("tally"))' = Cardinality(At("tally"))
  <2>1. CASE to = "ok"
    BY <2>1, AtMoves DEF IInv
  <2>2. CASE to # "ok"
    BY <2>2, AtMoves DEF IInv
  <2> QED
    BY <2>1, <2>2
<1>2. c \in Nat /\ next_iter \in Nat /\ (cli.count > 0 => next_iter <= cli.count + c)
  BY AtSizes DEF IInv, Typed, Bounds
<1>3. cli.count \in Nat
  BY AtSizes DEF IInv, Typed
<1> HIDE DEF c
<1>4. cli'.count > 0 => next_iter' <= cli'.count + c'
  BY <1>1, <1>2, <1>3
<1> QED
  BY <1>1, <1>4 DEF Bounds, c

\* A claim below the limit stays within it; one at the limit ends the worker.
LEMMA ClaimBounds ==
  ASSUME IInv, Bounds, NEW w \in Workers, Claim(w)
  PROVE  Bounds'
<1> DEFINE c == Cardinality(At("ok"))
<1>1. /\ next_iter' = next_iter + 1 /\ iter' = [iter EXCEPT ![w] = next_iter]
      /\ UNCHANGED <<cli, completed, mismatches, fails, outcome>>
  BY DEF Claim, rest
<1>2. /\ c \in Nat /\ next_iter \in Nat /\ iter \in [Workers -> Nat] /\ cli.count \in Nat
      /\ cli.count > 0 => next_iter <= cli.count + c
  BY AtSizes DEF IInv, Typed, Bounds
<1>3. /\ Cardinality(At("tally"))' = Cardinality(At("tally"))
      /\ cli'.count > 0 => next_iter' <= cli'.count + c'
  <2>1. CASE LimitReached
    <3>1. Goto(w, "claim", "ok")
      BY <2>1 DEF Claim
    <3>2. c' = c + 1 /\ Cardinality(At("tally"))' = Cardinality(At("tally"))
      BY <3>1, AtMoves DEF IInv
    <3> HIDE DEF c
    <3> QED
      BY <1>1, <1>2, <3>2
  <2>2. CASE ~LimitReached
    <3>1. Goto(w, "claim", "generate")
      BY <2>2 DEF Claim
    <3>2. c' = c /\ Cardinality(At("tally"))' = Cardinality(At("tally"))
      BY <3>1, AtMoves DEF IInv
    <3>3. cli.count > 0 => next_iter < cli.count
      BY <1>2, <2>2 DEF LimitReached
    <3> HIDE DEF c
    <3> QED
      BY <1>1, <1>2, <3>2, <3>3
  <2> QED
    BY <2>1, <2>2
<1>4. \A v \in Workers : iter'[v] <= next_iter'
  BY <1>1, <1>2 DEF Bounds
<1> QED
  BY <1>1, <1>3, <1>4 DEF Bounds

LEMMA CompleteBounds ==
  ASSUME IInv, Bounds, NEW w \in Workers, Complete(w)
  PROVE  Bounds'
<1> DEFINE to == IF outcome[w] = "match" THEN "check" ELSE "tally"
           t == Cardinality(At("tally"))
<1>1. /\ Goto(w, "complete", to) /\ to # "complete" /\ to # "ok"
      /\ completed' = completed + 1
      /\ UNCHANGED <<cli, next_iter, mismatches, fails, iter, outcome>>
  BY DEF Complete, rest
<1>2. /\ Cardinality(At("ok"))' = Cardinality(At("ok"))
      /\ t' \in {t, t + 1}
  <2>1. CASE to = "tally"
    BY <1>1, <2>1, AtMoves DEF IInv
  <2>2. CASE to # "tally"
    <3> HIDE DEF to
    <3>1. /\ Cardinality(At("ok"))' = Cardinality(At("ok"))
          /\ Cardinality(At("tally"))' = Cardinality(At("tally"))
      BY <1>1, <2>2, AtMoves DEF IInv
    <3> QED
      BY <3>1
  <2> QED
    BY <2>1, <2>2
<1>3. /\ t \in Nat /\ completed \in Nat /\ mismatches \in Nat /\ fails \in Nat
      /\ mismatches + fails + t <= completed
  BY AtSizes DEF IInv, Typed, Bounds
<1> HIDE DEF t, to
<1>4. mismatches' + fails' + t' <= completed'
  <2>1. mismatches + fails + (t + 1) <= completed + 1
    BY <1>3
  <2>2. t' = t \/ t' = t + 1
    BY <1>2
  <2>3. mismatches' = mismatches /\ fails' = fails /\ completed' = completed + 1
    BY <1>1
  <2>4. mismatches + fails + t <= completed + 1
    BY <1>3
  <2> QED
    BY <2>1, <2>2, <2>3, <2>4
<1>5. cli'.count > 0 => next_iter' <= cli'.count + Cardinality(At("ok"))'
  BY <1>1, <1>2 DEF Bounds
<1>6. /\ \A v \in Workers : iter'[v] <= next_iter'
      /\ outcome' \in [Workers -> {"match", "mismatch", "fail"}]
  BY <1>1 DEF Bounds
<1>7. mismatches' \in Nat /\ fails' \in Nat
  BY <1>1, <1>3
<1> QED
  BY <1>4, <1>5, <1>6, <1>7 DEF Bounds, t

LEMMA TallyBounds ==
  ASSUME IInv, Bounds, NEW w \in Workers, Tally(w)
  PROVE  Bounds'
<1> DEFINE t == Cardinality(At("tally"))
<1>1. /\ Goto(w, "tally", "report")
      /\ \/ fails' = fails + 1 /\ mismatches' = mismatches
         \/ fails' = fails /\ mismatches' = mismatches + 1
      /\ UNCHANGED <<cli, next_iter, completed, iter, outcome>>
  BY DEF Tally, rest
<1>2. Cardinality(At("ok"))' = Cardinality(At("ok")) /\ t' = t - 1
  BY <1>1, AtMoves DEF IInv
<1>3. /\ t \in Nat /\ completed \in Nat /\ mismatches \in Nat /\ fails \in Nat
      /\ mismatches + fails + t <= completed
  BY AtSizes DEF IInv, Typed, Bounds
<1> HIDE DEF t
<1>4. /\ mismatches' \in Nat /\ fails' \in Nat
      /\ mismatches' + fails' + t' <= completed'
  BY <1>1, <1>2, <1>3
<1> QED
  BY <1>1, <1>2, <1>4 DEF Bounds, t

LEMMA InitBounds == Init => Bounds
<1> SUFFICES ASSUME Init PROVE Bounds
  OBVIOUS
<1>1. \A place : place # "begin" => At(place) = {}
  BY DEF Init, At
<1>2. Cardinality(At("ok")) = 0 /\ Cardinality(At("tally")) = 0
  BY <1>1, FS_EmptySet
<1>3. cli.count \in Nat
  BY AtSizes DEF Init
<1> QED
  BY <1>2, <1>3 DEF Init, Bounds

LEMMA NextBounds == IInv /\ Bounds /\ [Next]_vars => Bounds'
<1> SUFFICES ASSUME IInv, Bounds, [Next]_vars PROVE Bounds'
  OBVIOUS
<1>o. outcome \in [Workers -> {"match", "mismatch", "fail"}]
  BY DEF Bounds
<1>1. CASE Join \/ UNCHANGED vars
  <2>1. UNCHANGED <<cli, next_iter, completed, mismatches, fails, iter, outcome, pc>>
    BY <1>1 DEF Join, vars, shared
  <2>2. \A place : At(place)' = At(place)
    BY <2>1 DEF At
  <2> QED
    BY <2>1, <2>2 DEF Bounds
<1>2. ASSUME NEW w \in Workers, Iteration(w) PROVE Bounds'
  <2>1. CASE Begin(w)
    BY <1>o, <2>1, PlainBounds DEF Begin, shared, rest
  <2>2. CASE CheckStop(w)
    <3>1. UNCHANGED <<cli, next_iter, completed, mismatches, fails, iter, outcome>>
      BY <2>2 DEF CheckStop, shared, rest
    <3>2. Goto(w, "check", "ok") \/ Goto(w, "check", "claim")
      BY <2>2 DEF CheckStop
    <3> QED
      BY <1>o, <3>1, <3>2, PlainBounds
  <2>3. CASE Claim(w)
    BY <2>3, ClaimBounds
  <2>4. CASE Panic(w)
    BY <1>o, <2>4, PlainBounds DEF Panic, shared, rest
  <2>5. CASE RunOne(w)
    <3>1. UNCHANGED <<cli, next_iter, completed, mismatches, fails, iter>>
      BY <2>5 DEF RunOne, shared, rest
    <3>2. CASE Goto(w, "generate", "failing") /\ UNCHANGED outcome
      BY <1>o, <3>1, <3>2, PlainBounds
    <3>3. CASE /\ Goto(w, "generate", "complete")
               /\ \E o \in {"match", "mismatch", "fail"} :
                    outcome' = [outcome EXCEPT ![w] = o]
      <4>1. outcome' \in [Workers -> {"match", "mismatch", "fail"}]
        BY <1>o, <3>3
      <4> QED
        BY <3>1, <3>3, <4>1, PlainBounds
    <3> QED
      BY <2>5, <3>2, <3>3 DEF RunOne
  <2>6. CASE Complete(w)
    BY <2>6, CompleteBounds
  <2>7. CASE Tally(w)
    BY <2>7, TallyBounds
  <2>8. CASE Report(w)
    <3>1. UNCHANGED <<cli, next_iter, completed, mismatches, fails, iter, outcome>>
      BY <2>8 DEF Report, rest
    <3>2. Goto(w, "report", "failing") \/ Goto(w, "report", "check")
      BY <2>8 DEF Report
    <3> QED
      BY <1>o, <3>1, <3>2, PlainBounds
  <2>9. CASE RaiseStop(w)
    BY <1>o, <2>9, PlainBounds DEF RaiseStop, rest
  <2> QED
    BY <1>2, <2>1, <2>2, <2>3, <2>4, <2>5, <2>6, <2>7, <2>8, <2>9 DEF Iteration
<1> QED
  BY <1>1, <1>2 DEF Next

\* Tests are claimed before they are run, and run before they are counted.
LEMMA WithinBounds == IInv /\ Bounds => TypeOK
<1> SUFFICES ASSUME IInv, Bounds PROVE TypeOK
  OBVIOUS
<1>1. /\ next_iter \in Nat /\ completed \in Nat /\ mismatches \in Nat /\ fails \in Nat
      /\ cli.count \in Nat /\ Cores \in Nat
  BY AtSizes DEF IInv, Typed, Bounds
<1>2. cli.count > 0 => next_iter <= cli.count + Cores
  <2> DEFINE c == Cardinality(At("ok"))
  <2>1. c \in Nat /\ c <= Cores /\ (cli.count > 0 => next_iter <= cli.count + c)
    BY AtSizes DEF Bounds
  <2> HIDE DEF c
  <2> QED
    BY <1>1, <2>1
<1>3. tested \subseteq 0..(next_iter - 1)
  BY <1>1 DEF IInv, Typed, Fresh, Asked
<1>4. completed \in 0..next_iter
  <2>1. /\ IsFiniteSet(0..(next_iter - 1))
        /\ Cardinality(0..(next_iter - 1)) = next_iter
    <3>1. 0 \in Int /\ next_iter - 1 \in Int
      BY <1>1
    <3>2. 0 > next_iter - 1 <=> next_iter = 0
      BY <1>1
    <3> QED
      BY <1>1, <3>1, <3>2, FS_Interval
  <2>2. Cardinality(tested) <= next_iter
    BY <1>3, <2>1, FS_Subset
  <2>3. Cardinality(Completing) \in Nat /\ Cardinality(tested) \in Nat
    BY FiniteWorkers, FS_CardinalityType DEF Completing, IInv, Typed
  <2> QED
    BY <1>1, <2>2, <2>3 DEF IInv, Counted
<1>5. mismatches + fails <= completed
  <2> DEFINE t == Cardinality(At("tally"))
  <2>1. t \in Nat /\ mismatches + fails + t <= completed
    BY AtSizes DEF Bounds
  <2> HIDE DEF t
  <2> QED
    BY <1>1, <2>1
<1>6. iter \in [Workers -> 0..next_iter]
  <2>1. iter \in [Workers -> Nat] /\ \A w \in Workers : iter[w] <= next_iter
    BY DEF IInv, Typed, Bounds
  <2> QED
    BY <1>1, <2>1
<1> QED
  BY <1>1, <1>2, <1>3, <1>4, <1>5, <1>6 DEF IInv, Typed, Bounds, TypeOK

-----------------------------------------------------------------------------
(* The theorems.                                                           *)

\* TypeOK always holds: mismatches and fails together never exceed completed,
\* completed never exceeds next_iter, and under --count the workers together
\* claim at most one iteration each beyond it.
THEOREM TypeCorrect == Spec => []TypeOK
<1>1. IInv /\ Bounds /\ [Next]_vars => (IInv /\ Bounds)'
  BY NextIInv, NextBounds
<1>2. Init => IInv /\ Bounds
  BY InitIInv, InitBounds
<1> QED
  BY <1>1, <1>2, WithinBounds, PTL DEF Spec

\* For any number of workers no test is run twice, and none beyond --count
\* (fetch_add of next_iter in run_worker).
THEOREM NoTestTwice == Spec => EveryTestIsNew
<1>1. IInv /\ [Next]_vars =>
        [\A w \in Workers :
           pc[w] = "generate" /\ pc'[w] = "complete" =>
             /\ iter[w] \notin tested
             /\ cli.count > 0 => iter[w] < cli.count]_vars
  BY DEF IInv, Fresh, Asked
<1> QED
  BY <1>1, Invariance, PTL DEF Spec, EveryTestIsNew

\* A run that returns Ok has tested all it was asked for, and counted it: the
\* errors and panics of any worker reach the caller of run.
THEOREM OkIsComplete == Spec => []OkMeansAllTested
<1>1. ASSUME IInv, Finished, first_error = "none"
      PROVE  cli.count > 0 /\ tested = 0..(cli.count - 1) /\ completed = cli.count
  <2>t. /\ next_iter \in Nat /\ cli.count \in Nat /\ tested \subseteq Nat
        /\ completed \in Nat /\ Cores \in Nat \ {0}
    BY <1>1, FuzzAssumption DEF IInv, Typed, FuzzAssumption
  <2>1. \A w \in Workers : pc[w] = "ok"
    BY <1>1, <2>t DEF IInv, Joined, Finished, Workers
  <2>2. LimitReached
    <3>1. 1 \in Workers
      BY <2>t DEF Workers
    <3> QED
      BY <1>1, <2>1, <3>1 DEF IInv, Stopped
  <2>3. tested = 0..(cli.count - 1)
    <3>1. \A i \in Nat : Asked(i) => i \in tested
      BY <1>1, <2>1 DEF IInv, Accounted, Holds
    <3>2. \A i \in Nat : Asked(i) <=> i < cli.count
      BY <2>t, <2>2 DEF Asked, LimitReached
    <3>3. \A i \in tested : Asked(i)
      BY <1>1 DEF IInv, Fresh
    <3>4. \A i \in Nat : i \in tested <=> i \in 0..(cli.count - 1)
      BY <2>t, <3>1, <3>2, <3>3
    <3>5. 0..(cli.count - 1) \subseteq Nat
      BY <2>t
    <3> QED
      BY <2>t, <3>4, <3>5
  <2>4. completed = Cardinality(tested)
    <3>1. Completing = {}
      BY <2>1 DEF Completing
    <3> QED
      BY <1>1, <2>t, <3>1, FS_EmptySet DEF IInv, Counted
  <2>5. Cardinality(0..(cli.count - 1)) = cli.count
    BY <2>t, <2>2, FS_Interval DEF LimitReached
  <2> QED
    BY <2>2, <2>3, <2>4, <2>5 DEF LimitReached
<1>2. IInv => OkMeansAllTested
  BY <1>1 DEF OkMeansAllTested
<1> QED
  BY <1>2, Invariance, PTL
=============================================================================
