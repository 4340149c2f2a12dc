-------------------------- MODULE SubmachineProofs --------------------------
(***************************************************************************)
(* Theorems about Submachine, for any gas, any salts, any depth of nesting *)
(* and any number of draws: what is recorded of deployments is what the    *)
(* bytecode does, and call targets are those of the root's snapshot.       *)
(*                                                                         *)
(* The idea: the counts of each machine change together, at the commit of  *)
(* its own CREATEs.  For that a CREATE must not record its creator: its    *)
(* address differs from its creator's, as the same holds one step down.    *)
(*                                                                         *)
(* The two passes of a CREATE2 agree because a source yields what it       *)
(* yielded before.  The proof keeps an account of what the values drawn so *)
(* far determine: where a machine is, and where it must end if others drew *)
(* its values before it (Replay, below).                                   *)
(***************************************************************************)
EXTENDS Submachine, EvmProofs, FiniteSetTheorems

Sequence(s) == \E S : s \in Seq(S)

\* Typing of what the actions look at.
WithFields(m) ==
  /\ DOMAIN m = {"address", "caller", "gas", "memory", "nonces", "callable",
                 "grow", "code", "bytes", "gen", "src", "over", "purpose"}
  /\ m = [field \in DOMAIN m |-> m[field]]

Purposeful(p) ==
  /\ DOMAIN p = {"kind", "pass", "salt", "budget", "gen", "src", "probe"}
  /\ p = [field \in DOMAIN p |-> p[field]]
  /\ p.pass \in {"root", "only", "probe", "final"}
  /\ p.budget \in 0..U64Max
  /\ p.pass # "root" => p.kind \in Creates

NoncesTyped(nonces) ==
  /\ nonces = [a \in DOMAIN nonces |-> nonces[a]]
  /\ \A a \in DOMAIN nonces : nonces[a] \in Nat

Typed(m) ==
  /\ WithFields(m) /\ Purposeful(m.purpose) /\ NoncesTyped(m.nonces)
  /\ m.gas \in 0..U64Max /\ m.memory \in 0..U64Max /\ m.bytes \in Nat
  /\ m.grow \in BOOLEAN /\ m.over \in BOOLEAN
  /\ Sequence(m.code) /\ Sequence(m.callable)

Deployments(m) == Cardinality(CreatesIn(m.code))

\* RecordsMatchCode, of one machine.
Counted(m) ==
  /\ NonceOf(m, m.address) = 1 + Deployments(m)
  /\ m.grow => Len(m.callable) = 1 + Deployments(m)

WellMade(m) == Typed(m) /\ Counted(m)

IsRoot(m) == m.purpose.pass = "root"

\* The address m works for.  A probe has none yet; any other is derived from
\* its creator's, and differs from it.
BuildsFor(m, creator) ==
  /\ m.purpose.pass = "only" =>
       /\ m.purpose.kind = "Create"
       /\ m.address = CreateAddress(creator.address, NonceOf(creator, creator.address))
  /\ m.purpose.pass = "probe" =>
       m.purpose.kind = "Create2" /\ m.address = ZeroAddress
  /\ m.purpose.pass = "final" =>
       /\ m.purpose.kind = "Create2"
       /\ m.address = Create2Address(creator.address, m.purpose.salt, m.purpose.probe)
  /\ m.purpose.pass # "probe" => m.address # creator.address

Nested(ms) ==
  /\ Sequence(ms) /\ ms # <<>>
  /\ \A i \in DOMAIN ms : WellMade(ms[i])
  /\ \A i \in DOMAIN ms : (ms[i].grow <=> i = 1) /\ (IsRoot(ms[i]) <=> i = 1)
  /\ \A i \in DOMAIN ms : ms[i].over => i = Len(ms) /\ i > 1
  /\ \A i \in DOMAIN ms : ms[i].callable = ms[1].callable
  /\ ms[1].address = Contract
  /\ \A i \in DOMAIN ms : i > 1 => BuildsFor(ms[i], ms[i - 1])

IInv == Nested(machines) /\ draws \in Nat

-----------------------------------------------------------------------------
(* Sequences and counts.                                                   *)

LEMMA NotLast ==
  ASSUME NEW k \in Nat, NEW i \in 1..(k - 1)
  PROVE  i # k /\ i \in 1..k
  OBVIOUS

LEMMA SequenceFacts ==
  ASSUME NEW s, Sequence(s)
  PROVE  Len(s) \in Nat /\ DOMAIN s = 1..Len(s)
<1>1. PICK S : s \in Seq(S)
  BY DEF Sequence
<1> QED
  BY <1>1

LEMMA AppendSequence ==
  ASSUME NEW s, NEW e, Sequence(s)
  PROVE  /\ Sequence(Append(s, e)) /\ Len(Append(s, e)) = Len(s) + 1
         /\ Append(s, e)[Len(s) + 1] = e
         /\ \A i \in 1..Len(s) : Append(s, e)[i] = s[i]
<1>1. PICK S : s \in Seq(S)
  BY DEF Sequence
<1> DEFINE T == S \cup {e}
<1>2. s \in Seq(T) /\ e \in T
  BY <1>1
<1> HIDE DEF T
<1>3. Append(s, e) \in Seq(T)
  BY <1>2
<1>4. /\ Len(Append(s, e)) = Len(s) + 1
      /\ Append(s, e)[Len(s) + 1] = e
      /\ \A i \in 1..Len(s) : Append(s, e)[i] = s[i]
  BY <1>2
<1> QED
  BY <1>3, <1>4 DEF Sequence

LEMMA ReplaceLast ==
  ASSUME NEW s, NEW e, Sequence(s), s # <<>>
  PROVE  /\ Sequence([s EXCEPT ![Len(s)] = e])
         /\ Len([s EXCEPT ![Len(s)] = e]) = Len(s)
         /\ [s EXCEPT ![Len(s)] = e][Len(s)] = e
         /\ \A i \in 1..Len(s) : i # Len(s) => [s EXCEPT ![Len(s)] = e][i] = s[i]
         /\ Len(s) \in Nat \ {0}
<1>1. PICK S : s \in Seq(S)
  BY DEF Sequence
<1> DEFINE T == S \cup {e}
           k == Len(s)
<1>2. s \in [1..k -> T] /\ e \in T /\ k \in Nat \ {0}
  <2>1. s \in [1..k -> S] /\ k \in Nat \ {0}
    BY <1>1
  <2> QED
    BY <2>1
<1> HIDE DEF T, k
<1>3. /\ [s EXCEPT ![k] = e] \in [1..k -> T] /\ [s EXCEPT ![k] = e][k] = e
      /\ \A i \in 1..k : i # k => [s EXCEPT ![k] = e][i] = s[i]
  BY <1>2
<1>4. [s EXCEPT ![k] = e] \in Seq(T) /\ Len([s EXCEPT ![k] = e]) = k
  BY <1>2, <1>3
<1>5. Sequence([s EXCEPT ![k] = e])
  BY <1>4 DEF Sequence
<1> QED
  BY <1>2, <1>3, <1>4, <1>5 DEF k

LEMMA AllButLast ==
  ASSUME NEW s, Sequence(s), Len(s) > 1
  PROVE  /\ Sequence(SubSeq(s, 1, Len(s) - 1))
         /\ Len(SubSeq(s, 1, Len(s) - 1)) = Len(s) - 1
         /\ \A i \in 1..(Len(s) - 1) : SubSeq(s, 1, Len(s) - 1)[i] = s[i]
<1>1. PICK S : s \in Seq(S)
  BY DEF Sequence
<1> DEFINE k == Len(s)
<1>2. 1 \in 1..k /\ k - 1 \in 1..k /\ k - 1 \in Nat
  BY <1>1
<1>3. SubSeq(s, 1, k - 1) \in Seq(S) /\ Len(SubSeq(s, 1, k - 1)) = k - 1
  BY <1>1, <1>2
<1>4. \A i \in 1..(k - 1) : SubSeq(s, 1, k - 1)[i] = s[i]
  BY <1>1, <1>2
<1>5. Sequence(SubSeq(s, 1, k - 1))
  BY <1>3 DEF Sequence
<1> QED
  BY <1>3, <1>4, <1>5

LEMMA CreatesFinite ==
  ASSUME NEW code, Sequence(code)
  PROVE  IsFiniteSet(CreatesIn(code)) /\ Cardinality(CreatesIn(code)) \in Nat
<1>1. IsFiniteSet(1..Len(code))
  BY SequenceFacts, FS_Interval
<1>2. CreatesIn(code) \subseteq 1..Len(code)
  BY SequenceFacts DEF CreatesIn
<1>3. IsFiniteSet(CreatesIn(code))
  BY <1>1, <1>2, FS_Subset
<1> QED
  BY <1>3, FS_CardinalityType

LEMMA CreatesAppended ==
  ASSUME NEW code, NEW op, Sequence(code)
  PROVE  Cardinality(CreatesIn(Append(code, op))) =
           Cardinality(CreatesIn(code)) + IF op.kind \in Creates THEN 1 ELSE 0
<1> DEFINE k == Len(code)
           new == Append(code, op)
<1>1. /\ k \in Nat /\ DOMAIN code = 1..k /\ DOMAIN new = 1..(k + 1)
      /\ new[k + 1] = op /\ \A i \in 1..k : new[i] = code[i]
  BY SequenceFacts, AppendSequence
<1> HIDE DEF k, new
<1>2. CASE op.kind \in Creates
  <2>1. CreatesIn(new) = CreatesIn(code) \cup {k + 1}
    BY <1>1, <1>2 DEF CreatesIn
  <2>2. k + 1 \notin CreatesIn(code)
    BY <1>1 DEF CreatesIn
  <2>3. Cardinality(CreatesIn(new)) = Cardinality(CreatesIn(code)) + 1
    BY <2>1, <2>2, CreatesFinite, FS_AddElement
  <2> QED
    BY <1>2, <2>3 DEF new
<1>3. CASE op.kind \notin Creates
  <2>1. CreatesIn(new) = CreatesIn(code)
    BY <1>1, <1>3 DEF CreatesIn
  <2> QED
    BY <1>3, <2>1, CreatesFinite DEF new
<1> QED
  BY <1>2, <1>3

-----------------------------------------------------------------------------
(* Stacks of machines.                                                     *)

\* The machine on top works on.
LEMMA TopReplaced ==
  ASSUME NEW ms, Nested(ms), NEW m, WellMade(m),
         m.grow <=> Len(ms) = 1, IsRoot(m) <=> Len(ms) = 1,
         m.over => Len(ms) > 1,
         Len(ms) > 1 => m.callable = ms[1].callable,
         Len(ms) = 1 => m.address = Contract,
         Len(ms) > 1 => BuildsFor(m, ms[Len(ms) - 1])
  PROVE  Nested([ms EXCEPT ![Len(ms)] = m])
<1> DEFINE k == Len(ms)
           new == [ms EXCEPT ![k] = m]
<1>1. /\ Sequence(ms) /\ k \in Nat \ {0} /\ DOMAIN ms = 1..k
      /\ Sequence(new) /\ Len(new) = k /\ DOMAIN new = 1..k
      /\ new[k] = m /\ \A i \in 1..k : i # k => new[i] = ms[i]
  BY SequenceFacts, ReplaceLast DEF Nested
<1>2. /\ m.grow <=> k = 1
      /\ IsRoot(m) <=> k = 1
      /\ m.over => k > 1
      /\ k > 1 => m.callable = ms[1].callable
      /\ k = 1 => m.address = Contract
      /\ k > 1 => BuildsFor(m, ms[k - 1])
  OBVIOUS
<1>a. \A i \in 1..k : ms[i].over => i = k
  BY <1>1 DEF Nested
<1> HIDE DEF k, new
<1>3. new # <<>>
  BY <1>1
<1>4. ASSUME NEW i \in 1..k
      PROVE  /\ WellMade(new[i]) /\ (new[i].grow <=> i = 1)
             /\ (IsRoot(new[i]) <=> i = 1)
             /\ (new[i].over => i = Len(new) /\ i > 1)
  <2>1. CASE i = k
    BY <1>1, <1>2, <2>1
  <2>2. CASE i # k
    <3>1. new[i] = ms[i]
      BY <1>1, <2>2
    <3>2. ~ms[i].over
      BY <1>a, <2>2
    <3> QED
      BY <1>1, <3>1, <3>2 DEF Nested
  <2> QED
    BY <2>1, <2>2
<1>5. ASSUME NEW i \in 1..k
      PROVE  new[i].callable = new[1].callable
  <2>1. CASE k = 1
    BY <1>1, <2>1
  <2>2. CASE k # 1
    <3>1. 1 \in 1..k /\ new[1] = ms[1] /\ k > 1
      BY <1>1, <2>2
    <3>2. CASE i = k
      BY <1>1, <1>2, <3>1, <3>2
    <3>3. CASE i # k
      <4>1. new[i] = ms[i] /\ ms[i].callable = ms[1].callable
        BY <1>1, <3>3 DEF Nested
      <4> QED
        BY <3>1, <4>1
    <3> QED
      BY <3>2, <3>3
  <2> QED
    BY <2>1, <2>2
<1>6. ASSUME NEW i \in 1..k, i > 1
      PROVE  BuildsFor(new[i], new[i - 1])
  <2>1. i - 1 \in 1..k /\ i - 1 # k
    BY <1>1, <1>6
  <2>2. new[i - 1] = ms[i - 1]
    BY <1>1, <2>1
  <2>3. CASE i = k
    BY <1>1, <1>2, <1>6, <2>2, <2>3
  <2>4. CASE i # k
    <3>1. BuildsFor(ms[i], ms[i - 1])
      BY <1>1, <1>6 DEF Nested
    <3> QED
      BY <1>1, <2>2, <2>4, <3>1
  <2> QED
    BY <2>3, <2>4
<1>7. new[1].address = Contract
  <2>1. CASE k = 1
    BY <1>1, <1>2, <2>1
  <2>2. CASE k # 1
    BY <1>1, <2>2 DEF Nested
  <2> QED
    BY <2>1, <2>2
<1>8. Nested(new)
  BY <1>1, <1>3, <1>4, <1>5, <1>6, <1>7 DEF Nested
<1> QED
  BY <1>8 DEF new, k

\* The machine on top is done.
LEMMA TopGone ==
  ASSUME NEW ms, Nested(ms), Len(ms) > 1
  PROVE  /\ Nested(SubSeq(ms, 1, Len(ms) - 1))
         /\ Len(SubSeq(ms, 1, Len(ms) - 1)) = Len(ms) - 1
         /\ SubSeq(ms, 1, Len(ms) - 1)[Len(ms) - 1] = ms[Len(ms) - 1]
         /\ ~SubSeq(ms, 1, Len(ms) - 1)[Len(ms) - 1].over
<1> DEFINE k == Len(ms)
           new == SubSeq(ms, 1, k - 1)
<1>1. /\ Sequence(ms) /\ k \in Nat /\ k > 1 /\ DOMAIN ms = 1..k
      /\ Sequence(new) /\ Len(new) = k - 1 /\ DOMAIN new = 1..(k - 1)
      /\ \A i \in 1..(k - 1) : new[i] = ms[i]
  BY SequenceFacts, AllButLast DEF Nested
<1> HIDE DEF new
<1>2. ASSUME NEW i \in 1..(k - 1)
      PROVE  ~ms[i].over /\ i \in 1..k /\ new[i] = ms[i]
  <2>1. i # k /\ i \in 1..k
    BY <1>1, NotLast
  <2>2. ms[i].over => i = k
    BY <1>1, <2>1 DEF Nested
  <2> QED
    BY <1>1, <2>1, <2>2
<1> HIDE DEF k
<1>3. new # <<>> /\ k - 1 \in 1..(k - 1) /\ 1 \in 1..(k - 1)
  BY <1>1
<1>4. ASSUME NEW i \in 1..(k - 1)
      PROVE  /\ WellMade(new[i]) /\ (new[i].grow <=> i = 1)
             /\ (IsRoot(new[i]) <=> i = 1) /\ ~new[i].over
             /\ new[i].callable = new[1].callable
  <2>1. /\ WellMade(ms[i]) /\ (ms[i].grow <=> i = 1) /\ (IsRoot(ms[i]) <=> i = 1)
        /\ ms[i].callable = ms[1].callable
    BY <1>1, <1>2 DEF Nested
  <2> QED
    BY <1>2, <1>3, <2>1
<1>5. ASSUME NEW i \in 1..(k - 1), i > 1
      PROVE  BuildsFor(new[i], new[i - 1])
  <2>1. i - 1 \in 1..(k - 1)
    BY <1>1, <1>5
  <2>2. BuildsFor(ms[i], ms[i - 1])
    BY <1>1, <1>2, <1>5 DEF Nested
  <2> QED
    BY <1>2, <2>1, <2>2
<1>6. new[1].address = Contract
  BY <1>1, <1>2, <1>3 DEF Nested
<1>7. Nested(new)
  BY <1>1, <1>3, <1>4, <1>5, <1>6 DEF Nested
<1> QED
  BY <1>1, <1>2, <1>3, <1>7 DEF new, k

\* A machine is put on top.
LEMMA TopAdded ==
  ASSUME NEW ms, Nested(ms), ~ms[Len(ms)].over, NEW m, WellMade(m),
         ~m.grow, ~IsRoot(m), ~m.over, m.callable = ms[1].callable,
         BuildsFor(m, ms[Len(ms)])
  PROVE  Nested(Append(ms, m))
<1> DEFINE k == Len(ms)
           new == Append(ms, m)
<1>1. /\ Sequence(ms) /\ k \in Nat /\ k > 0 /\ DOMAIN ms = 1..k
      /\ Sequence(new) /\ Len(new) = k + 1 /\ DOMAIN new = 1..(k + 1)
      /\ new[k + 1] = m /\ \A i \in 1..k : new[i] = ms[i]
  <2>1. Sequence(ms) /\ ms # <<>>
    BY DEF Nested
  <2>2. k \in Nat /\ k > 0
    BY <2>1, ReplaceLast
  <2> QED
    BY <2>1, <2>2, SequenceFacts, AppendSequence
<1>2. ASSUME NEW i \in 1..k
      PROVE  ~ms[i].over
  <2>1. ms[i].over => i = k
    BY <1>1 DEF Nested
  <2> QED
    BY <2>1
<1>3. BuildsFor(m, ms[k])
  OBVIOUS
<1> HIDE DEF k, new
<1>4. new # <<>> /\ 1 \in 1..k /\ new[1] = ms[1]
  BY <1>1
<1>5. ASSUME NEW i \in 1..(k + 1)
      PROVE  /\ WellMade(new[i]) /\ (new[i].grow <=> i = 1)
             /\ (IsRoot(new[i]) <=> i = 1) /\ ~new[i].over
             /\ new[i].callable = new[1].callable
  <2>1. CASE i = k + 1
    <3>1. i # 1 /\ new[i] = m
      BY <1>1, <2>1
    <3> QED
      BY <1>4, <3>1
  <2>2. CASE i # k + 1
    <3>1. i \in 1..k /\ new[i] = ms[i]
      BY <1>1, <2>2
    <3>2. /\ WellMade(ms[i]) /\ (ms[i].grow <=> i = 1) /\ (IsRoot(ms[i]) <=> i = 1)
          /\ ms[i].callable = ms[1].callable
      BY <1>1, <3>1 DEF Nested
    <3> QED
      BY <1>2, <1>4, <3>1, <3>2
  <2> QED
    BY <2>1, <2>2
<1>6. ASSUME NEW i \in 1..(k + 1), i > 1
      PROVE  BuildsFor(new[i], new[i - 1])
  <2>1. i - 1 \in 1..k /\ new[i - 1] = ms[i - 1]
    BY <1>1, <1>6
  <2>2. CASE i = k + 1
    <3>1. i - 1 = k /\ new[i] = m
      BY <1>1, <2>2
    <3> QED
      BY <1>3, <2>1, <3>1
  <2>3. CASE i # k + 1
    <3>1. i \in 1..k /\ new[i] = ms[i]
      BY <1>1, <2>3
    <3>2. BuildsFor(ms[i], ms[i - 1])
      BY <1>1, <1>6, <3>1 DEF Nested
    <3> QED
      BY <2>1, <3>1, <3>2
  <2> QED
    BY <2>2, <2>3
<1>7. new[1].address = Contract
  BY <1>4 DEF Nested
<1>8. Nested(new)
  BY <1>1, <1>4, <1>5, <1>6, <1>7 DEF Nested
<1> QED
  BY <1>8 DEF new

-----------------------------------------------------------------------------
(* One machine.                                                            *)

\* What ingesting an opcode keeps of a machine.
Follows(m, n) ==
  /\ WellMade(n) /\ n.address = m.address /\ n.grow = m.grow
  /\ n.purpose = m.purpose
  /\ m.grow \/ n.callable = m.callable
  /\ n.over => m.over \/ ~IsRoot(m)

Rendered(op) ==
  /\ op.kind \in {"Push", "Call", "Create", "Create2"}
  /\ op.gas \in Nat /\ op.len \in Nat

LEMMA U64MaxType == U64Max \in Nat /\ CreateBase \in Nat
  BY OpcodesAssumption, SMT DEF OpcodesAssumption

LEMMA PricedType ==
  ASSUME NEW op, Rendered(op)
  PROVE  Priced(op) \in Opcode /\ RenderedLen(op) \in Nat
<1>1. MaxIndex \in Nat
  BY OpcodesAssumption, SMT DEF OpcodesAssumption
<1>2. /\ op.kind \in {"Push", "Call", "Create", "Create2"}
      /\ op.gas \in Nat /\ op.len \in Nat
  BY DEF Rendered
<1>3. [NoInit EXCEPT !.len = op.len] \in InitCode
  BY <1>2 DEF NoInit, InitCode
<1>4. op.kind \in Kinds /\ op.kind # "Log"
  BY <1>2 DEF Kinds, Flat0, Creates, Calls
<1> DEFINE All == [kind : Kinds, n : 0..MaxIndex, dest : Nat, src : Nat,
                   len : Nat, rlen : Nat, to : {"zero", "account"}, gas : Nat,
                   init : InitCode]
           simple == Simple(op.kind)
<1>5. simple \in All /\ simple.init = NoInit /\ simple.kind = op.kind
  <2>1. NoInit \in InitCode
    BY DEF NoInit, InitCode
  <2> HIDE DEF InitCode
  <2> QED
    BY <1>1, <1>4, <2>1 DEF Simple
<1> HIDE DEF simple
<1>6. Priced(op) \in Opcode
  <2> DEFINE init == [NoInit EXCEPT !.len = op.len]
  <2>1. Priced(op) = [simple EXCEPT !.gas = op.gas, !.init = init]
    BY <1>5 DEF Priced, simple
  <2>2. init \in InitCode
    BY <1>3
  <2> HIDE DEF init
  <2>3. Priced(op) \in All /\ Priced(op).kind = op.kind
    BY <1>2, <1>5, <2>1, <2>2
  <2> QED
    BY <1>4, <2>3 DEF Opcode
<1>7. Words(op.len) \in Nat
  <2>1. SatAdd(op.len, 31) \in Nat
    BY <1>2, SaturatingType
  <2> QED
    BY <2>1 DEF Words
<1> QED
  BY <1>2, <1>6, <1>7 DEF RenderedLen

LEMMA HavingFacts ==
  ASSUME NEW ns, NEW a, NEW nonce \in Nat, NoncesTyped(ns)
  PROVE  /\ NoncesTyped(Having(ns, a, nonce))
         /\ a \in DOMAIN Having(ns, a, nonce) /\ Having(ns, a, nonce)[a] = nonce
         /\ \A b : b # a =>
              /\ b \in DOMAIN Having(ns, a, nonce) <=> b \in DOMAIN ns
              /\ b \in DOMAIN ns => Having(ns, a, nonce)[b] = ns[b]
<1> DEFINE new == Having(ns, a, nonce)
<1>1. /\ DOMAIN new = DOMAIN ns \cup {a}
      /\ \A b \in DOMAIN new : new[b] = IF b = a THEN nonce ELSE ns[b]
      /\ new = [b \in DOMAIN new |-> new[b]]
  BY DEF Having
<1> HIDE DEF new
<1>2. NoncesTyped(new)
  BY <1>1 DEF NoncesTyped
<1> QED
  BY <1>1, <1>2 DEF new

LEMMA NonceType ==
  ASSUME NEW m, Typed(m), NEW a
  PROVE  NonceOf(m, a) \in Nat
  BY DEF Typed, NoncesTyped, NonceOf

LEMMA SourcesMoveOn ==
  ASSUME NEW m, WellMade(m), NEW g, NEW s
  PROVE  /\ Follows(m, [m EXCEPT !.gen = g])
         /\ Follows(m, [m EXCEPT !.src = s])
         /\ [m EXCEPT !.gen = g].over = m.over
         /\ [m EXCEPT !.src = s].over = m.over
<1>1. WithFields(m)
  BY DEF WellMade, Typed
<1>2. ASSUME NEW n, n \in {[m EXCEPT !.gen = g], [m EXCEPT !.src = s]}
      PROVE  Follows(m, n) /\ n.over = m.over
  <2>1. /\ WithFields(n) /\ n.address = m.address /\ n.gas = m.gas
        /\ n.memory = m.memory /\ n.nonces = m.nonces /\ n.callable = m.callable
        /\ n.grow = m.grow /\ n.code = m.code /\ n.bytes = m.bytes
        /\ n.over = m.over /\ n.purpose = m.purpose
    BY <1>1, <1>2 DEF WithFields
  <2>2. Typed(n)
    BY <2>1 DEF WellMade, Typed
  <2>3. Counted(n)
    BY <2>1 DEF WellMade, Counted, NonceOf, Deployments
  <2> QED
    BY <2>1, <2>2, <2>3 DEF Follows, WellMade
<1> QED
  BY <1>2

LEMMA BrokenFollows ==
  ASSUME NEW m, WellMade(m)
  PROVE  Follows(m, Broken(m))
<1>1. WithFields(m)
  BY DEF WellMade, Typed
<1> DEFINE n == Broken(m)
<1>2. /\ WithFields(n) /\ n.address = m.address /\ n.gas = m.gas
      /\ n.memory = m.memory /\ n.nonces = m.nonces /\ n.callable = m.callable
      /\ n.grow = m.grow /\ n.code = m.code /\ n.bytes = m.bytes
      /\ n.over = (m.purpose.pass # "root") /\ n.purpose = m.purpose
  BY <1>1 DEF Broken, WithFields
<1> HIDE DEF n
<1>3. Typed(n)
  BY <1>2 DEF WellMade, Typed
<1>4. Counted(n)
  BY <1>2 DEF WellMade, Counted, NonceOf, Deployments
<1>5. n.over => ~IsRoot(m)
  BY <1>2 DEF IsRoot
<1>6. Follows(m, n)
  BY <1>2, <1>3, <1>4, <1>5 DEF Follows, WellMade
<1> QED
  BY <1>6 DEF n

\* The commit itself, before anything is recorded.
LEMMA CommittedFacts ==
  ASSUME NEW m, WellMade(m), NEW op, Rendered(op), Affordable(m, op)
  PROVE  /\ Typed(Committed(m, op))
         /\ Committed(m, op).address = m.address
         /\ Committed(m, op).nonces = m.nonces
         /\ Committed(m, op).callable = m.callable
         /\ Committed(m, op).grow = m.grow
         /\ Committed(m, op).purpose = m.purpose
         /\ Committed(m, op).over = m.over
         /\ Deployments(Committed(m, op)) =
              Deployments(m) + IF op.kind \in Creates THEN 1 ELSE 0
<1> DEFINE price == ReqGas(Priced(op), m.memory, m.gas)
           growth == ProvMemory(Priced(op), m.memory)
           n == Committed(m, op)
<1>1. /\ WithFields(m) /\ m.gas \in 0..U64Max /\ m.memory \in 0..U64Max
      /\ m.gas \in Nat /\ m.memory \in Nat /\ m.bytes \in Nat /\ U64Max \in Nat
      /\ Sequence(m.code)
  BY U64MaxType DEF WellMade, Typed
<1>2. Priced(op) \in Opcode /\ RenderedLen(op) \in Nat
  BY PricedType
<1>3. price \in Nat /\ price <= m.gas
  BY <1>1, <1>2, GasType, GasDeltaMeans DEF Affordable
<1>4. SatAdd(m.memory, growth) \in 0..U64Max
  <2>1. growth \in Nat
    BY <1>1, <1>2, MemoryType
  <2> QED
    BY <1>1, <2>1, SaturatingType
<1> HIDE DEF price, growth
<1>5. /\ WithFields(n) /\ n.address = m.address /\ n.gas = m.gas - price
      /\ n.memory = SatAdd(m.memory, growth)
      /\ n.nonces = m.nonces /\ n.callable = m.callable
      /\ n.grow = m.grow /\ n.code = Append(m.code, op)
      /\ n.bytes = m.bytes + RenderedLen(op)
      /\ n.over = m.over /\ n.purpose = m.purpose
  BY <1>1 DEF Committed, WithFields, price, growth
<1> HIDE DEF n
<1>6. /\ n.gas \in 0..U64Max /\ n.memory \in 0..U64Max /\ n.bytes \in Nat
  BY <1>1, <1>2, <1>3, <1>4, <1>5
<1>7. Sequence(n.code)
  BY <1>1, <1>5, AppendSequence
<1>8. Typed(n)
  BY <1>5, <1>6, <1>7 DEF WellMade, Typed
<1>9. Deployments(n) = Deployments(m) + IF op.kind \in Creates THEN 1 ELSE 0
  BY <1>1, <1>5, CreatesAppended DEF Deployments
<1> QED
  BY <1>5, <1>8, <1>9 DEF n

LEMMA IngestedFollows ==
  ASSUME NEW m, WellMade(m), NEW op, Rendered(op), op.kind \notin Creates
  PROVE  Follows(m, Ingested(m, op))
<1>1. CASE Affordable(m, op)
  <2> DEFINE n == Committed(m, op)
  <2>1. /\ Typed(n) /\ n.address = m.address /\ n.nonces = m.nonces
        /\ n.callable = m.callable /\ n.grow = m.grow /\ n.purpose = m.purpose
        /\ n.over = m.over
        /\ Deployments(n) = Deployments(m) + 0
    BY <1>1, CommittedFacts
  <2>2. Deployments(m) \in Nat
    BY CreatesFinite DEF Deployments, WellMade, Typed
  <2> HIDE DEF n
  <2>3. Counted(n)
    BY <2>1, <2>2 DEF WellMade, Counted, NonceOf
  <2>4. Follows(m, n)
    BY <2>1, <2>3 DEF Follows, WellMade
  <2> QED
    BY <1>1, <2>4 DEF Ingested, n
<1>2. CASE ~Affordable(m, op)
  BY <1>2, BrokenFollows DEF Ingested
<1> QED
  BY <1>1, <1>2

\* A CREATE is recorded with its commit, under another address.
LEMMA DeployedFollows ==
  ASSUME NEW m, WellMade(m), NEW op, Rendered(op), op.kind \in Creates,
         NEW address, address # m.address, NEW nonce \in Nat
  PROVE  Follows(m, Deployed(m, op, address, nonce))
<1>1. CASE Affordable(m, op)
  <2> DEFINE c == Committed(m, op)
             n == Recorded(c, address, nonce)
  <2>1. /\ Typed(c) /\ c.address = m.address /\ c.nonces = m.nonces
        /\ c.callable = m.callable /\ c.grow = m.grow /\ c.purpose = m.purpose
        /\ c.over = m.over
        /\ Deployments(c) = Deployments(m) + 1
    BY <1>1, CommittedFacts
  <2>2. Deployments(m) \in Nat
    BY CreatesFinite DEF Deployments, WellMade, Typed
  <2> HIDE DEF c
  <2> DEFINE own == NonceOf(c, c.address) + 1
             bumped == Having(c.nonces, c.address, own)
             nonces == Having(bumped, address, nonce)
  <2>3. own \in Nat /\ own = 1 + Deployments(c)
    <3>1. NonceOf(c, c.address) = 1 + Deployments(m)
      BY <2>1 DEF WellMade, Counted, NonceOf
    <3> QED
      BY <2>1, <2>2, <3>1
  <2> HIDE DEF own
  <2>4. /\ NoncesTyped(bumped) /\ c.address \in DOMAIN bumped
        /\ bumped[c.address] = own
    <3>1. NoncesTyped(c.nonces)
      BY <2>1 DEF Typed
    <3> QED
      BY <2>3, <3>1, HavingFacts
  <2> HIDE DEF bumped
  <2>5. /\ NoncesTyped(nonces) /\ c.address \in DOMAIN nonces
        /\ nonces[c.address] = own
    <3>1. c.address # address
      BY <2>1
    <3> QED
      BY <2>4, <3>1, HavingFacts
  <2> HIDE DEF nonces
  <2> DEFINE callable == IF c.grow THEN Append(c.callable, address) ELSE c.callable
  <2>6. Sequence(callable)
    BY <2>1, AppendSequence DEF Typed
  <2>7. c.grow => Len(callable) = 1 + Deployments(c)
    <3>1. Len(Append(c.callable, address)) = Len(c.callable) + 1
      BY <2>1, AppendSequence DEF Typed
    <3>2. c.grow => Len(c.callable) = 1 + Deployments(m)
      BY <2>1 DEF WellMade, Counted
    <3> QED
      BY <2>1, <2>2, <3>1, <3>2
  <2>8. ~c.grow => callable = c.callable
    OBVIOUS
  <2> HIDE DEF callable
  <2>9. /\ WithFields(n) /\ n.address = c.address /\ n.gas = c.gas
        /\ n.memory = c.memory /\ n.nonces = nonces /\ n.callable = callable
        /\ n.grow = c.grow /\ n.code = c.code /\ n.bytes = c.bytes
        /\ n.over = c.over /\ n.purpose = c.purpose
    <3>1. WithFields(c)
      BY <2>1 DEF Typed
    <3> QED
      BY <3>1 DEF Recorded, WithFields, Bumped, nonces, bumped, own, callable
  <2> HIDE DEF n
  <2>10. Typed(n)
    BY <2>1, <2>5, <2>6, <2>9 DEF Typed
  <2>11. Counted(n)
    <3>1. Deployments(n) = Deployments(c)
      BY <2>9 DEF Deployments
    <3>2. NonceOf(n, n.address) = own
      BY <2>5, <2>9 DEF NonceOf
    <3> QED
      BY <2>3, <2>7, <2>9, <3>1, <3>2 DEF Counted
  <2>12. Follows(m, n)
    BY <2>1, <2>8, <2>9, <2>10, <2>11 DEF Follows, WellMade, Typed
  <2> QED
    BY <1>1, <2>12 DEF Deployed, n, c
<1>2. CASE ~Affordable(m, op)
  BY <1>2, BrokenFollows DEF Deployed
<1> QED
  BY <1>1, <1>2

\* A machine starts out having deployed nothing.
LEMMA SubMachineFacts ==
  ASSUME NEW parent, WellMade(parent), NEW address, NEW purpose,
         Purposeful(purpose)
  PROVE  LET m == SubMachine(parent, address, purpose)
         IN /\ WellMade(m) /\ ~m.grow /\ ~m.over /\ m.address = address
            /\ m.purpose = purpose /\ m.callable = parent.callable
<1> DEFINE zero == [a \in {parent.address} |-> 0]
           nonces == Having(zero, address, 1)
           m == SubMachine(parent, address, purpose)
<1>1. NoncesTyped(nonces) /\ address \in DOMAIN nonces /\ nonces[address] = 1
  <2>1. NoncesTyped(zero)
    BY DEF NoncesTyped
  <2> HIDE DEF zero
  <2> QED
    BY <2>1, HavingFacts
<1> HIDE DEF nonces
<1>2. /\ WithFields(m) /\ m.address = address /\ m.gas = purpose.budget
      /\ m.memory = 0 /\ m.nonces = nonces /\ m.callable = parent.callable
      /\ m.grow = FALSE /\ m.code = <<>> /\ m.bytes = 0 /\ m.over = FALSE
      /\ m.purpose = purpose
  BY DEF SubMachine, WithContext, WithFields, nonces
<1> HIDE DEF m
<1>3. Sequence(m.code)
  BY <1>2 DEF Sequence
<1>4. Typed(m)
  <2>1. Sequence(m.callable)
    BY <1>2 DEF WellMade, Typed
  <2>2. m.gas \in 0..U64Max /\ m.memory \in 0..U64Max /\ m.bytes \in Nat
    BY <1>2, U64MaxType DEF Purposeful
  <2>3. Purposeful(m.purpose) /\ NoncesTyped(m.nonces)
    BY <1>1, <1>2
  <2> QED
    BY <1>2, <1>3, <2>1, <2>2, <2>3 DEF Typed
<1>5. Deployments(m) = 0
  <2>1. CreatesIn(<<>>) = {}
    BY DEF CreatesIn
  <2> QED
    BY <1>2, <2>1, FS_EmptySet DEF Deployments
<1>6. Counted(m)
  BY <1>1, <1>2, <1>5 DEF Counted, NonceOf
<1> QED
  BY <1>2, <1>4, <1>6 DEF WellMade, m

-----------------------------------------------------------------------------
(* What the actions make of the stack.                                     *)

LEMMA FollowsTransitive ==
  ASSUME NEW m, NEW n, NEW o, Follows(m, n), Follows(n, o)
  PROVE  Follows(m, o)
  BY DEF Follows, IsRoot

LEMMA TopFacts ==
  ASSUME NEW ms, Nested(ms)
  PROVE  /\ Len(ms) \in Nat \ {0} /\ WellMade(ms[Len(ms)])
         /\ ms[Len(ms)].grow <=> Len(ms) = 1
         /\ IsRoot(ms[Len(ms)]) <=> Len(ms) = 1
         /\ ms[Len(ms)].over => Len(ms) > 1
         /\ ms[Len(ms)].callable = ms[1].callable
         /\ Len(ms) = 1 => ms[Len(ms)].address = Contract
         /\ Len(ms) > 1 => BuildsFor(ms[Len(ms)], ms[Len(ms) - 1])
<1> DEFINE k == Len(ms)
<1>1. k \in Nat \ {0} /\ DOMAIN ms = 1..k
  BY SequenceFacts, ReplaceLast DEF Nested
<1>2. ms[k].over => k > 1
  <2>1. k \in DOMAIN ms
    BY <1>1
  <2> QED
    BY <2>1 DEF Nested
<1> HIDE DEF k
<1>3. k \in DOMAIN ms
  BY <1>1
<1> QED
  BY <1>1, <1>2, <1>3 DEF Nested, k

LEMMA FollowsNested ==
  ASSUME NEW ms, Nested(ms), NEW m, Follows(ms[Len(ms)], m)
  PROVE  Nested([ms EXCEPT ![Len(ms)] = m])
<1> DEFINE k == Len(ms)
           top == ms[k]
<1>1. /\ k \in Nat \ {0}
      /\ top.grow <=> k = 1
      /\ IsRoot(top) <=> k = 1
      /\ top.over => k > 1
      /\ top.callable = ms[1].callable
      /\ k = 1 => top.address = Contract
      /\ k > 1 => BuildsFor(top, ms[k - 1])
  BY TopFacts
<1>2. /\ WellMade(m) /\ m.address = top.address /\ m.grow = top.grow
      /\ m.purpose = top.purpose
      /\ top.grow \/ m.callable = top.callable
      /\ m.over => top.over \/ ~IsRoot(top)
  BY DEF Follows
<1>3. /\ m.grow <=> k = 1
      /\ IsRoot(m) <=> k = 1
      /\ m.over => k > 1
      /\ k > 1 => m.callable = ms[1].callable
      /\ k = 1 => m.address = Contract
      /\ k > 1 => BuildsFor(m, ms[k - 1])
  <2> HIDE DEF k, top
  <2>1. IsRoot(m) <=> k = 1
    BY <1>1, <1>2 DEF IsRoot
  <2>2. k > 1 => BuildsFor(m, ms[k - 1])
    BY <1>1, <1>2 DEF BuildsFor
  <2>3. m.over => k > 1
    BY <1>1, <1>2
  <2>4. k > 1 => m.callable = ms[1].callable
    BY <1>1, <1>2
  <2> QED
    BY <1>1, <1>2, <2>1, <2>2, <2>3, <2>4
<1> QED
  BY <1>2, <1>3, TopReplaced

LEMMA Facts ==
  ASSUME IInv
  PROVE  /\ Nested(machines) /\ draws \in Nat
         /\ Depth \in Nat \ {0} /\ WellMade(Top) /\ Top = machines[Len(machines)]
         /\ Top.grow <=> Depth = 1
         /\ IsRoot(Top) <=> Depth = 1
         /\ Top.callable = machines[1].callable
         /\ Depth > 1 => BuildsFor(Top, Parent)
         /\ Top.gas \in Nat /\ Top.bytes \in Nat
<1>1. Nested(machines) /\ draws \in Nat
  BY DEF IInv
<1>2. WellMade(Top)
  BY <1>1, TopFacts DEF Top, Depth
<1>3. Top.gas \in Nat /\ Top.bytes \in Nat
  BY <1>2, U64MaxType DEF WellMade, Typed
<1> QED
  BY <1>1, <1>3, TopFacts DEF Top, Depth, Parent

LEMMA ParentFacts ==
  ASSUME IInv, Depth > 1
  PROVE  /\ WellMade(Parent) /\ Parent.callable = machines[1].callable
         /\ Nested(Below) /\ Len(Below) = Depth - 1 /\ Below[Depth - 1] = Parent
<1>1. Nested(machines) /\ Len(machines) > 1
  BY Facts DEF Depth
<1>2. Nested(Below) /\ Len(Below) = Depth - 1 /\ Below[Depth - 1] = Parent
  BY <1>1, TopGone DEF Below, Depth, Parent
<1>3. WellMade(Parent)
  BY <1>2, TopFacts
<1>4. Depth - 1 \in DOMAIN machines
  <2>1. Sequence(machines)
    BY <1>1 DEF Nested
  <2>2. DOMAIN machines = 1..Depth /\ Depth \in Nat
    BY <2>1, SequenceFacts DEF Depth
  <2> QED
    BY <1>1, <2>2 DEF Depth
<1>5. Parent.callable = machines[1].callable
  BY <1>1, <1>4 DEF Nested, Parent
<1> QED
  BY <1>2, <1>3, <1>5

LEMMA PairsFinite ==
  ASSUME NEW a, NEW b
  PROVE  IsFiniteSet({a}) /\ IsFiniteSet({a, b})
<1>1. IsFiniteSet({a}) /\ IsFiniteSet({b})
  BY FS_Singleton
<1>2. {a, b} = {a} \cup {b}
  OBVIOUS
<1> QED
  BY <1>1, <1>2, FS_Union

LEMMA YieldsType ==
  ASSUME draws \in Nat, NEW pairs, IsFiniteSet(pairs), Yields(pairs)
  PROVE  draws' \in Nat
<1> DEFINE fresh == {pair \in pairs : \A old \in drawn : old[1] # pair[1]}
           counted == {pair \in fresh : pair[2] # UsedUp}
<1>1. draws' = draws + Cardinality(counted)
  BY DEF Yields
<1>2. counted \subseteq pairs
  OBVIOUS
<1> HIDE DEF counted
<1>3. Cardinality(counted) \in Nat
  BY <1>2, FS_Subset, FS_CardinalityType
<1> QED
  BY <1>1, <1>3

LEMMA DrawsType ==
  ASSUME draws \in Nat, NEW a, NEW b, Yields({a}) \/ Yields({a, b})
  PROVE  draws' \in Nat
  BY PairsFinite, YieldsType

LEMMA FollowsIInv ==
  ASSUME IInv, NEW m, Follows(Top, m), BecomesTop(m), draws' \in Nat
  PROVE  IInv'
<1>1. machines' = [machines EXCEPT ![Len(machines)] = m]
  BY DEF BecomesTop, Depth
<1>2. Follows(machines[Len(machines)], m) /\ Nested(machines)
  BY Facts
<1>3. Nested(machines')
  BY <1>1, <1>2, FollowsNested
<1> QED
  BY <1>3 DEF IInv

\* A sub-machine is done and its parent works on.
LEMMA ReturnsIInv ==
  ASSUME IInv, Depth > 1, NEW m, Follows(Parent, m), ReturnsTo(m)
  PROVE  IInv'
<1>1. machines' = [Below EXCEPT ![Len(Below)] = m] /\ draws' = draws
  BY ParentFacts DEF ReturnsTo
<1>2. Nested(Below) /\ Follows(Below[Len(Below)], m)
  BY ParentFacts
<1>3. Nested(machines')
  BY <1>1, <1>2, FollowsNested
<1> QED
  BY <1>1, <1>3, Facts DEF IInv

LEMMA SourcesKeepTargets ==
  ASSUME IInv
  PROVE  /\ AfterMaterialization.callable = Top.callable
         /\ AfterMaterialization.nonces = Top.nonces
         /\ AfterMaterialization.address = Top.address
         /\ AfterMaterialization.code = Top.code
<1>1. WithFields(Top)
  BY Facts DEF WellMade, Typed
<1> QED
  BY <1>1 DEF AfterMaterialization, AfterDraw, WithFields

LEMMA AfterFollows ==
  ASSUME IInv
  PROVE  /\ Follows(Top, AfterDraw) /\ AfterDraw.over = Top.over
         /\ Follows(Top, AfterMaterialization)
         /\ AfterMaterialization.over = Top.over
         /\ WellMade(AfterDraw) /\ WellMade(AfterMaterialization)
<1>1. Follows(Top, AfterDraw) /\ AfterDraw.over = Top.over
  BY Facts, SourcesMoveOn DEF AfterDraw
<1>2. WellMade(AfterDraw)
  BY <1>1 DEF Follows
<1>3. /\ Follows(AfterDraw, AfterMaterialization)
      /\ AfterMaterialization.over = AfterDraw.over
  BY <1>2, SourcesMoveOn DEF AfterMaterialization
<1>4. Follows(Top, AfterMaterialization)
  BY <1>1, <1>3, FollowsTransitive
<1> QED
  BY <1>1, <1>2, <1>3, <1>4 DEF Follows

-----------------------------------------------------------------------------
(* Addresses.  No contract has its creator's address: one step down the    *)
(* stack both would be derived from the same creator, and at the bottom is *)
(* Contract, which is derived from none.                                   *)

LEMMA AddressFacts ==
  /\ \A c, d, m, n : CreateAddress(c, m) = CreateAddress(d, n) => c = d /\ m = n
  /\ \A c, d, s, t, x, y :
       Create2Address(c, s, x) = Create2Address(d, t, y) => c = d /\ s = t /\ x = y
  /\ \A c, n, d, s, x : CreateAddress(c, n) # Create2Address(d, s, x)
  /\ \A c, n : CreateAddress(c, n) \notin {Caller, Contract, ZeroAddress}
  /\ \A c, s, x : Create2Address(c, s, x) \notin {Caller, Contract, ZeroAddress}
  /\ Caller # Contract /\ Caller # ZeroAddress /\ Contract # ZeroAddress
<1>1. /\ \A c, d, m, n : CreateAddress(c, m) = CreateAddress(d, n) => c = d /\ m = n
      /\ \A c, d, s, t, x, y :
           Create2Address(c, s, x) = Create2Address(d, t, y) => c = d /\ s = t /\ x = y
  BY DEF CreateAddress, Create2Address
<1>2. \A c, n, d, s, x : CreateAddress(c, n) # Create2Address(d, s, x)
  BY DEF CreateAddress, Create2Address
<1>3. \A c, n : CreateAddress(c, n) \notin {Caller, Contract, ZeroAddress}
  BY DEF CreateAddress, Caller, Contract, ZeroAddress
<1>4. \A c, s, x : Create2Address(c, s, x) \notin {Caller, Contract, ZeroAddress}
  BY DEF Create2Address, Caller, Contract, ZeroAddress
<1>5. Caller # Contract /\ Caller # ZeroAddress /\ Contract # ZeroAddress
  BY DEF Caller, Contract, ZeroAddress
<1> QED
  BY <1>1, <1>2, <1>3, <1>4, <1>5

LEMMA AddressesDiffer ==
  ASSUME NEW ms, Nested(ms), NEW i \in DOMAIN ms
  PROVE  /\ \A nonce : CreateAddress(ms[i].address, nonce) # ms[i].address
         /\ \A salt, code : Create2Address(ms[i].address, salt, code) # ms[i].address
<1>1. CASE i = 1
  BY <1>1, AddressFacts DEF Nested
<1>2. CASE i # 1
  <2> DEFINE m == ms[i]
             creator == ms[i - 1]
  <2>1. i > 1
    BY <1>2, SequenceFacts DEF Nested
  <2>2. /\ BuildsFor(m, creator) /\ ~IsRoot(m)
        /\ m.purpose.pass \in {"root", "only", "probe", "final"}
    BY <1>2, <2>1 DEF Nested, WellMade, Typed, Purposeful
  <2> HIDE DEF m, creator
  <2>3. CASE m.purpose.pass = "only"
    <3>1. /\ m.address = CreateAddress(creator.address, NonceOf(creator, creator.address))
          /\ m.address # creator.address
      BY <2>2, <2>3 DEF BuildsFor
    <3> QED
      BY <3>1, AddressFacts DEF m
  <2>4. CASE m.purpose.pass = "probe"
    <3>1. m.address = ZeroAddress
      BY <2>2, <2>4 DEF BuildsFor
    <3> QED
      BY <3>1, AddressFacts DEF m
  <2>5. CASE m.purpose.pass = "final"
    <3>1. /\ m.address = Create2Address(creator.address, m.purpose.salt, m.purpose.probe)
          /\ m.address # creator.address
      BY <2>2, <2>5 DEF BuildsFor
    <3> QED
      BY <3>1, AddressFacts DEF m
  <2> QED
    BY <2>2, <2>3, <2>4, <2>5 DEF IsRoot
<1> QED
  BY <1>1, <1>2

LEMMA NewAddresses ==
  ASSUME IInv
  PROVE  /\ \A nonce : CreateAddress(Top.address, nonce) # Top.address
         /\ \A salt, code : Create2Address(Top.address, salt, code) # Top.address
         /\ Depth > 1 => \A salt, code :
              Create2Address(Parent.address, salt, code) # Parent.address
<1>1. Nested(machines) /\ DOMAIN machines = 1..Depth /\ Depth \in Nat \ {0}
  BY Facts, SequenceFacts DEF Nested, Depth
<1>2. Depth \in DOMAIN machines /\ (Depth > 1 => Depth - 1 \in DOMAIN machines)
  BY <1>1
<1> QED
  BY <1>1, <1>2, AddressesDiffer DEF Top, Parent

-----------------------------------------------------------------------------
(* The invariant is inductive.                                             *)

LEMMA InitIInv == GenInit => IInv
<1> SUFFICES ASSUME GenInit PROVE IInv
  OBVIOUS
<1>1. machines = <<Root>> /\ draws = 0
  BY DEF GenInit
<1> DEFINE m == Root
           n == WithContext(RootGas, Source(<<0>>), Source(<<1>>), Contract,
                            Caller, <<Caller>>, TRUE, NoPurpose)
<1>2. RootGas \in 0..U64Max
  BY SubmachineAssumption DEF SubmachineAssumption
<1> DEFINE first == Having([a \in {Caller} |-> 0], Contract, 1)
           nonces == [first EXCEPT ![Caller] = 1]
<1>3. /\ NoncesTyped(nonces) /\ Contract \in DOMAIN nonces
      /\ nonces[Contract] = 1
  BY DEF Having, NoncesTyped
<1>4. n.nonces = first
  BY DEF WithContext
<1> HIDE DEF first
<1>5. /\ WithFields(m) /\ m.address = Contract /\ m.gas = RootGas /\ m.memory = 0
      /\ m.nonces = nonces /\ m.callable = <<Caller>> /\ m.grow = TRUE
      /\ m.code = <<>> /\ m.bytes = 0 /\ m.over = FALSE
      /\ m.purpose = NoPurpose
  <2>1. /\ WithFields(n) /\ n.address = Contract /\ n.gas = RootGas /\ n.memory = 0
        /\ n.callable = <<Caller>> /\ n.grow = TRUE
        /\ n.code = <<>> /\ n.bytes = 0 /\ n.over = FALSE
        /\ n.purpose = NoPurpose
    BY DEF WithContext, WithFields
  <2>2. m = [n EXCEPT !.nonces = nonces]
    BY <1>4 DEF Root
  <2> HIDE DEF m, n, nonces
  <2> QED
    BY <2>1, <2>2 DEF WithFields
<1> HIDE DEF m, nonces
<1>6. Purposeful(NoPurpose) /\ NoPurpose.pass = "root"
  BY U64MaxType DEF NoPurpose, Purposeful
<1>7. Sequence(m.code) /\ Sequence(m.callable) /\ Len(m.callable) = 1
  <2>1. <<>> \in Seq({}) /\ <<Caller>> \in Seq({Caller}) /\ Len(<<Caller>>) = 1
    OBVIOUS
  <2> QED
    BY <1>5, <2>1 DEF Sequence
<1>8. Typed(m)
  <2>1. m.gas \in 0..U64Max /\ m.memory \in 0..U64Max /\ m.bytes \in Nat
    BY <1>2, <1>5, U64MaxType
  <2>2. Purposeful(m.purpose) /\ NoncesTyped(m.nonces)
    BY <1>3, <1>5, <1>6
  <2> QED
    BY <1>5, <1>7, <2>1, <2>2 DEF Typed
<1>9. Counted(m)
  <2>1. CreatesIn(<<>>) = {}
    BY DEF CreatesIn
  <2>2. Deployments(m) = 0
    BY <1>5, <2>1, FS_EmptySet DEF Deployments
  <2> QED
    BY <1>3, <1>5, <1>7, <2>2 DEF Counted, NonceOf
<1>10. /\ Sequence(machines) /\ machines # <<>> /\ DOMAIN machines = {1}
       /\ machines[1] = m
  <2>1. machines = <<m>>
    BY <1>1 DEF m
  <2>2. machines \in Seq({m}) /\ DOMAIN machines = {1} /\ machines[1] = m
    BY <2>1
  <2> QED
    BY <2>1, <2>2 DEF Sequence
<1>11. Nested(machines)
  BY <1>5, <1>6, <1>8, <1>9, <1>10 DEF Nested, WellMade, IsRoot
<1> QED
  BY <1>1, <1>11 DEF IInv

LEMMA IngestPushIInv == IInv /\ IngestPush => IInv'
<1> SUFFICES ASSUME IInv, IngestPush PROVE IInv'
  OBVIOUS
<1>1. BecomesTop(Ingested(AfterDraw, PushOp)) /\ draws' \in Nat
  BY Facts, DrawsType DEF IngestPush
<1>2. Rendered(PushOp) /\ PushOp.kind \notin Creates
  BY DEF PushOp, Rendered, Creates
<1>3. Follows(AfterDraw, Ingested(AfterDraw, PushOp))
  BY <1>2, AfterFollows, IngestedFollows
<1>4. Follows(Top, Ingested(AfterDraw, PushOp))
  BY <1>3, AfterFollows, FollowsTransitive
<1> QED
  BY <1>1, <1>4, FollowsIInv

LEMMA IngestCallIInv == IInv /\ IngestCall => IInv'
<1> SUFFICES ASSUME IInv, IngestCall PROVE IInv'
  OBVIOUS
<1>1. PICK i \in DOMAIN Top.callable :
        /\ Yields({<<Top.gen, Drew("Call", 0)>>, <<Top.src, Index(i)>>})
        /\ BecomesTop(Ingested(AfterMaterialization,
                               CallOp(Top.gas \div 4, Top.callable[i])))
  BY DEF IngestCall
<1> DEFINE op == CallOp(Top.gas \div 4, Top.callable[i])
<1>2. draws' \in Nat
  BY <1>1, Facts, DrawsType
<1>3. Rendered(op) /\ op.kind \notin Creates
  <2>1. Top.gas \div 4 \in Nat
    BY Facts
  <2>2. op.kind = "Call" /\ op.gas = Top.gas \div 4 /\ op.len = 0
    BY DEF CallOp, PushOp
  <2> QED
    BY <2>1, <2>2 DEF Rendered, Creates
<1> HIDE DEF op
<1>4. Follows(AfterMaterialization, Ingested(AfterMaterialization, op))
  BY <1>3, AfterFollows, IngestedFollows
<1>5. Follows(Top, Ingested(AfterMaterialization, op))
  BY <1>4, AfterFollows, FollowsTransitive
<1> QED
  BY <1>1, <1>2, <1>5, FollowsIInv DEF op

LEMMA CreateOpRendered ==
  ASSUME NEW kind \in Creates, NEW salt, NEW code, NEW bytes \in Nat
  PROVE  /\ Rendered(CreateOp(kind, salt, code, bytes))
         /\ CreateOp(kind, salt, code, bytes).kind \in Creates
<1> DEFINE op == CreateOp(kind, salt, code, bytes)
<1>1. op.kind = kind /\ op.gas = 0 /\ op.len = bytes + 5
  BY DEF CreateOp, PushOp, TailLen
<1> QED
  BY <1>1 DEF Rendered, Creates

LEMMA IngestExplicitIInv == IInv /\ IngestExplicit => IInv'
<1> SUFFICES ASSUME IInv, IngestExplicit PROVE IInv'
  OBVIOUS
<1> DEFINE Ops == {CreateOp("Create", 0, <<>>, 0)}
                  \cup {CreateOp("Create2", salt, <<>>, 0) : salt \in Salts}
           AddressOf(op) ==
             IF op.kind = "Create"
             THEN CreateAddress(Top.address, NonceOf(Top, Top.address))
             ELSE Create2Address(Top.address, op.salt, op.init)
<1>1. /\ \E op \in Ops : BecomesTop(Deployed(Top, op, AddressOf(op), 1))
      /\ draws' = draws + 1
  BY DEF IngestExplicit
<1>2. PICK op \in Ops : BecomesTop(Deployed(Top, op, AddressOf(op), 1))
  BY <1>1
<1>3. Rendered(op) /\ op.kind \in Creates
  BY CreateOpRendered DEF Creates
<1>4. AddressOf(op) # Top.address
  BY NewAddresses
<1> HIDE DEF Ops, AddressOf
<1>5. Follows(Top, Deployed(Top, op, AddressOf(op), 1))
  BY <1>3, <1>4, Facts, DeployedFollows
<1>6. draws' \in Nat
  BY <1>1, Facts
<1> QED
  BY <1>2, <1>5, <1>6, FollowsIInv

LEMMA InputEndsIInv == IInv /\ InputEnds => IInv'
<1> SUFFICES ASSUME IInv, InputEnds PROVE IInv'
  OBVIOUS
<1> DEFINE m == [AfterDraw EXCEPT !.over = TRUE]
<1>1. BecomesTop(m) /\ draws' \in Nat /\ Depth > 1
  BY Facts, DrawsType DEF InputEnds
<1>2. ~IsRoot(Top) /\ ~IsRoot(AfterDraw)
  <2>1. ~IsRoot(Top)
    BY <1>1, Facts
  <2> QED
    BY <2>1, AfterFollows DEF Follows, IsRoot
<1>3. m = Broken(AfterDraw)
  BY <1>2 DEF Broken, IsRoot
<1>4. Follows(Top, m)
  BY <1>3, AfterFollows, BrokenFollows, FollowsTransitive
<1> QED
  BY <1>1, <1>4, FollowsIInv

LEMMA MaterializationStarvesIInv == IInv /\ MaterializationStarves => IInv'
<1> SUFFICES ASSUME IInv, MaterializationStarves PROVE IInv'
  OBVIOUS
<1>1. BecomesTop(Broken(AfterMaterialization)) /\ draws' \in Nat
  BY Facts, DrawsType DEF MaterializationStarves
<1>2. Follows(Top, Broken(AfterMaterialization))
  BY AfterFollows, BrokenFollows, FollowsTransitive
<1> QED
  BY <1>1, <1>2, FollowsIInv

LEMMA StartIInv ==
  ASSUME IInv, NEW purpose, Purposeful(purpose), purpose.pass # "root",
         NEW address, Start(purpose, address),
         \A n : n.purpose = purpose /\ n.address = address => BuildsFor(n, Top)
  PROVE  IInv'
<1> DEFINE m == SubMachine(Top, address, purpose)
           n == AfterMaterialization
           ms == [machines EXCEPT ![Len(machines)] = n]
<1>1. machines' = Append(ms, m) /\ ~Top.over
  BY DEF Start, Depth, Looping
<1>2. draws' \in Nat
  BY Facts, DrawsType DEF Start
<1>3. /\ WellMade(m) /\ ~m.grow /\ ~m.over /\ m.address = address
      /\ m.purpose = purpose /\ m.callable = Top.callable
  BY Facts, SubMachineFacts
<1>b. BuildsFor(m, Top)
  BY <1>3
<1> HIDE DEF m
<1>4. /\ Follows(Top, n) /\ n.over = Top.over /\ n.address = Top.address
      /\ n.nonces = Top.nonces
  BY AfterFollows, SourcesKeepTargets DEF Follows
<1> HIDE DEF n
<1>5. /\ Nested(machines) /\ Sequence(machines) /\ machines # <<>>
      /\ Top = machines[Len(machines)] /\ Top.callable = machines[1].callable
  BY Facts DEF Nested
<1>6. Nested(ms)
  BY <1>4, <1>5, FollowsNested
<1>7. Len(ms) = Len(machines) /\ ms[Len(ms)] = n
  BY <1>5, ReplaceLast
<1>8. m.callable = ms[1].callable
  <2>2. ms[Len(ms)].callable = ms[1].callable
    BY <1>6, <1>7, TopFacts
  <2>3. n.callable = Top.callable
    BY SourcesKeepTargets DEF n
  <2> QED
    BY <1>3, <1>7, <2>2, <2>3
<1>9. BuildsFor(m, n)
  BY <1>b, <1>4 DEF BuildsFor, NonceOf
<1>10. ~ms[Len(ms)].over
  BY <1>1, <1>4, <1>7
<1>11. ~IsRoot(m)
  BY <1>3 DEF IsRoot
<1> HIDE DEF ms
<1>12. Nested(machines')
  BY <1>1, <1>3, <1>6, <1>7, <1>8, <1>9, <1>10, <1>11, TopAdded
<1> QED
  BY <1>2, <1>12 DEF IInv

LEMMA PurposeType ==
  ASSUME NEW kind \in Creates, NEW pass \in {"only", "probe"}, NEW salt,
         Top.gas \in Nat
  PROVE  /\ Purposeful(PurposeOf(kind, pass, salt))
         /\ PurposeOf(kind, pass, salt).pass = pass
<1>1. SubBudget(Top.gas) \in 0..U64Max
  BY BudgetType
<1> QED
  BY <1>1 DEF PurposeOf, Purposeful

LEMMA StartCreateIInv == IInv /\ StartCreate => IInv'
<1> SUFFICES ASSUME IInv, StartCreate PROVE IInv'
  OBVIOUS
<1> DEFINE purpose == PurposeOf("Create", "only", 0)
           address == CreateAddress(Top.address, NonceOf(Top, Top.address))
<1>1. Start(purpose, address)
  BY DEF StartCreate
<1>2. address # Top.address
  BY NewAddresses
<1>3. Purposeful(purpose) /\ purpose.pass = "only"
  BY Facts, PurposeType DEF Creates
<1>4. purpose.kind = "Create"
  BY DEF PurposeOf
<1>5. \A n : n.purpose = purpose /\ n.address = address => BuildsFor(n, Top)
  BY <1>2, <1>3, <1>4 DEF BuildsFor
<1> HIDE DEF purpose, address
<1> QED
  BY <1>1, <1>3, <1>5, StartIInv

LEMMA StartCreate2IInv == IInv /\ StartCreate2 => IInv'
<1> SUFFICES ASSUME IInv, StartCreate2 PROVE IInv'
  OBVIOUS
<1>1. PICK salt \in Salts : Start(PurposeOf("Create2", "probe", salt), ZeroAddress)
  BY DEF StartCreate2
<1> DEFINE purpose == PurposeOf("Create2", "probe", salt)
<1>2. Purposeful(purpose) /\ purpose.pass = "probe"
  BY Facts, PurposeType DEF Creates
<1>3. purpose.kind = "Create2"
  BY DEF PurposeOf
<1> HIDE DEF purpose
<1>4. \A n : n.purpose = purpose /\ n.address = ZeroAddress => BuildsFor(n, Top)
  BY <1>2, <1>3 DEF BuildsFor
<1>5. Start(purpose, ZeroAddress)
  BY <1>1 DEF purpose
<1> QED
  BY <1>2, <1>4, <1>5, StartIInv

LEMMA TooLongIInv == IInv /\ TooLong => IInv'
<1> SUFFICES ASSUME IInv, TooLong PROVE IInv'
  OBVIOUS
<1>1. Depth > 1 /\ ReturnsTo(Broken(Parent))
  BY DEF TooLong, Over
<1>2. Follows(Parent, Broken(Parent))
  BY <1>1, ParentFacts, BrokenFollows
<1> QED
  BY <1>1, <1>2, ReturnsIInv

LEMMA StartFinalPassIInv == IInv /\ StartFinalPass => IInv'
<1> SUFFICES ASSUME IInv, StartFinalPass PROVE IInv'
  OBVIOUS
<1> DEFINE address == Create2Address(Parent.address, Top.purpose.salt, Top.code)
           purpose == [Top.purpose EXCEPT !.pass = "final", !.probe = Top.code]
           m == SubMachine(Parent, address, purpose)
<1>1. /\ machines' = [machines EXCEPT ![Len(machines)] = m]
      /\ Len(machines) > 1 /\ Depth > 1 /\ draws' = draws
      /\ Top.purpose.pass = "probe"
  BY DEF StartFinalPass, Over, BecomesTop, Depth
<1>2. /\ Purposeful(purpose) /\ purpose.pass = "final" /\ purpose.kind = "Create2"
      /\ purpose.salt = Top.purpose.salt /\ purpose.probe = Top.code
  <2>1. Purposeful(Top.purpose) /\ Top.purpose.kind = "Create2"
    BY <1>1, Facts DEF WellMade, Typed, BuildsFor
  <2> QED
    BY <1>1, <2>1 DEF Purposeful
<1>3. /\ address # Parent.address
      /\ address = Create2Address(Parent.address, purpose.salt, purpose.probe)
  BY <1>1, <1>2, NewAddresses
<1> HIDE DEF address, purpose
<1>4. /\ WellMade(m) /\ ~m.grow /\ ~m.over /\ m.address = address
      /\ m.purpose = purpose /\ m.callable = Parent.callable
  BY <1>1, <1>2, ParentFacts, SubMachineFacts
<1> HIDE DEF m
<1>5. /\ ~IsRoot(m) /\ m.callable = machines[1].callable
      /\ BuildsFor(m, machines[Len(machines) - 1])
  <2>1. BuildsFor(m, Parent)
    BY <1>2, <1>3, <1>4 DEF BuildsFor
  <2> QED
    BY <1>1, <1>2, <1>4, <2>1, ParentFacts DEF IsRoot, Parent, Depth
<1>6. Nested(machines)
  BY Facts
<1>7. /\ m.grow <=> Len(machines) = 1
      /\ IsRoot(m) <=> Len(machines) = 1
  <2>1. Len(machines) # 1
    BY <1>1, Facts DEF Depth
  <2> QED
    BY <1>4, <1>5, <2>1
<1>8. Nested(machines')
  BY <1>1, <1>4, <1>5, <1>6, <1>7, TopReplaced
<1> QED
  BY <1>1, <1>8, Facts DEF IInv

LEMMA FinishCreateIInv == IInv /\ FinishCreate => IInv'
<1> SUFFICES ASSUME IInv, FinishCreate PROVE IInv'
  OBVIOUS
<1> DEFINE op == CreateOp(Top.purpose.kind, Top.purpose.salt, Top.code, Top.bytes)
           m == Deployed(Parent, op, Top.address, CreatedNonce(Top))
<1>1. /\ ReturnsTo(m) /\ Depth > 1 /\ Top.purpose.pass \in {"only", "final"}
  BY DEF FinishCreate, Over
<1>2. Top.address # Parent.address
  BY <1>1, Facts DEF BuildsFor
<1>3. Rendered(op) /\ op.kind \in Creates
  <2>1. Top.purpose.kind \in Creates
    BY <1>1, Facts DEF WellMade, Typed, Purposeful
  <2>2. Top.bytes \in Nat
    BY Facts
  <2> QED
    BY <2>1, <2>2, CreateOpRendered
<1> HIDE DEF op
<1>4. CreatedNonce(Top) \in Nat
  BY Facts, NonceType DEF CreatedNonce, WellMade
<1>5. Follows(Parent, m)
  BY <1>1, <1>2, <1>3, <1>4, ParentFacts, DeployedFollows
<1> HIDE DEF m
<1> QED
  BY <1>1, <1>5, ReturnsIInv

LEMMA NextIInv == IInv /\ [GenNext]_genVars => IInv'
<1> SUFFICES ASSUME IInv, [GenNext]_genVars PROVE IInv'
  OBVIOUS
<1>1. CASE GenNext
  BY <1>1, IngestPushIInv, IngestCallIInv, IngestExplicitIInv, InputEndsIInv,
     MaterializationStarvesIInv, StartCreateIInv, StartCreate2IInv, TooLongIInv,
     StartFinalPassIInv, FinishCreateIInv DEF GenNext
<1>2. CASE UNCHANGED genVars
  BY <1>2 DEF genVars, IInv
<1> QED
  BY <1>1, <1>2

LEMMA Invariance == GenSpec => []IInv
<1>1. IInv /\ [GenNext]_genVars => IInv'
  BY NextIInv
<1> QED
  BY <1>1, InitIInv, PTL DEF GenSpec

-----------------------------------------------------------------------------
(* What the invariant says.                                                *)

LEMMA IInvGenTypeOK == IInv => GenTypeOK
<1> SUFFICES ASSUME IInv PROVE GenTypeOK
  OBVIOUS
<1>1. Nested(machines) /\ machines # <<>> /\ draws \in Nat
  BY DEF IInv, Nested
<1>2. ASSUME NEW i \in DOMAIN machines
      PROVE  /\ machines[i].gas \in 0..U64Max /\ machines[i].memory \in 0..U64Max
             /\ machines[i].bytes \in Nat
             /\ \A a \in DOMAIN machines[i].nonces : machines[i].nonces[a] \in Nat
             /\ machines[i].grow = (i = 1)
             /\ (machines[i].purpose.pass = "root") = (i = 1)
             /\ machines[i].over => i = Len(machines) /\ i > 1
  <2>1. /\ Typed(machines[i])
        /\ machines[i].grow <=> i = 1
        /\ IsRoot(machines[i]) <=> i = 1
        /\ machines[i].over => i = Len(machines) /\ i > 1
    BY <1>1 DEF Nested, WellMade
  <2>2. machines[i].grow = (i = 1)
    BY <2>1 DEF Typed
  <2>3. (machines[i].purpose.pass = "root") = (i = 1)
    BY <2>1 DEF IsRoot
  <2> QED
    BY <2>1, <2>2, <2>3 DEF Typed, NoncesTyped
<1> QED
  BY <1>1, <1>2 DEF GenTypeOK

LEMMA IInvSnapshotIsolation == IInv => SnapshotIsolation
  BY DEF IInv, Nested, SnapshotIsolation

LEMMA IInvRecordsMatchCode == IInv => RecordsMatchCode
  BY DEF IInv, Nested, WellMade, Counted, Deployments, RecordsMatchCode

-----------------------------------------------------------------------------
\* GenTypeOK always holds: nonces and gas stay in range, only the root grows
\* its call targets (record_created_contract), and only the machine that draws
\* last can be over.
THEOREM TypeCorrect == GenSpec => []GenTypeOK
<1>1. GenSpec => []IInv
  BY Invariance
<1> QED
  BY <1>1, IInvGenTypeOK, PTL

\* SnapshotIsolation always holds: a machine at any depth picks its call
\* targets (pick_callable_address) from the root's snapshot.
THEOREM TargetsIsolated == GenSpec => []SnapshotIsolation
<1>1. GenSpec => []IInv
  BY Invariance
<1> QED
  BY <1>1, IInvSnapshotIsolation, PTL

\* RecordsMatchCode always holds: record_created_contract and bump_nonce keep
\* the nonce of each machine, and the root's call targets, in step with the
\* CREATEs in its bytecode, whatever fails in between.
THEOREM RecordsFollowCode == GenSpec => []RecordsMatchCode
<1>1. GenSpec => []IInv
  BY Invariance
<1> QED
  BY <1>1, IInvRecordsMatchCode, PTL

-----------------------------------------------------------------------------
(* The second pass of a CREATE2 repeats the first.  What a pass renders    *)
(* depends on the values its sources yield, not on its address: so look at *)
(* a machine without its address.                                          *)

Work(m) ==
  [gas |-> m.gas, memory |-> m.memory, code |-> m.code, bytes |-> m.bytes,
   gen |-> m.gen, src |-> m.src, over |-> m.over, callable |-> m.callable]

\* Where a pass starts.
Begin(m) ==
  [gas |-> m.purpose.budget, memory |-> 0, code |-> <<>>, bytes |-> 0,
   gen |-> m.purpose.gen, src |-> m.purpose.src, over |-> FALSE,
   callable |-> m.callable]

Stops(v, gen, src) ==
  [gas |-> v.gas, memory |-> v.memory, code |-> v.code, bytes |-> v.bytes,
   gen |-> gen, src |-> src, over |-> TRUE, callable |-> v.callable]

Outcome(v, op, gen, src) ==
  IF Affordable(v, op)
  THEN [gas |-> v.gas - ReqGas(Priced(op), v.memory, v.gas),
        memory |-> SatAdd(v.memory, ProvMemory(Priced(op), v.memory)),
        code |-> Append(v.code, op), bytes |-> v.bytes + RenderedLen(op),
        gen |-> gen, src |-> src, over |-> FALSE, callable |-> v.callable]
  ELSE Stops(v, gen, src)

\* A machine that has drawn a CREATE waits for the machine of its init code,
\* goes on when that one is over at e.
Waiting(v) ==
  [gas |-> v.gas, memory |-> v.memory, code |-> v.code, bytes |-> v.bytes,
   gen |-> Advance(v.gen), src |-> Advance(v.src), over |-> FALSE,
   callable |-> v.callable]
BeginsBelow(v) ==
  [gas |-> SubBudget(v.gas), memory |-> 0, code |-> <<>>, bytes |-> 0,
   gen |-> GenFork(v.src), src |-> MachineFork(v.src), over |-> FALSE,
   callable |-> v.callable]
Goes(kind, salt, w, e) ==
  IF e.bytes <= MaxInitCode - TailLen
  THEN Outcome(w, CreateOp(kind, salt, e.code, e.bytes), w.gen, w.src)
  ELSE Stops(w, w.gen, w.src)
Finished(kind, salt, v, e) == Goes(kind, salt, Waiting(v), e)

\* What one turn of the loop makes of v, by the values its sources yielded and
\* by the outcomes of sub-machines: <<b, e>> \in ends says that a machine at b
\* ends at e.
Pushes1(dr, v, w) ==
  <<v.gen, Drew("Push", 0)>> \in dr /\ w = Outcome(v, PushOp, Advance(v.gen), v.src)
Calls1(dr, v, w) ==
  \E i \in DOMAIN v.callable :
    /\ <<v.gen, Drew("Call", 0)>> \in dr /\ <<v.src, Index(i)>> \in dr
    /\ w = Outcome(v, CallOp(v.gas \div 4, v.callable[i]), Advance(v.gen), Advance(v.src))
Ends1(dr, v, w) ==
  <<v.gen, UsedUp>> \in dr /\ w = Stops(v, Advance(v.gen), v.src)
Starves1(dr, v, w) ==
  \E kind \in {"Call", "Create", "Create2"} : \E salt :
    /\ <<v.gen, Drew(kind, salt)>> \in dr /\ <<v.src, UsedUp>> \in dr
    /\ w = Stops(v, Advance(v.gen), Advance(v.src))
Creates1(dr, ends, v, w) ==
  \E kind \in Creates : \E salt, e :
    /\ <<v.gen, Drew(kind, salt)>> \in dr /\ <<v.src, Forked>> \in dr
    /\ <<BeginsBelow(v), e>> \in ends /\ w = Finished(kind, salt, v, e)

Moves(dr, ends, v, w) ==
  \/ Pushes1(dr, v, w) \/ Calls1(dr, v, w) \/ Ends1(dr, v, w) \/ Starves1(dr, v, w)
  \/ Creates1(dr, ends, v, w)

\* The known outcomes rest on values that were drawn.
Justified(dr, ends) ==
  \A pair \in ends :
    LET v == pair[1]
        e == pair[2]
    IN /\ e.over
       /\ v = e \/ (~v.over /\ \E w : Moves(dr, ends, v, w) /\ <<w, e>> \in ends)

\* at[i] is where machine i is, or was when it drew the CREATE it waits for.
Linked(ms, dr, at, i) ==
  /\ i = Len(ms) => Work(ms[i]) = at[i]
  /\ i < Len(ms) =>
       LET purpose == ms[i + 1].purpose
       IN /\ Work(ms[i]) = Waiting(at[i]) /\ ~at[i].over
          /\ <<at[i].gen, Drew(purpose.kind, purpose.salt)>> \in dr
          /\ <<at[i].src, Forked>> \in dr
          /\ Begin(ms[i + 1]) = BeginsBelow(at[i])

\* Machine i draws for the first time: past[i] is where it has been.
Fresh(ms, dr, ends, at, past, i) ==
  /\ ms[i].purpose.pass # "final"
  /\ Begin(ms[i]) \in past[i] /\ at[i] \in past[i]
  /\ \A v \in past[i] :
       v = at[i] \/ (~v.over /\ \E w \in past[i] : Moves(dr, ends, v, w))

\* Machine i draws again what a machine before it drew, and will end at goal[i].
Repeating(ms, ends, at, goal, i) ==
  /\ <<Begin(ms[i]), goal[i]>> \in ends
  /\ i = Len(ms) => <<at[i], goal[i]>> \in ends
  /\ i < Len(ms) =>
       LET purpose == ms[i + 1].purpose
       IN <<Finished(purpose.kind, purpose.salt, at[i], goal[i + 1]), goal[i]>> \in ends
  /\ ms[i].purpose.pass = "final" => goal[i].code = ms[i].purpose.probe

\* The machines from the k-th on repeat, those before it do not.
InStep(ms, dr, ends, at, past, goal, k, i) ==
  /\ Linked(ms, dr, at, i)
  /\ i < k => Fresh(ms, dr, ends, at, past, i)
  /\ i >= k => Repeating(ms, ends, at, goal, i)

Replay(ms, dr, ends, at, past, goal, k) ==
  /\ Justified(dr, ends)
  /\ k \in 2..(Len(ms) + 1)
  /\ \A i \in 2..Len(ms) : InStep(ms, dr, ends, at, past, goal, k, i)

Replays(ms, dr) ==
  \E ends, at, past, goal, k : Replay(ms, dr, ends, at, past, goal, k)

JInv == IInv /\ Replays(machines, drawn)

LEMMA ValuesDiffer ==
  /\ \A kind, salt : Drew(kind, salt) # UsedUp
  /\ \A i : Index(i) # UsedUp /\ Index(i) # Forked
  /\ UsedUp # Forked
  /\ \A i, j : Index(i) = Index(j) => i = j
  /\ \A k, l, s, t : Drew(k, s) = Drew(l, t) => k = l /\ s = t
BY DEF Drew, UsedUp, Forked, Index

LEMMA MovesGrow ==
  ASSUME NEW dr, NEW dr2, NEW ends, NEW ends2, dr \subseteq dr2, ends \subseteq ends2,
         NEW v, NEW w, Moves(dr, ends, v, w)
  PROVE  Moves(dr2, ends2, v, w)
<1>1. CASE Pushes1(dr, v, w)
  BY <1>1 DEF Pushes1, Moves
<1>2. CASE Calls1(dr, v, w)
  <2>1. Calls1(dr2, v, w)
    BY <1>2 DEF Calls1
  <2> QED
    BY <2>1 DEF Moves
<1>3. CASE Ends1(dr, v, w)
  BY <1>3 DEF Ends1, Moves
<1>4. CASE Starves1(dr, v, w)
  <2>1. Starves1(dr2, v, w)
    BY <1>4 DEF Starves1
  <2> QED
    BY <2>1 DEF Moves
<1>5. CASE Creates1(dr, ends, v, w)
  <2>1. Creates1(dr2, ends2, v, w)
    BY <1>5 DEF Creates1
  <2> QED
    BY <2>1 DEF Moves
<1> QED
  BY <1>1, <1>2, <1>3, <1>4, <1>5 DEF Moves

LEMMA JustifiedGrows ==
  ASSUME NEW dr, NEW dr2, NEW ends, dr \subseteq dr2, Justified(dr, ends)
  PROVE  Justified(dr2, ends)
<1> SUFFICES ASSUME NEW pair \in ends
             PROVE  /\ pair[2].over
                    /\ \/ pair[1] = pair[2]
                       \/ /\ ~pair[1].over
                          /\ \E w : Moves(dr2, ends, pair[1], w) /\ <<w, pair[2]>> \in ends
  BY DEF Justified
<1>1. /\ pair[2].over
      /\ \/ pair[1] = pair[2]
         \/ ~pair[1].over /\ \E w : Moves(dr, ends, pair[1], w) /\ <<w, pair[2]>> \in ends
  BY DEF Justified
<1>2. CASE pair[1] = pair[2]
  BY <1>1, <1>2
<1>3. CASE pair[1] # pair[2]
  <2>1. PICK w : Moves(dr, ends, pair[1], w) /\ <<w, pair[2]>> \in ends
    BY <1>1, <1>3
  <2>2. Moves(dr2, ends, pair[1], w)
    BY <2>1, MovesGrow
  <2> QED
    BY <1>1, <1>3, <2>1, <2>2
<1> QED
  BY <1>2, <1>3

Ending(past, e) == {<<v, e>> : v \in past}

\* A pass that is over adds what is known: all it went through ends there.
LEMMA JustifiedPast ==
  ASSUME NEW dr, NEW ends, Justified(dr, ends), NEW e, e.over = TRUE, NEW past,
         \A v \in past :
           v = e \/ (~v.over /\ \E w \in past : Moves(dr, ends, v, w))
  PROVE  Justified(dr, ends \cup Ending(past, e))
<1> DEFINE new == Ending(past, e)
           all == ends \cup new
<1> SUFFICES ASSUME NEW pair \in all
             PROVE  /\ pair[2].over
                    /\ \/ pair[1] = pair[2]
                       \/ /\ ~pair[1].over
                          /\ \E w : Moves(dr, all, pair[1], w) /\ <<w, pair[2]>> \in all
  BY DEF Justified
<1>1. ends \subseteq all /\ dr \subseteq dr
  OBVIOUS
<1>2. CASE pair \in ends
  <2>1. /\ pair[2].over
        /\ \/ pair[1] = pair[2]
           \/ ~pair[1].over /\ \E w : Moves(dr, ends, pair[1], w) /\ <<w, pair[2]>> \in ends
    BY <1>2 DEF Justified
  <2>2. CASE pair[1] = pair[2]
    BY <2>1, <2>2
  <2>3. CASE pair[1] # pair[2]
    <3>1. PICK w : Moves(dr, ends, pair[1], w) /\ <<w, pair[2]>> \in ends
      BY <2>1, <2>3
    <3> HIDE DEF all
    <3>2. Moves(dr, all, pair[1], w)
      BY <1>1, <3>1, MovesGrow
    <3>3. <<w, pair[2]>> \in all
      BY <1>1, <3>1
    <3> QED
      BY <2>1, <2>3, <3>2, <3>3
  <2> QED
    BY <2>2, <2>3
<1>3. CASE pair \in new
  <2>1. PICK v \in past : pair = <<v, e>>
    BY <1>3 DEF Ending
  <2>2. pair[1] = v /\ pair[2] = e
    BY <2>1
  <2>3. CASE v = e
    BY <2>2, <2>3
  <2>4. CASE v # e
    <3>1. ~v.over /\ \E w \in past : Moves(dr, ends, v, w)
      BY <2>4
    <3>2. PICK w \in past : Moves(dr, ends, v, w)
      BY <3>1
    <3>3. <<w, e>> \in all
      BY DEF Ending
    <3> HIDE DEF all
    <3>4. Moves(dr, all, v, w)
      BY <1>1, <3>2, MovesGrow
    <3> QED
      BY <2>2, <3>1, <3>3, <3>4
  <2> QED
    BY <2>3, <2>4
<1> QED
  BY <1>2, <1>3

-----------------------------------------------------------------------------
(* What a turn makes of the machine's work, and that no other outcome was  *)
(* possible: a source yields what it yielded before.                       *)

LEMMA YieldsFacts ==
  ASSUME NEW pairs, Yields(pairs)
  PROVE  /\ drawn \subseteq drawn' /\ pairs \subseteq drawn'
         /\ \A s, x, y : <<s, x>> \in drawn /\ <<s, y>> \in pairs => x = y
<1>1. drawn' = drawn \cup pairs
  BY DEF Yields
<1>2. \A old \in drawn, pair \in pairs : old[1] = pair[1] => old = pair
  BY DEF Yields
<1>3. ASSUME NEW s, NEW x, NEW y, <<s, x>> \in drawn, <<s, y>> \in pairs
      PROVE  x = y
  <2>1. <<s, x>>[1] = <<s, y>>[1]
    OBVIOUS
  <2>2. <<s, x>> = <<s, y>>
    BY <1>2, <1>3, <2>1
  <2> QED
    BY <2>2
<1> QED
  BY <1>1, <1>3

LEMMA OneYield ==
  ASSUME NEW s, NEW y, Yields({<<s, y>>})
  PROVE  /\ drawn \subseteq drawn' /\ <<s, y>> \in drawn'
         /\ \A x : <<s, x>> \in drawn => x = y
<1> DEFINE pairs == {<<s, y>>}
<1>1. Yields(pairs) /\ <<s, y>> \in pairs
  OBVIOUS
<1> HIDE DEF pairs
<1> QED
  BY <1>1, YieldsFacts

LEMMA TwoYields ==
  ASSUME NEW s, NEW y, NEW t, NEW z, Yields({<<s, y>>, <<t, z>>})
  PROVE  /\ drawn \subseteq drawn' /\ <<s, y>> \in drawn' /\ <<t, z>> \in drawn'
         /\ \A x : <<s, x>> \in drawn => x = y
         /\ \A x : <<t, x>> \in drawn => x = z
<1> DEFINE pairs == {<<s, y>>, <<t, z>>}
<1>1. Yields(pairs) /\ <<s, y>> \in pairs /\ <<t, z>> \in pairs
  OBVIOUS
<1> HIDE DEF pairs
<1> QED
  BY <1>1, YieldsFacts

LEMMA PushDetermined ==
  ASSUME NEW v, Yields({<<v.gen, Drew("Push", 0)>>}), NEW ends
  PROVE  /\ Moves(drawn', ends, v, Outcome(v, PushOp, Advance(v.gen), v.src))
         /\ \A w : Moves(drawn, ends, v, w)
                     => w = Outcome(v, PushOp, Advance(v.gen), v.src)
<1> DEFINE new == Outcome(v, PushOp, Advance(v.gen), v.src)
<1>1. <<v.gen, Drew("Push", 0)>> \in drawn'
  BY OneYield
<1>2. Moves(drawn', ends, v, new)
  BY <1>1 DEF Moves, Pushes1
<1>3. ASSUME NEW x, <<v.gen, x>> \in drawn
      PROVE  x = Drew("Push", 0)
  BY <1>3, OneYield
<1>4. ASSUME NEW w, Moves(drawn, ends, v, w)
      PROVE  w = new
  <2>1. ~Calls1(drawn, v, w)
    <3>1. "Call" # "Push"
      OBVIOUS
    <3> QED
      BY <1>3, <3>1, ValuesDiffer DEF Calls1
  <2>2. ~Ends1(drawn, v, w)
    BY <1>3, ValuesDiffer DEF Ends1
  <2>3. ~Starves1(drawn, v, w)
    BY <1>3, ValuesDiffer DEF Starves1
  <2>4. ~Creates1(drawn, ends, v, w)
    BY <1>3, ValuesDiffer DEF Creates1, Creates
  <2>5. Pushes1(drawn, v, w)
    BY <1>4, <2>1, <2>2, <2>3, <2>4 DEF Moves
  <2> QED
    BY <2>5 DEF Pushes1
<1> QED
  BY <1>2, <1>4

LEMMA CallDetermined ==
  ASSUME NEW v, NEW i \in DOMAIN v.callable,
         Yields({<<v.gen, Drew("Call", 0)>>, <<v.src, Index(i)>>}), NEW ends
  PROVE  LET new == Outcome(v, CallOp(v.gas \div 4, v.callable[i]),
                            Advance(v.gen), Advance(v.src))
         IN /\ Moves(drawn', ends, v, new)
            /\ \A w : Moves(drawn, ends, v, w) => w = new
<1> DEFINE new == Outcome(v, CallOp(v.gas \div 4, v.callable[i]),
                          Advance(v.gen), Advance(v.src))
<1>1. <<v.gen, Drew("Call", 0)>> \in drawn' /\ <<v.src, Index(i)>> \in drawn'
  BY TwoYields
<1>2. Moves(drawn', ends, v, new)
  BY <1>1 DEF Moves, Calls1
<1>3. /\ \A x : <<v.gen, x>> \in drawn => x = Drew("Call", 0)
      /\ \A x : <<v.src, x>> \in drawn => x = Index(i)
  <2>1. \A x : <<v.gen, x>> \in drawn => x = Drew("Call", 0)
    BY TwoYields
  <2>2. \A x : <<v.src, x>> \in drawn => x = Index(i)
    <3> DEFINE pairs == {<<v.gen, Drew("Call", 0)>>, <<v.src, Index(i)>>}
    <3>1. Yields(pairs) /\ <<v.src, Index(i)>> \in pairs
      OBVIOUS
    <3> HIDE DEF pairs
    <3> QED
      BY <3>1, YieldsFacts
  <2> QED
    BY <2>1, <2>2
<1>4. ASSUME NEW w, Moves(drawn, ends, v, w)
      PROVE  w = new
  <2>1. ~Pushes1(drawn, v, w)
    BY <1>3, ValuesDiffer DEF Pushes1
  <2>2. ~Ends1(drawn, v, w)
    BY <1>3, ValuesDiffer DEF Ends1
  <2>3. ~Starves1(drawn, v, w)
    BY <1>3, ValuesDiffer DEF Starves1
  <2>4. ~Creates1(drawn, ends, v, w)
    BY <1>3, ValuesDiffer DEF Creates1
  <2>5. Calls1(drawn, v, w)
    BY <1>4, <2>1, <2>2, <2>3, <2>4 DEF Moves
  <2>6. PICK j \in DOMAIN v.callable :
          /\ <<v.src, Index(j)>> \in drawn
          /\ w = Outcome(v, CallOp(v.gas \div 4, v.callable[j]),
                         Advance(v.gen), Advance(v.src))
    BY <2>5 DEF Calls1
  <2>7. j = i
    BY <1>3, <2>6, ValuesDiffer
  <2> QED
    BY <2>6, <2>7
<1> QED
  BY <1>2, <1>4

LEMMA EndDetermined ==
  ASSUME NEW v, Yields({<<v.gen, UsedUp>>}), NEW ends
  PROVE  /\ Moves(drawn', ends, v, Stops(v, Advance(v.gen), v.src))
         /\ \A w : Moves(drawn, ends, v, w) => w = Stops(v, Advance(v.gen), v.src)
<1>1. <<v.gen, UsedUp>> \in drawn'
  BY OneYield
<1>2. Moves(drawn', ends, v, Stops(v, Advance(v.gen), v.src))
  BY <1>1 DEF Moves, Ends1
<1>3. \A x : <<v.gen, x>> \in drawn => x = UsedUp
  BY OneYield
<1>4. ASSUME NEW w, Moves(drawn, ends, v, w)
      PROVE  w = Stops(v, Advance(v.gen), v.src)
  <2>1. ~Pushes1(drawn, v, w) /\ ~Calls1(drawn, v, w) /\ ~Starves1(drawn, v, w)
    BY <1>3, ValuesDiffer DEF Pushes1, Calls1, Starves1
  <2>2. ~Creates1(drawn, ends, v, w)
    BY <1>3, ValuesDiffer DEF Creates1
  <2> QED
    BY <1>4, <2>1, <2>2 DEF Moves, Ends1
<1> QED
  BY <1>2, <1>4

LEMMA StarveDetermined ==
  ASSUME NEW v, NEW kind \in {"Call", "Create", "Create2"}, NEW salt,
         Yields({<<v.gen, Drew(kind, salt)>>, <<v.src, UsedUp>>}), NEW ends
  PROVE  LET new == Stops(v, Advance(v.gen), Advance(v.src))
         IN /\ Moves(drawn', ends, v, new)
            /\ \A w : Moves(drawn, ends, v, w) => w = new
<1>1. <<v.gen, Drew(kind, salt)>> \in drawn' /\ <<v.src, UsedUp>> \in drawn'
  BY TwoYields
<1>2. Moves(drawn', ends, v, Stops(v, Advance(v.gen), Advance(v.src)))
  BY <1>1 DEF Moves, Starves1
<1>3. /\ \A x : <<v.gen, x>> \in drawn => x = Drew(kind, salt)
      /\ \A x : <<v.src, x>> \in drawn => x = UsedUp
  <2>1. \A x : <<v.gen, x>> \in drawn => x = Drew(kind, salt)
    BY TwoYields
  <2>2. \A x : <<v.src, x>> \in drawn => x = UsedUp
    <3> DEFINE pairs == {<<v.gen, Drew(kind, salt)>>, <<v.src, UsedUp>>}
    <3>1. Yields(pairs) /\ <<v.src, UsedUp>> \in pairs
      OBVIOUS
    <3> HIDE DEF pairs
    <3> QED
      BY <3>1, YieldsFacts
  <2> QED
    BY <2>1, <2>2
<1>4. ASSUME NEW w, Moves(drawn, ends, v, w)
      PROVE  w = Stops(v, Advance(v.gen), Advance(v.src))
  <2>1. ~Pushes1(drawn, v, w)
    BY <1>3, ValuesDiffer DEF Pushes1
  <2>2. ~Calls1(drawn, v, w)
    BY <1>3, ValuesDiffer DEF Calls1
  <2>3. ~Ends1(drawn, v, w)
    BY <1>3, ValuesDiffer DEF Ends1
  <2>4. ~Creates1(drawn, ends, v, w)
    BY <1>3, ValuesDiffer DEF Creates1
  <2> QED
    BY <1>4, <2>1, <2>2, <2>3, <2>4 DEF Moves, Starves1
<1> QED
  BY <1>2, <1>4

\* A CREATE drawn again: its sub-machine has an outcome already.
LEMMA ForkDetermined ==
  ASSUME NEW v, NEW kind \in Creates, NEW salt,
         Yields({<<v.gen, Drew(kind, salt)>>, <<v.src, Forked>>}),
         NEW ends, NEW w, Moves(drawn, ends, v, w)
  PROVE  \E e : <<BeginsBelow(v), e>> \in ends /\ w = Finished(kind, salt, v, e)
<1>1. /\ \A x : <<v.gen, x>> \in drawn => x = Drew(kind, salt)
      /\ \A x : <<v.src, x>> \in drawn => x = Forked
  <2>1. \A x : <<v.gen, x>> \in drawn => x = Drew(kind, salt)
    BY TwoYields
  <2>2. \A x : <<v.src, x>> \in drawn => x = Forked
    <3> DEFINE pairs == {<<v.gen, Drew(kind, salt)>>, <<v.src, Forked>>}
    <3>1. Yields(pairs) /\ <<v.src, Forked>> \in pairs
      OBVIOUS
    <3> HIDE DEF pairs
    <3> QED
      BY <3>1, YieldsFacts
  <2> QED
    BY <2>1, <2>2
<1>2. ~Calls1(drawn, v, w) /\ ~Pushes1(drawn, v, w)
  BY <1>1, ValuesDiffer DEF Calls1, Pushes1, Creates
<1>3. ~Ends1(drawn, v, w)
  BY <1>1, ValuesDiffer DEF Ends1
<1>4. ~Starves1(drawn, v, w)
  BY <1>1, ValuesDiffer DEF Starves1
<1>5. CASE Creates1(drawn, ends, v, w)
  <2>1. PICK k, s, e :
          /\ <<v.gen, Drew(k, s)>> \in drawn
          /\ <<BeginsBelow(v), e>> \in ends /\ w = Finished(k, s, v, e)
    BY <1>5 DEF Creates1
  <2>2. k = kind /\ s = salt
    BY <1>1, <2>1, ValuesDiffer
  <2> QED
    BY <2>1, <2>2
<1> QED
  BY <1>2, <1>3, <1>4, <1>5 DEF Moves

-----------------------------------------------------------------------------
(* How the stack replays, whatever the machines are.                       *)

\* A machine that is over has ended where it had to.
LEMMA AtGoal ==
  ASSUME NEW dr, NEW ends, Justified(dr, ends), NEW v, NEW e, <<v, e>> \in ends, v.over
  PROVE  v = e
<1> DEFINE pair == <<v, e>>
<1>1. pair[1] = v /\ pair[2] = e /\ pair \in ends
  OBVIOUS
<1>2. pair[1] = pair[2] \/ ~pair[1].over
  BY <1>1 DEF Justified
<1> QED
  BY <1>1, <1>2

\* One that is not takes a turn that leads there.
LEMMA OnItsWay ==
  ASSUME NEW dr, NEW ends, Justified(dr, ends), NEW v, NEW e, <<v, e>> \in ends, ~v.over
  PROVE  \E w : Moves(dr, ends, v, w) /\ <<w, e>> \in ends
<1> DEFINE pair == <<v, e>>
<1>1. pair[1] = v /\ pair[2] = e /\ pair \in ends
  OBVIOUS
<1>2. /\ pair[2].over
      /\ \/ pair[1] = pair[2]
         \/ \E w : Moves(dr, ends, pair[1], w) /\ <<w, pair[2]>> \in ends
  BY <1>1 DEF Justified
<1>3. v # e
  BY <1>1, <1>2
<1> QED
  BY <1>1, <1>2, <1>3

LEMMA FreshGrows ==
  ASSUME NEW ms, NEW ms2, NEW dr, NEW dr2, NEW ends, NEW ends2, NEW at, NEW at2,
         NEW past, NEW past2, NEW i, Fresh(ms, dr, ends, at, past, i),
         dr \subseteq dr2, ends \subseteq ends2,
         ms2[i].purpose.pass = ms[i].purpose.pass, Begin(ms2[i]) = Begin(ms[i]),
         \/ at2[i] = at[i] /\ past2[i] = past[i]
         \/ /\ past2[i] = past[i] \cup {at2[i]} /\ ~at[i].over
            /\ Moves(dr2, ends2, at[i], at2[i])
  PROVE  Fresh(ms2, dr2, ends2, at2, past2, i)
<1>1. /\ ms2[i].purpose.pass # "final" /\ Begin(ms2[i]) \in past2[i]
      /\ at2[i] \in past2[i] /\ past[i] \subseteq past2[i]
  BY DEF Fresh
<1>2. ASSUME NEW v \in past[i], v # at[i]
      PROVE  ~v.over /\ \E w \in past2[i] : Moves(dr2, ends2, v, w)
  <2>1. ~v.over /\ \E w \in past[i] : Moves(dr, ends, v, w)
    BY <1>2 DEF Fresh
  <2>2. PICK w \in past[i] : Moves(dr, ends, v, w)
    BY <2>1
  <2>3. Moves(dr2, ends2, v, w)
    BY <2>2, MovesGrow
  <2> QED
    BY <1>1, <2>1, <2>3
<1>3. ASSUME NEW v \in past2[i], v # at2[i]
      PROVE  ~v.over /\ \E w \in past2[i] : Moves(dr2, ends2, v, w)
  <2>1. v \in past[i]
    BY <1>3
  <2>2. CASE v # at[i]
    BY <1>2, <2>1, <2>2
  <2>3. CASE v = at[i]
    BY <1>1, <1>3, <2>3
  <2> QED
    BY <2>2, <2>3
<1> QED
  BY <1>1, <1>3 DEF Fresh

\* A machine below those a step changes stays in step.
Alike(ms, ms2, at, at2, past, past2, goal, goal2, k, k2, i) ==
  /\ i < Len(ms) /\ i < Len(ms2) /\ ms2[i] = ms[i] /\ at2[i] = at[i]
  /\ Begin(ms2[i + 1]) = Begin(ms[i + 1])
  /\ ms2[i + 1].purpose.kind = ms[i + 1].purpose.kind
  /\ ms2[i + 1].purpose.salt = ms[i + 1].purpose.salt
  /\ i < k <=> i < k2
  /\ i < k => past2[i] = past[i]
  /\ i >= k => goal2[i] = goal[i] /\ goal2[i + 1] = goal[i + 1]

LEMMA StaysInStep ==
  ASSUME NEW ms, NEW ms2, NEW dr, NEW dr2, NEW ends, NEW ends2, NEW at, NEW at2,
         NEW past, NEW past2, NEW goal, NEW goal2, NEW k \in Nat, NEW k2 \in Nat,
         NEW i \in Nat, InStep(ms, dr, ends, at, past, goal, k, i),
         dr \subseteq dr2, ends \subseteq ends2, Len(ms) \in Nat, Len(ms2) \in Nat,
         Alike(ms, ms2, at, at2, past, past2, goal, goal2, k, k2, i)
  PROVE  InStep(ms2, dr2, ends2, at2, past2, goal2, k2, i)
<1> USE DEF Alike
<1>1. Linked(ms2, dr2, at2, i)
  <2>1. Linked(ms, dr, at, i)
    BY DEF InStep
  <2> QED
    BY <2>1 DEF Linked
<1>2. ASSUME i < k2
      PROVE  Fresh(ms2, dr2, ends2, at2, past2, i)
  <2>1. Fresh(ms, dr, ends, at, past, i) /\ past2[i] = past[i]
    BY <1>2 DEF InStep
  <2> QED
    BY <2>1, FreshGrows
<1>3. ASSUME i >= k2
      PROVE  Repeating(ms2, ends2, at2, goal2, i)
  <2>1. Repeating(ms, ends, at, goal, i) /\ goal2[i] = goal[i] /\ goal2[i + 1] = goal[i + 1]
    BY <1>3 DEF InStep
  <2> QED
    BY <2>1 DEF Repeating
<1> QED
  BY <1>1, <1>2, <1>3 DEF InStep

\* The root draws from sources nobody clones.
LEMMA RootReplays ==
  ASSUME NEW ms, NEW dr, Len(ms) = 1
  PROVE  Replays(ms, dr)
<1>1. Justified(dr, {})
  BY DEF Justified
<1>2. Replay(ms, dr, {}, <<>>, <<>>, <<>>, 2)
  BY <1>1 DEF Replay
<1> QED
  BY <1>2 DEF Replays

LEMMA FirstReplays ==
  ASSUME NEW ms, NEW dr, Len(ms) = 2, ms[2].purpose.pass # "final",
         Work(ms[2]) = Begin(ms[2])
  PROVE  Replays(ms, dr)
<1> DEFINE at == [i \in {2} |-> Work(ms[2])]
           past == [i \in {2} |-> {Work(ms[2])}]
<1>1. Justified(dr, {})
  BY DEF Justified
<1>2. InStep(ms, dr, {}, at, past, <<>>, 3, 2)
  <2>1. Linked(ms, dr, at, 2)
    BY DEF Linked
  <2>2. Fresh(ms, dr, {}, at, past, 2)
    BY DEF Fresh
  <2> QED
    BY <2>1, <2>2 DEF InStep
<1>3. Replay(ms, dr, {}, at, past, <<>>, 3)
  <2>1. \A i \in 2..Len(ms) : i = 2
    OBVIOUS
  <2> HIDE DEF at, past
  <2> QED
    BY <1>1, <1>2, <2>1 DEF Replay
<1> QED
  BY <1>3 DEF Replays

\* The machine on top takes a turn, the only one the values allow.
LEMMA TurnReplays ==
  ASSUME NEW ms, NEW ms2, NEW dr, NEW dr2, Replays(ms, dr), NEW n \in Nat, n >= 2,
         Len(ms) = n, Len(ms2) = n, \A i \in 2..(n - 1) : ms2[i] = ms[i],
         ms2[n].purpose = ms[n].purpose, Begin(ms2[n]) = Begin(ms[n]),
         dr \subseteq dr2, ~Work(ms[n]).over,
         \A ends : Moves(dr2, ends, Work(ms[n]), Work(ms2[n])),
         \A ends, w : Moves(dr, ends, Work(ms[n]), w) => w = Work(ms2[n])
  PROVE  Replays(ms2, dr2)
<1>1. PICK ends, at, past, goal, k : Replay(ms, dr, ends, at, past, goal, k)
  BY DEF Replays
<1> DEFINE at2 == [i \in 2..n |-> IF i = n THEN Work(ms2[n]) ELSE at[i]]
           past2 == [i \in 2..n |->
                       IF i = n THEN past[n] \cup {Work(ms2[n])} ELSE past[i]]
<1>2. /\ Justified(dr, ends) /\ k \in Nat /\ k \in 2..(n + 1)
      /\ \A i \in 2..n : InStep(ms, dr, ends, at, past, goal, k, i)
  BY <1>1 DEF Replay
<1>3. Justified(dr2, ends)
  BY <1>2, JustifiedGrows
<1>4. ASSUME NEW i \in 2..n, i # n
      PROVE  InStep(ms2, dr2, ends, at2, past2, goal, k, i)
  <2>1. /\ i \in Nat /\ i < n /\ ms2[i] = ms[i]
        /\ at2[i] = at[i] /\ past2[i] = past[i]
        /\ InStep(ms, dr, ends, at, past, goal, k, i)
    BY <1>2, <1>4
  <2>2. /\ Begin(ms2[i + 1]) = Begin(ms[i + 1])
        /\ ms2[i + 1].purpose = ms[i + 1].purpose
    <3>1. CASE i + 1 = n
      BY <3>1
    <3>2. CASE i + 1 # n
      <4>1. i + 1 \in 2..(n - 1)
        BY <1>4, <3>2
      <4> QED
        BY <4>1
    <3> QED
      BY <3>1, <3>2
  <2> HIDE DEF at2, past2
  <2>3. Alike(ms, ms2, at, at2, past, past2, goal, goal, k, k, i)
    BY <2>1, <2>2 DEF Alike
  <2> QED
    BY <1>2, <2>1, <2>3, StaysInStep
<1>5. InStep(ms2, dr2, ends, at2, past2, goal, k, n)
  <2>1. /\ at2[n] = Work(ms2[n]) /\ past2[n] = past[n] \cup {at2[n]}
        /\ at[n] = Work(ms[n]) /\ InStep(ms, dr, ends, at, past, goal, k, n)
    BY <1>2 DEF InStep, Linked
  <2> HIDE DEF at2, past2
  <2>2. Linked(ms2, dr2, at2, n)
    BY <2>1 DEF Linked
  <2>3. ASSUME n < k
        PROVE  Fresh(ms2, dr2, ends, at2, past2, n)
    <3>1. Fresh(ms, dr, ends, at, past, n)
      BY <2>1, <2>3 DEF InStep
    <3>2. Moves(dr2, ends, at[n], at2[n]) /\ ~at[n].over
      BY <2>1
    <3> QED
      BY <2>1, <3>1, <3>2, FreshGrows
  <2>4. ASSUME n >= k
        PROVE  Repeating(ms2, ends, at2, goal, n)
    <3>1. Repeating(ms, ends, at, goal, n)
      BY <2>1, <2>4 DEF InStep
    <3>2. <<at[n], goal[n]>> \in ends /\ ~at[n].over
      BY <2>1, <3>1 DEF Repeating
    <3>3. PICK w : Moves(dr, ends, at[n], w) /\ <<w, goal[n]>> \in ends
      BY <1>2, <3>2, OnItsWay
    <3>4. w = at2[n]
      BY <2>1, <3>3
    <3> QED
      BY <3>1, <3>3, <3>4 DEF Repeating
  <2> QED
    BY <2>2, <2>3, <2>4 DEF InStep
<1>6. Replay(ms2, dr2, ends, at2, past2, goal, k)
  <2> HIDE DEF at2, past2
  <2> QED
    BY <1>2, <1>3, <1>4, <1>5 DEF Replay
<1> QED
  BY <1>6 DEF Replays

\* All a machine at v can draw is a CREATE.
Forks(dr, kind, salt, v) ==
  \A ends, w : Moves(dr, ends, v, w)
    => \E e : <<BeginsBelow(v), e>> \in ends /\ w = Finished(kind, salt, v, e)

\* The machine on top draws a CREATE: one for its init code is put on top.
LEMMA StartReplays ==
  ASSUME NEW ms, NEW ms2, NEW dr, NEW dr2, Replays(ms, dr), NEW n \in Nat, n >= 2,
         Len(ms) = n, Len(ms2) = n + 1, \A i \in 2..(n - 1) : ms2[i] = ms[i],
         ms2[n].purpose = ms[n].purpose, Begin(ms2[n]) = Begin(ms[n]),
         dr \subseteq dr2, ~Work(ms[n]).over,
         Work(ms2[n]) = Waiting(Work(ms[n])),
         Work(ms2[n + 1]) = BeginsBelow(Work(ms[n])),
         Begin(ms2[n + 1]) = BeginsBelow(Work(ms[n])),
         ms2[n + 1].purpose.pass # "final",
         NEW kind, NEW salt, ms2[n + 1].purpose.kind = kind,
         ms2[n + 1].purpose.salt = salt,
         <<Work(ms[n]).gen, Drew(kind, salt)>> \in dr2,
         <<Work(ms[n]).src, Forked>> \in dr2,
         Forks(dr, kind, salt, Work(ms[n]))
  PROVE  Replays(ms2, dr2)
<1> DEFINE v == Work(ms[n])
           b == BeginsBelow(v)
<1>1. PICK ends, at, past, goal, k : Replay(ms, dr, ends, at, past, goal, k)
  BY DEF Replays
<1>2. /\ Justified(dr, ends) /\ k \in Nat /\ k \in 2..(n + 1)
      /\ \A i \in 2..n : InStep(ms, dr, ends, at, past, goal, k, i)
  BY <1>1 DEF Replay
<1>3. Justified(dr2, ends)
  BY <1>2, JustifiedGrows
<1>4. at[n] = v /\ InStep(ms, dr, ends, at, past, goal, k, n)
  BY <1>2 DEF InStep, Linked
<1>5. PICK e : k <= n => /\ <<b, e>> \in ends
                         /\ <<Finished(kind, salt, v, e), goal[n]>> \in ends
  <2>1. CASE k > n
    BY <1>2, <2>1
  <2>2. CASE k <= n
    <3>1. Repeating(ms, ends, at, goal, n)
      BY <1>2, <1>4, <2>2 DEF InStep
    <3>2. <<v, goal[n]>> \in ends
      BY <1>4, <3>1 DEF Repeating
    <3>3. PICK w : Moves(dr, ends, v, w) /\ <<w, goal[n]>> \in ends
      BY <1>2, <3>2, OnItsWay
    <3>4. \E e : <<b, e>> \in ends /\ w = Finished(kind, salt, v, e)
      BY <3>3 DEF Forks
    <3> QED
      BY <3>3, <3>4
  <2> QED
    BY <1>2, <2>1, <2>2
<1> DEFINE at2 == [i \in 2..(n + 1) |-> IF i = n + 1 THEN b ELSE at[i]]
           past2 == [i \in 2..(n + 1) |-> IF i = n + 1 THEN {b} ELSE past[i]]
           goal2 == [i \in 2..(n + 1) |-> IF i = n + 1 THEN e ELSE goal[i]]
           k2 == IF k <= n THEN k ELSE n + 2
<1>6. /\ k2 \in Nat /\ k2 \in 2..(n + 2)
      /\ \A i \in 2..n : i < k <=> i < k2
      /\ k2 <= n + 1 <=> k <= n
      /\ \A i \in 2..n : at2[i] = at[i] /\ past2[i] = past[i] /\ goal2[i] = goal[i]
      /\ at2[n + 1] = b /\ past2[n + 1] = {b} /\ goal2[n + 1] = e
  BY <1>2
<1> HIDE DEF at2, past2, goal2, k2
<1>7. ASSUME NEW i \in 2..n, i # n
      PROVE  InStep(ms2, dr2, ends, at2, past2, goal2, k2, i)
  <2>1. /\ i \in Nat /\ i < n /\ i < n + 1 /\ ms2[i] = ms[i] /\ i + 1 \in 2..n
        /\ InStep(ms, dr, ends, at, past, goal, k, i)
    BY <1>2, <1>7
  <2>2. /\ Begin(ms2[i + 1]) = Begin(ms[i + 1])
        /\ ms2[i + 1].purpose = ms[i + 1].purpose
    <3>1. CASE i + 1 = n
      BY <3>1
    <3>2. CASE i + 1 # n
      <4>1. i + 1 \in 2..(n - 1)
        BY <1>7, <3>2
      <4> QED
        BY <4>1
    <3> QED
      BY <3>1, <3>2
  <2>3. /\ at2[i] = at[i] /\ past2[i] = past[i]
        /\ goal2[i] = goal[i] /\ goal2[i + 1] = goal[i + 1]
    BY <1>6, <2>1
  <2>6. /\ Len(ms) \in Nat /\ Len(ms2) \in Nat /\ i < Len(ms) /\ i < Len(ms2)
        /\ k \in Nat /\ k2 \in Nat /\ ends \subseteq ends /\ dr \subseteq dr2
    BY <1>2, <1>6, <2>1
  <2>7. i < k <=> i < k2
    BY <1>6
  <2>8. Alike(ms, ms2, at, at2, past, past2, goal, goal2, k, k2, i)
    BY <2>1, <2>2, <2>3, <2>6, <2>7 DEF Alike
  <2> QED
    BY <2>1, <2>6, <2>8, StaysInStep
<1>8. InStep(ms2, dr2, ends, at2, past2, goal2, k2, n)
  <2>1. n < n + 1 /\ n # n + 1 /\ n \in 2..n /\ at2[n] = v
    BY <1>4, <1>6
  <2>2. Linked(ms2, dr2, at2, n)
    BY <2>1 DEF Linked
  <2>3. ASSUME n < k2
        PROVE  Fresh(ms2, dr2, ends, at2, past2, n)
    <3>1. Fresh(ms, dr, ends, at, past, n) /\ at2[n] = at[n] /\ past2[n] = past[n]
      BY <1>4, <1>6, <2>1, <2>3 DEF InStep
    <3> QED
      BY <3>1, FreshGrows
  <2>4. ASSUME n >= k2
        PROVE  Repeating(ms2, ends, at2, goal2, n)
    <3>1. Repeating(ms, ends, at, goal, n) /\ goal2[n] = goal[n]
      BY <1>2, <1>4, <1>6, <2>1, <2>4 DEF InStep
    <3>2. <<Finished(kind, salt, at2[n], goal2[n + 1]), goal2[n]>> \in ends
      BY <1>2, <1>5, <1>6, <2>1, <2>4, <3>1
    <3> QED
      BY <2>1, <3>1, <3>2 DEF Repeating
  <2> QED
    BY <2>2, <2>3, <2>4 DEF InStep
<1>9. InStep(ms2, dr2, ends, at2, past2, goal2, k2, n + 1)
  <2>1. Linked(ms2, dr2, at2, n + 1)
    BY <1>6 DEF Linked
  <2>2. Fresh(ms2, dr2, ends, at2, past2, n + 1)
    BY <1>6 DEF Fresh
  <2>3. ASSUME n + 1 >= k2
        PROVE  Repeating(ms2, ends, at2, goal2, n + 1)
    <3>1. <<b, e>> \in ends
      BY <1>2, <1>5, <1>6, <2>3
    <3> QED
      BY <1>6, <3>1 DEF Repeating
  <2> QED
    BY <2>1, <2>2, <2>3 DEF InStep
<1>10. Replay(ms2, dr2, ends, at2, past2, goal2, k2)
  <2>1. \A i \in 2..(n + 1) : i = n + 1 \/ i = n \/ (i \in 2..n /\ i # n)
    OBVIOUS
  <2>2. ASSUME NEW i \in 2..(n + 1)
        PROVE  InStep(ms2, dr2, ends, at2, past2, goal2, k2, i)
    BY <1>7, <1>8, <1>9, <2>1
  <2> QED
    BY <1>3, <1>6, <2>2 DEF Replay
<1> QED
  BY <1>10 DEF Replays

\* The probe is over: the final pass starts where it started.
LEMMA FinalReplays ==
  ASSUME NEW ms, NEW ms2, NEW dr, Replays(ms, dr), NEW n \in Nat, n >= 2,
         Len(ms) = n, Len(ms2) = n, \A i \in 2..(n - 1) : ms2[i] = ms[i],
         ms2[n].purpose.kind = ms[n].purpose.kind,
         ms2[n].purpose.salt = ms[n].purpose.salt,
         Work(ms2[n]) = Begin(ms[n]), Begin(ms2[n]) = Begin(ms[n]),
         Work(ms[n]).over = TRUE, ms2[n].purpose.probe = Work(ms[n]).code
  PROVE  Replays(ms2, dr)
<1>1. PICK ends, at, past, goal, k : Replay(ms, dr, ends, at, past, goal, k)
  BY DEF Replays
<1> DEFINE e == at[n]
           b == Begin(ms[n])
           ends2 == IF k <= n THEN ends ELSE ends \cup Ending(past[n], e)
           k2 == IF k <= n THEN k ELSE n
           at2 == [i \in 2..n |-> IF i = n THEN b ELSE at[i]]
           goal2 == [i \in 2..n |-> IF i = n THEN e ELSE goal[i]]
<1>2. /\ Justified(dr, ends) /\ k \in Nat /\ k \in 2..(n + 1)
      /\ \A i \in 2..n : InStep(ms, dr, ends, at, past, goal, k, i)
  BY <1>1 DEF Replay
<1>3. at[n] = Work(ms[n]) /\ InStep(ms, dr, ends, at, past, goal, k, n)
  BY <1>2 DEF InStep, Linked
<1>4. Justified(dr, ends2) /\ <<b, e>> \in ends2 /\ ends \subseteq ends2
      /\ (k <= n => goal[n] = e)
  <2>1. CASE k <= n
    <3>1. Repeating(ms, ends, at, goal, n)
      BY <1>2, <1>3, <2>1 DEF InStep
    <3>2. <<at[n], goal[n]>> \in ends /\ at[n].over /\ <<b, goal[n]>> \in ends
      BY <1>3, <3>1 DEF Repeating
    <3>3. at[n] = goal[n]
      BY <1>2, <3>2, AtGoal
    <3> QED
      BY <1>2, <2>1, <3>2, <3>3
  <2>2. CASE k > n
    <3>1. Fresh(ms, dr, ends, at, past, n)
      BY <1>3, <2>2 DEF InStep
    <3>2. /\ b \in past[n] /\ e.over = TRUE
          /\ \A v \in past[n] : v = e \/ (~v.over /\ \E x \in past[n] : Moves(dr, ends, v, x))
      BY <1>3, <3>1 DEF Fresh
    <3> DEFINE gone == past[n]
    <3> HIDE DEF b, e, gone
    <3>3. Justified(dr, ends \cup Ending(gone, e))
      <4>1. \A v \in gone : v = e \/ (~v.over /\ \E x \in gone : Moves(dr, ends, v, x))
        BY <3>2 DEF gone
      <4> QED
        BY <1>2, <3>2, <4>1, JustifiedPast
    <3>4. <<b, e>> \in Ending(gone, e)
      BY <3>2 DEF Ending, gone
    <3> USE DEF gone
    <3> QED
      BY <1>2, <2>2, <3>2, <3>3, <3>4
  <2> QED
    BY <1>2, <2>1, <2>2
<1>5. /\ k2 \in Nat /\ k2 \in 2..n /\ \A i \in 2..(n - 1) : i < k <=> i < k2
      /\ \A i \in 2..(n - 1) : at2[i] = at[i] /\ goal2[i] = goal[i]
      /\ at2[n] = b /\ goal2[n] = e
  BY <1>2
<1>5a. ASSUME NEW i \in 2..(n - 1), i >= k
       PROVE  goal2[i + 1] = goal[i + 1]
  <2>1. k <= n
    BY <1>2, <1>5a
  <2>2. CASE i + 1 = n
    BY <1>4, <1>5, <2>1, <2>2
  <2>3. CASE i + 1 # n
    <3>1. i + 1 \in 2..(n - 1)
      BY <2>3
    <3> QED
      BY <1>5, <3>1
  <2> QED
    BY <2>2, <2>3
<1> HIDE DEF ends2, k2, at2, goal2
<1>6. ASSUME NEW i \in 2..(n - 1)
      PROVE  InStep(ms2, dr, ends2, at2, past, goal2, k2, i)
  <2>1. /\ i \in Nat /\ i < n /\ ms2[i] = ms[i]
        /\ InStep(ms, dr, ends, at, past, goal, k, i)
    BY <1>2
  <2>2. /\ Begin(ms2[i + 1]) = Begin(ms[i + 1])
        /\ ms2[i + 1].purpose.kind = ms[i + 1].purpose.kind
        /\ ms2[i + 1].purpose.salt = ms[i + 1].purpose.salt
    <3>1. CASE i + 1 = n
      BY <3>1
    <3>2. CASE i + 1 # n
      <4>1. i + 1 \in 2..(n - 1)
        BY <3>2
      <4> QED
        BY <4>1
    <3> QED
      BY <3>1, <3>2
  <2>3. /\ Len(ms) \in Nat /\ Len(ms2) \in Nat /\ i < Len(ms) /\ i < Len(ms2)
        /\ (i < k <=> i < k2) /\ at2[i] = at[i] /\ k \in Nat /\ k2 \in Nat
        /\ (i >= k => goal2[i] = goal[i] /\ goal2[i + 1] = goal[i + 1])
        /\ ends \subseteq ends2 /\ dr \subseteq dr
    BY <1>2, <1>4, <1>5, <1>5a, <2>1
  <2>4. Alike(ms, ms2, at, at2, past, past, goal, goal2, k, k2, i)
    BY <2>1, <2>2, <2>3 DEF Alike
  <2> QED
    BY <2>1, <2>3, <2>4, StaysInStep
<1>7. InStep(ms2, dr, ends2, at2, past, goal2, k2, n)
  <2>1. Linked(ms2, dr, at2, n)
    BY <1>5 DEF Linked
  <2>2. Repeating(ms2, ends2, at2, goal2, n)
    BY <1>3, <1>4, <1>5 DEF Repeating
  <2>3. ~(n < k2)
    BY <1>5
  <2> QED
    BY <2>1, <2>2, <2>3 DEF InStep
<1>8. Replay(ms2, dr, ends2, at2, past, goal2, k2)
  <2>1. \A i \in 2..n : i = n \/ i \in 2..(n - 1)
    OBVIOUS
  <2>2. k2 \in 2..(n + 1)
    BY <1>5
  <2> QED
    BY <1>4, <1>6, <1>7, <2>1, <2>2 DEF Replay
<1> QED
  BY <1>8 DEF Replays

\* The machine on top is done, and what it rendered is what the CREATE of the
\* machine below carries.
LEMMA EndReplays ==
  ASSUME NEW ms, NEW ms2, NEW dr, Replays(ms, dr), NEW n \in Nat, n >= 3,
         Len(ms) = n, Len(ms2) = n - 1, \A i \in 2..(n - 2) : ms2[i] = ms[i],
         ms2[n - 1].purpose = ms[n - 1].purpose,
         Begin(ms2[n - 1]) = Begin(ms[n - 1]),
         Work(ms[n]).over = TRUE, ms[n].purpose.kind \in Creates,
         Work(ms2[n - 1]) = Goes(ms[n].purpose.kind, ms[n].purpose.salt,
                                 Work(ms[n - 1]), Work(ms[n]))
  PROVE  Replays(ms2, dr)
<1> DEFINE p == n - 1
<1>0. p \in Nat /\ p \in 2..n /\ n = p + 1 /\ p # n /\ p < n
  OBVIOUS
<1> HIDE DEF p
<1>1. PICK ends, at, past, goal, k : Replay(ms, dr, ends, at, past, goal, k)
  BY DEF Replays
<1>2. /\ Justified(dr, ends) /\ k \in Nat /\ k \in 2..(n + 1)
      /\ \A i \in 2..n : InStep(ms, dr, ends, at, past, goal, k, i)
  BY <1>1 DEF Replay
<1> DEFINE e == at[n]
           b == Begin(ms[n])
           kind == ms[n].purpose.kind
           salt == ms[n].purpose.salt
           w == Finished(kind, salt, at[p], e)
           ends2 == IF k <= n THEN ends ELSE ends \cup Ending(past[n], e)
           k2 == IF k <= n THEN k ELSE n
           at2 == [i \in 2..p |-> IF i = p THEN w ELSE at[i]]
           past2 == [i \in 2..p |-> IF i = p THEN past[p] \cup {w} ELSE past[i]]
<1>3. at[n] = Work(ms[n]) /\ InStep(ms, dr, ends, at, past, goal, k, n)
  BY <1>2 DEF InStep, Linked
<1>4. /\ InStep(ms, dr, ends, at, past, goal, k, p)
      /\ Work(ms[p]) = Waiting(at[p]) /\ ~at[p].over
      /\ <<at[p].gen, Drew(kind, salt)>> \in dr /\ <<at[p].src, Forked>> \in dr
      /\ b = BeginsBelow(at[p])
  <2>1. InStep(ms, dr, ends, at, past, goal, k, p)
    BY <1>0, <1>2
  <2>2. Linked(ms, dr, at, p) /\ p < Len(ms) /\ n = p + 1
    BY <1>0, <2>1 DEF InStep
  <2> QED
    BY <2>1, <2>2 DEF Linked
<1>5. Work(ms2[p]) = w
  BY <1>0, <1>3, <1>4 DEF Finished, p
<1>6. Justified(dr, ends2) /\ <<b, e>> \in ends2 /\ ends \subseteq ends2
      /\ (k <= n => goal[n] = e)
  <2>1. CASE k <= n
    <3>1. Repeating(ms, ends, at, goal, n)
      BY <1>2, <1>3, <2>1 DEF InStep
    <3>2. <<at[n], goal[n]>> \in ends /\ at[n].over /\ <<b, goal[n]>> \in ends
      BY <1>3, <3>1 DEF Repeating
    <3>3. at[n] = goal[n]
      BY <1>2, <3>2, AtGoal
    <3> QED
      BY <1>2, <2>1, <3>2, <3>3
  <2>2. CASE k > n
    <3>1. Fresh(ms, dr, ends, at, past, n)
      BY <1>3, <2>2 DEF InStep
    <3>2. /\ b \in past[n] /\ e.over = TRUE
          /\ \A v \in past[n] : v = e \/ (~v.over /\ \E x \in past[n] : Moves(dr, ends, v, x))
      BY <1>3, <3>1 DEF Fresh
    <3> DEFINE gone == past[n]
    <3> HIDE DEF b, e, gone
    <3>3. Justified(dr, ends \cup Ending(gone, e))
      <4>1. \A v \in gone : v = e \/ (~v.over /\ \E x \in gone : Moves(dr, ends, v, x))
        BY <3>2 DEF gone
      <4> QED
        BY <1>2, <3>2, <4>1, JustifiedPast
    <3>4. <<b, e>> \in Ending(gone, e)
      BY <3>2 DEF Ending, gone
    <3> USE DEF gone
    <3> QED
      BY <1>2, <2>2, <3>2, <3>3, <3>4
  <2> QED
    BY <1>2, <2>1, <2>2
<1>7. /\ k2 \in Nat /\ k2 \in 2..n /\ \A i \in 2..p : i < k <=> i < k2
      /\ \A i \in 2..p : i # p => at2[i] = at[i] /\ past2[i] = past[i]
      /\ at2[p] = w /\ past2[p] = past[p] \cup {w}
  BY <1>0, <1>2
<1> HIDE DEF ends2, k2, at2, past2, w
<1>8. ASSUME NEW i \in 2..p, i # p
      PROVE  InStep(ms2, dr, ends2, at2, past2, goal, k2, i)
  <2>1. /\ i \in Nat /\ i < n /\ i < n - 1 /\ n - 1 \in Nat /\ ms2[i] = ms[i]
        /\ InStep(ms, dr, ends, at, past, goal, k, i)
    BY <1>0, <1>2, <1>8 DEF p
  <2>2. /\ Begin(ms2[i + 1]) = Begin(ms[i + 1])
        /\ ms2[i + 1].purpose = ms[i + 1].purpose
    <3>1. CASE i + 1 = n - 1
      BY <3>1
    <3>2. CASE i + 1 # n - 1
      <4>1. i + 1 \in 2..(n - 2)
        BY <1>0, <1>8, <3>2 DEF p
      <4> QED
        BY <4>1
    <3> QED
      BY <3>1, <3>2
  <2>3. dr \subseteq dr
    OBVIOUS
  <2>4. at2[i] = at[i] /\ past2[i] = past[i] /\ (i < k <=> i < k2)
    BY <1>7, <1>8
  <2>5. Alike(ms, ms2, at, at2, past, past2, goal, goal, k, k2, i)
    BY <2>1, <2>2, <2>4 DEF Alike
  <2> QED
    BY <1>2, <1>6, <1>7, <2>1, <2>3, <2>5, StaysInStep
<1>9. InStep(ms2, dr, ends2, at2, past2, goal, k2, p)
  <2>1. Linked(ms2, dr, at2, p)
    BY <1>0, <1>5, <1>7 DEF Linked, p
  <2>2. ASSUME p < k2
        PROVE  Fresh(ms2, dr, ends2, at2, past2, p)
    <3>1. Fresh(ms, dr, ends, at, past, p)
      BY <1>0, <1>4, <1>7, <2>2 DEF InStep
    <3>2. Moves(dr, ends2, at[p], w)
      <4>1. Creates1(dr, ends2, at[p], w)
        BY <1>4, <1>6 DEF Creates1, w
      <4> QED
        BY <4>1 DEF Moves
    <3>3. ms2[p].purpose = ms[p].purpose /\ Begin(ms2[p]) = Begin(ms[p])
      BY DEF p
    <3>4. dr \subseteq dr
      OBVIOUS
    <3> QED
      BY <1>4, <1>6, <1>7, <3>1, <3>2, <3>3, <3>4, FreshGrows
  <2>3. ASSUME p >= k2
        PROVE  Repeating(ms2, ends2, at2, goal, p)
    <3>1. k <= n /\ p >= k
      BY <1>0, <1>2, <1>7, <2>3
    <3>2. Repeating(ms, ends, at, goal, p)
      BY <1>4, <3>1 DEF InStep
    <3>3. /\ <<Begin(ms[p]), goal[p]>> \in ends
          /\ <<Finished(kind, salt, at[p], goal[n]), goal[p]>> \in ends
          /\ ms[p].purpose.pass = "final" => goal[p].code = ms[p].purpose.probe
      BY <1>0, <3>2 DEF Repeating
    <3>4. <<w, goal[p]>> \in ends2 /\ <<Begin(ms[p]), goal[p]>> \in ends2
      BY <1>6, <3>1, <3>3 DEF w
    <3>5. ms2[p].purpose = ms[p].purpose /\ Begin(ms2[p]) = Begin(ms[p]) /\ ~(p < Len(ms2))
      BY <1>0 DEF p
    <3> QED
      BY <1>7, <3>3, <3>4, <3>5 DEF Repeating
  <2> QED
    BY <2>1, <2>2, <2>3 DEF InStep
<1>10. Replay(ms2, dr, ends2, at2, past2, goal, k2)
  <2>1. Len(ms2) = p /\ k2 \in 2..(p + 1)
    BY <1>0, <1>7 DEF p
  <2> QED
    BY <1>6, <1>8, <1>9, <2>1 DEF Replay
<1> QED
  BY <1>10 DEF Replays

-----------------------------------------------------------------------------
(* What the actions make of a machine's work.                              *)

After(v, gen, src) ==
  [gas |-> v.gas, memory |-> v.memory, code |-> v.code, bytes |-> v.bytes,
   gen |-> gen, src |-> src, over |-> FALSE, callable |-> v.callable]

\* Works on as m does, away from the root.
Inside(m) == Typed(m) /\ ~m.over /\ ~IsRoot(m) /\ ~m.grow

LEMMA OutcomeAfter ==
  ASSUME NEW v, NEW gen, NEW src
  PROVE  /\ \A op : Outcome(After(v, gen, src), op, gen, src) = Outcome(v, op, gen, src)
         /\ Stops(After(v, gen, src), gen, src) = Stops(v, gen, src)
  BY DEF Outcome, After, Stops, Affordable

LEMMA BrokenWork ==
  ASSUME NEW m, Inside(m)
  PROVE  /\ Work(Broken(m)) = Stops(Work(m), m.gen, m.src)
         /\ Broken(m).purpose = m.purpose /\ Broken(m).callable = m.callable
<1> DEFINE n == Broken(m)
<1>1. /\ n.gas = m.gas /\ n.memory = m.memory /\ n.code = m.code /\ n.bytes = m.bytes
      /\ n.gen = m.gen /\ n.src = m.src /\ n.over = TRUE /\ n.callable = m.callable
      /\ n.purpose = m.purpose
  BY DEF Broken, Inside, Typed, WithFields, IsRoot
<1> HIDE DEF n
<1>2. Work(n) = Stops(Work(m), m.gen, m.src)
  BY <1>1 DEF Work, Stops
<1> QED
  BY <1>1, <1>2 DEF n

LEMMA CommittedWork ==
  ASSUME NEW m, Inside(m), NEW op, Affordable(m, op)
  PROVE  /\ Work(Committed(m, op)) = Outcome(Work(m), op, m.gen, m.src)
         /\ Committed(m, op).purpose = m.purpose
         /\ Committed(m, op).callable = m.callable
         /\ Committed(m, op).grow = m.grow /\ WithFields(Committed(m, op))
<1> DEFINE n == Committed(m, op)
           v == Work(m)
<1>1. /\ n.gas = m.gas - ReqGas(Priced(op), m.memory, m.gas)
      /\ n.memory = SatAdd(m.memory, ProvMemory(Priced(op), m.memory))
      /\ n.code = Append(m.code, op) /\ n.bytes = m.bytes + RenderedLen(op)
      /\ n.gen = m.gen /\ n.src = m.src /\ n.over = m.over /\ n.callable = m.callable
      /\ n.purpose = m.purpose /\ n.grow = m.grow /\ WithFields(n)
  BY DEF Committed, Inside, Typed, WithFields
<1>2. n.over = FALSE
  BY <1>1 DEF Inside, Typed
<1> HIDE DEF n
<1>3. /\ v.gas = m.gas /\ v.memory = m.memory /\ v.code = m.code
      /\ v.bytes = m.bytes /\ v.callable = m.callable
  BY DEF Work
<1>4. Affordable(v, op)
  BY <1>3 DEF Affordable
<1>5. Work(n) = Outcome(v, op, m.gen, m.src)
  <2> HIDE DEF v
  <2> QED
    BY <1>1, <1>2, <1>3, <1>4 DEF Work, Outcome
<1> QED
  BY <1>1, <1>5 DEF n

LEMMA IngestedWork ==
  ASSUME NEW m, Inside(m), NEW op
  PROVE  /\ Work(Ingested(m, op)) = Outcome(Work(m), op, m.gen, m.src)
         /\ Ingested(m, op).purpose = m.purpose
         /\ Ingested(m, op).callable = m.callable
<1>1. CASE Affordable(m, op)
  BY <1>1, CommittedWork DEF Ingested
<1>2. CASE ~Affordable(m, op)
  <2>1. ~Affordable(Work(m), op)
    BY <1>2 DEF Affordable, Work
  <2>2. Outcome(Work(m), op, m.gen, m.src) = Stops(Work(m), m.gen, m.src)
    BY <2>1 DEF Outcome
  <2> QED
    BY <1>2, <2>2, BrokenWork DEF Ingested
<1> QED
  BY <1>1, <1>2

LEMMA DeployedWork ==
  ASSUME NEW m, Inside(m), NEW op, NEW address, NEW nonce
  PROVE  /\ Work(Deployed(m, op, address, nonce)) = Outcome(Work(m), op, m.gen, m.src)
         /\ Deployed(m, op, address, nonce).purpose = m.purpose
         /\ Deployed(m, op, address, nonce).callable = m.callable
<1>1. CASE Affordable(m, op)
  <2> DEFINE c == Committed(m, op)
             n == Recorded(c, address, nonce)
  <2>1. /\ Work(c) = Outcome(Work(m), op, m.gen, m.src) /\ c.purpose = m.purpose
        /\ c.callable = m.callable /\ ~c.grow /\ WithFields(c)
    BY <1>1, CommittedWork DEF Inside
  <2> HIDE DEF c
  <2>2. /\ n.gas = c.gas /\ n.memory = c.memory /\ n.code = c.code /\ n.bytes = c.bytes
        /\ n.gen = c.gen /\ n.src = c.src /\ n.over = c.over
        /\ n.callable = c.callable /\ n.purpose = c.purpose
    BY <2>1 DEF Recorded, WithFields
  <2> HIDE DEF n
  <2>3. Work(n) = Work(c)
    BY <2>2 DEF Work
  <2> QED
    BY <1>1, <2>1, <2>2, <2>3 DEF Deployed, n, c
<1>2. CASE ~Affordable(m, op)
  <2>1. ~Affordable(Work(m), op)
    BY <1>2 DEF Affordable, Work
  <2>2. Outcome(Work(m), op, m.gen, m.src) = Stops(Work(m), m.gen, m.src)
    BY <2>1 DEF Outcome
  <2> QED
    BY <1>2, <2>2, BrokenWork DEF Deployed
<1> QED
  BY <1>1, <1>2

LEMMA SubMachineWork ==
  ASSUME NEW parent, NEW address, NEW purpose
  PROVE  LET m == SubMachine(parent, address, purpose)
         IN /\ Work(m) = Begin(m) /\ m.purpose = purpose
            /\ m.callable = parent.callable
  BY DEF SubMachine, WithContext, Work, Begin

LEMMA TopInside ==
  ASSUME IInv, Depth > 1, Looping
  PROVE  /\ Inside(AfterDraw) /\ Inside(AfterMaterialization)
         /\ Work(AfterDraw) = After(Work(Top), Advance(Top.gen), Top.src)
         /\ AfterDraw.gen = Advance(Top.gen) /\ AfterDraw.src = Top.src
         /\ Work(AfterMaterialization) = Waiting(Work(Top))
         /\ Waiting(Work(Top)) = After(Work(Top), Advance(Top.gen), Advance(Top.src))
         /\ AfterMaterialization.gen = Advance(Top.gen)
         /\ AfterMaterialization.src = Advance(Top.src)
         /\ AfterDraw.purpose = Top.purpose /\ AfterDraw.callable = Top.callable
         /\ AfterMaterialization.purpose = Top.purpose
         /\ AfterMaterialization.callable = Top.callable
         /\ Work(Top).gen = Top.gen /\ Work(Top).src = Top.src
         /\ ~Work(Top).over /\ Work(Top).callable = Top.callable
         /\ Work(Top).gas = Top.gas
<1> DEFINE m == Top
           n == AfterDraw
           o == AfterMaterialization
<1>1. WithFields(m) /\ m.over = FALSE
  BY Facts DEF WellMade, Typed, Looping
<1>2. Inside(n) /\ Inside(o)
  BY Facts, AfterFollows DEF Inside, Follows, WellMade, IsRoot, Looping
<1>3. /\ n.gen = Advance(m.gen) /\ n.src = m.src /\ n.gas = m.gas
      /\ n.memory = m.memory /\ n.code = m.code /\ n.bytes = m.bytes
      /\ n.over = m.over /\ n.callable = m.callable /\ n.purpose = m.purpose
      /\ WithFields(n)
  <2> HIDE DEF m
  <2> QED
    BY <1>1 DEF AfterDraw, WithFields, m
<1>4. /\ o.gen = n.gen /\ o.src = Advance(n.src) /\ o.gas = n.gas
      /\ o.memory = n.memory /\ o.code = n.code /\ o.bytes = n.bytes
      /\ o.over = n.over /\ o.callable = n.callable /\ o.purpose = n.purpose
  <2> HIDE DEF n
  <2> QED
    BY <1>3 DEF AfterMaterialization, WithFields, n
<1> HIDE DEF m, n, o
<1>5. Work(n) = After(Work(m), Advance(m.gen), m.src)
  BY <1>1, <1>3 DEF Work, After
<1>6. Work(o) = Waiting(Work(m))
  BY <1>1, <1>3, <1>4 DEF Work, Waiting
<1>7. Waiting(Work(m)) = After(Work(m), Advance(m.gen), Advance(m.src))
  BY DEF Work, Waiting, After
<1>8. /\ Work(m).gen = m.gen /\ Work(m).src = m.src /\ ~Work(m).over
      /\ Work(m).callable = m.callable /\ Work(m).gas = m.gas
  BY <1>1 DEF Work
<1> QED
  BY <1>2, <1>3, <1>4, <1>5, <1>6, <1>7, <1>8 DEF m, n, o

-----------------------------------------------------------------------------
(* The actions.                                                            *)

\* The machine on top goes on as m.
LEMMA TopTurns ==
  ASSUME IInv, Replays(machines, drawn), Depth > 1, Looping, NEW m, BecomesTop(m),
         m.purpose = Top.purpose, m.callable = Top.callable, drawn \subseteq drawn',
         \A ends : Moves(drawn', ends, Work(Top), Work(m)),
         \A ends, w : Moves(drawn, ends, Work(Top), w) => w = Work(m)
  PROVE  Replays(machines', drawn')
<1> DEFINE n == Depth
           ms == machines
           ms2 == machines'
           v == Work(Top)
<1>1. /\ Sequence(ms) /\ ms # <<>> /\ n = Len(ms) /\ n \in Nat /\ n >= 2
      /\ Top = ms[n] /\ ~v.over
  BY Facts, TopInside DEF Depth, Nested, Top
<1>2. ms2 = [ms EXCEPT ![Len(ms)] = m]
  BY DEF BecomesTop, Depth
<1>3. /\ Len(ms2) = n /\ ms2[n] = m /\ \A i \in 1..n : i # n => ms2[i] = ms[i]
  BY <1>1, <1>2, ReplaceLast
<1>4. Begin(ms2[n]) = Begin(ms[n])
  BY <1>1, <1>3 DEF Begin
<1>5. \A i \in 2..(n - 1) : ms2[i] = ms[i]
  BY <1>1, <1>3
<1>6. /\ \A ends : Moves(drawn', ends, Work(ms[n]), Work(ms2[n]))
      /\ \A ends, w : Moves(drawn, ends, Work(ms[n]), w) => w = Work(ms2[n])
  BY <1>1, <1>3
<1>7. ms2[n].purpose = ms[n].purpose /\ ~Work(ms[n]).over /\ Len(ms) = n
  BY <1>1, <1>3
<1> HIDE DEF ms, ms2, n
<1>8. Replays(ms2, drawn')
  BY <1>1, <1>3, <1>4, <1>5, <1>6, <1>7, TurnReplays DEF ms
<1> QED
  BY <1>8 DEF ms2

LEMMA RootTurns ==
  ASSUME IInv, Depth = 1, NEW m, BecomesTop(m)
  PROVE  Replays(machines', drawn')
<1>1. Sequence(machines) /\ machines # <<>> /\ Len(machines) = 1
  BY Facts DEF Depth, Nested
<1>2. machines' = [machines EXCEPT ![Len(machines)] = m]
  BY DEF BecomesTop, Depth
<1>3. Len(machines') = 1
  BY <1>1, <1>2, ReplaceLast
<1> QED
  BY <1>3, RootReplays

LEMMA IngestPushReplays == JInv /\ IngestPush => Replays(machines, drawn)'
<1> SUFFICES ASSUME JInv, IngestPush PROVE Replays(machines', drawn')
  OBVIOUS
<1> DEFINE m == Ingested(AfterDraw, PushOp)
           v == Work(Top)
           w == Outcome(v, PushOp, Advance(v.gen), v.src)
<1>1. IInv /\ Replays(machines, drawn)
  BY DEF JInv
<1>2. Looping /\ BecomesTop(m) /\ Yields({<<Top.gen, Drew("Push", 0)>>})
  BY DEF IngestPush
<1>3. CASE Depth = 1
  BY <1>1, <1>2, <1>3, RootTurns
<1>4. CASE Depth > 1
  <2>1. Work(m) = w /\ m.purpose = Top.purpose /\ m.callable = Top.callable
    BY <1>1, <1>2, <1>4, TopInside, IngestedWork, OutcomeAfter
  <2>2. v.gen = Top.gen
    BY <1>1, <1>2, <1>4, TopInside
  <2>3. Yields({<<v.gen, Drew("Push", 0)>>})
    BY <1>2, <2>2
  <2> HIDE DEF v, m
  <2>4. /\ \A ends : Moves(drawn', ends, v, w)
        /\ \A ends, x : Moves(drawn, ends, v, x) => x = w
    BY <2>3, PushDetermined
  <2>5. drawn \subseteq drawn'
    BY <2>3, OneYield
  <2> QED
    BY <1>1, <1>2, <1>4, <2>1, <2>4, <2>5, TopTurns DEF v
<1> QED
  BY <1>1, <1>3, <1>4, Facts

LEMMA IngestCallReplays == JInv /\ IngestCall => Replays(machines, drawn)'
<1> SUFFICES ASSUME JInv, IngestCall PROVE Replays(machines', drawn')
  OBVIOUS
<1>1. IInv /\ Replays(machines, drawn)
  BY DEF JInv
<1>2. PICK i \in DOMAIN Top.callable :
        /\ Yields({<<Top.gen, Drew("Call", 0)>>, <<Top.src, Index(i)>>})
        /\ BecomesTop(Ingested(AfterMaterialization,
                               CallOp(Top.gas \div 4, Top.callable[i])))
  BY DEF IngestCall
<1> DEFINE m == Ingested(AfterMaterialization, CallOp(Top.gas \div 4, Top.callable[i]))
           v == Work(Top)
           w == Outcome(v, CallOp(v.gas \div 4, v.callable[i]),
                        Advance(v.gen), Advance(v.src))
<1>3. Looping
  BY DEF IngestCall
<1>4. CASE Depth = 1
  BY <1>1, <1>2, <1>4, RootTurns
<1>5. CASE Depth > 1
  <2>1. v.gen = Top.gen /\ v.src = Top.src /\ v.callable = Top.callable /\ v.gas = Top.gas
    BY <1>1, <1>3, <1>5, TopInside
  <2>2. Work(m) = w /\ m.purpose = Top.purpose /\ m.callable = Top.callable
    <3> HIDE DEF v
    <3> DEFINE op == CallOp(Top.gas \div 4, Top.callable[i])
    <3>1. CallOp(v.gas \div 4, v.callable[i]) = op
      BY <2>1
    <3> HIDE DEF op
    <3>2. /\ Work(Ingested(AfterMaterialization, op))
               = Outcome(v, op, Advance(v.gen), Advance(v.src))
          /\ Ingested(AfterMaterialization, op).purpose = Top.purpose
          /\ Ingested(AfterMaterialization, op).callable = Top.callable
      BY <1>1, <1>3, <1>5, <2>1, TopInside, IngestedWork, OutcomeAfter DEF v
    <3> QED
      BY <3>1, <3>2 DEF op
  <2>3. i \in DOMAIN v.callable /\ Yields({<<v.gen, Drew("Call", 0)>>, <<v.src, Index(i)>>})
    BY <1>2, <2>1
  <2> HIDE DEF v, m
  <2>4. /\ \A ends : Moves(drawn', ends, v, w)
        /\ \A ends, x : Moves(drawn, ends, v, x) => x = w
    BY <2>3, CallDetermined
  <2>5. drawn \subseteq drawn'
    BY <2>3, TwoYields
  <2>6. BecomesTop(m)
    BY <1>2 DEF m
  <2> QED
    BY <1>1, <1>3, <1>5, <2>2, <2>4, <2>5, <2>6, TopTurns DEF v
<1> QED
  BY <1>1, <1>4, <1>5, Facts

LEMMA InputEndsReplays == JInv /\ InputEnds => Replays(machines, drawn)'
<1> SUFFICES ASSUME JInv, InputEnds PROVE Replays(machines', drawn')
  OBVIOUS
<1> DEFINE m == [AfterDraw EXCEPT !.over = TRUE]
           v == Work(Top)
           w == Stops(v, Advance(v.gen), v.src)
<1>1. IInv /\ Replays(machines, drawn)
  BY DEF JInv
<1>2. Looping /\ BecomesTop(m) /\ Yields({<<Top.gen, UsedUp>>}) /\ Depth > 1
  BY DEF InputEnds
<1>3. v.gen = Top.gen /\ v.src = Top.src
  BY <1>1, <1>2, TopInside
<1>4. Work(m) = w /\ m.purpose = Top.purpose /\ m.callable = Top.callable
  <2>1. m = Broken(AfterDraw)
    BY <1>1, <1>2, TopInside DEF Broken, Inside, IsRoot
  <2> HIDE DEF m
  <2> QED
    BY <1>1, <1>2, <1>3, <2>1, TopInside, BrokenWork, OutcomeAfter
<1>5. Yields({<<v.gen, UsedUp>>})
  BY <1>2, <1>3
<1> HIDE DEF v, m
<1>6. /\ \A ends : Moves(drawn', ends, v, w)
      /\ \A ends, x : Moves(drawn, ends, v, x) => x = w
  BY <1>5, EndDetermined
<1>7. drawn \subseteq drawn'
  BY <1>5, OneYield
<1> QED
  BY <1>1, <1>2, <1>4, <1>6, <1>7, TopTurns DEF v

LEMMA MaterializationStarvesReplays ==
  JInv /\ MaterializationStarves => Replays(machines, drawn)'
<1> SUFFICES ASSUME JInv, MaterializationStarves PROVE Replays(machines', drawn')
  OBVIOUS
<1> DEFINE m == Broken(AfterMaterialization)
           v == Work(Top)
           w == Stops(v, Advance(v.gen), Advance(v.src))
<1>1. IInv /\ Replays(machines, drawn)
  BY DEF JInv
<1>2. PICK kind \in {"Call", "Create", "Create2"} :
        \E salt : Yields({<<Top.gen, Drew(kind, salt)>>, <<Top.src, UsedUp>>})
  BY DEF MaterializationStarves
<1>2a. PICK salt : Yields({<<Top.gen, Drew(kind, salt)>>, <<Top.src, UsedUp>>})
  BY <1>2
<1>3. Looping /\ BecomesTop(m)
  BY DEF MaterializationStarves
<1>4. CASE Depth = 1
  BY <1>1, <1>3, <1>4, RootTurns
<1>5. CASE Depth > 1
  <2>1. v.gen = Top.gen /\ v.src = Top.src
    BY <1>1, <1>3, <1>5, TopInside
  <2>2. Work(m) = w /\ m.purpose = Top.purpose /\ m.callable = Top.callable
    BY <1>1, <1>3, <1>5, <2>1, TopInside, BrokenWork, OutcomeAfter
  <2>3. Yields({<<v.gen, Drew(kind, salt)>>, <<v.src, UsedUp>>})
    BY <1>2a, <2>1
  <2> HIDE DEF v, m
  <2>4. /\ \A ends : Moves(drawn', ends, v, w)
        /\ \A ends, x : Moves(drawn, ends, v, x) => x = w
    BY <2>3, StarveDetermined
  <2>5. drawn \subseteq drawn'
    BY <2>3, TwoYields
  <2> QED
    BY <1>1, <1>3, <1>5, <2>2, <2>4, <2>5, TopTurns DEF v
<1> QED
  BY <1>1, <1>4, <1>5, Facts

LEMMA IngestExplicitReplays == JInv /\ IngestExplicit => Replays(machines, drawn)'
<1> SUFFICES ASSUME JInv, IngestExplicit PROVE Replays(machines', drawn')
  OBVIOUS
<1>1. IInv /\ Depth = 1
  BY DEF JInv, IngestExplicit
<1>2. \E m : BecomesTop(m)
  BY DEF IngestExplicit
<1> QED
  BY <1>1, <1>2, RootTurns

LEMMA StartsReplays ==
  ASSUME JInv, NEW kind \in Creates, NEW pass \in {"only", "probe"}, NEW salt,
         NEW address, Start(PurposeOf(kind, pass, salt), address)
  PROVE  Replays(machines', drawn')
<1> DEFINE purpose == PurposeOf(kind, pass, salt)
           n == Depth
           ms == machines
           ms2 == machines'
           m == SubMachine(Top, address, purpose)
           t == AfterMaterialization
           v == Work(Top)
<1>1. IInv /\ Replays(machines, drawn)
  BY DEF JInv
<1>2. /\ purpose.kind = kind /\ purpose.pass = pass /\ purpose.salt = salt
      /\ purpose.budget = SubBudget(Top.gas) /\ purpose.gen = GenFork(Top.src)
      /\ purpose.src = MachineFork(Top.src)
  BY DEF PurposeOf
<1> HIDE DEF purpose
<1>3. /\ Looping
      /\ Yields({<<Top.gen, Drew(kind, salt)>>, <<Top.src, Forked>>})
      /\ ms2 = Append([ms EXCEPT ![Len(ms)] = t], m)
  BY <1>2 DEF Start, Depth, purpose
<1>4. Work(m) = Begin(m) /\ m.purpose = purpose /\ m.callable = Top.callable
  BY SubMachineWork
<1>5. /\ Sequence(ms) /\ ms # <<>> /\ n = Len(ms) /\ n \in Nat /\ n >= 1 /\ Top = ms[n]
  BY <1>1, Facts DEF Depth, Nested, Top
<1>6. /\ Len(ms2) = n + 1 /\ ms2[n + 1] = m /\ ms2[n] = t
      /\ \A i \in 1..n : i # n => ms2[i] = ms[i]
  <2> DEFINE mid == [ms EXCEPT ![Len(ms)] = t]
  <2>4. n \in 1..n
    BY <1>5
  <2> HIDE DEF ms, ms2, m, n, t
  <2>0. mid = [ms EXCEPT ![Len(ms)] = t]
    OBVIOUS
  <2> HIDE DEF mid
  <2>1. /\ Sequence(mid) /\ Len(mid) = n /\ mid[n] = t
        /\ \A i \in 1..n : i # n => mid[i] = ms[i]
    <3>1. Sequence(ms) /\ ms # <<>> /\ n = Len(ms)
      BY <1>5
    <3>2. Sequence(mid)
      BY <2>0, <3>1, ReplaceLast
    <3>3. Len(mid) = Len(ms)
      BY <2>0, <3>1, ReplaceLast
    <3>4. mid[Len(ms)] = t
      BY <2>0, <3>1, ReplaceLast
    <3>5. \A i \in 1..Len(ms) : i # Len(ms) => mid[i] = ms[i]
      BY <2>0, <3>1, ReplaceLast
    <3> QED
      BY <3>1, <3>2, <3>3, <3>4, <3>5
  <2>2. /\ Len(Append(mid, m)) = n + 1 /\ Append(mid, m)[n + 1] = m
        /\ \A i \in 1..n : Append(mid, m)[i] = mid[i]
    BY <2>1, AppendSequence
  <2>3. ms2 = Append(mid, m)
    BY <1>3 DEF mid
  <2> QED
    BY <2>1, <2>2, <2>3, <2>4
<1> HIDE DEF m, t
<1>7. CASE n = 1
  <2>1. Len(ms2) = 2 /\ ms2[2] = m /\ m.purpose.pass # "final"
    BY <1>2, <1>4, <1>6, <1>7
  <2> HIDE DEF ms2
  <2>2. Replays(ms2, drawn')
    BY <1>4, <2>1, FirstReplays
  <2> QED
    BY <2>2 DEF ms2
<1>8. CASE n >= 2
  <2>1. /\ Work(t) = Waiting(v) /\ t.purpose = Top.purpose /\ t.callable = Top.callable
        /\ v.gen = Top.gen /\ v.src = Top.src /\ ~v.over /\ v.callable = Top.callable
        /\ v.gas = Top.gas
    BY <1>1, <1>3, <1>5, <1>8, TopInside DEF t
  <2> HIDE DEF v
  <2>2. Begin(m) = BeginsBelow(v)
    BY <1>2, <1>4, <2>1 DEF Begin, BeginsBelow
  <2>3. Begin(t) = Begin(Top)
    BY <2>1 DEF Begin
  <2>4. Yields({<<v.gen, Drew(kind, salt)>>, <<v.src, Forked>>})
    BY <1>3, <2>1
  <2>5. /\ drawn \subseteq drawn' /\ <<v.gen, Drew(kind, salt)>> \in drawn'
        /\ <<v.src, Forked>> \in drawn'
    BY <2>4, TwoYields
  <2>6. Forks(drawn, kind, salt, v)
    BY <2>4, ForkDetermined DEF Forks
  <2>7. \A i \in 2..(n - 1) : ms2[i] = ms[i]
    BY <1>5, <1>6
  <2>8. /\ Work(ms[n]) = v /\ Len(ms) = n /\ ms2[n].purpose = ms[n].purpose
        /\ Begin(ms2[n]) = Begin(ms[n]) /\ Work(ms2[n]) = Waiting(Work(ms[n]))
        /\ Work(ms2[n + 1]) = BeginsBelow(Work(ms[n]))
        /\ Begin(ms2[n + 1]) = BeginsBelow(Work(ms[n]))
        /\ ~Work(ms[n]).over
    BY <1>4, <1>5, <1>6, <2>1, <2>2, <2>3 DEF v
  <2>9. /\ ms2[n + 1].purpose.pass # "final" /\ ms2[n + 1].purpose.kind = kind
        /\ ms2[n + 1].purpose.salt = salt
    BY <1>2, <1>4, <1>6
  <2> HIDE DEF ms, ms2, n
  <2>10. Replays(ms2, drawn')
    BY <1>1, <1>5, <1>6, <1>8, <2>5, <2>6, <2>7, <2>8, <2>9, StartReplays DEF ms
  <2> QED
    BY <2>10 DEF ms2
<1> QED
  BY <1>5, <1>7, <1>8

LEMMA StartCreateReplays == JInv /\ StartCreate => Replays(machines, drawn)'
<1> SUFFICES ASSUME JInv, StartCreate PROVE Replays(machines', drawn')
  OBVIOUS
<1>1. \E address : Start(PurposeOf("Create", "only", 0), address)
  BY DEF StartCreate
<1>2. "Create" \in Creates
  BY DEF Creates
<1> QED
  BY <1>1, <1>2, StartsReplays

LEMMA StartCreate2Replays == JInv /\ StartCreate2 => Replays(machines, drawn)'
<1> SUFFICES ASSUME JInv, StartCreate2 PROVE Replays(machines', drawn')
  OBVIOUS
<1>1. \E salt, address : Start(PurposeOf("Create2", "probe", salt), address)
  BY DEF StartCreate2
<1>2. "Create2" \in Creates
  BY DEF Creates
<1> QED
  BY <1>1, <1>2, StartsReplays

LEMMA StartFinalPassReplays == JInv /\ StartFinalPass => Replays(machines, drawn)'
<1> SUFFICES ASSUME JInv, StartFinalPass PROVE Replays(machines', drawn')
  OBVIOUS
<1> DEFINE address == Create2Address(Parent.address, Top.purpose.salt, Top.code)
           purpose == [Top.purpose EXCEPT !.pass = "final", !.probe = Top.code]
           m == SubMachine(Parent, address, purpose)
           n == Depth
           ms == machines
           ms2 == machines'
<1>1. IInv /\ Replays(machines, drawn)
  BY DEF JInv
<1>2. /\ ms2 = [ms EXCEPT ![Len(ms)] = m] /\ n > 1 /\ drawn' = drawn /\ Top.over
  BY DEF StartFinalPass, Over, BecomesTop, Depth
<1>3. /\ purpose.kind = Top.purpose.kind /\ purpose.salt = Top.purpose.salt
      /\ purpose.budget = Top.purpose.budget /\ purpose.gen = Top.purpose.gen
      /\ purpose.src = Top.purpose.src /\ purpose.probe = Top.code
  <2>1. Purposeful(Top.purpose)
    BY <1>1, Facts DEF WellMade, Typed
  <2> QED
    BY <2>1 DEF Purposeful
<1> HIDE DEF address, purpose
<1>4. Work(m) = Begin(m) /\ m.purpose = purpose /\ m.callable = Parent.callable
  BY SubMachineWork
<1>5. Parent.callable = Top.callable
  BY <1>1, <1>2, Facts, ParentFacts
<1> HIDE DEF m
<1>6. Begin(m) = Begin(Top)
  BY <1>3, <1>4, <1>5 DEF Begin
<1>7. /\ Sequence(ms) /\ ms # <<>> /\ n = Len(ms) /\ n \in Nat /\ n >= 2 /\ Top = ms[n]
      /\ Top.over = TRUE
  BY <1>1, <1>2, Facts DEF Depth, Nested, Top, WellMade, Typed
<1>8. Len(ms2) = n /\ ms2[n] = m /\ \A i \in 1..n : i # n => ms2[i] = ms[i]
  BY <1>2, <1>7, ReplaceLast
<1>9. \A i \in 2..(n - 1) : ms2[i] = ms[i]
  BY <1>7, <1>8
<1>10. Work(Top).over = TRUE /\ Work(Top).code = Top.code
  BY <1>7 DEF Work
<1>11. /\ ms2[n].purpose.kind = ms[n].purpose.kind
       /\ ms2[n].purpose.salt = ms[n].purpose.salt
       /\ Work(ms2[n]) = Begin(ms[n]) /\ Begin(ms2[n]) = Begin(ms[n])
       /\ Work(ms[n]).over = TRUE /\ ms2[n].purpose.probe = Work(ms[n]).code
  BY <1>3, <1>4, <1>6, <1>7, <1>8, <1>10
<1> HIDE DEF ms, ms2, n
<1>12. Replays(ms2, drawn)
  BY <1>1, <1>7, <1>8, <1>9, <1>11, FinalReplays DEF ms
<1> QED
  BY <1>2, <1>12 DEF ms2

\* A sub-machine is done: m is what its parent becomes.
LEMMA ParentGoesOn ==
  ASSUME JInv, Depth > 1, Top.over, NEW m, ReturnsTo(m),
         m.purpose = Parent.purpose, m.callable = Parent.callable,
         Depth > 2 => Work(m) = Goes(Top.purpose.kind, Top.purpose.salt,
                                     Work(Parent), Work(Top))
  PROVE  Replays(machines', drawn')
<1> DEFINE n == Depth
           ms == machines
           ms2 == machines'
<1>1. IInv /\ Replays(machines, drawn)
  BY DEF JInv
<1>2. /\ ms2 = [Below EXCEPT ![Len(Below)] = m] /\ Sequence(Below) /\ Below # <<>>
      /\ Len(Below) = n - 1 /\ (n # 2 => drawn' = drawn)
  BY <1>1, ParentFacts DEF ReturnsTo, Nested
<1>3. /\ Sequence(ms) /\ n = Len(ms) /\ n \in Nat /\ n >= 2 /\ Top = ms[n]
      /\ Parent = ms[n - 1] /\ Top.over = TRUE /\ WellMade(Top) /\ ~IsRoot(Top)
  BY <1>1, Facts DEF Depth, Nested, Top, Parent, WellMade, Typed
<1>4. \A i \in 1..(n - 1) : Below[i] = ms[i]
  BY <1>3, AllButLast DEF Below, Depth
<1>5. /\ Len(ms2) = n - 1 /\ ms2[n - 1] = m
      /\ \A i \in 1..(n - 1) : i # n - 1 => ms2[i] = ms[i]
  BY <1>2, <1>4, ReplaceLast
<1>6. CASE n = 2
  <2>1. Len(ms2) = 1
    BY <1>5, <1>6
  <2> QED
    BY <2>1, RootReplays
<1>7. CASE n >= 3
  <2>1. Work(Top).over = TRUE /\ Top.purpose.kind \in Creates
    BY <1>3 DEF Work, WellMade, Typed, Purposeful, IsRoot
  <2>2. \A i \in 2..(n - 2) : ms2[i] = ms[i]
    BY <1>3, <1>5
  <2>3. Begin(m) = Begin(Parent)
    BY DEF Begin
  <2>4. /\ ms2[n - 1].purpose = ms[n - 1].purpose
        /\ Begin(ms2[n - 1]) = Begin(ms[n - 1]) /\ Work(ms[n]).over = TRUE
        /\ ms[n].purpose.kind \in Creates
        /\ Work(ms2[n - 1]) = Goes(ms[n].purpose.kind, ms[n].purpose.salt,
                                   Work(ms[n - 1]), Work(ms[n]))
    BY <1>3, <1>5, <1>7, <2>1, <2>3
  <2>5. drawn' = drawn
    BY <1>2, <1>7
  <2> HIDE DEF ms, ms2, n
  <2>6. Replays(ms2, drawn)
    BY <1>1, <1>3, <1>5, <1>7, <2>2, <2>4, EndReplays DEF ms
  <2> QED
    BY <2>5, <2>6 DEF ms2
<1> QED
  BY <1>3, <1>6, <1>7

LEMMA ParentInside ==
  ASSUME IInv, Depth > 2
  PROVE  Inside(Parent)
<1>1. /\ Nested(Below) /\ Len(Below) = Depth - 1 /\ Below[Len(Below)] = Parent
      /\ Depth \in Nat
  BY ParentFacts, Facts
<1>2. ~Parent.over
  BY Facts, <1>1, TopGone DEF Below, Depth, Parent
<1>3. ~Parent.grow /\ ~IsRoot(Parent) /\ WellMade(Parent)
  BY <1>1, TopFacts
<1> QED
  BY <1>2, <1>3 DEF Inside, WellMade

LEMMA TooLongReplays == JInv /\ TooLong => Replays(machines, drawn)'
<1> SUFFICES ASSUME JInv, TooLong PROVE Replays(machines', drawn')
  OBVIOUS
<1> DEFINE m == Broken(Parent)
           w == Work(Parent)
           e == Work(Top)
<1>1. IInv /\ Depth > 1 /\ Top.over /\ ~Fits(Top) /\ ReturnsTo(m)
  BY DEF JInv, TooLong, Over
<1>2. m.purpose = Parent.purpose /\ m.callable = Parent.callable
  <2>1. WithFields(Parent)
    BY <1>1, ParentFacts DEF WellMade, Typed
  <2> QED
    BY <2>1 DEF Broken, WithFields
<1>3. Depth > 2 => Work(m) = Goes(Top.purpose.kind, Top.purpose.salt, w, e)
  <2> SUFFICES ASSUME Depth > 2
               PROVE  Work(m) = Goes(Top.purpose.kind, Top.purpose.salt, w, e)
    OBVIOUS
  <2>1. Work(m) = Stops(w, Parent.gen, Parent.src)
    BY <1>1, ParentInside, BrokenWork
  <2>2. w.gen = Parent.gen /\ w.src = Parent.src /\ e.bytes = Top.bytes
    BY DEF Work
  <2> HIDE DEF m, w, e
  <2> QED
    BY <1>1, <2>1, <2>2 DEF Goes, Fits
<1> HIDE DEF m
<1> QED
  BY <1>1, <1>2, <1>3, ParentGoesOn

LEMMA FinishCreateReplays == JInv /\ FinishCreate => Replays(machines, drawn)'
<1> SUFFICES ASSUME JInv, FinishCreate PROVE Replays(machines', drawn')
  OBVIOUS
<1> DEFINE op == CreateOp(Top.purpose.kind, Top.purpose.salt, Top.code, Top.bytes)
           m == Deployed(Parent, op, Top.address, CreatedNonce(Top))
           w == Work(Parent)
           e == Work(Top)
<1>1. IInv /\ Depth > 1 /\ Top.over /\ Fits(Top) /\ ReturnsTo(m)
  BY DEF JInv, FinishCreate, Over
<1>2. Depth > 2 =>
        /\ Work(m) = Goes(Top.purpose.kind, Top.purpose.salt, w, e)
        /\ m.purpose = Parent.purpose /\ m.callable = Parent.callable
  <2> SUFFICES ASSUME Depth > 2
               PROVE  /\ Work(m) = Goes(Top.purpose.kind, Top.purpose.salt, w, e)
                      /\ m.purpose = Parent.purpose /\ m.callable = Parent.callable
    OBVIOUS
  <2>1. Work(m) = Outcome(w, op, Parent.gen, Parent.src)
    BY <1>1, ParentInside, DeployedWork
  <2>2. m.purpose = Parent.purpose /\ m.callable = Parent.callable
    BY <1>1, ParentInside, DeployedWork
  <2>3. /\ w.gen = Parent.gen /\ w.src = Parent.src /\ e.bytes = Top.bytes
        /\ e.code = Top.code
    BY DEF Work
  <2> HIDE DEF m, w, e
  <2>4. Work(m) = Goes(Top.purpose.kind, Top.purpose.salt, w, e)
    BY <1>1, <2>1, <2>3 DEF Goes, Fits
  <2> QED
    BY <2>2, <2>4
<1> HIDE DEF m
<1>3. CASE Depth > 2
  BY <1>1, <1>2, <1>3, ParentGoesOn
<1>4. CASE Depth = 2
  <2>0. Nested(Below) /\ Len(Below) = Depth - 1
    BY <1>1, ParentFacts
  <2>1. /\ Sequence(Below) /\ Below # <<>> /\ Len(Below) = 1
        /\ machines' = [Below EXCEPT ![Len(Below)] = m]
    BY <1>1, <1>4, <2>0 DEF ReturnsTo, Nested
  <2>2. Len(machines') = 1
    BY <2>1, ReplaceLast
  <2> QED
    BY <2>2, RootReplays
<1> QED
  BY <1>1, <1>3, <1>4, Facts

LEMMA InitJInv == GenInit => JInv
<1> SUFFICES ASSUME GenInit PROVE Replays(machines, drawn)
  BY InitIInv DEF JInv
<1>1. Len(machines) = 1
  BY DEF GenInit
<1> QED
  BY <1>1, RootReplays

LEMMA NextJInv == JInv /\ [GenNext]_genVars => JInv'
<1> SUFFICES ASSUME JInv, [GenNext]_genVars PROVE JInv'
  OBVIOUS
<1>1. IInv'
  BY NextIInv DEF JInv
<1>2. CASE UNCHANGED genVars
  BY <1>1, <1>2 DEF JInv, genVars
<1>3. CASE GenNext
  <2>1. Replays(machines, drawn)'
    BY <1>3, IngestPushReplays, IngestCallReplays, IngestExplicitReplays,
       InputEndsReplays, MaterializationStarvesReplays, StartCreateReplays,
       StartCreate2Replays, TooLongReplays, StartFinalPassReplays,
       FinishCreateReplays DEF GenNext
  <2> QED
    BY <1>1, <2>1 DEF JInv
<1> QED
  BY <1>2, <1>3

LEMMA JInvariance == GenSpec => []JInv
<1>1. GenInit => JInv
  BY InitJInv
<1>2. JInv /\ [GenNext]_genVars => JInv'
  BY NextJInv
<1> QED
  BY <1>1, <1>2, PTL DEF GenSpec

LEMMA JInvPassesAgree == JInv => PassesAgree
<1> SUFFICES ASSUME JInv, NEW i \in DOMAIN machines,
                    machines[i].purpose.pass = "final", machines[i].over
             PROVE  machines[i].code = machines[i].purpose.probe
  BY DEF PassesAgree
<1> DEFINE m == machines[i]
<1>1. /\ Nested(machines) /\ Sequence(machines) /\ DOMAIN machines = 1..Len(machines)
      /\ Len(machines) \in Nat
  BY SequenceFacts DEF JInv, IInv, Nested
<1>2. i = Len(machines) /\ i \in 2..Len(machines) /\ WellMade(m)
  BY <1>1 DEF Nested
<1>3. PICK ends, at, past, goal, k : Replay(machines, drawn, ends, at, past, goal, k)
  BY DEF JInv, Replays
<1>4. /\ Justified(drawn, ends) /\ k \in Nat
      /\ InStep(machines, drawn, ends, at, past, goal, k, i)
  BY <1>2, <1>3 DEF Replay
<1>5. Repeating(machines, ends, at, goal, i) /\ Work(m) = at[i]
  BY <1>2, <1>4 DEF InStep, Fresh, Linked
<1>6. <<at[i], goal[i]>> \in ends /\ goal[i].code = m.purpose.probe
  BY <1>2, <1>5 DEF Repeating
<1>7. at[i].over /\ at[i].code = m.code
  BY <1>5 DEF Work
<1>8. at[i] = goal[i]
  BY <1>4, <1>6, <1>7, AtGoal
<1> QED
  BY <1>6, <1>7, <1>8

\* PassesAgree always holds: however the sources are interleaved with those
\* of nested CREATEs, the final pass of a CREATE2 ends with the code the probe
\* ended with, so the address recorded is the one the code that is deployed
\* hashes to.
THEOREM PassesRepeat == GenSpec => []PassesAgree
<1>1. GenSpec => []JInv
  BY JInvariance
<1> QED
  BY <1>1, JInvPassesAgree, PTL
=============================================================================
