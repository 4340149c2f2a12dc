-------------------------- MODULE DeploymentProofs --------------------------
(***************************************************************************)
(* Theorems about Deployment, for any gas, salts and depth of nesting, any *)
(* number of draws and any deployments that run out of gas: the nonces and *)
(* contracts the root machine has recorded are those of the EVM, and calls *)
(* go only where nothing is being deployed.                                *)
(*                                                                         *)
(* The invariant DInv has a half for the generation (Honest): the root's   *)
(* records are a function of its bytecode, and the calls in a code go to   *)
(* what was deployed before it was drawn.  The half for the EVM (Runs)     *)
(* says how many CREATEs each frame has passed, for the accounts as they   *)
(* are and for every table of accounts kept to undo a deployment.          *)
(***************************************************************************)
EXTENDS Deployment, SubmachineProofs

-----------------------------------------------------------------------------
(* The records of the root machine against the EVM that runs its code.     *)

\* A code whose calls, and those of the codes in it at any depth, go to T.
Closed(C, T) ==
  \A code \in C :
    /\ Sequence(code)
    /\ \A i \in DOMAIN code :
         /\ code[i].init \in C
         /\ code[i].kind = "Call" => code[i].target \in T
CallsWithin(code, T) == \E C : code \in C /\ Closed(C, T)

\* What the j-th opcode of the root's code deploys, if it is a CREATE: where,
\* with which nonce in the end, and which contracts its calls may go to.
Earlier(code, j) == {i \in CreatesIn(code) : i < j}
Bumps(code, j) == Cardinality(Earlier(code, j))
AddressAt(code, j) ==
  IF code[j].kind = "Create" THEN CreateAddress(Contract, 1 + Bumps(code, j))
  ELSE Create2Address(Contract, code[j].salt, code[j].init)
NonceLeft(code, j) == 1 + Cardinality(CreatesIn(code[j].init))
Targets(code, j) == {Caller} \cup {AddressAt(code, i) : i \in Earlier(code, j)}

\* The root has recorded exactly what its code deploys.
RecordsAll(m) ==
  LET end == Len(m.code) + 1
  IN /\ DOMAIN m.nonces = {Contract} \cup Targets(m.code, end)
     /\ m.nonces[Caller] = 1
     /\ \A j \in CreatesIn(m.code) : m.nonces[AddressAt(m.code, j)] = NonceLeft(m.code, j)
     /\ \A i \in DOMAIN m.callable : m.callable[i] \in Targets(m.code, end)

\* No call, at any depth, goes to a contract that is being deployed.
CallsBack(code) ==
  \A j \in DOMAIN code :
    /\ code[j].kind = "Call" => code[j].target \in Targets(code, j)
    /\ code[j].kind \in Creates =>
         CallsWithin(code[j].init, Targets(code, j) \ {AddressAt(code, j)})

Snapshot(ms) == {ms[1].callable[i] : i \in DOMAIN ms[1].callable}

Honest(ms) ==
  /\ RecordsAll(ms[1]) /\ CallsBack(ms[1].code)
  /\ \A i \in DOMAIN ms : i > 1 => CallsWithin(ms[i].code, Snapshot(ms))

-----------------------------------------------------------------------------
(* The EVM on its way.                                                     *)

Place(rest, whole) == Len(whole) - Len(rest) + 1
RestOf(rest, whole) ==
  /\ Sequence(rest) /\ Sequence(whole) /\ Len(rest) <= Len(whole)
  /\ \A i \in 1..Len(rest) : rest[i] = whole[Place(rest, whole) - 1 + i]

OfContract(a) ==
  \/ \E nonce : a = CreateAddress(Contract, nonce)
  \/ \E salt, code : a = Create2Address(Contract, salt, code)

\* What frame j runs, of a program.
Program(fs, code, j) == IF j = 1 THEN code ELSE Head(fs[j - 1].code).init
PlaceOf(fs, code, j) == Place(fs[j].code, Program(fs, code, j))

FrameOk(fs, code, j) ==
  /\ fs[j] = Frame(fs[j].address, fs[j].code, fs[j].saved)
  /\ RestOf(fs[j].code, Program(fs, code, j))
  /\ j < Len(fs) => fs[j].code # <<>> /\ Head(fs[j].code).kind \in Creates
  /\ j = 1 => fs[j].address = Contract
  /\ j = 2 => fs[j].address = AddressAt(code, PlaceOf(fs, code, 1))
  /\ j > 2 => fs[j].address # Caller /\ ~OfContract(fs[j].address)
  /\ j > 1 => CallsWithin(fs[j].code,
                Targets(code, PlaceOf(fs, code, 1)) \ {fs[2].address})

FramesOk(fs, code) ==
  /\ Sequence(fs) /\ fs # <<>>
  /\ \A j \in 1..Len(fs) : FrameOk(fs, code, j)
  /\ \A i, j \in 1..Len(fs) : fs[i].address = fs[j].address => i = j

\* Accounts that frames 1 to n of fs may have made, the first b of them with a
\* CREATE under way.
Table(acc, fs, code, dep, n, b) ==
  /\ NoncesTyped(acc) /\ Caller \in DOMAIN acc /\ acc[Caller] = 1
  /\ \A j \in 1..n :
       /\ fs[j].address \in DOMAIN acc
       /\ acc[fs[j].address] = 1 + Bumps(Program(fs, code, j), PlaceOf(fs, code, j))
                                 + (IF j <= b THEN 1 ELSE 0)
  /\ \A a \in dep :
       /\ a \in DOMAIN acc
       /\ \E i \in Earlier(code, PlaceOf(fs, code, 1)) :
            a = AddressAt(code, i) /\ acc[a] = NonceLeft(code, i)
  /\ \A a \in DOMAIN acc :
       OfContract(a) => a \in dep \/ (n >= 2 /\ a = fs[2].address)

Runs(fs, acc, code, dep) ==
  /\ FramesOk(fs, code)
  /\ Table(acc, fs, code, dep, Len(fs), Len(fs) - 1)
  /\ \A j \in 2..Len(fs) : Table(fs[j].saved, fs, code, dep, j - 1, j - 1)
  /\ Len(fs) >= 2 => fs[2].address \notin dep

Kept ==
  /\ ~lost => \A i \in Earlier(machines[1].code, PlaceOf(frames, machines[1].code, 1)) :
                AddressAt(machines[1].code, i) \in deployed
  /\ lost => failed

DInv ==
  /\ JInv /\ Honest(machines)
  /\ frames = <<>> => deployed = {} /\ ~failed /\ ~lost
  /\ frames # <<>> => Runs(frames, accounts, machines[1].code, deployed) /\ Kept

-----------------------------------------------------------------------------
(* Where the calls of a code go.                                           *)

LEMMA CallsUnfold ==
  ASSUME NEW code, NEW T, CallsWithin(code, T)
  PROVE  /\ Sequence(code)
         /\ \A i \in DOMAIN code :
              /\ CallsWithin(code[i].init, T)
              /\ code[i].kind = "Call" => code[i].target \in T
<1>1. PICK C : code \in C /\ Closed(C, T)
  BY DEF CallsWithin
<1>2. /\ Sequence(code)
      /\ \A i \in DOMAIN code :
           /\ code[i].init \in C
           /\ code[i].kind = "Call" => code[i].target \in T
  BY <1>1 DEF Closed
<1>3. ASSUME NEW i \in DOMAIN code
      PROVE  CallsWithin(code[i].init, T)
  <2>1. code[i].init \in C
    BY <1>2
  <2> QED
    BY <1>1, <2>1 DEF CallsWithin
<1> QED
  BY <1>2, <1>3

LEMMA CallsFold ==
  ASSUME NEW code, NEW T, Sequence(code),
         \A i \in DOMAIN code :
           /\ CallsWithin(code[i].init, T)
           /\ code[i].kind = "Call" => code[i].target \in T
  PROVE  CallsWithin(code, T)
<1> DEFINE Inits(i) == CHOOSE C : code[i].init \in C /\ Closed(C, T)
           All == {code} \cup UNION {Inits(i) : i \in DOMAIN code}
<1>1. ASSUME NEW i \in DOMAIN code
      PROVE  code[i].init \in Inits(i) /\ Closed(Inits(i), T)
  BY DEF CallsWithin
<1> HIDE DEF Inits
<1>2. ASSUME NEW c \in All
      PROVE  /\ Sequence(c)
             /\ \A i \in DOMAIN c :
                  /\ c[i].init \in All
                  /\ c[i].kind = "Call" => c[i].target \in T
  <2>1. CASE c = code
    BY <1>1, <2>1
  <2>2. CASE c # code
    <3>1. PICK i \in DOMAIN code : c \in Inits(i)
      BY <2>2
    <3>2. Closed(Inits(i), T) /\ Inits(i) \subseteq All
      BY <1>1
    <3> HIDE DEF All
    <3> QED
      BY <3>1, <3>2 DEF Closed
  <2> QED
    BY <2>1, <2>2
<1>3. code \in All
  OBVIOUS
<1> HIDE DEF All
<1>4. Closed(All, T)
  BY <1>2 DEF Closed
<1> QED
  BY <1>3, <1>4 DEF CallsWithin

LEMMA CallsGrow ==
  ASSUME NEW code, NEW T, NEW U, CallsWithin(code, T), T \subseteq U
  PROVE  CallsWithin(code, U)
<1>1. PICK C : code \in C /\ Closed(C, T)
  BY DEF CallsWithin
<1>2. Closed(C, U)
  BY <1>1 DEF Closed
<1> QED
  BY <1>1, <1>2 DEF CallsWithin

LEMMA EmptyFacts ==
  /\ Sequence(<<>>) /\ Len(<<>>) = 0 /\ DOMAIN <<>> = {}
  /\ CreatesIn(<<>>) = {}
  /\ \A T : CallsWithin(<<>>, T)
<1>1. Sequence(<<>>) /\ Len(<<>>) = 0 /\ DOMAIN <<>> = {}
  <2>1. <<>> \in Seq({})
    OBVIOUS
  <2> QED
    BY <2>1 DEF Sequence
<1>2. CreatesIn(<<>>) = {}
  BY DEF CreatesIn
<1>3. ASSUME NEW T
      PROVE  CallsWithin(<<>>, T)
  BY <1>1, CallsFold
<1> QED
  BY <1>1, <1>2, <1>3

LEMMA CallsAppended ==
  ASSUME NEW code, NEW T, CallsWithin(code, T), NEW op, CallsWithin(op.init, T),
         op.kind = "Call" => op.target \in T
  PROVE  CallsWithin(Append(code, op), T)
<1> DEFINE new == Append(code, op)
           k == Len(code)
<1>1. /\ Sequence(code) /\ DOMAIN code = 1..k /\ k \in Nat
      /\ Sequence(new) /\ DOMAIN new = 1..(k + 1)
      /\ new[k + 1] = op /\ \A i \in 1..k : new[i] = code[i]
  BY CallsUnfold, SequenceFacts, AppendSequence
<1> HIDE DEF new, k
<1>2. ASSUME NEW i \in DOMAIN new
      PROVE  /\ CallsWithin(new[i].init, T)
             /\ new[i].kind = "Call" => new[i].target \in T
  <2>1. CASE i = k + 1
    BY <1>1, <2>1
  <2>2. CASE i # k + 1
    <3>1. i \in DOMAIN code /\ new[i] = code[i]
      BY <1>1, <2>2
    <3> QED
      BY <3>1, CallsUnfold
  <2> QED
    BY <2>1, <2>2
<1>3. CallsWithin(new, T)
  BY <1>1, <1>2, CallsFold
<1> QED
  BY <1>3 DEF new

-----------------------------------------------------------------------------
(* What an opcode of the root deploys.                                     *)

LEMMA EarlierFacts ==
  ASSUME NEW code, Sequence(code), NEW j \in Nat
  PROVE  /\ Earlier(code, j) \subseteq CreatesIn(code)
         /\ IsFiniteSet(Earlier(code, j)) /\ Bumps(code, j) \in Nat
         /\ \A k \in Nat : j <= k => Earlier(code, j) \subseteq Earlier(code, k)
         /\ j \in CreatesIn(code) =>
              Earlier(code, j + 1) = Earlier(code, j) \cup {j}
              /\ Bumps(code, j + 1) = Bumps(code, j) + 1
         /\ j \notin CreatesIn(code) => Earlier(code, j + 1) = Earlier(code, j)
         /\ CreatesIn(code) \subseteq 1..Len(code)
<1>1. CreatesIn(code) \subseteq 1..Len(code) /\ Len(code) \in Nat
  BY SequenceFacts DEF CreatesIn
<1>2. Earlier(code, j) \subseteq CreatesIn(code)
  BY DEF Earlier
<1>3. IsFiniteSet(Earlier(code, j))
  BY <1>2, CreatesFinite, FS_Subset
<1>4. Bumps(code, j) \in Nat
  BY <1>3, FS_CardinalityType DEF Bumps
<1>5. \A k \in Nat : j <= k => Earlier(code, j) \subseteq Earlier(code, k)
  BY <1>1 DEF Earlier
<1>6. ASSUME j \in CreatesIn(code)
      PROVE  /\ Earlier(code, j + 1) = Earlier(code, j) \cup {j}
             /\ Bumps(code, j + 1) = Bumps(code, j) + 1
  <2>1. Earlier(code, j + 1) = Earlier(code, j) \cup {j}
    BY <1>1, <1>6 DEF Earlier
  <2>2. j \notin Earlier(code, j)
    BY DEF Earlier
  <2> QED
    BY <1>3, <2>1, <2>2, FS_AddElement DEF Bumps
<1>7. j \notin CreatesIn(code) => Earlier(code, j + 1) = Earlier(code, j)
  BY <1>1 DEF Earlier
<1> QED
  BY <1>1, <1>2, <1>3, <1>4, <1>5, <1>6, <1>7

\* The first opcode deploys nothing before it, the end has all before it.
LEMMA EarlierEnds ==
  ASSUME NEW code, Sequence(code)
  PROVE  /\ Earlier(code, 1) = {} /\ Bumps(code, 1) = 0
         /\ Earlier(code, Len(code) + 1) = CreatesIn(code)
         /\ Bumps(code, Len(code) + 1) = Cardinality(CreatesIn(code))
<1>1. CreatesIn(code) \subseteq 1..Len(code) /\ Len(code) \in Nat
  BY SequenceFacts DEF CreatesIn
<1>2. Earlier(code, 1) = {}
  BY <1>1 DEF Earlier
<1>3. Earlier(code, Len(code) + 1) = CreatesIn(code)
  BY <1>1 DEF Earlier
<1> QED
  BY <1>2, <1>3, FS_EmptySet DEF Bumps

LEMMA BumpsGrow ==
  ASSUME NEW code, Sequence(code), NEW i \in CreatesIn(code), NEW j \in Nat, i < j
  PROVE  Bumps(code, i) < Bumps(code, j)
<1>1. i \in Nat /\ i + 1 \in Nat /\ i + 1 <= j
  BY SequenceFacts DEF CreatesIn
<1>2. Bumps(code, i + 1) = Bumps(code, i) + 1 /\ Bumps(code, i) \in Nat
  BY <1>1, EarlierFacts
<1>3. Earlier(code, i + 1) \subseteq Earlier(code, j) /\ IsFiniteSet(Earlier(code, j))
  BY <1>1, EarlierFacts
<1>4. Bumps(code, i + 1) <= Bumps(code, j) /\ Bumps(code, j) \in Nat
  BY <1>3, FS_Subset, FS_CardinalityType DEF Bumps
<1> QED
  BY <1>2, <1>4

\* Two opcodes that deploy at the same address deploy the same code.
LEMMA SameAddress ==
  ASSUME NEW code, Sequence(code), NEW i \in CreatesIn(code),
         NEW j \in CreatesIn(code), AddressAt(code, i) = AddressAt(code, j)
  PROVE  code[i].init = code[j].init
<1>1. i \in Nat /\ j \in Nat
  BY SequenceFacts DEF CreatesIn
<1>2. /\ code[i].kind = "Create" => code[j].kind = "Create"
      /\ code[j].kind = "Create" => code[i].kind = "Create"
  BY AddressFacts DEF AddressAt
<1>3. CASE code[i].kind = "Create"
  <2>1. 1 + Bumps(code, i) = 1 + Bumps(code, j)
    BY <1>2, <1>3, AddressFacts DEF AddressAt
  <2>2. Bumps(code, i) \in Nat /\ Bumps(code, j) \in Nat
    BY <1>1, EarlierFacts
  <2>3. ~(i < j) /\ ~(j < i)
    BY <1>1, <2>1, <2>2, BumpsGrow
  <2> QED
    BY <1>1, <2>3
<1>4. CASE code[i].kind # "Create"
  BY <1>2, <1>4, AddressFacts DEF AddressAt
<1> QED
  BY <1>3, <1>4

LEMMA AddressOutside ==
  ASSUME NEW code, NEW j
  PROVE  /\ AddressAt(code, j) \notin {Caller, Contract, ZeroAddress}
         /\ OfContract(AddressAt(code, j))
  BY AddressFacts DEF AddressAt, OfContract

\* What a code deploys does not depend on what follows.
LEMMA AddressesAppended ==
  ASSUME NEW code, Sequence(code), NEW op, NEW j \in Nat, j <= Len(code) + 1
  PROVE  /\ Earlier(Append(code, op), j) = Earlier(code, j)
         /\ Bumps(Append(code, op), j) = Bumps(code, j)
         /\ Targets(Append(code, op), j) = Targets(code, j)
         /\ j \in 1..Len(code) =>
              /\ Append(code, op)[j] = code[j]
              /\ AddressAt(Append(code, op), j) = AddressAt(code, j)
              /\ NonceLeft(Append(code, op), j) = NonceLeft(code, j)
<1> DEFINE new == Append(code, op)
           k == Len(code)
<1>1. /\ k \in Nat /\ DOMAIN code = 1..k /\ Sequence(new) /\ Len(new) = k + 1
      /\ DOMAIN new = 1..(k + 1)
      /\ new[k + 1] = op /\ \A i \in 1..k : new[i] = code[i]
  BY SequenceFacts, AppendSequence
<1>a. j <= k + 1
  OBVIOUS
<1> HIDE DEF new, k
<1>2. ASSUME NEW n \in Nat, n <= k + 1
      PROVE  Earlier(new, n) = Earlier(code, n) /\ Bumps(new, n) = Bumps(code, n)
  <2>1. ASSUME NEW i, i < n
        PROVE  i \in CreatesIn(new) <=> i \in CreatesIn(code)
    BY <1>1, <1>2, <2>1 DEF CreatesIn
  <2>2. Earlier(new, n) = Earlier(code, n)
    BY <2>1 DEF Earlier
  <2> QED
    BY <2>2 DEF Bumps
<1>3. ASSUME NEW n \in 1..k
      PROVE  /\ AddressAt(new, n) = AddressAt(code, n)
             /\ NonceLeft(new, n) = NonceLeft(code, n)
  <2>1. new[n] = code[n] /\ Bumps(new, n) = Bumps(code, n)
    BY <1>1, <1>2
  <2> QED
    BY <2>1 DEF AddressAt, NonceLeft
<1>4. Targets(new, j) = Targets(code, j)
  <2>1. Earlier(code, j) \subseteq 1..k
    BY <1>1 DEF Earlier, CreatesIn
  <2> QED
    BY <1>a, <1>2, <1>3, <2>1 DEF Targets
<1> QED
  BY <1>1, <1>a, <1>2, <1>3, <1>4 DEF new, k

LEMMA TargetsAppended ==
  ASSUME NEW code, Sequence(code), NEW op
  PROVE  LET new == Append(code, op)
             k == Len(code)
         IN /\ Sequence(new) /\ Len(new) = k + 1 /\ k \in Nat
            /\ new[k + 1] = op
            /\ k + 1 \in CreatesIn(new) <=> op.kind \in Creates
            /\ CreatesIn(new) \ {k + 1} = CreatesIn(code)
            /\ op.kind \in Creates =>
                 Targets(new, k + 2) = Targets(code, k + 1) \cup {AddressAt(new, k + 1)}
            /\ op.kind \notin Creates => Targets(new, k + 2) = Targets(code, k + 1)
<1> DEFINE new == Append(code, op)
           k == Len(code)
<1>1. /\ k \in Nat /\ DOMAIN code = 1..k /\ Sequence(new) /\ Len(new) = k + 1
      /\ DOMAIN new = 1..(k + 1)
      /\ new[k + 1] = op /\ \A i \in 1..k : new[i] = code[i]
  BY SequenceFacts, AppendSequence
<1>2. Targets(new, k + 1) = Targets(code, k + 1)
  BY <1>1, AddressesAppended
<1> HIDE DEF new, k
<1>3. k + 1 \in CreatesIn(new) <=> op.kind \in Creates
  BY <1>1 DEF CreatesIn
<1>4. CreatesIn(new) \ {k + 1} = CreatesIn(code)
  BY <1>1 DEF CreatesIn
<1>5. k + 1 \in Nat /\ k + 1 + 1 = k + 2
  BY <1>1
<1>6. op.kind \in Creates =>
        Targets(new, k + 2) = Targets(new, k + 1) \cup {AddressAt(new, k + 1)}
  <2> SUFFICES ASSUME op.kind \in Creates
               PROVE  Targets(new, k + 2) = Targets(new, k + 1) \cup {AddressAt(new, k + 1)}
    OBVIOUS
  <2>1. Earlier(new, k + 2) = Earlier(new, k + 1) \cup {k + 1}
    BY <1>1, <1>3, <1>5, EarlierFacts
  <2> QED
    BY <2>1 DEF Targets
<1>7. op.kind \notin Creates => Targets(new, k + 2) = Targets(new, k + 1)
  <2> SUFFICES ASSUME op.kind \notin Creates
               PROVE  Targets(new, k + 2) = Targets(new, k + 1)
    OBVIOUS
  <2>1. Earlier(new, k + 2) = Earlier(new, k + 1)
    BY <1>1, <1>3, <1>5, EarlierFacts
  <2> QED
    BY <2>1 DEF Targets
<1> QED
  BY <1>1, <1>2, <1>3, <1>4, <1>6, <1>7 DEF new, k

\* A CREATE2 may deploy where another did, but then it runs the code that one
\* ran, which was made before there was anything at that address.
LEMMA CallsBackAppended ==
  ASSUME NEW code, Sequence(code), CallsBack(code), NEW op,
         op.kind = "Call" => op.target \in Targets(code, Len(code) + 1),
         op.kind \in Creates => CallsWithin(op.init, Targets(code, Len(code) + 1))
  PROVE  CallsBack(Append(code, op))
<1> DEFINE new == Append(code, op)
           k == Len(code)
           here == AddressAt(new, k + 1)
<1>1. /\ k \in Nat /\ Sequence(new) /\ Len(new) = k + 1 /\ new[k + 1] = op
      /\ DOMAIN new = 1..(k + 1) /\ DOMAIN code = 1..k
  BY TargetsAppended, SequenceFacts
<1>2. \A j \in 1..k : /\ new[j] = code[j] /\ AddressAt(new, j) = AddressAt(code, j)
                      /\ Targets(new, j) = Targets(code, j)
  <2> TAKE j \in 1..k
  <2>1. j \in Nat /\ j <= k + 1
    BY <1>1
  <2> QED
    BY <2>1, AddressesAppended
<1>3. Targets(new, k + 1) = Targets(code, k + 1)
  BY <1>1, AddressesAppended
<1>4. /\ op.kind = "Call" => op.target \in Targets(code, k + 1)
      /\ op.kind \in Creates => CallsWithin(op.init, Targets(code, k + 1))
  OBVIOUS
<1> HIDE DEF new, k, here
<1>5. ASSUME NEW j \in 1..k
      PROVE  /\ new[j].kind = "Call" => new[j].target \in Targets(new, j)
             /\ new[j].kind \in Creates =>
                  CallsWithin(new[j].init, Targets(new, j) \ {AddressAt(new, j)})
  BY <1>1, <1>2 DEF CallsBack
<1>6. ASSUME op.kind \in Creates
      PROVE  CallsWithin(op.init, Targets(new, k + 1) \ {here})
  <2>1. CASE here \notin Targets(new, k + 1)
    <3>1. Targets(new, k + 1) \ {here} = Targets(new, k + 1)
      BY <2>1
    <3> QED
      BY <1>3, <1>4, <1>6, <3>1
  <2>2. CASE here \in Targets(new, k + 1)
    <3>1. PICK j \in Earlier(new, k + 1) : here = AddressAt(new, j)
      BY <2>2, AddressOutside DEF Targets, here
    <3>2. /\ j \in CreatesIn(new) /\ j \in 1..k /\ j \in Nat /\ j <= k + 1
          /\ k + 1 \in CreatesIn(new)
      BY <1>1, <1>6, <3>1 DEF Earlier, CreatesIn
    <3>3. new[j].init = op.init /\ new[j].kind \in Creates
      BY <1>1, <3>1, <3>2, SameAddress DEF here, CreatesIn
    <3>4. CallsWithin(op.init, Targets(new, j) \ {here})
      BY <1>5, <3>1, <3>2, <3>3
    <3>5. Targets(new, j) \subseteq Targets(new, k + 1)
      <4>1. Earlier(new, j) \subseteq Earlier(new, k + 1)
        BY <1>1, <3>2, EarlierFacts
      <4> QED
        BY <4>1 DEF Targets
    <3>6. Targets(new, j) \ {here} \subseteq Targets(new, k + 1) \ {here}
      BY <3>5
    <3> QED
      BY <3>4, <3>6, CallsGrow
  <2> QED
    BY <2>1, <2>2
<1>7. CallsBack(new)
  <2> SUFFICES ASSUME NEW j \in 1..(k + 1)
               PROVE  /\ new[j].kind = "Call" => new[j].target \in Targets(new, j)
                      /\ new[j].kind \in Creates =>
                           CallsWithin(new[j].init, Targets(new, j) \ {AddressAt(new, j)})
    BY <1>1 DEF CallsBack
  <2>1. CASE j = k + 1
    BY <1>1, <1>3, <1>4, <1>6, <2>1 DEF here
  <2>2. CASE j # k + 1
    <3>1. j \in 1..k
      BY <1>1, <2>2
    <3> QED
      BY <1>5, <3>1
  <2> QED
    BY <2>1, <2>2
<1> QED
  BY <1>7 DEF new

-----------------------------------------------------------------------------
(* The root machine takes one opcode more.                                 *)

LEMMA RootSame ==
  ASSUME NEW m, NEW n, RecordsAll(m), CallsBack(m.code), n.code = m.code,
         n.nonces = m.nonces, n.callable = m.callable
  PROVE  RecordsAll(n) /\ CallsBack(n.code)
  BY DEF RecordsAll

LEMMA RootTakesFlat ==
  ASSUME NEW m, NEW n, RecordsAll(m), CallsBack(m.code), Sequence(m.code),
         NEW op, op.kind \notin Creates,
         op.kind = "Call" => \E i \in DOMAIN m.callable : op.target = m.callable[i],
         n.code = Append(m.code, op), n.nonces = m.nonces, n.callable = m.callable
  PROVE  RecordsAll(n) /\ CallsBack(n.code)
<1> DEFINE k == Len(m.code)
<1>1. op.kind = "Call" => op.target \in Targets(m.code, k + 1)
  BY DEF RecordsAll
<1>2. CallsBack(n.code)
  BY <1>1, CallsBackAppended
<1>3. /\ Len(n.code) + 1 = k + 2 /\ Targets(n.code, k + 2) = Targets(m.code, k + 1)
      /\ k + 1 \notin CreatesIn(n.code) /\ CreatesIn(n.code) \ {k + 1} = CreatesIn(m.code)
  <2> DEFINE new == Append(m.code, op)
  <2>1. /\ Len(new) = k + 1 /\ k \in Nat /\ Targets(new, k + 2) = Targets(m.code, k + 1)
        /\ k + 1 \notin CreatesIn(new) /\ CreatesIn(new) \ {k + 1} = CreatesIn(m.code)
    BY TargetsAppended, Zenon
  <2>2. n.code = new
    OBVIOUS
  <2> HIDE DEF new, k
  <2> QED
    BY <2>1, <2>2
<1>4. ASSUME NEW j \in CreatesIn(n.code)
      PROVE  /\ j \in CreatesIn(m.code) /\ AddressAt(n.code, j) = AddressAt(m.code, j)
             /\ NonceLeft(n.code, j) = NonceLeft(m.code, j)
  <2>1. j \in CreatesIn(m.code)
    BY <1>3
  <2>2. j \in Nat /\ j \in 1..k /\ j <= k + 1
    BY <2>1, SequenceFacts DEF CreatesIn
  <2> QED
    BY <2>1, <2>2, AddressesAppended
<1> HIDE DEF k
<1>5. RecordsAll(n)
  <2>1. RecordsAll(m) /\ Targets(m.code, Len(m.code) + 1) = Targets(n.code, Len(n.code) + 1)
    BY <1>3 DEF k
  <2> QED
    BY <1>4, <2>1 DEF RecordsAll
<1> QED
  BY <1>2, <1>5

LEMMA RootTakesCreate ==
  ASSUME NEW m, NEW n, RecordsAll(m), CallsBack(m.code), Sequence(m.code),
         Sequence(m.callable),
         NEW op, op.kind \in Creates,
         CallsWithin(op.init, {m.callable[i] : i \in DOMAIN m.callable}),
         NEW own, NEW address, NEW nonce,
         address = AddressAt(Append(m.code, op), Len(m.code) + 1),
         nonce = 1 + Cardinality(CreatesIn(op.init)),
         n.code = Append(m.code, op),
         n.nonces = Having(Having(m.nonces, Contract, own), address, nonce),
         n.callable = Append(m.callable, address)
  PROVE  RecordsAll(n) /\ CallsBack(n.code)
<1> DEFINE k == Len(m.code)
<1>1. {m.callable[i] : i \in DOMAIN m.callable} \subseteq Targets(m.code, k + 1)
  BY DEF RecordsAll
<1>2. CallsWithin(op.init, Targets(m.code, k + 1)) /\ op.kind # "Call"
  BY <1>1, CallsGrow DEF Creates
<1>3. CallsBack(n.code)
  BY <1>2, CallsBackAppended
<1>4. /\ Len(n.code) + 1 = k + 2 /\ Sequence(n.code) /\ n.code[k + 1] = op
      /\ Targets(n.code, k + 2) = Targets(m.code, k + 1) \cup {address}
      /\ k + 1 \in CreatesIn(n.code) /\ CreatesIn(n.code) \ {k + 1} = CreatesIn(m.code)
      /\ AddressAt(n.code, k + 1) = address
  <2> DEFINE new == Append(m.code, op)
  <2>1. /\ Len(new) = k + 1 /\ k \in Nat /\ Sequence(new) /\ new[k + 1] = op
        /\ Targets(new, k + 2) = Targets(m.code, k + 1) \cup {AddressAt(new, k + 1)}
        /\ k + 1 \in CreatesIn(new) /\ CreatesIn(new) \ {k + 1} = CreatesIn(m.code)
    BY TargetsAppended, Zenon
  <2>2. n.code = new /\ AddressAt(new, k + 1) = address
    OBVIOUS
  <2> HIDE DEF new, k
  <2> QED
    BY <2>1, <2>2
<1>5. ASSUME NEW j \in CreatesIn(m.code)
      PROVE  /\ AddressAt(n.code, j) = AddressAt(m.code, j)
             /\ NonceLeft(n.code, j) = NonceLeft(m.code, j)
  <2>1. j \in Nat /\ j \in 1..k /\ j <= k + 1
    BY SequenceFacts DEF CreatesIn
  <2> QED
    BY <2>1, AddressesAppended
<1>6. address \notin {Caller, Contract, ZeroAddress}
  BY AddressOutside
<1> DEFINE ns == n.nonces
<1>7. /\ DOMAIN ns = DOMAIN m.nonces \cup {Contract, address}
      /\ \A a \in DOMAIN ns :
           ns[a] = IF a = address THEN nonce
                   ELSE IF a = Contract THEN own ELSE m.nonces[a]
  BY DEF Having
<1>8. /\ DOMAIN m.nonces = {Contract} \cup Targets(m.code, k + 1)
      /\ m.nonces[Caller] = 1
      /\ \A j \in CreatesIn(m.code) : m.nonces[AddressAt(m.code, j)] = NonceLeft(m.code, j)
  BY DEF RecordsAll
<1> HIDE DEF ns, k
<1>9. DOMAIN ns = {Contract} \cup Targets(n.code, k + 2)
  BY <1>4, <1>7, <1>8
<1>10. ns[Caller] = 1
  <2>1. Caller \in DOMAIN ns /\ Caller # address /\ Caller # Contract
    BY <1>6, <1>7, <1>8, AddressFacts DEF Targets
  <2> QED
    BY <1>7, <1>8, <2>1
<1>11. ASSUME NEW j \in CreatesIn(n.code)
       PROVE  ns[AddressAt(n.code, j)] = NonceLeft(n.code, j)
  <2> DEFINE a == AddressAt(n.code, j)
  <2>1. a \in DOMAIN ns /\ a # Contract
    <3>1. a \in Targets(n.code, k + 2)
      <4>1. k + 2 = Len(n.code) + 1
        BY <1>4
      <4>2. Earlier(n.code, k + 2) = CreatesIn(n.code)
        BY <1>4, <4>1, EarlierEnds
      <4> QED
        BY <4>2 DEF Targets
    <3> QED
      BY <1>9, <3>1, AddressOutside
  <2>2. CASE a = address
    <3>1. n.code[j].init = op.init
      <4>1. AddressAt(n.code, j) = AddressAt(n.code, k + 1)
        BY <1>4, <2>2
      <4>2. n.code[j].init = n.code[k + 1].init
        BY <1>4, <4>1, SameAddress
      <4> QED
        BY <1>4, <4>2
    <3> QED
      BY <1>7, <2>1, <2>2, <3>1 DEF NonceLeft
  <2>3. CASE a # address
    <3>1. j \in CreatesIn(m.code)
      BY <1>4, <2>3
    <3>2. a = AddressAt(m.code, j) /\ NonceLeft(n.code, j) = NonceLeft(m.code, j)
      BY <1>5, <3>1
    <3> QED
      BY <1>7, <1>8, <2>1, <2>3, <3>1, <3>2
  <2> QED
    BY <2>2, <2>3
<1>12. ASSUME NEW i \in DOMAIN n.callable
       PROVE  n.callable[i] \in Targets(n.code, k + 2)
  <2>1. /\ DOMAIN n.callable = 1..(Len(m.callable) + 1) /\ DOMAIN m.callable = 1..Len(m.callable)
        /\ Len(m.callable) \in Nat /\ n.callable[Len(m.callable) + 1] = address
        /\ \A l \in 1..Len(m.callable) : n.callable[l] = m.callable[l]
    BY AppendSequence, SequenceFacts
  <2>2. CASE i = Len(m.callable) + 1
    BY <1>4, <2>1, <2>2
  <2>3. CASE i # Len(m.callable) + 1
    <3>1. i \in DOMAIN m.callable /\ n.callable[i] = m.callable[i]
      BY <2>1, <2>3
    <3> QED
      BY <1>1, <1>4, <3>1
  <2> QED
    BY <2>2, <2>3
<1>13. RecordsAll(n)
  BY <1>4, <1>9, <1>10, <1>11, <1>12 DEF RecordsAll, ns
<1> QED
  BY <1>3, <1>13

-----------------------------------------------------------------------------
(* Any machine takes one opcode more, whose calls go to T.                 *)

Keeps(m, n) ==
  /\ n.code = m.code /\ n.nonces = m.nonces /\ n.callable = m.callable
  /\ n.grow = m.grow
TakesFlat(m, n, op, T) ==
  /\ op.kind \notin Creates /\ op.init = <<>>
  /\ op.kind = "Call" => op.target \in T
  /\ n.code = Append(m.code, op) /\ n.nonces = m.nonces /\ n.callable = m.callable
TakesCreate(m, n, op, T) ==
  /\ op.kind \in Creates /\ CallsWithin(op.init, T)
  /\ n.code = Append(m.code, op)
  /\ m.grow => \E own :
       LET address == AddressAt(n.code, Len(m.code) + 1)
           nonce == 1 + Cardinality(CreatesIn(op.init))
       IN /\ n.nonces = Having(Having(m.nonces, Contract, own), address, nonce)
          /\ n.callable = Append(m.callable, address)

Works(m, n, T) ==
  \/ Keeps(m, n)
  \/ \E op : TakesFlat(m, n, op, T) \/ TakesCreate(m, n, op, T)

LEMMA KeepsWorks ==
  ASSUME NEW l, NEW m, NEW n, NEW T, Keeps(l, m), Works(m, n, T)
  PROVE  Works(l, n, T)
<1>1. CASE Keeps(m, n)
  BY <1>1 DEF Keeps, Works
<1>2. CASE \E op : TakesFlat(m, n, op, T)
  <2>1. PICK op : TakesFlat(m, n, op, T)
    BY <1>2
  <2>2. TakesFlat(l, n, op, T)
    BY <2>1 DEF Keeps, TakesFlat
  <2> QED
    BY <2>2 DEF Works
<1>3. CASE \E op : TakesCreate(m, n, op, T)
  <2>1. PICK op : TakesCreate(m, n, op, T)
    BY <1>3
  <2>2. TakesCreate(l, n, op, T)
    BY <2>1 DEF Keeps, TakesCreate
  <2> QED
    BY <2>2 DEF Works
<1> QED
  BY <1>1, <1>2, <1>3 DEF Works

\* The machine on top is another one; the snapshot is the same.
LEMMA HonestAbove ==
  ASSUME NEW ms, Nested(ms), Honest(ms), Len(ms) > 1,
         NEW n, CallsWithin(n.code, Snapshot(ms))
  PROVE  Honest([ms EXCEPT ![Len(ms)] = n])
<1> DEFINE k == Len(ms)
           new == [ms EXCEPT ![k] = n]
<1>1. /\ k \in Nat /\ k > 1 /\ DOMAIN ms = 1..k /\ DOMAIN new = 1..k
      /\ new[k] = n /\ \A i \in 1..k : i # k => new[i] = ms[i]
  BY SequenceFacts, ReplaceLast DEF Nested
<1> HIDE DEF k, new
<1>2. new[1] = ms[1] /\ Snapshot(new) = Snapshot(ms)
  BY <1>1 DEF Snapshot
<1>3. ASSUME NEW i \in DOMAIN new, i > 1
      PROVE  CallsWithin(new[i].code, Snapshot(ms))
  <2>1. CASE i = k
    BY <1>1, <2>1
  <2>2. CASE i # k
    BY <1>1, <1>3, <2>2 DEF Honest
  <2> QED
    BY <2>1, <2>2
<1>4. Honest(new)
  BY <1>2, <1>3 DEF Honest
<1> QED
  BY <1>4 DEF new, k

LEMMA HonestAlone ==
  ASSUME NEW ms, Nested(ms), Len(ms) = 1,
         NEW n, RecordsAll(n), CallsBack(n.code)
  PROVE  Honest([ms EXCEPT ![Len(ms)] = n])
<1> DEFINE new == [ms EXCEPT ![Len(ms)] = n]
<1>1. DOMAIN new = 1..1 /\ new[1] = n
  BY SequenceFacts, ReplaceLast DEF Nested
<1> HIDE DEF new
<1>2. Honest(new)
  BY <1>1 DEF Honest
<1> QED
  BY <1>2 DEF new

LEMMA HonestGone ==
  ASSUME NEW ms, Nested(ms), Honest(ms), Len(ms) > 1
  PROVE  /\ Honest(SubSeq(ms, 1, Len(ms) - 1))
         /\ Snapshot(SubSeq(ms, 1, Len(ms) - 1)) = Snapshot(ms)
<1> DEFINE k == Len(ms)
           new == SubSeq(ms, 1, k - 1)
<1>1. /\ k \in Nat /\ k > 1 /\ DOMAIN ms = 1..k /\ DOMAIN new = 1..(k - 1)
      /\ \A i \in 1..(k - 1) : new[i] = ms[i]
  BY SequenceFacts, AllButLast DEF Nested
<1> HIDE DEF k, new
<1>2. new[1] = ms[1] /\ Snapshot(new) = Snapshot(ms)
  BY <1>1 DEF Snapshot
<1>3. ASSUME NEW i \in DOMAIN new, i > 1
      PROVE  CallsWithin(new[i].code, Snapshot(ms))
  BY <1>1, <1>3 DEF Honest
<1>4. Honest(new)
  BY <1>2, <1>3 DEF Honest
<1> QED
  BY <1>2, <1>4 DEF new, k

LEMMA HonestAdded ==
  ASSUME NEW ms, Nested(ms), Honest(ms), NEW n, n.code = <<>>
  PROVE  Honest(Append(ms, n))
<1> DEFINE k == Len(ms)
           new == Append(ms, n)
<1>1. /\ k \in Nat /\ k > 0 /\ DOMAIN ms = 1..k /\ DOMAIN new = 1..(k + 1)
      /\ new[k + 1] = n /\ \A i \in 1..k : new[i] = ms[i]
  <2>1. Sequence(ms) /\ ms # <<>>
    BY DEF Nested
  <2> QED
    BY <2>1, SequenceFacts, AppendSequence, ReplaceLast
<1> HIDE DEF k, new
<1>2. new[1] = ms[1] /\ Snapshot(new) = Snapshot(ms)
  BY <1>1 DEF Snapshot
<1>3. ASSUME NEW i \in DOMAIN new, i > 1
      PROVE  CallsWithin(new[i].code, Snapshot(ms))
  <2>1. CASE i = k + 1
    BY <1>1, <2>1, EmptyFacts
  <2>2. CASE i # k + 1
    BY <1>1, <1>3, <2>2 DEF Honest
  <2> QED
    BY <2>1, <2>2
<1>4. Honest(new)
  BY <1>2, <1>3 DEF Honest
<1> QED
  BY <1>4 DEF new

LEMMA WorksHonest ==
  ASSUME NEW ms, Nested(ms), Honest(ms), NEW n,
         Works(ms[Len(ms)], n, Snapshot(ms))
  PROVE  Honest([ms EXCEPT ![Len(ms)] = n])
<1> DEFINE m == ms[Len(ms)]
           T == Snapshot(ms)
<1>1. /\ Len(ms) \in Nat \ {0} /\ WellMade(m) /\ (m.grow <=> Len(ms) = 1)
      /\ DOMAIN ms = 1..Len(ms)
  BY TopFacts, SequenceFacts DEF Nested
<1>2. CASE Len(ms) > 1
  <2>1. CallsWithin(m.code, T)
    BY <1>1, <1>2 DEF Honest
  <2>2. CASE Keeps(m, n)
    BY <1>2, <2>1, <2>2, HonestAbove DEF Keeps
  <2>3. ASSUME NEW op, TakesFlat(m, n, op, T)
        PROVE  CallsWithin(n.code, T)
    BY <2>1, <2>3, CallsAppended, EmptyFacts DEF TakesFlat
  <2>4. ASSUME NEW op, TakesCreate(m, n, op, T)
        PROVE  CallsWithin(n.code, T)
    <3>1. op.kind # "Call" /\ CallsWithin(op.init, T) /\ n.code = Append(m.code, op)
      BY <2>4 DEF TakesCreate, Creates
    <3> QED
      BY <2>1, <3>1, CallsAppended
  <2>5. CASE ~Keeps(m, n)
    <3>1. CallsWithin(n.code, T)
      BY <2>3, <2>4, <2>5 DEF Works
    <3> QED
      BY <1>2, <3>1, HonestAbove
  <2> QED
    BY <2>2, <2>5
<1>3. CASE Len(ms) = 1
  <2>1. /\ RecordsAll(m) /\ CallsBack(m.code) /\ m.grow
        /\ T = {m.callable[i] : i \in DOMAIN m.callable}
        /\ Sequence(m.code) /\ Sequence(m.callable)
    <3>1. m = ms[1] /\ m.grow
      BY <1>1, <1>3
    <3>2. RecordsAll(ms[1]) /\ CallsBack(ms[1].code)
      BY DEF Honest
    <3>3. T = {ms[1].callable[i] : i \in DOMAIN ms[1].callable}
      BY DEF Snapshot
    <3>4. Sequence(m.code) /\ Sequence(m.callable)
      BY <1>1 DEF WellMade, Typed
    <3> HIDE DEF m, T
    <3> QED
      BY <3>1, <3>2, <3>3, <3>4
  <2> HIDE DEF m, T
  <2>2. ASSUME Keeps(m, n)
        PROVE  RecordsAll(n) /\ CallsBack(n.code)
    BY <2>1, <2>2, RootSame DEF Keeps
  <2>3. ASSUME NEW op, TakesFlat(m, n, op, T)
        PROVE  RecordsAll(n) /\ CallsBack(n.code)
    <3>1. op.kind = "Call" => \E i \in DOMAIN m.callable : op.target = m.callable[i]
      BY <2>1, <2>3 DEF TakesFlat
    <3> QED
      BY <2>1, <2>3, <3>1, RootTakesFlat DEF TakesFlat
  <2>4. ASSUME NEW op, TakesCreate(m, n, op, T)
        PROVE  RecordsAll(n) /\ CallsBack(n.code)
    <3> DEFINE address == AddressAt(n.code, Len(m.code) + 1)
               nonce == 1 + Cardinality(CreatesIn(op.init))
    <3>1. PICK own : /\ n.nonces = Having(Having(m.nonces, Contract, own), address, nonce)
                     /\ n.callable = Append(m.callable, address)
      BY <2>1, <2>4 DEF TakesCreate
    <3>2. /\ op.kind \in Creates /\ n.code = Append(m.code, op)
          /\ CallsWithin(op.init, {m.callable[i] : i \in DOMAIN m.callable})
          /\ address = AddressAt(Append(m.code, op), Len(m.code) + 1)
      BY <2>1, <2>4 DEF TakesCreate
    <3> HIDE DEF address
    <3> QED
      BY <2>1, <3>1, <3>2, RootTakesCreate
  <2>5. RecordsAll(n) /\ CallsBack(n.code)
    <3>1. Keeps(m, n) \/ \E op : TakesFlat(m, n, op, T) \/ TakesCreate(m, n, op, T)
      BY DEF m, T, Works
    <3> QED
      BY <2>2, <2>3, <2>4, <3>1
  <2> QED
    BY <1>3, <2>5, HonestAlone
<1> QED
  BY <1>1, <1>2, <1>3

-----------------------------------------------------------------------------
(* What ingesting makes of one machine.                                    *)

LEMMA BrokenKeeps ==
  ASSUME NEW m, WellMade(m)
  PROVE  Keeps(m, Broken(m))
<1>1. WithFields(m)
  BY DEF WellMade, Typed
<1> QED
  BY <1>1 DEF Broken, WithFields, Keeps

LEMMA AfterKeeps ==
  ASSUME IInv
  PROVE  Keeps(Top, AfterDraw) /\ Keeps(Top, AfterMaterialization)
<1>1. WithFields(Top)
  BY Facts DEF WellMade, Typed
<1> QED
  BY <1>1 DEF AfterMaterialization, AfterDraw, WithFields, Keeps

LEMMA CommittedFields ==
  ASSUME NEW m, WellMade(m), NEW op
  PROVE  LET c == Committed(m, op)
         IN /\ c.code = Append(m.code, op) /\ c.nonces = m.nonces
            /\ c.callable = m.callable /\ c.grow = m.grow /\ c.address = m.address
            /\ WithFields(c)
<1>1. WithFields(m)
  BY DEF WellMade, Typed
<1> QED
  BY <1>1 DEF Committed, WithFields

LEMMA IngestedWorks ==
  ASSUME NEW m, WellMade(m), NEW op, op.kind \notin Creates, op.init = <<>>,
         NEW T, op.kind = "Call" => op.target \in T
  PROVE  Works(m, Ingested(m, op), T)
<1>1. CASE Affordable(m, op)
  <2>1. TakesFlat(m, Committed(m, op), op, T)
    BY CommittedFields DEF TakesFlat
  <2> QED
    BY <1>1, <2>1 DEF Ingested, Works
<1>2. CASE ~Affordable(m, op)
  BY <1>2, BrokenKeeps DEF Ingested, Works
<1> QED
  BY <1>1, <1>2

LEMMA DeployedWorks ==
  ASSUME NEW m, WellMade(m), NEW op, op.kind \in Creates,
         NEW T, CallsWithin(op.init, T), NEW address, NEW nonce,
         m.grow => /\ m.address = Contract
                   /\ nonce = 1 + Cardinality(CreatesIn(op.init))
                   /\ op.kind = "Create" =>
                        address = CreateAddress(Contract, NonceOf(m, Contract))
                   /\ op.kind # "Create" =>
                        address = Create2Address(Contract, op.salt, op.init)
  PROVE  Works(m, Deployed(m, op, address, nonce), T)
<1>1. CASE Affordable(m, op)
  <2> DEFINE c == Committed(m, op)
             n == Recorded(c, address, nonce)
             own == NonceOf(c, c.address) + 1
             code == Append(m.code, op)
             k == Len(m.code)
  <2>1. /\ c.code = code /\ c.nonces = m.nonces /\ c.callable = m.callable
        /\ c.grow = m.grow /\ c.address = m.address /\ WithFields(c)
    BY CommittedFields
  <2> HIDE DEF c
  <2>2. /\ n.code = c.code
        /\ n.nonces = Having(Having(c.nonces, c.address, own), address, nonce)
        /\ n.callable = IF c.grow THEN Append(c.callable, address) ELSE c.callable
    BY <2>1 DEF Recorded, Bumped, WithFields
  <2> HIDE DEF n, own
  <2>3. ASSUME m.grow
        PROVE  address = AddressAt(code, k + 1)
    <3>1. /\ Sequence(m.code) /\ k \in Nat
          /\ NonceOf(m, Contract) = 1 + Cardinality(CreatesIn(m.code))
      <4>1. Sequence(m.code)
        BY DEF WellMade, Typed
      <4>2. m.address = Contract /\ NonceOf(m, m.address) = 1 + Cardinality(CreatesIn(m.code))
        BY <2>3 DEF WellMade, Counted, Deployments
      <4> QED
        BY <4>1, <4>2, SequenceFacts
    <3>2. code[k + 1] = op
      BY <3>1, TargetsAppended, Zenon
    <3>3. Bumps(code, k + 1) = Cardinality(CreatesIn(m.code))
      <4>1. k + 1 \in Nat /\ k + 1 <= Len(m.code) + 1
        BY <3>1
      <4>2. Bumps(code, k + 1) = Bumps(m.code, k + 1)
        BY <3>1, <4>1, AddressesAppended
      <4> QED
        BY <3>1, <4>2, EarlierEnds
    <3> HIDE DEF code, k
    <3> QED
      BY <2>3, <3>1, <3>2, <3>3 DEF AddressAt
  <2>4. TakesCreate(m, n, op, T)
    <3>1. n.code = code
      BY <2>1, <2>2
    <3>2. ASSUME m.grow
          PROVE  /\ n.nonces = Having(Having(m.nonces, Contract, own),
                                      AddressAt(n.code, Len(m.code) + 1),
                                      1 + Cardinality(CreatesIn(op.init)))
                 /\ n.callable = Append(m.callable, AddressAt(n.code, Len(m.code) + 1))
      BY <2>1, <2>2, <2>3, <3>1, <3>2
    <3> QED
      BY <3>1, <3>2 DEF TakesCreate
  <2> QED
    BY <1>1, <2>4 DEF Deployed, Works, n, c
<1>2. CASE ~Affordable(m, op)
  BY <1>2, BrokenKeeps DEF Deployed, Works
<1> QED
  BY <1>1, <1>2

-----------------------------------------------------------------------------
(* The records stay honest while the program is generated.                 *)

LEMMA TopWorks ==
  ASSUME IInv, Honest(machines), NEW l, Keeps(Top, l),
         NEW n, Works(l, n, Snapshot(machines)), BecomesTop(n)
  PROVE  Honest(machines')
<1>1. Works(machines[Len(machines)], n, Snapshot(machines)) /\ Nested(machines)
  BY Facts, KeepsWorks
<1>2. machines' = [machines EXCEPT ![Len(machines)] = n]
  BY DEF BecomesTop, Depth
<1> QED
  BY <1>1, <1>2, WorksHonest

LEMMA ParentWorks ==
  ASSUME IInv, Honest(machines), Depth > 1,
         NEW n, Works(Parent, n, Snapshot(machines)), ReturnsTo(n)
  PROVE  Honest(machines')
<1>1. /\ Nested(Below) /\ Len(Below) = Depth - 1 /\ Below[Len(Below)] = Parent
      /\ machines' = [Below EXCEPT ![Len(Below)] = n]
  BY ParentFacts DEF ReturnsTo
<1>2. Honest(Below) /\ Snapshot(Below) = Snapshot(machines)
  BY Facts, HonestGone DEF Below, Depth
<1> QED
  BY <1>1, <1>2, WorksHonest

LEMMA TargetIsOld ==
  ASSUME IInv, NEW i \in DOMAIN Top.callable
  PROVE  Top.callable[i] \in Snapshot(machines)
  BY Facts DEF Snapshot

LEMMA InitHonest == GenInit => Honest(machines)
<1> SUFFICES ASSUME GenInit PROVE Honest(machines)
  OBVIOUS
<1> DEFINE m == machines[1]
<1>1. DOMAIN machines = {1} /\ m = Root
  BY DEF GenInit
<1>2. /\ m.code = <<>> /\ m.callable = <<Caller>>
      /\ m.nonces = [Having([a \in {Caller} |-> 0], Contract, 1) EXCEPT ![Caller] = 1]
  BY <1>1 DEF Root, WithContext
<1> HIDE DEF m
<1>3. DOMAIN m.nonces = {Caller, Contract} /\ m.nonces[Caller] = 1
  BY <1>2 DEF Having
<1>4. Targets(<<>>, 1) = {Caller} /\ Len(<<>>) + 1 = 1
  BY EmptyFacts, EarlierEnds DEF Targets
<1>5. RecordsAll(m)
  <2>1. Targets(m.code, Len(m.code) + 1) = {Caller}
    BY <1>2, <1>4, EmptyFacts, Zenon
  <2>2. CreatesIn(m.code) = {}
    BY <1>2, EmptyFacts
  <2>3. \A i \in DOMAIN m.callable : m.callable[i] = Caller
    BY <1>2
  <2> QED
    BY <1>3, <2>1, <2>2, <2>3 DEF RecordsAll
<1>6. CallsBack(m.code)
  BY <1>2, EmptyFacts DEF CallsBack
<1> QED
  BY <1>1, <1>5, <1>6 DEF Honest, m

LEMMA DrawingHonest ==
  JInv /\ Honest(machines) /\ (IngestPush \/ IngestCall \/ InputEnds
       \/ MaterializationStarves) => Honest(machines')
<1> SUFFICES ASSUME JInv, Honest(machines),
                    IngestPush \/ IngestCall \/ InputEnds \/ MaterializationStarves
             PROVE  Honest(machines')
  OBVIOUS
<1>1. /\ IInv /\ WellMade(AfterDraw) /\ WellMade(AfterMaterialization)
      /\ Keeps(Top, AfterDraw) /\ Keeps(Top, AfterMaterialization)
  BY AfterFollows, AfterKeeps DEF JInv
<1>2. CASE IngestPush
  <2>1. PushOp.kind = "Push" /\ PushOp.init = <<>>
    BY DEF PushOp
  <2>2. Works(AfterDraw, Ingested(AfterDraw, PushOp), Snapshot(machines))
    BY <1>1, <2>1, IngestedWorks DEF Creates
  <2> QED
    BY <1>1, <1>2, <2>2, TopWorks DEF IngestPush
<1>3. CASE IngestCall
  <2>1. PICK i \in DOMAIN Top.callable :
          BecomesTop(Ingested(AfterMaterialization,
                              CallOp(Top.gas \div 4, Top.callable[i])))
    BY <1>3 DEF IngestCall
  <2> DEFINE op == CallOp(Top.gas \div 4, Top.callable[i])
  <2>2. op.kind = "Call" /\ op.init = <<>> /\ op.target = Top.callable[i]
    BY DEF CallOp, PushOp
  <2> HIDE DEF op
  <2>3. op.target \in Snapshot(machines)
    BY <1>1, <2>2, TargetIsOld
  <2>4. Works(AfterMaterialization, Ingested(AfterMaterialization, op), Snapshot(machines))
    BY <1>1, <2>2, <2>3, IngestedWorks DEF Creates
  <2>5. BecomesTop(Ingested(AfterMaterialization, op))
    BY <2>1 DEF op
  <2> QED
    BY <1>1, <2>4, <2>5, TopWorks
<1>4. CASE InputEnds
  <2> DEFINE n == [AfterDraw EXCEPT !.over = TRUE]
  <2>1. BecomesTop(n)
    BY <1>4 DEF InputEnds
  <2>2. Keeps(AfterDraw, n)
    <3>1. WithFields(AfterDraw)
      BY <1>1 DEF WellMade, Typed
    <3> QED
      BY <3>1 DEF WithFields, Keeps
  <2> HIDE DEF n
  <2>3. Works(AfterDraw, n, Snapshot(machines))
    BY <2>2 DEF Works
  <2> QED
    BY <1>1, <2>1, <2>3, TopWorks
<1>5. CASE MaterializationStarves
  <2>1. BecomesTop(Broken(AfterMaterialization))
    BY <1>5 DEF MaterializationStarves
  <2>2. Works(AfterMaterialization, Broken(AfterMaterialization), Snapshot(machines))
    BY <1>1, BrokenKeeps DEF Works
  <2> QED
    BY <1>1, <2>1, <2>2, TopWorks
<1> QED
  BY <1>2, <1>3, <1>4, <1>5

LEMMA IngestExplicitHonest ==
  JInv /\ Honest(machines) /\ IngestExplicit => Honest(machines')
<1> SUFFICES ASSUME JInv, Honest(machines), IngestExplicit PROVE Honest(machines')
  OBVIOUS
<1> DEFINE Ops == {CreateOp("Create", 0, <<>>, 0)}
                  \cup {CreateOp("Create2", salt, <<>>, 0) : salt \in Salts}
           AddressOf(op) ==
             IF op.kind = "Create"
             THEN CreateAddress(Top.address, NonceOf(Top, Top.address))
             ELSE Create2Address(Top.address, op.salt, op.init)
<1>1. Depth = 1 /\ \E op \in Ops : BecomesTop(Deployed(Top, op, AddressOf(op), 1))
  BY DEF IngestExplicit
<1>2. PICK op \in Ops : BecomesTop(Deployed(Top, op, AddressOf(op), 1))
  BY <1>1
<1>3. op.kind \in Creates /\ op.init = <<>>
  BY DEF CreateOp, PushOp, Creates
<1>4. IInv /\ WellMade(Top) /\ Top.address = Contract
  BY <1>1, Facts, TopFacts DEF JInv, Depth
<1> HIDE DEF Ops
<1>5. /\ op.kind = "Create" => AddressOf(op) = CreateAddress(Contract, NonceOf(Top, Contract))
      /\ op.kind # "Create" => AddressOf(op) = Create2Address(Contract, op.salt, op.init)
  BY <1>4
<1> HIDE DEF AddressOf
<1>6. 1 = 1 + Cardinality(CreatesIn(op.init)) /\ CallsWithin(op.init, Snapshot(machines))
  <2>1. CreatesIn(op.init) = {} /\ CallsWithin(op.init, Snapshot(machines))
    BY <1>3, EmptyFacts, Zenon
  <2> QED
    BY <2>1, FS_EmptySet
<1>7. Works(Top, Deployed(Top, op, AddressOf(op), 1), Snapshot(machines))
  BY <1>3, <1>4, <1>5, <1>6, DeployedWorks
<1>8. Keeps(Top, Top)
  BY DEF Keeps
<1> QED
  BY <1>2, <1>4, <1>7, <1>8, TopWorks

LEMMA StartHonest ==
  ASSUME IInv, Honest(machines), NEW purpose, NEW address, Start(purpose, address)
  PROVE  Honest(machines')
<1> DEFINE n == AfterMaterialization
           new == SubMachine(Top, address, purpose)
           ms == [machines EXCEPT ![Len(machines)] = n]
<1>1. machines' = Append(ms, new)
  BY DEF Start, Depth
<1>2. new.code = <<>>
  BY DEF SubMachine, WithContext
<1>3. Follows(Top, n) /\ Keeps(Top, n) /\ Nested(machines)
      /\ Top = machines[Len(machines)]
  BY AfterFollows, AfterKeeps, Facts
<1> HIDE DEF n, new
<1>4. Nested(ms) /\ Honest(ms)
  <2>1. Works(machines[Len(machines)], n, Snapshot(machines))
    BY <1>3 DEF Works
  <2> QED
    BY <1>3, <2>1, FollowsNested, WorksHonest
<1> HIDE DEF ms
<1> QED
  BY <1>1, <1>2, <1>4, HonestAdded

LEMMA StartFinalPassHonest ==
  JInv /\ Honest(machines) /\ StartFinalPass => Honest(machines')
<1> SUFFICES ASSUME JInv, Honest(machines), StartFinalPass PROVE Honest(machines')
  OBVIOUS
<1> DEFINE n == SubMachine(Parent,
                  Create2Address(Parent.address, Top.purpose.salt, Top.code),
                  [Top.purpose EXCEPT !.pass = "final", !.probe = Top.code])
<1>1. machines' = [machines EXCEPT ![Len(machines)] = n] /\ Len(machines) > 1
  BY DEF StartFinalPass, Over, BecomesTop, Depth
<1>2. n.code = <<>>
  BY DEF SubMachine, WithContext
<1>3. Nested(machines) /\ CallsWithin(n.code, Snapshot(machines))
  BY <1>2, EmptyFacts DEF JInv, IInv
<1> HIDE DEF n
<1> QED
  BY <1>1, <1>3, HonestAbove

LEMMA TooLongHonest == JInv /\ Honest(machines) /\ TooLong => Honest(machines')
<1> SUFFICES ASSUME JInv, Honest(machines), TooLong PROVE Honest(machines')
  OBVIOUS
<1>1. IInv /\ Depth > 1 /\ ReturnsTo(Broken(Parent))
  BY DEF JInv, TooLong, Over
<1>2. Works(Parent, Broken(Parent), Snapshot(machines))
  BY <1>1, ParentFacts, BrokenKeeps DEF Works
<1> QED
  BY <1>1, <1>2, ParentWorks

\* The address is the one the EVM derives: CREATE2 from the code its probe
\* ended with, which is the code of its final pass.
LEMMA FinishCreateHonest ==
  JInv /\ Honest(machines) /\ FinishCreate => Honest(machines')
<1> SUFFICES ASSUME JInv, Honest(machines), FinishCreate PROVE Honest(machines')
  OBVIOUS
<1> DEFINE op == CreateOp(Top.purpose.kind, Top.purpose.salt, Top.code, Top.bytes)
           m == Deployed(Parent, op, Top.address, CreatedNonce(Top))
           T == Snapshot(machines)
<1>1. /\ IInv /\ ReturnsTo(m) /\ Depth > 1
      /\ Top.purpose.pass \in {"only", "final"} /\ Top.over
  BY DEF JInv, FinishCreate, Over
<1>2. /\ op.kind = Top.purpose.kind /\ op.salt = Top.purpose.salt /\ op.init = Top.code
  BY DEF CreateOp, PushOp
<1>3. /\ Depth \in DOMAIN machines /\ Depth \in Nat
      /\ Top = machines[Depth] /\ Depth - 1 \in DOMAIN machines
  <2>1. Depth \in Nat \ {0} /\ Sequence(machines)
    BY <1>1, Facts DEF Nested
  <2>2. DOMAIN machines = 1..Depth
    BY <2>1, SequenceFacts DEF Depth
  <2> QED
    BY <1>1, <2>1, <2>2 DEF Top
<1>4. op.kind \in Creates /\ CallsWithin(op.init, T)
  <2>1. CallsWithin(Top.code, T)
    BY <1>1, <1>3 DEF Honest
  <2> QED
    BY <1>1, <1>2, <2>1, Facts DEF WellMade, Typed, Purposeful
<1>5. CreatedNonce(Top) = 1 + Cardinality(CreatesIn(op.init))
  BY <1>1, <1>2, Facts DEF WellMade, Counted, Deployments, CreatedNonce
<1>6. Top.purpose.pass = "final" => Top.purpose.probe = Top.code
  BY <1>1, <1>3, JInvPassesAgree DEF PassesAgree
<1>7. ASSUME Parent.grow
      PROVE  /\ Parent.address = Contract
             /\ op.kind = "Create" =>
                  Top.address = CreateAddress(Contract, NonceOf(Parent, Contract))
             /\ op.kind # "Create" =>
                  Top.address = Create2Address(Contract, op.salt, op.init)
  <2>1. Parent.address = Contract
    BY <1>1, <1>3, <1>7, Facts DEF Nested, Parent
  <2>2. BuildsFor(Top, Parent)
    BY <1>1, Facts
  <2> HIDE DEF op
  <2> QED
    BY <1>1, <1>2, <1>6, <2>1, <2>2 DEF BuildsFor
<1>8. WellMade(Parent)
  BY <1>1, ParentFacts
<1> HIDE DEF op, T
<1>9. Works(Parent, m, T)
  BY <1>4, <1>5, <1>7, <1>8, DeployedWorks
<1> HIDE DEF m
<1> QED
  BY <1>1, <1>9, ParentWorks DEF T

LEMMA GenNextHonest == JInv /\ Honest(machines) /\ GenNext => Honest(machines')
<1> SUFFICES ASSUME JInv, Honest(machines), GenNext PROVE Honest(machines')
  OBVIOUS
<1>1. IInv
  BY DEF JInv
<1>2. StartCreate => Honest(machines')
  BY <1>1, StartHonest DEF StartCreate
<1>3. StartCreate2 => Honest(machines')
  BY <1>1, StartHonest DEF StartCreate2
<1> QED
  BY <1>2, <1>3, DrawingHonest, IngestExplicitHonest, StartFinalPassHonest,
     TooLongHonest, FinishCreateHonest DEF GenNext

-----------------------------------------------------------------------------
(* Where a frame is in its program.                                        *)

LEMMA TailFacts ==
  ASSUME NEW s, Sequence(s), s # <<>>
  PROVE  /\ Sequence(Tail(s)) /\ Len(s) \in Nat \ {0} /\ Len(Tail(s)) = Len(s) - 1
         /\ Head(s) = s[1] /\ \A i \in 1..(Len(s) - 1) : Tail(s)[i] = s[i + 1]
<1>1. PICK S : s \in Seq(S)
  BY DEF Sequence
<1>2. Tail(s) \in Seq(S)
  BY <1>1
<1>3. /\ Len(s) \in Nat \ {0} /\ Len(Tail(s)) = Len(s) - 1
      /\ Head(s) = s[1] /\ \A i \in 1..(Len(s) - 1) : Tail(s)[i] = s[i + 1]
  BY <1>1
<1> QED
  BY <1>2, <1>3 DEF Sequence

LEMMA PlaceStart ==
  ASSUME NEW code, Sequence(code)
  PROVE  RestOf(code, code) /\ Place(code, code) = 1
<1>1. Len(code) \in Nat
  BY SequenceFacts
<1>2. Place(code, code) = 1
  BY <1>1 DEF Place
<1> QED
  BY <1>1, <1>2 DEF RestOf

LEMMA PlaceFacts ==
  ASSUME NEW rest, NEW whole, RestOf(rest, whole)
  PROVE  /\ Place(rest, whole) \in 1..(Len(whole) + 1)
         /\ rest = <<>> => Place(rest, whole) = Len(whole) + 1
         /\ rest # <<>> =>
              /\ Place(rest, whole) \in 1..Len(whole)
              /\ Head(rest) = whole[Place(rest, whole)]
              /\ RestOf(Tail(rest), whole)
              /\ Place(Tail(rest), whole) = Place(rest, whole) + 1
<1> DEFINE k == Len(rest)
           n == Len(whole)
           here == Place(rest, whole)
<1>1. /\ k \in Nat /\ n \in Nat /\ k <= n /\ here = (n - k) + 1
      /\ Sequence(rest) /\ Sequence(whole)
      /\ \A i \in 1..k : rest[i] = whole[(here - 1) + i]
  BY SequenceFacts DEF RestOf, Place
<1>2. here \in 1..(n + 1)
  <2> HIDE DEF k, n, here
  <2> QED
    BY <1>1
<1>3. rest = <<>> => here = n + 1
  <2> HIDE DEF n, here
  <2> QED
    BY <1>1, EmptyFacts DEF k
<1>4. ASSUME rest # <<>>
      PROVE  /\ here \in 1..n /\ Head(rest) = whole[here]
             /\ RestOf(Tail(rest), whole) /\ Place(Tail(rest), whole) = here + 1
  <2> DEFINE t == Tail(rest)
             next == Place(t, whole)
  <2>1. /\ Sequence(t) /\ k \in Nat \ {0} /\ Len(t) = k - 1 /\ Head(rest) = rest[1]
        /\ \A i \in 1..(k - 1) : t[i] = rest[i + 1]
    BY <1>1, <1>4, TailFacts
  <2>2. next = (n - (k - 1)) + 1
    BY <2>1 DEF Place
  <2> HIDE DEF k, n, here, t, next
  <2>3. here \in 1..n /\ next = here + 1
    BY <1>1, <2>1, <2>2
  <2>4. Head(rest) = whole[here]
    <3>1. 1 \in 1..k /\ (here - 1) + 1 = here
      BY <1>1, <2>1, <2>3
    <3>2. rest[1] = whole[(here - 1) + 1]
      BY <1>1, <3>1
    <3> QED
      BY <2>1, <3>1, <3>2
  <2>5. ASSUME NEW i \in 1..Len(t)
        PROVE  t[i] = whole[next - 1 + i]
    <3>1. i \in 1..(k - 1) /\ i + 1 \in 1..k /\ (here - 1) + (i + 1) = next - 1 + i
      BY <1>1, <2>1, <2>3
    <3>2. rest[i + 1] = whole[(here - 1) + (i + 1)]
      BY <1>1, <3>1
    <3> QED
      BY <2>1, <3>1, <3>2
  <2>6. RestOf(t, whole)
    <3>1. Len(t) <= Len(whole)
      BY <1>1, <2>1 DEF n
    <3> QED
      BY <1>1, <2>1, <2>5, <3>1 DEF RestOf, next
  <2> QED
    BY <2>3, <2>4, <2>6 DEF t, next
<1> QED
  BY <1>2, <1>3, <1>4

LEMMA CallsInTail ==
  ASSUME NEW code, NEW T, CallsWithin(code, T), code # <<>>
  PROVE  CallsWithin(Tail(code), T) /\ CallsWithin(Head(code).init, T)
         /\ (Head(code).kind = "Call" => Head(code).target \in T)
<1> DEFINE k == Len(code)
           t == Tail(code)
<1>1. /\ Sequence(code) /\ Sequence(t) /\ k \in Nat \ {0} /\ DOMAIN code = 1..k
      /\ DOMAIN t = 1..Len(t) /\ Len(t) = k - 1 /\ Head(code) = code[1]
      /\ \A i \in 1..(k - 1) : t[i] = code[i + 1]
  BY CallsUnfold, TailFacts, SequenceFacts
<1> HIDE DEF k, t
<1>2. ASSUME NEW i \in DOMAIN t
      PROVE  /\ CallsWithin(t[i].init, T)
             /\ t[i].kind = "Call" => t[i].target \in T
  <2>1. i + 1 \in DOMAIN code /\ t[i] = code[i + 1]
    BY <1>1
  <2> QED
    BY <2>1, CallsUnfold
<1>3. CallsWithin(t, T)
  BY <1>1, <1>2, CallsFold
<1>4. 1 \in DOMAIN code
  BY <1>1
<1> QED
  BY <1>1, <1>3, <1>4, CallsUnfold DEF t

-----------------------------------------------------------------------------
(* The frames move on.                                                     *)

\* The first n frames of fs, the n-th one opcode further.
Advanced(fs, fs2, n) ==
  /\ n \in 1..Len(fs) /\ Sequence(fs2) /\ Len(fs2) = n
  /\ \A i \in 1..(n - 1) : fs2[i] = fs[i]
  /\ fs2[n] = Frame(fs[n].address, Tail(fs[n].code), fs[n].saved)

LEMMA FrameFields ==
  ASSUME NEW address, NEW code, NEW saved
  PROVE  /\ Frame(address, code, saved).address = address
         /\ Frame(address, code, saved).code = code
         /\ Frame(address, code, saved).saved = saved
  BY DEF Frame

LEMMA PassedFrame ==
  ASSUME NEW f, f = Frame(f.address, f.code, f.saved)
  PROVE  Passed(f) = Frame(f.address, Tail(f.code), f.saved)
<1>1. PICK address, code, saved : f = Frame(address, code, saved)
  OBVIOUS
<1>2. f.address = address /\ f.code = code /\ f.saved = saved
  BY <1>1, FrameFields
<1>3. Passed(Frame(address, code, saved)) = Frame(address, Tail(code), saved)
  <2> DEFINE r == Frame(address, code, saved)
  <2>1. \A x : [r EXCEPT !.code = x] = Frame(address, x, saved)
    BY DEF Frame
  <2>2. r.code = code
    BY FrameFields
  <2> HIDE DEF r
  <2>3. Passed(r) = Frame(address, Tail(code), saved)
    BY <2>1, <2>2 DEF Passed
  <2> QED
    BY <2>3 DEF r
<1>4. Passed(f) = Frame(address, Tail(code), saved)
  BY <1>1, <1>3, Zenon
<1> QED
  BY <1>2, <1>4, Zenon

LEMMA FrameAddresses ==
  ASSUME NEW fs, NEW code, FramesOk(fs, code)
  PROVE  /\ Len(fs) \in Nat \ {0}
         /\ \A j \in 1..Len(fs) : fs[j].address # Caller
         /\ \A j \in 1..Len(fs) : j # 2 => ~OfContract(fs[j].address)
<1>1. Len(fs) \in Nat \ {0}
  BY ReplaceLast DEF FramesOk
<1>2. ASSUME NEW j \in 1..Len(fs)
      PROVE  fs[j].address # Caller /\ (j # 2 => ~OfContract(fs[j].address))
  <2>1. FrameOk(fs, code, j)
    BY DEF FramesOk
  <2>2. CASE j = 1
    BY <2>1, <2>2, AddressFacts DEF FrameOk, OfContract
  <2>3. CASE j = 2
    BY <2>1, <2>3, AddressOutside DEF FrameOk
  <2>4. CASE j > 2
    BY <2>1, <2>4 DEF FrameOk
  <2> QED
    BY <1>1, <2>2, <2>3, <2>4
<1> QED
  BY <1>1, <1>2

LEMMA AdvancedFacts ==
  ASSUME NEW fs, NEW code, FramesOk(fs, code), NEW fs2, NEW n,
         Advanced(fs, fs2, n), fs[n].code # <<>>
  PROVE  LET p == Program(fs, code, n)
             here == PlaceOf(fs, code, n)
         IN /\ n \in 1..Len(fs) /\ n \in Nat \ {0}
            /\ \A j \in 1..n : /\ Program(fs2, code, j) = Program(fs, code, j)
                               /\ fs2[j].address = fs[j].address
                               /\ fs2[j].saved = fs[j].saved
            /\ \A j \in 1..(n - 1) : PlaceOf(fs2, code, j) = PlaceOf(fs, code, j)
            /\ PlaceOf(fs2, code, n) = here + 1
            /\ RestOf(fs2[n].code, p)
            /\ Sequence(p) /\ here \in 1..Len(p) /\ here \in Nat
            /\ p[here] = Head(fs[n].code)
<1> DEFINE p == Program(fs, code, n)
           here == PlaceOf(fs, code, n)
<1>1. /\ n \in 1..Len(fs) /\ n \in Nat \ {0} /\ Len(fs) \in Nat
      /\ \A i \in 1..(n - 1) : fs2[i] = fs[i]
      /\ fs2[n].address = fs[n].address /\ fs2[n].saved = fs[n].saved
      /\ fs2[n].code = Tail(fs[n].code)
  BY FrameAddresses, FrameFields DEF Advanced
<1>2. ASSUME NEW j \in 1..n
      PROVE  /\ Program(fs2, code, j) = Program(fs, code, j)
             /\ fs2[j].address = fs[j].address /\ fs2[j].saved = fs[j].saved
  <2>1. j # 1 => j - 1 \in 1..(n - 1)
    BY <1>1
  <2>2. Program(fs2, code, j) = Program(fs, code, j)
    BY <1>1, <2>1 DEF Program
  <2>3. j = n \/ j \in 1..(n - 1)
    BY <1>1
  <2> QED
    BY <1>1, <2>2, <2>3
<1>3. \A j \in 1..(n - 1) : PlaceOf(fs2, code, j) = PlaceOf(fs, code, j)
  BY <1>1, <1>2 DEF PlaceOf
<1>4. RestOf(fs[n].code, p)
  BY <1>1 DEF FramesOk, FrameOk
<1>5. /\ Place(fs[n].code, p) \in 1..Len(p) /\ Head(fs[n].code) = p[Place(fs[n].code, p)]
      /\ RestOf(Tail(fs[n].code), p)
      /\ Place(Tail(fs[n].code), p) = Place(fs[n].code, p) + 1
  BY <1>4, PlaceFacts
<1>6. here = Place(fs[n].code, p) /\ PlaceOf(fs2, code, n) = Place(Tail(fs[n].code), p)
  <2>1. n \in 1..n
    BY <1>1
  <2> QED
    BY <1>1, <1>2, <2>1 DEF PlaceOf
<1>7. Sequence(p) /\ Len(p) \in Nat
  BY <1>4, SequenceFacts DEF RestOf
<1> HIDE DEF p, here
<1>8. here \in Nat
  BY <1>5, <1>6, <1>7
<1> QED
  BY <1>1, <1>2, <1>3, <1>5, <1>6, <1>7, <1>8 DEF p, here

\* Only the outermost frame says which calls are allowed.
LEMMA AdvancedFrames ==
  ASSUME NEW fs, NEW code, FramesOk(fs, code), NEW fs2, NEW n,
         Advanced(fs, fs2, n), fs[n].code # <<>>
  PROVE  FramesOk(fs2, code)
<1>1. /\ n \in 1..Len(fs) /\ n \in Nat \ {0} /\ Len(fs) \in Nat
      /\ Sequence(fs2) /\ Len(fs2) = n
      /\ \A i \in 1..(n - 1) : fs2[i] = fs[i]
      /\ fs2[n] = Frame(fs[n].address, Tail(fs[n].code), fs[n].saved)
      /\ fs2[n].code = Tail(fs[n].code)
  BY FrameAddresses, FrameFields DEF Advanced
<1>2. /\ \A j \in 1..n : /\ Program(fs2, code, j) = Program(fs, code, j)
                         /\ fs2[j].address = fs[j].address
                         /\ fs2[j].saved = fs[j].saved
      /\ \A j \in 1..(n - 1) : PlaceOf(fs2, code, j) = PlaceOf(fs, code, j)
      /\ RestOf(fs2[n].code, Program(fs, code, n))
  BY AdvancedFacts
<1>3. ASSUME NEW j \in 1..n
      PROVE  FrameOk(fs2, code, j)
  <2>1. FrameOk(fs, code, j) /\ j \in Nat \ {0}
    BY <1>1 DEF FramesOk
  <2>2. j < n => fs2[j] = fs[j] /\ j < Len(fs)
    BY <1>1
  <2>3. j > 1 => PlaceOf(fs2, code, 1) = PlaceOf(fs, code, 1) /\ fs2[2].address = fs[2].address
    BY <1>1, <1>2
  <2>4. fs2[j] = Frame(fs2[j].address, fs2[j].code, fs2[j].saved)
    <3>1. CASE j = n
      BY <1>1, <1>2, <3>1
    <3>2. CASE j < n
      BY <2>1, <2>2, <3>2 DEF FrameOk
    <3> QED
      BY <1>1, <3>1, <3>2
  <2>5. RestOf(fs2[j].code, Program(fs2, code, j))
    <3>1. CASE j = n
      BY <1>2, <3>1
    <3>2. CASE j < n
      BY <1>2, <2>1, <2>2, <3>2 DEF FrameOk
    <3> QED
      BY <1>1, <3>1, <3>2
  <2>6. j < Len(fs2) => fs2[j].code # <<>> /\ Head(fs2[j].code).kind \in Creates
    BY <1>1, <2>1, <2>2 DEF FrameOk
  <2>7. /\ j = 1 => fs2[j].address = Contract
        /\ j = 2 => fs2[j].address = AddressAt(code, PlaceOf(fs2, code, 1))
        /\ j > 2 => fs2[j].address # Caller /\ ~OfContract(fs2[j].address)
    BY <1>2, <2>1, <2>3 DEF FrameOk
  <2>8. j > 1 => CallsWithin(fs2[j].code,
                   Targets(code, PlaceOf(fs2, code, 1)) \ {fs2[2].address})
    <3> SUFFICES ASSUME j > 1
                 PROVE  CallsWithin(fs2[j].code,
                          Targets(code, PlaceOf(fs2, code, 1)) \ {fs2[2].address})
      OBVIOUS
    <3>1. CallsWithin(fs[j].code, Targets(code, PlaceOf(fs2, code, 1)) \ {fs2[2].address})
      BY <2>1, <2>3 DEF FrameOk
    <3>2. CASE j = n
      BY <1>1, <3>1, <3>2, CallsInTail
    <3>3. CASE j < n
      BY <2>2, <3>1, <3>3
    <3> QED
      BY <1>1, <3>2, <3>3
  <2> QED
    BY <2>4, <2>5, <2>6, <2>7, <2>8 DEF FrameOk
<1>4. \A i, j \in 1..n : fs2[i].address = fs2[j].address => i = j
  <2>1. \A i \in 1..n : i \in 1..Len(fs)
    BY <1>1
  <2> QED
    BY <1>2, <2>1 DEF FramesOk
<1>5. fs2 # <<>>
  BY <1>1, EmptyFacts
<1> QED
  BY <1>1, <1>3, <1>4, <1>5 DEF FramesOk

-----------------------------------------------------------------------------
(* The accounts, as the frames move on.                                    *)

LEMMA TableAgrees ==
  ASSUME NEW fs, NEW fs2, NEW code, NEW n \in Nat \ {0},
         \A i \in 1..n : fs2[i] = fs[i],
         NEW acc, NEW dep, NEW b, Table(acc, fs, code, dep, n, b)
  PROVE  Table(acc, fs2, code, dep, n, b)
<1>1. ASSUME NEW j \in 1..n
      PROVE  /\ Program(fs2, code, j) = Program(fs, code, j)
             /\ fs2[j].address = fs[j].address
             /\ PlaceOf(fs2, code, j) = PlaceOf(fs, code, j)
  <2>1. j # 1 => j - 1 \in 1..n
    OBVIOUS
  <2>2. Program(fs2, code, j) = Program(fs, code, j)
    BY <2>1 DEF Program
  <2> QED
    BY <2>2 DEF PlaceOf
<1>2. PlaceOf(fs2, code, 1) = PlaceOf(fs, code, 1)
  BY <1>1
<1>3. n >= 2 => fs2[2].address = fs[2].address
  BY <1>1
<1>4. \A j \in 1..n :
        /\ fs2[j].address \in DOMAIN acc
        /\ acc[fs2[j].address] = 1 + Bumps(Program(fs2, code, j), PlaceOf(fs2, code, j))
                                   + (IF j <= b THEN 1 ELSE 0)
  BY <1>1 DEF Table
<1> QED
  BY <1>2, <1>3, <1>4 DEF Table

\* The frame on top bumps its nonce.
LEMMA BumpTable ==
  ASSUME NEW fs, NEW code, FramesOk(fs, code), NEW acc, NEW dep,
         Table(acc, fs, code, dep, Len(fs), Len(fs) - 1),
         Len(fs) >= 2 => fs[2].address \notin dep
  PROVE  Table([acc EXCEPT ![fs[Len(fs)].address] = @ + 1],
               fs, code, dep, Len(fs), Len(fs))
<1> DEFINE n == Len(fs)
           own == fs[n].address
           new == [acc EXCEPT ![own] = @ + 1]
           Count(j) == Bumps(Program(fs, code, j), PlaceOf(fs, code, j))
<1>1. /\ n \in Nat \ {0} /\ own # Caller
      /\ n # 2 => ~OfContract(own)
      /\ \A i, j \in 1..n : fs[i].address = fs[j].address => i = j
      /\ n \in 1..n
  <2>1. n \in Nat \ {0} /\ n \in 1..n
    BY FrameAddresses
  <2> QED
    BY <2>1, FrameAddresses DEF FramesOk
<1>2. /\ acc = [a \in DOMAIN acc |-> acc[a]] /\ \A a \in DOMAIN acc : acc[a] \in Nat
      /\ own \in DOMAIN acc /\ Caller \in DOMAIN acc /\ acc[Caller] = 1
      /\ \A j \in 1..n :
           /\ fs[j].address \in DOMAIN acc
           /\ acc[fs[j].address] = 1 + Count(j) + (IF j <= n - 1 THEN 1 ELSE 0)
  BY <1>1 DEF Table, NoncesTyped
<1>3. /\ DOMAIN new = DOMAIN acc /\ new = [a \in DOMAIN new |-> new[a]]
      /\ new[own] = acc[own] + 1 /\ \A a \in DOMAIN acc : a # own => new[a] = acc[a]
  BY <1>2
<1> HIDE DEF new, own
<1>4. NoncesTyped(new)
  BY <1>2, <1>3 DEF NoncesTyped
<1>5. Caller \in DOMAIN new /\ new[Caller] = 1
  BY <1>1, <1>2, <1>3
<1>6. ASSUME NEW j \in 1..n
      PROVE  /\ fs[j].address \in DOMAIN new
             /\ new[fs[j].address] = 1 + Count(j) + (IF j <= n THEN 1 ELSE 0)
  <2>0. Count(j) \in Nat
    <3>1. FrameOk(fs, code, j)
      BY DEF FramesOk
    <3>2. RestOf(fs[j].code, Program(fs, code, j))
      BY <3>1 DEF FrameOk
    <3>3. PlaceOf(fs, code, j) \in Nat /\ Sequence(Program(fs, code, j))
      <4>1. Sequence(Program(fs, code, j))
        BY <3>2 DEF RestOf
      <4> QED
        BY <3>2, <4>1, PlaceFacts, SequenceFacts DEF PlaceOf
    <3> QED
      BY <3>3, EarlierFacts
  <2> HIDE DEF Count
  <2>1. CASE j = n
    <3>1. fs[j].address = own /\ acc[own] = 1 + Count(j) + 0
      BY <1>1, <1>2, <2>1 DEF own
    <3> QED
      BY <1>1, <1>2, <1>3, <2>0, <2>1, <3>1
  <2>2. CASE j # n
    <3>1. fs[j].address # own
      BY <1>1, <2>2 DEF own
    <3>2. j <= n - 1 /\ j <= n
      BY <1>1, <2>2
    <3> QED
      BY <1>2, <1>3, <3>1, <3>2
  <2> QED
    BY <2>1, <2>2
<1>7. ASSUME NEW a \in dep
      PROVE  /\ a \in DOMAIN new
             /\ \E i \in Earlier(code, PlaceOf(fs, code, 1)) :
                  a = AddressAt(code, i) /\ new[a] = NonceLeft(code, i)
  <2>1. PICK i \in Earlier(code, PlaceOf(fs, code, 1)) :
          a = AddressAt(code, i) /\ acc[a] = NonceLeft(code, i)
    BY DEF Table
  <2>2. a # own
    <3>1. CASE n = 2
      BY <3>1 DEF own
    <3>2. CASE n # 2
      BY <1>1, <2>1, <3>2, AddressOutside
    <3> QED
      BY <3>1, <3>2
  <2>3. a \in DOMAIN acc
    BY DEF Table
  <2> QED
    BY <1>3, <2>1, <2>2, <2>3
<1>8. \A a \in DOMAIN new : OfContract(a) => a \in dep \/ (n >= 2 /\ a = fs[2].address)
  BY <1>3 DEF Table
<1>9. Table(new, fs, code, dep, n, n)
  BY <1>4, <1>5, <1>6, <1>7, <1>8 DEF Table
<1> QED
  BY <1>9 DEF new, own

\* Past a CREATE the nonce counts it among those before.
LEMMA PassedTable ==
  ASSUME NEW fs, NEW code, FramesOk(fs, code), NEW fs2, NEW n,
         Advanced(fs, fs2, n), fs[n].code # <<>>, NEW acc, NEW dep, NEW b,
         Head(fs[n].code).kind \in Creates => b = n,
         Head(fs[n].code).kind \notin Creates => b = n - 1,
         Table(acc, fs, code, dep, n, b)
  PROVE  Table(acc, fs2, code, dep, n, n - 1)
<1> DEFINE p == Program(fs, code, n)
           here == PlaceOf(fs, code, n)
           kind == Head(fs[n].code).kind
<1>1. /\ n \in 1..Len(fs) /\ n \in Nat \ {0}
      /\ \A j \in 1..n : /\ Program(fs2, code, j) = Program(fs, code, j)
                         /\ fs2[j].address = fs[j].address
      /\ \A j \in 1..(n - 1) : PlaceOf(fs2, code, j) = PlaceOf(fs, code, j)
      /\ PlaceOf(fs2, code, n) = here + 1
      /\ Sequence(p) /\ here \in 1..Len(p) /\ here \in Nat
      /\ p[here] = Head(fs[n].code)
  BY AdvancedFacts
<1> HIDE DEF p, here
<1>2. /\ here \in CreatesIn(p) <=> kind \in Creates
  BY <1>1, SequenceFacts DEF CreatesIn
<1>3. /\ Bumps(p, here) \in Nat /\ Earlier(p, here) \subseteq Earlier(p, here + 1)
      /\ Bumps(p, here + 1) = Bumps(p, here) + (IF kind \in Creates THEN 1 ELSE 0)
  <2>1. here + 1 \in Nat /\ here <= here + 1
    BY <1>1
  <2>2. Bumps(p, here) \in Nat /\ Earlier(p, here) \subseteq Earlier(p, here + 1)
    BY <1>1, <2>1, EarlierFacts
  <2>3. CASE kind \in Creates
    BY <1>1, <1>2, <2>2, <2>3, EarlierFacts
  <2>4. CASE kind \notin Creates
    <3>1. Earlier(p, here + 1) = Earlier(p, here)
      BY <1>1, <1>2, <2>4, EarlierFacts
    <3> QED
      BY <2>2, <2>4, <3>1 DEF Bumps
  <2> QED
    BY <2>3, <2>4
<1> HIDE DEF kind
<1>4. ASSUME NEW j \in 1..n
      PROVE  /\ fs2[j].address \in DOMAIN acc
             /\ acc[fs2[j].address] =
                  1 + Bumps(Program(fs2, code, j), PlaceOf(fs2, code, j))
                    + (IF j <= n - 1 THEN 1 ELSE 0)
  <2>1. /\ fs2[j].address \in DOMAIN acc
        /\ acc[fs2[j].address] = 1 + Bumps(Program(fs2, code, j), PlaceOf(fs, code, j))
                                   + (IF j <= b THEN 1 ELSE 0)
    BY <1>1 DEF Table
  <2>2. CASE j = n
    <3>1. Program(fs2, code, j) = p /\ PlaceOf(fs2, code, j) = here + 1
          /\ PlaceOf(fs, code, j) = here
      BY <1>1, <2>2 DEF p, here
    <3>2. (IF j <= b THEN 1 ELSE 0) = (IF kind \in Creates THEN 1 ELSE 0)
      BY <1>1, <2>2 DEF kind
    <3>3. (IF j <= n - 1 THEN 1 ELSE 0) = 0
      BY <1>1, <2>2
    <3> QED
      BY <1>3, <2>1, <3>1, <3>2, <3>3
  <2>3. CASE j # n
    <3>1. j \in 1..(n - 1) /\ j <= n - 1 /\ j <= b
      BY <1>1, <2>3
    <3>2. PlaceOf(fs2, code, j) = PlaceOf(fs, code, j)
      BY <1>1, <3>1
    <3> QED
      BY <2>1, <3>1, <3>2
  <2> QED
    BY <2>2, <2>3
<1>5. Earlier(code, PlaceOf(fs, code, 1)) \subseteq Earlier(code, PlaceOf(fs2, code, 1))
  <2>1. CASE n = 1
    <3>1. p = code
      BY <2>1 DEF p, Program
    <3> QED
      BY <1>1, <1>3, <2>1, <3>1 DEF here
  <2>2. CASE n # 1
    BY <1>1, <2>2
  <2> QED
    BY <2>1, <2>2
<1>6. n >= 2 => fs2[2].address = fs[2].address
  BY <1>1
<1>7. ASSUME NEW a \in dep
      PROVE  /\ a \in DOMAIN acc
             /\ \E i \in Earlier(code, PlaceOf(fs2, code, 1)) :
                  a = AddressAt(code, i) /\ acc[a] = NonceLeft(code, i)
  BY <1>5 DEF Table
<1> QED
  BY <1>4, <1>6, <1>7 DEF Table

\* What is kept to undo the work of the frames above.
LEMMA SavedAdvanced ==
  ASSUME NEW fs, NEW code, FramesOk(fs, code), NEW fs2, NEW n,
         Advanced(fs, fs2, n), fs[n].code # <<>>, NEW dep,
         \A j \in 2..Len(fs) : Table(fs[j].saved, fs, code, dep, j - 1, j - 1)
  PROVE  \A j \in 2..Len(fs2) : Table(fs2[j].saved, fs2, code, dep, j - 1, j - 1)
<1>1. /\ n \in 1..Len(fs) /\ n \in Nat \ {0} /\ Len(fs) \in Nat /\ Len(fs2) = n
      /\ \A j \in 1..n : fs2[j].saved = fs[j].saved
      /\ \A i \in 1..(n - 1) : fs2[i] = fs[i]
  BY AdvancedFacts, FrameAddresses DEF Advanced
<1> SUFFICES ASSUME NEW j \in 2..n
             PROVE  Table(fs2[j].saved, fs2, code, dep, j - 1, j - 1)
  BY <1>1
<1>2. /\ j \in 2..Len(fs) /\ j \in 1..n /\ j - 1 \in Nat \ {0}
      /\ \A i \in 1..(j - 1) : fs2[i] = fs[i]
  BY <1>1
<1>3. Table(fs2[j].saved, fs, code, dep, j - 1, j - 1)
  BY <1>1, <1>2
<1> QED
  BY <1>2, <1>3, TableAgrees

LEMMA AdvancedEarlier ==
  ASSUME NEW fs, NEW code, FramesOk(fs, code), NEW fs2, NEW n,
         Advanced(fs, fs2, n), fs[n].code # <<>>
  PROVE  LET here == PlaceOf(fs, code, 1)
             next == PlaceOf(fs2, code, 1)
         IN /\ n = 1 /\ Head(fs[n].code).kind \in Creates =>
                 Earlier(code, next) = Earlier(code, here) \cup {here}
            /\ ~(n = 1 /\ Head(fs[n].code).kind \in Creates) =>
                 Earlier(code, next) = Earlier(code, here)
<1> DEFINE here == PlaceOf(fs, code, 1)
           next == PlaceOf(fs2, code, 1)
<1>1. CASE n = 1
  <2> DEFINE p == Program(fs, code, n)
  <2>1. /\ next = here + 1 /\ Sequence(p) /\ here \in 1..Len(p) /\ here \in Nat
        /\ p[here] = Head(fs[n].code)
    BY <1>1, AdvancedFacts
  <2>2. p = code
    BY <1>1 DEF Program
  <2> HIDE DEF here, next, p
  <2>3. here \in CreatesIn(code) <=> Head(fs[n].code).kind \in Creates
    BY <2>1, <2>2, SequenceFacts DEF CreatesIn
  <2>4. here \in CreatesIn(code) => Earlier(code, next) = Earlier(code, here) \cup {here}
    BY <2>1, <2>2, EarlierFacts
  <2>5. here \notin CreatesIn(code) => Earlier(code, next) = Earlier(code, here)
    BY <2>1, <2>2, EarlierFacts
  <2> QED
    BY <1>1, <2>3, <2>4, <2>5 DEF here, next
<1>2. CASE n # 1
  <2>1. next = here
    BY <1>2, AdvancedFacts
  <2> HIDE DEF here, next
  <2> QED
    BY <1>2, <2>1 DEF here, next
<1> QED
  BY <1>1, <1>2

LEMMA AdvancedTop ==
  ASSUME NEW fs, NEW code, FramesOk(fs, code)
  PROVE  Advanced(fs, [fs EXCEPT ![Len(fs)] = Passed(@)], Len(fs))
<1> DEFINE n == Len(fs)
           new == [fs EXCEPT ![n] = Passed(@)]
<1>1. n \in Nat \ {0} /\ n \in 1..n /\ Sequence(fs) /\ fs # <<>>
  BY FrameAddresses DEF FramesOk
<1>2. /\ Sequence(new) /\ Len(new) = n /\ new[n] = Passed(fs[n])
      /\ \A i \in 1..n : i # n => new[i] = fs[i]
  BY <1>1, ReplaceLast
<1>3. FrameOk(fs, code, n)
  BY <1>1 DEF FramesOk
<1> HIDE DEF n, new
<1>4. Passed(fs[n]) = Frame(fs[n].address, Tail(fs[n].code), fs[n].saved)
  <2>1. fs[n] = Frame(fs[n].address, fs[n].code, fs[n].saved)
    BY <1>3 DEF FrameOk
  <2> QED
    BY <2>1, PassedFrame
<1>5. \A i \in 1..(n - 1) : new[i] = fs[i]
  BY <1>1, <1>2, NotLast
<1>6. Advanced(fs, new, n)
  BY <1>1, <1>2, <1>4, <1>5 DEF Advanced, n
<1> QED
  BY <1>6 DEF new, n

LEMMA AdvancedBelow ==
  ASSUME NEW fs, NEW code, FramesOk(fs, code), Len(fs) > 1
  PROVE  LET n == Len(fs) - 1
         IN /\ Advanced(fs, [SubSeq(fs, 1, n) EXCEPT ![n] = Passed(@)], n)
            /\ n \in Nat \ {0} /\ fs[n].code # <<>> /\ Head(fs[n].code).kind \in Creates
<1> DEFINE n == Len(fs) - 1
           below == SubSeq(fs, 1, n)
           new == [below EXCEPT ![n] = Passed(@)]
<1>1. n \in Nat \ {0} /\ n \in 1..Len(fs) /\ n < Len(fs) /\ Sequence(fs)
  BY FrameAddresses DEF FramesOk
<1>2. Sequence(below) /\ Len(below) = n /\ \A i \in 1..n : below[i] = fs[i]
  BY <1>1, AllButLast
<1> HIDE DEF n, below
<1>3. below # <<>> /\ below[n] = fs[n]
  <2>1. Len(below) # 0 /\ n \in 1..n
    BY <1>1, <1>2
  <2> QED
    BY <1>2, <2>1, EmptyFacts
<1>4. /\ Sequence(new) /\ Len(new) = n /\ new[n] = Passed(fs[n])
      /\ \A i \in 1..n : i # n => new[i] = fs[i]
  <2> DEFINE e == Passed(below[n])
             l == [below EXCEPT ![Len(below)] = e]
  <2>1. /\ Sequence(l) /\ Len(l) = Len(below) /\ l[Len(below)] = e
        /\ \A i \in 1..Len(below) : i # Len(below) => l[i] = below[i]
    BY <1>2, <1>3, ReplaceLast
  <2>2. l = new
    BY <1>2
  <2> HIDE DEF l, new
  <2> QED
    BY <1>2, <1>3, <2>1, <2>2
<1>5. FrameOk(fs, code, n)
  BY <1>1 DEF FramesOk
<1>6. Passed(fs[n]) = Frame(fs[n].address, Tail(fs[n].code), fs[n].saved)
  <2>1. fs[n] = Frame(fs[n].address, fs[n].code, fs[n].saved)
    BY <1>5 DEF FrameOk
  <2> QED
    BY <2>1, PassedFrame
<1> HIDE DEF new
<1>7. \A i \in 1..(n - 1) : new[i] = fs[i]
  BY <1>1, <1>4, NotLast
<1>8. Advanced(fs, new, n)
  BY <1>1, <1>4, <1>6, <1>7 DEF Advanced
<1>9. fs[n].code # <<>> /\ Head(fs[n].code).kind \in Creates
  BY <1>1, <1>5 DEF FrameOk
<1> QED
  BY <1>1, <1>8, <1>9 DEF new, below, n

-----------------------------------------------------------------------------
(* The steps of the EVM.                                                   *)

Main == machines[1].code

Executing ==
  /\ Sequence(Main) /\ CallsBack(Main)
  /\ frames # <<>> /\ Runs(frames, accounts, Main, deployed) /\ Kept

\* What Executing says of the next state, as the program stays.
GoesOn ==
  /\ frames' # <<>> /\ Runs(frames', accounts', Main, deployed') /\ Kept'

LEMMA ExecutingFacts ==
  ASSUME Executing
  PROVE  /\ FramesOk(frames, Main) /\ Running \in Nat \ {0} /\ Running = Len(frames)
         /\ Table(accounts, frames, Main, deployed, Running, Running - 1)
         /\ Running >= 2 => frames[2].address \notin deployed
         /\ Inner = frames[Running] /\ FrameOk(frames, Main, Running)
         /\ Inner.address \in DOMAIN accounts
<1>1. FramesOk(frames, Main) /\ Running \in Nat \ {0} /\ Running \in 1..Running
  BY FrameAddresses DEF Executing, Runs, Running
<1>2. Table(accounts, frames, Main, deployed, Running, Running - 1)
  BY DEF Executing, Runs, Running
<1>3. FrameOk(frames, Main, Running)
  BY <1>1 DEF FramesOk, Running
<1>4. Inner.address \in DOMAIN accounts
  BY <1>1, <1>2 DEF Table, Inner
<1> QED
  BY <1>1, <1>2, <1>3, <1>4 DEF Executing, Runs, Running, Inner

\* A frame is past its opcode, the frames above it are gone.
LEMMA AdvancedGoesOn ==
  ASSUME Executing, NEW fs2, NEW n, Advanced(frames, fs2, n), frames[n].code # <<>>,
         NEW acc, NEW dep, Table(acc, fs2, Main, dep, n, n - 1),
         n >= 2 => dep = deployed
  PROVE  fs2 # <<>> /\ Runs(fs2, acc, Main, dep)
<1>1. FramesOk(frames, Main) /\ FramesOk(fs2, Main) /\ Len(fs2) = n
  BY ExecutingFacts, AdvancedFrames DEF Advanced
<1>2. n \in Nat \ {0} /\ \A j \in 1..n : fs2[j].address = frames[j].address
  BY <1>1, AdvancedFacts
<1>3. \A j \in 2..Len(fs2) : Table(fs2[j].saved, fs2, Main, dep, j - 1, j - 1)
  <2>1. CASE n = 1
    BY <1>1, <2>1
  <2>2. CASE n >= 2
    <3>1. \A j \in 2..Len(frames) : Table(frames[j].saved, frames, Main, dep, j - 1, j - 1)
      BY <2>2 DEF Executing, Runs
    <3> QED
      BY <1>1, <3>1, SavedAdvanced
  <2> QED
    BY <1>2, <2>1, <2>2
<1>4. Len(fs2) >= 2 => fs2[2].address \notin dep
  <2> SUFFICES ASSUME n >= 2 PROVE fs2[2].address \notin dep
    BY <1>1
  <2>1. 2 \in 1..n /\ Running >= 2
    BY <1>1, <1>2, FrameAddresses DEF Advanced, Running
  <2> QED
    BY <1>2, <2>1, ExecutingFacts
<1> QED
  BY <1>1, <1>3, <1>4 DEF Runs, FramesOk

LEMMA RunFlatGoesOn == Executing /\ RunFlat => GoesOn
<1> SUFFICES ASSUME Executing, RunFlat PROVE GoesOn
  OBVIOUS
<1> DEFINE n == Running
<1>1. /\ FramesOk(frames, Main) /\ n = Len(frames) /\ Inner = frames[n]
      /\ Table(accounts, frames, Main, deployed, n, n - 1)
  BY ExecutingFacts
<1>2. /\ frames[n].code # <<>> /\ Head(frames[n].code).kind \notin Creates
      /\ frames' = [frames EXCEPT ![Len(frames)] = Passed(@)]
      /\ UNCHANGED <<machines, accounts, deployed, failed, lost>>
  BY <1>1 DEF RunFlat, AtOpcode, Next1, Creates, genVars
<1> HIDE DEF n
<1>3. Advanced(frames, frames', n)
  BY <1>1, <1>2, AdvancedTop
<1>4. Table(accounts, frames', Main, deployed, n, n - 1)
  BY <1>1, <1>2, <1>3, PassedTable
<1>5. frames' # <<>> /\ Runs(frames', accounts', Main, deployed')
  BY <1>2, <1>3, <1>4, AdvancedGoesOn
<1>6. Earlier(Main, PlaceOf(frames', Main, 1)) = Earlier(Main, PlaceOf(frames, Main, 1))
  BY <1>1, <1>2, <1>3, AdvancedEarlier
<1>7. Kept'
  BY <1>2, <1>6 DEF Executing, Kept, Main
<1> QED
  BY <1>5, <1>7 DEF GoesOn

\* A frame that runs out of gas undoes what the frames above the outer one did.
LEMMA RunOutOfGasGoesOn == Executing /\ RunOutOfGas => GoesOn
<1> SUFFICES ASSUME Executing, RunOutOfGas PROVE GoesOn
  OBVIOUS
<1> DEFINE n == Running - 1
<1>1. /\ FramesOk(frames, Main) /\ Running = Len(frames) /\ Running \in Nat \ {0}
      /\ Inner = frames[Running]
  BY ExecutingFacts
<1>2. /\ Len(frames) > 1
      /\ frames' = [SubSeq(frames, 1, n) EXCEPT ![n] = Passed(@)]
      /\ accounts' = frames[Running].saved /\ failed'
      /\ lost' <=> lost \/ Running = 2
      /\ machines' = machines /\ deployed' = deployed
  BY <1>1 DEF RunOutOfGas, Outer, genVars
<1>3. /\ Advanced(frames, frames', n) /\ n \in Nat \ {0}
      /\ frames[n].code # <<>> /\ Head(frames[n].code).kind \in Creates
  BY <1>1, <1>2, AdvancedBelow
<1> HIDE DEF n
<1>4. Table(accounts', frames, Main, deployed, n, n)
  <2>1. Running \in 2..Len(frames) /\ n = Running - 1
    BY <1>1, <1>2 DEF n
  <2> QED
    BY <1>2, <2>1 DEF Executing, Runs
<1>5. Table(accounts', frames', Main, deployed, n, n - 1)
  BY <1>1, <1>3, <1>4, PassedTable
<1>6. frames' # <<>> /\ Runs(frames', accounts', Main, deployed')
  BY <1>2, <1>3, <1>5, AdvancedGoesOn
<1>7. ~lost' => Earlier(Main, PlaceOf(frames', Main, 1)) = Earlier(Main, PlaceOf(frames, Main, 1))
  <2> SUFFICES ASSUME ~lost'
               PROVE  Earlier(Main, PlaceOf(frames', Main, 1))
                        = Earlier(Main, PlaceOf(frames, Main, 1))
    OBVIOUS
  <2>1. n # 1
    BY <1>1, <1>2 DEF n
  <2> QED
    BY <1>1, <1>3, <2>1, AdvancedEarlier
<1>8. Kept'
  BY <1>2, <1>7 DEF Executing, Kept, Main
<1> QED
  BY <1>6, <1>8 DEF GoesOn

\* The root's CREATEs deploy where the machine says, others elsewhere.
LEMMA RuntimeAddressFacts ==
  ASSUME Executing, AtOpcode, Next1.kind \in Creates
  PROVE  /\ Running = 1 => RuntimeAddress = AddressAt(Main, PlaceOf(frames, Main, 1))
         /\ Running > 1 => ~OfContract(RuntimeAddress)
         /\ RuntimeAddress # Caller
<1>1. /\ FramesOk(frames, Main) /\ Running = Len(frames) /\ Running \in Nat \ {0}
      /\ Inner = frames[Running] /\ FrameOk(frames, Main, Running)
      /\ Table(accounts, frames, Main, deployed, Running, Running - 1)
  BY ExecutingFacts
<1>2. RuntimeAddress # Caller
  BY AddressFacts DEF RuntimeAddress
<1>3. ASSUME Running = 1
      PROVE  RuntimeAddress = AddressAt(Main, PlaceOf(frames, Main, 1))
  <2> DEFINE here == PlaceOf(frames, Main, 1)
  <2>1. Inner = frames[1] /\ Inner.address = Contract /\ Program(frames, Main, 1) = Main
    BY <1>1, <1>3 DEF FrameOk, Program
  <2>2. RestOf(frames[1].code, Main) /\ Inner.code # <<>>
    BY <1>1, <1>3, <2>1 DEF FrameOk, AtOpcode
  <2>3. here = Place(frames[1].code, Main)
    BY <2>1 DEF PlaceOf
  <2>4. /\ Head(frames[1].code) = Main[Place(frames[1].code, Main)]
        /\ Place(frames[1].code, Main) \in Nat /\ Sequence(Main)
    <3>1. Sequence(Main)
      BY DEF Executing
    <3> QED
      BY <2>1, <2>2, <3>1, PlaceFacts, SequenceFacts
  <2>5. accounts[Contract] = 1 + Bumps(Main, here) + 0
    <3>1. 1 \in 1..Running /\ ~(1 <= Running - 1)
      BY <1>3
    <3>2. accounts[frames[1].address] = 1 + Bumps(Program(frames, Main, 1), here)
                                          + (IF 1 <= Running - 1 THEN 1 ELSE 0)
      BY <1>1, <3>1 DEF Table
    <3> QED
      BY <2>1, <3>1, <3>2
  <2>6. Bumps(Main, here) \in Nat
    BY <2>3, <2>4, EarlierFacts
  <2> HIDE DEF here
  <2>7. Next1 = Main[here] /\ accounts[Contract] = 1 + Bumps(Main, here)
    BY <2>1, <2>3, <2>4, <2>5, <2>6 DEF Next1
  <2> QED
    BY <2>1, <2>7 DEF RuntimeAddress, AddressAt, here, Creates
<1>4. ASSUME Running > 1
      PROVE  ~OfContract(RuntimeAddress)
  <2>1. frames[1].address = Contract /\ 1 \in 1..Len(frames) /\ Running \in 1..Len(frames)
    <3>1. 1 \in 1..Len(frames) /\ Running \in 1..Len(frames)
      BY <1>1
    <3> QED
      BY <3>1, <1>1 DEF FramesOk, FrameOk
  <2>2. Inner.address # Contract
    BY <1>1, <1>4, <2>1 DEF FramesOk
  <2> QED
    BY <2>2, AddressFacts DEF RuntimeAddress, OfContract
<1> QED
  BY <1>2, <1>3, <1>4

LEMMA WithBumpTable ==
  ASSUME Executing
  PROVE  /\ Table(WithBump, frames, Main, deployed, Running, Running)
         /\ DOMAIN WithBump = DOMAIN accounts
<1>1. /\ FramesOk(frames, Main) /\ Running = Len(frames) /\ Inner = frames[Running]
      /\ Table(accounts, frames, Main, deployed, Running, Running - 1)
      /\ Running >= 2 => frames[2].address \notin deployed
  BY ExecutingFacts
<1>2. Table([accounts EXCEPT ![frames[Len(frames)].address] = @ + 1],
            frames, Main, deployed, Len(frames), Len(frames))
  BY <1>1, BumpTable
<1>3. WithBump = [accounts EXCEPT ![frames[Len(frames)].address] = @ + 1]
  BY <1>1 DEF WithBump
<1>4. DOMAIN WithBump = DOMAIN accounts
  BY DEF WithBump
<1> QED
  BY <1>1, <1>2, <1>3, <1>4

LEMMA CollideGoesOn == Executing /\ Collide => GoesOn
<1> SUFFICES ASSUME Executing, Collide PROVE GoesOn
  OBVIOUS
<1> DEFINE n == Running
           here == PlaceOf(frames, Main, 1)
<1>1. /\ FramesOk(frames, Main) /\ n = Len(frames) /\ Inner = frames[n]
      /\ n \in Nat \ {0}
      /\ Table(accounts, frames, Main, deployed, n, n - 1)
      /\ Table(WithBump, frames, Main, deployed, n, n)
  BY ExecutingFacts, WithBumpTable
<1>2. /\ frames[n].code # <<>> /\ Head(frames[n].code).kind \in Creates
      /\ frames' = [frames EXCEPT ![Len(frames)] = Passed(@)]
      /\ accounts' = WithBump /\ RuntimeAddress \in DOMAIN accounts
      /\ UNCHANGED <<machines, deployed, failed, lost>>
      /\ AtOpcode /\ Next1.kind \in Creates
  BY <1>1 DEF Collide, AtOpcode, Next1, genVars
<1>a. n = 1 => RuntimeAddress = AddressAt(Main, here)
  BY <1>2, RuntimeAddressFacts
<1> HIDE DEF n
<1>3. Advanced(frames, frames', n)
  BY <1>1, <1>2, AdvancedTop
<1>4. Table(WithBump, frames', Main, deployed, n, n - 1)
  BY <1>1, <1>2, <1>3, PassedTable
<1>5. frames' # <<>> /\ Runs(frames', accounts', Main, deployed')
  BY <1>2, <1>3, <1>4, AdvancedGoesOn
<1>6. /\ n = 1 => Earlier(Main, PlaceOf(frames', Main, 1)) = Earlier(Main, here) \cup {here}
      /\ n # 1 => Earlier(Main, PlaceOf(frames', Main, 1)) = Earlier(Main, here)
  BY <1>1, <1>2, <1>3, AdvancedEarlier
<1>7. n = 1 => AddressAt(Main, here) \in deployed
  <2> SUFFICES ASSUME n = 1 PROVE AddressAt(Main, here) \in deployed
    OBVIOUS
  <2>1. OfContract(AddressAt(Main, here)) /\ AddressAt(Main, here) \in DOMAIN accounts
    BY <1>2, <1>a, AddressOutside
  <2> QED
    BY <1>1, <2>1 DEF Table
<1> HIDE DEF here
<1>8. Kept'
  BY <1>2, <1>6, <1>7 DEF Executing, Kept, Main, here
<1> QED
  BY <1>5, <1>8 DEF GoesOn

\* A new account beside those there were.
LEMMA AddedTable ==
  ASSUME NEW fs, NEW code, FramesOk(fs, code), NEW acc, NEW dep,
         Table(acc, fs, code, dep, Len(fs), Len(fs)),
         NEW f, NEW a, a \notin DOMAIN acc, f.address = a, f.code = Head(fs[Len(fs)].code).init,
         Sequence(f.code), a # Caller, Len(fs) > 1 => ~OfContract(a)
  PROVE  Table(Having(acc, a, 1), Append(fs, f), code, dep, Len(fs) + 1, Len(fs))
<1> DEFINE n == Len(fs)
           new == Having(acc, a, 1)
           fs2 == Append(fs, f)
<1>1. /\ n \in Nat \ {0} /\ Sequence(fs) /\ Len(fs2) = n + 1 /\ fs2[n + 1] = f
      /\ \A i \in 1..n : fs2[i] = fs[i]
  BY FrameAddresses, AppendSequence DEF FramesOk
<1>2. /\ DOMAIN new = DOMAIN acc \cup {a} /\ new = [x \in DOMAIN new |-> new[x]]
      /\ new[a] = 1 /\ \A x \in DOMAIN acc : new[x] = acc[x]
  BY DEF Having
<1> HIDE DEF n, new, fs2
<1>3. Table(acc, fs2, code, dep, n, n)
  BY <1>1, TableAgrees DEF n
<1>4. /\ NoncesTyped(acc) /\ Caller \in DOMAIN acc /\ acc[Caller] = 1
      /\ \A j \in 1..n :
           /\ fs2[j].address \in DOMAIN acc
           /\ acc[fs2[j].address] = 1 + Bumps(Program(fs2, code, j), PlaceOf(fs2, code, j)) + 1
  <2>1. \A j \in 1..n : j <= n
    BY <1>1
  <2> QED
    BY <1>3, <2>1 DEF Table
<1>5. NoncesTyped(new) /\ Caller \in DOMAIN new /\ new[Caller] = 1
  BY <1>2, <1>4 DEF NoncesTyped
<1>6. ASSUME NEW j \in 1..(n + 1)
      PROVE  /\ fs2[j].address \in DOMAIN new
             /\ new[fs2[j].address] = 1 + Bumps(Program(fs2, code, j), PlaceOf(fs2, code, j))
                                        + (IF j <= n THEN 1 ELSE 0)
  <2>1. CASE j = n + 1
    <3>1. fs2[j] = f /\ fs2[j].address = a /\ ~(j <= n)
      BY <1>1, <2>1
    <3>2. Program(fs2, code, j) = f.code
      <4>1. j # 1 /\ j - 1 = n /\ n \in 1..n
        BY <1>1, <2>1
      <4>2. fs2[j - 1] = fs[n]
        BY <1>1, <4>1
      <4> QED
        BY <4>1, <4>2 DEF Program, n
    <3>3. PlaceOf(fs2, code, j) = 1
      BY <3>1, <3>2, PlaceStart DEF PlaceOf
    <3>4. Bumps(f.code, 1) = 0
      BY EarlierEnds
    <3> QED
      BY <1>2, <3>1, <3>2, <3>3, <3>4
  <2>2. CASE j # n + 1
    <3>1. j \in 1..n /\ j <= n
      BY <1>1, <2>2
    <3> QED
      BY <1>2, <1>4, <3>1
  <2> QED
    BY <2>1, <2>2
<1>7. ASSUME NEW x \in dep
      PROVE  /\ x \in DOMAIN new
             /\ \E i \in Earlier(code, PlaceOf(fs2, code, 1)) :
                  x = AddressAt(code, i) /\ new[x] = NonceLeft(code, i)
  BY <1>2, <1>3 DEF Table
<1>8. ASSUME NEW x \in DOMAIN new, OfContract(x)
      PROVE  x \in dep \/ (n + 1 >= 2 /\ x = fs2[2].address)
  <2>1. CASE x \in DOMAIN acc
    <3>1. x \in dep \/ (n >= 2 /\ x = fs2[2].address)
      BY <1>3, <1>8, <2>1 DEF Table
    <3> QED
      BY <1>1, <3>1
  <2>2. CASE x = a
    <3>1. n = 1
      <4>1. ~(n > 1)
        BY <1>8, <2>2 DEF n
      <4> QED
        BY <1>1, <4>1
    <3>2. fs2[2] = f /\ n + 1 >= 2
      BY <1>1, <3>1
    <3> QED
      BY <2>2, <3>2
  <2> QED
    BY <1>2, <2>1, <2>2
<1>9. Table(new, fs2, code, dep, n + 1, n)
  <2>1. n + 1 - 0 = n + 1
    BY <1>1
  <2> QED
    BY <1>5, <1>6, <1>7, <1>8 DEF Table
<1> QED
  BY <1>9 DEF new, fs2, n

LEMMA EnterCreateGoesOn == Executing /\ EnterCreate => GoesOn
<1> SUFFICES ASSUME Executing, EnterCreate PROVE GoesOn
  OBVIOUS
<1> DEFINE n == Running
           here == PlaceOf(frames, Main, 1)
           f == Frame(RuntimeAddress, Next1.init, WithBump)
           T == Targets(Main, here)
           outer == IF n = 1 THEN RuntimeAddress ELSE frames[2].address
<1>1. /\ FramesOk(frames, Main) /\ n = Len(frames) /\ Inner = frames[n]
      /\ n \in Nat \ {0} /\ FrameOk(frames, Main, n)
      /\ Table(accounts, frames, Main, deployed, n, n - 1)
      /\ Table(WithBump, frames, Main, deployed, n, n)
      /\ DOMAIN WithBump = DOMAIN accounts
      /\ n >= 2 => frames[2].address \notin deployed
  BY ExecutingFacts, WithBumpTable
<1>2. /\ frames[n].code # <<>> /\ Next1 = Head(frames[n].code) /\ Next1.kind \in Creates
      /\ frames' = Append(frames, f)
      /\ accounts' = Having(WithBump, RuntimeAddress, 1)
      /\ RuntimeAddress \notin DOMAIN accounts
      /\ UNCHANGED <<machines, deployed, failed, lost>> /\ AtOpcode
  BY <1>1 DEF EnterCreate, AtOpcode, Next1, genVars
<1>3. /\ n = 1 => RuntimeAddress = AddressAt(Main, here)
      /\ n > 1 => ~OfContract(RuntimeAddress)
      /\ RuntimeAddress # Caller
  BY <1>2, RuntimeAddressFacts
<1>4. f.address = RuntimeAddress /\ f.code = Next1.init /\ f.saved = WithBump
      /\ f = Frame(f.address, f.code, f.saved)
  BY FrameFields
<1> DEFINE fs == frames'
<1>5. /\ Sequence(frames) /\ Sequence(fs) /\ Len(fs) = n + 1 /\ fs[n + 1] = f
      /\ \A i \in 1..n : fs[i] = frames[i]
  BY <1>1, <1>2, AppendSequence DEF FramesOk
<1> HIDE DEF n, here, f, fs, outer
\* What the new frame runs makes no call to a contract under way.
<1>6. CallsWithin(f.code, T \ {outer})
  <2>1. CASE n = 1
    <3>1. RestOf(frames[1].code, Main)
      BY <1>1, <2>1 DEF FrameOk, Program
    <3>2. here = Place(frames[1].code, Main)
      BY DEF here, PlaceOf, Program
    <3>3. here \in 1..Len(Main) /\ Main[here] = Next1
      BY <1>2, <2>1, <3>1, <3>2, PlaceFacts
    <3>4. here \in DOMAIN Main /\ CallsBack(Main)
      BY <3>3, SequenceFacts DEF Executing
    <3>5. CallsWithin(Next1.init, T \ {AddressAt(Main, here)})
      BY <1>2, <3>3, <3>4 DEF CallsBack
    <3> QED
      BY <1>3, <1>4, <2>1, <3>5 DEF outer
  <2>2. CASE n # 1
    <3>1. n > 1
      BY <1>1, <2>2
    <3>2. CallsWithin(frames[n].code, T \ {frames[2].address})
      BY <1>1, <3>1 DEF FrameOk, here
    <3> QED
      BY <1>2, <1>4, <2>2, <3>2, CallsInTail DEF outer
  <2> QED
    BY <2>1, <2>2
<1>7. Sequence(f.code)
  BY <1>6, CallsUnfold
<1>8. Table(accounts', fs, Main, deployed, n + 1, n)
  <2>1. Table(Having(WithBump, RuntimeAddress, 1), Append(frames, f), Main, deployed,
              Len(frames) + 1, Len(frames))
    BY <1>1, <1>2, <1>3, <1>4, <1>7, AddedTable
  <2> QED
    BY <1>1, <1>2, <2>1 DEF fs
<1>9. /\ \A j \in 1..n : /\ Program(fs, Main, j) = Program(frames, Main, j)
                         /\ PlaceOf(fs, Main, j) = PlaceOf(frames, Main, j)
      /\ Program(fs, Main, n + 1) = f.code
  <2>1. ASSUME NEW j \in 1..n
        PROVE  /\ Program(fs, Main, j) = Program(frames, Main, j)
               /\ PlaceOf(fs, Main, j) = PlaceOf(frames, Main, j)
    <3>1. j # 1 => j - 1 \in 1..n
      BY <1>1
    <3>2. Program(fs, Main, j) = Program(frames, Main, j)
      BY <1>5, <3>1 DEF Program
    <3> QED
      BY <1>5, <3>2 DEF PlaceOf
  <2>2. n + 1 # 1 /\ (n + 1) - 1 = n /\ n \in 1..n
    BY <1>1
  <2>3. Program(fs, Main, n + 1) = Head(fs[n].code).init
    BY <2>2 DEF Program
  <2> QED
    BY <1>2, <1>4, <1>5, <2>1, <2>2, <2>3
<1>10. PlaceOf(fs, Main, 1) = here /\ fs[2].address = outer
  <2>1. 1 \in 1..n
    BY <1>1
  <2>2. CASE n = 1
    BY <1>4, <1>5, <1>9, <2>1, <2>2 DEF here, outer
  <2>3. CASE n # 1
    <3>1. 2 \in 1..n
      BY <1>1, <2>3
    <3> QED
      BY <1>5, <1>9, <2>1, <2>3, <3>1 DEF here, outer
  <2> QED
    BY <2>2, <2>3
<1>11. ASSUME NEW j \in 1..(n + 1)
       PROVE  FrameOk(fs, Main, j)
  <2>1. CASE j = n + 1
    <3>1. RestOf(f.code, f.code)
      BY <1>7, PlaceStart
    <3>2. fs[j] = f /\ j > 1 /\ ~(j < Len(fs))
      BY <1>1, <1>5, <2>1
    <3>3. j = 2 => f.address = AddressAt(Main, here)
      BY <1>1, <1>3, <1>4, <2>1
    <3>4. j > 2 => f.address # Caller /\ ~OfContract(f.address)
      BY <1>1, <1>3, <1>4, <2>1
    <3>5. fs[j] = Frame(fs[j].address, fs[j].code, fs[j].saved)
      BY <1>4, <3>2, Zenon
    <3>6. RestOf(fs[j].code, Program(fs, Main, j))
      BY <1>9, <2>1, <3>1, <3>2
    <3>7. CallsWithin(fs[j].code, Targets(Main, PlaceOf(fs, Main, 1)) \ {fs[2].address})
      BY <1>6, <1>10, <3>2
    <3>8. /\ j # 1
          /\ j = 2 => fs[j].address = AddressAt(Main, PlaceOf(fs, Main, 1))
          /\ j > 2 => fs[j].address # Caller /\ ~OfContract(fs[j].address)
      BY <1>10, <3>2, <3>3, <3>4
    <3> QED
      BY <3>2, <3>5, <3>6, <3>7, <3>8 DEF FrameOk
  <2>2. CASE j # n + 1
    <3>1. j \in 1..n /\ j \in Nat \ {0}
      BY <1>1, <2>2
    <3>2. fs[j] = frames[j] /\ FrameOk(frames, Main, j)
      BY <1>1, <1>5, <3>1 DEF FramesOk
    <3>3. fs[j].code # <<>> /\ Head(fs[j].code).kind \in Creates
      <4>1. CASE j = n
        BY <1>2, <3>2, <4>1
      <4>2. CASE j # n
        <5>1. j < Len(frames)
          BY <1>1, <3>1, <4>2
        <5> QED
          BY <3>2, <5>1 DEF FrameOk
      <4> QED
        BY <4>1, <4>2
    <3>4. Program(fs, Main, j) = Program(frames, Main, j)
      BY <1>9, <3>1
    <3>5. j > 1 => outer = frames[2].address
      BY <1>1, <3>1 DEF outer
    <3>6. /\ fs[j] = Frame(fs[j].address, fs[j].code, fs[j].saved)
          /\ RestOf(fs[j].code, Program(fs, Main, j))
          /\ j = 1 => fs[j].address = Contract
          /\ j = 2 => fs[j].address = AddressAt(Main, here)
          /\ j > 2 => fs[j].address # Caller /\ ~OfContract(fs[j].address)
          /\ j > 1 => CallsWithin(fs[j].code, T \ {outer})
      BY <3>2, <3>4, <3>5 DEF FrameOk, here
    <3> QED
      BY <1>10, <3>3, <3>6 DEF FrameOk
  <2> QED
    BY <2>1, <2>2
<1>12. \A i, j \in 1..(n + 1) : fs[i].address = fs[j].address => i = j
  <2>1. ASSUME NEW i \in 1..n
        PROVE  fs[i].address # f.address
    <3>1. frames[i].address \in DOMAIN accounts
      BY <1>1 DEF Table
    <3> QED
      BY <1>2, <1>4, <1>5, <3>1
  <2>2. \A i, j \in 1..n : fs[i].address = fs[j].address => i = j
    BY <1>1, <1>5 DEF FramesOk
  <2>3. \A i \in 1..(n + 1) : i = n + 1 \/ i \in 1..n
    BY <1>1
  <2> QED
    BY <1>5, <2>1, <2>2, <2>3
<1>13. FramesOk(fs, Main) /\ fs # <<>>
  <2>1. fs # <<>>
    BY <1>1, <1>5, EmptyFacts
  <2> QED
    BY <1>5, <1>11, <1>12, <2>1 DEF FramesOk
<1>14. ASSUME NEW j \in 2..(n + 1)
       PROVE  Table(fs[j].saved, fs, Main, deployed, j - 1, j - 1)
  <2>1. j - 1 \in Nat \ {0} /\ \A i \in 1..(j - 1) : fs[i] = frames[i]
    BY <1>1, <1>5
  <2>2. Table(fs[j].saved, frames, Main, deployed, j - 1, j - 1)
    <3>1. CASE j = n + 1
      <4>1. j - 1 = n /\ fs[j].saved = WithBump
        BY <1>1, <1>4, <1>5, <3>1
      <4> QED
        BY <1>1, <4>1
    <3>2. CASE j # n + 1
      <4>1. j \in 1..n /\ j \in 2..Len(frames) /\ fs[j] = frames[j]
        BY <1>1, <1>5, <3>2
      <4> QED
        BY <4>1 DEF Executing, Runs
    <3> QED
      BY <3>1, <3>2
  <2> QED
    BY <2>1, <2>2, TableAgrees
<1>15. fs[2].address \notin deployed
  <2>1. CASE n = 1
    <3>1. deployed \subseteq DOMAIN accounts
      BY <1>1 DEF Table
    <3> QED
      BY <1>2, <1>10, <2>1, <3>1 DEF outer
  <2>2. CASE n # 1
    BY <1>1, <1>10, <2>2 DEF outer
  <2> QED
    BY <2>1, <2>2
<1>16. Runs(fs, accounts', Main, deployed)
  <2>1. Len(fs) = n + 1 /\ Len(fs) - 1 = n
    BY <1>1, <1>5
  <2> QED
    BY <1>8, <1>13, <1>14, <1>15, <2>1 DEF Runs
<1>17. Kept'
  <2>1. Earlier(Main, PlaceOf(frames', Main, 1)) = Earlier(Main, PlaceOf(frames, Main, 1))
    BY <1>10 DEF fs, here
  <2> QED
    BY <1>2, <2>1 DEF Executing, Kept, Main
<1> QED
  BY <1>2, <1>13, <1>16, <1>17 DEF GoesOn, fs

-----------------------------------------------------------------------------
(* A deployment is done.                                                   *)

\* Without the frame on top, what it ran may have left accounts of its own.
LEMMA ReturnEmptyGoesOn == Executing /\ ReturnEmpty => GoesOn
<1> SUFFICES ASSUME Executing, ReturnEmpty PROVE GoesOn
  OBVIOUS
<1> DEFINE n == Running - 1
           here == PlaceOf(frames, Main, 1)
           next == PlaceOf(frames', Main, 1)
<1>1. /\ FramesOk(frames, Main) /\ Running = Len(frames) /\ Running \in Nat \ {0}
      /\ Inner = frames[Running] /\ FrameOk(frames, Main, Running)
      /\ Table(accounts, frames, Main, deployed, Running, Running - 1)
  BY ExecutingFacts
<1>2. /\ Len(frames) > 1 /\ frames[Running].code = <<>>
      /\ frames' = [SubSeq(frames, 1, n) EXCEPT ![n] = Passed(@)]
      /\ accounts' = accounts /\ failed' = failed /\ lost' = lost
      /\ machines' = machines
      /\ Running = 2 => deployed' = deployed \cup {frames[2].address}
      /\ Running # 2 => deployed' = deployed
  BY <1>1 DEF ReturnEmpty, Outer, genVars
<1>3. /\ Advanced(frames, frames', n) /\ n \in Nat \ {0}
      /\ frames[n].code # <<>> /\ Head(frames[n].code).kind \in Creates
  BY <1>1, <1>2, AdvancedBelow
<1>4. /\ n = 1 => Earlier(Main, next) = Earlier(Main, here) \cup {here}
      /\ n # 1 => Earlier(Main, next) = Earlier(Main, here)
  BY <1>1, <1>3, AdvancedEarlier
<1>5. n + 1 = Running
  BY <1>1
<1> HIDE DEF n
<1>6. CASE n # 1
  <2>1. Running # 2 /\ Running - 1 = n /\ n >= 2 /\ n \in 1..Running
    BY <1>1, <1>3, <1>5, <1>6
  <2>2. Table(accounts, frames, Main, deployed, n, n)
    <3>1. ASSUME NEW j \in 1..n
          PROVE  j \in 1..Running /\ j <= Running - 1 /\ j <= n
      BY <1>1, <1>3, <2>1
    <3>2. \A a \in DOMAIN accounts :
            OfContract(a) => a \in deployed \/ (n >= 2 /\ a = frames[2].address)
      BY <1>1, <2>1 DEF Table
    <3> QED
      BY <1>1, <3>1, <3>2 DEF Table
  <2>3. Table(accounts, frames', Main, deployed, n, n - 1)
    BY <1>1, <1>3, <2>2, PassedTable
  <2>4. frames' # <<>> /\ Runs(frames', accounts', Main, deployed')
    BY <1>2, <1>3, <2>1, <2>3, AdvancedGoesOn
  <2>5. Kept'
    BY <1>2, <1>4, <1>6, <2>1 DEF Executing, Kept, Main, here, next
  <2> QED
    BY <2>4, <2>5 DEF GoesOn
<1>7. CASE n = 1
  <2> DEFINE a == frames[2].address
  <2>1. /\ Running = 2 /\ Len(frames) = 2 /\ deployed' = deployed \cup {a}
    <3>1. Running = 2
      BY <1>5, <1>7
    <3> QED
      BY <1>1, <1>2, <3>1
  <2>2. a = AddressAt(Main, here) /\ Program(frames, Main, 2) = Head(frames[1].code).init
    BY <1>1, <2>1 DEF FrameOk, Program
  <2>3. /\ next = here + 1 /\ here \in CreatesIn(Main) /\ Main[here] = Head(frames[1].code)
        /\ here \in Nat /\ Sequence(Main) /\ Program(frames', Main, 1) = Main
        /\ frames'[1].address = Contract
    <3>1. Program(frames, Main, 1) = Main /\ frames[1].address = Contract
      <4>1. FrameOk(frames, Main, 1)
        BY <1>1 DEF FramesOk
      <4> QED
        BY <4>1 DEF Program, FrameOk
    <3>2. /\ next = here + 1 /\ here \in 1..Len(Main) /\ Main[here] = Head(frames[1].code)
          /\ here \in Nat /\ Sequence(Main) /\ Program(frames', Main, 1) = Main
          /\ frames'[1].address = Contract
      <4>1. 1 \in 1..n
        BY <1>7
      <4> QED
        BY <1>1, <1>3, <1>7, <3>1, <4>1, AdvancedFacts
    <3> QED
      BY <1>3, <1>7, <3>2, SequenceFacts DEF CreatesIn
  <2>4. accounts[a] = NonceLeft(Main, here) /\ a \in DOMAIN accounts
    <3> DEFINE p == Program(frames, Main, 2)
    <3>1. RestOf(frames[2].code, p) /\ frames[2].code = <<>>
      BY <1>1, <1>2, <2>1 DEF FrameOk
    <3>2. PlaceOf(frames, Main, 2) = Len(p) + 1 /\ Sequence(p)
      BY <3>1, PlaceFacts DEF PlaceOf, RestOf
    <3>3. Bumps(p, Len(p) + 1) = Cardinality(CreatesIn(p)) /\ Bumps(p, Len(p) + 1) \in Nat
      <4>1. Len(p) + 1 \in Nat
        BY <3>2, SequenceFacts
      <4> QED
        BY <3>2, <4>1, EarlierEnds, EarlierFacts
    <3>4. /\ a \in DOMAIN accounts
          /\ accounts[a] = 1 + Bumps(p, Len(p) + 1) + (IF 2 <= Running - 1 THEN 1 ELSE 0)
      <4>1. 2 \in 1..Running
        BY <2>1
      <4> QED
        BY <1>1, <3>2, <4>1 DEF Table
    <3> HIDE DEF p
    <3>5. accounts[a] = 1 + Cardinality(CreatesIn(p))
      BY <2>1, <3>3, <3>4
    <3>6. p = Main[here].init
      BY <2>2, <2>3 DEF p
    <3> QED
      BY <3>4, <3>5, <3>6 DEF NonceLeft
  <2>5. /\ Earlier(Main, here) \subseteq Earlier(Main, next) /\ here \in Earlier(Main, next)
        /\ Bumps(Main, next) = Bumps(Main, here) + 1 /\ Bumps(Main, here) \in Nat
    BY <1>4, <1>7, <2>3, EarlierFacts
  <2>6. /\ NoncesTyped(accounts) /\ Caller \in DOMAIN accounts /\ accounts[Caller] = 1
        /\ Contract \in DOMAIN accounts
        /\ accounts[Contract] = 1 + Bumps(Main, next) + 0
    <3>1. 1 \in 1..Running /\ 1 <= Running - 1
      BY <2>1
    <3>2. frames[1].address = Contract /\ Program(frames, Main, 1) = Main
      <4>1. FrameOk(frames, Main, 1)
        BY <1>1, <3>1 DEF FramesOk
      <4> QED
        BY <4>1 DEF Program, FrameOk
    <3>3. /\ frames[1].address \in DOMAIN accounts
          /\ accounts[frames[1].address] = 1 + Bumps(Program(frames, Main, 1), here) + 1
      BY <1>1, <3>1 DEF Table
    <3>4. accounts[Contract] = 1 + Bumps(Main, next) + 0
      BY <2>5, <3>2, <3>3
    <3> QED
      BY <1>1, <3>2, <3>3, <3>4 DEF Table
  <2>7. Table(accounts, frames', Main, deployed', 1, 0)
    <3>1. ASSUME NEW x \in deployed'
          PROVE  /\ x \in DOMAIN accounts
                 /\ \E i \in Earlier(Main, next) :
                      x = AddressAt(Main, i) /\ accounts[x] = NonceLeft(Main, i)
      <4>1. CASE x \in deployed
        BY <1>1, <2>5, <4>1 DEF Table, here
      <4>2. CASE x = a
        BY <2>2, <2>4, <2>5, <4>2
      <4> QED
        BY <2>1, <4>1, <4>2
    <3>2. \A x \in DOMAIN accounts : OfContract(x) => x \in deployed'
      BY <1>1, <2>1 DEF Table
    <3>3. ASSUME NEW j \in 1..1
          PROVE  /\ frames'[j].address \in DOMAIN accounts
                 /\ accounts[frames'[j].address] =
                      1 + Bumps(Program(frames', Main, j), PlaceOf(frames', Main, j))
                        + (IF j <= 0 THEN 1 ELSE 0)
      BY <2>3, <2>6 DEF next
    <3> QED
      BY <2>6, <3>1, <3>2, <3>3 DEF Table, next
  <2>8. frames' # <<>> /\ Runs(frames', accounts', Main, deployed')
    BY <1>2, <1>3, <1>7, <2>7, AdvancedGoesOn
  <2>9. Kept'
    <3>1. \A i \in Earlier(Main, next) : i \in Earlier(Main, here) \/ AddressAt(Main, i) = a
      BY <1>4, <1>7, <2>2
    <3> HIDE DEF a
    <3> QED
      BY <1>2, <2>1, <3>1 DEF Executing, Kept, Main, here, next
  <2> QED
    BY <2>8, <2>9 DEF GoesOn
<1> QED
  BY <1>6, <1>7

-----------------------------------------------------------------------------
(* The program starts.                                                     *)

LEMMA MainFacts ==
  ASSUME JInv, Honest(machines)
  PROVE  Sequence(Main) /\ CallsBack(Main) /\ RecordsAll(machines[1])
         /\ NonceOf(machines[1], Contract) = 1 + Cardinality(CreatesIn(Main))
<1>1. Nested(machines) /\ 1 \in DOMAIN machines
  <2>1. Nested(machines) /\ Sequence(machines) /\ Depth \in Nat \ {0}
    BY Facts DEF JInv, Nested
  <2> QED
    BY <2>1, SequenceFacts DEF Depth
<1>2. WellMade(machines[1]) /\ machines[1].address = Contract
  BY <1>1 DEF Nested
<1> QED
  BY <1>2 DEF WellMade, Typed, Counted, Deployments, Honest, Main

LEMMA ExecuteGoesOn ==
  ASSUME JInv, Honest(machines), frames = <<>>, deployed = {}, ~failed, ~lost, Execute
  PROVE  GoesOn
<1> DEFINE acc == [a \in {Caller, Contract} |-> 1]
           f == Frame(Contract, Main, acc)
<1>1. /\ accounts' = acc /\ Depth = 1 /\ frames' = <<Frame(Contract, Top.code, accounts')>>
      /\ UNCHANGED <<machines, deployed, failed, lost>>
  BY DEF Execute, genVars
<1>2. frames' = <<f>>
  BY <1>1 DEF Top, Main, Depth
<1>3. f.address = Contract /\ f.code = Main /\ f = Frame(f.address, f.code, f.saved)
  BY FrameFields
<1>4. /\ DOMAIN acc = {Caller, Contract} /\ NoncesTyped(acc)
      /\ acc[Caller] = 1 /\ acc[Contract] = 1
  BY DEF NoncesTyped
<1>5. Sequence(Main)
  BY MainFacts
<1> DEFINE fs == frames'
<1> HIDE DEF acc, f
<1>6. Sequence(fs) /\ Len(fs) = 1 /\ fs[1] = f /\ fs # <<>>
  <2>1. <<f>> \in Seq({f}) /\ Len(<<f>>) = 1 /\ <<f>>[1] = f /\ <<f>> # <<>>
    OBVIOUS
  <2> QED
    BY <1>2, <2>1 DEF Sequence
<1> HIDE DEF fs
<1>7. Program(fs, Main, 1) = Main /\ PlaceOf(fs, Main, 1) = 1 /\ RestOf(Main, Main)
  <2>1. Program(fs, Main, 1) = Main
    BY DEF Program
  <2> QED
    BY <1>3, <1>5, <1>6, <2>1, PlaceStart DEF PlaceOf
<1>8. FramesOk(fs, Main)
  <2>1. fs[1] = Frame(fs[1].address, fs[1].code, fs[1].saved)
    BY <1>3, <1>6, Zenon
  <2>2. FrameOk(fs, Main, 1)
    BY <1>3, <1>6, <1>7, <2>1 DEF FrameOk
  <2> QED
    BY <1>6, <2>2 DEF FramesOk
<1>9. Earlier(Main, 1) = {} /\ Bumps(Main, 1) = 0
  BY <1>5, EarlierEnds
<1>10. Table(acc, fs, Main, {}, 1, 0)
  <2>1. ~OfContract(Caller) /\ ~OfContract(Contract)
    BY AddressFacts DEF OfContract
  <2>2. \A a \in DOMAIN acc : ~OfContract(a)
    BY <1>4, <2>1
  <2>3. acc[fs[1].address] = 1 + Bumps(Program(fs, Main, 1), PlaceOf(fs, Main, 1)) + 0
    BY <1>3, <1>4, <1>6, <1>7, <1>9
  <2>4. ASSUME NEW j \in 1..1
        PROVE  /\ fs[j].address \in DOMAIN acc
               /\ acc[fs[j].address] = 1 + Bumps(Program(fs, Main, j), PlaceOf(fs, Main, j))
                                         + (IF j <= 0 THEN 1 ELSE 0)
    BY <1>3, <1>4, <1>6, <2>3
  <2> QED
    BY <1>4, <2>2, <2>4 DEF Table
<1>11. Runs(fs, acc, Main, {})
  BY <1>6, <1>8, <1>10 DEF Runs
<1>12. Kept'
  BY <1>1, <1>7, <1>9 DEF Kept, Main, fs
<1> QED
  BY <1>1, <1>6, <1>11, <1>12 DEF GoesOn, fs

-----------------------------------------------------------------------------
(* The invariant is inductive.                                             *)

LEMMA DInvariance == Spec => []DInv
<1>1. Init => DInv
  <2> SUFFICES ASSUME Init PROVE DInv
    OBVIOUS
  <2>1. JInv
    BY InitJInv DEF Init
  <2> QED
    BY <2>1, InitHonest DEF Init, DInv
<1>2. DInv /\ [Next]_allVars => DInv'
  <2> SUFFICES ASSUME DInv, [Next]_allVars PROVE DInv'
    OBVIOUS
  <2>1. JInv /\ Honest(machines)
    BY DEF DInv
  <2>2. ASSUME UNCHANGED genVars
        PROVE  JInv' /\ Honest(machines')
    <3>1. JInv'
      BY <2>1, <2>2, NextJInv
    <3> QED
      BY <2>1, <2>2, <3>1 DEF genVars
  <2>3. CASE UNCHANGED allVars
    <3>1. UNCHANGED genVars /\ UNCHANGED evmVars
      BY <2>3 DEF allVars
    <3> QED
      BY <2>2, <3>1 DEF DInv, Kept, evmVars, genVars
  <2>4. CASE Generate
    <3>1. JInv' /\ Honest(machines')
      BY <2>1, <2>4, GenNextHonest, NextJInv DEF Generate
    <3> QED
      BY <2>4, <3>1 DEF DInv, Generate, evmVars
  <2>5. ASSUME GoesOn, UNCHANGED genVars
        PROVE  DInv'
    <3>1. JInv' /\ Honest(machines') /\ machines' = machines
      BY <2>2, <2>5 DEF genVars
    <3> QED
      BY <2>5, <3>1 DEF DInv, GoesOn, Main
  <2>6. CASE Execute
    <3>1. frames = <<>> /\ UNCHANGED genVars
      BY <2>6 DEF Execute
    <3>2. deployed = {} /\ ~failed /\ ~lost
      BY <3>1 DEF DInv
    <3> QED
      BY <2>1, <2>5, <2>6, <3>1, <3>2, ExecuteGoesOn
  <2>7. ASSUME frames # <<>>
        PROVE  Executing
    BY <2>1, <2>7, MainFacts DEF DInv, Executing, Main
  <2>8. CASE RunFlat \/ EnterCreate \/ Collide \/ ReturnEmpty \/ RunOutOfGas
    <3>1. UNCHANGED genVars
      BY <2>8 DEF RunFlat, EnterCreate, Collide, ReturnEmpty, RunOutOfGas
    <3>2. frames # <<>>
      BY <2>8, EmptyFacts DEF RunFlat, EnterCreate, Collide, ReturnEmpty, RunOutOfGas,
                              AtOpcode, Running
    <3> QED
      BY <2>5, <2>7, <2>8, <3>1, <3>2, RunFlatGoesOn, EnterCreateGoesOn, CollideGoesOn,
         ReturnEmptyGoesOn, RunOutOfGasGoesOn
  <2> QED
    BY <2>3, <2>4, <2>6, <2>8 DEF Next
<1> QED
  BY <1>1, <1>2, PTL DEF Spec

\* What a call may go to is nowhere on the stack of frames.
LEMMA TargetsApart ==
  ASSUME Executing, NEW a \in Targets(Main, PlaceOf(frames, Main, 1)),
         Running >= 2 => a # frames[2].address
  PROVE  \A i \in DOMAIN frames : a # frames[i].address
<1>1. a = Caller \/ OfContract(a)
  BY AddressOutside DEF Targets
<1>2. FramesOk(frames, Main) /\ DOMAIN frames = 1..Running /\ Running = Len(frames)
      /\ Running \in Nat
  BY ExecutingFacts, SequenceFacts DEF FramesOk
<1> TAKE i \in DOMAIN frames
<1>3. frames[i].address # Caller /\ (i # 2 => ~OfContract(frames[i].address))
  BY <1>2, FrameAddresses
<1>4. i = 2 => Running >= 2
  BY <1>2
<1> QED
  BY <1>1, <1>3, <1>4

LEMMA DInvCallTargetsSafe == DInv => CallTargetsSafe
<1> SUFFICES ASSUME DInv, AtOpcode, Next1.kind = "Call"
             PROVE  /\ \A i \in DOMAIN frames : Next1.target # frames[i].address
                    /\ failed \/ Next1.target \in DOMAIN accounts
  BY DEF CallTargetsSafe
<1> DEFINE here == PlaceOf(frames, Main, 1)
           T == Targets(Main, here)
<1>1. Executing
  <2>1. frames # <<>>
    BY EmptyFacts DEF AtOpcode, Running
  <2> QED
    BY <2>1, MainFacts DEF DInv, Executing, Main
<1>2. /\ FramesOk(frames, Main) /\ Running = Len(frames) /\ Running \in Nat \ {0}
      /\ Inner = frames[Running] /\ FrameOk(frames, Main, Running)
      /\ Table(accounts, frames, Main, deployed, Running, Running - 1)
  BY <1>1, ExecutingFacts
<1>3. Next1.target \in T /\ (Running >= 2 => Next1.target # frames[2].address)
  <2>1. CASE Running = 1
    <3>1. RestOf(frames[1].code, Main) /\ frames[1].code # <<>> /\ Next1 = Head(frames[1].code)
      BY <1>2, <2>1 DEF FrameOk, Program, AtOpcode, Next1
    <3>2. here = Place(frames[1].code, Main)
      BY DEF PlaceOf, Program
    <3> HIDE DEF here
    <3>3. here \in 1..Len(Main) /\ Main[here] = Next1
      BY <3>1, <3>2, PlaceFacts
    <3>4. here \in DOMAIN Main /\ CallsBack(Main)
      BY <1>1, <3>3, SequenceFacts DEF Executing
    <3>5. Main[here].kind = "Call" => Main[here].target \in Targets(Main, here)
      BY <3>4 DEF CallsBack
    <3>6. ~(Running >= 2)
      BY <2>1
    <3> QED
      BY <3>3, <3>5, <3>6
  <2>2. CASE Running # 1
    <3>1. CallsWithin(frames[Running].code, T \ {frames[2].address})
      BY <1>2, <2>2 DEF FrameOk
    <3>2. frames[Running].code # <<>> /\ Next1 = Head(frames[Running].code)
      BY <1>2 DEF AtOpcode, Next1
    <3> HIDE DEF T
    <3>3. Next1.target \in T \ {frames[2].address}
      BY <3>1, <3>2, CallsInTail
    <3> QED
      BY <3>3
  <2> QED
    BY <2>1, <2>2
<1>4. \A i \in DOMAIN frames : Next1.target # frames[i].address
  BY <1>1, <1>3, TargetsApart
<1>5. ASSUME ~failed
      PROVE  Next1.target \in DOMAIN accounts
  <2>1. ~lost /\ \A i \in Earlier(Main, here) : AddressAt(Main, i) \in deployed
    BY <1>1, <1>5 DEF Executing, Kept, Main
  <2>2. Caller \in DOMAIN accounts /\ deployed \subseteq DOMAIN accounts
    BY <1>2 DEF Table
  <2> QED
    BY <1>3, <2>1, <2>2 DEF Targets
<1> QED
  BY <1>4, <1>5

LEMMA DInvNoncesMatchRuntime == DInv => NoncesMatchRuntime
<1> SUFFICES ASSUME DInv, Stopped
             PROVE  /\ \A a \in deployed \cup {Caller, Contract} :
                         a \in DOMAIN Symbolic.nonces /\ Symbolic.nonces[a] = accounts[a]
                    /\ ~lost => CreatedContracts = deployed
  BY DEF NoncesMatchRuntime
<1> DEFINE here == PlaceOf(frames, Main, 1)
           m == machines[1]
           end == Len(Main) + 1
<1>1. Executing /\ JInv /\ Honest(machines)
  <2>1. frames # <<>>
    BY EmptyFacts DEF Stopped, Running
  <2> QED
    BY <2>1, MainFacts DEF DInv, Executing, Main
<1>2. /\ Running = 1 /\ Inner = frames[1] /\ frames[1].code = <<>>
      /\ FrameOk(frames, Main, 1)
      /\ Table(accounts, frames, Main, deployed, 1, 0)
  BY <1>1, ExecutingFacts DEF Stopped
<1>3. here = end /\ Earlier(Main, here) = CreatesIn(Main)
      /\ Bumps(Main, here) = Cardinality(CreatesIn(Main)) /\ Bumps(Main, here) \in Nat
  <2>1. RestOf(frames[1].code, Main)
    BY <1>2 DEF FrameOk, Program
  <2>2. here = end /\ Sequence(Main) /\ end \in Nat
    BY <1>2, <2>1, PlaceFacts, SequenceFacts DEF RestOf, PlaceOf, Program
  <2> QED
    BY <2>2, EarlierEnds, EarlierFacts
<1>4. /\ RecordsAll(m) /\ m.code = Main
      /\ NonceOf(m, Contract) = 1 + Cardinality(CreatesIn(Main))
  BY <1>1, MainFacts DEF Main
<1> HIDE DEF here, m, end
<1>5. /\ DOMAIN m.nonces = {Contract} \cup Targets(Main, here)
      /\ m.nonces[Caller] = 1
      /\ \A j \in CreatesIn(Main) : m.nonces[AddressAt(Main, j)] = NonceLeft(Main, j)
  BY <1>3, <1>4 DEF RecordsAll, end
<1>6. /\ Caller \in DOMAIN accounts /\ accounts[Caller] = 1
      /\ accounts[Contract] = 1 + Cardinality(CreatesIn(Main))
  <2>1. accounts[frames[1].address] = 1 + Bumps(Program(frames, Main, 1), here)
                                        + (IF 1 <= 0 THEN 1 ELSE 0)
    BY <1>2 DEF Table, here
  <2>2. frames[1].address = Contract /\ Program(frames, Main, 1) = Main
    BY <1>2 DEF FrameOk, Program
  <2> QED
    BY <1>2, <1>3, <2>1, <2>2 DEF Table
<1>7. \A a \in deployed :
        \E i \in CreatesIn(Main) : a = AddressAt(Main, i) /\ accounts[a] = NonceLeft(Main, i)
  BY <1>2, <1>3 DEF Table, here
<1>8. Targets(Main, here) = {Caller} \cup {AddressAt(Main, i) : i \in CreatesIn(Main)}
  BY <1>3 DEF Targets
<1>9. ASSUME NEW a \in deployed \cup {Caller, Contract}
      PROVE  a \in DOMAIN m.nonces /\ m.nonces[a] = accounts[a]
  <2>1. CASE a \in deployed
    BY <1>5, <1>7, <1>8, <2>1
  <2>2. CASE a = Caller
    BY <1>5, <1>6, <1>8, <2>2
  <2>3. CASE a = Contract
    BY <1>4, <1>5, <1>6, <2>3 DEF NonceOf
  <2> QED
    BY <2>1, <2>2, <2>3
<1>10. ASSUME ~lost
       PROVE  DOMAIN m.nonces \ {Caller, Contract} = deployed
  <2>1. \A i \in CreatesIn(Main) : AddressAt(Main, i) \in deployed
    BY <1>1, <1>3, <1>10 DEF Executing, Kept, Main, here
  <2>2. \A i : AddressAt(Main, i) \notin {Caller, Contract}
    BY AddressOutside
  <2> QED
    BY <1>5, <1>7, <1>8, <2>1, <2>2
<1> QED
  BY <1>9, <1>10 DEF Symbolic, CreatedContracts, m

\* NoncesMatchRuntime always holds: when the program has run, every contract
\* it deployed is recorded with the nonce it has, even if other deployments
\* failed or collided; if no deployment of the root failed, no others are.
THEOREM NoncesAgree == Spec => []NoncesMatchRuntime
<1>1. Spec => []DInv
  BY DInvariance
<1> QED
  BY <1>1, DInvNoncesMatchRuntime, PTL

\* CallTargetsSafe always holds: at any depth of CREATEs a call goes neither
\* to the contract under test nor to one that is being deployed, and it finds
\* its target unless some deployment failed.
THEOREM CallsStayOut == Spec => []CallTargetsSafe
<1>1. Spec => []DInv
  BY DInvariance
<1> QED
  BY <1>1, DInvCallTargetsSafe, PTL
=============================================================================
