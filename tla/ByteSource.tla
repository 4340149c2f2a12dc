----------------------------- MODULE ByteSource -----------------------------
(***************************************************************************)
(* Generation from bytes (feature "arbitrary").  Every source is a stretch *)
(* of the input: a fork cuts two stretches off its front, of lengths read  *)
(* from its last bytes.  A number drawn from a stretch that is used up is   *)
(* the least one, not an error, so such a source yields one opcode for     *)
(* ever and only gas can end the machine that draws from it.               *)
(*                                                                         *)
(* Which bytes are read, and when, is modelled exactly.  What ingesting an *)
(* opcode costs, and how many PUSHes the solver inserts, is left open: the *)
(* module Machine shows that each costs gas.                               *)
(***************************************************************************)
EXTENDS Opcodes, Drawing

CONSTANTS
  Inputs,     \* the inputs it is tried with
  Profiles,   \* the weights it is tried with
  RootGas,
  OpcodePrices,   \* what ingesting an opcode may cost
  MaxPads     \* bound: PUSHes the solver inserts for one opcode

ASSUME ByteSourceAssumption ==
  /\ Inputs \subseteq Seq(0..255)
  /\ Profiles \subseteq Weighting
  /\ RootGas \in 0..U64Max
  /\ OpcodePrices \subseteq Nat \ {0}
  /\ MaxPads \in Nat

VARIABLES
  input,      \* the bytes given to Machine::new_arbitrary
  weights,    \* Config::opcode_weights
  machines,   \* the machines at work, the root first
  draw        \* how far the last of them is with its next opcode

vars == <<input, weights, machines, draw>>

-----------------------------------------------------------------------------
(* Stretches: what is left is input[at + 1 .. end].                        *)

Stretch(from, to) == [at |-> from, end |-> to]
Left(source) == source.end - source.at
Lesser(a, b) == IF a < b THEN a ELSE b

\* Defect: the cursor moves on by what was asked for.
SkipPast(source, n) == [source EXCEPT !.at = @ + n]

Skip(source, n) == [source EXCEPT !.at = @ + Lesser(n, Left(source))]

\* The number that the bytes after a place hold, the first one highest.
NumberAt(place, count) ==
  LET number[n \in 0..count] ==
        IF n = 0 THEN 0 ELSE 256 * number[n - 1] + input[place + n]
  IN number[count]

\* Unstructured::int_in_range over 0..limit, from the front.
IntInRange(source, limit) ==
  LET taken == Lesser(Width(limit), Left(source))
  IN [value |-> NumberAt(source.at, taken) % (limit + 1),
      rest |-> Skip(source, taken)]

\* How many of the last bytes hold a length.
LengthBytes(source) ==
  IF Left(source) <= 256 THEN 1
  ELSE IF Left(source) <= 65537 THEN 2
  ELSE IF Left(source) <= 65536 * 65536 + 3 THEN 4 ELSE 8

\* Unstructured::arbitrary_len, from the back.
ArbitraryLen(source) ==
  IF Left(source) <= 1 THEN 0
  ELSE LET cut == source.end - LengthBytes(source)
       IN IntInRange(Stretch(cut, source.end), cut - source.at).value

\* Defect: the child's bytes are left with the parent.
ChildKept(source) ==
  [child |-> Stretch(source.at, source.at + ArbitraryLen(source)),
   rest |-> source]

\* The bytes of the length are counted as consumed too: at the front, although
\* they were read at the back, where they stay.
ChildSource(source) ==
  [child |-> Stretch(source.at, source.at + ArbitraryLen(source)),
   rest |-> Skip(source, ArbitraryLen(source) + LengthBytes(source))]

\* Opcode::arbitrary_push.
PushRead(source) ==
  LET pick == IntInRange(source, PushVariantCount - 1)
  IN Skip(pick.rest, OperandBytes(PushVariantOffset + pick.value))

-----------------------------------------------------------------------------
(* Machines.  The root draws its opcodes from the source it forks.         *)

MachineOf(gas, gen, src, callable, pass) ==
  [gas |-> gas, gen |-> gen, src |-> src, callable |-> callable,
   over |-> FALSE, pass |-> pass, kept |-> <<gen, src, gas>>]

Idle == [stage |-> "idle", family |-> "none", variant |-> 0, pads |-> 0]
Rolled(family) == [Idle EXCEPT !.stage = "rolled", !.family = family]
Ready(variant) == [Idle EXCEPT !.stage = "ready", !.variant = variant]

Init ==
  /\ input \in Inputs
  /\ weights \in Profiles
  /\ LET all == Stretch(0, Len(input))
     IN machines = <<MachineOf(RootGas, all, all, 1, "root")>>
  /\ draw = Idle

Depth == Len(machines)
Top == machines[Depth]
Parent == machines[Depth - 1]
Below == SubSeq(machines, 1, Depth - 1)
BecomesTop(m) == machines' = [machines EXCEPT ![Depth] = m]

IsRoot(m) == m.pass = "root"

-----------------------------------------------------------------------------
(* next_opcode: weighted_variant_index, then nth_variant_from.             *)

Drawer == IF IsRoot(Top) THEN Top.src ELSE Top.gen
LeavesToDraw(rest) ==
  BecomesTop(IF IsRoot(Top) THEN [Top EXCEPT !.src = rest]
             ELSE [Top EXCEPT !.gen = rest])

RollFamily ==
  /\ ~Top.over /\ draw = Idle /\ Total(weights) > 0
  /\ LET roll == IntInRange(Drawer, Total(weights) - 1)
     IN /\ draw' = Rolled(FamilyAt(weights, roll.value))
        /\ LeavesToDraw(roll.rest)
  /\ UNCHANGED <<input, weights>>

PickVariant ==
  /\ draw.stage = "rolled"
  /\ LET pick == IntInRange(Drawer, VariantCount[draw.family] - 1)
         variant == VariantIndexAt(draw.family, pick.value)
     IN /\ draw' = Ready(variant)
        /\ LeavesToDraw(Skip(pick.rest, OperandBytes(variant)))
  /\ UNCHANGED <<input, weights>>

\* All weights are 0.
PickFlat ==
  /\ ~Top.over /\ draw = Idle /\ Total(weights) = 0
  /\ LET pick == IntInRange(Drawer, GeneratedVariantCount - 1)
     IN /\ draw' = Ready(pick.value)
        /\ LeavesToDraw(Skip(pick.rest, OperandBytes(pick.value)))
  /\ UNCHANGED <<input, weights>>

-----------------------------------------------------------------------------
(* ingest.                                                                 *)

\* Defect: running out of gas does not end the loop.
StillAtIt(m) == m

Stopped(m) == [m EXCEPT !.over = TRUE]

Paid(m, price) ==
  IF price > m.gas THEN Stopped(m) ELSE [m EXCEPT !.gas = @ - price]

Drew(variants) == draw.stage = "ready" /\ draw.variant \in variants
CreateVariants == {CreateVariant, Create2Variant}

FlatVariants == Variants \ (CreateVariants \cup CallVariants)

\* The solver inserts a PUSH.
AddPush ==
  /\ Drew(FlatVariants) /\ draw.pads < MaxPads
  /\ BecomesTop([Top EXCEPT !.src = PushRead(@)])
  /\ draw' = [draw EXCEPT !.pads = @ + 1]
  /\ UNCHANGED <<input, weights>>

\* The price is that of the opcode with its padding.
IngestFlat ==
  /\ Drew(FlatVariants)
  /\ \E price \in OpcodePrices : BecomesTop(Paid(Top, price))
  /\ draw' = Idle /\ UNCHANGED <<input, weights>>

\* pick_callable_address comes before the solver, which has nothing to pad.
IngestCall ==
  /\ Drew(CallVariants)
  /\ \E price \in OpcodePrices :
       BecomesTop(Paid([Top EXCEPT
                          !.src = IntInRange(@, Top.callable - 1).rest], price))
  /\ draw' = Idle /\ UNCHANGED <<input, weights>>

Materialize ==
  /\ Drew(CreateVariants)
  /\ LET first == ChildSource(Top.src)
         second == ChildSource(first.rest)
         pass == IF draw.variant = CreateVariant THEN "only" ELSE "probe"
     IN machines' =
          Append([machines EXCEPT ![Depth] = [Top EXCEPT !.src = second.rest]],
                 MachineOf(SubBudget(Top.gas), first.child, second.child,
                           Top.callable, pass))
  /\ draw' = Idle /\ UNCHANGED <<input, weights>>

StartFinalPass ==
  /\ Top.over /\ Top.pass = "probe"
  /\ BecomesTop(MachineOf(Top.kept[3], Top.kept[1], Top.kept[2],
                          Top.callable, "final"))
  /\ UNCHANGED <<input, weights, draw>>

FinishCreate ==
  /\ Top.over /\ Top.pass \in {"only", "final"}
  /\ \E price \in OpcodePrices :
       LET m == Paid(Parent, price)
       IN machines' =
            [Below EXCEPT ![Depth - 1] =
               IF IsRoot(m) /\ ~m.over THEN [m EXCEPT !.callable = @ + 1] ELSE m]
  /\ UNCHANGED <<input, weights, draw>>

\* The init code exceeds its limit.
TooLong ==
  /\ Top.over /\ Top.pass \in {"only", "probe", "final"}
  /\ machines' = [Below EXCEPT ![Depth - 1] = Stopped(@)]
  /\ UNCHANGED <<input, weights, draw>>

Next ==
  \/ RollFamily \/ PickVariant \/ PickFlat
  \/ AddPush \/ IngestFlat \/ IngestCall \/ Materialize
  \/ StartFinalPass \/ FinishCreate \/ TooLong

\* One thread that never waits.
Spec == Init /\ [][Next]_vars /\ WF_vars(Next)

-----------------------------------------------------------------------------
\* Every source is a stretch of the input whose cursor is within it: taking
\* `&self.data[self.cursor..]` (with_unstructured) never panics.
SourceTypeOK ==
  /\ weights \in Profiles /\ machines # <<>>
  /\ \A i \in DOMAIN machines :
       LET m == machines[i]
       IN /\ m.gas \in 0..U64Max /\ m.callable \in Nat \ {0}
          /\ IsRoot(m) = (i = 1)
          /\ \A source \in {m.gen, m.src} :
               0 <= source.at /\ source.at <= source.end /\ source.end <= Len(input)

Unread(source) == (source.at + 1)..source.end

\* The sources that are drawn from, each with whose it is.
Sources ==
  {<<i, "src">> : i \in DOMAIN machines} \cup
  {<<i, "gen">> : i \in DOMAIN machines \ {1}}
SourceOf(s) == IF s[2] = "src" THEN machines[s[1]].src ELSE machines[s[1]].gen

\* No byte is left to two sources: what a sub-machine draws tells nothing
\* about what its solver or its parent will draw (build_init_code: "Fork two
\* independent sources").
ByteReadOnce ==
  \A a, b \in Sources :
    a # b => Unread(SourceOf(a)) \cap Unread(SourceOf(b)) = {}

\* Each family is drawn by as many rolls as it has weight, so none of weight 0
\* is drawn and no roll escapes (the unreachable! of weighted_variant_index).
\* That does not depend on the input; looking at one is enough.
DrawsFollowWeights ==
  input = <<>> =>
    \A family \in Family :
      Cardinality({roll \in 0..(Total(weights) - 1) :
                     FamilyAt(weights, roll) = family}) = weights[family]

\* What a source yields once it is used up: every number is 0.
StarvedVariant ==
  IF Total(weights) = 0 THEN 0 ELSE VariantIndexAt(FamilyAt(weights, 0), 0)

Done == Depth = 1 /\ Top.over

\* Generation ends, also when the input ends early, whatever is nested; unless
\* a used-up source yields CREATEs, when nothing ends the recursion.
GenerationEnds ==
  StarvedVariant \notin CreateVariants ~> Done
=============================================================================
