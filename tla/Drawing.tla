------------------------------ MODULE Drawing ------------------------------
(***************************************************************************)
(* How an opcode is drawn: a family by weight, then a variant of it.  The  *)
(* 140 variants are the opcodes a generator may draw, by their number.     *)
(***************************************************************************)
EXTENDS Integers, Sequences, FiniteSets

CONSTANTS
  MemoryOffsetLimit,   \* Config::memory_offset_limit
  MemoryLengthLimit    \* Config::memory_length_limit

ASSUME DrawingAssumption ==
  /\ MemoryOffsetLimit \in Nat
  /\ MemoryLengthLimit \in Nat

GeneratedVariantCount == 140
Variants == 0..(GeneratedVariantCount - 1)
PushVariantOffset == 56
PushVariantCount == 32

Families ==
  <<"Arithmetic", "ComparisonBitwise", "Environment", "Stack", "Push",
    "Storage", "Memory", "Logs", "CopyHash", "Create", "Calls">>
Family == {Families[i] : i \in DOMAIN Families}

VariantCount ==
  [Arithmetic |-> 12, ComparisonBitwise |-> 14, Environment |-> 25,
   Stack |-> 33, Push |-> 33, Storage |-> 4, Memory |-> 4, Logs |-> 5,
   CopyHash |-> 5, Create |-> 2, Calls |-> 3]

Weighting == [Family -> Nat]
Zero == [family \in Family |-> 0]
Uniform == VariantCount
Balanced ==
  [Arithmetic |-> 12, ComparisonBitwise |-> 12, Environment |-> 8,
   Stack |-> 8, Push |-> 4, Storage |-> 12, Memory |-> 14, Logs |-> 8,
   CopyHash |-> 12, Create |-> 8, Calls |-> 10]
Stateful ==
  [Arithmetic |-> 6, ComparisonBitwise |-> 6, Environment |-> 4,
   Stack |-> 8, Push |-> 3, Storage |-> 18, Memory |-> 18, Logs |-> 10,
   CopyHash |-> 14, Create |-> 10, Calls |-> 12]

\* The variants of each family, in the order of their offsets.
VariantIndexAt(family, offset) ==
  CASE family = "Arithmetic" -> IF offset < 11 THEN offset ELSE 139
    [] family = "ComparisonBitwise" -> 11 + offset
    [] family = "Environment" ->
         IF offset < 22 THEN 25 + offset ELSE 28 + offset
    [] family = "Stack" -> IF offset = 0 THEN 47 ELSE 87 + offset
    [] family = "Push" -> 55 + offset
    [] family = "Storage" -> <<48, 49, 53, 54>>[offset + 1]
    [] family = "Memory" -> <<120, 121, 127, 132>>[offset + 1]
    [] family = "Logs" -> 122 + offset
    [] family = "CopyHash" -> IF offset < 4 THEN 128 + offset ELSE 133
    [] family = "Create" -> 134 + offset
    [] family = "Calls" -> 136 + offset

CreateVariant == 134
Create2Variant == 135
CallVariants == 136..138

-----------------------------------------------------------------------------
(* The weighted choice.                                                    *)

\* The weight of the first i families.
WeightOfFirst(weights) ==
  LET sum[i \in 0..Len(Families)] ==
        IF i = 0 THEN 0 ELSE sum[i - 1] + weights[Families[i]]
  IN sum

Total(weights) == WeightOfFirst(weights)[Len(Families)]

\* What is left of the roll when the loop comes to a family.
RollLeft(weights, roll) ==
  LET left[i \in DOMAIN Families] ==
        IF i = 1 THEN roll ELSE left[i - 1] - weights[Families[i - 1]]
  IN left

\* Defect: a roll equal to the weight still finds the family.
FindsInclusive(weight, left) == left <= weight

\* A family of weight 0 is passed over: no roll is less.
Finds(weight, left) == left < weight

\* What the loop finds from a family on; "none" is the unreachable! behind it.
FoundFrom(weights, roll) ==
  LET left == RollLeft(weights, roll)
      found[i \in 1..(Len(Families) + 1)] ==
        IF i > Len(Families) THEN "none"
        ELSE IF Finds(weights[Families[i]], left[i]) THEN Families[i]
        ELSE found[i + 1]
  IN found

FamilyAt(weights, roll) == FoundFrom(weights, roll)[1]

-----------------------------------------------------------------------------
(* What a draw takes from a source besides the choice of the variant.      *)

\* The bytes that hold a number of 0..limit: up to three, or any u64.
ShortWidth(limit) ==
  CASE limit = 0 -> 0
    [] limit \in 1..255 -> 1
    [] limit \in 256..65535 -> 2
    [] OTHER -> 3

ThreeBytes == 16777216

Width(limit) ==
  IF limit < ThreeBytes THEN ShortWidth(limit)
  ELSE IF limit \div ThreeBytes < ThreeBytes
  THEN 3 + ShortWidth(limit \div ThreeBytes)
  ELSE 6 + ShortWidth((limit \div ThreeBytes) \div ThreeBytes)

OffsetWidth == Width(MemoryOffsetLimit)
LengthWidth == Width(MemoryLengthLimit)
RangeWidth == OffsetWidth + LengthWidth
WordWidth == 32

OperandBytes(variant) ==
  CASE variant \in PushVariantOffset..87 -> variant - PushVariantOffset + 1
    [] variant = 120 -> OffsetWidth + WordWidth
    [] variant \in {121, 132} -> OffsetWidth
    [] variant \in 122..126 -> RangeWidth + WordWidth * (variant - 122)
    [] variant = 127 -> OffsetWidth + 1
    [] variant \in 128..130 -> OffsetWidth + RangeWidth
    [] variant = 131 -> OffsetWidth + RangeWidth + WordWidth
    [] variant = 133 -> RangeWidth
    [] variant = Create2Variant -> WordWidth
    [] variant \in CallVariants -> 2 * RangeWidth
    [] OTHER -> 0
=============================================================================
