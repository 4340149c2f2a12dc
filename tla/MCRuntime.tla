----------------------------- MODULE MCRuntime -----------------------------
(***************************************************************************)
(* The machine of MCMachine with the EVM beside it.  Init codes spend      *)
(* their sub-machine's whole budget and the 6 gas of their tail, or        *)
(* nothing but the tail, or overflow the stack in the tail.                *)
(***************************************************************************)
EXTENDS Runtime

MCInit(cost, peak, budget) ==
  [len |-> 5, cost |-> cost, peak |-> peak, budget |-> budget]
MCInitCodes(budget) ==
  {MCInit(6, 2, budget), MCInit(budget + 6, 2, budget),
   MCInit(budget, StackLimit + 1, budget)}

MCDrawnOps ==
  {Simple("Nullary2"), Simple("Stop"), Indexed("Swap", 1),
   Ranged("MLoad", 32, 0), Indexed("Dup", 2),
   Simple("Call"), Simple("Create"), Simple("Create2")}

\* Enough to fill the stack, and a CREATE on top of it.
MCFillingOps == {Simple("Nullary2")}
MCFillAndCreateOps == MCFillingOps \cup {Simple("Create")}
=============================================================================
