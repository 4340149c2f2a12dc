----------------------------- MODULE MCMachine -----------------------------
(***************************************************************************)
(* A small machine: 8 stack slots, DUP and SWAP up to index 2, a CREATE    *)
(* base price of 60.  The gas is enough to fill the stack and run out at   *)
(* every point of an ingest.                                               *)
(***************************************************************************)
EXTENDS Machine

MCInit(len, cost) == [len |-> len, cost |-> cost, peak |-> 2, budget |-> 0]
MCInitCodes(budget) == {MCInit(5, 6), MCInit(40, budget)}

MCDrawnOps ==
  {Simple("Nullary2"), Simple("Stop"), Indexed("Swap", 2), Simple("Call"),
   [Simple("CallNoValue") EXCEPT !.to = "account", !.gas = 3],
   Simple("Create"), [Simple("Create2") EXCEPT !.init = MCInit(65, 0)]}
=============================================================================
