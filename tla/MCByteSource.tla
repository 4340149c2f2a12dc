---------------------------- MODULE MCByteSource ----------------------------
(***************************************************************************)
(* ByteSource for TLC: profiles that favour what nests, the flat choice,   *)
(* the default one, and one without arithmetic.  All short inputs, and a   *)
(* few about as long as a length of one byte can tell.                     *)
(***************************************************************************)
EXTENDS ByteSource

MCProfiles ==
  {[Zero EXCEPT !.Arithmetic = 1, !.Create = 1],
   Zero,
   Balanced,
   [Zero EXCEPT !.Push = 1, !.Create = 1, !.Calls = 1]}

Short == UNION {[1..n -> {0, 1, 134}] : n \in 0..5}

\* All 134, but for the last two bytes.
Long ==
  {[i \in 1..n |-> IF i = n - 1 THEN high ELSE IF i = n THEN low ELSE 134] :
     n \in 255..260, high \in {0, 1, 255}, low \in {0, 1, 255}}

MCInputs == Short \cup Long
=============================================================================
