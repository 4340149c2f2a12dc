---------------------------- MODULE MCEvmRegion ----------------------------
(***************************************************************************)
(* EvmRegion at the code's own limits: a stack of 1024, DUP16 and SWAP16,  *)
(* CREATE at 32000 gas.  Only u64::MAX is smaller, 2^30 - 1, for TLC's     *)
(* 32-bit integers; every saturated price is still far above GasCap.       *)
(***************************************************************************)
EXTENDS EvmRegion

MCU64Max == 2^30 - 1
GasCap == 120000

\* Around zero, around the deepest DUP and SWAP, and around the limit.
MCHeights == {0, 1, 2, 3, 16, 17, 500} \cup 1016..1024
MCMemories == {0, 32, 4096}

Offsets == {0, 1, 65535, MCU64Max - 31, MCU64Max}
Lengths == {0, 1, 32, 255, 2^27, MCU64Max}
InitOf(len) == [len |-> len, cost |-> 0, peak |-> 0, budget |-> 0]

MCOps ==
  {Simple(k) : k \in Flat0 \cup Flat1 \cup Flat2 \cup
                     {"Ternary8", "CallDataLoad", "Stop", "SelfDestruct"}}
    \cup {Indexed(k, i) : k \in {"Dup", "Swap"}, i \in {1, 2, 15, 16}}
    \cup {[Indexed("Log", i) EXCEPT !.dest = d, !.len = l] :
            i \in {0, 4}, d \in {0, 65535, MCU64Max}, l \in Lengths}
    \cup {Ranged(k, d, 0) : k \in {"MStore", "MLoad", "MStore8"}, d \in Offsets}
    \cup {Ranged(k, d, l) : k \in {"Return", "Keccak256", "DataCopy",
                                    "ExtCodeCopy"},
                            d \in {0, 65535, MCU64Max}, l \in Lengths}
    \cup {[Ranged("MCopy", d, l) EXCEPT !.src = s] :
            d \in {1, 65535}, s \in {0, 65535}, l \in {0, 32, 255}}
    \cup {[Ranged(k, d, l) EXCEPT !.src = 65535, !.rlen = r, !.to = "account",
                                  !.gas = g] :
            k \in Calls, d \in {0, MCU64Max}, l \in {0, 32}, r \in {0, 255},
            g \in {0, 30000}}
    \cup {[Simple(k) EXCEPT !.init = InitOf(l)] : k \in Creates, l \in {5, 32, 100}}

\* The least gas that meets the requirement, and a little and a lot more.
\* What a CREATE requires grows with the gas itself.
Least(op_, memory) ==
  IF op_.kind \in Creates
  THEN CHOOSE g \in 64000..70000 :
         GasDelta(op_, memory, g) = 0 /\ GasDelta(op_, memory, g - 1) > 0
  ELSE ReqGas(op_, memory, 0)
MCEntryGas(op_, memory) ==
  LET least == Least(op_, memory)
  IN {g \in {least - 1, least, least + 1, least + 700, least + 40000} :
        g \in 0..GasCap}
=============================================================================
