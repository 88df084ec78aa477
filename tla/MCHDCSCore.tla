----------------------------- MODULE MCHDCSCore -----------------------------
(* Instances of HDCSCore for TLC.                                          *)
EXTENDS HDCSCore, TLC

CONSTANTS r1, r2, r3, r4, b1, b2, w1, w2

\* Client requests over both blocks, an eviction of b1 and a flush that leaves
\* b1 alone.
EvictTypes == (r1 :> "WRITE") @@ (r2 :> "READ") @@ (r3 :> "DEMOTE") @@ (r4 :> "FLUSH")
EvictSpan == (r1 :> <<b1>>) @@ (r2 :> <<b1, b2>>) @@ (r3 :> <<b1>>) @@ (r4 :> <<b2>>)
=============================================================================
