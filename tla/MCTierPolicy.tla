---------------------------- MODULE MCTierPolicy ----------------------------
(* Instances of TierPolicy for TLC.                                         *)
EXTENDS TierPolicy

Reads == {<<"READ", 1, 2 * BlockSize>>}
\* Writes of whole blocks.
WholeBlocks == Reads \cup {<<"WRITE", 0, TotalSize>>, <<"WRITE", 0, BlockSize>>}
\* The same for a core with a replica.
Replicated == {<<"WRITE", 0, 2 * BlockSize>>, <<"WRITE", 0, BlockSize>>}
\* Writes that stay inside a block, and its flush.
InsideBlock == Reads \cup {<<"WRITE", BlockSize, BlockSize>>, <<"WRITE", BlockSize + 1, 1>>}
Flushed == InsideBlock \cup {<<"FLUSH", BlockSize, BlockSize>>}
\* Promotion of a block, and a write to another.
Promotion == Reads \cup {<<"PROMOTE", BlockSize, BlockSize>>, <<"WRITE", 1, 1>>}
\* A write that starts inside one block and ends inside another.
Straddling == {<<"WRITE", 1, 2 * BlockSize>>}

Volume(io, promoted, replicas) == [io |-> io, promoted |-> promoted, replicas |-> replicas]
Separate == {Volume(WholeBlocks, FALSE, {}), Volume(Replicated, FALSE, Replicas),
             Volume(Flushed, TRUE, {}), Volume(Promotion, FALSE, {})}
Mixed == {Volume(WholeBlocks \cup InsideBlock \cup Straddling, FALSE, {})}
Extents == {Volume(Straddling, FALSE, Replicas)}
=============================================================================
