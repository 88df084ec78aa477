--------------------------- MODULE MCCachePolicy ----------------------------
(* Instances of CachePolicy for TLC.                                       *)
EXTENDS CachePolicy, TLC

Full == {<<0, SectorCount>>}
Ends == Full \cup {<<SectorCount - 1, 1>>}
ValSymmetry == Permutations(Vals)

\* Whole-block writes, reads of a block or of its end, evictions and flushes.
BlockIO == [READ |-> Ends, WRITE |-> Full, DEMOTE |-> Full, DISCARD |-> {}, FLUSH |-> Full]
\* The same, with discards.
DiscardIO == [BlockIO EXCEPT !["DISCARD"] = Full]
\* Nothing is evicted.
ResidentIO == [BlockIO EXCEPT !["DEMOTE"] = {}]
\* Writes of a whole block or of its end.
PartialIO == [BlockIO EXCEPT !["READ"] = Full, !["WRITE"] = Ends]
=============================================================================
