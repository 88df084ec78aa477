----------------------------- MODULE BlockGuard -----------------------------
(***************************************************************************)
(* How a request is split into block requests: BlockGuard's                *)
(* create_block_requests (src/src/core/BlockGuard.h), as a function of the *)
(* request's offset and length.  TierPolicy runs what it returns; HDCSCore *)
(* takes the result as the constant Span.                                  *)
(***************************************************************************)
EXTENDS Integers, Sequences

CONSTANTS BlockSize,   \* block_size
          TotalSize,   \* total_size
          CountRange   \* values of the uint8_t shared_count of DataStoreRequest

\* With another total_size the last bytes of the volume lie behind block_map.
ASSUME SizeAssumption ==
  /\ BlockSize \in Nat \ {0}
  /\ TotalSize \in Nat /\ TotalSize % BlockSize = 0
  /\ CountRange \in Nat \ {0}

block_count == TotalSize \div BlockSize

\* Mutant: the count forgets that a request may start inside a block.
CountNoOffset(o, l) == (IF l % BlockSize = 0 THEN 0 ELSE 1) + l \div BlockSize

\* The number of blocks touched, computed ahead of the loop.
Count(o, l) ==
  LET tmp_length == l + (o % BlockSize)
  IN  (IF tmp_length % BlockSize = 0 THEN 0 ELSE 1) + tmp_length \div BlockSize

\* Mutant: the part of a block before the request is not left out.
PieceLengthWhole(o, l) == IF BlockSize < l THEN BlockSize ELSE l

\* length_by_block
PieceLength(o, l) ==
  LET rest == BlockSize - (o % BlockSize)
  IN  IF rest < l THEN rest ELSE l

\* block_request_list: the loop, by what is left of the request; data_ptr is an
\* offset into req->data.
create_block_requests(o, l) ==
  LET list[left \in 0..l] ==
        IF left = 0 THEN <<>>
        ELSE LET offset == o + (l - left)
                 length_by_block == PieceLength(offset, left)
             IN  <<[block |-> offset \div BlockSize, offset |-> offset % BlockSize,
                    size |-> length_by_block, data_ptr |-> l - left]>>
                 \o list[left - length_by_block]
  IN  list[l]
=============================================================================
