---------------------------- MODULE CachePolicy -----------------------------
(***************************************************************************)
(* The cache policy (src/src/core/policy/CachePolicy.cpp) and the BlockOps *)
(* it builds (src/src/core/BlockOp.h), over the cache store, the backend   *)
(* and the persistent block meta.                                          *)
(*                                                                         *)
(* The main thread maps one block request at a time: map chooses the       *)
(* BlockOps from what block->entry is at that moment and links them behind *)
(* the block's earlier ones.  A block's BlockOps run one at a time and in  *)
(* order (HDCSCore proves it: PipelineSerial), those of different blocks   *)
(* in any interleaving; so here each block has its chain of ops and one    *)
(* action per BlockOp runs the first of them.                              *)
(*                                                                         *)
(* A block is a few sectors.  A request covers len of them from off; its   *)
(* buffer data_ptr and the block-sized block_buffer hold one value per     *)
(* position, and a written value tells for which sector it was meant.      *)
(* Recency is left out: the three lists are sets, map takes any free entry *)
(* and any block may be evicted or flushed at any time, which covers every *)
(* order of the lists, every expiry of a flush timer and every choice of   *)
(* the eviction thread.                                                    *)
(***************************************************************************)
EXTENDS Integers, Sequences, FiniteSets

CONSTANTS BlocksCount,   \* blocks of the volume
          CacheBlocks,   \* cache_blocks_count: entries of the cache
          SectorCount,   \* sectors of a block
          Vals,          \* what clients write
          Base,          \* what the volume held before
          Zero, Garbage, \* a punched or fresh sector; uninitialised memory
          WriteBack,     \* the values of write_back that are considered
          ReadOnly,      \* cache_mode = CACHE_MODE_READ_ONLY
          Extents,       \* Extents[t]: the <<off, len>> that requests of type t use
          MayFail,       \* whether a BlockOp may report r < 0
          BadFlushRead,  \* whether the cache read inside FlushBlockToBackend may fail
          MaxChain,      \* bound: chains linked to one block at a time
          None           \* the null pointer

Blocks == 0..(BlocksCount - 1)
Entries == 0..(CacheBlocks - 1)
Sectors == 0..(SectorCount - 1)
Data == [Sectors -> ((Vals \cup {Base}) \X Sectors) \cup {Zero, Garbage}]
Fill(v) == [s \in Sectors |-> v]
Written(v) == [s \in Sectors |-> <<v, s>>]
IoTypes == {"READ", "WRITE", "DEMOTE", "DISCARD", "FLUSH"}
Statuses == {"UNPROMOTED", "PROMOTED_UNFLUSHED", "FLUSHED"}

ASSUME SizesAssumption ==
  /\ BlocksCount \in Nat \ {0} /\ CacheBlocks \in Nat \ {0} /\ SectorCount \in Nat \ {0}
  /\ MaxChain \in Nat
  /\ None \notin Entries

ASSUME ModeAssumption ==
  /\ WriteBack \in SUBSET BOOLEAN /\ ReadOnly \in BOOLEAN
  /\ MayFail \in BOOLEAN /\ BadFlushRead \in BOOLEAN

ASSUME ExtentsAssumption ==
  /\ Extents \in [IoTypes -> SUBSET (Sectors \X (1..SectorCount))]
  /\ \A t \in IoTypes : \A x \in Extents[t] : x[1] + x[2] <= SectorCount

VARIABLES
  entry,       \* Block::entry, as the entry_id it points to
  status,      \* Entry::status
  free_lru, clean_lru, dirty_lru,
  in_discard_process,
  chain,       \* per block: the linked chains of BlockOps
  meta,        \* persistent block meta: status and entry_id
  cache,       \* persistent content of each cache entry
  back,        \* persistent content of each block of the backend
  alive,       \* the process is running
  write_back,  \* configuration: timeout_nanoseconds # 0
  valid        \* history: the contents a correct volume may have for each block

lists == <<free_lru, clean_lru, dirty_lru>>
memory == <<entry, status, lists, in_discard_process, chain>>
disk == <<meta, cache, back>>
vars == <<memory, disk, alive, write_back, valid>>

Unpromoted == [st |-> "UNPROMOTED", id |-> 0]

Init ==
  /\ entry = [b \in Blocks |-> None]
  /\ status = [e \in Entries |-> "UNPROMOTED"]
  /\ free_lru = Entries
  /\ clean_lru = {}
  /\ dirty_lru = {}
  /\ in_discard_process = [b \in Blocks |-> FALSE]
  /\ chain = [b \in Blocks |-> <<>>]
  /\ meta = [b \in Blocks |-> Unpromoted]
  /\ cache = [e \in Entries |-> Fill(Zero)]
  /\ back = [b \in Blocks |-> Written(Base)]
  /\ alive = TRUE
  /\ write_back \in WriteBack
  /\ valid = [b \in Blocks |-> {Written(Base)}]

-----------------------------------------------------------------------------
(* map: the BlockOps of a request, first to last.  An op is the name of its *)
(* class and the buffer, status or list it is given; DemoteBlockBuffer only *)
(* frees block_buffer and is left out.                                      *)

\* Mutant: a partial read goes straight to the client's buffer.
ReadOpsNoCopy(hit, partial) ==
  (IF hit THEN << <<"ReadBlockFromCache", "data_ptr">> >>
          ELSE << <<"PromoteBlockFromBackend", "data_ptr">>, <<"WriteBlockToCache", "data_ptr">>,
                  <<"UpdateCacheMeta", "FLUSHED">> >>)
  \o << <<"UpdateLRU", "status">> >>

\* Mutant: a miss is recorded in the meta before the entry is filled.
ReadOpsMetaFirst(hit, partial) ==
  LET to == IF partial THEN "block_buffer" ELSE "data_ptr"
      copy == IF partial THEN << <<"ReadFromBuffer", to>> >> ELSE <<>>
  IN (IF hit
        THEN << <<"ReadBlockFromCache", to>> >> \o copy
        ELSE << <<"UpdateCacheMeta", "FLUSHED">>, <<"PromoteBlockFromBackend", to>>,
                <<"WriteBlockToCache", to>> >> \o copy)
     \o << <<"UpdateLRU", "status">> >>

ReadOps(hit, partial) ==
  LET to == IF partial THEN "block_buffer" ELSE "data_ptr"
      copy == IF partial THEN << <<"ReadFromBuffer", to>> >> ELSE <<>>
  IN (IF hit
        THEN << <<"ReadBlockFromCache", to>> >> \o copy
        ELSE << <<"PromoteBlockFromBackend", to>>, <<"WriteBlockToCache", to>> >>
             \o copy \o << <<"UpdateCacheMeta", "FLUSHED">> >>)
     \o << <<"UpdateLRU", "status">> >>

\* Mutant: write-through forgets the backend.
WriteOpsNoBackend(hit, partial) ==
  << <<"WriteBlockToCache", "data_ptr">>,
     <<"UpdateCacheMeta", IF write_back THEN "PROMOTED_UNFLUSHED" ELSE "FLUSHED">>,
     <<"UpdateLRU", "status">> >>

\* Mutant: the meta is written before the data.
WriteOpsMetaFirst(hit, partial) ==
  << <<"UpdateCacheMeta", IF write_back THEN "PROMOTED_UNFLUSHED" ELSE "FLUSHED">>,
     <<"WriteBlockToCache", "data_ptr">>, <<"UpdateLRU", "status">> >>

WriteOps(hit, partial) ==
  (IF partial
     THEN << IF hit THEN <<"ReadBlockFromCache", "data_ptr">>
                    ELSE <<"PromoteFromBackend", "block_buffer">>,
             <<"WriteToBuffer", "block_buffer">>,
             <<"WriteBlockToCache", "block_buffer">> >>
     ELSE << <<"WriteBlockToCache", "data_ptr">> >>)
  \o (IF write_back
        THEN << <<"UpdateCacheMeta", "PROMOTED_UNFLUSHED">> >>
        ELSE << <<"WriteToBackend", "data_ptr">>, <<"UpdateCacheMeta", "FLUSHED">> >>)
  \o << <<"UpdateLRU", "status">> >>

\* Mutant: the entry is given back before the meta forgets it.
DropEntryOpsFreeEarly ==
  << <<"DemoteBlockToCache", "entry">>, <<"ResetCacheEntry", "entry">>,
     <<"UpdateLRU", "free">>, <<"UpdateCacheMeta", "UNPROMOTED">> >>

\* Mutant: the entry is given back while the block still points to it.
DropEntryOpsFreeFirst ==
  << <<"DemoteBlockToCache", "entry">>, <<"UpdateLRU", "free">>,
     <<"UpdateCacheMeta", "UNPROMOTED">>, <<"ResetCacheEntry", "entry">> >>

\* Mutant: the meta keeps the entry.
DropEntryOpsNoMeta ==
  << <<"DemoteBlockToCache", "entry">>, <<"ResetCacheEntry", "entry">>, <<"UpdateLRU", "free">> >>

DropEntryOps ==
  << <<"DemoteBlockToCache", "entry">>, <<"ResetCacheEntry", "entry">>,
     <<"UpdateCacheMeta", "UNPROMOTED">>, <<"UpdateLRU", "free">> >>

\* Mutant: a dirty block is dropped without a flush.
DemoteOpsNoFlush == DropEntryOps \o << <<"ReleaseDiscardBlock", "">> >>

DemoteOps ==
  << <<"FlushBlockToBackend", "entry">> >> \o DropEntryOps \o << <<"ReleaseDiscardBlock", "">> >>

\* Mutant: a discard leaves the cached copy.
DiscardOpsKeepEntry(hit) == << <<"DiscardBlockToBackend", "">>, <<"ReleaseDiscardBlock", "">> >>

DiscardOps(hit) ==
  << <<"DiscardBlockToBackend", "">> >> \o (IF hit THEN DropEntryOps ELSE <<>>)
  \o << <<"ReleaseDiscardBlock", "">> >>

\* Mutant: the status is set before the flush looks at it.
FlushOpsMetaFirst ==
  << <<"UpdateCacheMeta", "FLUSHED">>, <<"FlushBlockToBackend", "entry">>, <<"UpdateLRU", "status">> >>

\* Mutant: a flushed block stays where it was on the lists.
FlushOpsNoLRU == << <<"FlushBlockToBackend", "entry">>, <<"UpdateCacheMeta", "FLUSHED">> >>

FlushOps ==
  << <<"FlushBlockToBackend", "entry">>, <<"UpdateCacheMeta", "FLUSHED">>, <<"UpdateLRU", "status">> >>

Ops(t, hit, partial) ==
  CASE t = "READ" -> ReadOps(hit, partial)
    [] t = "WRITE" -> IF ReadOnly THEN << <<"WriteToBackend", "data_ptr">> >>
                                  ELSE WriteOps(hit, partial)
    [] t = "DEMOTE" -> IF hit THEN DemoteOps ELSE <<>>
    [] t = "DISCARD" -> DiscardOps(hit)
    [] t = "FLUSH" -> IF hit THEN FlushOps ELSE <<>>

\* Whether map takes a free entry for a request of type t to block b.
NeedsEntry(t, b) == entry[b] = None /\ (t = "READ" \/ (t = "WRITE" /\ ~ReadOnly))

Request(t, x, v, e, ops) ==
  [io_type |-> t, off |-> x[1], len |-> x[2], val |-> v, entry |-> e, ops |-> ops,
   data_ptr |-> [i \in Sectors |-> IF t = "WRITE" /\ i < x[2] THEN Written(v)[x[1] + i] ELSE Garbage],
   block_buffer |-> Fill(Garbage)]

\* process_request maps nothing to a block that is being discarded.
Mappable(b) == alive /\ ~in_discard_process[b] /\ Len(chain[b]) < MaxChain

\* The values a request of type t may carry.
Payload(t) == IF t = "WRITE" THEN Vals ELSE {Zero}

\* Mutant: the entry stays on free_lru.
map_keeps_free(b, t, x, v) ==
  LET ops == Ops(t, entry[b] # None, x[2] < SectorCount)
             \o << <<"BlockRequestComplete", "">> >>
  IN
  /\ Mappable(b)
  /\ \E e \in IF NeedsEntry(t, b) THEN free_lru ELSE {entry[b]} :
       /\ entry' = [entry EXCEPT ![b] = e]
       /\ chain' = [chain EXCEPT ![b] = Append(@, Request(t, x, v, e, ops))]
  /\ in_discard_process' = [in_discard_process EXCEPT ![b] =
                              @ \/ t = "DISCARD" \/ (t = "DEMOTE" /\ entry[b] # None)]
  /\ UNCHANGED <<status, lists, disk, alive, write_back, valid>>

map(b, t, x, v) ==
  LET ops == Ops(t, entry[b] # None, x[2] < SectorCount)
             \o << <<"BlockRequestComplete", "">> >>
  IN
  /\ Mappable(b)
  /\ \/ /\ ~NeedsEntry(t, b)
        /\ chain' = [chain EXCEPT ![b] = Append(@, Request(t, x, v, entry[b], ops))]
        /\ UNCHANGED <<entry, free_lru>>
     \/ /\ NeedsEntry(t, b)
        /\ \E e \in free_lru :
             /\ free_lru' = free_lru \ {e}
             /\ entry' = [entry EXCEPT ![b] = e]
             /\ chain' = [chain EXCEPT ![b] = Append(@, Request(t, x, v, e, ops))]
  /\ in_discard_process' = [in_discard_process EXCEPT ![b] =
                              @ \/ t = "DISCARD" \/ (t = "DEMOTE" /\ entry[b] # None)]
  /\ UNCHANGED <<status, clean_lru, dirty_lru, disk, alive, write_back, valid>>

\* LRU_LIST::get_head of an empty free_lru dereferences a null head: the
\* branches for "no free cache entry" and "run out cache" are never reached.
get_head_empty(b, t) ==
  /\ Mappable(b)
  /\ Extents[t] # {}
  /\ NeedsEntry(t, b)
  /\ free_lru = {}
  /\ alive' = FALSE
  /\ UNCHANGED <<memory, disk, write_back, valid>>

-----------------------------------------------------------------------------
(* The BlockOps.                                                            *)

Running(b) == Head(chain[b])
Does(b, op) == alive /\ chain[b] # <<>> /\ Running(b).ops # <<>> /\ Head(Running(b).ops)[1] = op
Arg(b) == Head(Running(b).ops)[2]

\* complete(r) with r >= 0: the request c, as the op leaves it, goes on.
Advance(b, c) ==
  chain' = [chain EXCEPT ![b] = << [c EXCEPT !.ops = Tail(@)] >> \o Tail(@)]
Continue(b) == Advance(b, Running(b))

InExtent(c, s) == c.off <= s /\ s < c.off + c.len

\* A block-sized read into one of the two buffers.  data_ptr has room for len
\* sectors; what lies behind it is not this request's memory.
Load(c, to, block) ==
  IF to = "block_buffer"
    THEN [c EXCEPT !.block_buffer = block]
    ELSE [c EXCEPT !.data_ptr = [i \in Sectors |-> IF i < c.len THEN block[i] ELSE @[i]]]
Buffer(c, from) == IF from = "block_buffer" THEN c.block_buffer ELSE c.data_ptr

\* block with the extent of c overwritten from data_ptr.
Overwrite(c, block) ==
  [s \in Sectors |-> IF InExtent(c, s) THEN c.data_ptr[s - c.off] ELSE block[s]]

ReadBlockFromCache(b) ==
  /\ Does(b, "ReadBlockFromCache")
  /\ Advance(b, Load(Running(b), Arg(b), cache[Running(b).entry]))
  /\ UNCHANGED <<entry, status, lists, in_discard_process, disk, alive, write_back, valid>>

PromoteBlockFromBackend(b) ==
  /\ Does(b, "PromoteBlockFromBackend")
  /\ Advance(b, Load(Running(b), Arg(b), back[b]))
  /\ UNCHANGED <<entry, status, lists, in_discard_process, disk, alive, write_back, valid>>

\* Only the extent is read, to the start of the buffer.
PromoteFromBackend(b) ==
  LET c == Running(b)
  IN
  /\ Does(b, "PromoteFromBackend")
  /\ Advance(b, [c EXCEPT !.block_buffer =
                   [i \in Sectors |-> IF i < c.len THEN back[b][c.off + i] ELSE @[i]]])
  /\ UNCHANGED <<entry, status, lists, in_discard_process, disk, alive, write_back, valid>>

ReadFromBuffer(b) ==
  LET c == Running(b)
  IN
  /\ Does(b, "ReadFromBuffer")
  /\ Advance(b, [c EXCEPT !.data_ptr =
                   [i \in Sectors |-> IF i < c.len THEN c.block_buffer[c.off + i] ELSE @[i]]])
  /\ UNCHANGED <<entry, status, lists, in_discard_process, disk, alive, write_back, valid>>

WriteToBuffer(b) ==
  LET c == Running(b)
  IN
  /\ Does(b, "WriteToBuffer")
  /\ Advance(b, [c EXCEPT !.block_buffer = Overwrite(c, @)])
  /\ UNCHANGED <<entry, status, lists, in_discard_process, disk, alive, write_back, valid>>

WriteBlockToCache(b) ==
  /\ Does(b, "WriteBlockToCache")
  /\ cache' = [cache EXCEPT ![Running(b).entry] = Buffer(Running(b), Arg(b))]
  /\ Continue(b)
  /\ UNCHANGED <<entry, status, lists, in_discard_process, meta, back, alive, write_back, valid>>

WriteToBackend(b) ==
  /\ Does(b, "WriteToBackend")
  /\ back' = [back EXCEPT ![b] = Overwrite(Running(b), @)]
  /\ Continue(b)
  /\ UNCHANGED <<entry, status, lists, in_discard_process, meta, cache, alive, write_back, valid>>

\* Dirty blocks are copied to the backend.  The result of the cache read is
\* overwritten by that of the write: after a failed read, data is whatever the
\* buffer held.
FlushBlockToBackend(b) ==
  LET e == Running(b).entry
  IN
  /\ Does(b, "FlushBlockToBackend")
  /\ \/ /\ status[e] = "PROMOTED_UNFLUSHED"
        /\ \E data \in {cache[e]} \cup (IF BadFlushRead THEN {Fill(Garbage)} ELSE {}) :
             back' = [back EXCEPT ![b] = data]
     \/ status[e] # "PROMOTED_UNFLUSHED" /\ UNCHANGED back
  /\ Continue(b)
  /\ UNCHANGED <<entry, status, lists, in_discard_process, meta, cache, alive, write_back, valid>>

\* SimpleBlockStore::block_discard punches a hole.
DemoteBlockToCache(b) ==
  /\ Does(b, "DemoteBlockToCache")
  /\ cache' = [cache EXCEPT ![Running(b).entry] = Fill(Zero)]
  /\ Continue(b)
  /\ UNCHANGED <<entry, status, lists, in_discard_process, meta, back, alive, write_back, valid>>

DiscardBlockToBackend(b) ==
  /\ Does(b, "DiscardBlockToBackend")
  /\ back' = [back EXCEPT ![b] = Fill(Zero)]
  /\ Continue(b)
  /\ UNCHANGED <<entry, status, lists, in_discard_process, meta, cache, alive, write_back, valid>>

\* The status goes to the entry and, with the entry_id, to the block's meta;
\* an eviction passes no entry and writes a bare UNPROMOTED.
UpdateCacheMeta(b) ==
  LET e == Running(b).entry
      st == Arg(b)
  IN
  /\ Does(b, "UpdateCacheMeta")
  /\ \/ /\ st = "UNPROMOTED"
        /\ meta' = [meta EXCEPT ![b] = Unpromoted]
        /\ UNCHANGED status
     \/ /\ st # "UNPROMOTED"
        /\ status' = [status EXCEPT ![e] = st]
        /\ meta' = [meta EXCEPT ![b] = [st |-> st, id |-> e]]
  /\ Continue(b)
  /\ UNCHANGED <<entry, lists, in_discard_process, cache, back, alive, write_back, valid>>

UpdateLRU(b) ==
  LET e == Running(b).entry
  IN
  /\ Does(b, "UpdateLRU")
  /\ \/ /\ Arg(b) = "free"
        /\ clean_lru' = clean_lru \ {b}
        /\ dirty_lru' = dirty_lru \ {b}
        /\ free_lru' = free_lru \cup {e}
     \/ /\ Arg(b) = "status"
        /\ status[e] = "PROMOTED_UNFLUSHED"
        /\ clean_lru' = clean_lru \ {b}
        /\ dirty_lru' = dirty_lru \cup {b}
        /\ UNCHANGED free_lru
     \/ /\ Arg(b) = "status"
        /\ status[e] # "PROMOTED_UNFLUSHED"
        /\ dirty_lru' = dirty_lru \ {b}
        /\ clean_lru' = clean_lru \cup {b}
        /\ UNCHANGED free_lru
  /\ Continue(b)
  /\ UNCHANGED <<entry, status, in_discard_process, disk, alive, write_back, valid>>

ResetCacheEntry(b) ==
  /\ Does(b, "ResetCacheEntry")
  /\ status' = [status EXCEPT ![Running(b).entry] = "UNPROMOTED"]
  /\ entry' = [entry EXCEPT ![b] = None]
  /\ Continue(b)
  /\ UNCHANGED <<lists, in_discard_process, disk, alive, write_back, valid>>

ReleaseDiscardBlock(b) ==
  /\ Does(b, "ReleaseDiscardBlock")
  /\ in_discard_process' = [in_discard_process EXCEPT ![b] = FALSE]
  /\ Continue(b)
  /\ UNCHANGED <<entry, status, lists, disk, alive, write_back, valid>>

\* What a finished request c makes of a block's content v.
Effect(c, v) ==
  CASE c.io_type = "WRITE"   -> [s \in Sectors |-> IF InExtent(c, s) THEN Written(c.val)[s] ELSE v[s]]
    [] c.io_type = "DISCARD" -> Fill(Zero)
    [] OTHER                 -> v

\* What c has read is content v.
Sees(c, v) == \A s \in Sectors : InExtent(c, s) => c.data_ptr[s - c.off] = v[s]

\* The request is answered; the history keeps the contents the answer allows.
BlockRequestComplete(b) ==
  LET c == Running(b)
  IN
  /\ Does(b, "BlockRequestComplete")
  /\ chain' = [chain EXCEPT ![b] = Tail(@)]
  /\ valid' = [valid EXCEPT ![b] = {Effect(c, v) : v \in {u \in @ : c.io_type = "READ" => Sees(c, u)}}]
  /\ UNCHANGED <<entry, status, lists, in_discard_process, disk, alive, write_back>>

\* The ops that report the result of a store.
StoreOps == {"ReadBlockFromCache", "PromoteBlockFromBackend", "PromoteFromBackend",
             "WriteBlockToCache", "WriteToBackend", "FlushBlockToBackend",
             "DemoteBlockToCache", "DiscardBlockToBackend"}

\* complete(r) with r < 0: the block's ops stop here for good.  The failed
\* request may have had its effect or not; block_discard returns no value when
\* it succeeds, so a hole may be punched and reported as a failure.
OpFailed(b) ==
  LET c == Running(b)
  IN
  /\ MayFail
  /\ \E op \in StoreOps : Does(b, op)
  /\ \/ UNCHANGED cache
     \/ Does(b, "DemoteBlockToCache") /\ cache' = [cache EXCEPT ![c.entry] = Fill(Zero)]
  /\ chain' = [chain EXCEPT ![b] = << [c EXCEPT !.ops = <<>>] >> \o Tail(@)]
  /\ valid' = [valid EXCEPT ![b] = @ \cup {Effect(c, v) : v \in @}]
  /\ UNCHANGED <<entry, status, lists, in_discard_process, meta, back, alive, write_back>>

-----------------------------------------------------------------------------
(* The process stops, by itself or not, and is started again: the           *)
(* constructor rebuilds the entries and the lists from the block meta.      *)

\* Blocks whose meta names entry k; of several, the last one read stays.
Claims(k) == {b \in Blocks : meta[b].st # "UNPROMOTED" /\ meta[b].id = k}
Claimant(k) == CHOOSE b \in Claims(k) : \A c \in Claims(k) : c <= b

\* Mutant: the loop that fills entries starts one too high.
EntryAtOffByOne(k) == CacheBlocks - k

\* entries is filled from cache_blocks_count - 1 down: entries[k] is the Entry
\* whose entry_id is this.
EntryAt(k) == CacheBlocks - 1 - k

Restart ==
  /\ alive' = TRUE
  /\ entry' = [b \in Blocks |-> IF b \in Claims(meta[b].id) /\ b = Claimant(meta[b].id)
                                  THEN EntryAt(meta[b].id) ELSE None]
  /\ status' = [e \in Entries |-> IF Claims(EntryAt(e)) = {} THEN "UNPROMOTED"
                                    ELSE meta[Claimant(EntryAt(e))].st]
  /\ free_lru' = {e \in Entries : Claims(EntryAt(e)) = {}}
  /\ clean_lru' = {b \in Blocks : entry'[b] # None /\ meta[b].st = "FLUSHED"}
  /\ dirty_lru' = {b \in Blocks : entry'[b] # None /\ meta[b].st = "PROMOTED_UNFLUSHED"}
  /\ in_discard_process' = [b \in Blocks |-> FALSE]
  /\ chain' = [b \in Blocks |-> <<>>]
  /\ valid' = [b \in Blocks |-> valid[b] \cup
                 (IF chain[b] = <<>> THEN {} ELSE {Effect(Running(b), v) : v \in valid[b]})]
  /\ UNCHANGED <<disk, write_back>>

-----------------------------------------------------------------------------
Step(b) ==
  \/ ReadBlockFromCache(b) \/ PromoteBlockFromBackend(b) \/ PromoteFromBackend(b)
  \/ ReadFromBuffer(b) \/ WriteToBuffer(b) \/ WriteBlockToCache(b) \/ WriteToBackend(b)
  \/ FlushBlockToBackend(b) \/ DemoteBlockToCache(b) \/ DiscardBlockToBackend(b)
  \/ UpdateCacheMeta(b) \/ UpdateLRU(b) \/ ResetCacheEntry(b) \/ ReleaseDiscardBlock(b)
  \/ BlockRequestComplete(b) \/ OpFailed(b)

Next == \E b \in Blocks :
  \/ \E t \in IoTypes : \/ \E x \in Extents[t], v \in Payload(t) : map(b, t, x, v)
                        \/ get_head_empty(b, t)
  \/ Step(b)

Spec == Init /\ [][Next]_vars
CrashSpec == Init /\ [][Next \/ Restart]_vars

-----------------------------------------------------------------------------
(* Properties.                                                              *)

OpClasses == StoreOps \cup {"ReadFromBuffer", "WriteToBuffer", "UpdateCacheMeta", "UpdateLRU",
                           "ResetCacheEntry", "ReleaseDiscardBlock", "BlockRequestComplete"}
OpArgs == Statuses \cup {"data_ptr", "block_buffer", "entry", "status", "free", ""}

Chain == [io_type : IoTypes, off : Sectors, len : 1..SectorCount, val : Vals \cup {Zero},
          entry : Entries \cup {None}, ops : Seq(OpClasses \X OpArgs),
          data_ptr : Data, block_buffer : Data]

\* Every field keeps its type: the ops of a request are of BlockOp's classes with
\* one of their arguments, and the data they move are whole buffers.
TypeOK ==
  /\ entry \in [Blocks -> Entries \cup {None}]
  /\ status \in [Entries -> Statuses]
  /\ free_lru \subseteq Entries
  /\ clean_lru \subseteq Blocks
  /\ dirty_lru \subseteq Blocks
  /\ in_discard_process \in [Blocks -> BOOLEAN]
  /\ \A b \in Blocks : \A i \in 1..Len(chain[b]) : chain[b][i] \in Chain
  /\ meta \in [Blocks -> [st : Statuses, id : Entries]]
  /\ cache \in [Entries -> Data]
  /\ back \in [Blocks -> Data]
  /\ alive \in BOOLEAN
  /\ write_back \in WriteBack
  /\ valid \in [Blocks -> SUBSET Data]

Pending(c, op) == \E i \in 1..Len(c.ops) : c.ops[i] = op

\* The entry block b has, or its eviction has taken from it and not yet given
\* back to free_lru.
Held(b) ==
  IF entry[b] # None THEN {entry[b]}
  ELSE {c.entry : c \in {d \in {chain[b][i] : i \in 1..Len(chain[b])} :
          Pending(d, <<"UpdateLRU", "free">>) /\ ~Pending(d, <<"ResetCacheEntry", "entry">>)}}

\* Every cache entry is free or held by exactly one block: map, which takes an
\* entry, and the eviction of another block, which gives one back in three
\* separate ops, never share an entry and never lose one.
EntryPartition ==
  /\ \A b \in Blocks : Held(b) \cap free_lru = {}
  /\ \A b, c \in Blocks : b # c => Held(b) \cap Held(c) = {}
  /\ \A e \in Entries : e \in free_lru \/ \E b \in Blocks : e \in Held(b)

\* No two blocks' meta name the same cache entry, at any moment a crash could
\* come: an eviction writes UNPROMOTED before it gives the entry back.
MetaInjective == \A k \in Entries : Cardinality(Claims(k)) <= 1

\* The content the next request to an idle block will find.
Content(b) == IF entry[b] = None THEN back[b] ELSE cache[entry[b]]

\* A read returns what the last write before it on the same block left, through
\* any hits, misses, flushes and evictions in between.
ReadsLatestWrite ==
  \A b \in Blocks : Does(b, "BlockRequestComplete") /\ Running(b).io_type = "READ" =>
     \E v \in valid[b] : Sees(Running(b), v)

\* Whatever happened, an idle block holds the last acknowledged content.
AckedSurvive == \A b \in Blocks : chain[b] = <<>> => Content(b) \in valid[b]

\* A block that an eviction may drop without a flush (status FLUSHED) is the
\* same in the cache and in the backend.
CleanIsSynced ==
  \A b \in Blocks : chain[b] = <<>> /\ entry[b] # None =>
     (status[entry[b]] = "FLUSHED" => cache[entry[b]] = back[b])

\* A BlockOp of the block has failed: none of its ops will run again.
Stopped(b) == chain[b] # <<>> /\ Running(b).ops = <<>>

\* The lists from which the eviction and flush threads choose, the meta from
\* which a restart rebuilds, and the entry agree on every idle block, and on a
\* block that a failed store has stopped for good, whichever op it was: no
\* plan has a store between its meta update and its list update.
ListsAgree ==
  \A b \in Blocks : chain[b] = <<>> \/ Stopped(b) =>
    /\ b \in dirty_lru <=> entry[b] # None /\ status[entry[b]] = "PROMOTED_UNFLUSHED"
    /\ b \in clean_lru <=> entry[b] # None /\ status[entry[b]] = "FLUSHED"
    /\ meta[b] = IF entry[b] = None \/ status[entry[b]] = "UNPROMOTED" THEN Unpromoted
                   ELSE [st |-> status[entry[b]], id |-> entry[b]]
    /\ entry[b] # None /\ chain[b] = <<>> => status[entry[b]] # "UNPROMOTED"

\* At every moment the disk alone (meta, cache store and backend) has, for
\* every block, the last acknowledged content or that of the request at work.
CrashConsistent ==
  \A b \in Blocks :
    LET persisted == IF meta[b].st = "UNPROMOTED" THEN back[b] ELSE cache[meta[b].id]
    IN  persisted \in valid[b] \cup
          (IF chain[b] = <<>> THEN {} ELSE {Effect(Running(b), v) : v \in valid[b]})

-----------------------------------------------------------------------------
(* The volume this implements.                                              *)

\* An eviction or discard that is past its write to the backend.
Dropping(b) ==
  /\ chain[b] # <<>>
  /\ Running(b).io_type \in {"DEMOTE", "DISCARD"}
  /\ ~Pending(Running(b), <<"FlushBlockToBackend", "entry">>)
  /\ ~Pending(Running(b), <<"DiscardBlockToBackend", "">>)

\* Where the content of a block is: in the entry its meta names, until the
\* block is dropped.
Vol == [b \in Blocks |-> IF meta[b].st = "UNPROMOTED" \/ Dropping(b)
                           THEN back[b] ELSE cache[meta[b].id]]

\* A write takes effect when it writes the entry the meta names; where the meta
\* names none, when write-through writes the backend or write-back the meta.
WriteApplied(b, c) ==
  LET ToDo(op) == \E src \in {"data_ptr", "block_buffer"} : Pending(c, <<op, src>>)
  IN  /\ ~ToDo("WriteBlockToCache")
      /\ meta[b].st = "UNPROMOTED" => ~write_back /\ ~ToDo("WriteToBackend")

\* How far request i of block b is; a read counts once only its answer is left.
Stage(b, i) ==
  LET c == chain[b][i]
  IN  CASE c.ops = <<>> -> "failed"
        [] c.io_type = "WRITE" /\ i = 1 /\ WriteApplied(b, c) -> "applied"
        [] c.io_type = "DISCARD" /\ i = 1 /\ Dropping(b) -> "applied"
        [] c.io_type = "READ" /\ Len(c.ops) = 1 -> "applied"
        [] OTHER -> "waiting"

Queue == [b \in Blocks |-> [i \in 1..Len(chain[b]) |->
  LET c == chain[b][i]
  IN  [io_type |-> c.io_type, off |-> c.off, len |-> c.len, val |-> c.val, stage |-> Stage(b, i),
       answer |-> IF c.io_type = "READ" /\ Stage(b, i) = "applied"
                    THEN [k \in Sectors |-> IF k < c.len THEN c.data_ptr[k] ELSE None] ELSE None]]]

Volume == INSTANCE Volume WITH vol <- Vol, queue <- Queue

\* The cache is invisible: with whole-block writes every behaviour of map and
\* the BlockOps is one of a volume without a cache, each request taking effect
\* exactly once and in the order of its block.
VolumeSpec == Volume!Spec

\* The same through crashes: what the meta, the cache store and the backend hold
\* at a crash is what the volume held.
CrashVolumeSpec == Volume!CrashSpec
=============================================================================
