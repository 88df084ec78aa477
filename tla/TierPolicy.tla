----------------------------- MODULE TierPolicy -----------------------------
(***************************************************************************)
(* Requests of a core in tier mode, from the split of a request to its     *)
(* answer: TierPolicy::map, the BlockOps it chains, DataStoreRequest (the  *)
(* pool threads of one request meet at a barrier, and the last to arrive   *)
(* writes for all of them) and the replicas the write is sent to.          *)
(*                                                                         *)
(* A byte of the volume holds the number of the request that wrote it, or  *)
(* Base, its content before.  Requests are kept after they are answered,   *)
(* so that the properties can speak of what came before what.              *)
(***************************************************************************)
EXTENDS BlockGuard, FiniteSets, SequencesExt

CONSTANTS Clients,      \* what a volume may be: its requests io, of <<io_type, offset, length>>,
                        \* its replicas, and whether it was promoted in an earlier life
          MaxRequests,  \* bound on the number of requests
          ThreadsNum,   \* op_threads_num: threads of the pool
          Replicas      \* the replica nodes there may be

ASSUME TierAssumption ==
  /\ \A v \in Clients : /\ v.promoted \in BOOLEAN /\ v.replicas \subseteq Replicas
                        /\ \A x \in v.io : /\ x[1] \in {"READ", "WRITE", "FLUSH", "PROMOTE"}
                                           /\ x[2] \in Nat /\ x[3] \in Nat \ {0}
                                           /\ x[2] + x[3] <= TotalSize
  /\ MaxRequests \in Nat /\ ThreadsNum \in Nat \ {0}

VARIABLES
  connection_v,  \* the replicas of this core
  inputs,        \* the member of Clients it is
  req,           \* all requests so far
  chain,         \* per block: the block requests mapped and not complete
  job_queue,     \* TWorkQueue: blocks whose chain waits for a thread
  running,       \* blocks whose chain has a thread
  acking,        \* block requests that have left their chain and not told the request
  cache,         \* the data store
  back,          \* the backend
  status,        \* CacheEntry::status, as persisted
  link,          \* per replica: messages on their way
  copy,          \* per replica: its data store
  replies        \* per request: write replies on their way

vars == <<connection_v, inputs, req, chain, job_queue, running, acking, cache, back, status,
          link, copy, replies>>
replication == <<connection_v, link, copy, replies>>
pool == <<job_queue, running, acking>>
stores == <<cache, back, status>>

Blocks == 0..(block_count - 1)
InBlock == 0..(BlockSize - 1)
Base == 0       \* what the volume held before all requests
Garbage == -1   \* what memory reads as that is freed or not yet written
Hole == -2      \* what the cache file reads as where nothing was written
Ids == 1..Len(req)

\* The constructor takes each status from the meta and moves no data: a volume
\* that nobody promoted has an empty cache file.
Init ==
  /\ inputs \in Clients
  /\ connection_v = inputs.replicas
  /\ req = <<>>
  /\ chain = [b \in Blocks |-> <<>>]
  /\ job_queue = <<>>
  /\ running = {}
  /\ acking = {}
  /\ back = [b \in Blocks |-> [k \in InBlock |-> Base]]
  /\ cache = IF inputs.promoted THEN back ELSE [b \in Blocks |-> [k \in InBlock |-> Hole]]
  /\ status = [b \in Blocks |-> IF inputs.promoted THEN "FLUSHED" ELSE "UNPROMOTED"]
  /\ link = [r \in Replicas |-> {}]
  /\ copy = [r \in Replicas |-> cache]
  /\ replies = <<>>

-----------------------------------------------------------------------------
(* The main thread: process_request splits a request and maps its pieces.   *)

Partial(p) == p.size < BlockSize

\* ExecuteDataStoreRequest::send
ExecuteOps == <<"prepare_request", "complete", "wait_for_complete">>

\* Mutant: a flush marks the block before it copies it.
MapMarksFirst(t, p) ==
  CASE t = "READ" /\ Partial(p) ->
         <<"ReadBlockFromCache", "ReadFromBuffer", "DemoteBlockBuffer", "BlockRequestComplete">>
    [] t = "READ" /\ ~Partial(p) -> <<"ReadBlockFromCache", "BlockRequestComplete">>
    [] t = "WRITE" /\ Partial(p) ->
         <<"ReadBlockFromCache", "WriteToBuffer">> \o ExecuteOps
           \o <<"DemoteBlockBuffer", "PROMOTED_UNFLUSHED", "BlockRequestComplete">>
    [] t = "WRITE" /\ ~Partial(p) -> ExecuteOps \o <<"PROMOTED_UNFLUSHED", "BlockRequestComplete">>
    [] t = "FLUSH" -> <<"FLUSHED", "FlushBlockToBackend", "BlockRequestComplete">>
    [] t = "PROMOTE" ->
         <<"PromoteBlockFromBackend", "WriteBlockToCache", "FLUSHED", "BlockRequestComplete">>

\* TierPolicy::map; the op named by a status is UpdateTierMeta to it.  Every block
\* has an entry from the constructor on, so the branches for a missing entry are
\* never taken.  DISCARD and the default are left out: nothing makes such a
\* request.
map(t, p) ==
  CASE t = "READ" /\ Partial(p) ->
         <<"ReadBlockFromCache", "ReadFromBuffer", "DemoteBlockBuffer", "BlockRequestComplete">>
    [] t = "READ" /\ ~Partial(p) -> <<"ReadBlockFromCache", "BlockRequestComplete">>
    [] t = "WRITE" /\ Partial(p) ->
         <<"ReadBlockFromCache", "WriteToBuffer">> \o ExecuteOps
           \o <<"DemoteBlockBuffer", "PROMOTED_UNFLUSHED", "BlockRequestComplete">>
    [] t = "WRITE" /\ ~Partial(p) -> ExecuteOps \o <<"PROMOTED_UNFLUSHED", "BlockRequestComplete">>
    [] t = "FLUSH" -> <<"FlushBlockToBackend", "FLUSHED", "BlockRequestComplete">>
    [] t = "PROMOTE" ->
         <<"PromoteBlockFromBackend", "WriteBlockToCache", "FLUSHED", "BlockRequestComplete">>

Acked(i) == req[i].acked

\* The count of replica_write_comp.
ReplicaCount == Cardinality(connection_v) + 1

NewRequest(t, o, l) ==
  LET list == create_block_requests(o, l)
  IN  [io_type |-> t, offset |-> o, length |-> l, list |-> list,
       pending |-> Len(list),                       \* block requests not complete
       told |-> Count(o, l) % CountRange,
       shared_count |-> Count(o, l) % CountRange,   \* of data_store_comp
       data_store_req_chain |-> <<>>,
       replica_count |-> ReplicaCount,
       acked |-> FALSE,                             \* the client's completion has run
       data |-> [k \in 0..(l - 1) |-> IF t = "WRITE" THEN Len(req) + 1 ELSE Garbage],
       buffer |-> [b \in Blocks |-> [k \in InBlock |-> Garbage]],
       before |-> {i \in Ids : Acked(i)}]           \* answered before this one came

process_request(t, o, l) ==
  LET r == NewRequest(t, o, l)
      PieceOf(b) == {p \in ToSet(r.list) : p.block = b}
      idle == SelectSeq([i \in 1..Len(r.list) |-> r.list[i].block], LAMBDA b : chain[b] = <<>>)
  IN
  /\ Len(req) < MaxRequests
  /\ req' = Append(req, r)
  /\ chain' = [b \in Blocks |-> chain[b] \o SetToSeq(
       {[id |-> Len(req) + 1, piece |-> p, ops |-> map(t, p), todo |-> <<>>] : p \in PieceOf(b)})]
  /\ job_queue' = job_queue \o idle
  /\ replies' = Append(replies, 0)
  /\ UNCHANGED <<connection_v, inputs, running, acking, stores, link, copy>>

-----------------------------------------------------------------------------
(* A thread of the pool takes a block and runs its BlockOps.                *)

TakeJob ==
  /\ job_queue # <<>>
  /\ Cardinality(running) + Cardinality(acking) < ThreadsNum
  /\ running' = running \cup {Head(job_queue)}
  /\ job_queue' = Tail(job_queue)
  /\ UNCHANGED <<inputs, req, chain, acking, stores, replication>>

Now(b) == Head(chain[b])
Id(b) == Now(b).id
Req(b) == req[Id(b)]
Does(b, op) == b \in running /\ Head(Now(b).ops) = op

\* The block goes on with these operations; todo is what its thread has left to
\* do of submit_request.
Proceed(b, ops, todo) ==
  chain' = [chain EXCEPT ![b] = <<[Head(@) EXCEPT !.ops = ops, !.todo = todo]>> \o Tail(@)]
Goto(b, ops) == Proceed(b, ops, <<>>)
Rest(b) == Tail(Now(b).ops)
Advance(b) == Goto(b, Rest(b))

\* Position k of the request's buffer belongs to the piece p.
Within(p, k) == p.data_ptr <= k /\ k < p.data_ptr + p.size
Fetch(b, from) ==
  [k \in DOMAIN Req(b).data |->
     IF Within(Now(b).piece, k) THEN from[Now(b).piece.offset + (k - Now(b).piece.data_ptr)]
                                ELSE Req(b).data[k]]

ReadBlockFromCache(b) ==
  /\ Does(b, "ReadBlockFromCache")
  /\ req' = IF Partial(Now(b).piece)
              THEN [req EXCEPT ![Id(b)].buffer[b] = cache[b]]
              ELSE [req EXCEPT ![Id(b)].data = Fetch(b, cache[b])]
  /\ Advance(b)
  /\ UNCHANGED <<inputs, pool, stores, replication>>

ReadFromBuffer(b) ==
  /\ Does(b, "ReadFromBuffer")
  /\ req' = [req EXCEPT ![Id(b)].data = Fetch(b, Req(b).buffer[b])]
  /\ Advance(b)
  /\ UNCHANGED <<inputs, pool, stores, replication>>

WriteToBuffer(b) ==
  LET p == Now(b).piece
  IN
  /\ Does(b, "WriteToBuffer")
  /\ req' = [req EXCEPT ![Id(b)].buffer[b] =
       [k \in InBlock |-> IF p.offset <= k /\ k < p.offset + p.size THEN Req(b).data[p.data_ptr + (k - p.offset)]
                        ELSE @[k]]]
  /\ Advance(b)
  /\ UNCHANGED <<inputs, pool, stores, replication>>

\* free(block_buffer)
DemoteBlockBuffer(b) ==
  /\ Does(b, "DemoteBlockBuffer")
  /\ req' = [req EXCEPT ![Id(b)].buffer[b] = [k \in InBlock |-> Garbage]]
  /\ Advance(b)
  /\ UNCHANGED <<inputs, pool, stores, replication>>

UpdateTierMeta(b, st) ==
  /\ Does(b, st)
  /\ status' = [status EXCEPT ![b] = st]
  /\ Advance(b)
  /\ UNCHANGED <<inputs, req, pool, cache, back, replication>>

\* A block that is not marked is not copied.
FlushBlockToBackend(b) ==
  /\ Does(b, "FlushBlockToBackend")
  /\ IF status[b] = "PROMOTED_UNFLUSHED"
       THEN /\ req' = [req EXCEPT ![Id(b)].data = cache[b]]
            /\ back' = [back EXCEPT ![b] = cache[b]]
       ELSE UNCHANGED <<req, back>>
  /\ Advance(b)
  /\ UNCHANGED <<inputs, pool, cache, status, replication>>

PromoteBlockFromBackend(b) ==
  /\ Does(b, "PromoteBlockFromBackend")
  /\ req' = [req EXCEPT ![Id(b)].data = back[b]]
  /\ Advance(b)
  /\ UNCHANGED <<inputs, pool, stores, replication>>

WriteBlockToCache(b) ==
  /\ Does(b, "WriteBlockToCache")
  /\ cache' = [cache EXCEPT ![b] = Req(b).data]
  /\ Advance(b)
  /\ UNCHANGED <<inputs, req, pool, back, status, replication>>

-----------------------------------------------------------------------------
(* DataStoreRequest.  An address is a position in the client's buffer (buf  *)
(* = -1) or in the block_buffer of a block (buf = the block): the buffers   *)
(* are separate allocations, which are never adjacent.                      *)

Address(p) == IF Partial(p) THEN [buf |-> p.block, at |-> 0] ELSE [buf |-> -1, at |-> p.data_ptr]
Plus(data, n) == [data EXCEPT !.at = @ + n]

\* One turn of prepare_request's loop, for the entry of c at key: acc is the
\* chain and the block_id, size and data that are being merged into it.
MergeWith(acc, key) ==
  LET old  == acc.c[key]
      prev == Plus(old.data, old.size) = acc.data
      a    == IF prev
                THEN [c |-> [acc.c EXCEPT ![key].size = @ + acc.size], block_id |-> key,
                      size |-> old.size + acc.size, data |-> old.data, inserted |-> TRUE]
                ELSE acc
      cur  == a.c[key]
      sum  == a.size + cur.size
      put  == [k \in (DOMAIN a.c \cup {a.block_id}) \ {key} |->
                 IF k = a.block_id THEN [size |-> sum, data |-> a.data] ELSE a.c[k]]
  IN  IF Plus(a.data, a.size) = cur.data
        THEN [a EXCEPT !.c = put, !.size = sum, !.inserted = TRUE]
        ELSE a

\* Mutant: an entry that follows the new one is left in the chain.
MergeKeepsNext(c, block_id, data) ==
  LET keys == SetToSortSeq(DOMAIN c, <)
      One(acc, key) ==
        LET a == MergeWith(acc, key)
        IN  IF key \in DOMAIN a.c THEN a ELSE [a EXCEPT !.c = (key :> acc.c[key]) @@ a.c]
      end  == FoldLeft(One, [c |-> c, block_id |-> block_id, size |-> BlockSize, data |-> data,
                             inserted |-> FALSE], keys)
  IN  IF end.inserted THEN end.c
      ELSE (block_id :> [size |-> BlockSize, data |-> data]) @@ end.c

\* What prepare_request makes of the chain: buffers that are adjacent in memory
\* become one entry.
Merge(c, block_id, data) ==
  LET keys == SetToSortSeq(DOMAIN c, <)
      end  == FoldLeft(MergeWith, [c |-> c, block_id |-> block_id, size |-> BlockSize,
                                   data |-> data, inserted |-> FALSE], keys)
  IN  IF end.inserted THEN end.c
      ELSE (block_id :> [size |-> BlockSize, data |-> data]) @@ end.c

\* Under data_store_mutex.
prepare_request(b) ==
  /\ Does(b, "prepare_request")
  /\ req' = [req EXCEPT ![Id(b)].data_store_req_chain = Merge(@, b, Address(Now(b).piece))]
  /\ Advance(b)
  /\ UNCHANGED <<inputs, pool, stores, replication>>

\* submit_request: for each entry, in the order of the map, the replicas are
\* sent the data and then it is written here.
SubmitSteps(c) ==
  LET keys == SetToSortSeq(DOMAIN c, <)
      Steps(k) == <<[step |-> "send", key |-> k], [step |-> "write", key |-> k]>>
  IN  FlattenSeq([i \in 1..Len(keys) |-> Steps(keys[i])])

\* AioCompletionImp::complete: does this call run the callback?
RunsCallback(n) == n - 1 = 0

complete(b) ==
  LET n == Req(b).shared_count
  IN
  /\ Does(b, "complete")
  /\ IF n = -1 \/ RunsCallback(n)
       THEN /\ req' = [req EXCEPT ![Id(b)].shared_count = IF n = -1 THEN n ELSE n - 1]
            /\ Proceed(b, <<"submit_request">> \o Rest(b), SubmitSteps(Req(b).data_store_req_chain))
       ELSE /\ req' = [req EXCEPT ![Id(b)].shared_count = n - 1]
            /\ Advance(b)
  /\ UNCHANGED <<inputs, pool, stores, replication>>

\* The bytes of an entry, read when they are used.
BytesOf(i, entry) ==
  [k \in 0..(entry.size - 1) |->
     IF entry.data.buf = -1 THEN req[i].data[entry.data.at + k]
                            ELSE req[i].buffer[entry.data.buf][entry.data.at + k]]

\* A store after bytes are written from the start of block key on.
Store(s, key, bytes) ==
  [b \in Blocks |-> [k \in InBlock |->
     IF (b - key) * BlockSize + k \in DOMAIN bytes THEN bytes[(b - key) * BlockSize + k]
                                                    ELSE s[b][k]]]

SendToReplicas(b) ==
  LET i == Id(b)
      key == Head(Now(b).todo).key
  IN
  /\ Does(b, "submit_request")
  /\ Now(b).todo # <<>> /\ Head(Now(b).todo).step = "send"
  /\ link' = [r \in Replicas |-> IF r \in connection_v
       THEN link[r] \cup {[id |-> i, key |-> key,
                            bytes |-> BytesOf(i, Req(b).data_store_req_chain[key])]}
       ELSE link[r]]
  /\ Proceed(b, Now(b).ops, Tail(Now(b).todo))
  /\ UNCHANGED <<connection_v, inputs, req, pool, stores, copy, replies>>

WriteLocal(b) ==
  LET i == Id(b)
      key == Head(Now(b).todo).key
  IN
  /\ Does(b, "submit_request")
  /\ Now(b).todo # <<>> /\ Head(Now(b).todo).step = "write"
  /\ cache' = Store(cache, key, BytesOf(i, Req(b).data_store_req_chain[key]))
  /\ Proceed(b, Now(b).ops, Tail(Now(b).todo))
  /\ UNCHANGED <<inputs, req, pool, back, status, replication>>

Sleeps(b, i) == b \in running /\ Id(b) = i /\ Head(Now(b).ops) = "asleep"

\* notify_all does not take cond_lock: a thread on its way into the wait is not
\* reached.
NotifyAll(b) ==
  /\ Does(b, "submit_request")
  /\ Now(b).todo = <<>>
  /\ chain' = [c \in Blocks |->
       IF c = b THEN <<[Now(b) EXCEPT !.ops = Tail(@)]>> \o Tail(chain[b])
       ELSE IF Sleeps(c, Id(b))
         THEN <<[Now(c) EXCEPT !.ops = <<"wait_for_complete">> \o Tail(@)]>> \o Tail(chain[c])
         ELSE chain[c]]
  /\ UNCHANGED <<inputs, req, pool, stores, replication>>

\* wait_for_complete looks at the count and, in a second step, sleeps.
wait_for_complete(b) ==
  /\ Does(b, "wait_for_complete")
  /\ IF Req(b).shared_count = 0 THEN Advance(b) ELSE Goto(b, <<"dozing">> \o Rest(b))
  /\ UNCHANGED <<inputs, req, pool, stores, replication>>

FallAsleep(b) ==
  /\ Does(b, "dozing")
  /\ Goto(b, <<"asleep">> \o Rest(b))
  /\ UNCHANGED <<inputs, req, pool, stores, replication>>

-----------------------------------------------------------------------------
(* Completion.                                                              *)

\* Mutant: the client is answered without the replicas.
CompleteAtOnce(r) == [r EXCEPT !.acked = TRUE]

\* The completion a request has: its own, or the one create_block_requests put
\* around it, which waits for this node and every replica, and then deletes
\* itself.
CompleteRequest(r) ==
  LET n == r.replica_count - 1
  IN  [r EXCEPT !.replica_count = n, !.acked = @ \/ n = 0]

\* Mutant: the request is complete with one block request to go.
FinishedEarly(r) == r.pending <= 1

\* Request::complete
Finished(r) == r.pending = 0

\* Under block_mutex: the block is released, or kept for the next chain.
BlockRequestComplete(b) ==
  /\ Does(b, "BlockRequestComplete")
  /\ chain' = [chain EXCEPT ![b] = Tail(@)]
  /\ running' = running \ {b}
  /\ acking' = acking \cup {[block |-> b, id |-> Id(b), call_next |-> Len(chain[b]) > 1]}
  /\ UNCHANGED <<inputs, req, job_queue, stores, replication>>

\* Then the thread completes the block request and goes on with the next chain.
RequestComplete(a) ==
  LET r == [req[a.id] EXCEPT !.pending = @ - 1]
  IN
  /\ req' = [req EXCEPT ![a.id] = IF Finished(r) THEN CompleteRequest(r) ELSE r]
  /\ acking' = acking \ {a}
  /\ running' = IF a.call_next THEN running \cup {a.block} ELSE running
  /\ UNCHANGED <<inputs, chain, job_queue, stores, replication>>

\* A replica hands a write to its own core and replies when that is done.  The
\* messages travel on many sessions and the core lets a later write pass an
\* earlier one, so any of them may be stored next; a message is whole blocks in
\* one buffer.
ReplicaWrite(r, m) ==
  /\ copy' = [copy EXCEPT ![r] = Store(@, m.key, m.bytes)]
  /\ link' = [link EXCEPT ![r] = @ \ {m}]
  /\ replies' = [replies EXCEPT ![m.id] = @ + 1]
  /\ UNCHANGED <<connection_v, inputs, req, chain, pool, stores>>

\* HDCS_WRITE_REPLY at the client side of the connection.
HandleReply(i) ==
  /\ replies[i] > 0
  /\ replies' = [replies EXCEPT ![i] = @ - 1]
  /\ req' = [req EXCEPT ![i] = CompleteRequest(@)]
  /\ UNCHANGED <<connection_v, inputs, chain, pool, stores, link, copy>>

Step(b) ==
  \/ ReadBlockFromCache(b) \/ ReadFromBuffer(b) \/ WriteToBuffer(b) \/ DemoteBlockBuffer(b)
  \/ FlushBlockToBackend(b) \/ PromoteBlockFromBackend(b) \/ WriteBlockToCache(b)
  \/ \E st \in {"PROMOTED_UNFLUSHED", "FLUSHED"} : UpdateTierMeta(b, st)
  \/ prepare_request(b) \/ complete(b) \/ SendToReplicas(b)
  \/ WriteLocal(b) \/ NotifyAll(b) \/ wait_for_complete(b) \/ FallAsleep(b)
  \/ BlockRequestComplete(b)

Next ==
  \/ \E x \in inputs.io : process_request(x[1], x[2], x[3])
  \/ TakeJob
  \/ \E b \in Blocks : Step(b)
  \/ \E a \in acking : RequestComplete(a)
  \/ \E r \in Replicas : \E m \in link[r] : ReplicaWrite(r, m)
  \/ \E i \in Ids : HandleReply(i)

Spec == Init /\ [][Next]_vars

-----------------------------------------------------------------------------
(* Properties.                                                              *)

\* Byte k of the client's buffer is carried by piece p of request r, to or from
\* its own place in the volume.
Carries(r, p, k) ==
  Within(p, k) /\ p.block * BlockSize + p.offset + (k - p.data_ptr) = r.offset + k

\* create_block_requests splits exactly: every byte of the request is in one
\* block request, at the place in the block and in the buffer where it belongs,
\* and no block request reaches over the end of its block, of the buffer or of
\* block_map.
SplitExact ==
  \A i \in Ids : LET list == req[i].list IN
    /\ \A k \in 0..(req[i].length - 1) : \E m \in 1..Len(list) :
         /\ Carries(req[i], list[m], k)
         /\ \A n \in 1..Len(list) : Carries(req[i], list[n], k) => n = m
    /\ \A m \in 1..Len(list) :
         /\ list[m].size > 0 /\ list[m].offset + list[m].size <= BlockSize
         /\ list[m].data_ptr + list[m].size <= req[i].length
         /\ list[m].block < block_count

\* The barrier of DataStoreRequest, which is told a number computed before the
\* split, waits for as many prepare_request calls as there are block requests;
\* those are for different blocks, so none waits behind another.
BarrierMatches ==
  \A i \in Ids : LET list == req[i].list IN
    /\ req[i].told = Len(list)
    /\ \A m, n \in 1..Len(list) : list[m].block = list[n].block => m = n

BlocksIn(entry) == 0..(entry.size \div BlockSize - 1)

\* prepare_request merges buffers while other threads of the request come in any
\* order: when the barrier opens, the chain holds every block of the request, in
\* exactly one entry, with the data of that block.
MergeExact ==
  \A i \in Ids : LET c == req[i].data_store_req_chain IN
    req[i].io_type = "WRITE" /\ req[i].shared_count = 0 =>
      \A p \in ToSet(req[i].list) : \E key \in DOMAIN c, j \in Blocks :
        /\ j \in BlocksIn(c[key]) /\ key + j = p.block
        /\ Plus(c[key].data, j * BlockSize) = Address(p)
        /\ \A key2 \in DOMAIN c :
             key <= key2 /\ key2 <= key + c[key].size \div BlockSize - 1 => key2 = key

InRange(i, pos) == req[i].offset <= pos /\ pos < req[i].offset + req[i].length
Writes(i, pos) == req[i].io_type = "WRITE" /\ InRange(i, pos)

\* The value w may not be at pos any more for one who knows that the requests of
\* done are complete: a write of done came after w was complete, or a promotion
\* of done has filled the hole.
Outdated(w, pos, done) ==
  \E i \in done :
    \/ Writes(i, pos) /\ w # i /\ w \in req[i].before \cup {Base, Hole}
    \/ req[i].io_type = "PROMOTE" /\ InRange(i, pos) /\ w = Hole

\* What is at pos was there at first or was written there.
Placed(w, pos) == w = Base \/ (w = Hole /\ ~inputs.promoted) \/ (w \in Ids /\ Writes(w, pos))

\* A write that is acknowledged is in the data store of this node and of every
\* replica, and stays until a write that was not finished before it came; no
\* write changes a byte outside its range.  The threads a barrier lets go run on
\* while the last one is still writing for them.
AckDurable ==
  \A s \in {cache} \cup {copy[r] : r \in connection_v} : \A b \in Blocks, k \in InBlock :
    LET pos == b * BlockSize + k
    IN  Placed(s[b][k], pos) /\ ~Outdated(s[b][k], pos, {i \in Ids : Acked(i)})

\* A read returns, for each of its bytes, nothing older than the writes that were
\* acknowledged before the read came.  Where there were none it returns what the
\* volume held, if the block was promoted before; a block that nobody has
\* promoted reads as a hole, since the constructor promotes nothing and map takes
\* every block as present.
ReadsCurrent ==
  \A q \in Ids : req[q].io_type = "READ" /\ Acked(q) =>
    \A k \in DOMAIN req[q].data :
      LET pos == req[q].offset + k
      IN  Placed(req[q].data[k], pos) /\ ~Outdated(req[q].data[k], pos, req[q].before)

\* When a flush of a block is answered, the backend has every write to the block
\* that was acknowledged before the flush came, and no byte that is not the
\* volume's: FlushBlockToBackend copies only a block that is marked, and marks
\* are set and cleared by other ops than those that move the data.
FlushDurable ==
  \A f \in Ids : req[f].io_type = "FLUSH" /\ Acked(f) =>
    \A b \in Blocks, k \in InBlock :
      LET pos == b * BlockSize + k
          w == back[b][k]
      IN  InRange(f, pos) => /\ w # Hole /\ Placed(w, pos)
                             /\ ~Outdated(w, pos, req[f].before)

\* The completion that create_block_requests puts around a request is called by
\* this node and by every replica once, and not again after it has deleted
\* itself.
AckOnce ==
  \A i \in Ids : req[i].replica_count >= 0
=============================================================================
