------------------------------ MODULE HDCSCore ------------------------------
(***************************************************************************)
(* The request pipeline of one HDCS core (src/src/core/HDCSCore.cpp).      *)
(*                                                                         *)
(* Clients and the cache policy put requests on request_queue.  The main   *)
(* thread takes them off one at a time, splits each into one block request *)
(* per block it touches (BlockGuard), and maps every block request to a    *)
(* chain of BlockOps: process_request and map_block.  A block that is idle *)
(* gets a job in the thread pool (TWorkQueue); a block that is busy gets   *)
(* the new chain linked behind block_ops_end.  A pool thread runs a        *)
(* block's chains one after the other and only gives the block up when     *)
(* BlockRequestComplete finds nothing linked behind it.                    *)
(*                                                                         *)
(* What a policy's chain does to the data is the business of CachePolicy;  *)
(* here a chain is the part of it that the pipeline sees:                  *)
(*   io      work, then BlockRequestComplete                               *)
(*   noop    BlockRequestComplete alone (flush or demote of a block that   *)
(*           is not in the cache, DoNothing)                               *)
(*   demote  work, ReleaseDiscardBlock, then BlockRequestComplete, with    *)
(*           in_discard_process set when the chain is built                *)
(***************************************************************************)
EXTENDS Integers, Sequences, FiniteSets

CONSTANTS Requests,   \* Request objects
          IoType,     \* IoType[r]: io_type of request r
          Blocks,     \* the blocks of the volume (BlockGuard::block_map)
          Span,       \* Span[r]: the blocks r touches, in create_block_requests' order
          Workers,    \* threads of TWorkQueue
          MayFail,    \* whether a BlockOp may report r < 0
          Repeat,     \* requests issued again after they complete
          None        \* the null pointer

IoTypes == {"READ", "WRITE", "FLUSH", "PROMOTE", "DEMOTE", "DISCARD"}

ASSUME RequestsAssumption ==
  /\ IsFiniteSet(Requests)
  /\ IoType \in [Requests -> IoTypes]
  /\ Repeat \subseteq Requests

ASSUME BlocksAssumption ==
  /\ IsFiniteSet(Blocks)
  /\ None \notin Blocks
  /\ None \notin Requests

\* One request touches a block at most once: the split walks forward.
ASSUME SpanAssumption ==
  /\ Span \in [Requests -> Seq(Blocks)]
  /\ \A r \in Requests : \A i, j \in 1..Len(Span[r]) : Span[r][i] = Span[r][j] => i = j

ASSUME MayFailAssumption == MayFail \in BOOLEAN

VARIABLES
  request_queue,      \* WorkQueue of requests, oldest first
  rstate,             \* life of each Request object
  pending_requests,   \* Request::pending_requests
  todo,               \* block_request_list, from the iterator of process_request on
  deferred,           \* block_request_list, the entries the iterator has passed over
  in_process,         \* Block::in_process
  in_discard_process, \* Block::in_discard_process
  chain,              \* per block: the chains linked up to block_ops_end, running one first
  job_queue,          \* TWorkQueue::job_queue: blocks whose first BlockOp waits for a thread
  worker              \* what each pool thread is doing

vars == <<request_queue, rstate, pending_requests, todo, deferred, in_process,
          in_discard_process, chain, job_queue, worker>>

BlockRequest == [req : Requests, block : Blocks]
ChainKinds == {"io", "noop", "demote"}
Chain == [req : Requests, kind : ChainKinds]
WorkerState == [pc : {"idle", "op", "release", "complete", "ack"},
                block : Blocks \cup {None}, req : Requests \cup {None},
                call_next : BOOLEAN]
Idle == [pc |-> "idle", block |-> None, req |-> None, call_next |-> FALSE]

\* Every part of the pipeline keeps its type; in particular the unsigned
\* pending_requests is never decremented below 0, however block requests are
\* deferred, chained or failed.
TypeOK ==
  /\ request_queue \in Seq(Requests)
  /\ rstate \in [Requests -> {"new", "queued", "open", "done"}]
  /\ pending_requests \in [Requests -> Nat]
  /\ todo \in Seq(BlockRequest)
  /\ deferred \in Seq(BlockRequest)
  /\ in_process \in [Blocks -> BOOLEAN]
  /\ in_discard_process \in [Blocks -> BOOLEAN]
  /\ chain \in [Blocks -> Seq(Chain)]
  /\ job_queue \in Seq(Blocks)
  /\ worker \in [Workers -> WorkerState]

Init ==
  /\ request_queue = <<>>
  /\ rstate = [r \in Requests |-> "new"]
  /\ pending_requests = [r \in Requests |-> 0]
  /\ todo = <<>>
  /\ deferred = <<>>
  /\ in_process = [b \in Blocks |-> FALSE]
  /\ in_discard_process = [b \in Blocks |-> FALSE]
  /\ chain = [b \in Blocks |-> <<>>]
  /\ job_queue = <<>>
  /\ worker = [w \in Workers |-> Idle]

-----------------------------------------------------------------------------
(* Clients: aio_read and aio_write; the cache policy's own threads enqueue  *)
(* FLUSH and DEMOTE requests the same way.                                  *)

Submit(r) ==
  /\ rstate[r] = "new"
  /\ rstate' = [rstate EXCEPT ![r] = "queued"]
  /\ request_queue' = Append(request_queue, r)
  /\ UNCHANGED <<pending_requests, todo, deferred, in_process, in_discard_process,
                 chain, job_queue, worker>>

-----------------------------------------------------------------------------
(* The main thread: HDCSCore::process and process_request.                  *)

\* BlockGuard::create_block_requests: one block request per block touched.
create_block_requests(r) ==
  [i \in 1..Len(Span[r]) |-> [req |-> r, block |-> Span[r][i]]]

\* Mutant: the last block request is not counted.
add_requests_short(r) == Len(Span[r]) - 1

\* Mutant: a request is counted once, however many blocks it touches.
add_requests_once(r) == 1

\* Request::add_request, called by every BlockRequest constructor before any of
\* them is mapped.
add_requests(r) == Len(Span[r])

\* The previous process_request has reached the end of block_request_list; the
\* next one appends the new block requests and starts again from begin().
process(r) ==
  /\ todo = <<>>
  /\ request_queue # <<>>
  /\ r = Head(request_queue)
  /\ request_queue' = Tail(request_queue)
  /\ rstate' = [rstate EXCEPT ![r] = "open"]
  /\ pending_requests' = [pending_requests EXCEPT ![r] = add_requests(r)]
  /\ todo' = deferred \o create_block_requests(r)
  /\ deferred' = <<>>
  /\ UNCHANGED <<in_process, in_discard_process, chain, job_queue, worker>>

\* Mutant: a block being discarded is not skipped.
NotDiscarding(b) == FALSE

\* The test of process_request, made without block_mutex.
Discarding(b) == in_discard_process[b]

\* The block is being discarded: it++.
Defer ==
  /\ todo # <<>>
  /\ Discarding(Head(todo).block)
  /\ deferred' = Append(deferred, Head(todo))
  /\ todo' = Tail(todo)
  /\ UNCHANGED <<request_queue, rstate, pending_requests, in_process,
                 in_discard_process, chain, job_queue, worker>>

\* The chains policy->map may build for a request, by its io_type.  A PROMOTE is
\* work to TierPolicy and falls under CachePolicy's default, DoNothing.
PolicyMap(r) ==
  CASE IoType[r] \in {"READ", "WRITE"}    -> {"io"}
    [] IoType[r] \in {"FLUSH", "PROMOTE"} -> {"io", "noop"}
    [] IoType[r] = "DEMOTE"               -> {"demote", "noop"}
    [] IoType[r] = "DISCARD"              -> {"demote"}

\* Mutant: a job is queued for a busy block too.
AddTaskAlways(b) == Append(job_queue, b)

\* TWorkQueue::add_task, called when the block had no chain.
AddTask(b) == IF in_process[b] THEN job_queue ELSE Append(job_queue, b)

\* map_block, and the erase of the list entry.  policy->map, the test of
\* in_process and the linking happen under block_mutex.
map_block(kind) ==
  LET b == Head(todo).block
      r == Head(todo).req
  IN
  /\ todo # <<>>
  /\ ~Discarding(b)
  /\ kind \in PolicyMap(r)
  /\ todo' = Tail(todo)
  /\ chain' = [chain EXCEPT ![b] = Append(@, [req |-> r, kind |-> kind])]
  /\ in_process' = [in_process EXCEPT ![b] = TRUE]
  /\ in_discard_process' = [in_discard_process EXCEPT ![b] = @ \/ kind = "demote"]
  /\ job_queue' = AddTask(b)
  /\ UNCHANGED <<request_queue, rstate, pending_requests, deferred, worker>>

-----------------------------------------------------------------------------
(* The pool threads: TWorkQueue::add_worker runs BlockOp::send of a job.    *)

\* The thread state with which the chains q of block b start to run.
StartOf(b, q) ==
  [pc |-> IF Head(q).kind = "noop" THEN "complete" ELSE "op",
   block |-> b, req |-> Head(q).req, call_next |-> FALSE]

TakeJob(w) ==
  /\ worker[w].pc = "idle"
  /\ job_queue # <<>>
  /\ job_queue' = Tail(job_queue)
  /\ worker' = [worker EXCEPT ![w] = StartOf(Head(job_queue), chain[Head(job_queue)])]
  /\ UNCHANGED <<request_queue, rstate, pending_requests, todo, deferred,
                 in_process, in_discard_process, chain>>

\* Request::complete: the client's completion runs when the count reaches 0.
RequestComplete(r) ==
  /\ pending_requests' = [pending_requests EXCEPT ![r] = @ - 1]
  /\ rstate' = IF pending_requests[r] = 1
                 THEN [rstate EXCEPT ![r] = IF r \in Repeat THEN "new" ELSE "done"]
                 ELSE rstate

\* BlockOp::complete(r) with r >= 0: send the next op of the chain.
OpDone(w) ==
  /\ worker[w].pc = "op"
  /\ worker' = [worker EXCEPT ![w].pc =
                  IF Head(chain[worker[w].block]).kind = "demote"
                    THEN "release" ELSE "complete"]
  /\ UNCHANGED <<request_queue, rstate, pending_requests, todo, deferred,
                 in_process, in_discard_process, chain, job_queue>>

\* BlockOp::complete(r) with r < 0: the request is told, the rest of its chain
\* is unreachable, and whatever is linked behind it never runs: nobody clears
\* in_process, and nobody clears in_discard_process.
OpFailed(w) ==
  LET b == worker[w].block
  IN
  /\ MayFail
  /\ worker[w].pc = "op"
  /\ RequestComplete(worker[w].req)
  /\ chain' = [chain EXCEPT ![b] = Tail(@)]
  /\ worker' = [worker EXCEPT ![w] = Idle]
  /\ UNCHANGED <<request_queue, todo, deferred, in_process, in_discard_process, job_queue>>

\* Mutant: the block stays locked.
ReleaseNothing(w) ==
  /\ worker[w].pc = "release"
  /\ worker' = [worker EXCEPT ![w].pc = "complete"]
  /\ UNCHANGED <<request_queue, rstate, pending_requests, todo, deferred,
                 in_process, in_discard_process, chain, job_queue>>

\* ReleaseDiscardBlock::send.
ReleaseDiscardBlock(w) ==
  /\ worker[w].pc = "release"
  /\ in_discard_process' = [in_discard_process EXCEPT ![worker[w].block] = FALSE]
  /\ worker' = [worker EXCEPT ![w].pc = "complete"]
  /\ UNCHANGED <<request_queue, rstate, pending_requests, todo, deferred,
                 in_process, chain, job_queue>>

\* Whether another chain is linked behind the one that has just finished.
HasNext(b) == Tail(chain[b]) # <<>>

\* Mutant: in_process is not reset.
BlockRequestCompleteBusy(w) ==
  LET b == worker[w].block
  IN
  /\ worker[w].pc = "complete"
  /\ chain' = [chain EXCEPT ![b] = Tail(@)]
  /\ worker' = [worker EXCEPT ![w].pc = "ack", ![w].call_next = HasNext(b)]
  /\ UNCHANGED <<request_queue, rstate, pending_requests, todo, deferred,
                 in_process, in_discard_process, job_queue>>

\* BlockRequestComplete::complete, the part under block_mutex.
BlockRequestComplete(w) ==
  LET b == worker[w].block
  IN
  /\ worker[w].pc = "complete"
  /\ chain' = [chain EXCEPT ![b] = Tail(@)]
  /\ in_process' = [in_process EXCEPT ![b] = HasNext(b)]
  /\ worker' = [worker EXCEPT ![w].pc = "ack", ![w].call_next = HasNext(b)]
  /\ UNCHANGED <<request_queue, rstate, pending_requests, todo, deferred,
                 in_discard_process, job_queue>>

\* The rest of it: block_request->complete(r), then block_op_next->send.
Acknowledge(w) ==
  LET b == worker[w].block
  IN
  /\ worker[w].pc = "ack"
  /\ RequestComplete(worker[w].req)
  /\ worker' = [worker EXCEPT ![w] =
                  IF worker[w].call_next THEN StartOf(b, chain[b]) ELSE Idle]
  /\ UNCHANGED <<request_queue, todo, deferred, in_process, in_discard_process,
                 chain, job_queue>>

-----------------------------------------------------------------------------
MainThread == (\E r \in Requests : process(r)) \/ Defer \/ (\E k \in ChainKinds : map_block(k))

WorkerThread(w) ==
  \/ TakeJob(w)
  \/ OpDone(w)
  \/ OpFailed(w)
  \/ ReleaseDiscardBlock(w)
  \/ BlockRequestComplete(w)
  \/ Acknowledge(w)

Next ==
  \/ \E r \in Requests : Submit(r)
  \/ MainThread
  \/ \E w \in Workers : WorkerThread(w)

Spec == Init /\ [][Next]_vars

\* The main thread and the pool threads are operating-system threads that
\* always run when they can; clients owe nobody a request.
FairSpec == Spec /\ WF_vars(MainThread) /\ \A w \in Workers : WF_vars(WorkerThread(w))
-----------------------------------------------------------------------------
(* Properties.                                                              *)

\* Thread w owns the chains of block b: it runs one of them, or is about to
\* send the next one.
Runs(w, b) ==
  /\ worker[w].block = b
  /\ \/ worker[w].pc \in {"op", "release", "complete"}
     \/ worker[w].pc = "ack" /\ worker[w].call_next

Acks(w, r, b) == worker[w].pc = "ack" /\ worker[w].req = r /\ worker[w].block = b

InList(s, r, b) == \E i \in 1..Len(s) : s[i].req = r /\ s[i].block = b
InChain(q, r) == \E i \in 1..Len(q) : q[i].req = r

\* The block request of r for b is somewhere between create_block_requests and
\* BlockRequest::complete.
InFlight(r, b) ==
  \/ InList(todo, r, b)
  \/ InList(deferred, r, b)
  \/ InChain(chain[b], r)
  \/ \E w \in Workers : Acks(w, r, b)

\* A block's chains have one owner.  Two pool threads never run BlockOps of the
\* same block at once, a block is never queued twice or queued while it runs,
\* and a block with neither a job nor a thread is idle or has lost its chain to
\* a failed BlockOp: in_process, tested and set under block_mutex by map_block
\* and BlockRequestComplete, is what keeps BlockOps of a block sequential.
SingleRunner ==
  \A b \in Blocks :
    /\ \A v, w \in Workers : Runs(v, b) /\ Runs(w, b) => v = w
    /\ \A i, j \in 1..Len(job_queue) : job_queue[i] = b /\ job_queue[j] = b => i = j
    /\ \A w \in Workers, i \in 1..Len(job_queue) : ~(Runs(w, b) /\ job_queue[i] = b)
    /\ ~in_process[b] => chain[b] = <<>>
    /\ \A w \in Workers : Runs(w, b) => in_process[b] /\ chain[b] # <<>>
    /\ \A i \in 1..Len(job_queue) : job_queue[i] = b => in_process[b] /\ chain[b] # <<>>

\* Block b is busy and nobody will ever work on it.
Owned(b) ==
  \/ \E w \in Workers : Runs(w, b)
  \/ \E i \in 1..Len(job_queue) : job_queue[i] = b
Abandoned(b) == in_process[b] /\ ~Owned(b)

OnlyFailureAbandons ==
  \A b \in Blocks : Abandoned(b)' =>
    Abandoned(b) \/ \E w \in Workers : worker[w].block = b /\ OpFailed(w)

\* Only a failed BlockOp leaves a block busy with neither a job nor a thread, and
\* only its own block: in every other step the append of map_block and the last
\* look of BlockRequestComplete at block_op_next do not miss each other, also
\* beside blocks that a failure has left behind.
NoOrphan == [][OnlyFailureAbandons]_vars

\* Request::pending_requests of a request being served is exactly the number of
\* its block requests that are still in the pipeline, through deferral,
\* chaining and failure.
PendingExact ==
  \A r \in Requests : rstate[r] = "open" =>
     pending_requests[r] = Cardinality({b \in Blocks : InFlight(r, b)})

\* When the completion of a request has run (the client may free its buffer and
\* reuse the completion) no BlockOp, list entry or thread refers to it.
NoUseAfterComplete ==
  \A r \in Requests : rstate[r] # "open" => \A b \in Blocks : ~InFlight(r, b)

\* "Lock this block until discard done": while in_discard_process is set,
\* nothing is linked behind the demote chain, so no chain is built from the
\* cache entry the demote is about to give back.
DiscardLocksBlock ==
  \A b \in Blocks : in_discard_process[b] /\ chain[b] # <<>> =>
     chain[b][Len(chain[b])].kind = "demote"

\* Every request that touches a block is answered in the end.
RequestsComplete ==
  \A r \in Requests : Span[r] # <<>> => (rstate[r] = "queued" ~> rstate[r] \in {"new", "done"})

\* As long as some request keeps arriving and no BlockOp has failed, every request
\* is answered: an arrival is what makes process_request look again at the entries
\* it has passed over.
CompleteUnderTraffic ==
  /\ [](\A b \in Blocks : ~Abandoned(b))
  /\ \E t \in Repeat : []<><<Submit(t)>>_vars
  => RequestsComplete
=============================================================================
