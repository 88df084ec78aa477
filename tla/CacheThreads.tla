---------------------------- MODULE CacheThreads ----------------------------
(***************************************************************************)
(* The threads behind a write-back cache: SafeTimer, whose events flush    *)
(* dirty blocks, the eviction thread (CachePolicy::process), and the pool  *)
(* threads, which move blocks between the LRU lists and add and cancel the *)
(* events (UpdateLRU).  The data is CachePolicy's; here a block has an     *)
(* entry of its own whenever it is cached.                                 *)
(*                                                                         *)
(* Completions are C++ objects that delete themselves, so they are         *)
(* addresses: an address is live from new to delete, may be handed out     *)
(* again after that, and may still be named by an entry.                   *)
(***************************************************************************)
EXTENDS Integers, Sequences, FiniteSets, SequencesExt

CONSTANTS Blocks,
          Ptrs,          \* addresses of timeout completions (a bound)
          ThreadsNum,    \* process_threads_num
          HealthCount,   \* cache_ratio_health * cache_blocks_count
          CountRange,    \* values of the uint64_t process_blocks_count
          MaxBackground, \* bound on the equal requests in flight
          MaxRequests,   \* bound on the requests of clients
          None

Throttle == ThreadsNum \div 2

ASSUME ThreadsAssumption ==
  /\ ThreadsNum \in Nat /\ HealthCount \in Nat
  /\ CountRange \in Nat /\ CountRange > Throttle + 3
  /\ MaxBackground \in Nat /\ MaxRequests \in Nat
  /\ None \notin Blocks /\ None \notin Ptrs

VARIABLES
  status,       \* CacheEntry::status
  timeout_comp, \* CacheEntry::timeout_comp
  live,         \* the live completions: the block each would flush, or None
  reuse,        \* the allocator may hand out an address another entry still names
  clean_lru, dirty_lru,  \* most recent first
  schedule,     \* SafeTimer::schedule, next first; events is its inverse
  timer,        \* what SafeTimer::process does next
  event_list,   \* the events it has taken and not called
  evict,        \* what CachePolicy::process does next
  need,         \* its counts: [dirty, evict, flush]
  block_list,   \* the blocks it has left to demote; None is an uninitialised slot
  process_blocks_count,
  background,   \* FLUSH and DEMOTE requests in flight
  run,          \* per block: the request its thread runs, or None
  requests      \* the number of client requests so far

lists == <<clean_lru, dirty_lru>>
timerVars == <<schedule, timer, event_list>>
evictVars == <<evict, need, block_list>>
entryVars == <<status, timeout_comp>>
vars == <<entryVars, live, reuse, lists, timerVars, evictVars, process_blocks_count, background, run, requests>>

Init ==
  /\ status = [b \in Blocks |-> "UNPROMOTED"]
  /\ timeout_comp = [b \in Blocks |-> None]
  /\ live = [p \in Ptrs |-> None]
  /\ reuse \in BOOLEAN
  /\ clean_lru = <<>> /\ dirty_lru = <<>>
  /\ schedule = <<>> /\ timer = "scan" /\ event_list = <<>>
  /\ evict = "dirty_length" /\ need = [dirty |-> 0, evict |-> 0, flush |-> 0] /\ block_list = <<>>
  /\ process_blocks_count = 0
  /\ background = {}
  /\ run = [b \in Blocks |-> None]
  /\ requests = 0

-----------------------------------------------------------------------------
(* The counter that the two producers of background requests share.         *)

\* Mutant: one more is let through.
BelowOrAt(n) == n <= Throttle

\* process_blocks_count < process_threads_num / 2, unsigned
Below(n) == n < Throttle

\* Mutant: the counter is only ever lowered.
NotCounted(n) == n

\* uint64_t: zero less one is the largest value.
Increment(n) == IF n = CountRange - 1 THEN 0 ELSE n + 1

Decrement(n) == IF n = 0 THEN CountRange - 1 ELSE n - 1

\* request_queue->enqueue; n tells equal requests apart.
Enqueue(kind, b) ==
  \E n \in 0..(MaxBackground - 1) :
    LET r(m) == [kind |-> kind, block |-> b, n |-> m]
    IN  /\ r(n) \notin background
        /\ \A m \in 0..(n - 1) : r(m) \in background
        /\ background' = background \cup {r(n)}

-----------------------------------------------------------------------------
(* SafeTimer::process.  map_lock is held from the scan until all callbacks  *)
(* have run.                                                                *)

MapLocked == timer \in {"check", "dozing", "asleep", "enqueue", "count"}

\* The callback of the next event starts; when there is none map_lock is
\* released.
AfterEvents(events, rest) ==
  IF events # <<>> THEN "check" ELSE IF rest = <<>> THEN "unlocked" ELSE "unlocked_timed"

\* The events up to now are taken out of schedule and events; how many those are
\* is left open, also after a timed wait, since the event waited for may have been
\* cancelled.
Scan(n) ==
  LET rest == SubSeq(schedule, n + 1, Len(schedule))
  IN
  /\ timer = "scan"
  /\ n <= Len(schedule)
  /\ event_list' = SubSeq(schedule, 1, n)
  /\ schedule' = rest
  /\ timer' = AfterEvents(event_list', rest)
  /\ UNCHANGED <<entryVars, live, reuse, lists, evictVars, process_blocks_count, background, run>>

\* cond.wait, cond.wait_for: a notification before this is lost.
Wait ==
  /\ \/ timer = "unlocked" /\ timer' = "waiting"
     \/ timer = "unlocked_timed" /\ timer' = "waiting_timed"
  /\ UNCHANGED <<entryVars, live, reuse, lists, schedule, event_list, evictVars,
                 process_blocks_count, background, run>>

TimedOut ==
  /\ timer = "waiting_timed"
  /\ timer' = "scan"
  /\ UNCHANGED <<entryVars, live, reuse, lists, schedule, event_list, evictVars,
                 process_blocks_count, background, run>>

\* The callback waits for dirty_flush_cond; the notifier does not take the lock.
CallbackCheck ==
  /\ timer \in {"check", "dozing"}
  /\ timer' = IF timer = "dozing" THEN "asleep"
              ELSE IF Below(process_blocks_count) THEN "enqueue" ELSE "dozing"
  /\ UNCHANGED <<entryVars, live, reuse, lists, schedule, event_list, evictVars,
                 process_blocks_count, background, run>>

CallbackEnqueue ==
  /\ timer = "enqueue"
  /\ Enqueue("FLUSH", live[Head(event_list)])
  /\ timer' = "count"
  /\ UNCHANGED <<entryVars, live, reuse, lists, schedule, event_list, evictVars,
                 process_blocks_count, run>>

\* The callback returns and the completion deletes itself.
CallbackCount ==
  /\ timer = "count"
  /\ process_blocks_count' = Increment(process_blocks_count)
  /\ live' = [live EXCEPT ![Head(event_list)] = None]
  /\ event_list' = Tail(event_list)
  /\ timer' = AfterEvents(Tail(event_list), schedule)
  /\ UNCHANGED <<entryVars, reuse, lists, schedule, evictVars, background, run>>

Timer ==
  /\ evict # "crashed"
  /\ UNCHANGED requests
  /\ \/ \E n \in 0..Len(schedule) : Scan(n)
     \/ Wait \/ TimedOut \/ CallbackCheck \/ CallbackEnqueue \/ CallbackCount

-----------------------------------------------------------------------------
(* CachePolicy::process, the eviction thread.                               *)

\* The lengths are read one after the other, without the locks of the lists.
DirtyLength ==
  /\ evict = "dirty_length"
  /\ need' = [need EXCEPT !.dirty = Len(dirty_lru)]
  /\ evict' = "clean_length"
  /\ UNCHANGED <<entryVars, live, reuse, lists, timerVars, block_list, process_blocks_count,
                 background, run>>

CleanLength ==
  LET clean == Len(clean_lru)
      count == need.dirty + clean - HealthCount
  IN
  /\ evict = "clean_length"
  /\ IF count <= 0
       THEN evict' = "dirty_length" /\ need' = [need EXCEPT !.dirty = 0]
       ELSE /\ evict' = "dirty_keys"
            /\ need' = [dirty |-> 0, evict |-> count,
                        flush |-> IF count > clean THEN count - clean ELSE 0]
  /\ UNCHANGED <<entryVars, live, reuse, lists, timerVars, block_list, process_blocks_count,
                 background, run>>

\* get_keys(dst, n, false): the n least recent, into n slots of which the last
\* stay as they are when the list is shorter.
get_keys(list, n) == [i \in 1..n |-> IF i <= Len(list) THEN list[Len(list) + 1 - i] ELSE None]

DirtyKeys ==
  /\ evict = "dirty_keys"
  /\ block_list' = get_keys(dirty_lru, need.flush)
  /\ evict' = "clean_keys"
  /\ UNCHANGED <<entryVars, live, reuse, lists, timerVars, need, process_blocks_count,
                 background, run>>

CleanKeys ==
  /\ evict = "clean_keys"
  /\ block_list' = block_list \o get_keys(clean_lru, need.evict - need.flush)
  /\ need' = [dirty |-> 0, evict |-> 0, flush |-> 0]
  /\ evict' = "check"
  /\ UNCHANGED <<entryVars, live, reuse, lists, timerVars, process_blocks_count,
                 background, run>>

\* process_thread_cond, as above.
EvictCheck ==
  /\ evict \in {"check", "dozing"}
  /\ evict' = IF evict = "dozing" THEN "asleep"
              ELSE IF block_list = <<>> THEN "dirty_length"
              ELSE IF Below(process_blocks_count) THEN "enqueue" ELSE "dozing"
  /\ UNCHANGED <<entryVars, live, reuse, lists, timerVars, need, block_list,
                 process_blocks_count, background, run>>

\* An uninitialised slot holds what was left in the memory: a block of an
\* earlier list, or nothing that can be followed.
EvictEnqueue ==
  /\ evict = "enqueue"
  /\ \E b \in Blocks : /\ Head(block_list) \in {b, None}
                       /\ Enqueue("DEMOTE", b)
  /\ evict' = "count"
  /\ UNCHANGED <<entryVars, live, reuse, lists, timerVars, need, block_list,
                 process_blocks_count, run>>

EvictCrash ==
  /\ evict = "enqueue"
  /\ Head(block_list) = None
  /\ evict' = "crashed"
  /\ UNCHANGED <<entryVars, live, reuse, lists, timerVars, need, block_list,
                 process_blocks_count, background, run>>

EvictCount ==
  /\ evict = "count"
  /\ process_blocks_count' = Increment(process_blocks_count)
  /\ block_list' = Tail(block_list)
  /\ evict' = "check"
  /\ UNCHANGED <<entryVars, live, reuse, lists, timerVars, need, background, run>>

Evict ==
  /\ UNCHANGED requests
  /\ \/ DirtyLength \/ CleanLength \/ DirtyKeys \/ CleanKeys
     \/ EvictCheck \/ EvictEnqueue \/ EvictCrash \/ EvictCount

-----------------------------------------------------------------------------
(* The pool threads.                                                        *)

\* Mutant: the old event is cancelled and no new one added.
DirtyOpsNoEvent == <<"leave clean_lru", "to dirty_lru", "cancel_event">>

\* UpdateLRU of a dirty block.
DirtyOps == <<"leave clean_lru", "to dirty_lru", "cancel_event", "add_event_after">>

\* UpdateLRU of a clean block.
CleanOps == <<"delete", "cancel_event", "leave dirty_lru", "to clean_lru">>

\* ResetCacheEntry, and UpdateLRU without a status.
DropOps == <<"ResetCacheEntry", "leave clean_lru", "leave dirty_lru">>

\* The steps of a request, from its map.  A thread that holds no lock another
\* thread wants runs to its next lock of the timer or of a list in one step.
OpsOf(kind, s) ==
  CASE kind = "WRITE" -> DirtyOps
    [] kind = "READ" -> IF s = "PROMOTED_UNFLUSHED" THEN DirtyOps ELSE CleanOps
    [] kind = "FLUSH" -> IF s = "UNPROMOTED" THEN <<>> ELSE CleanOps
    [] kind = "DEMOTE" -> IF s = "UNPROMOTED" THEN <<>> ELSE DropOps

\* Which addresses new may return for block b.
Allocatable(b, p) == live[p] = None /\ (reuse \/ \A c \in Blocks \ {b} : timeout_comp[c] # p)

\* A request with operations starts on an idle block; map made a completion for
\* it, except that those of DEMOTE and of a FLUSH that finds nothing are never
\* used and never freed, and are left out.  For a request that map links behind a
\* running chain it does so earlier; as nobody else learns the address before
\* UpdateLRU, and nobody is given it in the meantime, taking it here allows
\* everything that happens then.
Begin(b, kind, r) ==
  LET ops == OpsOf(kind, status[b])
  IN
  /\ evict # "crashed"
  /\ run[b] = None
  /\ IF kind = "DEMOTE" \/ ops = <<>>
       THEN /\ run' = [run EXCEPT ![b] = [ops |-> ops, def |-> None, background |-> r]]
            /\ UNCHANGED live
       ELSE \E p \in Ptrs :
              /\ Allocatable(b, p)
              /\ run' = [run EXCEPT ![b] = [ops |-> ops, def |-> p, background |-> r]]
              /\ live' = [live EXCEPT ![p] = b]
  /\ UNCHANGED <<entryVars, reuse, lists, timerVars, evictVars, process_blocks_count, background>>

ClientBegin(b) ==
  /\ requests < MaxRequests
  /\ requests' = requests + 1
  /\ \E kind \in {"READ", "WRITE"} : Begin(b, kind, None)

BackgroundBegin(b) == \E r \in background : r.block = b /\ Begin(b, r.kind, r)

Does(b, op) == evict # "crashed" /\ run[b] # None /\ run[b].ops # <<>> /\ Head(run[b].ops) = op
Advance(b) == run' = [run EXCEPT ![b].ops = Tail(@)]

remove(list, b) == SelectSeq(list, LAMBDA x : x # b)
touch_key(list, b) == <<b>> \o remove(list, b)

\* The event of the dropped block stays in the timer.
ResetCacheEntry(b) ==
  /\ Does(b, "ResetCacheEntry")
  /\ status' = [status EXCEPT ![b] = "UNPROMOTED"]
  /\ timeout_comp' = [timeout_comp EXCEPT ![b] = None]
  /\ Advance(b)
  /\ UNCHANGED <<live, reuse, lists, timerVars, evictVars, process_blocks_count, background>>

\* Each list has its own lock: between leaving one and entering the other a block
\* is on neither.
LeaveClean(b) ==
  /\ Does(b, "leave clean_lru")
  /\ clean_lru' = remove(clean_lru, b)
  /\ Advance(b)
  /\ UNCHANGED <<entryVars, live, reuse, dirty_lru, timerVars, evictVars, process_blocks_count,
                 background>>

LeaveDirty(b) ==
  /\ Does(b, "leave dirty_lru")
  /\ dirty_lru' = remove(dirty_lru, b)
  /\ Advance(b)
  /\ UNCHANGED <<entryVars, live, reuse, clean_lru, timerVars, evictVars, process_blocks_count,
                 background>>

\* The status was set by UpdateCacheMeta, just before.
ToDirty(b) ==
  /\ Does(b, "to dirty_lru")
  /\ status' = [status EXCEPT ![b] = "PROMOTED_UNFLUSHED"]
  /\ dirty_lru' = touch_key(dirty_lru, b)
  /\ Advance(b)
  /\ UNCHANGED <<timeout_comp, live, reuse, clean_lru, timerVars, evictVars,
                 process_blocks_count, background>>

ToClean(b) ==
  /\ Does(b, "to clean_lru")
  /\ status' = [status EXCEPT ![b] = "FLUSHED"]
  /\ clean_lru' = touch_key(clean_lru, b)
  /\ Advance(b)
  /\ UNCHANGED <<timeout_comp, live, reuse, dirty_lru, timerVars, evictVars,
                 process_blocks_count, background>>

\* Mutant: cancel_event deletes what it is given, found or not.
CancelAlways(p) == [q \in Ptrs |-> IF q = p THEN None ELSE live[q]]

\* What cancel_event deletes: nothing when the address is not in events.
cancel_event(p) == [q \in Ptrs |-> IF q = p /\ p \in ToSet(schedule) THEN None ELSE live[q]]

\* A clean block needs no event: delete timeout_comp_def.
DeleteDef(b) ==
  /\ Does(b, "delete")
  /\ live' = [live EXCEPT ![run[b].def] = None]
  /\ Advance(b)
  /\ UNCHANGED <<entryVars, reuse, lists, timerVars, evictVars, process_blocks_count, background>>

\* The old completion is cancelled, if the entry names one.  For a dirty block
\* the entry then names the new one, otherwise none.
CancelOld(b) ==
  LET dirty == "add_event_after" \in ToSet(run[b].ops)
  IN
  /\ Does(b, "cancel_event")
  /\ timeout_comp[b] = None \/ ~MapLocked
  /\ schedule' = SelectSeq(schedule, LAMBDA q : q # timeout_comp[b])
  /\ live' = IF timeout_comp[b] = None THEN live ELSE cancel_event(timeout_comp[b])
  /\ timeout_comp' = [timeout_comp EXCEPT ![b] = IF dirty THEN run[b].def ELSE None]
  /\ Advance(b)
  /\ UNCHANGED <<status, reuse, lists, timer, event_list, evictVars, process_blocks_count,
                 background>>

\* add_event_after reads the clock before it takes map_lock, so the event may be
\* due before or after those of other threads.  Only a new first event notifies.
add_event_after(b) ==
  /\ Does(b, "add_event_after")
  /\ ~MapLocked
  /\ \E i \in 1..(Len(schedule) + 1) :
       /\ schedule' = InsertAt(schedule, i, run[b].def)
       /\ timer' = IF i = 1 /\ timer \in {"waiting", "waiting_timed"} THEN "scan" ELSE timer
  /\ Advance(b)
  /\ UNCHANGED <<entryVars, live, reuse, lists, event_list, evictVars, process_blocks_count,
                 background>>

\* The request is complete.  The completion of a background request lowers the
\* counter and wakes the thread that makes requests of its kind.
Complete(b) ==
  LET r == run[b].background
      n == Decrement(process_blocks_count)
  IN
  /\ evict # "crashed"
  /\ run[b] # None /\ run[b].ops = <<>>
  /\ run' = [run EXCEPT ![b] = None]
  /\ IF r = None
       THEN UNCHANGED <<process_blocks_count, background, timer, evict>>
       ELSE /\ process_blocks_count' = n
            /\ background' = background \ {r}
            /\ timer' = IF r.kind = "FLUSH" /\ Below(n) /\ timer = "asleep" THEN "check" ELSE timer
            /\ evict' = IF r.kind = "DEMOTE" /\ Below(n) /\ evict = "asleep" THEN "check" ELSE evict
  /\ UNCHANGED <<entryVars, live, reuse, lists, schedule, event_list, need, block_list>>

Pool(b) ==
  /\ UNCHANGED requests
  /\ \/ BackgroundBegin(b) \/ ResetCacheEntry(b) \/ LeaveClean(b) \/ LeaveDirty(b)
     \/ ToDirty(b) \/ ToClean(b)
     \/ DeleteDef(b) \/ CancelOld(b) \/ add_event_after(b) \/ Complete(b)

Next ==
  \/ Timer
  \/ Evict
  \/ \E b \in Blocks : ClientBegin(b) \/ Pool(b)

Spec == Init /\ [][Next]_vars

\* Every thread is scheduled, and a timed wait ends.
FairSpec ==
  /\ Spec
  /\ WF_vars(Timer)
  /\ WF_vars(Evict)
  /\ \A b \in Blocks : WF_vars(Pool(b))

-----------------------------------------------------------------------------
(* Properties.                                                              *)

\* The timer never calls, cancels or enters a completion that is deleted or
\* already entered (the assertion of add_event_at), though entries keep the
\* address of an event that has fired and cancel it later, when the address may
\* be that of another completion; and a completion that is not entered yet
\* belongs to one request.
TimerSound ==
  /\ \A i, j \in 1..Len(schedule) : schedule[i] = schedule[j] => i = j
  /\ \A p \in ToSet(schedule) \cup ToSet(event_list) : live[p] # None
  /\ ToSet(schedule) \cap ToSet(event_list) = {}
  /\ \A b \in Blocks :
       run[b] # None /\ {"add_event_after", "delete"} \cap ToSet(run[b].ops) # {} =>
         /\ live[run[b].def] = b
         /\ run[b].def \notin ToSet(schedule) \cup ToSet(event_list)

\* The timer and the eviction thread look at the counter, enqueue and count in
\* separate steps; together they have at most one request more in flight than
\* the throttle allows.
ThrottleBound == Cardinality(background) <= Throttle + 1

Uncounted == (IF timer = "count" THEN 1 ELSE 0) + (IF evict = "count" THEN 1 ELSE 0)

\* process_blocks_count is the number of requests in flight, short of those
\* enqueued and not counted yet; when such a request is already complete the
\* unsigned counter is at its largest values.
CountExact ==
  LET n == Cardinality(background) - Uncounted
  IN  process_blocks_count = IF n < 0 THEN n + CountRange ELSE n

\* As long as the allocator does not reuse the address of a fired event that
\* another entry still names, a dirty block at rest is not forgotten: it has an
\* event in the timer, one that is being called, or a flush on its way, however
\* stale the addresses are that UpdateLRU cancels.  When the event is called is
\* another matter.
DirtyHasTimer ==
  ~reuse => \A b \in Blocks : run[b] = None /\ status[b] = "PROMOTED_UNFLUSHED" =>
    \/ \E p \in ToSet(schedule) \cup ToSet(event_list) : live[p] = b
    \/ \E r \in background : r.block = b /\ r.kind = "FLUSH"

\* The callback of an event that waits for a flush in flight goes on to create
\* its own when that flush is complete.
CallbackProceeds ==
  timer = "asleep" /\ (\E r \in background : r.kind = "FLUSH") ~> timer = "enqueue"
=============================================================================
