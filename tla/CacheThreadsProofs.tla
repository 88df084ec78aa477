------------------------- MODULE CacheThreadsProofs -------------------------
(* The throttle of the background requests, for any number of blocks,       *)
(* addresses and threads.                                                   *)
EXTENDS CacheThreads, FiniteSetTheorems, TLAPS

Op == {"leave clean_lru", "leave dirty_lru", "to dirty_lru", "to clean_lru", "delete",
       "cancel_event", "add_event_after", "ResetCacheEntry"}
Running == [ops : Seq(Op), def : Ptrs \cup {None}, background : background \cup {None}]

\* A producer that was let through and has not enqueued yet.
Admitted == (IF timer = "enqueue" THEN 1 ELSE 0) + (IF evict = "enqueue" THEN 1 ELSE 0)

\* A background request that runs is in flight, on its own block, so that its
\* completion lowers the number in flight by one.
RunsOwn ==
  /\ run \in [Blocks -> Running \cup {None}]
  /\ \A b \in Blocks : run[b] # None /\ run[b].background # None => run[b].background.block = b

\* The inductive invariant: the producers that were let through are counted with
\* the requests in flight.
ThrottleInv ==
  /\ IsFiniteSet(background)
  /\ \A r \in background : r.kind \in {"FLUSH", "DEMOTE"}
  /\ RunsOwn
  /\ CountExact
  /\ Cardinality(background) + Admitted <= Throttle + 1

\* The throttle and its margin are natural numbers.
LEMMA ThrottleNat == Throttle \in Nat /\ CountRange \in Nat /\ CountRange > Throttle + 3
  BY ThreadsAssumption DEF Throttle

\* A request that is enqueued is one more in flight.
LEMMA EnqueueOne ==
  ASSUME IsFiniteSet(background), NEW kind, NEW b, Enqueue(kind, b)
  PROVE  /\ IsFiniteSet(background')
         /\ Cardinality(background') = Cardinality(background) + 1
         /\ background \subseteq background'
  <1>1. PICK n \in 0..(MaxBackground - 1) :
          /\ [kind |-> kind, block |-> b, n |-> n] \notin background
          /\ background' = background \cup {[kind |-> kind, block |-> b, n |-> n]}
    BY DEF Enqueue
  <1>2. QED BY <1>1, FS_AddElement

\* The throttle lets a producer through only when fewer than Throttle requests
\* are in flight, those not counted yet left out.
LEMMA BelowMeansFew ==
  ASSUME CountExact, IsFiniteSet(background), Below(process_blocks_count)
  PROVE  Cardinality(background) - Uncounted < Throttle
  <1>1. Cardinality(background) \in Nat BY FS_CardinalityType
  <1>2. Uncounted \in 0..2 BY DEF Uncounted
  <1> DEFINE f == Cardinality(background)
  <1> HIDE DEF f
  <1>3. process_blocks_count = IF f - Uncounted < 0 THEN f - Uncounted + CountRange ELSE f - Uncounted
    BY DEF CountExact, f
  <1>4. process_blocks_count < Throttle BY DEF Below
  <1>5. f \in Nat BY <1>1 DEF f
  <1>6. f - Uncounted < Throttle BY <1>2, <1>3, <1>4, <1>5, ThrottleNat
  <1>7. QED BY <1>6 DEF f

\* The counters in the terms of the invariant, as numbers.
LEMMA Numbers ==
  ASSUME IsFiniteSet(background)
  PROVE  Cardinality(background) \in Nat /\ Uncounted \in 0..2 /\ Admitted \in 0..2
  BY FS_CardinalityType DEF Uncounted, Admitted

\* A step that leaves the requests, the counter and the positions of the
\* producers around their enqueue alone preserves the invariant.
LEMMA QuietStep ==
  ASSUME ThrottleInv, RunsOwn', background' = background,
         process_blocks_count' = process_blocks_count,
         Uncounted' = Uncounted, Admitted' = Admitted
  PROVE  ThrottleInv'
  BY DEF ThrottleInv, CountExact

\* Nothing the producers do disturbs which requests run.
LEMMA RunsOwnKept ==
  ASSUME RunsOwn, run' = run, background \subseteq background'
  PROVE  RunsOwn'
  <1>1. Running \subseteq Running' BY DEF Running
  <1>2. run' \in [Blocks -> Running' \cup {None}] BY <1>1 DEF RunsOwn
  <1>3. QED BY <1>2 DEF RunsOwn

\* A producer enqueues: one more in flight, one less admitted, one to be counted.
LEMMA EnqueueStep ==
  ASSUME ThrottleInv, run' = run, process_blocks_count' = process_blocks_count,
         Uncounted' = Uncounted + 1, Admitted' = Admitted - 1,
         NEW kind \in {"FLUSH", "DEMOTE"}, NEW b, Enqueue(kind, b)
  PROVE  ThrottleInv'
  <1> DEFINE f == Cardinality(background)
             g == Cardinality(background')
  <1>1. /\ IsFiniteSet(background') /\ g = f + 1 /\ background \subseteq background'
    BY EnqueueOne DEF ThrottleInv
  <1>2. RunsOwn' BY <1>1, RunsOwnKept DEF ThrottleInv
  <1>3. f \in Nat /\ Uncounted \in 0..2 /\ Admitted \in 0..2 BY Numbers DEF ThrottleInv
  <1>4. f + Admitted <= Throttle + 1 BY DEF ThrottleInv
  <1>5. process_blocks_count = IF f - Uncounted < 0 THEN f - Uncounted + CountRange ELSE f - Uncounted
    BY DEF ThrottleInv, CountExact
  <1> HIDE DEF f, g
  <1>6. g - Uncounted' = f - Uncounted BY <1>1, <1>3
  <1>7. g + Admitted' <= Throttle + 1 BY <1>1, <1>3, <1>4, ThrottleNat
  <1>8. CountExact' BY <1>5, <1>6 DEF CountExact, g
  <1>9. \A r \in background' : r.kind \in {"FLUSH", "DEMOTE"}
    <2>1. PICK n : background' = background \cup {[kind |-> kind, block |-> b, n |-> n]}
      BY DEF Enqueue
    <2>2. \A r \in background : r.kind \in {"FLUSH", "DEMOTE"} BY DEF ThrottleInv
    <2>3. QED BY <2>1, <2>2
  <1>10. QED BY <1>1, <1>2, <1>7, <1>8, <1>9 DEF ThrottleInv, g

\* A producer counts the request it enqueued.
LEMMA CountStep ==
  ASSUME ThrottleInv, run' = run, background' = background,
         process_blocks_count' = Increment(process_blocks_count),
         Uncounted' = Uncounted - 1, Uncounted' >= 0, Admitted' = Admitted
  PROVE  ThrottleInv'
  <1> DEFINE f == Cardinality(background)
  <1>1. RunsOwn' BY RunsOwnKept DEF ThrottleInv
  <1>2. f \in Nat /\ Uncounted \in 0..2 /\ Admitted \in 0..2 BY Numbers DEF ThrottleInv
  <1>3. f + Admitted <= Throttle + 1 BY DEF ThrottleInv
  <1>4. process_blocks_count = IF f - Uncounted < 0 THEN f - Uncounted + CountRange ELSE f - Uncounted
    BY DEF ThrottleInv, CountExact
  <1> HIDE DEF f
  <1>5. process_blocks_count' =
          IF f - Uncounted' < 0 THEN f - Uncounted' + CountRange ELSE f - Uncounted'
    BY <1>2, <1>3, <1>4, ThrottleNat DEF Increment
  <1>6. CountExact' BY <1>5 DEF CountExact, f
  <1>7. QED BY <1>1, <1>6 DEF ThrottleInv

\* A timer step preserves the invariant.
LEMMA TimerStep ==
  ASSUME ThrottleInv, Timer
  PROVE  ThrottleInv'
  <1> USE DEF timerVars, evictVars, entryVars, lists
  <1>1. CASE \E n \in 0..Len(schedule) : Scan(n)
    <2>1. timer # "enqueue" /\ timer # "count" /\ timer' # "enqueue" /\ timer' # "count"
      BY <1>1 DEF Scan, AfterEvents
    <2>2. UNCHANGED <<run, background, evict, process_blocks_count>> BY <1>1 DEF Scan
    <2>3. RunsOwn' BY <2>2, RunsOwnKept DEF ThrottleInv
    <2>4. QED BY <2>1, <2>2, <2>3, QuietStep DEF Uncounted, Admitted
  <1>2. CASE Wait \/ TimedOut
    <2>1. timer # "enqueue" /\ timer # "count" /\ timer' # "enqueue" /\ timer' # "count"
      BY <1>2 DEF Wait, TimedOut
    <2>2. UNCHANGED <<run, background, evict, process_blocks_count>> BY <1>2 DEF Wait, TimedOut
    <2>3. RunsOwn' BY <2>2, RunsOwnKept DEF ThrottleInv
    <2>4. QED BY <2>1, <2>2, <2>3, QuietStep DEF Uncounted, Admitted
  <1>3. CASE CallbackCheck
    <2>1. UNCHANGED <<run, background, evict, process_blocks_count>> BY <1>3 DEF CallbackCheck
    <2>2. RunsOwn' BY <2>1, RunsOwnKept DEF ThrottleInv
    <2>3. CASE timer' = "enqueue"
      <3>1. timer = "check" /\ Below(process_blocks_count) BY <1>3, <2>3 DEF CallbackCheck
      <3>2. Cardinality(background) - Uncounted < Throttle BY <3>1, BelowMeansFew DEF ThrottleInv
      <3>3. Uncounted = IF evict = "count" THEN 1 ELSE 0 BY <3>1 DEF Uncounted
      <3>4. Admitted' = 1 + IF evict = "enqueue" THEN 1 ELSE 0 BY <2>1, <2>3 DEF Admitted
      <3>5. Uncounted' = Uncounted BY <2>1, <2>3, <3>1 DEF Uncounted
      <3>6. Uncounted + Admitted' <= 2 BY <3>3, <3>4
      <3>7. Cardinality(background) + Admitted' <= Throttle + 1
        BY <3>2, <3>3, <3>4, <3>6, Numbers, ThrottleNat DEF ThrottleInv
      <3>8. QED BY <2>1, <2>2, <3>5, <3>7 DEF ThrottleInv, CountExact
    <2>4. CASE timer' # "enqueue"
      <3>1. timer # "enqueue" /\ timer # "count" /\ timer' # "count"
        BY <1>3 DEF CallbackCheck
      <3>2. QED BY <2>1, <2>2, <2>4, <3>1, QuietStep DEF Uncounted, Admitted
    <2>5. QED BY <2>3, <2>4
  <1>4. CASE CallbackEnqueue
    <2>1. UNCHANGED <<run, evict, process_blocks_count>> /\ timer = "enqueue" /\ timer' = "count"
      BY <1>4 DEF CallbackEnqueue
    <2>2. PICK b : Enqueue("FLUSH", b) BY <1>4 DEF CallbackEnqueue
    <2>3. Uncounted' = Uncounted + 1 /\ Admitted' = Admitted - 1 BY <2>1 DEF Uncounted, Admitted
    <2>4. QED BY <2>1, <2>2, <2>3, EnqueueStep
  <1>5. CASE CallbackCount
    <2>1. /\ UNCHANGED <<run, evict, background>> /\ timer = "count"
          /\ timer' # "enqueue" /\ timer' # "count"
          /\ process_blocks_count' = Increment(process_blocks_count)
      BY <1>5 DEF CallbackCount, AfterEvents
    <2>2. Uncounted' = Uncounted - 1 /\ Uncounted' >= 0 /\ Admitted' = Admitted
      BY <2>1 DEF Uncounted, Admitted
    <2>3. QED BY <2>1, <2>2, CountStep
  <1>6. QED BY <1>1, <1>2, <1>3, <1>4, <1>5 DEF Timer

\* A step of the eviction thread preserves the invariant.
LEMMA EvictStep ==
  ASSUME ThrottleInv, Evict
  PROVE  ThrottleInv'
  <1> USE DEF timerVars, entryVars, lists
  <1>1. CASE DirtyLength \/ CleanLength \/ DirtyKeys \/ CleanKeys
    <2>1. evict # "enqueue" /\ evict # "count" /\ evict' # "enqueue" /\ evict' # "count"
      BY <1>1 DEF DirtyLength, CleanLength, DirtyKeys, CleanKeys
    <2>2. UNCHANGED <<run, background, timer, process_blocks_count>>
      BY <1>1 DEF DirtyLength, CleanLength, DirtyKeys, CleanKeys
    <2>3. RunsOwn' BY <2>2, RunsOwnKept DEF ThrottleInv
    <2>4. QED BY <2>1, <2>2, <2>3, QuietStep DEF Uncounted, Admitted
  <1>2. CASE EvictCheck
    <2>1. UNCHANGED <<run, background, timer, process_blocks_count>> BY <1>2 DEF EvictCheck
    <2>2. RunsOwn' BY <2>1, RunsOwnKept DEF ThrottleInv
    <2>3. CASE evict' = "enqueue"
      <3>1. evict = "check" /\ Below(process_blocks_count) BY <1>2, <2>3 DEF EvictCheck
      <3>2. Cardinality(background) - Uncounted < Throttle BY <3>1, BelowMeansFew DEF ThrottleInv
      <3>3. Uncounted = IF timer = "count" THEN 1 ELSE 0 BY <3>1 DEF Uncounted
      <3>4. Admitted' = 1 + IF timer = "enqueue" THEN 1 ELSE 0 BY <2>1, <2>3 DEF Admitted
      <3>5. Uncounted' = Uncounted BY <2>1, <2>3, <3>1 DEF Uncounted
      <3>6. Uncounted + Admitted' <= 2 BY <3>3, <3>4
      <3>7. Cardinality(background) + Admitted' <= Throttle + 1
        BY <3>2, <3>3, <3>4, <3>6, Numbers, ThrottleNat DEF ThrottleInv
      <3>8. QED BY <2>1, <2>2, <3>5, <3>7 DEF ThrottleInv, CountExact
    <2>4. CASE evict' # "enqueue"
      <3>1. evict # "enqueue" /\ evict # "count" /\ evict' # "count" BY <1>2 DEF EvictCheck
      <3>2. QED BY <2>1, <2>2, <2>4, <3>1, QuietStep DEF Uncounted, Admitted
    <2>5. QED BY <2>3, <2>4
  <1>3. CASE EvictEnqueue
    <2>1. UNCHANGED <<run, timer, process_blocks_count>> /\ evict = "enqueue" /\ evict' = "count"
      BY <1>3 DEF EvictEnqueue
    <2>2. PICK b : Enqueue("DEMOTE", b) BY <1>3 DEF EvictEnqueue
    <2>3. Uncounted' = Uncounted + 1 /\ Admitted' = Admitted - 1 BY <2>1 DEF Uncounted, Admitted
    <2>4. QED BY <2>1, <2>2, <2>3, EnqueueStep
  <1>4. CASE EvictCrash
    <2>1. UNCHANGED <<run, timer, process_blocks_count, background>>
          /\ evict = "enqueue" /\ evict' = "crashed"
      BY <1>4 DEF EvictCrash
    <2>2. Uncounted' = Uncounted /\ Admitted' = Admitted - 1 BY <2>1 DEF Uncounted, Admitted
    <2>3. RunsOwn' BY <2>1, RunsOwnKept DEF ThrottleInv
    <2>4. Cardinality(background) + Admitted' <= Throttle + 1
      BY <2>2, Numbers, ThrottleNat DEF ThrottleInv
    <2>5. QED BY <2>1, <2>2, <2>3, <2>4 DEF ThrottleInv, CountExact
  <1>5. CASE EvictCount
    <2>1. /\ UNCHANGED <<run, timer, background>> /\ evict = "count" /\ evict' = "check"
          /\ process_blocks_count' = Increment(process_blocks_count)
      BY <1>5 DEF EvictCount
    <2>2. Uncounted' = Uncounted - 1 /\ Uncounted' >= 0 /\ Admitted' = Admitted
      BY <2>1 DEF Uncounted, Admitted
    <2>3. QED BY <2>1, <2>2, CountStep
  <1>6. QED BY <1>1, <1>2, <1>3, <1>4, <1>5 DEF Evict

\* Starting a request on an idle block keeps the invariant.
LEMMA BeginStep ==
  ASSUME ThrottleInv, NEW b \in Blocks, NEW kind \in {"READ", "WRITE", "FLUSH", "DEMOTE"},
         NEW r \in background \cup {None}, r # None => r.block = b, Begin(b, kind, r)
  PROVE  ThrottleInv'
  <1>1. UNCHANGED <<timer, evict, background, process_blocks_count>>
    BY DEF Begin, timerVars, evictVars
  <1>2. PICK p \in Ptrs \cup {None} :
          run' = [run EXCEPT ![b] = [ops |-> OpsOf(kind, status[b]), def |-> p, background |-> r]]
    BY DEF Begin
  <1>3. OpsOf(kind, status[b]) \in Seq(Op)
    <2>1. DirtyOps \in Seq(Op) BY DEF DirtyOps, Op
    <2>2. CleanOps \in Seq(Op) BY DEF CleanOps, Op
    <2>3. <<>> \in Seq(Op) /\ DropOps \in Seq(Op) BY DEF DropOps, Op
    <2>4. QED BY <2>1, <2>2, <2>3 DEF OpsOf
  <1> DEFINE q == [ops |-> OpsOf(kind, status[b]), def |-> p, background |-> r]
  <1>4. q \in Running' BY <1>1, <1>3 DEF Running
  <1>5. Running' = Running BY <1>1 DEF Running
  <1>6. q.background = r OBVIOUS
  <1> HIDE DEF q
  <1>7. run' = [run EXCEPT ![b] = q] BY <1>2 DEF q
  <1>8. run' \in [Blocks -> Running' \cup {None}] BY <1>4, <1>5, <1>7 DEF ThrottleInv, RunsOwn
  <1>9. \A c \in Blocks : run'[c] # None /\ run'[c].background # None => run'[c].background.block = c
    BY <1>6, <1>7 DEF ThrottleInv, RunsOwn
  <1>10. RunsOwn' BY <1>8, <1>9 DEF RunsOwn
  <1>11. QED BY <1>1, <1>10, QuietStep DEF Uncounted, Admitted

\* A step of the request on one block keeps the invariant.
LEMMA AdvanceStep ==
  ASSUME ThrottleInv, NEW b \in Blocks, run[b] # None, run[b].ops # <<>>, Advance(b),
         background' = background, process_blocks_count' = process_blocks_count,
         evict' = evict, timer' # timer => timer' = "scan" /\ timer \in {"waiting", "waiting_timed"}
  PROVE  ThrottleInv'
  <1> DEFINE q == [run[b] EXCEPT !.ops = Tail(@)]
  <1>1. run[b] \in Running BY DEF ThrottleInv, RunsOwn
  <1>2. Tail(run[b].ops) \in Seq(Op)
    <2>1. PICK o \in Seq(Op) : o = run[b].ops BY <1>1 DEF Running
    <2>2. Tail(o) \in Seq(Op) BY <2>1
    <2>3. QED BY <2>1, <2>2
  <1>3. q \in Running /\ q.background = run[b].background BY <1>1, <1>2 DEF Running
  <1>4. Running' = Running BY DEF Running
  <1>5. run' = [run EXCEPT ![b] = q] BY DEF Advance
  <1> HIDE DEF q
  <1>6. run' \in [Blocks -> Running' \cup {None}] BY <1>3, <1>4, <1>5 DEF ThrottleInv, RunsOwn
  <1>7. \A c \in Blocks : run'[c] # None /\ run'[c].background # None => run'[c].background.block = c
    BY <1>3, <1>5 DEF ThrottleInv, RunsOwn
  <1>8. RunsOwn' BY <1>6, <1>7 DEF RunsOwn
  <1>9. QED BY <1>8, QuietStep DEF Uncounted, Admitted

\* The completion of a request keeps the invariant: it takes its own request out
\* of those in flight and lowers the counter by one.
LEMMA CompleteStep ==
  ASSUME ThrottleInv, NEW b \in Blocks, Complete(b)
  PROVE  ThrottleInv'
  <1>1. run' = [run EXCEPT ![b] = None] /\ run[b] # None BY DEF Complete
  <1>2. run[b] \in Running BY <1>1 DEF ThrottleInv, RunsOwn
  <1>3. PICK r \in background \cup {None} : r = run[b].background BY <1>2 DEF Running
  <1>4. \A c \in Blocks : run'[c] # None => c # b /\ run'[c] = run[c]
    BY <1>1 DEF ThrottleInv, RunsOwn
  <1>5. \A c \in Blocks : run'[c] # None /\ run'[c].background # None => run'[c].background.block = c
    BY <1>4 DEF ThrottleInv, RunsOwn
  <1>6. CASE r = None
    <2>1. UNCHANGED <<timer, evict, background, process_blocks_count>> BY <1>3, <1>6 DEF Complete
    <2>2. Running' = Running BY <2>1 DEF Running
    <2>3. run' \in [Blocks -> Running' \cup {None}] BY <1>1, <2>2 DEF ThrottleInv, RunsOwn
    <2>4. RunsOwn' BY <1>5, <2>3 DEF RunsOwn
    <2>5. QED BY <2>1, <2>4, QuietStep DEF Uncounted, Admitted
  <1>7. CASE r # None
    <2>1. /\ background' = background \ {r} /\ r \in background
          /\ process_blocks_count' = Decrement(process_blocks_count)
      BY <1>3, <1>7 DEF Complete
    <2>2. Uncounted' = Uncounted /\ Admitted' = Admitted
      BY <1>3, <1>7 DEF Complete, Uncounted, Admitted
    <2>3. \A c \in Blocks \ {b} : run[c] # None => run[c] \in Running'
      <3>1. SUFFICES ASSUME NEW c \in Blocks \ {b}, run[c] # None PROVE run[c] \in Running'
        OBVIOUS
      <3>2. run[c] \in Running BY <3>1 DEF ThrottleInv, RunsOwn
      <3>3. r.block = b BY <1>1, <1>3, <1>7 DEF ThrottleInv, RunsOwn
      <3>4. run[c].background # None => run[c].background.block = c
        BY <3>1 DEF ThrottleInv, RunsOwn
      <3>5. run[c].background \in background' \cup {None} BY <2>1, <3>2, <3>3, <3>4 DEF Running
      <3>6. QED BY <3>2, <3>5 DEF Running
    <2>4. run' \in [Blocks -> Running' \cup {None}] BY <1>1, <2>3 DEF ThrottleInv, RunsOwn
    <2>5. RunsOwn' BY <1>5, <2>4 DEF RunsOwn
    <2> DEFINE f == Cardinality(background)
               g == Cardinality(background')
    <2>6. IsFiniteSet(background') /\ g = f - 1 BY <2>1, FS_RemoveElement DEF ThrottleInv
    <2>7. f \in Nat /\ g \in Nat /\ Uncounted \in 0..2 /\ Admitted \in 0..2
      BY <2>6, Numbers, FS_CardinalityType DEF ThrottleInv
    <2>8. f + Admitted <= Throttle + 1 BY DEF ThrottleInv
    <2>9. process_blocks_count = IF f - Uncounted < 0 THEN f - Uncounted + CountRange ELSE f - Uncounted
      BY DEF ThrottleInv, CountExact
    <2> HIDE DEF f, g
    <2>10. Decrement(process_blocks_count) =
             IF g - Uncounted < 0 THEN g - Uncounted + CountRange ELSE g - Uncounted
      BY <2>6, <2>7, <2>8, <2>9, ThrottleNat DEF Decrement
    <2>11. CountExact' BY <2>1, <2>2, <2>10 DEF CountExact, g
    <2>12. g + Admitted' <= Throttle + 1 BY <2>2, <2>6, <2>7, <2>8, ThrottleNat
    <2>13. \A q \in background' : q.kind \in {"FLUSH", "DEMOTE"} BY <2>1 DEF ThrottleInv
    <2>14. QED BY <2>5, <2>6, <2>11, <2>12, <2>13 DEF ThrottleInv, g
  <1>8. QED BY <1>6, <1>7

\* A step of a pool thread, or of a client, preserves the invariant.
LEMMA PoolStep ==
  ASSUME ThrottleInv, NEW b \in Blocks, ClientBegin(b) \/ Pool(b)
  PROVE  ThrottleInv'
  <1> USE DEF timerVars, evictVars
  <1>1. CASE ClientBegin(b)
    <2>1. PICK kind \in {"READ", "WRITE"} : Begin(b, kind, None) BY <1>1 DEF ClientBegin
    <2>2. QED BY <2>1, BeginStep
  <1>2. CASE BackgroundBegin(b)
    <2>1. PICK r \in background : r.block = b /\ Begin(b, r.kind, r) BY <1>2 DEF BackgroundBegin
    <2>2. r.kind \in {"READ", "WRITE", "FLUSH", "DEMOTE"} BY DEF ThrottleInv
    <2>3. QED BY <2>1, <2>2, BeginStep
  <1>3. CASE ResetCacheEntry(b)
    BY <1>3, AdvanceStep DEF ResetCacheEntry, Does
  <1>4. CASE ToDirty(b)
    BY <1>4, AdvanceStep DEF ToDirty, Does
  <1>5. CASE ToClean(b)
    BY <1>5, AdvanceStep DEF ToClean, Does
  <1>6. CASE CancelOld(b)
    BY <1>6, AdvanceStep DEF CancelOld, Does
  <1>7. CASE add_event_after(b)
    BY <1>7, AdvanceStep DEF add_event_after, Does
  <1>8. CASE DeleteDef(b)
    BY <1>8, AdvanceStep DEF DeleteDef, Does
  <1>9. CASE Complete(b)
    BY <1>9, CompleteStep
  <1>10. CASE LeaveClean(b)
    BY <1>10, AdvanceStep DEF LeaveClean, Does
  <1>11. CASE LeaveDirty(b)
    BY <1>11, AdvanceStep DEF LeaveDirty, Does
  <1>12. QED BY <1>1, <1>2, <1>3, <1>4, <1>5, <1>6, <1>7, <1>8, <1>9, <1>10, <1>11 DEF Pool

\* The inductive invariant holds in every reachable state.
THEOREM ThrottleInductive == Spec => []ThrottleInv
  <1>1. Init => ThrottleInv
    <2> SUFFICES ASSUME Init PROVE ThrottleInv OBVIOUS
    <2>1. IsFiniteSet(background) /\ Cardinality(background) = 0 BY FS_EmptySet DEF Init
    <2>2. Uncounted = 0 /\ Admitted = 0 BY DEF Init, Uncounted, Admitted
    <2>3. RunsOwn BY DEF Init, RunsOwn
    <2>4. process_blocks_count = 0 BY DEF Init
    <2>5. CountExact BY <2>1, <2>2, <2>4 DEF CountExact
    <2>6. \A r \in background : r.kind \in {"FLUSH", "DEMOTE"} BY DEF Init
    <2>7. Cardinality(background) + Admitted <= Throttle + 1 BY <2>1, <2>2, ThrottleNat
    <2>8. QED BY <2>1, <2>3, <2>5, <2>6, <2>7 DEF ThrottleInv
  <1>2. ThrottleInv /\ [Next]_vars => ThrottleInv'
    <2> SUFFICES ASSUME ThrottleInv, [Next]_vars PROVE ThrottleInv' OBVIOUS
    <2>1. CASE Timer BY <2>1, TimerStep
    <2>2. CASE Evict BY <2>2, EvictStep
    <2>3. CASE \E b \in Blocks : ClientBegin(b) \/ Pool(b) BY <2>3, PoolStep
    <2>4. CASE UNCHANGED vars
      <3>1. UNCHANGED <<run, background, timer, evict, process_blocks_count>>
        BY <2>4 DEF vars, timerVars, evictVars
      <3>2. RunsOwn' BY <3>1, RunsOwnKept DEF ThrottleInv
      <3>3. QED BY <3>1, <3>2, QuietStep DEF Uncounted, Admitted
    <2>5. QED BY <2>1, <2>2, <2>3, <2>4 DEF Next
  <1>3. QED BY <1>1, <1>2, PTL DEF Spec

\* The timer and the eviction thread check process_blocks_count, enqueue and count
\* without a common lock, and still never have more than one background request
\* too many in flight, whatever the number of threads and blocks.
THEOREM ThrottleHolds == Spec => []ThrottleBound
  <1>1. ThrottleInv => ThrottleBound
    <2> SUFFICES ASSUME ThrottleInv PROVE ThrottleBound OBVIOUS
    <2>1. QED BY Numbers, ThrottleNat DEF ThrottleInv, ThrottleBound
  <1>2. QED BY <1>1, ThrottleInductive, PTL

\* process_blocks_count, raised after the enqueue and lowered by completions, is
\* the number of background requests in flight short of those not counted yet.
THEOREM CounterExact == Spec => []CountExact
  <1>1. ThrottleInv => CountExact BY DEF ThrottleInv
  <1>2. QED BY <1>1, ThrottleInductive, PTL
=============================================================================
