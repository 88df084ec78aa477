------------------------------- MODULE Volume -------------------------------
(***************************************************************************)
(* What the cache promises: a volume whose blocks answer their requests in *)
(* order, as if there were no cache, no flush and no eviction.  A block    *)
(* applies a request once, some time before it answers it; FLUSH and       *)
(* DEMOTE leave the content alone.  CachePolicy implements this            *)
(* (CachePolicy!VolumeSpec, CachePolicy!CrashVolumeSpec).                  *)
(***************************************************************************)
EXTENDS Integers, Sequences

CONSTANTS Blocks, Sectors, Extents, Payload(_), Written(_), Fill(_), Base, Zero, None

VARIABLES vol,    \* the content of each block
          queue   \* the requests of each block, oldest first

vars == <<vol, queue>>

Init ==
  /\ vol = [b \in Blocks |-> Written(Base)]
  /\ queue = [b \in Blocks |-> <<>>]

Submit(b, t, x, v) ==
  /\ queue' = [queue EXCEPT ![b] = Append(@,
       [io_type |-> t, off |-> x[1], len |-> x[2], val |-> v, stage |-> "waiting", answer |-> None])]
  /\ UNCHANGED vol

First(b) == Head(queue[b])
Replace(b, r) == queue' = [queue EXCEPT ![b] = <<r>> \o Tail(@)]
InFirst(b, s) == First(b).off <= s /\ s < First(b).off + First(b).len

Waiting(b, t) == queue[b] # <<>> /\ First(b).stage = "waiting" /\ First(b).io_type = t

\* Only the sectors of the request change.
ApplyWrite(b) ==
  /\ Waiting(b, "WRITE")
  /\ vol' = [vol EXCEPT ![b] =
       [s \in Sectors |-> IF InFirst(b, s) THEN Written(First(b).val)[s] ELSE @[s]]]
  /\ Replace(b, [First(b) EXCEPT !.stage = "applied"])

ApplyDiscard(b) ==
  /\ Waiting(b, "DISCARD")
  /\ vol' = [vol EXCEPT ![b] = Fill(Zero)]
  /\ Replace(b, [First(b) EXCEPT !.stage = "applied"])

ApplyRead(b) ==
  LET r == First(b)
  IN
  /\ Waiting(b, "READ")
  /\ Replace(b, [r EXCEPT !.stage = "applied",
       !.answer = [i \in Sectors |-> IF i < r.len THEN vol[b][r.off + i] ELSE None]])
  /\ UNCHANGED vol

Answer(b) ==
  /\ queue[b] # <<>>
  /\ \/ First(b).stage = "applied"
     \/ First(b).stage = "waiting" /\ First(b).io_type \in {"FLUSH", "DEMOTE"}
  /\ queue' = [queue EXCEPT ![b] = Tail(@)]
  /\ UNCHANGED vol

\* A request that fails, applied or not, is the last of its block.
Fail(b) ==
  /\ queue[b] # <<>>
  /\ Replace(b, [First(b) EXCEPT !.stage = "failed", !.answer = None])
  /\ UNCHANGED vol

\* A crash forgets the requests, and nothing that was applied.
Crash ==
  /\ queue' = [b \in Blocks |-> <<>>]
  /\ UNCHANGED vol

Serve(b) ==
  \/ \E t \in DOMAIN Extents : \E x \in Extents[t], v \in Payload(t) : Submit(b, t, x, v)
  \/ ApplyWrite(b) \/ ApplyDiscard(b) \/ ApplyRead(b) \/ Answer(b) \/ Fail(b)

Spec == Init /\ [][\E b \in Blocks : Serve(b)]_vars
CrashSpec == Init /\ [][Crash \/ \E b \in Blocks : Serve(b)]_vars
=============================================================================
