--------------------------- MODULE HDCSCoreProofs ---------------------------
(***************************************************************************)
(* Proofs about the request pipeline, for any number of requests, blocks   *)
(* and pool threads.                                                       *)
(***************************************************************************)
EXTENDS HDCSCore, FiniteSetTheorems, TLAPS

-----------------------------------------------------------------------------
(* Membership in block_request_list and in a block's chains.               *)

DistinctList(s) ==
  \A i, j \in 1..Len(s) : s[i].req = s[j].req /\ s[i].block = s[j].block => i = j
DistinctChain(q) == \A i, j \in 1..Len(q) : q[i].req = q[j].req => i = j

\* Appending to block_request_list adds exactly the new pair.
LEMMA ListAppend ==
  ASSUME NEW s \in Seq(BlockRequest), NEW x \in BlockRequest, NEW r, NEW b
  PROVE  InList(Append(s, x), r, b) <=> InList(s, r, b) \/ (x.req = r /\ x.block = b)
<1>1. ASSUME InList(Append(s, x), r, b)
      PROVE  InList(s, r, b) \/ (x.req = r /\ x.block = b)
  BY <1>1 DEF InList
<1>2. ASSUME InList(s, r, b)
      PROVE  InList(Append(s, x), r, b)
  <2>1. PICK i \in 1..Len(s) : s[i].req = r /\ s[i].block = b
    BY <1>2 DEF InList
  <2>2. i \in 1..Len(Append(s, x)) /\ Append(s, x)[i] = s[i]
    OBVIOUS
  <2> QED BY <2>1, <2>2 DEF InList
<1>3. ASSUME x.req = r, x.block = b
      PROVE  InList(Append(s, x), r, b)
  <2>1. Len(s) + 1 \in 1..Len(Append(s, x)) /\ Append(s, x)[Len(s) + 1] = x
    OBVIOUS
  <2> QED BY <1>3, <2>1 DEF InList
<1> QED BY <1>1, <1>2, <1>3

\* Dropping the head of a list without duplicates drops exactly its pair.
LEMMA ListTail ==
  ASSUME NEW s \in Seq(BlockRequest), s # <<>>, DistinctList(s), NEW r, NEW b
  PROVE  /\ InList(Tail(s), r, b)
              <=> InList(s, r, b) /\ ~(Head(s).req = r /\ Head(s).block = b)
         /\ DistinctList(Tail(s))
<1>0. /\ Len(s) \in Nat \ {0}
      /\ Head(s) = s[1]
      /\ Len(Tail(s)) = Len(s) - 1
      /\ \A i \in 1..(Len(s) - 1) : Tail(s)[i] = s[i + 1]
  OBVIOUS
<1>1. ASSUME InList(Tail(s), r, b)
      PROVE  InList(s, r, b) /\ ~(Head(s).req = r /\ Head(s).block = b)
  <2>1. PICK i \in 1..(Len(s) - 1) : s[i + 1].req = r /\ s[i + 1].block = b
    BY <1>0, <1>1 DEF InList
  <2>2. i + 1 \in 1..Len(s) /\ 1 \in 1..Len(s) /\ i + 1 # 1
    BY <1>0
  <2> QED BY <1>0, <2>1, <2>2 DEF InList, DistinctList
<1>2. ASSUME InList(s, r, b), ~(Head(s).req = r /\ Head(s).block = b)
      PROVE  InList(Tail(s), r, b)
  <2>1. PICK i \in 1..Len(s) : s[i].req = r /\ s[i].block = b
    BY <1>2 DEF InList
  <2>2. i # 1
    BY <1>0, <1>2, <2>1
  <2>3. i - 1 \in 1..(Len(s) - 1) /\ Tail(s)[i - 1] = s[i]
    BY <1>0, <2>2
  <2> QED BY <1>0, <2>1, <2>3 DEF InList
<1>3. DistinctList(Tail(s))
  <2> SUFFICES ASSUME NEW i \in 1..(Len(s) - 1), NEW j \in 1..(Len(s) - 1),
                      s[i + 1].req = s[j + 1].req, s[i + 1].block = s[j + 1].block
               PROVE  i = j
    BY <1>0 DEF DistinctList
  <2>1. i + 1 \in 1..Len(s) /\ j + 1 \in 1..Len(s)
    BY <1>0
  <2>2. i + 1 = j + 1
    BY <2>1 DEF DistinctList
  <2> QED BY <2>2
<1> QED BY <1>1, <1>2, <1>3

\* Concatenation joins the pairs of the two lists.
LEMMA ListConcat ==
  ASSUME NEW s \in Seq(BlockRequest), NEW t \in Seq(BlockRequest), NEW r, NEW b
  PROVE  InList(s \o t, r, b) <=> InList(s, r, b) \/ InList(t, r, b)
<1>0. /\ Len(s) \in Nat /\ Len(t) \in Nat
      /\ Len(s \o t) = Len(s) + Len(t)
      /\ \A i \in 1..(Len(s) + Len(t)) :
           (s \o t)[i] = IF i <= Len(s) THEN s[i] ELSE t[i - Len(s)]
  OBVIOUS
<1>1. ASSUME InList(s \o t, r, b)
      PROVE  InList(s, r, b) \/ InList(t, r, b)
  <2>1. PICK i \in 1..(Len(s) + Len(t)) : (s \o t)[i].req = r /\ (s \o t)[i].block = b
    BY <1>0, <1>1 DEF InList
  <2>2. CASE i <= Len(s)
    BY <1>0, <2>1, <2>2 DEF InList
  <2>3. CASE i > Len(s)
    <3>1. i - Len(s) \in 1..Len(t) /\ (s \o t)[i] = t[i - Len(s)]
      BY <1>0, <2>3
    <3> QED BY <2>1, <3>1 DEF InList
  <2> QED BY <1>0, <2>2, <2>3
<1>2. ASSUME InList(s, r, b)
      PROVE  InList(s \o t, r, b)
  <2>1. PICK i \in 1..Len(s) : s[i].req = r /\ s[i].block = b
    BY <1>2 DEF InList
  <2>2. i \in 1..(Len(s) + Len(t)) /\ (s \o t)[i] = s[i]
    BY <1>0
  <2> QED BY <1>0, <2>1, <2>2 DEF InList
<1>3. ASSUME InList(t, r, b)
      PROVE  InList(s \o t, r, b)
  <2>1. PICK i \in 1..Len(t) : t[i].req = r /\ t[i].block = b
    BY <1>3 DEF InList
  <2>2. i + Len(s) \in 1..(Len(s) + Len(t)) /\ (s \o t)[i + Len(s)] = t[i]
    BY <1>0
  <2> QED BY <1>0, <2>1, <2>2 DEF InList
<1> QED BY <1>1, <1>2, <1>3

\* A pair that is not yet in a list can be appended without a duplicate.
LEMMA ListAppendDistinct ==
  ASSUME NEW s \in Seq(BlockRequest), NEW x \in BlockRequest,
         DistinctList(s), ~InList(s, x.req, x.block)
  PROVE  DistinctList(Append(s, x))
<1>1. /\ Len(s) \in Nat /\ Len(Append(s, x)) = Len(s) + 1
      /\ \A i \in 1..(Len(s) + 1) : Append(s, x)[i] = IF i = Len(s) + 1 THEN x ELSE s[i]
  OBVIOUS
<1> QED BY <1>1 DEF DistinctList, InList

\* Two lists without common pairs concatenate without a duplicate.
LEMMA ListConcatDistinct ==
  ASSUME NEW s \in Seq(BlockRequest), NEW t \in Seq(BlockRequest),
         DistinctList(s), DistinctList(t),
         \A r, b : ~(InList(s, r, b) /\ InList(t, r, b))
  PROVE  DistinctList(s \o t)
<1>0. /\ Len(s) \in Nat /\ Len(t) \in Nat
      /\ Len(s \o t) = Len(s) + Len(t)
      /\ \A i \in 1..(Len(s) + Len(t)) :
           (s \o t)[i] = IF i <= Len(s) THEN s[i] ELSE t[i - Len(s)]
  OBVIOUS
<1> SUFFICES ASSUME NEW i \in 1..(Len(s) + Len(t)), NEW j \in 1..(Len(s) + Len(t)),
                    (s \o t)[i].req = (s \o t)[j].req,
                    (s \o t)[i].block = (s \o t)[j].block
             PROVE  i = j
  BY <1>0 DEF DistinctList
<1>1. CASE i <= Len(s) /\ j <= Len(s)
  BY <1>0, <1>1 DEF DistinctList
<1>2. CASE i > Len(s) /\ j > Len(s)
  <2>1. /\ i - Len(s) \in 1..Len(t) /\ (s \o t)[i] = t[i - Len(s)]
        /\ j - Len(s) \in 1..Len(t) /\ (s \o t)[j] = t[j - Len(s)]
    BY <1>0, <1>2
  <2>2. i - Len(s) = j - Len(s)
    BY <2>1 DEF DistinctList
  <2> QED BY <1>0, <2>2
<1>3. ASSUME NEW k \in 1..(Len(s) + Len(t)), NEW l \in 1..(Len(s) + Len(t)),
             k <= Len(s), l > Len(s),
             (s \o t)[k].req = (s \o t)[l].req, (s \o t)[k].block = (s \o t)[l].block
      PROVE  FALSE
  <2>1. k \in 1..Len(s) /\ (s \o t)[k] = s[k]
    BY <1>0, <1>3
  <2>2. l - Len(s) \in 1..Len(t) /\ (s \o t)[l] = t[l - Len(s)]
    BY <1>0, <1>3
  <2>3. InList(s, s[k].req, s[k].block)
    BY <2>1 DEF InList
  <2>4. InList(t, s[k].req, s[k].block)
    BY <1>3, <2>1, <2>2 DEF InList
  <2> QED BY <2>3, <2>4
<1> QED BY <1>0, <1>1, <1>2, <1>3

\* Linking a chain behind block_ops_end adds exactly its request.
LEMMA ChainAppend ==
  ASSUME NEW q \in Seq(Chain), NEW x \in Chain, NEW r
  PROVE  /\ InChain(Append(q, x), r) <=> InChain(q, r) \/ x.req = r
         /\ DistinctChain(q) /\ ~InChain(q, x.req) => DistinctChain(Append(q, x))
<1>0. /\ Len(q) \in Nat /\ Len(Append(q, x)) = Len(q) + 1
      /\ \A i \in 1..(Len(q) + 1) : Append(q, x)[i] = IF i = Len(q) + 1 THEN x ELSE q[i]
  OBVIOUS
<1>1. ASSUME InChain(q, r) PROVE InChain(Append(q, x), r)
  <2>1. PICK i \in 1..Len(q) : q[i].req = r
    BY <1>1 DEF InChain
  <2>2. i \in 1..(Len(q) + 1) /\ Append(q, x)[i] = q[i]
    BY <1>0
  <2> QED BY <1>0, <2>1, <2>2 DEF InChain
<1>2. ASSUME x.req = r PROVE InChain(Append(q, x), r)
  <2>1. Len(q) + 1 \in 1..(Len(q) + 1) /\ Append(q, x)[Len(q) + 1] = x
    BY <1>0
  <2> QED BY <1>0, <1>2, <2>1 DEF InChain
<1>3. ASSUME InChain(Append(q, x), r) PROVE InChain(q, r) \/ x.req = r
  BY <1>0, <1>3 DEF InChain
<1>4. DistinctChain(q) /\ ~InChain(q, x.req) => DistinctChain(Append(q, x))
  BY <1>0 DEF DistinctChain, InChain
<1> QED BY <1>1, <1>2, <1>3, <1>4

\* Finishing the running chain removes exactly its request.
LEMMA ChainTail ==
  ASSUME NEW q \in Seq(Chain), q # <<>>, DistinctChain(q), NEW r
  PROVE  /\ InChain(q, Head(q).req)
         /\ InChain(Tail(q), r) <=> InChain(q, r) /\ r # Head(q).req
         /\ DistinctChain(Tail(q))
<1>0. /\ Len(q) \in Nat \ {0}
      /\ Head(q) = q[1] /\ 1 \in 1..Len(q)
      /\ Len(Tail(q)) = Len(q) - 1
      /\ \A i \in 1..(Len(q) - 1) : Tail(q)[i] = q[i + 1] /\ i + 1 \in 1..Len(q)
  OBVIOUS
<1>1. InChain(q, Head(q).req)
  BY <1>0 DEF InChain
<1>2. ASSUME InChain(Tail(q), r) PROVE InChain(q, r) /\ r # Head(q).req
  <2>1. PICK i \in 1..(Len(q) - 1) : q[i + 1].req = r
    BY <1>0, <1>2 DEF InChain
  <2>2. i + 1 # 1
    OBVIOUS
  <2> QED BY <1>0, <2>1, <2>2 DEF InChain, DistinctChain
<1>3. ASSUME InChain(q, r), r # Head(q).req PROVE InChain(Tail(q), r)
  <2>1. PICK i \in 1..Len(q) : q[i].req = r
    BY <1>3 DEF InChain
  <2>2. i # 1
    BY <1>0, <1>3, <2>1
  <2>3. i - 1 \in 1..(Len(q) - 1) /\ Tail(q)[i - 1] = q[i]
    BY <1>0, <2>2
  <2> QED BY <1>0, <2>1, <2>3 DEF InChain
<1>4. DistinctChain(Tail(q))
  <2> SUFFICES ASSUME NEW i \in 1..(Len(q) - 1), NEW j \in 1..(Len(q) - 1),
                      q[i + 1].req = q[j + 1].req
               PROVE  i = j
    BY <1>0 DEF DistinctChain
  <2>1. i + 1 = j + 1
    BY <1>0 DEF DistinctChain
  <2> QED BY <2>1
<1> QED BY <1>1, <1>2, <1>3, <1>4

\* The entry the iterator of process_request points at is a block request.
LEMMA ListHead ==
  ASSUME NEW s \in Seq(BlockRequest), s # <<>>
  PROVE  /\ Head(s) \in BlockRequest
         /\ Head(s).req \in Requests /\ Head(s).block \in Blocks
         /\ InList(s, Head(s).req, Head(s).block)
<1>1. 1 \in 1..Len(s) /\ Head(s) = s[1] /\ s[1] \in BlockRequest
  OBVIOUS
<1> QED BY <1>1 DEF BlockRequest, InList

\* Linking a chain leaves the running chain first and puts the new one last.
LEMMA ChainEnds ==
  ASSUME NEW q \in Seq(Chain), NEW x \in Chain
  PROVE  /\ Append(q, x) \in Seq(Chain) /\ Append(q, x) # <<>>
         /\ Append(q, x)[Len(Append(q, x))] = x
         /\ q # <<>> => Head(Append(q, x)) = Head(q)
<1>1. Append(q, x) \in Seq(Chain) /\ Len(Append(q, x)) = Len(q) + 1 /\ Len(q) \in Nat
  OBVIOUS
<1>2. Append(q, x)[Len(q) + 1] = x
  OBVIOUS
<1>3. ASSUME q # <<>> PROVE Head(Append(q, x)) = Head(q)
  BY <1>3
<1>4. Append(q, x) # <<>>
  BY <1>1
<1> QED BY <1>1, <1>2, <1>3, <1>4

-----------------------------------------------------------------------------
(* The inductive invariant.                                                *)

\* A thread that is not idle has a block and a request at hand, and while it
\* runs a chain it is the first one of its block.
WorkerOK ==
  \A w \in Workers :
    /\ worker[w].pc # "idle" => worker[w].block \in Blocks /\ worker[w].req \in Requests
    /\ worker[w].pc \in {"op", "release", "complete"} =>
         worker[w].req = Head(chain[worker[w].block]).req

\* request_queue holds queued requests, each once.
QueueOK ==
  /\ \A i \in 1..Len(request_queue) : rstate[request_queue[i]] = "queued"
  /\ \A i, j \in 1..Len(request_queue) : request_queue[i] = request_queue[j] => i = j

\* A block request is in one place at a time, once.
Places ==
  /\ DistinctList(todo)
  /\ DistinctList(deferred)
  /\ \A b \in Blocks : DistinctChain(chain[b])
  /\ \A r \in Requests, b \in Blocks :
       /\ ~(InList(todo, r, b) /\ InList(deferred, r, b))
       /\ InChain(chain[b], r) => ~InList(todo, r, b) /\ ~InList(deferred, r, b)
       /\ \A w \in Workers : Acks(w, r, b) =>
            /\ ~InList(todo, r, b) /\ ~InList(deferred, r, b) /\ ~InChain(chain[b], r)
            /\ \A v \in Workers : Acks(v, r, b) => v = w

IInv ==
  /\ TypeOK
  /\ WorkerOK
  /\ QueueOK
  /\ Places
  /\ SingleRunner
  /\ PendingExact
  /\ NoUseAfterComplete
  /\ DiscardLocksBlock

\* A step that leaves the jobs, the chains and the owner of every block alone
\* leaves every block with one owner.
LEMMA RunnerSame ==
  ASSUME SingleRunner, UNCHANGED <<in_process, chain, job_queue>>,
         \A v \in Workers, b \in Blocks : Runs(v, b)' <=> Runs(v, b)
  PROVE  SingleRunner'
<1> SUFFICES ASSUME NEW b \in Blocks
             PROVE  /\ \A v, w \in Workers : Runs(v, b)' /\ Runs(w, b)' => v = w
                    /\ \A i, j \in 1..Len(job_queue) :
                         job_queue[i] = b /\ job_queue[j] = b => i = j
                    /\ \A w \in Workers, i \in 1..Len(job_queue) :
                         ~(Runs(w, b)' /\ job_queue[i] = b)
                    /\ ~in_process[b] => chain[b] = <<>>
                    /\ \A w \in Workers : Runs(w, b)' => in_process[b] /\ chain[b] # <<>>
                    /\ \A i \in 1..Len(job_queue) :
                         job_queue[i] = b => in_process[b] /\ chain[b] # <<>>
  BY DEF SingleRunner
<1>1. \A w \in Workers : Runs(w, b)' <=> Runs(w, b)
  OBVIOUS
<1>2. /\ \A v, w \in Workers : Runs(v, b) /\ Runs(w, b) => v = w
      /\ \A w \in Workers : Runs(w, b) => in_process[b] /\ chain[b] # <<>>
      /\ \A w \in Workers, i \in 1..Len(job_queue) : ~(Runs(w, b) /\ job_queue[i] = b)
  BY Zenon DEF SingleRunner
<1>3. /\ \A i, j \in 1..Len(job_queue) : job_queue[i] = b /\ job_queue[j] = b => i = j
      /\ ~in_process[b] => chain[b] = <<>>
      /\ \A i \in 1..Len(job_queue) : job_queue[i] = b => in_process[b] /\ chain[b] # <<>>
  BY Zenon DEF SingleRunner
<1> QED BY <1>1, <1>2, <1>3, Zenon

\* The initial state satisfies the invariant.
LEMMA InitIInv == Init => IInv
<1> SUFFICES ASSUME Init PROVE IInv
  OBVIOUS
<1>1. TypeOK
  BY BlocksAssumption DEF Init, TypeOK, WorkerState, Idle
<1>2. WorkerOK /\ QueueOK /\ SingleRunner /\ DiscardLocksBlock
  BY DEF Init, WorkerOK, QueueOK, SingleRunner, DiscardLocksBlock, Runs, Idle
<1>3. Places /\ PendingExact /\ NoUseAfterComplete
  BY DEF Init, Places, PendingExact, NoUseAfterComplete, InFlight, InList, InChain,
         Acks, Idle, DistinctList, DistinctChain
<1> QED BY <1>1, <1>2, <1>3 DEF IInv

-----------------------------------------------------------------------------
(* What a step does to the count of a request.                             *)

\* A step that moves block requests without finishing any, and leaves the
\* requests alone, keeps the counts exact.
LEMMA FlightSame ==
  ASSUME PendingExact, NoUseAfterComplete,
         rstate' = rstate, pending_requests' = pending_requests,
         \A r \in Requests, b \in Blocks : InFlight(r, b)' <=> InFlight(r, b)
  PROVE  PendingExact' /\ NoUseAfterComplete'
<1>1. NoUseAfterComplete'
  BY DEF NoUseAfterComplete
<1>2. ASSUME NEW r \in Requests
      PROVE  {b \in Blocks : InFlight(r, b)}' = {b \in Blocks : InFlight(r, b)}
  OBVIOUS
<1>3. PendingExact'
  BY <1>2 DEF PendingExact
<1> QED BY <1>1, <1>3

\* A step that finishes the block request of r0 for b0, and calls
\* Request::complete once, keeps the counts exact and closes r0 exactly when
\* nothing of it is left.
LEMMA FlightRemove ==
  ASSUME TypeOK, PendingExact, NoUseAfterComplete,
         NEW r0 \in Requests, NEW b0 \in Blocks,
         InFlight(r0, b0), RequestComplete(r0),
         \A r \in Requests, b \in Blocks :
            InFlight(r, b)' <=> InFlight(r, b) /\ ~(r = r0 /\ b = b0)
  PROVE  /\ PendingExact' /\ NoUseAfterComplete'
         /\ pending_requests' \in [Requests -> Nat]
         /\ rstate' \in [Requests -> {"new", "queued", "open", "done"}]
         /\ \A r \in Requests : rstate[r] = "queued" => rstate'[r] = "queued"
<1> DEFINE S(r) == {b \in Blocks : InFlight(r, b)}
<1>1. rstate[r0] = "open"
  BY DEF NoUseAfterComplete
<1>2. \A r \in Requests : IsFiniteSet(S(r)) /\ Cardinality(S(r)) \in Nat
  BY FS_Subset, FS_CardinalityType, BlocksAssumption
<1>3. pending_requests[r0] = Cardinality(S(r0)) /\ b0 \in S(r0)
  BY <1>1 DEF PendingExact
<1>4. pending_requests[r0] \in Nat \ {0}
  BY <1>2, <1>3, FS_EmptySet
<1>5. \A r \in Requests : r # r0 => S(r)' = S(r)
  OBVIOUS
<1>6. S(r0)' = S(r0) \ {b0}
  OBVIOUS
<1>7. Cardinality(S(r0)') = pending_requests[r0] - 1 /\ IsFiniteSet(S(r0)')
  <2> HIDE DEF S
  <2>1. /\ IsFiniteSet(S(r0) \ {b0})
        /\ Cardinality(S(r0) \ {b0}) = Cardinality(S(r0)) - 1
    BY <1>2, <1>3, FS_RemoveElement
  <2> QED BY <1>3, <1>6, <2>1
<1>8. pending_requests' = [pending_requests EXCEPT ![r0] = @ - 1]
  BY DEF RequestComplete
<1>9. rstate' = IF pending_requests[r0] = 1
                  THEN [rstate EXCEPT ![r0] = IF r0 \in Repeat THEN "new" ELSE "done"]
                  ELSE rstate
  BY DEF RequestComplete
<1>10. pending_requests' \in [Requests -> Nat]
  BY <1>4, <1>8 DEF TypeOK
<1>11. /\ rstate' \in [Requests -> {"new", "queued", "open", "done"}]
       /\ \A r \in Requests : r # r0 => rstate'[r] = rstate[r]
       /\ rstate'[r0] = "open" <=> pending_requests[r0] # 1
  BY <1>1, <1>9 DEF TypeOK
<1>12. PendingExact'
  <2> SUFFICES ASSUME NEW r \in Requests, rstate'[r] = "open"
               PROVE  pending_requests'[r] = Cardinality(S(r)')
    BY DEF PendingExact
  <2>1. CASE r = r0
    BY <1>7, <1>8, <2>1 DEF TypeOK
  <2>2. CASE r # r0
    BY <1>5, <1>8, <1>11, <2>2, Zenon DEF TypeOK, PendingExact
  <2> QED BY <2>1, <2>2
<1>13. NoUseAfterComplete'
  <2> SUFFICES ASSUME NEW r \in Requests, rstate'[r] # "open", NEW b \in Blocks
               PROVE  ~InFlight(r, b)'
    BY DEF NoUseAfterComplete
  <2>1. CASE r = r0
    <3>1. Cardinality(S(r0)') = 0
      BY <1>7, <1>11, <2>1
    <3>2. S(r0)' = {}
      BY <1>7, <3>1, FS_EmptySet
    <3> QED BY <2>1, <3>2
  <2>2. CASE r # r0
    BY <1>11, <2>2 DEF NoUseAfterComplete
  <2> QED BY <2>1, <2>2
<1> QED BY <1>1, <1>10, <1>11, <1>12, <1>13

\* A step that leaves the jobs, the chains and the threads on them alone keeps
\* the blocks sequential.
LEMMA SingleSame ==
  ASSUME SingleRunner,
         job_queue' = job_queue, in_process' = in_process, chain' = chain,
         \A w \in Workers, b \in Blocks : Runs(w, b)' <=> Runs(w, b)
  PROVE  SingleRunner'
<1> SUFFICES ASSUME NEW b \in Blocks
    PROVE  (/\ \A v, w \in Workers : Runs(v, b) /\ Runs(w, b) => v = w
            /\ \A i, j \in 1..Len(job_queue) : job_queue[i] = b /\ job_queue[j] = b => i = j
            /\ \A w \in Workers, i \in 1..Len(job_queue) : ~(Runs(w, b) /\ job_queue[i] = b)
            /\ ~in_process[b] => chain[b] = <<>>
            /\ \A w \in Workers : Runs(w, b) => in_process[b] /\ chain[b] # <<>>
            /\ \A i \in 1..Len(job_queue) : job_queue[i] = b => in_process[b] /\ chain[b] # <<>>)'
  BY Zenon DEF SingleRunner
<1>1. /\ \A v, w \in Workers : Runs(v, b)' /\ Runs(w, b)' => v = w
      /\ \A w \in Workers : Runs(w, b)' => in_process'[b] /\ chain'[b] # <<>>
  BY Zenon DEF SingleRunner
<1>2. \A w \in Workers, i \in 1..Len(job_queue') : ~(Runs(w, b)' /\ job_queue'[i] = b)
  BY Zenon DEF SingleRunner
<1>3. /\ \A i, j \in 1..Len(job_queue') : job_queue'[i] = b /\ job_queue'[j] = b => i = j
      /\ ~in_process'[b] => chain'[b] = <<>>
      /\ \A i \in 1..Len(job_queue') : job_queue'[i] = b => in_process'[b] /\ chain'[b] # <<>>
  BY Zenon DEF SingleRunner
<1> QED BY <1>1, <1>2, <1>3, Zenon

-----------------------------------------------------------------------------
(* Each action preserves the invariant.                                    *)

\* aio_read, aio_write and the policy's own requests only touch the queue.
LEMMA SubmitStep ==
  ASSUME IInv, NEW r \in Requests, Submit(r)
  PROVE  IInv'
<1> USE DEF IInv
<1>1. TypeOK'
  BY DEF Submit, TypeOK
<1>2. WorkerOK' /\ Places' /\ SingleRunner' /\ DiscardLocksBlock'
  <2>1. UNCHANGED <<todo, deferred, in_process, in_discard_process, chain, job_queue, worker>>
    BY DEF Submit
  <2>2. WorkerOK'
    BY <2>1, Zenon DEF WorkerOK
  <2>3. Places'
    <3>1. \A w \in Workers, q \in Requests, b \in Blocks : Acks(w, q, b)' <=> Acks(w, q, b)
      BY <2>1, Zenon DEF Acks
    <3> QED BY <2>1, <3>1 DEF Places
  <2>4. \A w \in Workers, b \in Blocks : Runs(w, b)' <=> Runs(w, b)
    BY <2>1, Zenon DEF Runs
  <2>5. SingleRunner'
    BY <2>1, <2>4, SingleSame, Zenon
  <2>6. DiscardLocksBlock'
    BY <2>1, Zenon DEF DiscardLocksBlock
  <2> QED BY <2>2, <2>3, <2>5, <2>6
<1>3. QueueOK'
  <2>1. /\ Len(request_queue) \in Nat /\ Len(request_queue') = Len(request_queue) + 1
        /\ \A i \in 1..(Len(request_queue) + 1) :
             request_queue'[i] = IF i = Len(request_queue) + 1 THEN r ELSE request_queue[i]
    BY SMTT(40) DEF Submit, TypeOK
  <2>2. \A i \in 1..Len(request_queue) : request_queue[i] # r /\ request_queue[i] \in Requests
    BY DEF Submit, QueueOK, TypeOK
  <2>3. rstate' = [rstate EXCEPT ![r] = "queued"]
    BY DEF Submit
  <2>4. \A i \in 1..(Len(request_queue) + 1) : rstate'[request_queue'[i]] = "queued"
    <3> SUFFICES ASSUME NEW i \in 1..(Len(request_queue) + 1)
                 PROVE  rstate'[request_queue'[i]] = "queued"
      OBVIOUS
    <3>1. rstate \in [Requests -> {"new", "queued", "open", "done"}]
      BY DEF TypeOK
    <3>2. CASE i = Len(request_queue) + 1
      BY <2>1, <2>3, <3>1, <3>2
    <3>3. CASE i \in 1..Len(request_queue)
      <4>1. request_queue'[i] = request_queue[i]
        BY <2>1, <3>3
      <4>2. rstate[request_queue[i]] = "queued"
        BY <3>3, Zenon DEF QueueOK
      <4> QED BY <2>2, <2>3, <3>1, <3>3, <4>1, <4>2
    <3> QED BY <2>1, <3>2, <3>3
  <2>5. \A i, j \in 1..(Len(request_queue) + 1) :
           request_queue'[i] = request_queue'[j] => i = j
    BY <2>1, <2>2, SMTT(40) DEF QueueOK
  <2> QED BY <2>1, <2>4, <2>5 DEF QueueOK
<1>4. \A q \in Requests, b \in Blocks : InFlight(q, b)' <=> InFlight(q, b)
  BY DEF Submit, InFlight, Acks
<1>5. \A q \in Requests : rstate'[q] = "open" <=> rstate[q] = "open"
  BY DEF Submit, TypeOK
<1>6. NoUseAfterComplete'
  BY <1>4, <1>5 DEF NoUseAfterComplete
<1>7. PendingExact'
  <2>1. ASSUME NEW q \in Requests
        PROVE  {b \in Blocks : InFlight(q, b)}' = {b \in Blocks : InFlight(q, b)}
    BY <1>4
  <2> QED BY <1>5, <2>1, Zenon DEF PendingExact, Submit
<1> QED BY <1>1, <1>2, <1>3, <1>6, <1>7

\* create_block_requests makes one pair for each block of the request's span,
\* and as many as add_request counts.
LEMMA NewBlockRequests ==
  ASSUME NEW r \in Requests
  PROVE  /\ create_block_requests(r) \in Seq(BlockRequest)
         /\ DistinctList(create_block_requests(r))
         /\ \A q, b : InList(create_block_requests(r), q, b)
               <=> q = r /\ \E i \in 1..Len(Span[r]) : Span[r][i] = b
         /\ add_requests(r) \in Nat
         /\ Cardinality({b \in Blocks : InList(create_block_requests(r), r, b)}) = add_requests(r)
<1> DEFINE n == Len(Span[r])
           s == create_block_requests(r)
           T == {b \in Blocks : InList(s, r, b)}
<1>0. Span[r] \in Seq(Blocks) /\ n \in Nat /\ \A i \in 1..n : Span[r][i] \in Blocks
  BY SpanAssumption
<1>1. s \in Seq(BlockRequest) /\ Len(s) = n
  BY <1>0 DEF create_block_requests, BlockRequest
<1>2. \A i \in 1..n : s[i].req = r /\ s[i].block = Span[r][i]
  BY <1>0 DEF create_block_requests
<1>3. DistinctList(s)
  BY <1>1, <1>2, SpanAssumption DEF DistinctList
<1>4. \A q, b : InList(s, q, b) <=> q = r /\ \E i \in 1..n : Span[r][i] = b
  BY <1>1, <1>2 DEF InList
<1>5. Cardinality(T) = n
  <2>1. [i \in 1..n |-> Span[r][i]] \in Bijection(1..n, T)
    <3>1. [i \in 1..n |-> Span[r][i]] \in [1..n -> T]
      BY <1>0, <1>4
    <3>2. \A t \in T : \E i \in 1..n : Span[r][i] = t
      BY <1>4
    <3>3. \A i, j \in 1..n : Span[r][i] = Span[r][j] => i = j
      BY SpanAssumption
    <3> QED BY <3>1, <3>2, <3>3 DEF Bijection, Injection, Surjection, IsInjective
  <2>2. ExistsBijection(1..n, T)
    BY <2>1 DEF ExistsBijection
  <2> QED BY <1>0, <2>2, FS_CountingElements
<1> QED BY <1>0, <1>1, <1>3, <1>4, <1>5 DEF add_requests

\* Taking a request off the queue opens it with an exact count.
LEMMA ProcessStep ==
  ASSUME IInv, NEW r \in Requests, process(r)
  PROVE  IInv'
<1> USE DEF IInv
<1> DEFINE new == create_block_requests(r)
<1>1. /\ new \in Seq(BlockRequest) /\ DistinctList(new)
      /\ \A q, b : InList(new, q, b) => q = r
      /\ add_requests(r) \in Nat
      /\ Cardinality({b \in Blocks : InList(new, r, b)}) = add_requests(r)
  BY NewBlockRequests
<1> HIDE DEF new
<1>2. /\ todo' = deferred \o new /\ deferred' = <<>> /\ todo = <<>>
      /\ pending_requests' = [pending_requests EXCEPT ![r] = add_requests(r)]
      /\ rstate' = [rstate EXCEPT ![r] = "open"]
      /\ UNCHANGED <<in_process, in_discard_process, chain, job_queue, worker>>
  BY DEF process, new
<1>3. /\ request_queue # <<>> /\ r = Head(request_queue) /\ rstate[r] = "queued"
      /\ request_queue' = Tail(request_queue)
  BY DEF process, QueueOK, TypeOK
<1>4. TypeOK'
  BY <1>1, <1>2, <1>3 DEF TypeOK
<1>5. WorkerOK' /\ SingleRunner' /\ DiscardLocksBlock'
  <2>1. WorkerOK' BY <1>2, Zenon DEF WorkerOK
  <2>2. DiscardLocksBlock' BY <1>2, Zenon DEF DiscardLocksBlock
  <2>3. \A v \in Workers, b \in Blocks : Runs(v, b)' <=> Runs(v, b)
    BY <1>2, Zenon DEF Runs
  <2>4. SingleRunner'
    <3> HIDE DEF IInv
    <3> QED BY <1>2, <2>3, RunnerSame DEF IInv
  <2> QED BY <2>1, <2>2, <2>4
<1>6. QueueOK'
  <2>1. /\ Len(request_queue) \in Nat \ {0} /\ Len(request_queue') = Len(request_queue) - 1
        /\ \A i \in 1..(Len(request_queue) - 1) :
             request_queue'[i] = request_queue[i + 1] /\ i + 1 \in 1..Len(request_queue)
        /\ 1 \in 1..Len(request_queue) /\ r = request_queue[1]
    BY <1>3 DEF TypeOK
  <2>2. \A i \in 1..(Len(request_queue) - 1) :
           /\ request_queue'[i] # r
           /\ rstate'[request_queue'[i]] = "queued"
    <3> SUFFICES ASSUME NEW i \in 1..(Len(request_queue) - 1)
                 PROVE  request_queue'[i] # r /\ rstate'[request_queue'[i]] = "queued"
      OBVIOUS
    <3>1. request_queue[i + 1] # r
      <4>1. i + 1 # 1
        OBVIOUS
      <4> QED BY <2>1, <4>1 DEF QueueOK
    <3>2. request_queue[i + 1] \in Requests /\ rstate[request_queue[i + 1]] = "queued"
      BY <2>1 DEF TypeOK, QueueOK
    <3> QED BY <1>2, <2>1, <3>1, <3>2 DEF TypeOK
  <2>3. ASSUME NEW i \in 1..(Len(request_queue) - 1), NEW j \in 1..(Len(request_queue) - 1),
               request_queue'[i] = request_queue'[j]
        PROVE  i = j
    <3>1. /\ i + 1 \in 1..Len(request_queue) /\ j + 1 \in 1..Len(request_queue)
          /\ request_queue[i + 1] = request_queue[j + 1]
      BY <2>1, <2>3
    <3>2. i + 1 = j + 1
      BY <3>1, Zenon DEF QueueOK
    <3> QED BY <3>2
  <2> QED BY <2>1, <2>2, <2>3 DEF QueueOK
<1>7. \A b \in Blocks : ~InFlight(r, b)
  BY <1>3 DEF NoUseAfterComplete
<1>8. \A q \in Requests, b \in Blocks :
        /\ InList(todo', q, b) <=> InList(deferred, q, b) \/ InList(new, q, b)
        /\ ~InList(deferred', q, b)
        /\ ~InList(todo, q, b)
  <2>1. \A q \in Requests, b \in Blocks :
          InList(todo', q, b) <=> InList(deferred, q, b) \/ InList(new, q, b)
    BY <1>1, <1>2, ListConcat DEF TypeOK
  <2>2. \A q \in Requests, b \in Blocks : ~InList(deferred', q, b) /\ ~InList(todo, q, b)
    BY <1>2 DEF InList
  <2> QED BY <2>1, <2>2
<1>9. \A q \in Requests, b \in Blocks :
        InFlight(q, b)' <=> InFlight(q, b) \/ (q = r /\ InList(new, r, b))
  BY <1>1, <1>2, <1>8 DEF InFlight, Acks
<1>10. Places'
  <2>1. DistinctList(todo')
    <3>1. \A q, b : ~(InList(deferred, q, b) /\ InList(new, q, b))
      <4> SUFFICES ASSUME NEW q, NEW b, InList(deferred, q, b), InList(new, q, b)
                   PROVE  FALSE
        OBVIOUS
      <4>1. q = r
        BY <1>1
      <4>2. b \in Blocks
        <5>1. PICK i \in 1..Len(deferred) : deferred[i].block = b
          BY DEF InList
        <5>2. deferred[i] \in BlockRequest
          BY DEF TypeOK
        <5> QED BY <5>1, <5>2 DEF BlockRequest
      <4> QED BY <1>7, <4>1, <4>2 DEF InFlight
    <3> QED BY <1>1, <1>2, <3>1, ListConcatDistinct DEF TypeOK, Places
  <2>2. DistinctList(deferred') /\ \A b \in Blocks : DistinctChain(chain'[b])
    BY <1>2 DEF Places, DistinctList
  <2>3. ASSUME NEW q \in Requests, NEW b \in Blocks
        PROVE  /\ ~(InList(todo', q, b) /\ InList(deferred', q, b))
               /\ InChain(chain'[b], q) => ~InList(todo', q, b) /\ ~InList(deferred', q, b)
               /\ \A w \in Workers : Acks(w, q, b)' =>
                    /\ ~InList(todo', q, b) /\ ~InList(deferred', q, b) /\ ~InChain(chain'[b], q)
                    /\ \A v \in Workers : Acks(v, q, b)' => v = w
    <3>1. \A w \in Workers : Acks(w, q, b)' <=> Acks(w, q, b)
      BY <1>2, Zenon DEF Acks
    <3>2. chain' = chain
      BY <1>2
    <3>3. ASSUME InList(todo', q, b)
          PROVE  ~InChain(chain[b], q) /\ \A w \in Workers : ~Acks(w, q, b)
      <4>1. CASE InList(deferred, q, b)
        BY <4>1, Zenon DEF Places
      <4>2. CASE InList(new, q, b)
        <5>1. q = r
          BY <1>1, <4>2
        <5> QED BY <1>7, <5>1, Zenon DEF InFlight
      <4> QED BY <1>8, <3>3, <4>1, <4>2, Zenon
    <3>4. \A w \in Workers : Acks(w, q, b) =>
            ~InChain(chain[b], q) /\ \A v \in Workers : Acks(v, q, b) => v = w
      BY Zenon DEF Places
    <3> QED BY <1>8, <3>1, <3>2, <3>3, <3>4, Zenon
  <2> QED BY <2>1, <2>2, <2>3, Zenon DEF Places
<1>11. NoUseAfterComplete'
  BY <1>2, <1>9 DEF NoUseAfterComplete, TypeOK
<1>12. PendingExact'
  <2> SUFFICES ASSUME NEW q \in Requests, rstate'[q] = "open"
               PROVE  pending_requests'[q] = Cardinality({b \in Blocks : InFlight(q, b)}')
    BY DEF PendingExact
  <2>1. CASE q = r
    <3>1. {b \in Blocks : InFlight(q, b)}' = {b \in Blocks : InList(new, r, b)}
      BY <1>7, <1>9, <2>1
    <3> QED BY <1>1, <1>2, <2>1, <3>1, Zenon DEF TypeOK
  <2>2. CASE q # r
    <3>1. {b \in Blocks : InFlight(q, b)}' = {b \in Blocks : InFlight(q, b)}
      BY <1>9, <2>2
    <3> QED BY <1>2, <2>2, <3>1, Zenon DEF TypeOK, PendingExact
  <2> QED BY <2>1, <2>2
<1> QED BY <1>4, <1>5, <1>6, <1>10, <1>11, <1>12

\* Passing over an entry of block_request_list only moves it.
LEMMA DeferStep ==
  ASSUME IInv, Defer
  PROVE  IInv'
<1> USE DEF IInv
<1> DEFINE x == Head(todo)
<1>0. /\ todo # <<>> /\ x \in BlockRequest /\ x.req \in Requests /\ x.block \in Blocks
      /\ todo' = Tail(todo) /\ deferred' = Append(deferred, x)
      /\ UNCHANGED <<request_queue, rstate, pending_requests, in_process,
                     in_discard_process, chain, job_queue, worker>>
  BY ListHead DEF Defer, TypeOK
<1>1. TypeOK'
  BY <1>0 DEF TypeOK
<1>2. WorkerOK' /\ QueueOK' /\ SingleRunner' /\ DiscardLocksBlock'
  <2>1. WorkerOK' /\ QueueOK' /\ DiscardLocksBlock'
    BY <1>0, Zenon DEF WorkerOK, QueueOK, DiscardLocksBlock
  <2>2. \A w \in Workers, b \in Blocks : Runs(w, b)' <=> Runs(w, b)
    BY <1>0, Zenon DEF Runs
  <2>3. SingleRunner'
    BY <1>0, <2>2, SingleSame, Zenon
  <2> QED BY <2>1, <2>3
<1>3. InList(todo, x.req, x.block)
  BY <1>0, ListHead, Zenon DEF TypeOK
<1> HIDE DEF x
<1>4. \A r \in Requests, b \in Blocks :
        /\ InList(todo', r, b) <=> InList(todo, r, b) /\ ~(x.req = r /\ x.block = b)
        /\ InList(deferred', r, b) <=> InList(deferred, r, b) \/ (x.req = r /\ x.block = b)
  <2>1. todo \in Seq(BlockRequest) /\ deferred \in Seq(BlockRequest) /\ DistinctList(todo)
    BY DEF TypeOK, Places
  <2>2. \A r \in Requests, b \in Blocks :
          InList(todo', r, b) <=> InList(todo, r, b) /\ ~(x.req = r /\ x.block = b)
    BY <1>0, <2>1, ListTail DEF x
  <2>3. \A r \in Requests, b \in Blocks :
          InList(deferred', r, b) <=> InList(deferred, r, b) \/ (x.req = r /\ x.block = b)
    BY <1>0, <2>1, ListAppend
  <2> QED BY <2>2, <2>3
<1>5. \A r \in Requests, b \in Blocks : InFlight(r, b)' <=> InFlight(r, b)
  BY <1>0, <1>3, <1>4 DEF InFlight, Acks
<1>6. PendingExact' /\ NoUseAfterComplete'
  BY <1>0, <1>5, FlightSame
<1>7. Places'
  <2>1. DistinctList(todo')
    BY <1>0, ListTail, Zenon DEF Places, TypeOK, x
  <2>2. DistinctList(deferred')
    BY <1>0, <1>3, ListAppendDistinct DEF Places, TypeOK
  <2>3. \A b \in Blocks : DistinctChain(chain'[b])
    BY <1>0, Zenon DEF Places
  <2>4. ASSUME NEW q \in Requests, NEW b \in Blocks
        PROVE  /\ ~(InList(todo', q, b) /\ InList(deferred', q, b))
               /\ InChain(chain'[b], q) => ~InList(todo', q, b) /\ ~InList(deferred', q, b)
               /\ \A w \in Workers : Acks(w, q, b)' =>
                    /\ ~InList(todo', q, b) /\ ~InList(deferred', q, b) /\ ~InChain(chain'[b], q)
                    /\ \A v \in Workers : Acks(v, q, b)' => v = w
    BY <1>0, <1>3, <1>4, SMTT(40) DEF Places, Acks
  <2> QED BY <2>1, <2>2, <2>3, <2>4, Zenon DEF Places
<1> QED BY <1>1, <1>2, <1>6, <1>7

\* map_block moves an entry into the chains of its block, and queues the block
\* exactly when nobody owns it.
LEMMA MapBlockStep ==
  ASSUME IInv, NEW kind \in ChainKinds, map_block(kind)
  PROVE  IInv'
<1> USE DEF IInv
<1> DEFINE x == Head(todo)
           b0 == x.block
           r0 == x.req
           c == [req |-> r0, kind |-> kind]
<1>0. todo # <<>> /\ x \in BlockRequest /\ r0 \in Requests /\ b0 \in Blocks /\ c \in Chain
  BY ListHead DEF map_block, TypeOK, Chain
<1>1. /\ todo' = Tail(todo)
      /\ chain' = [chain EXCEPT ![b0] = Append(chain[b0], c)]
      /\ in_process' = [in_process EXCEPT ![b0] = TRUE]
      /\ in_discard_process' = [in_discard_process EXCEPT ![b0] =
                                  in_discard_process[b0] \/ kind = "demote"]
      /\ job_queue' = IF in_process[b0] THEN job_queue ELSE Append(job_queue, b0)
      /\ ~in_discard_process[b0]
      /\ UNCHANGED <<request_queue, rstate, pending_requests, deferred, worker>>
  BY DEF map_block, AddTask, Discarding
<1>2. InList(todo, r0, b0)
  BY <1>0, ListHead DEF TypeOK
<1> HIDE DEF x
<1>3. TypeOK'
  <2>1. Append(chain[b0], c) \in Seq(Chain)
    BY <1>0 DEF TypeOK
  <2>2. chain' \in [Blocks -> Seq(Chain)]
    BY <1>0, <1>1, <2>1 DEF TypeOK
  <2>3. job_queue' \in Seq(Blocks)
    BY <1>0, <1>1 DEF TypeOK
  <2>4. in_process' \in [Blocks -> BOOLEAN] /\ in_discard_process' \in [Blocks -> BOOLEAN]
    BY <1>0, <1>1 DEF TypeOK
  <2> QED BY <1>0, <1>1, <2>2, <2>3, <2>4 DEF TypeOK
<1>4. \A b \in Blocks : chain'[b] = IF b = b0 THEN Append(chain[b0], c) ELSE chain[b]
  BY <1>1 DEF TypeOK
<1>5. /\ chain[b0] \in Seq(Chain) /\ Len(chain[b0]) \in Nat
      /\ chain'[b0] # <<>> /\ chain'[b0] \in Seq(Chain)
      /\ chain'[b0][Len(chain'[b0])] = c
      /\ chain[b0] # <<>> => Head(chain'[b0]) = Head(chain[b0])
  <2>1. chain[b0] \in Seq(Chain) /\ Len(chain[b0]) \in Nat
    BY <1>0 DEF TypeOK
  <2>2. chain'[b0] = Append(chain[b0], c)
    BY <1>0, <1>4, Zenon
  <2> QED BY <1>0, <2>1, <2>2, ChainEnds
<1>6. WorkerOK'
  <2> SUFFICES ASSUME NEW w \in Workers
               PROVE  /\ worker'[w].pc # "idle" => worker'[w].block \in Blocks
                                                   /\ worker'[w].req \in Requests
                      /\ worker'[w].pc \in {"op", "release", "complete"} =>
                           worker'[w].req = Head(chain'[worker'[w].block]).req
    BY DEF WorkerOK
  <2>1. /\ worker[w].pc # "idle" => worker[w].block \in Blocks /\ worker[w].req \in Requests
        /\ worker[w].pc \in {"op", "release", "complete"} =>
             worker[w].req = Head(chain[worker[w].block]).req
    BY Zenon DEF WorkerOK
  <2>2. ASSUME worker[w].pc \in {"op", "release", "complete"}
        PROVE  worker[w].req = Head(chain'[worker[w].block]).req
    <3>1. worker[w].block \in Blocks /\ Runs(w, worker[w].block)
      BY <2>1, <2>2 DEF Runs
    <3>2. chain[worker[w].block] # <<>>
      BY <3>1, Zenon DEF SingleRunner
    <3>3. Head(chain'[worker[w].block]) = Head(chain[worker[w].block])
      BY <1>4, <1>5, <3>1, <3>2, Zenon
    <3> QED BY <2>1, <2>2, <3>3, Zenon
  <2> QED BY <1>1, <2>1, <2>2, Zenon
<1>7. QueueOK'
  BY <1>1 DEF QueueOK
<1>8. SingleRunner'
  <2>0. \A w \in Workers, b \in Blocks : Runs(w, b)' <=> Runs(w, b)
    BY <1>1 DEF Runs
  <2>1. CASE in_process[b0]
    <3>1. job_queue' = job_queue /\ in_process' = in_process
      BY <1>0, <1>1, <2>1 DEF TypeOK
    <3> QED BY <1>0, <1>4, <1>5, <2>0, <2>1, <3>1, SMTT(40) DEF SingleRunner
  <2>2. CASE ~in_process[b0]
    <3>1. /\ Len(job_queue) \in Nat /\ Len(job_queue') = Len(job_queue) + 1
          /\ \A i \in 1..(Len(job_queue) + 1) :
               job_queue'[i] = IF i = Len(job_queue) + 1 THEN b0 ELSE job_queue[i]
      BY <1>0, <1>1, <2>2, SMTT(40) DEF TypeOK
    <3>2. \A b \in Blocks : in_process'[b] = IF b = b0 THEN TRUE ELSE in_process[b]
      BY <1>0, <1>1 DEF TypeOK
    <3>3. \A w \in Workers : ~Runs(w, b0)
      BY <1>0, <2>2 DEF SingleRunner
    <3>4. \A i \in 1..Len(job_queue) : job_queue[i] # b0
      BY <1>0, <2>2 DEF SingleRunner
    <3>5. ASSUME NEW b \in Blocks, NEW i \in 1..Len(job_queue'), NEW j \in 1..Len(job_queue'),
                 job_queue'[i] = b, job_queue'[j] = b
          PROVE  i = j
      <4>1. CASE b = b0
        BY <3>1, <3>4, <3>5, <4>1
      <4>2. CASE b # b0
        <5>1. i \in 1..Len(job_queue) /\ j \in 1..Len(job_queue)
          BY <3>1, <3>5, <4>2
        <5>2. job_queue[i] = b /\ job_queue[j] = b
          BY <3>1, <3>5, <5>1
        <5> QED BY <5>1, <5>2 DEF SingleRunner
      <4> QED BY <4>1, <4>2
    <3>6. ASSUME NEW b \in Blocks, NEW i \in 1..Len(job_queue'), job_queue'[i] = b
          PROVE  /\ \A w \in Workers : ~Runs(w, b)
                 /\ in_process'[b] /\ chain'[b] # <<>>
      <4>1. CASE b = b0
        BY <1>5, <3>2, <3>3, <4>1, Zenon
      <4>2. CASE b # b0
        <5>1. i \in 1..Len(job_queue) /\ job_queue[i] = b
          BY <3>1, <3>6, <4>2
        <5>2. \A w \in Workers : ~Runs(w, b)
          BY <5>1 DEF SingleRunner
        <5>3. in_process[b] /\ chain[b] # <<>>
          BY <5>1 DEF SingleRunner
        <5> QED BY <1>4, <3>2, <4>2, <5>2, <5>3, Zenon
      <4> QED BY <4>1, <4>2
    <3>7. ASSUME NEW b \in Blocks
          PROVE  /\ ~in_process'[b] => chain'[b] = <<>>
                 /\ \A v, w \in Workers : Runs(v, b) /\ Runs(w, b) => v = w
                 /\ \A w \in Workers : Runs(w, b) => in_process'[b] /\ chain'[b] # <<>>
      BY <1>4, <1>5, <3>2, <3>3, Zenon DEF SingleRunner
    <3> QED BY <2>0, <3>5, <3>6, <3>7, SMTT(40) DEF SingleRunner
  <2> QED BY <2>1, <2>2
<1>9. DiscardLocksBlock'
  <2> SUFFICES ASSUME NEW b \in Blocks, in_discard_process'[b], chain'[b] # <<>>
               PROVE  chain'[b][Len(chain'[b])].kind = "demote"
    BY DEF DiscardLocksBlock
  <2>1. CASE b = b0
    <3>1. kind = "demote"
      BY <1>0, <1>1, <2>1 DEF TypeOK
    <3> QED BY <1>5, <2>1, <3>1
  <2>2. CASE b # b0
    <3>1. in_discard_process[b] /\ chain'[b] = chain[b]
      BY <1>0, <1>1, <1>4, <2>2 DEF TypeOK
    <3> QED BY <3>1, Zenon DEF DiscardLocksBlock
  <2> QED BY <2>1, <2>2, Zenon
<1>10. \A r \in Requests, b \in Blocks :
        /\ InList(todo', r, b) <=> InList(todo, r, b) /\ ~(r0 = r /\ b0 = b)
        /\ InChain(chain'[b], r) <=> InChain(chain[b], r) \/ (r0 = r /\ b0 = b)
  <2>1. todo \in Seq(BlockRequest) /\ DistinctList(todo)
    BY DEF TypeOK, Places
  <2>2. \A r \in Requests, b \in Blocks :
          InList(todo', r, b) <=> InList(todo, r, b) /\ ~(r0 = r /\ b0 = b)
    BY <1>0, <1>1, <2>1, ListTail, Zenon DEF x
  <2>3. \A r \in Requests : InChain(chain'[b0], r) <=> InChain(chain[b0], r) \/ r0 = r
    <3>0. c.req = r0
      OBVIOUS
    <3>1. chain'[b0] = Append(chain[b0], c)
      BY <1>0, <1>4, Zenon
    <3> HIDE DEF c
    <3>2. \A r \in Requests :
            InChain(Append(chain[b0], c), r) <=> InChain(chain[b0], r) \/ c.req = r
      BY <1>0, <1>5, ChainAppend, Zenon
    <3> QED BY <3>0, <3>1, <3>2, Zenon
  <2> QED BY <1>0, <1>4, <2>2, <2>3
<1>11. \A r \in Requests, b \in Blocks : InFlight(r, b)' <=> InFlight(r, b)
  BY <1>1, <1>2, <1>10, Zenon DEF InFlight, Acks
<1>12. PendingExact' /\ NoUseAfterComplete'
  BY <1>1, <1>11, FlightSame
<1>13. Places'
  <2>1. DistinctList(todo') /\ DistinctList(deferred')
    BY <1>0, <1>1, ListTail, Zenon DEF Places, TypeOK, x
  <2>2. \A b \in Blocks : DistinctChain(chain'[b])
    <3>1. DistinctChain(chain[b0]) /\ ~InChain(chain[b0], c.req)
      BY <1>0, <1>2 DEF Places
    <3>2. DistinctChain(Append(chain[b0], c))
      BY <1>0, <1>5, <3>1, ChainAppend
    <3> QED BY <1>4, <3>2 DEF Places
  <2>3. ASSUME NEW q \in Requests, NEW b \in Blocks
        PROVE  /\ ~(InList(todo', q, b) /\ InList(deferred', q, b))
               /\ InChain(chain'[b], q) => ~InList(todo', q, b) /\ ~InList(deferred', q, b)
               /\ \A w \in Workers : Acks(w, q, b)' =>
                    /\ ~InList(todo', q, b) /\ ~InList(deferred', q, b) /\ ~InChain(chain'[b], q)
                    /\ \A v \in Workers : Acks(v, q, b)' => v = w
    <3>1. /\ InList(deferred', q, b) <=> InList(deferred, q, b)
          /\ \A w \in Workers : Acks(w, q, b)' <=> Acks(w, q, b)
      BY <1>1, Zenon DEF Acks
    <3>2. /\ ~(InList(todo, q, b) /\ InList(deferred, q, b))
          /\ InChain(chain[b], q) => ~InList(todo, q, b) /\ ~InList(deferred, q, b)
          /\ \A w \in Workers : Acks(w, q, b) =>
               /\ ~InList(todo, q, b) /\ ~InList(deferred, q, b) /\ ~InChain(chain[b], q)
               /\ \A v \in Workers : Acks(v, q, b) => v = w
      BY Zenon DEF Places
    <3>3. /\ InList(todo', q, b) <=> InList(todo, q, b) /\ ~(r0 = q /\ b0 = b)
          /\ InChain(chain'[b], q) <=> InChain(chain[b], q) \/ (r0 = q /\ b0 = b)
      BY <1>10, Zenon
    <3>4. r0 = q /\ b0 = b => InList(todo, q, b)
      BY <1>2, Zenon
    <3> QED BY <3>1, <3>2, <3>3, <3>4, Zenon
  <2> QED BY <2>1, <2>2, <2>3, Zenon DEF Places
<1> QED BY <1>3, <1>6, <1>7, <1>8, <1>9, <1>12, <1>13

\* A block with chains starts with its first one.
LEMMA StartOfType ==
  ASSUME TypeOK, NEW b \in Blocks, chain[b] # <<>>
  PROVE  /\ StartOf(b, chain[b]) \in WorkerState
         /\ StartOf(b, chain[b]).pc \in {"op", "complete"}
         /\ StartOf(b, chain[b]).block = b
         /\ StartOf(b, chain[b]).req = Head(chain[b]).req
         /\ Head(chain[b]).req \in Requests
<1>1. chain[b] \in Seq(Chain)
  BY DEF TypeOK
<1>2. Head(chain[b]) \in Chain
  BY <1>1
<1> QED BY <1>2, Zenon DEF StartOf, WorkerState, Chain

\* A pool thread takes over the block of the oldest job.
LEMMA TakeJobStep ==
  ASSUME IInv, NEW w \in Workers, TakeJob(w)
  PROVE  IInv'
<1> USE DEF IInv
<1> DEFINE b0 == Head(job_queue)
<1>0. /\ Len(job_queue) \in Nat \ {0} /\ Len(job_queue') = Len(job_queue) - 1
      /\ \A i \in 1..(Len(job_queue) - 1) :
           job_queue'[i] = job_queue[i + 1] /\ i + 1 \in 1..Len(job_queue)
      /\ 1 \in 1..Len(job_queue) /\ b0 = job_queue[1] /\ b0 \in Blocks
      /\ job_queue' \in Seq(Blocks)
  BY DEF TakeJob, TypeOK
<1>1. in_process[b0] /\ chain[b0] # <<>> /\ \A v \in Workers : ~Runs(v, b0)
  BY <1>0 DEF SingleRunner
<1>2. /\ worker[w].pc = "idle"
      /\ worker' = [worker EXCEPT ![w] = StartOf(b0, chain[b0])]
      /\ UNCHANGED <<request_queue, rstate, pending_requests, todo, deferred,
                     in_process, in_discard_process, chain>>
  BY DEF TakeJob
<1> HIDE DEF b0
<1>3. /\ worker' \in [Workers -> WorkerState]
      /\ \A v \in Workers : v # w => worker'[v] = worker[v]
      /\ worker'[w].pc \in {"op", "complete"} /\ worker'[w].block = b0
      /\ worker'[w].req = Head(chain[b0]).req /\ worker'[w].req \in Requests
  BY <1>0, <1>1, <1>2, StartOfType DEF TypeOK
<1>4. TypeOK'
  BY <1>0, <1>2, <1>3, Zenon DEF TypeOK
<1>5. WorkerOK'
  BY <1>0, <1>2, <1>3 DEF WorkerOK
<1>6. QueueOK' /\ DiscardLocksBlock'
  BY <1>2, Zenon DEF QueueOK, DiscardLocksBlock
<1>7. \A v \in Workers, b \in Blocks : Runs(v, b)' <=> Runs(v, b) \/ (v = w /\ b = b0)
  BY <1>2, <1>3 DEF Runs
<1>8. \A v \in Workers, r \in Requests, b \in Blocks : Acks(v, r, b)' <=> Acks(v, r, b)
  BY <1>2, <1>3 DEF Acks
<1>9. SingleRunner'
  <2>1. ASSUME NEW b \in Blocks, NEW i \in 1..Len(job_queue'), NEW j \in 1..Len(job_queue'),
               job_queue'[i] = b, job_queue'[j] = b
        PROVE  i = j
    <3>1. i + 1 = j + 1
      BY <1>0, <2>1 DEF SingleRunner
    <3> QED BY <1>0, <3>1
  <2>2. ASSUME NEW b \in Blocks, NEW i \in 1..Len(job_queue'), job_queue'[i] = b
        PROVE  /\ b # b0
               /\ \A v \in Workers : ~Runs(v, b)
               /\ in_process[b] /\ chain[b] # <<>>
    <3>1. i + 1 \in 1..Len(job_queue) /\ job_queue[i + 1] = b /\ i + 1 # 1
      BY <1>0, <2>2
    <3>2. b # b0
      BY <1>0, <3>1 DEF SingleRunner
    <3> QED BY <3>1, <3>2 DEF SingleRunner
  <2>3. ASSUME NEW b \in Blocks
        PROVE  /\ ~in_process[b] => chain[b] = <<>>
               /\ \A u, v \in Workers : Runs(u, b)' /\ Runs(v, b)' => u = v
               /\ \A v \in Workers : Runs(v, b)' => in_process[b] /\ chain[b] # <<>>
    BY <1>1, <1>7, SMTT(40) DEF SingleRunner
  <2> SUFFICES ASSUME NEW b \in Blocks
      PROVE  (/\ \A u, v \in Workers : Runs(u, b) /\ Runs(v, b) => u = v
              /\ \A i, j \in 1..Len(job_queue) : job_queue[i] = b /\ job_queue[j] = b => i = j
              /\ \A v \in Workers, i \in 1..Len(job_queue) : ~(Runs(v, b) /\ job_queue[i] = b)
              /\ ~in_process[b] => chain[b] = <<>>
              /\ \A v \in Workers : Runs(v, b) => in_process[b] /\ chain[b] # <<>>
              /\ \A i \in 1..Len(job_queue) : job_queue[i] = b => in_process[b] /\ chain[b] # <<>>)'
    BY Zenon DEF SingleRunner
  <2>4. \A u, v \in Workers : Runs(u, b)' /\ Runs(v, b)' => u = v
    BY <2>3, Zenon
  <2>5. \A i, j \in 1..Len(job_queue') : job_queue'[i] = b /\ job_queue'[j] = b => i = j
    BY <2>1, Zenon
  <2>6. \A v \in Workers, i \in 1..Len(job_queue') : ~(Runs(v, b)' /\ job_queue'[i] = b)
    BY <1>7, <2>2, Zenon
  <2>7. ~in_process'[b] => chain'[b] = <<>>
    BY <1>2, <2>3, Zenon
  <2>8. \A v \in Workers : Runs(v, b)' => in_process'[b] /\ chain'[b] # <<>>
    BY <1>2, <2>3, Zenon
  <2>9. \A i \in 1..Len(job_queue') : job_queue'[i] = b => in_process'[b] /\ chain'[b] # <<>>
    BY <1>2, <2>2, Zenon
  <2> QED BY <2>4, <2>5, <2>6, <2>7, <2>8, <2>9
<1>10. Places'
  BY <1>2, <1>8 DEF Places
<1>11. \A r \in Requests, b \in Blocks : InFlight(r, b)' <=> InFlight(r, b)
  BY <1>2, <1>8 DEF InFlight
<1>12. PendingExact' /\ NoUseAfterComplete'
  BY <1>2, <1>11, FlightSame
<1> QED BY <1>4, <1>5, <1>6, <1>9, <1>10, <1>12

\* A step that only moves a thread along the ops of its chain changes nothing
\* the invariant speaks of.
LEMMA AdvanceStep ==
  ASSUME IInv, NEW w \in Workers, NEW pc \in {"op", "release", "complete"},
         worker[w].pc \in {"op", "release", "complete"},
         worker' = [worker EXCEPT ![w].pc = pc],
         \A b \in Blocks : in_discard_process'[b] => in_discard_process[b],
         in_discard_process' \in [Blocks -> BOOLEAN],
         UNCHANGED <<request_queue, rstate, pending_requests, todo, deferred,
                     in_process, chain, job_queue>>
  PROVE  IInv'
<1> USE DEF IInv
<1>1. /\ worker' \in [Workers -> WorkerState]
      /\ \A v \in Workers : v # w => worker'[v] = worker[v]
      /\ worker'[w].pc = pc /\ worker'[w].block = worker[w].block
      /\ worker'[w].req = worker[w].req
  BY Zenon DEF TypeOK, WorkerState
<1>2. TypeOK'
  BY <1>1 DEF TypeOK
<1>3. WorkerOK' /\ QueueOK'
  BY <1>1 DEF WorkerOK, QueueOK
<1>4. DiscardLocksBlock'
  BY DEF DiscardLocksBlock
<1>5. \A v \in Workers, b \in Blocks : Runs(v, b)' <=> Runs(v, b)
  BY <1>1 DEF Runs
<1>6. \A v \in Workers, r \in Requests, b \in Blocks : Acks(v, r, b)' <=> Acks(v, r, b)
  BY <1>1 DEF Acks
<1>7. SingleRunner'
  BY <1>5 DEF SingleRunner
<1>8. Places'
  BY <1>6 DEF Places
<1>9. \A r \in Requests, b \in Blocks : InFlight(r, b)' <=> InFlight(r, b)
  BY <1>6 DEF InFlight
<1>10. PendingExact' /\ NoUseAfterComplete'
  BY <1>9, FlightSame
<1> QED BY <1>2, <1>3, <1>4, <1>7, <1>8, <1>10

\* BlockOp::complete with r >= 0.
LEMMA OpDoneStep ==
  ASSUME IInv, NEW w \in Workers, OpDone(w)
  PROVE  IInv'
<1>1. PICK pc \in {"release", "complete"} : worker' = [worker EXCEPT ![w].pc = pc]
  BY Zenon DEF OpDone
<1>2. in_discard_process' = in_discard_process /\ in_discard_process \in [Blocks -> BOOLEAN]
  BY DEF OpDone, IInv, TypeOK
<1> QED BY <1>1, <1>2, AdvanceStep, Zenon DEF OpDone

\* ReleaseDiscardBlock only clears the flag of its block.
LEMMA ReleaseStep ==
  ASSUME IInv, NEW w \in Workers, ReleaseDiscardBlock(w)
  PROVE  IInv'
<1>1. /\ \A b \in Blocks : in_discard_process'[b] => in_discard_process[b]
      /\ in_discard_process' \in [Blocks -> BOOLEAN]
  BY Zenon DEF ReleaseDiscardBlock, IInv, TypeOK
<1> QED BY <1>1, AdvanceStep, Zenon DEF ReleaseDiscardBlock

\* Taking the first chain off a block leaves the others as they were.
LEMMA PopFacts ==
  ASSUME IInv, NEW b0 \in Blocks, chain[b0] # <<>>,
         chain' = [chain EXCEPT ![b0] = Tail(chain[b0])]
  PROVE  /\ chain' \in [Blocks -> Seq(Chain)]
         /\ \A b \in Blocks : b # b0 => chain'[b] = chain[b]
         /\ chain'[b0] = Tail(chain[b0])
         /\ Head(chain[b0]).req \in Requests
         /\ InChain(chain[b0], Head(chain[b0]).req)
         /\ \A r \in Requests, b \in Blocks : InChain(chain'[b], r)
              <=> InChain(chain[b], r) /\ ~(r = Head(chain[b0]).req /\ b = b0)
         /\ \A b \in Blocks : DistinctChain(chain'[b])
         /\ in_discard_process' = in_discard_process => DiscardLocksBlock'
<1>0. chain[b0] \in Seq(Chain) /\ DistinctChain(chain[b0])
  BY DEF IInv, TypeOK, Places
<1>1. Tail(chain[b0]) \in Seq(Chain) /\ Head(chain[b0]) \in Chain
  BY <1>0
<1>2. /\ chain' \in [Blocks -> Seq(Chain)]
      /\ \A b \in Blocks : b # b0 => chain'[b] = chain[b]
      /\ chain'[b0] = Tail(chain[b0])
  BY <1>1 DEF IInv, TypeOK
<1>3. Head(chain[b0]).req \in Requests
  BY <1>1 DEF Chain
<1>4. /\ InChain(chain[b0], Head(chain[b0]).req)
      /\ \A r \in Requests : InChain(Tail(chain[b0]), r)
              <=> InChain(chain[b0], r) /\ r # Head(chain[b0]).req
      /\ DistinctChain(Tail(chain[b0]))
  BY <1>0, ChainTail
<1>5. \A r \in Requests, b \in Blocks : InChain(chain'[b], r)
              <=> InChain(chain[b], r) /\ ~(r = Head(chain[b0]).req /\ b = b0)
  BY <1>2, <1>4
<1>6. \A b \in Blocks : DistinctChain(chain'[b])
  BY <1>2, <1>4, Zenon DEF IInv, Places
<1>7. ASSUME in_discard_process' = in_discard_process, NEW b \in Blocks,
             in_discard_process[b], chain'[b] # <<>>
      PROVE  chain'[b][Len(chain'[b])].kind = "demote"
  <2>1. CASE b # b0
    BY <1>2, <1>7, <2>1 DEF IInv, DiscardLocksBlock
  <2>2. CASE b = b0
    <3>1. Len(Tail(chain[b0])) = Len(chain[b0]) - 1 /\ Len(chain[b0]) \in Nat \ {0}
      BY <1>0
    <3>2. Len(Tail(chain[b0])) # 0
      BY <1>1, <1>2, <1>7, <2>2
    <3>3. \A i \in 1..Len(Tail(chain[b0])) : Tail(chain[b0])[i] = chain[b0][i + 1]
      BY <1>0
    <3>4. Tail(chain[b0])[Len(chain[b0]) - 1] = chain[b0][Len(chain[b0])]
      <4> DEFINE n == Len(chain[b0])
                 m == Len(Tail(chain[b0]))
      <4>1. m = n - 1 /\ n \in Nat \ {0} /\ m # 0
        BY <3>1, <3>2
      <4>2. ASSUME NEW k, NEW l, l = k - 1, k \in Nat \ {0}, l # 0
            PROVE  k - 1 \in 1..l /\ (k - 1) + 1 = k
        BY <4>2
      <4>3. n - 1 \in 1..m /\ (n - 1) + 1 = n
        BY <4>1, <4>2, Zenon
      <4> QED BY <3>3, <4>3
    <3> QED BY <1>2, <1>7, <2>2, <3>1, <3>4 DEF IInv, DiscardLocksBlock
  <2> QED BY <2>1, <2>2, Zenon
<1> QED BY <1>2, <1>3, <1>4, <1>5, <1>6, <1>7 DEF DiscardLocksBlock

\* BlockRequestComplete hands the block on or gives it up, under block_mutex.
LEMMA BlockRequestCompleteStep ==
  ASSUME IInv, NEW w \in Workers, BlockRequestComplete(w)
  PROVE  IInv'
<1> USE DEF IInv
<1> PICK b0 \in Blocks, r0 \in Requests : b0 = worker[w].block /\ r0 = worker[w].req
  BY DEF BlockRequestComplete, WorkerOK
<1>0. /\ worker[w].pc = "complete"
      /\ Runs(w, b0) /\ in_process[b0] /\ chain[b0] # <<>>
      /\ r0 = Head(chain[b0]).req
  BY DEF BlockRequestComplete, WorkerOK, SingleRunner, Runs
<1>1. /\ chain' = [chain EXCEPT ![b0] = Tail(@)]
      /\ in_process' = [in_process EXCEPT ![b0] = HasNext(b0)]
      /\ worker' = [worker EXCEPT ![w].pc = "ack", ![w].call_next = HasNext(b0)]
      /\ UNCHANGED <<request_queue, rstate, pending_requests, todo, deferred,
                     in_discard_process, job_queue>>
  BY DEF BlockRequestComplete
<1>2. /\ chain' \in [Blocks -> Seq(Chain)]
      /\ \A b \in Blocks : b # b0 => chain'[b] = chain[b]
      /\ chain'[b0] = Tail(chain[b0])
      /\ InChain(chain[b0], r0)
      /\ \A r \in Requests, b \in Blocks : InChain(chain'[b], r)
              <=> InChain(chain[b], r) /\ ~(r = r0 /\ b = b0)
      /\ \A b \in Blocks : DistinctChain(chain'[b])
      /\ DiscardLocksBlock'
  <2> HIDE DEF IInv
  <2>1. chain' = [chain EXCEPT ![b0] = Tail(chain[b0])] /\ in_discard_process' = in_discard_process
    BY <1>1
  <2>2. chain[b0] # <<>> /\ Head(chain[b0]).req = r0
    BY <1>0
  <2>3. /\ chain' \in [Blocks -> Seq(Chain)]
        /\ \A b \in Blocks : b # b0 => chain'[b] = chain[b]
        /\ chain'[b0] = Tail(chain[b0])
    BY <2>1, <2>2, PopFacts, Zenon
  <2>4. DiscardLocksBlock'
    BY <2>1, <2>2, PopFacts, Zenon
  <2>5. InChain(chain[b0], r0)
    <3>1. InChain(chain[b0], Head(chain[b0]).req)
      BY <2>1, <2>2, PopFacts, Zenon
    <3> QED BY <2>2, <3>1 DEF InChain
  <2>6. \A r \in Requests, b \in Blocks : InChain(chain'[b], r)
              <=> InChain(chain[b], r) /\ ~(r = Head(chain[b0]).req /\ b = b0)
    BY <2>1, <2>2, PopFacts, Zenon
  <2>7. \A b \in Blocks : DistinctChain(chain'[b])
    BY <2>1, <2>2, PopFacts, Zenon
  <2> QED BY <2>2, <2>3, <2>4, <2>5, <2>6, <2>7, Zenon
<1>3. HasNext(b0) \in BOOLEAN /\ (HasNext(b0) <=> chain'[b0] # <<>>)
  BY <1>2 DEF HasNext
<1>4. /\ worker' \in [Workers -> WorkerState]
      /\ \A v \in Workers : v # w => worker'[v] = worker[v]
      /\ worker'[w].pc = "ack" /\ worker'[w].block = b0 /\ worker'[w].req = r0
      /\ worker'[w].call_next = HasNext(b0)
  BY <1>1, <1>3, ZenonT(40) DEF TypeOK, WorkerState
<1>5. \A b \in Blocks : in_process'[b] = IF b = b0 THEN HasNext(b0) ELSE in_process[b]
  BY <1>1 DEF TypeOK
<1>6. TypeOK'
  BY <1>1, <1>2, <1>3, <1>4 DEF TypeOK
<1>7. QueueOK'
  BY <1>1 DEF QueueOK
<1>8. \A v \in Workers, b \in Blocks :
        Runs(v, b)' <=> Runs(v, b) /\ (v = w => HasNext(b0))
  BY <1>0, <1>3, <1>4, Zenon DEF Runs
<1>9. \A v \in Workers, r \in Requests, b \in Blocks :
        Acks(v, r, b)' <=> Acks(v, r, b) \/ (v = w /\ r = r0 /\ b = b0)
  BY <1>0, <1>4, Zenon DEF Acks
<1>9a. \A v \in Workers : v # w => ~Runs(v, b0)
  BY <1>0, Zenon DEF SingleRunner
<1>10. WorkerOK'
  <2> SUFFICES ASSUME NEW v \in Workers
               PROVE  /\ worker'[v].pc # "idle" => worker'[v].block \in Blocks
                                                   /\ worker'[v].req \in Requests
                      /\ worker'[v].pc \in {"op", "release", "complete"} =>
                           worker'[v].req = Head(chain'[worker'[v].block]).req
    BY DEF WorkerOK
  <2>1. CASE v = w
    BY <1>0, <1>4, <2>1, Zenon
  <2>2. CASE v # w
    <3>1. worker[v].pc \in {"op", "release", "complete"} => worker[v].block # b0
      <4> HIDE DEF IInv
      <4>1. ~Runs(v, b0)
        BY <1>9a, <2>2, Zenon
      <4> QED BY <4>1 DEF Runs
    <3>2. worker'[v] = worker[v]
      BY <1>4, <2>2, Zenon
    <3>3. /\ worker[v].pc # "idle" => worker[v].block \in Blocks /\ worker[v].req \in Requests
          /\ worker[v].pc \in {"op", "release", "complete"} =>
               worker[v].req = Head(chain[worker[v].block]).req
      BY DEF WorkerOK
    <3>4. worker[v].pc \in {"op", "release", "complete"} =>
            chain'[worker[v].block] = chain[worker[v].block]
      BY <1>2, <3>1, <3>2, <3>3, Zenon
    <3> QED BY <3>2, <3>3, <3>4
  <2> QED BY <2>1, <2>2, Zenon
<1>11. SingleRunner'
  <2>1. \A i \in 1..Len(job_queue) : job_queue[i] # b0
    BY <1>0, Zenon DEF SingleRunner
  <2>3. ASSUME NEW b \in Blocks
        PROVE  /\ ~in_process'[b] => chain'[b] = <<>>
               /\ \A u, v \in Workers : Runs(u, b)' /\ Runs(v, b)' => u = v
               /\ \A v \in Workers : Runs(v, b)' => in_process'[b] /\ chain'[b] # <<>>
    <3>1. CASE b = b0
      BY <1>3, <1>5, <1>8, <1>9a, <3>1, Zenon
    <3>2. CASE b # b0
      BY <1>2, <1>5, <1>8, <3>2, ZenonT(40) DEF SingleRunner
    <3> QED BY <3>1, <3>2
  <2>4. ASSUME NEW b \in Blocks, NEW i \in 1..Len(job_queue), job_queue[i] = b
        PROVE  /\ \A v \in Workers : ~Runs(v, b)'
               /\ in_process'[b] /\ chain'[b] # <<>>
    <3>1. b # b0
      BY <2>1, <2>4
    <3> QED BY <1>2, <1>5, <1>8, <2>4, <3>1, Zenon DEF SingleRunner
  <2>5. ASSUME NEW b \in Blocks
        PROVE \A i, j \in 1..Len(job_queue) : job_queue[i] = b /\ job_queue[j] = b => i = j
    BY Zenon DEF SingleRunner
  <2> QED BY <1>1, <2>3, <2>4, <2>5, ZenonT(40) DEF SingleRunner
<1>12. \A v \in Workers : ~Acks(v, r0, b0)
  BY <1>0, <1>2, Zenon DEF Places
<1>13. Places'
  <2>1. ASSUME NEW q \in Requests, NEW b \in Blocks
        PROVE  /\ ~(InList(todo', q, b) /\ InList(deferred', q, b))
               /\ InChain(chain'[b], q) => ~InList(todo', q, b) /\ ~InList(deferred', q, b)
               /\ \A u \in Workers : Acks(u, q, b)' =>
                    /\ ~InList(todo', q, b) /\ ~InList(deferred', q, b) /\ ~InChain(chain'[b], q)
                    /\ \A v \in Workers : Acks(v, q, b)' => v = u
    <3>1. todo' = todo /\ deferred' = deferred
      BY <1>1, Zenon
    <3>2. InChain(chain'[b], q) <=> InChain(chain[b], q) /\ ~(q = r0 /\ b = b0)
      BY <1>2, Zenon
    <3>3. ~(InList(todo, r0, b0)) /\ ~InList(deferred, r0, b0)
      BY <1>2, Zenon DEF Places
    <3>4. \A u \in Workers : Acks(u, q, b)' <=> Acks(u, q, b) \/ (u = w /\ q = r0 /\ b = b0)
      BY <1>9, Zenon
    <3>5. ~(InList(todo, q, b) /\ InList(deferred, q, b))
      BY Zenon DEF Places
    <3>6. InChain(chain[b], q) => ~InList(todo, q, b) /\ ~InList(deferred, q, b)
      BY Zenon DEF Places
    <3>7. \A u \in Workers : Acks(u, q, b) =>
             /\ ~InList(todo, q, b) /\ ~InList(deferred, q, b) /\ ~InChain(chain[b], q)
             /\ \A v \in Workers : Acks(v, q, b) => v = u
      BY Zenon DEF Places
    <3> HIDE DEF IInv
    <3>8. ASSUME NEW u \in Workers, Acks(u, q, b)'
          PROVE  /\ ~InList(todo', q, b) /\ ~InList(deferred', q, b) /\ ~InChain(chain'[b], q)
                 /\ \A v \in Workers : Acks(v, q, b)' => v = u
      <4>1. CASE q = r0 /\ b = b0
        BY <1>12, <3>1, <3>2, <3>3, <3>4, <3>8, <4>1, Zenon
      <4>2. CASE ~(q = r0 /\ b = b0)
        BY <3>1, <3>2, <3>4, <3>7, <3>8, <4>2, Zenon
      <4> QED BY <4>1, <4>2, Zenon
    <3> QED BY <3>1, <3>2, <3>5, <3>6, <3>8, Zenon
  <2> QED BY <1>1, <1>2, <2>1 DEF Places
<1>14. \A r \in Requests, b \in Blocks : InFlight(r, b)' <=> InFlight(r, b)
  <2> HIDE DEF IInv
  <2> SUFFICES ASSUME NEW r \in Requests, NEW b \in Blocks
               PROVE  InFlight(r, b)' <=> InFlight(r, b)
    BY Zenon
  <2>1. /\ InList(todo, r, b)' <=> InList(todo, r, b)
        /\ InList(deferred, r, b)' <=> InList(deferred, r, b)
    BY <1>1, Zenon
  <2>2. InChain(chain[b], r)' <=> InChain(chain[b], r) /\ ~(r = r0 /\ b = b0)
    BY <1>2, Zenon
  <2>3. (\E v \in Workers : Acks(v, r, b))'
           <=> (\E v \in Workers : Acks(v, r, b)) \/ (r = r0 /\ b = b0)
    BY <1>9, Zenon
  <2>4. r = r0 /\ b = b0 => InChain(chain[b], r)
    BY <1>2, Zenon
  <2> QED BY <2>1, <2>2, <2>3, <2>4, Zenon DEF InFlight
<1>15. PendingExact' /\ NoUseAfterComplete'
  BY <1>1, <1>14, FlightSame
<1> QED BY <1>2, <1>6, <1>7, <1>10, <1>11, <1>13, <1>15

\* Reporting a finished block request closes its request when it was the last
\* one, and the thread goes on with the next chain of the block, if any.
LEMMA AcknowledgeStep ==
  ASSUME IInv, NEW w \in Workers, Acknowledge(w)
  PROVE  IInv'
<1> USE DEF IInv
<1> PICK b0 \in Blocks, r0 \in Requests : b0 = worker[w].block /\ r0 = worker[w].req
  BY Zenon DEF Acknowledge, WorkerOK
<1>0. /\ worker[w].pc = "ack" /\ RequestComplete(r0)
      /\ worker' = [worker EXCEPT ![w] =
                      IF worker[w].call_next THEN StartOf(b0, chain[b0]) ELSE Idle]
      /\ UNCHANGED <<request_queue, todo, deferred, in_process, in_discard_process,
                     chain, job_queue>>
  BY DEF Acknowledge
<1>1. worker[w].call_next => Runs(w, b0) /\ chain[b0] # <<>>
  BY <1>0, Zenon DEF Runs, SingleRunner
<1>2. /\ worker' \in [Workers -> WorkerState]
      /\ \A v \in Workers : v # w => worker'[v] = worker[v]
      /\ worker[w].call_next => /\ worker'[w].pc \in {"op", "complete"}
                                /\ worker'[w].block = b0
                                /\ worker'[w].req = Head(chain[b0]).req
                                /\ worker'[w].req \in Requests
      /\ ~worker[w].call_next => worker'[w] = Idle
  <2>1. CASE worker[w].call_next
    BY <1>0, <1>1, <2>1, StartOfType, Zenon DEF TypeOK
  <2>2. CASE ~worker[w].call_next
    <3>1. Idle \in WorkerState
      BY DEF Idle, WorkerState
    <3> QED BY <1>0, <2>2, <3>1, Zenon DEF TypeOK
  <2> QED BY <2>1, <2>2, Zenon
<1>3. WorkerOK'
  BY <1>0, <1>2, Zenon DEF WorkerOK, Idle
<1>4. \A v \in Workers, b \in Blocks : Runs(v, b)' <=> Runs(v, b)
  BY <1>0, <1>2, Zenon DEF Runs, Idle
<1>5. \A v \in Workers, r \in Requests, b \in Blocks :
        Acks(v, r, b)' <=> Acks(v, r, b) /\ v # w
  BY <1>0, <1>2, Zenon DEF Acks, Idle
<1>6. \A v \in Workers : Acks(v, r0, b0) <=> v = w
  <2>1. Acks(w, r0, b0) BY <1>0, Zenon DEF Acks
  <2>2. \A v \in Workers : Acks(v, r0, b0) => v = w
    BY <2>1, Zenon DEF Places
  <2> QED BY <2>1, <2>2, Zenon
<1>7. \A r \in Requests, b \in Blocks : Acks(w, r, b) => r = r0 /\ b = b0
  BY DEF Acks
<1>8. SingleRunner' /\ DiscardLocksBlock'
  <2>1. SingleRunner'
    <3> HIDE DEF IInv
    <3> QED BY <1>0, <1>4, RunnerSame, Zenon DEF IInv
  <2>2. DiscardLocksBlock' BY <1>0, Zenon DEF DiscardLocksBlock
  <2> QED BY <2>1, <2>2
<1>9. Places'
  BY <1>0, <1>5, Zenon DEF Places
<1>10. InFlight(r0, b0)
  BY <1>6 DEF InFlight
<1>11. \A r \in Requests, b \in Blocks :
         InFlight(r, b)' <=> InFlight(r, b) /\ ~(r = r0 /\ b = b0)
  <2>1. ASSUME NEW r \in Requests, NEW b \in Blocks
        PROVE  (\E v \in Workers : Acks(v, r, b)')
                  <=> (\E v \in Workers : Acks(v, r, b)) /\ ~(r = r0 /\ b = b0)
    BY <1>5, <1>6, <1>7
  <2>2. ~InList(todo, r0, b0) /\ ~InList(deferred, r0, b0) /\ ~InChain(chain[b0], r0)
    BY <1>6, Zenon DEF Places
  <2> QED BY <1>0, <2>1, <2>2, Zenon DEF InFlight
<1>12. /\ PendingExact' /\ NoUseAfterComplete'
       /\ pending_requests' \in [Requests -> Nat]
       /\ rstate' \in [Requests -> {"new", "queued", "open", "done"}]
       /\ \A r \in Requests : rstate[r] = "queued" => rstate'[r] = "queued"
  BY <1>0, <1>10, <1>11, FlightRemove, Zenon
<1>13. TypeOK'
  BY <1>0, <1>2, <1>12, Zenon DEF TypeOK
<1>14. QueueOK'
  <2>1. \A i \in 1..Len(request_queue) : request_queue[i] \in Requests
    BY DEF TypeOK
  <2> QED BY <1>0, <1>12, <2>1, Zenon DEF QueueOK
<1> QED BY <1>3, <1>8, <1>9, <1>12, <1>13, <1>14, Zenon

\* A failed BlockOp reports its request once and abandons the block.
LEMMA OpFailedStep ==
  ASSUME IInv, NEW w \in Workers, OpFailed(w)
  PROVE  IInv'
<1> USE DEF IInv
<1> PICK b0 \in Blocks, r0 \in Requests : b0 = worker[w].block /\ r0 = worker[w].req
  BY Zenon DEF OpFailed, WorkerOK
<1>0. /\ worker[w].pc = "op" /\ RequestComplete(r0)
      /\ chain' = [chain EXCEPT ![b0] = Tail(chain[b0])]
      /\ worker' = [worker EXCEPT ![w] = Idle]
      /\ UNCHANGED <<request_queue, todo, deferred, in_process, in_discard_process, job_queue>>
  BY DEF OpFailed
<1>1. /\ Runs(w, b0) /\ in_process[b0] /\ chain[b0] # <<>>
      /\ r0 = Head(chain[b0]).req
  BY <1>0, Zenon DEF WorkerOK, SingleRunner, Runs
<1>2. /\ chain' \in [Blocks -> Seq(Chain)]
      /\ \A b \in Blocks : b # b0 => chain'[b] = chain[b]
      /\ InChain(chain[b0], r0)
      /\ \A r \in Requests, b \in Blocks : InChain(chain'[b], r)
              <=> InChain(chain[b], r) /\ ~(r = r0 /\ b = b0)
      /\ \A b \in Blocks : DistinctChain(chain'[b])
      /\ DiscardLocksBlock'
  <2> HIDE DEF IInv
  <2>1. in_discard_process' = in_discard_process
    BY <1>0
  <2>2. /\ chain' \in [Blocks -> Seq(Chain)]
        /\ \A b \in Blocks : b # b0 => chain'[b] = chain[b]
    BY <1>0, <1>1, PopFacts, Zenon
  <2>3. InChain(chain[b0], r0)
    <3>1. InChain(chain[b0], Head(chain[b0]).req)
      BY <1>0, <1>1, PopFacts, Zenon
    <3> QED BY <1>1, <3>1 DEF InChain
  <2>4. \A r \in Requests, b \in Blocks : InChain(chain'[b], r)
              <=> InChain(chain[b], r) /\ ~(r = Head(chain[b0]).req /\ b = b0)
    BY <1>0, <1>1, PopFacts, Zenon
  <2>5. (\A b \in Blocks : DistinctChain(chain'[b])) /\ DiscardLocksBlock'
    BY <1>0, <1>1, <2>1, PopFacts, Zenon
  <2> QED BY <1>1, <2>2, <2>3, <2>4, <2>5, ZenonT(40)
<1>3. /\ worker' \in [Workers -> WorkerState]
      /\ \A v \in Workers : v # w => worker'[v] = worker[v]
      /\ worker'[w] = Idle
  BY <1>0 DEF TypeOK, WorkerState, Idle
<1>4. \A v \in Workers : v # w => ~Runs(v, b0)
  BY <1>1, Zenon DEF SingleRunner
<1>5. WorkerOK'
  <2> SUFFICES ASSUME NEW v \in Workers
               PROVE  /\ worker'[v].pc # "idle" => worker'[v].block \in Blocks
                                                   /\ worker'[v].req \in Requests
                      /\ worker'[v].pc \in {"op", "release", "complete"} =>
                           worker'[v].req = Head(chain'[worker'[v].block]).req
    BY DEF WorkerOK
  <2>1. CASE v = w
    <3>1. Idle.pc = "idle"
      BY DEF Idle
    <3>2. worker'[w].pc = "idle"
      BY <1>3, <3>1, Zenon
    <3> QED BY <2>1, <3>2
  <2>2. CASE v # w
    <3>1. worker[v].pc \in {"op", "release", "complete"} => worker[v].block # b0
      BY <1>4, <2>2 DEF Runs
    <3> QED BY <1>2, <1>3, <2>2, <3>1, ZenonT(40) DEF WorkerOK
  <2> QED BY <2>1, <2>2, Zenon
<1>6. \A v \in Workers, b \in Blocks : Runs(v, b)' <=> Runs(v, b) /\ v # w
  BY <1>0, <1>3 DEF Runs, Idle
<1>7. \A v \in Workers, r \in Requests, b \in Blocks : Acks(v, r, b)' <=> Acks(v, r, b)
  BY <1>0, <1>3 DEF Acks, Idle
<1>8. SingleRunner'
  <2>1. \A i \in 1..Len(job_queue) : job_queue[i] # b0
    BY <1>1, Zenon DEF SingleRunner
  <2>2. ASSUME NEW b \in Blocks
        PROVE  /\ ~in_process[b] => chain'[b] = <<>>
               /\ \A u, v \in Workers : Runs(u, b)' /\ Runs(v, b)' => u = v
               /\ \A v \in Workers : Runs(v, b)' => in_process[b] /\ chain'[b] # <<>>
    <3>1. CASE b = b0
      BY <1>1, <1>4, <1>6, <3>1
    <3>2. CASE b # b0
      BY <1>2, <1>6, <3>2, Zenon DEF SingleRunner
    <3> QED BY <3>1, <3>2, Zenon
  <2>3. ASSUME NEW b \in Blocks, NEW i \in 1..Len(job_queue), job_queue[i] = b
        PROVE  /\ \A v \in Workers : ~Runs(v, b)'
               /\ in_process[b] /\ chain'[b] # <<>>
    <3>1. b # b0
      BY <2>1, <2>3
    <3> QED BY <1>2, <1>6, <2>3, <3>1, Zenon DEF SingleRunner
  <2>4. ASSUME NEW b \in Blocks
        PROVE \A i, j \in 1..Len(job_queue) : job_queue[i] = b /\ job_queue[j] = b => i = j
    BY Zenon DEF SingleRunner
  <2> QED BY <1>0, <2>2, <2>3, <2>4, Zenon DEF SingleRunner
<1>9. Places'
  BY <1>0, <1>2, <1>7, SMTT(40) DEF Places
<1>10. InFlight(r0, b0)
  BY <1>2, Zenon DEF InFlight
<1>11. \A r \in Requests, b \in Blocks :
         InFlight(r, b)' <=> InFlight(r, b) /\ ~(r = r0 /\ b = b0)
  <2>1. /\ ~InList(todo, r0, b0) /\ ~InList(deferred, r0, b0)
        /\ \A v \in Workers : ~Acks(v, r0, b0)
    BY <1>2, Zenon DEF Places
  <2> QED BY <1>0, <1>2, <1>7, <2>1, SMTT(40) DEF InFlight
<1>12. /\ PendingExact' /\ NoUseAfterComplete'
       /\ pending_requests' \in [Requests -> Nat]
       /\ rstate' \in [Requests -> {"new", "queued", "open", "done"}]
       /\ \A r \in Requests : rstate[r] = "queued" => rstate'[r] = "queued"
  BY <1>0, <1>10, <1>11, FlightRemove, Zenon
<1>13. TypeOK'
  BY <1>0, <1>2, <1>3, <1>12 DEF TypeOK
<1>14. QueueOK'
  <2>1. \A i \in 1..Len(request_queue) : request_queue[i] \in Requests
    BY DEF TypeOK
  <2> QED BY <1>0, <1>12, <2>1, Zenon DEF QueueOK
<1> QED BY <1>2, <1>5, <1>8, <1>9, <1>12, <1>13, <1>14, Zenon

\* Every step of the pipeline preserves the invariant.
LEMMA NextIInv == IInv /\ [Next]_vars => IInv'
<1> SUFFICES ASSUME IInv, [Next]_vars PROVE IInv'
  OBVIOUS
<1>1. ASSUME NEW r \in Requests, Submit(r) PROVE IInv'
  BY <1>1, SubmitStep
<1>2. ASSUME NEW r \in Requests, process(r) PROVE IInv'
  BY <1>2, ProcessStep
<1>3. CASE Defer
  BY <1>3, DeferStep
<1>4. ASSUME NEW k \in ChainKinds, map_block(k) PROVE IInv'
  BY <1>4, MapBlockStep
<1>5. ASSUME NEW w \in Workers, TakeJob(w) PROVE IInv'
  BY <1>5, TakeJobStep
<1>6. ASSUME NEW w \in Workers, OpDone(w) PROVE IInv'
  BY <1>6, OpDoneStep
<1>7. ASSUME NEW w \in Workers, OpFailed(w) PROVE IInv'
  BY <1>7, OpFailedStep
<1>8. ASSUME NEW w \in Workers, ReleaseDiscardBlock(w) PROVE IInv'
  BY <1>8, ReleaseStep
<1>9. ASSUME NEW w \in Workers, BlockRequestComplete(w) PROVE IInv'
  BY <1>9, BlockRequestCompleteStep
<1>10. ASSUME NEW w \in Workers, Acknowledge(w) PROVE IInv'
  BY <1>10, AcknowledgeStep
<1>11. CASE UNCHANGED vars
  <2>1. TypeOK' /\ WorkerOK' /\ QueueOK' /\ DiscardLocksBlock'
    BY <1>11, Zenon DEF vars, IInv, TypeOK, WorkerOK, QueueOK, DiscardLocksBlock
  <2>2. Places' /\ SingleRunner'
    <3>1. /\ \A w \in Workers, b \in Blocks : Runs(w, b)' <=> Runs(w, b)
          /\ \A w \in Workers, r \in Requests, b \in Blocks : Acks(w, r, b)' <=> Acks(w, r, b)
          /\ todo' = todo /\ deferred' = deferred /\ chain' = chain
          /\ job_queue' = job_queue /\ in_process' = in_process
      BY <1>11, Zenon DEF vars, Runs, Acks
    <3>2. Places'
      BY <3>1, Zenon DEF IInv, Places
    <3>3. SingleRunner'
      BY <3>1, SingleSame DEF IInv
    <3> QED BY <3>2, <3>3
  <2>3. \A r \in Requests, b \in Blocks : InFlight(r, b)' <=> InFlight(r, b)
    BY <1>11, Zenon DEF vars, InFlight, Acks
  <2>4. PendingExact' /\ NoUseAfterComplete'
    BY <1>11, <2>3, FlightSame DEF vars, IInv
  <2> QED BY <2>1, <2>2, <2>4 DEF IInv
<1> QED BY <1>1, <1>2, <1>3, <1>4, <1>5, <1>6, <1>7, <1>8, <1>9, <1>10, <1>11
        DEF Next, MainThread, WorkerThread

\* The pipeline keeps its inductive invariant, whatever the numbers of
\* requests, blocks and pool threads and whichever BlockOps fail.
THEOREM PipelineInvariant == Spec => []IInv
<1> QED BY InitIInv, NextIInv, PTL DEF Spec

\* pending_requests never wraps, and every variable keeps its type.
THEOREM PipelineType == Spec => []TypeOK
<1>1. IInv => TypeOK
  BY DEF IInv
<1> QED BY <1>1, PipelineInvariant, PTL

\* No two pool threads run BlockOps of one block at the same time.
THEOREM PipelineSerial == Spec => []SingleRunner
<1>1. IInv => SingleRunner
  BY DEF IInv
<1> QED BY <1>1, PipelineInvariant, PTL

\* pending_requests counts the block requests still to come, so a request is
\* completed once, after the last of them.
THEOREM CompleteOnce == Spec => []PendingExact
<1>1. IInv => PendingExact
  BY DEF IInv
<1> QED BY <1>1, PipelineInvariant, PTL

\* After a request is completed and deleted, no job and no thread refers to it.
THEOREM NothingDangles == Spec => []NoUseAfterComplete
<1>1. IInv => NoUseAfterComplete
  BY DEF IInv
<1> QED BY <1>1, PipelineInvariant, PTL

\* Nothing is linked behind a demote chain until it has released its block.
THEOREM DiscardExclusive == Spec => []DiscardLocksBlock
<1>1. IInv => DiscardLocksBlock
  BY DEF IInv
<1> QED BY <1>1, PipelineInvariant, PTL

-----------------------------------------------------------------------------
(* No chain is orphaned.                                                   *)

\* A step keeps a busy block owned, unless it is a failing BlockOp of the block.
LEMMA NextKeepsOwned ==
  ASSUME IInv, [Next]_vars, NEW b \in Blocks, in_process[b] => Owned(b), in_process'[b],
         \A w \in Workers : OpFailed(w) => worker[w].block # b
  PROVE  Owned(b)'
<1>0. in_process[b] => Owned(b)
  OBVIOUS
<1>1. ASSUME NEW r \in Requests, Submit(r) \/ process(r)
      PROVE  Owned(b)'
  BY <1>0, <1>1 DEF Submit, process, Owned, Runs
<1>2. CASE Defer
  BY <1>0, <1>2 DEF Defer, Owned, Runs
<1>3. ASSUME NEW k \in ChainKinds, map_block(k)
      PROVE  Owned(b)'
  <2> PICK b0 \in Blocks : b0 = Head(todo).block
    BY <1>3, ListHead, Zenon DEF map_block, IInv, TypeOK
  <2>1. /\ in_process' = [in_process EXCEPT ![b0] = TRUE]
        /\ job_queue' = IF in_process[b0] THEN job_queue ELSE Append(job_queue, b0)
        /\ worker' = worker
    BY <1>3, Zenon DEF map_block, AddTask
  <2>2. \A i \in 1..Len(job_queue) : i \in 1..Len(job_queue') /\ job_queue'[i] = job_queue[i]
    <3>1. CASE in_process[b0]
      BY <2>1, <3>1
    <3>2. CASE ~in_process[b0]
      BY <2>1, <3>2 DEF IInv, TypeOK
    <3> QED BY <3>1, <3>2
  <2>3. CASE in_process[b]
    BY <1>0, <2>1, <2>2, <2>3, SMTT(40) DEF Owned, Runs
  <2>4. CASE ~in_process[b]
    <3>1. b = b0
      BY <1>3, <2>1, <2>4 DEF IInv, TypeOK
    <3>2. Len(job_queue) + 1 \in 1..Len(job_queue') /\ job_queue'[Len(job_queue) + 1] = b
      BY <2>1, <2>4, <3>1 DEF IInv, TypeOK
    <3> QED BY <3>2 DEF Owned
  <2> QED BY <2>3, <2>4
<1>4. ASSUME NEW w \in Workers, TakeJob(w)
      PROVE  Owned(b)'
  <2>0. job_queue \in Seq(Blocks) /\ job_queue # <<>>
    BY <1>4 DEF TakeJob, IInv, TypeOK
  <2> PICK b0 \in Blocks : b0 = Head(job_queue)
    BY <2>0
  <2>1. 1 \in 1..Len(job_queue) /\ job_queue[1] = b0
    BY <2>0
  <2>2. chain[b0] # <<>>
    BY <2>1 DEF IInv, SingleRunner
  <2>3. /\ worker[w].pc = "idle" /\ in_process' = in_process
        /\ worker' = [worker EXCEPT ![w] = StartOf(b0, chain[b0])]
        /\ job_queue' = Tail(job_queue)
    BY <1>4 DEF TakeJob
  <2>4. /\ \A v \in Workers : v # w => worker'[v] = worker[v]
        /\ worker'[w].pc \in {"op", "complete"} /\ worker'[w].block = b0
    BY <2>2, <2>3, StartOfType, Zenon DEF IInv, TypeOK
  <2>5. Runs(w, b0)'
    BY <2>4 DEF Runs
  <2>6. ASSUME NEW v \in Workers, Runs(v, b) PROVE Runs(v, b)'
    BY <2>3, <2>4, <2>6 DEF Runs
  <2>7. ASSUME NEW i \in 1..Len(job_queue), job_queue[i] = b, b # b0 PROVE Owned(b)'
    <3>1. i # 1
      BY <2>1, <2>7
    <3>2. i - 1 \in 1..Len(job_queue') /\ job_queue'[i - 1] = b
      BY <2>0, <2>3, <2>7, <3>1
    <3> QED BY <3>2 DEF Owned
  <2> QED BY <1>0, <1>4, <2>3, <2>5, <2>6, <2>7, Zenon DEF Owned
<1>5. ASSUME NEW w \in Workers, OpDone(w) \/ ReleaseDiscardBlock(w)
      PROVE  Owned(b)'
  <2>1. in_process' = in_process /\ job_queue' = job_queue
    BY <1>5 DEF OpDone, ReleaseDiscardBlock
  <2>2. /\ \A v \in Workers : v # w => worker'[v] = worker[v]
        /\ worker'[w].pc \in {"release", "complete"} /\ worker'[w].block = worker[w].block
        /\ worker[w].pc \in {"op", "release"}
    BY <1>5 DEF OpDone, ReleaseDiscardBlock, IInv, TypeOK, WorkerState
  <2>3. \A v \in Workers : Runs(v, b) => Runs(v, b)'
    BY <2>2, Zenon DEF Runs
  <2> QED BY <1>0, <1>5, <2>1, <2>3 DEF Owned
<1>6. ASSUME NEW w \in Workers, OpFailed(w)
      PROVE  Owned(b)'
  <2>1. /\ in_process' = in_process /\ job_queue' = job_queue
        /\ worker' = [worker EXCEPT ![w] = Idle] /\ worker[w].block # b
    BY <1>6 DEF OpFailed
  <2>2. \A v \in Workers : v # w => worker'[v] = worker[v]
    BY <2>1 DEF IInv, TypeOK
  <2>3. \A v \in Workers : Runs(v, b) => Runs(v, b)'
    BY <2>1, <2>2, Zenon DEF Runs
  <2> QED BY <1>0, <2>1, <2>3 DEF Owned
<1>7. ASSUME NEW w \in Workers, BlockRequestComplete(w)
      PROVE  Owned(b)'
  <2> PICK b0 \in Blocks : b0 = worker[w].block
    BY <1>7 DEF BlockRequestComplete, IInv, WorkerOK
  <2>1. /\ worker[w].pc = "complete" /\ job_queue' = job_queue
        /\ in_process' = [in_process EXCEPT ![b0] = HasNext(b0)]
        /\ worker' = [worker EXCEPT ![w].pc = "ack", ![w].call_next = HasNext(b0)]
    BY <1>7 DEF BlockRequestComplete
  <2>2. /\ \A v \in Workers : v # w => worker'[v] = worker[v]
        /\ worker'[w].pc = "ack" /\ worker'[w].block = b0
        /\ worker'[w].call_next = HasNext(b0)
    BY <2>1 DEF IInv, TypeOK, WorkerState
  <2>3. CASE b = b0
    <3>1. HasNext(b0)
      BY <1>7, <2>1, <2>3 DEF IInv, TypeOK
    <3> QED BY <2>2, <2>3, <3>1, Zenon DEF Owned, Runs
  <2>4. CASE b # b0
    <3>1. in_process[b]
      BY <1>7, <2>1, <2>4 DEF IInv, TypeOK
    <3>2. \A v \in Workers : Runs(v, b) => Runs(v, b)'
      BY <2>2, <2>4 DEF Runs
    <3> QED BY <1>0, <2>1, <3>1, <3>2 DEF Owned
  <2> QED BY <2>3, <2>4
<1>8. ASSUME NEW w \in Workers, Acknowledge(w)
      PROVE  Owned(b)'
  <2> PICK b0 \in Blocks : b0 = worker[w].block
    BY <1>8, Zenon DEF Acknowledge, IInv, WorkerOK
  <2>1. /\ worker[w].pc = "ack" /\ job_queue' = job_queue /\ in_process' = in_process
        /\ worker' = [worker EXCEPT ![w] =
                        IF worker[w].call_next THEN StartOf(b0, chain[b0]) ELSE Idle]
    BY <1>8 DEF Acknowledge
  <2>2. worker[w].call_next => chain[b0] # <<>>
    BY <2>1, Zenon DEF IInv, SingleRunner, Runs
  <2>3. /\ \A v \in Workers : v # w => worker'[v] = worker[v]
        /\ worker[w].call_next => /\ worker'[w].pc \in {"op", "complete"}
                                  /\ worker'[w].block = b0
    BY <2>1, <2>2, StartOfType, Zenon DEF IInv, TypeOK
  <2>4. \A v \in Workers : Runs(v, b) => Runs(v, b)'
    BY <2>1, <2>3, Zenon DEF Runs
  <2> QED BY <1>0, <1>8, <2>1, <2>4 DEF Owned
<1>9. CASE UNCHANGED vars
  BY <1>0, <1>9 DEF vars, Owned, Runs
<1> QED BY <1>1, <1>2, <1>3, <1>4, <1>5, <1>6, <1>7, <1>8, <1>9
        DEF Next, MainThread, WorkerThread

\* Only a failed BlockOp leaves a block busy with neither a job nor a thread: the
\* append of map_block is never missed by BlockRequestComplete.
THEOREM PipelineNoOrphan == Spec => NoOrphan
<1>1. ASSUME IInv, [Next]_vars PROVE [OnlyFailureAbandons]_vars
  <2> SUFFICES ASSUME NEW b \in Blocks, Abandoned(b)', ~Abandoned(b),
                      \A w \in Workers : OpFailed(w) => worker[w].block # b
               PROVE  FALSE
    BY DEF OnlyFailureAbandons
  <2>1. (in_process[b] => Owned(b)) /\ in_process'[b] /\ ~Owned(b)'
    BY DEF Abandoned
  <2>2. Owned(b)'
    BY <1>1, <2>1, NextKeepsOwned
  <2> QED BY <2>1, <2>2
<1> QED BY <1>1, PipelineInvariant, PTL DEF Spec, NoOrphan
=============================================================================
