------------------------- MODULE CachePolicyProofs --------------------------
(* No cache entry is lost or shared, for any number of blocks, entries and  *)
(* sectors, in either mode, with any store operation failing.               *)
EXTENDS CachePolicy, FiniteSetTheorems, TLAPS

-----------------------------------------------------------------------------
(* The chains of BlockOps that map links, and what is left of them.         *)

Write == <<"WriteToBackend", "data_ptr">>
Done == <<"BlockRequestComplete", "">>
Release == <<"ReleaseDiscardBlock", "">>
Free == <<"UpdateLRU", "free">>
Forget == <<"UpdateCacheMeta", "UNPROMOTED">>
Reset == <<"ResetCacheEntry", "entry">>
Punch == <<"DemoteBlockToCache", "entry">>
Discard == <<"DiscardBlockToBackend", "">>
Flush == <<"FlushBlockToBackend", "entry">>

\* Ops that do not touch the entry, ops that leave it with the block, all ops.
LooseOp == {Write, Done}
PlainOp ==
  LooseOp \cup
  {<<"ReadBlockFromCache", "data_ptr">>, <<"ReadBlockFromCache", "block_buffer">>,
   <<"PromoteBlockFromBackend", "data_ptr">>, <<"PromoteBlockFromBackend", "block_buffer">>,
   <<"PromoteFromBackend", "block_buffer">>, <<"ReadFromBuffer", "block_buffer">>,
   <<"WriteToBuffer", "block_buffer">>,
   <<"WriteBlockToCache", "data_ptr">>, <<"WriteBlockToCache", "block_buffer">>,
   <<"UpdateCacheMeta", "FLUSHED">>, <<"UpdateCacheMeta", "PROMOTED_UNFLUSHED">>,
   <<"UpdateLRU", "status">>, Flush}
Op == PlainOp \cup {Release, Free, Forget, Reset, Punch, Discard}

Loose == Seq(LooseOp)
Plain == Seq(PlainOp)

\* op is next and what comes after it is in rest.
Before(op, rest) == {o \in Seq(Op) : o # <<>> /\ Head(o) = op /\ Tail(o) \in rest}

AtRelease == Before(Release, Loose)
AtFree == Before(Free, AtRelease)
AtForget == Before(Forget, AtFree)
AtReset == Before(Reset, AtForget)
AtPunch == Before(Punch, AtReset)

\* The block still points to the entry it is about to lose; it no longer does
\* and the entry is not free yet; it has none to lose.
Keeping == AtReset \cup AtPunch \cup Before(Flush, AtPunch) \cup Before(Discard, AtPunch)
Leaving == AtForget \cup AtFree
Releasing == AtRelease \cup Before(Discard, AtRelease)

Rec == {c \in [io_type : IoTypes, off : Sectors, len : 1..SectorCount, val : Vals \cup {Zero},
               entry : Entries \cup {None}, ops : Seq(Op), data_ptr : Data, block_buffer : Data] :
          c.off + c.len <= SectorCount}

-----------------------------------------------------------------------------
(* The inductive invariant, one block at a time: s is its chains, e its      *)
(* entry, disc its in_discard_process and m its meta.                        *)

\* What a linked chain says about its block.
Linked(c, e, disc, m) ==
  \/ c.ops \in Loose
  \/ c.ops \in Plain /\ c.entry = e /\ e # None
  \/ c.ops \in Keeping /\ c.entry = e /\ e # None /\ disc
  \/ c.ops \in AtForget /\ c.entry \in Entries /\ e = None /\ disc
  \/ c.ops \in AtFree /\ c.entry \in Entries /\ e = None /\ disc /\ m.st = "UNPROMOTED"
  \/ c.ops \in Releasing /\ disc

\* The entry the block has or is giving back.
HeldBy(s, e) ==
  IF e # None THEN {e}
  ELSE IF s # <<>> /\ s[1].ops \in Leaving THEN {s[1].entry} ELSE {}

BlockOk(s, e, disc, m) ==
  /\ s \in Seq(Rec) /\ e \in Entries \cup {None} /\ disc \in BOOLEAN
  /\ \A i \in 1..Len(s) : Linked(s[i], e, disc, m)
  /\ \A i \in 1..Len(s) : i < Len(s) => s[i].ops \in Loose \cup Plain
  /\ \A i \in 1..Len(s) : i > 1 => s[i].ops \notin Leaving
  /\ m.st # "UNPROMOTED" => m.id \in HeldBy(s, e)

HeldNow(b) == HeldBy(chain[b], entry[b])

Partition ==
  /\ free_lru \subseteq Entries
  /\ \A b \in Blocks : HeldNow(b) \cap free_lru = {}
  /\ \A b, c \in Blocks : b # c => HeldNow(b) \cap HeldNow(c) = {}
  /\ \A e \in Entries : e \in free_lru \/ \E b \in Blocks : e \in HeldNow(b)

Shape ==
  /\ chain = [b \in Blocks |-> chain[b]]
  /\ entry = [b \in Blocks |-> entry[b]]
  /\ in_discard_process = [b \in Blocks |-> in_discard_process[b]]
  /\ meta = [b \in Blocks |-> meta[b]]
  /\ cache \in [Entries -> Data]
  /\ back \in [Blocks -> Data]

EntryInv ==
  /\ Shape
  /\ \A b \in Blocks : BlockOk(chain[b], entry[b], in_discard_process[b], meta[b])
  /\ Partition

-----------------------------------------------------------------------------
(* Sequences.                                                               *)

\* Replacing the first element.
LEMMA ReplaceHead ==
  ASSUME NEW R, NEW s \in Seq(R), s # <<>>, NEW d \in R
  PROVE  /\ <<d>> \o Tail(s) \in Seq(R)
         /\ Len(<<d>> \o Tail(s)) = Len(s)
         /\ <<d>> \o Tail(s) # <<>>
         /\ (<<d>> \o Tail(s))[1] = d
         /\ \A i \in 2..Len(s) : (<<d>> \o Tail(s))[i] = s[i]
  OBVIOUS

\* Linking one more.
LEMMA AppendOne ==
  ASSUME NEW R, NEW s \in Seq(R), NEW d \in R
  PROVE  /\ Append(s, d) \in Seq(R)
         /\ Len(Append(s, d)) = Len(s) + 1
         /\ \A i \in 1..Len(s) : Append(s, d)[i] = s[i]
         /\ Append(s, d)[Len(s) + 1] = d
         /\ Append(s, d) # <<>>
  OBVIOUS

\* Dropping the first.
LEMMA DropHead ==
  ASSUME NEW R, NEW s \in Seq(R), s # <<>>
  PROVE  /\ Tail(s) \in Seq(R)
         /\ Len(Tail(s)) = Len(s) - 1
         /\ \A i \in 1..Len(Tail(s)) : Tail(s)[i] = s[i + 1]
  OBVIOUS

\* The first of a concatenation.
LEMMA ConcatHead ==
  ASSUME NEW R, NEW s \in Seq(R), NEW t \in Seq(R), s # <<>>
  PROVE  s \o t \in Seq(R) /\ s \o t # <<>> /\ Head(s \o t) = Head(s) /\ Tail(s \o t) = Tail(s) \o t
  OBVIOUS

\* One element in front.
LEMMA ConcatOne ==
  ASSUME NEW R, NEW x \in R, NEW t \in Seq(R)
  PROVE  /\ <<x>> \o t \in Seq(R) /\ <<x>> \o t # <<>>
         /\ Head(<<x>> \o t) = x /\ Tail(<<x>> \o t) = t
  OBVIOUS

\* Concatenation is associative, and the empty sequence its unit.
LEMMA ConcatAssoc ==
  ASSUME NEW R, NEW s \in Seq(R), NEW t \in Seq(R), NEW u \in Seq(R)
  PROVE  (s \o t) \o u = s \o (t \o u) /\ <<>> \o s = s /\ s \o <<>> = s
  OBVIOUS

Has(s, x) == \E i \in 1..Len(s) : s[i] = x

\* An element of a sequence is its first or one of the rest.
LEMMA InHeadOrTail ==
  ASSUME NEW R, NEW s \in Seq(R), s # <<>>, NEW x
  PROVE  Has(s, x) <=> (Head(s) = x \/ Has(Tail(s), x))
  <1> USE DEF Has
  <1>1. s[1] = Head(s) /\ Len(s) \in Nat \ {0} OBVIOUS
  <1>2. \A i \in 2..Len(s) : i - 1 \in 1..Len(Tail(s)) /\ Tail(s)[i - 1] = s[i] OBVIOUS
  <1>3. \A i \in 1..Len(Tail(s)) : i + 1 \in 1..Len(s) /\ Tail(s)[i] = s[i + 1] OBVIOUS
  <1>4. \A i \in 1..Len(s) : i = 1 \/ i \in 2..Len(s) OBVIOUS
  <1>5. ASSUME NEW i \in 1..Len(s), s[i] = x
        PROVE  Head(s) = x \/ \E j \in 1..Len(Tail(s)) : Tail(s)[j] = x
    <2>1. CASE i = 1 BY <1>1, <1>5, <2>1
    <2>2. CASE i \in 2..Len(s) BY <1>2, <1>5, <2>2, Zenon
    <2>3. QED BY <1>4, <2>1, <2>2
  <1>6. ASSUME NEW j \in 1..Len(Tail(s)), Tail(s)[j] = x PROVE \E i \in 1..Len(s) : s[i] = x
    BY <1>3, <1>6
  <1>7. Head(s) = x => \E i \in 1..Len(s) : s[i] = x BY <1>1
  <1>8. QED BY <1>5, <1>6, <1>7

-----------------------------------------------------------------------------
(* Chains of ops.                                                           *)

\* The ops of an eviction are of their own.
LEMMA OpsApart ==
  /\ {Release, Free, Forget, Reset, Punch, Discard} \cap PlainOp = {}
  /\ Free \notin {Release, Forget, Reset, Punch, Discard, Flush}
  /\ Forget \notin {Release, Reset, Punch, Discard, Flush}
  /\ Reset \notin {Release, Punch, Discard, Flush}
  <1> USE DEF Release, Free, Forget, Reset, Punch, Discard, Flush
  <1>1. Free \notin {Release, Forget, Reset, Punch, Discard, Flush} OBVIOUS
  <1>2. Forget \notin {Release, Reset, Punch, Discard, Flush} OBVIOUS
  <1>3. Reset \notin {Release, Punch, Discard, Flush} OBVIOUS
  <1> USE DEF PlainOp, LooseOp, Write, Done
  <1>4. Release \notin PlainOp OBVIOUS
  <1>5. Free \notin PlainOp OBVIOUS
  <1>6. Forget \notin PlainOp OBVIOUS
  <1>7. Reset \notin PlainOp OBVIOUS
  <1>8. Punch \notin PlainOp OBVIOUS
  <1>9. Discard \notin PlainOp OBVIOUS
  <1> HIDE DEF Release, Free, Forget, Reset, Punch, Discard, Flush, PlainOp, LooseOp, Write, Done
  <1>10. QED BY <1>1, <1>2, <1>3, <1>4, <1>5, <1>6, <1>7, <1>8, <1>9

\* A chain that is next to forget or free its entry is of no other kind.
LEMMA LeavingApart ==
  ASSUME NEW o \in Leaving
  PROVE  o \notin Loose \cup Plain \cup Keeping \cup Releasing
  <1>1. o # <<>> /\ Head(o) \in {Forget, Free} BY DEF Leaving, AtForget, AtFree, Before
  <1>2. Head(o) \notin LooseOp \cup PlainOp /\ Head(o) \notin {Reset, Punch, Flush, Discard, Release}
    BY <1>1, OpsApart DEF PlainOp
  <1>3. o \notin Loose /\ o \notin Plain BY <1>1, <1>2 DEF Loose, Plain
  <1>4. o \notin Keeping BY <1>2 DEF Keeping, AtReset, AtPunch, Before
  <1>5. o \notin Releasing BY <1>2 DEF Releasing, AtRelease, Before
  <1>6. QED BY <1>3, <1>4, <1>5

\* The kinds of chains are sequences of ops.
LEMMA KindsAreOps == Loose \cup Plain \cup Keeping \cup Leaving \cup Releasing \subseteq Seq(Op)
  <1>1. ASSUME NEW o \in Loose PROVE o \in Seq(Op)
    <2>1. LooseOp \subseteq Op BY DEF Op, PlainOp
    <2>2. QED BY <1>1, <2>1 DEF Loose
  <1>2. ASSUME NEW o \in Plain PROVE o \in Seq(Op)
    <2>1. PlainOp \subseteq Op BY DEF Op
    <2>2. QED BY <1>2, <2>1 DEF Plain
  <1>3. Keeping \cup Leaving \cup Releasing \subseteq Seq(Op)
    BY Zenon DEF Keeping, Leaving, Releasing, AtReset, AtPunch, AtForget, AtFree, AtRelease, Before
  <1>4. QED BY <1>1, <1>2, <1>3

\* The entry of a chain that is leaving, and no other, is still to be freed by a
\* chain whose block does not point to it any more.
LEMMA PendingFree ==
  ASSUME NEW o
  PROVE  /\ o \in Loose \cup Releasing => ~Has(o, Free)
         /\ o \in Leaving => Has(o, Free) /\ ~Has(o, Reset)
  <1>1. ASSUME NEW u \in Loose PROVE ~Has(u, Free) /\ ~Has(u, Reset)
    <2>1. \A i \in 1..Len(u) : u[i] \in LooseOp BY DEF Loose
    <2>2. Free \notin LooseOp /\ Reset \notin LooseOp BY OpsApart DEF PlainOp
    <2>3. QED BY <2>1, <2>2 DEF Has
  <1>2. ASSUME NEW u \in AtRelease PROVE ~Has(u, Free) /\ ~Has(u, Reset)
    <2>1. u \in Seq(Op) /\ u # <<>> /\ Head(u) = Release /\ Tail(u) \in Loose BY DEF AtRelease, Before
    <2>2. QED BY <1>1, <2>1, InHeadOrTail, OpsApart
  <1>3. ASSUME NEW u \in Before(Discard, AtRelease) PROVE ~Has(u, Free)
    <2>1. u \in Seq(Op) /\ u # <<>> /\ Head(u) = Discard /\ Tail(u) \in AtRelease BY DEF Before
    <2>2. QED BY <1>2, <2>1, InHeadOrTail, OpsApart
  <1>4. ASSUME NEW u \in AtFree PROVE Has(u, Free) /\ ~Has(u, Reset)
    <2>1. u \in Seq(Op) /\ u # <<>> /\ Head(u) = Free /\ Tail(u) \in AtRelease BY DEF AtFree, Before
    <2>2. QED BY <1>2, <2>1, InHeadOrTail, OpsApart
  <1>5. ASSUME NEW u \in AtForget PROVE Has(u, Free) /\ ~Has(u, Reset)
    <2>1. u \in Seq(Op) /\ u # <<>> /\ Head(u) = Forget /\ Tail(u) \in AtFree BY DEF AtForget, Before
    <2>2. QED BY <1>4, <2>1, InHeadOrTail, OpsApart
  <1>6. QED BY <1>1, <1>2, <1>3, <1>4, <1>5 DEF Releasing, Leaving

\* A chain in front of another, by its first op.
LEMMA BeforeConcat ==
  ASSUME NEW s \in Seq(Op), NEW u \in Seq(Op), s # <<>>, NEW K, Tail(s) \o u \in K
  PROVE  s \o u \in Before(Head(s), K)
  <1>1. s \o u \in Seq(Op) /\ s \o u # <<>> /\ Head(s \o u) = Head(s) BY ConcatHead
  <1>2. Tail(s \o u) = Tail(s) \o u BY ConcatHead
  <1>3. QED BY <1>1, <1>2, Zenon DEF Before

\* One op in front of a chain.
LEMMA BeforeOne ==
  ASSUME NEW x \in Op, NEW u \in Seq(Op), NEW K, u \in K
  PROVE  <<x>> \o u \in Before(x, K) /\ <<x>> \o u \in Seq(Op)
  BY ConcatOne, Zenon DEF Before

\* The ops of a dropped entry, first to last.
LEMMA DropChain ==
  ASSUME NEW u \in Seq(Op), u \in AtRelease
  PROVE  DropEntryOps \o u \in AtPunch
  <1>1. {Punch, Reset, Forget, Free} \subseteq Op BY DEF Op
  <1>2. /\ <<Punch, Reset, Forget, Free>> \in Seq(Op) /\ <<Reset, Forget, Free>> \in Seq(Op)
        /\ <<Forget, Free>> \in Seq(Op) /\ <<Free>> \in Seq(Op)
    BY <1>1
  <1>3. /\ Tail(<<Punch, Reset, Forget, Free>>) = <<Reset, Forget, Free>>
        /\ Tail(<<Reset, Forget, Free>>) = <<Forget, Free>>
        /\ Tail(<<Forget, Free>>) = <<Free>> /\ Tail(<<Free>>) = <<>>
    OBVIOUS
  <1>4. <<Free>> \o u \in AtFree BY <1>1, BeforeOne DEF AtFree
  <1>5. <<Forget, Free>> \o u \in AtForget
    <2>1. Head(<<Forget, Free>>) = Forget /\ <<Forget, Free>> # <<>> OBVIOUS
    <2>2. Tail(<<Forget, Free>>) \o u \in AtFree BY <1>3, <1>4
    <2>3. QED BY <1>2, <2>1, <2>2, BeforeConcat, Zenon DEF AtForget
  <1>6. <<Reset, Forget, Free>> \o u \in AtReset
    <2>1. Head(<<Reset, Forget, Free>>) = Reset /\ <<Reset, Forget, Free>> # <<>> OBVIOUS
    <2>2. Tail(<<Reset, Forget, Free>>) \o u \in AtForget BY <1>3, <1>5
    <2>3. QED BY <1>2, <2>1, <2>2, BeforeConcat, Zenon DEF AtReset
  <1>7. <<Punch, Reset, Forget, Free>> \o u \in AtPunch
    <2>1. Head(<<Punch, Reset, Forget, Free>>) = Punch /\ <<Punch, Reset, Forget, Free>> # <<>> OBVIOUS
    <2>2. Tail(<<Punch, Reset, Forget, Free>>) \o u \in AtReset BY <1>3, <1>6
    <2>3. QED BY <1>2, <2>1, <2>2, BeforeConcat, Zenon DEF AtPunch
  <1>8. DropEntryOps = <<Punch, Reset, Forget, Free>>
    BY DEF DropEntryOps, Punch, Reset, Forget, Free
  <1>9. QED BY <1>7, <1>8

\* What map links is a chain of the kind that its type and the block call for.
LEMMA MapOps ==
  ASSUME NEW t \in IoTypes, NEW hit \in BOOLEAN, NEW partial \in BOOLEAN
  PROVE  Ops(t, hit, partial) \o <<Done>> \in
           CASE t = "READ" -> Plain
             [] t = "WRITE" -> IF ReadOnly THEN Loose ELSE Plain
             [] t = "DEMOTE" -> IF hit THEN Keeping ELSE Loose
             [] t = "DISCARD" -> IF hit THEN Keeping ELSE Releasing
             [] t = "FLUSH" -> IF hit THEN Plain ELSE Loose
  <1> DEFINE ops == Ops(t, hit, partial) \o <<Done>>
  <1>1. Done \in LooseOp /\ Done \in PlainOp /\ Done \in Op BY DEF LooseOp, PlainOp, Op
  <1>2. <<Done>> \in Loose /\ <<Done>> \in Plain /\ <<Done>> \in Seq(Op) BY <1>1 DEF Loose, Plain
  <1>3. \A u \in Plain : u \o <<Done>> \in Plain BY <1>2 DEF Plain
  <1>4. <<>> \o <<Done>> \in Loose BY <1>1 DEF Loose
  <1>5. CASE t = "READ"
    <2>1. ReadOps(hit, partial) \in Plain
      <3>1. CASE hit /\ partial BY <3>1 DEF ReadOps, Plain, PlainOp
      <3>2. CASE hit /\ ~partial BY <3>2 DEF ReadOps, Plain, PlainOp
      <3>3. CASE ~hit /\ partial BY <3>3 DEF ReadOps, Plain, PlainOp
      <3>4. CASE ~hit /\ ~partial BY <3>4 DEF ReadOps, Plain, PlainOp
      <3>5. QED BY <3>1, <3>2, <3>3, <3>4
    <2>2. QED BY <1>3, <1>5, <2>1 DEF Ops
  <1>6. CASE t = "WRITE"
    <2>1. << Write >> \o <<Done>> \in Loose BY DEF Loose, LooseOp
    <2>2. WriteOps(hit, partial) \in Plain
      <3>1. << <<"UpdateLRU", "status">> >> \in Plain BY DEF Plain, PlainOp
      <3>2. PICK how \in Plain : how =
            (IF write_back
               THEN << <<"UpdateCacheMeta", "PROMOTED_UNFLUSHED">> >>
               ELSE << <<"WriteToBackend", "data_ptr">>, <<"UpdateCacheMeta", "FLUSHED">> >>)
        <4>1. << <<"UpdateCacheMeta", "PROMOTED_UNFLUSHED">> >> \in Plain BY DEF Plain, PlainOp
        <4>2. <<"WriteToBackend", "data_ptr">> \in PlainOp BY DEF PlainOp, LooseOp, Write
        <4>3. <<"UpdateCacheMeta", "FLUSHED">> \in PlainOp BY DEF PlainOp
        <4>4. << <<"WriteToBackend", "data_ptr">>, <<"UpdateCacheMeta", "FLUSHED">> >> \in Plain
          BY <4>2, <4>3 DEF Plain
        <4>5. QED BY <4>1, <4>4
      <3>3. PICK what \in Plain : what =
            (IF partial
               THEN << IF hit THEN <<"ReadBlockFromCache", "data_ptr">>
                              ELSE <<"PromoteFromBackend", "block_buffer">>,
                       <<"WriteToBuffer", "block_buffer">>,
                       <<"WriteBlockToCache", "block_buffer">> >>
               ELSE << <<"WriteBlockToCache", "data_ptr">> >>)
        <4>1. PICK first \in PlainOp :
                first = IF hit THEN <<"ReadBlockFromCache", "data_ptr">>
                               ELSE <<"PromoteFromBackend", "block_buffer">>
          BY Zenon DEF PlainOp
        <4>2. {<<"WriteToBuffer", "block_buffer">>, <<"WriteBlockToCache", "block_buffer">>,
               <<"WriteBlockToCache", "data_ptr">>} \subseteq PlainOp
          BY DEF PlainOp
        <4>3. <<first, <<"WriteToBuffer", "block_buffer">>, <<"WriteBlockToCache", "block_buffer">> >> \in Plain
          BY <4>2 DEF Plain
        <4>4. << <<"WriteBlockToCache", "data_ptr">> >> \in Plain BY <4>2 DEF Plain
        <4>5. QED BY <4>1, <4>3, <4>4
      <3>4. \A u, v \in Plain : u \o v \in Plain BY DEF Plain
      <3>5. (what \o how) \o << <<"UpdateLRU", "status">> >> \in Plain BY <3>1, <3>4
      <3>6. QED BY <3>2, <3>3, <3>5 DEF WriteOps
    <2>3. QED BY <1>3, <1>6, <2>1, <2>2 DEF Ops, Write
  <1>7. CASE t = "FLUSH"
    <2>1. FlushOps \in Plain BY DEF FlushOps, Plain, PlainOp, Flush
    <2>2. QED BY <1>3, <1>4, <1>7, <2>1, Zenon DEF Ops
  <1> DEFINE u == <<Release>> \o <<Done>>
  <1>8. u \in AtRelease /\ u \in Seq(Op)
    <2>1. Release \in Op BY DEF Op
    <2>2. QED BY <1>2, <2>1, BeforeOne, Zenon DEF AtRelease
  <1> HIDE DEF u
  <1>9. {Flush, Discard, Release, Done} \subseteq Op BY DEF Op, PlainOp, LooseOp
  <1>10. /\ DropEntryOps \in Seq(Op) /\ <<Flush>> \in Seq(Op) /\ <<Discard>> \in Seq(Op)
         /\ <<Release>> \in Seq(Op) /\ <<Done>> \in Seq(Op)
    <2>1. {Punch, Reset, Forget, Free} \subseteq Op BY DEF Op
    <2>2. <<Punch, Reset, Forget, Free>> \in Seq(Op) BY <2>1
    <2>3. DropEntryOps = <<Punch, Reset, Forget, Free>>
      BY DEF DropEntryOps, Punch, Reset, Forget, Free
    <2>4. QED BY <1>9, <2>2, <2>3
  <1>11. ASSUME NEW x \in {Flush, Discard}, NEW d \in Seq(Op), NEW K, d \o u \in K
         PROVE  ((<<x>> \o d) \o <<Release>>) \o <<Done>> \in Before(x, K)
    <2>1. <<x>> \in Seq(Op) /\ x \in Op BY <1>9
    <2>2. d \o u \in Seq(Op) /\ <<x>> \o d \in Seq(Op) BY <1>8, <2>1
    <2>3. ((<<x>> \o d) \o <<Release>>) \o <<Done>> = (<<x>> \o d) \o (<<Release>> \o <<Done>>)
      BY <1>10, <2>2, ConcatAssoc
    <2>4. (<<x>> \o d) \o u = <<x>> \o (d \o u) BY <1>8, <2>1, ConcatAssoc
    <2>5. <<x>> \o (d \o u) \in Before(x, K) BY <1>11, <2>1, <2>2, BeforeOne, Zenon
    <2>6. QED BY <2>3, <2>4, <2>5, Zenon DEF u
  <1>12. CASE t = "DEMOTE"
    <2>1. CASE hit
      <3>1. DropEntryOps \o u \in AtPunch BY <1>8, DropChain
      <3>2. ((<<Flush>> \o DropEntryOps) \o <<Release>>) \o <<Done>> \in Before(Flush, AtPunch)
        BY <1>10, <1>11, <3>1
      <3>3. DemoteOps = (<<Flush>> \o DropEntryOps) \o <<Release>> BY DEF DemoteOps, Flush, Release
      <3>4. QED BY <1>12, <2>1, <3>2, <3>3 DEF Ops, Keeping
    <2>2. CASE ~hit BY <1>4, <1>12, <2>2 DEF Ops
    <2>3. QED BY <2>1, <2>2, Zenon
  <1>13. CASE t = "DISCARD"
    <2>1. DiscardOps(hit) = (<<Discard>> \o (IF hit THEN DropEntryOps ELSE <<>>)) \o <<Release>>
      BY DEF DiscardOps, Discard, Release
    <2>2. CASE hit
      <3>1. DropEntryOps \o u \in AtPunch BY <1>8, DropChain
      <3>2. ((<<Discard>> \o DropEntryOps) \o <<Release>>) \o <<Done>> \in Before(Discard, AtPunch)
        BY <1>10, <1>11, <3>1
      <3>3. QED BY <1>13, <2>1, <2>2, <3>2, Zenon DEF Ops, Keeping
    <2>3. CASE ~hit
      <3>1. <<>> \o u = u BY <1>8, ConcatAssoc
      <3>2. ((<<Discard>> \o <<>>) \o <<Release>>) \o <<Done>> \in Before(Discard, AtRelease)
        <4>1. <<>> \in Seq(Op) OBVIOUS
        <4>2. <<>> \o u \in AtRelease BY <1>8, <3>1
        <4>3. QED BY <1>11, <4>1, <4>2, Zenon
      <3>3. QED BY <1>13, <2>1, <2>3, <3>2, Zenon DEF Ops, Releasing
    <2>4. QED BY <2>2, <2>3, Zenon
  <1>14. QED BY <1>5, <1>6, <1>7, <1>12, <1>13 DEF IoTypes

-----------------------------------------------------------------------------
(* One block.                                                               *)

\* No chain of the block takes its entry away.
Steady(s, e) ==
  \A i \in 1..Len(s) : s[i].ops \in Loose \/ (s[i].ops \in Plain /\ s[i].entry = e /\ e # None)

\* Chain c is linked behind s, and the block has entry f from then on.
LinkedUp(s, e, c, f, d, m) ==
  /\ BlockOk(Append(s, c), f, d, m)
  /\ HeldBy(s, e) = IF e # None THEN {e} ELSE {}
  /\ HeldBy(Append(s, c), f) = IF f # None THEN {f} ELSE {}

\* map links a chain to a block that is not in discard, and may give it an entry.
LEMMA LinkOne ==
  ASSUME NEW s, NEW e, NEW q, NEW m, BlockOk(s, e, q, m), Steady(s, e),
         NEW c \in Rec, NEW f \in Entries \cup {None}, NEW d \in BOOLEAN,
         e # None => f = e, Linked(c, f, d, m), c.ops \notin Leaving
  PROVE  LinkedUp(s, e, c, f, d, m)
  <1> DEFINE t == Append(s, c)
  <1>1. s \in Seq(Rec) BY DEF BlockOk
  <1>2. /\ t \in Seq(Rec) /\ Len(t) = Len(s) + 1 /\ Len(s) \in Nat /\ t # <<>>
        /\ \A i \in 1..Len(s) : t[i] = s[i]
        /\ t[Len(s) + 1] = c
    BY <1>1, AppendOne
  <1> HIDE DEF t
  <1>3. ASSUME NEW i \in 1..Len(s)
        PROVE  s[i].ops \in Loose \/ (s[i].ops \in Plain /\ s[i].entry = e /\ e # None)
    BY <1>3 DEF Steady
  <1>4. \A i \in 1..Len(s) : s[i].ops \in Loose \cup Plain /\ s[i].ops \notin Leaving
    BY <1>3, LeavingApart
  <1>5. \A i \in 1..Len(s) : Linked(s[i], f, d, m) BY <1>3 DEF Linked
  <1>6. \A i \in 1..Len(t) : i \in 1..Len(s) \/ i = Len(s) + 1 BY <1>2
  <1>7. \A i \in 1..Len(t) : Linked(t[i], f, d, m) BY <1>2, <1>5, <1>6
  <1>8. \A i \in 1..Len(t) : i < Len(t) => t[i].ops \in Loose \cup Plain BY <1>2, <1>4, <1>6
  <1>9. \A i \in 1..Len(t) : t[i].ops \notin Leaving BY <1>2, <1>4, <1>6
  <1>10. 1 \in 1..Len(t) BY <1>2
  <1>11. HeldBy(t, f) = IF f # None THEN {f} ELSE {} BY <1>9, <1>10 DEF HeldBy
  <1>12. HeldBy(s, e) = IF e # None THEN {e} ELSE {}
    <2>1. s # <<>> => 1 \in 1..Len(s) BY <1>1
    <2>2. QED BY <1>4, <2>1 DEF HeldBy
  <1>13. m.st # "UNPROMOTED" => m.id \in HeldBy(t, f)
    <2>1. m.st # "UNPROMOTED" => m.id \in HeldBy(s, e) BY DEF BlockOk
    <2>2. QED BY <1>11, <1>12, <2>1
  <1>14. BlockOk(t, f, d, m) BY <1>2, <1>7, <1>8, <1>9, <1>13 DEF BlockOk
  <1>15. QED BY <1>11, <1>12, <1>14 DEF t, LinkedUp

\* The first op of the first chain is done and the chain is now d.
LEMMA StepOne ==
  ASSUME NEW s, NEW e, NEW disc, NEW m, BlockOk(s, e, disc, m), s # <<>>,
         NEW d \in Rec, NEW f \in Entries \cup {None}, NEW disc2 \in BOOLEAN, NEW m2,
         Linked(d, f, disc2, m2),
         Len(s) > 1 => f = e /\ disc2 = disc /\ d.ops \in Loose \cup Plain,
         m2.st # "UNPROMOTED" => m2.id \in HeldBy(<<d>> \o Tail(s), f)
  PROVE  BlockOk(<<d>> \o Tail(s), f, disc2, m2)
  <1> DEFINE t == <<d>> \o Tail(s)
  <1>1. s \in Seq(Rec) BY DEF BlockOk
  <1>2. /\ t \in Seq(Rec) /\ Len(t) = Len(s) /\ Len(s) \in Nat /\ t[1] = d
        /\ \A i \in 2..Len(s) : t[i] = s[i]
    BY <1>1, ReplaceHead
  <1>3. m2.st # "UNPROMOTED" => m2.id \in HeldBy(t, f) OBVIOUS
  <1> HIDE DEF t
  <1>4. \A i \in 1..Len(t) : i = 1 \/ (i \in 2..Len(s) /\ i \in 1..Len(s) /\ i > 1 /\ Len(s) > 1) BY <1>2
  <1>5. ASSUME NEW i \in 2..Len(s) PROVE Linked(s[i], f, disc2, m2) /\ s[i].ops \notin Leaving
    <2>1. i \in 1..Len(s) /\ i > 1 /\ Len(s) > 1 BY <1>2
    <2>2. Linked(s[i], e, disc, m) /\ s[i].ops \notin Leaving BY <2>1 DEF BlockOk
    <2>3. QED BY <2>1, <2>2 DEF Linked, Leaving
  <1>6. \A i \in 1..Len(t) : Linked(t[i], f, disc2, m2) BY <1>2, <1>4, <1>5
  <1>7. \A i \in 1..Len(t) : i > 1 => t[i].ops \notin Leaving BY <1>2, <1>4, <1>5
  <1>8. \A i \in 1..Len(s) : i < Len(s) => s[i].ops \in Loose \cup Plain BY DEF BlockOk
  <1>9. \A i \in 1..Len(t) : i < Len(t) => t[i].ops \in Loose \cup Plain BY <1>2, <1>4, <1>8
  <1>10. BlockOk(t, f, disc2, m2) BY <1>2, <1>3, <1>6, <1>7, <1>9 DEF BlockOk
  <1>11. QED BY <1>10 DEF t

\* The first chain is done.
LEMMA DoneOne ==
  ASSUME NEW s, NEW e, NEW disc, NEW m, BlockOk(s, e, disc, m), s # <<>>, s[1].ops \notin Leaving
  PROVE  BlockOk(Tail(s), e, disc, m) /\ HeldBy(Tail(s), e) = HeldBy(s, e)
  <1> DEFINE t == Tail(s)
  <1>1. s \in Seq(Rec) BY DEF BlockOk
  <1>2. /\ t \in Seq(Rec) /\ Len(t) = Len(s) - 1 /\ Len(s) \in Nat
        /\ \A i \in 1..Len(t) : t[i] = s[i + 1]
    BY <1>1, DropHead
  <1> HIDE DEF t
  <1>3. ASSUME NEW i \in 1..Len(t)
        PROVE  /\ Linked(t[i], e, disc, m) /\ t[i].ops \notin Leaving
               /\ i < Len(t) => t[i].ops \in Loose \cup Plain
    <2>1. i + 1 \in 1..Len(s) /\ i + 1 > 1 /\ (i < Len(t) => i + 1 < Len(s)) BY <1>2
    <2>2. t[i] = s[i + 1] BY <1>2
    <2>3. QED BY <2>1, <2>2 DEF BlockOk
  <1>4. t # <<>> => 1 \in 1..Len(t) BY <1>2
  <1>5. HeldBy(t, e) = HeldBy(s, e) BY <1>3, <1>4 DEF HeldBy
  <1>6. BlockOk(t, e, disc, m) BY <1>2, <1>3, <1>5 DEF BlockOk
  <1>7. QED BY <1>5, <1>6 DEF t

\* What the rest of a chain says, unless its first op takes or frees the entry.
LEMMA KindStep ==
  ASSUME NEW c \in Rec, NEW d \in Rec, NEW e, NEW disc, NEW m, Linked(c, e, disc, m), c.ops # <<>>,
         d.entry = c.entry, d.ops = Tail(c.ops), Head(c.ops) \notin {Free, Forget, Reset, Release}
  PROVE  /\ Linked(d, e, disc, m)
         /\ c.ops \notin Leaving /\ d.ops \notin Leaving
         /\ c.ops \in Loose \cup Plain => d.ops \in Loose \cup Plain
  <1>1. \A o \in Loose : o # <<>> => Tail(o) \in Loose BY DEF Loose
  <1>2. \A o \in Plain : o # <<>> => Tail(o) \in Plain BY DEF Plain
  <1>3. c.ops \notin AtReset /\ c.ops \notin AtForget /\ c.ops \notin AtFree /\ c.ops \notin AtRelease
    BY DEF AtReset, AtForget, AtFree, AtRelease, Before
  <1>4. c.ops \in Keeping => d.ops \in Keeping BY <1>3, Zenon DEF Keeping, AtPunch, Before
  <1>5. c.ops \in Releasing => d.ops \in Releasing BY <1>3 DEF Releasing, Before
  <1>6. Linked(d, e, disc, m) /\ d.ops \in Loose \cup Plain \cup Keeping \cup Releasing
    BY <1>1, <1>2, <1>3, <1>4, <1>5 DEF Linked
  <1>7. c.ops \notin Leaving BY <1>3 DEF Leaving
  <1>8. d.ops \notin Leaving BY <1>6, LeavingApart
  <1>9. QED BY <1>1, <1>2, <1>6, <1>7, <1>8

-----------------------------------------------------------------------------
(* Requests keep their type.                                                *)

\* What the ops make of a request is a request on the same entry.
LEMMA RecTail ==
  ASSUME NEW c \in Rec, c.ops # <<>>
  PROVE  LET d == [c EXCEPT !.ops = Tail(@)]
         IN  d \in Rec /\ d.entry = c.entry /\ d.ops = Tail(c.ops)
  <1>1. PICK o \in Seq(Op) : o = c.ops BY DEF Rec
  <1>2. Tail(o) \in Seq(Op) BY <1>1, DropHead
  <1>3. QED BY <1>1, <1>2 DEF Rec

\* A failed chain has no ops left.
LEMMA RecStop ==
  ASSUME NEW c \in Rec
  PROVE  LET d == [c EXCEPT !.ops = <<>>]
         IN  d \in Rec /\ d.entry = c.entry /\ d.ops = <<>>
  <1>1. <<>> \in Seq(Op) OBVIOUS
  <1>2. QED BY <1>1, Zenon DEF Rec

\* An op changes a buffer and nothing else of the request.
LEMMA RecData ==
  ASSUME NEW c \in Rec, NEW x \in Data
  PROVE  /\ [c EXCEPT !.data_ptr = x] \in Rec /\ [c EXCEPT !.block_buffer = x] \in Rec
         /\ [c EXCEPT !.data_ptr = x].entry = c.entry /\ [c EXCEPT !.data_ptr = x].ops = c.ops
         /\ [c EXCEPT !.block_buffer = x].entry = c.entry /\ [c EXCEPT !.block_buffer = x].ops = c.ops
  BY Zenon DEF Rec

\* Buffers hold one datum per sector.
LEMMA Buffers ==
  ASSUME NEW c \in Rec, NEW block \in Data
  PROVE  /\ [i \in Sectors |-> IF i < c.len THEN block[i] ELSE c.data_ptr[i]] \in Data
         /\ [i \in Sectors |-> IF i < c.len THEN block[c.off + i] ELSE c.data_ptr[i]] \in Data
         /\ [i \in Sectors |-> IF i < c.len THEN block[c.off + i] ELSE c.block_buffer[i]] \in Data
         /\ Overwrite(c, block) \in Data
         /\ c.data_ptr \in Data /\ c.block_buffer \in Data
  <1>1. SectorCount \in Nat BY SizesAssumption
  <1>2. c.off \in Sectors /\ c.len \in 1..SectorCount /\ c.off + c.len <= SectorCount BY DEF Rec
  <1>3. c.data_ptr \in Data /\ c.block_buffer \in Data BY DEF Rec
  <1>4. \A i \in Sectors : i < c.len => c.off + i \in Sectors BY <1>1, <1>2 DEF Sectors
  <1>5. \A i \in Sectors : InExtent(c, i) => i - c.off \in Sectors BY <1>1, <1>2 DEF Sectors, InExtent
  <1>6. Overwrite(c, block) \in Data BY <1>3, <1>5 DEF Overwrite, Data
  <1>7. QED BY <1>3, <1>4, <1>6 DEF Data

\* A new request.
LEMMA RecNew ==
  ASSUME NEW t \in IoTypes, NEW x \in Extents[t], NEW v \in Payload(t),
         NEW e \in Entries \cup {None}, NEW ops \in Seq(Op)
  PROVE  Request(t, x, v, e, ops) \in Rec /\ Request(t, x, v, e, ops).entry = e
         /\ Request(t, x, v, e, ops).ops = ops
  <1>1. x \in Sectors \X (1..SectorCount) /\ x[1] + x[2] <= SectorCount BY ExtentsAssumption
  <1>2. v \in Vals \cup {Zero} /\ (t = "WRITE" => v \in Vals) BY DEF Payload
  <1>3. SectorCount \in Nat BY SizesAssumption
  <1>4. \A i \in Sectors : i < x[2] => x[1] + i \in Sectors BY <1>1, <1>3 DEF Sectors
  <1>5. [i \in Sectors |-> IF t = "WRITE" /\ i < x[2] THEN Written(v)[x[1] + i] ELSE Garbage] \in Data
    BY <1>2, <1>4 DEF Data, Written
  <1>6. Fill(Garbage) \in Data BY DEF Fill, Data
  <1>7. QED BY <1>1, <1>2, <1>5, <1>6 DEF Request, Rec

-----------------------------------------------------------------------------
(* Steps of one block.                                                      *)

\* A step touches one block.
LEMMA Local ==
  ASSUME EntryInv, NEW b \in Blocks,
         \A c \in Blocks \ {b} : /\ chain'[c] = chain[c] /\ entry'[c] = entry[c]
                                 /\ in_discard_process'[c] = in_discard_process[c] /\ meta'[c] = meta[c],
         BlockOk(chain'[b], entry'[b], in_discard_process'[b], meta'[b])
  PROVE  /\ \A c \in Blocks : BlockOk(chain'[c], entry'[c], in_discard_process'[c], meta'[c])
         /\ \A c \in Blocks \ {b} : HeldNow(c)' = HeldNow(c)
  BY DEF EntryInv, HeldNow

\* The running request of a block.
LEMMA RunningOk ==
  ASSUME EntryInv, NEW b \in Blocks, chain[b] # <<>>
  PROVE  /\ Running(b) = chain[b][1] /\ Running(b) \in Rec
         /\ Linked(Running(b), entry[b], in_discard_process[b], meta[b])
         /\ 1 \in 1..Len(chain[b])
         /\ Len(chain[b]) > 1 => Running(b).ops \in Loose \cup Plain
  <1>1. PICK s \in Seq(Rec) : s = chain[b] BY DEF EntryInv, BlockOk
  <1>2. s[1] = Head(s) /\ s[1] \in Rec /\ 1 \in 1..Len(s) BY <1>1
  <1>3. BlockOk(s, entry[b], in_discard_process[b], meta[b]) BY <1>1 DEF EntryInv
  <1>4. QED BY <1>1, <1>2, <1>3 DEF BlockOk, Running

\* Nothing changes hands.
LEMMA SameHeld ==
  ASSUME Partition, \A x \in Blocks : HeldNow(x)' = HeldNow(x), free_lru' = free_lru
  PROVE  Partition'
  BY DEF Partition

\* An op that neither takes nor frees the entry.
LEMMA Quiet ==
  ASSUME EntryInv, NEW b \in Blocks, chain[b] # <<>>, Running(b).ops # <<>>,
         Head(Running(b).ops) \notin {Free, Forget, Reset, Release},
         NEW d \in Rec, d.entry = Running(b).entry,
         d.ops = <<>> \/ d.ops = Tail(Running(b).ops),
         chain' = [chain EXCEPT ![b] = <<d>> \o Tail(@)],
         entry' = entry, free_lru' = free_lru, in_discard_process' = in_discard_process,
         cache' \in [Entries -> Data], back' \in [Blocks -> Data],
         NEW m, meta' = [meta EXCEPT ![b] = m],
         m = meta[b] \/ (m.id = entry[b] /\ entry[b] # None)
  PROVE  EntryInv'
  <1> DEFINE c == Running(b)
             s == chain[b]
             e == entry[b]
             disc == in_discard_process[b]
             t == <<d>> \o Tail(s)
  <1>1. /\ c = s[1] /\ c \in Rec /\ Linked(c, e, disc, meta[b])
        /\ Len(s) > 1 => c.ops \in Loose \cup Plain
    BY RunningOk
  <1>2. s \in Seq(Rec) /\ e \in Entries \cup {None} /\ disc \in BOOLEAN /\ BlockOk(s, e, disc, meta[b])
    BY Zenon DEF EntryInv, BlockOk
  <1>3. /\ Linked(d, e, disc, meta[b]) /\ c.ops \notin Leaving /\ d.ops \notin Leaving
        /\ c.ops \in Loose \cup Plain => d.ops \in Loose \cup Plain
    <2>1. <<>> \in Loose BY DEF Loose
    <2>2. CASE d.ops = <<>>
      <3>1. c.ops \notin Leaving BY DEF Leaving, AtForget, AtFree, Before
      <3>2. d.ops \notin Leaving BY <2>2 DEF Leaving, AtForget, AtFree, Before
      <3>3. QED BY <2>1, <2>2, <3>1, <3>2 DEF Linked
    <2>3. CASE d.ops = Tail(c.ops) BY <1>1, <2>3, KindStep, Zenon
    <2>4. QED BY <2>2, <2>3, Zenon
  <1>4. Linked(d, e, disc, m) BY <1>3, Zenon DEF Linked, Leaving
  <1>5. t[1] = d /\ t # <<>> BY <1>2, ReplaceHead, SMTT(40)
  <1> HIDE DEF t
  <1>6. HeldBy(t, e) = HeldBy(s, e) BY <1>1, <1>3, <1>5, Zenon DEF HeldBy
  <1>7. m.st # "UNPROMOTED" => m.id \in HeldBy(t, e)
    <2>1. CASE m = meta[b] BY <1>2, <1>6, <2>1 DEF BlockOk
    <2>2. CASE m.id = e /\ e # None BY <2>2 DEF HeldBy
    <2>3. QED BY <2>1, <2>2
  <1>8. BlockOk(t, e, disc, m)
    <2>1. Len(s) > 1 => e = e /\ disc = disc /\ d.ops \in Loose \cup Plain BY <1>1, <1>3, Zenon
    <2>2. m.st # "UNPROMOTED" => m.id \in HeldBy(<<d>> \o Tail(s), e) BY <1>7 DEF t
    <2>3. s # <<>> OBVIOUS
    <2> HIDE DEF c, s, e, disc
    <2>4. BlockOk(<<d>> \o Tail(s), e, disc, m) BY <1>2, <1>4, <2>1, <2>2, <2>3, StepOne, ZenonT(40)
    <2>5. QED BY <2>4 DEF t
  <1>9. chain'[b] = t /\ \A x \in Blocks \ {b} : chain'[x] = chain[x] BY DEF t, EntryInv, Shape
  <1>10. meta'[b] = m /\ \A x \in Blocks \ {b} : meta'[x] = meta[x] BY DEF EntryInv, Shape
  <1>11. /\ \A x \in Blocks : BlockOk(chain'[x], entry'[x], in_discard_process'[x], meta'[x])
         /\ \A x \in Blocks \ {b} : HeldNow(x)' = HeldNow(x)
    BY <1>8, <1>9, <1>10, Local, Zenon
  <1>12. \A x \in Blocks : HeldNow(x)' = HeldNow(x) BY <1>6, <1>9, <1>11, Zenon DEF HeldNow
  <1>13. Partition' BY <1>12, SameHeld, Zenon DEF EntryInv
  <1>14. Shape' BY Zenon DEF EntryInv, Shape
  <1>15. QED BY <1>11, <1>13, <1>14 DEF EntryInv

\* An op that reads or writes the entry finds one; before its block is cut off
\* from the entry it is the one the block points to.
LEMMA HasEntry ==
  ASSUME EntryInv, NEW b \in Blocks, chain[b] # <<>>, Running(b).ops # <<>>,
         Head(Running(b).ops) \notin LooseOp \cup {Release, Discard}
  PROVE  /\ Running(b).entry \in Entries
         /\ Head(Running(b).ops) \notin {Forget, Free} =>
              Running(b).entry = entry[b] /\ entry[b] # None
  <1> DEFINE c == Running(b)
  <1>1. Linked(c, entry[b], in_discard_process[b], meta[b]) BY RunningOk, Zenon
  <1>2. entry[b] \in Entries \cup {None} BY Zenon DEF EntryInv, BlockOk
  <1>3. c.ops \notin Loose BY DEF Loose
  <1>4. c.ops \notin Releasing BY DEF Releasing, AtRelease, Before
  <1>5. Head(c.ops) \notin {Forget, Free} => c.ops \notin AtForget /\ c.ops \notin AtFree
    BY DEF AtForget, AtFree, Before
  <1> HIDE DEF c
  <1>6. QED BY <1>1, <1>2, <1>3, <1>4, <1>5 DEF Linked, c

QuietOps == {"ReadBlockFromCache", "PromoteBlockFromBackend", "PromoteFromBackend", "ReadFromBuffer",
             "WriteToBuffer", "WriteBlockToCache", "WriteToBackend", "FlushBlockToBackend",
             "DemoteBlockToCache", "DiscardBlockToBackend"}

\* The names of the ops.
LEMMA OpNames ==
  /\ Free[1] = "UpdateLRU" /\ Forget[1] = "UpdateCacheMeta" /\ Reset[1] = "ResetCacheEntry"
  /\ Release[1] = "ReleaseDiscardBlock" /\ Discard[1] = "DiscardBlockToBackend"
  /\ Write[1] = "WriteToBackend" /\ Done[1] = "BlockRequestComplete"
  <1>1. Free[1] = "UpdateLRU" BY DEF Free
  <1>2. Forget[1] = "UpdateCacheMeta" BY DEF Forget
  <1>3. Reset[1] = "ResetCacheEntry" BY DEF Reset
  <1>4. Release[1] = "ReleaseDiscardBlock" BY DEF Release
  <1>5. Discard[1] = "DiscardBlockToBackend" BY DEF Discard
  <1>6. Write[1] = "WriteToBackend" BY DEF Write
  <1>7. Done[1] = "BlockRequestComplete" BY DEF Done
  <1>8. QED BY <1>1, <1>2, <1>3, <1>4, <1>5, <1>6, <1>7

\* The first op by its name.
LEMMA NameOf ==
  ASSUME NEW b, NEW op, Does(b, op)
  PROVE  /\ chain[b] # <<>> /\ Running(b).ops # <<>>
         /\ op \in QuietOps => Head(Running(b).ops) \notin {Free, Forget, Reset, Release}
         /\ op \in QuietOps \ {"WriteToBackend", "DiscardBlockToBackend"} =>
              Head(Running(b).ops) \notin LooseOp \cup {Release, Discard}
  <1>1. PICK h : h = Head(Running(b).ops) OBVIOUS
  <1>2. chain[b] # <<>> /\ Running(b).ops # <<>> /\ h[1] = op BY <1>1 DEF Does
  <1> DEFINE names == {"UpdateLRU", "UpdateCacheMeta", "ResetCacheEntry", "ReleaseDiscardBlock"}
             loose == {"WriteToBackend", "BlockRequestComplete", "ReleaseDiscardBlock", "DiscardBlockToBackend"}
  <1>3. op \in QuietOps => h \notin {Free, Forget, Reset, Release}
    <2>1. \A g \in {Free, Forget, Reset, Release} : g[1] \in names BY OpNames
    <2>2. op \in QuietOps => op \notin names BY DEF QuietOps
    <2> HIDE DEF names
    <2>3. QED BY <1>2, <2>1, <2>2
  <1>4. op \in QuietOps \ {"WriteToBackend", "DiscardBlockToBackend"} => h \notin LooseOp \cup {Release, Discard}
    <2>1. \A g \in LooseOp \cup {Release, Discard} : g[1] \in loose BY OpNames DEF LooseOp
    <2>2. op \in QuietOps \ {"WriteToBackend", "DiscardBlockToBackend"} => op \notin loose BY DEF QuietOps
    <2> HIDE DEF loose
    <2>3. QED BY <1>2, <2>1, <2>2
  <1>5. QED BY <1>1, <1>2, <1>3, <1>4

\* An op that leaves the meta alone and continues with request c.
LEMMA QuietAdvance ==
  ASSUME EntryInv, NEW b \in Blocks, NEW op \in QuietOps, Does(b, op),
         NEW c \in Rec, c.entry = Running(b).entry, c.ops = Running(b).ops, Advance(b, c),
         entry' = entry, free_lru' = free_lru, in_discard_process' = in_discard_process,
         cache' \in [Entries -> Data], back' \in [Blocks -> Data], meta' = meta
  PROVE  EntryInv'
  <1>1. /\ chain[b] # <<>> /\ Running(b).ops # <<>>
        /\ Head(Running(b).ops) \notin {Free, Forget, Reset, Release}
    BY NameOf
  <1>2. PICK d : d = [c EXCEPT !.ops = Tail(@)] BY Zenon
  <1>3. d \in Rec /\ d.entry = Running(b).entry /\ d.ops = Tail(Running(b).ops) BY <1>1, <1>2, RecTail
  <1>4. chain' = [chain EXCEPT ![b] = <<d>> \o Tail(@)] BY <1>2 DEF Advance
  <1>5. PICK m : m = meta[b] OBVIOUS
  <1>6. meta' = [meta EXCEPT ![b] = m] BY <1>5 DEF EntryInv, Shape
  <1>7. QED BY <1>1, <1>3, <1>4, <1>5, <1>6, Quiet, Zenon

\* The ops that only move data keep the invariant.
LEMMA DataOps ==
  ASSUME EntryInv, NEW b \in Blocks,
         \/ ReadBlockFromCache(b) \/ PromoteBlockFromBackend(b) \/ PromoteFromBackend(b)
         \/ ReadFromBuffer(b) \/ WriteToBuffer(b) \/ WriteBlockToCache(b) \/ WriteToBackend(b)
         \/ FlushBlockToBackend(b) \/ DemoteBlockToCache(b) \/ DiscardBlockToBackend(b)
  PROVE  EntryInv'
  <1> USE DEF lists, disk
  <1>1. PICK op \in QuietOps : Does(b, op)
    BY DEF QuietOps, ReadBlockFromCache, PromoteBlockFromBackend, PromoteFromBackend, ReadFromBuffer,
           WriteToBuffer, WriteBlockToCache, WriteToBackend, FlushBlockToBackend, DemoteBlockToCache,
           DiscardBlockToBackend
  <1>2. chain[b] # <<>> /\ Running(b).ops # <<>> BY <1>1, NameOf, Zenon
  <1>3. PICK r : r = Running(b) OBVIOUS
  <1>4. r \in Rec BY <1>2, <1>3, RunningOk, Zenon
  <1>5. cache \in [Entries -> Data] /\ back \in [Blocks -> Data] BY DEF EntryInv, Shape
  <1>6. Fill(Zero) \in Data /\ Fill(Garbage) \in Data BY DEF Fill, Data
  <1>7. /\ entry' = entry /\ free_lru' = free_lru /\ in_discard_process' = in_discard_process /\ meta' = meta
    BY DEF ReadBlockFromCache, PromoteBlockFromBackend, PromoteFromBackend, ReadFromBuffer,
           WriteToBuffer, WriteBlockToCache, WriteToBackend, FlushBlockToBackend, DemoteBlockToCache,
           DiscardBlockToBackend
  <1>8. ASSUME NEW to, NEW block \in Data
        PROVE  /\ Load(r, to, block) \in Rec
               /\ Load(r, to, block).entry = r.entry /\ Load(r, to, block).ops = r.ops
    <2>1. PICK x \in Data : x = [i \in Sectors |-> IF i < r.len THEN block[i] ELSE r.data_ptr[i]]
      BY <1>4, Buffers, Zenon
    <2>2. QED BY <1>4, <2>1, RecData, Zenon DEF Load
  <1>9. CASE ReadBlockFromCache(b)
    <2>1. r.entry \in Entries
      <3>1. Does(b, "ReadBlockFromCache") BY <1>9 DEF ReadBlockFromCache
      <3>2. "ReadBlockFromCache" \in QuietOps \ {"WriteToBackend", "DiscardBlockToBackend"} BY DEF QuietOps
      <3>3. Head(Running(b).ops) \notin LooseOp \cup {Release, Discard} BY <3>1, <3>2, NameOf, Zenon
      <3>4. QED BY <1>2, <1>3, <3>3, HasEntry, Zenon
    <2>2. PICK c : c = Load(r, Arg(b), cache[r.entry]) BY Zenon
    <2>3. c \in Rec /\ c.entry = r.entry /\ c.ops = r.ops BY <1>5, <1>8, <2>1, <2>2, Zenon
    <2>4. Advance(b, c) /\ cache' = cache /\ back' = back BY <1>3, <1>9, <2>2, Zenon DEF ReadBlockFromCache
    <2>5. QED BY <1>1, <1>3, <1>5, <1>7, <2>3, <2>4, QuietAdvance, Zenon
  <1>10. CASE PromoteBlockFromBackend(b)
    <2>1. PICK c : c = Load(r, Arg(b), back[b]) OBVIOUS
    <2>2. c \in Rec /\ c.entry = r.entry /\ c.ops = r.ops BY <1>5, <1>8, <2>1, Zenon
    <2>3. Advance(b, c) /\ cache' = cache /\ back' = back BY <1>3, <1>10, <2>1 DEF PromoteBlockFromBackend
    <2>4. QED BY <1>1, <1>3, <1>5, <1>7, <2>2, <2>3, QuietAdvance, Zenon
  <1>11. CASE PromoteFromBackend(b)
    <2>1. PICK x \in Data :
            x = [i \in Sectors |-> IF i < r.len THEN back[b][r.off + i] ELSE r.block_buffer[i]]
      BY <1>4, <1>5, Buffers, Zenon
    <2>2. PICK c : c = [r EXCEPT !.block_buffer = x] BY Zenon
    <2>3. c \in Rec /\ c.entry = r.entry /\ c.ops = r.ops BY <1>4, <2>2, RecData, Zenon
    <2>4. Advance(b, c) /\ cache' = cache /\ back' = back
      BY <1>3, <1>11, <2>1, <2>2 DEF PromoteFromBackend
    <2>5. QED BY <1>1, <1>3, <1>5, <1>7, <2>3, <2>4, QuietAdvance, Zenon
  <1>12. CASE ReadFromBuffer(b)
    <2>1. PICK x \in Data :
            x = [i \in Sectors |-> IF i < r.len THEN r.block_buffer[r.off + i] ELSE r.data_ptr[i]]
      <3>1. PICK y \in Data : y = r.block_buffer BY <1>4 DEF Rec
      <3>2. QED BY <1>4, <3>1, Buffers, Zenon
    <2>2. PICK c : c = [r EXCEPT !.data_ptr = x] BY Zenon
    <2>3. c \in Rec /\ c.entry = r.entry /\ c.ops = r.ops BY <1>4, <2>2, RecData, Zenon
    <2>4. Advance(b, c) /\ cache' = cache /\ back' = back BY <1>3, <1>12, <2>1, <2>2 DEF ReadFromBuffer
    <2>5. QED BY <1>1, <1>3, <1>5, <1>7, <2>3, <2>4, QuietAdvance, Zenon
  <1>13. CASE WriteToBuffer(b)
    <2>1. PICK x \in Data : x = Overwrite(r, r.block_buffer)
      <3>1. PICK y \in Data : y = r.block_buffer BY <1>4 DEF Rec
      <3>2. QED BY <1>4, <3>1, Buffers, Zenon
    <2>2. PICK c : c = [r EXCEPT !.block_buffer = x] BY Zenon
    <2>3. c \in Rec /\ c.entry = r.entry /\ c.ops = r.ops BY <1>4, <2>2, RecData, Zenon
    <2>4. Advance(b, c) /\ cache' = cache /\ back' = back BY <1>3, <1>13, <2>1, <2>2 DEF WriteToBuffer
    <2>5. QED BY <1>1, <1>3, <1>5, <1>7, <2>3, <2>4, QuietAdvance, Zenon
  <1>14. CASE WriteBlockToCache(b)
    <2>1. Buffer(r, Arg(b)) \in Data BY <1>4, <1>6, Buffers, Zenon DEF Buffer
    <2>2. cache' \in [Entries -> Data] BY <1>3, <1>5, <1>14, <2>1, Zenon DEF WriteBlockToCache
    <2>3. Advance(b, r) /\ back' = back BY <1>3, <1>14 DEF WriteBlockToCache, Continue
    <2>4. QED BY <1>1, <1>3, <1>4, <1>5, <1>7, <2>2, <2>3, QuietAdvance
  <1>15. CASE WriteToBackend(b)
    <2>1. Overwrite(r, back[b]) \in Data BY <1>4, <1>5, Buffers, Zenon
    <2>2. back' \in [Blocks -> Data] BY <1>3, <1>5, <1>15, <2>1 DEF WriteToBackend
    <2>3. Advance(b, r) /\ cache' = cache BY <1>3, <1>15 DEF WriteToBackend, Continue
    <2>4. QED BY <1>1, <1>3, <1>4, <1>5, <1>7, <2>2, <2>3, QuietAdvance
  <1>16. CASE FlushBlockToBackend(b)
    <2>1. r.entry \in Entries
      <3>1. Does(b, "FlushBlockToBackend") BY <1>16, Zenon DEF FlushBlockToBackend
      <3>2. "FlushBlockToBackend" \in QuietOps \ {"WriteToBackend", "DiscardBlockToBackend"} BY DEF QuietOps
      <3>3. Head(Running(b).ops) \notin LooseOp \cup {Release, Discard} BY <3>1, <3>2, NameOf, Zenon
      <3>4. QED BY <1>2, <1>3, <3>3, HasEntry, Zenon
    <2>2. back' \in [Blocks -> Data] BY <1>3, <1>5, <1>6, <1>16, <2>1, Zenon DEF FlushBlockToBackend
    <2>3. Advance(b, r) /\ cache' = cache BY <1>3, <1>16, Zenon DEF FlushBlockToBackend, Continue
    <2>4. QED BY <1>1, <1>3, <1>4, <1>5, <1>7, <2>2, <2>3, QuietAdvance
  <1>17. CASE DemoteBlockToCache(b)
    <2>1. cache' \in [Entries -> Data] BY <1>5, <1>6, <1>17, Zenon DEF DemoteBlockToCache
    <2>2. Advance(b, r) /\ back' = back BY <1>3, <1>17 DEF DemoteBlockToCache, Continue
    <2>3. QED BY <1>1, <1>3, <1>4, <1>5, <1>7, <2>1, <2>2, QuietAdvance
  <1>18. CASE DiscardBlockToBackend(b)
    <2>1. back' \in [Blocks -> Data] BY <1>5, <1>6, <1>18 DEF DiscardBlockToBackend
    <2>2. Advance(b, r) /\ cache' = cache BY <1>3, <1>18 DEF DiscardBlockToBackend, Continue
    <2>3. QED BY <1>1, <1>3, <1>4, <1>5, <1>7, <2>1, <2>2, QuietAdvance
  <1>19. QED BY <1>9, <1>10, <1>11, <1>12, <1>13, <1>14, <1>15, <1>16, <1>17, <1>18

\* A failed op keeps the invariant.
LEMMA FailedOp ==
  ASSUME EntryInv, NEW b \in Blocks, OpFailed(b)
  PROVE  EntryInv'
  <1> USE DEF lists, disk
  <1>1. PICK op \in QuietOps : Does(b, op) BY Zenon DEF OpFailed, StoreOps, QuietOps
  <1>2. /\ chain[b] # <<>> /\ Running(b).ops # <<>>
        /\ Head(Running(b).ops) \notin {Free, Forget, Reset, Release}
    BY <1>1, NameOf
  <1>3. PICK d : d = [Running(b) EXCEPT !.ops = <<>>] BY Zenon
  <1>4. d \in Rec /\ d.entry = Running(b).entry /\ d.ops = <<>> BY <1>2, <1>3, RunningOk, RecStop
  <1>5. chain' = [chain EXCEPT ![b] = <<d>> \o Tail(@)] BY <1>3 DEF OpFailed
  <1>6. Fill(Zero) \in Data BY DEF Fill, Data
  <1>7. cache' \in [Entries -> Data] /\ back' \in [Blocks -> Data]
    BY <1>6 DEF OpFailed, EntryInv, Shape
  <1>8. PICK m : m = meta[b] OBVIOUS
  <1>9. meta' = [meta EXCEPT ![b] = m] BY <1>8 DEF EntryInv, Shape, OpFailed
  <1>10. entry' = entry /\ free_lru' = free_lru /\ in_discard_process' = in_discard_process BY Zenon DEF OpFailed
  <1>11. QED BY <1>2, <1>4, <1>5, <1>7, <1>8, <1>9, <1>10, Quiet, Zenon

\* What is next in a chain of an eviction, by its first op h.
LEMMA ByHead ==
  ASSUME NEW c \in Rec, NEW e, NEW disc, NEW m, Linked(c, e, disc, m), c.ops # <<>>,
         NEW h, h = Head(c.ops)
  PROVE  /\ h = Forget => c.ops \in AtForget /\ c.entry \in Entries /\ e = None /\ disc
         /\ h = Free => c.ops \in AtFree /\ c.entry \in Entries /\ e = None /\ disc /\ m.st = "UNPROMOTED"
         /\ h = Reset => c.ops \in AtReset /\ c.entry = e /\ e # None /\ disc
         /\ h = Release => c.ops \in AtRelease /\ disc
         /\ h = Done => c.ops \notin Leaving
  <1>1. c.ops \in Loose => h \in LooseOp BY SMTT(40) DEF Loose
  <1>2. c.ops \in Plain => h \in PlainOp BY DEF Plain
  <1>3. LooseOp \subseteq PlainOp BY DEF PlainOp
  <1>4. h \in {Forget, Free, Reset, Release} => c.ops \notin Loose /\ c.ops \notin Plain
    BY <1>1, <1>2, <1>3, OpsApart
  <1>5. /\ c.ops \in AtReset => h = Reset
        /\ c.ops \in AtForget => h = Forget
        /\ c.ops \in AtFree => h = Free
        /\ c.ops \in AtRelease => h = Release
        /\ c.ops \in Keeping => h \in {Reset, Punch, Flush, Discard}
        /\ c.ops \in Releasing => h \in {Release, Discard}
    BY Zenon DEF AtReset, AtForget, AtFree, AtRelease, AtPunch, Keeping, Releasing, Before
  <1>6. c.ops \in Keeping /\ h = Reset => c.ops \in AtReset
    <2>1. Reset # Punch /\ Reset # Flush /\ Reset # Discard BY OpsApart
    <2>2. QED BY <2>1 DEF Keeping, AtPunch, Before
  <1>7. c.ops \in Releasing /\ h = Release => c.ops \in AtRelease
    <2>1. Release # Discard BY DEF Release, Discard
    <2>2. QED BY <2>1 DEF Releasing, Before
  <1>8. Done \notin {Forget, Free} BY OpsApart, Zenon DEF PlainOp, LooseOp
  <1>9. Release \notin {Reset, Punch, Flush, Discard, Forget, Free}
    <2>1. Release \notin {Reset, Forget, Free} BY OpsApart
    <2>2. Release # Punch BY DEF Release, Punch
    <2>3. Release # Flush BY DEF Release, Flush
    <2>4. Release # Discard BY DEF Release, Discard
    <2>5. QED BY <2>1, <2>2, <2>3, <2>4
  <1>10. h = Forget => c.ops \in AtForget /\ c.entry \in Entries /\ e = None /\ disc
    BY <1>4, <1>5, OpsApart DEF Linked
  <1>11. h = Free => c.ops \in AtFree /\ c.entry \in Entries /\ e = None /\ disc /\ m.st = "UNPROMOTED"
    BY <1>4, <1>5, OpsApart DEF Linked
  <1>12. h = Reset => c.ops \in AtReset /\ c.entry = e /\ e # None /\ disc
    BY <1>4, <1>5, <1>6, OpsApart DEF Linked
  <1>13. h = Release => c.ops \in AtRelease /\ disc
    BY <1>4, <1>5, <1>7, <1>9 DEF Linked
  <1>14. h = Done => c.ops \notin Leaving BY <1>5, <1>8 DEF Leaving
  <1>15. QED BY <1>10, <1>11, <1>12, <1>13, <1>14, Zenon

\* An op that changes what the block says about its entry.
LEMMA Change ==
  ASSUME EntryInv, NEW b \in Blocks, chain[b] # <<>>,
         NEW d \in Rec, NEW f \in Entries \cup {None}, NEW disc2 \in BOOLEAN, NEW m2,
         Linked(d, f, disc2, m2),
         Running(b).ops \notin Loose \cup Plain,
         m2.st # "UNPROMOTED" => m2.id \in (IF f # None THEN {f} ELSE IF d.ops \in Leaving THEN {d.entry} ELSE {}),
         chain' = [chain EXCEPT ![b] = <<d>> \o Tail(@)],
         entry' = [entry EXCEPT ![b] = f],
         in_discard_process' = [in_discard_process EXCEPT ![b] = disc2],
         meta' = [meta EXCEPT ![b] = m2],
         cache' = cache, back' = back
  PROVE  /\ Shape'
         /\ \A x \in Blocks : BlockOk(chain'[x], entry'[x], in_discard_process'[x], meta'[x])
         /\ \A x \in Blocks \ {b} : HeldNow(x)' = HeldNow(x)
         /\ HeldNow(b)' = IF f # None THEN {f} ELSE IF d.ops \in Leaving THEN {d.entry} ELSE {}
  <1> DEFINE s == chain[b]
             t == <<d>> \o Tail(s)
  <1>1. BlockOk(s, entry[b], in_discard_process[b], meta[b]) /\ s \in Seq(Rec) BY Zenon DEF EntryInv, BlockOk
  <1>2. ~(Len(s) > 1)
    <2>1. Len(chain[b]) > 1 => Running(b).ops \in Loose \cup Plain BY RunningOk, Zenon
    <2>2. QED BY <2>1, Zenon
  <1>3. t[1] = d /\ t # <<>> BY <1>1, ReplaceHead, SMTT(40)
  <1> HIDE DEF t
  <1>4. HeldBy(t, f) = IF f # None THEN {f} ELSE IF d.ops \in Leaving THEN {d.entry} ELSE {}
    BY <1>3, Zenon DEF HeldBy
  <1>5. BlockOk(t, f, disc2, m2)
    <2>1. PICK s0, e0, d0, m0 : s0 = s /\ e0 = entry[b] /\ d0 = in_discard_process[b] /\ m0 = meta[b]
      OBVIOUS
    <2>2. m2.st # "UNPROMOTED" => m2.id \in HeldBy(<<d>> \o Tail(s0), f) BY <1>4, <2>1, Zenon DEF t
    <2>3. BlockOk(s0, e0, d0, m0) /\ s0 # <<>> /\ ~(Len(s0) > 1) BY <1>1, <1>2, <2>1, Zenon
    <2>4. BlockOk(<<d>> \o Tail(s0), f, disc2, m2) BY <2>2, <2>3, StepOne, Zenon
    <2>5. QED BY <2>1, <2>4, Zenon DEF t
  <1>6. /\ chain'[b] = t /\ entry'[b] = f /\ in_discard_process'[b] = disc2 /\ meta'[b] = m2
        /\ \A c \in Blocks \ {b} : /\ chain'[c] = chain[c] /\ entry'[c] = entry[c]
                                   /\ in_discard_process'[c] = in_discard_process[c] /\ meta'[c] = meta[c]
    BY DEF t, EntryInv, Shape
  <1>7. /\ \A x \in Blocks : BlockOk(chain'[x], entry'[x], in_discard_process'[x], meta'[x])
        /\ \A x \in Blocks \ {b} : HeldNow(x)' = HeldNow(x)
    BY <1>5, <1>6, Local, Zenon
  <1>8. Shape' BY Zenon DEF EntryInv, Shape
  <1>9. QED BY <1>4, <1>6, <1>7, <1>8, Zenon DEF HeldNow

\* The op of a given name.
LEMMA HeadIs ==
  ASSUME NEW h \in Op
  PROVE  /\ h[1] = "UpdateCacheMeta" /\ h[2] = "UNPROMOTED" => h = Forget
         /\ h[1] = "UpdateLRU" /\ h[2] = "free" => h = Free
         /\ h[1] = "ResetCacheEntry" => h = Reset
         /\ h[1] = "ReleaseDiscardBlock" => h = Release
         /\ h[1] = "BlockRequestComplete" => h = Done
  <1>1. \A x, y : h = <<x, y>> => h[1] = x /\ h[2] = y OBVIOUS
  <1>2. h \in {<<"ReadBlockFromCache", "data_ptr">>, <<"ReadBlockFromCache", "block_buffer">>,
               <<"PromoteBlockFromBackend", "data_ptr">>, <<"PromoteBlockFromBackend", "block_buffer">>,
               <<"PromoteFromBackend", "block_buffer">>, <<"ReadFromBuffer", "block_buffer">>,
               <<"WriteToBuffer", "block_buffer">>,
               <<"WriteBlockToCache", "data_ptr">>, <<"WriteBlockToCache", "block_buffer">>}
        => h[1] \in {"ReadBlockFromCache", "PromoteBlockFromBackend", "PromoteFromBackend",
                     "ReadFromBuffer", "WriteToBuffer", "WriteBlockToCache"}
    BY <1>1, Zenon
  <1>3. h \in {<<"UpdateCacheMeta", "FLUSHED">>, <<"UpdateCacheMeta", "PROMOTED_UNFLUSHED">>}
        => h[1] = "UpdateCacheMeta" /\ h[2] \in {"FLUSHED", "PROMOTED_UNFLUSHED"}
    BY <1>1, Zenon
  <1>4. h = <<"UpdateLRU", "status">> => h[1] = "UpdateLRU" /\ h[2] = "status" BY <1>1
  <1>5. h = Free => h[1] = "UpdateLRU" BY <1>1 DEF Free
  <1>6. h = Forget => h[1] = "UpdateCacheMeta" BY <1>1 DEF Forget
  <1>7. h = Punch => h[1] = "DemoteBlockToCache" BY <1>1 DEF Punch
  <1>8. h = Flush => h[1] = "FlushBlockToBackend" BY <1>1 DEF Flush
  <1>9. /\ h = Reset => h[1] = "ResetCacheEntry"
        /\ h = Release => h[1] = "ReleaseDiscardBlock"
        /\ h = Discard => h[1] = "DiscardBlockToBackend"
        /\ h = Write => h[1] = "WriteToBackend"
        /\ h = Done => h[1] = "BlockRequestComplete"
    BY OpNames
  <1>10. h[1] = "UpdateCacheMeta" /\ h[2] = "UNPROMOTED" => h = Forget
    BY <1>2, <1>3, <1>4, <1>5, <1>7, <1>8, <1>9 DEF Op, PlainOp, LooseOp
  <1>11. h[1] = "UpdateLRU" /\ h[2] = "free" => h = Free
    BY <1>2, <1>3, <1>4, <1>6, <1>7, <1>8, <1>9 DEF Op, PlainOp, LooseOp
  <1>12. h[1] = "ResetCacheEntry" => h = Reset
    BY <1>2, <1>3, <1>4, <1>5, <1>6, <1>7, <1>8, <1>9 DEF Op, PlainOp, LooseOp
  <1>13. h[1] = "ReleaseDiscardBlock" => h = Release
    BY <1>2, <1>3, <1>4, <1>5, <1>6, <1>7, <1>8, <1>9 DEF Op, PlainOp, LooseOp
  <1>14. h[1] = "BlockRequestComplete" => h = Done
    BY <1>2, <1>3, <1>4, <1>5, <1>6, <1>7, <1>8, <1>9 DEF Op, PlainOp, LooseOp
  <1>15. QED BY <1>10, <1>11, <1>12, <1>13, <1>14

\* A store or memory op writes the status of the entry the block has.
LEMMA MarkMeta ==
  ASSUME EntryInv, NEW b \in Blocks, UpdateCacheMeta(b), Arg(b) # "UNPROMOTED"
  PROVE  EntryInv'
  <1> USE DEF lists
  <1>1. PICK h : h = Head(Running(b).ops) OBVIOUS
  <1>2. chain[b] # <<>> /\ Running(b).ops # <<>> /\ h[1] = "UpdateCacheMeta" /\ h[2] # "UNPROMOTED"
    BY <1>1, Zenon DEF UpdateCacheMeta, Does, Arg
  <1>3. h \notin {Free, Forget, Reset, Release}
    <2>1. h # Forget
      <3>1. Forget[2] = "UNPROMOTED" BY DEF Forget
      <3>2. QED BY <1>2, <3>1
    <2>2. h # Free /\ h # Reset /\ h # Release BY <1>2, OpNames
    <2>3. QED BY <2>1, <2>2
  <1>4. h \notin LooseOp \cup {Release, Discard} BY <1>2, OpNames DEF LooseOp
  <1>5. Running(b).entry = entry[b] /\ entry[b] # None BY <1>1, <1>2, <1>3, <1>4, HasEntry, Zenon
  <1>6. PICK m : m = [st |-> Arg(b), id |-> Running(b).entry] BY Zenon
  <1>7. meta' = [meta EXCEPT ![b] = m] /\ m.id = entry[b] BY <1>5, <1>6, Zenon DEF UpdateCacheMeta
  <1>8. PICK d : d = [Running(b) EXCEPT !.ops = Tail(@)] BY Zenon
  <1>9. d \in Rec /\ d.entry = Running(b).entry /\ d.ops = Tail(Running(b).ops)
    BY <1>2, <1>8, RunningOk, RecTail
  <1>10. chain' = [chain EXCEPT ![b] = <<d>> \o Tail(@)] BY <1>8 DEF UpdateCacheMeta, Continue, Advance
  <1>11. /\ entry' = entry /\ free_lru' = free_lru /\ in_discard_process' = in_discard_process
         /\ cache' \in [Entries -> Data] /\ back' \in [Blocks -> Data]
    BY DEF UpdateCacheMeta, EntryInv, Shape
  <1>12. QED BY <1>1, <1>2, <1>3, <1>5, <1>7, <1>9, <1>10, <1>11, Quiet, Zenon

\* A finished request puts its block on one of the lists.
LEMMA Relist ==
  ASSUME EntryInv, NEW b \in Blocks, UpdateLRU(b), Arg(b) # "free"
  PROVE  EntryInv'
  <1> USE DEF lists, disk
  <1>1. PICK h : h = Head(Running(b).ops) OBVIOUS
  <1>2. chain[b] # <<>> /\ Running(b).ops # <<>> /\ h[1] = "UpdateLRU" /\ h[2] # "free"
    BY <1>1, Zenon DEF UpdateLRU, Does, Arg
  <1>3. h \notin {Free, Forget, Reset, Release}
    <2>1. h # Free
      <3>1. Free[2] = "free" BY DEF Free
      <3>2. QED BY <1>2, <3>1
    <2>2. h # Forget /\ h # Reset /\ h # Release BY <1>2, OpNames
    <2>3. QED BY <2>1, <2>2
  <1>4. PICK m : m = meta[b] OBVIOUS
  <1>5. meta' = [meta EXCEPT ![b] = m] BY <1>4 DEF EntryInv, Shape, UpdateLRU
  <1>6. PICK d : d = [Running(b) EXCEPT !.ops = Tail(@)] BY Zenon
  <1>7. d \in Rec /\ d.entry = Running(b).entry /\ d.ops = Tail(Running(b).ops)
    BY <1>2, <1>6, RunningOk, RecTail
  <1>8. chain' = [chain EXCEPT ![b] = <<d>> \o Tail(@)] BY <1>6 DEF UpdateLRU, Continue, Advance
  <1>9. /\ entry' = entry /\ free_lru' = free_lru /\ in_discard_process' = in_discard_process
        /\ cache' \in [Entries -> Data] /\ back' \in [Blocks -> Data]
    BY DEF UpdateLRU, EntryInv, Shape
  <1>10. QED BY <1>1, <1>2, <1>3, <1>4, <1>5, <1>7, <1>8, <1>9, Quiet, Zenon

\* The running request of b goes on after its op h, of class op, and becomes d.
GoesOn(b, op, h, d) ==
  /\ chain[b] # <<>> /\ h[1] = op /\ h[2] = Arg(b)
  /\ d.entry = Running(b).entry /\ d.ops = Tail(Running(b).ops)
  /\ chain' = [chain EXCEPT ![b] = <<d>> \o Tail(@)]
  /\ h = Forget => /\ Running(b).ops \in AtForget /\ d.ops \in AtFree /\ d.entry \in Entries
                   /\ entry[b] = None /\ in_discard_process[b] = TRUE
  /\ h = Free => /\ Running(b).ops \in AtFree /\ d.ops \in AtRelease /\ d.entry \in Entries
                 /\ entry[b] = None /\ in_discard_process[b] = TRUE /\ meta[b].st = "UNPROMOTED"
  /\ h = Reset => /\ Running(b).ops \in AtReset /\ d.ops \in AtForget
                  /\ d.entry = entry[b] /\ entry[b] \in Entries /\ in_discard_process[b] = TRUE
  /\ h = Release => Running(b).ops \in AtRelease /\ d.ops \in Loose
  /\ h = Done => Running(b).ops \notin Leaving
  /\ h \in {Forget, Free, Reset, Release} => Running(b).ops \notin Loose \cup Plain

\* The next op of an eviction, and what it leaves.
LEMMA Evicting ==
  ASSUME EntryInv, NEW b \in Blocks, NEW op, Does(b, op), Continue(b)
  PROVE  \E h \in Op, d \in Rec : GoesOn(b, op, h, d)
  <1>a. PICK h, d : h = Head(Running(b).ops) /\ d = [Running(b) EXCEPT !.ops = Tail(@)] BY Zenon
  <1>1. PICK c : c = Running(b) OBVIOUS
  <1>2. chain[b] # <<>> /\ c.ops # <<>> /\ h[1] = op /\ h[2] = Arg(b) BY <1>a, <1>1 DEF Does, Arg
  <1>3. c \in Rec /\ Linked(c, entry[b], in_discard_process[b], meta[b]) BY <1>1, <1>2, RunningOk, Zenon
  <1>4. PICK o \in Seq(Op) : o = c.ops BY <1>3, Zenon DEF Rec
  <1>5. h = Head(o) /\ h \in Op BY <1>a, <1>1, <1>2, <1>4
  <1>6. d \in Rec /\ d.entry = c.entry /\ d.ops = Tail(c.ops) BY <1>a, <1>1, <1>2, <1>3, RecTail
  <1>7. chain' = [chain EXCEPT ![b] = <<d>> \o Tail(@)] BY <1>a DEF Continue, Advance
  <1>8. entry[b] \in Entries \cup {None} /\ in_discard_process[b] \in BOOLEAN BY Zenon DEF EntryInv, BlockOk
  <1>9. PICK e, disc, m : e = entry[b] /\ disc = in_discard_process[b] /\ m = meta[b] BY Zenon
  <1>10. /\ h = Forget => c.ops \in AtForget /\ c.entry \in Entries /\ e = None /\ disc
         /\ h = Free => c.ops \in AtFree /\ c.entry \in Entries /\ e = None /\ disc /\ m.st = "UNPROMOTED"
         /\ h = Reset => c.ops \in AtReset /\ c.entry = e /\ e # None /\ disc
         /\ h = Release => c.ops \in AtRelease /\ disc
         /\ h = Done => c.ops \notin Leaving
    <2>1. Linked(c, e, disc, m) BY <1>3, <1>9, Zenon
    <2>2. QED BY <1>a, <1>1, <1>2, <1>3, <2>1, ByHead
  <1>11. /\ c.ops \in AtForget => d.ops \in AtFree
         /\ c.ops \in AtFree => d.ops \in AtRelease
         /\ c.ops \in AtReset => d.ops \in AtForget
         /\ c.ops \in AtRelease => d.ops \in Loose
    BY <1>6, Zenon DEF AtForget, AtFree, AtReset, AtRelease, Before
  <1>12. h \in {Forget, Free, Reset, Release} => c.ops \notin Loose \cup Plain
    <2>1. LooseOp \subseteq PlainOp BY DEF PlainOp
    <2>2. c.ops \in Loose \cup Plain => h \in PlainOp BY <1>4, <1>5, <1>2, <2>1, SMTT(40) DEF Loose, Plain
    <2>3. QED BY <2>2, OpsApart
  <1>13. disc => in_discard_process[b] = TRUE BY <1>8, <1>9
  <1>14. QED BY <1>1, <1>2, <1>5, <1>6, <1>7, <1>8, <1>9, <1>10, <1>11, <1>12, <1>13, Zenon DEF GoesOn

\* The entry that block b had is its own or on its way to free_lru.
LEMMA HeldLeaving ==
  ASSUME EntryInv, NEW b \in Blocks, chain[b] # <<>>
  PROVE  /\ entry[b] # None => HeldNow(b) = {entry[b]}
         /\ entry[b] = None /\ Running(b).ops \in Leaving => HeldNow(b) = {Running(b).entry}
         /\ entry[b] = None /\ Running(b).ops \notin Leaving => HeldNow(b) = {}
  BY RunningOk, Zenon DEF HeldNow, HeldBy

\* An eviction clears the meta of a block that has lost its entry.
LEMMA ForgetMeta ==
  ASSUME EntryInv, NEW b \in Blocks, UpdateCacheMeta(b), Arg(b) = "UNPROMOTED"
  PROVE  EntryInv'
  <1> USE DEF lists
  <1>1. Does(b, "UpdateCacheMeta") /\ Continue(b) BY DEF UpdateCacheMeta
  <1>2. PICK h \in Op, d \in Rec : GoesOn(b, "UpdateCacheMeta", h, d) BY <1>1, Evicting
  <1>3. h = Forget BY <1>2, HeadIs, Zenon DEF GoesOn
  <1>4. /\ chain[b] # <<>> /\ d \in Rec /\ d.ops \in AtFree /\ d.entry = Running(b).entry
        /\ d.entry \in Entries /\ Running(b).ops \in AtForget /\ Running(b).ops \notin Loose \cup Plain
        /\ entry[b] = None /\ in_discard_process[b] = TRUE
        /\ chain' = [chain EXCEPT ![b] = <<d>> \o Tail(@)]
    BY <1>2, <1>3, Zenon DEF GoesOn
  <1>5. PICK m2 : m2 = Unpromoted OBVIOUS
  <1>6. m2.st = "UNPROMOTED" BY <1>5 DEF Unpromoted
  <1>7. Linked(d, None, TRUE, m2) BY <1>4, <1>6, Zenon DEF Linked
  <1>8. /\ entry' = [entry EXCEPT ![b] = None]
        /\ in_discard_process' = [in_discard_process EXCEPT ![b] = TRUE]
        /\ meta' = [meta EXCEPT ![b] = m2] /\ cache' = cache /\ back' = back /\ free_lru' = free_lru
    BY <1>4, <1>5, Zenon DEF UpdateCacheMeta, EntryInv, Shape
  <1>9. /\ Shape'
        /\ \A x \in Blocks : BlockOk(chain'[x], entry'[x], in_discard_process'[x], meta'[x])
        /\ \A x \in Blocks \ {b} : HeldNow(x)' = HeldNow(x)
        /\ HeldNow(b)' = IF d.ops \in Leaving THEN {d.entry} ELSE {}
    BY <1>4, <1>6, <1>7, <1>8, Change, Zenon
  <1>10. HeldNow(b)' = HeldNow(b) BY <1>4, <1>9, HeldLeaving, Zenon DEF Leaving
  <1>11. Partition' BY <1>8, <1>9, <1>10, SameHeld, Zenon DEF EntryInv
  <1>12. QED BY <1>9, <1>11, Zenon DEF EntryInv

\* An eviction gives the entry back.
LEMMA FreeEntry ==
  ASSUME EntryInv, NEW b \in Blocks, UpdateLRU(b), Arg(b) = "free"
  PROVE  EntryInv'
  <1> USE DEF disk
  <1>1. Does(b, "UpdateLRU") /\ Continue(b) BY Zenon DEF UpdateLRU
  <1>2. PICK h \in Op, d \in Rec : GoesOn(b, "UpdateLRU", h, d) BY <1>1, Evicting
  <1>3. h = Free BY <1>2, HeadIs, Zenon DEF GoesOn
  <1>4. /\ chain[b] # <<>> /\ d \in Rec /\ d.ops \in AtRelease /\ d.entry = Running(b).entry
        /\ d.entry \in Entries /\ Running(b).ops \in AtFree /\ Running(b).ops \notin Loose \cup Plain
        /\ entry[b] = None /\ in_discard_process[b] = TRUE /\ meta[b].st = "UNPROMOTED"
        /\ chain' = [chain EXCEPT ![b] = <<d>> \o Tail(@)]
    BY <1>2, <1>3, Zenon DEF GoesOn
  <1>5. PICK m2 : m2 = meta[b] OBVIOUS
  <1>6. m2.st = "UNPROMOTED" BY <1>4, <1>5, Zenon
  <1>7. Linked(d, None, TRUE, m2) BY <1>4, Zenon DEF Linked, Releasing
  <1>8. /\ entry' = [entry EXCEPT ![b] = None]
        /\ in_discard_process' = [in_discard_process EXCEPT ![b] = TRUE]
        /\ meta' = [meta EXCEPT ![b] = m2] /\ cache' = cache /\ back' = back
        /\ free_lru' = free_lru \cup {Running(b).entry}
    BY <1>4, <1>5, Zenon DEF UpdateLRU, EntryInv, Shape
  <1>9. /\ Shape'
        /\ \A x \in Blocks : BlockOk(chain'[x], entry'[x], in_discard_process'[x], meta'[x])
        /\ \A x \in Blocks \ {b} : HeldNow(x)' = HeldNow(x)
        /\ HeldNow(b)' = IF d.ops \in Leaving THEN {d.entry} ELSE {}
    BY <1>4, <1>6, <1>7, <1>8, Change, Zenon
  <1>10. d.ops \notin Leaving BY <1>4, LeavingApart, Zenon DEF Releasing
  <1>11. HeldNow(b)' = {} BY <1>9, <1>10, Zenon
  <1>12. HeldNow(b) = {Running(b).entry} BY <1>4, HeldLeaving, Zenon DEF Leaving
  <1>13. Partition'
    <2>1. PICK e \in Entries : e = Running(b).entry BY <1>4
    <2>2. Partition BY DEF EntryInv
    <2>3. \A x \in Blocks \ {b} : e \notin HeldNow(x) BY <1>12, <2>1, <2>2 DEF Partition
    <2>4. free_lru' \subseteq Entries BY <1>8, <2>1, <2>2 DEF Partition
    <2>5. ASSUME NEW x \in Blocks PROVE HeldNow(x)' \cap free_lru' = {}
      <3>1. HeldNow(x) \cap free_lru = {} BY <2>2 DEF Partition
      <3>2. CASE x = b BY <1>11, <3>2
      <3>3. CASE x # b
        <4>1. HeldNow(x)' = HeldNow(x) /\ e \notin HeldNow(x) BY <1>9, <2>3, <3>3, Zenon
        <4>2. QED BY <1>8, <2>1, <3>1, <4>1
      <3>4. QED BY <3>2, <3>3
    <2>6. ASSUME NEW x \in Blocks, NEW y \in Blocks, x # y PROVE HeldNow(x)' \cap HeldNow(y)' = {}
      <3>1. HeldNow(x) \cap HeldNow(y) = {} BY <2>2, <2>6 DEF Partition
      <3>2. CASE x = b \/ y = b BY <1>11, <3>2
      <3>3. CASE x # b /\ y # b
        <4>1. HeldNow(x)' = HeldNow(x) /\ HeldNow(y)' = HeldNow(y) BY <1>9, <3>3, Zenon
        <4>2. QED BY <3>1, <4>1
      <3>4. QED BY <3>2, <3>3
    <2>7. ASSUME NEW k \in Entries PROVE k \in free_lru' \/ \E x \in Blocks : k \in HeldNow(x)'
      <3>1. CASE k = e \/ k \in free_lru BY <1>8, <2>1, <3>1
      <3>2. CASE k # e /\ k \notin free_lru
        <4>1. PICK x \in Blocks : k \in HeldNow(x) BY <2>2, <3>2 DEF Partition
        <4>2. x # b BY <1>12, <2>1, <3>2, <4>1
        <4>3. k \in HeldNow(x)' BY <1>9, <4>1, <4>2, Zenon
        <4>4. QED BY <4>3
      <3>3. QED BY <3>1, <3>2
    <2>8. QED BY <2>4, <2>5, <2>6, <2>7 DEF Partition
  <1>14. QED BY <1>9, <1>13, Zenon DEF EntryInv

\* An eviction takes the entry from the block.
LEMMA TakeEntry ==
  ASSUME EntryInv, NEW b \in Blocks, ResetCacheEntry(b)
  PROVE  EntryInv'
  <1> USE DEF disk, lists
  <1>1. Does(b, "ResetCacheEntry") /\ Continue(b) BY DEF ResetCacheEntry
  <1>2. PICK h \in Op, d \in Rec : GoesOn(b, "ResetCacheEntry", h, d) BY <1>1, Evicting
  <1>3. h = Reset BY <1>2, HeadIs, Zenon DEF GoesOn
  <1>4. /\ chain[b] # <<>> /\ d \in Rec /\ d.ops \in AtForget /\ d.entry = entry[b]
        /\ entry[b] \in Entries /\ Running(b).ops \notin Loose \cup Plain /\ in_discard_process[b] = TRUE
        /\ chain' = [chain EXCEPT ![b] = <<d>> \o Tail(@)]
    BY <1>2, <1>3, Zenon DEF GoesOn
  <1>5. PICK m2 : m2 = meta[b] OBVIOUS
  <1>6. entry[b] # None BY <1>4, SizesAssumption, Zenon
  <1>7. HeldNow(b) = {entry[b]} BY <1>4, <1>6, HeldLeaving, Zenon
  <1>8. m2.st # "UNPROMOTED" => m2.id \in {d.entry}
    BY <1>4, <1>5, <1>7, Zenon DEF EntryInv, BlockOk, HeldNow
  <1>9. Linked(d, None, TRUE, m2) /\ d.ops \in Leaving BY <1>4 DEF Linked, Leaving
  <1>10. /\ entry' = [entry EXCEPT ![b] = None]
         /\ in_discard_process' = [in_discard_process EXCEPT ![b] = TRUE]
         /\ meta' = [meta EXCEPT ![b] = m2] /\ cache' = cache /\ back' = back /\ free_lru' = free_lru
    BY <1>4, <1>5, Zenon DEF ResetCacheEntry, EntryInv, Shape
  <1>11. /\ Shape'
         /\ \A x \in Blocks : BlockOk(chain'[x], entry'[x], in_discard_process'[x], meta'[x])
         /\ \A x \in Blocks \ {b} : HeldNow(x)' = HeldNow(x)
         /\ HeldNow(b)' = IF d.ops \in Leaving THEN {d.entry} ELSE {}
    BY <1>4, <1>8, <1>9, <1>10, Change, Zenon
  <1>12. HeldNow(b)' = HeldNow(b) BY <1>4, <1>7, <1>9, <1>11, Zenon
  <1>13. Partition' BY <1>10, <1>11, <1>12, SameHeld, Zenon DEF EntryInv
  <1>14. QED BY <1>11, <1>13, Zenon DEF EntryInv

\* The end of an eviction or a discard lets requests in again.
LEMMA EndDiscard ==
  ASSUME EntryInv, NEW b \in Blocks, ReleaseDiscardBlock(b)
  PROVE  EntryInv'
  <1> USE DEF disk, lists
  <1>1. Does(b, "ReleaseDiscardBlock") /\ Continue(b) BY DEF ReleaseDiscardBlock
  <1>2. PICK h \in Op, d \in Rec : GoesOn(b, "ReleaseDiscardBlock", h, d) BY <1>1, Evicting
  <1>3. h = Release BY <1>2, HeadIs, Zenon DEF GoesOn
  <1>4. /\ chain[b] # <<>> /\ d \in Rec /\ d.ops \in Loose
        /\ Running(b).ops \in AtRelease /\ Running(b).ops \notin Loose \cup Plain
        /\ chain' = [chain EXCEPT ![b] = <<d>> \o Tail(@)]
    BY <1>2, <1>3, Zenon DEF GoesOn
  <1>5. PICK m2, f : m2 = meta[b] /\ f = entry[b] BY Zenon
  <1>6. f \in Entries \cup {None} BY <1>5, Zenon DEF EntryInv, BlockOk
  <1>7. Running(b).ops \notin Leaving /\ d.ops \notin Leaving BY <1>4, LeavingApart, Zenon DEF Releasing
  <1>8. HeldNow(b) = IF f # None THEN {f} ELSE {} BY <1>4, <1>5, <1>7, HeldLeaving, Zenon
  <1>9. m2.st # "UNPROMOTED" => m2.id \in HeldNow(b) BY <1>5, Zenon DEF EntryInv, BlockOk, HeldNow
  <1>10. Linked(d, f, FALSE, m2) BY <1>4, Zenon DEF Linked
  <1>11. /\ entry' = [entry EXCEPT ![b] = f]
         /\ in_discard_process' = [in_discard_process EXCEPT ![b] = FALSE]
         /\ meta' = [meta EXCEPT ![b] = m2] /\ cache' = cache /\ back' = back /\ free_lru' = free_lru
    BY <1>5, Zenon DEF ReleaseDiscardBlock, EntryInv, Shape
  <1>12. m2.st # "UNPROMOTED" =>
           m2.id \in (IF f # None THEN {f} ELSE IF d.ops \in Leaving THEN {d.entry} ELSE {})
    BY <1>7, <1>8, <1>9, Zenon
  <1>13. /\ Shape'
         /\ \A x \in Blocks : BlockOk(chain'[x], entry'[x], in_discard_process'[x], meta'[x])
         /\ \A x \in Blocks \ {b} : HeldNow(x)' = HeldNow(x)
         /\ HeldNow(b)' = IF f # None THEN {f} ELSE IF d.ops \in Leaving THEN {d.entry} ELSE {}
    BY <1>4, <1>6, <1>10, <1>11, <1>12, Change, Zenon
  <1>14. HeldNow(b)' = HeldNow(b) BY <1>7, <1>8, <1>13, Zenon
  <1>15. Partition' BY <1>11, <1>13, <1>14, SameHeld, Zenon DEF EntryInv
  <1>16. QED BY <1>13, <1>15, Zenon DEF EntryInv

\* A request is answered and unlinked.
LEMMA Answered ==
  ASSUME EntryInv, NEW b \in Blocks, BlockRequestComplete(b)
  PROVE  EntryInv'
  <1> USE DEF disk, lists
  <1>1. PICK c : c = Running(b) OBVIOUS
  <1>2. /\ chain[b] # <<>> /\ c.ops # <<>> /\ Head(c.ops)[1] = "BlockRequestComplete"
        /\ chain' = [chain EXCEPT ![b] = Tail(@)]
    BY <1>1, Zenon DEF BlockRequestComplete, Does
  <1>3. c = chain[b][1] /\ c \in Rec /\ Linked(c, entry[b], in_discard_process[b], meta[b])
    BY <1>1, <1>2, RunningOk, Zenon
  <1>4. c.ops \notin Leaving
    <2>1. PICK o \in Seq(Op) : o = c.ops BY <1>3 DEF Rec
    <2>2. PICK h \in Op : h = Head(o) BY <1>2, <2>1
    <2>3. h = Done BY <1>2, <2>1, <2>2, HeadIs, Zenon
    <2>4. PICK e, disc, m : e = entry[b] /\ disc = in_discard_process[b] /\ m = meta[b] OBVIOUS
    <2>5. Linked(c, e, disc, m) BY <1>3, <2>4, Zenon
    <2>6. QED BY <1>2, <1>3, <2>1, <2>2, <2>3, <2>5, ByHead, Zenon
  <1>5. BlockOk(Tail(chain[b]), entry[b], in_discard_process[b], meta[b])
        /\ HeldBy(Tail(chain[b]), entry[b]) = HeldBy(chain[b], entry[b])
    <2>1. PICK s, e, disc, m : s = chain[b] /\ e = entry[b] /\ disc = in_discard_process[b] /\ m = meta[b]
      BY Zenon
    <2>2. BlockOk(s, e, disc, m) /\ s # <<>> /\ s[1].ops \notin Leaving
      BY <1>2, <1>3, <1>4, <2>1, Zenon DEF EntryInv
    <2>3. BlockOk(Tail(s), e, disc, m) /\ HeldBy(Tail(s), e) = HeldBy(s, e) BY <2>2, DoneOne
    <2>4. QED BY <2>1, <2>3, Zenon
  <1>6. /\ entry' = entry /\ in_discard_process' = in_discard_process /\ meta' = meta
        /\ cache' = cache /\ back' = back /\ free_lru' = free_lru
    BY DEF BlockRequestComplete
  <1>7. chain'[b] = Tail(chain[b]) /\ \A x \in Blocks \ {b} : chain'[x] = chain[x]
    BY <1>2 DEF EntryInv, Shape
  <1>8. /\ \A x \in Blocks : BlockOk(chain'[x], entry'[x], in_discard_process'[x], meta'[x])
        /\ \A x \in Blocks \ {b} : HeldNow(x)' = HeldNow(x)
    BY <1>5, <1>6, <1>7, Local, Zenon
  <1>9. HeldNow(b)' = HeldNow(b) BY <1>5, <1>6, <1>7, Zenon DEF HeldNow
  <1>10. Shape' BY <1>2, <1>6, Zenon DEF EntryInv, Shape
  <1>11. Partition' BY <1>6, <1>8, <1>9, SameHeld, Zenon DEF EntryInv
  <1>12. QED BY <1>8, <1>10, <1>11, Zenon DEF EntryInv

\* What each kind of request, to a block that has an entry or has not, is linked as.
MapKind(o, t, hit) ==
  \/ o \in Loose /\ t \notin {"DISCARD"} /\ ~(t = "DEMOTE" /\ hit)
  \/ o \in Plain /\ (hit \/ t = "READ" \/ (t = "WRITE" /\ ~ReadOnly)) /\ t \notin {"DEMOTE", "DISCARD"}
  \/ o \in Keeping /\ hit /\ t \in {"DEMOTE", "DISCARD"}
  \/ o \in Releasing /\ t = "DISCARD"

\* The chains map builds.
LEMMA MapSeq ==
  ASSUME NEW t \in IoTypes, NEW partial \in BOOLEAN, NEW hit \in BOOLEAN
  PROVE  \E o \in Seq(Op) : o = Ops(t, hit, partial) \o <<Done>> /\ MapKind(o, t, hit)
  <1>1. PICK o : o = Ops(t, hit, partial) \o <<Done>> BY Zenon
  <1>2. o \in CASE t = "READ" -> Plain
                [] t = "WRITE" -> IF ReadOnly THEN Loose ELSE Plain
                [] t = "DEMOTE" -> IF hit THEN Keeping ELSE Loose
                [] t = "DISCARD" -> IF hit THEN Keeping ELSE Releasing
                [] t = "FLUSH" -> IF hit THEN Plain ELSE Loose
    BY <1>1, MapOps, Zenon
  <1>3. MapKind(o, t, hit)
    <2>1. CASE t = "READ" BY <1>2, <2>1 DEF MapKind
    <2>2. CASE t = "WRITE" BY <1>2, <2>2 DEF MapKind
    <2>3. CASE t = "DEMOTE" BY <1>2, <2>3 DEF MapKind
    <2>4. CASE t = "DISCARD" BY <1>2, <2>4 DEF MapKind
    <2>5. CASE t = "FLUSH" BY <1>2, <2>5 DEF MapKind
    <2>6. QED BY <2>1, <2>2, <2>3, <2>4, <2>5 DEF IoTypes
  <1>4. o \in Seq(Op) BY <1>3, KindsAreOps DEF MapKind
  <1>5. QED BY <1>1, <1>3, <1>4, Zenon

\* What map links says the truth about the block, e being the entry the block
\* has afterwards.
LEMMA MapLinks ==
  ASSUME NEW t \in IoTypes, NEW hit \in BOOLEAN, NEW e, NEW m, NEW c,
         MapKind(c.ops, t, hit), c.entry = e,
         hit \/ t = "READ" \/ (t = "WRITE" /\ ~ReadOnly) => e # None
  PROVE  /\ Linked(c, e, t = "DISCARD" \/ (t = "DEMOTE" /\ hit), m)
         /\ c.ops \notin Leaving
  <1>1. \/ c.ops \in Loose
        \/ c.ops \in Plain /\ e # None
        \/ c.ops \in Keeping /\ e # None /\ (t = "DISCARD" \/ (t = "DEMOTE" /\ hit))
        \/ c.ops \in Releasing /\ t = "DISCARD"
    BY DEF MapKind
  <1>2. Linked(c, e, t = "DISCARD" \/ (t = "DEMOTE" /\ hit), m) BY <1>1 DEF Linked
  <1>3. c.ops \notin Leaving BY <1>1, LeavingApart
  <1>4. QED BY <1>2, <1>3

\* A request c is linked behind the others of its block, which has entry f
\* from then on.
LEMMA LinkRequest ==
  ASSUME EntryInv, NEW b \in Blocks, NEW c \in Rec, NEW f \in Entries \cup {None}, NEW disc \in BOOLEAN,
         Steady(chain[b], entry[b]), entry[b] # None => f = entry[b],
         Linked(c, f, disc, meta[b]), c.ops \notin Leaving,
         chain' = [chain EXCEPT ![b] = Append(@, c)],
         entry' = [entry EXCEPT ![b] = f],
         in_discard_process' = [in_discard_process EXCEPT ![b] = disc],
         meta' = meta, cache' = cache, back' = back
  PROVE  /\ Shape'
         /\ \A x \in Blocks : BlockOk(chain'[x], entry'[x], in_discard_process'[x], meta'[x])
         /\ \A x \in Blocks \ {b} : HeldNow(x)' = HeldNow(x)
         /\ HeldNow(b) = IF entry[b] # None THEN {entry[b]} ELSE {}
         /\ HeldNow(b)' = IF f # None THEN {f} ELSE {}
  <1>1. PICK s, e, q, m : s = chain[b] /\ e = entry[b] /\ q = in_discard_process[b] /\ m = meta[b] BY Zenon
  <1>2. BlockOk(s, e, q, m) /\ Steady(s, e) /\ Linked(c, f, disc, m) /\ (e # None => f = e)
    BY <1>1, Zenon DEF EntryInv
  <1>3. /\ BlockOk(Append(s, c), f, disc, m)
        /\ HeldBy(s, e) = IF e # None THEN {e} ELSE {}
        /\ HeldBy(Append(s, c), f) = IF f # None THEN {f} ELSE {}
    <2>1. LinkedUp(s, e, c, f, disc, m) BY <1>2, LinkOne, Zenon
    <2>2. QED BY <2>1 DEF LinkedUp
  <1>4. /\ chain'[b] = Append(s, c) /\ entry'[b] = f /\ in_discard_process'[b] = disc /\ meta'[b] = m
        /\ \A x \in Blocks \ {b} : /\ chain'[x] = chain[x] /\ entry'[x] = entry[x]
                                   /\ in_discard_process'[x] = in_discard_process[x] /\ meta'[x] = meta[x]
    BY <1>1, Zenon DEF EntryInv, Shape
  <1>5. /\ \A x \in Blocks : BlockOk(chain'[x], entry'[x], in_discard_process'[x], meta'[x])
        /\ \A x \in Blocks \ {b} : HeldNow(x)' = HeldNow(x)
    BY <1>3, <1>4, Local, Zenon
  <1>6. Shape' BY Zenon DEF EntryInv, Shape
  <1>7. QED BY <1>1, <1>3, <1>4, <1>5, <1>6, Zenon DEF HeldNow

\* map links a request, and takes a free entry for it when it needs one.
LEMMA Mapped ==
  ASSUME EntryInv, NEW b \in Blocks, NEW t \in IoTypes, NEW x \in Extents[t], NEW v \in Payload(t),
         map(b, t, x, v)
  PROVE  EntryInv'
  <1> USE DEF disk
  <1>1. PICK hit \in BOOLEAN : hit = (entry[b] # None) BY Zenon
  <1>2. PICK partial \in BOOLEAN : partial = (x[2] < SectorCount)
    <2>1. CASE x[2] < SectorCount
      <3>1. (x[2] < SectorCount) = TRUE BY <2>1
      <3>2. QED BY <3>1, Zenon
    <2>2. CASE ~(x[2] < SectorCount)
      <3>1. (x[2] < SectorCount) = FALSE BY <2>2
      <3>2. QED BY <3>1, Zenon
    <2>3. QED BY <2>1, <2>2
  <1>3. PICK o \in Seq(Op) : o = Ops(t, hit, partial) \o <<Done>> /\ MapKind(o, t, hit) BY MapSeq, Zenon
  <1>4. in_discard_process[b] = FALSE
    <2>1. in_discard_process[b] \in BOOLEAN BY Zenon DEF EntryInv, BlockOk
    <2>2. QED BY <2>1, Zenon DEF map, Mappable
  <1>a. Steady(chain[b], entry[b])
    <2>1. \A i \in 1..Len(chain[b]) : Linked(chain[b][i], entry[b], in_discard_process[b], meta[b])
      BY Zenon DEF EntryInv, BlockOk
    <2>2. QED BY <1>4, <2>1, Zenon DEF Steady, Linked
  <1>5. PICK disc \in BOOLEAN : disc = (t = "DISCARD" \/ (t = "DEMOTE" /\ hit)) BY Zenon
  <1>6. in_discard_process' = [in_discard_process EXCEPT ![b] = disc] BY <1>1, <1>4, <1>5, Zenon DEF map
  <1>7. meta' = meta /\ cache' = cache /\ back' = back BY Zenon DEF map
  <1>8. entry[b] \in Entries \cup {None} BY Zenon DEF EntryInv, BlockOk
  <1>9. CASE ~NeedsEntry(t, b)
    <2>1. PICK f \in Entries \cup {None} : f = entry[b] BY <1>8, Zenon
    <2>2. PICK c \in Rec : c = Request(t, x, v, f, o) /\ c.entry = f /\ c.ops = o
      <3>1. /\ Request(t, x, v, f, o) \in Rec /\ Request(t, x, v, f, o).entry = f
            /\ Request(t, x, v, f, o).ops = o
        BY RecNew
      <3>2. QED BY <3>1, Zenon
    <2>3. chain' = [chain EXCEPT ![b] = Append(@, c)] BY <1>1, <1>2, <1>3, <1>9, <2>1, <2>2, Zenon DEF map, Done
    <2>4. entry' = [entry EXCEPT ![b] = f] /\ free_lru' = free_lru
      BY <1>9, <2>1, Zenon DEF map, EntryInv, Shape
    <2>5. hit \/ t = "READ" \/ (t = "WRITE" /\ ~ReadOnly) => f # None BY <1>1, <1>9, <2>1, Zenon DEF NeedsEntry
    <2>6. Linked(c, f, disc, meta[b]) /\ c.ops \notin Leaving
      <3>1. PICK m : m = meta[b] BY Zenon
      <3>2. Linked(c, f, disc, m) /\ c.ops \notin Leaving BY <1>3, <1>5, <2>2, <2>5, MapLinks, Zenon
      <3>3. QED BY <3>1, <3>2, Zenon
    <2>7. /\ Shape'
          /\ \A y \in Blocks : BlockOk(chain'[y], entry'[y], in_discard_process'[y], meta'[y])
          /\ \A y \in Blocks \ {b} : HeldNow(y)' = HeldNow(y)
          /\ HeldNow(b) = IF entry[b] # None THEN {entry[b]} ELSE {}
          /\ HeldNow(b)' = IF f # None THEN {f} ELSE {}
      BY <1>a, <1>6, <1>7, <2>1, <2>3, <2>4, <2>6, LinkRequest, ZenonT(40)
    <2>8. Partition' BY <2>1, <2>4, <2>7, SameHeld, Zenon DEF EntryInv
    <2>9. QED BY <2>7, <2>8, Zenon DEF EntryInv
  <1>10. CASE NeedsEntry(t, b)
    <2>1. PICK f \in free_lru : /\ free_lru' = free_lru \ {f}
                                /\ entry' = [entry EXCEPT ![b] = f]
                                /\ chain' = [chain EXCEPT ![b] = Append(@, Request(t, x, v, f,
                                     Ops(t, entry[b] # None, x[2] < SectorCount) \o <<Done>>))]
      BY <1>10, Zenon DEF map, Done
    <2>2. f \in Entries /\ f # None BY SizesAssumption, Zenon DEF EntryInv, Partition
    <2>3. PICK c \in Rec : c = Request(t, x, v, f, o) /\ c.entry = f /\ c.ops = o
      <3>1. f \in Entries \cup {None} BY <2>2, Zenon
      <3>2. /\ Request(t, x, v, f, o) \in Rec /\ Request(t, x, v, f, o).entry = f
            /\ Request(t, x, v, f, o).ops = o
        BY <3>1, RecNew
      <3>3. QED BY <3>2, Zenon
    <2>4. chain' = [chain EXCEPT ![b] = Append(@, c)] BY <1>1, <1>2, <1>3, <2>1, <2>3, Zenon
    <2>5. entry[b] = None /\ (entry[b] # None => f = entry[b]) /\ f \in Entries \cup {None}
      BY <1>10, <2>2, Zenon DEF NeedsEntry
    <2>a. entry' = [entry EXCEPT ![b] = f] BY <2>1, Zenon
    <2>6. Linked(c, f, disc, meta[b]) /\ c.ops \notin Leaving
      <3>1. PICK m : m = meta[b] OBVIOUS
      <3>2. Linked(c, f, disc, m) /\ c.ops \notin Leaving BY <1>3, <1>5, <2>2, <2>3, MapLinks, Zenon
      <3>3. QED BY <3>1, <3>2, Zenon
    <2>7. /\ Shape'
          /\ \A y \in Blocks : BlockOk(chain'[y], entry'[y], in_discard_process'[y], meta'[y])
          /\ \A y \in Blocks \ {b} : HeldNow(y)' = HeldNow(y)
          /\ HeldNow(b) = IF entry[b] # None THEN {entry[b]} ELSE {}
          /\ HeldNow(b)' = IF f # None THEN {f} ELSE {}
      BY <1>a, <1>6, <1>7, <2>4, <2>5, <2>6, <2>a, LinkRequest, Zenon
    <2>8. HeldNow(b) = {} /\ HeldNow(b)' = {f} BY <2>2, <2>5, <2>7, Zenon
    <2>9. Partition'
      <3>1. Partition BY Zenon DEF EntryInv
      <3>2. \A y \in Blocks \ {b} : f \notin HeldNow(y) BY <2>1, <3>1, Zenon DEF Partition
      <3>3. free_lru' \subseteq Entries BY <2>1, <3>1, Zenon DEF Partition
      <3>4. ASSUME NEW y \in Blocks PROVE HeldNow(y)' \cap free_lru' = {}
        <4>1. HeldNow(y) \cap free_lru = {} BY <3>1, Zenon DEF Partition
        <4>2. CASE y = b BY <2>1, <2>8, <4>2, Zenon
        <4>3. CASE y # b
          <5>1. HeldNow(y)' = HeldNow(y) BY <2>7, <4>3, Zenon
          <5>2. QED BY <2>1, <4>1, <5>1, Zenon
        <4>4. QED BY <4>2, <4>3, Zenon
      <3>5. ASSUME NEW y \in Blocks, NEW z \in Blocks, y # z PROVE HeldNow(y)' \cap HeldNow(z)' = {}
        <4>1. HeldNow(y) \cap HeldNow(z) = {} BY <3>1, <3>5, Zenon DEF Partition
        <4>2. y # b => HeldNow(y)' = HeldNow(y) /\ f \notin HeldNow(y) BY <2>7, <3>2, Zenon
        <4>3. z # b => HeldNow(z)' = HeldNow(z) /\ f \notin HeldNow(z) BY <2>7, <3>2, Zenon
        <4>4. CASE y = b BY <2>8, <3>5, <4>3, <4>4, Zenon
        <4>5. CASE z = b BY <2>8, <3>5, <4>2, <4>5, Zenon
        <4>6. CASE y # b /\ z # b BY <4>1, <4>2, <4>3, <4>6, Zenon
        <4>7. QED BY <4>4, <4>5, <4>6, Zenon
      <3>6. ASSUME NEW k \in Entries PROVE k \in free_lru' \/ \E y \in Blocks : k \in HeldNow(y)'
        <4>1. CASE k = f BY <2>8, <4>1, Zenon
        <4>2. CASE k # f /\ k \in free_lru BY <2>1, <4>2, Zenon
        <4>3. CASE k \notin free_lru
          <5>1. PICK y \in Blocks : k \in HeldNow(y) BY <3>1, <4>3, Zenon DEF Partition
          <5>2. y # b BY <2>8, <5>1, Zenon
          <5>3. k \in HeldNow(y)' BY <2>7, <5>1, <5>2, Zenon
          <5>4. QED BY <5>3, Zenon
        <4>4. QED BY <4>1, <4>2, <4>3, Zenon
      <3>7. QED BY <3>3, <3>4, <3>5, <3>6, Zenon DEF Partition
    <2>10. QED BY <2>7, <2>9, Zenon DEF EntryInv
  <1>11. QED BY <1>9, <1>10, Zenon

-----------------------------------------------------------------------------
(* The theorems.                                                            *)

\* The constructor starts with every entry free.
LEMMA InitOk == Init => EntryInv
  <1> SUFFICES ASSUME Init PROVE EntryInv OBVIOUS
  <1>1. Fill(Zero) \in Data BY DEF Fill, Data
  <1>2. Written(Base) \in Data BY DEF Written, Data
  <1>3. Shape BY <1>1, <1>2 DEF Init, Shape
  <1>4. \A b \in Blocks : chain[b] = <<>> /\ entry[b] = None /\ in_discard_process[b] = FALSE
                          /\ meta[b].st = "UNPROMOTED"
    BY DEF Init, Unpromoted
  <1>5. \A b \in Blocks : HeldNow(b) = {} BY <1>4 DEF HeldNow, HeldBy
  <1>6. \A b \in Blocks : BlockOk(chain[b], entry[b], in_discard_process[b], meta[b])
    <2>1. <<>> \in Seq(Rec) /\ Len(<<>>) = 0 /\ 1..0 = {} OBVIOUS
    <2>2. QED BY <1>4, <2>1, Zenon DEF BlockOk
  <1>7. Partition BY <1>5 DEF Partition, Init
  <1>8. QED BY <1>3, <1>6, <1>7 DEF EntryInv

\* One step of one block.
LEMMA StepOk ==
  ASSUME EntryInv, NEW b \in Blocks, Step(b)
  PROVE  EntryInv'
  <1>1. CASE \/ ReadBlockFromCache(b) \/ PromoteBlockFromBackend(b) \/ PromoteFromBackend(b)
             \/ ReadFromBuffer(b) \/ WriteToBuffer(b) \/ WriteBlockToCache(b) \/ WriteToBackend(b)
             \/ FlushBlockToBackend(b) \/ DemoteBlockToCache(b) \/ DiscardBlockToBackend(b)
    BY <1>1, DataOps
  <1>2. CASE UpdateCacheMeta(b)
    <2>1. CASE Arg(b) = "UNPROMOTED" BY <1>2, <2>1, ForgetMeta
    <2>2. CASE Arg(b) # "UNPROMOTED" BY <1>2, <2>2, MarkMeta
    <2>3. QED BY <2>1, <2>2
  <1>3. CASE UpdateLRU(b)
    <2>1. CASE Arg(b) = "free" BY <1>3, <2>1, FreeEntry
    <2>2. CASE Arg(b) # "free" BY <1>3, <2>2, Relist
    <2>3. QED BY <2>1, <2>2
  <1>4. CASE ResetCacheEntry(b) BY <1>4, TakeEntry
  <1>5. CASE ReleaseDiscardBlock(b) BY <1>5, EndDiscard
  <1>6. CASE BlockRequestComplete(b) BY <1>6, Answered
  <1>7. CASE OpFailed(b) BY <1>7, FailedOp
  <1>8. QED BY <1>1, <1>2, <1>3, <1>4, <1>5, <1>6, <1>7 DEF Step

\* The invariant depends on these variables only.
LEMMA Untouched ==
  ASSUME EntryInv, UNCHANGED <<entry, free_lru, in_discard_process, chain, meta, cache, back>>
  PROVE  EntryInv'
  BY DEF EntryInv, Shape, Partition, HeldNow

\* The inductive invariant: between any two BlockOps of any interleaving, every
\* chain still linked fits the entry, the discard flag and the meta of its block.
THEOREM EntryInductive == Spec => []EntryInv
  <1>1. EntryInv /\ [Next]_vars => EntryInv'
    <2> SUFFICES ASSUME EntryInv, [Next]_vars PROVE EntryInv' OBVIOUS
    <2>1. ASSUME NEW b \in Blocks, NEW t \in IoTypes, NEW x \in Extents[t], NEW v \in Payload(t), map(b, t, x, v)
          PROVE  EntryInv'
      BY <2>1, Mapped, Zenon
    <2>2. ASSUME NEW b \in Blocks, NEW t \in IoTypes, get_head_empty(b, t) PROVE EntryInv'
      BY <2>2, Untouched, Zenon DEF get_head_empty, memory, lists, disk
    <2>3. ASSUME NEW b \in Blocks, Step(b) PROVE EntryInv' BY <2>3, StepOk
    <2>4. CASE UNCHANGED vars BY <2>4, Untouched DEF vars, memory, lists, disk
    <2>5. QED BY <2>1, <2>2, <2>3, <2>4, Zenon DEF Next
  <1>2. QED BY InitOk, <1>1, PTL DEF Spec

\* What the block holds, in the words of the property.
LEMMA HeldIsHeldNow ==
  ASSUME EntryInv, NEW b \in Blocks
  PROVE  Held(b) = HeldNow(b)
  <1>1. CASE entry[b] # None BY <1>1 DEF Held, HeldNow, HeldBy
  <1>2. CASE entry[b] = None
    <2>1. PICK s \in Seq(Rec) : s = chain[b] BY Zenon DEF EntryInv, BlockOk
    <2>2. BlockOk(s, None, in_discard_process[b], meta[b]) BY <1>2, <2>1 DEF EntryInv
    <2>3. ASSUME NEW i \in 1..Len(s)
          PROVE  Pending(s[i], Free) /\ ~Pending(s[i], Reset) <=> s[i].ops \in Leaving
      <3>1. Linked(s[i], None, in_discard_process[b], meta[b]) BY <2>2, Zenon DEF BlockOk
      <3>2. s[i].ops \in Loose \cup Releasing \cup Leaving BY <3>1, Zenon DEF Linked, Leaving
      <3>3. PICK o : o = s[i].ops OBVIOUS
      <3>4. /\ o \in Loose \cup Releasing => ~Has(o, Free)
            /\ o \in Leaving => Has(o, Free) /\ ~Has(o, Reset)
        BY PendingFree
      <3>5. (Pending(s[i], Free) <=> Has(o, Free)) /\ (Pending(s[i], Reset) <=> Has(o, Reset))
        BY <3>3 DEF Pending, Has
      <3>6. QED BY <3>2, <3>3, <3>4, <3>5, LeavingApart
    <2>4. \A i \in 1..Len(s) : i > 1 => s[i].ops \notin Leaving BY <2>2, Zenon DEF BlockOk
    <2>5. Held(b) = {c.entry : c \in {d \in {s[i] : i \in 1..Len(s)} : Pending(d, Free) /\ ~Pending(d, Reset)}}
      BY <1>2, <2>1, Zenon DEF Held, Free, Reset
    <2>6. {d \in {s[i] : i \in 1..Len(s)} : Pending(d, Free) /\ ~Pending(d, Reset)}
          = {s[i] : i \in {j \in 1..Len(s) : s[j].ops \in Leaving}}
      BY <2>3, Zenon
    <2>7. s # <<>> <=> 1 \in 1..Len(s) BY <2>1
    <2>8. {j \in 1..Len(s) : s[j].ops \in Leaving} = IF s # <<>> /\ s[1].ops \in Leaving THEN {1} ELSE {}
      <3>1. \A j \in 1..Len(s) : j = 1 \/ j > 1 BY <2>1
      <3>2. QED BY <2>4, <2>7, <3>1
    <2>9. Held(b) = IF s # <<>> /\ s[1].ops \in Leaving THEN {s[1].entry} ELSE {}
      <3>1. CASE s # <<>> /\ s[1].ops \in Leaving BY <2>5, <2>6, <2>8, <3>1, SMTT(40)
      <3>2. CASE ~(s # <<>> /\ s[1].ops \in Leaving) BY <2>5, <2>6, <2>8, <3>2, Zenon
      <3>3. QED BY <3>1, <3>2
    <2>10. QED BY <1>2, <2>1, <2>9 DEF HeldNow, HeldBy
  <1>3. QED BY <1>1, <1>2

\* No cache entry is lost and none is shared: whatever requests, flushes,
\* evictions, discards and failures of the stores interleave, map and the
\* eviction chains hand every entry from free_lru to one block and back.
THEOREM EntriesPartitioned == Spec => []EntryPartition
  <1>1. EntryInv => EntryPartition
    <2> SUFFICES ASSUME EntryInv PROVE EntryPartition OBVIOUS
    <2>1. \A b \in Blocks : Held(b) = HeldNow(b) BY HeldIsHeldNow
    <2>2. Partition BY DEF EntryInv
    <2>3. \A b \in Blocks : Held(b) \cap free_lru = {} BY <2>1, <2>2 DEF Partition
    <2>4. ASSUME NEW b \in Blocks, NEW c \in Blocks, b # c PROVE Held(b) \cap Held(c) = {}
      <3>1. Held(b) = HeldNow(b) /\ Held(c) = HeldNow(c) BY <2>1
      <3>2. HeldNow(b) \cap HeldNow(c) = {} BY <2>2, <2>4 DEF Partition
      <3>3. QED BY <3>1, <3>2
    <2>5. ASSUME NEW e \in Entries PROVE e \in free_lru \/ \E b \in Blocks : e \in Held(b)
      <3>1. CASE e \notin free_lru
        <4>1. PICK b \in Blocks : e \in HeldNow(b) BY <2>2, <3>1 DEF Partition
        <4>2. QED BY <2>1, <4>1
      <3>2. QED BY <3>1
    <2>6. QED BY <2>3, <2>4, <2>5 DEF EntryPartition
  <1>2. QED BY EntryInductive, <1>1, PTL

\* The persistent meta of two blocks never names one entry, at any point at
\* which the process could stop: UpdateCacheMeta(UNPROMOTED) comes before the
\* UpdateLRU that gives the entry back.
THEOREM MetaStaysInjective == Spec => []MetaInjective
  <1>1. EntryInv => MetaInjective
    <2> SUFFICES ASSUME EntryInv, NEW k \in Entries PROVE Cardinality(Claims(k)) <= 1
      BY DEF MetaInjective
    <2>1. \A b \in Claims(k) : b \in Blocks /\ k \in HeldNow(b) BY Zenon DEF Claims, EntryInv, BlockOk, HeldNow
    <2>2. \A b, c \in Claims(k) : b = c BY <2>1, Zenon DEF EntryInv, Partition
    <2>3. CASE Claims(k) = {} BY <2>3, FS_EmptySet
    <2>4. CASE Claims(k) # {}
      <3>1. PICK b : b \in Claims(k) BY <2>4
      <3>2. Claims(k) = {b} BY <2>2, <3>1
      <3>3. Cardinality({b}) = 1 BY FS_Singleton, Zenon
      <3>4. QED BY <3>2, <3>3
    <2>5. QED BY <2>3, <2>4
  <1>2. QED BY EntryInductive, <1>1, PTL
=============================================================================
