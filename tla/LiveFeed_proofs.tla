---------------------------- MODULE LiveFeed_proofs ----------------------------
(***************************************************************************)
(* Proofs about the subscription pool and about the live feed it is a part *)
(* of, for every set of instruments, claims and connections, every cap,    *)
(* every length of the queue, and any number of lost sockets and flips of  *)
(* the switch.                                                             *)
(*                                                                         *)
(* The first part is about the pool alone.  In the second the pool keeps   *)
(* its own invariant in the composition, since every step of the feed is   *)
(* one of the pool or leaves the pool alone.  What a connection carries    *)
(* then follows from the counts, and the argument about streams is made on *)
(* the counts, the wires and the sockets only.                             *)
(***************************************************************************)
EXTENDS LiveFeed, FiniteSetTheorems, SequenceTheorems, TLAPS

-----------------------------------------------------------------------------
(* The inductive invariant of the pool. *)

\* The queue holds exactly one command per unanswered call and per dropped lease.
QueueInv ==
  /\ \A n \in DOMAIN queue :
       /\ queue[n].claim \in Claims <=> queue[n].op \in {"lease", "release"}
       /\ queue[n].op = "lease" => claim[queue[n].claim] \in {"waiting", "aborted"}
       /\ queue[n].op = "release" => claim[queue[n].claim] = "dropped"
  /\ \A m, n \in DOMAIN queue :
       queue[m].claim = queue[n].claim /\ queue[m].claim \in Claims => m = n

\* Only an idle claim asks for nothing.
WantInv ==
  \A c \in Claims : claim[c] = "idle" \/ want[c] \in Instruments

Inv == TypeOK /\ QueueInv /\ WantInv /\ CountsMatchClaims /\ BookkeepingAgrees

-----------------------------------------------------------------------------
(* Helpers. *)

LEMMA HoldersFinite ==
  \A i : IsFiniteSet(Holders(i)) /\ Cardinality(Holders(i)) \in Nat
<1> SUFFICES ASSUME NEW i PROVE IsFiniteSet(Holders(i)) /\ Cardinality(Holders(i)) \in Nat
  OBVIOUS
<1>1. Holders(i) \subseteq Claims
  BY DEF Holders
<1>2. IsFiniteSet(Holders(i))
  BY <1>1, FS_Subset, PoolAssumption DEF PoolAssumption
<1> QED
  BY <1>2, FS_CardinalityType

\* A granted claim gives its instrument a record.
LEMMA HolderCounts ==
  ASSUME CountsMatchClaims, NEW c \in Claims, want[c] \in Instruments, claim[c] \in Granted
  PROVE  /\ c \in Holders(want[c])
         /\ count[want[c]] \in Nat
         /\ count[want[c]] > 0
<1>1. c \in Holders(want[c])
  BY DEF Holders
<1>2. Holders(want[c]) # {}
  BY <1>1
<1>3. Cardinality(Holders(want[c])) # 0
  BY <1>2, HoldersFinite, FS_EmptySet
<1> QED
  BY <1>1, <1>3, HoldersFinite DEF CountsMatchClaims

\* Appending a command about no claim disturbs nothing.
LEMMA AppendNeutral ==
  ASSUME TypeOK, QueueInv, NEW cmd \in Command, cmd.claim = NoClaim,
         cmd.op \notin {"lease", "release"},
         queue' = Append(queue, cmd), claim' = claim
  PROVE  queue' \in Seq(Command) /\ QueueInv'
<1>1. /\ queue' \in Seq(Command)
      /\ DOMAIN queue' = 1..(Len(queue) + 1)
      /\ DOMAIN queue = 1..Len(queue) /\ Len(queue) \in Nat
      /\ \A n \in 1..Len(queue) : queue'[n] = queue[n]
      /\ queue'[Len(queue) + 1] = cmd
  BY AppendProperties, LenProperties DEF TypeOK
<1>2. NoClaim \notin Claims
  BY PoolAssumption DEF PoolAssumption
<1> QED
  BY <1>1, <1>2 DEF QueueInv

\* Appending the command of a claim that had none.
LEMMA AppendClaim ==
  ASSUME TypeOK, QueueInv, NEW cmd \in Command, cmd.claim \in Claims,
         \/ cmd.op = "lease" /\ claim[cmd.claim] = "idle"
            /\ claim' = [claim EXCEPT ![cmd.claim] = "waiting"]
         \/ cmd.op = "release" /\ claim[cmd.claim] = "held"
            /\ claim' = [claim EXCEPT ![cmd.claim] = "dropped"],
         queue' = Append(queue, cmd)
  PROVE  queue' \in Seq(Command) /\ QueueInv'
<1>1. /\ queue' \in Seq(Command)
      /\ DOMAIN queue' = 1..(Len(queue) + 1)
      /\ DOMAIN queue = 1..Len(queue) /\ Len(queue) \in Nat
      /\ \A n \in 1..Len(queue) : queue'[n] = queue[n]
      /\ queue'[Len(queue) + 1] = cmd
  BY AppendProperties, LenProperties DEF TypeOK
<1>2. \A n \in 1..Len(queue) : queue[n] \in Command /\ queue[n].claim # cmd.claim
  BY <1>1, ElementOfSeq DEF QueueInv, TypeOK
<1>3. \A n \in 1..Len(queue) : queue[n].claim \in Claims => claim'[queue[n].claim] = claim[queue[n].claim]
  BY <1>2 DEF TypeOK
<1>4. claim'[cmd.claim] = IF cmd.op = "lease" THEN "waiting" ELSE "dropped"
  BY DEF TypeOK
<1>5. \A n \in DOMAIN queue' :
       /\ queue'[n].claim \in Claims <=> queue'[n].op \in {"lease", "release"}
       /\ queue'[n].op = "lease" => claim'[queue'[n].claim] \in {"waiting", "aborted"}
       /\ queue'[n].op = "release" => claim'[queue'[n].claim] = "dropped"
  BY <1>1, <1>3, <1>4 DEF QueueInv
<1>6. \A m, n \in DOMAIN queue' :
       queue'[m].claim = queue'[n].claim /\ queue'[m].claim \in Claims => m = n
  BY <1>1, <1>2 DEF QueueInv
<1> QED
  BY <1>1, <1>5, <1>6 DEF QueueInv

\* Taking the head command off the queue, whose claim may move to any stage.
LEMMA PopCommand ==
  ASSUME TypeOK, QueueInv, queue # <<>>, queue' = Tail(queue),
         \A d \in Claims : d # Head(queue).claim => claim'[d] = claim[d]
  PROVE  queue' \in Seq(Command) /\ QueueInv'
<1>1. /\ queue' \in Seq(Command)
      /\ Len(queue) \in Nat \ {0}
      /\ DOMAIN queue = 1..Len(queue)
      /\ DOMAIN queue' = 1..(Len(queue) - 1)
      /\ \A n \in DOMAIN queue' : n + 1 \in DOMAIN queue /\ queue'[n] = queue[n + 1]
      /\ Head(queue) = queue[1]
  BY HeadTailProperties, LenProperties, EmptySeq DEF TypeOK
<1>2. \A n \in DOMAIN queue' :
        queue'[n].claim \in Claims => claim'[queue'[n].claim] = claim[queue'[n].claim]
  <2> SUFFICES ASSUME NEW n \in DOMAIN queue', queue'[n].claim \in Claims
               PROVE  queue'[n].claim # Head(queue).claim
    OBVIOUS
  <2>1. n + 1 # 1 /\ 1 \in DOMAIN queue
    BY <1>1
  <2> QED
    BY <1>1, <2>1 DEF QueueInv
<1> QED
  BY <1>1, <1>2 DEF QueueInv

\* What a lease or release command at the head says about its claim.
LEMMA HeadClaim ==
  ASSUME Inv, queue # <<>>
  PROVE  /\ Head(queue) \in Command
         /\ Head(queue).op = "lease" =>
              /\ Head(queue).claim \in Claims
              /\ claim[Head(queue).claim] \in {"waiting", "aborted"}
              /\ want[Head(queue).claim] \in Instruments
         /\ Head(queue).op = "release" =>
              /\ Head(queue).claim \in Claims
              /\ claim[Head(queue).claim] = "dropped"
              /\ want[Head(queue).claim] \in Instruments
<1>1. 1 \in DOMAIN queue /\ Head(queue) = queue[1] /\ Head(queue) \in Command
  BY HeadTailProperties, LenProperties, EmptySeq DEF Inv, TypeOK
<1> QED
  BY <1>1 DEF Inv, QueueInv, WantInv

\* One claim more on an instrument.
LEMMA GrantCounts ==
  ASSUME TypeOK, CountsMatchClaims, NEW c \in Claims, claim[c] \in {"waiting", "aborted"},
         want[c] \in Instruments, Grant(c), want' = want,
         count' = [count EXCEPT ![want[c]] = @ + 1]
  PROVE  CountsMatchClaims'
<1>1. claim' = [claim EXCEPT ![c] = claim'[c]] /\ claim'[c] \in Granted /\ claim[c] \notin Granted
  BY DEF Grant, Granted, TypeOK
<1>2. Holders(want[c])' = Holders(want[c]) \cup {c} /\ c \notin Holders(want[c])
  BY <1>1 DEF Holders, TypeOK
<1>3. \A i \in Instruments \ {want[c]} : Holders(i)' = Holders(i)
  BY <1>1 DEF Holders, TypeOK
<1>4. Cardinality(Holders(want[c])') = Cardinality(Holders(want[c])) + 1
  BY <1>2, HoldersFinite, FS_AddElement
<1> QED
  BY <1>3, <1>4 DEF CountsMatchClaims, TypeOK

\* One claim less on an instrument.
LEMMA ReleaseCounts ==
  ASSUME TypeOK, CountsMatchClaims, NEW c \in Claims, NEW i \in Instruments,
         claim[c] \in Granted, want[c] = i, Finish(c),
         count' = [count EXCEPT ![i] = @ - 1]
  PROVE  CountsMatchClaims'
<1>1. "idle" \notin Granted /\ NoInstrument \notin Instruments
  BY PoolAssumption DEF PoolAssumption, Granted
<1>2. Holders(i)' = Holders(i) \ {c} /\ c \in Holders(i)
  <2>1. claim'[c] \notin Granted
    BY <1>1 DEF TypeOK, Finish
  <2>2. \A d \in Claims \ {c} : claim'[d] = claim[d] /\ want'[d] = want[d]
    BY DEF TypeOK, Finish
  <2> QED
    BY <2>1, <2>2 DEF Holders
<1>3. \A j \in Instruments \ {i} : Holders(j)' = Holders(j)
  BY <1>1 DEF Holders, TypeOK, Finish
<1>4. Cardinality(Holders(i)') = Cardinality(Holders(i)) - 1
  BY <1>2, HoldersFinite, FS_RemoveElement
<1> QED
  BY <1>3, <1>4, HoldersFinite DEF CountsMatchClaims, TypeOK

\* Steps that move claims but grant and give back nothing.
LEMMA SameHolders ==
  ASSUME CountsMatchClaims, count' = count,
         \A c \in Claims :
            \/ claim'[c] \in Granted /\ claim[c] \in Granted /\ want'[c] = want[c]
            \/ claim'[c] \notin Granted /\ claim[c] \notin Granted
  PROVE  CountsMatchClaims'
<1>1. \A i \in Instruments : Holders(i)' = Holders(i)
  BY DEF Holders
<1> QED
  BY <1>1 DEF CountsMatchClaims

-----------------------------------------------------------------------------
(* The shards. *)

\* What shard_with_room leaves for the subscribe: the leases are where they were.
Fits(ss) ==
  /\ ss \in Seq(Shard \cup {Vacant})
  /\ DOMAIN shards \subseteq DOMAIN ss
  /\ \A k \in Occupied(shards) : ss[k].conn = shards[k].conn
  /\ \A k \in DOMAIN ss : ss[k].symbols = {i \in Instruments : shardOf[i] = k}

LEMMA SlotFacts ==
  /\ \A s \in Shard \cup {Vacant} : s.conn # NoConn => s \in Shard
  /\ \A s \in Shard \cup {Vacant} : s.conn = NoConn => s = Vacant /\ s.symbols = {}
  /\ \A s \in Shard : s.conn \in Conns /\ s.conn # NoConn
  /\ \A x \in Conns : NewShard(x) \in Shard /\ NewShard(x).symbols = {} /\ NewShard(x).conn = x
BY PoolAssumption DEF PoolAssumption, Shard, Vacant, NewShard

\* Slots are numbered from 1, so shardOf[i] = 0 points at none of them.
LEMMA SlotNumbers ==
  ASSUME NEW S, NEW ss \in Seq(S)
  PROVE  /\ Len(ss) \in Nat
         /\ DOMAIN ss = 1..Len(ss)
         /\ \A k \in DOMAIN ss : k \in Nat \ {0} /\ ss[k] \in S
BY LenProperties, ElementOfSeq

LEMMA FitsAsIs ==
  ASSUME TypeOK, BookkeepingAgrees
  PROVE  Fits(shards)
BY DEF Fits, TypeOK, BookkeepingAgrees

LEMMA FitsInHole ==
  ASSUME TypeOK, BookkeepingAgrees, NEW h \in Holes(shards), NEW x \in Conns
  PROVE  Fits([shards EXCEPT ![h] = NewShard(x)])
<1> DEFINE ss == [shards EXCEPT ![h] = NewShard(x)]
<1>1. /\ shards \in Seq(Shard \cup {Vacant})
      /\ h \in 1..Len(shards)
      /\ shards[h].symbols = {}
  BY SlotNumbers, SlotFacts DEF TypeOK, Holes, Occupied
<1>2. NewShard(x) \in Shard \cup {Vacant}
  BY SlotFacts
<1>3. /\ ss \in Seq(Shard \cup {Vacant})
      /\ DOMAIN ss = DOMAIN shards
      /\ \A k \in DOMAIN shards : ss[k] = IF k = h THEN NewShard(x) ELSE shards[k]
  BY <1>1, <1>2, ExceptSeq, SlotNumbers
<1>4. \A k \in DOMAIN ss : ss[k].symbols = shards[k].symbols
  BY <1>1, <1>3, SlotFacts
<1>5. \A k \in Occupied(shards) : ss[k].conn = shards[k].conn
  BY <1>3 DEF Occupied, Holes
<1> QED
  BY <1>3, <1>4, <1>5 DEF Fits, BookkeepingAgrees

LEMMA FitsPushed ==
  ASSUME TypeOK, BookkeepingAgrees, NEW x \in Conns
  PROVE  /\ Fits(Append(shards, NewShard(x)))
         /\ Len(shards) + 1 \in Occupied(Append(shards, NewShard(x)))
<1> DEFINE ss == Append(shards, NewShard(x))
<1>1. shards \in Seq(Shard \cup {Vacant}) /\ NewShard(x) \in Shard \cup {Vacant}
  BY SlotFacts DEF TypeOK
<1>2. /\ ss \in Seq(Shard \cup {Vacant})
      /\ Len(shards) \in Nat
      /\ DOMAIN shards = 1..Len(shards)
      /\ DOMAIN ss = 1..(Len(shards) + 1)
      /\ \A k \in 1..Len(shards) : ss[k] = shards[k]
      /\ ss[Len(shards) + 1] = NewShard(x)
  BY <1>1, AppendProperties, LenProperties
<1>3. {i \in Instruments : shardOf[i] = Len(shards) + 1} = {}
  BY <1>2 DEF BookkeepingAgrees, Occupied
<1>4. \A k \in DOMAIN ss : ss[k].symbols = {i \in Instruments : shardOf[i] = k}
  BY <1>2, <1>3, SlotFacts DEF BookkeepingAgrees
<1>5. Len(shards) + 1 \in Occupied(ss)
  BY <1>2, SlotFacts DEF Occupied
<1> QED
  BY <1>2, <1>4, <1>5 DEF Fits, Occupied

\* The last part of `lease`, on whichever shards shard_with_room left.
LEMMA SubscribeStep ==
  ASSUME Inv, FirstLease, NEW ss, Fits(ss), NEW k \in Occupied(ss), NEW ok \in BOOLEAN,
         SubscribeOn(ss, k, ok), queue' = Tail(queue)
  PROVE  Inv' /\ LeaseStays
<1> DEFINE c == Head(queue).claim
           i == want[c]
<1>1. /\ queue # <<>>
      /\ c \in Claims /\ claim[c] \in {"waiting", "aborted"}
      /\ i \in Instruments /\ count[i] = 0 /\ shardOf[i] = 0
  BY HeadClaim DEF FirstLease, HeadIs, Inv, BookkeepingAgrees
<1>2. /\ ss \in Seq(Shard \cup {Vacant})
      /\ DOMAIN ss = 1..Len(ss)
      /\ \A n \in DOMAIN ss : n \in Nat \ {0} /\ ss[n] \in Shard \cup {Vacant}
      /\ k \in DOMAIN ss /\ ss[k] \in Shard
      /\ Occupied(shards) \subseteq Occupied(ss)
  BY SlotNumbers, SlotFacts DEF Fits, Occupied
<1>3. CASE ok
  <2> DEFINE sub == Carrying(ss[k], i)
  <2>1. /\ shards' = [ss EXCEPT ![k] = sub]
        /\ count' = [count EXCEPT ![i] = 1]
        /\ shardOf' = [shardOf EXCEPT ![i] = k]
        /\ Grant(c) /\ want' = want
    BY <1>3 DEF SubscribeOn
  <2>2. sub \in Shard /\ sub.conn = ss[k].conn /\ sub.symbols = ss[k].symbols \cup {i}
    BY <1>1, <1>2 DEF Shard, Carrying
  <2>3. /\ shards' \in Seq(Shard \cup {Vacant})
        /\ DOMAIN shards' = DOMAIN ss
        /\ \A n \in DOMAIN ss : shards'[n] = IF n = k THEN sub ELSE ss[n]
    BY <2>1, <2>2, <1>2, ExceptSeq, SlotNumbers
  <2>4. Occupied(shards') = Occupied(ss) /\ \A n \in DOMAIN ss : shards'[n].conn = ss[n].conn
    BY <2>2, <2>3 DEF Occupied
  <2>5. \A n \in DOMAIN shards' : shards'[n].symbols = {j \in Instruments : shardOf'[j] = n}
    BY <1>1, <1>2, <2>1, <2>2, <2>3 DEF Fits, Inv, TypeOK
  <2>6. BookkeepingAgrees'
    BY <1>1, <1>2, <2>1, <2>4, <2>5 DEF BookkeepingAgrees, Inv, TypeOK
  <2>7. claim' = [claim EXCEPT ![c] = claim'[c]] /\ claim'[c] \in Granted
    BY <1>1, <2>1 DEF Grant, Granted, Inv, TypeOK
  <2>8. queue' \in Seq(Command) /\ QueueInv'
    BY <1>1, <2>7, PopCommand DEF Inv, TypeOK
  <2>9. TypeOK'
    <3>1. claim' \in [Claims -> Stages]
      BY <1>1, <2>1 DEF Grant, TypeOK, Inv, Stages
    <3>2. want' \in [Claims -> Instruments \cup {NoInstrument}]
      BY <2>1 DEF TypeOK, Inv
    <3>3. count' \in [Instruments -> Nat] /\ shardOf' \in [Instruments -> Nat]
      BY <1>1, <1>2, <2>1 DEF TypeOK, Inv
    <3> QED
      BY <2>3, <2>8, <3>1, <3>2, <3>3 DEF TypeOK
  <2>10. WantInv'
    BY <1>1, <2>1, <2>7 DEF WantInv, Inv, TypeOK
  <2>11. CountsMatchClaims'
    <3>1. count' = [count EXCEPT ![i] = @ + 1]
      BY <1>1, <2>1 DEF Inv, TypeOK
    <3> QED
      BY <1>1, <2>1, <3>1, GrantCounts DEF Inv
  <2>12. LeaseStays
    BY <1>1, <2>1, <2>4 DEF LeaseStays, Inv, TypeOK, BookkeepingAgrees, Fits, Occupied
  <2> QED
    BY <2>6, <2>8, <2>9, <2>10, <2>11, <2>12 DEF Inv
<1>4. CASE ~ ok
  <2>1. shards' = ss /\ Finish(c) /\ count' = count /\ shardOf' = shardOf
    BY <1>4 DEF SubscribeOn
  <2>2. BookkeepingAgrees'
    BY <1>2, <2>1 DEF BookkeepingAgrees, Fits, Inv
  <2>3. queue' \in Seq(Command) /\ QueueInv'
    BY <1>1, <2>1, PopCommand DEF Inv, TypeOK, Finish
  <2>4. TypeOK'
    BY <1>2, <2>1, <2>3 DEF TypeOK, Inv, Finish, Stages
  <2>5. WantInv'
    BY <1>1, <2>1 DEF WantInv, Inv, TypeOK, Finish
  <2>6. CountsMatchClaims'
    BY <1>1, <2>1, SameHolders DEF Inv, TypeOK, Finish, Granted
  <2>7. LeaseStays
    BY <2>1 DEF LeaseStays, Inv, BookkeepingAgrees, Fits
  <2> QED
    BY <2>2, <2>3, <2>4, <2>5, <2>6, <2>7 DEF Inv
<1> QED
  BY <1>3, <1>4

\* Steps that change neither the records nor what the shards carry.
LEMMA ShardsKept ==
  ASSUME BookkeepingAgrees, TypeOK, TypeOK',
         count' = count, shardOf' = shardOf, DOMAIN shards' = DOMAIN shards,
         \A k \in DOMAIN shards :
            /\ shards'[k].symbols = shards[k].symbols
            /\ shards[k].symbols # {} => shards'[k].conn = shards[k].conn
  PROVE  BookkeepingAgrees' /\ LeaseStays
<1>1. ASSUME NEW i \in Instruments, count[i] > 0
      PROVE  /\ shardOf[i] \in Occupied(shards) /\ shardOf[i] \in DOMAIN shards
             /\ shards'[shardOf[i]].conn = shards[shardOf[i]].conn
             /\ shardOf[i] \in Occupied(shards')
  <2>1. count[i] # 0
    BY <1>1 DEF TypeOK
  <2>2. shardOf[i] \in Occupied(shards) /\ shardOf[i] \in DOMAIN shards
    BY <2>1 DEF BookkeepingAgrees, Occupied
  <2>3. i \in shards[shardOf[i]].symbols
    BY <2>2 DEF BookkeepingAgrees
  <2> QED
    BY <2>2, <2>3 DEF Occupied
<1>2. \A k \in DOMAIN shards' : shards'[k].symbols = {i \in Instruments : shardOf'[i] = k}
  BY DEF BookkeepingAgrees
<1>3. \A i \in Instruments :
       \/ count'[i] = 0 /\ shardOf'[i] = 0
       \/ count'[i] > 0 /\ shardOf'[i] \in Occupied(shards')
  BY <1>1 DEF BookkeepingAgrees
<1>4. LeaseStays
  BY <1>1 DEF LeaseStays
<1> QED
  BY <1>2, <1>3, <1>4 DEF BookkeepingAgrees

LEMMA ReleaseStep ==
  ASSUME Inv, HandleRelease
  PROVE  Inv' /\ LeaseStays
<1> DEFINE c == Head(queue).claim
           i == want[c]
           k == shardOf[i]
<1>1. /\ queue # <<>> /\ queue' = Tail(queue)
      /\ c \in Claims /\ claim[c] = "dropped" /\ i \in Instruments
      /\ Finish(c)
  BY HeadClaim DEF HandleRelease, HeadIs
<1>2. claim[c] \in Granted
  BY <1>1 DEF Granted
<1>3. count[i] \in Nat /\ count[i] > 0
  BY <1>1, <1>2, HolderCounts DEF Inv
<1>4. queue' \in Seq(Command) /\ QueueInv'
  BY <1>1, PopCommand DEF Inv, TypeOK, Finish
<1>5. WantInv'
  BY <1>1 DEF WantInv, Inv, TypeOK, Finish
<1>6. claim' \in [Claims -> Stages] /\ want' \in [Claims -> Instruments \cup {NoInstrument}]
  BY <1>1 DEF TypeOK, Inv, Finish, Stages
<1>7. CASE count[i] = 1
  <2>1. Unsubscribe(i)
    BY <1>7, <1>1 DEF HandleRelease
  <2>2. count' = [count EXCEPT ![i] = @ - 1]
    BY <1>7, <2>1 DEF Unsubscribe, Inv, TypeOK
  <2>3. CountsMatchClaims'
    BY <1>1, <1>2, <2>2, ReleaseCounts DEF Inv
  <2>4. /\ shards \in Seq(Shard \cup {Vacant})
        /\ DOMAIN shards = 1..Len(shards)
        /\ \A n \in DOMAIN shards : n \in Nat \ {0}
        /\ k \in Occupied(shards) /\ k \in DOMAIN shards /\ shards[k] \in Shard
    BY <1>1, <1>3, SlotNumbers, SlotFacts DEF Inv, TypeOK, BookkeepingAgrees, Occupied
  <2> DEFINE left == Without(shards[k], i)
  <2>5. left \in Shard /\ left.conn = shards[k].conn /\ left.symbols = shards[k].symbols \ {i}
    BY <2>4 DEF Without, Shard
  <2>6. /\ shards' \in Seq(Shard \cup {Vacant})
        /\ DOMAIN shards' = DOMAIN shards
        /\ \A n \in DOMAIN shards : shards'[n] = IF n = k THEN left ELSE shards[n]
    <3>1. shards' = [shards EXCEPT ![k] = left]
      BY <2>1 DEF Unsubscribe
    <3> HIDE DEF left, k
    <3> QED
      BY <3>1, <2>4, <2>5, ExceptSeq, SlotNumbers
  <2> HIDE DEF left, k
  <2>7. /\ Occupied(shards') = Occupied(shards)
        /\ \A n \in DOMAIN shards : shards'[n].conn = shards[n].conn
    BY <2>5, <2>6 DEF Occupied
  <2>8. /\ shardOf' = [shardOf EXCEPT ![i] = 0] /\ count' = [count EXCEPT ![i] = 0]
        /\ k = shardOf[i]
        /\ count' \in [Instruments -> Nat] /\ shardOf' \in [Instruments -> Nat]
    BY <2>1 DEF Unsubscribe, Inv, TypeOK, k
  <2>9. \A n \in DOMAIN shards' : shards'[n].symbols = {j \in Instruments : shardOf'[j] = n}
    <3>1. \A j \in Instruments : shardOf'[j] = IF j = i THEN 0 ELSE shardOf[j]
      BY <2>8 DEF Inv, TypeOK
    <3>2. \A n \in DOMAIN shards : n # 0 /\ shards[n].symbols = {j \in Instruments : shardOf[j] = n}
      BY <2>4 DEF Inv, BookkeepingAgrees
    <3> QED
      BY <3>1, <3>2, <2>5, <2>6, <2>8
  <2>10. BookkeepingAgrees'
    BY <1>1, <2>7, <2>8, <2>9 DEF BookkeepingAgrees, Inv, TypeOK
  <2>11. LeaseStays
    BY <1>1, <2>7, <2>8 DEF LeaseStays, Inv, TypeOK, BookkeepingAgrees, Occupied
  <2>12. TypeOK'
    BY <1>4, <1>6, <2>6, <2>8 DEF TypeOK
  <2> QED
    BY <1>4, <1>5, <2>3, <2>10, <2>11, <2>12 DEF Inv
<1>8. CASE count[i] # 1
  <2>1. /\ count' = [count EXCEPT ![i] = @ - 1]
        /\ shardOf' = shardOf /\ shards' = shards
    BY <1>8, <1>1, <1>3 DEF HandleRelease, Inv, TypeOK
  <2>2. CountsMatchClaims'
    BY <1>1, <1>2, <2>1, ReleaseCounts DEF Inv
  <2>3. count' \in [Instruments -> Nat] /\ \A j \in Instruments : count[j] > 0 <=> count'[j] > 0
    BY <1>1, <1>3, <1>8, <2>1 DEF Inv, TypeOK
  <2>4. TypeOK'
    BY <1>4, <1>6, <2>1, <2>3 DEF TypeOK, Inv
  <2>5. BookkeepingAgrees'
    <3>1. \A j \in Instruments : count[j] \in Nat /\ count'[j] \in Nat
      BY <2>3 DEF Inv, TypeOK
    <3> QED
      BY <2>1, <2>3, <3>1 DEF BookkeepingAgrees, Inv
  <2>6. LeaseStays
    BY <2>1, <2>3 DEF LeaseStays
  <2> QED
    BY <1>4, <1>5, <2>2, <2>4, <2>5, <2>6 DEF Inv
<1> QED
  BY <1>7, <1>8

LEMMA SweepStep ==
  ASSUME Inv, HandleSweep
  PROVE  Inv' /\ LeaseStays
<1>1. /\ queue # <<>> /\ queue' = Tail(queue)
      /\ claim' = claim /\ want' = want /\ count' = count /\ shardOf' = shardOf
      /\ shards' = [k \in DOMAIN shards |-> IF Due(k) THEN Vacant ELSE shards[k]]
  BY DEF HandleSweep, HeadIs
<1>2. queue' \in Seq(Command) /\ QueueInv'
  BY <1>1, PopCommand DEF Inv, TypeOK
<1>3. /\ Len(shards) \in Nat /\ DOMAIN shards = 1..Len(shards)
      /\ \A k \in DOMAIN shards : shards[k] \in Shard \cup {Vacant}
  BY SlotNumbers DEF Inv, TypeOK
<1>4. shards' \in Seq(Shard \cup {Vacant})
  <2>1. \A k \in 1..Len(shards) : (IF Due(k) THEN Vacant ELSE shards[k]) \in Shard \cup {Vacant}
    BY <1>3
  <2>2. shards' \in [1..Len(shards) -> Shard \cup {Vacant}]
    BY <1>1, <1>3, <2>1
  <2> QED
    BY <1>3, <2>2, SeqDef
<1>5. TypeOK'
  BY <1>1, <1>2, <1>4 DEF TypeOK, Inv
<1>6. \A k \in DOMAIN shards :
        /\ shards'[k].symbols = shards[k].symbols
        /\ shards[k].symbols # {} => shards'[k].conn = shards[k].conn
  BY <1>1 DEF Due, Vacant
<1>7. BookkeepingAgrees' /\ LeaseStays
  BY <1>1, <1>5, <1>6, ShardsKept DEF Inv
<1>8. CountsMatchClaims' /\ WantInv'
  BY <1>1, SameHolders DEF Inv, WantInv
<1> QED
  BY <1>2, <1>5, <1>7, <1>8 DEF Inv

-----------------------------------------------------------------------------
(* The invariant.                                                          *)

\* A step of the pool, with no bound on the queue.
Step == Claimants \/ Timers \/ Reports \/ Actor

LEMMA InitInv ==
  ASSUME Init PROVE Inv
<1>1. TypeOK
  <2>1. queue \in Seq(Command) /\ shards \in Seq(Shard \cup {Vacant})
    BY EmptySeq DEF Init
  <2> QED
    BY <2>1 DEF Init, TypeOK, Stages
<1>2. DOMAIN queue = {} /\ DOMAIN shards = {}
  BY EmptySeq, LenProperties DEF Init
<1>3. \A i : Holders(i) = {}
  BY DEF Init, Holders, Granted
<1>4. CountsMatchClaims
  BY <1>3, FS_EmptySet DEF CountsMatchClaims, Init
<1>5. QueueInv /\ WantInv /\ BookkeepingAgrees
  BY <1>2 DEF Init, QueueInv, WantInv, BookkeepingAgrees
<1> QED
  BY <1>1, <1>4, <1>5 DEF Inv

\* What is left to show of a step that changes no record and no shard.
LEMMA RecordsKept ==
  ASSUME Inv, UNCHANGED <<count, shardOf, shards>>
  PROVE  BookkeepingAgrees' /\ LeaseStays
BY DEF Inv, BookkeepingAgrees, LeaseStays, Occupied

LEMMA ClaimantStep ==
  ASSUME Inv, NEW c \in Claims,
         \/ \E i \in Instruments : CallLease(c, i)
         \/ AbortLease(c)
         \/ TakeLease(c)
         \/ DropLease(c)
  PROVE  Inv' /\ LeaseStays
<1>1. CASE \E i \in Instruments : CallLease(c, i)
  <2>1. PICK i \in Instruments : CallLease(c, i)
    BY <1>1
  <2> DEFINE cmd == LeaseCommand(c)
  <2>2. cmd \in Command /\ cmd.claim = c /\ cmd.op = "lease"
    BY DEF LeaseCommand, Command
  <2>3. queue' \in Seq(Command) /\ QueueInv'
    <3> HIDE DEF cmd
    <3>1. queue' = Append(queue, cmd) /\ claim[cmd.claim] = "idle"
          /\ claim' = [claim EXCEPT ![cmd.claim] = "waiting"]
      BY <2>1, <2>2 DEF CallLease, cmd
    <3> QED
      BY <2>2, <3>1, AppendClaim DEF Inv
  <2>4. TypeOK'
    BY <2>1, <2>3 DEF CallLease, TypeOK, Inv, Stages
  <2>5. CountsMatchClaims'
    BY <2>1, SameHolders DEF CallLease, Inv, TypeOK, Granted
  <2>6. WantInv'
    BY <2>1 DEF CallLease, Inv, TypeOK, WantInv
  <2> QED
    BY <2>1, <2>3, <2>4, <2>5, <2>6, RecordsKept DEF CallLease, Inv
<1>2. CASE AbortLease(c) \/ TakeLease(c)
  <2>1. /\ UNCHANGED <<want, queue, count, shardOf, shards>>
        /\ \/ /\ claim[c] = "waiting" /\ claim' = [claim EXCEPT ![c] = "aborted"]
           \/ /\ claim[c] = "answered" /\ claim' = [claim EXCEPT ![c] = "orphaned"]
           \/ /\ claim[c] = "answered" /\ claim' = [claim EXCEPT ![c] = "held"]
    BY <1>2 DEF AbortLease, TakeLease
  <2>2. TypeOK'
    BY <2>1 DEF TypeOK, Inv, Stages
  <2>3. QueueInv'
    BY <2>1 DEF QueueInv, Inv, TypeOK
  <2>4. CountsMatchClaims'
    BY <2>1, SameHolders DEF Inv, TypeOK, Granted
  <2>5. WantInv'
    BY <2>1 DEF Inv, TypeOK, WantInv
  <2> QED
    BY <2>1, <2>2, <2>3, <2>4, <2>5, RecordsKept DEF Inv
<1>3. CASE DropLease(c)
  <2> DEFINE cmd == ReleaseCommand(c)
  <2>1. cmd \in Command /\ cmd.claim = c /\ cmd.op = "release"
    BY DEF ReleaseCommand, Command
  <2>2. queue' \in Seq(Command) /\ QueueInv'
    <3> HIDE DEF cmd
    <3>1. queue' = Append(queue, cmd) /\ claim[cmd.claim] = "held"
          /\ claim' = [claim EXCEPT ![cmd.claim] = "dropped"]
      BY <1>3, <2>1 DEF DropLease, cmd
    <3> QED
      BY <2>1, <3>1, AppendClaim DEF Inv
  <2>3. TypeOK'
    BY <1>3, <2>2 DEF DropLease, TypeOK, Inv, Stages
  <2>4. CountsMatchClaims'
    BY <1>3, SameHolders DEF DropLease, Inv, TypeOK, Granted
  <2>5. WantInv'
    BY <1>3 DEF DropLease, Inv, TypeOK, WantInv
  <2> QED
    BY <1>3, <2>2, <2>3, <2>4, <2>5, RecordsKept DEF DropLease, Inv
<1> QED
  BY <1>1, <1>2, <1>3

\* A command about no claim is sent, and at most a shard's timer state changes.
LEMMA SendStep ==
  ASSUME Inv,
         \/ queue' = queue
         \/ \E cmd \in Command : /\ cmd.claim = NoClaim /\ cmd.op \notin {"lease", "release"}
                                 /\ queue' = Append(queue, cmd),
         UNCHANGED <<claim, want, count, shardOf>>,
         \/ shards' = shards
         \/ \E k \in DOMAIN shards, s \in Shard :
              /\ shards[k] \in Shard
              /\ s.conn = shards[k].conn /\ s.symbols = shards[k].symbols
              /\ shards' = [shards EXCEPT ![k] = s]
  PROVE  Inv' /\ LeaseStays
<1>1. queue' \in Seq(Command) /\ QueueInv'
  <2>1. CASE queue' = queue
    BY <2>1 DEF Inv, TypeOK, QueueInv
  <2>2. CASE queue' # queue
    BY <2>2, AppendNeutral DEF Inv
  <2> QED
    BY <2>1, <2>2
<1>2. /\ shards' \in Seq(Shard \cup {Vacant})
      /\ DOMAIN shards' = DOMAIN shards
      /\ \A n \in DOMAIN shards :
           shards'[n].conn = shards[n].conn /\ shards'[n].symbols = shards[n].symbols
  <2>1. CASE shards' = shards
    BY <2>1 DEF Inv, TypeOK
  <2>2. CASE shards' # shards
    <3>1. PICK k \in DOMAIN shards, s \in Shard :
            /\ s.conn = shards[k].conn /\ s.symbols = shards[k].symbols
            /\ shards' = [shards EXCEPT ![k] = s]
      BY <2>2
    <3>2. shards \in Seq(Shard \cup {Vacant}) /\ k \in 1..Len(shards) /\ DOMAIN shards = 1..Len(shards)
      BY SlotNumbers DEF Inv, TypeOK
    <3>3. /\ shards' \in Seq(Shard \cup {Vacant}) /\ Len(shards') = Len(shards)
          /\ \A n \in 1..Len(shards) : shards'[n] = IF n = k THEN s ELSE shards[n]
      BY <3>1, <3>2, ExceptSeq
    <3> QED
      BY <3>1, <3>2, <3>3, SlotNumbers
  <2> QED
    BY <2>1, <2>2
<1>3. TypeOK'
  BY <1>1, <1>2 DEF Inv, TypeOK
<1>4. BookkeepingAgrees' /\ LeaseStays
  BY <1>2, <1>3, ShardsKept DEF Inv
<1>5. CountsMatchClaims' /\ WantInv'
  BY SameHolders DEF Inv, WantInv
<1> QED
  BY <1>1, <1>3, <1>4, <1>5 DEF Inv

LEMMA SilentCommands ==
  /\ SweepCommand \in Command
  /\ \A x \in Conns : ReconnectedCommand(x) \in Command
  /\ SweepCommand.claim = NoClaim /\ SweepCommand.op = "sweep"
  /\ \A x \in Conns : ReconnectedCommand(x).claim = NoClaim /\ ReconnectedCommand(x).op = "reconnected"
BY DEF SweepCommand, ReconnectedCommand, Command

LEMMA TimerStep ==
  ASSUME Inv, NEW k \in DOMAIN shards, GraceElapses(k) \/ SweepFires(k)
  PROVE  Inv' /\ LeaseStays
<1>1. shards[k].since # "unset" \/ shards[k].timed
  BY DEF GraceElapses, SweepFires
<1>2. shards[k] \in Shard \cup {Vacant} /\ shards[k] # Vacant
  BY <1>1, SlotNumbers DEF Inv, TypeOK, Vacant, GraceElapses, SweepFires
<1>3. CASE GraceElapses(k)
  <2> DEFINE s == [shards[k] EXCEPT !.since = "elapsed"]
  <2>1. s \in Shard /\ s.conn = shards[k].conn /\ s.symbols = shards[k].symbols
    BY <1>2 DEF Shard
  <2>2. shards' = [shards EXCEPT ![k] = s] /\ UNCHANGED <<claim, want, queue, count, shardOf>>
    BY <1>3 DEF GraceElapses
  <2> HIDE DEF s
  <2> QED
    BY <1>2, <2>1, <2>2, SendStep
<1>4. CASE SweepFires(k)
  <2> DEFINE s == [shards[k] EXCEPT !.timed = FALSE]
  <2>1. s \in Shard /\ s.conn = shards[k].conn /\ s.symbols = shards[k].symbols
    BY <1>2 DEF Shard
  <2>2. /\ shards' = [shards EXCEPT ![k] = s] /\ UNCHANGED <<claim, want, count, shardOf>>
        /\ queue' = Append(queue, SweepCommand)
    BY <1>4 DEF SweepFires
  <2> HIDE DEF s
  <2> QED
    BY <1>2, <2>1, <2>2, SilentCommands, SendStep
<1> QED
  BY <1>3, <1>4

LEMMA ReportStep ==
  ASSUME Inv, Reports
  PROVE  Inv' /\ LeaseStays
<1>1. \E cmd \in Command : /\ cmd.claim = NoClaim /\ cmd.op \notin {"lease", "release"}
                           /\ queue' = Append(queue, cmd)
  BY SilentCommands DEF Reports, StraySweep, ReportReconnected
<1>2. UNCHANGED <<claim, want, count, shardOf, shards>>
  BY DEF Reports, StraySweep, ReportReconnected
<1> QED
  BY <1>1, <1>2, SendStep

\* A lease that is refused before any shard is touched.
LEMMA RefuseStep ==
  ASSUME Inv, ConnectFails
  PROVE  Inv' /\ LeaseStays
<1> DEFINE c == Head(queue).claim
<1>1. /\ queue # <<>> /\ queue' = Tail(queue)
      /\ c \in Claims /\ claim[c] \in {"waiting", "aborted"}
      /\ Finish(c) /\ UNCHANGED <<count, shardOf, shards>>
  BY HeadClaim DEF ConnectFails, FirstLease, HeadIs
<1>2. queue' \in Seq(Command) /\ QueueInv'
  BY <1>1, PopCommand DEF Inv, TypeOK, Finish
<1>3. TypeOK'
  BY <1>1, <1>2 DEF TypeOK, Inv, Finish, Stages
<1>4. WantInv'
  BY <1>1 DEF WantInv, Inv, TypeOK, Finish
<1>5. CountsMatchClaims'
  BY <1>1, SameHolders DEF Inv, TypeOK, Finish, Granted
<1> QED
  BY <1>1, <1>2, <1>3, <1>4, <1>5, RecordsKept DEF Inv

LEMMA JoinStep ==
  ASSUME Inv, JoinLease
  PROVE  Inv' /\ LeaseStays
<1> DEFINE c == Head(queue).claim
           i == want[c]
<1>1. /\ queue # <<>> /\ queue' = Tail(queue)
      /\ c \in Claims /\ claim[c] \in {"waiting", "aborted"} /\ i \in Instruments
      /\ count[i] > 0 /\ count' = [count EXCEPT ![i] = @ + 1]
      /\ Grant(c) /\ UNCHANGED <<want, shardOf, shards>>
  BY HeadClaim DEF JoinLease, HeadIs
<1>2. claim' = [claim EXCEPT ![c] = claim'[c]] /\ claim'[c] \in Granted
  BY <1>1 DEF Grant, Granted, Inv, TypeOK
<1>3. queue' \in Seq(Command) /\ QueueInv'
  BY <1>1, <1>2, PopCommand DEF Inv, TypeOK
<1>4. count' \in [Instruments -> Nat] /\ \A j \in Instruments : count'[j] > 0 <=> count[j] > 0
  BY <1>1 DEF Inv, TypeOK
<1>5. TypeOK'
  BY <1>1, <1>2, <1>3, <1>4 DEF TypeOK, Inv, Granted, Stages, Grant
<1>6. WantInv'
  BY <1>1, <1>2 DEF WantInv, Inv, TypeOK
<1>7. CountsMatchClaims'
  BY <1>1, GrantCounts DEF Inv
<1>8. BookkeepingAgrees'
  <2>1. \A j \in Instruments : count[j] \in Nat /\ count'[j] \in Nat
    BY <1>4 DEF Inv, TypeOK
  <2> QED
    BY <1>1, <1>4, <2>1 DEF BookkeepingAgrees, Inv
<1>9. LeaseStays
  BY <1>1, <1>4 DEF LeaseStays
<1> QED
  BY <1>3, <1>5, <1>6, <1>7, <1>8, <1>9 DEF Inv

LEMMA ActorStep ==
  ASSUME Inv, Actor
  PROVE  Inv' /\ LeaseStays
<1>1. CASE JoinLease
  BY <1>1, JoinStep
<1>2. CASE ConnectFails
  BY <1>2, RefuseStep
<1>3. ASSUME NEW ok \in BOOLEAN, NEW k \in DOMAIN shards, LeaseOnShard(k, ok)
      PROVE  Inv' /\ LeaseStays
  <2>1. k \in Occupied(shards) /\ SubscribeOn(shards, k, ok) /\ FirstLease /\ queue' = Tail(queue)
    BY <1>3 DEF LeaseOnShard, IsFirst, Roomy
  <2> QED
    BY <2>1, FitsAsIs, SubscribeStep DEF Inv
<1>4. ASSUME NEW ok \in BOOLEAN, NEW x \in Conns, NEW k \in DOMAIN shards, LeaseInHole(x, k, ok)
      PROVE  Inv' /\ LeaseStays
  <2>1. PICK h \in Holes(shards) :
          /\ k \in Occupied([shards EXCEPT ![h] = NewShard(x)])
          /\ SubscribeOn([shards EXCEPT ![h] = NewShard(x)], k, ok)
    BY <1>4 DEF LeaseInHole, IsFirst
  <2>2. FirstLease /\ queue' = Tail(queue)
    BY <1>4 DEF LeaseInHole
  <2> QED
    BY <2>1, <2>2, FitsInHole, SubscribeStep DEF Inv
<1>5. ASSUME NEW ok \in BOOLEAN, NEW x \in Conns, LeaseOnPushed(x, ok)
      PROVE  Inv' /\ LeaseStays
  <2>1. /\ SubscribeOn(Append(shards, NewShard(x)), Len(shards) + 1, ok)
        /\ FirstLease /\ queue' = Tail(queue)
    BY <1>5 DEF LeaseOnPushed
  <2> QED
    BY <2>1, FitsPushed, SubscribeStep DEF Inv
<1>6. CASE HandleRelease
  BY <1>6, ReleaseStep
<1>7. CASE HandleSweep
  BY <1>7, SweepStep
<1>8. CASE HandleReconnected
  <2>1. queue # <<>> /\ queue' = Tail(queue) /\ UNCHANGED <<claim, want, count, shardOf, shards>>
    BY <1>8 DEF HandleReconnected, HeadIs
  <2>2. queue' \in Seq(Command) /\ QueueInv'
    BY <2>1, PopCommand DEF Inv, TypeOK
  <2>3. TypeOK' /\ WantInv' /\ CountsMatchClaims'
    BY <2>1, <2>2, SameHolders DEF Inv, TypeOK, WantInv
  <2> QED
    BY <2>1, <2>2, <2>3, RecordsKept DEF Inv
<1> QED
  BY <1>1, <1>2, <1>3, <1>4, <1>5, <1>6, <1>7, <1>8 DEF Actor, Lease

\* Every step keeps the invariant and moves no lease.
LEMMA StepInv ==
  ASSUME Inv, Step \/ UNCHANGED vars
  PROVE  Inv' /\ LeaseStays
<1>1. CASE Claimants
  BY <1>1, ClaimantStep DEF Claimants
<1>2. CASE Timers
  BY <1>2, TimerStep DEF Timers
<1>3. CASE Reports
  BY <1>3, ReportStep
<1>4. CASE Actor
  BY <1>4, ActorStep
<1>5. CASE UNCHANGED vars
  <2>1. TypeOK' /\ QueueInv' /\ WantInv'
    BY <1>5 DEF vars, Inv, TypeOK, QueueInv, WantInv
  <2>2. CountsMatchClaims'
    BY <1>5, SameHolders DEF vars, Inv
  <2> QED
    BY <1>5, <2>1, <2>2, RecordsKept DEF vars, Inv
<1> QED
  BY <1>1, <1>2, <1>3, <1>4, <1>5 DEF Step

THEOREM InvInvariant == Spec => []Inv
<1>1. Init => Inv
  BY InitInv
<1>2. Inv /\ [Next]_vars => Inv'
  BY StepInv DEF Next, Step
<1> QED
  BY <1>1, <1>2, PTL DEF Spec

-----------------------------------------------------------------------------
(* What follows from the invariant. *)

\* The variables keep their types: pool.rs never stores a shard, a record or a
\* command of another shape.
THEOREM TypeCorrect == Spec => []TypeOK
<1>1. Inv => TypeOK
  BY DEF Inv
<1> QED
  BY <1>1, InvInvariant, PTL

\* shard_mut never panics: every record points at a live shard carrying it, and
\* the shards carry nothing else.
THEOREM BookkeepingHolds == Spec => []BookkeepingAgrees
<1>1. Inv => BookkeepingAgrees
  BY DEF Inv
<1> QED
  BY <1>1, InvInvariant, PTL

\* The reference count of an instrument is the number of its granted claims.
THEOREM CountsHold == Spec => []CountsMatchClaims
<1>1. Inv => CountsMatchClaims
  BY DEF Inv
<1> QED
  BY <1>1, InvInvariant, PTL

\* The warning branch of `release` is unreachable.
THEOREM ReleaseAlwaysFindsARecord == Spec => []ReleaseFindsARecord
<1>1. Inv => ReleaseFindsARecord
  <2> SUFFICES ASSUME Inv, NEW n \in DOMAIN queue, queue[n].op = "release"
               PROVE  count[want[queue[n].claim]] > 0
    BY DEF ReleaseFindsARecord
  <2>1. queue[n].claim \in Claims /\ claim[queue[n].claim] = "dropped"
    BY DEF Inv, QueueInv
  <2>2. want[queue[n].claim] \in Instruments /\ claim[queue[n].claim] \in Granted
    BY <2>1 DEF Inv, WantInv, Granted
  <2> QED
    BY <2>1, <2>2, HolderCounts DEF Inv
<1> QED
  BY <1>1, InvInvariant, PTL

\* A leased instrument keeps its shard and the shard its connection.
THEOREM LeasesStay == Spec => LeaseNeverMoves
<1>1. Inv /\ [Next]_vars => [LeaseStays]_vars
  BY StepInv DEF Next, Step
<1> QED
  BY <1>1, InvInvariant, PTL DEF Spec, LeaseNeverMoves

-----------------------------------------------------------------------------
(* The pool implements the lease registry. *)

\* A grant at the head of the queue is the registry's Grant.
LEMMA GrantMaps ==
  ASSUME Inv, NEW c \in Claims, claim[c] \in {"waiting", "aborted"}, want[c] \in Instruments,
         Grant(c), want' = want, count' = [count EXCEPT ![want[c]] = @ + 1]
  PROVE  Registry!Grant(c)
<1>1. \A j \in Instruments : count'[j] > 0 <=> count[j] > 0 \/ j = want[c]
  BY DEF Inv, TypeOK
<1>2. {i \in Instruments : count'[i] > 0} = {i \in Instruments : count[i] > 0} \cup {want[c]}
  BY <1>1
<1> QED
  BY <1>2 DEF Registry!Grant, Grant

\* A refused lease is the registry's Refuse.
LEMMA RefuseMaps ==
  ASSUME NEW c \in Claims, claim[c] \in {"waiting", "aborted"},
         count[want[c]] = 0, Finish(c), count' = count
  PROVE  Registry!Refuse(c)
BY DEF Registry!Refuse, Registry!Finish, Finish

\* An applied release is the registry's Release: the count tells whether anybody
\* else was granted the instrument.
LEMMA ReleaseMaps ==
  ASSUME Inv, HandleRelease, NEW c \in Claims, c = Head(queue).claim
  PROVE  Registry!Release(c)
<1> DEFINE i == want[c]
           L == {j \in Instruments : count[j] > 0}
<1>1. /\ c \in Claims /\ claim[c] = "dropped" /\ i \in Instruments /\ Finish(c)
  BY HeadClaim DEF HandleRelease, HeadIs
<1>2. c \in Holders(i) /\ count[i] \in Nat /\ count[i] > 0
  BY <1>1, HolderCounts DEF Inv, Granted
<1>3. count' = [count EXCEPT ![i] = @ - 1]
  BY <1>1, <1>2 DEF HandleRelease, Unsubscribe, Inv, TypeOK
<1>4. Cardinality(Holders(i) \ {c}) = count[i] - 1 /\ IsFiniteSet(Holders(i) \ {c})
  <2>1. count[i] = Cardinality(Holders(i)) /\ IsFiniteSet(Holders(i))
    BY <1>1, HoldersFinite DEF Inv, CountsMatchClaims
  <2> QED
    BY <1>2, <2>1, FS_RemoveElement
<1>5. count[i] = 1 <=> Holders(i) \ {c} = {}
  BY <1>2, <1>4, FS_EmptySet
<1>6. Holders(i) \ {c} # {} <=> \E d \in Claims \ {c} : want[d] = want[c] /\ claim[d] \in Registry!Granted
  BY DEF Holders, Granted, Registry!Granted
<1>7. \A j \in Instruments : count[j] \in Nat /\ count'[j] = IF j = i THEN count[j] - 1 ELSE count[j]
  BY <1>1, <1>3 DEF Inv, TypeOK
<1>8. {j \in Instruments : count'[j] > 0} = IF count[i] = 1 THEN L \ {i} ELSE L
  BY <1>2, <1>7
<1> QED
  BY <1>1, <1>5, <1>6, <1>8 DEF Registry!Release, Registry!Finish, Finish

LEMMA SubscribeMaps ==
  ASSUME Inv, FirstLease, NEW ss, NEW k, NEW ok \in BOOLEAN, SubscribeOn(ss, k, ok)
  PROVE  \E c \in Claims : Registry!Grant(c) \/ Registry!Refuse(c)
<1> DEFINE c == Head(queue).claim
<1>1. /\ c \in Claims /\ claim[c] \in {"waiting", "aborted"}
      /\ want[c] \in Instruments /\ count[want[c]] = 0
  BY HeadClaim DEF FirstLease, HeadIs
<1>2. CASE ok
  <2>1. Grant(c) /\ want' = want /\ count' = [count EXCEPT ![want[c]] = @ + 1]
    BY <1>1, <1>2 DEF SubscribeOn, Inv, TypeOK
  <2> QED
    BY <1>1, <2>1, GrantMaps
<1>3. CASE ~ ok
  <2>1. Finish(c) /\ count' = count
    BY <1>3 DEF SubscribeOn
  <2> QED
    BY <1>1, <2>1, RefuseMaps
<1> QED
  BY <1>2, <1>3

LEMMA StepMaps ==
  ASSUME Inv, Step \/ UNCHANGED vars
  PROVE  Registry!Next \/ UNCHANGED Registry!vars
<1>1. CASE Claimants
  BY <1>1 DEF Claimants, CallLease, AbortLease, TakeLease, DropLease, Registry!Next, Registry!Request,
     Registry!Abort, Registry!Take, Registry!Drop
<1>2. CASE Timers \/ Reports
  BY <1>2 DEF Timers, Reports, GraceElapses, SweepFires, StraySweep, ReportReconnected, Registry!vars
<1>3. CASE JoinLease
  <2>1. /\ Head(queue).claim \in Claims /\ claim[Head(queue).claim] \in {"waiting", "aborted"}
        /\ want[Head(queue).claim] \in Instruments
    BY <1>3, HeadClaim DEF JoinLease, HeadIs
  <2> QED
    BY <1>3, <2>1, GrantMaps DEF JoinLease, Registry!Next
<1>4. CASE ConnectFails
  <2>1. /\ Head(queue).claim \in Claims /\ claim[Head(queue).claim] \in {"waiting", "aborted"}
        /\ count[want[Head(queue).claim]] = 0
    BY <1>4, HeadClaim DEF ConnectFails, FirstLease, HeadIs
  <2> QED
    BY <1>4, <2>1, RefuseMaps DEF ConnectFails, Registry!Next
<1>5. ASSUME NEW ok \in BOOLEAN,
             \/ \E k \in DOMAIN shards : LeaseOnShard(k, ok)
             \/ \E x \in Conns, k \in DOMAIN shards : LeaseInHole(x, k, ok)
             \/ \E x \in Conns : LeaseOnPushed(x, ok)
      PROVE  Registry!Next
  <2>1. FirstLease /\ \E ss, k : SubscribeOn(ss, k, ok)
    BY <1>5 DEF LeaseOnShard, LeaseInHole, LeaseOnPushed
  <2> QED
    BY <2>1, SubscribeMaps DEF Registry!Next
<1>6. CASE HandleRelease
  <2>1. PICK c \in Claims : c = Head(queue).claim
    BY <1>6, HeadClaim DEF HandleRelease, HeadIs
  <2> QED
    BY <1>6, <2>1, ReleaseMaps DEF Registry!Next
<1>7. CASE HandleSweep \/ HandleReconnected \/ UNCHANGED vars
  BY <1>7 DEF HandleSweep, HandleReconnected, vars, Registry!vars
<1> QED
  BY <1>1, <1>2, <1>3, <1>4, <1>5, <1>6, <1>7 DEF Step, Actor, Lease

\* Seen through {i : count[i] > 0}, the pool is a lease registry: an instrument is
\* subscribed by its first grant and unsubscribed by the release of its last.
THEOREM RefinesRegistry == Spec => ImplementsRegistry
<1>1. Init => Registry!Init
  BY DEF Init, Registry!Init
<1>2. Inv /\ [Next]_vars => [Registry!Next]_(Registry!vars)
  BY StepMaps DEF Next, Step
<1> QED
  BY <1>1, <1>2, InvInvariant, PTL DEF Spec, ImplementsRegistry, Registry!Spec

-----------------------------------------------------------------------------
(* The inductive invariant of the feed. *)

\* The feed's own variables, the part of FeedTypeOK the pool does not have.
LinkType ==
  /\ task \in [Conns -> TaskStates]
  /\ stop \in [Conns -> BOOLEAN]
  /\ up \in [Conns -> BOOLEAN]
  /\ wire \in [Conns -> [Instruments -> Frames]]
  /\ venue \in [Conns -> SUBSET Instruments]
  /\ enabled \in BOOLEAN
  /\ drops \in 0..MaxDrops
  /\ toggles \in 0..MaxToggles

\* No two slots share a connection.
Distinct ==
  \A j, k \in DOMAIN shards : shards[j].conn = shards[k].conn /\ shards[j].conn # NoConn => j = k

\* A connection is told to stop only when its shard is gone.
StoppedIsRetired == \A x \in Conns : stop[x] => Unused(x)

Sockets == Distinct /\ StoppedIsRetired /\ PoolAndTasksAgree

Reconnects == {n \in DOMAIN queue : queue[n].op = "reconnected"}

\* A replay is asked for once, by a task that waits for it.
Replays ==
  /\ \A n \in Reconnects : queue[n].conn \in Conns /\ task[queue[n].conn] = "replaying"
  /\ \A m, n \in Reconnects : queue[m].conn = queue[n].conn => m = n

\* A task without a socket has no frames, and a dead socket streams nothing.
Blank ==
  \A x \in Conns :
    /\ task[x] \in {"none", "redialing"} => wire[x] = Quiet /\ ~ up[x]
    /\ ~ up[x] => venue[x] = {}

Untouched == toggles = 0 => enabled

Streams == Blank /\ Untouched /\ NothingUnleasedStreams /\ EverythingLeasedStreams

FeedInv == Inv /\ LinkType /\ Sockets /\ Replays /\ Streams

-----------------------------------------------------------------------------
(* The pool inside the feed. *)

\* Every step of the feed is one of the pool or leaves it alone.
LEMMA FeedStepsPool ==
  ASSUME [FeedNext]_feedVars
  PROVE  Step \/ UNCHANGED vars
<1>1. CASE UNCHANGED feedVars
  BY <1>1 DEF feedVars
<1>2. CASE Claimants \/ Timers \/ StraySweep
  BY <1>2 DEF Step, Reports
<1>3. CASE FeedActor
  <2>1. CASE JoinLease \/ ConnectFails
    BY <2>1 DEF Step, Actor, Lease
  <2>2. CASE \E ok \in BOOLEAN, k \in DOMAIN shards : FeedLeaseOnShard(k, ok)
    BY <2>2 DEF FeedLeaseOnShard, Step, Actor, Lease
  <2>3. CASE \E ok \in BOOLEAN, x \in Conns, k \in 1..Len(shards) : FeedLeaseInHole(x, k, ok)
    <3> PICK ok \in BOOLEAN, x \in Conns, k \in 1..Len(shards) : LeaseInHole(x, k, ok)
      BY <2>3 DEF FeedLeaseInHole
    <3>1. k \in DOMAIN shards
      BY DEF LeaseInHole, IsFirst, Occupied, Holes
    <3> QED
      BY <3>1 DEF Step, Actor, Lease
  <2>4. CASE \E ok \in BOOLEAN, x \in Conns : FeedLeaseOnPushed(x, ok)
    BY <2>4 DEF FeedLeaseOnPushed, Step, Actor, Lease
  <2>5. CASE FeedRelease \/ FeedSweep \/ FeedReconnected
    BY <2>5 DEF FeedRelease, FeedSweep, FeedReconnected, Step, Actor
  <2> QED
    BY <1>3, <2>1, <2>2, <2>3, <2>4, <2>5 DEF FeedActor
<1>4. CASE \E x \in Conns : DialSucceeds(x)
  BY <1>4 DEF DialSucceeds, Step, Reports
<1>5. CASE Toggle \/ \E x \in Conns : SocketDies(x) \/ NoticeLoss(x) \/ EndTask(x)
                                     \/ \E i \in Instruments : SendFrame(x, i)
  BY <1>5 DEF Toggle, SocketDies, NoticeLoss, EndTask, SendFrame
<1> QED
  BY <1>1, <1>2, <1>3, <1>4, <1>5 DEF FeedNext, Connection

LEMMA PoolKeeps ==
  ASSUME Inv, [FeedNext]_feedVars
  PROVE  Inv' /\ LeaseStays
BY FeedStepsPool, StepInv

-----------------------------------------------------------------------------
(* What a connection carries. *)

CarriedIsCounted ==
  \A x \in Conns :
     Carried(x) = {i \in Instruments : count[i] > 0 /\ shards[shardOf[i]].conn = x}

LEMMA CarriedByCount == Inv => CarriedIsCounted
<1> SUFFICES ASSUME Inv, NEW x \in Conns
             PROVE  Carried(x) = {i \in Instruments : count[i] > 0 /\ shards[shardOf[i]].conn = x}
  BY DEF CarriedIsCounted
<1>1. /\ BookkeepingAgrees /\ count \in [Instruments -> Nat]
      /\ \A k \in DOMAIN shards : k \in Nat \ {0}
  BY SlotNumbers DEF Inv, TypeOK
<1>2. ASSUME NEW i \in Carried(x)
      PROVE  i \in Instruments /\ count[i] > 0 /\ shards[shardOf[i]].conn = x
  <2>1. PICK k \in DOMAIN shards : shards[k].conn = x /\ i \in shards[k].symbols
    BY <1>2 DEF Carried
  <2>2. i \in Instruments /\ shardOf[i] = k /\ k # 0
    BY <1>1, <2>1 DEF BookkeepingAgrees
  <2> QED
    BY <1>1, <2>1, <2>2 DEF BookkeepingAgrees
<1>3. ASSUME NEW i \in Instruments, count[i] > 0, shards[shardOf[i]].conn = x
      PROVE  i \in Carried(x)
  <2>1. shardOf[i] \in DOMAIN shards /\ i \in shards[shardOf[i]].symbols
    BY <1>1, <1>3 DEF BookkeepingAgrees, Occupied
  <2> QED
    BY <1>3, <2>1 DEF Carried
<1> QED
  BY <1>2, <1>3

LEMMA CarriedByCountNext == Inv' => CarriedIsCounted'
BY CarriedByCount, PTL

\* A connection carries an instrument as long as its count says so, where it did before.
LEMMA CarriedFollows ==
  ASSUME Inv, Inv', LeaseStays, NEW x \in Conns, NEW i \in Instruments
  PROVE  /\ i \in Carried(x) => count[i] > 0
         /\ i \in Carried(x)' <=> count'[i] > 0 /\ shards'[shardOf'[i]].conn = x
         /\ count[i] > 0 /\ count'[i] > 0 => (i \in Carried(x)' <=> i \in Carried(x))
BY CarriedByCount, CarriedByCountNext DEF CarriedIsCounted, LeaseStays

LEMMA CarriedSubset ==
  ASSUME Inv, Inv', NEW x \in Conns
  PROVE  Carried(x) \subseteq Instruments /\ Carried(x)' \subseteq Instruments
BY CarriedByCount, CarriedByCountNext DEF CarriedIsCounted

\* A step that starts and ends no record changes what no connection carries.
LEMMA CarriedKept ==
  ASSUME Inv, Inv', LeaseStays, NEW x \in Conns,
         \A i \in Instruments : count[i] > 0 <=> count'[i] > 0
  PROVE  Carried(x)' = Carried(x)
<1>1. ASSUME NEW i \in Instruments PROVE i \in Carried(x)' <=> i \in Carried(x)
  <2>1. count[i] > 0 <=> count'[i] > 0
    OBVIOUS
  <2> QED
    BY <2>1, CarriedFollows
<1> QED
  BY <1>1, CarriedSubset

\* A first lease adds its instrument to the one connection of its shard.
LEMMA CarriedLeased ==
  ASSUME Inv, Inv', LeaseStays, NEW x \in Conns, NEW i \in Instruments,
         count[i] = 0, count' = [count EXCEPT ![i] = 1]
  PROVE  Carried(x)' = Carried(x) \cup (IF shards'[shardOf'[i]].conn = x THEN {i} ELSE {})
<1>1. ASSUME NEW j \in Instruments, j # i PROVE j \in Carried(x)' <=> j \in Carried(x)
  <2>1. count'[j] = count[j] /\ count[j] \in Nat
    BY <1>1 DEF Inv, TypeOK
  <2> QED
    BY <2>1, CarriedFollows
<1>2. i \notin Carried(x) /\ (i \in Carried(x)' <=> shards'[shardOf'[i]].conn = x)
  <2>1. count'[i] = 1
    BY DEF Inv, TypeOK
  <2> QED
    BY <2>1, CarriedFollows
<1> QED
  BY <1>1, <1>2, CarriedSubset

\* The last release takes its instrument off the connection that carried it.
LEMMA CarriedReleased ==
  ASSUME Inv, Inv', LeaseStays, NEW x \in Conns, NEW i \in Instruments,
         count[i] = 1, count' = [count EXCEPT ![i] = 0]
  PROVE  /\ Carried(x)' = Carried(x) \ {i}
         /\ i \in Carried(x) => shards[shardOf[i]].conn = x
<1>1. ASSUME NEW j \in Instruments, j # i PROVE j \in Carried(x)' <=> j \in Carried(x)
  <2>1. count'[j] = count[j] /\ count[j] \in Nat
    BY <1>1 DEF Inv, TypeOK
  <2> QED
    BY <2>1, CarriedFollows
<1>2. i \notin Carried(x)'
  <2>1. count'[i] = 0
    BY DEF Inv, TypeOK
  <2> QED
    BY <2>1, CarriedFollows
<1>3. i \in Carried(x) => shards[shardOf[i]].conn = x
  BY CarriedByCount DEF CarriedIsCounted
<1> QED
  BY <1>1, <1>2, <1>3, CarriedSubset

-----------------------------------------------------------------------------
(* The slots and their connections. *)

LEMMA SlotsKept ==
  ASSUME DOMAIN shards' = DOMAIN shards, \A k \in DOMAIN shards : shards'[k].conn = shards[k].conn
  PROVE  /\ Distinct => Distinct'
         /\ \A x : Unused(x)' <=> Unused(x)
BY DEF Distinct, Unused

\* Connection x gets slot h, a hole or a new one.
LEMMA SlotTaken ==
  ASSUME Distinct, NEW x \in Conns, Unused(x), NEW h \in DOMAIN shards',
         DOMAIN shards \subseteq DOMAIN shards', shards'[h].conn = x,
         h \in DOMAIN shards => shards[h].conn = NoConn,
         \A k \in DOMAIN shards' : k # h => k \in DOMAIN shards /\ shards'[k].conn = shards[k].conn
  PROVE  /\ Distinct'
         /\ ~ Unused(x)'
         /\ \A y \in Conns : y # x => (Unused(y)' <=> Unused(y))
<1>1. Distinct'
  BY DEF Distinct, Unused
<1>2. ~ Unused(x)'
  BY DEF Unused
<1>3. ASSUME NEW y \in Conns, y # x PROVE Unused(y)' <=> Unused(y)
  <2>1. ASSUME ~ Unused(y)' PROVE ~ Unused(y)
    BY <1>3, <2>1 DEF Unused
  <2>2. ASSUME ~ Unused(y) PROVE ~ Unused(y)'
    <3>1. PICK k \in DOMAIN shards : shards[k].conn = y
      BY <2>2 DEF Unused
    <3>2. k # h /\ k \in DOMAIN shards'
      BY <3>1, PoolAssumption DEF PoolAssumption
    <3> QED
      BY <3>1, <3>2 DEF Unused
  <2> QED
    BY <2>1, <2>2
<1> QED
  BY <1>1, <1>2, <1>3

\* A sweep takes the slots that are due, and says which connections lose theirs.
LEMMA SlotsSwept ==
  ASSUME Inv, Distinct, HandleSweep
  PROVE  /\ Distinct'
         /\ \A x \in Conns :
              Unused(x)' <=> Unused(x) \/ \E k \in DOMAIN shards : Due(k) /\ shards[k].conn = x
<1>1. /\ DOMAIN shards' = DOMAIN shards
      /\ \A k \in DOMAIN shards : shards'[k] = IF Due(k) THEN Vacant ELSE shards[k]
      /\ Vacant.conn = NoConn /\ NoConn \notin Conns
  BY PoolAssumption DEF HandleSweep, PoolAssumption, Vacant
<1>2. Distinct'
  BY <1>1 DEF Distinct
<1>3. ASSUME NEW x \in Conns
      PROVE  Unused(x)' <=> Unused(x) \/ \E k \in DOMAIN shards : Due(k) /\ shards[k].conn = x
  <2>1. ASSUME NEW k \in DOMAIN shards, Due(k), shards[k].conn = x PROVE Unused(x)'
    BY <1>1, <2>1 DEF Unused, Distinct
  <2>2. ASSUME Unused(x)', ~ Unused(x) PROVE \E k \in DOMAIN shards : Due(k) /\ shards[k].conn = x
    BY <1>1, <2>2 DEF Unused
  <2>3. Unused(x) => Unused(x)'
    BY <1>1 DEF Unused
  <2> QED
    BY <2>1, <2>2, <2>3
<1> QED
  BY <1>2, <1>3

-----------------------------------------------------------------------------
(* First leases. *)

\* What a first lease does to the slots and the counts, whatever slot it found.
LEMMA SubscribeOutcome ==
  ASSUME Inv, FirstLease, NEW ss \in Seq(Shard \cup {Vacant}), NEW k \in DOMAIN ss,
         NEW ok \in BOOLEAN, SubscribeOn(ss, k, ok), NEW i, i = want[Head(queue).claim]
  PROVE  /\ DOMAIN shards' = DOMAIN ss
         /\ \A j \in DOMAIN ss : shards'[j].conn = ss[j].conn
         /\ i \in Instruments /\ count[i] = 0
         /\ ok => count' = [count EXCEPT ![i] = 1] /\ shards'[shardOf'[i]].conn = ss[k].conn
         /\ ~ ok => count' = count
<1>1. i \in Instruments /\ count[i] = 0
  BY HeadClaim DEF FirstLease, HeadIs
<1>2. /\ \A j \in DOMAIN ss : ss[j] \in Shard \cup {Vacant}
      /\ \A s \in Shard \cup {Vacant} : Carrying(s, i).conn = s.conn
  BY SlotNumbers DEF Carrying, Shard, Vacant
<1>3. CASE ok
  <2>1. /\ shards' = [ss EXCEPT ![k] = Carrying(ss[k], i)]
        /\ count' = [count EXCEPT ![i] = 1] /\ shardOf' = [shardOf EXCEPT ![i] = k]
    BY <1>3 DEF SubscribeOn
  <2>2. shardOf'[i] = k
    BY <1>1, <2>1 DEF Inv, TypeOK
  <2>3. DOMAIN shards' = DOMAIN ss /\ \A j \in DOMAIN ss : shards'[j].conn = ss[j].conn
    BY <1>2, <2>1
  <2> QED
    BY <1>1, <1>3, <2>1, <2>2, <2>3
<1>4. CASE ~ ok
  BY <1>1, <1>4 DEF SubscribeOn
<1> QED
  BY <1>3, <1>4

(***************************************************************************)
(* The three ways to a slot come to this: the lease lands on connection y, *)
(* which had a slot and an outbound channel, or which the step opens.      *)
(***************************************************************************)
Opens(x) ==
  /\ Unused(x) /\ task[x] = "none"
  /\ task' = [task EXCEPT ![x] = "serving"]
  /\ up' = [up EXCEPT ![x] = TRUE]
  /\ Distinct'
  /\ ~ Unused(x)' /\ \A z \in Conns : z # x => (Unused(z)' <=> Unused(z))

OpensNone ==
  /\ task' = task /\ up' = up
  /\ Distinct' /\ \A z \in Conns : Unused(z)' <=> Unused(z)

LandsOn(i, y, ok) ==
  /\ i \in Instruments /\ y \in Conns /\ count[i] = 0
  /\ IF ok
       THEN /\ count' = [count EXCEPT ![i] = 1] /\ shards'[shardOf'[i]].conn = y
            /\ wire' = [wire EXCEPT ![y][i] = "sub"]
       ELSE count' = count /\ wire' = wire

LeaseOutcome ==
  /\ queue' = Tail(queue)
  /\ UNCHANGED <<stop, venue, gate>>
  /\ \E i \in Instruments, y \in Conns, ok \in BOOLEAN :
       /\ LandsOn(i, y, ok)
       /\ \/ OpensNone /\ (ok => Reachable(y))
          \/ \E x \in Conns : Opens(x) /\ (ok /\ y # x => Reachable(y))

LEMMA OnShardOutcome ==
  ASSUME Inv, Sockets, NEW k \in DOMAIN shards, NEW ok \in BOOLEAN, FeedLeaseOnShard(k, ok)
  PROVE  LeaseOutcome
<1> DEFINE i == want[Head(queue).claim]
           y == shards[k].conn
<1>1. /\ FirstLease /\ SubscribeOn(shards, k, ok) /\ queue' = Tail(queue)
      /\ IsFirst(k, Roomy(shards)) /\ Subscribe(y, Reachable(y), ok)
      /\ UNCHANGED <<task, stop, up, venue, gate>>
  BY DEF FeedLeaseOnShard, LeaseOnShard
<1>2. /\ shards \in Seq(Shard \cup {Vacant})
      /\ y \in Conns
  <2>1. y # NoConn /\ shards[k] \in Shard \cup {Vacant} /\ shards \in Seq(Shard \cup {Vacant})
    BY <1>1, SlotNumbers DEF IsFirst, Roomy, Occupied, Inv, TypeOK
  <2> QED
    BY <2>1, SlotFacts
<1>3. /\ DOMAIN shards' = DOMAIN shards
      /\ \A j \in DOMAIN shards : shards'[j].conn = shards[j].conn
      /\ i \in Instruments /\ count[i] = 0
      /\ ok => count' = [count EXCEPT ![i] = 1] /\ shards'[shardOf'[i]].conn = y
      /\ ~ ok => count' = count
  BY <1>1, <1>2, SubscribeOutcome
<1>4. OpensNone
  BY <1>1, <1>3, SlotsKept DEF OpensNone, Sockets
<1>5. LandsOn(i, y, ok) /\ (ok => Reachable(y))
  BY <1>1, <1>2, <1>3 DEF LandsOn, Subscribe
<1> QED
  BY <1>1, <1>2, <1>3, <1>4, <1>5 DEF LeaseOutcome

LEMMA InHoleOutcome ==
  ASSUME Inv, Sockets, NEW x \in Conns, NEW k \in 1..Len(shards), NEW ok \in BOOLEAN,
         FeedLeaseInHole(x, k, ok)
  PROVE  LeaseOutcome
<1> DEFINE i == want[Head(queue).claim]
<1>1. /\ FirstLease /\ Unused(x) /\ queue' = Tail(queue)
      /\ Open(x) /\ UNCHANGED <<stop, venue, gate>>
  BY DEF FeedLeaseInHole, LeaseInHole, Open
<1>2. PICK h \in Holes(shards) :
        /\ IsFirst(k, Occupied([shards EXCEPT ![h] = NewShard(x)]))
        /\ IsFirst(h, Holes(shards))
        /\ SubscribeOn([shards EXCEPT ![h] = NewShard(x)], k, ok)
  BY DEF FeedLeaseInHole, LeaseInHole
<1> DEFINE ss == [shards EXCEPT ![h] = NewShard(x)]
           y == ss[k].conn
<1>3. /\ h \in DOMAIN shards /\ shards[h].conn = NoConn /\ NewShard(x).conn = x
      /\ shards \in Seq(Shard \cup {Vacant}) /\ NewShard(x) \in Shard \cup {Vacant}
  BY SlotFacts DEF Holes, Occupied, Inv, TypeOK
<1>4. /\ ss \in Seq(Shard \cup {Vacant}) /\ DOMAIN ss = DOMAIN shards
      /\ ss[h].conn = x
      /\ \A j \in DOMAIN shards : j # h => ss[j] = shards[j]
  BY <1>3
<1>5. k \in DOMAIN ss /\ y # NoConn /\ y \in Conns
  <2>1. k \in DOMAIN ss /\ y # NoConn
    BY <1>2 DEF IsFirst, Occupied
  <2>2. ss[k] \in Shard \cup {Vacant}
    BY <1>4, <2>1, SlotNumbers
  <2> QED
    BY <2>1, <2>2, SlotFacts
<1>6. \/ y = x /\ Subscribe(x, TRUE, ok)
      \/ y # x /\ Subscribe(y, Reachable(y), ok)
  <2>1. CASE k \in Holes(shards)
    <3>1. k = h
      BY <1>2, <2>1, <1>4, <1>5 DEF Holes, Occupied
    <3> QED
      BY <2>1, <3>1, <1>4 DEF FeedLeaseInHole
  <2>2. CASE k \notin Holes(shards)
    <3>1. k # h /\ y = shards[k].conn /\ k \in DOMAIN shards
      BY <2>2, <1>4, <1>5
    <3>2. y # x
      BY <3>1, <1>1 DEF Unused
    <3> QED
      BY <2>2, <3>1, <3>2 DEF FeedLeaseInHole
  <2> QED
    BY <2>1, <2>2
<1> HIDE DEF ss
<1>7. SubscribeOn(ss, k, ok)
  BY <1>2 DEF ss
<1>8. /\ DOMAIN shards' = DOMAIN ss
      /\ \A j \in DOMAIN ss : shards'[j].conn = ss[j].conn
      /\ i \in Instruments /\ count[i] = 0
      /\ ok => count' = [count EXCEPT ![i] = 1] /\ shards'[shardOf'[i]].conn = y
      /\ ~ ok => count' = count
  BY <1>1, <1>4, <1>5, <1>7, SubscribeOutcome
<1>9. Opens(x)
  <2>1. /\ shards'[h].conn = x
        /\ \A j \in DOMAIN shards' : j # h => j \in DOMAIN shards /\ shards'[j].conn = shards[j].conn
    BY <1>3, <1>4, <1>8
  <2>2. /\ Distinct' /\ ~ Unused(x)'
        /\ \A z \in Conns : z # x => (Unused(z)' <=> Unused(z))
    BY <1>1, <1>3, <1>4, <1>8, <2>1, SlotTaken DEF Sockets
  <2> QED
    BY <1>1, <2>2 DEF Opens, Open
<1>10. LandsOn(i, y, ok) /\ (ok /\ y # x => Reachable(y))
  BY <1>5, <1>6, <1>8 DEF LandsOn, Subscribe
<1> QED
  BY <1>1, <1>5, <1>8, <1>9, <1>10 DEF LeaseOutcome

LEMMA OnPushedOutcome ==
  ASSUME Inv, Sockets, NEW x \in Conns, NEW ok \in BOOLEAN, FeedLeaseOnPushed(x, ok)
  PROVE  LeaseOutcome
<1> DEFINE i == want[Head(queue).claim]
           ss == Append(shards, NewShard(x))
           h == Len(shards) + 1
<1>1. /\ FirstLease /\ Unused(x) /\ queue' = Tail(queue) /\ SubscribeOn(ss, h, ok)
      /\ Subscribe(x, TRUE, ok) /\ Open(x) /\ UNCHANGED <<stop, venue, gate>>
  BY DEF FeedLeaseOnPushed, LeaseOnPushed, Open
<1>2. /\ shards \in Seq(Shard \cup {Vacant}) /\ NewShard(x) \in Shard \cup {Vacant}
      /\ NewShard(x).conn = x
  BY SlotFacts DEF Inv, TypeOK
<1>3. /\ ss \in Seq(Shard \cup {Vacant}) /\ DOMAIN ss = DOMAIN shards \cup {h}
      /\ h \notin DOMAIN shards /\ ss[h] = NewShard(x)
      /\ \A j \in DOMAIN shards : ss[j] = shards[j]
  BY <1>2
<1> HIDE DEF ss
<1>4. /\ DOMAIN shards' = DOMAIN ss
      /\ \A j \in DOMAIN ss : shards'[j].conn = ss[j].conn
      /\ i \in Instruments /\ count[i] = 0
      /\ ok => count' = [count EXCEPT ![i] = 1] /\ shards'[shardOf'[i]].conn = x
      /\ ~ ok => count' = count
  <2>1. h \in DOMAIN ss /\ ss[h].conn = x
    BY <1>2, <1>3
  <2> QED
    BY <1>1, <1>3, <2>1, SubscribeOutcome
<1> HIDE DEF h
<1>5. Opens(x)
  <2>1. /\ h \in DOMAIN shards' /\ shards'[h].conn = x /\ DOMAIN shards \subseteq DOMAIN shards'
        /\ \A j \in DOMAIN shards' : j # h => j \in DOMAIN shards /\ shards'[j].conn = shards[j].conn
    BY <1>2, <1>3, <1>4
  <2>2. /\ Distinct' /\ ~ Unused(x)'
        /\ \A z \in Conns : z # x => (Unused(z)' <=> Unused(z))
    BY <1>1, <1>3, <2>1, SlotTaken DEF Sockets
  <2> QED
    BY <1>1, <2>2 DEF Opens, Open
<1>6. LandsOn(i, x, ok)
  BY <1>1, <1>4 DEF LandsOn, Subscribe
<1> QED
  BY <1>1, <1>4, <1>5, <1>6 DEF LeaseOutcome

-----------------------------------------------------------------------------
(* Sockets: slots, tasks and the flags that stop them. *)

SlotsStay == Distinct' /\ \A x \in Conns : Unused(x)' <=> Unused(x)

\* Steps of the callers, the timers and the actor that reach no connection.
LEMMA SilentOutcome ==
  ASSUME Inv, Sockets, Claimants \/ Timers \/ StraySweep \/ JoinLease \/ ConnectFails
  PROVE  /\ SlotsStay
         /\ \A i \in Instruments : count[i] > 0 <=> count'[i] > 0
<1>1. CASE Claimants \/ StraySweep \/ ConnectFails
  <2>1. UNCHANGED <<count, shards>>
    BY <1>1 DEF Claimants, CallLease, AbortLease, TakeLease, DropLease, StraySweep, ConnectFails
  <2> QED
    BY <2>1, SlotsKept DEF SlotsStay, Sockets
<1>2. CASE JoinLease
  <2>1. shards' = shards /\ count' = [count EXCEPT ![want[Head(queue).claim]] = @ + 1]
    BY <1>2 DEF JoinLease
  <2>2. want[Head(queue).claim] \in Instruments /\ count[want[Head(queue).claim]] > 0
    BY <1>2, HeadClaim DEF JoinLease, HeadIs
  <2>3. \A i \in Instruments : count[i] > 0 <=> count'[i] > 0
    BY <2>1, <2>2 DEF Inv, TypeOK
  <2> QED
    BY <2>1, <2>3, SlotsKept DEF SlotsStay, Sockets
<1>3. CASE Timers
  <2> PICK k \in DOMAIN shards : GraceElapses(k) \/ SweepFires(k)
    BY <1>3 DEF Timers
  <2>1. /\ count' = count
        /\ \/ shards' = [shards EXCEPT ![k].since = "elapsed"]
           \/ shards' = [shards EXCEPT ![k].timed = FALSE]
    BY DEF GraceElapses, SweepFires
  <2>2. shards[k] \in Shard \cup {Vacant} /\ DOMAIN shards' = DOMAIN shards
    BY <2>1, SlotNumbers DEF Inv, TypeOK
  <2>3. \A j \in DOMAIN shards : shards'[j].conn = shards[j].conn
    BY <2>1, <2>2 DEF Shard, Vacant
  <2> QED
    BY <2>1, <2>2, <2>3, SlotsKept DEF SlotsStay, Sockets
<1> QED
  BY <1>1, <1>2, <1>3

LEMMA ReleaseSlots ==
  ASSUME Inv, Sockets, HandleRelease
  PROVE  SlotsStay
<1> DEFINE i == want[Head(queue).claim]
<1>1. CASE shards' = shards
  BY <1>1, SlotsKept DEF SlotsStay, Sockets
<1>2. CASE Unsubscribe(i)
  <2>1. \A s \in Shard \cup {Vacant} : Without(s, i).conn = s.conn
    BY DEF Without, Shard, Vacant
  <2>2. /\ DOMAIN shards' = DOMAIN shards
        /\ \A j \in DOMAIN shards : shards'[j].conn = shards[j].conn
    BY <1>2, <2>1, SlotNumbers DEF Unsubscribe, Inv, TypeOK
  <2> QED
    BY <2>2, SlotsKept DEF SlotsStay, Sockets
<1> QED
  BY <1>1, <1>2 DEF HandleRelease

\* No task starts or ends and no slot changes hands.
LEMMA SocketsKept ==
  ASSUME Sockets, SlotsStay, stop' = stop,
         \A x \in Conns : task'[x] = "none" <=> task[x] = "none"
  PROVE  Sockets'
<1>1. ASSUME NEW x \in Conns
      PROVE  /\ stop'[x] => Unused(x)'
             /\ task'[x] # "none" <=> (~ Unused(x)' \/ stop'[x])
  <2>1. /\ Unused(x)' <=> Unused(x)
        /\ task'[x] = "none" <=> task[x] = "none"
        /\ stop[x] => Unused(x)
        /\ task[x] # "none" <=> (~ Unused(x) \/ stop[x])
    BY DEF SlotsStay, Sockets, StoppedIsRetired, PoolAndTasksAgree
  <2> QED
    BY <2>1
<1> QED
  BY <1>1 DEF Sockets, SlotsStay, StoppedIsRetired, PoolAndTasksAgree

LEMMA SocketsOpened ==
  ASSUME LinkType, Sockets, NEW x \in Conns, Opens(x), stop' = stop
  PROVE  Sockets'
<1>1. ASSUME NEW z \in Conns
      PROVE  /\ stop'[z] => Unused(z)'
             /\ task'[z] # "none" <=> (~ Unused(z)' \/ stop'[z])
  <2>1. /\ stop[z] => Unused(z)
        /\ task[z] # "none" <=> (~ Unused(z) \/ stop[z])
    BY DEF Sockets, StoppedIsRetired, PoolAndTasksAgree
  <2>2. CASE z = x
    <3>1. task'[z] = "serving" /\ task[z] = "none" /\ ~ Unused(z)'
      BY <2>2 DEF Opens, LinkType
    <3> QED
      BY <2>1, <3>1
  <2>3. CASE z # x
    <3>1. task'[z] = task[z] /\ (Unused(z)' <=> Unused(z))
      BY <2>3 DEF Opens, LinkType
    <3> QED
      BY <2>1, <3>1
  <2> QED
    BY <2>2, <2>3
<1> QED
  BY <1>1 DEF Sockets, Opens, StoppedIsRetired, PoolAndTasksAgree

LEMMA SocketsSwept ==
  ASSUME Inv, LinkType, Sockets, FeedSweep
  PROVE  Sockets'
<1>1. ASSUME NEW x \in Conns
      PROVE  /\ stop'[x] => Unused(x)'
             /\ task'[x] # "none" <=> (~ Unused(x)' \/ stop'[x])
  <2> DEFINE told == \E k \in DOMAIN shards : Due(k) /\ shards[k].conn = x
  <2>1. /\ stop'[x] <=> stop[x] \/ told
        /\ task'[x] = task[x]
        /\ Unused(x)' <=> Unused(x) \/ told
    BY SlotsSwept DEF FeedSweep, Sockets
  <2>2. told => ~ Unused(x)
    BY DEF Unused
  <2> HIDE DEF told
  <2>3. /\ stop[x] => Unused(x)
        /\ task[x] # "none" <=> (~ Unused(x) \/ stop[x])
    BY DEF Sockets, StoppedIsRetired, PoolAndTasksAgree
  <2> QED
    BY <2>1, <2>2, <2>3
<1>2. Distinct'
  BY SlotsSwept DEF FeedSweep, Sockets
<1> QED
  BY <1>1, <1>2 DEF Sockets, StoppedIsRetired, PoolAndTasksAgree

\* A task that ends had no slot any more.
LEMMA SocketsEnded ==
  ASSUME LinkType, Sockets, NEW x \in Conns, EndTask(x)
  PROVE  Sockets'
<1>1. /\ stop[x] /\ task' = [task EXCEPT ![x] = "none"] /\ stop' = [stop EXCEPT ![x] = FALSE]
      /\ shards' = shards
  BY DEF EndTask, vars
<1>2. Distinct' /\ \A z \in Conns : Unused(z)' <=> Unused(z)
  BY <1>1, SlotsKept DEF Sockets
<1>3. ASSUME NEW z \in Conns
      PROVE  /\ stop'[z] => Unused(z)'
             /\ task'[z] # "none" <=> (~ Unused(z)' \/ stop'[z])
  <2>1. /\ Unused(z)' <=> Unused(z)
        /\ stop[z] => Unused(z)
        /\ task[z] # "none" <=> (~ Unused(z) \/ stop[z])
    BY <1>2 DEF Sockets, StoppedIsRetired, PoolAndTasksAgree
  <2>2. /\ z = x => task'[z] = "none" /\ ~ stop'[z]
        /\ z # x => task'[z] = task[z] /\ stop'[z] = stop[z]
    BY <1>1 DEF LinkType
  <2> QED
    BY <1>1, <2>1, <2>2
<1> QED
  BY <1>2, <1>3 DEF Sockets, StoppedIsRetired, PoolAndTasksAgree

-----------------------------------------------------------------------------
(* Replays: one command for one waiting task. *)

LEMMA ReplaysAppended ==
  ASSUME TypeOK, Replays, NEW cmd, queue' = Append(queue, cmd), cmd.op # "reconnected",
         \A x \in Conns : task[x] = "replaying" => task'[x] = "replaying"
  PROVE  Replays'
<1>1. /\ Reconnects' = Reconnects
      /\ \A n \in Reconnects : queue'[n] = queue[n]
  BY DEF Reconnects, TypeOK
<1>2. ASSUME NEW n \in Reconnects PROVE queue'[n].conn \in Conns /\ task'[queue'[n].conn] = "replaying"
  BY <1>1 DEF Replays
<1>3. ASSUME NEW m \in Reconnects, NEW n \in Reconnects, queue'[m].conn = queue'[n].conn PROVE m = n
  BY <1>1, <1>3 DEF Replays
<1> QED
  BY <1>1, <1>2, <1>3 DEF Replays

LEMMA ReplaysAsked ==
  ASSUME TypeOK, Replays, LinkType, NEW x \in Conns, task[x] = "redialing",
         task' = [task EXCEPT ![x] = "replaying"],
         queue' = Append(queue, ReconnectedCommand(x))
  PROVE  Replays'
<1> DEFINE m == Len(queue) + 1
<1>1. /\ Reconnects' = Reconnects \cup {m} /\ m \notin Reconnects
      /\ queue'[m].conn = x
      /\ \A n \in Reconnects : queue'[n] = queue[n]
  BY DEF Reconnects, TypeOK, ReconnectedCommand
<1>2. \A n \in Reconnects : queue[n].conn # x
  BY DEF Replays
<1>3. \A n \in Reconnects : queue[n].conn \in Conns /\ task'[queue[n].conn] = "replaying"
  BY <1>2 DEF Replays, LinkType
<1>4. task'[x] = "replaying"
  BY DEF LinkType
<1> HIDE DEF m
<1>5. ASSUME NEW n \in Reconnects'
      PROVE  queue'[n].conn \in Conns /\ task'[queue'[n].conn] = "replaying"
  BY <1>1, <1>3, <1>4
<1>6. ASSUME NEW n \in Reconnects', NEW k \in Reconnects', queue'[n].conn = queue'[k].conn
      PROVE  n = k
  <2>1. CASE n \in Reconnects /\ k \in Reconnects
    <3>1. queue[n].conn = queue[k].conn
      BY <1>1, <1>6, <2>1
    <3> QED
      BY <2>1, <3>1 DEF Replays
  <2>2. CASE n = m \/ k = m
    BY <1>1, <1>2, <1>6, <2>2
  <2> QED
    BY <1>1, <2>1, <2>2
<1> QED
  BY <1>5, <1>6 DEF Replays

\* Only a command that is applied releases the task that waits for it.
LEMMA ReplaysPopped ==
  ASSUME TypeOK, Replays, queue # <<>>, queue' = Tail(queue),
         \A x \in Conns : task[x] = "replaying" =>
           \/ task'[x] = "replaying"
           \/ Head(queue).op = "reconnected" /\ Head(queue).conn = x
  PROVE  Replays'
<1>1. /\ Len(queue) \in Nat \ {0} /\ DOMAIN queue = 1..Len(queue) /\ Head(queue) = queue[1]
      /\ DOMAIN queue' = 1..(Len(queue) - 1)
      /\ \A n \in 1..(Len(queue) - 1) : queue'[n] = queue[n + 1]
  BY HeadTailProperties, LenProperties, EmptySeq DEF TypeOK
<1>2. ASSUME NEW n \in Reconnects'
      PROVE  n + 1 \in Reconnects /\ queue'[n] = queue[n + 1] /\ n \in Nat /\ n # 0
  BY <1>1, <1>2 DEF Reconnects
<1>3. ASSUME NEW n \in Reconnects'
      PROVE  queue'[n].conn \in Conns /\ task'[queue'[n].conn] = "replaying"
  <2>1. /\ queue[n + 1].conn \in Conns /\ task[queue[n + 1].conn] = "replaying"
        /\ queue'[n] = queue[n + 1]
    BY <1>2, <1>3 DEF Replays
  <2>2. ~ (Head(queue).op = "reconnected" /\ Head(queue).conn = queue[n + 1].conn)
    <3>1. 1 \in Reconnects /\ n + 1 \in Reconnects => n + 1 = 1 \/ queue[1].conn # queue[n + 1].conn
      BY DEF Replays
    <3> QED
      BY <1>1, <1>2, <1>3, <3>1 DEF Reconnects
  <2> QED
    BY <2>1, <2>2
<1>4. ASSUME NEW n \in Reconnects', NEW m \in Reconnects', queue'[n].conn = queue'[m].conn
      PROVE  n = m
  <2>1. /\ n + 1 \in Reconnects /\ m + 1 \in Reconnects
        /\ queue[n + 1].conn = queue[m + 1].conn
    BY <1>2, <1>4
  <2>2. n + 1 = m + 1
    BY <2>1 DEF Replays
  <2> QED
    BY <1>2, <1>4, <2>2
<1> QED
  BY <1>3, <1>4 DEF Replays

LEMMA ReplaysKept ==
  ASSUME Replays, queue' = queue,
         \A x \in Conns : task[x] = "replaying" => task'[x] = "replaying"
  PROVE  Replays'
BY DEF Replays, Reconnects

LEMMA SilentReplays ==
  ASSUME Inv, Replays, task' = task, Claimants \/ Timers \/ StraySweep \/ JoinLease \/ ConnectFails
  PROVE  Replays'
<1>1. CASE queue' = queue
  BY <1>1, ReplaysKept
<1>2. CASE \E cmd : queue' = Append(queue, cmd) /\ cmd.op # "reconnected"
  BY <1>2, ReplaysAppended DEF Inv
<1>3. CASE queue # <<>> /\ queue' = Tail(queue)
  BY <1>3, ReplaysPopped DEF Inv
<1>4. CASE Claimants
  <2>1. /\ \A c \in Claims : LeaseCommand(c).op = "lease" /\ ReleaseCommand(c).op = "release"
    BY DEF LeaseCommand, ReleaseCommand
  <2> QED
    BY <1>1, <1>2, <1>4, <2>1 DEF Claimants, CallLease, AbortLease, TakeLease, DropLease
<1>5. CASE Timers \/ StraySweep
  BY <1>1, <1>2, <1>5, SilentCommands DEF Timers, GraceElapses, SweepFires, StraySweep
<1>6. CASE JoinLease \/ ConnectFails
  BY <1>3, <1>6 DEF JoinLease, ConnectFails, FirstLease, HeadIs
<1> QED
  BY <1>4, <1>5, <1>6

-----------------------------------------------------------------------------
(* Types. *)

\* One frame more in one channel.
LEMMA WireTyped ==
  ASSUME LinkType, NEW x \in Conns, NEW i \in Instruments, NEW f \in Frames,
         wire' = [wire EXCEPT ![x][i] = f]
  PROVE  /\ wire' \in [Conns -> [Instruments -> Frames]]
         /\ \A z \in Conns, j \in Instruments :
              wire'[z][j] = IF z = x /\ j = i THEN f ELSE wire[z][j]
<1>1. wire \in [Conns -> [Instruments -> Frames]]
  BY DEF LinkType
<1> QED
  BY <1>1

LEMMA QuietTyped == Quiet \in [Instruments -> Frames]
BY DEF Quiet, Frames

\* The connection a last release reaches.
LEMMA ReleasedFrom ==
  ASSUME Inv, HandleRelease, count[want[Head(queue).claim]] = 1
  PROVE  LET i == want[Head(queue).claim]
         IN  /\ i \in Instruments /\ shards[shardOf[i]].conn \in Conns
             /\ count' = [count EXCEPT ![i] = 0]
<1> DEFINE i == want[Head(queue).claim]
<1>1. i \in Instruments
  BY HeadClaim DEF HandleRelease, HeadIs
<1>2. shardOf[i] \in DOMAIN shards /\ shards[shardOf[i]].conn # NoConn
  BY <1>1 DEF Inv, BookkeepingAgrees, Occupied
<1>3. shards[shardOf[i]] \in Shard
  BY <1>2, SlotNumbers, SlotFacts DEF Inv, TypeOK
<1>4. count' = [count EXCEPT ![i] = 0]
  BY DEF HandleRelease, Unsubscribe
<1> QED
  BY <1>1, <1>3, <1>4, SlotFacts

LEMMA LeaseTyped ==
  ASSUME LinkType, LeaseOutcome
  PROVE  LinkType'
<1> PICK i \in Instruments, y \in Conns, ok \in BOOLEAN :
       LandsOn(i, y, ok) /\ (OpensNone \/ \E x \in Conns : Opens(x))
  BY DEF LeaseOutcome
<1>1. wire' \in [Conns -> [Instruments -> Frames]]
  <2>1. CASE ok
    BY <2>1, WireTyped DEF LandsOn, Frames
  <2>2. CASE ~ ok
    BY <2>2 DEF LandsOn, LinkType
  <2> QED
    BY <2>1, <2>2
<1>2. task' \in [Conns -> TaskStates] /\ up' \in [Conns -> BOOLEAN]
  <2>1. CASE OpensNone
    BY <2>1 DEF OpensNone, LinkType
  <2>2. CASE \E x \in Conns : Opens(x)
    BY <2>2 DEF Opens, LinkType, TaskStates
  <2> QED
    BY <2>1, <2>2
<1> QED
  BY <1>1, <1>2 DEF LeaseOutcome, LinkType, gate

LEMMA ReleaseTyped ==
  ASSUME Inv, LinkType, FeedRelease
  PROVE  LinkType'
<1> DEFINE i == want[Head(queue).claim]
           x == shards[shardOf[i]].conn
<1>1. /\ HandleRelease /\ UNCHANGED <<task, stop, up, venue, gate>>
      /\ wire' = IF count[i] = 1 /\ Reachable(x) THEN [wire EXCEPT ![x][i] = "unsub"] ELSE wire
  BY DEF FeedRelease
<1>2. wire' \in [Conns -> [Instruments -> Frames]]
  <2>1. CASE count[i] = 1 /\ Reachable(x)
    BY <1>1, <2>1, ReleasedFrom, WireTyped DEF Frames
  <2>2. CASE ~ (count[i] = 1 /\ Reachable(x))
    BY <1>1, <2>2 DEF LinkType
  <2> QED
    BY <2>1, <2>2
<1> QED
  BY <1>1, <1>2 DEF LinkType, gate

\* What a replay comes to: the frames of `done`, and the switch perhaps flipped off.
ReplayOutcome(x, done) ==
  /\ queue # <<>> /\ queue' = Tail(queue) /\ Head(queue).op = "reconnected" /\ Head(queue).conn = x
  /\ UNCHANGED <<claim, want, count, shardOf, shards, stop, up, venue, drops>>
  /\ Replay(x, done)
  /\ \/ UNCHANGED <<enabled, toggles>> /\ (enabled => done = Carried(x))
     \/ toggles < MaxToggles /\ toggles' = toggles + 1 /\ enabled' = FALSE

LEMMA ReplayHasOutcome ==
  ASSUME Inv, Replays, FeedReconnected
  PROVE  \E x \in Conns : \E done \in SUBSET Carried(x) : ReplayOutcome(x, done)
<1> DEFINE x == Head(queue).conn
<1>1. /\ queue # <<>> /\ queue' = Tail(queue) /\ Head(queue).op = "reconnected"
      /\ UNCHANGED <<claim, want, count, shardOf, shards, stop, up, venue, drops>>
  BY DEF FeedReconnected, HandleReconnected, HeadIs
<1>2. x \in Conns
  <2>1. 1 \in Reconnects /\ Head(queue) = queue[1]
    BY <1>1, LenProperties, EmptySeq DEF Reconnects, Inv, TypeOK
  <2> QED
    BY <2>1 DEF Replays
<1>3. CASE Replay(x, IF enabled THEN Carried(x) ELSE {}) /\ UNCHANGED <<enabled, toggles>>
  BY <1>1, <1>2, <1>3 DEF ReplayOutcome
<1>4. CASE /\ toggles < MaxToggles /\ enabled' = FALSE /\ toggles' = toggles + 1
           /\ \E done \in SUBSET Carried(x) : Replay(x, done)
  BY <1>1, <1>2, <1>4 DEF ReplayOutcome
<1> QED
  BY <1>3, <1>4 DEF FeedReconnected

LEMMA ReplayTyped ==
  ASSUME LinkType, NEW x \in Conns, NEW done, ReplayOutcome(x, done)
  PROVE  /\ LinkType'
         /\ task' = [task EXCEPT ![x] = "serving"]
         /\ wire' = [wire EXCEPT ![x] = [i \in Instruments |-> IF i \in done THEN "sub" ELSE wire[x][i]]]
<1> DEFINE frames == [i \in Instruments |-> IF i \in done THEN "sub" ELSE wire[x][i]]
<1>1. wire' = [wire EXCEPT ![x] = frames] /\ task' = [task EXCEPT ![x] = "serving"]
  BY DEF ReplayOutcome, Replay
<1>2. frames \in [Instruments -> Frames]
  BY DEF LinkType, Frames
<1> HIDE DEF frames
<1>3. wire' \in [Conns -> [Instruments -> Frames]] /\ task' \in [Conns -> TaskStates]
  BY <1>1, <1>2 DEF LinkType, TaskStates
<1>4. enabled' \in BOOLEAN /\ drops' \in 0..MaxDrops /\ toggles' \in 0..MaxToggles
  <2>1. enabled' \in BOOLEAN /\ drops' \in 0..MaxDrops
    BY DEF ReplayOutcome, LinkType
  <2>2. toggles' = toggles \/ (toggles < MaxToggles /\ toggles' = toggles + 1)
    BY DEF ReplayOutcome
  <2>3. toggles' \in 0..MaxToggles
    BY <2>2, FeedAssumption DEF LinkType, FeedAssumption
  <2> QED
    BY <2>1, <2>3
<1>5. stop' = stop /\ up' = up /\ venue' = venue
  BY DEF ReplayOutcome
<1> QED
  BY <1>1, <1>3, <1>4, <1>5 DEF LinkType, frames

LEMMA ConnectionTyped ==
  ASSUME LinkType, NEW x \in Conns, SocketDies(x) \/ Connection(x)
  PROVE  LinkType'
<1>1. CASE SocketDies(x)
  BY <1>1, FeedAssumption DEF SocketDies, LinkType, FeedAssumption
<1>2. CASE NoticeLoss(x) \/ EndTask(x) \/ DialSucceeds(x)
  BY <1>2, QuietTyped DEF NoticeLoss, EndTask, DialSucceeds, LinkType, TaskStates, gate
<1>3. CASE \E i \in Instruments : SendFrame(x, i)
  <2> PICK i \in Instruments : SendFrame(x, i)
    BY <1>3
  <2>1. wire' \in [Conns -> [Instruments -> Frames]]
    <3>1. wire' = [wire EXCEPT ![x][i] = "none"]
      BY DEF SendFrame
    <3> QED
      BY <3>1, WireTyped DEF Frames
  <2>2. \E V \in SUBSET Instruments : venue' = [venue EXCEPT ![x] = V]
    <3>1. venue[x] \in SUBSET Instruments /\ wire[x][i] \in {"sub", "unsub"}
      BY DEF LinkType, SendFrame, Frames
    <3> QED
      BY <3>1 DEF SendFrame
  <2>3. venue' \in [Conns -> SUBSET Instruments]
    BY <2>2 DEF LinkType
  <2> QED
    BY <2>1, <2>3 DEF SendFrame, LinkType, gate
<1> QED
  BY <1>1, <1>2, <1>3 DEF Connection

-----------------------------------------------------------------------------
(* Streams, one connection at a time. *)

BlankAt(x) ==
  /\ task[x] \in {"none", "redialing"} => wire[x] = Quiet /\ ~ up[x]
  /\ ~ up[x] => venue[x] = {}

FlowsAt(x) ==
  /\ Effective(x) \subseteq Carried(x)
  /\ toggles = 0 /\ task[x] = "serving" /\ up[x] => Carried(x) \subseteq Effective(x)

LEMMA StreamsByConnection ==
  Streams <=> Untouched /\ \A x \in Conns : BlankAt(x) /\ FlowsAt(x)
BY DEF Streams, Blank, NothingUnleasedStreams, EverythingLeasedStreams, BlankAt, FlowsAt

LEMMA StreamsByConnectionNext ==
  Streams' <=> Untouched' /\ (\A x \in Conns : BlankAt(x) /\ FlowsAt(x))'
BY StreamsByConnection, PTL

\* A connection nobody touches, on which the leases stay what they were.
LEMMA FlowsUntouched ==
  ASSUME LinkType, NEW x \in Conns, BlankAt(x), FlowsAt(x),
         task'[x] = task[x], up'[x] = up[x], wire'[x] = wire[x], venue'[x] = venue[x],
         toggles' = 0 => toggles = 0,
         Carried(x)' = Carried(x)
  PROVE  BlankAt(x)' /\ FlowsAt(x)'
<1>1. Effective(x)' = Effective(x)
  BY DEF Effective
<1> QED
  BY <1>1 DEF BlankAt, FlowsAt

\* A connection just opened streams what was subscribed on it and nothing else.
LEMMA FlowsOpened ==
  ASSUME Inv, Inv', LeaseStays, LinkType, NEW x \in Conns, BlankAt(x), Opens(x),
         NEW i, NEW y, NEW ok \in BOOLEAN, LandsOn(i, y, ok), UNCHANGED <<venue, gate>>
  PROVE  BlankAt(x)' /\ FlowsAt(x)'
<1>1. /\ task'[x] = "serving" /\ up'[x] /\ venue'[x] = {}
      /\ wire[x] = Quiet /\ Carried(x) = {} /\ i \in Instruments
  BY DEF Opens, LinkType, BlankAt, LandsOn, Carried, Unused
<1>2. CASE ok /\ y = x
  <2>1. Carried(x)' = {i}
    BY <1>1, <1>2, CarriedLeased DEF LandsOn
  <2>2. \A j \in Instruments : wire'[x][j] = IF j = i THEN "sub" ELSE "none"
    BY <1>1, <1>2, WireTyped DEF LandsOn, Quiet, Frames
  <2>3. Effective(x)' = {i}
    BY <1>1, <2>2 DEF Effective
  <2> QED
    BY <1>1, <2>1, <2>3 DEF BlankAt, FlowsAt
<1>3. CASE ~ (ok /\ y = x)
  <2>1. Carried(x)' = {}
    <3>1. CASE ok
      BY <1>1, <1>3, <3>1, CarriedLeased DEF LandsOn
    <3>2. CASE ~ ok
      BY <1>1, <3>2, CarriedKept DEF LandsOn
    <3> QED
      BY <3>1, <3>2
  <2>2. \A j \in Instruments : wire'[x][j] = "none"
    <3>1. CASE ok
      BY <1>1, <1>3, <3>1, WireTyped DEF LandsOn, Quiet, Frames
    <3>2. CASE ~ ok
      BY <1>1, <3>2 DEF LandsOn, Quiet
    <3> QED
      BY <3>1, <3>2
  <2>3. Effective(x)' = {}
    BY <1>1, <2>2 DEF Effective
  <2> QED
    BY <1>1, <2>1, <2>3 DEF BlankAt, FlowsAt
<1> QED
  BY <1>2, <1>3

\* A connection that was there before, whether or not the lease lands on it.
LEMMA FlowsLeased ==
  ASSUME Inv, Inv', LeaseStays, LinkType, NEW x \in Conns, BlankAt(x), FlowsAt(x),
         task'[x] = task[x], up'[x] = up[x],
         NEW i, NEW y, NEW ok \in BOOLEAN, LandsOn(i, y, ok), ok /\ y = x => Reachable(y),
         UNCHANGED <<venue, gate>>
  PROVE  BlankAt(x)' /\ FlowsAt(x)'
<1>1. i \in Instruments /\ y \in Conns /\ venue'[x] = venue[x] /\ toggles' = toggles
  BY DEF LandsOn, gate
<1>2. CASE ok /\ y = x
  <2>1. Carried(x)' = Carried(x) \cup {i}
    BY <1>1, <1>2, CarriedLeased DEF LandsOn
  <2>2. \A j \in Instruments : wire'[x][j] = IF j = i THEN "sub" ELSE wire[x][j]
    BY <1>1, <1>2, WireTyped DEF LandsOn, Frames
  <2>3. up[x] => Effective(x)' = Effective(x) \cup {i}
    BY <1>1, <2>2 DEF Effective
  <2>4. ~ up[x] => Effective(x)' = {}
    BY <1>1 DEF Effective
  <2>5. FlowsAt(x)'
    BY <1>1, <2>1, <2>3, <2>4 DEF FlowsAt, LinkType
  <2>6. BlankAt(x)'
    BY <1>1, <1>2 DEF BlankAt, Reachable
  <2> QED
    BY <2>5, <2>6
<1>3. CASE ~ ok
  BY <1>1, <1>3, CarriedKept, FlowsUntouched DEF LandsOn
<1>4. CASE ok /\ y # x
  <2>1. Carried(x)' = Carried(x)
    <3>1. /\ count[i] = 0 /\ count' = [count EXCEPT ![i] = 1]
          /\ shards'[shardOf'[i]].conn # x
      BY <1>4 DEF LandsOn
    <3>2. Carried(x)' = Carried(x) \cup (IF shards'[shardOf'[i]].conn = x THEN {i} ELSE {})
      BY <1>1, <3>1, CarriedLeased
    <3> QED
      BY <3>1, <3>2
  <2>2. wire'[x] = wire[x]
    BY <1>1, <1>4 DEF LandsOn, LinkType
  <2> QED
    BY <1>1, <2>1, <2>2, FlowsUntouched
<1> QED
  BY <1>2, <1>3, <1>4

LEMMA LeaseStreams ==
  ASSUME Inv, Inv', LeaseStays, LinkType, Streams, LeaseOutcome
  PROVE  Streams'
<1> PICK i \in Instruments, y \in Conns, ok \in BOOLEAN :
       /\ LandsOn(i, y, ok)
       /\ \/ OpensNone /\ (ok => Reachable(y))
          \/ \E x \in Conns : Opens(x) /\ (ok /\ y # x => Reachable(y))
  BY DEF LeaseOutcome
<1>1. UNCHANGED <<venue, gate>>
  BY DEF LeaseOutcome
<1>2. ASSUME NEW z \in Conns PROVE BlankAt(z)' /\ FlowsAt(z)'
  <2>1. BlankAt(z) /\ FlowsAt(z)
    BY StreamsByConnection
  <2>2. CASE OpensNone /\ (ok => Reachable(y))
    BY <1>1, <2>1, <2>2, FlowsLeased DEF OpensNone
  <2>3. CASE \E x \in Conns : Opens(x) /\ (ok /\ y # x => Reachable(y))
    <3> PICK x \in Conns : Opens(x) /\ (ok /\ y # x => Reachable(y))
      BY <2>3
    <3>1. CASE z = x
      BY <1>1, <2>1, <3>1, FlowsOpened
    <3>2. CASE z # x
      <4>1. task'[z] = task[z] /\ up'[z] = up[z]
        BY <3>2 DEF Opens, LinkType
      <4> QED
        BY <1>1, <2>1, <3>2, <4>1, FlowsLeased
    <3> QED
      BY <3>1, <3>2
  <2> QED
    BY <2>2, <2>3
<1>3. Untouched'
  BY <1>1 DEF Streams, Untouched, gate
<1> QED
  BY <1>2, <1>3, StreamsByConnectionNext

LEMMA ReleaseStreams ==
  ASSUME Inv, Inv', LeaseStays, LinkType, Streams, FeedRelease
  PROVE  Streams'
<1> DEFINE i == want[Head(queue).claim]
           y == shards[shardOf[i]].conn
<1>1. /\ HandleRelease /\ UNCHANGED <<task, stop, up, venue, gate>>
      /\ wire' = IF count[i] = 1 /\ Reachable(y) THEN [wire EXCEPT ![y][i] = "unsub"] ELSE wire
  BY DEF FeedRelease
<1>2. toggles' = toggles /\ enabled' = enabled /\ task' = task /\ up' = up /\ venue' = venue
  BY <1>1 DEF gate
<1>3. CASE count[i] = 1
  <2>1. i \in Instruments /\ y \in Conns /\ count' = [count EXCEPT ![i] = 0]
    BY <1>1, <1>3, ReleasedFrom
  <2>2. ASSUME NEW x \in Conns PROVE BlankAt(x)' /\ FlowsAt(x)'
    <3>1. BlankAt(x) /\ FlowsAt(x)
      BY StreamsByConnection
    <3>2. Carried(x)' = Carried(x) \ {i} /\ (i \in Carried(x) => y = x)
      BY <1>3, <2>1, CarriedReleased
    <3>3. CASE x = y /\ Reachable(y)
      <4>1. \A j \in Instruments : wire'[x][j] = IF j = i THEN "unsub" ELSE wire[x][j]
        <5>1. wire' = [wire EXCEPT ![x][i] = "unsub"] /\ "unsub" \in Frames
          BY <1>1, <1>3, <3>3 DEF Frames
        <5> QED
          BY <2>1, <5>1, WireTyped
      <4>2. Effective(x)' = Effective(x) \ {i}
        BY <1>2, <2>1, <4>1 DEF Effective
      <4>3. FlowsAt(x)'
        BY <1>2, <3>1, <3>2, <4>2 DEF FlowsAt
      <4>4. BlankAt(x)'
        BY <1>2, <3>1, <3>3 DEF BlankAt, Reachable
      <4> QED
        BY <4>3, <4>4
    <3>4. CASE x = y /\ ~ Reachable(y)
      <4>1. wire' = wire /\ ~ up[x] /\ task[x] # "serving"
        BY <1>1, <3>1, <3>4 DEF BlankAt, Reachable, LinkType, TaskStates
      <4> QED
        BY <1>2, <3>1, <4>1 DEF BlankAt, FlowsAt, Effective
    <3>5. CASE x # y
      <4>1. wire'[x] = wire[x]
        BY <1>1, <3>5 DEF LinkType
      <4> QED
        BY <1>2, <3>1, <3>2, <3>5, <4>1, FlowsUntouched
    <3> QED
      BY <3>3, <3>4, <3>5
  <2>3. Untouched'
    BY <1>2 DEF Streams, Untouched
  <2> QED
    BY <2>2, <2>3, StreamsByConnectionNext
<1>4. CASE count[i] # 1
  <2>1. i \in Instruments
    BY <1>1, HeadClaim DEF HandleRelease, HeadIs
  <2>2. \A j \in Instruments : count[j] > 0 <=> count'[j] > 0
    <3>1. count' = [count EXCEPT ![i] = IF @ = 0 THEN 0 ELSE @ - 1]
      BY <1>1, <1>4 DEF HandleRelease
    <3>2. count[i] \in Nat /\ count'[i] = IF count[i] = 0 THEN 0 ELSE count[i] - 1
      BY <2>1, <3>1 DEF Inv, TypeOK
    <3>3. \A j \in Instruments : j # i => count'[j] = count[j]
      BY <3>1 DEF Inv, TypeOK
    <3> QED
      BY <1>4, <3>2, <3>3
  <2>3. ASSUME NEW x \in Conns PROVE BlankAt(x)' /\ FlowsAt(x)'
    <3>1. Carried(x)' = Carried(x)
      BY <2>2, CarriedKept
    <3>2. wire' = wire /\ BlankAt(x) /\ FlowsAt(x)
      BY <1>1, <1>4, StreamsByConnection
    <3> QED
      BY <1>2, <3>1, <3>2, FlowsUntouched
  <2>4. Untouched'
    BY <1>2 DEF Streams, Untouched
  <2> QED
    BY <2>3, <2>4, StreamsByConnectionNext
<1> QED
  BY <1>3, <1>4

\* A replay that is not cut short restores all that is leased, and adds nothing.
LEMMA ReplayStreams ==
  ASSUME Inv, Inv', LeaseStays, LinkType, Streams,
         NEW x \in Conns, NEW done \in SUBSET Carried(x), ReplayOutcome(x, done)
  PROVE  Streams'
<1>1. /\ count' = count /\ up' = up /\ venue' = venue
      /\ task' = [task EXCEPT ![x] = "serving"]
      /\ wire' = [wire EXCEPT ![x] = [i \in Instruments |-> IF i \in done THEN "sub" ELSE wire[x][i]]]
  BY ReplayTyped DEF ReplayOutcome
<1>2. toggles \in Nat /\ (toggles' = 0 => toggles = 0 /\ enabled' = enabled)
  BY FeedAssumption DEF ReplayOutcome, LinkType, FeedAssumption
<1>3. ASSUME NEW z \in Conns PROVE BlankAt(z)' /\ FlowsAt(z)'
  <2>1. BlankAt(z) /\ FlowsAt(z) /\ Carried(z)' = Carried(z)
    BY <1>1, CarriedKept, StreamsByConnection
  <2>2. CASE z = x
    <3>1. \A i \in Instruments : wire'[x][i] = IF i \in done THEN "sub" ELSE wire[x][i]
      BY <1>1 DEF LinkType
    <3>2. done \subseteq Instruments
      BY CarriedSubset
    <3>3. up[x] => Effective(x)' = Effective(x) \cup done
      BY <1>1, <3>1, <3>2 DEF Effective
    <3>4. ~ up[x] => Effective(x)' = {}
      BY <1>1 DEF Effective
    <3>5. toggles' = 0 => done = Carried(x)
      BY <1>2, FeedAssumption DEF ReplayOutcome, Streams, Untouched
    <3>6. FlowsAt(x)'
      BY <1>1, <2>1, <2>2, <3>3, <3>4, <3>5 DEF FlowsAt
    <3>7. BlankAt(x)'
      BY <1>1, <2>1, <2>2 DEF BlankAt, LinkType
    <3> QED
      BY <2>2, <3>6, <3>7
  <2>3. CASE z # x
    <3>1. task'[z] = task[z] /\ wire'[z] = wire[z]
      BY <1>1, <2>3 DEF LinkType
    <3> QED
      BY <1>1, <1>2, <2>1, <3>1, FlowsUntouched
  <2> QED
    BY <2>2, <2>3
<1>4. Untouched'
  BY <1>2 DEF Streams, Untouched
<1> QED
  BY <1>3, <1>4, StreamsByConnectionNext

\* A frame sent moves what is under way to the venue; the end of a socket ends both.
LEMMA ConnectionFlows ==
  ASSUME LinkType, NEW x \in Conns, BlankAt(x), FlowsAt(x), Carried(x)' = Carried(x),
         SocketDies(x) \/ Connection(x)
  PROVE  BlankAt(x)' /\ FlowsAt(x)'
<1>1. CASE SocketDies(x)
  <2>1. ~ up'[x] /\ venue'[x] = {} /\ task'[x] = task[x] /\ wire'[x] = wire[x]
    BY <1>1 DEF SocketDies, LinkType
  <2> QED
    BY <2>1 DEF BlankAt, FlowsAt, Effective
<1>2. CASE NoticeLoss(x)
  <2>1. task'[x] = "redialing" /\ wire'[x] = Quiet /\ ~ up'[x] /\ venue'[x] = venue[x] /\ ~ up[x]
    BY <1>2 DEF NoticeLoss, LinkType
  <2> QED
    BY <2>1 DEF BlankAt, FlowsAt, Effective
<1>3. CASE EndTask(x)
  <2>1. task'[x] = "none" /\ wire'[x] = Quiet /\ ~ up'[x] /\ venue'[x] = {}
    BY <1>3 DEF EndTask, LinkType
  <2> QED
    BY <2>1 DEF BlankAt, FlowsAt, Effective
<1>4. CASE DialSucceeds(x)
  <2>1. /\ task'[x] = "replaying" /\ up'[x] /\ wire'[x] = Quiet /\ venue'[x] = {}
    BY <1>4 DEF DialSucceeds, LinkType, BlankAt
  <2>2. Effective(x)' = {}
    BY <2>1 DEF Effective, Quiet
  <2> QED
    BY <2>1, <2>2 DEF BlankAt, FlowsAt
<1>5. CASE \E i \in Instruments : SendFrame(x, i)
  <2> PICK i \in Instruments : SendFrame(x, i)
    BY <1>5
  <2>1. /\ task' = task /\ up' = up /\ toggles' = toggles /\ task[x] = "serving"
        /\ \A j \in Instruments : wire'[x][j] = IF j = i THEN "none" ELSE wire[x][j]
    <3>1. wire' = [wire EXCEPT ![x][i] = "none"] /\ "none" \in Frames
      BY DEF SendFrame, Frames
    <3>2. \A j \in Instruments : wire'[x][j] = IF j = i THEN "none" ELSE wire[x][j]
      BY <3>1, WireTyped
    <3> QED
      BY <3>2 DEF SendFrame, gate
  <2>2. wire[x][i] \in {"sub", "unsub"}
    BY DEF SendFrame, LinkType, Frames
  <2>3. /\ ~ up[x] => venue'[x] = {}
        /\ up[x] /\ wire[x][i] = "sub" => venue'[x] = venue[x] \cup {i}
        /\ up[x] /\ wire[x][i] = "unsub" => venue'[x] = venue[x] \ {i}
    BY <2>2 DEF SendFrame, LinkType
  <2>4. Effective(x)' = Effective(x)
    <3>1. CASE ~ up[x]
      BY <2>1, <3>1 DEF Effective
    <3>2. CASE up[x]
      BY <2>1, <2>2, <2>3, <3>2 DEF Effective
    <3> QED
      BY <3>1, <3>2
  <2> QED
    BY <2>1, <2>3, <2>4 DEF BlankAt, FlowsAt
<1> QED
  BY <1>1, <1>2, <1>3, <1>4, <1>5 DEF Connection

LEMMA ConnectionStreams ==
  ASSUME Inv, Inv', LeaseStays, LinkType, Streams,
         NEW x \in Conns, SocketDies(x) \/ Connection(x)
  PROVE  Streams'
<1>1. /\ count' = count /\ toggles' = toggles /\ enabled' = enabled
      /\ \A z \in Conns : z # x => /\ task'[z] = task[z] /\ up'[z] = up[z]
                                   /\ wire'[z] = wire[z] /\ venue'[z] = venue[z]
  BY DEF SocketDies, Connection, NoticeLoss, SendFrame, EndTask, DialSucceeds, ReportReconnected,
     vars, gate, LinkType
<1>2. ASSUME NEW z \in Conns PROVE BlankAt(z)' /\ FlowsAt(z)'
  <2>1. BlankAt(z) /\ FlowsAt(z) /\ Carried(z)' = Carried(z)
    BY <1>1, CarriedKept, StreamsByConnection
  <2>2. CASE z = x
    BY <2>1, <2>2, ConnectionFlows
  <2>3. CASE z # x
    BY <1>1, <2>1, <2>3, FlowsUntouched
  <2> QED
    BY <2>2, <2>3
<1>3. Untouched'
  BY <1>1 DEF Streams, Untouched
<1> QED
  BY <1>2, <1>3, StreamsByConnectionNext

\* Whatever else leaves the wires, the sockets and the records as they are.
LEMMA StreamsKept ==
  ASSUME Inv, Inv', LeaseStays, LinkType, Streams,
         \A i \in Instruments : count[i] > 0 <=> count'[i] > 0,
         UNCHANGED <<task, up, wire, venue>>,
         toggles' = 0 => toggles = 0 /\ enabled' = enabled
  PROVE  Streams'
<1>1. ASSUME NEW z \in Conns PROVE BlankAt(z)' /\ FlowsAt(z)'
  <2>1. BlankAt(z) /\ FlowsAt(z) /\ Carried(z)' = Carried(z)
    BY CarriedKept, StreamsByConnection
  <2> QED
    BY <2>1, FlowsUntouched
<1>2. Untouched'
  BY DEF Streams, Untouched
<1> QED
  BY <1>1, <1>2, StreamsByConnectionNext

-----------------------------------------------------------------------------
(* Every step keeps the invariant. *)

LEMMA SilentKeeps ==
  ASSUME FeedInv, Inv', LeaseStays, UNCHANGED <<link, gate>>,
         Claimants \/ Timers \/ StraySweep \/ JoinLease \/ ConnectFails
  PROVE  FeedInv'
<1>1. UNCHANGED <<task, stop, up, wire, venue, enabled, drops, toggles>>
  BY DEF link, gate
<1>2. SlotsStay /\ \A i \in Instruments : count[i] > 0 <=> count'[i] > 0
  BY SilentOutcome DEF FeedInv
<1>3. LinkType'
  BY <1>1 DEF FeedInv, LinkType
<1>4. Sockets'
  BY <1>1, <1>2, SocketsKept DEF FeedInv
<1>5. Replays'
  BY <1>1, SilentReplays DEF FeedInv
<1>6. Streams'
  BY <1>1, <1>2, StreamsKept DEF FeedInv
<1> QED
  BY <1>3, <1>4, <1>5, <1>6 DEF FeedInv

LEMMA LeaseKeeps ==
  ASSUME FeedInv, Inv', LeaseStays, LeaseOutcome, queue # <<>>
  PROVE  FeedInv'
<1>1. LinkType'
  BY LeaseTyped DEF FeedInv
<1>2. Streams'
  BY LeaseStreams DEF FeedInv
<1>3. stop' = stop /\ queue' = Tail(queue)
  BY DEF LeaseOutcome
<1>4. CASE OpensNone
  <2>1. SlotsStay /\ task' = task
    BY <1>4 DEF OpensNone, SlotsStay
  <2>2. Sockets'
    BY <1>3, <2>1, SocketsKept DEF FeedInv
  <2>3. Replays'
    BY <1>3, <2>1, ReplaysPopped DEF FeedInv, Inv
  <2> QED
    BY <1>1, <1>2, <2>2, <2>3 DEF FeedInv
<1>5. CASE \E x \in Conns : Opens(x)
  <2> PICK x \in Conns : Opens(x)
    BY <1>5
  <2>1. Sockets'
    BY <1>3, SocketsOpened DEF FeedInv
  <2>2. \A z \in Conns : task[z] = "replaying" => task'[z] = "replaying"
    BY DEF Opens, FeedInv, LinkType
  <2>3. Replays'
    BY <1>3, <2>2, ReplaysPopped DEF FeedInv, Inv
  <2> QED
    BY <1>1, <1>2, <2>1, <2>3 DEF FeedInv
<1> QED
  BY <1>4, <1>5 DEF LeaseOutcome

LEMMA ReleaseKeeps ==
  ASSUME FeedInv, Inv', LeaseStays, FeedRelease
  PROVE  FeedInv'
<1>1. /\ HandleRelease /\ task' = task /\ stop' = stop
      /\ queue # <<>> /\ queue' = Tail(queue)
  BY DEF FeedRelease, HandleRelease, HeadIs
<1>2. LinkType' /\ Streams'
  BY ReleaseTyped, ReleaseStreams DEF FeedInv
<1>3. Sockets'
  BY <1>1, ReleaseSlots, SocketsKept DEF FeedInv
<1>4. Replays'
  BY <1>1, ReplaysPopped DEF FeedInv, Inv
<1> QED
  BY <1>2, <1>3, <1>4 DEF FeedInv

LEMMA SweepKeeps ==
  ASSUME FeedInv, Inv', LeaseStays, FeedSweep
  PROVE  FeedInv'
<1>1. /\ UNCHANGED <<task, up, wire, venue, enabled, drops, toggles, count>>
      /\ queue # <<>> /\ queue' = Tail(queue)
  BY DEF FeedSweep, HandleSweep, HeadIs, gate
<1>2. LinkType'
  <2>1. stop' \in [Conns -> BOOLEAN]
    BY DEF FeedSweep, FeedInv, LinkType
  <2> QED
    BY <1>1, <2>1 DEF FeedInv, LinkType
<1>3. Sockets'
  BY SocketsSwept DEF FeedInv
<1>4. Replays'
  BY <1>1, ReplaysPopped DEF FeedInv, Inv
<1>5. Streams'
  BY <1>1, StreamsKept DEF FeedInv
<1> QED
  BY <1>2, <1>3, <1>4, <1>5 DEF FeedInv

LEMMA ReconnectedKeeps ==
  ASSUME FeedInv, Inv', LeaseStays, FeedReconnected
  PROVE  FeedInv'
<1> PICK x \in Conns : \E done \in SUBSET Carried(x) : ReplayOutcome(x, done)
  BY ReplayHasOutcome DEF FeedInv
<1> PICK done \in SUBSET Carried(x) : ReplayOutcome(x, done)
  OBVIOUS
<1>1. /\ queue # <<>> /\ queue' = Tail(queue) /\ Head(queue).op = "reconnected" /\ Head(queue).conn = x
      /\ shards' = shards /\ stop' = stop
  BY DEF ReplayOutcome
<1>2. task[x] = "replaying"
  <2>1. 1 \in Reconnects /\ Head(queue) = queue[1]
    BY <1>1, LenProperties, EmptySeq DEF Reconnects, FeedInv, Inv, TypeOK
  <2> QED
    BY <1>1, <2>1 DEF FeedInv, Replays
<1>3. LinkType' /\ Streams' /\ task' = [task EXCEPT ![x] = "serving"]
  BY ReplayTyped, ReplayStreams DEF FeedInv
<1>4. \A z \in Conns : /\ task'[z] = "none" <=> task[z] = "none"
                       /\ task[z] = "replaying" => task'[z] = "replaying" \/ z = x
  BY <1>2, <1>3 DEF FeedInv, LinkType
<1>5. Sockets'
  <2>1. SlotsStay
    BY <1>1, SlotsKept DEF SlotsStay, FeedInv, Sockets
  <2> QED
    BY <1>1, <1>4, <2>1, SocketsKept DEF FeedInv
<1>6. Replays'
  BY <1>1, <1>4, ReplaysPopped DEF FeedInv, Inv
<1> QED
  BY <1>3, <1>5, <1>6 DEF FeedInv

LEMMA ConnectionKeeps ==
  ASSUME FeedInv, Inv', LeaseStays, NEW x \in Conns, SocketDies(x) \/ Connection(x)
  PROVE  FeedInv'
<1>1. LinkType' /\ Streams'
  BY ConnectionTyped, ConnectionStreams DEF FeedInv
<1>2. shards' = shards
  BY DEF SocketDies, Connection, NoticeLoss, SendFrame, EndTask, DialSucceeds, ReportReconnected, vars
<1>3. SlotsStay
  BY <1>2, SlotsKept DEF SlotsStay, FeedInv, Sockets
<1>4. CASE EndTask(x)
  <2>1. Sockets'
    BY <1>4, SocketsEnded DEF FeedInv
  <2>2. queue' = queue /\ \A z \in Conns : task[z] = "replaying" => task'[z] = "replaying"
    BY <1>4 DEF EndTask, vars, FeedInv, LinkType
  <2>3. Replays'
    BY <2>2, ReplaysKept DEF FeedInv
  <2> QED
    BY <1>1, <2>1, <2>3 DEF FeedInv
<1>5. CASE DialSucceeds(x)
  <2>1. /\ task[x] = "redialing" /\ task' = [task EXCEPT ![x] = "replaying"] /\ stop' = stop
        /\ queue' = Append(queue, ReconnectedCommand(x))
    BY <1>5 DEF DialSucceeds, ReportReconnected
  <2>2. Replays'
    BY <2>1, ReplaysAsked DEF FeedInv, Inv
  <2>3. \A z \in Conns : task'[z] = "none" <=> task[z] = "none"
    BY <2>1 DEF FeedInv, LinkType
  <2>4. Sockets'
    BY <1>3, <2>1, <2>3, SocketsKept DEF FeedInv
  <2> QED
    BY <1>1, <2>2, <2>4 DEF FeedInv
<1>6. CASE SocketDies(x) \/ NoticeLoss(x) \/ \E i \in Instruments : SendFrame(x, i)
  <2>1. /\ queue' = queue /\ stop' = stop
        /\ \A z \in Conns : /\ task'[z] = "none" <=> task[z] = "none"
                            /\ task[z] = "replaying" => task'[z] = "replaying"
    BY <1>6 DEF SocketDies, NoticeLoss, SendFrame, vars, FeedInv, LinkType
  <2>2. Sockets'
    BY <1>3, <2>1, SocketsKept DEF FeedInv
  <2>3. Replays'
    BY <2>1, ReplaysKept DEF FeedInv
  <2> QED
    BY <1>1, <2>2, <2>3 DEF FeedInv
<1> QED
  BY <1>4, <1>5, <1>6 DEF Connection

LEMMA ToggleKeeps ==
  ASSUME FeedInv, Inv', LeaseStays, Toggle
  PROVE  FeedInv'
<1>1. /\ UNCHANGED <<vars, task, stop, up, wire, venue, drops>>
      /\ toggles' = toggles + 1 /\ toggles < MaxToggles /\ enabled' = ~ enabled
  BY DEF Toggle, link
<1>2. toggles \in Nat /\ toggles' \in 0..MaxToggles /\ toggles' # 0
  BY <1>1, FeedAssumption DEF FeedInv, LinkType, FeedAssumption
<1>3. LinkType'
  BY <1>1, <1>2 DEF FeedInv, LinkType
<1>4. SlotsStay
  BY <1>1, SlotsKept DEF SlotsStay, FeedInv, Sockets, vars
<1>5. Sockets'
  BY <1>1, <1>4, SocketsKept DEF FeedInv
<1>6. Replays'
  BY <1>1, ReplaysKept DEF FeedInv, vars
<1>7. Streams'
  BY <1>1, <1>2, StreamsKept DEF FeedInv, vars
<1> QED
  BY <1>3, <1>5, <1>6, <1>7 DEF FeedInv

LEMMA FeedStutters ==
  ASSUME FeedInv, Inv', LeaseStays, UNCHANGED feedVars
  PROVE  FeedInv'
<1>1. /\ UNCHANGED <<claim, want, queue, count, shardOf, shards>>
      /\ UNCHANGED <<task, stop, up, wire, venue, enabled, drops, toggles>>
  BY DEF feedVars, vars, link, gate
<1>2. LinkType'
  BY <1>1 DEF FeedInv, LinkType
<1>3. SlotsStay
  BY <1>1, SlotsKept DEF SlotsStay, FeedInv, Sockets
<1>4. Sockets'
  BY <1>1, <1>3, SocketsKept DEF FeedInv
<1>5. Replays'
  BY <1>1, ReplaysKept DEF FeedInv
<1>6. Streams'
  BY <1>1, StreamsKept DEF FeedInv
<1> QED
  BY <1>2, <1>4, <1>5, <1>6 DEF FeedInv

LEMMA FeedInitInv ==
  ASSUME FeedInit PROVE FeedInv
<1>1. Inv
  BY InitInv DEF FeedInit
<1>2. LinkType
  BY QuietTyped, FeedAssumption DEF FeedInit, LinkType, TaskStates, FeedAssumption
<1>3. shards = <<>> /\ queue = <<>> /\ DOMAIN shards = {} /\ DOMAIN queue = {}
  BY EmptySeq DEF FeedInit, Init
<1>4. Sockets /\ Replays
  BY <1>3 DEF FeedInit, Sockets, Distinct, StoppedIsRetired, PoolAndTasksAgree, Unused, Replays, Reconnects
<1>5. Streams
  <2>1. \A x \in Conns : Effective(x) = {} /\ task[x] = "none"
    BY DEF FeedInit, Effective
  <2> QED
    BY <2>1 DEF FeedInit, Streams, Blank, Untouched, NothingUnleasedStreams, EverythingLeasedStreams
<1> QED
  BY <1>1, <1>2, <1>4, <1>5 DEF FeedInv

LEMMA FeedStepInv ==
  ASSUME FeedInv, [FeedNext]_feedVars PROVE FeedInv'
<1>1. Inv /\ Inv' /\ LeaseStays
  BY PoolKeeps DEF FeedInv
<1>2. CASE (Claimants \/ Timers \/ StraySweep \/ JoinLease \/ ConnectFails) /\ UNCHANGED <<link, gate>>
  BY <1>1, <1>2, SilentKeeps
<1>3. CASE \E ok \in BOOLEAN :
             \/ \E k \in DOMAIN shards : FeedLeaseOnShard(k, ok)
             \/ \E x \in Conns, k \in 1..Len(shards) : FeedLeaseInHole(x, k, ok)
             \/ \E x \in Conns : FeedLeaseOnPushed(x, ok)
  <2>1. LeaseOutcome
    BY <1>1, <1>3, OnShardOutcome, InHoleOutcome, OnPushedOutcome DEF FeedInv
  <2>2. queue # <<>>
    BY <1>3 DEF FeedLeaseOnShard, FeedLeaseInHole, FeedLeaseOnPushed,
                LeaseOnShard, LeaseInHole, LeaseOnPushed, FirstLease, HeadIs
  <2> QED
    BY <1>1, <2>1, <2>2, LeaseKeeps
<1>4. CASE FeedRelease \/ FeedSweep \/ FeedReconnected
  BY <1>1, <1>4, ReleaseKeeps, SweepKeeps, ReconnectedKeeps
<1>5. CASE \E x \in Conns : SocketDies(x) \/ Connection(x)
  BY <1>1, <1>5, ConnectionKeeps
<1>6. CASE Toggle
  BY <1>1, <1>6, ToggleKeeps
<1>7. CASE UNCHANGED feedVars
  BY <1>1, <1>7, FeedStutters
<1>8. FeedActor => \/ (JoinLease \/ ConnectFails) /\ UNCHANGED <<link, gate>>
                   \/ \E ok \in BOOLEAN :
                        \/ \E k \in DOMAIN shards : FeedLeaseOnShard(k, ok)
                        \/ \E x \in Conns, k \in 1..Len(shards) : FeedLeaseInHole(x, k, ok)
                        \/ \E x \in Conns : FeedLeaseOnPushed(x, ok)
                   \/ FeedRelease \/ FeedSweep \/ FeedReconnected
  BY DEF FeedActor
<1> QED
  BY <1>2, <1>3, <1>4, <1>5, <1>6, <1>7, <1>8 DEF FeedNext

\* The invariant behind the theorems, whatever drops, redials and flips happen.
LEMMA FeedInvariant == FeedSpec => []FeedInv
<1>1. FeedInit => FeedInv
  BY FeedInitInv
<1>2. FeedInv /\ [FeedNext]_feedVars => FeedInv'
  BY FeedStepInv
<1> QED
  BY <1>1, <1>2, PTL DEF FeedSpec

-----------------------------------------------------------------------------
(* The theorems. *)

\* The values of every variable of the pool and of the connections.
THEOREM FeedTypesHold == FeedSpec => []FeedTypeOK
<1>1. FeedInv => FeedTypeOK
  BY DEF FeedInv, Inv, LinkType, FeedTypeOK
<1> QED
  BY <1>1, FeedInvariant, PTL

\* However drops, redials, replays, leases, releases and sweeps interleave, no
\* connection streams, or is about to, an instrument nobody leases on it.
THEOREM NothingLeftStreaming == FeedSpec => []NothingUnleasedStreams
<1>1. FeedInv => NothingUnleasedStreams
  BY DEF FeedInv, Streams
<1> QED
  BY <1>1, FeedInvariant, PTL

\* A replay restores every lease of its connection, those made and released while
\* the socket was down included, as long as the plugin was never disabled.
THEOREM EverythingRestored == FeedSpec => []EverythingLeasedStreams
<1>1. FeedInv => EverythingLeasedStreams
  BY DEF FeedInv, Streams
<1> QED
  BY <1>1, FeedInvariant, PTL

\* No task outlives its shard without having been told to stop, and no shard its
\* task.
THEOREM TasksMatchPool == FeedSpec => []PoolAndTasksAgree
<1>1. FeedInv => PoolAndTasksAgree
  BY DEF FeedInv, Sockets
<1> QED
  BY <1>1, FeedInvariant, PTL

\* With its connections the pool still gives its callers the lease registry: what
\* the sockets do only decides which calls are refused.
THEOREM FeedImplementsRegistry == FeedSpec => ImplementsRegistry
<1>1. FeedInit => Registry!Init
  BY DEF FeedInit, Init, Registry!Init
<1>2. FeedInv /\ [FeedNext]_feedVars => [Registry!Next]_(Registry!vars)
  BY FeedStepsPool, StepMaps DEF FeedInv
<1> QED
  BY <1>1, <1>2, FeedInvariant, PTL DEF FeedSpec, ImplementsRegistry, Registry!Spec

\* A leased instrument stays on its connection while sockets fail, redial and are
\* retired around it.
THEOREM FeedLeasesStay == FeedSpec => LeaseNeverMoves
<1>1. FeedInv /\ [FeedNext]_feedVars => [LeaseStays]_vars
  BY PoolKeeps DEF FeedInv
<1> QED
  BY <1>1, FeedInvariant, PTL DEF FeedSpec, LeaseNeverMoves
===============================================================================
