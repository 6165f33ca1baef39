-------------------------- MODULE SeriesLoader_proofs --------------------------
(***************************************************************************)
(* SeriesLoader for every horizon, page and bucket size, every capacity of *)
(* the gate, and any number of jobs.                                       *)
(***************************************************************************)
EXTENDS SeriesLoader, FiniteSetTheorems, TLAPS

WF == INSTANCE WellFoundedInduction
StoreP == INSTANCE SeriesStore_proofs WITH Writers <- Jobs

-----------------------------------------------------------------------------
(* Least and greatest slots. *)

\* The order of the naturals as a well-founded relation.
LEMMA NaturalOrder ==
  \E R : WF!IsWellFoundedOn(R, Nat) /\ \A x, y \in Nat : y < x => <<y, x>> \in R
<1>1. WF!IsWellFoundedOn(WF!OpToRel(<, Nat), Nat)
  BY WF!NatLessThanWellFounded
<1>2. \A x, y \in Nat : y < x => <<y, x>> \in WF!OpToRel(<, Nat)
  BY DEF WF!OpToRel
<1> QED
  BY <1>1, <1>2

\* A set of naturals that is not empty has a least element.
LEMMA LeastExists ==
  ASSUME NEW T, T \subseteq Nat, T # {}
  PROVE  \E x \in T : \A y \in T : x <= y
<1>1. PICK R : WF!IsWellFoundedOn(R, Nat) /\ \A x, y \in Nat : y < x => <<y, x>> \in R
  BY NaturalOrder
<1>2. PICK x \in T : \A y \in T : ~ (<<y, x>> \in R)
  BY <1>1, WF!WFMin
<1>3. ASSUME NEW y \in T PROVE x <= y
  <2>1. x \in Nat /\ y \in Nat /\ ~(y < x)
    BY <1>1, <1>2
  <2> QED
    BY <2>1
<1> QED
  BY <1>3

\* What Least returns is the least element.
LEMMA LeastIsLeast ==
  ASSUME NEW T, T \subseteq Nat, T # {}
  PROVE  Least(T) \in T /\ \A y \in T : Least(T) <= y
BY LeastExists DEF Least

\* A bounded set of naturals has a greatest element.
LEMMA GreatestExists ==
  ASSUME NEW b \in Nat, NEW T, T \subseteq 0 .. b, T # {}
  PROVE  \E x \in T : \A y \in T : y <= x
<1> DEFINE D == {b - x : x \in T}
<1>1. D \subseteq Nat /\ D # {}
  <2>1. ASSUME NEW x \in T PROVE b - x \in Nat
    OBVIOUS
  <2> QED
    BY <2>1
<1>2. PICK d \in D : \A e \in D : d <= e
  BY <1>1, LeastExists
<1>3. PICK x \in T : d = b - x
  OBVIOUS
<1>4. ASSUME NEW y \in T PROVE y <= x
  <2>1. b - y \in D
    OBVIOUS
  <2>2. b - x <= b - y
    BY <1>2, <1>3, <2>1
  <2> QED
    BY <2>2
<1> QED
  BY <1>4

\* Least and End give the two bounds of an interval.
LEMMA Bounds ==
  ASSUME NEW a \in Int, NEW b \in Int, a <= b
  PROVE  Least(a .. b) = a /\ End(a .. b) = b + 1
<1>1. Least(a .. b) \in a .. b /\ \A y \in a .. b : Least(a .. b) <= y
  <2>1. \E x \in a .. b : \A y \in a .. b : x <= y
    <3> WITNESS a \in a .. b
    <3> QED
      OBVIOUS
  <2> QED
    BY <2>1 DEF Least
<1> DEFINE m == CHOOSE x \in a .. b : \A y \in a .. b : x >= y
<1>2. m \in a .. b /\ \A y \in a .. b : m >= y
  <2>1. \E x \in a .. b : \A y \in a .. b : x >= y
    <3> WITNESS b \in a .. b
    <3> QED
      OBVIOUS
  <2> QED
    BY <2>1
<1>3. End(a .. b) = 1 + m
  BY DEF End
<1>4. m = b
  <2> HIDE DEF m
  <2> QED
    BY <1>2
<1> QED
  BY <1>1, <1>3, <1>4

\* A range is an interval of slots.
LEMMA RangeBounds ==
  ASSUME NEW r \in Ranges
  PROVE  \E a, b \in Slots : a <= b /\ r = a .. b
BY SizesAssumption DEF Ranges, Slots

\* The end of a range is a slot boundary.
LEMMA EndType ==
  ASSUME NEW r \in Ranges
  PROVE  End(r) \in 0 .. Horizon
<1>1. PICK a \in Slots, b \in Slots : a <= b /\ r = a .. b
  BY RangeBounds
<1>2. End(r) = b + 1
  BY <1>1, Bounds DEF Slots
<1> QED
  BY <1>1, <1>2, SizesAssumption DEF Slots

-----------------------------------------------------------------------------
(* The gap planner. *)

\* Every slot of a set lies in one of its runs.
LEMMA RunsCover ==
  ASSUME NEW S, S \subseteq Slots, NEW x \in S
  PROVE  \E a, b \in Slots : /\ a <= x /\ x <= b /\ a .. b \subseteq S
                             /\ a - 1 \notin S /\ b + 1 \notin S
<1>1. x \in Nat /\ x < Horizon /\ Horizon \in Nat
  BY SizesAssumption DEF Slots
<1> DEFINE A == {a \in 0 .. x : a .. x \subseteq S}
           B == {b \in 0 .. (Horizon - 1) : b >= x /\ x .. b \subseteq S}
<1>2. x .. x \subseteq S
  BY <1>1
<1>3. PICK a \in A : \A y \in A : a <= y
  <2>1. x \in A /\ A \subseteq Nat
    BY <1>1, <1>2
  <2> QED
    BY <2>1, LeastExists
<1>4. PICK b \in B : \A y \in B : y <= b
  <2>1. x \in B /\ B \subseteq 0 .. (Horizon - 1) /\ Horizon - 1 \in Nat
    BY <1>1, <1>2
  <2> QED
    BY <2>1, GreatestExists
<1>5. a .. b \subseteq S
  <2>1. ASSUME NEW y \in a .. b PROVE y \in S
    <3>1. y \in a .. x \/ y \in x .. b
      BY <1>1, <1>3, <1>4
    <3> QED
      BY <1>3, <1>4, <3>1
  <2> QED
    BY <2>1
<1>6. a - 1 \notin S
  <2> SUFFICES ASSUME a - 1 \in S PROVE FALSE
    OBVIOUS
  <2>1. a - 1 \in 0 .. x
    BY <1>1 DEF Slots
  <2>2. (a - 1) .. x \subseteq S
    <3>1. \A y \in (a - 1) .. x : y = a - 1 \/ y \in a .. x
      BY <1>1
    <3> QED
      BY <3>1
  <2> QED
    BY <1>1, <1>3, <2>1, <2>2
<1>7. b + 1 \notin S
  <2> SUFFICES ASSUME b + 1 \in S PROVE FALSE
    OBVIOUS
  <2>1. b + 1 \in 0 .. (Horizon - 1)
    BY <1>1 DEF Slots
  <2>2. x .. (b + 1) \subseteq S
    <3>1. \A y \in x .. (b + 1) : y = b + 1 \/ y \in x .. b
      BY <1>1
    <3> QED
      BY <3>1
  <2> QED
    BY <1>1, <1>4, <2>1, <2>2
<1> QED
  BY <1>1, <1>3, <1>4, <1>5, <1>6, <1>7 DEF Slots

\* Rounding down to a page.
LEMMA PageStart ==
  ASSUME NEW P \in Nat \ {0}, NEW d \in Nat
  PROVE  \E k \in Nat : k <= d /\ d < k + P /\ (k % P) = 0
<1> DEFINE k == P * (d \div P)
<1>1. d = k + (d % P) /\ (d % P) \in 0 .. (P - 1) /\ (d \div P) \in Nat
  OBVIOUS
<1>2. (k % P) = 0
  BY <1>1
<1>3. k \in Nat
  BY <1>1
<1> HIDE DEF k
<1> QED
  BY <1>1, <1>2, <1>3

(***************************************************************************)
(* No slot that is missing is dropped between the chunks a gap is cut      *)
(* into (split_into_chunks).                                               *)
(***************************************************************************)
LEMMA SplitCovers ==
  ASSUME NEW S, S \subseteq Slots
  PROVE  S \subseteq UNION Split(S) /\ Split(S) \subseteq Ranges
<1>1. ASSUME NEW x \in S PROVE \E c \in Split(S) : x \in c
  <2>1. PICK a \in Slots, b \in Slots : /\ a <= x /\ x <= b /\ a .. b \subseteq S
                                        /\ a - 1 \notin S /\ b + 1 \notin S
    BY RunsCover
  <2>2. /\ a \in Nat /\ b \in Nat /\ x \in Nat /\ b < Horizon
        /\ PageSlots \in Nat \ {0} /\ Horizon \in Nat
    BY SizesAssumption DEF Slots
  <2> DEFINE run == a .. b
  <2>3. Least(run) = a /\ End(run) = b + 1
    <3>1. a <= b
      BY <2>1, <2>2
    <3> QED
      BY <2>2, <3>1, Bounds
  <2>4. run \in Runs(S)
    <3>1. run \in Ranges
      BY <2>1, <2>2 DEF Ranges
    <3> QED
      BY <2>1, <2>3, <3>1 DEF Runs
  <2>5. PICK k \in Nat : k <= x - a /\ x - a < k + PageSlots /\ (k % PageSlots) = 0
    <3>1. x - a \in Nat
      BY <2>1, <2>2
    <3> QED
      BY <2>2, <3>1, PageStart
  <2> DEFINE p == a + k
             q == IF p + PageSlots - 1 <= b THEN p + PageSlots - 1 ELSE b
             c == p .. q
  <2>6. p \in Nat /\ q \in Nat /\ a <= p /\ p <= x /\ x <= q /\ q <= b
    BY <2>1, <2>2, <2>5
  <2>7. c \in Ranges /\ c \subseteq run /\ x \in c
    <3>1. p \in Slots /\ q \in Slots
      BY <2>2, <2>6 DEF Slots
    <3>2. x \in c /\ c \subseteq run
      <4> HIDE DEF p, q
      <4> QED
        BY <2>2, <2>6
    <3>3. c \in {u .. v : u \in Slots, v \in Slots}
      <4> HIDE DEF p, q
      <4> QED
        BY <3>1
    <3> HIDE DEF c
    <3> QED
      BY <3>2, <3>3 DEF Ranges
  <2>8. Least(c) = p /\ End(c) = q + 1
    <3>1. p <= q
      BY <2>2, <2>6
    <3> HIDE DEF p, q
    <3> QED
      BY <2>6, <3>1, Bounds
  <2>9. ((Least(c) - Least(run)) % PageSlots) = 0
    <3>1. p - a = k
      BY <2>2
    <3> QED
      BY <2>3, <2>5, <2>8, <3>1
  <2>10. Cardinality(c) = q - p + 1
    <3>1. p \in Int /\ q \in Int /\ ~(p > q)
      BY <2>2, <2>6
    <3> HIDE DEF p, q
    <3> QED
      BY <3>1, FS_Interval
  <2>11. Cardinality(c) = PageSlots \/ (Cardinality(c) < PageSlots /\ End(c) = End(run))
    <3>1. CASE p + PageSlots - 1 <= b
      BY <2>2, <2>6, <2>10, <3>1
    <3>2. CASE ~(p + PageSlots - 1 <= b)
      <4>1. q = b
        BY <3>2
      <4>2. b - p + 1 < PageSlots
        BY <2>2, <2>6, <3>2
      <4> QED
        BY <2>3, <2>8, <2>10, <4>1, <4>2
    <3> QED
      BY <3>1, <3>2
  <2> HIDE DEF c, run
  <2> QED
    BY <2>4, <2>7, <2>9, <2>11 DEF Split
<1> QED
  BY <1>1 DEF Split

\* What a listing does not credit stays missing, and nothing else is missing.
LEMMA UncreditedBounds ==
  ASSUME NEW kind, NEW missing, NEW listing
  PROVE  /\ Uncredited(kind, missing, listing) \subseteq missing
         /\ missing \subseteq Uncredited(kind, missing, listing) \cup (UNION listing)
<1>1. \A piece : Trim(kind, piece) \subseteq piece
  BY DEF Trim
<1>2. ASSUME NEW x \in missing, x \notin Uncredited(kind, missing, listing)
      PROVE  x \in UNION listing
  <2>1. PICK c \in listing, run \in Runs(missing) : x \in Trim(kind, c \cap run)
    BY <1>2 DEF Uncredited
  <2>2. x \in c \cap run
    BY <1>1, <2>1
  <2> QED
    BY <2>1, <2>2
<1>3. Uncredited(kind, missing, listing) \subseteq missing
  BY DEF Uncredited
<1> QED
  BY <1>2, <1>3

\* The chunk a job works on is one of its chunks.
LEMMA ChunkIsChunk ==
  ASSUME NEW j \in Jobs, job[j].chunks \subseteq Ranges, job[j].chunks # {}
  PROVE  Chunk(j) \in job[j].chunks
<1>1. ASSUME NEW c \in Ranges PROVE Least(c) \in Nat
  <2>1. PICK a \in Slots, b \in Slots : a <= b /\ c = a .. b
    BY RangeBounds
  <2>2. a \in Nat /\ b \in Nat
    BY SizesAssumption DEF Slots
  <2> QED
    BY <2>1, <2>2, Bounds
<1> DEFINE T == {Least(c) : c \in job[j].chunks}
<1>2. T \subseteq Nat /\ T # {}
  BY <1>1
<1>3. PICK t \in T : \A u \in T : t <= u
  <2> HIDE DEF T
  <2> QED
    BY <1>2, LeastExists
<1>4. \E c \in job[j].chunks : \A d \in job[j].chunks : Least(c) <= Least(d)
  BY <1>3
<1> QED
  BY <1>4 DEF Chunk

-----------------------------------------------------------------------------
(* The gate's queue. *)

\* A queue that is not empty has a waiter to serve.
LEMMA ServedWaits ==
  ASSUME queue \in Seq(Jobs), queue # <<>>
  PROVE  Served \in DOMAIN queue
<1>1. DOMAIN queue = 1 .. Len(queue) /\ Len(queue) \in Nat \ {0}
  OBVIOUS
<1> DEFINE U == {i \in DOMAIN queue : queue[i] \in Urgent}
<1>2. \E i \in DOMAIN queue : \A k \in (DOMAIN queue) \ {i} : Ahead(i, k)
  <2>1. CASE U # {}
    <3>1. PICK i \in U : \A k \in U : i <= k
      <4>1. U \subseteq Nat
        BY <1>1
      <4> HIDE DEF U
      <4> QED
        BY <2>1, <4>1, LeastExists
    <3>2. ASSUME NEW k \in (DOMAIN queue) \ {i} PROVE Ahead(i, k)
      <4>1. k \in U => i < k
        BY <1>1, <3>1
      <4> QED
        BY <4>1 DEF Ahead
    <3> QED
      BY <3>2
  <2>2. CASE U = {}
    <3>1. ASSUME NEW k \in (DOMAIN queue) \ {1} PROVE Ahead(1, k)
      <4>1. 1 \in DOMAIN queue /\ 1 < k
        BY <1>1
      <4> QED
        BY <2>2, <4>1 DEF Ahead
    <3>2. 1 \in DOMAIN queue
      BY <1>1
    <3> QED
      BY <3>1, <3>2
  <2> QED
    BY <2>1, <2>2
<1> QED
  BY <1>2 DEF Served

\* What is left of a queue when the waiter at i is taken out of it.
LEMMA RemoveAtEntries ==
  ASSUME NEW s \in Seq(Jobs), NEW i \in DOMAIN s
  PROVE  /\ RemoveAt(s, i) \in Seq(Jobs)
         /\ DOMAIN RemoveAt(s, i) = 1 .. (Len(s) - 1)
         /\ \A k \in 1 .. (Len(s) - 1) :
              RemoveAt(s, i)[k] = IF k < i THEN s[k] ELSE s[k + 1]
<1> DEFINE a == SubSeq(s, 1, i - 1)
           b == SubSeq(s, i + 1, Len(s))
<1>1. i \in 1 .. Len(s) /\ Len(s) \in Nat /\ Len(s) >= 1
  OBVIOUS
<1>2. /\ a \in Seq(Jobs) /\ Len(a) = i - 1
      /\ \A k \in 1 .. (i - 1) : a[k] = s[k]
  BY <1>1
<1>3. /\ b \in Seq(Jobs) /\ Len(b) = Len(s) - i
      /\ \A k \in 1 .. (Len(s) - i) : b[k] = s[i + k]
  BY <1>1
<1>4. RemoveAt(s, i) = a \o b
  BY DEF RemoveAt
<1> HIDE DEF a, b
<1>5. a \o b \in Seq(Jobs) /\ Len(a \o b) = Len(s) - 1
  BY <1>1, <1>2, <1>3
<1>6. ASSUME NEW k \in 1 .. (Len(s) - 1)
      PROVE  (a \o b)[k] = IF k < i THEN s[k] ELSE s[k + 1]
  <2>1. CASE k < i
    BY <1>1, <1>2, <1>3, <2>1
  <2>2. CASE ~(k < i)
    <3>1. k - Len(a) \in 1 .. (Len(s) - i) /\ i + (k - Len(a)) = k + 1
      BY <1>1, <1>2, <2>2
    <3>2. (a \o b)[k] = b[k - Len(a)]
      BY <1>1, <1>2, <1>3, <2>2
    <3>3. b[k - Len(a)] = s[k + 1]
      BY <1>3, <3>1
    <3> QED
      BY <2>2, <3>2, <3>3
  <2> QED
    BY <2>1, <2>2
<1>7. DOMAIN (a \o b) = 1 .. (Len(s) - 1)
  <2>1. DOMAIN (a \o b) = 1 .. Len(a \o b)
    BY <1>5
  <2> QED
    BY <1>5, <2>1, Zenon
<1>8. \A k \in 1 .. (Len(s) - 1) : (a \o b)[k] = IF k < i THEN s[k] ELSE s[k + 1]
  BY <1>6, Zenon
<1>9. a \o b \in Seq(Jobs)
  BY <1>5, Zenon
<1> QED
  BY <1>4, <1>7, <1>8, <1>9, Zenon

\* The others keep waiting, once each.
LEMMA RemoveAtTakesOne ==
  ASSUME NEW s \in Seq(Jobs), NEW i \in DOMAIN s, IsInjective(s)
  PROVE  /\ ToSet(RemoveAt(s, i)) = ToSet(s) \ {s[i]}
         /\ IsInjective(RemoveAt(s, i))
<1> DEFINE r == RemoveAt(s, i)
           At(k) == IF k < i THEN k ELSE k + 1
<1>a. i \in 1 .. Len(s) /\ Len(s) \in Nat /\ DOMAIN s = 1 .. Len(s)
  OBVIOUS
<1>b. /\ DOMAIN r = 1 .. (Len(s) - 1)
      /\ \A k \in 1 .. (Len(s) - 1) : r[k] = IF k < i THEN s[k] ELSE s[k + 1]
  BY RemoveAtEntries, Zenon
<1> HIDE DEF r
<1>1. /\ i \in 1 .. Len(s) /\ Len(s) \in Nat /\ DOMAIN s = 1 .. Len(s)
      /\ DOMAIN r = 1 .. (Len(s) - 1)
      /\ \A k \in 1 .. (Len(s) - 1) : r[k] = IF k < i THEN s[k] ELSE s[k + 1]
  BY <1>a, <1>b
<1>2. \A k \in DOMAIN r : At(k) \in (DOMAIN s) \ {i} /\ r[k] = s[At(k)]
  BY <1>1
<1>3. \A m \in (DOMAIN s) \ {i} : \E k \in DOMAIN r : At(k) = m
  <2> SUFFICES ASSUME NEW m \in (DOMAIN s) \ {i} PROVE \E k \in DOMAIN r : At(k) = m
    OBVIOUS
  <2>1. CASE m < i
    BY <1>1, <2>1
  <2>2. CASE ~(m < i)
    <3>1. m - 1 \in DOMAIN r /\ At(m - 1) = m
      BY <1>1, <2>2
    <3> QED
      BY <3>1
  <2> QED
    BY <2>1, <2>2
<1>4. \A k, m \in DOMAIN r : At(k) = At(m) => k = m
  BY <1>1
<1> HIDE DEF At
<1>5. \A m \in (DOMAIN s) \ {i} : s[m] # s[i]
  BY DEF IsInjective
<1>6. ToSet(r) = ToSet(s) \ {s[i]}
  <2>1. ASSUME NEW k \in DOMAIN r PROVE r[k] \in ToSet(s) \ {s[i]}
    BY <1>2, <1>5 DEF ToSet
  <2>2. ASSUME NEW m \in DOMAIN s, s[m] # s[i] PROVE \E k \in DOMAIN r : r[k] = s[m]
    BY <1>2, <1>3, <2>2
  <2> QED
    BY <2>1, <2>2 DEF ToSet
<1>7. IsInjective(r)
  BY <1>2, <1>4 DEF IsInjective
<1> QED
  BY <1>6, <1>7 DEF r

-----------------------------------------------------------------------------
(***************************************************************************)
(* The inductive invariant.                                                *)
(*                                                                         *)
(* That a completed job is stored rests on what it still owes (Promise):   *)
(* each bar of its range is stored, in a chunk it has not written yet, or  *)
(* in the gap it is still planning.  A listing pays a debt because what a  *)
(* listing named stays covered, however old it is; a chunk pays because it *)
(* is written before it is struck off (WriterAgrees).  The gate and the    *)
(* single-flight map are inductive once each job is known to be where its  *)
(* record says (Placed).                                                   *)
(***************************************************************************)
Looking == {"plan", "missed", "listed"}
OnCell == {"awaiting", "fetching", "leaving"}
Gap == {"gap", "gapAgain"}

JobRecord == [pc : Pcs, kind : {"venue", "derived"}, range : Ranges \cup {{}},
              look : {"gap", "gapAgain", "warm", "warmAgain"},
              listing : SUBSET Ranges, missing : SUBSET Slots, chunks : SUBSET Ranges,
              attempt : 0 .. MaxAttempts, cell : Jobs \cup {NoCell},
              got : {"none", "bars", "retryable", "fatal"}, seen : (0 .. Horizon) \cup {NoEdge},
              cancelled : BOOLEAN, outcome : {"none", "completed", "failed", "cancelled"}]

LoaderTypes ==
  /\ edge \in (0 .. Horizon) \cup {NoEdge}
  /\ history \in Histories
  /\ coverage \in (SUBSET Ranges) \cup {NoCoverage}
  /\ job \in [Jobs -> JobRecord]
  /\ capacity \in Capacities /\ free \in 0 .. capacity
  /\ queue \in Seq(Jobs)
  /\ flight \in [Ranges -> Jobs \cup {NoCell}]
  /\ cell \in [Jobs -> [ready : BOOLEAN, runner : BOOLEAN]]
  /\ asked \in 0 .. MaxAsked

\* What the place of a job's task says about its record.
Placed(n) ==
  /\ n.missing \subseteq n.range
  /\ n.pc \notin Looking => n.missing = {}
  /\ n.pc \in Looking \cup {"none", "ended"} => n.chunks = {}
  /\ n.pc \in Holding \cup {"queued"} => n.chunks # {}
  /\ n.cell # NoCell <=> n.pc \in OnCell
  /\ n.pc \in Looking \/ n.look \in Gap
  /\ n.pc = "backoff" => n.attempt < MaxAttempts
  /\ n.pc # "ended" => n.outcome = "none"

\* Every bar a job was asked for is stored, in a chunk to come, or in the gap it plans.
Promise(n, there, stored) ==
  \/ n.outcome \in {"failed", "cancelled"}
  \/ n.range \cap there \subseteq
       stored \cup (UNION n.chunks) \cup (IF n.look \in Gap THEN n.missing ELSE {})

\* A write is under way only for a job that waits for it, and a chunk is stored before its edge moves.
WriterAgrees(j) ==
  /\ writer[j].stage # "idle" => job[j].pc = "writing"
  /\ writer[j].stage \in {"listed", "placed"} => writer[j].range = Chunk(j)
  /\ ~deleted =>
       /\ writer[j].stage = "written" => Chunk(j) \subseteq Store!Covered
       /\ job[j].pc \in {"edge", "edgeRead", "commit"} => Bars(j) \subseteq Store!Covered

JobsPlaced == \A j \in Jobs : Placed(job[j])
JobsPromise == ~deleted => \A j \in Jobs : Promise(job[j], history, Store!Covered)
JobsWrite == \A j \in Jobs : WriterAgrees(j)

LoaderInv ==
  /\ StoreP!IInv /\ LoaderTypes /\ JobsPlaced /\ JobsPromise /\ JobsWrite
  /\ CacheNeverOverclaims /\ GateAgrees /\ FlightAgrees

-----------------------------------------------------------------------------
(* The steps: which job's record changes, and into what. *)

\* Only the record of job j changes.
Moves(j) ==
  /\ job' \in [Jobs -> JobRecord]
  /\ \A k \in Jobs \ {j} : job'[k] = job[k]

\* The same, but a waiter may be handed the slot of job j.
Hands(j) ==
  /\ job' \in [Jobs -> JobRecord]
  /\ \A k \in Jobs \ {j} :
       \/ job'[k] = job[k]
       \/ job[k].pc = "queued" /\ job'[k] = [job[k] EXCEPT !.pc = "fetch"]

\* What a job is to fetch, and how it ended, is as before.
Same(n, m) ==
  /\ m.kind = n.kind /\ m.range = n.range /\ m.look = n.look /\ m.missing = n.missing
  /\ m.chunks = n.chunks /\ m.outcome = n.outcome /\ m.listing = n.listing

\* Job j goes from one place to another and keeps what it is to fetch.
Works(j, from, to) ==
  /\ Moves(j) /\ Same(job[j], job'[j])
  /\ job[j].pc = from /\ job'[j].pc = to

\* Replacing one record by another moves one job.
LEMMA OneMoves ==
  ASSUME LoaderTypes, NEW j \in Jobs, NEW n \in JobRecord, job' = [job EXCEPT ![j] = n]
  PROVE  Moves(j) /\ job'[j] = n
BY DEF LoaderTypes, Moves

\* A record stays one whatever its place, attempt, cell, answer, edge and cancellation become.
LEMMA RecordChanges ==
  ASSUME NEW n \in JobRecord, NEW p \in Pcs, NEW a \in 0 .. MaxAttempts, NEW c \in Jobs \cup {NoCell},
         NEW g \in {"none", "bars", "retryable", "fatal"}, NEW e \in (0 .. Horizon) \cup {NoEdge},
         NEW b \in BOOLEAN, NEW m,
         m = [n EXCEPT !.pc = p, !.attempt = a, !.cell = c, !.got = g, !.seen = e, !.cancelled = b]
  PROVE  m \in JobRecord /\ Same(n, m) /\ m.pc = p /\ m.cell = c /\ m.attempt = a
BY DEF JobRecord, Same

\* A look that finds no cached coverage.
LEMMA LookUpMisses ==
  ASSUME LoaderTypes, NEW j \in Jobs, LookUp(j), coverage = NoCoverage
  PROVE  Works(j, "plan", "missed") /\ job'[j].cell = job[j].cell
<1> DEFINE n == [job[j] EXCEPT !.pc = "missed"]
<1>1. job[j] \in JobRecord /\ "missed" \in Pcs
  BY DEF LoaderTypes, Pcs, Holding
<1>2. job' = [job EXCEPT ![j] = n] /\ job[j].pc = "plan"
  BY DEF LookUp, LoaderTypes
<1>3. n \in JobRecord /\ Same(job[j], n) /\ n.pc = "missed" /\ n.cell = job[j].cell
  BY <1>1 DEF JobRecord, Same
<1> HIDE DEF n
<1> QED
  BY <1>2, <1>3, OneMoves DEF Works

\* A job of the next chunk takes a free slot.
LEMMA TurnWorks ==
  ASSUME LoaderTypes, NEW j \in Jobs, NextChunk(j), free > 0
  PROVE  Works(j, "turn", "fetch") /\ job'[j].cell = job[j].cell
<1> DEFINE n == [job[j] EXCEPT !.pc = "fetch", !.attempt = 1]
<1>1. job[j] \in JobRecord /\ "fetch" \in Pcs /\ 1 \in 0 .. MaxAttempts
  <2>1. 1 \in 0 .. MaxAttempts
    BY SizesAssumption
  <2> QED
    BY <2>1 DEF LoaderTypes, Pcs, Holding
<1>2. job' = [job EXCEPT ![j] = n] /\ job[j].pc = "turn"
  <2>1. /\ job[j].pc = "turn"
        /\ job' = [job EXCEPT ![j].pc = "fetch", ![j].attempt = 1]
    BY DEF NextChunk
  <2> QED
    BY <2>1 DEF LoaderTypes
<1>3. n \in JobRecord /\ Same(job[j], n) /\ n.pc = "fetch" /\ n.cell = job[j].cell
  BY <1>1 DEF JobRecord, Same
<1> HIDE DEF n
<1> QED
  BY <1>2, <1>3, OneMoves DEF Works

\* A job of the next chunk waits for a slot.
LEMMA TurnWaits ==
  ASSUME LoaderTypes, NEW j \in Jobs, NextChunk(j), free = 0
  PROVE  Works(j, "turn", "queued") /\ job'[j].cell = job[j].cell
<1> DEFINE n == [job[j] EXCEPT !.pc = "queued", !.attempt = 1]
<1>1. job[j] \in JobRecord /\ "queued" \in Pcs /\ 1 \in 0 .. MaxAttempts
  <2>1. 1 \in 0 .. MaxAttempts
    BY SizesAssumption
  <2> QED
    BY <2>1 DEF LoaderTypes, Pcs, Holding
<1>2. job' = [job EXCEPT ![j] = n] /\ job[j].pc = "turn"
  <2>1. /\ job[j].pc = "turn"
        /\ job' = [job EXCEPT ![j].pc = "queued", ![j].attempt = 1]
    BY DEF NextChunk
  <2> QED
    BY <2>1 DEF LoaderTypes
<1>3. n \in JobRecord /\ Same(job[j], n) /\ n.pc = "queued" /\ n.cell = job[j].cell
  BY <1>1 DEF JobRecord, Same
<1> HIDE DEF n
<1> QED
  BY <1>2, <1>3, OneMoves DEF Works

\* A fetch starts.
LEMMA StartFetchWorks ==
  ASSUME LoaderTypes, NEW j \in Jobs, StartFetch(j)
  PROVE  Works(j, "awaiting", "fetching") /\ job'[j].cell = job[j].cell
<1> DEFINE n == [job[j] EXCEPT !.pc = "fetching"]
<1>1. job[j] \in JobRecord /\ "fetching" \in Pcs
  BY DEF LoaderTypes, Pcs, Holding
<1>2. job' = [job EXCEPT ![j] = n] /\ job[j].pc = "awaiting"
  BY DEF StartFetch, LoaderTypes
<1>3. n \in JobRecord /\ Same(job[j], n) /\ n.pc = "fetching" /\ n.cell = job[j].cell
  BY <1>1 DEF JobRecord, Same
<1> HIDE DEF n
<1> QED
  BY <1>2, <1>3, OneMoves DEF Works

\* A fetch is answered.
LEMMA FetchOkWorks ==
  ASSUME LoaderTypes, NEW j \in Jobs, FetchOk(j)
  PROVE  Works(j, "fetching", "leaving") /\ job'[j].cell = job[j].cell
<1> DEFINE n == [job[j] EXCEPT !.pc = "leaving", !.got = "bars"]
<1>1. job[j] \in JobRecord /\ "leaving" \in Pcs
  BY DEF LoaderTypes, Pcs, Holding
<1>2. job' = [job EXCEPT ![j] = n] /\ job[j].pc = "fetching"
  BY DEF FetchOk, LoaderTypes
<1>3. n \in JobRecord /\ Same(job[j], n) /\ n.pc = "leaving" /\ n.cell = job[j].cell
  BY <1>1 DEF JobRecord, Same
<1> HIDE DEF n
<1> QED
  BY <1>2, <1>3, OneMoves DEF Works

\* A fetch fails.
LEMMA FetchFailsWorks ==
  ASSUME LoaderTypes, NEW j \in Jobs, FetchFails(j)
  PROVE  Works(j, "fetching", "leaving") /\ job'[j].cell = job[j].cell
<1>1. PICK error \in {"retryable", "fatal"} :
        job' = [job EXCEPT ![j].pc = "leaving", ![j].got = error]
  BY DEF FetchFails
<1> DEFINE n == [job[j] EXCEPT !.pc = "leaving", !.got = error]
<1>2. job[j] \in JobRecord /\ "leaving" \in Pcs
  BY DEF LoaderTypes, Pcs, Holding
<1>3. job' = [job EXCEPT ![j] = n] /\ job[j].pc = "fetching"
  BY <1>1 DEF FetchFails, LoaderTypes
<1>4. n \in JobRecord /\ Same(job[j], n) /\ n.pc = "leaving" /\ n.cell = job[j].cell
  BY <1>2 DEF JobRecord, Same
<1> HIDE DEF n
<1> QED
  BY <1>3, <1>4, OneMoves DEF Works

\* A joined fetch has been answered.
LEMMA ShareResultWorks ==
  ASSUME LoaderTypes, NEW j \in Jobs, ShareResult(j)
  PROVE  Works(j, "awaiting", "leaving") /\ job'[j].cell = job[j].cell
<1> DEFINE n == [job[j] EXCEPT !.pc = "leaving", !.got = "bars"]
<1>1. job[j] \in JobRecord /\ "leaving" \in Pcs
  BY DEF LoaderTypes, Pcs, Holding
<1>2. job' = [job EXCEPT ![j] = n] /\ job[j].pc = "awaiting"
  BY DEF ShareResult, LoaderTypes
<1>3. n \in JobRecord /\ Same(job[j], n) /\ n.pc = "leaving" /\ n.cell = job[j].cell
  BY <1>1 DEF JobRecord, Same
<1> HIDE DEF n
<1> QED
  BY <1>2, <1>3, OneMoves DEF Works

\* A fetch is tried again.
LEMMA RetryWorks ==
  ASSUME LoaderTypes, NEW j \in Jobs, Retry(j), Placed(job[j])
  PROVE  Works(j, "backoff", "fetch") /\ job'[j].cell = job[j].cell
<1> DEFINE n == [job[j] EXCEPT !.pc = "fetch", !.attempt = job[j].attempt + 1]
<1>1. /\ job[j] \in JobRecord /\ "fetch" \in Pcs
      /\ job[j].pc = "backoff" => job[j].attempt + 1 \in 0 .. MaxAttempts
  <2>1. job[j] \in JobRecord /\ "fetch" \in Pcs
    BY DEF LoaderTypes, Pcs, Holding
  <2>2. job[j].attempt \in 0 .. MaxAttempts /\ MaxAttempts \in Nat
    BY <2>1, SizesAssumption DEF JobRecord
  <2> QED
    BY <2>1, <2>2 DEF Placed
<1>2. job' = [job EXCEPT ![j] = n] /\ job[j].pc = "backoff"
  BY DEF Retry, LoaderTypes
<1>3. n \in JobRecord /\ Same(job[j], n) /\ n.pc = "fetch" /\ n.cell = job[j].cell
  BY <1>1, <1>2 DEF JobRecord, Same
<1> HIDE DEF n
<1> QED
  BY <1>2, <1>3, OneMoves DEF Works

\* Nothing is to be written.
LEMMA SkipWriteWorks ==
  ASSUME LoaderTypes, NEW j \in Jobs, SkipWrite(j)
  PROVE  Works(j, "write", "edge") /\ job'[j].cell = job[j].cell
<1> DEFINE n == [job[j] EXCEPT !.pc = "edge"]
<1>1. job[j] \in JobRecord /\ "edge" \in Pcs
  BY DEF LoaderTypes, Pcs, Holding
<1>2. job' = [job EXCEPT ![j] = n] /\ job[j].pc = "write"
  BY DEF SkipWrite, LoaderTypes
<1>3. n \in JobRecord /\ Same(job[j], n) /\ n.pc = "edge" /\ n.cell = job[j].cell
  BY <1>1 DEF JobRecord, Same
<1> HIDE DEF n
<1> QED
  BY <1>2, <1>3, OneMoves DEF Works

\* The write of a chunk begins.
LEMMA StartWriteWorks ==
  ASSUME LoaderTypes, NEW j \in Jobs, StartWrite(j)
  PROVE  Works(j, "write", "writing") /\ job'[j].cell = job[j].cell
<1> DEFINE n == [job[j] EXCEPT !.pc = "writing"]
<1>1. job[j] \in JobRecord /\ "writing" \in Pcs
  BY DEF LoaderTypes, Pcs, Holding
<1>2. job' = [job EXCEPT ![j] = n] /\ job[j].pc = "write"
  BY DEF StartWrite, LoaderTypes
<1>3. n \in JobRecord /\ Same(job[j], n) /\ n.pc = "writing" /\ n.cell = job[j].cell
  BY <1>1 DEF JobRecord, Same
<1> HIDE DEF n
<1> QED
  BY <1>2, <1>3, OneMoves DEF Works

\* The write of a chunk has ended well.
LEMMA EndWriteWorks ==
  ASSUME LoaderTypes, NEW j \in Jobs, EndWrite(j), writer[j].stage = "written"
  PROVE  Works(j, "writing", "edge") /\ job'[j].cell = job[j].cell
<1> DEFINE n == [job[j] EXCEPT !.pc = "edge"]
<1>1. job[j] \in JobRecord /\ "edge" \in Pcs
  BY DEF LoaderTypes, Pcs, Holding
<1>2. job' = [job EXCEPT ![j] = n] /\ job[j].pc = "writing"
  BY DEF EndWrite, LoaderTypes
<1>3. n \in JobRecord /\ Same(job[j], n) /\ n.pc = "edge" /\ n.cell = job[j].cell
  BY <1>1 DEF JobRecord, Same
<1> HIDE DEF n
<1> QED
  BY <1>2, <1>3, OneMoves DEF Works

\* The recorded left edge is read.
LEMMA ReadEdgeWorks ==
  ASSUME LoaderTypes, NEW j \in Jobs, ReadEdge(j)
  PROVE  Works(j, "edge", "edgeRead") /\ job'[j].cell = job[j].cell
<1> DEFINE n == [job[j] EXCEPT !.pc = "edgeRead", !.seen = edge]
<1>1. job[j] \in JobRecord /\ "edgeRead" \in Pcs /\ edge \in (0 .. Horizon) \cup {NoEdge}
  BY DEF LoaderTypes, Pcs, Holding
<1>2. job' = [job EXCEPT ![j] = n] /\ job[j].pc = "edge"
  BY DEF ReadEdge, LoaderTypes
<1>3. n \in JobRecord /\ Same(job[j], n) /\ n.pc = "edgeRead" /\ n.cell = job[j].cell
  BY <1>1 DEF JobRecord, Same
<1> HIDE DEF n
<1> QED
  BY <1>2, <1>3, OneMoves DEF Works

\* The recorded left edge has been looked after.
LEMMA MoveEdgeWorks ==
  ASSUME LoaderTypes, NEW j \in Jobs, MoveEdge(j)
  PROVE  Works(j, "edgeRead", "commit") /\ job'[j].cell = job[j].cell
<1> DEFINE n == [job[j] EXCEPT !.pc = "commit", !.seen = NoEdge]
<1>1. job[j] \in JobRecord /\ "commit" \in Pcs
  BY DEF LoaderTypes, Pcs, Holding
<1>2. job' = [job EXCEPT ![j] = n] /\ job[j].pc = "edgeRead"
  BY DEF MoveEdge, LoaderTypes
<1>3. n \in JobRecord /\ Same(job[j], n) /\ n.pc = "commit" /\ n.cell = job[j].cell
  BY <1>1 DEF JobRecord, Same
<1> HIDE DEF n
<1> QED
  BY <1>2, <1>3, OneMoves DEF Works

-----------------------------------------------------------------------------
(* Steps that change what a job is to fetch. *)

\* A record that holds no job.
LEMMA NoJobRecord ==
  /\ NoJob \in JobRecord /\ Placed(NoJob)
  /\ \A there, stored : Promise(NoJob, there, stored)
  /\ NoJob.pc = "none" /\ NoJob.look = "gap" /\ NoJob.outcome = "none"
  /\ NoJob.listing = {} /\ NoJob.missing = {} /\ NoJob.chunks = {} /\ NoJob.cell = NoCell
<1>1. "none" \in Pcs /\ 0 \in 0 .. MaxAttempts
  BY SizesAssumption DEF Pcs
<1>2. NoJob \in JobRecord
  BY <1>1 DEF JobRecord, NoJob
<1>3. Placed(NoJob)
  BY DEF NoJob, Placed, Looking, Holding, OnCell, Gap
<1> QED
  BY <1>2, <1>3 DEF NoJob, Promise

\* What the record of a job that ended says.
LEMMA EndedRecord ==
  ASSUME LoaderTypes, NEW j \in Jobs, NEW outcome \in {"completed", "failed", "cancelled"}
  PROVE  LET n == Ended(j, outcome) IN
         /\ n \in JobRecord /\ Placed(n) /\ n.pc = "ended" /\ n.outcome = outcome
         /\ n.range = job[j].range /\ n.listing = {} /\ n.chunks = {} /\ n.cell = NoCell
<1> DEFINE n == Ended(j, outcome)
<1>1. /\ job[j].kind \in {"venue", "derived"} /\ job[j].range \in Ranges \cup {{}}
      /\ "ended" \in Pcs /\ NoJob \in JobRecord
  BY NoJobRecord DEF LoaderTypes, JobRecord, Pcs
<1>2. n = [NoJob EXCEPT !.pc = "ended", !.kind = job[j].kind, !.range = job[j].range,
                        !.outcome = outcome]
  BY DEF Ended
<1> HIDE DEF n
<1>3. n \in JobRecord
  BY <1>1, <1>2 DEF JobRecord
<1>4. /\ n.pc = "ended" /\ n.range = job[j].range /\ n.outcome = outcome
      /\ n.listing = {} /\ n.missing = {} /\ n.chunks = {} /\ n.cell = NoCell /\ n.look = "gap"
  BY <1>1, <1>2, NoJobRecord DEF JobRecord
<1>5. Placed(n)
  BY <1>4 DEF Placed, Looking, Holding, OnCell, Gap
<1> QED
  BY <1>3, <1>4, <1>5 DEF n

\* A job that is asked for plans its whole range.
LEMMA EnsuredRecord ==
  ASSUME NEW request \in Requests
  PROVE  LET n == [NoJob EXCEPT !.pc = "plan", !.kind = request.kind,
                                !.range = request.range, !.missing = request.range]
         IN  /\ n \in JobRecord /\ Placed(n) /\ n.pc = "plan" /\ n.listing = {}
             /\ n.range = n.missing /\ n.look = "gap" /\ n.cell = NoCell
<1> DEFINE n == [NoJob EXCEPT !.pc = "plan", !.kind = request.kind,
                              !.range = request.range, !.missing = request.range]
<1>1. /\ request.kind \in {"venue", "derived"} /\ request.range \in Ranges
      /\ "plan" \in Pcs /\ NoJob \in JobRecord
  BY NoJobRecord, LoaderAssumption DEF Pcs
<1>2. request.range \subseteq Slots
  <2>1. PICK a \in Slots, b \in Slots : request.range = a .. b
    BY <1>1 DEF Ranges
  <2>2. Horizon \in Nat
    BY SizesAssumption
  <2> QED
    BY <2>1, <2>2 DEF Slots
<1>3. n \in JobRecord
  BY <1>1, <1>2 DEF JobRecord
<1>4. /\ n.pc = "plan" /\ n.range = request.range /\ n.outcome = "none"
      /\ n.listing = {} /\ n.missing = request.range /\ n.chunks = {} /\ n.cell = NoCell
      /\ n.look = "gap"
  BY <1>1, NoJobRecord DEF JobRecord
<1> HIDE DEF n
<1>5. Placed(n)
  BY <1>4 DEF Placed, Looking, Holding, OnCell, Gap
<1> QED
  BY <1>3, <1>4, <1>5 DEF n

\* A listing that is credited leaves a promise that was kept kept.
LEMMA CreditedRecord ==
  ASSUME LoaderTypes, NEW j \in Jobs, Placed(job[j]), job[j].pc \in Looking,
         NEW listing \in SUBSET Ranges
  PROVE  LET n == Credited(j, listing) IN
         /\ n \in JobRecord /\ Placed(n) /\ n.pc \in {"plan", "turn", "ended"}
         /\ n.listing = {} /\ n.cell = NoCell
         /\ \A there, stored :
              Promise(job[j], there, stored) /\ UNION listing \subseteq stored
                => Promise(n, there, stored)
<1> DEFINE m == job[j]
           left == Uncredited(m.kind, m.missing, listing)
           again == m.kind = "derived" /\ left # {}
           n == Credited(j, listing)
<1>1. m \in JobRecord /\ "plan" \in Pcs /\ "turn" \in Pcs
  BY DEF LoaderTypes, Pcs
<1>2. left \subseteq m.missing /\ m.missing \subseteq left \cup (UNION listing)
  BY UncreditedBounds
<1>3. Placed(m) /\ m.pc \in Looking
  OBVIOUS
<1>4. /\ m.missing \subseteq Slots /\ m.look \in {"gap", "gapAgain", "warm", "warmAgain"}
      /\ m.chunks = {} /\ m.cell = NoCell /\ m.outcome = "none"
  BY <1>1, <1>3 DEF JobRecord, Placed, Looking, OnCell
<1>5. left \subseteq UNION Split(left) /\ Split(left) \subseteq Ranges
  <2>1. left \subseteq Slots
    BY <1>2, <1>4
  <2> HIDE DEF left
  <2> QED
    BY <2>1, SplitCovers
<1>6. n = CASE m.look = "gap" /\ again ->
                 [m EXCEPT !.pc = "plan", !.look = "gapAgain", !.missing = left, !.listing = {}]
            [] m.look = "gapAgain" \/ (m.look = "gap" /\ ~ again) ->
                 [m EXCEPT !.pc = "turn", !.missing = {}, !.listing = {}, !.chunks = Split(left)]
            [] m.look = "warm" /\ again ->
                 [m EXCEPT !.pc = "plan", !.look = "warmAgain", !.missing = left, !.listing = {}]
            [] OTHER -> Ended(j, "completed")
  BY DEF Credited
<1> HIDE DEF m, left, n
<1>7. ASSUME NEW look \in {"gapAgain", "warmAgain"}, look = "gapAgain" <=> m.look = "gap",
             m.look \in {"gap", "warm"},
             n = [m EXCEPT !.pc = "plan", !.look = look, !.missing = left, !.listing = {}]
      PROVE  /\ n \in JobRecord /\ Placed(n) /\ n.pc = "plan" /\ n.listing = {} /\ n.cell = NoCell
             /\ \A there, stored :
                  Promise(m, there, stored) /\ UNION listing \subseteq stored
                    => Promise(n, there, stored)
  <2>1. n \in JobRecord
    BY <1>1, <1>2, <1>4, <1>7 DEF JobRecord
  <2>2. /\ n.pc = "plan" /\ n.look = look /\ n.missing = left /\ n.listing = {}
        /\ n.range = m.range /\ n.chunks = {} /\ n.cell = NoCell /\ n.outcome = "none"
    BY <1>1, <1>4, <1>7 DEF JobRecord
  <2>3. Placed(n)
    <3>1. m.missing \subseteq m.range
      BY <1>3 DEF Placed
    <3> QED
      BY <1>2, <2>2, <3>1 DEF Placed, Looking, Holding, OnCell
  <2>4. ASSUME NEW there, NEW stored, Promise(m, there, stored), UNION listing \subseteq stored
        PROVE  Promise(n, there, stored)
    <3>1. m.range \cap there \subseteq
            stored \cup (UNION m.chunks) \cup (IF m.look \in Gap THEN m.missing ELSE {})
      BY <1>4, <2>4 DEF Promise
    <3>2. CASE m.look = "gap"
      BY <1>2, <1>4, <1>7, <2>2, <2>4, <3>1, <3>2 DEF Promise, Gap
    <3>3. CASE m.look = "warm"
      BY <1>4, <1>7, <2>2, <3>1, <3>3 DEF Promise, Gap
    <3> QED
      BY <1>7, <3>2, <3>3
  <2> QED
    BY <2>1, <2>2, <2>3, <2>4
<1>8. ASSUME m.look \in Gap,
             n = [m EXCEPT !.pc = "turn", !.missing = {}, !.listing = {}, !.chunks = Split(left)]
      PROVE  /\ n \in JobRecord /\ Placed(n) /\ n.pc = "turn" /\ n.listing = {} /\ n.cell = NoCell
             /\ \A there, stored :
                  Promise(m, there, stored) /\ UNION listing \subseteq stored
                    => Promise(n, there, stored)
  <2>1. n \in JobRecord
    BY <1>1, <1>5, <1>8 DEF JobRecord
  <2>2. /\ n.pc = "turn" /\ n.look = m.look /\ n.missing = {} /\ n.listing = {}
        /\ n.range = m.range /\ n.chunks = Split(left) /\ n.cell = NoCell /\ n.outcome = "none"
    BY <1>1, <1>4, <1>8 DEF JobRecord
  <2>3. Placed(n)
    BY <1>8, <2>2 DEF Placed, Looking, Holding, OnCell
  <2>4. ASSUME NEW there, NEW stored, Promise(m, there, stored), UNION listing \subseteq stored
        PROVE  Promise(n, there, stored)
    <3>1. m.range \cap there \subseteq stored \cup m.missing
      BY <1>4, <1>8, <2>4 DEF Promise
    <3> QED
      BY <1>2, <1>5, <2>2, <2>4, <3>1 DEF Promise
  <2> QED
    BY <2>1, <2>2, <2>3, <2>4
<1>9. ASSUME m.look \notin Gap, n = Ended(j, "completed")
      PROVE  /\ n \in JobRecord /\ Placed(n) /\ n.pc = "ended" /\ n.listing = {} /\ n.cell = NoCell
             /\ \A there, stored :
                  Promise(m, there, stored) /\ UNION listing \subseteq stored
                    => Promise(n, there, stored)
  <2>1. /\ n \in JobRecord /\ Placed(n) /\ n.pc = "ended" /\ n.outcome = "completed"
        /\ n.range = m.range /\ n.listing = {} /\ n.chunks = {} /\ n.cell = NoCell
    BY <1>9, EndedRecord DEF m
  <2>2. ASSUME NEW there, NEW stored, Promise(m, there, stored) PROVE Promise(n, there, stored)
    BY <1>4, <1>9, <2>1, <2>2 DEF Promise
  <2> QED
    BY <2>1, <2>2
<1> HIDE DEF again
<1>10. CASE m.look = "gap" /\ again
  <2>1. n = [m EXCEPT !.pc = "plan", !.look = "gapAgain", !.missing = left, !.listing = {}]
    BY <1>6, <1>10
  <2> QED
    BY <1>7, <1>10, <2>1 DEF m, n
<1>11. CASE m.look = "gapAgain" \/ (m.look = "gap" /\ ~ again)
  <2>1. n = [m EXCEPT !.pc = "turn", !.missing = {}, !.listing = {}, !.chunks = Split(left)]
    BY <1>6, <1>11
  <2>2. m.look \in Gap
    BY <1>11 DEF Gap
  <2> QED
    BY <1>8, <2>1, <2>2 DEF m, n
<1>12. CASE m.look = "warm" /\ again
  <2>1. n = [m EXCEPT !.pc = "plan", !.look = "warmAgain", !.missing = left, !.listing = {}]
    BY <1>6, <1>12
  <2> QED
    BY <1>7, <1>12, <2>1 DEF m, n
<1>13. CASE /\ ~ (m.look = "gap" /\ again) /\ ~ (m.look = "warm" /\ again)
            /\ ~ (m.look = "gapAgain" \/ (m.look = "gap" /\ ~ again))
  <2>1. n = Ended(j, "completed")
    BY <1>6, <1>13
  <2>2. m.look \notin Gap
    BY <1>13 DEF Gap
  <2> QED
    BY <1>9, <2>1, <2>2 DEF m, n
<1> QED
  BY <1>10, <1>11, <1>12, <1>13

-----------------------------------------------------------------------------
(* Steps that take a cell or give a slot back. *)

\* There is a cell nobody is on for a job that is on none: there are as many cells as jobs.
LEMMA UnusedCellExists ==
  ASSUME NEW j \in Jobs, job[j].cell = NoCell
  PROVE  UnusedCell \in Jobs /\ \A k \in Jobs : job[k].cell # UnusedCell
<1> SUFFICES ASSUME \A i \in Jobs : \E k \in Jobs : job[k].cell = i
             PROVE  FALSE
  BY DEF UnusedCell
<1> DEFINE g == [i \in Jobs |-> CHOOSE k \in Jobs : job[k].cell = i]
<1>1. \A i \in Jobs : g[i] \in Jobs \ {j} /\ job[g[i]].cell = i
  BY LoaderAssumption
<1>2. g \in [Jobs -> Jobs \ {j}]
  BY <1>1
<1>3. IsFiniteSet(Jobs) /\ IsFiniteSet(Jobs \ {j}) /\ Cardinality(Jobs \ {j}) < Cardinality(Jobs)
  <2>1. IsFiniteSet(Jobs) /\ Cardinality(Jobs) \in Nat
    BY LoaderAssumption, FS_CardinalityType
  <2>2. IsFiniteSet(Jobs \ {j}) /\ Cardinality(Jobs \ {j}) = Cardinality(Jobs) - 1
    BY <2>1, FS_RemoveElement
  <2> QED
    BY <2>1, <2>2
<1> HIDE DEF g
<1>4. \E x, y \in Jobs : x # y /\ g[x] = g[y]
  BY <1>2, <1>3, FS_PigeonHole
<1> QED
  BY <1>1, <1>4

\* A waiter that is served is another job, and waits.
LEMMA ServedIsWaiting ==
  ASSUME LoaderTypes, GateAgrees, queue # <<>>
  PROVE  /\ Served \in DOMAIN queue /\ queue[Served] \in Jobs
         /\ job[queue[Served]].pc = "queued"
<1>1. Served \in DOMAIN queue /\ queue \in Seq(Jobs)
  BY ServedWaits DEF LoaderTypes
<1>2. queue[Served] \in ToSet(queue)
  BY <1>1 DEF ToSet
<1> QED
  BY <1>1, <1>2 DEF GateAgrees

\* Whoever gets the slot of a job that gives it back, only that job and the waiter move.
LEMMA ReleaseHands ==
  ASSUME LoaderTypes, GateAgrees, NEW j \in Jobs, job[j].pc # "queued",
         NEW n \in JobRecord, Release(j, n)
  PROVE  Hands(j) /\ job'[j] = n
<1>1. CASE queue = <<>>
  <2>1. job' = [job EXCEPT ![j] = n]
    BY <1>1 DEF Release
  <2> QED
    BY <2>1, OneMoves DEF Moves, Hands
<1>2. CASE queue # <<>>
  <2> DEFINE q == queue[Served]
             m == [job[q] EXCEPT !.pc = "fetch"]
  <2>1. q \in Jobs /\ job[q].pc = "queued" /\ q # j
    BY <1>2, ServedIsWaiting
  <2>2. job' = [job EXCEPT ![j] = n, ![q].pc = "fetch"]
    BY <1>2 DEF Release
  <2> HIDE DEF q
  <2>3. job' = [[job EXCEPT ![j] = n] EXCEPT ![q] = m]
    BY <2>1, <2>2 DEF LoaderTypes
  <2>4. m \in JobRecord
    <3>1. job[q] \in JobRecord /\ "fetch" \in Pcs
      BY <2>1 DEF LoaderTypes, Pcs, Holding
    <3> QED
      BY <3>1 DEF JobRecord
  <2> HIDE DEF m
  <2>5. /\ job' \in [Jobs -> JobRecord] /\ job'[j] = n /\ job'[q] = m
        /\ \A k \in Jobs \ {j, q} : job'[k] = job[k]
    BY <2>1, <2>3, <2>4 DEF LoaderTypes
  <2> QED
    BY <2>1, <2>5 DEF Hands, m
<1> QED
  BY <1>1, <1>2

\* A cell is joined.
LEMMA JoinCellWorks ==
  ASSUME LoaderTypes, NEW j \in Jobs, Placed(job[j]), JoinCell(j)
  PROVE  /\ Works(j, "fetch", "awaiting") /\ job'[j].cell \in Jobs
         /\ \/ flight[Chunk(j)] # NoCell /\ job'[j].cell = flight[Chunk(j)]
            \/ flight[Chunk(j)] = NoCell /\ job'[j].cell = UnusedCell
<1>1. job[j] \in JobRecord /\ "awaiting" \in Pcs /\ job[j].pc = "fetch"
  BY DEF LoaderTypes, Pcs, Holding, JoinCell
<1>2. job[j].cell = NoCell /\ Chunk(j) \in Ranges
  <2>1. job[j].chunks # {} /\ job[j].chunks \subseteq Ranges /\ job[j].cell = NoCell
    BY <1>1 DEF Placed, Holding, OnCell, JobRecord
  <2> QED
    BY <2>1, ChunkIsChunk
<1>3. ASSUME NEW i \in Jobs, job' = [job EXCEPT ![j].pc = "awaiting", ![j].cell = i]
      PROVE  Works(j, "fetch", "awaiting") /\ job'[j].cell = i
  <2> DEFINE n == [job[j] EXCEPT !.pc = "awaiting", !.cell = i]
  <2>1. job' = [job EXCEPT ![j] = n]
    BY <1>3 DEF LoaderTypes
  <2>2. n \in JobRecord /\ Same(job[j], n) /\ n.pc = "awaiting" /\ n.cell = i
    BY <1>1 DEF JobRecord, Same
  <2> HIDE DEF n
  <2> QED
    BY <1>1, <2>1, <2>2, OneMoves DEF Works
<1>4. CASE flight[Chunk(j)] # NoCell
  <2>1. flight[Chunk(j)] \in Jobs
    BY <1>2, <1>4 DEF LoaderTypes
  <2>2. job' = [job EXCEPT ![j].pc = "awaiting", ![j].cell = flight[Chunk(j)]]
    BY <1>4 DEF JoinCell
  <2> QED
    BY <1>3, <1>4, <2>1, <2>2
<1>5. CASE flight[Chunk(j)] = NoCell
  <2>1. UnusedCell \in Jobs
    BY <1>2, UnusedCellExists
  <2>2. job' = [job EXCEPT ![j].pc = "awaiting", ![j].cell = UnusedCell]
    BY <1>5 DEF JoinCell
  <2> QED
    BY <1>3, <1>5, <2>1, <2>2
<1> QED
  BY <1>4, <1>5

\* A job off its cell writes what it got, waits to try again, or fails and gives its slot back.
LEMMA LeaveCellHands ==
  ASSUME LoaderTypes, GateAgrees, NEW j \in Jobs, LeaveCell(j)
  PROVE  \/ /\ Works(j, "leaving", "write") /\ job'[j].cell = NoCell
            /\ UNCHANGED gateVars
         \/ /\ Works(j, "leaving", "backoff") /\ job'[j].cell = NoCell
            /\ job'[j].attempt < MaxAttempts
            /\ UNCHANGED gateVars
         \/ /\ job[j].pc = "leaving" /\ Hands(j) /\ job'[j] = Ended(j, "failed")
            /\ Release(j, Ended(j, "failed"))
<1>1. /\ job[j] \in JobRecord /\ "write" \in Pcs /\ "backoff" \in Pcs /\ 0 \in 0 .. MaxAttempts
      /\ job[j].pc = "leaving"
  BY SizesAssumption DEF LoaderTypes, Pcs, Holding, LeaveCell
<1> DEFINE left == [job[j] EXCEPT !.cell = NoCell, !.got = "none"]
<1>2. left \in JobRecord /\ Same(job[j], left) /\ left.cell = NoCell /\ left.attempt = job[j].attempt
  BY <1>1 DEF JobRecord, Same
<1> HIDE DEF left
<1>3. ASSUME job' = [job EXCEPT ![j] = [left EXCEPT !.pc = "write", !.attempt = 0]]
      PROVE  Works(j, "leaving", "write") /\ job'[j].cell = NoCell
  <2> DEFINE n == [left EXCEPT !.pc = "write", !.attempt = 0]
  <2>1. n \in JobRecord /\ Same(left, n) /\ n.pc = "write" /\ n.cell = NoCell
    BY <1>1, <1>2 DEF JobRecord, Same
  <2>2. Same(job[j], n)
    BY <1>2, <2>1 DEF Same
  <2>3. job' = [job EXCEPT ![j] = n]
    BY <1>3
  <2> HIDE DEF n
  <2> QED
    BY <1>1, <2>1, <2>2, <2>3, OneMoves DEF Works
<1>4. ASSUME job' = [job EXCEPT ![j] = [left EXCEPT !.pc = "backoff"]], MayRetry(j)
      PROVE  Works(j, "leaving", "backoff") /\ job'[j].cell = NoCell /\ job'[j].attempt < MaxAttempts
  <2> DEFINE n == [left EXCEPT !.pc = "backoff"]
  <2>1. /\ n \in JobRecord /\ Same(left, n) /\ n.pc = "backoff" /\ n.cell = NoCell
        /\ n.attempt = job[j].attempt
    BY <1>1, <1>2 DEF JobRecord, Same
  <2>2. Same(job[j], n)
    BY <1>2, <2>1 DEF Same
  <2>3. job' = [job EXCEPT ![j] = n]
    BY <1>4
  <2>4. job[j].attempt < MaxAttempts
    BY <1>4 DEF MayRetry
  <2> HIDE DEF n
  <2> QED
    BY <1>1, <2>1, <2>2, <2>3, <2>4, OneMoves DEF Works
<1>5. ASSUME Release(j, Ended(j, "failed"))
      PROVE  Hands(j) /\ job'[j] = Ended(j, "failed")
  <2>1. Ended(j, "failed") \in JobRecord
    BY EndedRecord
  <2> QED
    BY <1>1, <1>5, <2>1, ReleaseHands
<1>6. \/ job' = [job EXCEPT ![j] = [left EXCEPT !.pc = "write", !.attempt = 0]] /\ UNCHANGED gateVars
      \/ job' = [job EXCEPT ![j] = [left EXCEPT !.pc = "backoff"]] /\ MayRetry(j) /\ UNCHANGED gateVars
      \/ Release(j, Ended(j, "failed"))
  BY DEF LeaveCell, left
<1> QED
  BY <1>1, <1>3, <1>4, <1>5, <1>6

-----------------------------------------------------------------------------
(* What a job knows of itself: its place, its promise, its listing. *)

\* The invariant of one record.
Good(n) ==
  /\ Placed(n)
  /\ ~deleted => /\ Promise(n, history, Store!Covered)
                 /\ UNION n.listing \subseteq Store!Covered

\* The invariant holds of each record.
LEMMA JobsGood == LoaderInv => \A j \in Jobs : Good(job[j])
BY DEF LoaderInv, JobsPlaced, JobsPromise, CacheNeverOverclaims, Good

\* A promise is about what a job is to fetch, and about nothing else.
LEMMA SameKeepsPromise ==
  ASSUME NEW n, NEW m, Same(n, m), NEW there, NEW stored, Promise(n, there, stored)
  PROVE  Promise(m, there, stored)
BY DEF Same, Promise

\* A job that works on its chunks stays well placed.
LEMMA WorkIsGood ==
  ASSUME NEW j \in Jobs, Good(job[j]), NEW from, NEW to, Works(j, from, to),
         from \notin Looking \cup {"ended"}, to \in Holding \cup {"queued"},
         from \in Holding \cup {"queued"} \/ job[j].chunks # {},
         job'[j].cell # NoCell <=> to \in OnCell,
         to = "backoff" => job'[j].attempt < MaxAttempts
  PROVE  Good(job'[j])
<1>1. Same(job[j], job'[j]) /\ job[j].pc = from /\ job'[j].pc = to
  BY DEF Works
<1>2. Placed(job[j])
  BY DEF Good
<1>3. to \notin Looking \cup {"none", "ended"}
  BY DEF Holding, Looking
<1>4. Placed(job'[j])
  BY <1>1, <1>2, <1>3 DEF Same, Placed
<1> QED
  BY <1>1, <1>4, SameKeepsPromise DEF Good, Same

\* Where nobody is served, only one job moves.
LEMMA MovesHands == ASSUME NEW j, Moves(j) PROVE Hands(j)
BY DEF Moves, Hands

\* Working on a chunk, with its cell taken and left where it must be.
LEMMA ChunkWorkIsGood ==
  ASSUME LoaderInv, NEW j \in Jobs,
         \/ NextChunk(j) \/ JoinCell(j) \/ StartFetch(j) \/ FetchOk(j) \/ FetchFails(j)
         \/ ShareResult(j) \/ Retry(j) \/ SkipWrite(j) \/ StartWrite(j)
         \/ EndWrite(j) /\ writer[j].stage = "written"
         \/ ReadEdge(j) \/ MoveEdge(j)
  PROVE  Hands(j) /\ Good(job'[j])
<1>1. LoaderTypes /\ Good(job[j]) /\ Placed(job[j]) /\ job[j].pc \in Pcs
  BY JobsGood DEF LoaderInv, Good, LoaderTypes, JobRecord
<1>2. job[j].cell # NoCell <=> job[j].pc \in OnCell
  BY <1>1 DEF Placed
<1>3. ASSUME NEW from \in Holding, NEW to \in Holding \ {"backoff"}, Works(j, from, to),
             job'[j].cell # NoCell <=> to \in OnCell
      PROVE  Hands(j) /\ Good(job'[j])
  <2>1. from \notin Looking \cup {"ended"}
    BY DEF Holding, Looking
  <2> QED
    BY <1>1, <1>3, <2>1, WorkIsGood, MovesHands DEF Works
<1>4. CASE NextChunk(j)
  <2>1. job[j].chunks # {} /\ job[j].pc = "turn" /\ (free > 0 \/ free = 0)
    BY <1>4 DEF NextChunk
  <2>2. PICK to \in {"fetch", "queued"} : Works(j, "turn", to) /\ job'[j].cell = job[j].cell
    BY <1>1, <1>4, <2>1, TurnWorks, TurnWaits
  <2>3. /\ "turn" \notin Looking \cup {"ended"} /\ to \in Holding \cup {"queued"}
        /\ to \notin OnCell /\ "turn" \notin OnCell /\ to # "backoff"
    BY DEF Holding, Looking, OnCell
  <2> QED
    BY <1>1, <1>2, <2>1, <2>2, <2>3, WorkIsGood, MovesHands DEF Works
<1>5. CASE JoinCell(j)
  <2>1. Works(j, "fetch", "awaiting") /\ job'[j].cell # NoCell
    BY <1>1, <1>5, JoinCellWorks, LoaderAssumption
  <2> QED
    BY <1>3, <2>1 DEF Holding, OnCell
<1>6. ASSUME NEW from \in Holding, NEW to \in Holding \ {"backoff"}, Works(j, from, to),
             job'[j].cell = job[j].cell, from \in OnCell <=> to \in OnCell
      PROVE  Hands(j) /\ Good(job'[j])
  BY <1>2, <1>3, <1>6 DEF Works
<1>7. CASE StartFetch(j)
  BY <1>1, <1>6, <1>7, StartFetchWorks DEF Holding, OnCell
<1>8. CASE FetchOk(j)
  BY <1>1, <1>6, <1>8, FetchOkWorks DEF Holding, OnCell
<1>9. CASE FetchFails(j)
  BY <1>1, <1>6, <1>9, FetchFailsWorks DEF Holding, OnCell
<1>10. CASE ShareResult(j)
  BY <1>1, <1>6, <1>10, ShareResultWorks DEF Holding, OnCell
<1>11. CASE Retry(j)
  BY <1>1, <1>6, <1>11, RetryWorks DEF Holding, OnCell
<1>12. CASE SkipWrite(j)
  BY <1>1, <1>6, <1>12, SkipWriteWorks DEF Holding, OnCell
<1>13. CASE StartWrite(j)
  BY <1>1, <1>6, <1>13, StartWriteWorks DEF Holding, OnCell
<1>14. CASE EndWrite(j) /\ writer[j].stage = "written"
  BY <1>1, <1>6, <1>14, EndWriteWorks DEF Holding, OnCell
<1>15. CASE ReadEdge(j)
  BY <1>1, <1>6, <1>15, ReadEdgeWorks DEF Holding, OnCell
<1>16. CASE MoveEdge(j)
  BY <1>1, <1>6, <1>16, MoveEdgeWorks DEF Holding, OnCell
<1> QED
  BY <1>4, <1>5, <1>7, <1>8, <1>9, <1>10, <1>11, <1>12, <1>13, <1>14, <1>15, <1>16

\* A job that ends badly promises nothing any more.
LEMMA EndedIsGood ==
  ASSUME LoaderTypes, NEW j \in Jobs, NEW outcome \in {"failed", "cancelled"}
  PROVE  Good(Ended(j, outcome))
<1>1. Placed(Ended(j, outcome)) /\ Ended(j, outcome).outcome = outcome /\ Ended(j, outcome).listing = {}
  BY EndedRecord
<1> QED
  BY <1>1 DEF Good, Promise

\* A job that completes with nothing left to fetch or to plan has what it promised.
LEMMA CompletedIsGood ==
  ASSUME LoaderTypes, NEW j \in Jobs, Good(job[j]), job[j].chunks = {},
         job[j].pc # "ended", job[j].look \in Gap => job[j].missing = {}
  PROVE  Good(Ended(j, "completed"))
<1> DEFINE n == Ended(j, "completed")
<1>1. /\ Placed(n) /\ n.outcome = "completed" /\ n.range = job[j].range
      /\ n.listing = {} /\ n.chunks = {}
  BY EndedRecord
<1>2. job[j].outcome = "none"
  BY DEF Good, Placed
<1> HIDE DEF n
<1>3. ASSUME NEW there, NEW stored, Promise(job[j], there, stored) PROVE Promise(n, there, stored)
  BY <1>1, <1>2, <1>3 DEF Promise
<1> QED
  BY <1>1, <1>3 DEF Good, n

\* Looking coverage up, listing the directory, crediting what was found.
LEMMA PlanningIsGood ==
  ASSUME LoaderInv, NEW j \in Jobs,
         LookUp(j) \/ List(j) \/ ListFails(j) \/ Remember(j)
  PROVE  Moves(j) /\ Good(job'[j]) /\ job[j].pc \in Looking
         /\ job'[j].pc \in Looking \cup {"turn", "ended"} /\ job'[j].cell = NoCell
<1>1. /\ LoaderTypes /\ Good(job[j]) /\ Placed(job[j]) /\ job[j] \in JobRecord
      /\ StoreP!IInv /\ CacheNeverOverclaims
  BY JobsGood DEF LoaderInv, Good, LoaderTypes
<1>2. job[j].pc \in Looking
  BY DEF LookUp, List, ListFails, Remember, Looking
<1>3. job[j].cell = NoCell /\ job[j].chunks = {} /\ job[j].outcome = "none"
  BY <1>1, <1>2 DEF Placed, Looking, OnCell
<1>4. ASSUME NEW listing \in SUBSET Ranges, ~deleted => UNION listing \subseteq Store!Covered,
             job' = [job EXCEPT ![j] = Credited(j, listing)]
      PROVE  Moves(j) /\ Good(job'[j]) /\ job'[j].pc \in Looking \cup {"turn", "ended"}
             /\ job'[j].cell = NoCell
  <2> DEFINE n == Credited(j, listing)
  <2>1. /\ n \in JobRecord /\ Placed(n) /\ n.pc \in {"plan", "turn", "ended"}
        /\ n.listing = {} /\ n.cell = NoCell
        /\ \A there, stored :
             Promise(job[j], there, stored) /\ UNION listing \subseteq stored
               => Promise(n, there, stored)
    BY <1>1, <1>2, CreditedRecord
  <2>2. Good(n)
    BY <1>1, <1>4, <2>1 DEF Good
  <2>3. Moves(j) /\ job'[j] = n
    BY <1>1, <1>4, <2>1, OneMoves
  <2> HIDE DEF n
  <2> QED
    BY <2>1, <2>2, <2>3 DEF Looking
<1>5. CASE LookUp(j)
  <2>1. CASE coverage = NoCoverage
    <3>1. Works(j, "plan", "missed") /\ job'[j].cell = job[j].cell
      BY <1>1, <1>5, <2>1, LookUpMisses
    <3>2. Moves(j) /\ Same(job[j], job'[j]) /\ job'[j].pc = "missed"
      BY <3>1 DEF Works
    <3>3. Placed(job'[j])
      BY <1>1, <1>2, <1>3, <3>1, <3>2 DEF Same, Placed, Looking, Holding, OnCell
    <3> QED
      BY <1>1, <1>2, <1>3, <3>1, <3>2, <3>3, SameKeepsPromise DEF Good, Same, Looking
  <2>2. CASE coverage # NoCoverage
    <3>1. coverage \in SUBSET Ranges /\ (~deleted => UNION coverage \subseteq Store!Covered)
      BY <1>1, <2>2 DEF LoaderTypes, CacheNeverOverclaims
    <3>2. job' = [job EXCEPT ![j] = Credited(j, coverage)]
      BY <1>5, <2>2 DEF LookUp
    <3> QED
      BY <1>2, <1>4, <3>1, <3>2
  <2> QED
    BY <2>1, <2>2
<1>6. CASE List(j)
  <2> DEFINE n == [job[j] EXCEPT !.pc = "listed", !.listing = files]
  <2>1. files \in SUBSET Ranges /\ "listed" \in Pcs
    BY <1>1 DEF StoreP!IInv, StoreP!TypeOK, Pcs
  <2>2. job' = [job EXCEPT ![j] = n]
    BY <1>6 DEF List, LoaderTypes
  <2>3. n \in JobRecord /\ n.pc = "listed" /\ n.listing = files
    BY <1>1, <2>1 DEF JobRecord
  <2>4. /\ n.kind = job[j].kind /\ n.range = job[j].range /\ n.look = job[j].look
        /\ n.missing = job[j].missing /\ n.chunks = job[j].chunks /\ n.outcome = job[j].outcome
        /\ n.cell = job[j].cell /\ n.attempt = job[j].attempt
    BY <1>1 DEF JobRecord
  <2> HIDE DEF n
  <2>5. Placed(n)
    BY <1>1, <1>2, <1>3, <2>3, <2>4 DEF Placed, Looking, Holding, OnCell
  <2>6. Good(n)
    BY <1>1, <2>3, <2>4, <2>5 DEF Good, Promise, Store!Covered
  <2> QED
    BY <1>1, <1>2, <1>3, <2>2, <2>3, <2>4, <2>6, OneMoves DEF Looking
<1>7. CASE ListFails(j)
  <2> DEFINE outcome == IF job[j].look \in Gap THEN "failed" ELSE "completed"
             n == Ended(j, outcome)
  <2>1. job' = [job EXCEPT ![j] = n]
    BY <1>7 DEF ListFails, Gap
  <2>2. outcome \in {"completed", "failed", "cancelled"}
    OBVIOUS
  <2>3. Good(n)
    <3>1. CASE job[j].look \in Gap
      BY <1>1, <3>1, EndedIsGood
    <3>2. CASE job[j].look \notin Gap
      <4>1. job[j].pc # "ended"
        BY <1>2 DEF Looking
      <4> QED
        BY <1>1, <1>3, <3>2, <4>1, CompletedIsGood
    <3> QED
      BY <3>1, <3>2
  <2>4. n \in JobRecord /\ n.pc = "ended" /\ n.cell = NoCell
    <3> HIDE DEF outcome
    <3> QED
      BY <1>1, <2>2, EndedRecord
  <2> HIDE DEF n
  <2> QED
    BY <1>1, <1>2, <2>1, <2>3, <2>4, OneMoves
<1>8. CASE Remember(j)
  <2>1. job[j].listing \in SUBSET Ranges /\ (~deleted => UNION job[j].listing \subseteq Store!Covered)
    BY <1>1 DEF JobRecord, CacheNeverOverclaims
  <2>2. job' = [job EXCEPT ![j] = Credited(j, job[j].listing)]
    BY <1>8 DEF Remember
  <2> QED
    BY <1>2, <1>4, <2>1, <2>2
<1> QED
  BY <1>5, <1>6, <1>7, <1>8

\* A job that is asked for, noticed to be cancelled, done with its chunks, or cancelled.
LEMMA ControlIsGood ==
  ASSUME LoaderInv, NEW j \in Jobs,
         (\E request \in Requests : Ensure(j, request)) \/ Stop(j) \/ Complete(j)
  PROVE  /\ Moves(j) /\ Good(job'[j]) /\ job[j].pc \in {"none", "ended", "turn"}
         /\ job'[j].pc \in {"plan", "ended"} /\ job'[j].cell = NoCell
<1>1. LoaderTypes /\ Good(job[j]) /\ Placed(job[j]) /\ job[j] \in JobRecord
  BY JobsGood DEF LoaderInv, Good, LoaderTypes
<1>2. ASSUME NEW request \in Requests, Ensure(j, request)
      PROVE  /\ Moves(j) /\ Good(job'[j]) /\ job[j].pc \in {"none", "ended"}
             /\ job'[j].pc = "plan" /\ job'[j].cell = NoCell
  <2> DEFINE n == [NoJob EXCEPT !.pc = "plan", !.kind = request.kind,
                                !.range = request.range, !.missing = request.range]
  <2>1. /\ n \in JobRecord /\ Placed(n) /\ n.pc = "plan" /\ n.listing = {}
        /\ n.range = n.missing /\ n.look = "gap" /\ n.cell = NoCell
    BY EnsuredRecord
  <2>2. job' = [job EXCEPT ![j] = n] /\ job[j].pc \in {"none", "ended"}
    BY <1>2 DEF Ensure, Running
  <2> HIDE DEF n
  <2>3. Good(n)
    BY <2>1 DEF Good, Promise, Gap
  <2> QED
    BY <1>1, <2>1, <2>2, <2>3, OneMoves
<1>3. ASSUME NEW outcome \in {"completed", "cancelled"}, Good(Ended(j, outcome)),
             job' = [job EXCEPT ![j] = Ended(j, outcome)]
      PROVE  Moves(j) /\ Good(job'[j]) /\ job'[j].pc = "ended" /\ job'[j].cell = NoCell
  <2>1. /\ Ended(j, outcome) \in JobRecord /\ Ended(j, outcome).pc = "ended"
        /\ Ended(j, outcome).cell = NoCell
    BY <1>1, EndedRecord
  <2> QED
    BY <1>1, <1>3, <2>1, OneMoves
<1>4. CASE Stop(j)
  BY <1>1, <1>3, <1>4, EndedIsGood DEF Stop
<1>5. CASE Complete(j)
  <2>1. job[j].pc = "turn" /\ job[j].chunks = {} /\ job[j].missing = {} /\ job[j].cell = NoCell
    BY <1>1, <1>5 DEF Complete, Placed, Looking, OnCell
  <2>2. CASE job' = [job EXCEPT ![j] = Ended(j, "completed")]
    <3>1. Good(Ended(j, "completed"))
      BY <1>1, <2>1, CompletedIsGood
    <3> QED
      BY <1>3, <2>1, <2>2, <3>1
  <2>3. CASE job' = [job EXCEPT ![j].pc = "plan", ![j].look = "warm", ![j].missing = job[j].range]
    <3> DEFINE n == [job[j] EXCEPT !.pc = "plan", !.look = "warm", !.missing = job[j].range]
    <3>1. job' = [job EXCEPT ![j] = n]
      BY <2>3 DEF LoaderTypes
    <3>2. "plan" \in Pcs /\ job[j].range \subseteq Slots
      <4>1. job[j].range \in Ranges \cup {{}} /\ Horizon \in Nat
        BY <1>1, SizesAssumption DEF JobRecord
      <4> QED
        BY <4>1 DEF Ranges, Slots, Pcs
    <3>3. n \in JobRecord /\ n.pc = "plan" /\ n.look = "warm" /\ n.missing = n.range
      BY <1>1, <3>2 DEF JobRecord
    <3>4. /\ n.range = job[j].range /\ n.listing = job[j].listing /\ n.chunks = {}
          /\ n.outcome = job[j].outcome /\ n.cell = NoCell /\ n.attempt = job[j].attempt
      BY <1>1, <2>1 DEF JobRecord
    <3> HIDE DEF n
    <3>5. Placed(n)
      BY <1>1, <2>1, <3>3, <3>4 DEF Placed, Looking, Holding, OnCell
    <3>6. ASSUME NEW there, NEW stored, Promise(job[j], there, stored) PROVE Promise(n, there, stored)
      BY <2>1, <3>3, <3>4, <3>6 DEF Promise, Gap
    <3>7. Good(n)
      BY <1>1, <3>4, <3>5, <3>6 DEF Good
    <3> QED
      BY <1>1, <2>1, <3>1, <3>3, <3>4, <3>7, OneMoves
  <2> QED
    BY <1>5, <2>2, <2>3 DEF Complete
<1> QED
  BY <1>2, <1>3, <1>4, <1>5 DEF Stop, Complete

\* A cancellation changes nothing but the wish.
LEMMA CancelIsGood ==
  ASSUME LoaderInv, NEW j \in Jobs, Cancel(j)
  PROVE  /\ Moves(j) /\ Good(job'[j]) /\ Same(job[j], job'[j])
         /\ job'[j].pc = job[j].pc /\ job'[j].cell = job[j].cell
<1>1. LoaderTypes /\ Good(job[j]) /\ Placed(job[j]) /\ job[j] \in JobRecord
  BY JobsGood DEF LoaderInv, Good, LoaderTypes
<1> DEFINE n == [job[j] EXCEPT !.cancelled = TRUE]
<1>2. job' = [job EXCEPT ![j] = n]
  BY DEF Cancel, LoaderTypes
<1>3. /\ n \in JobRecord /\ Same(job[j], n) /\ n.pc = job[j].pc /\ n.cell = job[j].cell
      /\ n.attempt = job[j].attempt
  BY <1>1 DEF JobRecord, Same
<1> HIDE DEF n
<1>4. Placed(n)
  BY <1>1, <1>3 DEF Placed, Same
<1>5. Good(n)
  BY <1>1, <1>3, <1>4, SameKeepsPromise DEF Good, Same
<1> QED
  BY <1>1, <1>2, <1>3, <1>5, OneMoves

\* A job that is done with a chunk, or fails, and gives its slot back.
LEMMA GivingBackIsGood ==
  ASSUME LoaderInv, NEW j \in Jobs,
         \/ EdgeFails(j) \/ CommitChunk(j)
         \/ EndWrite(j) /\ writer[j].stage = "failed"
  PROVE  /\ Hands(j) /\ Good(job'[j]) /\ job[j].pc \in Holding \ OnCell
         /\ job'[j].pc \in {"turn", "ended"} /\ job'[j].cell = NoCell
         /\ \E n : Release(j, n) /\ job'[j] = n
<1>1. /\ LoaderTypes /\ Good(job[j]) /\ Placed(job[j]) /\ job[j] \in JobRecord
      /\ GateAgrees /\ WriterAgrees(j)
  BY JobsGood DEF LoaderInv, Good, LoaderTypes, JobsWrite
<1>2. job[j].pc \in Holding \ OnCell /\ job[j].pc # "queued"
  BY DEF EdgeFails, CommitChunk, EndWrite, Holding, OnCell
<1>3. CASE Release(j, Ended(j, "failed"))
  <2>1. /\ Ended(j, "failed") \in JobRecord /\ Ended(j, "failed").pc = "ended"
        /\ Ended(j, "failed").cell = NoCell
    BY <1>1, EndedRecord
  <2>2. Hands(j) /\ job'[j] = Ended(j, "failed")
    BY <1>1, <1>2, <1>3, <2>1, ReleaseHands
  <2> QED
    BY <1>1, <1>2, <1>3, <2>1, <2>2, EndedIsGood
<1>4. CASE CommitChunk(j)
  <2> DEFINE c == Chunk(j)
             n == [job[j] EXCEPT !.pc = "turn", !.chunks = job[j].chunks \ {c}]
  <2>1. Release(j, n) /\ job[j].pc = "commit"
    BY <1>4 DEF CommitChunk
  <2>2. "turn" \in Pcs
    BY DEF Pcs
  <2>3. /\ n \in JobRecord /\ n.pc = "turn" /\ n.chunks = job[j].chunks \ {c}
        /\ n.range = job[j].range /\ n.look = job[j].look /\ n.missing = job[j].missing
        /\ n.listing = job[j].listing /\ n.outcome = job[j].outcome /\ n.cell = job[j].cell
    BY <1>1, <2>2 DEF JobRecord
  <2> HIDE DEF n
  <2>4. Hands(j) /\ job'[j] = n
    BY <1>1, <1>2, <2>1, <2>3, ReleaseHands
  <2>5. Placed(n) /\ n.cell = NoCell
    BY <1>1, <2>1, <2>3 DEF Placed, Looking, Holding, OnCell
  <2>6. Good(n)
    <3>1. ~deleted => (c \cap history) \subseteq Store!Covered
      BY <1>1, <2>1 DEF WriterAgrees, Bars
    <3>2. UNION job[j].chunks = (UNION n.chunks) \cup (c \cap UNION job[j].chunks)
      BY <2>3
    <3> HIDE DEF c
    <3>3. ~deleted => Promise(n, history, Store!Covered)
      BY <1>1, <2>3, <3>1, <3>2 DEF Good, Promise
    <3> QED
      BY <1>1, <2>3, <2>5, <3>3 DEF Good
  <2> QED
    BY <1>2, <2>1, <2>3, <2>4, <2>5, <2>6
<1> QED
  BY <1>3, <1>4 DEF EdgeFails, EndWrite

\* Every step of a job but the store's own keeps its record good.
LEMMA JobStepIsGood ==
  ASSUME LoaderInv, NEW j \in Jobs,
         \/ \E request \in Requests : Ensure(j, request)
         \/ Advance(j) /\ ~Write(j)
         \/ Cancel(j)
  PROVE  Hands(j) /\ Good(job'[j])
<1>1. CASE LookUp(j) \/ List(j) \/ ListFails(j) \/ Remember(j)
  BY <1>1, PlanningIsGood, MovesHands
<1>2. CASE (\E request \in Requests : Ensure(j, request)) \/ Stop(j) \/ Complete(j)
  BY <1>2, ControlIsGood, MovesHands
<1>3. CASE Cancel(j)
  BY <1>3, CancelIsGood, MovesHands
<1>4. CASE \/ NextChunk(j) \/ JoinCell(j) \/ StartFetch(j) \/ FetchOk(j) \/ FetchFails(j)
           \/ ShareResult(j) \/ Retry(j) \/ SkipWrite(j) \/ StartWrite(j)
           \/ EndWrite(j) /\ writer[j].stage = "written"
           \/ ReadEdge(j) \/ MoveEdge(j)
  BY <1>4, ChunkWorkIsGood
<1>5. CASE \/ EdgeFails(j) \/ CommitChunk(j)
           \/ EndWrite(j) /\ writer[j].stage = "failed"
  BY <1>5, GivingBackIsGood
<1>6. CASE LeaveCell(j)
  <2>1. LoaderTypes /\ GateAgrees /\ Good(job[j])
    BY JobsGood DEF LoaderInv
  <2>2. CASE Works(j, "leaving", "write") /\ job'[j].cell = NoCell
    BY <2>1, <2>2, WorkIsGood, MovesHands DEF Works, Holding, Looking, OnCell
  <2>3. CASE Works(j, "leaving", "backoff") /\ job'[j].cell = NoCell /\ job'[j].attempt < MaxAttempts
    BY <2>1, <2>3, WorkIsGood, MovesHands DEF Works, Holding, Looking, OnCell
  <2>4. CASE Hands(j) /\ job'[j] = Ended(j, "failed")
    BY <2>1, <2>4, EndedIsGood
  <2> QED
    BY <1>6, <2>1, <2>2, <2>3, <2>4, LeaveCellHands
<1>7. EndWrite(j) => writer[j].stage = "written" \/ writer[j].stage = "failed"
  BY DEF EndWrite
<1> QED
  BY <1>1, <1>2, <1>3, <1>4, <1>5, <1>6, <1>7 DEF Advance

-----------------------------------------------------------------------------
(* The store under the jobs. *)

\* Every step of the loader is a step of the store, or leaves it alone.
LEMMA LoaderStepIsStoreStep ==
  LoaderInv /\ [Next]_vars => StoreP!IInv' /\ (~deleted' => Store!Covered \subseteq Store!Covered')
<1> SUFFICES ASSUME LoaderInv, [Next]_vars
             PROVE  StoreP!IInv' /\ (~deleted' => Store!Covered \subseteq Store!Covered')
  OBVIOUS
<1>1. [StoreP!Next]_(StoreP!vars)
  <2>1. CASE UNCHANGED storeVars
    BY <2>1 DEF storeVars, StoreP!vars
  <2>2. ASSUME NEW j \in Jobs, StartWrite(j) PROVE StoreP!Next
    <3>1. Chunk(j) \in Ranges
      <4>1. job[j].chunks # {} /\ job[j].chunks \subseteq Ranges
        BY <2>2 DEF LoaderInv, LoaderTypes, JobsPlaced, JobRecord, StartWrite, Placed, Holding
      <4> QED
        BY <4>1, ChunkIsChunk
    <3>2. StoreP!BeginWrite(j, Chunk(j)) \/ StoreP!RefuseWrite(j, Chunk(j))
      BY <2>2 DEF StartWrite, Store!BeginWrite, Store!RefuseWrite, StoreP!BeginWrite,
                  StoreP!RefuseWrite, Store!Conflicts, StoreP!Conflicts, Store!Superseded,
                  StoreP!Superseded, Store!Done, StoreP!Done, Store!Idle, StoreP!Idle
    <3> QED
      BY <3>1, <3>2 DEF StoreP!Next
  <2>3. ASSUME NEW j \in Jobs, Write(j) PROVE StoreP!Next
    <3>1. StoreP!PlaceFile(j) \/ StoreP!Unlink(j) \/ StoreP!FinishWrite(j) \/ StoreP!FailWrite(j)
      BY <2>3 DEF Write, Store!PlaceFile, Store!Unlink, Store!FinishWrite, Store!FailWrite,
                  StoreP!PlaceFile, StoreP!Unlink, StoreP!FinishWrite, StoreP!FailWrite,
                  Store!Done, StoreP!Done, Store!Idle, StoreP!Idle
    <3> QED
      BY <3>1 DEF StoreP!Next
  <2>4. ASSUME NEW j \in Jobs, EndWrite(j) PROVE StoreP!Next
    <3>1. StoreP!CollectWrite(j)
      BY <2>4 DEF EndWrite, Store!CollectWrite, StoreP!CollectWrite, Store!Idle, StoreP!Idle
    <3> QED
      BY <3>1 DEF StoreP!Next
  <2>5. CASE Crash
    BY <2>5 DEF Crash, Store!Crash, StoreP!Crash, Store!Idle, StoreP!Idle, StoreP!Next
  <2>6. CASE DeleteSeries
    BY <2>6 DEF DeleteSeries, Store!DeleteSeries, StoreP!DeleteSeries, StoreP!Next
  <2>7. ASSUME NEW j \in Jobs,
               \/ \E request \in Requests : Ensure(j, request)
               \/ Cancel(j)
               \/ Advance(j) /\ ~StartWrite(j) /\ ~Write(j) /\ ~EndWrite(j)
        PROVE  UNCHANGED storeVars
    BY <2>7 DEF Advance, Ensure, Cancel, LookUp, List, ListFails, Remember, NextChunk, Stop,
                Complete, JoinCell, StartFetch, FetchOk, FetchFails, ShareResult, LeaveCell,
                Retry, SkipWrite, ReadEdge, MoveEdge, EdgeFails, CommitChunk
  <2>8. UNCHANGED vars => UNCHANGED storeVars
    BY DEF vars, storeVars
  <2> QED
    BY <2>1, <2>2, <2>3, <2>4, <2>5, <2>6, <2>7, <2>8 DEF Next
<1>2. StoreP!IInv
  BY DEF LoaderInv
<1>3. StoreP!IInv'
  BY <1>1, <1>2, StoreP!IInvStep
<1>4. ~deleted' => StoreP!Covered \subseteq StoreP!Covered'
  BY <1>1, <1>2, StoreP!CoveredStays
<1> QED
  BY <1>3, <1>4 DEF Store!Covered, StoreP!Covered

-----------------------------------------------------------------------------
(* The records, the promises and the caches. *)

\* A promise is kept when more is stored.
LEMMA MoreStoredIsFine ==
  ASSUME NEW n, NEW there, NEW stored, NEW more, stored \subseteq more, Promise(n, there, stored)
  PROVE  Promise(n, there, more)
BY DEF Promise

\* A waiter that is handed a slot is where it was but for its place.
LEMMA HandedIsGood ==
  ASSUME NEW n \in JobRecord, n.pc = "queued", Good(n), NEW m, m = [n EXCEPT !.pc = "fetch"]
  PROVE  Good(m) /\ Same(n, m) /\ m.pc = "fetch" /\ m.cell = n.cell /\ n.cell = NoCell
<1>1. m \in JobRecord /\ Same(n, m) /\ m.pc = "fetch" /\ m.cell = n.cell
  <2>1. "fetch" \in Pcs
    BY DEF Pcs, Holding
  <2> QED
    BY <2>1 DEF JobRecord, Same
<1>2. Placed(m) /\ n.cell = NoCell
  BY <1>1 DEF Good, Placed, Same, Looking, Holding, OnCell
<1> QED
  BY <1>1, <1>2, SameKeepsPromise DEF Good, Same

\* Whatever a step of job j does, every record stays good.
LEMMA HandsKeepGood ==
  ASSUME LoaderInv, NEW j \in Jobs, Hands(j), Good(job'[j]), NEW k \in Jobs
  PROVE  Good(job'[k])
<1>1. job[k] \in JobRecord /\ Good(job[k])
  BY JobsGood DEF LoaderInv, LoaderTypes
<1>2. CASE job'[k] = job[k]
  BY <1>1, <1>2
<1>3. CASE job[k].pc = "queued" /\ job'[k] = [job[k] EXCEPT !.pc = "fetch"]
  BY <1>1, <1>3, HandedIsGood
<1> QED
  BY <1>2, <1>3 DEF Hands

\* The coverage cache is dropped, left alone, or given a listing a job has made.
LEMMA CoverageSteps ==
  [Next]_vars => \/ coverage' = coverage \/ coverage' = NoCoverage
                 \/ \E j \in Jobs : coverage' = job[j].listing
<1> SUFFICES ASSUME [Next]_vars
             PROVE  \/ coverage' = coverage \/ coverage' = NoCoverage
                    \/ \E j \in Jobs : coverage' = job[j].listing
  OBVIOUS
<1>1. ASSUME NEW j \in Jobs, Remember(j) PROVE \E i \in Jobs : coverage' = job[i].listing
  BY <1>1 DEF Remember
<1>2. ASSUME NEW j \in Jobs, CommitChunk(j) PROVE coverage' = NoCoverage
  BY <1>2 DEF CommitChunk
<1>3. ASSUME NEW j \in Jobs,
             \/ \E request \in Requests : Ensure(j, request)
             \/ Cancel(j)
             \/ Advance(j) /\ ~Remember(j) /\ ~CommitChunk(j)
      PROVE  coverage' = coverage
  BY <1>3 DEF Advance, Ensure, Cancel, LookUp, List, ListFails, NextChunk, Stop,
              Complete, JoinCell, StartFetch, FetchOk, FetchFails, ShareResult, LeaveCell,
              Retry, SkipWrite, StartWrite, Write, EndWrite, ReadEdge, MoveEdge, EdgeFails
<1>4. Crash => coverage' = NoCoverage
  BY DEF Crash
<1>5. DeleteSeries \/ UNCHANGED vars => coverage' = coverage
  BY DEF DeleteSeries, vars
<1> QED
  BY <1>1, <1>2, <1>3, <1>4, <1>5 DEF Next

\* What the venue has never changes, and only a deletion deletes.
LEMMA HistorySteps ==
  [Next]_vars => history' = history /\ (~deleted' => ~deleted \/ Crash)
<1> SUFFICES ASSUME [Next]_vars PROVE history' = history /\ (~deleted' => ~deleted \/ Crash)
  OBVIOUS
<1>1. ASSUME NEW j \in Jobs, \/ \E request \in Requests : Ensure(j, request)
                             \/ Cancel(j) \/ Advance(j)
      PROVE  history' = history /\ deleted' = deleted
  <2>1. CASE StartWrite(j) \/ Write(j) \/ EndWrite(j)
    BY <2>1 DEF StartWrite, Write, EndWrite, Store!BeginWrite, Store!RefuseWrite,
                Store!PlaceFile, Store!Unlink, Store!FinishWrite, Store!FailWrite,
                Store!CollectWrite
  <2>2. CASE ~ (StartWrite(j) \/ Write(j) \/ EndWrite(j))
    BY <1>1, <2>2 DEF Advance, Ensure, Cancel, LookUp, List, ListFails, Remember, NextChunk, Stop,
              Complete, JoinCell, StartFetch, FetchOk, FetchFails, ShareResult, LeaveCell,
              Retry, SkipWrite, ReadEdge, MoveEdge, EdgeFails, CommitChunk, storeVars
  <2> QED
    BY <2>1, <2>2
<1>2. Crash => history' = history
  BY DEF Crash
<1>3. DeleteSeries => history' = history /\ deleted'
  BY DEF DeleteSeries, Store!DeleteSeries
<1>4. UNCHANGED vars => history' = history /\ deleted' = deleted
  BY DEF vars
<1> QED
  BY <1>1, <1>2, <1>3, <1>4 DEF Next

\* The records stay well placed, the promises kept and the caches true.
LEMMA RecordsStep ==
  LoaderInv /\ [Next]_vars =>
    job' \in [Jobs -> JobRecord] /\ JobsPlaced' /\ JobsPromise' /\ CacheNeverOverclaims'
<1> SUFFICES ASSUME LoaderInv, [Next]_vars
             PROVE  job' \in [Jobs -> JobRecord] /\ JobsPlaced' /\ JobsPromise'
                    /\ CacheNeverOverclaims'
  OBVIOUS
<1>1. /\ ~deleted' => Store!Covered \subseteq Store!Covered'
      /\ history' = history /\ (~deleted' => ~deleted \/ Crash)
  BY LoaderStepIsStoreStep, HistorySteps
<1>2. ASSUME job' \in [Jobs -> JobRecord], \A k \in Jobs : Good(job'[k]), ~Crash
      PROVE  JobsPlaced' /\ JobsPromise' /\ CacheNeverOverclaims'
  <2>1. JobsPlaced'
    BY <1>2 DEF JobsPlaced, Good
  <2>2. ASSUME ~deleted', NEW k \in Jobs
        PROVE  /\ Promise(job'[k], history', Store!Covered')
               /\ UNION job'[k].listing \subseteq Store!Covered'
    <3>1. /\ Promise(job'[k], history, Store!Covered)
          /\ UNION job'[k].listing \subseteq Store!Covered
          /\ Store!Covered \subseteq Store!Covered'
      BY <1>1, <1>2, <2>2 DEF Good
    <3> QED
      BY <1>1, <3>1, MoreStoredIsFine
  <2>3. ASSUME ~deleted', coverage' # NoCoverage
        PROVE  UNION coverage' \subseteq Store!Covered'
    <3>1. \/ coverage' = coverage
          \/ \E j \in Jobs : coverage' = job[j].listing
      BY <2>3, CoverageSteps
    <3>2. ~deleted /\ Store!Covered \subseteq Store!Covered'
      BY <1>1, <1>2, <2>3
    <3>3. UNION coverage' \subseteq Store!Covered
      BY <2>3, <3>1, <3>2 DEF LoaderInv, CacheNeverOverclaims
    <3> QED
      BY <3>2, <3>3
  <2> QED
    BY <2>1, <2>2, <2>3 DEF JobsPromise, CacheNeverOverclaims
<1>3. ASSUME NEW j \in Jobs,
             \/ \E request \in Requests : Ensure(j, request)
             \/ Advance(j) /\ ~Write(j)
             \/ Cancel(j)
      PROVE  job' \in [Jobs -> JobRecord] /\ \A k \in Jobs : Good(job'[k])
  <2>1. Hands(j) /\ Good(job'[j])
    BY <1>3, JobStepIsGood
  <2> QED
    BY <2>1, HandsKeepGood DEF Hands
<1>4. CASE job' = job /\ ~Crash
  <2>1. job' \in [Jobs -> JobRecord] /\ \A k \in Jobs : Good(job'[k])
    BY <1>4, JobsGood DEF LoaderInv, LoaderTypes
  <2> QED
    BY <1>2, <1>4, <2>1
<1>5. CASE Crash
  <2>1. \A k \in Jobs : job'[k] = NoJob
    BY <1>5 DEF Crash
  <2>2. coverage' = NoCoverage /\ job' \in [Jobs -> JobRecord]
    BY <1>5, NoJobRecord DEF Crash
  <2> QED
    BY <2>1, <2>2, NoJobRecord DEF JobsPlaced, JobsPromise, CacheNeverOverclaims
<1>6. CASE ~Crash /\ \E j \in Jobs : \/ \E request \in Requests : Ensure(j, request)
                                     \/ Advance(j) /\ ~Write(j)
                                     \/ Cancel(j)
  BY <1>2, <1>3, <1>6
<1>7. DeleteSeries \/ UNCHANGED vars \/ (\E j \in Jobs : Write(j)) => job' = job
  BY DEF DeleteSeries, vars, Write
<1> QED
  BY <1>4, <1>5, <1>6, <1>7 DEF Next

-----------------------------------------------------------------------------
(* The writes of the jobs. *)

\* The chunk a job works on depends on its chunks alone.
LEMMA SameChunk ==
  ASSUME NEW j \in Jobs, job'[j].chunks = job[j].chunks
  PROVE  Chunk(j)' = Chunk(j)
BY DEF Chunk

\* A job whose place, chunks and write are as before agrees with its write as before.
LEMMA WriteKept ==
  ASSUME LoaderInv, [Next]_vars, ~Crash, NEW k \in Jobs, writer'[k] = writer[k],
         job'[k].chunks = job[k].chunks,
         \/ job'[k].pc = job[k].pc
         \/ job[k].pc # "writing" /\ job'[k].pc \notin {"edge", "edgeRead", "commit"}
         \/ job[k].pc \in {"edge", "edgeRead"} /\ job'[k].pc \in {"edgeRead", "commit"}
  PROVE  WriterAgrees(k)'
<1>1. /\ ~deleted' => ~deleted /\ Store!Covered \subseteq Store!Covered'
      /\ history' = history
  BY LoaderStepIsStoreStep, HistorySteps
<1>2. Chunk(k)' = Chunk(k) /\ Bars(k)' = Bars(k)
  BY <1>1, SameChunk DEF Bars
<1>3. WriterAgrees(k)
  BY DEF LoaderInv, JobsWrite
<1> QED
  BY <1>1, <1>2, <1>3 DEF WriterAgrees

\* The writes of the other jobs, when job j moves and its waiter may be served.
LEMMA OthersWritesKept ==
  ASSUME LoaderInv, [Next]_vars, ~Crash, NEW j \in Jobs, Hands(j), NEW k \in Jobs \ {j},
         writer'[k] = writer[k]
  PROVE  WriterAgrees(k)'
<1>1. CASE job'[k] = job[k]
  BY <1>1, WriteKept
<1>2. CASE job[k].pc = "queued" /\ job'[k] = [job[k] EXCEPT !.pc = "fetch"]
  <2>1. job[k] \in JobRecord /\ Good(job[k])
    BY JobsGood DEF LoaderInv, LoaderTypes
  <2>2. job'[k].chunks = job[k].chunks /\ job'[k].pc = "fetch"
    BY <1>2, <2>1, HandedIsGood DEF Same
  <2> QED
    BY <1>2, <2>2, WriteKept
<1> QED
  BY <1>1, <1>2 DEF Hands

\* A job without a write that is not at its edge has nothing to agree with.
LEMMA NoWriteAgrees ==
  ASSUME NEW k \in Jobs, writer'[k].stage = "idle",
         job'[k].pc \notin {"edge", "edgeRead", "commit"}
  PROVE  WriterAgrees(k)'
BY DEF WriterAgrees

\* The step of the store a write takes.
LEMMA WriteAgrees ==
  ASSUME LoaderInv, NEW j \in Jobs, Write(j)
  PROVE  WriterAgrees(j)' /\ (\A k \in Jobs \ {j} : writer'[k] = writer[k])
<1>1. /\ writer \in [Jobs -> [stage : StoreP!Stages, range : Ranges \cup {{}},
                              superseded : SUBSET Ranges]]
      /\ StoreP!PlacedIsContained /\ WriterAgrees(j)
  BY DEF LoaderInv, StoreP!IInv, StoreP!TypeOK, JobsWrite
<1>2. job' = job /\ history' = history
  BY DEF Write
<1>3. Chunk(j)' = Chunk(j) /\ Bars(j)' = Bars(j)
  BY <1>2 DEF Bars, Chunk
<1>4. writer[j].stage \in {"listed", "placed"} /\ job[j].pc = "writing"
  <2>1. writer[j].stage \in {"listed", "placed"}
    BY DEF Write, Store!PlaceFile, Store!Unlink, Store!FinishWrite, Store!FailWrite
  <2> QED
    BY <1>1, <2>1 DEF WriterAgrees
<1>5. CASE Store!PlaceFile(j) \/ Store!Unlink(j)
  <2>1. /\ writer'[j].stage = "placed" /\ writer'[j].range = writer[j].range
        /\ \A k \in Jobs \ {j} : writer'[k] = writer[k]
    <3>1. CASE Store!PlaceFile(j)
      BY <1>1, <3>1 DEF Store!PlaceFile
    <3>2. CASE Store!Unlink(j)
      BY <1>1, <3>2 DEF Store!Unlink
    <3> QED
      BY <1>5, <3>1, <3>2
  <2> QED
    BY <1>1, <1>2, <1>3, <1>4, <2>1 DEF WriterAgrees
<1>6. CASE Store!FinishWrite(j)
  <2>1. /\ writer'[j].stage = "written" /\ writer[j].stage = "placed"
        /\ files' = files /\ deleted' = deleted
        /\ \A k \in Jobs \ {j} : writer'[k] = writer[k]
    BY <1>1, <1>6 DEF Store!FinishWrite, Store!Done, Store!Idle
  <2>2. ~deleted' => Chunk(j) \subseteq Store!Covered'
    <3>1. ~deleted => \E f \in files : Chunk(j) \subseteq f
      BY <1>1, <2>1 DEF WriterAgrees, StoreP!PlacedIsContained
    <3> QED
      BY <2>1, <3>1 DEF Store!Covered
  <2> QED
    BY <1>2, <1>3, <1>4, <2>1, <2>2 DEF WriterAgrees
<1>7. CASE Store!FailWrite(j)
  <2>1. writer'[j].stage = "failed" /\ \A k \in Jobs \ {j} : writer'[k] = writer[k]
    BY <1>1, <1>7 DEF Store!FailWrite, Store!Done, Store!Idle
  <2> QED
    BY <1>2, <1>3, <1>4, <2>1 DEF WriterAgrees
<1> QED
  BY <1>5, <1>6, <1>7 DEF Write

\* The write of a chunk begins or is refused.
LEMMA StartWriteAgrees ==
  ASSUME LoaderInv, NEW j \in Jobs, StartWrite(j)
  PROVE  WriterAgrees(j)' /\ (\A k \in Jobs \ {j} : writer'[k] = writer[k])
<1>1. /\ writer \in [Jobs -> [stage : StoreP!Stages, range : Ranges \cup {{}},
                              superseded : SUBSET Ranges]]
      /\ LoaderTypes
  BY DEF LoaderInv, StoreP!IInv, StoreP!TypeOK
<1>2. job'[j].pc = "writing" /\ job'[j].chunks = job[j].chunks
  BY <1>1, StartWriteWorks DEF Works, Same
<1>3. Chunk(j)' = Chunk(j)
  BY <1>2, SameChunk
<1>4. /\ \/ writer'[j].stage = "listed" /\ writer'[j].range = Chunk(j)
         \/ writer'[j].stage = "failed"
      /\ \A k \in Jobs \ {j} : writer'[k] = writer[k]
  <2>1. CASE Store!BeginWrite(j, Chunk(j))
    <3> DEFINE r == Chunk(j)
    <3>1. writer' = [writer EXCEPT ![j] =
             [stage |-> "listed", range |-> r, superseded |-> Store!Superseded(r)]]
      BY <2>1 DEF Store!BeginWrite
    <3> HIDE DEF r
    <3> QED
      BY <1>1, <3>1 DEF r
  <2>2. CASE Store!RefuseWrite(j, Chunk(j))
    BY <1>1, <2>2 DEF Store!RefuseWrite, Store!Done, Store!Idle
  <2> QED
    BY <2>1, <2>2 DEF StartWrite
<1> QED
  BY <1>2, <1>3, <1>4 DEF WriterAgrees

\* The result of a write is collected.
LEMMA EndWriteAgrees ==
  ASSUME LoaderInv, [Next]_vars, ~Crash, NEW j \in Jobs, EndWrite(j)
  PROVE  WriterAgrees(j)' /\ (\A k \in Jobs \ {j} : writer'[k] = writer[k])
<1>1. /\ writer \in [Jobs -> [stage : StoreP!Stages, range : Ranges \cup {{}},
                              superseded : SUBSET Ranges]]
      /\ LoaderTypes /\ WriterAgrees(j)
  BY DEF LoaderInv, StoreP!IInv, StoreP!TypeOK, JobsWrite
<1>2. writer'[j].stage = "idle" /\ \A k \in Jobs \ {j} : writer'[k] = writer[k]
  BY <1>1 DEF EndWrite, Store!CollectWrite, Store!Idle
<1>3. CASE writer[j].stage = "written"
  <2>1. job'[j].pc = "edge" /\ job'[j].chunks = job[j].chunks
    BY <1>1, <1>3, EndWriteWorks DEF Works, Same
  <2>2. Chunk(j)' = Chunk(j)
    BY <2>1, SameChunk
  <2>3. ~deleted' => Chunk(j) \subseteq Store!Covered'
    <3>1. ~deleted' => ~deleted /\ Store!Covered \subseteq Store!Covered'
      BY LoaderStepIsStoreStep, HistorySteps
    <3> QED
      BY <1>1, <1>3, <3>1 DEF WriterAgrees
  <2> QED
    BY <1>2, <2>1, <2>2, <2>3 DEF WriterAgrees, Bars
<1>4. CASE writer[j].stage = "failed"
  <2>1. job'[j].pc \in {"turn", "ended"}
    BY <1>4, GivingBackIsGood
  <2> QED
    BY <1>2, <2>1, NoWriteAgrees
<1> QED
  BY <1>3, <1>4 DEF EndWrite

\* The jobs keep agreeing with their writes.
LEMMA WritesStep == LoaderInv /\ [Next]_vars => JobsWrite'
<1> SUFFICES ASSUME LoaderInv, [Next]_vars PROVE JobsWrite'
  OBVIOUS
<1> USE DEF JobsWrite
<1>1. LoaderTypes /\ GateAgrees /\ JobsWrite /\ JobsPlaced
  BY DEF LoaderInv
<1>2. ASSUME ~Crash, NEW j \in Jobs, Hands(j), WriterAgrees(j)',
             \A k \in Jobs \ {j} : writer'[k] = writer[k]
      PROVE  JobsWrite'
  <2>1. ASSUME NEW k \in Jobs PROVE WriterAgrees(k)'
    BY <1>2, OthersWritesKept
  <2> QED
    BY <2>1
<1>3. ASSUME ~Crash, NEW j \in Jobs, writer' = writer, Hands(j), job[j].pc # "writing",
             job'[j].pc \notin {"edge", "edgeRead", "commit"}
      PROVE  JobsWrite'
  <2>1. writer'[j].stage = "idle"
    BY <1>1, <1>3 DEF WriterAgrees
  <2> QED
    BY <1>2, <1>3, <2>1, NoWriteAgrees
<1>4. ASSUME ~Crash, NEW j \in Jobs, writer' = writer, NEW from, NEW to, Works(j, from, to),
             from # "writing", to \notin {"edge", "edgeRead", "commit"}
      PROVE  JobsWrite'
  BY <1>3, <1>4, MovesHands DEF Works
<1>5. ASSUME NEW j \in Jobs, ~Crash, LookUp(j) \/ List(j) \/ ListFails(j) \/ Remember(j)
      PROVE  JobsWrite'
  <2>1. writer' = writer
    BY <1>5 DEF LookUp, List, ListFails, Remember, storeVars
  <2>2. /\ Hands(j) /\ job[j].pc \in Looking
        /\ job'[j].pc \in Looking \cup {"turn", "ended"}
    BY <1>5, PlanningIsGood, MovesHands
  <2> QED
    BY <1>3, <1>5, <2>1, <2>2 DEF Looking
<1>6. ASSUME NEW j \in Jobs, ~Crash,
             (\E request \in Requests : Ensure(j, request)) \/ Stop(j) \/ Complete(j)
      PROVE  JobsWrite'
  <2>1. writer' = writer
    BY <1>6 DEF Ensure, Stop, Complete, storeVars
  <2>2. /\ Hands(j) /\ job[j].pc \in {"none", "ended", "turn"} /\ job'[j].pc \in {"plan", "ended"}
    BY <1>6, ControlIsGood, MovesHands
  <2> QED
    BY <1>3, <1>6, <2>1, <2>2
<1>7. ASSUME NEW j \in Jobs, ~Crash, Cancel(j) PROVE JobsWrite'
  <2>1. writer' = writer
    BY <1>7 DEF Cancel, storeVars
  <2>2. Moves(j) /\ job'[j].pc = job[j].pc /\ job'[j].chunks = job[j].chunks
    BY <1>7, CancelIsGood DEF Same
  <2> QED
    BY <1>2, <1>7, <2>1, <2>2, WriteKept, MovesHands
<1>8. ASSUME NEW j \in Jobs, ~Crash, NextChunk(j) PROVE JobsWrite'
  <2>1. writer' = writer /\ (free > 0 \/ free = 0)
    BY <1>8 DEF NextChunk, storeVars
  <2>2. \E to \in {"fetch", "queued"} : Works(j, "turn", to)
    BY <1>1, <1>8, <2>1, TurnWorks, TurnWaits
  <2> QED
    BY <1>4, <1>8, <2>1, <2>2
<1>9. ASSUME NEW j \in Jobs, ~Crash,
             JoinCell(j) \/ StartFetch(j) \/ FetchOk(j) \/ FetchFails(j) \/ ShareResult(j) \/ Retry(j)
      PROVE  JobsWrite'
  <2>1. writer' = writer
    BY <1>9 DEF JoinCell, StartFetch, FetchOk, FetchFails, ShareResult, Retry, storeVars
  <2>2. \E from \in {"fetch", "awaiting", "fetching", "backoff"},
           to \in {"fetch", "awaiting", "fetching", "leaving"} : Works(j, from, to)
    <3>1. Placed(job[j])
      BY <1>1 DEF JobsPlaced
    <3>2. CASE JoinCell(j)
      BY <1>1, <3>1, <3>2, JoinCellWorks
    <3>3. CASE StartFetch(j)
      BY <1>1, <3>3, StartFetchWorks
    <3>4. CASE FetchOk(j)
      BY <1>1, <3>4, FetchOkWorks
    <3>5. CASE FetchFails(j)
      BY <1>1, <3>5, FetchFailsWorks
    <3>6. CASE ShareResult(j)
      BY <1>1, <3>6, ShareResultWorks
    <3>7. CASE Retry(j)
      BY <1>1, <3>1, <3>7, RetryWorks
    <3> QED
      BY <1>9, <3>2, <3>3, <3>4, <3>5, <3>6, <3>7
  <2> QED
    BY <1>4, <1>9, <2>1, <2>2
<1>10. ASSUME NEW j \in Jobs, ~Crash, LeaveCell(j) PROVE JobsWrite'
  <2>1. writer' = writer
    BY <1>10 DEF LeaveCell, storeVars
  <2>2. CASE Works(j, "leaving", "write") \/ Works(j, "leaving", "backoff")
    BY <1>4, <1>10, <2>1, <2>2
  <2>3. CASE job[j].pc = "leaving" /\ Hands(j) /\ job'[j] = Ended(j, "failed")
    <3>1. job'[j].pc = "ended"
      BY <1>1, <2>3, EndedRecord
    <3> QED
      BY <1>3, <1>10, <2>1, <2>3, <3>1
  <2> QED
    BY <1>1, <1>10, <2>2, <2>3, LeaveCellHands
<1>11. ASSUME NEW j \in Jobs, ~Crash, SkipWrite(j) PROVE JobsWrite'
  <2>1. writer' = writer /\ history' = history /\ Bars(j) = {}
    BY <1>11 DEF SkipWrite, storeVars
  <2>2. Works(j, "write", "edge")
    BY <1>1, <1>11, SkipWriteWorks
  <2>3. Chunk(j)' = Chunk(j)
    BY <2>2, SameChunk DEF Works, Same
  <2>4. writer'[j].stage = "idle" /\ job'[j].pc = "edge" /\ Bars(j)' = {}
    BY <1>1, <2>1, <2>2, <2>3 DEF WriterAgrees, Works, Bars
  <2>5. WriterAgrees(j)'
    BY <2>4 DEF WriterAgrees
  <2> QED
    BY <1>2, <1>11, <2>1, <2>2, <2>5, MovesHands DEF Works
<1>12. ASSUME NEW j \in Jobs, ~Crash, ReadEdge(j) \/ MoveEdge(j) PROVE JobsWrite'
  <2>1. writer' = writer
    BY <1>12 DEF ReadEdge, MoveEdge, storeVars
  <2>2. \E from \in {"edge", "edgeRead"}, to \in {"edgeRead", "commit"} : Works(j, from, to)
    BY <1>1, <1>12, ReadEdgeWorks, MoveEdgeWorks
  <2>3. /\ job[j].pc \in {"edge", "edgeRead"} /\ job'[j].pc \in {"edgeRead", "commit"}
        /\ job'[j].chunks = job[j].chunks /\ Moves(j)
    BY <2>2 DEF Works, Same
  <2>4. WriterAgrees(j)'
    BY <1>12, <2>1, <2>3, WriteKept
  <2> QED
    BY <1>2, <1>12, <2>1, <2>3, <2>4, MovesHands
<1>13. ASSUME NEW j \in Jobs, ~Crash, EdgeFails(j) \/ CommitChunk(j) PROVE JobsWrite'
  <2>1. writer' = writer
    BY <1>13 DEF EdgeFails, CommitChunk, storeVars
  <2>2. /\ Hands(j) /\ job[j].pc # "writing" /\ job'[j].pc \in {"turn", "ended"}
    BY <1>13, GivingBackIsGood DEF EdgeFails, CommitChunk
  <2> QED
    BY <1>3, <1>13, <2>1, <2>2
<1>14. ASSUME NEW j \in Jobs, ~Crash, StartWrite(j) \/ EndWrite(j) PROVE JobsWrite'
  <2>1. Hands(j)
    BY <1>14, JobStepIsGood DEF Advance, StartWrite, EndWrite, Write, Store!PlaceFile,
       Store!Unlink, Store!FinishWrite, Store!FailWrite, Store!BeginWrite, Store!RefuseWrite,
       Store!CollectWrite
  <2> QED
    BY <1>2, <1>14, <2>1, StartWriteAgrees, EndWriteAgrees
<1>15. ASSUME NEW j \in Jobs, ~Crash, Write(j) PROVE JobsWrite'
  <2>1. Hands(j)
    BY <1>1, <1>15 DEF Write, Hands, LoaderTypes
  <2> QED
    BY <1>2, <1>15, <2>1, WriteAgrees
<1>16. CASE ~Crash /\ (DeleteSeries \/ UNCHANGED vars)
  <2>1. job' = job /\ writer' = writer
    BY <1>16 DEF DeleteSeries, Store!DeleteSeries, vars
  <2> QED
    BY <1>16, <2>1, WriteKept
<1>17. CASE Crash
  <2>1. \A k \in Jobs : job'[k] = NoJob /\ writer'[k].stage = "idle"
    BY <1>17 DEF Crash, Store!Crash, Store!Idle
  <2> QED
    BY <2>1, NoJobRecord, NoWriteAgrees
<1> QED
  BY <1>5, <1>6, <1>7, <1>8, <1>9, <1>10, <1>11, <1>12, <1>13, <1>14, <1>15, <1>16, <1>17
  DEF Next, Advance

-----------------------------------------------------------------------------
(* The gate. *)

Holders == {k \in Jobs : job[k].pc \in Holding}
Waiters == {k \in Jobs : job[k].pc = "queued"}

GateTypes == capacity \in Capacities /\ free \in 0 .. capacity /\ queue \in Seq(Jobs)

\* The number of jobs that hold a slot.
LEMMA HoldersCount ==
  /\ IsFiniteSet(Holders) /\ Cardinality(Holders) \in Nat
  /\ IsFiniteSet(Holders)' /\ Cardinality(Holders)' \in Nat
<1>1. Holders \in SUBSET Jobs /\ Holders' \in SUBSET Jobs
  BY DEF Holders
<1>2. IsFiniteSet(Holders) /\ IsFiniteSet(Holders)'
  BY <1>1, LoaderAssumption, FS_Subset
<1> QED
  BY <1>2, FS_CardinalityType

\* A step that moves no job in or out of a slot or the queue leaves the gate right.
LEMMA GateKept ==
  ASSUME LoaderInv, UNCHANGED gateVars, job' \in [Jobs -> JobRecord],
         \A k \in Jobs : /\ job'[k].pc \in Holding <=> job[k].pc \in Holding
                         /\ job'[k].pc = "queued" <=> job[k].pc = "queued"
  PROVE  GateAgrees' /\ GateTypes'
<1>1. Holders' = Holders /\ Waiters' = Waiters
  BY DEF Holders, Waiters
<1>2. GateAgrees /\ GateTypes
  BY DEF LoaderInv, LoaderTypes, GateTypes
<1>3. free' = free /\ queue' = queue /\ capacity' = capacity
  BY DEF gateVars
<1>4. GateTypes'
  BY <1>2, <1>3 DEF GateTypes
<1> QED
  BY <1>1, <1>2, <1>3, <1>4 DEF GateAgrees, Holders, Waiters

\* A slot that is given back is free, or another's.
LEMMA ReleaseKeepsGate ==
  ASSUME LoaderInv, NEW j \in Jobs, job[j].pc \in Holding,
         NEW n, job'[j] = n, Hands(j), Release(j, n), n.pc \notin Holding \cup {"queued"}
  PROVE  GateAgrees' /\ GateTypes'
<1>1. /\ LoaderTypes /\ GateAgrees /\ GateTypes /\ capacity' = capacity
      /\ capacity \in Nat /\ free \in Nat
  BY SizesAssumption DEF LoaderInv, LoaderTypes, GateTypes, Release
<1>2. free + Cardinality(Holders) = capacity /\ j \in Holders /\ j \notin Waiters
  BY <1>1 DEF GateAgrees, Holders, Waiters, Holding
<1>3. IsFiniteSet(Holders) /\ Cardinality(Holders) \in Nat
  BY HoldersCount
<1>4. IsFiniteSet(Holders \ {j}) /\ Cardinality(Holders \ {j}) = Cardinality(Holders) - 1
  BY <1>2, <1>3, FS_RemoveElement
<1>5. CASE queue = <<>>
  <2>1. Waiters = {}
    BY <1>1, <1>5 DEF GateAgrees, ToSet, Waiters
  <2>2. free' = free + 1 /\ queue' = queue
    BY <1>5 DEF Release
  <2>3. \A k \in Jobs \ {j} : job'[k] = job[k]
    BY <2>1 DEF Hands, Waiters
  <2>4. Holders' = Holders \ {j} /\ Waiters' = {}
    BY <2>1, <2>3 DEF Holders, Waiters
  <2>5. free' + Cardinality(Holders') = capacity'
    BY <1>1, <1>2, <1>3, <1>4, <2>2, <2>4
  <2>6. GateAgrees'
    BY <1>1, <1>5, <2>1, <2>2, <2>4, <2>5 DEF GateAgrees, Holders, Waiters
  <2>7. free' \in 0 .. capacity'
    BY <1>1, <2>2, <2>5, HoldersCount
  <2> QED
    BY <1>1, <2>2, <2>6, <2>7 DEF GateTypes
<1>6. CASE queue # <<>>
  <2> DEFINE q == queue[Served]
  <2>1. Served \in DOMAIN queue /\ q \in Waiters /\ queue \in Seq(Jobs) /\ q # j
    BY <1>1, <1>2, <1>6, ServedIsWaiting DEF Waiters, GateTypes
  <2>2. free' = free /\ free = 0 /\ queue' = RemoveAt(queue, Served)
    BY <1>1, <1>6 DEF Release, GateAgrees
  <2>3. job' = [job EXCEPT ![j] = n, ![q].pc = "fetch"]
    BY <1>6 DEF Release
  <2> HIDE DEF q
  <2>4. job'[q].pc = "fetch" /\ \A k \in Jobs \ {j, q} : job'[k] = job[k]
    <3>1. job[q] \in JobRecord
      BY <1>1, <2>1 DEF LoaderTypes, Waiters
    <3>2. job' = [[job EXCEPT ![j] = n] EXCEPT ![q] = [job[q] EXCEPT !.pc = "fetch"]]
      BY <1>1, <2>1, <2>3 DEF LoaderTypes, Waiters
    <3> QED
      BY <1>1, <2>1, <3>1, <3>2 DEF LoaderTypes, Waiters, JobRecord
  <2>5. Holders' = (Holders \ {j}) \cup {q} /\ Waiters' = Waiters \ {q} /\ q \notin Holders
    BY <2>1, <2>4 DEF Holders, Waiters, Holding
  <2>6. Cardinality(Holders') = Cardinality(Holders)
    <3>1. Cardinality((Holders \ {j}) \cup {q}) = Cardinality(Holders \ {j}) + 1
      BY <1>4, <2>5, FS_AddElement
    <3> QED
      BY <1>3, <1>4, <2>5, <3>1
  <2>7. /\ queue' \in Seq(Jobs)
        /\ ToSet(queue') = ToSet(queue) \ {q} /\ IsInjective(queue')
    BY <1>1, <2>1, <2>2, RemoveAtEntries, RemoveAtTakesOne DEF GateAgrees, q
  <2>8. GateAgrees'
    BY <1>1, <1>2, <2>2, <2>5, <2>6, <2>7 DEF GateAgrees, Holders, Waiters
  <2> QED
    BY <1>1, <2>2, <2>7, <2>8 DEF GateTypes
<1> QED
  BY <1>5, <1>6

\* A slot is taken, or waited for at the end of the queue.
LEMMA NextChunkKeepsGate ==
  ASSUME LoaderInv, NEW j \in Jobs, NextChunk(j)
  PROVE  GateAgrees' /\ GateTypes'
<1>1. /\ LoaderTypes /\ GateAgrees /\ GateTypes /\ capacity' = capacity
      /\ capacity \in Nat /\ free \in Nat
  BY SizesAssumption DEF LoaderInv, LoaderTypes, GateTypes, NextChunk
<1>2. free + Cardinality(Holders) = capacity /\ j \notin Holders /\ j \notin Waiters
  BY <1>1 DEF GateAgrees, Holders, Waiters, Holding, NextChunk
<1>3. IsFiniteSet(Holders) /\ Cardinality(Holders) \in Nat
  BY HoldersCount
<1>4. CASE free > 0
  <2>1. Works(j, "turn", "fetch")
    BY <1>1, <1>4, TurnWorks
  <2>2. free' = free - 1 /\ queue' = queue
    BY <1>1, <1>4 DEF NextChunk
  <2>3. job'[j].pc = "fetch" /\ \A k \in Jobs \ {j} : job'[k] = job[k]
    BY <2>1 DEF Works, Moves
  <2>4. Holders' = Holders \cup {j} /\ Waiters' = Waiters
    BY <1>2, <2>3 DEF Holders, Waiters, Holding
  <2>5. Cardinality(Holders') = Cardinality(Holders) + 1
    BY <1>2, <1>3, <2>4, FS_AddElement
  <2>6. queue = <<>>
    BY <1>1, <1>4 DEF GateAgrees
  <2>7. free' + Cardinality(Holders') = capacity'
    BY <1>1, <1>2, <1>3, <2>2, <2>5
  <2>8. GateAgrees'
    BY <1>1, <2>2, <2>4, <2>6, <2>7 DEF GateAgrees, Holders, Waiters
  <2>9. free' \in 0 .. capacity'
    BY <1>1, <1>4, <2>2 DEF GateTypes
  <2> QED
    BY <1>1, <2>2, <2>8, <2>9 DEF GateTypes
<1>5. CASE free = 0
  <2>1. Works(j, "turn", "queued")
    BY <1>1, <1>5, TurnWaits
  <2>2. free' = free /\ queue' = Append(queue, j)
    BY <1>1, <1>5 DEF NextChunk
  <2>3. job'[j].pc = "queued" /\ \A k \in Jobs \ {j} : job'[k] = job[k]
    BY <2>1 DEF Works, Moves
  <2>4. Holders' = Holders /\ Waiters' = Waiters \cup {j}
    BY <1>2, <2>3 DEF Holders, Waiters, Holding
  <2>5. /\ queue \in Seq(Jobs) /\ queue' \in Seq(Jobs) /\ Len(queue') = Len(queue) + 1
        /\ \A i \in 1 .. Len(queue) : queue'[i] = queue[i]
        /\ queue'[Len(queue) + 1] = j /\ Len(queue) \in Nat
    BY <1>1, <2>2 DEF GateTypes
  <2>6. ToSet(queue') = ToSet(queue) \cup {j}
    <3>1. DOMAIN queue = 1 .. Len(queue) /\ DOMAIN queue' = 1 .. (Len(queue) + 1)
      BY <2>5
    <3>2. ASSUME NEW i \in DOMAIN queue' PROVE queue'[i] \in ToSet(queue) \cup {j}
      <4>1. i = Len(queue) + 1 \/ i \in 1 .. Len(queue)
        BY <2>5, <3>1
      <4> QED
        BY <2>5, <3>1, <4>1 DEF ToSet
    <3>3. ASSUME NEW i \in DOMAIN queue PROVE queue[i] \in ToSet(queue')
      <4>1. i \in DOMAIN queue' /\ queue'[i] = queue[i]
        BY <2>5, <3>1
      <4> QED
        BY <4>1 DEF ToSet
    <3>4. j \in ToSet(queue')
      <4>1. Len(queue) + 1 \in DOMAIN queue'
        BY <2>5, <3>1
      <4> QED
        BY <2>5, <4>1 DEF ToSet
    <3> QED
      BY <3>2, <3>3, <3>4 DEF ToSet
  <2>7. IsInjective(queue')
    <3>1. \A i \in DOMAIN queue : queue[i] # j
      BY <1>1, <1>2 DEF GateAgrees, ToSet, Waiters
    <3>2. DOMAIN queue = 1 .. Len(queue) /\ DOMAIN queue' = 1 .. (Len(queue) + 1)
      BY <2>5
    <3>3. \A i, k \in 1 .. Len(queue) : queue[i] = queue[k] => i = k
      BY <1>1, <3>2 DEF GateAgrees, IsInjective
    <3> QED
      BY <2>5, <3>1, <3>2, <3>3 DEF IsInjective
  <2>8. ToSet(queue') = Waiters'
    BY <1>1, <2>4, <2>6 DEF GateAgrees, Waiters
  <2>9. GateAgrees'
    BY <1>1, <1>2, <1>5, <2>2, <2>4, <2>7, <2>8 DEF GateAgrees, Holders, Waiters
  <2> QED
    BY <1>1, <2>2, <2>5, <2>9 DEF GateTypes
<1> QED
  BY <1>1, <1>4, <1>5

\* The gate keeps its slots.
LEMMA GateStep == LoaderInv /\ [Next]_vars => GateAgrees' /\ GateTypes'
<1> SUFFICES ASSUME LoaderInv, [Next]_vars PROVE GateAgrees' /\ GateTypes'
  OBVIOUS
<1>1. LoaderTypes /\ GateAgrees /\ JobsPlaced /\ job' \in [Jobs -> JobRecord]
  BY RecordsStep DEF LoaderInv
<1>2. ASSUME NEW j \in Jobs, UNCHANGED gateVars, Moves(j),
             job'[j].pc \in Holding <=> job[j].pc \in Holding,
             job'[j].pc # "queued", job[j].pc # "queued"
      PROVE  GateAgrees' /\ GateTypes'
  <2>1. \A k \in Jobs : /\ job'[k].pc \in Holding <=> job[k].pc \in Holding
                        /\ job'[k].pc = "queued" <=> job[k].pc = "queued"
    BY <1>2 DEF Moves
  <2> QED
    BY <1>1, <1>2, <2>1, GateKept
<1>3. ASSUME NEW j \in Jobs, LookUp(j) \/ List(j) \/ ListFails(j) \/ Remember(j)
      PROVE  GateAgrees' /\ GateTypes'
  <2>1. UNCHANGED gateVars
    BY <1>3 DEF LookUp, List, ListFails, Remember
  <2>2. Moves(j) /\ job[j].pc \in Looking /\ job'[j].pc \in Looking \cup {"turn", "ended"}
    BY <1>3, PlanningIsGood
  <2> QED
    BY <1>2, <2>1, <2>2 DEF Looking, Holding
<1>4. ASSUME NEW j \in Jobs,
             (\E request \in Requests : Ensure(j, request)) \/ Stop(j) \/ Complete(j)
      PROVE  GateAgrees' /\ GateTypes'
  <2>1. UNCHANGED gateVars
    BY <1>4 DEF Ensure, Stop, Complete
  <2>2. Moves(j) /\ job[j].pc \in {"none", "ended", "turn"} /\ job'[j].pc \in {"plan", "ended"}
    BY <1>4, ControlIsGood
  <2> QED
    BY <1>2, <2>1, <2>2 DEF Holding
<1>5. ASSUME NEW j \in Jobs, Cancel(j) PROVE GateAgrees' /\ GateTypes'
  <2>1. UNCHANGED gateVars
    BY <1>5 DEF Cancel
  <2>2. Moves(j) /\ job'[j].pc = job[j].pc
    BY <1>5, CancelIsGood
  <2>3. \A k \in Jobs : job'[k].pc = job[k].pc
    BY <2>2 DEF Moves
  <2> QED
    BY <1>1, <2>1, <2>3, GateKept
<1>6. ASSUME NEW j \in Jobs, UNCHANGED gateVars, NEW from \in Holding, NEW to \in Holding, Works(j, from, to)
      PROVE  GateAgrees' /\ GateTypes'
  BY <1>2, <1>6 DEF Works, Holding
<1>7. ASSUME NEW j \in Jobs,
             \/ JoinCell(j) \/ StartFetch(j) \/ FetchOk(j) \/ FetchFails(j) \/ ShareResult(j)
             \/ Retry(j) \/ SkipWrite(j) \/ StartWrite(j) \/ ReadEdge(j) \/ MoveEdge(j)
      PROVE  GateAgrees' /\ GateTypes'
  <2>1. UNCHANGED gateVars
    BY <1>7 DEF JoinCell, StartFetch, FetchOk, FetchFails, ShareResult, Retry, SkipWrite,
                StartWrite, ReadEdge, MoveEdge
  <2>2. \E from \in Holding, to \in Holding : Works(j, from, to)
    <3>1. Placed(job[j])
      BY <1>1 DEF JobsPlaced
    <3>2. JoinCell(j) => Works(j, "fetch", "awaiting")
      BY <1>1, <3>1, JoinCellWorks
    <3>3. StartFetch(j) => Works(j, "awaiting", "fetching")
      BY <1>1, StartFetchWorks
    <3>4. FetchOk(j) \/ FetchFails(j) => Works(j, "fetching", "leaving")
      BY <1>1, FetchOkWorks, FetchFailsWorks
    <3>5. ShareResult(j) => Works(j, "awaiting", "leaving")
      BY <1>1, ShareResultWorks
    <3>6. Retry(j) => Works(j, "backoff", "fetch")
      BY <1>1, <3>1, RetryWorks
    <3>7. SkipWrite(j) => Works(j, "write", "edge")
      BY <1>1, SkipWriteWorks
    <3>8. StartWrite(j) => Works(j, "write", "writing")
      BY <1>1, StartWriteWorks
    <3>9. ReadEdge(j) => Works(j, "edge", "edgeRead")
      BY <1>1, ReadEdgeWorks
    <3>10. MoveEdge(j) => Works(j, "edgeRead", "commit")
      BY <1>1, MoveEdgeWorks
    <3> QED
      BY <1>7, <3>2, <3>3, <3>4, <3>5, <3>6, <3>7, <3>8, <3>9, <3>10 DEF Holding
  <2> QED
    BY <1>6, <2>1, <2>2
<1>8. ASSUME NEW j \in Jobs, EndWrite(j) /\ writer[j].stage = "written"
      PROVE  GateAgrees' /\ GateTypes'
  <2>1. UNCHANGED gateVars
    BY <1>8 DEF EndWrite
  <2>2. Works(j, "writing", "edge")
    BY <1>1, <1>8, EndWriteWorks
  <2> QED
    BY <1>6, <2>1, <2>2 DEF Holding
<1>9. ASSUME NEW j \in Jobs,
             EdgeFails(j) \/ CommitChunk(j) \/ (EndWrite(j) /\ writer[j].stage = "failed")
      PROVE  GateAgrees' /\ GateTypes'
  <2>1. /\ Hands(j) /\ job[j].pc \in Holding /\ job'[j].pc \in {"turn", "ended"}
        /\ \E n : Release(j, n) /\ job'[j] = n
    BY <1>9, GivingBackIsGood
  <2>2. job'[j].pc \notin Holding \cup {"queued"}
    BY <2>1 DEF Holding
  <2> QED
    BY <2>1, <2>2, ReleaseKeepsGate
<1>10. ASSUME NEW j \in Jobs, LeaveCell(j) PROVE GateAgrees' /\ GateTypes'
  <2>1. CASE Works(j, "leaving", "write") /\ UNCHANGED gateVars
    BY <1>6, <2>1 DEF Holding
  <2>2. CASE Works(j, "leaving", "backoff") /\ UNCHANGED gateVars
    BY <1>6, <2>2 DEF Holding
  <2>3. CASE /\ job[j].pc = "leaving" /\ Hands(j) /\ job'[j] = Ended(j, "failed")
             /\ Release(j, Ended(j, "failed"))
    <3>1. Ended(j, "failed").pc = "ended"
      BY <1>1, EndedRecord
    <3>2. job[j].pc \in Holding /\ Ended(j, "failed").pc \notin Holding \cup {"queued"}
      BY <2>3, <3>1 DEF Holding
    <3> QED
      BY <2>3, <3>2, ReleaseKeepsGate
  <2> QED
    BY <1>1, <1>10, <2>1, <2>2, <2>3, LeaveCellHands
<1>11. CASE Crash
  <2>1. /\ capacity' = capacity /\ free' = capacity /\ queue' = <<>>
        /\ \A k \in Jobs : job'[k] = NoJob
    BY <1>11 DEF Crash
  <2>2. Holders' = {} /\ Waiters' = {}
    BY <2>1, NoJobRecord DEF Holders, Waiters, Holding
  <2>3. Cardinality(Holders') = 0
    BY <2>2, FS_EmptySet
  <2>4. capacity \in Capacities /\ capacity \in Nat
    BY <1>1, SizesAssumption DEF LoaderTypes
  <2>5. ToSet(queue') = {} /\ IsInjective(queue') /\ queue' \in Seq(Jobs)
    BY <2>1 DEF ToSet, IsInjective
  <2> QED
    BY <2>1, <2>2, <2>3, <2>4, <2>5 DEF GateAgrees, GateTypes, Holders, Waiters
<1>12. CASE DeleteSeries \/ UNCHANGED vars \/ \E j \in Jobs : Write(j)
  <2>1. job' = job /\ UNCHANGED gateVars
    BY <1>12 DEF DeleteSeries, vars, gateVars, Write
  <2> QED
    BY <1>1, <2>1, GateKept
<1>13. \A j \in Jobs : EndWrite(j) => writer[j].stage \in {"written", "failed"}
  BY DEF EndWrite
<1> QED
  BY <1>3, <1>4, <1>5, <1>7, <1>8, <1>9, <1>10, <1>11, <1>12, <1>13, NextChunkKeepsGate
  DEF Next, Advance

-----------------------------------------------------------------------------
(* The single flights. *)

FlightTypes == /\ flight \in [Ranges -> Jobs \cup {NoCell}]
               /\ cell \in [Jobs -> [ready : BOOLEAN, runner : BOOLEAN]]

\* The jobs that run the fetch of cell i.
Runners(i) == {k \in Jobs : job[k].pc = "fetching" /\ job[k].cell = i}

Mapped == \A c \in Ranges : flight[c] # NoCell =>
            \E k \in Jobs : job[k].cell = flight[c] /\ Chunk(k) = c
Alike == \A k, l \in Jobs :
           job[k].cell = job[l].cell /\ job[k].cell # NoCell => Chunk(k) = Chunk(l)
OneRunner(i) == Cardinality(Runners(i)) = IF cell[i].runner THEN 1 ELSE 0

\* FlightAgrees, part by part.
LEMMA FlightParts == FlightAgrees <=> Mapped /\ Alike /\ \A i \in Jobs : OneRunner(i)
BY DEF FlightAgrees, Mapped, Alike, OneRunner, Runners

\* The same of the next state.
LEMMA FlightPartsNext == FlightAgrees' <=> Mapped' /\ Alike' /\ \A i \in Jobs : OneRunner(i)'
BY DEF FlightAgrees, Mapped, Alike, OneRunner, Runners

\* No job is on more cells, and none on a cell changes its chunk.
OnSameCells(K) ==
  \A k \in K : /\ job'[k].cell = job[k].cell
               /\ job[k].cell # NoCell => job'[k].chunks = job[k].chunks

\* A fetch begins or ends for nobody but those left out.
SameRunners(K) ==
  \A k \in K : job[k].cell # NoCell => (job'[k].pc = "fetching" <=> job[k].pc = "fetching")

\* A cell whose fetch nobody begins or ends has as many runners as before.
LEMMA RunnersKept ==
  ASSUME NEW i \in Jobs, OneRunner(i), cell'[i].runner = cell[i].runner,
         \A k \in Jobs : (job'[k].pc = "fetching" /\ job'[k].cell = i)
                           <=> (job[k].pc = "fetching" /\ job[k].cell = i)
  PROVE  OneRunner(i)'
<1>1. Runners(i)' = Runners(i)
  BY DEF Runners
<1> QED
  BY <1>1 DEF OneRunner

\* The map agrees as before where nobody changes cells.
LEMMA MapKept ==
  ASSUME Mapped, Alike, flight' = flight, OnSameCells(Jobs)
  PROVE  Mapped' /\ Alike'
<1>1. \A k \in Jobs : job[k].cell # NoCell => Chunk(k)' = Chunk(k)
  BY SameChunk DEF OnSameCells
<1>2. Mapped'
  BY <1>1 DEF Mapped, OnSameCells
<1>3. Alike'
  BY <1>1 DEF Alike, OnSameCells
<1> QED
  BY <1>2, <1>3

\* A step that takes and leaves no cell, and starts and ends no fetch.
LEMMA FlightKept ==
  ASSUME LoaderInv, UNCHANGED flightVars, OnSameCells(Jobs), SameRunners(Jobs)
  PROVE  FlightAgrees' /\ FlightTypes'
<1>1. FlightTypes /\ Mapped /\ Alike /\ (\A i \in Jobs : OneRunner(i))
  BY FlightParts DEF LoaderInv, LoaderTypes, FlightTypes
<1>2. flight' = flight /\ cell' = cell
  BY DEF flightVars
<1>3. Mapped' /\ Alike'
  BY <1>1, <1>2, MapKept
<1>4. ASSUME NEW i \in Jobs PROVE OneRunner(i)'
  <2>1. i # NoCell
    BY LoaderAssumption
  <2> QED
    BY <1>1, <1>2, <2>1, RunnersKept DEF OnSameCells, SameRunners
<1>5. FlightTypes'
  BY <1>1, <1>2 DEF FlightTypes
<1> QED
  BY <1>3, <1>4, <1>5, FlightPartsNext

\* The jobs other than the one that moves stay on their cells.
LEMMA OthersStay ==
  ASSUME LoaderInv, NEW j \in Jobs, Hands(j)
  PROVE  OnSameCells(Jobs \ {j}) /\ SameRunners(Jobs \ {j})
<1>1. ASSUME NEW k \in Jobs \ {j}
      PROVE  /\ job'[k].cell = job[k].cell /\ job'[k].chunks = job[k].chunks
             /\ job[k].cell # NoCell => (job'[k].pc = "fetching" <=> job[k].pc = "fetching")
  <2>1. CASE job'[k] = job[k]
    BY <2>1
  <2>2. CASE job[k].pc = "queued" /\ job'[k] = [job[k] EXCEPT !.pc = "fetch"]
    <3>1. job[k] \in JobRecord /\ Good(job[k])
      BY JobsGood DEF LoaderInv, LoaderTypes
    <3> QED
      BY <2>2, <3>1, HandedIsGood DEF Same
  <2> QED
    BY <2>1, <2>2 DEF Hands
<1> QED
  BY <1>1 DEF OnSameCells, SameRunners

\* A job that is on no cell before and after changes nothing in the map.
LEMMA OffCellKeepsFlight ==
  ASSUME LoaderInv, UNCHANGED flightVars, NEW j \in Jobs, Hands(j),
         job[j].cell = NoCell, job'[j].cell = NoCell
  PROVE  FlightAgrees' /\ FlightTypes'
<1>1. OnSameCells(Jobs) /\ SameRunners(Jobs)
  BY OthersStay DEF OnSameCells, SameRunners
<1> QED
  BY <1>1, FlightKept

\* A cell that is joined, or put into the map by the first who wants the chunk.
LEMMA JoinCellKeepsFlight ==
  ASSUME LoaderInv, NEW j \in Jobs, JoinCell(j)
  PROVE  FlightAgrees' /\ FlightTypes'
<1>1. /\ LoaderTypes /\ FlightTypes /\ Mapped /\ Alike /\ (\A i \in Jobs : OneRunner(i))
      /\ Placed(job[j]) /\ job[j] \in JobRecord /\ job[j].pc = "fetch"
  BY FlightParts DEF LoaderInv, LoaderTypes, FlightTypes, JobsPlaced, JoinCell
<1>2. job[j].cell = NoCell /\ Chunk(j) \in Ranges
  <2>1. job[j].chunks # {} /\ job[j].chunks \subseteq Ranges /\ job[j].cell = NoCell
    BY <1>1 DEF Placed, Holding, OnCell, JobRecord
  <2> QED
    BY <2>1, ChunkIsChunk
<1>3. /\ Works(j, "fetch", "awaiting") /\ job'[j].cell \in Jobs
      /\ \/ flight[Chunk(j)] # NoCell /\ job'[j].cell = flight[Chunk(j)]
         \/ flight[Chunk(j)] = NoCell /\ job'[j].cell = UnusedCell
  BY <1>1, JoinCellWorks
<1>4. /\ job'[j].pc = "awaiting" /\ job'[j].chunks = job[j].chunks
      /\ \A k \in Jobs \ {j} : job'[k] = job[k]
  BY <1>3 DEF Works, Moves, Same
<1>5. \A k \in Jobs : Chunk(k)' = Chunk(k)
  BY <1>4, SameChunk
<1>6. \A k \in Jobs, i \in Jobs : (job'[k].pc = "fetching" /\ job'[k].cell = i)
                                    <=> (job[k].pc = "fetching" /\ job[k].cell = i)
  BY <1>1, <1>4
<1> DEFINE c == Chunk(j)
<1>7. CASE flight[c] # NoCell
  <2>1. flight' = flight /\ cell' = cell /\ job'[j].cell = flight[c]
    BY <1>3, <1>7 DEF JoinCell, flightVars
  <2>2. PICK l \in Jobs : job[l].cell = flight[c] /\ Chunk(l) = c
    BY <1>1, <1>2, <1>7 DEF Mapped
  <2>3. l # j
    BY <1>2, <1>7, <2>2
  <2> HIDE DEF c
  <2>4. Mapped'
    <3> SUFFICES ASSUME NEW d \in Ranges, flight'[d] # NoCell
                 PROVE  \E k \in Jobs : job'[k].cell = flight'[d] /\ Chunk(k)' = d
      BY DEF Mapped
    <3>1. PICK k \in Jobs : job[k].cell = flight[d] /\ Chunk(k) = d
      BY <1>1, <2>1 DEF Mapped
    <3>2. k # j
      BY <1>2, <2>1, <3>1
    <3> QED
      BY <1>4, <1>5, <2>1, <3>1, <3>2
  <2>5. ASSUME NEW k \in Jobs \ {j}, job'[k].cell = job'[j].cell PROVE Chunk(k)' = Chunk(j)'
    <3>1. job[k].cell = job[l].cell /\ job[l].cell # NoCell
      BY <1>4, <1>7, <2>1, <2>2, <2>5
    <3>2. Chunk(k) = Chunk(l)
      BY <1>1, <3>1 DEF Alike
    <3> QED
      BY <1>5, <2>2, <3>2 DEF c
  <2>6. Alike'
    <3> SUFFICES ASSUME NEW k \in Jobs, NEW m \in Jobs,
                        job'[k].cell = job'[m].cell, job'[k].cell # NoCell
                 PROVE  Chunk(k)' = Chunk(m)'
      BY DEF Alike
    <3>1. CASE k = j \/ m = j
      BY <2>5, <3>1
    <3>2. CASE k # j /\ m # j
      BY <1>1, <1>4, <1>5, <3>2 DEF Alike
    <3> QED
      BY <3>1, <3>2
  <2>7. \A i \in Jobs : OneRunner(i)'
    BY <1>1, <1>6, <2>1, RunnersKept
  <2> QED
    BY <1>1, <2>1, <2>4, <2>6, <2>7, FlightPartsNext DEF FlightTypes
<1>8. CASE flight[c] = NoCell
  <2>1. PICK u \in Jobs : u = UnusedCell /\ \A k \in Jobs : job[k].cell # u
    BY <1>2, UnusedCellExists
  <2>2. /\ flight' = [flight EXCEPT ![c] = u] /\ cell' = [cell EXCEPT ![u] = EmptyCell]
        /\ job'[j].cell = u
    BY <1>3, <1>8, <2>1 DEF JoinCell
  <2>3. u # NoCell
    BY <2>1, LoaderAssumption
  <2> HIDE DEF c
  <2>4. c \in Ranges /\ Chunk(j)' = c
    BY <1>2, <1>5 DEF c
  <2>5. FlightTypes'
    BY <1>1, <2>1, <2>2, <2>4 DEF FlightTypes, EmptyCell
  <2>6. Mapped'
    <3> SUFFICES ASSUME NEW d \in Ranges, flight'[d] # NoCell
                 PROVE  \E k \in Jobs : job'[k].cell = flight'[d] /\ Chunk(k)' = d
      BY DEF Mapped
    <3>1. CASE d = c
      BY <1>1, <2>2, <2>4, <3>1 DEF FlightTypes
    <3>2. CASE d # c
      <4>1. flight'[d] = flight[d]
        BY <1>1, <2>2, <3>2 DEF FlightTypes
      <4>2. PICK k \in Jobs : job[k].cell = flight[d] /\ Chunk(k) = d
        BY <1>1, <4>1 DEF Mapped
      <4>3. k # j
        BY <1>2, <4>1, <4>2
      <4> QED
        BY <1>4, <1>5, <4>1, <4>2, <4>3
    <3> QED
      BY <3>1, <3>2
  <2>7. Alike'
    <3> SUFFICES ASSUME NEW k \in Jobs, NEW m \in Jobs,
                        job'[k].cell = job'[m].cell, job'[k].cell # NoCell
                 PROVE  Chunk(k)' = Chunk(m)'
      BY DEF Alike
    <3>1. CASE k # j /\ m # j
      BY <1>1, <1>4, <1>5, <3>1 DEF Alike
    <3>2. CASE k = j \/ m = j
      <4>1. k = m
        BY <1>4, <2>1, <2>2, <3>2
      <4> QED
        BY <4>1
    <3> QED
      BY <3>1, <3>2
  <2>8. ASSUME NEW i \in Jobs PROVE OneRunner(i)'
    <3>1. CASE i = u
      <4>1. Runners(u)' = {}
        <5>1. ASSUME NEW k \in Jobs PROVE ~(job'[k].pc = "fetching" /\ job'[k].cell = u)
          <6>1. CASE k = j
            BY <1>4, <6>1
          <6>2. CASE k # j
            BY <1>4, <2>1, <6>2
          <6> QED
            BY <6>1, <6>2
        <5> QED
          BY <5>1 DEF Runners
      <4>2. cell'[u].runner = FALSE
        BY <1>1, <2>1, <2>2 DEF FlightTypes, EmptyCell
      <4>3. Cardinality({}) = 0
        BY FS_EmptySet
      <4>4. OneRunner(u)'
        BY <4>1, <4>2, <4>3 DEF OneRunner
      <4> QED
        BY <3>1, <4>4
    <3>2. CASE i # u
      <4>1. cell'[i].runner = cell[i].runner
        BY <1>1, <2>2, <3>2 DEF FlightTypes
      <4> QED
        BY <1>1, <1>6, <4>1, RunnersKept
    <3> QED
      BY <3>1, <3>2
  <2> QED
    BY <2>5, <2>6, <2>7, <2>8, FlightPartsNext
<1> QED
  BY <1>7, <1>8

\* A fetch that starts or ends: the cell of job j changes, and who runs it.
LEMMA FetchKeepsFlight ==
  ASSUME LoaderInv, NEW j \in Jobs, StartFetch(j) \/ FetchOk(j) \/ FetchFails(j)
  PROVE  FlightAgrees' /\ FlightTypes'
<1>1. /\ LoaderTypes /\ FlightTypes /\ Mapped /\ Alike /\ (\A i \in Jobs : OneRunner(i))
      /\ Placed(job[j]) /\ job[j] \in JobRecord
  BY FlightParts DEF LoaderInv, LoaderTypes, FlightTypes, JobsPlaced
<1>2. PICK from \in OnCell, to \in OnCell :
        /\ Works(j, from, to) /\ job'[j].cell = job[j].cell
        /\ \/ StartFetch(j) /\ from = "awaiting" /\ to = "fetching"
           \/ (FetchOk(j) \/ FetchFails(j)) /\ from = "fetching" /\ to = "leaving"
  <2>1. StartFetch(j) => Works(j, "awaiting", "fetching") /\ job'[j].cell = job[j].cell
    BY <1>1, StartFetchWorks
  <2>2. FetchOk(j) \/ FetchFails(j) =>
          Works(j, "fetching", "leaving") /\ job'[j].cell = job[j].cell
    BY <1>1, FetchOkWorks, FetchFailsWorks
  <2>3. "awaiting" \in OnCell /\ "fetching" \in OnCell /\ "leaving" \in OnCell
    BY DEF OnCell
  <2>4. CASE StartFetch(j)
    BY <2>1, <2>3, <2>4
  <2>5. CASE FetchOk(j) \/ FetchFails(j)
    BY <2>2, <2>3, <2>5
  <2> QED
    BY <2>4, <2>5
<1>3. /\ job[j].pc = from /\ job'[j].pc = to /\ job'[j].chunks = job[j].chunks
      /\ \A k \in Jobs \ {j} : job'[k] = job[k]
  BY <1>2 DEF Works, Moves, Same
<1>4. PICK i \in Jobs : job[j].cell = i
  BY <1>1, <1>3 DEF Placed, JobRecord
<1>5. flight' = flight
  BY DEF StartFetch, FetchOk, FetchFails
<1>6. Mapped' /\ Alike'
  <2>1. OnSameCells(Jobs)
    BY <1>2, <1>3 DEF OnSameCells
  <2> QED
    BY <1>1, <1>5, <2>1, MapKept
<1>7. IsFiniteSet(Runners(i)) /\ Cardinality({}) = 0 /\ Cardinality({j}) = 1
  <2>1. Runners(i) \in SUBSET Jobs
    BY DEF Runners
  <2> QED
    BY <2>1, LoaderAssumption, FS_Subset, FS_EmptySet, FS_Singleton
<1>8. /\ cell' \in [Jobs -> [ready : BOOLEAN, runner : BOOLEAN]]
      /\ \A k \in Jobs \ {i} : cell'[k] = cell[k]
      /\ cell'[i].runner = (to = "fetching")
  <2>1. CASE StartFetch(j) /\ to = "fetching"
    <3>1. cell' = [cell EXCEPT ![i].runner = TRUE]
      BY <1>4, <2>1 DEF StartFetch
    <3> QED
      BY <1>1, <2>1, <3>1 DEF FlightTypes
  <2>2. CASE FetchOk(j) /\ to = "leaving"
    <3>1. cell' = [cell EXCEPT ![i] = [ready |-> TRUE, runner |-> FALSE]]
      BY <1>4, <2>2 DEF FetchOk
    <3> QED
      BY <1>1, <2>2, <3>1 DEF FlightTypes
  <2>3. CASE FetchFails(j) /\ to = "leaving"
    <3>1. cell' = [cell EXCEPT ![i] = EmptyCell]
      BY <1>4, <2>3 DEF FetchFails
    <3> QED
      BY <1>1, <2>3, <3>1 DEF FlightTypes, EmptyCell
  <2> QED
    BY <1>2, <2>1, <2>2, <2>3
<1>9. ASSUME NEW k \in Jobs, k # i PROVE OneRunner(k)'
  <2>1. cell'[k].runner = cell[k].runner
    BY <1>8, <1>9
  <2>2. \A l \in Jobs : (job'[l].pc = "fetching" /\ job'[l].cell = k)
                          <=> (job[l].pc = "fetching" /\ job[l].cell = k)
    BY <1>2, <1>3, <1>4, <1>9
  <2> QED
    BY <1>1, <2>1, <2>2, RunnersKept
<1>10. OneRunner(i)'
  <2>1. CASE to = "fetching"
    <3>1. cell[i].runner = FALSE
      BY <1>2, <1>4, <2>1 DEF StartFetch, EmptyCell
    <3>2. Runners(i) = {}
      BY <1>1, <1>7, <3>1, FS_EmptySet DEF OneRunner
    <3>3. Runners(i)' = {j}
      BY <1>2, <1>3, <1>4, <2>1, <3>2 DEF Runners
    <3> QED
      BY <1>7, <1>8, <2>1, <3>3 DEF OneRunner
  <2>2. CASE from = "fetching" /\ to = "leaving"
    <3>1. j \in Runners(i)
      BY <1>3, <1>4, <2>2 DEF Runners
    <3>2. Cardinality(Runners(i)) # 0
      BY <1>7, <3>1, FS_EmptySet
    <3>3. Cardinality(Runners(i)) = 1
      BY <1>1, <3>2 DEF OneRunner
    <3>4. PICK x : Runners(i) = {x}
      BY <1>7, <3>3, FS_Singleton
    <3>5. Runners(i)' = {}
      <4>1. ASSUME NEW k \in Jobs PROVE ~(job'[k].pc = "fetching" /\ job'[k].cell = i)
        <5>1. CASE k = j
          BY <1>3, <2>2, <5>1
        <5>2. CASE k # j
          BY <1>3, <3>1, <3>4, <5>2 DEF Runners
        <5> QED
          BY <5>1, <5>2
      <4> QED
        BY <4>1 DEF Runners
    <3> QED
      BY <1>7, <1>8, <2>2, <3>5 DEF OneRunner
  <2> QED
    BY <1>2, <2>1, <2>2
<1>11. FlightTypes'
  BY <1>1, <1>5, <1>8 DEF FlightTypes
<1> QED
  BY <1>6, <1>9, <1>10, <1>11, FlightPartsNext

\* A job off its cell takes the cell out of the map, if it is the one there.
LEMMA LeaveCellKeepsFlight ==
  ASSUME LoaderInv, NEW j \in Jobs, LeaveCell(j)
  PROVE  FlightAgrees' /\ FlightTypes'
<1>1. /\ LoaderTypes /\ GateAgrees /\ FlightTypes /\ Mapped /\ Alike /\ (\A i \in Jobs : OneRunner(i))
      /\ Placed(job[j]) /\ job[j] \in JobRecord /\ job[j].pc = "leaving"
  BY FlightParts DEF LoaderInv, LoaderTypes, FlightTypes, JobsPlaced, LeaveCell
<1>2. Hands(j) /\ job'[j].cell = NoCell /\ job'[j].pc # "fetching"
  <2>1. Ended(j, "failed").cell = NoCell /\ Ended(j, "failed").pc = "ended"
    BY <1>1, EndedRecord
  <2> QED
    BY <1>1, <2>1, LeaveCellHands, MovesHands DEF Works
<1>3. OnSameCells(Jobs \ {j}) /\ SameRunners(Jobs \ {j})
  BY <1>2, OthersStay
<1>4. \A k \in Jobs \ {j} : job[k].cell # NoCell => Chunk(k)' = Chunk(k)
  BY <1>3, SameChunk DEF OnSameCells
<1>5. PICK c \in Ranges : c = Chunk(j)
  <2>1. job[j].chunks # {} /\ job[j].chunks \subseteq Ranges
    BY <1>1 DEF Placed, Holding, JobRecord
  <2> QED
    BY <2>1, ChunkIsChunk
<1>6. /\ flight' = IF flight[c] = job[j].cell THEN [flight EXCEPT ![c] = NoCell] ELSE flight
      /\ cell' = cell
  BY <1>5 DEF LeaveCell, WithoutCell
<1>7. Mapped'
  <2> SUFFICES ASSUME NEW d \in Ranges, flight'[d] # NoCell
               PROVE  \E k \in Jobs : job'[k].cell = flight'[d] /\ Chunk(k)' = d
    BY DEF Mapped
  <2>1. flight'[d] = flight[d] /\ (d = c => flight[c] # job[j].cell)
    BY <1>1, <1>6 DEF FlightTypes
  <2>2. PICK k \in Jobs : job[k].cell = flight[d] /\ Chunk(k) = d
    BY <1>1, <2>1 DEF Mapped
  <2>3. k # j
    BY <1>5, <2>1, <2>2
  <2>4. job'[k].cell = flight'[d] /\ Chunk(k)' = d
    BY <1>3, <1>4, <2>1, <2>2, <2>3 DEF OnSameCells
  <2> QED
    BY <2>4
<1>8. Alike'
  <2> SUFFICES ASSUME NEW k \in Jobs, NEW m \in Jobs,
                      job'[k].cell = job'[m].cell, job'[k].cell # NoCell
               PROVE  Chunk(k)' = Chunk(m)'
    BY DEF Alike
  <2>1. k # j /\ m # j
    BY <1>2
  <2>2. Chunk(k)' = Chunk(k) /\ Chunk(m)' = Chunk(m) /\ job[k].cell = job[m].cell
        /\ job[k].cell # NoCell
    BY <1>3, <1>4, <2>1 DEF OnSameCells
  <2> QED
    BY <1>1, <2>2 DEF Alike
<1>9. ASSUME NEW i \in Jobs PROVE OneRunner(i)'
  <2>1. ASSUME NEW k \in Jobs
        PROVE  (job'[k].pc = "fetching" /\ job'[k].cell = i)
                 <=> (job[k].pc = "fetching" /\ job[k].cell = i)
    <3>1. i # NoCell
      BY LoaderAssumption
    <3>2. CASE k = j
      BY <1>1, <1>2, <3>2
    <3>3. CASE k # j
      BY <1>3, <3>1, <3>3 DEF OnSameCells, SameRunners
    <3> QED
      BY <3>2, <3>3
  <2> QED
    BY <1>1, <1>6, <2>1, RunnersKept
<1>10. FlightTypes'
  BY <1>1, <1>6 DEF FlightTypes
<1> QED
  BY <1>7, <1>8, <1>9, <1>10, FlightPartsNext

\* The map keeps agreeing with the jobs.
LEMMA FlightStep == LoaderInv /\ [Next]_vars => FlightAgrees' /\ FlightTypes'
<1> SUFFICES ASSUME LoaderInv, [Next]_vars PROVE FlightAgrees' /\ FlightTypes'
  OBVIOUS
<1>1. LoaderTypes /\ GateAgrees /\ JobsPlaced
  BY DEF LoaderInv
<1>2. \A k \in Jobs : job[k].pc \notin OnCell => job[k].cell = NoCell
  BY <1>1 DEF JobsPlaced, Placed
<1>3. ASSUME NEW j \in Jobs, LookUp(j) \/ List(j) \/ ListFails(j) \/ Remember(j)
      PROVE  FlightAgrees' /\ FlightTypes'
  <2>1. UNCHANGED flightVars
    BY <1>3 DEF LookUp, List, ListFails, Remember
  <2>2. Hands(j) /\ job[j].pc \in Looking /\ job'[j].cell = NoCell
    BY <1>3, PlanningIsGood, MovesHands
  <2>3. job[j].cell = NoCell
    BY <1>2, <2>2 DEF Looking, OnCell
  <2> QED
    BY <2>1, <2>2, <2>3, OffCellKeepsFlight
<1>4. ASSUME NEW j \in Jobs,
             (\E request \in Requests : Ensure(j, request)) \/ Stop(j) \/ Complete(j)
      PROVE  FlightAgrees' /\ FlightTypes'
  <2>1. UNCHANGED flightVars
    BY <1>4 DEF Ensure, Stop, Complete
  <2>2. Hands(j) /\ job[j].pc \in {"none", "ended", "turn"} /\ job'[j].cell = NoCell
    BY <1>4, ControlIsGood, MovesHands
  <2>3. job[j].cell = NoCell
    BY <1>2, <2>2 DEF OnCell
  <2> QED
    BY <2>1, <2>2, <2>3, OffCellKeepsFlight
<1>5. ASSUME NEW j \in Jobs, Cancel(j) PROVE FlightAgrees' /\ FlightTypes'
  <2>1. UNCHANGED flightVars
    BY <1>5 DEF Cancel
  <2>2. /\ Moves(j) /\ job'[j].pc = job[j].pc /\ job'[j].cell = job[j].cell
        /\ job'[j].chunks = job[j].chunks
    BY <1>5, CancelIsGood DEF Same
  <2>3. OnSameCells(Jobs) /\ SameRunners(Jobs)
    BY <2>2 DEF OnSameCells, SameRunners, Moves
  <2> QED
    BY <2>1, <2>3, FlightKept
<1>6. ASSUME NEW j \in Jobs, UNCHANGED flightVars, NEW from, NEW to, Works(j, from, to),
             job'[j].cell = job[j].cell, from # "fetching", to # "fetching"
      PROVE  FlightAgrees' /\ FlightTypes'
  <2>1. OnSameCells(Jobs) /\ SameRunners(Jobs)
    BY <1>6 DEF OnSameCells, SameRunners, Works, Moves, Same
  <2> QED
    BY <1>6, <2>1, FlightKept
<1>7. ASSUME NEW j \in Jobs,
             \/ NextChunk(j) \/ ShareResult(j) \/ Retry(j) \/ SkipWrite(j) \/ StartWrite(j)
             \/ ReadEdge(j) \/ MoveEdge(j) \/ (EndWrite(j) /\ writer[j].stage = "written")
      PROVE  FlightAgrees' /\ FlightTypes'
  <2> DEFINE Quiet == {"turn", "fetch", "queued", "awaiting", "leaving", "backoff", "write",
                       "writing", "edge", "edgeRead", "commit"}
  <2>1. UNCHANGED flightVars
    BY <1>7 DEF NextChunk, ShareResult, Retry, SkipWrite, StartWrite, ReadEdge, MoveEdge, EndWrite
  <2>2. \E from \in Quiet, to \in Quiet : Works(j, from, to) /\ job'[j].cell = job[j].cell
    <3>1. Placed(job[j])
      BY <1>1 DEF JobsPlaced
    <3>2. NextChunk(j) => \/ Works(j, "turn", "fetch") /\ job'[j].cell = job[j].cell
                          \/ Works(j, "turn", "queued") /\ job'[j].cell = job[j].cell
      BY <1>1, TurnWorks, TurnWaits DEF NextChunk
    <3>3. ShareResult(j) => Works(j, "awaiting", "leaving") /\ job'[j].cell = job[j].cell
      BY <1>1, ShareResultWorks
    <3>4. Retry(j) => Works(j, "backoff", "fetch") /\ job'[j].cell = job[j].cell
      BY <1>1, <3>1, RetryWorks
    <3>5. SkipWrite(j) => Works(j, "write", "edge") /\ job'[j].cell = job[j].cell
      BY <1>1, SkipWriteWorks
    <3>6. StartWrite(j) => Works(j, "write", "writing") /\ job'[j].cell = job[j].cell
      BY <1>1, StartWriteWorks
    <3>7. ReadEdge(j) => Works(j, "edge", "edgeRead") /\ job'[j].cell = job[j].cell
      BY <1>1, ReadEdgeWorks
    <3>8. MoveEdge(j) => Works(j, "edgeRead", "commit") /\ job'[j].cell = job[j].cell
      BY <1>1, MoveEdgeWorks
    <3>9. EndWrite(j) /\ writer[j].stage = "written" =>
            Works(j, "writing", "edge") /\ job'[j].cell = job[j].cell
      BY <1>1, EndWriteWorks
    <3> QED
      BY <1>7, <3>2, <3>3, <3>4, <3>5, <3>6, <3>7, <3>8, <3>9
  <2>3. "fetching" \notin Quiet
    OBVIOUS
  <2> HIDE DEF Quiet
  <2> QED
    BY <1>6, <2>1, <2>2, <2>3
<1>8. ASSUME NEW j \in Jobs,
             EdgeFails(j) \/ CommitChunk(j) \/ (EndWrite(j) /\ writer[j].stage = "failed")
      PROVE  FlightAgrees' /\ FlightTypes'
  <2>1. UNCHANGED flightVars
    BY <1>8 DEF EdgeFails, CommitChunk, EndWrite
  <2>2. Hands(j) /\ job[j].pc \in Holding \ OnCell /\ job'[j].cell = NoCell
    BY <1>8, GivingBackIsGood
  <2>3. job[j].cell = NoCell
    BY <1>2, <2>2
  <2> QED
    BY <2>1, <2>2, <2>3, OffCellKeepsFlight
<1>9. CASE Crash
  <2>1. /\ flight' = [r \in Ranges |-> NoCell] /\ cell' = [i \in Jobs |-> EmptyCell]
        /\ \A k \in Jobs : job'[k] = NoJob
    BY <1>9 DEF Crash
  <2>2. \A i \in Jobs : Runners(i)' = {}
    BY <2>1, NoJobRecord DEF Runners
  <2>3. \A i \in Jobs : OneRunner(i)'
    BY <2>1, <2>2, FS_EmptySet DEF OneRunner, EmptyCell
  <2>4. Mapped' /\ Alike'
    BY <2>1, NoJobRecord DEF Mapped, Alike
  <2>5. FlightTypes'
    BY <2>1 DEF FlightTypes, EmptyCell
  <2> QED
    BY <2>3, <2>4, <2>5, FlightPartsNext
<1>10. CASE DeleteSeries \/ UNCHANGED vars \/ \E j \in Jobs : Write(j)
  <2>1. job' = job /\ UNCHANGED flightVars
    BY <1>10 DEF DeleteSeries, vars, flightVars, Write
  <2>2. OnSameCells(Jobs) /\ SameRunners(Jobs)
    BY <2>1 DEF OnSameCells, SameRunners
  <2> QED
    BY <2>1, <2>2, FlightKept
<1>11. \A j \in Jobs : EndWrite(j) => writer[j].stage \in {"written", "failed"}
  BY DEF EndWrite
<1> QED
  BY <1>3, <1>4, <1>5, <1>7, <1>8, <1>9, <1>10, <1>11, JoinCellKeepsFlight, FetchKeepsFlight,
     LeaveCellKeepsFlight
  DEF Next, Advance

-----------------------------------------------------------------------------
(* The rest of the types, and the theorems. *)

\* The recorded left edge is a slot boundary, and the jobs asked for are counted up to the bound.
LEMMA EdgeStep ==
  LoaderInv /\ [Next]_vars =>
    edge' \in (0 .. Horizon) \cup {NoEdge} /\ asked' \in 0 .. MaxAsked
<1> SUFFICES ASSUME LoaderInv, [Next]_vars
             PROVE  edge' \in (0 .. Horizon) \cup {NoEdge} /\ asked' \in 0 .. MaxAsked
  OBVIOUS
<1>1. LoaderTypes /\ JobsPlaced
  BY DEF LoaderInv
<1>2. edge \in (0 .. Horizon) \cup {NoEdge} /\ asked \in 0 .. MaxAsked /\ MaxAsked \in Nat
  BY <1>1, SizesAssumption DEF LoaderTypes
<1>3. ASSUME NEW j \in Jobs, MoveEdge(j)
      PROVE  edge' \in (0 .. Horizon) \cup {NoEdge} /\ asked' \in 0 .. MaxAsked
  <2>1. Chunk(j) \in Ranges
    <3>1. job[j].chunks # {} /\ job[j].chunks \subseteq Ranges
      BY <1>1, <1>3 DEF LoaderTypes, JobsPlaced, JobRecord, MoveEdge, Placed, Holding
    <3> QED
      BY <3>1, ChunkIsChunk
  <2>2. End(Chunk(j)) \in 0 .. Horizon
    BY <2>1, EndType
  <2>3. edge' \in {End(Chunk(j)), NoEdge, edge} /\ asked' = asked
    BY <1>3 DEF MoveEdge
  <2> QED
    BY <1>2, <2>2, <2>3
<1>4. ASSUME NEW j \in Jobs, NEW request \in Requests, Ensure(j, request)
      PROVE  edge' = edge /\ asked' \in 0 .. MaxAsked
  BY <1>2, <1>4 DEF Ensure
<1>5. ASSUME NEW j \in Jobs, Cancel(j) \/ (Advance(j) /\ ~MoveEdge(j))
      PROVE  edge' = edge /\ asked' = asked
  BY <1>5 DEF Advance, Cancel, LookUp, List, ListFails, Remember, NextChunk, Stop,
              Complete, JoinCell, StartFetch, FetchOk, FetchFails, ShareResult, LeaveCell,
              Retry, SkipWrite, StartWrite, Write, EndWrite, ReadEdge, EdgeFails, CommitChunk
<1>6. CASE Crash
  BY <1>2, <1>6 DEF Crash
<1>7. CASE DeleteSeries
  BY <1>2, <1>7 DEF DeleteSeries
<1>8. CASE UNCHANGED vars
  BY <1>2, <1>8 DEF vars
<1> QED
  BY <1>2, <1>3, <1>4, <1>5, <1>6, <1>7, <1>8 DEF Next

\* The invariant survives every step.
LEMMA LoaderInvStep == LoaderInv /\ [Next]_vars => LoaderInv'
<1> SUFFICES ASSUME LoaderInv, [Next]_vars PROVE LoaderInv'
  OBVIOUS
<1>1. job' \in [Jobs -> JobRecord] /\ JobsPlaced' /\ JobsPromise' /\ CacheNeverOverclaims'
  BY RecordsStep
<1>2. StoreP!IInv' /\ JobsWrite'
  BY LoaderStepIsStoreStep, WritesStep
<1>3. GateAgrees' /\ GateTypes' /\ FlightAgrees' /\ FlightTypes'
  BY GateStep, FlightStep
<1>4. coverage' \in (SUBSET Ranges) \cup {NoCoverage}
  <2>1. \A j \in Jobs : job[j].listing \in SUBSET Ranges
    BY DEF LoaderInv, LoaderTypes, JobRecord
  <2>2. coverage \in (SUBSET Ranges) \cup {NoCoverage}
    BY DEF LoaderInv, LoaderTypes
  <2> QED
    BY <2>1, <2>2, CoverageSteps
<1>5. history' \in Histories
  BY HistorySteps DEF LoaderInv, LoaderTypes
<1>6. LoaderTypes'
  BY <1>1, <1>3, <1>4, <1>5, EdgeStep DEF LoaderTypes, GateTypes, FlightTypes
<1> QED
  BY <1>1, <1>2, <1>3, <1>6 DEF LoaderInv

\* The invariant holds before any job is asked for.
LEMMA LoaderInvInit == Init => LoaderInv
<1> SUFFICES ASSUME Init PROVE LoaderInv
  OBVIOUS
<1>1. \A k \in Jobs : job[k] = NoJob /\ writer[k].stage = "idle"
  BY DEF Init, Store!Init, Store!Idle
<1>2. StoreP!IInv
  <2>1. StoreP!Init
    BY DEF Init, Store!Init, StoreP!Init, Store!Idle, StoreP!Idle
  <2> QED
    BY <2>1, StoreP!IInvInit
<1>3. capacity \in Capacities /\ capacity \in Nat /\ free = capacity /\ queue = <<>>
  BY SizesAssumption DEF Init
<1>4. LoaderTypes
  <2>1. job \in [Jobs -> JobRecord]
    BY NoJobRecord DEF Init
  <2>2. /\ edge = NoEdge /\ history \in Histories /\ coverage = NoCoverage
        /\ asked = 0 /\ MaxAsked \in Nat
    BY SizesAssumption DEF Init
  <2>3. FlightTypes
    BY DEF Init, FlightTypes, EmptyCell
  <2>4. free \in 0 .. capacity /\ queue \in Seq(Jobs)
    BY <1>3
  <2> QED
    BY <1>3, <2>1, <2>2, <2>3, <2>4 DEF LoaderTypes, FlightTypes
<1>5. JobsPlaced /\ JobsPromise
  BY <1>1, NoJobRecord DEF JobsPlaced, JobsPromise
<1>6. CacheNeverOverclaims
  <2>1. coverage = NoCoverage
    BY DEF Init
  <2> QED
    BY <1>1, <2>1, NoJobRecord DEF CacheNeverOverclaims
<1>7. JobsWrite
  BY <1>1, NoJobRecord DEF JobsWrite, WriterAgrees
<1>8. GateAgrees
  <2>1. Holders = {} /\ Waiters = {}
    BY <1>1, NoJobRecord DEF Holders, Waiters, Holding
  <2>2. Cardinality(Holders) = 0
    BY <2>1, FS_EmptySet
  <2>3. ToSet(queue) = {} /\ IsInjective(queue)
    BY <1>3 DEF ToSet, IsInjective
  <2> QED
    BY <1>3, <2>1, <2>2, <2>3 DEF GateAgrees, Holders, Waiters
<1>9. FlightAgrees
  <2>1. flight = [r \in Ranges |-> NoCell] /\ cell = [i \in Jobs |-> EmptyCell]
    BY DEF Init
  <2>2. \A i \in Jobs : Runners(i) = {}
    BY <1>1, NoJobRecord DEF Runners
  <2>3. \A i \in Jobs : OneRunner(i)
    BY <2>1, <2>2, FS_EmptySet DEF OneRunner, EmptyCell
  <2>4. Mapped /\ Alike
    BY <1>1, <2>1, NoJobRecord DEF Mapped, Alike
  <2> QED
    BY <2>3, <2>4, FlightParts
<1> QED
  BY <1>2, <1>4, <1>5, <1>6, <1>7, <1>8, <1>9 DEF LoaderInv

\* The invariant holds throughout.
LEMMA LoaderInvHolds == Spec => []LoaderInv
BY LoaderInvInit, LoaderInvStep, PTL DEF Spec

(***************************************************************************)
(* Whatever the jobs, the gate, the flights, the store and its failures    *)
(* do, every variable keeps its type (loader.rs, gate.rs, flight.rs).      *)
(***************************************************************************)
THEOREM LoaderTypesHold == Spec => []TypeOK
<1>1. LoaderInv => TypeOK
  <2> SUFFICES ASSUME LoaderInv PROVE TypeOK
    OBVIOUS
  <2>1. StoreP!TypeOK /\ LoaderTypes /\ JobsPlaced
    BY DEF LoaderInv, StoreP!IInv
  <2>2. Store!TypeOK
    BY <2>1 DEF Store!TypeOK, StoreP!TypeOK, Store!Stages, StoreP!Stages
  <2>3. ASSUME NEW j \in Jobs
        PROVE  /\ job[j].pc \in Pcs
               /\ job[j].chunks \subseteq Ranges
               /\ job[j].missing \subseteq job[j].range
               /\ job[j].range \in Ranges \cup {{}}
               /\ job[j].cell \in Jobs \cup {NoCell}
               /\ job[j].attempt \in 0 .. MaxAttempts
    BY <2>1 DEF LoaderTypes, JobRecord, JobsPlaced, Placed
  <2> QED
    BY <2>1, <2>2, <2>3 DEF TypeOK, LoaderTypes
<1> QED
  BY LoaderInvHolds, <1>1, PTL

(***************************************************************************)
(* For any history, any requests, any number of concurrent jobs, and       *)
(* through failed writes and crashes: a job that completed has left every  *)
(* bar the venue has in its range in the store, until the series is        *)
(* deleted (JobOutcome::Completed).                                        *)
(***************************************************************************)
THEOREM CompletedJobsAreStored == Spec => []CompletedJobIsStored
<1>1. LoaderInv => CompletedJobIsStored
  <2> SUFFICES ASSUME LoaderInv, NEW j \in Jobs, job[j].outcome = "completed", ~deleted
               PROVE  job[j].range \cap history \subseteq Store!Covered
    BY DEF CompletedJobIsStored
  <2>1. Placed(job[j]) /\ Promise(job[j], history, Store!Covered)
    BY DEF LoaderInv, JobsPlaced, JobsPromise
  <2>2. job[j].chunks = {} /\ job[j].missing = {}
    BY <2>1 DEF Placed, Looking
  <2> QED
    BY <2>1, <2>2 DEF Promise
<1> QED
  BY LoaderInvHolds, <1>1, PTL

\* Until a deletion, the coverage cache and the listings on their way to it
\* claim only what is stored (CoverageCache).
THEOREM CachesAreTrue == Spec => []CacheNeverOverclaims
<1>1. LoaderInv => CacheNeverOverclaims
  BY DEF LoaderInv
<1> QED
  BY LoaderInvHolds, <1>1, PTL

\* The gate's slots are neither lost nor made, and nobody waits while one is free (PriorityGate).
THEOREM GateHolds == Spec => []GateAgrees
<1>1. LoaderInv => GateAgrees
  BY DEF LoaderInv
<1> QED
  BY LoaderInvHolds, <1>1, PTL

\* A chunk is fetched by one job at a time, and shared only with jobs that want
\* that chunk (ChunkSingleFlight).
THEOREM FlightsHold == Spec => []FlightAgrees
<1>1. LoaderInv => FlightAgrees
  BY DEF LoaderInv
<1> QED
  BY LoaderInvHolds, <1>1, PTL
================================================================================
