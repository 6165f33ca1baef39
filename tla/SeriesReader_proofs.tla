-------------------------- MODULE SeriesReader_proofs --------------------------
(***************************************************************************)
(* SeriesReader for every set of ranges, of writers and of readers.        *)
(*                                                                         *)
(* A reader and its caches are no part of the store, so what is proved of  *)
(* the store holds under them (ReadsImplementStore).  That answers are     *)
(* whole rests on it: what a listing named stays covered, however old the  *)
(* listing is, so each slot a reader planned with is under a file it still *)
(* has to look at, one it opened, or a page that was whole when stored.    *)
(***************************************************************************)
EXTENDS SeriesReader, SeriesStore_proofs

ReaderRecord == [stage : {"idle", "listing", "caching", "reading", "opening", "answered", "failed"},
                 want : Ranges \cup {{}}, listing : SUBSET Ranges, missing : SUBSET UNION Ranges,
                 todo : SUBSET Ranges, segment : Ranges \cup {{}}, pending : SUBSET Ranges,
                 opened : SUBSET Ranges, got : SUBSET (Ranges \X (SUBSET Ranges))]

CacheTypes ==
  /\ coverage \in (SUBSET Ranges) \cup {None}
  /\ pages \in [Ranges -> (SUBSET Ranges) \cup {None}]
  /\ reader \in [Readers -> ReaderRecord]

\* The page of a segment has a name, the segment being opened is still to be read, a call asks for a range.
Named(m) ==
  /\ \A f \in m.todo : f \cap m.want \in Ranges
  /\ m.stage = "opening" => m.segment \in m.todo
  /\ m.stage \in {"listing", "caching"} => m.want \in Ranges

\* Every slot a call asked for is missing, still to be read, or read; what is to be read is stored.
Sound(m, stored) ==
  /\ UNION m.listing \subseteq stored /\ UNION m.todo \subseteq stored
  /\ m.stage \in {"reading", "opening", "answered"} =>
       m.want \subseteq m.missing \cup (UNION m.todo) \cup Bars(m.got, m.want)
  /\ m.stage = "answered" => m.todo = {}
  /\ m.stage = "opening" => m.segment \cap m.want \subseteq UNION (m.opened \cup m.pending)

PagesAreWhole == \A q \in Ranges : pages[q] # None => q \subseteq UNION pages[q]

ReadInv ==
  /\ IInv /\ CacheTypes
  /\ \A r \in Readers : Named(reader[r])
  /\ ~deleted => /\ PagesAreWhole
                 /\ coverage # None => UNION coverage \subseteq Covered
                 /\ \A r \in Readers : Sound(reader[r], Covered)

-----------------------------------------------------------------------------
(* The store under its readers. *)

\* A step of a reader is no step of the store, and a write that drops a cache is a write.
LEMMA ReadStepIsStoreStep == [ReadNext]_readVars => [Next]_vars
<1> SUFFICES ASSUME [ReadNext]_readVars PROVE [Next]_vars
  OBVIOUS
<1>1. CASE UNCHANGED readVars
  BY <1>1 DEF readVars, vars
<1>2. ASSUME NEW r \in Readers,
             \/ \E q \in Ranges : Resolve(r, q)
             \/ List(r) \/ Cache(r) \/ Look(r) \/ Open(r) \/ Keep(r) \/ Answer(r) \/ Return(r)
      PROVE  UNCHANGED vars
  BY <1>2 DEF Resolve, List, Cache, Look, Open, Keep, Answer, Return
<1>3. ASSUME NEW q \in Ranges, Evict(q) PROVE UNCHANGED vars
  BY <1>3 DEF Evict
<1>4. ASSUME NEW w \in Writers, Write(w) \/ DropCoverage(w) \/ DropPages(w) \/ Fail(w)
      PROVE  [Next]_vars
  BY <1>4 DEF Write, DropCoverage, DropPages, Fail, Next
<1>5. CASE Restart \/ Delete
  BY <1>5 DEF Restart, Delete, Next
<1> QED BY <1>1, <1>2, <1>3, <1>4, <1>5 DEF ReadNext

(***************************************************************************)
(* The reader with its caches implements the store: whatever the readers   *)
(* do, the files go through a behaviour of SeriesStore, so what is proved  *)
(* there holds here.                                                       *)
(***************************************************************************)
THEOREM ReadsImplementStore == ReadSpec => Spec
<1>1. ReadInit => Init
  BY DEF ReadInit
<1> QED BY <1>1, ReadStepIsStoreStep, PTL DEF ReadSpec, Spec

\* No slot that is stored is lost while it is being read.
THEOREM ReadsKeepCoverage == ReadSpec => CoverageKept
BY ReadsImplementStore, WritesKeepCoverage, PTL

-----------------------------------------------------------------------------
(* The steps of a reader. *)

\* Who waits for nothing owes nothing: between calls, and after a call that failed.
LEMMA RestingIsSound ==
  ASSUME NEW place \in {"idle", "failed"}, NEW stored
  PROVE  LET m == [Resting EXCEPT !.stage = place]
         IN  m \in ReaderRecord /\ Named(m) /\ Sound(m, stored)
BY DEF Resting, ReaderRecord, Named, Sound

\* The record between calls is the resting one.
LEMMA IdleIsSound ==
  ASSUME NEW stored
  PROVE  Resting \in ReaderRecord /\ Named(Resting) /\ Sound(Resting, stored)
<1>1. Resting = [Resting EXCEPT !.stage = "idle"]
  BY DEF Resting
<1> QED BY <1>1, RestingIsSound

\* What a step of r owes: a record that is typed, named and sound for what is stored.
Stepped(r) ==
  \E new \in ReaderRecord :
    /\ reader' = [reader EXCEPT ![r] = new]
    /\ Named(new) /\ (~deleted => Sound(new, Covered))

\* Whatever a listing of stored files is asked for, it accounts for every slot.
LEMMA PlanIsSound ==
  ASSUME NEW q \in Ranges, NEW listing \in SUBSET Ranges, NEW stored
  PROVE  LET m == Planned(q, listing)
         IN  /\ m \in ReaderRecord /\ Named(m)
             /\ UNION listing \subseteq stored => Sound(m, stored)
<1> DEFINE m == Planned(q, listing)
           todo == IF q \subseteq UNION listing THEN {q} ELSE {f \in listing : f \cap q # {}}
<1>1. /\ m.stage = "reading" /\ m.want = q /\ m.listing = {} /\ m.missing = q \ UNION listing
      /\ m.todo = todo /\ m.got = {} /\ m.segment = {} /\ m.pending = {} /\ m.opened = {}
  BY DEF Planned, Resting
<1>2. m \in ReaderRecord
  BY DEF Planned, Resting, ReaderRecord
<1>3. Named(m)
  <2>1. q \cap q = q
    OBVIOUS
  <2>2. \A f \in todo : f \cap q \in Ranges
    BY <2>1, RangesAssumption
  <2> HIDE DEF m, todo
  <2> QED BY <1>1, <2>2 DEF Named
<1>4. ASSUME UNION listing \subseteq stored PROVE Sound(m, stored)
  <2>1. UNION todo \subseteq stored
    BY <1>4
  <2>2. q \subseteq (q \ UNION listing) \cup UNION todo
    OBVIOUS
  <2> HIDE DEF todo, m
  <2> QED BY <1>1, <2>1, <2>2 DEF Sound
<1> QED BY <1>2, <1>3, <1>4

\* A call that finds its page is whole; one that finds a listing plans with it.
LEMMA ResolveSteps ==
  ASSUME ReadInv, NEW r \in Readers, NEW q \in Ranges, Resolve(r, q)
  PROVE  Stepped(r)
<1>0. CacheTypes
  BY DEF ReadInv
<1> DEFINE hit == [Resting EXCEPT !.stage = "answered", !.want = q, !.got = {<<q, pages[q]>>}]
           ask == [Resting EXCEPT !.stage = "listing", !.want = q]
<1>1. CASE pages[q] # None /\ reader' = [reader EXCEPT ![r] = hit]
  <2>1. reader' = [reader EXCEPT ![r] = hit]
    BY <1>1
  <2>2. pages[q] \in SUBSET Ranges
    BY <1>0, <1>1 DEF CacheTypes
  <2>3. hit \in ReaderRecord /\ Named(hit)
    <3>1. /\ hit.stage = "answered" /\ hit.todo = {} /\ hit.got = {<<q, pages[q]>>}
          /\ {<<q, pages[q]>>} \in SUBSET (Ranges \X (SUBSET Ranges))
      BY <2>2 DEF Resting
    <3>2. hit \in ReaderRecord
      BY <3>1 DEF Resting, ReaderRecord
    <3> HIDE DEF hit
    <3> QED BY <3>1, <3>2 DEF Named
  <2>4. ASSUME ~deleted PROVE Sound(hit, Covered)
    <3>1. q \subseteq UNION pages[q]
      BY <1>1, <2>4 DEF ReadInv, PagesAreWhole
    <3>2. q \subseteq Bars({<<q, pages[q]>>}, q)
      BY <3>1 DEF Bars
    <3>3. /\ hit.stage = "answered" /\ hit.want = q /\ hit.got = {<<q, pages[q]>>}
          /\ hit.todo = {} /\ hit.listing = {}
      BY DEF Resting
    <3> HIDE DEF hit
    <3>4. hit.want \subseteq Bars(hit.got, hit.want)
      BY <3>2, <3>3
    <3>5. UNION hit.listing \subseteq Covered /\ UNION hit.todo \subseteq Covered
      BY <3>3
    <3>6. hit.stage # "opening"
      BY <3>3
    <3> QED BY <3>3, <3>4, <3>5, <3>6 DEF Sound
  <2> QED BY <2>1, <2>3, <2>4 DEF Stepped
<1>2. CASE coverage # None /\ reader' = [reader EXCEPT ![r] = Planned(q, coverage)]
  <2>1. reader' = [reader EXCEPT ![r] = Planned(q, coverage)]
    BY <1>2
  <2>2. coverage \in SUBSET Ranges
    BY <1>0, <1>2 DEF CacheTypes
  <2>3. ~deleted => UNION coverage \subseteq Covered
    BY <1>2 DEF ReadInv
  <2> QED BY <2>1, <2>2, <2>3, PlanIsSound DEF Stepped
<1>3. CASE coverage = None /\ reader' = [reader EXCEPT ![r] = ask]
  <2>1. reader' = [reader EXCEPT ![r] = ask]
    BY <1>3
  <2>2. ask \in ReaderRecord /\ Named(ask) /\ Sound(ask, Covered)
    BY DEF Resting, ReaderRecord, Named, Sound
  <2> QED BY <2>1, <2>2 DEF Stepped
<1> QED BY <1>1, <1>2, <1>3 DEF Resolve

\* The directory is read.
LEMMA ListSteps ==
  ASSUME ReadInv, NEW r \in Readers, List(r)
  PROVE  Stepped(r)
<1> DEFINE m == reader[r]
           new == [m EXCEPT !.stage = "caching", !.listing = files]
<1>1. m \in ReaderRecord /\ Named(m) /\ (~deleted => Sound(m, Covered)) /\ files \subseteq Ranges
  BY DEF ReadInv, CacheTypes, IInv, TypeOK
<1>2. reader' = [reader EXCEPT ![r] = new]
  BY DEF List, ReadInv, CacheTypes
<1>m. m.stage = "listing"
  BY DEF List
<1>3. new \in ReaderRecord /\ new.stage = "caching" /\ new.listing = files /\ new.todo = m.todo /\ new.want = m.want
  BY <1>1 DEF ReaderRecord
<1> HIDE DEF new, m
<1>4. Named(new)
  BY <1>1, <1>m, <1>3 DEF Named
<1>5. ~deleted => Sound(new, Covered)
  BY <1>1, <1>3 DEF Sound, Covered
<1> QED BY <1>2, <1>3, <1>4, <1>5 DEF Stepped

\* The listing is kept, and planned with.
LEMMA CacheSteps ==
  ASSUME ReadInv, NEW r \in Readers, Cache(r)
  PROVE  /\ Stepped(r)
         /\ coverage' \in SUBSET Ranges
         /\ ~deleted => UNION coverage' \subseteq Covered
<1>0. reader[r].want \in Ranges
  BY DEF Cache, ReadInv, Named
<1>1. reader[r].listing \in SUBSET Ranges /\ (~deleted => UNION reader[r].listing \subseteq Covered)
  BY DEF ReadInv, CacheTypes, ReaderRecord, Sound
<1>2. reader' = [reader EXCEPT ![r] = Planned(reader[r].want, reader[r].listing)] /\ coverage' = reader[r].listing
  BY DEF Cache
<1> QED BY <1>0, <1>1, <1>2, PlanIsSound DEF Stepped
\* A bar of an answer is in a file the answer was read from, and in the segment it was read for.
LEMMA BarsAre ==
  ASSUME NEW got, NEW q, NEW x
  PROVE  x \in Bars(got, q) <=> \E g \in got : \E f \in g[2] : x \in f /\ x \in g[1] /\ x \in q
BY DEF Bars

\* What is got for a segment takes the segment's place in the account.
LEMMA GotIsSound ==
  ASSUME NEW m \in ReaderRecord, NEW f \in m.todo, NEW page \in SUBSET Ranges, NEW stored,
         m.stage \in {"reading", "opening"}, Named(m), Sound(m, stored),
         f \cap m.want \subseteq UNION page,
         NEW new \in ReaderRecord, new.stage = "reading", new.want = m.want, new.missing = m.missing,
         new.listing = m.listing, new.todo = m.todo \ {f}, new.got = m.got \cup {<<f, page>>}
  PROVE  Sound(new, stored)
<1>1. UNION new.listing \subseteq stored /\ UNION new.todo \subseteq stored
  BY DEF Sound
<1>2. ASSUME NEW x \in m.want
      PROVE  x \in m.missing \cup (UNION (m.todo \ {f})) \cup Bars(m.got \cup {<<f, page>>}, m.want)
  <2>1. x \in m.missing \cup (UNION m.todo) \cup Bars(m.got, m.want)
    BY <1>2 DEF Sound
  <2>2. CASE x \in f
    <3>1. PICK g \in page : x \in g
      BY <1>2, <2>2
    <3>2. <<f, page>>[1] = f /\ <<f, page>>[2] = page /\ <<f, page>> \in m.got \cup {<<f, page>>}
      OBVIOUS
    <3>3. x \in Bars(m.got \cup {<<f, page>>}, m.want)
      BY <1>2, <2>2, <3>1, <3>2, BarsAre
    <3> QED BY <3>3
  <2>3. CASE x \in Bars(m.got, m.want)
    BY <2>3, BarsAre
  <2>4. x \in UNION m.todo /\ x \notin f => x \in UNION (m.todo \ {f})
    OBVIOUS
  <2> QED BY <2>1, <2>2, <2>3, <2>4
<1> QED BY <1>1, <1>2 DEF Sound

\* A page answers for its segment, or the files that reach into it are listed.
LEMMA LookSteps ==
  ASSUME ReadInv, NEW r \in Readers, Look(r)
  PROVE  Stepped(r)
<1> DEFINE m == reader[r]
<1>0. m \in ReaderRecord /\ Named(m) /\ CacheTypes /\ files \subseteq Ranges
  BY DEF ReadInv, CacheTypes, IInv, TypeOK
<1>1. PICK f \in m.todo :
        \/ /\ pages[Segment(r, f)] # None
           /\ reader' = [reader EXCEPT ![r].todo = @ \ {f},
                                       ![r].got = @ \cup {<<f, pages[Segment(r, f)]>>}]
        \/ reader' = [reader EXCEPT ![r].stage = "opening", ![r].segment = f, ![r].opened = {},
                                    ![r].pending = {g \in files : g \cap Segment(r, f) # {}}]
  BY DEF Look
<1>2. m.stage = "reading"
  BY DEF Look
<1> DEFINE s == f \cap m.want
<1>3. s \in Ranges /\ Segment(r, f) = s /\ f \in Ranges
  BY <1>0 DEF Named, Segment, ReaderRecord
<1>4. CASE /\ pages[s] # None
            /\ reader' = [reader EXCEPT ![r].todo = @ \ {f}, ![r].got = @ \cup {<<f, pages[s]>>}]
  <2> DEFINE new == [m EXCEPT !.todo = @ \ {f}, !.got = @ \cup {<<f, pages[s]>>}]
  <2>1. reader' = [reader EXCEPT ![r] = new]
    BY <1>0, <1>4 DEF CacheTypes
  <2>2. pages[s] \in SUBSET Ranges
    BY <1>0, <1>3, <1>4 DEF CacheTypes
  <2>3. <<f, pages[s]>> \in Ranges \X (SUBSET Ranges)
    BY <1>3, <2>2
  <2>4. /\ new \in ReaderRecord /\ new.stage = "reading" /\ new.want = m.want /\ new.missing = m.missing
        /\ new.listing = m.listing /\ new.todo = m.todo \ {f} /\ new.got = m.got \cup {<<f, pages[s]>>}
    BY <1>0, <1>2, <2>3 DEF ReaderRecord
  <2>5. ~deleted => s \subseteq UNION pages[s] /\ Sound(m, Covered)
    BY <1>3, <1>4 DEF ReadInv, PagesAreWhole
  <2> HIDE DEF new, m
  <2>6. Named(new)
    BY <1>0, <2>4 DEF Named
  <2>7. ~deleted => Sound(new, Covered)
    <3> DEFINE page == pages[s]
    <3>1. page \in SUBSET Ranges /\ f \in m.todo /\ (~deleted => f \cap m.want \subseteq UNION page)
          /\ new.got = m.got \cup {<<f, page>>}
      BY <2>2, <2>4, <2>5
    <3> HIDE DEF page, s
    <3> QED BY <1>0, <1>2, <2>4, <2>5, <3>1, GotIsSound
  <2> QED BY <2>1, <2>4, <2>6, <2>7 DEF Stepped
<1>5. CASE reader' = [reader EXCEPT ![r].stage = "opening", ![r].segment = f, ![r].opened = {},
                                    ![r].pending = {g \in files : g \cap s # {}}]
  <2> DEFINE near == {g \in files : g \cap s # {}}
             new == [m EXCEPT !.stage = "opening", !.segment = f, !.opened = {}, !.pending = near]
  <2>1. reader' = [reader EXCEPT ![r] = new]
    BY <1>0, <1>5 DEF CacheTypes
  <2>2. near \in SUBSET Ranges
    BY <1>0
  <2>3. /\ new \in ReaderRecord /\ new.stage = "opening" /\ new.want = m.want /\ new.missing = m.missing
        /\ new.listing = m.listing /\ new.todo = m.todo /\ new.got = m.got
        /\ new.segment = f /\ new.opened = {} /\ new.pending = near
    BY <1>0, <1>3, <2>2 DEF ReaderRecord
  <2>4. ~deleted => Sound(m, Covered)
    BY DEF ReadInv
  <2>5. ~deleted => s \subseteq UNION near
    <3>1. ~deleted => f \subseteq Covered
      BY <2>4 DEF Sound
    <3> QED BY <3>1 DEF Covered
  <2> HIDE DEF new, m, near
  <2>6. Named(new)
    BY <1>0, <2>3 DEF Named
  <2>7. ~deleted => Sound(new, Covered)
    BY <1>2, <2>3, <2>4, <2>5 DEF Sound
  <2> QED BY <2>1, <2>3, <2>6, <2>7 DEF Stepped
<1> QED BY <1>1, <1>3, <1>4, <1>5

\* A file is opened, or it is gone and the call fails.
LEMMA OpenSteps ==
  ASSUME ReadInv, NEW r \in Readers, Open(r)
  PROVE  Stepped(r)
<1> DEFINE m == reader[r]
           failed == [Resting EXCEPT !.stage = "failed"]
<1>0. m \in ReaderRecord /\ Named(m) /\ CacheTypes /\ (~deleted => Sound(m, Covered))
  BY DEF ReadInv, CacheTypes
<1>1. PICK g \in m.pending :
        reader' = IF g \in files
          THEN [reader EXCEPT ![r].pending = @ \ {g}, ![r].opened = @ \cup {g}]
          ELSE [reader EXCEPT ![r] = failed]
  BY DEF Open
<1>2. m.stage = "opening" /\ g \in Ranges
  BY <1>0 DEF Open, ReaderRecord
<1>3. CASE g \in files
  <2> DEFINE new == [m EXCEPT !.pending = @ \ {g}, !.opened = @ \cup {g}]
  <2>1. reader' = [reader EXCEPT ![r] = new]
    BY <1>0, <1>1, <1>3 DEF CacheTypes
  <2>2. /\ new \in ReaderRecord /\ new.stage = "opening" /\ new.want = m.want /\ new.missing = m.missing
        /\ new.listing = m.listing /\ new.todo = m.todo /\ new.got = m.got
        /\ new.segment = m.segment /\ new.opened = m.opened \cup {g} /\ new.pending = m.pending \ {g}
    BY <1>0, <1>2 DEF ReaderRecord
  <2> HIDE DEF new, m
  <2>3. Named(new)
    BY <1>0, <1>2, <2>2 DEF Named
  <2>4. new.opened \cup new.pending = m.opened \cup m.pending
    BY <2>2
  <2>5. ~deleted => Sound(new, Covered)
    BY <1>0, <1>2, <2>2, <2>4 DEF Sound
  <2> QED BY <2>1, <2>2, <2>3, <2>5 DEF Stepped
<1>4. CASE g \notin files
  <2>1. reader' = [reader EXCEPT ![r] = failed]
    BY <1>1, <1>4
  <2> QED BY <2>1, RestingIsSound DEF Stepped
<1> QED BY <1>3, <1>4

\* The page is stored: whole, whatever became of the files it was read from.
LEMMA KeepSteps ==
  ASSUME ReadInv, NEW r \in Readers, Keep(r)
  PROVE  /\ Stepped(r)
         /\ pages' \in [Ranges -> (SUBSET Ranges) \cup {None}]
         /\ ~deleted => PagesAreWhole'
<1> DEFINE m == reader[r]
           f == m.segment
           s == f \cap m.want
<1>0. m \in ReaderRecord /\ Named(m) /\ CacheTypes /\ (~deleted => Sound(m, Covered) /\ PagesAreWhole)
  BY DEF ReadInv, CacheTypes
<1>1. /\ m.stage = "opening" /\ m.pending = {} /\ pages' \in Inserted(s, m.opened)
      /\ reader' = [reader EXCEPT ![r].stage = "reading", ![r].segment = {}, ![r].opened = {},
           ![r].todo = @ \ {f}, ![r].got = @ \cup {<<f, m.opened>>}]
  BY DEF Keep, Segment
<1>2. f \in m.todo /\ f \in Ranges /\ s \in Ranges /\ m.opened \in SUBSET Ranges
  BY <1>0, <1>1 DEF Named, ReaderRecord
<1>3. ~deleted => s \subseteq UNION m.opened
  BY <1>0, <1>1 DEF Sound
<1>4. Stepped(r)
  <2> DEFINE new == [m EXCEPT !.stage = "reading", !.segment = {}, !.opened = {},
                              !.todo = @ \ {f}, !.got = @ \cup {<<f, m.opened>>}]
  <2>1. reader' = [reader EXCEPT ![r] = new]
    BY <1>0, <1>1 DEF CacheTypes
  <2>2. <<f, m.opened>> \in Ranges \X (SUBSET Ranges)
    BY <1>2
  <2>3. /\ new \in ReaderRecord /\ new.stage = "reading" /\ new.want = m.want /\ new.missing = m.missing
        /\ new.listing = m.listing /\ new.todo = m.todo \ {f} /\ new.got = m.got \cup {<<f, m.opened>>}
    BY <1>0, <2>2 DEF ReaderRecord
  <2> HIDE DEF new
  <2>4. Named(new)
    BY <1>0, <2>3 DEF Named
  <2>5. ~deleted => Sound(new, Covered)
    <3> HIDE DEF m, f
    <3> QED BY <1>0, <1>1, <1>2, <1>3, <2>3, GotIsSound
  <2> QED BY <2>1, <2>3, <2>4, <2>5 DEF Stepped
<1> HIDE DEF m, f, s
<1>5. PICK kept : pages' = [p \in Ranges |-> IF p = s THEN m.opened ELSE IF p \in kept THEN pages[p] ELSE None]
  BY <1>1 DEF Inserted
<1>6. pages' \in [Ranges -> (SUBSET Ranges) \cup {None}]
  BY <1>0, <1>2, <1>5 DEF CacheTypes
<1>7. ~deleted => PagesAreWhole'
  BY <1>0, <1>3, <1>5 DEF PagesAreWhole
<1> QED BY <1>4, <1>6, <1>7

\* A call answers when nothing is left to read, and its result is collected.
LEMMA AnswerSteps ==
  ASSUME ReadInv, NEW r \in Readers, Answer(r) \/ Return(r)
  PROVE  Stepped(r)
<1> DEFINE m == reader[r]
<1>0. m \in ReaderRecord /\ Named(m) /\ CacheTypes /\ (~deleted => Sound(m, Covered))
  BY DEF ReadInv, CacheTypes
<1>1. CASE Answer(r)
  <2> DEFINE new == [m EXCEPT !.stage = "answered"]
  <2>1. reader' = [reader EXCEPT ![r] = new] /\ m.stage = "reading" /\ m.todo = {}
    BY <1>0, <1>1 DEF Answer, CacheTypes
  <2>2. /\ new \in ReaderRecord /\ new.stage = "answered" /\ new.want = m.want /\ new.missing = m.missing
        /\ new.listing = m.listing /\ new.todo = m.todo /\ new.got = m.got
    BY <1>0 DEF ReaderRecord
  <2> HIDE DEF new, m
  <2>3. Named(new) /\ (~deleted => Sound(new, Covered))
    BY <1>0, <2>1, <2>2 DEF Named, Sound
  <2> QED BY <2>1, <2>2, <2>3 DEF Stepped
<1>2. CASE Return(r)
  <2>1. reader' = [reader EXCEPT ![r] = [Resting EXCEPT !.stage = "idle"]]
    BY <1>2 DEF Return, Resting
  <2> QED BY <2>1, RestingIsSound DEF Stepped
<1> QED BY <1>1, <1>2

-----------------------------------------------------------------------------
(* The specification. *)

\* What is sound for what is stored is sound for more.
LEMMA SoundForMore ==
  ASSUME NEW m, NEW few, NEW more, few \subseteq more, Sound(m, few)
  PROVE  Sound(m, more)
BY DEF Sound
\* A step of one reader keeps what its record owes, and leaves the other records alone.
LEMMA OneReader ==
  ASSUME ReadInv, NEW r \in Readers, Stepped(r), UNCHANGED vars,
         coverage' \in (SUBSET Ranges) \cup {None},
         pages' \in [Ranges -> (SUBSET Ranges) \cup {None}],
         ~deleted => PagesAreWhole' /\ (coverage' # None => UNION coverage' \subseteq Covered)
  PROVE  ReadInv'
<1>1. PICK new \in ReaderRecord :
        reader' = [reader EXCEPT ![r] = new] /\ Named(new) /\ (~deleted => Sound(new, Covered))
  BY DEF Stepped
<1>2. reader \in [Readers -> ReaderRecord]
  BY DEF ReadInv, CacheTypes
<1>3. reader'[r] = new /\ \A q \in Readers : q # r => reader'[q] = reader[q]
  BY <1>1, <1>2
<1>4. IInv' /\ Covered' = Covered /\ deleted' = deleted
  BY IInvStep DEF ReadInv, vars, Covered
<1>5. CacheTypes'
  BY <1>1, <1>2 DEF CacheTypes
<1>6. \A q \in Readers : Named(reader'[q])
  BY <1>1, <1>3 DEF ReadInv
<1>7. ~deleted => \A q \in Readers : Sound(reader'[q], Covered)
  BY <1>1, <1>3 DEF ReadInv
<1> QED BY <1>4, <1>5, <1>6, <1>7 DEF ReadInv

\* A step that leaves the readers alone, and takes from the caches if anything.
LEMMA NoReader ==
  ASSUME ReadInv, [Next]_vars, UNCHANGED reader, coverage' \in {coverage, None},
         pages' \in [Ranges -> (SUBSET Ranges) \cup {None}],
         \A q \in Ranges : pages'[q] \in {pages[q], None},
         ~deleted' => ~deleted
  PROVE  ReadInv'
<1>1. IInv'
  BY IInvStep DEF ReadInv
<1>2. CacheTypes'
  BY DEF ReadInv, CacheTypes
<1>3. \A r \in Readers : Named(reader'[r])
  BY DEF ReadInv
<1>4. ASSUME ~deleted'
      PROVE  /\ PagesAreWhole' /\ (coverage' # None => UNION coverage' \subseteq Covered')
             /\ \A r \in Readers : Sound(reader'[r], Covered')
  <2>1. Covered \subseteq Covered'
    BY <1>4, CoveredStays DEF ReadInv
  <2>2. PagesAreWhole' /\ (coverage' # None => UNION coverage' \subseteq Covered')
    BY <1>4, <2>1 DEF ReadInv, PagesAreWhole
  <2>3. \A r \in Readers : Sound(reader[r], Covered)
    BY <1>4 DEF ReadInv
  <2>4. \A r \in Readers : Sound(reader[r], Covered')
    BY <2>1, <2>3, SoundForMore
  <2> QED BY <2>2, <2>4
<1> QED BY <1>1, <1>2, <1>3, <1>4 DEF ReadInv

\* Nothing is cached or asked for at first.
LEMMA EmptyIsSound ==
  ASSUME IInv, coverage = None, pages = NoPages, reader = [r \in Readers |-> Resting]
  PROVE  ReadInv
<1>2. Resting \in ReaderRecord /\ Named(Resting) /\ Sound(Resting, Covered)
  BY IdleIsSound
<1>3. \A q \in Ranges : pages[q] = None
  BY DEF NoPages
<1>4. CacheTypes
  BY <1>2 DEF CacheTypes, NoPages
<1> QED BY <1>2, <1>3, <1>4 DEF ReadInv, PagesAreWhole

\* The invariant survives every step.
LEMMA ReadInvStep == ReadInv /\ [ReadNext]_readVars => ReadInv'
<1> SUFFICES ASSUME ReadInv, [ReadNext]_readVars PROVE ReadInv'
  OBVIOUS
<1>0. [Next]_vars
  BY ReadStepIsStoreStep
<1>t. /\ coverage \in (SUBSET Ranges) \cup {None} /\ pages \in [Ranges -> (SUBSET Ranges) \cup {None}]
      /\ ~deleted => PagesAreWhole /\ (coverage # None => UNION coverage \subseteq Covered)
      /\ \A q \in Ranges : pages[q] \in {pages[q], None}
  BY DEF ReadInv, CacheTypes
<1>1. ASSUME NEW r \in Readers, Stepped(r), UNCHANGED <<vars, coverage, pages>> PROVE ReadInv'
  BY <1>1, <1>t, OneReader DEF PagesAreWhole
<1>2. ASSUME NEW r \in Readers,
             \/ \E q \in Ranges : Resolve(r, q)
             \/ List(r) \/ Look(r) \/ Open(r) \/ Answer(r) \/ Return(r)
      PROVE  ReadInv'
  <2>1. Stepped(r)
    BY <1>2, ResolveSteps, ListSteps, LookSteps, OpenSteps, AnswerSteps
  <2>2. UNCHANGED <<vars, coverage, pages>>
    BY <1>2 DEF Resolve, List, Look, Open, Answer, Return, caches
  <2> QED BY <1>1, <2>1, <2>2
<1>3. ASSUME NEW r \in Readers, Cache(r) PROVE ReadInv'
  <2>1. UNCHANGED vars /\ UNCHANGED pages /\ (~deleted => PagesAreWhole')
    BY <1>3, <1>t DEF Cache, PagesAreWhole
  <2> QED BY <1>3, <1>t, <2>1, CacheSteps, OneReader
<1>4. ASSUME NEW r \in Readers, Keep(r) PROVE ReadInv'
  <2>1. UNCHANGED vars /\ UNCHANGED coverage
    BY <1>4 DEF Keep
  <2> QED BY <1>4, <1>t, <2>1, KeepSteps, OneReader
<1>5. ASSUME NEW q \in Ranges, Evict(q) PROVE ReadInv'
  <2>1. UNCHANGED <<reader, coverage, deleted>> /\ pages' = [pages EXCEPT ![q] = None]
    BY <1>5 DEF Evict, vars
  <2>2. /\ pages' \in [Ranges -> (SUBSET Ranges) \cup {None}]
        /\ \A p \in Ranges : pages'[p] \in {pages[p], None}
    BY <1>t, <2>1
  <2> QED BY <1>0, <2>1, <2>2, NoReader
<1>6. ASSUME NEW w \in Writers, Write(w) \/ DropCoverage(w) \/ Fail(w) PROVE ReadInv'
  <2>1. UNCHANGED <<reader, pages, deleted>> /\ coverage' \in {coverage, None}
    BY <1>6 DEF Write, DropCoverage, Fail, caches, vars, BeginWrite, RefuseWrite, PlaceFile, Unlink,
                FinishWrite, FailWrite, CollectWrite
  <2> QED BY <1>0, <1>t, <2>1, NoReader
<1>7. ASSUME NEW w \in Writers, DropPages(w) PROVE ReadInv'
  <2>1. UNCHANGED <<reader, coverage, deleted>> /\ pages' = NoPages
    BY <1>7 DEF DropPages, CollectWrite
  <2>2. /\ pages' \in [Ranges -> (SUBSET Ranges) \cup {None}]
        /\ \A q \in Ranges : pages'[q] \in {pages[q], None}
    BY <2>1 DEF NoPages
  <2> QED BY <1>0, <2>1, <2>2, NoReader
<1>8. CASE Restart
  <2>1. IInv'
    BY <1>0, IInvStep DEF ReadInv
  <2>2. coverage' = None /\ pages' = NoPages /\ reader' = [r \in Readers |-> Resting]
    BY <1>8 DEF Restart
  <2>3. Resting \in ReaderRecord /\ Named(Resting) /\ Sound(Resting, Covered')
    BY IdleIsSound
  <2>4. CacheTypes' /\ PagesAreWhole'
    BY <2>2, <2>3 DEF CacheTypes, PagesAreWhole, NoPages
  <2> QED BY <2>1, <2>2, <2>3, <2>4 DEF ReadInv
<1>9. CASE Delete
  <2>1. UNCHANGED <<reader, coverage, pages>> /\ deleted'
    BY <1>9 DEF Delete, DeleteSeries, caches
  <2> QED BY <1>0, <1>t, <2>1, NoReader
<1>10. CASE UNCHANGED readVars
  <2>1. UNCHANGED <<reader, coverage, pages, deleted>>
    BY <1>10 DEF readVars
  <2> QED BY <1>0, <1>t, <2>1, NoReader
<1> QED BY <1>2, <1>3, <1>4, <1>5, <1>6, <1>7, <1>8, <1>9, <1>10 DEF ReadNext

\* In every behaviour.
LEMMA ReadInvHolds == ReadSpec => []ReadInv
<1>1. ReadInit => ReadInv
  BY IInvInit, EmptyIsSound DEF ReadInit
<1> QED BY <1>1, ReadInvStep, PTL DEF ReadSpec

(***************************************************************************)
(* For any ranges, any number of writers and of readers, and whatever the  *)
(* budget evicts: until the series is deleted, what an answer of resolve   *)
(* does not hold it reports as missing, and every cached page is whole.    *)
(***************************************************************************)
THEOREM AnswersHold == ReadSpec => []AnswersAreWhole
<1>1. ASSUME ReadInv, ~deleted, NEW r \in Readers, reader[r].stage = "answered"
      PROVE  reader[r].want \subseteq reader[r].missing \cup Bars(reader[r].got, reader[r].want)
  <2>1. Sound(reader[r], Covered)
    BY <1>1 DEF ReadInv
  <2>2. reader[r].todo = {}
    BY <1>1, <2>1 DEF Sound
  <2>3. reader[r].want \subseteq reader[r].missing \cup (UNION reader[r].todo) \cup Bars(reader[r].got, reader[r].want)
    BY <1>1, <2>1 DEF Sound
  <2> QED BY <2>2, <2>3
<1>2. ReadInv => AnswersAreWhole
  BY <1>1 DEF AnswersAreWhole, ReadInv, PagesAreWhole
<1> QED BY ReadInvHolds, <1>2, PTL
=============================================================================
