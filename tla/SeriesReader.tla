------------------------------ MODULE SeriesReader ------------------------------
(***************************************************************************)
(* Reading a venue series while it is being written: SeriesLoader::resolve *)
(* with the two caches it goes through (loader/ladder.rs, coverage.rs,     *)
(* cache.rs) and Store::read_range (store/reader.rs).                      *)
(*                                                                         *)
(* A reader takes no lock either.  It plans from a listing that may be     *)
(* cached, lists again for each segment, and opens one file after the      *)
(* other, while writers place files, unlink what those replace and drop    *)
(* the caches, one step at a time.                                         *)
(*                                                                         *)
(* A file holds a bar in each of its slots, so what a page holds is told   *)
(* by the files it was read from; bars outside the segment are trimmed.    *)
(***************************************************************************)
EXTENDS SeriesStore, Naturals, FiniteSetsExt

CONSTANTS Readers,   \* the calls of resolve that can be running at once
          Budget,    \* the pages of the series that fit the byte budget of the cache
          None       \* nothing is cached

ASSUME BudgetAssumption == Budget \in Nat \ {0}

\* Ranges are stretches of one time line: what two of them share is one, or nothing.
ASSUME RangesAssumption == \A p, q \in Ranges : p \cap q # {} => p \cap q \in Ranges

VARIABLES coverage,  \* CoverageCache: a listing, or None
          pages,     \* pages[q]: BarCache: the files the bars of q were read from, or None
          reader,    \* reader[r]: how far the call r has got
          committed  \* writers that have dropped the cached coverage, and not yet the pages

caches == <<coverage, pages, committed>>
readVars == <<files, writer, deleted, coverage, pages, reader, committed>>

(***************************************************************************)
(*   idle      no call                                                     *)
(*   listing   the coverage cache holds nothing, the directory is read     *)
(*   caching   the listing is on its way into the cache                    *)
(*   reading   planned; the segments in todo have not been looked at       *)
(*   opening   the files in pending have still to be opened for segment    *)
(*   answered, failed                                                      *)
(***************************************************************************)
Resting == [stage |-> "idle", want |-> {}, listing |-> {}, missing |-> {}, todo |-> {},
            segment |-> {}, pending |-> {}, opened |-> {}, got |-> {}]

-----------------------------------------------------------------------------
(* The plan. *)

(***************************************************************************)
(* compute_gap: the whole range at once if the listing covers it, and else *)
(* a segment for each file that reaches into it.                           *)
(***************************************************************************)
Planned(q, listing) ==
  [Resting EXCEPT !.stage = "reading", !.want = q,
     !.missing = q \ UNION listing,
     !.todo = IF q \subseteq UNION listing THEN {q} ELSE {f \in listing : f \cap q # {}}]

(***************************************************************************)
(* resolve: a page of just this range is the answer; what is missing is    *)
(* told, never fetched.  The two caches have a lock each: a page may come  *)
(* in after it was looked for, and before the coverage is.                 *)
(***************************************************************************)
Resolve(r, q) ==
  /\ reader[r].stage = "idle"
  /\ \/ /\ pages[q] # None
        /\ reader' = [reader EXCEPT ![r] =
             [Resting EXCEPT !.stage = "answered", !.want = q, !.got = {<<q, pages[q]>>}]]
     \/ /\ coverage # None
        /\ reader' = [reader EXCEPT ![r] = Planned(q, coverage)]
     \/ /\ coverage = None
        /\ reader' = [reader EXCEPT ![r] = [Resting EXCEPT !.stage = "listing", !.want = q]]
  /\ UNCHANGED <<vars, caches>>

List(r) ==
  /\ reader[r].stage = "listing"
  /\ reader' = [reader EXCEPT ![r].stage = "caching", ![r].listing = files]
  /\ UNCHANGED <<vars, caches>>

\* The listing is stored whatever was invalidated since it was read.
Cache(r) ==
  /\ reader[r].stage = "caching"
  /\ coverage' = reader[r].listing
  /\ reader' = [reader EXCEPT ![r] = Planned(reader[r].want, reader[r].listing)]
  /\ UNCHANGED <<vars, pages, committed>>

-----------------------------------------------------------------------------
(* read_store_bars, once for each segment *)

Segment(r, f) == f \cap reader[r].want

\* A page is there, or was not when it was looked for, and the files that reach into the
\* segment are listed.
Look(r) ==
  /\ reader[r].stage = "reading"
  /\ \E f \in reader[r].todo :
       LET s == Segment(r, f)
       IN  \/ /\ pages[s] # None
              /\ reader' = [reader EXCEPT ![r].todo = @ \ {f}, ![r].got = @ \cup {<<f, pages[s]>>}]
           \/ reader' = [reader EXCEPT ![r].stage = "opening", ![r].segment = f, ![r].opened = {},
                                       ![r].pending = {g \in files : g \cap s # {}}]
  /\ UNCHANGED <<vars, caches>>

\* Mutant: a file that is gone is passed over.
OpenIfThere(r) ==
  /\ reader[r].stage = "opening"
  /\ \E g \in reader[r].pending :
       /\ \A h \in reader[r].pending : Min(g) <= Min(h)
       /\ reader' = [reader EXCEPT ![r].pending = @ \ {g},
            ![r].opened = IF g \in files THEN @ \cup {g} ELSE @]
  /\ UNCHANGED <<vars, caches>>

\* Files are opened in order of their start, each when the last is exhausted; one may be gone.
Open(r) ==
  /\ reader[r].stage = "opening"
  /\ \E g \in reader[r].pending :
       /\ \A h \in reader[r].pending : Min(g) <= Min(h)
       /\ reader' = IF g \in files
            THEN [reader EXCEPT ![r].pending = @ \ {g}, ![r].opened = @ \cup {g}]
            ELSE [reader EXCEPT ![r] = [Resting EXCEPT !.stage = "failed"]]
  /\ UNCHANGED <<vars, caches>>

\* BarCache::insert: the pages used least recently go, until the rest fits the budget.
Inserted(q, page) ==
  LET others == {p \in Ranges \ {q} : pages[p] # None}
  IN  {[p \in Ranges |-> IF p = q THEN page ELSE IF p \in kept THEN pages[p] ELSE None] :
         kept \in kSubset(Min({Cardinality(others), Budget - 1}), others)}

\* The page is stored, whatever was invalidated since its files were listed.
Keep(r) ==
  LET f == reader[r].segment
  IN  /\ reader[r].stage = "opening" /\ reader[r].pending = {}
      /\ pages' \in Inserted(Segment(r, f), reader[r].opened)
      /\ reader' = [reader EXCEPT ![r].stage = "reading", ![r].segment = {}, ![r].opened = {},
           ![r].todo = @ \ {f}, ![r].got = @ \cup {<<f, reader[r].opened>>}]
      /\ UNCHANGED <<vars, coverage, committed>>

Answer(r) ==
  /\ reader[r].stage = "reading" /\ reader[r].todo = {}
  /\ reader' = [reader EXCEPT ![r].stage = "answered"]
  /\ UNCHANGED <<vars, caches>>

Return(r) ==
  /\ reader[r].stage \in {"answered", "failed"}
  /\ reader' = [reader EXCEPT ![r] = Resting]
  /\ UNCHANGED <<vars, caches>>

\* The budget is shared with every other series: a page of theirs takes the place of one.
Evict(q) ==
  /\ pages[q] # None
  /\ pages' = [pages EXCEPT ![q] = None]
  /\ UNCHANGED <<vars, coverage, reader, committed>>

-----------------------------------------------------------------------------
(* What a write does to the caches: process_chunk, once its file is in place. *)

NoPages == [q \in Ranges |-> None]

DropCoverage(w) ==
  /\ writer[w].stage = "written" /\ w \notin committed
  /\ coverage' = None
  /\ committed' = committed \cup {w}
  /\ UNCHANGED <<vars, pages, reader>>

DropPages(w) ==
  /\ w \in committed /\ CollectWrite(w)
  /\ pages' = NoPages
  /\ committed' = committed \ {w}
  /\ UNCHANGED <<coverage, reader>>

\* A write that failed drops neither, whatever it left on disk, nor does the write of a
\* chunk whose left edge could not be recorded.
Fail(w) ==
  /\ w \notin committed /\ CollectWrite(w)
  /\ UNCHANGED <<caches, reader>>

Write(w) ==
  /\ \/ \E r \in Ranges : BeginWrite(w, r) \/ RefuseWrite(w, r)
     \/ PlaceFile(w) \/ Unlink(w) \/ FinishWrite(w) \/ FailWrite(w)
  /\ UNCHANGED <<caches, reader>>

Restart ==
  /\ Crash
  /\ coverage' = None /\ pages' = NoPages /\ committed' = {}
  /\ reader' = [r \in Readers |-> Resting]

\* The deletion knows of no loader and drops no cache.
Delete == DeleteSeries /\ UNCHANGED <<caches, reader>>

-----------------------------------------------------------------------------
ReadInit ==
  /\ Init
  /\ coverage = None /\ pages = NoPages /\ committed = {}
  /\ reader = [r \in Readers |-> Resting]

ReadNext ==
  \/ \E r \in Readers :
       \/ \E q \in Ranges : Resolve(r, q)
       \/ List(r) \/ Cache(r) \/ Look(r) \/ Open(r) \/ Keep(r) \/ Answer(r) \/ Return(r)
  \/ \E q \in Ranges : Evict(q)
  \/ \E w \in Writers : Write(w) \/ DropCoverage(w) \/ DropPages(w) \/ Fail(w)
  \/ Restart
  \/ Delete

ReadSpec == ReadInit /\ [][ReadNext]_readVars

-----------------------------------------------------------------------------
(* Properties. *)

\* The slots of an answer, and of a page that was read for s.
Bars(got, q) == UNION {UNION {f \cap g[1] \cap q : f \in g[2]} : g \in got}

(***************************************************************************)
(* What an answer does not hold it reports as missing, and a cached page   *)
(* is whole: until the series is deleted, no file a reader planned with    *)
(* is replaced, unlinked or left over in a way that takes a bar out of the *)
(* answer without a word.                                                  *)
(***************************************************************************)
AnswersAreWhole ==
  ~ deleted =>
    /\ \A r \in Readers :
         reader[r].stage = "answered" =>
           reader[r].want \subseteq reader[r].missing \cup Bars(reader[r].got, reader[r].want)
    /\ \A q \in Ranges : pages[q] # None => q \subseteq UNION pages[q]
=============================================================================
