----------------------------- MODULE SeriesLoader ------------------------------
(***************************************************************************)
(* The jobs of one SeriesLoader filling the bars of one venue series       *)
(* (crates/loader): planning a gap from the cached coverage, taking a slot *)
(* of the priority gate for each chunk, fetching it once with whoever else *)
(* wants it, writing it to the store, moving the recorded left edge, and   *)
(* dropping the cached coverage.  A job runs concurrently with the others  *)
(* and may be cancelled; the process may die; an administrator may delete  *)
(* the series behind the loader's back.                                    *)
(*                                                                         *)
(* Time is cut into the slots of the venue series.  A request is either    *)
(* for the series itself or for a coarser one folded from it, whose bars   *)
(* are buckets of BucketSlots slots.                                       *)
(***************************************************************************)
EXTENDS Integers, Sequences, FiniteSets, SequencesExt

CONSTANTS Jobs,         \* the jobs that can be known at once
          Horizon,      \* the slots are 0 .. Horizon - 1
          Requests,     \* the requests ensure() may be given
          Urgent,       \* the jobs of Priority::Visible, the rest are Background
          Histories,    \* the sets of slots in which the venue may have a bar
          PageSlots,    \* BarSource::max_rows: the widest chunk
          BucketSlots,  \* slots in a bar of the coarser series
          Capacities,   \* the settings of max_concurrent_fetches
          MaxAttempts,  \* MAX_CHUNK_ATTEMPTS
          MaxAsked,     \* bound: how many jobs are ever asked for
          Faults,       \* which of "crash" and "delete" may happen
          NoCoverage,   \* the coverage cache holds nothing for the series
          NoEdge,       \* no left edge is recorded
          NoCell        \* no single-flight cell

ASSUME SizesAssumption ==
  /\ {Horizon, PageSlots, BucketSlots, MaxAttempts} \cup Capacities
       \subseteq Nat \ {0}
  /\ MaxAsked \in Nat

VARIABLES files,     \* the store: see SeriesStore
          writer,    \* the store: see SeriesStore
          edge,      \* the earliest_available sidecar
          history,   \* the slots in which the venue has a bar
          coverage,  \* CoverageCache: a listing, or NoCoverage
          job,       \* job[j]: what the task of job j is doing
          capacity,  \* PriorityGate: its slots, fixed when the loader is built
          free,      \* PriorityGate: slots neither held nor promised
          queue,     \* PriorityGate: the waiting jobs in arrival order
          flight,    \* ChunkSingleFlight: the cell of each chunk in its map
          cell,      \* cell[i]: the content of OnceCell i
          deleted,   \* the store: see SeriesStore
          asked      \* how many jobs have been asked for

storeVars == <<files, writer, deleted>>
gateVars == <<capacity, free, queue>>
flightVars == <<flight, cell>>
vars == <<files, writer, edge, history, coverage, job, capacity, free, queue,
          flight, cell, deleted, asked>>

Slots == 0 .. (Horizon - 1)
Ranges == {a .. b : a \in Slots, b \in Slots} \ {{}}

\* A request is for a range of slots, and a job is not mistaken for "no cell".
ASSUME LoaderAssumption ==
  /\ IsFiniteSet(Jobs) /\ NoCell \notin Jobs
  /\ Requests \subseteq [kind : {"venue", "derived"}, range : Ranges]

Store == INSTANCE SeriesStore WITH Writers <- Jobs

Least(s) == CHOOSE x \in s : \A y \in s : x <= y
End(r) == 1 + CHOOSE x \in r : \A y \in r : x >= y

(***************************************************************************)
(* Where the task of a job is.  From "fetch" on it holds a gate slot.      *)
(***************************************************************************)
Holding == {"fetch", "awaiting", "fetching", "leaving", "backoff", "write",
            "writing", "edge", "edgeRead", "commit"}
Pcs == {"none", "plan", "missed", "listed", "turn", "queued", "ended"} \cup Holding

NoJob == [pc |-> "none", kind |-> "venue", range |-> {}, look |-> "gap",
          listing |-> {}, missing |-> {}, chunks |-> {}, attempt |-> 0,
          cell |-> NoCell, got |-> "none", seen |-> NoEdge,
          cancelled |-> FALSE, outcome |-> "none"]

Running(j) == job[j].pc \notin {"none", "ended"}

\* The chunk job j is working on: chunks are taken in ascending order.
Chunk(j) == CHOOSE c \in job[j].chunks :
              \A d \in job[j].chunks : Least(c) <= Least(d)
Bars(j) == Chunk(j) \cap history

EmptyCell == [ready |-> FALSE, runner |-> FALSE]

TypeOK ==
  /\ Store!TypeOK
  /\ edge \in (0 .. Horizon) \cup {NoEdge}
  /\ history \in Histories
  /\ coverage \in (SUBSET Ranges) \cup {NoCoverage}
  /\ \A j \in Jobs :
       /\ job[j].pc \in Pcs
       /\ job[j].chunks \subseteq Ranges
       /\ job[j].missing \subseteq job[j].range
       /\ job[j].range \in Ranges \cup {{}}
       /\ job[j].cell \in Jobs \cup {NoCell}
       /\ job[j].attempt \in 0 .. MaxAttempts
  /\ capacity \in Capacities
  /\ free \in 0 .. capacity
  /\ queue \in Seq(Jobs)
  /\ flight \in [Ranges -> Jobs \cup {NoCell}]
  /\ cell \in [Jobs -> [ready : BOOLEAN, runner : BOOLEAN]]
  /\ asked \in 0 .. MaxAsked

Init ==
  /\ Store!Init
  /\ edge = NoEdge
  /\ history \in Histories
  /\ coverage = NoCoverage
  /\ job = [j \in Jobs |-> NoJob]
  /\ capacity \in Capacities
  /\ free = capacity
  /\ queue = <<>>
  /\ flight = [r \in Ranges |-> NoCell]
  /\ cell = [i \in Jobs |-> EmptyCell]
  /\ asked = 0

-----------------------------------------------------------------------------
(***************************************************************************)
(* The gap planner: TimeRange::subtract, fold_candidate and                *)
(* trim_to_whole_buckets over one stored series.                           *)
(***************************************************************************)
\* The maximal runs of consecutive slots of s.
Runs(s) == {r \in Ranges : /\ r \subseteq s
                           /\ Least(r) - 1 \notin s
                           /\ End(r) \notin s}

Bucket(s) == LET first == s - (s % BucketSlots) IN first .. (first + BucketSlots - 1)

\* A derived request is credited only with the whole buckets of a piece.
Trim(kind, piece) ==
  IF kind = "venue" THEN piece ELSE {s \in piece : Bucket(s) \subseteq piece}

\* What is still missing of `missing` once `listing` has been credited.
Uncredited(kind, missing, listing) ==
  missing \ UNION {Trim(kind, c \cap run) : c \in listing, run \in Runs(missing)}

\* split_into_chunks over every missing run.
Split(missing) ==
  {c \in Ranges : \E run \in Runs(missing) :
     /\ c \subseteq run
     /\ (Least(c) - Least(run)) % PageSlots = 0
     /\ \/ Cardinality(c) = PageSlots
        \/ Cardinality(c) < PageSlots /\ End(c) = End(run)}

-----------------------------------------------------------------------------
\* ensure(): a new job; a record that has ended makes room for it.
Ensure(j, request) ==
  /\ ~Running(j)
  /\ asked < MaxAsked
  /\ asked' = asked + 1
  /\ job' = [job EXCEPT ![j] =
       [NoJob EXCEPT !.pc = "plan", !.kind = request.kind,
                     !.range = request.range, !.missing = request.range]]
  /\ UNCHANGED <<storeVars, edge, history, coverage, gateVars, flightVars>>

Ended(j, outcome) ==
  [NoJob EXCEPT !.pc = "ended", !.kind = job[j].kind, !.range = job[j].range,
                !.outcome = outcome]

(***************************************************************************)
(* What job j does with a listing.  A derived gap that is not closed looks *)
(* the fetch series up a second time; the lookups made to warm the cache   *)
(* after the last chunk change nothing in the job.                         *)
(***************************************************************************)
Credited(j, listing) ==
  LET left == Uncredited(job[j].kind, job[j].missing, listing)
      again == job[j].kind = "derived" /\ left # {}
  IN CASE job[j].look = "gap" /\ again ->
            [job[j] EXCEPT !.pc = "plan", !.look = "gapAgain", !.missing = left,
                           !.listing = {}]
       [] job[j].look = "gapAgain" \/ (job[j].look = "gap" /\ ~ again) ->
            [job[j] EXCEPT !.pc = "turn", !.missing = {}, !.listing = {},
                           !.chunks = Split(left)]
       [] job[j].look = "warm" /\ again ->
            [job[j] EXCEPT !.pc = "plan", !.look = "warmAgain", !.missing = left,
                           !.listing = {}]
       [] OTHER -> Ended(j, "completed")

(***************************************************************************)
(* CoverageCache::get: looks, and on a miss lists the directory and then   *)
(* remembers the listing, holding its lock only for the look and for the   *)
(* insert.                                                                 *)
(***************************************************************************)
LookUp(j) ==
  /\ job[j].pc = "plan"
  /\ job' = [job EXCEPT ![j] = IF coverage = NoCoverage
                                 THEN [job[j] EXCEPT !.pc = "missed"]
                                 ELSE Credited(j, coverage)]
  /\ UNCHANGED <<storeVars, edge, history, coverage, gateVars, flightVars, asked>>

List(j) ==
  /\ job[j].pc = "missed"
  /\ job' = [job EXCEPT ![j].pc = "listed", ![j].listing = files]
  /\ UNCHANGED <<storeVars, edge, history, coverage, gateVars, flightVars, asked>>

\* A directory that cannot be listed fails the plan, but not a warming.
ListFails(j) ==
  /\ job[j].pc = "missed"
  /\ job' = [job EXCEPT ![j] =
       Ended(j, IF job[j].look \in {"gap", "gapAgain"} THEN "failed" ELSE "completed")]
  /\ UNCHANGED <<storeVars, edge, history, coverage, gateVars, flightVars, asked>>

Remember(j) ==
  /\ job[j].pc = "listed"
  /\ coverage' = job[j].listing
  /\ job' = [job EXCEPT ![j] = Credited(j, job[j].listing)]
  /\ UNCHANGED <<storeVars, edge, history, gateVars, flightVars, asked>>

-----------------------------------------------------------------------------
\* PriorityGate::acquire, for the next chunk of a job that was not cancelled.
NextChunk(j) ==
  /\ job[j].pc = "turn"
  /\ job[j].chunks # {}
  /\ ~job[j].cancelled
  /\ \/ /\ free > 0
        /\ free' = free - 1
        /\ job' = [job EXCEPT ![j].pc = "fetch", ![j].attempt = 1]
        /\ UNCHANGED queue
     \/ /\ free = 0
        /\ queue' = Append(queue, j)
        /\ job' = [job EXCEPT ![j].pc = "queued", ![j].attempt = 1]
        /\ UNCHANGED free
  /\ UNCHANGED <<storeVars, edge, history, coverage, capacity, flightVars, asked>>

\* The waiter a freed slot goes to: the most urgent, then the earliest.
Ahead(i, k) ==
  \/ queue[i] \in Urgent /\ queue[k] \notin Urgent
  \/ (queue[i] \in Urgent <=> queue[k] \in Urgent) /\ i < k

Served == CHOOSE i \in DOMAIN queue : \A k \in (DOMAIN queue) \ {i} : Ahead(i, k)

\* Mutant: the slot goes back to the pool whoever waits.
ReleaseUnclaimed(j, next) ==
  /\ free' = free + 1
  /\ job' = [job EXCEPT ![j] = next]
  /\ UNCHANGED <<capacity, queue>>

\* Mutant: the slot handed to a waiter goes back to the pool as well.
ReleaseTwice(j, next) ==
  /\ free' = free + 1
  /\ UNCHANGED capacity
  /\ \/ /\ queue = <<>>
        /\ job' = [job EXCEPT ![j] = next]
        /\ UNCHANGED queue
     \/ /\ queue # <<>>
        /\ queue' = RemoveAt(queue, Served)
        /\ job' = [job EXCEPT ![j] = next, ![queue[Served]].pc = "fetch"]

\* Job j gives its slot back and goes on as `next`: Permit::drop.
Release(j, next) ==
  /\ UNCHANGED capacity
  /\ \/ /\ queue = <<>>
        /\ free' = free + 1
        /\ job' = [job EXCEPT ![j] = next]
        /\ UNCHANGED queue
     \/ /\ queue # <<>>
        /\ queue' = RemoveAt(queue, Served)
        /\ job' = [job EXCEPT ![j] = next, ![queue[Served]].pc = "fetch"]
        /\ UNCHANGED free

-----------------------------------------------------------------------------
(***************************************************************************)
(* ChunkSingleFlight::fetch_or_join.  A cell is named by one of Jobs only  *)
(* because there can be no more cells in use than jobs.                    *)
(***************************************************************************)
UnusedCell == CHOOSE i \in Jobs : \A k \in Jobs : job[k].cell # i

\* cell_for: the cell of the chunk in the map, or a new one.
JoinCell(j) ==
  /\ job[j].pc = "fetch"
  /\ LET c == Chunk(j) IN
       \/ /\ flight[c] # NoCell
          /\ job' = [job EXCEPT ![j].pc = "awaiting", ![j].cell = flight[c]]
          /\ UNCHANGED flightVars
       \/ /\ flight[c] = NoCell
          /\ flight' = [flight EXCEPT ![c] = UnusedCell]
          /\ cell' = [cell EXCEPT ![UnusedCell] = EmptyCell]
          /\ job' = [job EXCEPT ![j].pc = "awaiting", ![j].cell = UnusedCell]
  /\ UNCHANGED <<storeVars, edge, history, coverage, gateVars, asked>>

\* get_or_try_init: one at a time runs the fetch, the others wait for it.
StartFetch(j) ==
  /\ job[j].pc = "awaiting"
  /\ cell[job[j].cell] = EmptyCell
  /\ cell' = [cell EXCEPT ![job[j].cell].runner = TRUE]
  /\ job' = [job EXCEPT ![j].pc = "fetching"]
  /\ UNCHANGED <<storeVars, edge, history, coverage, gateVars, flight, asked>>

FetchOk(j) ==
  /\ job[j].pc = "fetching"
  /\ cell' = [cell EXCEPT ![job[j].cell] = [ready |-> TRUE, runner |-> FALSE]]
  /\ job' = [job EXCEPT ![j].pc = "leaving", ![j].got = "bars"]
  /\ UNCHANGED <<storeVars, edge, history, coverage, gateVars, flight, asked>>

\* The cell stays empty, and whoever waits for it next runs a fetch of its own.
FetchFails(j) ==
  /\ job[j].pc = "fetching"
  /\ cell' = [cell EXCEPT ![job[j].cell] = EmptyCell]
  /\ \E error \in {"retryable", "fatal"} :
       job' = [job EXCEPT ![j].pc = "leaving", ![j].got = error]
  /\ UNCHANGED <<storeVars, edge, history, coverage, gateVars, flight, asked>>

ShareResult(j) ==
  /\ job[j].pc = "awaiting"
  /\ cell[job[j].cell].ready
  /\ job' = [job EXCEPT ![j].pc = "leaving", ![j].got = "bars"]
  /\ UNCHANGED <<storeVars, edge, history, coverage, gateVars, flightVars, asked>>

\* Mutant: the cell stays in the map.
CellKept(j) == flight

\* The cell is taken out of the map if it is still the one there.
WithoutCell(j) == IF flight[Chunk(j)] = job[j].cell
                    THEN [flight EXCEPT ![Chunk(j)] = NoCell]
                    ELSE flight

\* Mutant: one attempt too many.
MayRetryOnceMore(j) == job[j].got = "retryable" /\ job[j].attempt <= MaxAttempts

MayRetry(j) == job[j].got = "retryable" /\ job[j].attempt < MaxAttempts

\* fetch_chunk_with_retry decides what the result means for the job.
LeaveCell(j) ==
  /\ job[j].pc = "leaving"
  /\ flight' = WithoutCell(j)
  /\ LET left == [job[j] EXCEPT !.cell = NoCell, !.got = "none"] IN
       \/ /\ job[j].got = "bars"
          /\ job' = [job EXCEPT ![j] = [left EXCEPT !.pc = "write", !.attempt = 0]]
          /\ UNCHANGED gateVars
       \/ /\ MayRetry(j)
          /\ job' = [job EXCEPT ![j] = [left EXCEPT !.pc = "backoff"]]
          /\ UNCHANGED gateVars
       \/ /\ job[j].got # "bars"
          /\ ~MayRetry(j)
          /\ Release(j, Ended(j, "failed"))
  /\ UNCHANGED <<storeVars, edge, history, coverage, cell, asked>>

\* The backoff has been slept through; the slot was held all along.
Retry(j) ==
  /\ job[j].pc = "backoff"
  /\ job' = [job EXCEPT ![j].pc = "fetch", ![j].attempt = @ + 1]
  /\ UNCHANGED <<storeVars, edge, history, coverage, gateVars, flightVars, asked>>

-----------------------------------------------------------------------------
\* process_chunk writes what it fetched; an empty answer is not written.
SkipWrite(j) ==
  /\ job[j].pc = "write"
  /\ Bars(j) = {}
  /\ job' = [job EXCEPT ![j].pc = "edge"]
  /\ UNCHANGED <<storeVars, edge, history, coverage, gateVars, flightVars, asked>>

StartWrite(j) ==
  /\ job[j].pc = "write"
  /\ Bars(j) # {}
  /\ Store!BeginWrite(j, Chunk(j)) \/ Store!RefuseWrite(j, Chunk(j))
  /\ job' = [job EXCEPT ![j].pc = "writing"]
  /\ UNCHANGED <<edge, history, coverage, gateVars, flightVars, asked>>

Write(j) ==
  /\ \/ Store!PlaceFile(j)
     \/ Store!Unlink(j)
     \/ Store!FinishWrite(j)
     \/ Store!FailWrite(j)
  /\ UNCHANGED <<edge, history, coverage, job, gateVars, flightVars, asked>>

\* Mutant: the job goes on after a failed write.
EndWriteAnyhow(j) ==
  /\ job[j].pc = "writing"
  /\ Store!CollectWrite(j)
  /\ job' = [job EXCEPT ![j].pc = "edge"]
  /\ UNCHANGED <<edge, history, coverage, gateVars, flightVars, asked>>

\* A failed write fails the job, and leaves every cache as it is.
EndWrite(j) ==
  /\ job[j].pc = "writing"
  /\ Store!CollectWrite(j)
  /\ \/ /\ writer[j].stage = "written"
        /\ job' = [job EXCEPT ![j].pc = "edge"]
        /\ UNCHANGED gateVars
     \/ /\ writer[j].stage = "failed"
        /\ Release(j, Ended(j, "failed"))
  /\ UNCHANGED <<edge, history, coverage, flightVars, asked>>

(***************************************************************************)
(* update_earliest_boundary: reads the sidecar, then moves the edge to the *)
(* end of a whole page that came back empty, or removes an edge that a     *)
(* real bar disproves.                                                     *)
(***************************************************************************)
ReadEdge(j) ==
  /\ job[j].pc = "edge"
  /\ job' = [job EXCEPT ![j].pc = "edgeRead", ![j].seen = edge]
  /\ UNCHANGED <<storeVars, edge, history, coverage, gateVars, flightVars, asked>>

MoveEdge(j) ==
  LET c == Chunk(j)
      seen == job[j].seen
      exhausted == Cardinality(c) = PageSlots /\ Bars(j) = {}
      disproved == Bars(j) # {} /\ seen # NoEdge /\ Least(Bars(j)) < seen
  IN /\ job[j].pc = "edgeRead"
     /\ edge' = CASE exhausted /\ (seen = NoEdge \/ End(c) < seen) -> End(c)
                   [] disproved -> NoEdge
                   [] OTHER -> edge
     /\ job' = [job EXCEPT ![j].pc = "commit", ![j].seen = NoEdge]
     /\ UNCHANGED <<storeVars, history, coverage, gateVars, flightVars, asked>>

\* The sidecar cannot be read or written: the job fails, the chunk is stored.
EdgeFails(j) ==
  /\ job[j].pc \in {"edge", "edgeRead"}
  /\ Release(j, Ended(j, "failed"))
  /\ UNCHANGED <<storeVars, edge, history, coverage, flightVars, asked>>

\* Mutant: the chunk is added to the cached coverage, which is not dropped.
CommitExtending(j) ==
  /\ job[j].pc = "commit"
  /\ coverage' = IF coverage = NoCoverage THEN coverage ELSE coverage \cup {Chunk(j)}
  /\ Release(j, [job[j] EXCEPT !.pc = "turn", !.chunks = @ \ {Chunk(j)}])
  /\ UNCHANGED <<storeVars, edge, history, flightVars, asked>>

\* The chunk is accounted for: the cached coverage goes, and so does the slot.
CommitChunk(j) ==
  /\ job[j].pc = "commit"
  /\ coverage' = NoCoverage
  /\ Release(j, [job[j] EXCEPT !.pc = "turn", !.chunks = @ \ {Chunk(j)}])
  /\ UNCHANGED <<storeVars, edge, history, flightVars, asked>>

-----------------------------------------------------------------------------
\* Cancellation is noticed before a chunk, never after the last one.
Stop(j) ==
  /\ job[j].pc = "turn"
  /\ job[j].chunks # {}
  /\ job[j].cancelled
  /\ job' = [job EXCEPT ![j] = Ended(j, "cancelled")]
  /\ UNCHANGED <<storeVars, edge, history, coverage, gateVars, flightVars, asked>>

\* Every chunk is written.  A derived job may go on to warm the bar cache.
Complete(j) ==
  /\ job[j].pc = "turn"
  /\ job[j].chunks = {}
  /\ \/ job' = [job EXCEPT ![j] = Ended(j, "completed")]
     \/ /\ job[j].kind = "derived"
        /\ job' = [job EXCEPT ![j].pc = "plan", ![j].look = "warm",
                               ![j].missing = job[j].range]
  /\ UNCHANGED <<storeVars, edge, history, coverage, gateVars, flightVars, asked>>

Cancel(j) ==
  /\ Running(j)
  /\ ~job[j].cancelled
  /\ job' = [job EXCEPT ![j].cancelled = TRUE]
  /\ UNCHANGED <<storeVars, edge, history, coverage, gateVars, flightVars, asked>>

\* The process dies and starts again: only the disk survives.
Crash ==
  /\ "crash" \in Faults
  /\ Store!Crash
  /\ coverage' = NoCoverage
  /\ job' = [j \in Jobs |-> NoJob]
  /\ free' = capacity
  /\ queue' = <<>>
  /\ flight' = [r \in Ranges |-> NoCell]
  /\ cell' = [i \in Jobs |-> EmptyCell]
  /\ UNCHANGED <<edge, history, capacity, asked>>

\* POST /api/storage/delete: the store's files go, the loader is not told.
DeleteSeries ==
  /\ "delete" \in Faults
  /\ Store!DeleteSeries
  /\ edge' = NoEdge
  /\ UNCHANGED <<history, coverage, job, gateVars, flightVars, asked>>

\* Every step the task of job j takes by itself.
Advance(j) ==
  \/ LookUp(j) \/ List(j) \/ ListFails(j) \/ Remember(j)
  \/ NextChunk(j) \/ Stop(j) \/ Complete(j)
  \/ JoinCell(j) \/ StartFetch(j) \/ FetchOk(j) \/ FetchFails(j) \/ ShareResult(j)
  \/ LeaveCell(j) \/ Retry(j)
  \/ SkipWrite(j) \/ StartWrite(j) \/ Write(j) \/ EndWrite(j)
  \/ ReadEdge(j) \/ MoveEdge(j) \/ EdgeFails(j) \/ CommitChunk(j)

Next ==
  \/ \E j \in Jobs, request \in Requests : Ensure(j, request)
  \/ \E j \in Jobs : Advance(j) \/ Cancel(j)
  \/ Crash
  \/ DeleteSeries

Fairness == \A j \in Jobs : WF_vars(Advance(j))

Spec == Init /\ [][Next]_vars /\ Fairness

-----------------------------------------------------------------------------
(***************************************************************************)
(* A job that completed has left everything the venue has in the range it  *)
(* was asked for in the store, whatever other jobs did meanwhile and       *)
(* however old the coverage it planned from was.  Deleting the series is   *)
(* the one thing that takes the promise away (JobOutcome::Completed).      *)
(***************************************************************************)
CompletedJobIsStored ==
  \A j \in Jobs :
    job[j].outcome = "completed" /\ ~deleted
      => job[j].range \cap history \subseteq Store!Covered

(***************************************************************************)
(* Until the series is deleted, neither the coverage cache nor a listing a *)
(* job is about to put in it claims a slot the store does not hold, though *)
(* files are being replaced and unlinked all the while (CoverageCache).    *)
(***************************************************************************)
CacheNeverOverclaims ==
  ~deleted =>
    /\ coverage # NoCoverage => UNION coverage \subseteq Store!Covered
    /\ \A j \in Jobs : UNION job[j].listing \subseteq Store!Covered

(***************************************************************************)
(* The gate's slots are neither lost nor made: those free and those held   *)
(* add up to its capacity on every path a chunk can take, the waiters are  *)
(* the jobs that think they wait, and nobody waits while a slot is free    *)
(* (PriorityGate).                                                         *)
(***************************************************************************)
GateAgrees ==
  /\ free + Cardinality({j \in Jobs : job[j].pc \in Holding}) = capacity
  /\ ToSet(queue) = {j \in Jobs : job[j].pc = "queued"}
  /\ IsInjective(queue)
  /\ queue # <<>> => free = 0

(***************************************************************************)
(* The single-flight map holds a chunk only while a job is on the cell it  *)
(* maps the chunk to, all jobs on one cell want the same chunk, and a cell *)
(* is being filled exactly when one job on it runs the fetch: no joiner    *)
(* can be handed another chunk's bars or wait for a fetch nobody runs      *)
(* (ChunkSingleFlight).                                                    *)
(***************************************************************************)
FlightAgrees ==
  /\ \A c \in Ranges : flight[c] # NoCell =>
       \E j \in Jobs : job[j].cell = flight[c] /\ Chunk(j) = c
  /\ \A j, k \in Jobs :
       job[j].cell = job[k].cell /\ job[j].cell # NoCell => Chunk(j) = Chunk(k)
  /\ \A i \in Jobs :
       Cardinality({j \in Jobs : job[j].pc = "fetching" /\ job[j].cell = i})
         = IF cell[i].runner THEN 1 ELSE 0

(***************************************************************************)
(* Every job ends: with the venue answering each call one way or the other *)
(* and finitely many jobs asked for, no retry, joined fetch, gate slot or  *)
(* conflict keeps one running for ever.                                    *)
(***************************************************************************)
EveryJobEnds == \A j \in Jobs : Running(j) ~> ~Running(j)

=============================================================================
