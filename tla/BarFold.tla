-------------------------------- MODULE BarFold ---------------------------------
(***************************************************************************)
(* Folding the bars of a series into those of a coarser one: the           *)
(* Aggregator of series/aggregate.rs, fed by a stream that may skip,       *)
(* repeat, reorder and misplace bars.                                      *)
(*                                                                         *)
(* What a bar was folded from stands for its prices: of is the sequence of *)
(* the times of the bars in it.  A bar of the stream is made of itself.    *)
(***************************************************************************)
EXTENDS BarCalendar, Sequences

CONSTANTS Feeds,      \* the streams: what is folded into what, over which times
          MaxVolume,  \* the width of a volume
          None        \* nothing yet

(***************************************************************************)
(* A feed names the two specs and their anchor, a spec in between          *)
(* (BarHops), the times, kinds of volume and volumes its bars may have,    *)
(* and how often the stream may depart from one regular bar after another. *)
(***************************************************************************)
ASSUME FeedAssumption ==
  /\ \A f \in Feeds :
       /\ f.source \in Specs /\ f.source.unit # "month"
       /\ f.target \in Specs /\ Divides(f.source, f.target)
       /\ f.anchor \in Int /\ f.times \subseteq Int /\ f.volumes \subseteq Nat
  /\ MaxVolume \in Nat

VARIABLES feed,      \* the stream that is folded
          open,      \* Aggregator::open: the bucket in progress, or None
          out,       \* the bars given out
          finished,  \* finish has been called
          last,      \* history: the last bar pushed, or None
          high,      \* history: the highest time pushed, or None
          since,     \* history: bars have come in order since this time, or None
          faults     \* how often the stream has departed from the regular

vars == <<feed, open, out, finished, last, high, since, faults>>

-----------------------------------------------------------------------------
(* The aggregator.  p names its specs and its anchor. *)

Aligned(p, t) == Bounds(t, p.source, p.anchor).start = t
SourceEnd(p, t) == Bounds(t, p.source, p.anchor).end
Bucket(p, t) == Bounds(t, p.target, p.anchor)

\* Mutant: a month has thirty days.
ExpectedOfThirty(p, b) ==
  (IF p.target.unit = "month" THEN 30 * Day * p.target.step ELSE b.end - b.start)
    \div Duration(p.source)

\* ExpectedCount: the bucket's own span for a month; every other bucket spans the same.
Expected(p, b) == (b.end - b.start) \div Duration(p.source)

Opened(p, bar) ==
  LET b == Bucket(p, bar.ts)
  IN  [start |-> b.start, expected |-> Expected(p, b), seen |-> 1,
       poisoned |-> ~ (Aligned(p, bar.ts) /\ bar.ts = b.start),
       next |-> SourceEnd(p, bar.ts), bar |-> [bar EXCEPT !.ts = b.start]]

\* Mutant: the number of bars is enough.
AbsorbedByCount(p, o, bar) ==
  [o EXCEPT !.seen = @ + 1, !.next = SourceEnd(p, bar.ts),
            !.poisoned = @ \/ bar.kind # o.bar.kind,
            !.bar.volume = @ + bar.volume, !.bar.of = @ \o bar.of]

\* A bar out of its place poisons the bucket for good, and so does another kind of volume.
Absorbed(p, o, bar) ==
  LET contiguous == Aligned(p, bar.ts) /\ bar.ts = o.next
      counted == [o EXCEPT !.seen = @ + 1, !.next = SourceEnd(p, bar.ts)]
  IN  IF o.poisoned \/ ~ contiguous \/ bar.kind # o.bar.kind
      THEN [counted EXCEPT !.poisoned = TRUE]
      ELSE [counted EXCEPT !.bar.volume = @ + bar.volume, !.bar.of = @ \o bar.of]

\* close_if_complete
Complete(o) == ~ o.poisoned /\ o.seen = o.expected /\ o.bar.volume <= MaxVolume

\* Mutant: a late bar is dropped, and that is all.
PushedIfNotLate(p, o, bar) ==
  IF o = None \/ Bucket(p, bar.ts).start > o.start THEN Opened(p, bar)
  ELSE IF Bucket(p, bar.ts).start = o.start THEN Absorbed(p, o, bar)
  ELSE o

\* push: a bar of an earlier bucket is dropped and poisons the one in progress.
Pushed(p, o, bar) ==
  IF o = None \/ Bucket(p, bar.ts).start > o.start THEN Opened(p, bar)
  ELSE IF Bucket(p, bar.ts).start = o.start THEN Absorbed(p, o, bar)
  ELSE [o EXCEPT !.poisoned = TRUE]

Closed(o) == IF o # None /\ Complete(o) THEN <<o.bar>> ELSE <<>>

Emitted(p, o, bar) ==
  IF o # None /\ Bucket(p, bar.ts).start > o.start THEN Closed(o) ELSE <<>>

\* Bars as they are folded, and buckets as they fill.
TypedBars(p) == [ts : Int, kind : p.kinds, volume : Int, of : Seq(Int)]

OpenBuckets(p) ==
  [start : Int, expected : Int, seen : Nat, poisoned : BOOLEAN, next : Int,
   bar : TypedBars(p)]

\* Option: nothing is neither a time, nor a bar, nor a bucket.
ASSUME NoneAssumption ==
  None \notin Int /\ \A f \in Feeds : None \notin TypedBars(f) \cup OpenBuckets(f)

-----------------------------------------------------------------------------
(* A stream through an aggregator: aggregate_bars. *)

\* Volume::Absent carries no number, and so adds nothing that could overflow.
Carries(kind, volume) == IF kind = "absent" THEN 0 ELSE volume

Bars(f) == {[ts |-> t, kind |-> k, volume |-> Carries(k, v), of |-> <<t>>] :
              t \in f.times, k \in f.kinds, v \in f.volumes}

\* The next bar of a stream without gaps, like the last.
Regular(bar) ==
  IF last = None THEN \A t \in feed.times : bar.ts <= t
  ELSE /\ bar.ts = last.ts + Duration(feed.source)
       /\ bar.kind = last.kind /\ bar.volume = last.volume

Push(bar) ==
  /\ ~ finished
  /\ Regular(bar) \/ faults < feed.faults
  /\ faults' = IF Regular(bar) THEN faults ELSE faults + 1
  /\ open' = Pushed(feed, open, bar)
  /\ out' = out \o Emitted(feed, open, bar)
  /\ last' = bar
  /\ high' = IF high = None \/ bar.ts > high THEN bar.ts ELSE high
  /\ since' = IF since # None /\ Regular(bar) THEN since
              ELSE IF high = None \/ bar.ts > high THEN bar.ts ELSE None
  /\ UNCHANGED <<feed, finished>>

Finish ==
  /\ ~ finished
  /\ finished' = TRUE /\ open' = None
  /\ out' = out \o Closed(open)
  /\ UNCHANGED <<feed, last, high, since, faults>>

Init ==
  /\ feed \in Feeds
  /\ open = None /\ out = <<>> /\ finished = FALSE
  /\ last = None /\ high = None /\ since = None /\ faults = 0

Next == (\E bar \in Bars(feed) : Push(bar)) \/ Finish

Spec == Init /\ [][Next]_vars

-----------------------------------------------------------------------------
(* Properties. *)

(***************************************************************************)
(* The rule the module calls non-negotiable: a bar that is given out is    *)
(* folded from every source bar of its bucket, each once and in order,     *)
(* whatever was lost, repeated or reordered in the stream; a gap and a     *)
(* repetition never cancel out.                                            *)
(***************************************************************************)
Whole(p, bar) ==
  LET b == Bucket(p, bar.ts)
  IN  /\ bar.ts = b.start
      /\ Len(bar.of) * Duration(p.source) = b.end - b.start
      /\ \A k \in 1 .. Len(bar.of) : bar.of[k] = b.start + (k - 1) * Duration(p.source)

OnlyWholeBuckets == \A n \in 1 .. Len(out) : Whole(feed, out[n])

(***************************************************************************)
(* A bucket all of whose bars came in order is given out, or is about to   *)
(* be, whatever happened to the stream before: poison does not outlive its *)
(* bucket, however long the bucket is.                                     *)
(***************************************************************************)
Held(start) ==
  \/ \E n \in 1 .. Len(out) : out[n].ts = start
  \/ open # None /\ open.start = start /\ Complete(open)

InOrderLosesNothing ==
  since # None /\ Aligned(feed, since) =>
    \A t \in feed.times :
      LET b == Bucket(feed, t)
      IN  /\ t = b.start /\ since <= t /\ b.end <= last.ts + Duration(feed.source)
          /\ Expected(feed, b) * last.volume <= MaxVolume
          /\ (t - since) % Duration(feed.source) = 0
          => Held(t)
=============================================================================
