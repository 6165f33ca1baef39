-------------------------------- MODULE BarHops ---------------------------------
(***************************************************************************)
(* Three aggregators on one stream: one that folds it directly, and two    *)
(* in a row that go through a spec in between, as when a coarser series is *)
(* folded from a stored one that was itself folded.                        *)
(***************************************************************************)
EXTENDS BarFold, SequencesExt

\* Aggregator::new refuses a pair of specs the first of which does not divide the second.
ASSUME HopAssumption ==
  \A f \in Feeds :
    /\ f.middle \in Specs /\ f.middle.unit # "month"
    /\ Divides(f.source, f.middle) /\ Divides(f.middle, f.target)

VARIABLES first,   \* the open bucket of the first hop
          second,  \* the open bucket of the second hop
          hopped   \* the bars the second hop has given out

hopVars == <<vars, first, second, hopped>>

FirstHop == [source |-> feed.source, target |-> feed.middle, anchor |-> feed.anchor]
SecondHop == [source |-> feed.middle, target |-> feed.target, anchor |-> feed.anchor]

HopPush(bar) ==
  /\ Push(bar)
  /\ first' = Pushed(FirstHop, first, bar)
  /\ LET passed == Emitted(FirstHop, first, bar)
     IN  IF passed = <<>>
         THEN UNCHANGED <<second, hopped>>
         ELSE /\ second' = Pushed(SecondHop, second, passed[1])
              /\ hopped' = hopped \o Emitted(SecondHop, second, passed[1])

HopFinish ==
  /\ Finish
  /\ first' = None /\ second' = None
  /\ LET passed == Closed(first)
     IN  hopped' = IF passed = <<>> THEN hopped \o Closed(second)
                   ELSE hopped \o Emitted(SecondHop, second, passed[1])
                               \o Closed(Pushed(SecondHop, second, passed[1]))

HopInit == Init /\ first = None /\ second = None /\ hopped = <<>>

HopNext == (\E bar \in Bars(feed) : HopPush(bar)) \/ HopFinish

HopSpec == HopInit /\ [][HopNext]_hopVars

-----------------------------------------------------------------------------
(* Properties. *)

\* No bucket in between lies in two of the target's, as one of a week may in fourteen days.
Nested(f) ==
  \A t \in f.times :
    LET inner == Bounds(t, f.middle, f.anchor)
        outer == Bounds(t, f.target, f.anchor)
    IN  outer.start <= inner.start /\ inner.end <= outer.end

(***************************************************************************)
(* Two hops give what one gives, and never ahead of it, when the buckets   *)
(* in between are nested in the target's: which buckets are complete does  *)
(* not depend on the way they were folded, for any gap, repetition or late *)
(* bar, though the hops are poisoned by different ones.  The unit test of  *)
(* this name has fifteen bars in order.                                    *)
(***************************************************************************)
TwoHopsAgree == Nested(feed) => IsPrefix(hopped, out) /\ (finished => hopped = out)

-----------------------------------------------------------------------------
(* The calendar, counted day by day. *)

IsLeap(year) == year % 4 = 0 /\ (year % 100 # 0 \/ year % 400 = 0)

DaysIn(c) ==
  CASE c.month \in {4, 6, 9, 11} -> 30
    [] c.month = 2 -> IF IsLeap(c.year) THEN 29 ELSE 28
    [] OTHER -> 31

DayAfter(c) ==
  IF c.day < DaysIn(c) THEN [c EXCEPT !.day = @ + 1]
  ELSE IF c.month < 12 THEN [c EXCEPT !.month = @ + 1, !.day = 1]
  ELSE [year |-> c.year + 1, month |-> 1, day |-> 1]

(***************************************************************************)
(* The dates the code computes for the day of a bar are those of the       *)
(* calendar, before the epoch too and in leap years: each follows the one  *)
(* before, both directions agree, a bucket holds its day, ends where the   *)
(* next begins, and begins on a Monday or the first of a month.            *)
(***************************************************************************)
CalendarAgrees ==
  last # None =>
    LET day == DayOf(last.ts, feed.anchor)
        date == CivilFromDays(day)
        b == BucketDays(day, feed.target)
    IN  /\ CivilFromDays(day + 1) = DayAfter(date)
        /\ DaysFromCivil(date.year, date.month, date.day) = day
        /\ CivilFromDays(0) = [year |-> 1970, month |-> 1, day |-> 1]
        /\ feed.target.unit # "intraday" =>
             /\ b.start <= day /\ day < b.end
             /\ BucketDays(b.end, feed.target).start = b.end
             /\ feed.target.unit = "week" => (b.start - 4) % 7 = 0
             /\ feed.target.unit = "month" => CivilFromDays(b.start).day = 1
=============================================================================
