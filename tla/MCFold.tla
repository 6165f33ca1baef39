-------------------------------- MODULE MCFold ----------------------------------
EXTENDS BarHops

A(step, unit) == [step |-> step, unit |-> unit]

Stream(source, middle, target, anchor, times) ==
  [source |-> source, middle |-> middle, target |-> target, anchor |-> anchor,
   times |-> times, kinds |-> {"real"}, volumes |-> {1}, faults |-> 1]

\* The volume overflows in a bucket of four of the heavier bars.
Rougher(stream) ==
  [stream EXCEPT !.kinds = {"real", "absent"}, !.volumes = {1, 9}, !.faults = 2]

Days(a, b, anchor) == {d * Day + anchor : d \in a .. b}

\* Bars of two units into eight by way of four, and into days, with times off the grid;
\* days into weeks, and into months around the epoch and in a leap year.
MCFeeds ==
  {Rougher(Stream(A(2, "intraday"), A(4, "intraday"), A(8, "intraday"), 0, -8 .. 9)),
   Stream(A(2, "intraday"), A(2, "intraday"), A(1, "day"), 2, -6 .. 9),
   Stream(A(1, "day"), A(1, "week"), A(2, "week"), 1, Days(-12, 24, 1)),
   Stream(A(1, "day"), A(1, "day"), A(1, "month"), 0, Days(-5, 33, 0)),
   Stream(A(1, "day"), A(1, "day"), A(1, "month"), -1, Days(19752, 19785, -1))}
=============================================================================
