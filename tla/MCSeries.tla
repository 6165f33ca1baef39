------------------------------- MODULE MCSeries --------------------------------
EXTENDS SeriesLoader

Asks(kind, a, b) == [kind |-> kind, range |-> a .. b]

\* The one bar of a coarser series, and requests for the series itself that
\* lie inside it and across its end.
MCRequests == {Asks("derived", 0, 1), Asks("venue", 0, 0), Asks("venue", 1, 2)}

\* A request of two chunks, and one that looks its coverage up twice.
MCLiveRequests == {Asks("venue", 0, 2), Asks("derived", 0, 1)}

\* A venue without gaps, and one with nothing in the page of slots 1 and 2.
MCFullHistory == {Slots}
MCHistories == {Slots, Slots \ {1, 2}}
=============================================================================
