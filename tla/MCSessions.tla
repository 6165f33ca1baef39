------------------------------ MODULE MCSessions ------------------------------
(* Two connections; they share an indicator, one watches a book, the other a price. *)
EXTENDS LiveSessions, TLC

CONSTANTS c1, c2, price, book, indicator, t1, t2, s1, s2, r1

MCWants == (c1 :> {book, indicator}) @@ (c2 :> {indicator, price})
MCOneWant == c1 :> {indicator}
=============================================================================
