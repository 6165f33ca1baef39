------------------------------- MODULE MCTrade -------------------------------
(* Two requests at a time on one account of two instruments. *)
EXTENDS TradeDesk, TLC

CONSTANTS i1, i2

(* A limit below zero, which is accepted, and a stop that one of the marks does not reach. *)
MCMenu ==
  {[instrument |-> i1, side |-> Short, kind |-> "limit", level |-> -1, qty |-> 2, reduce |-> FALSE],
   [instrument |-> i1, side |-> Long,  kind |-> "stop",  level |-> 2,  qty |-> 3, reduce |-> FALSE]}

(* What it takes to undo the stop, perhaps at another mark than the stop filled at. *)
MCAmendments == {[qty |-> -3, level |-> Keep]}

(* A limit and a stop on different instruments. *)
SettleMenu ==
  {[instrument |-> i1, side |-> Long,  kind |-> "limit", level |-> 1, qty |-> 2, reduce |-> FALSE],
   [instrument |-> i2, side |-> Short, kind |-> "stop",  level |-> 1, qty |-> 3, reduce |-> FALSE]}

SettleAmendments == {[qty |-> 1, level |-> 2]}

(* Once no restart can follow, what is on disk is never read again. *)
DiskMatters ==
  <<account, trading, book, todo, arg, pending, nextId, events,
    IF events < MaxEvents THEN <<disk, write>> ELSE <<NoBook, [w \in Workers |-> write[w] # {}]>>>>

RequestSymmetry == Permutations(Workers)
=============================================================================
