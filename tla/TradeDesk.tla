-------------------------------- MODULE TradeDesk --------------------------------
(***************************************************************************)
(* One paper-trading account: the HTTP handlers of api/trade_handlers.rs,  *)
(* the checks of senken_trade::TradeEngine, and the books of the simulator *)
(* plugin, which is the one adapter this repository ships.                 *)
(*                                                                         *)
(* A request is a short program of steps.  The books sit behind a mutex    *)
(* that no step keeps across an await: between `collect` and `settle` the  *)
(* marks are fetched, between two steps any other request may run, and the *)
(* snapshot a step took under the mutex is written after it is released.   *)
(*                                                                         *)
(* What a mark is at the moment it is read is left open, so no market is   *)
(* modelled.  Amounts are small integers; the scales of senken_core and    *)
(* the i64 limits are left out.                                            *)
(***************************************************************************)
EXTENDS Integers, SequencesExt

CONSTANTS Workers,       \* requests served at once
          Instruments,
          Menu,          \* order requests a client sends
          Amendments,    \* what it amends: qty and level, Keep for a field left out
          Prices,        \* what a mark may be
          Step,          \* the instruments' step_size and tick_size
          Leverage, Slippage, FeeRate,   \* Terms; rates per unit instead of basis points
          InitialCash, Deposit,
          HistoryLimit,  \* HISTORY_LIMIT
          MaxOrders, MaxEvents,   \* bounds
          NoBook, Flat, NoMark, Keep

Long == 1
Short == -1
Sides == {Long, Short}
Kinds == {"market", "limit", "stop"}

\* OrderRequest; reduce stands for reduce_only.
Requests == [instrument : Instruments, side : Sides, kind : Kinds,
             level : Int, qty : Int, reduce : BOOLEAN]

\* BookPosition; the size is below zero when an order amended below zero has filled.
Positions == [side : Sides, qty : Int, entry : Int]

ASSUME TradeAssumption ==
  /\ IsFiniteSet(Instruments)
  /\ Menu \subseteq Requests
  /\ Amendments \subseteq [qty : Int \cup {Keep}, level : Int \cup {Keep}]
  /\ Prices \subseteq Nat \ {0}
  /\ Step \in Nat \ {0} /\ Leverage \in Nat \ {0}
  /\ Slippage \in Nat /\ FeeRate \in Nat
  /\ InitialCash \in Nat /\ Deposit \in Nat
  /\ HistoryLimit \in Nat /\ MaxOrders \in Nat
  /\ Flat \notin Positions

VARIABLES
  account,  \* the row of trade_accounts: "none", "enabled" or "disabled"
  trading,  \* the `access` setting on it
  book,     \* the account's entry of SimulatorAdapter::books, or NoBook
  disk,     \* trade/simulator/books.json
  todo,     \* todo[w]: the steps request w has left
  arg,      \* arg[w]: what it was asked
  pending,  \* pending[w]: what `settle` collected, in order
  write,    \* write[w]: the snapshot it is about to persist, as a set of at most one
  nextId, events

vars == <<account, trading, book, disk, todo, arg, pending, write,
          nextId, events>>
requests == <<todo, arg, pending, write>>

-----------------------------------------------------------------------------
(***************************************************************************)
(* Book, BookOrder and BookPosition.  `fills` is the whole log since the   *)
(* last reset: nothing but the fills endpoint reads the tail that is kept. *)
(* History: `net` and `flow` are what the fills add up to in size and in   *)
(* money, `paid` what was deposited, `dust` what averaging cut off, and    *)
(* `wiped` whether there was once nothing left to average over.            *)
(***************************************************************************)

EmptyBook == [cash |-> InitialCash, orders |-> <<>>, fills |-> <<>>,
              position |-> [i \in Instruments |-> Flat],
              net |-> [i \in Instruments |-> 0], flow |-> 0, paid |-> 0, dust |-> 0,
              wiped |-> FALSE]

\* Book::reset drops everything but the starting balance.
Reset(b) == EmptyBook

\* Book::deposit
Deposited(b) == [b EXCEPT !.cash = @ + Deposit, !.paid = @ + Deposit]

Smaller(a, b) == IF a < b THEN a ELSE b
Larger(a, b) == IF a > b THEN a ELSE b
Magnitude(a) == IF a < 0 THEN - a ELSE a

\* round_to_increment: down onto a whole multiple, below zero too.
RoundDown(value) == value - (value % Step)

\* money::slip: a taker pays worse than the mark, and never less than one tick.
Slipped(mark, side) == Larger(mark + side * Slippage, 1)

\* Division of integers in Rust goes towards zero, and the rest has the dividend's sign.
Quotient(a, b) ==
  LET q == Magnitude(a) \div Magnitude(b) IN IF (a < 0) = (b < 0) THEN q ELSE - q
Rest(a, b) ==
  LET r == Magnitude(a) % Magnitude(b) IN IF a < 0 THEN - r ELSE r

\* money::weighted_average
WeightedAverage(entry, held, price, qty) ==
  IF held + qty = 0 THEN entry ELSE Quotient(entry * held + price * qty, held + qty)

\* apply_to_position: open, add to, or close what overlaps and open the rest the other way.
PositionAfter(p, side, qty, price) ==
  CASE p = Flat      -> [side |-> side, qty |-> qty, entry |-> price]
    [] p # Flat /\ p.side = side ->
         [p EXCEPT !.qty = @ + qty, !.entry = WeightedAverage(@, p.qty, price, qty)]
    [] p # Flat /\ p.side # side ->
         LET closed == Smaller(qty, p.qty)
         IN  CASE qty > closed   -> [side |-> side, qty |-> qty - closed, entry |-> price]
               [] qty = closed /\ p.qty = closed -> Flat
               [] OTHER -> [p EXCEPT !.qty = @ - closed]

\* Mutant: the sign of the position is forgotten.
RealizedAsLong(p, side, qty, price) ==
  IF p = Flat \/ p.side = side THEN 0 ELSE (price - p.entry) * Smaller(qty, p.qty)

\* close_pnl on what an opposing fill closes.
Realized(p, side, qty, price) ==
  IF p = Flat \/ p.side = side THEN 0
  ELSE (price - p.entry) * Smaller(qty, p.qty) * p.side

\* What weighted_average drops when the fill adds to a position.
Remainder(p, side, qty, price) ==
  IF p = Flat \/ p.side # side \/ p.qty + qty = 0 THEN 0
  ELSE side * Rest(p.entry * p.qty + price * qty, p.qty + qty)

\* A size below zero is added and none is left: what the position cost is not averaged.
Wipes(p, side, qty) == p # Flat /\ p.side = side /\ p.qty # 0 /\ p.qty + qty = 0

(***************************************************************************)
(* `execute`: position, cash and fill log.  markOf is history: whose mark  *)
(* decided the fill.                                                       *)
(***************************************************************************)
Executed(b, o, price, of) ==
  LET p == b.position[o.instrument]
      fee == FeeRate * Magnitude(price * o.qty)
  IN  [b EXCEPT
        !.cash = @ + Realized(p, o.side, o.qty, price) - fee,
        !.position[o.instrument] = PositionAfter(p, o.side, o.qty, price),
        !.fills = Append(@, [order |-> o.id, instrument |-> o.instrument, markOf |-> of]),
        !.net[o.instrument] = @ + o.side * o.qty,
        !.flow = @ - o.side * o.qty * price - fee,
        !.dust = @ + Remainder(p, o.side, o.qty, price),
        !.wiped = @ \/ Wipes(p, o.side, o.qty)]

IsOpen(o) == o.status = "open"

\* Where the order with this id stands; 0 when the books have none.
IndexOf(id) ==
  IF \E k \in DOMAIN book.orders : book.orders[k].id = id
  THEN CHOOSE k \in DOMAIN book.orders : book.orders[k].id = id ELSE 0

StillOpen(id) == book # NoBook /\ IndexOf(id) # 0 /\ IsOpen(book.orders[IndexOf(id)])

\* Mutant: the oldest orders go, open or not.
TrimOldest(b) ==
  LET excess == Len(b.orders) - HistoryLimit
  IN  IF excess <= 0 THEN b
      ELSE [b EXCEPT !.orders = SubSeq(@, excess + 1, Len(@))]

\* The n-th of a set of numbers.
Nth(S, n) == CHOOSE k \in S : Cardinality({m \in S : m < k}) = n - 1

\* The newest finished orders and every open order.
Kept(b) ==
  LET finished == {k \in DOMAIN b.orders : ~ IsOpen(b.orders[k])}
  IN  {k \in DOMAIN b.orders :
         k \in finished => Cardinality({n \in finished : n > k}) < HistoryLimit}

\* trim_history
Trimmed(b) ==
  [b EXCEPT !.orders = [n \in 1 .. Cardinality(Kept(b)) |-> b.orders[Nth(Kept(b), n)]]]

\* is_triggered: a limit waits for a better mark, a stop for a worse one.
Triggered(o, mark) ==
  CASE o.kind = "limit" -> IF o.side = Long THEN mark <= o.level ELSE mark >= o.level
    [] o.kind = "stop"  -> IF o.side = Long THEN mark >= o.level ELSE mark <= o.level
    [] OTHER            -> FALSE

\* A limit fills at its own price, a stop takes the mark.
RestingPrice(o, mark) == IF o.kind = "limit" THEN o.level ELSE mark

-----------------------------------------------------------------------------
(* The steps a request is made of. *)

Idle(w) == todo[w] = <<>> /\ write[w] = {}

\* The step w is at; a snapshot taken by the one before is written first.
At(w, step) == write[w] = {} /\ todo[w] # <<>> /\ Head(todo[w]) = step

Nothing == [op |-> "none"]

\* On to the next step; a request whose last step this was has been answered.
Onward(w) ==
  /\ todo' = [todo EXCEPT ![w] = Tail(@)]
  /\ arg' = [arg EXCEPT ![w] = IF Len(todo[w]) = 1 THEN Nothing ELSE @]

\* The request ends early.
End(w) ==
  /\ todo' = [todo EXCEPT ![w] = <<>>]
  /\ arg' = [arg EXCEPT ![w] = Nothing]

\* The request answers an error, which ends it.
Refuse(w) == End(w) /\ UNCHANGED <<book, write>>

\* The books change under the mutex; their snapshot is taken before it is released.
Save(w, b) ==
  /\ book' = b
  /\ write' = [write EXCEPT ![w] = {b}]
  /\ Onward(w)

Ask(w, what, program) ==
  /\ Idle(w)
  /\ arg' = [arg EXCEPT ![w] = what]
  /\ todo' = [todo EXCEPT ![w] = program]
  /\ UNCHANGED <<book, disk, pending, write, nextId>>

Attached == account \in {"enabled", "disabled"}

Event ==
  /\ events < MaxEvents
  /\ events' = events + 1

\* create_account inserts the row and reads it back.
AskAttach(w) ==
  /\ account = "none" /\ Event
  /\ Ask(w, [op |-> "attach"], <<"open">>)
  /\ account' = "enabled"
  /\ UNCHANGED trading

\* replace_settings; `settings_for` finds the row, the UPDATE is a statement of its own.
AskSettings(w) ==
  /\ Attached /\ Event
  /\ Ask(w, [op |-> "settings"], <<"configure", "open">>)
  /\ UNCHANGED <<account, trading>>

\* delete_account by the owner, or by an operator, for whom resolve_for_read finds nothing.
AskDetach(w) ==
  /\ Attached /\ Event
  /\ \E program \in {<<"release", "drop">>, <<"drop">>} :
       Ask(w, [op |-> "detach"], program)
  /\ UNCHANGED <<account, trading>>

\* update_account is one statement.
ToggleEnabled ==
  /\ Attached /\ Event
  /\ account' = IF account = "enabled" THEN "disabled" ELSE "enabled"
  /\ UNCHANGED <<trading, book, disk, requests, nextId>>

\* Balances, positions, orders and fills all settle the account first.
AskRead(w) ==
  /\ Attached
  /\ Ask(w, [op |-> "read"], <<"collect">>)
  /\ UNCHANGED <<account, trading, events>>

\* account_for_trading and require_trading_access, on one reading of the row.
MayTrade == account = "enabled" /\ trading

\* prepare_order: rounded, and refused when nothing is left.
AskPlace(w) ==
  /\ MayTrade
  /\ \E o \in Menu :
       /\ RoundDown(o.qty) > 0
       /\ Ask(w, [op |-> "place", order |-> [o EXCEPT !.qty = RoundDown(@),
                                                      !.level = RoundDown(@)]],
              <<"collect", "commit">>)
  /\ UNCHANGED <<account, trading, events>>

\* TradeEngine::close_position: read the positions, then place the opposite market order.
AskClose(w) ==
  /\ MayTrade
  /\ \E i \in Instruments :
       Ask(w, [op |-> "close", instrument |-> i], <<"collect", "measure", "collect", "commit">>)
  /\ UNCHANGED <<account, trading, events>>

\* A client names an order it has seen open; another id is refused and changes nothing.
OpenIds == {n \in 1..(nextId - 1) : StillOpen(n)}

AskCancel(w) ==
  /\ MayTrade
  /\ \E n \in OpenIds : Ask(w, [op |-> "cancel", id |-> n], <<"collect", "commit">>)
  /\ UNCHANGED <<account, trading, events>>

\* TradeEngine::modify_order reads the open orders; the adapter settles before and after.
AskAmend(w) ==
  /\ MayTrade
  /\ \E n \in OpenIds, a \in Amendments :
       Ask(w, [op |-> "amend", id |-> n, qty |-> a.qty, level |-> a.level],
           <<"collect", "find", "collect", "commit", "collect">>)
  /\ UNCHANGED <<account, trading, events>>

\* run_action: deposit or reset.
AskAction(w) ==
  /\ MayTrade
  /\ Event
  /\ \E op \in {"deposit", "reset"} : Ask(w, [op |-> op], <<"commit">>)
  /\ UNCHANGED <<account, trading>>

-----------------------------------------------------------------------------
(* settle. *)

OpenAt == {k \in DOMAIN book.orders : IsOpen(book.orders[k])}

\* The positions of the open orders in the vector, in order.
PendingNow ==
  [n \in 1 .. Cardinality(OpenAt) |->
     [at |-> Nth(OpenAt, n), instrument |-> book.orders[Nth(OpenAt, n)].instrument]]

Collect(w) ==
  /\ At(w, "collect")
  /\ IF book = NoBook \/ OpenAt = {}
     THEN Onward(w) /\ UNCHANGED pending
     ELSE /\ pending' = [pending EXCEPT ![w] = PendingNow]
          /\ todo' = [todo EXCEPT ![w] = <<"settle">> \o Tail(@)]
          /\ UNCHANGED arg
  /\ UNCHANGED <<account, trading, book, disk, write, nextId, events>>

\* Mutant: whether the order is still open is not looked at again.
FillableUnread(b, p, mark) ==
  /\ mark # NoMark
  /\ p.at \in DOMAIN b.orders
  /\ Triggered(b.orders[p.at], mark)

\* Whatever now stands at the index is re-read; that it is the order collected is not checked.
Fillable(b, p, mark) ==
  /\ mark # NoMark
  /\ p.at \in DOMAIN b.orders
  /\ IsOpen(b.orders[p.at])
  /\ Triggered(b.orders[p.at], mark)

FilledAt(b, p, mark) ==
  LET o == b.orders[p.at]
  IN  IF Fillable(b, p, mark)
      THEN [Executed(b, o, RestingPrice(o, mark), p.instrument) EXCEPT !.orders[p.at].status = "filled"]
      ELSE b

\* One collected order after the other.
Settled(b, collected, marks) ==
  LET OneMore(c, p) == FilledAt(c, p, marks[p.instrument])
  IN  FoldLeft(OneMore, b, collected)

(***************************************************************************)
(* The marks have come, whatever they are, one per instrument.  The whole  *)
(* loop runs under the mutex, over the indexes collected before the wait;  *)
(* when something filled, the history is trimmed and the books are saved.  *)
(***************************************************************************)
Settle(w) ==
  /\ At(w, "settle")
  /\ IF book = NoBook THEN Onward(w) /\ UNCHANGED <<book, write>>
     ELSE \E marks \in [Instruments -> Prices \cup {NoMark}] :
            LET after == Settled(book, pending[w], marks)
            IN  IF after = book THEN Onward(w) /\ UNCHANGED <<book, write>>
                ELSE Save(w, Trimmed(after))
  /\ pending' = [pending EXCEPT ![w] = <<>>]
  /\ UNCHANGED <<account, trading, disk, nextId, events>>

-----------------------------------------------------------------------------
(* The other steps. *)

\* close_position sizes the order by what the adapter reports now, and prepares it.
Measure(w) ==
  /\ At(w, "measure")
  /\ LET p == book.position[arg[w].instrument]
     IN  IF book = NoBook \/ p = Flat \/ RoundDown(p.qty) <= 0
         THEN Refuse(w)
         ELSE /\ arg' = [arg EXCEPT ![w] =
                   [op |-> "place", order |->
                      [instrument |-> @.instrument, side |-> - p.side, kind |-> "market",
                       level |-> 0, qty |-> RoundDown(p.qty), reduce |-> TRUE]]]
              /\ todo' = [todo EXCEPT ![w] = Tail(@)]
              /\ UNCHANGED <<book, write>>
  /\ UNCHANGED <<account, trading, disk, pending, nextId, events>>

\* The order as stored; its id is fresh.
Stored(o) == [id |-> nextId, instrument |-> o.instrument, side |-> o.side, kind |-> o.kind,
              level |-> o.level, qty |-> o.qty, status |-> "open"]

Covered(price, qty) == (price * qty) \div Leverage <= Larger(book.cash, 0)

\* Mutant: reduce_only is taken at its word.
ReducesByItself(asked) == TRUE

\* A reduce-only order is no larger than the position on the other side, if there is one.
Reduces(asked) ==
  LET p == book.position[asked.instrument]
      held == IF p = Flat \/ p.side = asked.side THEN 0 ELSE p.qty
  IN  asked.reduce => asked.qty <= held

\* place_order under the mutex; a market order has its price by now.
CommitPlace(w) ==
  /\ At(w, "commit") /\ arg[w].op = "place"
  /\ nextId <= MaxOrders
  /\ LET o == Stored(arg[w].order)
     IN  IF book = NoBook \/ ~ Reduces(arg[w].order) THEN Refuse(w)
         ELSE \/ /\ o.kind # "market"
                 /\ Save(w, Trimmed([book EXCEPT !.orders = Append(@, o)]))
              \/ /\ o.kind = "market"
                 /\ \E mark \in Prices :
                      LET price == Slipped(mark, o.side)
                      IN  IF Covered(price, o.qty)
                          THEN Save(w, Trimmed([Executed(book, o, price, o.instrument) EXCEPT
                                          !.orders = Append(@, [o EXCEPT !.status = "filled"])]))
                          ELSE Refuse(w)
  /\ nextId' = nextId + 1
  /\ UNCHANGED <<account, trading, disk, pending, events>>

\* Mutant: a finished order can be cancelled.
CancelAnything(w) ==
  /\ At(w, "commit") /\ arg[w].op = "cancel"
  /\ IF book # NoBook /\ IndexOf(arg[w].id) # 0
     THEN Save(w, [book EXCEPT !.orders[IndexOf(arg[w].id)].status = "cancelled"])
     ELSE Refuse(w)
  /\ UNCHANGED <<account, trading, disk, pending, nextId, events>>

CommitCancel(w) ==
  /\ At(w, "commit") /\ arg[w].op = "cancel"
  /\ IF StillOpen(arg[w].id)
     THEN Save(w, [book EXCEPT !.orders[IndexOf(arg[w].id)].status = "cancelled"])
     ELSE Refuse(w)
  /\ UNCHANGED <<account, trading, disk, pending, nextId, events>>

\* modify_order: the order must be among the open ones.
Find(w) ==
  /\ At(w, "find")
  /\ IF StillOpen(arg[w].id) THEN Onward(w) /\ UNCHANGED <<book, write>> ELSE Refuse(w)
  /\ UNCHANGED <<account, trading, disk, pending, nextId, events>>

\* Mutant: a field the amendment leaves out is overwritten all the same.
AmendedWhole(o, a) == [o EXCEPT !.qty = a.qty, !.level = a.level]

\* What is amended is rounded, and whether it is above zero is not looked at.
Amended(o, a) == [o EXCEPT !.qty = IF a.qty = Keep THEN @ ELSE RoundDown(a.qty),
                           !.level = IF a.level = Keep THEN @ ELSE RoundDown(a.level)]

CommitAmend(w) ==
  /\ At(w, "commit") /\ arg[w].op = "amend"
  /\ IF StillOpen(arg[w].id)
     THEN Save(w, [book EXCEPT !.orders[IndexOf(arg[w].id)] = Amended(@, arg[w])])
     ELSE Refuse(w)
  /\ UNCHANGED <<account, trading, disk, pending, nextId, events>>

CommitAction(w) ==
  /\ At(w, "commit") /\ arg[w].op \in {"deposit", "reset"}
  /\ IF book = NoBook THEN Refuse(w)
     ELSE Save(w, IF arg[w].op = "reset" THEN Reset(book) ELSE Deposited(book))
  /\ UNCHANGED <<account, trading, disk, pending, nextId, events>>

\* open_account is idempotent: books that exist are kept.
OpenBooks(w) ==
  /\ At(w, "open")
  /\ Save(w, IF book = NoBook THEN EmptyBook ELSE book)
  /\ UNCHANGED <<account, trading, disk, pending, nextId, events>>

\* close_account
ReleaseBooks(w) ==
  /\ At(w, "release")
  /\ Save(w, NoBook)
  /\ UNCHANGED <<account, trading, disk, pending, nextId, events>>

\* The statements on the row; an UPDATE of a row that is gone changes nothing.
WriteRow(w) ==
  /\ \/ At(w, "configure") /\ trading' = ~ trading /\ UNCHANGED account
     \/ At(w, "drop") /\ account' = "gone" /\ UNCHANGED trading
  /\ Onward(w)
  /\ UNCHANGED <<book, disk, pending, write, nextId, events>>

\* persist, outside the mutex; a failure is logged and otherwise ignored.
Persist(w) ==
  /\ write[w] # {}
  /\ \/ disk' \in write[w] /\ UNCHANGED events
     \/ Event /\ UNCHANGED disk
  /\ write' = [write EXCEPT ![w] = {}]
  /\ UNCHANGED <<account, trading, book, todo, arg, pending, nextId>>

\* A lookup fails or the client goes away while the request awaits one.
Abandon(w) ==
  /\ write[w] = {}
  /\ \/ At(w, "settle")
     \/ At(w, "commit") /\ arg[w].op = "place" /\ arg[w].order.kind = "market"
  /\ End(w)
  /\ pending' = [pending EXCEPT ![w] = <<>>]
  /\ UNCHANGED <<account, trading, book, disk, write, nextId, events>>

\* The process dies; the accounts are in SQLite, the books are what the file says.
Crash ==
  /\ Event
  /\ book' = disk
  /\ todo' = [w \in Workers |-> <<>>]
  /\ arg' = [w \in Workers |-> Nothing]
  /\ pending' = [w \in Workers |-> <<>>]
  /\ write' = [w \in Workers |-> {}]
  /\ UNCHANGED <<account, trading, disk, nextId>>

Init ==
  /\ account = "none" /\ trading = TRUE
  /\ book = NoBook /\ disk = NoBook
  /\ todo = [w \in Workers |-> <<>>]
  /\ arg = [w \in Workers |-> Nothing]
  /\ pending = [w \in Workers |-> <<>>]
  /\ write = [w \in Workers |-> {}]
  /\ nextId = 1 /\ events = 0

Asks(w) == \/ AskAttach(w) \/ AskSettings(w) \/ AskDetach(w) \/ AskRead(w) \/ AskPlace(w)
           \/ AskClose(w) \/ AskCancel(w) \/ AskAmend(w) \/ AskAction(w)

Steps(w) == \/ Collect(w) \/ Settle(w) \/ Measure(w)
            \/ CommitPlace(w) \/ Find(w) \/ CommitCancel(w) \/ CommitAmend(w) \/ CommitAction(w)
            \/ OpenBooks(w) \/ ReleaseBooks(w) \/ WriteRow(w) \/ Persist(w) \/ Abandon(w)

Next == ToggleEnabled \/ Crash \/ \E w \in Workers : Asks(w) \/ Steps(w)

Spec == Init /\ [][Next]_vars

-----------------------------------------------------------------------------
(* Properties. *)

Statuses == {"open", "filled", "cancelled"}

BookOrders == [id : 1 .. MaxOrders, instrument : Instruments, side : Sides, kind : Kinds,
               level : Int, qty : Int, status : Statuses]
BookFills == [order : 1 .. MaxOrders, instrument : Instruments, markOf : Instruments]
Books == [cash : Int, orders : Seq(BookOrders), fills : Seq(BookFills),
          position : [Instruments -> Positions \cup {Flat}],
          net : [Instruments -> Int], flow : Int, paid : Nat, dust : Int, wiped : BOOLEAN]

\* What prepare_order has let through, whatever the client sent.
Prepared == {o \in Requests : o.qty > 0}

\* The steps requests are made of, and what one may have been asked.
StepNames == {"collect", "settle", "measure", "find", "commit", "open", "configure", "release", "drop"}
Asked ==
  [op : {"none", "attach", "settings", "detach", "read", "deposit", "reset"}]
    \cup [op : {"place"}, order : Prepared]
    \cup [op : {"close"}, instrument : Instruments]
    \cup [op : {"cancel"}, id : Nat]
    \cup [op : {"amend"}, id : Nat, qty : Int \cup {Keep}, level : Int \cup {Keep}]

\* The types, for the books in memory, on disk and on their way there; an order that is
\* placed has a size above zero.
TypeOK ==
  /\ account \in {"none", "enabled", "disabled", "gone"} /\ trading \in BOOLEAN
  /\ {book, disk} \subseteq Books \cup {NoBook}
  /\ write \in [Workers -> SUBSET (Books \cup {NoBook})]
  /\ \A w \in Workers : Cardinality(write[w]) <= 1
  /\ todo \in [Workers -> Seq(StepNames)] /\ arg \in [Workers -> Asked]
  /\ pending \in [Workers -> Seq([at : Nat, instrument : Instruments])]
  /\ nextId \in Nat \ {0} /\ events \in Nat

(***************************************************************************)
(* No order fills twice, however many requests collected it before one of  *)
(* them settled it, and whatever a cancel or an amendment did in between.  *)
(***************************************************************************)
FilledOnce ==
  book # NoBook =>
    \A j, k \in DOMAIN book.fills :
      book.fills[j].order = book.fills[k].order => j = k

Signed(p) == IF p = Flat THEN 0 ELSE p.side * p.qty
Worth(p) == IF p = Flat THEN 0 ELSE p.side * p.qty * p.entry

\* A position is what the fills add up to.
SizesAddUp(b) == \A i \in Instruments : Signed(b.position[i]) = b.net[i]

\* The cash is what was started with and paid in, less what the fills cost, plus what the
\* positions were bought for.
MoneyAddsUp(b) ==
  b.cash = InitialCash + b.paid + b.flow + b.dust
             + FoldSet(LAMBDA i, sum : Worth(b.position[i]) + sum, 0, Instruments)

Balanced(b) == SizesAddUp(b) /\ (b.wiped \/ MoneyAddsUp(b))

(***************************************************************************)
(* The books balance, in memory and in every file a restart may read:      *)
(* opening, adding, reducing and flipping add the sizes up, those of       *)
(* orders amended below zero included, and no money appears or is lost;    *)
(* until a size below zero is added and leaves none to average over, where *)
(* the code books no profit: the sizes still agree, the money does not.    *)
(***************************************************************************)
BooksBalance == \A b \in {book, disk} : b # NoBook => Balanced(b)

(***************************************************************************)
(* OrderStatus::is_terminal says such an order can never change again:     *)
(* settles that collected it, cancels and amendments racing with its fill  *)
(* leave it as it was.  A restart may go back to an older file.            *)
(***************************************************************************)
TerminalOrdersStay ==
  [][~ Crash /\ book # NoBook /\ book' # NoBook =>
       \A k \in DOMAIN book.orders : ~ IsOpen(book.orders[k]) =>
         \A n \in DOMAIN book'.orders :
           book'.orders[n].id = book.orders[k].id => book'.orders[n] = book.orders[k]]_vars

(***************************************************************************)
(* trim_history never drops an open order: short of a reset, the release   *)
(* of the account or a restart, an open order stays in the books or is     *)
(* filled; a settle may fill it and drop it as history in one go.          *)
(***************************************************************************)
OpenOrdersAreKept ==
  [][~ Crash /\ book # NoBook /\ book' # NoBook /\ book' # EmptyBook =>
       \A k \in DOMAIN book.orders : IsOpen(book.orders[k]) =>
         \/ \E n \in DOMAIN book'.orders : book'.orders[n].id = book.orders[k].id
         \/ \E n \in DOMAIN book'.fills : book'.fills[n].order = book.orders[k].id]_vars

(***************************************************************************)
(* An order that closes a position never leaves more than it finds nor     *)
(* opens one on the other side, whatever filled since close_position read  *)
(* the position: another close, or an order collected by a settle.         *)
(***************************************************************************)
Between(a, b) == IF a <= b THEN a .. b ELSE b .. a

ClosingOnlyReduces ==
  [][\A w \in Workers :
       At(w, "commit") /\ arg[w].op = "place" /\ arg[w].order.reduce /\ write'[w] # {} =>
         \A i \in Instruments :
           Signed(book'.position[i]) \in Between(0, Signed(book.position[i]))]_vars

(***************************************************************************)
(* The code violates this: settle says an index stays valid because the    *)
(* vector has not been mutated, but a reset or a trim during the wait for  *)
(* the marks puts another order there, and it fills on the wrong mark.     *)
(***************************************************************************)
FillsUseTheirOwnMark ==
  book # NoBook => \A k \in DOMAIN book.fills : book.fills[k].instrument = book.fills[k].markOf
=============================================================================
