----------------------------- MODULE Portfolio -----------------------------
(***************************************************************************)
(* The positions of one portfolio (app/services/portfolio_service.py and   *)
(* app/api/portfolios.py) under concurrent requests.  Every statement      *)
(* filters on portfolio_id, so portfolios do not affect each other.        *)
(*                                                                         *)
(* A handler reads in one statement and writes in a later one, under READ  *)
(* COMMITTED and without locking what it read; the ORM's UPDATE sets only  *)
(* the columns whose value changed.  Quantities and prices are whole       *)
(* numbers and an average cost is an exact fraction.                       *)
(***************************************************************************)
EXTENDS Naturals, FiniteSets

CONSTANTS
    Handlers,   \* concurrent requests
    Symbols,    \* upper-cased symbols
    Quantities, \* quantities a request may buy (gt=0)
    Prices,     \* prices it may state (gt=0)
    MaxBuys     \* bound: buys begun

ASSUME PortfolioAssumption ==
    /\ Quantities \subseteq Nat \ {0}
    /\ Prices \subseteq Nat \ {0}
    /\ MaxBuys \in Nat

VARIABLES
    portfolio,  \* "absent", "present" or "deleted"
    rows,       \* the positions table: a set of Row
    buys,       \* buys begun; also the id of the row a buy may insert
    task,       \* [Handlers -> Task]: what each request is doing, and what it read
    booked,     \* [1..MaxBuys -> [qty, cost]]: acknowledged buys by row (history)
    overlapped  \* two requests were under way at the same time (history)

vars == <<portfolio, rows, buys, task, booked, overlapped>>

Avg == [num : Nat, den : Nat \ {0}]
Row == [id : 1..MaxBuys, symbol : Symbols, qty : Nat, avg : Avg, active : BOOLEAN]
Idle == [kind |-> "idle"]
Task == {Idle}
    \cup [kind : {"buy"}, id : 1..MaxBuys, symbol : Symbols, qty : Quantities,
          price : Prices, seen : SUBSET Row]
    \cup [kind : {"close"}, id : 1..MaxBuys]
    \cup [kind : {"delete"}]
    \cup [kind : {"purge"}, gone : SUBSET (1..MaxBuys)]

Init ==
    /\ portfolio = "absent"
    /\ rows = {}
    /\ buys = 0
    /\ task = [h \in Handlers |-> Idle]
    /\ booked = [id \in 1..MaxBuys |-> [qty |-> 0, cost |-> 0]]
    /\ overlapped = FALSE

Busy(h) == task[h] # Idle

Begin(h, t) ==
    /\ ~Busy(h)
    /\ task' = [task EXCEPT ![h] = t]
    /\ overlapped' = (overlapped \/ \E g \in Handlers : Busy(g))

End(h) == task' = [task EXCEPT ![h] = Idle] /\ UNCHANGED overlapped

\* Rows deleted by a transaction that has not committed yet are locked.
Locked == UNION {task[h].gone : h \in {g \in Handlers : task[g].kind = "purge"}}
-----------------------------------------------------------------------------
CreatePortfolio ==
    /\ portfolio = "absent"
    /\ portfolio' = "present"
    /\ UNCHANGED <<rows, buys, task, booked, overlapped>>

Open(s) == {p \in rows : p.symbol = s /\ p.active}

\* add_or_update_position reads the active position of the symbol, if any; with
\* two, scalar_one_or_none raises and the request is over.  The portfolio itself
\* is not looked at.
BuyReads(h, s, q, price) ==
    /\ buys < MaxBuys
    /\ Cardinality(Open(s)) <= 1
    /\ Begin(h, [kind |-> "buy", id |-> buys + 1, symbol |-> s, qty |-> q,
                 price |-> price, seen |-> Open(s)])
    /\ buys' = buys + 1
    /\ UNCHANGED <<portfolio, rows, booked>>

Equal(a, b) == a.num * b.den = b.num * a.den

\* Mutant: the new average forgets what the old shares cost together.
NewAvgOfTwo(p, t) ==
    [num |-> p.avg.num + t.price * p.avg.den, den |-> 2 * p.avg.den]

\* Mutant: the cost is divided by the old quantity.
NewAvgOverOld(p, t) ==
    [num |-> p.qty * p.avg.num + t.qty * t.price * p.avg.den, den |-> p.avg.den * p.qty]

\* The average cost after buying t.qty at t.price on top of position p.
NewAvg(p, t) ==
    [num |-> p.qty * p.avg.num + t.qty * t.price * p.avg.den,
     den |-> p.avg.den * (p.qty + t.qty)]

\* Mutant: the whole row is written back as it was read.
RaisedWhole(row, p, t) ==
    [p EXCEPT !.qty = p.qty + t.qty, !.avg = NewAvg(p, t)]

\* The UPDATE of the row that was read, from the values that were read: quantity
\* always changes, avg_cost_basis only if the price differs, is_active never.
Raised(row, p, t) ==
    [row EXCEPT !.qty = p.qty + t.qty,
                !.avg = IF Equal(NewAvg(p, t), p.avg) THEN @ ELSE NewAvg(p, t)]

Book(id, t) ==
    booked' = [booked EXCEPT ![id] = [qty |-> booked[id].qty + t.qty,
                                      cost |-> booked[id].cost + t.qty * t.price]]

\* The buy updates the position it read, which may have been bought into, closed
\* or both since, ...
BuyUpdates(h) ==
    /\ task[h].kind = "buy"
    /\ \E p \in task[h].seen, row \in rows :
          /\ row.id = p.id /\ row.id \notin Locked
          /\ rows' = (rows \ {row}) \cup {Raised(row, p, task[h])}
          /\ Book(row.id, task[h])
    /\ End(h)
    /\ UNCHANGED <<portfolio, buys>>

\* Mutant: every position gets the same id.
BuyInsertsAgain(h) ==
    /\ task[h].kind = "buy" /\ task[h].seen = {}
    /\ portfolio = "present"
    /\ rows' = rows \cup {[id |-> 1, symbol |-> task[h].symbol, qty |-> task[h].qty,
                           avg |-> [num |-> task[h].price, den |-> 1], active |-> TRUE]}
    /\ Book(1, task[h])
    /\ End(h)
    /\ UNCHANGED <<portfolio, buys>>

\* ... or inserts one, ...
BuyInserts(h) ==
    /\ task[h].kind = "buy" /\ task[h].seen = {}
    /\ portfolio = "present"
    /\ rows' = rows \cup {[id |-> task[h].id, symbol |-> task[h].symbol, qty |-> task[h].qty,
                           avg |-> [num |-> task[h].price, den |-> 1], active |-> TRUE]}
    /\ Book(task[h].id, task[h])
    /\ End(h)
    /\ UNCHANGED <<portfolio, buys>>

\* ... or fails: the foreign key has no portfolio (404), or the row was deleted
\* (StaleDataError, 500).
BuyFails(h) ==
    /\ task[h].kind = "buy"
    /\ IF task[h].seen = {}
          THEN portfolio # "present"
          ELSE \A p \in task[h].seen : \A row \in rows : row.id # p.id
    /\ End(h)
    /\ UNCHANGED <<portfolio, rows, buys, booked>>

\* close_position reads the active position with this id ...
CloseReads(h, id) ==
    /\ \E p \in rows : p.id = id /\ p.active
    /\ Begin(h, [kind |-> "close", id |-> id])
    /\ UNCHANGED <<portfolio, rows, buys, booked>>

\* ... and sets is_active and closed_at; if the row is gone, StaleDataError.
CloseWrites(h) ==
    /\ task[h].kind = "close"
    /\ task[h].id \notin Locked
    /\ rows' = {IF p.id = task[h].id THEN [p EXCEPT !.active = FALSE] ELSE p : p \in rows}
    /\ End(h)
    /\ UNCHANGED <<portfolio, buys, booked>>

\* delete_portfolio finds the portfolio, ...
DeleteReads(h) ==
    /\ portfolio = "present"
    /\ Begin(h, [kind |-> "delete"])
    /\ UNCHANGED <<portfolio, rows, buys, booked>>

\* ... deletes the positions there are, waiting for another delete, ...
DeletePositions(h) ==
    /\ task[h].kind = "delete"
    /\ \A p \in rows : p.id \notin Locked
    /\ task' = [task EXCEPT ![h] = [kind |-> "purge", gone |-> {p.id : p \in rows}]]
    /\ UNCHANGED <<portfolio, rows, buys, booked, overlapped>>

\* Mutant: no foreign key.
DeleteCommitsAnyway(h) ==
    /\ task[h].kind = "purge"
    /\ portfolio' = "deleted"
    /\ rows' = {p \in rows : p.id \notin task[h].gone}
    /\ End(h)
    /\ UNCHANGED <<buys, booked>>

\* ... deletes the portfolio and commits; a position inserted since makes the
\* foreign key refuse it, and everything is rolled back (500).
DeleteCommits(h) ==
    /\ task[h].kind = "purge"
    /\ IF \A p \in rows : p.id \in task[h].gone
          THEN portfolio' = "deleted" /\ rows' = {}
          ELSE UNCHANGED <<portfolio, rows>>
    /\ End(h)
    /\ UNCHANGED <<buys, booked>>

\* What a request does once it has begun.
Continue(h) ==
    \/ BuyUpdates(h) \/ BuyInserts(h) \/ BuyFails(h) \/ CloseWrites(h)
    \/ DeletePositions(h) \/ DeleteCommits(h)

Next ==
    \/ CreatePortfolio
    \/ \E h \in Handlers :
          \/ Continue(h) \/ DeleteReads(h)
          \/ \E s \in Symbols, q \in Quantities, price \in Prices : BuyReads(h, s, q, price)
          \/ \E id \in 1..MaxBuys : CloseReads(h, id)

Spec == Init /\ [][Next]_vars
-----------------------------------------------------------------------------
TypeOK ==
    /\ portfolio \in {"absent", "present", "deleted"}
    /\ rows \subseteq Row
    /\ \A p, q \in rows : p.id = q.id => p = q
    /\ buys \in 0..MaxBuys
    /\ \A h \in Handlers : task[h].kind \in {"idle", "buy", "close", "delete", "purge"}
    /\ booked \in [1..MaxBuys -> [qty : Nat, cost : Nat]]
    /\ overlapped \in BOOLEAN

\* While requests come one at a time, a position's quantity and average cost are
\* those of the buys that were acknowledged for it, and a symbol has one active
\* position.
SerialBooksBalance ==
    ~overlapped =>
        /\ \A p \in rows :
              /\ p.qty = booked[p.id].qty
              /\ p.qty * p.avg.num = booked[p.id].cost * p.avg.den
        /\ \A s \in Symbols : Cardinality(Open(s)) <= 1

\* Whatever interleaves, a position stays within what was bought of it: it never holds
\* shares that nobody bought, and its average cost lies between the lowest and the
\* highest price, also in a row whose quantity and average came from different requests.
WithinWhatWasBought ==
    \A p \in rows :
        /\ p.qty <= booked[p.id].qty
        /\ \E low \in Prices : low * p.avg.den <= p.avg.num
        /\ \A high \in Prices : (\A x \in Prices : x <= high) => p.avg.num <= high * p.avg.den

\* Positions never outlive their portfolio ("Hard-delete positions first (FK
\* constraint), then the portfolio row"), also when one is opened meanwhile.
NoOrphans == rows # {} => portfolio = "present"

\* A closed position stays closed: a buy that read it while it was active does
\* not bring it back.
ClosedStaysClosed ==
    [][\A p \in rows, q \in rows' : (p.id = q.id /\ ~p.active) => ~q.active]_vars
-----------------------------------------------------------------------------
\* "the quantity is increased" (portfolio_service.py:83): every acknowledged buy
\* is in its position's quantity.
BuysAreAdded == \A p \in rows : p.qty = booked[p.id].qty
=============================================================================
