-------------------------- MODULE PortfolioProofs --------------------------
(***************************************************************************)
(* What holds of the positions for any number of requests, symbols,        *)
(* quantities and prices: each row has one id, its average stays between   *)
(* the prices paid, and as long as no two requests overlap the books       *)
(* balance.                                                                *)
(***************************************************************************)
EXTENDS Portfolio, FiniteSetTheorems, TLAPS

\* An average between the lowest and the highest price.
InRange(a) ==
    /\ \E low \in Prices : low * a.den <= a.num
    /\ \A high \in Prices : (\A x \in Prices : x <= high) => a.num <= high * a.den

Typed ==
    /\ portfolio \in {"absent", "present", "deleted"}
    /\ rows \subseteq Row
    /\ buys \in 0..MaxBuys
    /\ task \in [Handlers -> Task]
    /\ booked \in [1..MaxBuys -> [qty : Nat, cost : Nat]]
    /\ overlapped \in BOOLEAN

\* A buy has an id of its own, which no row has yet and nothing is booked on.
Fresh ==
    /\ \A p, q \in rows : p.id = q.id => p = q
    /\ \A p \in rows : p.id <= buys
    /\ \A id \in 1..MaxBuys : id > buys => booked[id] = [qty |-> 0, cost |-> 0]
    /\ \A h \in Handlers : task[h].kind = "buy" =>
          /\ task[h].id <= buys
          /\ booked[task[h].id] = [qty |-> 0, cost |-> 0]
          /\ \A p \in rows : p.id # task[h].id
          /\ \A g \in Handlers \ {h} : task[g].kind = "buy" => task[g].id # task[h].id

\* What a row holds, and what a buy has seen of one, is no more than was bought.
Sane(p) == p.qty <= booked[p.id].qty /\ InRange(p.avg)

AllSane ==
    /\ \A p \in rows : Sane(p)
    /\ \A h \in Handlers : task[h].kind = "buy" => \A p \in task[h].seen : Sane(p)

\* While nothing has overlapped, one request is busy at most, what it has seen is what
\* there is, and the books balance.
Balanced(p) ==
    /\ p.qty = booked[p.id].qty
    /\ p.qty * p.avg.num = booked[p.id].cost * p.avg.den

Serial ==
    ~overlapped =>
        /\ \A g, h \in Handlers : Busy(g) /\ Busy(h) => g = h
        /\ \A h \in Handlers : task[h].kind = "buy" =>
              task[h].seen = {p \in rows : p.symbol = task[h].symbol /\ p.active}
        /\ \A p \in rows : Balanced(p)
        /\ \A p, q \in rows : (p.active /\ q.active /\ p.symbol = q.symbol) => p = q

Base == Typed /\ Fresh /\ AllSane /\ NoOrphans
IInv == Base /\ Serial
-----------------------------------------------------------------------------
\* Equal products of a positive factor have equal other factors.
LEMMA Cancel ==
    ASSUME NEW x \in Nat, NEW y \in Nat, NEW d \in Nat \ {0}, x * d = y * d
    PROVE  x = y
<1>1. CASE x < y
  <2>1. PICK k \in Nat \ {0} : y = x + k
    <3>1. y - x \in Nat \ {0} /\ y = x + (y - x)
      BY <1>1
    <3> QED
      BY <3>1
  <2>2. y * d = x * d + k * d
    BY <2>1
  <2>3. k * d > 0
    BY <2>1
  <2>4. x * d \in Nat /\ k * d \in Nat
    BY <2>1
  <2> QED
    BY <2>2, <2>3, <2>4
<1>2. CASE y < x
  <2>1. PICK k \in Nat \ {0} : x = y + k
    <3>1. x - y \in Nat \ {0} /\ x = y + (x - y)
      BY <1>2
    <3> QED
      BY <3>1
  <2>2. x * d = y * d + k * d
    BY <2>1
  <2>3. k * d > 0
    BY <2>1
  <2>4. y * d \in Nat /\ k * d \in Nat
    BY <2>1
  <2> QED
    BY <2>2, <2>3, <2>4
<1> QED
  BY <1>1, <1>2

\* Multiplication is monotonic.
LEMMA Grow ==
    ASSUME NEW x \in Nat, NEW y \in Nat, NEW k \in Nat, x <= y
    PROVE  k * x <= k * y /\ x * k <= y * k
<1>1. PICK e \in Nat : y = x + e
  <2>1. y - x \in Nat /\ y = x + (y - x)
    OBVIOUS
  <2> QED
    BY <2>1
<1>2. k * y = k * x + k * e /\ y * k = x * k + e * k
  BY <1>1
<1>3. k * x \in Nat /\ k * e \in Nat /\ x * k \in Nat /\ e * k \in Nat
  BY <1>1
<1> QED
  BY <1>2, <1>3

\* The average over old shares and new ones is not below what neither is below ...
LEMMA AverageAbove ==
    ASSUME NEW a \in Nat, NEW n \in Nat, NEW d \in Nat, NEW b \in Nat, NEW c \in Nat,
           NEW l \in Nat, l * d <= n, l <= c
    PROVE  l * (d * (a + b)) <= a * n + b * c * d
<1>1. a * (l * d) <= a * n
  <2>1. l * d \in Nat
    OBVIOUS
  <2> QED
    BY <2>1, Grow
<1>2. (b * d) * l <= (b * d) * c
  <2>1. b * d \in Nat
    OBVIOUS
  <2> QED
    BY <2>1, Grow
<1>3. l * (d * (a + b)) = a * (l * d) + (b * d) * l
  OBVIOUS
<1>4. (b * d) * c = b * c * d
  OBVIOUS
<1>5. /\ a * (l * d) \in Nat /\ a * n \in Nat
      /\ (b * d) * l \in Nat /\ (b * d) * c \in Nat
  OBVIOUS
<1> QED
  BY <1>1, <1>2, <1>3, <1>4, <1>5

\* ... and not above what neither is above.
LEMMA AverageBelow ==
    ASSUME NEW a \in Nat, NEW n \in Nat, NEW d \in Nat, NEW b \in Nat, NEW c \in Nat,
           NEW m \in Nat, n <= m * d, c <= m
    PROVE  a * n + b * c * d <= m * (d * (a + b))
<1>1. a * n <= a * (m * d)
  <2>1. m * d \in Nat
    OBVIOUS
  <2> QED
    BY <2>1, Grow
<1>2. (b * d) * c <= (b * d) * m
  <2>1. b * d \in Nat
    OBVIOUS
  <2> QED
    BY <2>1, Grow
<1>3. m * (d * (a + b)) = a * (m * d) + (b * d) * m
  OBVIOUS
<1>4. (b * d) * c = b * c * d
  OBVIOUS
<1>5. /\ a * (m * d) \in Nat /\ a * n \in Nat
      /\ (b * d) * m \in Nat /\ (b * d) * c \in Nat
  OBVIOUS
<1> QED
  BY <1>1, <1>2, <1>3, <1>4, <1>5

\* A buy keeps an average an average, and within the prices.
LEMMA NewAvgInRange ==
    ASSUME NEW p \in Row, InRange(p.avg), NEW t, t.qty \in Quantities, t.price \in Prices
    PROVE  NewAvg(p, t) \in Avg /\ InRange(NewAvg(p, t))
<1>1. PICK a \in Nat : a = p.qty
  BY DEF Row
<1>2. PICK n \in Nat, d \in Nat \ {0} : p.avg = [num |-> n, den |-> d]
  BY DEF Row, Avg
<1>3. PICK b \in Nat \ {0}, c \in Nat \ {0} : b = t.qty /\ c = t.price
  BY PortfolioAssumption
<1>4. NewAvg(p, t) = [num |-> a * n + b * c * d, den |-> d * (a + b)]
  BY <1>1, <1>2, <1>3 DEF NewAvg
<1>5. a * n + b * c * d \in Nat /\ d * (a + b) \in Nat \ {0}
  <2>1. a * n \in Nat /\ b * c * d \in Nat
    OBVIOUS
  <2>2. a + b \in Nat /\ a + b > 0
    OBVIOUS
  <2>3. d * (a + b) > 0
    BY <2>2
  <2> QED
    BY <2>1, <2>2, <2>3
<1>6. \E low \in Prices : low * (d * (a + b)) <= a * n + b * c * d
  <2>1. PICK low \in Prices : low * d <= n
    BY <1>2 DEF InRange
  <2>2. low \in Nat /\ c \in Prices
    BY <1>3, PortfolioAssumption
  <2>3. CASE low <= c
    BY <2>1, <2>2, <2>3, AverageAbove
  <2>4. CASE c < low
    <3>1. c * d <= low * d
      BY <2>2, <2>4, Grow
    <3>2. c * d <= n
      <4>1. c * d \in Nat /\ low * d \in Nat
        BY <2>2
      <4> QED
        BY <2>1, <3>1, <4>1
    <3>3. c <= c
      OBVIOUS
    <3> QED
      BY <2>2, <3>2, <3>3, AverageAbove
  <2> QED
    BY <2>2, <2>3, <2>4
<1>7. ASSUME NEW high \in Prices, \A x \in Prices : x <= high
      PROVE  a * n + b * c * d <= high * (d * (a + b))
  <2>1. n <= high * d
    BY <1>2, <1>7 DEF InRange
  <2>2. high \in Nat /\ c <= high
    BY <1>3, <1>7, PortfolioAssumption
  <2> QED
    BY <2>1, <2>2, AverageBelow
<1> QED
  BY <1>4, <1>5, <1>6, <1>7 DEF Avg, InRange

\* A buy on top of a position whose books balance leaves them in balance, also where the
\* average stays as it was.
LEMMA NewAvgBalances ==
    ASSUME NEW p \in Row, NEW t, t.qty \in Quantities, t.price \in Prices,
           NEW cost \in Nat, p.qty * p.avg.num = cost * p.avg.den,
           NEW avg \in Avg, avg = NewAvg(p, t) \/ (avg = p.avg /\ Equal(NewAvg(p, t), p.avg))
    PROVE  (p.qty + t.qty) * avg.num = (cost + t.qty * t.price) * avg.den
<1>1. PICK a \in Nat : a = p.qty
  BY DEF Row
<1>2. PICK n \in Nat, d \in Nat \ {0} : p.avg = [num |-> n, den |-> d]
  BY DEF Row, Avg
<1>3. PICK b \in Nat \ {0}, c \in Nat \ {0} : b = t.qty /\ c = t.price
  BY PortfolioAssumption
<1>4. NewAvg(p, t) = [num |-> a * n + b * c * d, den |-> d * (a + b)]
  BY <1>1, <1>2, <1>3 DEF NewAvg
<1>5. a * n + b * c * d = (cost + b * c) * d
  <2>1. a * n = cost * d
    BY <1>1, <1>2
  <2>2. (cost + b * c) * d = cost * d + b * c * d
    OBVIOUS
  <2> QED
    BY <2>1, <2>2
<1>6. CASE avg = NewAvg(p, t)
  <2>1. (a + b) * ((cost + b * c) * d) = (cost + b * c) * (d * (a + b))
    OBVIOUS
  <2> QED
    BY <1>1, <1>3, <1>4, <1>5, <1>6, <2>1
<1>7. CASE avg = p.avg /\ Equal(NewAvg(p, t), p.avg)
  <2>1. (a * n + b * c * d) * d = n * (d * (a + b))
    BY <1>2, <1>4, <1>7 DEF Equal
  <2>2. ((cost + b * c) * d) * d = ((a + b) * n) * d
    <3>1. n * (d * (a + b)) = ((a + b) * n) * d
      OBVIOUS
    <3> QED
      BY <1>5, <2>1, <3>1
  <2>3. (cost + b * c) * d \in Nat /\ (a + b) * n \in Nat
    OBVIOUS
  <2>4. (cost + b * c) * d = (a + b) * n
    BY <2>2, <2>3, Cancel
  <2> QED
    BY <1>1, <1>2, <1>3, <1>7, <2>4
<1> QED
  BY <1>6, <1>7
-----------------------------------------------------------------------------
\* What tells the tasks apart.
LEMMA TaskKinds ==
    ASSUME NEW t \in Task
    PROVE  /\ t.kind \in {"idle", "buy", "close", "delete", "purge"}
           /\ t.kind = "idle" => t = Idle
           /\ t.kind = "buy" => /\ t.id \in 1..MaxBuys /\ t.symbol \in Symbols
                               /\ t.qty \in Quantities /\ t.price \in Prices
                               /\ t.seen \subseteq Row
           /\ t.kind = "close" => t.id \in 1..MaxBuys
           /\ t.kind = "purge" => t.gone \subseteq 1..MaxBuys
BY DEF Task, Idle

\* A request that is over is no task of any kind any more.
LEMMA Ended ==
    ASSUME Typed, NEW h \in Handlers, End(h)
    PROVE  /\ task' \in [Handlers -> Task]
           /\ task'[h] = Idle
           /\ \A g \in Handlers \ {h} : task'[g] = task[g]
           /\ overlapped' = overlapped
BY DEF Typed, End, Task, Idle

\* A request that begins overlaps with those that are under way.
LEMMA Begun ==
    ASSUME Typed, NEW h \in Handlers, NEW t \in Task, Begin(h, t)
    PROVE  /\ task' \in [Handlers -> Task]
           /\ task'[h] = t
           /\ \A g \in Handlers \ {h} : task'[g] = task[g]
           /\ overlapped' \in BOOLEAN
           /\ ~overlapped' => ~overlapped /\ \A g \in Handlers : ~Busy(g)
BY DEF Typed, Begin

\* The UPDATE of a buy keeps a row a row, and its average within the prices.
LEMMA RaisedRow ==
    ASSUME NEW row \in Row, NEW p \in Row, InRange(row.avg), InRange(p.avg),
           NEW t, t.qty \in Quantities, t.price \in Prices,
           NEW new, new = Raised(row, p, t)
    PROVE  new \in Row /\ InRange(new.avg)
<1>1. NewAvg(p, t) \in Avg /\ InRange(NewAvg(p, t))
  BY NewAvgInRange
<1>2. p.qty + t.qty \in Nat
  <2>1. p.qty \in Nat /\ t.qty \in Nat
    BY PortfolioAssumption DEF Row
  <2> QED
    BY <2>1
<1> QED
  BY <1>1, <1>2 DEF Raised, Row

\* There is nothing before the portfolio.
LEMMA InitIInv == Init => IInv
<1> SUFFICES ASSUME Init PROVE IInv
  OBVIOUS
<1>1. Typed
  <2>1. task \in [Handlers -> Task]
    BY DEF Init, Task
  <2>2. buys \in 0..MaxBuys
    BY PortfolioAssumption DEF Init
  <2>3. booked \in [1..MaxBuys -> [qty : Nat, cost : Nat]]
    BY DEF Init
  <2> QED
    BY <2>1, <2>2, <2>3 DEF Init, Typed
<1>2. \A h \in Handlers : task[h].kind = "idle" /\ ~Busy(h)
  BY DEF Init, Idle, Busy
<1>3. Fresh /\ AllSane /\ NoOrphans
  BY <1>2 DEF Init, Fresh, AllSane, NoOrphans
<1>4. Serial
  BY <1>2 DEF Init, Serial
<1> QED
  BY <1>1, <1>3, <1>4 DEF IInv, Base

\* A buy begins with the next id, and with what there is of the symbol.
LEMMA BuyReadsIInv ==
    ASSUME IInv, NEW h \in Handlers, NEW s \in Symbols, NEW q \in Quantities,
           NEW price \in Prices, BuyReads(h, s, q, price)
    PROVE  IInv'
<1> DEFINE t == [kind |-> "buy", id |-> buys + 1, symbol |-> s, qty |-> q,
                 price |-> price, seen |-> Open(s)]
<1>1. Typed /\ Fresh /\ AllSane /\ NoOrphans /\ Serial
  BY DEF IInv, Base
<1>2. /\ buys < MaxBuys /\ buys' = buys + 1
      /\ portfolio' = portfolio /\ rows' = rows /\ booked' = booked
  BY DEF BuyReads
<1>3. t \in Task
  <2>1. buys + 1 \in 1..MaxBuys
    BY <1>1, <1>2, PortfolioAssumption DEF Typed
  <2>2. Open(s) \subseteq Row
    BY <1>1 DEF Open, Typed
  <2> QED
    BY <2>1, <2>2 DEF Task
<1>4. /\ task' \in [Handlers -> Task]
      /\ task'[h] = t
      /\ \A g \in Handlers \ {h} : task'[g] = task[g]
      /\ overlapped' \in BOOLEAN
      /\ ~overlapped' => ~overlapped /\ \A g \in Handlers : ~Busy(g)
  <2>1. Begin(h, t)
    BY DEF BuyReads
  <2> HIDE DEF t
  <2> QED
    BY <1>1, <1>3, <2>1, Begun
<1>5. Typed'
  BY <1>1, <1>2, <1>4, PortfolioAssumption DEF Typed
<1>6. Fresh'
  <2>1. /\ \A p, q_1 \in rows : p.id = q_1.id => p = q_1
        /\ \A p \in rows : p.id <= buys
    BY <1>1 DEF Fresh
  <2>2. \A p \in rows : p.id \in Nat
    BY <1>1 DEF Typed, Row
  <2>3. buys \in Nat
    BY <1>1, PortfolioAssumption DEF Typed
  <2>4. \A id \in 1..MaxBuys : id > buys => booked[id] = [qty |-> 0, cost |-> 0]
    BY <1>1 DEF Fresh
  <2>5. buys + 1 \in 1..MaxBuys
    BY <1>2, <2>3, PortfolioAssumption
  <2>6. ASSUME NEW g \in Handlers, task'[g].kind = "buy", g # h
        PROVE  /\ task'[g].id \in 1..MaxBuys /\ task'[g].id <= buys
               /\ booked[task'[g].id] = [qty |-> 0, cost |-> 0]
               /\ \A p \in rows : p.id # task'[g].id
               /\ \A f \in Handlers \ {g, h} : task'[f].kind = "buy" => task'[f].id # task'[g].id
    <3>1. task[g] \in Task /\ task'[g] = task[g]
      BY <1>1, <1>4, <2>6 DEF Typed
    <3>2. task[g].id \in 1..MaxBuys
      BY <2>6, <3>1, TaskKinds
    <3> QED
      BY <1>1, <1>4, <2>6, <3>1, <3>2 DEF Fresh
  <2>7. ASSUME NEW g \in Handlers, task'[g].kind = "buy"
        PROVE  /\ task'[g].id <= buys'
               /\ booked'[task'[g].id] = [qty |-> 0, cost |-> 0]
               /\ \A p \in rows' : p.id # task'[g].id
               /\ \A f \in Handlers \ {g} : task'[f].kind = "buy" => task'[f].id # task'[g].id
    <3>1. CASE g = h
      <4>1. task'[g].id = buys + 1
        BY <1>4, <3>1
      <4>2. \A p \in rows : p.id # buys + 1
        BY <2>1, <2>2, <2>3
      <4>3. \A f \in Handlers \ {g} : task'[f].kind = "buy" => task'[f].id # buys + 1
        BY <2>3, <2>6, <3>1
      <4>4. booked[buys + 1] = [qty |-> 0, cost |-> 0]
        BY <2>3, <2>4, <2>5
      <4> QED
        BY <1>2, <2>3, <4>1, <4>2, <4>3, <4>4
    <3>2. CASE g # h
      <4>1. task'[h].id = buys + 1
        BY <1>4
      <4> QED
        BY <1>2, <2>3, <2>6, <2>7, <3>2, <4>1
    <3> QED
      BY <3>1, <3>2
  <2>8. \A p \in rows : p.id <= buys + 1
    BY <2>1, <2>2, <2>3
  <2>9. \A id \in 1..MaxBuys : id > buys + 1 => booked[id] = [qty |-> 0, cost |-> 0]
    BY <2>3, <2>4
  <2> QED
    BY <1>2, <2>1, <2>7, <2>8, <2>9 DEF Fresh
<1>7. AllSane'
  <2>1. Open(s) \subseteq rows
    BY DEF Open
  <2>2. \A p \in rows : Sane(p)
    BY <1>1 DEF AllSane
  <2>3. \A p : Sane(p)' <=> Sane(p)
    BY <1>2 DEF Sane, InRange
  <2>4. \A g \in Handlers : task'[g].kind = "buy" => \A p \in task'[g].seen : Sane(p)
    <3>1. \A p \in task'[h].seen : Sane(p)
      BY <1>4, <2>1, <2>2
    <3> QED
      BY <1>1, <1>4, <3>1 DEF AllSane
  <2> QED
    BY <1>2, <2>2, <2>3, <2>4 DEF AllSane
<1>8. NoOrphans'
  BY <1>1, <1>2 DEF NoOrphans
<1>9. Serial'
  <2> SUFFICES ASSUME ~overlapped'
               PROVE  /\ \A g, f \in Handlers : Busy(g)' /\ Busy(f)' => g = f
                      /\ \A g \in Handlers : task'[g].kind = "buy" =>
                            task'[g].seen = {p \in rows' : p.symbol = task'[g].symbol /\ p.active}
                      /\ \A p \in rows' : Balanced(p)'
                      /\ \A p, r \in rows' :
                            (p.active /\ r.active /\ p.symbol = r.symbol) => p = r
    BY DEF Serial
  <2>1. \A g \in Handlers : g # h => task'[g] = Idle
    BY <1>4 DEF Busy
  <2>2. task'[h].seen = {p \in rows' : p.symbol = task'[h].symbol /\ p.active}
    BY <1>2, <1>4 DEF Open
  <2>3. ~overlapped
    BY <1>4
  <2> QED
    BY <1>1, <1>2, <2>1, <2>2, <2>3 DEF Serial, Busy, Balanced, Idle
<1> QED
  BY <1>5, <1>6, <1>7, <1>8, <1>9 DEF IInv, Base

\* A request that goes on to something other than a buy changes nothing but its task.
LEMMA OthersIInv ==
    ASSUME IInv, NEW h \in Handlers,
           task' \in [Handlers -> Task], task'[h].kind # "buy",
           \A g \in Handlers \ {h} : task'[g] = task[g],
           overlapped' \in BOOLEAN,
           ~overlapped' => ~overlapped /\ (Busy(h) \/ \A g \in Handlers : ~Busy(g)),
           UNCHANGED <<portfolio, rows, buys, booked>>
    PROVE  IInv'
<1>1. Typed /\ Fresh /\ AllSane /\ NoOrphans /\ Serial
  BY DEF IInv, Base
<1>2. Typed'
  BY <1>1 DEF Typed
<1>3. Fresh'
  BY <1>1 DEF Fresh
<1>4. AllSane'
  BY <1>1 DEF AllSane, Sane, InRange
<1>5. NoOrphans'
  BY <1>1 DEF NoOrphans
<1>6. Serial'
  <2> SUFFICES ASSUME ~overlapped'
               PROVE  /\ \A g, f \in Handlers : Busy(g)' /\ Busy(f)' => g = f
                      /\ \A g \in Handlers : task'[g].kind = "buy" =>
                            task'[g].seen = {p \in rows' : p.symbol = task'[g].symbol /\ p.active}
                      /\ \A p \in rows' : Balanced(p)'
                      /\ \A p, r \in rows' :
                            (p.active /\ r.active /\ p.symbol = r.symbol) => p = r
    BY DEF Serial
  <2>1. \A g \in Handlers : g # h => task'[g] = Idle
    BY <1>1 DEF Busy, Serial
  <2> QED
    BY <1>1, <2>1 DEF Serial, Busy, Balanced, Idle
<1> QED
  BY <1>2, <1>3, <1>4, <1>5, <1>6 DEF IInv, Base

\* What a buy adds to the books.
LEMMA Booked ==
    ASSUME Typed, NEW id \in 1..MaxBuys, NEW t, t.qty \in Quantities, t.price \in Prices,
           Book(id, t)
    PROVE  /\ booked' \in [1..MaxBuys -> [qty : Nat, cost : Nat]]
           /\ booked'[id].qty = booked[id].qty + t.qty
           /\ booked'[id].cost = booked[id].cost + t.qty * t.price
           /\ \A i \in 1..MaxBuys \ {id} : booked'[i] = booked[i]
           /\ \A i \in 1..MaxBuys : booked[i].qty <= booked'[i].qty
<1>1. PICK b \in Nat, c \in Nat : b = t.qty /\ c = t.price
  BY PortfolioAssumption
<1>2. b * c \in Nat
  OBVIOUS
<1>3. \A i \in 1..MaxBuys : booked[i].qty \in Nat /\ booked[i].cost \in Nat
  BY DEF Typed
<1>4. PICK d \in Nat, e \in Nat :
         /\ d = booked[id].qty + b /\ e = booked[id].cost + b * c
         /\ booked' = [booked EXCEPT ![id] = [qty |-> d, cost |-> e]]
  <2>1. PICK v \in Nat, w \in Nat : v = booked[id].qty /\ w = booked[id].cost
    BY <1>3
  <2>2. PICK u \in Nat : u = b * c
    BY <1>2
  <2>3. t.qty * t.price = u
    BY <1>1, <2>2
  <2>4. booked' = [booked EXCEPT ![id] = [qty |-> v + b, cost |-> w + u]]
    BY <1>1, <2>1, <2>3 DEF Book
  <2>5. v + b \in Nat /\ w + u \in Nat
    OBVIOUS
  <2> QED
    BY <2>1, <2>2, <2>4, <2>5
<1>5. /\ booked' \in [1..MaxBuys -> [qty : Nat, cost : Nat]]
      /\ booked'[id] = [qty |-> d, cost |-> e]
      /\ \A i \in 1..MaxBuys \ {id} : booked'[i] = booked[i]
  BY <1>4 DEF Typed
<1>6. booked[id].qty <= d
  BY <1>3, <1>4
<1> QED
  BY <1>1, <1>3, <1>4, <1>5, <1>6

\* The rest of the invariant, when one request ends and rows or books have changed:
\* nobody else is under way as long as nothing has overlapped.
LEMMA SerialEnd ==
    ASSUME Typed, Serial, NEW h \in Handlers, Busy(h), End(h),
           ~overlapped => \A p \in rows' : Balanced(p)',
           ~overlapped => \A p, q \in rows' :
                              (p.active /\ q.active /\ p.symbol = q.symbol) => p = q
    PROVE  Serial'
<1> SUFFICES ASSUME ~overlapped'
             PROVE  /\ \A g, f \in Handlers : Busy(g)' /\ Busy(f)' => g = f
                    /\ \A g \in Handlers : task'[g].kind = "buy" =>
                          task'[g].seen = {p \in rows' : p.symbol = task'[g].symbol /\ p.active}
                    /\ \A p \in rows' : Balanced(p)'
                    /\ \A p, r \in rows' :
                          (p.active /\ r.active /\ p.symbol = r.symbol) => p = r
  BY DEF Serial
<1>1. ~overlapped
  BY Ended
<1>2. \A g \in Handlers : task'[g] = Idle
  BY <1>1, Ended DEF Serial, Busy
<1> QED
  BY <1>1, <1>2 DEF Busy, Idle

\* What is left to show of a request that ends and has changed rows or books.
LEMMA EndIInv ==
    ASSUME IInv, NEW h \in Handlers, Busy(h), End(h), buys' = buys,
           portfolio' \in {"absent", "present", "deleted"}, rows' \subseteq Row,
           booked' \in [1..MaxBuys -> [qty : Nat, cost : Nat]],
           \A i \in 1..MaxBuys : booked[i].qty <= booked'[i].qty,
           \A i \in 1..MaxBuys : \/ booked'[i] = booked[i]
                                 \/ /\ i <= buys
                                    /\ \A g \in Handlers \ {h} :
                                          task[g].kind = "buy" => task[g].id # i,
           \A p, q \in rows' : p.id = q.id => p = q,
           \A p \in rows' : /\ p.id <= buys /\ Sane(p)'
                            /\ \A g \in Handlers \ {h} :
                                  task[g].kind = "buy" => task[g].id # p.id,
           rows' # {} => portfolio' = "present",
           ~overlapped => /\ \A p \in rows' : Balanced(p)'
                          /\ \A p, q \in rows' :
                                (p.active /\ q.active /\ p.symbol = q.symbol) => p = q
    PROVE  IInv'
<1>1. Typed /\ Fresh /\ AllSane /\ NoOrphans /\ Serial
  BY DEF IInv, Base
<1>2. /\ task' \in [Handlers -> Task]
      /\ task'[h].kind = "idle"
      /\ \A g \in Handlers \ {h} : task'[g] = task[g]
      /\ overlapped' = overlapped
  BY <1>1, Ended DEF Idle
<1>3. Typed'
  BY <1>1, <1>2 DEF Typed
<1>4. \A g \in Handlers : task'[g].kind = "buy" =>
         /\ g # h /\ task'[g] = task[g] /\ task[g].kind = "buy"
         /\ task[g].id \in 1..MaxBuys /\ task[g].seen \subseteq Row
  <2> TAKE g \in Handlers
  <2> HAVE task'[g].kind = "buy"
  <2>1. g # h /\ task'[g] = task[g]
    BY <1>2
  <2>2. task[g] \in Task
    BY <1>1 DEF Typed
  <2> QED
    BY <2>1, <2>2, TaskKinds
<1>5. Fresh'
  <2>1. \A id \in 1..MaxBuys : id > buys => booked'[id] = [qty |-> 0, cost |-> 0]
    <3>1. buys \in Nat
      BY <1>1, PortfolioAssumption DEF Typed
    <3> QED
      BY <1>1, <3>1 DEF Fresh
  <2>2. ASSUME NEW g \in Handlers, task'[g].kind = "buy"
        PROVE  /\ task'[g].id <= buys'
               /\ booked'[task'[g].id] = [qty |-> 0, cost |-> 0]
               /\ \A p \in rows' : p.id # task'[g].id
               /\ \A f \in Handlers \ {g} : task'[f].kind = "buy" => task'[f].id # task'[g].id
    <3>1. /\ g # h /\ task'[g] = task[g] /\ task[g].kind = "buy"
          /\ task[g].id \in 1..MaxBuys
      BY <1>4, <2>2
    <3>2. booked'[task[g].id] = booked[task[g].id]
      BY <3>1
    <3> QED
      BY <1>1, <1>4, <3>1, <3>2 DEF Fresh
  <2> QED
    BY <2>1, <2>2 DEF Fresh
<1>6. AllSane'
  <2>1. ASSUME NEW g \in Handlers, task'[g].kind = "buy", NEW p \in task'[g].seen
        PROVE  Sane(p)'
    <3>1. task'[g] = task[g] /\ task[g].kind = "buy" /\ p \in task[g].seen /\ p \in Row
      BY <1>4, <2>1
    <3>2. Sane(p)
      BY <1>1, <3>1 DEF AllSane
    <3>3. p.id \in 1..MaxBuys /\ p.qty \in Nat
      BY <3>1 DEF Row
    <3>4. booked[p.id].qty \in Nat /\ booked'[p.id].qty \in Nat
      BY <1>1, <3>3 DEF Typed
    <3> QED
      BY <3>2, <3>3, <3>4 DEF Sane, InRange
  <2> QED
    BY <2>1 DEF AllSane
<1>7. NoOrphans'
  BY DEF NoOrphans
<1>8. Serial'
  BY <1>1, SerialEnd
<1> QED
  BY <1>3, <1>5, <1>6, <1>7, <1>8 DEF IInv, Base
-----------------------------------------------------------------------------
\* A buy into a position raises what the position holds by what it adds to the books:
\* serially that is the position as it is, otherwise it may have been bought into since.
LEMMA BuyUpdatesIInv ==
    ASSUME IInv, NEW h \in Handlers, BuyUpdates(h)
    PROVE  IInv'
<1>1. Typed /\ Fresh /\ AllSane /\ NoOrphans /\ Serial
  BY DEF IInv, Base
<1>2. /\ task[h].kind = "buy" /\ End(h) /\ portfolio' = portfolio /\ buys' = buys
  BY DEF BuyUpdates
<1>3. PICK p \in task[h].seen, row \in rows :
         /\ row.id = p.id
         /\ rows' = (rows \ {row}) \cup {Raised(row, p, task[h])}
         /\ Book(row.id, task[h])
  BY DEF BuyUpdates
<1>4. /\ task[h].qty \in Quantities /\ task[h].price \in Prices
      /\ p \in Row /\ row \in Row /\ row.id \in 1..MaxBuys
  <2>1. task[h] \in Task
    BY <1>1 DEF Typed
  <2>2. task[h].seen \subseteq Row
    BY <1>2, <2>1, TaskKinds
  <2>3. row \in Row
    BY <1>1 DEF Typed
  <2> QED
    BY <1>2, <1>3, <2>1, <2>2, <2>3, TaskKinds DEF Row
<1>5. Busy(h)
  BY <1>2 DEF Busy, Idle
<1>6. Sane(p) /\ Sane(row)
  BY <1>1, <1>2, <1>3 DEF AllSane
<1>7. PICK new \in Row :
         /\ new = Raised(row, p, task[h])
         /\ new.id = row.id /\ new.symbol = row.symbol /\ new.active = row.active
         /\ new.qty = p.qty + task[h].qty
         /\ InRange(new.avg)
         /\ \/ new.avg = NewAvg(p, task[h])
            \/ new.avg = row.avg /\ Equal(NewAvg(p, task[h]), p.avg)
  <2>1. InRange(row.avg) /\ InRange(p.avg)
    BY <1>6 DEF Sane
  <2>3. PICK t : t = task[h]
    OBVIOUS
  <2>4. PICK r : r = Raised(row, p, t)
    OBVIOUS
  <2>5. t.qty \in Quantities /\ t.price \in Prices
    BY <1>4, <2>3
  <2>2. /\ r \in Row
        /\ r.id = row.id /\ r.symbol = row.symbol /\ r.active = row.active
        /\ r.qty = p.qty + t.qty
        /\ InRange(r.avg)
        /\ \/ r.avg = NewAvg(p, t)
           \/ r.avg = row.avg /\ Equal(NewAvg(p, t), p.avg)
    <3>1. r \in Row /\ InRange(r.avg)
      BY <1>4, <2>1, <2>4, <2>5, RaisedRow
    <3>2. /\ r.id = row.id /\ r.symbol = row.symbol /\ r.active = row.active
          /\ r.qty = p.qty + t.qty
          /\ r.avg = NewAvg(p, t) \/ (r.avg = row.avg /\ Equal(NewAvg(p, t), p.avg))
      BY <1>4, <2>4 DEF Raised, Row
    <3> QED
      BY <3>1, <3>2
  <2> QED
    BY <2>2, <2>3, <2>4
<1>8. rows' = (rows \ {row}) \cup {new}
  BY <1>3, <1>7
<1>9. /\ booked' \in [1..MaxBuys -> [qty : Nat, cost : Nat]]
      /\ booked'[row.id].qty = booked[row.id].qty + task[h].qty
      /\ booked'[row.id].cost = booked[row.id].cost + task[h].qty * task[h].price
      /\ \A i \in 1..MaxBuys \ {row.id} : booked'[i] = booked[i]
      /\ \A i \in 1..MaxBuys : booked[i].qty <= booked'[i].qty
  BY <1>1, <1>3, <1>4, Booked
<1>10. rows \subseteq Row /\ rows' \subseteq Row
  BY <1>1, <1>8 DEF Typed
<1>11. \A i \in 1..MaxBuys : \/ booked'[i] = booked[i]
                             \/ /\ i <= buys
                                /\ \A g \in Handlers \ {h} :
                                      task[g].kind = "buy" => task[g].id # i
  BY <1>1, <1>9 DEF Fresh
<1>12. \A q, r \in rows' : q.id = r.id => q = r
  BY <1>1, <1>7, <1>8 DEF Fresh
<1>13. ASSUME NEW q \in rows'
       PROVE  /\ q.id <= buys /\ Sane(q)'
              /\ \A g \in Handlers \ {h} : task[g].kind = "buy" => task[g].id # q.id
  <2>1. CASE q = new
    <3>1. p.qty <= booked[row.id].qty
      BY <1>3, <1>6 DEF Sane
    <3>2. /\ p.qty \in Nat /\ booked[row.id].qty \in Nat
          /\ booked'[row.id].qty \in Nat /\ task[h].qty \in Nat
      BY <1>1, <1>4, <1>9, PortfolioAssumption DEF Typed, Row
    <3>3. new.qty <= booked'[new.id].qty
      BY <1>7, <1>9, <3>1, <3>2
    <3> QED
      BY <1>1, <1>7, <2>1, <3>3 DEF Sane, InRange, Fresh
  <2>2. CASE q # new
    <3>1. q \in rows /\ q \in Row /\ Sane(q)
      BY <1>1, <1>8, <1>10, <2>2 DEF AllSane
    <3>2. q.id \in 1..MaxBuys /\ q.qty \in Nat
      BY <3>1 DEF Row
    <3>3. booked[q.id].qty \in Nat /\ booked'[q.id].qty \in Nat
      BY <1>1, <1>9, <3>2 DEF Typed
    <3>4. Sane(q)'
      BY <1>9, <3>1, <3>2, <3>3 DEF Sane, InRange
    <3> QED
      BY <1>1, <3>1, <3>4 DEF Fresh
  <2> QED
    BY <2>1, <2>2
<1>14. rows' # {} => portfolio' = "present"
  BY <1>1, <1>2, <1>3 DEF NoOrphans
<1>15. ASSUME ~overlapped
       PROVE  /\ \A q \in rows' : Balanced(q)'
              /\ \A q, r \in rows' : (q.active /\ r.active /\ q.symbol = r.symbol) => q = r
  <2>1. task[h].seen = {q \in rows : q.symbol = task[h].symbol /\ q.active}
    BY <1>1, <1>2, <1>15 DEF Serial
  <2>2. p = row
    BY <1>1, <1>3, <2>1 DEF Fresh
  <2>3. \A q \in rows : Balanced(q)
    BY <1>1, <1>15 DEF Serial
  <2>4. ASSUME NEW q \in rows'
        PROVE  Balanced(q)'
    <3>1. CASE q = new
      <4>1. /\ p.qty = booked[row.id].qty
            /\ p.qty * p.avg.num = booked[row.id].cost * p.avg.den
        BY <2>2, <2>3 DEF Balanced
      <4>2. booked[row.id].cost \in Nat /\ new.avg \in Avg
        BY <1>1, <1>4 DEF Typed, Row
      <4>3. (p.qty + task[h].qty) * new.avg.num
               = (booked[row.id].cost + task[h].qty * task[h].price) * new.avg.den
        BY <1>4, <1>7, <2>2, <4>1, <4>2, NewAvgBalances
      <4> QED
        BY <1>7, <1>9, <3>1, <4>1, <4>3 DEF Balanced
    <3>2. CASE q # new
      <4>1. q \in rows /\ q # row
        BY <1>8, <3>2
      <4>2. q.id # row.id /\ q.id \in 1..MaxBuys
        BY <1>1, <1>10, <4>1 DEF Fresh, Row
      <4> QED
        BY <1>9, <2>3, <4>1, <4>2 DEF Balanced
    <3> QED
      BY <3>1, <3>2
  <2>5. \A q, r \in rows' : (q.active /\ r.active /\ q.symbol = r.symbol) => q = r
    BY <1>1, <1>7, <1>8, <1>15 DEF Serial
  <2> QED
    BY <2>4, <2>5
<1>16. portfolio' \in {"absent", "present", "deleted"}
  BY <1>1, <1>2 DEF Typed
<1> QED
  BY <1>2, <1>5, <1>9, <1>10, <1>11, <1>12, <1>13, <1>14, <1>15, <1>16, EndIInv

\* A buy that has seen no position opens one with its own id; serially there is none.
LEMMA BuyInsertsIInv ==
    ASSUME IInv, NEW h \in Handlers, BuyInserts(h)
    PROVE  IInv'
<1>1. Typed /\ Fresh /\ AllSane /\ NoOrphans /\ Serial
  BY DEF IInv, Base
<1>2. /\ task[h].kind = "buy" /\ task[h].seen = {} /\ portfolio = "present"
      /\ End(h) /\ portfolio' = portfolio /\ buys' = buys
      /\ Book(task[h].id, task[h])
  BY DEF BuyInserts
<1>3. /\ task[h].id \in 1..MaxBuys /\ task[h].symbol \in Symbols
      /\ task[h].qty \in Quantities /\ task[h].price \in Prices
  <2>1. task[h] \in Task
    BY <1>1 DEF Typed
  <2> QED
    BY <1>2, <2>1, TaskKinds
<1>4. PICK id \in 1..MaxBuys, q \in Nat, c \in Nat :
         id = task[h].id /\ q = task[h].qty /\ c = task[h].price
  BY <1>3, PortfolioAssumption
<1>5. PICK new \in Row :
         /\ new = [id |-> id, symbol |-> task[h].symbol, qty |-> q,
                   avg |-> [num |-> c, den |-> 1], active |-> TRUE]
         /\ rows' = rows \cup {new}
  <2>1. [id |-> id, symbol |-> task[h].symbol, qty |-> q,
         avg |-> [num |-> c, den |-> 1], active |-> TRUE] \in Row
    BY <1>3, <1>4 DEF Row, Avg
  <2> QED
    BY <1>4, <2>1 DEF BuyInserts
<1>6. /\ id <= buys /\ booked[id] = [qty |-> 0, cost |-> 0]
      /\ \A p \in rows : p.id # id
      /\ \A g \in Handlers \ {h} : task[g].kind = "buy" => task[g].id # id
  BY <1>1, <1>2, <1>4 DEF Fresh
<1>7. /\ booked' \in [1..MaxBuys -> [qty : Nat, cost : Nat]]
      /\ booked'[id].qty = q /\ booked'[id].cost = q * c
      /\ \A i \in 1..MaxBuys \ {id} : booked'[i] = booked[i]
      /\ \A i \in 1..MaxBuys : booked[i].qty <= booked'[i].qty
  <2>1. /\ booked' \in [1..MaxBuys -> [qty : Nat, cost : Nat]]
        /\ booked'[id].qty = booked[id].qty + task[h].qty
        /\ booked'[id].cost = booked[id].cost + task[h].qty * task[h].price
        /\ \A i \in 1..MaxBuys \ {id} : booked'[i] = booked[i]
        /\ \A i \in 1..MaxBuys : booked[i].qty <= booked'[i].qty
    BY <1>1, <1>2, <1>3, <1>4, Booked
  <2> QED
    BY <1>4, <1>6, <2>1
<1>8. rows \subseteq Row /\ rows' \subseteq Row
  BY <1>1, <1>5 DEF Typed
<1>9. \A i \in 1..MaxBuys : \/ booked'[i] = booked[i]
                            \/ /\ i <= buys
                               /\ \A g \in Handlers \ {h} :
                                     task[g].kind = "buy" => task[g].id # i
  BY <1>6, <1>7
<1>10. \A p, r \in rows' : p.id = r.id => p = r
  <2>1. \A p, r \in rows : p.id = r.id => p = r
    BY <1>1 DEF Fresh
  <2>2. new.id = id
    BY <1>5
  <2>3. rows' = rows \cup {new}
    BY <1>5
  <2> QED
    BY <1>6, <2>1, <2>2, <2>3
<1>11. ASSUME NEW p \in rows'
       PROVE  /\ p.id <= buys /\ Sane(p)'
              /\ \A g \in Handlers \ {h} : task[g].kind = "buy" => task[g].id # p.id
  <2>1. CASE p = new
    <3>1. InRange(new.avg)
      <4>1. c * 1 <= c /\ c \in Prices
        BY <1>3, <1>4
      <4> QED
        BY <1>5, <4>1, PortfolioAssumption DEF InRange
    <3>2. new.qty <= booked'[new.id].qty
      BY <1>5, <1>7
    <3> QED
      BY <1>5, <1>6, <2>1, <3>1, <3>2 DEF Sane, InRange
  <2>2. CASE p # new
    <3>1. p \in rows /\ p \in Row /\ Sane(p)
      BY <1>1, <1>5, <1>8, <2>2 DEF AllSane
    <3>2. p.id # id /\ p.id \in 1..MaxBuys
      BY <1>6, <3>1 DEF Row
    <3>3. Sane(p)'
      BY <1>7, <3>1, <3>2 DEF Sane, InRange
    <3> QED
      BY <1>1, <3>1, <3>3 DEF Fresh
  <2> QED
    BY <2>1, <2>2
<1>12. rows' # {} => portfolio' = "present"
  BY <1>2
<1>13. ASSUME ~overlapped
       PROVE  /\ \A p \in rows' : Balanced(p)'
              /\ \A p, r \in rows' : (p.active /\ r.active /\ p.symbol = r.symbol) => p = r
  <2>1. {p \in rows : p.symbol = task[h].symbol /\ p.active} = {}
    BY <1>1, <1>2, <1>13 DEF Serial
  <2>2. \A p \in rows : Balanced(p)
    BY <1>1, <1>13 DEF Serial
  <2>3. ASSUME NEW p \in rows'
        PROVE  Balanced(p)'
    <3>1. CASE p = new
      BY <1>5, <1>7, <3>1 DEF Balanced
    <3>2. CASE p # new
      <4>1. p \in rows /\ p.id # id /\ p.id \in 1..MaxBuys
        BY <1>5, <1>6, <1>8, <3>2 DEF Row
      <4> QED
        BY <1>7, <2>2, <4>1 DEF Balanced
    <3> QED
      BY <3>1, <3>2
  <2>4. \A p, r \in rows' : (p.active /\ r.active /\ p.symbol = r.symbol) => p = r
    <3>1. \A p, r \in rows : (p.active /\ r.active /\ p.symbol = r.symbol) => p = r
      BY <1>1, <1>13 DEF Serial
    <3>2. \A p \in rows : p.active => p.symbol # task[h].symbol
      BY <2>1
    <3>3. new.symbol = task[h].symbol /\ rows' = rows \cup {new}
      BY <1>5
    <3> QED
      BY <3>1, <3>2, <3>3
  <2> QED
    BY <2>3, <2>4
<1>14. portfolio' \in {"absent", "present", "deleted"}
  BY <1>2
<1>15. Busy(h)
  BY <1>2 DEF Busy, Idle
<1> QED
  BY <1>2, <1>7, <1>8, <1>9, <1>10, <1>11, <1>12, <1>13, <1>14, <1>15, EndIInv

\* A close changes nothing of a position but whether it is active, and that only to FALSE.
LEMMA CloseWritesIInv ==
    ASSUME IInv, NEW h \in Handlers, CloseWrites(h)
    PROVE  IInv'
<1> DEFINE Closed(p) == IF p.id = task[h].id THEN [p EXCEPT !.active = FALSE] ELSE p
<1>1. Typed /\ Fresh /\ AllSane /\ NoOrphans /\ Serial
  BY DEF IInv, Base
<1>2. /\ task[h].kind = "close" /\ End(h)
      /\ portfolio' = portfolio /\ buys' = buys /\ booked' = booked
      /\ rows' = {Closed(p) : p \in rows}
  BY DEF CloseWrites
<1>3. rows \subseteq Row
  BY <1>1 DEF Typed
<1>4. \A p \in Row : /\ Closed(p) \in Row
                     /\ Closed(p).id = p.id /\ Closed(p).symbol = p.symbol
                     /\ Closed(p).qty = p.qty /\ Closed(p).avg = p.avg
                     /\ Closed(p).active => p.active
  BY DEF Row
<1> HIDE DEF Closed
<1>5. \A q \in rows' : \E p \in rows : /\ q = Closed(p) /\ q \in Row
                                       /\ q.id = p.id /\ q.symbol = p.symbol
                                       /\ q.qty = p.qty /\ q.avg = p.avg
                                       /\ q.active => p.active
  BY <1>2, <1>3, <1>4
<1>6. rows' \subseteq Row
  BY <1>5
<1>7. \A p, q \in rows' : p.id = q.id => p = q
  BY <1>1, <1>5 DEF Fresh
<1>8. ASSUME NEW q \in rows'
      PROVE  /\ q.id <= buys /\ Sane(q)'
             /\ \A g \in Handlers \ {h} : task[g].kind = "buy" => task[g].id # q.id
  <2>1. PICK p \in rows : q.id = p.id /\ q.qty = p.qty /\ q.avg = p.avg
    BY <1>5
  <2>2. Sane(p)
    BY <1>1 DEF AllSane
  <2>3. Sane(q)'
    BY <1>2, <2>1, <2>2 DEF Sane, InRange
  <2> QED
    BY <1>1, <2>1, <2>3 DEF Fresh
<1>9. rows' # {} => portfolio' = "present"
  BY <1>1, <1>2, <1>5 DEF NoOrphans
<1>10. ASSUME ~overlapped
       PROVE  /\ \A q \in rows' : Balanced(q)'
              /\ \A q, r \in rows' : (q.active /\ r.active /\ q.symbol = r.symbol) => q = r
  <2>1. \A p \in rows : Balanced(p)
    BY <1>1, <1>10 DEF Serial
  <2>2. \A q \in rows' : Balanced(q)'
    BY <1>2, <1>5, <2>1 DEF Balanced
  <2>3. \A p, r \in rows : (p.active /\ r.active /\ p.symbol = r.symbol) => p = r
    BY <1>1, <1>10 DEF Serial
  <2>4. ASSUME NEW q \in rows', NEW r \in rows', q.active, r.active, q.symbol = r.symbol
        PROVE  q = r
    <3>1. PICK p \in rows : q = Closed(p) /\ q.symbol = p.symbol /\ p.active
      BY <1>5, <2>4
    <3>2. PICK s \in rows : r = Closed(s) /\ r.symbol = s.symbol /\ s.active
      BY <1>5, <2>4
    <3> QED
      BY <2>3, <2>4, <3>1, <3>2
  <2> QED
    BY <2>2, <2>4
<1>11. portfolio' \in {"absent", "present", "deleted"} /\ Busy(h)
  BY <1>1, <1>2 DEF Typed, Busy, Idle
<1>12. /\ booked' \in [1..MaxBuys -> [qty : Nat, cost : Nat]]
       /\ \A i \in 1..MaxBuys : booked'[i] = booked[i] /\ booked[i].qty <= booked'[i].qty
  BY <1>1, <1>2 DEF Typed
<1> QED
  BY <1>2, <1>6, <1>7, <1>8, <1>9, <1>10, <1>11, <1>12, EndIInv

\* A delete takes all positions with the portfolio, or nothing.
LEMMA DeleteCommitsIInv ==
    ASSUME IInv, NEW h \in Handlers, DeleteCommits(h)
    PROVE  IInv'
<1>1. Typed /\ Fresh /\ AllSane /\ NoOrphans /\ Serial
  BY DEF IInv, Base
<1>2. /\ task[h].kind = "purge" /\ End(h) /\ buys' = buys /\ booked' = booked
      /\ (portfolio' = "deleted" /\ rows' = {}) \/ UNCHANGED <<portfolio, rows>>
  BY DEF DeleteCommits
<1>3. Busy(h)
  BY <1>2 DEF Busy, Idle
<1>4. CASE portfolio' = "deleted" /\ rows' = {}
  <2>1. /\ booked' \in [1..MaxBuys -> [qty : Nat, cost : Nat]]
        /\ \A i \in 1..MaxBuys : booked'[i] = booked[i] /\ booked[i].qty <= booked'[i].qty
    BY <1>1, <1>2 DEF Typed
  <2> QED
    BY <1>2, <1>3, <1>4, <2>1, EndIInv
<1>5. CASE UNCHANGED <<portfolio, rows>>
  <2>1. /\ task' \in [Handlers -> Task] /\ task'[h].kind # "buy"
        /\ \A g \in Handlers \ {h} : task'[g] = task[g]
        /\ overlapped' \in BOOLEAN /\ overlapped' = overlapped
    BY <1>1, <1>2, Ended DEF Typed, Idle
  <2> QED
    BY <1>2, <1>3, <1>5, <2>1, OthersIInv
<1> QED
  BY <1>2, <1>4, <1>5

\* The steps that change no row.
LEMMA QuietIInv ==
    ASSUME IInv, NEW h \in Handlers,
           \/ BuyFails(h) \/ DeleteReads(h) \/ DeletePositions(h)
           \/ \E id \in 1..MaxBuys : CloseReads(h, id)
    PROVE  IInv'
<1>1. Typed
  BY DEF IInv, Base
<1>2. CASE BuyFails(h)
  <2>1. End(h) /\ UNCHANGED <<portfolio, rows, buys, booked>> /\ Busy(h)
    BY <1>2 DEF BuyFails, Busy, Idle
  <2>2. /\ task' \in [Handlers -> Task] /\ task'[h].kind # "buy"
        /\ \A g \in Handlers \ {h} : task'[g] = task[g]
        /\ overlapped' \in BOOLEAN /\ overlapped' = overlapped
    BY <1>1, <2>1, Ended DEF Typed, Idle
  <2> QED
    BY <2>1, <2>2, OthersIInv
<1>3. ASSUME NEW t \in Task, t.kind # "buy", Begin(h, t),
             UNCHANGED <<portfolio, rows, buys, booked>>
      PROVE  IInv'
  BY <1>1, <1>3, Begun, OthersIInv
<1>4. CASE DeleteReads(h)
  <2>1. [kind |-> "delete"] \in Task
    BY DEF Task
  <2> QED
    BY <1>3, <1>4, <2>1 DEF DeleteReads
<1>5. ASSUME NEW id \in 1..MaxBuys, CloseReads(h, id)
      PROVE  IInv'
  <2>1. [kind |-> "close", id |-> id] \in Task
    BY DEF Task
  <2> QED
    BY <1>3, <1>5, <2>1 DEF CloseReads
<1>6. CASE DeletePositions(h)
  <2>1. PICK t \in Task : t.kind = "purge" /\ task' = [task EXCEPT ![h] = t]
    <3>1. {p.id : p \in rows} \subseteq 1..MaxBuys
      BY <1>1 DEF Typed, Row
    <3>2. [kind |-> "purge", gone |-> {p.id : p \in rows}] \in Task
      BY <3>1 DEF Task
    <3> QED
      BY <1>6, <3>2 DEF DeletePositions
  <2>2. task' \in [Handlers -> Task] /\ task'[h] = t
        /\ \A g \in Handlers \ {h} : task'[g] = task[g]
    BY <1>1, <2>1 DEF Typed
  <2>3. Busy(h) /\ UNCHANGED <<portfolio, rows, buys, booked, overlapped>>
    BY <1>6 DEF DeletePositions, Busy, Idle
  <2> QED
    BY <1>1, <2>1, <2>2, <2>3, OthersIInv DEF Typed
<1> QED
  BY <1>2, <1>4, <1>5, <1>6

\* The portfolio is created before there are positions.
LEMMA CreateIInv == IInv /\ CreatePortfolio => IInv'
<1> SUFFICES ASSUME IInv, CreatePortfolio PROVE IInv'
  OBVIOUS
<1>1. Typed /\ Fresh /\ AllSane /\ NoOrphans /\ Serial
  BY DEF IInv, Base
<1>2. portfolio = "absent" /\ portfolio' = "present" /\ UNCHANGED <<rows, buys, task, booked, overlapped>>
  BY DEF CreatePortfolio
<1>3. Typed' /\ Fresh' /\ NoOrphans'
  BY <1>1, <1>2 DEF Typed, Fresh, NoOrphans
<1>4. AllSane'
  BY <1>1, <1>2 DEF AllSane, Sane, InRange
<1>5. Serial'
  BY <1>1, <1>2 DEF Serial, Busy, Balanced
<1> QED
  BY <1>3, <1>4, <1>5 DEF IInv, Base

\* Every step preserves the invariant.
LEMMA NextIInv == IInv /\ [Next]_vars => IInv'
<1> SUFFICES ASSUME IInv, [Next]_vars PROVE IInv'
  OBVIOUS
<1>1. CASE CreatePortfolio
  BY <1>1, CreateIInv
<1>2. ASSUME NEW h \in Handlers, Continue(h)
      PROVE  IInv'
  BY <1>2, BuyUpdatesIInv, BuyInsertsIInv, CloseWritesIInv, DeleteCommitsIInv, QuietIInv
     DEF Continue
<1>3. ASSUME NEW h \in Handlers, DeleteReads(h) \/ \E id \in 1..MaxBuys : CloseReads(h, id)
      PROVE  IInv'
  BY <1>3, QuietIInv
<1>4. ASSUME NEW h \in Handlers, NEW s \in Symbols, NEW q \in Quantities,
             NEW price \in Prices, BuyReads(h, s, q, price)
      PROVE  IInv'
  BY <1>4, BuyReadsIInv
<1>5. CASE UNCHANGED vars
  <2>1. Typed /\ Fresh /\ AllSane /\ NoOrphans /\ Serial
    BY DEF IInv, Base
  <2>2. UNCHANGED <<portfolio, rows, buys, task, booked, overlapped>>
    BY <1>5 DEF vars
  <2>3. Typed' /\ Fresh' /\ NoOrphans'
    BY <2>1, <2>2 DEF Typed, Fresh, NoOrphans
  <2>4. AllSane'
    BY <2>1, <2>2 DEF AllSane, Sane, InRange
  <2>5. Serial'
    BY <2>1, <2>2 DEF Serial, Busy, Balanced
  <2> QED
    BY <2>3, <2>4, <2>5 DEF IInv, Base
<1> QED
  BY <1>1, <1>2, <1>3, <1>4, <1>5 DEF Next

LEMMA Inductive == Spec => []IInv
BY InitIInv, NextIInv, PTL DEF Spec
-----------------------------------------------------------------------------
\* Every row, request and book is of its kind, and no two rows have one id
\* (models/positions.py).
THEOREM TypeCorrect == Spec => []TypeOK
<1>1. IInv => TypeOK
  <2> SUFFICES ASSUME IInv PROVE TypeOK
    OBVIOUS
  <2>1. Typed /\ Fresh
    BY DEF IInv, Base
  <2>2. \A h \in Handlers : task[h].kind \in {"idle", "buy", "close", "delete", "purge"}
    BY <2>1, TaskKinds DEF Typed
  <2> QED
    BY <2>1, <2>2 DEF Typed, Fresh, TypeOK
<1> QED
  BY <1>1, Inductive, PTL

\* However buys, closes and deletes interleave, a position never holds more than was
\* bought of it, and its average cost is between the prices (add_or_update_position).
THEOREM WithinBounds == Spec => []WithinWhatWasBought
<1>1. IInv => WithinWhatWasBought
  BY DEF IInv, Base, AllSane, Sane, InRange, WithinWhatWasBought
<1> QED
  BY <1>1, Inductive, PTL

\* Without overlapping requests every position is the sum of its buys, and a symbol has
\* one active position (add_or_update_position, close_position).
THEOREM BooksBalance == Spec => []SerialBooksBalance
<1>1. IInv => SerialBooksBalance
  <2> SUFFICES ASSUME IInv, ~overlapped
               PROVE  /\ \A p \in rows : Balanced(p)
                      /\ \A s \in Symbols : Cardinality(Open(s)) <= 1
    BY DEF SerialBooksBalance, Balanced
  <2>1. /\ \A p \in rows : Balanced(p)
        /\ \A p, q \in rows : (p.active /\ q.active /\ p.symbol = q.symbol) => p = q
    BY DEF IInv, Serial
  <2>2. ASSUME NEW s \in Symbols
        PROVE  Cardinality(Open(s)) <= 1
    <3>1. \A p, q \in Open(s) : p = q
      BY <2>1 DEF Open
    <3>2. CASE Open(s) = {}
      BY <3>2, FS_EmptySet
    <3>3. CASE Open(s) # {}
      <4>1. PICK p : Open(s) = {p}
        BY <3>1, <3>3
      <4>2. Cardinality({p}) = 1
        BY FS_Singleton, Zenon
      <4>3. Cardinality(Open(s)) = 1
        BY <4>1, <4>2
      <4> QED
        BY <4>3
    <3> QED
      BY <3>2, <3>3
  <2> QED
    BY <2>1, <2>2
<1> QED
  BY <1>1, Inductive, PTL

\* No position is left without its portfolio, whatever is bought while the portfolio is
\* being deleted (delete_portfolio).
THEOREM PortfolioOutlivesPositions == Spec => []NoOrphans
<1>1. IInv => NoOrphans
  BY DEF IInv, Base
<1> QED
  BY <1>1, Inductive, PTL

\* No buy that read a position before it was closed brings it back (close_position,
\* add_or_update_position).
THEOREM ClosedForEver == Spec => ClosedStaysClosed
<1> DEFINE Kept == \A p \in rows, q \in rows' : (p.id = q.id /\ ~p.active) => ~q.active
<1>1. ASSUME IInv, [Next]_vars PROVE [Kept]_vars
  <2>1. Typed /\ Fresh /\ rows \subseteq Row
    BY <1>1 DEF IInv, Base, Typed
  <2>2. CASE rows' = rows \/ rows' = {}
    BY <2>1, <2>2 DEF Fresh
  <2>3. ASSUME NEW h \in Handlers, BuyUpdates(h) PROVE Kept
    <3>1. PICK p \in task[h].seen, row \in rows :
             rows' = (rows \ {row}) \cup {Raised(row, p, task[h])}
      BY <2>3 DEF BuyUpdates
    <3>2. Raised(row, p, task[h]).id = row.id /\ Raised(row, p, task[h]).active = row.active
      BY <2>1 DEF Raised, Row
    <3> QED
      BY <2>1, <3>1, <3>2 DEF Fresh
  <2>4. ASSUME NEW h \in Handlers, BuyInserts(h) PROVE Kept
    <3>1. PICK new : new.id = task[h].id /\ rows' = rows \cup {new}
      BY <2>4 DEF BuyInserts
    <3>2. \A p \in rows : p.id # task[h].id
      BY <2>1, <2>4 DEF BuyInserts, Fresh
    <3> QED
      BY <2>1, <3>1, <3>2 DEF Fresh
  <2>5. ASSUME NEW h \in Handlers, CloseWrites(h) PROVE Kept
    <3> SUFFICES ASSUME NEW p \in rows, NEW q \in rows', p.id = q.id, ~p.active
                 PROVE  ~q.active
      OBVIOUS
    <3>1. PICK r \in rows : q = IF r.id = task[h].id THEN [r EXCEPT !.active = FALSE] ELSE r
      BY <2>5 DEF CloseWrites
    <3>2. r \in Row
      BY <2>1
    <3>3. q.id = r.id /\ (q.active => r.active)
      BY <3>1, <3>2 DEF Row
    <3>4. r = p
      BY <2>1, <3>3 DEF Fresh
    <3> QED
      BY <3>3, <3>4
  <2> QED
    BY <1>1, <2>2, <2>3, <2>4, <2>5
       DEF Next, Continue, CreatePortfolio, BuyReads, BuyFails, CloseReads, DeleteReads,
           DeletePositions, DeleteCommits, vars
<1> QED
  BY <1>1, Inductive, PTL DEF Spec, ClosedStaysClosed
=============================================================================
