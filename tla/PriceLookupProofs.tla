------------------------- MODULE PriceLookupProofs -------------------------
(***************************************************************************)
(* What holds of the price lookup for any number of requests, symbols and  *)
(* fetches, any freshness window and any faults.                           *)
(***************************************************************************)
EXTENDS PriceLookup, TLAPS

LEMMA Spent ==
    ASSUME TypeOK, NEW f \in Faults, Spend(f)
    PROVE  /\ spent' \in [Faults -> Nat]
           /\ spent'[f] > 0
           /\ \A g \in Faults : spent'[g] >= spent[g]
BY DEF TypeOK, Spend

\* A request that fails is idle and has nothing in hand.
LEMMA Failed ==
    ASSUME TypeOK, NEW r \in Requests, Fail(r)
    PROVE  /\ pc' \in [Requests -> PC] /\ pc'[r] = "idle"
           /\ since' \in [Requests -> Nat] /\ since'[r] = 0
           /\ tries' \in [Requests -> 0..MaxRetries - 1]
           /\ got' \in [Requests -> Price] /\ got'[r] = NoPrice
           /\ name' = name
           /\ \A q \in Requests \ {r} : /\ pc'[q] = pc[q] /\ since'[q] = since[q]
                                        /\ got'[q] = got[q]
BY LookupAssumption DEF TypeOK, Fail, GoTo, PC, Price, NoPrice

\* What a request writes to the cache.
LEMMA Cached ==
    ASSUME TypeOK, NEW r \in Requests, WriteToCache(r)
    PROVE  /\ cache' \in [Keys -> Entry]
           /\ CacheKey[name[r]] \in Keys
           /\ cache'[CacheKey[name[r]]] = [price |-> got[r], until |-> now + Freshness]
           /\ \A k \in Keys \ {CacheKey[name[r]]} : cache'[k] = cache[k]
<1>1. CacheKey[name[r]] \in Keys
  BY DEF TypeOK, Keys
<1>2. [price |-> got[r], until |-> now + Freshness] \in Entry
  <2>1. now + Freshness \in Int
    BY LookupAssumption DEF TypeOK
  <2> QED
    BY <2>1 DEF TypeOK, Entry
<1> QED
  BY <1>1, <1>2 DEF TypeOK, WriteToCache

\* What a price point adds to the table.
LEMMA Added ==
    ASSUME TypeOK, NEW r \in Requests, AddRow(r)
    PROVE  /\ rows' \subseteq Row
           /\ \E row \in Row : /\ rows' = rows \cup {row}
                               /\ row = [symbol |-> RowSymbol[name[r]],
                                         ts |-> got[r].ts, raw |-> got[r].raw]
<1>1. [symbol |-> RowSymbol[name[r]], ts |-> got[r].ts, raw |-> got[r].raw] \in Row
  BY LookupAssumption DEF TypeOK, Row, Price
<1> QED
  BY <1>1 DEF TypeOK, AddRow
-----------------------------------------------------------------------------
LEMMA InitTypeOK == Init => TypeOK
<1> SUFFICES ASSUME Init PROVE TypeOK
  OBVIOUS
<1>1. cache \in [Keys -> Entry]
  BY DEF Init, NoEntry, NoPrice, Entry, Price
<1>2. sent \in Seq(Nat)
  BY DEF Init
<1>3. tries \in [Requests -> 0..MaxRetries - 1]
  BY LookupAssumption DEF Init
<1>4. got \in [Requests -> Price]
  BY DEF Init, NoPrice, Price
<1> QED
  BY <1>1, <1>2, <1>3, <1>4 DEF Init, TypeOK, PC

LEMMA NextTypeOK == TypeOK /\ [Next]_vars => TypeOK'
<1> SUFFICES ASSUME TypeOK, [Next]_vars PROVE TypeOK'
  OBVIOUS
<1> USE DEF store, events, request
<1>1. ASSUME NEW r \in Requests, NEW n \in Names, Ask(r, n) PROVE TypeOK'
  BY <1>1, LookupAssumption DEF TypeOK, Ask, GoTo, PC, Price, NoPrice
<1>2. ASSUME NEW r \in Requests, CacheHit(r) PROVE TypeOK'
  <2>1. PICK p \in Live(r) : got' = [got EXCEPT ![r] = p]
    BY <1>2 DEF CacheHit
  <2>2. p \in Price
    <3>1. cache[CacheKey[name[r]]] \in Entry
      BY DEF TypeOK, Keys
    <3>2. p = cache[CacheKey[name[r]]].price
      BY <2>1 DEF Live
    <3> QED
      BY <3>1, <3>2 DEF Entry
  <2> QED
    BY <1>2, <2>1, <2>2 DEF TypeOK, CacheHit, Step, GoTo, PC
<1>3. ASSUME NEW r \in Requests, CacheMiss(r) \/ DbMiss(r) PROVE TypeOK'
  BY <1>3 DEF TypeOK, CacheMiss, DbMiss, Step, GoTo, PC
<1>4. ASSUME NEW r \in Requests, CacheRaises(r) \/ FetchFails(r) \/ NoPartition(r) PROVE TypeOK'
  BY <1>4, Failed DEF TypeOK, CacheRaises, FetchFails, NoPartition
<1>5. ASSUME NEW r \in Requests, DbHit(r) PROVE TypeOK'
  <2>1. PICK p \in Recent(r) :
           got' = [got EXCEPT ![r] = [ts |-> p.ts, aware |-> TRUE, raw |-> p.raw]]
    BY <1>5 DEF DbHit
  <2>2. p.ts \in Int /\ p.raw \in Nat
    BY <2>1 DEF Recent, TypeOK, Row
  <2>3. got' \in [Requests -> Price]
    BY <2>1, <2>2 DEF TypeOK, Price
  <2> QED
    BY <1>5, <2>3 DEF TypeOK, DbHit, Step, GoTo, PC
<1>6. ASSUME NEW r \in Requests, CacheRow(r) \/ CacheNew(r) PROVE TypeOK'
  BY <1>6, Cached DEF TypeOK, CacheRow, CacheNew, Step, GoTo, PC
<1>7. ASSUME NEW r \in Requests, NEW age \in QuoteAges, Fetch(r, age) PROVE TypeOK'
  <2>1. got' \in [Requests -> Price]
    BY <1>7, LookupAssumption DEF TypeOK, Fetch, Price
  <2>2. spent' \in [Faults -> Nat]
    BY <1>7, Spent DEF TypeOK, Fetch, Faults
  <2> QED
    BY <1>7, <2>1, <2>2, LookupAssumption DEF TypeOK, Fetch, Step, GoTo, PC
<1>8. ASSUME NEW r \in Requests, FetchAgain(r) PROVE TypeOK'
  BY <1>8, LookupAssumption DEF TypeOK, FetchAgain, Step, GoTo, PC
<1>9. ASSUME NEW r \in Requests, InsertRaw(r) PROVE TypeOK'
  <2>1. got' \in [Requests -> Price]
    <3>1. [got[r] EXCEPT !.raw = raws + 1] \in Price
      <4>1. got[r] \in Price /\ raws + 1 \in Nat
        BY DEF TypeOK
      <4>2. \A p \in Price, n \in Nat : [p EXCEPT !.raw = n] \in Price
        BY DEF Price
      <4> QED
        BY <4>1, <4>2
    <3>2. got' = [got EXCEPT ![r] = [got[r] EXCEPT !.raw = raws + 1]]
      BY <1>9 DEF InsertRaw
    <3> QED
      BY <3>1, <3>2 DEF TypeOK
  <2> QED
    BY <1>9, <2>1 DEF TypeOK, InsertRaw, Step, GoTo, PC
<1>10. ASSUME NEW r \in Requests, InsertPoint(r) PROVE TypeOK'
  BY <1>10, Added DEF TypeOK, InsertPoint, Step, GoTo, PC
<1>11. ASSUME NEW r \in Requests, Publish(r) \/ BufferFull(r) PROVE TypeOK'
  <2>1. got[r].raw \in Nat
    BY DEF TypeOK, Price
  <2> QED
    <3>1. CASE Publish(r)
      <4>1. sent' \in Seq(Nat) /\ produced' \in Nat
        BY <2>1, <3>1 DEF TypeOK, Publish
      <4>2. pc' \in [Requests -> PC]
        BY <3>1 DEF TypeOK, Publish, Step, GoTo, PC
      <4> QED
        BY <3>1, <4>1, <4>2 DEF TypeOK, Publish
    <3>2. CASE BufferFull(r)
      BY <3>2 DEF TypeOK, BufferFull, Step, GoTo, PC
    <3> QED
      BY <1>11, <3>1, <3>2
<1>12. ASSUME NEW r \in Requests, RedisRaises(r) PROVE TypeOK'
  <2>1. cache' \in [Keys -> Entry]
    BY <1>12, Cached DEF TypeOK, RedisRaises
  <2> QED
    BY <1>12, <2>1, Failed, Spent DEF TypeOK, RedisRaises, Faults
<1>13. ASSUME NEW r \in Requests, DbRaises(r) PROVE TypeOK'
  <2>1. rows' \subseteq Row /\ raws' \in Nat
    BY <1>13, Added DEF TypeOK, DbRaises
  <2> QED
    BY <1>13, <2>1, Failed, Spent DEF TypeOK, DbRaises, Faults
<1>14. CASE RedisLoses
  <2>1. cache' \in [Keys -> Entry]
    BY <1>14 DEF RedisLoses, NoEntry, NoPrice, Entry, Price
  <2> QED
    BY <1>14, <2>1, Spent DEF TypeOK, RedisLoses, Faults
<1>15. CASE Crash
  <2>1. PICK n \in 0..Len(sent) : sent' = SubSeq(sent, 1, n)
    BY <1>15 DEF Crash
  <2>2. sent' \in Seq(Nat)
    BY <2>1 DEF TypeOK
  <2>3. /\ pc' \in [Requests -> PC] /\ since' \in [Requests -> Nat]
        /\ tries' \in [Requests -> 0..MaxRetries - 1] /\ got' \in [Requests -> Price]
    BY <1>15, LookupAssumption DEF Crash, PC, Price, NoPrice
  <2>4. spent' \in [Faults -> Nat]
    BY <1>15, Spent DEF Crash, Faults
  <2> QED
    BY <1>15, <2>2, <2>3, <2>4 DEF TypeOK, Crash
<1>16. CASE Tick
  BY <1>16 DEF TypeOK, Tick
<1>17. CASE UNCHANGED vars
  BY <1>17 DEF TypeOK, vars
<1> QED
  BY <1>1, <1>2, <1>3, <1>4, <1>5, <1>6, <1>7, <1>8, <1>9, <1>10, <1>11, <1>12, <1>13,
     <1>14, <1>15, <1>16, <1>17 DEF Next, Progress

\* Every request, row, entry and event is of its kind, and no provider is tried more
\* often than MAX_RETRIES (PriceService, and the providers' retry loops).
THEOREM TypeCorrect == Spec => []TypeOK
BY InitTypeOK, NextTypeOK, PTL DEF Spec
-----------------------------------------------------------------------------
\* A request begins now at the latest, and what it is served from the cache or the table
\* was in the freshness window when it was read.
Fresh ==
    \A r \in Requests :
        /\ since[r] <= now
        /\ pc[r] \in {"cached", "cacheRow", "found"} => got[r].ts >= since[r] - Freshness

LEMMA InitFresh == Init => Fresh
BY DEF Init, Fresh

LEMMA NextFresh == TypeOK /\ TypeOK' /\ Fresh /\ [Next]_vars => Fresh'
<1> SUFFICES ASSUME TypeOK, TypeOK', Fresh, [Next]_vars PROVE Fresh'
  OBVIOUS
<1> USE DEF store, events, request
<1>0. /\ now \in Nat /\ now' \in Nat /\ Freshness \in Nat
      /\ \A q \in Requests : since[q] \in Nat /\ got[q].ts \in Int
  BY LookupAssumption DEF TypeOK, Price
<1>1. ASSUME NEW r \in Requests, NEW n \in Names, Ask(r, n) PROVE Fresh'
  BY <1>0, <1>1 DEF TypeOK, Fresh, Ask, GoTo
<1>2. ASSUME NEW r \in Requests, CacheHit(r) PROVE Fresh'
  <2>1. PICK p \in Live(r) : now - p.ts < Freshness /\ got' = [got EXCEPT ![r] = p]
    BY <1>2 DEF CacheHit
  <2>2. p.ts \in Int
    BY <2>1 DEF Live, TypeOK, Keys, Entry, Price
  <2>3. p.ts >= since[r] - Freshness
    BY <1>0, <2>1, <2>2 DEF Fresh
  <2> QED
    BY <1>0, <1>2, <2>1, <2>3 DEF TypeOK, Fresh, CacheHit, Step, GoTo
<1>3. ASSUME NEW r \in Requests,
             \/ CacheMiss(r) \/ DbMiss(r) \/ FetchAgain(r) \/ CacheRow(r) \/ CacheNew(r)
             \/ Publish(r) \/ BufferFull(r) \/ InsertPoint(r)
      PROVE  Fresh'
  <2>1. UNCHANGED <<now, since, got>>
    BY <1>3 DEF CacheMiss, DbMiss, FetchAgain, CacheRow, CacheNew, Publish, BufferFull, InsertPoint
  <2>2. /\ pc'[r] \in {"cached", "cacheRow", "found"} => pc[r] = "cacheRow"
        /\ \A q \in Requests \ {r} : pc'[q] = pc[q]
    BY <1>3 DEF TypeOK, CacheMiss, DbMiss, FetchAgain, CacheRow, CacheNew, Publish, BufferFull,
                InsertPoint, Step, GoTo
  <2> QED
    BY <2>1, <2>2 DEF Fresh
<1>4. ASSUME NEW r \in Requests,
             \/ CacheRaises(r) \/ FetchFails(r) \/ NoPartition(r) \/ RedisRaises(r) \/ DbRaises(r)
      PROVE  Fresh'
  <2>1. now' = now /\ Fail(r)
    BY <1>4 DEF CacheRaises, FetchFails, NoPartition, RedisRaises, DbRaises
  <2> QED
    BY <1>0, <2>1, Failed DEF Fresh
<1>5. ASSUME NEW r \in Requests, DbHit(r) PROVE Fresh'
  <2>1. PICK p \in Recent(r) :
           got' = [got EXCEPT ![r] = [ts |-> p.ts, aware |-> TRUE, raw |-> p.raw]]
    BY <1>5 DEF DbHit
  <2>2. p.ts \in Int /\ p.ts >= now - Freshness
    BY <2>1 DEF Recent, TypeOK, Row
  <2>3. p.ts >= since[r] - Freshness
    BY <1>0, <2>2 DEF Fresh
  <2>4. got'[r].ts = p.ts /\ \A q \in Requests \ {r} : got'[q] = got[q]
    BY <2>1 DEF TypeOK
  <2> QED
    BY <1>0, <1>5, <2>3, <2>4 DEF TypeOK, Fresh, DbHit, Step, GoTo
<1>6. ASSUME NEW r \in Requests, InsertRaw(r) \/ \E age \in QuoteAges : Fetch(r, age)
      PROVE  Fresh'
  <2>1. UNCHANGED <<now, since>>
    BY <1>6 DEF InsertRaw, Fetch
  <2>2. /\ pc'[r] \in {"raw", "point"}
        /\ \A q \in Requests \ {r} : pc'[q] = pc[q] /\ got'[q] = got[q]
    BY <1>6 DEF TypeOK, InsertRaw, Fetch, Step, GoTo
  <2> QED
    BY <2>1, <2>2 DEF Fresh
<1>7. CASE Crash
  BY <1>0, <1>7 DEF Fresh, Crash
<1>8. CASE RedisLoses \/ Tick \/ UNCHANGED vars
  <2>1. now' >= now /\ UNCHANGED <<pc, since, got>>
    BY <1>0, <1>8 DEF RedisLoses, Tick, vars
  <2> QED
    BY <1>0, <2>1 DEF Fresh
<1> QED
  BY <1>1, <1>2, <1>3, <1>4, <1>5, <1>6, <1>7, <1>8 DEF Next, Progress

\* A price that was not fetched for the request was at most Freshness old when the request
\* began (_get_from_cache, _get_from_db).
THEOREM Freshly == Spec => []ServedFresh
<1>1. Fresh => ServedFresh
  BY DEF Fresh, ServedFresh
<1> QED
  BY <1>1, InitTypeOK, NextTypeOK, InitFresh, NextFresh, PTL DEF Spec
-----------------------------------------------------------------------------
\* The price p of the symbol with key k has a row among those of table.
StoredIn(table, p, k) ==
    \E row \in table : row.raw = p.raw /\ row.ts = p.ts /\ CacheKey[row.symbol] = k

\* What is in hand after a write or a read of the table, and what is cached, is in it.
Holding == {"cacheRow", "cacheNew", "publish"} \cup Answered

Stored ==
    /\ \A r \in Requests : pc[r] \in Holding => StoredIn(rows, got[r], CacheKey[name[r]])
    /\ \A k \in Keys : cache[k] # NoEntry => StoredIn(rows, cache[k].price, k)

LEMMA InitStored == Init => Stored
BY DEF Init, Stored, Holding, Answered, Keys

\* It is enough to look at the request that moves and at the entries it writes.
LEMMA StoredStep ==
    ASSUME Stored, rows \subseteq rows',
           \A q \in Requests :
              \/ pc'[q] \notin Holding
              \/ StoredIn(rows', got'[q], CacheKey[name'[q]])
              \/ pc[q] \in Holding /\ got'[q] = got[q] /\ name'[q] = name[q],
           \A k \in Keys :
              \/ cache'[k] = cache[k]
              \/ cache'[k] = NoEntry
              \/ StoredIn(rows, cache'[k].price, k)
    PROVE  Stored'
<1>1. \A p, k : StoredIn(rows, p, k) => StoredIn(rows', p, k)
  BY DEF StoredIn
<1>2. \A q \in Requests : pc'[q] \in Holding => StoredIn(rows', got'[q], CacheKey[name'[q]])
  <2> TAKE q \in Requests
  <2> HAVE pc'[q] \in Holding
  <2>1. CASE StoredIn(rows', got'[q], CacheKey[name'[q]])
    BY <2>1
  <2>2. CASE pc[q] \in Holding /\ got'[q] = got[q] /\ name'[q] = name[q]
    <3>1. StoredIn(rows, got[q], CacheKey[name[q]])
      BY <2>2 DEF Stored
    <3>2. StoredIn(rows', got[q], CacheKey[name[q]])
      BY <1>1, <3>1
    <3> QED
      BY <2>2, <3>2
  <2> QED
    BY <2>1, <2>2
<1>3. \A k \in Keys : cache'[k] # NoEntry => StoredIn(rows', cache'[k].price, k)
  <2> TAKE k \in Keys
  <2> HAVE cache'[k] # NoEntry
  <2>1. CASE cache'[k] = cache[k]
    <3>1. StoredIn(rows, cache[k].price, k)
      BY <2>1 DEF Stored
    <3>2. StoredIn(rows', cache[k].price, k)
      BY <1>1, <3>1
    <3> QED
      BY <2>1, <3>2
  <2>2. CASE StoredIn(rows, cache'[k].price, k)
    BY <1>1, <2>2
  <2> QED
    BY <2>1, <2>2
<1> QED
  BY <1>2, <1>3 DEF Stored

LEMMA NextStored == TypeOK /\ Stored /\ [Next]_vars => Stored'
<1> SUFFICES ASSUME TypeOK, Stored, [Next]_vars PROVE Stored'
  OBVIOUS
<1> USE DEF store, events, request
<1>1. ASSUME NEW r \in Requests, NEW n \in Names, Ask(r, n) PROVE Stored'
  <2>1. pc'[r] \notin Holding
    BY <1>1 DEF TypeOK, Ask, GoTo, Holding, Answered
  <2>2. \A q \in Requests \ {r} : pc'[q] = pc[q] /\ got'[q] = got[q] /\ name'[q] = name[q]
    BY <1>1 DEF TypeOK, Ask, GoTo
  <2> QED
    BY <1>1, <2>1, <2>2, StoredStep DEF Ask
\* Steps that do not bring a request to hold a price, and leave the others and the cache.
<1>2. ASSUME NEW r \in Requests, rows \subseteq rows', UNCHANGED <<cache, name>>,
             pc'[r] \notin Holding,
             \A q \in Requests \ {r} : pc'[q] = pc[q] /\ got'[q] = got[q]
      PROVE  Stored'
  BY <1>2, StoredStep
<1>3. ASSUME NEW r \in Requests,
             CacheRaises(r) \/ FetchFails(r) \/ NoPartition(r) \/ DbRaises(r)
      PROVE  Stored'
  <2>1. Fail(r) /\ UNCHANGED cache
    BY <1>3 DEF CacheRaises, FetchFails, NoPartition, DbRaises
  <2>2. rows \subseteq rows'
    BY <1>3 DEF CacheRaises, FetchFails, NoPartition, DbRaises, AddRow
  <2>3. pc'[r] \notin Holding /\ name' = name
    BY <2>1, Failed DEF Holding, Answered
  <2>4. \A q \in Requests \ {r} : pc'[q] = pc[q] /\ got'[q] = got[q]
    BY <2>1, Failed
  <2> QED
    BY <1>2, <2>1, <2>2, <2>3, <2>4
<1>4. ASSUME NEW r \in Requests,
             \/ CacheMiss(r) \/ DbMiss(r) \/ FetchAgain(r) \/ InsertRaw(r)
             \/ \E age \in QuoteAges : Fetch(r, age)
      PROVE  Stored'
  <2>1. pc'[r] \in {"db", "api", "raw", "point"} /\ UNCHANGED <<cache, rows, name>>
    BY <1>4 DEF TypeOK, CacheMiss, DbMiss, FetchAgain, InsertRaw, Fetch, Step, GoTo
  <2>2. \A q \in Requests \ {r} : pc'[q] = pc[q] /\ got'[q] = got[q]
    BY <1>4 DEF TypeOK, CacheMiss, DbMiss, FetchAgain, InsertRaw, Fetch, Step, GoTo
  <2>3. pc'[r] \notin Holding
    BY <2>1 DEF Holding, Answered
  <2> QED
    BY <1>2, <2>1, <2>2, <2>3
<1>5. ASSUME NEW r \in Requests, CacheHit(r) PROVE Stored'
  <2>1. PICK p \in Live(r) : got' = [got EXCEPT ![r] = p]
    BY <1>5 DEF CacheHit
  <2> DEFINE k == CacheKey[name[r]]
  <2>2. k \in Keys /\ now < cache[k].until /\ p = cache[k].price
    BY <2>1 DEF Live, TypeOK, Keys
  <2>3. cache[k] # NoEntry
    BY <2>2 DEF NoEntry, TypeOK
  <2>4. StoredIn(rows, p, k)
    BY <2>2, <2>3 DEF Stored
  <2>5. /\ got'[r] = p /\ UNCHANGED <<cache, rows, name>>
        /\ \A q \in Requests \ {r} : pc'[q] = pc[q] /\ got'[q] = got[q]
    BY <1>5, <2>1 DEF TypeOK, CacheHit, Step, GoTo
  <2> HIDE DEF k
  <2>6. StoredIn(rows', got'[r], CacheKey[name'[r]])
    BY <2>4, <2>5 DEF k
  <2> QED
    BY <2>5, <2>6, StoredStep
<1>6. ASSUME NEW r \in Requests, DbHit(r) PROVE Stored'
  <2>1. PICK p \in Recent(r) :
           got' = [got EXCEPT ![r] = [ts |-> p.ts, aware |-> TRUE, raw |-> p.raw]]
    BY <1>6 DEF DbHit
  <2>2. /\ got'[r] = [ts |-> p.ts, aware |-> TRUE, raw |-> p.raw]
        /\ UNCHANGED <<cache, rows, name>>
        /\ \A q \in Requests \ {r} : pc'[q] = pc[q] /\ got'[q] = got[q]
    BY <1>6, <2>1 DEF TypeOK, DbHit, Step, GoTo
  <2>3. p \in rows /\ p.symbol = name[r]
    BY <2>1 DEF Recent
  <2>4. StoredIn(rows', got'[r], CacheKey[name'[r]])
    BY <2>2, <2>3 DEF StoredIn
  <2> QED
    BY <2>2, <2>4, StoredStep
\* Writing what is in hand to the cache.
<1>7. ASSUME NEW r \in Requests, pc[r] \in Holding, WriteToCache(r)
      PROVE  \A k \in Keys : cache'[k] = cache[k] \/ StoredIn(rows, cache'[k].price, k)
  <2>1. StoredIn(rows, got[r], CacheKey[name[r]])
    BY <1>7 DEF Stored
  <2>2. cache'[CacheKey[name[r]]].price = got[r]
    <3>1. cache'[CacheKey[name[r]]] = [price |-> got[r], until |-> now + Freshness]
      BY <1>7, Cached
    <3> QED
      BY <3>1
  <2>3. \A k \in Keys \ {CacheKey[name[r]]} : cache'[k] = cache[k]
    BY <1>7, Cached
  <2> QED
    BY <2>1, <2>2, <2>3
<1>8. ASSUME NEW r \in Requests, CacheRow(r) \/ CacheNew(r) PROVE Stored'
  <2>1. pc[r] \in Holding /\ WriteToCache(r) /\ UNCHANGED <<rows, name, got>>
    BY <1>8 DEF CacheRow, CacheNew, Step, Holding
  <2>2. \A q \in Requests \ {r} : pc'[q] = pc[q]
    BY <1>8 DEF TypeOK, CacheRow, CacheNew, Step, GoTo
  <2>3. \A q \in Requests : \/ pc'[q] \notin Holding
                            \/ pc[q] \in Holding /\ got'[q] = got[q] /\ name'[q] = name[q]
    BY <2>1, <2>2
  <2> QED
    BY <1>7, <2>1, <2>3, StoredStep
<1>9. ASSUME NEW r \in Requests, Publish(r) \/ BufferFull(r) PROVE Stored'
  <2>1. pc[r] \in Holding /\ UNCHANGED <<cache, rows, name, got>>
    BY <1>9 DEF Publish, BufferFull, Step, Holding
  <2>2. \A q \in Requests \ {r} : pc'[q] = pc[q]
    BY <1>9 DEF TypeOK, Publish, BufferFull, Step, GoTo
  <2> QED
    BY <2>1, <2>2, StoredStep
<1>10. ASSUME NEW r \in Requests, InsertPoint(r) PROVE Stored'
  <2>1. PICK row \in Row :
           /\ rows' = rows \cup {row}
           /\ row = [symbol |-> RowSymbol[name[r]], ts |-> got[r].ts, raw |-> got[r].raw]
    BY <1>10, Added DEF InsertPoint
  <2>2. name[r] \in Names
    BY DEF TypeOK
  <2>3. CacheKey[row.symbol] = CacheKey[name[r]]
    BY <2>1, <2>2, LookupAssumption
  <2>4. /\ UNCHANGED <<cache, name, got>>
        /\ \A q \in Requests \ {r} : pc'[q] = pc[q]
    BY <1>10 DEF TypeOK, InsertPoint, Step, GoTo
  <2>5. StoredIn(rows', got'[r], CacheKey[name'[r]])
    BY <2>1, <2>3, <2>4 DEF StoredIn
  <2> QED
    BY <2>1, <2>4, <2>5, StoredStep
<1>11. ASSUME NEW r \in Requests, RedisRaises(r) PROVE Stored'
  <2>1. Fail(r) /\ UNCHANGED rows
    BY <1>11 DEF RedisRaises
  <2>2. pc'[r] \notin Holding /\ name' = name
    BY <2>1, Failed DEF Holding, Answered
  <2>3. \A q \in Requests \ {r} : pc'[q] = pc[q] /\ got'[q] = got[q]
    BY <2>1, Failed
  <2>4. UNCHANGED cache \/ (pc[r] \in Holding /\ WriteToCache(r))
    BY <1>11 DEF RedisRaises, Holding
  <2>5. \A k \in Keys : cache'[k] = cache[k] \/ StoredIn(rows, cache'[k].price, k)
    BY <1>7, <2>4
  <2> QED
    BY <2>1, <2>2, <2>3, <2>5, StoredStep
<1>12. CASE RedisLoses
  <2>1. \A k \in Keys : cache'[k] = NoEntry
    BY <1>12 DEF RedisLoses
  <2>2. UNCHANGED <<rows, pc, got, name>>
    BY <1>12 DEF RedisLoses
  <2> QED
    BY <2>1, <2>2, StoredStep
<1>13. CASE Crash
  <2>1. \A q \in Requests : pc'[q] \notin Holding
    BY <1>13 DEF Crash, Holding, Answered
  <2>2. UNCHANGED <<rows, cache>>
    BY <1>13 DEF Crash
  <2> QED
    BY <2>1, <2>2, StoredStep
<1>14. CASE Tick \/ UNCHANGED vars
  <2>1. UNCHANGED <<rows, cache, pc, got, name>>
    BY <1>14 DEF Tick, vars
  <2> QED
    BY <2>1, StoredStep
<1> QED
  BY <1>1, <1>3, <1>4, <1>5, <1>6, <1>8, <1>9, <1>10, <1>11, <1>12, <1>13, <1>14
  DEF Next, Progress

\* Nothing is answered or kept in the cache that is not a price point of the symbol,
\* whatever fails between the steps of a lookup (PriceService.get_latest_price).
THEOREM NothingInvented == Spec => []ServedIsStored
<1>1. Stored => ServedIsStored
  BY DEF Stored, ServedIsStored, StoredIn, Holding
<1> QED
  BY <1>1, InitTypeOK, NextTypeOK, InitStored, NextStored, PTL DEF Spec
-----------------------------------------------------------------------------
\* A request that has stored a raw answer and not announced it yet.
Hand == {"point", "cacheNew", "publish"}

\* Rows and requests refer to raw answers that were given an id, and no two requests to
\* the same one.  Rows are spelled as the provider spells them.
Numbered ==
    /\ \A row \in rows : row.raw \in 1..raws /\ \E n \in Names : row.symbol = RowSymbol[n]
    /\ \A r \in Requests : pc[r] \in Hand => got[r].raw \in 1..raws
    /\ \A r, q \in Requests :
          pc[r] \in Hand /\ pc[q] \in Hand /\ r # q => got[r].raw # got[q].raw

\* An event refers to a row, no two to the same one, and none to what is not announced yet.
Announced ==
    /\ \A n \in DOMAIN sent : \E row \in rows : row.raw = sent[n]
    /\ \A m, n \in DOMAIN sent : sent[m] = sent[n] => m = n
    /\ \A r \in Requests : pc[r] \in Hand => \A n \in DOMAIN sent : sent[n] # got[r].raw

LEMMA InitNumbered == Init => Numbered /\ Announced
BY DEF Init, Numbered, Announced, Hand

\* Steps after which nobody has a raw answer in hand who had it not before.
LEMMA NumberedStep ==
    ASSUME TypeOK, TypeOK', Numbered, raws' >= raws, rows \subseteq rows',
           \A row \in rows' \ rows :
              row.raw \in 1..raws /\ \E n \in Names : row.symbol = RowSymbol[n],
           \A q \in Requests : pc'[q] \in Hand => pc[q] \in Hand /\ got'[q] = got[q]
    PROVE  Numbered' /\ (Announced /\ sent' = sent => Announced')
<1>1. raws \in Nat /\ raws' \in Nat
  BY DEF TypeOK
<1>2. Numbered'
  BY <1>1 DEF Numbered
<1>3. Announced /\ sent' = sent => Announced'
  BY DEF Announced
<1> QED
  BY <1>2, <1>3

\* A fetch gets a new number.
LEMMA NumberedInsert ==
    ASSUME TypeOK, TypeOK', Numbered, Announced, NEW r \in Requests, InsertRaw(r)
    PROVE  Numbered' /\ Announced'
<1> USE DEF events
<1>1. /\ raws \in Nat /\ raws' = raws + 1 /\ UNCHANGED <<rows, sent>>
      /\ got'[r].raw = raws + 1
      /\ \A q \in Requests \ {r} : pc'[q] = pc[q] /\ got'[q] = got[q]
  <2>1. got[r] \in Price
    BY DEF TypeOK
  <2>2. [got[r] EXCEPT !.raw = raws + 1].raw = raws + 1
    BY <2>1 DEF Price
  <2>3. got' = [got EXCEPT ![r] = [got[r] EXCEPT !.raw = raws + 1]]
    BY DEF InsertRaw
  <2>4. got'[r] = [got[r] EXCEPT !.raw = raws + 1] /\ \A q \in Requests \ {r} : got'[q] = got[q]
    BY <2>3 DEF TypeOK
  <2> QED
    BY <2>2, <2>4 DEF TypeOK, InsertRaw, Step, GoTo
<1>2. Numbered'
  BY <1>1 DEF Numbered
<1>3. \A n \in DOMAIN sent : sent[n] # raws + 1
  BY <1>1 DEF Numbered, Announced
<1>4. Announced'
  BY <1>1, <1>3 DEF Announced
<1> QED
  BY <1>2, <1>4

\* The event of what the request holds comes last.
LEMMA NumberedPublish ==
    ASSUME TypeOK, TypeOK', Stored, Numbered, Announced, NEW r \in Requests, Publish(r)
    PROVE  Numbered' /\ Announced'
<1> USE DEF store
<1>1. /\ pc[r] \in Hand /\ pc[r] \in Holding /\ pc'[r] \notin Hand
      /\ UNCHANGED <<raws, rows, got>>
      /\ \A q \in Requests \ {r} : pc'[q] = pc[q]
  BY DEF TypeOK, Publish, Step, GoTo, Hand, Holding
<1>2. Numbered'
  <2>1. raws' >= raws
    BY <1>1 DEF TypeOK
  <2> QED
    BY <1>1, <2>1, NumberedStep
<1>3. \E row \in rows : row.raw = got[r].raw
  BY <1>1 DEF Stored, StoredIn
<1>4. /\ sent \in Seq(Nat) /\ got[r].raw \in Nat
      /\ sent' = Append(sent, got[r].raw)
  BY DEF TypeOK, Price, Publish
<1>5. /\ DOMAIN sent' = DOMAIN sent \cup {Len(sent) + 1}
      /\ sent'[Len(sent) + 1] = got[r].raw
      /\ \A n \in DOMAIN sent : sent'[n] = sent[n]
  BY <1>4
<1>6. \A n \in DOMAIN sent : sent[n] # got[r].raw
  BY <1>1 DEF Announced
<1>7. \A n \in DOMAIN sent' : \E row \in rows' : row.raw = sent'[n]
  BY <1>1, <1>3, <1>5 DEF Announced
<1>8. \A m, n \in DOMAIN sent' : sent'[m] = sent'[n] => m = n
  BY <1>5, <1>6 DEF Announced
<1>9. ASSUME NEW q \in Requests, pc'[q] \in Hand, NEW n \in DOMAIN sent'
      PROVE  sent'[n] # got'[q].raw
  <2>1. q # r /\ pc[q] \in Hand /\ got'[q] = got[q]
    BY <1>1, <1>9
  <2>2. got[q].raw # got[r].raw
    BY <1>1, <2>1 DEF Numbered
  <2>3. \A m \in DOMAIN sent : sent[m] # got[q].raw
    BY <2>1 DEF Announced
  <2> QED
    BY <1>5, <1>9, <2>1, <2>2, <2>3
<1>10. Announced'
  BY <1>7, <1>8, <1>9 DEF Announced
<1> QED
  BY <1>2, <1>10

\* The events that a crash leaves are the first ones.
LEMMA NumberedCrash ==
    ASSUME TypeOK, TypeOK', Numbered, Announced, Crash
    PROVE  Numbered' /\ Announced'
<1> USE DEF store
<1>1. (\A q \in Requests : pc'[q] \notin Hand) /\ UNCHANGED <<raws, rows>>
  BY DEF Crash, Hand
<1>2. PICK k \in 0..Len(sent) : sent' = SubSeq(sent, 1, k)
  BY DEF Crash
<1>3. sent \in Seq(Nat)
  BY DEF TypeOK
<1>4. DOMAIN sent' = 1..k /\ \A n \in 1..k : n \in DOMAIN sent /\ sent'[n] = sent[n]
  BY <1>2, <1>3
<1>5. Numbered'
  BY <1>1 DEF Numbered
<1>6. Announced'
  BY <1>1, <1>4 DEF Announced
<1> QED
  BY <1>5, <1>6

LEMMA NextNumbered ==
    TypeOK /\ TypeOK' /\ Stored /\ Numbered /\ Announced /\ [Next]_vars => Numbered' /\ Announced'
<1> SUFFICES ASSUME TypeOK, TypeOK', Stored, Numbered, Announced, [Next]_vars
             PROVE  Numbered' /\ Announced'
  OBVIOUS
<1> USE DEF store, events, request
<1>0. raws \in Nat
  BY DEF TypeOK
\* Steps that leave the numbers, the rows and the events, and give nobody a raw answer.
<1>1. ASSUME UNCHANGED <<raws, rows, sent>>,
             \A q \in Requests : pc'[q] \in Hand => pc[q] \in Hand /\ got'[q] = got[q]
      PROVE  Numbered' /\ Announced'
  BY <1>0, <1>1, NumberedStep
<1>2. ASSUME NEW r \in Requests, NEW n \in Names, Ask(r, n) PROVE Numbered' /\ Announced'
  <2>1. pc'[r] \notin Hand
    BY <1>2 DEF TypeOK, Ask, GoTo, Hand
  <2>2. \A q \in Requests \ {r} : pc'[q] = pc[q] /\ got'[q] = got[q]
    BY <1>2 DEF TypeOK, Ask, GoTo
  <2> QED
    BY <1>1, <1>2, <2>1, <2>2 DEF Ask
<1>3. ASSUME NEW r \in Requests,
             CacheRaises(r) \/ FetchFails(r) \/ NoPartition(r) \/ RedisRaises(r)
      PROVE  Numbered' /\ Announced'
  <2>1. Fail(r) /\ UNCHANGED <<raws, rows, sent>>
    BY <1>3 DEF CacheRaises, FetchFails, NoPartition, RedisRaises
  <2>2. pc'[r] \notin Hand /\ \A q \in Requests \ {r} : pc'[q] = pc[q] /\ got'[q] = got[q]
    BY <2>1, Failed DEF Hand
  <2> QED
    BY <1>1, <2>1, <2>2
<1>4. ASSUME NEW r \in Requests,
             \/ CacheHit(r) \/ CacheMiss(r) \/ DbHit(r) \/ DbMiss(r) \/ CacheRow(r)
             \/ FetchAgain(r) \/ BufferFull(r) \/ \E age \in QuoteAges : Fetch(r, age)
      PROVE  Numbered' /\ Announced'
  <2>1. pc'[r] \notin Hand /\ UNCHANGED <<raws, rows, sent>>
    BY <1>4 DEF TypeOK, CacheHit, CacheMiss, DbHit, DbMiss, CacheRow, FetchAgain, BufferFull,
                Fetch, Step, GoTo, Hand
  <2>2. \A q \in Requests \ {r} : pc'[q] = pc[q] /\ got'[q] = got[q]
    BY <1>4 DEF TypeOK, CacheHit, CacheMiss, DbHit, DbMiss, CacheRow, FetchAgain, BufferFull,
                Fetch, Step, GoTo
  <2> QED
    BY <1>1, <2>1, <2>2
<1>5. ASSUME NEW r \in Requests, CacheNew(r) PROVE Numbered' /\ Announced'
  <2>1. pc[r] \in Hand /\ UNCHANGED <<raws, rows, sent, got>>
    BY <1>5 DEF CacheNew, Step, Hand
  <2>2. \A q \in Requests \ {r} : pc'[q] = pc[q]
    BY <1>5 DEF TypeOK, CacheNew, Step, GoTo
  <2> QED
    BY <1>1, <2>1, <2>2
\* Steps that may add the row of what is in hand.
<1>6. ASSUME NEW r \in Requests, pc[r] = "point", AddRow(r)
      PROVE  /\ rows \subseteq rows'
             /\ \A row \in rows' \ rows :
                   row.raw \in 1..raws /\ \E n \in Names : row.symbol = RowSymbol[n]
  <2>1. PICK row \in Row :
           /\ rows' = rows \cup {row}
           /\ row = [symbol |-> RowSymbol[name[r]], ts |-> got[r].ts, raw |-> got[r].raw]
    BY <1>6, Added
  <2>2. row.raw \in 1..raws
    BY <1>6, <2>1 DEF Numbered, Hand
  <2>3. name[r] \in Names /\ row.symbol = RowSymbol[name[r]]
    BY <2>1 DEF TypeOK
  <2> QED
    BY <2>1, <2>2, <2>3
<1>7. ASSUME NEW r \in Requests, InsertPoint(r) PROVE Numbered' /\ Announced'
  <2>1. pc[r] = "point" /\ AddRow(r) /\ UNCHANGED <<raws, sent, got>>
    BY <1>7 DEF InsertPoint, Step
  <2>2. pc[r] \in Hand /\ \A q \in Requests \ {r} : pc'[q] = pc[q]
    BY <1>7 DEF TypeOK, InsertPoint, Step, GoTo, Hand
  <2> QED
    BY <1>0, <1>6, <2>1, <2>2, NumberedStep
<1>8. ASSUME NEW r \in Requests, DbRaises(r) PROVE Numbered' /\ Announced'
  <2>1. Fail(r) /\ UNCHANGED sent /\ raws' >= raws
    BY <1>0, <1>8 DEF DbRaises
  <2>2. pc'[r] \notin Hand /\ \A q \in Requests \ {r} : pc'[q] = pc[q] /\ got'[q] = got[q]
    BY <2>1, Failed DEF Hand
  <2>3. rows' = rows \/ (pc[r] = "point" /\ AddRow(r))
    BY <1>8 DEF DbRaises
  <2>4. /\ rows \subseteq rows'
        /\ \A row \in rows' \ rows :
              row.raw \in 1..raws /\ \E n \in Names : row.symbol = RowSymbol[n]
    BY <1>6, <2>3
  <2> QED
    BY <2>1, <2>2, <2>4, NumberedStep
<1>9. CASE RedisLoses \/ Tick \/ UNCHANGED vars
  <2>1. UNCHANGED <<raws, rows, sent, pc, got>>
    BY <1>9 DEF RedisLoses, Tick, vars
  <2> QED
    BY <1>1, <2>1
<1> QED
  BY <1>2, <1>3, <1>4, <1>5, <1>7, <1>8, <1>9, NumberedInsert, NumberedPublish, NumberedCrash
  DEF Next, Progress

\* An event refers to a committed price point, and a price point has at most one event
\* (_persist before _publish_event).
THEOREM EventsAfterRows == Spec => []EventsAreStored
<1>1. Announced => EventsAreStored
  BY DEF Announced, EventsAreStored, Events
<1> QED
  BY <1>1, InitTypeOK, NextTypeOK, InitStored, NextStored, InitNumbered, NextNumbered, PTL DEF Spec
-----------------------------------------------------------------------------
\* A position that had a price keeps one: what is cached has a row, rows stay, and all of
\* them have the spelling of the position (get_portfolio_snapshot, _get_best_price).
LEMMA WorthStep ==
    ASSUME TypeOK, TypeOK', Stored, Stored', Numbered, Numbered', rows \subseteq rows',
           NEW s \in Held, Valuations(s) # {0}
    PROVE  Valuations(s)' # {0}
<1> DEFINE k == CacheKey[s]
<1>1. s \in Names /\ k \in Keys
  BY DEF Held, Keys
<1>2. now \in Nat /\ now' \in Nat /\ raws \in Nat /\ raws' \in Nat
  BY DEF TypeOK
<1>3. ASSUME NEW row \in rows, CacheKey[row.symbol] = k PROVE row.symbol = s
  <2>1. PICK n \in Names : row.symbol = RowSymbol[n]
    BY DEF Numbered
  <2>2. CacheKey[n] = CacheKey[s]
    BY <1>3, <2>1, LookupAssumption
  <2> QED
    BY <2>1, <2>2 DEF Held
<1>4. now < cache[k].until => cache[k] # NoEntry
  BY <1>2 DEF NoEntry
<1>5. now' < cache'[k].until => cache'[k] # NoEntry
  BY <1>2 DEF NoEntry
<1>6. CASE now' < cache'[k].until
  <2>1. StoredIn(rows', cache'[k].price, k)
    BY <1>1, <1>5, <1>6 DEF Stored
  <2>2. PICK row \in rows' : row.raw = cache'[k].price.raw
    BY <2>1 DEF StoredIn
  <2>3. row.raw # 0
    BY <1>2, <2>2 DEF Numbered
  <2>4. Valuations(s)' = {cache'[k].price.raw}
    BY <1>6 DEF Valuations
  <2> QED
    BY <2>2, <2>3, <2>4
<1>7. CASE ~(now' < cache'[k].until)
  <2>1. RowsOf(s) # {}
    <3>1. CASE now < cache[k].until
      <4>1. StoredIn(rows, cache[k].price, k)
        BY <1>1, <1>4, <3>1 DEF Stored
      <4>2. PICK row \in rows : CacheKey[row.symbol] = k
        BY <4>1 DEF StoredIn
      <4> QED
        BY <1>3, <4>2 DEF RowsOf
    <3>2. CASE ~(now < cache[k].until)
      BY <3>2 DEF Valuations
    <3> QED
      BY <3>1, <3>2
  <2>2. RowsOf(s)' # {}
    BY <2>1 DEF RowsOf
  <2>3. 0 \notin Valuations(s)'
    <3>1. \A row \in rows' : row.raw # 0
      BY <1>2 DEF Numbered
    <3>2. Valuations(s)' =
             {row.raw : row \in {p \in RowsOf(s)' : \A q \in RowsOf(s)' : q.ts <= p.ts}}
      BY <1>7, <2>2 DEF Valuations
    <3> QED
      BY <3>1, <3>2 DEF RowsOf
  <2> QED
    BY <2>3
<1> QED
  BY <1>6, <1>7

LEMMA RowsStay == TypeOK /\ [Next]_vars => rows \subseteq rows'
BY DEF Next, Progress, vars, store, events, request, Ask, CacheHit, CacheMiss, CacheRaises, DbHit,
       DbMiss, CacheRow, FetchAgain, FetchFails, Fetch, InsertRaw, InsertPoint, NoPartition,
       CacheNew, Publish, BufferFull, RedisRaises, DbRaises, AddRow, RedisLoses, Crash, Tick

\* A position that had a price never falls back to 0 in a snapshot, for any symbols, any
\* freshness and any faults.
THEOREM PricesAreKept == Spec => WorthStays
<1>1. TypeOK /\ TypeOK' /\ Stored /\ Stored' /\ Numbered /\ Numbered' /\ [Next]_vars
         => [\A s \in Held : Valuations(s) # {0} => Valuations(s)' # {0}]_vars
  BY WorthStep, RowsStay
<1> QED
  BY <1>1, InitTypeOK, NextTypeOK, InitStored, NextStored, InitNumbered, NextNumbered, PTL
  DEF Spec, WorthStays
-----------------------------------------------------------------------------
\* The two halves of FetchesAreCompleted, and what keeps them: a quote from before the
\* oldest partition is a fault, a failure is spent before its request forgets what it had.
NoStoreFault == spent["db"] + spent["crash"] + spent["oldQuote"] = 0
NoEventFault == spent["redis"] + spent["db"] + spent["crash"] = 0 /\ produced < QueueMax

HasPoint(id) ==
    \/ \E row \in rows : row.raw = id
    \/ \E r \in Requests : pc[r] = "point" /\ got[r].raw = id

HasEvent(id) ==
    \/ \E n \in DOMAIN sent : sent[n] = id
    \/ \E r \in Requests : pc[r] \in {"cacheNew", "publish"} /\ got[r].raw = id

Completed ==
    /\ \A r \in Requests :
          pc[r] \in {"raw", "point"} /\ got[r].ts < FirstDay => spent["oldQuote"] > 0
    /\ NoStoreFault => \A id \in 1..raws : HasPoint(id)
    /\ NoEventFault => \A row \in rows : HasEvent(row.raw)

LEMMA InitCompleted == Init => Completed
BY DEF Init, Completed

\* A fault that a step spends is not forgotten, and makes its premise false.
LEMMA FaultsAdd ==
    ASSUME TypeOK, TypeOK',
           spent' = spent \/ \E f \in Faults : Spend(f),
           produced' >= produced \/ spent'["crash"] > 0
    PROVE  /\ \A f \in Faults : spent'[f] >= spent[f]
           /\ NoStoreFault' => NoStoreFault
           /\ NoEventFault' => NoEventFault
           /\ NoStoreFault' => \A f \in {"db", "crash", "oldQuote"} : spent'[f] = 0
           /\ NoEventFault' => \A f \in {"redis", "db", "crash"} : spent'[f] = 0
<1>1. \A f \in Faults : spent[f] \in Nat /\ spent'[f] \in Nat /\ spent'[f] >= spent[f]
  BY Spent DEF TypeOK
<1>2. produced \in Nat /\ produced' \in Nat /\ QueueMax \in Nat
  BY LookupAssumption DEF TypeOK
<1>3. /\ spent["db"] \in Nat /\ spent'["db"] \in Nat /\ spent'["db"] >= spent["db"]
      /\ spent["crash"] \in Nat /\ spent'["crash"] \in Nat /\ spent'["crash"] >= spent["crash"]
      /\ spent["redis"] \in Nat /\ spent'["redis"] \in Nat /\ spent'["redis"] >= spent["redis"]
      /\ spent["oldQuote"] \in Nat /\ spent'["oldQuote"] \in Nat
      /\ spent'["oldQuote"] >= spent["oldQuote"]
  BY <1>1 DEF Faults
<1>4. NoStoreFault' => spent'["db"] = 0 /\ spent'["crash"] = 0 /\ spent'["oldQuote"] = 0
  <2>1. PICK i, j, k \in Nat :
           i = spent'["db"] /\ j = spent'["crash"] /\ k = spent'["oldQuote"]
    BY <1>3
  <2>2. NoStoreFault' => i + j + k = 0
    BY <2>1 DEF NoStoreFault
  <2>3. i + j + k = 0 => i = 0 /\ j = 0 /\ k = 0
    BY ONLY i \in Nat, j \in Nat, k \in Nat
  <2> QED
    BY <2>1, <2>2, <2>3
<1>5. NoStoreFault' => NoStoreFault
  BY <1>3, <1>4 DEF NoStoreFault
<1>6. NoEventFault' => spent'["redis"] = 0 /\ spent'["db"] = 0 /\ spent'["crash"] = 0
  BY <1>3 DEF NoEventFault
<1>7. NoEventFault' => NoEventFault
  BY <1>2, <1>3, <1>6 DEF NoEventFault
<1> QED
  BY <1>1, <1>4, <1>5, <1>6, <1>7

\* It is enough to look at what a step takes from the requests that have something due.
LEMMA CompletedStep ==
    ASSUME TypeOK, TypeOK', Completed,
           UNCHANGED <<spent, produced, sent, raws, rows>>,
           \A q \in Requests :
              /\ pc'[q] \in {"raw", "point"} => pc'[q] = pc[q] /\ got'[q] = got[q]
              /\ pc[q] = "point" /\ NoStoreFault => pc'[q] = pc[q] /\ got'[q] = got[q]
              /\ pc[q] \in {"cacheNew", "publish"} /\ NoEventFault =>
                    pc'[q] \in {"cacheNew", "publish"} /\ got'[q] = got[q]
    PROVE  Completed'
<1>1. (NoStoreFault' <=> NoStoreFault) /\ (NoEventFault' <=> NoEventFault)
  BY DEF NoStoreFault, NoEventFault
<1>2. NoStoreFault => \A id \in 1..raws : HasPoint(id) => HasPoint(id)'
  BY DEF HasPoint
<1>3. NoEventFault => \A row \in rows : HasEvent(row.raw) => HasEvent(row.raw)'
  BY DEF HasEvent
<1>4. \A q \in Requests :
         pc'[q] \in {"raw", "point"} /\ got'[q].ts < FirstDay => spent'["oldQuote"] > 0
  BY DEF Completed
<1>5. NoStoreFault' => \A id \in 1..raws' : HasPoint(id)'
  BY <1>1, <1>2 DEF Completed
<1>6. NoEventFault' => \A row \in rows' : HasEvent(row.raw)'
  BY <1>1, <1>3 DEF Completed
<1> QED
  BY <1>4, <1>5, <1>6 DEF Completed

\* A request that fails with a fault, or before it has anything due.
LEMMA CompletedFail ==
    ASSUME TypeOK, TypeOK', Completed, NEW r \in Requests,
           CacheRaises(r) \/ FetchFails(r) \/ NoPartition(r)
    PROVE  Completed'
<1> USE DEF store, events
<1>1. /\ Fail(r) /\ UNCHANGED <<spent, produced, sent, raws, rows>>
      /\ pc[r] \in {"cache", "api", "point"}
      /\ pc[r] = "point" => got[r].ts < FirstDay
  BY DEF CacheRaises, FetchFails, NoPartition
<1>2. pc'[r] = "idle" /\ \A q \in Requests \ {r} : pc'[q] = pc[q] /\ got'[q] = got[q]
  BY <1>1, Failed
<1>3. pc[r] = "point" => ~NoStoreFault
  BY <1>1 DEF Completed, NoStoreFault, TypeOK, Faults
<1> QED
  BY <1>1, <1>2, <1>3, CompletedStep

LEMMA CompletedRaise ==
    ASSUME TypeOK, TypeOK', Completed, NEW r \in Requests, RedisRaises(r) \/ DbRaises(r)
    PROVE  Completed'
<1> USE DEF store, events
<1>1. PICK f \in {"redis", "db"} :
         /\ Spend(f)
         /\ f = "redis" => RedisRaises(r)
         /\ f = "db" => DbRaises(r)
  BY DEF RedisRaises, DbRaises
<1>2. Fail(r) /\ UNCHANGED <<produced, sent>>
  BY DEF RedisRaises, DbRaises
<1>3. pc'[r] = "idle" /\ \A q \in Requests \ {r} : pc'[q] = pc[q] /\ got'[q] = got[q]
  BY <1>2, Failed
<1>4. spent'[f] > 0 /\ f \in Faults
  BY <1>1, Spent DEF Faults
<1>5. produced' >= produced
  BY <1>2 DEF TypeOK
<1>6. /\ \A g \in Faults : spent'[g] >= spent[g]
      /\ NoStoreFault' => NoStoreFault
      /\ NoEventFault' => NoEventFault
      /\ NoStoreFault' => \A g \in {"db", "crash", "oldQuote"} : spent'[g] = 0
      /\ NoEventFault' => \A g \in {"redis", "db", "crash"} : spent'[g] = 0
  BY <1>1, <1>4, <1>5, FaultsAdd
<1>7. \A q \in Requests :
         pc'[q] \in {"raw", "point"} /\ got'[q].ts < FirstDay => spent'["oldQuote"] > 0
  <2>1. spent["oldQuote"] \in Nat /\ spent'["oldQuote"] \in Nat /\ spent'["oldQuote"] >= spent["oldQuote"]
    BY <1>6 DEF Faults, TypeOK
  <2> QED
    BY <1>3, <2>1 DEF Completed
<1>8. ~NoEventFault'
  BY <1>4, <1>6
<1>9. NoStoreFault' => \A id \in 1..raws' : HasPoint(id)'
  <2> SUFFICES ASSUME NoStoreFault', NEW id \in 1..raws' PROVE HasPoint(id)'
    OBVIOUS
  <2>1. RedisRaises(r)
    BY <1>1, <1>4, <1>6
  <2>2. UNCHANGED <<raws, rows>> /\ pc[r] # "point"
    BY <2>1 DEF RedisRaises
  <2>3. HasPoint(id)
    BY <1>6, <2>2 DEF Completed
  <2> QED
    BY <1>3, <2>2, <2>3 DEF HasPoint
<1> QED
  BY <1>7, <1>8, <1>9 DEF Completed

\* The raw answer is due, and then its point.
LEMMA CompletedInsert ==
    ASSUME TypeOK, TypeOK', Completed, NEW r \in Requests, InsertRaw(r) \/ InsertPoint(r)
    PROVE  Completed'
<1> USE DEF store, events
<1>0. raws \in Nat /\ UNCHANGED <<spent, produced, sent>>
  BY DEF TypeOK, InsertRaw, InsertPoint
<1>1. (NoStoreFault' <=> NoStoreFault) /\ (NoEventFault' <=> NoEventFault)
  BY <1>0 DEF NoStoreFault, NoEventFault
<1>2. CASE InsertRaw(r)
  <2>1. [got[r] EXCEPT !.raw = raws + 1].raw = raws + 1
        /\ [got[r] EXCEPT !.raw = raws + 1].ts = got[r].ts
    <3>1. got[r] \in Price
      BY DEF TypeOK
    <3> QED
      BY <3>1 DEF Price
  <2>2. got' = [got EXCEPT ![r] = [got[r] EXCEPT !.raw = raws + 1]]
    BY <1>2 DEF InsertRaw
  <2>3. /\ got'[r].raw = raws + 1 /\ got'[r].ts = got[r].ts
        /\ \A q \in Requests \ {r} : got'[q] = got[q]
    BY <2>1, <2>2 DEF TypeOK
  <2>4. /\ pc[r] = "raw" /\ pc'[r] = "point" /\ \A q \in Requests \ {r} : pc'[q] = pc[q]
        /\ raws' = raws + 1 /\ rows' = rows
    BY <1>2 DEF TypeOK, InsertRaw, Step, GoTo
  <2>5. \A q \in Requests :
           pc'[q] \in {"raw", "point"} /\ got'[q].ts < FirstDay => spent'["oldQuote"] > 0
    BY <1>0, <2>3, <2>4 DEF Completed
  <2>6. NoStoreFault' => \A id \in 1..raws' : HasPoint(id)'
    <3> SUFFICES ASSUME NoStoreFault', NEW id \in 1..raws' PROVE HasPoint(id)'
      OBVIOUS
    <3>1. CASE id = raws + 1
      BY <2>3, <2>4, <3>1 DEF HasPoint
    <3>2. CASE id \in 1..raws
      <4>1. HasPoint(id)
        BY <1>1, <3>2 DEF Completed
      <4> QED
        BY <2>3, <2>4, <4>1 DEF HasPoint
    <3> QED
      BY <1>0, <2>4, <3>1, <3>2
  <2>7. NoEventFault' => \A row \in rows' : HasEvent(row.raw)'
    BY <1>0, <1>1, <2>3, <2>4 DEF Completed, HasEvent
  <2> QED
    BY <2>5, <2>6, <2>7 DEF Completed
<1>3. CASE InsertPoint(r)
  <2>1. /\ pc[r] = "point" /\ pc'[r] = "cacheNew" /\ \A q \in Requests \ {r} : pc'[q] = pc[q]
        /\ UNCHANGED <<raws, got>>
    BY <1>3 DEF TypeOK, InsertPoint, Step, GoTo
  <2>2. PICK row \in Row : rows' = rows \cup {row} /\ row.raw = got[r].raw
    <3>1. \E row \in Row : /\ rows' = rows \cup {row}
                           /\ row = [symbol |-> RowSymbol[name[r]],
                                     ts |-> got[r].ts, raw |-> got[r].raw]
      BY <1>3, Added DEF InsertPoint
    <3> QED
      BY <3>1
  <2>3. \A q \in Requests :
           pc'[q] \in {"raw", "point"} /\ got'[q].ts < FirstDay => spent'["oldQuote"] > 0
    BY <1>0, <2>1 DEF Completed
  <2>4. NoStoreFault' => \A id \in 1..raws' : HasPoint(id)'
    BY <1>1, <2>1, <2>2 DEF Completed, HasPoint
  <2>5. NoEventFault' => \A p \in rows' : HasEvent(p.raw)'
    <3> SUFFICES ASSUME NoEventFault', NEW p \in rows' PROVE HasEvent(p.raw)'
      OBVIOUS
    <3>1. CASE p = row
      BY <2>1, <2>2, <3>1 DEF HasEvent
    <3>2. CASE p \in rows
      <4>1. HasEvent(p.raw)
        BY <1>1, <3>2 DEF Completed
      <4> QED
        BY <1>0, <2>1, <4>1 DEF HasEvent
    <3> QED
      BY <2>2, <3>1, <3>2
  <2> QED
    BY <2>3, <2>4, <2>5 DEF Completed
<1> QED
  BY <1>2, <1>3

\* The event is appended, or the buffer is full and nothing is promised.
LEMMA CompletedPublish ==
    ASSUME TypeOK, TypeOK', Completed, NEW r \in Requests, Publish(r) \/ BufferFull(r)
    PROVE  Completed'
<1> USE DEF store, events
<1>1. /\ pc[r] = "publish" /\ pc'[r] = "fetched" /\ \A q \in Requests \ {r} : pc'[q] = pc[q]
      /\ UNCHANGED <<raws, rows, got, spent>>
  BY DEF TypeOK, Publish, BufferFull, Step, GoTo
<1>2. CASE BufferFull(r)
  <2>1. ~NoEventFault /\ UNCHANGED <<sent, produced>>
    <3>1. produced \in Nat /\ QueueMax \in Nat /\ produced >= QueueMax
      BY <1>2, LookupAssumption DEF TypeOK, BufferFull
    <3> QED
      BY <1>2, <3>1 DEF BufferFull, NoEventFault
  <2> QED
    BY <1>1, <2>1, CompletedStep
<1>3. CASE Publish(r)
  <2>1. produced' >= produced
    BY <1>3 DEF TypeOK, Publish
  <2>2. (NoStoreFault' => NoStoreFault) /\ (NoEventFault' => NoEventFault)
    BY <1>1, <2>1, FaultsAdd
  <2>3. sent \in Seq(Nat) /\ got[r].raw \in Nat /\ sent' = Append(sent, got[r].raw)
    BY <1>3 DEF TypeOK, Price, Publish
  <2>4. /\ Len(sent) + 1 \in DOMAIN sent' /\ sent'[Len(sent) + 1] = got[r].raw
        /\ \A n \in DOMAIN sent : n \in DOMAIN sent' /\ sent'[n] = sent[n]
    BY <2>3
  <2>5. \A q \in Requests :
           pc'[q] \in {"raw", "point"} /\ got'[q].ts < FirstDay => spent'["oldQuote"] > 0
    BY <1>1 DEF Completed
  <2>6. NoStoreFault' => \A id \in 1..raws' : HasPoint(id)'
    BY <1>1, <2>2 DEF Completed, HasPoint
  <2>7. \A id : HasEvent(id) => HasEvent(id)'
    <3> SUFFICES ASSUME NEW id, HasEvent(id) PROVE HasEvent(id)'
      OBVIOUS
    <3>1. CASE \E n \in DOMAIN sent : sent[n] = id
      BY <2>4, <3>1 DEF HasEvent
    <3>2. CASE \E q \in Requests : pc[q] \in {"cacheNew", "publish"} /\ got[q].raw = id
      <4>1. PICK q \in Requests : pc[q] \in {"cacheNew", "publish"} /\ got[q].raw = id
        BY <3>2
      <4>2. CASE q = r
        BY <2>4, <4>1, <4>2 DEF HasEvent
      <4>3. CASE q # r
        BY <1>1, <4>1, <4>3 DEF HasEvent
      <4> QED
        BY <4>2, <4>3
    <3> QED
      BY <3>1, <3>2 DEF HasEvent
  <2>8. NoEventFault' => \A row \in rows' : HasEvent(row.raw)'
    BY <1>1, <2>2, <2>7 DEF Completed
  <2> QED
    BY <2>5, <2>6, <2>8 DEF Completed
<1> QED
  BY <1>2, <1>3

LEMMA CompletedFetch ==
    ASSUME TypeOK, TypeOK', Completed, NEW r \in Requests, NEW age \in QuoteAges, Fetch(r, age)
    PROVE  Completed'
<1> USE DEF store, events
<1>1. /\ pc[r] = "api" /\ pc'[r] = "raw" /\ UNCHANGED <<raws, rows, sent, produced>>
      /\ \A q \in Requests \ {r} : pc'[q] = pc[q] /\ got'[q] = got[q]
      /\ got'[r].ts = now - age
  BY DEF TypeOK, Fetch, Step, GoTo
<1>2. spent' = spent \/ Spend("oldQuote")
  BY DEF Fetch
<1>3. now - age < FirstDay => Spend("oldQuote")
  BY DEF Fetch
<1>4. produced' >= produced /\ "oldQuote" \in Faults
  BY <1>1 DEF TypeOK, Faults
<1>5. /\ spent'["oldQuote"] >= spent["oldQuote"]
      /\ NoStoreFault' => NoStoreFault
      /\ NoEventFault' => NoEventFault
  BY <1>2, <1>4, FaultsAdd
<1>6. \A q \in Requests :
         pc'[q] \in {"raw", "point"} /\ got'[q].ts < FirstDay => spent'["oldQuote"] > 0
  <2>1. spent["oldQuote"] \in Nat /\ spent'["oldQuote"] \in Nat
    BY <1>4 DEF TypeOK
  <2>2. got'[r].ts < FirstDay => spent'["oldQuote"] > 0
    BY <1>1, <1>3, <1>4, Spent
  <2>3. \A q \in Requests \ {r} :
           pc'[q] \in {"raw", "point"} /\ got'[q].ts < FirstDay => spent'["oldQuote"] > 0
    BY <1>1, <1>5, <2>1 DEF Completed
  <2> QED
    BY <2>2, <2>3
<1>7. NoStoreFault' => \A id \in 1..raws' : HasPoint(id)'
  BY <1>1, <1>5 DEF Completed, HasPoint
<1>8. NoEventFault' => \A row \in rows' : HasEvent(row.raw)'
  BY <1>1, <1>5 DEF Completed, HasEvent
<1> QED
  BY <1>6, <1>7, <1>8 DEF Completed

LEMMA NextCompleted == TypeOK /\ TypeOK' /\ Completed /\ [Next]_vars => Completed'
<1> SUFFICES ASSUME TypeOK, TypeOK', Completed, [Next]_vars PROVE Completed'
  OBVIOUS
<1> USE DEF store, events, request
<1>1. ASSUME NEW r \in Requests, NEW n \in Names, Ask(r, n) PROVE Completed'
  <2>1. /\ UNCHANGED <<spent, produced, sent, raws, rows>> /\ pc'[r] = "cache"
        /\ pc[r] \notin {"raw", "point", "cacheNew", "publish"}
    BY <1>1 DEF TypeOK, Ask, GoTo, Answered
  <2>2. \A q \in Requests \ {r} : pc'[q] = pc[q] /\ got'[q] = got[q]
    BY <1>1 DEF TypeOK, Ask, GoTo
  <2> QED
    BY <2>1, <2>2, CompletedStep
<1>2. ASSUME NEW r \in Requests,
             CacheHit(r) \/ CacheMiss(r) \/ DbHit(r) \/ DbMiss(r) \/ CacheRow(r) \/ FetchAgain(r)
      PROVE  Completed'
  <2>1. /\ UNCHANGED <<spent, produced, sent, raws, rows>>
        /\ pc[r] \notin {"raw", "point", "cacheNew", "publish"}
        /\ pc'[r] \notin {"raw", "point"}
    BY <1>2 DEF TypeOK, CacheHit, CacheMiss, DbHit, DbMiss, CacheRow, FetchAgain, Step, GoTo
  <2>2. \A q \in Requests \ {r} : pc'[q] = pc[q] /\ got'[q] = got[q]
    BY <1>2 DEF TypeOK, CacheHit, CacheMiss, DbHit, DbMiss, CacheRow, FetchAgain, Step, GoTo
  <2> QED
    BY <2>1, <2>2, CompletedStep
<1>3. ASSUME NEW r \in Requests, CacheNew(r) PROVE Completed'
  <2>1. /\ UNCHANGED <<spent, produced, sent, raws, rows, got>>
        /\ pc[r] = "cacheNew" /\ pc'[r] = "publish"
    BY <1>3 DEF TypeOK, CacheNew, Step, GoTo
  <2>2. \A q \in Requests \ {r} : pc'[q] = pc[q]
    BY <1>3 DEF TypeOK, CacheNew, Step, GoTo
  <2> QED
    BY <2>1, <2>2, CompletedStep
<1>4. CASE RedisLoses
  <2>1. UNCHANGED <<produced, sent, raws, rows, pc, got>> /\ Spend("redisLoss")
    BY <1>4 DEF RedisLoses
  <2>2. /\ \A f \in Faults : spent'[f] >= spent[f]
        /\ NoStoreFault' => NoStoreFault
        /\ NoEventFault' => NoEventFault
    <3>1. produced' >= produced
      BY <2>1 DEF TypeOK
    <3>2. spent' = spent \/ \E f \in Faults : Spend(f)
      BY <2>1 DEF Faults
    <3> QED
      BY <3>1, <3>2, FaultsAdd
  <2>3. \A q \in Requests :
           pc'[q] \in {"raw", "point"} /\ got'[q].ts < FirstDay => spent'["oldQuote"] > 0
    <3>1. spent["oldQuote"] \in Nat /\ spent'["oldQuote"] \in Nat /\ spent'["oldQuote"] >= spent["oldQuote"]
      BY <2>2 DEF TypeOK, Faults
    <3> QED
      BY <2>1, <3>1 DEF Completed
  <2>4. NoStoreFault' => \A id \in 1..raws' : HasPoint(id)'
    BY <2>1, <2>2 DEF Completed, HasPoint
  <2>5. NoEventFault' => \A row \in rows' : HasEvent(row.raw)'
    BY <2>1, <2>2 DEF Completed, HasEvent
  <2> QED
    BY <2>3, <2>4, <2>5 DEF Completed
<1>6. CASE Crash
  <2>1. spent'["crash"] > 0
    BY <1>6, Spent DEF Crash, Faults
  <2>2. ~NoStoreFault' /\ ~NoEventFault'
    <3>1. \E f \in Faults : Spend(f)
      BY <1>6 DEF Crash, Faults
    <3> QED
      BY <2>1, <3>1, FaultsAdd
  <2>3. \A q \in Requests : pc'[q] = "idle"
    BY <1>6 DEF Crash
  <2> QED
    BY <2>2, <2>3 DEF Completed
<1>5. CASE Tick \/ UNCHANGED vars
  <2>1. UNCHANGED <<spent, produced, sent, raws, rows, pc, got>>
    BY <1>5 DEF Tick, vars
  <2> QED
    BY <2>1, CompletedStep
<1> QED
  BY <1>1, <1>2, <1>3, <1>4, <1>5, <1>6, CompletedFail, CompletedRaise, CompletedInsert,
     CompletedPublish, CompletedFetch DEF Next, Progress

\* Unless one of the named faults falls between its commits, a fetch ends with its price
\* point and its event (_persist, _write_to_cache, _publish_event).
THEOREM FetchesEndWell == Spec => []FetchesAreCompleted
<1>1. Completed => FetchesAreCompleted
  BY DEF Completed, FetchesAreCompleted, NoStoreFault, NoEventFault, HasPoint, HasEvent, Events
<1> QED
  BY <1>1, InitTypeOK, NextTypeOK, InitCompleted, NextCompleted, PTL DEF Spec
=============================================================================
