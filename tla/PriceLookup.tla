---------------------------- MODULE PriceLookup ----------------------------
(***************************************************************************)
(* The 3-tier price lookup of app/services/price_service.py for one        *)
(* provider, with the requests (GET /prices/latest, poll ticks) that run   *)
(* it concurrently on the event loop and interleave at every await:        *)
(*                                                                         *)
(*   Redis entry -> recent price_points row -> provider API, then          *)
(*   insert raw, commit, insert point, commit, SETEX, produce event        *)
(*                                                                         *)
(* Prices are left out: what identifies an answer is the row it came from  *)
(* and its timestamp.  Time is a clock that counts ticks.                  *)
(***************************************************************************)
EXTENDS Integers, Sequences, FiniteSets

CONSTANTS
    Requests,     \* concurrent calls of get_latest_price
    Names,        \* spellings of symbols that are asked for
    CacheKey,     \* [Names -> ...]: the lower-cased name in the Redis key
    RowSymbol,    \* [Names -> Names]: the symbol the provider puts in its result
    Aware,        \* the provider's timestamps carry a time zone (Binance: yes)
    QuoteAges,    \* how old the quote of an API answer may be
    Freshness,    \* settings.db_price_ttl, in ticks
    FirstDay,     \* start of the oldest partition of price_points
    MaxRetries,   \* attempts of a provider
    QueueMax,     \* capacity of the producer's buffer
    MaxTime,      \* bound: last value of the clock
    MaxFetches,   \* bound: API answers
    Budget,       \* bound: how often each kind of fault may happen
    MaxKinds      \* bound: how many kinds of fault may happen in one run

\* redis, db  - a call to Redis or PostgreSQL raises
\* redisLoss  - Redis restarts; it has no volume
\* crash      - the API process dies
\* oldQuote   - a provider answers with a quote from before FirstDay
Faults == {"redis", "db", "redisLoss", "crash", "oldQuote"}

ASSUME LookupAssumption ==
    /\ RowSymbol \in [Names -> Names]
    /\ DOMAIN CacheKey = Names
    /\ \A n \in Names : CacheKey[RowSymbol[n]] = CacheKey[n]
    /\ Aware \in BOOLEAN
    /\ QuoteAges \subseteq Nat
    /\ Freshness \in Nat \ {0}
    /\ FirstDay \in Int
    /\ MaxRetries \in Nat \ {0}
    /\ QueueMax \in Nat /\ MaxTime \in Nat /\ MaxFetches \in Nat
    /\ Budget \in [Faults -> Nat] /\ MaxKinds \in Nat

VARIABLES
    now,       \* the clock
    cache,     \* [Keys -> Entry]: Redis
    raws,      \* number of committed raw_market_data rows; also their ids
    rows,      \* committed price_points rows
    sent,      \* raw ids of the events given to the producer, oldest first
    produced,  \* how many of them by this process; it never calls poll()
    pc,        \* [Requests -> PC]
    name,      \* [Requests -> Names]: the requested symbol
    since,     \* [Requests -> Nat]: when the request began (history)
    tries,     \* [Requests -> 0..MaxRetries - 1]: failed attempts, before the last
    got,       \* [Requests -> Price]: the price in hand
    spent      \* [Faults -> Nat]

store == <<cache, raws, rows>>
events == <<sent, produced>>
request == <<pc, name, since, tries, got>>
vars == <<now, store, events, request, spent>>

Keys == {CacheKey[n] : n \in Names}
Price == [ts : Int, aware : BOOLEAN, raw : Nat]
Entry == [price : Price, until : Int]
Row == [symbol : Names, ts : Int, raw : Nat]
PC == {"idle", "cache", "db", "api", "raw", "point", "cacheRow", "cacheNew", "publish",
       "cached", "found", "fetched"}

\* Answers, by the tier they come from.
Answered == {"cached", "found", "fetched"}

NoPrice == [ts |-> 0, aware |-> FALSE, raw |-> 0]
NoEntry == [price |-> NoPrice, until |-> 0]

Spend(f) ==
    /\ spent[f] < Budget[f]
    /\ Cardinality({g \in Faults \ {f} : spent[g] > 0}) < MaxKinds
    /\ spent' = [spent EXCEPT ![f] = @ + 1]

GoTo(r, where) == pc' = [pc EXCEPT ![r] = where]

Step(r, from, to) == pc[r] = from /\ GoTo(r, to)

\* The call raises out of get_latest_price: a 4xx or 5xx answer, and its locals
\* are gone.
Fail(r) ==
    /\ GoTo(r, "idle")
    /\ since' = [since EXCEPT ![r] = 0]
    /\ tries' = [tries EXCEPT ![r] = 0]
    /\ got' = [got EXCEPT ![r] = NoPrice]
    /\ UNCHANGED name

Init ==
    /\ now = 0
    /\ cache = [k \in Keys |-> NoEntry]
    /\ raws = 0 /\ rows = {}
    /\ sent = <<>> /\ produced = 0
    /\ pc = [r \in Requests |-> "idle"]
    /\ name \in [Requests -> Names]
    /\ since = [r \in Requests |-> 0]
    /\ tries = [r \in Requests |-> 0]
    /\ got = [r \in Requests |-> NoPrice]
    /\ spent = [f \in Faults |-> 0]
-----------------------------------------------------------------------------
\* A client asks for a price, or asks again.
Ask(r, n) ==
    /\ pc[r] \in {"idle"} \cup Answered
    /\ GoTo(r, "cache")
    /\ name' = [name EXCEPT ![r] = n]
    /\ since' = [since EXCEPT ![r] = now]
    /\ got' = [got EXCEPT ![r] = NoPrice]
    /\ UNCHANGED <<now, store, events, tries, spent>>

\* What Redis holds for the request: nothing once the entry's TTL is over.
Live(r) ==
    LET e == cache[CacheKey[name[r]]]
    IN  IF now < e.until THEN {e.price} ELSE {}

\* Mutant: the TTL of the entry is trusted.
CacheHitByTtl(r) ==
    /\ Step(r, "cache", "cached")
    /\ \E p \in Live(r) : ~p.aware /\ got' = [got EXCEPT ![r] = p]
    /\ UNCHANGED <<now, store, events, name, since, tries, spent>>

\* Tier 1: a cached price is answered if it is fresh by its own timestamp, ...
CacheHit(r) ==
    /\ Step(r, "cache", "cached")
    /\ \E p \in Live(r) :
          /\ ~p.aware
          /\ now - p.ts < Freshness
          /\ got' = [got EXCEPT ![r] = p]
    /\ UNCHANGED <<now, store, events, name, since, tries, spent>>

\* ... is passed over if it is missing or stale, ...
CacheMiss(r) ==
    /\ Step(r, "cache", "db")
    /\ \A p \in Live(r) : ~p.aware /\ now - p.ts >= Freshness
    /\ UNCHANGED <<now, store, events, name, since, tries, got, spent>>

\* ... and raises TypeError if its timestamp has a time zone, because
\* datetime.utcnow() has none.
CacheRaises(r) ==
    /\ pc[r] = "cache"
    /\ \E p \in Live(r) : p.aware
    /\ Fail(r)
    /\ UNCHANGED <<now, store, events, spent>>

Recent(r) == {p \in rows : p.symbol = name[r] /\ p.ts >= now - Freshness}

\* Tier 2: the newest recent row.  The driver returns it with a time zone.
DbHit(r) ==
    /\ Step(r, "db", "cacheRow")
    /\ \E p \in Recent(r) :
          /\ \A q \in Recent(r) : q.ts <= p.ts
          /\ got' = [got EXCEPT ![r] = [ts |-> p.ts, aware |-> TRUE, raw |-> p.raw]]
    /\ UNCHANGED <<now, store, events, name, since, tries, spent>>

DbMiss(r) ==
    /\ Step(r, "db", "api")
    /\ Recent(r) = {}
    /\ UNCHANGED <<now, store, events, name, since, tries, got, spent>>

\* _write_to_cache: the entry lives for Freshness, however old the price is.
WriteToCache(r) ==
    cache' = [cache EXCEPT ![CacheKey[name[r]]] =
                 [price |-> got[r], until |-> now + Freshness]]

CacheRow(r) ==
    /\ Step(r, "cacheRow", "found")
    /\ WriteToCache(r)
    /\ UNCHANGED <<now, raws, rows, events, name, since, tries, got, spent>>

\* Tier 3: an attempt at the provider's API succeeds.
Fetch(r, age) ==
    /\ Step(r, "api", "raw")
    /\ raws + Cardinality({q \in Requests : pc[q] = "raw"}) < MaxFetches
    /\ got' = [got EXCEPT ![r] = [ts |-> now - age, aware |-> Aware, raw |-> 0]]
    /\ IF now - age < FirstDay THEN Spend("oldQuote") ELSE UNCHANGED spent
    /\ tries' = [tries EXCEPT ![r] = 0]
    /\ UNCHANGED <<now, store, events, name, since>>

\* Mutant: one attempt too many.
FetchAgainOnceMore(r) ==
    /\ Step(r, "api", "api")
    /\ tries[r] < MaxRetries
    /\ tries' = [tries EXCEPT ![r] = @ + 1]
    /\ UNCHANGED <<now, store, events, name, since, got, spent>>

\* It fails: back off and try again, ...
FetchAgain(r) ==
    /\ Step(r, "api", "api")
    /\ tries[r] + 1 < MaxRetries
    /\ tries' = [tries EXCEPT ![r] = @ + 1]
    /\ UNCHANGED <<now, store, events, name, since, got, spent>>

\* ... give up with 503 after the last attempt, or with 404 at once if the API
\* does not know the symbol.
FetchFails(r) ==
    /\ pc[r] = "api"
    /\ Fail(r)
    /\ UNCHANGED <<now, store, events, spent>>

\* Mutant: the event is produced as soon as the raw answer has an id.
InsertRawAndPublish(r) ==
    /\ Step(r, "raw", "point")
    /\ raws' = raws + 1
    /\ got' = [got EXCEPT ![r].raw = raws + 1]
    /\ sent' = Append(sent, raws + 1)
    /\ produced' = produced + 1
    /\ UNCHANGED <<now, cache, rows, name, since, tries, spent>>

\* _persist commits the raw answer, ...
InsertRaw(r) ==
    /\ Step(r, "raw", "point")
    /\ raws' = raws + 1
    /\ got' = [got EXCEPT ![r].raw = raws + 1]
    /\ UNCHANGED <<now, cache, rows, events, name, since, tries, spent>>

AddRow(r) ==
    rows' = rows \cup {[symbol |-> RowSymbol[name[r]], ts |-> got[r].ts, raw |-> got[r].raw]}

\* ... and then, in a transaction of its own, the price point, ...
InsertPoint(r) ==
    /\ Step(r, "point", "cacheNew")
    /\ got[r].ts >= FirstDay
    /\ AddRow(r)
    /\ UNCHANGED <<now, cache, raws, events, name, since, tries, got, spent>>

\* Mutant: the refusal is logged, and the lookup goes on.
NoPartitionIgnored(r) ==
    /\ Step(r, "point", "cacheNew")
    /\ got[r].ts < FirstDay
    /\ UNCHANGED <<now, store, events, name, since, tries, got, spent>>

\* ... which PostgreSQL refuses if no partition covers its timestamp.
NoPartition(r) ==
    /\ pc[r] = "point"
    /\ got[r].ts < FirstDay
    /\ Fail(r)
    /\ UNCHANGED <<now, store, events, spent>>

\* Mutant: the answer is returned without an event.
CacheNewOnly(r) ==
    /\ Step(r, "cacheNew", "fetched")
    /\ WriteToCache(r)
    /\ UNCHANGED <<now, raws, rows, events, name, since, tries, got, spent>>

CacheNew(r) ==
    /\ Step(r, "cacheNew", "publish")
    /\ WriteToCache(r)
    /\ UNCHANGED <<now, raws, rows, events, name, since, tries, got, spent>>

\* produce() puts the event into the buffer.
Publish(r) ==
    /\ Step(r, "publish", "fetched")
    /\ produced < QueueMax
    /\ sent' = Append(sent, got[r].raw)
    /\ produced' = produced + 1
    /\ UNCHANGED <<now, store, name, since, tries, got, spent>>

\* A delivered message frees its slot only when poll() serves its delivery
\* report, which nothing calls.  Once the buffer is full, produce() raises
\* BufferError, which is logged, for as long as the process lives.
BufferFull(r) ==
    /\ Step(r, "publish", "fetched")
    /\ produced >= QueueMax
    /\ UNCHANGED <<now, store, events, name, since, tries, got, spent>>

\* A Redis or database call of the request raises, whether or not the server
\* executed it; nothing handles it.
RedisRaises(r) ==
    /\ pc[r] \in {"cache", "cacheRow", "cacheNew"}
    /\ Spend("redis")
    /\ Fail(r)
    /\ UNCHANGED cache \/ (pc[r] # "cache" /\ WriteToCache(r))
    /\ UNCHANGED <<now, raws, rows, events>>

DbRaises(r) ==
    /\ pc[r] \in {"db", "raw", "point"}
    /\ Spend("db")
    /\ Fail(r)
    /\ \/ UNCHANGED <<raws, rows>>
       \/ pc[r] = "raw" /\ raws' = raws + 1 /\ UNCHANGED rows
       \/ pc[r] = "point" /\ got[r].ts >= FirstDay /\ AddRow(r) /\ UNCHANGED raws
    /\ UNCHANGED <<now, cache, events>>

RedisLoses ==
    /\ Spend("redisLoss")
    /\ cache' = [k \in Keys |-> NoEntry]
    /\ UNCHANGED <<now, raws, rows, events, request>>

\* The process dies, with its requests and the events that librdkafka had not
\* delivered yet, and starts again.
Crash ==
    /\ Spend("crash")
    /\ pc' = [r \in Requests |-> "idle"]
    /\ since' = [r \in Requests |-> 0]
    /\ tries' = [r \in Requests |-> 0]
    /\ got' = [r \in Requests |-> NoPrice]
    /\ \E n \in 0..Len(sent) : n >= Len(sent) - produced /\ sent' = SubSeq(sent, 1, n)
    /\ produced' = 0
    /\ UNCHANGED <<now, store, name>>

Tick ==
    /\ now < MaxTime
    /\ now' = now + 1
    /\ UNCHANGED <<store, events, request, spent>>

\* The symbols of which positions find the quotes again: they are in upper case, and
\* however the lookup is asked for one, the provider's answer is too.
Held == {s \in Names : \A n \in Names : CacheKey[n] = CacheKey[s] => RowSymbol[n] = s}

RowsOf(s) == {row \in rows : row.symbol = s}

\* Mutant: the snapshot filters the rows as the lookup does.
ValuationsIfRecent(s) ==
    LET e == cache[CacheKey[s]]
        recent == {row \in RowsOf(s) : row.ts >= now - Freshness}
    IN  IF now < e.until THEN {e.price.raw}
        ELSE IF recent = {} THEN {0}
        ELSE {row.raw : row \in recent}

\* What a portfolio snapshot values a position at: the cache entry, however old
\* its price is, or the newest row of any age, or 0.
Valuations(s) ==
    LET e == cache[CacheKey[s]]
    IN  IF now < e.until THEN {e.price.raw}
        ELSE IF RowsOf(s) = {} THEN {0}
        ELSE {row.raw : row \in {p \in RowsOf(s) : \A q \in RowsOf(s) : q.ts <= p.ts}}

\* What a request does once it was asked.
Progress(r) ==
    \/ CacheHit(r) \/ CacheMiss(r) \/ CacheRaises(r)
    \/ DbHit(r) \/ DbMiss(r) \/ CacheRow(r)
    \/ FetchAgain(r) \/ FetchFails(r) \/ \E age \in QuoteAges : Fetch(r, age)
    \/ InsertRaw(r) \/ InsertPoint(r) \/ NoPartition(r) \/ CacheNew(r)
    \/ Publish(r) \/ BufferFull(r)

Next ==
    \/ \E r \in Requests :
          \/ Progress(r) \/ RedisRaises(r) \/ DbRaises(r)
          \/ \E n \in Names : Ask(r, n)
    \/ RedisLoses \/ Crash \/ Tick

Spec == Init /\ [][Next]_vars
-----------------------------------------------------------------------------
TypeOK ==
    /\ now \in Nat
    /\ cache \in [Keys -> Entry]
    /\ raws \in Nat
    /\ rows \subseteq Row
    /\ sent \in Seq(Nat) /\ produced \in Nat
    /\ pc \in [Requests -> PC]
    /\ name \in [Requests -> Names]
    /\ since \in [Requests -> Nat]
    /\ tries \in [Requests -> 0..MaxRetries - 1]
    /\ got \in [Requests -> Price]
    /\ spent \in [Faults -> Nat]

\* "Return a fresh cached price dict" and "if within the freshness window": a
\* price that was not fetched for this request was at most Freshness old when
\* the request began, although a cache entry outlives the price it holds.
ServedFresh ==
    \A r \in Requests : pc[r] \in {"cached", "found"} => got[r].ts >= since[r] - Freshness

\* Nothing is served or kept in the cache that is not in price_points: whatever
\* fails between the steps of a lookup, the cache never runs ahead of the
\* database, and it never holds another symbol's price.
ServedIsStored ==
    LET Stored(p, k) == \E row \in rows :
            row.raw = p.raw /\ row.ts = p.ts /\ CacheKey[row.symbol] = k
    IN  /\ \A r \in Requests : pc[r] \in Answered => Stored(got[r], CacheKey[name[r]])
        /\ \A k \in Keys : cache[k] # NoEntry => Stored(cache[k].price, k)

Events(id) == {n \in DOMAIN sent : sent[n] = id}

\* An event refers to a committed price point, and a price point has at most one
\* event, so that the consumers find the price they are told of and see it once.
EventsAreStored ==
    \A n \in DOMAIN sent :
        /\ \E row \in rows : row.raw = sent[n]
        /\ Events(sent[n]) = {n}

\* "Only a Tier 3 fetch triggers persistence and optionally a Kafka event": the
\* raw answer of a fetch gets its price point and the point its event, because a
\* later request finds the row and announces nothing.  What was left half done
\* is due to a failure between two of the commits (the database, a crash, a quote
\* older than FirstDay), to Redis before the event, or to a full buffer.
FetchesAreCompleted ==
    /\ spent["db"] + spent["crash"] + spent["oldQuote"] = 0 =>
          \A id \in 1..raws :
             \/ \E row \in rows : row.raw = id
             \/ \E r \in Requests : pc[r] = "point" /\ got[r].raw = id
    /\ (spent["redis"] + spent["db"] + spent["crash"] = 0 /\ produced < QueueMax) =>
          \A row \in rows :
             \/ Events(row.raw) # {}
             \/ \E r \in Requests : pc[r] \in {"cacheNew", "publish"} /\ got[r].raw = row.raw

\* A position that had a price never falls to the "defaulting to 0" of the
\* snapshot: what the cache forgets, the table has.
WorthStays ==
    [][\A s \in Held : Valuations(s) # {0} => Valuations(s)' # {0}]_vars
-----------------------------------------------------------------------------
\* "Return a fresh cached price dict, or None if missing/stale."
\* (price_service.py:52): while Redis answers, reading the cache does not fail.
CacheReadReturns ==
    \A r \in Requests : pc[r] = "cache" => \A p \in Live(r) : ~p.aware
=============================================================================
