----------------------------- MODULE Broadcast -----------------------------
(***************************************************************************)
(* Live ticks for the WebSocket clients of one symbol: the broadcaster     *)
(* task (app/core/kafka_broadcaster.py), the list of connections           *)
(* (app/core/websocket_manager.py) and the endpoint of each client         *)
(* (app/api/stream.py).  All run on the event loop of the API process and  *)
(* interleave wherever one awaits; a tick is its offset in the topic.      *)
(*                                                                         *)
(* unsubscribe() puts a new list into the dict, so that a running          *)
(* broadcast goes on with the old one; subscribe() appends to the list     *)
(* that is in the dict, which may be the one being iterated.               *)
(***************************************************************************)
EXTENDS Integers, Sequences, FiniteSets

CONSTANTS
    Clients,   \* WebSocket connections; each is made once
    MaxTicks,  \* bound: ticks in the topic
    MaxStops,  \* bound: stops and crashes of the API process
    MaxRejoins \* bound: rejoins of the consumer group

ASSUME BroadcastAssumption == MaxTicks \in Nat /\ MaxStops \in Nat /\ MaxRejoins \in Nat

VARIABLES
    ticks,      \* ticks in the topic
    committed,  \* offset of the group websocket-broadcaster, or NoOffset
    position,   \* ticks the consumer has given out or passed over
    tick,       \* the tick the task was given last
    task,       \* "down", "wait", "send", or "dead"
    list,       \* connections[symbol]
    same,       \* the running broadcast iterates `list`, and not ...
    replaced,   \* ... this list, which unsubscribe() has replaced since
    index,      \* where in it the broadcast is
    failed,     \* dead: the connections whose send raised
    state,      \* [Clients -> State]
    got,        \* [Clients -> Seq(Nat)]: ticks sent to each client (history)
    late,       \* connections that closed since that tick was given (history)
    missed,     \* clients for which ticks were passed over (history)
    resent,     \* clients for which the group went back (history)
    stops,      \* stops so far
    rejoins     \* rejoins so far

kafka == <<ticks, committed, position, tick>>
walk == <<same, replaced, index, failed>>
history == <<got, late, missed, resent>>
bounds == <<stops, rejoins>>
vars == <<kafka, task, list, walk, state, history, bounds>>

NoOffset == -1

\* accepting - in `await ws.accept()`; open - subscribed and connected
\* gone      - closed; the endpoint has not run since
\* broken    - closed by an error of the endpoint, which did not unsubscribe
State == {"new", "accepting", "open", "gone", "broken", "left"}

Init ==
    /\ ticks = 0 /\ committed = NoOffset /\ position = 0 /\ tick = 0
    /\ task = "wait"
    /\ list = <<>>
    /\ same = TRUE /\ replaced = <<>> /\ index = 1 /\ failed = {}
    /\ state = [c \in Clients |-> "new"]
    /\ got = [c \in Clients |-> <<>>]
    /\ late = {} /\ missed = {} /\ resent = {}
    /\ stops = 0 /\ rejoins = 0
-----------------------------------------------------------------------------
\* A broadcast starts with the list that is in the dict.
FreshWalk == same' = TRUE /\ replaced' = <<>> /\ index' = 1 /\ failed' = {}

Become(c, s) == state' = [state EXCEPT ![c] = s]

\* The endpoint is called and accepts the connection, ...
Connect(c) ==
    /\ task # "down" /\ state[c] = "new"
    /\ Become(c, "accepting")
    /\ UNCHANGED <<kafka, task, list, walk, history, bounds>>

\* ... which may fail, ...
AcceptFails(c) ==
    /\ state[c] = "accepting"
    /\ Become(c, "left")
    /\ UNCHANGED <<kafka, task, list, walk, history, bounds>>

\* Mutant: the connection is subscribed before and after it is accepted.
SubscribeTwice(c) ==
    /\ state[c] = "accepting"
    /\ Become(c, "open")
    /\ list' = list \o <<c, c>>
    /\ UNCHANGED <<kafka, task, walk, history, bounds>>

\* ... and then appends it to the list.
Subscribe(c) ==
    /\ state[c] = "accepting"
    /\ Become(c, "open")
    /\ list' = Append(list, c)
    /\ UNCHANGED <<kafka, task, walk, history, bounds>>

Close(c, s) ==
    /\ state[c] = "open"
    /\ Become(c, s)
    /\ late' = late \cup {c}
    /\ UNCHANGED <<kafka, task, list, walk, got, missed, resent, bounds>>

\* The client disconnects.
Disconnect(c) == Close(c, "gone")

\* receive_text() raises something else than WebSocketDisconnect, for a frame
\* that is no text: the endpoint ends, and the server closes the connection.
EndpointFails(c) == Close(c, "broken")

\* [c for c in s if c not in cs], from the left.
Without(s, cs) ==
    LET kept[n \in 0..Len(s)] ==
            IF n = 0 THEN <<>>
            ELSE IF s[n] \in cs THEN kept[n - 1] ELSE Append(kept[n - 1], s[n])
    IN  kept[Len(s)]

\* Mutant: the connection is removed from the list in place, and the loop, which
\* goes by number, passes over the one after it.
RemoveInPlace(cs) ==
    /\ list' = Without(list, cs)
    /\ IF task = "send" /\ same
          THEN same' = FALSE /\ replaced' = Without(list, {list[n] : n \in {index + 1} \cap DOMAIN list})
          ELSE UNCHANGED <<same, replaced>>

\* unsubscribe() binds a new list; a running broadcast keeps the old one.
Remove(cs) ==
    /\ list' = Without(list, cs)
    /\ IF task = "send" /\ same
          THEN same' = FALSE /\ replaced' = list
          ELSE UNCHANGED <<same, replaced>>

\* WebSocketDisconnect reaches the endpoint.
Unsubscribe(c) ==
    /\ state[c] = "gone"
    /\ Become(c, "left")
    /\ Remove({c})
    /\ UNCHANGED <<kafka, task, index, failed, history, bounds>>
-----------------------------------------------------------------------------
\* The producer's event reaches the topic.
Produce ==
    /\ ticks < MaxTicks
    /\ ticks' = ticks + 1
    /\ UNCHANGED <<committed, position, tick, task, list, walk, state, history, bounds>>

Served == {c \in Clients : state[c] = "open" /\ got[c] # <<>>}

\* The task is given a tick and starts to broadcast it, ...
Receive ==
    /\ task = "wait" /\ position < ticks
    /\ tick' = position + 1 /\ position' = position + 1
    /\ FreshWalk
    /\ IF list = <<>> THEN UNCHANGED task ELSE task' = "send"
    /\ late' = {}
    /\ missed' = IF position > tick THEN missed \cup Served ELSE missed
    /\ resent' = IF position < tick THEN resent \cup Served ELSE resent
    /\ UNCHANGED <<ticks, committed, list, state, got, bounds>>

Iterated == IF same THEN list ELSE replaced

\* Mutant: failed connections are not removed.
AdvanceOnly(dead) ==
    IF index < Len(Iterated)
    THEN /\ index' = index + 1 /\ failed' = dead
         /\ UNCHANGED <<task, list, same, replaced>>
    ELSE /\ task' = "wait" /\ UNCHANGED list
         /\ FreshWalk

\* ... to the next connection of the list, or, after the last one, removes the
\* connections that failed.
Advance(dead) ==
    IF index < Len(Iterated)
    THEN /\ index' = index + 1 /\ failed' = dead
         /\ UNCHANGED <<task, list, same, replaced>>
    ELSE /\ task' = "wait" /\ list' = Without(list, dead)
         /\ FreshWalk

\* send_json() returns: the connection is open, or was when the tick came.
SendReturns ==
    /\ task = "send"
    /\ LET c == Iterated[index]
       IN  /\ state[c] = "open" \/ c \in late
           /\ got' = [got EXCEPT ![c] = Append(@, tick)]
    /\ Advance(failed)
    /\ UNCHANGED <<kafka, state, late, missed, resent, bounds>>

\* It raises: the connection is closed.
SendRaises ==
    /\ task = "send"
    /\ state[Iterated[index]] # "open"
    /\ Advance(failed \cup {Iterated[index]})
    /\ UNCHANGED <<kafka, state, history, bounds>>

\* aiokafka commits the position in the background.
AutoCommit ==
    /\ task \in {"wait", "send"} /\ committed # position
    /\ committed' = position
    /\ UNCHANGED <<ticks, position, tick, task, list, walk, state, history, bounds>>

\* auto_offset_reset is for a group without an offset.
FromOffset == position' = IF committed = NoOffset THEN ticks ELSE committed

\* The group's session has timed out, and the consumer joins again, in the
\* background: a broadcast goes on, the next tick is the one after the offset.
Rejoin ==
    /\ task \in {"wait", "send"}
    /\ rejoins < MaxRejoins
    /\ rejoins' = rejoins + 1
    /\ FromOffset
    /\ UNCHANGED <<ticks, committed, tick, task, list, walk, state, history, stops>>

\* The iterator raises, or the deserializer for a message that is no tick of any
\* symbol: `finally` stops the consumer, which commits if it can, and the task is
\* over.  Nothing looks at it.
TaskFails ==
    /\ task = "wait"
    /\ task' = "dead"
    /\ committed' \in {committed, position}
    /\ UNCHANGED <<ticks, position, tick, list, walk, state, history, bounds>>

\* The process ends, with all connections.  When it is shut down, the task is
\* cancelled and its `finally` stops the consumer, which commits.
Stop ==
    /\ task # "down" /\ stops < MaxStops
    /\ stops' = stops + 1
    /\ task' = "down"
    /\ committed' \in {committed} \cup IF task = "dead" THEN {} ELSE {position}
    /\ list' = <<>>
    /\ FreshWalk
    /\ state' = [c \in Clients |-> IF state[c] = "new" THEN "new" ELSE "left"]
    /\ UNCHANGED <<ticks, position, tick, history, rejoins>>

\* It starts again.  If the consumer cannot start, the task is dead.
Start ==
    /\ task = "down"
    /\ task' \in {"wait", "dead"}
    /\ FromOffset
    /\ UNCHANGED <<ticks, committed, tick, list, walk, state, history, bounds>>

TaskStep == Receive \/ SendReturns \/ SendRaises \/ TaskFails

Next ==
    \/ \E c \in Clients :
          \/ Connect(c) \/ AcceptFails(c) \/ Subscribe(c)
          \/ Disconnect(c) \/ EndpointFails(c) \/ Unsubscribe(c)
    \/ Produce \/ TaskStep \/ AutoCommit \/ Rejoin \/ Stop \/ Start

Spec == Init /\ [][Next]_vars
-----------------------------------------------------------------------------
Elements(s) == {s[n] : n \in DOMAIN s}

\* Types, with the shape of the list: no client is in it twice, and the
\* broadcast is somewhere in the list it iterates.
TypeOK ==
    /\ ticks \in 0..MaxTicks /\ position \in 0..ticks /\ tick \in 0..ticks
    /\ committed \in {NoOffset} \cup 0..ticks
    /\ task \in {"down", "wait", "send", "dead"}
    /\ list \in Seq(Clients) /\ replaced \in Seq(Clients)
    /\ same \in BOOLEAN /\ failed \subseteq Clients
    /\ task = "send" => index \in DOMAIN Iterated
    /\ state \in [Clients -> State]
    /\ got \in [Clients -> Seq(Nat)]
    /\ late \subseteq Clients /\ missed \subseteq Clients /\ resent \subseteq Clients
    /\ stops \in 0..MaxStops /\ rejoins \in 0..MaxRejoins
    /\ \A m, n \in DOMAIN list : list[m] = list[n] => m = n

\* Whoever is connected is in the list, and a connection that closed is gone
\* from it when the next tick has been broadcast, although the endpoint of a
\* broken one never unsubscribes.
ListFollowsConnections ==
    /\ \A c \in Clients : state[c] = "open" => c \in Elements(list)
    /\ task = "wait" =>
          \A c \in Elements(list) : state[c] # "open" => c \in late
-----------------------------------------------------------------------------
\* The abstract view: whoever the broadcast has not come to yet is owed the tick.
Owed == IF task = "send" THEN Elements(SubSeq(Iterated, index, Len(Iterated))) ELSE {}

Contract == INSTANCE Feed
    WITH live <- {c \in Clients : state[c] = "open"}, owed <- Owed, mark <- committed

\* Clients may come and go in the middle of a broadcast, but the removal of one
\* connection makes the loop skip no other, and no tick starts before all connected
\* clients were sent the last one.  A tick is sent twice only when the group has
\* gone back to its committed offset, by a rejoin or a restart, and ticks are passed
\* over only if it had none to go back to.
ImplementsFeed == Contract!Spec
=============================================================================
