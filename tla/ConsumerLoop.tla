---------------------------- MODULE ConsumerLoop ----------------------------
(***************************************************************************)
(* The two Kafka consumers of the pipeline (app/kafka/consumer.py, the MA  *)
(* consumer, and app/kafka/anomaly_consumer.py).  Both run the same loop,  *)
(* each in a consumer group of its own, over the one partition of the      *)
(* "price-events" topic:                                                   *)
(*                                                                         *)
(*   while not shutdown_requested: poll; SETNX processed:<id>; EXPIRE;     *)
(*       up to MAX_RETRIES attempts at the service; else publish to DLQ    *)
(*                                                                         *)
(* The Redis keys are shared, because the key holds only the event's id.   *)
(* An attempt is atomic here and either succeeds or raises; what the MA    *)
(* and anomaly services do inside one is left to modules of their own.     *)
(***************************************************************************)
EXTENDS Naturals, Sequences, FiniteSets

CONSTANTS Consumers,   \* one process per consumer group
          Ids,         \* raw_response_id values the producer can send
          MaxLog,      \* bound: length of the topic
          MaxRetries,  \* MAX_RETRIES
          Budget,      \* bound: how often each kind of fault may happen
          MaxKinds     \* bound: how many kinds of fault may happen in one run

\* crash   - a process is killed, or dies, at any point of its loop
\* rejoin  - the group coordinator takes the partition away and gives it back
\* redis   - a Redis call raises (whether or not the server executed it)
\* dlq     - publishing to the DLQ fails
\* keyLoss - a key's time to live ends, or Redis restarts without it
\* dup     - the producer's retry appends an event a second time
Faults == {"crash", "rejoin", "redis", "dlq", "keyLoss", "dup"}

ASSUME LoopAssumption ==
    /\ MaxLog \in Nat
    /\ MaxRetries \in Nat \ {0}
    /\ Budget \in [Faults -> Nat]
    /\ MaxKinds \in Nat

VARIABLES
    log,        \* the topic partition: a sequence of ids
    key,        \* [Ids -> KeyState]: the Redis key processed:<id>
    pc,         \* [Consumers -> PC]: where each loop is
    position,   \* [Consumers -> Nat]: messages the running process was given
    committed,  \* [Consumers -> Nat]: offset the broker holds for the group
    attempt,    \* [Consumers -> 1..MaxRetries]: the retry loop's counter
    shutdown,   \* [Consumers -> BOOLEAN]: shutdown_requested
    outcomes,   \* [Ids -> Seq(Outcome)]: completed work, in order (history)
    spent       \* [Faults -> Nat]: faults so far

vars == <<log, key, pc, position, committed, attempt, shutdown, outcomes, spent>>

PC == {"down", "top", "poll", "claim", "expire", "attempt", "dlq"}
KeyState == {"absent", "persistent", "volatile"}   \* volatile: has a TTL
Outcome == Consumers \X {"processed", "dlq"}

\* The event consumer c was given last.
Current(c) == log[position[c]]

\* c owns the claim on event i: its SETNX returned 1 and it is not done yet.
Working(c, i) == pc[c] \in {"expire", "attempt", "dlq"} /\ Current(c) = i

Spend(f) ==
    /\ spent[f] < Budget[f]
    /\ Cardinality({g \in Faults \ {f} : spent[g] > 0}) < MaxKinds
    /\ spent' = [spent EXCEPT ![f] = @ + 1]

GoTo(c, where) == pc' = [pc EXCEPT ![c] = where]
-----------------------------------------------------------------------------
\* enable.auto.commit is left at its default and offsets start at the earliest
Init ==
    /\ log = <<>>
    /\ key = [i \in Ids |-> "absent"]
    /\ pc = [c \in Consumers |-> "top"]
    /\ position = [c \in Consumers |-> 0]
    /\ committed = [c \in Consumers |-> 0]
    /\ attempt = [c \in Consumers |-> 1]
    /\ shutdown = [c \in Consumers |-> FALSE]
    /\ outcomes = [i \in Ids |-> <<>>]
    /\ spent = [f \in Faults |-> 0]

\* The API process's producer delivers a new event to the topic, ...
Publish(i) ==
    /\ Len(log) < MaxLog
    /\ \A o \in 1..Len(log) : log[o] # i
    /\ log' = Append(log, i)
    /\ UNCHANGED <<key, pc, position, committed, attempt, shutdown, outcomes, spent>>

\* ... or delivers one again: retries = 5 without idempotence.
PublishAgain(o) ==
    /\ Len(log) < MaxLog
    /\ Spend("dup")
    /\ log' = Append(log, log[o])
    /\ UNCHANGED <<key, pc, position, committed, attempt, shutdown, outcomes>>

\* Mutant: `while True`, the flag is never looked at.
LoopTopIgnoringFlag(c) ==
    /\ pc[c] = "top"
    /\ GoTo(c, "poll")
    /\ UNCHANGED <<log, key, position, committed, attempt, shutdown, outcomes, spent>>

\* Mutant: the loop is left without consumer.close().
LoopTopWithoutClose(c) ==
    /\ pc[c] = "top"
    /\ GoTo(c, IF shutdown[c] THEN "down" ELSE "poll")
    /\ UNCHANGED <<log, key, position, committed, attempt, shutdown, outcomes, spent>>

\* `while not shutdown_requested`; leaving it closes the consumer, which
\* commits the offset of the last message it was given.
LoopTop(c) ==
    /\ pc[c] = "top"
    /\ \/ /\ ~shutdown[c]
          /\ GoTo(c, "poll")
          /\ UNCHANGED committed
       \/ /\ shutdown[c]
          /\ GoTo(c, "down")
          /\ committed' = [committed EXCEPT ![c] = position[c]]
    /\ UNCHANGED <<log, key, position, attempt, shutdown, outcomes, spent>>

\* poll() hands out the next message; it is stored for commit at once, before
\* anything was done with it.
PollMessage(c) ==
    /\ pc[c] = "poll"
    /\ position[c] < Len(log)
    /\ position' = [position EXCEPT ![c] = @ + 1]
    /\ GoTo(c, "claim")
    /\ UNCHANGED <<log, key, committed, attempt, shutdown, outcomes, spent>>

\* poll() times out with None, or returns an error that is raised and logged.
PollNothing(c) ==
    /\ pc[c] = "poll"
    /\ GoTo(c, "top")
    /\ UNCHANGED <<log, key, position, committed, attempt, shutdown, outcomes, spent>>

\* Mutant: the call to EXPIRE is forgotten.
ClaimNewForEver(c) ==
    /\ pc[c] = "claim"
    /\ key[Current(c)] = "absent"
    /\ key' = [key EXCEPT ![Current(c)] = "persistent"]
    /\ GoTo(c, "attempt")
    /\ UNCHANGED <<log, position, committed, attempt, shutdown, outcomes, spent>>

\* SETNX returns 1: the event is ours.
ClaimNew(c) ==
    /\ pc[c] = "claim"
    /\ key[Current(c)] = "absent"
    /\ key' = [key EXCEPT ![Current(c)] = "persistent"]
    /\ GoTo(c, "expire")
    /\ UNCHANGED <<log, position, committed, attempt, shutdown, outcomes, spent>>

\* SETNX returns 0: "Duplicate message skipped".
SkipDuplicate(c) ==
    /\ pc[c] = "claim"
    /\ key[Current(c)] # "absent"
    /\ GoTo(c, "top")
    /\ UNCHANGED <<log, key, position, committed, attempt, shutdown, outcomes, spent>>

\* Mutant: a Redis error counts as "not seen yet".
ClaimFailsOpen(c) ==
    /\ pc[c] = "claim"
    /\ Spend("redis")
    /\ GoTo(c, "attempt")
    /\ UNCHANGED <<log, key, position, committed, attempt, shutdown, outcomes>>

\* SETNX raises; the outer `except Exception` logs it and the loop goes on.
ClaimRaises(c) ==
    /\ pc[c] = "claim"
    /\ Spend("redis")
    /\ \/ UNCHANGED key
       \/ /\ key[Current(c)] = "absent"
          /\ key' = [key EXCEPT ![Current(c)] = "persistent"]
    /\ GoTo(c, "top")
    /\ UNCHANGED <<log, position, committed, attempt, shutdown, outcomes>>

\* EXPIRE: the key gets its time to live (EXPIRE of a lost key does nothing);
\* the retry loop starts.
SetExpiry(c) ==
    /\ pc[c] = "expire"
    /\ key' = [key EXCEPT ![Current(c)] = IF @ = "absent" THEN @ ELSE "volatile"]
    /\ attempt' = [attempt EXCEPT ![c] = 1]
    /\ GoTo(c, "attempt")
    /\ UNCHANGED <<log, position, committed, shutdown, outcomes, spent>>

\* EXPIRE raises: the claimed event is dropped by the outer `except`.
ExpiryRaises(c) ==
    /\ pc[c] = "expire"
    /\ Spend("redis")
    /\ \/ UNCHANGED key
       \/ key' = [key EXCEPT ![Current(c)] = IF @ = "absent" THEN @ ELSE "volatile"]
    /\ GoTo(c, "top")
    /\ UNCHANGED <<log, position, committed, attempt, shutdown, outcomes>>

Record(c, kind) ==
    outcomes' = [outcomes EXCEPT ![Current(c)] = Append(@, <<c, kind>>)]

\* Mutant: the `break` after a success is missing.
AttemptSucceedsWithoutBreak(c) ==
    /\ pc[c] = "attempt"
    /\ Record(c, "processed")
    /\ UNCHANGED <<log, key, pc, position, committed, attempt, shutdown, spent>>

\* The service returns: "success - stop retrying".
AttemptSucceeds(c) ==
    /\ pc[c] = "attempt"
    /\ Record(c, "processed")
    /\ GoTo(c, "top")
    /\ UNCHANGED <<log, key, position, committed, attempt, shutdown, spent>>

\* Mutant: one attempt too many.
AttemptFailsOnceMore(c) ==
    /\ pc[c] = "attempt"
    /\ IF attempt[c] <= MaxRetries
          THEN attempt' = [attempt EXCEPT ![c] = @ + 1] /\ UNCHANGED pc
          ELSE GoTo(c, "dlq") /\ UNCHANGED attempt
    /\ UNCHANGED <<log, key, position, committed, shutdown, outcomes, spent>>

\* Mutant: the last failure is not dead-lettered.
AttemptFailsSilently(c) ==
    /\ pc[c] = "attempt"
    /\ IF attempt[c] < MaxRetries
          THEN attempt' = [attempt EXCEPT ![c] = @ + 1] /\ UNCHANGED pc
          ELSE GoTo(c, "top") /\ UNCHANGED attempt
    /\ UNCHANGED <<log, key, position, committed, shutdown, outcomes, spent>>

\* Mutant: retry until it works.
AttemptFailsForEver(c) ==
    /\ pc[c] = "attempt"
    /\ attempt' = [attempt EXCEPT ![c] = IF @ = MaxRetries THEN 1 ELSE @ + 1]
    /\ UNCHANGED <<log, key, pc, position, committed, shutdown, outcomes, spent>>

\* The service raises: back off and retry, or give up after MAX_RETRIES.
AttemptFails(c) ==
    /\ pc[c] = "attempt"
    /\ \/ /\ attempt[c] < MaxRetries
          /\ attempt' = [attempt EXCEPT ![c] = @ + 1]
          /\ UNCHANGED pc
       \/ /\ attempt[c] = MaxRetries
          /\ GoTo(c, "dlq")
          /\ UNCHANGED attempt
    /\ UNCHANGED <<log, key, position, committed, shutdown, outcomes, spent>>

\* _publish_to_dlq: the produce is flushed, ...
DeadLetter(c) ==
    /\ pc[c] = "dlq"
    /\ Record(c, "dlq")
    /\ GoTo(c, "top")
    /\ UNCHANGED <<log, key, position, committed, attempt, shutdown, spent>>

\* ... or raises or is never delivered, which nothing looks at.
DeadLetterFails(c) ==
    /\ pc[c] = "dlq"
    /\ Spend("dlq")
    /\ GoTo(c, "top")
    /\ UNCHANGED <<log, key, position, committed, attempt, shutdown, outcomes>>

\* librdkafka's background auto-commit of the stored offset.
AutoCommit(c) ==
    /\ pc[c] # "down"
    /\ committed[c] # position[c]
    /\ committed' = [committed EXCEPT ![c] = position[c]]
    /\ UNCHANGED <<log, key, pc, position, attempt, shutdown, outcomes, spent>>

\* The partition is revoked and reassigned while the loop is in poll(): reading
\* resumes from the committed offset.
Rejoin(c) ==
    /\ pc[c] = "poll"
    /\ Spend("rejoin")
    /\ position' = [position EXCEPT ![c] = committed[c]]
    /\ GoTo(c, "top")
    /\ UNCHANGED <<log, key, committed, attempt, shutdown, outcomes>>

\* SIGINT or SIGTERM: the handler only sets the flag.
RequestShutdown(c) ==
    /\ pc[c] # "down"
    /\ ~shutdown[c]
    /\ shutdown' = [shutdown EXCEPT ![c] = TRUE]
    /\ UNCHANGED <<log, key, pc, position, committed, attempt, outcomes, spent>>

Crash(c) ==
    /\ pc[c] # "down"
    /\ Spend("crash")
    /\ GoTo(c, "down")
    /\ UNCHANGED <<log, key, position, committed, attempt, shutdown, outcomes>>

\* start_consumer() runs again and resumes from the committed offset.
Restart(c) ==
    /\ pc[c] = "down"
    /\ GoTo(c, "top")
    /\ position' = [position EXCEPT ![c] = committed[c]]
    /\ shutdown' = [shutdown EXCEPT ![c] = FALSE]
    /\ UNCHANGED <<log, key, committed, attempt, outcomes, spent>>

\* Redis drops a key: DEDUP_TTL ran out, or it restarted without the key.
LoseKey(i) ==
    /\ key[i] # "absent"
    /\ Spend("keyLoss")
    /\ key' = [key EXCEPT ![i] = "absent"]
    /\ UNCHANGED <<log, pc, position, committed, attempt, shutdown, outcomes>>

\* The call of the service, and how it ends.
Attempt(c) == AttemptSucceeds(c) \/ AttemptFails(c)

\* Everything else the process does on its own ...
LoopControl(c) ==
    \/ LoopTop(c) \/ PollNothing(c) \/ ClaimNew(c) \/ SkipDuplicate(c)
    \/ SetExpiry(c) \/ DeadLetter(c)

LoopStep(c) == LoopControl(c) \/ Attempt(c)

\* ... and what is done to it.
Disturbance(c) ==
    \/ ClaimRaises(c) \/ ExpiryRaises(c) \/ DeadLetterFails(c)
    \/ AutoCommit(c) \/ Rejoin(c) \/ RequestShutdown(c) \/ Restart(c)

Next ==
    \/ \E i \in Ids : Publish(i) \/ LoseKey(i)
    \/ \E o \in 1..Len(log) : PublishAgain(o)
    \/ \E c \in Consumers :
          LoopStep(c) \/ PollMessage(c) \/ Disturbance(c) \/ Crash(c)

Spec == Init /\ [][Next]_vars

\* A running process keeps executing, and a broker that has messages does not
\* answer every poll with a timeout.  Nothing restarts a stopped consumer: its
\* compose service has no restart policy.
FairSpec ==
    /\ Spec
    /\ \A c \in Consumers : WF_vars(LoopStep(c)) /\ SF_vars(PollMessage(c))
-----------------------------------------------------------------------------
\* Types, with the two facts about offsets that make Current(c) defined: a
\* process was never given more than the topic holds, and it was given at least
\* one message whenever it is handling one.
TypeOK ==
    /\ log \in Seq(Ids)
    /\ key \in [Ids -> KeyState]
    /\ pc \in [Consumers -> PC]
    /\ position \in [Consumers -> Nat]
    /\ committed \in [Consumers -> Nat]
    /\ attempt \in [Consumers -> 1..MaxRetries]
    /\ shutdown \in [Consumers -> BOOLEAN]
    /\ outcomes \in [Ids -> Seq(Outcome)]
    /\ spent \in [Faults -> Nat]
    /\ \A c \in Consumers :
          /\ committed[c] <= Len(log) /\ position[c] <= Len(log)
          /\ pc[c] \in {"claim", "expire", "attempt", "dlq"} => position[c] > 0

\* "Redis SETNX deduplication prevents double-processing" (README, Production
\* Features): SETNX is a lock that is never released, so as long as no key is
\* lost an event has one outcome at most, one worker at most, and no worker once
\* it has its outcome, whatever crashes, redeliveries and Redis errors do.
AtMostOnce ==
    spent["keyLoss"] = 0 => \A i \in Ids :
        /\ Len(outcomes[i]) <= 1
        /\ \A c, d \in Consumers : Working(c, i) /\ Working(d, i) => c = d
        /\ \A c \in Consumers : Working(c, i) => outcomes[i] = <<>>

\* Nothing is silently dropped while processes, Redis and the DLQ work: an event
\* some consumer has moved past was processed or dead-lettered, or is being
\* worked on right now.
Accounted ==
    (spent["crash"] = 0 /\ spent["redis"] = 0 /\ spent["dlq"] = 0) =>
        \A c \in Consumers : \A o \in 1..position[c] :
            \/ outcomes[log[o]] # <<>>
            \/ \E d \in Consumers : Working(d, log[o])
            \/ o = position[c] /\ pc[c] = "claim"

\* A key without a time to live would suppress its event for ever.  One exists
\* only between SETNX and EXPIRE, unless a crash or a Redis error came between.
EveryKeyGetsItsTtl ==
    (spent["crash"] = 0 /\ spent["redis"] = 0) =>
        \A i \in Ids : key[i] = "persistent" =>
            \E c \in Consumers : pc[c] = "expire" /\ Current(c) = i

\* The offset the broker holds for a group never moves back, so a message is
\* redelivered only if it was never committed.  And "SIGTERM handler lets
\* consumers finish the current message before exiting" (README): a process that
\* goes down without crashing leaves no claim behind and nothing uncommitted.
OffsetsAreSafe ==
    [][\A c \in Consumers :
          /\ committed'[c] >= committed[c]
          /\ (pc[c] # "down" /\ pc'[c] = "down" /\ spent' = spent) =>
                /\ \A i \in Ids : ~Working(c, i)
                /\ committed'[c] = position[c]]_vars

\* The retry loop always ends, so a shutdown request is always answered.
ShutdownAnswered ==
    \A c \in Consumers : shutdown[c] ~> (pc[c] = "down")

\* A consumer that eventually stays up and is not asked to stop reads the topic
\* to its end: no failing message blocks the ones behind it.
ReadsToTheEnd ==
    \A c \in Consumers :
        <>[](pc[c] # "down" /\ ~shutdown[c]) => []<>(position[c] = Len(log))
-----------------------------------------------------------------------------
\* "a separate consumer group ... so it receives every message independently of
\* the MA consumer" (anomaly_consumer.py:38-40).  Without any fault, a consumer
\* that has moved past an event has an outcome for it.
EveryGroupHandlesEveryEvent ==
    (\A f \in Faults : spent[f] = 0) =>
        \A c \in Consumers : pc[c] \in {"top", "poll"} =>
            \A o \in 1..position[c] :
                \E n \in 1..Len(outcomes[log[o]]) : outcomes[log[o]][n][1] = c
-----------------------------------------------------------------------------
\* The abstract view: a key of any kind is a mark, and the consumers working on
\* an event hold its open claims.
Claims == [i \in Ids |-> {c \in Consumers : Working(c, i)}]
Marks == [i \in Ids |-> key[i] # "absent"]

Contract == INSTANCE DedupContract WITH marked <- Marks, open <- Claims

\* The loop implements the deduplication contract: every outcome is bought by a
\* claim of its own, also across crashes, rejoins and lost keys.
ImplementsContract == Contract!Spec
=============================================================================
