------------------------------- MODULE Alerts -------------------------------
(***************************************************************************)
(* From a detection to the webhooks.  Two kinds of workers store alerts    *)
(* and announce them:                                                      *)
(*                                                                         *)
(*  - the anomaly consumer, for each event it has claimed (ConsumerLoop):  *)
(*    up to MAX_RETRIES times AnomalyDetector.detect_and_store and then    *)
(*    dispatch_alerts, or else the DLQ (app/kafka/anomaly_consumer.py,     *)
(*    app/services/anomaly_detector.py, app/services/webhook_service.py);  *)
(*  - a request for the risk of a portfolio, once: _check_thresholds and   *)
(*    then async_dispatch_alerts (app/services/risk_engine.py).            *)
(*                                                                         *)
(* The alerts are committed before any webhook is looked up.  What the     *)
(* detectors and thresholds find is left open: it depends on the prices    *)
(* there are at each attempt.                                              *)
(***************************************************************************)
EXTENDS Integers, Sequences, FiniteSets

CONSTANTS
    Consumers,   \* anomaly consumers
    Requests,    \* requests for a portfolio's risk
    Hooks,       \* webhooks
    Subjects,    \* symbols, and portfolio ids, in upper case
    Wants,       \* [Hooks -> SUBSET Kind]: what passes a webhook's filters
    Findings,    \* [Consumers \cup Requests -> SUBSET Seq(Kind)]: what may be found
    MaxRetries,  \* attempts of the consumer
    MaxPosts,    \* settings.webhook_max_retries
    MaxJobs,     \* bound: events and requests
    MaxFaults    \* bound: failed posts, database errors and crashes, together

Workers == Consumers \cup Requests

\* What the filters look at; the rank of a min_severity that is none of
\* the three is 0, so that it lets everything pass.
Types == {"zscore_spike", "zscore_drop", "ma_crossover",
          "var_breach", "drawdown_breach", "concentration_breach", "volatility_breach"}
Severities == {"low", "medium", "high"}
Kind == [type : Types, severity : Severities, subject : Subjects]

ASSUME AlertsAssumption ==
    /\ Consumers \cap Requests = {}
    /\ Wants \in [Hooks -> SUBSET Kind]
    /\ DOMAIN Findings = Workers
    /\ \A w \in Workers : \A found \in Findings[w] : found \in Seq(Kind)
    /\ MaxRetries \in Nat \ {0} /\ MaxPosts \in Nat \ {0}
    /\ MaxJobs \in Nat /\ MaxFaults \in Nat

\* detect_and_store asks each detector once, and _check_thresholds looks at each threshold
\* once, and stops at the first concentrated symbol.
ASSUME OneOfEachType ==
    \A w \in Workers : \A found \in Findings[w] :
        \A m, n \in DOMAIN found : found[m].type = found[n].type => m = n

VARIABLES
    alerts,   \* the alerts table in order of insertion: a sequence of Alert
    hooks,    \* [Hooks -> {"absent", "registered", "deleted"}]: the webhooks table
    pc,       \* [Workers -> PC]
    job,      \* [Workers -> Nat]: the event or request being worked on
    attempt,  \* [Workers -> Nat]
    batch,    \* [Workers -> Seq(Nat)]: alerts this attempt has still to announce
    targets,  \* [Workers -> SUBSET Hooks]: the webhooks that were read
    left,     \* [Workers -> SUBSET Hooks]: those still to get the current alert
    posts,    \* for each alert, [Hooks -> Seq(BOOLEAN)]: how its deliveries went
    dlq,      \* jobs that were dead-lettered
    jobs,     \* jobs begun
    known,    \* [1..MaxJobs -> SUBSET Hooks]: webhooks when the job began (history)
    errors, crashes

worker == <<pc, job, attempt, batch, targets, left>>
vars == <<alerts, hooks, worker, posts, dlq, jobs, known, errors, crashes>>

Alert == [job : 1..MaxJobs, kind : Kind]
PC == {"idle", "detect", "query", "load", "deliver"}
Registered == {h \in Hooks : hooks[h] = "registered"}

Init ==
    /\ alerts = <<>>
    /\ hooks = [h \in Hooks |-> "absent"]
    /\ pc = [w \in Workers |-> "idle"]
    /\ job = [w \in Workers |-> 0]
    /\ attempt = [w \in Workers |-> 1]
    /\ batch = [w \in Workers |-> <<>>]
    /\ targets = [w \in Workers |-> {}]
    /\ left = [w \in Workers |-> {}]
    /\ posts = <<>>
    /\ dlq = {} /\ jobs = 0
    /\ known = [j \in 1..MaxJobs |-> {}]
    /\ errors = 0 /\ crashes = 0

\* Everything a worker knows about the attempt is local to it.
Locals(w, b, t, l) ==
    /\ batch' = [batch EXCEPT ![w] = b]
    /\ targets' = [targets EXCEPT ![w] = t]
    /\ left' = [left EXCEPT ![w] = l]

Forget(w) == Locals(w, <<>>, {}, {})

GoTo(w, where) == pc' = [pc EXCEPT ![w] = where]

Finish(w) ==
    /\ GoTo(w, "idle")
    /\ Forget(w)
    /\ job' = [job EXCEPT ![w] = 0]
    /\ attempt' = [attempt EXCEPT ![w] = 1]
-----------------------------------------------------------------------------
\* POST and DELETE /webhooks
Register(h) ==
    /\ hooks[h] = "absent"
    /\ hooks' = [hooks EXCEPT ![h] = "registered"]
    /\ UNCHANGED <<alerts, worker, posts, dlq, jobs, known, errors, crashes>>

Delete(h) ==
    /\ hooks[h] = "registered"
    /\ hooks' = [hooks EXCEPT ![h] = "deleted"]
    /\ UNCHANGED <<alerts, worker, posts, dlq, jobs, known, errors, crashes>>

\* The consumer has claimed an event, or a client asks for the risk.
Begin(w) ==
    /\ pc[w] = "idle" /\ jobs < MaxJobs
    /\ jobs' = jobs + 1
    /\ job' = [job EXCEPT ![w] = jobs + 1]
    /\ known' = [known EXCEPT ![jobs + 1] = Registered]
    /\ attempt' = [attempt EXCEPT ![w] = 1]
    /\ GoTo(w, "detect")
    /\ UNCHANGED <<alerts, hooks, batch, targets, left, posts, dlq, errors, crashes>>

\* The alerts of an attempt are added in one transaction.
Store(w, found) ==
    /\ alerts' = alerts \o [n \in DOMAIN found |-> [job |-> job[w], kind |-> found[n]]]
    /\ posts' = posts \o [n \in DOMAIN found |-> [h \in Hooks |-> <<>>]]

\* Nothing is wrong with the prices: the job is done.
FindNothing(w) ==
    /\ pc[w] = "detect"
    /\ <<>> \in Findings[w]
    /\ Finish(w)
    /\ UNCHANGED <<alerts, hooks, posts, dlq, jobs, known, errors, crashes>>

\* Alerts are stored and committed.
Detect(w) ==
    /\ pc[w] = "detect"
    /\ \E found \in Findings[w] \ {<<>>} :
          /\ Store(w, found)
          /\ Locals(w, [n \in DOMAIN found |-> Len(alerts) + n], {}, {})
    /\ GoTo(w, "query")
    /\ UNCHANGED <<hooks, job, attempt, dlq, jobs, known, errors, crashes>>

\* The webhooks are read; if there are none, that is all.
Query(w) ==
    /\ pc[w] = "query"
    /\ IF Registered = {}
          THEN Finish(w)
          ELSE GoTo(w, "load") /\ Locals(w, batch[w], Registered, {}) /\ UNCHANGED <<job, attempt>>
    /\ UNCHANGED <<alerts, hooks, posts, dlq, jobs, known, errors, crashes>>

Passes(h, id) == alerts[id].kind \in Wants[h]

\* Mutant: the loop over the webhooks is left at the first that does not match.
LoadUntilMismatch(w) ==
    /\ pc[w] = "load"
    /\ Locals(w, batch[w], targets[w],
              IF \A h \in targets[w] : Passes(h, Head(batch[w])) THEN targets[w] ELSE {})
    /\ GoTo(w, "deliver")
    /\ UNCHANGED <<alerts, hooks, job, attempt, posts, dlq, jobs, known, errors, crashes>>

\* The next alert of the attempt, and the webhooks whose filters it passes.
Load(w) ==
    /\ pc[w] = "load"
    /\ Locals(w, batch[w], targets[w], {h \in targets[w] : Passes(h, Head(batch[w]))})
    /\ GoTo(w, "deliver")
    /\ UNCHANGED <<alerts, hooks, job, attempt, posts, dlq, jobs, known, errors, crashes>>

\* Attempts so far at delivering this alert to this webhook.
Tried(id, h) == Len(posts[id][h])

\* The posts that failed: alert, webhook and number of the attempt.
Failures ==
    {p \in (DOMAIN alerts) \X Hooks \X (1..MaxPosts) :
        p[3] <= Tried(p[1], p[2]) /\ ~posts[p[1]][p[2]][p[3]]}

MayFail == Cardinality(Failures) + errors + crashes < MaxFaults

\* _send_with_retry keeps on with the webhook it has begun with.
Turn(w, h) ==
    /\ pc[w] = "deliver"
    /\ h \in left[w]
    /\ \A g \in left[w] : Tried(Head(batch[w]), g) > 0 => g = h

Posted(w, h, ok) == posts' = [posts EXCEPT ![Head(batch[w])][h] = Append(@, ok)]

\* Mutant: the loop over the attempts goes on after a success.
PostSucceedsOnAndOn(w, h) ==
    /\ Turn(w, h)
    /\ Posted(w, h, TRUE)
    /\ Locals(w, batch[w], targets[w],
              IF Tried(Head(batch[w]), h) + 1 < MaxPosts THEN left[w] ELSE left[w] \ {h})
    /\ UNCHANGED <<alerts, hooks, pc, job, attempt, dlq, jobs, known, errors, crashes>>

\* The webhook answers with a success.
PostSucceeds(w, h) ==
    /\ Turn(w, h)
    /\ Posted(w, h, TRUE)
    /\ Locals(w, batch[w], targets[w], left[w] \ {h})
    /\ UNCHANGED <<alerts, hooks, pc, job, attempt, dlq, jobs, known, errors, crashes>>

\* Mutant: one attempt too many.
MistakeOnceMore(w) ==
    IF w \in Consumers /\ attempt[w] <= MaxRetries
    THEN /\ attempt' = [attempt EXCEPT ![w] = @ + 1]
         /\ GoTo(w, "detect") /\ Forget(w)
         /\ UNCHANGED <<job, dlq>>
    ELSE /\ Finish(w)
         /\ dlq' = IF w \in Consumers THEN dlq \cup {job[w]} ELSE dlq

\* The attempt is over.  The consumer tries again, or publishes to the DLQ after
\* its last attempt; a request ends with a 500.
Mistake(w) ==
    IF w \in Consumers /\ attempt[w] < MaxRetries
    THEN /\ attempt' = [attempt EXCEPT ![w] = @ + 1]
         /\ GoTo(w, "detect") /\ Forget(w)
         /\ UNCHANGED <<job, dlq>>
    ELSE /\ Finish(w)
         /\ dlq' = IF w \in Consumers THEN dlq \cup {job[w]} ELSE dlq

\* Mutant: the last failure is raised.
PostFailsLoudly(w, h) ==
    /\ Turn(w, h)
    /\ Posted(w, h, FALSE)
    /\ IF Tried(Head(batch[w]), h) + 1 < MaxPosts
          THEN UNCHANGED <<worker, dlq>>
          ELSE Mistake(w)
    /\ UNCHANGED <<alerts, hooks, jobs, known, errors, crashes>>

\* It does not, or not in time: try again, or give it up, silently.
PostFails(w, h) ==
    /\ Turn(w, h)
    /\ MayFail
    /\ Posted(w, h, FALSE)
    /\ Locals(w, batch[w], targets[w],
              IF Tried(Head(batch[w]), h) + 1 < MaxPosts THEN left[w] ELSE left[w] \ {h})
    /\ UNCHANGED <<alerts, hooks, pc, job, attempt, dlq, jobs, known, errors, crashes>>

\* All webhooks are done with this alert.
NextAlert(w) ==
    /\ pc[w] = "deliver" /\ left[w] = {}
    /\ IF Len(batch[w]) > 1
          THEN /\ GoTo(w, "load") /\ Locals(w, Tail(batch[w]), targets[w], {})
               /\ UNCHANGED <<job, attempt>>
          ELSE Finish(w)
    /\ UNCHANGED <<alerts, hooks, posts, dlq, jobs, known, errors, crashes>>
-----------------------------------------------------------------------------
DatabaseRaises == MayFail /\ errors' = errors + 1

\* A statement of the detection raises, ...
DetectRaises(w) ==
    /\ pc[w] = "detect"
    /\ DatabaseRaises /\ Mistake(w)
    /\ UNCHANGED <<alerts, hooks, posts, jobs, known, crashes>>

\* ... or the alerts were committed and the answer got lost (or, for a request,
\* reading them back failed), ...
StoredAndRaises(w) ==
    /\ pc[w] = "detect"
    /\ \E found \in Findings[w] \ {<<>>} : Store(w, found)
    /\ DatabaseRaises /\ Mistake(w)
    /\ UNCHANGED <<hooks, jobs, known, crashes>>

\* ... or reading the webhooks raises, or, in the consumer, an alert, whose
\* attributes have expired with the commit.
DispatchRaises(w) ==
    /\ pc[w] = "query" \/ (pc[w] = "load" /\ w \in Consumers)
    /\ DatabaseRaises /\ Mistake(w)
    /\ UNCHANGED <<alerts, hooks, posts, jobs, known, crashes>>

\* The worker's process is killed; the event stays claimed.
Crash(w) ==
    /\ pc[w] # "idle"
    /\ MayFail /\ crashes' = crashes + 1
    /\ Finish(w)
    /\ UNCHANGED <<alerts, hooks, posts, dlq, jobs, known, errors>>

\* What a worker does while the database works.
Step(w) ==
    \/ FindNothing(w) \/ Detect(w) \/ Query(w) \/ Load(w) \/ NextAlert(w)
    \/ \E h \in Hooks : PostSucceeds(w, h) \/ PostFails(w, h)

Next ==
    \/ \E h \in Hooks : Register(h) \/ Delete(h)
    \/ \E w \in Workers :
          \/ Begin(w) \/ Step(w)
          \/ DetectRaises(w) \/ StoredAndRaises(w) \/ DispatchRaises(w) \/ Crash(w)

Spec == Init /\ [][Next]_vars
-----------------------------------------------------------------------------
TypeOK ==
    /\ alerts \in Seq(Alert)
    /\ hooks \in [Hooks -> {"absent", "registered", "deleted"}]
    /\ pc \in [Workers -> PC]
    /\ job \in [Workers -> 0..MaxJobs]
    /\ attempt \in [Workers -> 1..MaxRetries]
    /\ batch \in [Workers -> Seq(1..Len(alerts))]
    /\ targets \in [Workers -> SUBSET Hooks]
    /\ left \in [Workers -> SUBSET Hooks]
    /\ posts \in Seq([Hooks -> Seq(BOOLEAN)]) /\ Len(posts) = Len(alerts)
    /\ dlq \subseteq 1..MaxJobs /\ jobs \in 0..MaxJobs
    /\ known \in [1..MaxJobs -> SUBSET Hooks]
    /\ errors \in Nat /\ crashes \in Nat
    /\ \A w \in Workers : pc[w] \in {"query", "load", "deliver"} => batch[w] # <<>>

\* How many alerts of a type the job has stored.
Copies(j, t) ==
    Cardinality({id \in DOMAIN alerts : alerts[id].job = j /\ alerts[id].kind.type = t})

\* An event or request stores an alert once.  Only a database error makes it
\* store one again, and never more often than it is tried: webhooks that fail
\* cause no retry of the detection that is already stored, and send no event to
\* the DLQ.
OneAlertPerType ==
    /\ \A j \in 1..jobs : \A t \in Types :
          Copies(j, t) <= (IF errors = 0 THEN 1 ELSE MaxRetries)
    /\ dlq # {} => errors >= MaxRetries

\* Some worker has still to announce the alert.
Pending(id) ==
    \E w \in Workers : pc[w] # "idle" /\ \E n \in DOMAIN batch[w] : batch[w][n] = id

Delivered(id, h) ==
    \/ Tried(id, h) = MaxPosts
    \/ \E n \in DOMAIN posts[id][h] : posts[id][h][n]

\* Every stored alert is delivered to each webhook that was registered before
\* its job began, still is, and whose filters it passes, or MaxPosts posts have
\* failed; a failing webhook takes nothing from the others.
AlertsAreAnnounced ==
    (errors = 0 /\ crashes = 0) =>
        \A id \in DOMAIN alerts : ~Pending(id) =>
            \A h \in known[alerts[id].job] :
                (hooks[h] = "registered" /\ Passes(h, id)) => Delivered(id, h)

\* A webhook gets an alert at most once, after at most MaxPosts - 1 failures,
\* and only if it passes its filters.
DeliveredOnce ==
    \A id \in DOMAIN alerts : \A h \in Hooks :
        /\ Tried(id, h) > 0 => Passes(h, id)
        /\ Tried(id, h) <= MaxPosts
        /\ \A n \in 1..Tried(id, h) - 1 : ~posts[id][h][n]
=============================================================================
