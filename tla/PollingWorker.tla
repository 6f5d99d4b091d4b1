--------------------------- MODULE PollingWorker ---------------------------
(***************************************************************************)
(* The polling worker of the API process (app/services/                    *)
(* polling_worker_service.py) and the API that creates and deletes its     *)
(* jobs (app/api/poll.py).                                                 *)
(*                                                                         *)
(* A tick selects the jobs that have not failed, notes the time, and polls *)
(* those that were due at that time one after the other, in one database   *)
(* session.  The API's handlers interleave at every await of a poll.  A    *)
(* poll is one lookup of PriceLookup; only how it ends matters here.       *)
(***************************************************************************)
EXTENDS Naturals, FiniteSets

CONSTANTS
    Jobs,       \* the ids of all jobs there will be
    Interval,   \* [Jobs -> Nat]: seconds between polls, in clock ticks
    MaxCrashes  \* bound: crashes of the API process

ASSUME WorkerAssumption ==
    /\ Interval \in [Jobs -> Nat]
    /\ MaxCrashes \in Nat

VARIABLES
    status,   \* [Jobs -> Status]: the polling_jobs table
    age,      \* [Jobs -> Nat]: time since last_polled_at, up to Interval
    wpc,      \* where the worker is
    active,   \* jobs this tick has still to look at (active_jobs)
    due,      \* jobs that were due when the tick began (now >= due_at)
    current,  \* {} or the one job being polled
    crashes   \* crashes so far

worker == <<wpc, active, due, current>>
vars == <<status, age, worker, crashes>>

Status == {"absent", "pending", "success", "failed", "deleted"}
Present == {"pending", "success", "failed"}

Init ==
    /\ status = [j \in Jobs |-> "absent"]
    /\ age = [j \in Jobs |-> 0]
    /\ wpc = "asleep" /\ active = {} /\ due = {} /\ current = {}
    /\ crashes = 0
-----------------------------------------------------------------------------
\* POST /prices/poll inserts a job; last_polled_at defaults to now().
Create(j) ==
    /\ status[j] = "absent"
    /\ status' = [status EXCEPT ![j] = "pending"]
    /\ age' = [age EXCEPT ![j] = 0]
    /\ UNCHANGED <<worker, crashes>>

\* DELETE /prices/poll/{job_id}
Delete(j) ==
    /\ status[j] \in Present
    /\ status' = [status EXCEPT ![j] = "deleted"]
    /\ UNCHANGED <<age, worker, crashes>>

Tick ==
    /\ \E j \in Jobs : age[j] < Interval[j]
    /\ age' = [j \in Jobs |-> IF age[j] < Interval[j] THEN age[j] + 1 ELSE age[j]]
    /\ UNCHANGED <<status, worker, crashes>>

\* Mutant: a job counts as due one tick early.
SelectEarly ==
    /\ wpc = "asleep"
    /\ wpc' = "ticking"
    /\ active' = {j \in Jobs : status[j] \in {"pending", "success"}}
    /\ due' = {j \in active' : age[j] + 1 >= Interval[j]}
    /\ UNCHANGED <<status, age, current, crashes>>

\* Mutant: only jobs that were never polled are selected.
SelectPending ==
    /\ wpc = "asleep"
    /\ wpc' = "ticking"
    /\ active' = {j \in Jobs : status[j] = "pending"}
    /\ due' = {j \in active' : age[j] >= Interval[j]}
    /\ UNCHANGED <<status, age, current, crashes>>

\* The worker wakes up and selects its jobs.
Select ==
    /\ wpc = "asleep"
    /\ wpc' = "ticking"
    /\ active' = {j \in Jobs : status[j] \in {"pending", "success"}}
    /\ due' = {j \in active' : age[j] >= Interval[j]}
    /\ UNCHANGED <<status, age, current, crashes>>

\* The next job of the list, in the database's order, is not due: continue.
Skip(j) ==
    /\ wpc = "ticking" /\ current = {}
    /\ j \in active \ due
    /\ active' = active \ {j}
    /\ UNCHANGED <<status, age, wpc, due, current, crashes>>

\* Mutant: polls run as tasks of their own.
StartPollAsTask(j) ==
    /\ wpc = "ticking"
    /\ j \in active \cap due
    /\ active' = active \ {j}
    /\ current' = current \cup {j}
    /\ UNCHANGED <<status, age, wpc, due, crashes>>

\* It is due: get_latest_price is called.
StartPoll(j) ==
    /\ wpc = "ticking" /\ current = {}
    /\ j \in active \cap due
    /\ active' = active \ {j}
    /\ current' = {j}
    /\ UNCHANGED <<status, age, wpc, due, crashes>>

\* The outer `except`: the rest of the tick is given up.
Abort ==
    /\ wpc' = "asleep"
    /\ active' = {} /\ due' = {} /\ current' = {}

\* The poll returned and the job's row is still there.
PollSucceeds(j) ==
    /\ current = {j}
    /\ status[j] \in Present
    /\ status' = [status EXCEPT ![j] = "success"]
    /\ age' = [age EXCEPT ![j] = 0]
    /\ current' = {}
    /\ UNCHANGED <<wpc, active, due, crashes>>

\* The poll raised, and left the session usable: an HTTPException of the
\* provider, an error of Redis, a TypeError.
PollRaises(j) ==
    /\ current = {j}
    /\ status[j] \in Present
    /\ status' = [status EXCEPT ![j] = "failed"]
    /\ current' = {}
    /\ UNCHANGED <<age, wpc, active, due, crashes>>

\* Mutant: the worker's copy of the job is merged into the table.
PollOfDeletedMerged(j) ==
    /\ current = {j}
    /\ status[j] = "deleted"
    /\ status' = [status EXCEPT ![j] = "success"]
    /\ current' = {}
    /\ UNCHANGED <<age, wpc, active, due, crashes>>

\* However the poll ended, the UPDATE of a deleted job matches no row:
\* StaleDataError.
PollOfDeleted(j) ==
    /\ current = {j}
    /\ status[j] = "deleted"
    /\ Abort
    /\ UNCHANGED <<status, age, crashes>>

\* A statement of the poll failed.  The session refuses everything until it is
\* rolled back, so the handler that would mark the job as failed raises too.  The
\* job stays what it was, still due: an insert that fails for good (no partition
\* for the quote's time) fails again in the next tick, and for ever.
PollBreaksSession(j) ==
    /\ current = {j}
    /\ Abort
    /\ UNCHANGED <<status, age, crashes>>

\* Every job of the list was looked at: sleep(WORKER_TICK_INTERVAL).
Sleep ==
    /\ wpc = "ticking" /\ current = {} /\ active = {}
    /\ Abort
    /\ UNCHANGED <<status, age, crashes>>

\* The process dies; lifespan() starts a new worker.
Crash ==
    /\ crashes < MaxCrashes
    /\ crashes' = crashes + 1
    /\ Abort
    /\ UNCHANGED <<status, age>>

WorkerStep ==
    \/ Select \/ Sleep
    \/ \E j \in Jobs :
          \/ Skip(j) \/ StartPoll(j)
          \/ PollSucceeds(j) \/ PollRaises(j) \/ PollOfDeleted(j) \/ PollBreaksSession(j)

Next ==
    \/ WorkerStep \/ Tick \/ Crash
    \/ \E j \in Jobs : Create(j) \/ Delete(j)

Spec == Init /\ [][Next]_vars

\* The worker's task is scheduled, every await of a poll comes back (the HTTP
\* clients have timeouts), and time passes.
FairSpec == Spec /\ WF_vars(WorkerStep) /\ WF_vars(Tick)
-----------------------------------------------------------------------------
TypeOK ==
    /\ status \in [Jobs -> Status]
    /\ age \in [Jobs -> Nat]
    /\ wpc \in {"asleep", "ticking"}
    /\ active \subseteq Jobs /\ due \subseteq Jobs
    /\ current \subseteq Jobs /\ Cardinality(current) <= 1
    /\ crashes \in Nat

\* A poll that is recorded comes at least Interval after the one recorded
\* before, although its job was found due at the start of the tick, and other
\* jobs were polled since.
PollsAreSpaced ==
    [][\A j \in Jobs :
          (current = {j} /\ status'[j] = "success" /\ age'[j] = 0) => age[j] >= Interval[j]]_vars

\* A job deleted while its poll is running stays deleted: the worker's stale
\* copy of it brings no row back, whatever the poll's result is.
DeletedStaysDeleted ==
    [][\A j \in Jobs : status[j] = "deleted" => status'[j] = "deleted"]_vars

\* The worker outlives every error, and the only job that is neither deleted nor
\* failed and yet no longer polled is one whose turn never comes: polls of other
\* jobs break the session again and again, and each takes the rest of its tick with
\* it, since it leaves its own job due.  A job's own failures do not starve it.
JobsArePolled ==
    \A j \in Jobs :
        <>[](status[j] \in {"pending", "success"}) =>
            \/ []<>(current = {j})
            \/ \E k \in Jobs \ {j} : []<><<PollBreaksSession(k)>>_vars
=============================================================================
