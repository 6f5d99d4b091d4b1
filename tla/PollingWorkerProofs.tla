------------------------ MODULE PollingWorkerProofs ------------------------
(***************************************************************************)
(* What holds of the polling worker for any set of jobs and intervals.     *)
(* That jobs are polled for ever is about fairness, and is only checked.   *)
(***************************************************************************)
EXTENDS PollingWorker, FiniteSetTheorems, TLAPS

\* The types, with the number of jobs being polled as what it says.
Typed ==
    /\ status \in [Jobs -> Status]
    /\ age \in [Jobs -> Nat]
    /\ wpc \in {"asleep", "ticking"}
    /\ active \subseteq Jobs /\ due \subseteq Jobs
    /\ current = {} \/ \E j \in Jobs : current = {j}
    /\ crashes \in Nat

\* A job leaves the list before it is polled, and every job that the tick will
\* still poll, or is polling, exists and was not polled since the tick began.
StillDue ==
    /\ wpc = "asleep" => current = {}
    /\ current \cap active = {}
    /\ \A j \in active \cup current : status[j] # "absent"
    /\ \A j \in (active \cap due) \cup current : age[j] >= Interval[j]

IInv == Typed /\ StillDue

\* Whoever polls nothing polls at most one job.
LEMMA TypedIsTypeOK == Typed => TypeOK
<1> SUFFICES ASSUME Typed PROVE Cardinality(current) <= 1 /\ current \subseteq Jobs
  BY DEF Typed, TypeOK
<1>1. CASE current = {}
  BY <1>1, FS_EmptySet
<1>2. ASSUME NEW j \in Jobs, current = {j}
      PROVE  Cardinality(current) <= 1 /\ current \subseteq Jobs
  BY <1>2, FS_Singleton
<1> QED
  BY <1>1, <1>2 DEF Typed

\* The worker's list is empty before the first tick.
LEMMA InitIInv == Init => IInv
BY DEF Init, IInv, Typed, StillDue, Status

\* No step puts a job on the list that is not due, or polls one twice in a tick.
LEMMA NextIInv == IInv /\ [Next]_vars => IInv'
<1> SUFFICES ASSUME IInv, [Next]_vars PROVE IInv'
  OBVIOUS
<1> USE DEF IInv, Typed, StillDue, Status, Present
<1>1. ASSUME NEW j \in Jobs, Create(j) PROVE IInv'
  <2>1. j \notin active \cup current
    BY <1>1 DEF Create
  <2> QED
    BY <1>1, <2>1 DEF Create, worker
<1>2. ASSUME NEW j \in Jobs, Delete(j) PROVE IInv'
  BY <1>2 DEF Delete, worker
<1>3. CASE Tick
  <2>1. \A j \in Jobs : age'[j] \in Nat /\ (age[j] >= Interval[j] => age'[j] >= Interval[j])
    BY <1>3, WorkerAssumption DEF Tick
  <2> QED
    BY <1>3, <2>1 DEF Tick, worker
<1>4. CASE Select
  BY <1>4 DEF Select
<1>5. ASSUME NEW j \in Jobs, Skip(j) PROVE IInv'
  BY <1>5 DEF Skip
<1>6. ASSUME NEW j \in Jobs, StartPoll(j) PROVE IInv'
  BY <1>6 DEF StartPoll
<1>7. ASSUME NEW j \in Jobs, PollSucceeds(j) PROVE IInv'
  BY <1>7 DEF PollSucceeds
<1>8. ASSUME NEW j \in Jobs, PollRaises(j) PROVE IInv'
  BY <1>8 DEF PollRaises
<1>9. ASSUME NEW j \in Jobs, PollOfDeleted(j) PROVE IInv'
  BY <1>9 DEF PollOfDeleted, Abort
<1>10. ASSUME NEW j \in Jobs, PollBreaksSession(j) PROVE IInv'
  BY <1>10 DEF PollBreaksSession, Abort
<1>11. CASE Sleep
  BY <1>11 DEF Sleep, Abort
<1>12. CASE Crash
  BY <1>12 DEF Crash, Abort
<1>13. CASE UNCHANGED vars
  BY <1>13 DEF vars, worker
<1> QED
  BY <1>1, <1>2, <1>3, <1>4, <1>5, <1>6, <1>7, <1>8, <1>9, <1>10, <1>11, <1>12, <1>13
     DEF Next, WorkerStep

\* The list and the poll under way always match the table.
LEMMA Inductive == Spec => []IInv
BY InitIInv, NextIInv, PTL DEF Spec
-----------------------------------------------------------------------------
\* The types are right, and at most one poll is under way, for any jobs and intervals.
THEOREM TypeCorrect == Spec => []TypeOK
<1>1. IInv => TypeOK
  BY TypedIsTypeOK DEF IInv
<1> QED
  BY <1>1, Inductive, PTL

\* Two recorded polls of a job are at least its interval apart, however long the tick
\* takes that found it due.
THEOREM Spaced == Spec => PollsAreSpaced
<1>1. IInv => \A j \in Jobs :
          (current = {j} /\ status'[j] = "success" /\ age'[j] = 0) => age[j] >= Interval[j]
  BY DEF IInv, StillDue
<1> QED
  BY <1>1, Inductive, PTL DEF PollsAreSpaced

\* A deleted job stays deleted, whatever its poll was doing when it was deleted.
THEOREM DeletedForEver == Spec => DeletedStaysDeleted
<1>1. IInv /\ [Next]_vars => \A j \in Jobs : status[j] = "deleted" => status'[j] = "deleted"
  <2> SUFFICES ASSUME IInv, [Next]_vars, NEW j \in Jobs, status[j] = "deleted"
               PROVE  status'[j] = "deleted"
    OBVIOUS
  <2> USE DEF IInv, Typed, Present
  <2>1. ASSUME NEW k \in Jobs, \/ Create(k) \/ Delete(k) \/ PollSucceeds(k) \/ PollRaises(k)
        PROVE  status'[j] = "deleted"
    BY <2>1 DEF Create, Delete, PollSucceeds, PollRaises
  <2>2. ASSUME NEW k \in Jobs,
               \/ Skip(k) \/ StartPoll(k) \/ PollOfDeleted(k) \/ PollBreaksSession(k)
        PROVE  status'[j] = "deleted"
    BY <2>2 DEF Skip, StartPoll, PollOfDeleted, PollBreaksSession
  <2>3. CASE Tick \/ Select \/ Sleep \/ Crash \/ UNCHANGED vars
    BY <2>3 DEF Tick, Select, Sleep, Crash, vars
  <2> QED
    BY <2>1, <2>2, <2>3 DEF Next, WorkerStep
<1> QED
  BY <1>1, Inductive, PTL DEF Spec, DeletedStaysDeleted
=============================================================================
