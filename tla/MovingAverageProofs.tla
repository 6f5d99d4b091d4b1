------------------------ MODULE MovingAverageProofs ------------------------
(***************************************************************************)
(* Theorems about MovingAverage, for any set of consumers, events,         *)
(* timestamps and providers and any window: the composition is a           *)
(* ConsumerLoop, so its theorems hold here too, and averages are neither   *)
(* doubled nor missing.                                                    *)
(***************************************************************************)
EXTENDS MovingAverage, ConsumerLoopProofs

USE LoopAssumption, MaAssumption DEF GoTo, Record

\* A step of the composition is a step of the loop, or leaves its state alone.
LEMMA LoopStepOrStutter ==
    ASSUME [MaNext]_allVars
    PROVE  [Next]_vars
  <1>1. ASSUME NEW i \in Ids, StorePoint(i) PROVE [Next]_vars
    BY <1>1 DEF StorePoint
  <1>2. ASSUME NEW i \in Ids, Announce(i) PROVE [Next]_vars
    BY <1>2 DEF Announce, Next
  <1>3. ASSUME NEW c \in Consumers, OwnStep(c) PROVE [Next]_vars
    <2>1. CASE LoopControl(c)
      BY <2>1 DEF Next, LoopStep
    <2>2. CASE Attempt(c)
      BY <2>2 DEF Next, LoopStep
    <2>3. ASSUME AttemptOfMa PROVE [Next]_vars
      <3>1. CASE ReadWindow \/ NotRecorded
        BY <3>1 DEF ReadWindow, NotRecorded
      <3>2. CASE TooFewPoints \/ AlreadyRecorded \/ Insert
        BY <3>2 DEF TooFewPoints, AlreadyRecorded, Insert, Next, LoopStep, Attempt
      <3>3. CASE InsertUnacknowledged \/ StatementRaises
        BY <3>3 DEF InsertUnacknowledged, StatementRaises, Next, LoopStep, Attempt
      <3> QED
        BY <2>3, <3>1, <3>2, <3>3 DEF AttemptOfMa
    <2> QED
      BY <1>3, <2>1, <2>2, <2>3 DEF OwnStep
  <1>4. ASSUME NEW c \in Consumers, Fetch(c) \/ CrashOf(c) \/ Disturbance(c) PROVE [Next]_vars
    BY <1>4 DEF Fetch, CrashOf, Next
  <1>5. ASSUME NEW i \in Ids, LoseKey(i) PROVE [Next]_vars
    BY <1>5 DEF Next
  <1>6. ASSUME NEW o \in 1..Len(log), PublishAgain(o) PROVE [Next]_vars
    BY <1>6 DEF Next
  <1>7. CASE UNCHANGED allVars
    BY <1>7 DEF allVars
  <1> QED
    BY <1>1, <1>2, <1>3, <1>4, <1>5, <1>6, <1>7 DEF MaNext

\* The composition implements ConsumerLoop: splitting the attempt into its
\* database statements adds no behaviour to the loop.
THEOREM ComposesTheLoop == MaSpec => Spec
  <1>1. MaInit => Init
    BY DEF MaInit
  <1>2. [MaNext]_allVars => [Next]_vars
    BY LoopStepOrStutter
  <1> QED
    BY <1>1, <1>2, PTL DEF MaSpec, Spec

\* So whatever is proved of the loop holds in the composition.
THEOREM NoDoubleAveraging == MaSpec => []AtMostOnce
  BY ComposesTheLoop, NoDoubleProcessing, PTL
-----------------------------------------------------------------------------
(***************************************************************************)
(* The inductive invariant.  That averages are unique needs that an attempt *)
(* about to insert has found nothing, and nobody else inserts.  That what  *)
(* is processed is averaged needs that the newest timestamp an attempt has *)
(* read is not older than its event, because the event's point was stored. *)
(***************************************************************************)

ProcessedByMa(i) == \E n \in 1..Len(outcomes[i]) : outcomes[i][n] = <<Ma, "processed">>

MaInv ==
    /\ MaTypeOK
    /\ OneAveragePerTimestamp
    /\ step = "insert" => ~Stored
    /\ step # "read" => latest >= Stamp[Current(Ma)]
    /\ \A i \in Ids : ProcessedByMa(i) => \E k \in 1..Len(points) : points[k] = i
    /\ ProcessedIsAveraged

\* A step outside the attempts of the MA consumer: it leaves their state alone,
\* and the message they are about, and records nothing in their name.
Outside ==
    /\ UNCHANGED maVars
    /\ pc[Ma] = "attempt" => pc'[Ma] = "attempt" /\ Current(Ma)' = Current(Ma)
    /\ \A i \in Ids : ProcessedByMa(i)' => ProcessedByMa(i)
    /\ \A o \in 1..Len(log') :
          \/ \E n \in 1..Len(points) : points[n] = log'[o]
          \/ \E p \in 1..Len(log) : log[p] = log'[o]

LEMMA OutsideKeeps ==
    ASSUME MaInv, Outside
    PROVE  MaInv'
  <1> USE DEF MaInv, Outside, maVars
  <1>1. MaTypeOK'
    BY DEF MaTypeOK
  <1>2. OneAveragePerTimestamp'
    BY DEF OneAveragePerTimestamp
  <1>3. (step = "insert" => ~Stored)'
    BY DEF Stored, Wanted, MaTypeOK
  <1>4. (step # "read" => latest >= Stamp[Current(Ma)])'
    BY DEF MaTypeOK
  <1>5. ProcessedIsAveraged'
    <2> SUFFICES ASSUME NEW k \in 1..Len(points), k >= Window, ProcessedByMa(points[k])'
                 PROVE  \E n \in 1..Len(averages) :
                           /\ averages[n].provider = Provider[points[k]]
                           /\ averages[n].timestamp >= Stamp[points[k]]
      BY DEF ProcessedIsAveraged, ProcessedByMa
    <2>1. points[k] \in Ids
      BY DEF MaTypeOK
    <2>2. ProcessedByMa(points[k])
      BY <2>1
    <2> QED
      BY <2>2 DEF ProcessedIsAveraged, ProcessedByMa
  <1> QED
    BY <1>1, <1>2, <1>3, <1>4, <1>5

\* Recording an outcome adds one entry to the history of one event.
LEMMA RecordEffect ==
    ASSUME TypeOK, NEW c \in Consumers, NEW kind \in {"processed", "dlq"}, Record(c, kind),
           NEW i \in Ids, NEW n \in 1..Len(outcomes'[i])
    PROVE  \/ n \in 1..Len(outcomes[i]) /\ outcomes'[i][n] = outcomes[i][n]
           \/ Current(c) = i /\ outcomes'[i][n] = <<c, kind>>
  <1>1. <<c, kind>> \in Outcome /\ outcomes[i] \in Seq(Outcome)
    BY DEF Outcome, TypeOK
  <1>2. CASE Current(c) = i
    <2>1. outcomes'[i] = Append(outcomes[i], <<c, kind>>)
      BY <1>2 DEF TypeOK
    <2> QED
      BY <1>1, <1>2, <2>1
  <1>3. CASE Current(c) # i
    BY <1>3 DEF TypeOK
  <1> QED
    BY <1>2, <1>3
\* The message the MA consumer is about stays the same while it is in an attempt
\* and others, or the environment, take a step.
Undisturbed == pc[Ma] = "attempt" => pc'[Ma] = "attempt" /\ Current(Ma)' = Current(Ma)

LEMMA OthersLeaveMaAlone ==
    ASSUME TypeOK,
           \/ \E c \in Consumers : LoopControl(c) \/ PollMessage(c) \/ Disturbance(c)
           \/ \E c \in Consumers \ {Ma} : Attempt(c) \/ Crash(c)
           \/ \E i \in Ids : LoseKey(i)
    PROVE  log' = log /\ Undisturbed
  <1> USE DEF TypeOK, Current, Undisturbed
  <1>1. ASSUME NEW c \in Consumers, LoopControl(c) PROVE log' = log /\ Undisturbed
    BY <1>1 DEF LoopControl, LoopTop, PollNothing, ClaimNew, SkipDuplicate, SetExpiry, DeadLetter
  <1>2. ASSUME NEW c \in Consumers, PollMessage(c) PROVE log' = log /\ Undisturbed
    BY <1>2 DEF PollMessage
  <1>3. ASSUME NEW c \in Consumers, Disturbance(c) PROVE log' = log /\ Undisturbed
    BY <1>3 DEF Disturbance, ClaimRaises, ExpiryRaises, DeadLetterFails, AutoCommit, Rejoin,
                RequestShutdown, Restart
  <1>4. ASSUME NEW c \in Consumers \ {Ma}, Attempt(c) \/ Crash(c)
        PROVE  log' = log /\ Undisturbed
    BY <1>4 DEF Attempt, Crash, AttemptSucceeds, AttemptFails
  <1>5. ASSUME NEW i \in Ids, LoseKey(i) PROVE log' = log /\ Undisturbed
    BY <1>5 DEF LoseKey
  <1> QED
    BY <1>1, <1>2, <1>3, <1>4, <1>5

\* They record nothing in the name of the MA consumer but dead letters.
LEMMA OthersProcessNothingForMa ==
    ASSUME TypeOK, NEW i \in Ids, ProcessedByMa(i)',
           \/ \E c \in Consumers : LoopControl(c) \/ PollMessage(c) \/ Disturbance(c)
           \/ \E c \in Consumers \ {Ma} : Attempt(c) \/ Crash(c)
           \/ \E j \in Ids : LoseKey(j)
    PROVE  ProcessedByMa(i)
  <1>1. ASSUME UNCHANGED outcomes PROVE ProcessedByMa(i)
    BY <1>1 DEF ProcessedByMa
  <1>2. ASSUME NEW c \in Consumers, NEW kind \in {"processed", "dlq"}, Record(c, kind),
               <<c, kind>> # <<Ma, "processed">>
        PROVE  ProcessedByMa(i)
    <2>1. PICK n \in 1..Len(outcomes'[i]) : outcomes'[i][n] = <<Ma, "processed">>
      BY DEF ProcessedByMa
    <2>2. n \in 1..Len(outcomes[i]) /\ outcomes[i][n] = <<Ma, "processed">>
      BY <1>2, <2>1, RecordEffect
    <2> QED
      BY <2>2 DEF ProcessedByMa
  <1>3. ASSUME NEW c \in Consumers, LoopControl(c) PROVE ProcessedByMa(i)
    <2>1. CASE DeadLetter(c)
      BY <1>2, <2>1 DEF DeadLetter
    <2> QED
      BY <1>1, <1>3, <2>1 DEF LoopControl, LoopTop, PollNothing, ClaimNew, SkipDuplicate, SetExpiry
  <1>4. ASSUME NEW c \in Consumers, PollMessage(c) \/ Disturbance(c) PROVE ProcessedByMa(i)
    BY <1>1, <1>4 DEF PollMessage, Disturbance, ClaimRaises, ExpiryRaises, DeadLetterFails,
                      AutoCommit, Rejoin, RequestShutdown, Restart
  <1>5. ASSUME NEW c \in Consumers \ {Ma}, Attempt(c) PROVE ProcessedByMa(i)
    <2>1. CASE AttemptSucceeds(c)
      BY <1>2, <2>1 DEF AttemptSucceeds
    <2>2. CASE AttemptFails(c)
      BY <1>1, <2>2 DEF AttemptFails
    <2> QED
      BY <1>5, <2>1, <2>2 DEF Attempt
  <1>6. ASSUME NEW c \in Consumers, Crash(c) PROVE ProcessedByMa(i)
    BY <1>1, <1>6 DEF Crash
  <1>7. ASSUME NEW j \in Ids, LoseKey(j) PROVE ProcessedByMa(i)
    BY <1>1, <1>7 DEF LoseKey
  <1> QED
    BY <1>3, <1>4, <1>5, <1>6, <1>7

LEMMA OthersAreOutside ==
    ASSUME TypeOK, UNCHANGED maVars,
           \/ \E c \in Consumers : LoopControl(c) \/ PollMessage(c) \/ Disturbance(c)
           \/ \E c \in Consumers \ {Ma} : Attempt(c) \/ Crash(c)
           \/ \E i \in Ids : LoseKey(i)
    PROVE  Outside
  <1>1. log' = log /\ Undisturbed
    BY OthersLeaveMaAlone
  <1>2. \A i \in Ids : ProcessedByMa(i)' => ProcessedByMa(i)
    BY OthersProcessNothingForMa
  <1> QED
    BY <1>1, <1>2 DEF Outside, Undisturbed

\* A new message on the topic repeats one or announces a stored point.
LEMMA GrowthIsOutside ==
    ASSUME TypeOK, UNCHANGED <<points, step, latest, averages, pc, position, outcomes>>,
           NEW i \in Ids, log' = Append(log, i),
           \/ \E n \in 1..Len(points) : points[n] = i
           \/ \E o \in 1..Len(log) : log[o] = i
    PROVE  Outside
  <1>1. pc[Ma] = "attempt" => Current(Ma)' = Current(Ma)
    <2> SUFFICES ASSUME pc[Ma] = "attempt" PROVE log'[position[Ma]] = log[position[Ma]]
      BY DEF Current
    <2>1. position[Ma] \in 1..Len(log)
      BY DEF TypeOK
    <2> QED
      BY <2>1, AppendFacts DEF TypeOK
  <1>2. \A o \in 1..Len(log') : log'[o] = i \/ (o \in 1..Len(log) /\ log'[o] = log[o])
    BY DEF TypeOK
  <1>3. \A j \in Ids : ProcessedByMa(j)' => ProcessedByMa(j)
    BY DEF ProcessedByMa
  <1> QED
    BY <1>1, <1>2, <1>3 DEF Outside, maVars-----------------------------------------------------------------------------
(***************************************************************************)
(* The steps of an attempt.                                                *)
(***************************************************************************)

\* The parts of the invariant that say something of an average.
Averaged(i) == \E n \in 1..Len(averages) :
                  averages[n].provider = Provider[i] /\ averages[n].timestamp >= Stamp[i]

\* The event an attempt is about is on the topic, so its point is stored.
LEMMA CurrentIsStored ==
    ASSUME TypeOK, MaTypeOK, pc[Ma] = "attempt"
    PROVE  Current(Ma) \in Ids /\ \E n \in 1..Len(points) : points[n] = Current(Ma)
  <1>1. position[Ma] \in 1..Len(log)
    BY DEF TypeOK
  <1>2. log[position[Ma]] \in Ids
    BY <1>1 DEF TypeOK
  <1>3. \E n \in 1..Len(points) : points[n] = log[position[Ma]]
    BY <1>1 DEF MaTypeOK
  <1> QED
    BY <1>2, <1>3 DEF Current

\* A step that ends the attempt, with rows only added: what is left to show is
\* that the rows are still unique, and that a success has its average.
LEMMA AttemptEnds ==
    ASSUME TypeOK, MaInv, pc[Ma] = "attempt", UNCHANGED <<log, points, latest>>,
           step' = "read",
           averages' \in Seq(Average), OneAveragePerTimestamp',
           \A n \in 1..Len(averages) : n \in 1..Len(averages') /\ averages'[n] = averages[n],
           \A i \in Ids : ProcessedByMa(i)' =>
              \/ ProcessedByMa(i)
              \/ i = Current(Ma) /\ (Len(points) >= Window => Averaged(i)')
    PROVE  MaInv'
  <1>1. MaTypeOK'
    BY DEF MaInv, MaTypeOK
  <1>2. \A i \in Ids : ProcessedByMa(i)' => \E k \in 1..Len(points') : points'[k] = i
    BY CurrentIsStored DEF MaInv
  <1>3. ProcessedIsAveraged'
    <2> SUFFICES ASSUME NEW k \in 1..Len(points), k >= Window, ProcessedByMa(points[k])'
                 PROVE  Averaged(points[k])'
      BY DEF ProcessedIsAveraged, ProcessedByMa, Averaged
    <2>1. points[k] \in Ids /\ Len(points) >= Window
      BY DEF MaInv, MaTypeOK
    <2>2. CASE ProcessedByMa(points[k])
      <3>1. Averaged(points[k])
        BY <2>2 DEF MaInv, ProcessedIsAveraged, ProcessedByMa, Averaged
      <3> QED
        BY <3>1 DEF Averaged
    <2> QED
      BY <2>1, <2>2
  <1> QED
    BY <1>1, <1>2, <1>3 DEF MaInv

\* A success records the current event, a failure records nothing.
LEMMA SuccessRecords ==
    ASSUME TypeOK, AttemptSucceeds(Ma), NEW i \in Ids, ProcessedByMa(i)'
    PROVE  ProcessedByMa(i) \/ i = Current(Ma)
  <1>1. PICK n \in 1..Len(outcomes'[i]) : outcomes'[i][n] = <<Ma, "processed">>
    BY DEF ProcessedByMa
  <1>2. \/ n \in 1..Len(outcomes[i]) /\ outcomes'[i][n] = outcomes[i][n]
        \/ Current(Ma) = i
    BY RecordEffect DEF AttemptSucceeds
  <1> QED
    BY <1>1, <1>2 DEF ProcessedByMa

\* Inserting the wanted average, which is not there yet.
LEMMA RowInserted ==
    ASSUME TypeOK, MaInv, pc[Ma] = "attempt", InsertRow
    PROVE  /\ averages' \in Seq(Average)
           /\ OneAveragePerTimestamp'
           /\ \A n \in 1..Len(averages) : n \in 1..Len(averages') /\ averages'[n] = averages[n]
           /\ \A i \in Ids : i = Current(Ma) => Averaged(i)'
  <1>1. Current(Ma) \in Ids /\ latest \in Nat /\ averages \in Seq(Average)
    BY CurrentIsStored DEF MaInv, MaTypeOK
  <1>2. Wanted \in Average
    BY <1>1 DEF Wanted, Average
  <1>3. /\ averages' \in Seq(Average)
        /\ Len(averages') = Len(averages) + 1
        /\ averages'[Len(averages) + 1] = Wanted
        /\ \A n \in 1..Len(averages) : n \in 1..Len(averages') /\ averages'[n] = averages[n]
    BY <1>1, <1>2 DEF InsertRow
  <1>4. \A n \in 1..Len(averages) : averages[n] # Wanted
    BY DEF MaInv, InsertRow, Stored
  <1>5. OneAveragePerTimestamp'
    <2> SUFFICES ASSUME NEW m \in 1..Len(averages'), NEW n \in 1..Len(averages'),
                        averages'[m] = averages'[n]
                 PROVE  m = n
      BY DEF OneAveragePerTimestamp
    <2>1. CASE m \in 1..Len(averages) /\ n \in 1..Len(averages)
      BY <1>3, <2>1 DEF MaInv, OneAveragePerTimestamp
    <2>2. \A k \in 1..Len(averages) : averages'[k] # averages'[Len(averages) + 1]
      BY <1>3, <1>4
    <2>3. /\ m \in 1..Len(averages) \/ m = Len(averages) + 1
          /\ n \in 1..Len(averages) \/ n = Len(averages) + 1
      BY <1>1, <1>3
    <2> QED
      BY <2>1, <2>2, <2>3
  <1>6. \A i \in Ids : i = Current(Ma) => Averaged(i)'
    <2>1. latest >= Stamp[Current(Ma)]
      BY DEF MaInv, InsertRow
    <2>2. Len(averages) + 1 \in 1..Len(averages')
      BY <1>1, <1>3
    <2> QED
      BY <1>3, <2>1, <2>2 DEF Averaged, Wanted
  <1> QED
    BY <1>3, <1>5, <1>6
LEMMA AttemptKeeps ==
    ASSUME TypeOK, MaInv, AttemptOfMa
    PROVE  MaInv'
  <1> USE DEF MaInv
  <1>1. ASSUME TooFewPoints PROVE MaInv'
    <2>1. pc[Ma] = "attempt" /\ UNCHANGED <<log, points, latest, averages>> /\ step' = "read"
      BY <1>1 DEF TooFewPoints, AttemptSucceeds, maVars
    <2>2. \A i \in Ids : ProcessedByMa(i)' => ProcessedByMa(i) \/ i = Current(Ma)
      BY <1>1, SuccessRecords DEF TooFewPoints
    <2>3. ~(Len(points) >= Window)
      BY <1>1 DEF TooFewPoints, MaTypeOK
    <2>4. averages' \in Seq(Average) /\ OneAveragePerTimestamp'
      BY <2>1 DEF MaTypeOK, OneAveragePerTimestamp
    <2> HIDE DEF MaInv
    <2> QED
      BY <2>1, <2>2, <2>3, <2>4, AttemptEnds
  <1>2. ASSUME ReadWindow PROVE MaInv'
    <2>1. /\ UNCHANGED <<vars, points, averages>>
          /\ step' = "check"
          /\ latest' \in Nat
          /\ latest' >= Stamp[Current(Ma)]
      <3>1. pc[Ma] = "attempt"
        BY <1>2 DEF ReadWindow
      <3>2. PICK n \in 1..Len(points) :
               /\ \A k \in 1..Len(points) : Stamp[points[k]] <= Stamp[points[n]]
               /\ latest' = Stamp[points[n]]
        BY <1>2 DEF ReadWindow
      <3>3. PICK k \in 1..Len(points) : points[k] = Current(Ma)
        BY <3>1, CurrentIsStored
      <3>4. Stamp[points[n]] \in Nat
        BY DEF MaTypeOK
      <3> QED
        BY <1>2, <3>2, <3>3, <3>4 DEF ReadWindow
    <2>2. MaTypeOK'
      BY <1>2, <2>1 DEF MaTypeOK, vars, ReadWindow
    <2>3. Current(Ma)' = Current(Ma)
      BY <2>1 DEF vars, Current
    <2>4. ProcessedIsAveraged' /\ OneAveragePerTimestamp'
      BY <2>1 DEF vars, ProcessedIsAveraged, OneAveragePerTimestamp
    <2> QED
      BY <2>1, <2>2, <2>3, <2>4 DEF vars, ProcessedByMa
  <1>3. ASSUME AlreadyRecorded PROVE MaInv'
    <2>1. pc[Ma] = "attempt" /\ UNCHANGED <<log, points, latest, averages>> /\ step' = "read"
      BY <1>3 DEF AlreadyRecorded, AttemptSucceeds
    <2>2. \A i \in Ids : ProcessedByMa(i)' => ProcessedByMa(i) \/ i = Current(Ma)
      BY <1>3, SuccessRecords DEF AlreadyRecorded
    <2>3. \A i \in Ids : i = Current(Ma) => Averaged(i)'
      <3>1. PICK n \in 1..Len(averages) : averages[n] = Wanted
        BY <1>3 DEF AlreadyRecorded, Stored
      <3>2. latest >= Stamp[Current(Ma)]
        BY <1>3 DEF AlreadyRecorded
      <3> QED
        BY <2>1, <3>1, <3>2 DEF Averaged, Wanted
    <2>4. averages' \in Seq(Average) /\ OneAveragePerTimestamp'
      BY <2>1 DEF MaTypeOK, OneAveragePerTimestamp
    <2> HIDE DEF MaInv
    <2> QED
      BY <2>1, <2>2, <2>3, <2>4, AttemptEnds
  <1>4. ASSUME NotRecorded PROVE MaInv'
    <2>1. Current(Ma)' = Current(Ma)
      BY <1>4 DEF NotRecorded, vars, Current
    <2>2. MaTypeOK'
      BY <1>4 DEF NotRecorded, MaTypeOK, vars
    <2>3. ~Stored'
      BY <1>4, <2>1 DEF NotRecorded, Stored, Wanted
    <2>4. ProcessedIsAveraged' /\ OneAveragePerTimestamp'
      BY <1>4 DEF NotRecorded, vars, ProcessedIsAveraged, OneAveragePerTimestamp
    <2>5. (latest >= Stamp[Current(Ma)])'
      BY <1>4, <2>1 DEF NotRecorded
    <2> QED
      BY <1>4, <2>2, <2>3, <2>4, <2>5 DEF NotRecorded, vars, ProcessedByMa
  <1>5. ASSUME Insert PROVE MaInv'
    <2>1. pc[Ma] = "attempt" /\ UNCHANGED <<log, points, latest>> /\ step' = "read" /\ InsertRow
      BY <1>5 DEF Insert, InsertRow, AttemptSucceeds
    <2>2. \A i \in Ids : ProcessedByMa(i)' => ProcessedByMa(i) \/ i = Current(Ma)
      BY <1>5, SuccessRecords DEF Insert
    <2> HIDE DEF MaInv
    <2> QED
      BY <2>1, <2>2, RowInserted, AttemptEnds
  <1>6. ASSUME InsertUnacknowledged PROVE MaInv'
    <2>1. /\ pc[Ma] = "attempt" /\ step' = "read" /\ InsertRow
          /\ UNCHANGED <<log, points, latest, outcomes>>
      BY <1>6 DEF InsertUnacknowledged, InsertRow, AttemptFails
    <2>2. \A i \in Ids : ProcessedByMa(i)' => ProcessedByMa(i)
      BY <2>1 DEF ProcessedByMa
    <2> HIDE DEF MaInv
    <2> QED
      BY <2>1, <2>2, RowInserted, AttemptEnds
  <1>7. ASSUME StatementRaises PROVE MaInv'
    <2>1. /\ pc[Ma] = "attempt" /\ step' = "read"
          /\ UNCHANGED <<log, points, latest, outcomes, averages>>
      BY <1>7 DEF StatementRaises, AttemptFails
    <2>2. \A i \in Ids : ProcessedByMa(i)' => ProcessedByMa(i)
      BY <2>1 DEF ProcessedByMa
    <2>3. averages' \in Seq(Average) /\ OneAveragePerTimestamp'
      BY <2>1 DEF MaTypeOK, OneAveragePerTimestamp
    <2> HIDE DEF MaInv
    <2> QED
      BY <2>1, <2>2, <2>3, AttemptEnds
  <1> HIDE DEF MaInv
  <1> QED
    BY <1>1, <1>2, <1>3, <1>4, <1>5, <1>6, <1>7 DEF AttemptOfMa

\* A crash forgets what was read; no row and no outcome changes.
LEMMA CrashKeeps ==
    ASSUME TypeOK, MaInv, CrashOf(Ma)
    PROVE  MaInv'
  <1>1. /\ step' = "read"
        /\ UNCHANGED <<log, points, latest, outcomes, averages>>
    BY DEF CrashOf, Crash
  <1>2. MaTypeOK'
    BY <1>1 DEF MaInv, MaTypeOK
  <1>3. ProcessedIsAveraged' /\ OneAveragePerTimestamp'
    BY <1>1 DEF MaInv, ProcessedIsAveraged, OneAveragePerTimestamp
  <1> QED
    BY <1>1, <1>2, <1>3 DEF MaInv, ProcessedByMa

\* A point that is stored later belongs to an event nobody has seen yet.
LEMMA StorePointKeeps ==
    ASSUME TypeOK, MaInv, NEW i \in Ids, StorePoint(i)
    PROVE  MaInv'
  <1>1. /\ points' \in Seq(Ids)
        /\ Len(points') = Len(points) + 1
        /\ points'[Len(points) + 1] = i
        /\ \A n \in 1..Len(points) : n \in 1..Len(points') /\ points'[n] = points[n]
    BY DEF StorePoint, MaInv, MaTypeOK
  <1>2. UNCHANGED <<log, pc, position, outcomes, step, latest, averages>>
    BY DEF StorePoint, vars
  <1>3. MaTypeOK'
    BY <1>1, <1>2 DEF MaInv, MaTypeOK
  <1>4. OneAveragePerTimestamp' /\ (step = "insert" => ~Stored)'
        /\ (step # "read" => latest >= Stamp[Current(Ma)])'
    BY <1>2 DEF MaInv, OneAveragePerTimestamp, Stored, Wanted, Current
  <1>5. \A j \in Ids : ProcessedByMa(j)' => \E k \in 1..Len(points') : points'[k] = j
    BY <1>1, <1>2 DEF MaInv, ProcessedByMa
  <1>6. ~ProcessedByMa(i)
    BY DEF MaInv, StorePoint
  <1>7. ProcessedIsAveraged'
    <2> SUFFICES ASSUME NEW k \in 1..Len(points'), k >= Window, ProcessedByMa(points'[k])
                 PROVE  Averaged(points'[k])
      BY <1>2 DEF ProcessedIsAveraged, ProcessedByMa, Averaged
    <2>1. k \in 1..Len(points) /\ points'[k] = points[k]
      <3>1. k # Len(points) + 1
        BY <1>1, <1>6
      <3> QED
        BY <1>1, <3>1 DEF MaInv, MaTypeOK
    <2>2. ProcessedByMa(points[k])
      BY <2>1
    <2>3. Averaged(points[k])
      BY <2>1, <2>2 DEF MaInv, ProcessedIsAveraged, ProcessedByMa, Averaged
    <2> QED
      BY <2>1, <2>3
  <1> QED
    BY <1>3, <1>4, <1>5, <1>7 DEF MaInv
-----------------------------------------------------------------------------
LEMMA MaInvariant == MaSpec => []MaInv
  <1>1. MaInit => MaInv
    BY DEF MaInit, Init, MaInv, MaTypeOK, OneAveragePerTimestamp, ProcessedIsAveraged, ProcessedByMa
  <1>2. TypeOK /\ MaInv /\ [MaNext]_allVars => MaInv'
    <2> SUFFICES ASSUME TypeOK, MaInv, [MaNext]_allVars PROVE MaInv'
      OBVIOUS
    <2>1. ASSUME NEW i \in Ids, StorePoint(i) PROVE MaInv'
      BY <2>1, StorePointKeeps
    <2>2. ASSUME NEW i \in Ids, Announce(i) PROVE MaInv'
      BY <2>2, GrowthIsOutside, OutsideKeeps DEF Announce, Publish, maVars
    <2>3. ASSUME NEW o \in 1..Len(log), PublishAgain(o), UNCHANGED maVars PROVE MaInv'
      <3>1. log[o] \in Ids
        BY DEF TypeOK
      <3> QED
        BY <2>3, <3>1, GrowthIsOutside, OutsideKeeps DEF PublishAgain, maVars
    <2>4. ASSUME NEW c \in Consumers,
                 LoopControl(c) \/ PollMessage(c) \/ Disturbance(c), UNCHANGED maVars
          PROVE  MaInv'
      BY <2>4, OthersAreOutside, OutsideKeeps
    <2>5. ASSUME NEW i \in Ids, LoseKey(i), UNCHANGED maVars PROVE MaInv'
      BY <2>5, OthersAreOutside, OutsideKeeps
    <2>6. ASSUME AttemptOfMa PROVE MaInv'
      BY <2>6, AttemptKeeps
    <2>7. ASSUME NEW c \in Consumers \ {Ma}, Attempt(c) \/ Crash(c), UNCHANGED maVars
          PROVE  MaInv'
      BY <2>7, OthersAreOutside, OutsideKeeps
    <2>8. ASSUME NEW c \in Consumers, CrashOf(c) PROVE MaInv'
      <3>1. CASE c = Ma
        BY <2>8, <3>1, CrashKeeps
      <3>2. CASE c # Ma
        BY <2>7, <2>8, <3>2 DEF CrashOf, maVars
      <3> QED
        BY <3>1, <3>2
    <2>9. CASE UNCHANGED allVars
      <3>1. Outside
        BY <2>9 DEF allVars, vars, Outside, Current, ProcessedByMa
      <3> QED
        BY <3>1, OutsideKeeps
    <2> QED
      BY <2>1, <2>2, <2>3, <2>4, <2>5, <2>6, <2>7, <2>8, <2>9 DEF MaNext, OwnStep, Fetch
  <1>3. MaSpec => []TypeOK
    BY ComposesTheLoop, TypeCorrect, PTL
  <1> QED
    BY <1>1, <1>2, <1>3, PTL DEF MaSpec

\* "idempotent / safe to call multiple times": redeliveries, retries, commits
\* whose answer was lost and crashes never make a second average.
THEOREM Idempotent == MaSpec => []OneAveragePerTimestamp
  <1>1. MaInv => OneAveragePerTimestamp
    BY DEF MaInv
  <1> QED
    BY <1>1, MaInvariant, PTL

\* An event counts as processed only if its provider has an average of its
\* timestamp or a later one, in whatever order points and events arrive.
THEOREM NothingUnaveraged == MaSpec => []ProcessedIsAveraged
  <1>1. MaInv => ProcessedIsAveraged
    BY DEF MaInv
  <1> QED
    BY <1>1, MaInvariant, PTL
=============================================================================
