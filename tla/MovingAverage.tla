--------------------------- MODULE MovingAverage ---------------------------
(***************************************************************************)
(* The attempts of the MA consumer in detail (MovingAverageService.        *)
(* compute_and_store), composed with its loop: each step of an attempt     *)
(* that ends it is also a step AttemptSucceeds or AttemptFails of          *)
(* ConsumerLoop, and a crash loses what the attempt had read.              *)
(*                                                                         *)
(* The API commits the price point of an event before it produces the      *)
(* event, so points arrive while an attempt runs, out of the order of      *)
(* their timestamps, and from several providers.  All are of one symbol.   *)
(***************************************************************************)
EXTENDS ConsumerLoop

CONSTANTS Ma,        \* the MA consumer
          Window,    \* MA_WINDOW
          Stamp,     \* [Ids -> Nat]: the timestamp of an event's price point
          Provider   \* [Ids -> provider]: who quoted it

ASSUME MaAssumption ==
    /\ Ma \in Consumers
    /\ Window \in Nat \ {0}
    /\ Stamp \in [Ids -> Nat]

VARIABLES
    points,    \* the price_points of the symbol, in the order of their commits
    step,      \* where the attempt is: "read", "check" or "insert"
    latest,    \* latest_ts of the window the attempt has read
    averages   \* the rows of moving_average, as they were inserted

maVars == <<points, step, latest, averages>>
allVars == <<vars, maVars>>

\* The key that compute_and_store looks for before it inserts.
Average == [timestamp : Nat, provider : {Provider[i] : i \in Ids}]

MaInit ==
    /\ Init
    /\ points = <<>>
    /\ step = "read"
    /\ latest = 0
    /\ averages = <<>>

\* The API process commits a price point, ...
StorePoint(i) ==
    /\ \A n \in 1..Len(points) : points[n] # i
    /\ points' = Append(points, i)
    /\ UNCHANGED <<vars, step, latest, averages>>

\* ... and produces its event afterwards.
Announce(i) ==
    /\ \E n \in 1..Len(points) : points[n] = i
    /\ Publish(i)
    /\ UNCHANGED maVars

\* MA_WINDOW rows are read whatever their provider; fewer are not averaged.
TooFewPoints ==
    /\ step = "read"
    /\ Len(points) < Window
    /\ AttemptSucceeds(Ma)
    /\ UNCHANGED maVars

\* The newest of the rows of the window is the newest of all.
ReadWindow ==
    /\ pc[Ma] = "attempt" /\ step = "read"
    /\ Len(points) >= Window
    /\ \E n \in 1..Len(points) :
          /\ \A k \in 1..Len(points) : Stamp[points[k]] <= Stamp[points[n]]
          /\ latest' = Stamp[points[n]]
    /\ step' = "check"
    /\ UNCHANGED <<vars, points, averages>>

\* The average this attempt is about, and whether the table has it.
Wanted == [timestamp |-> latest, provider |-> Provider[Current(Ma)]]
Stored == \E n \in 1..Len(averages) : averages[n] = Wanted

\* Mutant: an average of this timestamp by any provider will do.
AlreadyRecordedByAnyone ==
    /\ step = "check"
    /\ \E n \in 1..Len(averages) : averages[n].timestamp = latest
    /\ AttemptSucceeds(Ma)
    /\ step' = "read"
    /\ UNCHANGED <<points, latest, averages>>

\* "Already recorded": nothing is inserted, and the attempt has succeeded.
AlreadyRecorded ==
    /\ step = "check"
    /\ Stored
    /\ AttemptSucceeds(Ma)
    /\ step' = "read"
    /\ UNCHANGED <<points, latest, averages>>

\* Mutant: the lookup is left out.
NotRecordedUnchecked ==
    /\ pc[Ma] = "attempt" /\ step = "check"
    /\ step' = "insert"
    /\ UNCHANGED <<vars, points, latest, averages>>

NotRecorded ==
    /\ pc[Ma] = "attempt" /\ step = "check"
    /\ ~Stored
    /\ step' = "insert"
    /\ UNCHANGED <<vars, points, latest, averages>>

InsertRow ==
    /\ step = "insert"
    /\ averages' = Append(averages, Wanted)
    /\ step' = "read"
    /\ UNCHANGED <<points, latest>>

\* The row is committed and the attempt succeeds, ...
Insert == InsertRow /\ AttemptSucceeds(Ma)

\* ... or the commit is executed but its answer is lost.
InsertUnacknowledged == InsertRow /\ AttemptFails(Ma)

\* Any of the statements raises and has no effect.
StatementRaises ==
    /\ AttemptFails(Ma)
    /\ step' = "read"
    /\ UNCHANGED <<points, latest, averages>>

AttemptOfMa ==
    \/ TooFewPoints \/ ReadWindow \/ AlreadyRecorded \/ NotRecorded
    \/ Insert \/ InsertUnacknowledged \/ StatementRaises

\* What a consumer does on its own; the service of the others is not looked into.
OwnStep(c) ==
    \/ LoopControl(c) /\ UNCHANGED maVars
    \/ IF c = Ma THEN AttemptOfMa ELSE Attempt(c) /\ UNCHANGED maVars

Fetch(c) == PollMessage(c) /\ UNCHANGED maVars

\* A crash takes what the attempt had read with it.
CrashOf(c) ==
    /\ Crash(c)
    /\ step' = IF c = Ma THEN "read" ELSE step
    /\ UNCHANGED <<points, latest, averages>>

MaNext ==
    \/ \E i \in Ids : StorePoint(i) \/ Announce(i)
    \/ \E i \in Ids : LoseKey(i) /\ UNCHANGED maVars
    \/ \E o \in 1..Len(log) : PublishAgain(o) /\ UNCHANGED maVars
    \/ \E c \in Consumers :
          \/ OwnStep(c) \/ Fetch(c) \/ CrashOf(c)
          \/ Disturbance(c) /\ UNCHANGED maVars

MaSpec == MaInit /\ [][MaNext]_allVars

\* The fairness of ConsumerLoop, with the steps of an attempt in it.
FairMaSpec == MaSpec /\ \A c \in Consumers : WF_allVars(OwnStep(c)) /\ SF_allVars(Fetch(c))
-----------------------------------------------------------------------------
\* Types; an attempt is inside its service only while the loop is in an attempt,
\* and only stored points are announced.
MaTypeOK ==
    /\ points \in Seq(Ids)
    /\ step \in {"read", "check", "insert"}
    /\ latest \in Nat
    /\ averages \in Seq(Average)
    /\ step # "read" => pc[Ma] = "attempt"
    /\ \A o \in 1..Len(log) : \E n \in 1..Len(points) : points[n] = log[o]

\* "idempotent / safe to call multiple times" (moving_average_service.py:31):
\* redelivered events, retries after a commit whose answer was lost, lost keys
\* and crashes never make a second average of a timestamp and provider.
OneAveragePerTimestamp ==
    \A m, n \in 1..Len(averages) : averages[m] = averages[n] => m = n

\* Nothing counts as processed that was not averaged: once the MA consumer has
\* processed an event before which there were points enough, the event's
\* provider has an average of its timestamp or a later one, in whatever order
\* points and events of the two providers arrive.
ProcessedIsAveraged ==
    \A k \in 1..Len(points) :
        LET i == points[k] IN
        (k >= Window /\ \E n \in 1..Len(outcomes[i]) : outcomes[i][n] = <<Ma, "processed">>)
            => \E n \in 1..Len(averages) :
                  /\ averages[n].provider = Provider[i]
                  /\ averages[n].timestamp >= Stamp[i]
=============================================================================
