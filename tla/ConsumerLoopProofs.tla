------------------------- MODULE ConsumerLoopProofs -------------------------
(***************************************************************************)
(* Theorems about ConsumerLoop, for any number of consumer groups and      *)
(* events, any topic length, any MAX_RETRIES and any fault budget.         *)
(***************************************************************************)
EXTENDS ConsumerLoop, TLAPS

USE LoopAssumption DEF GoTo, Record

\* Appending a member of a set to a sequence over it keeps what was there.
LEMMA AppendFacts ==
    ASSUME NEW S, NEW s \in Seq(S), NEW e \in S
    PROVE  /\ Append(s, e) \in Seq(S)
           /\ Len(Append(s, e)) = Len(s) + 1
           /\ \A n \in 1..Len(s) : Append(s, e)[n] = s[n]
  OBVIOUS

\* A history of outcomes that gets one more outcome is still one.
LEMMA RecordType ==
    ASSUME TypeOK, NEW c \in Consumers, NEW kind \in {"processed", "dlq"}, Record(c, kind)
    PROVE  outcomes' \in [Ids -> Seq(Outcome)]
  <1>1. <<c, kind>> \in Outcome
    BY DEF Outcome
  <1>2. \A i \in Ids : Append(outcomes[i], <<c, kind>>) \in Seq(Outcome)
    BY <1>1 DEF TypeOK
  <1> QED
    BY <1>2 DEF TypeOK

\* Spending from the budget of a fault keeps the counters' type.
LEMMA SpendType ==
    ASSUME TypeOK, NEW f \in Faults, Spend(f)
    PROVE  spent' \in [Faults -> Nat]
  BY DEF Spend, TypeOK

\* The values of the variables, and the two facts about offsets that make the
\* message a consumer is handling well-defined, hold in every reachable state.
THEOREM TypeCorrect == Spec => []TypeOK
  <1>1. Init => TypeOK
    BY DEF Init, TypeOK, KeyState, PC, Faults
  <1>2. TypeOK /\ [Next]_vars => TypeOK'
    <2> SUFFICES ASSUME TypeOK, [Next]_vars PROVE TypeOK'
      OBVIOUS
    <2> USE DEF TypeOK
    <2>1. ASSUME NEW i \in Ids, Publish(i) PROVE TypeOK'
      BY <2>1, AppendFacts DEF Publish
    <2>2. ASSUME NEW o \in 1..Len(log), PublishAgain(o) PROVE TypeOK'
      <3>1. log[o] \in Ids
        OBVIOUS
      <3>2. spent' \in [Faults -> Nat]
        BY <2>2, SpendType DEF PublishAgain, Faults
      <3>3. /\ log' \in Seq(Ids)
            /\ Len(log') = Len(log) + 1
        BY <2>2, <3>1, AppendFacts DEF PublishAgain
      <3> QED
        BY <2>2, <3>2, <3>3 DEF PublishAgain
    <2>3. ASSUME NEW i \in Ids, LoseKey(i) PROVE TypeOK'
      <3>1. spent' \in [Faults -> Nat]
        BY <2>3, SpendType DEF LoseKey, Faults
      <3> QED
        BY <2>3, <3>1 DEF LoseKey, KeyState
    <2>4. ASSUME NEW c \in Consumers, LoopTop(c) PROVE TypeOK'
      BY <2>4 DEF LoopTop, PC
    <2>5. ASSUME NEW c \in Consumers, PollMessage(c) PROVE TypeOK'
      BY <2>5 DEF PollMessage, PC
    <2>6. ASSUME NEW c \in Consumers, PollNothing(c) PROVE TypeOK'
      BY <2>6 DEF PollNothing, PC
    <2>7. ASSUME NEW c \in Consumers, ClaimNew(c) PROVE TypeOK'
      BY <2>7 DEF ClaimNew, PC, KeyState
    <2>8. ASSUME NEW c \in Consumers, SkipDuplicate(c) PROVE TypeOK'
      BY <2>8 DEF SkipDuplicate, PC
    <2>9. ASSUME NEW c \in Consumers, ClaimRaises(c) PROVE TypeOK'
      <3>1. spent' \in [Faults -> Nat]
        BY <2>9, SpendType DEF ClaimRaises, Faults
      <3> QED
        BY <2>9, <3>1 DEF ClaimRaises, PC, KeyState
    <2>10. ASSUME NEW c \in Consumers, SetExpiry(c) PROVE TypeOK'
      <3>1. key' \in [Ids -> KeyState]
        BY <2>10 DEF SetExpiry, KeyState
      <3>2. attempt' \in [Consumers -> 1..MaxRetries]
        BY <2>10 DEF SetExpiry
      <3> QED
        BY <2>10, <3>1, <3>2 DEF SetExpiry, PC
    <2>11. ASSUME NEW c \in Consumers, ExpiryRaises(c) PROVE TypeOK'
      <3>1. spent' \in [Faults -> Nat]
        BY <2>11, SpendType DEF ExpiryRaises, Faults
      <3> QED
        BY <2>11, <3>1 DEF ExpiryRaises, PC, KeyState
    <2>12. ASSUME NEW c \in Consumers, AttemptSucceeds(c) PROVE TypeOK'
      <3>1. outcomes' \in [Ids -> Seq(Outcome)]
        BY <2>12, RecordType DEF AttemptSucceeds
      <3> QED
        BY <2>12, <3>1 DEF AttemptSucceeds, PC
    <2>13. ASSUME NEW c \in Consumers, AttemptFails(c) PROVE TypeOK'
      <3>1. attempt' \in [Consumers -> 1..MaxRetries]
        <4>1. CASE attempt[c] < MaxRetries /\ attempt' = [attempt EXCEPT ![c] = @ + 1]
          <5>1. attempt[c] + 1 \in 1..MaxRetries
            BY <4>1
          <5> QED
            BY <4>1, <5>1
        <4>2. CASE UNCHANGED attempt
          BY <4>2
        <4> QED
          BY <2>13, <4>1, <4>2 DEF AttemptFails
      <3> QED
        BY <2>13, <3>1 DEF AttemptFails, PC
    <2>14. ASSUME NEW c \in Consumers, DeadLetter(c) PROVE TypeOK'
      <3>1. outcomes' \in [Ids -> Seq(Outcome)]
        BY <2>14, RecordType DEF DeadLetter
      <3> QED
        BY <2>14, <3>1 DEF DeadLetter, PC
    <2>15. ASSUME NEW c \in Consumers, DeadLetterFails(c) PROVE TypeOK'
      <3>1. spent' \in [Faults -> Nat]
        BY <2>15, SpendType DEF DeadLetterFails, Faults
      <3> QED
        BY <2>15, <3>1 DEF DeadLetterFails, PC
    <2>16. ASSUME NEW c \in Consumers, AutoCommit(c) PROVE TypeOK'
      BY <2>16 DEF AutoCommit
    <2>17. ASSUME NEW c \in Consumers, Rejoin(c) PROVE TypeOK'
      <3>1. spent' \in [Faults -> Nat]
        BY <2>17, SpendType DEF Rejoin, Faults
      <3> QED
        BY <2>17, <3>1 DEF Rejoin, PC
    <2>18. ASSUME NEW c \in Consumers, RequestShutdown(c) PROVE TypeOK'
      BY <2>18 DEF RequestShutdown
    <2>19. ASSUME NEW c \in Consumers, Crash(c) PROVE TypeOK'
      <3>1. spent' \in [Faults -> Nat]
        BY <2>19, SpendType DEF Crash, Faults
      <3> QED
        BY <2>19, <3>1 DEF Crash, PC
    <2>20. ASSUME NEW c \in Consumers, Restart(c) PROVE TypeOK'
      BY <2>20 DEF Restart, PC
    <2>21. ASSUME UNCHANGED vars PROVE TypeOK'
      BY <2>21 DEF vars
    <2> QED
      BY <2>1, <2>2, <2>3, <2>4, <2>5, <2>6, <2>7, <2>8, <2>9, <2>10, <2>11, <2>12, <2>13,
         <2>14, <2>15, <2>16, <2>17, <2>18, <2>19, <2>20, <2>21 DEF Next, LoopStep, LoopControl, Attempt, Disturbance
  <1> QED
    BY <1>1, <1>2, PTL DEF Spec
-----------------------------------------------------------------------------
(***************************************************************************)
(* At most one outcome per event.  Len(outcomes[i]) <= 1 is not inductive: *)
(* it needs that whoever works on an event has found it without an outcome *)
(* and alone, and that needs, in turn, that an event without a key has     *)
(* neither an outcome nor a worker.                                        *)
(***************************************************************************)

\* The life of the one claim on event i.
OneClaim(i) ==
    /\ key[i] = "absent" => outcomes[i] = <<>> /\ \A c \in Consumers : ~Working(c, i)
    /\ \A c \in Consumers : Working(c, i) => outcomes[i] = <<>>
    /\ \A c, d \in Consumers : Working(c, i) /\ Working(d, i) => c = d
    /\ Len(outcomes[i]) <= 1

Claimed == spent["keyLoss"] = 0 => \A i \in Ids : OneClaim(i)

\* A step that creates no claim, records nothing and frees no key keeps OneClaim.
LEMMA NothingClaimed ==
    ASSUME Claimed, spent'["keyLoss"] = 0 => spent["keyLoss"] = 0,
           outcomes' = outcomes,
           \A i \in Ids : key'[i] = "absent" => key[i] = "absent",
           \A i \in Ids, d \in Consumers : Working(d, i)' => Working(d, i)
    PROVE  Claimed'
  BY DEF Claimed, OneClaim

\* Spending leaves the other counters alone, and no counter is ever reset.
LEMMA SpendKeepsLosses ==
    ASSUME TypeOK, NEW f \in Faults, Spend(f)
    PROVE  /\ spent'["keyLoss"] = 0 => spent["keyLoss"] = 0
           /\ spent'[f] > 0
<1>1. spent \in [Faults -> Nat] /\ "keyLoss" \in Faults
  BY DEF TypeOK, Faults
<1>2. spent' = [spent EXCEPT ![f] = spent[f] + 1]
  BY DEF Spend
<1>3. spent'[f] = spent[f] + 1 /\ spent[f] \in Nat
      /\ \A g \in Faults \ {f} : spent'[g] = spent[g]
  BY <1>1, <1>2
<1> QED
  BY <1>1, <1>3

\* What consumer d works on does not change when the topic grows.
LEMMA GrowingLog ==
    ASSUME TypeOK, NEW e \in Ids, log' = Append(log, e), UNCHANGED <<pc, position>>
    PROVE  \A i \in Ids, d \in Consumers : Working(d, i)' <=> Working(d, i)
  <1> SUFFICES ASSUME NEW i \in Ids, NEW d \in Consumers
               PROVE  Working(d, i)' <=> Working(d, i)
    OBVIOUS
  <1>1. CASE pc[d] \notin {"expire", "attempt", "dlq"}
    BY <1>1 DEF Working
  <1>2. CASE pc[d] \in {"expire", "attempt", "dlq"}
    <2>1. position[d] \in 1..Len(log)
      BY <1>2 DEF TypeOK
    <2>2. log'[position[d]] = log[position[d]]
      BY <2>1, AppendFacts DEF TypeOK
    <2> QED
      BY <2>2 DEF Working, Current
  <1> QED
    BY <1>1, <1>2

\* Handing in the outcome of a claim: it is the first, and the claim is over.
LEMMA ClaimUsed ==
    ASSUME TypeOK, Claimed, NEW c \in Consumers, NEW kind \in {"processed", "dlq"},
           pc[c] \in {"attempt", "dlq"}, Record(c, kind), GoTo(c, "top"),
           UNCHANGED <<log, key, position, spent>>
    PROVE  Claimed'
  <1> SUFFICES ASSUME spent["keyLoss"] = 0, NEW i \in Ids PROVE OneClaim(i)'
    BY DEF Claimed
  <1>1. OneClaim(i)
    BY DEF Claimed
  <1>2. \A d \in Consumers : Working(d, i)' <=> Working(d, i) /\ d # c
    BY DEF Working, Current, TypeOK
  <1>3. CASE Current(c) = i
    <2>1. Working(c, i)
      BY <1>3 DEF Working
    <2>2. \A d \in Consumers : ~Working(d, i)'
      BY <1>1, <1>2, <2>1 DEF OneClaim
    <2>3. outcomes[i] \in Seq(Outcome) /\ Len(outcomes[i]) = 0
      BY <1>1, <2>1 DEF OneClaim, TypeOK
    <2>4. outcomes'[i] = Append(outcomes[i], <<c, kind>>)
      BY <1>3 DEF TypeOK
    <2>5. Len(outcomes'[i]) <= 1
      BY <2>3, <2>4, AppendFacts, <<c, kind>> \in Outcome DEF Outcome
    <2>6. key'[i] # "absent"
      BY <1>1, <2>1 DEF OneClaim
    <2>7. (\A d \in Consumers : Working(d, i) => outcomes[i] = <<>>)'
      BY <2>2
    <2>8. (\A d, e \in Consumers : Working(d, i) /\ Working(e, i) => d = e)'
      BY <2>2
    <2> QED
      BY <2>2, <2>5, <2>6, <2>7, <2>8 DEF OneClaim
  <1>4. CASE Current(c) # i
    <2>1. outcomes'[i] = outcomes[i]
      BY <1>4 DEF TypeOK
    <2> QED
      BY <1>1, <1>2, <2>1 DEF OneClaim
  <1> QED
    BY <1>3, <1>4

\* Taking a free key: nobody else works on the event and it has no outcome.
LEMMA ClaimTaken ==
    ASSUME TypeOK, Claimed, NEW c \in Consumers, ClaimNew(c)
    PROVE  Claimed'
  <1> SUFFICES ASSUME spent["keyLoss"] = 0, NEW i \in Ids PROVE OneClaim(i)'
    BY DEF Claimed, ClaimNew
  <1>1. OneClaim(i)
    BY DEF Claimed, ClaimNew
  <1>2. \A d \in Consumers : Working(d, i)' <=> Working(d, i) \/ (d = c /\ Current(c) = i)
    BY DEF ClaimNew, Working, Current, TypeOK
  <1>3. key'[i] = IF Current(c) = i THEN "persistent" ELSE key[i]
    BY DEF ClaimNew, TypeOK
  <1> QED
    BY <1>1, <1>2, <1>3 DEF OneClaim, ClaimNew

\* The strengthening holds in every reachable state: an event that has an outcome
\* or is being worked on keeps its key, so nobody can claim it again.
LEMMA ClaimedInvariant == Spec => []Claimed
  <1>1. Init => Claimed
    BY DEF Init, Claimed, OneClaim, Working
  <1>2. TypeOK /\ Claimed /\ [Next]_vars => Claimed'
    <2> SUFFICES ASSUME TypeOK, Claimed, [Next]_vars PROVE Claimed'
      OBVIOUS
    <2>1. ASSUME NEW i \in Ids, Publish(i) PROVE Claimed'
      BY <2>1, GrowingLog, NothingClaimed DEF Publish
    <2>2. ASSUME NEW o \in 1..Len(log), PublishAgain(o) PROVE Claimed'
      <3>1. log[o] \in Ids
        BY DEF TypeOK
      <3> QED
        BY <2>2, <3>1, GrowingLog, NothingClaimed, SpendKeepsLosses DEF PublishAgain, Faults
    <2>3. ASSUME NEW i \in Ids, LoseKey(i) PROVE Claimed'
      <3>1. spent'["keyLoss"] > 0
        BY <2>3, SpendKeepsLosses DEF LoseKey, Faults
      <3> QED
        BY <3>1 DEF Claimed
    <2>4. ASSUME NEW c \in Consumers,
                 \/ LoopTop(c) \/ PollMessage(c) \/ PollNothing(c) \/ SkipDuplicate(c)
                 \/ AttemptFails(c) \/ AutoCommit(c) \/ RequestShutdown(c) \/ Restart(c)
          PROVE  Claimed'
      <3>1. \A i \in Ids, d \in Consumers : Working(d, i)' => Working(d, i)
        BY <2>4 DEF LoopTop, PollMessage, PollNothing, SkipDuplicate, AttemptFails, AutoCommit,
                    RequestShutdown, Restart, Working, Current, TypeOK
      <3> QED
        BY <2>4, <3>1, NothingClaimed DEF LoopTop, PollMessage, PollNothing, SkipDuplicate,
                    AttemptFails, AutoCommit, RequestShutdown, Restart
    <2>5. ASSUME NEW c \in Consumers, DeadLetterFails(c) \/ Rejoin(c) \/ Crash(c) PROVE Claimed'
      <3>1. \A i \in Ids, d \in Consumers : Working(d, i)' => Working(d, i)
        BY <2>5 DEF DeadLetterFails, Rejoin, Crash, Working, Current, TypeOK
      <3>2. spent'["keyLoss"] = 0 => spent["keyLoss"] = 0
        BY <2>5, SpendKeepsLosses DEF DeadLetterFails, Rejoin, Crash, Faults
      <3> QED
        BY <2>5, <3>1, <3>2, NothingClaimed DEF DeadLetterFails, Rejoin, Crash
    <2>6. ASSUME NEW c \in Consumers, SetExpiry(c) PROVE Claimed'
      <3>1. \A i \in Ids, d \in Consumers : Working(d, i)' => Working(d, i)
        BY <2>6 DEF SetExpiry, Working, Current, TypeOK
      <3>2. \A i \in Ids : key'[i] = "absent" => key[i] = "absent"
        BY <2>6 DEF SetExpiry, TypeOK
      <3> QED
        BY <2>6, <3>1, <3>2, NothingClaimed DEF SetExpiry
    <2>7. ASSUME NEW c \in Consumers, ClaimRaises(c) \/ ExpiryRaises(c) PROVE Claimed'
      <3>1. \A i \in Ids, d \in Consumers : Working(d, i)' => Working(d, i)
        BY <2>7 DEF ClaimRaises, ExpiryRaises, Working, Current, TypeOK
      <3>2. \A i \in Ids : key'[i] = "absent" => key[i] = "absent"
        BY <2>7 DEF ClaimRaises, ExpiryRaises, TypeOK
      <3>3. spent'["keyLoss"] = 0 => spent["keyLoss"] = 0
        BY <2>7, SpendKeepsLosses DEF ClaimRaises, ExpiryRaises, Faults
      <3> QED
        BY <2>7, <3>1, <3>2, <3>3, NothingClaimed DEF ClaimRaises, ExpiryRaises
    <2>8. ASSUME NEW c \in Consumers, ClaimNew(c) PROVE Claimed'
      BY <2>8, ClaimTaken
    <2>9. ASSUME NEW c \in Consumers, AttemptSucceeds(c) \/ DeadLetter(c) PROVE Claimed'
      BY <2>9, ClaimUsed DEF AttemptSucceeds, DeadLetter
    <2>10. ASSUME UNCHANGED vars PROVE Claimed'
      BY <2>10 DEF vars, Claimed, OneClaim, Working, Current
    <2> QED
      BY <2>1, <2>2, <2>3, <2>4, <2>5, <2>6, <2>7, <2>8, <2>9, <2>10 DEF Next, LoopStep, LoopControl, Attempt, Disturbance
  <1> QED
    BY <1>1, <1>2, TypeCorrect, PTL DEF Spec

\* "Redis SETNX deduplication prevents double-processing": while no key is lost,
\* no event is processed or dead-lettered twice and no two consumers work on it,
\* whatever crashes, redeliveries, rejoins and Redis errors do.
THEOREM NoDoubleProcessing == Spec => []AtMostOnce
  <1>1. Claimed => AtMostOnce
    BY DEF Claimed, OneClaim, AtMostOnce
  <1> QED
    BY <1>1, ClaimedInvariant, PTL

-----------------------------------------------------------------------------
(***************************************************************************)
(* Offsets and shutdown.  A group's committed offset lags what its running *)
(* process was given; with that, both action properties hold step by step. *)
(***************************************************************************)

CommitLags == \A c \in Consumers : committed[c] <= position[c]

\* One step: the two offsets of every group keep their order, and the committed
\* one does not fall.
LEMMA OffsetStep ==
    ASSUME TypeOK, CommitLags, [Next]_vars
    PROVE  CommitLags' /\ \A c \in Consumers : committed'[c] >= committed[c]
  <1> USE DEF TypeOK, CommitLags
  <1> DEFINE Goal == CommitLags' /\ \A c \in Consumers : committed'[c] >= committed[c]
  <1>1. ASSUME UNCHANGED <<position, committed>> PROVE Goal
    BY <1>1
  <1>2. ASSUME NEW c \in Consumers, LoopTop(c) PROVE Goal
    <2>1. CASE committed' = committed
      BY <1>1, <1>2, <2>1 DEF LoopTop
    <2>2. CASE committed' = [committed EXCEPT ![c] = position[c]] /\ position' = position
      BY <2>2
    <2> QED
      BY <1>2, <2>1, <2>2 DEF LoopTop
  <1>3. ASSUME NEW c \in Consumers, PollMessage(c) PROVE Goal
    BY <1>3 DEF PollMessage
  <1>4. ASSUME NEW c \in Consumers, AutoCommit(c) PROVE Goal
    BY <1>4 DEF AutoCommit
  <1>5. ASSUME NEW c \in Consumers, Rejoin(c) PROVE Goal
    <2>1. committed' = committed /\ position' = [position EXCEPT ![c] = committed[c]]
      BY <1>5 DEF Rejoin
    <2> QED
      BY <2>1
  <1>6. ASSUME NEW c \in Consumers, Restart(c) PROVE Goal
    BY <1>6 DEF Restart
  <1>7. ASSUME NEW c \in Consumers,
               \/ PollNothing(c) \/ ClaimNew(c) \/ SkipDuplicate(c) \/ ClaimRaises(c)
               \/ SetExpiry(c) \/ ExpiryRaises(c) \/ AttemptSucceeds(c) \/ AttemptFails(c)
               \/ DeadLetter(c) \/ DeadLetterFails(c) \/ RequestShutdown(c) \/ Crash(c)
        PROVE  Goal
    BY <1>1, <1>7 DEF PollNothing, ClaimNew, SkipDuplicate, ClaimRaises, SetExpiry, ExpiryRaises,
           AttemptSucceeds, AttemptFails, DeadLetter, DeadLetterFails, RequestShutdown, Crash
  <1>8. ASSUME \/ \E i \in Ids : Publish(i) \/ LoseKey(i)
               \/ \E o \in 1..Len(log) : PublishAgain(o)
               \/ UNCHANGED vars
        PROVE  Goal
    BY <1>1, <1>8 DEF Publish, LoseKey, PublishAgain, vars
  <1> HIDE DEF Goal
  <1>9. Goal
    BY <1>2, <1>3, <1>4, <1>5, <1>6, <1>7, <1>8 DEF Next, LoopStep, LoopControl, Attempt, Disturbance
  <1> QED
    BY <1>9 DEF Goal

\* The committed offset never runs ahead of what the process was given.
LEMMA CommitLagsInvariant == Spec => []CommitLags
  <1>1. Init => CommitLags
    BY DEF Init, CommitLags
  <1>2. TypeOK /\ CommitLags /\ [Next]_vars => CommitLags'
    BY OffsetStep
  <1> QED
    BY <1>1, <1>2, TypeCorrect, PTL DEF Spec

\* Only LoopTop takes a process down of its own accord, and it commits.
LEMMA GracefulStep ==
    ASSUME TypeOK, [Next]_vars, NEW c \in Consumers,
           pc[c] # "down", pc'[c] = "down", spent' = spent
    PROVE  pc[c] = "top" /\ committed'[c] = position[c]
  <1> USE DEF TypeOK
  <1>1. ASSUME NEW d \in Consumers, LoopTop(d) PROVE pc[c] = "top" /\ committed'[c] = position[c]
    BY <1>1 DEF LoopTop
  <1>2. ASSUME NEW d \in Consumers, Crash(d) PROVE FALSE
    BY <1>2 DEF Crash, Spend
  <1>3. ASSUME NEW d \in Consumers,
               \/ PollMessage(d) \/ PollNothing(d) \/ ClaimNew(d) \/ SkipDuplicate(d)
               \/ ClaimRaises(d) \/ SetExpiry(d) \/ ExpiryRaises(d) \/ AttemptSucceeds(d)
               \/ AttemptFails(d) \/ DeadLetter(d) \/ DeadLetterFails(d) \/ AutoCommit(d)
               \/ Rejoin(d) \/ RequestShutdown(d) \/ Restart(d)
        PROVE  FALSE
    BY <1>3 DEF PollMessage, PollNothing, ClaimNew, SkipDuplicate, ClaimRaises, SetExpiry,
           ExpiryRaises, AttemptSucceeds, AttemptFails, DeadLetter, DeadLetterFails, AutoCommit,
           Rejoin, RequestShutdown, Restart
  <1>4. ASSUME \/ \E i \in Ids : Publish(i) \/ LoseKey(i)
               \/ \E o \in 1..Len(log) : PublishAgain(o)
               \/ UNCHANGED vars
        PROVE  FALSE
    BY <1>4 DEF Publish, LoseKey, PublishAgain, vars
  <1> QED
    BY <1>1, <1>2, <1>3, <1>4 DEF Next, LoopStep, LoopControl, Attempt, Disturbance

\* The broker's offset of a group never moves back, and a process that is shut
\* down gracefully leaves no claim behind and nothing uncommitted.
THEOREM SafeOffsets == Spec => OffsetsAreSafe
  <1> DEFINE Safe == \A c \in Consumers :
                /\ committed'[c] >= committed[c]
                /\ (pc[c] # "down" /\ pc'[c] = "down" /\ spent' = spent) =>
                      /\ \A i \in Ids : ~Working(c, i)
                      /\ committed'[c] = position[c]
  <1>1. TypeOK /\ CommitLags /\ [Next]_vars => [Safe]_vars
    <2> SUFFICES ASSUME TypeOK, CommitLags, [Next]_vars, NEW c \in Consumers
                 PROVE  /\ committed'[c] >= committed[c]
                        /\ (pc[c] # "down" /\ pc'[c] = "down" /\ spent' = spent) =>
                              /\ \A i \in Ids : ~Working(c, i)
                              /\ committed'[c] = position[c]
      OBVIOUS
    <2>1. committed'[c] >= committed[c]
      BY OffsetStep
    <2>2. ASSUME pc[c] # "down", pc'[c] = "down", spent' = spent
          PROVE  (\A i \in Ids : ~Working(c, i)) /\ committed'[c] = position[c]
      BY <2>2, GracefulStep DEF Working
    <2> QED
      BY <2>1, <2>2
  <1> QED
    BY <1>1, TypeCorrect, CommitLagsInvariant, PTL DEF Spec, OffsetsAreSafe
-----------------------------------------------------------------------------
(***************************************************************************)
(* Nothing is dropped, and no key stays for ever, while processes, Redis   *)
(* and the DLQ work.  That nothing is dropped needs that a key vouches for *)
(* its event: somebody has an outcome for it or is working on it, so that  *)
(* whoever finds the key may skip the event.                               *)
(***************************************************************************)

Calm(faults) == \A f \in faults : spent[f] = 0

\* Event i is in good hands.
Handled(i) == outcomes[i] # <<>> \/ \E c \in Consumers : Working(c, i)

Vouched ==
    Calm({"crash", "redis", "dlq"}) =>
        /\ \A i \in Ids : key[i] # "absent" => Handled(i)
        /\ \A c \in Consumers : \A o \in 1..position[c] :
              Handled(log[o]) \/ (o = position[c] /\ pc[c] = "claim")

Expiring ==
    Calm({"crash", "redis"}) =>
        \A i \in Ids : key[i] = "persistent" =>
            \E c \in Consumers : pc[c] = "expire" /\ Current(c) = i

\* No step gives back what was spent of a budget, and the faults spend theirs.
LEMMA SpentOnly ==
    ASSUME TypeOK, [Next]_vars, NEW f \in Faults, spent'[f] = 0
    PROVE  spent[f] = 0
  <1> USE DEF TypeOK, Spend
  <1>1. ASSUME NEW g \in Faults, Spend(g) PROVE spent[f] = 0
    BY <1>1
  <1>2. ASSUME spent' = spent PROVE spent[f] = 0
    BY <1>2
  <1> HIDE DEF Spend
  <1>3. (\E g \in Faults : Spend(g)) \/ spent' = spent
    BY DEF Faults, Next, LoopStep, LoopControl, Attempt, Disturbance, Publish, LoseKey, PublishAgain,
           LoopTop, PollMessage, PollNothing, ClaimNew, SkipDuplicate, ClaimRaises, SetExpiry,
           ExpiryRaises, AttemptSucceeds, AttemptFails, DeadLetter, DeadLetterFails, AutoCommit,
           Rejoin, RequestShutdown, Crash, Restart, vars
  <1> QED
    BY <1>1, <1>2, <1>3

\* While Redis and the processes work, a step is none of their faults.
LEMMA CalmStep ==
    ASSUME TypeOK, [Next]_vars
    PROVE  /\ Calm({"crash", "redis"})' =>
                 /\ Calm({"crash", "redis"})
                 /\ \A c \in Consumers : ~Crash(c) /\ ~ClaimRaises(c) /\ ~ExpiryRaises(c)
           /\ Calm({"crash", "redis", "dlq"})' =>
                 /\ Calm({"crash", "redis", "dlq"})
                 /\ \A c \in Consumers : ~Crash(c) /\ ~ClaimRaises(c) /\ ~ExpiryRaises(c)
                                        /\ ~DeadLetterFails(c)
  <1>1. \A f \in Faults : spent'[f] = 0 => spent[f] = 0
    BY SpentOnly
  <1>2. ASSUME NEW f \in Faults, Spend(f) PROVE spent'[f] # 0
    BY <1>2, SpendKeepsLosses DEF TypeOK
  <1>3. \A c \in Consumers :
           /\ Crash(c) => spent'["crash"] # 0
           /\ ClaimRaises(c) \/ ExpiryRaises(c) => spent'["redis"] # 0
           /\ DeadLetterFails(c) => spent'["dlq"] # 0
    BY <1>2 DEF Crash, ClaimRaises, ExpiryRaises, DeadLetterFails, Faults
  <1> QED
    BY <1>1, <1>3 DEF Calm, Faults

\* A key without a time to live is on its way to get one.
LEMMA ExpiringStep ==
    ASSUME TypeOK, Expiring, [Next]_vars
    PROVE  Expiring'
  <1> SUFFICES ASSUME Calm({"crash", "redis"})',
                      NEW i \in Ids, key'[i] = "persistent"
               PROVE  \E c \in Consumers : (pc[c] = "expire" /\ Current(c) = i)'
    BY DEF Expiring
  <1> DEFINE Goal == \E c \in Consumers : (pc[c] = "expire" /\ Current(c) = i)'
  <1>0. key[i] = "persistent" => \E c \in Consumers : pc[c] = "expire" /\ Current(c) = i
    BY CalmStep DEF Expiring
  <1> USE DEF TypeOK
  <1>1. ASSUME NEW e \in Ids, log' = Append(log, e), UNCHANGED <<key, pc, position>> PROVE Goal
    <2>1. PICK c \in Consumers : pc[c] = "expire" /\ Current(c) = i
      BY <1>0, <1>1
    <2>2. Working(c, i)
      BY <2>1 DEF Working
    <2>3. Working(c, i)'
      BY <1>1, <2>2, GrowingLog
    <2> QED
      BY <1>1, <2>1, <2>3 DEF Working
  <1>2. ASSUME NEW j \in Ids, LoseKey(j) PROVE Goal
    BY <1>0, <1>2 DEF LoseKey, Current
  <1>3. ASSUME NEW c \in Consumers, ClaimNew(c) PROVE Goal
    <2>1. CASE i = Current(c)
      BY <1>3, <2>1 DEF ClaimNew, Current
    <2>2. CASE i # Current(c)
      <3>1. key[i] = "persistent"
        BY <1>3, <2>2 DEF ClaimNew
      <3>2. PICK d \in Consumers : pc[d] = "expire" /\ Current(d) = i
        BY <1>0, <3>1
      <3> QED
        BY <1>3, <3>2 DEF ClaimNew, Current
    <2> QED
      BY <2>1, <2>2
  <1>4. ASSUME NEW c \in Consumers, SetExpiry(c) PROVE Goal
    <2>1. Current(c) # i /\ key[i] = "persistent"
      BY <1>4 DEF SetExpiry, KeyState
    <2>2. PICK d \in Consumers : pc[d] = "expire" /\ Current(d) = i
      BY <1>0, <2>1
    <2> QED
      BY <1>4, <2>1, <2>2 DEF SetExpiry, Current
  <1>5. ASSUME NEW c \in Consumers,
               \/ LoopTop(c) \/ PollMessage(c) \/ PollNothing(c) \/ SkipDuplicate(c)
               \/ AttemptSucceeds(c) \/ AttemptFails(c) \/ DeadLetter(c) \/ DeadLetterFails(c)
               \/ AutoCommit(c) \/ Rejoin(c) \/ RequestShutdown(c) \/ Restart(c)
        PROVE  Goal
    <2>1. \/ key' = key /\ pc[c] # "expire"
          \/ pc' = pc /\ position' = position /\ log' = log /\ key' = key
      BY <1>5 DEF LoopTop, PollMessage, PollNothing, SkipDuplicate, AttemptSucceeds, AttemptFails,
             DeadLetter, DeadLetterFails, AutoCommit, Rejoin, RequestShutdown, Restart
    <2>2. key' = key
      BY <2>1
    <2>3. PICK d \in Consumers : pc[d] = "expire" /\ Current(d) = i
      BY <1>0, <2>2
    <2>4. pc'[d] = "expire" /\ position'[d] = position[d] /\ log' = log
      BY <1>5, <2>1, <2>3 DEF LoopTop, PollMessage, PollNothing, SkipDuplicate, AttemptSucceeds,
             AttemptFails, DeadLetter, DeadLetterFails, AutoCommit, Rejoin, RequestShutdown, Restart
    <2> QED
      BY <2>3, <2>4 DEF Current
  <1>6. ASSUME UNCHANGED vars PROVE Goal
    BY <1>0, <1>6 DEF vars, Current
  <1>7. \A c \in Consumers : ~Crash(c) /\ ~ClaimRaises(c) /\ ~ExpiryRaises(c)
    BY CalmStep
  <1>8. ASSUME NEW e \in Ids, Publish(e) PROVE Goal
    BY <1>1, <1>8 DEF Publish
  <1>9. ASSUME NEW o \in 1..Len(log), PublishAgain(o) PROVE Goal
    <2>1. log[o] \in Ids
      OBVIOUS
    <2> QED
      BY <1>1, <1>9, <2>1 DEF PublishAgain
  <1> HIDE DEF Goal, TypeOK
  <1>10. ASSUME NEW c \in Consumers, LoopStep(c) \/ PollMessage(c) \/ Disturbance(c) \/ Crash(c)
         PROVE  Goal
    BY <1>3, <1>4, <1>5, <1>7, <1>10 DEF LoopStep, LoopControl, Attempt, Disturbance
  <1>11. Goal
    BY <1>2, <1>6, <1>8, <1>9, <1>10 DEF Next
  <1> QED
    BY <1>11 DEF Goal

\* Every key gets its time to live: one without it exists only between SETNX and
\* EXPIRE, as long as no process crashes and no Redis call fails.
THEOREM KeysExpire == Spec => []EveryKeyGetsItsTtl
  <1>1. Init => Expiring
    BY DEF Init, Expiring
  <1>2. TypeOK /\ Expiring /\ [Next]_vars => Expiring'
    BY ExpiringStep
  <1>3. Expiring => EveryKeyGetsItsTtl
    BY DEF Expiring, EveryKeyGetsItsTtl, Calm
  <1> QED
    BY <1>1, <1>2, <1>3, TypeCorrect, PTL DEF Spec

\* In good hands an event stays: work on it ends only with an outcome.
LEMMA HandledStays ==
    ASSUME TypeOK, [Next]_vars, Calm({"crash", "redis", "dlq"})', NEW i \in Ids, Handled(i)
    PROVE  Handled(i)'
  <1> USE DEF TypeOK
  <1>1. ASSUME outcomes' = outcomes, \A d \in Consumers : Working(d, i) => Working(d, i)'
        PROVE  Handled(i)'
    BY <1>1 DEF Handled
  <1>2. ASSUME NEW e \in Ids, Publish(e) PROVE Handled(i)'
    BY <1>1, <1>2, GrowingLog DEF Publish
  <1>3. ASSUME NEW o \in 1..Len(log), PublishAgain(o) PROVE Handled(i)'
    <2>1. log[o] \in Ids
      OBVIOUS
    <2> QED
      BY <1>1, <1>3, <2>1, GrowingLog DEF PublishAgain
  <1>4. ASSUME NEW j \in Ids, LoseKey(j) PROVE Handled(i)'
    BY <1>1, <1>4 DEF LoseKey, Working, Current
  <1>5. ASSUME NEW c \in Consumers,
               \/ LoopTop(c) \/ PollMessage(c) \/ PollNothing(c) \/ SkipDuplicate(c)
               \/ AttemptFails(c) \/ AutoCommit(c) \/ RequestShutdown(c) \/ Restart(c) \/ Rejoin(c)
               \/ ClaimNew(c) \/ SetExpiry(c)
        PROVE  Handled(i)'
    <2>1. \A d \in Consumers : Working(d, i) => Working(d, i)'
      BY <1>5 DEF LoopTop, PollMessage, PollNothing, SkipDuplicate, AttemptFails, AutoCommit,
                  RequestShutdown, Restart, Rejoin, ClaimNew, SetExpiry, Working, Current
    <2> QED
      BY <1>1, <1>5, <2>1 DEF LoopTop, PollMessage, PollNothing, SkipDuplicate, AttemptFails,
                  AutoCommit, RequestShutdown, Restart, Rejoin, ClaimNew, SetExpiry
  <1>6. ASSUME NEW c \in Consumers, NEW kind \in {"processed", "dlq"}, Record(c, kind),
               GoTo(c, "top"), UNCHANGED <<log, position>>
        PROVE  Handled(i)'
    <2>1. CASE Current(c) = i
      <3>1. outcomes'[i] = Append(outcomes[i], <<c, kind>>) /\ outcomes[i] \in Seq(Outcome)
        BY <1>6, <2>1
      <3>2. Len(outcomes'[i]) = Len(outcomes[i]) + 1
        BY <3>1, AppendFacts, <<c, kind>> \in Outcome DEF Outcome
      <3>3. Len(outcomes[i]) \in Nat
        BY <3>1
      <3>4. outcomes'[i] # <<>>
        <4> SUFFICES ASSUME outcomes'[i] = <<>> PROVE FALSE
          OBVIOUS
        <4>1. Len(outcomes'[i]) = 0
          OBVIOUS
        <4> QED
          BY <3>2, <3>3, <4>1
      <3> QED
        BY <3>4 DEF Handled
    <2>2. CASE Current(c) # i
      <3>1. outcomes'[i] = outcomes[i]
        BY <1>6, <2>2
      <3>2. \A d \in Consumers : Working(d, i) => Working(d, i)'
        BY <1>6, <2>2 DEF Working, Current
      <3> QED
        BY <3>1, <3>2 DEF Handled
    <2> QED
      BY <2>1, <2>2
  <1>7. ASSUME NEW c \in Consumers, AttemptSucceeds(c) \/ DeadLetter(c) PROVE Handled(i)'
    BY <1>6, <1>7 DEF AttemptSucceeds, DeadLetter
  <1>8. ASSUME UNCHANGED vars PROVE Handled(i)'
    BY <1>1, <1>8 DEF vars, Working, Current
  <1> HIDE DEF TypeOK
  <1>9. ASSUME NEW c \in Consumers, LoopStep(c) \/ PollMessage(c) \/ Disturbance(c) \/ Crash(c)
        PROVE  Handled(i)'
    BY <1>5, <1>7, <1>9, CalmStep DEF LoopStep, LoopControl, Attempt, Disturbance
  <1> QED
    BY <1>2, <1>3, <1>4, <1>8, <1>9 DEF Next

\* A key appears only together with somebody who works on its event.
LEMMA KeyVouches ==
    ASSUME TypeOK, Vouched, [Next]_vars, Calm({"crash", "redis", "dlq"})',
           NEW i \in Ids, key'[i] # "absent"
    PROVE  Handled(i)'
  <1>1. CASE key[i] # "absent"
    <2>1. Handled(i)
      BY <1>1, CalmStep DEF Vouched
    <2> QED
      BY <2>1, HandledStays
  <1>2. CASE key[i] = "absent"
    <2>1. PICK c \in Consumers : ClaimNew(c) /\ Current(c) = i
      <3> USE DEF TypeOK
      <3>1. ASSUME NEW c \in Consumers, ClaimNew(c) PROVE Current(c) = i
        BY <1>2, <3>1 DEF ClaimNew
      <3>2. ASSUME NEW c \in Consumers,
                   \/ LoopTop(c) \/ PollMessage(c) \/ PollNothing(c) \/ SkipDuplicate(c)
                   \/ AttemptFails(c) \/ AutoCommit(c) \/ RequestShutdown(c) \/ Restart(c)
                   \/ Rejoin(c) \/ SetExpiry(c) \/ AttemptSucceeds(c) \/ DeadLetter(c)
            PROVE  FALSE
        BY <1>2, <3>2 DEF LoopTop, PollMessage, PollNothing, SkipDuplicate, AttemptFails, AutoCommit,
               RequestShutdown, Restart, Rejoin, SetExpiry, AttemptSucceeds, DeadLetter
      <3>3. ASSUME \/ \E j \in Ids : Publish(j) \/ LoseKey(j)
                   \/ \E o \in 1..Len(log) : PublishAgain(o)
                   \/ UNCHANGED vars
            PROVE  FALSE
        BY <1>2, <3>3 DEF Publish, LoseKey, PublishAgain, vars
      <3> HIDE DEF TypeOK
      <3>4. PICK c \in Consumers : LoopStep(c) \/ PollMessage(c) \/ Disturbance(c) \/ Crash(c)
        BY <3>3 DEF Next
      <3>5. ClaimNew(c)
        BY <3>2, <3>4, CalmStep DEF LoopStep, LoopControl, Attempt, Disturbance
      <3> QED
        BY <3>1, <3>5
    <2>2. Working(c, i)'
      BY <2>1 DEF ClaimNew, Working, Current, TypeOK
    <2> QED
      BY <2>2 DEF Handled
  <1> QED
    BY <1>1, <1>2

\* What a consumer was given is in good hands, or it is about to claim it.
LEMMA GivenIsHandled ==
    ASSUME TypeOK, TypeOK', CommitLags, Vouched, [Next]_vars, Calm({"crash", "redis", "dlq"})',
           NEW c \in Consumers, NEW o \in 1..position'[c], NEW j \in Ids, j = log'[o]
    PROVE  Handled(j)' \/ (o = position'[c] /\ pc'[c] = "claim")
  <1> DEFINE Goal == Handled(j)' \/ (o = position'[c] /\ pc'[c] = "claim")
  <1>1. ASSUME Handled(j) PROVE Goal
    BY <1>1, HandledStays
  <1>2. ASSUME o \in 1..position[c], log'[o] = log[o], pc'[c] = pc[c], position'[c] = position[c]
        PROVE  Goal
    <2>1. Handled(j) \/ (o = position[c] /\ pc[c] = "claim")
      BY <1>2, CalmStep DEF Vouched
    <2> QED
      BY <1>1, <1>2, <2>1
  <1>3. ASSUME o \in 1..position[c], log'[o] = log[o], pc[c] # "claim" PROVE Goal
    <2>1. Handled(j)
      BY <1>3, CalmStep DEF Vouched
    <2> QED
      BY <1>1, <2>1
  <1> USE DEF TypeOK
  <1>4. ASSUME NEW e \in Ids, log' = Append(log, e), UNCHANGED <<pc, position>> PROVE Goal
    <2>1. o \in 1..Len(log)
      BY <1>4
    <2>2. log'[o] = log[o]
      BY <1>4, <2>1, AppendFacts
    <2> QED
      BY <1>2, <1>4, <2>2
  <1>5. ASSUME NEW d \in Consumers, PollMessage(d) PROVE Goal
    <2>1. CASE d = c /\ o = position'[c]
      BY <1>5, <2>1 DEF PollMessage
    <2>2. CASE d = c /\ o # position'[c]
      <3>1. o \in 1..position[c] /\ pc[c] # "claim"
        BY <1>5, <2>2 DEF PollMessage
      <3> QED
        BY <1>3, <1>5, <3>1 DEF PollMessage
    <2>3. CASE d # c
      BY <1>2, <1>5, <2>3 DEF PollMessage
    <2> QED
      BY <2>1, <2>2, <2>3
  <1>6. ASSUME NEW d \in Consumers, ClaimNew(d) PROVE Goal
    <2>1. CASE d = c /\ o = position[c]
      <3>1. Working(c, j)'
        BY <1>6, <2>1 DEF ClaimNew, Working, Current
      <3> QED
        BY <3>1 DEF Handled
    <2>2. CASE d = c /\ o # position[c]
      <3>1. o \in 1..position[c] /\ log'[o] = log[o]
        BY <1>6, <2>2 DEF ClaimNew
      <3>2. Handled(j)
        BY <2>2, <3>1, CalmStep DEF Vouched
      <3> QED
        BY <1>1, <3>2
    <2>3. CASE d # c
      BY <1>2, <1>6, <2>3 DEF ClaimNew
    <2> QED
      BY <2>1, <2>2, <2>3
  <1>7. ASSUME NEW d \in Consumers, SkipDuplicate(d) PROVE Goal
    <2>1. CASE d = c /\ o = position[c]
      <3>1. j = Current(c) /\ key[j] # "absent"
        BY <1>7, <2>1 DEF SkipDuplicate, Current
      <3>2. Handled(j)
        BY <3>1, CalmStep DEF Vouched
      <3> QED
        BY <1>1, <3>2
    <2>2. CASE d = c /\ o # position[c]
      <3>1. o \in 1..position[c] /\ log'[o] = log[o]
        BY <1>7, <2>2 DEF SkipDuplicate
      <3>2. Handled(j)
        BY <2>2, <3>1, CalmStep DEF Vouched
      <3> QED
        BY <1>1, <3>2
    <2>3. CASE d # c
      BY <1>2, <1>7, <2>3 DEF SkipDuplicate
    <2> QED
      BY <2>1, <2>2, <2>3
  <1>8. ASSUME NEW d \in Consumers, Rejoin(d) \/ Restart(d) PROVE Goal
    <2>1. CASE d = c
      <3>1. o \in 1..position[c] /\ log'[o] = log[o] /\ pc[c] # "claim"
        BY <1>8, <2>1 DEF Rejoin, Restart, CommitLags
      <3> QED
        BY <1>3, <3>1
    <2>2. CASE d # c
      BY <1>2, <1>8, <2>2 DEF Rejoin, Restart
    <2> QED
      BY <2>1, <2>2
  <1>9. ASSUME NEW d \in Consumers, pc[d] # "claim", log' = log, position' = position,
               \A e \in Consumers : e # d => pc'[e] = pc[e]
        PROVE  Goal
    BY <1>2, <1>3, <1>9
  <1>10. ASSUME NEW d \in Consumers,
                \/ LoopTop(d) \/ PollNothing(d) \/ AttemptFails(d) \/ SetExpiry(d)
                \/ AttemptSucceeds(d) \/ DeadLetter(d)
         PROVE  Goal
    BY <1>9, <1>10 DEF LoopTop, PollNothing, AttemptFails, SetExpiry, AttemptSucceeds, DeadLetter
  <1>11. ASSUME UNCHANGED <<log, pc, position>> PROVE Goal
    BY <1>2, <1>11
  <1>12. ASSUME NEW d \in Consumers, AutoCommit(d) \/ RequestShutdown(d) PROVE Goal
    BY <1>11, <1>12 DEF AutoCommit, RequestShutdown
  <1>13. ASSUME NEW e \in Ids, Publish(e) PROVE Goal
    BY <1>4, <1>13 DEF Publish
  <1>14. ASSUME NEW p \in 1..Len(log), PublishAgain(p) PROVE Goal
    <2>1. log[p] \in Ids
      OBVIOUS
    <2> QED
      BY <1>4, <1>14, <2>1 DEF PublishAgain
  <1>15. ASSUME (\E e \in Ids : LoseKey(e)) \/ UNCHANGED vars PROVE Goal
    BY <1>11, <1>15 DEF LoseKey, vars
  <1> HIDE DEF TypeOK, Goal
  <1>16. ASSUME NEW d \in Consumers, LoopStep(d) \/ PollMessage(d) \/ Disturbance(d) \/ Crash(d)
         PROVE  Goal
    BY <1>5, <1>6, <1>7, <1>8, <1>10, <1>12, <1>16, CalmStep
       DEF LoopStep, LoopControl, Attempt, Disturbance
  <1>17. Goal
    BY <1>13, <1>14, <1>15, <1>16 DEF Next
  <1> QED
    BY <1>17 DEF Goal

\* Nothing is dropped while processes, Redis and the DLQ work: what a consumer
\* has moved past was processed or dead-lettered, or somebody works on it.
THEOREM NothingDropped == Spec => []Accounted
  <1>1. Init => Vouched
    BY DEF Init, Vouched
  <1>2. TypeOK /\ TypeOK' /\ CommitLags /\ Vouched /\ [Next]_vars => Vouched'
    <2> SUFFICES ASSUME TypeOK, TypeOK', CommitLags, Vouched, [Next]_vars,
                        Calm({"crash", "redis", "dlq"})'
                 PROVE  /\ \A i \in Ids : key'[i] # "absent" => Handled(i)'
                        /\ \A c \in Consumers : \A o \in 1..position'[c] :
                              (Handled(log[o]) \/ (o = position[c] /\ pc[c] = "claim"))'
      BY DEF Vouched
    <2>1. \A c \in Consumers : \A o \in 1..position'[c] : log'[o] \in Ids
      BY DEF TypeOK
    <2> QED
      BY <2>1, KeyVouches, GivenIsHandled
  <1>3. Vouched => Accounted
    BY DEF Vouched, Accounted, Calm, Handled
  <1> QED
    BY <1>1, <1>2, <1>3, TypeCorrect, CommitLagsInvariant, PTL DEF Spec
-----------------------------------------------------------------------------
(***************************************************************************)
(* The loop implements DedupContract.                                      *)
(***************************************************************************)

\* A step that leaves keys, outcomes and everybody's work alone is invisible.
LEMMA Invisible ==
    ASSUME \A i \in Ids : key'[i] = "absent" <=> key[i] = "absent",
           outcomes' = outcomes,
           \A i \in Ids, d \in Consumers : Working(d, i)' <=> Working(d, i)
    PROVE  UNCHANGED Contract!vars
  <1>1. Marks' = Marks
    BY DEF Marks
  <1>2. Claims' = Claims
    BY DEF Claims
  <1> QED
    BY <1>1, <1>2 DEF Contract!vars

\* The effect of one consumer's progress on Claims.
LEMMA ClaimsAfter ==
    ASSUME NEW j \in Ids, NEW c \in Consumers, NEW S \in SUBSET Consumers,
           \A i \in Ids, d \in Consumers : i # j => (Working(d, i)' <=> Working(d, i)),
           \A d \in Consumers : Working(d, j)' <=> d \in S
    PROVE  Claims' = [Claims EXCEPT ![j] = S]
  BY DEF Claims

\* A claim ends: c stops working on the event, nobody else is affected.
LEMMA ClaimEnds ==
    ASSUME TypeOK, NEW c \in Consumers, NEW where \in {"top", "down"}, GoTo(c, where),
           UNCHANGED <<log, position>>,
           pc[c] \in {"expire", "attempt", "dlq"}, NEW j \in Ids, Current(c) = j
    PROVE  /\ c \in Claims[j]
           /\ Claims' = [Claims EXCEPT ![j] = @ \ {c}]
  <1>1. \A i \in Ids, d \in Consumers : Working(d, i)' <=> Working(d, i) /\ d # c
    BY DEF Working, Current, TypeOK
  <1>2. Claims[j] = {d \in Consumers : Working(d, j)}
    BY DEF Claims
  <1>3. \A d \in Consumers : Working(d, j)' <=> d \in Claims[j] \ {c}
    BY <1>1, <1>2
  <1>4. \A i \in Ids, d \in Consumers : i # j => (Working(d, i)' <=> Working(d, i))
    BY <1>1 DEF Working
  <1>5. Claims[j] \ {c} \in SUBSET Consumers
    BY <1>2
  <1>6. Claims' = [Claims EXCEPT ![j] = Claims[j] \ {c}]
    BY <1>3, <1>4, <1>5, ClaimsAfter
  <1>7. Working(c, j)
    BY DEF Working
  <1> QED
    BY <1>2, <1>6, <1>7

\* Every step of the loop is a step of the contract or invisible to it.
LEMMA StepImplements ==
    ASSUME TypeOK, TypeOK', [Next]_vars
    PROVE  [Contract!Next]_(Contract!vars)
  <1> DEFINE Goal == [Contract!Next]_(Contract!vars)
  <1>1. ASSUME NEW j \in Ids, Publish(j) PROVE Goal
    <2>1. \A i \in Ids, d \in Consumers : Working(d, i)' <=> Working(d, i)
      BY <1>1, GrowingLog DEF Publish
    <2> QED
      BY <1>1, <2>1, Invisible DEF Publish
  <1>2. ASSUME NEW o \in 1..Len(log), PublishAgain(o) PROVE Goal
    <2>1. log[o] \in Ids
      BY DEF TypeOK
    <2>2. \A i \in Ids, d \in Consumers : Working(d, i)' <=> Working(d, i)
      BY <1>2, <2>1, GrowingLog DEF PublishAgain
    <2> QED
      BY <1>2, <2>2, Invisible DEF PublishAgain
  <1>3. ASSUME NEW i \in Ids, LoseKey(i) PROVE Goal
    <2>1. Marks[i] /\ Marks' = [Marks EXCEPT ![i] = FALSE]
      BY <1>3 DEF LoseKey, Marks, TypeOK
    <2>2. Claims' = Claims
      BY <1>3 DEF LoseKey, Claims, Working, Current
    <2>3. Contract!Forget(i)
      BY <1>3, <2>1, <2>2 DEF Contract!Forget, LoseKey
    <2> QED
      BY <2>3 DEF Contract!Next
  <1>4. ASSUME NEW c \in Consumers,
               \/ LoopTop(c) \/ PollMessage(c) \/ PollNothing(c) \/ SkipDuplicate(c)
               \/ AttemptFails(c) \/ AutoCommit(c) \/ RequestShutdown(c) \/ Restart(c) \/ Rejoin(c)
        PROVE  Goal
    <2>1. \A i \in Ids, d \in Consumers : Working(d, i)' <=> Working(d, i)
      <3>1. ASSUME UNCHANGED <<log, position>>, \A d \in Consumers \ {c} : pc'[d] = pc[d],
                   pc'[c] = pc[c] \/ {pc[c], pc'[c]} \cap {"expire", "attempt", "dlq"} = {}
                      \/ {pc[c], pc'[c]} \subseteq {"expire", "attempt", "dlq"}
            PROVE  \A i \in Ids, d \in Consumers : Working(d, i)' <=> Working(d, i)
        BY <3>1 DEF Working, Current
      <3>2. CASE LoopTop(c) \/ PollNothing(c) \/ SkipDuplicate(c)
        BY <3>1, <3>2 DEF LoopTop, PollNothing, SkipDuplicate, GoTo, TypeOK
      <3>3. CASE AttemptFails(c)
        BY <3>1, <3>3 DEF AttemptFails, GoTo, TypeOK
      <3>4. CASE AutoCommit(c) \/ RequestShutdown(c)
        BY <3>1, <3>4 DEF AutoCommit, RequestShutdown
      <3>5. CASE PollMessage(c)
        BY <3>5 DEF PollMessage, Working, Current, GoTo, TypeOK
      <3>6. CASE Restart(c)
        BY <3>6 DEF Restart, Working, Current, GoTo, TypeOK
      <3>7. CASE Rejoin(c)
        BY <3>7 DEF Rejoin, Working, Current, GoTo, TypeOK
      <3> QED
        BY <1>4, <3>2, <3>3, <3>4, <3>5, <3>6, <3>7
    <2> QED
      BY <1>4, <2>1, Invisible DEF LoopTop, PollMessage, PollNothing, SkipDuplicate,
                  AttemptFails, AutoCommit, RequestShutdown, Restart, Rejoin
  <1>5. ASSUME NEW c \in Consumers, SetExpiry(c) PROVE Goal
    <2>1. \A i \in Ids, d \in Consumers : Working(d, i)' <=> Working(d, i)
      BY <1>5 DEF SetExpiry, Working, Current, TypeOK
    <2>2. \A i \in Ids : key'[i] = "absent" <=> key[i] = "absent"
      BY <1>5 DEF SetExpiry, TypeOK
    <2> QED
      BY <1>5, <2>1, <2>2, Invisible DEF SetExpiry
  <1>6. ASSUME NEW c \in Consumers, ClaimNew(c) PROVE Goal
    <2>1. PICK i \in Ids : i = Current(c)
      BY <1>6 DEF ClaimNew, TypeOK, Current
    <2>2. ~Marks[i]
      BY <1>6, <2>1 DEF ClaimNew, Marks
    <2>3. Marks' = [Marks EXCEPT ![i] = TRUE]
      BY <1>6, <2>1 DEF ClaimNew, Marks, TypeOK
    <2>4. \A k \in Ids, d \in Consumers :
             Working(d, k)' <=> Working(d, k) \/ (d = c /\ k = i)
      BY <1>6, <2>1 DEF ClaimNew, Working, Current, TypeOK
    <2>5. Claims' = [Claims EXCEPT ![i] = @ \cup {c}]
      <3>1. Claims[i] = {d \in Consumers : Working(d, i)}
        BY DEF Claims
      <3>2. /\ Claims[i] \cup {c} \in SUBSET Consumers
            /\ \A d \in Consumers : Working(d, i)' <=> d \in Claims[i] \cup {c}
        BY <2>4, <3>1
      <3>3. \A k \in Ids, d \in Consumers : k # i => (Working(d, k)' <=> Working(d, k))
        BY <2>4
      <3> QED
        BY <3>2, <3>3, ClaimsAfter
    <2>6. Contract!Claim(c, i)
      BY <1>6, <2>2, <2>3, <2>5 DEF Contract!Claim, ClaimNew
    <2> QED
      BY <2>6 DEF Contract!Next
  <1>7. ASSUME NEW c \in Consumers, ClaimRaises(c) PROVE Goal
    <2>1. \A i \in Ids, d \in Consumers : Working(d, i)' <=> Working(d, i)
      BY <1>7 DEF ClaimRaises, Working, Current, TypeOK
    <2>2. CASE key' = key
      BY <1>7, <2>1, <2>2, Invisible DEF ClaimRaises
    <2>3. CASE key[Current(c)] = "absent" /\ key' = [key EXCEPT ![Current(c)] = "persistent"]
      <3>1. PICK i \in Ids : i = Current(c)
        BY <1>7 DEF ClaimRaises, TypeOK, Current
      <3>2. ~Marks[i] /\ Marks' = [Marks EXCEPT ![i] = TRUE]
        BY <2>3, <3>1 DEF Marks, TypeOK
      <3>3. Claims' = Claims
        BY <2>1 DEF Claims
      <3>4. Contract!ClaimUnanswered(i)
        BY <1>7, <3>2, <3>3 DEF Contract!ClaimUnanswered, ClaimRaises
      <3> QED
        BY <3>4 DEF Contract!Next
    <2> QED
      BY <1>7, <2>2, <2>3 DEF ClaimRaises
  <1>8. ASSUME NEW c \in Consumers, pc[c] \in {"expire", "attempt", "dlq"},
               NEW where \in {"top", "down"}, GoTo(c, where),
               UNCHANGED <<log, position, outcomes>>,
               \A i \in Ids : key'[i] = "absent" <=> key[i] = "absent"
        PROVE  Goal
    <2>1. PICK i \in Ids : i = Current(c)
      BY <1>8 DEF TypeOK, Current
    <2>2. c \in Claims[i] /\ Claims' = [Claims EXCEPT ![i] = @ \ {c}]
      BY <1>8, <2>1, ClaimEnds
    <2>3. Marks' = Marks
      BY <1>8 DEF Marks
    <2>4. Contract!Abandon(c, i)
      BY <1>8, <2>2, <2>3 DEF Contract!Abandon
    <2> QED
      BY <2>4 DEF Contract!Next
  <1>9. ASSUME NEW c \in Consumers, ExpiryRaises(c) \/ DeadLetterFails(c) PROVE Goal
    <2>1. \A i \in Ids : key'[i] = "absent" <=> key[i] = "absent"
      BY <1>9 DEF ExpiryRaises, DeadLetterFails, TypeOK
    <2> QED
      BY <1>8, <1>9, <2>1 DEF ExpiryRaises, DeadLetterFails
  <1>10. ASSUME NEW c \in Consumers, Crash(c) PROVE Goal
    <2>1. CASE pc[c] \in {"expire", "attempt", "dlq"}
      BY <1>8, <1>10, <2>1 DEF Crash
    <2>2. CASE pc[c] \notin {"expire", "attempt", "dlq"}
      <3>1. \A i \in Ids, d \in Consumers : Working(d, i)' <=> Working(d, i)
        BY <1>10, <2>2 DEF Crash, Working, Current, TypeOK
      <3> QED
        BY <1>10, <3>1, Invisible DEF Crash
    <2> QED
      BY <2>1, <2>2
  <1>11. ASSUME NEW c \in Consumers, NEW kind \in {"processed", "dlq"},
                pc[c] \in {"attempt", "dlq"}, Record(c, kind), GoTo(c, "top"),
                UNCHANGED <<log, key, position>>
         PROVE  Goal
    <2>1. PICK i \in Ids : i = Current(c)
      BY <1>11 DEF TypeOK, Current
    <2>2. c \in Claims[i] /\ Claims' = [Claims EXCEPT ![i] = @ \ {c}]
      BY <1>11, <2>1, ClaimEnds
    <2>3. Marks' = Marks
      BY <1>11 DEF Marks
    <2>4. Contract!Complete(c, i, kind)
      BY <1>11, <2>1, <2>2, <2>3 DEF Contract!Complete
    <2> QED
      BY <2>4 DEF Contract!Next
  <1>12. ASSUME NEW c \in Consumers, AttemptSucceeds(c) \/ DeadLetter(c) PROVE Goal
    BY <1>11, <1>12 DEF AttemptSucceeds, DeadLetter
  <1>13. ASSUME UNCHANGED vars PROVE Goal
    BY <1>13, Invisible DEF vars, Working, Current
  <1> HIDE DEF Goal
  <1>14. Goal
    BY <1>1, <1>2, <1>3, <1>4, <1>5, <1>6, <1>7, <1>9, <1>10, <1>12, <1>13 DEF Next, LoopStep, LoopControl, Attempt, Disturbance
  <1> QED
    BY <1>14 DEF Goal

\* The loop implements the deduplication contract: every outcome is bought by a
\* claim of its own that found no mark, also when keys are lost.
THEOREM Implementation == Spec => ImplementsContract
  <1>1. Init => Contract!Init
    BY DEF Init, Contract!Init, Marks, Claims, Working
  <1>2. TypeOK /\ TypeOK' /\ [Next]_vars => [Contract!Next]_(Contract!vars)
    BY StepImplements
  <1> QED
    BY <1>1, <1>2, TypeCorrect, PTL DEF Spec, ImplementsContract, Contract!Spec
=============================================================================
