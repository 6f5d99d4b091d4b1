---------------------------- MODULE AlertsProofs ----------------------------
(***************************************************************************)
(* What holds of stored alerts and their deliveries, for any workers,      *)
(* webhooks, filters and findings, and any number of attempts.             *)
(***************************************************************************)
EXTENDS Alerts, SequenceTheorems, FiniteSetTheorems, TLAPS

\* The types, with what the code that stores an alert relies on: a worker that is not idle
\* works on a job that has begun.
Typed ==
    /\ TypeOK
    /\ \A w \in Workers : pc[w] # "idle" => job[w] \in 1..jobs
    /\ \A id \in 1..Len(alerts) : alerts[id].job <= jobs

\* The alert that a worker delivers.
Current(w) == batch[w][1]

LEMMA InHand ==
    ASSUME Typed, NEW w \in Workers, pc[w] \in {"query", "load", "deliver"}
    PROVE  /\ batch[w] \in Seq(1..Len(alerts)) /\ batch[w] # <<>>
           /\ Len(batch[w]) \in Nat \ {0} /\ DOMAIN batch[w] = 1..Len(batch[w])
           /\ Head(batch[w]) = Current(w) /\ Current(w) \in 1..Len(alerts)
           /\ 1 \in DOMAIN batch[w]
           /\ job[w] \in 1..jobs /\ job[w] \in 1..MaxJobs
<1>1. batch[w] \in Seq(1..Len(alerts)) /\ batch[w] # <<>>
  BY DEF Typed, TypeOK
<1>2. Len(batch[w]) \in Nat \ {0} /\ DOMAIN batch[w] = 1..Len(batch[w])
  BY <1>1
<1>3. Head(batch[w]) = batch[w][1] /\ batch[w][1] \in 1..Len(alerts)
  BY <1>1, <1>2
<1>4. job[w] \in 1..jobs /\ jobs \in 0..MaxJobs /\ MaxJobs \in Nat
  BY AlertsAssumption DEF Typed, TypeOK
<1> QED
  BY <1>1, <1>2, <1>3, <1>4 DEF Current

\* One more post of the alert in hand.
LEMMA PostedOnce ==
    ASSUME Typed, NEW w \in Workers, pc[w] = "deliver", NEW h \in Hooks, NEW ok \in BOOLEAN,
           Posted(w, h, ok)
    PROVE  /\ posts' \in Seq([Hooks -> Seq(BOOLEAN)]) /\ Len(posts') = Len(posts)
           /\ posts'[Current(w)][h] = Append(posts[Current(w)][h], ok)
           /\ \A id \in 1..Len(alerts), g \in Hooks :
                 id # Current(w) \/ g # h => posts'[id][g] = posts[id][g]
<1> DEFINE S == [Hooks -> Seq(BOOLEAN)]
           p == posts[Current(w)]
           q == [p EXCEPT ![h] = Append(p[h], ok)]
<1>1. posts \in Seq(S) /\ Len(posts) = Len(alerts) /\ Len(posts) \in Nat
  BY DEF Typed, TypeOK
<1>2. Current(w) \in 1..Len(posts) /\ Head(batch[w]) = Current(w)
  BY <1>1, InHand
<1>3. p \in S
  BY <1>1, <1>2
<1>4. Append(p[h], ok) \in Seq(BOOLEAN)
  BY <1>3
<1>5. q \in S
  BY <1>3, <1>4
<1>6. posts' = [posts EXCEPT ![Current(w)] = q]
  BY <1>2 DEF Posted
<1>7. /\ posts' \in Seq(S) /\ Len(posts') = Len(posts)
      /\ \A j \in 1..Len(posts) : posts'[j] = IF j = Current(w) THEN q ELSE posts[j]
  BY <1>1, <1>2, <1>5, <1>6, ExceptSeq
<1>8. q[h] = Append(p[h], ok) /\ \A g \in Hooks \ {h} : q[g] = p[g]
  BY <1>3
<1> QED
  BY <1>1, <1>2, <1>7, <1>8

\* New alerts come last, with nothing posted.
LEMMA StoredLast ==
    ASSUME Typed, NEW w \in Workers, pc[w] = "detect", NEW found \in Findings[w],
           Store(w, found)
    PROVE  /\ found \in Seq(Kind) /\ Len(found) \in Nat
           /\ alerts' \in Seq(Alert) /\ Len(alerts') = Len(alerts) + Len(found)
           /\ posts' \in Seq([Hooks -> Seq(BOOLEAN)]) /\ Len(posts') = Len(alerts')
           /\ \A id \in 1..Len(alerts) : alerts'[id] = alerts[id] /\ posts'[id] = posts[id]
           /\ \A id \in 1..Len(alerts') : id > Len(alerts) =>
                 alerts'[id].job = job[w] /\ \A h \in Hooks : posts'[id][h] = <<>>
           /\ \A id \in 1..Len(alerts') : id > Len(alerts) =>
                 id - Len(alerts) \in 1..Len(found) /\ alerts'[id].kind = found[id - Len(alerts)]
<1> DEFINE more == [n \in DOMAIN found |-> [job |-> job[w], kind |-> found[n]]]
           ps == [n \in DOMAIN found |-> [h \in Hooks |-> <<>>]]
           S == [Hooks -> Seq(BOOLEAN)]
<1>1. found \in Seq(Kind)
  BY AlertsAssumption DEF Workers
<1>2. Len(found) \in Nat /\ DOMAIN found = 1..Len(found)
  BY <1>1
<1>3. job[w] \in 1..MaxJobs
  BY AlertsAssumption DEF Typed, TypeOK
<1>4. more \in Seq(Alert) /\ Len(more) = Len(found)
  <2>1. \A n \in 1..Len(found) : [job |-> job[w], kind |-> found[n]] \in Alert
    BY <1>1, <1>3 DEF Alert
  <2> QED
    BY <1>2, <2>1
<1>5. ps \in Seq(S) /\ Len(ps) = Len(found)
  <2>1. [h \in Hooks |-> <<>>] \in S
    OBVIOUS
  <2> QED
    BY <1>2, <2>1
<1>6. alerts \in Seq(Alert) /\ posts \in Seq(S) /\ Len(posts) = Len(alerts) /\ Len(alerts) \in Nat
  BY DEF Typed, TypeOK
<1>7. alerts' = alerts \o more /\ posts' = posts \o ps
  BY DEF Store
<1>8. \A n \in 1..Len(found) : /\ more[n].job = job[w] /\ more[n].kind = found[n]
                               /\ \A h \in Hooks : ps[n][h] = <<>>
  BY <1>2
<1> HIDE DEF more, ps, S
<1>9. /\ alerts' \in Seq(Alert) /\ Len(alerts') = Len(alerts) + Len(found)
      /\ \A id \in 1..Len(alerts) + Len(found) :
            alerts'[id] = IF id <= Len(alerts) THEN alerts[id] ELSE more[id - Len(alerts)]
  <2>1. alerts \o more \in Seq(Alert)
    BY <1>4, <1>6, SMTT(30)
  <2>2. Len(alerts \o more) = Len(alerts) + Len(more)
    BY <1>4, <1>6
  <2>3. \A id \in 1..Len(alerts) + Len(more) :
           (alerts \o more)[id] = IF id <= Len(alerts) THEN alerts[id] ELSE more[id - Len(alerts)]
    BY <1>4, <1>6, ConcatProperties
  <2> QED
    BY <1>4, <1>7, <2>1, <2>2, <2>3
<1>10. /\ posts' \in Seq(S) /\ Len(posts') = Len(alerts) + Len(found)
       /\ \A id \in 1..Len(alerts) + Len(found) :
             posts'[id] = IF id <= Len(alerts) THEN posts[id] ELSE ps[id - Len(alerts)]
  <2>1. posts \o ps \in Seq(S)
    BY <1>5, <1>6, SMTT(30)
  <2>2. Len(posts \o ps) = Len(posts) + Len(ps)
    BY <1>5, <1>6
  <2>3. \A id \in 1..Len(posts) + Len(ps) :
           (posts \o ps)[id] = IF id <= Len(posts) THEN posts[id] ELSE ps[id - Len(posts)]
    BY <1>5, <1>6, ConcatProperties
  <2> QED
    BY <1>5, <1>6, <1>7, <2>1, <2>2, <2>3, Zenon
<1>11. PICK k, m \in Nat : k = Len(alerts) /\ m = Len(found)
  BY <1>2, <1>6
<1>12. ASSUME NEW id \in 1..Len(alerts') , id > Len(alerts)
       PROVE  /\ alerts'[id].job = job[w] /\ \A h \in Hooks : posts'[id][h] = <<>>
              /\ id - Len(alerts) \in 1..Len(found) /\ alerts'[id].kind = found[id - Len(alerts)]
  <2>1. id \in 1..k + m /\ id > k
    BY <1>9, <1>11, <1>12
  <2>2. id - k \in 1..m /\ ~(id <= k)
    BY <2>1
  <2>3. alerts'[id] = more[id - k] /\ posts'[id] = ps[id - k]
    BY <1>9, <1>10, <1>11, <2>1, <2>2
  <2> QED
    BY <1>8, <1>11, <2>2, <2>3
<1>13. ASSUME NEW id \in 1..Len(alerts)
       PROVE  alerts'[id] = alerts[id] /\ posts'[id] = posts[id]
  <2>1. id \in 1..k + m /\ id <= k
    BY <1>11
  <2> QED
    BY <1>9, <1>10, <1>11, <2>1
<1> QED
  BY <1>1, <1>2, <1>9, <1>10, <1>12, <1>13 DEF S

\* What a worker writes into its locals, while alerts are only added.
LEMMA LocalsOf ==
    ASSUME Typed, NEW w \in Workers, alerts' \in Seq(Alert), Len(alerts') >= Len(alerts),
           NEW b \in Seq(1..Len(alerts')), NEW t \in SUBSET Hooks, NEW l \in SUBSET Hooks,
           Locals(w, b, t, l)
    PROVE  /\ batch' \in [Workers -> Seq(1..Len(alerts'))] /\ batch'[w] = b
           /\ targets' \in [Workers -> SUBSET Hooks] /\ targets'[w] = t
           /\ left' \in [Workers -> SUBSET Hooks] /\ left'[w] = l
           /\ \A v \in Workers \ {w} :
                 batch'[v] = batch[v] /\ targets'[v] = targets[v] /\ left'[v] = left[v]
<1>1. /\ batch \in [Workers -> Seq(1..Len(alerts))]
      /\ targets \in [Workers -> SUBSET Hooks] /\ left \in [Workers -> SUBSET Hooks]
      /\ Len(alerts) \in Nat /\ Len(alerts') \in Nat
  BY DEF Typed, TypeOK
<1>2. 1..Len(alerts) \subseteq 1..Len(alerts')
  BY <1>1
<1>3. \A v \in Workers : batch[v] \in Seq(1..Len(alerts'))
  BY <1>1, <1>2, SeqMonotonic
<1>4. /\ batch' = [batch EXCEPT ![w] = b] /\ targets' = [targets EXCEPT ![w] = t]
      /\ left' = [left EXCEPT ![w] = l]
  BY DEF Locals
<1>5. \A v \in Workers : batch'[v] = IF v = w THEN b ELSE batch[v]
  BY <1>1, <1>4
<1>6. batch' \in [Workers -> Seq(1..Len(alerts'))]
  <2>1. batch' = [v \in Workers |-> IF v = w THEN b ELSE batch[v]]
    BY <1>1, <1>4
  <2> QED
    BY <1>3, <2>1
<1>7. targets' \in [Workers -> SUBSET Hooks] /\ left' \in [Workers -> SUBSET Hooks]
  BY <1>1, <1>4
<1> QED
  BY <1>1, <1>4, <1>5, <1>6, <1>7

\* A worker that has nothing in hand any more, and has ended or begins again.
LEMMA Forgotten ==
    ASSUME Typed, NEW w \in Workers, alerts' \in Seq(Alert), Len(alerts') >= Len(alerts), Forget(w)
    PROVE  /\ batch' \in [Workers -> Seq(1..Len(alerts'))] /\ batch'[w] = <<>>
           /\ targets' \in [Workers -> SUBSET Hooks] /\ left' \in [Workers -> SUBSET Hooks]
           /\ targets'[w] = {} /\ left'[w] = {}
           /\ \A v \in Workers \ {w} :
                 batch'[v] = batch[v] /\ targets'[v] = targets[v] /\ left'[v] = left[v]
<1>1. <<>> \in Seq(1..Len(alerts'))
  BY EmptySeq
<1>2. PICK b \in Seq(1..Len(alerts')), s \in SUBSET Hooks : b = <<>> /\ s = {}
  BY <1>1
<1>3. Locals(w, b, s, s)
  BY <1>2 DEF Forget
<1>4. /\ batch' \in [Workers -> Seq(1..Len(alerts'))] /\ batch'[w] = b
      /\ targets' \in [Workers -> SUBSET Hooks] /\ targets'[w] = s
      /\ left' \in [Workers -> SUBSET Hooks] /\ left'[w] = s
      /\ \A v \in Workers \ {w} :
            batch'[v] = batch[v] /\ targets'[v] = targets[v] /\ left'[v] = left[v]
  BY <1>3, LocalsOf
<1> QED
  BY <1>2, <1>4

\* What the end of an attempt, and of a job, leaves.
Released(w) ==
    /\ Forget(w)
    /\ pc' \in [Workers -> PC] /\ pc'[w] \in {"idle", "detect"}
    /\ job' \in [Workers -> 0..MaxJobs] /\ (pc'[w] # "idle" => job'[w] = job[w])
    /\ attempt' \in [Workers -> 1..MaxRetries]
    /\ \A v \in Workers \ {w} : pc'[v] = pc[v] /\ job'[v] = job[v]

LEMMA FinishReleases ==
    ASSUME Typed, NEW w \in Workers, Finish(w) PROVE Released(w)
BY AlertsAssumption DEF Typed, TypeOK, Finish, Released, GoTo, PC

LEMMA MistakeReleases ==
    ASSUME Typed, NEW w \in Workers, pc[w] # "idle", Mistake(w)
    PROVE  Released(w) /\ dlq' \subseteq 1..MaxJobs
<1>1. job[w] \in 1..MaxJobs /\ MaxRetries \in Nat \ {0} /\ MaxJobs \in Nat
  BY AlertsAssumption DEF Typed, TypeOK
<1>2. CASE w \in Consumers /\ attempt[w] < MaxRetries
  <2>1. /\ attempt' = [attempt EXCEPT ![w] = @ + 1]
        /\ GoTo(w, "detect") /\ Forget(w) /\ UNCHANGED <<job, dlq>>
    BY <1>2 DEF Mistake
  <2>2. attempt' \in [Workers -> 1..MaxRetries]
    BY <1>1, <1>2, <2>1 DEF Typed, TypeOK
  <2> QED
    BY <2>1, <2>2 DEF Typed, TypeOK, Released, GoTo, PC
<1>3. CASE ~(w \in Consumers /\ attempt[w] < MaxRetries)
  <2>1. Finish(w) /\ dlq' = IF w \in Consumers THEN dlq \cup {job[w]} ELSE dlq
    BY <1>3 DEF Mistake
  <2> QED
    BY <1>1, <2>1, FinishReleases DEF Typed, TypeOK
<1> QED
  BY <1>2, <1>3

LEMMA InitTyped == Init => Typed
<1> SUFFICES ASSUME Init PROVE Typed
  OBVIOUS
<1>1. alerts = <<>> /\ Len(alerts) = 0 /\ posts = <<>> /\ alerts \in Seq(Alert)
      /\ posts \in Seq([Hooks -> Seq(BOOLEAN)])
  BY DEF Init
<1>2. batch \in [Workers -> Seq(1..Len(alerts))]
  BY EmptySeq DEF Init
<1>3. attempt \in [Workers -> 1..MaxRetries]
  BY AlertsAssumption DEF Init
<1>4. job \in [Workers -> 0..MaxJobs] /\ jobs \in 0..MaxJobs
  BY AlertsAssumption DEF Init
<1> QED
  BY <1>1, <1>2, <1>3, <1>4 DEF Init, Typed, TypeOK, PC

\* What a step may leave of the tables.
Tables ==
    /\ alerts' \in Seq(Alert) /\ Len(alerts') >= Len(alerts)
    /\ posts' \in Seq([Hooks -> Seq(BOOLEAN)]) /\ Len(posts') = Len(alerts')
    /\ \A id \in 1..Len(alerts') : alerts'[id].job <= jobs
    /\ hooks' = hooks /\ jobs' = jobs /\ known' = known
    /\ dlq' \subseteq 1..MaxJobs
    /\ errors' \in Nat /\ crashes' \in Nat

LEMMA ReleasedTyped ==
    ASSUME Typed, NEW w \in Workers, pc[w] # "idle", Released(w), Tables PROVE Typed'
<1>1. /\ batch' \in [Workers -> Seq(1..Len(alerts'))]
      /\ targets' \in [Workers -> SUBSET Hooks] /\ left' \in [Workers -> SUBSET Hooks]
      /\ \A v \in Workers \ {w} : batch'[v] = batch[v]
  BY Forgotten DEF Released, Tables
<1>2. \A v \in Workers : pc'[v] \in {"query", "load", "deliver"} => batch'[v] # <<>>
  BY <1>1 DEF Typed, TypeOK, Released
<1>3. \A v \in Workers : pc'[v] # "idle" => job'[v] \in 1..jobs
  BY DEF Typed, Released
<1> QED
  BY <1>1, <1>2, <1>3 DEF Typed, TypeOK, Released, Tables

\* A worker goes on with the attempt.
LEMMA GoesOnTyped ==
    ASSUME Typed, NEW w \in Workers, pc[w] # "idle", Tables,
           NEW where \in {"query", "load", "deliver"}, GoTo(w, where), UNCHANGED <<job, attempt>>,
           NEW b \in Seq(1..Len(alerts')), b # <<>>,
           NEW t \in SUBSET Hooks, NEW l \in SUBSET Hooks, Locals(w, b, t, l)
    PROVE  Typed'
<1>1. /\ batch' \in [Workers -> Seq(1..Len(alerts'))] /\ batch'[w] = b
      /\ targets' \in [Workers -> SUBSET Hooks] /\ left' \in [Workers -> SUBSET Hooks]
      /\ \A v \in Workers \ {w} : batch'[v] = batch[v]
  BY LocalsOf DEF Tables
<1>2. pc' \in [Workers -> PC] /\ pc'[w] = where /\ \A v \in Workers \ {w} : pc'[v] = pc[v]
  BY DEF GoTo, Typed, TypeOK, PC
<1>3. \A v \in Workers : pc'[v] \in {"query", "load", "deliver"} => batch'[v] # <<>>
  BY <1>1, <1>2 DEF Typed, TypeOK
<1>4. \A v \in Workers : pc'[v] # "idle" => job'[v] \in 1..jobs
  BY <1>2 DEF Typed
<1> QED
  BY <1>1, <1>2, <1>3, <1>4 DEF Typed, TypeOK, Tables

LEMMA TablesKept ==
    ASSUME Typed, UNCHANGED <<alerts, hooks, posts, dlq, jobs, known, errors, crashes>>
    PROVE  Tables
<1>1. Len(alerts) \in Nat
  BY DEF Typed, TypeOK
<1> QED
  BY <1>1 DEF Typed, TypeOK, Tables

\* A worker that keeps to the alert in hand.
LEMMA PostTyped ==
    ASSUME Typed, NEW w \in Workers, pc[w] = "deliver", NEW h \in Hooks, NEW ok \in BOOLEAN,
           Posted(w, h, ok), NEW l \in SUBSET Hooks, Locals(w, batch[w], targets[w], l),
           UNCHANGED <<alerts, hooks, pc, job, attempt, dlq, jobs, known, errors, crashes>>
    PROVE  Typed'
<1>1. Tables
  <2>1. /\ posts' \in Seq([Hooks -> Seq(BOOLEAN)]) /\ Len(posts') = Len(posts)
        /\ Len(posts) = Len(alerts) /\ Len(alerts) \in Nat
    BY PostedOnce DEF Typed, TypeOK
  <2> QED
    BY <2>1 DEF Typed, TypeOK, Tables
<1>2. GoTo(w, "deliver")
  BY DEF GoTo, Typed, TypeOK
<1>3. batch[w] \in Seq(1..Len(alerts')) /\ batch[w] # <<>> /\ targets[w] \in SUBSET Hooks
  BY DEF Typed, TypeOK
<1> QED
  BY <1>1, <1>2, <1>3, GoesOnTyped

\* The rest of a batch.
LEMMA RestOfBatch ==
    ASSUME Typed, NEW w \in Workers, pc[w] = "deliver", Len(batch[w]) > 1
    PROVE  /\ Tail(batch[w]) \in Seq(1..Len(alerts)) /\ Tail(batch[w]) # <<>>
           /\ Len(Tail(batch[w])) = Len(batch[w]) - 1
           /\ \A n \in 1..Len(batch[w]) - 1 : Tail(batch[w])[n] = batch[w][n + 1]
<1>1. batch[w] \in Seq(1..Len(alerts)) /\ batch[w] # <<>> /\ Len(batch[w]) \in Nat
  BY InHand
<1>2. /\ Tail(batch[w]) \in Seq(1..Len(alerts)) /\ Len(Tail(batch[w])) = Len(batch[w]) - 1
      /\ \A n \in 1..Len(Tail(batch[w])) : Tail(batch[w])[n] = batch[w][n + 1]
  BY <1>1, HeadTailProperties
<1>3. Len(Tail(batch[w])) # 0
  <2>1. \A k \in Nat : k > 1 => k - 1 # 0
    OBVIOUS
  <2> QED
    BY <1>1, <1>2, <2>1, Zenon
<1>4. Tail(batch[w]) # <<>>
  BY <1>2, <1>3, EmptySeq
<1> QED
  BY <1>1, <1>2, <1>3, <1>4

LEMMA StoredTables ==
    ASSUME Typed, NEW w \in Workers, pc[w] = "detect", NEW found \in Findings[w], Store(w, found),
           UNCHANGED <<hooks, jobs, known>>, dlq' \subseteq 1..MaxJobs,
           errors' \in Nat, crashes' \in Nat
    PROVE  Tables
<1>1. /\ Len(found) \in Nat /\ Len(alerts) \in Nat
      /\ alerts' \in Seq(Alert) /\ Len(alerts') = Len(alerts) + Len(found)
      /\ posts' \in Seq([Hooks -> Seq(BOOLEAN)]) /\ Len(posts') = Len(alerts')
      /\ \A id \in 1..Len(alerts) : alerts'[id] = alerts[id]
      /\ \A id \in 1..Len(alerts') : id > Len(alerts) => alerts'[id].job = job[w]
  <2>1. Len(alerts) \in Nat
    BY DEF Typed, TypeOK
  <2> QED
    BY <2>1, StoredLast
<1>2. job[w] \in 1..jobs /\ \A id \in 1..Len(alerts) : alerts[id].job <= jobs
  BY DEF Typed
<1>3. ASSUME NEW id \in 1..Len(alerts') PROVE alerts'[id].job <= jobs
  <2>1. CASE id <= Len(alerts)
    BY <1>1, <1>2, <2>1
  <2>2. CASE id > Len(alerts)
    BY <1>1, <1>2, <2>2
  <2> QED
    BY <1>1, <2>1, <2>2
<1> QED
  BY <1>1, <1>3 DEF Tables

\* The alerts an attempt has just stored.
LEMMA NewBatch ==
    ASSUME Typed, NEW w \in Workers, pc[w] = "detect", NEW found \in Findings[w] \ {<<>>},
           Store(w, found)
    PROVE  LET b == [n \in DOMAIN found |-> Len(alerts) + n]
           IN  /\ b \in Seq(1..Len(alerts')) /\ b # <<>> /\ Len(b) = Len(found)
               /\ Len(found) \in Nat \ {0}
               /\ \A n \in 1..Len(found) : b[n] = Len(alerts) + n
<1> DEFINE b == [n \in DOMAIN found |-> Len(alerts) + n]
<1>1. /\ found \in Seq(Kind) /\ Len(found) \in Nat /\ DOMAIN found = 1..Len(found)
      /\ Len(alerts') = Len(alerts) + Len(found) /\ Len(alerts) \in Nat
  BY StoredLast DEF Typed, TypeOK
<1>2. Len(found) # 0
  BY <1>1, EmptySeq
<1>3. \A n \in 1..Len(found) : Len(alerts) + n \in 1..Len(alerts')
  BY <1>1
<1>4. b \in Seq(1..Len(alerts')) /\ Len(b) = Len(found)
  BY <1>1, <1>3
<1>5. Len(b) # 0 /\ Len(<<>>) = 0
  BY <1>2, <1>4
<1> QED
  BY <1>1, <1>2, <1>4, <1>5

LEMMA NextTyped == Typed /\ [Next]_vars => Typed'
<1> SUFFICES ASSUME Typed, [Next]_vars PROVE Typed'
  OBVIOUS
<1> USE AlertsAssumption
<1>1. ASSUME NEW h \in Hooks, Register(h) \/ Delete(h) PROVE Typed'
  BY <1>1 DEF Register, Delete, worker, Typed, TypeOK
<1>2. ASSUME NEW w \in Workers, Begin(w) PROVE Typed'
  <2>1. jobs + 1 \in 1..MaxJobs /\ jobs' = jobs + 1 /\ jobs \in Nat
    BY <1>2 DEF Begin, Typed, TypeOK
  <2>2. job' \in [Workers -> 0..MaxJobs] /\ known' \in [1..MaxJobs -> SUBSET Hooks]
        /\ attempt' \in [Workers -> 1..MaxRetries] /\ pc' \in [Workers -> PC]
    BY <1>2, <2>1 DEF Begin, Typed, TypeOK, GoTo, PC, Registered
  <2>3. \A v \in Workers : pc'[v] # "idle" => job'[v] \in 1..jobs'
    BY <1>2, <2>1 DEF Begin, Typed, TypeOK, GoTo
  <2>4. \A v \in Workers : pc'[v] \in {"query", "load", "deliver"} => batch'[v] # <<>>
    BY <1>2 DEF Begin, Typed, TypeOK, GoTo
  <2>5. \A id \in 1..Len(alerts) : alerts[id].job <= jobs'
    <3>1. ASSUME NEW id \in 1..Len(alerts) PROVE alerts[id].job <= jobs + 1
      <4>1. alerts[id] \in Alert /\ alerts[id].job <= jobs
        BY DEF Typed, TypeOK
      <4> QED
        BY <2>1, <4>1 DEF Alert
    <3> QED
      BY <2>1, <3>1
  <2> QED
    BY <1>2, <2>1, <2>2, <2>3, <2>4, <2>5 DEF Begin, Typed, TypeOK
<1>3. ASSUME NEW w \in Workers, FindNothing(w) PROVE Typed'
  <2>1. pc[w] # "idle" /\ Finish(w)
        /\ UNCHANGED <<alerts, hooks, posts, dlq, jobs, known, errors, crashes>>
    BY <1>3 DEF FindNothing
  <2> QED
    BY <2>1, TablesKept, FinishReleases, ReleasedTyped
<1>4. ASSUME NEW w \in Workers, Detect(w) PROVE Typed'
  <2>1. PICK found \in Findings[w] \ {<<>>} :
           Store(w, found) /\ Locals(w, [n \in DOMAIN found |-> Len(alerts) + n], {}, {})
    BY <1>4 DEF Detect
  <2>2. /\ pc[w] = "detect" /\ GoTo(w, "query")
        /\ UNCHANGED <<hooks, job, attempt, dlq, jobs, known, errors, crashes>>
    BY <1>4 DEF Detect
  <2>3. dlq' \subseteq 1..MaxJobs /\ errors' \in Nat /\ crashes' \in Nat
    BY <2>2 DEF Typed, TypeOK
  <2>4. Tables
    BY <2>1, <2>2, <2>3, StoredTables
  <2>5. PICK b \in Seq(1..Len(alerts')) : b # <<>> /\ b = [n \in DOMAIN found |-> Len(alerts) + n]
    BY <2>1, <2>2, NewBatch
  <2>6. PICK t \in SUBSET Hooks : t = {}
    OBVIOUS
  <2>7. Locals(w, b, t, t)
    BY <2>1, <2>5, <2>6
  <2> QED
    BY <2>2, <2>4, <2>5, <2>7, GoesOnTyped
<1>5. ASSUME NEW w \in Workers, Query(w) PROVE Typed'
  <2>1. Tables /\ pc[w] # "idle" /\ batch[w] \in Seq(1..Len(alerts')) /\ batch[w] # <<>>
        /\ Registered \in SUBSET Hooks
    BY <1>5 DEF Query, Tables, Typed, TypeOK, Registered
  <2>2. CASE Registered = {}
    BY <1>5, <2>1, <2>2, FinishReleases, ReleasedTyped DEF Query
  <2>3. CASE Registered # {}
    BY <1>5, <2>1, <2>3, GoesOnTyped DEF Query
  <2> QED
    BY <2>2, <2>3
<1>6. ASSUME NEW w \in Workers, Load(w) PROVE Typed'
  <2>1. Tables /\ pc[w] # "idle" /\ batch[w] \in Seq(1..Len(alerts')) /\ batch[w] # <<>>
        /\ targets[w] \in SUBSET Hooks
    BY <1>6 DEF Load, Tables, Typed, TypeOK
  <2>2. {h \in targets[w] : Passes(h, Head(batch[w]))} \in SUBSET Hooks
    BY <2>1
  <2> QED
    BY <1>6, <2>1, <2>2, GoesOnTyped DEF Load
<1>7. ASSUME NEW w \in Workers, NEW h \in Hooks, PostSucceeds(w, h) PROVE Typed'
  <2>1. left[w] \ {h} \in SUBSET Hooks
    BY DEF Typed, TypeOK
  <2> QED
    BY <1>7, <2>1, PostTyped DEF PostSucceeds, Turn
<1>8. ASSUME NEW w \in Workers, NEW h \in Hooks, PostFails(w, h) PROVE Typed'
  <2>1. (IF Tried(Head(batch[w]), h) + 1 < MaxPosts THEN left[w] ELSE left[w] \ {h}) \in SUBSET Hooks
    BY DEF Typed, TypeOK
  <2> QED
    BY <1>8, <2>1, PostTyped DEF PostFails, Turn
<1>9. ASSUME NEW w \in Workers, NextAlert(w) PROVE Typed'
  <2>1. Tables /\ pc[w] = "deliver" /\ pc[w] # "idle" /\ targets[w] \in SUBSET Hooks
        /\ {} \in SUBSET Hooks /\ alerts' = alerts
    BY <1>9 DEF NextAlert, Tables, Typed, TypeOK
  <2>2. CASE Len(batch[w]) > 1
    BY <1>9, <2>1, <2>2, RestOfBatch, GoesOnTyped DEF NextAlert
  <2>3. CASE ~(Len(batch[w]) > 1)
    BY <1>9, <2>1, <2>3, FinishReleases, ReleasedTyped DEF NextAlert
  <2> QED
    BY <2>2, <2>3
<1>10. ASSUME NEW w \in Workers, DetectRaises(w) \/ DispatchRaises(w) PROVE Typed'
  <2>1. pc[w] # "idle" /\ Mistake(w) /\ UNCHANGED <<alerts, hooks, posts, jobs, known, crashes>>
        /\ errors' = errors + 1
    BY <1>10 DEF DetectRaises, DispatchRaises, DatabaseRaises
  <2>2. Released(w) /\ dlq' \subseteq 1..MaxJobs
    BY <2>1, MistakeReleases
  <2>3. Tables
    BY <2>1, <2>2 DEF Tables, Typed, TypeOK
  <2> QED
    BY <2>1, <2>2, <2>3, ReleasedTyped
<1>11. ASSUME NEW w \in Workers, StoredAndRaises(w) PROVE Typed'
  <2>1. pc[w] = "detect" /\ Mistake(w) /\ UNCHANGED <<hooks, jobs, known, crashes>>
        /\ errors' = errors + 1
    BY <1>11 DEF StoredAndRaises, DatabaseRaises
  <2>2. Released(w) /\ dlq' \subseteq 1..MaxJobs /\ errors' \in Nat /\ crashes' \in Nat
    BY <2>1, MistakeReleases DEF Typed, TypeOK
  <2>3. PICK found \in Findings[w] : Store(w, found)
    BY <1>11 DEF StoredAndRaises
  <2>4. Tables
    BY <2>1, <2>2, <2>3, StoredTables
  <2> QED
    BY <2>1, <2>2, <2>4, ReleasedTyped
<1>12. ASSUME NEW w \in Workers, Crash(w) PROVE Typed'
  <2>1. Released(w)
    BY <1>12, FinishReleases DEF Crash
  <2>2. Tables
    <3>1. Len(alerts) \in Nat
      BY DEF Typed, TypeOK
    <3> QED
      BY <1>12, <3>1 DEF Crash, Tables, Typed, TypeOK
  <2> QED
    BY <1>12, <2>1, <2>2, ReleasedTyped DEF Crash
<1>13. CASE UNCHANGED vars
  BY <1>13 DEF vars, worker, Typed, TypeOK
<1> QED
  BY <1>1, <1>2, <1>3, <1>4, <1>5, <1>6, <1>7, <1>8, <1>9, <1>10, <1>11, <1>12, <1>13
  DEF Next, Step

\* Alerts, hooks, worker states, posts and the histories have their types throughout, and
\* a worker that announces alerts has one in hand.
THEOREM TypeCorrect == Spec => []TypeOK
<1>1. Typed => TypeOK
  BY DEF Typed
<1> QED
  BY <1>1, InitTyped, NextTyped, PTL DEF Spec
-----------------------------------------------------------------------------
\* Why a webhook gets an alert once: alerts in hand are in the hands of one worker, and one
\* that is not being delivered has not been posted anywhere; while it is, the webhooks left
\* have only failed, and not too often.
Unposted(id) == \A h \in Hooks : Tried(id, h) = 0

MayStillGet(h, id) ==
    /\ Passes(h, id)
    /\ Tried(id, h) < MaxPosts
    /\ \A n \in 1..Tried(id, h) : ~posts[id][h][n]

Own ==
    /\ \A v, w \in Workers : \A m \in 1..Len(batch[v]), n \in 1..Len(batch[w]) :
          batch[v][m] = batch[w][n] => v = w /\ m = n
    /\ \A w \in Workers : \A n \in 1..Len(batch[w]) :
          n # 1 \/ pc[w] # "deliver" => Unposted(batch[w][n])
    /\ \A w \in Workers : pc[w] = "deliver" =>
          \A h \in left[w] : MayStillGet(h, Current(w))
    /\ DeliveredOnce

LEMMA Ranges ==
    ASSUME Typed
    PROVE  /\ Len(alerts) \in Nat /\ DOMAIN alerts = 1..Len(alerts)
           /\ \A w \in Workers : Len(batch[w]) \in Nat
           /\ \A w \in Workers : \A n \in 1..Len(batch[w]) : batch[w][n] \in 1..Len(alerts)
           /\ \A id \in 1..Len(alerts), h \in Hooks :
                 Tried(id, h) \in Nat /\ posts[id][h] \in Seq(BOOLEAN)
<1>1. /\ alerts \in Seq(Alert) /\ batch \in [Workers -> Seq(1..Len(alerts))]
      /\ posts \in Seq([Hooks -> Seq(BOOLEAN)]) /\ Len(posts) = Len(alerts)
  BY DEF Typed, TypeOK
<1>2. \A id \in 1..Len(alerts) : posts[id] \in [Hooks -> Seq(BOOLEAN)]
  BY <1>1
<1>3. \A w \in Workers : batch[w] \in Seq(1..Len(alerts))
  BY <1>1
<1> QED
  BY <1>1, <1>2, <1>3 DEF Tried

\* A step that posts nothing: a worker has unposted alerts of its own afterwards.
LEMMA OwnedWithoutPost ==
    ASSUME Typed, Typed', Own, NEW w \in Workers,
           Len(alerts') >= Len(alerts),
           \A id \in 1..Len(alerts) : alerts'[id] = alerts[id] /\ posts'[id] = posts[id],
           \A id \in 1..Len(alerts') : id > Len(alerts) => \A h \in Hooks : posts'[id][h] = <<>>,
           \A v \in Workers \ {w} : pc'[v] = pc[v] /\ batch'[v] = batch[v] /\ left'[v] = left[v],
           \A m, n \in 1..Len(batch'[w]) : batch'[w][m] = batch'[w][n] => m = n,
           \A v \in Workers \ {w} : \A m \in 1..Len(batch[v]), n \in 1..Len(batch'[w]) :
              batch[v][m] # batch'[w][n],
           \A n \in 1..Len(batch'[w]) : Unposted(batch[w][n])',
           pc'[w] = "deliver" => \A h \in left'[w] : Passes(h, Current(w))'
    PROVE  Own'
<1>1. \A v, u \in Workers : \A m \in 1..Len(batch'[v]), n \in 1..Len(batch'[u]) :
         batch'[v][m] = batch'[u][n] => v = u /\ m = n
  <2> SUFFICES ASSUME NEW v \in Workers, NEW u \in Workers,
                      NEW m \in 1..Len(batch'[v]), NEW n \in 1..Len(batch'[u]),
                      batch'[v][m] = batch'[u][n]
               PROVE  v = u /\ m = n
    OBVIOUS
  <2>1. CASE v = w /\ u = w
    BY <2>1
  <2>2. CASE v = w /\ u # w
    BY <2>2
  <2>3. CASE v # w /\ u = w
    BY <2>3
  <2>4. CASE v # w /\ u # w
    BY <2>4 DEF Own
  <2> QED
    BY <2>1, <2>2, <2>3, <2>4
<1>2. \A v \in Workers : \A n \in 1..Len(batch'[v]) :
         n # 1 \/ pc'[v] # "deliver" => Unposted(batch[v][n])'
  <2> SUFFICES ASSUME NEW v \in Workers, NEW n \in 1..Len(batch'[v]), n # 1 \/ pc'[v] # "deliver"
               PROVE  Unposted(batch[v][n])'
    OBVIOUS
  <2>1. CASE v = w
    BY <2>1
  <2>2. CASE v # w
    <3>1. Unposted(batch[v][n]) /\ batch[v][n] \in 1..Len(alerts) /\ batch'[v][n] = batch[v][n]
      BY <2>2, Ranges DEF Own
    <3> QED
      BY <3>1 DEF Unposted, Tried
  <2> QED
    BY <2>1, <2>2
<1>3. \A v \in Workers : pc'[v] = "deliver" => \A h \in left'[v] : MayStillGet(h, Current(v))'
  <2> SUFFICES ASSUME NEW v \in Workers, pc'[v] = "deliver", NEW h \in left'[v]
               PROVE  MayStillGet(h, Current(v))'
    OBVIOUS
  <2>1. CASE v = w
    <3>1. 1 \in 1..Len(batch'[w]) /\ h \in Hooks
      <4>1. batch'[w] # <<>> /\ batch'[w] \in Seq(1..Len(alerts')) /\ left'[w] \subseteq Hooks
        BY <2>1 DEF Typed, TypeOK
      <4> QED
        BY <2>1, <4>1
    <3>2. Tried(Current(w), h)' = 0 /\ Passes(h, Current(w))'
      BY <2>1, <3>1 DEF Unposted, Current
    <3> QED
      BY <2>1, <3>2, AlertsAssumption DEF MayStillGet
  <2>2. CASE v # w
    <3>1. pc[v] = "deliver" /\ h \in left[v] /\ batch'[v] = batch[v]
      BY <2>2
    <3>2. MayStillGet(h, Current(v)) /\ Current(v) \in 1..Len(alerts)
      BY <3>1, InHand DEF Own
    <3>3. alerts'[Current(v)] = alerts[Current(v)] /\ posts'[Current(v)] = posts[Current(v)]
          /\ Current(v)' = Current(v)
      BY <3>1, <3>2 DEF Current
    <3> QED
      BY <3>2, <3>3 DEF MayStillGet, Passes, Tried
  <2> QED
    BY <2>1, <2>2
<1>4. DeliveredOnce'
  <2> SUFFICES ASSUME NEW id \in 1..Len(alerts'), NEW h \in Hooks
               PROVE  /\ Tried(id, h)' > 0 => Passes(h, id)'
                      /\ Tried(id, h)' <= MaxPosts
                      /\ \A n \in 1..Tried(id, h)' - 1 : ~posts'[id][h][n]
    <3>1. DOMAIN alerts' = 1..Len(alerts')
      BY DEF Typed, TypeOK
    <3> QED
      BY <3>1 DEF DeliveredOnce
  <2>1. CASE id <= Len(alerts)
    <3>1. id \in 1..Len(alerts) /\ id \in DOMAIN alerts
      BY <2>1, Ranges DEF Typed, TypeOK
    <3>2. alerts'[id] = alerts[id] /\ posts'[id] = posts[id]
      BY <3>1
    <3> QED
      BY <3>1, <3>2 DEF Own, DeliveredOnce, Tried, Passes
  <2>2. CASE id > Len(alerts)
    <3>1. Tried(id, h)' = 0
      BY <2>2 DEF Tried
    <3> QED
      BY <3>1, AlertsAssumption
  <2>3. id \in Int /\ Len(alerts) \in Nat
    BY Ranges
  <2> QED
    BY <2>1, <2>2, <2>3
<1> QED
  BY <1>1, <1>2, <1>3, <1>4 DEF Own

\* A post: the webhook stays if it failed and has attempts left.
LEMMA OwnedAfterPost ==
    ASSUME Typed, Typed', Own, NEW w \in Workers, pc[w] = "deliver", NEW h \in left[w],
           NEW ok \in BOOLEAN, Posted(w, h, ok), NEW l \in SUBSET left[w],
           h \in l => ~ok /\ Tried(Current(w), h) + 1 < MaxPosts,
           Locals(w, batch[w], targets[w], l), UNCHANGED <<alerts, pc>>
    PROVE  Own'
<1>0. PICK c \in 1..Len(alerts) : c = Current(w)
  BY InHand
<1>1. h \in Hooks /\ batch[w] # <<>> /\ 1 \in 1..Len(batch[w])
      /\ l \in SUBSET Hooks /\ MaxPosts \in Nat
  BY InHand, AlertsAssumption DEF Typed, TypeOK
<1>2. /\ posts'[c][h] = Append(posts[c][h], ok)
      /\ \A id \in 1..Len(alerts), g \in Hooks : id # c \/ g # h => posts'[id][g] = posts[id][g]
  <2>1. /\ posts'[Current(w)][h] = Append(posts[Current(w)][h], ok)
        /\ \A id \in 1..Len(alerts), g \in Hooks :
              id # Current(w) \/ g # h => posts'[id][g] = posts[id][g]
    BY <1>1, PostedOnce
  <2> QED
    BY <1>0, <2>1, Zenon
<1>3. /\ batch' = batch /\ left'[w] = l
      /\ \A v \in Workers \ {w} : left'[v] = left[v]
  BY <1>1 DEF Locals, Typed, TypeOK
<1>10. Current(w)' = c
  BY <1>0, <1>3 DEF Current
<1>4. /\ Tried(c, h)' = Tried(c, h) + 1 /\ Tried(c, h) \in Nat
      /\ \A n \in 1..Tried(c, h) : posts'[c][h][n] = posts[c][h][n]
      /\ posts'[c][h][Tried(c, h) + 1] = ok
  <2>1. posts[c][h] \in Seq(BOOLEAN) /\ Tried(c, h) = Len(posts[c][h]) /\ Tried(c, h)' = Len(posts'[c][h])
    BY <1>1, Ranges DEF Tried
  <2> QED
    BY <1>2, <2>1, AppendProperties
<1>5. MayStillGet(h, c)
  BY <1>0 DEF Own
<1>6. \A v, u \in Workers : \A m \in 1..Len(batch'[v]), n \in 1..Len(batch'[u]) :
         batch'[v][m] = batch'[u][n] => v = u /\ m = n
  BY <1>3 DEF Own
<1>7. ASSUME NEW v \in Workers, NEW n \in 1..Len(batch[v]), n # 1 \/ pc[v] # "deliver"
      PROVE  Unposted(batch[v][n])'
  <2>1. Unposted(batch[v][n]) /\ batch[v][n] \in 1..Len(alerts)
    BY <1>7, Ranges DEF Own
  <2>2. batch[v][n] # c
    BY <1>0, <1>1, <1>7 DEF Own, Current
  <2> QED
    BY <1>2, <1>3, <2>1, <2>2 DEF Unposted, Tried
<1>8. ASSUME NEW v \in Workers, pc[v] = "deliver", NEW g \in left'[v]
      PROVE  MayStillGet(g, Current(v))'
  <2>1. CASE v = w /\ g = h
    <3>1. g \in l /\ ~ok /\ Tried(c, h) + 1 < MaxPosts
      BY <1>0, <1>3, <1>8, <2>1
    <3>2. \A n \in 1..Tried(c, h) + 1 : ~posts'[c][h][n]
      <4> SUFFICES ASSUME NEW n \in 1..Tried(c, h) + 1 PROVE ~posts'[c][h][n]
        OBVIOUS
      <4>1. n \in 1..Tried(c, h) \/ n = Tried(c, h) + 1
        BY <1>4
      <4>2. CASE n \in 1..Tried(c, h)
        BY <1>4, <1>5, <4>2 DEF MayStillGet
      <4>3. CASE n = Tried(c, h) + 1
        BY <1>4, <3>1, <4>3
      <4> QED
        BY <4>1, <4>2, <4>3
    <3>3. Passes(h, c)' /\ Tried(c, h)' < MaxPosts
      BY <1>4, <1>5, <3>1 DEF MayStillGet, Passes
    <3>4. MayStillGet(h, c)'
      BY <1>4, <3>2, <3>3 DEF MayStillGet
    <3> QED
      BY <1>10, <2>1, <3>4
  <2>2. CASE ~(v = w /\ g = h)
    <3>1. g \in left[v]
      BY <1>3, <1>8
    <3>2. MayStillGet(g, Current(v)) /\ Current(v) \in 1..Len(alerts) /\ 1 \in 1..Len(batch[v])
          /\ g \in Hooks
      BY <1>8, <3>1, InHand DEF Own, Typed, TypeOK
    <3>3. v # w => Current(v) # c
      BY <1>0, <1>1, <3>2 DEF Own, Current
    <3>4. posts'[Current(v)][g] = posts[Current(v)][g] /\ Current(v)' = Current(v)
      BY <1>0, <1>2, <1>3, <2>2, <3>2, <3>3 DEF Current
    <3> QED
      BY <3>2, <3>4 DEF MayStillGet, Passes, Tried
  <2> QED
    BY <2>1, <2>2
<1>9. DeliveredOnce'
  <2> SUFFICES ASSUME NEW id \in 1..Len(alerts), NEW g \in Hooks
               PROVE  /\ Tried(id, g)' > 0 => Passes(g, id)'
                      /\ Tried(id, g)' <= MaxPosts
                      /\ \A n \in 1..Tried(id, g)' - 1 : ~posts'[id][g][n]
    BY Ranges DEF DeliveredOnce, Typed, TypeOK
  <2>1. CASE id = c /\ g = h
    <3>1. Passes(h, c)' /\ Tried(c, h)' <= MaxPosts
      BY <1>1, <1>4, <1>5 DEF MayStillGet, Passes
    <3>2. Tried(c, h)' - 1 = Tried(c, h)
      BY <1>4
    <3>3. \A n \in 1..Tried(c, h) : ~posts'[c][h][n]
      BY <1>4, <1>5 DEF MayStillGet
    <3> QED
      BY <2>1, <3>1, <3>2, <3>3
  <2>2. CASE ~(id = c /\ g = h)
    <3>1. posts'[id][g] = posts[id][g] /\ id \in DOMAIN alerts
      BY <1>2, <2>2, Ranges
    <3> QED
      BY <3>1 DEF Own, DeliveredOnce, Tried, Passes
  <2> QED
    BY <2>1, <2>2
<1> QED
  BY <1>3, <1>6, <1>7, <1>8, <1>9 DEF Own

\* Nothing is posted, and what is stored comes last.
Grown ==
    /\ Len(alerts') >= Len(alerts)
    /\ \A id \in 1..Len(alerts) : alerts'[id] = alerts[id] /\ posts'[id] = posts[id]
    /\ \A id \in 1..Len(alerts') : id > Len(alerts) => \A h \in Hooks : posts'[id][h] = <<>>

LEMMA GrownOrSame ==
    ASSUME Typed
    PROVE  /\ UNCHANGED <<alerts, posts>> => Grown
           /\ \A w \in Workers : pc[w] = "detect" =>
                 \A found \in Findings[w] : Store(w, found) => Grown
<1>1. Len(alerts) \in Nat
  BY Ranges
<1>2. UNCHANGED <<alerts, posts>> => Grown
  BY <1>1 DEF Grown
<1>3. ASSUME NEW w \in Workers, pc[w] = "detect", NEW found \in Findings[w], Store(w, found)
      PROVE  Grown
  <2>1. /\ Len(found) \in Nat /\ Len(alerts') = Len(alerts) + Len(found)
        /\ \A id \in 1..Len(alerts) : alerts'[id] = alerts[id] /\ posts'[id] = posts[id]
        /\ \A id \in 1..Len(alerts') : id > Len(alerts) => \A h \in Hooks : posts'[id][h] = <<>>
    BY <1>3, StoredLast
  <2> QED
    BY <1>1, <2>1 DEF Grown
<1> QED
  BY <1>2, <1>3

LEMMA ReleasedOwned ==
    ASSUME Typed, Typed', Own, NEW w \in Workers, Released(w), Grown PROVE Own'
<1>1. /\ batch'[w] = <<>> /\ Len(batch'[w]) = 0 /\ pc'[w] # "deliver"
      /\ \A v \in Workers \ {w} : pc'[v] = pc[v] /\ batch'[v] = batch[v] /\ left'[v] = left[v]
  <2>1. alerts' \in Seq(Alert)
    BY DEF Typed, TypeOK
  <2> QED
    BY <2>1, Forgotten DEF Released, Grown
<1> QED
  BY <1>1, OwnedWithoutPost DEF Grown

LEMMA InitOwn == Init => Own
<1> SUFFICES ASSUME Init PROVE Own
  OBVIOUS
<1>1. \A w \in Workers : batch[w] = <<>> /\ Len(batch[w]) = 0 /\ pc[w] = "idle"
  BY DEF Init
<1>2. DOMAIN alerts = {}
  BY DEF Init
<1> QED
  BY <1>1, <1>2 DEF Own, DeliveredOnce

\* A worker goes on with some of its unposted alerts.
LEMMA GoesOnOwned ==
    ASSUME Typed, Typed', Own, NEW w \in Workers, UNCHANGED <<alerts, posts>>,
           \A v \in Workers \ {w} : pc'[v] = pc[v] /\ batch'[v] = batch[v] /\ left'[v] = left[v],
           NEW k \in Nat, Len(batch'[w]) <= Len(batch[w]) - k,
           \A n \in 1..Len(batch'[w]) : batch'[w][n] = batch[w][n + k],
           k > 0 \/ pc[w] # "deliver",
           pc'[w] = "deliver" => \A h \in left'[w] : Passes(h, batch'[w][1])
    PROVE  Own'
<1>1. Grown
  BY GrownOrSame
<1>2. /\ Len(batch[w]) \in Nat /\ Len(batch'[w]) \in Nat
      /\ \A n \in 1..Len(batch'[w]) : batch[w][n + k] \in 1..Len(alerts) /\ n + k \in 1..Len(batch[w])
  <2>1. Len(batch[w]) \in Nat /\ Len(batch'[w]) \in Nat
    <3>1. batch'[w] \in Seq(1..Len(alerts')) /\ batch[w] \in Seq(1..Len(alerts))
      BY DEF Typed, TypeOK
    <3> QED
      BY <3>1
  <2>2. \A n \in 1..Len(batch'[w]) : n + k \in 1..Len(batch[w])
    BY <2>1
  <2> QED
    BY <2>1, <2>2, Ranges
<1>3. \A m, n \in 1..Len(batch'[w]) : batch'[w][m] = batch'[w][n] => m = n
  <2>1. ASSUME NEW m \in 1..Len(batch'[w]), NEW n \in 1..Len(batch'[w]), batch'[w][m] = batch'[w][n]
        PROVE  m = n
    <3>1. PICK i, j \in 1..Len(batch[w]) : i = m + k /\ j = n + k
      BY <1>2
    <3>2. batch[w][i] = batch[w][j]
      BY <2>1, <3>1
    <3>3. i = j
      BY <3>2 DEF Own
    <3> QED
      BY <1>2, <3>1, <3>3
  <2> QED
    BY <2>1
<1>4. \A v \in Workers \ {w} : \A m \in 1..Len(batch[v]), n \in 1..Len(batch'[w]) :
         batch[v][m] # batch'[w][n]
  BY <1>2 DEF Own
<1>5. ASSUME NEW n \in 1..Len(batch'[w]) PROVE Unposted(batch[w][n])'
  <2>1. n + k # 1 \/ pc[w] # "deliver"
    BY <1>2
  <2>2. Unposted(batch[w][n + k])
    BY <1>2, <2>1 DEF Own
  <2>3. batch'[w][n] = batch[w][n + k] /\ posts' = posts
    OBVIOUS
  <2> QED
    BY <2>2, <2>3 DEF Unposted, Tried
<1>6. pc'[w] = "deliver" => \A h \in left'[w] : Passes(h, Current(w))'
  BY DEF Passes, Current
<1> QED
  BY <1>1, <1>3, <1>4, <1>5, <1>6, OwnedWithoutPost DEF Grown

LEMMA NextOwned == Typed /\ Typed' /\ Own /\ [Next]_vars => Own'
<1> SUFFICES ASSUME Typed, Typed', Own, [Next]_vars PROVE Own'
  OBVIOUS
<1>1. ASSUME UNCHANGED <<alerts, batch, left, posts>>,
             \A w \in Workers : pc'[w] = pc[w] \/ (pc'[w] # "deliver" /\ pc[w] # "deliver")
      PROVE  Own'
  BY <1>1 DEF Own, Unposted, Tried, MayStillGet, Passes, Current, DeliveredOnce
<1>2. ASSUME NEW h \in Hooks, Register(h) \/ Delete(h) PROVE Own'
  BY <1>1, <1>2 DEF Register, Delete, worker
<1>3. ASSUME NEW w \in Workers, Begin(w) PROVE Own'
  <2>1. \A v \in Workers : pc'[v] = pc[v] \/ (pc'[v] # "deliver" /\ pc[v] # "deliver")
    BY <1>3 DEF Begin, GoTo, Typed, TypeOK
  <2> QED
    BY <1>1, <1>3, <2>1 DEF Begin
<1>4. ASSUME NEW w \in Workers, FindNothing(w) \/ Crash(w) PROVE Own'
  <2>1. Finish(w) /\ UNCHANGED <<alerts, posts>>
    BY <1>4 DEF FindNothing, Crash
  <2> QED
    BY <2>1, FinishReleases, GrownOrSame, ReleasedOwned
<1>5. ASSUME NEW w \in Workers, Detect(w) PROVE Own'
  <2>1. PICK found \in Findings[w] \ {<<>>} :
           Store(w, found) /\ Locals(w, [n \in DOMAIN found |-> Len(alerts) + n], {}, {})
    BY <1>5 DEF Detect
  <2>2. pc[w] = "detect" /\ GoTo(w, "query") /\ Grown
    BY <1>5, <2>1, GrownOrSame DEF Detect
  <2>3. PICK b \in Seq(1..Len(alerts')) :
           /\ b = [n \in DOMAIN found |-> Len(alerts) + n]
           /\ Len(b) = Len(found) /\ Len(found) \in Nat
           /\ \A n \in 1..Len(found) : b[n] = Len(alerts) + n
    BY <2>1, <2>2, NewBatch
  <2>4. PICK t \in SUBSET Hooks : t = {}
    OBVIOUS
  <2>5. alerts' \in Seq(Alert) /\ Len(alerts') >= Len(alerts) /\ Len(alerts) \in Nat
        /\ Len(alerts') \in Nat
    BY <2>2, Ranges DEF Typed, TypeOK, Grown
  <2>6. Locals(w, b, t, t)
    BY <2>1, <2>3, <2>4
  <2>7. batch'[w] = b /\ \A v \in Workers \ {w} : batch'[v] = batch[v] /\ left'[v] = left[v]
    BY <2>5, <2>6, LocalsOf
  <2>8. pc'[w] = "query" /\ \A v \in Workers \ {w} : pc'[v] = pc[v]
    BY <2>2 DEF GoTo, Typed, TypeOK
  <2>9. \A m, n \in 1..Len(batch'[w]) : batch'[w][m] = batch'[w][n] => m = n
    BY <2>3, <2>5, <2>7
  <2>10. \A n \in 1..Len(batch'[w]) :
            batch'[w][n] > Len(alerts) /\ batch'[w][n] \in 1..Len(alerts')
    <3>1. \A n \in 1..Len(b) : b[n] \in 1..Len(alerts')
      OBVIOUS
    <3>2. \A n \in 1..Len(found) : Len(alerts) + n > Len(alerts)
      BY <2>3, <2>5
    <3>3. \A n \in 1..Len(b) : b[n] > Len(alerts)
      BY <2>3, <3>2, Zenon
    <3> QED
      BY <2>7, <3>1, <3>3, Zenon
  <2>11. \A v \in Workers \ {w} : \A m \in 1..Len(batch[v]), n \in 1..Len(batch'[w]) :
            batch[v][m] # batch'[w][n]
    <3>1. \A v \in Workers : \A m \in 1..Len(batch[v]) : ~(batch[v][m] > Len(alerts))
      BY <2>5, Ranges
    <3> QED
      BY <2>10, <3>1, Zenon
  <2>12. \A n \in 1..Len(batch'[w]) : Unposted(batch[w][n])'
    <3>1. \A n \in 1..Len(batch'[w]) : \A h \in Hooks : posts'[batch'[w][n]][h] = <<>>
      BY <2>2, <2>10 DEF Grown
    <3> QED
      BY <3>1 DEF Unposted, Tried
  <2> QED
    BY <2>2, <2>7, <2>8, <2>9, <2>11, <2>12, OwnedWithoutPost DEF Grown
<1>6. ASSUME NEW w \in Workers, UNCHANGED <<alerts, posts>>, pc[w] # "deliver",
             NEW where \in PC, GoTo(w, where), NEW l \in SUBSET Hooks, NEW t \in SUBSET Hooks,
             Locals(w, batch[w], t, l), where = "deliver" => \A h \in l : Passes(h, batch[w][1])
      PROVE  Own'
  <2>1. /\ batch' = batch /\ left'[w] = l /\ pc'[w] = where
        /\ \A v \in Workers \ {w} : pc'[v] = pc[v] /\ left'[v] = left[v]
    BY <1>6 DEF Locals, GoTo, Typed, TypeOK
  <2>2. Len(batch'[w]) <= Len(batch[w]) - 0
        /\ \A n \in 1..Len(batch'[w]) : batch'[w][n] = batch[w][n + 0]
    BY <2>1, Ranges
  <2>3. PICK k \in Nat : k = 0
    OBVIOUS
  <2> QED
    BY <1>6, <2>1, <2>2, <2>3, GoesOnOwned
<1>7. ASSUME NEW w \in Workers, Query(w) PROVE Own'
  <2>1. CASE Registered = {}
    BY <1>7, <2>1, FinishReleases, GrownOrSame, ReleasedOwned DEF Query
  <2>2. CASE Registered # {}
    <3>1. PICK l \in SUBSET Hooks : l = {}
      OBVIOUS
    <3>2. Registered \in SUBSET Hooks /\ "load" \in PC
      BY DEF Registered, PC
    <3> QED
      BY <1>6, <1>7, <2>2, <3>1, <3>2 DEF Query
  <2> QED
    BY <2>1, <2>2
<1>8. ASSUME NEW w \in Workers, Load(w) PROVE Own'
  <2>1. PICK l \in SUBSET Hooks : l = {h \in targets[w] : Passes(h, Head(batch[w]))}
    BY DEF Typed, TypeOK
  <2>2. \A h \in l : Passes(h, batch[w][1])
    BY <1>8, <2>1, InHand DEF Load, Current
  <2>3. targets[w] \in SUBSET Hooks /\ "deliver" \in PC
    BY DEF Typed, TypeOK, PC
  <2> QED
    BY <1>6, <1>8, <2>1, <2>2, <2>3 DEF Load
<1>9. ASSUME NEW w \in Workers, NEW h \in Hooks, PostSucceeds(w, h) PROVE Own'
  <2>1. left[w] \ {h} \in SUBSET left[w] /\ h \notin left[w] \ {h}
    OBVIOUS
  <2> QED
    BY <1>9, <2>1, OwnedAfterPost DEF PostSucceeds, Turn
<1>10. ASSUME NEW w \in Workers, NEW h \in Hooks, PostFails(w, h) PROVE Own'
  <2>1. PICK l \in SUBSET left[w] :
           l = IF Tried(Head(batch[w]), h) + 1 < MaxPosts THEN left[w] ELSE left[w] \ {h}
    OBVIOUS
  <2>2. h \in l => Tried(Current(w), h) + 1 < MaxPosts
    BY <1>10, <2>1, InHand DEF PostFails, Turn
  <2> QED
    BY <1>10, <2>1, <2>2, OwnedAfterPost DEF PostFails, Turn
<1>11. ASSUME NEW w \in Workers, NextAlert(w) PROVE Own'
  <2>1. CASE Len(batch[w]) > 1
    <3>1. /\ GoTo(w, "load") /\ Locals(w, Tail(batch[w]), targets[w], {})
          /\ UNCHANGED <<alerts, posts>> /\ pc[w] = "deliver"
      BY <1>11, <2>1 DEF NextAlert
    <3>2. /\ batch'[w] = Tail(batch[w]) /\ pc'[w] = "load"
          /\ \A v \in Workers \ {w} : pc'[v] = pc[v] /\ batch'[v] = batch[v] /\ left'[v] = left[v]
      BY <3>1 DEF Locals, GoTo, Typed, TypeOK
    <3>3. Len(Tail(batch[w])) = Len(batch[w]) - 1
          /\ \A n \in 1..Len(batch[w]) - 1 : Tail(batch[w])[n] = batch[w][n + 1]
      BY <2>1, <3>1, RestOfBatch
    <3>4. PICK k \in Nat : k = 1
      OBVIOUS
    <3>5. Len(batch'[w]) <= Len(batch[w]) - k
          /\ \A n \in 1..Len(batch'[w]) : batch'[w][n] = batch[w][n + k]
      BY <3>2, <3>3, <3>4, Ranges
    <3>6. (k > 0 \/ pc[w] # "deliver")
          /\ (pc'[w] = "deliver" => \A h \in left'[w] : Passes(h, batch'[w][1]))
      BY <3>2, <3>4
    <3> QED
      BY <3>1, <3>2, <3>5, <3>6, GoesOnOwned
  <2>2. CASE ~(Len(batch[w]) > 1)
    BY <1>11, <2>2, FinishReleases, GrownOrSame, ReleasedOwned DEF NextAlert
  <2> QED
    BY <2>1, <2>2
<1>12. ASSUME NEW w \in Workers, DetectRaises(w) \/ DispatchRaises(w) PROVE Own'
  <2>1. pc[w] # "idle" /\ Mistake(w) /\ UNCHANGED <<alerts, posts>>
    BY <1>12 DEF DetectRaises, DispatchRaises
  <2> QED
    BY <2>1, MistakeReleases, GrownOrSame, ReleasedOwned
<1>13. ASSUME NEW w \in Workers, StoredAndRaises(w) PROVE Own'
  <2>1. pc[w] = "detect" /\ pc[w] # "idle" /\ Mistake(w)
    BY <1>13 DEF StoredAndRaises
  <2>2. Grown
    BY <1>13, <2>1, GrownOrSame DEF StoredAndRaises
  <2> QED
    BY <2>1, <2>2, MistakeReleases, ReleasedOwned
<1>14. CASE UNCHANGED vars
  BY <1>1, <1>14 DEF vars, worker
<1> QED
  BY <1>2, <1>3, <1>4, <1>5, <1>7, <1>8, <1>9, <1>10, <1>11, <1>12, <1>13, <1>14 DEF Next, Step

\* However workers, registrations, failing posts, database errors and crashes interleave: a
\* webhook is sent an alert only if the alert passes its filters, at most MaxPosts times, and
\* never again after it answered with a success.
THEOREM PostedOnceOnly == Spec => []DeliveredOnce
<1>1. Own => DeliveredOnce
  BY DEF Own
<1> QED
  BY <1>1, InitTyped, NextTyped, InitOwn, NextOwned, PTL DEF Spec
-----------------------------------------------------------------------------
\* Why nobody is forgotten: a worker keeps the alerts it has not announced in hand, knows
\* every webhook it owes them to, and leaves an alert only when it owes it to nobody.
Due ==
    /\ \A j \in 1..MaxJobs : \A h \in known[j] : hooks[h] # "absent"
    /\ \A w \in Workers : pc[w] \in {"idle", "detect"} => batch[w] = <<>>
    /\ \A w \in Workers : \A n \in 1..Len(batch[w]) : alerts[batch[w][n]].job = job[w]
    /\ \A w \in Workers : pc[w] \in {"load", "deliver"} =>
          known[job[w]] \cap Registered \subseteq targets[w]
    /\ \A w \in Workers : pc[w] = "deliver" =>
          \A h \in targets[w] : Passes(h, Current(w)) => h \in left[w] \/ Delivered(Current(w), h)
    /\ AlertsAreAnnounced

\* The worker has the alert in hand, or owes it to nobody.
InHandOf(w, id) == pc[w] # "idle" /\ \E n \in 1..Len(batch[w]) : batch[w][n] = id

OwedToNobody(w, id) ==
    \A h \in known[job[w]] : hooks[h] = "registered" /\ Passes(h, id) => Delivered(id, h)

LEMMA PendingIs ==
    ASSUME Typed
    PROVE  \A id \in 1..Len(alerts) : Pending(id) <=> \E w \in Workers : InHandOf(w, id)
<1>1. \A w \in Workers : DOMAIN batch[w] = 1..Len(batch[w])
  <2>1. \A w \in Workers : batch[w] \in Seq(1..Len(alerts))
    BY DEF Typed, TypeOK
  <2> QED
    BY <2>1
<1> QED
  BY <1>1 DEF Pending, InHandOf

LEMMA DueAfterWork ==
    ASSUME Typed, Typed', Due, NEW w \in Workers, UNCHANGED <<hooks, jobs, known>>,
           pc[w] # "idle",
           Len(alerts') >= Len(alerts), \A id \in 1..Len(alerts) : alerts'[id] = alerts[id],
           \A id \in 1..Len(alerts), h \in Hooks : Delivered(id, h) => Delivered(id, h)',
           \A v \in Workers \ {w} :
              /\ pc'[v] = pc[v] /\ batch'[v] = batch[v] /\ job'[v] = job[v]
              /\ targets'[v] = targets[v] /\ left'[v] = left[v],
           pc'[w] \in {"idle", "detect"} => batch'[w] = <<>>,
           \A n \in 1..Len(batch'[w]) : alerts'[batch'[w][n]].job = job'[w],
           pc'[w] \in {"load", "deliver"} => known[job'[w]] \cap Registered \subseteq targets'[w],
           pc'[w] = "deliver" => \A h \in targets'[w] :
              Passes(h, Current(w))' => h \in left'[w] \/ Delivered(Current(w), h)',
           errors' = 0 /\ crashes' = 0 =>
              /\ errors = 0 /\ crashes = 0
              /\ \A id \in 1..Len(alerts') : id > Len(alerts) => InHandOf(w, id)'
              /\ \A n \in 1..Len(batch[w]) :
                    \E id \in 1..Len(alerts) : id = batch[w][n] /\
                       (InHandOf(w, id)' \/ \A h \in known[job[w]] :
                          hooks[h] = "registered" /\ Passes(h, id) => Delivered(id, h)')
    PROVE  Due'
<1>1. /\ Len(alerts) \in Nat /\ Len(alerts') \in Nat /\ DOMAIN alerts' = 1..Len(alerts')
      /\ DOMAIN alerts = 1..Len(alerts)
      /\ \A id \in 1..Len(alerts') : id <= Len(alerts) => id \in 1..Len(alerts)
  BY Ranges DEF Typed, TypeOK
<1>2. \A j \in 1..MaxJobs : \A h \in known'[j] : hooks'[h] # "absent"
  BY DEF Due
<1>3. \A v \in Workers : pc'[v] \in {"idle", "detect"} => batch'[v] = <<>>
  BY DEF Due
<1>4. ASSUME NEW v \in Workers, NEW n \in 1..Len(batch'[v]) PROVE alerts'[batch'[v][n]].job = job'[v]
  <2>1. CASE v = w
    BY <2>1
  <2>2. CASE v # w
    <3>1. n \in 1..Len(batch[v]) /\ batch'[v] = batch[v] /\ job'[v] = job[v]
      BY <2>2
    <3>2. batch[v][n] \in 1..Len(alerts) /\ alerts[batch[v][n]].job = job[v]
      BY <3>1, Ranges DEF Due
    <3> QED
      BY <3>1, <3>2
  <2> QED
    BY <2>1, <2>2
<1>5. \A v \in Workers : pc'[v] \in {"load", "deliver"} =>
         known[job'[v]] \cap Registered' \subseteq targets'[v]
  BY DEF Due, Registered
<1>6. ASSUME NEW v \in Workers, pc'[v] = "deliver", NEW h \in targets'[v], Passes(h, Current(v))'
      PROVE  h \in left'[v] \/ Delivered(Current(v), h)'
  <2>1. CASE v = w
    BY <1>6, <2>1
  <2>2. CASE v # w
    <3>1. PICK c \in 1..Len(alerts) : c = Current(v)
      BY <1>6, <2>2, InHand
    <3>2. Current(v)' = c /\ pc[v] = "deliver" /\ h \in targets[v] /\ h \in Hooks
      BY <1>6, <2>2, <3>1 DEF Current, Typed, TypeOK
    <3>3. Passes(h, c)
      BY <1>6, <3>1, <3>2 DEF Passes
    <3>4. h \in left[v] \/ Delivered(c, h)
      BY <3>1, <3>2, <3>3 DEF Due
    <3>5. h \in left'[v] \/ Delivered(c, h)'
      BY <2>2, <3>2, <3>4
    <3> QED
      BY <3>2, <3>5
  <2> QED
    BY <2>1, <2>2
<1>7. AlertsAreAnnounced'
  <2> SUFFICES ASSUME errors' = 0 /\ crashes' = 0, NEW id \in 1..Len(alerts'), ~Pending(id)',
                      NEW h \in known'[alerts'[id].job],
                      hooks'[h] = "registered", Passes(h, id)'
               PROVE  Delivered(id, h)'
    BY <1>1 DEF AlertsAreAnnounced
  <2>1. \A v \in Workers : ~InHandOf(v, id)'
    <3>1. \A v \in Workers : batch'[v] \in Seq(1..Len(alerts'))
      BY DEF Typed, TypeOK
    <3>2. \A v \in Workers : DOMAIN batch'[v] = 1..Len(batch'[v])
      BY <3>1
    <3> QED
      BY <3>2 DEF Pending, InHandOf
  <2>2. id \in 1..Len(alerts)
    BY <1>1, <2>1
  <2>3. alerts[id].job \in 1..MaxJobs /\ alerts'[id] = alerts[id] /\ Passes(h, id)
        /\ h \in known[alerts[id].job] /\ hooks[h] = "registered"
    <3>1. alerts \in Seq(Alert) /\ alerts'[id] = alerts[id]
      BY <2>2 DEF Typed, TypeOK
    <3>2. alerts[id] \in Alert
      BY <2>2, <3>1
    <3>3. alerts[id].job \in 1..MaxJobs
      BY <3>2 DEF Alert
    <3> QED
      BY <3>1, <3>3 DEF Passes
  <2>4. h \in Hooks
    BY <2>3 DEF Typed, TypeOK
  <2>5. CASE \E n \in 1..Len(batch[w]) : batch[w][n] = id
    <3>1. PICK n \in 1..Len(batch[w]) : batch[w][n] = id
      BY <2>5
    <3>2. alerts[id].job = job[w]
      BY <3>1 DEF Due
    <3>3. InHandOf(w, id)' \/ \A g \in known[job[w]] :
             hooks[g] = "registered" /\ Passes(g, id) => Delivered(id, g)'
      BY <3>1
    <3> QED
      BY <2>1, <2>3, <3>2, <3>3
  <2>6. CASE ~\E n \in 1..Len(batch[w]) : batch[w][n] = id
    <3>1. \A v \in Workers : ~InHandOf(v, id)
      BY <2>1, <2>6 DEF InHandOf
    <3>2. ~Pending(id)
      BY <2>2, <3>1, PendingIs
    <3>3. Delivered(id, h)
      BY <1>1, <2>2, <2>3, <3>2 DEF Due, AlertsAreAnnounced
    <3> QED
      BY <2>2, <2>4, <3>3
  <2> QED
    BY <2>5, <2>6
<1> QED
  BY <1>2, <1>3, <1>4, <1>5, <1>6, <1>7 DEF Due

LEMMA DueWhenReleased ==
    ASSUME Typed, Typed', Due, NEW w \in Workers, pc[w] # "idle", Released(w), Grown,
           UNCHANGED <<hooks, jobs, known>>,
           errors' = 0 /\ crashes' = 0 =>
              /\ errors = 0 /\ crashes = 0 /\ alerts' = alerts
              /\ \A n \in 1..Len(batch[w]) : OwedToNobody(w, batch[w][n])
    PROVE  Due'
<1>1. alerts' \in Seq(Alert) /\ Len(alerts) \in Nat
  BY Ranges DEF Typed, TypeOK
<1>2. /\ batch'[w] = <<>> /\ Len(batch'[w]) = 0 /\ targets'[w] = {} /\ left'[w] = {}
      /\ \A v \in Workers \ {w} :
            /\ pc'[v] = pc[v] /\ batch'[v] = batch[v] /\ job'[v] = job[v]
            /\ targets'[v] = targets[v] /\ left'[v] = left[v]
  BY <1>1, Forgotten DEF Released, Grown
<1>3. pc'[w] \in {"idle", "detect"}
  BY DEF Released
<1>4. \A id \in 1..Len(alerts), h \in Hooks : Delivered(id, h) => Delivered(id, h)'
  BY DEF Grown, Delivered, Tried
<1>5. ASSUME errors' = 0, crashes' = 0
      PROVE  /\ errors = 0 /\ crashes = 0
             /\ \A id \in 1..Len(alerts') : id > Len(alerts) => InHandOf(w, id)'
             /\ \A n \in 1..Len(batch[w]) :
                   \E id \in 1..Len(alerts) : id = batch[w][n] /\
                      (InHandOf(w, id)' \/ \A h \in known[job[w]] :
                         hooks[h] = "registered" /\ Passes(h, id) => Delivered(id, h)')
  <2>1. \A id \in 1..Len(alerts') : ~(id > Len(alerts))
    BY <1>1, <1>5
  <2>2. ASSUME NEW n \in 1..Len(batch[w])
        PROVE  \E id \in 1..Len(alerts) : id = batch[w][n] /\
                  \A h \in known[job[w]] : hooks[h] = "registered" /\ Passes(h, id) => Delivered(id, h)'
    <3>1. PICK id \in 1..Len(alerts) : id = batch[w][n]
      BY Ranges
    <3>2. OwedToNobody(w, id)
      BY <1>5, <3>1
    <3>3. known[job[w]] \subseteq Hooks
      <4>1. job[w] \in 1..MaxJobs
        BY AlertsAssumption DEF Typed, TypeOK
      <4> QED
        BY <4>1 DEF Typed, TypeOK
    <3>4. \A h \in known[job[w]] : hooks[h] = "registered" /\ Passes(h, id) => Delivered(id, h)'
      BY <1>4, <3>2, <3>3 DEF OwedToNobody
    <3> QED
      BY <3>1, <3>4
  <2> QED
    BY <1>5, <2>1, <2>2
<1> QED
  BY <1>2, <1>3, <1>4, <1>5, DueAfterWork DEF Grown

\* The tables are what they were, and the worker goes on.
LEMMA DueWhenGoingOn ==
    ASSUME Typed, Typed', Due, NEW w \in Workers, pc[w] # "idle",
           NEW where \in {"load", "deliver"}, GoTo(w, where),
           UNCHANGED <<alerts, hooks, jobs, known, job, errors, crashes>>,
           \A id \in 1..Len(alerts), h \in Hooks : Delivered(id, h) => Delivered(id, h)',
           NEW b \in Seq(1..Len(alerts)), NEW t \in SUBSET Hooks, NEW l \in SUBSET Hooks,
           Locals(w, b, t, l),
           \A n \in 1..Len(b) : \E m \in 1..Len(batch[w]) : b[n] = batch[w][m],
           known[job[w]] \cap Registered \subseteq t,
           where = "deliver" => \A h \in t : Passes(h, b[1]) => h \in l \/ Delivered(b[1], h)',
           \A n \in 1..Len(batch[w]) :
              (\E m \in 1..Len(b) : b[m] = batch[w][n]) \/ OwedToNobody(w, batch[w][n])
    PROVE  Due'
<1>1. alerts' \in Seq(Alert) /\ Len(alerts') >= Len(alerts) /\ Len(alerts) \in Nat
  BY Ranges DEF Typed, TypeOK
<1>2. /\ batch'[w] = b /\ targets'[w] = t /\ left'[w] = l
      /\ \A v \in Workers \ {w} : batch'[v] = batch[v] /\ targets'[v] = targets[v] /\ left'[v] = left[v]
  <2>1. /\ batch \in [Workers -> Seq(1..Len(alerts))]
        /\ targets \in [Workers -> SUBSET Hooks] /\ left \in [Workers -> SUBSET Hooks]
    BY DEF Typed, TypeOK
  <2> QED
    BY <2>1 DEF Locals
<1>3. pc'[w] = where /\ \A v \in Workers \ {w} : pc'[v] = pc[v]
  BY DEF GoTo, Typed, TypeOK
<1>4. \A n \in 1..Len(batch'[w]) : alerts'[batch'[w][n]].job = job'[w]
  <2>1. \A m \in 1..Len(batch[w]) : alerts[batch[w][m]].job = job[w]
    BY DEF Due
  <2>2. \A n \in 1..Len(b) : alerts[b[n]].job = job[w]
    BY <2>1
  <2> QED
    BY <1>2, <2>2
<1>5. pc'[w] = "deliver" => \A h \in targets'[w] :
         Passes(h, Current(w))' => h \in left'[w] \/ Delivered(Current(w), h)'
  <2>1. Current(w)' = b[1]
    BY <1>2 DEF Current
  <2>2. ASSUME NEW h \in t, Passes(h, Current(w))', where = "deliver"
        PROVE  h \in l \/ Delivered(Current(w), h)'
    <3>1. Passes(h, b[1])
      BY <2>1, <2>2 DEF Passes
    <3>2. h \in l \/ Delivered(b[1], h)'
      BY <2>2, <3>1
    <3> QED
      BY <2>1, <3>2
  <2> QED
    BY <1>2, <1>3, <2>2
<1>6. ASSUME NEW n \in 1..Len(batch[w])
      PROVE  \E id \in 1..Len(alerts) : id = batch[w][n] /\
                (InHandOf(w, id)' \/ \A h \in known[job[w]] :
                   hooks[h] = "registered" /\ Passes(h, id) => Delivered(id, h)')
  <2>1. PICK id \in 1..Len(alerts) : id = batch[w][n]
    BY Ranges
  <2>2. CASE \E m \in 1..Len(b) : b[m] = id
    <3>1. InHandOf(w, id)'
      BY <1>2, <1>3, <2>2 DEF InHandOf
    <3> QED
      BY <2>1, <3>1
  <2>3. CASE OwedToNobody(w, id)
    <3>1. known[job[w]] \subseteq Hooks
      <4>1. job[w] \in 1..MaxJobs
        BY AlertsAssumption DEF Typed, TypeOK
      <4> QED
        BY <4>1 DEF Typed, TypeOK
    <3>2. \A h \in known[job[w]] : hooks[h] = "registered" /\ Passes(h, id) => Delivered(id, h)'
      BY <2>3, <3>1 DEF OwedToNobody
    <3> QED
      BY <2>1, <3>2
  <2> QED
    BY <2>1, <2>2, <2>3
<1>7. \A id \in 1..Len(alerts') : ~(id > Len(alerts))
  BY <1>1
<1> QED
  BY <1>1, <1>2, <1>3, <1>4, <1>5, <1>6, <1>7, DueAfterWork

LEMMA DueAfterPost ==
    ASSUME Typed, Typed', Own, Due, NEW w \in Workers, pc[w] = "deliver", NEW h \in left[w],
           NEW ok \in BOOLEAN, Posted(w, h, ok), NEW l \in SUBSET Hooks,
           l = IF ~ok /\ Tried(Current(w), h) + 1 < MaxPosts THEN left[w] ELSE left[w] \ {h},
           Locals(w, batch[w], targets[w], l),
           UNCHANGED <<alerts, hooks, pc, job, jobs, known, errors, crashes>>
    PROVE  Due'
<1>1. PICK c \in 1..Len(alerts) : c = Current(w)
  BY InHand
<1>2. h \in Hooks /\ MaxPosts \in Nat \ {0}
  BY AlertsAssumption DEF Typed, TypeOK
<1>3. /\ posts'[c][h] = Append(posts[c][h], ok)
      /\ \A id \in 1..Len(alerts), g \in Hooks : id # c \/ g # h => posts'[id][g] = posts[id][g]
  <2>1. /\ posts'[Current(w)][h] = Append(posts[Current(w)][h], ok)
        /\ \A id \in 1..Len(alerts), g \in Hooks :
              id # Current(w) \/ g # h => posts'[id][g] = posts[id][g]
    BY <1>2, PostedOnce
  <2> QED
    BY <1>1, <2>1, Zenon
<1>4. /\ Tried(c, h) \in Nat /\ Tried(c, h) < MaxPosts
      /\ \A n \in 1..Tried(c, h) : ~posts[c][h][n]
  BY <1>1, <1>2, Ranges DEF Own, MayStillGet
<1>5. /\ Tried(c, h)' = Tried(c, h) + 1 /\ DOMAIN posts'[c][h] = 1..(Tried(c, h) + 1)
      /\ posts'[c][h][Tried(c, h) + 1] = ok
      /\ DOMAIN posts[c][h] = 1..Tried(c, h)
  <2>1. posts[c][h] \in Seq(BOOLEAN) /\ Tried(c, h) = Len(posts[c][h]) /\ Tried(c, h)' = Len(posts'[c][h])
    BY <1>1, <1>2, Ranges DEF Tried
  <2>2. posts'[c][h] \in Seq(BOOLEAN) /\ Len(posts'[c][h]) = Tried(c, h) + 1
        /\ posts'[c][h][Tried(c, h) + 1] = ok
    BY <1>3, <2>1, AppendProperties
  <2> QED
    BY <2>1, <2>2
<1>6. ~Delivered(c, h)
  BY <1>4, <1>5 DEF Delivered
<1>7. \A id \in 1..Len(alerts), g \in Hooks : Delivered(id, g) => Delivered(id, g)'
  <2> SUFFICES ASSUME NEW id \in 1..Len(alerts), NEW g \in Hooks, Delivered(id, g)
               PROVE  Delivered(id, g)'
    OBVIOUS
  <2>1. posts'[id][g] = posts[id][g]
    BY <1>3, <1>6
  <2> QED
    BY <2>1 DEF Delivered, Tried
<1>8. h \notin l => Delivered(c, h)'
  <2>1. ASSUME h \notin l PROVE Delivered(c, h)'
    <3>1. ok \/ Tried(c, h) + 1 = MaxPosts
      <4>1. ok \/ ~(Tried(c, h) + 1 < MaxPosts)
        BY <1>1, <2>1
      <4> QED
        BY <1>2, <1>4, <4>1
    <3>2. CASE ok
      <4>1. Tried(c, h) + 1 \in DOMAIN posts'[c][h] /\ posts'[c][h][Tried(c, h) + 1]
        BY <1>4, <1>5, <3>2
      <4> QED
        BY <4>1 DEF Delivered
    <3>3. CASE Tried(c, h) + 1 = MaxPosts
      BY <1>5, <3>3 DEF Delivered
    <3> QED
      BY <3>1, <3>2, <3>3
  <2> QED
    BY <2>1
<1>9. /\ batch[w] \in Seq(1..Len(alerts)) /\ targets[w] \in SUBSET Hooks
      /\ GoTo(w, "deliver") /\ batch[w][1] = c
  BY <1>1 DEF Typed, TypeOK, GoTo, Current
<1>10. known[job[w]] \cap Registered \subseteq targets[w]
  BY DEF Due
<1>11. ASSUME NEW g \in targets[w], Passes(g, c) PROVE g \in l \/ Delivered(c, g)'
  <2>1. g \in left[w] \/ Delivered(c, g)
    BY <1>1, <1>11 DEF Due
  <2>2. CASE Delivered(c, g)
    BY <1>7, <1>9, <2>2
  <2>3. CASE g \in left[w]
    BY <1>8, <2>3
  <2> QED
    BY <2>1, <2>2, <2>3
<1> QED
  BY <1>7, <1>9, <1>10, <1>11, DueWhenGoingOn

LEMMA InitDue == Init => Due
<1> SUFFICES ASSUME Init PROVE Due
  OBVIOUS
<1>1. \A w \in Workers : batch[w] = <<>> /\ Len(batch[w]) = 0 /\ pc[w] = "idle"
  BY DEF Init
<1>2. DOMAIN alerts = {} /\ \A j \in 1..MaxJobs : known[j] = {}
  BY DEF Init
<1> QED
  BY <1>1, <1>2 DEF Due, AlertsAreAnnounced

\* A webhook comes or goes.
LEMMA DueWithHooks ==
    ASSUME Typed, Typed', Due, NEW h \in Hooks, Register(h) \/ Delete(h) PROVE Due'
<1>1. UNCHANGED <<alerts, pc, job, attempt, batch, targets, left, posts, jobs, known, errors, crashes>>
  BY DEF Register, Delete, worker
<1>2. /\ \A g \in Hooks : hooks[g] # "absent" => hooks'[g] # "absent"
      /\ \A g \in Hooks : hooks[g] # "absent" /\ hooks'[g] = "registered" => hooks[g] = "registered"
  BY DEF Register, Delete, Typed, TypeOK
<1>3. \A j \in 1..MaxJobs : known[j] \subseteq Hooks
  BY DEF Typed, TypeOK
<1>4. \A j \in 1..MaxJobs : \A g \in known'[j] : hooks'[g] # "absent"
  BY <1>1, <1>2, <1>3 DEF Due
<1>5. ASSUME NEW j \in 1..MaxJobs PROVE known[j] \cap Registered' \subseteq Registered
  BY <1>2, <1>3 DEF Due, Registered
<1>6. \A w \in Workers : pc[w] \in {"load", "deliver"} =>
         known'[job'[w]] \cap Registered' \subseteq targets'[w]
  <2>1. \A w \in Workers : pc[w] \in {"load", "deliver"} => job[w] \in 1..MaxJobs
    BY AlertsAssumption DEF Typed, TypeOK
  <2> QED
    BY <1>1, <1>5, <2>1 DEF Due
<1>7. AlertsAreAnnounced'
  <2> SUFFICES ASSUME errors = 0, crashes = 0, NEW id \in 1..Len(alerts), ~Pending(id)',
                      NEW g \in known[alerts[id].job], hooks'[g] = "registered", Passes(g, id)'
               PROVE  Delivered(id, g)'
    BY <1>1, Ranges DEF AlertsAreAnnounced
  <2>1. alerts[id] \in Alert
    BY DEF Typed, TypeOK
  <2>2. alerts[id].job \in 1..MaxJobs
    BY <2>1 DEF Alert
  <2>3. g \in Hooks /\ hooks[g] = "registered" /\ Passes(g, id) /\ ~Pending(id)
    BY <1>1, <1>2, <1>3, <2>2 DEF Due, Passes, Pending
  <2>4. Delivered(id, g)
    BY <2>3, Ranges DEF Due, AlertsAreAnnounced
  <2> QED
    BY <1>1, <2>4 DEF Delivered, Tried
<1>8. \A w \in Workers : pc'[w] = "deliver" =>
         \A g \in targets'[w] : Passes(g, Current(w))' => g \in left'[w] \/ Delivered(Current(w), g)'
  BY <1>1 DEF Due, Passes, Current, Delivered, Tried
<1> QED
  BY <1>1, <1>4, <1>6, <1>7, <1>8 DEF Due

\* A job begins.
LEMMA DueWhenBegun ==
    ASSUME Typed, Typed', Due, NEW w \in Workers, Begin(w) PROVE Due'
<1>1. /\ UNCHANGED <<alerts, hooks, batch, targets, left, posts, errors, crashes>>
      /\ pc[w] = "idle" /\ pc'[w] = "detect" /\ jobs + 1 \in 1..MaxJobs /\ jobs \in Nat
      /\ job'[w] = jobs + 1 /\ known'[jobs + 1] = Registered
      /\ \A v \in Workers \ {w} : pc'[v] = pc[v] /\ job'[v] = job[v]
      /\ \A j \in 1..MaxJobs : j # jobs + 1 => known'[j] = known[j]
  BY AlertsAssumption DEF Begin, GoTo, Typed, TypeOK
<1>2. batch[w] = <<>> /\ Len(batch[w]) = 0
  BY <1>1 DEF Due
<1>3. \A j \in 1..MaxJobs : \A h \in known'[j] : hooks'[h] # "absent"
  BY <1>1 DEF Due, Registered
<1>4. \A v \in Workers : pc'[v] \in {"idle", "detect"} => batch'[v] = <<>>
  BY <1>1, <1>2 DEF Due
<1>5. \A v \in Workers : \A n \in 1..Len(batch'[v]) : alerts'[batch'[v][n]].job = job'[v]
  BY <1>1, <1>2 DEF Due
<1>6. ASSUME NEW v \in Workers, pc'[v] \in {"load", "deliver"}
      PROVE  known'[job'[v]] \cap Registered' \subseteq targets'[v]
  <2>1. v # w /\ pc[v] \in {"load", "deliver"} /\ job'[v] = job[v]
    BY <1>1, <1>6
  <2>2. job[v] \in 1..jobs
    BY <2>1 DEF Typed
  <2>3. job[v] \in 1..MaxJobs /\ job[v] # jobs + 1
    BY <1>1, <2>2 DEF Typed, TypeOK
  <2> QED
    BY <1>1, <2>1, <2>3 DEF Due, Registered
<1>7. ASSUME NEW v \in Workers, pc'[v] = "deliver"
      PROVE  \A h \in targets'[v] : Passes(h, Current(v))' => h \in left'[v] \/ Delivered(Current(v), h)'
  <2>1. pc[v] = "deliver"
    BY <1>1, <1>7
  <2> QED
    BY <1>1, <2>1 DEF Due, Passes, Current, Delivered, Tried
<1>8. AlertsAreAnnounced'
  <2> SUFFICES ASSUME errors = 0, crashes = 0, NEW id \in 1..Len(alerts), ~Pending(id)',
                      NEW h \in known'[alerts[id].job], hooks[h] = "registered", Passes(h, id)'
               PROVE  Delivered(id, h)'
    BY <1>1, Ranges DEF AlertsAreAnnounced
  <2>1. alerts[id] \in Alert /\ alerts[id].job <= jobs
    BY DEF Typed, TypeOK
  <2>2. alerts[id].job \in 1..MaxJobs /\ alerts[id].job # jobs + 1
    BY <1>1, <2>1 DEF Alert
  <2>3. ~Pending(id)
    <3>1. DOMAIN batch[w] = {}
      BY <1>2
    <3> QED
      BY <1>1, <3>1 DEF Pending
  <2>4. h \in known[alerts[id].job] /\ Passes(h, id)
    BY <1>1, <2>2 DEF Passes
  <2>5. Delivered(id, h)
    BY <2>3, <2>4, Ranges DEF Due, AlertsAreAnnounced
  <2> QED
    BY <1>1, <2>5 DEF Delivered, Tried
<1> QED
  BY <1>3, <1>4, <1>5, <1>6, <1>7, <1>8 DEF Due

\* Alerts are stored: all of them are in hand.
LEMMA DueWhenDetected ==
    ASSUME Typed, Typed', Due, NEW w \in Workers, Detect(w) PROVE Due'
<1>1. PICK found \in Findings[w] \ {<<>>} :
         Store(w, found) /\ Locals(w, [n \in DOMAIN found |-> Len(alerts) + n], {}, {})
  BY DEF Detect
<1>2. /\ pc[w] = "detect" /\ pc'[w] = "query" /\ Len(batch[w]) = 0
      /\ UNCHANGED <<hooks, job, jobs, known, errors, crashes>>
      /\ \A v \in Workers \ {w} : pc'[v] = pc[v]
  BY DEF Detect, GoTo, Typed, TypeOK, Due
<1>3. PICK b \in Seq(1..Len(alerts')) :
         /\ b = [n \in DOMAIN found |-> Len(alerts) + n]
         /\ Len(b) = Len(found) /\ Len(found) \in Nat
         /\ \A n \in 1..Len(found) : b[n] = Len(alerts) + n
  BY <1>1, <1>2, NewBatch
<1>4. PICK t \in SUBSET Hooks : t = {}
  OBVIOUS
<1>5. /\ alerts' \in Seq(Alert) /\ Len(alerts') = Len(alerts) + Len(found) /\ Len(alerts) \in Nat
      /\ \A id \in 1..Len(alerts) : alerts'[id] = alerts[id] /\ posts'[id] = posts[id]
      /\ \A id \in 1..Len(alerts') : id > Len(alerts) => alerts'[id].job = job[w]
  BY <1>1, <1>2, StoredLast, Ranges
<1>6. Len(alerts') >= Len(alerts)
  BY <1>3, <1>5
<1>7. Locals(w, b, t, t)
  BY <1>1, <1>3, <1>4
<1>8. /\ batch'[w] = b
      /\ \A v \in Workers \ {w} : batch'[v] = batch[v] /\ targets'[v] = targets[v] /\ left'[v] = left[v]
  BY <1>5, <1>6, <1>7, LocalsOf
<1>9. ASSUME NEW n \in 1..Len(b) PROVE alerts'[b[n]].job = job'[w]
  <2>1. b[n] \in 1..Len(alerts') /\ b[n] > Len(alerts)
    BY <1>3, <1>5
  <2> QED
    BY <1>2, <1>5, <2>1, Zenon
<1>10. ASSUME NEW id \in 1..Len(alerts'), id > Len(alerts) PROVE InHandOf(w, id)'
  <2>1. PICK k, m \in Nat : k = Len(alerts) /\ m = Len(b)
    BY <1>3, <1>5
  <2>2. id \in 1..k + m /\ id > k
    BY <1>3, <1>5, <1>10, <2>1
  <2>3. PICK n \in 1..m : k + n = id
    <3>1. id - k \in 1..m /\ k + (id - k) = id
      BY <2>2
    <3> QED
      BY <3>1
  <2>4. n \in 1..Len(b) /\ b[n] = id
    BY <1>3, <2>1, <2>3
  <2> QED
    BY <1>2, <1>8, <2>4 DEF InHandOf
<1>11. \A id \in 1..Len(alerts), h \in Hooks : Delivered(id, h) => Delivered(id, h)'
  BY <1>5 DEF Delivered, Tried
<1>12. /\ pc[w] # "idle"
       /\ pc'[w] \in {"idle", "detect"} => batch'[w] = <<>>
       /\ \A n \in 1..Len(batch'[w]) : alerts'[batch'[w][n]].job = job'[w]
       /\ pc'[w] \notin {"load", "deliver"}
  BY <1>2, <1>8, <1>9
<1>13. /\ errors' = errors /\ crashes' = crashes
       /\ \A id \in 1..Len(alerts') : id > Len(alerts) => InHandOf(w, id)'
       /\ 1..Len(batch[w]) = {}
  BY <1>2, <1>10
<1>14. \A v \in Workers \ {w} :
          /\ pc'[v] = pc[v] /\ batch'[v] = batch[v] /\ job'[v] = job[v]
          /\ targets'[v] = targets[v] /\ left'[v] = left[v]
  BY <1>2, <1>8
<1> QED
  BY <1>2, <1>5, <1>6, <1>11, <1>12, <1>13, <1>14, DueAfterWork

LEMMA NextDue == Typed /\ Typed' /\ Own /\ Due /\ [Next]_vars => Due'
<1> SUFFICES ASSUME Typed, Typed', Own, Due, [Next]_vars PROVE Due'
  OBVIOUS
<1>1. ASSUME NEW w \in Workers, pc[w] # "idle", Finish(w), UNCHANGED <<alerts, hooks, posts, jobs, known>>,
             errors' = 0 /\ crashes' = 0 =>
                /\ errors = 0 /\ crashes = 0
                /\ \A n \in 1..Len(batch[w]) : OwedToNobody(w, batch[w][n])
      PROVE  Due'
  <2>1. Released(w) /\ Grown
    BY <1>1, FinishReleases, GrownOrSame
  <2> QED
    BY <1>1, <2>1, DueWhenReleased
<1>2. ASSUME NEW w \in Workers, pc[w] # "idle", Mistake(w), Grown, UNCHANGED <<hooks, jobs, known>>,
             errors' = errors + 1
      PROVE  Due'
  <2>1. errors' # 0
    BY <1>2 DEF Typed, TypeOK
  <2> QED
    BY <1>2, <2>1, MistakeReleases, DueWhenReleased
<1>3. ASSUME NEW w \in Workers, FindNothing(w) PROVE Due'
  <2>1. Len(batch[w]) = 0 /\ 1..Len(batch[w]) = {}
    BY <1>3 DEF FindNothing, Due
  <2> QED
    BY <1>1, <1>3, <2>1 DEF FindNothing
<1>4. ASSUME NEW w \in Workers, Query(w) PROVE Due'
  <2>1. pc[w] = "query" /\ batch[w] \in Seq(1..Len(alerts)) /\ job[w] \in 1..MaxJobs
        /\ UNCHANGED <<alerts, hooks, posts, dlq, jobs, known, errors, crashes>>
    BY <1>4, InHand DEF Query
  <2>2. known[job[w]] \subseteq Hooks
    BY <2>1 DEF Typed, TypeOK
  <2>3. CASE Registered = {}
    <3>1. \A n \in 1..Len(batch[w]) : OwedToNobody(w, batch[w][n])
      BY <2>2, <2>3 DEF OwedToNobody, Registered
    <3> QED
      BY <1>1, <1>4, <2>1, <2>3, <3>1 DEF Query
  <2>4. CASE Registered # {}
    <3>1. PICK t, l \in SUBSET Hooks : t = Registered /\ l = {}
      BY DEF Registered
    <3>2. Locals(w, batch[w], t, l) /\ GoTo(w, "load") /\ UNCHANGED job
      BY <1>4, <2>4, <3>1 DEF Query
    <3>3. known[job[w]] \cap Registered \subseteq t
      BY <3>1
    <3>4. \A id \in 1..Len(alerts), h \in Hooks : Delivered(id, h) => Delivered(id, h)'
      BY <2>1 DEF Delivered, Tried
    <3> QED
      BY <2>1, <3>2, <3>3, <3>4, DueWhenGoingOn
  <2> QED
    BY <2>3, <2>4
<1>5. ASSUME NEW w \in Workers, Load(w) PROVE Due'
  <2>1. pc[w] = "load" /\ batch[w] \in Seq(1..Len(alerts)) /\ Head(batch[w]) = batch[w][1]
        /\ GoTo(w, "deliver") /\ targets[w] \in SUBSET Hooks
        /\ UNCHANGED <<alerts, hooks, job, posts, jobs, known, errors, crashes>>
    BY <1>5, InHand DEF Load, Current, Typed, TypeOK
  <2>2. PICK l \in SUBSET Hooks : l = {h \in targets[w] : Passes(h, Head(batch[w]))}
    BY <2>1
  <2>3. Locals(w, batch[w], targets[w], l)
    BY <1>5, <2>2 DEF Load
  <2>4. known[job[w]] \cap Registered \subseteq targets[w]
    BY <2>1 DEF Due
  <2>5. \A h \in targets[w] : Passes(h, batch[w][1]) => h \in l
    BY <2>1, <2>2
  <2>6. \A id \in 1..Len(alerts), h \in Hooks : Delivered(id, h) => Delivered(id, h)'
    BY <2>1 DEF Delivered, Tried
  <2> QED
    BY <2>1, <2>3, <2>4, <2>5, <2>6, DueWhenGoingOn
<1>6. ASSUME NEW w \in Workers, NEW h \in Hooks, PostSucceeds(w, h) PROVE Due'
  <2>1. PICK l \in SUBSET Hooks : l = left[w] \ {h}
    BY DEF Typed, TypeOK
  <2> QED
    BY <1>6, <2>1, DueAfterPost DEF PostSucceeds, Turn
<1>7. ASSUME NEW w \in Workers, NEW h \in Hooks, PostFails(w, h) PROVE Due'
  <2>1. pc[w] = "deliver" /\ h \in left[w] /\ Posted(w, h, FALSE)
        /\ UNCHANGED <<alerts, hooks, pc, job, jobs, known, errors, crashes>>
    BY <1>7 DEF PostFails, Turn
  <2>2. PICK l \in SUBSET Hooks :
           l = IF Tried(Current(w), h) + 1 < MaxPosts THEN left[w] ELSE left[w] \ {h}
    BY DEF Typed, TypeOK
  <2>3. Locals(w, batch[w], targets[w], l)
    BY <1>7, <2>1, <2>2, InHand DEF PostFails
  <2> QED
    BY <2>1, <2>2, <2>3, DueAfterPost
<1>8. ASSUME NEW w \in Workers, NextAlert(w) PROVE Due'
  <2>1. /\ pc[w] = "deliver" /\ left[w] = {} /\ pc[w] # "idle"
        /\ UNCHANGED <<alerts, hooks, posts, jobs, known, errors, crashes>>
        /\ Len(batch[w]) \in Nat \ {0} /\ job[w] \in 1..MaxJobs /\ Current(w) = batch[w][1]
    BY <1>8, InHand DEF NextAlert, Current
  <2>2. OwedToNobody(w, Current(w))
    <3>1. known[job[w]] \cap Registered \subseteq targets[w]
      BY <2>1 DEF Due
    <3>2. known[job[w]] \subseteq Hooks
      BY <2>1 DEF Typed, TypeOK
    <3>3. \A h \in targets[w] : Passes(h, Current(w)) => Delivered(Current(w), h)
      BY <2>1 DEF Due
    <3> QED
      BY <3>1, <3>2, <3>3 DEF OwedToNobody, Registered
  <2>3. CASE Len(batch[w]) > 1
    <3>1. PICK b \in Seq(1..Len(alerts)) :
             /\ b = Tail(batch[w]) /\ Len(b) = Len(batch[w]) - 1
             /\ \A n \in 1..Len(batch[w]) - 1 : b[n] = batch[w][n + 1]
      BY <2>1, <2>3, RestOfBatch
    <3>2. PICK t, l \in SUBSET Hooks : t = targets[w] /\ l = {}
      BY DEF Typed, TypeOK
    <3>3. Locals(w, b, t, l) /\ GoTo(w, "load") /\ UNCHANGED job
      BY <1>8, <2>3, <3>1, <3>2 DEF NextAlert
    <3>4. \A n \in 1..Len(b) : \E m \in 1..Len(batch[w]) : b[n] = batch[w][m]
      <4>1. \A n \in 1..Len(b) : n \in 1..Len(batch[w]) - 1 /\ n + 1 \in 1..Len(batch[w])
        BY <2>1, <3>1
      <4> QED
        BY <3>1, <4>1
    <3>5. ASSUME NEW n \in 1..Len(batch[w])
          PROVE  (\E m \in 1..Len(b) : b[m] = batch[w][n]) \/ OwedToNobody(w, batch[w][n])
      <4>1. CASE n = 1
        BY <2>1, <2>2, <4>1
      <4>2. CASE n # 1
        <5>1. n - 1 \in 1..Len(b) /\ n - 1 \in 1..Len(batch[w]) - 1 /\ (n - 1) + 1 = n
          BY <2>1, <3>1, <4>2
        <5>2. b[n - 1] = batch[w][n]
          BY <3>1, <5>1
        <5> QED
          BY <5>1, <5>2
      <4> QED
        BY <4>1, <4>2
    <3>6. known[job[w]] \cap Registered \subseteq t
      BY <2>1, <3>2 DEF Due
    <3>7. \A id \in 1..Len(alerts), h \in Hooks : Delivered(id, h) => Delivered(id, h)'
      BY <2>1 DEF Delivered, Tried
    <3> QED
      BY <2>1, <3>3, <3>4, <3>5, <3>6, <3>7, DueWhenGoingOn
  <2>4. CASE ~(Len(batch[w]) > 1)
    <3>1. Finish(w)
      BY <1>8, <2>4 DEF NextAlert
    <3>2. \A n \in 1..Len(batch[w]) : n = 1
      BY <2>1, <2>4
    <3>3. \A n \in 1..Len(batch[w]) : OwedToNobody(w, batch[w][n])
      BY <2>1, <2>2, <3>2
    <3> QED
      BY <1>1, <2>1, <3>1, <3>3
  <2> QED
    BY <2>3, <2>4
<1>9. ASSUME NEW w \in Workers, DetectRaises(w) \/ DispatchRaises(w) PROVE Due'
  <2>1. pc[w] # "idle" /\ Mistake(w) /\ UNCHANGED <<alerts, posts>>
        /\ UNCHANGED <<hooks, jobs, known>> /\ errors' = errors + 1
    BY <1>9 DEF DetectRaises, DispatchRaises, DatabaseRaises
  <2> QED
    BY <1>2, <2>1, GrownOrSame
<1>10. ASSUME NEW w \in Workers, StoredAndRaises(w) PROVE Due'
  <2>1. pc[w] = "detect" /\ pc[w] # "idle" /\ Mistake(w)
        /\ UNCHANGED <<hooks, jobs, known>> /\ errors' = errors + 1
    BY <1>10 DEF StoredAndRaises, DatabaseRaises
  <2>2. Grown
    BY <1>10, <2>1, GrownOrSame DEF StoredAndRaises
  <2> QED
    BY <1>2, <2>1, <2>2
<1>11. ASSUME NEW w \in Workers, Crash(w) PROVE Due'
  <2>1. crashes' # 0
    BY <1>11 DEF Crash, Typed, TypeOK
  <2> QED
    BY <1>1, <1>11, <2>1 DEF Crash
<1>12. CASE UNCHANGED vars
  BY <1>12 DEF vars, worker, Due, AlertsAreAnnounced, Registered, Passes, Current, Delivered, Tried, Pending
<1> QED
  BY <1>3, <1>4, <1>5, <1>6, <1>7, <1>8, <1>9, <1>10, <1>11, <1>12,
     DueWithHooks, DueWhenBegun, DueWhenDetected DEF Next, Step

\* While the database works and no process is killed, whatever webhooks fail, come or go: an
\* alert that nobody has still to announce was delivered to every webhook that was there when
\* its job began, is there still and wants it, or MaxPosts posts to that webhook have failed.
THEOREM NobodyIsForgotten == Spec => []AlertsAreAnnounced
<1>1. Due => AlertsAreAnnounced
  BY DEF Due
<1> QED
  BY <1>1, InitTyped, NextTyped, InitOwn, NextOwned, InitDue, NextDue, PTL DEF Spec
-----------------------------------------------------------------------------
\* Why an alert is stored once: a job has one worker, which stores at most one alert of a
\* type in an attempt, and begins another attempt only after a database error.
Counted ==
    /\ \A v, w \in Workers : pc[v] # "idle" /\ pc[w] # "idle" /\ job[v] = job[w] => v = w
    /\ \A w \in Workers : pc[w] # "idle" => \A t \in Types :
          Copies(job[w], t) <= IF pc[w] = "detect" THEN attempt[w] - 1 ELSE attempt[w]
    /\ \A w \in Workers : errors >= attempt[w] - 1
    /\ OneAlertPerType

\* The copies that Copies counts.
CopiesOf(j, t) == {id \in 1..Len(alerts) : alerts[id].job = j /\ alerts[id].kind.type = t}

LEMMA CopiesIs ==
    ASSUME Typed, NEW j, NEW t
    PROVE  Copies(j, t) = Cardinality(CopiesOf(j, t)) /\ IsFiniteSet(CopiesOf(j, t))
           /\ Copies(j, t) \in Nat
<1>1. DOMAIN alerts = 1..Len(alerts) /\ Len(alerts) \in Nat
  BY DEF Typed, TypeOK
<1>2. Copies(j, t) = Cardinality(CopiesOf(j, t))
  BY <1>1, Zenon DEF Copies, CopiesOf
<1>3. IsFiniteSet(1..Len(alerts))
  BY <1>1, FS_Interval
<1>4. IsFiniteSet(CopiesOf(j, t))
  BY <1>3, FS_Subset DEF CopiesOf
<1> QED
  BY <1>2, <1>4, FS_CardinalityType

LEMMA CopiesAfter ==
    ASSUME Typed', NEW j, NEW t
    PROVE  Copies(j, t)' \in Nat
<1>1. Len(alerts') \in Nat /\ DOMAIN alerts' = 1..Len(alerts')
  BY DEF Typed, TypeOK
<1>2. PICK k \in Nat : k = Len(alerts')
  BY <1>1
<1>3. IsFiniteSet(1..k)
  BY FS_Interval
<1>4. PICK ids : ids = {id \in 1..k : alerts'[id].job = j /\ alerts'[id].kind.type = t}
  OBVIOUS
<1>5. IsFiniteSet(ids) /\ Copies(j, t)' = Cardinality(ids)
  BY <1>1, <1>2, <1>3, <1>4, FS_Subset DEF Copies
<1> QED
  BY <1>5, FS_CardinalityType

\* A job that has not begun has no alerts.
LEMMA NoCopies ==
    ASSUME Typed, NEW t
    PROVE  Copies(jobs + 1, t) = 0
<1>1. \A id \in 1..Len(alerts) : alerts[id].job # jobs + 1
  <2>1. ASSUME NEW id \in 1..Len(alerts) PROVE alerts[id].job # jobs + 1
    <3>1. alerts[id] \in Alert /\ alerts[id].job <= jobs /\ jobs \in Nat
      BY AlertsAssumption DEF Typed, TypeOK
    <3>2. alerts[id].job \in Nat
      BY <3>1, AlertsAssumption DEF Alert
    <3> QED
      BY <3>1, <3>2
  <2> QED
    BY <2>1
<1>2. CopiesOf(jobs + 1, t) = {}
  BY <1>1 DEF CopiesOf
<1> QED
  BY <1>2, CopiesIs, FS_EmptySet

\* Storing what was found adds one copy to each type of the job at most.
LEMMA StoreCounts ==
    ASSUME Typed, Typed', NEW w \in Workers, pc[w] = "detect", NEW found \in Findings[w],
           Store(w, found), NEW t, NEW j \in 1..MaxJobs
    PROVE  /\ j # job[w] => Copies(j, t)' = Copies(j, t)
           /\ j = job[w] => Copies(j, t)' <= Copies(j, t) + 1
<1> DEFINE old == CopiesOf(j, t)
           new == {id \in 1..Len(alerts') : alerts'[id].job = j /\ alerts'[id].kind.type = t}
<1>1. /\ Len(alerts) \in Nat /\ Len(alerts') = Len(alerts) + Len(found) /\ Len(found) \in Nat
      /\ \A id \in 1..Len(alerts) : alerts'[id] = alerts[id]
  <2>1. Len(alerts) \in Nat
    BY DEF Typed, TypeOK
  <2> QED
    BY <2>1, StoredLast
<1>2. \A id \in 1..Len(alerts') : id > Len(alerts) =>
         /\ alerts'[id].job = job[w]
         /\ id - Len(alerts) \in 1..Len(found) /\ alerts'[id].kind = found[id - Len(alerts)]
  BY StoredLast
<1>3. \A m, n \in 1..Len(found) : found[m].type = found[n].type => m = n
  <2>1. found \in Seq(Kind) /\ DOMAIN found = 1..Len(found)
    BY StoredLast
  <2> QED
    BY <2>1, OneOfEachType, Zenon
<1>4. Copies(j, t) = Cardinality(old) /\ IsFiniteSet(old) /\ Cardinality(old) \in Nat
  BY CopiesIs
<1>5. Copies(j, t)' = Cardinality(new)
  <2>1. DOMAIN alerts' = 1..Len(alerts')
    BY DEF Typed, TypeOK
  <2> QED
    BY <2>1, Zenon DEF Copies
<1>6. ASSUME j # job[w] PROVE Copies(j, t)' = Copies(j, t)
  <2>1. \A id : id \in new <=> id \in old
    BY <1>1, <1>2, <1>6 DEF CopiesOf
  <2>2. new = old
    <3> HIDE DEF old, new
    <3> QED
      BY <2>1, SetExtensionality
  <2> QED
    BY <1>4, <1>5, <2>2
<1>7. \E x : new \subseteq old \cup {x}
  <2>1. ASSUME NEW x \in new \ old
        PROVE  /\ x \in 1..Len(alerts') /\ x > Len(alerts)
               /\ x - Len(alerts) \in 1..Len(found) /\ found[x - Len(alerts)].type = t
    BY <1>1, <1>2, <2>1 DEF CopiesOf
  <2>2. ASSUME NEW x \in new \ old, NEW y \in new \ old PROVE x = y
    <3>1. x - Len(alerts) = y - Len(alerts)
      BY <1>3, <2>1, <2>2
    <3> QED
      BY <1>1, <2>1, <2>2, <3>1
  <2> HIDE DEF old, new
  <2>3. CASE \E x : x \in new \ old
    <3>1. PICK x : x \in new \ old
      BY <2>3
    <3>2. new \subseteq old \cup {x}
      BY <2>2, <3>1
    <3> QED
      BY <3>2
  <2>4. CASE ~\E x : x \in new \ old
    BY <2>4
  <2> QED
    BY <2>3, <2>4
<1>8. Cardinality(new) <= Cardinality(old) + 1
  <2> HIDE DEF old, new
  <2>1. PICK x : new \subseteq old \cup {x}
    BY <1>7
  <2>2. PICK more : more = old \cup {x}
    OBVIOUS
  <2>3. /\ IsFiniteSet(more)
        /\ Cardinality(more) = IF x \in old THEN Cardinality(old) ELSE Cardinality(old) + 1
    BY <1>4, <2>2, FS_AddElement
  <2>4. Cardinality(new) <= Cardinality(more) /\ IsFiniteSet(new)
    BY <2>1, <2>2, <2>3, FS_Subset
  <2>5. Cardinality(new) \in Nat /\ Cardinality(more) \in Nat
    BY <2>3, <2>4, FS_CardinalityType
  <2> QED
    BY <1>4, <2>3, <2>4, <2>5
<1> HIDE DEF old, new
<1> QED
  BY <1>4, <1>5, <1>6, <1>8

\* A worker's step leaves at most `count` copies of each type of its job.
LEMMA CountedStep ==
    ASSUME Typed, Typed', Counted, NEW w \in Workers, pc[w] # "idle", jobs' = jobs,
           \A v \in Workers \ {w} : pc'[v] = pc[v] /\ job'[v] = job[v] /\ attempt'[v] = attempt[v],
           NEW count \in Nat, count <= MaxRetries, errors' = 0 => count <= 1,
           \A j \in 1..MaxJobs, t \in Types :
              Copies(j, t)' <= IF j = job[w] THEN count ELSE Copies(j, t),
           pc'[w] # "idle" => job'[w] = job[w] /\
              count <= IF pc'[w] = "detect" THEN attempt'[w] - 1 ELSE attempt'[w],
           errors' >= errors, errors' >= attempt'[w] - 1,
           dlq' # {} => errors' >= MaxRetries
    PROVE  Counted'
<1>1. /\ errors \in Nat /\ errors' \in Nat /\ MaxRetries \in Nat \ {0} /\ MaxJobs \in Nat
      /\ jobs \in 0..MaxJobs /\ attempt \in [Workers -> 1..MaxRetries]
      /\ \A v \in Workers : pc[v] # "idle" => job[v] \in 1..MaxJobs
  <2>1. \A v \in Workers : job[v] \in 0..MaxJobs
    BY DEF Typed, TypeOK
  <2> QED
    BY <2>1, AlertsAssumption DEF Typed, TypeOK
<1>2. \A j \in 1..MaxJobs, t \in Types : Copies(j, t) \in Nat /\ Copies(j, t)' \in Nat
  <2>1. \A j \in 1..MaxJobs, t \in Types : Copies(j, t) \in Nat
    BY CopiesIs
  <2>2. \A j \in 1..MaxJobs, t \in Types : Copies(j, t)' \in Nat
    BY CopiesAfter
  <2> QED
    BY <2>1, <2>2
<1>3. \A u, v \in Workers : pc[u] # "idle" /\ pc[v] # "idle" /\ job[u] = job[v] => u = v
  BY DEF Counted
<1>4. \A u, v \in Workers : pc'[u] # "idle" /\ pc'[v] # "idle" /\ job'[u] = job'[v] => u = v
  BY <1>3
<1>5. ASSUME NEW v \in Workers, pc'[v] # "idle", NEW t \in Types
      PROVE  Copies(job[v], t)' <= IF pc'[v] = "detect" THEN attempt'[v] - 1 ELSE attempt'[v]
  <2>1. pc[v] # "idle" /\ job'[v] = job[v]
    BY <1>5
  <2>2. PICK j \in 1..MaxJobs : j = job[v]
    BY <1>1, <2>1
  <2>3. Copies(job[v], t)' = Copies(j, t)'
    BY <2>1, <2>2
  <2>4. CASE v = w
    <3>1. Copies(j, t)' <= count /\ count <= IF pc'[v] = "detect" THEN attempt'[v] - 1 ELSE attempt'[v]
      BY <1>5, <2>2, <2>4
    <3>2. attempt' \in [Workers -> 1..MaxRetries]
      BY DEF Typed, TypeOK
    <3>3. attempt'[v] \in Nat
      BY <1>1, <3>2
    <3>4. Copies(j, t)' \in Nat
      BY <1>2
    <3> QED
      BY <2>3, <3>1, <3>3, <3>4
  <2>5. CASE v # w
    <3>1. j # job[w]
      BY <1>3, <2>1, <2>2, <2>5
    <3>2. Copies(j, t)' <= Copies(j, t)
      BY <3>1
    <3>3. Copies(j, t) <= IF pc[v] = "detect" THEN attempt[v] - 1 ELSE attempt[v]
      BY <2>1, <2>2 DEF Counted
    <3>4. pc'[v] = pc[v] /\ attempt'[v] = attempt[v] /\ attempt[v] \in Nat
      BY <1>1, <2>5
    <3> QED
      BY <1>2, <2>3, <3>2, <3>3, <3>4
  <2> QED
    BY <2>4, <2>5
<1>6. ASSUME NEW v \in Workers PROVE errors' >= attempt'[v] - 1
  <2>1. errors >= attempt[v] - 1 /\ attempt[v] \in Nat
    BY <1>1 DEF Counted
  <2> QED
    BY <1>1, <2>1
<1>7. ASSUME NEW j \in 1..jobs, NEW t \in Types
      PROVE  Copies(j, t)' <= IF errors' = 0 THEN 1 ELSE MaxRetries
  <2>1. j \in 1..MaxJobs
    BY <1>1
  <2>2. CASE j = job[w]
    BY <1>1, <1>2, <2>1, <2>2
  <2>3. CASE j # job[w]
    <3>1. Copies(j, t)' <= Copies(j, t)
      BY <2>1, <2>3
    <3>2. Copies(j, t) <= IF errors = 0 THEN 1 ELSE MaxRetries
      BY DEF Counted, OneAlertPerType
    <3> QED
      BY <1>1, <1>2, <2>1, <3>1, <3>2
  <2> QED
    BY <2>2, <2>3
<1>8. OneAlertPerType'
  BY <1>7 DEF OneAlertPerType
<1> QED
  BY <1>4, <1>5, <1>6, <1>8 DEF Counted

\* What the end of an attempt does to the number of attempts.
LEMMA MistakeEnds ==
    ASSUME Typed, NEW w \in Workers, pc[w] # "idle", Mistake(w), errors' = errors + 1, Counted
    PROVE  /\ \A v \in Workers \ {w} : pc'[v] = pc[v] /\ job'[v] = job[v] /\ attempt'[v] = attempt[v]
           /\ pc'[w] # "idle" => /\ job'[w] = job[w] /\ pc'[w] = "detect"
                                 /\ attempt'[w] = attempt[w] + 1
           /\ errors' >= errors /\ errors' >= attempt'[w] - 1
           /\ dlq' # {} => errors' >= MaxRetries
<1>1. /\ pc \in [Workers -> PC] /\ job \in [Workers -> 0..MaxJobs]
      /\ attempt \in [Workers -> 1..MaxRetries] /\ MaxRetries \in Nat /\ errors \in Nat
  BY AlertsAssumption DEF Typed, TypeOK
<1>2. attempt[w] \in 1..MaxRetries /\ errors >= attempt[w] - 1 /\ (dlq # {} => errors >= MaxRetries)
  BY <1>1 DEF Counted, OneAlertPerType
<1>3. CASE w \in Consumers /\ attempt[w] < MaxRetries
  <2>1. /\ attempt' = [attempt EXCEPT ![w] = @ + 1] /\ pc' = [pc EXCEPT ![w] = "detect"]
        /\ UNCHANGED <<job, dlq>>
    BY <1>3 DEF Mistake, GoTo
  <2> QED
    BY <1>1, <1>2, <2>1
<1>4. CASE ~(w \in Consumers /\ attempt[w] < MaxRetries)
  <2>1. /\ attempt' = [attempt EXCEPT ![w] = 1] /\ pc' = [pc EXCEPT ![w] = "idle"]
        /\ job' = [job EXCEPT ![w] = 0]
        /\ dlq' = IF w \in Consumers THEN dlq \cup {job[w]} ELSE dlq
    BY <1>4 DEF Mistake, Finish, GoTo
  <2>2. w \in Consumers => attempt[w] = MaxRetries
    BY <1>1, <1>2, <1>4
  <2>3. dlq' # {} => errors' >= MaxRetries
    BY <1>1, <1>2, <2>1, <2>2
  <2> QED
    BY <1>1, <1>2, <2>1, <2>3
<1> QED
  BY <1>3, <1>4

\* A step of a worker that stores nothing.
LEMMA CountedWithoutStore ==
    ASSUME Typed, Typed', Counted, NEW w \in Workers, pc[w] # "idle", jobs' = jobs, alerts' = alerts,
           \A v \in Workers \ {w} : pc'[v] = pc[v] /\ job'[v] = job[v] /\ attempt'[v] = attempt[v],
           pc'[w] # "idle" =>
              /\ job'[w] = job[w]
              /\ \/ attempt'[w] = attempt[w] /\ (pc'[w] = "detect" => pc[w] = "detect")
                 \/ attempt'[w] = attempt[w] + 1,
           errors' >= errors, errors' >= attempt'[w] - 1,
           dlq' # {} => errors' >= MaxRetries
    PROVE  Counted'
<1>1. /\ attempt[w] \in 1..MaxRetries /\ MaxRetries \in Nat /\ MaxJobs \in Nat /\ job[w] \in 1..MaxJobs
      /\ errors \in Nat /\ errors' \in Nat
  BY AlertsAssumption DEF Typed, TypeOK
<1>2. PICK count \in Nat : count = IF pc[w] = "detect" THEN attempt[w] - 1 ELSE attempt[w]
  BY <1>1
<1>3. \A j, t : Copies(j, t)' = Copies(j, t)
  BY DEF Copies
<1>4. \A t \in Types : Copies(job[w], t) <= count
  BY <1>2 DEF Counted
<1>5. \A j \in 1..MaxJobs, t \in Types : Copies(j, t)' <= IF j = job[w] THEN count ELSE Copies(j, t)
  <2>1. \A j \in 1..MaxJobs, t \in Types : Copies(j, t) \in Nat
    BY CopiesIs
  <2> QED
    BY <1>3, <1>4, <2>1
<1>6. count <= MaxRetries
  BY <1>1, <1>2
<1>7. errors' = 0 => count <= 1
  <2>1. errors >= attempt[w] - 1
    BY DEF Counted
  <2> QED
    BY <1>1, <1>2, <2>1
<1>8. pc'[w] # "idle" => job'[w] = job[w] /\
         count <= IF pc'[w] = "detect" THEN attempt'[w] - 1 ELSE attempt'[w]
  BY <1>1, <1>2
<1> QED
  BY <1>5, <1>6, <1>7, <1>8, CountedStep

\* A step of a worker that stores what it has found.
LEMMA CountedWithStore ==
    ASSUME Typed, Typed', Counted, NEW w \in Workers, pc[w] = "detect", jobs' = jobs,
           NEW found \in Findings[w], Store(w, found),
           \A v \in Workers \ {w} : pc'[v] = pc[v] /\ job'[v] = job[v] /\ attempt'[v] = attempt[v],
           pc'[w] # "idle" =>
              /\ job'[w] = job[w]
              /\ \/ attempt'[w] = attempt[w] /\ pc'[w] # "detect"
                 \/ attempt'[w] = attempt[w] + 1,
           errors' >= errors, errors' >= attempt'[w] - 1,
           dlq' # {} => errors' >= MaxRetries
    PROVE  Counted'
<1>1. /\ attempt[w] \in 1..MaxRetries /\ MaxRetries \in Nat /\ MaxJobs \in Nat /\ job[w] \in 1..MaxJobs
      /\ errors \in Nat /\ errors' \in Nat
  BY AlertsAssumption DEF Typed, TypeOK
<1>2. PICK count \in Nat : count = attempt[w]
  BY <1>1
<1>3. \A t \in Types : Copies(job[w], t) <= count - 1
  BY <1>2 DEF Counted
<1>4. \A j \in 1..MaxJobs, t \in Types : Copies(j, t)' <= IF j = job[w] THEN count ELSE Copies(j, t)
  <2> SUFFICES ASSUME NEW j \in 1..MaxJobs, NEW t \in Types
               PROVE  Copies(j, t)' <= IF j = job[w] THEN count ELSE Copies(j, t)
    OBVIOUS
  <2>1. Copies(j, t) \in Nat /\ Copies(j, t)' \in Nat
    <3>1. Copies(j, t) \in Nat
      BY CopiesIs
    <3>2. Copies(j, t)' \in Nat
      BY CopiesAfter
    <3> QED
      BY <3>1, <3>2
  <2>2. CASE j = job[w]
    <3>1. Copies(j, t)' <= Copies(j, t) + 1 /\ Copies(j, t) <= count - 1
      BY <1>3, <2>2, StoreCounts
    <3> QED
      BY <2>1, <2>2, <3>1
  <2>3. CASE j # job[w]
    BY <2>1, <2>3, StoreCounts
  <2> QED
    BY <2>2, <2>3
<1>5. count <= MaxRetries
  BY <1>1, <1>2
<1>6. errors' = 0 => count <= 1
  <2>1. errors >= attempt[w] - 1
    BY DEF Counted
  <2> QED
    BY <1>1, <1>2, <2>1
<1>7. pc'[w] # "idle" => job'[w] = job[w] /\
         count <= IF pc'[w] = "detect" THEN attempt'[w] - 1 ELSE attempt'[w]
  BY <1>1, <1>2
<1> QED
  BY <1>4, <1>5, <1>6, <1>7, CountedStep

LEMMA InitCounted == Init => Counted
<1> SUFFICES ASSUME Init PROVE Counted
  OBVIOUS
<1>1. \A w \in Workers : pc[w] = "idle" /\ attempt[w] = 1
  BY DEF Init
<1>2. errors = 0 /\ jobs = 0 /\ dlq = {}
  BY DEF Init
<1> QED
  BY <1>1, <1>2 DEF Counted, OneAlertPerType

LEMMA NextCounted == Typed /\ Typed' /\ Counted /\ [Next]_vars => Counted'
<1> SUFFICES ASSUME Typed, Typed', Counted, [Next]_vars PROVE Counted'
  OBVIOUS
<1>0. /\ pc \in [Workers -> PC] /\ job \in [Workers -> 0..MaxJobs]
      /\ attempt \in [Workers -> 1..MaxRetries] /\ MaxRetries \in Nat \ {0} /\ MaxJobs \in Nat
      /\ errors \in Nat /\ jobs \in 0..MaxJobs
      /\ (dlq # {} => errors >= MaxRetries) /\ \A w \in Workers : errors >= attempt[w] - 1
  BY AlertsAssumption DEF Typed, TypeOK, Counted, OneAlertPerType
<1>1. CASE UNCHANGED <<alerts, pc, job, attempt, dlq, jobs, errors>>
  BY <1>1 DEF Counted, OneAlertPerType, Copies
<1>2. ASSUME NEW w \in Workers, pc[w] # "idle", Finish(w),
             UNCHANGED <<alerts, dlq, jobs, errors>>
      PROVE  Counted'
  <2>1. /\ \A v \in Workers \ {w} : pc'[v] = pc[v] /\ job'[v] = job[v] /\ attempt'[v] = attempt[v]
        /\ pc'[w] = "idle" /\ attempt'[w] = 1
    BY <1>0, <1>2 DEF Finish, GoTo
  <2> QED
    BY <1>0, <1>2, <2>1, CountedWithoutStore
<1>3. ASSUME NEW w \in Workers, pc[w] # "idle", NEW where \in {"load", "deliver"}, GoTo(w, where),
             UNCHANGED <<alerts, job, attempt, dlq, jobs, errors>>
      PROVE  Counted'
  <2>1. (\A v \in Workers \ {w} : pc'[v] = pc[v]) /\ pc'[w] = where
    BY <1>0, <1>3 DEF GoTo
  <2> QED
    BY <1>0, <1>3, <2>1, CountedWithoutStore
<1>4. ASSUME NEW h \in Hooks, Register(h) \/ Delete(h) PROVE Counted'
  BY <1>1, <1>4 DEF Register, Delete, worker
<1>5. ASSUME NEW w \in Workers, Begin(w) PROVE Counted'
  <2>1. /\ jobs' = jobs + 1 /\ jobs + 1 \in 1..MaxJobs /\ UNCHANGED <<alerts, dlq, errors>>
        /\ pc[w] = "idle" /\ pc'[w] = "detect" /\ job'[w] = jobs + 1 /\ attempt'[w] = 1
        /\ \A v \in Workers \ {w} : pc'[v] = pc[v] /\ job'[v] = job[v] /\ attempt'[v] = attempt[v]
    BY <1>0, <1>5 DEF Begin, GoTo
  <2>2. \A j, t : Copies(j, t)' = Copies(j, t)
    BY <2>1 DEF Copies
  <2>3. \A v \in Workers : pc[v] # "idle" => job[v] \in 1..jobs
    BY DEF Typed
  <2>4. \A u, v \in Workers : pc'[u] # "idle" /\ pc'[v] # "idle" /\ job'[u] = job'[v] => u = v
    <3>1. \A u, v \in Workers : pc[u] # "idle" /\ pc[v] # "idle" /\ job[u] = job[v] => u = v
      BY DEF Counted
    <3>2. \A v \in Workers : pc[v] # "idle" => job[v] # jobs + 1
      BY <1>0, <2>3
    <3> QED
      BY <2>1, <3>1, <3>2
  <2>5. ASSUME NEW v \in Workers, pc'[v] # "idle", NEW t \in Types
        PROVE  Copies(job[v], t)' <= IF pc'[v] = "detect" THEN attempt'[v] - 1 ELSE attempt'[v]
    <3>1. CASE v = w
      <4>1. Copies(jobs + 1, t) = 0
        BY NoCopies
      <4>2. Copies(job[v], t)' = Copies(jobs + 1, t)
        BY <2>1, <2>2, <3>1
      <4> QED
        BY <2>1, <3>1, <4>1, <4>2
    <3>2. CASE v # w
      <4>1. Copies(job[v], t)' = Copies(job[v], t)
        BY <2>1, <2>2, <3>2
      <4> QED
        BY <2>1, <2>5, <3>2, <4>1 DEF Counted
    <3> QED
      BY <3>1, <3>2
  <2>6. \A v \in Workers : errors' >= attempt'[v] - 1
    BY <1>0, <2>1
  <2>7. OneAlertPerType'
    <3>1. ASSUME NEW j \in 1..jobs + 1, NEW t \in Types
          PROVE  Copies(j, t) <= IF errors = 0 THEN 1 ELSE MaxRetries
      <4>1. CASE j = jobs + 1
        BY <1>0, <4>1, NoCopies
      <4>2. CASE j \in 1..jobs
        BY <4>2 DEF Counted, OneAlertPerType
      <4> QED
        BY <1>0, <4>1, <4>2
    <3> QED
      BY <1>0, <2>1, <2>2, <3>1 DEF OneAlertPerType
  <2> QED
    BY <2>4, <2>5, <2>6, <2>7 DEF Counted
<1>6. ASSUME NEW w \in Workers, FindNothing(w) PROVE Counted'
  BY <1>2, <1>6 DEF FindNothing
<1>7. ASSUME NEW w \in Workers, Detect(w) PROVE Counted'
  <2>1. PICK found \in Findings[w] : Store(w, found)
    BY <1>7 DEF Detect
  <2>2. /\ pc[w] = "detect" /\ pc' = [pc EXCEPT ![w] = "query"]
        /\ UNCHANGED <<job, attempt, dlq, jobs, errors>>
    BY <1>7 DEF Detect, GoTo
  <2> QED
    BY <1>0, <2>1, <2>2, CountedWithStore
<1>8. ASSUME NEW w \in Workers, Query(w) PROVE Counted'
  BY <1>2, <1>3, <1>8 DEF Query
<1>9. ASSUME NEW w \in Workers, Load(w) PROVE Counted'
  BY <1>3, <1>9 DEF Load
<1>10. ASSUME NEW w \in Workers, NEW h \in Hooks, PostSucceeds(w, h) \/ PostFails(w, h) PROVE Counted'
  BY <1>1, <1>10 DEF PostSucceeds, PostFails
<1>11. ASSUME NEW w \in Workers, NextAlert(w) PROVE Counted'
  BY <1>2, <1>3, <1>11 DEF NextAlert
<1>12. ASSUME NEW w \in Workers, DetectRaises(w) \/ DispatchRaises(w) PROVE Counted'
  <2>1. pc[w] # "idle" /\ Mistake(w) /\ errors' = errors + 1 /\ UNCHANGED <<alerts, jobs>>
    BY <1>12 DEF DetectRaises, DispatchRaises, DatabaseRaises
  <2>2. /\ \A v \in Workers \ {w} : pc'[v] = pc[v] /\ job'[v] = job[v] /\ attempt'[v] = attempt[v]
        /\ pc'[w] # "idle" => job'[w] = job[w] /\ attempt'[w] = attempt[w] + 1
        /\ errors' >= errors /\ errors' >= attempt'[w] - 1
        /\ dlq' # {} => errors' >= MaxRetries
    BY <2>1, MistakeEnds
  <2> QED
    BY <2>1, <2>2, CountedWithoutStore
<1>13. ASSUME NEW w \in Workers, StoredAndRaises(w) PROVE Counted'
  <2>1. pc[w] = "detect" /\ Mistake(w) /\ errors' = errors + 1 /\ UNCHANGED jobs
    BY <1>13 DEF StoredAndRaises, DatabaseRaises
  <2>2. PICK found \in Findings[w] : Store(w, found)
    BY <1>13 DEF StoredAndRaises
  <2>3. /\ \A v \in Workers \ {w} : pc'[v] = pc[v] /\ job'[v] = job[v] /\ attempt'[v] = attempt[v]
        /\ pc'[w] # "idle" => job'[w] = job[w] /\ attempt'[w] = attempt[w] + 1
        /\ errors' >= errors /\ errors' >= attempt'[w] - 1
        /\ dlq' # {} => errors' >= MaxRetries
    BY <2>1, MistakeEnds
  <2> QED
    BY <2>1, <2>2, <2>3, CountedWithStore
<1>14. ASSUME NEW w \in Workers, Crash(w) PROVE Counted'
  BY <1>2, <1>14 DEF Crash
<1>15. CASE UNCHANGED vars
  BY <1>1, <1>15 DEF vars, worker
<1> QED
  BY <1>4, <1>5, <1>6, <1>7, <1>8, <1>9, <1>10, <1>11, <1>12, <1>13, <1>14, <1>15 DEF Next, Step

\* Webhooks that fail, or whose worker dies, store no alert again and dead-letter nothing: an
\* event stores each type of alert once, more often only if the database failed, and never more
\* often than it is tried (_process_with_retry and detect_and_store).
THEOREM StoredOnce == Spec => []OneAlertPerType
<1>1. Counted => OneAlertPerType
  BY DEF Counted
<1> QED
  BY <1>1, InitTyped, NextTyped, InitCounted, NextCounted, PTL DEF Spec
=============================================================================
