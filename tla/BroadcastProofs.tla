-------------------------- MODULE BroadcastProofs --------------------------
(***************************************************************************)
(* The list of connections follows the clients, the broadcaster implements *)
(* the feed, and a client misses a tick, or is sent one twice, only if the *)
(* group has joined again, for any number of clients, ticks and rejoins.   *)
(*                                                                         *)
(* What `Without` keeps is proved by induction over the list.  Induction   *)
(* over the numbers is itself a lemma: a set that is closed under adding   *)
(* one, but has a gap, would be mapped into a proper part of itself.       *)
(***************************************************************************)
EXTENDS Broadcast, FiniteSetTheorems, FunctionTheorems, TLAPS

LEMMA SetInduction ==
    ASSUME NEW S, 0 \in S, \A n \in Nat : n \in S => n + 1 \in S
    PROVE  Nat \subseteq S
<1> SUFFICES ASSUME NEW n \in Nat, n \notin S PROVE FALSE
  OBVIOUS
<1> DEFINE below == S \cap 0..n
           above == below \ {0}
           next == [x \in below |-> x + 1]
<1>1. IsFiniteSet(below)
  <2>1. IsFiniteSet(0..n)
    BY FS_Interval
  <2> QED
    BY <2>1, FS_Subset
<1>2. 0 \in below
  OBVIOUS
<1>3. IsFiniteSet(above) /\ Cardinality(above) = Cardinality(below) - 1 /\ Cardinality(below) \in Nat
  <2> HIDE DEF below
  <2> QED
    BY <1>1, <1>2, FS_RemoveElement, FS_CardinalityType
<1>4. next \in Injection(below, above)
  <2>1. \A x \in below : x + 1 \in above
    OBVIOUS
  <2>2. next \in [below -> above]
    BY <2>1
  <2>3. \A x, y \in below : next[x] = next[y] => x = y
    OBVIOUS
  <2> QED
    BY <2>2, <2>3 DEF Injection, IsInjective
<1>5. Cardinality(below) <= Cardinality(above)
  <2> HIDE DEF below, above, next
  <2> QED
    BY <1>3, <1>4, FS_Injection
<1> QED
  BY <1>3, <1>5

\* No element is in the sequence twice.
Distinct(s) == \A m, n \in 1..Len(s) : s[m] = s[n] => m = n

\* Seen from a list with the elements of C, kept[n] is what Without leaves of its first
\* n elements.
Keeps(s, cs, kept) ==
    kept = [n \in 0..Len(s) |->
              IF n = 0 THEN <<>>
              ELSE IF s[n] \in cs THEN kept[n - 1] ELSE Append(kept[n - 1], s[n])]

LEMMA KeepsSomething ==
    ASSUME NEW s, Len(s) \in Nat, NEW cs
    PROVE  \E kept : Keeps(s, cs, kept)
<1> DEFINE Upto(k, kept) ==
        kept = [n \in 0..k |->
                  IF n = 0 THEN <<>>
                  ELSE IF s[n] \in cs THEN kept[n - 1] ELSE Append(kept[n - 1], s[n])]
           Found == {k \in Nat : \E kept : Upto(k, kept)}
<1>1. 0 \in Found
  <2>1. Upto(0, [n \in 0..0 |-> <<>>])
    OBVIOUS
  <2> QED
    BY <2>1
<1>2. ASSUME NEW k \in Nat, k \in Found PROVE k + 1 \in Found
  <2>1. PICK old : Upto(k, old)
    BY <1>2
  <2> DEFINE one == s[k + 1]
             last == IF one \in cs THEN old[k] ELSE Append(old[k], one)
             new == [n \in 0..k + 1 |-> IF n = k + 1 THEN last ELSE old[n]]
  <2>2. \A n \in 0..k : new[n] = old[n]
    OBVIOUS
  <2>3. new[k + 1] = last
    OBVIOUS
  <2>4. \A n \in 0..k : old[n] = IF n = 0 THEN <<>>
                                ELSE IF s[n] \in cs THEN old[n - 1] ELSE Append(old[n - 1], s[n])
    BY <2>1
  <2> HIDE DEF new
  <2>5. \A n \in 0..k + 1 : new[n] = IF n = 0 THEN <<>>
                                    ELSE IF s[n] \in cs THEN new[n - 1] ELSE Append(new[n - 1], s[n])
    <3> SUFFICES ASSUME NEW n \in 0..k + 1
                 PROVE  new[n] = IF n = 0 THEN <<>>
                                 ELSE IF s[n] \in cs THEN new[n - 1] ELSE Append(new[n - 1], s[n])
      OBVIOUS
    <3>1. CASE n = k + 1
      <4>1. n # 0 /\ n - 1 = k /\ new[n - 1] = old[k]
        BY <2>2, <3>1
      <4> QED
        BY <2>3, <3>1, <4>1
    <3>2. CASE n \in 1..k
      <4>1. n # 0 /\ n - 1 \in 0..k
        BY <3>2
      <4> QED
        BY <2>2, <2>4, <3>2, <4>1
    <3>3. CASE n = 0
      BY <2>2, <2>4, <3>3
    <3> QED
      BY <3>1, <3>2, <3>3
  <2>6. Upto(k + 1, new)
    BY <2>5 DEF new
  <2> QED
    BY <2>6
<1>3. Len(s) \in Found
  <2> HIDE DEF Found
  <2> QED
    BY <1>1, <1>2, SetInduction
<1> QED
  BY <1>3 DEF Keeps

\* The list that is left has the elements of the old one that are not in cs, each as
\* often as before at most.
LEMMA WithoutKeeps ==
    ASSUME NEW C, NEW s \in Seq(C), NEW cs
    PROVE  /\ Without(s, cs) \in Seq(C)
           /\ Elements(Without(s, cs)) = Elements(s) \ cs
           /\ Distinct(s) => Distinct(Without(s, cs))
<1> DEFINE kept == CHOOSE f : Keeps(s, cs, f)
           From(n) == {s[m] : m \in 1..n} \ cs
           Good(n) == /\ kept[n] \in Seq(C)
                      /\ Elements(kept[n]) = From(n)
                      /\ Distinct(s) => Distinct(kept[n])
           Kept == {n \in Nat : n <= Len(s) => Good(n)}
<1>1. Keeps(s, cs, kept)
  <2>1. \E f : Keeps(s, cs, f)
    BY KeepsSomething
  <2> QED
    BY <2>1
<1>2. Without(s, cs) = kept[Len(s)]
  BY DEF Without, Keeps
<1> HIDE DEF kept
<1>3. /\ kept[0] = <<>>
      /\ \A n \in 1..Len(s) : kept[n] = IF s[n] \in cs THEN kept[n - 1] ELSE Append(kept[n - 1], s[n])
  <2>1. \A n \in 0..Len(s) :
           kept[n] = IF n = 0 THEN <<>>
                     ELSE IF s[n] \in cs THEN kept[n - 1] ELSE Append(kept[n - 1], s[n])
    BY <1>1, Zenon DEF Keeps
  <2>2. 0 \in 0..Len(s) /\ \A n \in 1..Len(s) : n \in 0..Len(s) /\ n # 0
    OBVIOUS
  <2> QED
    BY <2>1, <2>2, Zenon
<1>4. Good(0)
  BY <1>3 DEF Elements, Distinct
<1>5. ASSUME NEW n \in Nat, n + 1 <= Len(s), Good(n) PROVE Good(n + 1)
  <2> DEFINE one == s[n + 1]
             old == kept[n]
             new == kept[n + 1]
  <2>1. one \in C /\ new = IF one \in cs THEN old ELSE Append(old, one)
    BY <1>3, <1>5
  <2>2. \A e : e \in From(n + 1) <=> (e \in From(n) \/ (e = one /\ one \notin cs))
    <3>1. {s[m] : m \in 1..n + 1} = {s[m] : m \in 1..n} \cup {one}
      <4>1. 1..n + 1 = 1..n \cup {n + 1}
        OBVIOUS
      <4> QED
        BY <4>1
    <3> QED
      BY <3>1
  <2>3. old \in Seq(C) /\ Elements(old) = From(n) /\ (Distinct(s) => Distinct(old))
    BY <1>5
  <2>4. Distinct(s) => one \notin From(n)
    BY <1>5 DEF Distinct
  <2> HIDE DEF From, one, old, new
  <2>5. CASE one \in cs
    <3>1. From(n + 1) = From(n)
      <4>1. \A e : e \in From(n + 1) <=> e \in From(n)
        BY <2>2, <2>5
      <4> QED
        BY <4>1, SetExtensionality
    <3> QED
      BY <2>1, <2>3, <2>5, <3>1 DEF old, new
  <2>6. CASE one \notin cs
    <3>1. new \in Seq(C) /\ new = Append(old, one)
      BY <2>1, <2>3, <2>6
    <3>2. /\ Len(old) \in Nat /\ Len(new) = Len(old) + 1 /\ new[Len(old) + 1] = one
          /\ \A m \in 1..Len(old) : new[m] = old[m]
      BY <2>1, <2>3, <3>1
    <3>3. Elements(new) = From(n + 1)
      <4>1. \A e : e \in Elements(new) <=> e \in Elements(old) \/ e = one
        BY <2>3, <3>1, <3>2 DEF Elements
      <4>2. \A e : e \in Elements(new) <=> e \in From(n + 1)
        BY <2>2, <2>3, <2>6, <4>1
      <4> QED
        BY <4>2, SetExtensionality
    <3>4. Distinct(s) => Distinct(new)
      <4>1. Distinct(s) => \A m \in 1..Len(old) : old[m] # one
        BY <2>3, <2>4 DEF Elements
      <4> QED
        BY <2>3, <3>2, <4>1 DEF Distinct
    <3> QED
      BY <3>1, <3>3, <3>4 DEF new
  <2> QED
    BY <2>5, <2>6
<1> HIDE DEF Good
<1>6. Nat \subseteq Kept
  <2>1. 0 \in Kept
    BY <1>4
  <2>2. ASSUME NEW n \in Nat, n \in Kept PROVE n + 1 \in Kept
    BY <1>5, <2>2
  <2> HIDE DEF Kept
  <2> QED
    BY <2>1, <2>2, SetInduction
<1>7. Good(Len(s))
  BY <1>6
<1>8. From(Len(s)) = Elements(s) \ cs
  BY DEF Elements
<1> QED
  BY <1>2, <1>7, <1>8 DEF Good

LEMMA AppendAdds ==
    ASSUME NEW C, NEW s \in Seq(C), NEW e \in C
    PROVE  /\ Append(s, e) \in Seq(C)
           /\ Elements(Append(s, e)) = Elements(s) \cup {e}
           /\ Distinct(s) /\ e \notin Elements(s) => Distinct(Append(s, e))
<1> DEFINE new == Append(s, e)
<1>1. /\ new \in Seq(C) /\ Len(s) \in Nat /\ Len(new) = Len(s) + 1 /\ new[Len(s) + 1] = e
      /\ \A n \in 1..Len(s) : new[n] = s[n]
  OBVIOUS
<1> HIDE DEF new
<1>2. Elements(new) = Elements(s) \cup {e}
  <2>1. \A x : x \in Elements(new) <=> x \in Elements(s) \cup {e}
    BY <1>1 DEF Elements
  <2> QED
    BY <2>1, SetExtensionality
<1>3. Distinct(s) /\ e \notin Elements(s) => Distinct(new)
  BY <1>1 DEF Distinct, Elements
<1> QED
  BY <1>1, <1>2, <1>3 DEF new

\* What is left of a list from k on.
Rest(s, k) == Elements(SubSeq(s, k, Len(s)))

LEMMA RestIs ==
    ASSUME NEW C, NEW s \in Seq(C), NEW k \in 1..Len(s)
    PROVE  \A x : x \in Rest(s, k) <=> \E n \in k..Len(s) : x = s[n]
<1> DEFINE tail == SubSeq(s, k, Len(s))
<1>1. /\ tail \in Seq(C) /\ Len(s) \in Nat /\ Len(tail) = Len(s) - k + 1
      /\ \A n \in 1..Len(s) - k + 1 : tail[n] = s[n + k - 1]
  OBVIOUS
<1>2. DOMAIN tail = 1..Len(s) - k + 1
  BY <1>1
<1> HIDE DEF tail
<1>3. ASSUME NEW x \in Elements(tail) PROVE \E n \in k..Len(s) : x = s[n]
  <2>1. PICK n \in 1..Len(s) - k + 1 : x = tail[n]
    BY <1>2, <1>3 DEF Elements
  <2>2. n + k - 1 \in k..Len(s) /\ x = s[n + k - 1]
    BY <1>1, <2>1
  <2> QED
    BY <2>2
<1>4. ASSUME NEW n \in k..Len(s) PROVE s[n] \in Elements(tail)
  <2>1. n - k + 1 \in 1..Len(s) - k + 1 /\ (n - k + 1) + k - 1 = n
    BY <1>1
  <2>2. tail[n - k + 1] = s[n]
    BY <1>1, <2>1
  <2> QED
    BY <1>2, <2>1, <2>2 DEF Elements
<1> QED
  BY <1>3, <1>4 DEF Rest, tail

LEMMA RestShrinks ==
    ASSUME NEW C, NEW s \in Seq(C), NEW k \in 1..Len(s), Distinct(s)
    PROVE  /\ s[k] \in Rest(s, k) /\ s[k] \in C
           /\ k < Len(s) => Rest(s, k + 1) = Rest(s, k) \ {s[k]}
           /\ ~(k < Len(s)) => Rest(s, k) = {s[k]}
<1>1. Len(s) \in Nat /\ s[k] \in C /\ k \in k..Len(s)
  OBVIOUS
<1>2. s[k] \in Rest(s, k)
  BY <1>1, RestIs
<1>3. ASSUME k < Len(s) PROVE Rest(s, k + 1) = Rest(s, k) \ {s[k]}
  <2>1. k + 1 \in 1..Len(s)
    BY <1>1, <1>3
  <2>2. \A x : x \in Rest(s, k + 1) <=> \E n \in k + 1..Len(s) : x = s[n]
    BY <2>1, RestIs
  <2>3. \A x : x \in Rest(s, k) <=> \E n \in k..Len(s) : x = s[n]
    BY RestIs
  <2>4. k..Len(s) = {k} \cup (k + 1..Len(s))
    BY <1>1
  <2>5. \A n \in k + 1..Len(s) : s[n] # s[k]
    BY <1>1 DEF Distinct
  <2>6. \A x : x \in Rest(s, k + 1) <=> x \in Rest(s, k) \ {s[k]}
    BY <2>2, <2>3, <2>4, <2>5
  <2> QED
    BY <2>6, SetExtensionality
<1>4. ASSUME ~(k < Len(s)) PROVE Rest(s, k) = {s[k]}
  <2>1. k..Len(s) = {k}
    BY <1>1, <1>4
  <2>2. \A x : x \in Rest(s, k) <=> x \in {s[k]}
    BY <2>1, RestIs
  <2> QED
    BY <2>2, SetExtensionality
<1> QED
  BY <1>1, <1>2, <1>3, <1>4

LEMMA RestGrows ==
    ASSUME NEW C, NEW s \in Seq(C), NEW k \in 1..Len(s), NEW e \in C
    PROVE  k \in 1..Len(Append(s, e)) /\ Rest(Append(s, e), k) = Rest(s, k) \cup {e}
<1> DEFINE new == Append(s, e)
<1>1. /\ new \in Seq(C) /\ Len(s) \in Nat /\ Len(new) = Len(s) + 1 /\ new[Len(s) + 1] = e
      /\ \A n \in 1..Len(s) : new[n] = s[n]
  OBVIOUS
<1> HIDE DEF new
<1>2. k \in 1..Len(new) /\ k..Len(new) = (k..Len(s)) \cup {Len(s) + 1}
  BY <1>1
<1>3. \A x : x \in Rest(new, k) <=> \E n \in k..Len(new) : x = new[n]
  BY <1>1, <1>2, RestIs
<1>4. \A x : x \in Rest(s, k) <=> \E n \in k..Len(s) : x = s[n]
  BY RestIs
<1>5. \A n \in k..Len(s) : new[n] = s[n]
  BY <1>1
<1>6. \A x : x \in Rest(new, k) <=> x \in Rest(s, k) \cup {e}
  BY <1>1, <1>2, <1>3, <1>4, <1>5
<1> QED
  BY <1>2, <1>6, SetExtensionality DEF new

LEMMA RestOfAll ==
    ASSUME NEW C, NEW s \in Seq(C), s # <<>>
    PROVE  1 \in 1..Len(s) /\ Rest(s, 1) = Elements(s)
<1>1. 1 \in 1..Len(s)
  OBVIOUS
<1>2. \A x : x \in Rest(s, 1) <=> x \in Elements(s)
  BY <1>1, RestIs DEF Elements
<1> QED
  BY <1>1, <1>2, SetExtensionality

LEMMA RestInside ==
    ASSUME NEW C, NEW s \in Seq(C), NEW k \in 1..Len(s)
    PROVE  Rest(s, k) \subseteq Elements(s) /\ Elements(s) \subseteq C
BY RestIs DEF Elements
-----------------------------------------------------------------------------
\* The broadcast is over, or a list is iterated that has nobody in it twice; who
\* failed is no longer connected.
WalkOK ==
    /\ task # "send" => same /\ replaced = <<>> /\ failed = {}
    /\ Distinct(replaced)
    /\ \A c \in failed : state[c] \in {"gone", "broken", "left"}

\* Before it joins, a client is in no list and was sent nothing.
NewcomersOK ==
    \A c \in Clients : state[c] \in {"new", "accepting"} =>
        c \notin Elements(list) \cup Elements(replaced) /\ got[c] = <<>>

\* A process that is down has no connections.
DownOK ==
    task = "down" => list = <<>> /\ \A c \in Clients : state[c] \in {"new", "left"}

\* A connection that was closed before the tick that is being broadcast is either
\* still to be tried, or has failed.
StaleOK ==
    task = "send" =>
        \A c \in Elements(list) : state[c] # "open" /\ c \notin late => c \in failed \cup Owed

Shape == TypeOK /\ WalkOK /\ NewcomersOK /\ DownOK /\ StaleOK /\ ListFollowsConnections

LEMMA InitShape == Init => Shape
BY BroadcastAssumption
   DEF Init, Shape, TypeOK, WalkOK, NewcomersOK, DownOK, StaleOK, ListFollowsConnections,
       Distinct, Elements, NoOffset, State

\* What a broadcast iterates, and what is left of it.
LEMMA Iterating ==
    ASSUME Shape
    PROVE  /\ Iterated \in Seq(Clients) /\ Distinct(Iterated) /\ Distinct(list)
           /\ Elements(Iterated) \subseteq Elements(list) \cup Elements(replaced)
           /\ Elements(list) \subseteq Clients /\ Elements(replaced) \subseteq Clients
           /\ Owed \subseteq Elements(Iterated) /\ Owed \subseteq Clients
           /\ task = "send" => index \in 1..Len(Iterated) /\ Owed = Rest(Iterated, index)
           /\ task # "send" => Owed = {}
<1>1. list \in Seq(Clients) /\ replaced \in Seq(Clients) /\ Iterated \in Seq(Clients)
  BY DEF Shape, TypeOK, Iterated
<1>2. Distinct(list) /\ Distinct(Iterated)
  <2>1. Distinct(list)
    BY <1>1 DEF Shape, TypeOK, Distinct
  <2> QED
    BY <2>1 DEF Shape, WalkOK, Iterated
<1>3. Elements(Iterated) \subseteq Elements(list) \cup Elements(replaced)
  BY DEF Iterated
<1>4. ASSUME task = "send"
      PROVE  index \in 1..Len(Iterated) /\ Owed = Rest(Iterated, index)
  BY <1>1, <1>4 DEF Shape, TypeOK, Owed, Rest
<1>5. task # "send" => Owed = {}
  BY DEF Owed
<1>6. Owed \subseteq Elements(Iterated) /\ Owed \subseteq Clients
  BY <1>1, <1>4, <1>5, RestInside
<1>7. Elements(list) \subseteq Clients /\ Elements(replaced) \subseteq Clients
  BY <1>1 DEF Elements
<1> QED
  BY <1>1, <1>2, <1>3, <1>4, <1>5, <1>6, <1>7
-----------------------------------------------------------------------------
\* What each step does to the shape, and in the abstract view.

Live == {c \in Clients : state[c] = "open"}

LEMMA SameWalk ==
    ASSUME UNCHANGED <<task, list, walk>>
    PROVE  Owed' = Owed /\ Iterated' = Iterated
BY DEF Owed, Iterated, walk

LEMMA SameView ==
    ASSUME Live' = Live, Owed' = Owed,
           UNCHANGED <<tick, position, committed, missed, resent, got>>
    PROVE  UNCHANGED Contract!vars
BY DEF Contract!vars, Contract!place, Contract!history, Live

\* Where the consumer goes on is a place the feed may return to.
LEMMA FromOffsetReturns ==
    ASSUME Shape, FromOffset
    PROVE  IF committed = Contract!NoMark THEN position' \in Nat /\ position' >= position
                                          ELSE position' = committed
<1>1. ticks \in Nat /\ position \in 0..ticks
  BY BroadcastAssumption DEF Shape, TypeOK
<1> QED
  BY <1>1 DEF FromOffset, NoOffset, Contract!NoMark

LEMMA ConnectSteps ==
    ASSUME Shape, NEW c \in Clients, Connect(c) \/ AcceptFails(c)
    PROVE  Shape' /\ UNCHANGED Contract!vars
<1>1. /\ UNCHANGED <<ticks, committed, position, tick, task, list, same, replaced, index, failed,
                     got, late, missed, resent, stops, rejoins>>
      /\ state[c] \in {"new", "accepting"} /\ (task = "down" => state[c] # "new")
  BY DEF Connect, AcceptFails, kafka, walk, history, bounds
<1>2. /\ state \in [Clients -> State] /\ state' \in [Clients -> State]
      /\ state'[c] \in {"accepting", "left"}
      /\ \A d \in Clients \ {c} : state'[d] = state[d]
  BY DEF Connect, AcceptFails, Become, Shape, TypeOK, State
<1>3. Owed' = Owed /\ Iterated' = Iterated
  BY <1>1, SameWalk DEF walk
<1>4. c \notin Elements(list) /\ got[c] = <<>>
  BY <1>1 DEF Shape, NewcomersOK
<1>5. TypeOK'
  BY <1>1, <1>2, <1>3 DEF Shape, TypeOK
<1>6. WalkOK'
  BY <1>1, <1>2 DEF Shape, WalkOK, TypeOK
<1>7. NewcomersOK'
  BY <1>1, <1>2, <1>4 DEF Shape, NewcomersOK
<1>8. DownOK'
  <2>1. state[c] = "accepting" => state'[c] = "left"
    BY DEF Connect, AcceptFails, Become, Shape, TypeOK
  <2> QED
    BY <1>1, <1>2, <2>1 DEF Shape, DownOK
<1>9. Elements(list) \subseteq Clients
  BY Iterating
<1>10. StaleOK'
  BY <1>1, <1>2, <1>3, <1>4, <1>9 DEF Shape, StaleOK
<1>11. ListFollowsConnections'
  BY <1>1, <1>2, <1>4, <1>9 DEF Shape, ListFollowsConnections
<1>12. Live' = Live
  BY <1>1, <1>2 DEF Live
<1>13. UNCHANGED Contract!vars
  BY <1>1, <1>3, <1>12, SameView
<1> QED
  BY <1>5, <1>6, <1>7, <1>8, <1>10, <1>11, <1>13 DEF Shape

LEMMA SubscribeStep ==
    ASSUME Shape, NEW c \in Clients, Subscribe(c)
    PROVE  Shape' /\ Contract!Join(c)
<1>1. /\ UNCHANGED <<ticks, committed, position, tick, task, same, replaced, index, failed,
                     got, late, missed, resent, stops, rejoins>>
      /\ state[c] = "accepting" /\ list' = Append(list, c)
  BY DEF Subscribe, kafka, walk, history, bounds
<1>2. /\ state \in [Clients -> State] /\ state' \in [Clients -> State] /\ state'[c] = "open"
      /\ \A d \in Clients \ {c} : state'[d] = state[d]
  BY DEF Subscribe, Become, Shape, TypeOK, State
<1>3. list \in Seq(Clients) /\ replaced \in Seq(Clients)
  BY DEF Shape, TypeOK
<1>4. c \notin Elements(list) /\ c \notin Elements(replaced) /\ got[c] = <<>> /\ task # "down"
  BY <1>1 DEF Shape, NewcomersOK, DownOK
<1>5. /\ list' \in Seq(Clients) /\ Elements(list') = Elements(list) \cup {c} /\ Distinct(list')
      /\ Elements(list') \subseteq Clients
  <2>1. Distinct(list) /\ Elements(list) \subseteq Clients
    BY Iterating
  <2> QED
    BY <1>1, <1>3, <1>4, <2>1, AppendAdds
<1>6. /\ Owed' \in {Owed, Owed \cup {c}}
      /\ task = "send" => index \in 1..Len(Iterated')
  <2>1. CASE task = "send" /\ same
    <3>1. Iterated = list /\ Iterated' = Append(list, c) /\ index \in 1..Len(list)
      BY <1>1, <2>1, Iterating DEF Iterated
    <3>2. index \in 1..Len(Append(list, c)) /\ Rest(Append(list, c), index) = Rest(list, index) \cup {c}
      BY <1>3, <3>1, RestGrows
    <3>3. Owed = Rest(list, index) /\ Owed' = Rest(Append(list, c), index)
      BY <1>1, <2>1, <3>1 DEF Owed, Rest
    <3> QED
      BY <3>1, <3>2, <3>3
  <2>2. CASE task = "send" /\ ~same
    <3>1. Iterated' = Iterated
      BY <1>1, <2>2 DEF Iterated
    <3> QED
      BY <1>1, <2>2, <3>1, Iterating DEF Owed
  <2>3. CASE task # "send"
    BY <1>1, <2>3 DEF Owed
  <2> QED
    BY <2>1, <2>2, <2>3
<1>7. TypeOK'
  <2>1. \A m, n \in DOMAIN list' : list'[m] = list'[n] => m = n
    BY <1>5 DEF Distinct
  <2>2. Iterated' \in Seq(Clients)
    BY <1>1, <1>3, <1>5 DEF Iterated
  <2>3. task' = "send" => index' \in DOMAIN Iterated'
    BY <1>1, <1>6, <2>2
  <2> QED
    BY <1>1, <1>2, <1>5, <2>1, <2>3 DEF Shape, TypeOK
<1>8. WalkOK'
  BY <1>1, <1>2 DEF Shape, WalkOK, TypeOK
<1>9. NewcomersOK'
  BY <1>1, <1>2, <1>5 DEF Shape, NewcomersOK
<1>10. DownOK'
  BY <1>1, <1>4 DEF DownOK
<1>11. StaleOK'
  BY <1>1, <1>2, <1>5, <1>6 DEF Shape, StaleOK
<1>12. ListFollowsConnections'
  BY <1>1, <1>2, <1>5 DEF Shape, ListFollowsConnections
<1>13. Contract!Join(c)
  <2>1. c \notin Owed
    BY <1>4, Iterating
  <2>2. Live' = Live \cup {c} /\ c \notin Live
    BY <1>1, <1>2 DEF Live
  <2> QED
    BY <1>1, <1>4, <1>6, <2>1, <2>2 DEF Contract!Join, Contract!place, Contract!history, Live
<1> QED
  BY <1>7, <1>8, <1>9, <1>10, <1>11, <1>12, <1>13 DEF Shape

LEMMA CloseStep ==
    ASSUME Shape, NEW c \in Clients, Disconnect(c) \/ EndpointFails(c)
    PROVE  Shape' /\ Contract!Leave(c)
<1>1. /\ UNCHANGED <<ticks, committed, position, tick, task, list, same, replaced, index, failed,
                     got, missed, resent, stops, rejoins>>
      /\ state[c] = "open" /\ late' = late \cup {c}
  BY DEF Disconnect, EndpointFails, Close, kafka, walk, bounds
<1>2. /\ state \in [Clients -> State] /\ state' \in [Clients -> State]
      /\ state'[c] \in {"gone", "broken"}
      /\ \A d \in Clients \ {c} : state'[d] = state[d]
  BY DEF Disconnect, EndpointFails, Close, Become, Shape, TypeOK, State
<1>3. Owed' = Owed /\ Iterated' = Iterated
  BY <1>1, SameWalk DEF walk
<1>4. Elements(list) \subseteq Clients /\ task # "down"
  BY <1>1, Iterating DEF Shape, DownOK
<1>5. TypeOK'
  BY <1>1, <1>2, <1>3 DEF Shape, TypeOK
<1>6. WalkOK'
  BY <1>1, <1>2 DEF Shape, WalkOK, TypeOK
<1>7. NewcomersOK'
  BY <1>1, <1>2 DEF Shape, NewcomersOK
<1>8. DownOK'
  BY <1>1, <1>4 DEF DownOK
<1>9. StaleOK'
  BY <1>1, <1>2, <1>3, <1>4 DEF Shape, StaleOK
<1>10. ListFollowsConnections'
  BY <1>1, <1>2, <1>4 DEF Shape, ListFollowsConnections
<1>11. Contract!Leave(c)
  <2>1. Live' = Live \ {c} /\ c \in Live
    BY <1>1, <1>2 DEF Live
  <2> QED
    BY <1>1, <1>3, <2>1 DEF Contract!Leave, Contract!place, Contract!history, Live
<1> QED
  BY <1>5, <1>6, <1>7, <1>8, <1>9, <1>10, <1>11 DEF Shape

LEMMA UnsubscribeStep ==
    ASSUME Shape, NEW c \in Clients, Unsubscribe(c)
    PROVE  Shape' /\ UNCHANGED Contract!vars
<1>1. /\ UNCHANGED <<ticks, committed, position, tick, task, index, failed, got, late, missed,
                     resent, stops, rejoins>>
      /\ state[c] = "gone" /\ list' = Without(list, {c})
      /\ IF task = "send" /\ same
            THEN same' = FALSE /\ replaced' = list
            ELSE UNCHANGED <<same, replaced>>
  BY DEF Unsubscribe, Remove, kafka, history, bounds
<1>2. /\ state \in [Clients -> State] /\ state' \in [Clients -> State] /\ state'[c] = "left"
      /\ \A d \in Clients \ {c} : state'[d] = state[d]
  BY DEF Unsubscribe, Become, Shape, TypeOK, State
<1>3. list \in Seq(Clients) /\ replaced \in Seq(Clients)
  BY DEF Shape, TypeOK
<1>4. /\ Distinct(list) /\ Distinct(replaced) /\ Elements(list) \subseteq Clients
  BY Iterating DEF Shape, WalkOK
<1>5. /\ list' \in Seq(Clients) /\ Elements(list') = Elements(list) \ {c} /\ Distinct(list')
  <2>1. PICK s \in Seq(Clients) : s = list
    BY <1>3
  <2> QED
    BY <1>1, <1>4, <2>1, WithoutKeeps
<1>6. replaced' \in Seq(Clients) /\ Distinct(replaced') /\ replaced' \in {replaced, list}
  BY <1>1, <1>3, <1>4
<1>7. Owed' = Owed /\ (task = "send" => Iterated' = Iterated)
  <2>1. task = "send" => Iterated' = Iterated
    BY <1>1 DEF Iterated
  <2> QED
    BY <1>1, <2>1 DEF Owed
<1>8. TypeOK'
  <2>1. \A m, n \in DOMAIN list' : list'[m] = list'[n] => m = n
    BY <1>5 DEF Distinct
  <2>2. same' \in BOOLEAN
    BY <1>1 DEF Shape, TypeOK
  <2> QED
    BY <1>1, <1>2, <1>5, <1>6, <1>7, <2>1, <2>2 DEF Shape, TypeOK
<1>9. WalkOK'
  <2>1. \A d \in failed' : state'[d] \in {"gone", "broken", "left"}
    BY <1>1, <1>2 DEF Shape, WalkOK, TypeOK
  <2>2. task' # "send" => same' /\ replaced' = <<>> /\ failed' = {}
    BY <1>1 DEF Shape, WalkOK
  <2> QED
    BY <1>6, <2>1, <2>2 DEF WalkOK
<1>10. NewcomersOK'
  <2>1. Elements(replaced') \subseteq Elements(list) \cup Elements(replaced)
    BY <1>6
  <2> QED
    BY <1>1, <1>2, <1>5, <2>1 DEF Shape, NewcomersOK
<1>11. DownOK'
  BY <1>1, <1>2 DEF Shape, DownOK
<1>12. StaleOK'
  BY <1>1, <1>2, <1>4, <1>5, <1>7 DEF Shape, StaleOK
<1>13. ListFollowsConnections'
  BY <1>1, <1>2, <1>4, <1>5 DEF Shape, ListFollowsConnections
<1>14. Live' = Live
  BY <1>1, <1>2 DEF Live
<1>15. UNCHANGED Contract!vars
  BY <1>1, <1>7, <1>14, SameView
<1> QED
  BY <1>8, <1>9, <1>10, <1>11, <1>12, <1>13, <1>15 DEF Shape

\* The steps of Kafka and of the consumer in the background leave the broadcast alone.
LEMMA KafkaSteps ==
    ASSUME Shape, Produce \/ AutoCommit \/ Rejoin
    PROVE  Shape' /\ [Contract!Next]_Contract!vars
<1>1. UNCHANGED <<tick, task, list, same, replaced, index, failed, state, got, late, missed, resent,
                  stops>>
  BY DEF Produce, AutoCommit, Rejoin, walk, history, bounds
<1>2. Owed' = Owed /\ Iterated' = Iterated
  BY <1>1, SameWalk DEF walk
<1>3. /\ ticks' \in 0..MaxTicks /\ position' \in 0..ticks' /\ tick \in 0..ticks'
      /\ committed' \in {NoOffset} \cup 0..ticks'
      /\ rejoins' \in 0..MaxRejoins
  <2>1. /\ ticks \in 0..MaxTicks /\ position \in 0..ticks /\ tick \in 0..ticks
        /\ committed \in {NoOffset} \cup 0..ticks /\ rejoins \in 0..MaxRejoins
    BY DEF Shape, TypeOK
  <2>2. CASE Produce
    BY <2>1, <2>2, BroadcastAssumption DEF Produce, bounds, NoOffset
  <2>3. CASE AutoCommit
    BY <2>1, <2>3, BroadcastAssumption DEF AutoCommit, bounds, NoOffset
  <2>4. CASE Rejoin
    BY <2>1, <2>4, BroadcastAssumption DEF Rejoin, FromOffset, NoOffset
  <2> QED
    BY <2>2, <2>3, <2>4
<1>4. TypeOK'
  BY <1>1, <1>2, <1>3 DEF Shape, TypeOK
<1>5. WalkOK' /\ NewcomersOK' /\ DownOK' /\ StaleOK' /\ ListFollowsConnections'
  BY <1>1, <1>2 DEF Shape, WalkOK, NewcomersOK, DownOK, StaleOK, ListFollowsConnections
<1>6. Live' = Live
  BY <1>1 DEF Live
<1>7. CASE Produce
  <2>1. UNCHANGED <<position, committed>>
    BY <1>7 DEF Produce
  <2> QED
    BY <1>1, <1>2, <1>4, <1>5, <1>6, <2>1, SameView DEF Shape
<1>8. CASE AutoCommit
  <2>1. Contract!Mark
    BY <1>1, <1>2, <1>6, <1>8 DEF AutoCommit, Contract!Mark, Contract!history, Live
  <2> QED
    BY <1>4, <1>5, <2>1 DEF Shape, Contract!Next
<1>9. CASE Rejoin
  <2>1. FromOffset /\ committed' = committed
    BY <1>9 DEF Rejoin
  <2>2. Contract!Return
    BY <1>1, <1>2, <1>6, <2>1, FromOffsetReturns DEF Contract!Return, Contract!history, Live
  <2> QED
    BY <1>4, <1>5, <2>2 DEF Shape, Contract!Next
<1> QED
  BY <1>7, <1>8, <1>9

\* A task that fails may commit where it is.
LEMMA TaskFailsStep ==
    ASSUME Shape, TaskFails
    PROVE  Shape' /\ [Contract!Next]_Contract!vars
<1>1. /\ UNCHANGED <<ticks, position, tick, list, same, replaced, index, failed, state, got, late,
                     missed, resent, stops, rejoins>>
      /\ task = "wait" /\ task' = "dead" /\ committed' \in {committed, position}
  BY DEF TaskFails, walk, history, bounds
<1>2. Owed = {} /\ Owed' = {} /\ Live' = Live
  BY <1>1 DEF Owed, Live
<1>3. TypeOK'
  BY <1>1 DEF Shape, TypeOK
<1>4. WalkOK' /\ NewcomersOK' /\ DownOK' /\ StaleOK' /\ ListFollowsConnections'
  BY <1>1 DEF Shape, WalkOK, NewcomersOK, DownOK, StaleOK, ListFollowsConnections
<1>5. CASE committed' = committed
  BY <1>1, <1>2, <1>3, <1>4, <1>5, SameView DEF Shape
<1>6. CASE committed' = position
  <2>1. Contract!Mark
    BY <1>1, <1>2, <1>6 DEF Contract!Mark, Contract!history, Live
  <2> QED
    BY <1>3, <1>4, <2>1 DEF Shape, Contract!Next
<1> QED
  BY <1>1, <1>5, <1>6

LEMMA ReceiveStep ==
    ASSUME Shape, Receive
    PROVE  Shape' /\ Contract!NextTick
<1>1. /\ UNCHANGED <<ticks, committed, list, state, got, stops, rejoins>>
      /\ task = "wait" /\ position < ticks /\ position' = position + 1 /\ tick' = position + 1
      /\ same' = TRUE /\ replaced' = <<>> /\ index' = 1 /\ failed' = {} /\ late' = {}
      /\ IF list = <<>> THEN UNCHANGED task ELSE task' = "send"
      /\ missed' = IF position > tick THEN missed \cup Served ELSE missed
      /\ resent' = IF position < tick THEN resent \cup Served ELSE resent
  BY DEF Receive, FreshWalk, bounds
<1>2. list \in Seq(Clients) /\ Distinct(list) /\ Elements(list) \subseteq Clients /\ Owed = {}
  BY <1>1, Iterating DEF Shape, TypeOK
<1>3. /\ ticks \in 0..MaxTicks /\ position \in 0..ticks /\ position' \in 0..ticks
      /\ tick' \in 0..ticks /\ missed' \subseteq Clients /\ resent' \subseteq Clients
  BY <1>1, BroadcastAssumption DEF Shape, TypeOK, Served
<1>4. Iterated' = list
  BY <1>1 DEF Iterated
<1>5. Owed' = Elements(list) /\ (task' = "send" => 1 \in 1..Len(list))
  <2>1. CASE list = <<>>
    BY <1>1, <2>1 DEF Owed, Elements
  <2>2. CASE list # <<>>
    <3>1. 1 \in 1..Len(list) /\ Rest(list, 1) = Elements(list)
      BY <1>2, <2>2, RestOfAll
    <3> QED
      BY <1>1, <1>4, <2>2, <3>1 DEF Owed, Rest
  <2> QED
    BY <2>1, <2>2
<1>6. TypeOK'
  <2>1. task' \in {"wait", "send"} /\ <<>> \in Seq(Clients)
    BY <1>1
  <2>2. task' = "send" => index' \in DOMAIN Iterated'
    BY <1>1, <1>2, <1>4, <1>5
  <2> QED
    BY <1>1, <1>3, <2>1, <2>2 DEF Shape, TypeOK
<1>7. WalkOK'
  BY <1>1 DEF WalkOK, Distinct
<1>8. NewcomersOK'
  BY <1>1 DEF Shape, NewcomersOK, Elements
<1>9. DownOK'
  BY <1>1 DEF DownOK
<1>10. StaleOK'
  BY <1>1, <1>5 DEF StaleOK
<1>11. ListFollowsConnections'
  BY <1>1, <1>2 DEF Shape, ListFollowsConnections, Elements
<1>12. Contract!NextTick
  <2>1. Live' = Live /\ Live \subseteq Owed' /\ Owed' \subseteq Clients
    BY <1>1, <1>2, <1>5 DEF Live, Shape, ListFollowsConnections
  <2>2. Contract!Served = Served
    BY DEF Contract!Served, Served
  <2> QED
    BY <1>1, <1>2, <2>1, <2>2 DEF Contract!NextTick, Live
<1> QED
  BY <1>6, <1>7, <1>8, <1>9, <1>10, <1>11, <1>12 DEF Shape

LEMMA StopStep ==
    ASSUME Shape, Stop
    PROVE  Shape' /\ Contract!HangUp
<1>1. /\ UNCHANGED <<ticks, position, tick, got, late, missed, resent, rejoins>>
      /\ task' = "down" /\ list' = <<>> /\ stops < MaxStops /\ stops' = stops + 1
      /\ same' = TRUE /\ replaced' = <<>> /\ index' = 1 /\ failed' = {}
      /\ state' = [c \in Clients |-> IF state[c] = "new" THEN "new" ELSE "left"]
      /\ committed' \in {committed, position}
  BY DEF Stop, FreshWalk, history
<1>2. /\ state' \in [Clients -> State]
      /\ \A c \in Clients : state'[c] \in {"new", "left"} /\ (state'[c] = "new" => state[c] = "new")
  BY <1>1 DEF State
<1>3. TypeOK'
  <2>1. stops' \in 0..MaxStops /\ committed' \in {NoOffset} \cup 0..ticks
    BY <1>1, BroadcastAssumption DEF Shape, TypeOK
  <2>2. <<>> \in Seq(Clients) /\ DOMAIN <<>> = {}
    OBVIOUS
  <2> QED
    BY <1>1, <1>2, <2>1, <2>2 DEF Shape, TypeOK
<1>4. WalkOK' /\ StaleOK' /\ DownOK'
  BY <1>1, <1>2 DEF WalkOK, StaleOK, DownOK, Distinct
<1>5. Elements(list') = {} /\ Elements(replaced') = {}
  BY <1>1 DEF Elements
<1>6. NewcomersOK' /\ ListFollowsConnections'
  BY <1>1, <1>2, <1>5 DEF Shape, NewcomersOK, ListFollowsConnections
<1>7. Contract!HangUp
  <2>1. Live' = {} /\ Owed' = {}
    BY <1>1, <1>2 DEF Live, Owed
  <2> QED
    BY <1>1, <2>1 DEF Contract!HangUp, Contract!history, Live
<1> QED
  BY <1>3, <1>4, <1>6, <1>7 DEF Shape

LEMMA StartStep ==
    ASSUME Shape, Start
    PROVE  Shape' /\ Contract!Return
<1>1. /\ UNCHANGED <<ticks, committed, tick, list, same, replaced, index, failed, state, got, late,
                     missed, resent, stops, rejoins>>
      /\ task = "down" /\ task' \in {"wait", "dead"} /\ FromOffset
  BY DEF Start, walk, history, bounds
<1>2. ticks \in Nat /\ position' \in 0..ticks /\ position' \in Nat
  BY <1>1, BroadcastAssumption DEF Shape, TypeOK, FromOffset, NoOffset
<1>3. list = <<>> /\ Elements(list) = {} /\ \A c \in Clients : state[c] \in {"new", "left"}
  BY <1>1 DEF Shape, DownOK, Elements
<1>4. TypeOK'
  BY <1>1, <1>2 DEF Shape, TypeOK
<1>5. WalkOK' /\ StaleOK' /\ DownOK' /\ NewcomersOK'
  BY <1>1 DEF Shape, WalkOK, StaleOK, DownOK, NewcomersOK
<1>6. ListFollowsConnections'
  BY <1>1, <1>3 DEF ListFollowsConnections
<1>7. Contract!Return
  <2>1. Live = {} /\ Live' = {} /\ Owed = {} /\ Owed' = {}
    BY <1>1, <1>3 DEF Live, Owed
  <2> QED
    BY <1>1, <2>1, FromOffsetReturns DEF Contract!Return, Contract!history, Live
<1> QED
  BY <1>4, <1>5, <1>6, <1>7 DEF Shape

\* The connection c that the broadcast has come to was sent the tick, or has failed.
LEMMA AdvanceStep ==
    ASSUME Shape, task = "send", NEW c, c = Iterated[index],
           NEW dead \in {failed, failed \cup {c}}, Advance(dead),
           c \in dead => state[c] \in {"gone", "broken", "left"},
           c \notin dead => state[c] = "open" \/ c \in late,
           UNCHANGED <<kafka, state, late, missed, resent, bounds>>,
           got' \in [Clients -> Seq(Nat)],
           \A d \in Clients \ {c} : got'[d] = got[d]
    PROVE  /\ Shape' /\ Live' = Live
           /\ c \in Owed /\ Owed' = Owed \ {c}
<1>1. UNCHANGED <<ticks, committed, position, tick, state, late, missed, resent, stops, rejoins>>
  BY DEF kafka, bounds
<1>2. /\ Iterated \in Seq(Clients) /\ Distinct(Iterated) /\ index \in 1..Len(Iterated)
      /\ Owed = Rest(Iterated, index) /\ Elements(list) \subseteq Clients /\ Distinct(list)
      /\ Elements(Iterated) \subseteq Elements(list) \cup Elements(replaced)
  BY Iterating
<1>3. /\ c \in Owed /\ c \in Clients
      /\ index < Len(Iterated) => Rest(Iterated, index + 1) = Owed \ {c}
      /\ ~(index < Len(Iterated)) => Owed = {c}
  <2>1. PICK s \in Seq(Clients) : s = Iterated
    BY <1>2
  <2>2. PICK k \in 1..Len(s) : k = index
    BY <1>2, <2>1
  <2> QED
    BY <1>2, <2>1, <2>2, RestShrinks
<1>4. state[c] \notin {"new", "accepting"}
  <2>1. c \in Elements(list) \cup Elements(replaced)
    BY <1>2, <1>3, Iterating
  <2> QED
    BY <1>3, <2>1 DEF Shape, NewcomersOK
<1>5. dead \subseteq Clients /\ \A d \in dead : state[d] \in {"gone", "broken", "left"}
  BY <1>3 DEF Shape, WalkOK, TypeOK
<1>6. \A d \in Elements(list) : state[d] # "open" /\ d \notin late => d \in dead \cup (Owed \ {c})
  BY DEF Shape, StaleOK
<1>7. \A d \in Clients : state[d] \in {"new", "accepting"} => got'[d] = got[d]
  BY <1>4
<1>8. \A d \in Clients : state[d] = "open" => d \in Elements(list)
  BY DEF Shape, ListFollowsConnections
<1>9. Live' = Live
  BY <1>1 DEF Live
<1>10. CASE index < Len(Iterated)
  <2>1. /\ UNCHANGED <<task, list, same, replaced>>
        /\ index' = index + 1 /\ failed' = dead
    BY <1>10 DEF Advance
  <2>2. Iterated' = Iterated
    BY <2>1 DEF Iterated
  <2>3. index' \in 1..Len(Iterated)
    BY <1>2, <1>10, <2>1
  <2>4. Owed' = Owed \ {c}
    BY <1>3, <1>10, <2>1, <2>2 DEF Owed, Rest
  <2>5. TypeOK'
    <3>1. index' \in DOMAIN Iterated'
      BY <1>2, <2>2, <2>3
    <3> QED
      BY <1>1, <1>5, <2>1, <3>1 DEF Shape, TypeOK
  <2>6. WalkOK'
    BY <1>1, <1>5, <2>1 DEF Shape, WalkOK
  <2>7. NewcomersOK'
    BY <1>1, <1>7, <2>1 DEF Shape, NewcomersOK
  <2>8. DownOK'
    BY <2>1 DEF DownOK
  <2>9. StaleOK'
    BY <1>1, <1>6, <2>1, <2>4 DEF StaleOK
  <2>10. ListFollowsConnections'
    BY <1>1, <1>8, <2>1 DEF ListFollowsConnections
  <2> QED
    BY <1>3, <1>9, <2>4, <2>5, <2>6, <2>7, <2>8, <2>9, <2>10 DEF Shape
<1>11. CASE ~(index < Len(Iterated))
  <2>1. /\ task' = "wait" /\ list' = Without(list, dead)
        /\ same' = TRUE /\ replaced' = <<>> /\ index' = 1 /\ failed' = {}
    BY <1>11 DEF Advance, FreshWalk
  <2>2. /\ list' \in Seq(Clients) /\ Elements(list') = Elements(list) \ dead /\ Distinct(list')
    <3>1. PICK s \in Seq(Clients) : s = list
      BY DEF Shape, TypeOK
    <3> QED
      BY <1>2, <2>1, <3>1, WithoutKeeps
  <2>3. Owed' = Owed \ {c}
    BY <1>3, <1>11, <2>1 DEF Owed
  <2>4. TypeOK'
    <3>1. \A m, n \in DOMAIN list' : list'[m] = list'[n] => m = n
      <4>1. DOMAIN list' = 1..Len(list')
        BY <2>2
      <4> QED
        BY <2>2, <4>1, Zenon DEF Distinct
    <3>2. <<>> \in Seq(Clients)
      OBVIOUS
    <3> QED
      BY <1>1, <2>1, <2>2, <3>1, <3>2 DEF Shape, TypeOK
  <2>5. WalkOK' /\ DownOK' /\ StaleOK'
    BY <2>1 DEF WalkOK, DownOK, StaleOK, Distinct
  <2>6. NewcomersOK'
    <3>1. Elements(replaced') = {}
      BY <2>1 DEF Elements
    <3> QED
      BY <1>1, <1>7, <2>2, <3>1 DEF Shape, NewcomersOK
  <2>7. ListFollowsConnections'
    <3>1. \A d \in Clients : state[d] = "open" => d \in Elements(list')
      BY <1>5, <1>8, <2>2
    <3>2. ASSUME NEW d \in Elements(list'), state[d] # "open" PROVE d \in late
      <4>1. d \in Elements(list) /\ d \notin dead
        BY <2>2, <3>2
      <4> QED
        BY <1>3, <1>6, <1>11, <3>2, <4>1
    <3> QED
      BY <1>1, <3>1, <3>2 DEF ListFollowsConnections
  <2> QED
    BY <1>3, <1>9, <2>3, <2>4, <2>5, <2>6, <2>7 DEF Shape
<1> QED
  BY <1>10, <1>11

LEMMA SendReturnsStep ==
    ASSUME Shape, SendReturns
    PROVE  Shape' /\ \E c \in Clients : Contract!Deliver(c)
<1>1. task = "send" /\ Iterated \in Seq(Clients) /\ index \in 1..Len(Iterated)
  BY Iterating DEF SendReturns
<1>2. PICK c \in Clients : c = Iterated[index]
  BY <1>1
<1>3. /\ state[c] = "open" \/ c \in late
      /\ got' = [got EXCEPT ![c] = Append(@, tick)]
      /\ Advance(failed) /\ UNCHANGED <<kafka, state, late, missed, resent, bounds>>
  BY <1>2 DEF SendReturns
<1>4. tick \in Nat /\ got \in [Clients -> Seq(Nat)]
  BY BroadcastAssumption DEF Shape, TypeOK
<1>5. got' \in [Clients -> Seq(Nat)] /\ \A d \in Clients \ {c} : got'[d] = got[d]
  <2>1. Append(got[c], tick) \in Seq(Nat)
    BY <1>4
  <2> QED
    BY <1>3, <1>4, <2>1
<1>6. c \in failed => state[c] \in {"gone", "broken", "left"}
  BY DEF Shape, WalkOK
<1>8. Shape' /\ Live' = Live /\ c \in Owed /\ Owed' = Owed \ {c}
  BY <1>1, <1>2, <1>3, <1>5, <1>6, AdvanceStep
<1>9. Contract!Deliver(c)
  BY <1>3, <1>8 DEF Contract!Deliver, Contract!place, Live, kafka
<1> QED
  BY <1>8, <1>9

LEMMA SendRaisesStep ==
    ASSUME Shape, SendRaises
    PROVE  Shape' /\ \E c \in Clients : Contract!GiveUp(c)
<1>1. task = "send" /\ Iterated \in Seq(Clients) /\ index \in 1..Len(Iterated)
  BY Iterating DEF SendRaises
<1>2. PICK c \in Clients : c = Iterated[index]
  BY <1>1
<1>3. /\ state[c] # "open"
      /\ Advance(failed \cup {c}) /\ UNCHANGED <<kafka, state, got, late, missed, resent, bounds>>
  BY <1>2 DEF SendRaises, history
<1>4. got' \in [Clients -> Seq(Nat)] /\ \A d \in Clients \ {c} : got'[d] = got[d]
  BY <1>3 DEF Shape, TypeOK
<1>5. state[c] \in {"gone", "broken", "left"}
  <2>1. c \in Elements(Iterated)
    BY <1>1, <1>2 DEF Elements
  <2>2. state[c] \notin {"new", "accepting"} /\ state[c] \in State
    BY <2>1, Iterating DEF Shape, NewcomersOK, TypeOK
  <2> QED
    BY <1>3, <2>2 DEF State
<1>6. Shape' /\ Live' = Live /\ c \in Owed /\ Owed' = Owed \ {c}
  <2>1. PICK dead \in {failed, failed \cup {c}} : dead = failed \cup {c}
    OBVIOUS
  <2> QED
    BY <1>1, <1>2, <1>3, <1>4, <1>5, <2>1, AdvanceStep
<1>7. Contract!GiveUp(c)
  BY <1>3, <1>6 DEF Contract!GiveUp, Contract!place, Contract!history, Live, kafka
<1> QED
  BY <1>6, <1>7
-----------------------------------------------------------------------------
LEMMA StepShape ==
    ASSUME Shape, [Next]_vars
    PROVE  Shape' /\ [Contract!Next]_Contract!vars
<1>2. ASSUME NEW c \in Clients,
             Connect(c) \/ AcceptFails(c) \/ Subscribe(c) \/ Disconnect(c) \/ EndpointFails(c)
                \/ Unsubscribe(c)
      PROVE  Shape' /\ [Contract!Next]_Contract!vars
  <2>1. CASE Connect(c) \/ AcceptFails(c)
    BY <2>1, ConnectSteps
  <2>2. CASE Subscribe(c)
    BY <2>2, SubscribeStep DEF Contract!Next
  <2>3. CASE Disconnect(c) \/ EndpointFails(c)
    BY <2>3, CloseStep DEF Contract!Next
  <2>4. CASE Unsubscribe(c)
    BY <2>4, UnsubscribeStep
  <2> QED
    BY <1>2, <2>1, <2>2, <2>3, <2>4
<1>3. CASE Produce \/ AutoCommit \/ Rejoin
  BY <1>3, KafkaSteps
<1>4. CASE Receive
  BY <1>4, ReceiveStep DEF Contract!Next
<1>5. CASE SendReturns
  BY <1>5, SendReturnsStep DEF Contract!Next
<1>6. CASE SendRaises
  BY <1>6, SendRaisesStep DEF Contract!Next
<1>7. CASE Stop
  BY <1>7, StopStep DEF Contract!Next
<1>8. CASE Start
  BY <1>8, StartStep DEF Contract!Next
<1>10. CASE TaskFails
  BY <1>10, TaskFailsStep
<1>9. CASE UNCHANGED vars
  <2>1. UNCHANGED <<ticks, committed, position, tick, task, list, same, replaced, index, failed,
                    state, got, late, missed, resent, stops, rejoins>>
    BY <1>9 DEF vars, kafka, walk, history, bounds
  <2>2. Owed' = Owed /\ Iterated' = Iterated /\ Live' = Live
    BY <2>1 DEF Owed, Iterated, Live
  <2>3. Shape'
    BY <2>1, <2>2 DEF Shape, TypeOK, WalkOK, NewcomersOK, DownOK, StaleOK, ListFollowsConnections
  <2> QED
    BY <2>1, <2>2, <2>3, SameView
<1> QED
  BY <1>2, <1>3, <1>4, <1>5, <1>6, <1>7, <1>8, <1>9, <1>10 DEF Next, TaskStep

\* No client is in the list twice, and a broadcast never runs over the end of the list it
\* iterates, whoever subscribes or leaves in the meantime (ConnectionManager.broadcast).
THEOREM BroadcastTypes == Spec => []TypeOK
<1>1. Shape => TypeOK
  BY DEF Shape
<1> QED
  BY <1>1, InitShape, StepShape, PTL DEF Spec

\* Every connected client is in the list, and who left, or broke, is out of it when the next
\* tick was broadcast (ConnectionManager.subscribe, unsubscribe and broadcast).
THEOREM ListFollows == Spec => []ListFollowsConnections
<1>1. Shape => ListFollowsConnections
  BY DEF Shape
<1> QED
  BY <1>1, InitShape, StepShape, PTL DEF Spec

\* The broadcaster implements the feed: a list that changes while it is iterated makes it
\* skip no connected client (ConnectionManager.broadcast), and a rejoin or a restart takes
\* the feed back to the committed offset, or forward if there is none (start_broadcaster).
THEOREM BroadcastImplementsFeed == Spec => ImplementsFeed
<1>1. Init => Contract!Init
  BY DEF Init, Contract!Init, Owed, NoOffset, Contract!NoMark
<1> QED
  BY <1>1, InitShape, StepShape, PTL DEF Spec, ImplementsFeed, Contract!Spec
-----------------------------------------------------------------------------
\* What the feed is worth.  NoGaps, of one client:
NoGapsOf(c) ==
    /\ c \notin missed => \A n \in 1..Len(got[c]) - 1 : got[c][n + 1] <= got[c][n] + 1
    /\ c \notin resent => \A n \in 1..Len(got[c]) - 1 : got[c][n + 1] >= got[c][n] + 1
    /\ got[c] # <<>> /\ c \notin Owed => got[c][Len(got[c])] = tick
    /\ got[c] # <<>> /\ c \notin missed => tick <= got[c][Len(got[c])] + 1
    /\ got[c] # <<>> /\ c \in Owed \ resent => tick >= got[c][Len(got[c])] + 1

LEMMA NoGapsEach == Contract!NoGaps <=> \A c \in Live : NoGapsOf(c)
BY Zenon DEF Contract!NoGaps, Live, NoGapsOf

\* The tick that is delivered is the one after the last, unless the client is marked.
LEMMA DeliverNext ==
    ASSUME Shape, NEW c \in Clients, NoGapsOf(c), Contract!Deliver(c)
    PROVE  NoGapsOf(c)'
<1> DEFINE s == got[c]
           t == got'[c]
<1>1. /\ s \in Seq(Nat) /\ tick \in Nat /\ t = Append(s, tick) /\ tick' = tick
      /\ c \in Owed /\ c \notin Owed' /\ missed' = missed /\ resent' = resent
  BY BroadcastAssumption DEF Shape, TypeOK, Contract!Deliver, Contract!place
<1>2. /\ Len(s) \in Nat /\ Len(t) = Len(s) + 1 /\ t[Len(s) + 1] = tick
      /\ \A n \in 1..Len(s) : t[n] = s[n] /\ s[n] \in Nat
  BY <1>1
<1>3. Len(s) > 0 => /\ c \notin missed => tick <= s[Len(s)] + 1
                    /\ c \notin resent => tick >= s[Len(s)] + 1
  <2>1. Len(s) > 0 => s # <<>>
    BY <1>1
  <2> QED
    BY <1>1, <2>1 DEF NoGapsOf
<1>4. /\ c \notin missed => \A n \in 1..Len(s) - 1 : s[n + 1] <= s[n] + 1
      /\ c \notin resent => \A n \in 1..Len(s) - 1 : s[n + 1] >= s[n] + 1
  BY DEF NoGapsOf
<1> HIDE DEF s, t
<1>5. ASSUME NEW n \in 1..Len(t) - 1
      PROVE  /\ c \notin missed => t[n + 1] <= t[n] + 1
             /\ c \notin resent => t[n + 1] >= t[n] + 1
  <2>1. CASE n = Len(s)
    BY <1>1, <1>2, <1>3, <2>1
  <2>2. CASE n < Len(s)
    <3>1. n \in 1..Len(s) - 1 /\ n \in 1..Len(s) /\ n + 1 \in 1..Len(s)
      BY <1>2, <2>2
    <3>2. t[n + 1] = s[n + 1] /\ t[n] = s[n]
      BY <1>2, <3>1
    <3> QED
      BY <1>4, <3>1, <3>2
  <2> QED
    BY <1>2, <2>1, <2>2
<1>6. t[Len(t)] = tick /\ tick <= tick + 1
  BY <1>1, <1>2
<1> QED
  BY <1>1, <1>5, <1>6 DEF NoGapsOf, t

LEMMA FeedStepKeepsNoGaps ==
    ASSUME Shape, Contract!NoGaps, [Contract!Next]_Contract!vars
    PROVE  Contract!NoGaps'
<1> USE DEF Contract!place, Contract!history
<1> SUFFICES ASSUME NEW c \in Clients, state'[c] = "open" PROVE NoGapsOf(c)'
  <2> SUFFICES \A c \in Live' : NoGapsOf(c)'
    BY Zenon DEF Contract!NoGaps, Live, NoGapsOf
  <2> QED
    BY Zenon DEF Live
<1>1. state[c] = "open" => NoGapsOf(c)
  BY NoGapsEach DEF Live
<1>2. position \in Nat /\ tick \in Nat /\ got \in [Clients -> Seq(Nat)]
  BY BroadcastAssumption DEF Shape, TypeOK
<1>3. ASSUME NEW d \in Clients, Contract!Join(d) PROVE NoGapsOf(c)'
  <2>1. CASE c = d
    <3>1. got'[c] = <<>>
      BY <1>3, <2>1 DEF Contract!Join
    <3> QED
      BY <3>1 DEF NoGapsOf
  <2>2. CASE c # d
    <3>1. state[c] = "open" /\ (c \in Owed' <=> c \in Owed) /\ UNCHANGED <<tick, missed, resent, got>>
      BY <1>3, <2>2 DEF Contract!Join
    <3> QED
      BY <1>1, <3>1, Zenon DEF NoGapsOf
  <2> QED
    BY <2>1, <2>2
<1>4. ASSUME NEW d \in Clients, Contract!Leave(d) \/ Contract!GiveUp(d) PROVE NoGapsOf(c)'
  <2>1. state[c] = "open" /\ (c \in Owed' <=> c \in Owed) /\ UNCHANGED <<tick, missed, resent, got>>
    BY <1>4 DEF Contract!Leave, Contract!GiveUp
  <2> QED
    BY <1>1, <2>1, Zenon DEF NoGapsOf
<1>5. ASSUME NEW d \in Clients, Contract!Deliver(d) PROVE NoGapsOf(c)'
  <2>1. state[c] = "open"
    BY <1>5 DEF Contract!Deliver
  <2>2. CASE c = d
    BY <1>1, <1>5, <2>1, <2>2, DeliverNext
  <2>3. CASE c # d
    <3>1. got'[c] = got[c] /\ (c \in Owed' <=> c \in Owed) /\ UNCHANGED <<tick, missed, resent>>
      BY <1>2, <1>5, <2>3 DEF Contract!Deliver
    <3> QED
      BY <1>1, <2>1, <3>1, Zenon DEF NoGapsOf
  <2> QED
    BY <2>2, <2>3
<1>6. CASE Contract!NextTick
  <2>1. /\ state[c] = "open" /\ c \notin Owed /\ c \in Owed' /\ got' = got
        /\ tick' = position + 1
    BY <1>6 DEF Contract!NextTick
  <2>2. got[c] # <<>> => c \in Contract!Served
    BY <2>1 DEF Contract!Served
  <2>3. missed \subseteq missed' /\ resent \subseteq resent'
    BY <1>6 DEF Contract!NextTick
  <2>4. got[c] # <<>> => /\ c \notin missed' => ~(position > tick)
                         /\ c \notin resent' => ~(position < tick)
    BY <1>6, <2>2 DEF Contract!NextTick
  <2>5. got[c] # <<>> => got[c][Len(got[c])] = tick
    BY <1>1, <2>1 DEF NoGapsOf
  <2>6. got[c] # <<>> => /\ c \notin missed' => tick' <= got[c][Len(got[c])] + 1
                         /\ c \notin resent' => tick' >= got[c][Len(got[c])] + 1
    BY <1>2, <2>1, <2>4, <2>5
  <2> QED
    BY <1>1, <2>1, <2>3, <2>6 DEF NoGapsOf
<1>7. CASE Contract!Mark \/ Contract!Return
  <2>1. state[c] = "open" /\ Owed' = Owed /\ UNCHANGED <<tick, missed, resent, got>>
    BY <1>7 DEF Contract!Mark, Contract!Return
  <2> QED
    BY <1>1, <2>1, Zenon DEF NoGapsOf
<1>8. CASE Contract!HangUp
  BY <1>8 DEF Contract!HangUp
<1>9. CASE UNCHANGED Contract!vars
  <2>1. state[c] = "open" /\ Owed' = Owed /\ UNCHANGED <<tick, missed, resent, got>>
    BY <1>9 DEF Contract!vars
  <2> QED
    BY <1>1, <2>1, Zenon DEF NoGapsOf
<1> QED
  BY <1>3, <1>4, <1>5, <1>6, <1>7, <1>8, <1>9 DEF Contract!Next

\* Without a rejoin, the task goes on where it was for everybody it has sent a tick.
Steady ==
    rejoins = 0 =>
        /\ missed = {} /\ resent = {}
        /\ position = tick \/ Served = {}
        /\ task = "send" => position = tick

LEMMA StepSteady ==
    ASSUME Shape, Steady, [Next]_vars
    PROVE  Steady'
<1> SUFFICES ASSUME rejoins' = 0 PROVE Steady'
  BY DEF Steady
<1> USE DEF kafka, walk, history, bounds
<1>1. ASSUME NEW c \in Clients,
             Connect(c) \/ AcceptFails(c) \/ Subscribe(c) \/ Disconnect(c) \/ EndpointFails(c)
                \/ Unsubscribe(c)
      PROVE  Steady'
  <2>1. UNCHANGED <<position, tick, task, missed, resent, got, rejoins>>
    BY <1>1 DEF Connect, AcceptFails, Subscribe, Disconnect, EndpointFails, Close, Unsubscribe
  <2>2. state[c] = "accepting" => got[c] = <<>>
    BY DEF Shape, NewcomersOK
  <2>3. \A d \in Clients : state'[d] = "open" => state[d] = "open" \/ (d = c /\ state[c] = "accepting")
    BY <1>1 DEF Connect, AcceptFails, Subscribe, Disconnect, EndpointFails, Close, Unsubscribe,
                Become, Shape, TypeOK
  <2>4. Served' \subseteq Served
    BY <2>1, <2>2, <2>3 DEF Served
  <2> QED
    BY <2>1, <2>4 DEF Steady
<1>2. CASE Produce \/ AutoCommit
  <2>1. UNCHANGED <<position, tick, task, missed, resent, got, state, rejoins>>
    BY <1>2 DEF Produce, AutoCommit
  <2>2. Served' = Served
    BY <2>1 DEF Served
  <2> QED
    BY <2>1, <2>2 DEF Steady
<1>3. CASE Rejoin
  <2>1. rejoins \in 0..MaxRejoins /\ rejoins' = rejoins + 1
    BY <1>3 DEF Rejoin, Shape, TypeOK
  <2>2. rejoins + 1 # 0
    BY <2>1, BroadcastAssumption
  <2> QED
    BY <2>1, <2>2
<1>4. CASE Receive
  <2>1. position \in Nat /\ tick \in Nat
    BY BroadcastAssumption DEF Shape, TypeOK
  <2>2. rejoins = 0 /\ position' = tick'
    BY <1>4 DEF Receive
  <2>3. missed' = missed /\ resent' = resent
    <3>1. CASE position = tick
      BY <1>4, <2>1, <3>1 DEF Receive
    <3>2. CASE Served = {}
      BY <1>4, <3>2 DEF Receive
    <3> QED
      BY <2>2, <3>1, <3>2 DEF Steady
  <2> QED
    BY <2>2, <2>3 DEF Steady
<1>5. CASE SendReturns \/ SendRaises
  <2>1. task = "send" /\ UNCHANGED <<position, tick, missed, resent, rejoins>>
    BY <1>5 DEF SendReturns, SendRaises
  <2> QED
    BY <2>1 DEF Steady
<1>6. CASE TaskFails
  <2>1. task' = "dead" /\ UNCHANGED <<position, tick, missed, resent, got, state, rejoins>>
    BY <1>6 DEF TaskFails
  <2>2. Served' = Served
    BY <2>1 DEF Served
  <2> QED
    BY <2>1, <2>2 DEF Steady
<1>7. CASE Stop
  <2>1. task' = "down" /\ UNCHANGED <<missed, resent, rejoins>>
    BY <1>7 DEF Stop
  <2>2. Served' = {}
    BY <1>7 DEF Stop, Served
  <2> QED
    BY <2>1, <2>2 DEF Steady
<1>8. CASE Start
  <2>1. task' # "send" /\ UNCHANGED <<missed, resent, state, got, rejoins>> /\ task = "down"
    BY <1>8 DEF Start
  <2>2. Served' = {}
    BY <2>1 DEF Served, Shape, DownOK
  <2> QED
    BY <2>1, <2>2 DEF Steady
<1>9. CASE UNCHANGED vars
  <2>1. Served' = Served
    BY <1>9 DEF vars, Served
  <2> QED
    BY <1>9, <2>1 DEF vars, Steady
<1> QED
  BY <1>1, <1>2, <1>3, <1>4, <1>5, <1>6, <1>7, <1>8, <1>9 DEF Next, TaskStep

\* While a client is connected, no tick is missing between those it was sent, unless the group
\* has joined again without an offset since; none came twice or out of order, unless the group
\* has gone back to its offset; what it was sent reaches up to the current tick or, if it is
\* still to be sent that, the one before; and without a rejoin nobody is excepted
\* (ConnectionManager.broadcast, start_broadcaster).
THEOREM ClientsMissNoTick ==
    Spec => [](Contract!NoGaps /\ (rejoins = 0 => missed = {} /\ resent = {}))
<1>1. Init => Contract!NoGaps /\ Steady
  BY DEF Init, Contract!NoGaps, Steady, Served
<1>2. Shape /\ Contract!NoGaps /\ [Next]_vars => Contract!NoGaps'
  BY StepShape, FeedStepKeepsNoGaps
<1>3. Shape /\ Steady /\ [Next]_vars => Steady'
  BY StepSteady
<1>4. Shape /\ [Next]_vars => Shape'
  BY StepShape
<1>5. Contract!NoGaps /\ Steady => Contract!NoGaps /\ (rejoins = 0 => missed = {} /\ resent = {})
  BY DEF Steady
<1> QED
  BY <1>1, <1>2, <1>3, <1>4, <1>5, InitShape, PTL DEF Spec
=============================================================================
