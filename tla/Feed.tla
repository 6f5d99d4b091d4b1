-------------------------------- MODULE Feed --------------------------------
(***************************************************************************)
(* What a WebSocket client of a symbol may rely on, without lists, indices *)
(* or tasks: the ticks come one at a time, and the next one comes only     *)
(* when nobody is owed the current one.  Where the feed is in the topic is *)
(* written down now and then.  The feed may go back to the place that was  *)
(* written down, and sends again what came after it; before anything was   *)
(* written down it may only pass over ticks.  Broadcast is shown to        *)
(* implement this.                                                         *)
(***************************************************************************)
EXTENDS Integers, Sequences

CONSTANT Clients

VARIABLES
    live,      \* the connected clients
    owed,      \* who is still to be sent the current tick
    tick,      \* the current tick
    position,  \* the place in the topic: the next tick is position + 1
    mark,      \* the place that was written down last, or NoMark
    missed,    \* clients for which ticks were passed over (history)
    resent,    \* clients for which the feed went back (history)
    got        \* [Clients -> Seq(Nat)]: the ticks each was sent, in order

place == <<tick, position, mark>>
history == <<missed, resent, got>>
vars == <<live, owed, place, history>>

NoMark == -1

Init ==
    /\ live = {} /\ owed = {}
    /\ tick = 0 /\ position = 0 /\ mark = NoMark
    /\ missed = {} /\ resent = {}
    /\ got = [c \in Clients |-> <<>>]

\* Whoever joins during a tick may still get it, or begins with the next.
Join(c) ==
    /\ c \notin live \cup owed /\ got[c] = <<>>
    /\ live' = live \cup {c}
    /\ owed' \in {owed, owed \cup {c}}
    /\ UNCHANGED <<place, history>>

\* Whoever leaves may be sent the current tick, and the next, before it is noticed.
Leave(c) ==
    /\ c \in live
    /\ live' = live \ {c}
    /\ UNCHANGED <<owed, place, history>>

Served == {c \in live : got[c] # <<>>}

\* The next tick is owed to everybody who is connected.
NextTick ==
    /\ owed = {}
    /\ tick' = position + 1 /\ position' = position + 1
    /\ missed' = IF position > tick THEN missed \cup Served ELSE missed
    /\ resent' = IF position < tick THEN resent \cup Served ELSE resent
    /\ live \subseteq owed' /\ owed' \subseteq Clients
    /\ UNCHANGED <<live, mark, got>>

Deliver(c) ==
    /\ c \in owed
    /\ owed' = owed \ {c}
    /\ got' = [got EXCEPT ![c] = Append(@, tick)]
    /\ UNCHANGED <<live, place, missed, resent>>

GiveUp(c) ==
    /\ c \in owed \ live
    /\ owed' = owed \ {c}
    /\ UNCHANGED <<live, place, history>>

\* The place in the topic is written down, ...
Mark ==
    /\ mark' = position
    /\ UNCHANGED <<live, owed, tick, position, history>>

\* ... and returned to, while clients are connected or after all are gone.
Return ==
    /\ IF mark = NoMark THEN position' \in Nat /\ position' >= position
                        ELSE position' = mark
    /\ UNCHANGED <<live, owed, tick, mark, history>>

\* The service ends, and may write down where.
HangUp ==
    /\ live' = {} /\ owed' = {}
    /\ mark' \in {mark, position}
    /\ UNCHANGED <<tick, position, history>>

Next ==
    \/ \E c \in Clients : Join(c) \/ Leave(c) \/ Deliver(c) \/ GiveUp(c)
    \/ NextTick \/ Mark \/ Return \/ HangUp

Spec == Init /\ [][Next]_vars
-----------------------------------------------------------------------------
\* What the contract is worth to a client while it is connected: it misses nothing
\* between two ticks it is sent unless ticks were passed over for it, it is sent
\* nothing twice or out of order unless the feed went back, and what it was sent
\* reaches up to the current tick or, if it is still owed that, up to the one before.
NoGaps ==
    \A c \in live :
        LET s == got[c]
            Last == s[Len(s)]
        IN  /\ c \notin missed => \A n \in 1..Len(s) - 1 : s[n + 1] <= s[n] + 1
            /\ c \notin resent => \A n \in 1..Len(s) - 1 : s[n + 1] >= s[n] + 1
            /\ s # <<>> /\ c \notin owed => Last = tick
            /\ s # <<>> /\ c \notin missed => tick <= Last + 1
            /\ s # <<>> /\ c \in owed \ resent => tick >= Last + 1
=============================================================================
