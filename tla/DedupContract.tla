--------------------------- MODULE DedupContract ---------------------------
(***************************************************************************)
(* What the Redis deduplication of the Kafka consumers promises, without   *)
(* topics, offsets, retries or crashes: an event is worked on only by a    *)
(* consumer that found no mark for it, and every mark that is taken buys   *)
(* at most one outcome.  ConsumerLoop is shown to implement this.          *)
(***************************************************************************)
EXTENDS Sequences

CONSTANTS Consumers,  \* the consumer processes that share the marks
          Ids         \* raw_response_id values

VARIABLES marked,     \* [Ids -> BOOLEAN]: a "processed:<id>" key exists
          open,       \* [Ids -> SUBSET Consumers]: claims still being worked on
          outcomes    \* [Ids -> Seq(Outcome)]: what was done, in order

Outcome == Consumers \X {"processed", "dlq"}

vars == <<marked, open, outcomes>>

Init ==
    /\ marked = [i \in Ids |-> FALSE]
    /\ open = [i \in Ids |-> {}]
    /\ outcomes = [i \in Ids |-> <<>>]

\* A consumer marks an unmarked event and becomes entitled to one outcome.
Claim(c, i) ==
    /\ ~marked[i]
    /\ marked' = [marked EXCEPT ![i] = TRUE]
    /\ open' = [open EXCEPT ![i] = @ \cup {c}]
    /\ UNCHANGED outcomes

\* The mark is taken but the answer never reaches the consumer.
ClaimUnanswered(i) ==
    /\ ~marked[i]
    /\ marked' = [marked EXCEPT ![i] = TRUE]
    /\ UNCHANGED <<open, outcomes>>

\* The one outcome a claim is good for.
Complete(c, i, kind) ==
    /\ c \in open[i]
    /\ open' = [open EXCEPT ![i] = @ \ {c}]
    /\ outcomes' = [outcomes EXCEPT ![i] = Append(@, <<c, kind>>)]
    /\ UNCHANGED marked

\* A claim ends without an outcome: the event is lost to this consumer.
Abandon(c, i) ==
    /\ c \in open[i]
    /\ open' = [open EXCEPT ![i] = @ \ {c}]
    /\ UNCHANGED <<marked, outcomes>>

\* The mark disappears: its time to live ran out, or Redis lost it.
Forget(i) ==
    /\ marked[i]
    /\ marked' = [marked EXCEPT ![i] = FALSE]
    /\ UNCHANGED <<open, outcomes>>

Next == \E i \in Ids :
    \/ ClaimUnanswered(i)
    \/ Forget(i)
    \/ \E c \in Consumers :
          \/ Claim(c, i)
          \/ Abandon(c, i)
          \/ \E kind \in {"processed", "dlq"} : Complete(c, i, kind)

Spec == Init /\ [][Next]_vars
=============================================================================
