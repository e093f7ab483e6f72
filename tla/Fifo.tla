-------------------------------- MODULE Fifo --------------------------------
(***************************************************************************)
(* What the ring buffer promises to a producer and a consumer: a bounded   *)
(* first-in first-out queue.  The producer's elements are numbered by      *)
(* their place in its stream, so an element that is lost, duplicated,      *)
(* reordered or overwritten is one that has the wrong number.              *)
(***************************************************************************)
EXTENDS Naturals, Sequences

CONSTANT Capacity      \* the most elements the queue may hold

VARIABLES
  queue,       \* the elements put and not yet taken, oldest first
  sent,        \* how many elements the producer has put
  producing,   \* the producer has not closed its side
  consuming    \* the consumer has not closed its side

fifoVars == <<queue, sent, producing, consuming>>

Init ==
  /\ queue = << >>
  /\ sent = 0
  /\ producing = TRUE
  /\ consuming = TRUE

(* The producer puts its next n elements, in one step. *)
Put(n) ==
  /\ producing
  /\ Len(queue) + n <= Capacity
  /\ queue' = queue \o [i \in 1 .. n |-> sent + i]
  /\ sent' = sent + n
  /\ UNCHANGED <<producing, consuming>>

(* The consumer takes the n oldest elements, in one step. *)
Take(n) ==
  /\ consuming
  /\ n <= Len(queue)
  /\ queue' = SubSeq(queue, n + 1, Len(queue))
  /\ UNCHANGED <<sent, producing, consuming>>

CloseProducer ==
  /\ producing
  /\ producing' = FALSE
  /\ UNCHANGED <<queue, sent, consuming>>

CloseConsumer ==
  /\ consuming
  /\ consuming' = FALSE
  /\ UNCHANGED <<queue, sent, producing>>

Next ==
  \/ \E n \in 1 .. Capacity : Put(n) \/ Take(n)
  \/ CloseProducer
  \/ CloseConsumer

Spec == Init /\ [][Next]_fifoVars
=============================================================================
