------------------------------- MODULE Looper -------------------------------
(***************************************************************************)
(* The message queue of android::Looper as the power HAL uses it: the      *)
(* monitor thread (PowerHintMonitor::threadLoop) polls it for ever, the    *)
(* hint sessions and their stale handlers post to it.  The library itself  *)
(* is not part of this repository.                                         *)
(*                                                                         *)
(* An envelope names the handler it is for and the time left until it is   *)
(* due.  The queue is ordered by due time, and among equals by arrival, so *)
(* a message posted "now" goes behind everything that is already due.      *)
(***************************************************************************)
EXTENDS Naturals, Sequences, FiniteSets

Envelope(to, left) == [to |-> to, left |-> left]

\* Looper::sendMessageDelayed (sendMessage is a delay of zero).
SendMessageDelayed(q, to, delay) ==
  LET before == Cardinality({i \in DOMAIN q : q[i].left <= delay})
  IN  [i \in 1 .. Len(q) + 1 |-> IF i <= before THEN q[i]
                                 ELSE IF i = before + 1 THEN Envelope(to, delay)
                                 ELSE q[i - 1]]

SendMessage(q, to) == SendMessageDelayed(q, to, 0)

\* The place of position i among the positions that are kept.
Place(kept, i) == Cardinality({j \in kept : j <= i})

\* Looper::removeMessages: every envelope for this handler leaves the queue,
\* the others close up.
RemoveMessages(q, to) ==
  LET kept == {i \in DOMAIN q : q[i].to # to}
  IN  [k \in 1 .. Cardinality(kept) |-> q[CHOOSE i \in kept : Place(kept, i) = k]]

\* Looper::pollOnce hands out the first envelope once it is due.
IsDue(q) == q # <<>> /\ Head(q).left = 0

\* One clock tick seen from the queue.
Elapse(q) == [i \in DOMAIN q |->
                [q[i] EXCEPT !.left = IF @ = 0 THEN 0 ELSE @ - 1]]

\* How many envelopes are waiting for a handler.
Waiting(q, to) == Cardinality({i \in DOMAIN q : q[i].to = to})
=============================================================================
