---------------------------- MODULE BoundedQueue ----------------------------
(***************************************************************************)
(* What a single-clock FIFO promises to the blocks on its two ports: a     *)
(* queue of at most Capacity words.  Per clock the write port may append a *)
(* word, which is dropped when the queue is full, the read port may remove *)
(* the oldest word, which does nothing when the queue is empty, and a      *)
(* synchronous clear discards everything and wins over both.               *)
(***************************************************************************)
EXTENDS Naturals, Sequences

CONSTANTS Data,      \* the words
          Capacity   \* number of entries

VARIABLE queue       \* oldest word first

Init == queue = << >>

Clear == queue' = << >>

Accept(d) == /\ Len(queue) < Capacity
             /\ queue' = Append(queue, d)

Remove == /\ queue /= << >>
          /\ queue' = Tail(queue)

AcceptAndRemove(d) == /\ queue /= << >>
                      /\ Len(queue) < Capacity
                      /\ queue' = Append(Tail(queue), d)

Next == \/ Clear
        \/ Remove
        \/ \E d \in Data : Accept(d) \/ AcceptAndRemove(d)

Spec == Init /\ [][Next]_queue

=============================================================================
