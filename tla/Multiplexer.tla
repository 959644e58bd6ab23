---------------------------- MODULE Multiplexer ----------------------------
(***************************************************************************)
(* The input multiplexer of the confirmation UI server: the queues of      *)
(* common/libs/concurrency/thread_safe_queue.h, read in the order of their *)
(* indices through common/libs/concurrency/multiplexer.h, and the          *)
(* semaphore of semaphore.h on which the one consumer sleeps.              *)
(*                                                                         *)
(* Push() is two steps, the queue's under the queue's lock and the         *)
(* semaphore's under its own, with the other threads in between.  The      *)
(* capacity of the semaphore (30000) is out of reach of its producers and  *)
(* is left out.                                                            *)
(***************************************************************************)
EXTENDS Naturals, Sequences

CONSTANTS
  NumQueues,     \* queues registered with RegisterQueue()
  max_elements   \* capacity of each queue; a full one ignores the new item

ASSUME QueuesAssumption == NumQueues \in Nat \ {0}
ASSUME CapacityAssumption == max_elements \in Nat \ {0}

VARIABLES
  queues_,   \* index -> the items of the queue
  count_     \* Semaphore::count_ of sem_items_

muxVars == <<queues_, count_>>

QueueIdx == 0 .. NumQueues - 1

MuxInit ==
  /\ queues_ = [idx \in QueueIdx |-> <<>>]
  /\ count_ = 0

HasRoom(idx) == Len(queues_[idx]) < max_elements

\* ThreadSafeQueue::Push() on queue idx, whose result Multiplexer ignores.
QueuePush(idx, item) ==
  queues_' = IF HasRoom(idx) THEN [queues_ EXCEPT ![idx] = Append(@, item)]
                             ELSE queues_

\* Mutant: a binary semaphore, which forgets a post nobody waited for.
SemPostBinary == count_' = 1

SemPost == count_' = count_ + 1

Filled == {idx \in QueueIdx : queues_[idx] # <<>>}

\* The default selector: the first queue that is not empty.
Selected(idx) == idx \in Filled /\ \A other \in Filled : idx <= other

\* Mutant: Pop() of a queue that has an item, without SemWait().
PopWithoutWait(idx) ==
  /\ Selected(idx)
  /\ count_' = count_ - 1
  /\ queues_' = [queues_ EXCEPT ![idx] = Tail(@)]

\* Pop() of the head of queue idx.
PopFrom(idx) ==
  /\ count_ > 0
  /\ Selected(idx)
  /\ count_' = count_ - 1
  /\ queues_' = [queues_ EXCEPT ![idx] = Tail(@)]

\* Pop() finds no item: the selector returns -1 and CheckIdx() aborts.
PopNothing ==
  /\ count_ > 0
  /\ Filled = {}
=============================================================================
