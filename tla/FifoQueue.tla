----------------------------- MODULE FifoQueue -----------------------------
(***************************************************************************)
(* What ThreadSafeQueue promises its callers: push adds one item at the    *)
(* end, GetFrontAndPop hands the oldest item to exactly one caller.  No    *)
(* mutex, condition variable or intermediate copy is visible here.         *)
(***************************************************************************)
EXTENDS Sequences

CONSTANTS Consumers,  \* threads that call GetFrontAndPop
          Items,      \* values of the queue's element type T
          None        \* "this consumer holds no item"; not one of Items

VARIABLES queue,  \* the items pushed and not yet handed out, oldest first
          held    \* held[c]: the item c took and has not yet returned with

vars == <<queue, held>>

TypeOK == /\ queue \in Seq(Items)
          /\ held \in [Consumers -> Items \cup {None}]

Init == /\ queue = <<>>
        /\ held = [c \in Consumers |-> None]

\* push(x) takes effect.
Put(x) == /\ queue' = Append(queue, x)
          /\ UNCHANGED held

\* The oldest item leaves the queue and belongs to c alone.
Get(c) == /\ queue # <<>>
          /\ held[c] = None
          /\ held' = [held EXCEPT ![c] = Head(queue)]
          /\ queue' = Tail(queue)

\* GetFrontAndPop returns to c's caller.
Return(c) == /\ held[c] # None
             /\ held' = [held EXCEPT ![c] = None]
             /\ UNCHANGED queue

Next == \/ \E x \in Items : Put(x)
        \/ \E c \in Consumers : Get(c) \/ Return(c)

Spec == Init /\ [][Next]_vars
=============================================================================
