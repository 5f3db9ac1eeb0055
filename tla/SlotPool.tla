------------------------------ MODULE SlotPool ------------------------------
(***************************************************************************)
(* What the life-sign manager promises about thread slots, with no mention *)
(* of free lists, thread-local storage or segment headers: every slot has  *)
(* at most one owner, a thread owns at most one slot, and a slot passes    *)
(* from one thread to another only by being given back first.              *)
(***************************************************************************)

CONSTANTS Thread, Slot, NoThread

VARIABLE owner

Owns(t) == \E s \in Slot : owner[s] = t

Init == owner = [s \in Slot |-> NoThread]

Acquire(t) ==
  /\ ~Owns(t)
  /\ \E s \in Slot :
       /\ owner[s] = NoThread
       /\ owner' = [owner EXCEPT ![s] = t]

Release(t) ==
  \E s \in Slot :
    /\ owner[s] = t
    /\ owner' = [owner EXCEPT ![s] = NoThread]

Next == \E t \in Thread : Acquire(t) \/ Release(t)

Spec == Init /\ [][Next]_owner

=============================================================================
