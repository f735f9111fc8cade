---------------------------- MODULE TokenBuckets ----------------------------
(***************************************************************************)
(* What a rate limiter promises: every client has one bucket for ever,     *)
(* which holds Capacity units, gains Rate of them with every tick of the   *)
(* clock and pays Cost for an admitted request.  A request is admitted     *)
(* exactly if the bucket can pay for it, whatever other clients do.  There *)
(* is one more bucket, which clients may be made to share.                 *)
(***************************************************************************)
EXTENDS Integers

CONSTANTS Clients, Capacity, Rate, Cost

VARIABLES level,    \* of each client's own bucket
          shared,   \* of the shared bucket
          answer    \* the last decision: who asked, which bucket paid, and whether it could

Refill(l) == IF l + Rate < Capacity THEN l + Rate ELSE Capacity
Pay(l) == IF l >= Cost THEN l - Cost ELSE l

Nothing == [client |-> "none", own |-> FALSE, admitted |-> FALSE]

Init ==
  /\ level = [c \in Clients |-> Capacity]
  /\ shared = Capacity
  /\ answer = Nothing

Tick ==
  /\ level' = [c \in Clients |-> Refill(level[c])]
  /\ shared' = Refill(shared)
  /\ UNCHANGED answer

DecideOwn(c) ==
  /\ level' = [level EXCEPT ![c] = Pay(@)]
  /\ answer' = [client |-> c, own |-> TRUE, admitted |-> level[c] >= Cost]
  /\ UNCHANGED shared

DecideShared(c) ==
  /\ shared' = Pay(shared)
  /\ answer' = [client |-> c, own |-> FALSE, admitted |-> shared >= Cost]
  /\ UNCHANGED level

Next == Tick \/ \E c \in Clients : DecideOwn(c) \/ DecideShared(c)

Spec == Init /\ [][Next]_<<level, shared, answer>>
=============================================================================
