----------------------------- MODULE PairStore ------------------------------
(***************************************************************************)
(* What installing an output pair promises: the database and its report    *)
(* change together, to a newer build, in one step; a crash keeps the pair  *)
(* or, before it was persisted, falls back to the one before; nothing ever *)
(* takes a persisted pair away.                                            *)
(***************************************************************************)
EXTENDS Integers

CONSTANT Generations   \* builds, numbers of which a newer one is larger

VARIABLES pair,   \* generations of the database and of the report
          left    \* the pairs a crash may leave

Whole(g) == <<g, g>>

Init == \E g \in Generations : pair = Whole(g) /\ left = {pair}

\* Where a crash keeps what was written there is nothing to fall back to.
Publish ==
  \E g \in Generations :
    /\ g > pair[1]
    /\ pair' = Whole(g)
    /\ left' \in {left \cup {pair'}, {pair'}}

Persist == left' = {pair} /\ UNCHANGED pair

Crash == pair' \in left /\ left' = {pair'}

Next == Publish \/ Persist \/ Crash

Spec == Init /\ [][Next]_<<pair, left>>
=============================================================================
