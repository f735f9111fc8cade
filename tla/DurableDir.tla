----------------------------- MODULE DurableDir -----------------------------
(***************************************************************************)
(* A directory on a machine that may lose power.  Processes see every      *)
(* change of a name at once; the disk has it for certain only after the    *)
(* directory was synced.  Until then each name may come back with any of   *)
(* the values it had since the last sync, independently of the others.     *)
(* cmd/processor states this failure in a comment (a durable marker plus   *)
(* only one backup, although the marker was removed first) and both        *)
(* installers order their syncs by it.                                     *)
(***************************************************************************)
VARIABLES dir,       \* what each name holds, as processes see it
          durable    \* the values each name may hold after a power loss

files == <<dir, durable>>

Names == DOMAIN dir

\* The directories a power loss may leave behind.
Possible ==
  {d \in [Names -> UNION {durable[n] : n \in Names}] : \A n \in Names : d[n] \in durable[n]}

\* Creating, renaming over or removing a name is visible at once and durable later.
Write(n, v) ==
  /\ dir' = [dir EXCEPT ![n] = v]
  /\ durable' = [durable EXCEPT ![n] = @ \cup {v}]

SyncDirectory ==
  /\ durable' = [n \in Names |-> {dir[n]}]
  /\ UNCHANGED dir

LosePower ==
  /\ dir' \in Possible
  /\ durable' = [n \in Names |-> {dir'[n]}]
=============================================================================
