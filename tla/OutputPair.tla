----------------------------- MODULE OutputPair -----------------------------
(***************************************************************************)
(* The command cmd/processor publishes two files that belong together: a   *)
(* SQLite database and the JSON source report that explains its contents.  *)
(* A file system replaces one name atomically, never two, so the command   *)
(* runs an installation protocol over five names of one directory: the two *)
(* live files, a last-known-good backup of each, and a marker that says an *)
(* installation is under way.  This module is that protocol, with the      *)
(* recovery that every run starts with, the rollback, and the failures it  *)
(* is built for: a killed process, a power loss and a failing system call. *)
(* A presence test is a call that fails in a way of its own: fileExists    *)
(* takes every failing stat for a file that is not there.                  *)
(*                                                                         *)
(* The contents of a file are fsynced before it gets its name, so a name   *)
(* is abstracted to the generation of the build it holds.                  *)
(***************************************************************************)
EXTENDS Integers, FiniteSets, DurableDir

CONSTANTS MaxBuilds,    \* bound: rebuilds that reach the installation
          MaxCrashes,   \* bound: kills and power losses together
          Regimes       \* what may go wrong: kills, power losses, failing presence
                        \* tests (stats) and failing calls of any other kind (faults)

ASSUME OutputPairAssumption ==
  /\ MaxBuilds \in Nat
  /\ MaxCrashes \in Nat
  /\ Regimes \subseteq [kill : BOOLEAN, powerLoss : BOOLEAN, faults : Nat, stats : Nat]

VARIABLES pc,        \* the next system call of the running command
          job,       \* the routine it runs for
          base,      \* the live pair when the installation began
          existed,   \* databaseExists: whether the installation saw an old pair
          built,     \* generation of the last finished rebuild
          acked,     \* generation of the last installation that returned nil
          regime,    \* what may go wrong in this behaviour
          faults, missed, crashes   \* failed calls, failed presence tests, crashes

vars == <<dir, durable, pc, job, base, existed, built, acked, regime, faults, missed, crashes>>
history == <<base, existed, built, acked, regime>>

None == 0
Live == {"db", "report"}
Backups == {"dbBackup", "reportBackup"}
Entries == Live \cup Backups \cup {"marker"}
Generations == 0 .. MaxBuilds + 1

Labels == {"down", "recover", "build", "precheck", "backupDb", "backupReport",
           "syncBackups", "mark", "syncMarker", "abortMarker", "abortDb",
           "abortReport", "abortFirst", "swapDb", "swapReport", "removeDb", "removeReport",
           "restoreDb", "restoreReport", "syncLive", "unmark", "syncUnmark",
           "dropDb", "dropReport", "syncDrop"}
Jobs == {"recover", "sweep", "install", "rollback"}

TypeOK ==
  /\ dir \in [Entries -> Generations]
  /\ durable \in [Entries -> SUBSET Generations]
  /\ pc \in Labels
  /\ job \in Jobs
  /\ base \in [Live -> Generations]
  /\ existed \in BOOLEAN
  /\ built \in 1 .. MaxBuilds + 1
  /\ acked \in Generations
  /\ regime \in Regimes
  /\ faults \in 0 .. regime.faults
  /\ missed \in 0 .. regime.stats
  /\ crashes \in 0 .. MaxCrashes

-----------------------------------------------------------------------------
Has(e) == dir[e] # None
Present == {e \in Entries : Has(e)}

\* The presence tests that fail among those of the entries ts.  A failing test
\* answers that the file is not there, so those of absent files do not count.
Overlooked(ts) == {m \in SUBSET ts : missed + Cardinality(m) <= regime.stats}
Overlook(m) == missed' = missed + Cardinality(m)

\* The directories the next command may find.
Disks == IF regime.powerLoss THEN Possible ELSE {dir}

\* A system call other than a presence test fails without an effect.
Fault ==
  /\ faults < regime.faults
  /\ faults' = faults + 1
  /\ UNCHANGED files

\* An error is returned to the caller and the command exits.
Return == pc' = "down" /\ UNCHANGED job

\* After the marker is durable an installation answers an error by rolling back.
ReturnOrRollBack ==
  IF job = "install" THEN pc' = "removeDb" /\ job' = "rollback" ELSE Return

Goto(label) == pc' = label /\ UNCHANGED job

\* A file is created exclusively: an entry that is there is an error as well.
Create(e, g) == ~Has(e) /\ Write(e, g) /\ UNCHANGED faults
CreateFails(e) == IF Has(e) THEN UNCHANGED <<files, faults>> ELSE Fault

\* The calls whose error the code discards: the program goes on either way.
RemoveIgnoringErrors(e) ==
  \/ Write(e, None) /\ UNCHANGED faults
  \/ Fault

-----------------------------------------------------------------------------
Init ==
  \E g \in {None, 1} :
    /\ dir = [e \in Entries |-> IF e \in Live THEN g ELSE None]
    /\ durable = [e \in Entries |-> {dir[e]}]
    /\ pc = "down" /\ job = "recover"
    /\ base = [e \in Live |-> g] /\ existed = (g # None) /\ built = 1 /\ acked = g
    /\ regime \in Regimes
    /\ faults = 0 /\ missed = 0 /\ crashes = 0

Start ==
  /\ pc = "down"
  /\ pc' = "recover" /\ job' = "recover"
  /\ UNCHANGED <<files, history, faults, missed, crashes>>

\* What recovery sees when it overlooks the entries m.
Sees(e, m) == Has(e) /\ e \notin m
SeesLive(m) == \A e \in Live : Sees(e, m)

\* The two errors recovery reports without having met a failing call.
StuckWithoutMarker == ~Has("marker") /\ (\E e \in Backups : Has(e)) /\ ~SeesLive({})
StuckWithOneBackup == Has("marker") /\ Has("dbBackup") # Has("reportBackup") /\ ~SeesLive({})

RecoverUnmarked(m) ==
  /\ ~Sees("marker", m)
  /\ job' = "sweep"
  /\ pc' = IF \A e \in Backups : ~Sees(e, m) THEN "build"
            ELSE IF SeesLive(m) THEN "dropDb" ELSE "down"

\* Slip: recovery treats every marker as that of a fresh installation.
RecoverMarkedDiscards(m) ==
  Sees("marker", m) /\ pc' = "removeDb" /\ UNCHANGED job

\* Slip: recovery refuses a directory with a marker and leaves it as it is.
RecoverMarkedRefuses(m) ==
  Sees("marker", m) /\ pc' = "down" /\ UNCHANGED job

\* A marker that was seen is looked at a second time; there a failing stat is an
\* error like any other.
RecoverMarked(m) ==
  /\ Sees("marker", m)
  /\ UNCHANGED job
  /\ pc' = IF "markerAgain" \in m THEN "down"
            ELSE IF Sees("dbBackup", m) # Sees("reportBackup", m)
                   THEN IF SeesLive(m) THEN "syncLive" ELSE "down"
                   ELSE IF Sees("dbBackup", m) THEN "restoreDb" ELSE "removeDb"

Recover ==
  /\ pc = "recover"
  /\ \E m \in Overlooked(Present \cup {"markerAgain"}) :
       Overlook(m) /\ (RecoverUnmarked(m) \/ RecoverMarked(m))
  /\ UNCHANGED <<files, history, faults, crashes>>

\* Loading, partitioning, building and staging the new pair, or failing to.
Build ==
  /\ pc = "build"
  /\ \/ built <= MaxBuilds /\ built' = built + 1 /\ pc' = "precheck"
     \/ pc' = "down" /\ UNCHANGED built
  /\ UNCHANGED <<files, job, base, existed, acked, regime, faults, missed, crashes>>

\* A directory that looks used or incomplete is refused.
Precheck ==
  /\ pc = "precheck"
  /\ base' = [e \in Live |-> dir[e]]
  /\ job' = "install"
  /\ \E m \in Overlooked(Present) :
       /\ Overlook(m)
       /\ existed' = Sees("db", m)
       /\ pc' = IF \/ \E e \in Backups \cup {"marker"} : Sees(e, m)
                   \/ Sees("db", m) # Sees("report", m)
                  THEN "down"
                  ELSE IF Sees("db", m) THEN "backupDb" ELSE "mark"
  /\ UNCHANGED <<files, built, acked, regime, faults, crashes>>

BackupDb ==
  /\ pc = "backupDb"
  /\ \/ Create("dbBackup", dir["db"]) /\ Goto("backupReport")
     \/ CreateFails("dbBackup") /\ Return
  /\ UNCHANGED <<history, missed, crashes>>

BackupReport ==
  /\ pc = "backupReport"
  /\ \/ Create("reportBackup", dir["report"]) /\ Goto("syncBackups")
     \/ CreateFails("reportBackup") /\ Goto("abortFirst")
  /\ UNCHANGED <<history, missed, crashes>>

SyncBackups ==
  /\ pc = "syncBackups"
  /\ \/ SyncDirectory /\ Goto("mark") /\ UNCHANGED faults
     \/ Fault /\ Goto("abortDb")
  /\ UNCHANGED <<history, missed, crashes>>

\* Slip: the live files are replaced without a marker.
MarkSkipped ==
  /\ pc = "mark" /\ Goto("swapDb")
  /\ UNCHANGED <<files, history, faults, missed, crashes>>

Mark ==
  /\ pc = "mark"
  /\ \/ Create("marker", built) /\ Goto("syncMarker")
     \/ CreateFails("marker") /\ Goto("abortDb")
  /\ UNCHANGED <<history, missed, crashes>>

\* The fsync of the marker, its close and the fsync of the directory.
SyncMarker ==
  /\ pc = "syncMarker"
  /\ \/ SyncDirectory /\ Goto("swapDb") /\ UNCHANGED faults
     \/ Fault /\ Goto("abortMarker")
  /\ UNCHANGED <<history, missed, crashes>>

\* Giving up before the live pair was touched, one discarded error at a time.
Abort ==
  /\ \/ pc = "abortMarker" /\ RemoveIgnoringErrors("marker") /\ Goto("abortDb")
     \/ pc = "abortDb" /\ RemoveIgnoringErrors("dbBackup") /\ Goto("abortReport")
     \/ pc = "abortFirst" /\ RemoveIgnoringErrors("dbBackup") /\ Return
     \/ pc = "abortReport" /\ RemoveIgnoringErrors("reportBackup") /\ Return
  /\ UNCHANGED <<history, missed, crashes>>

SwapDb ==
  /\ pc = "swapDb"
  /\ \/ Write("db", built) /\ Goto("swapReport") /\ UNCHANGED faults
     \/ Fault /\ ReturnOrRollBack
  /\ UNCHANGED <<history, missed, crashes>>

SwapReport ==
  /\ pc = "swapReport"
  /\ \/ Write("report", built) /\ Goto("syncLive") /\ UNCHANGED faults
     \/ Fault /\ ReturnOrRollBack
  /\ UNCHANGED <<history, missed, crashes>>

\* Both recovery (a marker without backups) and rollback remove the live pair.
RemoveDb ==
  /\ pc = "removeDb"
  /\ \/ Write("db", None) /\ Goto("removeReport") /\ UNCHANGED faults
     \/ Fault /\ Return
  /\ UNCHANGED <<history, missed, crashes>>

\* Slip: a rollback takes every installation for a fresh one.
RemoveReportForgetsOld ==
  /\ pc = "removeReport"
  /\ Write("report", None) /\ Goto("syncLive")
  /\ UNCHANGED <<history, faults, missed, crashes>>

RemoveReport ==
  /\ pc = "removeReport"
  /\ \/ /\ Write("report", None)
        /\ Goto(IF job = "rollback" /\ existed THEN "restoreDb" ELSE "syncLive")
        /\ UNCHANGED faults
     \/ Fault /\ Return
  /\ UNCHANGED <<history, missed, crashes>>

\* A copy of the backup is renamed over the live name; the backup stays.  There
\* is no alternative for a missing backup: the open would fail, and that it never
\* has to is what the deadlock check of the runs shows.
RestoreDb ==
  /\ pc = "restoreDb"
  /\ \/ /\ Has("dbBackup")
        /\ Write("db", dir["dbBackup"]) /\ Goto("restoreReport") /\ UNCHANGED faults
     \/ Fault /\ Return
  /\ UNCHANGED <<history, missed, crashes>>

\* Recovery, not rollback, looks whether both files came back.
RestoreReport ==
  /\ pc = "restoreReport"
  /\ \/ /\ Has("reportBackup")
        /\ Write("report", dir["reportBackup"]) /\ UNCHANGED faults
        /\ \E m \in Overlooked(IF job = "recover" THEN Live ELSE {}) :
             Overlook(m) /\ IF m = {} THEN Goto("syncLive") ELSE Return
     \/ Fault /\ Return /\ UNCHANGED missed
  /\ UNCHANGED <<history, crashes>>

\* Slip: the marker is removed before the live pair is durable.
SyncLiveSkipped ==
  /\ pc = "syncLive" /\ Goto("unmark")
  /\ UNCHANGED <<files, history, faults, missed, crashes>>

\* The fsync of the live pair and, in an installation, the check that both files
\* are there.
SyncLive ==
  /\ pc = "syncLive"
  /\ \/ /\ SyncDirectory /\ UNCHANGED faults
        /\ \E m \in Overlooked(IF job = "install" THEN Live ELSE {}) :
             Overlook(m) /\ IF m = {} THEN Goto("unmark") ELSE ReturnOrRollBack
     \/ Fault /\ ReturnOrRollBack /\ UNCHANGED missed
  /\ UNCHANGED <<history, crashes>>

\* Removing the marker acknowledges the pair that is live.
Unmark ==
  /\ pc = "unmark"
  /\ \/ Write("marker", None) /\ Goto("syncUnmark") /\ UNCHANGED faults
     \/ Fault /\ ReturnOrRollBack
  /\ UNCHANGED <<history, missed, crashes>>

SyncUnmark ==
  /\ pc = "syncUnmark"
  /\ \/ SyncDirectory /\ Goto("dropDb") /\ UNCHANGED faults
     \/ Fault /\ Return
  /\ UNCHANGED <<history, missed, crashes>>

\* Recovery of an unmarked directory returns without an fsync; every other job
\* fsyncs its clean-up.
DropBackups ==
  /\ \/ pc = "dropDb" /\ RemoveIgnoringErrors("dbBackup") /\ Goto("dropReport")
     \/ /\ pc = "dropReport" /\ RemoveIgnoringErrors("reportBackup")
        /\ Goto(IF job = "sweep" THEN "build" ELSE "syncDrop")
  /\ UNCHANGED <<history, missed, crashes>>

SyncDrop ==
  /\ pc = "syncDrop"
  /\ \/ /\ SyncDirectory /\ UNCHANGED <<faults, job>>
        /\ pc' = IF job = "recover" THEN "build" ELSE "down"
        /\ acked' = IF job = "install" THEN built ELSE acked
     \/ Fault /\ Return /\ UNCHANGED acked
  /\ UNCHANGED <<base, existed, built, regime, missed, crashes>>
-----------------------------------------------------------------------------
Kill ==
  /\ regime.kill /\ crashes < MaxCrashes /\ pc # "down"
  /\ crashes' = crashes + 1
  /\ pc' = "down" /\ UNCHANGED job
  /\ UNCHANGED <<files, history, faults, missed>>

PowerLoss ==
  /\ regime.powerLoss /\ crashes < MaxCrashes
  /\ crashes' = crashes + 1
  /\ LosePower
  /\ pc' = "down" /\ UNCHANGED job
  /\ UNCHANGED <<history, faults, missed>>

RecoverStep ==
  \/ Start \/ Recover \/ RemoveDb \/ RemoveReport \/ RestoreDb \/ RestoreReport
  \/ SyncLive \/ Unmark \/ SyncUnmark \/ DropBackups \/ SyncDrop

InstallStep ==
  \/ Build \/ Precheck \/ BackupDb \/ BackupReport \/ SyncBackups \/ Mark
  \/ SyncMarker \/ Abort \/ SwapDb \/ SwapReport

Next == RecoverStep \/ InstallStep \/ Kill \/ PowerLoss

Spec == Init /\ [][Next]_vars

\* A started command keeps running and somebody runs the command again after a
\* failure; neither is obliged to crash or to fail.
FairSpec == Spec /\ WF_vars(RecoverStep) /\ WF_vars(InstallStep)

-----------------------------------------------------------------------------
\* Whatever was killed, lost or failed, a directory without a marker never holds
\* a database next to the report of another build: neither the directory
\* processes see nor any directory a power loss could leave behind.
UnmarkedPairWhole ==
  \A d \in Disks : d["marker"] = None => d["db"] = d["report"]

\* "A failed rebuild therefore cannot destroy a previously verified database":
\* an unmarked pair is at least as new as the last acknowledged one, so it is
\* neither missing nor rolled back behind an acknowledgement.
VerifiedPairKept ==
  dir["marker"] = None => dir["db"] >= acked /\ dir["report"] >= acked

\* Recovery never meets a directory it refuses: stale backups without a complete
\* live pair, or a marker with one backup and an incomplete live pair.
RecoveryNeverStuck ==
  pc = "recover" => ~StuckWithoutMarker /\ ~StuckWithOneBackup

\* A rollback that reached its clean-up has put back the pair that was live when
\* the installation began, and nothing a power loss leaves can undo that.
RollbackRestores ==
  job = "rollback" /\ pc \in {"unmark", "syncUnmark", "dropDb", "dropReport", "syncDrop"} =>
    \A d \in Disks : \A e \in Live : d[e] = base[e]

\* What recovery makes of a directory, without a failure: the pair it ends with.
Outcome(d) ==
  IF d["marker"] = None \/ (d["dbBackup"] = None) # (d["reportBackup"] = None)
  THEN <<d["db"], d["report"]>>
  ELSE <<d["dbBackup"], d["reportBackup"]>>

\* The protocol implements a store that replaces the pair as one value: the pair
\* is what recovery would make of the directory, and what a crash may leave is
\* what it would make of the directories the next command may find.
Store == INSTANCE PairStore WITH pair <- Outcome(dir),
                                 left <- {Outcome(d) : d \in Disks}
ImplementsStore == Store!Spec

\* An interrupted installation does not stay interrupted: a marker is removed
\* again once the crashes and failures stop and the command is run.
InterruptionResolved == Has("marker") ~> ~Has("marker")
=============================================================================
