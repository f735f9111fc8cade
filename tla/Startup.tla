------------------------------ MODULE Startup -------------------------------
(***************************************************************************)
(* scripts/startup.sh, the entry point of the container.  It keeps two     *)
(* files that belong together on the data volume, a SQLite database and    *)
(* the release manifest with its checksum; updates them to the configured  *)
(* release when it can be reached; and then becomes the API server.        *)
(*                                                                         *)
(* The script is run again by the container's restart policy whenever it   *)
(* exits.  It may be killed at any point, it may get a TERM, on which the  *)
(* shell deletes the temporary files and goes on with the next command,    *)
(* commands may fail, and the machine may lose power.                      *)
(*                                                                         *)
(* A file is abstracted to the release it belongs to.  Staged contents are *)
(* flushed by the sync before the first rename, so files are whole.        *)
(***************************************************************************)
EXTENDS Integers, Sequences, DurableDir

CONSTANTS Releases,     \* bound: number of releases
          MaxCrashes,   \* bound: kills, TERMs and power losses together
          Regimes       \* what may go wrong

ASSUME StartupAssumption ==
  /\ Releases \in Nat \ {0}
  /\ MaxCrashes \in Nat
  /\ Regimes \subseteq
       [kill : BOOLEAN, signal : BOOLEAN, powerLoss : BOOLEAN, faults : Nat]

VARIABLES pc,           \* the next command of the script
          job,          \* what it runs for
          rest,         \* the names an rm still has to remove
          localValid,   \* the script's local_valid
          remote,       \* the release whose manifest was fetched
          staged,       \* which of the two staged files exist
          held,         \* the release the last check found, or installed
          regime, faults, crashes

vars == <<dir, durable, pc, job, rest, localValid, remote, staged, held, regime, faults, crashes>>
progress == <<localValid, remote, staged, held, regime>>

None == 0
Junk == -1              \* a file that fails validation
Versions == 1 .. Releases
Live == {"db", "manifest"}
Backups == {"dbBackup", "manifestBackup"}
Entries == Live \cup Backups \cup {"marker"}

Labels == {"down", "recover", "local", "fetch", "keep", "stage", "backupDb",
           "backupManifest", "mark", "syncMark", "swapDb", "swapManifest", "verify",
           "restoreDb", "restoreManifest", "unmark", "syncUnmark", "remove", "serving"}
Jobs == {"idle", "sweep", "finish", "recover", "giveUp", "discard", "stale", "abort",
         "install", "rollback"}

TypeOK ==
  /\ dir \in [Entries -> Versions \cup {None, Junk}]
  /\ durable \in [Entries -> SUBSET (Versions \cup {None, Junk})]
  /\ pc \in Labels
  /\ job \in Jobs
  /\ rest \in Seq(Entries) /\ Len(rest) <= 3
  /\ localValid \in BOOLEAN
  /\ remote \in Versions \cup {None}
  /\ staged \subseteq Live
  /\ held \in Versions \cup {None}
  /\ regime \in Regimes
  /\ faults \in 0 .. regime.faults
  /\ crashes \in 0 .. MaxCrashes

-----------------------------------------------------------------------------
Has(e) == dir[e] # None

\* validate_database and database_matches_manifest together.
Verified(db, manifest) == db \in Versions /\ db = manifest
LiveVerified == Verified(dir["db"], dir["manifest"])
BackupVerified == Verified(dir["dbBackup"], dir["manifestBackup"])

Disks == IF regime.powerLoss THEN Possible ELSE {dir}

\* A command fails without an effect.
CountFault == faults < regime.faults /\ faults' = faults + 1
Fault == CountFault /\ UNCHANGED files

\* What a check answers: the truth, or no because a read failed.
Answers(truth, answer) ==
  \/ answer = truth /\ UNCHANGED faults
  \/ truth /\ ~answer /\ CountFault

Goto(label) == pc' = label /\ UNCHANGED <<job, rest>>

Remove(names, for) == pc' = "remove" /\ rest' = names /\ job' = for

\* A failed update: the server starts on the local database or not at all.
FallBack == Goto(IF localValid THEN "serving" ELSE "down")

\* restore_lkg_pair: its return code decides what its caller does.  A backup that
\* cannot be read is a copy that fails.
RestoreFailed ==
  IF job = "rollback" THEN FallBack ELSE Goto("down")

Restore(for) == pc' = "restoreDb" /\ job' = for /\ UNCHANGED rest

-----------------------------------------------------------------------------
\* The data volume is new, holds a release or holds something else.
Init ==
  /\ \E db \in {None, Junk, 1}, manifest \in {None, 1} :
       dir = [e \in Entries |-> CASE e = "db" -> db [] e = "manifest" -> manifest [] OTHER -> None]
  /\ durable = [e \in Entries |-> {dir[e]}]
  /\ pc = "down" /\ job = "idle" /\ rest = <<>>
  /\ localValid = FALSE /\ remote = None /\ staged = {} /\ held = None
  /\ regime \in Regimes /\ faults = 0 /\ crashes = 0

Start ==
  /\ pc = "down"
  /\ pc' = "recover" /\ job' = "idle" /\ rest' = <<>>
  /\ localValid' = FALSE /\ remote' = None /\ staged' = {}
  /\ UNCHANGED <<files, held, regime, faults, crashes>>

Interrupted == \E e \in Backups \cup {"marker"} : Has(e)

\* A directory recovery gives up on although nothing fails.
Refused ==
  /\ Interrupted /\ ~LiveVerified
  /\ ~Has("marker") \/ (~BackupVerified /\ \E e \in Backups : Has(e))

RecoverNothing == ~Interrupted /\ Goto("local") /\ UNCHANGED faults

RecoverUnmarked ==
  /\ Interrupted /\ ~Has("marker")
  /\ \E live \in BOOLEAN :
       /\ Answers(LiveVerified, live)
       /\ IF live THEN Remove(<<"dbBackup", "manifestBackup">>, "sweep") ELSE Goto("down")

RecoverMarked ==
  /\ Has("marker")
  /\ \E live \in BOOLEAN :
       /\ Answers(LiveVerified, live)
       /\ CASE live -> pc' = "unmark" /\ job' = "finish" /\ UNCHANGED rest
            [] ~live /\ BackupVerified -> Restore("recover")
            [] ~live /\ ~BackupVerified /\ (\E e \in Backups : Has(e)) -> Goto("down")
            [] OTHER -> Remove(<<"db", "manifest", "marker">>, "discard")

Recover ==
  /\ pc = "recover"
  /\ RecoverNothing \/ RecoverUnmarked \/ RecoverMarked
  /\ UNCHANGED <<files, progress, crashes>>

\* Slip: any database file counts as verified.
LocalUnchecked ==
  /\ pc = "local"
  /\ localValid' = Has("db") /\ held' = dir["db"]
  /\ Goto("fetch")
  /\ UNCHANGED <<files, remote, staged, regime, faults, crashes>>

\* Is there a local database bound to its manifest?
Local ==
  /\ pc = "local"
  /\ \E live \in BOOLEAN :
       /\ Answers(LiveVerified, live)
       /\ localValid' = live
       /\ held' = IF live THEN dir["db"] ELSE None
  /\ Goto("fetch")
  /\ UNCHANGED <<files, remote, staged, regime, crashes>>

\* The manifest of the configured release, which may not be reachable.
Fetch ==
  /\ pc = "fetch"
  /\ \/ /\ remote' \in Versions /\ staged' = {"manifest"}
        /\ Goto(IF localValid /\ dir["db"] = remote' THEN "keep" ELSE "stage")
     \/ FallBack /\ UNCHANGED <<remote, staged>>
  /\ UNCHANGED <<files, localValid, held, regime, faults, crashes>>

\* The database is current; only its manifest is replaced.  The script runs
\* under set -e here: a failing command ends it.
KeepManifest ==
  /\ pc = "keep"
  /\ \/ /\ "manifest" \in staged
        /\ Write("manifest", remote) /\ staged' = {} /\ Goto("serving") /\ UNCHANGED faults
     \/ "manifest" \notin staged /\ Goto("down") /\ UNCHANGED <<files, staged, faults>>
     \/ Fault /\ Goto("down") /\ UNCHANGED staged
  /\ UNCHANGED <<localValid, remote, held, regime, crashes>>

\* Download and verify the release; prepare to replace the pair.  A manifest that
\* a TERM deleted ends the script or fails the update, depending on the command.
Stage ==
  /\ pc = "stage"
  /\ \/ /\ "manifest" \in staged /\ staged' = Live
        /\ IF localValid THEN Remove(<<"dbBackup", "manifestBackup", "marker">>, "stale")
                         ELSE pc' = "mark" /\ job' = "install" /\ UNCHANGED rest
     \/ FallBack /\ UNCHANGED staged
     \/ "manifest" \notin staged /\ Goto("down") /\ UNCHANGED staged
  /\ UNCHANGED <<files, localValid, remote, held, regime, faults, crashes>>

\* Slip: the update goes on without the backup that could not be made.
BackupDbUnchecked ==
  /\ pc = "backupDb"
  /\ \/ Write("dbBackup", dir["db"]) /\ UNCHANGED faults
     \/ Fault
  /\ Goto("backupManifest")
  /\ UNCHANGED <<progress, crashes>>

BackupDb ==
  /\ pc = "backupDb"
  /\ \/ Write("dbBackup", dir["db"]) /\ Goto("backupManifest") /\ UNCHANGED faults
     \/ Fault /\ FallBack
  /\ UNCHANGED <<progress, crashes>>

BackupManifest ==
  /\ pc = "backupManifest"
  /\ \/ Write("manifestBackup", dir["manifest"]) /\ Goto("mark") /\ UNCHANGED faults
     \/ Fault /\ Remove(<<"dbBackup">>, "abort")
  /\ UNCHANGED <<progress, crashes>>

\* Slip: the live pair is replaced without a marker.
MarkSkipped ==
  /\ pc = "mark" /\ Goto("syncMark")
  /\ UNCHANGED <<files, progress, faults, crashes>>

\* Creating the marker and its sync; a failure leaves what there is so far.
Mark ==
  /\ pc = "mark"
  /\ \/ Write("marker", remote) /\ Goto("syncMark") /\ UNCHANGED faults
     \/ Fault /\ FallBack
  /\ UNCHANGED <<progress, crashes>>

\* Only the sync of the marker is checked, not the sync of everything after it.
SyncMark ==
  /\ pc = "syncMark"
  /\ \/ SyncDirectory /\ Goto("swapDb") /\ UNCHANGED faults
     \/ Fault /\ FallBack
  /\ UNCHANGED <<progress, crashes>>

\* A replacement that failed is answered by putting the backups back.
RollBack == IF BackupVerified THEN Restore("rollback") ELSE FallBack

\* The staged file may be gone: a TERM deletes it and the script goes on.
SwapDb ==
  /\ pc = "swapDb"
  /\ \/ /\ "db" \in staged
        /\ Write("db", remote) /\ staged' = staged \ {"db"}
        /\ Goto("swapManifest") /\ UNCHANGED faults
     \/ "db" \notin staged /\ RollBack /\ UNCHANGED <<files, staged, faults>>
     \/ Fault /\ RollBack /\ UNCHANGED staged
  /\ UNCHANGED <<localValid, remote, held, regime, crashes>>

SwapManifest ==
  /\ pc = "swapManifest"
  /\ \/ /\ "manifest" \in staged
        /\ Write("manifest", remote) /\ staged' = staged \ {"manifest"}
        /\ Goto("verify") /\ UNCHANGED faults
     \/ "manifest" \notin staged /\ RollBack /\ UNCHANGED <<files, staged, faults>>
     \/ Fault /\ RollBack /\ UNCHANGED staged
  /\ UNCHANGED <<localValid, remote, held, regime, crashes>>

Verify ==
  /\ pc = "verify"
  /\ \E live \in BOOLEAN :
       /\ Answers(LiveVerified, live)
       /\ IF live THEN Goto("unmark") ELSE RollBack
  /\ UNCHANGED <<files, progress, crashes>>

RestoreDb ==
  /\ pc = "restoreDb"
  /\ \/ Write("db", dir["dbBackup"]) /\ Goto("restoreManifest") /\ UNCHANGED faults
     \/ Fault /\ RestoreFailed
  /\ UNCHANGED <<progress, crashes>>

\* The copy, and the check of the restored pair.
RestoreManifest ==
  /\ pc = "restoreManifest"
  /\ \/ Write("manifest", dir["manifestBackup"]) /\ Goto("unmark") /\ UNCHANGED faults
     \/ Write("manifest", dir["manifestBackup"]) /\ CountFault /\ RestoreFailed
     \/ Fault /\ RestoreFailed
  /\ UNCHANGED <<progress, crashes>>

Unmark ==
  /\ pc = "unmark"
  /\ \/ Write("marker", None) /\ UNCHANGED faults
     \/ Fault
  /\ Goto("syncUnmark")
  /\ UNCHANGED <<progress, crashes>>

SyncUnmark ==
  /\ pc = "syncUnmark"
  /\ SyncDirectory
  /\ Remove(<<"dbBackup", "manifestBackup">>, job)
  /\ UNCHANGED <<progress, faults, crashes>>

\* rm goes on after a failure; its status counts where it is a function's last.
RemoveNext ==
  /\ pc = "remove" /\ rest # <<>>
  /\ \/ Write(Head(rest), None) /\ UNCHANGED <<faults, job>>
     \/ Fault /\ job' = IF job = "recover" THEN "giveUp" ELSE job
  /\ rest' = Tail(rest) /\ UNCHANGED pc
  /\ UNCHANGED <<progress, crashes>>

Removed ==
  /\ pc = "remove" /\ rest = <<>>
  /\ UNCHANGED rest
  /\ IF job \in {"sweep", "discard"} THEN SyncDirectory ELSE UNCHANGED files
  /\ pc' = CASE job \in {"sweep", "discard", "finish", "recover"} -> "local"
             [] job = "giveUp" -> "down"
             [] job = "stale" -> "backupDb"
             [] job = "install" -> "serving"
             [] job \in {"abort", "rollback"} -> IF localValid THEN "serving" ELSE "down"
  /\ job' = IF job = "stale" THEN "install" ELSE job
  /\ held' = IF job = "install" THEN remote ELSE held
  /\ UNCHANGED <<localValid, remote, staged, regime, faults, crashes>>

\* The server stops, on request or not; its files stay.
Stop ==
  /\ pc = "serving"
  /\ Goto("down")
  /\ UNCHANGED <<files, progress, faults, crashes>>

-----------------------------------------------------------------------------
Crashes == crashes < MaxCrashes /\ crashes' = crashes + 1

Kill ==
  /\ regime.kill /\ Crashes /\ pc # "down"
  /\ Goto("down")
  /\ UNCHANGED <<files, progress, faults>>

\* TERM, INT or HUP: cleanup runs and the script goes on.
Signal ==
  /\ regime.signal /\ Crashes /\ staged # {}
  /\ staged' = {}
  /\ UNCHANGED <<files, pc, job, rest, localValid, remote, held, regime, faults>>

PowerLoss ==
  /\ regime.powerLoss /\ Crashes
  /\ LosePower
  /\ Goto("down")
  /\ UNCHANGED <<progress, faults>>

ScriptStep ==
  \/ Start \/ Recover \/ Local \/ Fetch \/ KeepManifest \/ Stage
  \/ BackupDb \/ BackupManifest \/ Mark \/ SyncMark \/ SwapDb \/ SwapManifest \/ Verify
  \/ RestoreDb \/ RestoreManifest \/ Unmark \/ SyncUnmark \/ RemoveNext \/ Removed

Next == ScriptStep \/ Stop \/ Kill \/ Signal \/ PowerLoss

Spec == Init /\ [][Next]_vars

\* The script runs on and the restart policy starts it again.
FairSpec == Spec /\ WF_vars(ScriptStep)

-----------------------------------------------------------------------------
\* The server is started on one release only: the one the script verified when it
\* started, or the one it has installed; never on the database of one release
\* with the manifest of another.
ServedPairVerified ==
  pc = "serving" => LiveVerified /\ dir["db"] = held

\* Once the script has verified a pair, one verified pair is on the volume at
\* every moment, live or as backup, whatever a power loss leaves of it.
KeepsVerifiedPair ==
  held # None => \A d \in Disks : \/ Verified(d["db"], d["manifest"])
                                 \/ Verified(d["dbBackup"], d["manifestBackup"])

\* Recovery never gives up on a directory that no failure in it explains.
RecoveryFindsAWay == pc = "recover" => ~Refused

\* On a machine that keeps its power.
RecoveryFindsAWayAfterKill == ~regime.powerLoss => RecoveryFindsAWay

\* The network is not needed: a verified local pair is served once the crashes
\* stop, unless a check of it fails, after which it is not verified any more.
VerifiedPairIsServed ==
  (held # None /\ ~regime.powerLoss) ~> (pc = "serving" \/ held = None)
=============================================================================
