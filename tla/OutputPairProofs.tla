-------------------------- MODULE OutputPairProofs --------------------------
(***************************************************************************)
(* Proofs about the installation protocol, for every bound and every set   *)
(* of failure regimes.                                                     *)
(***************************************************************************)
EXTENDS OutputPair, FiniteSetTheorems, TLAPS

\* The routine steps of the protocol: they touch the directory through Write
\* and SyncDirectory alone.
CallStep ==
  \/ BackupDb \/ BackupReport \/ SyncBackups \/ Mark \/ SyncMarker \/ Abort
  \/ SwapDb \/ SwapReport \/ RemoveDb \/ RemoveReport \/ RestoreDb
  \/ RestoreReport \/ SyncLive \/ Unmark \/ SyncUnmark \/ DropBackups

FilesOK == dir \in [Entries -> Generations] /\ durable \in [Entries -> SUBSET Generations]

\* Writing a generation to a name keeps the directory a directory.
LEMMA WriteFiles ==
  ASSUME FilesOK, NEW e \in Entries, NEW g \in Generations, Write(e, g)
  PROVE  FilesOK'
BY DEF Write, FilesOK

\* So does an fsync.
LEMMA SyncFiles == ASSUME FilesOK, SyncDirectory PROVE FilesOK'
BY DEF SyncDirectory, Names, FilesOK

\* Presence tests that fail are counted, and never beyond the bound.
LEMMA OverlookTypes ==
  ASSUME missed \in 0 .. regime.stats, regime.stats \in Nat,
         NEW ts, IsFiniteSet(ts), NEW m \in Overlooked(ts), Overlook(m)
  PROVE  missed' \in 0 .. regime.stats
<1>1. Cardinality(m) \in Nat
  BY FS_Subset, FS_CardinalityType DEF Overlooked
<1>2. QED
  BY <1>1 DEF Overlooked, Overlook

\* Where at most one may fail, it is none or, with none left, a single one.
LEMMA OverlookFew ==
  ASSUME missed \in 0 .. regime.stats, regime.stats \in {0, 1},
         NEW ts, IsFiniteSet(ts), NEW m \in Overlooked(ts), Overlook(m)
  PROVE  \/ m = {} /\ missed' = missed
         \/ /\ \E x \in ts : m = {x}
            /\ regime.stats = 1 /\ missed = 0 /\ missed' = 1
<1>1. IsFiniteSet(m) /\ Cardinality(m) \in Nat /\ m \subseteq ts
  BY FS_Subset, FS_CardinalityType DEF Overlooked
<1>2. CASE Cardinality(m) = 0
  BY <1>1, <1>2, FS_EmptySet DEF Overlook
<1>3. CASE Cardinality(m) = 1
  BY <1>1, <1>3, FS_Singleton DEF Overlook, Overlooked
<1>4. QED
  BY <1>1, <1>2, <1>3 DEF Overlooked

\* Where nothing is tested nothing is overlooked.
LEMMA OverlookNone ==
  ASSUME missed \in Nat, NEW m \in Overlooked({}), Overlook(m)
  PROVE  m = {} /\ missed' = missed
<1>1. m = {}
  BY DEF Overlooked
<1>2. Cardinality({}) = 0
  BY FS_EmptySet
<1>3. QED
  BY <1>1, <1>2 DEF Overlook

LEMMA TestsAreFinite ==
  /\ IsFiniteSet({}) /\ IsFiniteSet(Live)
  /\ IsFiniteSet(Present) /\ IsFiniteSet(Present \cup {"markerAgain"})
<1>1. IsFiniteSet({"db"} \cup {"report"}) /\ IsFiniteSet({})
  BY FS_EmptySet, FS_Singleton, FS_AddElement
<1>2. IsFiniteSet({"db"} \cup {"report"} \cup {"dbBackup"} \cup {"reportBackup"} \cup {"marker"})
  BY <1>1, FS_AddElement
<1>3. Live = {"db"} \cup {"report"} /\ Present \subseteq
        {"db"} \cup {"report"} \cup {"dbBackup"} \cup {"reportBackup"} \cup {"marker"}
  BY DEF Live, Present, Entries, Backups
<1>4. IsFiniteSet(Present)
  BY <1>2, <1>3, FS_Subset
<1>5. QED
  BY <1>1, <1>3, <1>4, FS_AddElement

\* The routine steps write generations and count at most one fault.
LEMMA CallStepTypes ==
  ASSUME TypeOK, CallStep
  PROVE  /\ FilesOK'
         /\ pc' \in Labels /\ job' \in Jobs
         /\ faults' \in 0 .. regime.faults
         /\ missed' \in 0 .. regime.stats
         /\ UNCHANGED <<base, existed, built, acked, regime, crashes>>
<1> USE DEF TypeOK, Labels, Jobs, Goto, Return, ReturnOrRollBack, Fault, history, files,
            RemoveIgnoringErrors, Create, CreateFails
<1>1. /\ None \in Generations /\ built \in Generations
      /\ \A e \in Entries : dir[e] \in Generations
      /\ {"db", "report", "dbBackup", "reportBackup", "marker"} \subseteq Entries
      /\ regime.faults \in Nat /\ regime.stats \in Nat
  BY OutputPairAssumption DEF Generations, None, Entries, Live, Backups
<1>2. FilesOK
  BY DEF FilesOK
<1>3. FilesOK'
  BY <1>1, <1>2, WriteFiles, SyncFiles
     DEF CallStep, BackupDb, BackupReport, SyncBackups, Mark, SyncMarker, Abort, SwapDb,
         SwapReport, RemoveDb, RemoveReport, RestoreDb, RestoreReport, SyncLive, Unmark,
         SyncUnmark, DropBackups, FilesOK
<1>4. pc' \in Labels /\ job' \in Jobs
  BY DEF CallStep, BackupDb, BackupReport, SyncBackups, Mark, SyncMarker, Abort, SwapDb,
         SwapReport, RemoveDb, RemoveReport, RestoreDb, RestoreReport, SyncLive, Unmark,
         SyncUnmark, DropBackups
<1>5. faults' \in 0 .. regime.faults
  BY <1>1
     DEF CallStep, BackupDb, BackupReport, SyncBackups, Mark, SyncMarker, Abort, SwapDb,
         SwapReport, RemoveDb, RemoveReport, RestoreDb, RestoreReport, SyncLive, Unmark,
         SyncUnmark, DropBackups
<1>6. missed' \in 0 .. regime.stats
  <2>1. CASE RestoreReport
    BY <1>1, <2>1, OverlookTypes, TestsAreFinite DEF RestoreReport
  <2>2. CASE SyncLive
    BY <1>1, <2>2, OverlookTypes, TestsAreFinite DEF SyncLive
  <2>3. QED
    BY <2>1, <2>2
       DEF CallStep, BackupDb, BackupReport, SyncBackups, Mark, SyncMarker, Abort, SwapDb,
           SwapReport, RemoveDb, RemoveReport, RestoreDb, Unmark, SyncUnmark, DropBackups
<1>7. UNCHANGED <<base, existed, built, acked, regime, crashes>>
  BY DEF CallStep, BackupDb, BackupReport, SyncBackups, Mark, SyncMarker, Abort, SwapDb,
         SwapReport, RemoveDb, RemoveReport, RestoreDb, RestoreReport, SyncLive, Unmark,
         SyncUnmark, DropBackups
<1>8. QED
  BY <1>3, <1>4, <1>5, <1>6, <1>7

-----------------------------------------------------------------------------
\* The state of the protocol stays within its types, whatever the bounds and the
\* regimes: every name holds a generation that was built, and no counter passes
\* its bound.
THEOREM TypeCorrect == Spec => []TypeOK
<1>1. Init => TypeOK
  <2> SUFFICES ASSUME Init PROVE TypeOK
    OBVIOUS
  <2>1. PICK g \in {None, 1} :
          /\ dir = [e \in Entries |-> IF e \in Live THEN g ELSE None]
          /\ durable = [e \in Entries |-> {dir[e]}]
          /\ pc = "down" /\ job = "recover"
          /\ base = [e \in Live |-> g] /\ existed = (g # None) /\ built = 1 /\ acked = g
          /\ regime \in Regimes
          /\ faults = 0 /\ missed = 0 /\ crashes = 0
    BY DEF Init
  <2>2. g \in Generations /\ None \in Generations /\ 1 \in 1 .. MaxBuilds + 1
    BY OutputPairAssumption DEF Generations, None
  <2>3. regime.faults \in Nat /\ regime.stats \in Nat
    BY <2>1, OutputPairAssumption
  <2>4. QED
    BY <2>1, <2>2, <2>3, OutputPairAssumption DEF TypeOK, Labels, Jobs
<1>2. TypeOK /\ [Next]_vars => TypeOK'
  <2> SUFFICES ASSUME TypeOK, [Next]_vars PROVE TypeOK'
    OBVIOUS
  <2>1. ASSUME CallStep PROVE TypeOK'
    BY <2>1, CallStepTypes DEF TypeOK, FilesOK
  <2>2. CASE Start
    BY <2>2 DEF Start, TypeOK, Labels, Jobs, files, history
  <2>3. CASE Recover
    <3>1. regime.stats \in Nat /\ missed \in 0 .. regime.stats
      BY OutputPairAssumption DEF TypeOK
    <3>2. missed' \in 0 .. regime.stats
      BY <2>3, <3>1, OverlookTypes, TestsAreFinite DEF Recover
    <3>3. QED
      BY <2>3, <3>2 DEF Recover, RecoverUnmarked, RecoverMarked, TypeOK, Labels, Jobs, files, history
  <2>4. CASE Build
    BY <2>4, OutputPairAssumption DEF Build, TypeOK, Labels, files
  <2>5. CASE Precheck
    <3>1. [e \in Live |-> dir[e]] \in [Live -> Generations]
      BY DEF TypeOK, Entries
    <3>2. regime.stats \in Nat /\ missed \in 0 .. regime.stats
      BY OutputPairAssumption DEF TypeOK
    <3>3. missed' \in 0 .. regime.stats
      BY <2>5, <3>2, OverlookTypes, TestsAreFinite DEF Precheck
    <3>4. existed' \in BOOLEAN
      BY <2>5 DEF Precheck, Sees, Has
    <3>5. QED
      BY <2>5, <3>1, <3>3, <3>4 DEF Precheck, TypeOK, Labels, Jobs, files
  <2>6. CASE SyncDrop
    <3>1. FilesOK'
      BY <2>6, SyncFiles DEF SyncDrop, Fault, files, FilesOK, TypeOK
    <3>2. built \in Generations /\ regime.faults \in Nat
      BY OutputPairAssumption DEF TypeOK, Generations
    <3>3. QED
      BY <2>6, <3>1, <3>2 DEF SyncDrop, Fault, Return, TypeOK, FilesOK, Labels, Jobs, files
  <2>7. CASE Kill
    BY <2>7, OutputPairAssumption DEF Kill, TypeOK, Labels, files, history
  <2>8. CASE PowerLoss
    <3>1. FilesOK'
      <4>1. Names = Entries /\ \A n \in Names : durable[n] \subseteq Generations
        BY DEF Names, TypeOK
      <4>2. dir' \in [Entries -> Generations]
        BY <2>8, <4>1 DEF PowerLoss, LosePower, Possible
      <4>3. durable' \in [Entries -> SUBSET Generations]
        BY <2>8, <4>1, <4>2 DEF PowerLoss, LosePower
      <4>4. QED
        BY <4>2, <4>3 DEF FilesOK
    <3>2. QED
      BY <2>8, <3>1, OutputPairAssumption DEF PowerLoss, LosePower, TypeOK, FilesOK, Labels, history
  <2>9. CASE UNCHANGED vars
    BY <2>9 DEF vars, TypeOK
  <2>10. QED
    BY <2>1, <2>2, <2>3, <2>4, <2>5, <2>6, <2>7, <2>8, <2>9
       DEF Next, RecoverStep, InstallStep, CallStep
<1>3. QED
  BY <1>1, <1>2, PTL DEF Spec

-----------------------------------------------------------------------------
(***************************************************************************)
(* Rollback.  A rollback asks the variable databaseExists whether there is *)
(* a pair to put back, and two failing presence tests can make that        *)
(* variable false beside a complete pair.  So at most one may fail here,   *)
(* and where one may the machine keeps its power; everything else may fail *)
(* and die as often as it likes.                                           *)
(***************************************************************************)
FewStatsFail == \A r \in Regimes : r.stats = 0 \/ (r.stats = 1 /\ ~r.powerLoss)

\* The backups hold the pair that was live when the installation began, on disk
\* as well as in the directory processes see.
BackupsHoldBase ==
  /\ existed <=> base["db"] # None
  /\ base["db"] = None <=> base["report"] = None
  /\ base["db"] # None =>
       /\ dir["dbBackup"] = base["db"] /\ durable["dbBackup"] = {base["db"]}
       /\ dir["reportBackup"] = base["report"] /\ durable["reportBackup"] = {base["report"]}

Backing == {"backupDb", "backupReport", "syncBackups"}
Swapping == {"mark", "syncMarker", "swapDb", "swapReport"}
Aborting == {"abortMarker", "abortDb", "abortFirst", "abortReport"}
Undoing == {"removeDb", "removeReport", "restoreDb", "restoreReport"}
Sealing == {"syncLive", "unmark"}
Acknowledged == {"unmark", "syncUnmark", "dropDb", "dropReport", "syncDrop"}

\* The routine a program point belongs to.
JobOf ==
  /\ pc = "recover" => job = "recover"
  /\ pc = "build" => job \in {"recover", "sweep"}
  /\ pc \in Backing \cup Swapping \cup Aborting => job = "install"
  /\ pc \in Undoing => job \in {"recover", "rollback"}
  /\ pc \in Sealing => job # "sweep"

\* While the pair is being backed up it is still the one the installation found.
BackingUp ==
  pc \in Backing =>
    /\ existed /\ base["db"] # None /\ base["report"] # None
    /\ \A e \in Live : dir[e] = base[e]
    /\ pc # "backupDb" => dir["dbBackup"] = base["db"]
    /\ pc = "syncBackups" => dir["reportBackup"] = base["report"]

\* From the marker to its removal the old pair can be restored from the backups.
CanRollBack ==
  \/ job = "install" /\ pc \in Swapping \cup Sealing
  \/ job = "rollback" /\ pc \in Undoing \cup {"syncLive"}
  => BackupsHoldBase

\* How far a rollback has got.
RollingBack ==
  job = "rollback" =>
    /\ pc \in {"restoreDb", "restoreReport"} => base["db"] # None
    /\ pc = "removeReport" => dir["db"] = None
    /\ pc \in {"restoreReport", "syncLive"} \cup Acknowledged => dir["db"] = base["db"]
    /\ pc \in {"syncLive"} \cup Acknowledged => dir["report"] = base["report"]
    /\ pc \in Acknowledged => \A e \in Live : durable[e] = {base[e]}

\* Where a presence test may fail, half a pair never lies without the marker.
Paired == dir["db"] = None <=> dir["report"] = None
PairOrMarker ==
  regime.stats # 0 =>
    /\ Paired \/ dir["marker"] # None
    /\ pc \in {"syncMarker", "abortMarker", "syncLive", "unmark"} => Paired
    /\ pc \in {"syncMarker", "swapDb", "swapReport"} \cup Undoing \cup Sealing =>
         dir["marker"] # None
    /\ pc \in {"swapReport", "restoreReport"} => dir["db"] # None
    /\ pc = "removeReport" => dir["db"] = None

SeenIsPossible == \A e \in Entries : dir[e] \in durable[e]

\* What a rollback relies on beside the types.
RollbackCore ==
  SeenIsPossible /\ JobOf /\ BackingUp /\ CanRollBack /\ RollingBack /\ PairOrMarker

\* A precheck that lets the installation begin saw both files of the pair or none,
\* and what it saw is what is there.
LEMMA PrecheckSees ==
  ASSUME FewStatsFail, TypeOK, RollbackCore, Precheck, pc' # "down"
  PROVE  /\ existed' <=> Has("db")
         /\ Has("db") <=> Has("report")
         /\ pc' = IF Has("db") THEN "backupDb" ELSE "mark"
<1>1. regime.stats \in {0, 1} /\ missed \in 0 .. regime.stats
  BY DEF FewStatsFail, TypeOK
<1>2. PICK m \in Overlooked(Present) :
        /\ Overlook(m)
        /\ existed' <=> Sees("db", m)
        /\ Sees("db", m) <=> Sees("report", m)
        /\ ~Sees("marker", m)
        /\ pc' = IF Sees("db", m) THEN "backupDb" ELSE "mark"
  BY DEF Precheck
<1>3. \/ m = {}
      \/ regime.stats = 1 /\ \E x \in Present : m = {x}
  BY <1>1, <1>2, OverlookFew, TestsAreFinite
<1>4. CASE m = {}
  BY <1>2, <1>4 DEF Sees
<1>5. CASE regime.stats = 1 /\ m # {}
  <2>1. PICK x \in Present : m = {x}
    BY <1>3, <1>5
  <2>2. CASE x \in Live
    <3>1. Has("db") <=> Has("report")
      BY <1>2, <1>5, <2>1, <2>2 DEF RollbackCore, PairOrMarker, Paired, Sees, Has, Live
    <3>2. QED
      BY <1>2, <2>1, <2>2, <3>1 DEF Sees, Live, Present
  <2>3. CASE x \notin Live
    BY <1>2, <2>1, <2>3 DEF Sees, Live
  <2>4. QED
    BY <2>2, <2>3
<1>6. QED
  BY <1>3, <1>4, <1>5

LEMMA RollbackStep ==
  ASSUME FewStatsFail, TypeOK, RollbackCore, [Next]_vars
  PROVE  RollbackCore'
<1> USE DEF TypeOK, RollbackCore, SeenIsPossible, JobOf, BackingUp, CanRollBack, RollingBack,
            PairOrMarker, Paired, BackupsHoldBase, Backing, Swapping, Aborting, Undoing, Sealing, Acknowledged,
            Entries, Live, Backups
<1>a. regime \in Regimes /\ built # None
  BY DEF None
<1>1. CASE BackupDb
  BY <1>1, <1>a DEF BackupDb, Create, CreateFails, Has, Write, Goto, Fault, files, Return, history
<1>2. CASE BackupReport
  BY <1>2, <1>a DEF BackupReport, Create, CreateFails, Has, Write, Goto, Fault, files, history
<1>3. CASE SyncBackups
  BY <1>3, <1>a DEF SyncBackups, SyncDirectory, Names, Goto, Fault, files, history
<1>4. CASE Mark
  BY <1>4, <1>a DEF Mark, Create, CreateFails, Has, Write, Goto, Fault, files, history
<1>5. CASE SyncMarker
  BY <1>5, <1>a DEF SyncMarker, SyncDirectory, Names, Goto, Fault, files, history
<1>6. CASE Abort
  BY <1>6, <1>a DEF Abort, RemoveIgnoringErrors, Write, Fault, files, Goto, Return, history
<1>7. CASE SwapDb
  BY <1>7, <1>a DEF SwapDb, Write, Goto, Fault, files, ReturnOrRollBack, Return, history
<1>8. CASE SwapReport
  BY <1>8, <1>a DEF SwapReport, Write, Goto, Fault, files, ReturnOrRollBack, Return, history
<1>9. CASE RemoveDb
  BY <1>9, <1>a DEF RemoveDb, Write, Goto, Fault, files, Return, history
<1>10. CASE RemoveReport
  BY <1>10, <1>a DEF RemoveReport, Write, Goto, Fault, files, Return, history
<1>11. CASE RestoreDb
  BY <1>11, <1>a DEF RestoreDb, Has, Write, Goto, Fault, files, Return, history
<1>12. CASE RestoreReport
  BY <1>12, <1>a DEF RestoreReport, Has, Write, Goto, Fault, files, Return, history
<1>13. CASE SyncLive
  BY <1>13, <1>a DEF SyncLive, SyncDirectory, Names, Goto, Fault, files, ReturnOrRollBack, Return,
         history
<1>14. CASE Unmark
  BY <1>14, <1>a DEF Unmark, Write, Goto, Fault, files, ReturnOrRollBack, Return, history
<1>15. CASE SyncUnmark
  BY <1>15, <1>a DEF SyncUnmark, SyncDirectory, Names, Goto, Fault, files, Return, history
<1>16. CASE DropBackups
  BY <1>16, <1>a DEF DropBackups, RemoveIgnoringErrors, Write, Fault, files, Goto, history
<1>17. CASE SyncDrop
  BY <1>17, <1>a DEF SyncDrop, SyncDirectory, Names, Fault, files, Return
<1>18. CASE Start
  BY <1>18, <1>a DEF Start, files, history
<1>19. CASE Recover
  BY <1>19, <1>a
     DEF Recover, RecoverUnmarked, RecoverMarked, Has, Sees, SeesLive, files, history
<1>20. CASE Build
  BY <1>20, <1>a DEF Build, files
<1>21. CASE Precheck
  <2>1. pc = "precheck" /\ job' = "install" /\ base' = [e \in Live |-> dir[e]]
      /\ pc' \in {"down", "backupDb", "mark"} /\ UNCHANGED <<dir, durable, regime>>
    BY <1>21 DEF Precheck, files
  <2>2. pc' # "down" =>
          /\ existed' <=> dir["db"] # None
          /\ dir["db"] = None <=> dir["report"] = None
          /\ pc' = IF dir["db"] # None THEN "backupDb" ELSE "mark"
    BY <1>21, PrecheckSees DEF Has
  <2>3. QED
    BY <2>1, <2>2
<1>22. CASE Kill
  BY <1>22, <1>a DEF Kill, files, history
<1>23. CASE PowerLoss
  BY <1>23, <1>a DEF PowerLoss, LosePower, Possible, Names, history, FewStatsFail
<1>24. CASE UNCHANGED vars
  BY <1>24, <1>a DEF vars
<1>25. QED
  BY <1>1, <1>2, <1>3, <1>4, <1>5, <1>6, <1>7, <1>8, <1>9, <1>10, <1>11, <1>12,
     <1>13, <1>14, <1>15, <1>16, <1>17, <1>18, <1>19, <1>20, <1>21, <1>22, <1>23, <1>24
     DEF Next, RecoverStep, InstallStep

\* A rollback that reached its clean-up has put back the pair it found, whatever
\* other calls failed on the way and however often the process died before; where
\* every presence test answers, however often power was lost as well.
THEOREM RollbackCorrect == ASSUME FewStatsFail PROVE Spec => []RollbackRestores
<1>1. Init => RollbackCore
  BY DEF Init, RollbackCore, SeenIsPossible, JobOf, BackingUp, CanRollBack, RollingBack,
         PairOrMarker, Paired, Backing, Swapping, Aborting, Undoing, Sealing, Entries, Live, Backups
<1>2. TypeOK /\ RollbackCore /\ [Next]_vars => RollbackCore'
  BY RollbackStep, FewStatsFail
<1>3. TypeOK /\ RollbackCore => RollbackRestores
  <2> SUFFICES ASSUME TypeOK, RollbackCore, job = "rollback", pc \in Acknowledged,
                      NEW d \in Disks, NEW e \in Live
               PROVE  d[e] = base[e]
    BY DEF RollbackRestores, Acknowledged
  <2>1. durable[e] = {base[e]}
    BY DEF RollbackCore, RollingBack
  <2>2. e \in Entries /\ dir[e] \in durable[e]
    BY DEF RollbackCore, SeenIsPossible, Entries
  <2>3. d[e] \in durable[e]
    BY <2>2 DEF Disks, Possible, Names, RollbackCore, TypeOK
  <2>4. QED
    BY <2>1, <2>3
<1>4. QED
  BY <1>1, <1>2, <1>3, TypeCorrect, PTL DEF Spec

-----------------------------------------------------------------------------
(***************************************************************************)
(* Crash safety.  The protocol keeps a verified pair when the machine may  *)
(* lose power but the process is never killed and no call fails; when the  *)
(* process may be killed and one call that is not a presence test may fail *)
(* but power stays; and when nothing crashes, but one such call and one    *)
(* presence test may fail.  It does not when a presence test may fail      *)
(* after a kill: a run shows that.                                         *)
(***************************************************************************)
Survivable ==
  \A r \in Regimes :
    /\ r.faults \in {0, 1} /\ r.stats \in {0, 1}
    /\ r.powerLoss => ~r.kill /\ r.faults = 0
    /\ r.stats = 1 => ~r.kill /\ ~r.powerLoss

LEMMA SurvivableFewStats == Survivable => FewStatsFail
BY OutputPairAssumption DEF Survivable, FewStatsFail

\* The values a name may have for the next command.
May(e) == IF regime.powerLoss THEN durable[e] ELSE {dir[e]}

LiveIs(g) == \A e \in Live : May(e) = {g}

\* The live pair counts: it is whole, at least as new as the last acknowledged
\* one, and if there is none there are no backups either.
LivePair ==
  /\ LiveIs(dir["db"]) /\ dir["db"] = dir["report"] /\ dir["db"] >= acked
  /\ dir["db"] = None => \A e \in Backups : May(e) = {None}

Clean == May("marker") = {None} /\ LivePair

\* The backups count: they hold the pair of before the installation.
BaseBacked ==
  /\ base["db"] = base["report"] /\ base["db"] >= acked
  /\ \A e \in Backups : May(e) = {base["db"]}

Armed == May("marker") = {dir["marker"]} /\ dir["marker"] # None /\ BaseBacked

\* What a point of the program may rely on.
SafeCore ==
  /\ pc \in {"down", "recover"} => Clean \/ Armed
  /\ pc \in {"build", "precheck", "abortDb", "abortFirst", "abortReport", "dropDb",
             "dropReport", "syncDrop"} \cup Backing => Clean
  /\ pc \in Backing => base["db"] = base["report"] /\ base["db"] = dir["db"]
  /\ pc = "mark" => Clean /\ BaseBacked /\ base["db"] = dir["db"]
  /\ pc \in {"syncMarker", "abortMarker"} =>
       dir["marker"] # None /\ LivePair /\ BaseBacked /\ base["db"] = dir["db"]
  /\ pc \in {"swapDb", "swapReport", "syncLive", "unmark"} \cup Undoing => Armed
  /\ pc \in {"syncLive", "unmark", "syncUnmark"} =>
       /\ dir["db"] = dir["report"] /\ dir["db"] >= acked
       /\ dir["db"] = None => base["db"] = None
  /\ pc \in {"unmark", "syncUnmark"} => LiveIs(dir["db"])
  /\ pc = "syncUnmark" => dir["marker"] = None /\ BaseBacked
  /\ pc = "restoreReport" => dir["db"] = base["db"]
  /\ pc = "removeReport" => dir["db"] = None
  /\ pc \in {"removeDb", "removeReport"} /\ job = "recover" => base["db"] = None
  /\ job = "install" /\ pc = "swapReport" => dir["db"] = built
  /\ job = "install" /\ pc \in {"syncLive", "syncDrop"} \cup Acknowledged => dir["db"] = built
  /\ pc = "abortMarker" => ~regime.powerLoss /\ faults = regime.faults
  /\ pc \in {"down", "recover"} => Clean \/ missed = regime.stats
  /\ pc \in Undoing \cup Sealing /\ job = "recover" => missed = regime.stats
  /\ pc \in Undoing \cup Sealing /\ job = "rollback" =>
       missed = regime.stats \/ faults = regime.faults
  /\ acked <= built

SafeInv == TypeOK /\ RollbackCore /\ SafeCore

LEMMA SafeStep ==
  ASSUME Survivable, TypeOK, RollbackCore, SafeCore, [Next]_vars
  PROVE  SafeCore'
<1> USE DEF SafeCore, LivePair, LiveIs, Clean, BaseBacked, Armed, May, Backing, Undoing,
            Aborting, Acknowledged, Entries, Live, Backups, None
<1>a. /\ regime \in Regimes /\ regime.faults \in {0, 1} /\ regime.stats \in {0, 1}
      /\ regime.powerLoss => ~regime.kill /\ regime.faults = 0
      /\ regime.stats = 1 => ~regime.kill /\ ~regime.powerLoss
  BY OutputPairAssumption DEF TypeOK, Survivable
<1>b. /\ \A e \in Entries : dir[e] \in Nat /\ dir[e] \in durable[e]
      /\ dir \in [Entries -> Generations] /\ durable \in [Entries -> SUBSET Generations]
      /\ base \in [Live -> Generations] /\ base["db"] \in Nat /\ base["report"] \in Nat
      /\ acked \in Nat /\ built \in Nat /\ built # 0 /\ faults \in Nat
      /\ faults <= regime.faults /\ missed \in 0 .. regime.stats
  BY <1>a, OutputPairAssumption DEF TypeOK, Generations, RollbackCore, SeenIsPossible
<1>c. JobOf /\ BackingUp /\ CanRollBack /\ RollingBack
  BY DEF RollbackCore
<1>d. pc \in Labels /\ job \in Jobs
  BY DEF TypeOK
<1>1. CASE BackupDb
  BY <1>1, <1>a, <1>b, <1>c
     DEF BackupDb, Create, CreateFails, Has, Write, Goto, Fault, files, Return, history, JobOf, BackingUp,
         CanRollBack, RollingBack, BackupsHoldBase, Swapping, Sealing
<1>2. CASE BackupReport
  BY <1>2, <1>a, <1>b, <1>c
     DEF BackupReport, Create, CreateFails, Has, Write, Goto, Fault, files, history, JobOf, BackingUp, CanRollBack,
         RollingBack, BackupsHoldBase, Swapping, Sealing
<1>3. CASE SyncBackups
  BY <1>3, <1>a, <1>b, <1>c
     DEF SyncBackups, SyncDirectory, Names, Goto, Fault, files, history, JobOf, BackingUp,
         CanRollBack, RollingBack, BackupsHoldBase, Swapping, Sealing
<1>4. CASE Mark
  BY <1>4, <1>a, <1>b, <1>c
     DEF Mark, Create, CreateFails, Has, Write, Goto, Fault, files, history, JobOf, BackingUp, CanRollBack,
         RollingBack, BackupsHoldBase, Swapping, Sealing
<1>5. CASE SyncMarker
  BY <1>5, <1>a, <1>b, <1>c
     DEF SyncMarker, SyncDirectory, Names, Goto, Fault, files, history, JobOf, BackingUp,
         CanRollBack, RollingBack, BackupsHoldBase, Swapping, Sealing
<1>6. CASE Abort
  BY <1>6, <1>a, <1>b, <1>c
     DEF Abort, RemoveIgnoringErrors, Write, Fault, files, Goto, Return, history, JobOf,
         BackingUp, CanRollBack, RollingBack, BackupsHoldBase, Swapping, Sealing
<1>7. CASE SwapDb
  BY <1>7, <1>a, <1>b, <1>c
     DEF SwapDb, Write, Goto, Fault, files, ReturnOrRollBack, Return, history, JobOf,
         BackingUp, CanRollBack, RollingBack, BackupsHoldBase, Swapping, Sealing
<1>8. CASE SwapReport
  BY <1>8, <1>a, <1>b, <1>c
     DEF SwapReport, Write, Goto, Fault, files, ReturnOrRollBack, Return, history, JobOf,
         BackingUp, CanRollBack, RollingBack, BackupsHoldBase, Swapping, Sealing
<1>9. CASE RemoveDb
  BY <1>9, <1>a, <1>b, <1>c
     DEF RemoveDb, Write, Goto, Fault, files, Return, history, JobOf, BackingUp,
         CanRollBack, RollingBack, BackupsHoldBase, Swapping, Sealing
<1>10. CASE RemoveReport
  BY <1>10, <1>a, <1>b, <1>c
     DEF RemoveReport, Write, Goto, Fault, files, Return, history, JobOf, BackingUp,
         CanRollBack, RollingBack, BackupsHoldBase, Swapping, Sealing
<1>11. CASE RestoreDb
  BY <1>11, <1>a, <1>b, <1>c
     DEF RestoreDb, Has, Write, Goto, Fault, files, Return, history, JobOf, BackingUp,
         CanRollBack, RollingBack, BackupsHoldBase, Swapping, Sealing
<1>12. CASE RestoreReport
  <2>1. ASSUME NEW m \in Overlooked(IF job = "recover" THEN Live ELSE {}), Overlook(m),
               pc = "restoreReport"
        PROVE  m = {} /\ missed' = missed
    <3>1. CASE job = "recover"
      <4>1. missed = regime.stats /\ m \in Overlooked(Live)
        BY <2>1, <3>1
      <4>2. QED
        BY <2>1, <4>1, <1>a, <1>b, OverlookFew, TestsAreFinite
    <3>2. CASE job # "recover"
      BY <2>1, <3>2, <1>b, OverlookNone
    <3>3. QED
      BY <3>1, <3>2
  <2>2. \/ /\ pc = "restoreReport" /\ Has("reportBackup")
           /\ Write("report", dir["reportBackup"]) /\ Goto("syncLive")
           /\ UNCHANGED <<faults, missed, history>>
        \/ /\ pc = "restoreReport" /\ Fault /\ Return
           /\ UNCHANGED <<missed, history>>
    BY <1>12, <2>1 DEF RestoreReport
  <2>3. QED
    BY <2>2, <1>a, <1>b, <1>c
       DEF Has, Write, Goto, Fault, files, Return, history, JobOf, BackingUp, CanRollBack,
           RollingBack, BackupsHoldBase, Swapping, Sealing
<1>13. CASE SyncLive
  <2>1. ASSUME NEW m \in Overlooked(IF job = "install" THEN Live ELSE {}), Overlook(m)
        PROVE  \/ m = {} /\ missed' = missed
               \/ m # {} /\ job = "install" /\ missed' = regime.stats
    <3>1. CASE job = "install"
      BY <2>1, <3>1, <1>a, <1>b, OverlookFew, TestsAreFinite
    <3>2. CASE job # "install"
      BY <2>1, <3>2, <1>b, OverlookNone
    <3>3. QED
      BY <3>1, <3>2
  <2>2. /\ pc = "syncLive" /\ UNCHANGED history
        /\ \/ SyncDirectory /\ Goto("unmark") /\ UNCHANGED <<faults, missed>>
           \/ /\ SyncDirectory /\ job = "install" /\ ReturnOrRollBack
              /\ missed' = regime.stats /\ UNCHANGED faults
           \/ Fault /\ ReturnOrRollBack /\ UNCHANGED missed
    BY <1>13, <2>1 DEF SyncLive
  <2>3. QED
    BY <2>2, <1>a, <1>b, <1>c, <1>d
       DEF Jobs, SyncDirectory, Names, Goto, Fault, files, ReturnOrRollBack, Return, history, JobOf,
           BackingUp, CanRollBack, RollingBack, BackupsHoldBase, Swapping, Sealing
<1>14. CASE Unmark
  BY <1>14, <1>a, <1>b, <1>c, <1>d
     DEF Jobs, Unmark, Write, Goto, Fault, files, ReturnOrRollBack, Return, history, JobOf,
         BackingUp, CanRollBack, RollingBack, BackupsHoldBase, Swapping, Sealing
<1>15. CASE SyncUnmark
  BY <1>15, <1>a, <1>b, <1>c
     DEF SyncUnmark, SyncDirectory, Names, Goto, Fault, files, Return, history, JobOf,
         BackingUp, CanRollBack, RollingBack, BackupsHoldBase, Swapping, Sealing
<1>16. CASE DropBackups
  BY <1>16, <1>a, <1>b, <1>c
     DEF DropBackups, RemoveIgnoringErrors, Write, Fault, files, Goto, history, JobOf,
         BackingUp, CanRollBack, RollingBack, BackupsHoldBase, Swapping, Sealing
<1>17. CASE SyncDrop
  BY <1>17, <1>a, <1>b, <1>c
     DEF SyncDrop, SyncDirectory, Names, Fault, files, Return, JobOf, BackingUp,
         CanRollBack, RollingBack, BackupsHoldBase, Swapping, Sealing
<1>18. CASE Start
  BY <1>18, <1>a, <1>b, <1>c
     DEF Start, files, history, JobOf, BackingUp, CanRollBack, RollingBack,
         BackupsHoldBase, Swapping, Sealing
<1>19. CASE Recover
  <2>1. PICK m \in Overlooked(Present \cup {"markerAgain"}) :
          Overlook(m) /\ (RecoverUnmarked(m) \/ RecoverMarked(m))
    BY <1>19 DEF Recover
  <2>2. /\ pc = "recover" /\ job = "recover"
        /\ UNCHANGED <<dir, durable, base, built, acked, regime, faults>>
    BY <1>19, <1>c DEF Recover, files, history, JobOf
  <2>3. ASSUME Clean PROVE SafeCore'
    <3>1. ~Has("marker")
      BY <2>3, <1>b DEF Has
    <3>2. pc' \in {"build", "dropDb", "down"} /\ job' = "sweep"
      BY <2>1, <3>1 DEF RecoverUnmarked, RecoverMarked, Sees
    <3>3. QED
      BY <2>2, <2>3, <3>2, <1>b
  <2>4. ASSUME Armed, ~Clean PROVE SafeCore'
    <3>1. missed = regime.stats
      BY <2>2, <2>4
    <3>2. m = {} /\ missed' = missed
      BY <2>1, <3>1, <1>a, <1>b, OverlookFew, TestsAreFinite
    <3>3. /\ Has("marker")
          /\ Has("dbBackup") <=> base["db"] # None
          /\ Has("reportBackup") <=> base["db"] # None
      BY <2>4, <1>b DEF Has
    <3>4. /\ job' = "recover"
          /\ pc' = IF base["db"] # None THEN "restoreDb" ELSE "removeDb"
      BY <2>1, <2>2, <3>2, <3>3 DEF RecoverUnmarked, RecoverMarked, Sees
    <3>5. QED
      BY <2>2, <2>4, <3>1, <3>2, <3>4, <1>b DEF Sealing
  <2>5. QED
    BY <2>2, <2>3, <2>4
<1>20. CASE Build
  BY <1>20, <1>a, <1>b, <1>c
     DEF Build, files, JobOf, BackingUp, CanRollBack, RollingBack, BackupsHoldBase,
         Swapping, Sealing
<1>21. CASE Precheck
  <2>1. /\ pc = "precheck" /\ job' = "install" /\ base' = [e \in Live |-> dir[e]]
        /\ pc' \in {"down", "backupDb", "mark"}
        /\ UNCHANGED <<dir, durable, built, acked, regime, faults>>
    BY <1>21 DEF Precheck, files
  <2>2. pc' = "backupDb" => dir["db"] # None
    BY <1>21, <2>1, PrecheckSees, SurvivableFewStats DEF Has
  <2>3. pc' = "mark" => dir["db"] = None
    BY <1>21, <2>1, PrecheckSees, SurvivableFewStats DEF Has
  <2>4. QED
    BY <2>1, <2>2, <2>3, <1>a, <1>b DEF Swapping, Sealing
<1>22. CASE Kill
  <2>1. ~regime.powerLoss /\ missed = regime.stats
    BY <1>22, <1>a, <1>b DEF Kill
  <2>2. Clean \/ Armed
    BY <2>1, <1>b, <1>d DEF Labels
  <2>3. QED
    BY <1>22, <2>1, <2>2, <1>b DEF Kill, files, history, Sealing
<1>23. CASE PowerLoss
  BY <1>23, <1>a, <1>b, <1>c, <1>d
     DEF Sealing, PowerLoss, LosePower, Possible, Names, history, JobOf, BackingUp, Labels
<1>24. CASE UNCHANGED vars
  BY <1>24 DEF vars
<1>25. QED
  BY <1>1, <1>2, <1>3, <1>4, <1>5, <1>6, <1>7, <1>8, <1>9, <1>10, <1>11, <1>12,
     <1>13, <1>14, <1>15, <1>16, <1>17, <1>18, <1>19, <1>20, <1>21, <1>22, <1>23, <1>24
     DEF Next, RecoverStep, InstallStep

LEMMA SafeInit == Init => SafeCore
BY DEF Init, SafeCore, LivePair, LiveIs, Clean, BaseBacked, Armed, May, Backing, Undoing,
       Aborting, Sealing, Acknowledged, Entries, Live, Backups, None

\* What every point of the program may rely on, under the failures of Survivable.
THEOREM SafeInvariant == ASSUME Survivable PROVE Spec => []SafeInv
<1>1. Init => SafeCore /\ RollbackCore
  <2>1. Init => RollbackCore
    BY DEF Init, RollbackCore, SeenIsPossible, JobOf, BackingUp, CanRollBack, RollingBack,
           PairOrMarker, Paired, Backing, Swapping, Aborting, Undoing, Sealing, Entries, Live, Backups
  <2>2. QED
    BY <2>1, SafeInit
<1>2. TypeOK /\ RollbackCore /\ [Next]_vars => RollbackCore'
  BY RollbackStep, SurvivableFewStats, Survivable
<1>3. TypeOK /\ RollbackCore /\ SafeCore /\ [Next]_vars => SafeCore'
  BY SafeStep, Survivable
<1>4. TypeOK /\ RollbackCore /\ SafeCore => SafeInv
  BY DEF SafeInv
<1>5. QED
  BY <1>1, <1>2, <1>3, <1>4, TypeCorrect, PTL DEF Spec

\* "A failed rebuild cannot destroy a previously verified database": kills and one
\* failing call that is not a presence test on a machine that keeps its power,
\* power losses alone, or one failing call and one failing presence test where
\* nothing crashes, leave an unmarked pair that is at least as new as the last
\* acknowledged one.
THEOREM VerifiedPairIsKept == ASSUME Survivable PROVE Spec => []VerifiedPairKept
<1>1. SafeInv => VerifiedPairKept
  <2> SUFFICES ASSUME SafeInv, dir["marker"] = None
               PROVE  dir["db"] >= acked /\ dir["report"] >= acked
    BY DEF VerifiedPairKept
  <2> USE DEF SafeInv, SafeCore
  <2>1. pc \in Labels
    BY DEF TypeOK
  <2>2. Clean => dir["db"] >= acked /\ dir["report"] >= acked
    BY DEF Clean, LivePair
  <2>3. ~Armed
    BY DEF Armed
  <2>4. QED
    BY <2>1, <2>2, <2>3 DEF Labels, Backing, Undoing
<1>2. QED
  BY <1>1, SafeInvariant, PTL

\* Under the same failures an unmarked database never lies next to the report of
\* another build, nor can a power loss put it there.
THEOREM UnmarkedPairIsWhole == ASSUME Survivable PROVE Spec => []UnmarkedPairWhole
<1>1. SafeInv => UnmarkedPairWhole
  <2> SUFFICES ASSUME SafeInv, NEW d \in Disks, d["marker"] = None
               PROVE  d["db"] = d["report"]
    BY DEF UnmarkedPairWhole
  <2>1. \A e \in Entries : d[e] \in May(e)
    BY DEF Disks, Possible, Names, May, SafeInv, TypeOK
  <2>2. {"db", "report", "marker"} \subseteq Entries /\ {"db", "report"} \subseteq Live
    BY DEF Entries, Live
  <2>3. ASSUME LiveIs(dir["db"]) PROVE d["db"] = d["report"]
    BY <2>1, <2>2, <2>3 DEF LiveIs
  <2>4. Clean \/ LivePair => LiveIs(dir["db"])
    BY DEF Clean, LivePair
  <2>5. ~Armed
    BY <2>1, <2>2 DEF Armed
  <2>6. pc \in Labels
    BY DEF SafeInv, TypeOK
  <2>7. QED
    BY <2>3, <2>4, <2>5, <2>6 DEF SafeInv, SafeCore, Labels, Backing, Undoing
<1>2. QED
  BY <1>1, SafeInvariant, PTL

\* Under the same failures recovery never refuses a directory.
THEOREM RecoveryIsNeverStuck == ASSUME Survivable PROVE Spec => []RecoveryNeverStuck
<1>1. SafeInv => RecoveryNeverStuck
  BY DEF SafeInv, SafeCore, RecoveryNeverStuck, StuckWithoutMarker, StuckWithOneBackup, Clean,
         LivePair, Armed, BaseBacked, May, SeesLive, Sees, Has, Live, Backups, TypeOK,
         RollbackCore, SeenIsPossible, Entries
<1>2. QED
  BY <1>1, SafeInvariant, PTL

-----------------------------------------------------------------------------
(***************************************************************************)
(* The refinement: the five names, through every call, kill, failure and   *)
(* recovery, are one value that changes in one step.                       *)
(***************************************************************************)

\* What the refinement needs beside SafeInv: builds are numbered upwards, so the
\* installed one is newer than the one it replaces, and a recovery that removes
\* the marker has the backed up pair live.
StoreCore ==
  /\ \A e \in Entries : \A v \in durable[e] : v <= built
  /\ pc = "precheck" => dir["db"] < built
  /\ job = "install" /\ pc \in Backing \cup Swapping \cup Sealing => base["db"] < built
  /\ job = "recover" /\ pc \in Sealing => dir["db"] = base["db"]

StoreInv == SafeInv /\ StoreCore

\* The pair that counts: the backed up one while the marker is sure to be there.
Counting == IF Armed THEN base["db"] ELSE dir["db"]

LEMMA StoreStep ==
  ASSUME Survivable, SafeInv, SafeInv', StoreCore, [Next]_vars
  PROVE  StoreCore'
<1> USE DEF StoreCore, Backing, Swapping, Sealing, Entries, Live, Backups, None
<1>a. /\ dir \in [Entries -> Generations] /\ durable \in [Entries -> SUBSET Generations]
      /\ \A e \in Entries : dir[e] \in Nat /\ dir[e] \in durable[e] /\ dir[e] <= built
      /\ base \in [Live -> Generations] /\ base["db"] \in Nat /\ built \in Nat /\ built # 0
  BY OutputPairAssumption DEF SafeInv, TypeOK, Generations, RollbackCore, SeenIsPossible
<1>b. JobOf /\ RollingBack
  BY DEF SafeInv, RollbackCore
<1>c. \A e \in Entries : \A v \in durable[e] : v \in Nat
  BY <1>a DEF Generations
<1>1. CASE BackupDb
  BY <1>1, <1>a, <1>b DEF BackupDb, Create, CreateFails, Has, Write, Goto, Fault, files, Return, history, JobOf
<1>2. CASE BackupReport
  BY <1>2, <1>a, <1>b DEF BackupReport, Create, CreateFails, Has, Write, Goto, Fault, files, history, JobOf
<1>3. CASE SyncBackups
  BY <1>3, <1>a, <1>b DEF SyncBackups, SyncDirectory, Names, Goto, Fault, files, history, JobOf
<1>4. CASE Mark
  BY <1>4, <1>a, <1>b DEF Mark, Create, CreateFails, Has, Write, Goto, Fault, files, history, JobOf
<1>5. CASE SyncMarker
  BY <1>5, <1>a, <1>b DEF SyncMarker, SyncDirectory, Names, Goto, Fault, files, history, JobOf
<1>6. CASE Abort
  BY <1>6, <1>a, <1>b
     DEF Abort, RemoveIgnoringErrors, Write, Fault, files, Goto, Return, history, JobOf
<1>7. CASE SwapDb
  BY <1>7, <1>a, <1>b
     DEF SwapDb, Write, Goto, Fault, files, ReturnOrRollBack, Return, history, JobOf
<1>8. CASE SwapReport
  BY <1>8, <1>a, <1>b
     DEF SwapReport, Write, Goto, Fault, files, ReturnOrRollBack, Return, history, JobOf, SafeInv,
         SafeCore
<1>9. CASE RemoveDb
  BY <1>9, <1>a, <1>b DEF RemoveDb, Write, Goto, Fault, files, Return, history, JobOf, Undoing
<1>10. CASE RemoveReport
  BY <1>10, <1>a, <1>b
     DEF RemoveReport, Write, Goto, Fault, files, Return, history, JobOf, Undoing, SafeInv, SafeCore
<1>11. CASE RestoreDb
  BY <1>11, <1>a, <1>b
     DEF RestoreDb, Has, Write, Goto, Fault, files, Return, history, JobOf, Undoing
<1>12. CASE RestoreReport
  BY <1>12, <1>a, <1>b
     DEF RestoreReport, Has, Write, Goto, Fault, files, Return, history, JobOf, Undoing, SafeInv,
         SafeCore
<1>13. CASE SyncLive
  BY <1>13, <1>a, <1>b
     DEF SyncLive, SyncDirectory, Names, Goto, Fault, files, ReturnOrRollBack, Return, history,
         JobOf
<1>14. CASE Unmark
  BY <1>14, <1>a, <1>b
     DEF Unmark, Write, Goto, Fault, files, ReturnOrRollBack, Return, history, JobOf
<1>15. CASE SyncUnmark
  BY <1>15, <1>a, <1>b
     DEF SyncUnmark, SyncDirectory, Names, Goto, Fault, files, Return, history, JobOf
<1>16. CASE DropBackups
  BY <1>16, <1>a, <1>b
     DEF DropBackups, RemoveIgnoringErrors, Write, Fault, files, Goto, history, JobOf
<1>17. CASE SyncDrop
  BY <1>17, <1>a, <1>b DEF SyncDrop, SyncDirectory, Names, Fault, files, Return, JobOf
<1>18. CASE Start
  BY <1>18, <1>a, <1>b DEF Start, files, history, JobOf
<1>19. CASE Recover
  <2>1. UNCHANGED <<dir, durable, base, built>> /\ job = "recover"
    BY <1>19, <1>b DEF Recover, files, history, JobOf
  <2>2. pc' # "syncLive"
    <3>1. \A e \in Entries : dir[e] \in May(e)
      BY <1>a DEF May
    <3>3. SUFFICES ASSUME pc' = "syncLive" PROVE FALSE
      OBVIOUS
    <3>4. PICK m \in Overlooked(Present \cup {"markerAgain"}) :
            Overlook(m) /\ (RecoverUnmarked(m) \/ RecoverMarked(m))
      BY <1>19 DEF Recover
    <3>5. Has("marker") /\ Sees("dbBackup", m) # Sees("reportBackup", m)
      BY <3>3, <3>4 DEF RecoverUnmarked, RecoverMarked, Sees
    <3>6. Armed /\ ~Clean
      BY <1>19, <3>1, <3>5 DEF Recover, Clean, Has, SafeInv, SafeCore
    <3>7. Has("dbBackup") <=> Has("reportBackup")
      BY <3>1, <3>6 DEF Armed, BaseBacked, Has
    <3>8. m = {}
      <4>1. missed = regime.stats /\ missed \in 0 .. regime.stats
        BY <1>19, <3>6 DEF Recover, SafeInv, SafeCore, TypeOK
      <4>2. regime.stats \in {0, 1}
        BY DEF Survivable, SafeInv, TypeOK
      <4>3. QED
        BY <3>4, <4>1, <4>2, OverlookFew, TestsAreFinite
    <3>9. QED
      BY <3>5, <3>7, <3>8 DEF Sees
  <2>3. pc' \notin {"precheck", "unmark"} \cup Backing \cup Swapping
    BY <1>19 DEF Recover, RecoverUnmarked, RecoverMarked
  <2>4. QED
    BY <2>1, <2>2, <2>3, <1>a
<1>20. CASE Build
  BY <1>20, <1>a, <1>b, <1>c DEF Build, files, JobOf
<1>21. CASE Precheck
  BY <1>21, <1>a, <1>b DEF Precheck, files, JobOf
<1>22. CASE Kill
  BY <1>22, <1>a, <1>b DEF Kill, files, history
<1>23. CASE PowerLoss
  BY <1>23, <1>a, <1>b DEF PowerLoss, LosePower, Possible, Names, history
<1>24. CASE UNCHANGED vars
  BY <1>24 DEF vars
<1>25. QED
  BY <1>1, <1>2, <1>3, <1>4, <1>5, <1>6, <1>7, <1>8, <1>9, <1>10, <1>11, <1>12,
     <1>13, <1>14, <1>15, <1>16, <1>17, <1>18, <1>19, <1>20, <1>21, <1>22, <1>23, <1>24
     DEF Next, RecoverStep, InstallStep

\* What the refinement relies on, under the failures of Survivable.
THEOREM StoreInvariant == ASSUME Survivable PROVE Spec => []StoreInv
<1>1. Init => StoreCore
  BY DEF Init, StoreCore, Backing, Swapping, Sealing, Entries, Live, None
<1>2. SafeInv /\ SafeInv' /\ StoreCore /\ [Next]_vars => StoreCore'
  BY StoreStep, Survivable
<1>3. SafeInv /\ StoreCore => StoreInv
  BY DEF StoreInv
<1>4. QED
  BY <1>1, <1>2, <1>3, SafeInvariant, PTL DEF Spec

\* The directories the next command may find hold what each name may hold.
LEMMA DisksMay ==
  ASSUME TypeOK, SeenIsPossible
  PROVE  /\ dir \in Disks
         /\ \A d \in Disks : \A e \in Entries : d[e] \in May(e)
<1>1. dir \in Possible
  BY DEF TypeOK, SeenIsPossible, Possible, Names
<1>2. QED
  BY <1>1 DEF TypeOK, Disks, Possible, Names, May

\* Before the marker is removed and once that is durable, recovery makes the same
\* pair of every directory the next command may find.
LEMMA OneOutcome ==
  ASSUME Survivable, SafeInv
  PROVE  /\ Outcome(dir) = Store!Whole(Counting)
         /\ pc # "syncUnmark" => \A d \in Disks : Outcome(d) = Store!Whole(Counting)
<1> USE DEF Store!Whole, Outcome, None, Counting
<1>1. dir \in Disks /\ \A d \in Disks : \A e \in Entries : d[e] \in May(e)
  BY DisksMay DEF SafeInv, RollbackCore
<1>2. /\ "marker" \in Entries /\ "db" \in Entries /\ "report" \in Entries
      /\ "dbBackup" \in Entries /\ "reportBackup" \in Entries
      /\ Live = {"db", "report"} /\ Backups = {"dbBackup", "reportBackup"}
  BY DEF Entries, Live, Backups
<1>3. ASSUME Clean, NEW d \in Disks PROVE Outcome(d) = Store!Whole(Counting)
  BY <1>1, <1>2, <1>3 DEF Clean, LivePair, LiveIs, Armed
<1>4. ASSUME Armed, NEW d \in Disks PROVE Outcome(d) = Store!Whole(Counting)
  BY <1>1, <1>2, <1>4 DEF Armed, BaseBacked
<1>5. ASSUME LivePair, BaseBacked, base["db"] = dir["db"], NEW d \in Disks
      PROVE  Outcome(d) = Store!Whole(Counting)
  BY <1>1, <1>2, <1>5 DEF LivePair, LiveIs, BaseBacked
<1>6. pc \in {"syncMarker", "abortMarker"} => LivePair /\ BaseBacked /\ base["db"] = dir["db"]
  BY DEF SafeInv, SafeCore
<1>7. pc \notin {"syncMarker", "abortMarker", "syncUnmark"} => Clean \/ Armed
  BY DEF SafeInv, SafeCore, TypeOK, Labels, Backing, Undoing
<1>8. pc = "syncUnmark" => Outcome(dir) = Store!Whole(Counting)
  BY DEF SafeInv, SafeCore, Armed
<1>9. QED
  BY <1>1, <1>3, <1>4, <1>5, <1>6, <1>7, <1>8

\* While the removal of the marker is not durable, it may come back.
LEMMA TwoOutcomes ==
  ASSUME Survivable, SafeInv, pc = "syncUnmark"
  PROVE  \A d \in Disks : Outcome(d) \in {Store!Whole(base["db"]), Store!Whole(dir["db"])}
<1>1. \A d \in Disks : \A e \in Entries : d[e] \in May(e)
  BY DisksMay DEF SafeInv, RollbackCore
<1>2. LiveIs(dir["db"]) /\ BaseBacked
  BY DEF SafeInv, SafeCore
<1>3. /\ {"db", "report", "dbBackup", "reportBackup"} \subseteq Entries
      /\ Live = {"db", "report"} /\ Backups = {"dbBackup", "reportBackup"}
  BY DEF Entries, Live, Backups
<1>4. QED
  BY <1>1, <1>2, <1>3 DEF LiveIs, BaseBacked, Store!Whole, Outcome, None

\* Which of the two pairs counts, by the point of the program.
CountsAt ==
  /\ pc \in {"build", "precheck", "mark", "syncMarker", "syncUnmark", "dropDb", "dropReport",
             "syncDrop"} \cup Backing \cup Aborting => Counting = dir["db"]
  /\ pc \in {"swapDb", "swapReport"} \cup Sealing \cup Undoing => Counting = base["db"]

LEMMA CountingAt == SafeInv => CountsAt
<1> SUFFICES ASSUME SafeInv PROVE CountsAt
  OBVIOUS
<1>1. dir["marker"] \in May("marker")
  BY DEF SafeInv, RollbackCore, SeenIsPossible, May, Entries
<1>2. Clean => ~Armed
  BY <1>1 DEF Clean, Armed
<1>3. QED
  BY <1>2 DEF SafeInv, SafeCore, CountsAt, Counting, Armed, Backing, Aborting, Sealing, Undoing

LEMMA CountingAtNext == SafeInv' => CountsAt'
BY CountingAt, PTL

\* Nothing but the removal of the marker by an installation changes the pair that
\* counts.  A power loss, which chooses a directory, is looked at below.
LEMMA CountingKept ==
  ASSUME Survivable, SafeInv, SafeInv', StoreCore, [Next]_vars, ~PowerLoss,
         ~(Unmark /\ job = "install" /\ pc' = "syncUnmark")
  PROVE  Counting' = Counting
<1> USE DEF CountsAt, Backing, Aborting, Sealing, Undoing, Goto, Return, ReturnOrRollBack, history
<1>a. UNCHANGED <<dir, durable, base, acked, regime>> => Counting' = Counting
  BY DEF Counting, Armed, BaseBacked, May
<1>b. CountsAt
  BY CountingAt
<1>c. CountsAt'
  BY CountingAtNext
<1>d. Fault \/ UNCHANGED files => UNCHANGED <<dir, durable>>
  BY DEF Fault, files
<1>e. ASSUME Clean, dir' \in [Entries -> Generations], dir'["marker"] = dir["marker"]
      PROVE  ~Armed'
  BY <1>e DEF Clean, Armed, SafeInv, RollbackCore, SeenIsPossible, May, Entries
<1>f. \A e \in Entries : \A v : dir' = [dir EXCEPT ![e] = v] =>
        /\ dir'[e] = v
        /\ \A n \in Entries \ {e} : dir'[n] = dir[n]
  BY DEF SafeInv, TypeOK
<1>g. {"db", "report", "dbBackup", "reportBackup", "marker"} = Entries
  BY DEF Entries, Live, Backups
<1>h. dir' \in [Entries -> Generations]
  BY DEF SafeInv, TypeOK
<1>1. CASE BackupDb
  BY <1>1, <1>a, <1>b, <1>c, <1>d, <1>f, <1>g DEF BackupDb, Create, CreateFails, Write
<1>2. CASE BackupReport
  BY <1>2, <1>a, <1>b, <1>c, <1>d, <1>f, <1>g DEF BackupReport, Create, CreateFails, Write
<1>3. CASE SyncBackups
  BY <1>3, <1>a, <1>b, <1>c, <1>d DEF SyncBackups, SyncDirectory
<1>4. CASE Mark
  BY <1>4, <1>a, <1>b, <1>c, <1>d, <1>f, <1>g DEF Mark, Create, CreateFails, Write
<1>5. CASE SyncMarker
  <2>1. base["db"] = dir["db"]
    BY <1>5 DEF SyncMarker, SafeInv, SafeCore
  <2>2. QED
    BY <1>5, <2>1, <1>a, <1>b, <1>c, <1>d DEF SyncMarker, SyncDirectory
<1>6. CASE Abort
  <2>1. CASE pc \in {"abortReport", "abortFirst"}
    <3>1. Clean
      BY <2>1 DEF SafeInv, SafeCore
    <3>2. dir'["marker"] = dir["marker"] /\ dir'["db"] = dir["db"]
      BY <1>6, <2>1, <1>d, <1>f, <1>g DEF Abort, RemoveIgnoringErrors, Write
    <3>3. QED
      BY <2>1, <3>1, <3>2, <1>b, <1>e, <1>h DEF Counting
  <2>2. CASE pc \notin {"abortReport", "abortFirst"}
    BY <1>6, <2>2, <1>a, <1>b, <1>c, <1>d, <1>f, <1>g DEF Abort, RemoveIgnoringErrors, Write
  <2>3. QED
    BY <2>1, <2>2
<1>7. CASE SwapDb
  BY <1>7, <1>a, <1>b, <1>c, <1>d DEF SwapDb
<1>8. CASE SwapReport
  BY <1>8, <1>a, <1>b, <1>c, <1>d DEF SwapReport
<1>9. CASE RemoveDb
  BY <1>9, <1>a, <1>b, <1>c, <1>d DEF RemoveDb
<1>10. CASE RemoveReport
  BY <1>10, <1>a, <1>b, <1>c, <1>d DEF RemoveReport
<1>11. CASE RestoreDb
  BY <1>11, <1>a, <1>b, <1>c, <1>d DEF RestoreDb
<1>12. CASE RestoreReport
  <2>1. CASE Fault
    BY <1>12, <2>1, <1>a, <1>d DEF RestoreReport
  <2>2. CASE ~Fault
    <3>1. /\ Write("report", dir["reportBackup"])
          /\ UNCHANGED <<base, acked, regime>>
      BY <1>12, <2>2 DEF RestoreReport
    <3>2. \A e \in Entries \ {"report"} : dir'[e] = dir[e] /\ durable'[e] = durable[e]
      BY <3>1 DEF Write, SafeInv, TypeOK
    <3>3. QED
      BY <3>1, <3>2 DEF Counting, Armed, BaseBacked, May, Entries, Live, Backups
  <2>3. QED
    BY <2>1, <2>2
<1>13. CASE SyncLive
  <2>1. CASE Fault
    BY <1>13, <2>1, <1>a, <1>d DEF SyncLive
  <2>2. CASE ~Fault
    <3>1. pc = "syncLive" /\ UNCHANGED <<dir, base>>
      BY <1>13, <2>2 DEF SyncLive, SyncDirectory
    <3>2. PICK m \in Overlooked(IF job = "install" THEN Live ELSE {}) :
            IF m = {} THEN Goto("unmark") ELSE ReturnOrRollBack
      BY <1>13, <2>2 DEF SyncLive
    <3>3. m # {} => job = "install"
      BY <3>2 DEF Overlooked
    <3>4. pc' \in {"unmark", "removeDb"}
      BY <3>2, <3>3
    <3>5. QED
      BY <3>1, <3>4, <1>b, <1>c
  <2>3. QED
    BY <2>1, <2>2
<1>14. CASE Unmark
  <2>1. CASE Fault
    BY <1>14, <2>1, <1>a, <1>d DEF Unmark
  <2>2. CASE ~Fault
    <3>1. pc' = "syncUnmark" /\ dir'["db"] = dir["db"] /\ pc = "unmark"
      BY <1>14, <2>2, <1>f, <1>g DEF Unmark, Write
    <3>2. job \in {"recover", "rollback"}
      BY <1>14, <3>1 DEF SafeInv, RollbackCore, JobOf, TypeOK, Jobs
    <3>3. dir["db"] = base["db"]
      BY <3>1, <3>2 DEF StoreCore, SafeInv, RollbackCore, RollingBack, Acknowledged
    <3>4. QED
      BY <3>1, <3>3, <1>b, <1>c
  <2>3. QED
    BY <2>1, <2>2
<1>15. CASE SyncUnmark
  BY <1>15, <1>a, <1>b, <1>c, <1>d DEF SyncUnmark, SyncDirectory
<1>16. CASE DropBackups
  BY <1>16, <1>a, <1>b, <1>c, <1>d, <1>f, <1>g DEF DropBackups, RemoveIgnoringErrors, Write
<1>17. CASE SyncDrop
  <2>1. Clean /\ Counting = dir["db"] /\ UNCHANGED dir
    BY <1>17, <1>b, <1>d DEF SyncDrop, SyncDirectory, SafeInv, SafeCore
  <2>2. QED
    BY <2>1, <1>e, <1>h DEF Counting
<1>18. CASE Start
  BY <1>18, <1>a DEF Start, files
<1>19. CASE Recover
  BY <1>19, <1>a DEF Recover, files
<1>20. CASE Build
  BY <1>20, <1>a DEF Build, files
<1>21. CASE Precheck
  <2>1. Clean /\ Counting = dir["db"] /\ UNCHANGED dir
    BY <1>21, <1>b DEF Precheck, files, SafeInv, SafeCore
  <2>2. QED
    BY <2>1, <1>e, <1>h DEF Counting
<1>22. CASE Kill
  BY <1>22, <1>a DEF Kill, files
<1>23. CASE UNCHANGED vars
  BY <1>23, <1>a DEF vars
<1>24. QED
  BY <1>1, <1>2, <1>3, <1>4, <1>5, <1>6, <1>7, <1>8, <1>9, <1>10, <1>11, <1>12,
     <1>13, <1>14, <1>15, <1>16, <1>17, <1>18, <1>19, <1>20, <1>21, <1>22, <1>23
     DEF Next, RecoverStep, InstallStep

\* After a power loss there is one directory left, one of those it could leave.
LEMMA PowerLossImplements == ASSUME TypeOK, PowerLoss PROVE Store!Crash
<1>1. regime.powerLoss /\ regime'.powerLoss /\ dir' \in Possible
  BY DEF PowerLoss, LosePower, history
<1>2. Disks = Possible /\ Disks' = Possible'
  BY <1>1 DEF Disks
<1>3. Possible' = {dir'}
  <2>1. /\ durable' = [n \in Entries |-> {dir'[n]}]
      /\ dir' \in [Entries -> UNION {durable[n] : n \in Entries}]
    BY DEF PowerLoss, LosePower, Possible, Names, TypeOK
  <2>2. Names' = Entries
    BY <2>1 DEF Names
  <2>3. dir' \in Possible'
    BY <2>1, <2>2 DEF Possible
  <2>4. \A d \in Possible' : d = dir'
    <3> SUFFICES ASSUME NEW d \in Possible' PROVE d = dir'
      OBVIOUS
    <3>1. DOMAIN d = Entries /\ d = [n \in Entries |-> d[n]] /\ \A n \in Entries : d[n] = dir'[n]
      BY <2>1, <2>2 DEF Possible
    <3>2. QED
      BY <2>1, <3>1
  <2>5. QED
    BY <2>3, <2>4
<1>4. Outcome(dir)' \in {Outcome(d) : d \in Disks}
  BY <1>1, <1>2 DEF Outcome
<1>5. {Outcome(d) : d \in Disks}' = {Outcome(dir)'}
  BY <1>2, <1>3 DEF Outcome
<1>6. QED
  BY <1>4, <1>5 DEF Store!Crash

LEMMA StoreInit == Init => Store!Init
<1> SUFFICES ASSUME Init PROVE Store!Init
  OBVIOUS
<1>1. PICK g \in {None, 1} :
        /\ dir = [e \in Entries |-> IF e \in Live THEN g ELSE None]
        /\ durable = [e \in Entries |-> {dir[e]}]
  BY DEF Init
<1>2. g \in Generations
  BY OutputPairAssumption DEF Generations, None
<1>3. Outcome(dir) = Store!Whole(g)
  BY <1>1 DEF Outcome, Store!Whole, Entries, Live, Backups, None
<1>4. Names = Entries
  BY <1>1 DEF Names
<1>5. dir \in Possible
  BY <1>1, <1>4 DEF Possible
<1>6. \A d \in Possible : d = dir
  <2> SUFFICES ASSUME NEW d \in Possible PROVE d = dir
    OBVIOUS
  <2>1. d = [n \in Entries |-> d[n]] /\ \A n \in Entries : d[n] = dir[n]
    BY <1>1, <1>4 DEF Possible
  <2>2. dir = [n \in Entries |-> dir[n]]
    BY <1>1
  <2>3. QED
    BY <2>1, <2>2
<1>7. Disks = {dir}
  BY <1>5, <1>6 DEF Disks
<1>8. QED
  BY <1>2, <1>3, <1>7 DEF Store!Init

\* One pair that recovery would produce: what StoreInv means for the store.
OnePair ==
  /\ Outcome(dir) = Store!Whole(Counting) /\ dir \in Disks
  /\ pc # "syncUnmark" => \A d \in Disks : Outcome(d) = Store!Whole(Counting)

LEMMA OnePairNow == ASSUME Survivable PROVE SafeInv => OnePair
BY OneOutcome, DisksMay DEF OnePair, SafeInv, RollbackCore

LEMMA OnePairNext == ASSUME Survivable PROVE SafeInv' => OnePair'
BY OnePairNow, PTL

\* While the removal may come back there are at most two.
TwoPairs ==
  pc = "syncUnmark" =>
    \A d \in Disks : Outcome(d) \in {Store!Whole(base["db"]), Store!Whole(dir["db"])}

LEMMA TwoPairsNext == ASSUME Survivable PROVE SafeInv' => TwoPairs'
<1>1. SafeInv => TwoPairs
  BY TwoOutcomes DEF TwoPairs
<1>2. QED
  BY <1>1, PTL

LEMMA StoreStepImplements ==
  ASSUME Survivable, StoreInv, StoreInv', [Next]_vars
  PROVE  [Store!Next]_<<Outcome(dir), {Outcome(d) : d \in Disks}>>
<1> DEFINE pair == Outcome(dir)
           left == {Outcome(d) : d \in Disks}
<1>a. SafeInv /\ SafeInv' /\ StoreCore /\ TypeOK
  BY DEF StoreInv, SafeInv
<1>b. /\ pair = Store!Whole(Counting) /\ pair \in left
      /\ pc # "syncUnmark" => left = {pair}
  BY <1>a, OnePairNow DEF OnePair
<1>c. /\ pair' = Store!Whole(Counting)' /\ (pair \in left)'
      /\ pc' # "syncUnmark" => left' = {pair'}
  BY <1>a, OnePairNext DEF OnePair
<1>d. /\ CountsAt /\ CountsAt'
      /\ pc' = "syncUnmark" => left' \subseteq {Store!Whole(base'["db"]), Store!Whole(dir'["db"])}
  BY <1>a, CountingAt, CountingAtNext, TwoPairsNext DEF TwoPairs
<1>1. CASE PowerLoss
  BY <1>1, <1>a, PowerLossImplements DEF Store!Next
<1>2. CASE Unmark /\ job = "install" /\ pc' = "syncUnmark"
  <2>1. pc = "unmark" /\ base' = base
    BY <1>2 DEF Unmark, history
  <2>2. pair = Store!Whole(base["db"]) /\ left = {pair}
    BY <2>1, <1>b, <1>d DEF CountsAt, Sealing
  <2>3. pair' = Store!Whole(dir'["db"])
    BY <1>2, <1>c, <1>d DEF CountsAt
  <2>4. left' = {pair'} \/ left' = left \cup {pair'}
    BY <1>2, <2>1, <2>2, <2>3, <1>c, <1>d
  <2>5. dir'["db"] = built
    <3>1. dir["db"] = built
      BY <1>2, <2>1, <1>a DEF SafeInv, SafeCore, Acknowledged
    <3>2. dir'["db"] = dir["db"]
      BY <1>2, <1>a
         DEF Unmark, Goto, ReturnOrRollBack, Return, Write, Fault, files, TypeOK, Entries, Live,
             Backups
    <3>3. QED
      BY <3>1, <3>2
  <2>6. built \in Generations /\ base["db"] < built
    BY <1>2, <2>1, <1>a, OutputPairAssumption DEF StoreCore, Sealing, TypeOK, Generations
  <2>7. built > pair[1]
    BY <2>2, <2>6, <1>a DEF Store!Whole, TypeOK, Live, Generations
  <2>8. Store!Publish
    BY <2>3, <2>4, <2>5, <2>6, <2>7 DEF Store!Publish
  <2>9. QED
    BY <2>8 DEF Store!Next
<1>3. CASE ~PowerLoss /\ ~(Unmark /\ job = "install" /\ pc' = "syncUnmark")
  <2>1. pair' = pair
    <3>1. Counting' = Counting
      BY <1>3, <1>a, CountingKept
    <3>2. QED
      BY <3>1, <1>b, <1>c DEF Store!Whole
  <2>2. CASE pc' # "syncUnmark"
    <3>1. left' = {pair}
      BY <2>1, <2>2, <1>c
    <3>2. QED
      BY <2>1, <3>1 DEF Store!Next, Store!Persist
  <2>3. CASE pc' = "syncUnmark" /\ pc # "syncUnmark"
    <3>1. Unmark
      BY <2>3 DEF Next, RecoverStep, InstallStep, Start, Recover, RecoverUnmarked, RecoverMarked,
         RemoveDb, RemoveReport, RestoreDb, RestoreReport, SyncLive, SyncUnmark, DropBackups,
         SyncDrop, Build, Precheck, BackupDb, BackupReport, SyncBackups, Mark, SyncMarker, Abort,
         SwapDb, SwapReport, Kill, PowerLoss, Goto, Return, ReturnOrRollBack, vars
    <3>2. pc = "unmark" /\ base' = base
      BY <3>1 DEF Unmark, history
    <3>3. pair = Store!Whole(base["db"]) /\ left = {pair}
      BY <3>2, <1>b, <1>d DEF CountsAt, Sealing
    <3>4. pair' = Store!Whole(dir'["db"])
      BY <2>3, <1>c, <1>d DEF CountsAt
    <3>5. left' = {pair}
      BY <2>1, <2>3, <3>2, <3>3, <3>4, <1>c, <1>d
    <3>6. QED
      BY <2>1, <3>3, <3>5
  <2>4. CASE pc' = "syncUnmark" /\ pc = "syncUnmark"
    <3>1. UNCHANGED vars
      BY <2>4 DEF Next, RecoverStep, InstallStep, Start, Recover, RemoveDb, RemoveReport, RestoreDb,
         RestoreReport, SyncLive, Unmark, SyncUnmark, DropBackups, SyncDrop, Build, Precheck,
         BackupDb, BackupReport, SyncBackups, Mark, SyncMarker, Abort, SwapDb, SwapReport, Kill,
         PowerLoss, Goto, Return
    <3>2. Disks' = Disks
      BY <3>1 DEF vars, Disks, Possible, Names
    <3>3. left' = left
      BY <3>2 DEF Outcome
    <3>4. QED
      BY <2>1, <3>3
  <2>5. QED
    BY <2>2, <2>3, <2>4
<1>4. QED
  BY <1>1, <1>2, <1>3

\* The protocol implements the store: through every kill and one failing call that
\* is not a presence test, through every power loss, or through one failing call
\* and one failing presence test without a crash, for any number of rebuilds, the pair recovery would
\* produce changes in one step, to a newer build, and never to a mixed one.
THEOREM StoreIsImplemented == ASSUME Survivable PROVE Spec => ImplementsStore
<1>1. StoreInv /\ StoreInv' /\ [Next]_vars
        => [Store!Next]_<<Outcome(dir), {Outcome(d) : d \in Disks}>>
  BY StoreStepImplements, Survivable
<1>2. QED
  BY <1>1, StoreInit, StoreInvariant, PTL DEF Spec, ImplementsStore, Store!Spec
=============================================================================
