------------------------------- MODULE Backup -------------------------------
(***************************************************************************)
(* The server's data directory (the revision log in SQLite and the         *)
(* content-addressed blobs beside it), the backup artifacts taken of it    *)
(* by the scheduler inside the server and by `havemind backup` beside it,  *)
(* keep-N retention, the startup sweep and the restore.                    *)
(*                                                                         *)
(* A revision is a number and BlobOf gives its blob.  The push handler is  *)
(* module RevisionRepository's; here it puts one blob and commits one row. *)
(* Files that never match their name (the temporary file of a put, a       *)
(* staging directory a crash leaves) are never listed and are left out.    *)
(* Time is counted in ticks, Interval of them between two backups.         *)
(***************************************************************************)
EXTENDS Integers, Sequences, SequencesExt, FiniteSets, FiniteSetsExt

CONSTANTS
    Blobs,
    MaxRevs,        \* bound on the revisions ever pushed
    BlobOf,         \* the blob of each of them
    Keep,           \* artifacts retention keeps
    Interval,       \* intervalMs, in ticks
    MaxArtifacts,   \* bound on the backup cycles ever begun
    MaxRestores,    \* bound on restores
    MaxFaults,      \* bound on crashes and I/O errors
    MaxDecays       \* bound on files whose bytes go bad on disk

Db == "havemind.db"

ASSUME BackupAssumption ==
    /\ BlobOf \in [1..MaxRevs -> Blobs]
    /\ Keep \in Nat \ {0} /\ Interval \in Nat \ {0}
    /\ {MaxRevs, MaxArtifacts, MaxRestores, MaxFaults, MaxDecays} \subseteq Nat
    /\ Db \notin Blobs

VARIABLES
    log,        \* the committed revisions, in server sequence order
    epoch,      \* server_epoch, counted
    minted,     \* revisions ever pushed
    disk,       \* the state of each blob's file
    put,        \* the push in flight: its revision and whether its blob is stored
    up,         \* the server process runs
    cycle,      \* the backup cycle of each process
    artifacts,  \* published artifacts, oldest first by createdAt
    ids,        \* backup ids handed out
    decayed,    \* files of artifacts whose bytes went bad
    wounded,    \* history: blobs whose live file went bad
    age,        \* ticks since the newest artifact, as far as Never
    due,        \* ticks until the scheduler's timer fires
    target,     \* the directory being restored into
    restores, faults, decays

data == <<log, epoch, disk>>
store == <<artifacts, decayed>>
clock == <<age, due>>
budget == <<restores, faults, decays>>
vars == <<data, minted, put, up, cycle, store, ids, wounded, clock, target, budget>>

Procs == {"scheduler", "cli"}
Never == 2 * Interval
Nothing == [is |-> "nothing"]
Idle == [at |-> "idle"]

Refs(revs) == {BlobOf[revs[i]] : i \in DOMAIN revs}

\* An artifact's file is the copy it was first written as: a hard link shares it.
Listed == ToSet(artifacts)
Newest == Last(artifacts)
ById(id) == CHOOSE a \in Listed : a.id = id
Intact(a, f) == f \in DOMAIN a.files /\ <<a.files[f], f>> \notin decayed

TypeOK ==
    /\ log \in Seq(1..MaxRevs) /\ epoch \in 0..MaxRestores /\ minted \in 0..MaxRevs
    /\ disk \in [Blobs -> {"absent", "good", "rotten"}]
    /\ put \in {Nothing} \cup [is : {"temp", "stored"}, rev : 1..MaxRevs]
    /\ up \in BOOLEAN
    /\ \A p \in Procs : cycle[p].at \in {"idle", "due", "snapped", "copying", "published",
                                         "listed", "removing"}
    /\ \A a \in Listed : /\ a.id \in 1..ids /\ a.snap \in Seq(1..MaxRevs)
                         /\ a.manifest \subseteq Blobs
                         /\ DOMAIN a.files \subseteq Blobs \cup {Db}
    /\ age \in 0..Never /\ due \in 0..Interval

Init ==
    /\ log = <<>> /\ epoch = 0 /\ minted = 0
    /\ disk = [b \in Blobs |-> "absent"]
    /\ put = Nothing /\ up = FALSE
    /\ cycle = [p \in Procs |-> Idle]
    /\ artifacts = <<>> /\ ids = 0 /\ decayed = {} /\ wounded = {}
    /\ age = Never /\ due = Interval
    /\ target = Nothing
    /\ restores = 0 /\ faults = 0 /\ decays = 0

-----------------------------------------------------------------------------
(* Pushes.                                                                 *)

\* #verifyExisting: a stored file holds the bytes its name says.
ReadsBack(b) == disk[b] = "good"

\* The blob of a push is put: an existing file is read back and verified, a
\* missing one is first written to a temporary file.
PushPut ==
    /\ up /\ put = Nothing /\ minted < MaxRevs
    /\ minted' = minted + 1
    /\ LET b == BlobOf[minted + 1] IN
         put' = CASE ReadsBack(b)       -> [is |-> "stored", rev |-> minted + 1]
                  [] disk[b] = "absent" -> [is |-> "temp", rev |-> minted + 1]
                  [] disk[b] = "rotten" -> Nothing
    /\ UNCHANGED <<data, up, cycle, store, ids, wounded, clock, target, budget>>

\* The temporary file is synced and renamed, the directory synced.
PutRename ==
    /\ put.is = "temp"
    /\ put' = [put EXCEPT !.is = "stored"]
    /\ disk' = [disk EXCEPT ![BlobOf[put.rev]] = "good"]
    /\ UNCHANGED <<log, epoch, minted, up, cycle, store, ids, wounded, clock, target, budget>>

\* The revision is committed, or refused: its blob is then referenced by nothing.
PushEnd ==
    /\ put.is = "stored"
    /\ put' = Nothing
    /\ \/ log' = Append(log, put.rev)
       \/ UNCHANGED log
    /\ UNCHANGED <<epoch, disk, minted, up, cycle, store, ids, wounded, clock, target, budget>>

-----------------------------------------------------------------------------
(* The server process.                                                     *)

\* sweepOrphanedBlobs: only what some committed revision references stays.
Sweep == disk' = [b \in Blobs |-> IF b \in Refs(log) THEN disk[b] ELSE "absent"]

Overdue == artifacts = <<>> \/ age >= Interval

\* startBackupScheduler: an overdue backup runs now, a recent one leaves the rest
\* of its interval.
StartScheduler ==
    /\ due' = IF Overdue THEN Interval ELSE Interval - age
    /\ cycle' = [cycle EXCEPT !["scheduler"] = IF Overdue THEN [at |-> "due"] ELSE Idle]

\* main: the sweep runs before the server listens.
Boot ==
    /\ ~up /\ target = Nothing
    /\ up' = TRUE
    /\ Sweep
    /\ StartScheduler
    /\ UNCHANGED <<log, epoch, minted, put, store, ids, wounded, age, target, budget>>

NoFiles == [f \in {} |-> 0]

\* What a recursive rm that is cut off leaves: the manifest, and files missing.
\* (All of them here: a part of them leaves an artifact just as unrestorable.)
Torn(p) ==
    IF cycle[p].at # "removing" THEN {artifacts}
    ELSE {artifacts} \cup
         {[artifacts EXCEPT ![i].files = NoFiles] :
            i \in {j \in DOMAIN artifacts : artifacts[j].id \in cycle[p].removed}}

\* The server is stopped or dies; what it had staged is never listed.
Halt ==
    /\ up /\ faults < MaxFaults
    /\ up' = FALSE
    /\ put' = Nothing
    /\ artifacts' \in Torn("scheduler")
    /\ cycle' = [cycle EXCEPT !["scheduler"] = Idle]
    /\ faults' = faults + 1
    /\ UNCHANGED <<data, minted, ids, decayed, wounded, clock, target, restores, decays>>

Later(ticks) == IF ticks < Never THEN ticks + 1 ELSE Never

\* Time passes.  A backup cycle of the scheduler takes less than a tick, and time
\* stops when no backup id is left.
Tick ==
    /\ ids < MaxArtifacts
    /\ cycle["scheduler"] = Idle
    /\ up => due > 0
    /\ age' = Later(age)
    /\ due' = IF up THEN due - 1 ELSE due
    /\ UNCHANGED <<data, minted, put, up, cycle, store, ids, wounded, target, budget>>

\* The timer fires: it is armed again, and a tick while a run is in flight is dropped.
Fire ==
    /\ up /\ due = 0
    /\ due' = Interval
    /\ cycle' = IF cycle["scheduler"] = Idle
                THEN [cycle EXCEPT !["scheduler"] = [at |-> "due"]] ELSE cycle
    /\ UNCHANGED <<data, minted, put, up, store, ids, wounded, age, target, budget>>

-----------------------------------------------------------------------------
(* One backup cycle: runScheduledBackup.                                   *)

Set(p, c) == cycle' = [cycle EXCEPT ![p] = c]

\* runCreate of the command line; it may run while the server does or not, though
\* not beside a restore: the operator does one thing at a time.
BackupCli ==
    /\ cycle["cli"] = Idle /\ ids < MaxArtifacts /\ target = Nothing
    /\ Set("cli", [at |-> "due"])
    /\ UNCHANGED <<data, minted, put, up, store, ids, wounded, clock, target, budget>>

\* The newest artifact is looked up and the database snapshot taken.
Snapshot(p) ==
    /\ cycle[p].at = "due" /\ ids < MaxArtifacts
    /\ ids' = ids + 1
    /\ Set(p, [at |-> "snapped", id |-> ids + 1, snap |-> log, from |-> epoch,
               prev |-> IF artifacts = <<>> THEN 0 ELSE Newest.id])
    /\ UNCHANGED <<data, minted, put, up, store, wounded, age, due, target, budget>>

\* listFiles of the blob directory, after the snapshot.
ListBlobs(p) ==
    /\ cycle[p].at = "snapped"
    /\ Set(p, [at |-> "copying", id |-> cycle[p].id, snap |-> cycle[p].snap,
               from |-> cycle[p].from, prev |-> cycle[p].prev,
               todo |-> {b \in Blobs : disk[b] # "absent"},
               files |-> [f \in {Db} |-> cycle[p].id]])
    /\ UNCHANGED <<data, minted, put, up, store, ids, wounded, clock, target, budget>>

\* linkUnchangedBlob, or a copy when the previous artifact has not these bytes.
CopyOf(p, b) ==
    IF \E a \in Listed : a.id = cycle[p].prev /\ Intact(a, b)
    THEN ById(cycle[p].prev).files[b] ELSE cycle[p].id

\* One listed file is read: bytes that do not hash to its name are skipped.
CopyBlob(p) ==
    /\ cycle[p].at = "copying"
    /\ \E b \in cycle[p].todo :
         /\ disk[b] # "absent"
         /\ Set(p, [cycle[p] EXCEPT !.todo = @ \ {b},
                                    !.files = IF disk[b] = "rotten" THEN @
                                              ELSE [f \in DOMAIN @ \cup {b} |->
                                                      IF f = b THEN CopyOf(p, b) ELSE @[f]]])
    /\ UNCHANGED <<data, minted, put, up, store, ids, wounded, clock, target, budget>>

\* createBackup throws and the staging directory is removed: the sweep of a
\* starting server took a file this cycle had listed, or an I/O error.
CycleFails(p) ==
    /\ \/ /\ cycle[p].at = "copying"
          /\ \E b \in cycle[p].todo : disk[b] = "absent"
          /\ UNCHANGED faults
       \/ /\ cycle[p].at \in {"snapped", "copying", "published", "listed", "removing"}
          /\ faults < MaxFaults
          /\ faults' = faults + 1
    /\ Set(p, Idle)
    /\ UNCHANGED <<data, minted, put, up, store, ids, wounded, clock, target, restores, decays>>

\* Faulty variant: the database is copied after the blobs.
PublishLateSnapshot(p) ==
    /\ cycle[p].at = "copying" /\ cycle[p].todo = {}
    /\ artifacts' = Append(artifacts,
                      [id |-> cycle[p].id, snap |-> log, from |-> cycle[p].from,
                       manifest |-> DOMAIN cycle[p].files \ {Db}, files |-> cycle[p].files])
    /\ Set(p, [at |-> "published"])
    /\ age' = 0
    /\ UNCHANGED <<data, minted, put, up, decayed, ids, wounded, due, target, budget>>

\* The manifest is stamped and written, and the staging directory renamed: two
\* steps of the code in one, so that artifacts appear in the order of their stamps.
Publish(p) ==
    /\ cycle[p].at = "copying" /\ cycle[p].todo = {}
    /\ artifacts' = Append(artifacts,
                      [id |-> cycle[p].id, snap |-> cycle[p].snap, from |-> cycle[p].from,
                       manifest |-> DOMAIN cycle[p].files \ {Db}, files |-> cycle[p].files])
    /\ Set(p, [at |-> "published"])
    /\ age' = 0
    /\ UNCHANGED <<data, minted, put, up, decayed, ids, wounded, due, target, budget>>

-----------------------------------------------------------------------------
(* Retention: pruneBackups.                                                *)

\* verifyBackupStructure: the database and every blob of the manifest.
Verified(a) == \A f \in a.manifest \cup {Db} : Intact(a, f)

IdsOf(s) == {s[i].id : i \in DOMAIN s}

\* listBackups: the newest are kept, the rest is to be removed.
PruneList(p) ==
    /\ cycle[p].at = "published"
    /\ LET n == Len(artifacts) - Keep IN
         Set(p, IF n <= 0 THEN Idle
                ELSE [at |-> "listed", kept |-> IdsOf(SubSeq(artifacts, n + 1, Len(artifacts))),
                      removed |-> IdsOf(SubSeq(artifacts, 1, n))])
    /\ UNCHANGED <<data, minted, put, up, store, ids, wounded, clock, target, budget>>

\* Faulty variant: retention forgets without a prior verify.
PruneUnverified(p) ==
    /\ cycle[p].at = "listed"
    /\ Set(p, [at |-> "removing", removed |-> cycle[p].removed])
    /\ UNCHANGED <<data, minted, put, up, store, ids, wounded, clock, target, budget>>

\* Every artifact to be kept is verified; one that fails, or is gone, ends the
\* cycle and nothing is removed.
PruneVerify(p) ==
    /\ cycle[p].at = "listed"
    /\ Set(p, IF \A id \in cycle[p].kept : \E a \in Listed : a.id = id /\ Verified(a)
              THEN [at |-> "removing", removed |-> cycle[p].removed] ELSE Idle)
    /\ UNCHANGED <<data, minted, put, up, store, ids, wounded, clock, target, budget>>

\* One artifact is removed; it may be gone already.
PruneRemove(p) ==
    /\ cycle[p].at = "removing"
    /\ \E id \in cycle[p].removed :
         /\ \/ \E i \in DOMAIN artifacts :
                 artifacts[i].id = id /\ artifacts' = RemoveAt(artifacts, i)
            \/ id \notin IdsOf(artifacts) /\ UNCHANGED artifacts
         /\ Set(p, IF cycle[p].removed = {id} THEN Idle
                   ELSE [cycle[p] EXCEPT !.removed = @ \ {id}])
    /\ UNCHANGED <<data, minted, put, up, decayed, ids, wounded, clock, target, budget>>

\* The command-line process dies.
CliDies ==
    /\ cycle["cli"].at \notin {"idle", "due"} /\ faults < MaxFaults
    /\ artifacts' \in Torn("cli")
    /\ Set("cli", Idle)
    /\ faults' = faults + 1
    /\ UNCHANGED <<data, minted, put, up, decayed, ids, wounded, clock, target, restores, decays>>

-----------------------------------------------------------------------------
(* The disk.                                                               *)

\* The bytes of an artifact's file go bad, though not in the moment between the
\* verification of a retained set and the removal it allows.
Decay ==
    /\ decays < MaxDecays
    /\ \A p \in Procs : cycle[p].at # "removing"
    /\ \E a \in Listed : \E f \in DOMAIN a.files :
         /\ Intact(a, f)
         /\ decayed' = decayed \cup {<<a.files[f], f>>}
    /\ decays' = decays + 1
    /\ UNCHANGED <<data, minted, put, up, cycle, artifacts, ids, wounded, clock, target, restores, faults>>

\* The bytes of a live blob go bad.
Rot ==
    /\ decays < MaxDecays
    /\ \E b \in Blobs : /\ disk[b] = "good"
                        /\ disk' = [disk EXCEPT ![b] = "rotten"]
                        /\ wounded' = wounded \cup {b}
    /\ decays' = decays + 1
    /\ UNCHANGED <<log, epoch, minted, put, up, cycle, store, ids, clock, target, restores, faults>>

-----------------------------------------------------------------------------
(* restoreInstance, by the operator of a stopped server.                   *)

\* The target is empty, the manifest parses and the artifact's files are copied;
\* an artifact with no database ends the restore.
RestoreCopy ==
    /\ ~up /\ cycle["cli"] = Idle /\ target = Nothing /\ restores < MaxRestores
    /\ \E a \in Listed :
         /\ Db \in DOMAIN a.files
         /\ target' = [is |-> "copied", snap |-> a.snap, from |-> a.from, manifest |-> a.manifest,
                       good |-> {f \in DOMAIN a.files : Intact(a, f)},
                       bad |-> {f \in DOMAIN a.files : ~Intact(a, f)}]
    /\ restores' = restores + 1
    /\ UNCHANGED <<data, minted, put, up, cycle, store, ids, wounded, clock, faults, decays>>

\* Faulty variant: the manifest's blobs are not read back.
RestorableDbOnly == Db \in target.good

\* integrity_check and verifyManifestBlobs on the copy
Restorable == {Db} \cup target.manifest \subseteq target.good

\* Both gates pass: the epoch is rotated and the operator serves the target.
RestoreServe ==
    /\ target # Nothing /\ Restorable
    /\ log' = target.snap
    /\ epoch' = restores
    /\ disk' = [b \in Blobs |-> IF b \in target.good THEN "good"
                                ELSE IF b \in target.bad THEN "rotten" ELSE "absent"]
    /\ target' = Nothing
    /\ UNCHANGED <<minted, put, up, cycle, store, ids, wounded, clock, budget>>

\* A gate fails, or the restore dies before the rotation: the operator wipes the
\* target, which no second restore would accept, and keeps the old directory.
RestoreAbandon ==
    /\ target # Nothing
    /\ \/ ~Restorable /\ UNCHANGED faults
       \/ faults < MaxFaults /\ faults' = faults + 1
    /\ target' = Nothing
    /\ UNCHANGED <<data, minted, put, up, cycle, store, ids, wounded, clock, restores, decays>>

Push == PushPut \/ PutRename \/ PushEnd
Server == Boot \/ Halt \/ Fire

Cycle(p) ==
    \/ Snapshot(p) \/ ListBlobs(p) \/ CopyBlob(p) \/ CycleFails(p) \/ Publish(p)
    \/ PruneList(p) \/ PruneVerify(p) \/ PruneRemove(p)

Operator == RestoreCopy \/ RestoreServe \/ RestoreAbandon

Next ==
    \/ Push \/ Server \/ Tick \/ Operator
    \/ \E p \in Procs : Cycle(p)
    \/ BackupCli \/ CliDies
    \/ Decay \/ Rot

Spec == Init /\ [][Next]_vars

-----------------------------------------------------------------------------
(* Properties.  A blob whose live file went bad is left out of them: what  *)
(* createBackup does with it is in the README.                             *)

(***************************************************************************)
(* Every published artifact holds every blob its database snapshot         *)
(* references, although pushes commit and a starting server sweeps while   *)
(* it is written: the snapshot comes first, and a file that disappears     *)
(* under the copy fails the cycle.                                         *)
(***************************************************************************)
ArtifactsComplete == \A a \in Listed : Refs(a.snap) \ wounded \subseteq a.manifest

\* A restore from a brings back every committed revision with its bytes.
Good(a) == \A f \in (Refs(a.snap) \ wounded) \cup {Db} : Intact(a, f)

(***************************************************************************)
(* Verify before forget: whatever went bad in the artifacts, and with a    *)
(* second process pruning the same directory, no step of retention removes *)
(* the last artifact that can be restored.                                 *)
(***************************************************************************)
RetentionKeepsGood ==
    [][UNCHANGED <<decayed, wounded>> /\ (\E a \in Listed : Good(a))
         => (\E a \in Listed : Good(a))']_vars

(***************************************************************************)
(* Every committed revision has its bytes on disk, through refused pushes, *)
(* crashes between a put and its commit, the startup sweep and a restore   *)
(* from an artifact that went bad.                                         *)
(***************************************************************************)
LiveWhole == \A b \in Refs(log) \ wounded : disk[b] = "good"
=============================================================================
