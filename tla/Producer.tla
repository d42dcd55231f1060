------------------------------ MODULE Producer ------------------------------
(***************************************************************************)
(* The sending half of a device: how what the user does to the files of    *)
(* the vault becomes queued revisions.  Obsidian reports an edit as an     *)
(* event: creates, renames and deletes go straight to the serial observer, *)
(* a modify waits until its path has settled, and the files of the         *)
(* configuration folder have no events and are polled.  A scan at start    *)
(* finds what changed while the program was closed.  The observer compares *)
(* the disk with the mapping (path, file identity, hash) it keeps and      *)
(* commits each difference in one write: the mapping, the head and the     *)
(* queue entry.                                                            *)
(*                                                                         *)
(* A path stands for its collision key, a content for its canonical form   *)
(* and hash.  A file identity is a number and so is a revision: its place  *)
(* in revs.  The server is external: it takes a revision whose parents it  *)
(* has, and may refuse any.  Remote changes are VaultApply's subject.      *)
(***************************************************************************)
EXTENDS Naturals, Sequences, FiniteSets, SequencesExt

CONSTANTS
    Notes,         \* paths of notes, which the vault reports events for
    Configs,       \* paths of the configuration mirror, which is polled
    Contents,      \* contents a file can have
    BulkMin,       \* BULK_DELETE_MIN
    MaxStash,      \* envelopes the stash budget holds
    Discards,      \* whether the user discards failed sends
    MaxEdits,      \* bound on what the user does
    MaxRevisions,  \* bound on revisions
    MaxFaults      \* bound on failed writes, stops, damaged files and refusals

ASSUME ProducerAssumption ==
    /\ Notes \cap Configs = {}
    /\ BulkMin \in Nat \ {0} /\ MaxStash \in Nat
    /\ Discards \in BOOLEAN
    /\ {MaxEdits, MaxFaults} \subseteq Nat /\ MaxRevisions \in Nat \ {0}

VARIABLES
    disk,       \* the files of the vault, by path
    data,       \* data.json: producer, outbox, quarantine, stashed envelopes
    bak,        \* the copy of the previous save, and whether it can be read
    torn,       \* the primary on disk cannot be read, memory came from bak
    payloads,   \* revisions whose bytes are in the payload store
    revs,       \* every revision ever built, in order
    accepted,   \* the revisions the server holds
    files,      \* number of file identities minted so far
    proc,       \* the running process
    scan,       \* what the scan at start still has to do
    tasks,      \* the observer's queue
    job,        \* the task the observer is working on
    pending,    \* paths whose modify has not settled
    rearmed,    \* paths whose commit failed once
    warned,     \* paths or files a Notice of this session named
    fresh,      \* nothing was edited and no write failed since the program started
    forgotten,  \* dead revisions of which no row with their parents is left
    estranged,  \* revisions the device lost hold of: failed ones the user sent again, and
                \* accepted ones whose answer was lost with the data.json that queued them
    edits, faults

stored == <<data, bak, torn, payloads>>
graph == <<revs, accepted, files, forgotten, estranged>>
timers == <<pending, rearmed>>
budget == <<edits, faults>>
vars == <<disk, stored, graph, proc, scan, tasks, job, timers, warned, fresh, budget>>

Absent == "absent"
None == [kind |-> "none"]
Paths == Notes \cup Configs
Revision == 1..Len(revs)
File == 1..MaxRevisions

\* A task of the observer: what it looks at, and who asked for it.
Task == [kind : {"create", "modify", "delete"}, path : Paths,
         by : {"event", "settled", "retry", "poll", "scan"}]
        \cup [kind : {"rename"}, path : Paths, to : Paths, by : {"event", "scan"}]
        \cup [kind : {"folder"}, by : {"event"}]
\* What the observer found: the change it will commit.
Change == [kind : {"create", "update", "rename", "delete"}, file : File,
           path : Paths, content : Contents \cup {Absent}, task : Task]

Mapping == [file : File, path : Paths, hash : Contents]
Row == [rev : 1..MaxRevisions, known : BOOLEAN]   \* known: it carries its parents
Envelope == [rev : 1..MaxRevisions, age : Nat]      \* age: its place from the newest on

TypeOK ==
    /\ disk \in [Paths -> Contents \cup {Absent}]
    /\ \A d \in {data, bak.data} :
         /\ d.maps \subseteq Mapping /\ d.heads \in [File -> 0..MaxRevisions]
         /\ d.queue \subseteq Revision /\ d.rows \subseteq Row
         /\ d.stash \subseteq Envelope /\ d.failed \subseteq Paths
    /\ bak.ok \in BOOLEAN /\ torn \in BOOLEAN /\ forgotten \cup estranged \subseteq Revision
    /\ payloads \subseteq Revision /\ accepted \subseteq Revision
    /\ files \in 0..MaxRevisions
    /\ proc.pc \in {"down", "loaded", "scanning", "ready"}
    /\ proc.blocked \subseteq Paths /\ {proc.recovery, proc.held} \subseteq BOOLEAN
    /\ proc.forced \subseteq Paths /\ proc.idle \subseteq Configs
    /\ scan \subseteq Task /\ tasks \in Seq(Task) /\ job \in Change \cup {None}
    /\ pending \subseteq Paths /\ rearmed \subseteq Paths /\ warned \subseteq Paths
    /\ fresh \in BOOLEAN /\ edits \in 0..MaxEdits /\ faults \in 0..MaxFaults

EmptyData == [maps |-> {}, heads |-> [f \in File |-> 0], queue |-> {}, rows |-> {},
              stash |-> {}, failed |-> {}]
NoBackup == [ok |-> FALSE, data |-> EmptyData]
NewProcess == [pc |-> "down", blocked |-> {}, forced |-> {}, idle |-> {},
               recovery |-> FALSE, held |-> FALSE]

\* A server without files and a vault that is empty or full of notes, or a device
\* that joins with a file at the path of a peer's: alike or not.
Init ==
    /\ disk \in [Paths -> Contents \cup {Absent}]
    /\ \/ /\ {p \in Paths : disk[p] # Absent} \in {{}, Notes}
          /\ revs = <<>> /\ accepted = {} /\ files = 0
       \/ /\ \E p \in Paths, c \in Contents :
               /\ {q \in Paths : disk[q] # Absent} = {p}
               /\ revs = <<[file |-> 1, parents |-> {}, kind |-> "peer", path |-> p, content |-> c]>>
          /\ accepted = {1} /\ files = 1
    /\ data = EmptyData /\ bak = NoBackup /\ torn = FALSE /\ payloads = {} /\ forgotten = {} /\ estranged = {}
    /\ proc = NewProcess
    /\ scan = {} /\ tasks = <<>> /\ job = None
    /\ pending = {} /\ rearmed = {} /\ warned = {}
    /\ fresh = TRUE /\ edits = 0 /\ faults = 0

-----------------------------------------------------------------------------
(* The mapping and the revision graph.                                     *)

MappingAt(d, p) == {m \in d.maps : m.path = p}
Mapped(p) == MappingAt(data, p) # {}
MappingOf(p) == CHOOSE m \in data.maps : m.path = p

\* The heads of a file on the server.
Leaves(f) == {r \in accepted : /\ revs[r].file = f
                               /\ \A s \in accepted : r \notin revs[s].parents}

\* What a save leaves: the new primary, and the old one as the backup.
Save(d) == data' = d /\ bak' = (IF torn THEN NoBackup ELSE [ok |-> TRUE, data |-> data]) /\ torn' = FALSE
Stashed(d) == {e.rev : e \in d.stash}

QuarantinedParents(r) ==
    LET row == {w \in data.rows : w.rev = r} IN
    IF row = {} THEN {r}                                        \* not quarantined
    ELSE IF \E w \in row : w.known \/ r \in Stashed(data) THEN revs[r].parents
    ELSE {r}                                                    \* never recorded

\* Faulty variant: the head is named even when it was quarantined.
HeadOnly(r) == IF r = 0 THEN {} ELSE {r}

\* The head, walked back through quarantined revisions: the loop runs over
\* ever older ones, and there are at most MaxRevisions of them.
LiveParents(r) ==
    IF r = 0 THEN {}
    ELSE LET Step[n \in 0..MaxRevisions] ==
                 IF n = 0 THEN {r} ELSE UNION {QuarantinedParents(s) : s \in Step[n - 1]}
         IN Step[MaxRevisions]

-----------------------------------------------------------------------------
(* The user and Obsidian.                                                  *)

Listening == proc.pc # "down"

\* Events that reach the observer while the program runs.
Emit(p, task) ==
    tasks' = IF Listening /\ p \in Notes THEN Append(tasks, task) ELSE tasks
\* What the vault holds before the first start is a choice of Init.
Edited == /\ Listening \/ data # EmptyData
          /\ edits < MaxEdits /\ edits' = edits + 1 /\ fresh' = FALSE
EditFrame == UNCHANGED <<stored, graph, scan, job, rearmed, warned, faults>>
\* A config file whose size and time changed is read again by the next poll.
Touched(ps) == proc' = [proc EXCEPT !.idle = @ \ ps]

CreateFile(p, c) ==
    /\ disk[p] = Absent /\ Edited
    /\ disk' = [disk EXCEPT ![p] = c]
    /\ Emit(p, [kind |-> "create", path |-> p, by |-> "event"])
    /\ Touched({p}) /\ UNCHANGED pending /\ EditFrame

ModifyFile(p, c) ==
    /\ disk[p] \notin {Absent, c} /\ Edited
    /\ disk' = [disk EXCEPT ![p] = c]
    /\ pending' = IF Listening /\ p \in Notes THEN pending \cup {p} ELSE pending
    /\ Touched({p}) /\ UNCHANGED tasks /\ EditFrame

\* The tombstone carries the outcome: a modify that has not settled is cancelled.
DeleteFile(p) ==
    /\ disk[p] # Absent /\ Edited
    /\ disk' = [disk EXCEPT ![p] = Absent]
    /\ pending' = pending \ {p}
    /\ Emit(p, [kind |-> "delete", path |-> p, by |-> "event"])
    /\ Touched({p}) /\ EditFrame

\* So does the rename, for the old path.
RenameFile(p, q) ==
    /\ disk[p] # Absent /\ disk[q] = Absent /\ Edited
    /\ disk' = [disk EXCEPT ![q] = disk[p], ![p] = Absent]
    /\ pending' = pending \ {p}
    /\ Emit(p, [kind |-> "rename", path |-> p, to |-> q, by |-> "event"])
    /\ Touched({p, q}) /\ EditFrame

\* The folder of all notes is deleted, or lost while the program is closed.
\* One event stands for every file in it; what has not settled is not cancelled.
DeleteFolder ==
    /\ Cardinality({p \in Notes : disk[p] # Absent}) > 1 /\ Edited
    /\ disk' = [p \in Paths |-> IF p \in Notes THEN Absent ELSE disk[p]]
    /\ tasks' = IF Listening THEN Append(tasks, [kind |-> "folder", by |-> "event"]) ELSE tasks
    /\ UNCHANGED <<proc, pending>> /\ EditFrame

\* The settling window of a path has passed.
SettleModify(p) ==
    /\ Listening /\ p \in pending
    /\ pending' = pending \ {p}
    /\ tasks' = Append(tasks, [kind |-> "modify", path |-> p,
                               by |-> IF p \in proc.forced THEN "retry" ELSE "settled"])
    /\ proc' = [proc EXCEPT !.forced = @ \ {p}]
    /\ UNCHANGED <<disk, stored, graph, scan, job, rearmed, warned, fresh, budget>>

\* A tick of the poller: every config file it has not seen in this state is
\* observed, every mapped one that is gone is taken for deleted.
ConfigPollTick(p) ==
    /\ proc.pc = "ready" /\ job = None
    /\ \A i \in 1..Len(tasks) : tasks[i].by # "poll"
    /\ \/ /\ disk[p] # Absent /\ p \notin proc.idle
          /\ tasks' = Append(tasks, [kind |-> "modify", path |-> p, by |-> "poll"])
       \/ /\ disk[p] = Absent /\ Mapped(p)
          /\ tasks' = Append(tasks, [kind |-> "delete", path |-> p, by |-> "poll"])
    /\ UNCHANGED <<disk, stored, graph, proc, scan, job, timers, warned, fresh, budget>>

-----------------------------------------------------------------------------
(* The observer: it looks at the disk and the mapping, then commits.       *)

NoChange == None
Collision == [kind |-> "collision"]

FindCreate(t, p) ==
    IF disk[p] = Absent THEN NoChange
    ELSE [kind |-> "create", file |-> files + 1, path |-> p, content |-> disk[p], task |-> t]

FindModify(t, p, force) ==
    IF disk[p] = Absent \/ (~force /\ disk[p] = MappingOf(p).hash) THEN NoChange
    ELSE [kind |-> "update", file |-> MappingOf(p).file, path |-> p, content |-> disk[p], task |-> t]

\* A create or a modify of a path that is already mapped never mints an identity.
FindContent(t, p) ==
    IF Mapped(p) THEN FindModify(t, p, t.by = "retry") ELSE FindCreate(t, p)

FindRename(t) ==
    IF ~Mapped(t.path) THEN FindContent(t, t.to)
    ELSE IF Mapped(t.to) THEN Collision
    ELSE IF disk[t.to] = Absent THEN NoChange
    ELSE [kind |-> "rename", file |-> MappingOf(t.path).file, path |-> t.to,
          content |-> disk[t.to], task |-> t]

FindDelete(t) ==
    IF ~Mapped(t.path) THEN NoChange
    ELSE [kind |-> "delete", file |-> MappingOf(t.path).file, path |-> t.path,
          content |-> Absent, task |-> t]

\* A create and a modify look for the same thing.
Find(t) == CASE t.kind = "rename" -> FindRename(t)
             [] t.kind = "delete" -> FindDelete(t)
             [] OTHER -> FindContent(t, t.path)

\* Paths held back until their identity is settled are not observed.
HeldBack(t) ==
    IF t.kind = "rename" THEN {t.path, t.to} \cap proc.blocked # {}
    ELSE t.path \in proc.blocked /\ ~Mapped(t.path)

\* The order of the scan: updates, renames, creates, deletes.
Phase(t) == CASE t.kind = "modify" -> 1 [] t.kind = "rename" -> 2
              [] t.kind = "create" -> 3 [] t.kind = "delete" -> 4

\* What follows a task that went through: its path has no failure any more.
Succeeded(t, d) ==
    /\ rearmed' = IF t.by \in {"settled", "retry"} THEN rearmed \ {t.path} ELSE rearmed
    /\ proc' = IF t.by = "poll" /\ t.kind = "modify"
               THEN [proc EXCEPT !.idle = @ \cup ({t.path} \cap {p \in Configs : disk[p] # Absent})] ELSE proc
    /\ IF t.by \in {"settled", "retry"} /\ t.path \in d.failed
       THEN Save([d EXCEPT !.failed = @ \ {t.path}])
       ELSE IF d = data THEN UNCHANGED <<data, bak, torn>> ELSE Save(d)

\* Takes the next task: of the scan first, for events wait until it is done.
Take(t) ==
    LET found == IF t.by # "scan" /\ HeldBack(t) THEN NoChange ELSE Find(t) IN
    /\ CASE found = Collision ->
              warned' = warned \cup {t.to} /\ UNCHANGED <<proc, job, data, bak, torn, rearmed>>
         [] found = NoChange -> Succeeded(t, data) /\ UNCHANGED <<job, warned>>
         [] OTHER -> job' = found /\ UNCHANGED <<proc, warned, data, bak, torn, rearmed>>
    /\ UNCHANGED <<disk, payloads, graph, pending, fresh, budget>>

\* A collision ends the scan: it can only meet one that the user asked for,
\* while starting nothing else commits.
TakeScan(t) ==
    /\ proc.pc \in {"scanning", "ready"} /\ job = None /\ t \in scan
    /\ Len(revs) < MaxRevisions
    /\ \A other \in scan : Phase(other) >= Phase(t)
    /\ scan' = IF Find(t) = Collision THEN {} ELSE scan \ {t}
    /\ UNCHANGED tasks /\ Take(t)

TakeTask ==
    /\ proc.pc = "ready" /\ job = None /\ tasks # <<>> /\ Len(revs) < MaxRevisions
    /\ Head(tasks).kind # "folder"
    /\ tasks' = Tail(tasks)
    /\ UNCHANGED scan /\ Take(Head(tasks))

\* Every mapping under the folder is routed through the delete of one file.
TakeFolderDelete ==
    /\ proc.pc = "ready" /\ job = None /\ tasks # <<>> /\ Head(tasks).kind = "folder"
    /\ tasks' = SetToSeq({[kind |-> "delete", path |-> m.path, by |-> "event"] :
                             m \in {m \in data.maps : m.path \in Notes}}) \o Tail(tasks)
    /\ UNCHANGED <<disk, stored, graph, proc, scan, job, timers, warned, fresh, budget>>

-----------------------------------------------------------------------------
(* The commit: one write of the mapping, the head and the queue entry.     *)

WithMapping(maps, f, p, c) ==
    {m \in maps : m.file # f /\ m.path # p} \cup {[file |-> f, path |-> p, hash |-> c]}
WithoutFile(maps, f) == {m \in maps : m.file # f}

QueuedRevision(parents) ==
    [file |-> job.file, parents |-> IF job.kind = "create" THEN {} ELSE parents,
     kind |-> IF job.kind # "delete" /\ parents = {} THEN "create" ELSE job.kind,
     path |-> job.path, content |-> job.content]

\* Faulty variant: the head of a known file is not advanced.
CommittedOldHead(parents) ==
    [queued |-> ~(job.kind = "delete" /\ parents = {}), rev |-> QueuedRevision(parents),
     data |-> [data EXCEPT
                 !.maps = IF job.kind = "delete" THEN WithoutFile(@, job.file)
                          ELSE WithMapping(@, job.file, job.path, job.content),
                 !.heads[job.file] = IF @ = 0 THEN Len(revs) + 1 ELSE @,
                 !.queue = @ \cup {Len(revs) + 1}]]

\* The change as the next state of the store, with the revision it queues.
\* A delete of a file the server never got drops the mapping and queues nothing.
Committed(parents) ==
    LET delete == job.kind = "delete"
        queued == ~(delete /\ parents = {})
    IN [queued |-> queued, rev |-> QueuedRevision(parents),
        data |-> [data EXCEPT
                    !.maps = IF delete THEN WithoutFile(@, job.file)
                             ELSE WithMapping(@, job.file, job.path, job.content),
                    !.heads[job.file] = IF delete THEN 0 ELSE Len(revs) + 1,
                    !.queue = IF queued THEN @ \cup {Len(revs) + 1} ELSE @]]

commitLocalChange ==
    LET c == Committed(LiveParents(data.heads[job.file])) IN
    /\ job # None
    /\ revs' = IF c.queued THEN Append(revs, c.rev) ELSE revs
    /\ payloads' = IF c.queued THEN payloads \cup {Len(revs) + 1} ELSE payloads
    /\ files' = Max({files, job.file})
    /\ Succeeded(job.task, c.data)
    /\ job' = None
    /\ UNCHANGED <<disk, accepted, forgotten, estranged, scan, tasks, pending, warned, fresh, budget>>

\* A path whose commit fails is armed once more, then gets a durable row.
onCommitFailure(p) ==
    IF p \notin rearmed
    THEN rearmed' = rearmed \cup {p} /\ pending' = pending \cup {p} /\ UNCHANGED <<data, bak, torn>>
    ELSE /\ rearmed' = rearmed \ {p} /\ UNCHANGED pending
         /\ Save([data EXCEPT !.failed = @ \cup {p}])

\* The write fails.  The poller tries again on its next tick, a failed task of
\* the scan is skipped and shown, as is any other event.
CommitFails ==
    /\ job # None /\ faults < MaxFaults /\ faults' = faults + 1
    /\ fresh' = FALSE
    /\ IF job.task.by \in {"settled", "retry"}
       THEN onCommitFailure(job.task.path) /\ UNCHANGED warned
       ELSE /\ warned' = IF job.task.by = "poll" THEN warned ELSE warned \cup {job.path}
            /\ UNCHANGED <<data, bak, torn, timers>>
    /\ job' = None
    /\ UNCHANGED <<disk, payloads, graph, proc, scan, tasks, edits>>

-----------------------------------------------------------------------------
(* Start: the load of data.json, the identities, the scan.                 *)

\* Faulty variant: the envelope stays queued without its bytes.
KeepPayloads(d) == d

\* A queued revision whose stored bytes are gone is quarantined, without its
\* parents; a stashed one only loses its Retry.
reconcilePayloads(d) ==
    [d EXCEPT !.queue = @ \cap payloads,
              !.rows = @ \cup {[rev |-> r, known |-> FALSE] : r \in d.queue \ payloads},
              !.stash = {e \in @ : e.rev \in payloads}]

Load(d, sweep, dead) ==
    LET next == reconcilePayloads(d)
        live == next.queue \cup Stashed(next) \cup {w.rev : w \in next.rows}
    IN /\ data' = next
       /\ forgotten' = forgotten \cup dead \cup (d.queue \ payloads)
       /\ payloads' = IF sweep THEN payloads \cap live ELSE payloads
       /\ fresh' = TRUE
       /\ UNCHANGED <<disk, revs, accepted, files, scan, tasks, job, timers, warned, edits>>

Start == proc.pc = "down"
Loaded(recovery) == proc' = [NewProcess EXCEPT !.pc = "loaded", !.recovery = recovery]

LoadClean ==
    /\ Start /\ Load(data, ~torn, {}) /\ Loaded(FALSE)
    /\ IF data' = data THEN UNCHANGED <<bak, torn>> ELSE Save(data')
    /\ UNCHANGED <<estranged, faults>>

\* One envelope of the outbox cannot be parsed: it becomes a row.
LoadBadEnvelope(r) ==
    /\ Start /\ ~torn /\ r \in data.queue /\ faults < MaxFaults /\ faults' = faults + 1
    /\ Load([data EXCEPT !.queue = @ \ {r}, !.rows = @ \cup {[rev |-> r, known |-> FALSE]}], TRUE, {r})
    /\ Loaded(FALSE) /\ UNCHANGED <<bak, torn, estranged>>

\* Whether a readable outbox holds revisions the backup does not.
salvageHasOutboxEntriesMissingFrom(d, b) == ~(d.queue \subseteq b.queue)

\* A core field of the primary is damaged; the backup is one save behind.
LoadBackup(outbox) ==
    LET unsettled(d) == d.queue \cup {w.rev : w \in d.rows} IN
    /\ Start /\ ~torn /\ bak.ok /\ faults < MaxFaults /\ faults' = faults + 1
    /\ Load(bak.data, FALSE, {})
    /\ estranged' = estranged \cup ((accepted \cap unsettled(data)) \ unsettled(bak.data))
    /\ Loaded(outbox /\ salvageHasOutboxEntriesMissingFrom(data, bak.data))
    /\ torn' = (data' = bak.data) /\ bak' = IF torn' THEN bak ELSE NoBackup

\* The backup is damaged too, or there is none: a readable outbox is kept, else the
\* queue starts empty and a second write takes the producer from the damaged primary
\* (one step here: README, not modelled).
LoadSalvage(outbox) ==
    /\ Start /\ ~torn /\ data # EmptyData
    /\ faults < MaxFaults /\ faults' = faults + 1
    /\ IF outbox THEN Load(data, FALSE, {})
       ELSE Load([EmptyData EXCEPT !.maps = data.maps, !.heads = data.heads], FALSE,
                 data.queue \cup {w.rev : w \in data.rows})
    /\ Loaded(~outbox)
    /\ bak' = NoBackup /\ UNCHANGED <<torn, estranged>>

\* The bytes of a revision are gone from the payload store.
LosePayload(r) ==
    /\ Start /\ r \in payloads \cap data.queue /\ faults < MaxFaults /\ faults' = faults + 1
    /\ payloads' = payloads \ {r}
    /\ UNCHANGED <<disk, data, bak, torn, graph, proc, scan, tasks, job, timers, warned, fresh, edits>>

\* Faulty variant: only a file with the same content is taken for the server's.
CandidatesAlike == {r \in accepted : /\ revs[r].kind = "peer"
                                     /\ \A m \in data.maps : m.file # revs[r].file
                                     /\ disk[revs[r].path] = revs[r].content}

\* Server files at a path this vault has a file at but no mapping for: the first
\* with the same content is adopted when nothing is queued, the path held back otherwise.
Candidates == {r \in UNION {Leaves(f) : f \in {revs[s].file : s \in accepted}} :
                 /\ revs[r].kind # "delete"
                 /\ \A m \in data.maps : m.file # revs[r].file /\ m.path # revs[r].path
                 /\ disk[revs[r].path] # Absent}
Matching(r) == /\ data.queue = {} /\ Leaves(revs[r].file) = {r}
               /\ disk[revs[r].path] = revs[r].content
Adoptable(r) == Matching(r) /\ r = Min({s \in Candidates : Matching(s) /\ revs[s].path = revs[r].path})

bootstrapIdentities ==
    LET adopted == {r \in Candidates : Adoptable(r)} IN
    [data |-> [data EXCEPT
                 !.maps = @ \cup {[file |-> revs[r].file, path |-> revs[r].path,
                                   hash |-> revs[r].content] : r \in adopted},
                 !.heads = [f \in File |-> IF \E r \in adopted : revs[r].file = f
                                           THEN CHOOSE r \in adopted : revs[r].file = f ELSE @[f]]],
     blocked |-> {revs[r].path : r \in Candidates} \ {revs[r].path : r \in adopted}]

\* What reconcileVaultState finds.  Without a listing of the config folder its
\* files are neither seen nor missed.
Listed(p, listed) == listed \/ p \in Notes
OnDisk(maps, blocked, listed) ==
    {p \in Paths : /\ disk[p] # Absent /\ Listed(p, listed)
                   /\ p \notin blocked \/ \E m \in maps : m.path = p}
Unmatched(maps, blocked, listed) ==
    LET seen == OnDisk(maps, blocked, listed)
        known == {m \in maps : Listed(m.path, listed)}
    IN [files |-> {p \in seen : \A m \in known : m.path # p},
        maps |-> {m \in known : m.path \notin seen}]

\* A content that exactly one new file and one missing mapping share was renamed.
Moves(u) ==
    {pair \in u.maps \X u.files :
        /\ pair[1].hash = disk[pair[2]]
        /\ \A m \in u.maps : m.hash = pair[1].hash => m = pair[1]
        /\ \A p \in u.files : disk[p] = pair[1].hash => p = pair[2]}

Missing(u) == u.maps \ {pair[1] : pair \in Moves(u)}

\* The mass-delete breaker: BULK_DELETE_MIN files and BULK_DELETE_SHARE of all.
Held(missing, maps) ==
    /\ Cardinality(missing) >= BulkMin
    /\ 10 * Cardinality(missing) >= 3 * Cardinality(maps)

\* Faulty variant: a mapped file is taken for unchanged without a look at it.
ScanNewFilesOnly(maps, blocked, listed, allowBulkDeletes) ==
    [held |-> FALSE,
     tasks |-> {[kind |-> "create", path |-> p, by |-> "scan"] :
                  p \in Unmatched(maps, blocked, listed).files}]

reconcileVaultState(maps, blocked, listed, allowBulkDeletes) ==
    LET u == Unmatched(maps, blocked, listed)
        held == ~allowBulkDeletes /\ Held(Missing(u), maps)
    IN [held |-> held,
        tasks |->
          {[kind |-> "modify", path |-> m.path, by |-> "scan"] :
              m \in {m \in maps : m.path \in OnDisk(maps, blocked, listed) /\ m.hash # disk[m.path]}}
          \cup {[kind |-> "rename", path |-> pair[1].path, to |-> pair[2], by |-> "scan"] : pair \in Moves(u)}
          \cup {[kind |-> "create", path |-> p, by |-> "scan"] : p \in u.files \ {pair[2] : pair \in Moves(u)}}
          \cup (IF held THEN {}
                ELSE {[kind |-> "delete", path |-> m.path, by |-> "scan"] : m \in Missing(u)})]

initialize(listed) ==
    LET ids == bootstrapIdentities
        result == reconcileVaultState(ids.data.maps, ids.blocked, listed, FALSE)
    IN /\ proc.pc = "loaded"
       /\ listed \/ (faults < MaxFaults /\ Configs # {})
       /\ faults' = IF listed THEN faults ELSE faults + 1
       /\ fresh' = (fresh /\ listed)
       /\ IF ids.data = data THEN UNCHANGED <<data, bak, torn>> ELSE Save(ids.data)
       /\ proc' = [proc EXCEPT !.pc = "scanning", !.blocked = ids.blocked, !.held = result.held]
       /\ scan' = result.tasks
       /\ UNCHANGED <<disk, payloads, graph, tasks, job, timers, warned, edits>>

\* The server cannot be read: what waits for the start fails with it.
initializeFails ==
    LET waiting(by) == {tasks[i].path : i \in {i \in 1..Len(tasks) : tasks[i].by \in by /\ tasks[i].kind # "folder"}}
        settled == waiting({"settled", "retry"})
    IN /\ proc.pc = "loaded" /\ tasks # <<>>
       /\ faults < MaxFaults /\ faults' = faults + 1
       /\ tasks' = <<>>
       /\ warned' = warned \cup waiting({"event"})
       /\ rearmed' = (rearmed \cup settled) \ (settled \cap rearmed)
       /\ pending' = pending \cup (settled \ rearmed)
       /\ IF settled \cap rearmed = {} THEN UNCHANGED <<data, bak, torn>>
          ELSE Save([data EXCEPT !.failed = @ \cup (settled \cap rearmed)])
       /\ UNCHANGED <<disk, payloads, graph, proc, scan, job, fresh, edits>>

initialized ==
    /\ proc.pc = "scanning" /\ scan = {} /\ job = None
    /\ proc' = [proc EXCEPT !.pc = "ready"]
    /\ UNCHANGED <<disk, stored, graph, scan, tasks, job, timers, warned, fresh, budget>>

\* The user confirms the deletes that were held.
ConfirmHeldDeletes ==
    /\ proc.pc = "ready" /\ proc.held /\ scan = {} /\ edits < MaxEdits /\ edits' = edits + 1
    /\ scan' = reconcileVaultState(data.maps, proc.blocked, TRUE, TRUE).tasks
    /\ proc' = [proc EXCEPT !.held = FALSE]
    /\ UNCHANGED <<disk, stored, graph, tasks, job, timers, warned, fresh, faults>>

\* The program is closed or killed; a second producer of a new pairing begins
\* like a new start.
Stop ==
    /\ Listening /\ faults < MaxFaults /\ faults' = faults + 1
    /\ proc' = NewProcess
    /\ scan' = {} /\ tasks' = <<>> /\ job' = None
    /\ pending' = {} /\ rearmed' = {} /\ warned' = {}
    /\ UNCHANGED <<disk, stored, graph, fresh, edits>>

-----------------------------------------------------------------------------
(* The queue, the server and the panel.                                    *)

Pushing == proc.pc = "ready"
QueueFrame == UNCHANGED <<disk, scan, tasks, job, rearmed, warned>>

Accept(r) ==
    /\ Pushing /\ r \in data.queue /\ revs[r].parents \subseteq accepted
    /\ accepted' = accepted \cup {r}
    /\ \/ Save([data EXCEPT !.queue = @ \ {r}]) /\ payloads' = payloads \ {r} /\ UNCHANGED faults
       \/ /\ r \notin accepted /\ faults < MaxFaults /\ faults' = faults + 1   \* the answer is lost
          /\ UNCHANGED <<data, bak, torn, payloads>>
    /\ UNCHANGED <<revs, files, forgotten, estranged, proc, pending, fresh, edits>> /\ QueueFrame

\* A refused revision takes its descendants in the queue along: one by one, which
\* is SyncRunner's Cascade, all at once here.  They are the newest of the stash, which lets go of the oldest ones over its budget.
quarantineLineage(r) ==
    LET Follows[s \in data.queue] == s = r \/ \E p \in revs[s].parents \cap data.queue : Follows[p]
    IN {s \in data.queue : Follows[s]}
quarantineOutboxItem(r) ==
    LET dead == quarantineLineage(r)
        older == {[rev |-> e.rev, age |-> e.age + Cardinality(dead)] : e \in {e \in data.stash : e.rev \notin dead}}
        stash == older \cup {[rev |-> s, age |-> Cardinality({t \in dead : t > s})] : s \in dead}
        kept == {e \in stash : Cardinality({f \in stash : f.age < e.age}) < MaxStash}
    IN /\ Save([data EXCEPT !.queue = @ \ dead, !.stash = kept,
                            !.rows = {w \in @ : w.rev \notin dead} \cup {[rev |-> s, known |-> TRUE] : s \in dead}])
       /\ payloads' = payloads \ ({e.rev : e \in stash} \ {e.rev : e \in kept})
       /\ forgotten' = forgotten \ dead

Refuse(r) ==
    /\ Pushing /\ r \in data.queue \ accepted
    /\ \/ revs[r].parents \cap (accepted \cup data.queue) # revs[r].parents /\ UNCHANGED faults
       \/ faults < MaxFaults /\ faults' = faults + 1
    /\ quarantineOutboxItem(r)
    /\ UNCHANGED <<revs, accepted, files, estranged, proc, pending, fresh, edits>> /\ QueueFrame

\* The user's choices in the panel.
Choice == Listening /\ edits < MaxEdits /\ edits' = edits + 1
DropRow(r) == [data EXCEPT !.rows = {w \in @ : w.rev # r},
                           !.stash = {e \in @ : e.rev # r}]
\* Arms the path again for a commit from the disk.
RetryFromDisk(p) ==
    /\ pending' = pending \cup {p}
    /\ proc' = [proc EXCEPT !.forced = @ \cup {p}]

retrySend(w) ==
    LET r == w.rev
        at == {m \in data.maps : m.file = revs[r].file}
    IN /\ Choice /\ w \in data.rows
       /\ IF r \in Stashed(data)
          THEN /\ Save([DropRow(r) EXCEPT !.queue = @ \cup {r}])
               /\ estranged' = estranged \cup {r}
               /\ UNCHANGED <<proc, pending, forgotten>>
          ELSE /\ Save(DropRow(r)) /\ UNCHANGED estranged
               /\ forgotten' = forgotten \cup ({r} \ accepted)
               /\ IF \E m \in at : disk[m.path] # Absent
                  THEN \E m \in at : RetryFromDisk(m.path)
                  ELSE UNCHANGED <<proc, pending>>
       /\ UNCHANGED <<payloads, revs, accepted, files, fresh, faults>> /\ QueueFrame

retryFailedCommit(p) ==
    /\ Choice /\ p \in data.failed
    /\ IF disk[p] = Absent
       THEN Save([data EXCEPT !.failed = @ \ {p}]) /\ UNCHANGED <<proc, pending>>
       ELSE RetryFromDisk(p) /\ UNCHANGED <<data, bak, torn>>
    /\ UNCHANGED <<payloads, graph, fresh, faults>> /\ QueueFrame

discardSend(w) ==
    /\ Discards /\ Choice /\ w \in data.rows
    /\ Save(DropRow(w.rev)) /\ payloads' = payloads \ {w.rev}
    /\ forgotten' = forgotten \cup ({w.rev} \ accepted)
    /\ UNCHANGED <<revs, accepted, files, estranged, proc, pending, fresh, faults>> /\ QueueFrame

-----------------------------------------------------------------------------
Next ==
    \/ \E p \in Paths, c \in Contents : CreateFile(p, c) \/ ModifyFile(p, c)
    \/ \E p \in Paths : DeleteFile(p)
    \/ \E p, q \in Notes : RenameFile(p, q)
    \/ DeleteFolder
    \/ \E p \in Paths : SettleModify(p)
    \/ \E p \in Configs : ConfigPollTick(p)
    \/ \E t \in scan : TakeScan(t)
    \/ TakeTask \/ TakeFolderDelete \/ commitLocalChange \/ CommitFails
    \/ LoadClean
    \/ \E r \in Revision : LoadBadEnvelope(r) \/ LosePayload(r)
    \/ \E outbox \in BOOLEAN : LoadBackup(outbox) \/ LoadSalvage(outbox)
    \/ \E listed \in BOOLEAN : initialize(listed)
    \/ initializeFails \/ initialized \/ ConfirmHeldDeletes \/ Stop
    \/ \E r \in Revision : Accept(r) \/ Refuse(r)
    \/ \E w \in data.rows : retrySend(w) \/ discardSend(w)
    \/ \E p \in Paths : retryFailedCommit(p)

Spec == Init /\ [][Next]_vars

-----------------------------------------------------------------------------
(* Properties.                                                             *)

Quiet == proc.pc = "ready" /\ scan = {} /\ tasks = <<>> /\ job = None /\ pending = {}
Sent == accepted \cup data.queue
Failed == {w.rev : w \in data.rows} \cup forgotten

\* The mapping never runs ahead of the queue: the head of a mapped file carries
\* exactly the path and content the mapping records, and it is with the server,
\* queued, shown as failed, or lost in a way the user was told of.  A mapping
\* that advanced without its revision would hide the change from every scan.
HeadsPublished ==
    \A m \in data.maps :
      LET r == data.heads[m.file] IN
      r # 0 /\ revs[r].content = m.hash /\ revs[r].path = m.path /\ r \in Sent \cup Failed

\* A start finds everything that changed while the program was closed, failed to
\* be queued or was undone with a damaged data.json: once the scan is through,
\* the mapping is the disk, but for deletes the breaker holds and files whose
\* identity is not settled.
ScanHeals ==
    Quiet /\ fresh =>
      \A p \in Paths \ proc.blocked :
        IF disk[p] = Absent THEN Mapped(p) => proc.held
        ELSE Mapped(p) /\ MappingOf(p).hash = disk[p]

\* Every queued revision has its bytes, whatever the order in which a stop, the
\* payload store and the saves of data.json meet: none is ever sent empty.
BytesKept == Listening => data.queue \subseteq payloads

\* No path has two live identities: neither a crash between writes, a late or a
\* duplicated event, nor the join of a vault that already has files mints a
\* second one.  The file of the peer, and a revision the device lost hold of, count
\* as long as the user has not touched a thing.
Alive(r) ==
    /\ revs[r].kind # "delete"
    /\ revs[r].kind = "peer" \/ r \in estranged => edits = 0
    /\ \A s \in Sent \cup Failed : r \notin revs[s].parents
OneIdentity ==
    \A r, s \in Sent : revs[r].file < revs[s].file /\ revs[r].path = revs[s].path
                       => ~(Alive(r) /\ Alive(s))

\* The parents of a revision that is queued in this step.
ParentsIn(known) ==
    Len(revs') > Len(revs) => revs'[Len(revs')].parents \subseteq known

\* A new revision only names parents the server has, will get, or that were lost
\* without a record of their own parents.
ParentsAlive == [][ParentsIn(Sent \cup forgotten)]_vars

\* What outbox-repository.ts says of quarantinedParents: a head the server never
\* received is walked back, so the next edit does not name a dead parent.
\* It does not hold: README, known divergences.
NoDeadParent == [][ParentsIn(Sent)]_vars
=============================================================================
