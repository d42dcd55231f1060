----------------------------- MODULE VaultApply -----------------------------
(***************************************************************************)
(* One file on several devices: how a change made on one of them is        *)
(* committed, pushed, pulled and applied on the others while their users   *)
(* keep editing.  Applying a revision takes several writes: the journal,   *)
(* the producer's mapping, the note, the record of what was applied and    *)
(* the cursor.  Saves of an editor and a stop of the program fall between  *)
(* any two of them.  Versions that diverged are merged over their common   *)
(* ancestor in the revision history; what overlaps becomes a conflict copy *)
(* that a later sweep or the user resolves.                                *)
(*                                                                         *)
(* A text is the set of edits it holds.  Edits that touch the same lines   *)
(* clash: mergeText combines two texts unless they do (see Diff3).  How    *)
(* an edit reaches the observer is Producer's subject, how the cycles are  *)
(* scheduled SyncRunner's; here the observer looks whenever it can.        *)
(***************************************************************************)
EXTENDS Naturals, Sequences, FiniteSets, SequencesExt

CONSTANTS
    Gone,          \* what is read where there is no file
    Conflict,      \* the merge of texts whose changes overlap
    Devices,       \* the devices of the vault
    Kinds,         \* what the file may be: "note", "settings", "attachment"
    MaxEdits,      \* bound on edits
    MaxChoices,    \* bound on deletes and on resolved conflicts
    MaxFaults,     \* bound on stops and lost answers
    MaxEvents,     \* bound on edits, choices and faults together
    MaxRevisions   \* bound on revisions

ASSUME VaultApplyAssumption ==
    /\ IsFiniteSet(Devices) /\ Devices # {}
    /\ Kinds \subseteq {"note", "settings", "attachment"}
    /\ {MaxEdits, MaxChoices, MaxFaults, MaxEvents, MaxRevisions} \subseteq Nat
    /\ \A text \in SUBSET (1..MaxEdits) : text # Gone /\ text # Conflict

VARIABLES
    kind,       \* what the file is
    clash,      \* how edits lie to each other: "apart", "near" or "same" lines
    revs,       \* every revision ever built
    log,        \* the revisions the server accepted, in order
    disk,       \* the file on each device
    typed,      \* the edit in an editor that is not saved yet, 0 if none
    store,      \* the durable sync state of each device
    boot,       \* the end of the feed at a session's first pull, 0 before it
    task,       \* the apply a device is in the middle of
    copies,     \* the revisions a device has a conflict copy of
    sweep,      \* the copies the next auto-repair pass will try
    trash,      \* edits in the local trash
    written,    \* every edit a user made
    dropped,    \* edits a user gave up
    edits, choices, faults

devices == <<disk, typed, store, boot, task, copies, sweep, trash>>
vars == <<kind, clash, revs, log, devices, written, dropped, edits, choices, faults>>

Edit == 1..MaxEdits
Text == SUBSET Edit
Revision == 1..Len(revs)
Room == edits + choices + faults < MaxEvents
Idle == [step |-> "idle"]
NoJournal == [open |-> FALSE]

\* The server's log as a set, and its heads.
Accepted == Range(log)
Heads == Accepted \ UNION {revs[s].parents : s \in Accepted}
Content(r) == revs[r].content

TypeOK ==
    /\ kind \in Kinds /\ clash \in {"apart", "near", "same"}
    /\ \A r \in Revision : revs[r].parents \subseteq 1..(r - 1) /\ Content(r) \in Text \cup {Gone}
    /\ Accepted \subseteq Revision
    /\ \A d \in Devices :
         /\ disk[d] \in Text \cup {Gone} /\ typed[d] \in 0..MaxEdits /\ trash[d] \subseteq Edit
         /\ copies[d] \cup sweep[d] \subseteq Revision
         /\ store[d].head \in 0..Len(revs) /\ {store[d].hash, store[d].base} \subseteq Text \cup {Gone}
         /\ store[d].owner \in BOOLEAN /\ store[d].queue \subseteq Revision
         /\ store[d].authored \cup store[d].backups \cup store[d].artifacts \subseteq Revision
         /\ store[d].cursor \in 0..Len(log) /\ boot[d] \in 0..Len(log)
         /\ task[d].step \in {"idle", "prewrite", "write", "merge", "trash", "record", "advance"}
    /\ written \cup dropped \subseteq Edit /\ edits \in 0..MaxEdits /\ choices \in 0..MaxChoices /\ faults \in 0..MaxFaults

Author == CHOOSE d \in Devices : TRUE
NewStore == [head |-> 0, hash |-> Gone, base |-> Gone, owner |-> FALSE, queue |-> {},
             authored |-> {}, cursor |-> 0, backups |-> {}, artifacts |-> {}, journal |-> NoJournal]

\* A device wrote the file and the server has it; the others have applied it,
\* or are new.  Whether edits of different users clash is open;
\* an attachment is never merged.
Init ==
    /\ kind \in Kinds
    /\ clash \in IF kind = "attachment" THEN {"same"} ELSE {"apart", "near", "same"}
    /\ revs = <<[parents |-> {}, past |-> {1}, content |-> {}]>> /\ log = <<1>>
    /\ \E new \in SUBSET (Devices \ {Author}) :
         /\ disk = [d \in Devices |-> IF d \in new THEN Gone ELSE {}]
         /\ boot = [d \in Devices |-> IF d \in new THEN 0 ELSE 1]
         /\ store = [d \in Devices |->
              IF d \in new THEN NewStore
              ELSE [NewStore EXCEPT !.head = 1, !.hash = {}, !.base = {}, !.owner = TRUE,
                                    !.authored = IF d = Author THEN {1} ELSE {}, !.cursor = 1]]
    /\ typed = [d \in Devices |-> 0] /\ task = [d \in Devices |-> Idle]
    /\ copies = [d \in Devices |-> {}] /\ sweep = [d \in Devices |-> {}]
    /\ trash = [d \in Devices |-> {}] /\ dropped = {}
    /\ written = {} /\ edits = 0 /\ choices = 0 /\ faults = 0

-----------------------------------------------------------------------------
(* The revision history a device knows, and the three-way merge.           *)

Queued(d) == store[d].queue
Graph(d) == Accepted \cup Queued(d)

\* A revision and all it was built on; past holds the closure over parents,
\* which stay in the graph of whoever has the revision (QueueDeliverable).
Ancestors(graph, r) == IF r \in graph THEN revs[r].past ELSE {r}

\* The nearest common ancestor in a set of common ones; 0 unless there is one.
Nearest(common) ==
    LET nearest == common \ UNION {revs[s].parents : s \in common}
    IN IF Cardinality(nearest) = 1 THEN CHOOSE s \in nearest : TRUE ELSE 0
CommonAncestor(d, left, right) ==
    Nearest(Ancestors(Graph(d), left) \cap Ancestors(Graph(d), right) \cap Graph(d))

Changed(a, b) == (a \ b) \cup (b \ a)

\* Edits of neighbouring lines merge, yet their merge and one of them overlap.
MergeText(ancestor, mine, theirs) ==
    LET m == Changed(ancestor, mine)
        t == Changed(ancestor, theirs) IN
    IF m # {} /\ t # {} /\ m # t /\ (clash = "same" \/ (clash = "near" /\ m \cap t # {}))
    THEN Conflict
    ELSE (mine \cap theirs) \cup (mine \ ancestor) \cup (theirs \ ancestor)

\* The merge over the ancestor of the device's head and a revision, if any.
MergeOver(d, r, mine) ==
    LET base == IF store[d].head = 0 THEN 0 ELSE CommonAncestor(d, store[d].head, r)
    IN IF base = 0 \/ kind = "attachment" THEN Conflict
       ELSE IF Content(base) = Gone THEN Conflict
       ELSE MergeText(Content(base), mine, Content(r))

-----------------------------------------------------------------------------
(* Users.                                                                  *)

EditFrame == UNCHANGED <<kind, clash, revs, log, store, boot, task, copies, sweep, trash, faults>>

\* Typing in an open editor, and the save that follows.
Type(d) ==
    /\ kind = "note" /\ disk[d] # Gone /\ typed[d] = 0 /\ edits < MaxEdits /\ Room
    /\ edits' = edits + 1 /\ written' = written \cup {edits + 1}
    /\ typed' = [typed EXCEPT ![d] = edits + 1]
    /\ UNCHANGED <<disk, dropped, choices>> /\ EditFrame
Save(d) ==
    /\ typed[d] # 0
    /\ disk' = [disk EXCEPT ![d] = @ \cup {typed[d]}] /\ typed' = [typed EXCEPT ![d] = 0]
    /\ UNCHANGED <<written, dropped, edits, choices>> /\ EditFrame

\* A setting or an attachment has no editor: it changes at once.
WriteFile(d) ==
    /\ kind # "note" /\ disk[d] # Gone /\ typed[d] = 0 /\ edits < MaxEdits /\ Room /\ edits' = edits + 1
    /\ disk' = [disk EXCEPT ![d] = @ \cup {edits + 1}] /\ written' = written \cup {edits + 1}
    /\ UNCHANGED <<typed, dropped, choices>> /\ EditFrame

DeleteNote(d) ==
    /\ disk[d] # Gone /\ typed[d] = 0 /\ choices < MaxChoices /\ Room /\ choices' = choices + 1
    /\ dropped' = dropped \cup disk[d]
    /\ disk' = [disk EXCEPT ![d] = Gone]
    /\ UNCHANGED <<typed, written, edits>> /\ EditFrame

-----------------------------------------------------------------------------
(* Committing and pushing.                                                 *)

NewRevision(parents, content) ==
    /\ Len(revs) < MaxRevisions
    /\ revs' = Append(revs, [parents |-> parents, content |-> content,
                             past |-> {Len(revs) + 1} \cup UNION {revs[p].past : p \in parents}])

\* The observer commits what differs from the mapping; the lock on the file
\* keeps it out of a running apply.  The base is seeded once, never advanced.
Committed(d) ==
    LET s == store[d]
        new == Len(revs) + 1 IN
    IF disk[d] = Gone
    THEN [s EXCEPT !.head = 0, !.hash = Gone, !.base = Gone, !.owner = FALSE, !.queue = @ \cup {new}]
    ELSE [s EXCEPT !.head = new, !.hash = disk[d], !.owner = TRUE, !.queue = @ \cup {new},
                   !.base = IF @ = Gone THEN disk[d] ELSE @]
Observe(d) ==
    /\ task[d] = Idle /\ store[d].hash # Gone /\ disk[d] # store[d].hash
    /\ NewRevision({store[d].head} \ {0}, disk[d])
    /\ store' = [store EXCEPT ![d] = Committed(d)]
    /\ UNCHANGED <<kind, clash, log, disk, typed, boot, task, copies, sweep, trash, written, dropped, edits, choices, faults>>

\* The server takes a revision whose parents it has; a merge only while it
\* names exactly the current heads (HEAD_SET_CHANGED otherwise: it stays queued).
Acceptable(r) ==
    /\ revs[r].parents \subseteq Accepted
    /\ Cardinality(revs[r].parents) >= 2 => revs[r].parents = Heads

\* The first of the queue that the server takes: its order is that of the
\* revisions.  A repeated push of an accepted revision gets the same receipt again.
Sendable(d) == {r \in Queued(d) : r \in Accepted \/ Acceptable(r)}
Push(d, answered) ==
    \E r \in Sendable(d) :
      /\ task[d] = Idle /\ boot[d] # 0 /\ \A q \in Sendable(d) : r <= q
      /\ log' = IF r \in Accepted THEN log ELSE Append(log, r)
      /\ IF answered
         THEN /\ store' = [store EXCEPT ![d].queue = @ \ {r}, ![d].authored = @ \cup {r}]
              /\ UNCHANGED faults
         ELSE /\ r \notin Accepted /\ faults < MaxFaults /\ Room /\ faults' = faults + 1
              /\ UNCHANGED store
      /\ UNCHANGED <<kind, clash, revs, disk, typed, boot, task, copies, sweep, trash, written, dropped, edits, choices>>

-----------------------------------------------------------------------------
(* Applying the next revision of the feed.                                 *)

Incoming(d) == log[store[d].cursor + 1]
HasIncoming(d) == task[d] = Idle /\ boot[d] # 0 /\ store[d].cursor < Len(log)
FastForward(d, r) == store[d].head # 0 /\ store[d].head \in Ancestors(Graph(d), r)

\* The disk holds the version the revision was built on.
Clean(d, r) == FastForward(d, r) /\ disk[d] = store[d].hash
HoldsLocalEdit(d, r) == disk[d] # store[d].base /\ ~Clean(d, r)
LastWriterWins == kind = "settings"

Diverged(d, r) ==
    /\ disk[d] # Gone /\ (~Clean(d, r) \/ kind = "attachment")
    /\ HoldsLocalEdit(d, r) \/ ~FastForward(d, r)

\* A merge is published only by the device that wrote its own side.
Merges(d, r) ==
    /\ Diverged(d, r) /\ MergeOver(d, r, disk[d]) # Conflict
    /\ store[d].head \in store[d].authored \cup Queued(d)

\* Faulty variant: a merge is retired although a later edit was built on it.
RetiredWithChild(d, r) ==
    {q \in Queued(d) : /\ Cardinality(revs[r].parents) >= 2 /\ Cardinality(revs[q].parents) >= 2
                       /\ revs[q].parents \subseteq revs[r].parents /\ Content(q) = Content(r)}

\* Merges of the queue that the server already has from another device.
Retired(d, r) ==
    {q \in Queued(d) : /\ Cardinality(revs[r].parents) >= 2 /\ Cardinality(revs[q].parents) >= 2
                       /\ revs[q].parents \subseteq revs[r].parents /\ Content(q) = Content(r)
                       /\ \A s \in Queued(d) : q \notin revs[s].parents}
Advanced(d, s, r) == [s EXCEPT !.cursor = @ + 1, !.queue = @ \ Retired(d, r)]

\* The journal is written before anything else changes.
Journalled(s) == [s EXCEPT !.journal =
    [open |-> TRUE, head |-> s.head, hash |-> s.hash, base |-> s.base, owner |-> s.owner, discard |-> {}]]
Closed(s) == [s EXCEPT !.journal = NoJournal]

\* Faulty variant: only what was queued is taken back.
UndoneQueueOnly(s) ==
    IF s.journal.open
    THEN [s EXCEPT !.queue = @ \ s.journal.discard,
                   !.backups = @ \cup s.journal.discard, !.journal = NoJournal]
    ELSE s

Undone(s) ==
    IF s.journal.open
    THEN [s EXCEPT !.head = s.journal.head, !.hash = s.journal.hash, !.base = s.journal.base,
                   !.owner = s.journal.owner, !.queue = @ \ s.journal.discard,
                   !.backups = @ \cup s.journal.discard, !.journal = NoJournal]
    ELSE s

Adopted(s, r) == [s EXCEPT !.head = r, !.hash = Content(r)]
Recorded(s, text) == [s EXCEPT !.base = text, !.owner = TRUE]
Forgotten(s) == [s EXCEPT !.head = 0, !.hash = Gone]

ApplyFrame == UNCHANGED <<kind, clash, log, typed, boot, written, dropped, edits, choices, faults>>
Goto(d, next) == task' = [task EXCEPT ![d] = next]
KeepTask(d, s) == store' = [store EXCEPT ![d] = s]

\* The first pull of a session: what it finds is catching up.
FirstPull(d) ==
    /\ task[d] = Idle /\ boot[d] = 0 /\ boot' = [boot EXCEPT ![d] = Len(log)]
    /\ UNCHANGED <<kind, clash, revs, log, disk, typed, store, task, copies, sweep, trash>>
    /\ UNCHANGED <<written, dropped, edits, choices, faults>>

\* A revision of this device's own, one it already has, or one that a device
\* catching up without the file can skip, since another was built on it.
Suppress(d) ==
    /\ HasIncoming(d) /\ Incoming(d) \in store[d].authored
    /\ store' = [store EXCEPT ![d].cursor = @ + 1]
    /\ UNCHANGED <<revs, disk, task, copies, sweep, trash>> /\ ApplyFrame
Skips(d, r) ==
    IF store[d].head = 0 THEN store[d].cursor < boot[d] /\ r \notin Heads
    ELSE r \in Ancestors(Graph(d), store[d].head)
Known(d) ==
    LET r == Incoming(d) IN
    /\ HasIncoming(d) /\ typed[d] = 0 /\ r \notin store[d].authored /\ Skips(d, r)
    /\ KeepTask(d, Advanced(d, store[d], r))
    /\ UNCHANGED <<revs, disk, task, copies, sweep, trash>> /\ ApplyFrame

\* What an apply finds under the file's lock, with no unsaved text in an editor.
Applying(d, r) ==
    /\ HasIncoming(d) /\ typed[d] = 0 /\ r = Incoming(d) /\ r \notin store[d].authored
    /\ ~Skips(d, r)

\* A copy of the incoming revision, or a marker that it is a delete, and the
\* journal undone; a copy not recorded before wakes the auto-repair.
Divert(d, r) ==
    /\ copies' = [copies EXCEPT ![d] = @ \cup {r}]
    /\ sweep' = [sweep EXCEPT ![d] = IF r \in store[d].artifacts THEN @ ELSE copies'[d]]
    /\ KeepTask(d, [Undone(store[d]) EXCEPT !.artifacts = @ \cup {r}])
    /\ Goto(d, [step |-> "advance", rev |-> r, conflict |-> TRUE])
    /\ UNCHANGED <<revs, disk, trash>> /\ ApplyFrame

ApplyDelete(d, r) ==
    /\ Content(r) = Gone /\ ~(HoldsLocalEdit(d, r) /\ disk[d] # Gone /\ ~LastWriterWins /\ store[d].owner)
    /\ IF store[d].owner
       THEN KeepTask(d, Forgotten(Journalled(store[d]))) /\ Goto(d, [step |-> "trash", rev |-> r])
       ELSE UNCHANGED store /\ Goto(d, [step |-> "advance", rev |-> r, conflict |-> FALSE])
    /\ UNCHANGED <<revs, disk, copies, sweep, trash>> /\ ApplyFrame
KeepDeleted(d, r) ==
    /\ Content(r) = Gone /\ store[d].owner
    /\ disk[d] # Gone /\ ~LastWriterWins /\ HoldsLocalEdit(d, r)
    /\ Divert(d, r)

ApplySame(d, r) ==
    /\ Content(r) # Gone /\ disk[d] = Content(r)
    /\ KeepTask(d, Adopted(Recorded(store[d], Content(r)), r))
    /\ Goto(d, [step |-> "advance", rev |-> r, conflict |-> FALSE])
    /\ UNCHANGED <<revs, disk, copies, sweep, trash>> /\ ApplyFrame

\* The merge is queued before the file changes.
ApplyMerge(d, r) ==
    LET s == Journalled(store[d])
        merged == MergeOver(d, r, disk[d])
        new == Len(revs) + 1
        next == [s EXCEPT !.head = new, !.hash = merged, !.queue = @ \cup {new},
                          !.journal.discard = {new}] IN
    /\ Content(r) # Gone /\ disk[d] # Content(r) /\ Merges(d, r)
    /\ NewRevision(IF s.head \in revs[r].parents THEN {r} ELSE {s.head, r}, merged)
    /\ IF merged = disk[d]
       THEN /\ KeepTask(d, [Closed(next) EXCEPT !.owner = TRUE])
            /\ Goto(d, [step |-> "advance", rev |-> r, conflict |-> FALSE])
       ELSE KeepTask(d, next) /\ Goto(d, [step |-> "merge", rev |-> r, seen |-> disk[d], text |-> merged])
    /\ UNCHANGED <<disk, copies, sweep, trash>> /\ ApplyFrame

ApplyDiverged(d, r) ==
    /\ Content(r) # Gone /\ disk[d] # Content(r)
    /\ Diverged(d, r) /\ ~Merges(d, r) /\ ~LastWriterWins
    /\ Divert(d, r)

\* The revision is adopted first, so that the write is not taken for an edit.
ApplyWrite(d, r) ==
    /\ Content(r) # Gone /\ disk[d] # Content(r)
    /\ ~Diverged(d, r) \/ (LastWriterWins /\ ~Merges(d, r))
    /\ KeepTask(d, Adopted(Journalled(store[d]), r))
    /\ Goto(d, [step |-> "prewrite", rev |-> r, clean |-> IF Clean(d, r) THEN disk[d] ELSE store[d].base])
    /\ UNCHANGED <<revs, disk, copies, sweep, trash>> /\ ApplyFrame

\* The file is read again: a save that landed since the decision is kept.
SavedSince(d) ==
    LET t == task[d] IN
    /\ disk[d] # Gone /\ ~LastWriterWins /\ disk[d] # Content(t.rev)
    /\ disk[d] \notin {store[d].base, t.clean}
Prewrite(d) ==
    /\ task[d].step = "prewrite"
    /\ \/ SavedSince(d) /\ Divert(d, task[d].rev)
       \/ /\ ~SavedSince(d)
          /\ Goto(d, [step |-> "write", rev |-> task[d].rev, seen |-> disk[d], text |-> Content(task[d].rev)])
          /\ UNCHANGED <<revs, disk, store, copies, sweep, trash>> /\ ApplyFrame

Defer(d) ==
    /\ KeepTask(d, Undone(store[d])) /\ Goto(d, Idle)
    /\ UNCHANGED <<revs, disk, copies, sweep, trash>> /\ ApplyFrame

\* Faulty variant: the write trusts the read before it.
UnseenNeverSaved(d) == TRUE

\* A note is compared and written in one step; a setting or an attachment is
\* written over whatever is there.
Unseen(d) == kind = "note" => disk[d] = task[d].seen /\ typed[d] = 0

WriteNote(d) ==
    /\ task[d].step \in {"write", "merge"}
    /\ \/ ~Unseen(d) /\ Defer(d)
       \/ /\ Unseen(d)
          /\ disk' = [disk EXCEPT ![d] = task[d].text]
          /\ Goto(d, [step |-> "record", rev |-> task[d].rev, from |-> task[d].step])
          /\ UNCHANGED <<revs, store, copies, sweep, trash>> /\ ApplyFrame

TrashNote(d) ==
    /\ task[d].step = "trash"
    /\ \/ typed[d] # 0 /\ Defer(d)
       \/ /\ typed[d] = 0
          /\ trash' = IF disk[d] = Gone \/ LastWriterWins THEN trash ELSE [trash EXCEPT ![d] = @ \cup disk[d]]
          /\ disk' = [disk EXCEPT ![d] = Gone]
          /\ Goto(d, [step |-> "record", rev |-> task[d].rev, from |-> "trash"])
          /\ UNCHANGED <<revs, store, copies, sweep>> /\ ApplyFrame

\* What was applied becomes the base; a merge moves no base.
Record(d) ==
    LET s == Closed(store[d]) IN
    /\ task[d].step = "record"
    /\ KeepTask(d, CASE task[d].from = "write" -> Recorded(s, Content(task[d].rev))
                     [] task[d].from = "merge" -> [s EXCEPT !.owner = TRUE]
                     [] task[d].from = "trash" -> [s EXCEPT !.owner = FALSE, !.base = Gone])
    /\ Goto(d, [step |-> "advance", rev |-> task[d].rev, conflict |-> FALSE])
    /\ UNCHANGED <<revs, disk, copies, sweep, trash>> /\ ApplyFrame

Advance(d) ==
    /\ task[d].step = "advance"
    /\ KeepTask(d, IF task[d].conflict THEN [store[d] EXCEPT !.cursor = @ + 1]
                   ELSE Advanced(d, store[d], task[d].rev))
    /\ Goto(d, Idle)
    /\ UNCHANGED <<revs, disk, copies, sweep, trash>> /\ ApplyFrame

Apply(d) == \E r \in Accepted : Applying(d, r) /\ (\/ ApplyDelete(d, r) \/ KeepDeleted(d, r) \/ ApplySame(d, r)
                                                    \/ ApplyMerge(d, r) \/ ApplyDiverged(d, r) \/ ApplyWrite(d, r))
ApplyStep(d) == \/ FirstPull(d) \/ Suppress(d) \/ Known(d) \/ Apply(d)
                \/ Prewrite(d) \/ WriteNote(d) \/ TrashNote(d) \/ Record(d) \/ Advance(d)

\* A file without an identity at the start takes that of the only head with its
\* text; otherwise it is held back until the pull decides about it.
bootstrapIdentities(d, s) ==
    IF s.hash = Gone /\ disk[d] # Gone /\ s.queue = {} /\ {Content(h) : h \in Heads} = {disk[d]}
       /\ Cardinality(Heads) = 1
    THEN Adopted(Recorded(s, disk[d]), CHOOSE h \in Heads : TRUE)
    ELSE s

\* The program stops; at the next start an open journal is undone before any scan.
Restart(d) ==
    /\ faults < MaxFaults /\ Room /\ faults' = faults + 1
    /\ Goto(d, Idle) /\ KeepTask(d, bootstrapIdentities(d, Undone(store[d])))
    /\ dropped' = dropped \cup ({typed[d]} \ {0}) /\ typed' = [typed EXCEPT ![d] = 0]
    /\ sweep' = [sweep EXCEPT ![d] = copies[d]] /\ boot' = [boot EXCEPT ![d] = 0]
    /\ UNCHANGED <<kind, clash, revs, log, disk, copies, trash, written, edits, choices>>

-----------------------------------------------------------------------------
(* Reconciling the heads after a pull.                                     *)

\* The file folded with every head it does not descend from; ok when all merge.
FoldHead(d, acc, h) ==
    LET graph == Graph(d)
        equivalent == \E e \in acc.lineage \cap graph :
                        /\ Cardinality(revs[h].parents) > 1 /\ revs[e].parents = revs[h].parents
                        /\ Content(e) = Content(h)
        base == Nearest(acc.lineage \cap Ancestors(graph, h) \cap graph)
        mergeable == base # 0 /\ Content(base) # Gone
        text == IF Content(h) = acc.text \/ equivalent THEN acc.text
                ELSE IF mergeable THEN MergeText(Content(base), acc.text, Content(h)) ELSE Conflict IN
    IF ~acc.ok \/ h \in acc.lineage THEN acc
    ELSE IF Content(h) = Gone \/ text = Conflict THEN [acc EXCEPT !.ok = FALSE]
    ELSE [ok |-> TRUE, lineage |-> acc.lineage \cup Ancestors(graph, h), text |-> text]

Folded(d) ==
    LET heads == Heads
        fold[n \in 0..Len(log)] ==
          IF n = 0 THEN [ok |-> TRUE, lineage |-> Ancestors(Graph(d), store[d].head), text |-> disk[d]]
          ELSE IF log[n] \in heads THEN FoldHead(d, fold[n - 1], log[n])
          ELSE fold[n - 1]
    IN fold[Len(log)]

\* Every branch is already in the file.
Represented(d) == LET all == Folded(d) IN all.ok /\ all.text = disk[d]

Reconcilable(d) ==
    LET s == store[d] IN
    /\ task[d] = Idle /\ boot[d] # 0 /\ kind # "attachment" /\ typed[d] = 0
    /\ s.head # 0 /\ s.hash # Gone /\ disk[d] = s.hash
    /\ Heads # {} /\ (Cardinality(Heads) = 1 => s.queue # {})
    /\ s.queue # {} => \E q \in Queued(d) : Cardinality(revs[q].parents) > 1
    /\ Queued(d) \subseteq Ancestors(Graph(d), s.head)
    /\ Represented(d)

\* Faulty variant: the only head is adopted whatever it holds.
AdoptsAnyHead(d) == Cardinality(Heads) = 1

AdoptsHead(d) == Cardinality(Heads) = 1 /\ \A h \in Heads : Content(h) = disk[d]

\* The queue is swapped for what is given, its revisions kept as backups.
Swapped(d, head, queue) ==
    [store[d] EXCEPT !.head = head, !.queue = queue, !.backups = @ \cup Queued(d), !.owner = TRUE,
                     !.base = IF @ = Gone THEN disk[d] ELSE @]

\* The queue is replaced by one revision over all heads, or by the only head.  To
\* replace a revision by its own copy under another id is left out.
Reconcile(d) ==
    /\ Reconcilable(d)
    /\ ~\E q \in Queued(d) : Queued(d) = {q} /\ revs[q].parents = Heads /\ Content(q) = disk[d]
    /\ IF AdoptsHead(d)
       THEN UNCHANGED revs /\ KeepTask(d, Swapped(d, CHOOSE h \in Heads : TRUE, {}))
       ELSE /\ NewRevision(Heads, disk[d])
            /\ KeepTask(d, Swapped(d, Len(revs) + 1, {Len(revs) + 1}))
    /\ UNCHANGED <<disk, task, copies, sweep, trash>> /\ ApplyFrame

-----------------------------------------------------------------------------
(* Conflict copies.                                                        *)

\* Auto-repair merges a copy into its note; it takes no lock.
Sweep(d, r) ==
    LET merged == MergeOver(d, r, disk[d])
        repairs == /\ r \in copies[d] /\ kind = "note" /\ store[d].owner /\ Content(r) # Gone
                   /\ disk[d] # Gone /\ typed[d] = 0 /\ merged # Conflict IN
    /\ r \in sweep[d] /\ sweep' = [sweep EXCEPT ![d] = @ \ {r}]
    /\ IF repairs
       THEN disk' = [disk EXCEPT ![d] = merged] /\ copies' = [copies EXCEPT ![d] = @ \ {r}]
       ELSE UNCHANGED <<disk, copies>>
    /\ UNCHANGED <<revs, store, task, trash>> /\ ApplyFrame

\* The user keeps the note as it is, or takes the copy instead of it.
ResolveFrame == UNCHANGED <<kind, clash, revs, log, typed, store, boot, task, sweep, written, edits, faults>>
Resolving(d, r) ==
    /\ r \in copies[d] /\ choices < MaxChoices /\ Room /\ choices' = choices + 1
    /\ copies' = [copies EXCEPT ![d] = @ \ {r}]
KeepMine(d, r) ==
    /\ Resolving(d, r)
    /\ dropped' = dropped \cup (IF Content(r) = Gone THEN {} ELSE Content(r))
    /\ UNCHANGED <<disk, trash>> /\ ResolveFrame
KeepTheirs(d, r) ==
    /\ Resolving(d, r) /\ typed[d] = 0 /\ (disk[d] # Gone \/ Content(r) = Gone)
    /\ disk' = [disk EXCEPT ![d] = Content(r)]
    /\ trash' = IF Content(r) # Gone \/ disk[d] = Gone THEN trash ELSE [trash EXCEPT ![d] = @ \cup disk[d]]
    /\ dropped' = IF disk[d] = Gone THEN dropped ELSE dropped \cup disk[d]
    /\ ResolveFrame

-----------------------------------------------------------------------------
User(d) == Type(d) \/ WriteFile(d) \/ DeleteNote(d) \/ \E r \in copies[d] : KeepMine(d, r) \/ KeepTheirs(d, r)
Next == \E d \in Devices :
    \/ User(d) \/ Save(d) \/ Observe(d) \/ Push(d, TRUE) \/ ApplyStep(d) \/ Reconcile(d) \/ Restart(d)
    \/ Push(d, FALSE)
    \/ \E r \in sweep[d] : Sweep(d, r)
Spec == Init /\ [][Next]_vars

-----------------------------------------------------------------------------
(* Safety.                                                                 *)

TextOf(t) == IF t = Gone THEN {} ELSE t
Edits(revisions) == UNION {TextOf(Content(r)) : r \in revisions}
Copied(d) == Edits(copies[d])
Kept == UNION {TextOf(disk[d]) \cup trash[d] \cup Edits(store[d].backups \cup Queued(d)) : d \in Devices}

\* No save is lost (rule 3): whatever a user wrote to a note is in a file, in
\* the trash, in a queue or its backup, or in a revision the server accepted,
\* unless a user gave it up.  An editor that was not saved is the user's own.
NoEditLost ==
    kind = "note" =>
      written \subseteq Kept \cup Edits(Accepted) \cup dropped
                         \cup {typed[d] : d \in Devices}

\* A device that has read the whole feed shows all of it: an edit that the
\* server accepted is in the note or in a conflict copy, unless a user gave it up
\* or a device put it in the trash.  That may be the trash of another device: one
\* that catches up without the file skips what was edited before a delete.  An
\* attachment is written without a comparison, over what a user just chose.
Quiet(d) == task[d] = Idle /\ store[d].cursor = Len(log)
GivenUp == dropped \cup UNION {trash[d] : d \in Devices}
NothingHidden ==
    kind = "note" => \A d \in Devices : Quiet(d) =>
      Edits(Accepted) \subseteq TextOf(disk[d]) \cup Copied(d) \cup GivenUp

\* Whatever a queue holds can still be delivered: its parents are on the server
\* or queued too.
QueueDeliverable ==
    \A d \in Devices : \A q \in Queued(d) : revs[q].parents \subseteq Graph(d)

\* Once everything is sent and read, the last writer of a setting has won on
\* every device (vault-apply.ts:119).
Sent == \A d \in Devices : Quiet(d) /\ store[d].queue = {} /\ disk[d] = store[d].hash
LastWriterWon == kind = "settings" /\ Sent => \A c, d \in Devices : disk[c] = disk[d]

\* Devices that answer each other's merges stop: no run uses all revisions.  And
\* without a conflict left to a user, devices that have nothing more to do have
\* the same text, and all of it is on the server.  A merge that lost a race may
\* stay queued after its text arrived from another device: HEAD_SET_CHANGED has
\* no other recovery.  A note deleted while its device catches up after a stop
\* can come back there; this case is left out.
Work(d) == Save(d) \/ Observe(d) \/ Push(d, TRUE) \/ ApplyStep(d) \/ Reconcile(d)
Settled ==
    \A c, d \in Devices :
      /\ disk[c] = disk[d] /\ \A q \in Queued(d) : TextOf(Content(q)) \subseteq TextOf(disk[d])
      /\ \E h \in Heads : Content(h) = disk[d]
Held(d) == task[d] = Idle /\ disk[d] # Gone /\ store[d].hash = Gone
Unresolved == dropped # {} \/ \E d \in Devices : copies[d] # {} \/ Held(d)
Busy(d) == task[d] # Idle \/ typed[d] # 0 \/ ENABLED Work(d)
MergesEnd == Len(revs) < MaxRevisions
RestsSettled ==
    /\ MergesEnd
    /\ \/ Settled \/ Unresolved \/ (choices # 0 /\ faults # 0) \/ kind = "settings"
       \/ \E d \in Devices : Busy(d)
=============================================================================
