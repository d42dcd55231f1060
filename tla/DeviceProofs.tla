---------------------------- MODULE DeviceProofs ----------------------------
(***************************************************************************)
(* Proofs about what one device keeps through crashes: the files of its    *)
(* vault with the revisions of its queue (VaultApply), and its credential  *)
(* with the family the server keeps for it (RefreshRotation).  The two     *)
(* name nothing in common and are proved about one after the other, for    *)
(* any number of devices, edits, choices, tokens and faults.               *)
(*                                                                         *)
(* Of the vault: what a queue holds can be delivered, no edit of a note is *)
(* lost, and a device that has read the whole feed shows all of it.  A     *)
(* stop may come at any step of an apply, so the invariants ask of the     *)
(* state of a device and of what undoing its journal would make of it the  *)
(* same.  For the last one, an edit that the server accepted is in the     *)
(* file, in a conflict copy or given up, or it is also in a revision that  *)
(* the device has not read, and a revision holds what it was built on.     *)
(* The lemmas about one device are about constants: s stands for its       *)
(* durable state, t for its task, rs for the revisions there are and acc   *)
(* for those the server accepted.                                          *)
(*                                                                         *)
(* Of the credential: Chain is the server's inductive invariant, which     *)
(* holds whoever presents which token.  Honest is the invariant of a       *)
(* device as long as its first provider is the only holder of its tokens:  *)
(* either the stored token is current and the successor of a pending       *)
(* record is still unused, or the stored token was consumed by exactly the *)
(* pending record.                                                         *)
(***************************************************************************)
EXTENDS VaultApply, RefreshRotation, FiniteSetTheorems, SequenceTheorems, WellFoundedInduction,
        TLAPS

-----------------------------------------------------------------------------
(* What holds of one device.  rs stands for the revisions there are, acc   *)
(* for the accepted ones, s for a device's durable state, t for its task.  *)

IsStore(s) ==
    /\ s.cursor \in Nat
    /\ s = [head |-> s.head, hash |-> s.hash, base |-> s.base, owner |-> s.owner,
            queue |-> s.queue, authored |-> s.authored, cursor |-> s.cursor,
            backups |-> s.backups, artifacts |-> s.artifacts, journal |-> s.journal]

\* A revision is built on earlier ones, its past is theirs, and a merge is no
\* delete.
RevisionsFit(rs) ==
    \A r \in 1..Len(rs) :
      /\ rs[r].content \in Text \cup {Gone}
      /\ rs[r].parents \subseteq 1..(r - 1)
      /\ rs[r].past \subseteq {r} \cup UNION {rs[p].past : p \in rs[r].parents}
      /\ rs[r].past \subseteq 1..r
      /\ Cardinality(rs[r].parents) >= 2 => rs[r].content # Gone

\* What is queued can be delivered, and the mapping describes its head.
Sound(s, rs, acc) ==
    /\ s.queue \subseteq 1..Len(rs) /\ s.backups \subseteq 1..Len(rs)
    /\ \A q \in s.queue : rs[q].parents \subseteq acc \cup s.queue
    /\ s.head = 0 => s.hash = Gone
    /\ s.head # 0 => s.head \in acc \cup s.queue /\ rs[s.head].content = s.hash

\* The head is what the apply of a revision has made it.
Applied(s, r, rs) ==
    \/ s.head = 0 \/ s.head = r \/ rs[r].content = Gone
    \/ s.head # 0 /\ r \in rs[s.head].parents

\* An apply in the middle.
TaskFits(s, t, rs, acc) ==
    /\ s.journal.open => t.step \in {"prewrite", "write", "merge", "trash", "record"}
    /\ t.step # "idle" => t.rev \in acc
    /\ t.step \in {"prewrite", "write"} => s.head = t.rev
    /\ t.step = "merge" => s.head # 0 /\ t.rev \in rs[s.head].parents
    /\ t.step \in {"write", "merge"} => t.text = s.hash
    /\ t.step = "trash" => s.head = 0
    /\ t.step = "record" => /\ t.from \in {"write", "merge", "trash"}
                            /\ Applied(s, t.rev, rs)
    /\ t.step = "advance" => t.conflict \/ Applied(s, t.rev, rs)

Fits(s, t, rs, acc) ==
    /\ IsStore(s)
    /\ Sound(s, rs, acc)
    /\ Sound(Undone(s), rs, acc)
    /\ TaskFits(s, t, rs, acc)

\* Only an open note has unsaved text.
Editing(d) == typed[d] # 0 => kind = "note" /\ disk[d] # Gone

DeliverInv ==
    /\ kind \in Kinds /\ edits \in 0..MaxEdits
    /\ revs \in Seq([parents : SUBSET Nat, past : SUBSET Nat, content : Text \cup {Gone}])
    /\ log \in Seq(1..Len(revs))
    /\ disk \in [Devices -> Text \cup {Gone}] /\ typed \in [Devices -> 0..MaxEdits]
    /\ store = [d \in Devices |-> store[d]] /\ task = [d \in Devices |-> task[d]]
    /\ copies = [d \in Devices |-> copies[d]]
    /\ RevisionsFit(revs)
    /\ \A d \in Devices : copies[d] \subseteq Accepted /\ Editing(d) /\ Fits(store[d], task[d], revs, Accepted)

\* What no step takes away: the edits of revisions that are kept somewhere, of
\* the trash, and those a user gave up.
Safe == Edits(Accepted) \cup dropped
          \cup UNION {trash[d] \cup Edits(store[d].backups \cup store[d].queue) : d \in Devices}

\* What an apply in the middle is about to write over is safe.
OverwritesSafe(t, safe) ==
    /\ t.step = "prewrite" => TextOf(t.clean) \subseteq safe
    /\ t.step = "write" => TextOf(t.seen) \subseteq safe
    /\ t.step = "merge" => TextOf(t.seen) \subseteq safe \cup TextOf(t.text)

\* So is the last text that was applied, also the one a stop goes back to.
BasesSafe(s, safe) ==
    /\ TextOf(s.base) \subseteq safe
    /\ s.journal.open => TextOf(s.journal.base) \subseteq safe

WrittenSafe ==
    /\ 0 \notin written
    /\ written \subseteq Safe \cup {typed[d] : d \in Devices} \cup UNION {TextOf(disk[d]) : d \in Devices}

KeptInv ==
    kind = "note" =>
      /\ WrittenSafe
      /\ \A d \in Devices : BasesSafe(store[d], Safe) /\ OverwritesSafe(task[d], Safe)

-----------------------------------------------------------------------------
(* Revisions are added, never changed.                                     *)

Revisions == Seq([parents : SUBSET Nat, past : SUBSET Nat, content : Text \cup {Gone}])

Grows(rs, rs2) ==
    /\ Len(rs) \in Nat /\ Len(rs2) \in Nat /\ Len(rs) <= Len(rs2)
    /\ \A r \in 1..Len(rs) : rs2[r] = rs[r]

LEMMA SoundGrows ==
  ASSUME NEW s, NEW rs, NEW rs2, NEW acc, NEW acc2, Grows(rs, rs2),
         acc \subseteq acc2, acc \subseteq 1..Len(rs), Sound(s, rs, acc)
  PROVE  Sound(s, rs2, acc2)
<1>1. 1..Len(rs) \subseteq 1..Len(rs2)
  BY DEF Grows
<1>2. \A q \in s.queue : rs2[q] = rs[q]
  BY DEF Grows, Sound
<1>3. s.head # 0 => s.head \in 1..Len(rs) /\ rs2[s.head] = rs[s.head]
  BY DEF Grows, Sound
<1> QED BY <1>1, <1>2, <1>3 DEF Sound

LEMMA TaskGrows ==
  ASSUME NEW s, NEW t, NEW rs, NEW rs2, NEW acc, NEW acc2, Grows(rs, rs2),
         acc \subseteq acc2, acc \subseteq 1..Len(rs), Sound(s, rs, acc), TaskFits(s, t, rs, acc)
  PROVE  TaskFits(s, t, rs2, acc2)
<1>1. s.head # 0 => rs2[s.head] = rs[s.head]
  BY DEF Grows, Sound
<1>2. t.step # "idle" => rs2[t.rev] = rs[t.rev]
  BY DEF Grows, TaskFits
<1>3. t.step # "idle" /\ Applied(s, t.rev, rs) => Applied(s, t.rev, rs2)
  BY <1>1, <1>2 DEF Applied
<1> QED BY <1>1, <1>3 DEF TaskFits

LEMMA FitsGrows ==
  ASSUME NEW s, NEW t, NEW rs, NEW rs2, NEW acc, NEW acc2, Grows(rs, rs2),
         acc \subseteq acc2, acc \subseteq 1..Len(rs), Fits(s, t, rs, acc)
  PROVE  Fits(s, t, rs2, acc2)
BY SoundGrows, TaskGrows DEF Fits

LEMMA Same ==
  ASSUME DeliverInv
  PROVE  /\ Len(revs) \in Nat /\ Grows(revs, revs)
         /\ Accepted \subseteq 1..Len(revs)
         /\ revs \in Revisions
<1>1. Len(revs) \in Nat
  BY DEF DeliverInv
<1>2. Accepted \subseteq 1..Len(revs)
  <2>1. log \in Seq(1..Len(revs))
    BY DEF DeliverInv
  <2> QED BY <2>1 DEF Accepted, Range
<1> QED BY <1>1, <1>2 DEF Grows, DeliverInv, Revisions

\* A new revision over known ones.
LEMMA NewFits ==
  ASSUME DeliverInv, NEW parents, NEW content, NewRevision(parents, content),
         parents \subseteq 1..Len(revs), content \in Text \cup {Gone},
         Cardinality(parents) >= 2 => content # Gone
  PROVE  /\ Grows(revs, revs') /\ revs' \in Revisions /\ RevisionsFit(revs')
         /\ Len(revs) \in Nat /\ Len(revs') = Len(revs) + 1
         /\ revs'[Len(revs) + 1].parents = parents
         /\ revs'[Len(revs) + 1].content = content
<1> DEFINE n == Len(revs) + 1
           before == UNION {revs[p].past : p \in parents}
           new == [parents |-> parents, content |-> content,
                   past |-> {n} \cup UNION {revs[p].past : p \in parents}]
<1>1. Len(revs) \in Nat /\ revs \in Revisions /\ RevisionsFit(revs)
  BY Same DEF DeliverInv
<1>2. revs' = Append(revs, new)
  BY DEF NewRevision
<1>3. \A p \in parents : revs[p].past \subseteq 1..p /\ p \in 1..Len(revs)
  BY <1>1 DEF RevisionsFit
<1>8. before \subseteq 1..n /\ before \subseteq Nat /\ n \in Nat /\ n \in 1..n
  <2>1. \A p \in parents : revs[p].past \subseteq 1..n
    BY <1>1, <1>3
  <2>2. before \subseteq 1..n
    BY <2>1
  <2>3. n \in Nat /\ n \in 1..n
    BY <1>1
  <2> HIDE DEF before, n
  <2> QED BY <2>2, <2>3
<1>9. new.parents = parents /\ new.content = content /\ new.past = {n} \cup before
  OBVIOUS
<1>4. new \in [parents : SUBSET Nat, past : SUBSET Nat, content : Text \cup {Gone}]
  <2>1. parents \in SUBSET Nat /\ {n} \cup before \in SUBSET Nat
    BY <1>1, <1>8
  <2> HIDE DEF before, n
  <2> QED BY <1>9, <2>1
<1>5. /\ revs' \in Revisions /\ Len(revs') = n /\ revs'[n] = new
      /\ \A r \in 1..Len(revs) : revs'[r] = revs[r]
  <2> HIDE DEF new
  <2> QED BY <1>1, <1>2, <1>4 DEF Revisions
<1>6. Grows(revs, revs')
  BY <1>1, <1>5 DEF Grows
<1>7. ASSUME NEW r \in 1..Len(revs')
      PROVE  /\ revs'[r].content \in Text \cup {Gone}
             /\ revs'[r].parents \subseteq 1..(r - 1)
             /\ revs'[r].past \subseteq {r} \cup UNION {revs'[p].past : p \in revs'[r].parents}
             /\ revs'[r].past \subseteq 1..r
             /\ Cardinality(revs'[r].parents) >= 2 => revs'[r].content # Gone
  <2>1. CASE r \in 1..Len(revs)
    <3>1. revs'[r] = revs[r]
      BY <2>1, <1>5
    <3>2. revs[r].parents \subseteq 1..(r - 1)
      BY <1>1, <2>1 DEF RevisionsFit
    <3>3. \A p \in revs[r].parents : revs'[p] = revs[p]
      BY <1>1, <1>5, <2>1, <3>2
    <3>4. UNION {revs'[p].past : p \in revs[r].parents} = UNION {revs[p].past : p \in revs[r].parents}
      BY <3>3
    <3> QED BY <1>1, <2>1, <3>1, <3>4 DEF RevisionsFit
  <2>2. CASE r = n
    <3>1. UNION {revs'[p].past : p \in parents} = before
      BY <1>5
    <3>2. revs'[r] = new
      BY <1>5, <2>2
    <3>3. /\ revs'[r].parents = parents /\ revs'[r].content = content
          /\ revs'[r].past = {n} \cup before
      BY <1>9, <3>2
    <3>4. parents \subseteq 1..(r - 1)
      BY <1>1, <2>2
    <3> HIDE DEF new, before, n
    <3> QED BY <1>8, <2>2, <3>1, <3>3, <3>4
  <2> QED BY <1>1, <1>5, <2>1, <2>2
<1> QED BY <1>1, <1>5, <1>6, <1>7 DEF RevisionsFit

-----------------------------------------------------------------------------
(* A step of one device leaves the others as they were.                    *)

DiskFits == /\ disk \in [Devices -> Text \cup {Gone}]
            /\ typed \in [Devices -> 0..MaxEdits] /\ kind \in Kinds /\ edits \in 0..MaxEdits
            /\ copies = [d \in Devices |-> copies[d]]
            /\ \A d \in Devices : copies[d] \subseteq Accepted /\ Editing(d)

LEMMA DeviceStep ==
  ASSUME DeliverInv, NEW d \in Devices, NEW s, NEW t,
         Grows(revs, revs'), revs' \in Revisions, RevisionsFit(revs'),
         Accepted \subseteq Accepted', log' \in Seq(1..Len(revs')),
         store' = [store EXCEPT ![d] = s], task' = [task EXCEPT ![d] = t],
         DiskFits', Fits(s, t, revs', Accepted')
  PROVE  DeliverInv'
<1>1. /\ store' = [e \in Devices |-> store'[e]] /\ task' = [e \in Devices |-> task'[e]]
      /\ store'[d] = s /\ task'[d] = t
      /\ \A e \in Devices : e # d => store'[e] = store[e] /\ task'[e] = task[e]
  BY DEF DeliverInv
<1>2. \A e \in Devices : Fits(store[e], task[e], revs', Accepted')
  BY Same, FitsGrows DEF DeliverInv
<1>3. \A e \in Devices : Fits(store'[e], task'[e], revs', Accepted')
  BY <1>1, <1>2
<1> QED BY <1>1, <1>3 DEF DeliverInv, DiskFits, Revisions, Editing

LEMMA DiskStays ==
  ASSUME DeliverInv, UNCHANGED <<kind, disk, typed, edits, copies>>, Accepted \subseteq Accepted'
  PROVE  DiskFits'
BY DEF DeliverInv, DiskFits, Editing

\* A step that adds no revision and sends none.
LEMMA DeviceOnly ==
  ASSUME DeliverInv, NEW d \in Devices, NEW s, NEW t, UNCHANGED <<revs, log>>,
         store' = [store EXCEPT ![d] = s], task' = [task EXCEPT ![d] = t],
         DiskFits', Fits(s, t, revs, Accepted)
  PROVE  DeliverInv'
<1>1. Accepted' = Accepted
  BY DEF Accepted
<1>2. RevisionsFit(revs) /\ log' \in Seq(1..Len(revs'))
  BY DEF DeliverInv
<1> QED BY <1>1, <1>2, Same, DeviceStep

\* A step that leaves what is stored, too.
LEMMA FilesOnly ==
  ASSUME DeliverInv, UNCHANGED <<revs, log, store, task>>, DiskFits'
  PROVE  DeliverInv'
<1>1. Accepted' = Accepted
  BY DEF Accepted
<1> QED BY <1>1 DEF DeliverInv, DiskFits, Editing

-----------------------------------------------------------------------------
(* One device.                                                             *)

LEMMA UndoneStore ==
  ASSUME NEW s, IsStore(s)
  PROVE  /\ IsStore(Undone(s)) /\ ~Undone(s).journal.open
         /\ Undone(Undone(s)) = Undone(s)
         /\ ~s.journal.open => Undone(s) = s
BY DEF IsStore, Undone, NoJournal

\* Outside of an apply there is nothing to undo.
LEMMA RestFits ==
  ASSUME NEW s, NEW t, NEW rs, NEW acc, IsStore(s), ~s.journal.open, Sound(s, rs, acc),
         TaskFits(s, t, rs, acc)
  PROVE  Fits(s, t, rs, acc)
BY UndoneStore DEF Fits

LEMMA IdleFits ==
  ASSUME NEW s, NEW rs, NEW acc, ~s.journal.open
  PROVE  TaskFits(s, Idle, rs, acc)
BY DEF TaskFits, Idle

\* What a device finds when no apply is under way.
LEMMA AtRest ==
  ASSUME DeliverInv, NEW d \in Devices, task[d].step \in {"idle", "advance"}
  PROVE  /\ IsStore(store[d]) /\ ~store[d].journal.open /\ Sound(store[d], revs, Accepted)
         /\ store[d].head # 0 => store[d].head \in Graph(d) /\ store[d].head \in 1..Len(revs)
<1>1. Fits(store[d], task[d], revs, Accepted)
  BY DEF DeliverInv
<1>2. ~store[d].journal.open
  BY <1>1 DEF Fits, TaskFits
<1> QED BY <1>1, <1>2, Same DEF Fits, Sound, Graph, Queued

LEMMA IdleStep == Idle.step = "idle"
BY DEF Idle

-----------------------------------------------------------------------------
(* Committing and pushing.                                                 *)

LEMMA AtMostOne ==
  ASSUME NEW x
  PROVE  ~(Cardinality({x} \ {0}) >= 2)
<1>1. CASE x = 0
  BY <1>1, FS_EmptySet
<1>2. CASE x # 0
  <2>1. {x} \ {0} = {x}
    BY <1>2
  <2>2. Cardinality({x}) = 1
    BY FS_Singleton
  <2> QED BY <2>1, <2>2
<1> QED BY <1>1, <1>2

LEMMA ObserveStays ==
  ASSUME DeliverInv, NEW d \in Devices, Observe(d)
  PROVE  DeliverInv'
<1> DEFINE s == store[d]
           n == Len(revs) + 1
           u == Committed(d)
<1>1. /\ task[d] = Idle /\ NewRevision({s.head} \ {0}, disk[d])
      /\ store' = [store EXCEPT ![d] = u]
      /\ UNCHANGED <<kind, log, disk, typed, task, edits, copies>>
  BY DEF Observe
<1>2. /\ IsStore(s) /\ ~s.journal.open /\ Sound(s, revs, Accepted)
      /\ s.head # 0 => s.head \in Graph(d) /\ s.head \in 1..Len(revs)
  BY <1>1, AtRest, IdleStep
<1>3. disk[d] \in Text \cup {Gone}
  BY DEF DeliverInv
<1>4. /\ Grows(revs, revs') /\ revs' \in Revisions /\ RevisionsFit(revs')
      /\ Len(revs) \in Nat /\ Len(revs') = n
      /\ revs'[n].parents = {s.head} \ {0} /\ revs'[n].content = disk[d]
  <2>1. {s.head} \ {0} \subseteq 1..Len(revs)
    BY <1>2
  <2> QED BY <1>1, <1>3, <2>1, AtMostOne, NewFits
<1>5. Sound(s, revs', Accepted)
  BY <1>2, <1>4, Same, SoundGrows
<1>6. /\ IsStore(u) /\ u.journal = s.journal /\ u.backups = s.backups
      /\ u.queue = s.queue \cup {n}
      /\ disk[d] = Gone => u.head = 0 /\ u.hash = Gone
      /\ disk[d] # Gone => u.head = n /\ u.hash = disk[d]
  <2>1. CASE disk[d] = Gone
    <3>1. u = [s EXCEPT !.head = 0, !.hash = Gone, !.base = Gone, !.owner = FALSE,
                        !.queue = @ \cup {n}]
      BY <2>1 DEF Committed
    <3> HIDE DEF s, n, u
    <3> QED BY <1>2, <2>1, <3>1 DEF IsStore
  <2>2. CASE disk[d] # Gone
    <3>1. u = [s EXCEPT !.head = n, !.hash = disk[d], !.owner = TRUE, !.queue = @ \cup {n},
                        !.base = IF @ = Gone THEN disk[d] ELSE @]
      BY <2>2 DEF Committed
    <3> HIDE DEF s, n, u
    <3> QED BY <1>2, <2>2, <3>1 DEF IsStore
  <2> QED BY <2>1, <2>2
<1>7. Sound(u, revs', Accepted)
  <2> HIDE DEF u
  <2>1. n # 0 /\ n \in 1..Len(revs')
    BY <1>4
  <2>2. \A q \in u.queue : revs'[q].parents \subseteq Accepted \cup u.queue
    <3>1. revs'[n].parents \subseteq Accepted \cup s.queue
      BY <1>2, <1>4 DEF Graph, Queued
    <3> QED BY <1>5, <1>6, <3>1 DEF Sound
  <2>3. u.head # 0 => u.head \in Accepted \cup u.queue /\ revs'[u.head].content = u.hash
    BY <1>4, <1>6, <2>1
  <2>4. u.head = 0 => u.hash = Gone
    BY <1>6, <2>1
  <2> QED BY <1>5, <1>6, <2>1, <2>2, <2>3, <2>4 DEF Sound
<1>8. Fits(u, Idle, revs', Accepted)
  <2> HIDE DEF u
  <2> QED BY <1>2, <1>6, <1>7, RestFits, IdleFits
<1>9. Accepted' = Accepted /\ log' \in Seq(1..Len(revs'))
  <2>1. log \in Seq(1..Len(revs)) /\ 1..Len(revs) \subseteq 1..Len(revs')
    BY <1>4 DEF DeliverInv, Grows
  <2>2. log' = log
    BY <1>1
  <2>3. log \in Seq(1..Len(revs'))
    BY <2>1, SeqMonotonic
  <2> QED BY <2>2, <2>3 DEF Accepted
<1>10. task' = [task EXCEPT ![d] = Idle]
  BY <1>1 DEF DeliverInv
<1>11. DiskFits'
  BY <1>1, <1>9, DiskStays
<1> HIDE DEF u, s, n
<1> QED BY <1>1, <1>4, <1>8, <1>9, <1>10, <1>11, DeviceStep

LEMMA PushedLog ==
  ASSUME DeliverInv, NEW r \in 1..Len(revs), log' = IF r \in Accepted THEN log ELSE Append(log, r)
  PROVE  log' \in Seq(1..Len(revs)) /\ Accepted' = Accepted \cup {r}
<1>1. log \in Seq(1..Len(revs)) /\ Len(log) \in Nat
  BY DEF DeliverInv
<1>2. CASE r \in Accepted
  BY <1>1, <1>2 DEF Accepted
<1>3. CASE r \notin Accepted
  <2>1. log' = Append(log, r)
    BY <1>3
  <2>2. /\ log' \in Seq(1..Len(revs)) /\ Len(log') = Len(log) + 1 /\ log'[Len(log) + 1] = r
        /\ \A i \in 1..Len(log) : log'[i] = log[i]
    <3> DEFINE S == 1..Len(revs)
    <3>1. log \in Seq(S) /\ r \in S
      BY <1>1
    <3> HIDE DEF S
    <3>2. Append(log, r) \in Seq(S) /\ Len(Append(log, r)) = Len(log) + 1
      BY <3>1
    <3>3. Append(log, r)[Len(log) + 1] = r /\ \A i \in 1..Len(log) : Append(log, r)[i] = log[i]
      BY <3>1
    <3> QED BY <2>1, <3>2, <3>3 DEF S
  <2>3. DOMAIN log' = 1..(Len(log) + 1) /\ DOMAIN log = 1..Len(log)
    BY <1>1, <2>2
  <2>4. Range(log') = Range(log) \cup {r}
    BY <1>1, <2>2, <2>3 DEF Range
  <2> QED BY <2>2, <2>4 DEF Accepted
<1> QED BY <1>2, <1>3

LEMMA PushStays ==
  ASSUME DeliverInv, NEW d \in Devices, NEW answered, Push(d, answered)
  PROVE  DeliverInv'
<1>1. PICK r \in Sendable(d) :
        /\ task[d] = Idle
        /\ log' = IF r \in Accepted THEN log ELSE Append(log, r)
        /\ \/ store' = [store EXCEPT ![d].queue = @ \ {r}, ![d].authored = @ \cup {r}]
           \/ UNCHANGED store
        /\ UNCHANGED <<kind, revs, disk, typed, task, edits, copies>>
  BY DEF Push
<1> DEFINE s == store[d]
<1>2. /\ IsStore(s) /\ ~s.journal.open /\ Sound(s, revs, Accepted)
  BY <1>1, AtRest, IdleStep
<1>3. r \in s.queue /\ r \in 1..Len(revs)
  BY <1>1, <1>2 DEF Sendable, Queued, Sound
<1>4. log \in Seq(1..Len(revs)) /\ Len(log) \in Nat
  BY DEF DeliverInv
<1>5. log' \in Seq(1..Len(revs')) /\ Accepted' = Accepted \cup {r}
  BY <1>1, <1>3, PushedLog
<1>6. Grows(revs, revs') /\ revs' \in Revisions /\ RevisionsFit(revs')
  BY <1>1, Same DEF DeliverInv
<1>7. task' = [task EXCEPT ![d] = Idle]
  BY <1>1 DEF DeliverInv
<1>8. DiskFits'
  BY <1>1, <1>5, DiskStays
<1>9. CASE UNCHANGED store
  <2>1. store' = [store EXCEPT ![d] = s]
    BY <1>9 DEF DeliverInv
  <2>2. Fits(s, Idle, revs', Accepted')
    BY <1>1, <1>5, <1>6, Same, FitsGrows DEF DeliverInv
  <2> QED BY <1>5, <1>6, <1>7, <1>8, <2>1, <2>2, DeviceStep
<1>10. CASE store' = [store EXCEPT ![d].queue = @ \ {r}, ![d].authored = @ \cup {r}]
  <2> DEFINE u == [s EXCEPT !.queue = @ \ {r}, !.authored = @ \cup {r}]
  <2>1. store' = [store EXCEPT ![d] = u]
    BY <1>2, <1>10 DEF IsStore, DeliverInv
  <2>2. /\ IsStore(u) /\ u.journal = s.journal /\ u.backups = s.backups
        /\ u.queue = s.queue \ {r} /\ u.head = s.head /\ u.hash = s.hash
    <3>1. u = [s EXCEPT !.queue = @ \ {r}, !.authored = @ \cup {r}]
      OBVIOUS
    <3> HIDE DEF s, u
    <3> QED BY <1>2, <3>1 DEF IsStore
  <2>3. Sound(u, revs', Accepted')
    <3> HIDE DEF u, s
    <3> QED BY <1>1, <1>2, <1>5, <2>2 DEF Sound
  <2>4. Fits(u, Idle, revs', Accepted')
    <3> HIDE DEF u
    <3> QED BY <1>2, <2>2, <2>3, RestFits, IdleFits
  <2> HIDE DEF u, s
  <2> QED BY <1>5, <1>6, <1>7, <1>8, <2>1, <2>4, DeviceStep
<1> QED BY <1>1, <1>9, <1>10

-----------------------------------------------------------------------------
(* Advancing over a revision of the feed.                                  *)

LEMMA IncomingAccepted ==
  ASSUME DeliverInv, NEW d \in Devices, HasIncoming(d)
  PROVE  Incoming(d) \in Accepted
<1>1. store[d].cursor \in Nat /\ log \in Seq(1..Len(revs))
  BY DEF DeliverInv, Fits, IsStore
<1>2. store[d].cursor + 1 \in 1..Len(log) /\ store[d].cursor + 1 \in DOMAIN log
  BY <1>1 DEF HasIncoming
<1> QED BY <1>2 DEF Incoming, Accepted, Range

LEMMA CursorFits ==
  ASSUME NEW s, NEW u, NEW rs, NEW acc, IsStore(s), ~s.journal.open, Sound(s, rs, acc),
         u = [s EXCEPT !.cursor = @ + 1]
  PROVE  IsStore(u) /\ ~u.journal.open /\ Sound(u, rs, acc)
<1>1. /\ IsStore(u) /\ u.journal = s.journal /\ u.queue = s.queue
      /\ u.backups = s.backups /\ u.head = s.head /\ u.hash = s.hash
  BY DEF IsStore
<1> QED BY <1>1 DEF Sound

\* A merge that another one replaces is not the head, unless it is the other.
LEMMA AdvancedFits ==
  ASSUME DeliverInv, NEW d \in Devices, NEW r \in Accepted, task[d].step \in {"idle", "advance"},
         \/ Applied(store[d], r, revs)
         \/ store[d].head # 0 /\ r \in revs[store[d].head].past
  PROVE  /\ IsStore(Advanced(d, store[d], r)) /\ ~Advanced(d, store[d], r).journal.open
         /\ Sound(Advanced(d, store[d], r), revs, Accepted)
<1> DEFINE s == store[d]
           u == Advanced(d, s, r)
<1>1. /\ IsStore(s) /\ ~s.journal.open /\ Sound(s, revs, Accepted)
      /\ s.head # 0 => s.head \in Graph(d) /\ s.head \in 1..Len(revs)
  BY AtRest
<1>2. r \in 1..Len(revs) /\ Len(revs) \in Nat /\ RevisionsFit(revs)
  BY Same DEF DeliverInv
<1>3. /\ IsStore(u) /\ u.journal = s.journal /\ u.queue = s.queue \ Retired(d, r)
      /\ u.backups = s.backups /\ u.head = s.head /\ u.hash = s.hash
  <2> DEFINE gone == Retired(d, r)
  <2>1. u = [s EXCEPT !.cursor = s.cursor + 1, !.queue = s.queue \ gone]
    BY DEF Advanced
  <2> HIDE DEF u, s, gone
  <2>2. /\ u.head = s.head /\ u.hash = s.hash /\ u.journal = s.journal /\ u.backups = s.backups
        /\ u.queue = s.queue \ gone /\ u.cursor = s.cursor + 1
    BY <1>1, <2>1 DEF IsStore
  <2>3. u = [head |-> s.head, hash |-> s.hash, base |-> s.base, owner |-> s.owner,
             queue |-> s.queue \ gone, authored |-> s.authored, cursor |-> s.cursor + 1,
             backups |-> s.backups, artifacts |-> s.artifacts, journal |-> s.journal]
    BY <1>1, <2>1 DEF IsStore
  <2>4. u.cursor \in Nat
    BY <1>1, <2>2 DEF IsStore
  <2>5. IsStore(u)
    BY <2>3, <2>4 DEF IsStore
  <2> QED BY <2>2, <2>5 DEF gone
<1>4. ASSUME NEW q \in u.queue
      PROVE  revs[q].parents \subseteq Accepted \cup u.queue
  BY <1>1, <1>3 DEF Sound, Retired, Queued
<1>5. ASSUME s.head \in Retired(d, r), s.head # 0
      PROVE  s.head \in Accepted
  <2>1. /\ revs[s.head].parents \subseteq revs[r].parents /\ Cardinality(revs[r].parents) >= 2
        /\ revs[r].parents \subseteq 1..(r - 1) /\ Content(r) # Gone
    BY <1>2, <1>5 DEF Retired, RevisionsFit, Content
  <2>2. r \notin revs[s.head].parents
    BY <1>2, <2>1
  <2>3. CASE Applied(s, r, revs)
    BY <1>5, <2>1, <2>2, <2>3 DEF Applied, Content
  <2>4. CASE r \in revs[s.head].past
    <3>1. revs[s.head].past \subseteq {s.head} \cup UNION {revs[p].past : p \in revs[s.head].parents}
      BY <1>1, <1>2, <1>5 DEF RevisionsFit
    <3>2. \A p \in revs[s.head].parents : r \notin revs[p].past
      BY <1>2, <2>1 DEF RevisionsFit
    <3> QED BY <2>4, <3>1, <3>2
  <2> QED BY <2>3, <2>4
<1>6. Sound(u, revs, Accepted)
  <2> HIDE DEF u, s
  <2> QED BY <1>1, <1>3, <1>4, <1>5 DEF Sound
<1> HIDE DEF u, s
<1>7. IsStore(u) /\ ~u.journal.open /\ Sound(u, revs, Accepted)
  BY <1>1, <1>3, <1>6
<1> QED BY <1>7 DEF u, s

LEMMA FirstPullStays ==
  ASSUME DeliverInv, NEW d \in Devices, FirstPull(d)
  PROVE  DeliverInv'
<1>1. UNCHANGED <<kind, revs, log, disk, typed, store, task, edits, copies>>
  BY DEF FirstPull
<1>2. Accepted' = Accepted
  BY <1>1 DEF Accepted
<1> QED BY <1>1, <1>2, DiskStays, FilesOnly

LEMMA FeedStays ==
  ASSUME DeliverInv, NEW d \in Devices, Suppress(d) \/ Known(d)
  PROVE  DeliverInv'
<1> DEFINE s == store[d]
           r == Incoming(d)
<1>1. /\ task[d] = Idle /\ r \in Accepted /\ UNCHANGED <<kind, revs, log, disk, typed, task, edits, copies>>
  BY IncomingAccepted DEF Suppress, Known, ApplyFrame, HasIncoming
<1>2. /\ IsStore(s) /\ ~s.journal.open /\ Sound(s, revs, Accepted)
      /\ s.head # 0 => s.head \in Graph(d) /\ s.head \in 1..Len(revs)
  BY <1>1, AtRest, IdleStep
<1>3. Accepted' = Accepted /\ DiskFits'
  <2>1. Accepted' = Accepted
    BY <1>1 DEF Accepted
  <2> QED BY <1>1, <2>1, DiskStays
<1>4. task' = [task EXCEPT ![d] = Idle]
  BY <1>1 DEF DeliverInv
<1>5. ASSUME NEW u, IsStore(u), ~u.journal.open, Sound(u, revs, Accepted), store' = [store EXCEPT ![d] = u]
      PROVE  DeliverInv'
  <2>1. Fits(u, Idle, revs, Accepted)
    BY <1>5, RestFits, IdleFits
  <2> QED BY <1>1, <1>3, <1>4, <1>5, <2>1, DeviceOnly
<1>6. CASE Suppress(d)
  <2> DEFINE u == [s EXCEPT !.cursor = @ + 1]
  <2>1. store' = [store EXCEPT ![d] = u]
    BY <1>2, <1>6 DEF Suppress, DeliverInv, IsStore
  <2>2. IsStore(u) /\ ~u.journal.open /\ Sound(u, revs, Accepted)
    <3>1. u = [s EXCEPT !.cursor = @ + 1]
      OBVIOUS
    <3> HIDE DEF u, s
    <3> QED BY <1>2, <3>1, CursorFits
  <2> HIDE DEF u, s
  <2> QED BY <1>5, <2>1, <2>2
<1>7. CASE Known(d)
  <2> DEFINE u == Advanced(d, s, r)
  <2>1. store' = [store EXCEPT ![d] = u] /\ Skips(d, r)
    BY <1>7 DEF Known, KeepTask
  <2>2. s.head # 0 => r \in revs[s.head].past
    BY <1>2, <2>1 DEF Skips, Ancestors
  <2>3. IsStore(u) /\ ~u.journal.open /\ Sound(u, revs, Accepted)
    BY <1>1, <2>2, IdleStep, AdvancedFits DEF Applied
  <2> HIDE DEF u, s, r
  <2> QED BY <1>5, <2>1, <2>3
<1> QED BY <1>6, <1>7

LEMMA AdvanceStays ==
  ASSUME DeliverInv, NEW d \in Devices, Advance(d)
  PROVE  DeliverInv'
<1> DEFINE s == store[d]
           r == task[d].rev
           u == IF task[d].conflict THEN [s EXCEPT !.cursor = @ + 1] ELSE Advanced(d, s, r)
<1>1. /\ task[d].step = "advance" /\ UNCHANGED <<kind, revs, log, disk, typed, edits, copies>>
      /\ store' = [store EXCEPT ![d] = u] /\ task' = [task EXCEPT ![d] = Idle]
  BY DEF Advance, ApplyFrame, KeepTask, Goto
<1>2. IsStore(s) /\ ~s.journal.open /\ Sound(s, revs, Accepted)
  BY <1>1, AtRest
<1>3. r \in Accepted /\ (task[d].conflict \/ Applied(s, r, revs))
  BY <1>1 DEF DeliverInv, Fits, TaskFits
<1>4. Accepted' = Accepted /\ DiskFits'
  <2>1. Accepted' = Accepted
    BY <1>1 DEF Accepted
  <2> QED BY <1>1, <2>1, DiskStays
<1>5. IsStore(u) /\ ~u.journal.open /\ Sound(u, revs, Accepted)
  <2>1. CASE task[d].conflict
    <3>1. u = [s EXCEPT !.cursor = @ + 1]
      BY <2>1
    <3> HIDE DEF u, s
    <3> QED BY <1>2, <3>1, CursorFits
  <2>2. CASE ~task[d].conflict
    BY <1>1, <1>3, <2>2, AdvancedFits
  <2> QED BY <2>1, <2>2
<1>6. Fits(u, Idle, revs, Accepted)
  <2> HIDE DEF u
  <2> QED BY <1>5, RestFits, IdleFits
<1> HIDE DEF u
<1> QED BY <1>1, <1>4, <1>6, DeviceOnly

-----------------------------------------------------------------------------
(* The steps of an apply.                                                  *)

LEMMA QuietStep ==
  ASSUME DeliverInv, NEW d \in Devices, NEW u, NEW t,
         UNCHANGED <<kind, revs, log, disk, typed, edits, copies>>,
         KeepTask(d, u), Goto(d, t), Fits(u, t, revs, Accepted)
  PROVE  DeliverInv'
<1>1. Accepted' = Accepted
  BY DEF Accepted
<1>2. DiskFits'
  BY <1>1, DiskStays
<1> QED BY <1>2, DeviceOnly DEF KeepTask, Goto

\* A journal that takes a device back to s.
Opened(journal, s, discard) ==
    /\ journal.open /\ journal.head = s.head /\ journal.hash = s.hash /\ journal.base = s.base
    /\ journal.discard = discard

\* What undoing the journal of u makes of it, s being what was journalled.
LEMMA UndoneOf ==
  ASSUME NEW s, NEW u, NEW discard, NEW rs, NEW acc, IsStore(u), Sound(s, rs, acc),
         Opened(u.journal, s, discard),
         u.queue \ discard = s.queue, u.backups = s.backups, discard \subseteq 1..Len(rs)
  PROVE  Sound(Undone(u), rs, acc)
<1> DEFINE v == Undone(u)
<1>1. /\ v.head = s.head /\ v.hash = s.hash /\ v.queue = s.queue
      /\ v.backups = s.backups \cup discard
  BY DEF Undone, IsStore, Opened
<1> HIDE DEF v
<1>2. Sound(v, rs, acc)
  BY <1>1 DEF Sound
<1> QED BY <1>2 DEF v

LEMMA JournalledStore ==
  ASSUME NEW s, IsStore(s)
  PROVE  /\ IsStore(Journalled(s))
         /\ Opened(Journalled(s).journal, s, {})
         /\ Journalled(s).queue = s.queue /\ Journalled(s).backups = s.backups
         /\ Journalled(s).head = s.head /\ Journalled(s).hash = s.hash
<1> DEFINE entry == [open |-> TRUE, head |-> s.head, hash |-> s.hash, base |-> s.base,
                     owner |-> s.owner, discard |-> {}]
           j == Journalled(s)
<1>1. j = [s EXCEPT !.journal = entry]
  BY DEF Journalled
<1> HIDE DEF entry, j
<1>2. /\ IsStore(j) /\ j.journal = entry /\ j.queue = s.queue /\ j.backups = s.backups
      /\ j.head = s.head /\ j.hash = s.hash
  BY <1>1 DEF IsStore
<1>3. Opened(entry, s, {})
  BY DEF entry, Opened
<1> QED BY <1>2, <1>3 DEF j

LEMMA UndoneFits ==
  ASSUME DeliverInv, NEW d \in Devices
  PROVE  /\ IsStore(Undone(store[d])) /\ ~Undone(store[d]).journal.open
         /\ Sound(Undone(store[d]), revs, Accepted)
<1>1. Fits(store[d], task[d], revs, Accepted)
  BY DEF DeliverInv
<1> QED BY <1>1, UndoneStore DEF Fits

LEMMA DivertStays ==
  ASSUME DeliverInv, NEW d \in Devices, NEW r \in Accepted, Divert(d, r)
  PROVE  DeliverInv'
<1> DEFINE s == Undone(store[d])
           u == [s EXCEPT !.artifacts = @ \cup {r}]
           t == [step |-> "advance", rev |-> r, conflict |-> TRUE]
<1>1. /\ store' = [store EXCEPT ![d] = u] /\ task' = [task EXCEPT ![d] = t]
      /\ copies' = [copies EXCEPT ![d] = @ \cup {r}]
      /\ UNCHANGED <<kind, revs, log, disk, typed, edits>>
  BY DEF Divert, ApplyFrame, KeepTask, Goto
<1>2. Accepted' = Accepted
  BY <1>1 DEF Accepted
<1>3. DiskFits'
  BY <1>1, <1>2 DEF DiskFits, DeliverInv, Editing
<1>4. IsStore(s) /\ ~s.journal.open /\ Sound(s, revs, Accepted)
  BY UndoneFits
<1>5. Fits(u, t, revs, Accepted)
  <2>1. u = [s EXCEPT !.artifacts = @ \cup {r}]
    OBVIOUS
  <2> HIDE DEF u, s
  <2>2. /\ IsStore(u) /\ u.journal = s.journal /\ u.queue = s.queue /\ u.backups = s.backups
        /\ u.head = s.head /\ u.hash = s.hash
    BY <1>4, <2>1 DEF IsStore
  <2>3. Sound(u, revs, Accepted)
    BY <1>4, <2>2 DEF Sound
  <2>4. TaskFits(u, t, revs, Accepted)
    BY <1>4, <2>2 DEF TaskFits
  <2> HIDE DEF t
  <2> QED BY <1>4, <2>2, <2>3, <2>4, RestFits
<1> HIDE DEF u, t
<1> QED BY <1>1, <1>3, <1>5, DeviceOnly

LEMMA DeferStays ==
  ASSUME DeliverInv, NEW d \in Devices, Defer(d)
  PROVE  DeliverInv'
<1>1. Fits(Undone(store[d]), Idle, revs, Accepted)
  BY UndoneFits, RestFits, IdleFits
<1> QED BY <1>1, QuietStep DEF Defer, ApplyFrame

LEMMA ApplyDeleteStays ==
  ASSUME DeliverInv, NEW d \in Devices, NEW r \in Accepted, task[d] = Idle, ApplyDelete(d, r)
  PROVE  DeliverInv'
<1> DEFINE s == store[d]
<1>1. IsStore(s) /\ ~s.journal.open /\ Sound(s, revs, Accepted) /\ Content(r) = Gone
  BY AtRest, IdleStep DEF ApplyDelete
<1>2. UNCHANGED <<kind, revs, log, disk, typed, edits, copies>>
  BY DEF ApplyDelete, ApplyFrame
<1>3. CASE s.owner
  <2> DEFINE j == Journalled(s)
             u == Forgotten(j)
             t == [step |-> "trash", rev |-> r]
  <2>1. KeepTask(d, u) /\ Goto(d, t)
    BY <1>3 DEF ApplyDelete
  <2>2. /\ IsStore(j) /\ j.queue = s.queue /\ j.backups = s.backups
        /\ Opened(j.journal, s, {})
    BY <1>1, JournalledStore
  <2>3. u = [j EXCEPT !.head = 0, !.hash = Gone]
    BY DEF Forgotten
  <2> HIDE DEF s, j, u
  <2>4. /\ IsStore(u) /\ u.journal = j.journal /\ u.queue = j.queue /\ u.backups = j.backups
        /\ u.head = 0 /\ u.hash = Gone
    BY <2>2, <2>3 DEF IsStore
  <2>5. Sound(u, revs, Accepted)
    BY <1>1, <2>2, <2>4 DEF Sound
  <2>6. Sound(Undone(u), revs, Accepted)
    BY <1>1, <2>2, <2>4, UndoneOf
  <2>7. TaskFits(u, t, revs, Accepted)
    BY <2>4 DEF TaskFits
  <2> HIDE DEF t
  <2> QED BY <1>2, <2>1, <2>4, <2>5, <2>6, <2>7, QuietStep DEF Fits
<1>4. CASE ~s.owner
  <2> DEFINE t == [step |-> "advance", rev |-> r, conflict |-> FALSE]
  <2>1. Goto(d, t) /\ UNCHANGED store
    BY <1>4 DEF ApplyDelete
  <2>2. KeepTask(d, s)
    BY <2>1 DEF KeepTask, DeliverInv
  <2>3. TaskFits(s, t, revs, Accepted)
    BY <1>1 DEF TaskFits, Applied, Content
  <2> HIDE DEF s, t
  <2>4. Fits(s, t, revs, Accepted)
    BY <1>1, <2>3, RestFits
  <2> QED BY <1>2, <2>1, <2>2, <2>4, QuietStep
<1> QED BY <1>3, <1>4

LEMMA ApplySameStays ==
  ASSUME DeliverInv, NEW d \in Devices, NEW r \in Accepted, task[d] = Idle, ApplySame(d, r)
  PROVE  DeliverInv'
<1> DEFINE s == store[d]
           c == Content(r)
           u == Adopted(Recorded(s, Content(r)), r)
           t == [step |-> "advance", rev |-> r, conflict |-> FALSE]
<1>1. IsStore(s) /\ ~s.journal.open /\ Sound(s, revs, Accepted) /\ r # 0
  BY AtRest, IdleStep, Same
<1>2. /\ UNCHANGED <<kind, revs, log, disk, typed, edits, copies>>
      /\ KeepTask(d, u) /\ Goto(d, t)
  BY DEF ApplySame, ApplyFrame
<1>3. u = [[s EXCEPT !.base = c, !.owner = TRUE] EXCEPT !.head = r, !.hash = c]
  BY DEF Adopted, Recorded
<1>4. c = revs[r].content
  BY DEF Content
<1> HIDE DEF s, u, c
<1>5. /\ IsStore(u) /\ u.journal = s.journal /\ u.queue = s.queue /\ u.backups = s.backups
      /\ u.head = r /\ u.hash = c
  BY <1>1, <1>3 DEF IsStore
<1>6. Sound(u, revs, Accepted)
  BY <1>1, <1>4, <1>5 DEF Sound
<1>7. TaskFits(u, t, revs, Accepted)
  BY <1>1, <1>5 DEF TaskFits, Applied
<1> HIDE DEF t
<1>8. Fits(u, t, revs, Accepted)
  BY <1>1, <1>5, <1>6, <1>7, RestFits
<1> QED BY <1>2, <1>8, QuietStep

LEMMA ApplyWriteStays ==
  ASSUME DeliverInv, NEW d \in Devices, NEW r \in Accepted, task[d] = Idle, ApplyWrite(d, r)
  PROVE  DeliverInv'
<1> DEFINE s == store[d]
           c == Content(r)
           j == Journalled(s)
           u == Adopted(j, r)
           clean == IF Clean(d, r) THEN disk[d] ELSE store[d].base
           t == [step |-> "prewrite", rev |-> r, clean |-> clean]
<1>1. IsStore(s) /\ ~s.journal.open /\ Sound(s, revs, Accepted) /\ r # 0
  BY AtRest, IdleStep, Same
<1>2. /\ UNCHANGED <<kind, revs, log, disk, typed, edits, copies>>
      /\ KeepTask(d, u) /\ Goto(d, t)
  BY DEF ApplyWrite, ApplyFrame
<1>3. u = [j EXCEPT !.head = r, !.hash = c]
  BY DEF Adopted
<1>4. c = revs[r].content
  BY DEF Content
<1>5. /\ IsStore(j) /\ j.queue = s.queue /\ j.backups = s.backups
      /\ Opened(j.journal, s, {})
  BY <1>1, JournalledStore
<1> HIDE DEF s, u, c, j, clean
<1>6. /\ IsStore(u) /\ u.journal = j.journal /\ u.queue = j.queue /\ u.backups = j.backups
      /\ u.head = r /\ u.hash = c
  BY <1>3, <1>5 DEF IsStore
<1>7. Sound(u, revs, Accepted)
  BY <1>1, <1>4, <1>5, <1>6 DEF Sound
<1>8. Sound(Undone(u), revs, Accepted)
  BY <1>1, <1>5, <1>6, UndoneOf
<1>9. TaskFits(u, t, revs, Accepted)
  BY <1>6 DEF TaskFits
<1> HIDE DEF t
<1> QED BY <1>2, <1>6, <1>7, <1>8, <1>9, QuietStep DEF Fits

LEMMA NearestIn ==
  ASSUME NEW common, Nearest(common) # 0
  PROVE  Nearest(common) \in common
<1> DEFINE nearest == common \ UNION {revs[s].parents : s \in common}
<1>1. Cardinality(nearest) = 1 /\ Nearest(common) = CHOOSE s \in nearest : TRUE
  BY DEF Nearest
<1>2. nearest # {}
  <2>1. Cardinality({}) # 1
    BY FS_EmptySet
  <2> HIDE DEF nearest
  <2> QED BY <1>1, <2>1
<1>3. (CHOOSE s \in nearest : TRUE) \in nearest
  BY <1>2
<1> QED BY <1>1, <1>3

\* A merge of texts holds edits.
LEMMA MergedText ==
  ASSUME DeliverInv, NEW d \in Devices, NEW r \in 1..Len(revs), NEW mine \in Text,
         Content(r) # Gone, MergeOver(d, r, mine) # Conflict
  PROVE  /\ store[d].head # 0 /\ MergeOver(d, r, mine) \in Text
         /\ MergeOver(d, r, mine) # Gone
<1> DEFINE base == CommonAncestor(d, store[d].head, r)
<1>1. /\ store[d].head # 0 /\ base # 0 /\ Content(base) # Gone
      /\ MergeOver(d, r, mine) = MergeText(Content(base), mine, Content(r))
  BY DEF MergeOver
<1>2. base \in Graph(d)
  BY <1>1, NearestIn DEF CommonAncestor
<1>3. Graph(d) \subseteq 1..Len(revs)
  BY Same DEF DeliverInv, Fits, Sound, Graph, Queued
<1>4. Content(base) \in Text /\ Content(r) \in Text
  BY <1>1, <1>2, <1>3 DEF DeliverInv, RevisionsFit, Content
<1>5. \A a, b, c \in Text : (b \cap c) \cup (b \ a) \cup (c \ a) \in Text
  BY DEF Text
<1> HIDE DEF base
<1>6. MergeOver(d, r, mine) \in Text
  BY <1>1, <1>4, <1>5 DEF MergeText
<1> QED BY <1>1, <1>6, VaultApplyAssumption DEF Text, Edit

LEMMA ApplyMergeStays ==
  ASSUME DeliverInv, NEW d \in Devices, NEW r \in Accepted, task[d] = Idle, ApplyMerge(d, r)
  PROVE  DeliverInv'
<1> DEFINE s == store[d]
           j == Journalled(s)
           merged == MergeOver(d, r, disk[d])
           n == Len(revs) + 1
           parents == IF s.head \in revs[r].parents THEN {r} ELSE {s.head, r}
           next == [j EXCEPT !.head = n, !.hash = merged, !.queue = @ \cup {n},
                             !.journal.discard = {n}]
<1>1. /\ IsStore(s) /\ ~s.journal.open /\ Sound(s, revs, Accepted)
      /\ s.head # 0 => s.head \in Graph(d) /\ s.head \in 1..Len(revs)
      /\ r \in 1..Len(revs)
  BY AtRest, IdleStep, Same
<1>2. /\ UNCHANGED <<kind, log, disk, typed, edits, copies>>
      /\ Content(r) # Gone /\ Merges(d, r) /\ NewRevision(parents, merged)
  <2>1. j.head = s.head
    BY <1>1, JournalledStore
  <2> QED BY <2>1 DEF ApplyMerge, ApplyFrame
<1>3. /\ s.head # 0 /\ merged \in Text /\ merged # Gone
  BY <1>1, <1>2, MergedText DEF Merges, Diverged, DeliverInv
<1>4. parents \subseteq 1..Len(revs) /\ r \in parents /\ parents \subseteq Accepted \cup s.queue
  BY <1>1, <1>3 DEF Graph, Queued
<1>5. /\ Grows(revs, revs') /\ revs' \in Revisions /\ RevisionsFit(revs')
      /\ Len(revs) \in Nat /\ Len(revs') = n
      /\ revs'[n].parents = parents /\ revs'[n].content = merged
  <2> HIDE DEF parents, merged
  <2> QED BY <1>2, <1>3, <1>4, NewFits
<1>6. Sound(s, revs', Accepted)
  BY <1>1, <1>5, Same, SoundGrows
<1>7. /\ IsStore(j) /\ j.queue = s.queue /\ j.backups = s.backups
      /\ Opened(j.journal, s, {})
  BY <1>1, JournalledStore
<1>8. /\ IsStore(next) /\ Opened(next.journal, s, {n}) /\ next.queue = s.queue \cup {n}
      /\ next.backups = s.backups /\ next.head = n /\ next.hash = merged
  <2> DEFINE entry == [j.journal EXCEPT !.discard = {n}]
  <2>1. next = [j EXCEPT !.head = n, !.hash = merged, !.queue = @ \cup {n}, !.journal = entry]
    <3> HIDE DEF s, j, n, merged
    <3> QED OBVIOUS
  <2>2. Opened(entry, s, {n})
    <3> HIDE DEF s, j, n
    <3> QED BY <1>7 DEF Opened
  <2> HIDE DEF s, j, n, merged, next, entry
  <2>3. /\ IsStore(next) /\ next.journal = entry /\ next.queue = s.queue \cup {n}
        /\ next.backups = s.backups /\ next.head = n /\ next.hash = merged
    BY <1>7, <2>1 DEF IsStore
  <2> QED BY <2>2, <2>3
<1>9. n # 0 /\ n \in 1..Len(revs') /\ n \notin s.queue
  BY <1>1, <1>5 DEF Sound
<1>10. ASSUME NEW u, u.head = next.head, u.hash = next.hash, u.queue = next.queue, u.backups = next.backups
       PROVE  Sound(u, revs', Accepted)
  <2> HIDE DEF s, next, n, parents, merged
  <2>1. \A q \in u.queue : revs'[q].parents \subseteq Accepted \cup u.queue
    BY <1>4, <1>5, <1>6, <1>8, <1>10 DEF Sound
  <2> QED BY <1>5, <1>6, <1>8, <1>9, <1>10, <2>1 DEF Sound
<1>11. Accepted' = Accepted /\ log' \in Seq(1..Len(revs')) /\ DiskFits'
  <2>1. Accepted' = Accepted
    BY <1>2 DEF Accepted
  <2>2. log \in Seq(1..Len(revs)) /\ 1..Len(revs) \subseteq 1..Len(revs')
    BY <1>5 DEF DeliverInv, Grows
  <2>3. log \in Seq(1..Len(revs'))
    BY <2>2, SeqMonotonic
  <2>4. DiskFits'
    BY <1>2, <2>1, DiskStays
  <2> QED BY <1>2, <2>1, <2>3, <2>4
<1>12. CASE merged = disk[d]
  <2> DEFINE u == [Closed(next) EXCEPT !.owner = TRUE]
             t == [step |-> "advance", rev |-> r, conflict |-> FALSE]
  <2>1. store' = [store EXCEPT ![d] = u] /\ task' = [task EXCEPT ![d] = t]
    BY <1>12 DEF ApplyMerge, KeepTask, Goto
  <2>2. u = [[next EXCEPT !.journal = NoJournal] EXCEPT !.owner = TRUE]
    BY DEF Closed
  <2> HIDE DEF u, next
  <2>3. /\ IsStore(u) /\ u.journal = NoJournal /\ u.queue = next.queue /\ u.backups = next.backups
        /\ u.head = next.head /\ u.hash = next.hash
    BY <1>8, <2>2 DEF IsStore
  <2>4. Sound(u, revs', Accepted) /\ ~u.journal.open
    BY <1>10, <2>3 DEF NoJournal
  <2>5. TaskFits(u, t, revs', Accepted)
    BY <1>4, <1>5, <1>8, <1>9, <2>3, <2>4 DEF TaskFits, Applied
  <2> HIDE DEF t
  <2>6. Fits(u, t, revs', Accepted)
    BY <2>3, <2>4, <2>5, RestFits
  <2> QED BY <1>5, <1>11, <2>1, <2>6, DeviceStep
<1>13. CASE merged # disk[d]
  <2> DEFINE t == [step |-> "merge", rev |-> r, seen |-> disk[d], text |-> merged]
  <2>1. store' = [store EXCEPT ![d] = next] /\ task' = [task EXCEPT ![d] = t]
    BY <1>13 DEF ApplyMerge, KeepTask, Goto
  <2> HIDE DEF next
  <2>2. Sound(next, revs', Accepted)
    BY <1>10
  <2>3. Sound(Undone(next), revs', Accepted)
    <3>1. next.queue \ {n} = s.queue /\ {n} \subseteq 1..Len(revs')
      BY <1>8, <1>9
    <3> HIDE DEF s, n
    <3> QED BY <1>6, <1>8, <3>1, UndoneOf
  <2>4. TaskFits(next, t, revs', Accepted)
    BY <1>4, <1>5, <1>8, <1>9 DEF TaskFits
  <2> HIDE DEF t
  <2>5. Fits(next, t, revs', Accepted)
    BY <1>8, <2>2, <2>3, <2>4 DEF Fits
  <2> QED BY <1>5, <1>11, <2>1, <2>5, DeviceStep
<1> QED BY <1>12, <1>13

LEMMA PrewriteStays ==
  ASSUME DeliverInv, NEW d \in Devices, Prewrite(d)
  PROVE  DeliverInv'
<1> DEFINE s == store[d]
           r == task[d].rev
           t == [step |-> "write", rev |-> r, seen |-> disk[d], text |-> Content(r)]
<1>1. task[d].step = "prewrite" /\ Fits(s, task[d], revs, Accepted)
  BY DEF Prewrite, DeliverInv
<1>2. r \in Accepted /\ r # 0 /\ s.head = r /\ Content(r) = s.hash
  BY <1>1, Same DEF Fits, TaskFits, Sound, Content
<1>3. CASE Divert(d, r)
  BY <1>2, <1>3, DivertStays
<1>4. CASE ~Divert(d, r)
  <2>1. Goto(d, t) /\ UNCHANGED <<kind, revs, log, disk, typed, edits, copies, store>>
    BY <1>4 DEF Prewrite, ApplyFrame
  <2>2. KeepTask(d, s)
    BY <2>1 DEF KeepTask, DeliverInv
  <2>3. TaskFits(s, t, revs, Accepted)
    BY <1>1, <1>2 DEF TaskFits
  <2> HIDE DEF s, t
  <2>4. Fits(s, t, revs, Accepted)
    BY <1>1, <2>3 DEF Fits
  <2> QED BY <2>1, <2>2, <2>4, QuietStep
<1> QED BY <1>3, <1>4

\* The file has changed; what is stored follows in the next step.
LEMMA FileStep ==
  ASSUME DeliverInv, NEW d \in Devices, NEW t, NEW text \in Text \cup {Gone},
         typed[d] # 0 => kind # "note", task[d].step \in {"write", "merge", "trash"},
         disk' = [disk EXCEPT ![d] = text], Goto(d, t), t.step = "record", t.rev = task[d].rev,
         t.from = task[d].step,
         UNCHANGED <<kind, revs, log, typed, edits, copies, store>>
  PROVE  DeliverInv'
<1> DEFINE s == store[d]
<1>1. Fits(s, task[d], revs, Accepted)
  BY DEF DeliverInv
<1>2. Applied(s, t.rev, revs) /\ t.rev \in Accepted
  BY <1>1, Same DEF Fits, TaskFits, Applied
<1>3. TaskFits(s, t, revs, Accepted)
  BY <1>1, <1>2 DEF Fits, TaskFits
<1>4. Fits(s, t, revs, Accepted)
  BY <1>1, <1>3 DEF Fits
<1>5. Accepted' = Accepted
  BY DEF Accepted
<1>6. DiskFits'
  BY <1>5 DEF DiskFits, DeliverInv, Editing
<1>7. store' = [store EXCEPT ![d] = s] /\ task' = [task EXCEPT ![d] = t]
  BY DEF DeliverInv, Goto
<1> HIDE DEF s
<1> QED BY <1>4, <1>6, <1>7, DeviceOnly

LEMMA WriteNoteStays ==
  ASSUME DeliverInv, NEW d \in Devices, WriteNote(d)
  PROVE  DeliverInv'
<1>1. CASE Defer(d)
  BY <1>1, DeferStays
<1>2. CASE ~Defer(d)
  <2> DEFINE text == task[d].text
             t == [step |-> "record", rev |-> task[d].rev, from |-> task[d].step]
  <2>1. /\ task[d].step \in {"write", "merge"} /\ Unseen(d)
        /\ disk' = [disk EXCEPT ![d] = text] /\ Goto(d, t)
        /\ UNCHANGED <<kind, revs, log, typed, edits, copies, store>>
    BY <1>2 DEF WriteNote, ApplyFrame
  <2>2. typed[d] # 0 => kind # "note"
    BY <2>1 DEF Unseen
  <2>3. text \in Text \cup {Gone}
    <3>1. Fits(store[d], task[d], revs, Accepted)
      BY DEF DeliverInv
    <3>2. text = store[d].hash /\ store[d].head # 0
      BY <2>1, <3>1, Same DEF Fits, TaskFits
    <3>3. text = revs[store[d].head].content /\ store[d].head \in 1..Len(revs)
      BY <3>1, <3>2, Same DEF Fits, Sound
    <3> QED BY <3>3 DEF DeliverInv, RevisionsFit
  <2>4. t.step = "record" /\ t.rev = task[d].rev /\ t.from = task[d].step
    OBVIOUS
  <2> HIDE DEF t, text
  <2> QED BY <2>1, <2>2, <2>3, <2>4, FileStep
<1> QED BY <1>1, <1>2

LEMMA TrashNoteStays ==
  ASSUME DeliverInv, NEW d \in Devices, TrashNote(d)
  PROVE  DeliverInv'
<1>1. CASE Defer(d)
  BY <1>1, DeferStays
<1>2. CASE ~Defer(d)
  <2> DEFINE t == [step |-> "record", rev |-> task[d].rev, from |-> "trash"]
  <2>1. /\ task[d].step = "trash" /\ typed[d] = 0
        /\ disk' = [disk EXCEPT ![d] = Gone] /\ Goto(d, t)
        /\ UNCHANGED <<kind, revs, log, typed, edits, copies, store>>
    BY <1>2 DEF TrashNote, ApplyFrame
  <2>2. t.step = "record" /\ t.rev = task[d].rev /\ t.from = task[d].step
    BY <2>1
  <2> HIDE DEF t
  <2> QED BY <2>1, <2>2, FileStep
<1> QED BY <1>1, <1>2

LEMMA RecordStays ==
  ASSUME DeliverInv, NEW d \in Devices, Record(d)
  PROVE  DeliverInv'
<1> DEFINE s == Closed(store[d])
           r == task[d].rev
           from == task[d].from
           u == CASE from = "write" -> Recorded(s, Content(r))
                  [] from = "merge" -> [s EXCEPT !.owner = TRUE]
                  [] from = "trash" -> [s EXCEPT !.owner = FALSE, !.base = Gone]
           t == [step |-> "advance", rev |-> r, conflict |-> FALSE]
<1>1. /\ task[d].step = "record" /\ KeepTask(d, u) /\ Goto(d, t)
      /\ UNCHANGED <<kind, revs, log, disk, typed, edits, copies>>
  BY DEF Record, ApplyFrame
<1>2. Fits(store[d], task[d], revs, Accepted)
  BY DEF DeliverInv
<1>3. /\ IsStore(s) /\ ~s.journal.open /\ s.queue = store[d].queue /\ s.backups = store[d].backups
      /\ s.head = store[d].head /\ s.hash = store[d].hash
  <2> DEFINE o == store[d]
  <2>1. s = [o EXCEPT !.journal = NoJournal] /\ IsStore(o)
    BY <1>2 DEF Closed, Fits
  <2> HIDE DEF s, o
  <2>2. /\ IsStore(s) /\ s.journal = NoJournal /\ s.queue = o.queue /\ s.backups = o.backups
        /\ s.head = o.head /\ s.hash = o.hash
    BY <2>1 DEF IsStore
  <2> QED BY <2>2 DEF o, NoJournal
<1>4. from \in {"write", "merge", "trash"} /\ r \in Accepted /\ Applied(store[d], r, revs)
  BY <1>1, <1>2 DEF Fits, TaskFits
<1>5. /\ IsStore(u) /\ u.journal = s.journal /\ u.queue = s.queue /\ u.backups = s.backups
      /\ u.head = s.head /\ u.hash = s.hash
  <2>1. \/ u = [s EXCEPT !.base = Content(r), !.owner = TRUE]
        \/ u = [s EXCEPT !.owner = TRUE]
        \/ u = [s EXCEPT !.owner = FALSE, !.base = Gone]
    BY <1>4 DEF Recorded
  <2> HIDE DEF u, s, r
  <2> QED BY <1>3, <2>1 DEF IsStore
<1> HIDE DEF u, s
<1>6. Sound(u, revs, Accepted)
  BY <1>2, <1>3, <1>5 DEF Fits, Sound
<1>7. TaskFits(u, t, revs, Accepted)
  BY <1>3, <1>4, <1>5 DEF TaskFits, Applied
<1> HIDE DEF t
<1>8. Fits(u, t, revs, Accepted)
  BY <1>3, <1>5, <1>6, <1>7, RestFits
<1> QED BY <1>1, <1>8, QuietStep

LEMMA ApplyStays ==
  ASSUME DeliverInv, NEW d \in Devices, ApplyStep(d)
  PROVE  DeliverInv'
<1>1. ASSUME Apply(d) PROVE DeliverInv'
  <2>1. PICK r \in Accepted : /\ Applying(d, r)
                              /\ \/ ApplyDelete(d, r) \/ KeepDeleted(d, r) \/ ApplySame(d, r)
                                 \/ ApplyMerge(d, r) \/ ApplyDiverged(d, r) \/ ApplyWrite(d, r)
    BY <1>1 DEF Apply
  <2>2. task[d] = Idle
    BY <2>1 DEF Applying, HasIncoming
  <2>3. KeepDeleted(d, r) \/ ApplyDiverged(d, r) => Divert(d, r)
    BY DEF KeepDeleted, ApplyDiverged
  <2> QED BY <2>1, <2>2, <2>3, ApplyDeleteStays, ApplySameStays, ApplyMergeStays, ApplyWriteStays,
             DivertStays
<1> QED BY <1>1, FirstPullStays, FeedStays, PrewriteStays, WriteNoteStays, TrashNoteStays,
           RecordStays, AdvanceStays DEF ApplyStep

-----------------------------------------------------------------------------
(* Reconciling, stops, conflict copies and users.                          *)

LEMMA ReconcileStays ==
  ASSUME DeliverInv, NEW d \in Devices, Reconcile(d)
  PROVE  DeliverInv'
<1> DEFINE s == store[d]
           n == Len(revs) + 1
<1>1. /\ task[d] = Idle /\ Heads # {} /\ disk[d] = s.hash /\ s.hash # Gone
      /\ UNCHANGED <<kind, log, disk, typed, edits, copies, task>>
  BY DEF Reconcile, Reconcilable, ApplyFrame
<1>2. /\ IsStore(s) /\ ~s.journal.open /\ Sound(s, revs, Accepted)
  BY <1>1, AtRest, IdleStep
<1>3. task' = [task EXCEPT ![d] = Idle]
  BY <1>1 DEF DeliverInv
<1>4. Heads \subseteq Accepted /\ Accepted \subseteq 1..Len(revs)
  BY Same DEF Heads
<1>5. ASSUME NEW head, NEW queue
      PROVE  /\ IsStore(Swapped(d, head, queue)) /\ Swapped(d, head, queue).journal = s.journal
             /\ Swapped(d, head, queue).queue = queue /\ Swapped(d, head, queue).head = head
             /\ Swapped(d, head, queue).backups = s.backups \cup s.queue
             /\ Swapped(d, head, queue).hash = s.hash
  <2> DEFINE u == Swapped(d, head, queue)
  <2>1. u = [s EXCEPT !.head = head, !.queue = queue, !.backups = @ \cup s.queue, !.owner = TRUE,
                      !.base = IF @ = Gone THEN disk[d] ELSE @]
    BY DEF Swapped, Queued
  <2> HIDE DEF u, s
  <2>2. /\ IsStore(u) /\ u.journal = s.journal /\ u.queue = queue /\ u.head = head
        /\ u.backups = s.backups \cup s.queue /\ u.hash = s.hash
    BY <1>2, <2>1 DEF IsStore
  <2> QED BY <2>2 DEF u
<1>6. CASE AdoptsHead(d)
  <2> DEFINE h == CHOOSE x \in Heads : TRUE
             u == Swapped(d, h, {})
  <2>1. UNCHANGED revs /\ store' = [store EXCEPT ![d] = u]
    BY <1>6 DEF Reconcile, KeepTask
  <2>2. h \in Accepted /\ revs[h].content = s.hash /\ h # 0
    <3>1. h \in Heads
      BY <1>1
    <3> HIDE DEF h
    <3> QED BY <1>1, <1>4, <1>6, <3>1 DEF AdoptsHead, Content
  <2>3. /\ IsStore(u) /\ u.journal = s.journal /\ u.queue = {} /\ u.head = h
        /\ u.backups = s.backups \cup s.queue /\ u.hash = s.hash
    BY <1>5
  <2> HIDE DEF u, h, s
  <2>4. Sound(u, revs, Accepted)
    BY <1>2, <2>2, <2>3 DEF Sound
  <2>5. Fits(u, Idle, revs, Accepted)
    BY <1>2, <2>3, <2>4, RestFits, IdleFits
  <2>6. DiskFits'
    <3>1. Accepted' = Accepted
      BY <1>1 DEF Accepted
    <3> QED BY <1>1, <3>1, DiskStays
  <2> QED BY <1>1, <1>3, <2>1, <2>5, <2>6, DeviceOnly
<1>7. CASE ~AdoptsHead(d)
  <2> DEFINE u == Swapped(d, n, {n})
  <2>1. NewRevision(Heads, disk[d]) /\ store' = [store EXCEPT ![d] = u]
    BY <1>7 DEF Reconcile, KeepTask
  <2>2. /\ Grows(revs, revs') /\ revs' \in Revisions /\ RevisionsFit(revs')
        /\ Len(revs) \in Nat /\ Len(revs') = n
        /\ revs'[n].parents = Heads /\ revs'[n].content = disk[d]
    <3>1. disk[d] \in Text \cup {Gone} /\ disk[d] # Gone
      BY <1>1 DEF DeliverInv
    <3> QED BY <1>4, <2>1, <3>1, NewFits
  <2>3. /\ IsStore(u) /\ u.journal = s.journal /\ u.queue = {n} /\ u.head = n
        /\ u.backups = s.backups \cup s.queue /\ u.hash = s.hash
    BY <1>5
  <2>4. n # 0 /\ n \in 1..Len(revs') /\ 1..Len(revs) \subseteq 1..Len(revs')
    BY <2>2
  <2>5. Accepted' = Accepted /\ log' \in Seq(1..Len(revs')) /\ DiskFits'
    <3>1. Accepted' = Accepted
      BY <1>1 DEF Accepted
    <3>2. log \in Seq(1..Len(revs))
      BY DEF DeliverInv
    <3>3. log \in Seq(1..Len(revs'))
      BY <2>4, <3>2, SeqMonotonic
    <3> QED BY <1>1, <3>1, <3>3, DiskStays
  <2> HIDE DEF u, n, s
  <2>6. Sound(u, revs', Accepted)
    BY <1>1, <1>2, <1>4, <2>2, <2>3, <2>4 DEF Sound
  <2>7. Fits(u, Idle, revs', Accepted)
    BY <1>2, <2>3, <2>6, RestFits, IdleFits
  <2> QED BY <1>3, <2>1, <2>2, <2>5, <2>7, DeviceStep
<1> QED BY <1>6, <1>7

LEMMA RestartStays ==
  ASSUME DeliverInv, NEW d \in Devices, Restart(d)
  PROVE  DeliverInv'
<1> DEFINE s == Undone(store[d])
           u == bootstrapIdentities(d, s)
           h == CHOOSE x \in Heads : TRUE
<1>1. /\ task' = [task EXCEPT ![d] = Idle] /\ store' = [store EXCEPT ![d] = u]
      /\ typed' = [typed EXCEPT ![d] = 0] /\ UNCHANGED <<kind, revs, log, disk, edits, copies>>
  BY DEF Restart, Goto, KeepTask
<1>2. IsStore(s) /\ ~s.journal.open /\ Sound(s, revs, Accepted)
  BY UndoneFits
<1>3. ASSUME u = s
      PROVE  Fits(u, Idle, revs, Accepted)
  <2>1. Fits(s, Idle, revs, Accepted)
    BY <1>2, RestFits, IdleFits
  <2> QED BY <1>3, <2>1
<1>4. ASSUME u # s
      PROVE  Fits(u, Idle, revs, Accepted)
  <2>1. /\ Cardinality(Heads) = 1 /\ {Content(x) : x \in Heads} = {disk[d]}
        /\ u = Adopted(Recorded(s, disk[d]), h)
    BY <1>4 DEF bootstrapIdentities
  <2>2. Heads # {}
    <3>1. Cardinality({}) # 1
      BY FS_EmptySet
    <3> QED BY <2>1, <3>1
  <2>3. h \in Accepted /\ h # 0
    BY <2>2, Same DEF Heads
  <2> DEFINE c == Content(h)
  <2>4. u = [[s EXCEPT !.base = disk[d], !.owner = TRUE] EXCEPT !.head = h, !.hash = c]
    BY <2>1 DEF Adopted, Recorded
  <2>5. c = revs[h].content
    BY DEF Content
  <2> HIDE DEF s, u, h, c
  <2>6. /\ IsStore(u) /\ u.journal = s.journal /\ u.queue = s.queue /\ u.backups = s.backups
        /\ u.head = h /\ u.hash = c
    BY <1>2, <2>4 DEF IsStore
  <2>7. Sound(u, revs, Accepted)
    BY <1>2, <2>3, <2>5, <2>6 DEF Sound
  <2> QED BY <1>2, <2>6, <2>7, RestFits, IdleFits
<1>5. Fits(u, Idle, revs, Accepted)
  BY <1>3, <1>4
<1>6. DiskFits'
  <2>1. Accepted' = Accepted
    BY <1>1 DEF Accepted
  <2> QED BY <1>1, <2>1, VaultApplyAssumption DEF DiskFits, DeliverInv, Editing
<1> HIDE DEF u
<1> QED BY <1>1, <1>5, <1>6, DeviceOnly

LEMMA SweepStays ==
  ASSUME DeliverInv, NEW d \in Devices, NEW r, Sweep(d, r)
  PROVE  DeliverInv'
<1> DEFINE merged == MergeOver(d, r, disk[d])
<1>1. UNCHANGED <<kind, revs, log, store, task, typed, edits>>
  BY DEF Sweep, ApplyFrame
<1>2. Accepted' = Accepted
  BY <1>1 DEF Accepted
<1>3. CASE UNCHANGED <<disk, copies>>
  BY <1>1, <1>2, <1>3, DiskStays, FilesOnly
<1>4. CASE ~UNCHANGED <<disk, copies>>
  <2>1. /\ r \in copies[d] /\ Content(r) # Gone /\ disk[d] # Gone /\ typed[d] = 0 /\ merged # Conflict
        /\ disk' = [disk EXCEPT ![d] = merged] /\ copies' = [copies EXCEPT ![d] = @ \ {r}]
    BY <1>4 DEF Sweep
  <2>2. r \in 1..Len(revs) /\ disk[d] \in Text
    BY <2>1, Same DEF DeliverInv
  <2>3. merged \in Text
    BY <2>1, <2>2, MergedText
  <2> HIDE DEF merged
  <2>4. DiskFits'
    BY <1>1, <1>2, <2>1, <2>3 DEF DiskFits, DeliverInv, Editing
  <2> QED BY <1>1, <2>4, FilesOnly
<1> QED BY <1>3, <1>4

LEMMA UserStays ==
  ASSUME DeliverInv, NEW d \in Devices, User(d) \/ Save(d)
  PROVE  DeliverInv'
<1> USE DEF EditFrame, ResolveFrame
<1>1. /\ UNCHANGED <<kind, revs, log, store, task>> /\ Accepted' = Accepted
  <2>1. UNCHANGED <<kind, revs, log, store, task>>
    BY DEF User, Save, Type, WriteFile, DeleteNote, KeepMine, KeepTheirs
  <2> QED BY <2>1 DEF Accepted
<1>2. /\ disk \in [Devices -> Text \cup {Gone}] /\ typed \in [Devices -> 0..MaxEdits]
      /\ kind \in Kinds /\ edits \in 0..MaxEdits /\ MaxEdits \in Nat
      /\ copies = [e \in Devices |-> copies[e]]
      /\ \A e \in Devices : copies[e] \subseteq Accepted /\ Editing(e)
  BY VaultApplyAssumption DEF DeliverInv
<1>3. \A x \in 1..MaxEdits : \A text \in Text : text \cup {x} \in Text /\ text \cup {x} # Gone
  BY VaultApplyAssumption DEF Text, Edit
<1>4. CASE Type(d)
  <2>1. edits + 1 \in 0..MaxEdits
    BY <1>2, <1>4 DEF Type
  <2> QED BY <1>1, <1>2, <1>4, <2>1, FilesOnly DEF Type, DiskFits, Editing
<1>5. CASE Save(d)
  <2>1. disk[d] \in Text /\ typed[d] \in 1..MaxEdits
    BY <1>2, <1>5 DEF Save, Editing
  <2>2. disk[d] \cup {typed[d]} \in Text
    BY <1>3, <2>1
  <2> QED BY <1>1, <1>2, <1>5, <2>2, FilesOnly DEF Save, DiskFits, Editing
<1>6. CASE WriteFile(d)
  <2>1. disk[d] \in Text /\ edits + 1 \in 1..MaxEdits
    BY <1>2, <1>6 DEF WriteFile
  <2>2. disk[d] \cup {edits + 1} \in Text
    BY <1>3, <2>1
  <2> QED BY <1>1, <1>2, <1>6, <2>1, <2>2, FilesOnly DEF WriteFile, DiskFits, Editing
<1>7. CASE DeleteNote(d)
  BY <1>1, <1>2, <1>7, FilesOnly DEF DeleteNote, DiskFits, Editing
<1>8. ASSUME NEW r \in copies[d], KeepMine(d, r) \/ KeepTheirs(d, r)
      PROVE  DeliverInv'
  <2>1. /\ copies' = [copies EXCEPT ![d] = @ \ {r}] /\ UNCHANGED <<typed, edits>>
        /\ (UNCHANGED disk \/ (typed[d] = 0 /\ disk' = [disk EXCEPT ![d] = Content(r)]))
    BY <1>8 DEF KeepMine, KeepTheirs, Resolving
  <2>2. Content(r) \in Text \cup {Gone}
    BY <1>2, Same DEF DeliverInv, RevisionsFit, Content
  <2> QED BY <1>1, <1>2, <2>1, <2>2, FilesOnly DEF DiskFits, Editing
<1> QED BY <1>4, <1>5, <1>6, <1>7, <1>8 DEF User

-----------------------------------------------------------------------------
(* Whatever a queue holds can still be delivered.                          *)

LEMMA InitDeliver == Init => DeliverInv
<1> SUFFICES ASSUME Init PROVE DeliverInv
  OBVIOUS
<1>1. PICK new \in SUBSET (Devices \ {Author}) :
        /\ disk = [d \in Devices |-> IF d \in new THEN Gone ELSE {}]
        /\ store = [d \in Devices |->
             IF d \in new THEN NewStore
             ELSE [NewStore EXCEPT !.head = 1, !.hash = {}, !.base = {}, !.owner = TRUE,
                                   !.authored = IF d = Author THEN {1} ELSE {}, !.cursor = 1]]
  BY DEF Init
<1> DEFINE first == [parents |-> {}, past |-> {1}, content |-> {}]
<1>2. /\ kind \in Kinds /\ edits = 0 /\ revs = <<first>> /\ log = <<1>>
      /\ typed = [d \in Devices |-> 0] /\ task = [d \in Devices |-> Idle]
      /\ copies = [d \in Devices |-> {}]
  BY DEF Init
<1>3. /\ Len(revs) = 1 /\ revs[1] = first /\ Accepted = {1} /\ log \in Seq(1..Len(revs))
      /\ revs \in Seq([parents : SUBSET Nat, past : SUBSET Nat, content : Text \cup {Gone}])
  <2>1. first \in [parents : SUBSET Nat, past : SUBSET Nat, content : Text \cup {Gone}]
    BY DEF Text
  <2>2. Accepted = {1}
    BY <1>2 DEF Accepted, Range
  <2> HIDE DEF first
  <2> QED BY <1>2, <2>1, <2>2
<1>4. RevisionsFit(revs)
  <2> SUFFICES ASSUME NEW r \in 1..Len(revs)
               PROVE  /\ revs[r].content \in Text \cup {Gone}
                      /\ revs[r].parents \subseteq 1..(r - 1)
                      /\ revs[r].past \subseteq {r} \cup UNION {revs[p].past : p \in revs[r].parents}
                      /\ revs[r].past \subseteq 1..r
                      /\ Cardinality(revs[r].parents) >= 2 => revs[r].content # Gone
    BY DEF RevisionsFit
  <2>1. r = 1 /\ revs[r].parents = {} /\ revs[r].past = {1} /\ revs[r].content = {}
    BY <1>3
  <2>2. ~(Cardinality({}) >= 2)
    <3>1. Cardinality({}) = 0
      BY FS_EmptySet
    <3> QED BY <3>1
  <2>3. {} \in Text
    BY DEF Text
  <2>4. {1} \subseteq 1..1
    OBVIOUS
  <2> HIDE DEF first
  <2> QED BY <2>1, <2>2, <2>3, <2>4
<1>5. ASSUME NEW d \in Devices
      PROVE  Fits(store[d], task[d], revs, Accepted)
  <2> DEFINE s == store[d]
  <2>1. /\ IsStore(s) /\ ~s.journal.open /\ s.queue = {} /\ s.backups = {}
        /\ \/ s.head = 0 /\ s.hash = Gone
           \/ s.head = 1 /\ s.hash = {}
    <3>1. CASE d \in new
      <4>1. s = NewStore
        BY <1>1, <3>1
      <4> HIDE DEF s
      <4> QED BY <4>1 DEF NewStore, NoJournal, IsStore
    <3>2. CASE d \notin new
      <4> DEFINE mine == IF d = Author THEN {1} ELSE {}
      <4>1. s = [NewStore EXCEPT !.head = 1, !.hash = {}, !.base = {}, !.owner = TRUE,
                                 !.authored = mine, !.cursor = 1]
        BY <1>1, <3>2
      <4> HIDE DEF s, mine
      <4> QED BY <4>1 DEF NewStore, NoJournal, IsStore
    <3> QED BY <3>1, <3>2
  <2> HIDE DEF s
  <2>2. Sound(s, revs, Accepted)
    <3>1. revs[1].content = {} /\ 1 \in Accepted
      BY <1>3
    <3> HIDE DEF first
    <3> QED BY <2>1, <3>1 DEF Sound
  <2>3. Fits(s, Idle, revs, Accepted)
    BY <2>1, <2>2, RestFits, IdleFits
  <2> QED BY <1>2, <2>3 DEF s
<1>6. /\ disk \in [Devices -> Text \cup {Gone}] /\ typed \in [Devices -> 0..MaxEdits]
      /\ edits \in 0..MaxEdits
      /\ store = [d \in Devices |-> store[d]] /\ task = [d \in Devices |-> task[d]]
      /\ copies = [d \in Devices |-> copies[d]]
      /\ \A d \in Devices : copies[d] \subseteq Accepted /\ Editing(d)
  <2>1. {} \in Text
    BY DEF Text
  <2>2. disk \in [Devices -> Text \cup {Gone}] /\ store = [d \in Devices |-> store[d]]
    BY <1>1, <2>1
  <2>3. 0 \in 0..MaxEdits
    BY VaultApplyAssumption
  <2> QED BY <1>2, <2>2, <2>3 DEF Editing
<1> QED BY <1>2, <1>3, <1>4, <1>5, <1>6 DEF DeliverInv

LEMMA NextDeliver == DeliverInv /\ [Next]_vars => DeliverInv'
<1> SUFFICES ASSUME DeliverInv, [Next]_vars PROVE DeliverInv'
  OBVIOUS
<1>1. CASE Next
  <2>1. PICK d \in Devices :
          \/ User(d) \/ Save(d) \/ Observe(d) \/ Push(d, TRUE) \/ ApplyStep(d) \/ Reconcile(d) \/ Restart(d)
          \/ Push(d, FALSE) \/ \E r \in sweep[d] : Sweep(d, r)
    BY <1>1 DEF Next
  <2> QED BY <2>1, UserStays, ObserveStays, PushStays, ApplyStays, ReconcileStays, RestartStays, SweepStays
<1>2. CASE UNCHANGED vars
  <2>1. UNCHANGED <<kind, revs, log, disk, typed, store, task, copies, edits>>
    BY <1>2 DEF vars, devices
  <2>2. Accepted' = Accepted
    BY <2>1 DEF Accepted
  <2> QED BY <2>1, <2>2, DiskStays, FilesOnly
<1> QED BY <1>1, <1>2

\* A revision of a queue has its parents on the server or in the queue: a stop
\* that undoes an apply, a merge that another device's merge replaces and a
\* queue that is swapped take away none that a later one was built on.
THEOREM QueueCorrect == Spec => []QueueDeliverable
<1>1. DeliverInv => QueueDeliverable
  BY DEF DeliverInv, Fits, Sound, QueueDeliverable, Queued, Graph
<1> QED BY <1>1, InitDeliver, NextDeliver, PTL DEF Spec

-----------------------------------------------------------------------------
(* What is safe stays safe.                                                *)

LEMMA WhatIsSafe ==
  ASSUME DeliverInv, NEW d \in Devices
  PROVE  /\ \A r \in Accepted : TextOf(Content(r)) \subseteq Safe
         /\ \A q \in store[d].backups \cup store[d].queue : TextOf(Content(q)) \subseteq Safe
         /\ trash[d] \subseteq Safe /\ dropped \subseteq Safe
         /\ store[d].head # 0 => TextOf(store[d].hash) \subseteq Safe
<1>1. \A r \in Accepted : TextOf(Content(r)) \subseteq Safe
  BY DEF Safe, Edits
<1>2. \A q \in store[d].backups \cup store[d].queue : TextOf(Content(q)) \subseteq Safe
  BY DEF Safe, Edits
<1>3. trash[d] \subseteq Safe /\ dropped \subseteq Safe
  BY DEF Safe
<1>4. Sound(store[d], revs, Accepted)
  BY DEF DeliverInv, Fits
<1> QED BY <1>1, <1>2, <1>3, <1>4 DEF Sound, Content

\* A step of one device that keeps its revisions, or the server has their texts.
LEMMA SafeStep ==
  ASSUME DeliverInv, NEW d \in Devices, NEW s,
         Grows(revs, revs'), Accepted \subseteq Accepted', dropped \subseteq dropped',
         store' = [store EXCEPT ![d] = s], \A e \in Devices : trash[e] \subseteq trash'[e],
         \A q \in store[d].queue \cup store[d].backups :
            q \in s.queue \cup s.backups \cup Accepted' \/ TextOf(Content(q)) \subseteq Edits(Accepted)
  PROVE  /\ Safe \subseteq Safe'
         /\ \A r \in Accepted' \cup s.queue \cup s.backups : TextOf(revs'[r].content) \subseteq Safe'
<1>1. store'[d] = s /\ \A e \in Devices : e # d => store'[e] = store[e]
  BY DEF DeliverInv
<1>2. Safe' = Edits(Accepted)' \cup dropped'
              \cup UNION {trash'[e] \cup Edits(store[e].backups \cup store[e].queue)' : e \in Devices}
  BY DEF Safe
<1>3. \A r \in Accepted' : TextOf(revs'[r].content) \subseteq Safe'
  BY <1>2 DEF Edits, Content
<1>4. \A e \in Devices : \A q \in store'[e].backups \cup store'[e].queue : TextOf(revs'[q].content) \subseteq Safe'
  BY <1>2 DEF Edits, Content
<1>5. \A r \in 1..Len(revs) : Content(r) = revs'[r].content
  BY DEF Grows, Content
<1>6. Edits(Accepted) \subseteq Safe'
  <2>1. \A r \in Accepted : TextOf(Content(r)) \subseteq Safe'
    BY <1>3, <1>5, Same
  <2> QED BY <2>1 DEF Edits
<1>7. ASSUME NEW e \in Devices, NEW q \in store[e].backups \cup store[e].queue
      PROVE  TextOf(Content(q)) \subseteq Safe'
  <2>1. q \in 1..Len(revs)
    BY DEF DeliverInv, Fits, Sound
  <2>2. CASE e # d
    BY <1>1, <1>4, <1>5, <2>1, <2>2
  <2>3. CASE e = d
    BY <1>1, <1>3, <1>4, <1>5, <1>6, <2>1, <2>3
  <2> QED BY <2>2, <2>3
<1>8. \A e \in Devices : Edits(store[e].backups \cup store[e].queue) \subseteq Safe'
  BY <1>7 DEF Edits
<1>9. \A e \in Devices : trash[e] \subseteq Safe'
  BY <1>2
<1>10. dropped \subseteq Safe'
  BY <1>2
<1>11. Safe \subseteq Safe'
  <2>1. ASSUME NEW x \in Safe PROVE x \in Safe'
    <3>1. \/ x \in Edits(Accepted) \/ x \in dropped
          \/ \E e \in Devices : x \in trash[e] \/ x \in Edits(store[e].backups \cup store[e].queue)
      BY <2>1 DEF Safe
    <3> QED BY <3>1, <1>6, <1>8, <1>9, <1>10
  <2> QED BY <2>1
<1> QED BY <1>1, <1>3, <1>4, <1>11

LEMMA KeptStep ==
  ASSUME DeliverInv, KeptInv, kind = "note", NEW d \in Devices, NEW s, NEW t, Safe \subseteq Safe',
         store' = [store EXCEPT ![d] = s], task' = [task EXCEPT ![d] = t],
         BasesSafe(s, Safe'), OverwritesSafe(t, Safe'), WrittenSafe'
  PROVE  KeptInv'
<1>1. /\ store'[d] = s /\ \A e \in Devices : e # d => store'[e] = store[e]
      /\ task'[d] = t /\ \A e \in Devices : e # d => task'[e] = task[e]
  BY DEF DeliverInv
<1>2. \A e \in Devices : BasesSafe(store[e], Safe') /\ OverwritesSafe(task[e], Safe')
  BY DEF KeptInv, BasesSafe, OverwritesSafe
<1>3. \A e \in Devices : BasesSafe(store'[e], Safe') /\ OverwritesSafe(task'[e], Safe')
  BY <1>1, <1>2
<1> QED BY <1>3 DEF KeptInv

\* A step that leaves what is stored, too.
LEMMA KeptFiles ==
  ASSUME DeliverInv, KeptInv, kind = "note", Safe \subseteq Safe', UNCHANGED <<store, task>>, WrittenSafe'
  PROVE  KeptInv'
BY DEF KeptInv, BasesSafe, OverwritesSafe

LEMMA SafeFiles ==
  ASSUME DeliverInv, UNCHANGED <<revs, log, store>>, dropped \subseteq dropped',
         \A e \in Devices : trash[e] \subseteq trash'[e]
  PROVE  Safe \subseteq Safe'
<1>1. Accepted' = Accepted /\ \A r : Content(r)' = Content(r)
  BY DEF Accepted, Content
<1>2. Edits(Accepted)' = Edits(Accepted)
  BY <1>1 DEF Edits, Content
<1>3. \A e \in Devices : Edits(store[e].backups \cup store[e].queue)' = Edits(store[e].backups \cup store[e].queue)
  BY <1>1 DEF Edits, Content
<1>4. Safe' = Edits(Accepted)' \cup dropped'
              \cup UNION {trash'[e] \cup Edits(store[e].backups \cup store[e].queue)' : e \in Devices}
  BY DEF Safe
<1> QED BY <1>2, <1>3, <1>4 DEF Safe

LEMMA WrittenStays ==
  ASSUME WrittenSafe, Safe \subseteq Safe', UNCHANGED <<written, typed, disk>>
  PROVE  WrittenSafe'
BY DEF WrittenSafe

\* What is written over is safe, or in the new text.
LEMMA DiskWritten ==
  ASSUME DeliverInv, WrittenSafe, Safe \subseteq Safe', NEW d \in Devices, NEW text,
         UNCHANGED <<written, typed>>, disk' = [disk EXCEPT ![d] = text],
         TextOf(disk[d]) \subseteq Safe' \cup TextOf(text)
  PROVE  WrittenSafe'
<1> DEFINE all == UNION {TextOf(disk'[e]) : e \in Devices}
<1>1. disk'[d] = text /\ \A e \in Devices : e # d => disk'[e] = disk[e]
  BY DEF DeliverInv
<1>2. \A e \in Devices : TextOf(disk[e]) \subseteq Safe' \cup all
  BY <1>1
<1>3. UNION {TextOf(disk[e]) : e \in Devices} \subseteq Safe' \cup all
  BY <1>2
<1>4. WrittenSafe' <=> /\ 0 \notin written'
                       /\ written' \subseteq Safe' \cup {typed'[e] : e \in Devices} \cup all
  BY DEF WrittenSafe
<1> HIDE DEF all
<1> QED BY <1>3, <1>4 DEF WrittenSafe

\* A merge drops of the note only what the common ancestor held.
LEMMA MergeKeeps ==
  ASSUME DeliverInv, NEW d \in Devices, NEW r, NEW mine \in Text, MergeOver(d, r, mine) # Conflict,
         MergeOver(d, r, mine) \in Text
  PROVE  TextOf(mine) \subseteq Safe \cup TextOf(MergeOver(d, r, mine))
<1> DEFINE base == CommonAncestor(d, store[d].head, r)
           common == Ancestors(Graph(d), store[d].head) \cap Ancestors(Graph(d), r) \cap Graph(d)
<1>1. /\ base # 0 /\ Content(base) # Gone
      /\ MergeOver(d, r, mine) = MergeText(Content(base), mine, Content(r))
  BY DEF MergeOver
<1>2. base \in Graph(d)
  BY <1>1, NearestIn DEF CommonAncestor
<1>3. TextOf(Content(base)) \subseteq Safe
  BY <1>2, WhatIsSafe DEF Graph, Queued
<1>4. Content(base) \subseteq Safe
  BY <1>1, <1>3 DEF TextOf
<1> HIDE DEF base
<1>5. mine \subseteq Content(base) \cup MergeOver(d, r, mine)
  BY <1>1 DEF MergeText
<1>6. MergeOver(d, r, mine) # Gone /\ mine # Gone
  BY VaultApplyAssumption DEF Text, Edit
<1> QED BY <1>4, <1>5, <1>6 DEF TextOf

-----------------------------------------------------------------------------
(* The steps that leave the files alone.                                   *)

LEMMA KeptQuiet ==
  ASSUME DeliverInv, KeptInv, kind = "note", NEW d \in Devices, NEW s, NEW t,
         Grows(revs, revs'), Accepted \subseteq Accepted',
         UNCHANGED <<disk, typed, written, dropped, trash>>,
         KeepTask(d, s), Goto(d, t),
         \A q \in store[d].queue \cup store[d].backups :
            q \in s.queue \cup s.backups \cup Accepted' \/ TextOf(Content(q)) \subseteq Edits(Accepted),
         BasesSafe(s, Safe), OverwritesSafe(t, Safe)
  PROVE  KeptInv'
<1>1. Safe \subseteq Safe'
  BY SafeStep DEF KeepTask
<1>2. WrittenSafe'
  BY <1>1, WrittenStays DEF KeptInv
<1>3. BasesSafe(s, Safe') /\ OverwritesSafe(t, Safe')
  BY <1>1 DEF BasesSafe, OverwritesSafe
<1> QED BY <1>1, <1>2, <1>3, KeptStep DEF KeepTask, Goto

LEMMA NothingToOverwrite ==
  ASSUME NEW t, NEW safe, t.step \notin {"prewrite", "write", "merge"}
  PROVE  OverwritesSafe(t, safe)
BY DEF OverwritesSafe

\* What undoing leaves is safe too.
LEMMA UndoneSafe ==
  ASSUME DeliverInv, KeptInv, kind = "note", NEW d \in Devices
  PROVE  /\ BasesSafe(Undone(store[d]), Safe) /\ IsStore(Undone(store[d]))
         /\ ~Undone(store[d]).journal.open
         /\ store[d].queue \cup store[d].backups
              \subseteq Undone(store[d]).queue \cup Undone(store[d]).backups
<1> DEFINE s == store[d]
           u == Undone(s)
<1>1. BasesSafe(s, Safe) /\ IsStore(s)
  BY DEF KeptInv, DeliverInv, Fits
<1>2. CASE s.journal.open
  <2>1. u = [s EXCEPT !.head = s.journal.head, !.hash = s.journal.hash, !.base = s.journal.base,
                      !.owner = s.journal.owner, !.queue = s.queue \ s.journal.discard,
                      !.backups = s.backups \cup s.journal.discard, !.journal = NoJournal]
    BY <1>2 DEF Undone
  <2> HIDE DEF s, u
  <2>2. /\ u.base = s.journal.base /\ ~u.journal.open /\ u.queue = s.queue \ s.journal.discard
        /\ u.backups = s.backups \cup s.journal.discard
    BY <1>1, <2>1 DEF IsStore, NoJournal
  <2>3. IsStore(u)
    BY <1>1, UndoneStore DEF u
  <2> QED BY <1>1, <1>2, <2>2, <2>3 DEF BasesSafe, u, s
<1>3. CASE ~s.journal.open
  <2>1. u = s
    BY <1>3 DEF Undone
  <2> HIDE DEF u
  <2> QED BY <1>1, <1>3, <2>1 DEF u
<1> QED BY <1>2, <1>3

LEMMA ObserveKept ==
  ASSUME DeliverInv, KeptInv, kind = "note", NEW d \in Devices, Observe(d)
  PROVE  KeptInv'
<1> DEFINE s == store[d]
           n == Len(revs) + 1
           u == Committed(d)
<1>1. /\ task[d] = Idle /\ NewRevision({s.head} \ {0}, disk[d])
      /\ store' = [store EXCEPT ![d] = u]
      /\ UNCHANGED <<log, disk, typed, task, written, dropped, trash>>
  BY DEF Observe
<1>2. /\ IsStore(s) /\ ~s.journal.open /\ BasesSafe(s, Safe)
      /\ s.head # 0 => s.head \in Graph(d) /\ s.head \in 1..Len(revs)
  BY <1>1, AtRest, IdleStep DEF KeptInv
<1>3. Grows(revs, revs') /\ revs'[n].content = disk[d]
  <2>1. {s.head} \ {0} \subseteq 1..Len(revs)
    BY <1>2
  <2>2. disk[d] \in Text \cup {Gone}
    BY DEF DeliverInv
  <2> QED BY <1>1, <2>1, <2>2, AtMostOne, NewFits
<1>4. /\ u.queue = s.queue \cup {n} /\ u.backups = s.backups /\ u.journal = s.journal
      /\ u.base \in {Gone, disk[d], s.base}
  <2>1. CASE disk[d] = Gone
    <3>1. u = [s EXCEPT !.head = 0, !.hash = Gone, !.base = Gone, !.owner = FALSE,
                        !.queue = @ \cup {n}]
      BY <2>1 DEF Committed
    <3> HIDE DEF s, n, u
    <3> QED BY <1>2, <3>1 DEF IsStore
  <2>2. CASE disk[d] # Gone
    <3>1. u = [s EXCEPT !.head = n, !.hash = disk[d], !.owner = TRUE, !.queue = @ \cup {n},
                        !.base = IF @ = Gone THEN disk[d] ELSE @]
      BY <2>2 DEF Committed
    <3> HIDE DEF s, n, u
    <3> QED BY <1>2, <3>1 DEF IsStore
  <2> QED BY <2>1, <2>2
<1>5. Accepted' = Accepted /\ task' = [task EXCEPT ![d] = Idle]
  BY <1>1 DEF Accepted, DeliverInv
<1> HIDE DEF u, n
<1>6. /\ Safe \subseteq Safe'
      /\ \A r \in Accepted' \cup u.queue \cup u.backups : TextOf(revs'[r].content) \subseteq Safe'
  <2>1. \A q \in s.queue \cup s.backups : q \in u.queue \cup u.backups \cup Accepted'
    BY <1>4
  <2> QED BY <1>1, <1>3, <1>5, <2>1, SafeStep
<1>7. TextOf(disk[d]) \subseteq Safe'
  BY <1>3, <1>4, <1>6
<1>8. BasesSafe(u, Safe')
  BY <1>2, <1>4, <1>6, <1>7 DEF BasesSafe, TextOf
<1>9. WrittenSafe' /\ OverwritesSafe(Idle, Safe')
  BY <1>1, <1>6, WrittenStays, IdleStep, NothingToOverwrite DEF KeptInv
<1> QED BY <1>1, <1>5, <1>6, <1>8, <1>9, KeptStep

LEMMA PushKept ==
  ASSUME DeliverInv, KeptInv, kind = "note", NEW d \in Devices, NEW answered, Push(d, answered)
  PROVE  KeptInv'
<1>1. PICK r \in Sendable(d) :
        /\ task[d] = Idle
        /\ log' = IF r \in Accepted THEN log ELSE Append(log, r)
        /\ \/ store' = [store EXCEPT ![d].queue = @ \ {r}, ![d].authored = @ \cup {r}]
           \/ UNCHANGED store
        /\ UNCHANGED <<revs, disk, typed, task, written, dropped, trash>>
  BY DEF Push
<1> DEFINE s == store[d]
<1>2. /\ IsStore(s) /\ ~s.journal.open /\ BasesSafe(s, Safe)
  BY <1>1, AtRest, IdleStep DEF KeptInv
<1>3. Accepted' = Accepted \cup {r}
  <2>1. r \in 1..Len(revs)
    BY DEF Sendable, Queued, DeliverInv, Fits, Sound
  <2> QED BY <1>1, <2>1, PushedLog
<1>4. Grows(revs, revs')
  BY <1>1, Same
<1>5. Goto(d, Idle) /\ OverwritesSafe(Idle, Safe)
  BY <1>1, IdleStep, NothingToOverwrite DEF DeliverInv, Goto
<1>6. CASE UNCHANGED store
  <2>1. KeepTask(d, s)
    BY <1>6 DEF DeliverInv, KeepTask
  <2> HIDE DEF s
  <2> QED BY <1>1, <1>2, <1>3, <1>4, <1>5, <2>1, KeptQuiet DEF s
<1>7. CASE store' = [store EXCEPT ![d].queue = @ \ {r}, ![d].authored = @ \cup {r}]
  <2> DEFINE u == [s EXCEPT !.queue = @ \ {r}, !.authored = @ \cup {r}]
  <2>1. KeepTask(d, u)
    BY <1>2, <1>7 DEF IsStore, DeliverInv, KeepTask
  <2>2. /\ u.journal = s.journal /\ u.backups = s.backups /\ u.queue = s.queue \ {r}
        /\ u.base = s.base
    BY <1>2 DEF IsStore
  <2> HIDE DEF u
  <2>3. BasesSafe(u, Safe)
    BY <1>2, <2>2 DEF BasesSafe
  <2>4. \A q \in s.queue \cup s.backups : q \in u.queue \cup u.backups \cup Accepted'
    BY <1>3, <2>2
  <2> QED BY <1>1, <1>3, <1>4, <1>5, <2>1, <2>3, <2>4, KeptQuiet
<1> QED BY <1>1, <1>6, <1>7

LEMMA AdvancedKept ==
  ASSUME NEW d \in Devices, NEW r \in Accepted, DeliverInv, IsStore(store[d]), BasesSafe(store[d], Safe)
  PROVE  /\ BasesSafe(Advanced(d, store[d], r), Safe)
         /\ \A q \in store[d].queue \cup store[d].backups :
               \/ q \in Advanced(d, store[d], r).queue \cup Advanced(d, store[d], r).backups
               \/ TextOf(Content(q)) \subseteq Edits(Accepted)
<1> DEFINE s == store[d]
           gone == Retired(d, r)
           u == Advanced(d, s, r)
<1>1. u = [s EXCEPT !.cursor = s.cursor + 1, !.queue = s.queue \ gone]
  BY DEF Advanced
<1>2. \A q \in gone : TextOf(Content(q)) \subseteq Edits(Accepted)
  BY DEF Retired, Edits
<1>3. IsStore(s) /\ BasesSafe(s, Safe)
  OBVIOUS
<1> HIDE DEF s, u, gone
<1>4. u.queue = s.queue \ gone /\ u.backups = s.backups /\ u.base = s.base /\ u.journal = s.journal
  BY <1>1, <1>3 DEF IsStore
<1>5. BasesSafe(u, Safe)
  BY <1>3, <1>4 DEF BasesSafe
<1>6. \A q \in s.queue \cup s.backups :
         q \in u.queue \cup u.backups \/ TextOf(Content(q)) \subseteq Edits(Accepted)
  BY <1>2, <1>4
<1> QED BY <1>5, <1>6 DEF s, u

LEMMA FeedKept ==
  ASSUME DeliverInv, KeptInv, kind = "note", NEW d \in Devices, Suppress(d) \/ Known(d) \/ Advance(d)
  PROVE  KeptInv'
<1> DEFINE s == store[d]
           v == [s EXCEPT !.cursor = s.cursor + 1]
<1>1. /\ UNCHANGED <<revs, log, disk, typed, written, dropped, trash>>
      /\ task' = [task EXCEPT ![d] = Idle]
      /\ \/ store' = [store EXCEPT ![d] = v]
         \/ \E r \in Accepted : store' = [store EXCEPT ![d] = Advanced(d, s, r)]
  <2>1. CASE Suppress(d)
    BY <2>1 DEF Suppress, ApplyFrame, HasIncoming, DeliverInv, Fits, IsStore
  <2>2. CASE Known(d)
    <3>1. Incoming(d) \in Accepted
      BY <2>2, IncomingAccepted DEF Known
    <3> QED BY <2>2, <3>1 DEF Known, ApplyFrame, HasIncoming, KeepTask, DeliverInv
  <2>3. CASE Advance(d)
    <3>1. task[d].rev \in Accepted
      BY <2>3 DEF Advance, DeliverInv, Fits, TaskFits
    <3>2. store' = [store EXCEPT ![d] = IF task[d].conflict THEN v ELSE Advanced(d, s, task[d].rev)]
      BY <2>3 DEF Advance, KeepTask
    <3>3. \/ store' = [store EXCEPT ![d] = v]
          \/ store' = [store EXCEPT ![d] = Advanced(d, s, task[d].rev)]
      BY <3>2
    <3> QED BY <2>3, <3>1, <3>3 DEF Advance, ApplyFrame, Goto
  <2> QED BY <2>1, <2>2, <2>3
<1>2. IsStore(s) /\ BasesSafe(s, Safe)
  BY DEF DeliverInv, Fits, KeptInv
<1>3. Accepted' = Accepted /\ Grows(revs, revs') /\ OverwritesSafe(Idle, Safe) /\ Goto(d, Idle)
  BY <1>1, Same, IdleStep, NothingToOverwrite DEF Accepted, Goto
<1>4. ASSUME NEW u, store' = [store EXCEPT ![d] = u], BasesSafe(u, Safe),
             \A q \in s.queue \cup s.backups :
               q \in u.queue \cup u.backups \/ TextOf(Content(q)) \subseteq Edits(Accepted)
      PROVE  KeptInv'
  BY <1>1, <1>3, <1>4, KeptQuiet DEF KeepTask
<1>5. CASE store' = [store EXCEPT ![d] = v]
  <2>1. v.queue = s.queue /\ v.backups = s.backups /\ v.base = s.base /\ v.journal = s.journal
    <3>1. v = [s EXCEPT !.cursor = s.cursor + 1]
      OBVIOUS
    <3> HIDE DEF s, v
    <3> QED BY <1>2, <3>1 DEF IsStore
  <2> HIDE DEF v
  <2> QED BY <1>2, <1>4, <1>5, <2>1 DEF BasesSafe
<1>6. ASSUME NEW r \in Accepted, store' = [store EXCEPT ![d] = Advanced(d, s, r)]
      PROVE  KeptInv'
  BY <1>2, <1>4, <1>6, AdvancedKept
<1> QED BY <1>1, <1>5, <1>6

LEMMA DivertKept ==
  ASSUME DeliverInv, KeptInv, kind = "note", NEW d \in Devices, NEW r, Divert(d, r)
  PROVE  KeptInv'
<1> DEFINE s == Undone(store[d])
           u == [s EXCEPT !.artifacts = s.artifacts \cup {r}]
           t == [step |-> "advance", rev |-> r, conflict |-> TRUE]
<1>1. /\ KeepTask(d, u) /\ Goto(d, t)
      /\ UNCHANGED <<revs, log, disk, typed, written, dropped, trash>>
  BY DEF Divert, ApplyFrame
<1>2. /\ BasesSafe(s, Safe) /\ IsStore(s)
      /\ store[d].queue \cup store[d].backups \subseteq s.queue \cup s.backups
  BY UndoneSafe
<1>3. u.queue = s.queue /\ u.backups = s.backups /\ u.base = s.base /\ u.journal = s.journal
  <2>1. u = [s EXCEPT !.artifacts = s.artifacts \cup {r}]
    OBVIOUS
  <2> HIDE DEF s, u
  <2> QED BY <1>2, <2>1 DEF IsStore
<1>4. BasesSafe(u, Safe)
  <2> HIDE DEF u, s
  <2> QED BY <1>2, <1>3 DEF BasesSafe
<1>5. OverwritesSafe(t, Safe)
  BY NothingToOverwrite
<1>6. Accepted' = Accepted /\ Grows(revs, revs')
  BY <1>1, Same DEF Accepted
<1> HIDE DEF u, t, s
<1> QED BY <1>1, <1>2, <1>3, <1>4, <1>5, <1>6, KeptQuiet

LEMMA DeferKept ==
  ASSUME DeliverInv, KeptInv, kind = "note", NEW d \in Devices, Defer(d)
  PROVE  KeptInv'
<1>1. /\ KeepTask(d, Undone(store[d])) /\ Goto(d, Idle)
      /\ UNCHANGED <<revs, log, disk, typed, written, dropped, trash>>
  BY DEF Defer, ApplyFrame
<1>2. Accepted' = Accepted /\ Grows(revs, revs') /\ OverwritesSafe(Idle, Safe)
  BY <1>1, Same, IdleStep, NothingToOverwrite DEF Accepted
<1> QED BY <1>1, <1>2, UndoneSafe, KeptQuiet

\* The journal keeps the base it may go back to.
LEMMA JournalledSafe ==
  ASSUME NEW s, NEW safe, IsStore(s), BasesSafe(s, safe)
  PROVE  /\ BasesSafe(Journalled(s), safe) /\ IsStore(Journalled(s))
         /\ Journalled(s).base = s.base /\ Journalled(s).queue = s.queue
         /\ Journalled(s).backups = s.backups
<1> DEFINE entry == [open |-> TRUE, head |-> s.head, hash |-> s.hash, base |-> s.base,
                     owner |-> s.owner, discard |-> {}]
           j == Journalled(s)
<1>1. j = [s EXCEPT !.journal = entry] /\ entry.base = s.base
  BY DEF Journalled
<1> HIDE DEF entry, j
<1>2. IsStore(j) /\ j.journal = entry /\ j.queue = s.queue /\ j.backups = s.backups /\ j.base = s.base
  BY <1>1 DEF IsStore
<1>3. BasesSafe(j, safe)
  BY <1>1, <1>2 DEF BasesSafe
<1> QED BY <1>2, <1>3 DEF j

LEMMA ApplyDeleteKept ==
  ASSUME DeliverInv, KeptInv, kind = "note", NEW d \in Devices, NEW r, ApplyDelete(d, r)
  PROVE  KeptInv'
<1> DEFINE s == store[d]
<1>1. UNCHANGED <<revs, log, disk, typed, written, dropped, trash>>
  BY DEF ApplyDelete, ApplyFrame
<1>2. IsStore(s) /\ BasesSafe(s, Safe)
  BY DEF DeliverInv, Fits, KeptInv
<1>3. Accepted' = Accepted /\ Grows(revs, revs')
  BY <1>1, Same DEF Accepted
<1>4. CASE s.owner
  <2> DEFINE j == Journalled(s)
             u == Forgotten(j)
             t == [step |-> "trash", rev |-> r]
  <2>1. KeepTask(d, u) /\ Goto(d, t)
    BY <1>4 DEF ApplyDelete
  <2>2. IsStore(j) /\ BasesSafe(j, Safe) /\ j.queue = s.queue /\ j.backups = s.backups
    BY <1>2, JournalledSafe
  <2>3. u = [j EXCEPT !.head = 0, !.hash = Gone]
    BY DEF Forgotten
  <2>4. OverwritesSafe(t, Safe)
    BY NothingToOverwrite
  <2> HIDE DEF s, j, u, t
  <2>5. u.queue = j.queue /\ u.backups = j.backups /\ u.base = j.base /\ u.journal = j.journal
    BY <2>2, <2>3 DEF IsStore
  <2>6. BasesSafe(u, Safe)
    BY <2>2, <2>5 DEF BasesSafe
  <2> QED BY <1>1, <1>3, <2>1, <2>2, <2>4, <2>5, <2>6, KeptQuiet DEF s
<1>5. CASE ~s.owner
  <2> DEFINE t == [step |-> "advance", rev |-> r, conflict |-> FALSE]
  <2>1. KeepTask(d, s) /\ Goto(d, t)
    BY <1>5 DEF ApplyDelete, KeepTask, DeliverInv
  <2>2. OverwritesSafe(t, Safe)
    BY NothingToOverwrite
  <2> HIDE DEF s, t
  <2> QED BY <1>1, <1>2, <1>3, <2>1, <2>2, KeptQuiet DEF s
<1> QED BY <1>4, <1>5

LEMMA ApplySameKept ==
  ASSUME DeliverInv, KeptInv, kind = "note", NEW d \in Devices, NEW r \in Accepted, ApplySame(d, r)
  PROVE  KeptInv'
<1> DEFINE s == store[d]
           c == Content(r)
           u == Adopted(Recorded(s, Content(r)), r)
           t == [step |-> "advance", rev |-> r, conflict |-> FALSE]
<1>1. /\ UNCHANGED <<revs, log, disk, typed, written, dropped, trash>>
      /\ KeepTask(d, u) /\ Goto(d, t)
  BY DEF ApplySame, ApplyFrame
<1>2. IsStore(s) /\ BasesSafe(s, Safe) /\ TextOf(c) \subseteq Safe
  BY WhatIsSafe DEF DeliverInv, Fits, KeptInv
<1>3. Accepted' = Accepted /\ Grows(revs, revs')
  BY <1>1, Same DEF Accepted
<1>4. u = [[s EXCEPT !.base = c, !.owner = TRUE] EXCEPT !.head = r, !.hash = c]
  BY DEF Adopted, Recorded
<1>5. OverwritesSafe(t, Safe)
  BY NothingToOverwrite
<1> HIDE DEF s, u, c, t
<1>6. u.queue = s.queue /\ u.backups = s.backups /\ u.base = c /\ u.journal = s.journal
  BY <1>2, <1>4 DEF IsStore
<1>7. BasesSafe(u, Safe)
  BY <1>2, <1>6 DEF BasesSafe
<1> QED BY <1>1, <1>3, <1>5, <1>6, <1>7, KeptQuiet DEF s

LEMMA ApplyWriteKept ==
  ASSUME DeliverInv, KeptInv, kind = "note", NEW d \in Devices, NEW r \in Accepted, ApplyWrite(d, r)
  PROVE  KeptInv'
<1> DEFINE s == store[d]
           c == Content(r)
           j == Journalled(s)
           u == Adopted(j, r)
           clean == IF Clean(d, r) THEN disk[d] ELSE s.base
           t == [step |-> "prewrite", rev |-> r, clean |-> clean]
<1>1. /\ UNCHANGED <<revs, log, disk, typed, written, dropped, trash>>
      /\ KeepTask(d, u) /\ Goto(d, t)
  BY DEF ApplyWrite, ApplyFrame
<1>2. IsStore(s) /\ BasesSafe(s, Safe)
  BY DEF DeliverInv, Fits, KeptInv
<1>3. Accepted' = Accepted /\ Grows(revs, revs')
  BY <1>1, Same DEF Accepted
<1>4. IsStore(j) /\ BasesSafe(j, Safe) /\ j.queue = s.queue /\ j.backups = s.backups
  BY <1>2, JournalledSafe
<1>5. TextOf(clean) \subseteq Safe
  <2>1. CASE Clean(d, r)
    BY <2>1, WhatIsSafe DEF Clean, FastForward
  <2>2. CASE ~Clean(d, r)
    BY <1>2, <2>2 DEF BasesSafe
  <2> QED BY <2>1, <2>2
<1>6. u = [j EXCEPT !.head = r, !.hash = c]
  BY DEF Adopted
<1> HIDE DEF s, u, c, j, clean
<1>7. u.queue = j.queue /\ u.backups = j.backups /\ u.base = j.base /\ u.journal = j.journal
  BY <1>4, <1>6 DEF IsStore
<1>8. BasesSafe(u, Safe)
  BY <1>4, <1>7 DEF BasesSafe
<1>9. OverwritesSafe(t, Safe)
  BY <1>5 DEF OverwritesSafe
<1> HIDE DEF t
<1> QED BY <1>1, <1>3, <1>4, <1>7, <1>8, <1>9, KeptQuiet DEF s

LEMMA ApplyMergeKept ==
  ASSUME DeliverInv, KeptInv, kind = "note", NEW d \in Devices, NEW r \in Accepted, ApplyMerge(d, r)
  PROVE  KeptInv'
<1> DEFINE s == store[d]
           j == Journalled(s)
           mine == disk[d]
           merged == MergeOver(d, r, disk[d])
           n == Len(revs) + 1
           parents == IF j.head \in revs[r].parents THEN {r} ELSE {j.head, r}
           entry == [j.journal EXCEPT !.discard = {n}]
           next == [j EXCEPT !.head = n, !.hash = merged, !.queue = @ \cup {n},
                             !.journal.discard = {n}]
           u == [Closed(next) EXCEPT !.owner = TRUE]
           t1 == [step |-> "advance", rev |-> r, conflict |-> FALSE]
           t2 == [step |-> "merge", rev |-> r, seen |-> mine, text |-> merged]
<1>1. /\ UNCHANGED <<log, disk, typed, written, dropped, trash>> /\ Content(r) # Gone
      /\ Merges(d, r) /\ NewRevision(parents, merged)
      /\ \/ KeepTask(d, u) /\ Goto(d, t1)
         \/ KeepTask(d, next) /\ Goto(d, t2)
  BY DEF ApplyMerge, ApplyFrame
<1>2. IsStore(s) /\ BasesSafe(s, Safe) /\ r \in 1..Len(revs)
  BY Same DEF DeliverInv, Fits, KeptInv
<1>3. s.head # 0 /\ merged \in Text /\ merged # Gone /\ mine \in Text
  BY <1>1, <1>2, MergedText DEF Merges, Diverged, DeliverInv
<1>4. Grows(revs, revs')
  <2>1. s.head \in 1..Len(revs) /\ j.head = s.head
    BY <1>2, <1>3, Same, JournalledStore DEF DeliverInv, Fits, Sound
  <2>2. parents \subseteq 1..Len(revs)
    BY <1>2, <2>1
  <2> HIDE DEF parents, merged
  <2> QED BY <1>1, <1>3, <2>2, NewFits
<1>5. Accepted' = Accepted
  BY <1>1 DEF Accepted
<1>6. TextOf(mine) \subseteq Safe \cup TextOf(merged)
  BY <1>1, <1>3, MergeKeeps DEF Merges
<1>7. IsStore(j) /\ BasesSafe(j, Safe) /\ j.queue = s.queue /\ j.backups = s.backups
  BY <1>2, JournalledSafe
<1>8. /\ IsStore(next) /\ next.journal = entry /\ next.queue = s.queue \cup {n}
      /\ next.backups = s.backups /\ next.base = j.base
  <2>1. next = [j EXCEPT !.head = n, !.hash = merged, !.queue = @ \cup {n}, !.journal = entry]
    <3> HIDE DEF s, j, n, merged
    <3> QED OBVIOUS
  <2> HIDE DEF s, j, n, merged, next, entry
  <2> QED BY <1>7, <2>1 DEF IsStore
<1>9. entry.base = j.journal.base /\ entry.open = j.journal.open
  <2> HIDE DEF s, j, n
  <2> QED OBVIOUS
<1> HIDE DEF entry
<1>10. BasesSafe(next, Safe)
  <2> HIDE DEF next, j, s
  <2> QED BY <1>7, <1>8, <1>9 DEF BasesSafe
<1>11. CASE KeepTask(d, u) /\ Goto(d, t1)
  <2>1. u = [[next EXCEPT !.journal = NoJournal] EXCEPT !.owner = TRUE]
    BY DEF Closed
  <2>2. OverwritesSafe(t1, Safe)
    BY NothingToOverwrite
  <2> HIDE DEF u, next, t1, s, n
  <2>3. u.journal = NoJournal /\ u.queue = next.queue /\ u.backups = next.backups /\ u.base = next.base
    BY <1>8, <2>1 DEF IsStore
  <2>4. BasesSafe(u, Safe)
    BY <1>10, <2>3 DEF BasesSafe, NoJournal
  <2> QED BY <1>1, <1>4, <1>5, <1>8, <1>11, <2>2, <2>3, <2>4, KeptQuiet DEF s
<1>12. CASE KeepTask(d, next) /\ Goto(d, t2)
  <2> HIDE DEF merged
  <2>1. OverwritesSafe(t2, Safe)
    <3> HIDE DEF mine
    <3> QED BY <1>6 DEF OverwritesSafe
  <2> HIDE DEF next, t2, n
  <2> QED BY <1>1, <1>4, <1>5, <1>8, <1>10, <1>12, <2>1, KeptQuiet
<1> QED BY <1>1, <1>11, <1>12

LEMMA PrewriteKept ==
  ASSUME DeliverInv, KeptInv, kind = "note", NEW d \in Devices, Prewrite(d)
  PROVE  KeptInv'
<1> DEFINE s == store[d]
           r == task[d].rev
           mine == disk[d]
           t == [step |-> "write", rev |-> r, seen |-> mine, text |-> Content(r)]
<1>1. task[d].step = "prewrite" /\ Fits(s, task[d], revs, Accepted)
  BY DEF Prewrite, DeliverInv
<1>2. CASE Divert(d, r)
  BY <1>2, DivertKept
<1>3. CASE ~Divert(d, r)
  <2>1. /\ Goto(d, t) /\ ~SavedSince(d) /\ store' = store
        /\ UNCHANGED <<revs, log, disk, typed, written, dropped, trash>>
    BY <1>3 DEF Prewrite, ApplyFrame
  <2>2. /\ BasesSafe(s, Safe) /\ TextOf(task[d].clean) \subseteq Safe
        /\ TextOf(Content(r)) \subseteq Safe
    BY <1>1, WhatIsSafe DEF KeptInv, OverwritesSafe, Fits, TaskFits
  <2>3. mine \in {Gone, Content(r), s.base, task[d].clean}
    BY <2>1 DEF SavedSince, LastWriterWins
  <2>4. TextOf(mine) \subseteq Safe
    BY <2>2, <2>3 DEF TextOf, BasesSafe
  <2> HIDE DEF mine
  <2>5. OverwritesSafe(t, Safe)
    BY <2>4 DEF OverwritesSafe
  <2>6. KeepTask(d, s)
    BY <2>1 DEF KeepTask, DeliverInv
  <2>7. Accepted' = Accepted /\ Grows(revs, revs')
    BY <2>1, Same DEF Accepted
  <2> HIDE DEF t, s
  <2> QED BY <2>1, <2>2, <2>5, <2>6, <2>7, KeptQuiet DEF s
<1> QED BY <1>2, <1>3

\* The file has changed; what is stored follows in the next step.
LEMMA KeptFile ==
  ASSUME DeliverInv, KeptInv, kind = "note", NEW d \in Devices, NEW t, NEW text,
         UNCHANGED <<revs, log, store, typed, written, dropped>>,
         \A e \in Devices : trash[e] \subseteq trash'[e], disk' = [disk EXCEPT ![d] = text],
         Goto(d, t), t.step = "record", TextOf(disk[d]) \subseteq Safe' \cup TextOf(text)
  PROVE  KeptInv'
<1>1. Safe \subseteq Safe'
  BY SafeFiles
<1>2. WrittenSafe'
  BY <1>1, DiskWritten DEF KeptInv
<1>3. BasesSafe(store[d], Safe') /\ OverwritesSafe(t, Safe')
  BY <1>1 DEF KeptInv, BasesSafe, OverwritesSafe
<1>4. store' = [store EXCEPT ![d] = store[d]]
  BY DEF DeliverInv
<1> QED BY <1>1, <1>2, <1>3, <1>4, KeptStep DEF Goto

LEMMA WriteNoteKept ==
  ASSUME DeliverInv, KeptInv, kind = "note", NEW d \in Devices, WriteNote(d)
  PROVE  KeptInv'
<1>1. CASE Defer(d)
  BY <1>1, DeferKept
<1>2. CASE ~Defer(d)
  <2> DEFINE text == task[d].text
             t == [step |-> "record", rev |-> task[d].rev, from |-> task[d].step]
  <2>1. /\ task[d].step \in {"write", "merge"} /\ disk[d] = task[d].seen
        /\ disk' = [disk EXCEPT ![d] = text] /\ Goto(d, t)
        /\ UNCHANGED <<revs, log, store, typed, written, dropped, trash>>
    BY <1>2 DEF WriteNote, ApplyFrame, Unseen
  <2>2. Safe \subseteq Safe'
    BY <2>1, SafeFiles
  <2>3. TextOf(disk[d]) \subseteq Safe \cup TextOf(text)
    BY <2>1 DEF KeptInv, OverwritesSafe
  <2>4. t.step = "record"
    OBVIOUS
  <2> HIDE DEF t, text
  <2> QED BY <2>1, <2>2, <2>3, <2>4, KeptFile
<1> QED BY <1>1, <1>2

LEMMA TrashNoteKept ==
  ASSUME DeliverInv, KeptInv, kind = "note", NEW d \in Devices, TrashNote(d),
         trash = [e \in Devices |-> trash[e]]
  PROVE  KeptInv'
<1>1. CASE Defer(d)
  BY <1>1, DeferKept
<1>2. CASE ~Defer(d)
  <2> DEFINE t == [step |-> "record", rev |-> task[d].rev, from |-> "trash"]
  <2>1. /\ trash' = IF disk[d] = Gone THEN trash ELSE [trash EXCEPT ![d] = @ \cup disk[d]]
        /\ disk' = [disk EXCEPT ![d] = Gone] /\ Goto(d, t)
        /\ UNCHANGED <<revs, log, store, typed, written, dropped>>
    BY <1>2 DEF TrashNote, ApplyFrame, LastWriterWins
  <2>2. \A e \in Devices : trash[e] \subseteq trash'[e]
    BY <2>1
  <2>3. TextOf(disk[d]) \subseteq trash'[d] \/ TextOf(disk[d]) = {}
    BY <2>1 DEF TextOf
  <2>4. trash'[d] \subseteq Safe'
    <3>1. Safe' = Edits(Accepted)' \cup dropped'
                  \cup UNION {trash'[e] \cup Edits(store[e].backups \cup store[e].queue)' : e \in Devices}
      BY DEF Safe
    <3> QED BY <3>1
  <2>5. t.step = "record"
    OBVIOUS
  <2> HIDE DEF t
  <2> QED BY <2>1, <2>2, <2>3, <2>4, <2>5, KeptFile
<1> QED BY <1>1, <1>2

LEMMA RecordKept ==
  ASSUME DeliverInv, KeptInv, kind = "note", NEW d \in Devices, Record(d)
  PROVE  KeptInv'
<1> DEFINE o == store[d]
           s == Closed(o)
           r == task[d].rev
           c == Content(r)
           from == task[d].from
           u == CASE from = "write" -> Recorded(s, Content(r))
                  [] from = "merge" -> [s EXCEPT !.owner = TRUE]
                  [] from = "trash" -> [s EXCEPT !.owner = FALSE, !.base = Gone]
           t == [step |-> "advance", rev |-> r, conflict |-> FALSE]
<1>1. /\ task[d].step = "record" /\ KeepTask(d, u) /\ Goto(d, t)
      /\ UNCHANGED <<revs, log, disk, typed, written, dropped, trash>>
  BY DEF Record, ApplyFrame
<1>2. Fits(o, task[d], revs, Accepted) /\ BasesSafe(o, Safe)
  BY DEF DeliverInv, KeptInv
<1>3. from \in {"write", "merge", "trash"} /\ r \in Accepted
  BY <1>1, <1>2 DEF Fits, TaskFits
<1>4. TextOf(c) \subseteq Safe
  BY <1>3, WhatIsSafe
<1>5. IsStore(s) /\ s.journal = NoJournal /\ s.queue = o.queue /\ s.backups = o.backups /\ s.base = o.base
  <2>1. s = [o EXCEPT !.journal = NoJournal] /\ IsStore(o)
    BY <1>2 DEF Closed, Fits
  <2> HIDE DEF s, o
  <2> QED BY <2>1 DEF IsStore
<1>6. \/ u = [s EXCEPT !.base = c, !.owner = TRUE]
      \/ u = [s EXCEPT !.owner = TRUE]
      \/ u = [s EXCEPT !.owner = FALSE, !.base = Gone]
  BY <1>3 DEF Recorded
<1>7. OverwritesSafe(t, Safe) /\ Accepted' = Accepted /\ Grows(revs, revs')
  BY <1>1, NothingToOverwrite, Same DEF Accepted
<1> HIDE DEF u, s, o, c, t
<1>8. u.journal = s.journal /\ u.queue = s.queue /\ u.backups = s.backups /\ u.base \in {c, s.base, Gone}
  BY <1>5, <1>6 DEF IsStore
<1>9. BasesSafe(u, Safe)
  BY <1>2, <1>4, <1>5, <1>8 DEF BasesSafe, NoJournal, TextOf
<1> QED BY <1>1, <1>5, <1>7, <1>8, <1>9, KeptQuiet DEF o

LEMMA ReconcileKept ==
  ASSUME DeliverInv, KeptInv, kind = "note", NEW d \in Devices, Reconcile(d)
  PROVE  KeptInv'
<1> DEFINE s == store[d]
           n == Len(revs) + 1
<1>1. /\ task[d] = Idle /\ disk[d] = s.hash /\ s.hash # Gone /\ s.head # 0
      /\ UNCHANGED <<log, disk, typed, task, written, dropped, trash>>
  BY DEF Reconcile, Reconcilable, ApplyFrame
<1>2. IsStore(s) /\ BasesSafe(s, Safe) /\ TextOf(disk[d]) \subseteq Safe
  BY <1>1, WhatIsSafe DEF DeliverInv, Fits, KeptInv
<1>3. Accepted' = Accepted /\ Goto(d, Idle) /\ OverwritesSafe(Idle, Safe)
  BY <1>1, NothingToOverwrite, IdleStep DEF Accepted, Goto, DeliverInv
<1>4. ASSUME NEW head, NEW queue
      PROVE  /\ BasesSafe(Swapped(d, head, queue), Safe)
             /\ Swapped(d, head, queue).backups = s.backups \cup s.queue
  <2> DEFINE u == Swapped(d, head, queue)
             text == disk[d]
  <2>1. u = [s EXCEPT !.head = head, !.queue = queue, !.backups = @ \cup s.queue, !.owner = TRUE,
                      !.base = IF @ = Gone THEN text ELSE @]
    BY DEF Swapped, Queued
  <2> HIDE DEF u, s, text
  <2>2. u.journal = s.journal /\ u.backups = s.backups \cup s.queue /\ u.base \in {s.base, text}
    BY <1>2, <2>1 DEF IsStore
  <2>3. BasesSafe(u, Safe)
    BY <1>2, <2>2 DEF BasesSafe, text
  <2> QED BY <2>2, <2>3 DEF u
<1>5. Grows(revs, revs')
  <2>1. CASE AdoptsHead(d)
    BY <2>1, Same DEF Reconcile
  <2>2. CASE ~AdoptsHead(d)
    <3>1. NewRevision(Heads, disk[d])
      BY <2>2 DEF Reconcile
    <3>2. disk[d] \in Text \cup {Gone} /\ disk[d] # Gone
      BY <1>1 DEF DeliverInv
    <3>3. Heads \subseteq 1..Len(revs)
      BY Same DEF Heads
    <3> QED BY <3>1, <3>2, <3>3, NewFits
  <2> QED BY <2>1, <2>2
<1>6. \E head, queue : KeepTask(d, Swapped(d, head, queue))
  BY DEF Reconcile
<1>7. PICK head, queue : KeepTask(d, Swapped(d, head, queue))
  BY <1>6
<1>8. /\ BasesSafe(Swapped(d, head, queue), Safe)
      /\ \A q \in s.queue \cup s.backups :
            q \in Swapped(d, head, queue).queue \cup Swapped(d, head, queue).backups
  BY <1>4
<1> HIDE DEF n
<1> QED BY <1>1, <1>3, <1>5, <1>7, <1>8, KeptQuiet

LEMMA RestartKept ==
  ASSUME DeliverInv, KeptInv, kind = "note", NEW d \in Devices, Restart(d)
  PROVE  KeptInv'
<1> DEFINE s == Undone(store[d])
           u == bootstrapIdentities(d, s)
           h == CHOOSE x \in Heads : TRUE
           c == Content(h)
           text == disk[d]
<1>1. /\ KeepTask(d, u) /\ Goto(d, Idle) /\ UNCHANGED <<revs, log, disk, trash, written>>
      /\ dropped' = dropped \cup ({typed[d]} \ {0}) /\ typed' = [typed EXCEPT ![d] = 0]
  BY DEF Restart
<1>2. /\ BasesSafe(s, Safe) /\ IsStore(s) /\ ~s.journal.open
      /\ store[d].queue \cup store[d].backups \subseteq s.queue \cup s.backups
  BY UndoneSafe
<1>3. Accepted' = Accepted /\ Grows(revs, revs') /\ OverwritesSafe(Idle, Safe')
  BY <1>1, Same, IdleStep, NothingToOverwrite DEF Accepted
<1>4. BasesSafe(u, Safe) /\ u.queue = s.queue /\ u.backups = s.backups
  <2>1. CASE u = s
    <3> HIDE DEF u
    <3> QED BY <1>2, <2>1
  <2>2. CASE u # s
    <3>1. /\ Cardinality(Heads) = 1 /\ {Content(x) : x \in Heads} = {text}
          /\ u = Adopted(Recorded(s, text), h)
      BY <2>2 DEF bootstrapIdentities
    <3>2. u = [[s EXCEPT !.base = text, !.owner = TRUE] EXCEPT !.head = h, !.hash = c]
      BY <3>1 DEF Adopted, Recorded
    <3>3. TextOf(text) \subseteq Safe
      <4>1. text \in {Content(x) : x \in Heads}
        BY <3>1
      <4>2. PICK x \in Heads : text = Content(x)
        BY <4>1
      <4> QED BY <4>2, WhatIsSafe DEF Heads
    <3> HIDE DEF s, u, h, c, text
    <3>4. u.queue = s.queue /\ u.backups = s.backups /\ u.base = text /\ u.journal = s.journal
      BY <1>2, <3>2 DEF IsStore
    <3> QED BY <1>2, <3>3, <3>4 DEF BasesSafe
  <2> QED BY <2>1, <2>2
<1> HIDE DEF u, s
<1>5. Safe \subseteq Safe'
  BY <1>1, <1>2, <1>3, <1>4, SafeStep DEF KeepTask
<1>6. BasesSafe(u, Safe')
  BY <1>4, <1>5 DEF BasesSafe
<1>7. WrittenSafe'
  <2>1. WrittenSafe /\ typed \in [Devices -> 0..MaxEdits]
    BY DEF KeptInv, DeliverInv
  <2>2. ASSUME NEW x \in written, x \in {typed[e] : e \in Devices}
        PROVE  x \in Safe' \cup {typed'[e] : e \in Devices}
    <3>1. PICK e \in Devices : x = typed[e]
      BY <2>2
    <3>2. CASE e = d
      <4>1. x \in dropped'
        BY <1>1, <2>1, <3>1, <3>2 DEF WrittenSafe
      <4> QED BY <4>1 DEF Safe
    <3>3. CASE e # d
      BY <1>1, <2>1, <3>1, <3>3
    <3> QED BY <3>2, <3>3
  <2>3. written \subseteq Safe \cup {typed[e] : e \in Devices} \cup UNION {TextOf(disk[e]) : e \in Devices}
    BY <2>1 DEF WrittenSafe
  <2>4. UNION {TextOf(disk'[e]) : e \in Devices} = UNION {TextOf(disk[e]) : e \in Devices}
    BY <1>1
  <2>5. WrittenSafe' <=> /\ 0 \notin written'
                         /\ written' \subseteq Safe' \cup {typed'[e] : e \in Devices}
                                         \cup UNION {TextOf(disk'[e]) : e \in Devices}
    BY DEF WrittenSafe
  <2>6. 0 \notin written' /\ written' = written
    BY <1>1, <2>1 DEF WrittenSafe
  <2> DEFINE T == UNION {TextOf(disk[e]) : e \in Devices}
  <2> HIDE DEF T
  <2>7. \A x \in written : x \in Safe' \cup {typed'[e] : e \in Devices} \cup T
    BY <1>5, <2>2, <2>3 DEF T
  <2> QED BY <2>4, <2>5, <2>6, <2>7 DEF T
<1> QED BY <1>1, <1>3, <1>5, <1>6, <1>7, KeptStep DEF KeepTask, Goto

LEMMA SweepKept ==
  ASSUME DeliverInv, KeptInv, kind = "note", NEW d \in Devices, NEW r, Sweep(d, r)
  PROVE  KeptInv'
<1> DEFINE merged == MergeOver(d, r, disk[d])
<1>1. UNCHANGED <<revs, log, store, task, typed, written, dropped, trash>>
  BY DEF Sweep, ApplyFrame
<1>2. Safe \subseteq Safe'
  BY <1>1, SafeFiles
<1>3. CASE UNCHANGED disk
  BY <1>1, <1>2, <1>3, WrittenStays, KeptFiles DEF KeptInv
<1>4. CASE ~UNCHANGED disk
  <2>1. /\ r \in copies[d] /\ Content(r) # Gone /\ disk[d] # Gone /\ merged # Conflict
        /\ disk' = [disk EXCEPT ![d] = merged]
    BY <1>4 DEF Sweep
  <2>2. r \in 1..Len(revs) /\ disk[d] \in Text
    BY <2>1, Same DEF DeliverInv
  <2>3. merged \in Text
    BY <2>1, <2>2, MergedText
  <2>4. TextOf(disk[d]) \subseteq Safe \cup TextOf(merged)
    BY <2>1, <2>2, <2>3, MergeKeeps
  <2> HIDE DEF merged
  <2>5. WrittenSafe'
    BY <1>1, <1>2, <2>1, <2>4, DiskWritten DEF KeptInv
  <2> QED BY <1>1, <1>2, <2>5, KeptFiles
<1> QED BY <1>3, <1>4

\* The trash of a device only grows.
TrashFits == trash = [d \in Devices |-> trash[d]]

LEMMA TrashStays ==
  ASSUME TrashFits, [Next]_vars
  PROVE  TrashFits' /\ kind' = kind /\ \A e \in Devices : trash[e] \subseteq trash'[e]
<1>1. CASE UNCHANGED <<kind, trash>>
  BY <1>1 DEF TrashFits
<1>2. CASE UNCHANGED kind /\ \E d \in Devices : trash' = [trash EXCEPT ![d] = @ \cup disk[d]]
  <2>1. PICK d \in Devices : trash' = [trash EXCEPT ![d] = trash[d] \cup disk[d]]
    BY <1>2
  <2> DEFINE more == trash[d] \cup disk[d]
  <2>2. trash' = [trash EXCEPT ![d] = more] /\ trash[d] \subseteq more
    BY <2>1
  <2> HIDE DEF more
  <2>3. trash' = [e \in Devices |-> IF e = d THEN more ELSE trash[e]]
    BY <2>2 DEF TrashFits
  <2> QED BY <1>2, <2>2, <2>3 DEF TrashFits
<1>3. CASE Next
  <2>1. PICK d \in Devices :
          \/ User(d) \/ Save(d) \/ Observe(d) \/ Push(d, TRUE) \/ ApplyStep(d) \/ Reconcile(d) \/ Restart(d)
          \/ Push(d, FALSE) \/ \E r \in sweep[d] : Sweep(d, r)
    BY <1>3 DEF Next
  <2>2. CASE User(d) \/ Save(d)
    BY <1>1, <1>2, <2>2 DEF User, Save, Type, WriteFile, DeleteNote, KeepMine, KeepTheirs,
                               EditFrame, ResolveFrame
  <2>3. CASE Observe(d) \/ Push(d, TRUE) \/ Push(d, FALSE) \/ Reconcile(d) \/ Restart(d)
    BY <1>1, <2>3 DEF Observe, Push, Reconcile, Restart, ApplyFrame
  <2>4. CASE \E r \in sweep[d] : Sweep(d, r)
    BY <1>1, <2>4 DEF Sweep, ApplyFrame
  <2>5. CASE ApplyStep(d)
    <3>1. CASE TrashNote(d)
      BY <1>1, <1>2, <3>1 DEF TrashNote, Defer, ApplyFrame
    <3>2. CASE FirstPull(d) \/ Suppress(d) \/ Known(d) \/ Prewrite(d) \/ WriteNote(d) \/ Record(d) \/ Advance(d)
      BY <1>1, <3>2 DEF FirstPull, Suppress, Known, Prewrite, WriteNote, Record, Advance, Divert, Defer,
                               ApplyFrame
    <3>3. CASE Apply(d)
      BY <1>1, <3>3 DEF Apply, ApplyDelete, KeepDeleted, ApplySame, ApplyMerge, ApplyDiverged, ApplyWrite, Divert,
                               ApplyFrame
    <3> QED BY <2>5, <3>1, <3>2, <3>3 DEF ApplyStep
  <2> QED BY <2>1, <2>2, <2>3, <2>4, <2>5
<1> QED BY <1>1, <1>3 DEF vars, devices

LEMMA UserKept ==
  ASSUME DeliverInv, KeptInv, kind = "note", NEW d \in Devices, User(d) \/ Save(d),
         \A e \in Devices : trash[e] \subseteq trash'[e]
  PROVE  KeptInv'
<1> USE DEF EditFrame, ResolveFrame
<1>1. UNCHANGED <<revs, log, store, task>> /\ dropped \subseteq dropped'
  BY DEF User, Save, Type, WriteFile, DeleteNote, KeepMine, KeepTheirs
<1>2. Safe \subseteq Safe'
  BY <1>1, SafeFiles
<1>3. ASSUME WrittenSafe' PROVE KeptInv'
  BY <1>1, <1>2, <1>3, KeptFiles
<1> DEFINE all == UNION {TextOf(disk[e]) : e \in Devices}
           Open == {typed[e] : e \in Devices}
<1>4. /\ 0 \notin written /\ written \subseteq Safe \cup Open \cup all
      /\ disk \in [Devices -> Text \cup {Gone}] /\ typed \in [Devices -> 0..MaxEdits] /\ edits \in Nat
      /\ Editing(d)
  <2>1. WrittenSafe
    BY DEF KeptInv
  <2>2. /\ disk \in [Devices -> Text \cup {Gone}] /\ typed \in [Devices -> 0..MaxEdits] /\ edits \in Nat
        /\ Editing(d)
    BY DEF DeliverInv
  <2> QED BY <2>1, <2>2 DEF WrittenSafe
<1>5. WrittenSafe' <=> /\ 0 \notin written' /\ written' \subseteq Safe' \cup Open' \cup all'
  BY DEF WrittenSafe
<1>6. CASE Type(d)
  <2>1. /\ typed[d] = 0 /\ written' = written \cup {edits + 1} /\ edits + 1 # 0
        /\ typed' = [typed EXCEPT ![d] = edits + 1] /\ disk' = disk
    BY <1>4, <1>6 DEF Type
  <2>2. all' = all
    BY <2>1
  <2>3. Open \subseteq Open' \cup {0} /\ edits + 1 \in Open'
    BY <1>4, <2>1
  <2> HIDE DEF all, Open
  <2>4. 0 \notin written'
    BY <1>4, <2>1
  <2>5. written \subseteq Safe' \cup Open' \cup all'
    BY <1>2, <1>4, <2>2, <2>3
  <2> QED BY <1>3, <1>5, <2>1, <2>3, <2>4, <2>5
<1>7. CASE Save(d)
  <2>1. /\ disk' = [disk EXCEPT ![d] = @ \cup {typed[d]}] /\ typed' = [typed EXCEPT ![d] = 0]
        /\ written' = written /\ typed[d] # 0
    BY <1>7 DEF Save
  <2>2. disk[d] \in Text /\ disk[d] \cup {typed[d]} \in Text
    BY <1>4, <2>1 DEF Editing, Text, Edit
  <2>3. TextOf(disk'[d]) = TextOf(disk[d]) \cup {typed[d]}
    BY <1>4, <2>1, <2>2, VaultApplyAssumption DEF TextOf, Text, Edit
  <2>4. \A e \in Devices : TextOf(disk[e]) \subseteq all'
    BY <1>4, <2>1, <2>3
  <2>5. typed[d] \in all' /\ \A e \in Devices : e # d => typed[e] \in Open'
    BY <1>4, <2>1, <2>3
  <2>6. all \subseteq all' /\ Open \subseteq Open' \cup all'
    BY <2>4, <2>5
  <2> HIDE DEF all, Open
  <2> QED BY <1>2, <1>3, <1>4, <1>5, <2>1, <2>6
<1>8. CASE WriteFile(d)
  BY <1>8 DEF WriteFile
<1>9. CASE DeleteNote(d)
  <2>1. /\ disk' = [disk EXCEPT ![d] = Gone] /\ dropped' = dropped \cup disk[d]
        /\ UNCHANGED <<typed, written>> /\ disk[d] # Gone
    BY <1>9 DEF DeleteNote
  <2>2. TextOf(disk[d]) \subseteq Safe'
    BY <2>1 DEF TextOf, Safe
  <2> QED BY <1>2, <1>3, <2>1, <2>2, DiskWritten DEF KeptInv
<1>10. ASSUME NEW r \in copies[d], KeepMine(d, r) \/ KeepTheirs(d, r)
       PROVE  KeptInv'
  <2>1. CASE KeepMine(d, r)
    BY <1>2, <1>3, <2>1, WrittenStays DEF KeepMine, KeptInv
  <2>2. CASE KeepTheirs(d, r)
    <3>1. /\ disk' = [disk EXCEPT ![d] = Content(r)] /\ UNCHANGED <<typed, written>>
          /\ dropped' = IF disk[d] = Gone THEN dropped ELSE dropped \cup disk[d]
      BY <2>2 DEF KeepTheirs
    <3>2. TextOf(disk[d]) \subseteq dropped'
      BY <3>1 DEF TextOf
    <3>3. dropped' \subseteq Safe'
      BY DEF Safe
    <3> QED BY <1>2, <1>3, <3>1, <3>2, <3>3, DiskWritten DEF KeptInv
  <2> QED BY <1>10, <2>1, <2>2
<1> QED BY <1>6, <1>7, <1>8, <1>9, <1>10 DEF User

-----------------------------------------------------------------------------
(* No edit of a note is lost.                                              *)

LEMMA NextKept ==
  ASSUME DeliverInv, KeptInv, TrashFits, [Next]_vars
  PROVE  KeptInv' /\ TrashFits'
<1>1. TrashFits' /\ \A e \in Devices : trash[e] \subseteq trash'[e]
  BY TrashStays
<1>2. kind' = kind
  BY TrashStays
<1>3. CASE kind # "note"
  BY <1>1, <1>2, <1>3 DEF KeptInv
<1>4. CASE kind = "note" /\ UNCHANGED vars
  <2>1. UNCHANGED <<revs, log, disk, typed, store, task, trash, written, dropped>>
    BY <1>4 DEF vars, devices
  <2> QED BY <1>1, <1>4, <2>1, SafeFiles, WrittenStays, KeptFiles DEF KeptInv
<1>5. CASE kind = "note" /\ Next
  <2>1. PICK d \in Devices :
          \/ User(d) \/ Save(d) \/ Observe(d) \/ Push(d, TRUE) \/ ApplyStep(d) \/ Reconcile(d) \/ Restart(d)
          \/ Push(d, FALSE) \/ \E r \in sweep[d] : Sweep(d, r)
    BY <1>5 DEF Next
  <2>2. ASSUME Apply(d) PROVE KeptInv'
    <3>1. PICK r \in Accepted : \/ ApplyDelete(d, r) \/ KeepDeleted(d, r) \/ ApplySame(d, r)
                                \/ ApplyMerge(d, r) \/ ApplyDiverged(d, r) \/ ApplyWrite(d, r)
      BY <2>2 DEF Apply
    <3>2. KeepDeleted(d, r) \/ ApplyDiverged(d, r) => Divert(d, r)
      BY DEF KeepDeleted, ApplyDiverged
    <3> QED BY <1>5, <3>1, <3>2, ApplyDeleteKept, ApplySameKept, ApplyMergeKept, ApplyWriteKept, DivertKept
  <2>3. ASSUME FirstPull(d) PROVE KeptInv'
    <3>1. UNCHANGED <<revs, log, disk, typed, store, task, trash, written, dropped>>
      BY <2>3 DEF FirstPull
    <3> QED BY <1>1, <1>5, <3>1, SafeFiles, WrittenStays, KeptFiles DEF KeptInv
  <2>4. ASSUME ApplyStep(d) PROVE KeptInv'
    BY <1>5, <2>2, <2>3, <2>4, FeedKept, PrewriteKept, WriteNoteKept, TrashNoteKept, RecordKept
       DEF ApplyStep, TrashFits
  <2>5. KeptInv'
    BY <1>1, <1>5, <2>1, <2>4, UserKept, ObserveKept, PushKept, ReconcileKept, RestartKept, SweepKept
  <2> QED BY <1>1, <2>5
<1> QED BY <1>3, <1>4, <1>5

LEMMA InitKept == Init => KeptInv /\ TrashFits
<1> SUFFICES ASSUME Init PROVE KeptInv /\ TrashFits
  OBVIOUS
<1>1. written = {} /\ task = [d \in Devices |-> Idle] /\ trash = [d \in Devices |-> {}]
  BY DEF Init
<1>2. ASSUME NEW d \in Devices
      PROVE  BasesSafe(store[d], Safe) /\ OverwritesSafe(task[d], Safe)
  <2>1. store[d].base \in {Gone, {}} /\ store[d].journal = NoJournal
    <3>1. PICK new \in SUBSET (Devices \ {Author}) :
            store = [e \in Devices |->
                 IF e \in new THEN NewStore
                 ELSE [NewStore EXCEPT !.head = 1, !.hash = {}, !.base = {}, !.owner = TRUE,
                                       !.authored = IF e = Author THEN {1} ELSE {}, !.cursor = 1]]
      BY DEF Init
    <3> DEFINE mine == IF d = Author THEN {1} ELSE {}
               s == store[d]
    <3>2. \/ s = NewStore
          \/ s = [NewStore EXCEPT !.head = 1, !.hash = {}, !.base = {}, !.owner = TRUE,
                                  !.authored = mine, !.cursor = 1]
      BY <3>1
    <3> HIDE DEF s, mine
    <3>3. CASE s = NewStore
      BY <3>3 DEF NewStore, s
    <3>4. NewStore.journal = NoJournal
      BY DEF NewStore
    <3>5. CASE s # NewStore
      BY <3>2, <3>4, <3>5 DEF NewStore, s
    <3> QED BY <3>3, <3>5 DEF s
  <2> QED BY <1>1, <2>1, IdleStep, NothingToOverwrite DEF BasesSafe, TextOf, NoJournal
<1> QED BY <1>1, <1>2 DEF KeptInv, WrittenSafe, TrashFits

\* No save of a note is lost (rule 3), whatever the order in which editors
\* save, devices apply, merge, retire and swap, and wherever an apply stops.
THEOREM KeptCorrect == Spec => []NoEditLost
<1>1. KeptInv => NoEditLost
  <2> SUFFICES ASSUME KeptInv, kind = "note", NEW x \in written
               PROVE  x \in Kept \cup Edits(Accepted) \cup dropped \cup {typed[d] : d \in Devices}
    BY DEF NoEditLost
  <2>1. \/ x \in Safe
        \/ x \in {typed[d] : d \in Devices}
        \/ x \in UNION {TextOf(disk[d]) : d \in Devices}
    BY DEF KeptInv, WrittenSafe
  <2>2. ASSUME x \in Safe PROVE x \in Kept \cup Edits(Accepted) \cup dropped
    BY <2>2 DEF Safe, Kept, Queued
  <2>3. ASSUME x \in UNION {TextOf(disk[d]) : d \in Devices} PROVE x \in Kept
    BY <2>3 DEF Kept
  <2> QED BY <2>1, <2>2, <2>3
<1>2. Init => DeliverInv /\ KeptInv /\ TrashFits
  BY InitDeliver, InitKept
<1>3. DeliverInv /\ KeptInv /\ TrashFits /\ [Next]_vars => (DeliverInv /\ KeptInv /\ TrashFits)'
  BY NextDeliver, NextKept
<1> QED BY <1>1, <1>2, <1>3, PTL DEF Spec

-----------------------------------------------------------------------------
(* What a device that has read the feed shows.                             *)

Says(rs, r) == TextOf(rs[r].content)

\* What a revision was built on is in it, or was given up.
PastShown(rs, given) ==
    \A r \in 1..Len(rs) : \A p \in rs[r].past \cup rs[r].parents : Says(rs, p) \subseteq Says(rs, r) \cup given

\* The server takes a revision once, after its parents.
LogOrdered(rs, lg) ==
    /\ \A i, j \in 1..Len(lg) : lg[i] = lg[j] => i = j
    /\ \A i \in 1..Len(lg) : \A p \in rs[lg[i]].parents : \E j \in 1..(i - 1) : lg[j] = p

\* The edits of the mapping, and of the device's own revisions, are in the file.
BaseShown(s, given) == s.head # 0 => TextOf(s.base) \subseteq TextOf(s.hash) \cup given
MineShown(s, rs, shown) == \A q \in s.authored \cup s.queue : Says(rs, q) \subseteq shown
Standing(s, rs, file, given) ==
    /\ TextOf(s.hash) \subseteq TextOf(file) \cup given
    /\ BaseShown(s, given)
    /\ MineShown(s, rs, TextOf(file) \cup given)

\* What an apply has adopted and not written yet.
Coming(t, rs) == IF t.step \in {"prewrite", "write", "merge"} THEN Says(rs, t.rev) ELSE {}

\* An apply in the middle: what it writes holds what it writes over.
ApplyShown(s, t, rs, file, given) ==
    /\ TextOf(s.hash) \subseteq TextOf(file) \cup given \cup Coming(t, rs)
    /\ t.step \in {"prewrite", "write", "trash"} => s.queue = Undone(s).queue
    /\ t.step = "prewrite" =>
         file = Gone \/ TextOf(s.base) \cup TextOf(t.clean) \subseteq Says(rs, t.rev) \cup given
    /\ t.step \in {"write", "merge"} => TextOf(t.seen) \subseteq TextOf(t.text) \cup given
    /\ t.step = "merge" => /\ s.queue \subseteq Undone(s).queue \cup {s.head}
                           /\ Says(rs, t.rev) \subseteq TextOf(t.text) \cup given
                           /\ BaseShown(s, given)
    /\ t.step = "trash" => rs[t.rev].content = Gone
    /\ t.step = "record" => /\ MineShown(s, rs, TextOf(file) \cup given)
                            /\ Says(rs, t.rev) \subseteq TextOf(file) \cup given
                            /\ t.from = "write" => s.hash = rs[t.rev].content
                            /\ t.from = "merge" => BaseShown(s, given)

\* What the device has read is shown, or also in what it has not read.
FeedShown(s, t, rs, lg, shown) ==
    /\ s.cursor <= Len(lg)
    /\ t.step # "idle" => s.cursor < Len(lg) /\ t.rev = lg[s.cursor + 1]
    /\ t.step = "advance" => Says(rs, t.rev) \subseteq shown
    /\ \A i \in 1..Len(lg) : \A x \in Says(rs, lg[i]) :
         x \in shown \/ \E j \in (s.cursor + 1)..Len(lg) : x \in Says(rs, lg[j])

Showing(d) == TextOf(disk[d]) \cup Copied(d) \cup GivenUp

DeviceShown(d) ==
    /\ store[d].authored \subseteq Accepted
    /\ Standing(Undone(store[d]), revs, disk[d], GivenUp)
    /\ ApplyShown(store[d], task[d], revs, disk[d], GivenUp)
    /\ FeedShown(store[d], task[d], revs, log, Showing(d))

ShownInv ==
    kind = "note" =>
      /\ PastShown(revs, GivenUp) /\ LogOrdered(revs, log)
      /\ \A d \in Devices : DeviceShown(d)

-----------------------------------------------------------------------------
(* What is shown stays shown while revisions are added and more is given   *)
(* up.                                                                     *)

LEMMA UndoneKeeps ==
  ASSUME NEW s, IsStore(s)
  PROVE  /\ Undone(s).authored = s.authored /\ Undone(s).cursor = s.cursor
BY DEF IsStore, Undone

LEMMA StandingStays ==
  ASSUME NEW s, NEW rs, NEW rs2, NEW file, NEW file2, NEW given, NEW given2,
         Grows(rs, rs2), given \subseteq given2,
         TextOf(file) \subseteq TextOf(file2) \cup given2,
         s.authored \cup s.queue \subseteq 1..Len(rs),
         Standing(s, rs, file, given)
  PROVE  Standing(s, rs2, file2, given2)
<1>1. \A q \in s.authored \cup s.queue : Says(rs2, q) = Says(rs, q)
  BY DEF Grows, Says
<1>2. MineShown(s, rs2, TextOf(file2) \cup given2)
  BY <1>1 DEF Standing, MineShown
<1> QED BY <1>2 DEF Standing, BaseShown

LEMMA ApplyShownStays ==
  ASSUME NEW s, NEW t, NEW rs, NEW rs2, NEW acc, NEW file, NEW file2, NEW given, NEW given2,
         Grows(rs, rs2), given \subseteq given2, acc \subseteq 1..Len(rs),
         TextOf(file) \subseteq TextOf(file2) \cup given2, file = Gone => file2 = Gone,
         s.authored \cup s.queue \subseteq 1..Len(rs), TaskFits(s, t, rs, acc),
         ApplyShown(s, t, rs, file, given)
  PROVE  ApplyShown(s, t, rs2, file2, given2)
<1>1. t.step # "idle" => Says(rs2, t.rev) = Says(rs, t.rev) /\ rs2[t.rev] = rs[t.rev]
  BY DEF Grows, Says, TaskFits
<1>2. Coming(t, rs2) = Coming(t, rs)
  BY <1>1 DEF Coming
<1>3. \A q \in s.authored \cup s.queue : Says(rs2, q) = Says(rs, q)
  BY DEF Grows, Says
<1>4. MineShown(s, rs, TextOf(file) \cup given) => MineShown(s, rs2, TextOf(file2) \cup given2)
  BY <1>3 DEF MineShown
<1>5. BaseShown(s, given) => BaseShown(s, given2)
  BY DEF BaseShown
<1> QED BY <1>1, <1>2, <1>4, <1>5 DEF ApplyShown

LEMMA FeedShownStays ==
  ASSUME NEW s, NEW t, NEW rs, NEW rs2, NEW acc, NEW lg, NEW lg2, NEW shown, NEW shown2,
         Grows(rs, rs2), acc \subseteq 1..Len(rs), s.cursor \in Nat, TaskFits(s, t, rs, acc),
         Len(lg) \in Nat, Len(lg2) \in Nat, Len(lg) <= Len(lg2),
         \A i \in 1..Len(lg) : lg2[i] = lg[i] /\ lg[i] \in 1..Len(rs),
         shown \subseteq shown2, FeedShown(s, t, rs, lg, shown)
  PROVE  FeedShown(s, t, rs2, lg2, shown2)
<1>1. t.step # "idle" => Says(rs2, t.rev) = Says(rs, t.rev)
  BY DEF Grows, Says, TaskFits
<1>2. \A i \in 1..Len(lg) : Says(rs2, lg2[i]) = Says(rs, lg[i])
  BY DEF Grows, Says
<1>3. s.cursor <= Len(lg2)
  BY DEF FeedShown
<1>4. t.step # "idle" => s.cursor < Len(lg2) /\ t.rev = lg2[s.cursor + 1]
  BY DEF FeedShown
<1>5. ASSUME NEW i \in 1..Len(lg2), NEW x \in Says(rs2, lg2[i])
      PROVE  x \in shown2 \/ \E j \in (s.cursor + 1)..Len(lg2) : x \in Says(rs2, lg2[j])
  <2>1. CASE i \in 1..Len(lg)
    <3>1. x \in shown \/ \E j \in (s.cursor + 1)..Len(lg) : x \in Says(rs, lg[j])
      BY <1>2, <1>5, <2>1 DEF FeedShown
    <3>2. \A j \in (s.cursor + 1)..Len(lg) : j \in (s.cursor + 1)..Len(lg2) /\ j \in 1..Len(lg)
      OBVIOUS
    <3> QED BY <1>2, <3>1, <3>2
  <2>2. CASE i \notin 1..Len(lg)
    <3>1. i \in (s.cursor + 1)..Len(lg2)
      BY <2>2 DEF FeedShown
    <3> QED BY <1>5, <3>1
  <2> QED BY <2>1, <2>2
<1>6. t.step = "advance" => Says(rs2, t.rev) \subseteq shown2
  BY <1>1 DEF FeedShown
<1> QED BY <1>3, <1>4, <1>5, <1>6 DEF FeedShown

\* What a device has stored and is doing, in the ranges the lemmas above ask for.
LEMMA DeviceRanges ==
  ASSUME DeliverInv, ShownInv, kind = "note", NEW d \in Devices
  PROVE  /\ store[d].cursor \in Nat /\ TaskFits(store[d], task[d], revs, Accepted)
         /\ store[d].authored \cup store[d].queue \subseteq 1..Len(revs)
         /\ Undone(store[d]).authored \cup Undone(store[d]).queue \subseteq 1..Len(revs)
         /\ Undone(store[d]).authored = store[d].authored
         /\ Undone(store[d]).cursor = store[d].cursor
<1>1. Fits(store[d], task[d], revs, Accepted) /\ store[d].authored \subseteq Accepted
  BY DEF DeliverInv, ShownInv, DeviceShown
<1>2. IsStore(store[d]) /\ Sound(store[d], revs, Accepted) /\ Sound(Undone(store[d]), revs, Accepted)
  BY <1>1 DEF Fits
<1>3. Accepted \subseteq 1..Len(revs)
  BY Same
<1>4. store[d].cursor \in Nat
  BY <1>2 DEF IsStore
<1> QED BY <1>1, <1>2, <1>3, <1>4, UndoneKeeps DEF Fits, Sound

LEMMA LogFits ==
  ASSUME DeliverInv
  PROVE  Len(log) \in Nat /\ \A i \in 1..Len(log) : log[i] \in Accepted /\ log[i] \in 1..Len(revs)
<1>1. log \in Seq(1..Len(revs)) /\ Accepted \subseteq 1..Len(revs)
  BY Same DEF DeliverInv
<1>2. Len(log) \in Nat /\ DOMAIN log = 1..Len(log)
  BY <1>1
<1> QED BY <1>1, <1>2 DEF Accepted, Range

\* A step of one device shows no less on the others.
LEMMA ShownStep ==
  ASSUME DeliverInv, ShownInv, kind = "note", NEW d \in Devices, NEW s, NEW t,
         Grows(revs, revs'), GivenUp \subseteq GivenUp', Accepted \subseteq Accepted',
         PastShown(revs', GivenUp'), LogOrdered(revs', log'),
         Len(log') \in Nat, Len(log) <= Len(log'), \A i \in 1..Len(log) : log'[i] = log[i],
         store' = [store EXCEPT ![d] = s], task' = [task EXCEPT ![d] = t],
         \A e \in Devices : e # d => disk'[e] = disk[e] /\ copies'[e] = copies[e],
         s.authored \subseteq Accepted',
         Standing(Undone(s), revs', disk'[d], GivenUp'),
         ApplyShown(s, t, revs', disk'[d], GivenUp'),
         FeedShown(s, t, revs', log', Showing(d)')
  PROVE  ShownInv'
<1>1. /\ store'[d] = s /\ task'[d] = t
      /\ \A e \in Devices : e # d => store'[e] = store[e] /\ task'[e] = task[e]
  BY DEF DeliverInv
<1>2. ASSUME NEW e \in Devices, e # d
      PROVE  DeviceShown(e)'
  <2> DEFINE o == store[e]
  <2>1. /\ o.authored \subseteq Accepted
        /\ Standing(Undone(o), revs, disk[e], GivenUp)
        /\ ApplyShown(o, task[e], revs, disk[e], GivenUp)
        /\ FeedShown(o, task[e], revs, log, Showing(e))
    BY DEF ShownInv, DeviceShown
  <2>2. /\ o.cursor \in Nat /\ TaskFits(o, task[e], revs, Accepted)
        /\ o.authored \cup o.queue \subseteq 1..Len(revs)
        /\ Undone(o).authored \cup Undone(o).queue \subseteq 1..Len(revs)
    BY DeviceRanges
  <2>3. Accepted \subseteq 1..Len(revs) /\ copies[e] \subseteq Accepted
    BY Same DEF DeliverInv
  <2>4. disk'[e] = disk[e] /\ copies'[e] = copies[e] /\ store'[e] = o /\ task'[e] = task[e]
    BY <1>1, <1>2
  <2>5. TextOf(disk[e]) \subseteq TextOf(disk[e]) \cup GivenUp'
    OBVIOUS
  <2> HIDE DEF o
  <2>6. Standing(Undone(o), revs', disk[e], GivenUp')
    BY <2>1, <2>2, <2>5, StandingStays
  <2>7. ApplyShown(o, task[e], revs', disk[e], GivenUp')
    BY <2>1, <2>2, <2>3, <2>5, ApplyShownStays
  <2>8. Showing(e) \subseteq Showing(e)'
    <3>1. \A r \in copies[e] : revs'[r].content = revs[r].content
      BY <2>3 DEF Grows
    <3>2. Copied(e)' = Copied(e)
      BY <2>4, <3>1 DEF Copied, Edits, Content
    <3> QED BY <2>4, <3>2 DEF Showing
  <2>9. FeedShown(o, task[e], revs', log', Showing(e)')
    <3> DEFINE S1 == Showing(e)
               S2 == Showing(e)'
    <3>1. S1 \subseteq S2 /\ FeedShown(o, task[e], revs, log, S1)
      BY <2>1, <2>8
    <3> HIDE DEF S1, S2
    <3>2. FeedShown(o, task[e], revs', log', S2)
      BY <2>2, <2>3, <3>1, LogFits, FeedShownStays
    <3> QED BY <3>2 DEF S2
  <2> QED BY <2>1, <2>4, <2>6, <2>7, <2>9 DEF DeviceShown
<1>3. DeviceShown(d)'
  BY <1>1 DEF DeviceShown
<1> QED BY <1>2, <1>3 DEF ShownInv

\* A step that leaves the files and the feed alone.
LEMMA ShownQuiet ==
  ASSUME DeliverInv, ShownInv, kind = "note", NEW d \in Devices, NEW s, NEW t,
         Grows(revs, revs'), PastShown(revs', GivenUp),
         UNCHANGED <<log, disk, dropped, trash>>, KeepTask(d, s), Goto(d, t),
         \A e \in Devices : copies[e] \subseteq copies'[e] /\ (e # d => copies'[e] = copies[e]),
         s.authored \subseteq Accepted,
         Standing(Undone(s), revs', disk[d], GivenUp),
         ApplyShown(s, t, revs', disk[d], GivenUp),
         FeedShown(s, t, revs', log, Showing(d)')
  PROVE  ShownInv'
<1>1. GivenUp' = GivenUp /\ Accepted' = Accepted /\ Len(log) \in Nat
  BY LogFits DEF GivenUp, Accepted
<1>2. LogOrdered(revs', log)
  <2>1. \A i \in 1..Len(log) : revs'[log[i]] = revs[log[i]]
    BY LogFits DEF Grows
  <2> QED BY <2>1 DEF ShownInv, LogOrdered
<1>3. /\ log' = log /\ disk' = disk /\ store' = [store EXCEPT ![d] = s] /\ task' = [task EXCEPT ![d] = t]
      /\ \A e \in Devices : e # d => disk'[e] = disk[e] /\ copies'[e] = copies[e]
  BY DEF KeepTask, Goto
<1>4. Len(log') \in Nat /\ Len(log) <= Len(log') /\ \A i \in 1..Len(log) : log'[i] = log[i]
  BY <1>1, <1>3
<1>5. /\ Standing(Undone(s), revs', disk'[d], GivenUp') /\ ApplyShown(s, t, revs', disk'[d], GivenUp')
      /\ PastShown(revs', GivenUp') /\ LogOrdered(revs', log') /\ s.authored \subseteq Accepted'
  BY <1>1, <1>2, <1>3
<1>6. FeedShown(s, t, revs', log', Showing(d)')
  BY <1>3
<1>7. GivenUp \subseteq GivenUp' /\ Accepted \subseteq Accepted'
  BY <1>1
<1> QED BY <1>3, <1>4, <1>5, <1>6, <1>7, ShownStep

\* A step of the files only.
LEMMA FileShownStep ==
  ASSUME DeliverInv, ShownInv, kind = "note", NEW d \in Devices,
         UNCHANGED <<revs, log, store, task>>, GivenUp \subseteq GivenUp',
         \A e \in Devices : e # d => disk'[e] = disk[e] /\ copies'[e] = copies[e],
         TextOf(disk[d]) \subseteq TextOf(disk'[d]) \cup GivenUp', disk[d] = Gone => disk'[d] = Gone,
         FeedShown(store[d], task[d], revs, log, Showing(d)')
  PROVE  ShownInv'
<1> DEFINE s == store[d]
           t == task[d]
<1>1. /\ s.authored \subseteq Accepted
      /\ Standing(Undone(s), revs, disk[d], GivenUp)
      /\ ApplyShown(s, t, revs, disk[d], GivenUp)
      /\ PastShown(revs, GivenUp) /\ LogOrdered(revs, log)
  BY DEF ShownInv, DeviceShown
<1>2. /\ TaskFits(s, t, revs, Accepted)
      /\ s.authored \cup s.queue \subseteq 1..Len(revs)
      /\ Undone(s).authored \cup Undone(s).queue \subseteq 1..Len(revs)
  BY DeviceRanges
<1>3. Grows(revs, revs) /\ Accepted \subseteq 1..Len(revs) /\ Accepted' = Accepted /\ Len(log) \in Nat
  BY Same, LogFits DEF Accepted
<1>4. store' = [store EXCEPT ![d] = s] /\ task' = [task EXCEPT ![d] = t]
  BY DEF DeliverInv
<1>5. PastShown(revs, GivenUp')
  BY <1>1 DEF PastShown
<1> HIDE DEF s, t
<1>6. Standing(Undone(s), revs, disk'[d], GivenUp')
  BY <1>1, <1>2, <1>3, StandingStays
<1>7. ApplyShown(s, t, revs, disk'[d], GivenUp')
  BY <1>1, <1>2, <1>3, ApplyShownStays
<1>8. FeedShown(s, t, revs, log, Showing(d)')
  BY DEF s, t
<1>9. revs' = revs /\ log' = log
  OBVIOUS
<1>10. /\ Standing(Undone(s), revs', disk'[d], GivenUp') /\ ApplyShown(s, t, revs', disk'[d], GivenUp')
       /\ PastShown(revs', GivenUp') /\ LogOrdered(revs', log') /\ s.authored \subseteq Accepted'
       /\ Grows(revs, revs') /\ Accepted \subseteq Accepted'
  BY <1>1, <1>3, <1>5, <1>6, <1>7, <1>9
<1>11. FeedShown(s, t, revs', log', Showing(d)')
  BY <1>8, <1>9
<1>12. Len(log') \in Nat /\ Len(log) <= Len(log') /\ \A i \in 1..Len(log) : log'[i] = log[i]
  BY <1>3, <1>9
<1> QED BY <1>4, <1>10, <1>11, <1>12, ShownStep

\* Outside of an apply the mapping stands for the file.
LEMMA RestShown ==
  ASSUME DeliverInv, ShownInv, kind = "note", NEW d \in Devices, task[d].step \in {"idle", "advance"}
  PROVE  Standing(store[d], revs, disk[d], GivenUp)
<1>1. IsStore(store[d]) /\ ~store[d].journal.open
  BY AtRest
<1>2. Undone(store[d]) = store[d]
  BY <1>1, UndoneStore
<1> QED BY <1>2 DEF ShownInv, DeviceShown

LEMMA StandingApply ==
  ASSUME NEW s, NEW t, NEW rs, NEW file, NEW given, IsStore(s), ~s.journal.open,
         Standing(s, rs, file, given), t.step \in {"idle", "advance"}
  PROVE  Standing(Undone(s), rs, file, given) /\ ApplyShown(s, t, rs, file, given)
<1>1. Undone(s) = s
  BY UndoneStore
<1>2. Coming(t, rs) = {}
  BY DEF Coming
<1>3. TextOf(s.hash) \subseteq TextOf(file) \cup given
  BY DEF Standing
<1> QED BY <1>1, <1>2, <1>3 DEF ApplyShown

\* A step that ends outside of an apply.
LEMMA ShownRest ==
  ASSUME DeliverInv, ShownInv, kind = "note", NEW d \in Devices, NEW s, NEW t,
         Grows(revs, revs'), PastShown(revs', GivenUp),
         UNCHANGED <<log, disk, dropped, trash>>, KeepTask(d, s), Goto(d, t),
         \A e \in Devices : copies[e] \subseteq copies'[e] /\ (e # d => copies'[e] = copies[e]),
         IsStore(s), ~s.journal.open, s.authored \subseteq Accepted,
         Standing(s, revs', disk[d], GivenUp), t.step \in {"idle", "advance"},
         FeedShown(s, t, revs', log, Showing(d)')
  PROVE  ShownInv'
BY StandingApply, ShownQuiet

\* The feed does not depend on the mapping, nor on what an apply is about to do.
LEMMA FeedTask ==
  ASSUME NEW s, NEW t, NEW s2, NEW t2, NEW rs, NEW lg, NEW shown, FeedShown(s, t, rs, lg, shown),
         s2.cursor = s.cursor,
         t2.step # "idle" => s.cursor < Len(lg) /\ t2.rev = lg[s.cursor + 1],
         t2.step = "advance" => Says(rs, t2.rev) \subseteq shown
  PROVE  FeedShown(s2, t2, rs, lg, shown)
BY DEF FeedShown

\* One revision on.
LEMMA FeedNext ==
  ASSUME NEW s, NEW t, NEW s2, NEW rs, NEW lg, NEW shown, s.cursor \in Nat, Len(lg) \in Nat,
         FeedShown(s, t, rs, lg, shown), s.cursor < Len(lg), s2.cursor = s.cursor + 1,
         \A x \in Says(rs, lg[s.cursor + 1]) :
           x \in shown \/ \E j \in (s.cursor + 2)..Len(lg) : x \in Says(rs, lg[j])
  PROVE  FeedShown(s2, Idle, rs, lg, shown)
<1>1. ASSUME NEW i \in 1..Len(lg), NEW x \in Says(rs, lg[i])
      PROVE  x \in shown \/ \E j \in (s2.cursor + 1)..Len(lg) : x \in Says(rs, lg[j])
  <2>1. x \in shown \/ \E j \in (s.cursor + 1)..Len(lg) : x \in Says(rs, lg[j])
    BY <1>1 DEF FeedShown
  <2>2. CASE x \in shown
    BY <2>2
  <2>3. CASE x \notin shown
    <3>1. PICK j \in (s.cursor + 1)..Len(lg) : x \in Says(rs, lg[j])
      BY <2>1, <2>3
    <3>2. CASE j = s.cursor + 1
      <4>1. PICK k \in (s.cursor + 2)..Len(lg) : x \in Says(rs, lg[k])
        BY <2>3, <3>1, <3>2
      <4>2. k \in (s2.cursor + 1)..Len(lg)
        BY <4>1
      <4> QED BY <4>1, <4>2
    <3>3. CASE j # s.cursor + 1
      <4>1. j \in (s2.cursor + 1)..Len(lg)
        BY <3>1, <3>3
      <4> QED BY <3>1, <4>1
    <3> QED BY <3>2, <3>3
  <2> QED BY <2>2, <2>3
<1> QED BY <1>1, IdleStep DEF FeedShown

\* What a device has read, after a step that adds revisions and shows no less.
LEMMA FeedKeeps ==
  ASSUME DeliverInv, ShownInv, kind = "note", NEW d \in Devices, Grows(revs, revs'),
         UNCHANGED <<log, disk, dropped, trash>>, copies[d] \subseteq copies'[d]
  PROVE  /\ FeedShown(store[d], task[d], revs', log, Showing(d)')
         /\ Showing(d) \subseteq Showing(d)'
<1> DEFINE S1 == Showing(d)
           S2 == Showing(d)'
<1>1. copies[d] \subseteq 1..Len(revs)
  BY Same DEF DeliverInv
<1>2. Copied(d) \subseteq Copied(d)'
  <2>1. \A r \in copies[d] : revs'[r].content = revs[r].content
    BY <1>1 DEF Grows
  <2> QED BY <2>1 DEF Copied, Edits, Content
<1>3. S1 \subseteq S2
  BY <1>2 DEF Showing, GivenUp
<1>4. FeedShown(store[d], task[d], revs, log, S1)
  BY DEF ShownInv, DeviceShown
<1>5. /\ store[d].cursor \in Nat /\ TaskFits(store[d], task[d], revs, Accepted)
      /\ Accepted \subseteq 1..Len(revs) /\ Len(log) \in Nat
      /\ \A i \in 1..Len(log) : log[i] \in 1..Len(revs)
  BY DeviceRanges, LogFits, Same
<1> HIDE DEF S1, S2
<1>6. Len(log) <= Len(log) /\ \A i \in 1..Len(log) : log[i] = log[i] /\ log[i] \in 1..Len(revs)
  BY <1>5
<1>7. FeedShown(store[d], task[d], revs', log, S2)
  <2> HIDE DEF S1, S2
  <2> QED BY <1>3, <1>4, <1>5, <1>6, FeedShownStays
<1> QED BY <1>3, <1>7 DEF S1, S2

\* A new revision that holds what its parents hold.
LEMMA NewPast ==
  ASSUME NEW rs, NEW rs2, NEW parents, NEW given, PastShown(rs, given), RevisionsFit(rs), RevisionsFit(rs2),
         Grows(rs, rs2), Len(rs2) = Len(rs) + 1, rs2[Len(rs) + 1].parents = parents,
         parents \subseteq 1..Len(rs),
         \A p \in parents : Says(rs, p) \subseteq Says(rs2, Len(rs) + 1) \cup given
  PROVE  PastShown(rs2, given)
<1> DEFINE n == Len(rs) + 1
<1>1. \A r \in 1..Len(rs) : rs2[r] = rs[r] /\ Says(rs2, r) = Says(rs, r)
  BY DEF Grows, Says
<1>2. ASSUME NEW r \in 1..Len(rs2), NEW p \in rs2[r].past \cup rs2[r].parents
      PROVE  Says(rs2, p) \subseteq Says(rs2, r) \cup given
  <2>4. rs2[n].parents = parents
    OBVIOUS
  <2>1. CASE r \in 1..Len(rs)
    <3>1. p \in rs[r].past \cup rs[r].parents
      BY <1>1, <1>2, <2>1
    <3>2. p \in 1..Len(rs)
      BY <2>1, <3>1 DEF RevisionsFit, Grows
    <3> QED BY <1>1, <2>1, <3>1, <3>2 DEF PastShown
  <2>2. CASE r = n
    <3>1. CASE p = n
      BY <2>2, <3>1
    <3>2. CASE p \in parents
      BY <1>1, <2>2, <3>2
    <3>3. CASE \E q \in parents : p \in rs2[q].past
      <4>1. PICK q \in parents : p \in rs2[q].past
        BY <3>3
      <4>2. q \in 1..Len(rs) /\ p \in rs[q].past
        BY <1>1, <4>1
      <4>3. p \in 1..Len(rs)
        BY <4>2 DEF RevisionsFit, Grows
      <4>4. Says(rs, p) \subseteq Says(rs, q) \cup given
        BY <4>2 DEF PastShown
      <4> QED BY <1>1, <2>2, <4>1, <4>3, <4>4
    <3>4. rs2[r].past \subseteq {r} \cup UNION {rs2[q].past : q \in rs2[r].parents}
      BY DEF RevisionsFit
    <3>5. p \in parents \/ p \in {n} \cup UNION {rs2[q].past : q \in parents}
      BY <1>2, <2>2, <2>4, <3>4
    <3>6. p \in parents \/ p = n \/ \E q \in parents : p \in rs2[q].past
      BY <3>5
    <3> QED BY <3>1, <3>2, <3>3, <3>6
  <2>3. r \in 1..Len(rs) \/ r = n
    BY DEF Grows
  <2> QED BY <2>1, <2>2, <2>3
<1> QED BY <1>2 DEF PastShown

-----------------------------------------------------------------------------
(* A merge shows both sides.                                               *)

LEMMA MergeTextShows ==
  ASSUME NEW anc, NEW mine, NEW theirs, NEW given, NEW known,
         MergeText(anc, mine, theirs) # Conflict,
         anc \subseteq theirs \cup given, anc \subseteq known \cup given
  PROVE  /\ mine \subseteq MergeText(anc, mine, theirs) \cup given
         /\ theirs \subseteq MergeText(anc, mine, theirs) \cup given \cup (known \ mine)
         /\ MergeText(anc, mine, theirs) \subseteq mine \cup theirs
<1>1. MergeText(anc, mine, theirs) = (mine \cap theirs) \cup (mine \ anc) \cup (theirs \ anc)
  BY DEF MergeText
<1> QED BY <1>1

LEMMA TextIsText == \A text \in Text : text # Gone /\ TextOf(text) = text
BY VaultApplyAssumption DEF Text, Edit, TextOf

LEMMA MergeShows ==
  ASSUME DeliverInv, NEW given, PastShown(revs, given), NEW d \in Devices, NEW r \in Accepted,
         NEW mine \in Text, Content(r) # Gone, MergeOver(d, r, mine) # Conflict
  PROVE  /\ mine \subseteq MergeOver(d, r, mine) \cup given
         /\ MergeOver(d, r, mine) \subseteq mine \cup Content(r)
         /\ Content(r) \subseteq MergeOver(d, r, mine) \cup given \cup (TextOf(store[d].hash) \ mine)
         /\ MergeOver(d, r, mine) \in Text
<1> DEFINE head == store[d].head
           base == CommonAncestor(d, head, r)
           hash == store[d].hash
<1>1. /\ head # 0 /\ base # 0 /\ Content(base) # Gone
      /\ MergeOver(d, r, mine) = MergeText(Content(base), mine, Content(r))
  BY DEF MergeOver
<1>2. base \in Ancestors(Graph(d), head) \cap Ancestors(Graph(d), r) \cap Graph(d)
  BY <1>1, NearestIn DEF CommonAncestor
<1>3. /\ head \in Graph(d) /\ r \in Graph(d) /\ Content(head) = hash
      /\ head \in 1..Len(revs) /\ r \in 1..Len(revs)
  <2>1. Sound(store[d], revs, Accepted) /\ Accepted \subseteq 1..Len(revs)
    BY Same DEF DeliverInv, Fits
  <2> QED BY <1>1, <2>1 DEF Sound, Graph, Queued, Content
<1>4. base \in revs[head].past /\ base \in revs[r].past
  BY <1>2, <1>3 DEF Ancestors
<1>5. Content(base) \subseteq TextOf(hash) \cup given /\ Content(base) \subseteq Content(r) \cup given
  <2>1. Says(revs, base) \subseteq Says(revs, head) \cup given /\ Says(revs, base) \subseteq Says(revs, r) \cup given
    BY <1>3, <1>4 DEF PastShown
  <2>2. Says(revs, base) = Content(base) /\ Says(revs, r) = Content(r) /\ Says(revs, head) = TextOf(hash)
    BY <1>1, <1>3 DEF Says, Content, TextOf
  <2> QED BY <2>1, <2>2
<1>6. MergeOver(d, r, mine) \in Text
  BY <1>3, MergedText
<1> HIDE DEF head, base, hash
<1>7. MergeText(Content(base), mine, Content(r)) # Conflict
  BY <1>1
<1>8. /\ mine \subseteq MergeText(Content(base), mine, Content(r)) \cup given
      /\ Content(r) \subseteq MergeText(Content(base), mine, Content(r)) \cup given \cup (TextOf(hash) \ mine)
      /\ MergeText(Content(base), mine, Content(r)) \subseteq mine \cup Content(r)
  BY <1>5, <1>7, MergeTextShows
<1> QED BY <1>1, <1>6, <1>8 DEF hash

-----------------------------------------------------------------------------
(* Committing, pushing and reading.                                        *)

LEMMA ObserveShown ==
  ASSUME DeliverInv, ShownInv, kind = "note", NEW d \in Devices, Observe(d)
  PROVE  ShownInv'
<1> DEFINE s == store[d]
           n == Len(revs) + 1
           u == Committed(d)
           G == GivenUp
<1>1. /\ task[d] = Idle /\ s.hash # Gone /\ NewRevision({s.head} \ {0}, disk[d])
      /\ store' = [store EXCEPT ![d] = u]
      /\ UNCHANGED <<kind, log, disk, typed, task, edits, copies, dropped, trash>>
  BY DEF Observe
<1>2. /\ IsStore(s) /\ ~s.journal.open /\ Sound(s, revs, Accepted)
      /\ s.head # 0 => s.head \in Graph(d) /\ s.head \in 1..Len(revs)
  BY <1>1, AtRest, IdleStep
<1>3. disk[d] \in Text \cup {Gone} /\ RevisionsFit(revs)
  BY DEF DeliverInv
<1>4. /\ Grows(revs, revs') /\ RevisionsFit(revs')
      /\ Len(revs) \in Nat /\ Len(revs') = n
      /\ revs'[n].parents = {s.head} \ {0} /\ revs'[n].content = disk[d]
  <2>1. {s.head} \ {0} \subseteq 1..Len(revs)
    BY <1>2
  <2> QED BY <1>1, <1>3, <2>1, AtMostOne, NewFits
<1>5. s.head # 0 /\ revs[s.head].content = s.hash
  BY <1>1, <1>2 DEF Sound
<1>6. Standing(s, revs, disk[d], G) /\ PastShown(revs, G) /\ s.authored \subseteq Accepted
  BY <1>1, RestShown, IdleStep DEF ShownInv, DeviceShown
<1>7. PastShown(revs', G)
  <2>1. \A p \in {s.head} \ {0} : Says(revs, p) \subseteq Says(revs', n) \cup G
    BY <1>4, <1>5, <1>6 DEF Standing, Says
  <2>2. {s.head} \ {0} \subseteq 1..Len(revs)
    BY <1>2
  <2> HIDE DEF s, G
  <2> QED BY <1>3, <1>4, <1>6, <2>1, <2>2, NewPast
<1>8. /\ IsStore(u) /\ u.journal = s.journal /\ u.authored = s.authored /\ u.cursor = s.cursor
      /\ u.queue = s.queue \cup {n}
      /\ disk[d] = Gone => u.head = 0 /\ u.hash = Gone /\ u.base = Gone
      /\ disk[d] # Gone => u.hash = disk[d] /\ u.base \in {s.base, disk[d]}
  <2>1. CASE disk[d] = Gone
    <3>1. u = [s EXCEPT !.head = 0, !.hash = Gone, !.base = Gone, !.owner = FALSE,
                        !.queue = @ \cup {n}]
      BY <2>1 DEF Committed
    <3> HIDE DEF s, n, u
    <3> QED BY <1>2, <2>1, <3>1 DEF IsStore
  <2>2. CASE disk[d] # Gone
    <3>1. u = [s EXCEPT !.head = n, !.hash = disk[d], !.owner = TRUE, !.queue = @ \cup {n},
                        !.base = IF @ = Gone THEN disk[d] ELSE @]
      BY <2>2 DEF Committed
    <3> HIDE DEF s, n, u
    <3> QED BY <1>2, <2>2, <3>1 DEF IsStore
  <2> QED BY <2>1, <2>2
<1>9. Standing(u, revs', disk[d], G)
  <2> HIDE DEF u, s, G
  <2>1. \A q \in s.authored \cup s.queue : q \in 1..Len(revs)
    BY <1>2, <1>6, Same DEF Sound
  <2>2. \A q \in s.authored \cup s.queue : Says(revs', q) = Says(revs, q)
    BY <1>4, <2>1 DEF Grows, Says
  <2>3. Says(revs', n) = TextOf(disk[d])
    BY <1>4 DEF Says
  <2>4. MineShown(u, revs', TextOf(disk[d]) \cup G)
    BY <1>6, <1>8, <2>2, <2>3 DEF Standing, MineShown
  <2>5. TextOf(s.base) \subseteq TextOf(disk[d]) \cup G
    BY <1>5, <1>6 DEF Standing, BaseShown
  <2>6. TextOf(u.hash) \subseteq TextOf(disk[d]) \cup G /\ TextOf(u.base) \subseteq TextOf(u.hash) \cup G
    BY <1>8, <2>5 DEF TextOf
  <2> QED BY <2>4, <2>6 DEF Standing, BaseShown
<1>10. FeedShown(u, Idle, revs', log, Showing(d)')
  <2> DEFINE S2 == Showing(d)'
  <2>1. FeedShown(s, task[d], revs', log, S2)
    BY <1>1, <1>4, FeedKeeps
  <2> HIDE DEF S2, u, s
  <2>2. FeedShown(u, Idle, revs', log, S2)
    BY <1>8, <2>1, IdleStep, FeedTask
  <2> QED BY <2>2 DEF S2
<1>11. KeepTask(d, u) /\ Goto(d, Idle)
  BY <1>1 DEF KeepTask, Goto, DeliverInv
<1>12. \A e \in Devices : copies[e] \subseteq copies'[e] /\ (e # d => copies'[e] = copies[e])
  BY <1>1
<1> HIDE DEF u
<1> QED BY <1>1, <1>2, <1>4, <1>6, <1>7, <1>8, <1>9, <1>10, <1>11, <1>12, IdleStep, ShownRest

\* The server takes a revision after its parents, and once.
LEMMA PushedOrder ==
  ASSUME DeliverInv, LogOrdered(revs, log), NEW r \in 1..Len(revs),
         log' = IF r \in Accepted THEN log ELSE Append(log, r),
         r \notin Accepted => revs[r].parents \subseteq Accepted
  PROVE  /\ LogOrdered(revs, log') /\ Len(log') \in Nat /\ Len(log) <= Len(log')
         /\ \A i \in 1..Len(log) : log'[i] = log[i]
<1>1. log \in Seq(1..Len(revs)) /\ Len(log) \in Nat
  BY LogFits DEF DeliverInv
<1>2. CASE r \in Accepted
  BY <1>1, <1>2
<1>3. CASE r \notin Accepted
  <2>1. /\ Len(log') = Len(log) + 1 /\ log'[Len(log) + 1] = r
        /\ \A i \in 1..Len(log) : log'[i] = log[i]
    <3> DEFINE S == 1..Len(revs)
    <3>1. log \in Seq(S) /\ r \in S /\ log' = Append(log, r)
      BY <1>1, <1>3
    <3> HIDE DEF S
    <3> QED BY <3>1
  <2>2. \A i \in 1..Len(log) : log[i] # r
    BY <1>3, LogFits
  <2>3. ASSUME NEW p \in Accepted PROVE \E j \in 1..Len(log) : log[j] = p
    BY <1>1 DEF Accepted, Range
  <2>4. \A i, j \in 1..Len(log') : log'[i] = log'[j] => i = j
    <3>1. \A i, j \in 1..Len(log) : log[i] = log[j] => i = j
      BY DEF LogOrdered
    <3>2. ASSUME NEW i \in 1..Len(log'), NEW j \in 1..Len(log'), log'[i] = log'[j]
          PROVE  i = j
      <4>1. i \in 1..Len(log) \/ i = Len(log) + 1
        BY <1>1, <2>1
      <4>2. j \in 1..Len(log) \/ j = Len(log) + 1
        BY <1>1, <2>1
      <4> QED BY <2>1, <2>2, <3>1, <3>2, <4>1, <4>2
    <3> QED BY <3>2
  <2>5. ASSUME NEW i \in 1..Len(log'), NEW p \in revs[log'[i]].parents
        PROVE  \E j \in 1..(i - 1) : log'[j] = p
    <3>1. CASE i \in 1..Len(log)
      <4>1. PICK j \in 1..(i - 1) : log[j] = p
        BY <2>1, <2>5, <3>1 DEF LogOrdered
      <4>2. j \in 1..Len(log)
        BY <1>1, <3>1
      <4> QED BY <2>1, <4>1, <4>2
    <3>2. CASE i = Len(log) + 1
      <4>1. p \in Accepted
        BY <1>3, <2>1, <2>5, <3>2
      <4>2. PICK j \in 1..Len(log) : log[j] = p
        BY <2>3, <4>1
      <4>3. j \in 1..(i - 1)
        BY <1>1, <3>2
      <4> QED BY <2>1, <4>2, <4>3
    <3>3. i \in 1..Len(log) \/ i = Len(log) + 1
      BY <1>1, <2>1
    <3> QED BY <3>1, <3>2, <3>3
  <2>6. Len(log') \in Nat /\ Len(log) <= Len(log')
    BY <1>1, <2>1
  <2> QED BY <2>1, <2>4, <2>5, <2>6 DEF LogOrdered
<1> QED BY <1>2, <1>3

LEMMA PushShown ==
  ASSUME DeliverInv, ShownInv, kind = "note", NEW d \in Devices, NEW answered, Push(d, answered)
  PROVE  ShownInv'
<1>1. PICK r \in Sendable(d) :
        /\ task[d] = Idle
        /\ log' = IF r \in Accepted THEN log ELSE Append(log, r)
        /\ \/ store' = [store EXCEPT ![d].queue = @ \ {r}, ![d].authored = @ \cup {r}]
           \/ UNCHANGED store
        /\ UNCHANGED <<kind, revs, disk, typed, task, edits, copies, dropped, trash>>
  BY DEF Push
<1> DEFINE s == store[d]
           G == GivenUp
           v == [s EXCEPT !.queue = s.queue \ {r}, !.authored = s.authored \cup {r}]
<1>2. IsStore(s) /\ ~s.journal.open /\ Sound(s, revs, Accepted)
  BY <1>1, AtRest, IdleStep
<1>3. r \in s.queue /\ r \in 1..Len(revs) /\ (r \notin Accepted => revs[r].parents \subseteq Accepted)
  BY <1>1, <1>2 DEF Sendable, Acceptable, Queued, Sound
<1>4. Standing(s, revs, disk[d], G) /\ PastShown(revs, G) /\ s.authored \subseteq Accepted /\ LogOrdered(revs, log)
  BY <1>1, RestShown, IdleStep DEF ShownInv, DeviceShown
<1>5. /\ LogOrdered(revs, log') /\ Len(log') \in Nat /\ Len(log) <= Len(log')
      /\ \A i \in 1..Len(log) : log'[i] = log[i]
  BY <1>1, <1>3, <1>4, PushedOrder
<1>6. Accepted' = Accepted \cup {r}
  BY <1>1, <1>3, PushedLog
<1>7. G' = G /\ Showing(d)' = Showing(d)
  <2>1. GivenUp' = GivenUp
    BY <1>1 DEF GivenUp
  <2>2. Copied(d)' = Copied(d)
    BY <1>1 DEF Copied, Edits, Content
  <2> QED BY <1>1, <2>1, <2>2 DEF Showing
<1>8. FeedShown(s, Idle, revs, log', Showing(d))
  <2>1. FeedShown(s, Idle, revs, log, Showing(d))
    BY <1>1 DEF ShownInv, DeviceShown
  <2>2. /\ s.cursor \in Nat /\ TaskFits(s, Idle, revs, Accepted)
        /\ Accepted \subseteq 1..Len(revs) /\ Len(log) \in Nat /\ Grows(revs, revs)
        /\ \A i \in 1..Len(log) : log'[i] = log[i] /\ log[i] \in 1..Len(revs)
    BY <1>1, <1>5, DeviceRanges, LogFits, Same
  <2> DEFINE S1 == Showing(d)
  <2> HIDE DEF s, S1
  <2>3. FeedShown(s, Idle, revs, log', S1)
    BY <1>5, <2>1, <2>2, FeedShownStays DEF S1
  <2> QED BY <2>3 DEF S1
<1>9. ASSUME NEW u, store' = [store EXCEPT ![d] = u], IsStore(u), ~u.journal.open,
             u.authored \subseteq Accepted', Standing(u, revs, disk[d], G), u.cursor = s.cursor
      PROVE  ShownInv'
  <2>1. FeedShown(u, Idle, revs, log', Showing(d))
    <3> DEFINE S1 == Showing(d)
    <3> HIDE DEF s, S1
    <3>1. FeedShown(u, Idle, revs, log', S1)
      BY <1>8, <1>9, IdleStep, FeedTask DEF S1
    <3> QED BY <3>1 DEF S1
  <2>2. Standing(Undone(u), revs, disk[d], G) /\ ApplyShown(u, Idle, revs, disk[d], G)
    BY <1>9, IdleStep, StandingApply
  <2>3. task' = [task EXCEPT ![d] = Idle] /\ revs' = revs /\ Grows(revs, revs')
    BY <1>1, Same DEF DeliverInv
  <2>4. /\ Standing(Undone(u), revs', disk'[d], GivenUp') /\ ApplyShown(u, Idle, revs', disk'[d], GivenUp')
        /\ FeedShown(u, Idle, revs', log', Showing(d)')
        /\ PastShown(revs', GivenUp') /\ LogOrdered(revs', log')
    BY <1>1, <1>4, <1>5, <1>7, <2>1, <2>2, <2>3
  <2>5. GivenUp \subseteq GivenUp' /\ Accepted \subseteq Accepted'
    BY <1>6, <1>7
  <2>6. \A e \in Devices : e # d => disk'[e] = disk[e] /\ copies'[e] = copies[e]
    BY <1>1
  <2> QED BY <1>5, <1>9, <2>3, <2>4, <2>5, <2>6, ShownStep
<1>10. CASE UNCHANGED store
  <2>1. store' = [store EXCEPT ![d] = s]
    BY <1>10 DEF DeliverInv
  <2>2. s.authored \subseteq Accepted'
    BY <1>4, <1>6
  <2> HIDE DEF s
  <2> QED BY <1>2, <1>4, <1>9, <2>1, <2>2
<1>11. CASE store' = [store EXCEPT ![d].queue = @ \ {r}, ![d].authored = @ \cup {r}]
  <2>1. store' = [store EXCEPT ![d] = v]
    BY <1>2, <1>11 DEF IsStore, DeliverInv
  <2>2. v = [s EXCEPT !.queue = s.queue \ {r}, !.authored = s.authored \cup {r}]
    OBVIOUS
  <2> HIDE DEF s, v, G
  <2>3. /\ IsStore(v) /\ v.journal = s.journal /\ v.hash = s.hash /\ v.head = s.head /\ v.base = s.base
        /\ v.queue = s.queue \ {r} /\ v.authored = s.authored \cup {r} /\ v.cursor = s.cursor
    BY <1>2, <2>2 DEF IsStore
  <2>4. Standing(v, revs, disk[d], G)
    BY <1>3, <1>4, <2>3 DEF Standing, BaseShown, MineShown
  <2>5. v.authored \subseteq Accepted'
    BY <1>4, <1>6, <2>3
  <2> QED BY <1>2, <1>9, <2>1, <2>3, <2>4, <2>5
<1> QED BY <1>1, <1>10, <1>11

\* Reading on: what was read is shown, or something unread was built on it.
LEMMA ReadShown ==
  ASSUME DeliverInv, ShownInv, kind = "note", NEW d \in Devices, NEW u,
         task[d].step \in {"idle", "advance"}, store[d].cursor < Len(log),
         UNCHANGED <<revs, log, disk, copies, dropped, trash>>, KeepTask(d, u), Goto(d, Idle),
         \/ u = [store[d] EXCEPT !.cursor = store[d].cursor + 1]
         \/ \E r : u = Advanced(d, store[d], r),
         \A x \in Says(revs, log[store[d].cursor + 1]) :
           x \in Showing(d) \/ \E j \in (store[d].cursor + 2)..Len(log) : x \in Says(revs, log[j])
  PROVE  ShownInv'
<1> DEFINE s == store[d]
           G == GivenUp
<1>1. /\ IsStore(s) /\ ~s.journal.open /\ Standing(s, revs, disk[d], G) /\ s.authored \subseteq Accepted
      /\ PastShown(revs, G) /\ Grows(revs, revs')
  BY AtRest, RestShown, Same DEF ShownInv, DeviceShown
<1>2. /\ IsStore(u) /\ u.journal = s.journal /\ u.hash = s.hash /\ u.head = s.head /\ u.base = s.base
      /\ u.queue \subseteq s.queue /\ u.authored = s.authored /\ u.cursor = s.cursor + 1
  <2>1. CASE u = [store[d] EXCEPT !.cursor = store[d].cursor + 1]
    <3>1. u = [s EXCEPT !.cursor = s.cursor + 1]
      BY <2>1
    <3> HIDE DEF s
    <3> QED BY <1>1, <3>1 DEF IsStore
  <2>2. CASE \E r : u = Advanced(d, store[d], r)
    <3>1. PICK r : u = Advanced(d, store[d], r)
      BY <2>2
    <3> DEFINE gone == Retired(d, r)
    <3>2. u = [s EXCEPT !.cursor = s.cursor + 1, !.queue = s.queue \ gone]
      BY <3>1 DEF Advanced
    <3> HIDE DEF s, gone
    <3>3. /\ u.journal = s.journal /\ u.hash = s.hash /\ u.head = s.head /\ u.base = s.base
          /\ u.authored = s.authored /\ u.cursor = s.cursor + 1 /\ u.queue = s.queue \ gone
      BY <1>1, <3>2 DEF IsStore
    <3>4. u = [head |-> s.head, hash |-> s.hash, base |-> s.base, owner |-> s.owner,
               queue |-> s.queue \ gone, authored |-> s.authored, cursor |-> s.cursor + 1,
               backups |-> s.backups, artifacts |-> s.artifacts, journal |-> s.journal]
      BY <1>1, <3>2 DEF IsStore
    <3>5. u.cursor \in Nat
      BY <1>1, <3>3 DEF IsStore
    <3>6. IsStore(u)
      BY <3>4, <3>5 DEF IsStore
    <3> QED BY <3>3, <3>6
  <2> QED BY <2>1, <2>2
<1>3. Standing(u, revs, disk[d], G)
  <2> HIDE DEF s, G
  <2> QED BY <1>1, <1>2 DEF Standing, BaseShown, MineShown
<1>4. FeedShown(u, Idle, revs, log, Showing(d))
  <2> DEFINE S1 == Showing(d)
  <2>1. FeedShown(s, task[d], revs, log, S1)
    BY DEF ShownInv, DeviceShown
  <2>2. s.cursor \in Nat /\ Len(log) \in Nat /\ s.cursor < Len(log)
    BY LogFits, DeviceRanges
  <2>3. \A x \in Says(revs, log[s.cursor + 1]) : x \in S1 \/ \E j \in (s.cursor + 2)..Len(log) : x \in Says(revs, log[j])
    OBVIOUS
  <2> HIDE DEF s, S1
  <2>4. FeedShown(u, Idle, revs, log, S1)
    BY <1>2, <2>1, <2>2, <2>3, FeedNext
  <2> QED BY <2>4 DEF S1
<1>5. Showing(d)' = Showing(d)
  BY DEF Showing, Copied, Edits, Content, GivenUp
<1>6. /\ FeedShown(u, Idle, revs', log, Showing(d)') /\ Standing(u, revs', disk[d], GivenUp)
      /\ PastShown(revs', GivenUp) /\ ~u.journal.open /\ u.authored \subseteq Accepted
  BY <1>1, <1>2, <1>3, <1>4, <1>5
<1>7. \A e \in Devices : copies[e] \subseteq copies'[e] /\ (e # d => copies'[e] = copies[e])
  OBVIOUS
<1> HIDE DEF s, G
<1> QED BY <1>1, <1>2, <1>6, <1>7, IdleStep, ShownRest

\* What another revision was built on is in a later one of the log.
LEMMA LaterShown ==
  ASSUME DeliverInv, NEW given, PastShown(revs, given), LogOrdered(revs, log), NEW i \in 1..Len(log), log[i] \notin Heads,
         NEW x \in Says(revs, log[i])
  PROVE  x \in given \/ \E j \in (i + 1)..Len(log) : x \in Says(revs, log[j])
<1>1. PICK c \in Accepted : log[i] \in revs[c].parents
  BY LogFits DEF Heads
<1>2. PICK k \in 1..Len(log) : log[k] = c
  <2>1. log \in Seq(1..Len(revs)) /\ DOMAIN log = 1..Len(log)
    BY DEF DeliverInv
  <2>2. c \in {log[k] : k \in 1..Len(log)}
    BY <2>1 DEF Accepted, Range
  <2> QED BY <2>2
<1>3. PICK j \in 1..(k - 1) : log[j] = log[i]
  BY <1>1, <1>2 DEF LogOrdered
<1>4. j = i /\ k \in (i + 1)..Len(log)
  BY <1>2, <1>3, LogFits DEF LogOrdered
<1>5. x \in Says(revs, c) \cup given
  BY <1>1, <1>2, LogFits DEF PastShown
<1> QED BY <1>2, <1>4, <1>5

LEMMA FeedStepShown ==
  ASSUME DeliverInv, ShownInv, kind = "note", NEW d \in Devices, Suppress(d) \/ Known(d) \/ Advance(d)
  PROVE  ShownInv'
<1> DEFINE s == store[d]
           r == log[s.cursor + 1]
           v == [s EXCEPT !.cursor = s.cursor + 1]
<1>1. UNCHANGED <<revs, log, disk, copies, dropped, trash>>
  BY DEF Suppress, Known, Advance, ApplyFrame
<1>2. s.cursor \in Nat /\ Len(log) \in Nat
  BY LogFits, DeviceRanges
<1>3. CASE Suppress(d)
  <2>1. HasIncoming(d) /\ r \in s.authored /\ task[d] = Idle /\ s.cursor < Len(log)
    BY <1>3 DEF Suppress, Incoming, HasIncoming
  <2>2. KeepTask(d, v) /\ Goto(d, Idle)
    BY <1>3, <2>1 DEF Suppress, KeepTask, Goto, DeliverInv, Fits, IsStore
  <2>3. Says(revs, r) \subseteq Showing(d)
    BY <2>1, RestShown, IdleStep DEF Standing, MineShown, Showing
  <2> QED BY <1>1, <2>1, <2>2, <2>3, IdleStep, ReadShown
<1>4. CASE Known(d)
  <2>1. HasIncoming(d) /\ Skips(d, r) /\ task[d] = Idle /\ s.cursor < Len(log) /\ KeepTask(d, Advanced(d, s, r))
    BY <1>4 DEF Known, Incoming, HasIncoming
  <2>2. Goto(d, Idle)
    BY <1>4, <2>1 DEF Known, Goto, DeliverInv
  <2>3. s.cursor + 1 \in 1..Len(log)
    BY <1>2, <2>1
  <2>4. ASSUME NEW x \in Says(revs, r)
        PROVE  x \in Showing(d) \/ \E j \in (s.cursor + 2)..Len(log) : x \in Says(revs, log[j])
    <3>1. CASE s.head = 0
      <4>1. r \notin Heads
        BY <2>1, <3>1 DEF Skips
      <4>2. x \in GivenUp \/ \E j \in (s.cursor + 1 + 1)..Len(log) : x \in Says(revs, log[j])
        BY <2>3, <2>4, <4>1, LaterShown DEF ShownInv
      <4>3. s.cursor + 1 + 1 = s.cursor + 2
        BY <1>2
      <4> QED BY <4>2, <4>3 DEF Showing
    <3>2. CASE s.head # 0
      <4>1. s.head \in Graph(d) /\ s.head \in 1..Len(revs) /\ revs[s.head].content = s.hash
        BY <2>1, <3>2, AtRest, IdleStep DEF Sound
      <4>2. r \in revs[s.head].past
        BY <2>1, <3>2, <4>1 DEF Skips, Ancestors
      <4>3. x \in Says(revs, s.head) \cup GivenUp
        BY <2>4, <4>1, <4>2 DEF ShownInv, PastShown
      <4>4. TextOf(s.hash) \subseteq TextOf(disk[d]) \cup GivenUp
        BY <2>1, RestShown, IdleStep DEF Standing
      <4> QED BY <4>1, <4>3, <4>4 DEF Says, Showing
    <3> QED BY <3>1, <3>2
  <2> QED BY <1>1, <2>1, <2>2, <2>4, IdleStep, ReadShown
<1>5. CASE Advance(d)
  <2>1. /\ task[d].step = "advance" /\ Goto(d, Idle)
        /\ KeepTask(d, IF task[d].conflict THEN v ELSE Advanced(d, s, task[d].rev))
    BY <1>5 DEF Advance
  <2>2. s.cursor < Len(log) /\ task[d].rev = r /\ Says(revs, r) \subseteq Showing(d)
    BY <2>1 DEF ShownInv, DeviceShown, FeedShown
  <2>3. KeepTask(d, v) \/ KeepTask(d, Advanced(d, s, task[d].rev))
    BY <2>1
  <2>4. PICK u : KeepTask(d, u) /\ (u = v \/ u = Advanced(d, s, task[d].rev))
    BY <2>3
  <2> QED BY <1>1, <2>1, <2>2, <2>4, ReadShown
<1> QED BY <1>3, <1>4, <1>5

-----------------------------------------------------------------------------
(* The steps of an apply.                                                  *)

\* The feed of a device that starts, or ends, an apply.
LEMMA FeedStarts ==
  ASSUME DeliverInv, ShownInv, kind = "note", NEW d \in Devices, NEW u, NEW t, Grows(revs, revs'),
         UNCHANGED <<log, disk, dropped, trash>>, copies[d] \subseteq copies'[d],
         u.cursor = store[d].cursor,
         t.step # "idle" => store[d].cursor < Len(log) /\ t.rev = log[store[d].cursor + 1],
         t.step = "advance" => Says(revs', t.rev) \subseteq Showing(d)'
  PROVE  FeedShown(u, t, revs', log, Showing(d)')
<1> DEFINE S2 == Showing(d)'
           s == store[d]
<1>1. FeedShown(s, task[d], revs', log, S2)
  BY FeedKeeps
<1> HIDE DEF S2
<1>2. t.step = "advance" => Says(revs', t.rev) \subseteq S2
  BY DEF S2
<1>3. u.cursor = s.cursor /\ (t.step # "idle" => s.cursor < Len(log) /\ t.rev = log[s.cursor + 1])
  OBVIOUS
<1> HIDE DEF s
<1>4. FeedShown(u, t, revs', log, S2)
  BY <1>1, <1>2, <1>3, FeedTask
<1> QED BY <1>4 DEF S2

LEMMA JournalKeeps ==
  ASSUME NEW s, NEW u, NEW discard, NEW rs, NEW file, NEW given, IsStore(s), IsStore(u),
         Opened(u.journal, s, discard), u.queue \ discard = s.queue, u.authored = s.authored,
         Standing(s, rs, file, given)
  PROVE  Standing(Undone(u), rs, file, given) /\ Undone(u).queue = s.queue
<1> DEFINE v == Undone(u)
<1>1. /\ v.head = s.head /\ v.hash = s.hash /\ v.base = s.base
      /\ v.queue = s.queue /\ v.authored = s.authored
  BY DEF Undone, IsStore, Opened
<1> HIDE DEF v
<1>2. Standing(v, rs, file, given) /\ v.queue = s.queue
  BY <1>1 DEF Standing, BaseShown, MineShown
<1> QED BY <1>2 DEF v

LEMMA JournalledKeeps ==
  ASSUME NEW s, IsStore(s)
  PROVE  /\ Journalled(s).base = s.base /\ Journalled(s).authored = s.authored
         /\ Journalled(s).cursor = s.cursor
<1> DEFINE entry == [open |-> TRUE, head |-> s.head, hash |-> s.hash, base |-> s.base,
                     owner |-> s.owner, discard |-> {}]
           j == Journalled(s)
<1>1. j = [s EXCEPT !.journal = entry]
  BY DEF Journalled
<1> HIDE DEF entry, j
<1>2. j.base = s.base /\ j.authored = s.authored /\ j.cursor = s.cursor
  BY <1>1 DEF IsStore
<1> QED BY <1>2 DEF j

LEMMA DivertShown ==
  ASSUME DeliverInv, ShownInv, kind = "note", NEW d \in Devices, NEW r \in Accepted, Divert(d, r),
         store[d].cursor < Len(log), r = log[store[d].cursor + 1]
  PROVE  ShownInv'
<1> DEFINE s == Undone(store[d])
           G == GivenUp
           u == [s EXCEPT !.artifacts = s.artifacts \cup {r}]
           t == [step |-> "advance", rev |-> r, conflict |-> TRUE]
<1>1. /\ KeepTask(d, u) /\ Goto(d, t) /\ UNCHANGED <<revs, log, disk, dropped, trash>>
      /\ copies' = [copies EXCEPT ![d] = @ \cup {r}]
  BY DEF Divert, ApplyFrame
<1>2. /\ IsStore(s) /\ ~s.journal.open /\ s.cursor = store[d].cursor /\ s.authored \subseteq Accepted
      /\ Standing(s, revs, disk[d], G) /\ PastShown(revs, G)
  BY UndoneFits, DeviceRanges DEF ShownInv, DeviceShown
<1>3. /\ IsStore(u) /\ u.journal = s.journal /\ u.hash = s.hash /\ u.head = s.head /\ u.base = s.base
      /\ u.queue = s.queue /\ u.authored = s.authored /\ u.cursor = s.cursor
  <2>1. u = [s EXCEPT !.artifacts = s.artifacts \cup {r}]
    OBVIOUS
  <2> HIDE DEF s, u
  <2> QED BY <1>2, <2>1 DEF IsStore
<1>4. Standing(u, revs, disk[d], G)
  <2> HIDE DEF s, u, G
  <2> QED BY <1>2, <1>3 DEF Standing, BaseShown, MineShown
<1>5. /\ \A e \in Devices : copies[e] \subseteq copies'[e] /\ (e # d => copies'[e] = copies[e])
      /\ r \in copies'[d]
  BY <1>1 DEF DeliverInv
<1>6. Says(revs', r) \subseteq Showing(d)'
  BY <1>1, <1>5 DEF Says, Showing, Copied, Edits, Content
<1>7. t.step = "advance" /\ t.rev = r
  OBVIOUS
<1>8. Grows(revs, revs') /\ Standing(u, revs', disk[d], G) /\ PastShown(revs', G)
  BY <1>1, <1>2, <1>4, Same
<1> HIDE DEF u, t
<1>9. FeedShown(u, t, revs', log, Showing(d)')
  BY <1>1, <1>2, <1>3, <1>5, <1>6, <1>7, <1>8, FeedStarts
<1>10. u.authored \subseteq Accepted /\ ~u.journal.open
  BY <1>2, <1>3
<1> HIDE DEF s
<1> QED BY <1>1, <1>3, <1>5, <1>7, <1>8, <1>9, <1>10, ShownRest

LEMMA DeferShown ==
  ASSUME DeliverInv, ShownInv, kind = "note", NEW d \in Devices, Defer(d)
  PROVE  ShownInv'
<1> DEFINE s == Undone(store[d])
           G == GivenUp
<1>1. /\ KeepTask(d, s) /\ Goto(d, Idle) /\ UNCHANGED <<revs, log, disk, dropped, trash>>
      /\ \A e \in Devices : copies[e] \subseteq copies'[e] /\ (e # d => copies'[e] = copies[e])
  BY DEF Defer, ApplyFrame
<1>2. /\ IsStore(s) /\ ~s.journal.open /\ s.cursor = store[d].cursor /\ s.authored \subseteq Accepted
      /\ Standing(s, revs, disk[d], G) /\ PastShown(revs, G) /\ Grows(revs, revs')
  BY <1>1, UndoneFits, DeviceRanges, Same DEF ShownInv, DeviceShown
<1> HIDE DEF s
<1>3. FeedShown(s, Idle, revs', log, Showing(d)')
  BY <1>1, <1>2, IdleStep, FeedStarts
<1>4. Standing(s, revs', disk[d], G) /\ PastShown(revs', G)
  BY <1>1, <1>2
<1> QED BY <1>1, <1>2, <1>3, <1>4, IdleStep, ShownRest

LEMMA ApplyDeleteShown ==
  ASSUME DeliverInv, ShownInv, kind = "note", NEW d \in Devices, NEW r \in Accepted, task[d] = Idle,
         ApplyDelete(d, r), store[d].cursor < Len(log), r = log[store[d].cursor + 1]
  PROVE  ShownInv'
<1> DEFINE s == store[d]
           G == GivenUp
<1>1. /\ Content(r) = Gone /\ UNCHANGED <<revs, log, disk, copies, dropped, trash>>
      /\ \A e \in Devices : copies[e] \subseteq copies'[e] /\ (e # d => copies'[e] = copies[e])
  BY DEF ApplyDelete, ApplyFrame
<1>2. /\ IsStore(s) /\ ~s.journal.open /\ Standing(s, revs, disk[d], G) /\ s.authored \subseteq Accepted
      /\ PastShown(revs, G) /\ Grows(revs, revs')
  BY <1>1, AtRest, RestShown, IdleStep, Same DEF ShownInv, DeviceShown
<1>3. revs[r].content = Gone /\ Says(revs, r) = {}
  BY <1>1 DEF Content, Says, TextOf
<1>4. CASE s.owner
  <2> DEFINE j == Journalled(s)
             u == Forgotten(j)
             t == [step |-> "trash", rev |-> r]
  <2>1. KeepTask(d, u) /\ Goto(d, t)
    BY <1>4 DEF ApplyDelete
  <2>2. /\ IsStore(j) /\ j.queue = s.queue /\ j.authored = s.authored /\ j.cursor = s.cursor
        /\ Opened(j.journal, s, {})
    BY <1>2, JournalledStore, JournalledKeeps
  <2>3. u = [j EXCEPT !.head = 0, !.hash = Gone]
    BY DEF Forgotten
  <2>4. t.step = "trash" /\ t.rev = r
    OBVIOUS
  <2> HIDE DEF j, u, t
  <2>5. /\ IsStore(u) /\ u.journal = j.journal /\ u.queue = s.queue /\ u.authored = s.authored
        /\ u.cursor = s.cursor /\ u.hash = Gone
    BY <2>2, <2>3 DEF IsStore
  <2>6. Standing(Undone(u), revs, disk[d], G) /\ Undone(u).queue = s.queue
    <3> HIDE DEF s, G
    <3> QED BY <1>2, <2>2, <2>5, JournalKeeps
  <2>7. ApplyShown(u, t, revs, disk[d], G)
    BY <1>3, <2>4, <2>5, <2>6 DEF ApplyShown, Coming, TextOf
  <2>8. FeedShown(u, t, revs', log, Showing(d)')
    BY <1>1, <1>2, <2>4, <2>5, FeedStarts
  <2>9. /\ Standing(Undone(u), revs', disk[d], G) /\ ApplyShown(u, t, revs', disk[d], G)
        /\ PastShown(revs', G) /\ u.authored \subseteq Accepted
    BY <1>1, <1>2, <2>5, <2>6, <2>7
  <2> QED BY <1>1, <1>2, <2>1, <2>8, <2>9, ShownQuiet
<1>5. CASE ~s.owner
  <2> DEFINE t == [step |-> "advance", rev |-> r, conflict |-> FALSE]
  <2>1. KeepTask(d, s) /\ Goto(d, t)
    BY <1>5 DEF ApplyDelete, KeepTask, DeliverInv
  <2>2. t.step = "advance" /\ t.rev = r
    OBVIOUS
  <2> HIDE DEF t, s
  <2>3. Says(revs', t.rev) \subseteq Showing(d)' /\ s.cursor = store[d].cursor
    BY <1>1, <1>3, <2>2 DEF s
  <2>4. FeedShown(s, t, revs', log, Showing(d)')
    BY <1>1, <1>2, <2>2, <2>3, FeedStarts
  <2>5. Standing(s, revs', disk[d], G) /\ PastShown(revs', G)
    BY <1>1, <1>2
  <2> QED BY <1>1, <1>2, <2>1, <2>2, <2>4, <2>5, ShownRest
<1> QED BY <1>4, <1>5

LEMMA ApplySameShown ==
  ASSUME DeliverInv, ShownInv, kind = "note", NEW d \in Devices, NEW r \in Accepted, task[d] = Idle,
         ApplySame(d, r), store[d].cursor < Len(log), r = log[store[d].cursor + 1]
  PROVE  ShownInv'
<1> DEFINE s == store[d]
           c == Content(r)
           u == Adopted(Recorded(s, Content(r)), r)
           t == [step |-> "advance", rev |-> r, conflict |-> FALSE]
           G == GivenUp
<1>1. /\ UNCHANGED <<revs, log, disk, copies, dropped, trash>> /\ KeepTask(d, u) /\ Goto(d, t)
      /\ disk[d] = c /\ c = revs[r].content
      /\ \A e \in Devices : copies[e] \subseteq copies'[e] /\ (e # d => copies'[e] = copies[e])
  BY DEF ApplySame, ApplyFrame, Content
<1>2. /\ IsStore(s) /\ ~s.journal.open /\ Standing(s, revs, disk[d], G) /\ s.authored \subseteq Accepted
      /\ PastShown(revs, G) /\ Grows(revs, revs')
  BY <1>1, AtRest, RestShown, IdleStep, Same DEF ShownInv, DeviceShown
<1>3. u = [[s EXCEPT !.base = c, !.owner = TRUE] EXCEPT !.head = r, !.hash = c]
  BY DEF Adopted, Recorded
<1>4. t.step = "advance" /\ t.rev = r
  OBVIOUS
<1> HIDE DEF s, u, c, t
<1>5. /\ IsStore(u) /\ u.journal = s.journal /\ u.queue = s.queue /\ u.authored = s.authored
      /\ u.cursor = s.cursor /\ u.base = c /\ u.hash = c
  BY <1>2, <1>3 DEF IsStore
<1>6. Standing(u, revs', disk[d], G) /\ PastShown(revs', G)
  BY <1>1, <1>2, <1>5 DEF Standing, BaseShown, MineShown
<1>7. Says(revs', t.rev) \subseteq Showing(d)'
  BY <1>1, <1>4 DEF Says, Showing
<1>8. u.cursor = store[d].cursor
  BY <1>5 DEF s
<1>9. FeedShown(u, t, revs', log, Showing(d)')
  BY <1>1, <1>2, <1>4, <1>7, <1>8, FeedStarts
<1> QED BY <1>1, <1>2, <1>4, <1>5, <1>6, <1>9, ShownRest

LEMMA ApplyWriteShown ==
  ASSUME DeliverInv, ShownInv, kind = "note", NEW d \in Devices, NEW r \in Accepted, task[d] = Idle,
         ApplyWrite(d, r), store[d].cursor < Len(log), r = log[store[d].cursor + 1]
  PROVE  ShownInv'
<1> DEFINE s == store[d]
           c == Content(r)
           j == Journalled(s)
           u == Adopted(j, r)
           clean == IF Clean(d, r) THEN disk[d] ELSE store[d].base
           t == [step |-> "prewrite", rev |-> r, clean |-> clean]
           G == GivenUp
<1>1. /\ UNCHANGED <<revs, log, disk, copies, dropped, trash>> /\ KeepTask(d, u) /\ Goto(d, t)
      /\ c = revs[r].content /\ ~Diverged(d, r)
      /\ \A e \in Devices : copies[e] \subseteq copies'[e] /\ (e # d => copies'[e] = copies[e])
  BY DEF ApplyWrite, ApplyFrame, Content, LastWriterWins
<1>2. /\ IsStore(s) /\ ~s.journal.open /\ Standing(s, revs, disk[d], G) /\ s.authored \subseteq Accepted
      /\ PastShown(revs, G) /\ Grows(revs, revs') /\ Sound(s, revs, Accepted)
      /\ s.head # 0 => s.head \in 1..Len(revs)
  BY <1>1, AtRest, RestShown, IdleStep, Same DEF ShownInv, DeviceShown
<1>3. disk[d] = Gone \/ TextOf(s.base) \cup TextOf(clean) \subseteq Says(revs, r) \cup G
  <2>1. SUFFICES ASSUME disk[d] # Gone
                 PROVE  TextOf(s.base) \cup TextOf(clean) \subseteq Says(revs, r) \cup G
    OBVIOUS
  <2>2. s.head # 0 /\ s.head \in Ancestors(Graph(d), r) /\ (Clean(d, r) => disk[d] = s.hash)
    BY <1>1, <2>1 DEF Diverged, Clean, FastForward
  <2>3. r \in 1..Len(revs) /\ s.head \in revs[r].past
    BY <2>2, Same DEF Ancestors, Graph
  <2>4. Says(revs, s.head) = TextOf(s.hash)
    BY <1>2, <2>2 DEF Sound, Says
  <2>5. TextOf(s.hash) \subseteq Says(revs, r) \cup G
    BY <1>2, <2>3, <2>4 DEF PastShown
  <2>6. TextOf(s.base) \subseteq TextOf(s.hash) \cup G
    BY <1>2, <2>2 DEF Standing, BaseShown
  <2>7. clean = s.base \/ clean = s.hash
    BY <2>2
  <2> HIDE DEF clean, s, G
  <2> QED BY <2>5, <2>6, <2>7
<1>4. /\ IsStore(j) /\ j.queue = s.queue /\ j.authored = s.authored /\ j.cursor = s.cursor
      /\ j.base = s.base /\ Opened(j.journal, s, {})
  BY <1>2, JournalledStore, JournalledKeeps
<1>5. u = [j EXCEPT !.head = r, !.hash = c] /\ t.step = "prewrite" /\ t.rev = r /\ t.clean = clean
  BY DEF Adopted
<1> HIDE DEF s, u, j, c, t, clean
<1>6. /\ IsStore(u) /\ u.journal = j.journal /\ u.queue = s.queue /\ u.authored = s.authored
      /\ u.cursor = s.cursor /\ u.hash = c /\ u.base = s.base
  BY <1>4, <1>5 DEF IsStore
<1>7. Standing(Undone(u), revs, disk[d], G) /\ Undone(u).queue = s.queue
  BY <1>2, <1>4, <1>6, JournalKeeps
<1>8. ApplyShown(u, t, revs, disk[d], G)
  BY <1>1, <1>3, <1>5, <1>6, <1>7 DEF ApplyShown, Coming, Says
<1>9. u.cursor = store[d].cursor
  BY <1>6 DEF s
<1>10. FeedShown(u, t, revs', log, Showing(d)')
  BY <1>1, <1>2, <1>5, <1>9, FeedStarts
<1>11. /\ Standing(Undone(u), revs', disk[d], G) /\ ApplyShown(u, t, revs', disk[d], G)
       /\ PastShown(revs', G) /\ u.authored \subseteq Accepted
  BY <1>1, <1>2, <1>6, <1>7, <1>8
<1> QED BY <1>1, <1>2, <1>10, <1>11, ShownQuiet

LEMMA ApplyMergeShown ==
  ASSUME DeliverInv, ShownInv, kind = "note", NEW d \in Devices, NEW r \in Accepted, task[d] = Idle,
         ApplyMerge(d, r), store[d].cursor < Len(log), r = log[store[d].cursor + 1]
  PROVE  ShownInv'
<1> DEFINE s == store[d]
           j == Journalled(s)
           mine == disk[d]
           merged == MergeOver(d, r, mine)
           n == Len(revs) + 1
           parents == IF s.head \in revs[r].parents THEN {r} ELSE {s.head, r}
           next == [j EXCEPT !.head = n, !.hash = merged, !.queue = @ \cup {n},
                             !.journal.discard = {n}]
           G == GivenUp
<1>1. /\ IsStore(s) /\ ~s.journal.open /\ Sound(s, revs, Accepted) /\ Standing(s, revs, mine, G)
      /\ PastShown(revs, G) /\ s.authored \subseteq Accepted
      /\ s.head # 0 => s.head \in 1..Len(revs)
      /\ r \in 1..Len(revs) /\ Accepted \subseteq 1..Len(revs)
  BY AtRest, RestShown, IdleStep, Same DEF ShownInv, DeviceShown
<1>2. /\ UNCHANGED <<log, disk, copies, dropped, trash>>
      /\ \A e \in Devices : copies[e] \subseteq copies'[e] /\ (e # d => copies'[e] = copies[e])
      /\ Content(r) # Gone /\ Merges(d, r) /\ NewRevision(parents, merged)
  <2>1. j.head = s.head
    BY <1>1, JournalledStore
  <2> QED BY <2>1 DEF ApplyMerge, ApplyFrame
<1>3. mine \in Text /\ merged # Conflict /\ merged \in Text /\ merged # Gone /\ s.head # 0
  BY <1>1, <1>2, MergedText DEF Merges, Diverged, DeliverInv
<1>4. /\ Grows(revs, revs') /\ RevisionsFit(revs) /\ RevisionsFit(revs')
      /\ Len(revs) \in Nat /\ Len(revs') = n /\ parents \subseteq 1..Len(revs)
      /\ revs'[n].parents = parents /\ revs'[n].content = merged
  <2>1. parents \subseteq 1..Len(revs)
    BY <1>1, <1>3
  <2>2. RevisionsFit(revs)
    BY DEF DeliverInv
  <2> HIDE DEF parents, merged
  <2> QED BY <1>2, <1>3, <2>1, <2>2, NewFits
<1>5. /\ TextOf(mine) = mine /\ TextOf(merged) = merged /\ TextOf(Content(r)) = Content(r)
      /\ TextOf(s.hash) \subseteq mine \cup G
  BY <1>1, <1>2, <1>3, TextIsText DEF Standing, TextOf
<1>6. /\ mine \subseteq merged \cup G /\ merged \subseteq mine \cup Content(r)
      /\ Content(r) \subseteq merged \cup G
  <2>1. /\ mine \subseteq merged \cup G /\ merged \subseteq mine \cup Content(r)
        /\ Content(r) \subseteq merged \cup G \cup (TextOf(s.hash) \ mine)
    BY <1>1, <1>2, <1>3, MergeShows
  <2> HIDE DEF mine, merged, G, s
  <2> QED BY <1>5, <2>1
<1>7. Says(revs, s.head) = TextOf(s.hash) /\ Says(revs, r) = Content(r) /\ Says(revs', r) = Content(r)
  BY <1>1, <1>3, <1>4, <1>5 DEF Sound, Says, Content, Grows
<1>8. PastShown(revs', G)
  <2>1. Says(revs', n) = merged
    BY <1>4, <1>5 DEF Says
  <2>2. \A p \in parents : Says(revs, p) \subseteq Says(revs', n) \cup G
    <3>1. \A p \in parents : p = r \/ p = s.head
      OBVIOUS
    <3> HIDE DEF parents, s, merged, mine, G
    <3> QED BY <1>5, <1>6, <1>7, <2>1, <3>1
  <2> HIDE DEF parents, merged, G
  <2> QED BY <1>1, <1>4, <2>2, NewPast
<1>9. Standing(s, revs', mine, G)
  <2>1. s.authored \cup s.queue \subseteq 1..Len(revs)
    BY <1>1 DEF Sound
  <2> HIDE DEF s, mine, G
  <2> QED BY <1>1, <1>4, <2>1, StandingStays
<1>10. /\ IsStore(next) /\ Opened(next.journal, s, {n}) /\ next.queue = s.queue \cup {n}
       /\ next.authored = s.authored /\ next.cursor = s.cursor /\ next.base = s.base
       /\ next.head = n /\ next.hash = merged
  <2> DEFINE entry == [j.journal EXCEPT !.discard = {n}]
  <2>1. next = [j EXCEPT !.head = n, !.hash = merged, !.queue = @ \cup {n}, !.journal = entry]
    <3> HIDE DEF s, j, n, merged
    <3> QED OBVIOUS
  <2>2. /\ IsStore(j) /\ j.queue = s.queue /\ j.authored = s.authored /\ j.cursor = s.cursor
        /\ j.base = s.base /\ Opened(j.journal, s, {})
    BY <1>1, JournalledStore, JournalledKeeps
  <2>3. Opened(entry, s, {n})
    <3> HIDE DEF s, j, n
    <3> QED BY <2>2 DEF Opened
  <2> HIDE DEF s, j, n, merged, next, entry
  <2>4. /\ IsStore(next) /\ next.journal = entry /\ next.queue = s.queue \cup {n}
        /\ next.authored = s.authored /\ next.cursor = s.cursor /\ next.base = s.base
        /\ next.head = n /\ next.hash = merged
    BY <2>1, <2>2 DEF IsStore
  <2> QED BY <2>3, <2>4
<1>11. TextOf(s.base) \subseteq merged \cup G
  <2>1. TextOf(s.base) \subseteq TextOf(s.hash) \cup G
    BY <1>1, <1>3 DEF Standing, BaseShown
  <2> HIDE DEF mine, merged, G, s
  <2> QED BY <1>5, <1>6, <2>1
<1>12. n \notin s.queue /\ n # 0
  BY <1>1, <1>4 DEF Sound
<1>13. Says(revs', n) = merged
  BY <1>4, <1>5 DEF Says
<1>14. CASE merged = mine
  <2> DEFINE u == [Closed(next) EXCEPT !.owner = TRUE]
             t == [step |-> "advance", rev |-> r, conflict |-> FALSE]
  <2>1. KeepTask(d, u) /\ Goto(d, t)
    BY <1>14 DEF ApplyMerge
  <2>2. u = [[next EXCEPT !.journal = NoJournal] EXCEPT !.owner = TRUE]
    BY DEF Closed
  <2>3. t.step = "advance" /\ t.rev = r
    OBVIOUS
  <2> HIDE DEF u, next, t, s, merged
  <2>4. /\ IsStore(u) /\ ~u.journal.open /\ u.queue = s.queue \cup {n} /\ u.authored = s.authored
        /\ u.cursor = s.cursor /\ u.base = s.base /\ u.head = n /\ u.hash = merged
    BY <1>10, <2>2 DEF IsStore, NoJournal
  <2>5. Standing(u, revs', mine, G)
    <3> HIDE DEF mine, G, n
    <3>1. MineShown(u, revs', TextOf(mine) \cup G)
      BY <1>5, <1>9, <1>13, <1>14, <2>4 DEF Standing, MineShown
    <3> QED BY <1>5, <1>11, <1>14, <2>4, <3>1 DEF Standing, BaseShown
  <2>6. Says(revs', t.rev) \subseteq Showing(d)'
    <3>1. mine \cup G \subseteq Showing(d)'
      BY <1>2, <1>5 DEF Showing, GivenUp
    <3> HIDE DEF mine, G
    <3> QED BY <1>6, <1>7, <1>14, <2>3, <3>1
  <2>7. u.cursor = store[d].cursor
    BY <2>4 DEF s
  <2>8. FeedShown(u, t, revs', log, Showing(d)')
    BY <1>2, <1>4, <2>3, <2>6, <2>7, FeedStarts
  <2>9. u.authored \subseteq Accepted
    BY <1>1, <2>4
  <2> QED BY <1>2, <1>4, <1>8, <2>1, <2>3, <2>4, <2>5, <2>8, <2>9, ShownRest
<1>15. CASE merged # mine
  <2> DEFINE t == [step |-> "merge", rev |-> r, seen |-> mine, text |-> merged]
  <2>1. KeepTask(d, next) /\ Goto(d, t)
    BY <1>15 DEF ApplyMerge
  <2>2. t.step = "merge" /\ t.rev = r /\ t.seen = mine /\ t.text = merged
    OBVIOUS
  <2>3. next.queue \ {n} = s.queue
    BY <1>10, <1>12
  <2> HIDE DEF next, t, s, merged
  <2>4. Standing(Undone(next), revs', mine, G) /\ Undone(next).queue = s.queue
    <3> HIDE DEF mine, G, n
    <3> QED BY <1>1, <1>9, <1>10, <2>3, JournalKeeps
  <2>5. ApplyShown(next, t, revs', mine, G)
    <3> HIDE DEF mine, G, n
    <3>1. Coming(t, revs') = Content(r)
      BY <1>7, <2>2 DEF Coming
    <3>2. TextOf(next.hash) \subseteq TextOf(mine) \cup G \cup Coming(t, revs')
      BY <1>5, <1>6, <1>10, <3>1
    <3>3. BaseShown(next, G)
      BY <1>5, <1>10, <1>11 DEF BaseShown
    <3>4. next.queue \subseteq Undone(next).queue \cup {next.head}
      BY <1>10, <2>4
    <3>5. TextOf(t.seen) \subseteq TextOf(t.text) \cup G /\ Says(revs', t.rev) \subseteq TextOf(t.text) \cup G
      BY <1>5, <1>6, <1>7, <2>2
    <3> QED BY <2>2, <3>2, <3>3, <3>4, <3>5 DEF ApplyShown
  <2>6. next.cursor = store[d].cursor
    BY <1>10 DEF s
  <2>7. FeedShown(next, t, revs', log, Showing(d)')
    BY <1>2, <1>4, <2>2, <2>6, FeedStarts
  <2>8. next.authored \subseteq Accepted
    BY <1>1, <1>10
  <2> QED BY <1>2, <1>4, <1>8, <2>1, <2>4, <2>5, <2>7, <2>8, ShownQuiet
<1> QED BY <1>14, <1>15

LEMMA PrewriteShown ==
  ASSUME DeliverInv, ShownInv, kind = "note", NEW d \in Devices, Prewrite(d)
  PROVE  ShownInv'
<1> DEFINE s == store[d]
           r == task[d].rev
           c == Content(r)
           t == [step |-> "write", rev |-> r, seen |-> disk[d], text |-> c]
           G == GivenUp
<1>1. /\ task[d].step = "prewrite" /\ Fits(s, task[d], revs, Accepted)
      /\ s.cursor < Len(log) /\ r = log[s.cursor + 1] /\ r \in Accepted
  BY DEF Prewrite, DeliverInv, ShownInv, DeviceShown, FeedShown, Fits, TaskFits
<1>2. CASE Divert(d, r)
  BY <1>1, <1>2, DivertShown
<1>3. CASE ~Divert(d, r)
  <2>1. /\ Goto(d, t) /\ UNCHANGED <<revs, log, disk, store, copies, dropped, trash>> /\ ~SavedSince(d)
    BY <1>3 DEF Prewrite, ApplyFrame
  <2>2. /\ Standing(Undone(s), revs, disk[d], G) /\ ApplyShown(s, task[d], revs, disk[d], G)
        /\ PastShown(revs, G) /\ s.authored \subseteq Accepted /\ Grows(revs, revs')
    BY <2>1, Same DEF ShownInv, DeviceShown
  <2>3. c = revs[r].content /\ TextOf(c) = Says(revs, r)
    BY DEF Content, Says
  <2>4. TextOf(disk[d]) \subseteq TextOf(c) \cup G
    <3>1. \/ disk[d] = Gone \/ disk[d] = c
          \/ disk[d] # Gone /\ disk[d] \in {s.base, task[d].clean}
      BY <2>1 DEF SavedSince, LastWriterWins
    <3>2. disk[d] = Gone \/ TextOf(s.base) \cup TextOf(task[d].clean) \subseteq TextOf(c) \cup G
      BY <1>1, <2>2, <2>3 DEF ApplyShown
    <3> HIDE DEF c, s, G
    <3> QED BY <3>1, <3>2 DEF TextOf
  <2>5. t.step = "write" /\ t.rev = r /\ t.seen = disk[d] /\ t.text = c
    OBVIOUS
  <2> HIDE DEF t
  <2>6. Coming(t, revs) = Coming(task[d], revs)
    BY <1>1, <2>5 DEF Coming
  <2>7. ApplyShown(s, t, revs, disk[d], G)
    BY <1>1, <2>2, <2>4, <2>5, <2>6 DEF ApplyShown
  <2>8. KeepTask(d, s)
    BY <2>1 DEF KeepTask, DeliverInv
  <2>9. \A e \in Devices : copies[e] \subseteq copies'[e] /\ (e # d => copies'[e] = copies[e])
    BY <2>1
  <2>10. FeedShown(s, t, revs', log, Showing(d)')
    BY <1>1, <2>1, <2>2, <2>5, FeedStarts
  <2>11. /\ Standing(Undone(s), revs', disk[d], G) /\ ApplyShown(s, t, revs', disk[d], G) /\ PastShown(revs', G)
    BY <2>1, <2>2, <2>7
  <2> HIDE DEF s
  <2> QED BY <2>1, <2>2, <2>8, <2>9, <2>10, <2>11, ShownQuiet
<1> QED BY <1>2, <1>3

\* The file has changed; what was applied is recorded in the next step.
LEMMA FileShown ==
  ASSUME DeliverInv, ShownInv, kind = "note", NEW d \in Devices, NEW text, NEW t,
         task[d].step # "idle", UNCHANGED <<revs, log, store, copies>>, GivenUp \subseteq GivenUp',
         disk' = [disk EXCEPT ![d] = text], Goto(d, t), t.step = "record", t.rev = task[d].rev,
         TextOf(disk[d]) \subseteq TextOf(text) \cup GivenUp',
         TextOf(store[d].hash) \subseteq TextOf(text) \cup GivenUp',
         MineShown(store[d], revs, TextOf(text) \cup GivenUp'),
         Says(revs, t.rev) \subseteq TextOf(text) \cup GivenUp',
         t.from = "write" => store[d].hash = revs[t.rev].content,
         t.from = "merge" => BaseShown(store[d], GivenUp')
  PROVE  ShownInv'
<1> DEFINE s == store[d]
           G == GivenUp'
<1>1. disk'[d] = text /\ \A e \in Devices : e # d => disk'[e] = disk[e] /\ copies'[e] = copies[e]
  BY DEF DeliverInv
<1>2. /\ s.authored \subseteq Accepted /\ Standing(Undone(s), revs, disk[d], GivenUp)
      /\ PastShown(revs, GivenUp) /\ LogOrdered(revs, log) /\ FeedShown(s, task[d], revs, log, Showing(d))
  BY DEF ShownInv, DeviceShown
<1>3. /\ s.cursor \in Nat /\ TaskFits(s, task[d], revs, Accepted)
      /\ Undone(s).authored \cup Undone(s).queue \subseteq 1..Len(revs)
      /\ Grows(revs, revs) /\ Accepted \subseteq 1..Len(revs)
      /\ Len(log) \in Nat /\ \A i \in 1..Len(log) : log[i] \in 1..Len(revs)
  BY DeviceRanges, LogFits, Same
<1>4. Standing(Undone(s), revs, text, G)
  <2> HIDE DEF s, G
  <2> QED BY <1>2, <1>3, StandingStays DEF G
<1>5. ApplyShown(s, t, revs, text, G)
  BY DEF ApplyShown, Coming
<1>6. Showing(d) \subseteq Showing(d)'
  <2>1. Copied(d)' = Copied(d)
    BY DEF Copied, Edits, Content
  <2> QED BY <1>1, <2>1 DEF Showing
<1>7. FeedShown(s, t, revs, log, Showing(d)')
  <2> DEFINE S1 == Showing(d)
             S2 == Showing(d)'
  <2>1. S1 \subseteq S2 /\ FeedShown(s, task[d], revs, log, S1)
    BY <1>2, <1>6
  <2> HIDE DEF S1, S2, s
  <2>2. Len(log) <= Len(log) /\ \A i \in 1..Len(log) : log[i] = log[i] /\ log[i] \in 1..Len(revs)
    BY <1>3
  <2>3. FeedShown(s, task[d], revs, log, S2)
    BY <1>3, <2>1, <2>2, FeedShownStays
  <2>4. s.cursor < Len(log) /\ t.rev = log[s.cursor + 1]
    BY <2>1 DEF FeedShown
  <2>5. FeedShown(s, t, revs, log, S2)
    BY <2>3, <2>4, FeedTask
  <2> QED BY <2>5 DEF S2
<1>8. store' = [store EXCEPT ![d] = s] /\ task' = [task EXCEPT ![d] = t]
  BY DEF DeliverInv, Goto
<1>9. PastShown(revs, G)
  BY <1>2 DEF PastShown
<1>10. revs' = revs /\ log' = log /\ Accepted' = Accepted
  BY DEF Accepted
<1>11. /\ Standing(Undone(s), revs', disk'[d], GivenUp') /\ ApplyShown(s, t, revs', disk'[d], GivenUp')
       /\ PastShown(revs', GivenUp') /\ LogOrdered(revs', log') /\ s.authored \subseteq Accepted'
       /\ Grows(revs, revs') /\ Accepted \subseteq Accepted'
  BY <1>1, <1>2, <1>3, <1>4, <1>5, <1>9, <1>10
<1>12. FeedShown(s, t, revs', log', Showing(d)')
  BY <1>7, <1>10
<1>13. Len(log') \in Nat /\ Len(log) <= Len(log') /\ \A i \in 1..Len(log) : log'[i] = log[i]
  BY <1>3, <1>10
<1> HIDE DEF s, G
<1> QED BY <1>1, <1>8, <1>11, <1>12, <1>13, ShownStep

LEMMA WriteNoteShown ==
  ASSUME DeliverInv, ShownInv, kind = "note", NEW d \in Devices, WriteNote(d)
  PROVE  ShownInv'
<1>1. CASE Defer(d)
  BY <1>1, DeferShown
<1>2. CASE ~Defer(d)
  <2> DEFINE s == store[d]
             r == task[d].rev
             text == task[d].text
             t == [step |-> "record", rev |-> r, from |-> task[d].step]
             G == GivenUp
  <2>1. /\ task[d].step \in {"write", "merge"} /\ Unseen(d)
        /\ disk' = [disk EXCEPT ![d] = text] /\ Goto(d, t)
        /\ UNCHANGED <<revs, log, store, copies, dropped, trash>>
    BY <1>2 DEF WriteNote, ApplyFrame
  <2>2. disk[d] = task[d].seen
    BY <2>1 DEF Unseen
  <2>3. /\ Standing(Undone(s), revs, disk[d], G) /\ ApplyShown(s, task[d], revs, disk[d], G)
        /\ Fits(s, task[d], revs, Accepted)
    BY DEF ShownInv, DeviceShown, DeliverInv
  <2>4. /\ text = s.hash /\ s.head # 0 /\ revs[s.head].content = text
        /\ task[d].step = "write" => s.head = r
    BY <2>1, <2>3, Same DEF Fits, TaskFits, Sound
  <2>5. TextOf(disk[d]) \subseteq TextOf(text) \cup G
    BY <2>1, <2>2, <2>3 DEF ApplyShown
  <2>6. Says(revs, r) \subseteq TextOf(text) \cup G /\ (task[d].step = "write" => s.hash = revs[r].content)
    BY <2>1, <2>3, <2>4 DEF ApplyShown, Says
  <2>7. MineShown(s, revs, TextOf(text) \cup G)
    <3>1. MineShown(Undone(s), revs, TextOf(text) \cup G)
      BY <2>3, <2>5 DEF Standing, MineShown
    <3>2. s.queue \subseteq Undone(s).queue \cup {s.head} /\ Undone(s).authored = s.authored
      BY <2>1, <2>3, UndoneKeeps DEF ApplyShown, Fits
    <3>3. Says(revs, s.head) = TextOf(text)
      BY <2>4 DEF Says
    <3> HIDE DEF text, s, G
    <3> QED BY <3>1, <3>2, <3>3 DEF MineShown
  <2>8. task[d].step = "merge" => BaseShown(s, G)
    BY <2>3 DEF ApplyShown
  <2>9. GivenUp' = G
    BY <2>1 DEF GivenUp
  <2>10. t.step = "record" /\ t.rev = r /\ t.from = task[d].step
    OBVIOUS
  <2>11. /\ task[d].step # "idle" /\ GivenUp \subseteq GivenUp'
         /\ TextOf(disk[d]) \subseteq TextOf(text) \cup GivenUp'
         /\ TextOf(store[d].hash) \subseteq TextOf(text) \cup GivenUp'
         /\ MineShown(store[d], revs, TextOf(text) \cup GivenUp')
         /\ Says(revs, t.rev) \subseteq TextOf(text) \cup GivenUp'
         /\ t.from = "write" => store[d].hash = revs[t.rev].content
         /\ t.from = "merge" => BaseShown(store[d], GivenUp')
    BY <2>1, <2>4, <2>5, <2>6, <2>7, <2>8, <2>9, <2>10
  <2> HIDE DEF text, t
  <2> QED BY <2>1, <2>10, <2>11, FileShown
<1> QED BY <1>1, <1>2

LEMMA ShownSame ==
  ASSUME ShownInv, UNCHANGED <<kind, revs, log, disk, store, task, copies, dropped, trash>>
  PROVE  ShownInv'
<1>1. GivenUp' = GivenUp /\ Accepted' = Accepted
  BY DEF GivenUp, Accepted
<1>2. \A d \in Devices : Showing(d)' = Showing(d)
  BY <1>1 DEF Showing, Copied, Edits, Content
<1>3. \A d \in Devices : DeviceShown(d) => DeviceShown(d)'
  BY <1>1, <1>2 DEF DeviceShown
<1> QED BY <1>1, <1>3 DEF ShownInv

LEMMA TrashNoteShown ==
  ASSUME DeliverInv, ShownInv, kind = "note", TrashFits, NEW d \in Devices, TrashNote(d)
  PROVE  ShownInv'
<1>1. CASE Defer(d)
  BY <1>1, DeferShown
<1>2. CASE ~Defer(d)
  <2> DEFINE s == store[d]
             r == task[d].rev
             t == [step |-> "record", rev |-> r, from |-> "trash"]
  <2>1. /\ task[d].step = "trash"
        /\ trash' = IF disk[d] = Gone THEN trash ELSE [trash EXCEPT ![d] = @ \cup disk[d]]
        /\ disk' = [disk EXCEPT ![d] = Gone] /\ Goto(d, t)
        /\ UNCHANGED <<revs, log, store, copies, dropped>>
    BY <1>2 DEF TrashNote, ApplyFrame, LastWriterWins
  <2>2. GivenUp \subseteq GivenUp' /\ TextOf(disk[d]) \subseteq GivenUp'
    <3>1. /\ \A e \in Devices : trash[e] \subseteq trash'[e]
          /\ TextOf(disk[d]) \subseteq trash'[d]
      <4>1. CASE disk[d] = Gone
        BY <2>1, <4>1 DEF TextOf
      <4>2. CASE disk[d] # Gone
        BY <2>1, <4>2 DEF TextOf, TrashFits
      <4> QED BY <4>1, <4>2
    <3> QED BY <2>1, <3>1 DEF GivenUp
  <2>3. /\ Standing(Undone(s), revs, disk[d], GivenUp) /\ ApplyShown(s, task[d], revs, disk[d], GivenUp)
        /\ Fits(s, task[d], revs, Accepted)
    BY DEF ShownInv, DeviceShown, DeliverInv
  <2>4. s.hash = Gone /\ TextOf(Gone) = {}
    BY <2>1, <2>3 DEF Fits, TaskFits, Sound, TextOf
  <2>5. Says(revs, r) = {}
    BY <2>1, <2>3 DEF ApplyShown, Says, TextOf
  <2>6. MineShown(s, revs, GivenUp')
    <3>1. Undone(s).queue = s.queue /\ Undone(s).authored = s.authored
      BY <2>1, <2>3, UndoneKeeps DEF ApplyShown, Fits
    <3>2. MineShown(Undone(s), revs, TextOf(disk[d]) \cup GivenUp)
      BY <2>3 DEF Standing
    <3>3. \A q \in s.authored \cup s.queue : Says(revs, q) \subseteq TextOf(disk[d]) \cup GivenUp
      BY <3>1, <3>2 DEF MineShown
    <3> QED BY <2>2, <3>3 DEF MineShown
  <2>7. t.step = "record" /\ t.rev = r /\ t.from = "trash"
    OBVIOUS
  <2>8. /\ task[d].step # "idle" /\ TextOf(disk[d]) \subseteq TextOf(Gone) \cup GivenUp'
        /\ TextOf(store[d].hash) \subseteq TextOf(Gone) \cup GivenUp'
        /\ MineShown(store[d], revs, TextOf(Gone) \cup GivenUp')
        /\ Says(revs, t.rev) \subseteq TextOf(Gone) \cup GivenUp'
        /\ t.from = "write" => store[d].hash = revs[t.rev].content
        /\ t.from = "merge" => BaseShown(store[d], GivenUp')
    BY <2>1, <2>2, <2>4, <2>5, <2>6, <2>7
  <2> HIDE DEF t
  <2> QED BY <2>1, <2>2, <2>7, <2>8, FileShown
<1> QED BY <1>1, <1>2

LEMMA RecordShown ==
  ASSUME DeliverInv, ShownInv, kind = "note", NEW d \in Devices, Record(d)
  PROVE  ShownInv'
<1> DEFINE o == store[d]
           s == Closed(o)
           r == task[d].rev
           from == task[d].from
           u == CASE from = "write" -> Recorded(s, Content(r))
                  [] from = "merge" -> [s EXCEPT !.owner = TRUE]
                  [] from = "trash" -> [s EXCEPT !.owner = FALSE, !.base = Gone]
           t == [step |-> "advance", rev |-> r, conflict |-> FALSE]
           G == GivenUp
<1>1. /\ task[d].step = "record" /\ KeepTask(d, u) /\ Goto(d, t)
      /\ UNCHANGED <<revs, log, disk, copies, dropped, trash>>
      /\ \A e \in Devices : copies[e] \subseteq copies'[e] /\ (e # d => copies'[e] = copies[e])
  BY DEF Record, ApplyFrame
<1>2. /\ Fits(o, task[d], revs, Accepted) /\ o.authored \subseteq Accepted
      /\ ApplyShown(o, task[d], revs, disk[d], G) /\ PastShown(revs, G) /\ Grows(revs, revs')
      /\ o.cursor < Len(log) /\ r = log[o.cursor + 1]
  BY <1>1, Same DEF DeliverInv, ShownInv, DeviceShown, FeedShown
<1>3. /\ IsStore(s) /\ ~s.journal.open /\ s.queue = o.queue /\ s.authored = o.authored
      /\ s.cursor = o.cursor /\ s.head = o.head /\ s.hash = o.hash /\ s.base = o.base
  <2>1. s = [o EXCEPT !.journal = NoJournal] /\ IsStore(o)
    BY <1>2 DEF Closed, Fits
  <2> HIDE DEF s, o
  <2> QED BY <2>1 DEF IsStore, NoJournal
<1>4. /\ from \in {"write", "merge", "trash"} /\ MineShown(o, revs, TextOf(disk[d]) \cup G)
      /\ Says(revs, r) \subseteq TextOf(disk[d]) \cup G /\ TextOf(o.hash) \subseteq TextOf(disk[d]) \cup G
      /\ from = "write" => o.hash = Content(r)
      /\ from = "merge" => BaseShown(o, G)
  BY <1>1, <1>2 DEF Fits, TaskFits, ApplyShown, Coming, Content
<1>5. /\ IsStore(u) /\ u.journal = s.journal /\ u.queue = s.queue /\ u.authored = s.authored
      /\ u.cursor = s.cursor /\ u.head = s.head /\ u.hash = s.hash
      /\ \/ from = "write" /\ u.base = Content(r)
         \/ from = "merge" /\ u.base = s.base
         \/ u.base = Gone
  <2>1. \/ from = "write" /\ u = [s EXCEPT !.base = Content(r), !.owner = TRUE]
        \/ from = "merge" /\ u = [s EXCEPT !.owner = TRUE]
        \/ u = [s EXCEPT !.owner = FALSE, !.base = Gone]
    BY <1>4 DEF Recorded
  <2> HIDE DEF u, s, r, from
  <2> QED BY <1>3, <2>1 DEF IsStore
<1>6. t.step = "advance" /\ t.rev = r
  OBVIOUS
<1> HIDE DEF u, s, t
<1>7. BaseShown(u, G)
  BY <1>3, <1>4, <1>5 DEF BaseShown, TextOf
<1>8. Standing(u, revs', disk[d], G) /\ PastShown(revs', G) /\ u.authored \subseteq Accepted /\ ~u.journal.open
  BY <1>1, <1>2, <1>3, <1>4, <1>5, <1>7 DEF Standing, MineShown
<1>9. Says(revs', t.rev) \subseteq Showing(d)' /\ u.cursor = store[d].cursor
  BY <1>1, <1>3, <1>4, <1>5, <1>6 DEF Showing, GivenUp
<1>10. FeedShown(u, t, revs', log, Showing(d)')
  BY <1>1, <1>2, <1>6, <1>9, FeedStarts
<1> QED BY <1>1, <1>2, <1>5, <1>6, <1>8, <1>10, ShownRest

LEMMA ApplyStepShown ==
  ASSUME DeliverInv, ShownInv, kind = "note", TrashFits, NEW d \in Devices, ApplyStep(d)
  PROVE  ShownInv'
<1>1. ASSUME Apply(d) PROVE ShownInv'
  <2>1. PICK r \in Accepted : /\ Applying(d, r)
                              /\ \/ ApplyDelete(d, r) \/ KeepDeleted(d, r) \/ ApplySame(d, r)
                                 \/ ApplyMerge(d, r) \/ ApplyDiverged(d, r) \/ ApplyWrite(d, r)
    BY <1>1 DEF Apply
  <2>2. task[d] = Idle /\ store[d].cursor < Len(log) /\ r = log[store[d].cursor + 1]
    BY <2>1 DEF Applying, HasIncoming, Incoming
  <2>3. KeepDeleted(d, r) \/ ApplyDiverged(d, r) => Divert(d, r)
    BY DEF KeepDeleted, ApplyDiverged
  <2> QED BY <2>1, <2>2, <2>3, ApplyDeleteShown, ApplySameShown, ApplyMergeShown, ApplyWriteShown,
             DivertShown
<1>2. ASSUME FirstPull(d) PROVE ShownInv'
  <2>1. UNCHANGED <<kind, revs, log, disk, store, task, copies, dropped, trash>>
    BY <1>2 DEF FirstPull
  <2> QED BY <2>1, ShownSame
<1> QED BY <1>1, <1>2, FeedStepShown, PrewriteShown, WriteNoteShown, TrashNoteShown, RecordShown
        DEF ApplyStep

-----------------------------------------------------------------------------
(* Stops, conflict copies and users.                                       *)

\* What is being applied may disappear from the file: it is still to be read.
LEMMA FeedLess ==
  ASSUME NEW s, NEW t, NEW rs, NEW lg, NEW shown, NEW shown2, s.cursor \in Nat, Len(lg) \in Nat,
         FeedShown(s, t, rs, lg, shown), shown \subseteq shown2 \cup Coming(t, rs)
  PROVE  FeedShown(s, t, rs, lg, shown2)
<1>1. t.step = "advance" => Says(rs, t.rev) \subseteq shown2
  BY DEF FeedShown, Coming
<1>2. ASSUME NEW i \in 1..Len(lg), NEW x \in Says(rs, lg[i])
      PROVE  x \in shown2 \/ \E j \in (s.cursor + 1)..Len(lg) : x \in Says(rs, lg[j])
  <2>1. x \in shown \/ \E j \in (s.cursor + 1)..Len(lg) : x \in Says(rs, lg[j])
    BY <1>2 DEF FeedShown
  <2>2. CASE x \in Coming(t, rs)
    <3>1. t.step # "idle" /\ x \in Says(rs, t.rev)
      BY <2>2 DEF Coming
    <3>2. s.cursor + 1 \in (s.cursor + 1)..Len(lg) /\ t.rev = lg[s.cursor + 1]
      BY <3>1 DEF FeedShown
    <3> QED BY <3>1, <3>2
  <2> QED BY <2>1, <2>2
<1> QED BY <1>1, <1>2 DEF FeedShown

\* A step of the files that shows what it takes of the copies.
LEMMA FilesShown ==
  ASSUME DeliverInv, ShownInv, kind = "note", NEW d \in Devices,
         UNCHANGED <<revs, log, store, task>>, GivenUp \subseteq GivenUp',
         \A e \in Devices : e # d => disk'[e] = disk[e] /\ copies'[e] = copies[e],
         TextOf(disk[d]) \subseteq TextOf(disk'[d]) \cup GivenUp', disk[d] = Gone => disk'[d] = Gone,
         Copied(d) \subseteq Showing(d)' \cup Coming(task[d], revs)
  PROVE  ShownInv'
<1> DEFINE S1 == Showing(d)
           S2 == Showing(d)'
           s == store[d]
<1>1. S1 \subseteq S2 \cup Coming(task[d], revs)
  <2>1. TextOf(disk'[d]) \cup GivenUp' \subseteq S2
    BY DEF Showing
  <2>2. S1 = TextOf(disk[d]) \cup Copied(d) \cup GivenUp
    BY DEF Showing
  <2> HIDE DEF S1, S2
  <2> QED BY <2>1, <2>2 DEF S2
<1>2. /\ FeedShown(s, task[d], revs, log, S1) /\ s.cursor \in Nat /\ Len(log) \in Nat
  BY LogFits, DeviceRanges DEF ShownInv, DeviceShown
<1> HIDE DEF S1, S2
<1>3. FeedShown(s, task[d], revs, log, S2)
  <2> HIDE DEF s
  <2> QED BY <1>1, <1>2, FeedLess
<1>4. FeedShown(store[d], task[d], revs, log, Showing(d)')
  BY <1>3 DEF S2
<1> QED BY <1>4, FileShownStep

LEMMA SweepShown ==
  ASSUME DeliverInv, ShownInv, kind = "note", NEW d \in Devices, NEW r, Sweep(d, r)
  PROVE  ShownInv'
<1> DEFINE merged == MergeOver(d, r, disk[d])
           mine == disk[d]
           G == GivenUp
           hash == store[d].hash
<1>1. UNCHANGED <<kind, revs, log, store, task, dropped, trash>> /\ GivenUp' = G
  BY DEF Sweep, ApplyFrame, GivenUp
<1>2. CASE UNCHANGED <<disk, copies>>
  BY <1>1, <1>2, ShownSame
<1>3. CASE ~UNCHANGED <<disk, copies>>
  <2>1. /\ r \in copies[d] /\ Content(r) # Gone /\ mine # Gone /\ merged # Conflict
        /\ disk' = [disk EXCEPT ![d] = merged] /\ copies' = [copies EXCEPT ![d] = @ \ {r}]
    BY <1>3 DEF Sweep
  <2>2. r \in Accepted /\ mine \in Text /\ PastShown(revs, G)
    BY <2>1 DEF DeliverInv, ShownInv
  <2>3. /\ mine \subseteq merged \cup G /\ merged \in Text
        /\ Content(r) \subseteq merged \cup G \cup (TextOf(hash) \ mine)
    BY <2>1, <2>2, MergeShows
  <2>4. /\ TextOf(mine) = mine /\ TextOf(merged) = merged /\ TextOf(Content(r)) = Content(r)
    BY <2>1, <2>2, <2>3, TextIsText DEF TextOf
  <2>5. TextOf(hash) \subseteq mine \cup G \cup Coming(task[d], revs)
    BY <2>4 DEF ShownInv, DeviceShown, ApplyShown
  <2>6. /\ disk'[d] = merged /\ copies'[d] = copies[d] \ {r}
        /\ \A e \in Devices : e # d => disk'[e] = disk[e] /\ copies'[e] = copies[e]
    BY <2>1 DEF DeliverInv
  <2>7. Copied(d) \subseteq Showing(d)' \cup Coming(task[d], revs)
    <3> DEFINE C2 == Copied(d)'
               S2 == Showing(d)'
    <3>1. Copied(d) \subseteq C2 \cup Content(r)
      <4>1. C2 = UNION {TextOf(revs[q].content) : q \in copies[d] \ {r}}
        BY <1>1, <2>6 DEF Copied, Edits, Content
      <4>2. Copied(d) = UNION {TextOf(revs[q].content) : q \in copies[d]}
        BY DEF Copied, Edits, Content
      <4>3. TextOf(revs[r].content) = Content(r)
        BY <2>4 DEF Content
      <4> HIDE DEF C2
      <4> QED BY <4>1, <4>2, <4>3
    <3>2. S2 = merged \cup C2 \cup G
      BY <1>1, <2>4, <2>6 DEF Showing
    <3> HIDE DEF C2, S2, merged, mine, hash, G
    <3>3. Copied(d) \subseteq S2 \cup Coming(task[d], revs)
      BY <2>3, <2>5, <3>1, <3>2
    <3> QED BY <3>3 DEF S2
  <2>8. TextOf(disk[d]) \subseteq TextOf(disk'[d]) \cup GivenUp' /\ disk[d] # Gone
    BY <1>1, <2>1, <2>3, <2>4, <2>6
  <2> HIDE DEF merged, mine, hash, G
  <2> QED BY <1>1, <2>6, <2>7, <2>8, FilesShown DEF G
<1> QED BY <1>2, <1>3

LEMMA UserShown ==
  ASSUME DeliverInv, ShownInv, kind = "note", NEW d \in Devices, User(d) \/ Save(d),
         \A e \in Devices : trash[e] \subseteq trash'[e]
  PROVE  ShownInv'
<1> USE DEF EditFrame, ResolveFrame
<1>1. UNCHANGED <<kind, revs, log, store, task>> /\ dropped \subseteq dropped'
  BY DEF User, Save, Type, WriteFile, DeleteNote, KeepMine, KeepTheirs
<1>2. GivenUp \subseteq GivenUp' /\ dropped' \subseteq GivenUp'
  BY <1>1 DEF GivenUp
<1>3. /\ TextOf(disk'[d]) \subseteq Showing(d)' /\ Copied(d)' \subseteq Showing(d)' /\ GivenUp' \subseteq Showing(d)'
  BY DEF Showing
<1>4. ASSUME UNCHANGED copies
      PROVE  Copied(d) \subseteq Showing(d)'
  BY <1>1, <1>3, <1>4 DEF Copied, Edits, Content
<1>5. CASE Type(d)
  BY <1>1, <1>5, ShownSame DEF Type
<1>6. CASE Save(d)
  <2>1. /\ disk' = [disk EXCEPT ![d] = @ \cup {typed[d]}] /\ UNCHANGED copies
        /\ typed[d] # 0 /\ disk[d] \in Text /\ typed[d] \in 1..MaxEdits
    BY <1>6 DEF Save, DeliverInv, Editing
  <2>2. disk[d] \cup {typed[d]} \in Text
    BY <2>1 DEF Text, Edit
  <2>3. /\ disk'[d] = disk[d] \cup {typed[d]}
        /\ \A e \in Devices : e # d => disk'[e] = disk[e] /\ copies'[e] = copies[e]
    BY <2>1 DEF DeliverInv
  <2>4. TextOf(disk[d]) \subseteq TextOf(disk'[d]) /\ disk[d] # Gone
    BY <2>1, <2>2, <2>3, TextIsText
  <2> QED BY <1>1, <1>2, <1>4, <2>1, <2>3, <2>4, FilesShown
<1>7. CASE WriteFile(d)
  BY <1>7 DEF WriteFile
<1>8. CASE DeleteNote(d)
  <2>1. /\ disk' = [disk EXCEPT ![d] = Gone] /\ dropped' = dropped \cup disk[d]
        /\ UNCHANGED copies /\ disk[d] # Gone
    BY <1>8 DEF DeleteNote
  <2>2. TextOf(disk[d]) \subseteq GivenUp'
    BY <1>2, <2>1 DEF TextOf
  <2>3. /\ disk'[d] = Gone
        /\ \A e \in Devices : e # d => disk'[e] = disk[e] /\ copies'[e] = copies[e]
    BY <2>1 DEF DeliverInv
  <2> QED BY <1>1, <1>2, <1>4, <2>1, <2>2, <2>3, FilesShown
<1>9. ASSUME NEW r \in copies[d], KeepMine(d, r) \/ KeepTheirs(d, r)
      PROVE  ShownInv'
  <2>1. copies' = [copies EXCEPT ![d] = @ \ {r}]
    BY <1>9 DEF KeepMine, KeepTheirs, Resolving
  <2>2. copies'[d] = copies[d] \ {r} /\ \A e \in Devices : e # d => copies'[e] = copies[e]
    BY <2>1 DEF DeliverInv
  <2>3. Copied(d) \subseteq Copied(d)' \cup TextOf(Content(r))
    <3> DEFINE C2 == Copied(d)'
    <3>1. C2 = UNION {TextOf(revs[q].content) : q \in copies[d] \ {r}}
      BY <1>1, <2>2 DEF Copied, Edits, Content
    <3>2. Copied(d) = UNION {TextOf(revs[q].content) : q \in copies[d]}
      BY DEF Copied, Edits, Content
    <3>3. TextOf(revs[r].content) = TextOf(Content(r))
      BY DEF Content
    <3> HIDE DEF C2
    <3>4. Copied(d) \subseteq C2 \cup TextOf(Content(r))
      BY <3>1, <3>2, <3>3
    <3> QED BY <3>4 DEF C2
  <2>4. CASE KeepMine(d, r)
    <3>1. TextOf(Content(r)) \subseteq GivenUp' /\ disk' = disk
      BY <1>2, <2>4 DEF KeepMine, TextOf
    <3>2. Copied(d) \subseteq Showing(d)'
      BY <1>3, <2>3, <3>1
    <3> QED BY <1>1, <1>2, <2>2, <3>1, <3>2, FilesShown
  <2>5. CASE KeepTheirs(d, r)
    <3>1. /\ disk' = [disk EXCEPT ![d] = Content(r)] /\ (disk[d] # Gone \/ Content(r) = Gone)
          /\ dropped' = IF disk[d] = Gone THEN dropped ELSE dropped \cup disk[d]
      BY <2>5 DEF KeepTheirs
    <3>2. TextOf(disk[d]) \subseteq GivenUp'
      BY <1>2, <3>1 DEF TextOf
    <3>3. disk'[d] = Content(r) /\ \A e \in Devices : e # d => disk'[e] = disk[e]
      BY <3>1 DEF DeliverInv
    <3>4. Copied(d) \subseteq Showing(d)'
      BY <1>3, <2>3, <3>3
    <3>5. disk[d] = Gone => disk'[d] = Gone
      BY <3>1, <3>3
    <3> QED BY <1>1, <1>2, <2>2, <3>2, <3>3, <3>4, <3>5, FilesShown
  <2> QED BY <1>9, <2>4, <2>5
<1> QED BY <1>5, <1>6, <1>7, <1>8, <1>9 DEF User

LEMMA RestartShown ==
  ASSUME DeliverInv, ShownInv, kind = "note", NEW d \in Devices, Restart(d)
  PROVE  ShownInv'
<1> DEFINE s == Undone(store[d])
           u == bootstrapIdentities(d, s)
           h == CHOOSE x \in Heads : TRUE
           c == Content(h)
           text == disk[d]
           G == GivenUp'
<1>1. /\ KeepTask(d, u) /\ Goto(d, Idle) /\ UNCHANGED <<kind, revs, log, disk, trash, copies>>
      /\ dropped \subseteq dropped'
  BY DEF Restart
<1>2. GivenUp \subseteq G /\ Accepted' = Accepted /\ Showing(d) \subseteq Showing(d)'
  <2>1. GivenUp \subseteq GivenUp'
    BY <1>1 DEF GivenUp
  <2>2. Copied(d)' = Copied(d)
    BY <1>1 DEF Copied, Edits, Content
  <2> QED BY <1>1, <2>1, <2>2 DEF Showing, Accepted
<1>3. /\ IsStore(s) /\ ~s.journal.open /\ s.cursor = store[d].cursor /\ s.authored \subseteq Accepted
      /\ Standing(s, revs, text, GivenUp) /\ PastShown(revs, GivenUp) /\ LogOrdered(revs, log)
      /\ s.authored \cup s.queue \subseteq 1..Len(revs) /\ Grows(revs, revs)
      /\ FeedShown(store[d], task[d], revs, log, Showing(d))
      /\ store[d].cursor \in Nat /\ Len(log) \in Nat
  BY UndoneFits, DeviceRanges, LogFits, Same DEF ShownInv, DeviceShown
<1>4. Standing(s, revs, text, G)
  <2> HIDE DEF s, G, text
  <2> QED BY <1>2, <1>3, StandingStays
<1>5. /\ IsStore(u) /\ ~u.journal.open /\ u.authored = s.authored /\ u.cursor = s.cursor
      /\ Standing(u, revs, text, G)
  <2>1. CASE u = s
    <3> HIDE DEF u
    <3> QED BY <1>3, <1>4, <2>1
  <2>2. CASE u # s
    <3>1. /\ Cardinality(Heads) = 1 /\ {Content(x) : x \in Heads} = {text}
          /\ u = Adopted(Recorded(s, text), h)
      BY <2>2 DEF bootstrapIdentities
    <3>2. u = [[s EXCEPT !.base = text, !.owner = TRUE] EXCEPT !.head = h, !.hash = c]
      BY <3>1 DEF Adopted, Recorded
    <3>3. c = text
      <4>1. Heads # {}
        BY <3>1
      <4>2. h \in Heads
        BY <4>1
      <4> HIDE DEF h
      <4> QED BY <3>1, <4>2
    <3> HIDE DEF s, u, h, c, text, G
    <3>4. /\ IsStore(u) /\ u.journal = s.journal /\ u.queue = s.queue /\ u.authored = s.authored
          /\ u.cursor = s.cursor /\ u.base = text /\ u.hash = text
      BY <1>3, <3>2, <3>3 DEF IsStore
    <3> QED BY <1>3, <1>4, <3>4 DEF Standing, BaseShown, MineShown
  <2> QED BY <2>1, <2>2
<1> HIDE DEF u, s
<1>6. Standing(Undone(u), revs, text, G) /\ ApplyShown(u, Idle, revs, text, G)
  <2> HIDE DEF text, G
  <2> QED BY <1>5, IdleStep, StandingApply
<1>7. FeedShown(u, Idle, revs, log, Showing(d)')
  <2> DEFINE S1 == Showing(d)
             S2 == Showing(d)'
  <2>1. S1 \subseteq S2 /\ FeedShown(store[d], task[d], revs, log, S1) /\ u.cursor = store[d].cursor
    BY <1>2, <1>3, <1>5
  <2> HIDE DEF S1, S2
  <2>2. FeedShown(store[d], task[d], revs, log, S2)
    BY <1>3, <2>1, FeedLess
  <2>3. FeedShown(u, Idle, revs, log, S2)
    BY <2>1, <2>2, IdleStep, FeedTask
  <2> QED BY <2>3 DEF S2
<1>8. PastShown(revs, G)
  BY <1>2, <1>3 DEF PastShown
<1>9. /\ Standing(Undone(u), revs', disk'[d], GivenUp') /\ ApplyShown(u, Idle, revs', disk'[d], GivenUp')
      /\ PastShown(revs', GivenUp') /\ LogOrdered(revs', log') /\ u.authored \subseteq Accepted'
      /\ Grows(revs, revs') /\ Accepted \subseteq Accepted' /\ GivenUp \subseteq GivenUp'
      /\ Len(log') \in Nat /\ Len(log) <= Len(log') /\ \A i \in 1..Len(log) : log'[i] = log[i]
  BY <1>1, <1>2, <1>3, <1>5, <1>6, <1>8
<1>10. FeedShown(u, Idle, revs', log', Showing(d)')
  BY <1>1, <1>7
<1>11. /\ store' = [store EXCEPT ![d] = u] /\ task' = [task EXCEPT ![d] = Idle]
       /\ \A e \in Devices : e # d => disk'[e] = disk[e] /\ copies'[e] = copies[e]
  BY <1>1 DEF KeepTask, Goto
<1> QED BY <1>9, <1>10, <1>11, ShownStep

-----------------------------------------------------------------------------
(* Reconciling: a file that stands for all heads shows all heads.          *)

LEMMA SetInduction ==
  ASSUME NEW S, 0 \in S, \A n \in Nat : n \in S => n + 1 \in S
  PROVE  Nat \subseteq S
<1> DEFINE T == Nat \ S
           R == OpToRel(<, Nat)
<1>1. SUFFICES ASSUME T # {} PROVE FALSE
  OBVIOUS
<1>2. IsWellFoundedOn(R, Nat)
  BY NatLessThanWellFounded
<1> HIDE DEF R
<1>3. PICK x \in T : \A y \in T : ~ (<<y, x>> \in R)
  <2> HIDE DEF T
  <2>1. T \subseteq Nat
    BY DEF T
  <2> QED BY <1>1, <1>2, <2>1, WFMin
<1>4. x # 0 /\ x - 1 \in Nat /\ x - 1 < x
  OBVIOUS
<1>5. x - 1 \in T
  BY <1>4
<1>6. <<x - 1, x>> \in R
  BY <1>3, <1>4 DEF R, OpToRel
<1> QED BY <1>3, <1>5, <1>6

\* What was folded so far is in the text.
FoldFits(acc, rs, given) ==
    /\ acc = [ok |-> acc.ok, lineage |-> acc.lineage, text |-> acc.text]
    /\ acc.ok => /\ acc.text \in Text /\ acc.lineage \subseteq 1..Len(rs)
                 /\ \A e \in acc.lineage : Says(rs, e) \subseteq acc.text \cup given

LEMMA FoldHeadShows ==
  ASSUME DeliverInv, NEW given, PastShown(revs, given), NEW d \in Devices, NEW h \in Accepted,
         NEW acc, FoldFits(acc, revs, given), NEW next, next = FoldHead(d, acc, h)
  PROVE  /\ FoldFits(next, revs, given)
         /\ next.ok => /\ acc.ok /\ acc.text \subseteq next.text \cup given
                       /\ Says(revs, h) \subseteq next.text \cup given
<1> DEFINE graph == Graph(d)
           past == Ancestors(graph, h)
           common == acc.lineage \cap past \cap graph
           equivalent == \E e \in acc.lineage \cap graph :
                           /\ Cardinality(revs[h].parents) > 1 /\ revs[e].parents = revs[h].parents
                           /\ Content(e) = Content(h)
           base == Nearest(common)
           mergeable == base # 0 /\ Content(base) # Gone
           text == IF Content(h) = acc.text \/ equivalent THEN acc.text
                   ELSE IF mergeable THEN MergeText(Content(base), acc.text, Content(h)) ELSE Conflict
           longer == [ok |-> TRUE, lineage |-> acc.lineage \cup past, text |-> text]
<1>1. /\ h \in 1..Len(revs) /\ past = revs[h].past /\ past \subseteq 1..Len(revs)
      /\ \A e \in past : Says(revs, e) \subseteq Says(revs, h) \cup given
  <2>1. h \in 1..Len(revs) /\ past = revs[h].past
    BY Same DEF Ancestors, Graph
  <2>2. revs[h].past \subseteq 1..h
    BY <2>1 DEF DeliverInv, RevisionsFit
  <2> HIDE DEF past
  <2> QED BY <2>1, <2>2, Same DEF PastShown
<1>2. \/ next = acc /\ (~acc.ok \/ h \in acc.lineage)
      \/ next = [acc EXCEPT !.ok = FALSE] /\ acc.ok
      \/ next = longer /\ acc.ok /\ Content(h) # Gone /\ text # Conflict
  BY DEF FoldHead
<1>3. CASE next = acc /\ (~acc.ok \/ h \in acc.lineage)
  BY <1>3 DEF FoldFits
<1>4. CASE next = [acc EXCEPT !.ok = FALSE] /\ acc.ok
  BY <1>4 DEF FoldFits
<1>5. CASE next = longer /\ acc.ok /\ Content(h) # Gone /\ text # Conflict
  <2>1. /\ Content(h) \in Text /\ Says(revs, h) = Content(h) /\ TextOf(Content(h)) = Content(h)
    BY <1>1, <1>5 DEF DeliverInv, RevisionsFit, Content, Says, TextOf
  <2>2. /\ acc.text \in Text /\ acc.lineage \subseteq 1..Len(revs)
        /\ \A e \in acc.lineage : Says(revs, e) \subseteq acc.text \cup given
    BY <1>5 DEF FoldFits
  <2>3. /\ text \in Text /\ acc.text \subseteq text \cup given /\ Content(h) \subseteq text \cup given
    <3>1. CASE Content(h) = acc.text
      BY <2>2, <3>1
    <3>2. CASE equivalent
      <4>1. PICK e \in acc.lineage : Content(e) = Content(h)
        BY <3>2
      <4>2. Says(revs, e) = Content(h)
        BY <2>1, <4>1 DEF Says, Content
      <4> QED BY <2>2, <3>2, <4>1, <4>2
    <3>3. CASE ~(Content(h) = acc.text \/ equivalent)
      <4>1. mergeable /\ text = MergeText(Content(base), acc.text, Content(h))
        BY <1>5, <3>3
      <4>2. base \in acc.lineage /\ base \in past
        <5> HIDE DEF common
        <5>1. base \in common
          BY <4>1, NearestIn
        <5> QED BY <5>1 DEF common
      <4>3. Content(base) \in Text /\ Says(revs, base) = Content(base)
        BY <2>2, <4>1, <4>2 DEF DeliverInv, RevisionsFit, Content, Says, TextOf
      <4>4. Content(base) \subseteq Content(h) \cup given /\ Content(base) \subseteq acc.text \cup given
        BY <1>1, <2>1, <2>2, <4>2, <4>3
      <4> DEFINE a == Content(base)
                 m == acc.text
                 c == Content(h)
      <4>5. MergeText(a, m, c) # Conflict /\ a \subseteq c \cup given /\ a \subseteq m \cup given
        BY <1>5, <4>1, <4>4
      <4>6. a \in Text /\ m \in Text /\ c \in Text
        BY <2>1, <2>2, <4>3
      <4> HIDE DEF a, m, c
      <4>7. /\ m \subseteq MergeText(a, m, c) \cup given /\ c \subseteq MergeText(a, m, c) \cup given \cup (m \ m)
        BY <4>5, MergeTextShows
      <4>8. MergeText(a, m, c) \in Text
        BY <4>5, <4>6 DEF MergeText, Text
      <4>9. text = MergeText(a, m, c)
        BY <4>1 DEF a, m, c
      <4> HIDE DEF text
      <4>10. m \subseteq text \cup given /\ c \subseteq text \cup given /\ text \in Text
        BY <4>7, <4>8, <4>9
      <4> QED BY <4>10 DEF m, c
    <3> QED BY <3>1, <3>2, <3>3
  <2>4. next.ok /\ next.lineage = acc.lineage \cup past /\ next.text = text
    BY <1>5
  <2>5. next = [ok |-> next.ok, lineage |-> next.lineage, text |-> next.text]
    BY <1>5
  <2> HIDE DEF past, text
  <2>6. \A e \in acc.lineage \cup past : Says(revs, e) \subseteq text \cup given
    BY <1>1, <2>1, <2>2, <2>3
  <2> QED BY <1>1, <1>5, <2>1, <2>2, <2>3, <2>4, <2>5, <2>6 DEF FoldFits
<1> QED BY <1>2, <1>3, <1>4, <1>5

\* The fold over the first n revisions of the log.
FoldBody(d, start, f, m) ==
    IF m = 0 THEN start ELSE IF log[m] \in Heads THEN FoldHead(d, f[m - 1], log[m]) ELSE f[m - 1]
FoldUpTo(d, start, n, f) == f = [m \in 0..n |-> FoldBody(d, start, f, m)]

LEMMA FoldExists ==
  ASSUME NEW d, NEW start, NEW n \in Nat
  PROVE  \E f : FoldUpTo(d, start, n, f)
<1> DEFINE S == {k \in Nat : \E f : FoldUpTo(d, start, k, f)}
<1>1. 0 \in S
  <2> DEFINE f == [m \in 0..0 |-> start]
  <2>1. \A m \in 0..0 : FoldBody(d, start, f, m) = start
    BY DEF FoldBody
  <2> HIDE DEF f
  <2>2. f = [m \in 0..0 |-> FoldBody(d, start, f, m)]
    BY <2>1 DEF f
  <2> QED BY <2>2 DEF FoldUpTo
<1>2. ASSUME NEW k \in Nat, k \in S
      PROVE  k + 1 \in S
  <2>1. PICK f : FoldUpTo(d, start, k, f)
    BY <1>2
  <2> DEFINE g == [m \in 0..(k + 1) |-> IF m \in 0..k THEN f[m] ELSE FoldBody(d, start, f, m)]
  <2>2. \A m \in 0..k : f[m] = FoldBody(d, start, f, m) /\ g[m] = f[m]
    BY <2>1 DEF FoldUpTo
  <2>3. \A m \in 0..(k + 1) : g[m] = FoldBody(d, start, f, m)
    BY <2>2
  <2>4. \A m \in 0..(k + 1) : m # 0 => m - 1 \in 0..k /\ g[m - 1] = f[m - 1]
    BY <2>2
  <2>5. g = [m \in 0..(k + 1) |-> g[m]]
    OBVIOUS
  <2> HIDE DEF g
  <2>6. \A m \in 0..(k + 1) : g[m] = FoldBody(d, start, g, m)
    BY <2>3, <2>4 DEF FoldBody
  <2>7. g = [m \in 0..(k + 1) |-> FoldBody(d, start, g, m)]
    BY <2>5, <2>6
  <2> QED BY <2>7 DEF FoldUpTo
<1> HIDE DEF S
<1>3. Nat \subseteq S
  BY <1>1, <1>2, SetInduction
<1> QED BY <1>3 DEF S

LEMMA FoldedIs ==
  ASSUME DeliverInv, NEW d \in Devices
  PROVE  \E f : /\ FoldUpTo(d, [ok |-> TRUE, lineage |-> Ancestors(Graph(d), store[d].head), text |-> disk[d]],
                            Len(log), f)
                /\ Folded(d) = f[Len(log)]
<1> DEFINE start == [ok |-> TRUE, lineage |-> Ancestors(Graph(d), store[d].head), text |-> disk[d]]
           F == CHOOSE f : f = [n \in 0..Len(log) |->
                  IF n = 0 THEN start ELSE IF log[n] \in Heads THEN FoldHead(d, f[n - 1], log[n]) ELSE f[n - 1]]
<1>1. Folded(d) = F[Len(log)]
  BY DEF Folded
<1>2. Len(log) \in Nat
  BY LogFits
<1> HIDE DEF start
<1>3. PICK f : FoldUpTo(d, start, Len(log), f)
  BY <1>2, FoldExists
<1>4. f = [n \in 0..Len(log) |->
             IF n = 0 THEN start ELSE IF log[n] \in Heads THEN FoldHead(d, f[n - 1], log[n]) ELSE f[n - 1]]
  BY <1>3 DEF FoldUpTo, FoldBody
<1>5. F = [n \in 0..Len(log) |->
             IF n = 0 THEN start ELSE IF log[n] \in Heads THEN FoldHead(d, F[n - 1], log[n]) ELSE F[n - 1]]
  BY <1>4
<1> HIDE DEF F
<1>6. FoldUpTo(d, start, Len(log), F)
  BY <1>5 DEF FoldUpTo, FoldBody
<1> QED BY <1>1, <1>6 DEF start

LEMMA HeadsShown ==
  ASSUME DeliverInv, ShownInv, kind = "note", NEW d \in Devices, Reconcilable(d), NEW h \in Heads
  PROVE  Says(revs, h) \subseteq TextOf(disk[d]) \cup GivenUp
<1> DEFINE s == store[d]
           G == GivenUp
           start == [ok |-> TRUE, lineage |-> Ancestors(Graph(d), s.head), text |-> disk[d]]
<1>1. /\ task[d] = Idle /\ s.head # 0 /\ s.hash # Gone /\ disk[d] = s.hash
      /\ Folded(d).ok /\ Folded(d).text = disk[d]
  BY DEF Reconcilable, Represented
<1>2. /\ s.head \in Graph(d) /\ s.head \in 1..Len(revs) /\ revs[s.head].content = s.hash
      /\ PastShown(revs, G) /\ disk[d] \in Text
  BY <1>1, AtRest, IdleStep DEF Sound, ShownInv, DeliverInv
<1>3. FoldFits(start, revs, G)
  <2>1. Ancestors(Graph(d), s.head) = revs[s.head].past /\ revs[s.head].past \subseteq 1..s.head
    BY <1>2 DEF Ancestors, DeliverInv, RevisionsFit
  <2>2. Says(revs, s.head) = disk[d]
    BY <1>1, <1>2, TextIsText DEF Says
  <2>3. \A e \in revs[s.head].past : e \in 1..Len(revs) /\ Says(revs, e) \subseteq disk[d] \cup G
    BY <1>2, <2>1, <2>2, Same DEF PastShown
  <2>4. /\ start.ok /\ start.lineage = revs[s.head].past /\ start.text = disk[d]
        /\ start = [ok |-> start.ok, lineage |-> start.lineage, text |-> start.text]
    BY <2>1
  <2> HIDE DEF start, G
  <2> QED BY <1>2, <2>3, <2>4 DEF FoldFits
<1>4. PICK f : FoldUpTo(d, start, Len(log), f) /\ Folded(d) = f[Len(log)]
  BY FoldedIs
<1>5. Len(log) \in Nat /\ \A i \in 1..Len(log) : log[i] \in Accepted
  BY LogFits
<1> HIDE DEF start, G, s
<1>6. \A m \in 0..Len(log) : f[m] = FoldBody(d, start, f, m)
  BY <1>4 DEF FoldUpTo
<1> DEFINE ShownUpTo(n) ==
             /\ FoldFits(f[n], revs, G)
             /\ f[n].ok => \A i \in 1..n : log[i] \in Heads => Says(revs, log[i]) \subseteq f[n].text \cup G
           S == {n \in Nat : n <= Len(log) => ShownUpTo(n)}
<1>7. 0 \in S
  <2>1. f[0] = start
    BY <1>5, <1>6 DEF FoldBody
  <2>2. ShownUpTo(0)
    BY <1>3, <2>1
  <2> HIDE DEF ShownUpTo
  <2> QED BY <2>2
<1>8. ASSUME NEW n \in Nat, n \in S
      PROVE  n + 1 \in S
  <2> SUFFICES ASSUME n + 1 <= Len(log) PROVE ShownUpTo(n + 1)
    BY <1>5
  <2>1. ShownUpTo(n)
    BY <1>5, <1>8
  <2>2. f[n + 1] = IF log[n + 1] \in Heads THEN FoldHead(d, f[n], log[n + 1]) ELSE f[n]
    BY <1>5, <1>6 DEF FoldBody
  <2>3. \A i \in 1..(n + 1) : i \in 1..n \/ i = n + 1
    OBVIOUS
  <2>4. CASE log[n + 1] \notin Heads
    BY <2>1, <2>2, <2>3, <2>4
  <2>5. CASE log[n + 1] \in Heads
    <3>1. log[n + 1] \in Accepted /\ f[n + 1] = FoldHead(d, f[n], log[n + 1])
      BY <1>5, <2>2, <2>5
    <3>2. /\ FoldFits(f[n + 1], revs, G)
          /\ f[n + 1].ok => /\ f[n].ok /\ f[n].text \subseteq f[n + 1].text \cup G
                            /\ Says(revs, log[n + 1]) \subseteq f[n + 1].text \cup G
      BY <1>2, <2>1, <3>1, FoldHeadShows
    <3> QED BY <2>1, <2>3, <3>2
  <2> QED BY <2>4, <2>5
<1> HIDE DEF S
<1>9. Nat \subseteq S
  BY <1>7, <1>8, SetInduction
<1>10. ShownUpTo(Len(log))
  BY <1>5, <1>9 DEF S
<1>11. PICK i \in 1..Len(log) : log[i] = h
  <2>1. log \in Seq(1..Len(revs)) /\ DOMAIN log = 1..Len(log)
    BY DEF DeliverInv
  <2>2. h \in {log[k] : k \in 1..Len(log)}
    BY <2>1 DEF Heads, Accepted, Range
  <2> QED BY <2>2
<1>12. Says(revs, h) \subseteq disk[d] \cup G
  BY <1>1, <1>4, <1>10, <1>11
<1>13. TextOf(disk[d]) = disk[d]
  BY <1>2, TextIsText
<1> QED BY <1>12, <1>13 DEF G

LEMMA ReconcileShown ==
  ASSUME DeliverInv, ShownInv, kind = "note", NEW d \in Devices, Reconcile(d)
  PROVE  ShownInv'
<1> DEFINE s == store[d]
           n == Len(revs) + 1
           text == disk[d]
           G == GivenUp
<1>1. /\ task[d] = Idle /\ text = s.hash /\ s.hash # Gone /\ s.head # 0 /\ Reconcilable(d)
      /\ UNCHANGED <<kind, log, disk, task, copies, dropped, trash>>
      /\ \A e \in Devices : copies[e] \subseteq copies'[e] /\ (e # d => copies'[e] = copies[e])
      /\ Goto(d, Idle)
  BY DEF Reconcile, Reconcilable, ApplyFrame, Goto, DeliverInv
<1>2. /\ IsStore(s) /\ ~s.journal.open /\ Standing(s, revs, text, G) /\ PastShown(revs, G)
      /\ s.authored \subseteq Accepted /\ Accepted \subseteq 1..Len(revs) /\ Heads \subseteq 1..Len(revs)
  BY <1>1, AtRest, RestShown, IdleStep, Same DEF ShownInv, DeviceShown, Heads
<1>3. ASSUME NEW head, NEW queue, NEW u, u = Swapped(d, head, queue), KeepTask(d, u),
             Grows(revs, revs'), PastShown(revs', G),
             \A q \in queue : Says(revs', q) \subseteq TextOf(text) \cup G
      PROVE  ShownInv'
  <2>1. u = [s EXCEPT !.head = head, !.queue = queue, !.backups = @ \cup s.queue, !.owner = TRUE,
                      !.base = IF @ = Gone THEN text ELSE @]
    BY <1>3 DEF Swapped, Queued
  <2> HIDE DEF s, text
  <2>2. /\ IsStore(u) /\ u.journal = s.journal /\ u.queue = queue /\ u.authored = s.authored
        /\ u.hash = s.hash /\ u.cursor = s.cursor /\ u.base \in {s.base, text}
    BY <1>2, <2>1 DEF IsStore
  <2>3. TextOf(s.base) \subseteq TextOf(s.hash) \cup G
    BY <1>1, <1>2 DEF Standing, BaseShown
  <2>4. \A q \in s.authored : Says(revs', q) = Says(revs, q)
    BY <1>2, <1>3 DEF Grows, Says
  <2>5. MineShown(u, revs', TextOf(text) \cup G)
    BY <1>2, <1>3, <2>2, <2>4 DEF Standing, MineShown
  <2>6. BaseShown(u, G) /\ TextOf(u.hash) \subseteq TextOf(text) \cup G
    BY <1>1, <2>2, <2>3 DEF BaseShown
  <2>7. Standing(u, revs', text, G)
    BY <2>5, <2>6 DEF Standing
  <2>8. u.cursor = store[d].cursor
    BY <2>2 DEF s
  <2>9. FeedShown(u, Idle, revs', log, Showing(d)')
    BY <1>1, <1>3, <2>8, IdleStep, FeedStarts
  <2>10. ~u.journal.open /\ u.authored \subseteq Accepted
    BY <1>2, <2>2
  <2>11. Standing(u, revs', disk[d], GivenUp)
    BY <2>7 DEF text
  <2> QED BY <1>1, <1>3, <2>2, <2>9, <2>10, <2>11, IdleStep, ShownRest
<1>4. CASE AdoptsHead(d)
  <2> DEFINE h == CHOOSE x \in Heads : TRUE
             u == Swapped(d, h, {})
  <2>1. UNCHANGED revs /\ KeepTask(d, u)
    BY <1>4 DEF Reconcile
  <2>2. Grows(revs, revs') /\ PastShown(revs', G)
    BY <1>2, <2>1, Same
  <2>3. \A q \in {} : Says(revs', q) \subseteq TextOf(text) \cup G
    OBVIOUS
  <2>4. u = Swapped(d, h, {})
    OBVIOUS
  <2> HIDE DEF u, h
  <2> QED BY <1>3, <2>1, <2>2, <2>3, <2>4
<1>5. CASE ~AdoptsHead(d)
  <2> DEFINE u == Swapped(d, n, {n})
  <2>1. NewRevision(Heads, text) /\ KeepTask(d, u)
    BY <1>5 DEF Reconcile
  <2>2. /\ Grows(revs, revs') /\ RevisionsFit(revs) /\ RevisionsFit(revs')
        /\ Len(revs) \in Nat /\ Len(revs') = n
        /\ revs'[n].parents = Heads /\ revs'[n].content = text
    <3>1. text \in Text \cup {Gone} /\ text # Gone /\ RevisionsFit(revs)
      BY <1>1 DEF DeliverInv
    <3> HIDE DEF text
    <3> QED BY <1>2, <2>1, <3>1, NewFits
  <2>3. Says(revs', n) = TextOf(text)
    BY <2>2 DEF Says
  <2>4. \A p \in Heads : Says(revs, p) \subseteq Says(revs', n) \cup G
    BY <1>1, <2>3, HeadsShown
  <2>5. PastShown(revs', G)
    <3> HIDE DEF text, G
    <3> QED BY <1>2, <2>2, <2>4, NewPast
  <2>6. \A q \in {n} : Says(revs', q) \subseteq TextOf(text) \cup G
    BY <2>3
  <2>7. u = Swapped(d, n, {n})
    OBVIOUS
  <2> HIDE DEF u, n
  <2> QED BY <1>3, <2>1, <2>2, <2>5, <2>6, <2>7
<1> QED BY <1>4, <1>5

-----------------------------------------------------------------------------
(* A device that has read the whole feed shows all of it.                  *)

LEMMA NextShown ==
  ASSUME DeliverInv, ShownInv, TrashFits, [Next]_vars
  PROVE  ShownInv'
<1>1. kind' = kind /\ \A e \in Devices : trash[e] \subseteq trash'[e]
  BY TrashStays
<1>2. CASE kind # "note"
  BY <1>1, <1>2 DEF ShownInv
<1>3. CASE UNCHANGED vars
  BY <1>3, ShownSame DEF vars, devices
<1>4. CASE kind = "note" /\ Next
  <2>1. PICK d \in Devices :
          \/ User(d) \/ Save(d) \/ Observe(d) \/ Push(d, TRUE) \/ ApplyStep(d) \/ Reconcile(d) \/ Restart(d)
          \/ Push(d, FALSE) \/ \E r \in sweep[d] : Sweep(d, r)
    BY <1>4 DEF Next
  <2> QED BY <1>1, <1>4, <2>1, UserShown, ObserveShown, PushShown, ApplyStepShown, ReconcileShown,
             RestartShown, SweepShown
<1> QED BY <1>2, <1>3, <1>4

LEMMA InitShown == Init => ShownInv
<1> SUFFICES ASSUME Init PROVE ShownInv
  OBVIOUS
<1>1. PICK new \in SUBSET (Devices \ {Author}) :
        /\ disk = [d \in Devices |-> IF d \in new THEN Gone ELSE {}]
        /\ store = [d \in Devices |->
             IF d \in new THEN NewStore
             ELSE [NewStore EXCEPT !.head = 1, !.hash = {}, !.base = {}, !.owner = TRUE,
                                   !.authored = IF d = Author THEN {1} ELSE {}, !.cursor = 1]]
  BY DEF Init
<1> DEFINE first == [parents |-> {}, past |-> {1}, content |-> {}]
<1>2. /\ revs = <<first>> /\ log = <<1>> /\ task = [d \in Devices |-> Idle]
      /\ revs[1] = first /\ Len(revs) = 1 /\ Len(log) = 1 /\ log[1] = 1 /\ Accepted = {1}
  <2>1. revs = <<first>> /\ log = <<1>> /\ task = [d \in Devices |-> Idle]
    BY DEF Init
  <2>2. Accepted = {1}
    BY <2>1 DEF Accepted, Range
  <2> HIDE DEF first
  <2> QED BY <2>1, <2>2
<1>3. TextOf({}) = {} /\ TextOf(Gone) = {}
  BY DEF TextOf
<1>4. /\ Says(revs, 1) = {} /\ revs[1].parents = {} /\ revs[1].past = {1}
      /\ \A i \in 1..Len(log) : i = 1
      /\ \A r \in 1..Len(revs) : r = 1
  <2>1. revs[1].content = {} /\ revs[1].parents = {} /\ revs[1].past = {1}
    BY <1>2
  <2>2. \A i \in 1..1 : i = 1
    OBVIOUS
  <2> HIDE DEF first
  <2> QED BY <1>2, <1>3, <2>1, <2>2 DEF Says
<1> HIDE DEF first
<1>5. PastShown(revs, GivenUp) /\ LogOrdered(revs, log)
  BY <1>2, <1>4 DEF PastShown, LogOrdered
<1>6. ASSUME NEW d \in Devices PROVE DeviceShown(d)
  <2> DEFINE s == store[d]
             mine == IF d = Author THEN {1} ELSE {}
             shown == Showing(d)
  <2>1. \/ s = NewStore
        \/ s = [NewStore EXCEPT !.head = 1, !.hash = {}, !.base = {}, !.owner = TRUE,
                                !.authored = mine, !.cursor = 1]
    BY <1>1
  <2>2. mine \subseteq {1} /\ task[d] = Idle
    BY <1>2
  <2> HIDE DEF s, mine, shown
  <2>3. /\ IsStore(s) /\ ~s.journal.open /\ s.authored \subseteq {1} /\ s.queue = {}
        /\ TextOf(s.hash) = {} /\ TextOf(s.base) = {} /\ s.cursor <= 1
    <3>1. CASE s = NewStore
      BY <1>3, <3>1 DEF NewStore, NoJournal, IsStore
    <3>2. CASE s # NewStore
      <4>1. s = [NewStore EXCEPT !.head = 1, !.hash = {}, !.base = {}, !.owner = TRUE,
                                 !.authored = mine, !.cursor = 1]
        BY <2>1, <3>2
      <4>2. /\ s = [head |-> 1, hash |-> {}, base |-> {}, owner |-> TRUE, queue |-> {}, authored |-> mine,
                    cursor |-> 1, backups |-> {}, artifacts |-> {}, journal |-> NoJournal]
        BY <4>1 DEF NewStore
      <4>3. /\ IsStore(s) /\ ~s.journal.open /\ s.authored = mine /\ s.queue = {}
            /\ s.hash = {} /\ s.base = {} /\ s.cursor = 1
        BY <4>2 DEF IsStore, NoJournal
      <4> QED BY <1>3, <2>2, <4>3
    <3> QED BY <3>1, <3>2
  <2>4. Standing(s, revs, disk[d], GivenUp)
    BY <1>4, <2>3 DEF Standing, BaseShown, MineShown
  <2>5. Standing(Undone(s), revs, disk[d], GivenUp) /\ ApplyShown(s, Idle, revs, disk[d], GivenUp)
    BY <2>3, <2>4, IdleStep, StandingApply
  <2>6. FeedShown(s, Idle, revs, log, shown)
    BY <1>2, <1>4, <2>3, IdleStep DEF FeedShown
  <2> QED BY <1>2, <2>2, <2>3, <2>5, <2>6 DEF DeviceShown, s, shown
<1> QED BY <1>5, <1>6 DEF ShownInv

\* A device that has read the whole feed and is at rest shows every edit the
\* server accepted, in the note or in a conflict copy, unless a user gave it up
\* or a device put it in the trash: whatever was skipped, merged, diverted,
\* retired, swapped or undone on the way.
THEOREM ShownCorrect == Spec => []NothingHidden
<1>1. DeliverInv /\ ShownInv => NothingHidden
  <2> SUFFICES ASSUME DeliverInv, ShownInv, kind = "note", NEW d \in Devices, Quiet(d), NEW r \in Accepted,
                      NEW x \in TextOf(Content(r))
               PROVE  x \in TextOf(disk[d]) \cup Copied(d) \cup GivenUp
    BY DEF NothingHidden, Edits
  <2>1. PICK i \in 1..Len(log) : log[i] = r
    <3>1. log \in Seq(1..Len(revs)) /\ DOMAIN log = 1..Len(log)
      BY DEF DeliverInv
    <3>2. r \in {log[k] : k \in 1..Len(log)}
      BY <3>1 DEF Accepted, Range
    <3> QED BY <3>2
  <2>2. x \in Says(revs, log[i])
    BY <2>1 DEF Says, Content
  <2>3. x \in Showing(d) \/ \E j \in (store[d].cursor + 1)..Len(log) : x \in Says(revs, log[j])
    BY <2>2 DEF ShownInv, DeviceShown, FeedShown
  <2>4. store[d].cursor = Len(log) /\ Len(log) \in Nat
    BY LogFits DEF Quiet
  <2> QED BY <2>3, <2>4 DEF Showing
<1>2. Init => DeliverInv /\ ShownInv /\ TrashFits
  BY InitDeliver, InitShown, InitKept
<1>3. DeliverInv /\ ShownInv /\ TrashFits /\ [Next]_vars => (DeliverInv /\ ShownInv /\ TrashFits)'
  BY NextDeliver, NextShown, TrashStays
<1> QED BY <1>1, <1>2, <1>3, PTL DEF Spec

-----------------------------------------------------------------------------
(* The refresh credential and its family.                                  *)

Chain ==
    /\ rows \subseteq Row
    /\ generation \in Nat
    /\ ChainLinear
    /\ grants \subseteq Pair
    /\ \A g \in grants : \E r \in rows : r.token = g.token /\ r.successor = g.successor

\* The pairs that reach the server are pairs of tokens.
PairsTyped ==
    /\ \A p \in Providers : provider[p].pc \in {"sent", "200"} => provider[p].pair \in Pair
    /\ pending \in Pair \cup {NoPair}
    /\ stored \in Nat /\ minted \in Nat
    /\ provider \in [Providers -> [pc : PC, pair : Pair \cup {NoPair}]]
    /\ current \in Providers

\* The stored token is current, and a record made for it has not been used.
Fresh ==
    \E r \in rows : /\ r.token = stored /\ r.successor = None
                    /\ pending.token = stored => \A s \in rows : s.token # pending.successor

\* The stored token was consumed by the rotation that the record describes.
Consumed ==
    \E r \in rows : /\ r.token = stored
                    /\ pending = [token |-> stored, successor |-> r.successor]
                    /\ r.generation + 1 = generation

\* What the one provider and SecretStorage hold while the family lives.
Tokened ==
    LET me == provider[1] IN
    /\ Fresh \/ Consumed
    /\ me.pc = "sent" => me.pair = pending /\ pending.token = stored
    /\ me.pc = "200" => me.pair = pending /\ Consumed
    /\ me.pc \notin {"401", "refused"}
    /\ \A r \in rows : r.token <= minted
    /\ pending # NoPair => pending.successor <= minted

\* No other provider has begun.
OthersIdle == \A p \in Providers \ {1} : provider[p].pc = "idle"

RotationSound == family # "reuse-detected" /\ (Alive => Tokened) /\ OthersIdle

Honest == SoleHolder => RotationSound

\* The counters count, and the deadline is ahead or passed.
Counted ==
    /\ foreign \in Nat /\ serverFaults \in Nat
    /\ deadline \in {"ahead", "passed"}

\* A connection has at least one provider.
LEMMA FirstProvider == 1 \in Providers
  BY RotationAssumption DEF Providers

\* Since tokens are unique, two successors of one token are one.
LEMMA GrantsFollow ==
    ASSUME Chain
    PROVE  GrantedOnce
<1>1. ASSUME NEW g \in grants, NEW h \in grants, g.token = h.token
      PROVE  g = h
  <2>1. PICK r \in rows : r.token = g.token /\ r.successor = g.successor
    BY DEF Chain
  <2>2. PICK s \in rows : s.token = h.token /\ s.successor = h.successor
    BY DEF Chain
  <2>3. r = s
    BY <1>1, <2>1, <2>2 DEF Chain, ChainLinear
  <2>4. g \in Pair /\ h \in Pair
    BY DEF Chain
  <2> QED BY <1>1, <2>1, <2>2, <2>3, <2>4 DEF Pair
<1> QED BY <1>1 DEF GrantedOnce

\* A rotation the server accepts extends the chain by one link.
LEMMA RotateChain ==
    ASSUME Chain, NEW q \in Pair, Rotate(q)
    PROVE  Chain'
<1>1. CASE Verdict(q) = "rotate"
  <2>1. /\ rows' = Rotated(q) /\ generation' = generation + 1
        /\ grants' = grants \cup {q}
    BY <1>1 DEF Rotate, IssueAccess
  <2>2. PICK r \in rows : r.token = q.token
    BY <1>1 DEF Verdict
  <2>3. r.successor = None /\ r.generation = generation
    BY <1>1, <2>2 DEF Verdict
  <2>4. \A s \in rows : s.token # q.successor
    BY <1>1 DEF Verdict
  <2>5. r \in Row /\ q.successor \in Nat /\ q.token \in Nat /\ q.successor # q.token
        /\ generation \in Nat
    BY <2>2, <2>4 DEF Chain, Pair
  <2> DEFINE r1 == [r EXCEPT !.successor = q.successor]
             n == [token |-> q.successor, generation |-> generation + 1, successor |-> None]
  <2>6. {s \in rows : s.token = q.token} = {r}
    BY <2>2 DEF Chain, ChainLinear
  <2>7. rows' = {s \in rows : s.token # q.token} \cup {r1} \cup {n}
    BY <2>1, <2>6 DEF Rotated
  <2>8. /\ r1.token = q.token /\ r1.generation = generation /\ r1.successor = q.successor
        /\ n.token = q.successor /\ n.generation = generation + 1 /\ n.successor = None
        /\ r1 \in Row /\ n \in Row
    BY <2>2, <2>3, <2>5 DEF Row
  <2> HIDE DEF r1, n
  <2>9. \A s \in rows : /\ s \in Row /\ s.generation \in Nat /\ s.token \in Nat
                        /\ s.generation <= generation
                        /\ s # r => s.token # q.token /\ s.generation # generation
    <3> TAKE s \in rows
    <3>1. s \in Row
      BY DEF Chain
    <3>2. s.generation \in 0..generation
      BY DEF Chain, ChainLinear
    <3>3. s # r => s.token # r.token /\ s.generation # r.generation
      BY DEF Chain, ChainLinear
    <3> QED BY <3>1, <3>2, <3>3, <2>2, <2>3, <2>5 DEF Row
  <2>10. rows' \subseteq Row /\ generation' \in Nat
    BY <2>1, <2>5, <2>7, <2>8, <2>9
  <2>11. {s.generation : s \in rows'} = 0..generation'
    <3>1. {s.generation : s \in rows} = 0..generation
      BY DEF Chain, ChainLinear
    <3>2. ASSUME NEW s \in rows' PROVE s.generation \in 0..generation'
      <4>1. s.generation \in Nat /\ s.generation <= generation + 1
        <5>1. CASE s = n
          BY <5>1, <2>5, <2>8
        <5>2. CASE s = r1
          BY <5>2, <2>5, <2>8
        <5>3. CASE s \in rows
          BY <5>3, <2>5, <2>9
        <5> QED BY <5>1, <5>2, <5>3, <2>7
      <4> QED BY <4>1, <2>1, <2>5
    <3>3. ASSUME NEW k \in 0..generation' PROVE \E s \in rows' : s.generation = k
      <4>1. CASE k = generation + 1
        BY <4>1, <2>7, <2>8
      <4>2. CASE k = generation
        BY <4>2, <2>7, <2>8
      <4>3. CASE k < generation
        <5>0. k \in 0..generation
          BY <4>3, <2>1, <2>5
        <5>1. PICK s \in rows : s.generation = k
          BY <3>1, <5>0
        <5>2. s # r
          BY <5>1, <4>3, <2>3, <2>5
        <5>3. s \in rows'
          BY <5>2, <2>7, <2>9
        <5> QED BY <5>1, <5>3
      <4> QED BY <4>1, <4>2, <4>3, <2>1, <2>5
    <3> QED BY <3>2, <3>3
  <2>12. \A s, t \in rows' : s.generation = t.generation \/ s.token = t.token => s = t
    <3>1. \A s, t \in rows : s.generation = t.generation \/ s.token = t.token => s = t
      BY DEF Chain, ChainLinear
    <3>2. \A s \in rows : s.generation # generation + 1
      BY <2>5, <2>9
    <3>3. generation # generation + 1
      BY <2>5
    <3> TAKE s, t \in rows'
    <3>4. CASE s = n
      BY <3>4, <3>2, <3>3, <2>4, <2>5, <2>7, <2>8
    <3>5. CASE t = n
      BY <3>5, <3>2, <3>3, <2>4, <2>5, <2>7, <2>8
    <3>6. CASE s = r1 /\ t # n
      BY <3>6, <2>2, <2>3, <2>7, <2>8, <2>9
    <3>7. CASE t = r1 /\ s # n
      BY <3>7, <2>2, <2>3, <2>7, <2>8, <2>9
    <3>8. CASE s \in rows /\ t \in rows
      BY <3>8, <3>1
    <3> QED BY <3>4, <3>5, <3>6, <3>7, <3>8, <2>7
  <2>13. ASSUME NEW s \in rows'
         PROVE  IF s.successor = None THEN s.generation = generation'
                ELSE \E t \in rows' : t.token = s.successor /\ t.generation = s.generation + 1
    <3>1. CASE s = n
      BY <3>1, <2>1, <2>8
    <3>2. CASE s = r1
      <4>1. s.successor # None
        BY <3>2, <2>5, <2>8 DEF None
      <4> QED BY <4>1, <3>2, <2>7, <2>8
    <3>3. CASE s \in rows /\ s.token # q.token
      <4>1. s.successor # None
        BY <3>3, <2>2, <2>9 DEF Chain, ChainLinear
      <4>2. PICK t \in rows : t.token = s.successor /\ t.generation = s.generation + 1
        BY <3>3, <4>1 DEF Chain, ChainLinear
      <4>3. CASE t = r
        BY <4>1, <4>2, <4>3, <2>2, <2>3, <2>7, <2>8
      <4>4. CASE t # r
        BY <4>1, <4>2, <4>4, <2>7, <2>9
      <4> QED BY <4>3, <4>4
    <3> QED BY <3>1, <3>2, <3>3, <2>7
  <2>14. \A g \in grants' : g \in Pair
                            /\ \E s \in rows' : s.token = g.token /\ s.successor = g.successor
    <3>1. ASSUME NEW g \in grants
          PROVE  \E s \in rows' : s.token = g.token /\ s.successor = g.successor
      <4>1. PICK s \in rows : s.token = g.token /\ s.successor = g.successor
        BY DEF Chain
      <4>2. g.successor \in Nat
        BY DEF Chain, Pair
      <4>3. s # r
        BY <4>1, <4>2, <2>3 DEF None
      <4> QED BY <4>1, <4>3, <2>7, <2>9
    <3>2. \E s \in rows' : s.token = q.token /\ s.successor = q.successor
      BY <2>7, <2>8
    <3> QED BY <3>1, <3>2, <2>1 DEF Chain
  <2>15. ChainLinear'
    BY <2>11, <2>12, <2>13 DEF ChainLinear
  <2>16. grants' \subseteq Pair
    BY <2>14
  <2> QED BY <2>10, <2>14, <2>15, <2>16 DEF Chain
<1>2. CASE Verdict(q) = "retry"
  <2>1. rows' = rows /\ generation' = generation /\ grants' = grants \cup {q}
    BY <1>2 DEF Rotate, IssueAccess
  <2>2. \E r \in rows : r.token = q.token /\ r.successor = q.successor
    BY <1>2 DEF Verdict, ExactRetry
  <2> QED BY <2>1, <2>2 DEF Chain, ChainLinear
<1>3. CASE Verdict(q) \in {"reuse", "invalid", "revoked"}
  <2>1. UNCHANGED <<rows, generation, grants>>
    BY <1>3 DEF Rotate, MarkReuse
  <2> QED BY <2>1 DEF Chain, ChainLinear
<1>4. Verdict(q) \in {"rotate", "retry", "reuse", "invalid", "revoked"}
  BY DEF Verdict
<1> QED BY <1>1, <1>2, <1>3, <1>4

\* A server step that is no rotation leaves the chain alone.
LEMMA ChainAlone ==
    ASSUME Chain, UNCHANGED <<rows, generation, grants>>
    PROVE  Chain'
BY DEF Chain, ChainLinear

\* The first family is a chain of one token.
LEMMA ChainInit ==
    ASSUME RotationInit
    PROVE  Chain /\ PairsTyped
<1>1. rows \subseteq Row /\ generation \in Nat /\ grants = {}
  BY DEF RotationInit, Row
<1>2. {r.generation : r \in rows} = 0..generation
  BY DEF RotationInit
<1>3. ChainLinear
  BY <1>2 DEF RotationInit, ChainLinear
<1>4. PairsTyped
  BY RotationAssumption DEF RotationInit, PairsTyped, At, PC, Providers
<1> QED BY <1>1, <1>3, <1>4 DEF Chain

\* Whatever is sent to the server is a pair of tokens, and the chain grows link
\* by link.
LEMMA ChainNext ==
    ASSUME Chain, PairsTyped, [RotationNext]_rotationVars
    PROVE  Chain' /\ PairsTyped'
<1>1. CASE Begin
  <2>1. Chain'
    BY <1>1, ChainAlone DEF Begin, server
  <2>2. PairsTyped'
    BY <1>1 DEF Begin, PairsTyped, Replayable, Pair, NoPair, None, PC
  <2> QED BY <2>1, <2>2
<1>2. CASE AccessExpires \/ Crash
  <2>1. Chain'
    BY <1>2, ChainAlone DEF AccessExpires, Crash, server
  <2>2. PairsTyped'
    BY <1>2 DEF AccessExpires, Crash, secrets, PairsTyped, At, PC
  <2> QED BY <2>1, <2>2
<1>3. CASE Replace
  <2>1. Chain'
    BY <1>3, ChainAlone DEF Replace, server
  <2>2. current' \in Providers
    BY <1>3, RotationAssumption DEF Replace, PairsTyped, Providers
  <2>3. PairsTyped'
    BY <1>3, <2>2 DEF Replace, secrets, PairsTyped
  <2> QED BY <2>1, <2>3
<1>4. CASE RevokeDevice \/ Expire
  <2>1. Chain'
    BY <1>4, ChainAlone DEF RevokeDevice, Expire
  <2>2. PairsTyped'
    BY <1>4 DEF RevokeDevice, Expire, secrets, PairsTyped
  <2> QED BY <2>1, <2>2
<1>5. CASE Foreign
  <2>1. PICK r \in rows : Rotate([token |-> r.token, successor |-> minted + 1])
    BY <1>5 DEF Foreign
  <2>2. [token |-> r.token, successor |-> minted + 1] \in Pair
    BY DEF Chain, PairsTyped, Row, Pair
  <2>3. Chain'
    BY <2>1, <2>2, RotateChain
  <2>4. PairsTyped'
    BY <1>5 DEF Foreign, secrets, PairsTyped
  <2> QED BY <2>3, <2>4
<1>6. ASSUME NEW p \in Providers, Deliver(p)
      PROVE  Chain' /\ PairsTyped'
  <2>1. provider[p].pair \in Pair
    BY <1>6 DEF Deliver, PairsTyped
  <2>2. Chain'
    BY <1>6, <2>1, RotateChain DEF Deliver
  <2>3. Answer(provider[p].pair) \in PC
    BY DEF Answer, PC
  <2>4. PairsTyped'
    BY <1>6, <2>1, <2>3 DEF Deliver, secrets, PairsTyped
  <2> QED BY <2>2, <2>4
<1>7. ASSUME NEW p \in Providers, ServerFault(p) \/ Lose(p)
      PROVE  Chain' /\ PairsTyped'
  <2>1. Chain'
    BY <1>7, ChainAlone DEF ServerFault, Lose, server
  <2>2. PairsTyped'
    BY <1>7 DEF ServerFault, Lose, secrets, PairsTyped, PC
  <2> QED BY <2>1, <2>2
<1>8. ASSUME NEW p \in Providers, Granted(p)
      PROVE  Chain' /\ PairsTyped'
  <2>1. Chain'
    BY <1>8, ChainAlone DEF Granted, server
  <2>2. stored' \in Nat
    BY <1>8 DEF Granted, Adopt, PairsTyped, Pair
  <2>3. PairsTyped'
    BY <1>8, <2>2 DEF Granted, PairsTyped, At, PC
  <2> QED BY <2>1, <2>3
<1>9. ASSUME NEW p \in Providers, SaveFails(p) \/ Refused(p) \/ Failed(p)
      PROVE  Chain' /\ PairsTyped'
  <2>1. Chain'
    BY <1>9, ChainAlone DEF SaveFails, Refused, Failed, server
  <2>2. PairsTyped'
    BY <1>9 DEF SaveFails, Refused, Failed, secrets, PairsTyped, At, PC
  <2> QED BY <2>1, <2>2
<1>10. CASE UNCHANGED rotationVars
  <2>1. Chain'
    BY <1>10, ChainAlone DEF rotationVars, server
  <2>2. PairsTyped'
    BY <1>10 DEF rotationVars, secrets, PairsTyped
  <2> QED BY <2>1, <2>2
<1> QED
  BY <1>1, <1>2, <1>3, <1>4, <1>5, <1>6, <1>7, <1>8, <1>9, <1>10 DEF RotationNext

(***************************************************************************)
(* Whoever presents which tokens, in whatever order, however often and     *)
(* with whatever successors, rotateRefresh keeps the family one chain, and *)
(* two holders of one token are never both answered with a 200.            *)
(***************************************************************************)
THEOREM ChainCorrect == RotationSpec => [](ChainLinear /\ GrantedOnce)
<1>1. RotationInit => Chain /\ PairsTyped
  BY ChainInit
<1>2. Chain /\ PairsTyped /\ [RotationNext]_rotationVars => Chain' /\ PairsTyped'
  BY ChainNext
<1>3. Chain => ChainLinear /\ GrantedOnce
  BY GrantsFollow DEF Chain
<1> QED BY <1>1, <1>2, <1>3, PTL DEF RotationSpec

\* Only a living family is issued access, and a burned one loses it.
LEMMA RotateDead ==
    ASSUME NEW q, DeadGrantsNothing, deadline \in {"ahead", "passed"}, Rotate(q)
    PROVE  DeadGrantsNothing' /\ UNCHANGED deadline
<1>0. UNCHANGED deadline
  BY DEF Rotate
<1>1. CASE Verdict(q) \in {"rotate", "retry"}
  <2>1. Alive
    BY <1>1 DEF Verdict, Alive
  <2>2. UNCHANGED <<family, deadline>>
    BY <1>1 DEF Rotate, IssueAccess
  <2> QED BY <2>1, <2>2 DEF DeadGrantsNothing, Alive
<1>2. CASE Verdict(q) \notin {"rotate", "retry"}
  <2>1. CASE Verdict(q) = "reuse"
    BY <2>1 DEF Rotate, MarkReuse, DeadGrantsNothing
  <2>2. CASE Verdict(q) # "reuse"
    <3>1. UNCHANGED <<family, deadline, access>>
      BY <1>2, <2>2 DEF Rotate
    <3> QED BY <3>1 DEF DeadGrantsNothing, Alive
  <2> QED BY <2>1, <2>2
<1> QED BY <1>0, <1>1, <1>2

(***************************************************************************)
(* Once a family is revoked, burned or expired none of its access tokens   *)
(* works, whatever requests were under way.                                *)
(***************************************************************************)
THEOREM DeadCorrect == RotationSpec => []DeadGrantsNothing
<1> DEFINE Timed == deadline \in {"ahead", "passed"}
<1>1. RotationInit => DeadGrantsNothing /\ Timed
  BY DEF RotationInit, DeadGrantsNothing
<1>2. ASSUME DeadGrantsNothing, Timed, [RotationNext]_rotationVars
      PROVE  DeadGrantsNothing' /\ Timed'
  <2>1. CASE RevokeDevice \/ Expire
    BY <1>2, <2>1 DEF RevokeDevice, Expire, DeadGrantsNothing
  <2>2. CASE Foreign
    BY <1>2, <2>2, RotateDead DEF Foreign
  <2>3. ASSUME NEW p \in Providers, Deliver(p)
        PROVE  DeadGrantsNothing' /\ Timed'
    BY <1>2, <2>3, RotateDead DEF Deliver
  <2>4. CASE UNCHANGED server
    BY <1>2, <2>4 DEF server, DeadGrantsNothing, Alive
  <2>5. ASSUME NEW p \in Providers,
               ServerFault(p) \/ Lose(p) \/ Granted(p) \/ SaveFails(p) \/ Refused(p) \/ Failed(p)
        PROVE  UNCHANGED server
    BY <2>5 DEF ServerFault, Lose, Granted, SaveFails, Refused, Failed
  <2>6. Begin \/ AccessExpires \/ Replace \/ Crash \/ UNCHANGED rotationVars => UNCHANGED server
    BY DEF Begin, AccessExpires, Replace, Crash, rotationVars
  <2> HIDE DEF Timed
  <2> QED BY <1>2, <2>1, <2>2, <2>3, <2>4, <2>5, <2>6 DEF RotationNext
<1>3. QED BY <1>1, <1>2, PTL DEF RotationSpec

-----------------------------------------------------------------------------
(* The device that is the only holder of its tokens.                       *)

\* A request for the held pair is granted: a first time as a rotation, again
\* as a repetition.
LEMMA HonestVerdict ==
    ASSUME Chain, PairsTyped, Alive, Tokened, provider[1].pc = "sent"
    PROVE  LET q == provider[1].pair IN
           /\ Fresh => Verdict(q) = "rotate"
           /\ ~Fresh => Verdict(q) = "retry"
<1> DEFINE q == provider[1].pair
<1>1. q = pending /\ q.token = stored /\ q \in Pair
  BY FirstProvider DEF Tokened, PairsTyped
<1>2. ASSUME Fresh PROVE Verdict(q) = "rotate"
  <2>1. PICK r \in rows : r.token = stored /\ r.successor = None
    BY <1>2 DEF Fresh
  <2>2. \A s \in rows : s.token # q.successor
    BY <1>1, <1>2 DEF Fresh
  <2>3. {s \in rows : s.token = q.token} = {r}
    BY <1>1, <2>1 DEF Chain, ChainLinear
  <2>4. r.generation = generation
    BY <2>1 DEF Chain, ChainLinear
  <2> HIDE DEF q
  <2> QED BY <2>1, <2>2, <2>3, <2>4 DEF Verdict, Alive
<1>3. ASSUME ~Fresh PROVE Verdict(q) = "retry"
  <2>1. PICK r \in rows : /\ r.token = stored
                          /\ pending = [token |-> stored, successor |-> r.successor]
                          /\ r.generation + 1 = generation
    BY <1>3 DEF Tokened, Consumed
  <2>2. q.successor = r.successor /\ r.successor # None
    BY <1>1, <2>1 DEF Pair, None
  <2>3. PICK s \in rows : s.token = r.successor /\ s.generation = r.generation + 1
    BY <2>2 DEF Chain, ChainLinear
  <2>4. {t \in rows : t.token = q.token} = {r}
    BY <1>1, <2>1 DEF Chain, ChainLinear
  <2>5. ExactRetry(r, q)
    BY <2>1, <2>2, <2>3 DEF ExactRetry
  <2> HIDE DEF q
  <2> QED BY <2>2, <2>4, <2>5 DEF Verdict, Alive
<1> QED BY <1>2, <1>3

\* Delivering the held pair leaves its record the account of what happened.
LEMMA HonestDeliver ==
    ASSUME Chain, PairsTyped, Alive, Tokened, Deliver(1)
    PROVE  Tokened' /\ UNCHANGED family
<1> DEFINE q == provider[1].pair
<1>0. 1 \in Providers
  BY FirstProvider
<1>1. q = pending /\ q.token = stored /\ q \in Pair /\ provider[1].pc = "sent"
  BY <1>0 DEF Deliver, Tokened, PairsTyped
<1>2. /\ Rotate(q)
      /\ provider' = [provider EXCEPT ![1].pc = Answer(q)]
      /\ UNCHANGED <<stored, pending, minted>>
  BY DEF Deliver, secrets
<1>3. (Fresh => Verdict(q) = "rotate") /\ (~Fresh => Verdict(q) = "retry")
  BY <1>0, <1>1, HonestVerdict
<1>4. provider'[1].pc = "200" /\ provider'[1].pair = q
  BY <1>0, <1>2, <1>3 DEF Answer, PairsTyped
<1>5. UNCHANGED <<family, deadline>>
  BY <1>2, <1>3 DEF Rotate, IssueAccess
<1> HIDE DEF q
<1>6. CASE Fresh
  <2>1. rows' = Rotated(q) /\ generation' = generation + 1
    BY <1>2, <1>3, <1>6 DEF Rotate
  <2>2. PICK r \in rows : r.token = stored /\ r.successor = None
    BY <1>6 DEF Fresh
  <2>3. r.generation = generation /\ r \in Row
    BY <2>2 DEF Chain, ChainLinear
  <2> DEFINE r1 == [r EXCEPT !.successor = q.successor]
  <2>4. r1 \in rows'
    BY <1>1, <2>1, <2>2 DEF Rotated
  <2>5. r1.token = stored /\ r1.generation = generation /\ r1.successor = q.successor
    BY <2>2, <2>3 DEF Row
  <2>6. pending = [token |-> stored, successor |-> q.successor]
    BY <1>1 DEF Pair
  <2> HIDE DEF r1
  <2>7. Consumed'
    BY <1>2, <2>1, <2>4, <2>5, <2>6 DEF Consumed
  <2>8. q.successor <= minted
    <3>1. pending # NoPair
      BY <1>1 DEF Pair, NoPair, None
    <3> QED BY <1>1, <3>1 DEF Tokened
  <2>9. ASSUME NEW s \in rows' PROVE s.token <= minted
    <3>1. CASE s \in rows
      BY <3>1 DEF Tokened
    <3>2. CASE s.token = q.token \/ s.token = q.successor
      BY <3>2, <1>1, <2>2, <2>8 DEF Tokened
    <3> QED BY <3>1, <3>2, <2>1 DEF Rotated, Chain, Row
  <2> QED BY <1>1, <1>2, <1>4, <1>5, <2>7, <2>9 DEF Tokened
<1>7. CASE ~Fresh
  <2>1. UNCHANGED <<rows, generation>>
    BY <1>2, <1>3, <1>7 DEF Rotate
  <2>2. Consumed'
    BY <1>2, <1>7, <2>1 DEF Tokened, Consumed
  <2> QED BY <1>1, <1>2, <1>4, <1>5, <2>1, <2>2 DEF Tokened
<1> QED BY <1>6, <1>7

\* Adopting the successor makes the stored token current again.
LEMMA HonestGranted ==
    ASSUME Chain, PairsTyped, Alive, Tokened, Granted(1)
    PROVE  Tokened'
<1>0. 1 \in Providers
  BY FirstProvider
<1>1. provider[1].pair = pending /\ pending \in Pair /\ provider[1].pc = "200"
  BY <1>0 DEF Granted, Tokened, PairsTyped
<1>2. /\ stored' = pending.successor /\ pending' \in {pending, NoPair}
      /\ UNCHANGED <<rows, generation, minted>>
      /\ provider'[1].pc = "cached"
  BY <1>0, <1>1 DEF Granted, Adopt, At, server, PairsTyped
<1>3. PICK r \in rows : /\ r.token = stored
                        /\ pending = [token |-> stored, successor |-> r.successor]
                        /\ r.generation + 1 = generation
  BY <1>1 DEF Tokened, Consumed
<1>4. r.successor # None /\ stored' = r.successor /\ pending.token = stored
  BY <1>1, <1>2, <1>3 DEF Pair, None
<1>5. PICK s \in rows : s.token = r.successor /\ s.generation = r.generation + 1
  BY <1>4 DEF Chain, ChainLinear
<1>6. s.generation = generation /\ generation \in Nat /\ r.generation \in Nat
  BY <1>3, <1>5 DEF Chain, Row
<1>7. \A t \in rows : t.generation \in 0..generation
  BY DEF Chain, ChainLinear
<1>8. s.successor = None
  <2>1. SUFFICES ASSUME s.successor # None PROVE FALSE
    OBVIOUS
  <2>2. PICK t \in rows : t.generation = s.generation + 1
    BY <2>1 DEF Chain, ChainLinear
  <2> QED BY <1>6, <1>7, <2>2
<1>9. stored' # stored
  <2>1. r # s
    BY <1>3, <1>6
  <2>2. r.token # s.token
    BY <2>1 DEF Chain, ChainLinear
  <2> QED BY <1>3, <1>4, <1>5, <2>2
<1>10. pending'.token # stored'
  <2>1. stored' \in Nat
    BY <1>1, <1>2 DEF Pair
  <2> QED BY <1>2, <1>4, <1>9, <2>1 DEF NoPair, None
<1>11. Fresh'
  BY <1>2, <1>4, <1>5, <1>8, <1>10 DEF Fresh
<1> QED BY <1>2, <1>11 DEF Tokened

\* Beginning a rotation sends the record, which is minted if there is none.
LEMMA HonestBegin ==
    ASSUME Chain, PairsTyped, Alive, Tokened, current = 1, Begin
    PROVE  Tokened'
<1>0. 1 \in Providers
  BY FirstProvider
<1>1. UNCHANGED <<rows, generation, stored>>
  BY DEF Begin, server
<1>2. CASE Replayable /\ provider' = [provider EXCEPT ![current] = [pc |-> "sent", pair |-> pending]]
             /\ UNCHANGED <<pending, minted>>
  <2>1. provider'[1] = [pc |-> "sent", pair |-> pending] /\ pending.token = stored
    BY <1>0, <1>2 DEF PairsTyped, Replayable
  <2> QED BY <1>1, <1>2, <2>1 DEF Tokened, Fresh, Consumed
<1>3. CASE ~Replayable
  <2> DEFINE new == [token |-> stored, successor |-> minted + 1]
  <2>1. /\ pending' = new /\ minted' = minted + 1
        /\ provider' = [provider EXCEPT ![current] = [pc |-> "sent", pair |-> new]]
    BY <1>3 DEF Begin
  <2>2. provider'[1] = [pc |-> "sent", pair |-> new]
    BY <1>0, <2>1 DEF PairsTyped
  <2>3. pending.token # stored
    BY <1>3 DEF Replayable, PairsTyped, NoPair, None
  <2>4. \A r \in rows : r.token <= minted /\ r.token \in Nat /\ minted \in Nat
    BY DEF Tokened, Chain, Row, PairsTyped
  <2>5. PICK r \in rows : r.token = stored /\ r.successor = None
    BY <2>3 DEF Tokened, Fresh, Consumed
  <2>6. \A s \in rows : s.token # minted + 1 /\ s.token <= minted + 1
    BY <2>4
  <2>7. Fresh'
    BY <1>1, <2>1, <2>5, <2>6 DEF Fresh
  <2>8. pending'.successor <= minted'
    BY <2>1, <2>4, <2>5
  <2> QED BY <1>1, <2>1, <2>2, <2>6, <2>7, <2>8 DEF Tokened
<1> QED BY <1>2, <1>3 DEF Begin

\* No step of the device burns its family or loses the account of its token.
LEMMA HonestNext ==
    ASSUME Chain, PairsTyped, Counted, Honest, [RotationNext]_rotationVars
    PROVE  Honest'
<1>0. SUFFICES ASSUME SoleHolder' PROVE RotationSound'
  BY DEF Honest
<1>1. current \in Nat \ {0} /\ 1 \in Providers
  BY FirstProvider DEF PairsTyped, Providers
<1>2. /\ ~Foreign /\ ~Replace
      /\ \A p \in Providers : ~ServerFault(p)
  BY <1>0, <1>1 DEF SoleHolder, Foreign, Replace, ServerFault, Counted
<1>3. SoleHolder
  BY <1>0, <1>1, <1>2 DEF SoleHolder, RotationNext, rotationVars, budgets, Begin, AccessExpires, Crash,
     RevokeDevice, Expire, Deliver, Lose, Granted, SaveFails, Refused, Failed
<1>4. RotationSound /\ current = 1
  BY <1>3 DEF Honest, SoleHolder
<1>5. \A p \in Providers : /\ Deliver(p) \/ Lose(p) \/ Granted(p) \/ SaveFails(p)
                                \/ Refused(p) \/ Failed(p)
                           => p = 1
  BY <1>4 DEF RotationSound, OthersIdle, Deliver, Lose, Granted, SaveFails, Refused, Failed
<1>6. OthersIdle'
  BY <1>1, <1>2, <1>4, <1>5 DEF RotationSound, OthersIdle, RotationNext, rotationVars, Begin, AccessExpires, Crash,
     RevokeDevice, Expire, Deliver, Lose, Granted, SaveFails, Refused, Failed, At, PairsTyped
<1>7. CASE UNCHANGED server /\ ~Alive
  BY <1>4, <1>6, <1>7 DEF server, RotationSound, Alive
<1>8. CASE RevokeDevice \/ Expire
  BY <1>4, <1>6, <1>8 DEF RevokeDevice, Expire, RotationSound, Alive
<1>9. CASE Deliver(1) /\ ~Alive
  <2>1. Verdict(provider[1].pair) \in {"invalid", "revoked"}
    BY <1>9 DEF Verdict, Alive, Counted
  <2>2. UNCHANGED <<family, deadline>>
    BY <1>9, <2>1 DEF Deliver, Rotate
  <2> QED BY <1>4, <1>6, <1>9, <2>2 DEF RotationSound, Alive
<1>10. CASE Alive
  <2>0. Tokened
    BY <1>4, <1>10 DEF RotationSound
  <2>1. CASE Deliver(1)
    BY <1>4, <1>6, <1>10, <2>0, <2>1, HonestDeliver DEF RotationSound
  <2>2. CASE Granted(1)
    BY <1>4, <1>6, <1>10, <2>0, <2>2, HonestGranted DEF Granted, server, RotationSound
  <2>3. CASE Begin
    BY <1>4, <1>6, <1>10, <2>0, <2>3, HonestBegin DEF Begin, server, RotationSound
  <2>4. CASE /\ UNCHANGED <<rows, family, generation, deadline, stored, pending, minted>>
             /\ provider'[1].pc \in {"idle", "error"} \/ provider'[1] = provider[1]
    BY <1>4, <1>6, <2>0, <2>4 DEF RotationSound, Tokened, Fresh, Consumed
  <2>5. AccessExpires \/ Crash \/ SaveFails(1) \/ Failed(1) \/ Lose(1)
          => /\ UNCHANGED <<server, secrets, minted>>
             /\ provider'[1].pc \in {"idle", "error"}
    BY <1>1, <1>4 DEF AccessExpires, Crash, SaveFails, Failed, Lose, At, PairsTyped
  <2>6. ~Refused(1)
    BY <2>0 DEF Refused, Tokened
  <2>7. CASE UNCHANGED rotationVars
    BY <2>4, <2>7 DEF rotationVars, server, secrets
  <2> QED BY <1>2, <1>5, <1>8, <2>1, <2>2, <2>3, <2>4, <2>5, <2>6, <2>7
          DEF RotationNext, server, secrets
<1>11. Begin \/ AccessExpires \/ Crash \/ UNCHANGED rotationVars => UNCHANGED server
  BY DEF Begin, AccessExpires, Crash, rotationVars
<1>12. Lose(1) \/ Granted(1) \/ SaveFails(1) \/ Refused(1) \/ Failed(1)
        => UNCHANGED server
  BY DEF Lose, Granted, SaveFails, Refused, Failed
<1> QED BY <1>2, <1>5, <1>7, <1>8, <1>9, <1>10, <1>11, <1>12 DEF RotationNext

(***************************************************************************)
(* As long as one provider is the only holder of the tokens and the        *)
(* server's database does not fail, the device is never taken for a thief  *)
(* and never left without a usable token, for any number of lost requests  *)
(* and answers, failed writes and restarts.                                *)
(***************************************************************************)
THEOREM RotationSafe == RotationSpec => [](NeverBurned /\ NeverStranded)
<1>1. RotationInit => Chain /\ PairsTyped /\ Honest /\ Counted
  <2>1. ASSUME RotationInit PROVE RotationSound
    <3>1. Fresh
      BY <2>1 DEF RotationInit, Fresh, NoPair, None
    <3>2. \A p \in Providers : provider[p].pc = "idle"
      BY <2>1 DEF RotationInit, At
    <3> QED BY <2>1, <3>1, <3>2, FirstProvider DEF RotationInit, RotationSound, OthersIdle, Tokened
  <2> QED BY <2>1, ChainInit DEF RotationInit, Honest, Counted
<1>2. Chain /\ PairsTyped /\ [RotationNext]_rotationVars => Chain' /\ PairsTyped'
  BY ChainNext
<1>3. ASSUME Counted, [RotationNext]_rotationVars PROVE Counted'
  <2>1. CASE UNCHANGED <<foreign, serverFaults, deadline>>
    BY <1>3, <2>1 DEF Counted
  <2>2. CASE Foreign
    <3>1. UNCHANGED deadline
      BY <2>2 DEF Foreign, Rotate
    <3>2. foreign' = foreign + 1 /\ UNCHANGED serverFaults
      BY <2>2 DEF Foreign
    <3> QED BY <1>3, <3>1, <3>2 DEF Counted
  <2>6. CASE Expire
    BY <1>3, <2>6 DEF Expire, budgets, Counted
  <2>3. ASSUME NEW p \in Providers, ServerFault(p) PROVE Counted'
    BY <1>3, <2>3 DEF ServerFault, server, Counted
  <2>4. ASSUME NEW p \in Providers,
               Deliver(p) \/ Lose(p) \/ Granted(p) \/ SaveFails(p) \/ Refused(p) \/ Failed(p)
        PROVE  UNCHANGED <<foreign, serverFaults, deadline>>
    BY <2>4 DEF Deliver, Rotate, Lose, Granted, SaveFails, Refused, Failed, server, budgets
  <2>5. Begin \/ AccessExpires \/ Replace \/ Crash \/ RevokeDevice \/ UNCHANGED rotationVars
          => UNCHANGED <<foreign, serverFaults, deadline>>
    BY DEF Begin, AccessExpires, Replace, Crash, RevokeDevice, rotationVars, server, budgets
  <2> QED BY <1>3, <2>1, <2>2, <2>3, <2>4, <2>5, <2>6 DEF RotationNext
<1>4. Chain /\ PairsTyped /\ Counted /\ Honest /\ [RotationNext]_rotationVars => Honest'
  BY HonestNext
<1>5. Honest => NeverBurned /\ NeverStranded
  BY DEF Honest, RotationSound, Tokened, Fresh, Consumed, NeverBurned, NeverStranded
<1> QED BY <1>1, <1>2, <1>3, <1>4, <1>5, PTL DEF RotationSpec

=============================================================================
