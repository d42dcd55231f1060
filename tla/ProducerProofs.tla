--------------------------- MODULE ProducerProofs ---------------------------
(***************************************************************************)
(* Proofs about module Producer: the mapping of a device never runs ahead  *)
(* of what it queues, no queued revision loses its bytes, a revision names *)
(* no parent that died with a record of its own parents, a start finds all *)
(* that the mapping and the disk disagree on, and no path gets a second    *)
(* live identity.                                                          *)
(*                                                                         *)
(* Each of them must survive a fall back to the backup of data.json, which *)
(* is one save behind, so Books speaks of a copy of the store and not of   *)
(* the store: what it maps, what it tracks and what it would name as       *)
(* parents agree with the revisions there are.  It is kept by the copy in  *)
(* use and by the readable backup.  Its lemmas are about constants: a copy *)
(* d, the revisions rs, those the server holds, those forgotten and the    *)
(* number n of file identities.                                            *)
(*                                                                         *)
(* For what a start finds, HealsInv says which task of the scan, or which  *)
(* change under way, still brings a path of the mapping to the disk's, and *)
(* that no other task undoes it.                                           *)
(*                                                                         *)
(* For the identities, HeldInv says that a live revision of this device is *)
(* the head of a mapped file, as one path has one mapping; Untouched, that *)
(* before the first edit each revision has a path of its own, which the    *)
(* scan and the poller leave alone.                                        *)
(***************************************************************************)
EXTENDS Producer, WellFoundedInduction, FiniteSetTheorems, FunctionTheorems, TLAPS

IsData(d) ==
    d = [maps |-> d.maps, heads |-> d.heads, queue |-> d.queue,
         rows |-> d.rows, stash |-> d.stash, failed |-> d.failed]

RowsOf(d) == {w.rev : w \in d.rows}

\* The revisions a copy knows the fate of.
Tracked(d, held, gone) == held \cup d.queue \cup RowsOf(d) \cup gone

\* The head of a mapped file is the revision that the mapping describes.
MapsHeads(d, rs, n) ==
    /\ \A m \in d.maps : /\ m.file \in 1..n
                         /\ d.heads[m.file] \in 1..Len(rs)
                         /\ rs[d.heads[m.file]].content = m.hash
                         /\ rs[d.heads[m.file]].path = m.path
    /\ \A m, o \in d.maps : m.file = o.file => m = o

\* A revision is queued, or it failed, and only then its bytes are stashed.
KeptApart(d, rs) ==
    /\ d.queue \subseteq 1..Len(rs) /\ RowsOf(d) \subseteq 1..Len(rs)
    /\ Stashed(d) \subseteq 1..Len(rs)
    /\ d.queue \cap RowsOf(d) = {} /\ d.queue \cap Stashed(d) = {}

\* Heads, and the parents of what is queued or failed, are tracked; a row
\* without parents is of a revision the server has, will get, or that is forgotten.
TracksHeads(d, rs, held, gone) ==
    /\ d.heads \in [File -> 0..MaxRevisions]
    /\ \A f \in File : d.heads[f] # 0 => d.heads[f] \in Tracked(d, held, gone)
    /\ \A r \in d.queue \cup RowsOf(d) : rs[r].parents \subseteq Tracked(d, held, gone)
    /\ \A w \in d.rows : w.known \/ w.rev \in held \cup d.queue \cup gone

Books(d, rs, held, gone, n) ==
    IsData(d) /\ MapsHeads(d, rs, n) /\ KeptApart(d, rs) /\ TracksHeads(d, rs, held, gone)

\* A sequence, of whatever it is made of.
Sequenced(rs) == rs \in Seq({rs[r] : r \in 1..Len(rs)})

\* Revisions are numbered as they are built, and what the server holds has its parents there.
Graph(rs, held, gone, n) ==
    /\ Sequenced(rs) /\ Len(rs) <= MaxRevisions /\ n \in 0..Len(rs)
    /\ \A r \in 1..Len(rs) : rs[r].file \in 1..n /\ rs[r].parents \subseteq 1..(r - 1)
    /\ held \subseteq 1..Len(rs) /\ gone \subseteq 1..Len(rs)
    /\ \A r \in held : rs[r].parents \subseteq held

\* The change the observer is about to commit: only a create mints an identity.
JobFits ==
    job # None => /\ Len(revs) < MaxRevisions /\ job.file \in 1..(files + 1)
                  /\ job.kind # "create" => job.file <= files

BytesHeld == Listening => data.queue \cup Stashed(data) \subseteq payloads

ProducerInv ==
    /\ Graph(revs, accepted, forgotten, files)
    /\ Books(data, revs, accepted, forgotten, files)
    /\ bak.ok => Books(bak.data, revs, accepted, forgotten, files)
    /\ JobFits /\ BytesHeld /\ "pc" \in DOMAIN proc

-----------------------------------------------------------------------------
(* Copies of the store.                                                    *)

\* A copy stays true while the server holds more and nothing it tracked is
\* remembered again, but for what the copy queues.
LEMMA BooksStay ==
  ASSUME NEW d, NEW rs, NEW held, NEW gone, NEW n, NEW held2, NEW gone2,
         Books(d, rs, held, gone, n), held \subseteq held2, gone \subseteq gone2 \cup d.queue
  PROVE  Books(d, rs, held2, gone2, n)
<1>1. Tracked(d, held, gone) \subseteq Tracked(d, held2, gone2)
  BY DEF Tracked
<1>2. TracksHeads(d, rs, held2, gone2)
  BY <1>1 DEF Books, TracksHeads
<1> QED BY <1>2 DEF Books

\* A revision is built: what the others are does not change.
LEMMA Appended ==
  ASSUME NEW rs, Sequenced(rs), NEW x
  PROVE  /\ Len(rs) \in Nat /\ Len(Append(rs, x)) = Len(rs) + 1
         /\ \A r \in 1..Len(rs) : Append(rs, x)[r] = rs[r]
         /\ Append(rs, x)[Len(rs) + 1] = x
         /\ Sequenced(Append(rs, x))
<1> DEFINE T == {rs[r] : r \in 1..Len(rs)} \cup {x}
           ap == Append(rs, x)
<1>1. rs \in Seq(T) /\ x \in T
  <2>1. rs \in Seq({rs[r] : r \in 1..Len(rs)})
    BY DEF Sequenced
  <2> QED BY <2>1
<1> HIDE DEF T
<1>2. /\ Len(rs) \in Nat /\ Len(ap) = Len(rs) + 1 /\ ap \in Seq(T)
      /\ \A r \in 1..Len(rs) : ap[r] = rs[r]
      /\ ap[Len(rs) + 1] = x
  BY <1>1
<1> HIDE DEF ap
<1>3. ap \in Seq({ap[r] : r \in 1..Len(ap)})
  BY <1>2
<1> QED BY <1>2, <1>3 DEF ap, Sequenced

LEMMA GraphGrows ==
  ASSUME NEW rs, NEW held, NEW gone, NEW n, NEW x, NEW m \in Nat, n <= m, m <= Len(rs) + 1,
         Graph(rs, held, gone, n), Len(rs) < MaxRevisions,
         x.file \in 1..m, x.parents \subseteq 1..Len(rs)
  PROVE  Graph(Append(rs, x), held, gone, m)
<1> DEFINE ap == Append(rs, x)
<1>1. /\ Len(rs) \in Nat /\ Len(ap) = Len(rs) + 1 /\ ap[Len(rs) + 1] = x
      /\ \A r \in 1..Len(rs) : ap[r] = rs[r]
  BY Appended DEF Graph
<1>6. Sequenced(ap)
  BY Appended DEF Graph, ap
<1>2. ASSUME NEW r \in 1..Len(ap) PROVE ap[r].file \in 1..m /\ ap[r].parents \subseteq 1..(r - 1)
  <2>1. CASE r \in 1..Len(rs)
    <3>1. rs[r].file \in 1..n /\ rs[r].parents \subseteq 1..(r - 1) /\ n \in Nat
      BY <1>1, <2>1 DEF Graph
    <3> QED BY <1>1, <2>1, <3>1
  <2>2. CASE r = Len(rs) + 1
    BY <1>1, <2>2
  <2> QED BY <1>1, <2>1, <2>2
<1>3. /\ held \subseteq 1..Len(rs) /\ gone \subseteq 1..Len(rs)
      /\ \A r \in held : rs[r].parents \subseteq held
  BY DEF Graph
<1>4. held \subseteq 1..Len(ap) /\ gone \subseteq 1..Len(ap) /\ \A r \in held : ap[r].parents \subseteq held
  BY <1>1, <1>3
<1>5. Len(ap) <= MaxRevisions /\ m \in 0..Len(ap)
  BY <1>1, ProducerAssumption
<1>7. Graph(ap, held, gone, m)
  BY <1>2, <1>4, <1>5, <1>6 DEF Graph
<1> QED BY <1>7 DEF ap

LEMMA BooksGrow ==
  ASSUME NEW d, NEW rs, NEW held, NEW gone, NEW n, NEW x, NEW m \in Nat, n <= m,
         Graph(rs, held, gone, n), Books(d, rs, held, gone, n)
  PROVE  Books(d, Append(rs, x), held, gone, m)
<1> DEFINE ap == Append(rs, x)
<1>1. /\ Len(rs) \in Nat /\ Len(ap) = Len(rs) + 1
      /\ \A r \in 1..Len(rs) : ap[r] = rs[r]
  BY Appended DEF Graph
<1> HIDE DEF ap
<1>2. n \in Nat /\ 1..n \subseteq 1..m /\ 1..Len(rs) \subseteq 1..Len(ap)
  BY <1>1 DEF Graph
<1>3. MapsHeads(d, ap, m)
  BY <1>1, <1>2 DEF Books, MapsHeads
<1>4. KeptApart(d, ap)
  BY <1>2 DEF Books, KeptApart
<1>5. TracksHeads(d, ap, held, gone)
  BY <1>1 DEF Books, TracksHeads, KeptApart
<1> QED BY <1>3, <1>4, <1>5 DEF Books, ap

\* A change of the store that commits nothing: what it tracked it tracks.
LEMMA BooksMove ==
  ASSUME NEW d, NEW e, NEW rs, NEW held, NEW gone, NEW n, NEW held2, NEW gone2,
         Books(d, rs, held, gone, n),
         IsData(e), e.maps = d.maps, e.heads = d.heads, KeptApart(e, rs),
         Tracked(d, held, gone) \subseteq Tracked(e, held2, gone2),
         e.queue \cup RowsOf(e) \subseteq d.queue \cup RowsOf(d),
         \A w \in e.rows : w.known \/ w.rev \in held2 \cup e.queue \cup gone2
  PROVE  Books(e, rs, held2, gone2, n)
<1>1. MapsHeads(e, rs, n)
  BY DEF Books, MapsHeads
<1>2. TracksHeads(e, rs, held2, gone2)
  BY DEF Books, TracksHeads
<1> QED BY <1>1, <1>2 DEF Books

LEMMA GraphMoves ==
  ASSUME NEW rs, NEW held, NEW gone, NEW n, NEW r, NEW gone2,
         Graph(rs, held, gone, n), r \in 1..Len(rs), rs[r].parents \subseteq held,
         gone2 \subseteq 1..Len(rs)
  PROVE  Graph(rs, held \cup {r}, gone2, n)
BY DEF Graph

-----------------------------------------------------------------------------
(* The initial states.                                                     *)

LEMMA EmptyBooks ==
  ASSUME NEW rs, NEW held, NEW gone, NEW n
  PROVE  Books(EmptyData, rs, held, gone, n)
<1>1. IsData(EmptyData) /\ EmptyData.maps = {} /\ EmptyData.queue = {} /\ EmptyData.rows = {}
      /\ EmptyData.stash = {} /\ EmptyData.heads = [f \in File |-> 0]
  BY DEF EmptyData, IsData
<1>2. RowsOf(EmptyData) = {} /\ Stashed(EmptyData) = {}
  BY <1>1 DEF RowsOf, Stashed
<1>3. MaxRevisions \in Nat
  BY ProducerAssumption
<1>4. MapsHeads(EmptyData, rs, n) /\ KeptApart(EmptyData, rs) /\ TracksHeads(EmptyData, rs, held, gone)
  BY <1>1, <1>2, <1>3 DEF MapsHeads, KeptApart, TracksHeads
<1> QED BY <1>1, <1>4 DEF Books

LEMMA InitInv == Init => ProducerInv
<1> SUFFICES ASSUME Init PROVE ProducerInv
  OBVIOUS
<1>1. Graph(revs, accepted, forgotten, files)
  <2>1. MaxRevisions \in Nat \ {0} /\ forgotten = {}
    BY ProducerAssumption DEF Init
  <2>2. CASE revs = <<>> /\ accepted = {} /\ files = 0
    BY <2>1, <2>2 DEF Graph, Sequenced
  <2>3. CASE /\ \E p \in Paths, c \in Contents :
                  revs = <<[file |-> 1, parents |-> {}, kind |-> "peer", path |-> p, content |-> c]>>
             /\ accepted = {1} /\ files = 1
    <3>1. /\ Len(revs) = 1 /\ 1..Len(revs) = {1}
          /\ revs[1].file = 1 /\ revs[1].parents = {} /\ revs \in Seq({revs[1]})
      BY <2>3
    <3> HIDE <2>3
    <3>2. {revs[r] : r \in 1..Len(revs)} = {revs[1]}
      BY <3>1
    <3>3. \A r \in 1..Len(revs) : revs[r].file \in 1..1 /\ revs[r].parents \subseteq 1..(r - 1)
      BY <3>1
    <3> QED BY <2>1, <2>3, <3>1, <3>2, <3>3 DEF Graph, Sequenced
  <2> QED BY <2>2, <2>3 DEF Init
<1>2. data = EmptyData /\ bak = NoBackup /\ job = None /\ proc = NewProcess
  BY DEF Init
<1>3. ~bak.ok /\ ~Listening /\ "pc" \in DOMAIN proc
  BY <1>2 DEF NoBackup, NewProcess, Listening
<1> QED BY <1>1, <1>2, <1>3, EmptyBooks DEF ProducerInv, JobFits, BytesHeld

-----------------------------------------------------------------------------
(* Steps that build no revision.                                           *)

LEMMA BackupKept ==
  ASSUME ProducerInv, revs' = revs, files' = files, accepted \subseteq accepted',
         \/ bak' = bak /\ forgotten \subseteq forgotten'
         \/ Save(data') /\ forgotten \subseteq forgotten' \cup data.queue
  PROVE  bak'.ok => Books(bak'.data, revs', accepted', forgotten', files')
<1>1. CASE bak' = bak /\ forgotten \subseteq forgotten'
  BY <1>1, BooksStay DEF ProducerInv
<1>2. CASE Save(data') /\ forgotten \subseteq forgotten' \cup data.queue
  <2>1. bak' = NoBackup \/ bak' = [ok |-> TRUE, data |-> data]
    BY <1>2 DEF Save
  <2>2. CASE bak' = NoBackup
    BY <2>2 DEF NoBackup
  <2>3. CASE bak' = [ok |-> TRUE, data |-> data]
    BY <1>2, <2>3, BooksStay DEF ProducerInv
  <2> QED BY <2>1, <2>2, <2>3
<1> QED BY <1>1, <1>2

LEMMA Still ==
  ASSUME ProducerInv, UNCHANGED <<data, bak>>, UNCHANGED graph,
         job' \in {job, None}, BytesHeld', "pc" \in DOMAIN proc'
  PROVE  ProducerInv'
<1>1. JobFits'
  BY DEF ProducerInv, JobFits, graph
<1> QED BY <1>1 DEF ProducerInv, graph

\* Only the failures that no envelope stands for change.
LEMMA OnlyFailures ==
  ASSUME ProducerInv, UNCHANGED graph, UNCHANGED payloads,
         (data' = data /\ bak' = bak) \/ \E x : Save([data EXCEPT !.failed = x]),
         Listening' => Listening, "pc" \in DOMAIN proc', JobFits'
  PROVE  ProducerInv'
<1>1. CASE data' = data /\ bak' = bak
  <2>1. BytesHeld'
    BY <1>1 DEF ProducerInv, BytesHeld, Stashed
  <2> QED BY <1>1, <2>1 DEF ProducerInv, graph
<1>2. CASE \E x : Save([data EXCEPT !.failed = x])
  <2>1. PICK x : Save([data EXCEPT !.failed = x])
    BY <1>2
  <2>2. IsData(data) /\ data' = [data EXCEPT !.failed = x] /\ Save(data')
    BY <2>1 DEF Save, ProducerInv, Books
  <2>3. /\ IsData(data') /\ data'.maps = data.maps /\ data'.heads = data.heads
        /\ data'.queue = data.queue /\ data'.rows = data.rows /\ data'.stash = data.stash
    BY <2>2 DEF IsData
  <2>4. Books(data', revs, accepted, forgotten, files)
    BY <2>3 DEF ProducerInv, Books, MapsHeads, KeptApart, TracksHeads, Tracked, RowsOf, Stashed
  <2>5. bak'.ok => Books(bak'.data, revs', accepted', forgotten', files')
    BY <2>2, BackupKept DEF graph
  <2>6. BytesHeld'
    BY <2>3 DEF ProducerInv, BytesHeld, Stashed
  <2> QED BY <2>4, <2>5, <2>6 DEF ProducerInv, graph
<1> QED BY <1>1, <1>2

\* What the user does, what the timers and the poller add, and what a start or
\* a stop leaves alone.
LEMMA EditsStay ==
  ASSUME ProducerInv, NEW p, NEW q, NEW c,
         \/ CreateFile(p, c) \/ ModifyFile(p, c) \/ DeleteFile(p) \/ RenameFile(p, q)
         \/ DeleteFolder \/ SettleModify(p) \/ ConfigPollTick(p)
  PROVE  ProducerInv'
<1>1. CASE CreateFile(p, c) \/ ModifyFile(p, c) \/ DeleteFile(p) \/ RenameFile(p, q)
  <2>1. UNCHANGED <<stored, graph, job>> /\ \E ps : Touched(ps)
    BY <1>1 DEF CreateFile, ModifyFile, DeleteFile, RenameFile, EditFrame
  <2>2. "pc" \in DOMAIN proc' /\ proc'.pc = proc.pc
    BY <2>1 DEF Touched, ProducerInv
  <2> QED BY <2>1, <2>2, Still DEF stored, ProducerInv, BytesHeld, Stashed, Listening
<1>2. CASE DeleteFolder
  BY <1>2, Still DEF DeleteFolder, EditFrame, stored, ProducerInv, BytesHeld, Stashed, Listening
<1>3. CASE SettleModify(p)
  <2>1. UNCHANGED <<stored, graph, job>> /\ proc' = [proc EXCEPT !.forced = @ \ {p}]
    BY <1>3 DEF SettleModify
  <2>2. "pc" \in DOMAIN proc' /\ proc'.pc = proc.pc
    BY <2>1 DEF ProducerInv
  <2> QED BY <2>1, <2>2, Still DEF stored, ProducerInv, BytesHeld, Stashed, Listening
<1>4. CASE ConfigPollTick(p)
  BY <1>4, Still DEF ConfigPollTick, stored, ProducerInv, BytesHeld, Stashed, Listening
<1> QED BY <1>1, <1>2, <1>3, <1>4

LEMMA ProcessStays ==
  ASSUME ProducerInv, NEW r,
         TakeFolderDelete \/ initialized \/ ConfirmHeldDeletes \/ Stop \/ LosePayload(r)
  PROVE  ProducerInv'
<1>1. CASE TakeFolderDelete
  BY <1>1, Still DEF TakeFolderDelete, stored, ProducerInv, BytesHeld, Stashed, Listening
<1>2. CASE initialized \/ ConfirmHeldDeletes
  <2>1. /\ UNCHANGED <<stored, graph, job>> /\ Listening
        /\ proc' = [proc EXCEPT !.pc = "ready"] \/ proc' = [proc EXCEPT !.held = FALSE]
    BY <1>2 DEF initialized, ConfirmHeldDeletes, Listening
  <2>2. "pc" \in DOMAIN proc'
    BY <2>1 DEF ProducerInv
  <2> QED BY <2>1, <2>2, Still DEF stored, ProducerInv, BytesHeld, Stashed
<1>3. CASE Stop
  <2>1. UNCHANGED <<stored, graph>> /\ proc' = NewProcess /\ job' = None
    BY <1>3 DEF Stop
  <2>2. "pc" \in DOMAIN proc' /\ ~Listening'
    BY <2>1 DEF NewProcess, Listening
  <2> QED BY <2>1, <2>2, Still DEF stored, BytesHeld
<1>4. CASE LosePayload(r)
  BY <1>4, Still DEF LosePayload, Start, ProducerInv, BytesHeld, Listening
<1> QED BY <1>1, <1>2, <1>3, <1>4

\* What the observer finds is of a mapped file, or a new one.
LEMMA FoundFits ==
  ASSUME ProducerInv, NEW t, Find(t) # NoChange, Find(t) # Collision
  PROVE  /\ Find(t).file \in 1..(files + 1)
         /\ Find(t).kind # "create" => Find(t).file <= files
<1>1. files \in Nat
  BY DEF ProducerInv, Graph
<1>2. ASSUME NEW p, Mapped(p) PROVE MappingOf(p).file \in 1..files
  BY <1>2 DEF Mapped, MappingAt, MappingOf, ProducerInv, Books, MapsHeads
<1>3. ASSUME NEW p, FindContent(t, p) # NoChange
      PROVE  /\ FindContent(t, p).file \in 1..(files + 1)
             /\ FindContent(t, p).kind # "create" => FindContent(t, p).file <= files
  <2>1. CASE Mapped(p)
    BY <1>1, <1>2, <1>3, <2>1 DEF FindContent, FindModify
  <2>2. CASE ~Mapped(p)
    BY <1>1, <1>3, <2>2 DEF FindContent, FindCreate
  <2> QED BY <2>1, <2>2
<1>4. CASE t.kind = "rename"
  <2>1. Find(t) = FindRename(t)
    BY <1>4 DEF Find
  <2>2. CASE ~Mapped(t.path)
    BY <1>3, <2>1, <2>2 DEF FindRename
  <2>3. CASE Mapped(t.path)
    BY <1>1, <1>2, <2>1, <2>3 DEF FindRename
  <2> QED BY <2>2, <2>3
<1>5. CASE t.kind = "delete"
  BY <1>1, <1>2, <1>5 DEF Find, FindDelete
<1>6. CASE t.kind \notin {"rename", "delete"}
  BY <1>3, <1>6 DEF Find
<1> QED BY <1>4, <1>5, <1>6

LEMMA TakeStays ==
  ASSUME ProducerInv, NEW t, Take(t), Len(revs) < MaxRevisions, proc.pc # "down"
  PROVE  ProducerInv'
<1> DEFINE found == IF t.by # "scan" /\ HeldBack(t) THEN NoChange ELSE Find(t)
<1>1. UNCHANGED payloads /\ UNCHANGED graph
  BY DEF Take
<1>2. /\ proc' = proc \/ proc' = [proc EXCEPT !.idle = @ \cup ({t.path} \cap {p \in Configs : disk[p] # Absent})]
      /\ (data' = data /\ bak' = bak) \/ \E x : Save([data EXCEPT !.failed = x])
      /\ job' = job \/ (job' = found /\ found # NoChange /\ found # Collision)
  BY DEF Take, Succeeded
<1>3. "pc" \in DOMAIN proc' /\ proc'.pc = proc.pc
  BY <1>2 DEF ProducerInv
<1>4. JobFits'
  <2>1. CASE job' = job
    BY <1>1, <2>1 DEF ProducerInv, JobFits, graph
  <2>2. CASE job' = found /\ found # NoChange /\ found # Collision
    <3>1. found = Find(t)
      BY <2>2
    <3> HIDE DEF found
    <3>2. /\ job'.file \in 1..(files + 1)
          /\ job'.kind # "create" => job'.file <= files
      BY <2>2, <3>1, FoundFits
    <3> QED BY <1>1, <3>2 DEF JobFits, graph
  <2> QED BY <1>2, <2>1, <2>2
<1> QED BY <1>1, <1>2, <1>3, <1>4, OnlyFailures DEF Listening

LEMMA FailuresStay ==
  ASSUME ProducerInv, NEW p, CommitFails \/ initializeFails \/ retryFailedCommit(p)
  PROVE  ProducerInv'
<1>1. CASE CommitFails
  <2>1. /\ UNCHANGED <<graph, payloads, proc>> /\ job' = None
        /\ (data' = data /\ bak' = bak) \/ \E x : Save([data EXCEPT !.failed = x])
    BY <1>1 DEF CommitFails, onCommitFailure
  <2>2. JobFits' /\ "pc" \in DOMAIN proc'
    BY <2>1 DEF JobFits, ProducerInv
  <2> QED BY <2>1, <2>2, OnlyFailures DEF Listening
<1>2. CASE initializeFails
  <2>1. /\ UNCHANGED <<graph, payloads, proc, job>>
        /\ (data' = data /\ bak' = bak) \/ \E x : Save([data EXCEPT !.failed = x])
    BY <1>2 DEF initializeFails
  <2>2. JobFits' /\ "pc" \in DOMAIN proc'
    BY <2>1 DEF JobFits, ProducerInv, graph
  <2> QED BY <2>1, <2>2, OnlyFailures DEF Listening
<1>3. CASE retryFailedCommit(p)
  <2>1. /\ UNCHANGED <<graph, payloads, job>> /\ Listening
        /\ (data' = data /\ bak' = bak) \/ \E x : Save([data EXCEPT !.failed = x])
        /\ proc' = proc \/ proc' = [proc EXCEPT !.forced = @ \cup {p}]
    BY <1>3 DEF retryFailedCommit, RetryFromDisk, Choice, QueueFrame
  <2>2. JobFits' /\ "pc" \in DOMAIN proc'
    BY <2>1 DEF JobFits, ProducerInv, graph
  <2> QED BY <2>1, <2>2, OnlyFailures
<1> QED BY <1>1, <1>2, <1>3

\* A step that moves revisions between queue, rows and server, from its effect.
LEMMA StoreMoves ==
  ASSUME ProducerInv, UNCHANGED <<revs, files, job>>, "pc" \in DOMAIN proc', BytesHeld',
         accepted \subseteq accepted', forgotten \subseteq forgotten' \cup data.queue,
         Save(data'), Books(data', revs, accepted', forgotten', files),
         Graph(revs, accepted', forgotten', files)
  PROVE  ProducerInv'
<1>1. bak'.ok => Books(bak'.data, revs', accepted', forgotten', files')
  BY BackupKept
<1>2. JobFits'
  BY DEF ProducerInv, JobFits
<1> QED BY <1>1, <1>2 DEF ProducerInv

LEMMA AcceptStays ==
  ASSUME ProducerInv, NEW r, Accept(r)
  PROVE  ProducerInv'
<1>1. /\ UNCHANGED <<revs, files, job, proc, forgotten>> /\ accepted' = accepted \cup {r}
      /\ r \in data.queue /\ revs[r].parents \subseteq accepted
  BY DEF Accept, QueueFrame
<1>2. IsData(data) /\ Books(data, revs, accepted, forgotten, files) /\ KeptApart(data, revs)
      /\ Graph(revs, accepted, forgotten, files) /\ r \in 1..Len(revs)
  BY <1>1 DEF ProducerInv, Books, KeptApart
<1>3. Graph(revs, accepted', forgotten', files)
  BY <1>1, <1>2, GraphMoves DEF Graph
<1>4. CASE Save([data EXCEPT !.queue = @ \ {r}]) /\ payloads' = payloads \ {r}
  <2>1. data' = [data EXCEPT !.queue = @ \ {r}] /\ Save(data')
    BY <1>4 DEF Save
  <2>2. /\ IsData(data') /\ data'.maps = data.maps /\ data'.heads = data.heads
        /\ data'.queue = data.queue \ {r} /\ data'.rows = data.rows /\ data'.stash = data.stash
    BY <1>2, <2>1 DEF IsData
  <2>3. RowsOf(data') = RowsOf(data) /\ Stashed(data') = Stashed(data)
    BY <2>2 DEF RowsOf, Stashed
  <2>4. KeptApart(data', revs)
    BY <1>2, <2>2, <2>3 DEF KeptApart
  <2>5. Tracked(data, accepted, forgotten) \subseteq Tracked(data', accepted', forgotten')
    BY <1>1, <2>2, <2>3 DEF Tracked
  <2>6. \A w \in data'.rows : w.known \/ w.rev \in accepted' \cup data'.queue \cup forgotten'
    BY <1>1, <1>2, <2>2 DEF Books, TracksHeads
  <2>7. Books(data', revs, accepted', forgotten', files)
    BY <1>2, <2>2, <2>3, <2>4, <2>5, <2>6, BooksMove
  <2>8. BytesHeld' /\ "pc" \in DOMAIN proc'
    BY <1>1, <1>2, <1>4, <2>2, <2>3 DEF ProducerInv, BytesHeld, Listening, KeptApart
  <2> QED BY <1>1, <1>3, <2>1, <2>7, <2>8, StoreMoves
<1>5. CASE UNCHANGED <<data, bak, torn, payloads>>
  <2>1. Books(data', revs', accepted', forgotten', files')
    BY <1>1, <1>2, <1>5, BooksStay
  <2>2. bak'.ok => Books(bak'.data, revs', accepted', forgotten', files')
    BY <1>1, <1>5, BackupKept
  <2> QED BY <1>1, <1>3, <1>5, <2>1, <2>2 DEF ProducerInv, JobFits, BytesHeld, Listening, Stashed
<1> QED BY <1>4, <1>5 DEF Accept

\* What a refusal writes: the refused revision and what descends from it leave the
\* queue, as rows that know their parents and, within the budget, stashed.
Refused(dead) ==
    /\ UNCHANGED <<revs, files, job, proc, accepted, estranged>> /\ Save(data')
    /\ forgotten' = forgotten \ dead /\ dead \subseteq data.queue
    /\ IsData(data') /\ data'.maps = data.maps /\ data'.heads = data.heads
    /\ data'.queue = data.queue \ dead
    /\ \A w \in data'.rows : (w \in data.rows /\ w.rev \notin dead) \/ (w.rev \in dead /\ w.known)
    /\ RowsOf(data') = RowsOf(data) \cup dead
    /\ Stashed(data') \subseteq Stashed(data) \cup dead
    /\ payloads \cap (data'.queue \cup Stashed(data')) \subseteq payloads'

LEMMA RefusedData ==
  ASSUME ProducerInv, NEW r, Refuse(r)
  PROVE  Refused(quarantineLineage(r))
<1> DEFINE dead == quarantineLineage(r)
           older == {[rev |-> e.rev, age |-> e.age + Cardinality(dead)] : e \in {e \in data.stash : e.rev \notin dead}}
           stash == older \cup {[rev |-> s, age |-> Cardinality({t \in dead : t > s})] : s \in dead}
           kept == {e \in stash : Cardinality({f \in stash : f.age < e.age}) < MaxStash}
           rows == {w \in data.rows : w.rev \notin dead} \cup {[rev |-> s, known |-> TRUE] : s \in dead}
<1>1. /\ UNCHANGED <<revs, files, job, proc, accepted, estranged>>
      /\ Save([data EXCEPT !.queue = @ \ dead, !.stash = kept, !.rows = rows])
      /\ payloads' = payloads \ ({e.rev : e \in stash} \ {e.rev : e \in kept})
      /\ forgotten' = forgotten \ dead
  BY DEF Refuse, quarantineOutboxItem, QueueFrame
<1>2. dead \subseteq data.queue
  BY DEF quarantineLineage
<1> HIDE DEF dead
<1>3. /\ {e.rev : e \in stash} \subseteq (Stashed(data) \ dead) \cup dead
      /\ {e.rev : e \in kept} \subseteq {e.rev : e \in stash}
  <2>1. \A e \in older : e.rev \in Stashed(data) \ dead
    BY DEF Stashed
  <2>2. ASSUME NEW e \in {[rev |-> s, age |-> Cardinality({t \in dead : t > s})] : s \in dead}
        PROVE  e.rev \in dead
    <3> DEFINE newer(s) == Cardinality({t \in dead : t > s})
    <3> HIDE DEF newer
    <3>1. PICK s \in dead : e = [rev |-> s, age |-> newer(s)]
      BY <2>2 DEF newer
    <3> QED BY <3>1
  <2> HIDE DEF older
  <2>3. \A e \in stash : e.rev \in (Stashed(data) \ dead) \cup dead
    BY <2>1, <2>2
  <2> HIDE DEF stash
  <2> QED BY <2>3
<1> HIDE DEF older, stash, kept
<1>4. IsData(data) /\ KeptApart(data, revs)
  BY DEF ProducerInv, Books
<1>5. data' = [data EXCEPT !.queue = @ \ dead, !.stash = kept, !.rows = rows] /\ Save(data')
  BY <1>1 DEF Save
<1>6. /\ IsData(data') /\ data'.maps = data.maps /\ data'.heads = data.heads
      /\ data'.queue = data.queue \ dead /\ data'.rows = rows /\ data'.stash = kept
  BY <1>4, <1>5 DEF IsData
<1>7. \A w \in rows : (w \in data.rows /\ w.rev \notin dead) \/ (w.rev \in dead /\ w.known)
  OBVIOUS
<1>8. RowsOf(data') = RowsOf(data) \cup dead /\ Stashed(data') = {e.rev : e \in kept}
  <2>1. \A w \in data.rows : w.rev \notin dead => w \in rows
    OBVIOUS
  <2>2. \A s \in dead : [rev |-> s, known |-> TRUE] \in rows
    OBVIOUS
  <2> HIDE DEF rows
  <2>3. ASSUME NEW s \in dead PROVE s \in RowsOf(data')
    <3>1. [rev |-> s, known |-> TRUE].rev = s /\ [rev |-> s, known |-> TRUE] \in data'.rows
      BY <1>6, <2>2
    <3> QED BY <3>1 DEF RowsOf
  <2>4. RowsOf(data') \subseteq RowsOf(data) \cup dead
    BY <1>6, <1>7 DEF RowsOf
  <2>5. RowsOf(data) \subseteq dead \cup RowsOf(data')
    BY <1>6, <2>1 DEF RowsOf
  <2>6. Stashed(data') = {e.rev : e \in kept}
    BY <1>6 DEF Stashed
  <2>7. dead \subseteq RowsOf(data')
    BY <2>3
  <2>8. RowsOf(data) \cup dead \subseteq RowsOf(data')
    BY <2>5, <2>7
  <2> QED BY <2>4, <2>6, <2>8, Zenon
<1> HIDE DEF rows
<1>9. {e.rev : e \in stash} \cap data'.queue = {}
  BY <1>3, <1>4, <1>6 DEF KeptApart
<1>10. Stashed(data') \subseteq Stashed(data) \cup dead
  BY <1>3, <1>8
<1>11. payloads \cap (data'.queue \cup Stashed(data')) \subseteq payloads'
  BY <1>1, <1>8, <1>9
<1>12. Refused(dead)
  BY <1>1, <1>2, <1>5, <1>6, <1>7, <1>8, <1>10, <1>11 DEF Refused
<1> QED BY <1>12 DEF dead

LEMMA RefuseStays ==
  ASSUME ProducerInv, NEW r, Refuse(r)
  PROVE  ProducerInv'
<1> DEFINE dead == quarantineLineage(r)
<1>2. Refused(dead)
  BY RefusedData
<1> HIDE DEF dead
<1>1. dead \subseteq data.queue
  BY <1>2 DEF Refused
<1>3. /\ UNCHANGED <<revs, files, job, proc, accepted>> /\ Save(data') /\ forgotten' = forgotten \ dead
      /\ IsData(data') /\ data'.maps = data.maps /\ data'.heads = data.heads
      /\ data'.queue = data.queue \ dead
      /\ RowsOf(data') = RowsOf(data) \cup dead /\ Stashed(data') \subseteq Stashed(data) \cup dead
  BY <1>2 DEF Refused
<1>4. \A w \in data'.rows : (w \in data.rows /\ w.rev \notin dead) \/ (w.rev \in dead /\ w.known)
  BY <1>2 DEF Refused
<1>5. IsData(data) /\ Books(data, revs, accepted, forgotten, files) /\ KeptApart(data, revs)
      /\ Graph(revs, accepted, forgotten, files)
  BY DEF ProducerInv, Books
<1>6. KeptApart(data', revs)
  <2>1. Stashed(data') \cap data'.queue = {} /\ RowsOf(data') \cap data'.queue = {}
    BY <1>3, <1>5 DEF KeptApart
  <2> QED BY <1>1, <1>3, <1>5, <2>1 DEF KeptApart
<1>7. Tracked(data, accepted, forgotten) \subseteq Tracked(data', accepted', forgotten')
  BY <1>3 DEF Tracked
<1>8. \A w \in data'.rows : w.known \/ w.rev \in accepted' \cup data'.queue \cup forgotten'
  <2>1. ASSUME NEW w \in data.rows, w.rev \notin dead
        PROVE  w.known \/ w.rev \in accepted' \cup data'.queue \cup forgotten'
    <3>1. w.known \/ w.rev \in accepted \cup data.queue \cup forgotten
      BY <1>5 DEF Books, TracksHeads
    <3> QED BY <1>3, <2>1, <3>1
  <2> QED BY <1>4, <2>1
<1>9. Books(data', revs, accepted', forgotten', files)
  BY <1>1, <1>3, <1>5, <1>6, <1>7, <1>8, BooksMove
<1>10. Graph(revs, accepted', forgotten', files)
  BY <1>3, <1>5 DEF Graph
<1>11. BytesHeld' /\ "pc" \in DOMAIN proc'
  <2>1. payloads \cap (data'.queue \cup Stashed(data')) \subseteq payloads'
    BY <1>2 DEF Refused
  <2> QED BY <1>1, <1>3, <2>1 DEF ProducerInv, BytesHeld, Listening
<1> QED BY <1>1, <1>3, <1>9, <1>10, <1>11, StoreMoves

\* The user drops a failed revision from the panel, or queues it again.
LEMMA DropMoves ==
  ASSUME ProducerInv, NEW w \in data.rows, NEW queue, UNCHANGED <<revs, files, job, accepted>>,
         Save([DropRow(w.rev) EXCEPT !.queue = queue]),
         \/ queue = data.queue /\ forgotten' = forgotten \cup ({w.rev} \ accepted)
         \/ queue = data.queue \cup {w.rev} /\ forgotten' = forgotten
            /\ (Listening => w.rev \in payloads),
         payloads' = payloads \/ (payloads' = payloads \ {w.rev} /\ queue = data.queue),
         Listening' => Listening, "pc" \in DOMAIN proc'
  PROVE  ProducerInv'
<1>1. IsData(data) /\ Books(data, revs, accepted, forgotten, files) /\ KeptApart(data, revs)
      /\ Graph(revs, accepted, forgotten, files)
  BY DEF ProducerInv, Books
<1>2. data' = [DropRow(w.rev) EXCEPT !.queue = queue] /\ Save(data')
  BY DEF Save
<1>3. /\ IsData(data') /\ data'.maps = data.maps /\ data'.heads = data.heads
      /\ data'.queue = queue /\ data'.rows = {v \in data.rows : v.rev # w.rev}
      /\ data'.stash = {e \in data.stash : e.rev # w.rev}
  BY <1>1, <1>2 DEF IsData, DropRow
<1>4. /\ RowsOf(data') = RowsOf(data) \ {w.rev} /\ Stashed(data') = Stashed(data) \ {w.rev}
      /\ w.rev \in RowsOf(data) /\ queue \subseteq data.queue \cup {w.rev} /\ data.queue \subseteq queue
  BY <1>3 DEF RowsOf, Stashed
<1>5. KeptApart(data', revs)
  BY <1>1, <1>3, <1>4 DEF KeptApart
<1>6. Tracked(data, accepted, forgotten) \subseteq Tracked(data', accepted', forgotten')
  BY <1>3, <1>4 DEF Tracked
<1>7. \A v \in data'.rows : v.known \/ v.rev \in accepted' \cup data'.queue \cup forgotten'
  BY <1>1, <1>3, <1>4 DEF Books, TracksHeads
<1>8. Books(data', revs, accepted', forgotten', files)
  BY <1>1, <1>3, <1>4, <1>5, <1>6, <1>7, BooksMove
<1>9. Graph(revs, accepted', forgotten', files)
  BY <1>1, <1>4 DEF Graph, KeptApart
<1>10. BytesHeld'
  BY <1>1, <1>3, <1>4 DEF ProducerInv, BytesHeld, KeptApart
<1> QED BY <1>2, <1>8, <1>9, <1>10, StoreMoves

LEMMA PanelStays ==
  ASSUME ProducerInv, NEW w \in data.rows, retrySend(w) \/ discardSend(w)
  PROVE  ProducerInv'
<1>1. IsData(data) /\ Listening /\ UNCHANGED <<revs, files, job, accepted>>
  BY DEF ProducerInv, Books, retrySend, discardSend, Choice, QueueFrame
<1>2. IsData(DropRow(w.rev)) /\ DropRow(w.rev).queue = data.queue
  <2> DEFINE rows == {v \in data.rows : v.rev # w.rev}
             stash == {e \in data.stash : e.rev # w.rev}
  <2>1. DropRow(w.rev) = [data EXCEPT !.rows = rows, !.stash = stash]
    BY DEF DropRow
  <2> HIDE DEF rows, stash
  <2> QED BY <1>1, <2>1 DEF IsData
<1>3. [DropRow(w.rev) EXCEPT !.queue = data.queue] = DropRow(w.rev)
  BY <1>2 DEF IsData
<1>4. CASE discardSend(w)
  <2>1. /\ Save(DropRow(w.rev)) /\ payloads' = payloads \ {w.rev} /\ proc' = proc
        /\ forgotten' = forgotten \cup ({w.rev} \ accepted)
    BY <1>4 DEF discardSend
  <2>2. "pc" \in DOMAIN proc' /\ (Listening' => Listening)
    BY <2>1 DEF ProducerInv, Listening
  <2> QED BY <1>1, <1>3, <2>1, <2>2, DropMoves
<1>5. CASE retrySend(w) /\ w.rev \in Stashed(data)
  <2>1. /\ Save([DropRow(w.rev) EXCEPT !.queue = @ \cup {w.rev}])
        /\ UNCHANGED <<payloads, proc, forgotten>>
    BY <1>5 DEF retrySend
  <2>2. Save([DropRow(w.rev) EXCEPT !.queue = data.queue \cup {w.rev}])
    BY <1>2, <2>1
  <2>3. "pc" \in DOMAIN proc' /\ w.rev \in payloads
    BY <1>1, <1>5, <2>1 DEF ProducerInv, BytesHeld
  <2> QED BY <1>1, <2>1, <2>2, <2>3, DropMoves
<1>6. CASE retrySend(w) /\ w.rev \notin Stashed(data)
  <2>1. /\ Save(DropRow(w.rev)) /\ payloads' = payloads
        /\ forgotten' = forgotten \cup ({w.rev} \ accepted)
        /\ proc' = proc \/ \E p : proc' = [proc EXCEPT !.forced = @ \cup {p}]
    BY <1>6 DEF retrySend, RetryFromDisk
  <2>2. "pc" \in DOMAIN proc'
    BY <2>1 DEF ProducerInv
  <2> QED BY <1>1, <1>3, <2>1, <2>2, DropMoves
<1> QED BY <1>4, <1>5, <1>6

-----------------------------------------------------------------------------
(* Start.                                                                  *)

\* What is queued without its bytes becomes a row that names no parents.
LEMMA ReconciledBooks ==
  ASSUME NEW d, NEW gone, ProducerInv, Books(d, revs, accepted, gone, files)
  PROVE  /\ Books(reconcilePayloads(d), revs, accepted, gone \cup (d.queue \ payloads), files)
         /\ reconcilePayloads(d).queue \cup Stashed(reconcilePayloads(d)) \subseteq payloads
<1> DEFINE queue == d.queue \cap payloads
           rows == d.rows \cup {[rev |-> r, known |-> FALSE] : r \in d.queue \ payloads}
           stash == {e \in d.stash : e.rev \in payloads}
           gone2 == gone \cup (d.queue \ payloads)
           e == reconcilePayloads(d)
<1>1. IsData(d) /\ KeptApart(d, revs)
  BY DEF Books
<1>2. \A s \in stash : s \in d.stash /\ s.rev \in payloads
  OBVIOUS
<1>3. \A w \in rows : w \in d.rows \/ (w.rev \in d.queue \ payloads /\ ~w.known)
  OBVIOUS
<1>4. /\ d.rows \subseteq rows
      /\ \A r \in d.queue \ payloads : [rev |-> r, known |-> FALSE] \in rows /\ [rev |-> r, known |-> FALSE].rev = r
  OBVIOUS
<1>5. e = [d EXCEPT !.queue = queue, !.rows = rows, !.stash = stash]
  BY DEF reconcilePayloads
<1> HIDE DEF rows, stash, e
<1>6. /\ IsData(e) /\ e.maps = d.maps /\ e.heads = d.heads
      /\ e.queue = queue /\ e.rows = rows /\ e.stash = stash
  BY <1>1, <1>5 DEF IsData
<1>7. RowsOf(e) \subseteq RowsOf(d) \cup (d.queue \ payloads) /\ Stashed(e) \subseteq Stashed(d) \cap payloads
  BY <1>2, <1>3, <1>6 DEF RowsOf, Stashed
<1>8. RowsOf(d) \subseteq RowsOf(e)
  BY <1>4, <1>6 DEF RowsOf
<1>9. KeptApart(e, revs)
  BY <1>1, <1>6, <1>7 DEF KeptApart
<1>10. Tracked(d, accepted, gone) \subseteq Tracked(e, accepted, gone2)
  BY <1>6, <1>8 DEF Tracked
<1>11. \A w \in e.rows : w.known \/ w.rev \in accepted \cup e.queue \cup gone2
  <2>1. \A w \in d.rows : w.known \/ w.rev \in accepted \cup d.queue \cup gone
    BY DEF Books, TracksHeads
  <2> QED BY <1>3, <1>6, <2>1
<1>12. Books(e, revs, accepted, gone2, files)
  <2>1. e.queue \cup RowsOf(e) \subseteq d.queue \cup RowsOf(d)
    BY <1>6, <1>7
  <2> HIDE DEF gone2
  <2> QED BY <1>6, <1>9, <1>10, <1>11, <2>1, BooksMove
<1> QED BY <1>6, <1>7, <1>12 DEF e

LEMMA LoadStays ==
  ASSUME ProducerInv, NEW d, NEW sweep, NEW dead, Load(d, sweep, dead), NEW recovery, Loaded(recovery),
         Books(d, revs, accepted, forgotten \cup dead, files), dead \subseteq 1..Len(revs),
         bak' = bak \/ bak' = NoBackup \/ bak' = [ok |-> TRUE, data |-> data]
  PROVE  ProducerInv'
<1>1. /\ UNCHANGED <<revs, accepted, files, job>> /\ data' = reconcilePayloads(d)
      /\ forgotten' = forgotten \cup dead \cup (d.queue \ payloads)
  BY DEF Load
<1>2. Books(data', revs, accepted, forgotten', files) /\ data'.queue \cup Stashed(data') \subseteq payloads
  BY <1>1, ReconciledBooks
<1>3. BytesHeld'
  <2>1. payloads' = payloads \/ data'.queue \cup Stashed(data') \subseteq payloads'
    BY <1>1, <1>2 DEF Load
  <2> QED BY <1>2, <2>1 DEF BytesHeld, Stashed
<1>4. bak'.ok => Books(bak'.data, revs', accepted', forgotten', files')
  <2>1. forgotten \subseteq forgotten' \cup data.queue /\ forgotten \subseteq forgotten'
    BY <1>1
  <2>2. CASE bak' = bak
    BY <1>1, <2>1, <2>2, BackupKept
  <2>3. CASE bak' = NoBackup
    BY <2>3 DEF NoBackup
  <2>4. CASE bak' = [ok |-> TRUE, data |-> data]
    BY <1>1, <2>1, <2>4, BooksStay DEF ProducerInv
  <2> QED BY <2>2, <2>3, <2>4
<1>5. Graph(revs, accepted, forgotten', files)
  BY <1>1 DEF ProducerInv, Graph, Books, KeptApart
<1>6. "pc" \in DOMAIN proc'
  BY DEF Loaded, NewProcess
<1> QED BY <1>1, <1>2, <1>3, <1>4, <1>5, <1>6 DEF ProducerInv, JobFits

LEMMA LoadsStay ==
  ASSUME ProducerInv, NEW r, NEW outbox,
         LoadClean \/ LoadBadEnvelope(r) \/ LoadBackup(outbox) \/ LoadSalvage(outbox)
  PROVE  ProducerInv'
<1> DEFINE nothing == {}
           sweep == ~torn
<1>1. /\ IsData(data) /\ KeptApart(data, revs) /\ Books(data, revs, accepted, forgotten, files)
      /\ \A dead : dead \subseteq forgotten \cup data.queue \cup RowsOf(data) => dead \subseteq 1..Len(revs)
  BY DEF ProducerInv, Books, KeptApart, Graph
<1>2. Books(data, revs, accepted, forgotten \cup nothing, files) /\ nothing \subseteq 1..Len(revs)
  BY <1>1, BooksStay
<1>3. CASE LoadClean
  <2>1. Load(data, sweep, nothing) /\ Loaded(FALSE)
        /\ (bak' = bak \/ bak' = NoBackup \/ bak' = [ok |-> TRUE, data |-> data])
    BY <1>3 DEF LoadClean, Save
  <2> HIDE DEF nothing, sweep
  <2> QED BY <1>2, <2>1, LoadStays
<1>4. CASE LoadBadEnvelope(r)
  <2> DEFINE rows == data.rows \cup {[rev |-> r, known |-> FALSE]}
             e == [data EXCEPT !.queue = @ \ {r}, !.rows = rows]
  <2> HIDE DEF rows
  <2>1. r \in data.queue /\ Load(e, TRUE, {r}) /\ Loaded(FALSE) /\ bak' = bak
    BY <1>4 DEF LoadBadEnvelope, rows
  <2>2. /\ IsData(e) /\ e.maps = data.maps /\ e.heads = data.heads
        /\ e.queue = data.queue \ {r} /\ e.rows = rows /\ e.stash = data.stash
    <3>1. e = [data EXCEPT !.queue = data.queue \ {r}, !.rows = rows]
      OBVIOUS
    <3> HIDE DEF e
    <3> QED BY <1>1, <3>1 DEF IsData
  <2> HIDE DEF e
  <2>3. RowsOf(e) = RowsOf(data) \cup {r} /\ Stashed(e) = Stashed(data)
    <3>1. [rev |-> r, known |-> FALSE].rev = r /\ [rev |-> r, known |-> FALSE] \in rows
          /\ data.rows \subseteq rows
      BY DEF rows
    <3>2. \A w \in rows : w \in data.rows \/ w.rev = r
      BY DEF rows
    <3> QED BY <2>2, <3>1, <3>2 DEF RowsOf, Stashed
  <2>4. \A w \in e.rows : w.known \/ w.rev \in accepted \cup e.queue \cup (forgotten \cup {r})
    BY <1>1, <2>2 DEF Books, TracksHeads, rows
  <2>5. KeptApart(e, revs) /\ Tracked(data, accepted, forgotten) \subseteq Tracked(e, accepted, forgotten \cup {r})
    BY <1>1, <2>1, <2>2, <2>3 DEF KeptApart, Tracked
  <2>6. Books(e, revs, accepted, forgotten \cup {r}, files)
    <3>1. e.queue \cup RowsOf(e) \subseteq data.queue \cup RowsOf(data)
      BY <2>1, <2>2, <2>3
    <3> DEFINE gone == forgotten \cup {r}
    <3> HIDE DEF gone
    <3>2. Books(e, revs, accepted, gone, files)
      BY <1>1, <2>2, <2>4, <2>5, <3>1, BooksMove DEF gone
    <3> QED BY <3>2 DEF gone
  <2> QED BY <1>1, <2>1, <2>6, LoadStays
<1>5. CASE LoadBackup(outbox)
  <2>1. bak.ok /\ Load(bak.data, FALSE, nothing) /\ (bak' = bak \/ bak' = NoBackup)
        /\ \E recovery : Loaded(recovery)
    BY <1>5 DEF LoadBackup
  <2>2. Books(bak.data, revs, accepted, forgotten \cup nothing, files)
    BY <2>1, BooksStay DEF ProducerInv
  <2> HIDE DEF nothing
  <2> QED BY <1>2, <2>1, <2>2, LoadStays
<1>6. CASE LoadSalvage(outbox) /\ outbox
  <2>1. Load(data, FALSE, nothing) /\ bak' = NoBackup /\ \E recovery : Loaded(recovery)
    BY <1>6 DEF LoadSalvage
  <2> HIDE DEF nothing
  <2> QED BY <1>2, <2>1, LoadStays
<1>7. CASE LoadSalvage(outbox) /\ ~outbox
  <2> DEFINE e == [EmptyData EXCEPT !.maps = data.maps, !.heads = data.heads]
             dead == data.queue \cup {w.rev : w \in data.rows}
  <2>1. Load(e, FALSE, dead) /\ bak' = NoBackup /\ \E recovery : Loaded(recovery)
    BY <1>7 DEF LoadSalvage
  <2>2. /\ IsData(e) /\ e.maps = data.maps /\ e.heads = data.heads
        /\ e.queue = {} /\ e.rows = {} /\ e.stash = {}
    <3>1. /\ IsData(EmptyData) /\ EmptyData.queue = {} /\ EmptyData.rows = {} /\ EmptyData.stash = {}
      BY DEF IsData, EmptyData
    <3>2. e = [EmptyData EXCEPT !.maps = data.maps, !.heads = data.heads]
      OBVIOUS
    <3> HIDE DEF e
    <3> QED BY <3>1, <3>2 DEF IsData
  <2> HIDE DEF e
  <2>3. RowsOf(e) = {} /\ Stashed(e) = {} /\ dead = data.queue \cup RowsOf(data)
    BY <2>2 DEF RowsOf, Stashed
  <2> HIDE DEF dead
  <2>4. KeptApart(e, revs) /\ Tracked(data, accepted, forgotten) \subseteq Tracked(e, accepted, forgotten \cup dead)
    BY <2>2, <2>3 DEF KeptApart, Tracked
  <2>5. Books(e, revs, accepted, forgotten \cup dead, files)
    BY <1>1, <2>2, <2>3, <2>4, BooksMove
  <2> QED BY <1>1, <2>1, <2>3, <2>5, LoadStays
<1> QED BY <1>3, <1>4, <1>5, <1>6, <1>7

-----------------------------------------------------------------------------
(* The parents of a new revision: the head, walked back through failed     *)
(* revisions.  The walk is a recursive function; that it exists and what   *)
(* it visits is shown from the least step at which it would fail.          *)

LEMMA LeastExists ==
  ASSUME NEW T, T \subseteq Nat, T # {}
  PROVE  \E x \in T : \A y \in T : ~(y < x)
<1>1. PICK x \in T : \A y \in T : ~(<<y, x>> \in OpToRel(<, Nat))
  BY NatLessThanWellFounded, WFMin, Zenon
<1>2. \A y \in T : ~(y < x)
  BY <1>1 DEF OpToRel
<1> QED BY <1>2

\* One more step back from each revision of a set.
Back(t) == UNION {QuarantinedParents(s) : s \in t}

LEMMA BackOf ==
  ASSUME NEW t, NEW s \in Back(t)
  PROVE  \E u \in t : s \in QuarantinedParents(u)
BY DEF Back

LEMMA WalkExists ==
  ASSUME NEW r, NEW last \in Nat
  PROVE  \E f : f = [n \in 0..last |-> IF n = 0 THEN {r} ELSE Back(f[n - 1])]
<1> DEFINE Walks(f, k) == f = [n \in 0..k |-> IF n = 0 THEN {r} ELSE Back(f[n - 1])]
           T == {k \in Nat : ~\E f : Walks(f, k)}
<1> SUFFICES ASSUME T # {} PROVE FALSE
  OBVIOUS
<1>1. PICK k \in T : \A j \in T : ~(j < k)
  BY LeastExists
<1>2. CASE k = 0
  <2>1. Walks([n \in 0..0 |-> {r}], 0)
    OBVIOUS
  <2> QED BY <1>1, <1>2, <2>1
<1>3. CASE k # 0
  <2>1. k - 1 \in Nat /\ k - 1 \notin T
    <3>1. k \in Nat
      OBVIOUS
    <3> HIDE DEF T
    <3> QED BY <1>1, <1>3, <3>1
  <2>2. PICK f : Walks(f, k - 1)
    BY <2>1
  <2> DEFINE g == [n \in 0..k |-> IF n = k THEN Back(f[k - 1]) ELSE f[n]]
  <2>3. ASSUME NEW n \in 0..k PROVE g[n] = IF n = 0 THEN {r} ELSE Back(g[n - 1])
    <3>1. CASE n = k
      BY <1>1, <1>3, <3>1
    <3>2. CASE n # k
      <4>1. n \in 0..(k - 1) /\ (n # 0 => n - 1 \in 0..(k - 1) /\ n - 1 # k)
        BY <1>1, <3>2
      <4>2. f[n] = IF n = 0 THEN {r} ELSE Back(f[n - 1])
        BY <2>2, <4>1
      <4>3. g[n] = f[n] /\ (n # 0 => g[n - 1] = f[n - 1])
        BY <1>1, <3>2, <4>1
      <4> QED BY <4>2, <4>3
    <3> QED BY <3>1, <3>2
  <2>4. Walks(g, k)
    <3>1. g = [n \in 0..k |-> g[n]]
      OBVIOUS
    <3> HIDE DEF g
    <3> QED BY <2>3, <3>1
  <2> QED BY <1>1, <2>4
<1> QED BY <1>2, <1>3

\* A tracked revision is where the walk ends, or a failed one whose parents are older.
LEMMA StepBack ==
  ASSUME ProducerInv, NEW t, t \in Tracked(data, accepted, forgotten)
  PROVE  /\ t \in 1..Len(revs)
         /\ \/ QuarantinedParents(t) = {t} /\ t \in Sent \cup forgotten
            \/ /\ QuarantinedParents(t) \subseteq Tracked(data, accepted, forgotten)
               /\ \A s \in QuarantinedParents(t) : s < t
<1>1. /\ Graph(revs, accepted, forgotten, files) /\ KeptApart(data, revs)
      /\ TracksHeads(data, revs, accepted, forgotten)
  BY DEF ProducerInv, Books
<1>2. t \in 1..Len(revs)
  BY <1>1 DEF Graph, KeptApart, Tracked
<1>3. CASE t \notin RowsOf(data)
  <2>1. {w \in data.rows : w.rev = t} = {}
    BY <1>3 DEF RowsOf
  <2>2. QuarantinedParents(t) = {t}
    BY <2>1 DEF QuarantinedParents
  <2> QED BY <1>2, <1>3, <2>2 DEF Tracked, Sent
<1>4. CASE t \in RowsOf(data) /\ \E w \in data.rows : w.rev = t /\ (w.known \/ t \in Stashed(data))
  <2>1. {w \in data.rows : w.rev = t} # {}
    BY <1>4 DEF RowsOf
  <2>2. QuarantinedParents(t) = revs[t].parents
    BY <1>4, <2>1 DEF QuarantinedParents
  <2>3. revs[t].parents \subseteq 1..(t - 1)
    BY <1>1, <1>2 DEF Graph
  <2>4. \A s \in QuarantinedParents(t) : s < t
    BY <1>2, <2>2, <2>3
  <2>5. revs[t].parents \subseteq Tracked(data, accepted, forgotten)
    BY <1>1, <1>4 DEF TracksHeads
  <2> QED BY <1>2, <2>2, <2>4, <2>5
<1>5. CASE t \in RowsOf(data) /\ ~\E w \in data.rows : w.rev = t /\ (w.known \/ t \in Stashed(data))
  <2>1. PICK w \in data.rows : w.rev = t
    BY <1>5 DEF RowsOf
  <2>2. QuarantinedParents(t) = {t}
    BY <1>5, <2>1 DEF QuarantinedParents
  <2>3. t \in accepted \cup data.queue \cup forgotten
    BY <1>1, <1>5, <2>1 DEF TracksHeads
  <2> QED BY <1>2, <2>2, <2>3 DEF Sent
<1> QED BY <1>3, <1>4, <1>5

LEMMA WalkEnds ==
  ASSUME ProducerInv, NEW r, r \in Tracked(data, accepted, forgotten),
         NEW f, f = [n \in 0..MaxRevisions |-> IF n = 0 THEN {r} ELSE Back(f[n - 1])]
  PROVE  f[MaxRevisions] \subseteq Sent \cup forgotten
<1> DEFINE Ends(s) == QuarantinedParents(s) = {s} /\ s \in Sent \cup forgotten
           Fine(n, s) == /\ s \in Tracked(data, accepted, forgotten)
                         /\ Ends(s) \/ s + n <= r
           T == {n \in 0..MaxRevisions : ~\A s \in f[n] : Fine(n, s)}
<1>1. /\ MaxRevisions \in Nat /\ r \in 1..Len(revs) /\ Len(revs) \in Nat /\ Len(revs) <= MaxRevisions
      /\ \A s \in Tracked(data, accepted, forgotten) : s \in 1..Len(revs)
  <2>1. Len(revs) \in Nat /\ Len(revs) <= MaxRevisions
    BY DEF ProducerInv, Graph
  <2>2. \A s \in Tracked(data, accepted, forgotten) : s \in 1..Len(revs)
    BY StepBack
  <2> QED BY <2>1, <2>2, ProducerAssumption
<1>2. T = {}
  <2> SUFFICES ASSUME T # {} PROVE FALSE
    OBVIOUS
  <2>1. PICK k \in T : \A j \in T : ~(j < k)
    <3>1. T \subseteq Nat
      BY <1>1
    <3> HIDE DEF T
    <3> QED BY <3>1, LeastExists
  <2>2. k \in 0..MaxRevisions /\ k \in Nat
    BY <1>1
  <2>3. CASE k = 0
    <3>1. f[k] = {r}
      BY <1>1, <2>3
    <3> QED BY <1>1, <2>1, <2>3, <3>1
  <2>4. CASE k # 0
    <3>1. k - 1 \in 0..MaxRevisions /\ k - 1 \notin T
      <4>1. k - 1 \in 0..MaxRevisions /\ k - 1 < k
        BY <1>1, <2>2, <2>4
      <4> HIDE DEF T
      <4> QED BY <2>1, <4>1
    <3>2. \A t \in f[k - 1] : Fine(k - 1, t)
      BY <3>1
    <3>3. f[k] = Back(f[k - 1])
      BY <2>2, <2>4
    <3>4. ASSUME NEW s \in f[k] PROVE Fine(k, s)
      <4>1. PICK t \in f[k - 1] : s \in QuarantinedParents(t)
        BY <3>3, BackOf
      <4>2. Fine(k - 1, t)
        BY <3>2
      <4>3. CASE Ends(t)
        BY <4>1, <4>2, <4>3
      <4>4. CASE ~Ends(t)
        <5>1. t + (k - 1) <= r /\ t \in Tracked(data, accepted, forgotten) /\ t \in 1..Len(revs)
          BY <1>1, <4>2, <4>4
        <5>2. s \in Tracked(data, accepted, forgotten) /\ s < t
          BY <4>1, <4>4, <5>1, StepBack
        <5>3. s \in 1..Len(revs)
          BY <1>1, <5>2
        <5>4. s + k <= r
          BY <1>1, <2>2, <5>1, <5>2, <5>3
        <5> QED BY <5>2, <5>4
      <4> QED BY <4>3, <4>4
    <3> QED BY <2>1, <3>4
  <2> QED BY <2>3, <2>4
<1>3. ASSUME NEW s \in f[MaxRevisions] PROVE s \in Sent \cup forgotten
  <2>1. Fine(MaxRevisions, s)
    <3>1. MaxRevisions \in 0..MaxRevisions /\ MaxRevisions \notin T
      <4> HIDE DEF T
      <4> QED BY <1>1, <1>2
    <3> QED BY <3>1
  <2>2. s \in 1..Len(revs)
    BY <1>1, <2>1
  <2>3. ~(s + MaxRevisions <= r)
    BY <1>1, <2>2
  <2> QED BY <2>1, <2>3
<1> QED BY <1>3

\* A new revision names as parents only what the server has or will get, or
\* what was forgotten.
LEMMA LiveParentsLive ==
  ASSUME ProducerInv, NEW r, r = 0 \/ r \in Tracked(data, accepted, forgotten)
  PROVE  LiveParents(r) \subseteq Sent \cup forgotten
<1>1. CASE r = 0
  BY <1>1 DEF LiveParents
<1>2. CASE r # 0
  <2> DEFINE Walk(f) == f = [n \in 0..MaxRevisions |-> IF n = 0 THEN {r} ELSE Back(f[n - 1])]
             step == CHOOSE f : Walk(f)
  <2>1. LiveParents(r) = step[MaxRevisions]
    BY <1>2 DEF LiveParents, Back
  <2>2. MaxRevisions \in Nat
    BY ProducerAssumption
  <2>3. \E f : Walk(f)
    BY <2>2, WalkExists, ZenonT(60)
  <2>4. Walk(step)
    <3> HIDE DEF Walk
    <3> QED BY <2>3
  <2>5. step[MaxRevisions] \subseteq Sent \cup forgotten
    <3> HIDE DEF step
    <3> QED BY <1>2, <2>4, WalkEnds
  <2> QED BY <2>1, <2>5
<1> QED BY <1>1, <1>2

-----------------------------------------------------------------------------
(* Identities and commits.                                                 *)

\* A file of the server that is adopted was not mapped, and has one head.
LEMMA BootstrapBooks ==
  ASSUME ProducerInv
  PROVE  Books(bootstrapIdentities.data, revs, accepted, forgotten, files)
<1> DEFINE adopted == {r \in Candidates : Adoptable(r)}
           new == {[file |-> revs[r].file, path |-> revs[r].path, hash |-> revs[r].content] : r \in adopted}
           maps == data.maps \cup new
           heads == [f \in File |-> IF \E r \in adopted : revs[r].file = f
                                    THEN CHOOSE r \in adopted : revs[r].file = f ELSE data.heads[f]]
           e == bootstrapIdentities.data
<1>1. /\ Graph(revs, accepted, forgotten, files) /\ IsData(data) /\ MapsHeads(data, revs, files)
      /\ KeptApart(data, revs) /\ TracksHeads(data, revs, accepted, forgotten)
  BY DEF ProducerInv, Books
<1>2. e = [data EXCEPT !.maps = maps, !.heads = heads]
  BY <1>1 DEF bootstrapIdentities, IsData
<1>3. ASSUME NEW r \in adopted
      PROVE  /\ r \in accepted /\ r \in 1..Len(revs)
             /\ revs[r].file \in 1..files /\ revs[r].file \in File
             /\ \A m \in data.maps : m.file # revs[r].file
             /\ \A s \in adopted : revs[s].file = revs[r].file => s = r
  <2>1. ASSUME NEW s \in Candidates PROVE s \in Leaves(revs[s].file) /\ s \in accepted
    BY DEF Candidates, Leaves
  <2>2. r \in accepted /\ r \in 1..Len(revs)
    BY <1>1, <2>1 DEF Graph
  <2>3. revs[r].file \in 1..files /\ revs[r].file \in File
    BY <1>1, <2>2, ProducerAssumption DEF Graph, File
  <2>4. \A m \in data.maps : m.file # revs[r].file
    BY DEF Candidates
  <2>5. Leaves(revs[r].file) = {r}
    BY DEF Adoptable, Matching
  <2>6. \A s \in adopted : revs[s].file = revs[r].file => s = r
    BY <2>1, <2>5
  <2> QED BY <2>2, <2>3, <2>4, <2>6
<1> HIDE DEF adopted
<1>4. ASSUME NEW m \in new
      PROVE  \E r \in adopted : /\ m.file = revs[r].file /\ m.path = revs[r].path /\ m.hash = revs[r].content
                                /\ heads[m.file] = r
  <2>1. PICK r \in adopted : m = [file |-> revs[r].file, path |-> revs[r].path, hash |-> revs[r].content]
    OBVIOUS
  <2>2. m.file = revs[r].file /\ m.path = revs[r].path /\ m.hash = revs[r].content
    BY <2>1
  <2>3. heads[m.file] = CHOOSE s \in adopted : revs[s].file = m.file
    BY <1>3, <2>2
  <2> QED BY <1>3, <2>2, <2>3
<1>5. \A f \in File : heads[f] = data.heads[f] \/ heads[f] \in adopted
  OBVIOUS
<1>6. ASSUME NEW m \in data.maps PROVE heads[m.file] = data.heads[m.file]
  <2>1. m.file \in File
    BY <1>1, ProducerAssumption DEF MapsHeads, Graph, File
  <2> QED BY <1>3, <2>1
<1>7. heads \in [File -> 0..MaxRevisions]
  <2>1. \A r \in adopted : r \in 0..MaxRevisions
    BY <1>1, <1>3, ProducerAssumption DEF Graph
  <2>2. \A f \in File : heads[f] \in 0..MaxRevisions
    BY <1>1, <1>5, <2>1 DEF TracksHeads
  <2> QED BY <2>2
<1> HIDE DEF heads, new, e
<1>8. /\ IsData(e) /\ e.maps = maps /\ e.heads = heads
      /\ e.queue = data.queue /\ e.rows = data.rows /\ e.stash = data.stash
  <2> HIDE DEF maps
  <2> QED BY <1>1, <1>2 DEF IsData
<1>9. MapsHeads(e, revs, files)
  <2>1. ASSUME NEW m \in e.maps
        PROVE  /\ m.file \in 1..files /\ e.heads[m.file] \in 1..Len(revs)
               /\ revs[e.heads[m.file]].content = m.hash /\ revs[e.heads[m.file]].path = m.path
    <3>1. CASE m \in data.maps
      BY <1>1, <1>6, <1>8, <3>1 DEF MapsHeads
    <3>2. CASE m \in new
      BY <1>3, <1>4, <1>8, <3>2
    <3> QED BY <1>8, <3>1, <3>2
  <2>2. ASSUME NEW m \in e.maps, NEW o \in e.maps, m.file = o.file PROVE m = o
    <3>1. CASE m \in data.maps /\ o \in data.maps
      BY <1>1, <2>2, <3>1 DEF MapsHeads
    <3>2. CASE m \in new /\ o \in new
      <4>1. PICK r \in adopted : m = [file |-> revs[r].file, path |-> revs[r].path, hash |-> revs[r].content]
        BY <3>2 DEF new
      <4>2. PICK s \in adopted : o = [file |-> revs[s].file, path |-> revs[s].path, hash |-> revs[s].content]
        BY <3>2 DEF new
      <4>3. r = s
        BY <1>3, <2>2, <4>1, <4>2
      <4> QED BY <4>1, <4>2, <4>3
    <3>3. CASE (m \in data.maps /\ o \in new) \/ (m \in new /\ o \in data.maps)
      BY <1>3, <1>4, <2>2, <3>3
    <3> QED BY <1>8, <3>1, <3>2, <3>3
  <2> QED BY <2>1, <2>2 DEF MapsHeads
<1>10. RowsOf(e) = RowsOf(data) /\ Stashed(e) = Stashed(data)
  BY <1>8 DEF RowsOf, Stashed
<1>11. KeptApart(e, revs)
  BY <1>1, <1>8, <1>10 DEF KeptApart
<1>12. TracksHeads(e, revs, accepted, forgotten)
  <2>1. Tracked(e, accepted, forgotten) = Tracked(data, accepted, forgotten)
    BY <1>8, <1>10 DEF Tracked
  <2>2. \A r \in adopted : r \in Tracked(e, accepted, forgotten)
    BY <1>3 DEF Tracked
  <2>3. ASSUME NEW f \in File, heads[f] # 0 PROVE heads[f] \in Tracked(e, accepted, forgotten)
    BY <1>1, <1>5, <2>1, <2>2, <2>3 DEF TracksHeads
  <2> QED BY <1>1, <1>7, <1>8, <1>10, <2>1, <2>3 DEF TracksHeads
<1> QED BY <1>8, <1>9, <1>11, <1>12 DEF Books, e

LEMMA InitializeStays ==
  ASSUME ProducerInv, NEW listed, initialize(listed)
  PROVE  ProducerInv'
<1> DEFINE e == bootstrapIdentities.data
<1>1. /\ UNCHANGED <<payloads, graph, job>> /\ proc.pc = "loaded"
      /\ data' = e /\ (bak' = bak \/ Save(data'))
  BY DEF initialize, Save
<1>2. "pc" \in DOMAIN proc'
  BY DEF initialize, ProducerInv
<1>3. Books(data', revs, accepted, forgotten, files)
  BY <1>1, BootstrapBooks
<1>4. data'.queue = data.queue /\ Stashed(data') = Stashed(data)
  BY <1>1 DEF bootstrapIdentities, ProducerInv, Books, IsData, Stashed
<1>5. bak'.ok => Books(bak'.data, revs', accepted', forgotten', files')
  BY <1>1, BackupKept DEF graph
<1>6. BytesHeld'
  BY <1>1, <1>4 DEF ProducerInv, BytesHeld, Listening
<1> QED BY <1>1, <1>2, <1>3, <1>5, <1>6 DEF ProducerInv, JobFits, graph

LEMMA LargerOf ==
  ASSUME NEW a \in Nat, NEW b \in Nat
  PROVE  Max({a, b}) \in {a, b} /\ a <= Max({a, b}) /\ b <= Max({a, b})
<1>1. \E x \in {a, b} : \A y \in {a, b} : x >= y
  OBVIOUS
<1>2. Max({a, b}) \in {a, b} /\ \A y \in {a, b} : Max({a, b}) >= y
  BY <1>1 DEF Max
<1> QED BY <1>2

\* What a commit writes, from the copy it starts with.
LEMMA CommittedData ==
  ASSUME ProducerInv, job # None, NEW parents
  PROVE  LET e == Committed(parents).data
             delete == job.kind = "delete"
         IN /\ IsData(e) /\ e.rows = data.rows /\ e.stash = data.stash
            /\ e.maps = IF delete THEN WithoutFile(data.maps, job.file)
                        ELSE WithMapping(data.maps, job.file, job.path, job.content)
            /\ e.heads = [data.heads EXCEPT ![job.file] = IF delete THEN 0 ELSE Len(revs) + 1]
            /\ e.queue = IF Committed(parents).queued THEN data.queue \cup {Len(revs) + 1} ELSE data.queue
<1> DEFINE delete == job.kind = "delete"
           queued == ~(delete /\ parents = {})
           maps == IF delete THEN WithoutFile(data.maps, job.file)
                   ELSE WithMapping(data.maps, job.file, job.path, job.content)
           head == IF delete THEN 0 ELSE Len(revs) + 1
           queue == IF queued THEN data.queue \cup {Len(revs) + 1} ELSE data.queue
           e == Committed(parents).data
<1>1. IsData(data)
  BY DEF ProducerInv, Books
<1>2. Committed(parents).queued = queued
  BY DEF Committed
<1>3. e = [data EXCEPT !.maps = maps, !.heads = [data.heads EXCEPT ![job.file] = head], !.queue = queue]
  BY <1>1 DEF Committed, IsData
<1> HIDE DEF e, maps, head, queue, queued
<1>4. /\ IsData(e) /\ e.rows = data.rows /\ e.stash = data.stash
      /\ e.maps = maps /\ e.queue = queue /\ e.heads = [data.heads EXCEPT ![job.file] = head]
  BY <1>1, <1>3 DEF IsData
<1> QED BY <1>2, <1>4 DEF e, maps, head, queue, queued

LEMMA CommitStays ==
  ASSUME ProducerInv, commitLocalChange
  PROVE  ProducerInv' /\ ParentsIn(Sent \cup forgotten)
<1> DEFINE parents == LiveParents(data.heads[job.file])
           f == job.file
           new == Len(revs) + 1
           delete == job.kind = "delete"
           queued == Committed(parents).queued
           e == Committed(parents).data
           x == QueuedRevision(parents)
<1>1. /\ job # None /\ job' = None /\ UNCHANGED <<accepted, forgotten>>
      /\ revs' = (IF queued THEN Append(revs, x) ELSE revs)
      /\ payloads' = (IF queued THEN payloads \cup {new} ELSE payloads)
      /\ files' = Max({files, f}) /\ Succeeded(job.task, e)
  <2>1. Committed(parents).rev = x
    BY DEF Committed
  <2> HIDE DEF x
  <2> QED BY <2>1 DEF commitLocalChange
<1>2. /\ Graph(revs, accepted, forgotten, files) /\ Books(data, revs, accepted, forgotten, files)
      /\ IsData(data) /\ KeptApart(data, revs) /\ TracksHeads(data, revs, accepted, forgotten)
      /\ MapsHeads(data, revs, files)
  BY DEF ProducerInv, Books
<1>3. /\ Len(revs) \in Nat /\ Len(revs) < MaxRevisions /\ MaxRevisions \in Nat
      /\ files \in Nat /\ files <= Len(revs)
      /\ f \in 1..(files + 1) /\ f \in File /\ (job.kind # "create" => f <= files)
  <2>1. Len(revs) \in Nat /\ MaxRevisions \in Nat /\ files \in 0..Len(revs)
    BY <1>2, ProducerAssumption DEF Graph
  <2>2. Len(revs) < MaxRevisions /\ f \in 1..(files + 1) /\ (job.kind # "create" => f <= files)
    BY <1>1 DEF ProducerInv, JobFits
  <2>3. f \in File
    BY <2>1, <2>2 DEF File
  <2> QED BY <2>1, <2>2, <2>3
<1>4. parents \subseteq Sent \cup forgotten /\ parents \subseteq 1..Len(revs)
  <2>1. data.heads[f] = 0 \/ data.heads[f] \in Tracked(data, accepted, forgotten)
    BY <1>2, <1>3 DEF TracksHeads
  <2>2. parents \subseteq Sent \cup forgotten
    BY <2>1, LiveParentsLive
  <2>3. Sent \cup forgotten \subseteq 1..Len(revs)
    BY <1>2 DEF Graph, KeptApart, Sent
  <2> QED BY <2>2, <2>3
<1>5. /\ files' \in Nat /\ files <= files' /\ f <= files' /\ f \in 1..files'
      /\ files' <= new /\ (job.kind # "create" => files' = files)
  <2>1. f \in Nat /\ f >= 1
    BY <1>3
  <2>2. files' \in {files, f} /\ files <= files' /\ f <= files'
    BY <1>1, <1>3, <2>1, LargerOf
  <2> QED BY <1>3, <2>1, <2>2
<1>6. /\ IsData(e) /\ e.rows = data.rows /\ e.stash = data.stash
      /\ e.maps = (IF delete THEN WithoutFile(data.maps, f) ELSE WithMapping(data.maps, f, job.path, job.content))
      /\ e.heads = [data.heads EXCEPT ![f] = IF delete THEN 0 ELSE new]
      /\ e.queue = IF queued THEN data.queue \cup {new} ELSE data.queue
  BY <1>1, CommittedData
<1>7. queued <=> ~(delete /\ parents = {})
  BY DEF Committed
<1>8. /\ x.file = f /\ x.path = job.path /\ x.content = job.content
      /\ x.parents \subseteq parents
  BY DEF QueuedRevision
<1> HIDE DEF parents, e, queued, x
<1>9. /\ IsData(data') /\ data'.rows = e.rows /\ data'.stash = e.stash /\ data'.maps = e.maps
      /\ data'.heads = e.heads /\ data'.queue = e.queue
      /\ bak' = bak \/ Save(data')
      /\ "pc" \in DOMAIN proc' /\ proc'.pc = proc.pc
  <2>1. data' = e \/ data' = [e EXCEPT !.failed = @ \ {job.task.path}]
    BY <1>1 DEF Succeeded, Save
  <2>2. bak' = bak \/ Save(data')
    BY <1>1 DEF Succeeded, Save
  <2>3. "pc" \in DOMAIN proc' /\ proc'.pc = proc.pc
    BY <1>1 DEF Succeeded, ProducerInv
  <2> QED BY <1>6, <2>1, <2>2, <2>3 DEF IsData
<1>10. RowsOf(data') = RowsOf(data) /\ Stashed(data') = Stashed(data)
  BY <1>6, <1>9 DEF RowsOf, Stashed
<1>11. ASSUME queued
       PROVE  /\ revs' = Append(revs, x) /\ Len(revs') = new /\ revs'[new] = x
              /\ \A r \in 1..Len(revs) : revs'[r] = revs[r]
  <2>1. revs' = Append(revs, x)
    BY <1>1, <1>11
  <2>2. /\ Len(Append(revs, x)) = new /\ Append(revs, x)[new] = x
        /\ \A r \in 1..Len(revs) : Append(revs, x)[r] = revs[r]
    BY <1>2, Appended DEF Graph
  <2> QED BY <2>1, <2>2
<1>12. ASSUME ~queued PROVE revs' = revs /\ files' = files /\ delete
  BY <1>1, <1>5, <1>7, <1>12
<1>13. Graph(revs', accepted', forgotten', files')
  <2>1. CASE queued
    <3>1. Graph(Append(revs, x), accepted, forgotten, files')
      BY <1>2, <1>3, <1>4, <1>5, <1>8, GraphGrows
    <3> QED BY <1>1, <1>11, <2>1, <3>1
  <2>2. CASE ~queued
    BY <1>1, <1>2, <1>12, <2>2
  <2> QED BY <2>1, <2>2
<1>14. ASSUME NEW d, Books(d, revs, accepted, forgotten, files)
       PROVE  Books(d, revs', accepted', forgotten', files')
  <2>1. CASE queued
    BY <1>1, <1>2, <1>5, <1>14, <2>1, BooksGrow
  <2>2. CASE ~queued
    BY <1>1, <1>12, <1>14, <2>2
  <2> QED BY <2>1, <2>2
<1>15. /\ MapsHeads(data, revs', files') /\ KeptApart(data, revs')
       /\ TracksHeads(data, revs', accepted, forgotten)
  BY <1>1, <1>2, <1>14 DEF Books
<1>16. MapsHeads(data', revs', files')
  <2>1. \A m \in data'.maps : \/ m \in data.maps /\ m.file # f
                              \/ ~delete /\ m = [file |-> f, path |-> job.path, hash |-> job.content]
    BY <1>6, <1>9 DEF WithoutFile, WithMapping
  <2>2. ASSUME NEW m \in data.maps, m.file # f PROVE data'.heads[m.file] = data.heads[m.file]
    <3>1. m.file \in File
      BY <1>2, <1>3 DEF MapsHeads, File
    <3> QED BY <1>2, <1>6, <1>9, <2>2, <3>1 DEF TracksHeads
  <2>3. ASSUME ~delete PROVE data'.heads[f] = new /\ queued
    BY <1>2, <1>3, <1>6, <1>7, <1>9, <2>3 DEF TracksHeads
  <2>4. ASSUME NEW m \in data'.maps
        PROVE  /\ m.file \in 1..files' /\ data'.heads[m.file] \in 1..Len(revs')
               /\ revs'[data'.heads[m.file]].content = m.hash /\ revs'[data'.heads[m.file]].path = m.path
    <3>1. CASE m \in data.maps /\ m.file # f
      BY <1>15, <2>2, <3>1 DEF MapsHeads
    <3>2. CASE ~delete /\ m = [file |-> f, path |-> job.path, hash |-> job.content]
      <4>1. m.file = f /\ m.path = job.path /\ m.hash = job.content
        BY <3>2
      <4>2. data'.heads[f] = new /\ new \in 1..Len(revs') /\ revs'[new] = x
        BY <1>3, <1>11, <2>3, <3>2
      <4> QED BY <1>5, <1>8, <4>1, <4>2
    <3> QED BY <2>1, <3>1, <3>2
  <2>5. ASSUME NEW m \in data'.maps, NEW o \in data'.maps, m.file = o.file PROVE m = o
    BY <1>15, <2>1, <2>5 DEF MapsHeads
  <2> QED BY <2>4, <2>5 DEF MapsHeads
<1>17. KeptApart(data', revs')
  <2>1. new \notin 1..Len(revs) /\ 1..Len(revs) \subseteq 1..new /\ new \in 1..new
    BY <1>3
  <2> QED BY <1>2, <1>6, <1>9, <1>10, <1>11, <1>12, <1>15, <2>1 DEF KeptApart
<1>18. TracksHeads(data', revs', accepted', forgotten')
  <2>1. Tracked(data, accepted, forgotten) \subseteq Tracked(data', accepted', forgotten')
    BY <1>1, <1>6, <1>9, <1>10 DEF Tracked
  <2>2. queued => new \in data'.queue /\ new \in Tracked(data', accepted', forgotten')
    BY <1>6, <1>9 DEF Tracked
  <2>3. data'.heads = [data.heads EXCEPT ![f] = IF delete THEN 0 ELSE new]
    BY <1>6, <1>9
  <2>4. data'.heads \in [File -> 0..MaxRevisions]
    BY <1>2, <1>3, <2>3 DEF TracksHeads
  <2>5. ASSUME NEW g \in File, data'.heads[g] # 0 PROVE data'.heads[g] \in Tracked(data', accepted', forgotten')
    <3>1. CASE g = f
      BY <1>2, <1>7, <2>2, <2>3, <2>5, <3>1 DEF TracksHeads
    <3>2. CASE g # f
      BY <1>2, <2>1, <2>3, <2>5, <3>2 DEF TracksHeads
    <3> QED BY <3>1, <3>2
  <2>6. ASSUME NEW r \in data'.queue \cup RowsOf(data')
        PROVE  revs'[r].parents \subseteq Tracked(data', accepted', forgotten')
    <3>1. CASE r \in data.queue \cup RowsOf(data)
      BY <1>15, <2>1, <3>1 DEF TracksHeads
    <3>2. CASE queued /\ r = new
      BY <1>4, <1>8, <1>11, <2>1, <3>2 DEF Tracked, Sent
    <3> QED BY <1>6, <1>9, <1>10, <3>1, <3>2
  <2>7. \A w \in data'.rows : w.known \/ w.rev \in accepted' \cup data'.queue \cup forgotten'
    BY <1>1, <1>2, <1>6, <1>9 DEF TracksHeads
  <2> QED BY <2>4, <2>5, <2>6, <2>7 DEF TracksHeads
<1>19. bak'.ok => Books(bak'.data, revs', accepted', forgotten', files')
  <2>1. CASE bak' = bak
    BY <1>14, <2>1 DEF ProducerInv
  <2>2. CASE Save(data')
    <3>1. bak' = NoBackup \/ bak' = [ok |-> TRUE, data |-> data]
      BY <2>2 DEF Save
    <3> QED BY <1>2, <1>14, <3>1 DEF NoBackup
  <2> QED BY <1>9, <2>1, <2>2
<1>20. BytesHeld'
  BY <1>1, <1>6, <1>9, <1>10 DEF ProducerInv, BytesHeld, Listening
<1>21. ParentsIn(Sent \cup forgotten)
  <2>1. CASE queued
    <3>1. revs'[Len(revs')].parents \subseteq Sent \cup forgotten
      BY <1>4, <1>8, <1>11, <2>1
    <3> QED BY <3>1 DEF ParentsIn
  <2>2. CASE ~queued
    <3>1. ~(Len(revs') > Len(revs))
      BY <1>3, <1>12, <2>2
    <3> QED BY <3>1 DEF ParentsIn
  <2> QED BY <2>1, <2>2
<1> QED BY <1>1, <1>9, <1>13, <1>16, <1>17, <1>18, <1>19, <1>20, <1>21 DEF ProducerInv, Books, JobFits

-----------------------------------------------------------------------------
(* The theorems.                                                           *)

LEMMA NextInv == ProducerInv /\ [Next]_vars => ProducerInv'
<1> SUFFICES ASSUME ProducerInv, [Next]_vars PROVE ProducerInv'
  OBVIOUS
<1>1. CASE \/ \E p \in Paths, c \in Contents : CreateFile(p, c) \/ ModifyFile(p, c)
           \/ \E p \in Paths : DeleteFile(p)
           \/ \E p, q \in Notes : RenameFile(p, q)
           \/ DeleteFolder
           \/ \E p \in Paths : SettleModify(p)
           \/ \E p \in Configs : ConfigPollTick(p)
  BY <1>1, EditsStay
<1>2. CASE (\E t \in scan : TakeScan(t)) \/ TakeTask
  <2>1. Len(revs) < MaxRevisions /\ proc.pc # "down" /\ \E t : Take(t)
    BY <1>2 DEF TakeScan, TakeTask
  <2> QED BY <2>1, TakeStays
<1>3. CASE TakeFolderDelete \/ initialized \/ ConfirmHeldDeletes \/ Stop \/ \E r \in Revision : LosePayload(r)
  BY <1>3, ProcessStays
<1>4. CASE commitLocalChange
  BY <1>4, CommitStays
<1>5. CASE CommitFails \/ initializeFails \/ \E p \in Paths : retryFailedCommit(p)
  BY <1>5, FailuresStay
<1>6. CASE \/ LoadClean
           \/ \E r \in Revision : LoadBadEnvelope(r)
           \/ \E outbox \in BOOLEAN : LoadBackup(outbox) \/ LoadSalvage(outbox)
  BY <1>6, LoadsStay
<1>7. CASE \E listed \in BOOLEAN : initialize(listed)
  BY <1>7, InitializeStays
<1>8. CASE \E r \in Revision : Accept(r) \/ Refuse(r)
  BY <1>8, AcceptStays, RefuseStays
<1>9. CASE \E w \in data.rows : retrySend(w) \/ discardSend(w)
  BY <1>9, PanelStays
<1>10. CASE UNCHANGED vars
  <2>1. UNCHANGED <<stored, graph, job, proc>>
    BY <1>10 DEF vars
  <2> QED BY <2>1, Still DEF stored, ProducerInv, BytesHeld, Stashed, Listening
<1> QED BY <1>1, <1>2, <1>3, <1>4, <1>5, <1>6, <1>7, <1>8, <1>9, <1>10 DEF Next

THEOREM BooksCorrect == Spec => []ProducerInv
BY InitInv, NextInv, PTL DEF Spec

\* commitLocalChange writes the mapping, the head and the queue entry at once, and
\* nothing that fails, is refused, is dropped by the user or is lost with a damaged
\* data.json takes one of them back without the others: the head of a mapped file
\* has the path and content the mapping records and is sent, queued or accounted for.
THEOREM HeadsCorrect == Spec => []HeadsPublished
<1>1. ProducerInv => HeadsPublished
  <2> SUFFICES ASSUME ProducerInv, NEW m \in data.maps
               PROVE  LET r == data.heads[m.file] IN
                      r # 0 /\ revs[r].content = m.hash /\ revs[r].path = m.path /\ r \in Sent \cup Failed
    BY DEF HeadsPublished
  <2>1. /\ Graph(revs, accepted, forgotten, files) /\ MapsHeads(data, revs, files)
        /\ TracksHeads(data, revs, accepted, forgotten)
    BY DEF ProducerInv, Books
  <2>2. m.file \in File
    BY <2>1, ProducerAssumption DEF MapsHeads, Graph, File
  <2>3. data.heads[m.file] # 0
    BY <2>1 DEF MapsHeads
  <2>4. data.heads[m.file] \in Sent \cup Failed
    BY <2>1, <2>2, <2>3 DEF TracksHeads, Tracked, RowsOf, Sent, Failed
  <2> QED BY <2>1, <2>3, <2>4 DEF MapsHeads
<1> QED BY <1>1, BooksCorrect, PTL

\* The order in which the payload store and data.json are written, read, swept and
\* trimmed to the stash budget never leaves a queued revision without its bytes.
THEOREM BytesCorrect == Spec => []BytesKept
<1>1. ProducerInv => BytesKept
  BY DEF ProducerInv, BytesHeld, BytesKept
<1> QED BY <1>1, BooksCorrect, PTL

LEMMA OnlyCommitsBuild ==
  ASSUME ProducerInv, [Next]_vars
  PROVE  commitLocalChange \/ revs' = revs
<1>1. CASE UNCHANGED vars
  BY <1>1 DEF vars, graph
<1>2. CASE \/ \E p \in Paths, c \in Contents : CreateFile(p, c) \/ ModifyFile(p, c)
           \/ \E p \in Paths : DeleteFile(p)
           \/ \E p, q \in Notes : RenameFile(p, q)
           \/ DeleteFolder
           \/ \E p \in Paths : SettleModify(p)
           \/ \E p \in Configs : ConfigPollTick(p)
  BY <1>2 DEF CreateFile, ModifyFile, DeleteFile, RenameFile, DeleteFolder, SettleModify,
              ConfigPollTick, EditFrame, graph
<1>3. CASE (\E t \in scan : TakeScan(t)) \/ TakeTask
  BY <1>3 DEF TakeScan, TakeTask, Take, graph
<1>4. CASE \/ TakeFolderDelete \/ initialized \/ ConfirmHeldDeletes \/ Stop \/ initializeFails
           \/ CommitFails \/ \E listed \in BOOLEAN : initialize(listed)
  BY <1>4 DEF TakeFolderDelete, initialized, ConfirmHeldDeletes, Stop, initializeFails, CommitFails,
              initialize, graph
<1>5. CASE \/ LoadClean
           \/ \E r \in Revision : LoadBadEnvelope(r) \/ LosePayload(r)
           \/ \E outbox \in BOOLEAN : LoadBackup(outbox) \/ LoadSalvage(outbox)
  BY <1>5 DEF LoadClean, LoadBadEnvelope, LosePayload, LoadBackup, LoadSalvage, Load, graph
<1>6. CASE \/ \E r \in Revision : Accept(r) \/ Refuse(r)
           \/ \E w \in data.rows : retrySend(w) \/ discardSend(w)
           \/ \E p \in Paths : retryFailedCommit(p)
  BY <1>6 DEF Accept, Refuse, retrySend, discardSend, retryFailedCommit, graph
<1> QED BY <1>1, <1>2, <1>3, <1>4, <1>5, <1>6 DEF Next

\* liveParents walks a head back through the failed revisions to ones the server has
\* or will get; only a revision whose own parents no row kept is named all the same.
THEOREM ParentsCorrect == Spec => ParentsAlive
<1>1. ProducerInv /\ [Next]_vars => [ParentsIn(Sent \cup forgotten)]_vars
  <2> SUFFICES ASSUME ProducerInv, [Next]_vars PROVE ParentsIn(Sent \cup forgotten)
    OBVIOUS
  <2>1. CASE commitLocalChange
    BY <2>1, CommitStays
  <2>2. CASE revs' = revs
    <3>1. ~(Len(revs') > Len(revs))
      BY <2>2 DEF ProducerInv, Graph
    <3> QED BY <3>1 DEF ParentsIn
  <2> QED BY <2>1, <2>2, OnlyCommitsBuild
<1> QED BY <1>1, BooksCorrect, PTL DEF Spec, ParentsAlive

-----------------------------------------------------------------------------
(* What a start finds.                                                     *)

\* One mapping for each path.
MapsFit(maps) ==
    /\ \A m \in maps : m.path \in Paths
    /\ \A m, o \in maps : m.path = o.path => m = o

PathsFit ==
    /\ \A r \in 1..Len(revs) : revs[r].path \in Paths
    /\ MapsFit(data.maps) /\ MapsFit(bak.data.maps)
    /\ tasks \in Seq(Task) /\ scan \subseteq Task /\ \A t \in scan : t.kind # "folder"
    /\ job # None => job.path \in Paths /\ job.task \in Task

\* Before the scan of a start nothing is under way.
Resting ==
    /\ proc = [pc |-> proc.pc, blocked |-> proc.blocked, forced |-> proc.forced, idle |-> proc.idle,
               recovery |-> proc.recovery, held |-> proc.held]
    /\ proc.pc \in {"down", "loaded"} => scan = {} /\ job = None
    /\ proc.pc = "down" => tasks = <<>>

Current(p) == \E m \in data.maps : m.path = p /\ m.hash = disk[p]

\* The path a task may map.
Target(t) == IF t.kind = "rename" THEN t.to ELSE t.path

\* A task of the timers or the poller while nobody edits.
CalmTask(t) ==
    /\ t.by # "scan"
    /\ t.kind = "modify" \/ (t.kind = "delete" /\ disk[t.path] = Absent)

ScanTask(t) ==
    /\ t.by = "scan" /\ t.kind # "folder"
    /\ t.kind # "delete" => disk[Target(t)] # Absent /\ Target(t) \notin proc.blocked
    /\ t.kind \in {"rename", "delete"} => disk[t.path] = Absent

\* What a rename of the scan maps, nothing else does: the scan meets no collision.
RenameAlone(t) ==
    /\ proc.pc = "scanning" /\ ~Mapped(t.to)
    /\ job # None => job.path # t.to
    /\ \A u \in scan : u # t => Target(u) # t.to

CalmChange(j) ==
    /\ IF j.kind = "delete" THEN disk[j.path] = Absent
       ELSE j.content = disk[j.path] /\ disk[j.path] # Absent /\ j.path \notin proc.blocked
    /\ \A m \in data.maps : m.file = j.file => m.path = j.path \/ disk[m.path] = Absent

\* The path will be mapped as it is on the disk, or no longer.
Arrives(p) ==
    \/ \E t \in scan : t.kind # "delete" /\ Target(t) = p
    \/ job # None /\ job.kind # "delete" /\ job.path = p
Goes(p) ==
    \/ \E t \in scan : t.kind \in {"rename", "delete"} /\ t.path = p
    \/ /\ job # None /\ (job.kind = "delete" \/ job.path # p)
       /\ \E m \in data.maps : m.path = p /\ m.file = job.file

Seen ==
    /\ \A p \in proc.blocked : disk[p] # Absent /\ ~Mapped(p)
    /\ \A p \in Paths \ proc.blocked :
         /\ disk[p] # Absent => Current(p) \/ (proc.pc = "scanning" /\ Arrives(p))
         /\ disk[p] = Absent => ~Mapped(p) \/ proc.held \/ Goes(p)

Calm ==
    /\ \A i \in 1..Len(tasks) : CalmTask(tasks[i])
    /\ \A t \in scan : ScanTask(t) /\ (t.kind = "rename" => RenameAlone(t))
    /\ job # None => CalmChange(job)
    /\ proc.pc \in {"scanning", "ready"} => Seen

HealsInv == PathsFit /\ Resting /\ (fresh => Calm)

-----------------------------------------------------------------------------
LEMMA TaskShape ==
  ASSUME NEW t \in Task
  PROVE  /\ t.kind \in {"create", "modify", "delete", "rename", "folder"}
         /\ t.kind # "folder" => t.path \in Paths
         /\ t.kind = "rename" => t.to \in Paths
         /\ Target(t) \in Paths \/ t.kind = "folder"
BY DEF Task, Target

\* A step that moves no mapping and leaves the scan and the disk alone, or one
\* after which the disk was edited.
LEMMA HealsFrame ==
  ASSUME HealsInv, UNCHANGED <<revs, scan>>, job' \in {job, None},
         data'.maps = data.maps, bak' = bak \/ Save(data'),
         tasks' \in Seq(Task), proc.pc = "down" => tasks' = tasks,
         \E f, i : proc' = [proc EXCEPT !.forced = f, !.idle = i],
         fresh' => /\ fresh /\ UNCHANGED <<disk, job>>
                   /\ \A i \in 1..Len(tasks') : CalmTask(tasks'[i])
  PROVE  HealsInv'
<1>1. /\ proc'.pc = proc.pc /\ proc'.blocked = proc.blocked /\ proc'.held = proc.held
      /\ Resting'
  BY DEF HealsInv, Resting
<1>2. PathsFit'
  BY DEF HealsInv, PathsFit, MapsFit, Save, NoBackup, EmptyData
<1>3. ASSUME fresh' PROVE Calm'
  <2>1. fresh /\ Calm /\ UNCHANGED <<disk, job, scan>> /\ data'.maps = data.maps
    BY <1>3 DEF HealsInv
  <2>2. (\A i \in 1..Len(tasks) : CalmTask(tasks[i]))'
    BY <1>3, <2>1 DEF CalmTask
  <2>3. \A t \in scan' : ScanTask(t)' /\ (t.kind = "rename" => RenameAlone(t)')
    BY <1>1, <2>1 DEF Calm, ScanTask, RenameAlone, Target, Mapped, MappingAt
  <2>4. job' # None => CalmChange(job)'
    BY <1>1, <2>1 DEF Calm, CalmChange
  <2>5. proc'.pc \in {"scanning", "ready"} => Seen'
    BY <1>1, <2>1 DEF Calm, Seen, Current, Arrives, Goes, Target, Mapped, MappingAt
  <2> QED BY <2>2, <2>3, <2>4, <2>5 DEF Calm
<1> QED BY <1>1, <1>2, <1>3 DEF HealsInv

LEMMA HealsInit == Init => HealsInv
<1> SUFFICES ASSUME Init PROVE HealsInv
  OBVIOUS
<1>1. PathsFit
  BY DEF Init, PathsFit, MapsFit, EmptyData, NoBackup, Paths
<1>2. Resting
  BY DEF Init, Resting, NewProcess
<1>3. Calm
  BY DEF Init, Calm, NewProcess
<1> QED BY <1>1, <1>2, <1>3 DEF HealsInv

\* What the user edits ends the calm.
LEMMA HealsEdits ==
  ASSUME HealsInv, NEW p, NEW q, NEW c,
         \/ p \in Paths /\ (CreateFile(p, c) \/ ModifyFile(p, c) \/ DeleteFile(p))
         \/ p \in Notes /\ q \in Notes /\ RenameFile(p, q)
         \/ DeleteFolder
  PROVE  HealsInv'
<1>1. Edited /\ ~fresh' /\ UNCHANGED <<revs, scan, job, data, bak>>
  BY DEF CreateFile, ModifyFile, DeleteFile, RenameFile, DeleteFolder, Edited, EditFrame, stored, graph
<1>2. \E f, i : proc' = [proc EXCEPT !.forced = f, !.idle = i]
  <2>1. proc' = proc \/ \E ps : proc' = [proc EXCEPT !.idle = @ \ ps]
    BY DEF CreateFile, ModifyFile, DeleteFile, RenameFile, DeleteFolder, Touched
  <2>2. CASE proc' = proc
    <3>1. proc' = [proc EXCEPT !.forced = proc.forced, !.idle = proc.idle]
      BY <2>2 DEF HealsInv, Resting
    <3> QED BY <3>1
  <2>3. CASE \E ps : proc' = [proc EXCEPT !.idle = @ \ ps]
    <3>1. PICK ps : proc' = [proc EXCEPT !.idle = @ \ ps]
      BY <2>3
    <3>2. proc' = [proc EXCEPT !.forced = proc.forced, !.idle = proc.idle \ ps]
      BY <3>1 DEF HealsInv, Resting
    <3> QED BY <3>2
  <2> QED BY <2>1, <2>2, <2>3
<1>3. tasks' \in Seq(Task) /\ (proc.pc = "down" => tasks' = tasks)
  <2>1. \/ tasks' = tasks
        \/ Listening /\ \E t \in Task : tasks' = Append(tasks, t)
    BY DEF CreateFile, ModifyFile, DeleteFile, RenameFile, DeleteFolder, Emit, Task, Paths
  <2> QED BY <2>1 DEF HealsInv, PathsFit, Listening
<1> QED BY <1>1, <1>2, <1>3, HealsFrame

LEMMA HealsTimers ==
  ASSUME HealsInv, NEW p \in Paths, SettleModify(p) \/ (p \in Configs /\ ConfigPollTick(p))
  PROVE  HealsInv'
<1>1. UNCHANGED <<revs, scan, job, data, bak, disk, fresh>> /\ proc.pc # "down"
  BY DEF SettleModify, ConfigPollTick, stored, graph, Listening
<1>2. \E f, i : proc' = [proc EXCEPT !.forced = f, !.idle = i]
  <2>1. proc' = proc \/ proc' = [proc EXCEPT !.forced = @ \ {p}]
    BY DEF SettleModify, ConfigPollTick
  <2>2. proc' = [proc EXCEPT !.forced = proc'.forced, !.idle = proc.idle]
    BY <2>1 DEF HealsInv, Resting
  <2> QED BY <2>2
<1>3. PICK t \in Task : /\ tasks' = Append(tasks, t) /\ t.by # "scan"
                        /\ t.kind = "modify" \/ (t.kind = "delete" /\ disk[t.path] = Absent)
  BY DEF SettleModify, ConfigPollTick, Task
<1>4. tasks' \in Seq(Task) /\ tasks \in Seq(Task)
  BY <1>3 DEF HealsInv, PathsFit
<1>5. ASSUME fresh' PROVE \A i \in 1..Len(tasks') : CalmTask(tasks'[i])
  BY <1>1, <1>3, <1>4, <1>5 DEF HealsInv, Calm, CalmTask
<1> QED BY <1>1, <1>2, <1>4, <1>5, HealsFrame

\* A write that moves no mapping.
LEMMA HealsStore ==
  ASSUME HealsInv, UNCHANGED <<revs, scan, job, tasks, disk>>, fresh' = fresh,
         data'.maps = data.maps, bak' = bak \/ Save(data'),
         proc' = proc \/ \E p : proc' = [proc EXCEPT !.forced = @ \cup {p}]
  PROVE  HealsInv'
<1>1. \E f, i : proc' = [proc EXCEPT !.forced = f, !.idle = i]
  <2>1. proc' = [proc EXCEPT !.forced = proc'.forced, !.idle = proc.idle]
    BY DEF HealsInv, Resting
  <2> QED BY <2>1
<1>2. ASSUME fresh' PROVE \A i \in 1..Len(tasks') : CalmTask(tasks'[i])
  BY <1>2 DEF HealsInv, Calm
<1> QED BY <1>1, <1>2, HealsFrame DEF HealsInv, PathsFit

LEMMA HealsQueue ==
  ASSUME ProducerInv, HealsInv, NEW r, NEW w, NEW p,
         Accept(r) \/ Refuse(r) \/ retrySend(w) \/ discardSend(w) \/ retryFailedCommit(p) \/ LosePayload(r)
  PROVE  HealsInv'
<1>1. IsData(data)
  BY DEF ProducerInv, Books
<1>2. UNCHANGED <<revs, scan, job, tasks, disk, fresh>>
  BY DEF Accept, Refuse, retrySend, discardSend, retryFailedCommit, LosePayload, QueueFrame, graph
<1>3. proc' = proc \/ \E x : proc' = [proc EXCEPT !.forced = @ \cup {x}]
  BY DEF Accept, Refuse, retrySend, discardSend, retryFailedCommit, LosePayload, RetryFromDisk
<1>4. data'.maps = data.maps /\ (bak' = bak \/ Save(data'))
  <2>1. CASE LosePayload(r)
    BY <2>1 DEF LosePayload
  <2>2. CASE \E d : Save(d) /\ d.maps = data.maps
    BY <2>2 DEF Save
  <2>3. CASE UNCHANGED <<data, bak, torn>>
    BY <2>3
  <2>4. CASE Accept(r)
    <3>1. [data EXCEPT !.queue = @ \ {r}].maps = data.maps
      BY <1>1 DEF IsData
    <3> QED BY <2>2, <2>3, <2>4, <3>1 DEF Accept
  <2>5. CASE Refuse(r)
    <3>1. PICK q, st, ro : Save([data EXCEPT !.queue = q, !.stash = st, !.rows = ro])
      BY <2>5 DEF Refuse, quarantineOutboxItem
    <3>2. [data EXCEPT !.queue = q, !.stash = st, !.rows = ro].maps = data.maps
      BY <1>1 DEF IsData
    <3> QED BY <2>2, <3>1, <3>2
  <2>6. CASE retrySend(w) \/ discardSend(w)
    <3>1. ASSUME NEW q
          PROVE  DropRow(w.rev).maps = data.maps /\ [DropRow(w.rev) EXCEPT !.queue = q].maps = data.maps
      BY <1>1 DEF IsData, DropRow
    <3>2. Save(DropRow(w.rev)) \/ \E q : Save([DropRow(w.rev) EXCEPT !.queue = q])
      BY <2>6 DEF retrySend, discardSend
    <3>3. CASE Save(DropRow(w.rev))
      BY <3>1, <3>3 DEF Save
    <3>4. ASSUME NEW q, Save([DropRow(w.rev) EXCEPT !.queue = q])
          PROVE  data'.maps = data.maps /\ (bak' = bak \/ Save(data'))
      BY <3>1, <3>4 DEF Save
    <3> QED BY <3>2, <3>3, <3>4
  <2>7. CASE retryFailedCommit(p)
    <3>1. [data EXCEPT !.failed = @ \ {p}].maps = data.maps
      BY <1>1 DEF IsData
    <3>2. Save([data EXCEPT !.failed = @ \ {p}]) \/ UNCHANGED <<data, bak, torn>>
      BY <2>7 DEF retryFailedCommit
    <3> QED BY <2>2, <2>3, <3>1, <3>2
  <2> QED BY <2>1, <2>4, <2>5, <2>6, <2>7
<1> QED BY <1>2, <1>3, <1>4, HealsStore

LEMMA HealsFailures ==
  ASSUME ProducerInv, HealsInv, CommitFails \/ initializeFails
  PROVE  HealsInv'
<1>1. IsData(data)
  BY DEF ProducerInv, Books
<1>2. UNCHANGED <<revs, scan, disk, proc>>
  BY DEF CommitFails, initializeFails, graph
<1>3. data'.maps = data.maps /\ (bak' = bak \/ Save(data'))
  <2>1. (data' = data /\ bak' = bak) \/ \E x : Save([data EXCEPT !.failed = x])
    BY DEF CommitFails, onCommitFailure, initializeFails
  <2>2. \A x : [data EXCEPT !.failed = x].maps = data.maps
    BY <1>1 DEF IsData
  <2> QED BY <2>1, <2>2 DEF Save
<1>4. \E f, i : proc' = [proc EXCEPT !.forced = f, !.idle = i]
  <2>1. proc' = [proc EXCEPT !.forced = proc.forced, !.idle = proc.idle]
    BY <1>2 DEF HealsInv, Resting
  <2> QED BY <2>1
<1>5. CASE CommitFails
  <2>1. ~fresh' /\ job' = None /\ tasks' = tasks
    BY <1>5 DEF CommitFails
  <2> QED BY <1>2, <1>3, <1>4, <2>1, HealsFrame DEF HealsInv, PathsFit
<1>6. CASE initializeFails
  <2>1. fresh' = fresh /\ job' = job /\ tasks' = <<>> /\ proc.pc = "loaded"
    BY <1>6 DEF initializeFails
  <2>2. tasks' \in Seq(Task) /\ \A i \in 1..Len(tasks') : CalmTask(tasks'[i])
    BY <2>1
  <2>3. job' \in {job, None} /\ (proc.pc = "down" => tasks' = tasks)
    BY <2>1
  <2> HIDE DEF HealsInv
  <2> QED BY <1>2, <1>3, <1>4, <2>1, <2>2, <2>3, HealsFrame
<1> QED BY <1>5, <1>6

-----------------------------------------------------------------------------
(* Stops and loads.                                                        *)

\* Nothing is under way.
LEMMA HealsRest ==
  ASSUME HealsInv, revs' = revs, MapsFit(data'.maps), MapsFit(bak'.data.maps),
         scan' = {}, job' = None, tasks' = <<>>,
         proc' = NewProcess \/ \E recovery : Loaded(recovery)
  PROVE  HealsInv'
<1>1. PathsFit'
  BY DEF HealsInv, PathsFit, MapsFit
<1>2. Resting' /\ proc'.pc \in {"down", "loaded"}
  <2>1. CASE proc' = NewProcess
    BY <2>1 DEF Resting, NewProcess
  <2>2. CASE \E recovery : Loaded(recovery)
    <3>1. PICK recovery : proc' = [NewProcess EXCEPT !.pc = "loaded", !.recovery = recovery]
      BY <2>2 DEF Loaded
    <3> QED BY <3>1 DEF Resting, NewProcess
  <2> QED BY <2>1, <2>2
<1>3. Calm'
  BY <1>2 DEF Calm
<1> QED BY <1>1, <1>2, <1>3 DEF HealsInv

LEMMA HealsLoads ==
  ASSUME ProducerInv, HealsInv, NEW r, NEW outbox,
         Stop \/ LoadClean \/ LoadBadEnvelope(r) \/ LoadBackup(outbox) \/ LoadSalvage(outbox)
  PROVE  HealsInv'
<1>1. MapsFit(data.maps) /\ MapsFit(bak.data.maps) /\ IsData(data)
  BY DEF HealsInv, PathsFit, ProducerInv, Books
<1>2. CASE Stop
  <2>1. UNCHANGED <<revs, data, bak>> /\ scan' = {} /\ job' = None /\ tasks' = <<>> /\ proc' = NewProcess
    BY <1>2 DEF Stop, stored, graph
  <2> QED BY <1>1, <2>1, HealsRest
<1>3. CASE LoadClean \/ LoadBadEnvelope(r) \/ LoadBackup(outbox) \/ LoadSalvage(outbox)
  <2>1. Start /\ (\E recovery : Loaded(recovery)) /\ UNCHANGED <<revs, scan, tasks, job>>
    BY <1>3 DEF LoadClean, LoadBadEnvelope, LoadBackup, LoadSalvage, Load
  <2>2. scan' = {} /\ job' = None /\ tasks' = <<>>
    BY <2>1 DEF Start, HealsInv, Resting
  <2>3. bak' = bak \/ bak' = NoBackup \/ bak' = [ok |-> TRUE, data |-> data]
    BY <1>3 DEF LoadClean, LoadBadEnvelope, LoadBackup, LoadSalvage, Save
  <2>4. MapsFit(bak'.data.maps)
    BY <1>1, <2>3 DEF NoBackup, EmptyData, MapsFit
  <2>5. PICK d : data' = reconcilePayloads(d) /\ IsData(d) /\ (d.maps = data.maps \/ d.maps = bak.data.maps)
    <3>1. CASE LoadClean
      BY <1>1, <3>1 DEF LoadClean, Load
    <3>2. CASE LoadBadEnvelope(r)
      <4>1. PICK q, ro : data' = reconcilePayloads([data EXCEPT !.queue = q, !.rows = ro])
        BY <3>2 DEF LoadBadEnvelope, Load
      <4> DEFINE d == [data EXCEPT !.queue = q, !.rows = ro]
      <4>2. d = [data EXCEPT !.queue = q, !.rows = ro]
        OBVIOUS
      <4> HIDE DEF d
      <4>3. IsData(d) /\ d.maps = data.maps
        BY <1>1, <4>2 DEF IsData
      <4> QED BY <4>1, <4>2, <4>3
    <3>3. CASE LoadBackup(outbox)
      BY <3>3 DEF LoadBackup, Load, ProducerInv, Books
    <3>4. CASE LoadSalvage(outbox)
      <4>1. \/ data' = reconcilePayloads(data)
            \/ data' = reconcilePayloads([EmptyData EXCEPT !.maps = data.maps, !.heads = data.heads])
        BY <3>4 DEF LoadSalvage, Load
      <4> DEFINE e == [EmptyData EXCEPT !.maps = data.maps, !.heads = data.heads]
      <4>2. IsData(EmptyData) /\ e = [EmptyData EXCEPT !.maps = data.maps, !.heads = data.heads]
        BY DEF IsData, EmptyData
      <4> HIDE DEF e
      <4>3. IsData(e) /\ e.maps = data.maps
        BY <4>2 DEF IsData
      <4> QED BY <1>1, <4>1, <4>2, <4>3
    <3> QED BY <1>3, <3>1, <3>2, <3>3, <3>4
  <2>6. data'.maps = d.maps
    BY <2>5 DEF reconcilePayloads, IsData
  <2> QED BY <1>1, <2>1, <2>2, <2>4, <2>5, <2>6, HealsRest
<1> QED BY <1>2, <1>3

-----------------------------------------------------------------------------
(* What the observer finds.                                                *)

LEMMA MappingIs ==
  ASSUME MapsFit(data.maps), NEW p, Mapped(p)
  PROVE  /\ MappingOf(p) \in data.maps /\ MappingOf(p).path = p
         /\ \A m \in data.maps : m.path = p => m = MappingOf(p)
<1>1. \E m \in data.maps : m.path = p
  BY DEF Mapped, MappingAt
<1>2. MappingOf(p) \in data.maps /\ MappingOf(p).path = p
  BY <1>1 DEF MappingOf
<1> QED BY <1>2 DEF MapsFit

\* The mappings of a file are one, and a new identity has none.
LEMMA FilesApart ==
  ASSUME ProducerInv
  PROVE  /\ \A m, o \in data.maps : m.file = o.file => m = o
         /\ \A m \in data.maps : m.file # files + 1
<1>1. /\ \A m \in data.maps : m.file \in 1..files
      /\ \A m, o \in data.maps : m.file = o.file => m = o
      /\ files \in Nat
  BY DEF ProducerInv, Books, MapsHeads, Graph
<1> QED BY <1>1

\* A create or a modify finds the file as it is on the disk, or nothing to do.
LEMMA FoundContent ==
  ASSUME ProducerInv, MapsFit(data.maps), NEW t, NEW p, NEW j, j = FindContent(t, p)
  PROVE  \/ j = None /\ (disk[p] = Absent \/ (t.by # "retry" /\ Current(p)))
         \/ /\ j.kind \in {"create", "update"} /\ j.path = p /\ j.task = t
            /\ j.content = disk[p] /\ disk[p] # Absent
            /\ \A m \in data.maps : m.file = j.file => m.path = p
<1>1. CASE ~Mapped(p)
  BY <1>1, FilesApart DEF FindContent, FindCreate, NoChange
<1>2. CASE Mapped(p)
  <2> DEFINE o == MappingOf(p)
  <2>1. o \in data.maps /\ o.path = p
    BY <1>2, MappingIs
  <2>2. j = FindModify(t, p, t.by = "retry")
    BY <1>2 DEF FindContent
  <2>3. CASE disk[p] = Absent \/ (t.by # "retry" /\ disk[p] = o.hash)
    BY <2>1, <2>2, <2>3 DEF FindModify, NoChange, Current
  <2>4. CASE ~(disk[p] = Absent \/ (t.by # "retry" /\ disk[p] = o.hash))
    <3>1. j = [kind |-> "update", file |-> o.file, path |-> p, content |-> disk[p], task |-> t]
      BY <2>2, <2>4 DEF FindModify
    <3>2. \A m \in data.maps : m.file = j.file => m.path = p
      BY <2>1, <3>1, FilesApart
    <3> QED BY <2>4, <3>1, <3>2
  <2> QED BY <2>3, <2>4
<1> QED BY <1>1, <1>2

\* A delete finds the mapping of its path.
LEMMA FoundDelete ==
  ASSUME ProducerInv, MapsFit(data.maps), NEW t, NEW j, j = FindDelete(t)
  PROVE  \/ j = None /\ ~Mapped(t.path)
         \/ /\ j.kind = "delete" /\ j.path = t.path /\ j.task = t
            /\ \E m \in data.maps : m.path = t.path /\ m.file = j.file
            /\ \A m \in data.maps : m.file = j.file => m.path = t.path
<1>1. CASE ~Mapped(t.path)
  BY <1>1 DEF FindDelete, NoChange
<1>2. CASE Mapped(t.path)
  <2> DEFINE o == MappingOf(t.path)
  <2>1. o \in data.maps /\ o.path = t.path
    BY <1>2, MappingIs
  <2>2. j = [kind |-> "delete", file |-> o.file, path |-> t.path, content |-> Absent, task |-> t]
    BY <1>2 DEF FindDelete
  <2>3. \A m \in data.maps : m.file = j.file => m.path = t.path
    BY <2>1, <2>2, FilesApart
  <2> QED BY <2>1, <2>2, <2>3
<1> QED BY <1>1, <1>2

\* A rename finds the new path of the mapped file, or it is a create or a modify.
LEMMA FoundRename ==
  ASSUME ProducerInv, MapsFit(data.maps), NEW t, NEW j, j = FindRename(t)
  PROVE  \/ ~Mapped(t.path) /\ j = FindContent(t, t.to)
         \/ j = Collision /\ Mapped(t.to)
         \/ j = None /\ disk[t.to] = Absent
         \/ /\ j.kind = "rename" /\ j.path = t.to /\ j.task = t
            /\ j.content = disk[t.to] /\ disk[t.to] # Absent
            /\ \E m \in data.maps : m.path = t.path /\ m.file = j.file
            /\ \A m \in data.maps : m.file = j.file => m.path = t.path
<1>1. CASE ~Mapped(t.path)
  BY <1>1 DEF FindRename
<1>2. CASE Mapped(t.path) /\ (Mapped(t.to) \/ disk[t.to] = Absent)
  BY <1>2 DEF FindRename, NoChange
<1>3. CASE Mapped(t.path) /\ ~Mapped(t.to) /\ disk[t.to] # Absent
  <2> DEFINE o == MappingOf(t.path)
  <2>1. o \in data.maps /\ o.path = t.path
    BY <1>3, MappingIs
  <2>2. j = [kind |-> "rename", file |-> o.file, path |-> t.to, content |-> disk[t.to], task |-> t]
    BY <1>3 DEF FindRename
  <2>3. \A m \in data.maps : m.file = j.file => m.path = t.path
    BY <2>1, <2>2, FilesApart
  <2> QED BY <1>3, <2>1, <2>2, <2>3
<1> QED BY <1>1, <1>2, <1>3

\* A change is of a path of the vault.
LEMMA FoundChange ==
  ASSUME ProducerInv, PathsFit, NEW t \in Task, t.kind # "folder",
         NEW j, j = Find(t), j # None, j # Collision
  PROVE  j.path \in Paths /\ j.task = t
<1>1. MapsFit(data.maps) /\ t.path \in Paths /\ (t.kind = "rename" => t.to \in Paths)
  BY TaskShape DEF PathsFit
<1>2. CASE t.kind = "rename"
  <2>1. j = FindRename(t)
    BY <1>2 DEF Find
  <2> QED BY <1>1, <1>2, <2>1, FoundRename, FoundContent
<1>3. CASE t.kind = "delete"
  <2>1. j = FindDelete(t)
    BY <1>3 DEF Find
  <2> QED BY <1>1, <2>1, FoundDelete
<1>4. CASE t.kind \notin {"rename", "delete"}
  <2>1. j = FindContent(t, t.path)
    BY <1>4 DEF Find
  <2> QED BY <1>1, <2>1, FoundContent
<1> QED BY <1>2, <1>3, <1>4

\* While nobody edits, a change brings the mapping closer to the disk.
LEMMA FoundCalm ==
  ASSUME ProducerInv, PathsFit, Seen, NEW t \in Task, NEW j, j = Find(t),
         \/ ScanTask(t) /\ (t.kind = "rename" => ~Mapped(t.to))
         \/ CalmTask(t) /\ ~HeldBack(t)
  PROVE  /\ j # Collision
         /\ j # None => CalmChange(j) /\ j.path = Target(t)
         /\ ScanTask(t) =>
              /\ t.kind # "delete" => IF j = None THEN Current(Target(t)) ELSE j.kind # "delete"
              /\ t.kind \in {"rename", "delete"} =>
                   \/ ~Mapped(t.path)
                   \/ /\ j # None /\ (j.kind = "delete" \/ j.path # t.path)
                      /\ \E m \in data.maps : m.path = t.path /\ m.file = j.file
<1>1. MapsFit(data.maps) /\ t.kind # "folder" /\ t.path \in Paths
      /\ (t.kind = "rename" => t.to \in Paths /\ ScanTask(t))
  BY TaskShape DEF PathsFit, ScanTask, CalmTask
<1>2. \A p \in proc.blocked : ~Mapped(p)
  BY DEF Seen
<1>3. None.kind = "none" /\ Collision.kind = "collision"
  BY DEF None, Collision
<1>4. CASE t.kind = "delete"
  <2>1. j = FindDelete(t) /\ Target(t) = t.path /\ disk[t.path] = Absent
    BY <1>4 DEF Find, Target, ScanTask, CalmTask
  <2>2. CASE j = None /\ ~Mapped(t.path)
    BY <1>3, <1>4, <2>2
  <2>3. CASE j.kind = "delete"
    <3>1. /\ j.path = t.path
          /\ \E m \in data.maps : m.path = t.path /\ m.file = j.file
          /\ \A m \in data.maps : m.file = j.file => m.path = t.path
      BY <1>1, <1>3, <2>1, <2>3, FoundDelete
    <3>2. CalmChange(j) /\ j # None /\ j # Collision
      BY <1>3, <2>1, <2>3, <3>1 DEF CalmChange
    <3> QED BY <1>4, <2>1, <2>3, <3>1, <3>2
  <2> QED BY <1>1, <2>1, <2>2, <2>3, FoundDelete
<1>5. ASSUME NEW p, t.kind # "delete", j = FindContent(t, p), p = Target(t)
      PROVE  /\ j # Collision
             /\ j # None => CalmChange(j) /\ j.path = p /\ j.kind # "delete"
             /\ ScanTask(t) /\ j = None => Current(p)
  <2>1. CASE j = None /\ (disk[p] = Absent \/ Current(p))
    BY <1>3, <1>5, <2>1 DEF ScanTask
  <2>2. CASE /\ j.kind \in {"create", "update"} /\ j.path = p /\ j.content = disk[p] /\ disk[p] # Absent
             /\ \A m \in data.maps : m.file = j.file => m.path = p
    <3>1. p \notin proc.blocked
      BY <1>1, <1>2, <1>5 DEF ScanTask, CalmTask, HeldBack, Target
    <3> QED BY <1>3, <2>2, <3>1 DEF CalmChange
  <2> QED BY <1>1, <1>5, <2>1, <2>2, FoundContent
<1>6. CASE t.kind = "rename"
  <2>1. /\ j = FindRename(t) /\ Target(t) = t.to /\ ~Mapped(t.to) /\ disk[t.to] # Absent
        /\ disk[t.path] = Absent /\ t.to \notin proc.blocked
    BY <1>1, <1>6 DEF Find, Target, ScanTask, CalmTask
  <2>2. CASE ~Mapped(t.path) /\ j = FindContent(t, t.to)
    BY <1>5, <1>6, <2>1, <2>2
  <2>3. CASE j.kind = "rename"
    <3>1. /\ j.path = t.to /\ j.content = disk[t.to]
          /\ \E m \in data.maps : m.path = t.path /\ m.file = j.file
          /\ \A m \in data.maps : m.file = j.file => m.path = t.path
      <4>1. ~(~Mapped(t.path) /\ j = FindContent(t, t.to))
        BY <1>1, <1>3, <2>3, FoundContent
      <4> QED BY <1>1, <1>3, <2>1, <2>3, <4>1, FoundRename
    <3>2. CalmChange(j) /\ j # None /\ j # Collision
      BY <1>3, <2>1, <2>3, <3>1 DEF CalmChange
    <3> QED BY <1>6, <2>1, <2>3, <3>1, <3>2
  <2> QED BY <1>1, <2>1, <2>2, <2>3, FoundRename
<1>7. CASE t.kind \notin {"rename", "delete"}
  <2>1. j = FindContent(t, t.path) /\ Target(t) = t.path
    BY <1>7 DEF Find, Target
  <2> QED BY <1>5, <1>7, <2>1
<1> QED BY <1>4, <1>6, <1>7

\* What a task that went through leaves: nothing but the failure of its path.
LEMMA SucceededFrame ==
  ASSUME NEW t, NEW d, IsData(d), IsData(data), Succeeded(t, d), Resting
  PROVE  /\ data'.maps = d.maps
         /\ bak' = bak \/ Save(data')
         /\ \E i : proc' = [proc EXCEPT !.idle = i]
<1>1. [d EXCEPT !.failed = @ \ {t.path}].maps = d.maps
  BY DEF IsData
<1>2. Save([d EXCEPT !.failed = @ \ {t.path}]) \/ (UNCHANGED <<data, bak, torn>> /\ d = data) \/ Save(d)
  BY DEF Succeeded
<1>3. data'.maps = d.maps /\ (bak' = bak \/ Save(data'))
  BY <1>1, <1>2 DEF Save
<1>4. \E i : proc' = [proc EXCEPT !.idle = i]
  <2>1. CASE proc' = proc
    <3>1. proc' = [proc EXCEPT !.idle = proc.idle]
      BY <2>1 DEF Resting
    <3> QED BY <3>1
  <2>2. CASE proc' = [proc EXCEPT !.idle = @ \cup ({t.path} \cap {p \in Configs : disk[p] # Absent})]
    BY <2>2
  <2> QED BY <2>1, <2>2 DEF Succeeded
<1> QED BY <1>3, <1>4

\* The observer looks at one task, of the scan or of the queue.
LEMMA HealsTake ==
  ASSUME ProducerInv, HealsInv, NEW t \in Task, t.kind # "folder", Take(t), job = None,
         proc.pc \in {"scanning", "ready"}, tasks' \in {tasks, Tail(tasks)}, tasks # <<>> \/ tasks' = tasks,
         scan' \subseteq scan,
         \/ scan' = scan /\ proc.pc = "ready" /\ (fresh => CalmTask(t))
         \/ t \in scan /\ (Find(t) # Collision => scan' = scan \ {t})
  PROVE  HealsInv'
<1> DEFINE heldBack == t.by # "scan" /\ HeldBack(t)
           j == IF heldBack THEN NoChange ELSE Find(t)
<1>1. /\ UNCHANGED <<disk, revs, fresh>> /\ MapsFit(data.maps) /\ Resting /\ PathsFit
      /\ IsData(data) /\ None.kind = "none" /\ Collision.kind = "collision"
  BY DEF Take, HealsInv, PathsFit, graph, ProducerInv, Books, None, Collision
<1>2. /\ data'.maps = data.maps /\ (bak' = bak \/ Save(data'))
      /\ \E i : proc' = [proc EXCEPT !.idle = i]
  <2>1. CASE UNCHANGED <<proc, data, bak>>
    <3>1. proc' = [proc EXCEPT !.idle = proc.idle]
      BY <1>1, <2>1 DEF Resting
    <3> QED BY <2>1, <3>1
  <2>2. CASE Succeeded(t, data)
    BY <1>1, <2>2, SucceededFrame
  <2> QED BY <2>1, <2>2 DEF Take
<1>3. /\ j # None /\ j # Collision => job' = j
      /\ j = None \/ j = Collision => job' = None
  BY <1>1 DEF Take, NoChange
<1> HIDE DEF j
<1>4. j # None /\ j # Collision => j.path \in Paths /\ j.task = t
  BY <1>1, FoundChange DEF j, NoChange
<1>5. PathsFit'
  <2>1. tasks' \in Seq(Task)
    BY <1>1 DEF PathsFit
  <2>2. MapsFit(bak'.data.maps)
    BY <1>1, <1>2 DEF PathsFit, Save, NoBackup, EmptyData, MapsFit
  <2> QED BY <1>1, <1>2, <1>3, <1>4, <2>1, <2>2 DEF PathsFit, MapsFit
<1>6. /\ Resting' /\ proc'.pc = proc.pc /\ proc'.blocked = proc.blocked /\ proc'.held = proc.held
  BY <1>1, <1>2 DEF Resting
<1>7. ASSUME fresh' PROVE Calm'
  <2>1. fresh /\ Calm /\ Seen
    BY <1>1, <1>7 DEF HealsInv, Calm
  <2>2. \A u \in scan : ScanTask(u) /\ u.by = "scan" /\ (u.kind = "rename" => RenameAlone(u))
    BY <2>1 DEF Calm, ScanTask
  <2>3. \/ t \in scan /\ ScanTask(t) /\ (t.kind = "rename" => ~Mapped(t.to)) /\ j = Find(t)
        \/ t \notin scan /\ scan' = scan /\ proc.pc = "ready" /\ CalmTask(t) /\ (j = None \/ (j = Find(t) /\ ~HeldBack(t)))
    BY <2>1, <2>2 DEF RenameAlone, CalmTask, j, NoChange
  <2>4. /\ j # Collision
        /\ j # None => CalmChange(j) /\ j.path = Target(t)
        /\ t \in scan =>
              /\ t.kind # "delete" => IF j = None THEN Current(Target(t)) ELSE j.kind # "delete"
              /\ t.kind \in {"rename", "delete"} =>
                   \/ ~Mapped(t.path)
                   \/ /\ j # None /\ (j.kind = "delete" \/ j.path # t.path)
                      /\ \E m \in data.maps : m.path = t.path /\ m.file = j.file
    <3>1. CASE t \notin scan /\ j = None
      BY <1>1, <3>1
    <3>2. CASE t \in scan \/ j # None
      BY <1>1, <2>1, <2>3, <3>2, FoundCalm
    <3> QED BY <3>1, <3>2
  <2>5. job' = j /\ (t \in scan => scan' = scan \ {t}) /\ (t \notin scan => scan' = scan)
    <3>1. job' = j
      BY <1>3, <2>4
    <3>2. t \in scan => scan' = scan \ {t}
      BY <2>1, <2>2, <2>3, <2>4 DEF CalmTask
    <3> QED BY <2>3, <3>1, <3>2
  <2>6. (\A i \in 1..Len(tasks) : CalmTask(tasks[i]))'
    <3>1. tasks \in Seq(Task) /\ \A i \in 1..Len(tasks) : CalmTask(tasks[i])
      BY <1>1, <2>1 DEF Calm, PathsFit
    <3>2. \A i \in 1..Len(tasks') : \E k \in 1..Len(tasks) : tasks'[i] = tasks[k]
      BY <3>1
    <3> QED BY <1>1, <3>1, <3>2 DEF CalmTask
  <2>7. ASSUME NEW u \in scan' PROVE ScanTask(u)' /\ (u.kind = "rename" => RenameAlone(u)')
    <3>1. u \in scan /\ ScanTask(u)'
      BY <1>1, <1>6, <2>2, <2>5 DEF ScanTask, Target
    <3>2. CASE u.kind = "rename"
      <4>1. RenameAlone(u) /\ t \in scan /\ t # u
        BY <2>2, <2>3, <2>5, <3>1, <3>2 DEF RenameAlone
      <4>2. job' # None => job'.path # u.to
        BY <2>4, <2>5, <4>1 DEF RenameAlone
      <4> QED BY <1>2, <1>6, <3>1, <4>1, <4>2 DEF RenameAlone, Mapped, MappingAt, Target
    <3> QED BY <3>1, <3>2
  <2>8. job' # None => CalmChange(job)'
    BY <1>1, <1>2, <1>6, <2>4, <2>5 DEF CalmChange
  <2>9. Seen'
    <3>1. ASSUME NEW p \in proc'.blocked PROVE disk'[p] # Absent /\ ~Mapped(p)'
      BY <1>1, <1>2, <1>6, <2>1 DEF Seen, Mapped, MappingAt
    <3>2. ASSUME NEW p \in Paths \ proc.blocked, disk[p] # Absent
          PROVE  Current(p)' \/ (proc'.pc = "scanning" /\ Arrives(p)')
      <4>1. Current(p) \/ (proc.pc = "scanning" /\ Arrives(p))
        BY <2>1, <3>2 DEF Seen
      <4>2. CASE Current(p)
        BY <1>1, <1>2, <4>2 DEF Current
      <4>3. CASE proc.pc = "scanning" /\ Arrives(p)
        <5>1. PICK u \in scan : u.kind # "delete" /\ Target(u) = p
          BY <4>3 DEF Arrives
        <5>2. CASE u # t
          BY <1>6, <2>5, <4>3, <5>1, <5>2 DEF Arrives, Target
        <5>3. CASE u = t /\ j = None
          BY <1>1, <1>2, <2>4, <5>1, <5>3 DEF Current
        <5>4. CASE u = t /\ j # None
          BY <1>6, <2>4, <2>5, <4>3, <5>1, <5>4 DEF Arrives
        <5> QED BY <5>2, <5>3, <5>4
      <4> QED BY <4>1, <4>2, <4>3
    <3>3. ASSUME NEW p \in Paths \ proc.blocked, disk[p] = Absent
          PROVE  ~Mapped(p)' \/ proc'.held \/ Goes(p)'
      <4>1. ~Mapped(p) \/ proc.held \/ Goes(p)
        BY <2>1, <3>3 DEF Seen
      <4>2. CASE ~Mapped(p) \/ proc.held
        BY <1>2, <1>6, <4>2 DEF Mapped, MappingAt
      <4>3. CASE Goes(p)
        <5>1. PICK u \in scan : u.kind \in {"rename", "delete"} /\ u.path = p
          BY <4>3 DEF Goes
        <5>2. CASE u # t
          BY <2>5, <5>1, <5>2 DEF Goes
        <5>3. CASE u = t
          BY <1>2, <2>4, <2>5, <5>1, <5>3 DEF Goes, Mapped, MappingAt
        <5> QED BY <5>2, <5>3
      <4> QED BY <4>1, <4>2, <4>3
    <3> QED BY <1>1, <1>6, <3>1, <3>2, <3>3 DEF Seen
  <2> QED BY <2>6, <2>7, <2>8, <2>9 DEF Calm
<1> QED BY <1>5, <1>6, <1>7 DEF HealsInv

LEMMA HealsTakes ==
  ASSUME ProducerInv, HealsInv, (\E t \in scan : TakeScan(t)) \/ TakeTask
  PROVE  HealsInv'
<1>1. tasks \in Seq(Task) /\ scan \subseteq Task
  BY DEF HealsInv, PathsFit
<1>2. CASE TakeTask
  <2> DEFINE t == Head(tasks)
  <2>1. t \in Task /\ t = tasks[1] /\ 1 \in 1..Len(tasks)
    BY <1>1, <1>2 DEF TakeTask
  <2>2. fresh => CalmTask(t)
    BY <2>1 DEF HealsInv, Calm
  <2>3. /\ t.kind # "folder" /\ Take(t) /\ job = None /\ proc.pc = "ready"
        /\ tasks # <<>> /\ tasks' = Tail(tasks) /\ scan' = scan
    BY <1>2 DEF TakeTask
  <2> HIDE DEF t
  <2> QED BY <2>1, <2>2, <2>3, HealsTake
<1>3. CASE \E t \in scan : TakeScan(t)
  <2>1. PICK t \in scan : TakeScan(t)
    BY <1>3
  <2>2. /\ Take(t) /\ job = None /\ proc.pc \in {"scanning", "ready"} /\ tasks' = tasks
        /\ scan' = IF Find(t) = Collision THEN {} ELSE scan \ {t}
    BY <2>1 DEF TakeScan
  <2>3. t.kind # "folder"
    BY DEF HealsInv, PathsFit
  <2> QED BY <1>1, <2>2, <2>3, HealsTake
<1> QED BY <1>2, <1>3

-----------------------------------------------------------------------------
(* The commit and the delete of a folder.                                  *)

LEMMA WithMappingFits ==
  ASSUME NEW maps, MapsFit(maps), NEW f, NEW p \in Paths, NEW c
  PROVE  MapsFit(WithMapping(maps, f, p, c)) /\ MapsFit(WithoutFile(maps, f))
<1> DEFINE new == [file |-> f, path |-> p, hash |-> c]
<1>1. new.path = p /\ \A m \in WithMapping(maps, f, p, c) : m = new \/ (m \in maps /\ m.path # p)
  BY DEF WithMapping
<1> HIDE DEF new
<1>2. MapsFit(WithMapping(maps, f, p, c))
  BY <1>1 DEF MapsFit
<1>3. MapsFit(WithoutFile(maps, f))
  BY DEF MapsFit, WithoutFile
<1> QED BY <1>2, <1>3

LEMMA HealsCommit ==
  ASSUME ProducerInv, HealsInv, commitLocalChange
  PROVE  HealsInv'
<1> DEFINE parents == LiveParents(data.heads[job.file])
           delete == job.kind = "delete"
           new == [file |-> job.file, path |-> job.path, hash |-> job.content]
<1> HIDE DEF parents
<1>1. /\ UNCHANGED <<disk, scan, tasks, fresh>> /\ job # None /\ job' = None
      /\ MapsFit(data.maps) /\ MapsFit(bak.data.maps) /\ Resting /\ PathsFit /\ IsData(data)
      /\ job.path \in Paths /\ job.task \in Task
  BY DEF commitLocalChange, HealsInv, PathsFit, ProducerInv, Books
<1>2. /\ data'.maps = (IF delete THEN WithoutFile(data.maps, job.file)
                       ELSE WithMapping(data.maps, job.file, job.path, job.content))
      /\ bak' = bak \/ Save(data')
      /\ \E i : proc' = [proc EXCEPT !.idle = i]
  <2> DEFINE d == Committed(parents).data
             maps == IF delete THEN WithoutFile(data.maps, job.file)
                     ELSE WithMapping(data.maps, job.file, job.path, job.content)
  <2>1. d.maps = maps /\ IsData(d)
    <3>1. PICK heads, queue : d = [data EXCEPT !.maps = maps, !.heads = heads, !.queue = queue]
      BY <1>1 DEF Committed, IsData
    <3> HIDE DEF d, maps
    <3> QED BY <1>1, <3>1 DEF IsData
  <2>2. Succeeded(job.task, d)
    BY DEF commitLocalChange, parents
  <2> HIDE DEF d, maps
  <2>3. data'.maps = maps /\ (bak' = bak \/ Save(data')) /\ \E i : proc' = [proc EXCEPT !.idle = i]
    BY <1>1, <2>1, <2>2, SucceededFrame
  <2> QED BY <2>3 DEF maps
<1>3. \A r \in 1..Len(revs') : revs'[r].path \in Paths
  <2>1. CASE revs' = revs
    BY <1>1, <2>1 DEF PathsFit
  <2>2. CASE revs' = Append(revs, QueuedRevision(parents))
    <3>1. QueuedRevision(parents).path = job.path
      BY DEF QueuedRevision
    <3>2. Sequenced(revs)
      BY DEF ProducerInv, Graph
    <3> QED BY <1>1, <2>2, <3>1, <3>2, Appended DEF PathsFit
  <2> QED BY <2>1, <2>2 DEF commitLocalChange, Committed, parents
<1>4. PathsFit'
  <2>1. MapsFit(data'.maps)
    <3>1. /\ MapsFit(WithMapping(data.maps, job.file, job.path, job.content))
          /\ MapsFit(WithoutFile(data.maps, job.file))
      BY <1>1, WithMappingFits
    <3> QED BY <1>2, <3>1
  <2>2. MapsFit(bak'.data.maps)
    BY <1>1, <1>2 DEF Save, NoBackup, EmptyData, MapsFit
  <2> QED BY <1>1, <1>3, <2>1, <2>2 DEF PathsFit, MapsFit
<1>5. /\ Resting' /\ proc'.pc = proc.pc /\ proc'.blocked = proc.blocked /\ proc'.held = proc.held
  BY <1>1, <1>2 DEF Resting
<1>6. /\ \A m \in data'.maps : \/ m \in data.maps /\ m.file # job.file
                               \/ m = new /\ ~delete
      /\ \A m \in data.maps : m.file # job.file /\ m.path # job.path => m \in data'.maps
      /\ delete => \A m \in data.maps : m.file # job.file => m \in data'.maps
      /\ ~delete => new \in data'.maps
      /\ new.path = job.path /\ new.hash = job.content
  BY <1>2 DEF WithMapping, WithoutFile
<1> HIDE DEF new, delete
<1>7. ASSUME fresh' PROVE Calm'
  <2>1. fresh /\ Calm /\ CalmChange(job)
    BY <1>1, <1>7 DEF HealsInv, Calm
  <2>2. (\A i \in 1..Len(tasks) : CalmTask(tasks[i]))'
    BY <1>1, <2>1 DEF Calm, CalmTask
  <2>3. /\ IF delete THEN disk[job.path] = Absent
           ELSE job.content = disk[job.path] /\ disk[job.path] # Absent /\ job.path \notin proc.blocked
        /\ \A m \in data.maps : m.file = job.file => m.path = job.path \/ disk[m.path] = Absent
    BY <2>1 DEF CalmChange, delete
  <2>4. ASSUME NEW u \in scan' PROVE ScanTask(u)' /\ (u.kind = "rename" => RenameAlone(u)')
    <3>1. u \in scan /\ ScanTask(u)'
      BY <1>1, <1>5, <2>1 DEF Calm, ScanTask, Target
    <3>2. CASE u.kind = "rename"
      <4>1. RenameAlone(u) /\ job.path # u.to
        BY <1>1, <2>1, <3>1, <3>2 DEF Calm, RenameAlone
      <4>2. ~Mapped(u.to)'
        BY <1>6, <4>1 DEF RenameAlone, Mapped, MappingAt
      <4>3. proc.pc = "scanning" /\ \A v \in scan : v # u => Target(v) # u.to
        BY <4>1 DEF RenameAlone
      <4>4. proc'.pc = "scanning" /\ scan' = scan /\ job' = None
        BY <1>1, <1>5, <4>3
      <4>5. None' = None
        BY DEF None
      <4> QED BY <3>1, <4>2, <4>3, <4>4, <4>5 DEF RenameAlone, Target
    <3> QED BY <3>1, <3>2
  <2>5. ASSUME Seen PROVE Seen'
    <3>1. ASSUME NEW p \in proc'.blocked PROVE disk'[p] # Absent /\ ~Mapped(p)'
      BY <1>1, <1>5, <1>6, <2>3, <2>5 DEF Seen, Mapped, MappingAt
    <3>2. ASSUME NEW p \in Paths \ proc.blocked, disk[p] # Absent
          PROVE  Current(p)' \/ (proc'.pc = "scanning" /\ Arrives(p)')
      <4>1. CASE p = job.path
        BY <1>1, <1>6, <2>3, <3>2, <4>1 DEF Current
      <4>2. CASE p # job.path /\ Current(p)
        <5>1. PICK m \in data.maps : m.path = p /\ m.hash = disk[p]
          BY <4>2 DEF Current
        <5>2. m.file # job.file
          BY <2>3, <3>2, <4>2, <5>1
        <5> QED BY <1>1, <1>6, <4>2, <5>1, <5>2 DEF Current
      <4>3. CASE p # job.path /\ proc.pc = "scanning" /\ Arrives(p)
        BY <1>1, <1>5, <4>3 DEF Arrives, Target
      <4> QED BY <2>5, <3>2, <4>1, <4>2, <4>3 DEF Seen
    <3>3. ASSUME NEW p \in Paths \ proc.blocked, disk[p] = Absent
          PROVE  ~Mapped(p)' \/ proc'.held \/ Goes(p)'
      <4>1. p = job.path => delete
        BY <2>3, <3>3
      <4>2. \A m \in data'.maps : m.path = p => m \in data.maps /\ m.file # job.file
        BY <1>6, <4>1
      <4>3. CASE ~Mapped(p) \/ proc.held
        BY <1>5, <4>2, <4>3 DEF Mapped, MappingAt
      <4>4. CASE Goes(p)
        <5>1. CASE \E t \in scan : t.kind \in {"rename", "delete"} /\ t.path = p
          BY <1>1, <5>1 DEF Goes
        <5>2. CASE \E m \in data.maps : m.path = p /\ m.file = job.file
          BY <1>1, <4>2, <5>2 DEF MapsFit, Mapped, MappingAt
        <5> QED BY <4>4, <5>1, <5>2 DEF Goes
      <4> QED BY <2>5, <3>3, <4>3, <4>4 DEF Seen
    <3> QED BY <1>1, <1>5, <3>1, <3>2, <3>3 DEF Seen
  <2>6. proc'.pc \in {"scanning", "ready"} => Seen'
    BY <1>5, <2>1, <2>5 DEF Calm
  <2> QED BY <1>1, <2>2, <2>4, <2>6 DEF Calm
<1> QED BY <1>4, <1>5, <1>7 DEF HealsInv

\* There are finitely many mappings: one for each file.
LEMMA MapsFinite ==
  ASSUME ProducerInv PROVE IsFiniteSet(data.maps)
<1> DEFINE f == [m \in data.maps |-> m.file]
<1>1. /\ \A m \in data.maps : m.file \in 1..files
      /\ \A m, o \in data.maps : m.file = o.file => m = o
      /\ files \in Nat
  BY DEF ProducerInv, Books, MapsHeads, Graph
<1>2. f \in Injection(data.maps, 1..files)
  BY <1>1 DEF Injection, IsInjective
<1>3. IsFiniteSet(1..files)
  BY <1>1, FS_Interval
<1> QED BY <1>2, <1>3, FS_Injection

\* The list of a finite set.
LEMMA ListsSet ==
  ASSUME NEW S, IsFiniteSet(S), NEW T, S \subseteq T
  PROVE  SetToSeq(S) \in Seq(T)
<1>1. PICK n \in Nat : n = Cardinality(S) /\ ExistsBijection(1..n, S)
  BY FS_CardinalityType
<1>2. PICK g : g \in Bijection(1..n, S)
  BY <1>1 DEF ExistsBijection
<1>3. g \in [1..Cardinality(S) -> S] /\ IsInjective(g)
  BY <1>1, <1>2 DEF Bijection, Injection, IsInjective
<1>4. SetToSeq(S) \in [1..Cardinality(S) -> S]
  BY <1>3 DEF SetToSeq
<1> QED BY <1>1, <1>4

LEMMA HealsFolder ==
  ASSUME ProducerInv, HealsInv, TakeFolderDelete
  PROVE  HealsInv'
<1> DEFINE task(m) == [kind |-> "delete", path |-> m.path, by |-> "event"]
           notes == {m \in data.maps : m.path \in Notes}
           all == {task(m) : m \in notes}
<1>1. /\ UNCHANGED <<disk, data, bak, revs, proc, scan, job, fresh>>
      /\ tasks # <<>> /\ Head(tasks).kind = "folder" /\ proc.pc = "ready"
      /\ tasks' = SetToSeq(all) \o Tail(tasks)
      /\ tasks \in Seq(Task) /\ MapsFit(data.maps) /\ Resting
  BY DEF TakeFolderDelete, stored, graph, HealsInv, PathsFit
<1>2. all \subseteq Task
  BY DEF Task, Paths
<1>3. IsFiniteSet(all)
  <2>1. IsFiniteSet(notes)
    BY MapsFinite, FS_Subset
  <2> HIDE DEF notes
  <2> DEFINE f == [m \in notes |-> task(m)]
  <2>2. f \in Surjection(notes, all)
    BY DEF Surjection
  <2> HIDE DEF f, all
  <2> QED BY <2>1, <2>2, FS_Surjection
<1> HIDE DEF all
<1>4. tasks' \in Seq(Task)
  <2>1. SetToSeq(all) \in Seq(Task)
    BY <1>2, <1>3, ListsSet
  <2> QED BY <1>1, <2>1
<1>5. ~fresh
  <2>1. Head(tasks) = tasks[1] /\ 1 \in 1..Len(tasks)
    BY <1>1
  <2> QED BY <1>1, <2>1 DEF HealsInv, Calm, CalmTask
<1>6. \E f, i : proc' = [proc EXCEPT !.forced = f, !.idle = i]
  <2>1. proc' = [proc EXCEPT !.forced = proc.forced, !.idle = proc.idle]
    BY <1>1 DEF Resting
  <2> QED BY <2>1
<1> HIDE DEF HealsInv
<1> QED BY <1>1, <1>4, <1>5, <1>6, HealsFrame

-----------------------------------------------------------------------------
(* The scan of a start.                                                    *)

\* The scan asks for tasks of the vault.
LEMMA ScanFits ==
  ASSUME NEW maps, MapsFit(maps), NEW blocked, NEW listed, NEW allowed,
         NEW t \in reconcileVaultState(maps, blocked, listed, allowed).tasks
  PROVE  t \in Task /\ t.kind # "folder" /\ t.by = "scan"
<1> DEFINE u == Unmatched(maps, blocked, listed)
<1>1. u.files \subseteq Paths /\ u.maps \subseteq maps
  BY DEF Unmatched, OnDisk
<1> HIDE DEF u
<1>2. \A pair \in Moves(u) : pair[1] \in maps /\ pair[2] \in Paths
  BY <1>1 DEF Moves
<1>3. Missing(u) \subseteq maps
  BY <1>1 DEF Missing
<1>4. \A m \in maps : m.path \in Paths
  BY DEF MapsFit
<1>5. \/ \E m \in maps : t = [kind |-> "modify", path |-> m.path, by |-> "scan"]
      \/ \E pair \in Moves(u) : t = [kind |-> "rename", path |-> pair[1].path, to |-> pair[2], by |-> "scan"]
      \/ \E p \in u.files : t = [kind |-> "create", path |-> p, by |-> "scan"]
      \/ \E m \in Missing(u) : t = [kind |-> "delete", path |-> m.path, by |-> "scan"]
  BY DEF reconcileVaultState, u
<1>6. CASE \E m \in maps : t = [kind |-> "modify", path |-> m.path, by |-> "scan"]
  BY <1>4, <1>6 DEF Task
<1>7. CASE \E pair \in Moves(u) : t = [kind |-> "rename", path |-> pair[1].path, to |-> pair[2], by |-> "scan"]
  BY <1>2, <1>4, <1>7 DEF Task
<1>8. CASE \E p \in u.files : t = [kind |-> "create", path |-> p, by |-> "scan"]
  BY <1>1, <1>8 DEF Task
<1>9. CASE \E m \in Missing(u) : t = [kind |-> "delete", path |-> m.path, by |-> "scan"]
  BY <1>3, <1>4, <1>9 DEF Task
<1> QED BY <1>5, <1>6, <1>7, <1>8, <1>9

\* What a scan with a listing promises.
Finds(maps, blocked, result) ==
    /\ \A t \in result.tasks :
         /\ t.kind # "delete" => disk[Target(t)] # Absent /\ Target(t) \notin blocked
         /\ t.kind \in {"rename", "delete"} => disk[t.path] = Absent
         /\ t.kind = "rename" =>
              /\ \A m \in maps : m.path # t.to
              /\ \A u \in result.tasks : u # t => Target(u) # t.to
    /\ \A p \in Paths \ blocked :
         /\ disk[p] # Absent => \/ \E m \in maps : m.path = p /\ m.hash = disk[p]
                                \/ \E t \in result.tasks : t.kind # "delete" /\ Target(t) = p
         /\ disk[p] = Absent => \/ \A m \in maps : m.path # p
                                \/ result.held
                                \/ \E t \in result.tasks : t.kind \in {"rename", "delete"} /\ t.path = p

\* With a listing, what is not as the mapping says has a task, and the tasks are
\* of what is on the disk.
LEMMA ScanFinds ==
  ASSUME NEW maps, MapsFit(maps), NEW blocked, \A m \in maps : m.path \notin blocked,
         NEW allowed, NEW result, result = reconcileVaultState(maps, blocked, TRUE, allowed)
  PROVE  Finds(maps, blocked, result) /\ (allowed => result.held = FALSE)
<1> DEFINE u == Unmatched(maps, blocked, TRUE)
           held == ~allowed /\ Held(Missing(u), maps)
           modify(m) == [kind |-> "modify", path |-> m.path, by |-> "scan"]
           rename(x) == [kind |-> "rename", path |-> x[1].path, to |-> x[2], by |-> "scan"]
           create(p) == [kind |-> "create", path |-> p, by |-> "scan"]
           delete(m) == [kind |-> "delete", path |-> m.path, by |-> "scan"]
           changed == {m \in maps : disk[m.path] # Absent /\ m.hash # disk[m.path]}
<1>1. /\ \A p : p \in u.files <=> p \in Paths \ blocked /\ disk[p] # Absent /\ \A m \in maps : m.path # p
      /\ \A m : m \in u.maps <=> m \in maps /\ disk[m.path] = Absent
      /\ \A m \in maps : m.path \in OnDisk(maps, blocked, TRUE) <=> disk[m.path] # Absent
  BY DEF Unmatched, OnDisk, Listed, MapsFit
<1>2. /\ result.held = held
      /\ result.tasks = {modify(m) : m \in changed} \cup {rename(x) : x \in Moves(u)}
            \cup {create(p) : p \in u.files \ {x[2] : x \in Moves(u)}}
            \cup (IF held THEN {} ELSE {delete(m) : m \in Missing(u)})
  <2>1. {m \in maps : m.path \in OnDisk(maps, blocked, TRUE) /\ m.hash # disk[m.path]} = changed
    BY <1>1
  <2> HIDE DEF changed
  <2> QED BY <2>1 DEF reconcileVaultState
<1> HIDE DEF u, held
<1>3. \A x \in Moves(u) : /\ x = <<x[1], x[2]>> /\ x[1] \in u.maps /\ x[2] \in u.files
                          /\ x[1].hash = disk[x[2]]
                          /\ \A m \in u.maps : m.hash = x[1].hash => m = x[1]
  BY DEF Moves
<1>4. Missing(u) = u.maps \ {x[1] : x \in Moves(u)}
  BY DEF Missing
<1>5. ASSUME NEW t \in result.tasks
      PROVE  \/ \E m \in changed : t = modify(m)
             \/ \E x \in Moves(u) : t = rename(x)
             \/ \E p \in u.files \ {x[2] : x \in Moves(u)} : t = create(p)
             \/ \E m \in Missing(u) : t = delete(m)
  BY <1>2
<1>6. ASSUME NEW t \in result.tasks
      PROVE  /\ t.kind # "delete" => disk[Target(t)] # Absent /\ Target(t) \notin blocked
             /\ t.kind \in {"rename", "delete"} => disk[t.path] = Absent
             /\ \/ \E m \in changed : t = modify(m) /\ Target(t) = m.path
                \/ \E x \in Moves(u) : t = rename(x) /\ Target(t) = x[2]
                \/ \E p \in u.files \ {x[2] : x \in Moves(u)} : t = create(p) /\ Target(t) = p
                \/ \E m \in Missing(u) : t = delete(m) /\ Target(t) = m.path
  <2>1. CASE \E m \in changed : t = modify(m)
    <3>1. PICK m \in changed : t = modify(m)
      BY <2>1
    <3>2. t.kind = "modify" /\ t.path = m.path /\ Target(t) = m.path
      BY <3>1 DEF Target
    <3>3. disk[m.path] # Absent /\ m.path \notin blocked
      OBVIOUS
    <3> QED BY <3>1, <3>2, <3>3
  <2>2. CASE \E x \in Moves(u) : t = rename(x)
    BY <1>1, <1>3, <2>2 DEF Target
  <2>3. CASE \E p \in u.files \ {x[2] : x \in Moves(u)} : t = create(p)
    BY <1>1, <2>3 DEF Target
  <2>4. CASE \E m \in Missing(u) : t = delete(m)
    <3>1. PICK m \in Missing(u) : t = delete(m)
      BY <2>4
    <3>2. t.kind = "delete" /\ t.path = m.path /\ Target(t) = m.path
      BY <3>1 DEF Target
    <3>3. disk[m.path] = Absent
      BY <1>1, <1>4
    <3> QED BY <3>1, <3>2, <3>3
  <2> QED BY <1>5, <2>1, <2>2, <2>3, <2>4
<1>7. ASSUME NEW t \in result.tasks, t.kind = "rename"
      PROVE  (\A m \in maps : m.path # t.to) /\ \A v \in result.tasks : v # t => Target(v) # t.to
  <2>1. PICK x \in Moves(u) : t = rename(x)
    <3>1. /\ \A m : modify(m).kind = "modify" /\ delete(m).kind = "delete"
          /\ \A p : create(p).kind = "create"
      OBVIOUS
    <3> HIDE DEF modify, create, delete, rename
    <3> QED BY <1>5, <1>7, <3>1
  <2>2. t.to = x[2] /\ x[2] \in u.files /\ disk[x[2]] # Absent
    BY <1>1, <1>3, <2>1
  <2>3. \A m \in maps : m.path # t.to
    BY <1>1, <2>2
  <2>4. ASSUME NEW v \in result.tasks, Target(v) = t.to PROVE v = t
    <3>1. CASE \E m \in changed : v = modify(m) /\ Target(v) = m.path
      BY <2>3, <2>4, <3>1
    <3>2. CASE \E y \in Moves(u) : v = rename(y) /\ Target(v) = y[2]
      <4>1. PICK y \in Moves(u) : v = rename(y) /\ y[2] = x[2]
        BY <2>2, <2>4, <3>2
      <4>2. y[1] = x[1]
        BY <1>3, <4>1
      <4> QED BY <2>1, <4>1, <4>2
    <3>3. CASE \E p \in u.files \ {y[2] : y \in Moves(u)} : v = create(p) /\ Target(v) = p
      BY <2>2, <2>4, <3>3
    <3>4. CASE \E m \in Missing(u) : v = delete(m) /\ Target(v) = m.path
      BY <1>4, <1>1, <2>2, <2>4, <3>4
    <3> QED BY <1>6, <3>1, <3>2, <3>3, <3>4
  <2> QED BY <2>3, <2>4
<1>8. ASSUME NEW p \in Paths \ blocked, disk[p] # Absent
      PROVE  \/ \E m \in maps : m.path = p /\ m.hash = disk[p]
             \/ \E t \in result.tasks : t.kind # "delete" /\ Target(t) = p
  <2>1. CASE \E m \in maps : m.path = p
    <3>1. PICK m \in maps : m.path = p
      BY <2>1
    <3>2. CASE m.hash # disk[p]
      <4>1. modify(m) \in result.tasks /\ modify(m).kind = "modify" /\ Target(modify(m)) = p
        BY <1>2, <1>8, <3>1, <3>2 DEF Target
      <4> QED BY <4>1
    <3> QED BY <3>1, <3>2
  <2>2. CASE \A m \in maps : m.path # p
    <3>1. p \in u.files
      BY <1>1, <1>8, <2>2
    <3>2. CASE \E x \in Moves(u) : x[2] = p
      <4>1. PICK x \in Moves(u) : x[2] = p
        BY <3>2
      <4>2. rename(x) \in result.tasks /\ rename(x).kind = "rename" /\ Target(rename(x)) = p
        BY <1>2, <4>1 DEF Target
      <4> QED BY <4>2
    <3>3. CASE p \notin {x[2] : x \in Moves(u)}
      <4>1. create(p) \in result.tasks /\ create(p).kind = "create" /\ Target(create(p)) = p
        BY <1>2, <3>1, <3>3 DEF Target
      <4> QED BY <4>1
    <3> QED BY <3>2, <3>3
  <2> QED BY <2>1, <2>2
<1>9. ASSUME NEW p \in Paths \ blocked, disk[p] = Absent, NEW m \in maps, m.path = p, ~result.held
      PROVE  \E t \in result.tasks : t.kind \in {"rename", "delete"} /\ t.path = p
  <2>1. m \in u.maps
    BY <1>1, <1>9
  <2>2. CASE \E x \in Moves(u) : x[1] = m
    <3>1. PICK x \in Moves(u) : x[1] = m
      BY <2>2
    <3>2. rename(x) \in result.tasks /\ rename(x).kind = "rename" /\ rename(x).path = p
      BY <1>2, <1>9, <3>1
    <3> QED BY <3>2
  <2>3. CASE m \notin {x[1] : x \in Moves(u)}
    <3>1. delete(m) \in result.tasks /\ delete(m).kind = "delete" /\ delete(m).path = p
      BY <1>2, <1>4, <1>9, <2>1, <2>3
    <3> QED BY <3>1
  <2> QED BY <2>2, <2>3
<1>10. allowed => result.held = FALSE
  BY <1>2 DEF held
<1> QED BY <1>6, <1>7, <1>8, <1>9, <1>10 DEF Finds

\* What a start adopts or holds back is of files that the mapping does not know.
LEMMA BootstrapFits ==
  ASSUME ProducerInv, PathsFit
  PROVE  /\ MapsFit(bootstrapIdentities.data.maps)
         /\ \A m \in bootstrapIdentities.data.maps : m.path \notin bootstrapIdentities.blocked
         /\ \A p \in bootstrapIdentities.blocked : disk[p] # Absent
<1> DEFINE adopted == {r \in Candidates : Adoptable(r)}
           new == {[file |-> revs[r].file, path |-> revs[r].path, hash |-> revs[r].content] : r \in adopted}
           maps == data.maps \cup new
           blocked == {revs[r].path : r \in Candidates} \ {revs[r].path : r \in adopted}
<1>1. bootstrapIdentities.data.maps = maps /\ bootstrapIdentities.blocked = blocked
  BY DEF bootstrapIdentities, ProducerInv, Books, IsData
<1>2. ASSUME NEW r \in Candidates
      PROVE  revs[r].path \in Paths /\ disk[revs[r].path] # Absent /\ \A m \in data.maps : m.path # revs[r].path
  <2>1. r \in accepted /\ disk[revs[r].path] # Absent /\ \A m \in data.maps : m.path # revs[r].path
    BY DEF Candidates, Leaves
  <2>2. r \in 1..Len(revs)
    BY <2>1 DEF ProducerInv, Graph
  <2> QED BY <2>1, <2>2 DEF PathsFit
<1>3. \A r, s \in adopted : revs[r].path = revs[s].path => r = s
  BY DEF Adoptable
<1>4. adopted \subseteq Candidates
  OBVIOUS
<1> HIDE DEF adopted
<1>5. \A m \in new : \E r \in adopted : /\ m = [file |-> revs[r].file, path |-> revs[r].path, hash |-> revs[r].content]
                                        /\ m.path = revs[r].path
  OBVIOUS
<1> HIDE DEF new
<1>6. MapsFit(data.maps)
  BY DEF PathsFit
<1>7. \A m \in maps : m.path \in Paths
  BY <1>2, <1>4, <1>5, <1>6 DEF MapsFit
<1>8. ASSUME NEW m \in maps, NEW o \in maps, m.path = o.path PROVE m = o
  <2>1. CASE m \in data.maps /\ o \in data.maps
    BY <1>6, <1>8, <2>1 DEF MapsFit
  <2>2. CASE m \in new /\ o \in new
    BY <1>3, <1>5, <1>8, <2>2
  <2>3. CASE (m \in data.maps /\ o \in new) \/ (m \in new /\ o \in data.maps)
    BY <1>2, <1>4, <1>5, <1>8, <2>3
  <2> QED BY <2>1, <2>2, <2>3
<1>9. \A m \in maps : m.path \notin blocked
  BY <1>2, <1>5
<1>10. \A p \in blocked : disk[p] # Absent
  BY <1>2
<1>11. MapsFit(maps)
  BY <1>7, <1>8 DEF MapsFit
<1> QED BY <1>1, <1>9, <1>10, <1>11

LEMMA HealsInitialize ==
  ASSUME ProducerInv, HealsInv, NEW listed \in BOOLEAN, initialize(listed)
  PROVE  HealsInv'
<1> DEFINE e == bootstrapIdentities.data
           blocked == bootstrapIdentities.blocked
           result == reconcileVaultState(e.maps, blocked, listed, FALSE)
<1>1. /\ UNCHANGED <<disk, revs, tasks, job>> /\ proc.pc = "loaded" /\ job = None
      /\ data' = e /\ (bak' = bak \/ Save(data')) /\ scan' = result.tasks
      /\ fresh' = (fresh /\ listed)
      /\ proc' = [proc EXCEPT !.pc = "scanning", !.blocked = blocked, !.held = result.held]
      /\ Resting /\ PathsFit
  BY DEF initialize, Save, graph, HealsInv, Resting
<1>2. /\ MapsFit(e.maps) /\ \A m \in e.maps : m.path \notin blocked
      /\ \A p \in blocked : disk[p] # Absent
  BY <1>1, BootstrapFits
<1> HIDE DEF e, blocked, result
<1>3. Resting' /\ proc'.pc = "scanning" /\ proc'.blocked = blocked /\ proc'.held = result.held
  BY <1>1 DEF Resting
<1>4. \A t \in scan' : t \in Task /\ t.kind # "folder" /\ t.by = "scan"
  <2>1. \A t \in reconcileVaultState(e.maps, blocked, listed, FALSE).tasks :
          t \in Task /\ t.kind # "folder" /\ t.by = "scan"
    BY <1>2, ScanFits
  <2> QED BY <1>1, <2>1 DEF result
<1>5. PathsFit'
  <2>1. MapsFit(bak'.data.maps)
    BY <1>1 DEF PathsFit, Save, NoBackup, EmptyData, MapsFit
  <2> QED BY <1>1, <1>2, <1>4, <2>1 DEF PathsFit, MapsFit
<1>6. ASSUME fresh' PROVE Calm'
  <2>1. fresh /\ Calm /\ listed
    BY <1>1, <1>6 DEF HealsInv
  <2>2. /\ \A t \in scan' :
              /\ t.kind # "delete" => disk[Target(t)] # Absent /\ Target(t) \notin blocked
              /\ t.kind \in {"rename", "delete"} => disk[t.path] = Absent
              /\ t.kind = "rename" =>
                   /\ \A m \in e.maps : m.path # t.to
                   /\ \A u \in scan' : u # t => Target(u) # t.to
        /\ \A p \in Paths \ blocked :
              /\ disk[p] # Absent => \/ \E m \in e.maps : m.path = p /\ m.hash = disk[p]
                                     \/ \E t \in scan' : t.kind # "delete" /\ Target(t) = p
              /\ disk[p] = Absent => \/ \A m \in e.maps : m.path # p
                                     \/ result.held
                                     \/ \E t \in scan' : t.kind \in {"rename", "delete"} /\ t.path = p
    <3>1. listed = TRUE => result = reconcileVaultState(e.maps, blocked, TRUE, FALSE)
      BY DEF result
    <3>2. result = reconcileVaultState(e.maps, blocked, TRUE, FALSE) /\ scan' = result.tasks
      BY <1>1, <2>1, <3>1
    <3>3. Finds(e.maps, blocked, result)
      BY <1>2, <3>2, ScanFinds
    <3> QED BY <3>2, <3>3 DEF Finds
  <2>3. (\A i \in 1..Len(tasks) : CalmTask(tasks[i]))'
    BY <1>1, <2>1 DEF Calm, CalmTask
  <2>4. ASSUME NEW t \in scan' PROVE ScanTask(t)' /\ (t.kind = "rename" => RenameAlone(t)')
    <3>1. ScanTask(t)'
      BY <1>1, <1>3, <1>4, <2>2 DEF ScanTask, Target
    <3>2. CASE t.kind = "rename"
      <4>1. ~Mapped(t.to)'
        BY <1>1, <2>2, <3>2 DEF Mapped, MappingAt
      <4>2. job' = None /\ None' = None
        BY <1>1 DEF None
      <4> QED BY <1>3, <2>2, <3>1, <3>2, <4>1, <4>2 DEF RenameAlone, Target
    <3> QED BY <3>1, <3>2
  <2>5. Seen'
    <3>1. ASSUME NEW p \in proc'.blocked PROVE disk'[p] # Absent /\ ~Mapped(p)'
      BY <1>1, <1>2, <1>3 DEF Mapped, MappingAt
    <3>2. ASSUME NEW p \in Paths \ blocked, disk[p] # Absent PROVE Current(p)' \/ Arrives(p)'
      BY <1>1, <2>2, <3>2 DEF Current, Arrives, Target
    <3>3. ASSUME NEW p \in Paths \ blocked, disk[p] = Absent PROVE ~Mapped(p)' \/ proc'.held \/ Goes(p)'
      BY <1>1, <1>3, <2>2, <3>3 DEF Mapped, MappingAt, Goes
    <3> QED BY <1>1, <1>3, <3>1, <3>2, <3>3 DEF Seen
  <2> QED BY <1>1, <2>3, <2>4, <2>5 DEF Calm
<1> QED BY <1>3, <1>5, <1>6 DEF HealsInv

\* While nothing is left of the scan, every file there is is mapped: confirming the
\* held deletes finds these alone.
LEMMA HealsConfirm ==
  ASSUME ProducerInv, HealsInv, ConfirmHeldDeletes
  PROVE  HealsInv'
<1> DEFINE result == reconcileVaultState(data.maps, proc.blocked, TRUE, TRUE)
<1>1. /\ UNCHANGED <<disk, data, bak, revs, tasks, job, fresh>> /\ proc.pc = "ready"
      /\ scan' = result.tasks /\ scan = {}
      /\ proc' = [proc EXCEPT !.held = FALSE]
      /\ Resting /\ PathsFit /\ MapsFit(data.maps)
  BY DEF ConfirmHeldDeletes, stored, graph, HealsInv, PathsFit
<1>2. \A t \in scan' : t \in Task /\ t.kind # "folder" /\ t.by = "scan"
  <2>1. \A t \in reconcileVaultState(data.maps, proc.blocked, TRUE, TRUE).tasks :
          t \in Task /\ t.kind # "folder" /\ t.by = "scan"
    <3>1. MapsFit(data.maps)
      BY <1>1
    <3> QED BY <3>1, ScanFits, Zenon
  <2> QED BY <1>1, <2>1
<1> HIDE DEF result
<1>3. Resting' /\ proc'.pc = "ready" /\ proc'.blocked = proc.blocked /\ proc'.held = FALSE
  BY <1>1 DEF Resting
<1>4. PathsFit'
  BY <1>1, <1>2 DEF PathsFit, MapsFit
<1>5. ASSUME fresh' PROVE Calm'
  <2>1. fresh /\ Calm /\ Seen
    BY <1>1, <1>5 DEF HealsInv, Calm
  <2>2. \A m \in data.maps : m.path \notin proc.blocked
    BY <2>1 DEF Seen, Mapped, MappingAt
  <2>3. /\ \A t \in scan' :
              /\ t.kind # "delete" => disk[Target(t)] # Absent /\ Target(t) \notin proc.blocked
              /\ t.kind \in {"rename", "delete"} => disk[t.path] = Absent
              /\ t.kind = "rename" => \A m \in data.maps : m.path # t.to
        /\ \A p \in Paths \ proc.blocked : disk[p] = Absent =>
              \/ \A m \in data.maps : m.path # p
              \/ \E t \in scan' : t.kind \in {"rename", "delete"} /\ t.path = p
    <3>1. result = reconcileVaultState(data.maps, proc.blocked, TRUE, TRUE)
      BY DEF result
    <3>2. Finds(data.maps, proc.blocked, result) /\ result.held = FALSE
      BY <1>1, <2>2, <3>1, ScanFinds
    <3> QED BY <1>1, <3>2 DEF Finds
  <2>4. \A p \in Paths \ proc.blocked : disk[p] # Absent => Current(p)
    BY <1>1, <2>1 DEF Seen
  <2>5. ASSUME NEW t \in scan' PROVE ScanTask(t)' /\ t.kind # "rename"
    <3>1. ScanTask(t)'
      BY <1>1, <1>2, <1>3, <2>3 DEF ScanTask, Target
    <3>2. ASSUME t.kind = "rename" PROVE FALSE
      <4>1. t.to \in Paths \ proc.blocked /\ disk[t.to] # Absent
        BY <1>2, <2>3, <3>2, TaskShape DEF Target
      <4> QED BY <2>3, <2>4, <3>2, <4>1 DEF Current
    <3> QED BY <3>1, <3>2
  <2>6. (\A i \in 1..Len(tasks) : CalmTask(tasks[i]))'
    BY <1>1, <2>1 DEF Calm, CalmTask
  <2>7. job' # None => CalmChange(job)'
    BY <1>1, <1>3, <2>1 DEF Calm, CalmChange
  <2>8. Seen'
    <3>1. ASSUME NEW p \in proc'.blocked PROVE disk'[p] # Absent /\ ~Mapped(p)'
      BY <1>1, <1>3, <2>1 DEF Seen, Mapped, MappingAt
    <3>2. ASSUME NEW p \in Paths \ proc.blocked, disk[p] # Absent PROVE Current(p)'
      BY <1>1, <2>4, <3>2 DEF Current
    <3>3. ASSUME NEW p \in Paths \ proc.blocked, disk[p] = Absent PROVE ~Mapped(p)' \/ Goes(p)'
      BY <1>1, <2>3, <3>3 DEF Mapped, MappingAt, Goes
    <3> QED BY <1>1, <1>3, <3>1, <3>2, <3>3 DEF Seen
  <2> QED BY <2>5, <2>6, <2>7, <2>8 DEF Calm
<1> QED BY <1>3, <1>4, <1>5 DEF HealsInv

LEMMA HealsInitialized ==
  ASSUME HealsInv, initialized
  PROVE  HealsInv'
<1>1. /\ UNCHANGED <<disk, data, bak, revs, tasks, job, scan, fresh>> /\ proc.pc = "scanning"
      /\ scan = {} /\ job = None /\ proc' = [proc EXCEPT !.pc = "ready"]
      /\ Resting /\ PathsFit
  BY DEF initialized, stored, graph, HealsInv
<1>2. Resting' /\ proc'.pc = "ready" /\ proc'.blocked = proc.blocked /\ proc'.held = proc.held
  BY <1>1 DEF Resting
<1>3. PathsFit'
  BY <1>1 DEF PathsFit, MapsFit
<1>4. ASSUME fresh' PROVE Calm'
  <2>1. fresh /\ Calm /\ Seen
    BY <1>1, <1>4 DEF HealsInv, Calm
  <2>2. (\A i \in 1..Len(tasks) : CalmTask(tasks[i]))'
    BY <1>1, <2>1 DEF Calm, CalmTask
  <2>3. \A p \in Paths : ~Arrives(p)
    BY <1>1 DEF Arrives
  <2>4. Seen'
    BY <1>1, <1>2, <2>1, <2>3 DEF Seen, Current, Goes, Mapped, MappingAt
  <2> QED BY <1>1, <2>2, <2>4 DEF Calm
<1> QED BY <1>2, <1>3, <1>4 DEF HealsInv

-----------------------------------------------------------------------------
LEMMA HealsNext == ProducerInv /\ HealsInv /\ [Next]_vars => HealsInv'
<1> SUFFICES ASSUME ProducerInv, HealsInv, [Next]_vars PROVE HealsInv'
  OBVIOUS
<1>1. CASE \/ \E p \in Paths, c \in Contents : CreateFile(p, c) \/ ModifyFile(p, c)
           \/ \E p \in Paths : DeleteFile(p)
           \/ \E p, q \in Notes : RenameFile(p, q)
           \/ DeleteFolder
  BY <1>1, HealsEdits
<1>2. CASE (\E p \in Paths : SettleModify(p)) \/ \E p \in Configs : ConfigPollTick(p)
  <2>1. Configs \subseteq Paths
    BY DEF Paths
  <2> QED BY <1>2, <2>1, HealsTimers
<1>3. CASE (\E t \in scan : TakeScan(t)) \/ TakeTask
  BY <1>3, HealsTakes
<1>4. CASE TakeFolderDelete
  BY <1>4, HealsFolder
<1>5. CASE commitLocalChange
  BY <1>5, HealsCommit
<1>6. CASE CommitFails \/ initializeFails
  BY <1>6, HealsFailures
<1>7. CASE \/ LoadClean \/ Stop
           \/ \E r \in Revision : LoadBadEnvelope(r)
           \/ \E outbox \in BOOLEAN : LoadBackup(outbox) \/ LoadSalvage(outbox)
  BY <1>7, HealsLoads
<1>8. CASE \/ \E r \in Revision : LosePayload(r) \/ Accept(r) \/ Refuse(r)
           \/ \E w \in data.rows : retrySend(w) \/ discardSend(w)
           \/ \E p \in Paths : retryFailedCommit(p)
  BY <1>8, HealsQueue
<1>9. CASE \E listed \in BOOLEAN : initialize(listed)
  BY <1>9, HealsInitialize
<1>10. CASE initialized
  BY <1>10, HealsInitialized
<1>11. CASE ConfirmHeldDeletes
  BY <1>11, HealsConfirm
<1>12. CASE UNCHANGED vars
  <2>1. UNCHANGED <<disk, data, bak, revs, proc, scan, tasks, job, fresh>>
    BY <1>12 DEF vars, stored, graph
  <2>2. \E f, i : proc' = [proc EXCEPT !.forced = f, !.idle = i]
    <3>1. proc' = [proc EXCEPT !.forced = proc.forced, !.idle = proc.idle]
      BY <2>1 DEF HealsInv, Resting
    <3> QED BY <3>1
  <2>3. tasks' \in Seq(Task) /\ (fresh' => \A i \in 1..Len(tasks') : CalmTask(tasks'[i]))
    BY <2>1 DEF HealsInv, PathsFit, Calm
  <2> HIDE DEF HealsInv
  <2> QED BY <2>1, <2>2, <2>3, HealsFrame
<1> QED BY <1>1, <1>2, <1>3, <1>4, <1>5, <1>6, <1>7, <1>8, <1>9, <1>10, <1>11, <1>12 DEF Next

\* bootstrapIdentities, reconcileVaultState and the observer meet whatever a stop, a
\* failed write, a lost answer or a damaged data.json left behind: with the scan of
\* a start behind it and nothing edited since, the mapping is the disk, but for
\* held deletes and paths whose identity is not settled.
THEOREM ScanCorrect == Spec => []ScanHeals
<1>1. ProducerInv /\ HealsInv => ScanHeals
  <2> SUFFICES ASSUME ProducerInv, HealsInv, Quiet, fresh, NEW p \in Paths \ proc.blocked
               PROVE  IF disk[p] = Absent THEN Mapped(p) => proc.held
                      ELSE Mapped(p) /\ MappingOf(p).hash = disk[p]
    BY DEF ScanHeals
  <2>1. Seen /\ MapsFit(data.maps) /\ proc.pc = "ready" /\ scan = {} /\ job = None
    BY DEF HealsInv, Calm, PathsFit, Quiet
  <2>2. CASE disk[p] = Absent
    BY <2>1, <2>2 DEF Seen, Goes
  <2>3. CASE disk[p] # Absent
    <3>1. PICK m \in data.maps : m.path = p /\ m.hash = disk[p]
      BY <2>1, <2>3 DEF Seen, Current
    <3>2. Mapped(p)
      BY <3>1 DEF Mapped, MappingAt
    <3> QED BY <2>1, <2>3, <3>1, <3>2, MappingIs
  <2> QED BY <2>2, <2>3
<1>2. Spec => []HealsInv
  BY HealsInit, HealsNext, BooksCorrect, PTL DEF Spec
<1> QED BY <1>1, <1>2, BooksCorrect, PTL


-----------------------------------------------------------------------------
(* One identity for each path.                                             *)

Unsettled(d) == d.queue \cup RowsOf(d)

\* A revision of this device that no tracked one replaces.
Newest(r, d, rs, held, gone) ==
    /\ rs[r].kind \notin {"delete", "peer"}
    /\ \A s \in Tracked(d, held, gone) : r \notin rs[s].parents

\* Unless the copy lost hold of it, it is the head of its file and the file is mapped.
HeadsNewest(d, rs, held, gone, lost) ==
    \A r \in held \cup d.queue :
      Newest(r, d, rs, held, gone) /\ r \notin lost =>
        d.heads[rs[r].file] = r /\ \E m \in d.maps : m.file = rs[r].file

\* The server has no failed revision whose row knows its parents, and what is
\* stashed has no other row.
RowsSettled(d, held, lost) ==
    /\ \A w \in d.rows : w.known /\ w.rev \in held => w.rev \in lost
    /\ \A w \in d.rows : w.rev \in Stashed(d) => w.known

Holds(d, rs, held, gone, lost) ==
    HeadsNewest(d, rs, held, gone, lost) /\ RowsSettled(d, held, lost)

\* What the device will have lost hold of, were the backup loaded.
LostWithData == estranged \cup ((accepted \cap Unsettled(data)) \ Unsettled(bak.data))

BackupHolds ==
    bak.ok => /\ Holds(bak.data, revs, accepted, forgotten, LostWithData)
              /\ data.queue \cap RowsOf(bak.data) \subseteq estranged

\* A change mints an identity or is of the file that its path is mapped to, or of none.
OwnChange ==
    job # None =>
      /\ job.kind = "create" => job.file = files + 1
      /\ job.kind # "delete" => \A m \in data.maps : m.path = job.path => m.file = job.file

HeldInv ==
    Holds(data, revs, accepted, forgotten, estranged) /\ BackupHolds /\ OwnChange

\* A copy holds what it held while it keeps its mappings and heads and tracks no less.
LEMMA HoldsMoves ==
  ASSUME NEW rs, NEW d, NEW held, NEW gone, NEW lost, Holds(d, rs, held, gone, lost),
         NEW e, NEW held2, NEW gone2, NEW lost2, e.maps = d.maps, e.heads = d.heads,
         Tracked(d, held, gone) \subseteq Tracked(e, held2, gone2),
         held2 \cup e.queue \subseteq held \cup d.queue \cup lost2, lost \subseteq lost2,
         RowsSettled(e, held2, lost2)
  PROVE  Holds(e, rs, held2, gone2, lost2)
<1>1. ASSUME NEW r \in held2 \cup e.queue, Newest(r, e, rs, held2, gone2), r \notin lost2
      PROVE  e.heads[rs[r].file] = r /\ \E m \in e.maps : m.file = rs[r].file
  <2>1. r \in held \cup d.queue /\ r \notin lost
    BY <1>1
  <2>2. Newest(r, d, rs, held, gone)
    BY <1>1 DEF Newest
  <2> QED BY <2>1, <2>2 DEF Holds, HeadsNewest
<1> QED BY <1>1 DEF Holds, HeadsNewest

LEMMA HoldsGrow ==
  ASSUME NEW rs, NEW rs2, NEW d, NEW held, NEW gone, NEW lost, NEW n,
         Graph(rs, held, gone, n), Books(d, rs, held, gone, n),
         \A r \in 1..Len(rs) : rs2[r] = rs[r], Holds(d, rs, held, gone, lost)
  PROVE  Holds(d, rs2, held, gone, lost)
<1>1. Tracked(d, held, gone) \subseteq 1..Len(rs) /\ held \cup d.queue \subseteq 1..Len(rs)
  BY DEF Graph, Books, KeptApart, Tracked
<1>2. ASSUME NEW r \in held \cup d.queue PROVE rs2[r] = rs[r]
  BY <1>1
<1>3. ASSUME NEW r \in held \cup d.queue, Newest(r, d, rs2, held, gone) PROVE Newest(r, d, rs, held, gone)
  BY <1>1, <1>2, <1>3 DEF Newest
<1> QED BY <1>2, <1>3 DEF Holds, HeadsNewest

\* A save makes the copy in use the backup.
LEMMA BackupHeld ==
  ASSUME ProducerInv, HeldInv, Save(data'), \A r \in 1..Len(revs) : revs'[r] = revs[r],
         accepted \subseteq accepted', accepted' \subseteq accepted \cup data.queue,
         forgotten \subseteq forgotten' \cup data.queue, estranged \subseteq estranged',
         data'.queue \cap RowsOf(data) \subseteq estranged'
  PROVE  BackupHolds'
<1>1. bak' = NoBackup \/ bak' = [ok |-> TRUE, data |-> data]
  BY DEF Save
<1>2. CASE bak' = NoBackup
  BY <1>2 DEF NoBackup, BackupHolds
<1>3. CASE bak' = [ok |-> TRUE, data |-> data]
  <2>1. bak'.data = data /\ estranged \subseteq LostWithData'
    BY <1>3 DEF LostWithData
  <2>2. Holds(data, revs', accepted, forgotten, estranged)
    BY HoldsGrow DEF ProducerInv, HeldInv
  <2>3. Tracked(data, accepted, forgotten) \subseteq Tracked(data, accepted', forgotten')
    BY DEF Tracked
  <2>4. RowsSettled(data, accepted', LostWithData')
    <3>1. \A w \in data.rows : w.rev \in RowsOf(data) /\ w.rev \notin data.queue
      BY DEF ProducerInv, Books, KeptApart, RowsOf
    <3>2. RowsSettled(data, accepted, estranged)
      BY DEF HeldInv, Holds
    <3> QED BY <2>1, <3>1, <3>2 DEF RowsSettled
  <2> DEFINE lost == LostWithData'
  <2>5. estranged \subseteq lost /\ RowsSettled(data, accepted', lost)
    BY <2>1, <2>4
  <2> HIDE DEF lost
  <2>6. Holds(data, revs', accepted', forgotten', lost)
    BY <2>2, <2>3, <2>5, HoldsMoves
  <2> QED BY <2>1, <2>6 DEF lost, BackupHolds
<1> QED BY <1>1, <1>2, <1>3

LEMMA OwnStays ==
  ASSUME HeldInv, files' = files, job' \in {job, None}, data'.maps = data.maps
  PROVE  OwnChange'
<1>1. None' = None
  BY DEF None
<1> QED BY <1>1 DEF HeldInv, OwnChange

\* Only failures that no envelope stands for change.
LEMMA HeldFrame ==
  ASSUME ProducerInv, HeldInv, UNCHANGED graph, OwnChange',
         (data' = data /\ bak' = bak) \/ \E x : Save([data EXCEPT !.failed = x])
  PROVE  HeldInv'
<1>1. CASE data' = data /\ bak' = bak
  BY <1>1 DEF HeldInv, BackupHolds, LostWithData, graph
<1>2. CASE \E x : Save([data EXCEPT !.failed = x])
  <2>1. PICK x : data' = [data EXCEPT !.failed = x] /\ Save(data')
    BY <1>2 DEF Save
  <2>2. /\ data'.maps = data.maps /\ data'.heads = data.heads /\ data'.queue = data.queue
        /\ data'.rows = data.rows /\ data'.stash = data.stash
    BY <2>1 DEF ProducerInv, Books, IsData
  <2>3. Holds(data', revs, accepted, forgotten, estranged)
    BY <2>2 DEF HeldInv, Holds, HeadsNewest, Newest, RowsSettled, Tracked, RowsOf, Stashed
  <2>4. data'.queue \cap RowsOf(data) \subseteq estranged
    BY <2>2 DEF ProducerInv, Books, KeptApart
  <2>5. BackupHolds'
    BY <2>1, <2>4, BackupHeld DEF graph
  <2> QED BY <2>3, <2>5 DEF HeldInv, graph
<1> QED BY <1>1, <1>2

\* A save that keeps the mappings and the heads.
LEMMA HeldMoves ==
  ASSUME ProducerInv, HeldInv, UNCHANGED <<revs, files, job>>, Save(data'),
         data'.maps = data.maps, data'.heads = data.heads,
         Tracked(data, accepted, forgotten) \subseteq Tracked(data', accepted', forgotten'),
         accepted \subseteq accepted', accepted' \subseteq accepted \cup data.queue,
         forgotten \subseteq forgotten' \cup data.queue, estranged \subseteq estranged',
         data'.queue \subseteq data.queue \cup estranged', RowsSettled(data', accepted', estranged')
  PROVE  HeldInv'
<1>1. data'.queue \cap RowsOf(data) \subseteq estranged'
  BY DEF ProducerInv, Books, KeptApart
<1>2. BackupHolds'
  BY <1>1, BackupHeld
<1> DEFINE lost == estranged'
<1>3. Holds(data', revs, accepted', forgotten', lost)
  <2>1. Holds(data, revs, accepted, forgotten, estranged)
    BY DEF HeldInv
  <2>2. estranged \subseteq lost /\ RowsSettled(data', accepted', lost)
        /\ accepted' \cup data'.queue \subseteq accepted \cup data.queue \cup lost
    OBVIOUS
  <2> HIDE DEF lost
  <2> QED BY <2>1, <2>2, HoldsMoves
<1>4. OwnChange'
  BY OwnStays
<1> QED BY <1>2, <1>3, <1>4 DEF HeldInv

\* What neither queues nor sends, and does not build a revision.
LEMMA HeldStill ==
  ASSUME ProducerInv, HeldInv, NEW p, NEW q, NEW c, NEW r,
         \/ CreateFile(p, c) \/ ModifyFile(p, c) \/ DeleteFile(p) \/ RenameFile(p, q)
         \/ DeleteFolder \/ SettleModify(p) \/ ConfigPollTick(p)
         \/ TakeFolderDelete \/ initialized \/ ConfirmHeldDeletes \/ Stop \/ LosePayload(r)
         \/ CommitFails \/ initializeFails \/ retryFailedCommit(p)
  PROVE  HeldInv'
<1>1. UNCHANGED graph
  BY DEF CreateFile, ModifyFile, DeleteFile, RenameFile, DeleteFolder, SettleModify, ConfigPollTick,
         EditFrame, TakeFolderDelete, initialized, ConfirmHeldDeletes, Stop, LosePayload,
         CommitFails, initializeFails, retryFailedCommit
<1>2. job' \in {job, None}
  BY DEF CreateFile, ModifyFile, DeleteFile, RenameFile, DeleteFolder, SettleModify, ConfigPollTick,
         EditFrame, TakeFolderDelete, initialized, ConfirmHeldDeletes, Stop, LosePayload,
         CommitFails, initializeFails, retryFailedCommit, QueueFrame
<1>3. (data' = data /\ bak' = bak) \/ \E x : Save([data EXCEPT !.failed = x])
  BY DEF CreateFile, ModifyFile, DeleteFile, RenameFile, DeleteFolder, SettleModify, ConfigPollTick,
         EditFrame, TakeFolderDelete, initialized, ConfirmHeldDeletes, Stop, LosePayload, stored,
         CommitFails, onCommitFailure, initializeFails, retryFailedCommit
<1>4. data'.maps = data.maps
  BY <1>3 DEF Save, ProducerInv, Books, IsData
<1>5. OwnChange'
  BY <1>1, <1>2, <1>4, OwnStays DEF graph
<1> QED BY <1>1, <1>3, <1>5, HeldFrame

\* The change of a task is of a new file, or of the one mapped where it looked.
LEMMA FoundOwn ==
  ASSUME ProducerInv, MapsFit(data.maps), NEW t, NEW j, j = Find(t), j # NoChange, j # Collision
  PROVE  /\ j.kind = "create" => j.file = files + 1
         /\ j.kind # "delete" => \A m \in data.maps : m.path = j.path => m.file = j.file
<1>1. ASSUME NEW p, j = FindContent(t, p)
      PROVE  /\ j.kind = "create" => j.file = files + 1
             /\ \A m \in data.maps : m.path = j.path => m.file = j.file
  <2>1. CASE ~Mapped(p)
    <3>1. j = [kind |-> "create", file |-> files + 1, path |-> p, content |-> disk[p], task |-> t]
      BY <1>1, <2>1 DEF FindContent, FindCreate
    <3> QED BY <2>1, <3>1 DEF Mapped, MappingAt
  <2>2. CASE Mapped(p)
    <3>1. j = [kind |-> "update", file |-> MappingOf(p).file, path |-> p, content |-> disk[p], task |-> t]
      BY <1>1, <2>2 DEF FindContent, FindModify
    <3> QED BY <2>2, <3>1, MappingIs
  <2> QED BY <2>1, <2>2
<1>2. CASE t.kind = "rename"
  <2>1. j = FindRename(t)
    BY <1>2 DEF Find
  <2>2. CASE ~Mapped(t.path)
    BY <1>1, <2>1, <2>2 DEF FindRename
  <2>3. CASE Mapped(t.path)
    <3>1. /\ j = [kind |-> "rename", file |-> MappingOf(t.path).file, path |-> t.to,
                  content |-> disk[t.to], task |-> t]
          /\ ~Mapped(t.to)
      BY <2>1, <2>3 DEF FindRename
    <3> QED BY <3>1 DEF Mapped, MappingAt
  <2> QED BY <2>2, <2>3
<1>3. CASE t.kind = "delete"
  <2>1. j = FindDelete(t)
    BY <1>3 DEF Find
  <2>2. j.kind = "delete"
    BY <2>1 DEF FindDelete
  <2> QED BY <2>2
<1>4. CASE t.kind \notin {"rename", "delete"}
  <2>1. j = FindContent(t, t.path)
    BY <1>4 DEF Find
  <2> QED BY <1>1, <2>1
<1> QED BY <1>2, <1>3, <1>4

LEMMA HeldTakes ==
  ASSUME ProducerInv, HealsInv, HeldInv, NEW t, Take(t)
  PROVE  HeldInv'
<1> DEFINE j == IF t.by # "scan" /\ HeldBack(t) THEN NoChange ELSE Find(t)
<1>1. UNCHANGED graph /\ MapsFit(data.maps)
  BY DEF Take, HealsInv, PathsFit
<1>2. /\ (data' = data /\ bak' = bak) \/ \E x : Save([data EXCEPT !.failed = x])
      /\ job' = job \/ (job' = j /\ j # NoChange /\ j # Collision)
  BY DEF Take, Succeeded
<1>3. data'.maps = data.maps
  BY <1>2 DEF Save, ProducerInv, Books, IsData
<1>4. OwnChange'
  <2>1. CASE job' = job
    BY <1>1, <1>3, <2>1, OwnStays DEF graph
  <2>2. CASE job' = j /\ j # NoChange /\ j # Collision
    <3>1. j = Find(t)
      BY <2>2
    <3> HIDE DEF j
    <3>2. /\ j.kind = "create" => j.file = files + 1
          /\ j.kind # "delete" => \A m \in data.maps : m.path = j.path => m.file = j.file
      BY <1>1, <2>2, <3>1, FoundOwn
    <3> QED BY <1>1, <1>3, <2>2, <3>2 DEF OwnChange, graph
  <2> QED BY <1>2, <2>1, <2>2
<1> QED BY <1>1, <1>2, <1>4, HeldFrame

-----------------------------------------------------------------------------
\* The server takes a revision; the answer may be lost.
LEMMA HeldAccept ==
  ASSUME ProducerInv, HeldInv, NEW r, Accept(r)
  PROVE  HeldInv'
<1>1. /\ UNCHANGED <<revs, files, job, forgotten, estranged>> /\ accepted' = accepted \cup {r}
      /\ r \in data.queue
  BY DEF Accept, QueueFrame
<1>2. /\ IsData(data) /\ RowsSettled(data, accepted, estranged) /\ KeptApart(data, revs)
      /\ Holds(data, revs, accepted, forgotten, estranged)
  BY DEF ProducerInv, Books, HeldInv, Holds
<1>3. \A w \in data.rows : w.rev # r
  BY <1>1, <1>2 DEF KeptApart, RowsOf
<1>4. CASE Save([data EXCEPT !.queue = @ \ {r}])
  <2>1. data' = [data EXCEPT !.queue = @ \ {r}] /\ Save(data')
    BY <1>4 DEF Save
  <2>2. /\ data'.maps = data.maps /\ data'.heads = data.heads
        /\ data'.queue = data.queue \ {r} /\ data'.rows = data.rows /\ data'.stash = data.stash
    BY <1>2, <2>1 DEF IsData
  <2>3. RowsSettled(data', accepted', estranged')
    BY <1>1, <1>2, <1>3, <2>2 DEF RowsSettled, Stashed
  <2>4. Tracked(data, accepted, forgotten) \subseteq Tracked(data', accepted', forgotten')
    BY <1>1, <2>2 DEF Tracked, RowsOf
  <2> QED BY <1>1, <2>1, <2>2, <2>3, <2>4, HeldMoves
<1>5. CASE UNCHANGED <<data, bak, torn, payloads>>
  <2>1. Holds(data', revs', accepted', forgotten', estranged')
    <3>1. RowsSettled(data, accepted', estranged)
      BY <1>1, <1>2, <1>3 DEF RowsSettled
    <3>2. Tracked(data, accepted, forgotten) \subseteq Tracked(data, accepted', forgotten)
          /\ accepted' \cup data.queue \subseteq accepted \cup data.queue \cup estranged
      BY <1>1 DEF Tracked
    <3> QED BY <1>1, <1>2, <1>5, <3>1, <3>2, HoldsMoves
  <2>2. BackupHolds'
    <3> SUFFICES ASSUME bak.ok PROVE BackupHolds'
      BY <1>5 DEF BackupHolds
    <3> DEFINE b == bak.data
               lost == LostWithData
               lost2 == LostWithData'
    <3>1. Holds(b, revs, accepted, forgotten, lost) /\ data.queue \cap RowsOf(b) \subseteq estranged
      BY DEF HeldInv, BackupHolds
    <3>2. lost \subseteq lost2 /\ (r \in b.queue \/ r \in lost2) /\ estranged \subseteq lost2
          /\ (r \in RowsOf(b) => r \in lost2)
      BY <1>1, <1>5, <3>1 DEF LostWithData, Unsettled
    <3> HIDE DEF lost, lost2
    <3>3. RowsSettled(b, accepted', lost2)
      BY <1>1, <3>1, <3>2 DEF Holds, RowsSettled, RowsOf
    <3>4. Tracked(b, accepted, forgotten) \subseteq Tracked(b, accepted', forgotten)
          /\ accepted' \cup b.queue \subseteq accepted \cup b.queue \cup lost2
      BY <1>1, <3>2 DEF Tracked
    <3>5. Holds(b, revs, accepted', forgotten, lost2)
      BY <3>1, <3>2, <3>3, <3>4, HoldsMoves
    <3> QED BY <1>1, <1>5, <3>1, <3>5 DEF lost2, BackupHolds
  <2>3. OwnChange'
    BY <1>1, <1>5, OwnStays
  <2> QED BY <2>1, <2>2, <2>3 DEF HeldInv
<1> QED BY <1>4, <1>5 DEF Accept

\* The recursive function of quarantineLineage.
Follows(f, r) == f = [s \in data.queue |-> s = r \/ \E p \in revs[s].parents \cap data.queue : f[p]]

\* It is there: the queued revisions that follow a queued one are what every set that
\* has it, and has a queued revision with each of its parents, contains.
LEMMA LineageExists == ASSUME NEW r PROVE \E f : Follows(f, r)
<1> DEFINE Q == data.queue
           Parents(s) == revs[s].parents \cap Q
           Closed(X) == /\ r \in Q => r \in X
                        /\ \A s \in Q : (\E p \in Parents(s) : p \in X) => s \in X
           reach == {s \in Q : \A X \in SUBSET Q : Closed(X) => s \in X}
           f == [s \in Q |-> s \in reach]
<1>1. \A s \in Q : Parents(s) \subseteq Q
  OBVIOUS
<1>2. reach \subseteq Q /\ Closed(reach)
  <2>1. ASSUME NEW s \in Q, NEW p \in Parents(s), p \in reach PROVE s \in reach
    BY <2>1
  <2> QED BY <2>1
<1>3. ASSUME NEW s \in reach PROVE s = r \/ \E p \in Parents(s) : p \in reach
  <2> SUFFICES ASSUME s # r, ~\E p \in Parents(s) : p \in reach PROVE FALSE
    OBVIOUS
  <2> DEFINE X == reach \ {s}
  <2>1. Closed(X)
    BY <1>2
  <2>2. X \in SUBSET Q
    BY <1>2
  <2> HIDE DEF X
  <2>3. s \in X
    BY <2>1, <2>2
  <2> QED BY <2>3 DEF X
<1> HIDE DEF reach
<1>4. ASSUME NEW s \in Q PROVE (s \in reach) = (s = r \/ \E p \in Parents(s) : f[p])
  <2>1. \A p \in Parents(s) : f[p] = (p \in reach)
    BY <1>1
  <2> HIDE DEF f, Parents
  <2>2. (\E p \in Parents(s) : f[p]) <=> \E p \in Parents(s) : p \in reach
    BY <2>1
  <2>3. s = r => s \in reach
    BY <1>2
  <2>4. (\E p \in Parents(s) : p \in reach) => s \in reach
    BY <1>2
  <2> QED BY <1>3, <2>2, <2>3, <2>4
<1>5. f = [s \in Q |-> s = r \/ \E p \in Parents(s) : f[p]]
  BY <1>4, Zenon
<1> QED BY <1>5 DEF Follows

\* The server holds no follower of a revision that it does not hold.
LEMMA LineageUnheld ==
  ASSUME ProducerInv, NEW r, r \notin accepted
  PROVE  quarantineLineage(r) \cap accepted = {}
<1> DEFINE follows == CHOOSE f : Follows(f, r)
           T == {s \in accepted \cap data.queue : follows[s]}
<1>1. quarantineLineage(r) = {s \in data.queue : follows[s]}
  BY DEF quarantineLineage, Follows
<1>2. Follows(follows, r)
  BY LineageExists
<1> HIDE DEF follows
<1>3. /\ accepted \subseteq Nat
      /\ \A s \in accepted : revs[s].parents \subseteq accepted /\ revs[s].parents \subseteq 1..(s - 1)
  BY DEF ProducerInv, Graph
<1>4. T = {}
  <2> SUFFICES ASSUME T # {} PROVE FALSE
    OBVIOUS
  <2>1. PICK s \in T : \A y \in T : ~(y < s)
    <3>1. T \subseteq Nat
      BY <1>3
    <3> HIDE DEF T
    <3> QED BY <3>1, LeastExists
  <2>2. s \in accepted /\ s \in data.queue /\ s # r /\ follows[s]
    OBVIOUS
  <2>3. PICK p \in revs[s].parents \cap data.queue : follows[p]
    BY <1>2, <2>2 DEF Follows
  <2>4. p \in accepted /\ p \in 1..(s - 1)
    BY <1>3, <2>2
  <2>5. p < s
    BY <1>3, <2>2, <2>4
  <2> QED BY <2>1, <2>3, <2>4, <2>5
<1> QED BY <1>1, <1>4

LEMMA HeldRefuse ==
  ASSUME ProducerInv, HeldInv, NEW r \in Revision, Refuse(r)
  PROVE  HeldInv'
<1> DEFINE dead == quarantineLineage(r)
<1>1. Refused(dead)
  BY RefusedData
<1>2. dead \cap accepted = {} /\ dead \subseteq data.queue
  <2>1. r \notin accepted
    BY DEF Refuse
  <2> QED BY <2>1, LineageUnheld DEF quarantineLineage
<1> HIDE DEF dead
<1>3. /\ UNCHANGED <<revs, files, job, accepted, estranged>> /\ Save(data') /\ forgotten' = forgotten \ dead
      /\ data'.maps = data.maps /\ data'.heads = data.heads /\ data'.queue = data.queue \ dead
      /\ RowsOf(data') = RowsOf(data) \cup dead /\ Stashed(data') \subseteq Stashed(data) \cup dead
  BY <1>1 DEF Refused
<1>4. \A w \in data'.rows : (w \in data.rows /\ w.rev \notin dead) \/ (w.rev \in dead /\ w.known)
  BY <1>1 DEF Refused
<1>5. RowsSettled(data, accepted, estranged)
  BY DEF HeldInv, Holds
<1>6. RowsSettled(data', accepted', estranged')
  <2>1. ASSUME NEW w \in data.rows, w.rev \notin dead
        PROVE  /\ w.known /\ w.rev \in accepted' => w.rev \in estranged'
               /\ w.rev \in Stashed(data') => w.known
    BY <1>3, <1>5, <2>1 DEF RowsSettled
  <2>2. ASSUME NEW w \in data'.rows, w.rev \in dead, w.known
        PROVE  w.rev \notin accepted'
    BY <1>2, <1>3, <2>2
  <2> QED BY <1>4, <2>1, <2>2 DEF RowsSettled
<1>7. Tracked(data, accepted, forgotten) \subseteq Tracked(data', accepted', forgotten')
  BY <1>3 DEF Tracked
<1> QED BY <1>2, <1>3, <1>6, <1>7, HeldMoves

\* The user queues a failed revision again, or drops it.
LEMMA HeldPanel ==
  ASSUME ProducerInv, HeldInv, NEW w \in data.rows, retrySend(w) \/ discardSend(w)
  PROVE  HeldInv'
<1>1. IsData(data) /\ UNCHANGED <<revs, files, job, accepted>> /\ w.rev \in RowsOf(data)
      /\ RowsSettled(data, accepted, estranged)
  BY DEF ProducerInv, Books, retrySend, discardSend, QueueFrame, RowsOf, HeldInv, Holds
<1>2. ASSUME NEW queue, data' = [DropRow(w.rev) EXCEPT !.queue = queue], Save(data'),
             \/ queue = data.queue /\ {w.rev} \subseteq accepted \cup forgotten'
             \/ queue = data.queue \cup {w.rev} /\ w.rev \in estranged',
             forgotten \subseteq forgotten', estranged \subseteq estranged'
      PROVE  HeldInv'
  <2>1. /\ data'.maps = data.maps /\ data'.heads = data.heads /\ data'.queue = queue
        /\ data'.rows = {v \in data.rows : v.rev # w.rev}
        /\ data'.stash = {e \in data.stash : e.rev # w.rev}
    BY <1>1, <1>2 DEF IsData, DropRow
  <2>2. RowsOf(data') = RowsOf(data) \ {w.rev} /\ Stashed(data') \subseteq Stashed(data)
    BY <2>1 DEF RowsOf, Stashed
  <2>3. RowsSettled(data', accepted', estranged')
    BY <1>1, <1>2, <2>1, <2>2 DEF RowsSettled
  <2>4. Tracked(data, accepted, forgotten) \subseteq Tracked(data', accepted', forgotten')
    BY <1>1, <1>2, <2>1, <2>2 DEF Tracked
  <2>5. data'.queue \subseteq data.queue \cup estranged'
    BY <1>2, <2>1
  <2> QED BY <1>1, <1>2, <2>1, <2>3, <2>4, <2>5, HeldMoves
<1>3. IsData(DropRow(w.rev)) /\ DropRow(w.rev).queue = data.queue
  <2> DEFINE rows == {v \in data.rows : v.rev # w.rev}
             stash == {e \in data.stash : e.rev # w.rev}
  <2>1. DropRow(w.rev) = [data EXCEPT !.rows = rows, !.stash = stash]
    BY DEF DropRow
  <2> HIDE DEF rows, stash
  <2> QED BY <1>1, <2>1 DEF IsData
<1>4. [DropRow(w.rev) EXCEPT !.queue = data.queue] = DropRow(w.rev)
  BY <1>3 DEF IsData
<1>5. CASE discardSend(w) \/ (retrySend(w) /\ w.rev \notin Stashed(data))
  <2>1. Save(DropRow(w.rev)) /\ estranged' = estranged
        /\ forgotten' = forgotten \cup ({w.rev} \ accepted)
    BY <1>5 DEF retrySend, discardSend
  <2>2. data' = [DropRow(w.rev) EXCEPT !.queue = data.queue] /\ Save(data')
    BY <1>4, <2>1 DEF Save
  <2> QED BY <1>2, <2>1, <2>2
<1>6. CASE retrySend(w) /\ w.rev \in Stashed(data)
  <2>1. Save([DropRow(w.rev) EXCEPT !.queue = @ \cup {w.rev}])
        /\ forgotten' = forgotten /\ estranged' = estranged \cup {w.rev}
    BY <1>6 DEF retrySend
  <2>2. data' = [DropRow(w.rev) EXCEPT !.queue = data.queue \cup {w.rev}] /\ Save(data')
    BY <1>3, <2>1 DEF Save
  <2> QED BY <1>2, <2>1, <2>2
<1> QED BY <1>5, <1>6

-----------------------------------------------------------------------------
\* What is queued without its bytes becomes a row: nothing is lost hold of.
LEMMA ReconciledHolds ==
  ASSUME NEW d, IsData(d), d.queue \cap Stashed(d) = {}, NEW gone, NEW lost,
         Holds(d, revs, accepted, gone, lost), NEW e, e = reconcilePayloads(d)
  PROVE  /\ Holds(e, revs, accepted, gone \cup (d.queue \ payloads), lost)
         /\ Unsettled(e) = Unsettled(d) /\ e.maps = d.maps /\ e.queue \subseteq d.queue
<1> DEFINE rows == d.rows \cup {[rev |-> r, known |-> FALSE] : r \in d.queue \ payloads}
           stash == {x \in d.stash : x.rev \in payloads}
<1>1. \A w \in rows : w \in d.rows \/ (w.rev \in d.queue \ payloads /\ ~w.known)
  OBVIOUS
<1>2. /\ d.rows \subseteq rows
      /\ \A r \in d.queue \ payloads : [rev |-> r, known |-> FALSE] \in rows /\ [rev |-> r, known |-> FALSE].rev = r
  OBVIOUS
<1>3. e = [d EXCEPT !.queue = d.queue \cap payloads, !.rows = rows, !.stash = stash]
  BY DEF reconcilePayloads
<1>4. Stashed(e) \subseteq Stashed(d)
  BY <1>3 DEF IsData, Stashed
<1> HIDE DEF rows, stash
<1>5. /\ e.maps = d.maps /\ e.heads = d.heads /\ e.queue = d.queue \cap payloads /\ e.rows = rows
  BY <1>3 DEF IsData
<1>6. RowsOf(e) \subseteq RowsOf(d) \cup (d.queue \ payloads)
  BY <1>1, <1>5 DEF RowsOf
<1>7. RowsOf(d) \subseteq RowsOf(e)
  BY <1>2, <1>5 DEF RowsOf
<1>8. d.queue \ payloads \subseteq RowsOf(e)
  <2>1. ASSUME NEW r \in d.queue \ payloads PROVE \E w \in e.rows : w.rev = r
    BY <1>2, <1>5
  <2> QED BY <2>1 DEF RowsOf
<1>9. Unsettled(e) = Unsettled(d)
  BY <1>5, <1>6, <1>7, <1>8 DEF Unsettled
<1>10. RowsSettled(e, accepted, lost)
  <2>1. RowsSettled(d, accepted, lost)
    BY DEF Holds
  <2> QED BY <1>1, <1>4, <1>5, <2>1 DEF RowsSettled
<1> DEFINE gone2 == gone \cup (d.queue \ payloads)
<1>11. Tracked(d, accepted, gone) \subseteq Tracked(e, accepted, gone2)
  BY <1>5, <1>7 DEF Tracked
<1>12. accepted \cup e.queue \subseteq accepted \cup d.queue \cup lost
  BY <1>5
<1> HIDE DEF gone2
<1>13. Holds(e, revs, accepted, gone2, lost)
  BY <1>5, <1>10, <1>11, <1>12, HoldsMoves
<1> QED BY <1>5, <1>9, <1>13 DEF gone2

\* A backup that stays, while the device tracks no less and what is unsettled stays so.
LEMMA BackupStays ==
  ASSUME HeldInv, UNCHANGED <<bak, revs, accepted, estranged>>, forgotten \subseteq forgotten',
         Unsettled(data') = Unsettled(data), data'.queue \subseteq data.queue
  PROVE  BackupHolds'
<1> SUFFICES ASSUME bak.ok PROVE BackupHolds'
  BY DEF BackupHolds
<1> DEFINE b == bak.data
           lost == LostWithData
<1>1. Holds(b, revs, accepted, forgotten, lost) /\ data.queue \cap RowsOf(b) \subseteq estranged
  BY DEF HeldInv, BackupHolds
<1>2. LostWithData' = lost
  BY DEF LostWithData
<1> HIDE DEF lost
<1>3. Tracked(b, accepted, forgotten) \subseteq Tracked(b, accepted, forgotten')
  BY DEF Tracked
<1>4. RowsSettled(b, accepted, lost)
  BY <1>1 DEF Holds
<1>5. Holds(b, revs, accepted, forgotten', lost)
  BY <1>1, <1>3, <1>4, HoldsMoves
<1> QED BY <1>1, <1>2, <1>5 DEF BackupHolds

LEMMA HeldLoads ==
  ASSUME ProducerInv, HealsInv, HeldInv, NEW r, NEW outbox,
         LoadClean \/ LoadBadEnvelope(r) \/ LoadBackup(outbox) \/ LoadSalvage(outbox)
  PROVE  HeldInv'
<1>1. /\ UNCHANGED <<revs, accepted, files, job>> /\ job = None
  <2>1. Start
    BY DEF LoadClean, LoadBadEnvelope, LoadBackup, LoadSalvage
  <2> QED BY <2>1 DEF LoadClean, LoadBadEnvelope, LoadBackup, LoadSalvage, Load, Start, HealsInv, Resting
<1>2. OwnChange'
  <2>1. None' = None
    BY DEF None
  <2> QED BY <1>1, <2>1 DEF OwnChange
<1>3. /\ IsData(data) /\ KeptApart(data, revs) /\ Holds(data, revs, accepted, forgotten, estranged)
      /\ data.queue \cap Stashed(data) = {}
  BY DEF ProducerInv, Books, KeptApart, HeldInv
<1>4. CASE LoadClean
  <2>1. /\ data' = reconcilePayloads(data) /\ estranged' = estranged
        /\ forgotten' = forgotten \cup (data.queue \ payloads)
        /\ bak' = bak \/ bak' = NoBackup \/ bak' = [ok |-> TRUE, data |-> data]
    BY <1>4 DEF LoadClean, Load, Save
  <2>2. /\ Holds(data', revs, accepted, forgotten', estranged)
        /\ Unsettled(data') = Unsettled(data) /\ data'.queue \subseteq data.queue
    BY <1>3, <2>1, ReconciledHolds
  <2>3. CASE bak' = bak
    <3>1. BackupHolds'
      BY <1>1, <2>1, <2>2, <2>3, BackupStays
    <3> QED BY <1>1, <1>2, <2>1, <2>2, <3>1 DEF HeldInv
  <2>4. CASE bak' = [ok |-> TRUE, data |-> data]
    <3>1. bak'.data = data /\ estranged \subseteq LostWithData'
      BY <2>1, <2>4 DEF LostWithData
    <3> DEFINE lost == LostWithData'
    <3>2. RowsSettled(data, accepted, lost)
      BY <1>3, <3>1 DEF Holds, RowsSettled
    <3>3. estranged \subseteq lost
      BY <3>1
    <3> HIDE DEF lost
    <3>4. Tracked(data, accepted, forgotten) \subseteq Tracked(data, accepted, forgotten')
      BY <2>1 DEF Tracked
    <3>5. Holds(data, revs, accepted, forgotten', lost)
      BY <1>3, <3>2, <3>3, <3>4, HoldsMoves
    <3>6. BackupHolds'
      BY <1>1, <1>3, <2>2, <3>1, <3>5 DEF lost, BackupHolds, KeptApart
    <3> QED BY <1>1, <1>2, <2>1, <2>2, <3>6 DEF HeldInv
  <2>5. CASE bak' = NoBackup
    <3>1. BackupHolds'
      BY <2>5 DEF NoBackup, BackupHolds
    <3> QED BY <1>1, <1>2, <2>1, <2>2, <3>1 DEF HeldInv
  <2> QED BY <2>1, <2>3, <2>4, <2>5
<1>5. CASE LoadBadEnvelope(r)
  <2> DEFINE rows == data.rows \cup {[rev |-> r, known |-> FALSE]}
             e == [data EXCEPT !.queue = @ \ {r}, !.rows = rows]
             gone == forgotten \cup {r}
  <2>1. \A w \in rows : w \in data.rows \/ (w.rev = r /\ ~w.known)
    OBVIOUS
  <2>2. [rev |-> r, known |-> FALSE].rev = r /\ [rev |-> r, known |-> FALSE] \in rows /\ data.rows \subseteq rows
    OBVIOUS
  <2> HIDE DEF rows
  <2>3. /\ r \in data.queue /\ data' = reconcilePayloads(e) /\ estranged' = estranged /\ bak' = bak
        /\ forgotten' = gone \cup (e.queue \ payloads)
    BY <1>5 DEF LoadBadEnvelope, Load, rows
  <2>4. /\ IsData(e) /\ e.maps = data.maps /\ e.heads = data.heads
        /\ e.queue = data.queue \ {r} /\ e.rows = rows /\ e.stash = data.stash
    <3>1. e = [data EXCEPT !.queue = data.queue \ {r}, !.rows = rows]
      OBVIOUS
    <3> HIDE DEF e
    <3> QED BY <1>3, <3>1 DEF IsData
  <2> HIDE DEF e
  <2>5. RowsOf(e) = RowsOf(data) \cup {r} /\ Stashed(e) = Stashed(data)
    BY <2>1, <2>2, <2>4 DEF RowsOf, Stashed
  <2>6. RowsSettled(e, accepted, estranged)
    BY <1>3, <2>1, <2>3, <2>4, <2>5 DEF Holds, RowsSettled
  <2>7. Tracked(data, accepted, forgotten) \subseteq Tracked(e, accepted, gone)
        /\ accepted \cup e.queue \subseteq accepted \cup data.queue \cup estranged
    BY <2>3, <2>4, <2>5 DEF Tracked
  <2> HIDE DEF gone
  <2>8. Holds(e, revs, accepted, gone, estranged)
    BY <1>3, <2>4, <2>6, <2>7, HoldsMoves
  <2>9. e.queue \cap Stashed(e) = {}
    BY <1>3, <2>4, <2>5
  <2>10. /\ Holds(data', revs, accepted, forgotten', estranged)
         /\ Unsettled(data') = Unsettled(e) /\ data'.queue \subseteq e.queue
    BY <2>3, <2>4, <2>8, <2>9, ReconciledHolds
  <2>11. Unsettled(data') = Unsettled(data) /\ data'.queue \subseteq data.queue
    BY <2>3, <2>4, <2>5, <2>10 DEF Unsettled
  <2>12. BackupHolds'
    <3>1. forgotten \subseteq forgotten'
      BY <2>3 DEF gone
    <3> QED BY <1>1, <2>3, <2>11, <3>1, BackupStays
  <2> QED BY <1>1, <1>2, <2>3, <2>10, <2>12 DEF HeldInv
<1>6. CASE LoadBackup(outbox)
  <2> DEFINE b == bak.data
             lost == LostWithData
  <2>1. /\ bak.ok /\ (bak' = bak \/ bak' = NoBackup) /\ data' = reconcilePayloads(b)
        /\ forgotten' = forgotten \cup (b.queue \ payloads)
    BY <1>6 DEF LoadBackup, Load
  <2>2. estranged' = lost
    BY <1>6 DEF LoadBackup, LostWithData, Unsettled, RowsOf
  <2>3. Holds(b, revs, accepted, forgotten, lost)
    BY <2>1 DEF HeldInv, BackupHolds
  <2>4. /\ IsData(b) /\ b.queue \cap Stashed(b) = {} /\ b.queue \cap RowsOf(b) = {}
    BY <2>1 DEF ProducerInv, Books, KeptApart
  <2> HIDE DEF lost
  <2>5. /\ Holds(data', revs, accepted, forgotten', lost)
        /\ Unsettled(data') = Unsettled(b) /\ data'.queue \subseteq b.queue
    BY <2>1, <2>3, <2>4, ReconciledHolds
  <2>6. bak' = bak => LostWithData' = lost
    BY <1>1, <2>1, <2>2, <2>5 DEF LostWithData
  <2>7. Holds(b, revs, accepted, forgotten', lost)
    <3>1. Tracked(b, accepted, forgotten) \subseteq Tracked(b, accepted, forgotten')
      BY <2>1 DEF Tracked
    <3>2. RowsSettled(b, accepted, lost)
      BY <2>3 DEF Holds
    <3> QED BY <2>3, <3>1, <3>2, HoldsMoves
  <2>8. BackupHolds'
    <3>1. CASE bak' = bak
      BY <1>1, <2>1, <2>4, <2>5, <2>6, <2>7, <3>1 DEF BackupHolds
    <3>2. CASE bak' = NoBackup
      BY <3>2 DEF NoBackup, BackupHolds
    <3> QED BY <2>1, <3>1, <3>2
  <2> QED BY <1>1, <1>2, <2>2, <2>5, <2>8 DEF HeldInv
<1>7. CASE LoadSalvage(outbox)
  <2>1. BackupHolds' /\ estranged' = estranged
    BY <1>7 DEF LoadSalvage, NoBackup, BackupHolds
  <2>2. CASE outbox
    <3>1. data' = reconcilePayloads(data) /\ forgotten' = forgotten \cup (data.queue \ payloads)
      BY <1>7, <2>2 DEF LoadSalvage, Load
    <3>2. Holds(data', revs, accepted, forgotten', estranged)
      BY <1>3, <3>1, ReconciledHolds
    <3> QED BY <1>1, <1>2, <2>1, <3>2 DEF HeldInv
  <2>3. CASE ~outbox
    <3> DEFINE e == [EmptyData EXCEPT !.maps = data.maps, !.heads = data.heads]
               gone == forgotten \cup Unsettled(data)
    <3>1. data' = reconcilePayloads(e) /\ forgotten' = gone \cup (e.queue \ payloads)
      BY <1>7, <2>3 DEF LoadSalvage, Load, Unsettled, RowsOf
    <3>2. /\ IsData(e) /\ e.maps = data.maps /\ e.heads = data.heads
          /\ e.queue = {} /\ e.rows = {} /\ e.stash = {}
      <4>1. /\ IsData(EmptyData) /\ EmptyData.queue = {} /\ EmptyData.rows = {} /\ EmptyData.stash = {}
        BY DEF IsData, EmptyData
      <4>2. e = [EmptyData EXCEPT !.maps = data.maps, !.heads = data.heads]
        OBVIOUS
      <4> HIDE DEF e
      <4> QED BY <4>1, <4>2 DEF IsData
    <3> HIDE DEF e
    <3>3. RowsSettled(e, accepted, estranged) /\ e.queue \cap Stashed(e) = {}
      BY <3>2 DEF RowsSettled
    <3>4. Tracked(data, accepted, forgotten) \subseteq Tracked(e, accepted, gone)
          /\ accepted \cup e.queue \subseteq accepted \cup data.queue \cup estranged
      BY <3>2 DEF Tracked, Unsettled
    <3> HIDE DEF gone
    <3>5. Holds(e, revs, accepted, gone, estranged)
      BY <1>3, <3>2, <3>3, <3>4, HoldsMoves
    <3>6. Holds(data', revs, accepted, forgotten', estranged)
      BY <3>1, <3>2, <3>3, <3>5, ReconciledHolds
    <3> QED BY <1>1, <1>2, <2>1, <3>6 DEF HeldInv
  <2> QED BY <2>2, <2>3
<1> QED BY <1>4, <1>5, <1>6, <1>7

-----------------------------------------------------------------------------
LEMMA BootstrapKeeps ==
  ASSUME ProducerInv, NEW e, e = bootstrapIdentities.data
  PROVE  /\ e.queue = data.queue /\ e.rows = data.rows /\ e.stash = data.stash
         /\ e.maps = data.maps \cup {[file |-> revs[r].file, path |-> revs[r].path, hash |-> revs[r].content] :
                                        r \in {r \in Candidates : Adoptable(r)}}
         /\ \A m \in data.maps : e.heads[m.file] = data.heads[m.file]
<1> DEFINE adopted == {r \in Candidates : Adoptable(r)}
           maps == data.maps \cup {[file |-> revs[r].file, path |-> revs[r].path, hash |-> revs[r].content] : r \in adopted}
           heads == [f \in File |-> IF \E r \in adopted : revs[r].file = f
                                    THEN CHOOSE r \in adopted : revs[r].file = f ELSE data.heads[f]]
<1>1. IsData(data) /\ MapsHeads(data, revs, files) /\ Graph(revs, accepted, forgotten, files)
  BY DEF ProducerInv, Books
<1>2. e = [data EXCEPT !.maps = maps, !.heads = heads]
  BY <1>1 DEF bootstrapIdentities, IsData
<1>3. ASSUME NEW m \in data.maps PROVE heads[m.file] = data.heads[m.file]
  <2>1. m.file \in File
    BY <1>1, ProducerAssumption DEF MapsHeads, Graph, File
  <2>2. \A r \in adopted : revs[r].file # m.file
    BY DEF Candidates
  <2> QED BY <2>1, <2>2
<1> HIDE DEF maps, heads
<1>4. /\ e.queue = data.queue /\ e.rows = data.rows /\ e.stash = data.stash
      /\ e.maps = maps /\ e.heads = heads
  BY <1>1, <1>2 DEF IsData
<1> QED BY <1>3, <1>4 DEF maps

LEMMA HeldInitialize ==
  ASSUME ProducerInv, HealsInv, HeldInv, NEW listed, initialize(listed)
  PROVE  HeldInv'
<1>1. /\ UNCHANGED graph /\ job' = None /\ data' = bootstrapIdentities.data
      /\ (data' = data /\ bak' = bak) \/ Save(data')
  BY DEF initialize, Save, HealsInv, Resting
<1>2. /\ data'.queue = data.queue /\ data'.rows = data.rows /\ data'.stash = data.stash
      /\ data.maps \subseteq data'.maps
      /\ \A m \in data.maps : data'.heads[m.file] = data.heads[m.file]
  BY <1>1, BootstrapKeeps
<1>3. OwnChange'
  <2>1. None' = None
    BY DEF None
  <2> QED BY <1>1, <2>1 DEF OwnChange
<1>4. Holds(data', revs, accepted, forgotten, estranged)
  <2>1. Tracked(data', accepted, forgotten) = Tracked(data, accepted, forgotten)
    BY <1>2 DEF Tracked, RowsOf
  <2>2. HeadsNewest(data, revs, accepted, forgotten, estranged) /\ RowsSettled(data, accepted, estranged)
    BY DEF HeldInv, Holds
  <2>3. ASSUME NEW r \in accepted \cup data.queue, Newest(r, data', revs, accepted, forgotten), r \notin estranged
        PROVE  data'.heads[revs[r].file] = r /\ \E m \in data'.maps : m.file = revs[r].file
    <3>1. Newest(r, data, revs, accepted, forgotten)
      BY <2>1, <2>3 DEF Newest
    <3>2. data.heads[revs[r].file] = r /\ \E m \in data.maps : m.file = revs[r].file
      BY <2>2, <2>3, <3>1 DEF HeadsNewest
    <3> QED BY <1>2, <3>2
  <2>4. HeadsNewest(data', revs, accepted, forgotten, estranged)
    BY <1>2, <2>3 DEF HeadsNewest
  <2> QED BY <1>2, <2>2, <2>4 DEF Holds, RowsSettled, Stashed
<1>5. BackupHolds'
  <2>1. CASE data' = data /\ bak' = bak
    BY <1>1, <2>1 DEF HeldInv, BackupHolds, LostWithData, graph
  <2>2. CASE Save(data')
    <3>1. data'.queue \cap RowsOf(data) \subseteq estranged
      BY <1>2 DEF ProducerInv, Books, KeptApart
    <3> QED BY <1>1, <2>2, <3>1, BackupHeld DEF graph
  <2> QED BY <1>1, <2>1, <2>2
<1> QED BY <1>1, <1>3, <1>4, <1>5 DEF HeldInv, graph

\* The walk stays where it starts, at a revision that has not failed.
LEMMA LiveParentsStay ==
  ASSUME NEW r, r # 0, QuarantinedParents(r) = {r}
  PROVE  LiveParents(r) = {r}
<1> DEFINE Walk(f) == f = [n \in 0..MaxRevisions |-> IF n = 0 THEN {r} ELSE Back(f[n - 1])]
           step == CHOOSE f : Walk(f)
           T == {n \in 0..MaxRevisions : step[n] # {r}}
<1>1. LiveParents(r) = step[MaxRevisions]
  BY DEF LiveParents, Back
<1>2. MaxRevisions \in Nat
  BY ProducerAssumption
<1>3. Walk(step)
  <2>1. \E f : Walk(f)
    BY <1>2, WalkExists, ZenonT(60)
  <2> HIDE DEF Walk
  <2> QED BY <2>1
<1> HIDE DEF step
<1>4. Back({r}) = {r}
  BY DEF Back
<1>5. T = {}
  <2> SUFFICES ASSUME T # {} PROVE FALSE
    OBVIOUS
  <2>1. PICK n \in T : \A k \in T : ~(k < n)
    <3>1. T \subseteq Nat
      BY <1>2
    <3> HIDE DEF T
    <3> QED BY <3>1, LeastExists
  <2>2. n \in 0..MaxRevisions /\ step[n] = IF n = 0 THEN {r} ELSE Back(step[n - 1])
    BY <1>3
  <2>3. CASE n = 0
    BY <2>1, <2>2, <2>3
  <2>4. CASE n # 0
    <3>1. n - 1 \in 0..MaxRevisions /\ n - 1 < n
      BY <1>2, <2>2, <2>4
    <3>2. step[n - 1] = {r}
      BY <2>1, <3>1
    <3> QED BY <1>4, <2>1, <2>2, <2>4, <3>2
  <2> QED BY <2>3, <2>4
<1> QED BY <1>1, <1>2, <1>5

\* A revision that the device did not lose hold of is its own live parent.
LEMMA HeldLive ==
  ASSUME ProducerInv, HeldInv, NEW r \in accepted \cup data.queue, r \notin estranged
  PROVE  LiveParents(r) = {r}
<1>1. r \in 1..Len(revs) /\ Len(revs) \in Nat /\ data.queue \cap RowsOf(data) = {}
  BY DEF ProducerInv, Graph, Books, KeptApart
<1>2. RowsSettled(data, accepted, estranged)
  BY DEF HeldInv, Holds
<1>3. QuarantinedParents(r) = {r}
  <2>1. CASE r \notin RowsOf(data)
    <3>1. {w \in data.rows : w.rev = r} = {}
      BY <2>1 DEF RowsOf
    <3> QED BY <3>1 DEF QuarantinedParents
  <2>2. CASE r \in RowsOf(data)
    <3>1. r \in accepted
      BY <1>1, <2>2
    <3>2. \A w \in data.rows : w.rev = r => ~w.known /\ w.rev \notin Stashed(data)
      BY <1>2, <3>1 DEF RowsSettled
    <3>3. {w \in data.rows : w.rev = r} # {}
      BY <2>2 DEF RowsOf
    <3> QED BY <3>2, <3>3 DEF QuarantinedParents
  <2> QED BY <2>1, <2>2
<1> QED BY <1>1, <1>3, LiveParentsStay

\* What a commit leaves: Committed, but for the failure of its path.
LEMMA CommitWrites ==
  ASSUME ProducerInv, commitLocalChange, NEW parents, parents = LiveParents(data.heads[job.file])
  PROVE  /\ data'.rows = data.rows /\ data'.stash = data.stash
         /\ data'.maps = IF job.kind = "delete" THEN WithoutFile(data.maps, job.file)
                         ELSE WithMapping(data.maps, job.file, job.path, job.content)
         /\ data'.heads = [data.heads EXCEPT ![job.file] = IF job.kind = "delete" THEN 0 ELSE Len(revs) + 1]
         /\ IF job.kind = "delete" /\ parents = {} THEN data'.queue = data.queue /\ revs' = revs
            ELSE data'.queue = data.queue \cup {Len(revs) + 1} /\ revs' = Append(revs, QueuedRevision(parents))
         /\ (data' = data /\ bak' = bak) \/ Save(data')
         /\ job # None /\ job' = None /\ UNCHANGED <<accepted, forgotten, estranged>>
<1> DEFINE e == Committed(parents).data
<1>1. /\ job # None /\ job' = None /\ UNCHANGED <<accepted, forgotten, estranged>>
      /\ revs' = (IF Committed(parents).queued THEN Append(revs, QueuedRevision(parents)) ELSE revs)
      /\ Succeeded(job.task, e)
  <2>1. Committed(parents).rev = QueuedRevision(parents)
    BY DEF Committed
  <2> QED BY <2>1 DEF commitLocalChange
<1>2. Committed(parents).queued <=> ~(job.kind = "delete" /\ parents = {})
  BY DEF Committed
<1>3. /\ IsData(e) /\ e.rows = data.rows /\ e.stash = data.stash
      /\ e.maps = (IF job.kind = "delete" THEN WithoutFile(data.maps, job.file)
                   ELSE WithMapping(data.maps, job.file, job.path, job.content))
      /\ e.heads = [data.heads EXCEPT ![job.file] = IF job.kind = "delete" THEN 0 ELSE Len(revs) + 1]
      /\ e.queue = IF Committed(parents).queued THEN data.queue \cup {Len(revs) + 1} ELSE data.queue
  BY <1>1, CommittedData
<1> HIDE DEF e
<1>4. (data' = data /\ bak' = bak) \/ Save(data')
  BY <1>1 DEF Succeeded, Save
<1>5. data' = e \/ data' = [e EXCEPT !.failed = @ \ {job.task.path}]
  BY <1>1 DEF Succeeded, Save
<1>6. /\ data'.rows = e.rows /\ data'.stash = e.stash /\ data'.maps = e.maps
      /\ data'.heads = e.heads /\ data'.queue = e.queue
  BY <1>3, <1>5 DEF IsData
<1> QED BY <1>1, <1>2, <1>3, <1>4, <1>6

LEMMA HeldCommit ==
  ASSUME ProducerInv, HeldInv, commitLocalChange
  PROVE  HeldInv'
<1> DEFINE f == job.file
           new == Len(revs) + 1
           parents == LiveParents(data.heads[f])
           queued == ~(job.kind = "delete" /\ parents = {})
           x == QueuedRevision(parents)
           mapping == [file |-> f, path |-> job.path, hash |-> job.content]
<1>1. /\ data'.rows = data.rows /\ data'.stash = data.stash
      /\ data'.maps = (IF job.kind = "delete" THEN WithoutFile(data.maps, f)
                       ELSE WithMapping(data.maps, f, job.path, job.content))
      /\ data'.heads = [data.heads EXCEPT ![f] = IF job.kind = "delete" THEN 0 ELSE new]
      /\ IF queued THEN data'.queue = data.queue \cup {new} /\ revs' = Append(revs, x)
         ELSE data'.queue = data.queue /\ revs' = revs
      /\ (data' = data /\ bak' = bak) \/ Save(data')
      /\ job # None /\ job' = None /\ UNCHANGED <<accepted, forgotten, estranged>>
  BY CommitWrites
<1>2. /\ x.file = f /\ x.kind \in {job.kind, "create"}
      /\ job.kind # "create" => x.parents = parents
      /\ job.kind = "delete" => (queued => x.kind = "delete")
  BY DEF QueuedRevision
<1>3. /\ Graph(revs, accepted, forgotten, files) /\ Books(data, revs, accepted, forgotten, files)
      /\ KeptApart(data, revs) /\ data.heads \in [File -> 0..MaxRevisions]
      /\ Len(revs) \in Nat /\ accepted \cup data.queue \subseteq 1..Len(revs)
      /\ Tracked(data, accepted, forgotten) \subseteq 1..Len(revs)
      /\ \A r \in 1..Len(revs) : revs[r].file \in 1..files /\ revs[r].file \in File /\ revs[r].file # files + 1
  <2>1. /\ Graph(revs, accepted, forgotten, files) /\ Books(data, revs, accepted, forgotten, files)
        /\ KeptApart(data, revs) /\ data.heads \in [File -> 0..MaxRevisions]
    BY DEF ProducerInv, Books, TracksHeads
  <2>2. /\ files \in 0..Len(revs) /\ Len(revs) \in Nat /\ Len(revs) <= MaxRevisions /\ MaxRevisions \in Nat
        /\ accepted \cup data.queue \subseteq 1..Len(revs)
        /\ Tracked(data, accepted, forgotten) \subseteq 1..Len(revs)
    BY <2>1, ProducerAssumption DEF Graph, KeptApart, Tracked
  <2>3. ASSUME NEW r \in 1..Len(revs)
        PROVE  revs[r].file \in 1..files /\ revs[r].file \in File /\ revs[r].file # files + 1
    <3>1. revs[r].file \in 1..files
      BY <2>1 DEF Graph
    <3> QED BY <2>2, <3>1 DEF File
  <2> QED BY <2>1, <2>2, <2>3
<1>4. f \in File
  BY <1>1, <1>3, ProducerAssumption DEF ProducerInv, JobFits, Graph, File
<1> HIDE DEF parents, x, queued
<1>5. /\ \A r \in 1..Len(revs) : revs'[r] = revs[r]
      /\ queued => revs'[new] = x
  <2>1. CASE queued
    <3>1. Append(revs, x)[new] = x /\ \A r \in 1..Len(revs) : Append(revs, x)[r] = revs[r]
      BY <1>3, Appended DEF Graph
    <3> QED BY <1>1, <2>1, <3>1
  <2>2. CASE ~queued
    BY <1>1, <2>2
  <2> QED BY <2>1, <2>2
<1>6. /\ Tracked(data, accepted, forgotten) \subseteq Tracked(data', accepted, forgotten)
      /\ queued => new \in Tracked(data', accepted, forgotten)
  BY <1>1 DEF Tracked, RowsOf
<1>7. /\ HeadsNewest(data, revs, accepted, forgotten, estranged)
      /\ RowsSettled(data, accepted, estranged) /\ BackupHolds
      /\ job.kind = "create" => f = files + 1
      /\ job.kind # "delete" => \A m \in data.maps : m.path = job.path => m.file = f
  BY <1>1 DEF HeldInv, Holds, OwnChange
<1>8. ASSUME NEW r \in accepted \cup data.queue, Newest(r, data', revs', accepted, forgotten), r \notin estranged
      PROVE  /\ revs[r].file # f
             /\ data.heads[revs[r].file] = r /\ \E m \in data.maps : m.file = revs[r].file
  <2>1. r \in 1..Len(revs) /\ revs'[r] = revs[r]
    BY <1>3, <1>5
  <2>2. Newest(r, data, revs, accepted, forgotten)
    BY <1>3, <1>5, <1>6, <1>8, <2>1 DEF Newest
  <2>3. data.heads[revs[r].file] = r /\ \E m \in data.maps : m.file = revs[r].file
    BY <1>7, <1>8, <2>2 DEF HeadsNewest
  <2>4. ASSUME revs[r].file = f PROVE FALSE
    <3>1. job.kind # "create"
      BY <1>3, <1>7, <2>1, <2>4
    <3>2. parents = {r}
      BY <1>8, <2>3, <2>4, HeldLive DEF parents
    <3>3. queued /\ r \in x.parents
      BY <1>2, <3>1, <3>2 DEF queued
    <3> QED BY <1>5, <1>6, <1>8, <3>3 DEF Newest
  <2> QED BY <2>3, <2>4
<1>9. HeadsNewest(data', revs', accepted, forgotten, estranged)
  <2>1. ASSUME NEW r \in accepted \cup data.queue, Newest(r, data', revs', accepted, forgotten), r \notin estranged
        PROVE  data'.heads[revs'[r].file] = r /\ \E m \in data'.maps : m.file = revs'[r].file
    <3>1. r \in 1..Len(revs) /\ revs'[r] = revs[r] /\ revs[r].file # f /\ revs[r].file \in File
          /\ data.heads[revs[r].file] = r
      BY <1>3, <1>5, <1>8, <2>1
    <3>2. data'.heads[revs[r].file] = r
      BY <1>1, <1>3, <3>1
    <3>3. PICK m \in data.maps : m.file = revs[r].file
      BY <1>8, <2>1
    <3>4. m \in data'.maps
      BY <1>1, <1>7, <3>1, <3>3 DEF WithMapping, WithoutFile
    <3> QED BY <3>1, <3>2, <3>3, <3>4
  <2>2. ASSUME queued, Newest(new, data', revs', accepted, forgotten)
        PROVE  data'.heads[revs'[new].file] = new /\ \E m \in data'.maps : m.file = revs'[new].file
    <3>1. job.kind # "delete" /\ revs'[new].file = f
      BY <1>2, <1>5, <2>2 DEF Newest
    <3>2. data'.heads[f] = new
      BY <1>1, <1>3, <1>4, <3>1
    <3>3. mapping \in data'.maps /\ mapping.file = f
      BY <1>1, <3>1 DEF WithMapping
    <3> QED BY <3>1, <3>2, <3>3
  <2>3. ASSUME NEW r \in accepted \cup data'.queue
        PROVE  r \in accepted \cup data.queue \/ (r = new /\ queued)
    BY <1>1
  <2> QED BY <2>1, <2>2, <2>3 DEF HeadsNewest
<1>10. RowsSettled(data', accepted, estranged)
  BY <1>1, <1>7 DEF RowsSettled, Stashed
<1>11. BackupHolds'
  <2>1. CASE data' = data /\ bak' = bak
    <3> SUFFICES ASSUME bak.ok PROVE BackupHolds'
      BY <2>1 DEF BackupHolds
    <3>1. Books(bak.data, revs, accepted, forgotten, files)
      BY DEF ProducerInv
    <3> DEFINE lost == LostWithData
    <3>2. Holds(bak.data, revs, accepted, forgotten, lost) /\ data.queue \cap RowsOf(bak.data) \subseteq estranged
      BY <1>7 DEF BackupHolds
    <3>3. LostWithData' = lost
      BY <1>1, <2>1 DEF LostWithData
    <3> HIDE DEF lost
    <3>4. Holds(bak.data, revs', accepted, forgotten, lost)
      BY <1>3, <1>5, <3>1, <3>2, HoldsGrow
    <3> QED BY <1>1, <2>1, <3>2, <3>3, <3>4 DEF BackupHolds
  <2>2. CASE Save(data')
    <3>1. data'.queue \cap RowsOf(data) \subseteq estranged
      <4>1. new \notin RowsOf(data)
        BY <1>3 DEF KeptApart
      <4> QED BY <1>1, <1>3, <4>1 DEF KeptApart
    <3> QED BY <1>1, <1>5, <2>2, <3>1, BackupHeld
  <2> QED BY <1>1, <2>1, <2>2
<1>12. OwnChange'
  <2>1. None' = None
    BY DEF None
  <2> QED BY <1>1, <2>1 DEF OwnChange
<1> QED BY <1>1, <1>9, <1>10, <1>11, <1>12 DEF HeldInv, Holds

LEMMA HeldInit == Init => HeldInv
<1> SUFFICES ASSUME Init PROVE HeldInv
  OBVIOUS
<1>1. /\ data = EmptyData /\ bak = NoBackup /\ job = None
      /\ \A r \in accepted : revs[r].kind = "peer"
  BY DEF Init
<1>2. data.queue = {} /\ data.rows = {} /\ ~bak.ok
  BY <1>1 DEF EmptyData, NoBackup
<1> QED BY <1>1, <1>2 DEF HeldInv, Holds, HeadsNewest, Newest, RowsSettled, BackupHolds, OwnChange

LEMMA HeldNext == ProducerInv /\ HealsInv /\ HeldInv /\ [Next]_vars => HeldInv'
<1> SUFFICES ASSUME ProducerInv, HealsInv, HeldInv, [Next]_vars PROVE HeldInv'
  OBVIOUS
<1>1. CASE \/ \E p \in Paths, c \in Contents : CreateFile(p, c) \/ ModifyFile(p, c)
           \/ \E p \in Paths : DeleteFile(p)
           \/ \E p, q \in Notes : RenameFile(p, q)
           \/ DeleteFolder
           \/ \E p \in Paths : SettleModify(p) \/ retryFailedCommit(p)
           \/ \E p \in Configs : ConfigPollTick(p)
           \/ TakeFolderDelete \/ initialized \/ ConfirmHeldDeletes \/ Stop
           \/ \E r \in Revision : LosePayload(r)
           \/ CommitFails \/ initializeFails
  BY <1>1, HeldStill
<1>2. CASE (\E t \in scan : TakeScan(t)) \/ TakeTask
  <2>1. \E t : Take(t)
    BY <1>2 DEF TakeScan, TakeTask
  <2> QED BY <2>1, HeldTakes
<1>3. CASE commitLocalChange
  BY <1>3, HeldCommit
<1>4. CASE \/ LoadClean
           \/ \E r \in Revision : LoadBadEnvelope(r)
           \/ \E outbox \in BOOLEAN : LoadBackup(outbox) \/ LoadSalvage(outbox)
  BY <1>4, HeldLoads
<1>5. CASE \E listed \in BOOLEAN : initialize(listed)
  BY <1>5, HeldInitialize
<1>6. CASE \E r \in Revision : Accept(r) \/ Refuse(r)
  BY <1>6, HeldAccept, HeldRefuse
<1>7. CASE \E w \in data.rows : retrySend(w) \/ discardSend(w)
  BY <1>7, HeldPanel
<1>8. CASE UNCHANGED vars
  <2>1. UNCHANGED graph /\ UNCHANGED <<data, bak, job>>
    BY <1>8 DEF vars, stored
  <2>2. OwnChange'
    BY <2>1, OwnStays DEF graph
  <2> QED BY <2>1, <2>2, HeldFrame
<1> QED BY <1>1, <1>2, <1>3, <1>4, <1>5, <1>6, <1>7, <1>8 DEF Next

-----------------------------------------------------------------------------
(* While the user has not touched a thing.                                 *)

\* Each revision is a new file, and its path still has a file on the disk fs.
OneEach(rs, fs) ==
    /\ \A r \in 1..Len(rs) : rs[r].kind \in {"create", "peer"} /\ rs[r].parents = {} /\ fs[rs[r].path] # Absent
    /\ \A r, s \in 1..Len(rs) : rs[r].file = rs[s].file => r = s

\* A copy maps what it queues, at the path of its one revision and as it is on the
\* disk, and no two revisions that were sent or are queued share a path.
Apart(d, rs, held, fs) ==
    /\ \A r \in d.queue : \E m \in d.maps : m.file = rs[r].file
    /\ \A m \in d.maps : /\ fs[m.path] # Absent /\ m.hash = fs[m.path]
                         /\ \A r \in 1..Len(rs) : rs[r].file = m.file => rs[r].path = m.path
    /\ \A r, s \in held \cup d.queue : rs[r].path = rs[s].path => r = s

BackupApart == bak.ok => Apart(bak.data, revs, accepted, disk) /\ bak.data.maps \subseteq data.maps

\* Only the scan and the poller look, and what they find is new.
NewTasks ==
    /\ \A t \in scan : t.kind = "create" /\ t.by = "scan" /\ t.path \notin proc.blocked
    /\ \A i \in 1..Len(tasks) : tasks[i].kind = "modify" /\ tasks[i].by = "poll"
NewChange ==
    job # None => /\ job.kind = "create" /\ job.task.by \in {"scan", "poll"}
                  /\ proc.pc \in {"scanning", "ready"} /\ ~Mapped(job.path) /\ job.path \notin proc.blocked
                  /\ job.content = disk[job.path] /\ disk[job.path] # Absent

\* What the scan or the poller may commit is at no path of a revision.
Covered ==
    proc.pc \in {"scanning", "ready"} =>
      \A r \in accepted \cup data.queue : Mapped(revs[r].path) \/ revs[r].path \in proc.blocked

Untouched ==
    /\ OneEach(revs, disk) /\ Apart(data, revs, accepted, disk) /\ BackupApart
    /\ pending = {} /\ NewTasks /\ NewChange /\ Covered

IdentityInv == HeldInv /\ edits \in Nat /\ (edits = 0 => Untouched)

LEMMA ApartMoves ==
  ASSUME NEW rs, NEW fs, NEW d, NEW held, Apart(d, rs, held, fs), NEW e, NEW held2,
         e.maps = d.maps, e.queue \subseteq d.queue, held2 \cup e.queue \subseteq held \cup d.queue
  PROVE  Apart(e, rs, held2, fs)
BY DEF Apart

\* What reads or writes none of the copies.
LEMMA UntouchedStill ==
  ASSUME Untouched, UNCHANGED <<disk, revs, accepted, data, bak>>, pending' = {},
         NewTasks', NewChange', Covered'
  PROVE  Untouched'
BY DEF Untouched, BackupApart

\* A write that moves no mapping and queues nothing.
LEMMA UntouchedStore ==
  ASSUME Untouched, UNCHANGED <<disk, revs, scan, tasks, pending, job, proc>>,
         data'.maps = data.maps, data'.queue \subseteq data.queue,
         accepted' \cup data'.queue \subseteq accepted \cup data.queue, BackupApart'
  PROVE  Untouched'
<1>1. Apart(data', revs, accepted', disk)
  BY ApartMoves DEF Untouched
<1>2. NewTasks' /\ NewChange' /\ Covered'
  <2>1. None' = None
    BY DEF None
  <2> QED BY <2>1 DEF Untouched, NewTasks, NewChange, Covered, Mapped, MappingAt
<1> QED BY <1>1, <1>2 DEF Untouched

LEMMA UntouchedSaved ==
  ASSUME Untouched, UNCHANGED <<disk, revs>>, Save(data'), data.maps \subseteq data'.maps,
         accepted' \subseteq accepted \cup data.queue
  PROVE  BackupApart'
<1>1. bak' = NoBackup \/ bak' = [ok |-> TRUE, data |-> data]
  BY DEF Save
<1>2. CASE bak' = NoBackup
  BY <1>2 DEF NoBackup, BackupApart
<1>3. CASE bak' = [ok |-> TRUE, data |-> data]
  <2>1. Apart(data, revs, accepted', disk)
    BY ApartMoves DEF Untouched
  <2> QED BY <1>3, <2>1 DEF BackupApart
<1> QED BY <1>1, <1>2, <1>3

LEMMA UntouchedQueue ==
  ASSUME ProducerInv, HealsInv, Untouched, NEW r \in Revision, Accept(r) \/ Refuse(r)
  PROVE  Untouched'
<1>1. UNCHANGED <<disk, revs, scan, tasks, pending, job, proc>>
  BY DEF Accept, Refuse, QueueFrame
<1>2. IsData(data) /\ MapsFit(data.maps) /\ OneEach(revs, disk) /\ Apart(data, revs, accepted, disk)
  BY DEF ProducerInv, Books, HealsInv, PathsFit, Untouched
<1>3. CASE Refuse(r)
  <2> DEFINE dead == quarantineLineage(r)
  <2>1. Refused(dead)
    BY <1>3, RefusedData
  <2> HIDE DEF dead
  <2>2. accepted' = accepted /\ Save(data') /\ data'.maps = data.maps /\ data'.queue = data.queue \ dead
    BY <2>1 DEF Refused
  <2>3. BackupApart'
    BY <1>1, <2>2, UntouchedSaved
  <2> QED BY <1>1, <2>2, <2>3, UntouchedStore
<1>4. CASE Accept(r) /\ Save([data EXCEPT !.queue = @ \ {r}])
  <2>1. accepted' = accepted \cup {r} /\ r \in data.queue
    BY <1>4 DEF Accept
  <2>2. Save(data') /\ data'.maps = data.maps /\ data'.queue = data.queue \ {r}
    <3>1. data' = [data EXCEPT !.queue = @ \ {r}] /\ Save(data')
      BY <1>4 DEF Save
    <3> QED BY <1>2, <3>1 DEF IsData
  <2>3. BackupApart'
    BY <1>1, <2>1, <2>2, UntouchedSaved
  <2> QED BY <1>1, <2>1, <2>2, <2>3, UntouchedStore
<1>5. CASE Accept(r) /\ UNCHANGED <<data, bak, torn, payloads>>
  <2>1. accepted' = accepted \cup {r} /\ r \in data.queue
    BY <1>5 DEF Accept
  <2>2. BackupApart'
    <3> SUFFICES ASSUME bak.ok PROVE BackupApart'
      BY <1>5 DEF BackupApart
    <3> DEFINE b == bak.data
    <3>1. Apart(b, revs, accepted, disk) /\ b.maps \subseteq data.maps
      BY DEF Untouched, BackupApart
    <3>2. b.queue \subseteq 1..Len(revs) /\ r \in 1..Len(revs)
      BY DEF ProducerInv, Books, KeptApart, Revision
    <3> HIDE DEF b
    <3>3. PICK m \in data.maps : m.file = revs[r].file /\ m.path = revs[r].path
      BY <1>2, <2>1, <3>2 DEF Apart
    <3>4. ASSUME NEW s \in b.queue, revs[s].path = revs[r].path PROVE s = r
      <4>1. PICK o \in b.maps : o.file = revs[s].file /\ o.path = revs[s].path
        BY <3>1, <3>2 DEF Apart
      <4>2. o = m
        BY <1>2, <3>1, <3>3, <3>4, <4>1 DEF MapsFit
      <4> QED BY <1>2, <3>2, <3>3, <4>1, <4>2 DEF OneEach
    <3>5. \A s \in accepted : revs[s].path = revs[r].path => s = r
      BY <1>2, <2>1 DEF Apart
    <3>6. Apart(b, revs, accepted', disk)
      BY <2>1, <3>1, <3>4, <3>5 DEF Apart
    <3> QED BY <1>1, <1>5, <3>1, <3>6 DEF b, BackupApart
  <2> QED BY <1>1, <1>5, <2>1, <2>2, UntouchedStore
<1> QED BY <1>3, <1>4, <1>5 DEF Accept

\* A task of the scan or the poller finds a new file, or nothing.
LEMMA FoundNew ==
  ASSUME ProducerInv, HealsInv, Untouched, NEW t, t.kind \in {"create", "modify"},
         t.by \in {"scan", "poll"}, NEW j, j = Find(t)
  PROVE  \/ j = None
         \/ /\ j = [kind |-> "create", file |-> files + 1, path |-> t.path, content |-> disk[t.path], task |-> t]
            /\ ~Mapped(t.path) /\ disk[t.path] # Absent
<1>1. j = FindContent(t, t.path)
  BY DEF Find
<1>2. CASE ~Mapped(t.path)
  BY <1>1, <1>2 DEF FindContent, FindCreate, NoChange
<1>3. CASE Mapped(t.path)
  <2>1. MappingOf(t.path) \in data.maps /\ MappingOf(t.path).path = t.path
    BY <1>3, MappingIs DEF HealsInv, PathsFit
  <2>2. MappingOf(t.path).hash = disk[t.path]
    BY <2>1 DEF Untouched, Apart
  <2>3. j = FindModify(t, t.path, FALSE)
    BY <1>1, <1>3 DEF FindContent
  <2> QED BY <2>2, <2>3 DEF FindModify, NoChange
<1> QED BY <1>2, <1>3

\* A tick of the poller meets no file that is gone.
LEMMA UntouchedPoll ==
  ASSUME HealsInv, Untouched, NEW p, ConfigPollTick(p)
  PROVE  Untouched'
<1> DEFINE t == [kind |-> "modify", path |-> p, by |-> "poll"]
<1>1. UNCHANGED <<disk, revs, accepted, data, bak, proc, scan, job, pending>> /\ pending = {}
  BY DEF ConfigPollTick, stored, graph, timers, Untouched
<1>2. tasks' = Append(tasks, t)
  <2>1. ~(disk[p] = Absent /\ Mapped(p))
    BY DEF Untouched, Apart, Mapped, MappingAt
  <2> QED BY <2>1 DEF ConfigPollTick
<1>3. \A i \in 1..Len(tasks') : tasks'[i].kind = "modify" /\ tasks'[i].by = "poll"
  <2>1. tasks \in Seq(Task) /\ \A i \in 1..Len(tasks) : tasks[i].kind = "modify" /\ tasks[i].by = "poll"
    BY DEF HealsInv, PathsFit, Untouched, NewTasks
  <2>2. t.kind = "modify" /\ t.by = "poll"
    OBVIOUS
  <2> HIDE DEF t
  <2>3. ASSUME NEW i \in 1..Len(tasks') PROVE tasks'[i] = t \/ (i \in 1..Len(tasks) /\ tasks'[i] = tasks[i])
    BY <1>2, <2>1
  <2> QED BY <2>1, <2>2, <2>3
<1>4. NewTasks' /\ NewChange' /\ Covered'
  <2>1. None' = None
    BY DEF None
  <2> QED BY <1>1, <1>3, <2>1 DEF Untouched, NewTasks, NewChange, Covered, Mapped, MappingAt
<1> QED BY <1>1, <1>4, UntouchedStill

\* The observer looks at a task of the scan or the poller.
LEMMA UntouchedTake ==
  ASSUME ProducerInv, HealsInv, Untouched, NEW t, Take(t), proc.pc \in {"scanning", "ready"},
         \/ t.kind = "create" /\ t.by = "scan" /\ t.path \notin proc.blocked
         \/ t.kind = "modify" /\ t.by = "poll",
         scan' \subseteq scan, tasks' = tasks \/ (tasks # <<>> /\ tasks' = Tail(tasks))
  PROVE  Untouched'
<1> DEFINE found == Find(t)
           j == IF t.by # "scan" /\ HeldBack(t) THEN NoChange ELSE found
<1>1. UNCHANGED <<disk, revs, accepted, pending>> /\ pending = {}
  BY DEF Take, graph, Untouched
<1>2. \/ found = None
      \/ /\ found = [kind |-> "create", file |-> files + 1, path |-> t.path, content |-> disk[t.path], task |-> t]
         /\ ~Mapped(t.path) /\ disk[t.path] # Absent
  BY FoundNew
<1> HIDE DEF found
<1>3. found # Collision /\ None # Collision
  BY <1>2 DEF Collision, None
<1>4. \/ job' = job /\ Succeeded(t, data)
      \/ job' = found /\ found # None /\ j = found /\ UNCHANGED <<proc, data, bak>>
  BY <1>3 DEF Take, NoChange, found
<1>5. UNCHANGED <<data, bak>> /\ proc'.pc = proc.pc /\ proc'.blocked = proc.blocked
  BY <1>4 DEF Succeeded, HealsInv, Resting
<1>6. NewTasks'
  <2>1. tasks \in Seq(Task)
    BY DEF HealsInv, PathsFit
  <2>2. \A i \in 1..Len(tasks') : \E k \in 1..Len(tasks) : tasks'[i] = tasks[k]
    <3>1. CASE tasks' = tasks
      BY <3>1
    <3>2. CASE tasks # <<>> /\ tasks' = Tail(tasks)
      <4>1. Len(tasks') = Len(tasks) - 1 /\ \A i \in 1..Len(tasks') : tasks'[i] = tasks[i + 1]
        BY <2>1, <3>2
      <4>2. Len(tasks) \in Nat
        BY <2>1
      <4> QED BY <4>1, <4>2
    <3> QED BY <3>1, <3>2
  <2> QED BY <1>5, <2>2 DEF Untouched, NewTasks
<1>7. NewChange'
  <2>1. None' = None
    BY DEF None
  <2>2. CASE job' = job
    BY <1>1, <1>5, <2>1, <2>2 DEF Untouched, NewChange, Mapped, MappingAt
  <2>3. CASE job' = found /\ found # None /\ j = found
    <3>1. /\ found.kind = "create" /\ found.task = t /\ found.path = t.path /\ found.content = disk[t.path]
          /\ ~Mapped(t.path) /\ disk[t.path] # Absent
      BY <1>2, <2>3
    <3>2. t.path \notin proc.blocked
      BY <2>3, <3>1 DEF HeldBack, NoChange
    <3> QED BY <1>1, <1>5, <2>3, <3>1, <3>2 DEF NewChange, Mapped, MappingAt
  <2> QED BY <1>4, <2>2, <2>3
<1>8. Covered'
  BY <1>1, <1>5 DEF Untouched, Covered, Mapped, MappingAt
<1> QED BY <1>1, <1>5, <1>6, <1>7, <1>8, UntouchedStill

LEMMA UntouchedTakes ==
  ASSUME ProducerInv, HealsInv, Untouched, (\E t \in scan : TakeScan(t)) \/ TakeTask
  PROVE  Untouched'
<1>1. CASE \E t \in scan : TakeScan(t)
  <2>1. PICK t \in scan : TakeScan(t)
    BY <1>1
  <2>2. t.kind = "create" /\ t.by = "scan" /\ t.path \notin proc.blocked
    BY <2>1 DEF Untouched, NewTasks
  <2>3. Take(t) /\ proc.pc \in {"scanning", "ready"} /\ scan' \subseteq scan /\ tasks' = tasks
    BY <2>1 DEF TakeScan
  <2> QED BY <2>2, <2>3, UntouchedTake
<1>2. CASE TakeTask
  <2>1. Take(Head(tasks)) /\ proc.pc = "ready" /\ scan' = scan /\ tasks # <<>> /\ tasks' = Tail(tasks)
    BY <1>2 DEF TakeTask
  <2>2. Head(tasks) = tasks[1] /\ 1 \in 1..Len(tasks)
    <3>1. tasks \in Seq(Task)
      BY DEF HealsInv, PathsFit
    <3> QED BY <2>1, <3>1
  <2>3. Head(tasks).kind = "modify" /\ Head(tasks).by = "poll"
    BY <2>2 DEF Untouched, NewTasks
  <2> QED BY <2>1, <2>3, UntouchedTake
<1> QED BY <1>1, <1>2

\* A failed commit is that of the scan or the poller: it is found again.
LEMMA UntouchedRest ==
  ASSUME HealsInv, Untouched, NEW r,
         \/ CommitFails \/ initializeFails \/ initialized \/ Stop \/ LosePayload(r) \/ UNCHANGED vars
  PROVE  Untouched'
<1>1. UNCHANGED <<disk, revs, accepted>> /\ pending = {} /\ None' = None
  BY DEF CommitFails, initializeFails, initialized, Stop, LosePayload, vars, graph, stored, Untouched, None
<1>2. CASE CommitFails
  <2>1. job # None /\ job.task.by \in {"scan", "poll"}
    BY <1>2 DEF CommitFails, Untouched, NewChange
  <2>2. UNCHANGED <<data, bak, pending, proc, scan, tasks>> /\ job' = None
    BY <1>2, <2>1 DEF CommitFails, timers
  <2>3. NewTasks' /\ NewChange' /\ Covered'
    BY <1>1, <2>2 DEF Untouched, NewTasks, NewChange, Covered, Mapped, MappingAt
  <2> QED BY <1>1, <2>2, <2>3, UntouchedStill
<1>3. CASE initializeFails
  <2>1. \A i \in 1..Len(tasks) : tasks[i].by = "poll"
    BY DEF Untouched, NewTasks
  <2>2. UNCHANGED <<data, bak, pending, proc, scan, job>> /\ tasks' = <<>>
    BY <1>1, <1>3, <2>1 DEF initializeFails
  <2>3. NewTasks' /\ NewChange' /\ Covered'
    BY <1>1, <2>2 DEF Untouched, NewTasks, NewChange, Covered, Mapped, MappingAt
  <2> QED BY <1>1, <2>2, <2>3, UntouchedStill
<1>4. CASE initialized
  <2>1. UNCHANGED <<data, bak, pending, scan, tasks, job>> /\ proc.pc = "scanning" /\ proc'.blocked = proc.blocked /\ proc'.pc = "ready"
    BY <1>4 DEF initialized, stored, timers, HealsInv, Resting
  <2>2. NewTasks' /\ NewChange' /\ Covered'
    BY <1>1, <2>1 DEF Untouched, NewTasks, NewChange, Covered, Mapped, MappingAt
  <2> QED BY <1>1, <2>1, <2>2, UntouchedStill
<1>5. CASE Stop
  <2>1. UNCHANGED <<data, bak>> /\ pending' = {} /\ scan' = {} /\ tasks' = <<>> /\ job' = None /\ proc'.pc = "down"
    BY <1>5 DEF Stop, stored, NewProcess
  <2>2. NewTasks' /\ NewChange' /\ Covered'
    BY <1>1, <2>1 DEF NewTasks, NewChange, Covered
  <2> QED BY <1>1, <2>1, <2>2, UntouchedStill
<1>6. CASE LosePayload(r) \/ UNCHANGED vars
  <2>1. UNCHANGED <<data, bak, pending, proc, scan, tasks, job>>
    BY <1>6 DEF LosePayload, timers, vars, stored
  <2>2. NewTasks' /\ NewChange' /\ Covered'
    BY <1>1, <2>1 DEF Untouched, NewTasks, NewChange, Covered, Mapped, MappingAt
  <2> QED BY <1>1, <2>1, <2>2, UntouchedStill
<1> QED BY <1>2, <1>3, <1>4, <1>5, <1>6

\* A commit makes the one new file of its path, which no revision was at.
LEMMA UntouchedCommit ==
  ASSUME ProducerInv, HealsInv, HeldInv, Untouched, commitLocalChange
  PROVE  Untouched'
<1> DEFINE f == files + 1
           new == Len(revs) + 1
           parents == LiveParents(data.heads[f])
           x == QueuedRevision(parents)
           mapping == [file |-> f, path |-> job.path, hash |-> job.content]
<1>1. /\ job # None /\ job.kind = "create" /\ job.file = f /\ job.task.by \in {"scan", "poll"}
      /\ proc.pc \in {"scanning", "ready"} /\ ~Mapped(job.path) /\ job.path \notin proc.blocked
      /\ job.content = disk[job.path] /\ disk[job.path] # Absent
  BY DEF commitLocalChange, HeldInv, OwnChange, Untouched, NewChange
<1>2. /\ data'.maps = WithMapping(data.maps, f, job.path, job.content)
      /\ data'.queue = data.queue \cup {new} /\ revs' = Append(revs, x)
      /\ (data' = data /\ bak' = bak) \/ Save(data')
      /\ job' = None /\ accepted' = accepted
  BY <1>1, CommitWrites
<1>3. UNCHANGED <<disk, scan, tasks, pending>> /\ proc'.pc = proc.pc /\ proc'.blocked = proc.blocked
  BY DEF commitLocalChange, Succeeded, HealsInv, Resting
<1>4. x.file = f /\ x.path = job.path /\ x.kind = "create" /\ x.parents = {}
  BY <1>1 DEF QueuedRevision
<1> HIDE DEF parents, x
<1>5. /\ mapping.file = f /\ mapping.path = job.path /\ mapping.hash = disk[job.path]
      /\ \A m \in data.maps : m.file # f /\ m.path # job.path
  BY <1>1, FilesApart DEF Mapped, MappingAt
<1>6. data'.maps = data.maps \cup {mapping}
  BY <1>2, <1>5 DEF WithMapping
<1> HIDE DEF mapping
<1>7. /\ OneEach(revs, disk) /\ Apart(data, revs, accepted, disk) /\ BackupApart /\ Covered /\ NewTasks
  BY DEF Untouched
<1>8. /\ accepted \cup data.queue \subseteq 1..Len(revs) /\ Len(revs) \in Nat
      /\ \A r \in 1..Len(revs) : revs[r].file # f
  <2>1. Len(revs) \in Nat
    BY Appended DEF ProducerInv, Graph
  <2>2. files \in Nat /\ accepted \cup data.queue \subseteq 1..Len(revs)
        /\ \A r \in 1..Len(revs) : revs[r].file \in 1..files
    <3>1. Graph(revs, accepted, forgotten, files) /\ KeptApart(data, revs)
      BY DEF ProducerInv, Books
    <3>2. accepted \subseteq 1..Len(revs) /\ files \in 0..Len(revs)
          /\ \A r \in 1..Len(revs) : revs[r].file \in 1..files
      BY <3>1 DEF Graph
    <3>3. data.queue \subseteq 1..Len(revs)
      BY <3>1 DEF KeptApart
    <3>4. files \in Nat
      BY <2>1, <3>2
    <3> QED BY <3>2, <3>3, <3>4
  <2> QED BY <2>1, <2>2
<1>9. /\ revs'[new] = x /\ Len(revs') = new
      /\ \A r \in 1..Len(revs) : revs'[r] = revs[r]
  BY <1>2, Appended DEF ProducerInv, Graph
<1>10. \A r \in 1..Len(revs') : r \in 1..Len(revs) \/ r = new
  BY <1>8, <1>9
<1> HIDE DEF new
<1>11. OneEach(revs', disk)
  BY <1>1, <1>4, <1>7, <1>8, <1>9, <1>10 DEF OneEach
<1>12. \A r \in accepted \cup data.queue : revs[r].path # job.path
  BY <1>1, <1>7 DEF Covered
<1>13. Apart(data', revs', accepted, disk)
  <2>1. \A r \in data'.queue : \E m \in data'.maps : m.file = revs'[r].file
    BY <1>2, <1>4, <1>5, <1>6, <1>7, <1>8, <1>9 DEF Apart
  <2>2. ASSUME NEW m \in data'.maps
        PROVE  /\ disk[m.path] # Absent /\ m.hash = disk[m.path]
               /\ \A r \in 1..Len(revs') : revs'[r].file = m.file => revs'[r].path = m.path
    <3>1. CASE m \in data.maps
      BY <1>4, <1>5, <1>7, <1>8, <1>9, <1>10, <3>1 DEF Apart
    <3>2. CASE m = mapping
      BY <1>1, <1>4, <1>5, <1>8, <1>9, <1>10, <3>2
    <3> QED BY <1>6, <3>1, <3>2
  <2>3. \A r, s \in accepted \cup data'.queue : revs'[r].path = revs'[s].path => r = s
    BY <1>2, <1>4, <1>7, <1>8, <1>9, <1>12 DEF Apart
  <2> QED BY <2>1, <2>2, <2>3 DEF Apart
<1>14. BackupApart'
  <2>1. data' # data
    BY <1>2, <1>8 DEF new
  <2>2. bak' = NoBackup \/ bak' = [ok |-> TRUE, data |-> data]
    BY <1>2, <2>1 DEF Save
  <2>3. CASE bak' = NoBackup
    BY <2>3 DEF NoBackup, BackupApart
  <2>4. CASE bak' = [ok |-> TRUE, data |-> data]
    <3>1. Apart(data, revs', accepted, disk)
      BY <1>4, <1>5, <1>7, <1>8, <1>9, <1>10 DEF Apart
    <3> QED BY <1>2, <1>3, <1>6, <2>4, <3>1 DEF BackupApart
  <2> QED BY <2>2, <2>3, <2>4
<1>15. NewTasks' /\ NewChange'
  <2>1. None' = None
    BY DEF None
  <2> QED BY <1>2, <1>3, <1>7, <2>1 DEF NewTasks, NewChange
<1>16. Covered'
  <2>1. ASSUME NEW r \in accepted \cup data.queue
        PROVE  (\E m \in data'.maps : m.path = revs'[r].path) \/ revs'[r].path \in proc'.blocked
    <3>1. revs'[r] = revs[r]
      BY <1>8, <1>9
    <3>2. Mapped(revs[r].path) \/ revs[r].path \in proc.blocked
      BY <1>1, <1>7 DEF Covered
    <3> QED BY <1>3, <1>6, <3>1, <3>2 DEF Mapped, MappingAt
  <2>2. \E m \in data'.maps : m.path = revs'[new].path
    BY <1>4, <1>5, <1>6, <1>9
  <2> QED BY <1>2, <2>1, <2>2 DEF Covered, Mapped, MappingAt
<1>17. pending' = {}
  BY <1>3 DEF Untouched
<1> QED BY <1>2, <1>3, <1>11, <1>13, <1>14, <1>15, <1>16, <1>17 DEF Untouched

\* A load takes a copy as it was, without what lost its bytes.
LEMMA UntouchedLoads ==
  ASSUME ProducerInv, HealsInv, Untouched, NEW r, NEW outbox,
         LoadClean \/ LoadBadEnvelope(r) \/ LoadBackup(outbox) \/ LoadSalvage(outbox)
  PROVE  Untouched'
<1>1. /\ UNCHANGED <<disk, revs, accepted, pending>> /\ proc'.pc = "loaded"
      /\ scan' = {} /\ tasks' = <<>> /\ job' = None
  <2>1. /\ UNCHANGED <<disk, revs, accepted, scan, tasks, job, timers>>
        /\ Start /\ \E recovery : Loaded(recovery)
    BY DEF LoadClean, LoadBadEnvelope, LoadBackup, LoadSalvage, Load
  <2> QED BY <2>1 DEF timers, Start, Loaded, NewProcess, HealsInv, Resting
<1>2. NewTasks' /\ NewChange' /\ Covered' /\ pending' = {}
  <2>1. None' = None
    BY DEF None
  <2> QED BY <1>1, <2>1 DEF Untouched, NewTasks, NewChange, Covered
<1>3. /\ IsData(data) /\ OneEach(revs, disk) /\ Apart(data, revs, accepted, disk) /\ BackupApart
      /\ bak.ok => IsData(bak.data)
  BY DEF ProducerInv, Books, Untouched
<1>4. ASSUME NEW d, IsData(d), data' = reconcilePayloads(d)
      PROVE  data'.maps = d.maps /\ data'.queue \subseteq d.queue
  BY <1>4 DEF IsData, reconcilePayloads
<1>5. ASSUME NEW d, IsData(d), data' = reconcilePayloads(d),
             Apart(d, revs, accepted, disk), BackupApart'
      PROVE  Untouched'
  <2>1. Apart(data', revs, accepted, disk)
    BY <1>4, <1>5, ApartMoves
  <2> QED BY <1>1, <1>2, <1>3, <1>5, <2>1 DEF Untouched
<1>6. CASE LoadClean
  <2>1. /\ data' = reconcilePayloads(data)
        /\ bak' = bak \/ bak' = NoBackup \/ bak' = [ok |-> TRUE, data |-> data]
    BY <1>6 DEF LoadClean, Load, Save
  <2>2. data'.maps = data.maps
    BY <1>3, <1>4, <2>1
  <2>3. BackupApart'
    BY <1>1, <1>3, <2>1, <2>2 DEF BackupApart, NoBackup
  <2> QED BY <1>3, <1>5, <2>1, <2>3
<1>7. CASE LoadBadEnvelope(r)
  <2>1. PICK q, w : /\ q \subseteq data.queue /\ bak' = bak
                    /\ data' = reconcilePayloads([data EXCEPT !.queue = q, !.rows = w])
    <3>1. data' = reconcilePayloads([data EXCEPT !.queue = data.queue \ {r},
                                                 !.rows = data.rows \cup {[rev |-> r, known |-> FALSE]}])
      BY <1>7 DEF LoadBadEnvelope, Load
    <3> QED BY <1>7, <3>1 DEF LoadBadEnvelope
  <2> DEFINE e == [data EXCEPT !.queue = q, !.rows = w]
  <2>2. IsData(e) /\ e.maps = data.maps /\ e.queue = q
    <3>1. e = [data EXCEPT !.queue = q, !.rows = w]
      OBVIOUS
    <3> HIDE DEF e
    <3> QED BY <1>3, <3>1 DEF IsData
  <2>3. data' = reconcilePayloads(e)
    BY <2>1
  <2> HIDE DEF e
  <2>4. Apart(e, revs, accepted, disk)
    BY <1>3, <2>1, <2>2, ApartMoves
  <2>5. data'.maps = data.maps
    BY <1>4, <2>2, <2>3
  <2>6. BackupApart'
    BY <1>1, <1>3, <2>1, <2>5 DEF BackupApart
  <2> QED BY <1>5, <2>2, <2>3, <2>4, <2>6
<1>8. CASE LoadBackup(outbox)
  <2>1. bak.ok /\ (bak' = bak \/ bak' = NoBackup) /\ data' = reconcilePayloads(bak.data)
    BY <1>8 DEF LoadBackup, Load
  <2>2. IsData(bak.data) /\ Apart(bak.data, revs, accepted, disk)
    BY <1>3, <2>1 DEF BackupApart
  <2>3. data'.maps = bak.data.maps
    BY <1>4, <2>1, <2>2
  <2>4. BackupApart'
    BY <1>1, <2>1, <2>2, <2>3 DEF BackupApart, NoBackup
  <2> QED BY <1>5, <2>1, <2>2, <2>4
<1>9. CASE LoadSalvage(outbox)
  <2>1. BackupApart'
    BY <1>9 DEF LoadSalvage, NoBackup, BackupApart
  <2>2. CASE outbox
    <3>1. data' = reconcilePayloads(data)
      BY <1>9, <2>2 DEF LoadSalvage, Load
    <3> QED BY <1>3, <1>5, <2>1, <3>1
  <2>3. CASE ~outbox
    <3> DEFINE e == [EmptyData EXCEPT !.maps = data.maps, !.heads = data.heads]
    <3>1. data' = reconcilePayloads(e)
      BY <1>9, <2>3 DEF LoadSalvage, Load
    <3>2. IsData(e) /\ e.maps = data.maps /\ e.queue = {}
      <4>1. IsData(EmptyData) /\ EmptyData.queue = {}
        BY DEF IsData, EmptyData
      <4>2. e = [EmptyData EXCEPT !.maps = data.maps, !.heads = data.heads]
        OBVIOUS
      <4> HIDE DEF e
      <4> QED BY <4>1, <4>2 DEF IsData
    <3> HIDE DEF e
    <3>3. Apart(e, revs, accepted, disk)
      BY <1>3, <3>2, ApartMoves
    <3> QED BY <1>5, <2>1, <3>1, <3>2, <3>3
  <2> QED BY <2>2, <2>3
<1> QED BY <1>6, <1>7, <1>8, <1>9

\* A scan of a mapping that is as the disk only finds files that are not mapped.
LEMMA ScanNew ==
  ASSUME NEW maps, MapsFit(maps), \A m \in maps : disk[m.path] # Absent /\ m.hash = disk[m.path],
         NEW blocked, NEW listed,
         NEW t \in reconcileVaultState(maps, blocked, listed, FALSE).tasks
  PROVE  t.kind = "create" /\ t.by = "scan" /\ t.path \notin blocked
<1> DEFINE seen == OnDisk(maps, blocked, listed)
           u == Unmatched(maps, blocked, listed)
<1>1. \A p : p \in seen <=> /\ p \in Paths /\ disk[p] # Absent /\ Listed(p, listed)
                            /\ p \notin blocked \/ \E m \in maps : m.path = p
  BY DEF OnDisk
<1>2. /\ \A p \in u.files : p \in seen /\ \A m \in maps : Listed(m.path, listed) => m.path # p
      /\ \A m \in u.maps : m \in maps /\ Listed(m.path, listed) /\ m.path \notin seen
  BY DEF Unmatched
<1>3. \/ \E m \in maps : m.path \in seen /\ m.hash # disk[m.path]
      \/ \E pair \in Moves(u) : t = [kind |-> "rename", path |-> pair[1].path, to |-> pair[2], by |-> "scan"]
      \/ \E p \in u.files : t = [kind |-> "create", path |-> p, by |-> "scan"]
      \/ \E m \in Missing(u) : t = [kind |-> "delete", path |-> m.path, by |-> "scan"]
  BY DEF reconcileVaultState
<1> HIDE DEF seen, u
<1>4. u.maps = {}
  BY <1>1, <1>2 DEF MapsFit
<1>5. Moves(u) = {} /\ Missing(u) = {}
  BY <1>4 DEF Moves, Missing
<1>6. PICK p \in u.files : t = [kind |-> "create", path |-> p, by |-> "scan"]
  BY <1>3, <1>5
<1>7. p \notin blocked
  BY <1>1, <1>2, <1>6
<1> QED BY <1>6, <1>7

\* A start maps each file of the server, or holds its path back, before it scans.
LEMMA UntouchedInitialize ==
  ASSUME ProducerInv, HealsInv, Untouched, NEW listed, initialize(listed)
  PROVE  Untouched'
<1> DEFINE blocked == bootstrapIdentities.blocked
           adopted == {r \in Candidates : Adoptable(r)}
           mapping(r) == [file |-> revs[r].file, path |-> revs[r].path, hash |-> revs[r].content]
           new == {mapping(r) : r \in adopted}
<1>1. /\ UNCHANGED <<disk, revs, accepted, tasks, pending, job>> /\ job = None
      /\ data' = bootstrapIdentities.data /\ ((data' = data /\ bak' = bak) \/ Save(data'))
      /\ scan' = reconcileVaultState(data'.maps, blocked, listed, FALSE).tasks
      /\ proc'.pc = "scanning" /\ proc'.blocked = blocked
  BY DEF initialize, graph, timers, Save, HealsInv, Resting
<1>2. MapsFit(data'.maps)
  BY <1>1, BootstrapFits DEF HealsInv
<1>3. data'.queue = data.queue /\ data'.maps = data.maps \cup new
  BY <1>1, BootstrapKeeps
<1>4. /\ OneEach(revs, disk) /\ Apart(data, revs, accepted, disk) /\ BackupApart /\ NewTasks
      /\ accepted \subseteq 1..Len(revs) /\ data.queue \subseteq 1..Len(revs)
  BY DEF Untouched, ProducerInv, Graph, Books, KeptApart
<1>5. \A r \in adopted : r \in 1..Len(revs) /\ disk[revs[r].path] = revs[r].content
  <2>1. \A r \in adopted : r \in accepted /\ disk[revs[r].path] = revs[r].content
    BY DEF Candidates, Leaves, Adoptable, Matching
  <2> QED BY <1>4, <2>1
<1>6. blocked = {revs[r].path : r \in Candidates} \ {revs[r].path : r \in adopted}
  BY DEF bootstrapIdentities
<1> HIDE DEF blocked, adopted
<1>7. ASSUME NEW m \in data'.maps
      PROVE  /\ disk[m.path] # Absent /\ m.hash = disk[m.path]
             /\ \A r \in 1..Len(revs) : revs[r].file = m.file => revs[r].path = m.path
  <2>1. CASE m \in data.maps
    BY <1>4, <2>1 DEF Apart
  <2>2. CASE m \in new
    <3>1. PICK r \in adopted : m = mapping(r)
      BY <2>2
    <3> QED BY <1>4, <1>5, <3>1 DEF OneEach
  <2> QED BY <1>3, <2>1, <2>2
<1>8. Apart(data', revs, accepted, disk)
  BY <1>3, <1>4, <1>7 DEF Apart
<1>9. BackupApart'
  <2>1. CASE data' = data /\ bak' = bak
    BY <1>1, <1>4, <2>1 DEF BackupApart
  <2>2. CASE Save(data')
    BY <1>1, <1>3, <2>2, UntouchedSaved
  <2> QED BY <1>1, <2>1, <2>2
<1>10. NewTasks'
  <2>1. \A t \in scan' : t.kind = "create" /\ t.by = "scan" /\ t.path \notin blocked
    <3> DEFINE maps == data'.maps
    <3>1. MapsFit(maps) /\ \A m \in maps : disk[m.path] # Absent /\ m.hash = disk[m.path]
      BY <1>2, <1>7
    <3> HIDE DEF maps
    <3>2. \A t \in reconcileVaultState(maps, blocked, listed, FALSE).tasks :
            t.kind = "create" /\ t.by = "scan" /\ t.path \notin blocked
      BY <3>1, ScanNew
    <3> QED BY <1>1, <3>2 DEF maps
  <2> QED BY <1>1, <1>4, <2>1 DEF NewTasks
<1>11. ASSUME NEW r \in accepted \cup data.queue
       PROVE  (\E m \in data'.maps : m.path = revs[r].path) \/ revs[r].path \in blocked
  <2>1. r \in 1..Len(revs)
    BY <1>4
  <2>2. CASE \E m \in data.maps : m.file = revs[r].file \/ m.path = revs[r].path
    <3>1. PICK m \in data.maps : m.file = revs[r].file \/ m.path = revs[r].path
      BY <2>2
    <3>2. m.path = revs[r].path
      BY <1>4, <2>1, <3>1 DEF Apart
    <3> QED BY <1>3, <3>2
  <2>3. CASE \A m \in data.maps : m.file # revs[r].file /\ m.path # revs[r].path
    <3>1. r \in accepted
      BY <1>4, <2>3 DEF Apart
    <3>2. r \in Leaves(revs[r].file)
      BY <1>4, <3>1 DEF Leaves, OneEach
    <3>3. r \in Candidates
      BY <1>4, <2>1, <2>3, <3>1, <3>2 DEF Candidates, OneEach
    <3>4. CASE revs[r].path \in {revs[s].path : s \in adopted}
      <4>1. PICK s \in adopted : revs[s].path = revs[r].path
        BY <3>4
      <4>2. mapping(s) \in data'.maps /\ mapping(s).path = revs[r].path
        BY <1>3, <4>1
      <4> QED BY <4>2
    <3>5. CASE revs[r].path \notin {revs[s].path : s \in adopted}
      BY <1>6, <3>3, <3>5
    <3> QED BY <3>4, <3>5
  <2> QED BY <2>2, <2>3
<1>12. Covered'
  BY <1>1, <1>3, <1>11 DEF Covered, Mapped, MappingAt
<1>13. NewChange' /\ pending' = {}
  <2>1. None' = None
    BY DEF None
  <2> QED BY <1>1, <2>1 DEF Untouched, NewChange
<1> QED BY <1>1, <1>4, <1>8, <1>9, <1>10, <1>12, <1>13 DEF Untouched

LEMMA UntouchedInit == Init => Untouched
<1> SUFFICES ASSUME Init PROVE Untouched
  OBVIOUS
<1>1. /\ data = EmptyData /\ bak = NoBackup /\ job = None /\ pending = {} /\ scan = {} /\ tasks = <<>>
      /\ proc = NewProcess
  BY DEF Init
<1>2. data.queue = {} /\ data.maps = {} /\ ~bak.ok /\ proc.pc = "down"
  BY <1>1 DEF EmptyData, NoBackup, NewProcess
<1>3. OneEach(revs, disk) /\ \A r, s \in accepted : r = s
  <2>1. CASE revs = <<>> /\ accepted = {}
    BY <2>1 DEF OneEach
  <2>2. CASE \E p \in Paths, c \in Contents :
               /\ {q \in Paths : disk[q] # Absent} = {p}
               /\ revs = <<[file |-> 1, parents |-> {}, kind |-> "peer", path |-> p, content |-> c]>>
               /\ accepted = {1}
    <3>1. PICK p \in Paths, c \in Contents :
               /\ {q \in Paths : disk[q] # Absent} = {p}
               /\ revs = <<[file |-> 1, parents |-> {}, kind |-> "peer", path |-> p, content |-> c]>>
      BY <2>2
    <3>2. /\ Len(revs) = 1 /\ disk[p] # Absent
          /\ revs[1] = [file |-> 1, parents |-> {}, kind |-> "peer", path |-> p, content |-> c]
      BY <3>1
    <3> QED BY <2>2, <3>2 DEF OneEach
  <2> QED BY <2>1, <2>2 DEF Init
<1>4. Apart(data, revs, accepted, disk)
  BY <1>2, <1>3 DEF Apart
<1> QED BY <1>1, <1>2, <1>3, <1>4 DEF Untouched, BackupApart, NewTasks, NewChange, Covered

LEMMA IdentityNext == ProducerInv /\ HealsInv /\ IdentityInv /\ [Next]_vars => IdentityInv'
<1> SUFFICES ASSUME ProducerInv, HealsInv, IdentityInv, [Next]_vars PROVE IdentityInv'
  OBVIOUS
<1>1. HeldInv /\ HeldInv' /\ edits \in Nat
  BY HeldNext DEF IdentityInv
<1>2. CASE \/ \E p \in Paths, c \in Contents : CreateFile(p, c) \/ ModifyFile(p, c)
           \/ \E p \in Paths : DeleteFile(p) \/ retryFailedCommit(p)
           \/ \E p, q \in Notes : RenameFile(p, q)
           \/ DeleteFolder \/ ConfirmHeldDeletes
           \/ \E w \in data.rows : retrySend(w) \/ discardSend(w)
  <2>1. edits' = edits + 1
    BY <1>2 DEF CreateFile, ModifyFile, DeleteFile, retryFailedCommit, RenameFile, DeleteFolder,
                ConfirmHeldDeletes, retrySend, discardSend, Edited, Choice
  <2> QED BY <1>1, <2>1 DEF IdentityInv
<1>3. ASSUME edits' = edits, Untouched => Untouched' PROVE IdentityInv'
  BY <1>1, <1>3 DEF IdentityInv
<1>4. CASE (\E p \in Paths : SettleModify(p)) \/ TakeFolderDelete
  <2>1. edits' = edits
    BY <1>4 DEF SettleModify, TakeFolderDelete, budget
  <2>2. ~Untouched
    <3>1. CASE \E p \in Paths : SettleModify(p)
      BY <3>1 DEF SettleModify, Untouched
    <3>2. CASE TakeFolderDelete
      <4>1. tasks # <<>> /\ Head(tasks).kind = "folder"
        BY <3>2 DEF TakeFolderDelete
      <4>2. Head(tasks) = tasks[1] /\ 1 \in 1..Len(tasks)
        BY <4>1 DEF HealsInv, PathsFit
      <4> QED BY <4>1, <4>2 DEF Untouched, NewTasks
    <3> QED BY <1>4, <3>1, <3>2
  <2> QED BY <1>3, <2>1, <2>2
<1>5. CASE \E p \in Configs : ConfigPollTick(p)
  <2>1. edits' = edits
    BY <1>5 DEF ConfigPollTick, budget
  <2> QED BY <1>3, <1>5, <2>1, UntouchedPoll
<1>6. CASE (\E t \in scan : TakeScan(t)) \/ TakeTask
  <2>1. edits' = edits
    BY <1>6 DEF TakeScan, TakeTask, Take, budget
  <2> QED BY <1>3, <1>6, <2>1, UntouchedTakes
<1>7. CASE commitLocalChange
  <2>1. edits' = edits
    BY <1>7 DEF commitLocalChange, budget
  <2> QED BY <1>1, <1>3, <1>7, <2>1, UntouchedCommit
<1>8. CASE \/ LoadClean
           \/ \E r \in Revision : LoadBadEnvelope(r)
           \/ \E outbox \in BOOLEAN : LoadBackup(outbox) \/ LoadSalvage(outbox)
  <2>1. edits' = edits
    BY <1>8 DEF LoadClean, LoadBadEnvelope, LoadBackup, LoadSalvage, Load
  <2> QED BY <1>3, <1>8, <2>1, UntouchedLoads
<1>9. CASE \E listed \in BOOLEAN : initialize(listed)
  <2>1. edits' = edits
    BY <1>9 DEF initialize
  <2> QED BY <1>3, <1>9, <2>1, UntouchedInitialize
<1>10. CASE \E r \in Revision : Accept(r) \/ Refuse(r)
  <2>1. edits' = edits
    BY <1>10 DEF Accept, Refuse
  <2> QED BY <1>3, <1>10, <2>1, UntouchedQueue
<1>11. CASE \/ CommitFails \/ initializeFails \/ initialized \/ Stop
            \/ \E r \in Revision : LosePayload(r)
            \/ UNCHANGED vars
  <2>1. edits' = edits
    BY <1>11 DEF CommitFails, initializeFails, initialized, Stop, LosePayload, budget, vars
  <2> QED BY <1>3, <1>11, <2>1, UntouchedRest
<1> QED BY <1>2, <1>4, <1>5, <1>6, <1>7, <1>8, <1>9, <1>10, <1>11 DEF Next

LEMMA IdentityShown == ProducerInv /\ HealsInv /\ IdentityInv => OneIdentity
<1> SUFFICES ASSUME ProducerInv, HealsInv, IdentityInv,
                    NEW r \in Sent, NEW s \in Sent, revs[r].file < revs[s].file,
                    revs[r].path = revs[s].path, Alive(r), Alive(s)
             PROVE  FALSE
  BY DEF OneIdentity
<1>1. r \in accepted \cup data.queue /\ s \in accepted \cup data.queue
  BY DEF Sent
<1>2. revs[r].file # revs[s].file
  <2>1. revs[r].file \in Nat /\ revs[s].file \in Nat
    <3>1. Graph(revs, accepted, forgotten, files) /\ KeptApart(data, revs)
      BY DEF ProducerInv, Books
    <3>2. r \in 1..Len(revs) /\ s \in 1..Len(revs)
      BY <1>1, <3>1 DEF Graph, KeptApart
    <3>3. files \in Nat /\ revs[r].file \in 1..files /\ revs[s].file \in 1..files
      BY <3>1, <3>2 DEF Graph
    <3> QED BY <3>3
  <2> QED BY <2>1
<1>3. CASE edits = 0
  <2>1. r = s
    BY <1>1, <1>3 DEF IdentityInv, Untouched, Apart
  <2> QED BY <1>2, <2>1
<1>4. CASE edits # 0
  <2>1. ASSUME NEW q \in accepted \cup data.queue, Alive(q)
        PROVE  \E m \in data.maps : m.file = revs[q].file /\ m.path = revs[q].path
    <3>1. Newest(q, data, revs, accepted, forgotten) /\ q \notin estranged
      BY <1>4, <2>1 DEF Alive, Newest, Tracked, Sent, Failed, RowsOf
    <3>2. data.heads[revs[q].file] = q /\ \E m \in data.maps : m.file = revs[q].file
      BY <2>1, <3>1 DEF IdentityInv, HeldInv, Holds, HeadsNewest
    <3> QED BY <3>2 DEF ProducerInv, Books, MapsHeads
  <2>2. PICK m \in data.maps : m.file = revs[r].file /\ m.path = revs[r].path
    BY <1>1, <2>1
  <2>3. PICK o \in data.maps : o.file = revs[s].file /\ o.path = revs[s].path
    BY <1>1, <2>1
  <2>4. m = o
    BY <2>2, <2>3 DEF HealsInv, PathsFit, MapsFit
  <2> QED BY <1>2, <2>2, <2>3, <2>4
<1> QED BY <1>3, <1>4

\* No path has two live identities: whatever the observer, the crashes and the loads of
\* data.json do, commitLocalChange and bootstrapIdentities never give a path a second
\* file while the revision of the first one has no other to replace it.
THEOREM IdentityCorrect == Spec => []OneIdentity
<1>1. Init => IdentityInv
  BY HeldInit, UntouchedInit DEF Init, IdentityInv
<1> QED BY <1>1, InitInv, NextInv, HealsInit, HealsNext, IdentityNext, IdentityShown, PTL DEF Spec
=============================================================================
