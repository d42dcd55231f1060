---------------------------- MODULE BackupProofs ----------------------------
(***************************************************************************)
(* Proofs about modules Backup and LogReader, for any revisions, blobs,    *)
(* retention, interval and bounds.                                         *)
(*                                                                         *)
(* A backup is complete because of an order: what its snapshot references  *)
(* is on disk when the blobs are listed, stays there as long as the log    *)
(* references it, and the log is not taken back while a cycle runs.        *)
(* Retention is safe because of who cannot be removed: the newest artifact *)
(* of any moment is in nobody's removal list, so of two processes that     *)
(* prune at once the one that listed later has verified an artifact that   *)
(* the other one spares.                                                   *)
(***************************************************************************)
EXTENDS LogReader, TLAPS

Rev == 1..MaxRevs
Files == UNION {[fs -> Nat] : fs \in SUBSET (Blobs \cup {Db})}

Artifact == [id : Nat, snap : Seq(Rev), from : Nat, manifest : SUBSET Blobs, files : Files]

Resting == [at : {"idle", "due", "published"}]
Snapped == [at : {"snapped"}, id : Nat, snap : Seq(Rev), from : Nat, prev : Nat]
Copying == [at : {"copying"}, id : Nat, snap : Seq(Rev), from : Nat, prev : Nat,
            todo : SUBSET Blobs, files : Files]
Choosing == [at : {"listed"}, kept : SUBSET Nat, removed : SUBSET Nat]
Dropping == [at : {"removing"}, removed : SUBSET Nat]

Cycles == Resting \cup Snapped \cup Copying \cup Choosing \cup Dropping

Typed ==
    /\ log \in Seq(Rev) /\ minted \in 0..MaxRevs
    /\ epoch \in Nat /\ restores \in Nat /\ ids \in Nat
    /\ disk \in [Blobs -> {"absent", "good", "rotten"}]
    /\ put \in {Nothing} \cup [is : {"temp", "stored"}, rev : Rev]
    /\ up \in BOOLEAN
    /\ cycle \in [Procs -> Cycles]
    /\ artifacts \in Seq(Artifact)
    /\ target \in {Nothing} \cup
         [is : {"copied"}, snap : Seq(Rev), from : Nat, manifest : SUBSET Blobs,
          good : SUBSET (Blobs \cup {Db}), bad : SUBSET (Blobs \cup {Db})]

Writes(p) == cycle[p].at \in {"snapped", "copying"}
Prunes(p) == cycle[p].at \in {"listed", "removing"}
Removes(p) == cycle[p].at = "removing"

-----------------------------------------------------------------------------
(* The server's data.                                                      *)

\* A stopped server does nothing, and a restore has the machine to itself.
Alone ==
    /\ ~up => put = Nothing /\ cycle["scheduler"] = Idle
    /\ target # Nothing => ~up /\ cycle["cli"] = Idle /\ epoch < restores
    /\ epoch <= restores

\* Where the blobs of a snapshot are on their way into the artifact, and back.
Whole ==
    /\ LiveWhole /\ ArtifactsComplete
    /\ put.is = "stored" =>
         disk[BlobOf[put.rev]] = "good" \/ BlobOf[put.rev] \in wounded
    /\ \A p \in Procs : Writes(p) => Refs(cycle[p].snap) \subseteq Refs(log)
    /\ \A p \in Procs : cycle[p].at = "copying" =>
         Refs(cycle[p].snap) \ wounded \subseteq cycle[p].todo \cup DOMAIN cycle[p].files
    /\ target # Nothing => Refs(target.snap) \ wounded \subseteq target.manifest

-----------------------------------------------------------------------------
(* Retention.                                                              *)

\* Backup ids are handed out once, and who writes an artifact is in no removal list.
IdsOnce ==
    /\ \A i, j \in DOMAIN artifacts : artifacts[i].id = artifacts[j].id => i = j
    /\ \A i \in DOMAIN artifacts : artifacts[i].id \in 1..ids
    /\ \A p \in Procs : Writes(p) =>
         /\ cycle[p].id \in 1..ids /\ cycle[p].id \notin IdsOf(artifacts)
         /\ \A q \in Procs \ {p} : Writes(q) => cycle[q].id # cycle[p].id
         /\ \A q \in Procs : Prunes(q) => cycle[p].id \notin cycle[q].removed
    /\ \A p \in Procs : Prunes(p) => cycle[p].removed \subseteq 1..ids

\* The newest artifact is in nobody's removal list, and who removes keeps others.
NewestStays ==
    \A p \in Procs :
      /\ Prunes(p) /\ artifacts # <<>> => Newest.id \notin cycle[p].removed
      /\ cycle[p].at = "listed" =>
           cycle[p].kept # {} /\ cycle[p].kept \cap cycle[p].removed = {}

\* A good artifact that none of the processes in ps removes.
Spared(ps) ==
    \E a \in Listed : Good(a) /\ \A p \in ps : Prunes(p) => a.id \notin cycle[p].removed

\* p keeps what q does not remove.
KeepsBeside(p, q) == \E id \in cycle[p].kept : id \notin cycle[q].removed

Retained ==
    /\ \A p, q \in Procs : p # q /\ cycle[p].at = "listed" /\ cycle[q].at = "listed" =>
         KeepsBeside(p, q) \/ KeepsBeside(q, p)
    /\ \A p, q \in Procs : cycle[p].at = "listed" /\ Removes(q) =>
         KeepsBeside(p, q) \/ Spared({p, q})
    /\ \A ps \in SUBSET Procs : ps # {} /\ (\A p \in ps : Removes(p)) => Spared(ps)

ServerInv == Typed /\ Alone /\ Whole /\ IdsOnce /\ NewestStays /\ Retained

-----------------------------------------------------------------------------
(* The device.                                                             *)

Memory == {Nothing} \cup [is : {"log"}, epoch : Nat, log : Seq(Rev)]

\* A log stored under the server's epoch is the server's, and no epoch is ahead of it.
Remembers ==
    /\ hist \in Memory /\ stored \in Memory /\ conn \in BOOLEAN /\ spanning \in BOOLEAN
    /\ ~conn => hist = Nothing
    /\ ~spanning /\ hist # Nothing => hist.epoch = epoch /\ IsPrefix(hist.log, log)
    /\ ~spanning /\ stored # Nothing =>
         stored.epoch <= epoch /\ (stored.epoch = epoch => IsPrefix(stored.log, log))

ReaderInv == ServerInv /\ Remembers

-----------------------------------------------------------------------------
(* Sequences, files and cycles.                                            *)

LEMMA JoinIs ==
  ASSUME NEW S, NEW s \in Seq(S), NEW t \in Seq(S)
  PROVE  /\ s \o t \in Seq(S) /\ Len(s \o t) = Len(s) + Len(t)
         /\ \A j \in 1..(Len(s) + Len(t)) :
              (s \o t)[j] = IF j <= Len(s) THEN s[j] ELSE t[j - Len(s)]
  OBVIOUS

LEMMA RemoveAtIs ==
  ASSUME NEW S, NEW s \in Seq(S), NEW i \in 1..Len(s)
  PROVE  /\ RemoveAt(s, i) \in Seq(S) /\ Len(RemoveAt(s, i)) = Len(s) - 1
         /\ \A j \in 1..(Len(s) - 1) : RemoveAt(s, i)[j] = IF j < i THEN s[j] ELSE s[j + 1]
<1>1. SubSeq(s, 1, i - 1) \in Seq(S) /\ Len(SubSeq(s, 1, i - 1)) = i - 1
      /\ \A j \in 1..(i - 1) : SubSeq(s, 1, i - 1)[j] = s[j]
  OBVIOUS
<1>2. SubSeq(s, i + 1, Len(s)) \in Seq(S) /\ Len(SubSeq(s, i + 1, Len(s))) = Len(s) - i
      /\ \A j \in 1..(Len(s) - i) : SubSeq(s, i + 1, Len(s))[j] = s[i + j]
  OBVIOUS
<1> DEFINE u == SubSeq(s, 1, i - 1)
           v == SubSeq(s, i + 1, Len(s))
<1>3. u \o v \in Seq(S) /\ Len(u \o v) = Len(s) - 1
      /\ \A j \in 1..(Len(s) - 1) : (u \o v)[j] = IF j <= i - 1 THEN u[j] ELSE v[j - (i - 1)]
  <2>1. u \in Seq(S) /\ v \in Seq(S) /\ Len(u) = i - 1 /\ Len(v) = Len(s) - i
    BY <1>1, <1>2
  <2> HIDE DEF u, v
  <2>2. /\ u \o v \in Seq(S) /\ Len(u \o v) = Len(u) + Len(v)
        /\ \A j \in 1..(Len(u) + Len(v)) :
             (u \o v)[j] = IF j <= Len(u) THEN u[j] ELSE v[j - Len(u)]
    BY <2>1, JoinIs, Zenon
  <2>3. Len(u) + Len(v) = Len(s) - 1
    BY <2>1
  <2> QED BY <2>1, <2>2, <2>3, Zenon
<1>4. RemoveAt(s, i) = u \o v
  BY DEF RemoveAt
<1>5. ASSUME NEW j \in 1..(Len(s) - 1) PROVE (u \o v)[j] = IF j < i THEN s[j] ELSE s[j + 1]
  <2>1. CASE j < i
    <3>1. j <= i - 1 /\ j \in 1..(i - 1) /\ u[j] = s[j]
      BY <1>1, <2>1
    <3> QED BY <1>3, <2>1, <3>1
  <2>2. CASE ~(j < i)
    <3>1. j - (i - 1) \in 1..(Len(s) - i) /\ i + (j - (i - 1)) = j + 1
      BY <2>2
    <3>2. v[j - (i - 1)] = s[i + (j - (i - 1))]
      BY <1>2, <3>1
    <3>3. v[j - (i - 1)] = s[j + 1]
      BY <3>1, <3>2, Zenon
    <3>4. (u \o v)[j] = v[j - (i - 1)]
      <4>1. ~(j <= i - 1)
        BY <2>2
      <4> QED BY <1>3, <4>1, Zenon
    <3> QED BY <2>2, <3>3, <3>4, Zenon
  <2> QED BY <2>1, <2>2
<1> HIDE DEF u, v
<1> QED BY <1>3, <1>4, <1>5

LEMMA FilesAre ==
  /\ \A fs \in SUBSET (Blobs \cup {Db}) : \A g \in [fs -> Nat] : g \in Files
  /\ \A g \in Files : DOMAIN g \subseteq Blobs \cup {Db} /\ \A f \in DOMAIN g : g[f] \in Nat
  BY DEF Files

\* What a cycle is follows from where it is.
LEMMA CycleIs ==
  ASSUME cycle \in [Procs -> Cycles], NEW p \in Procs
  PROVE  /\ cycle[p].at \in {"idle", "due", "published"} => cycle[p] \in Resting
         /\ cycle[p].at = "snapped" => cycle[p] \in Snapped
         /\ cycle[p].at = "copying" => cycle[p] \in Copying
         /\ cycle[p].at = "listed" => cycle[p] \in Choosing
         /\ cycle[p].at = "removing" => cycle[p] \in Dropping
         /\ cycle[p].at \in {"idle", "due", "published", "snapped", "copying", "listed", "removing"}
<1>1. cycle[p] \in Cycles
  OBVIOUS
<1>2. /\ \A c \in Resting : c.at \in {"idle", "due", "published"}
      /\ \A c \in Snapped : c.at = "snapped"
      /\ \A c \in Copying : c.at = "copying"
      /\ \A c \in Choosing : c.at = "listed"
      /\ \A c \in Dropping : c.at = "removing"
  BY DEF Resting, Snapped, Copying, Choosing, Dropping
<1> QED BY <1>1, <1>2, Zenon DEF Cycles

LEMMA RestingIs ==
  /\ Idle \in Cycles /\ [at |-> "due"] \in Cycles /\ [at |-> "published"] \in Cycles
  /\ Idle.at = "idle"
  BY DEF Idle, Cycles, Resting

\* A step of one process leaves the other's cycle alone.
LEMMA SetIs ==
  ASSUME cycle \in [Procs -> Cycles], NEW p \in Procs, NEW c, Set(p, c)
  PROVE  /\ cycle'[p] = c /\ \A q \in Procs \ {p} : cycle'[q] = cycle[q]
         /\ c \in Cycles => cycle' \in [Procs -> Cycles]
  BY DEF Set

LEMMA ListedIs ==
  ASSUME artifacts \in Seq(Artifact)
  PROVE  /\ Listed = {artifacts[i] : i \in 1..Len(artifacts)}
         /\ IdsOf(artifacts) = {a.id : a \in Listed}
         /\ Listed \subseteq Artifact
         /\ artifacts # <<>> => Newest \in Listed /\ Newest = artifacts[Len(artifacts)]
  BY DEF Listed, ToSet, IdsOf, Newest, Last

\* What is left of a list when one element is removed.
LEMMA RemovedIs ==
  ASSUME NEW S, NEW s \in Seq(S), NEW i \in 1..Len(s)
  PROVE  /\ ToSet(RemoveAt(s, i)) = {s[j] : j \in 1..Len(s) \ {i}}
         /\ i # Len(s) => RemoveAt(s, i) # <<>> /\ Last(RemoveAt(s, i)) = Last(s)
<1> DEFINE r == RemoveAt(s, i)
<1>1. /\ r \in Seq(S) /\ Len(r) = Len(s) - 1
      /\ \A j \in 1..(Len(s) - 1) : r[j] = IF j < i THEN s[j] ELSE s[j + 1]
  BY RemoveAtIs
<1> HIDE DEF r
<1>2. ToSet(r) = {r[j] : j \in 1..(Len(s) - 1)}
  BY <1>1 DEF ToSet
<1>3. ASSUME NEW j \in 1..(Len(s) - 1) PROVE r[j] \in {s[k] : k \in 1..Len(s) \ {i}}
  <2>1. CASE j < i
    BY <1>1, <2>1
  <2>2. CASE ~(j < i)
    BY <1>1, <2>2
  <2> QED BY <2>1, <2>2
<1>4. ASSUME NEW j \in 1..Len(s), j # i PROVE s[j] \in {r[k] : k \in 1..(Len(s) - 1)}
  <2>1. CASE j < i
    BY <1>1, <2>1
  <2>2. CASE j > i
    <3>1. j - 1 \in 1..(Len(s) - 1) /\ ~(j - 1 < i) /\ (j - 1) + 1 = j
      BY <2>2
    <3>2. r[j - 1] = s[(j - 1) + 1]
      BY <1>1, <3>1, Zenon
    <3> QED BY <3>1, <3>2, Zenon
  <2> QED BY <1>4, <2>1, <2>2
<1>5. ASSUME i # Len(s) PROVE r # <<>> /\ Last(r) = Last(s)
  <2>1. Len(s) - 1 \in 1..(Len(s) - 1) /\ ~(Len(s) - 1 < i) /\ (Len(s) - 1) + 1 = Len(s)
    BY <1>5
  <2>2. r[Len(s) - 1] = s[(Len(s) - 1) + 1]
    BY <1>1, <2>1, Zenon
  <2>3. r # <<>>
    BY <1>1, <2>1
  <2> QED BY <1>1, <2>1, <2>2, <2>3, Zenon DEF Last
<1>6. ToSet(r) = {s[j] : j \in 1..Len(s) \ {i}}
  BY <1>2, <1>3, <1>4
<1> QED BY <1>5, <1>6 DEF r

\* A removal that is cut off empties an artifact its process was to remove.
LEMMA TornIs ==
  ASSUME artifacts \in Seq(Artifact), NEW p \in Procs, NEW arts \in Torn(p)
  PROVE  /\ arts \in Seq(Artifact) /\ Len(arts) = Len(artifacts)
         /\ \A i \in 1..Len(artifacts) :
              /\ arts[i].id = artifacts[i].id /\ arts[i].snap = artifacts[i].snap
              /\ arts[i].manifest = artifacts[i].manifest
              /\ \/ arts[i] = artifacts[i]
                 \/ cycle[p].at = "removing" /\ artifacts[i].id \in cycle[p].removed
<1>1. CASE arts = artifacts
  BY <1>1
<1>2. CASE arts # artifacts
  <2>1. PICK k \in DOMAIN artifacts :
          /\ cycle[p].at = "removing" /\ artifacts[k].id \in cycle[p].removed
          /\ arts = [artifacts EXCEPT ![k].files = NoFiles]
    BY <1>2 DEF Torn
  <2>2. NoFiles \in Files
    <3>1. NoFiles \in [{} -> Nat]
      BY DEF NoFiles
    <3> QED BY <3>1, FilesAre
  <2> DEFINE e == [artifacts[k] EXCEPT !.files = NoFiles]
  <2>3. e \in Artifact /\ e.id = artifacts[k].id /\ e.snap = artifacts[k].snap
        /\ e.manifest = artifacts[k].manifest
    <3>1. artifacts[k] \in Artifact
      OBVIOUS
    <3> QED BY <2>2, <3>1 DEF Artifact
  <2>4. arts = [artifacts EXCEPT ![k] = e]
    BY <2>1
  <2> HIDE DEF e
  <2>5. arts \in Seq(Artifact) /\ Len(arts) = Len(artifacts) /\ arts[k] = e
        /\ \A i \in 1..Len(artifacts) : i # k => arts[i] = artifacts[i]
    BY <2>3, <2>4
  <2> QED BY <2>1, <2>3, <2>5
<1> QED BY <1>1, <1>2

-----------------------------------------------------------------------------
(* Types.                                                                  *)

\* Where the bytes of a linked copy are from.
LEMMA CopyIs ==
  ASSUME Typed, IdsOnce, NEW p \in Procs, cycle[p].at = "copying", NEW b \in Blobs
  PROVE  CopyOf(p, b) \in Nat
<1>1. cycle[p].id \in Nat
  BY CycleIs DEF Typed, Copying
<1>2. CASE \E a \in Listed : a.id = cycle[p].prev /\ Intact(a, b)
  <2>1. PICK a \in Listed : a.id = cycle[p].prev /\ Intact(a, b)
    BY <1>2
  <2>2. ById(cycle[p].prev) \in Listed /\ ById(cycle[p].prev).id = a.id
    BY <2>1 DEF ById
  <2>3. ById(cycle[p].prev) = a
    <3>1. /\ Listed = {artifacts[i] : i \in 1..Len(artifacts)}
          /\ DOMAIN artifacts = 1..Len(artifacts)
      BY ListedIs DEF Typed
    <3>2. PICK i \in DOMAIN artifacts : a = artifacts[i]
      BY <3>1, <2>1
    <3>3. PICK j \in DOMAIN artifacts : ById(cycle[p].prev) = artifacts[j]
      BY <3>1, <2>2
    <3>4. i = j
      BY <2>2, <3>2, <3>3, Zenon DEF IdsOnce
    <3> QED BY <3>2, <3>3, <3>4
  <2>4. a.files \in Files /\ b \in DOMAIN a.files
    <3>1. a \in Artifact
      BY ListedIs DEF Typed
    <3> QED BY <2>1, <3>1 DEF Intact, Artifact
  <2>5. a.files[b] \in Nat
    BY <2>4, FilesAre, Zenon
  <2> QED BY <1>2, <2>3, <2>5, Zenon DEF CopyOf
<1>3. CASE ~\E a \in Listed : a.id = cycle[p].prev /\ Intact(a, b)
  BY <1>1, <1>3, Zenon DEF CopyOf
<1> QED BY <1>2, <1>3

LEMMA TypedInit ==
  ASSUME Init
  PROVE  Typed
<1>1. cycle \in [Procs -> Cycles]
  BY RestingIs DEF Init
<1>2. MaxRevs \in Nat
  BY BackupAssumption
<1>3. log \in Seq(Rev) /\ artifacts \in Seq(Artifact) /\ minted \in 0..MaxRevs
  BY <1>2 DEF Init
<1>4. disk \in [Blobs -> {"absent", "good", "rotten"}]
  BY DEF Init
<1>5. epoch \in Nat /\ restores \in Nat /\ ids \in Nat /\ up \in BOOLEAN
      /\ put = Nothing /\ target = Nothing
  BY DEF Init
<1> QED BY <1>1, <1>3, <1>4, <1>5 DEF Typed

LEMMA TypedPush ==
  ASSUME Typed, Push
  PROVE  Typed'
<1> USE DEF Typed
<1>1. CASE PushPut
  <2>1. minted + 1 \in Rev /\ minted' \in 0..MaxRevs
    BY <1>1, BackupAssumption DEF PushPut, Rev
  <2>2. put' \in {Nothing, [is |-> "stored", rev |-> minted + 1], [is |-> "temp", rev |-> minted + 1]}
    <3>1. BlobOf[minted + 1] \in Blobs
      BY <2>1, BackupAssumption DEF Rev
    <3>2. disk[BlobOf[minted + 1]] \in {"absent", "good", "rotten"}
      BY <3>1
    <3> QED BY <1>1, <3>2 DEF PushPut, ReadsBack
  <2>3. put' \in {Nothing} \cup [is : {"temp", "stored"}, rev : Rev]
    BY <2>1, <2>2
  <2> QED BY <1>1, <2>1, <2>3 DEF PushPut, data, store, budget
<1>2. CASE PutRename
  <2>1. put \in [is : {"temp", "stored"}, rev : Rev]
    BY <1>2 DEF PutRename, Nothing
  <2>2. put' \in [is : {"temp", "stored"}, rev : Rev]
    BY <1>2, <2>1 DEF PutRename
  <2>3. disk' \in [Blobs -> {"absent", "good", "rotten"}]
    BY <1>2 DEF PutRename
  <2> QED BY <1>2, <2>2, <2>3 DEF PutRename, store, budget
<1>3. CASE PushEnd
  <2>1. put.rev \in Rev
    BY <1>3 DEF PushEnd, Nothing
  <2>2. log' \in Seq(Rev)
    BY <1>3, <2>1 DEF PushEnd
  <2> QED BY <1>3, <2>2 DEF PushEnd, store, budget
<1> QED BY <1>1, <1>2, <1>3 DEF Push

LEMMA TypedServer ==
  ASSUME Typed, Server
  PROVE  Typed'
<1> USE DEF Typed
<1>1. CASE Boot
  <2>1. disk' \in [Blobs -> {"absent", "good", "rotten"}]
    BY <1>1 DEF Boot, Sweep
  <2>2. cycle' \in [Procs -> Cycles]
    BY <1>1, RestingIs DEF Boot, StartScheduler
  <2> QED BY <1>1, <2>1, <2>2 DEF Boot, store, budget
<1>2. CASE Halt
  <2>1. artifacts' \in Seq(Artifact)
    BY <1>2, TornIs DEF Halt, Procs
  <2>2. cycle' \in [Procs -> Cycles]
    BY <1>2, RestingIs DEF Halt
  <2> QED BY <1>2, <2>1, <2>2 DEF Halt, data
<1>3. CASE Fire
  <2>1. cycle' \in [Procs -> Cycles]
    BY <1>3, RestingIs DEF Fire
  <2> QED BY <1>3, <2>1 DEF Fire, data, store, budget
<1> QED BY <1>1, <1>2, <1>3 DEF Server

LEMMA TypedCycle ==
  ASSUME Typed, IdsOnce, NEW p \in Procs, Cycle(p)
  PROVE  Typed'
<1> USE DEF Typed
<1>1. CASE Snapshot(p)
  <2> DEFINE c == [at |-> "snapped", id |-> ids + 1, snap |-> log, from |-> epoch,
                   prev |-> IF artifacts = <<>> THEN 0 ELSE Newest.id]
  <2>1. (IF artifacts = <<>> THEN 0 ELSE Newest.id) \in Nat
    BY ListedIs DEF Artifact
  <2>2. c \in Snapped
    BY <2>1 DEF Snapped
  <2>3. Set(p, c)
    BY <1>1 DEF Snapshot
  <2> HIDE DEF c
  <2>4. cycle' \in [Procs -> Cycles]
    BY <2>2, <2>3, SetIs DEF Cycles
  <2>5. ids' \in Nat
    BY <1>1 DEF Snapshot
  <2> QED BY <1>1, <2>4, <2>5 DEF Snapshot, data, store, budget
<1>2. CASE ListBlobs(p)
  <2> DEFINE c == [at |-> "copying", id |-> cycle[p].id, snap |-> cycle[p].snap,
                   from |-> cycle[p].from, prev |-> cycle[p].prev,
                   todo |-> {b \in Blobs : disk[b] # "absent"},
                   files |-> [f \in {Db} |-> cycle[p].id]]
  <2>1. cycle[p] \in Snapped
    BY <1>2, CycleIs DEF ListBlobs
  <2>2. [f \in {Db} |-> cycle[p].id] \in Files
    <3>1. [f \in {Db} |-> cycle[p].id] \in [{Db} -> Nat]
      BY <2>1 DEF Snapped
    <3>2. {Db} \in SUBSET (Blobs \cup {Db})
      OBVIOUS
    <3> QED BY <3>1, <3>2, FilesAre, Zenon
  <2>3. c \in Copying
    BY <2>1, <2>2 DEF Snapped, Copying
  <2>4. Set(p, c)
    BY <1>2 DEF ListBlobs
  <2> HIDE DEF c
  <2>5. cycle' \in [Procs -> Cycles]
    BY <2>3, <2>4, SetIs DEF Cycles
  <2> QED BY <1>2, <2>5 DEF ListBlobs, data, store, budget
<1>3. CASE CopyBlob(p)
  <2>1. cycle[p] \in Copying
    BY <1>3, CycleIs DEF CopyBlob
  <2>2. PICK b \in cycle[p].todo :
          Set(p, [cycle[p] EXCEPT !.todo = @ \ {b},
                                  !.files = IF disk[b] = "rotten" THEN @
                                            ELSE [f \in DOMAIN @ \cup {b} |->
                                                    IF f = b THEN CopyOf(p, b) ELSE @[f]]])
    BY <1>3 DEF CopyBlob
  <2> DEFINE g == IF disk[b] = "rotten" THEN cycle[p].files
                  ELSE [f \in DOMAIN cycle[p].files \cup {b} |->
                          IF f = b THEN CopyOf(p, b) ELSE cycle[p].files[f]]
             c == [cycle[p] EXCEPT !.todo = cycle[p].todo \ {b}, !.files = g]
  <2>3. b \in Blobs /\ cycle[p].files \in Files
    BY <2>1 DEF Copying
  <2>4. g \in Files
    <3>1. CopyOf(p, b) \in Nat
      BY <1>3, <2>3, CopyIs DEF CopyBlob
    <3> DEFINE fs == DOMAIN cycle[p].files \cup {b}
               h == [f \in fs |-> IF f = b THEN CopyOf(p, b) ELSE cycle[p].files[f]]
    <3>2. fs \in SUBSET (Blobs \cup {Db})
      BY <2>3, FilesAre
    <3>3. h \in [fs -> Nat]
      BY <2>3, <3>1, FilesAre
    <3>4. h \in Files
      <4> HIDE DEF h, fs
      <4> QED BY <3>2, <3>3, FilesAre, Zenon
    <3> QED BY <2>3, <3>4
  <2>5. Set(p, c)
    BY <2>1, <2>2 DEF Copying
  <2> HIDE DEF g
  <2>6. c \in Copying
    BY <2>1, <2>4 DEF Copying
  <2> HIDE DEF c
  <2>7. cycle' \in [Procs -> Cycles]
    BY <2>5, <2>6, SetIs DEF Cycles
  <2> QED BY <1>3, <2>7 DEF CopyBlob, data, store, budget
<1>4. CASE CycleFails(p)
  <2>1. cycle' \in [Procs -> Cycles]
    BY <1>4, RestingIs, SetIs DEF CycleFails
  <2> QED BY <1>4, <2>1 DEF CycleFails, data, store
<1>5. CASE Publish(p)
  <2>1. cycle[p] \in Copying
    BY <1>5, CycleIs DEF Publish
  <2> DEFINE e == [id |-> cycle[p].id, snap |-> cycle[p].snap, from |-> cycle[p].from,
                   manifest |-> DOMAIN cycle[p].files \ {Db}, files |-> cycle[p].files]
  <2>2. DOMAIN cycle[p].files \ {Db} \subseteq Blobs
    BY <2>1, FilesAre DEF Copying
  <2>3. e \in Artifact
    BY <2>1, <2>2 DEF Copying, Artifact
  <2>4. artifacts' = Append(artifacts, e)
    BY <1>5 DEF Publish
  <2> HIDE DEF e
  <2>5. artifacts' \in Seq(Artifact)
    BY <2>3, <2>4
  <2>6. cycle' \in [Procs -> Cycles]
    BY <1>5, RestingIs, SetIs DEF Publish
  <2> QED BY <1>5, <2>5, <2>6 DEF Publish, data, budget
<1>6. CASE PruneList(p)
  <2>1. ASSUME NEW n \in Nat, n <= Len(artifacts), n > 0
        PROVE  [at |-> "listed", kept |-> IdsOf(SubSeq(artifacts, n + 1, Len(artifacts))),
                removed |-> IdsOf(SubSeq(artifacts, 1, n))] \in Cycles
    <3>1. SubSeq(artifacts, n + 1, Len(artifacts)) \in Seq(Artifact)
          /\ SubSeq(artifacts, 1, n) \in Seq(Artifact)
      BY <2>1
    <3>2. ASSUME NEW s \in Seq(Artifact) PROVE IdsOf(s) \subseteq Nat
      <4>1. \A i \in DOMAIN s : s[i] \in Artifact
        OBVIOUS
      <4>2. \A a \in Artifact : a.id \in Nat
        BY DEF Artifact
      <4> QED BY <4>1, <4>2 DEF IdsOf
    <3> QED BY <3>1, <3>2 DEF Cycles, Choosing
  <2>2. Keep \in Nat /\ Len(artifacts) \in Nat /\ Keep > 0
    BY BackupAssumption
  <2> DEFINE n == Len(artifacts) - Keep
  <2>3. \E c \in Cycles : Set(p, c)
    <3>1. CASE n <= 0
      BY <1>6, <3>1, RestingIs DEF PruneList
    <3>2. CASE ~(n <= 0)
      <4>1. n \in Nat /\ n <= Len(artifacts) /\ n > 0
        BY <2>2, <3>2
      <4> QED BY <1>6, <2>1, <3>2, <4>1, Zenon DEF PruneList
    <3> QED BY <3>1, <3>2
  <2>4. cycle' \in [Procs -> Cycles]
    BY <2>3, SetIs
  <2> QED BY <1>6, <2>4 DEF PruneList, data, store, budget
<1>7. CASE PruneVerify(p)
  <2>1. cycle[p] \in Choosing
    BY <1>7, CycleIs DEF PruneVerify
  <2>2. [at |-> "removing", removed |-> cycle[p].removed] \in Cycles
    BY <2>1 DEF Choosing, Dropping, Cycles
  <2>3. cycle' \in [Procs -> Cycles]
    BY <1>7, <2>2, RestingIs, SetIs DEF PruneVerify
  <2> QED BY <1>7, <2>3 DEF PruneVerify, data, store, budget
<1>8. CASE PruneRemove(p)
  <2>1. cycle[p] \in Dropping
    BY <1>8, CycleIs DEF PruneRemove
  <2>2. PICK id \in cycle[p].removed :
          /\ \/ \E i \in DOMAIN artifacts :
                  artifacts[i].id = id /\ artifacts' = RemoveAt(artifacts, i)
             \/ id \notin IdsOf(artifacts) /\ UNCHANGED artifacts
          /\ Set(p, IF cycle[p].removed = {id} THEN Idle
                    ELSE [cycle[p] EXCEPT !.removed = @ \ {id}])
    BY <1>8 DEF PruneRemove
  <2>3. artifacts' \in Seq(Artifact)
    <3>1. \A i \in DOMAIN artifacts : RemoveAt(artifacts, i) \in Seq(Artifact)
      <4>1. DOMAIN artifacts = 1..Len(artifacts)
        OBVIOUS
      <4> QED BY <4>1, RemoveAtIs, Zenon
    <3> QED BY <2>2, <3>1, Zenon
  <2>4. [cycle[p] EXCEPT !.removed = @ \ {id}] \in Cycles
    BY <2>1 DEF Dropping, Cycles
  <2>5. cycle' \in [Procs -> Cycles]
    BY <2>2, <2>4, RestingIs, SetIs
  <2> QED BY <1>8, <2>3, <2>5 DEF PruneRemove, data, budget
<1> QED BY <1>1, <1>2, <1>3, <1>4, <1>5, <1>6, <1>7, <1>8 DEF Cycle

LEMMA TypedOther ==
  ASSUME Typed, Tick \/ Operator \/ BackupCli \/ CliDies \/ Decay \/ Rot
  PROVE  Typed'
<1> USE DEF Typed
<1>1. CASE Tick
  BY <1>1 DEF Tick, data, store, budget
<1>2. CASE RestoreCopy
  <2>1. PICK a \in Listed :
          target' = [is |-> "copied", snap |-> a.snap, from |-> a.from, manifest |-> a.manifest,
                     good |-> {f \in DOMAIN a.files : Intact(a, f)},
                     bad |-> {f \in DOMAIN a.files : ~Intact(a, f)}]
    BY <1>2 DEF RestoreCopy
  <2>2. a \in Artifact
    BY ListedIs
  <2>3. DOMAIN a.files \subseteq Blobs \cup {Db}
    BY <2>2, FilesAre DEF Artifact
  <2>4. target' \in [is : {"copied"}, snap : Seq(Rev), from : Nat, manifest : SUBSET Blobs,
                     good : SUBSET (Blobs \cup {Db}), bad : SUBSET (Blobs \cup {Db})]
    BY <2>1, <2>2, <2>3 DEF Artifact
  <2>5. restores' \in Nat
    BY <1>2 DEF RestoreCopy
  <2> QED BY <1>2, <2>4, <2>5 DEF RestoreCopy, data, store
<1>3. CASE RestoreServe
  <2>1. log' \in Seq(Rev)
    BY <1>3 DEF RestoreServe
  <2>2. disk' \in [Blobs -> {"absent", "good", "rotten"}]
    BY <1>3 DEF RestoreServe
  <2> QED BY <1>3, <2>1, <2>2 DEF RestoreServe, store, budget
<1>4. CASE RestoreAbandon
  BY <1>4 DEF RestoreAbandon, data, store
<1>5. CASE BackupCli
  <2>1. cycle' \in [Procs -> Cycles]
    BY <1>5, RestingIs, SetIs DEF BackupCli, Procs
  <2> QED BY <1>5, <2>1 DEF BackupCli, data, store, budget
<1>6. CASE CliDies
  <2>1. artifacts' \in Seq(Artifact)
    BY <1>6, TornIs DEF CliDies, Procs
  <2>2. cycle' \in [Procs -> Cycles]
    BY <1>6, RestingIs, SetIs DEF CliDies, Procs
  <2> QED BY <1>6, <2>1, <2>2 DEF CliDies, data
<1>7. CASE Decay
  BY <1>7 DEF Decay, data
<1>8. CASE Rot
  <2>1. disk' \in [Blobs -> {"absent", "good", "rotten"}]
    BY <1>8 DEF Rot
  <2> QED BY <1>8, <2>1 DEF Rot, store
<1> QED BY <1>1, <1>2, <1>3, <1>4, <1>5, <1>6, <1>7, <1>8 DEF Operator

LEMMA TypedStep ==
  ASSUME Typed, IdsOnce, [Next]_vars
  PROVE  Typed'
<1>1. CASE UNCHANGED vars
  BY <1>1 DEF Typed, vars, data, store, budget
<1> QED BY <1>1, TypedPush, TypedServer, TypedCycle, TypedOther DEF Next

-----------------------------------------------------------------------------
(* Who is at work.                                                         *)

\* A process in the middle of a cycle is alone with the data it backs up.
LEMMA Busy ==
  ASSUME Typed, Alone, NEW p \in Procs, cycle[p].at # "idle"
  PROVE  target = Nothing /\ (p = "scheduler" => up)
<1>1. cycle[p] # Idle
  BY DEF Idle
<1> QED BY <1>1, Zenon DEF Alone, Procs

LEMMA AloneStep ==
  ASSUME Typed, Alone, [Next]_vars
  PROVE  Alone'
<1> USE DEF Alone
<1>1. CASE Push
  <2>1. Nothing.is = "nothing"
    BY DEF Nothing
  <2>2. up
    BY <1>1, <2>1 DEF Push, PushPut, PutRename, PushEnd
  <2>3. UNCHANGED <<up, cycle, target, epoch, restores>>
    BY <1>1 DEF Push, PushPut, PutRename, PushEnd, data, budget
  <2> QED BY <2>2, <2>3
<1>2. CASE Boot
  BY <1>2 DEF Boot, budget
<1>3. CASE Halt
  <2>1. target = Nothing /\ cycle'["scheduler"] = Idle
    BY <1>3 DEF Halt, Typed, Procs
  <2> QED BY <1>3, <2>1 DEF Halt, data
<1>4. CASE Fire
  BY <1>4 DEF Fire, data, budget
<1>5. CASE Tick
  BY <1>5 DEF Tick, data, budget
<1>6. CASE RestoreCopy
  <2>1. epoch < restores'
    BY <1>6 DEF RestoreCopy, Typed
  <2> QED BY <1>6, <2>1 DEF RestoreCopy, data, Typed
<1>7. CASE RestoreServe
  BY <1>7 DEF RestoreServe, budget, Typed
<1>8. CASE RestoreAbandon
  BY <1>8 DEF RestoreAbandon, data
<1>9. ASSUME NEW p \in Procs, Cycle(p) PROVE Alone'
  <2>1. cycle[p].at # "idle"
    BY <1>9 DEF Cycle, Snapshot, ListBlobs, CopyBlob, CycleFails, Publish, PruneList, PruneVerify,
                PruneRemove
  <2>2. target = Nothing /\ (p = "scheduler" => up)
    BY <2>1, Busy
  <2>3. \E c : Set(p, c)
    BY <1>9, Zenon DEF Cycle, Snapshot, ListBlobs, CopyBlob, CycleFails, Publish, PruneList,
                PruneVerify, PruneRemove
  <2>4. \A q \in Procs \ {p} : cycle'[q] = cycle[q]
    BY <2>3, SetIs DEF Typed
  <2>5. UNCHANGED <<up, put, target, epoch, restores>>
    BY <1>9 DEF Cycle, Snapshot, ListBlobs, CopyBlob, CycleFails, Publish, PruneList, PruneVerify,
                PruneRemove, data, budget
  <2> QED BY <2>2, <2>4, <2>5 DEF Procs
<1>10. CASE BackupCli
  BY <1>10 DEF BackupCli, Set, data, budget
<1>11. CASE CliDies
  <2>1. cycle["cli"].at # "idle"
    BY <1>11 DEF CliDies
  <2>2. target = Nothing
    BY <2>1, Busy DEF Procs
  <2> QED BY <1>11, <2>2 DEF CliDies, Set, data
<1>12. CASE Decay \/ Rot
  BY <1>12 DEF Decay, Rot, data
<1>13. CASE UNCHANGED vars
  BY <1>13 DEF vars, data, budget
<1> QED BY <1>1, <1>2, <1>3, <1>4, <1>5, <1>6, <1>7, <1>8, <1>9, <1>10, <1>11, <1>12, <1>13
        DEF Next, Server, Operator

-----------------------------------------------------------------------------
(* A backup is complete.                                                   *)

LEMMA RefsAre ==
  /\ \A s \in Seq(Rev) : Refs(s) \subseteq Blobs
  /\ \A s \in Seq(Rev), r \in Rev : Refs(Append(s, r)) = Refs(s) \cup {BlobOf[r]}
<1>1. ASSUME NEW s \in Seq(Rev) PROVE Refs(s) \subseteq Blobs
  <2>1. \A i \in DOMAIN s : s[i] \in Rev
    OBVIOUS
  <2>2. \A r \in Rev : BlobOf[r] \in Blobs
    BY BackupAssumption DEF Rev
  <2> QED BY <2>1, <2>2 DEF Refs
<1>2. ASSUME NEW s \in Seq(Rev), NEW r \in Rev
      PROVE  Refs(Append(s, r)) = Refs(s) \cup {BlobOf[r]}
  <2>1. /\ DOMAIN Append(s, r) = 1..(Len(s) + 1) /\ DOMAIN s = 1..Len(s)
        /\ Append(s, r)[Len(s) + 1] = r /\ \A i \in 1..Len(s) : Append(s, r)[i] = s[i]
    OBVIOUS
  <2>2. 1..(Len(s) + 1) = 1..Len(s) \cup {Len(s) + 1}
    OBVIOUS
  <2> QED BY <2>1, <2>2 DEF Refs
<1> QED BY <1>1, <1>2

\* A cycle that stops writing leaves the others' snapshots to be accounted for.
LEMMA WholeElsewhere ==
  ASSUME Typed, Whole, NEW p \in Procs, ~Writes(p)', \A q \in Procs \ {p} : cycle'[q] = cycle[q],
         Refs(log) \subseteq Refs(log)', wounded \subseteq wounded'
  PROVE  /\ \A q \in Procs : Writes(q)' => Refs(cycle'[q].snap) \subseteq Refs(log)'
         /\ \A q \in Procs : cycle'[q].at = "copying" =>
              Refs(cycle'[q].snap) \ wounded' \subseteq cycle'[q].todo \cup DOMAIN cycle'[q].files
  BY DEF Whole, Writes

LEMMA TornComplete ==
  ASSUME Typed, ArtifactsComplete, NEW p \in Procs, artifacts' \in Torn(p), wounded' = wounded
  PROVE  ArtifactsComplete'
<1>1. artifacts' \in Seq(Artifact) /\ Len(artifacts') = Len(artifacts)
      /\ \A i \in 1..Len(artifacts) : artifacts'[i].snap = artifacts[i].snap
                                   /\ artifacts'[i].manifest = artifacts[i].manifest
  BY TornIs DEF Typed
<1>2. Listed = {artifacts[i] : i \in 1..Len(artifacts)}
      /\ Listed' = {artifacts'[i] : i \in 1..Len(artifacts')}
  BY <1>1 DEF Typed, Listed, ToSet
<1>3. ASSUME NEW i \in 1..Len(artifacts')
      PROVE  Refs(artifacts'[i].snap) \ wounded' \subseteq artifacts'[i].manifest
  <2>1. i \in 1..Len(artifacts)
    BY <1>1, <1>3
  <2>2. Refs(artifacts[i].snap) \ wounded \subseteq artifacts[i].manifest
    BY <1>2, <2>1 DEF ArtifactsComplete
  <2> QED BY <1>1, <2>1, <2>2
<1> QED BY <1>2, <1>3 DEF ArtifactsComplete

LEMMA WholePush ==
  ASSUME Typed, Whole, Push
  PROVE  Whole'
<1>1. CASE PushPut
  <2>1. BlobOf[minted + 1] \in Blobs /\ minted + 1 \in Rev
    BY <1>1, BackupAssumption DEF PushPut, Typed, Rev
  <2>2. put'.is = "stored" => disk[BlobOf[put'.rev]] = "good"
    <3>1. disk[BlobOf[minted + 1]] \in {"absent", "good", "rotten"}
      BY <2>1 DEF Typed
    <3> QED BY <1>1, <3>1 DEF PushPut, ReadsBack, Nothing
  <2> QED BY <1>1, <2>2
          DEF PushPut, ReadsBack, Whole, LiveWhole, ArtifactsComplete, Writes, Listed, data, store
<1>2. CASE PutRename
  <2>1. put.rev \in Rev /\ BlobOf[put.rev] \in Blobs
    BY <1>2, BackupAssumption DEF PutRename, Typed, Nothing, Rev
  <2>2. put'.rev = put.rev
    BY <1>2 DEF PutRename
  <2>3. disk'[BlobOf[put.rev]] = "good" /\ \A b \in Blobs : disk[b] = "good" => disk'[b] = "good"
    BY <1>2, <2>1 DEF PutRename, Typed
  <2>4. LiveWhole'
    <3>1. Refs(log) \subseteq Blobs
      BY RefsAre DEF Typed
    <3> QED BY <1>2, <2>3, <3>1 DEF PutRename, Whole, LiveWhole
  <2> QED BY <1>2, <2>2, <2>3, <2>4
          DEF PutRename, Whole, ArtifactsComplete, Writes, Listed, store
<1>3. CASE PushEnd
  <2>1. put.rev \in Rev
    BY <1>3 DEF PushEnd, Typed, Nothing
  <2>2. Refs(log)' = Refs(log) \/ Refs(log)' = Refs(log) \cup {BlobOf[put.rev]}
    BY <1>3, <2>1, RefsAre DEF PushEnd, Typed
  <2>3. LiveWhole'
    BY <1>3, <2>2 DEF PushEnd, Whole, LiveWhole
  <2>4. put'.is # "stored"
    BY <1>3 DEF PushEnd, Nothing
  <2>5. Refs(log) \subseteq Refs(log)'
    BY <2>2
  <2> QED BY <1>3, <2>3, <2>4, <2>5
          DEF PushEnd, Whole, ArtifactsComplete, Writes, Listed, store
<1> QED BY <1>1, <1>2, <1>3 DEF Push

LEMMA WholeServer ==
  ASSUME Typed, Alone, Whole, Server
  PROVE  Whole'
<1>1. "scheduler" \in Procs
  BY DEF Procs
<1>2. CASE Boot
  <2>1. put.is # "stored"
    BY <1>2 DEF Boot, Alone, Nothing
  <2>2. LiveWhole'
    <3>1. Refs(log) \subseteq Blobs
      BY RefsAre DEF Typed
    <3> QED BY <1>2, <3>1 DEF Boot, Sweep, Whole, LiveWhole
  <2>3. ~Writes("scheduler")' /\ \A q \in Procs \ {"scheduler"} : cycle'[q] = cycle[q]
    BY <1>2 DEF Boot, StartScheduler, Typed, Writes, Idle, Procs
  <2>4. UNCHANGED <<log, wounded, put, artifacts, target>>
    BY <1>2 DEF Boot, store
  <2> QED BY <1>1, <2>1, <2>2, <2>3, <2>4, WholeElsewhere DEF Whole, ArtifactsComplete, Listed
<1>3. CASE Halt
  <2>1. put'.is # "stored"
    BY <1>3 DEF Halt, Nothing
  <2>2. ~Writes("scheduler")' /\ \A q \in Procs \ {"scheduler"} : cycle'[q] = cycle[q]
    BY <1>3 DEF Halt, Typed, Writes, Idle, Procs
  <2>3. UNCHANGED <<log, disk, wounded, target>>
    BY <1>3 DEF Halt, data
  <2>4. ArtifactsComplete'
    BY <1>1, <1>3, <2>3, TornComplete DEF Halt, Whole
  <2> QED BY <1>1, <2>1, <2>2, <2>3, <2>4, WholeElsewhere DEF Whole, LiveWhole
<1>4. CASE Fire
  <2>1. ~Writes("scheduler")' \/ cycle' = cycle
    BY <1>4 DEF Fire, Typed, Writes, Procs
  <2>2. \A q \in Procs \ {"scheduler"} : cycle'[q] = cycle[q]
    BY <1>4 DEF Fire, Typed, Procs
  <2>3. UNCHANGED <<log, disk, wounded, put, artifacts, target>>
    BY <1>4 DEF Fire, data, store
  <2>4. UNCHANGED <<LiveWhole, ArtifactsComplete>>
    BY <2>3 DEF LiveWhole, ArtifactsComplete, Listed
  <2>5. CASE cycle' = cycle
    BY <2>3, <2>4, <2>5 DEF Whole, Writes
  <2>6. CASE ~Writes("scheduler")'
    BY <1>1, <2>2, <2>3, <2>4, <2>6, WholeElsewhere DEF Whole
  <2> QED BY <2>1, <2>5, <2>6
<1> QED BY <1>2, <1>3, <1>4 DEF Server

LEMMA WholeCycle ==
  ASSUME Typed, Whole, NEW p \in Procs, Cycle(p)
  PROVE  Whole'
<1>1. UNCHANGED <<log, disk, wounded, put, target>>
  BY DEF Cycle, Snapshot, ListBlobs, CopyBlob, CycleFails, Publish, PruneList, PruneVerify,
         PruneRemove, data
<1>2. PICK c : Set(p, c)
  BY Zenon DEF Cycle, Snapshot, ListBlobs, CopyBlob, CycleFails, Publish, PruneList, PruneVerify,
               PruneRemove
<1>3. cycle'[p] = c /\ \A q \in Procs \ {p} : cycle'[q] = cycle[q]
  BY <1>2, SetIs DEF Typed
<1>4. LiveWhole'
  BY <1>1 DEF Whole, LiveWhole
<1>5. SUFFICES /\ ArtifactsComplete'
               /\ Writes(p)' => Refs(cycle'[p].snap) \subseteq Refs(log)
               /\ cycle'[p].at = "copying" => Refs(cycle'[p].snap) \ wounded
                                       \subseteq cycle'[p].todo \cup DOMAIN cycle'[p].files
  BY <1>1, <1>3, <1>4 DEF Whole, Writes
<1>6. artifacts' = artifacts => ArtifactsComplete'
  BY <1>1 DEF Whole, ArtifactsComplete, Listed
<1>7. CASE Snapshot(p)
  <2>1. cycle'[p].snap = log /\ cycle'[p].at = "snapped"
    BY <1>7 DEF Snapshot, Set, Typed
  <2>2. artifacts' = artifacts
    BY <1>7 DEF Snapshot, store
  <2> QED BY <1>6, <2>1, <2>2 DEF Writes
<1>8. CASE ListBlobs(p)
  <2>1. cycle'[p].snap = cycle[p].snap /\ cycle'[p].todo = {b \in Blobs : disk[b] # "absent"}
    BY <1>8 DEF ListBlobs, Set, Typed
  <2>2. Refs(cycle[p].snap) \subseteq Refs(log)
    BY <1>8 DEF ListBlobs, Whole, Writes
  <2>3. Refs(log) \ wounded \subseteq {b \in Blobs : disk[b] # "absent"}
    BY RefsAre DEF Typed, Whole, LiveWhole
  <2>4. artifacts' = artifacts
    BY <1>8 DEF ListBlobs, store
  <2> QED BY <1>6, <2>1, <2>2, <2>3, <2>4
<1>9. CASE CopyBlob(p)
  <2>1. cycle[p] \in Copying
    BY <1>9, CycleIs DEF CopyBlob, Typed
  <2>2. PICK b \in cycle[p].todo :
          /\ disk[b] # "absent"
          /\ Set(p, [cycle[p] EXCEPT !.todo = @ \ {b},
                                     !.files = IF disk[b] = "rotten" THEN @
                                               ELSE [f \in DOMAIN @ \cup {b} |->
                                                       IF f = b THEN CopyOf(p, b) ELSE @[f]]])
    BY <1>9 DEF CopyBlob
  <2>3. /\ cycle'[p].snap = cycle[p].snap /\ cycle'[p].todo = cycle[p].todo \ {b}
        /\ DOMAIN cycle[p].files \subseteq DOMAIN cycle'[p].files
        /\ disk[b] # "rotten" => b \in DOMAIN cycle'[p].files
    BY <2>1, <2>2 DEF Copying, Set, Typed
  <2>4. Refs(cycle[p].snap) \subseteq Refs(log)
    BY <1>9 DEF CopyBlob, Whole, Writes
  <2>5. disk[b] = "rotten" => b \notin Refs(log) \ wounded
    BY DEF Whole, LiveWhole
  <2>6. Refs(cycle[p].snap) \ wounded \subseteq cycle[p].todo \cup DOMAIN cycle[p].files
    BY <1>9 DEF CopyBlob, Whole
  <2>7. artifacts' = artifacts
    BY <1>9 DEF CopyBlob, store
  <2> QED BY <1>6, <2>3, <2>4, <2>5, <2>6, <2>7
<1>10. CASE Publish(p)
  <2> DEFINE e == [id |-> cycle[p].id, snap |-> cycle[p].snap, from |-> cycle[p].from,
                   manifest |-> DOMAIN cycle[p].files \ {Db}, files |-> cycle[p].files]
  <2>1. artifacts' = Append(artifacts, e)
    BY <1>10 DEF Publish
  <2>2. Refs(e.snap) \ wounded \subseteq e.manifest
    <3>1. cycle[p] \in Copying
      BY <1>10, CycleIs DEF Publish, Typed
    <3>2. Refs(cycle[p].snap) \subseteq Blobs
      BY <3>1, RefsAre DEF Copying
    <3>3. Refs(cycle[p].snap) \ wounded \subseteq DOMAIN cycle[p].files
      BY <1>10 DEF Publish, Whole
    <3> QED BY <3>2, <3>3, BackupAssumption
  <2>3. Listed' = Listed \cup {e}
    <3> HIDE DEF e
    <3>1. DOMAIN Append(artifacts, e) = 1..(Len(artifacts) + 1)
          /\ Append(artifacts, e)[Len(artifacts) + 1] = e
          /\ \A i \in 1..Len(artifacts) : Append(artifacts, e)[i] = artifacts[i]
      BY DEF Typed
    <3>2. 1..(Len(artifacts) + 1) = 1..Len(artifacts) \cup {Len(artifacts) + 1}
          /\ DOMAIN artifacts = 1..Len(artifacts)
      BY DEF Typed
    <3> QED BY <2>1, <3>1, <3>2 DEF Listed, ToSet
  <2>4. ArtifactsComplete'
    <3> HIDE DEF e
    <3> QED BY <1>1, <2>2, <2>3 DEF Whole, ArtifactsComplete
  <2>5. cycle'[p].at = "published"
    BY <1>10 DEF Publish, Set, Typed
  <2> QED BY <2>4, <2>5 DEF Writes
<1>11. CASE PruneRemove(p)
  <2>1. Listed' \subseteq Listed
    <3>1. artifacts' = artifacts \/ \E i \in DOMAIN artifacts : artifacts' = RemoveAt(artifacts, i)
      BY <1>11 DEF PruneRemove
    <3>2. \A i \in DOMAIN artifacts : ToSet(RemoveAt(artifacts, i)) \subseteq ToSet(artifacts)
      <4>1. DOMAIN artifacts = 1..Len(artifacts) /\ ToSet(artifacts) = {artifacts[j] : j \in 1..Len(artifacts)}
        BY DEF Typed, ToSet
      <4>2. \A i \in 1..Len(artifacts) :
              ToSet(RemoveAt(artifacts, i)) = {artifacts[j] : j \in 1..Len(artifacts) \ {i}}
        BY RemovedIs DEF Typed
      <4> QED BY <4>1, <4>2
    <3> QED BY <3>1, <3>2 DEF Listed
  <2>2. ArtifactsComplete'
    BY <1>1, <2>1 DEF Whole, ArtifactsComplete
  <2>3. cycle'[p].at \in {"idle", "removing"}
    <3>1. cycle[p] \in Dropping
      BY <1>11, CycleIs DEF PruneRemove, Typed
    <3> QED BY <1>11, <3>1, RestingIs DEF PruneRemove, Set, Typed, Dropping
  <2> QED BY <2>2, <2>3 DEF Writes
<1>12. CASE CycleFails(p) \/ PruneList(p) \/ PruneVerify(p)
  <2>1. cycle'[p].at \in {"idle", "listed", "removing"}
    BY <1>12, RestingIs DEF CycleFails, PruneList, PruneVerify, Set, Typed
  <2>2. artifacts' = artifacts
    BY <1>12 DEF CycleFails, PruneList, PruneVerify, store
  <2> QED BY <1>6, <2>1, <2>2 DEF Writes
<1> QED BY <1>7, <1>8, <1>9, <1>10, <1>11, <1>12 DEF Cycle

LEMMA WholeOther ==
  ASSUME Typed, Alone, Whole, Tick \/ Operator \/ BackupCli \/ CliDies \/ Decay \/ Rot
  PROVE  Whole'
<1>1. CASE Tick
  BY <1>1 DEF Tick, data, store, Whole, LiveWhole, ArtifactsComplete, Writes, Listed
<1>2. CASE RestoreCopy
  <2>1. Refs(target'.snap) \ wounded \subseteq target'.manifest
    BY <1>2 DEF RestoreCopy, Whole, ArtifactsComplete
  <2> QED BY <1>2, <2>1
          DEF RestoreCopy, data, store, Whole, LiveWhole, ArtifactsComplete, Writes, Listed
<1>3. CASE RestoreServe
  <2>1. put.is # "stored" /\ \A p \in Procs : ~Writes(p)
    <3>1. put = Nothing /\ cycle["scheduler"] = Idle /\ cycle["cli"] = Idle
      BY <1>3 DEF RestoreServe, Alone
    <3> QED BY <3>1, RestingIs DEF Nothing, Writes, Procs
  <2>2. LiveWhole'
    <3>1. target \in [is : {"copied"}, snap : Seq(Rev), from : Nat, manifest : SUBSET Blobs,
                      good : SUBSET (Blobs \cup {Db}), bad : SUBSET (Blobs \cup {Db})]
      BY <1>3 DEF RestoreServe, Typed
    <3>2. Refs(target.snap) \ wounded \subseteq target.good
      BY <1>3 DEF RestoreServe, Restorable, Whole
    <3>3. Refs(target.snap) \subseteq Blobs
      BY <3>1, RefsAre
    <3> QED BY <1>3, <3>2, <3>3 DEF RestoreServe, LiveWhole
  <2>3. UNCHANGED <<put, cycle, artifacts, wounded>> /\ target' = Nothing
    BY <1>3 DEF RestoreServe, store
  <2> QED BY <2>1, <2>2, <2>3 DEF Whole, ArtifactsComplete, Writes, Listed
<1>4. CASE RestoreAbandon
  BY <1>4 DEF RestoreAbandon, data, store, Whole, LiveWhole, ArtifactsComplete, Writes, Listed
<1>5. CASE BackupCli
  <2>1. "cli" \in Procs /\ ~Writes("cli")' /\ \A q \in Procs \ {"cli"} : cycle'[q] = cycle[q]
    BY <1>5 DEF BackupCli, Set, Typed, Writes, Procs
  <2>2. UNCHANGED <<log, disk, wounded, put, artifacts, target>>
    BY <1>5 DEF BackupCli, data, store
  <2>3. UNCHANGED <<LiveWhole, ArtifactsComplete>>
    BY <2>2 DEF LiveWhole, ArtifactsComplete, Listed
  <2> QED BY <2>1, <2>2, <2>3, WholeElsewhere DEF Whole
<1>6. CASE CliDies
  <2>1. "cli" \in Procs /\ ~Writes("cli")' /\ \A q \in Procs \ {"cli"} : cycle'[q] = cycle[q]
    BY <1>6, RestingIs DEF CliDies, Set, Typed, Writes, Procs
  <2>2. UNCHANGED <<log, disk, wounded, put, target>>
    BY <1>6 DEF CliDies, data
  <2>3. ArtifactsComplete'
    BY <1>6, <2>1, <2>2, TornComplete DEF CliDies, Whole
  <2> QED BY <2>1, <2>2, <2>3, WholeElsewhere DEF Whole, LiveWhole
<1>7. CASE Decay
  BY <1>7 DEF Decay, data, Whole, LiveWhole, ArtifactsComplete, Writes, Listed
<1>8. CASE Rot
  <2>1. PICK b \in Blobs : disk[b] = "good" /\ disk' = [disk EXCEPT ![b] = "rotten"]
                           /\ wounded' = wounded \cup {b}
    BY <1>8 DEF Rot
  <2>2. \A x \in Blobs \ {b} : disk'[x] = disk[x]
    BY <2>1 DEF Typed
  <2>3. UNCHANGED <<log, put, artifacts, cycle, target>>
    BY <1>8 DEF Rot, store
  <2>4. LiveWhole'
    BY <2>1, <2>2, <2>3, RefsAre DEF LiveWhole, Whole, Typed
  <2>5. put.is = "stored" => BlobOf[put.rev] \in Blobs
    BY BackupAssumption DEF Typed, Nothing, Rev
  <2>6. put'.is = "stored" => disk'[BlobOf[put'.rev]] = "good" \/ BlobOf[put'.rev] \in wounded'
    BY <2>1, <2>2, <2>3, <2>5 DEF Whole
  <2>7. ArtifactsComplete'
    BY <2>1, <2>3 DEF ArtifactsComplete, Whole, Listed
  <2> QED BY <2>1, <2>3, <2>4, <2>6, <2>7 DEF Whole, Writes
<1> QED BY <1>1, <1>2, <1>3, <1>4, <1>5, <1>6, <1>7, <1>8 DEF Operator

LEMMA WholeStep ==
  ASSUME Typed, Alone, Whole, [Next]_vars
  PROVE  Whole'
<1>1. CASE UNCHANGED vars
  BY <1>1 DEF vars, data, store, Whole, LiveWhole, ArtifactsComplete, Writes, Listed
<1> QED BY <1>1, WholePush, WholeServer, WholeCycle, WholeOther DEF Next

-----------------------------------------------------------------------------
(* Who is in which removal list.                                           *)

\* Two lists of artifacts with the same ids, place by place.
SameIds(arts) ==
    /\ arts \in Seq(Artifact) /\ Len(arts) = Len(artifacts)
    /\ \A i \in 1..Len(artifacts) : arts[i].id = artifacts[i].id

LEMMA SameIdsAre ==
  ASSUME Typed, SameIds(artifacts')
  PROVE  /\ DOMAIN artifacts' = DOMAIN artifacts /\ DOMAIN artifacts = 1..Len(artifacts)
         /\ \A i \in DOMAIN artifacts : artifacts'[i].id = artifacts[i].id
         /\ IdsOf(artifacts') = IdsOf(artifacts)
         /\ artifacts' # <<>> => artifacts # <<>> /\ Newest'.id = Newest.id
<1>1. DOMAIN artifacts' = DOMAIN artifacts /\ DOMAIN artifacts = 1..Len(artifacts)
      /\ \A i \in DOMAIN artifacts : artifacts'[i].id = artifacts[i].id
  BY DEF SameIds, Typed
<1>2. IdsOf(artifacts') = IdsOf(artifacts)
  BY <1>1 DEF IdsOf
<1>3. ASSUME artifacts' # <<>> PROVE artifacts # <<>> /\ Newest'.id = Newest.id
  BY <1>3 DEF SameIds, Typed, Newest, Last
<1> QED BY <1>1, <1>2, <1>3

LEMMA IdsOfPart ==
  ASSUME artifacts \in Seq(Artifact),
         NEW a \in 1..Len(artifacts), NEW b \in 0..Len(artifacts), a <= b
  PROVE  IdsOf(SubSeq(artifacts, a, b)) = {artifacts[i].id : i \in a..b}
<1>1. /\ DOMAIN SubSeq(artifacts, a, b) = 1..(b - a + 1)
      /\ \A i \in 1..(b - a + 1) : SubSeq(artifacts, a, b)[i] = artifacts[a + i - 1]
  OBVIOUS
<1>2. \A i \in a..b : i - a + 1 \in 1..(b - a + 1) /\ a + (i - a + 1) - 1 = i
  OBVIOUS
<1>3. \A i \in 1..(b - a + 1) : a + i - 1 \in a..b
  OBVIOUS
<1>4. \A i \in a..b : SubSeq(artifacts, a, b)[i - a + 1] = artifacts[i]
  BY <1>1, <1>2
<1> DEFINE t == SubSeq(artifacts, a, b)
<1>5. \A i \in 1..(b - a + 1) : \E k \in a..b : t[i].id = artifacts[k].id
  BY <1>1, <1>3
<1>6. \A k \in a..b : \E i \in 1..(b - a + 1) : t[i].id = artifacts[k].id
  BY <1>2, <1>4
<1>7. IdsOf(t) = {t[i].id : i \in 1..(b - a + 1)}
  BY <1>1 DEF IdsOf
<1> HIDE DEF t
<1>8. {t[i].id : i \in 1..(b - a + 1)} = {artifacts[k].id : k \in a..b}
  <2> DEFINE I == 1..(b - a + 1)
             K == a..b
  <2>1. /\ \A i \in I : \E k \in K : t[i].id = artifacts[k].id
        /\ \A k \in K : \E i \in I : t[i].id = artifacts[k].id
    BY <1>5, <1>6
  <2> HIDE DEF I, K
  <2>2. {t[i].id : i \in I} = {artifacts[k].id : k \in K}
    BY <2>1
  <2> QED BY <2>2 DEF I, K
<1> QED BY <1>7, <1>8 DEF t

\* A process that neither writes nor prunes has no part in it.
LEMMA OnceRetired ==
  ASSUME Typed, IdsOnce, NewestStays, NEW p \in Procs, SameIds(artifacts'), ids' = ids,
         ~Writes(p)', ~Prunes(p)', \A q \in Procs \ {p} : cycle'[q] = cycle[q]
  PROVE  IdsOnce' /\ NewestStays'
<1>1. \A q \in Procs : /\ Writes(q)' => Writes(q) /\ cycle'[q] = cycle[q]
                       /\ Prunes(q)' => Prunes(q) /\ cycle'[q] = cycle[q]
  BY DEF Writes, Prunes
<1>2. IdsOnce'
  <2>1. /\ DOMAIN artifacts' = DOMAIN artifacts
        /\ \A i \in DOMAIN artifacts : artifacts'[i].id = artifacts[i].id
        /\ IdsOf(artifacts') = IdsOf(artifacts)
    BY SameIdsAre
  <2> QED BY <1>1, <2>1 DEF IdsOnce
<1>3. NewestStays'
  <2>1. artifacts' # <<>> => artifacts # <<>> /\ Newest'.id = Newest.id
    BY SameIdsAre
  <2>2. \A q \in Procs : cycle'[q].at = "listed" => Prunes(q)' /\ cycle[q].at = "listed"
    BY <1>1 DEF Prunes
  <2> QED BY <1>1, <2>1, <2>2 DEF NewestStays
<1> QED BY <1>2, <1>3

LEMMA OnceUntouched ==
  ASSUME IdsOnce, NewestStays, UNCHANGED <<artifacts, ids, cycle>>
  PROVE  IdsOnce' /\ NewestStays'
<1>1. IdsOnce'
  BY DEF IdsOnce, Writes, Prunes, IdsOf
<1>2. NewestStays'
  BY DEF NewestStays, Prunes, Newest
<1> QED BY <1>1, <1>2

LEMMA OnceCycle ==
  ASSUME Typed, IdsOnce, NewestStays, NEW p \in Procs, Cycle(p)
  PROVE  IdsOnce' /\ NewestStays'
<1>1. SameIds(artifacts)
  BY DEF SameIds, Typed
<1>2. PICK c : Set(p, c)
  BY Zenon DEF Cycle, Snapshot, ListBlobs, CopyBlob, CycleFails, Publish, PruneList, PruneVerify,
               PruneRemove
<1>3. cycle'[p] = c /\ \A q \in Procs \ {p} : cycle'[q] = cycle[q]
  BY <1>2, SetIs DEF Typed
<1>4. DOMAIN artifacts = 1..Len(artifacts)
      /\ \A i \in 1..Len(artifacts) : artifacts[i] \in Artifact
  BY DEF Typed
<1>5. CASE Snapshot(p)
  <2>1. /\ ids' = ids + 1 /\ artifacts' = artifacts /\ ids \in Nat
        /\ cycle'[p].id = ids + 1 /\ cycle'[p].at = "snapped"
    BY <1>5 DEF Snapshot, Set, store, Typed
  <2>2. IdsOf(artifacts) \subseteq 1..ids
    BY DEF IdsOnce, IdsOf
  <2>3. Writes(p)' /\ ~Prunes(p)' /\ cycle'[p].at # "listed"
        /\ \A q \in Procs \ {p} : (Writes(q)' <=> Writes(q)) /\ (Prunes(q)' <=> Prunes(q))
    BY <1>3, <2>1 DEF Writes, Prunes
  <2>4. \A x \in 1..ids : x # ids + 1 /\ x \in 1..ids'
    BY <2>1
  <2>5. IdsOnce'
    <3>1. \A i, j \in DOMAIN artifacts' : artifacts'[i].id = artifacts'[j].id => i = j
      BY <2>1 DEF IdsOnce
    <3>2. \A i \in DOMAIN artifacts' : artifacts'[i].id \in 1..ids'
      BY <2>1, <2>4 DEF IdsOnce
    <3>3. ids + 1 \in 1..ids' /\ ids + 1 \notin IdsOf(artifacts')
      BY <2>1, <2>2, <2>4
    <3>4. \A q \in Procs \ {p} : Writes(q)' =>
            /\ cycle'[q].id \in 1..ids' /\ cycle'[q].id # ids + 1 /\ cycle'[q].id \notin IdsOf(artifacts')
            /\ \A x \in Procs \ {p} : Prunes(x)' => cycle'[q].id \notin cycle'[x].removed
      BY <1>3, <2>1, <2>3, <2>4 DEF IdsOnce
    <3>5. \A q \in Procs \ {p} : Prunes(q)' =>
            cycle'[q].removed \subseteq 1..ids' /\ ids + 1 \notin cycle'[q].removed
      BY <1>3, <2>3, <2>4 DEF IdsOnce
    <3>6. \A q \in Procs \ {p} : \A x \in Procs \ {q} : Writes(q)' /\ Writes(x)' => cycle'[x].id # cycle'[q].id
      BY <1>3, <2>1, <2>3, <3>4 DEF IdsOnce
    <3> QED BY <2>1, <2>3, <3>1, <3>2, <3>3, <3>4, <3>5, <3>6 DEF IdsOnce
  <2>6. NewestStays'
    <3>1. Newest' = Newest
      BY <2>1 DEF Newest
    <3> QED BY <1>3, <2>1, <2>3, <3>1 DEF NewestStays
  <2> QED BY <2>5, <2>6
<1>6. CASE ListBlobs(p) \/ CopyBlob(p)
  <2>1. /\ UNCHANGED <<artifacts, ids>> /\ Writes(p) /\ cycle'[p].id = cycle[p].id
        /\ cycle'[p].at = "copying"
    <3>1. CASE ListBlobs(p)
      BY <3>1 DEF ListBlobs, Set, store, Typed, Writes
    <3>2. CASE CopyBlob(p)
      <4>1. cycle[p] \in Copying
        BY <3>2, CycleIs DEF CopyBlob, Typed
      <4> QED BY <3>2, <4>1 DEF CopyBlob, Copying, Set, store, Typed, Writes
    <3> QED BY <1>6, <3>1, <3>2
  <2>2. /\ \A q \in Procs : Writes(q)' => Writes(q) /\ cycle'[q].id = cycle[q].id
        /\ \A q \in Procs : Prunes(q)' => Prunes(q) /\ cycle'[q] = cycle[q]
        /\ \A q \in Procs : cycle'[q].at = "listed" => cycle'[q] = cycle[q]
    BY <1>3, <2>1 DEF Writes, Prunes
  <2>3. IdsOnce'
    BY <2>1, <2>2 DEF IdsOnce, IdsOf
  <2>4. NewestStays'
    BY <2>1, <2>2 DEF NewestStays, Newest
  <2> QED BY <2>3, <2>4
<1>7. CASE CycleFails(p)
  <2>1. ~Writes(p)' /\ ~Prunes(p)' /\ ids' = ids /\ artifacts' = artifacts
    BY <1>7, RestingIs DEF CycleFails, Set, Typed, Writes, Prunes, store
  <2> QED BY <1>1, <1>3, <2>1, OnceRetired
<1>8. CASE Publish(p)
  <2> DEFINE n == Len(artifacts)
             e == [id |-> cycle[p].id, snap |-> cycle[p].snap, from |-> cycle[p].from,
                   manifest |-> DOMAIN cycle[p].files \ {Db}, files |-> cycle[p].files]
  <2>1. artifacts' = Append(artifacts, e) /\ e.id = cycle[p].id /\ ids' = ids /\ Writes(p)
    BY <1>8 DEF Publish, Writes
  <2> HIDE DEF e
  <2>2. /\ DOMAIN artifacts' = 1..(n + 1) /\ artifacts'[n + 1] = e
        /\ \A i \in 1..n : artifacts'[i] = artifacts[i]
        /\ n \in Nat /\ Len(artifacts') = n + 1
    BY <2>1 DEF Typed
  <2>3. 1..(n + 1) = 1..n \cup {n + 1} /\ n + 1 \notin 1..n
    BY <2>2
  <2> HIDE DEF n
  <2>4. ~Writes(p)' /\ ~Prunes(p)'
    BY <1>8 DEF Publish, Set, Typed, Writes, Prunes
  <2>5. \A q \in Procs : /\ Writes(q)' => Writes(q) /\ q # p /\ cycle'[q] = cycle[q]
                         /\ Prunes(q)' => Prunes(q) /\ cycle'[q] = cycle[q]
    BY <1>3, <2>4 DEF Writes, Prunes
  <2>6. IdsOf(artifacts') = IdsOf(artifacts) \cup {cycle[p].id}
    BY <1>4, <2>1, <2>2, <2>3 DEF IdsOf, n
  <2>7. \A i \in 1..n : artifacts[i].id # cycle[p].id
    BY <1>4, <2>1 DEF IdsOnce, IdsOf, n
  <2>8. IdsOnce'
    <3>1. \A i, j \in 1..n : artifacts[i].id = artifacts[j].id => i = j
      BY <1>4 DEF IdsOnce, n
    <3>2. \A i, j \in DOMAIN artifacts' : artifacts'[i].id = artifacts'[j].id => i = j
      BY <2>1, <2>2, <2>3, <2>7, <3>1
    <3>3. \A i \in DOMAIN artifacts' : artifacts'[i].id \in 1..ids'
      BY <1>4, <2>1, <2>2, <2>3 DEF IdsOnce, n
    <3>4. \A q \in Procs : Writes(q)' => cycle'[q].id # cycle[p].id
      BY <2>1, <2>5 DEF IdsOnce
    <3> QED BY <2>1, <2>5, <2>6, <3>2, <3>3, <3>4 DEF IdsOnce
  <2>9. NewestStays'
    <3>1. Newest'.id = cycle[p].id
      BY <2>1, <2>2 DEF Newest, Last
    <3>2. \A q \in Procs : Prunes(q)' => cycle[p].id \notin cycle'[q].removed
      BY <2>1, <2>5 DEF IdsOnce
    <3>3. \A q \in Procs : cycle'[q].at = "listed" => cycle'[q] = cycle[q]
      BY <2>5 DEF Prunes
    <3> QED BY <3>1, <3>2, <3>3 DEF NewestStays
  <2> QED BY <2>8, <2>9
<1>9. CASE PruneList(p)
  <2> DEFINE n == Len(artifacts) - Keep
  <2>1. UNCHANGED <<artifacts, ids>> /\ Keep \in Nat /\ Keep > 0 /\ Len(artifacts) \in Nat
    BY <1>9, BackupAssumption DEF PruneList, store, Typed
  <2>2. CASE n <= 0
    <3>1. cycle'[p] = Idle
      BY <1>9, <2>2 DEF PruneList, Set, Typed
    <3> QED BY <1>1, <1>3, <2>1, <3>1, RestingIs, OnceRetired DEF Writes, Prunes
  <2>3. CASE ~(n <= 0)
    <3>1. n \in Nat /\ n > 0 /\ n + 1 <= Len(artifacts)
      BY <2>1, <2>3
    <3>2. cycle'[p] = [at |-> "listed", kept |-> IdsOf(SubSeq(artifacts, n + 1, Len(artifacts))),
                       removed |-> IdsOf(SubSeq(artifacts, 1, n))]
      BY <1>9, <2>3 DEF PruneList, Set, Typed
    <3> HIDE DEF n
    <3>4. IdsOf(SubSeq(artifacts, n + 1, Len(artifacts))) =
            {artifacts[i].id : i \in (n + 1)..Len(artifacts)}
      BY <2>1, <3>1, IdsOfPart DEF Typed
    <3>5. IdsOf(SubSeq(artifacts, 1, n)) = {artifacts[i].id : i \in 1..n}
      BY <2>1, <3>1, IdsOfPart DEF Typed
    <3>6. /\ cycle'[p].at = "listed" /\ cycle'[p].removed = {artifacts[i].id : i \in 1..n}
          /\ cycle'[p].kept = {artifacts[i].id : i \in (n + 1)..Len(artifacts)}
      BY <3>2, <3>4, <3>5
    <3>7. \A i, j \in 1..Len(artifacts) : artifacts[i].id = artifacts[j].id => i = j
      BY <1>4 DEF IdsOnce
    <3>8. cycle'[p].removed \subseteq IdsOf(artifacts) /\ IdsOf(artifacts) \subseteq 1..ids
      BY <1>4, <3>1, <3>6 DEF IdsOf, IdsOnce
    <3>9. cycle'[p].kept # {} /\ cycle'[p].kept \cap cycle'[p].removed = {}
      BY <3>1, <3>6, <3>7
    <3>10. Newest.id \notin cycle'[p].removed
      BY <3>1, <3>6, <3>7 DEF Newest, Last
    <3>11. /\ \A q \in Procs : Writes(q)' => Writes(q) /\ cycle'[q] = cycle[q]
           /\ \A q \in Procs \ {p} : Prunes(q)' => Prunes(q) /\ cycle'[q] = cycle[q]
           /\ \A q \in Procs \ {p} : cycle'[q].at = "listed" => cycle'[q] = cycle[q]
      BY <1>3, <3>6 DEF Writes, Prunes
    <3>12. IdsOnce'
      <4>1. \A q \in Procs : Writes(q)' =>
              \A x \in Procs : Prunes(x)' => cycle'[q].id \notin cycle'[x].removed
        BY <3>8, <3>11 DEF IdsOnce
      <4>2. \A q \in Procs : Prunes(q)' => cycle'[q].removed \subseteq 1..ids
        BY <3>8, <3>11 DEF IdsOnce
      <4>3. \A q \in Procs : Writes(q)' =>
              /\ cycle'[q].id \in 1..ids' /\ cycle'[q].id \notin IdsOf(artifacts')
              /\ \A x \in Procs \ {q} : Writes(x)' => cycle'[x].id # cycle'[q].id
        BY <2>1, <3>11 DEF IdsOnce
      <4> QED BY <2>1, <4>1, <4>2, <4>3 DEF IdsOnce
    <3>13. NewestStays'
      <4>1. Newest' = Newest
        BY <2>1 DEF Newest
      <4> QED BY <2>1, <3>9, <3>10, <3>11, <4>1 DEF NewestStays
    <3> QED BY <3>12, <3>13
  <2> QED BY <2>2, <2>3
<1>10. CASE PruneVerify(p)
  <2>1. UNCHANGED <<artifacts, ids>> /\ Prunes(p)
    BY <1>10 DEF PruneVerify, store, Prunes
  <2>2. cycle'[p] = Idle \/ cycle'[p] = [at |-> "removing", removed |-> cycle[p].removed]
    BY <1>10 DEF PruneVerify, Set, Typed
  <2>3. /\ \A q \in Procs : Writes(q)' => Writes(q) /\ cycle'[q] = cycle[q]
        /\ \A q \in Procs : Prunes(q)' => Prunes(q) /\ cycle'[q].removed = cycle[q].removed
        /\ \A q \in Procs : cycle'[q].at = "listed" => cycle'[q] = cycle[q]
    BY <1>3, <2>1, <2>2, RestingIs DEF Writes, Prunes
  <2>4. IdsOnce'
    BY <2>1, <2>3 DEF IdsOnce, IdsOf
  <2>5. NewestStays'
    BY <2>1, <2>3 DEF NewestStays, Newest
  <2> QED BY <2>4, <2>5
<1>11. CASE PruneRemove(p)
  <2>1. cycle[p] \in Dropping /\ Prunes(p) /\ ids' = ids
    BY <1>11, CycleIs DEF PruneRemove, Typed, Prunes
  <2>2. PICK id \in cycle[p].removed :
          /\ \/ \E i \in DOMAIN artifacts :
                  artifacts[i].id = id /\ artifacts' = RemoveAt(artifacts, i)
             \/ id \notin IdsOf(artifacts) /\ UNCHANGED artifacts
          /\ Set(p, IF cycle[p].removed = {id} THEN Idle
                    ELSE [cycle[p] EXCEPT !.removed = @ \ {id}])
    BY <1>11 DEF PruneRemove
  <2>3. \/ cycle'[p] = Idle
        \/ cycle'[p].at = "removing" /\ cycle'[p].removed = cycle[p].removed \ {id}
    BY <2>1, <2>2 DEF Set, Typed, Dropping
  <2>4. /\ \A q \in Procs : Writes(q)' => Writes(q) /\ cycle'[q] = cycle[q]
        /\ \A q \in Procs : Prunes(q)' => Prunes(q) /\ cycle'[q].removed \subseteq cycle[q].removed
        /\ \A q \in Procs : cycle'[q].at = "listed" => cycle'[q] = cycle[q]
    BY <1>3, <2>1, <2>3, RestingIs DEF Writes, Prunes
  <2>5. CASE artifacts' = artifacts
    <3>1. IdsOnce'
      BY <2>1, <2>4, <2>5 DEF IdsOnce, IdsOf
    <3>2. NewestStays'
      BY <2>4, <2>5 DEF NewestStays, Newest
    <3> QED BY <3>1, <3>2
  <2>6. ASSUME NEW i \in 1..Len(artifacts), artifacts[i].id = id, artifacts' = RemoveAt(artifacts, i)
        PROVE  IdsOnce' /\ NewestStays'
    <3> DEFINE n == Len(artifacts)
    <3>1. /\ DOMAIN artifacts' = 1..(n - 1) /\ n \in Nat
          /\ \A j \in 1..(n - 1) : artifacts'[j] = IF j < i THEN artifacts[j] ELSE artifacts[j + 1]
      <4>1. artifacts \in Seq(Artifact) /\ n \in Nat
        BY DEF Typed
      <4>2. /\ artifacts' \in Seq(Artifact) /\ Len(artifacts') = n - 1
            /\ \A j \in 1..(n - 1) : artifacts'[j] = IF j < i THEN artifacts[j] ELSE artifacts[j + 1]
        BY <2>6, <4>1, RemoveAtIs, Zenon
      <4> HIDE DEF n
      <4> QED BY <4>1, <4>2
    <3>2. i # n
      <4>1. artifacts # <<>>
        BY <2>6
      <4> QED BY <2>1, <2>2, <2>6, <4>1 DEF NewestStays, Newest, Last
    <3>3. artifacts # <<>> /\ Newest' = Newest
      BY <2>6, <3>2, RemovedIs DEF Typed, Newest
    <3> HIDE DEF n
    <3>4. \A j, k \in 1..n : artifacts[j].id = artifacts[k].id => j = k
      BY <1>4 DEF IdsOnce, n
    <3>5. \A j, k \in DOMAIN artifacts' : artifacts'[j].id = artifacts'[k].id => j = k
      <4> SUFFICES ASSUME NEW j \in 1..(n - 1), NEW k \in 1..(n - 1),
                          artifacts'[j].id = artifacts'[k].id
                   PROVE  j = k
        BY <3>1
      <4>1. j \in 1..n /\ k \in 1..n /\ j + 1 \in 1..n /\ k + 1 \in 1..n
        BY <3>1
      <4>2. i \in Nat
        OBVIOUS
      <4>3. CASE j < i /\ k < i
        BY <3>1, <3>4, <4>1, <4>3
      <4>4. CASE j < i /\ ~(k < i)
        <5>1. artifacts[j].id = artifacts[k + 1].id /\ j # k + 1
          BY <3>1, <4>1, <4>2, <4>4
        <5> QED BY <3>4, <4>1, <5>1
      <4>5. CASE ~(j < i) /\ k < i
        <5>1. artifacts[j + 1].id = artifacts[k].id /\ j + 1 # k
          BY <3>1, <4>1, <4>2, <4>5
        <5> QED BY <3>4, <4>1, <5>1
      <4>6. CASE ~(j < i) /\ ~(k < i)
        <5>1. artifacts[j + 1].id = artifacts[k + 1].id
          BY <3>1, <4>6
        <5>2. j + 1 = k + 1
          BY <3>4, <4>1, <5>1
        <5> QED BY <5>2
      <4> QED BY <4>3, <4>4, <4>5, <4>6
    <3>6. \A j \in DOMAIN artifacts' : \E k \in 1..n : artifacts'[j] = artifacts[k]
      <4> SUFFICES ASSUME NEW j \in 1..(n - 1) PROVE \E k \in 1..n : artifacts'[j] = artifacts[k]
        BY <3>1
      <4>1. j \in 1..n /\ j + 1 \in 1..n
        BY <3>1
      <4> QED BY <3>1, <4>1
    <3>7. IdsOf(artifacts') \subseteq IdsOf(artifacts)
          /\ \A j \in DOMAIN artifacts' : artifacts'[j].id \in 1..ids
      BY <1>4, <3>6 DEF IdsOf, IdsOnce, n
    <3>8. IdsOnce'
      BY <2>1, <2>4, <3>5, <3>7 DEF IdsOnce
    <3>9. NewestStays'
      BY <2>4, <3>3 DEF NewestStays
    <3> QED BY <3>8, <3>9
  <2> QED BY <1>4, <2>2, <2>5, <2>6
<1> QED BY <1>5, <1>6, <1>7, <1>8, <1>9, <1>10, <1>11 DEF Cycle

LEMMA OnceStep ==
  ASSUME Typed, IdsOnce, NewestStays, [Next]_vars
  PROVE  IdsOnce' /\ NewestStays'
<1>1. SameIds(artifacts)
  BY DEF SameIds, Typed
<1>2. CASE Push \/ Tick \/ Operator \/ Decay \/ Rot \/ UNCHANGED vars
  <2>1. UNCHANGED <<artifacts, ids, cycle>>
    BY <1>2 DEF Push, PushPut, PutRename, PushEnd, Tick, Operator, RestoreCopy, RestoreServe,
                RestoreAbandon, Decay, Rot, vars, store
  <2> QED BY <2>1, OnceUntouched
<1>3. CASE Boot \/ Fire
  <2>1. \/ UNCHANGED <<artifacts, ids, cycle>>
        \/ /\ UNCHANGED <<artifacts, ids>> /\ ~Writes("scheduler")' /\ ~Prunes("scheduler")'
           /\ \A q \in Procs \ {"scheduler"} : cycle'[q] = cycle[q]
    BY <1>3 DEF Boot, StartScheduler, Fire, store, Typed, Writes, Prunes, Idle, Procs
  <2>2. "scheduler" \in Procs
    BY DEF Procs
  <2> QED BY <1>1, <2>1, <2>2, OnceUntouched, OnceRetired
<1>4. CASE Halt
  <2>1. /\ "scheduler" \in Procs /\ ids' = ids /\ ~Writes("scheduler")' /\ ~Prunes("scheduler")'
        /\ \A q \in Procs \ {"scheduler"} : cycle'[q] = cycle[q]
    BY <1>4 DEF Halt, Typed, Writes, Prunes, Idle, Procs
  <2>2. SameIds(artifacts')
    BY <1>4, <2>1, TornIs DEF Halt, SameIds, Typed
  <2> QED BY <2>1, <2>2, OnceRetired
<1>5. CASE CliDies
  <2>1. /\ "cli" \in Procs /\ ids' = ids /\ ~Writes("cli")' /\ ~Prunes("cli")'
        /\ \A q \in Procs \ {"cli"} : cycle'[q] = cycle[q]
    BY <1>5 DEF CliDies, Set, Typed, Writes, Prunes, Idle, Procs
  <2>2. SameIds(artifacts')
    BY <1>5, <2>1, TornIs DEF CliDies, SameIds, Typed
  <2> QED BY <2>1, <2>2, OnceRetired
<1>6. CASE BackupCli
  <2>1. /\ "cli" \in Procs /\ UNCHANGED <<artifacts, ids>> /\ ~Writes("cli")' /\ ~Prunes("cli")'
        /\ \A q \in Procs \ {"cli"} : cycle'[q] = cycle[q]
    BY <1>6 DEF BackupCli, Set, store, Typed, Writes, Prunes, Procs
  <2> QED BY <1>1, <2>1, OnceRetired
<1> QED BY <1>2, <1>3, <1>4, <1>5, <1>6, OnceCycle DEF Next, Server

-----------------------------------------------------------------------------
(* Verify before forget.                                                   *)

\* Who is not to be removed by anyone stays.
LEMMA SparedStays ==
  ASSUME Typed, [Next]_vars, NEW a \in Listed,
         \A p \in Procs : Removes(p) => a.id \notin cycle[p].removed
  PROVE  a \in Listed'
<1>1. DOMAIN artifacts = 1..Len(artifacts) /\ Listed = {artifacts[i] : i \in 1..Len(artifacts)}
  BY DEF Typed, Listed, ToSet
<1>2. PICK k \in 1..Len(artifacts) : a = artifacts[k]
  BY <1>1
<1>3. CASE artifacts' = artifacts
  BY <1>3 DEF Listed
<1>4. ASSUME NEW p \in Procs, artifacts' \in Torn(p) PROVE a \in Listed'
  <2>1. artifacts' \in Seq(Artifact) /\ Len(artifacts') = Len(artifacts)
        /\ artifacts'[k] = artifacts[k]
    <3>1. cycle[p].at = "removing" => artifacts[k].id \notin cycle[p].removed
      BY <1>2 DEF Removes
    <3> QED BY <1>2, <1>4, <3>1, TornIs DEF Typed
  <2> QED BY <1>2, <2>1 DEF Listed, ToSet
<1>5. ASSUME NEW p \in Procs, Publish(p) PROVE a \in Listed'
  <2>1. \E e : artifacts' = Append(artifacts, e)
    BY <1>5, Zenon DEF Publish
  <2>2. k \in DOMAIN artifacts' /\ artifacts'[k] = artifacts[k]
    BY <1>2, <2>1 DEF Typed
  <2> QED BY <1>2, <2>2 DEF Listed, ToSet
<1>6. ASSUME NEW p \in Procs, PruneRemove(p) PROVE a \in Listed'
  <2>1. Removes(p)
    BY <1>6 DEF PruneRemove, Removes
  <2>2. artifacts' = artifacts \/ \E i \in DOMAIN artifacts :
          artifacts[i].id \in cycle[p].removed /\ artifacts' = RemoveAt(artifacts, i)
    BY <1>6 DEF PruneRemove
  <2>3. ASSUME NEW i \in 1..Len(artifacts), artifacts[i].id \in cycle[p].removed,
               artifacts' = RemoveAt(artifacts, i)
        PROVE  a \in Listed'
    <3>1. k # i
      BY <1>2, <2>1, <2>3
    <3>2. ToSet(artifacts') = {artifacts[j] : j \in 1..Len(artifacts) \ {i}}
      BY <2>3, RemovedIs DEF Typed
    <3> QED BY <1>2, <3>1, <3>2 DEF Listed
  <2> QED BY <1>1, <1>3, <2>2, <2>3
<1>7. CASE Halt \/ CliDies
  BY <1>4, <1>7 DEF Halt, CliDies, Procs
<1>8. Push \/ Boot \/ Fire \/ Tick \/ Operator \/ BackupCli \/ Decay \/ Rot \/ UNCHANGED vars
        => artifacts' = artifacts
  BY DEF Push, PushPut, PutRename, PushEnd, Boot, Fire, Tick, Operator, RestoreCopy, RestoreServe,
         RestoreAbandon, BackupCli, Decay, Rot, vars, store
<1>9. ASSUME NEW p \in Procs,
             Snapshot(p) \/ ListBlobs(p) \/ CopyBlob(p) \/ CycleFails(p) \/ PruneList(p) \/ PruneVerify(p)
      PROVE  artifacts' = artifacts
  BY <1>9 DEF Snapshot, ListBlobs, CopyBlob, CycleFails, PruneList, PruneVerify, store
<1> QED BY <1>3, <1>5, <1>6, <1>7, <1>8, <1>9 DEF Next, Server, Cycle

\* A good artifact is no worse while no file of an artifact goes bad.
LEMMA GoodStays ==
  ASSUME NEW a, Good(a), decayed' = decayed, wounded \subseteq wounded'
  PROVE  Good(a)'
  BY DEF Good, Intact

\* Who verified what is to be kept has a good artifact.
LEMMA VerifiedIsGood ==
  ASSUME Typed, ArtifactsComplete, NEW a \in Listed, Verified(a)
  PROVE  Good(a)
  BY DEF ArtifactsComplete, Verified, Good

LEMMA SparedOnward ==
  ASSUME Typed, [Next]_vars, decayed' = decayed, wounded \subseteq wounded',
         NEW ps, Spared(ps), \A p \in Procs : Removes(p) => p \in ps,
         NEW qs, \A q \in qs : Prunes(q)' => q \in ps /\ Prunes(q) /\ cycle'[q].removed \subseteq cycle[q].removed
  PROVE  Spared(qs)'
<1>1. PICK a \in Listed : Good(a) /\ \A p \in ps : Prunes(p) => a.id \notin cycle[p].removed
  BY DEF Spared
<1>2. \A p \in Procs : Removes(p) => a.id \notin cycle[p].removed
  BY <1>1 DEF Removes, Prunes
<1>3. a \in Listed'
  BY <1>2, SparedStays
<1>4. Good(a)'
  BY <1>1, GoodStays
<1>5. \A q \in qs : Prunes(q)' => a.id \notin cycle'[q].removed
  BY <1>1
<1> QED BY <1>3, <1>4, <1>5 DEF Spared

\* Of the good artifact all the removers spare, any of them later does.
LEMMA RemoversSpare ==
  ASSUME Typed, Retained, [Next]_vars, decayed' = decayed, wounded \subseteq wounded',
         NEW qs \in SUBSET Procs, qs # {},
         \A q \in qs : Removes(q) /\ (Prunes(q)' => cycle'[q].removed \subseteq cycle[q].removed)
  PROVE  Spared(qs)'
<1>1. PICK ps \in SUBSET Procs : ps = {p \in Procs : Removes(p)}
  OBVIOUS
<1>2. ps # {} /\ \A p \in ps : Removes(p)
  BY <1>1
<1>3. Spared(ps)
  BY <1>2 DEF Retained
<1>4. \A q \in qs : Prunes(q)' => q \in ps /\ Prunes(q) /\ cycle'[q].removed \subseteq cycle[q].removed
  BY <1>1 DEF Removes, Prunes
<1>5. \A p \in Procs : Removes(p) => p \in ps
  BY <1>1
<1> QED BY <1>3, <1>4, <1>5, SparedOnward

\* A step after which the process that took it prunes nothing, and no other differs.
LEMMA RetainedRetired ==
  ASSUME Typed, Retained, [Next]_vars, decayed' = decayed, wounded' = wounded, NEW p \in Procs,
         ~Prunes(p)', \A q \in Procs \ {p} : cycle'[q] = cycle[q]
  PROVE  Retained'
<1>1. \A q, r \in Procs : q # p /\ r # p => q = r
  BY DEF Procs
<1>2. \A q \in Procs : cycle'[q].at \in {"listed", "removing"} =>
        q # p /\ cycle'[q] = cycle[q] /\ Prunes(q)
  BY DEF Prunes
<1>3. ASSUME NEW qs \in SUBSET Procs, qs # {}, \A q \in qs : Removes(q)' PROVE Spared(qs)'
  <2>1. \A q \in qs : Removes(q) /\ cycle'[q] = cycle[q]
    BY <1>2, <1>3 DEF Removes
  <2> QED BY <1>3, <2>1, RemoversSpare
<1>4. \A q, r \in Procs : q # r => ~(cycle'[q].at = "listed" /\ cycle'[r].at = "listed")
  BY <1>1, <1>2
<1>5. \A q, r \in Procs : ~(cycle'[q].at = "listed" /\ Removes(r)')
  <2> SUFFICES ASSUME NEW q \in Procs, NEW r \in Procs, cycle'[q].at = "listed", Removes(r)'
               PROVE  FALSE
    OBVIOUS
  <2>1. q # p /\ r # p
    BY <1>2 DEF Removes
  <2> QED BY <1>1, <2>1 DEF Removes
<1> QED BY <1>3, <1>4, <1>5 DEF Retained

\* A step that leaves the artifacts and the cycles alone and makes no file worse.
LEMMA RetainedUntouched ==
  ASSUME Typed, Retained, [Next]_vars, UNCHANGED <<artifacts, decayed, cycle>>, wounded \subseteq wounded'
  PROVE  Retained'
<1>1. \A a : Good(a) => Good(a)'
  BY GoodStays
<1>2. \A ps : Spared(ps) => Spared(ps)'
  BY <1>1 DEF Spared, Listed, Prunes
<1>3. \A p : Removes(p)' <=> Removes(p)
  BY DEF Removes
<1>4. \A p, q : KeepsBeside(p, q)' <=> KeepsBeside(p, q)
  BY DEF KeepsBeside
<1> QED BY <1>2, <1>3, <1>4 DEF Retained

LEMMA RetainedPrunes ==
  ASSUME Typed, ArtifactsComplete, IdsOnce, NewestStays, Retained, [Next]_vars,
         NEW p \in Procs, PruneList(p) \/ PruneVerify(p) \/ PruneRemove(p)
  PROVE  Retained'
<1>1. UNCHANGED <<decayed, wounded>>
  BY DEF PruneList, PruneVerify, PruneRemove, store
<1>2. PICK c : Set(p, c)
  BY Zenon DEF PruneList, PruneVerify, PruneRemove
<1>3. cycle'[p] = c /\ \A q \in Procs \ {p} : cycle'[q] = cycle[q]
  BY <1>2, SetIs DEF Typed
<1>4. \A a : Good(a) => Good(a)'
  BY <1>1, GoodStays
<1>5. CASE ~Prunes(p)'
  BY <1>1, <1>3, <1>5, RetainedRetired
<1>6. CASE PruneList(p) /\ Prunes(p)'
  <2>1. cycle[p].at = "published" /\ UNCHANGED artifacts
    BY <1>6 DEF PruneList, store
  <2> DEFINE n == Len(artifacts) - Keep
  <2>2. /\ cycle'[p].at = "listed"
        /\ cycle'[p].kept = IdsOf(SubSeq(artifacts, n + 1, Len(artifacts))) /\ n > 0
    <3>1. CASE n <= 0
      <4>1. cycle'[p] = Idle
        BY <1>6, <3>1 DEF PruneList, Set, Typed
      <4> QED BY <1>6, <4>1, RestingIs DEF Prunes
    <3>2. CASE ~(n <= 0)
      <4>1. cycle'[p] = [at |-> "listed", kept |-> IdsOf(SubSeq(artifacts, n + 1, Len(artifacts))),
                         removed |-> IdsOf(SubSeq(artifacts, 1, n))]
        BY <1>6, <3>2 DEF PruneList, Set, Typed
      <4>2. n \in Int
        BY BackupAssumption DEF Typed
      <4> HIDE DEF n
      <4> QED BY <3>2, <4>1, <4>2
    <3> QED BY <3>1, <3>2
  <2>3. artifacts # <<>> /\ Newest.id \in cycle'[p].kept
    <3>1. Keep \in Nat /\ Keep > 0 /\ Len(artifacts) \in Nat /\ n + 1 <= Len(artifacts) /\ n \in Int
      BY <2>2, BackupAssumption DEF Typed
    <3>2. n + 1 \in 1..Len(artifacts) /\ Len(artifacts) \in (n + 1)..Len(artifacts)
      BY <2>2, <3>1
    <3>3. IdsOf(SubSeq(artifacts, n + 1, Len(artifacts))) =
            {artifacts[i].id : i \in (n + 1)..Len(artifacts)}
      BY <3>1, <3>2, IdsOfPart, SMTT(60) DEF Typed
    <3> HIDE DEF n
    <3>4. artifacts # <<>>
      BY <3>2
    <3> QED BY <2>2, <3>2, <3>3, <3>4 DEF Newest, Last
  <2>4. \A q \in Procs \ {p} : Prunes(q)' => KeepsBeside(p, q)'
    <3>1. \A q \in Procs \ {p} : Prunes(q)' => Prunes(q) /\ cycle'[q] = cycle[q]
      BY <1>3 DEF Prunes
    <3> QED BY <2>3, <3>1 DEF NewestStays, KeepsBeside
  <2>5. \A q \in Procs : Removes(q)' => q # p /\ Removes(q) /\ Prunes(q)' /\ Prunes(q) /\ cycle'[q] = cycle[q]
    BY <1>3, <2>2 DEF Removes, Prunes
  <2>6. \A q, r \in Procs : q # r /\ cycle'[q].at = "listed" /\ cycle'[r].at = "listed" =>
          KeepsBeside(q, r)' \/ KeepsBeside(r, q)'
    <3> SUFFICES ASSUME NEW q \in Procs, NEW r \in Procs, q # r,
                        cycle'[q].at = "listed", cycle'[r].at = "listed"
                 PROVE  KeepsBeside(q, r)' \/ KeepsBeside(r, q)'
      OBVIOUS
    <3>1. Prunes(q)' /\ Prunes(r)'
      BY DEF Prunes
    <3>2. q = p \/ r = p
      BY DEF Procs
    <3> QED BY <2>4, <3>1, <3>2
  <2>7. \A q, r \in Procs : cycle'[q].at = "listed" /\ Removes(r)' => KeepsBeside(q, r)'
    <3> SUFFICES ASSUME NEW q \in Procs, NEW r \in Procs, cycle'[q].at = "listed", Removes(r)'
                 PROVE  KeepsBeside(q, r)'
      OBVIOUS
    <3>1. q = p /\ r # p
      BY <2>5 DEF Procs, Removes
    <3> QED BY <2>4, <2>5, <3>1
  <2>8. ASSUME NEW qs \in SUBSET Procs, qs # {}, \A q \in qs : Removes(q)' PROVE Spared(qs)'
    BY <1>1, <2>5, <2>8, RemoversSpare
  <2> QED BY <2>6, <2>7, <2>8 DEF Retained
<1>7. CASE PruneVerify(p) /\ Prunes(p)'
  <2>1. /\ cycle[p].at = "listed" /\ UNCHANGED artifacts
        /\ cycle'[p].at = "removing" /\ cycle'[p].removed = cycle[p].removed
        /\ \A id \in cycle[p].kept : \E a \in Listed : a.id = id /\ Verified(a)
    BY <1>7, RestingIs DEF PruneVerify, store, Prunes, Set, Typed
  <2>2. \A q \in Procs : Prunes(q)' => Prunes(q) /\ cycle'[q].removed = cycle[q].removed
    BY <1>3, <2>1 DEF Prunes
  <2>3. ASSUME NEW id, id \in cycle[p].kept, NEW ps \in SUBSET Procs,
               \A q \in ps : Prunes(q)' /\ q # p => id \notin cycle[q].removed
        PROVE  Spared(ps)'
    <3>1. PICK a \in Listed : a.id = id /\ Verified(a)
      BY <2>1, <2>3
    <3>2. Good(a)' /\ a \in Listed'
      BY <1>4, <2>1, <3>1, VerifiedIsGood DEF Listed
    <3>3. id \notin cycle[p].removed
      BY <2>1, <2>3 DEF NewestStays
    <3>4. \A q \in ps : Prunes(q)' => id \notin cycle'[q].removed
      <4>1. \A q \in ps \ {p} : Prunes(q)' => cycle'[q].removed = cycle[q].removed
        BY <2>2, <1>3
      <4> QED BY <2>1, <2>3, <3>3, <4>1
    <3> QED BY <3>1, <3>2, <3>4 DEF Spared
  <2>4. \A q \in Procs : cycle'[q].at = "listed" => q # p /\ cycle[q].at = "listed" /\ cycle'[q] = cycle[q]
    BY <1>3, <2>1
  <2>5. \A q, r \in Procs : q # r => ~(cycle'[q].at = "listed" /\ cycle'[r].at = "listed")
    BY <2>1, <2>4 DEF Procs
  <2>6. ASSUME NEW q \in Procs, NEW r \in Procs, cycle'[q].at = "listed", Removes(r)'
        PROVE  KeepsBeside(q, r)' \/ Spared({q, r})'
    <3>1. r = p /\ q # p
      BY <2>4, <2>6 DEF Procs, Removes
    <3>2. KeepsBeside(p, q) \/ KeepsBeside(q, p)
      BY <2>1, <2>4, <2>6, <3>1 DEF Retained
    <3>3. CASE KeepsBeside(q, p)
      <4>1. cycle'[q] = cycle[q]
        BY <2>4, <2>6
      <4> QED BY <2>1, <3>1, <3>3, <4>1 DEF KeepsBeside
    <3>4. CASE KeepsBeside(p, q)
      <4>1. PICK id \in cycle[p].kept : id \notin cycle[q].removed
        BY <3>4 DEF KeepsBeside
      <4>2. Spared({q, r})'
        BY <2>3, <3>1, <4>1
      <4> QED BY <4>2
    <3> QED BY <3>2, <3>3, <3>4
  <2>7. ASSUME NEW qs \in SUBSET Procs, qs # {}, \A q \in qs : Removes(q)' PROVE Spared(qs)'
    <3>1. CASE p \notin qs
      <4>1. \A q \in qs : Removes(q) /\ cycle'[q] = cycle[q]
        BY <1>3, <2>7, <3>1 DEF Removes
      <4> QED BY <1>1, <2>7, <4>1, RemoversSpare
    <3>2. CASE qs = {p}
      <4>1. PICK id \in cycle[p].kept : TRUE
        BY <2>1 DEF NewestStays
      <4> QED BY <2>3, <3>2, <4>1
    <3>3. CASE \E q \in qs : q # p
      <4>1. PICK q \in qs : q # p
        BY <3>3
      <4>2. q \in Procs /\ Removes(q)
        BY <1>3, <2>7, <4>1 DEF Removes
      <4>3. KeepsBeside(p, q) \/ Spared({p, q})
        BY <2>1, <4>2 DEF Retained
      <4>4. \A x \in qs : x = p \/ x = q
        BY <4>1, <4>2 DEF Procs
      <4>5. CASE KeepsBeside(p, q)
        <5>1. PICK id \in cycle[p].kept : id \notin cycle[q].removed
          BY <4>5 DEF KeepsBeside
        <5> QED BY <2>3, <4>4, <5>1
      <4>6. CASE Spared({p, q})
        <5>1. \A x \in Procs : x \in {p, q}
          BY <4>1, <4>2 DEF Procs
        <5>2. \A x \in qs : Prunes(x)' => x \in {p, q} /\ Prunes(x) /\ cycle'[x].removed \subseteq cycle[x].removed
          BY <2>2, <4>4
        <5> QED BY <1>1, <4>6, <5>1, <5>2, SparedOnward
      <4> QED BY <4>3, <4>5, <4>6
    <3> QED BY <2>7, <3>1, <3>2, <3>3
  <2> QED BY <2>5, <2>6, <2>7 DEF Retained
<1>8. CASE PruneRemove(p) /\ Prunes(p)'
  <2>1. cycle[p] \in Dropping /\ Removes(p)
    BY <1>8, CycleIs DEF PruneRemove, Typed, Removes
  <2>2. cycle'[p].at = "removing" /\ cycle'[p].removed \subseteq cycle[p].removed
    BY <1>8, <2>1, RestingIs DEF PruneRemove, Prunes, Set, Typed, Dropping
  <2>3. \A q \in Procs : cycle'[q].at = "listed" => q # p /\ cycle[q].at = "listed" /\ cycle'[q] = cycle[q]
    BY <1>3, <2>2
  <2>4. \A q, r \in Procs : q # r => ~(cycle'[q].at = "listed" /\ cycle'[r].at = "listed")
    BY <2>2, <2>3 DEF Procs
  <2>5. \A q \in Procs : Prunes(q)' => Prunes(q) /\ cycle'[q].removed \subseteq cycle[q].removed
    BY <1>3, <2>1, <2>2 DEF Prunes, Removes
  <2>6. ASSUME NEW q \in Procs, NEW r \in Procs, cycle'[q].at = "listed", Removes(r)'
        PROVE  KeepsBeside(q, r)' \/ Spared({q, r})'
    <3>1. r = p /\ q # p
      BY <2>3, <2>6 DEF Procs, Removes
    <3>2. KeepsBeside(q, r) \/ Spared({q, r})
      BY <2>1, <2>3, <2>6, <3>1 DEF Retained
    <3>3. CASE KeepsBeside(q, r)
      <4>1. cycle'[q] = cycle[q]
        BY <2>3, <2>6
      <4> QED BY <2>2, <3>1, <3>3, <4>1 DEF KeepsBeside
    <3>4. CASE Spared({q, r})
      <4>1. \A x \in Procs : x \in {q, r}
        BY <3>1 DEF Procs
      <4>2. \A x \in {q, r} : Prunes(x)' => x \in {q, r} /\ Prunes(x) /\ cycle'[x].removed \subseteq cycle[x].removed
        BY <2>5
      <4>3. Spared({q, r})'
        BY <1>1, <3>4, <4>1, <4>2, SparedOnward
      <4> QED BY <4>3
    <3> QED BY <3>2, <3>3, <3>4
  <2>7. ASSUME NEW qs \in SUBSET Procs, qs # {}, \A q \in qs : Removes(q)' PROVE Spared(qs)'
    <3>1. \A q \in qs : Removes(q) /\ (Prunes(q)' => cycle'[q].removed \subseteq cycle[q].removed)
      BY <1>3, <2>1, <2>5, <2>7 DEF Removes
    <3> QED BY <1>1, <2>7, <3>1, RemoversSpare
  <2> QED BY <2>4, <2>6, <2>7 DEF Retained
<1> QED BY <1>5, <1>6, <1>7, <1>8

LEMMA RetainedStep ==
  ASSUME Typed, ArtifactsComplete, IdsOnce, NewestStays, Retained, [Next]_vars
  PROVE  Retained'
<1>1. "scheduler" \in Procs /\ "cli" \in Procs
  BY DEF Procs
<1>2. CASE Push \/ Tick \/ Operator \/ Rot \/ UNCHANGED vars
  <2>1. UNCHANGED <<artifacts, decayed, cycle>> /\ wounded \subseteq wounded'
    BY <1>2 DEF Push, PushPut, PutRename, PushEnd, Tick, Operator, RestoreCopy, RestoreServe,
                RestoreAbandon, Rot, vars, store
  <2> QED BY <2>1, RetainedUntouched
<1>3. CASE Decay
  <2>1. UNCHANGED cycle /\ \A p \in Procs : ~Removes(p)
    BY <1>3 DEF Decay, Removes
  <2>2. \A p \in Procs : ~Removes(p)'
    BY <2>1 DEF Removes
  <2>3. \A p, q : KeepsBeside(p, q)' <=> KeepsBeside(p, q)
    BY <2>1 DEF KeepsBeside
  <2> QED BY <2>1, <2>2, <2>3 DEF Retained
<1>4. CASE Boot \/ Fire
  <2>1. /\ UNCHANGED <<artifacts, decayed, wounded>>
        /\ \/ UNCHANGED cycle
           \/ ~Prunes("scheduler")' /\ \A q \in Procs \ {"scheduler"} : cycle'[q] = cycle[q]
    BY <1>4 DEF Boot, StartScheduler, Fire, store, Typed, Prunes, Idle, Procs
  <2> QED BY <1>1, <2>1, RetainedUntouched, RetainedRetired
<1>5. CASE Halt
  <2>1. /\ UNCHANGED <<decayed, wounded>> /\ ~Prunes("scheduler")'
        /\ \A q \in Procs \ {"scheduler"} : cycle'[q] = cycle[q]
    BY <1>5 DEF Halt, Typed, Prunes, Idle, Procs
  <2> QED BY <1>1, <2>1, RetainedRetired
<1>6. CASE CliDies \/ BackupCli
  <2>1. /\ UNCHANGED <<decayed, wounded>> /\ ~Prunes("cli")'
        /\ \A q \in Procs \ {"cli"} : cycle'[q] = cycle[q]
    BY <1>6 DEF CliDies, BackupCli, Set, store, Typed, Prunes, Idle, Procs
  <2> QED BY <1>1, <2>1, RetainedRetired
<1>7. ASSUME NEW p \in Procs, Snapshot(p) \/ ListBlobs(p) \/ CopyBlob(p) \/ CycleFails(p) \/ Publish(p)
      PROVE  Retained'
  <2>1. UNCHANGED <<decayed, wounded>>
    BY <1>7 DEF Snapshot, ListBlobs, CopyBlob, CycleFails, Publish, store
  <2>2. PICK c : Set(p, c)
    BY <1>7, Zenon DEF Snapshot, ListBlobs, CopyBlob, CycleFails, Publish
  <2>3. cycle'[p] = c /\ \A q \in Procs \ {p} : cycle'[q] = cycle[q]
    BY <2>2, SetIs DEF Typed
  <2>4. ~Prunes(p)'
    <3>1. CASE CopyBlob(p)
      <4>1. cycle[p] \in Copying
        BY <3>1, CycleIs DEF CopyBlob, Typed
      <4> QED BY <3>1, <4>1 DEF CopyBlob, Copying, Set, Typed, Prunes
    <3>2. CASE ~CopyBlob(p)
      BY <1>7, <3>2, RestingIs DEF Snapshot, ListBlobs, CycleFails, Publish, Set, Typed, Prunes
    <3> QED BY <3>1, <3>2
  <2> QED BY <2>1, <2>3, <2>4, RetainedRetired
<1> QED BY <1>2, <1>3, <1>4, <1>5, <1>6, <1>7, RetainedPrunes DEF Next, Server, Cycle

-----------------------------------------------------------------------------
(* The server.                                                             *)

LEMMA ServerStart ==
  ASSUME Init
  PROVE  ServerInv
<1>1. Typed
  BY TypedInit
<1>2. /\ log = <<>> /\ artifacts = <<>> /\ put = Nothing /\ target = Nothing /\ up = FALSE
      /\ epoch = 0 /\ restores = 0 /\ \A p \in Procs : cycle[p] = Idle
  BY DEF Init
<1>3. \A p \in Procs : ~Writes(p) /\ ~Prunes(p) /\ ~Removes(p) /\ cycle[p].at = "idle"
  BY <1>2, RestingIs DEF Writes, Prunes, Removes
<1>4. Alone
  BY <1>2 DEF Alone, Procs
<1>5. Listed = {} /\ Refs(log) = {}
  BY <1>2 DEF Listed, ToSet, Refs
<1>6. Whole
  BY <1>2, <1>3, <1>5 DEF Whole, LiveWhole, ArtifactsComplete, Nothing
<1>7. IdsOnce
  BY <1>2, <1>3 DEF IdsOnce
<1>8. NewestStays
  BY <1>3 DEF NewestStays
<1>9. Retained
  BY <1>3 DEF Retained
<1> QED BY <1>1, <1>4, <1>6, <1>7, <1>8, <1>9 DEF ServerInv

LEMMA ServerStep ==
  ASSUME ServerInv, [Next]_vars
  PROVE  ServerInv'
  BY TypedStep, AloneStep, WholeStep, OnceStep, RetainedStep DEF ServerInv, Whole

\* No step of retention removes the last good artifact.
LEMMA RetentionStep ==
  ASSUME ServerInv, [Next]_vars, UNCHANGED <<decayed, wounded>>, \E a \in Listed : Good(a)
  PROVE  (\E a \in Listed : Good(a))'
<1>1. \E a \in Listed : Good(a) /\ \A p \in Procs : Removes(p) => a.id \notin cycle[p].removed
  <2>1. CASE \A p \in Procs : ~Removes(p)
    BY <2>1
  <2>2. CASE \E p \in Procs : Removes(p)
    <3>1. PICK ps \in SUBSET Procs : ps = {p \in Procs : Removes(p)}
      OBVIOUS
    <3>2. ps # {} /\ \A p \in ps : Removes(p)
      BY <2>2, <3>1
    <3>3. Spared(ps)
      BY <3>2 DEF ServerInv, Retained
    <3> QED BY <3>1, <3>3 DEF Spared, Removes, Prunes
  <2> QED BY <2>1, <2>2
<1>2. PICK a \in Listed : Good(a) /\ \A p \in Procs : Removes(p) => a.id \notin cycle[p].removed
  BY <1>1
<1>3. a \in Listed'
  BY <1>2, SparedStays DEF ServerInv
<1>4. Good(a)'
  BY <1>2, GoodStays
<1> QED BY <1>3, <1>4

(***************************************************************************)
(* Every published artifact holds what its snapshot references, and every  *)
(* committed revision has its bytes on disk: createBackup, the startup     *)
(* sweep, the push and the restore.                                        *)
(***************************************************************************)
THEOREM DataIsWhole == Spec => [](ArtifactsComplete /\ LiveWhole)
<1>1. Init => ServerInv
  BY ServerStart
<1>2. ServerInv /\ [Next]_vars => ServerInv'
  BY ServerStep
<1>3. ServerInv => ArtifactsComplete /\ LiveWhole
  BY DEF ServerInv, Whole
<1> QED BY <1>1, <1>2, <1>3, PTL DEF Spec

(***************************************************************************)
(* Verify before forget, with two processes that prune one directory:      *)
(* pruneBackups never removes the last artifact that can be restored.      *)
(***************************************************************************)
THEOREM RetentionIsSafe == Spec => RetentionKeepsGood
<1>1. Init => ServerInv
  BY ServerStart
<1>2. ServerInv /\ [Next]_vars => ServerInv'
  BY ServerStep
<1>3. ServerInv /\ [Next]_vars =>
        [UNCHANGED <<decayed, wounded>> /\ (\E a \in Listed : Good(a))
           => (\E a \in Listed : Good(a))']_vars
  BY RetentionStep
<1> QED BY <1>1, <1>2, <1>3, PTL DEF Spec, RetentionKeepsGood

-----------------------------------------------------------------------------
(* The device that reads the log.                                          *)

LEMMA SameList ==
  ASSUME NEW S, NEW s \in Seq(S), NEW t \in Seq(S), Len(s) = Len(t),
         \A i \in 1..Len(s) : s[i] = t[i]
  PROVE  s = t
  OBVIOUS

LEMMA PrefixIs ==
  ASSUME NEW S, NEW s \in Seq(S), NEW t \in Seq(S)
  PROVE  IsPrefix(s, t) <=> Len(s) <= Len(t) /\ \A i \in 1..Len(s) : s[i] = t[i]
<1>1. CASE Len(s) <= Len(t)
  <2>1. /\ SubSeq(s, 1, Len(s)) \in Seq(S) /\ Len(SubSeq(s, 1, Len(s))) = Len(s)
        /\ \A i \in 1..Len(s) : SubSeq(s, 1, Len(s))[i] = s[i]
    OBVIOUS
  <2>2. /\ SubSeq(t, 1, Len(s)) \in Seq(S) /\ Len(SubSeq(t, 1, Len(s))) = Len(s)
        /\ \A i \in 1..Len(s) : SubSeq(t, 1, Len(s))[i] = t[i]
    BY <1>1
  <2>3. SubSeq(s, 1, Len(s)) = SubSeq(t, 1, Len(s)) <=> \A i \in 1..Len(s) : s[i] = t[i]
    <3> DEFINE u == SubSeq(s, 1, Len(s))
               v == SubSeq(t, 1, Len(s))
    <3>1. /\ u \in Seq(S) /\ v \in Seq(S) /\ Len(u) = Len(v) /\ Len(u) = Len(s)
          /\ \A i \in 1..Len(s) : u[i] = s[i] /\ v[i] = t[i]
      BY <2>1, <2>2
    <3> HIDE DEF u, v
    <3>2. ASSUME \A i \in 1..Len(s) : u[i] = v[i] PROVE u = v
      <4>1. u \in Seq(S) /\ v \in Seq(S) /\ Len(u) = Len(v) /\ \A i \in 1..Len(u) : u[i] = v[i]
        BY <3>1, <3>2
      <4> QED BY <4>1, SameList, Zenon
    <3>3. u = v <=> \A i \in 1..Len(s) : s[i] = t[i]
      <4>1. CASE \A i \in 1..Len(s) : s[i] = t[i]
        BY <3>1, <3>2, <4>1
      <4>2. CASE u = v
        BY <3>1, <4>2
      <4> QED BY <4>1, <4>2
    <3> QED BY <3>3 DEF u, v
  <2> QED BY <1>1, <2>3 DEF IsPrefix
<1>2. CASE ~(Len(s) <= Len(t))
  BY <1>2 DEF IsPrefix
<1> QED BY <1>1, <1>2

LEMMA PrefixFacts ==
  ASSUME NEW S, NEW s \in Seq(S), NEW t \in Seq(S), IsPrefix(s, t)
  PROVE  /\ \A r \in S : IsPrefix(s, Append(t, r))
         /\ s \o SubSeq(t, Len(s) + 1, Len(t)) = t
<1>1. Len(s) <= Len(t) /\ \A i \in 1..Len(s) : s[i] = t[i]
  BY PrefixIs
<1>2. ASSUME NEW r \in S PROVE IsPrefix(s, Append(t, r))
  <2>1. /\ Append(t, r) \in Seq(S) /\ Len(Append(t, r)) = Len(t) + 1
        /\ \A i \in 1..Len(t) : Append(t, r)[i] = t[i]
    OBVIOUS
  <2>2. Len(s) <= Len(Append(t, r)) /\ \A i \in 1..Len(s) : s[i] = Append(t, r)[i]
    BY <1>1, <2>1
  <2> QED BY <2>1, <2>2, PrefixIs
<1>3. s \o SubSeq(t, Len(s) + 1, Len(t)) = t
  <2> DEFINE v == SubSeq(t, Len(s) + 1, Len(t))
  <2>1. /\ v \in Seq(S) /\ Len(v) = Len(t) - Len(s)
        /\ \A i \in 1..(Len(t) - Len(s)) : v[i] = t[Len(s) + i]
    BY <1>1
  <2> HIDE DEF v
  <2>2. /\ s \o v \in Seq(S) /\ Len(s \o v) = Len(t)
        /\ \A i \in 1..Len(t) : (s \o v)[i] = IF i <= Len(s) THEN s[i] ELSE v[i - Len(s)]
    BY <1>1, <2>1, JoinIs
  <2>3. ASSUME NEW i \in 1..Len(t) PROVE (s \o v)[i] = t[i]
    <3>1. CASE i <= Len(s)
      BY <1>1, <2>2, <3>1
    <3>2. CASE ~(i <= Len(s))
      <4>1. i - Len(s) \in 1..(Len(t) - Len(s)) /\ Len(s) + (i - Len(s)) = i
        BY <1>1, <3>2
      <4>2. v[i - Len(s)] = t[Len(s) + (i - Len(s))]
        BY <2>1, <4>1, Zenon
      <4> QED BY <2>2, <3>2, <4>1, <4>2, Zenon
    <3> QED BY <3>1, <3>2
  <2>4. s \o v = t
    <3> DEFINE w == s \o v
    <3>1. w \in Seq(S) /\ Len(w) = Len(t) /\ \A i \in 1..Len(t) : w[i] = t[i]
      BY <2>2, <2>3
    <3> HIDE DEF w
    <3>2. w = t
      BY <3>1
    <3> QED BY <3>2 DEF w
  <2> QED BY <2>4 DEF v
<1> QED BY <1>2, <1>3

\* What a device does is a step of the server's or no step at all.
LEMMA ReaderSteps ==
  ASSUME [ReaderNext]_rvars
  PROVE  \/ [Next]_vars
         \/ UNCHANGED <<log, epoch, disk, minted, put, up, cycle, artifacts, decayed, ids, wounded,
                        target, restores>>
<1>1. CASE ServerSide
  BY <1>1, Zenon DEF ServerSide, Next, Procs
<1>2. CASE Connect \/ Disconnect \/ Pull \/ UNCHANGED rvars
  BY <1>2 DEF Connect, Disconnect, Pull, rvars
<1>3. CASE Refresh
  BY <1>3 DEF Refresh, data, store
<1> QED BY <1>1, <1>2, <1>3 DEF ReaderNext

LEMMA ServerUntouched ==
  ASSUME ServerInv,
         UNCHANGED <<log, epoch, disk, minted, put, up, cycle, artifacts, decayed, ids, wounded,
                     target, restores>>
  PROVE  ServerInv'
<1>1. Typed'
  BY DEF ServerInv, Typed
<1>2. Alone'
  BY DEF ServerInv, Alone
<1>3. Whole'
  BY DEF ServerInv, Whole, LiveWhole, ArtifactsComplete, Writes, Listed
<1>4. IdsOnce' /\ NewestStays'
  BY OnceUntouched DEF ServerInv
<1>5. Retained'
  <2>1. /\ \A ps : Spared(ps)' <=> Spared(ps)
        /\ \A p : Removes(p)' <=> Removes(p)
        /\ \A p, q : KeepsBeside(p, q)' <=> KeepsBeside(p, q)
    BY DEF Spared, Good, Intact, Listed, Prunes, Removes, KeepsBeside
  <2> QED BY <2>1 DEF ServerInv, Retained
<1> QED BY <1>1, <1>2, <1>3, <1>4, <1>5 DEF ServerInv

\* Only a restore takes the log back, and it starts a new epoch.
LEMMA LogGrows ==
  ASSUME ServerInv, [Next]_vars
  PROVE  \/ epoch' = epoch /\ (log' = log \/ \E r \in Rev : log' = Append(log, r))
         \/ epoch' > epoch
<1>1. CASE PushEnd
  <2>1. put.rev \in Rev
    BY <1>1 DEF PushEnd, ServerInv, Typed, Nothing
  <2> QED BY <1>1, <2>1 DEF PushEnd
<1>2. CASE RestoreServe
  BY <1>2 DEF RestoreServe, ServerInv, Alone, Typed
<1>3. ASSUME NEW p \in Procs, Cycle(p) PROVE UNCHANGED <<log, epoch>>
  BY <1>3 DEF Cycle, Snapshot, ListBlobs, CopyBlob, CycleFails, Publish, PruneList, PruneVerify,
              PruneRemove, data
<1>4. CASE PushPut \/ PutRename \/ Server \/ Tick \/ RestoreCopy \/ RestoreAbandon \/ BackupCli
           \/ CliDies \/ Decay \/ Rot \/ UNCHANGED vars
  BY <1>4 DEF PushPut, PutRename, Server, Boot, Halt, Fire, Tick, RestoreCopy, RestoreAbandon,
              BackupCli, CliDies, Decay, Rot, vars, data
<1> QED BY <1>1, <1>2, <1>3, <1>4 DEF Next, Push, Operator

LEMMA RemembersServer ==
  ASSUME ServerInv, Remembers, ServerSide
  PROVE  Remembers'
<1>1. [Next]_vars
  BY Zenon DEF ServerSide, Next, Procs
<1>2. UNCHANGED <<conn, hist, stored>> /\ spanning' \in BOOLEAN
      /\ spanning' = (spanning \/ (conn /\ hist # Nothing /\ epoch' # epoch))
  BY DEF ServerSide, Remembers
<1>3. epoch \in Nat /\ epoch' \in Nat /\ log \in Seq(Rev)
  BY <1>1, ServerStep DEF ServerInv, Typed
<1>4. /\ hist # Nothing => hist.log \in Seq(Rev)
      /\ stored # Nothing => stored.log \in Seq(Rev) /\ stored.epoch \in Nat
  BY DEF Remembers, Memory
<1>5. CASE epoch' = epoch /\ (log' = log \/ \E r \in Rev : log' = Append(log, r))
  <2>1. \A s \in Seq(Rev) : IsPrefix(s, log) => IsPrefix(s, log')
    BY <1>3, <1>5, PrefixFacts
  <2> QED BY <1>2, <1>3, <1>4, <1>5, <2>1 DEF Remembers
<1>6. CASE epoch' > epoch
  <2>1. epoch' # epoch
    BY <1>3, <1>6
  <2>2. hist # Nothing => spanning'
    BY <1>2, <2>1 DEF Remembers
  <2>3. ~spanning' /\ stored # Nothing => stored.epoch < epoch'
    BY <1>2, <1>3, <1>4, <1>6 DEF Remembers
  <2>4. ~spanning' /\ stored # Nothing => stored.epoch <= epoch' /\ stored.epoch # epoch'
    BY <1>3, <1>4, <2>3
  <2> QED BY <1>2, <2>2, <2>4 DEF Remembers
<1> QED BY <1>1, <1>5, <1>6, LogGrows

LEMMA RemembersRefresh ==
  ASSUME ServerInv, Remembers, Refresh
  PROVE  Remembers'
<1>1. log \in Seq(Rev) /\ epoch \in Nat /\ UNCHANGED <<log, epoch, conn, spanning>> /\ conn
      /\ hist' = Refreshed /\ stored' \in {Refreshed, stored, Nothing}
  BY DEF Refresh, TornSave, ServerInv, Typed, data
<1> DEFINE base == IF hist # Nothing THEN hist.log
                   ELSE IF Confirmed(stored) THEN stored.log ELSE <<>>
<1>2. base \in Seq(Rev)
  BY DEF Remembers, Memory, Confirmed
<1>3. ~spanning => IsPrefix(base, log)
  <2>1. IsPrefix(<<>>, log)
    <3>1. <<>> \in Seq(Rev) /\ Len(<<>>) <= Len(log) /\ \A i \in 1..Len(<<>>) : <<>>[i] = log[i]
      BY <1>1
    <3> QED BY <1>1, <3>1, PrefixIs, Zenon
  <2> QED BY <2>1 DEF Remembers, Confirmed
<1>4. Refreshed = [is |-> "log", epoch |-> epoch, log |-> base \o SubSeq(log, Len(base) + 1, Len(log))]
  BY DEF Refreshed, EventsAfter
<1> HIDE DEF base
<1>5. SubSeq(log, Len(base) + 1, Len(log)) \in Seq(Rev)
  BY <1>1, <1>2
<1>6. base \o SubSeq(log, Len(base) + 1, Len(log)) \in Seq(Rev)
  BY <1>2, <1>5
<1>7. Refreshed \in Memory /\ Refreshed # Nothing /\ Refreshed.epoch = epoch
  BY <1>1, <1>4, <1>6 DEF Memory, Nothing
<1>8. ~spanning => IsPrefix(Refreshed.log, log)
  <2>1. IsPrefix(log, log)
    BY <1>1, PrefixIs
  <2>2. ~spanning => Refreshed.log = log
    BY <1>1, <1>2, <1>3, <1>4, PrefixFacts
  <2> QED BY <2>1, <2>2
<1>9. stored' \in Memory
  BY <1>1, <1>7 DEF Remembers, Memory
<1>10. ~spanning /\ stored' # Nothing =>
         stored'.epoch <= epoch /\ (stored'.epoch = epoch => IsPrefix(stored'.log, log))
  BY <1>1, <1>7, <1>8 DEF Remembers
<1> QED BY <1>1, <1>7, <1>8, <1>9, <1>10 DEF Remembers

LEMMA ReaderStart ==
  ASSUME ReaderInit
  PROVE  ReaderInv
  BY ServerStart DEF ReaderInit, ReaderInv, Remembers, Memory

LEMMA ReaderStep ==
  ASSUME ReaderInv, [ReaderNext]_rvars
  PROVE  ReaderInv'
<1>1. ServerInv'
  BY ReaderSteps, ServerStep, ServerUntouched DEF ReaderInv
<1>2. CASE ServerSide
  BY <1>1, <1>2, RemembersServer DEF ReaderInv
<1>3. CASE Refresh
  BY <1>1, <1>3, RemembersRefresh DEF ReaderInv
<1>4. CASE Connect \/ Disconnect \/ Pull \/ UNCHANGED rvars
  <2>1. UNCHANGED <<log, epoch, stored, spanning>>
    BY <1>4 DEF Connect, Disconnect, Pull, rvars, vars, reader, data
  <2>2. /\ conn' \in BOOLEAN
        /\ \/ hist' = Nothing
           \/ hist' = hist /\ (conn => conn')
    <3>1. conn \in BOOLEAN
      BY DEF ReaderInv, Remembers
    <3>2. CASE Connect \/ Pull
      BY <3>1, <3>2 DEF Connect, Pull
    <3>3. CASE Disconnect
      BY <3>3 DEF Disconnect
    <3>4. CASE UNCHANGED rvars
      BY <3>1, <3>4 DEF rvars, reader
    <3> QED BY <1>4, <3>2, <3>3, <3>4
  <2> QED BY <1>1, <2>1, <2>2 DEF ReaderInv, Remembers, Memory
<1> QED BY <1>2, <1>3, <1>4 DEF ReaderNext

(***************************************************************************)
(* RevisionHistory's log is the server's, under the server's epoch, over   *)
(* restores, new connections and saves that are cut off.                   *)
(***************************************************************************)
THEOREM HistoryIsTrue == ReaderSpec => []HistoryIsServers
<1>1. ReaderInit => ReaderInv
  BY ReaderStart
<1>2. ReaderInv /\ [ReaderNext]_rvars => ReaderInv'
  BY ReaderStep
<1>3. ReaderInv => HistoryIsServers
  BY DEF ReaderInv, Remembers, HistoryIsServers
<1> QED BY <1>1, <1>2, <1>3, PTL DEF ReaderSpec

(***************************************************************************)
(* The server's own guarantees, with a device that reads the log.          *)
(***************************************************************************)
THEOREM DataIsWholeBesideReader ==
  ReaderSpec => [](ArtifactsComplete /\ LiveWhole) /\ RetentionKeepsGood
<1>1. ReaderInit => ReaderInv
  BY ReaderStart
<1>2. ReaderInv /\ [ReaderNext]_rvars => ReaderInv'
  BY ReaderStep
<1>3. ReaderInv => ArtifactsComplete /\ LiveWhole
  BY DEF ReaderInv, ServerInv, Whole
<1>4. ReaderInv /\ [ReaderNext]_rvars =>
        [UNCHANGED <<decayed, wounded>> /\ (\E a \in Listed : Good(a))
           => (\E a \in Listed : Good(a))']_vars
  <2>1. UNCHANGED artifacts /\ UNCHANGED <<decayed, wounded>> =>
          ((\E a \in Listed : Good(a)) => (\E a \in Listed : Good(a))')
    BY DEF Listed, Good, Intact
  <2> QED BY <2>1, ReaderSteps, RetentionStep DEF ReaderInv
<1> QED BY <1>1, <1>2, <1>3, <1>4, PTL DEF ReaderSpec, RetentionKeepsGood
=============================================================================
