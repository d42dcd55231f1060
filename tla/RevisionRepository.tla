------------------------- MODULE RevisionRepository -------------------------
(***************************************************************************)
(* The server's write path: the tables of the SQLite database that hold    *)
(* revisions, the content-addressed blob store beside it, and the push     *)
(* handler that moves a batch of revisions into both.                      *)
(*                                                                         *)
(* A push handler is a process that runs between the awaits of             *)
(* POST /vaults/:vaultId/revisions: for each revision of its batch it      *)
(* checks that the revision could be committed (Check), writes the blob    *)
(* (PutRename, PutSync) and commits the row in one write transaction       *)
(* (Commit).  Handlers interleave at those points, the process may crash   *)
(* at any of them, and a restart sweeps unreferenced blobs before it       *)
(* accepts connections again.                                              *)
(*                                                                         *)
(* A table is a set of rows.  Payload bytes, hashes, timestamps and the    *)
(* membership row behind a device are abstracted: a blob stands for its    *)
(* hash, a header for its canonical bytes, and a pair of a device and a    *)
(* vault for the (membership, user, device) triple that is looked up.      *)
(***************************************************************************)
EXTENDS Integers, FiniteSets, Sequences

SumOf == INSTANCE FiniteSetsExt

CONSTANTS
    Revision,      \* revision identifiers
    Vault,
    File,
    Device,
    Blob,          \* content addresses
    Key,           \* idempotency keys
    Item,          \* the revisions clients may push: header, blob and key
    Batch,         \* the push bodies clients may send: sets of items
    Process,       \* push handlers that may run at the same time
    BlobSize,      \* bytes of a blob
    Quota,         \* effective quota of a vault, in bytes
    Revocable,     \* (device, vault) pairs an owner may revoke
    MaxRequests,   \* bound on the pushes of a behaviour
    MaxFaults      \* bound on crashes and I/O faults of a behaviour

Header == [revisionId : Revision, vaultId : Vault, fileId : File,
           parents : SUBSET Revision, deviceId : Device]

ItemType == [header : Header, blob : Blob, key : Key]

(***************************************************************************)
(* What the wire schema guarantees of an item: a revision is not its own   *)
(* parent (the canonical order of the parents is kept by using a set).     *)
(***************************************************************************)
ASSUME ItemAssumption ==
    /\ Item \subseteq ItemType
    /\ \A i \in Item : i.header.revisionId \notin i.header.parents
    /\ Batch \subseteq SUBSET Item
    /\ \A b \in Batch : IsFiniteSet(b)

ASSUME BoundAssumption ==
    /\ BlobSize \in [Blob -> Nat]
    /\ Quota \in [Vault -> Nat]
    /\ Revocable \subseteq Device \X Vault
    /\ MaxRequests \in Nat
    /\ MaxFaults \in Nat

VARIABLES
    revisions,     \* rows of table revisions
    files,         \* rows of table files
    heads,         \* rows of table file_heads
    events,        \* rows of table vault_events
    nextSequence,  \* vaults.next_server_sequence
    idempotency,   \* rows of table idempotency_records
    authorized,    \* the (device, vault) pairs with active membership and device
    blobs,         \* state of the directory entry of each blob
    request,       \* state of each push handler
    server,        \* "up", "down" or "sweeping"
    receipts,      \* every receipt a completed response has carried
    requests,      \* pushes so far
    faults         \* crashes and I/O faults so far

tables == <<revisions, files, heads, events, nextSequence, idempotency>>
vars == <<tables, authorized, blobs, request, server, receipts, requests, faults>>

RevisionRow == [header : Header, blob : Blob, serverSequence : Nat]
FileRow == [fileId : File, vaultId : Vault]
HeadRow == [fileId : File, revisionId : Revision]
EventRow == [vaultId : Vault, serverSequence : Nat, receipt : RevisionRow]
IdempotencyRow ==
    [deviceId : Device, key : Key, hash : Header \X Blob,
     status : {"accepted", "replayed"}, receipt : RevisionRow]

(***************************************************************************)
(* A directory entry is absent, renamed into place but not yet fsynced,    *)
(* durable, or unlinked without an fsync.                                  *)
(***************************************************************************)
EntryState == {"absent", "renamed", "durable", "unlinked"}
Visible(b) == blobs[b] \in {"renamed", "durable"}

Rejection == {"FORBIDDEN", "REVISION_ID_REUSE", "IDEMPOTENCY_KEY_REUSE",
              "REPOSITORY_INTEGRITY", "FILE_ALREADY_EXISTS",
              "PARENT_FILE_MISMATCH", "MISSING_PARENT", "HEAD_SET_CHANGED"}

PC == {"idle", "check", "put", "sync", "commit", "reply"}

Request == [pc : PC, todo : Seq(Item), granted : SUBSET RevisionRow,
            codes : SUBSET Rejection]

Idle == [pc |-> "idle", todo |-> <<>>, granted |-> {}, codes |-> {}]

-----------------------------------------------------------------------------
(* Lookups.                                                                *)

RowsOf(id) == {r \in revisions : r.header.revisionId = id}

\* getExistingRevision: by id alone, whatever the vault.
Existing(i) == RowsOf(i.header.revisionId)

\* getHeads: the current head set of a file.
HeadsOf(f) == {h.revisionId : h \in {h \in heads : h.fileId = f}}

VaultBlobs(v) == {r.blob : r \in {r \in revisions : r.header.vaultId = v}}

\* computeVaultStorageBytes: each distinct blob is charged once.
ComputeVaultStorageBytes(v) ==
    SumOf!MapThenSumSet(LAMBDA b : BlobSize[b], VaultBlobs(v))

\* The hashed request: actor, blob and header.
RequestHash(i) == <<i.header, i.blob>>

IdempotencyOf(i) ==
    {d \in idempotency : d.deviceId = i.header.deviceId /\ d.key = i.key}

Authorized(i) == <<i.header.deviceId, i.header.vaultId>> \in authorized

\* storedRevisionMatches
Matches(r, i) == r.header = i.header /\ r.blob = i.blob

\* assertWithinQuota, negated
ExceedsQuota(i) ==
    LET v == i.header.vaultId IN
    /\ i.blob \notin VaultBlobs(v)
    /\ ComputeVaultStorageBytes(v) + BlobSize[i.blob] > Quota[v]

\* A reconciliation names two or more parents.
Reconciles(h) == \E a, b \in h.parents : a # b

ParentMissing(h) == \E id \in h.parents : RowsOf(id) = {}

\* Faulty variant: one of the parents still being a head is enough.
AllHeadsRetired(h) == h.parents \cap HeadsOf(h.fileId) = {}

HeadSetChanged(h) == h.parents # HeadsOf(h.fileId)

(***************************************************************************)
(* assertFileGraphCommittable.  A root must name a file that does not      *)
(* exist; every other revision must name committed parents of its own file *)
(* and vault, and a reconciliation (two or more parents) must name exactly *)
(* the current heads.  One parent may be a revision that already has a     *)
(* child: that is how two heads come to exist.  (The code stops at the     *)
(* first bad parent; here a missing one is reported before a misplaced     *)
(* one.)                                                                   *)
(***************************************************************************)
FileGraphError(i) ==
    LET h == i.header
        file == {f \in files : f.fileId = h.fileId}
        foreign == \E f \in file : f.vaultId # h.vaultId
        parents == {r \in revisions : r.header.revisionId \in h.parents}
    IN  IF h.parents = {}
        THEN IF file = {} THEN "ok"
             ELSE IF foreign THEN "PARENT_FILE_MISMATCH"
             ELSE "FILE_ALREADY_EXISTS"
        ELSE IF file = {} THEN "MISSING_PARENT"
        ELSE IF foreign THEN "PARENT_FILE_MISMATCH"
        ELSE IF ParentMissing(h) THEN "MISSING_PARENT"
        ELSE IF \E r \in parents : \/ r.header.vaultId # h.vaultId
                                   \/ r.header.fileId # h.fileId
             THEN "PARENT_FILE_MISMATCH"
        ELSE IF Reconciles(h) /\ HeadSetChanged(h)
             THEN "HEAD_SET_CHANGED"
        ELSE "ok"

\* The checks for a revision id that is not stored yet, in the code's order.
NewRevisionError(i) ==
    IF \E d \in IdempotencyOf(i) : d.hash # RequestHash(i)
    THEN "IDEMPOTENCY_KEY_REUSE"
    ELSE IF IdempotencyOf(i) # {} THEN "REPOSITORY_INTEGRITY"
    ELSE IF ExceedsQuota(i) THEN "QUOTA_EXCEEDED"
    ELSE FileGraphError(i)

\* assertWouldCommit: the read-only mirror of the commit's reject conditions.
WouldCommit(i) ==
    IF ~Authorized(i) THEN "FORBIDDEN"
    ELSE IF \E r \in Existing(i) : ~Matches(r, i) THEN "REVISION_ID_REUSE"
    ELSE IF Existing(i) # {} THEN "ok"
    ELSE NewRevisionError(i)

\* Faulty variant: the commit relies on the read-only check before the put.
TrustPrecheck(i) == IF Existing(i) = {} THEN "ok" ELSE "replay"

\* commitPrepared up to its writes; a replay also checks the stored request.
CommitVerdict(i) ==
    IF ~Authorized(i) THEN "FORBIDDEN"
    ELSE IF \E r \in Existing(i) : ~Matches(r, i) THEN "REVISION_ID_REUSE"
    ELSE IF Existing(i) # {}
         THEN IF \E d \in IdempotencyOf(i) : d.hash # RequestHash(i)
              THEN "IDEMPOTENCY_KEY_REUSE" ELSE "replay"
    ELSE NewRevisionError(i)

-----------------------------------------------------------------------------
(* The write transaction.                                                  *)

IdempotencyRecord(i, status, row) ==
    [deviceId |-> i.header.deviceId, key |-> i.key, hash |-> RequestHash(i),
     status |-> status, receipt |-> row]

NewRow(i) == [header |-> i.header, blob |-> i.blob,
              serverSequence |-> nextSequence[i.header.vaultId]]

\* validateAndPrepareFileGraph: only a root creates its file row.
FilesAfter(i) ==
    IF i.header.parents = {}
    THEN files \cup {[fileId |-> i.header.fileId, vaultId |-> i.header.vaultId]}
    ELSE files

HeadsAfter(i) ==
    {h \in heads : ~(h.fileId = i.header.fileId /\ h.revisionId \in i.header.parents)}
      \cup {[fileId |-> i.header.fileId, revisionId |-> i.header.revisionId]}

\* advanceCursor
AdvanceCursor(v) == nextSequence' = [nextSequence EXCEPT ![v] = @ + 1]

\* commitNewRevision
CommitNewRevision(i) ==
    LET row == NewRow(i)
        v == i.header.vaultId
    IN  /\ files' = FilesAfter(i)
        /\ revisions' = revisions \cup {row}
        /\ heads' = HeadsAfter(i)
        /\ events' = events \cup
             {[vaultId |-> v, serverSequence |-> row.serverSequence, receipt |-> row]}
        /\ AdvanceCursor(v)
        /\ idempotency' = idempotency \cup {IdempotencyRecord(i, "accepted", row)}

\* replayExisting: a first replay under a new key records its answer.
ReplayExisting(i) ==
    /\ idempotency' =
         IF IdempotencyOf(i) # {} THEN idempotency
         ELSE idempotency \cup
                {IdempotencyRecord(i, "replayed", r) : r \in Existing(i)}
    /\ UNCHANGED <<revisions, files, heads, events, nextSequence>>

\* Faulty variant: a replay is given the next sequence.
ReplayReceiptRenumbered(i) == {NewRow(i)}

\* The receipt a replay answers with: the stored response, or the stored row.
ReplayReceipt(i) ==
    IF IdempotencyOf(i) # {}
    THEN {d.receipt : d \in IdempotencyOf(i)}
    ELSE Existing(i)

-----------------------------------------------------------------------------
(* The push handler.                                                       *)

(***************************************************************************)
(* orderBatch, by its contract: any order of the batch in which a parent   *)
(* that is in the batch comes before its children.  A cyclic batch has no  *)
(* such order.  Module OrderBatch checks the algorithm against this.       *)
(***************************************************************************)
Orders(b) ==
    {s \in [1..Cardinality(b) -> b] :
       /\ \A m, n \in DOMAIN s : s[m] = s[n] => m = n
       /\ \A m, n \in DOMAIN s :
            s[m].header.revisionId \in s[n].header.parents => m < n}

\* precheckVaultQuota over the batch: the blobs it would add, each once.
PrecheckExceedsQuota(b, v) ==
    LET new == {i.blob : i \in b} \ VaultBlobs(v) IN
    /\ new # {}
    /\ ComputeVaultStorageBytes(v)
         + SumOf!MapThenSumSet(LAMBDA x : BlobSize[x], new) > Quota[v]

\* The identity checks and the duplicate check that reject a whole batch.
BatchAccepted(b, d, v) ==
    /\ b # {}
    /\ \A i \in b : i.header.deviceId = d /\ i.header.vaultId = v
    /\ \A i, j \in b : i.header.revisionId = j.header.revisionId => i = j
    /\ <<d, v>> \in authorized
    /\ ~PrecheckExceedsQuota(b, v)

\* The request-level part of the handler, up to the quota pre-check.
StartPush(p) ==
    /\ server = "up"
    /\ requests < MaxRequests
    /\ request[p] = Idle
    /\ \E b \in Batch, d \in Device, v \in Vault :
         /\ BatchAccepted(b, d, v)
         /\ \E s \in Orders(b) :
              request' = [request EXCEPT ![p] = [Idle EXCEPT !.pc = "check", !.todo = s]]
    /\ requests' = requests + 1
    /\ UNCHANGED <<tables, authorized, blobs, server, receipts, faults>>

Current(p) == Head(request[p].todo)

\* The loop's next iteration, or the end of the loop.
Advance(r) ==
    [pc |-> IF Len(r.todo) = 1 THEN "reply" ELSE "check",
     todo |-> Tail(r.todo), granted |-> r.granted, codes |-> r.codes]

Reject(p, code) ==
    request' = [request EXCEPT ![p] =
                  [Advance(request[p]) EXCEPT !.codes = @ \cup {code}]]

\* QUOTA_EXCEEDED answers 413 for the whole request, other faults 500: the
\* results collected so far are not reported.
Abort(p) == request' = [request EXCEPT ![p] = Idle]

\* assertCommittable
Check(p) ==
    /\ request[p].pc = "check"
    /\ LET code == WouldCommit(Current(p)) IN
         \/ code = "ok" /\ request' = [request EXCEPT ![p].pc = "put"]
         \/ code = "QUOTA_EXCEEDED" /\ Abort(p)
         \/ code \in Rejection /\ Reject(p, code)
    /\ UNCHANGED <<tables, authorized, blobs, server, receipts, requests, faults>>

(***************************************************************************)
(* BlobStore.put.  Puts of one hash are serialized.  If the entry is       *)
(* absent the bytes are written to a temporary file and renamed into       *)
(* place; either way the directory is fsynced before put returns.          *)
(***************************************************************************)
PutRename(p) ==
    LET b == Current(p).blob IN
    /\ request[p].pc = "put"
    /\ \A q \in Process : request[q].pc = "sync" => Current(q).blob # b
    /\ blobs' = IF Visible(b) THEN blobs ELSE [blobs EXCEPT ![b] = "renamed"]
    /\ request' = [request EXCEPT ![p].pc = "sync"]
    /\ UNCHANGED <<tables, authorized, server, receipts, requests, faults>>

PutSync(p) ==
    /\ request[p].pc = "sync"
    /\ blobs' = [blobs EXCEPT ![Current(p).blob] = "durable"]
    /\ request' = [request EXCEPT ![p].pc = "commit"]
    /\ UNCHANGED <<tables, authorized, server, receipts, requests, faults>>

Fault(p) ==
    /\ faults < MaxFaults
    /\ request[p].pc \in {"check", "put", "sync", "commit"}
    /\ Abort(p)
    /\ faults' = faults + 1
    /\ UNCHANGED <<tables, authorized, blobs, server, receipts, requests>>

Grant(p, rows) ==
    request' = [request EXCEPT ![p] =
                  [Advance(request[p]) EXCEPT !.granted = @ \cup rows]]

\* commitRevision, the authoritative pass under the write lock.
Commit(p) ==
    LET i == Current(p)
        verdict == CommitVerdict(i)
    IN  /\ request[p].pc = "commit"
        /\ \/ /\ verdict = "ok"
              /\ CommitNewRevision(i)
              /\ Grant(p, {NewRow(i)})
           \/ /\ verdict = "replay"
              /\ ReplayExisting(i)
              /\ Grant(p, ReplayReceipt(i))
           \/ verdict = "QUOTA_EXCEEDED" /\ Abort(p) /\ UNCHANGED tables
           \/ verdict \in Rejection /\ Reject(p, verdict) /\ UNCHANGED tables
        /\ UNCHANGED <<authorized, blobs, server, receipts, requests, faults>>

\* The 200 response with the per-revision results; it may or may not arrive.
Reply(p) ==
    /\ request[p].pc = "reply"
    /\ receipts' = receipts \cup request[p].granted
    /\ request' = [request EXCEPT ![p] = Idle]
    /\ UNCHANGED <<tables, authorized, blobs, server, requests, faults>>

-----------------------------------------------------------------------------
(* The rest of the server.                                                 *)

\* revokeMembership, or the revocation of one device.
Revoke ==
    /\ server = "up"
    /\ \E a \in Revocable \cap authorized : authorized' = authorized \ {a}
    /\ UNCHANGED <<tables, blobs, request, server, receipts, requests, faults>>

\* pruneExpiredRecords: a replay record past its deadline is deleted.
PruneExpired ==
    /\ server = "up"
    /\ \E d \in idempotency : idempotency' = idempotency \ {d}
    /\ UNCHANGED <<revisions, files, heads, events, nextSequence, authorized,
                   blobs, request, server, receipts, requests, faults>>

(***************************************************************************)
(* A crash loses every handler.  The database keeps its committed rows     *)
(* (WAL, synchronous = FULL); an entry that was not fsynced may or may not *)
(* have reached the disk.                                                  *)
(***************************************************************************)
Crash ==
    /\ faults < MaxFaults
    /\ server # "down"
    /\ server' = "down"
    /\ blobs' \in {c \in [Blob -> {"absent", "durable"}] :
                     \A b \in Blob : blobs[b] \in {"absent", "durable"} => c[b] = blobs[b]}
    /\ request' = [p \in Process |-> Idle]
    /\ faults' = faults + 1
    /\ UNCHANGED <<tables, authorized, receipts, requests>>

Restart ==
    /\ server = "down"
    /\ server' = "sweeping"
    /\ UNCHANGED <<tables, authorized, blobs, request, receipts, requests, faults>>

Referenced == {r.blob : r \in revisions}

\* Faulty variant: the sweep also runs while pushes are served.
SweepWhileServing ==
    /\ server # "down"
    /\ \E b \in Blob \ Referenced :
         Visible(b) /\ blobs' = [blobs EXCEPT ![b] = "unlinked"]
    /\ UNCHANGED <<tables, authorized, request, server, receipts, requests, faults>>

\* sweepOrphanedBlobs removes one hash after another.
SweepOne ==
    /\ server = "sweeping"
    /\ \E b \in Blob \ Referenced :
         Visible(b) /\ blobs' = [blobs EXCEPT ![b] = "unlinked"]
    /\ UNCHANGED <<tables, authorized, request, server, receipts, requests, faults>>

Listen ==
    /\ server = "sweeping"
    /\ \A b \in Blob : Visible(b) => b \in Referenced
    /\ server' = "up"
    /\ UNCHANGED <<tables, authorized, blobs, request, receipts, requests, faults>>

-----------------------------------------------------------------------------

Init ==
    /\ revisions = {} /\ files = {} /\ heads = {} /\ events = {}
    /\ nextSequence = [v \in Vault |-> 1]
    /\ idempotency = {}
    /\ authorized = {<<i.header.deviceId, i.header.vaultId>> : i \in Item}
    /\ blobs = [b \in Blob |-> "absent"]
    /\ request = [p \in Process |-> Idle]
    /\ server = "up"
    /\ receipts = {}
    /\ requests = 0
    /\ faults = 0

Handler(p) ==
    StartPush(p) \/ Check(p) \/ PutRename(p) \/ PutSync(p) \/ Fault(p)
      \/ Commit(p) \/ Reply(p)

Next ==
    \/ \E p \in Process : Handler(p)
    \/ Revoke \/ PruneExpired \/ Crash \/ Restart \/ SweepOne \/ Listen

Spec == Init /\ [][Next]_vars

-----------------------------------------------------------------------------
(* Correctness.                                                            *)

\* Every table, handler and directory entry has the shape the code gives it.
TypeOK ==
    /\ revisions \subseteq RevisionRow
    /\ files \subseteq FileRow
    /\ heads \subseteq HeadRow
    /\ events \subseteq EventRow
    /\ nextSequence \in [Vault -> Nat \ {0}]
    /\ idempotency \subseteq IdempotencyRow
    /\ authorized \subseteq Device \X Vault
    /\ blobs \in [Blob -> EntryState]
    /\ request \in [Process -> Request]
    /\ \A p \in Process : request[p].pc \in {"idle", "reply"} <=> request[p].todo = <<>>
    /\ server \in {"up", "down", "sweeping"}
    /\ receipts \subseteq RevisionRow
    /\ requests \in 0..MaxRequests
    /\ faults \in 0..MaxFaults

\* The event log of a vault has no gap and no repeated sequence, whatever
\* handlers interleave: its events are exactly its committed revisions, and
\* their sequences are 1 .. next_server_sequence - 1 (commitNewRevision).
LogContiguous ==
    /\ events = {[vaultId |-> r.header.vaultId, serverSequence |-> r.serverSequence,
                  receipt |-> r] : r \in revisions}
    /\ \A v \in Vault :
         {r.serverSequence : r \in {r \in revisions : r.header.vaultId = v}}
           = 1 .. (nextSequence[v] - 1)
    /\ \A r, s \in revisions :
         r.header.vaultId = s.header.vaultId /\ r.serverSequence = s.serverSequence
           => r = s

\* A revision id is committed at most once, in any vault, however often and
\* under whatever keys it is pushed (commitPrepared's replay path).
CommittedOnce ==
    \A r, s \in revisions : r.header.revisionId = s.header.revisionId => r = s

\* A committed revision's parents are committed, in its file and vault, at
\* lower sequences: whoever reads the log in order meets parents first.
ParentsPrecede ==
    \A r \in revisions : \A id \in r.header.parents : \E q \in revisions :
        /\ q.header.revisionId = id
        /\ q.header.vaultId = r.header.vaultId
        /\ q.header.fileId = r.header.fileId
        /\ q.serverSequence < r.serverSequence

HasChild(id) == \E c \in revisions : id \in c.header.parents

\* The head table, which replaceParentHeads maintains row by row, is exactly
\* the set of leaves of the revision graph.
HeadsAreLeaves ==
    heads = {[fileId |-> r.header.fileId, revisionId |-> r.header.revisionId] :
               r \in {r \in revisions : ~HasChild(r.header.revisionId)}}

\* A file is created by exactly one root revision, and every revision of the
\* file belongs to that vault: two devices that create the same file id at
\* once cannot both succeed, and no vault can write into another one's file.
OneRootPerFile ==
    /\ \A r, s \in revisions :
         /\ r.header.parents = {} /\ s.header.parents = {}
         /\ r.header.fileId = s.header.fileId
         => r = s
    /\ files = {[fileId |-> r.header.fileId, vaultId |-> r.header.vaultId] :
                  r \in {r \in revisions : r.header.parents = {}}}
    /\ \A r \in revisions :
         [fileId |-> r.header.fileId, vaultId |-> r.header.vaultId] \in files

\* The bytes of every committed revision are durably on disk: no crash point
\* of put, no crash and no startup sweep can leave a row without its blob.
BlobsDurable == \A r \in revisions : blobs[r.blob] = "durable"

\* Why: a handler at its commit holds a durable blob, and the sweep runs only
\* while no handler does (index.ts awaits it before it listens).
HandlersReady ==
    /\ \A p \in Process :
         request[p].pc = "commit" => blobs[Current(p).blob] = "durable"
    /\ server # "up" => \A p \in Process : request[p] = Idle

\* The distinct blobs of a vault never exceed its quota, although both quota
\* checks run before the bytes are charged (assertWithinQuota in the commit).
QuotaRespected == \A v \in Vault : ComputeVaultStorageBytes(v) <= Quota[v]

\* Every receipt a response has carried, first answer or replay, is the
\* committed row itself: a retry can never be told another sequence.
ReceiptsTrue ==
    /\ receipts \subseteq revisions
    /\ \A p \in Process : request[p].granted \subseteq revisions

\* A stored replay record always has its revision, so no push is ever answered
\* REPOSITORY_INTEGRITY, in spite of pruning and crashes.
IdempotencyBacked ==
    /\ \A d \in idempotency :
         d.receipt \in revisions /\ d.hash = <<d.receipt.header, d.receipt.blob>>
    /\ \A p \in Process : "REPOSITORY_INTEGRITY" \notin request[p].codes

\* One idempotency key of a device never stands for two requests.
KeysUnique ==
    \A d, e \in idempotency : d.deviceId = e.deviceId /\ d.key = e.key => d = e

\* A device revoked while its push is in flight commits nothing more.
RevokedNeverCommits ==
    [][\A r \in revisions' \ revisions :
         <<r.header.deviceId, r.header.vaultId>> \in authorized]_vars

\* A reconciliation that commits leaves its file with itself as only head,
\* even if a peer added a head between the pre-check and the commit.
ReconciliationClosesFile ==
    [][\A r \in revisions' \ revisions :
         Reconciles(r.header) =>
           {h \in heads' : h.fileId = r.header.fileId}
             = {[fileId |-> r.header.fileId, revisionId |-> r.header.revisionId]}]_vars

-----------------------------------------------------------------------------
(* Refinement.                                                             *)

Log == INSTANCE VaultLog WITH
    Entry <- {RequestHash(i) : i \in Item},
    log <- revisions,
    length <- [v \in Vault |-> nextSequence[v] - 1]

\* Every step of the concurrent, crashing server is an atomic legal append to
\* one vault's log, or changes nothing a client can see.
ImplementsVaultLog == Log!LogSpec
=============================================================================
