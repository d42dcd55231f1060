---------------------- MODULE RevisionRepositoryProofs ----------------------
(***************************************************************************)
(* Proofs about RevisionRepository, for every set of items, batches,       *)
(* vaults, handlers and every bound; and about OrderBatch, the order in    *)
(* which the handler commits a batch.                                      *)
(***************************************************************************)
EXTENDS RevisionRepository, OrderBatch, TLAPS, FiniteSetTheorems, SequenceTheorems, WellFoundedInduction

-----------------------------------------------------------------------------
(* Sequences and requests.                                                 *)

\* An order of a non-empty batch is a non-empty sequence of its items.
LEMMA OrdersAreSequences ==
    ASSUME NEW b \in Batch, b # {}, NEW s \in Orders(b)
    PROVE  s \in Seq(Item) /\ s # <<>>
<1>1. b \subseteq Item /\ IsFiniteSet(b)
  BY ItemAssumption
<1>2. Cardinality(b) \in Nat /\ Cardinality(b) # 0
  BY <1>1, FS_CardinalityType, FS_EmptySet
<1>3. s \in [1..Cardinality(b) -> b]
  BY DEF Orders
<1>4. s \in Seq(b) /\ Len(s) = Cardinality(b)
  BY <1>2, <1>3
<1>. QED
  BY <1>1, <1>2, <1>4

\* The head of a non-empty sequence of items is an item, the tail is a
\* sequence of items, and it is empty exactly when one item was left.
LEMMA HeadTail ==
    ASSUME NEW s \in Seq(Item), s # <<>>
    PROVE  /\ Head(s) \in Item
           /\ Tail(s) \in Seq(Item)
           /\ Len(s) = 1 <=> Tail(s) = <<>>
<1>1. Len(s) \in Nat /\ Len(s) # 0
  BY EmptySeq
<1>2. Tail(s) \in Seq(Item) /\ Len(Tail(s)) = Len(s) - 1
  BY HeadTailProperties
<1>3. Head(s) \in Item
  BY HeadTailProperties
<1>4. Tail(s) = <<>> <=> Len(Tail(s)) = 0
  BY <1>2, EmptySeq
<1>. QED
  BY <1>1, <1>2, <1>3, <1>4

Active == {"check", "put", "sync", "commit"}

\* A handler inside the loop has an item in hand.
LEMMA CurrentIsItem ==
    ASSUME TypeOK, NEW p \in Process, request[p].pc \in Active
    PROVE  /\ request[p] \in Request
           /\ request[p].todo \in Seq(Item)
           /\ request[p].todo # <<>>
           /\ Current(p) \in Item
<1>1. request[p] \in Request
  BY DEF TypeOK
<1>2. request[p].todo \in Seq(Item) /\ request[p].todo # <<>>
  BY <1>1 DEF TypeOK, Active, Request
<1>3. Current(p) \in Item
  BY <1>2, HeadTail DEF Current
<1>. QED
  BY <1>1, <1>2, <1>3

\* A request keeps its shape when the loop moves on.
LEMMA AdvanceTyped ==
    ASSUME NEW r \in Request, r.todo # <<>>
    PROVE  /\ Advance(r) \in Request
           /\ Advance(r).granted = r.granted
           /\ Advance(r).codes = r.codes
           /\ Advance(r).pc \in {"check", "reply"}
           /\ Advance(r).pc = "reply" <=> Advance(r).todo = <<>>
<1>1. /\ Tail(r.todo) \in Seq(Item)
      /\ Len(r.todo) = 1 <=> Tail(r.todo) = <<>>
  BY HeadTail DEF Request
<1>. QED
  BY <1>1 DEF Advance, Request, PC


\* The part of TypeOK that is about handlers.
RequestsOK ==
    /\ request \in [Process -> Request]
    /\ \A p \in Process : request[p].pc \in {"idle", "reply"} <=> request[p].todo = <<>>

\* Replacing one handler's state by a well-formed one keeps the handlers typed.
LEMMA RequestUpdate ==
    ASSUME RequestsOK, NEW p \in Process, NEW r \in Request,
           r.pc \in {"idle", "reply"} <=> r.todo = <<>>,
           request' = [request EXCEPT ![p] = r]
    PROVE  RequestsOK'
<1>1. request' \in [Process -> Request]
  BY DEF RequestsOK
<1>2. ASSUME NEW q \in Process
      PROVE  request'[q].pc \in {"idle", "reply"} <=> request'[q].todo = <<>>
  <2>1. CASE q = p
    BY <2>1 DEF RequestsOK
  <2>2. CASE q # p
    <3>1. request'[q] = request[q]
      BY <2>2 DEF RequestsOK
    <3>. QED BY <3>1, Zenon DEF RequestsOK
  <2>. QED BY <2>1, <2>2
<1>. QED
  BY <1>1, <1>2 DEF RequestsOK

\* An idle handler is well formed.
LEMMA IdleTyped == Idle \in Request /\ Idle.pc = "idle" /\ Idle.todo = <<>>
  BY EmptySeq DEF Idle, Request, PC

\* The three ways an iteration of the loop ends keep the handlers typed.
LEMMA IterationEnds ==
    ASSUME RequestsOK, NEW p \in Process, request[p].pc \in Active
    PROVE  /\ Abort(p) => RequestsOK'
           /\ \A code \in Rejection : Reject(p, code) => RequestsOK'
           /\ \A rows \in SUBSET RevisionRow : Grant(p, rows) => RequestsOK'
           /\ \A pc \in Active :
                request' = [request EXCEPT ![p].pc = pc] => RequestsOK'
<1>1. /\ request[p] \in Request
      /\ request[p].todo # <<>>
  BY DEF RequestsOK, Active
<1>. DEFINE a == Advance(request[p])
<1>2. /\ a \in Request
      /\ a.pc \in {"idle", "reply"} <=> a.todo = <<>>
  BY <1>1, AdvanceTyped
<1>3. Abort(p) => RequestsOK'
  BY IdleTyped, RequestUpdate DEF Abort
<1>4. ASSUME NEW code \in Rejection, Reject(p, code) PROVE RequestsOK'
  <2>. DEFINE r == [a EXCEPT !.codes = @ \cup {code}]
  <2>1. r \in Request /\ r.pc = a.pc /\ r.todo = a.todo
    BY <1>2 DEF Request
  <2>2. request' = [request EXCEPT ![p] = r]
    BY <1>4 DEF Reject
  <2>. HIDE DEF r, a
  <2>. QED BY <1>2, <2>1, <2>2, RequestUpdate
<1>5. ASSUME NEW rows \in SUBSET RevisionRow, Grant(p, rows) PROVE RequestsOK'
  <2>. DEFINE r == [a EXCEPT !.granted = @ \cup rows]
  <2>1. r \in Request /\ r.pc = a.pc /\ r.todo = a.todo
    BY <1>2 DEF Request
  <2>2. request' = [request EXCEPT ![p] = r]
    BY <1>5 DEF Grant
  <2>. HIDE DEF r, a
  <2>. QED BY <1>2, <2>1, <2>2, RequestUpdate
<1>6. ASSUME NEW pc \in Active, request' = [request EXCEPT ![p].pc = pc]
      PROVE RequestsOK'
  <2>. DEFINE r == [request[p] EXCEPT !.pc = pc]
  <2>1. r \in Request /\ r.pc = pc /\ r.todo = request[p].todo
    BY <1>1 DEF Request, PC, Active
  <2>2. request' = [request EXCEPT ![p] = r]
    BY <1>6 DEF RequestsOK
  <2>3. r.pc \in {"idle", "reply"} <=> r.todo = <<>>
    BY <1>1, <2>1 DEF Active
  <2>. HIDE DEF r
  <2>. QED BY <2>1, <2>2, <2>3, RequestUpdate
<1>. QED
  BY <1>3, <1>4, <1>5, <1>6

\* The rows a commit writes have the tables' shapes.
LEMMA RowsTyped ==
    ASSUME TypeOK, NEW i \in Item
    PROVE  /\ NewRow(i) \in RevisionRow
           /\ FilesAfter(i) \subseteq FileRow
           /\ HeadsAfter(i) \subseteq HeadRow
           /\ \A s \in {"accepted", "replayed"}, r \in RevisionRow :
                IdempotencyRecord(i, s, r) \in IdempotencyRow
           /\ Existing(i) \subseteq RevisionRow
           /\ ReplayReceipt(i) \subseteq RevisionRow
<1>1. i.header \in Header /\ i.blob \in Blob /\ i.key \in Key
  BY ItemAssumption DEF ItemType
<1>2. NewRow(i) \in RevisionRow
  BY <1>1 DEF TypeOK, NewRow, RevisionRow, Header
<1>3. FilesAfter(i) \subseteq FileRow
  BY <1>1 DEF TypeOK, FilesAfter, FileRow, Header
<1>4. HeadsAfter(i) \subseteq HeadRow
  BY <1>1 DEF TypeOK, HeadsAfter, HeadRow, Header
<1>5. \A s \in {"accepted", "replayed"}, r \in RevisionRow :
         IdempotencyRecord(i, s, r) \in IdempotencyRow
  BY <1>1 DEF IdempotencyRecord, IdempotencyRow, RequestHash, Header
<1>6. Existing(i) \subseteq RevisionRow
  BY DEF TypeOK, Existing, RowsOf
<1>7. ReplayReceipt(i) \subseteq RevisionRow
  BY <1>6 DEF TypeOK, ReplayReceipt, IdempotencyOf, IdempotencyRow
<1>. QED
  BY <1>2, <1>3, <1>4, <1>5, <1>6, <1>7

-----------------------------------------------------------------------------
(* Type correctness.                                                       *)

\* The empty database and idle handlers are well typed.
LEMMA TypeInit == Init => TypeOK
  BY IdleTyped, BoundAssumption, ItemAssumption
  DEF Init, TypeOK, EntryState, ItemType, Header

\* Every step of a handler, of the sweep and of a crash keeps the types.
LEMMA TypeNext == TypeOK /\ [Next]_vars => TypeOK'
<1>. SUFFICES ASSUME TypeOK, [Next]_vars PROVE TypeOK'
  OBVIOUS
<1>. USE DEF tables
<1>0. RequestsOK
  BY DEF TypeOK, RequestsOK
<1>1. ASSUME NEW p \in Process, StartPush(p) PROVE TypeOK'
  <2>1. PICK b \in Batch, d \in Device, v \in Vault :
          /\ BatchAccepted(b, d, v)
          /\ \E s \in Orders(b) :
               request' = [request EXCEPT ![p] = [Idle EXCEPT !.pc = "check", !.todo = s]]
    BY <1>1 DEF StartPush
  <2>2. PICK s \in Orders(b) :
          request' = [request EXCEPT ![p] = [Idle EXCEPT !.pc = "check", !.todo = s]]
    BY <2>1
  <2>3. s \in Seq(Item) /\ s # <<>>
    BY <2>1, OrdersAreSequences DEF BatchAccepted
  <2>. DEFINE r == [Idle EXCEPT !.pc = "check", !.todo = s]
  <2>4. r \in Request /\ (r.pc \in {"idle", "reply"} <=> r.todo = <<>>)
    BY <2>3 DEF Idle, Request, PC
  <2>5. RequestsOK'
    <3>1. request' = [request EXCEPT ![p] = r]
      BY <2>2
    <3>. HIDE DEF r
    <3>. QED BY <1>0, <2>4, <3>1, RequestUpdate
  <2>. QED
    BY SMTT(60), <1>1, <2>5, BoundAssumption DEF StartPush, TypeOK, RequestsOK
<1>2. ASSUME NEW p \in Process, Check(p) PROVE TypeOK'
  <2>1. RequestsOK'
    BY <1>0, <1>2, IterationEnds DEF Check, Active
  <2>. QED
    BY <1>2, <2>1 DEF Check, TypeOK, RequestsOK
<1>3. ASSUME NEW p \in Process, PutRename(p) PROVE TypeOK'
  <2>1. RequestsOK'
    BY <1>0, <1>3, IterationEnds DEF PutRename, Active
  <2>. QED
    BY <1>3, <2>1 DEF PutRename, TypeOK, RequestsOK, EntryState
<1>4. ASSUME NEW p \in Process, PutSync(p) PROVE TypeOK'
  <2>1. RequestsOK'
    BY <1>0, <1>4, IterationEnds DEF PutSync, Active
  <2>. QED
    BY <1>4, <2>1 DEF PutSync, TypeOK, RequestsOK, EntryState
<1>5. ASSUME NEW p \in Process, Fault(p) PROVE TypeOK'
  <2>1. RequestsOK'
    BY <1>0, <1>5, IterationEnds DEF Fault, Active
  <2>. QED
    BY <1>5, <2>1, BoundAssumption DEF Fault, TypeOK, RequestsOK
<1>6. ASSUME NEW p \in Process, Commit(p) PROVE TypeOK'
  <2>. DEFINE i == Current(p)
  <2>1. i \in Item
    BY <1>6, CurrentIsItem DEF Commit, Active
  <2>2. CASE CommitNewRevision(i) /\ Grant(p, {NewRow(i)})
    <3>1. NewRow(i) \in RevisionRow
      BY <2>1, RowsTyped
    <3>2. RequestsOK'
      BY <1>0, <1>6, <2>2, <3>1, IterationEnds DEF Commit, Active
    <3>3. /\ revisions' \subseteq RevisionRow
          /\ files' \subseteq FileRow
          /\ heads' \subseteq HeadRow
          /\ idempotency' \subseteq IdempotencyRow
      BY <2>1, <2>2, <3>1, RowsTyped DEF CommitNewRevision, TypeOK
    <3>4. i.header.vaultId \in Vault
      BY <2>1, ItemAssumption DEF ItemType, Header
    <3>5. events' \subseteq EventRow
      BY <2>2, <3>1, <3>4 DEF CommitNewRevision, TypeOK, EventRow, RevisionRow
    <3>6. nextSequence' \in [Vault -> Nat \ {0}]
      BY <2>2, <3>4 DEF CommitNewRevision, AdvanceCursor, TypeOK
    <3>. QED
      BY <1>6, <3>2, <3>3, <3>5, <3>6 DEF Commit, TypeOK, RequestsOK
  <2>3. CASE ReplayExisting(i) /\ Grant(p, ReplayReceipt(i))
    <3>1. RequestsOK'
      BY <1>0, <1>6, <2>1, <2>3, RowsTyped, IterationEnds DEF Commit, Active
    <3>2. idempotency' \subseteq IdempotencyRow
      BY <2>1, <2>3, RowsTyped DEF ReplayExisting, TypeOK
    <3>. QED
      BY <1>6, <2>3, <3>1, <3>2 DEF Commit, ReplayExisting, TypeOK, RequestsOK
  <2>4. CASE Abort(p) /\ UNCHANGED tables
    <3>1. RequestsOK'
      BY <1>0, <1>6, <2>4, IterationEnds DEF Commit, Active
    <3>. QED
      BY <1>6, <2>4, <3>1 DEF Commit, TypeOK, RequestsOK
  <2>5. ASSUME NEW code \in Rejection, Reject(p, code), UNCHANGED tables
        PROVE TypeOK'
    <3>1. RequestsOK'
      BY <1>0, <1>6, <2>5, IterationEnds DEF Commit, Active
    <3>. QED
      BY <1>6, <2>5, <3>1 DEF Commit, TypeOK, RequestsOK
  <2>. QED
    BY <1>6, <2>2, <2>3, <2>4, <2>5 DEF Commit
<1>7. ASSUME NEW p \in Process, Reply(p) PROVE TypeOK'
  <2>1. RequestsOK'
    BY <1>0, <1>7, IdleTyped, RequestUpdate DEF Reply
  <2>2. request[p].granted \subseteq RevisionRow
    BY DEF TypeOK, Request
  <2>. QED
    BY <1>7, <2>1, <2>2 DEF Reply, TypeOK, RequestsOK
<1>8. CASE Revoke
  BY <1>8 DEF Revoke, TypeOK
<1>9. CASE PruneExpired
  BY <1>9 DEF PruneExpired, TypeOK
<1>10. CASE Crash
  BY <1>10, IdleTyped, BoundAssumption DEF Crash, TypeOK, EntryState
<1>11. CASE Restart
  BY <1>11 DEF Restart, TypeOK
<1>12. CASE SweepOne
  BY <1>12 DEF SweepOne, TypeOK, EntryState
<1>13. CASE Listen
  BY <1>13 DEF Listen, TypeOK
<1>14. CASE UNCHANGED vars
  BY <1>14 DEF vars, TypeOK
<1>. QED
  BY <1>1, <1>2, <1>3, <1>4, <1>5, <1>6, <1>7, <1>8, <1>9, <1>10, <1>11,
     <1>12, <1>13, <1>14 DEF Next, Handler

\* Every reachable state is well typed, whatever the handlers interleave.
THEOREM TypeCorrect == Spec => []TypeOK
  BY TypeInit, TypeNext, PTL DEF Spec

-----------------------------------------------------------------------------
(* The revision graph.  The named invariants support one another:          *)
(* ParentsPrecede shows that a new revision is nobody's parent yet, which  *)
(* HeadsAreLeaves needs; LogContiguous places a parent before its child.   *)

GraphInv ==
    /\ CommittedOnce
    /\ LogContiguous
    /\ ParentsPrecede
    /\ HeadsAreLeaves
    /\ OneRootPerFile

\* What the commit transaction has checked when it writes a new revision.
LEMMA VerdictOk ==
    ASSUME NEW i, CommitVerdict(i) = "ok"
    PROVE  /\ Authorized(i)
           /\ Existing(i) = {}
           /\ IdempotencyOf(i) = {}
           /\ FileGraphError(i) = "ok"
  BY DEF CommitVerdict, NewRevisionError

\* What the file-graph checks establish.
LEMMA GraphOk ==
    ASSUME NEW i, FileGraphError(i) = "ok"
    PROVE  /\ i.header.parents = {} =>
                \A f \in files : f.fileId # i.header.fileId
           /\ i.header.parents # {} =>
                /\ \E f \in files : f.fileId = i.header.fileId
                /\ \A f \in files : f.fileId = i.header.fileId =>
                     f.vaultId = i.header.vaultId
                /\ \A id \in i.header.parents : \E r \in revisions :
                     r.header.revisionId = id
                /\ \A r \in revisions : r.header.revisionId \in i.header.parents =>
                     /\ r.header.vaultId = i.header.vaultId
                     /\ r.header.fileId = i.header.fileId
                /\ Reconciles(i.header) =>
                     i.header.parents = HeadsOf(i.header.fileId)
<1>1. CASE i.header.parents = {}
  BY <1>1 DEF FileGraphError
<1>2. CASE i.header.parents # {}
  <2>1. {f \in files : f.fileId = i.header.fileId} # {}
    BY <1>2 DEF FileGraphError
  <2>2. ~\E f \in {f \in files : f.fileId = i.header.fileId} :
           f.vaultId # i.header.vaultId
    BY <1>2, <2>1 DEF FileGraphError
  <2>3. ~ParentMissing(i.header)
    BY <1>2, <2>1, <2>2 DEF FileGraphError
  <2>4. ~\E r \in {r \in revisions : r.header.revisionId \in i.header.parents} :
           r.header.vaultId # i.header.vaultId \/ r.header.fileId # i.header.fileId
    BY <1>2, <2>1, <2>2, <2>3 DEF FileGraphError
  <2>5. ~(Reconciles(i.header) /\ HeadSetChanged(i.header))
    BY <1>2, <2>1, <2>2, <2>3, <2>4 DEF FileGraphError
  <2>. QED
    BY <1>2, <2>1, <2>2, <2>3, <2>4, <2>5 DEF ParentMissing, RowsOf, HeadSetChanged
<1>. QED
  BY <1>1, <1>2

\* A step of the specification either leaves the graph tables alone or is the
\* commit of a new revision that passed every check.
LEMMA GraphSteps ==
    ASSUME TypeOK, [Next]_vars
    PROVE  \/ UNCHANGED <<revisions, files, heads, events, nextSequence>>
           \/ \E p \in Process :
                /\ request[p].pc = "commit"
                /\ Current(p) \in Item
                /\ CommitVerdict(Current(p)) = "ok"
                /\ CommitNewRevision(Current(p))
                /\ UNCHANGED <<authorized, blobs>>
<1>1. ASSUME NEW p \in Process, Commit(p)
      PROVE  \/ UNCHANGED <<revisions, files, heads, events, nextSequence>>
             \/ /\ request[p].pc = "commit"
                /\ Current(p) \in Item
                /\ CommitVerdict(Current(p)) = "ok"
                /\ CommitNewRevision(Current(p))
                /\ UNCHANGED <<authorized, blobs>>
  BY <1>1, CurrentIsItem DEF Commit, Active, ReplayExisting, tables
<1>2. ASSUME NEW p \in Process, Handler(p), ~Commit(p)
      PROVE  UNCHANGED <<revisions, files, heads, events, nextSequence>>
  BY <1>2 DEF Handler, StartPush, Check, PutRename, PutSync, Fault, Reply, tables
<1>3. CASE Revoke \/ PruneExpired \/ Crash \/ Restart \/ SweepOne \/ Listen
           \/ UNCHANGED vars
  BY <1>3 DEF Revoke, PruneExpired, Crash, Restart, SweepOne, Listen, vars, tables
<1>. QED
  BY <1>1, <1>2, <1>3 DEF Next

\* Committing a new revision that passed every check keeps the graph sound.
LEMMA CommitKeepsGraph ==
    ASSUME TypeOK, GraphInv, NEW i \in Item,
           CommitVerdict(i) = "ok", CommitNewRevision(i)
    PROVE  GraphInv'
<1>. DEFINE row == NewRow(i)
            id == i.header.revisionId
            v == i.header.vaultId
            f == i.header.fileId
<1>1. /\ row \in RevisionRow
      /\ row.header = i.header
      /\ row.serverSequence = nextSequence[v]
      /\ v \in Vault
      /\ i.header \in Header
      /\ id \notin i.header.parents
  BY RowsTyped, ItemAssumption DEF NewRow, ItemType, Header
<1>2. \A r \in revisions : r.header.revisionId # id
  BY VerdictOk DEF Existing, RowsOf
<1>3. FileGraphError(i) = "ok"
  BY VerdictOk
<1>4. revisions' = revisions \cup {row}
  BY DEF CommitNewRevision
<1>. HIDE DEF row
<1>5. \A r \in revisions : r \in RevisionRow /\ r.header \in Header
  BY DEF TypeOK, RevisionRow
<1>6. \A r \in revisions : id \notin r.header.parents
  BY <1>2 DEF GraphInv, ParentsPrecede
<1>7. CommittedOnce'
  BY <1>1, <1>2, <1>4 DEF GraphInv, CommittedOnce
<1>8. \A r \in revisions : r.header.vaultId = v =>
        r.serverSequence \in 1 .. (nextSequence[v] - 1)
  BY <1>1 DEF GraphInv, LogContiguous
<1>9. LogContiguous'
  <2>1. events' = {[vaultId |-> r.header.vaultId, serverSequence |-> r.serverSequence,
                    receipt |-> r] : r \in revisions'}
    <3>1. events' = events \cup
            {[vaultId |-> v, serverSequence |-> row.serverSequence, receipt |-> row]}
      BY DEF CommitNewRevision, row
    <3>2. events = {[vaultId |-> r.header.vaultId, serverSequence |-> r.serverSequence,
                     receipt |-> r] : r \in revisions}
      BY DEF GraphInv, LogContiguous
    <3>. QED
      BY <1>1, <1>4, <3>1, <3>2
  <2>2. nextSequence[v] \in Nat /\ nextSequence[v] > 0
    BY <1>1 DEF TypeOK
  <2>3. nextSequence' = [nextSequence EXCEPT ![v] = @ + 1]
    BY DEF CommitNewRevision, AdvanceCursor
  <2>4. ASSUME NEW w \in Vault
        PROVE {r.serverSequence : r \in {r \in revisions' : r.header.vaultId = w}}
                = 1 .. (nextSequence'[w] - 1)
    <3>1. {r.serverSequence : r \in {r \in revisions : r.header.vaultId = w}}
            = 1 .. (nextSequence[w] - 1)
      BY DEF GraphInv, LogContiguous
    <3>2. CASE w = v
      <4>1. {r.serverSequence : r \in {r \in revisions' : r.header.vaultId = w}}
              = {r.serverSequence : r \in {r \in revisions : r.header.vaultId = w}}
                  \cup {nextSequence[v]}
        BY <1>1, <1>4, <3>2
      <4>2. nextSequence'[w] = nextSequence[v] + 1
        BY <2>3, <3>2 DEF TypeOK
      <4>3. 1 .. nextSequence[v] = (1 .. (nextSequence[v] - 1)) \cup {nextSequence[v]}
        BY <2>2
      <4>4. nextSequence[v] + 1 - 1 = nextSequence[v]
        BY <2>2
      <4>. QED
        BY <3>1, <3>2, <4>1, <4>2, <4>3, <4>4
    <3>3. CASE w # v
      <4>1. nextSequence'[w] = nextSequence[w]
        BY <2>3, <3>3 DEF TypeOK
      <4>2. {r \in revisions' : r.header.vaultId = w}
              = {r \in revisions : r.header.vaultId = w}
        BY <1>1, <1>4, <3>3
      <4>. QED
        BY <3>1, <4>1, <4>2
    <3>. QED
      BY <3>2, <3>3
  <2>5. ASSUME NEW r \in revisions', NEW s \in revisions',
               r.header.vaultId = s.header.vaultId,
               r.serverSequence = s.serverSequence
        PROVE  r = s
    <3>1. \A q \in revisions : q.header.vaultId = v => q.serverSequence # nextSequence[v]
      BY <1>8, <2>2
    <3>. QED
      BY <1>1, <1>4, <2>5, <3>1 DEF GraphInv, LogContiguous
  <2>. QED
    BY <2>1, <2>4, <2>5 DEF LogContiguous
<1>10. ParentsPrecede'
  <2>1. ASSUME NEW r \in revisions', NEW pid \in r.header.parents
        PROVE \E q \in revisions' :
                /\ q.header.revisionId = pid
                /\ q.header.vaultId = r.header.vaultId
                /\ q.header.fileId = r.header.fileId
                /\ q.serverSequence < r.serverSequence
    <3>1. CASE r \in revisions
      BY <1>4, <3>1 DEF GraphInv, ParentsPrecede
    <3>2. CASE r = row
      <4>1. PICK q \in revisions : q.header.revisionId = pid
        BY <1>1, <1>3, <2>1, <3>2, GraphOk
      <4>2. q.header.vaultId = v /\ q.header.fileId = f
        BY <1>1, <1>3, <2>1, <3>2, <4>1, GraphOk
      <4>3. q.serverSequence < row.serverSequence
        BY <1>1, <1>8, <4>1, <4>2 DEF TypeOK
      <4>. QED
        BY <1>1, <1>4, <3>2, <4>1, <4>2, <4>3
    <3>. QED
      BY <1>4, <3>1, <3>2
  <2>. QED
    BY <2>1 DEF ParentsPrecede
<1>11. HeadsAreLeaves'
  <2>. DEFINE H(r) == [fileId |-> r.header.fileId, revisionId |-> r.header.revisionId]
  <2>1. heads = {H(r) : r \in {r \in revisions :
                   \A c \in revisions : r.header.revisionId \notin c.header.parents}}
    BY DEF GraphInv, HeadsAreLeaves, HasChild
  <2>2. heads' = {h \in heads : ~(h.fileId = f /\ h.revisionId \in i.header.parents)}
                   \cup {H(row)}
    BY <1>1 DEF CommitNewRevision, HeadsAfter
  <2>3. \A r \in revisions : r.header.revisionId \in i.header.parents =>
          r.header.fileId = f
    BY <1>3, GraphOk
  <2>4. \A c \in revisions' : row.header.revisionId \notin c.header.parents
    BY <1>1, <1>4, <1>6
  <2>5. ASSUME NEW h \in heads'
        PROVE \E r \in revisions' :
                /\ \A c \in revisions' : r.header.revisionId \notin c.header.parents
                /\ h = H(r)
    <3>1. CASE h = H(row)
      BY <1>4, <2>4, <3>1
    <3>2. CASE h \in heads /\ ~(h.fileId = f /\ h.revisionId \in i.header.parents)
      <4>1. PICK r \in revisions :
              /\ \A c \in revisions : r.header.revisionId \notin c.header.parents
              /\ h = H(r)
        BY <2>1, <3>2
      <4>2. r.header.revisionId \notin i.header.parents
        BY <2>3, <3>2, <4>1
      <4>. QED
        BY <1>1, <1>4, <4>1, <4>2
    <3>. QED
      BY <2>2, <2>5, <3>1, <3>2
  <2>6. ASSUME NEW r \in revisions',
               \A c \in revisions' : r.header.revisionId \notin c.header.parents
        PROVE H(r) \in heads'
    <3>1. CASE r = row
      BY <2>2, <3>1
    <3>2. CASE r \in revisions
      <4>1. H(r) \in heads
        BY <1>4, <2>1, <2>6, <3>2
      <4>2. r.header.revisionId \notin i.header.parents
        BY <1>1, <1>4, <2>6
      <4>. QED
        BY <2>2, <4>1, <4>2
    <3>. QED
      BY <1>4, <3>1, <3>2
  <2>. QED
    BY <2>5, <2>6 DEF HeadsAreLeaves, HasChild
<1>12. OneRootPerFile'
  <2>. DEFINE F(r) == [fileId |-> r.header.fileId, vaultId |-> r.header.vaultId]
  <2>1. /\ files = {F(r) : r \in {r \in revisions : r.header.parents = {}}}
        /\ \A r \in revisions : F(r) \in files
        /\ \A r, s \in revisions :
             r.header.parents = {} /\ s.header.parents = {} /\
             r.header.fileId = s.header.fileId => r = s
    BY DEF GraphInv, OneRootPerFile
  <2>2. files' = FilesAfter(i)
    BY DEF CommitNewRevision
  <2>3. CASE i.header.parents = {}
    <3>1. \A r \in revisions : r.header.fileId # f
      <4>1. \A g \in files : g.fileId # f
        BY <1>3, <2>3, GraphOk
      <4>. QED BY <2>1, <4>1
    <3>2. files' = files \cup {F(row)}
      BY <1>1, <2>2, <2>3 DEF FilesAfter
    <3>. QED
      BY ZenonT(60), <1>1, <1>4, <2>1, <2>3, <3>1, <3>2 DEF OneRootPerFile
  <2>4. CASE i.header.parents # {}
    <3>1. files' = files
      BY <2>2, <2>4 DEF FilesAfter
    <3>2. F(row) \in files
      <4>1. PICK g \in files : g.fileId = f /\ g.vaultId = v
        BY <1>3, <2>4, GraphOk
      <4>2. g = F(row)
        BY <1>1, <4>1 DEF TypeOK, FileRow
      <4>. QED BY <4>1, <4>2
    <3>. QED
      BY <1>1, <1>4, <2>1, <2>4, <3>1, <3>2 DEF OneRootPerFile
  <2>. QED
    BY <2>3, <2>4
<1>. QED
  BY <1>7, <1>9, <1>10, <1>11, <1>12 DEF GraphInv

\* The empty revision graph satisfies the graph invariant.
LEMMA GraphInit == Init => GraphInv
<1>. SUFFICES ASSUME Init PROVE GraphInv
  OBVIOUS
<1>1. revisions = {} /\ heads = {} /\ events = {} /\ files = {}
  BY DEF Init
<1>2. \A v \in Vault : nextSequence[v] = 1
  BY DEF Init
<1>3. LogContiguous
  BY <1>1, <1>2 DEF LogContiguous
<1>. QED
  BY <1>1, <1>3
  DEF GraphInv, CommittedOnce, ParentsPrecede, HeadsAreLeaves, OneRootPerFile

\* Only a commit changes the graph, and it keeps the invariant.
LEMMA GraphNext == TypeOK /\ GraphInv /\ [Next]_vars => GraphInv'
<1>. SUFFICES ASSUME TypeOK, GraphInv, [Next]_vars PROVE GraphInv'
  OBVIOUS
<1>1. CASE UNCHANGED <<revisions, files, heads, events, nextSequence>>
  BY <1>1 DEF GraphInv, CommittedOnce, LogContiguous, ParentsPrecede,
              HeadsAreLeaves, HasChild, OneRootPerFile
<1>2. ASSUME NEW p \in Process, Current(p) \in Item,
             CommitVerdict(Current(p)) = "ok", CommitNewRevision(Current(p))
      PROVE  GraphInv'
  BY <1>2, CommitKeepsGraph
<1>. QED
  BY <1>1, <1>2, GraphSteps

\* In every reachable state the log is contiguous and causal, ids are unique,
\* the head table is the leaf set and every file has one root.
THEOREM GraphCorrect ==
    Spec => [](CommittedOnce /\ LogContiguous /\ ParentsPrecede
                 /\ HeadsAreLeaves /\ OneRootPerFile)
<1>1. Spec => []GraphInv
  BY TypeInit, TypeNext, GraphInit, GraphNext, PTL DEF Spec
<1>2. GraphInv => CommittedOnce /\ LogContiguous /\ ParentsPrecede
                    /\ HeadsAreLeaves /\ OneRootPerFile
  BY DEF GraphInv
<1>. QED
  BY <1>1, <1>2, PTL

-----------------------------------------------------------------------------
(* Disk and database.  BlobsDurable alone is not inductive: a commit needs *)
(* its handler's blob to be durable already, and the sweep must find no    *)
(* handler at work.  HandlersReady says both.                              *)

DiskInv == BlobsDurable /\ HandlersReady

\* Nothing is committed and no handler is at its commit at first.
LEMMA DiskInit == Init => DiskInv
  BY DEF Init, DiskInv, BlobsDurable, HandlersReady, Idle

\* A handler whose state another handler's step leaves alone stays ready.
LEMMA ReadyElsewhere ==
    ASSUME TypeOK, HandlersReady, server = "up", server' = "up",
           NEW p \in Process, NEW r,
           request' = [request EXCEPT ![p] = r], r.pc # "commit",
           \A b \in Blob : blobs[b] = "durable" => blobs'[b] = "durable"
    PROVE  HandlersReady'
<1>1. ASSUME NEW q \in Process, request'[q].pc = "commit"
      PROVE  blobs'[Head(request'[q].todo).blob] = "durable"
  <2>1. q # p
    BY <1>1 DEF TypeOK
  <2>2. request'[q] = request[q]
    BY <2>1 DEF TypeOK
  <2>3. request[q].pc = "commit"
    BY <1>1, <2>2
  <2>4. Current(q).blob \in Blob
    BY <2>3, CurrentIsItem, ItemAssumption DEF Active, ItemType
  <2>. QED
    BY <2>2, <2>3, <2>4 DEF HandlersReady, Current
<1>. QED
  BY <1>1 DEF HandlersReady, Current

\* Puts, commits, crashes and sweeps keep committed blobs durable.
LEMMA DiskNext == TypeOK /\ DiskInv /\ [Next]_vars => DiskInv'
<1>. SUFFICES ASSUME TypeOK, DiskInv, [Next]_vars PROVE DiskInv'
  OBVIOUS
<1>. USE DEF DiskInv
<1>0. \A r \in revisions : r.blob \in Blob
  BY DEF TypeOK, RevisionRow
<1>1. \A p \in Process : request[p].pc # "idle" => server = "up"
  BY IdleTyped DEF HandlersReady
<1>2. ASSUME NEW p \in Process, StartPush(p) PROVE DiskInv'
  <2>1. PICK s : request' = [request EXCEPT ![p] = [Idle EXCEPT !.pc = "check", !.todo = s]]
    BY <1>2 DEF StartPush
  <2>2. [Idle EXCEPT !.pc = "check", !.todo = s].pc = "check"
    BY DEF Idle
  <2>3. HandlersReady'
    BY <1>2, <2>1, <2>2, ReadyElsewhere DEF StartPush
  <2>. QED
    BY <1>2, <2>3 DEF StartPush, tables, BlobsDurable
<1>3. ASSUME NEW p \in Process, Check(p) PROVE DiskInv'
  <2>1. request[p] \in Request /\ request[p].todo # <<>>
    BY <1>3, CurrentIsItem DEF Check, Active
  <2>2. PICK q : request' = [request EXCEPT ![p] = q] /\ q.pc # "commit"
    <3>1. CASE request' = [request EXCEPT ![p].pc = "put"]
      <4>1. request' = [request EXCEPT ![p] = [request[p] EXCEPT !.pc = "put"]]
        BY <3>1 DEF TypeOK
      <4>2. [request[p] EXCEPT !.pc = "put"].pc # "commit"
        BY <2>1 DEF Request
      <4>. QED BY <4>1, <4>2
    <3>2. CASE Abort(p)
      BY <3>2, IdleTyped DEF Abort
    <3>3. ASSUME NEW code \in Rejection, Reject(p, code)
          PROVE \E r : request' = [request EXCEPT ![p] = r] /\ r.pc # "commit"
      <4>1. Advance(request[p]) \in Request /\ Advance(request[p]).pc # "commit"
        BY <2>1, AdvanceTyped
      <4>2. [Advance(request[p]) EXCEPT !.codes = @ \cup {code}].pc # "commit"
        BY <4>1 DEF Request
      <4>. QED BY <3>3, <4>2 DEF Reject
    <3>. QED BY <1>3, <3>1, <3>2, <3>3 DEF Check
  <2>3. HandlersReady'
    BY <1>1, <1>3, <2>2, ReadyElsewhere DEF Check
  <2>. QED
    BY <1>3, <2>3 DEF Check, tables, BlobsDurable
<1>4. ASSUME NEW p \in Process, PutRename(p) PROVE DiskInv'
  <2>1. request' = [request EXCEPT ![p] = [request[p] EXCEPT !.pc = "sync"]]
    BY <1>4 DEF PutRename, TypeOK
  <2>2. [request[p] EXCEPT !.pc = "sync"].pc # "commit"
    BY DEF TypeOK, Request
  <2>3. \A b \in Blob : blobs[b] = "durable" => blobs'[b] = "durable"
    BY <1>4 DEF PutRename, Visible, TypeOK
  <2>4. HandlersReady'
    BY <1>1, <1>4, <2>1, <2>2, <2>3, ReadyElsewhere DEF PutRename
  <2>. QED
    BY <1>0, <1>4, <2>3, <2>4 DEF PutRename, tables, BlobsDurable
<1>5. ASSUME NEW p \in Process, PutSync(p) PROVE DiskInv'
  <2>1. Current(p) \in Item /\ Current(p).blob \in Blob
    BY <1>5, CurrentIsItem, ItemAssumption DEF PutSync, Active, ItemType
  <2>2. \A b \in Blob : blobs[b] = "durable" => blobs'[b] = "durable"
    BY <1>5 DEF PutSync, TypeOK
  <2>3. blobs'[Current(p).blob] = "durable"
    BY <1>5, <2>1 DEF PutSync, TypeOK
  <2>4. ASSUME NEW q \in Process, request'[q].pc = "commit"
        PROVE  blobs'[Head(request'[q].todo).blob] = "durable"
    <3>1. request'[q].todo = request[q].todo
      BY <1>5 DEF PutSync, TypeOK, Request
    <3>2. CASE q = p
      BY <2>3, <3>1, <3>2 DEF Current
    <3>3. CASE q # p
      <4>1. request[q].pc = "commit"
        BY <1>5, <2>4, <3>3 DEF PutSync, TypeOK
      <4>2. Current(q).blob \in Blob
        BY <4>1, CurrentIsItem, ItemAssumption DEF Active, ItemType
      <4>. QED BY <2>2, <3>1, <4>1, <4>2 DEF HandlersReady, Current
    <3>. QED BY <3>2, <3>3
  <2>5. HandlersReady'
    BY <1>1, <1>5, <2>4 DEF HandlersReady, Current, PutSync
  <2>. QED
    BY <1>0, <1>5, <2>2, <2>5 DEF PutSync, tables, BlobsDurable
<1>6. ASSUME NEW p \in Process, Fault(p) PROVE DiskInv'
  <2>1. HandlersReady'
    BY <1>1, <1>6, IdleTyped, ReadyElsewhere DEF Fault, Abort
  <2>. QED
    BY <1>6, <2>1 DEF Fault, tables, BlobsDurable
<1>7. ASSUME NEW p \in Process, Commit(p) PROVE DiskInv'
  <2>1. /\ request[p] \in Request /\ request[p].todo # <<>>
        /\ Current(p) \in Item
    BY <1>7, CurrentIsItem DEF Commit, Active
  <2>2. PICK q : request' = [request EXCEPT ![p] = q] /\ q.pc # "commit"
    <3>1. Advance(request[p]) \in Request /\ Advance(request[p]).pc # "commit"
      BY <2>1, AdvanceTyped
    <3>2. CASE Abort(p)
      BY <3>2, IdleTyped DEF Abort
    <3>3. ASSUME NEW code, Reject(p, code)
          PROVE \E r : request' = [request EXCEPT ![p] = r] /\ r.pc # "commit"
      <4>1. [Advance(request[p]) EXCEPT !.codes = @ \cup {code}].pc # "commit"
        BY <3>1 DEF Request
      <4>. QED BY <3>3, <4>1 DEF Reject
    <3>4. ASSUME NEW rows, Grant(p, rows)
          PROVE \E r : request' = [request EXCEPT ![p] = r] /\ r.pc # "commit"
      <4>1. [Advance(request[p]) EXCEPT !.granted = @ \cup rows].pc # "commit"
        BY <3>1 DEF Request
      <4>. QED BY <3>4, <4>1 DEF Grant
    <3>. QED BY <1>7, <3>2, <3>3, <3>4 DEF Commit
  <2>3. HandlersReady'
    BY <1>1, <1>7, <2>2, ReadyElsewhere DEF Commit
  <2>4. \A r \in revisions' : r \in revisions \/ r.blob = Current(p).blob
    BY <1>7 DEF Commit, CommitNewRevision, NewRow, ReplayExisting, tables
  <2>5. blobs[Current(p).blob] = "durable"
    BY <1>7 DEF Commit, HandlersReady
  <2>. QED
    BY <1>7, <2>3, <2>4, <2>5 DEF Commit, BlobsDurable
<1>8. ASSUME NEW p \in Process, Reply(p) PROVE DiskInv'
  <2>1. HandlersReady'
    BY <1>1, <1>8, IdleTyped, ReadyElsewhere DEF Reply
  <2>. QED
    BY <1>8, <2>1 DEF Reply, tables, BlobsDurable
<1>9. CASE Revoke \/ PruneExpired
  BY <1>9 DEF Revoke, PruneExpired, tables, BlobsDurable, HandlersReady, Current
<1>10. CASE Crash
  <2>1. \A b \in Blob : blobs[b] = "durable" => blobs'[b] = "durable"
    BY <1>10 DEF Crash
  <2>2. HandlersReady'
    BY <1>10, IdleTyped DEF Crash, HandlersReady
  <2>. QED
    BY <1>0, <1>10, <2>1, <2>2 DEF Crash, tables, BlobsDurable
<1>11. CASE Restart \/ Listen
  BY <1>11, IdleTyped DEF Restart, Listen, tables, BlobsDurable, HandlersReady
<1>12. CASE SweepOne
  <2>1. \A r \in revisions : blobs'[r.blob] = blobs[r.blob]
    BY <1>0, <1>12 DEF SweepOne, Referenced, TypeOK
  <2>2. HandlersReady'
    BY <1>12, IdleTyped DEF SweepOne, HandlersReady
  <2>. QED
    BY <1>12, <2>1, <2>2 DEF SweepOne, tables, BlobsDurable
<1>13. CASE UNCHANGED vars
  BY <1>13 DEF vars, tables, BlobsDurable, HandlersReady, Current
<1>. QED
  BY <1>2, <1>3, <1>4, <1>5, <1>6, <1>7, <1>8, <1>9, <1>10, <1>11, <1>12, <1>13
  DEF Next, Handler

\* No crash, restart, sweep or interleaving of puts leaves a committed
\* revision without its bytes on disk.
THEOREM DiskCorrect == Spec => []BlobsDurable
<1>1. Spec => []DiskInv
  BY TypeInit, TypeNext, DiskInit, DiskNext, PTL DEF Spec
<1>2. DiskInv => BlobsDurable
  BY DEF DiskInv
<1>. QED
  BY <1>1, <1>2, PTL

-----------------------------------------------------------------------------
(* Replay records and receipts.                                            *)

RecordInv ==
    /\ KeysUnique
    /\ ReceiptsTrue
    /\ IdempotencyBacked

\* No record and no receipt exists at first.
LEMMA RecordInit == Init => RecordInv
  BY DEF Init, RecordInv, KeysUnique, ReceiptsTrue, IdempotencyBacked, Idle

\* No check of the server can come to the verdict REPOSITORY_INTEGRITY.
LEMMA NeverIntegrityError ==
    ASSUME IdempotencyBacked, NEW i \in Item
    PROVE  /\ WouldCommit(i) # "REPOSITORY_INTEGRITY"
           /\ CommitVerdict(i) # "REPOSITORY_INTEGRITY"
<1>1. ASSUME Existing(i) = {}, NewRevisionError(i) = "REPOSITORY_INTEGRITY"
      PROVE FALSE
  <2>1. FileGraphError(i) # "REPOSITORY_INTEGRITY"
    BY DEF FileGraphError
  <2>2. /\ ~\E d \in IdempotencyOf(i) : d.hash # RequestHash(i)
        /\ IdempotencyOf(i) # {}
    BY <1>1, <2>1 DEF NewRevisionError
  <2>3. PICK d \in idempotency : d.hash = <<i.header, i.blob>>
    BY <2>2 DEF IdempotencyOf, RequestHash
  <2>4. d.receipt \in revisions /\ d.hash = <<d.receipt.header, d.receipt.blob>>
    BY <2>3 DEF IdempotencyBacked
  <2>5. d.receipt.header = i.header
    BY <2>3, <2>4
  <2>. QED
    BY <1>1, <2>4, <2>5 DEF Existing, RowsOf
<1>. QED
  BY <1>1 DEF WouldCommit, CommitVerdict

RecordsBacked ==
    \A d \in idempotency :
      d.receipt \in revisions /\ d.hash = <<d.receipt.header, d.receipt.blob>>

\* What a handler's step has to show for the records to stay in order.
LEMMA RecordsUpdate ==
    ASSUME RecordInv, TypeOK, NEW p \in Process, NEW r,
           request' = [request EXCEPT ![p] = r],
           r.granted \subseteq revisions',
           "REPOSITORY_INTEGRITY" \notin r.codes,
           revisions \subseteq revisions', receipts' \subseteq revisions',
           KeysUnique', RecordsBacked'
    PROVE  RecordInv'
<1>1. \A q \in Process : /\ request'[q].granted \subseteq revisions'
                         /\ "REPOSITORY_INTEGRITY" \notin request'[q].codes
  <2>1. ASSUME NEW q \in Process, q # p
        PROVE /\ request'[q].granted \subseteq revisions'
              /\ "REPOSITORY_INTEGRITY" \notin request'[q].codes
    <3>1. request'[q] = request[q]
      BY <2>1 DEF TypeOK
    <3>. QED BY <3>1 DEF RecordInv, ReceiptsTrue, IdempotencyBacked
  <2>2. request'[p] = r
    BY DEF TypeOK
  <2>. QED BY <2>1, <2>2
<1>. QED
  BY <1>1 DEF RecordInv, ReceiptsTrue, IdempotencyBacked, RecordsBacked

\* Commits, replays and pruning keep records backed and keys unique.
LEMMA RecordNext == TypeOK /\ GraphInv /\ RecordInv /\ [Next]_vars => RecordInv'
<1>. SUFFICES ASSUME TypeOK, GraphInv, RecordInv, [Next]_vars PROVE RecordInv'
  OBVIOUS
<1>. USE DEF tables
<1>0. /\ KeysUnique /\ RecordsBacked /\ receipts \subseteq revisions
      /\ \A p \in Process : /\ request[p].granted \subseteq revisions
                            /\ "REPOSITORY_INTEGRITY" \notin request[p].codes
      /\ IdempotencyBacked
  BY DEF RecordInv, ReceiptsTrue, IdempotencyBacked, RecordsBacked
<1>1. UNCHANGED <<revisions, idempotency>> => KeysUnique' /\ RecordsBacked'
  BY <1>0 DEF KeysUnique, RecordsBacked
<1>2. Idle.granted = {} /\ Idle.codes = {}
  BY DEF Idle
<1>3. ASSUME NEW p \in Process, request[p].pc \in Active,
             Abort(p), UNCHANGED <<revisions, idempotency, receipts>>
      PROVE RecordInv'
  BY <1>0, <1>1, <1>2, <1>3, RecordsUpdate DEF Abort
<1>4. ASSUME NEW p \in Process, request[p].pc \in Active, NEW code,
             code # "REPOSITORY_INTEGRITY", Reject(p, code),
             UNCHANGED <<revisions, idempotency, receipts>>
      PROVE RecordInv'
  <2>. DEFINE r == [Advance(request[p]) EXCEPT !.codes = @ \cup {code}]
  <2>1. r.granted = request[p].granted /\ r.codes = request[p].codes \cup {code}
    BY DEF Advance
  <2>2. request' = [request EXCEPT ![p] = r]
    BY <1>4 DEF Reject
  <2>. HIDE DEF r
  <2>. QED
    BY <1>0, <1>1, <1>4, <2>1, <2>2, RecordsUpdate
<1>5. ASSUME NEW p \in Process, StartPush(p) PROVE RecordInv'
  <2>1. PICK s : request' = [request EXCEPT ![p] = [Idle EXCEPT !.pc = "check", !.todo = s]]
    BY <1>5 DEF StartPush
  <2>. DEFINE r == [Idle EXCEPT !.pc = "check", !.todo = s]
  <2>2. r.granted = {} /\ r.codes = {}
    BY DEF Idle
  <2>3. request' = [request EXCEPT ![p] = r]
    BY <2>1
  <2>. HIDE DEF r
  <2>. QED
    BY <1>0, <1>1, <1>5, <2>2, <2>3, RecordsUpdate DEF StartPush
<1>6. ASSUME NEW p \in Process, NEW pc, request' = [request EXCEPT ![p].pc = pc],
             UNCHANGED <<revisions, idempotency, receipts>>
      PROVE RecordInv'
  <2>. DEFINE r == [request[p] EXCEPT !.pc = pc]
  <2>1. r.granted = request[p].granted /\ r.codes = request[p].codes
    BY DEF TypeOK, Request
  <2>2. request' = [request EXCEPT ![p] = r]
    BY <1>6 DEF TypeOK
  <2>. HIDE DEF r
  <2>. QED
    BY <1>0, <1>1, <1>6, <2>1, <2>2, RecordsUpdate
<1>7. ASSUME NEW p \in Process, Check(p) PROVE RecordInv'
  <2>1. Current(p) \in Item
    BY <1>7, CurrentIsItem DEF Check, Active
  <2>2. WouldCommit(Current(p)) # "REPOSITORY_INTEGRITY"
    BY <1>0, <2>1, NeverIntegrityError
  <2>. QED
    BY <1>3, <1>4, <1>6, <1>7, <2>2 DEF Check, Active
<1>8. ASSUME NEW p \in Process, PutRename(p) \/ PutSync(p) PROVE RecordInv'
  BY <1>6, <1>8 DEF PutRename, PutSync
<1>9. ASSUME NEW p \in Process, Fault(p) PROVE RecordInv'
  BY <1>3, <1>9 DEF Fault, Active
<1>10. ASSUME NEW p \in Process, Commit(p) PROVE RecordInv'
  <2>. DEFINE i == Current(p)
              R(rows) == [Advance(request[p]) EXCEPT !.granted = @ \cup rows]
  <2>1. i \in Item
    BY <1>10, CurrentIsItem DEF Commit, Active
  <2>2. \A rows : /\ R(rows).granted = request[p].granted \cup rows
                  /\ R(rows).codes = request[p].codes
    BY DEF Advance
  <2>3. CASE CommitVerdict(i) = "ok" /\ CommitNewRevision(i) /\ Grant(p, {NewRow(i)})
    <3>. DEFINE rec == IdempotencyRecord(i, "accepted", NewRow(i))
    <3>1. /\ revisions' = revisions \cup {NewRow(i)}
          /\ idempotency' = idempotency \cup {rec}
          /\ receipts' = receipts
      BY <1>10, <2>3 DEF CommitNewRevision, Commit
    <3>2. \A d \in idempotency : ~(d.deviceId = rec.deviceId /\ d.key = rec.key)
      BY <2>3, VerdictOk DEF IdempotencyOf, IdempotencyRecord
    <3>3. KeysUnique'
      BY <1>0, <3>1, <3>2 DEF KeysUnique
    <3>4. rec.receipt = NewRow(i) /\ rec.hash = <<NewRow(i).header, NewRow(i).blob>>
      BY DEF IdempotencyRecord, RequestHash, NewRow
    <3>5. RecordsBacked'
      BY <1>0, <3>1, <3>4 DEF RecordsBacked
    <3>6. request' = [request EXCEPT ![p] = R({NewRow(i)})]
      BY <2>3 DEF Grant
    <3>7. R({NewRow(i)}).granted \subseteq revisions'
      BY <1>0, <2>2, <3>1
    <3>. HIDE DEF R, rec
    <3>. QED
      BY <1>0, <2>2, <3>1, <3>3, <3>5, <3>6, <3>7, RecordsUpdate
  <2>4. CASE CommitVerdict(i) = "replay" /\ ReplayExisting(i) /\ Grant(p, ReplayReceipt(i))
    <3>1. \A r \in Existing(i) : r \in revisions /\ r.header = i.header /\ r.blob = i.blob
      BY <2>4 DEF CommitVerdict, NewRevisionError, FileGraphError, Matches, Existing, RowsOf
    <3>2. \A r, s \in Existing(i) : r = s
      BY DEF GraphInv, CommittedOnce, Existing, RowsOf
    <3>3. ReplayReceipt(i) \subseteq revisions
      BY <1>0, <3>1 DEF ReplayReceipt, RecordsBacked, IdempotencyOf
    <3>4. revisions' = revisions /\ receipts' = receipts
      BY <1>10, <2>4 DEF ReplayExisting, Commit
    <3>5. KeysUnique' /\ RecordsBacked'
      <4>1. CASE IdempotencyOf(i) # {}
        BY <1>1, <2>4, <4>1 DEF ReplayExisting
      <4>2. CASE IdempotencyOf(i) = {}
        <5>1. idempotency' = idempotency \cup
                {IdempotencyRecord(i, "replayed", r) : r \in Existing(i)}
          BY <2>4, <4>2 DEF ReplayExisting
        <5>2. \A d \in idempotency : ~(d.deviceId = i.header.deviceId /\ d.key = i.key)
          BY <4>2 DEF IdempotencyOf
        <5>3. \A r \in Existing(i) :
                /\ IdempotencyRecord(i, "replayed", r).deviceId = i.header.deviceId
                /\ IdempotencyRecord(i, "replayed", r).key = i.key
                /\ IdempotencyRecord(i, "replayed", r).receipt = r
                /\ IdempotencyRecord(i, "replayed", r).hash = <<r.header, r.blob>>
          BY <3>1 DEF IdempotencyRecord, RequestHash
        <5>4. KeysUnique'
          BY <1>0, <3>2, <5>1, <5>2, <5>3 DEF KeysUnique
        <5>5. RecordsBacked'
          BY <1>0, <3>1, <3>4, <5>1, <5>3 DEF RecordsBacked
        <5>. QED BY <5>4, <5>5
      <4>. QED BY <4>1, <4>2
    <3>6. request' = [request EXCEPT ![p] = R(ReplayReceipt(i))]
      BY <2>4 DEF Grant
    <3>7. R(ReplayReceipt(i)).granted \subseteq revisions'
      BY <1>0, <2>2, <3>3, <3>4
    <3>. HIDE DEF R
    <3>. QED
      BY <1>0, <2>2, <3>4, <3>5, <3>6, <3>7, RecordsUpdate
  <2>5. CommitVerdict(i) # "REPOSITORY_INTEGRITY"
    BY <1>0, <2>1, NeverIntegrityError
  <2>. QED
    BY <1>3, <1>4, <1>10, <2>3, <2>4, <2>5 DEF Commit, Active
<1>11. ASSUME NEW p \in Process, Reply(p) PROVE RecordInv'
  <2>1. receipts' \subseteq revisions'
    BY <1>0, <1>11 DEF Reply
  <2>. QED
    BY <1>0, <1>1, <1>2, <1>11, <2>1, RecordsUpdate DEF Reply
<1>12. CASE PruneExpired
  <2>1. KeysUnique' /\ RecordsBacked'
    BY <1>0, <1>12 DEF PruneExpired, KeysUnique, RecordsBacked
  <2>. QED
    BY <1>0, <1>12, <2>1
    DEF PruneExpired, RecordInv, ReceiptsTrue, IdempotencyBacked, RecordsBacked
<1>13. CASE Crash
  BY <1>0, <1>1, <1>2, <1>13
  DEF Crash, RecordInv, ReceiptsTrue, IdempotencyBacked, RecordsBacked
<1>14. CASE Revoke \/ Restart \/ SweepOne \/ Listen \/ UNCHANGED vars
  BY <1>0, <1>1, <1>14 DEF Revoke, Restart, SweepOne, Listen, vars, RecordInv,
     ReceiptsTrue, IdempotencyBacked, RecordsBacked
<1>. QED
  BY <1>5, <1>7, <1>8, <1>9, <1>10, <1>11, <1>12, <1>13, <1>14 DEF Next, Handler

\* Every receipt ever reported is the committed row, every replay record has
\* its revision, and a device's idempotency key stands for one request.
THEOREM RecordsCorrect == Spec => [](ReceiptsTrue /\ IdempotencyBacked /\ KeysUnique)
<1>1. Spec => []RecordInv
  BY TypeInit, TypeNext, GraphInit, GraphNext, RecordInit, RecordNext, PTL DEF Spec
<1>2. RecordInv => ReceiptsTrue /\ IdempotencyBacked /\ KeysUnique
  BY DEF RecordInv
<1>. QED
  BY <1>1, <1>2, PTL

-----------------------------------------------------------------------------
(* Steps.                                                                  *)

\* A push in flight when its device is revoked commits nothing more.
THEOREM RevocationCorrect == Spec => RevokedNeverCommits
<1>1. ASSUME TypeOK, [Next]_vars
      PROVE [\A r \in revisions' \ revisions :
               <<r.header.deviceId, r.header.vaultId>> \in authorized]_vars
  <2>1. CASE UNCHANGED <<revisions, files, heads, events, nextSequence>>
    BY <2>1
  <2>2. ASSUME NEW p \in Process, CommitVerdict(Current(p)) = "ok",
               CommitNewRevision(Current(p))
        PROVE \A r \in revisions' \ revisions :
                <<r.header.deviceId, r.header.vaultId>> \in authorized
    <3>1. Authorized(Current(p))
      BY <2>2, VerdictOk
    <3>2. \A r \in revisions' \ revisions : r.header = Current(p).header
      BY <2>2 DEF CommitNewRevision, NewRow
    <3>. QED BY <3>1, <3>2 DEF Authorized
  <2>. QED BY <1>1, <2>1, <2>2, GraphSteps
<1>. QED
  BY <1>1, TypeInit, TypeNext, PTL DEF Spec, RevokedNeverCommits

\* A reconciliation that commits becomes the only head of its file.
THEOREM ReconciliationCorrect == Spec => ReconciliationClosesFile
<1>1. ASSUME TypeOK, [Next]_vars
      PROVE [\A r \in revisions' \ revisions : Reconciles(r.header) =>
               {h \in heads' : h.fileId = r.header.fileId}
                 = {[fileId |-> r.header.fileId, revisionId |-> r.header.revisionId]}]_vars
  <2>1. CASE UNCHANGED <<revisions, files, heads, events, nextSequence>>
    BY <2>1
  <2>2. ASSUME NEW i \in Item, CommitVerdict(i) = "ok", CommitNewRevision(i),
               NEW r \in revisions' \ revisions, Reconciles(r.header)
        PROVE {h \in heads' : h.fileId = r.header.fileId}
                = {[fileId |-> r.header.fileId, revisionId |-> r.header.revisionId]}
    <3>1. r.header = i.header
      BY <2>2 DEF CommitNewRevision, NewRow
    <3>2. i.header.parents = HeadsOf(i.header.fileId)
      BY <2>2, <3>1, VerdictOk, GraphOk DEF Reconciles
    <3>3. \A h \in heads : h.fileId = i.header.fileId => h.revisionId \in i.header.parents
      BY <3>2 DEF HeadsOf
    <3>4. heads' = HeadsAfter(i)
      BY <2>2 DEF CommitNewRevision
    <3>. QED BY <3>1, <3>3, <3>4 DEF HeadsAfter
  <2>. QED BY <1>1, <2>1, <2>2, GraphSteps
<1>. QED
  BY <1>1, TypeInit, TypeNext, PTL DEF Spec, ReconciliationClosesFile

\* The heads of a file, read from the table, are the leaves of the log.
LEMMA HeadsAreLogLeaves ==
    ASSUME GraphInv, NEW f
    PROVE  HeadsOf(f) = Log!Leaves(f)
<1>1. heads = {[fileId |-> r.header.fileId, revisionId |-> r.header.revisionId] :
                 r \in {r \in revisions : ~HasChild(r.header.revisionId)}}
  BY DEF GraphInv, HeadsAreLeaves
<1>2. ASSUME NEW x \in HeadsOf(f) PROVE x \in Log!Leaves(f)
  <2>1. PICK h \in heads : h.fileId = f /\ x = h.revisionId
    BY <1>2 DEF HeadsOf
  <2>2. PICK r \in revisions :
          /\ ~HasChild(r.header.revisionId)
          /\ h = [fileId |-> r.header.fileId, revisionId |-> r.header.revisionId]
    BY <1>1, <2>1
  <2>. QED BY <2>1, <2>2 DEF Log!Leaves, Log!FileEntries, HasChild
<1>3. ASSUME NEW x \in Log!Leaves(f) PROVE x \in HeadsOf(f)
  <2>1. PICK r \in revisions :
          /\ r.header.fileId = f /\ x = r.header.revisionId
          /\ ~HasChild(r.header.revisionId)
    BY <1>3 DEF Log!Leaves, Log!FileEntries, HasChild
  <2>2. [fileId |-> f, revisionId |-> x] \in heads
    BY <1>1, <2>1
  <2>. QED BY <2>2 DEF HeadsOf
<1>. QED BY <1>2, <1>3

\* A commit of a new revision is a legal append to the abstract log.
LEMMA CommitAppends ==
    ASSUME TypeOK, GraphInv, NEW i \in Item,
           CommitVerdict(i) = "ok", CommitNewRevision(i)
    PROVE  Log!LogNext
<1>. DEFINE h == i.header
            v == i.header.vaultId
<1>1. v \in Vault /\ nextSequence[v] \in Nat
  BY ItemAssumption DEF TypeOK, ItemType, Header
<1>2. FileGraphError(i) = "ok"
  BY VerdictOk
<1>3. Log!NewId(h)
  BY VerdictOk DEF Log!NewId, Existing, RowsOf
<1>4. Log!LegalPlace(h)
  <2>1. CASE h.parents = {}
    <3>1. \A g \in files : g.fileId # h.fileId
      BY <1>2, <2>1, GraphOk
    <3>2. \A r \in revisions :
            [fileId |-> r.header.fileId, vaultId |-> r.header.vaultId] \in files
      BY DEF GraphInv, OneRootPerFile
    <3>3. \A r \in revisions : r.header.fileId # h.fileId
      BY <3>1, <3>2
    <3>. QED BY <2>1, <3>3 DEF Log!LegalPlace, Log!FileEntries
  <2>2. CASE h.parents # {}
    <3>1. \A id \in h.parents : \E e \in revisions :
            /\ e.header.revisionId = id
            /\ e.header.fileId = h.fileId
            /\ e.header.vaultId = h.vaultId
      BY <1>2, <2>2, GraphOk
    <3>2. Reconciles(h) => h.parents = Log!Leaves(h.fileId)
      BY <1>2, <2>2, GraphOk, HeadsAreLogLeaves
    <3>. QED BY <2>2, <3>1, <3>2 DEF Log!LegalPlace, Reconciles
  <2>. QED BY <2>1, <2>2
<1>5. revisions' = revisions \cup
        {[header |-> h, blob |-> i.blob,
          serverSequence |-> [w \in Vault |-> nextSequence[w] - 1][v] + 1]}
  BY <1>1 DEF CommitNewRevision, NewRow
<1>6. [w \in Vault |-> nextSequence'[w] - 1] =
        [[w \in Vault |-> nextSequence[w] - 1] EXCEPT ![v] = @ + 1]
  <2>1. nextSequence' = [nextSequence EXCEPT ![v] = @ + 1]
    BY DEF CommitNewRevision, AdvanceCursor
  <2>2. \A w \in Vault : nextSequence[w] \in Nat
    BY DEF TypeOK
  <2>3. \A w \in Vault : nextSequence'[w] = IF w = v THEN nextSequence[w] + 1
                                            ELSE nextSequence[w]
    BY <2>1 DEF TypeOK
  <2>. QED BY <1>1, <2>2, <2>3
<1>7. Log!Append(<<h, i.blob>>)
  BY <1>3, <1>4, <1>5, <1>6 DEF Log!Append
<1>. QED
  BY <1>7 DEF Log!LogNext, RequestHash

\* Every step of the server is a legal append to one vault's log or invisible.
THEOREM Refinement == Spec => ImplementsVaultLog
<1>1. Init => Log!LogInit
  BY DEF Init, Log!LogInit
<1>2. TypeOK /\ GraphInv /\ [Next]_vars => [Log!LogNext]_(Log!logVars)
  <2>. SUFFICES ASSUME TypeOK, GraphInv, [Next]_vars
                PROVE  [Log!LogNext]_(Log!logVars)
    OBVIOUS
  <2>1. CASE UNCHANGED <<revisions, files, heads, events, nextSequence>>
    BY <2>1 DEF Log!logVars
  <2>2. ASSUME NEW p \in Process, Current(p) \in Item,
               CommitVerdict(Current(p)) = "ok", CommitNewRevision(Current(p))
        PROVE  Log!LogNext
    BY <2>2, CommitAppends
  <2>. QED BY <2>1, <2>2, GraphSteps
<1>. QED
  BY <1>1, <1>2, TypeInit, TypeNext, GraphInit, GraphNext, PTL
  DEF Spec, ImplementsVaultLog, Log!LogSpec

-----------------------------------------------------------------------------
(* The bytes of a set of blobs.                                            *)

Bytes(s) == SumOf!MapThenSumSet(LAMBDA b : BlobSize[b], s)
Pick(s) == CHOOSE b \in s : TRUE

\* The sums over the subsets of a set of blobs, as the fold computes them.
Sums(f, S) ==
    f = [s \in SUBSET S |-> IF s = {} THEN 0 ELSE BlobSize[Pick(s)] + f[s \ {Pick(s)}]]

\* A set of numbers that is not empty has a least one.
LEMMA LeastNumber ==
    ASSUME NEW T, T \subseteq Nat, T # {}
    PROVE  \E x \in T : \A y \in T : ~(y < x)
<1>1. PICK x \in T : \A y \in T : ~(<<y, x>> \in OpToRel(<, Nat))
  BY NatLessThanWellFounded, WFMin, Zenon
<1>2. \A y \in T : ~(y < x)
  BY <1>1 DEF OpToRel
<1>. QED
  BY <1>2

\* Taking the chosen element away leaves a smaller set.
LEMMA Smaller ==
    ASSUME NEW S, IsFiniteSet(S), NEW s \in SUBSET S, NEW b \in s
    PROVE  /\ s \ {b} \in SUBSET S
           /\ Cardinality(s) \in Nat /\ Cardinality(s \ {b}) \in Nat
           /\ Cardinality(s \ {b}) = Cardinality(s) - 1
<1>1. IsFiniteSet(s)
  BY FS_Subset
<1>2. IsFiniteSet(s \ {b}) /\ Cardinality(s \ {b}) = Cardinality(s) - 1
  BY <1>1, FS_RemoveElement
<1>3. Cardinality(s) \in Nat /\ Cardinality(s \ {b}) \in Nat
  BY <1>1, <1>2, FS_CardinalityType
<1>. QED
  BY <1>2, <1>3

LEMMA PickIn ==
    ASSUME NEW s, s # {}
    PROVE  Pick(s) \in s
BY DEF Pick

\* The fold is well defined: by the size of the subsets it has reached.
LEMMA SumsExist ==
    ASSUME NEW S, IsFiniteSet(S)
    PROVE  \E f : Sums(f, S)
<1>. DEFINE Upto(k) == {s \in SUBSET S : Cardinality(s) <= k}
            Part(f, k) == f = [s \in Upto(k) |->
                                 IF s = {} THEN 0 ELSE BlobSize[Pick(s)] + f[s \ {Pick(s)}]]
            T == {k \in Nat : ~\E f : Part(f, k)}
<1>1. \A s \in SUBSET S : IsFiniteSet(s) /\ Cardinality(s) \in Nat /\ (Cardinality(s) = 0 <=> s = {})
  BY FS_Subset, FS_CardinalityType, FS_EmptySet
<1>2. T = {}
  <2>. SUFFICES ASSUME T # {} PROVE FALSE
    OBVIOUS
  <2>1. PICK k \in T : \A j \in T : ~(j < k)
    BY LeastNumber
  <2>2. CASE k = 0
    <3>. DEFINE f == [s \in Upto(0) |-> 0]
    <3>1. \A s \in Upto(0) : s = {}
      BY <1>1
    <3>2. Part(f, 0)
      BY <3>1
    <3>. QED
      BY <2>1, <2>2, <3>2
  <2>3. CASE k # 0
    <3>1. k - 1 \in Nat /\ k - 1 < k /\ k \in Nat
      BY <2>3
    <3>2. PICK f : Part(f, k - 1)
      BY <2>1, <3>1
    <3>. DEFINE g == [s \in Upto(k) |->
                        IF s = {} THEN 0 ELSE BlobSize[Pick(s)] + f[s \ {Pick(s)}]]
    <3>3. ASSUME NEW s \in Upto(k), s # {}
          PROVE  g[s \ {Pick(s)}] = f[s \ {Pick(s)}]
      <4>. DEFINE t == s \ {Pick(s)}
      <4>1. t \in Upto(k - 1) /\ t \in Upto(k)
        BY <1>1, <3>1, <3>3, PickIn, Smaller
      <4>2. f[t] = IF t = {} THEN 0 ELSE BlobSize[Pick(t)] + f[t \ {Pick(t)}]
        BY <3>2, <4>1
      <4>3. g[t] = IF t = {} THEN 0 ELSE BlobSize[Pick(t)] + f[t \ {Pick(t)}]
        BY <4>1
      <4>. QED
        BY <4>2, <4>3
    <3>4. Part(g, k)
      BY <3>3
    <3>. QED
      BY <2>1, <3>4
  <2>. QED
    BY <2>2, <2>3
<1>3. Cardinality(S) \in Nat /\ Upto(Cardinality(S)) = SUBSET S
  BY FS_Subset, FS_CardinalityType
<1>4. \E f : Part(f, Cardinality(S))
  BY <1>2, <1>3
<1>. QED
  BY <1>3, <1>4 DEF Sums

\* The order of a sum does not matter: any element may be taken out first.
LEMMA SumsSplit ==
    ASSUME NEW S, IsFiniteSet(S), S \subseteq Blob, NEW f, Sums(f, S)
    PROVE  \A s \in SUBSET S : /\ f[s] \in Nat
                               /\ \A b \in s : f[s] = BlobSize[b] + f[s \ {b}]
<1>. DEFINE Good(s) == f[s] \in Nat /\ \A b \in s : f[s] = BlobSize[b] + f[s \ {b}]
            T == {k \in Nat : \E s \in SUBSET S : Cardinality(s) = k /\ ~Good(s)}
<1>1. \A s \in SUBSET S : IsFiniteSet(s) /\ Cardinality(s) \in Nat
  BY FS_Subset, FS_CardinalityType
<1>2. \A s \in SUBSET S : f[s] = IF s = {} THEN 0 ELSE BlobSize[Pick(s)] + f[s \ {Pick(s)}]
  BY DEF Sums
<1>3. \A b \in S : BlobSize[b] \in Nat
  BY BoundAssumption
<1>4. T = {}
  <2>. SUFFICES ASSUME T # {} PROVE FALSE
    OBVIOUS
  <2>1. PICK k \in T : \A j \in T : ~(j < k)
    BY LeastNumber
  <2>2. PICK s \in SUBSET S : Cardinality(s) = k /\ ~Good(s)
    BY <2>1
  <2>3. ASSUME NEW b \in s PROVE Good(s \ {b})
    <3>1. s \ {b} \in SUBSET S /\ Cardinality(s \ {b}) \in Nat /\ Cardinality(s \ {b}) < k
      BY <2>2, Smaller
    <3>. QED
      BY <2>1, <3>1
  <2>4. CASE s = {}
    <3>1. f[s] = 0 /\ \A b \in s : FALSE
      BY <1>2, <2>4
    <3>2. Good(s)
      BY <3>1
    <3>. QED
      BY <2>2, <3>2
  <2>5. CASE s # {}
    <3>. DEFINE p == Pick(s)
    <3>1. p \in s /\ f[s] = BlobSize[p] + f[s \ {p}] /\ BlobSize[p] \in Nat /\ f[s \ {p}] \in Nat
      BY <1>2, <1>3, <2>3, <2>5, PickIn
    <3>2. ASSUME NEW b \in s, b # p
          PROVE  f[s] = BlobSize[b] + f[s \ {b}]
      <4>1. b \in s \ {p} /\ p \in s \ {b}
        BY <3>1, <3>2
      <4>2. f[s \ {p}] = BlobSize[b] + f[(s \ {p}) \ {b}]
        BY <2>3, <3>1, <4>1
      <4>3. f[s \ {b}] = BlobSize[p] + f[(s \ {b}) \ {p}]
        BY <2>3, <4>1
      <4>4. (s \ {p}) \ {b} = (s \ {b}) \ {p}
        OBVIOUS
      <4>5. f[(s \ {p}) \ {b}] \in Nat
        <5>1. (s \ {p}) \ {b} \in SUBSET S /\ Cardinality((s \ {p}) \ {b}) \in Nat /\ Cardinality((s \ {p}) \ {b}) < k
          <6>1. s \ {p} \in SUBSET S /\ Cardinality(s \ {p}) \in Nat /\ Cardinality(s \ {p}) < k
            BY <2>2, <3>1, Smaller
          <6>2. /\ (s \ {p}) \ {b} \in SUBSET S
                /\ Cardinality((s \ {p}) \ {b}) \in Nat
                /\ Cardinality((s \ {p}) \ {b}) = Cardinality(s \ {p}) - 1
            <7>. DEFINE t == s \ {p}
            <7>1. t \in SUBSET S /\ b \in t
              BY <4>1, <6>1
            <7>. HIDE DEF t
            <7>2. t \ {b} \in SUBSET S /\ Cardinality(t \ {b}) \in Nat /\ Cardinality(t \ {b}) = Cardinality(t) - 1
              BY <7>1, Smaller
            <7>. QED BY <7>2 DEF t
          <6>3. k \in Nat
            BY <2>1
          <6>. QED BY <6>1, <6>2, <6>3
        <5>. QED
          BY <2>1, <5>1
      <4>6. BlobSize[b] \in Nat
        BY <1>3
      <4>. HIDE DEF p
      <4>7. f[s] = BlobSize[p] + (BlobSize[b] + f[(s \ {p}) \ {b}])
        BY <3>1, <4>2
      <4>8. f[s \ {b}] = BlobSize[p] + f[(s \ {p}) \ {b}]
        BY <4>3, <4>4
      <4>. QED
        BY <3>1, <4>5, <4>6, <4>7, <4>8
    <3>. HIDE DEF p
    <3>3. f[s] \in Nat
      BY <3>1
    <3>4. \A b \in s : f[s] = BlobSize[b] + f[s \ {b}]
      BY <3>1, <3>2
    <3>. QED
      BY <2>2, <3>3, <3>4
  <2>. QED
    BY <2>4, <2>5
<1>. QED
  BY <1>1, <1>4

\* A sum does not depend on the set it is computed in.
LEMMA SumsAgree ==
    ASSUME NEW S, NEW U, IsFiniteSet(U), S \subseteq U,
           NEW f, Sums(f, S), NEW g, Sums(g, U)
    PROVE  \A s \in SUBSET S : f[s] = g[s]
<1>. DEFINE T == {k \in Nat : \E s \in SUBSET S : Cardinality(s) = k /\ f[s] # g[s]}
<1>1. \A s \in SUBSET S : IsFiniteSet(s) /\ Cardinality(s) \in Nat
  BY FS_Subset, FS_CardinalityType
<1>2. \A s \in SUBSET S : /\ f[s] = IF s = {} THEN 0 ELSE BlobSize[Pick(s)] + f[s \ {Pick(s)}]
                          /\ g[s] = IF s = {} THEN 0 ELSE BlobSize[Pick(s)] + g[s \ {Pick(s)}]
  BY DEF Sums
<1>3. T = {}
  <2>. SUFFICES ASSUME T # {} PROVE FALSE
    OBVIOUS
  <2>1. PICK k \in T : \A j \in T : ~(j < k)
    BY LeastNumber
  <2>2. PICK s \in SUBSET S : Cardinality(s) = k /\ f[s] # g[s]
    BY <2>1
  <2>3. s # {}
    BY <1>2, <2>2
  <2>4. Pick(s) \in s
    BY <2>3, PickIn
  <2>5. /\ s \ {Pick(s)} \in SUBSET S
        /\ Cardinality(s \ {Pick(s)}) \in Nat /\ Cardinality(s \ {Pick(s)}) < k
    BY <2>2, <2>4, Smaller
  <2>6. f[s \ {Pick(s)}] = g[s \ {Pick(s)}]
    BY <2>1, <2>5
  <2>. QED
    BY <1>2, <2>2, <2>3, <2>6
<1>. QED
  BY <1>1, <1>3

LEMMA BytesAreSums ==
    ASSUME NEW S, IsFiniteSet(S)
    PROVE  \E f : Sums(f, S) /\ Bytes(S) = f[S]
<1>. DEFINE f == CHOOSE f : Sums(f, S)
<1>1. Sums(f, S)
  BY SumsExist
<1>2. Bytes(S) = f[S]
  BY DEF Bytes, Sums, Pick, SumOf!MapThenSumSet, SumOf!MapThenFoldSet
<1>. QED
  BY <1>1, <1>2

\* One blob more costs its size.
LEMMA BytesGrow ==
    ASSUME NEW S, IsFiniteSet(S), S \subseteq Blob, NEW b \in Blob, b \notin S
    PROVE  Bytes(S \cup {b}) = Bytes(S) + BlobSize[b]
<1>. DEFINE U == S \cup {b}
<1>1. IsFiniteSet(U) /\ U \subseteq Blob /\ S \subseteq U /\ U \ {b} = S
  BY FS_AddElement
<1>2. PICK f : Sums(f, S) /\ Bytes(S) = f[S]
  BY BytesAreSums
<1>3. PICK g : Sums(g, U) /\ Bytes(U) = g[U]
  BY <1>1, BytesAreSums
<1>4. f[S] = g[S]
  <2>1. Sums(f, S) /\ Sums(g, U) /\ IsFiniteSet(U) /\ S \subseteq U /\ S \in SUBSET S
    BY <1>1, <1>2, <1>3
  <2>. HIDE DEF U
  <2>2. \A s \in SUBSET S : f[s] = g[s]
    BY <2>1, SumsAgree
  <2>. QED
    BY <2>1, <2>2
<1>5. g[U] = BlobSize[b] + g[S] /\ g[S] \in Nat
  BY <1>1, <1>3, SumsSplit
<1>6. BlobSize[b] \in Nat
  BY BoundAssumption
<1>. QED
  BY <1>2, <1>3, <1>4, <1>5, <1>6

LEMMA BytesOfNone == Bytes({}) = 0
<1>1. PICK f : Sums(f, {}) /\ Bytes({}) = f[{}]
  BY BytesAreSums, FS_EmptySet
<1>. QED
  BY <1>1 DEF Sums

-----------------------------------------------------------------------------
(* The quota.                                                              *)

QuotaInv == IsFiniteSet(revisions) /\ QuotaRespected

\* The verdict "ok" means that the new row's bytes fit.
LEMMA VerdictFits ==
    ASSUME NEW i, CommitVerdict(i) = "ok"
    PROVE  ~ExceedsQuota(i)
BY DEF CommitVerdict, NewRevisionError

LEMMA CommitKeepsQuota ==
    ASSUME TypeOK, QuotaInv, NEW i \in Item, CommitVerdict(i) = "ok", CommitNewRevision(i)
    PROVE  QuotaInv'
<1>. DEFINE v == i.header.vaultId
<1>1. revisions' = revisions \cup {NewRow(i)}
  BY DEF CommitNewRevision
<1>2. IsFiniteSet(revisions')
  BY <1>1, FS_AddElement DEF QuotaInv
<1>3. i.blob \in Blob /\ v \in Vault /\ Quota[v] \in Nat
  BY ItemAssumption, BoundAssumption DEF ItemType, Header
<1>4. ASSUME NEW u \in Vault PROVE ComputeVaultStorageBytes(u)' <= Quota[u]
  <2>1. IsFiniteSet(VaultBlobs(u)) /\ VaultBlobs(u) \subseteq Blob
    <3>. DEFINE rows == {r \in revisions : r.header.vaultId = u}
    <3>1. IsFiniteSet(rows)
      BY FS_Subset DEF QuotaInv
    <3>. DEFINE f == [r \in rows |-> r.blob]
    <3>2. f \in Surjection(rows, VaultBlobs(u))
      BY DEF Surjection, VaultBlobs
    <3>. QED
      BY <3>1, <3>2, FS_Surjection DEF VaultBlobs, TypeOK, RevisionRow
  <2>2. Bytes(VaultBlobs(u)) <= Quota[u]
    BY DEF QuotaInv, QuotaRespected, ComputeVaultStorageBytes, Bytes
  <2>3. VaultBlobs(u)' = IF u = v THEN VaultBlobs(u) \cup {i.blob} ELSE VaultBlobs(u)
    <3>1. NewRow(i).header.vaultId = v /\ NewRow(i).blob = i.blob
      BY DEF NewRow
    <3>. QED
      BY <1>1, <3>1 DEF VaultBlobs
  <2>6. ComputeVaultStorageBytes(u)' = Bytes(VaultBlobs(u)')
    BY DEF ComputeVaultStorageBytes, Bytes, SumOf!MapThenSumSet, SumOf!MapThenFoldSet
  <2>4. CASE u # v \/ i.blob \in VaultBlobs(u)
    <3>1. VaultBlobs(u)' = VaultBlobs(u)
      BY <2>3, <2>4
    <3>. QED
      BY <2>2, <2>6, <3>1
  <2>5. CASE u = v /\ i.blob \notin VaultBlobs(u)
    <3>1. Bytes(VaultBlobs(u) \cup {i.blob}) = Bytes(VaultBlobs(u)) + BlobSize[i.blob]
      BY <1>3, <2>1, <2>5, BytesGrow
    <3>2. ~(Bytes(VaultBlobs(u)) + BlobSize[i.blob] > Quota[u])
      BY <2>5, VerdictFits DEF ExceedsQuota, ComputeVaultStorageBytes, Bytes
    <3>3. Bytes(VaultBlobs(u) \cup {i.blob}) <= Quota[u]
      <4>1. Bytes(VaultBlobs(u)) \in Nat
        BY <2>1, BytesAreSums, SumsSplit
      <4>2. BlobSize[i.blob] \in Nat /\ Quota[u] \in Nat
        BY <1>3, BoundAssumption
      <4>. QED
        BY <3>1, <3>2, <4>1, <4>2
    <3>. QED
      BY <2>3, <2>5, <2>6, <3>3
  <2>. QED
    BY <2>4, <2>5
<1>. QED
  BY <1>2, <1>4 DEF QuotaInv, QuotaRespected

LEMMA QuotaInit == Init => QuotaInv
<1>. SUFFICES ASSUME Init PROVE QuotaInv
  OBVIOUS
<1>1. revisions = {}
  BY DEF Init
<1>2. \A v \in Vault : VaultBlobs(v) = {}
  BY <1>1 DEF VaultBlobs
<1>3. \A v \in Vault : ComputeVaultStorageBytes(v) = 0
  BY <1>2, BytesOfNone DEF ComputeVaultStorageBytes, Bytes
<1>. QED
  BY <1>1, <1>3, FS_EmptySet, BoundAssumption DEF QuotaInv, QuotaRespected

LEMMA QuotaNext == TypeOK /\ QuotaInv /\ [Next]_vars => QuotaInv'
<1>. SUFFICES ASSUME TypeOK, QuotaInv, [Next]_vars PROVE QuotaInv'
  OBVIOUS
<1>1. CASE UNCHANGED revisions
  <2>1. \A v \in Vault : VaultBlobs(v)' = VaultBlobs(v)
    BY <1>1 DEF VaultBlobs
  <2>2. \A v \in Vault : /\ ComputeVaultStorageBytes(v) = Bytes(VaultBlobs(v))
                          /\ ComputeVaultStorageBytes(v)' = Bytes(VaultBlobs(v)')
    BY DEF ComputeVaultStorageBytes, Bytes, SumOf!MapThenSumSet, SumOf!MapThenFoldSet
  <2>. QED
    BY <1>1, <2>1, <2>2 DEF QuotaInv, QuotaRespected
<1>2. ASSUME NEW p \in Process, Current(p) \in Item,
             CommitVerdict(Current(p)) = "ok", CommitNewRevision(Current(p))
      PROVE  QuotaInv'
  BY <1>2, CommitKeepsQuota
<1>. QED
  BY <1>1, <1>2, GraphSteps

\* The bytes a vault is charged for never pass its quota: computeVaultStorageBytes
\* charges each distinct blob once, and assertWithinQuota runs again inside the
\* transaction, when other handlers may have committed since the check.
THEOREM QuotaCorrect == Spec => []QuotaRespected
<1>1. QuotaInv => QuotaRespected
  BY DEF QuotaInv
<1>. QED
  BY <1>1, TypeInit, TypeNext, QuotaInit, QuotaNext, PTL DEF Spec

-----------------------------------------------------------------------------
(* Kahn's algorithm of orderBatch, for every batch.                        *)

BatchRevision == [id : Id, parents : SUBSET (Id \cup Outsiders)]

Distinct(s) == \A m, n \in 1..Len(s) : s[m] = s[n] => m = n

\* The parents of a revision that wait in front of it.
Missing(k) == InBatchParents(k) \ ToSet(ordered)

\* While the loop runs: the ids emitted and the ids in the queue are different ones;
\* the counter of an id is the number of its parents not emitted yet, and it is zero
\* exactly for the ids emitted or in the queue; each id came after all its parents.
Sorted ==
    /\ ~HasDuplicate
    /\ {ordered, ready} \subseteq Seq(Ids)
    /\ Distinct(ordered) /\ Distinct(ready) /\ ToSet(ordered) \cap ToSet(ready) = {}
    /\ inDegree = [k \in Ids |-> Cardinality(Missing(k))]
    /\ \A k \in Ids : Missing(k) = {} <=> k \in ToSet(ordered) \cup ToSet(ready)
    /\ \A k \in Ids : \A n \in 1..Len(ordered) :
         ordered[n] = k => InBatchParents(k) \subseteq {ordered[m] : m \in 1..(n - 1)}

OrderInv ==
    /\ batch \in Seq(BatchRevision)
    /\ returned \in {"none", "running", "order", "null"}
    /\ returned = "none" => ordered = <<>>
    /\ returned = "running" => Sorted
    /\ returned = "order" => Sorted /\ Len(ordered) = Len(batch)
    /\ returned = "null" => HasDuplicate \/ (Sorted /\ ready = <<>> /\ Len(ordered) # Len(batch))

\* What a sequence has, one element and one sequence later.
LEMMA ElementsOf ==
  ASSUME NEW S, NEW s \in Seq(S)
  PROVE  /\ ToSet(s) \subseteq S /\ ToSet(s) = {s[i] : i \in 1..Len(s)}
         /\ \A e : ToSet(Append(s, e)) = ToSet(s) \cup {e}
         /\ \A t \in Seq(S) : ToSet(s \o t) = ToSet(s) \cup ToSet(t)
         /\ s # <<>> => ToSet(s) = {Head(s)} \cup ToSet(Tail(s))
<1>1. ToSet(s) \subseteq S /\ ToSet(s) = {s[i] : i \in 1..Len(s)}
  BY DEF ToSet
<1>2. ASSUME NEW e PROVE ToSet(Append(s, e)) = ToSet(s) \cup {e}
  <2>1. DOMAIN Append(s, e) = 1..(Len(s) + 1) /\ \A i \in 1..(Len(s) + 1) : Append(s, e)[i] = IF i <= Len(s) THEN s[i] ELSE e
    OBVIOUS
  <2> QED BY <1>1, <2>1 DEF ToSet
<1>3. ASSUME NEW t \in Seq(S) PROVE ToSet(s \o t) = ToSet(s) \cup ToSet(t)
  <2>1. /\ DOMAIN (s \o t) = 1..(Len(s) + Len(t)) /\ Len(s) \in Nat /\ Len(t) \in Nat
        /\ \A i \in 1..(Len(s) + Len(t)) : (s \o t)[i] = IF i <= Len(s) THEN s[i] ELSE t[i - Len(s)]
    OBVIOUS
  <2>2. ToSet(t) = {t[i] : i \in 1..Len(t)}
    BY DEF ToSet
  <2>3. ToSet(s \o t) = {(s \o t)[i] : i \in 1..(Len(s) + Len(t))}
    BY <2>1 DEF ToSet
  <2>4. ASSUME NEW i \in 1..Len(t) PROVE (s \o t)[i + Len(s)] = t[i] /\ i + Len(s) \in 1..(Len(s) + Len(t))
    BY <2>1
  <2>5. ASSUME NEW i \in 1..Len(s) PROVE (s \o t)[i] = s[i] /\ i \in 1..(Len(s) + Len(t))
    BY <2>1
  <2>6. ASSUME NEW i \in 1..(Len(s) + Len(t)) PROVE (s \o t)[i] \in ToSet(s) \cup ToSet(t)
    <3>1. CASE i <= Len(s)
      BY <1>1, <2>1, <3>1
    <3>2. CASE ~(i <= Len(s))
      BY <2>1, <2>2, <3>2
    <3> QED BY <3>1, <3>2
  <2>7. ToSet(s) \cup ToSet(t) \subseteq ToSet(s \o t)
    BY <1>1, <2>2, <2>3, <2>4, <2>5
  <2> QED BY <2>3, <2>6, <2>7
<1>4. ASSUME s # <<>> PROVE ToSet(s) = {Head(s)} \cup ToSet(Tail(s))
  <2>1. /\ Len(s) \in Nat \ {0} /\ Tail(s) \in Seq(S) /\ Len(Tail(s)) = Len(s) - 1 /\ Head(s) = s[1]
        /\ \A i \in 1..(Len(s) - 1) : Tail(s)[i] = s[i + 1]
    BY <1>4, EmptySeq, HeadTailProperties
  <2>2. ToSet(Tail(s)) = {Tail(s)[i] : i \in 1..(Len(s) - 1)}
    <3>1. \A t \in Seq(S) : ToSet(t) = {t[i] : i \in 1..Len(t)}
      BY DEF ToSet
    <3> QED BY <2>1, <3>1
  <2>3. ASSUME NEW i \in 1..Len(s) PROVE s[i] \in {Head(s)} \cup ToSet(Tail(s))
    <3>1. CASE i = 1
      BY <2>1, <3>1
    <3>2. CASE i # 1
      <4>1. i - 1 \in 1..(Len(s) - 1) /\ Tail(s)[i - 1] = s[i]
        BY <2>1, <3>2
      <4> QED BY <2>2, <4>1
    <3> QED BY <3>1, <3>2
  <2>4. ASSUME NEW i \in 1..(Len(s) - 1) PROVE Tail(s)[i] \in ToSet(s)
    BY <1>1, <2>1
  <2> QED BY <1>1, <2>1, <2>2, <2>3, <2>4
<1> QED BY <1>1, <1>2, <1>3, <1>4

\* A sequence without repetition keeps being one.
LEMMA DistinctSequences ==
  ASSUME NEW S, NEW s \in Seq(S), Distinct(s)
  PROVE  /\ \A e \in S : e \notin ToSet(s) => Distinct(Append(s, e))
         /\ \A t \in Seq(S) : Distinct(t) /\ ToSet(s) \cap ToSet(t) = {} => Distinct(s \o t)
         /\ s # <<>> => Distinct(Tail(s)) /\ Head(s) \notin ToSet(Tail(s))
         /\ Cardinality(ToSet(s)) = Len(s) /\ IsFiniteSet(ToSet(s))
<1>1. ToSet(s) = {s[i] : i \in 1..Len(s)} /\ Len(s) \in Nat
  BY ElementsOf
<1>2. ASSUME NEW e \in S, e \notin ToSet(s) PROVE Distinct(Append(s, e))
  <2>1. Len(Append(s, e)) = Len(s) + 1 /\ \A i \in 1..(Len(s) + 1) : Append(s, e)[i] = IF i <= Len(s) THEN s[i] ELSE e
    OBVIOUS
  <2>2. \A i \in 1..Len(s) : s[i] # e
    BY <1>1, <1>2
  <2> QED BY <1>1, <2>1, <2>2 DEF Distinct
<1>3. ASSUME NEW t \in Seq(S), Distinct(t), ToSet(s) \cap ToSet(t) = {} PROVE Distinct(s \o t)
  <2>1. /\ Len(s \o t) = Len(s) + Len(t) /\ Len(t) \in Nat
        /\ \A i \in 1..(Len(s) + Len(t)) : (s \o t)[i] = IF i <= Len(s) THEN s[i] ELSE t[i - Len(s)]
    OBVIOUS
  <2>2. \A i \in 1..Len(s), j \in 1..Len(t) : s[i] # t[j]
    BY <1>1, <1>3 DEF ToSet
  <2> SUFFICES ASSUME NEW m \in 1..(Len(s) + Len(t)), NEW n \in 1..(Len(s) + Len(t)), (s \o t)[m] = (s \o t)[n]
               PROVE  m = n
    BY <2>1 DEF Distinct
  <2>3. CASE m <= Len(s) /\ n <= Len(s)
    BY <1>1, <2>1, <2>3 DEF Distinct
  <2>4. CASE ~(m <= Len(s)) /\ ~(n <= Len(s))
    <3>1. m - Len(s) \in 1..Len(t) /\ n - Len(s) \in 1..Len(t) /\ t[m - Len(s)] = t[n - Len(s)]
      BY <1>1, <2>1, <2>4
    <3>2. m - Len(s) = n - Len(s)
      BY <1>3, <3>1 DEF Distinct
    <3> QED BY <1>1, <3>2
  <2>5. CASE m <= Len(s) /\ ~(n <= Len(s))
    <3>1. n - Len(s) \in 1..Len(t) /\ m \in 1..Len(s) /\ s[m] = t[n - Len(s)]
      BY <1>1, <2>1, <2>5
    <3> QED BY <2>2, <3>1
  <2>6. CASE ~(m <= Len(s)) /\ n <= Len(s)
    <3>1. m - Len(s) \in 1..Len(t) /\ n \in 1..Len(s) /\ s[n] = t[m - Len(s)]
      BY <1>1, <2>1, <2>6
    <3> QED BY <2>2, <3>1
  <2> QED BY <2>3, <2>4, <2>5, <2>6
<1>4. ASSUME s # <<>> PROVE Distinct(Tail(s)) /\ Head(s) \notin ToSet(Tail(s))
  <2>1. /\ Len(s) \in Nat \ {0} /\ Len(Tail(s)) = Len(s) - 1 /\ Head(s) = s[1] /\ Tail(s) \in Seq(S)
        /\ \A i \in 1..(Len(s) - 1) : Tail(s)[i] = s[i + 1]
    BY <1>4, EmptySeq, HeadTailProperties
  <2>2. Distinct(Tail(s))
    BY <2>1 DEF Distinct
  <2>3. ASSUME NEW i \in 1..(Len(s) - 1) PROVE Tail(s)[i] # Head(s)
    BY <2>1 DEF Distinct
  <2> QED BY <2>1, <2>2, <2>3 DEF ToSet
<1>5. Cardinality(ToSet(s)) = Len(s) /\ IsFiniteSet(ToSet(s))
  <2>1. IsFiniteSet(1..Len(s)) /\ Cardinality(1..Len(s)) = Len(s)
    <3>1. \A m \in Nat : IsFiniteSet(1..m) /\ Cardinality(1..m) = m
      BY FS_Interval
    <3> QED BY <1>1, <3>1
  <2>2. s \in [1..Len(s) -> ToSet(s)]
    <3>1. s = [i \in 1..Len(s) |-> s[i]]
      OBVIOUS
    <3> QED BY <1>1, <3>1
  <2>3. s \in Injection(1..Len(s), ToSet(s))
    BY <2>2 DEF Injection, IsInjective, Distinct
  <2>4. s \in Surjection(1..Len(s), ToSet(s))
    BY <1>1, <2>2 DEF Surjection
  <2>5. s \in Bijection(1..Len(s), ToSet(s))
    BY <2>3, <2>4 DEF Bijection
  <2> QED BY <2>1, <2>5, FS_Bijection DEF ExistsBijection
<1> QED BY <1>2, <1>3, <1>4, <1>5

\* The recursive function of InBatchOrder, up to the k-th revision of the batch.
Lists(f, S, k) ==
    f = [n \in 0..k |-> IF n = 0 THEN <<>>
                        ELSE IF batch[n].id \in S THEN Append(f[n - 1], batch[n].id)
                        ELSE f[n - 1]]

LEMMA ListExists == ASSUME NEW S, NEW last \in Nat PROVE \E f : Lists(f, S, last)
<1> DEFINE T == {k \in Nat : ~\E f : Lists(f, S, k)}
<1> SUFFICES ASSUME T # {} PROVE FALSE
  OBVIOUS
<1>1. PICK k \in T : \A j \in T : ~(j < k)
  BY LeastNumber
<1>2. CASE k = 0
  <2>1. Lists([n \in 0..0 |-> <<>>], S, 0)
    BY DEF Lists
  <2> QED BY <1>1, <1>2, <2>1
<1>3. CASE k # 0
  <2>1. k - 1 \in Nat /\ k - 1 \notin T
    <3>1. k \in Nat
      OBVIOUS
    <3> HIDE DEF T
    <3> QED BY <1>1, <1>3, <3>1
  <2>2. PICK f : Lists(f, S, k - 1)
    BY <2>1
  <2> DEFINE Next1(h, n) == IF batch[n].id \in S THEN Append(h, batch[n].id) ELSE h
             g == [n \in 0..k |-> IF n = k THEN Next1(f[k - 1], k) ELSE f[n]]
  <2>3. ASSUME NEW n \in 0..k PROVE g[n] = IF n = 0 THEN <<>> ELSE Next1(g[n - 1], n)
    <3>1. CASE n = k
      <4>1. k - 1 \in 0..k /\ k - 1 # k /\ k \in 0..k
        BY <1>3
      <4>2. g[k - 1] = f[k - 1] /\ g[k] = Next1(f[k - 1], k)
        BY <4>1
      <4> HIDE DEF g, Next1
      <4> QED BY <1>3, <3>1, <4>2
    <3>2. CASE n # k
      <4>1. n \in 0..(k - 1) /\ (n # 0 => n - 1 \in 0..(k - 1) /\ n - 1 \in 0..k /\ n - 1 # k)
        BY <1>1, <3>2
      <4>2. f[n] = IF n = 0 THEN <<>> ELSE Next1(f[n - 1], n)
        BY <2>2, <4>1, Zenon DEF Lists
      <4>3. g[n] = f[n] /\ (n # 0 => g[n - 1] = f[n - 1])
        BY <3>2, <4>1
      <4> HIDE DEF g, Next1
      <4> QED BY <4>2, <4>3
    <3> QED BY <3>1, <3>2
  <2>4. Lists(g, S, k)
    <3>1. g = [n \in 0..k |-> g[n]]
      OBVIOUS
    <3> HIDE DEF g
    <3>2. g = [n \in 0..k |-> IF n = 0 THEN <<>> ELSE Next1(g[n - 1], n)]
      BY <2>3, <3>1, Zenon
    <3> QED BY <3>2 DEF Lists
  <2> QED BY <1>1, <2>4
<1> QED BY <1>2, <1>3

\* The ids of a set, in batch order: each of them once.
LEMMA BatchOrder ==
  ASSUME batch \in Seq(BatchRevision), ~HasDuplicate, NEW S
  PROVE  /\ InBatchOrder(S) \in Seq(Ids) /\ Distinct(InBatchOrder(S))
         /\ ToSet(InBatchOrder(S)) = S \cap Ids
<1>1. Len(batch) \in Nat /\ DOMAIN batch = 1..Len(batch)
  OBVIOUS
<1>2. PICK f : Lists(f, S, Len(batch)) /\ InBatchOrder(S) = f[Len(batch)]
  <2>1. InBatchOrder(S) = (CHOOSE f : Lists(f, S, Len(batch)))[Len(batch)]
    BY DEF InBatchOrder, Lists
  <2> QED BY <1>1, <2>1, ListExists
<1> DEFINE Before(n) == {batch[i].id : i \in 1..n}
           Good(n) == /\ f[n] \in Seq(Ids) /\ Distinct(f[n])
                      /\ ToSet(f[n]) = S \cap Before(n)
           T == {n \in 0..Len(batch) : ~Good(n)}
<1>3. ASSUME NEW n \in 1..Len(batch) PROVE batch[n].id \in Ids /\ batch[n].id \notin Before(n - 1)
  BY <1>1, <1>3 DEF Ids, HasDuplicate
<1>4. T = {}
  <2> SUFFICES ASSUME T # {} PROVE FALSE
    OBVIOUS
  <2>1. PICK n \in T : \A j \in T : ~(j < n)
    <3>1. T \subseteq Nat
      BY <1>1
    <3> HIDE DEF T
    <3> QED BY <3>1, LeastNumber
  <2>2. n \in 0..Len(batch) /\ ~Good(n)
    OBVIOUS
  <2>3. f[n] = IF n = 0 THEN <<>> ELSE IF batch[n].id \in S THEN Append(f[n - 1], batch[n].id) ELSE f[n - 1]
    BY <1>2, <2>2 DEF Lists
  <2>4. CASE n = 0
    <3>1. f[n] = <<>> /\ Before(n) = {}
      BY <2>3, <2>4
    <3>2. <<>> \in Seq(Ids) /\ Distinct(<<>>) /\ ToSet(<<>>) = {}
      BY DEF Distinct, ToSet
    <3> QED BY <2>2, <3>1, <3>2
  <2>5. CASE n # 0
    <3>1. n \in 1..Len(batch) /\ n - 1 \in 0..Len(batch) /\ n - 1 < n
      BY <1>1, <2>2, <2>5
    <3>2. Good(n - 1)
      BY <2>1, <3>1
    <3>3. Before(n) = Before(n - 1) \cup {batch[n].id}
      BY <3>1
    <3>4. batch[n].id \in Ids /\ batch[n].id \notin Before(n - 1)
      BY <1>3, <3>1
    <3> HIDE DEF Before
    <3>5. CASE batch[n].id \in S
      <4>1. f[n] = Append(f[n - 1], batch[n].id)
        BY <2>3, <2>5, <3>5
      <4>2. ToSet(f[n]) = ToSet(f[n - 1]) \cup {batch[n].id} /\ batch[n].id \notin ToSet(f[n - 1])
        BY <3>2, <3>4, <4>1, ElementsOf
      <4>3. f[n] \in Seq(Ids)
        BY <3>2, <3>4, <4>1
      <4>4. Distinct(f[n])
        BY <3>2, <3>4, <4>1, <4>2, DistinctSequences
      <4> QED BY <2>2, <3>2, <3>3, <3>5, <4>2, <4>3, <4>4
    <3>6. CASE batch[n].id \notin S
      <4>1. f[n] = f[n - 1]
        BY <2>3, <2>5, <3>6
      <4> QED BY <2>2, <3>2, <3>3, <3>6, <4>1
    <3> QED BY <3>5, <3>6
  <2> QED BY <2>4, <2>5
<1>5. Good(Len(batch))
  <2>1. \A n \in 0..Len(batch) : Good(n)
    BY <1>4
  <2>2. Len(batch) \in 0..Len(batch)
    BY <1>1
  <2> QED BY <2>1, <2>2
<1>6. Before(Len(batch)) = Ids
  BY <1>1 DEF Ids
<1> HIDE DEF Before
<1> QED BY <1>2, <1>5, <1>6

\* Without duplicates the batch has as many ids as revisions.
LEMMA AsManyIds ==
  ASSUME batch \in Seq(BatchRevision), ~HasDuplicate
  PROVE  IsFiniteSet(Ids) /\ Cardinality(Ids) = Len(batch) /\ Len(batch) \in Nat
<1> DEFINE s == [n \in 1..Len(batch) |-> batch[n].id]
<1>1. Len(batch) \in Nat /\ DOMAIN batch = 1..Len(batch)
  OBVIOUS
<1>2. s \in Seq(Ids) /\ Len(s) = Len(batch) /\ ToSet(s) = Ids
  <2>1. \A n \in 1..Len(batch) : s[n] \in Ids
    BY <1>1 DEF Ids
  <2>2. Ids = {s[n] : n \in 1..Len(batch)}
    BY <1>1 DEF Ids
  <2>3. s \in Seq(Ids) /\ Len(s) = Len(batch)
    BY <1>1, <2>1
  <2> HIDE DEF s
  <2> QED BY <2>2, <2>3, ElementsOf
<1>3. Distinct(s)
  BY <1>1 DEF Distinct, HasDuplicate
<1> HIDE DEF s
<1> QED BY <1>1, <1>2, <1>3, DistinctSequences

\* The parents of a revision that are in the batch.
LEMMA ParentsOf ==
  ASSUME NEW k
  PROVE  /\ InBatchParents(k) \subseteq Ids
         /\ \A p : p \in InBatchParents(k) <=>
                   p \in Ids /\ \E n \in DOMAIN batch : batch[n].id = k /\ p \in batch[n].parents
<1> DEFINE At == {n \in DOMAIN batch : batch[n].id = k}
           All == UNION {batch[n].parents : n \in At}
<1>1. InBatchParents(k) = All \cap Ids
  BY DEF InBatchParents
<1>2. \A p : p \in All <=> \E n \in At : p \in batch[n].parents
  OBVIOUS
<1> HIDE DEF All
<1> QED BY <1>1, <1>2

\* A set loses a member: its size goes down by one; one that it has not: it stays.
LEMMA OneLess ==
  ASSUME NEW S, IsFiniteSet(S), NEW e
  PROVE  /\ e \in S => Cardinality(S \ {e}) = Cardinality(S) - 1
         /\ e \notin S => S \ {e} = S
         /\ Cardinality(S) \in Nat /\ (Cardinality(S) = 0 <=> S = {})
BY FS_RemoveElement, FS_CardinalityType, FS_EmptySet

LEMMA CountStep ==
  ASSUME batch \in Seq(BatchRevision), ~HasDuplicate, ordered = <<>>, CountParents
  PROVE  Sorted'
<1> DEFINE roots == {id \in Ids : InBatchParents(id) = {}}
<1>1. /\ batch' = batch /\ ordered' = <<>> /\ ready' = InBatchOrder(roots)
      /\ inDegree' = [id \in Ids |-> Cardinality(InBatchParents(id))]
  BY DEF CountParents
<1>2. Ids' = Ids /\ HasDuplicate' = HasDuplicate /\ \A k : InBatchParents(k)' = InBatchParents(k)
  BY <1>1 DEF Ids, HasDuplicate, InBatchParents
<1>3. ready' \in Seq(Ids) /\ Distinct(ready') /\ ToSet(ready') = roots
  <2>1. roots \cap Ids = roots
    OBVIOUS
  <2> HIDE DEF roots
  <2> QED BY <1>1, <2>1, BatchOrder
<1>4. ordered' \in Seq(Ids) /\ Distinct(ordered') /\ ToSet(ordered') = {} /\ Len(ordered') = 0
  BY <1>1 DEF Distinct, ToSet
<1>5. \A k : Missing(k)' = InBatchParents(k)
  BY <1>2, <1>4 DEF Missing
<1>6. /\ {ordered', ready'} \subseteq Seq(Ids)' /\ ToSet(ordered') \cap ToSet(ready') = {}
      /\ (ToSet(ordered) \cup ToSet(ready))' = roots
  BY <1>2, <1>3, <1>4
<1>7. inDegree' = [k \in Ids' |-> Cardinality(Missing(k)')]
  BY <1>1, <1>2, <1>5
<1>8. \A k \in Ids' : Missing(k)' = {} <=> k \in (ToSet(ordered) \cup ToSet(ready))'
  BY <1>2, <1>5, <1>6
<1>9. \A k \in Ids' : \A n \in 1..Len(ordered') :
        ordered'[n] = k => InBatchParents(k)' \subseteq {ordered'[m] : m \in 1..(n - 1)}
  BY <1>4
<1> QED BY <1>2, <1>3, <1>4, <1>6, <1>7, <1>8, <1>9 DEF Sorted

LEMMA ShiftStep ==
  ASSUME batch \in Seq(BatchRevision), Sorted, Shift
  PROVE  Sorted'
<1> DEFINE id == Head(ready)
           degree == [k \in Ids |-> IF k \in Children(id) THEN inDegree[k] - 1 ELSE inDegree[k]]
           freed == Freed(id, degree)
<1>1. /\ ready # <<>> /\ batch' = batch
      /\ ordered' = Append(ordered, id) /\ inDegree' = degree
      /\ ready' = Tail(ready) \o InBatchOrder(freed)
  BY DEF Shift
<1>2. Ids' = Ids /\ HasDuplicate' = HasDuplicate /\ \A k : InBatchParents(k)' = InBatchParents(k)
  BY <1>1 DEF Ids, HasDuplicate, InBatchParents
<1>3. /\ ~HasDuplicate /\ ordered \in Seq(Ids) /\ ready \in Seq(Ids)
      /\ Distinct(ordered) /\ Distinct(ready) /\ ToSet(ordered) \cap ToSet(ready) = {}
      /\ inDegree = [k \in Ids |-> Cardinality(Missing(k))]
      /\ \A k \in Ids : Missing(k) = {} <=> k \in ToSet(ordered) \cup ToSet(ready)
  BY DEF Sorted
<1>4. /\ id \in Ids /\ Tail(ready) \in Seq(Ids)
      /\ ToSet(ready) = {id} \cup ToSet(Tail(ready)) /\ id \notin ToSet(Tail(ready))
      /\ Distinct(Tail(ready)) /\ id \notin ToSet(ordered) /\ Missing(id) = {}
  <2>1. id \in Ids /\ Tail(ready) \in Seq(Ids)
    BY <1>1, <1>3, HeadTailProperties
  <2>2. ToSet(ready) = {id} \cup ToSet(Tail(ready))
    BY <1>1, <1>3, ElementsOf
  <2>3. id \notin ToSet(Tail(ready)) /\ Distinct(Tail(ready))
    BY <1>1, <1>3, DistinctSequences
  <2> QED BY <1>3, <2>1, <2>2, <2>3
<1>5. ordered' \in Seq(Ids) /\ ToSet(ordered') = ToSet(ordered) \cup {id} /\ Distinct(ordered')
  <2>1. ordered' \in Seq(Ids)
    BY <1>1, <1>3, <1>4
  <2>2. ToSet(ordered') = ToSet(ordered) \cup {id}
    BY <1>1, <1>3, ElementsOf
  <2>3. Distinct(ordered')
    BY <1>1, <1>3, <1>4, DistinctSequences
  <2> QED BY <2>1, <2>2, <2>3
<1>6. \A k : Missing(k)' = Missing(k) \ {id} /\ (id \in Missing(k) <=> id \in InBatchParents(k))
  BY <1>2, <1>4, <1>5 DEF Missing
<1>7. ASSUME NEW k \in Ids
      PROVE  /\ degree[k] = Cardinality(Missing(k) \ {id})
             /\ degree[k] = 0 <=> Missing(k) \ {id} = {}
  <2>1. IsFiniteSet(Missing(k)) /\ IsFiniteSet(Missing(k) \ {id})
    <3>1. Missing(k) \in SUBSET Ids /\ Missing(k) \ {id} \in SUBSET Ids
      BY ParentsOf DEF Missing
    <3>2. IsFiniteSet(Ids)
      BY <1>3, AsManyIds
    <3> QED BY <3>1, <3>2, FS_Subset
  <2>2. degree[k] = IF id \in Missing(k) THEN Cardinality(Missing(k)) - 1 ELSE Cardinality(Missing(k))
    BY <1>3, <1>6 DEF Children
  <2>3. degree[k] = Cardinality(Missing(k) \ {id})
    BY <2>1, <2>2, OneLess
  <2> QED BY <2>1, <2>3, OneLess
<1> HIDE DEF degree
<1>8. freed = {k \in Ids : id \in Missing(k) /\ Missing(k) \ {id} = {}}
  BY <1>6, <1>7 DEF Freed, Children
<1> HIDE DEF freed
<1>9. /\ InBatchOrder(freed) \in Seq(Ids) /\ Distinct(InBatchOrder(freed))
      /\ ToSet(InBatchOrder(freed)) = freed
  <2>1. freed \cap Ids = freed
    BY <1>8
  <2> QED BY <1>3, <2>1, BatchOrder
<1>10. freed \cap (ToSet(ordered) \cup ToSet(ready)) = {}
  BY <1>3, <1>8
<1>11. ready' \in Seq(Ids) /\ Distinct(ready') /\ ToSet(ready') = ToSet(Tail(ready)) \cup freed
  <2>1. ToSet(Tail(ready)) \cap ToSet(InBatchOrder(freed)) = {}
    BY <1>4, <1>9, <1>10
  <2>2. ready' \in Seq(Ids)
    BY <1>1, <1>4, <1>9
  <2>3. ToSet(ready') = ToSet(Tail(ready)) \cup ToSet(InBatchOrder(freed))
    <3>1. \A s, t \in Seq(Ids) : ToSet(s \o t) = ToSet(s) \cup ToSet(t)
      BY ElementsOf
    <3> QED BY <1>1, <1>4, <1>9, <3>1
  <2>4. Distinct(ready')
    BY <1>1, <1>4, <1>9, <2>1, DistinctSequences
  <2> QED BY <1>9, <2>2, <2>3, <2>4
<1>12. ToSet(ordered') \cap ToSet(ready') = {}
  BY <1>3, <1>4, <1>5, <1>8, <1>10, <1>11
<1>13. inDegree' = [k \in Ids' |-> Cardinality(Missing(k)')]
  <2>1. degree = [k \in Ids |-> Cardinality(Missing(k) \ {id})]
    <3>1. degree = [k \in Ids |-> degree[k]]
      BY DEF degree
    <3> QED BY <1>7, <3>1
  <2> QED BY <1>1, <1>2, <1>6, <2>1
<1>14. \A k \in Ids' : Missing(k)' = {} <=> k \in ToSet(ordered') \cup ToSet(ready')
  <2> SUFFICES ASSUME NEW k \in Ids
               PROVE  Missing(k) \ {id} = {} <=> k \in ToSet(ordered) \cup ToSet(ready) \cup freed
    BY <1>2, <1>4, <1>5, <1>6, <1>11
  <2> QED BY <1>3, <1>8
<1>15. ASSUME NEW k \in Ids, NEW n \in 1..Len(ordered'), ordered'[n] = k
       PROVE  InBatchParents(k) \subseteq {ordered'[m] : m \in 1..(n - 1)}
  <2>1. /\ Len(ordered) \in Nat /\ Len(ordered') = Len(ordered) + 1
        /\ \A m \in 1..Len(ordered) : ordered'[m] = ordered[m]
        /\ ordered'[Len(ordered) + 1] = id
    BY <1>1, <1>3
  <2>2. CASE n \in 1..Len(ordered)
    <3>1. InBatchParents(k) \subseteq {ordered[m] : m \in 1..(n - 1)}
      BY <1>15, <2>1, <2>2 DEF Sorted
    <3>2. \A m \in 1..(n - 1) : ordered'[m] = ordered[m]
      BY <2>1, <2>2
    <3> QED BY <3>1, <3>2
  <2>3. CASE n = Len(ordered) + 1
    <3>1. k = id /\ InBatchParents(id) \subseteq ToSet(ordered)
      BY <1>4, <1>15, <2>1, <2>3 DEF Missing
    <3>2. ToSet(ordered) = {ordered[m] : m \in 1..Len(ordered)}
      BY <1>3, ElementsOf
    <3>3. 1..(n - 1) = 1..Len(ordered)
      BY <2>1, <2>3
    <3> QED BY <2>1, <3>1, <3>2, <3>3
  <2> QED BY <2>1, <2>2, <2>3
<1>16. \A k \in Ids' : \A n \in 1..Len(ordered') :
         ordered'[n] = k => InBatchParents(k)' \subseteq {ordered'[m] : m \in 1..(n - 1)}
  BY <1>2, <1>15
<1>17. {ordered', ready'} \subseteq Seq(Ids)'
  BY <1>2, <1>5, <1>11
<1> QED BY <1>2, <1>3, <1>5, <1>11, <1>12, <1>13, <1>14, <1>16, <1>17 DEF Sorted

LEMMA OrderInitInv == OrderInit => OrderInv
BY DEF OrderInit, OrderInv

\* What the loop keeps depends on its variables only.
LEMMA SortedStays ==
  ASSUME Sorted, UNCHANGED <<batch, ready, inDegree, ordered>>
  PROVE  Sorted' /\ HasDuplicate' = HasDuplicate
<1>1. Ids' = Ids /\ HasDuplicate' = HasDuplicate /\ \A k : InBatchParents(k)' = InBatchParents(k)
  BY DEF Ids, HasDuplicate, InBatchParents
<1>2. \A k : Missing(k)' = Missing(k)
  BY <1>1 DEF Missing
<1> QED BY <1>1, <1>2 DEF Sorted

LEMMA OrderStep == OrderInv /\ [OrderNext]_orderVars => OrderInv'
<1> SUFFICES ASSUME OrderInv, [OrderNext]_orderVars PROVE OrderInv'
  OBVIOUS
<1>1. batch \in Seq(BatchRevision)
  BY DEF OrderInv
<1>2. CASE AddRevision
  <2>1. PICK id \in Id, parents \in SUBSET (Id \cup Outsiders) :
          batch' = Append(batch, [id |-> id, parents |-> parents])
    BY <1>2 DEF AddRevision
  <2>2. [id |-> id, parents |-> parents] \in BatchRevision
    BY DEF BatchRevision
  <2>3. batch' \in Seq(BatchRevision)
    BY <1>1, <2>1, <2>2
  <2> QED BY <1>2, <2>3 DEF AddRevision, OrderInv, BatchRevision
<1>3. CASE RejectDuplicate
  <2>1. HasDuplicate'
    BY <1>3 DEF RejectDuplicate, HasDuplicate
  <2> QED BY <1>1, <1>3, <2>1 DEF RejectDuplicate, OrderInv, BatchRevision
<1>4. CASE CountParents
  <2>1. Sorted'
    BY <1>1, <1>4, CountStep DEF OrderInv, CountParents
  <2> QED BY <1>1, <1>4, <2>1 DEF CountParents, OrderInv, BatchRevision
<1>5. CASE Shift
  <2>1. Sorted'
    BY <1>1, <1>5, ShiftStep DEF OrderInv, Shift
  <2> QED BY <1>1, <1>5, <2>1 DEF Shift, OrderInv, BatchRevision
<1>6. CASE Return
  <2>1. Sorted'
    BY <1>6, SortedStays DEF Return, OrderInv
  <2> QED BY <1>1, <1>6, <2>1 DEF Return, OrderInv, BatchRevision
<1>7. CASE UNCHANGED orderVars
  <2>1. Sorted => Sorted'
    BY <1>7, SortedStays DEF orderVars
  <2>2. HasDuplicate' = HasDuplicate
    BY <1>7 DEF orderVars, HasDuplicate
  <2> QED BY <1>7, <2>1, <2>2 DEF orderVars, OrderInv, BatchRevision
<1> QED BY <1>2, <1>3, <1>4, <1>5, <1>6, <1>7 DEF OrderNext

\* An order that has every id has the parents in front.
LEMMA CompleteOrder ==
  ASSUME batch \in Seq(BatchRevision), Sorted, Len(ordered) = Len(batch)
  PROVE  ordered \in ReferenceOrders
<1>1. /\ ~HasDuplicate /\ ordered \in Seq(Ids) /\ Distinct(ordered)
      /\ \A k \in Ids : \A n \in 1..Len(ordered) :
           ordered[n] = k => InBatchParents(k) \subseteq {ordered[m] : m \in 1..(n - 1)}
  BY DEF Sorted
<1>2. Cardinality(Ids) = Len(ordered) /\ DOMAIN ordered = 1..Len(ordered) /\ Len(ordered) \in Nat
  BY <1>1, AsManyIds
<1>3. ordered \in SetToSeqs(Ids)
  <2>1. ordered \in [1..Len(ordered) -> Ids]
    BY <1>1
  <2> QED BY <1>1, <1>2, <2>1 DEF SetToSeqs, Distinct
<1>4. ASSUME NEW m \in 1..Len(ordered), NEW n \in 1..Len(ordered), NEW k \in DOMAIN batch,
             batch[k].id = ordered[n], ordered[m] \in batch[k].parents
      PROVE  m < n
  <2>1. ordered[n] \in Ids /\ ordered[m] \in Ids
    BY <1>1
  <2>2. ordered[m] \in InBatchParents(ordered[n])
    BY <1>4, <2>1, ParentsOf
  <2>3. ordered[m] \in {ordered[j] : j \in 1..(n - 1)}
    BY <1>1, <2>1, <2>2
  <2>4. PICK j \in 1..(n - 1) : ordered[m] = ordered[j]
    BY <2>3
  <2>5. j \in 1..Len(ordered) /\ m = j
    BY <1>1, <1>2, <2>4 DEF Distinct
  <2> QED BY <1>2, <2>4, <2>5
<1>5. ParentsFirst(ordered)
  BY <1>2, <1>4 DEF ParentsFirst
<1> QED BY <1>3, <1>5 DEF ReferenceOrders

\* What the loop leaves behind closes a cycle: each of those ids has a parent among
\* them, so in no order can the first of them come after its parents.
LEMMA CyclicBatch ==
  ASSUME batch \in Seq(BatchRevision), Sorted, ready = <<>>, Len(ordered) # Len(batch)
  PROVE  ReferenceOrders = {}
<1> SUFFICES ASSUME NEW ids \in ReferenceOrders PROVE FALSE
  OBVIOUS
<1> DEFINE left == Ids \ ToSet(ordered)
<1>1. /\ ~HasDuplicate /\ ordered \in Seq(Ids) /\ Distinct(ordered)
      /\ \A k \in Ids : Missing(k) = {} <=> k \in ToSet(ordered) \cup ToSet(ready)
  BY DEF Sorted
<1>2. IsFiniteSet(Ids) /\ Cardinality(Ids) = Len(batch) /\ Len(batch) \in Nat
  BY <1>1, AsManyIds
<1>3. left # {}
  <2>1. ToSet(ordered) \subseteq Ids
    BY <1>1, ElementsOf
  <2>2. Cardinality(ToSet(ordered)) = Len(ordered)
    BY <1>1, DistinctSequences
  <2>3. ToSet(ordered) # Ids
    BY <1>2, <2>2
  <2> QED BY <2>1, <2>3
<1>4. ASSUME NEW k \in left PROVE \E p \in left : p \in InBatchParents(k)
  <2>1. ToSet(ready) = {}
    BY DEF ToSet
  <2>2. Missing(k) # {}
    BY <1>1, <2>1
  <2> QED BY <2>2, ParentsOf DEF Missing
<1>5. /\ ids \in [1..Len(batch) -> Ids] /\ ParentsFirst(ids)
      /\ \A i, j \in 1..Len(batch) : i # j => ids[i] # ids[j]
  BY <1>2 DEF ReferenceOrders, SetToSeqs
<1>6. \A k \in Ids : \E n \in 1..Len(batch) : ids[n] = k
  <2>1. ids \in Injection(1..Len(batch), Ids)
    <3>1. \A i, j \in DOMAIN ids : ids[i] = ids[j] => i = j
      BY <1>5
    <3> QED BY <1>5, <3>1 DEF Injection, IsInjective
  <2>2. IsFiniteSet(1..Len(batch)) /\ Cardinality(1..Len(batch)) = Len(batch)
    <3>1. \A m \in Nat : IsFiniteSet(1..m) /\ Cardinality(1..m) = m
      BY FS_Interval
    <3> QED BY <1>2, <3>1
  <2>3. ids \in Surjection(1..Len(batch), Ids)
    BY <1>2, <2>1, <2>2, FS_Injection
  <2> QED BY <2>3 DEF Surjection
<1> DEFINE T == {n \in 1..Len(batch) : ids[n] \in left}
<1>7. T # {} /\ T \subseteq Nat
  BY <1>2, <1>3, <1>6
<1>8. PICK n \in T : \A m \in T : ~(m < n)
  <2> HIDE DEF T
  <2> QED BY <1>7, LeastNumber
<1>9. PICK p \in left : p \in InBatchParents(ids[n])
  BY <1>4, <1>8
<1>10. PICK m \in 1..Len(batch) : ids[m] = p
  BY <1>6, <1>9
<1>11. m \in T
  BY <1>9, <1>10
<1>12. \E k \in DOMAIN batch : batch[k].id = ids[n] /\ p \in batch[k].parents
  BY <1>9, ParentsOf
<1>13. m < n
  BY <1>5, <1>8, <1>10, <1>12 DEF ParentsFirst
<1> QED BY <1>8, <1>11, <1>13

\* The push route commits every batch that can be ordered, parents first and each
\* revision once, and answers INVALID_BATCH to no other: orderBatch, whatever the
\* size of the batch and its edges.
THEOREM OrderCorrect == OrderSpec => []OrdersExactlyOrderable
<1>1. OrderInv => OrdersExactlyOrderable
  BY CompleteOrder, CyclicBatch DEF OrderInv, OrdersExactlyOrderable, Sorted
<1> QED BY <1>1, OrderInitInv, OrderStep, PTL DEF OrderSpec
=============================================================================
