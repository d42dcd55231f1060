---------------------------- MODULE OrderBatch ------------------------------
(***************************************************************************)
(* orderBatch of the push route: Kahn's algorithm over the edges whose     *)
(* parent is in the batch too.  RevisionRepository uses its contract       *)
(* (any parents-first order); this module is the algorithm itself, with    *)
(* its counters and its queue.  A turn of the loop is a step.              *)
(***************************************************************************)
EXTENDS Integers, Sequences, FiniteSets, SequencesExt

CONSTANTS
    Id,          \* the revision ids
    Outsiders,   \* ids of revisions that no batch has
    MaxBatch     \* bound: the revisions of a batch

VARIABLES
    batch,       \* the revisions of the body, in its order
    returned,    \* "none" before the call, "running", then "order" or "null"
    ready,       \* the queue of the ids whose parents have been emitted
    inDegree,    \* [Ids -> Nat]: the parents in the batch not emitted yet
    ordered      \* the ids emitted so far

orderVars == <<batch, returned, ready, inDegree, ordered>>

Ids == {batch[n].id : n \in DOMAIN batch}

HasDuplicate ==
    \E m, n \in DOMAIN batch : m # n /\ batch[m].id = batch[n].id

\* The parents of a revision that are in the batch: its in-degree counts these.
InBatchParents(id) ==
    (UNION {batch[n].parents : n \in {m \in DOMAIN batch : batch[m].id = id}}) \cap Ids

Children(id) == {k \in Ids : id \in InBatchParents(k)}

\* The ids of a set in the order the batch lists them: the iteration order of
\* the Map inDegree and of the lists of children.
InBatchOrder(S) ==
    LET listed[n \in 0..Len(batch)] ==
          IF n = 0 THEN <<>>
          ELSE IF batch[n].id \in S THEN Append(listed[n - 1], batch[n].id)
          ELSE listed[n - 1]
    IN  listed[Len(batch)]

OrderInit ==
    batch = <<>> /\ returned = "none" /\ ready = <<>> /\ inDegree = <<>> /\ ordered = <<>>

\* The route parses one more revision of the body.  None is its own parent.
AddRevision ==
    /\ returned = "none" /\ Len(batch) < MaxBatch
    /\ \E id \in Id, parents \in SUBSET (Id \cup Outsiders) :
         id \notin parents /\ batch' = Append(batch, [id |-> id, parents |-> parents])
    /\ UNCHANGED <<returned, ready, inDegree, ordered>>

\* An id that appears twice is rejected before anything else.
RejectDuplicate ==
    /\ returned = "none" /\ HasDuplicate
    /\ returned' = "null"
    /\ UNCHANGED <<batch, ready, inDegree, ordered>>

CountParents ==
    /\ returned = "none" /\ ~HasDuplicate
    /\ returned' = "running"
    /\ inDegree' = [id \in Ids |-> Cardinality(InBatchParents(id))]
    /\ ready' = InBatchOrder({id \in Ids : InBatchParents(id) = {}})
    /\ UNCHANGED <<batch, ordered>>

\* Faulty variant: a child joins the queue when its first parent is emitted.
FreedEagerly(id, degree) == Children(id) \ (ToSet(ready) \cup ToSet(ordered))

\* The children of the emitted revision whose last parent it was.
Freed(id, degree) == {k \in Children(id) : degree[k] = 0}

(***************************************************************************)
(* One iteration of the loop: shift an id, emit it, and lower the          *)
(* in-degree of each child; a child that reaches zero joins the queue.     *)
(***************************************************************************)
Shift ==
    /\ returned = "running" /\ ready # <<>>
    /\ LET id == Head(ready)
           degree == [k \in Ids |-> IF k \in Children(id) THEN inDegree[k] - 1 ELSE inDegree[k]]
       IN  /\ ordered' = Append(ordered, id)
           /\ inDegree' = degree
           /\ ready' = Tail(ready) \o InBatchOrder(Freed(id, degree))
    /\ UNCHANGED <<batch, returned>>

Return ==
    /\ returned = "running" /\ ready = <<>>
    /\ returned' = IF Len(ordered) = Len(batch) THEN "order" ELSE "null"
    /\ UNCHANGED <<batch, ready, inDegree, ordered>>

OrderNext == AddRevision \/ RejectDuplicate \/ CountParents \/ Shift \/ Return

OrderSpec == OrderInit /\ [][OrderNext]_orderVars

-----------------------------------------------------------------------------
(* Properties.                                                             *)

ParentsFirst(ids) ==
    \A m, n \in DOMAIN ids : \A k \in DOMAIN batch :
        batch[k].id = ids[n] /\ ids[m] \in batch[k].parents => m < n

\* The permutations of the batch's ids in which parents come first.
ReferenceOrders == {ids \in SetToSeqs(Ids) : ParentsFirst(ids)}

(***************************************************************************)
(* The route commits every revision of a batch once, parents before        *)
(* children, and refuses a batch as INVALID_BATCH only if an id repeats or *)
(* its edges close a cycle: no legal batch is turned away (orderBatch).    *)
(***************************************************************************)
OrdersExactlyOrderable ==
    /\ returned = "order" => ~HasDuplicate /\ ordered \in ReferenceOrders
    /\ returned = "null" => HasDuplicate \/ ReferenceOrders = {}
=============================================================================
