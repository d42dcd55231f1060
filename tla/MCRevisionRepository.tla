----------------------- MODULE MCRevisionRepository -------------------------
(***************************************************************************)
(* An instance of RevisionRepository, told as two stories.                 *)
(*                                                                         *)
(* Graph: in a vault of its own, a file with two concurrent edits, their   *)
(* reconciliation, and an edit on top of one of them; five pushes.         *)
(*                                                                         *)
(* Reuse: the same root under another key, the same id with other bytes, a *)
(* competing root, a key used twice, a second vault that names the first   *)
(* one's files and revisions and shares its blobs; three pushes, a fault   *)
(* and a revocation.                                                       *)
(***************************************************************************)
EXTENDS RevisionRepository, TLC

CONSTANTS v1, v2, v3, f1, f2, f3, d1, d2, b1, b2, b3, ra, rb, rc, rm, rx

MkItem(id, v, f, parents, d, b, k) ==
    [header |-> [revisionId |-> id, vaultId |-> v, fileId |-> f,
                 parents |-> parents, deviceId |-> d],
     blob |-> b, key |-> k]

RootG  == MkItem(ra, v3, f3, {}, d1, b1, "k1")
EditG  == MkItem(rb, v3, f3, {ra}, d1, b2, "k2")
EditH  == MkItem(rc, v3, f3, {ra}, d2, b3, "k3")
MergeG == MkItem(rm, v3, f3, {rb, rc}, d1, b1, "k4")
EditX  == MkItem(rx, v3, f3, {rb}, d2, b2, "k5")

RootA    == MkItem(ra, v1, f1, {}, d1, b1, "k1")
EditB    == MkItem(rb, v1, f1, {ra}, d1, b2, "k2")
RootX    == MkItem(rx, v1, f1, {}, d2, b3, "k5")
RootY    == MkItem(rc, v1, f2, {}, d2, b3, "k3")
RetryA   == [RootA EXCEPT !.key = "k2"]
ReuseA   == [RootA EXCEPT !.blob = b2]
ForeignC == MkItem(rc, v2, f2, {ra}, d2, b2, "k1")
RootV2   == MkItem(rm, v2, f2, {}, d2, b2, "k1")

GraphItems == {RootG, EditG, EditH, MergeG, EditX}
ReuseItems == {RootA, RetryA, ReuseA, RootX, RootY, ForeignC,
               RootV2, EditB}
AllItems == GraphItems \cup ReuseItems
AllBatches ==
    {{RootG, EditG}, {EditG}, {EditH}, {MergeG}, {EditX}}
      \cup {{i} : i \in ReuseItems} \cup {{RootA, EditB}, {RootV2, ForeignC}}

UnitSize == [b \in Blob |-> 1]
SmallQuota == [v \in Vault |-> IF v = v1 THEN 2 ELSE IF v = v2 THEN 1 ELSE 3]
RevocableD1 == {<<d1, v1>>}

Graph == [items |-> GraphItems, requests |-> 5, faults |-> 0]
Reuse == [items |-> ReuseItems, requests |-> 3, faults |-> 1]

VARIABLE story

\* A step keeps to what its story has.
Told ==
    /\ \A p \in Process : \A n \in DOMAIN request'[p].todo :
         request'[p].todo[n] \in story.items
    /\ requests' <= story.requests /\ faults' <= story.faults
    /\ story = Graph => authorized' = authorized

\* The handlers are alike.
Symmetry == Permutations(Process)

MCInit == Init /\ story \in {Graph, Reuse}
MCNext == Next /\ Told /\ UNCHANGED story
MCSpec == MCInit /\ [][MCNext]_<<vars, story>>
=============================================================================
