----------------------------- MODULE VaultLog -------------------------------
(***************************************************************************)
(* What the server promises its clients, without handlers, blobs, crashes  *)
(* or tables: one append-only log per vault.  An entry is a revision at a  *)
(* position; it may be appended when its id is new and its place in the    *)
(* file's revision graph is legal, both judged against the log alone.      *)
(***************************************************************************)
EXTENDS Integers

CONSTANTS Vault, Entry   \* Entry: the (header, blob) pairs that may be appended

VARIABLES
    log,       \* set of [header, blob, serverSequence]
    length     \* length[v]: number of entries of vault v

logVars == <<log, length>>

FileEntries(f) == {e \in log : e.header.fileId = f}

Leaves(f) ==
    {e.header.revisionId : e \in
       {e \in FileEntries(f) :
          \A c \in log : e.header.revisionId \notin c.header.parents}}

NewId(h) == \A e \in log : e.header.revisionId # h.revisionId

(***************************************************************************)
(* A root opens a file nobody has; a revision extends committed revisions  *)
(* of its own file; a reconciliation names exactly the leaves.             *)
(***************************************************************************)
LegalPlace(h) ==
    IF h.parents = {}
    THEN FileEntries(h.fileId) = {}
    ELSE /\ \A id \in h.parents : \E e \in log :
              /\ e.header.revisionId = id
              /\ e.header.fileId = h.fileId
              /\ e.header.vaultId = h.vaultId
         /\ (\E a, b \in h.parents : a # b) => h.parents = Leaves(h.fileId)

Append(x) ==
    LET v == x[1].vaultId IN
    /\ NewId(x[1])
    /\ LegalPlace(x[1])
    /\ log' = log \cup {[header |-> x[1], blob |-> x[2], serverSequence |-> length[v] + 1]}
    /\ length' = [length EXCEPT ![v] = @ + 1]

LogInit ==
    /\ log = {}
    /\ length = [v \in Vault |-> 0]

LogNext == \E x \in Entry : Append(x)

LogSpec == LogInit /\ [][LogNext]_logVars
=============================================================================
