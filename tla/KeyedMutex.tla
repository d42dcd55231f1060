----------------------------- MODULE KeyedMutex -----------------------------
(***************************************************************************)
(* The per-file lock of the plugin (runtime/keyed-mutex.ts): one chain of  *)
(* promises per key.  The applier of remote changes, the observer of local *)
(* ones and the head reconciliation take it under the collision key of a   *)
(* path; a rename takes the keys of both paths, one inside the other.      *)
(*                                                                         *)
(* A link is one runExclusive call of a task under one key.  `tail` is the *)
(* registry `chains`, which forgets a key once its chain has drained.      *)
(***************************************************************************)
EXTENDS Naturals, FiniteSets, SequencesExt

CONSTANTS
    Paths,   \* the keys of the lock: naturals, for their order
    Tasks,   \* what runs under the lock
    Wanted,  \* [Tasks -> Seq(Paths)]: the keys a task names, in its own order
    NoLink

ASSUME LockAssumption ==
    /\ Paths \subseteq Nat
    /\ Wanted \in [Tasks -> Seq(Paths)] /\ \A t \in Tasks : Wanted[t] # <<>>
    /\ NoLink \notin Tasks \X Paths

VARIABLES
    tail,    \* [Paths -> link]: the registry
    before,  \* [Tasks -> [Paths -> link]]: the unsettled link one waits for
    at,      \* [Tasks -> [Paths -> state of the task's link under the key]]
    body     \* the tasks whose body runs

lockVars == <<tail, before, at, body>>

Link == Tasks \X Paths
Idle == [p \in Paths |-> "none"]

LockTypeOK ==
    /\ tail \in [Paths -> Link \cup {NoLink}]
    /\ before \in [Tasks -> [Paths -> Link \cup {NoLink}]]
    /\ at \in [Tasks -> [Paths -> {"none", "queued", "held", "settled"}]]
    /\ body \subseteq Tasks

LockInit ==
    /\ tail = [p \in Paths |-> NoLink]
    /\ before = [t \in Tasks |-> [p \in Paths |-> NoLink]]
    /\ at = [t \in Tasks |-> Idle]
    /\ body = {}

Keys(t) == ToSet(Wanted[t])

\* Faulty variant: the keys are taken in the order the caller names them.
PrecedesAsNamed(t, p, q) ==
    \E m, n \in DOMAIN Wanted[t] : m < n /\ Wanted[t][m] = p /\ Wanted[t][n] = q

\* withKeys takes each key once, in sorted order.
Precedes(t, p, q) == p < q
Rest(t, p) == {q \in Keys(t) : Precedes(t, p, q)}
First(t, keys) == {p \in keys : \A q \in keys \ {p} : Precedes(t, p, q)}

\* The link that still has to settle before a new one under the key may run
Pending(p) == IF tail[p] # NoLink /\ at[tail[p][1]][p] # "settled" THEN tail[p] ELSE NoLink

\* runExclusive under a key: behind whatever the registry names.
Enqueued(t, p, states) ==
    /\ tail' = [tail EXCEPT ![p] = <<t, p>>]
    /\ before' = [before EXCEPT ![t][p] = Pending(p)]
    /\ at' = [at EXCEPT ![t] = [states EXCEPT ![p] = "queued"]]

Call(t) ==
    /\ at[t] = Idle
    /\ \E p \in First(t, Keys(t)) : Enqueued(t, p, at[t])
    /\ UNCHANGED body

\* The previous link has settled: the task asks for its next key, or runs.
Enter(t, p) ==
    LET held == [at[t] EXCEPT ![p] = "held"] IN
      /\ at[t][p] = "queued" /\ before[t][p] = NoLink
      /\ \/ \E q \in First(t, Rest(t, p)) : Enqueued(t, q, held) /\ UNCHANGED body
         \/ /\ Rest(t, p) = {}
            /\ at' = [at EXCEPT ![t] = held]
            /\ body' = body \cup {t}
            /\ UNCHANGED <<tail, before>>

\* The body ends, with a value or an error, and the links settle inside out:
\* whoever waits for one, whatever the outcome, waits no longer.
Settle(t, p) ==
    /\ at[t][p] = "held"
    /\ Rest(t, p) = {} => t \in body
    /\ \A q \in Rest(t, p) : at[t][q] \in {"settled", "none"}
    /\ at' = [at EXCEPT ![t][p] = "settled"]
    /\ before' = [s \in Tasks |-> IF before[s][p] = <<t, p>>
                                  THEN [before[s] EXCEPT ![p] = NoLink] ELSE before[s]]
    /\ body' = body \ {t}
    /\ UNCHANGED tail

\* Faulty variant: the registry forgets a key although a newer link waits.
Drop(t, p) == [tail EXCEPT ![p] = NoLink]

\* The registry forgets a key once this link drains and nothing newer has its tail.
Drained(t, p) == IF tail[p] = <<t, p>> THEN [tail EXCEPT ![p] = NoLink] ELSE tail

Forget(t, p) ==
    /\ at[t][p] = "settled"
    /\ tail' = Drained(t, p)
    /\ at' = [at EXCEPT ![t][p] = "none"]
    /\ UNCHANGED <<before, body>>

Progress(t) == \E p \in Keys(t) : Enter(t, p) \/ Settle(t, p) \/ Forget(t, p)

LockNext == \E t \in Tasks : Call(t) \/ Progress(t)

LockSpec == LockInit /\ [][LockNext]_lockVars

\* A body is a read, a decision and a write: it ends.
LockFairness == \A t \in Tasks : WF_lockVars(Progress(t))

-----------------------------------------------------------------------------
(* Properties.                                                             *)

(***************************************************************************)
(* A file is never produced and applied at the same time: two bodies that  *)
(* run at once have no key in common (rule 3 of keyed-mutex.ts), although  *)
(* the registry forgets the keys whose chain has drained.                  *)
(***************************************************************************)
FilesExclusive ==
    \A s, t \in body : s # t => Keys(s) \cap Keys(t) = {}

(***************************************************************************)
(* Every task that asks for its keys gets to run and lets them go:         *)
(* opposite renames cannot block each other (withKeys).                    *)
(***************************************************************************)
TasksEnd == \A t \in Tasks : at[t] # Idle ~> at[t] = Idle
=============================================================================
