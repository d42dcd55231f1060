------------------------------ MODULE LongPoll ------------------------------
(***************************************************************************)
(* The server's real-time wake: GET /vaults/:vaultId/wait holds a          *)
(* request until a push commits to the vault, a timer fires or the client  *)
(* goes away.  The held requests are listeners of the in-memory            *)
(* VaultWakeRegistry and take a slot of the HeldWaitLimiter.  A push       *)
(* handler commits its revisions one at a time and notifies the registry   *)
(* when its batch is over; RevisionRepository has the detail of a commit,  *)
(* here it only advances the cursor.                                       *)
(*                                                                         *)
(* The server is one event loop: what runs between two awaits is a step.   *)
(***************************************************************************)
EXTENDS Integers, FiniteSets

CONSTANTS
    Vault,
    Device,
    Wait,           \* connections that may hold a /wait
    Push,           \* push handlers that may run at the same time
    PerDeviceMax,   \* perDeviceMax of the HeldWaitLimiter
    GlobalMax,      \* globalMax of the HeldWaitLimiter
    MaxCursor,      \* bound on a vault's cursor
    MaxFaults       \* bound on unexpected errors and crashes

ASSUME LimitAssumption ==
    /\ PerDeviceMax \in Nat /\ GlobalMax \in Nat
    /\ MaxCursor \in Nat /\ MaxFaults \in Nat
    /\ IsFiniteSet(Wait)

VARIABLES
    cursor,         \* the durable cursor of each vault
    push,           \* the push handlers
    wait,           \* the /wait handlers
    waitersByVault, \* VaultWakeRegistry.#waitersByVault
    perDevice,      \* HeldWaitLimiter.#perDevice; an absent key is 0
    global,         \* HeldWaitLimiter.#global
    unannounced,    \* history: vaults with a commit whose push ended in a 500
    faults          \* unexpected errors and crashes so far

vars == <<cursor, push, wait, waitersByVault, perDevice, global, unannounced, faults>>

\* A running push has "committed" once one of its results is "accepted".
IdlePush == [status |-> "idle"]
Pushes == {IdlePush} \cup [status : {"running", "committed"}, vault : Vault]

\* asked is the client's cursor, current the one captured at arrival.
FreeWait == [status |-> "free"]
Waits == {FreeWait} \cup
         [status : {"held"}, vault : Vault, device : Device, asked : Nat, current : Nat]

TypeOK ==
    /\ cursor \in [Vault -> Nat]
    /\ push \in [Push -> Pushes]
    /\ wait \in [Wait -> Waits]
    /\ waitersByVault \in [Vault -> SUBSET Wait]
    /\ perDevice \in [Device -> Nat]
    /\ global \in Nat
    /\ unannounced \subseteq Vault
    /\ faults \in 0..MaxFaults

Held == {w \in Wait : wait[w].status = "held"}
HeldFor(v) == {w \in Held : wait[w].vault = v}
HeldBy(d) == {w \in Held : wait[w].device = d}

Init ==
    /\ cursor = [v \in Vault |-> 0]
    /\ push = [p \in Push |-> IdlePush]
    /\ wait = [w \in Wait |-> FreeWait]
    /\ waitersByVault = [v \in Vault |-> {}]
    /\ perDevice = [d \in Device |-> 0]
    /\ global = 0
    /\ unannounced = {}
    /\ faults = 0

-----------------------------------------------------------------------------
(* Teardown of held waits.                                                 *)

\* Slots never go below zero.
Monus(m, n) == IF m > n THEN m - n ELSE 0

\* Faulty variant: a wait that ends gives its device's slot back, and not the
\* process-wide one.
ReleaseDeviceOnly(ws) ==
    /\ perDevice' = [d \in Device |-> Monus(perDevice[d], Cardinality(ws \cap HeldBy(d)))]
    /\ UNCHANGED global

\* HeldWaitLimiter.release, once for each of the waits.
Release(ws) ==
    /\ perDevice' = [d \in Device |-> Monus(perDevice[d], Cardinality(ws \cap HeldBy(d)))]
    /\ global' = Monus(global, Cardinality(ws))

\* teardown: clear the timer, unsubscribe, release the slot.
Teardown(ws) ==
    /\ waitersByVault' = [v \in Vault |-> waitersByVault[v] \ ws]
    /\ Release(ws)
    /\ wait' = [w \in Wait |-> IF w \in ws THEN FreeWait ELSE wait[w]]

\* notify: every waiter of the vault finishes with the new cursor.
Notify(v) ==
    /\ Teardown(waitersByVault[v])
    /\ unannounced' = unannounced \ {v}

-----------------------------------------------------------------------------
(* The push handler.                                                       *)

PushStart(p, v) ==
    /\ push[p] = IdlePush
    /\ push' = [push EXCEPT ![p] = [status |-> "running", vault |-> v]]
    /\ UNCHANGED <<cursor, wait, waitersByVault, perDevice, global, unannounced, faults>>

\* One revision of the batch is committed and reported as accepted.  (One that
\* is replayed or rejected changes nothing here.)
PushCommit(p) ==
    /\ push[p] # IdlePush
    /\ cursor[push[p].vault] < MaxCursor
    /\ cursor' = [cursor EXCEPT ![push[p].vault] = @ + 1]
    /\ push' = [push EXCEPT ![p].status = "committed"]
    /\ UNCHANGED <<wait, waitersByVault, perDevice, global, unannounced, faults>>

\* Faulty variant: the answer is sent without a notification.
PushFinishSilently(p) ==
    /\ push[p] # IdlePush
    /\ push' = [push EXCEPT ![p] = IdlePush]
    /\ UNCHANGED <<cursor, wait, waitersByVault, perDevice, global, unannounced, faults>>

\* The end of the batch, and its early end at a 413: the accepted revisions
\* are announced before the answer.
PushFinish(p) ==
    /\ push[p] # IdlePush
    /\ push' = [push EXCEPT ![p] = IdlePush]
    /\ IF push[p].status = "committed" THEN Notify(push[p].vault)
       ELSE UNCHANGED <<wait, waitersByVault, perDevice, global, unannounced>>
    /\ UNCHANGED <<cursor, faults>>

\* An error that is not a RevisionRepositoryError: 500, and no notification.
PushFault(p) ==
    /\ push[p] # IdlePush
    /\ faults < MaxFaults
    /\ push' = [push EXCEPT ![p] = IdlePush]
    /\ unannounced' = IF push[p].status = "committed" THEN unannounced \cup {push[p].vault}
                      ELSE unannounced
    /\ faults' = faults + 1
    /\ UNCHANGED <<cursor, wait, waitersByVault, perDevice, global>>

-----------------------------------------------------------------------------
(* The /wait handler.                                                      *)

\* tryAcquire's two caps
Acquirable(d) == global < GlobalMax /\ perDevice[d] < PerDeviceMax

\* Not the fast path: the server has nothing newer than the client.
NothingNewer(v, asked) == cursor[v] <= asked

(***************************************************************************)
(* A request that is held: the cursor is read, the slot taken and the      *)
(* listener registered with no await in between.  (The fast path and the   *)
(* 429 answer at once and leave no state.)                                 *)
(***************************************************************************)
WaitHold(w, d, v, asked) ==
    /\ wait[w] = FreeWait
    /\ NothingNewer(v, asked)
    /\ Acquirable(d)
    /\ wait' = [wait EXCEPT ![w] = [status |-> "held", vault |-> v, device |-> d,
                                    asked |-> asked, current |-> cursor[v]]]
    /\ waitersByVault' = [waitersByVault EXCEPT ![v] = @ \cup {w}]
    /\ perDevice' = [perDevice EXCEPT ![d] = @ + 1]
    /\ global' = global + 1
    /\ UNCHANGED <<cursor, push, unannounced, faults>>

\* The timer, the close event or the aborted event: whichever comes first.
WaitEnd(w) ==
    /\ w \in Held
    /\ Teardown({w})
    /\ UNCHANGED <<cursor, push, unannounced, faults>>

\* Handlers, registry and limiter are gone with the process.
Down ==
    /\ push' = [p \in Push |-> IdlePush]
    /\ wait' = [w \in Wait |-> FreeWait]
    /\ waitersByVault' = [v \in Vault |-> {}]
    /\ perDevice' = [d \in Device |-> 0]
    /\ global' = 0
    /\ unannounced' = {}

\* The process dies, and is started again.
Crash ==
    /\ faults < MaxFaults
    /\ Down
    /\ faults' = faults + 1
    /\ UNCHANGED cursor

Next ==
    \/ \E p \in Push : \/ \E v \in Vault : PushStart(p, v)
                       \/ PushCommit(p)
                       \/ PushFinish(p)
                       \/ PushFault(p)
    \/ \E w \in Wait, d \in Device, v \in Vault, asked \in 0..MaxCursor :
         WaitHold(w, d, v, asked)
    \/ \E w \in Wait : WaitEnd(w)
    \/ Crash

Spec == Init /\ [][Next]_vars

-----------------------------------------------------------------------------
(* Properties.                                                             *)

(***************************************************************************)
(* The registry and the limiter agree with the requests that are really    *)
(* held, so no slot and no listener leaks whichever of the wake, the timer *)
(* and the close event ends a wait.                                        *)
(***************************************************************************)
SlotsAccounted ==
    /\ \A v \in Vault : waitersByVault[v] = HeldFor(v)
    /\ \A d \in Device : perDevice[d] = Cardinality(HeldBy(d))
    /\ global = Cardinality(Held)

\* The two caps hold of the requests themselves, not only of the counters.
CapsRespected ==
    /\ Cardinality(Held) <= GlobalMax
    /\ \A d \in Device : Cardinality(HeldBy(d)) <= PerDeviceMax

Behind(w) == w \in Held /\ cursor[wait[w].vault] > wait[w].asked

\* A running push will announce what it has committed to vault v.
Announces(v) == \E p \in Push : push[p].status = "committed" /\ push[p].vault = v

(***************************************************************************)
(* What the registry and the push route say of themselves: a commit wakes  *)
(* the held requests of its vault.  A held request may be behind the       *)
(* cursor only while the push that moved it is still running.  It does not *)
(* hold: README, known divergences.                                        *)
(***************************************************************************)
NoLostWake == \A w \in Wait : Behind(w) => Announces(wait[w].vault)

(***************************************************************************)
(* What the code does guarantee: the wake is lost only to an unexpected    *)
(* error after an accepted prefix, and only until the next push of the     *)
(* vault ends.  Neither a subscription that races a commit, nor a second   *)
(* push that finishes first, nor a 413 in the middle of a batch loses it.  *)
(***************************************************************************)
WakeOwed ==
    \A w \in Wait :
      Behind(w) => wait[w].vault \in unannounced \/ Announces(wait[w].vault)
=============================================================================
