--------------------------- MODULE WaitingProofs ---------------------------
(***************************************************************************)
(* Proofs about what waits its turn: a held poll for the next revision     *)
(* (LongPoll, and with the device's subscription WakeChannel), a store for *)
(* the queue over data.json (PluginData), a task for the lock of a file    *)
(* (KeyedMutex).  The three name nothing in common and are proved about    *)
(* one after the other, for any number of vaults, devices, connections,    *)
(* stores, tasks and paths.                                                *)
(*                                                                         *)
(* Of the server's half of the wake channel the invariant is TypeOK,       *)
(* SlotsAccounted, CapsRespected and WakeOwed.  SlotsAccounted carries the *)
(* others: a notification empties the registry's set of listeners, and     *)
(* only because that set is the set of held requests does it leave no      *)
(* request behind.                                                         *)
(*                                                                         *)
(* The composition is taken in two steps.  Every step of the channel is a  *)
(* step of LongPoll, a stutter of it, or a restore (ServerSteps), so the   *)
(* server's invariant carries over; a restore forgets every request        *)
(* together with its slot.  The client's part is an induction on the way   *)
(* of one cursor: read by the server, held with the poll, answered,        *)
(* announced.  At no point of it is the cursor below the one the poll      *)
(* asked from, nor above the log, as long as the log only grows; so a wake *)
(* always moves the announced cursor up, and the wakes are counted by it.  *)
(*                                                                         *)
(* Of the queue: the copy in memory and the blob about to be written hold, *)
(* under each key but the one being saved, a version that may stand.  Of   *)
(* the lock: the links of a key that have not settled stand in one queue,  *)
(* each behind the one before it, with the registry at its end.            *)
(***************************************************************************)
EXTENDS WakeChannel, PluginData, KeyedMutex, FiniteSetTheorems, SequenceTheorems, TLAPS

-----------------------------------------------------------------------------
(* The server alone.                                                       *)

\* A request that is held keeps its vault and its device.
LEMMA HeldType ==
    ASSUME TypeOK
    PROVE  /\ Held \subseteq Wait
           /\ IsFiniteSet(Held)
           /\ \A d \in Device : HeldBy(d) \subseteq Held /\ IsFiniteSet(HeldBy(d))
           /\ \A w \in Held : /\ wait[w].vault \in Vault
                              /\ wait[w].device \in Device
                              /\ wait[w].asked \in Nat
                              /\ wait[w] # FreeWait
           /\ \A w \in Wait : wait[w] = FreeWait => w \notin Held
<1>1. Held \subseteq Wait /\ \A d \in Device : HeldBy(d) \subseteq Held
  BY DEF Held, HeldBy
<1>2. IsFiniteSet(Held) /\ \A d \in Device : IsFiniteSet(HeldBy(d))
  BY <1>1, LimitAssumption, FS_Subset
<1>3. ASSUME NEW w \in Held
      PROVE  /\ wait[w].vault \in Vault /\ wait[w].device \in Device
             /\ wait[w].asked \in Nat /\ wait[w] # FreeWait
  <2>1. wait[w] \in Waits /\ wait[w].status = "held"
    BY DEF TypeOK, Held
  <2> QED BY <2>1 DEF Waits, FreeWait
<1>4. ASSUME NEW w \in Wait, wait[w] = FreeWait PROVE w \notin Held
  BY <1>4 DEF Held, FreeWait
<1> QED BY <1>1, <1>2, <1>3, <1>4

\* What is held once the requests in ws have been torn down.
LEMMA TeardownHeld ==
    ASSUME TypeOK, NEW ws \in SUBSET Held, Teardown(ws)
    PROVE  /\ Held' = Held \ ws
           /\ \A v \in Vault : HeldFor(v)' = HeldFor(v) \ ws
           /\ \A d \in Device : HeldBy(d)' = HeldBy(d) \ ws
           /\ \A w \in Held \ ws : wait'[w] = wait[w]
           /\ wait' \in [Wait -> Waits]
<1>1. wait' = [w \in Wait |-> IF w \in ws THEN FreeWait ELSE wait[w]]
  BY DEF Teardown
<1>2. Held' = Held \ ws
  BY <1>1 DEF Held, FreeWait
<1>3. \A w \in Held \ ws : wait'[w] = wait[w]
  BY <1>1 DEF Held
<1>4. wait' \in [Wait -> Waits]
  BY <1>1 DEF TypeOK, Waits
<1> QED BY <1>2, <1>3, <1>4 DEF HeldFor, HeldBy

\* Tearing down held requests keeps the registry and the limiter exact.
LEMMA TeardownAccounts ==
    ASSUME TypeOK, SlotsAccounted, NEW ws \in SUBSET Held, Teardown(ws)
    PROVE  /\ SlotsAccounted'
           /\ waitersByVault' \in [Vault -> SUBSET Wait]
           /\ perDevice' \in [Device -> Nat]
           /\ global' \in Nat
           /\ global' <= global
           /\ \A d \in Device : perDevice'[d] <= perDevice[d]
<1> USE HeldType
<1>1. \A v \in Vault : waitersByVault'[v] = HeldFor(v)'
  BY TeardownHeld DEF Teardown, SlotsAccounted
<1>2. waitersByVault' \in [Vault -> SUBSET Wait]
  BY DEF Teardown, TypeOK
<1>3. IsFiniteSet(ws) /\ Cardinality(ws) \in Nat /\ Cardinality(Held) \in Nat
      /\ Cardinality(ws) <= Cardinality(Held)
  BY FS_Subset, FS_CardinalityType
<1>4. global' = Cardinality(Held')
  <2>1. Cardinality(Held \ ws) = Cardinality(Held) - Cardinality(Held \cap ws)
    BY FS_Difference
  <2>2. Held \cap ws = ws
    OBVIOUS
  <2>3. global' = Monus(global, Cardinality(ws)) /\ global = Cardinality(Held)
    BY DEF Teardown, Release, SlotsAccounted
  <2>4. Held' = Held \ ws
    BY TeardownHeld
  <2> HIDE HeldType
  <2> QED BY <2>1, <2>2, <2>3, <2>4, <1>3 DEF Monus
<1>5. ASSUME NEW d \in Device
      PROVE  perDevice'[d] = Cardinality(HeldBy(d)') /\ perDevice'[d] \in Nat
             /\ perDevice'[d] <= perDevice[d]
  <2>1. Cardinality(HeldBy(d) \ ws)
          = Cardinality(HeldBy(d)) - Cardinality(HeldBy(d) \cap ws)
    BY FS_Difference
  <2>2. /\ Cardinality(HeldBy(d)) \in Nat
        /\ Cardinality(HeldBy(d) \cap ws) \in Nat
        /\ Cardinality(HeldBy(d) \cap ws) <= Cardinality(HeldBy(d))
    BY FS_CardinalityType, FS_Intersection
  <2>3. ws \cap HeldBy(d) = HeldBy(d) \cap ws
    OBVIOUS
  <2>4. /\ perDevice'[d] = Monus(perDevice[d], Cardinality(ws \cap HeldBy(d)))
        /\ perDevice[d] = Cardinality(HeldBy(d))
    BY DEF Teardown, Release, SlotsAccounted
  <2>5. HeldBy(d)' = HeldBy(d) \ ws
    BY TeardownHeld
  <2>6. Cardinality(HeldBy(d)') = Cardinality(HeldBy(d)) - Cardinality(ws \cap HeldBy(d))
    BY <2>1, <2>3, <2>5, Zenon
  <2> HIDE HeldType
  <2> QED BY <2>2, <2>3, <2>4, <2>6 DEF Monus
<1>6. perDevice' \in [Device -> Nat]
  <2>1. perDevice' = [d \in Device |-> Monus(perDevice[d], Cardinality(ws \cap HeldBy(d)))]
    BY DEF Teardown, Release
  <2> QED BY <2>1, <1>5
<1>7. global' \in Nat /\ global' <= global
  <2>1. global' = Monus(global, Cardinality(ws)) /\ global \in Nat
    BY DEF Teardown, Release, TypeOK
  <2> QED BY <2>1, <1>3 DEF Monus
<1> QED BY <1>1, <1>2, <1>4, <1>5, <1>6, <1>7 DEF SlotsAccounted

IInv == TypeOK /\ SlotsAccounted /\ CapsRespected /\ WakeOwed

\* CapsRespected, told by the counters.
CountersCapped ==
    /\ global <= GlobalMax
    /\ \A d \in Device : perDevice[d] <= PerDeviceMax

\* While the slots are accounted for the two forms of the caps agree.
LEMMA CapsByCounters ==
    ASSUME SlotsAccounted
    PROVE  CountersCapped <=> CapsRespected
BY DEF SlotsAccounted, CountersCapped, CapsRespected

\* The invariant holds of a server that has just started.
LEMMA InvInit ==
    ASSUME Init
    PROVE  IInv
<1>1. Held = {} /\ \A v \in Vault : HeldFor(v) = {}
  BY DEF Init, Held, HeldFor, FreeWait
<1>2. \A d \in Device : HeldBy(d) = {}
  BY <1>1 DEF HeldBy
<1>3. TypeOK
  BY LimitAssumption DEF Init, TypeOK, Pushes, Waits
<1>4. SlotsAccounted
  BY <1>1, <1>2, FS_EmptySet DEF Init, SlotsAccounted
<1>5. CapsRespected
  BY <1>1, <1>2, FS_EmptySet, LimitAssumption DEF CapsRespected
<1>6. WakeOwed
  BY <1>1 DEF WakeOwed, Behind
<1> QED BY <1>3, <1>4, <1>5, <1>6 DEF IInv

\* A step that leaves the handlers of /wait alone keeps slots and caps.
LEMMA WaitsAlone ==
    ASSUME IInv, UNCHANGED <<wait, waitersByVault, perDevice, global>>
    PROVE  /\ SlotsAccounted' /\ CapsRespected'
           /\ Held' = Held
BY DEF IInv, SlotsAccounted, CapsRespected, Held, HeldFor, HeldBy

\* Every step keeps the invariant.
LEMMA InvNext ==
    ASSUME IInv, [Next]_vars
    PROVE  IInv'
<1> USE HeldType DEF IInv
<1>1. ASSUME NEW p \in Push, NEW v \in Vault, PushStart(p, v)
      PROVE  IInv'
  <2>1. TypeOK'
    BY <1>1 DEF PushStart, TypeOK, Pushes
  <2>2. Held' = Held /\ SlotsAccounted' /\ CapsRespected'
    BY <1>1, WaitsAlone DEF PushStart
  <2>3. \A u \in Vault : Announces(u) => Announces(u)'
    BY <1>1 DEF PushStart, Announces, IdlePush, TypeOK
  <2>4. WakeOwed'
    BY <1>1, <2>2, <2>3 DEF PushStart, WakeOwed, Behind
  <2> QED BY <2>1, <2>2, <2>4
<1>2. ASSUME NEW p \in Push, PushCommit(p)
      PROVE  IInv'
  <2>0. push[p] \in Pushes /\ push[p] # IdlePush
    BY <1>2 DEF PushCommit, TypeOK
  <2>0a. push[p].vault \in Vault
         /\ push[p] \in [status : {"running", "committed"}, vault : Vault]
    BY <2>0 DEF Pushes, IdlePush
  <2>0b. /\ push'[p].vault = push[p].vault /\ push'[p].status = "committed"
         /\ \A q \in Push \ {p} : push'[q] = push[q]
         /\ push'[p] \in Pushes
    BY <1>2, <2>0, <2>0a DEF PushCommit, TypeOK, Pushes
  <2>1. TypeOK'
    BY <1>2, <2>0a, <2>0b DEF PushCommit, TypeOK
  <2>2. Held' = Held /\ SlotsAccounted' /\ CapsRespected'
    BY <1>2, WaitsAlone DEF PushCommit
  <2>3. \A u \in Vault : Announces(u) => Announces(u)'
    BY <2>0b DEF Announces
  <2>4. Announces(push[p].vault)'
    BY <2>0b DEF Announces
  <2>5. \A u \in Vault : u # push[p].vault => cursor'[u] = cursor[u]
    BY <1>2, <2>0a DEF PushCommit, TypeOK
  <2>6. WakeOwed'
    BY <1>2, <2>2, <2>3, <2>4, <2>5 DEF PushCommit, WakeOwed, Behind
  <2> QED BY <2>1, <2>2, <2>6
<1>3. ASSUME NEW p \in Push, PushFinish(p)
      PROVE  IInv'
  <2>0. push[p] \in [status : {"running", "committed"}, vault : Vault]
    BY <1>3 DEF PushFinish, TypeOK, Pushes, IdlePush
  <2>1. push' \in [Push -> Pushes] /\ \A q \in Push \ {p} : push'[q] = push[q]
    BY <1>3 DEF PushFinish, TypeOK, Pushes
  <2>2. CASE push[p].status # "committed"
    <3>1. TypeOK'
      BY <1>3, <2>1, <2>2 DEF PushFinish, TypeOK
    <3>2. Held' = Held /\ SlotsAccounted' /\ CapsRespected'
      BY <1>3, <2>2, WaitsAlone DEF PushFinish
    <3>3. \A u \in Vault : Announces(u) => Announces(u)'
      BY <2>1, <2>2 DEF Announces
    <3>4. WakeOwed'
      BY <1>3, <2>2, <3>2, <3>3 DEF PushFinish, WakeOwed, Behind
    <3> QED BY <3>1, <3>2, <3>4
  <2>3. CASE push[p].status = "committed"
    <3> DEFINE v == push[p].vault
               ws == waitersByVault[v]
    <3>1. v \in Vault /\ ws = HeldFor(v) /\ ws \in SUBSET Held
      BY <2>0 DEF SlotsAccounted, HeldFor
    <3>2. Teardown(ws) /\ unannounced' = unannounced \ {v}
      BY <1>3, <2>3 DEF PushFinish, Notify
    <3>3. SlotsAccounted' /\ wait' \in [Wait -> Waits]
          /\ waitersByVault' \in [Vault -> SUBSET Wait]
          /\ perDevice' \in [Device -> Nat] /\ global' \in Nat
      BY <3>1, <3>2, TeardownHeld, TeardownAccounts
    <3>4. TypeOK'
      BY <1>3, <2>1, <3>2, <3>3 DEF PushFinish, TypeOK
    <3>5. CapsRespected'
      <4>1. CountersCapped /\ global' <= global
            /\ \A d \in Device : perDevice'[d] <= perDevice[d]
        BY <3>1, <3>2, CapsByCounters, TeardownAccounts
      <4>2. CountersCapped'
        BY <4>1, <3>3, LimitAssumption DEF CountersCapped, TypeOK
      <4>3. SlotsAccounted' => (CountersCapped' <=> CapsRespected')
        BY CapsByCounters DEF SlotsAccounted, CountersCapped, CapsRespected
      <4> QED BY <4>2, <4>3, <3>3
    <3>6. Held' = Held \ ws /\ \A w \in Held \ ws : wait'[w] = wait[w]
      BY <3>1, <3>2, TeardownHeld
    <3>7. \A w \in Held' : wait'[w].vault # v
      BY <3>1, <3>6 DEF HeldFor
    <3>8. \A u \in Vault : u # v /\ Announces(u) => Announces(u)'
      BY <2>1 DEF Announces
    <3>9. WakeOwed'
      BY <1>3, <3>2, <3>6, <3>7, <3>8 DEF PushFinish, WakeOwed, Behind
    <3> QED BY <3>3, <3>4, <3>5, <3>9
  <2> QED BY <2>2, <2>3
<1>4. ASSUME NEW p \in Push, PushFault(p)
      PROVE  IInv'
  <2>0. push[p] \in [status : {"running", "committed"}, vault : Vault]
    BY <1>4 DEF PushFault, TypeOK, Pushes, IdlePush
  <2>1. push' \in [Push -> Pushes] /\ \A q \in Push \ {p} : push'[q] = push[q]
    BY <1>4 DEF PushFault, TypeOK, Pushes
  <2>2. TypeOK'
    BY <1>4, <2>0, <2>1, LimitAssumption DEF PushFault, TypeOK
  <2>3. Held' = Held /\ SlotsAccounted' /\ CapsRespected'
    BY <1>4, WaitsAlone DEF PushFault
  <2>4. \A u \in Vault : Announces(u) => Announces(u)' \/ u \in unannounced'
    BY <1>4, <2>0, <2>1 DEF Announces, PushFault
  <2>5. unannounced \subseteq unannounced'
    BY <1>4 DEF PushFault
  <2>6. WakeOwed'
    BY <1>4, <2>3, <2>4, <2>5 DEF PushFault, WakeOwed, Behind
  <2> QED BY <2>2, <2>3, <2>6
<1>5. ASSUME NEW w \in Wait, NEW d \in Device, NEW v \in Vault,
             NEW asked \in 0..MaxCursor, WaitHold(w, d, v, asked)
      PROVE  IInv'
  <2> DEFINE new == [status |-> "held", vault |-> v, device |-> d,
                     asked |-> asked, current |-> cursor[v]]
  <2>1. /\ wait' = [wait EXCEPT ![w] = new]
        /\ waitersByVault' = [waitersByVault EXCEPT ![v] = @ \cup {w}]
        /\ perDevice' = [perDevice EXCEPT ![d] = @ + 1]
        /\ global' = global + 1
        /\ cursor[v] <= asked /\ w \notin Held
        /\ global < GlobalMax /\ perDevice[d] < PerDeviceMax
        /\ UNCHANGED <<cursor, push, unannounced, faults>>
    BY <1>5 DEF WaitHold, NothingNewer, Acquirable
  <2>2. wait'[w] = new /\ \A u \in Wait \ {w} : wait'[u] = wait[u]
    BY <2>1 DEF TypeOK
  <2>3. asked \in Nat /\ new \in Waits
    BY LimitAssumption DEF TypeOK, Waits
  <2>4. TypeOK'
    BY <2>1, <2>3 DEF TypeOK
  <2>5. Held' = Held \cup {w}
    BY <2>2 DEF Held
  <2>6. /\ HeldFor(v)' = HeldFor(v) \cup {w}
        /\ \A u \in Vault : u # v => HeldFor(u)' = HeldFor(u)
    BY <2>1, <2>2, <2>5 DEF HeldFor
  <2>7. /\ HeldBy(d)' = HeldBy(d) \cup {w}
        /\ \A e \in Device : e # d => HeldBy(e)' = HeldBy(e)
    BY <2>1, <2>2, <2>5 DEF HeldBy
  <2>8. w \notin HeldBy(d) /\ w \notin HeldFor(v)
    BY <2>1 DEF HeldBy, HeldFor
  <2>9. /\ Cardinality(Held \cup {w}) = Cardinality(Held) + 1
        /\ Cardinality(HeldBy(d) \cup {w}) = Cardinality(HeldBy(d)) + 1
    BY <2>1, <2>8, FS_AddElement
  <2>10. \A u \in Vault : waitersByVault'[u] = HeldFor(u)'
    BY <2>1, <2>6 DEF SlotsAccounted, TypeOK
  <2>11. \A e \in Device : perDevice'[e] = Cardinality(HeldBy(e)')
    BY <2>1, <2>7, <2>9 DEF SlotsAccounted, TypeOK
  <2>12. global' = Cardinality(Held')
    BY <2>1, <2>5, <2>9 DEF SlotsAccounted
  <2>13. SlotsAccounted'
    BY <2>10, <2>11, <2>12 DEF SlotsAccounted
  <2>14. CapsRespected'
    <3>1. CountersCapped
      BY CapsByCounters
    <3>2. CountersCapped'
      BY <3>1, <2>1, LimitAssumption DEF CountersCapped, TypeOK
    <3> QED BY <3>2, <2>13 DEF SlotsAccounted, CountersCapped, CapsRespected
  <2>15. \A u \in Vault : Announces(u) => Announces(u)'
    BY <2>1 DEF Announces
  <2>16. ~Behind(w)'
    BY <2>1, <2>2, <2>3 DEF Behind, TypeOK
  <2>17. WakeOwed'
    BY <2>1, <2>2, <2>5, <2>15, <2>16 DEF WakeOwed, Behind
  <2> QED BY <2>4, <2>13, <2>14, <2>17
<1>6. ASSUME NEW w \in Wait, WaitEnd(w)
      PROVE  IInv'
  <2>1. {w} \in SUBSET Held /\ Teardown({w}) /\ UNCHANGED <<cursor, push, unannounced, faults>>
    BY <1>6 DEF WaitEnd
  <2>2. SlotsAccounted' /\ wait' \in [Wait -> Waits]
        /\ waitersByVault' \in [Vault -> SUBSET Wait]
        /\ perDevice' \in [Device -> Nat] /\ global' \in Nat
    BY <2>1, TeardownHeld, TeardownAccounts
  <2>3. TypeOK'
    BY <2>1, <2>2 DEF TypeOK
  <2>4. CapsRespected'
    <3>1. CountersCapped /\ global' <= global
          /\ \A d \in Device : perDevice'[d] <= perDevice[d]
      BY <2>1, CapsByCounters, TeardownAccounts
    <3>2. CountersCapped'
      BY <3>1, <2>2, LimitAssumption DEF CountersCapped, TypeOK
    <3> QED BY <3>2, <2>2 DEF SlotsAccounted, CountersCapped, CapsRespected
  <2>5. Held' = Held \ {w} /\ \A u \in Held \ {w} : wait'[u] = wait[u]
    BY <2>1, TeardownHeld
  <2>6. \A u \in Vault : Announces(u) => Announces(u)'
    BY <2>1 DEF Announces
  <2>7. WakeOwed'
    BY <2>1, <2>5, <2>6 DEF WakeOwed, Behind
  <2> QED BY <2>2, <2>3, <2>4, <2>7
<1>7. ASSUME Crash
      PROVE  IInv'
  <2>1. Held' = {} /\ \A v \in Vault : HeldFor(v)' = {}
    BY <1>7 DEF Crash, Down, Held, HeldFor, FreeWait
  <2>2. \A d \in Device : HeldBy(d)' = {}
    BY <2>1 DEF HeldBy
  <2>3. TypeOK'
    BY <1>7, LimitAssumption DEF Crash, Down, TypeOK, Pushes, Waits
  <2>4. SlotsAccounted'
    BY <1>7, <2>1, <2>2, FS_EmptySet DEF Crash, Down, SlotsAccounted
  <2>5. CapsRespected'
    <3>1. Cardinality(Held') = 0 /\ \A d \in Device : Cardinality(HeldBy(d)') = 0
      BY <2>1, <2>2, FS_EmptySet, Zenon
    <3> HIDE HeldType
    <3> QED BY <3>1, LimitAssumption DEF CapsRespected
  <2>6. WakeOwed'
    BY <2>1 DEF WakeOwed, Behind
  <2> QED BY <2>3, <2>4, <2>5, <2>6
<1>8. ASSUME UNCHANGED vars
      PROVE  IInv'
  BY <1>8 DEF vars, TypeOK, SlotsAccounted, CapsRespected, WakeOwed, Held,
              HeldFor, HeldBy, Behind, Announces
<1> QED BY <1>1, <1>2, <1>3, <1>4, <1>5, <1>6, <1>7, <1>8 DEF Next

(***************************************************************************)
(* However many clients wait and go away, and however many pushes notify,  *)
(* time out or fail, the registry and the limiter count exactly the        *)
(* requests that are held, and neither cap is ever exceeded.               *)
(***************************************************************************)
THEOREM SlotsCorrect == Spec => [](SlotsAccounted /\ CapsRespected)
<1>1. Init => IInv
  BY InvInit
<1>2. IInv /\ [Next]_vars => IInv'
  BY InvNext
<1>3. IInv => SlotsAccounted /\ CapsRespected
  BY DEF IInv
<1> QED BY <1>1, <1>2, <1>3, PTL DEF Spec

(***************************************************************************)
(* A held request that is behind its vault's cursor will be woken by a     *)
(* push that is still running, unless a push of the vault ended in an      *)
(* unexpected error after committing and none has finished since.          *)
(***************************************************************************)
THEOREM WakeCorrect == Spec => []WakeOwed
<1>1. Init => IInv
  BY InvInit
<1>2. IInv /\ [Next]_vars => IInv'
  BY InvNext
<1>3. IInv => WakeOwed
  BY DEF IInv
<1> QED BY <1>1, <1>2, <1>3, PTL DEF Spec

-----------------------------------------------------------------------------
(* The server as the channel sees it.                                      *)

\* Nothing in the channel has a cursor past the bound.
Bounded ==
    /\ \A v \in Vault : cursor[v] \in 0..MaxCursor
    /\ {sent, announced, durable, answer, current} \subseteq 0..MaxCursor

\* A restore, as the server sees it.
RestoreStep ==
    /\ Down
    /\ \E n \in 0..MaxCursor : cursor' = [cursor EXCEPT ![Home] = n]
    /\ UNCHANGED faults

\* A step of the channel is a step of the server, a stutter or a restore.
LEMMA ServerSteps ==
    ASSUME Bounded, [ChannelNext]_channelVars
    PROVE  [Next]_vars \/ RestoreStep
<1>1. CASE Start \/ Exit \/ Load \/ DelayEnd \/ Resolve \/ Fail \/ StopHost \/ Refused \/ SyncEnd
  BY <1>1 DEF Start, Exit, Load, DelayEnd, Resolve, Fail, StopHost, Refused, SyncEnd, Loop
<1>2. CASE Ask
  BY <1>2, ChannelAssumption DEF Ask, Loop, Next, Bounded
<1>3. CASE TooMany \/ LinkFails
  BY <1>3 DEF TooMany, LinkFails, Loop
<1>4. CASE HoldEnds
  <2>1. conn \in Wait /\ WaitEnd(conn)
    BY <1>4 DEF HoldEnds, WaitEnd, Held
  <2> QED BY <2>1 DEF Next
<1>5. CASE \E w \in Wait : OtherWaitEnds(w)
  BY <1>5 DEF OtherWaitEnds, Next
<1>6. CASE OtherPushes
  BY <1>6, ChannelAssumption DEF OtherPushes, Next
<1>7. CASE \E p \in Push : PushEnds(p)
  BY <1>7 DEF PushEnds, Next
<1>8. CASE ServerDies
  BY <1>8 DEF ServerDies, Next
<1>9. CASE ServerRestored
  BY <1>9 DEF ServerRestored, RestoreStep
<1>10. CASE UNCHANGED channelVars
  BY <1>10 DEF channelVars
<1> QED BY <1>1, <1>2, <1>3, <1>4, <1>5, <1>6, <1>7, <1>8, <1>9, <1>10 DEF ChannelNext, World

\* A restore keeps the server's invariant: nothing is held, nothing is owed.
LEMMA RestoreKeeps ==
    ASSUME IInv, RestoreStep
    PROVE  IInv'
<1>1. Held' = {} /\ \A v \in Vault : HeldFor(v)' = {}
  BY DEF RestoreStep, Down, Held, HeldFor, FreeWait
<1>2. \A d \in Device : HeldBy(d)' = {}
  BY <1>1 DEF HeldBy
<1>3. TypeOK'
  <2>1. cursor' \in [Vault -> Nat]
    <3>1. PICK n \in 0..MaxCursor : cursor' = [cursor EXCEPT ![Home] = n]
      BY DEF RestoreStep
    <3>2. n \in Nat /\ cursor \in [Vault -> Nat]
      BY LimitAssumption DEF IInv, TypeOK
    <3> QED BY <3>1, <3>2
  <2> QED BY <2>1 DEF IInv, TypeOK, RestoreStep, Down, Pushes, Waits
<1>4. SlotsAccounted'
  BY <1>1, <1>2, FS_EmptySet DEF RestoreStep, Down, SlotsAccounted
<1>5. CapsRespected'
  <2>1. Cardinality(Held') = 0 /\ \A d \in Device : Cardinality(HeldBy(d)') = 0
    BY <1>1, <1>2, FS_EmptySet, Zenon
  <2> QED BY <2>1, LimitAssumption DEF CapsRespected
<1>6. WakeOwed'
  BY <1>1 DEF WakeOwed, Behind
<1> QED BY <1>3, <1>4, <1>5, <1>6 DEF IInv

-----------------------------------------------------------------------------
(* The client's part.                                                      *)

\* The client's types that the counting needs.
ClientType ==
    /\ {sent, announced, durable, answer, current} \subseteq Nat
    /\ wakes \in Nat /\ restores \in Nat
    /\ poll \in {"none", "token", "held", "answered", "failed", "denied"}

(***************************************************************************)
(* While the log has only grown: nothing the client knows is past it, a    *)
(* poll asks from at least what was announced, and an answer is at least   *)
(* what was asked from.                                                    *)
(***************************************************************************)
Counted ==
    /\ wakes <= announced /\ announced <= cursor[Home]
    /\ durable <= cursor[Home] /\ sent <= cursor[Home]
    /\ current <= cursor[Home] /\ answer <= cursor[Home]
    /\ poll # "none" => announced <= sent
    /\ poll = "held" => sent <= current
    /\ poll = "answered" => sent <= answer

ChannelInv ==
    /\ IInv /\ Bounded /\ ClientType
    /\ restores = 0 => Counted

\* The bounds, the types and the count of a channel that has just started.
LEMMA ChannelInvInit ==
    ASSUME ChannelInit
    PROVE  ChannelInv
<1>1. IInv
  BY InvInit DEF ChannelInit
<1>2. Bounded
  BY LimitAssumption DEF ChannelInit, Init, Client!Init, Bounded
<1>3. ClientType /\ Counted
  BY ChannelAssumption DEF ChannelInit, Init, Client!Init, ClientType, Counted
<1> QED BY <1>1, <1>2, <1>3 DEF ChannelInv

\* What the server does to the cursor of the device's vault.
LEMMA CursorSteps ==
    ASSUME IInv, Bounded, [Next]_vars
    PROVE  /\ \A v \in Vault : cursor'[v] \in 0..MaxCursor
           /\ cursor'[Home] >= cursor[Home]
<1> DEFINE Grown == /\ \A v \in Vault : cursor'[v] \in 0..MaxCursor
                    /\ cursor'[Home] >= cursor[Home]
<1>1. cursor' = cursor => Grown
  BY ChannelAssumption, LimitAssumption DEF Bounded
<1>2. ASSUME NEW p \in Push, PushCommit(p)
      PROVE  Grown
  <2>1. push[p] \in [status : {"running", "committed"}, vault : Vault]
    BY <1>2 DEF PushCommit, IInv, TypeOK, Pushes, IdlePush
  <2>2. push[p].vault \in Vault /\ cursor \in [Vault -> Nat]
    BY <2>1 DEF IInv, TypeOK
  <2>3. /\ cursor[push[p].vault] < MaxCursor
        /\ cursor' = [cursor EXCEPT ![push[p].vault] = @ + 1]
    BY <1>2 DEF PushCommit
  <2>4. \A v \in Vault : cursor'[v] = IF v = push[p].vault THEN cursor[v] + 1 ELSE cursor[v]
    BY <2>2, <2>3
  <2> QED BY <2>2, <2>3, <2>4, ChannelAssumption, LimitAssumption DEF Bounded
<1>3. (\A p \in Push : ~PushCommit(p)) => cursor' = cursor
  BY DEF Next, vars, PushStart, PushFinish, PushFault, WaitHold, WaitEnd, Crash
<1> QED BY <1>1, <1>2, <1>3

\* Every step of the channel keeps the invariant.
LEMMA ChannelInvNext ==
    ASSUME ChannelInv, [ChannelNext]_channelVars
    PROVE  ChannelInv'
<1> USE DEF ChannelInv
<1>1. IInv'
  BY ServerSteps, InvNext, RestoreKeeps
<1>2. Home \in Vault /\ cursor[Home] \in 0..MaxCursor /\ MaxCursor \in Nat
  BY ChannelAssumption, LimitAssumption DEF Bounded
<1> DEFINE c == cursor[Home]
           Grows == /\ \A v \in Vault : cursor'[v] \in 0..MaxCursor
                    /\ cursor'[Home] >= c
           ClientInv == /\ {sent, announced, durable, answer, current} \subseteq 0..MaxCursor
                        /\ ClientType
                        /\ restores = 0 => Counted
           Kept == UNCHANGED <<sent, current, answer, poll, announced, durable, wakes, restores>>
<1>3. Grows /\ ClientInv' => ChannelInv'
  BY <1>1 DEF Bounded
<1>4. [Next]_vars => Grows
  BY CursorSteps
<1>5. ClientInv
  BY DEF Bounded
<1>6. Kept /\ Grows => ClientInv'
  BY <1>2, <1>5 DEF ClientType, Counted
<1>7. CASE UNCHANGED channelVars
  BY <1>3, <1>4, <1>6, <1>7 DEF channelVars, clientVars
<1>8. CASE Start \/ Exit \/ DelayEnd \/ StopHost
  <2>1. UNCHANGED vars /\ Kept
    BY <1>8 DEF Start, Exit, DelayEnd, StopHost, Loop, Client!Start, Client!Exit,
               Client!DelayEnd, Client!Stop, Client!wire, Client!client, Client!history
  <2> QED BY <2>1, <1>3, <1>4, <1>6
<1>9. CASE Load
  <2>1. UNCHANGED vars /\ Client!Load
    BY <1>9 DEF Load, Loop
  <2>2. UNCHANGED <<current, answer, announced, durable, wakes, restores>>
    BY <2>1 DEF Client!Load, Client!wire, Client!history
  <2>3. \/ UNCHANGED <<sent, poll>>
        \/ sent' = (IF durable > announced THEN durable ELSE announced) /\ poll' = "token"
    BY <2>1 DEF Client!Load, Client!wire, Client!PollCursor
  <2>4. Grows /\ cursor' = cursor
    BY <2>1, <1>4 DEF vars
  <2>5. ClientInv'
    BY <1>2, <1>5, <2>2, <2>3, <2>4 DEF ClientType, Counted
  <2> QED BY <1>3, <2>4, <2>5
<1>10. CASE Resolve
  <2>1. UNCHANGED vars /\ Client!Resolve
    BY <1>10 DEF Resolve, Loop
  <2>2. /\ poll = "answered" /\ poll' = "none" /\ sent' = 0 /\ current' = 0 /\ answer' = 0
        /\ UNCHANGED <<durable, restores>>
    BY <2>1 DEF Client!Resolve, Client!PollOver
  <2>3. \/ answer > sent /\ announced' = answer /\ wakes' = wakes + 1
        \/ /\ ~(answer > sent) /\ wakes' = wakes
           /\ announced' = IF answer < sent THEN 0 ELSE announced
    BY <2>1 DEF Client!Resolve, Client!Wake, Client!Heartbeat, Client!history
  <2>4. Grows /\ cursor' = cursor
    BY <2>1, <1>4 DEF vars
  <2>5. ClientInv'
    BY <1>2, <1>5, <2>2, <2>3, <2>4 DEF ClientType, Counted
  <2> QED BY <1>3, <2>4, <2>5
<1>11. CASE Fail
  <2>1. UNCHANGED vars /\ Client!Fail
    BY <1>11 DEF Fail, Loop
  <2>2. /\ poll' = "none" /\ sent' = 0 /\ current' = 0 /\ answer' = 0
        /\ UNCHANGED <<announced, durable, wakes, restores>>
    BY <2>1 DEF Client!Fail, Client!PollOver, Client!history
  <2>3. Grows /\ cursor' = cursor
    BY <2>1, <1>4 DEF vars
  <2>4. ClientInv'
    BY <1>2, <1>5, <2>2, <2>3 DEF ClientType, Counted
  <2> QED BY <1>3, <2>3, <2>4
<1>12. CASE Refused
  <2>1. UNCHANGED vars /\ Client!Denied
    BY <1>12 DEF Refused, Loop
  <2>2. /\ poll = "token" /\ poll' = "denied"
        /\ UNCHANGED <<sent, current, answer, announced, durable, wakes, restores>>
    BY <2>1 DEF Client!Denied, Client!client, Client!history
  <2>3. Grows /\ cursor' = cursor
    BY <2>1, <1>4 DEF vars
  <2>4. ClientInv'
    BY <1>2, <1>5, <2>2, <2>3 DEF ClientType, Counted
  <2> QED BY <1>3, <2>3, <2>4
<1>13. CASE SyncEnd
  <2>1. UNCHANGED vars /\ Client!SyncEnd
    BY <1>13 DEF SyncEnd, Loop
  <2>2. /\ durable' \in durable..c \cup {durable}
        /\ UNCHANGED <<sent, current, answer, poll, announced, wakes, restores>>
    BY <2>1 DEF Client!SyncEnd, Client!client, Client!wire, Client!history
  <2>3. Grows /\ cursor' = cursor
    BY <2>1, <1>4 DEF vars
  <2>4. ClientInv'
    BY <1>2, <1>5, <2>2, <2>3 DEF ClientType, Counted
  <2> QED BY <1>3, <2>3, <2>4
<1>14. CASE Ask
  <2>1. Client!Request /\ (UNCHANGED vars \/ \E w \in Wait : WaitHold(w, Own, Home, sent))
    BY <1>14 DEF Ask, Loop
  <2>2. cursor' = cursor
    BY <2>1 DEF WaitHold, vars
  <2>3. Grows
    BY <2>2, <1>2 DEF Bounded
  <2>4. /\ current' = c
        /\ \/ c > sent /\ poll' = "answered" /\ answer' = c
           \/ poll' = "held" /\ answer' = answer
        /\ poll = "token"
        /\ UNCHANGED <<sent, announced, durable, wakes, restores>>
    BY <2>1 DEF Client!Request, Client!client, Client!history
  <2>5. ClientInv'
    BY <1>2, <1>5, <2>2, <2>3, <2>4 DEF ClientType, Counted
  <2> QED BY <1>3, <2>3, <2>5
<1>15. ASSUME Grows, Client!TransportError
       PROVE  ClientInv'
  <2>1. /\ poll \in {"token", "held", "answered"} /\ poll' = "failed"
        /\ UNCHANGED <<sent, current, answer, announced, durable, wakes, restores>>
    BY <1>15 DEF Client!TransportError, Client!client, Client!history
  <2> QED BY <1>2, <1>5, <1>15, <2>1 DEF ClientType, Counted
<1>16. CASE TooMany \/ LinkFails
  <2>1. UNCHANGED vars /\ Client!TransportError
    BY <1>16 DEF TooMany, LinkFails, Loop
  <2> QED BY <2>1, <1>3, <1>4, <1>15
<1>17. CASE HoldEnds
  <2>1. Client!Timeout /\ conn \in Wait /\ WaitEnd(conn)
    BY <1>17 DEF HoldEnds, WaitEnd, Held
  <2>2. cursor' = cursor /\ Grows
    BY <2>1, <1>2 DEF WaitEnd, Bounded
  <2>3. /\ poll = "held" /\ poll' = "answered" /\ answer' = current
        /\ UNCHANGED <<sent, current, announced, durable, wakes, restores>>
    BY <2>1 DEF Client!Timeout, Client!client, Client!history
  <2>4. ClientInv'
    BY <1>2, <1>5, <2>2, <2>3 DEF ClientType, Counted
  <2> QED BY <1>3, <2>2, <2>4
<1>18. CASE \E w \in Wait : OtherWaitEnds(w)
  <2>1. PICK w \in Wait : WaitEnd(w) /\ UNCHANGED clientVars
    BY <1>18 DEF OtherWaitEnds
  <2>2. Grows /\ Kept
    BY <2>1, <1>4 DEF Next, clientVars
  <2> QED BY <2>2, <1>3, <1>6
<1>19. CASE OtherPushes
  <2>1. Next
    BY <1>19, ChannelAssumption DEF OtherPushes, Next
  <2>2. Kept
    BY <1>19 DEF OtherPushes, clientVars, Client!PeerCommit, Client!client, Client!wire,
                 Client!history
  <2> QED BY <2>1, <2>2, <1>3, <1>4, <1>6
<1>20. CASE \E p \in Push : PushEnds(p)
  <2>1. PICK p \in Push : PushEnds(p)
    BY <1>20
  <2>2. Grows /\ cursor' = cursor
    BY <2>1, <1>4 DEF PushEnds, PushFinish, Next
  <2>3. CASE UNCHANGED clientVars
    BY <2>2, <2>3, <1>3, <1>6 DEF clientVars
  <2>4. CASE Client!Notified
    <3>1. /\ poll = "held" /\ poll' = "answered" /\ answer' = c
          /\ UNCHANGED <<sent, current, announced, durable, wakes, restores>>
      BY <2>4 DEF Client!Notified, Client!client, Client!history
    <3>2. ClientInv'
      BY <1>2, <1>5, <2>2, <3>1 DEF ClientType, Counted
    <3> QED BY <1>3, <2>2, <3>2
  <2> QED BY <2>1, <2>3, <2>4 DEF PushEnds
<1>21. CASE ServerDies
  <2>1. Next /\ (Client!TransportError \/ Kept)
    BY <1>21 DEF ServerDies, Next
  <2> QED BY <2>1, <1>3, <1>4, <1>6, <1>15
<1>22. CASE ServerRestored
  <2>1. PICK n \in 0..MaxCursor : cursor' = [cursor EXCEPT ![Home] = n]
    BY <1>22 DEF ServerRestored
  <2>2. \A v \in Vault : cursor'[v] \in 0..MaxCursor
    BY <2>1, <1>2 DEF Bounded, IInv, TypeOK
  <2>3. /\ restores' = restores + 1
        /\ poll' = IF poll \in {"held", "answered"} THEN "failed" ELSE poll
        /\ UNCHANGED <<sent, current, answer, announced, durable, wakes>>
    BY <1>22 DEF ServerRestored, Client!Restore, Client!client
  <2>4. ClientInv'
    BY <1>5, <2>3 DEF ClientType
  <2> QED BY <1>1, <2>2, <2>4 DEF Bounded
<1> QED BY <1>7, <1>8, <1>9, <1>10, <1>11, <1>12, <1>13, <1>14, <1>16, <1>17, <1>18,
           <1>19, <1>20, <1>21, <1>22 DEF ChannelNext, World

-----------------------------------------------------------------------------

(***************************************************************************)
(* The anti-spin contract: while the server keeps its log, the device      *)
(* fires at most one wake for each revision of its vault, however polls    *)
(* are answered, time out or fail, however long a sync leaves the durable  *)
(* cursor where it was, and whatever the settle budget is.                 *)
(***************************************************************************)
THEOREM WakesCorrect == ChannelSpec => []OneWakePerAdvance
<1>1. ChannelInit => ChannelInv
  BY ChannelInvInit
<1>2. ChannelInv /\ [ChannelNext]_channelVars => ChannelInv'
  BY ChannelInvNext
<1>3. ChannelInv => OneWakePerAdvance
  <2>1. SUFFICES ASSUME ChannelInv, restores = 0 PROVE wakes <= cursor[Home]
    BY DEF OneWakePerAdvance
  <2>2. wakes <= announced /\ announced <= cursor[Home]
    BY <2>1 DEF ChannelInv, Counted
  <2>3. wakes \in Nat /\ announced \in Nat /\ cursor[Home] \in 0..MaxCursor
    BY <2>1, ChannelAssumption DEF ChannelInv, ClientType, Bounded
  <2> QED BY <2>2, <2>3, LimitAssumption
<1> QED BY <1>1, <1>2, <1>3, PTL DEF ChannelSpec

(***************************************************************************)
(* The server's promises survive a client that abandons its polls and a    *)
(* server that is restored while requests are held: the registry and the   *)
(* limiter still count exactly the requests held, and a held request       *)
(* behind its vault's cursor is still owed a wake.                         *)
(***************************************************************************)
THEOREM ChannelServerCorrect == ChannelSpec => [](SlotsAccounted /\ WakeOwed)
<1>1. ChannelInit => ChannelInv
  BY ChannelInvInit
<1>2. ChannelInv /\ [ChannelNext]_channelVars => ChannelInv'
  BY ChannelInvNext
<1>3. ChannelInv => SlotsAccounted /\ WakeOwed
  BY DEF ChannelInv, IInv
<1> QED BY <1>1, <1>2, <1>3, PTL DEF ChannelSpec

-----------------------------------------------------------------------------
(* The queue over data.json.                                               *)

\* Every key of a blob is at a version that may stand.
MayStand(data) == \A k \in Store : data[k] \in standing[k]

\* The head's blob: its own key at the version it saves, the others as they may stand
WritesItsKey ==
    writing # NoData =>
        /\ queue # <<>> /\ call[Head(queue)] = "save"
        /\ \A k \in Store : IF k = Head(queue) THEN writing[k] = fresh[k]
                                               ELSE writing[k] \in standing[k]

\* A version that may stand was made, and a port saves a newer one than it loaded.
VersionsGrow ==
    \A k \in Store :
        /\ standing[k] \subseteq 0..made[k] /\ fresh[k] <= made[k]
        /\ k \in Split => loaded[k][k] <= made[k]
        /\ k \in Split /\ call[k] = "save" => loaded[k][k] < fresh[k]

DataInv ==
    /\ DataTypeOK /\ KeysKept /\ (cache # NoData => MayStand(cache))
    /\ WritesItsKey /\ VersionsGrow

LEMMA DataInitInv == DataInit => DataInv
<1> SUFFICES ASSUME DataInit PROVE DataInv
  OBVIOUS
<1>1. Untouched \in Data /\ \A k \in Store : Untouched[k] = 0
  BY DEF Untouched, Data
<1>2. \A k \in Split : loaded[k] = Untouched /\ k \in Store
  BY DEF DataInit, Store
<1>3. DataTypeOK
  <2>1. loaded \in [Split -> Data] /\ call \in [Store -> {"none", "load", "loaded", "save"}]
    BY <1>1 DEF DataInit
  <2>2. made \in [Store -> Nat] /\ fresh \in [Store -> Nat] /\ standing \in [Store -> SUBSET Nat]
    BY <1>1 DEF DataInit, Data
  <2>3. queue \in Seq(Store) /\ outside \in 0..MaxOutside
    BY DataAssumption DEF DataInit
  <2>4. disk \in Data /\ cache \in Data \cup {NoData} /\ writing \in Data \cup {NoData} /\ stale \in BOOLEAN
    BY <1>1 DEF DataInit
  <2> QED BY <2>1, <2>2, <2>3, <2>4 DEF DataTypeOK
<1>4. KeysKept /\ WritesItsKey /\ (cache # NoData => MayStand(cache))
  BY <1>1 DEF DataInit, KeysKept, WritesItsKey
<1>5. VersionsGrow
  BY <1>1, <1>2 DEF DataInit, VersionsGrow
<1> QED BY <1>3, <1>4, <1>5 DEF DataInv

\* What the mutator returns: the store's key at its version, every other key as in
\* the latest blob, for a port too.
LEMMA MutatedBlob ==
  ASSUME DataTypeOK, VersionsGrow, NEW k \in Store, NEW base \in Data, call[k] = "save"
  PROVE  /\ Mutated(k, base) \in Data
         /\ Mutated(k, base)[k] = fresh[k]
         /\ \A j \in Store \ {k} : Mutated(k, base)[j] = base[j]
<1>1. CASE k \in Direct
  BY <1>1 DEF Mutated, Data, DataTypeOK
<1>2. CASE k \in Split /\ k \notin Direct
  <2> DEFINE data == [loaded[k] EXCEPT ![k] = fresh[k]]
  <2>1. loaded[k] \in Data /\ data \in Data /\ data[k] = fresh[k]
    BY <1>2 DEF DataTypeOK, Data
  <2>2. \A j \in Store \ {k} : data[j] = loaded[k][j]
    BY <2>1 DEF Data
  <2>3. data[k] # loaded[k][k]
    BY <1>2, <2>1 DEF VersionsGrow, DataTypeOK, Data
  <2>4. Mutated(k, base) = [j \in Store |-> IF data[j] # loaded[k][j] THEN data[j] ELSE base[j]]
    BY <1>2 DEF Mutated
  <2> HIDE DEF data
  <2> QED BY <2>1, <2>2, <2>3, <2>4 DEF Data
<1> QED BY <1>1, <1>2 DEF Store

\* The head's blob stays right as long as its call is the head's.
LEMMA HeadKept ==
  ASSUME WritesItsKey, writing' = writing, standing' = standing,
         queue # <<>> => Head(queue) \in Store,
         queue # <<>> => queue' # <<>> /\ Head(queue') = Head(queue),
         \A k \in Store : call[k] = "save" => call'[k] = "save" /\ fresh'[k] = fresh[k]
  PROVE  WritesItsKey'
<1> SUFFICES ASSUME writing # NoData
             PROVE  /\ queue' # <<>> /\ call'[Head(queue)] = "save"
                    /\ \A k \in Store : IF k = Head(queue) THEN writing[k] = fresh'[k]
                                                           ELSE writing[k] \in standing[k]
  BY DEF WritesItsKey
<1> QED BY DEF WritesItsKey

LEMMA DataStep == DataInv /\ [DataNext]_dataVars => DataInv'
<1> SUFFICES ASSUME DataInv, [DataNext]_dataVars PROVE DataInv'
  OBVIOUS
<1> USE DataAssumption DEF DataInv
<1>0. queue # <<>> => Head(queue) \in Store /\ Tail(queue) \in Seq(Store)
  BY DEF DataTypeOK
<1>13. ASSUME NEW k \in Store, queue # <<>> PROVE Head(Append(queue, k)) = Head(queue) /\ Append(queue, k) # <<>>
  BY SMTT(60), <1>13 DEF DataTypeOK
<1>1. CASE UNCHANGED dataVars
  BY <1>1 DEF dataVars, DataTypeOK, KeysKept, MayStand, WritesItsKey, VersionsGrow
<1>2. ASSUME NEW k \in Store, Update(k) PROVE DataInv'
  <2>1. DataTypeOK'
    BY <1>2 DEF Update, Save, Make, Enqueue, DataTypeOK, Data
  <2>2. KeysKept' /\ (cache' # NoData => MayStand(cache)') /\ VersionsGrow'
    BY SMTT(60), <1>2 DEF Update, Save, Make, Enqueue, DataTypeOK, KeysKept, MayStand, VersionsGrow, Data
  <2>3. WritesItsKey'
    BY SMTT(60), <1>2 DEF Update, Save, Make, Enqueue, DataTypeOK, WritesItsKey
  <2> QED BY <2>1, <2>2, <2>3
<1>3. ASSUME NEW k \in Store, LoadPort(k) PROVE DataInv'
  <2>1. DataTypeOK'
    BY <1>3 DEF LoadPort, Enqueue, DataTypeOK
  <2>2. KeysKept' /\ (cache' # NoData => MayStand(cache)') /\ VersionsGrow'
    BY <1>3 DEF LoadPort, Enqueue, DataTypeOK, KeysKept, MayStand, VersionsGrow
  <2>3. WritesItsKey'
    BY <1>0, <1>3, <1>13 DEF LoadPort, Enqueue, DataTypeOK, WritesItsKey
  <2> QED BY <2>1, <2>2, <2>3
<1>4. ASSUME NEW k \in Store, SavePort(k) PROVE DataInv'
  <2>5. ASSUME Save(k), k \in Split, UNCHANGED <<disk, cache, writing, loaded, standing, stale, outside>>
        PROVE  DataTypeOK' /\ VersionsGrow' /\ WritesItsKey'
    <3>1. made[k] \in Nat /\ made' = [made EXCEPT ![k] = made[k] + 1]
          /\ fresh' = [fresh EXCEPT ![k] = made[k] + 1] /\ made' \in [Store -> Nat] /\ fresh' \in [Store -> Nat]
      BY <2>5 DEF Save, Make, DataTypeOK
    <3>2. call' = [call EXCEPT ![k] = "save"] /\ queue' = Append(queue, k)
      BY <2>5 DEF Save, Enqueue
    <3>3. DataTypeOK'
      BY <2>5, <3>1, <3>2 DEF DataTypeOK
    <3>4. VersionsGrow'
      <4> SUFFICES ASSUME NEW j \in Store
                   PROVE  /\ standing[j] \subseteq 0..made'[j] /\ fresh'[j] <= made'[j]
                          /\ j \in Split => loaded[j][j] <= made'[j]
                          /\ j \in Split /\ call'[j] = "save" => loaded[j][j] < fresh'[j]
        BY <2>5 DEF VersionsGrow
      <4>1. made[j] \in Nat /\ standing[j] \subseteq 0..made[j] /\ fresh[j] <= made[j] /\ fresh[j] \in Nat
            /\ (j \in Split => loaded[j][j] \in Nat /\ loaded[j][j] <= made[j])
            /\ (j \in Split /\ call[j] = "save" => loaded[j][j] < fresh[j])
        BY DEF VersionsGrow, DataTypeOK, Data
      <4>2. CASE j = k
        BY <3>1, <4>1, <4>2 DEF DataTypeOK
      <4>3. CASE j # k
        BY <3>1, <3>2, <4>1, <4>3 DEF DataTypeOK
      <4> QED BY <4>2, <4>3
    <3>5. WritesItsKey'
      <4>1. queue # <<>> => Head(queue') = Head(queue) /\ queue' # <<>>
        BY <1>13, <3>2
      <4>2. \A j \in Store : call[j] = "save" => call'[j] = "save" /\ fresh'[j] = fresh[j]
        BY <1>4, <3>1, <3>2 DEF SavePort, DataTypeOK
      <4>3. writing' = writing /\ standing' = standing
        BY <2>5
      <4> QED BY <1>0, <4>1, <4>2, <4>3, HeadKept
    <3> QED BY <3>3, <3>4, <3>5
  <2>6. ASSUME call[k] = "loaded", call' = [call EXCEPT ![k] = "none"],
               UNCHANGED <<made, fresh, queue, disk, cache, writing, loaded, standing, stale, outside>>
        PROVE  DataTypeOK' /\ VersionsGrow' /\ WritesItsKey'
    <3>1. DataTypeOK'
      BY <2>6, <1>4 DEF SavePort, DataTypeOK
    <3>2. VersionsGrow'
      BY <2>6 DEF DataTypeOK, VersionsGrow
    <3>3. WritesItsKey'
      <4>1. \A j \in Store : call[j] = "save" => call'[j] = "save" /\ fresh'[j] = fresh[j]
        BY <2>6 DEF DataTypeOK
      <4>2. writing' = writing /\ standing' = standing /\ queue' = queue
        BY <2>6
      <4> QED BY <1>0, <4>1, <4>2, HeadKept
    <3> QED BY <3>1, <3>2, <3>3
  <2>1. DataTypeOK' /\ VersionsGrow' /\ WritesItsKey'
    BY <1>4, <2>5, <2>6 DEF SavePort
  <2>2. KeysKept' /\ (cache' # NoData => MayStand(cache)')
    BY <1>4 DEF SavePort, KeysKept, MayStand
  <2> QED BY <2>1, <2>2
<1>5. CASE Read
  BY <1>5 DEF Read, Idle1, DataTypeOK, KeysKept, MayStand, WritesItsKey, VersionsGrow
<1>6. CASE Loaded
  <2>1. DataTypeOK'
    BY <1>0, <1>6 DEF Loaded, Idle1, Head1, DataTypeOK
  <2>2. KeysKept' /\ (cache' # NoData => MayStand(cache)') /\ WritesItsKey'
    BY <1>6 DEF Loaded, Idle1, KeysKept, MayStand, WritesItsKey
  <2>3. VersionsGrow'
    <3>1. Head1 \in Store /\ cache \in Data /\ MayStand(cache)
      BY <1>0, <1>6 DEF Loaded, Idle1, Head1, DataTypeOK
    <3>2. cache[Head1] <= made[Head1]
      BY <3>1 DEF MayStand, VersionsGrow, DataTypeOK
    <3>3. loaded' = [loaded EXCEPT ![Head1] = cache] /\ call' = [call EXCEPT ![Head1] = "loaded"]
          /\ UNCHANGED <<made, fresh, standing>>
      BY <1>6 DEF Loaded
    <3> QED BY <3>1, <3>2, <3>3 DEF VersionsGrow, DataTypeOK
  <2> QED BY <2>1, <2>2, <2>3
<1>7. CASE Mutate
  <2>1. Head1 \in Store /\ call[Head1] = "save" /\ cache \in Data /\ MayStand(cache)
    BY <1>0, <1>7 DEF Mutate, Idle1, Head1, DataTypeOK
  <2>2. /\ writing' \in Data /\ writing'[Head1] = fresh[Head1]
        /\ \A j \in Store \ {Head1} : writing'[j] = cache[j]
    BY <1>7, <2>1, MutatedBlob DEF Mutate
  <2>3. DataTypeOK' /\ KeysKept' /\ (cache' # NoData => MayStand(cache)') /\ VersionsGrow'
    BY <1>7, <2>2 DEF Mutate, DataTypeOK, KeysKept, MayStand, VersionsGrow
  <2>4. WritesItsKey'
    BY <1>7, <2>1, <2>2 DEF Mutate, Idle1, Head1, WritesItsKey, MayStand
  <2> QED BY <2>3, <2>4
<1>8. CASE Write
  <2>1. queue # <<>> /\ Head1 \in Store /\ writing \in Data
    BY <1>0, <1>8 DEF Write, WritesItsKey, Head1, DataTypeOK
  <2>2. DataTypeOK'
    BY ZenonT(60), <1>0, <1>8, <2>1 DEF Write, Ended, DataTypeOK, Data
  <2>3. KeysKept' /\ (cache' # NoData => MayStand(cache)')
    BY <1>8, <2>1 DEF Write, WritesItsKey, Head1, KeysKept, MayStand, DataTypeOK, Data
  <2>4. VersionsGrow'
    BY <1>8, <2>1 DEF Write, Ended, Head1, VersionsGrow, DataTypeOK
  <2>5. WritesItsKey'
    BY <1>8 DEF Write, Ended, WritesItsKey
  <2> QED BY <2>2, <2>3, <2>4, <2>5
<1>9. CASE WriteFails
  <2>1. queue # <<>> /\ Head1 \in Store
    BY <1>0, <1>9 DEF WriteFails, WritesItsKey, Head1, DataTypeOK
  <2>2. DataTypeOK'
    BY <1>0, <1>9, <2>1 DEF WriteFails, Ended, DataTypeOK
  <2>3. KeysKept' /\ (cache' # NoData => MayStand(cache)') /\ VersionsGrow' /\ WritesItsKey'
    BY <1>9, <2>1 DEF WriteFails, Ended, WritesItsKey, KeysKept, MayStand, VersionsGrow, DataTypeOK
  <2> QED BY <2>2, <2>3
<1>10. ASSUME NEW k \in Store, Outside(k) PROVE DataInv'
  <2>1. DataTypeOK'
    BY SMTT(60), <1>10 DEF Outside, Make, DataTypeOK, Data
  <2>2. KeysKept' /\ (cache' # NoData => MayStand(cache)')
    BY <1>10 DEF Outside, DataTypeOK, KeysKept, MayStand, Data
  <2>3. VersionsGrow'
    BY SMTT(60), <1>10 DEF Outside, Make, DataTypeOK, VersionsGrow, Data
  <2>4. WritesItsKey'
    BY <1>0, <1>10 DEF Outside, DataTypeOK, WritesItsKey
  <2> QED BY <2>1, <2>2, <2>3, <2>4
<1>11. CASE Invalidate
  BY <1>11 DEF Invalidate, DataTypeOK, KeysKept, MayStand, WritesItsKey, VersionsGrow
<1>12. CASE Reload
  <2>1. DataTypeOK'
    <3>1. Untouched \in Data
      BY DEF Untouched, Data
    <3>2. loaded' \in [Split -> Data] /\ call' \in [Store -> {"none", "load", "loaded", "save"}]
      BY <1>12, <3>1 DEF Reload
    <3>3. /\ queue' = <<>> /\ queue' \in Seq(Store) /\ cache' = NoData /\ writing' = NoData
          /\ stale' = FALSE /\ UNCHANGED <<disk, made, fresh, standing, outside>>
      BY <1>12 DEF Reload
    <3> QED BY <3>2, <3>3 DEF DataTypeOK
  <2>2. KeysKept' /\ (cache' # NoData => MayStand(cache)') /\ WritesItsKey'
    BY <1>12 DEF Reload, KeysKept, WritesItsKey
  <2>3. VersionsGrow'
    BY <1>12 DEF Reload, VersionsGrow, DataTypeOK, Untouched, Data, Store
  <2> QED BY <2>1, <2>2, <2>3
<1> QED BY <1>1, <1>2, <1>3, <1>4, <1>5, <1>6, <1>7, <1>8, <1>9, <1>10, <1>11, <1>12
        DEF DataNext, HeadRuns

\* Whatever the stores do at once, and whatever else writes the file: what data.json
\* holds under a key is what its store saved last, or what was written there since.
THEOREM DataCorrect == DataSpec => []KeysKept
<1>1. DataInv => KeysKept
  BY DEF DataInv
<1> QED BY <1>1, DataInitInv, DataStep, PTL DEF DataSpec

-----------------------------------------------------------------------------
(* The lock per file.                                                      *)

\* The tasks whose link under the key has not settled, in the order they asked: the
\* first runs or may run, each of the others waits for the one before it, and the
\* registry names the last.
Stands(p, line, i) ==
    /\ at[line[i]][p] \in {"queued", "held"}
    /\ at[line[i]][p] = "held" => i = 1
    /\ i = 1 => before[line[i]][p] = NoLink
    /\ i # 1 => before[line[i]][p] = <<line[i - 1], p>>

NoTwice(line) == \A i, j \in 1..Len(line) : line[i] = line[j] => i = j

Registered(p, line) ==
    /\ line = <<>> => tail[p] = NoLink \/ \E t \in Tasks : tail[p] = <<t, p>> /\ at[t][p] = "settled"
    /\ line # <<>> => tail[p] = <<line[Len(line)], p>>

InLine(p, line) ==
    /\ \A t \in Tasks : at[t][p] \in {"queued", "held"} => \E i \in 1..Len(line) : line[i] = t
    /\ NoTwice(line) /\ Registered(p, line)
    /\ \A i \in 1..Len(line) : Stands(p, line, i)

LineUp(p) == \E line \in Seq(Tasks) : InLine(p, line)

\* A body runs with all its keys, and a task waits for one with all smaller ones.
TakesInOrder ==
    \A t \in Tasks :
        /\ t \in body => \A p \in Keys(t) : at[t][p] = "held"
        /\ \A p \in Paths : at[t][p] = "queued" =>
             /\ p \in Keys(t)
             /\ \A r \in Keys(t) : (r < p => at[t][r] = "held") /\ (p < r => at[t][r] = "none")

LockInv == LockTypeOK /\ TakesInOrder /\ \A p \in Paths : LineUp(p)

LEMMA KeysArePaths ==
  ASSUME NEW t \in Tasks
  PROVE  Keys(t) \subseteq Paths /\ Keys(t) \subseteq Nat /\ Keys(t) # {} /\ Paths \subseteq Nat
<1>1. Wanted[t] \in Seq(Paths) /\ Wanted[t] # <<>>
  BY LockAssumption
<1>2. \A i \in DOMAIN Wanted[t] : Wanted[t][i] \in Paths
  BY <1>1
<1>3. 1 \in DOMAIN Wanted[t]
  BY <1>1
<1>4. Keys(t) = {Wanted[t][i] : i \in DOMAIN Wanted[t]} /\ Paths \subseteq Nat
  BY LockAssumption DEF Keys, ToSet
<1> QED BY <1>2, <1>3, <1>4

\* No link is NoLink.
LEMMA LinksDiffer == \A t \in Tasks, p \in Paths : <<t, p>> # NoLink
BY LockAssumption

LEMMA LockInitInv == LockInit => LockInv
<1> SUFFICES ASSUME LockInit PROVE LockInv
  OBVIOUS
<1>1. LockTypeOK
  BY DEF LockInit, LockTypeOK, Idle
<1>2. \A t \in Tasks, p \in Paths : at[t][p] = "none"
  BY DEF LockInit, Idle
<1>3. TakesInOrder
  BY <1>2 DEF LockInit, TakesInOrder
<1>4. ASSUME NEW p \in Paths PROVE LineUp(p)
  <2>1. Len(<<>>) = 0 /\ <<>> \in Seq(Tasks) /\ tail[p] = NoLink
    BY <1>4 DEF LockInit
  <2>2. InLine(p, <<>>)
    BY <1>2, <2>1 DEF InLine, Stands, NoTwice, Registered
  <2> QED BY <2>1, <2>2 DEF LineUp
<1> QED BY <1>1, <1>3, <1>4 DEF LockInv

\* Another key, or a task that enters: the line is the same.
LEMMA LineKept ==
  ASSUME NEW p \in Paths, LineUp(p), tail'[p] = tail[p],
         \A s \in Tasks : before'[s][p] = before[s][p],
         \A s \in Tasks : \/ at'[s][p] = at[s][p]
                          \/ at[s][p] = "queued" /\ before[s][p] = NoLink /\ at'[s][p] = "held"
  PROVE  LineUp(p)'
<1>1. PICK line \in Seq(Tasks) : InLine(p, line)
  BY DEF LineUp
<1>2. \A i \in 1..Len(line) : line[i] \in Tasks
  BY <1>1
<1>3. \A i \in 1..Len(line) : i # 1 => line[i - 1] \in Tasks
  BY <1>1, <1>2
<1>4. ASSUME NEW i \in 1..Len(line) PROVE Stands(p, line, i)'
  <2>1. Stands(p, line, i) /\ line[i] \in Tasks /\ (i # 1 => line[i - 1] \in Tasks)
    BY <1>1, <1>2, <1>3 DEF InLine
  <2>2. before[line[i]][p] = NoLink => i = 1
    BY <2>1, LinksDiffer DEF Stands
  <2> QED BY <2>1, <2>2 DEF Stands
<1>5. Registered(p, line)'
  <2>1. \A t \in Tasks : at[t][p] = "settled" => at'[t][p] = "settled"
    OBVIOUS
  <2> QED BY <1>1, <2>1 DEF InLine, Registered
<1>6. \A t \in Tasks : at'[t][p] \in {"queued", "held"} => at[t][p] \in {"queued", "held"}
  OBVIOUS
<1>7. \A t \in Tasks : at'[t][p] \in {"queued", "held"} => \E i \in 1..Len(line) : line[i] = t
  BY <1>1, <1>6 DEF InLine
<1>8. InLine(p, line)'
  BY <1>1, <1>4, <1>5, <1>7 DEF InLine, NoTwice
<1> QED BY <1>8 DEF LineUp

\* A task that asks for the key stands last.
LEMMA LineLonger ==
  ASSUME NEW p \in Paths, NEW t \in Tasks, LineUp(p), at[t][p] = "none",
         tail'[p] = <<t, p>>, before'[t][p] = Pending(p), at'[t][p] = "queued",
         \A s \in Tasks \ {t} : before'[s][p] = before[s][p] /\ at'[s][p] = at[s][p]
  PROVE  LineUp(p)'
<1>1. PICK line \in Seq(Tasks) : InLine(p, line)
  BY DEF LineUp
<1> DEFINE longer == Append(line, t)
<1>2. /\ longer \in Seq(Tasks) /\ Len(longer) = Len(line) + 1 /\ Len(line) \in Nat
      /\ \A i \in 1..Len(line) : longer[i] = line[i] /\ line[i] \in Tasks
      /\ longer[Len(line) + 1] = t
  BY <1>1
<1>3. \A i \in 1..Len(line) : line[i] # t
  BY <1>1, <1>2 DEF InLine, Stands
<1>4. Pending(p) = IF line = <<>> THEN NoLink ELSE <<line[Len(line)], p>>
  <2>1. CASE line = <<>>
    <3>1. tail[p] = NoLink \/ \E u \in Tasks : tail[p] = <<u, p>> /\ at[u][p] = "settled"
      BY <1>1, <2>1 DEF InLine, Registered
    <3> QED BY <2>1, <3>1 DEF Pending
  <2>2. CASE line # <<>>
    <3>1. Len(line) \in 1..Len(line)
      BY <1>1, <2>2
    <3>2. tail[p] = <<line[Len(line)], p>> /\ line[Len(line)] \in Tasks
      BY <1>1, <1>2, <2>2, <3>1 DEF InLine, Registered
    <3>3. at[line[Len(line)]][p] # "settled"
      BY <1>1, <3>1 DEF InLine, Stands
    <3>4. tail[p] # NoLink /\ tail[p][1] = line[Len(line)]
      BY <3>2, LinksDiffer
    <3> QED BY <2>2, <3>2, <3>3, <3>4 DEF Pending
  <2> QED BY <2>1, <2>2
<1>5. line = <<>> <=> Len(line) = 0
  BY <1>1
<1> HIDE DEF longer
<1>6. \A s \in Tasks : at'[s][p] \in {"queued", "held"} => \E i \in 1..Len(longer) : longer[i] = s
  <2>1. Len(longer) \in 1..Len(longer) /\ 1..Len(line) \subseteq 1..Len(longer)
    BY <1>2
  <2> QED BY <1>1, <1>2, <2>1 DEF InLine
<1>7. NoTwice(longer)
  BY <1>1, <1>2, <1>3 DEF InLine, NoTwice
<1>8. ASSUME NEW i \in 1..Len(longer)
      PROVE  Stands(p, longer, i)'
  <2>1. CASE i = Len(line) + 1
    <3>1. longer[i] = t /\ at'[t][p] = "queued" /\ before'[t][p] = Pending(p)
      BY <1>2, <2>1
    <3>2. i = 1 => Pending(p) = NoLink
      BY <1>2, <1>4, <1>5, <2>1
    <3>3. i # 1 => Pending(p) = <<longer[i - 1], p>>
      BY <1>2, <1>4, <1>5, <2>1
    <3> QED BY <3>1, <3>2, <3>3 DEF Stands
  <2>2. CASE i \in 1..Len(line)
    <3>1. longer[i] = line[i] /\ line[i] \in Tasks \ {t}
      BY <1>2, <1>3, <2>2
    <3>2. i # 1 => longer[i - 1] = line[i - 1]
      BY <1>2, <2>2
    <3>3. Stands(p, line, i)
      BY <1>1, <2>2 DEF InLine
    <3> QED BY <3>1, <3>2, <3>3 DEF Stands
  <2> QED BY <1>2, <2>1, <2>2
<1>9. Registered(p, longer)'
  BY <1>2 DEF Registered
<1>10. InLine(p, longer)'
  BY <1>6, <1>7, <1>8, <1>9 DEF InLine, NoTwice
<1> QED BY <1>2, <1>10 DEF LineUp

\* The first of the line settles.
LEMMA LineShorter ==
  ASSUME NEW p \in Paths, NEW t \in Tasks, LineUp(p), at[t][p] = "held", at'[t][p] = "settled",
         tail'[p] = tail[p], \A s \in Tasks \ {t} : at'[s][p] = at[s][p],
         \A s \in Tasks : before'[s][p] = IF before[s][p] = <<t, p>> THEN NoLink ELSE before[s][p]
  PROVE  LineUp(p)'
<1>1. PICK line \in Seq(Tasks) : InLine(p, line)
  BY DEF LineUp
<1>2. PICK n \in 1..Len(line) : line[n] = t
  BY <1>1 DEF InLine
<1>3. n = 1 /\ line[1] = t /\ line # <<>>
  BY <1>1, <1>2 DEF InLine, Stands
<1> DEFINE shorter == Tail(line)
<1>4. /\ shorter \in Seq(Tasks) /\ Len(line) \in Nat /\ Len(line) >= 1 /\ Len(shorter) = Len(line) - 1
      /\ \A i \in 1..Len(shorter) : shorter[i] = line[i + 1] /\ i + 1 \in 1..Len(line)
      /\ \A i \in 1..Len(line) : line[i] \in Tasks
  BY <1>1, <1>3
<1> HIDE DEF shorter
<1>5. shorter = <<>> <=> Len(shorter) = 0
  BY <1>4
<1>6. \A i \in 1..Len(shorter) : shorter[i] \in Tasks \ {t}
  <2>1. \A i \in 1..Len(line) : line[i] = line[1] => i = 1
    BY <1>1, <1>4 DEF InLine, NoTwice
  <2> TAKE i \in 1..Len(shorter)
  <2>2. shorter[i] = line[i + 1] /\ i + 1 \in 1..Len(line) /\ line[i + 1] \in Tasks /\ i + 1 # 1
    BY <1>4
  <2>3. line[i + 1] # line[1]
    BY <2>1, <2>2
  <2> QED BY <1>3, <2>2, <2>3
<1>7. ASSUME NEW s \in Tasks, at'[s][p] \in {"queued", "held"} PROVE \E i \in 1..Len(shorter) : shorter[i] = s
  <2>1. s # t
    BY <1>7
  <2>2. PICK i \in 1..Len(line) : line[i] = s
    BY <1>1, <1>7, <2>1 DEF InLine
  <2>3. i # 1 /\ i - 1 \in 1..Len(shorter)
    BY <1>3, <1>4, <2>1, <2>2
  <2>4. shorter[i - 1] = line[i - 1 + 1]
    BY <1>4, <2>3
  <2> QED BY <2>2, <2>3, <2>4
<1>8. NoTwice(shorter)
  <2> SUFFICES ASSUME NEW i \in 1..Len(shorter), NEW j \in 1..Len(shorter), shorter[i] = shorter[j]
               PROVE  i = j
    BY DEF NoTwice
  <2>1. line[i + 1] = line[j + 1] /\ i + 1 \in 1..Len(line) /\ j + 1 \in 1..Len(line)
    BY <1>4
  <2>2. i + 1 = j + 1
    BY <1>1, <2>1 DEF InLine, NoTwice
  <2> QED BY <2>2
<1>9. ASSUME NEW i \in 1..Len(shorter) PROVE Stands(p, shorter, i)'
  <2>1. shorter[i] = line[i + 1] /\ i + 1 \in 1..Len(line) /\ shorter[i] \in Tasks \ {t} /\ i + 1 # 1
    BY <1>4, <1>6
  <2>2. Stands(p, line, i + 1) /\ i + 1 - 1 = i /\ i \in 1..Len(line)
    BY <1>1, <1>4, <2>1 DEF InLine
  <2>3. /\ at[shorter[i]][p] \in {"queued", "held"} /\ at[shorter[i]][p] # "held"
        /\ before[shorter[i]][p] = <<line[i], p>>
    BY <2>1, <2>2 DEF Stands
  <2>4. i = 1 <=> line[i] = t
    BY <1>1, <1>2, <1>3, <2>2 DEF InLine, NoTwice
  <2>5. i # 1 => shorter[i - 1] = line[i]
    <3>1. i # 1 => i - 1 \in 1..Len(shorter) /\ i - 1 + 1 = i
      BY <1>4
    <3> QED BY <1>4, <3>1
  <2>6. before'[shorter[i]][p] = IF line[i] = t THEN NoLink ELSE <<line[i], p>>
    <3>1. <<line[i], p>> = <<t, p>> <=> line[i] = t
      OBVIOUS
    <3>2. before'[shorter[i]][p] = IF before[shorter[i]][p] = <<t, p>> THEN NoLink ELSE before[shorter[i]][p]
      BY <2>1
    <3> QED BY <2>3, <3>1, <3>2
  <2>7. at'[shorter[i]][p] = at[shorter[i]][p]
    BY <2>1
  <2> QED BY <2>3, <2>4, <2>5, <2>6, <2>7 DEF Stands
<1>10. Registered(p, shorter)'
  <2>1. tail[p] = <<line[Len(line)], p>>
    BY <1>1, <1>3 DEF InLine, Registered
  <2>2. CASE shorter = <<>>
    <3>1. Len(line) = 1
      BY <1>4, <1>5, <2>2
    <3> QED BY <1>3, <2>1, <2>2, <3>1 DEF Registered
  <2>3. CASE shorter # <<>>
    <3>1. Len(shorter) \in 1..Len(shorter)
      BY <1>4, <1>5, <2>3
    <3>2. shorter[Len(shorter)] = line[Len(line)]
      BY <1>4, <3>1
    <3> QED BY <2>1, <2>3, <3>2 DEF Registered
  <2> QED BY <2>2, <2>3
<1>11. InLine(p, shorter)'
  BY <1>7, <1>8, <1>9, <1>10 DEF InLine, NoTwice
<1> QED BY <1>4, <1>11 DEF LineUp

\* The registry forgets a key whose line is empty.
LEMMA LineForgotten ==
  ASSUME NEW p \in Paths, NEW t \in Tasks, LineUp(p), at[t][p] = "settled", at'[t][p] = "none",
         \A s \in Tasks \ {t} : at'[s][p] = at[s][p], \A s \in Tasks : before'[s][p] = before[s][p],
         tail'[p] = IF tail[p] = <<t, p>> THEN NoLink ELSE tail[p]
  PROVE  LineUp(p)'
<1>1. PICK line \in Seq(Tasks) : InLine(p, line)
  BY DEF LineUp
<1>2. ASSUME NEW i \in 1..Len(line) PROVE line[i] \in Tasks \ {t} /\ Stands(p, line, i)
  BY <1>1, <1>2 DEF InLine, Stands
<1>3. line # <<>> => tail[p] # <<t, p>>
  <2>1. line # <<>> => Len(line) \in 1..Len(line)
    BY <1>1
  <2> QED BY <1>1, <1>2, <2>1 DEF InLine, Registered
<1>4. Registered(p, line)'
  <2>1. line # <<>> => tail'[p] = <<line[Len(line)], p>>
    BY <1>1, <1>3 DEF InLine, Registered
  <2>2. ASSUME line = <<>>, tail'[p] # NoLink
        PROVE  \E u \in Tasks : tail'[p] = <<u, p>> /\ at'[u][p] = "settled"
    <3>1. PICK u \in Tasks : tail[p] = <<u, p>> /\ at[u][p] = "settled"
      BY <1>1, <2>2 DEF InLine, Registered
    <3>2. u # t /\ tail'[p] = tail[p]
      BY <2>2, <3>1
    <3> QED BY <3>1, <3>2
  <2> QED BY <2>1, <2>2 DEF Registered
<1>5. \A i \in 1..Len(line) : Stands(p, line, i)'
  BY <1>2 DEF Stands
<1>6. \A s \in Tasks : at'[s][p] \in {"queued", "held"} => \E i \in 1..Len(line) : line[i] = s
  BY <1>1 DEF InLine
<1>7. InLine(p, line)'
  BY <1>1, <1>4, <1>5, <1>6 DEF InLine, NoTwice
<1> QED BY <1>7 DEF LineUp

\* No task has two keys in hand of which one waits and the other has settled, so one
\* that holds its last key holds all of them.
LEMMA LockStep == LockInv /\ [LockNext]_lockVars => LockInv'
<1> SUFFICES ASSUME LockInv, [LockNext]_lockVars PROVE LockInv'
  OBVIOUS
<1>1. /\ LockTypeOK /\ TakesInOrder /\ \A p \in Paths : LineUp(p)
      /\ at \in [Tasks -> [Paths -> {"none", "queued", "held", "settled"}]]
      /\ before \in [Tasks -> [Paths -> Link \cup {NoLink}]]
      /\ tail \in [Paths -> Link \cup {NoLink}] /\ body \subseteq Tasks
  BY DEF LockInv, LockTypeOK
<1>2. CASE UNCHANGED lockVars
  <2>1. LockTypeOK' /\ TakesInOrder'
    BY <1>1, <1>2 DEF lockVars, LockTypeOK, TakesInOrder
  <2>2. \A p \in Paths : LineUp(p)'
    BY <1>1, <1>2, LineKept DEF lockVars
  <2> QED BY <2>1, <2>2 DEF LockInv
<1>3. \A p \in Paths : Pending(p) \in Link \cup {NoLink}
  BY <1>1 DEF Pending
<1>4. ASSUME NEW t \in Tasks, Call(t) PROVE LockInv'
  <2>1. PICK p \in First(t, Keys(t)) : Enqueued(t, p, at[t])
    BY <1>4 DEF Call
  <2>2. p \in Keys(t) /\ p \in Paths /\ \A r \in Keys(t) \ {p} : p < r
    BY <2>1, KeysArePaths DEF First, Precedes
  <2>3. \A r \in Paths : at[t][r] = "none"
    BY <1>4 DEF Call, Idle
  <2>4. /\ tail' = [tail EXCEPT ![p] = <<t, p>>] /\ before' = [before EXCEPT ![t][p] = Pending(p)]
        /\ at' = [at EXCEPT ![t] = [at[t] EXCEPT ![p] = "queued"]] /\ body' = body
    BY <1>4, <2>1 DEF Call, Enqueued
  <2>5. LockTypeOK'
    BY <1>1, <1>3, <2>2, <2>4 DEF LockTypeOK, Link
  <2>6. /\ at'[t][p] = "queued" /\ \A r \in Paths \ {p} : at'[t][r] = "none"
        /\ \A s \in Tasks \ {t} : at'[s] = at[s]
    BY <1>1, <2>2, <2>3, <2>4
  <2>7. TakesInOrder'
    <3>1. t \notin body
      BY <1>1, <2>2, <2>3 DEF TakesInOrder
    <3>2. \A r \in Keys(t) : r \in Paths /\ ~(r < p)
      BY <2>2, KeysArePaths
    <3> QED BY <1>1, <2>2, <2>4, <2>6, <3>1, <3>2 DEF TakesInOrder
  <2>8. LineUp(p)'
    BY <1>1, <2>2, <2>3, <2>4, <2>6, LineLonger
  <2>9. ASSUME NEW r \in Paths \ {p} PROVE LineUp(r)'
    <3>1. tail'[r] = tail[r] /\ \A s \in Tasks : before'[s][r] = before[s][r] /\ at'[s][r] = at[s][r]
      BY <1>1, <2>2, <2>3, <2>4, <2>6
    <3> QED BY <1>1, <3>1, LineKept
  <2> QED BY <2>5, <2>7, <2>8, <2>9 DEF LockInv
<1>5. ASSUME NEW t \in Tasks, NEW p \in Keys(t), Enter(t, p) PROVE LockInv'
  <2> DEFINE held == [at[t] EXCEPT ![p] = "held"]
  <2>1. p \in Paths /\ at[t][p] = "queued" /\ before[t][p] = NoLink
    BY <1>5, KeysArePaths DEF Enter
  <2>2. /\ held \in [Paths -> {"none", "queued", "held", "settled"}] /\ held[p] = "held"
        /\ \A r \in Paths \ {p} : held[r] = at[t][r]
    BY <1>1, <2>1
  <2>3. /\ \A r \in Keys(t) : (r < p => at[t][r] = "held") /\ (p < r => at[t][r] = "none")
        /\ t \notin body
    BY <1>1, <2>1 DEF TakesInOrder
  <2>4. \A r \in Keys(t) : r \in Paths /\ r \in Nat /\ p \in Nat
    BY <2>1, KeysArePaths
  <2>5. ASSUME NEW q \in First(t, Rest(t, p)), Enqueued(t, q, held), body' = body PROVE LockInv'
    <3>1. /\ q \in Keys(t) /\ q \in Paths /\ p < q
          /\ \A r \in Keys(t) : p < r /\ r # q => q < r
      BY <2>4 DEF First, Rest, Precedes
    <3>2. /\ tail' = [tail EXCEPT ![q] = <<t, q>>] /\ before' = [before EXCEPT ![t][q] = Pending(q)]
          /\ at' = [at EXCEPT ![t] = [held EXCEPT ![q] = "queued"]]
      BY <2>5 DEF Enqueued
    <3> HIDE DEF held
    <3>3. LockTypeOK'
      BY <1>1, <1>3, <2>2, <2>5, <3>1, <3>2 DEF LockTypeOK, Link
    <3>4. /\ p # q /\ at[t][q] = "none" /\ at'[t][q] = "queued" /\ at'[t][p] = "held"
          /\ \A r \in Paths \ {p, q} : at'[t][r] = at[t][r]
          /\ \A s \in Tasks \ {t} : at'[s] = at[s]
      BY <1>1, <2>1, <2>2, <2>3, <2>4, <3>1, <3>2
    <3>5. TakesInOrder'
      <4>1. \A r \in Paths : at'[t][r] = "queued" => r = q
        <5>1. \A r \in Paths : at[t][r] = "queued" => r = p
          <6> SUFFICES ASSUME NEW r \in Paths, at[t][r] = "queued" PROVE r = p
            OBVIOUS
          <6>1. r \in Keys(t)
            BY <1>1 DEF TakesInOrder
          <6> QED BY <2>3, <2>4, <6>1
        <5> QED BY <3>4, <5>1
      <4>2. \A r \in Keys(t) : (r < q => at'[t][r] = "held") /\ (q < r => at'[t][r] = "none")
        <5>1. ASSUME NEW r \in Keys(t), r < q PROVE at'[t][r] = "held"
          BY <2>3, <2>4, <3>1, <3>4, <5>1
        <5>2. ASSUME NEW r \in Keys(t), q < r PROVE at'[t][r] = "none"
          BY <2>3, <2>4, <3>1, <3>4, <5>2
        <5> QED BY <5>1, <5>2
      <4> QED BY <1>1, <2>3, <2>5, <3>1, <3>4, <4>1, <4>2 DEF TakesInOrder
    <3>6. LineUp(q)'
      <4>1. tail'[q] = <<t, q>> /\ before'[t][q] = Pending(q)
            /\ \A s \in Tasks \ {t} : before'[s][q] = before[s][q]
        BY <1>1, <3>1, <3>2
      <4> QED BY <1>1, <3>1, <3>4, <4>1, LineLonger
    <3>7. LineUp(p)'
      <4>1. tail'[p] = tail[p] /\ \A s \in Tasks : before'[s][p] = before[s][p]
        BY <1>1, <2>1, <3>1, <3>2, <3>4
      <4> QED BY <1>1, <2>1, <3>4, <4>1, LineKept
    <3>8. ASSUME NEW r \in Paths \ {p, q} PROVE LineUp(r)'
      <4>1. tail'[r] = tail[r] /\ \A s \in Tasks : before'[s][r] = before[s][r] /\ at'[s][r] = at[s][r]
        BY <1>1, <3>1, <3>2, <3>4
      <4> QED BY <1>1, <4>1, LineKept
    <3> QED BY <3>3, <3>5, <3>6, <3>7, <3>8 DEF LockInv
  <2>6. CASE /\ Rest(t, p) = {} /\ at' = [at EXCEPT ![t] = held] /\ body' = body \cup {t}
             /\ UNCHANGED <<tail, before>>
    <3> HIDE DEF held
    <3>1. LockTypeOK'
      BY <1>1, <2>2, <2>6 DEF LockTypeOK
    <3>2. /\ at'[t][p] = "held" /\ \A r \in Paths \ {p} : at'[t][r] = at[t][r]
          /\ \A s \in Tasks \ {t} : at'[s] = at[s]
      BY <1>1, <2>2, <2>6
    <3>3. TakesInOrder'
      <4>1. \A r \in Keys(t) : at'[t][r] = "held"
        <5>1. \A r \in Keys(t) : r = p \/ r < p
          BY <2>4, <2>6 DEF Rest, Precedes
        <5> QED BY <2>3, <2>4, <3>2, <5>1
      <4>2. \A r \in Paths : at'[t][r] # "queued"
        <5>1. \A r \in Paths : at[t][r] = "queued" => r \in Keys(t)
          BY <1>1 DEF TakesInOrder
        <5> QED BY <3>2, <4>1, <5>1
      <4> QED BY <1>1, <2>6, <3>2, <4>1, <4>2 DEF TakesInOrder
    <3>4. ASSUME NEW r \in Paths PROVE LineUp(r)'
      BY <1>1, <2>1, <2>6, <3>2, LineKept
    <3> QED BY <3>1, <3>3, <3>4 DEF LockInv
  <2> QED BY <1>5, <2>5, <2>6 DEF Enter
<1>6. ASSUME NEW t \in Tasks, NEW p \in Keys(t), Settle(t, p) PROVE LockInv'
  <2>1. /\ p \in Paths /\ at[t][p] = "held" /\ body' = body \ {t} /\ tail' = tail
        /\ at' = [at EXCEPT ![t][p] = "settled"]
        /\ \A r \in Keys(t) : p < r => at[t][r] \in {"settled", "none"}
        /\ before' = [s \in Tasks |-> IF before[s][p] = <<t, p>>
                                      THEN [before[s] EXCEPT ![p] = NoLink] ELSE before[s]]
    BY <1>6, KeysArePaths DEF Settle, Rest, Precedes
  <2>2. /\ at'[t][p] = "settled" /\ \A r \in Paths \ {p} : at'[t][r] = at[t][r]
        /\ \A s \in Tasks \ {t} : at'[s] = at[s]
    BY <1>1, <2>1
  <2>3. ASSUME NEW s \in Tasks
        PROVE  /\ before'[s] \in [Paths -> Link \cup {NoLink}]
               /\ before'[s][p] = IF before[s][p] = <<t, p>> THEN NoLink ELSE before[s][p]
               /\ \A r \in Paths \ {p} : before'[s][r] = before[s][r]
    BY <1>1, <2>1
  <2>4. LockTypeOK'
    <3>1. before' \in [Tasks -> [Paths -> Link \cup {NoLink}]]
      BY <2>1, <2>3
    <3> QED BY <1>1, <2>1, <3>1 DEF LockTypeOK
  <2>5. \A r \in Paths : at[t][r] # "queued"
    <3> SUFFICES ASSUME NEW r \in Paths, at[t][r] = "queued" PROVE FALSE
      OBVIOUS
    <3>1. r \in Keys(t) /\ (r < p => at[t][p] = "none") /\ r \in Nat /\ p \in Nat
      BY <1>1, KeysArePaths DEF TakesInOrder
    <3>2. p < r => FALSE
      BY <2>1, <3>1
    <3> QED BY <2>1, <3>1, <3>2
  <2>6. TakesInOrder'
    BY <1>1, <2>1, <2>2, <2>5 DEF TakesInOrder
  <2>7. LineUp(p)'
    BY <1>1, <2>1, <2>2, <2>3, LineShorter
  <2>8. ASSUME NEW r \in Paths \ {p} PROVE LineUp(r)'
    BY <1>1, <2>1, <2>2, <2>3, LineKept
  <2> QED BY <2>4, <2>6, <2>7, <2>8 DEF LockInv
<1>7. ASSUME NEW t \in Tasks, NEW p \in Keys(t), Forget(t, p) PROVE LockInv'
  <2>1. /\ p \in Paths /\ at[t][p] = "settled" /\ tail' = Drained(t, p) /\ body' = body
        /\ at' = [at EXCEPT ![t][p] = "none"] /\ before' = before
    BY <1>7, KeysArePaths DEF Forget
  <2>2. /\ at'[t][p] = "none" /\ \A r \in Paths \ {p} : at'[t][r] = at[t][r]
        /\ \A s \in Tasks \ {t} : at'[s] = at[s]
    BY <1>1, <2>1
  <2>3. /\ tail' \in [Paths -> Link \cup {NoLink}]
        /\ tail'[p] = IF tail[p] = <<t, p>> THEN NoLink ELSE tail[p]
        /\ \A r \in Paths \ {p} : tail'[r] = tail[r]
    BY <1>1, <2>1 DEF Drained
  <2>4. LockTypeOK'
    BY <1>1, <2>1, <2>3 DEF LockTypeOK
  <2>5. t \notin body /\ \A r \in Keys(t) : r \in Paths /\ r \in Nat /\ p \in Nat
    BY <1>1, <2>1, KeysArePaths DEF TakesInOrder
  <2>6. \A r \in Paths : at[t][r] # "queued"
    <3> SUFFICES ASSUME NEW r \in Paths, at[t][r] = "queued" PROVE FALSE
      OBVIOUS
    <3>1. r \in Keys(t) /\ (p < r => at[t][p] = "held") /\ (r < p => at[t][p] = "none")
      BY <1>1 DEF TakesInOrder
    <3> QED BY <2>1, <2>5, <3>1
  <2>7. TakesInOrder'
    BY <1>1, <2>1, <2>2, <2>5, <2>6 DEF TakesInOrder
  <2>8. LineUp(p)'
    BY <1>1, <2>1, <2>2, <2>3, LineForgotten
  <2>9. ASSUME NEW r \in Paths \ {p} PROVE LineUp(r)'
    BY <1>1, <2>1, <2>2, <2>3, LineKept
  <2> QED BY <2>4, <2>7, <2>8, <2>9 DEF LockInv
<1> QED BY <1>2, <1>4, <1>5, <1>6, <1>7 DEF LockNext, Progress

\* Two bodies that run at once have no key in common, for any tasks and any keys,
\* although the registry forgets the keys whose line is empty.
THEOREM LockCorrect == LockSpec => []FilesExclusive
<1>1. LockInv => FilesExclusive
  <2> SUFFICES ASSUME LockInv, NEW s \in body, NEW t \in body, NEW p \in Keys(s), p \in Keys(t)
               PROVE  s = t
    BY DEF FilesExclusive
  <2>1. s \in Tasks /\ t \in Tasks /\ p \in Paths /\ LineUp(p)
    BY KeysArePaths DEF LockInv, LockTypeOK
  <2>2. at[s][p] = "held" /\ at[t][p] = "held"
    BY <2>1 DEF LockInv, TakesInOrder
  <2>3. PICK line \in Seq(Tasks) : InLine(p, line)
    BY <2>1 DEF LineUp
  <2>4. \E i \in 1..Len(line) : line[i] = s /\ i = 1
    BY <2>1, <2>2, <2>3 DEF InLine, Stands
  <2>5. \E i \in 1..Len(line) : line[i] = t /\ i = 1
    BY <2>1, <2>2, <2>3 DEF InLine, Stands
  <2> QED BY <2>4, <2>5
<1> QED BY <1>1, LockInitInv, LockStep, PTL DEF LockSpec
============================================================================
