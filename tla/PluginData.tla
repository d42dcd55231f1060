----------------------------- MODULE PluginData -----------------------------
(***************************************************************************)
(* data.json of the plugin and the one queue over it                       *)
(* (runtime/plugin-data-mutex.ts).  Every store keeps its state under a    *)
(* top-level key of the one file.  A direct store (the sync state, the     *)
(* owner connection) changes its key in one queued update; a split store   *)
(* (the onboarding state, the roster) loads through its port, changes its  *)
(* key in what it got and saves that, as two queued calls.                 *)
(*                                                                         *)
(* The value of a key is the number of its version.                        *)
(***************************************************************************)
EXTENDS Naturals, Sequences

CONSTANTS
    Direct, Split,   \* the stores, each with a key of its own
    MaxSaves,        \* bound: versions of one key
    MaxOutside,      \* bound: changes of the file by something else
    NoData

Store == Direct \cup Split
Data == [Store -> Nat]

ASSUME DataAssumption ==
    NoData \notin Data /\ Direct \cap Split = {} /\ MaxOutside \in Nat

VARIABLES
    disk,      \* data.json
    cache,     \* the blob as the queue last read or wrote it, or NoData
    queue,     \* the stores whose calls wait; the head's call runs
    writing,   \* the blob the head is about to write, or NoData
    call,      \* [Store -> "none", "load", "loaded" or "save"]
    loaded,    \* [Split -> Data]: what a port's own load returned last
    made,      \* [Store -> Nat]: the versions of a key that were ever made
    fresh,     \* [Store -> Nat]: the version a store is saving
    standing,  \* [Store -> SUBSET Nat]: the versions of a key that may stand
    stale,     \* the file changed and Obsidian has not said so yet
    outside    \* changes made by something else

dataVars == <<disk, cache, queue, writing, call, loaded, made, fresh, standing, stale, outside>>

DataTypeOK ==
    /\ disk \in Data /\ cache \in Data \cup {NoData} /\ writing \in Data \cup {NoData}
    /\ queue \in Seq(Store)
    /\ call \in [Store -> {"none", "load", "loaded", "save"}]
    /\ loaded \in [Split -> Data]
    /\ {made, fresh} \subseteq [Store -> Nat] /\ standing \in [Store -> SUBSET Nat]
    /\ stale \in BOOLEAN /\ outside \in 0..MaxOutside

Untouched == [k \in Store |-> 0]

DataInit ==
    /\ disk = Untouched /\ cache = NoData /\ queue = <<>> /\ writing = NoData
    /\ call = [k \in Store |-> "none"] /\ loaded = [k \in Split |-> Untouched]
    /\ made = Untouched /\ fresh = Untouched /\ standing = [k \in Store |-> {0}]
    /\ stale = FALSE /\ outside = 0

Enqueue(k, c) ==
    /\ queue' = Append(queue, k)
    /\ call' = [call EXCEPT ![k] = c]

\* A new version of a key is made.
Make(k) ==
    /\ made[k] < MaxSaves
    /\ made' = [made EXCEPT ![k] = @ + 1]

\* A store queues the save of a new version.
Save(k) ==
    /\ Make(k) /\ Enqueue(k, "save")
    /\ fresh' = [fresh EXCEPT ![k] = made[k] + 1]

\* update, of a direct store
Update(k) ==
    /\ k \in Direct /\ call[k] = "none"
    /\ Save(k)
    /\ UNCHANGED <<disk, cache, writing, loaded, standing, stale, outside>>

\* load, of a port: the first half of a change (PluginDataOnboardingStore.mutate,
\* RosterStore.recordMember and replaceMembers), or a read
LoadPort(k) ==
    /\ k \in Split /\ call[k] = "none"
    /\ Enqueue(k, "load")
    /\ UNCHANGED <<disk, cache, writing, loaded, made, fresh, standing, stale, outside>>

\* save, of a port, with the loaded blob and the store's new version in it
SavePort(k) ==
    /\ k \in Split /\ call[k] = "loaded"
    /\ \/ Save(k)
       \/ call' = [call EXCEPT ![k] = "none"] /\ UNCHANGED <<made, fresh, queue>>
    /\ UNCHANGED <<disk, cache, writing, loaded, standing, stale, outside>>

Head1 == Head(queue)
Idle1 == writing = NoData /\ queue # <<>>

\* current(): the file is read only when no copy of it is kept.
Read ==
    /\ Idle1 /\ cache = NoData
    /\ cache' = disk
    /\ UNCHANGED <<disk, queue, writing, call, loaded, made, fresh, standing, stale, outside>>

\* A load gets a copy of the blob.
Loaded ==
    /\ Idle1 /\ cache # NoData /\ call[Head1] = "load"
    /\ loaded' = [loaded EXCEPT ![Head1] = cache]
    /\ call' = [call EXCEPT ![Head1] = "loaded"]
    /\ queue' = Tail(queue)
    /\ UNCHANGED <<disk, cache, writing, made, fresh, standing, stale, outside>>

\* Faulty variant: a port saves the whole blob it loaded.
PutBack(k, base) ==
    IF k \in Direct THEN [base EXCEPT ![k] = fresh[k]] ELSE [loaded[k] EXCEPT ![k] = fresh[k]]

\* The mutator: the store's own version over the latest blob; of a port, only the
\* keys whose value is not the one it loaded.
Mutated(k, base) ==
    IF k \in Direct THEN [base EXCEPT ![k] = fresh[k]]
    ELSE LET data == [loaded[k] EXCEPT ![k] = fresh[k]]
         IN  [j \in Store |-> IF data[j] # loaded[k][j] THEN data[j] ELSE base[j]]

Mutate ==
    /\ Idle1 /\ cache # NoData /\ call[Head1] = "save"
    /\ writing' = Mutated(Head1, cache)
    /\ UNCHANGED <<disk, cache, queue, call, loaded, made, fresh, standing, stale, outside>>

\* The head's call ends, with or without an error, and the next one starts.
Ended ==
    /\ writing' = NoData
    /\ call' = [call EXCEPT ![Head1] = "none"]
    /\ queue' = Tail(queue)

\* saveData: the file, then the copy
Write ==
    /\ writing # NoData
    /\ disk' = writing /\ cache' = writing
    /\ standing' = [standing EXCEPT ![Head1] = {fresh[Head1]}]
    /\ Ended
    /\ UNCHANGED <<loaded, made, fresh, stale, outside>>

WriteFails ==
    /\ writing # NoData
    /\ Ended
    /\ UNCHANGED <<disk, cache, loaded, made, fresh, standing, stale, outside>>

\* Another program, or the user, changes one key of the file ...
Outside(k) ==
    /\ outside < MaxOutside /\ outside' = outside + 1
    /\ Make(k)
    /\ disk' = [disk EXCEPT ![k] = made[k] + 1]
    /\ standing' = [standing EXCEPT ![k] = @ \cup {made[k] + 1}]
    /\ stale' = TRUE
    /\ UNCHANGED <<cache, queue, writing, call, loaded, fresh>>

\* ... and Obsidian tells the plugin: onExternalSettingsChange.
Invalidate ==
    /\ stale
    /\ stale' = FALSE /\ cache' = NoData
    /\ UNCHANGED <<disk, queue, writing, call, loaded, made, fresh, standing, outside>>

\* The application is closed and started again.
Reload ==
    /\ queue # <<>> \/ \E k \in Store : call[k] # "none"
    /\ cache' = NoData /\ queue' = <<>> /\ writing' = NoData /\ stale' = FALSE
    /\ call' = [k \in Store |-> "none"] /\ loaded' = [k \in Split |-> Untouched]
    /\ UNCHANGED <<disk, made, fresh, standing, outside>>

HeadRuns == Read \/ Loaded \/ Mutate \/ Write \/ WriteFails

DataNext ==
    \/ \E k \in Store : Update(k) \/ LoadPort(k) \/ SavePort(k) \/ Outside(k)
    \/ HeadRuns \/ Invalidate \/ Reload

DataSpec == DataInit /\ [][DataNext]_dataVars

\* A read and a write of the file end, and a store goes on with what it loaded.
DataFairness == WF_dataVars(HeadRuns) /\ \A k \in Split : WF_dataVars(SavePort(k))

-----------------------------------------------------------------------------
(* Properties.                                                             *)

(***************************************************************************)
(* A save to one key never overwrites a concurrent save to another         *)
(* (plugin-data-mutex.ts:11): what the file holds under a key is what its  *)
(* store saved last, or what something outside the plugin wrote since,     *)
(* although a port saves a blob it loaded earlier and the queue writes     *)
(* from a copy in memory.                                                  *)
(***************************************************************************)
KeysKept == \A k \in Store : disk[k] \in standing[k]

(***************************************************************************)
(* Every queued call ends: a save that fails never skips or wedges the     *)
(* next one (enqueue).                                                     *)
(***************************************************************************)
SavesEnd == \A k \in Store : call[k] # "none" ~> call[k] = "none"
=============================================================================
