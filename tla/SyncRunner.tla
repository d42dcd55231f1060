----------------------------- MODULE SyncRunner -----------------------------
(***************************************************************************)
(* A device's sync loop: SyncRunner's push and pull over the durable state *)
(* in data.json, and the controller that triggers it.                      *)
(*                                                                         *)
(* Every step runs from one await to the next, so a local commit, another  *)
(* trigger, stop() or the death of the process may come between any two.   *)
(* Each connection builds its own DurableSyncState, whose cache is written *)
(* back as a whole.  The server's answers follow what RevisionRepository   *)
(* decides, and what applyRemote does to the files is left to it: here it  *)
(* applies, writes a conflict copy, defers or throws.                      *)
(***************************************************************************)
EXTENDS Integers, Sequences, FiniteSets, SequencesExt

CONSTANTS
    Edits,           \* revisions this device may commit
    Peers,           \* revisions of the other devices
    Parents,         \* Parents[e]: the parents of a local revision
    Bytes,           \* Bytes[e]: the size of its payload
    Poison,          \* edits that the server rejects for good
    Oversized,       \* edits that make the server refuse a whole request
    Twins,           \* Twins[p]: local merges that p makes redundant
    Broken,          \* peers' revisions this device can never apply
    OutOfScope,      \* those whose failure is a PermanentApplyError
    MaxItems, MaxBytes,  \* the budgets of one push request
    PageSize,        \* events in one answer to a pull
    MaxApplyAttempts,
    MaxAuthored,     \* accepted revisions a device remembers as its own
    MaxConnections,  \* connections built one after another
    MaxFaults,       \* bound on lost messages, failed writes and the like
    MaxCrashes,      \* bound on restarts of the client
    MaxRequeues      \* bound on the user's retries of dead-lettered edits

Revisions == Edits \cup Peers

ASSUME RunnerAssumption ==
    /\ Edits \cap Peers = {}
    /\ Parents \in [Edits -> SUBSET Revisions] /\ Bytes \in [Edits -> Nat]
    /\ Poison \subseteq Edits /\ Oversized \subseteq Edits
    /\ Twins \in [Peers -> SUBSET Edits]
    /\ Broken \cup OutOfScope \subseteq Peers
    /\ {MaxItems, PageSize, MaxApplyAttempts, MaxAuthored, MaxConnections} \subseteq Nat \ {0}
    /\ {MaxBytes, MaxFaults, MaxCrashes, MaxRequeues} \subseteq Nat

VARIABLES
    log,       \* the server's event log
    session,   \* whether the server still accepts the device's tokens
    disk,      \* data.json
    cache,     \* cache[c]: the state as connection c's DurableSyncState has it
    run,       \* run[c]: the runner and controller of connection c
    made,      \* history: the edits committed
    gone,      \* history: the edits the user discarded
    vault,     \* the peers' revisions that reached the files
    unsaved,   \* whether an editor holds unsaved text
    faults, crashes, requeues

budgets == <<faults, crashes, requeues>>
vars == <<log, session, disk, cache, run, made, gone, vault, unsaved, budgets>>

Connections == 1..MaxConnections

PC == {"off", "idle", "begin", "push", "sent", "results", "cascade",
       "pull", "pulling", "apply", "checked", "retire", "park", "save"}
Status == {"syncing", "synced", "conflict", "deferred", "retrying", "offline",
           "reconnect-required"}
Outcome == {"accepted", "permanent", "missing", "transient"}

StateType == [cursor : Nat, outbox : Seq(Edits), authored : Seq(Edits),
              quarantine : SUBSET Edits, parked : SUBSET Revisions]

RunType == [pc : PC, live : BOOLEAN, rerun : BOOLEAN, backoff : Nat,
            queue : Seq(Seq(Edits)), batch : Seq(Edits),
            results : Seq([id : Edits, outcome : Outcome]),
            pending : SUBSET Edits, accepted : SUBSET Edits, dead : SUBSET Edits,
            work : Seq(Edits), pushFailed : BOOLEAN,
            cursor : Nat, page : SUBSET Nat, outcome : {"synced", "conflict", "deferred"},
            tries : [Revisions -> Nat], status : Status, failures : 0..3,
            retried : SUBSET Revisions]

TypeOK ==
    /\ log \in Seq(Revisions) /\ session \in {"live", "dead"}
    /\ disk \in StateType /\ cache \in [Connections -> StateType]
    /\ run \in [Connections -> RunType]
    /\ made \subseteq Edits /\ gone \subseteq Edits /\ vault \subseteq Revisions
    /\ unsaved \in BOOLEAN
    /\ faults \in 0..MaxFaults /\ crashes \in 0..MaxCrashes /\ requeues \in 0..MaxRequeues

EmptyState == [cursor |-> 0, outbox |-> <<>>, authored |-> <<>>, quarantine |-> {}, parked |-> {}]

\* A runner as its constructor leaves it
NewRun(pc) ==
    [pc |-> pc, live |-> pc # "off", rerun |-> FALSE, backoff |-> 0,
     queue |-> <<>>, batch |-> <<>>, results |-> <<>>,
     pending |-> {}, accepted |-> {}, dead |-> {}, work |-> <<>>, pushFailed |-> FALSE,
     cursor |-> 0, page |-> {}, outcome |-> "synced",
     tries |-> [r \in Revisions |-> 0], status |-> "syncing", failures |-> 0, retried |-> {}]

\* The first connection starts with the plugin, and its schedule triggers at once.
Started == [c \in Connections |-> NewRun(IF c = 1 THEN "begin" ELSE "off")]

Init ==
    /\ log = <<>> /\ session = "live" /\ disk = EmptyState
    /\ cache = [c \in Connections |-> EmptyState]
    /\ run = Started
    /\ made = {} /\ gone = {} /\ vault = {} /\ unsaved = FALSE
    /\ faults = 0 /\ crashes = 0 /\ requeues = 0

-----------------------------------------------------------------------------
(* DurableSyncState: a change is made to the connection's cache and the    *)
(* whole of it written.                                                    *)

\* mutate
Save(c, s) == disk' = s /\ cache' = [cache EXCEPT ![c] = s]

\* The edits of a list that are among those wanted, in the order of the list
Among(list, wanted) ==
    LET kept[i \in 0..Len(list)] ==
          IF i = 0 THEN <<>>
          ELSE IF list[i] \in wanted THEN Append(kept[i - 1], list[i]) ELSE kept[i - 1]
    IN kept[Len(list)]

Without(outbox, gonePart) == Among(outbox, Edits \ gonePart)

Step(c, r) == run' = [run EXCEPT ![c] = r]

\* A step of the process that the server, the editor and the budgets do not see
Local == UNCHANGED <<log, session, made, gone, vault, unsaved, budgets>>

Fault == faults < MaxFaults /\ faults' = faults + 1 /\ UNCHANGED <<crashes, requeues>>

-----------------------------------------------------------------------------
(* The controller and the runner's loop.                                   *)

\* A trigger during a cycle asks for one more; an idle runner starts one.
Triggered(r) == IF r.pc = "idle" THEN [r EXCEPT !.pc = "begin"]
                ELSE [r EXCEPT !.rerun = TRUE]

\* syncNow, for the interval, focus, network and wake triggers
SyncNow(c) ==
    /\ run[c].pc # "off" /\ run[c].live
    /\ Step(c, [Triggered(run[c]) EXCEPT !.status = "syncing"])
    /\ Local /\ UNCHANGED <<disk, cache>>

BackoffFires(c) ==
    /\ run[c].live /\ run[c].backoff > 0
    /\ Step(c, [Triggered(run[c]) EXCEPT !.backoff = @ - 1])
    /\ Local /\ UNCHANGED <<disk, cache>>

\* observeCycle: a few failed cycles are retries, more of them an outage.
Observed(r, result) ==
    IF ~r.live THEN r
    ELSE IF result = "offline"
         THEN LET n == IF r.failures = 3 THEN 3 ELSE r.failures + 1 IN
              [r EXCEPT !.failures = n, !.status = IF n = 3 THEN "offline" ELSE "retrying"]
    ELSE [r EXCEPT !.failures = 0,
                   !.status = IF result = "unauthenticated" THEN "reconnect-required" ELSE result,
                   !.live = result # "unauthenticated"]

\* stop() on a refused session also cancels the backoff.
Ended(r, result) ==
    LET o == Observed([r EXCEPT !.backoff = IF result = "offline" /\ r.live THEN @ + 1 ELSE @], result)
    IN [o EXCEPT !.pc = IF r.rerun /\ o.live THEN "begin" ELSE "idle",
                 !.rerun = FALSE, !.backoff = IF o.live THEN @ ELSE 0,
                 !.queue = <<>>, !.batch = <<>>, !.results = <<>>, !.work = <<>>,
                 !.pending = {}, !.accepted = {}, !.dead = {},
                 !.pushFailed = FALSE, !.page = {}, !.cursor = 0, !.outcome = "synced"]

EndCycle(c, result) == Step(c, Ended(run[c], result)) /\ UNCHANGED <<disk, cache>>

\* stop(): nothing is triggered any more; a cycle under way runs on.
Stop(c) ==
    /\ run[c].pc # "off" /\ run[c].live
    /\ Step(c, [run[c] EXCEPT !.live = FALSE, !.backoff = 0])
    /\ Local /\ UNCHANGED <<disk, cache>>

(***************************************************************************)
(* startSyncLoop: a connection reads data.json and starts.  A fresh paste  *)
(* replaces a connection that is still live, and stops that one only when  *)
(* the new one is up.                                                      *)
(***************************************************************************)
Connect(c) ==
    /\ run[c].pc = "off" /\ c > 1 /\ run[c - 1].pc # "off"
    /\ Step(c, NewRun("begin"))
    /\ cache' = [cache EXCEPT ![c] = disk]
    /\ Local /\ UNCHANGED disk

\* The process dies and is started again.
Crash ==
    /\ crashes < MaxCrashes
    /\ crashes' = crashes + 1
    /\ run' = Started /\ cache' = [c \in Connections |-> disk]
    /\ UNCHANGED <<log, session, disk, made, gone, vault, unsaved, faults, requeues>>

-----------------------------------------------------------------------------
(* The world around the runner.                                            *)

\* A local commit enqueues a revision and triggers a sync.  A merge is
\* committed while the device still knows its parents as heads.
Commit(c, e) ==
    /\ run[c].pc # "off" /\ run[c].live
    /\ e \notin made /\ Parents[e] \subseteq made \cup vault
    /\ \A p \in vault \cap Peers : e \notin Twins[p]
    /\ Save(c, [cache[c] EXCEPT !.outbox = Append(@, e)])
    /\ Step(c, [Triggered(run[c]) EXCEPT !.status = "syncing"])
    /\ made' = made \cup {e}
    /\ UNCHANGED <<log, session, gone, vault, unsaved, budgets>>

\* Another device's revision is accepted; a merge once what it merges is there.
PeerCommits(p) ==
    /\ p \notin ToSet(log)
    /\ \A e \in Twins[p] : Parents[e] \subseteq ToSet(log) /\ e \notin ToSet(log)
    /\ log' = Append(log, p)
    /\ UNCHANGED <<session, disk, cache, run, made, gone, vault, unsaved, budgets>>

SessionRefused ==
    /\ session = "live" /\ Fault
    /\ session' = "dead"
    /\ UNCHANGED <<log, disk, cache, run, made, gone, vault, unsaved>>

Typing ==
    /\ ~unsaved /\ Fault
    /\ unsaved' = TRUE
    /\ UNCHANGED <<log, session, disk, cache, run, made, gone, vault>>

EditorSaves ==
    /\ unsaved /\ unsaved' = FALSE
    /\ UNCHANGED <<log, session, disk, cache, run, made, gone, vault, budgets>>

\* requeueQuarantined
Requeue(c, e) ==
    /\ run[c].live /\ e \in cache[c].quarantine
    /\ requeues < MaxRequeues /\ requeues' = requeues + 1
    /\ Save(c, [cache[c] EXCEPT !.outbox = Append(Without(@, {e}), e), !.quarantine = @ \ {e}])
    /\ UNCHANGED <<log, session, run, made, gone, vault, unsaved, faults, crashes>>

\* discardQuarantined
Discard(c, e) ==
    /\ run[c].live /\ e \in cache[c].quarantine
    /\ requeues < MaxRequeues /\ requeues' = requeues + 1
    /\ Save(c, [cache[c] EXCEPT !.quarantine = @ \ {e}])
    /\ gone' = gone \cup {e}
    /\ UNCHANGED <<log, session, run, made, vault, unsaved, faults, crashes>>

-----------------------------------------------------------------------------
(* runPush.                                                                *)

\* planPushBatches: batches within the budgets, an oversized revision by itself
Overflows(acc, e) ==
    acc.items # <<>> /\ (Len(acc.items) >= MaxItems \/ acc.bytes + Bytes[e] > MaxBytes)

Planned(acc, e) ==
    IF Overflows(acc, e)
    THEN [done |-> Append(acc.done, acc.items), items |-> <<e>>, bytes |-> Bytes[e]]
    ELSE [done |-> acc.done, items |-> Append(acc.items, e), bytes |-> acc.bytes + Bytes[e]]

PlanPushBatches(outbox) ==
    LET plan[i \in 0..Len(outbox)] ==
          IF i = 0 THEN [done |-> <<>>, items |-> <<>>, bytes |-> 0]
          ELSE Planned(plan[i - 1], outbox[i])
        last == plan[Len(outbox)]
    IN IF last.items = <<>> THEN last.done ELSE Append(last.done, last.items)

\* childrenOf, in outbox order
ChildrenOf(outbox, e) == Among(outbox, {k \in Edits : e \in Parents[k]})

\* A cycle begins: beforeCycle, then listOutbox.
Begin(c) ==
    /\ run[c].pc = "begin"
    /\ Step(c, [run[c] EXCEPT
                  !.pc = "push", !.rerun = FALSE,
                  !.queue = PlanPushBatches(cache[c].outbox), !.batch = cache[c].outbox,
                  !.pending = ToSet(cache[c].outbox)])
    /\ Local /\ UNCHANGED <<disk, cache>>

\* beforeCycle, beforePull or afterPull throws.
HookFails(c) ==
    /\ run[c].pc \in {"begin", "pull"} \/ (run[c].pc = "apply" /\ run[c].page = {})
    /\ Fault
    /\ EndCycle(c, "offline")
    /\ UNCHANGED <<log, session, made, gone, vault, unsaved>>

\* What is left of the next batch once the dead-lettered are taken out
Live(r) == Among(Head(r.queue), r.pending)

(***************************************************************************)
(* The next batch is sent, or skipped when nothing of it is left.  A       *)
(* revision without a stored envelope fails the push.                      *)
(***************************************************************************)
Send(c) ==
    LET r == run[c] IN
    /\ r.pc = "push" /\ r.queue # <<>>
    /\ Step(c, IF Live(r) = <<>> THEN [r EXCEPT !.queue = Tail(@)]
               ELSE IF ~(ToSet(Live(r)) \subseteq ToSet(cache[c].outbox))
                    THEN [r EXCEPT !.pc = "pull", !.pushFailed = TRUE]
               ELSE [r EXCEPT !.pc = "sent", !.queue = <<Live(r)>> \o Tail(@)])
    /\ Local /\ UNCHANGED <<disk, cache>>

Pushed(c) ==
    /\ run[c].pc = "push" /\ run[c].queue = <<>>
    /\ Step(c, [run[c] EXCEPT !.pc = "pull"])
    /\ Local /\ UNCHANGED <<disk, cache>>

\* A merge whose heads another device has already merged is refused for now.
HeadSetChanged(e) == \E p \in Peers : p \in ToSet(log) /\ e \in Twins[p]

\* The server's answer to one item, given what it has by then
Decide(have, e) ==
    CASE e \in have -> "accepted"
      [] e \notin have /\ e \in Poison -> "permanent"
      [] e \notin have /\ e \notin Poison /\ ~(Parents[e] \subseteq have) -> "missing"
      [] e \notin have /\ e \notin Poison /\ Parents[e] \subseteq have /\ HeadSetChanged(e)
            -> "transient"
      [] OTHER -> "accepted"

\* The whole answer: parents before children, each item judged on its own.
Judged(acc, e) ==
    LET o == Decide(acc.have, e) IN
    [have |-> IF o = "accepted" THEN acc.have \cup {e} ELSE acc.have,
     results |-> Append(acc.results, [id |-> e, outcome |-> o]),
     new |-> IF o = "accepted" /\ e \notin acc.have THEN Append(acc.new, e) ELSE acc.new]

Judge(batch) ==
    LET judged[i \in 0..Len(batch)] ==
          IF i = 0 THEN [have |-> ToSet(log), results |-> <<>>, new |-> <<>>]
          ELSE Judged(judged[i - 1], batch[i])
    IN judged[Len(batch)]

OnTheWire(c) == Head(run[c].queue)

\* Per-item results
Answer(c) ==
    /\ run[c].pc = "sent" /\ session = "live"
    /\ ToSet(OnTheWire(c)) \cap Oversized = {}
    /\ log' = log \o Judge(OnTheWire(c)).new
    /\ Step(c, [run[c] EXCEPT !.pc = "results", !.queue = Tail(@),
                              !.results = Judge(OnTheWire(c)).results])
    /\ UNCHANGED <<session, disk, cache, made, gone, vault, unsaved, budgets>>

\* Faulty variant: an unattributable refusal fails the push.
RefuseNoSplit(c) ==
    /\ run[c].pc = "sent" /\ session = "live"
    /\ ToSet(OnTheWire(c)) \cap Oversized # {}
    /\ Step(c, [run[c] EXCEPT !.pc = "pull", !.pushFailed = TRUE])
    /\ Local /\ UNCHANGED <<disk, cache>>

\* A refused request names nobody: one item is dead-lettered, several are
\* sent again one by one.
Refuse(c) ==
    LET batch == OnTheWire(c) IN
    /\ run[c].pc = "sent" /\ session = "live"
    /\ ToSet(batch) \cap Oversized # {}
    /\ Step(c, IF Len(batch) = 1
               THEN [run[c] EXCEPT !.pc = "cascade", !.queue = Tail(@), !.work = batch]
               ELSE [run[c] EXCEPT !.pc = "push",
                                   !.queue = Tail(@) \o [i \in 1..Len(batch) |-> <<batch[i]>>]])
    /\ Local /\ UNCHANGED <<disk, cache>>

\* A transient failure of the push: the cycle goes on to pull and fails then.
PushFails(c) ==
    /\ run[c].pc \in {"sent", "results", "cascade"}
    /\ Fault
    /\ \/ UNCHANGED log
       \/ /\ run[c].pc = "sent" /\ session = "live"
          /\ ToSet(OnTheWire(c)) \cap Oversized = {}
          /\ log' = log \o Judge(OnTheWire(c)).new
    /\ Step(c, [run[c] EXCEPT !.pc = "pull", !.pushFailed = TRUE])
    /\ UNCHANGED <<session, disk, cache, made, gone, vault, unsaved>>

\* parentStillViable
ParentStillViable(c, e) ==
    Parents[e] \cap (run[c].pending \cup run[c].accepted \cup ToSet(cache[c].authored)) # {}

\* The result means that the revision can never land.
DeadLetters(c, result) ==
    \/ result.outcome = "permanent"
    \/ result.outcome = "missing" /\ ~ParentStillViable(c, result.id)

Accepted(result) == result.outcome = "accepted"

\* rememberAuthored: the oldest are forgotten.
RememberAuthored(authored, e) ==
    IF e \in ToSet(authored) THEN authored
    ELSE IF Len(authored) >= MaxAuthored THEN Append(Tail(authored), e)
    ELSE Append(authored, e)

\* recordPushReceipt
Receipt(c, e) ==
    Save(c, [cache[c] EXCEPT !.outbox = Without(@, {e}),
                             !.authored = RememberAuthored(@, e)])

\* One result; a dead-lettered one starts the cascade.
Result(c) ==
    LET r == run[c]
        result == Head(r.results)
        rest == [r EXCEPT !.results = Tail(@)]
    IN
    /\ r.pc = "results" /\ r.results # <<>>
    /\ \/ /\ result.id \notin r.dead /\ Accepted(result)
          /\ Receipt(c, result.id)
          /\ Step(c, [rest EXCEPT !.pending = @ \ {result.id}, !.accepted = @ \cup {result.id}])
       \/ /\ result.id \notin r.dead /\ DeadLetters(c, result)
          /\ Step(c, [rest EXCEPT !.pc = "cascade", !.work = <<result.id>>])
          /\ UNCHANGED <<disk, cache>>
       \/ /\ result.id \in r.dead \/ ~(Accepted(result) \/ DeadLetters(c, result))
          /\ Step(c, rest)
          /\ UNCHANGED <<disk, cache>>
    /\ Local

ResultsDone(c) ==
    /\ run[c].pc = "results" /\ run[c].results = <<>>
    /\ Step(c, [run[c] EXCEPT !.pc = "push"])
    /\ Local /\ UNCHANGED <<disk, cache>>

\* The children that follow a dead-lettered revision
Followers(c, e) == ChildrenOf(run[c].batch, e)

\* Faulty variant: the refused revision is dropped.
QuarantineDrops(s, e) == [s EXCEPT !.outbox = Without(@, {e})]

\* quarantineOutboxItem
Quarantined(s, e) == [s EXCEPT !.outbox = Without(@, {e}), !.quarantine = @ \cup {e}]

\* quarantineLineage: one revision is dead-lettered, its children follow.
Cascade(c) ==
    LET r == run[c]
        e == Head(r.work)
    IN
    /\ r.pc = "cascade" /\ r.work # <<>>
    /\ \/ /\ e \in r.pending
          /\ Save(c, Quarantined(cache[c], e))
          /\ Step(c, [r EXCEPT !.pending = @ \ {e}, !.dead = @ \cup {e},
                               !.work = Tail(@) \o Followers(c, e)])
       \/ /\ e \notin r.pending
          /\ Step(c, [r EXCEPT !.work = Tail(@)])
          /\ UNCHANGED <<disk, cache>>
    /\ Local

CascadeDone(c) ==
    /\ run[c].pc = "cascade" /\ run[c].work = <<>>
    /\ Step(c, [run[c] EXCEPT !.pc = "results"])
    /\ Local /\ UNCHANGED <<disk, cache>>

-----------------------------------------------------------------------------
(* runPull.                                                                *)

\* loadCursor, and the request for what follows it
Pull(c) ==
    /\ run[c].pc = "pull"
    /\ Step(c, [run[c] EXCEPT !.pc = "pulling", !.cursor = cache[c].cursor])
    /\ Local /\ UNCHANGED <<disk, cache>>

\* The page; a page with events missing is a fault.
Page(c) ==
    LET from == run[c].cursor
        served == {i \in 1..Len(log) : from < i /\ i <= from + PageSize}
    IN
    /\ run[c].pc = "pulling" /\ session = "live"
    /\ \E page \in SUBSET served :
         /\ IF page = served THEN UNCHANGED budgets ELSE Fault
         /\ Step(c, [run[c] EXCEPT !.pc = "apply", !.page = page])
    /\ UNCHANGED <<log, session, disk, cache, made, gone, vault, unsaved>>

\* The pull, a write or an unforeseen apply fails: the cycle ends.
PullFails(c) ==
    /\ run[c].pc \in {"pulling", "retire", "park", "save"}
    /\ Fault
    /\ EndCycle(c, "offline")
    /\ UNCHANGED <<log, session, made, gone, vault, unsaved>>

\* A 401 to a push, a pull or the fetch of a payload ends the cycle for good.
Denied(c) ==
    /\ run[c].pc \in {"sent", "pulling", "checked"} /\ session = "dead"
    /\ EndCycle(c, "unauthenticated")
    /\ Local

Next1(c) == CHOOSE i \in run[c].page : \A j \in run[c].page : i <= j
Event(c) == log[Next1(c)]

\* Faulty variant: a hole in the page is stepped over.
ContiguousNever(c) == TRUE

\* The contiguity gate
Contiguous(c) == Next1(c) = run[c].cursor + 1

\* The next event: stale, beyond a hole, an echo, held back by an editor, or due.
Examine(c) ==
    LET r == run[c] IN
    /\ r.pc = "apply" /\ r.page # {}
    /\ Step(c, IF Next1(c) <= r.cursor THEN [r EXCEPT !.page = @ \ {Next1(c)}]
               ELSE IF ~Contiguous(c) THEN [r EXCEPT !.page = {}]
               ELSE IF Event(c) \in ToSet(cache[c].authored) THEN [r EXCEPT !.pc = "save"]
               ELSE IF unsaved
                    THEN [r EXCEPT !.page = {},
                                   !.outcome = IF @ = "conflict" THEN @ ELSE "deferred"]
               ELSE [r EXCEPT !.pc = "checked"])
    /\ Local /\ UNCHANGED <<disk, cache>>

\* Queued merges with the same heads and the same text as the event
QueuedTwins(c) ==
    IF Event(c) \in Peers THEN Twins[Event(c)] \cap ToSet(cache[c].outbox) ELSE {}

\* applyRemote wrote the file or a conflict copy, or found nothing to do: a file
\* that already holds the text of an equal merge is never a conflict.
Apply(c) ==
    /\ run[c].pc = "checked" /\ session = "live" /\ ~unsaved
    /\ Event(c) \notin Broken
    /\ vault' = vault \cup {Event(c)}
    /\ \E conflict \in BOOLEAN :
         /\ conflict => QueuedTwins(c) = {}
         /\ Step(c, [run[c] EXCEPT !.tries[Event(c)] = 0,
                                   !.pc = IF conflict THEN "save" ELSE "retire",
                                   !.outcome = IF conflict THEN "conflict" ELSE @])
    /\ UNCHANGED <<log, session, disk, cache, made, gone, unsaved, budgets>>

\* applyRemote finds unsaved text that was typed since.
ApplyDeferred(c) ==
    /\ run[c].pc = "checked" /\ unsaved
    /\ Step(c, [run[c] EXCEPT !.tries[Event(c)] = 0, !.pc = "apply", !.page = {},
                              !.outcome = IF @ = "conflict" THEN @ ELSE "deferred"])
    /\ Local /\ UNCHANGED <<disk, cache>>

\* The failure was the last this change is allowed.
Parks(c) == Event(c) \in OutOfScope \/ run[c].tries[Event(c)] + 1 >= MaxApplyAttempts

\* applyRemote throws: the change is parked at last, until then the cycle fails.
ApplyThrows(c) ==
    /\ run[c].pc = "checked" /\ session = "live"
    /\ IF Event(c) \in Broken THEN UNCHANGED budgets ELSE Fault
    /\ IF Parks(c)
       THEN Step(c, [run[c] EXCEPT !.tries[Event(c)] = 0, !.pc = "park"])
       ELSE Step(c, Ended([run[c] EXCEPT !.tries[Event(c)] = @ + 1], "offline"))
    /\ UNCHANGED <<log, session, disk, cache, made, gone, vault, unsaved>>

\* Faulty variant: the cursor stays before the parked change.
ParkStays(c) ==
    /\ run[c].pc = "park"
    /\ Save(c, [cache[c] EXCEPT !.parked = @ \cup {Event(c)}])
    /\ Step(c, [run[c] EXCEPT !.pc = "apply", !.page = {}])
    /\ Local

\* parkRemote
Park(c) ==
    /\ run[c].pc = "park"
    /\ Save(c, [cache[c] EXCEPT !.parked = @ \cup {Event(c)}])
    /\ Step(c, [run[c] EXCEPT !.pc = "save"])
    /\ Local

\* Queued merges that the applied one makes redundant and no queued or
\* dead-lettered revision builds on
Redundant(c) ==
    {e \in QueuedTwins(c) :
       \A k \in ToSet(cache[c].outbox) \cup cache[c].quarantine : e \notin Parents[k]}

\* retireEquivalentMerges
Retire(c) ==
    /\ run[c].pc = "retire"
    /\ IF Redundant(c) = {} THEN UNCHANGED <<disk, cache>>
       ELSE Save(c, [cache[c] EXCEPT !.outbox = Without(@, Redundant(c))])
    /\ Step(c, [run[c] EXCEPT !.pc = "save"])
    /\ Local

\* saveCursor, once the event is applied, parked or an echo
SaveCursor(c) ==
    /\ run[c].pc = "save"
    /\ Save(c, [cache[c] EXCEPT !.cursor = Next1(c)])
    /\ Step(c, [run[c] EXCEPT !.pc = "apply", !.cursor = Next1(c), !.page = @ \ {Next1(c)}])
    /\ Local

\* The page is done: afterPull, and a failed push fails the cycle now.
Finish(c) ==
    /\ run[c].pc = "apply" /\ run[c].page = {}
    /\ EndCycle(c, IF run[c].pushFailed THEN "offline" ELSE run[c].outcome)
    /\ Local

\* retryParked: the user applies a parked change again, beside any cycle.
RetryParked(c, p) ==
    /\ run[c].live /\ p \in cache[c].parked \ Broken /\ ~unsaved
    /\ vault' = vault \cup {p}
    /\ Step(c, [run[c] EXCEPT !.retried = @ \cup {p}])
    /\ UNCHANGED <<log, session, disk, cache, made, gone, unsaved, budgets>>

\* unparkRemote
Unparked(c, p) == cache[c].parked \ {p}

Unpark(c, p) ==
    /\ p \in run[c].retried
    /\ Save(c, [cache[c] EXCEPT !.parked = Unparked(c, p)])
    /\ Step(c, [run[c] EXCEPT !.retried = @ \ {p}])
    /\ Local

-----------------------------------------------------------------------------
Cycle(c) ==
    \/ Begin(c) \/ Send(c) \/ Pushed(c) \/ Answer(c) \/ Refuse(c)
    \/ Result(c) \/ ResultsDone(c) \/ Cascade(c) \/ CascadeDone(c)
    \/ Pull(c) \/ Page(c) \/ Denied(c) \/ Examine(c)
    \/ Apply(c) \/ ApplyDeferred(c) \/ ApplyThrows(c) \/ Park(c) \/ Retire(c)
    \/ SaveCursor(c) \/ Finish(c)

Next ==
    \/ Crash \/ SessionRefused \/ Typing \/ EditorSaves
    \/ \E p \in Peers : PeerCommits(p)
    \/ \E c \in Connections :
         \/ Cycle(c) \/ SyncNow(c) \/ BackoffFires(c) \/ Stop(c) \/ Connect(c)
         \/ HookFails(c) \/ PushFails(c) \/ PullFails(c)
         \/ \E e \in Edits : Commit(c, e) \/ Requeue(c, e) \/ Discard(c, e)
         \/ \E p \in Revisions : RetryParked(c, p) \/ Unpark(c, p)

(***************************************************************************)
(* The scheduler's interval keeps triggering, a cycle under way goes on,   *)
(* requests end by answer or timeout, and the user's editor saves.         *)
(***************************************************************************)
Fairness ==
    /\ WF_vars(EditorSaves)
    /\ \A c \in Connections :
         /\ WF_vars(run[c].pc = "idle" /\ SyncNow(c))
         /\ WF_vars(Cycle(c))

Spec == Init /\ [][Next]_vars /\ Fairness

-----------------------------------------------------------------------------
(* Properties.                                                             *)

(***************************************************************************)
(* Nothing is skipped: whatever lies below the durable cursor has reached  *)
(* the files, is this device's own, or is listed as parked.                *)
(***************************************************************************)
NothingSkipped ==
    \A i \in 1..disk.cursor :
      i \in 1..Len(log) /\ log[i] \in vault \cup made \cup disk.parked

\* A merge another device's merge has made redundant
Retired(e) == \E p \in Peers : p \in ToSet(log) /\ e \in Twins[p]

(***************************************************************************)
(* No commit is lost: as the next start will find data.json, each is       *)
(* queued, listed as dead-lettered, on the server or redundant there, or   *)
(* the user discarded it.                                                  *)
(***************************************************************************)
QueueAccounted ==
    \A e \in made :
      \/ e \in ToSet(disk.outbox) \cup disk.quarantine \cup ToSet(log) \cup gone
      \/ Retired(e)

Working == session = "live" /\ \E c \in Connections : run[c].live

\* Every queued commit leaves the queue in the end: one that the server will
\* never take does not hold the others up.
Drains ==
    \A e \in Edits : e \in ToSet(disk.outbox) ~> (e \notin ToSet(disk.outbox) \/ ~Working)

\* The device catches up with the server, past the changes it cannot apply.
CatchesUp == disk.cursor < Len(log) ~> (disk.cursor = Len(log) \/ ~Working)
=============================================================================
