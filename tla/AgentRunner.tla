---------------------------- MODULE AgentRunner ----------------------------
(***************************************************************************)
(* A headless agent and the people it works for.  A background service     *)
(* holds the agent's lock, syncs every minute, and lets a model work when  *)
(* its interval is over, its day is not spent and people changed a note    *)
(* since its last run; `once` runs it by hand and `mcp` lends it to an     *)
(* interactive client.  What a run remembers is runner.json.               *)
(*                                                                         *)
(* The vault is one note besides the task note; a revision is its place    *)
(* in the server's log.  Sync is the plugin's own (modules SyncRunner and  *)
(* VaultApply): here it sends what is queued, reads the log, and may queue *)
(* a merge when it finds several heads.  The model is external: it writes  *)
(* or not, and fails or not.                                               *)
(***************************************************************************)
EXTENDS Integers, Sequences, FiniteSets, FiniteSetsExt

CONSTANTS
    DayCap,       \* MAX_RUNS_PER_DAY
    Clashing,     \* the pairs of revisions whose texts have no clean merge
    Racing,       \* two processes may be taking the lock in the same instant
    MaxRevs,      \* bound on the log
    MaxSessions,  \* bound on `once` and `mcp` commands
    MaxFaults     \* bound on crashes, model failures, sync failures and offline edits

ASSUME AgentAssumption ==
    /\ DayCap \in Nat \ {0} /\ Clashing \subseteq SUBSET Nat /\ Racing \in BOOLEAN
    /\ MaxRevs \in Nat /\ MaxSessions \in Nat /\ MaxFaults \in Nat

VARIABLES
    log,       \* the accepted revisions of the note
    task,      \* the task note is there
    queue,     \* what the agent has queued to send, durable
    memory,    \* runner.json: lastSequence, runsToday, whether its day is today, and
               \* whether the interval since lastRunAt is over
    lock,      \* the lock file
    proc,      \* the two processes
    handed,    \* history: people's changes a finished run was given
    calls,     \* history: model runs of today
    lost,      \* history: those whose process died before it saved runner.json
    sessions, faults

world == <<log, task>>
ghosts == <<handed, calls, lost>>
vars == <<world, queue, memory, lock, proc, ghosts, sessions, faults>>

Procs == {"service", "session"}
None == [is |-> "none"]
Off == [at |-> "off"]

\* Heads, and what undo means, over the log or the part of it a client has read.
Parents(l) == UNION {l[i].parents : i \in DOMAIN l}
Heads(l) == DOMAIN l \ Parents(l)

TypeOK ==
    /\ \A i \in DOMAIN log : /\ log[i].by \in {"person", "me", "other"}
                             /\ log[i].parents \subseteq 1..(i - 1)
                             /\ log[i].text \in 1..i
    /\ memory \in [last : 0..Len(log), runs : 0..DayCap, today : BOOLEAN, due : BOOLEAN]
    /\ task \in BOOLEAN
    /\ \A p \in Procs : proc[p].at \in {"off", "acquiring", "open", "working",
                                        "ending", "lent"}

Init ==
    /\ log = <<[by |-> "person", parents |-> {}, text |-> 1]>>
    /\ task = TRUE /\ queue = None
    /\ memory = [last |-> 1, runs |-> 0, today |-> FALSE, due |-> TRUE]
    /\ lock = None
    /\ proc = [p \in Procs |-> Off]
    /\ handed = {} /\ calls = 0 /\ lost = 0 /\ sessions = 0 /\ faults = 0

-----------------------------------------------------------------------------
(* People, their devices and other agents.                                 *)

Write(who, parents, text) == Append(log, [by |-> who, parents |-> parents, text |-> text])

\* A person or another agent edits over a head, or merges all of them; a device
\* that was offline edits over what it has read.
Edit(who) ==
    /\ Len(log) < MaxRevs
    /\ \E read \in DOMAIN log : \E parents \in {{read}, Heads(log)} :
         /\ log' = Write(who, parents, Len(log) + 1)
         /\ parents \subseteq Heads(log) \/ faults < MaxFaults
         /\ faults' = IF parents \subseteq Heads(log) THEN faults ELSE faults + 1
    /\ UNCHANGED <<task, queue, memory, lock, proc, ghosts, sessions>>

\* A person undoes the agent's work: the note is what it was before it.
Undo ==
    /\ Len(log) < MaxRevs
    /\ \E r \in Heads(log) :
         /\ log[r].by = "me"
         /\ \E before \in log[r].parents, parents \in {{r}, Heads(log)} :
              log' = Write("person", parents, log[before].text)
    /\ UNCHANGED <<task, queue, memory, lock, proc, ghosts, sessions, faults>>

\* The owner writes or removes the task note.
EditTask ==
    /\ task' = ~task
    /\ UNCHANGED <<log, queue, memory, lock, proc, ghosts, sessions, faults>>

IntervalEnds ==
    /\ ~memory.due
    /\ memory' = [memory EXCEPT !.due = TRUE]
    /\ UNCHANGED <<world, queue, lock, proc, ghosts, sessions, faults>>

\* A run belongs to the day on which it began.
Midnight ==
    /\ memory.today \/ calls > 0
    /\ memory' = [memory EXCEPT !.today = FALSE]
    /\ proc' = [p \in Procs |-> IF proc[p].at \in {"working", "ending"}
                               THEN [proc[p] EXCEPT !.today = FALSE] ELSE proc[p]]
    /\ calls' = 0 /\ lost' = 0
    /\ UNCHANGED <<world, queue, lock, handed, sessions, faults>>

-----------------------------------------------------------------------------
(* The lock.                                                               *)

\* Process ids restart with the container: the service always has the same one.
Mine(p, token) == [is |-> "held", pid |-> p, token |-> token]
Alive(pid) == proc[pid].at # "off"
Holds(p) == proc[p].at \in {"open", "working", "ending", "lent"}

\* Faulty variant: a lock with a live process id is held, whoever wrote it.
HeldByPid(p, token, content) == content.is = "held" /\ (content.pid = p \/ Alive(content.pid))

\* A lock is held by another process that is alive, or by this very process.
Held(p, token, content) ==
    /\ content.is = "held"
    /\ \/ content.pid # p /\ Alive(content.pid)
       \/ content.pid = p /\ content.token = token

Open(kind, token) == [at |-> "open", kind |-> kind, token |-> token]

\* acquireLock: the file is created exclusively, or read and found stale.
Acquire(p, kind, token) ==
    /\ Racing \/ \A q \in Procs : proc[q].at # "acquiring"
    /\ \/ lock = None /\ lock' = [is |-> "empty"]
       \/ lock # None /\ ~Held(p, token, lock) /\ UNCHANGED lock
    /\ proc' = [proc EXCEPT ![p] = [at |-> "acquiring", kind |-> kind, token |-> token]]

\* Its content is written, whatever another process did meanwhile.
AcquireEnd(p) ==
    /\ proc[p].at = "acquiring"
    /\ lock' = Mine(p, proc[p].token)
    /\ proc' = [proc EXCEPT ![p] = Open(proc[p].kind, proc[p].token)]
    /\ UNCHANGED <<world, queue, memory, ghosts, sessions, faults>>

\* The service starts, or comes back, with a token of its own; a lock that is
\* held makes it skip the agent in this pass.
ServiceOpens ==
    /\ proc["service"] = Off
    /\ Acquire("service", "run", faults)
    /\ UNCHANGED <<world, queue, memory, ghosts, sessions, faults>>

SessionOpens ==
    /\ proc["session"] = Off /\ sessions < MaxSessions
    /\ \E kind \in {"once", "force", "mcp"} : Acquire("session", kind, faults)
    /\ sessions' = sessions + 1
    /\ UNCHANGED <<world, queue, memory, ghosts, faults>>

\* The lock is removed, whatever it holds.
Release(p) ==
    /\ lock' = None
    /\ proc' = [proc EXCEPT ![p] = Off]

\* The process dies, and what only it knew is lost; the lock file stays.
Crash(p) ==
    /\ proc[p].at # "off" /\ faults < MaxFaults
    /\ proc' = [proc EXCEPT ![p] = Off]
    /\ lost' = IF proc[p].at \in {"working", "ending"} /\ proc[p].today THEN lost + 1 ELSE lost
    /\ faults' = faults + 1
    /\ UNCHANGED <<world, queue, memory, lock, handed, calls, sessions>>

-----------------------------------------------------------------------------
(* Sync.                                                                   *)

\* A queued merge is refused when the heads are not the ones it merges.
Accepted == queue # None /\ Len(log) < MaxRevs /\ (queue.is = "merge" => queue.parents = Heads(log))
Sent == IF Accepted THEN Write("me", queue.parents, Len(log) + 1) ELSE log

\* reconcileHeads leaves the heads as they are when it cannot merge all of them.
Mergeable(heads) == Cardinality(heads) > 1 /\ \A pair \in Clashing : ~(pair \subseteq heads)

\* One cycle: push, pull, and a merge queued when there are several heads.
Sync ==
    /\ log' = Sent
    /\ queue' = IF queue.is = "write" /\ ~Accepted THEN queue
                ELSE IF Mergeable(Heads(Sent)) THEN [is |-> "merge", parents |-> Heads(Sent)]
                ELSE None

\* SyncRunner.trigger reports a failed cycle and throws nothing: what follows it then
\* decides on the part of the log that this process had read before.
Views == {Sent} \cup {SubSeq(log, 1, n) : n \in memory.last..Len(log)}
SyncSees(view) ==
    \/ Sync /\ view = Sent /\ UNCHANGED faults
    \/ /\ view # Sent /\ faults < MaxFaults /\ faults' = faults + 1
       /\ Sync \/ UNCHANGED <<log, queue>>

\* A sync, or what follows it, throws: the service drops the agent and releases
\* its lock, a command ends.
SyncFails(p) ==
    /\ proc[p].at = "open" /\ faults < MaxFaults
    /\ Sync \/ UNCHANGED <<log, queue>>
    /\ Release(p)
    /\ faults' = faults + 1
    /\ UNCHANGED <<task, memory, ghosts, sessions>>

-----------------------------------------------------------------------------
(* runAgentOnce, deciding on what its first sync brought.                  *)

\* revertsOwnWork: the head has the text from before one of the agent's revisions.
Reverts(l, r) ==
    \E i \in DOMAIN l : /\ l[i].by = "me"
                        /\ \E before \in l[i].parents : l[before].text = l[r].text

\* peopleChangesSince: only heads are looked at.
PeopleChanges(l, after) ==
    {r \in Heads(l) : r > after /\ l[r].by = "person" /\ ~Reverts(l, r)}
Latest(l, after) == Max({after} \cup Heads(l))

RunsToday == IF memory.today THEN memory.runs ELSE 0
Runner(p) == proc[p].at = "open" /\ proc[p].kind # "mcp"
Ready(p) == task /\ (memory.due \/ proc[p].kind = "force")

\* The run is over for this time: the service keeps the agent open, a command ends.
Rest(p) ==
    IF proc[p].kind # "run" THEN Release(p)
    ELSE /\ proc' = [proc EXCEPT ![p] = Open("run", @.token)]
         /\ UNCHANGED lock

\* No task, not due, nothing new or the day spent: only the sequence may move.
RunSkips(p) ==
    /\ Runner(p)
    /\ \E view \in Views :
         /\ SyncSees(view)
         /\ \/ ~Ready(p) /\ UNCHANGED memory
            \/ /\ Ready(p) /\ PeopleChanges(view, memory.last) = {}
               /\ memory' = [memory EXCEPT !.last = Latest(view, @)]
            \/ /\ Ready(p) /\ PeopleChanges(view, memory.last) # {}
               /\ RunsToday >= DayCap /\ UNCHANGED memory
    /\ Rest(p)
    /\ UNCHANGED <<task, ghosts, sessions>>

\* The model is given the changed notes.
RunBegins(p) ==
    /\ Runner(p)
    /\ Ready(p) /\ RunsToday < DayCap
    /\ \E view \in Views :
         /\ SyncSees(view)
         /\ PeopleChanges(view, memory.last) # {}
         /\ proc' = [proc EXCEPT ![p] = [at |-> "working", kind |-> @.kind, token |-> @.token,
                                         base |-> Heads(view), today |-> TRUE, spent |-> RunsToday + 1,
                                         from |-> memory.last, latest |-> Latest(view, memory.last),
                                         changed |-> PeopleChanges(view, memory.last)]]
    /\ calls' = calls + 1
    /\ UNCHANGED <<task, memory, lock, handed, lost, sessions>>

\* writeAsAgent: the model writes a note, over the head this process has on disk.
RunWrites(p) ==
    /\ proc[p].at = "working" /\ queue = None
    /\ \E head \in proc[p].base : queue' = [is |-> "write", parents |-> {head}]
    /\ UNCHANGED <<world, memory, lock, proc, ghosts, sessions, faults>>

\* The model is done, or has failed, and the final sync runs or fails quietly.
RunEnds(p) ==
    /\ proc[p].at = "working"
    /\ \E ok \in BOOLEAN, synced \in BOOLEAN :
         /\ (~ok \/ ~synced) => faults < MaxFaults
         /\ faults' = IF ok /\ synced THEN faults ELSE faults + 1
         /\ IF synced THEN Sync ELSE UNCHANGED <<log, queue>>
         /\ proc' = [proc EXCEPT ![p] = [at |-> "ending", kind |-> @.kind, token |-> @.token,
                                         ok |-> ok, today |-> @.today, spent |-> @.spent,
                                         from |-> @.from, latest |-> @.latest,
                                         changed |-> @.changed]]
    /\ UNCHANGED <<task, memory, lock, ghosts, sessions>>

\* Faulty variant: a failed run remembers what it was given.
KeptSequenceAlways(p) == proc[p].latest

\* The sequence a run remembers: what it had seen if it is done, else as before.
KeptSequence(p) == IF proc[p].ok THEN proc[p].latest ELSE proc[p].from

\* Whatever happened, the run counts.
Spent(p) == proc[p].spent

\* writeMemory
RunSaves(p) ==
    /\ proc[p].at = "ending"
    /\ memory' = [last |-> KeptSequence(p), runs |-> Spent(p), today |-> proc[p].today, due |-> FALSE]
    /\ handed' = IF proc[p].ok THEN handed \cup proc[p].changed ELSE handed
    /\ Rest(p)
    /\ UNCHANGED <<world, queue, calls, lost, sessions, faults>>

-----------------------------------------------------------------------------
(* An interactive client over MCP: every tool syncs, a write needs a task. *)

McpSyncs ==
    /\ proc["session"].at \in {"open", "lent"} /\ proc["session"].kind = "mcp"
    /\ \E view \in Views :
         /\ SyncSees(view)
         /\ proc' = [proc EXCEPT !["session"] = [at |-> "lent", kind |-> "mcp", token |-> @.token,
                                                 base |-> Heads(view)]]
    /\ UNCHANGED <<task, memory, lock, ghosts, sessions>>

McpWrites ==
    /\ proc["session"].at = "lent" /\ task /\ queue = None
    /\ \E head \in proc["session"].base : queue' = [is |-> "write", parents |-> {head}]
    /\ UNCHANGED <<world, memory, lock, proc, ghosts, sessions, faults>>

McpEnds ==
    /\ proc["session"].at = "lent"
    /\ Release("session")
    /\ UNCHANGED <<world, queue, memory, ghosts, sessions, faults>>

Run(p) == RunSkips(p) \/ RunBegins(p) \/ RunWrites(p) \/ RunEnds(p) \/ RunSaves(p)

People == Edit("person") \/ Edit("other") \/ Undo \/ EditTask

Next ==
    \/ People \/ IntervalEnds \/ Midnight
    \/ ServiceOpens \/ SessionOpens
    \/ \E p \in Procs : AcquireEnd(p) \/ Run(p) \/ SyncFails(p) \/ Crash(p)
    \/ McpSyncs \/ McpWrites \/ McpEnds

(***************************************************************************)
(* The container restarts the service, its loop goes on for ever, a model  *)
(* call ends (it is timed out) and time passes.  `once` runs to its end.   *)
(***************************************************************************)
Fairness ==
    /\ WF_vars(ServiceOpens) /\ WF_vars(IntervalEnds) /\ WF_vars(Midnight)
    /\ \A p \in Procs : /\ WF_vars(AcquireEnd(p))
                        /\ WF_vars(RunSkips(p) \/ RunBegins(p))
                        /\ WF_vars(RunEnds(p)) /\ WF_vars(RunSaves(p))

Spec == Init /\ [][Next]_vars /\ Fairness

-----------------------------------------------------------------------------
(* Properties.                                                             *)

\* A person's change that stands and is no undo of the agent's work.
IsNews(r) ==
    /\ r \in DOMAIN log /\ r > 1
    /\ r \in Heads(log) /\ log[r].by = "person"
    /\ \A i \in DOMAIN log : log[i].by = "me" =>
         \A before \in log[i].parents : log[before].text # log[r].text

(***************************************************************************)
(* The sequence the agent remembers never passes over a standing change of *)
(* a person that no finished run was given: not when a run fails, not when *)
(* the change arrives while the model works, and not across a crash.       *)
(***************************************************************************)
NothingPassedOver == \A r \in 2..memory.last : IsNews(r) => r \in handed

(***************************************************************************)
(* A day costs at most DayCap model runs, and one more for each run whose  *)
(* process died before it saved its memory: failed runs are counted, a run *)
(* by hand too, and a restart forgets none.                                *)
(***************************************************************************)
DayCapHolds == calls <= DayCap + lost

(***************************************************************************)
(* A person's change that stands reaches a run of the agent, through       *)
(* failed runs, spent days, crashes and the lock files they leave, unless  *)
(* the owner takes the task away or an interactive client has the agent.   *)
(***************************************************************************)
NewsReachesAgent ==
    \A r \in 2..MaxRevs :
      IsNews(r) ~> (r \in handed \/ ~IsNews(r) \/ ~task \/ proc["session"].at # "off")

(***************************************************************************)
(* What lock.ts says: one process per agent at a time, "a runner and an    *)
(* MCP session never share an agent's state".  It does not hold when two   *)
(* start at once: README, known divergences.                               *)
(***************************************************************************)
OneHolder == ~ \A p \in Procs : Holds(p)
=============================================================================
