------------------------- MODULE AgentRunnerProofs -------------------------
(***************************************************************************)
(* Proofs about module AgentRunner.                                        *)
(*                                                                         *)
(* What a run was given and what it will remember are carried by the       *)
(* process while the model works, so the invariant says of a running       *)
(* process what the property says of runner.json: the sequence it began    *)
(* from passes over nothing, and the one it will save passes over nothing  *)
(* but the changes it was given.  News never comes back: what is news in a *)
(* longer log was news in the shorter one.                                 *)
(***************************************************************************)
EXTENDS AgentRunner, WellFoundedInduction, TLAPS

Revision == [by : {"person", "me", "other"}, parents : SUBSET Nat, text : Nat]
Kinds == {"run", "once", "force", "mcp"}

\* A process before and between its runs, at work, and about to save
Opened == [at : {"acquiring", "open"}, kind : Kinds, token : Nat]
Lent == [at : {"lent"}, kind : Kinds, token : Nat, base : SUBSET Nat]
Working == [at : {"working"}, kind : Kinds, token : Nat, base : SUBSET Nat, today : BOOLEAN,
            spent : 1..DayCap, from : Nat, latest : Nat, changed : SUBSET Nat]
Ending == [at : {"ending"}, kind : Kinds, token : Nat, ok : BOOLEAN, today : BOOLEAN,
           spent : 1..DayCap, from : Nat, latest : Nat, changed : SUBSET Nat]

Runs(p) == proc[p].at \in {"working", "ending"}

Typed ==
    /\ log \in Seq(Revision) /\ TypeOK
    /\ queue # None => queue \in [is : {"merge", "write"}, parents : SUBSET (DOMAIN log)]
    /\ proc \in [Procs -> {Off} \cup Opened \cup Lent \cup Working \cup Ending]
    /\ \A p \in Procs : proc[p].at \in {"lent", "working"} => proc[p].base \subseteq DOMAIN log
    /\ faults \in Nat /\ calls \in Nat /\ lost \in Nat

\* The sequence n passes over no news but what is in the set.
Passed(n, given) == n \in 0..Len(log) /\ \A r \in 2..n : IsNews(r) => r \in given

IInv ==
    /\ Typed
    /\ Passed(memory.last, handed)
    /\ \A p \in Procs : Runs(p) =>
         /\ Passed(proc[p].from, handed)
         /\ Passed(proc[p].latest, handed \cup proc[p].changed)

-----------------------------------------------------------------------------
(* The log.                                                                *)

LEMMA MaxIn ==
  ASSUME NEW n \in Nat, NEW S, S \subseteq 0..n, S # {}
  PROVE  Max(S) \in S
<1> DEFINE T == {n - k : k \in S}
<1>1. T \subseteq Nat /\ T # {}
  <2>1. PICK k \in S : TRUE
    OBVIOUS
  <2>2. n - k \in T
    BY <2>1
  <2>3. \A j \in S : j \in Int /\ 0 <= j /\ j <= n
    OBVIOUS
  <2> QED BY <2>2, <2>3
<1>2. PICK x \in T : \A y \in T : ~(<<y, x>> \in OpToRel(<, Nat))
  BY <1>1, NatLessThanWellFounded, WFMin, Zenon
<1>3. \A y \in T : ~(y < x)
  BY <1>1, <1>2 DEF OpToRel
<1>4. PICK k \in S : x = n - k
  OBVIOUS
<1>5. \A j \in S : k >= j
  BY SMTT(60), <1>3, <1>4
<1> QED BY <1>4, <1>5 DEF Max

LEMMA HeadsWithin == ASSUME NEW l PROVE Heads(l) \subseteq DOMAIN l
BY DEF Heads

\* What a run would remember is a place in the log.
LEMMA LatestWithin ==
  ASSUME NEW l \in Seq(Revision), NEW after \in 0..Len(l)
  PROVE  Latest(l, after) \in 0..Len(l)
<1>1. {after} \cup Heads(l) \subseteq 0..Len(l) /\ {after} \cup Heads(l) # {}
  BY HeadsWithin
<1>2. Max({after} \cup Heads(l)) \in {after} \cup Heads(l)
  <2>1. Len(l) \in Nat
    OBVIOUS
  <2> QED BY <1>1, <2>1, MaxIn
<1> QED BY <1>1, <1>2 DEF Latest

\* One revision more, whose parents are there.
Grows ==
    \/ log' = log
    \/ \E who \in {"person", "me", "other"}, parents \in SUBSET (DOMAIN log), text \in 1..(Len(log) + 1) :
         log' = Write(who, parents, text)

LEMMA GrowsTyped ==
  ASSUME log \in Seq(Revision), TypeOK, Grows
  PROVE  /\ log' \in Seq(Revision) /\ Len(log') >= Len(log) /\ DOMAIN log \subseteq DOMAIN log'
         /\ \A i \in DOMAIN log : log'[i] = log[i]
         /\ \A i \in DOMAIN log' : /\ log'[i].by \in {"person", "me", "other"}
                                   /\ log'[i].parents \subseteq 1..(i - 1)
                                   /\ log'[i].text \in 1..i
<1>1. CASE log' = log
  BY <1>1 DEF TypeOK
<1>2. ASSUME NEW who \in {"person", "me", "other"}, NEW parents \in SUBSET (DOMAIN log),
             NEW text \in 1..(Len(log) + 1), log' = Write(who, parents, text)
      PROVE  /\ log' \in Seq(Revision) /\ Len(log') >= Len(log) /\ DOMAIN log \subseteq DOMAIN log'
             /\ \A i \in DOMAIN log : log'[i] = log[i]
             /\ \A i \in DOMAIN log' : /\ log'[i].by \in {"person", "me", "other"}
                                       /\ log'[i].parents \subseteq 1..(i - 1)
                                       /\ log'[i].text \in 1..i
  <2> DEFINE e == [by |-> who, parents |-> parents, text |-> text]
  <2>1. e \in Revision /\ e.by = who /\ e.parents = parents /\ e.text = text
    BY DEF Revision
  <2> HIDE DEF e
  <2>2. log' = Append(log, e)
    BY <1>2 DEF Write, e
  <2>3. /\ log' \in Seq(Revision) /\ Len(log') = Len(log) + 1 /\ DOMAIN log = 1..Len(log)
        /\ DOMAIN log' = 1..(Len(log) + 1) /\ log'[Len(log) + 1] = e
        /\ \A i \in DOMAIN log : log'[i] = log[i]
    BY <2>1, <2>2
  <2>4. ASSUME NEW i \in DOMAIN log'
        PROVE  /\ log'[i].by \in {"person", "me", "other"}
               /\ log'[i].parents \subseteq 1..(i - 1)
               /\ log'[i].text \in 1..i
    <3>1. CASE i \in DOMAIN log
      BY <2>3, <3>1 DEF TypeOK
    <3>2. CASE i = Len(log) + 1
      BY <2>1, <2>3, <3>2
    <3> QED BY <2>3, <3>1, <3>2
  <2> QED BY <2>3, <2>4
<1> QED BY <1>1, <1>2 DEF Grows

\* News in the longer log was news in the shorter one.
LEMMA NewsWasNews ==
  ASSUME log \in Seq(Revision), TypeOK, Grows, NEW r \in DOMAIN log, IsNews(r)'
  PROVE  IsNews(r)
<1>1. /\ DOMAIN log \subseteq DOMAIN log' /\ \A i \in DOMAIN log : log'[i] = log[i]
      /\ \A i \in DOMAIN log : log[i].parents \subseteq DOMAIN log
  <2>1. \A i \in DOMAIN log : log[i].parents \subseteq 1..(i - 1) /\ 1..(i - 1) \subseteq DOMAIN log
    BY DEF TypeOK
  <2> QED BY <2>1, GrowsTyped
<1>2. r > 1 /\ r \in Heads(log') /\ log[r].by = "person"
  BY <1>1 DEF IsNews
<1>3. r \in Heads(log)
  BY <1>1, <1>2 DEF Heads, Parents
<1>4. ASSUME NEW i \in DOMAIN log, log[i].by = "me", NEW before \in log[i].parents
      PROVE  log[before].text # log[r].text
  <2>1. i \in DOMAIN log' /\ log'[i] = log[i] /\ log'[before] = log[before] /\ log'[r] = log[r]
    BY <1>1, <1>4
  <2> QED BY <1>4, <2>1 DEF IsNews
<1> QED BY <1>2, <1>3, <1>4 DEF IsNews

LEMMA PassedStays ==
  ASSUME log \in Seq(Revision), TypeOK, Grows, NEW n, NEW given, NEW more, Passed(n, given), given \subseteq more
  PROVE  n \in 0..Len(log') /\ \A r \in 2..n : IsNews(r)' => r \in more
<1>1. n \in 0..Len(log) /\ Len(log') >= Len(log) /\ Len(log) \in Nat /\ Len(log') \in Nat
  BY GrowsTyped DEF Passed
<1>2. \A r \in 2..n : r \in DOMAIN log
  BY <1>1
<1> QED BY <1>1, <1>2, NewsWasNews DEF Passed

\* The part of the log a process has read.
Read(view) ==
    /\ view \in Seq(Revision) /\ memory.last \in 0..Len(view) /\ Len(view) <= Len(log')
    /\ \A i \in DOMAIN view : view[i] = log'[i]

\* What the run is given is all the news there is, in what it has read, past the
\* sequence it begins from; and no further does the sequence it remembers go.
LEMMA GivenAll ==
  ASSUME log \in Seq(Revision), TypeOK, Grows, Passed(memory.last, handed), NEW view, Read(view)
  PROVE  /\ Latest(view, memory.last) \in 0..Len(log')
         /\ \A r \in 2..Latest(view, memory.last) :
              IsNews(r)' => r \in handed \cup PeopleChanges(view, memory.last)
<1>1. /\ memory.last \in 0..Len(log') /\ log' \in Seq(Revision)
      /\ \A r \in 2..memory.last : IsNews(r)' => r \in handed
  BY PassedStays, GrowsTyped
<1>2. /\ Latest(view, memory.last) \in 0..Len(view) /\ Len(view) \in Nat
      /\ DOMAIN view = 1..Len(view) /\ DOMAIN view \subseteq DOMAIN log'
  BY <1>1, LatestWithin DEF Read
<1>3. ASSUME NEW r \in 2..Latest(view, memory.last), IsNews(r)', r > memory.last
      PROVE  r \in PeopleChanges(view, memory.last)
  <2>1. r \in DOMAIN view /\ view[r] = log'[r] /\ log'[r].by = "person"
    BY <1>2, <1>3 DEF IsNews, Read
  <2>2. \A i \in DOMAIN view : view[i] = log'[i] /\ i \in DOMAIN log'
    BY <1>2 DEF Read
  <2>3. r \in Heads(view)
    BY <1>3, <2>1, <2>2 DEF IsNews, Heads, Parents
  <2>4. ~Reverts(view, r)
    <3>1. SUFFICES ASSUME NEW i \in DOMAIN view, view[i].by = "me", NEW before \in view[i].parents,
                          view[before].text = view[r].text
                   PROVE  FALSE
      BY DEF Reverts
    <3>2. before \in DOMAIN view
      BY <1>2, <2>2, <3>1, GrowsTyped
    <3> QED BY <1>3, <2>1, <2>2, <3>1, <3>2 DEF IsNews
  <2> QED BY <1>3, <2>1, <2>3, <2>4 DEF PeopleChanges
<1> QED BY <1>1, <1>2, <1>3

-----------------------------------------------------------------------------
(* Who makes the log longer.                                               *)

QueueOver(l) == queue # None => queue \in [is : {"merge", "write"}, parents : SUBSET (DOMAIN l)]

LEMMA SyncGrows ==
  ASSUME Typed, Sync
  PROVE  Grows /\ (queue' # None => queue' \in [is : {"merge", "write"}, parents : SUBSET (DOMAIN log')])
<1>1. Grows
  <2>1. CASE Accepted
    <3>1. queue.parents \in SUBSET (DOMAIN log) /\ Len(log) + 1 \in 1..(Len(log) + 1)
      BY <2>1 DEF Typed, Accepted
    <3> QED BY <2>1, <3>1 DEF Sync, Sent, Grows
  <2>2. CASE ~Accepted
    BY <2>2 DEF Sync, Sent, Grows
  <2> QED BY <2>1, <2>2
<1>2. DOMAIN log \subseteq DOMAIN log' /\ log' = Sent
  BY <1>1, GrowsTyped DEF Typed, Sync
<1>3. Heads(Sent) \subseteq DOMAIN log'
  BY <1>2, HeadsWithin
<1>4. queue' \in {[is |-> "merge", parents |-> Heads(Sent)], queue, None}
  BY DEF Sync
<1> QED BY <1>1, <1>2, <1>3, <1>4 DEF Typed

\* However a sync ends, what follows it decides on a part of the log.
LEMMA SeesRead ==
  ASSUME Typed, NEW view \in Views, SyncSees(view)
  PROVE  /\ Grows /\ Read(view)
         /\ queue' # None => queue' \in [is : {"merge", "write"}, parents : SUBSET (DOMAIN log')]
         /\ faults' \in Nat
<1>1. Sync \/ UNCHANGED <<log, queue>>
  BY DEF SyncSees
<1>2. Grows /\ (queue' # None => queue' \in [is : {"merge", "write"}, parents : SUBSET (DOMAIN log')])
  <2>1. CASE Sync
    BY <2>1, SyncGrows
  <2>2. CASE UNCHANGED <<log, queue>>
    BY <2>2 DEF Grows, Typed
  <2> QED BY <1>1, <2>1, <2>2
<1>3. /\ log' \in Seq(Revision) /\ log \in Seq(Revision) /\ Len(log') >= Len(log)
      /\ \A i \in DOMAIN log : log'[i] = log[i]
      /\ memory.last \in 0..Len(log)
  BY <1>2, GrowsTyped DEF Typed, TypeOK
<1>4. ASSUME view = Sent, log' = Sent PROVE Read(view)
  BY <1>3, <1>4 DEF Read
<1>5. ASSUME NEW n \in memory.last..Len(log), view = SubSeq(log, 1, n) PROVE Read(view)
  <2>1. view \in Seq(Revision) /\ Len(view) = n /\ \A i \in 1..n : view[i] = log[i]
    BY <1>3, <1>5
  <2> QED BY <1>3, <2>1 DEF Read
<1>6. (view = Sent /\ log' = Sent) \/ \E n \in memory.last..Len(log) : view = SubSeq(log, 1, n)
  BY DEF Views, SyncSees, Sync
<1>7. faults' \in Nat
  BY DEF SyncSees, Typed
<1> QED BY <1>2, <1>4, <1>5, <1>6, <1>7

LEMMA PeopleGrow ==
  ASSUME Typed, People
  PROVE  Grows /\ UNCHANGED <<queue, memory, lock, proc, ghosts, sessions>> /\ faults' \in Nat
<1>1. Heads(log) \in SUBSET (DOMAIN log) /\ Len(log) \in Nat
  BY HeadsWithin DEF Typed
<1>2. ASSUME NEW who \in {"person", "other"}, Edit(who) PROVE Grows /\ faults' \in Nat
  <2>1. PICK read \in DOMAIN log : \E parents \in {{read}, Heads(log)} :
               log' = Write(who, parents, Len(log) + 1)
    BY <1>2 DEF Edit
  <2>2. PICK parents \in {{read}, Heads(log)} : log' = Write(who, parents, Len(log) + 1)
    BY <2>1
  <2>3. parents \in SUBSET (DOMAIN log) /\ Len(log) + 1 \in 1..(Len(log) + 1)
    BY <1>1, <2>2
  <2> QED BY <1>2, <2>2, <2>3 DEF Edit, Grows, Typed
<1>3. CASE Undo
  <2>0. PICK r \in Heads(log) : \E before \in log[r].parents, parents \in {{r}, Heads(log)} :
               log' = Write("person", parents, log[before].text)
    BY <1>3 DEF Undo
  <2>1. PICK before \in log[r].parents, parents \in {{r}, Heads(log)} :
               log' = Write("person", parents, log[before].text)
    BY <2>0
  <2>2. r \in DOMAIN log /\ before \in 1..(r - 1) /\ log[r].parents \subseteq 1..(r - 1)
    BY <1>1, <2>1 DEF Typed, TypeOK
  <2>3. r \in 1..Len(log) /\ before \in DOMAIN log
    BY <2>2 DEF Typed
  <2>4. log[before].text \in 1..(Len(log) + 1)
    BY <2>2, <2>3 DEF Typed, TypeOK
  <2>5. parents \in SUBSET (DOMAIN log)
    BY <1>1, <2>1
  <2>6. Grows
    BY <2>1, <2>4, <2>5 DEF Grows
  <2> QED BY <1>3, <2>6 DEF Undo, Typed
<1>4. CASE EditTask
  BY <1>4 DEF EditTask, Grows, Typed
<1> QED BY <1>2, <1>3, <1>4 DEF People, Edit

LEMMA NextGrows == Typed /\ [Next]_vars => Grows
<1> SUFFICES ASSUME Typed, [Next]_vars PROVE Grows
  OBVIOUS
<1>1. CASE log' = log
  BY <1>1 DEF Grows
<1>2. CASE Sync
  BY <1>2, SyncGrows
<1>3. CASE People
  BY <1>3, PeopleGrow
<1>4. CASE UNCHANGED vars \/ IntervalEnds \/ Midnight \/ ServiceOpens \/ SessionOpens \/ McpWrites \/ McpEnds
  BY <1>1, <1>4 DEF vars, world, IntervalEnds, Midnight, ServiceOpens, SessionOpens, McpWrites, McpEnds
<1>5. CASE McpSyncs
  BY <1>5, SeesRead DEF McpSyncs
<1>6. ASSUME NEW p \in Procs, AcquireEnd(p) \/ Run(p) \/ SyncFails(p) \/ Crash(p) PROVE Grows
  <2>1. CASE AcquireEnd(p) \/ Crash(p)
    BY <1>1, <2>1 DEF AcquireEnd, Crash, world
  <2>2. CASE SyncFails(p)
    BY <1>1, <1>2, <2>2 DEF SyncFails
  <2>3. CASE RunSkips(p) \/ RunBegins(p)
    BY <2>3, SeesRead DEF RunSkips, RunBegins
  <2>4. CASE RunEnds(p)
    BY <1>1, <1>2, <2>4 DEF RunEnds
  <2>5. CASE RunWrites(p) \/ RunSaves(p)
    BY <1>1, <2>5 DEF RunWrites, RunSaves, world
  <2> QED BY <1>6, <2>1, <2>2, <2>3, <2>4, <2>5 DEF Run
<1> QED BY <1>3, <1>4, <1>5, <1>6 DEF Next

-----------------------------------------------------------------------------
(* Types.                                                                  *)

LEMMA InitTyped == Init => Typed
<1> SUFFICES ASSUME Init PROVE Typed
  OBVIOUS
<1> DEFINE e == [by |-> "person", parents |-> {}, text |-> 1]
<1>1. e \in Revision /\ e.by = "person" /\ e.parents = {} /\ e.text = 1
  BY DEF Revision
<1> HIDE DEF e
<1>2. log = <<e>> /\ log \in Seq(Revision) /\ Len(log) = 1 /\ DOMAIN log = {1} /\ log[1] = e
  BY <1>1 DEF Init, e
<1>3. proc \in [Procs -> {Off}] /\ \A p \in Procs : proc[p].at = "off"
  BY DEF Init, Off
<1>4. memory \in [last : 0..Len(log), runs : 0..DayCap, today : BOOLEAN, due : BOOLEAN]
  BY <1>2, AgentAssumption DEF Init
<1>5. TypeOK
  BY <1>1, <1>2, <1>3, <1>4 DEF Init, TypeOK
<1>6. queue = None /\ faults = 0 /\ calls = 0 /\ lost = 0
  BY DEF Init
<1> QED BY <1>2, <1>3, <1>5, <1>6 DEF Typed

State == {Off} \cup Opened \cup Lent \cup Working \cup Ending

LEMMA StateAt ==
  ASSUME NEW s \in State
  PROVE  /\ s.at \in {"off", "acquiring", "open", "lent", "working", "ending"}
         /\ s.at = "off" => s = Off
         /\ s.at \in {"acquiring", "open"} => s \in Opened
         /\ s.at = "lent" => s \in Lent
         /\ s.at = "working" => s \in Working
         /\ s.at = "ending" => s \in Ending
BY DEF State, Off, Opened, Lent, Working, Ending

\* What a process becomes: a run goes on with what it was given, until it saves.
GoesOn(s, t) ==
    /\ s \in Working \cup Ending
    /\ t.from = s.from /\ t.latest = s.latest /\ t.changed = s.changed

Becomes(q) ==
    /\ proc'[q] \in State
    /\ proc'[q].at \in {"lent", "working"} => proc'[q].base \subseteq DOMAIN log'
    /\ proc'[q].at \in {"working", "ending"} => GoesOn(proc[q], proc'[q]) \/ RunBegins(q)

LEMMA SameBecomes ==
  ASSUME Typed, Grows, NEW q \in Procs, proc'[q] = proc[q]
  PROVE  Becomes(q)
<1>1. DOMAIN log \subseteq DOMAIN log'
  BY GrowsTyped DEF Typed
<1>2. proc[q] \in State
  BY DEF Typed, State
<1> QED BY <1>1, <1>2, StateAt DEF Typed, Becomes, GoesOn

\* One process steps, to a state in which it does not run.
LEMMA OneBecomes ==
  ASSUME Typed, Grows, NEW p \in Procs, NEW s \in {Off} \cup Opened, proc' = [proc EXCEPT ![p] = s]
  PROVE  \A q \in Procs : Becomes(q)
<1>1. s \in State /\ s.at \notin {"lent", "working", "ending"}
  BY DEF State, Off, Opened
<1>2. proc'[p] = s /\ \A q \in Procs \ {p} : proc'[q] = proc[q]
  BY DEF Typed
<1> QED BY <1>1, <1>2, SameBecomes DEF Becomes

LEMMA OpenedStates ==
  ASSUME NEW kind \in Kinds, NEW token \in Nat
  PROVE  Open(kind, token) \in Opened /\ [at |-> "acquiring", kind |-> kind, token |-> token] \in Opened
BY DEF Open, Opened

\* What a run that begins takes with it from the part of the log it has read.
BeginsOn(p, view) ==
    /\ PeopleChanges(view, memory.last) # {}
    /\ proc' = [proc EXCEPT ![p] = [at |-> "working", kind |-> proc[p].kind, token |-> proc[p].token,
                                    base |-> Heads(view), today |-> TRUE, spent |-> RunsToday + 1,
                                    from |-> memory.last, latest |-> Latest(view, memory.last),
                                    changed |-> PeopleChanges(view, memory.last)]]

LEMMA BeginsSeen ==
  ASSUME NEW p \in Procs, proc \in [Procs -> State], RunBegins(p)
  PROVE  \E view \in Views : SyncSees(view) /\ BeginsOn(p, view)
BY DEF RunBegins, BeginsOn

LEMMA ProcSteps == ASSUME Typed, Next PROVE proc' \in [Procs -> State] /\ \A q \in Procs : Becomes(q)
<1>1. Grows /\ faults \in Nat /\ proc \in [Procs -> State] /\ Off \in {Off} \cup Opened
  BY NextGrows DEF Typed, State
<1> SUFFICES /\ \A q \in Procs : Becomes(q)
             /\ proc' = [q \in Procs |-> proc'[q]]
  BY DEF Becomes
<1>2. CASE UNCHANGED proc
  BY <1>1, <1>2, SameBecomes
<1>3. ASSUME NEW p \in Procs, NEW s \in {Off} \cup Opened, proc' = [proc EXCEPT ![p] = s]
      PROVE  /\ \A q \in Procs : Becomes(q)
             /\ proc' = [q \in Procs |-> proc'[q]]
  BY <1>1, <1>3, OneBecomes
<1>4. CASE Midnight
  <2>1. proc' = [p \in Procs |-> IF Runs(p) THEN [proc[p] EXCEPT !.today = FALSE] ELSE proc[p]]
    BY <1>4 DEF Midnight, Runs
  <2>2. UNCHANGED log
    BY <1>4 DEF Midnight, world
  <2>3. ASSUME NEW q \in Procs, Runs(q) PROVE Becomes(q)
    <3>1. proc'[q] = [proc[q] EXCEPT !.today = FALSE] /\ proc[q] \in Working \cup Ending
      BY <1>1, <2>1, <2>3, StateAt DEF Runs
    <3>2. CASE proc[q] \in Working
      <4>1. proc'[q] \in Working /\ proc'[q].base = proc[q].base /\ proc[q].at = "working"
            /\ GoesOn(proc[q], proc'[q])
        BY <3>1, <3>2 DEF Working, GoesOn
      <4> QED BY <2>2, <4>1 DEF Becomes, State, Typed
    <3>3. CASE proc[q] \in Ending
      <4>1. proc'[q] \in Ending /\ proc'[q].at = "ending" /\ GoesOn(proc[q], proc'[q])
        BY <3>1, <3>3 DEF Ending, GoesOn
      <4> QED BY <4>1 DEF Becomes, State
    <3> QED BY <3>1, <3>2, <3>3
  <2>4. ASSUME NEW q \in Procs, ~Runs(q) PROVE Becomes(q)
    BY <1>1, <2>1, <2>4, SameBecomes
  <2> QED BY <2>1, <2>3, <2>4
<1>5. CASE ServiceOpens \/ SessionOpens
  <2>1. PICK p \in Procs, kind \in Kinds : Acquire(p, kind, faults)
    BY <1>5 DEF ServiceOpens, SessionOpens, Procs, Kinds
  <2> QED BY <1>1, <1>3, <2>1, OpenedStates DEF Acquire
<1>6. ASSUME NEW p \in Procs, AcquireEnd(p)
      PROVE  /\ \A q \in Procs : Becomes(q)
             /\ proc' = [q \in Procs |-> proc'[q]]
  <2>1. proc[p] \in Opened /\ proc' = [proc EXCEPT ![p] = Open(proc[p].kind, proc[p].token)]
    BY <1>1, <1>6, StateAt DEF AcquireEnd
  <2>2. proc[p].kind \in Kinds /\ proc[p].token \in Nat
    BY <2>1 DEF Opened
  <2> QED BY <1>3, <2>1, <2>2, OpenedStates
<1>7. ASSUME NEW p \in Procs, Rest(p), proc[p].at \in {"open", "ending"}
      PROVE  /\ \A q \in Procs : Becomes(q)
             /\ proc' = [q \in Procs |-> proc'[q]]
  <2>1. proc[p].token \in Nat
    BY <1>1, <1>7, StateAt DEF Opened, Ending
  <2>2. Open("run", proc[p].token) \in Opened
    BY <2>1, OpenedStates DEF Kinds
  <2>3. proc' = [proc EXCEPT ![p] = Off] \/ proc' = [proc EXCEPT ![p] = Open("run", proc[p].token)]
    BY <1>1, <1>7 DEF Rest, Release
  <2> QED BY <1>1, <1>3, <2>2, <2>3
<1>8. ASSUME NEW p \in Procs, RunBegins(p)
      PROVE  /\ \A q \in Procs : Becomes(q)
             /\ proc' = [q \in Procs |-> proc'[q]]
  <2>0. PICK view \in Views : SyncSees(view) /\ BeginsOn(p, view)
    BY <1>1, <1>8, BeginsSeen
  <2> DEFINE s == [at |-> "working", kind |-> proc[p].kind, token |-> proc[p].token,
                   base |-> Heads(view), today |-> TRUE, spent |-> RunsToday + 1,
                   from |-> memory.last, latest |-> Latest(view, memory.last),
                   changed |-> PeopleChanges(view, memory.last)]
  <2>1. proc' = [proc EXCEPT ![p] = s] /\ proc[p].at = "open" /\ RunsToday < DayCap
    BY <1>1, <1>8, <2>0 DEF RunBegins, BeginsOn, Runner
  <2>2. Heads(view) \subseteq DOMAIN view /\ view \in Seq(Revision) /\ memory.last \in 0..Len(view)
        /\ Len(view) \in Nat /\ DOMAIN view = 1..Len(view) /\ DOMAIN view \subseteq DOMAIN log'
    BY <1>1, <2>0, HeadsWithin, SeesRead, GrowsTyped DEF Typed, Read
  <2>3. Latest(view, memory.last) \in Nat /\ PeopleChanges(view, memory.last) \in SUBSET Nat
    BY <2>2, LatestWithin DEF PeopleChanges
  <2>4. RunsToday + 1 \in 1..DayCap
    BY <2>1, AgentAssumption DEF RunsToday, Typed, TypeOK
  <2>5. proc[p].kind \in Kinds /\ proc[p].token \in Nat
    BY <1>1, <2>1, StateAt DEF Opened
  <2>6. s \in Working /\ s.base = Heads(view) /\ s.at = "working"
    BY <2>2, <2>3, <2>4, <2>5 DEF Working
  <2> HIDE DEF s
  <2>7. proc'[p] = s /\ \A q \in Procs \ {p} : proc'[q] = proc[q]
    BY <1>1, <2>1
  <2>8. Becomes(p)
    BY <1>8, <2>1, <2>2, <2>6, <2>7 DEF Becomes, State
  <2> QED BY <1>1, <2>1, <2>7, <2>8, SameBecomes
<1>9. ASSUME NEW p \in Procs, RunEnds(p)
      PROVE  /\ \A q \in Procs : Becomes(q)
             /\ proc' = [q \in Procs |-> proc'[q]]
  <2>1. PICK ok \in BOOLEAN :
          proc' = [proc EXCEPT ![p] = [at |-> "ending", kind |-> proc[p].kind, token |-> proc[p].token,
                                       ok |-> ok, today |-> proc[p].today, spent |-> proc[p].spent,
                                       from |-> proc[p].from, latest |-> proc[p].latest,
                                       changed |-> proc[p].changed]]
    BY <1>1, <1>9 DEF RunEnds
  <2> DEFINE s == [at |-> "ending", kind |-> proc[p].kind, token |-> proc[p].token,
                   ok |-> ok, today |-> proc[p].today, spent |-> proc[p].spent,
                   from |-> proc[p].from, latest |-> proc[p].latest, changed |-> proc[p].changed]
  <2>2. proc[p] \in Working
    BY <1>1, <1>9, StateAt DEF RunEnds
  <2>3. s \in Ending /\ s.at = "ending" /\ GoesOn(proc[p], s)
    BY <2>2 DEF Working, Ending, GoesOn
  <2> HIDE DEF s
  <2>4. proc' = [proc EXCEPT ![p] = s]
    BY <2>1 DEF s
  <2>5. proc'[p] = s /\ \A q \in Procs \ {p} : proc'[q] = proc[q]
    BY <1>1, <2>4
  <2>6. Becomes(p)
    BY <2>3, <2>5 DEF Becomes, State
  <2> QED BY <1>1, <2>4, <2>5, <2>6, SameBecomes
<1>10. CASE McpSyncs
  <2> DEFINE p == "session"
  <2>0. PICK view \in Views :
          /\ SyncSees(view)
          /\ proc' = [proc EXCEPT ![p] = [at |-> "lent", kind |-> "mcp", token |-> proc[p].token,
                                          base |-> Heads(view)]]
    BY <1>1, <1>10 DEF McpSyncs, Procs
  <2> DEFINE s == [at |-> "lent", kind |-> "mcp", token |-> proc[p].token, base |-> Heads(view)]
  <2>1. proc' = [proc EXCEPT ![p] = s] /\ proc[p].at \in {"open", "lent"} /\ p \in Procs
    BY <1>10, <2>0 DEF McpSyncs, Procs
  <2>2. Heads(view) \subseteq DOMAIN log' /\ DOMAIN view = 1..Len(view)
    BY <1>1, <2>0, HeadsWithin, SeesRead, GrowsTyped DEF Typed, Read
  <2>3. proc[p].token \in Nat
    BY <1>1, <2>1, StateAt DEF Opened, Lent
  <2>4. s \in Lent /\ s.base = Heads(view) /\ s.at = "lent"
    <3>1. DOMAIN log' \subseteq Nat
      BY <1>1, GrowsTyped DEF Typed
    <3> QED BY <2>2, <2>3, <3>1 DEF Lent, Kinds
  <2> HIDE DEF s, p
  <2>5. proc'[p] = s /\ \A q \in Procs \ {p} : proc'[q] = proc[q]
    BY <1>1, <2>1
  <2>6. Becomes(p)
    BY <2>1, <2>2, <2>4, <2>5 DEF Becomes, State
  <2> QED BY <1>1, <2>1, <2>5, <2>6, SameBecomes
<1>11. CASE McpEnds
  BY <1>1, <1>3, <1>11 DEF McpEnds, Release, Procs
<1>12. ASSUME NEW p \in Procs, SyncFails(p) \/ Crash(p)
       PROVE  /\ \A q \in Procs : Becomes(q)
              /\ proc' = [q \in Procs |-> proc'[q]]
  BY <1>1, <1>3, <1>12 DEF SyncFails, Crash, Release
<1>13. ASSUME NEW p \in Procs, RunSkips(p) \/ RunSaves(p)
       PROVE  /\ \A q \in Procs : Becomes(q)
              /\ proc' = [q \in Procs |-> proc'[q]]
  BY <1>7, <1>13 DEF RunSkips, RunSaves, Runner
<1>14. ASSUME NEW p \in Procs, RunWrites(p)
       PROVE  /\ \A q \in Procs : Becomes(q)
              /\ proc' = [q \in Procs |-> proc'[q]]
  BY <1>2, <1>14 DEF RunWrites
<1>15. CASE People \/ IntervalEnds \/ McpWrites
  BY <1>2, <1>15, PeopleGrow DEF IntervalEnds, McpWrites
<1> QED BY <1>4, <1>5, <1>6, <1>8, <1>9, <1>10, <1>11, <1>12, <1>13, <1>14, <1>15 DEF Next, Run

-----------------------------------------------------------------------------
(* Nothing is passed over.                                                 *)

\* The sequence runner.json holds after a step.
LEMMA MemorySteps ==
  ASSUME IInv, Next
  PROVE  /\ memory' \in [last : 0..Len(log'), runs : 0..DayCap, today : BOOLEAN, due : BOOLEAN]
         /\ handed \subseteq handed'
         /\ \A r \in 2..memory'.last : IsNews(r)' => r \in handed'
<1>1. /\ memory \in [last : 0..Len(log), runs : 0..DayCap, today : BOOLEAN, due : BOOLEAN]
      /\ Len(log) \in Nat /\ Len(log') \in Nat /\ Len(log) <= Len(log') /\ log' \in Seq(Revision)
      /\ Typed /\ Grows /\ TypeOK /\ log \in Seq(Revision) /\ Passed(memory.last, handed)
  BY NextGrows, GrowsTyped DEF IInv, Typed, TypeOK
<1>2. ASSUME handed \subseteq handed'
      PROVE  memory.last \in 0..Len(log') /\ \A r \in 2..memory.last : IsNews(r)' => r \in handed'
  BY <1>1, <1>2, PassedStays
<1>3. CASE memory' = memory /\ handed' = handed
  BY <1>1, <1>2, <1>3
<1>4. CASE IntervalEnds \/ Midnight
  <2>1. handed' = handed /\ memory' \in [last : {memory.last}, runs : 0..DayCap, today : BOOLEAN, due : BOOLEAN]
    BY <1>1, <1>4 DEF IntervalEnds, Midnight, ghosts
  <2> QED BY <1>1, <1>2, <2>1
<1>5. ASSUME NEW p \in Procs, RunSkips(p), memory' # memory
      PROVE  /\ memory' \in [last : 0..Len(log'), runs : 0..DayCap, today : BOOLEAN, due : BOOLEAN]
             /\ \A r \in 2..memory'.last : IsNews(r)' => r \in handed'
             /\ handed' = handed
  <2>1. PICK view \in Views :
          /\ SyncSees(view) /\ PeopleChanges(view, memory.last) = {}
          /\ memory' = [memory EXCEPT !.last = Latest(view, memory.last)]
    BY <1>1, <1>5 DEF RunSkips
  <2>2. /\ Latest(view, memory.last) \in 0..Len(log')
        /\ \A r \in 2..Latest(view, memory.last) : IsNews(r)' => r \in handed
    BY <1>1, <2>1, GivenAll, SeesRead
  <2>3. handed' = handed
    BY <1>5 DEF RunSkips, ghosts
  <2> QED BY <1>1, <2>1, <2>2, <2>3
<1>6. ASSUME NEW p \in Procs, RunSaves(p)
      PROVE  /\ memory' \in [last : 0..Len(log'), runs : 0..DayCap, today : BOOLEAN, due : BOOLEAN]
             /\ \A r \in 2..memory'.last : IsNews(r)' => r \in handed'
             /\ handed \subseteq handed'
  <2>1. proc[p] \in Ending /\ Runs(p) /\ log' = log
    BY <1>1, <1>6, StateAt DEF RunSaves, Typed, State, Runs, world
  <2>2. Passed(proc[p].from, handed) /\ Passed(proc[p].latest, handed \cup proc[p].changed)
    BY <2>1 DEF IInv
  <2>3. /\ memory' = [last |-> KeptSequence(p), runs |-> Spent(p), today |-> proc[p].today, due |-> FALSE]
        /\ handed' = IF proc[p].ok THEN handed \cup proc[p].changed ELSE handed
    BY <1>6 DEF RunSaves
  <2>4. Passed(KeptSequence(p), handed')
    BY <2>1, <2>2, <2>3 DEF KeptSequence, Ending
  <2>5. KeptSequence(p) \in 0..Len(log') /\ \A r \in 2..KeptSequence(p) : IsNews(r)' => r \in handed'
    BY <1>1, <2>4, PassedStays
  <2>6. Spent(p) \in 0..DayCap /\ proc[p].today \in BOOLEAN
    BY <2>1 DEF Spent, Ending
  <2> QED BY <2>3, <2>5, <2>6
<1>7. ASSUME NEW p \in Procs, ~RunSkips(p), ~RunSaves(p), AcquireEnd(p) \/ Run(p) \/ SyncFails(p) \/ Crash(p)
      PROVE  memory' = memory /\ handed' = handed
  BY <1>7 DEF AcquireEnd, Run, RunBegins, RunWrites, RunEnds, SyncFails, Crash, ghosts
<1>8. CASE People \/ ServiceOpens \/ SessionOpens \/ McpSyncs \/ McpWrites \/ McpEnds
  BY <1>1, <1>3, <1>8, PeopleGrow DEF ServiceOpens, SessionOpens, McpSyncs, McpWrites, McpEnds, ghosts
<1>9. ASSUME NEW p \in Procs, RunSkips(p) PROVE memory' # memory \/ handed' = handed
  BY <1>9 DEF RunSkips, ghosts
<1> QED BY <1>3, <1>4, <1>5, <1>6, <1>7, <1>8, <1>9 DEF Next

LEMMA TypedStays == ASSUME IInv, Next PROVE Typed'
<1>1. Typed /\ Grows /\ TypeOK /\ log \in Seq(Revision)
  BY NextGrows DEF IInv, Typed
<1>2. /\ log' \in Seq(Revision) /\ DOMAIN log \subseteq DOMAIN log'
      /\ \A i \in DOMAIN log' : /\ log'[i].by \in {"person", "me", "other"}
                                /\ log'[i].parents \subseteq 1..(i - 1)
                                /\ log'[i].text \in 1..i
  BY <1>1, GrowsTyped
<1>3. proc' \in [Procs -> State] /\ \A q \in Procs : Becomes(q)
  BY <1>1, ProcSteps
<1>4. memory' \in [last : 0..Len(log'), runs : 0..DayCap, today : BOOLEAN, due : BOOLEAN]
  BY MemorySteps
<1>5. task' \in BOOLEAN
  BY <1>1 DEF TypeOK, Next, People, Edit, Undo, EditTask, IntervalEnds, Midnight, ServiceOpens, SessionOpens,
     AcquireEnd, Run, RunSkips, RunBegins, RunWrites, RunEnds, RunSaves, SyncFails, Crash, McpSyncs, McpWrites,
     McpEnds, world
<1>6. TypeOK'
  BY <1>2, <1>3, <1>4, <1>5, StateAt DEF TypeOK
<1>7. queue' # None => queue' \in [is : {"merge", "write"}, parents : SUBSET (DOMAIN log')]
  <2>1. CASE queue' = queue
    BY <1>1, <1>2, <2>1 DEF Typed
  <2>2. CASE Sync
    BY <1>1, <2>2, SyncGrows
  <2>3. ASSUME NEW p \in Procs, proc[p].base \subseteq DOMAIN log, NEW head \in proc[p].base,
               queue' = [is |-> "write", parents |-> {head}]
        PROVE  queue' \in [is : {"merge", "write"}, parents : SUBSET (DOMAIN log')]
    BY <1>2, <2>3
  <2>4. ASSUME NEW p \in Procs, AcquireEnd(p) \/ Run(p) \/ SyncFails(p) \/ Crash(p)
        PROVE  queue' # None => queue' \in [is : {"merge", "write"}, parents : SUBSET (DOMAIN log')]
    <3>1. CASE RunWrites(p)
      BY <1>1, <2>3, <3>1 DEF RunWrites, Typed
    <3>2. CASE RunSkips(p) \/ RunBegins(p)
      BY <1>1, <3>2, SeesRead DEF RunSkips, RunBegins
    <3>4. CASE RunEnds(p) \/ SyncFails(p)
      BY <2>1, <2>2, <3>4 DEF RunEnds, SyncFails
    <3>3. CASE RunSaves(p) \/ AcquireEnd(p) \/ Crash(p)
      BY <2>1, <3>3 DEF RunSaves, AcquireEnd, Crash
    <3> QED BY <2>4, <3>1, <3>2, <3>3, <3>4 DEF Run
  <2>5. CASE McpSyncs
    BY <1>1, <2>5, SeesRead DEF McpSyncs
  <2>6. CASE McpWrites
    BY <1>1, <2>3, <2>6 DEF McpWrites, Typed, Procs
  <2>7. CASE People \/ IntervalEnds \/ Midnight \/ ServiceOpens \/ SessionOpens \/ McpEnds
    BY <1>1, <2>1, <2>7, PeopleGrow DEF IntervalEnds, Midnight, ServiceOpens, SessionOpens, McpEnds
  <2> QED BY <2>4, <2>5, <2>6, <2>7 DEF Next
<1>8. faults' \in Nat
  <2>1. CASE McpSyncs \/ \E p \in Procs : RunSkips(p) \/ RunBegins(p)
    BY <1>1, <2>1, SeesRead DEF McpSyncs, RunSkips, RunBegins
  <2> QED BY <1>1, <2>1, PeopleGrow DEF Typed, Next, IntervalEnds, Midnight, ServiceOpens, SessionOpens,
          AcquireEnd, Run, RunWrites, RunEnds, RunSaves, SyncFails, Crash, McpWrites, McpEnds
<1>9. calls' \in Nat /\ lost' \in Nat
  BY <1>1, PeopleGrow DEF Typed, Next, IntervalEnds, Midnight, ServiceOpens, SessionOpens,
     AcquireEnd, Run, RunSkips, RunBegins, RunWrites, RunEnds, RunSaves, SyncFails, Crash, McpSyncs, McpWrites,
     McpEnds, ghosts
<1> QED BY <1>2, <1>3, <1>6, <1>7, <1>8, <1>9 DEF Typed, State, Becomes

LEMMA InitInvariant == Init => IInv
<1> SUFFICES ASSUME Init PROVE IInv
  OBVIOUS
<1>1. memory.last = 1 /\ Len(log) = 1 /\ \A p \in Procs : proc[p].at = "off"
  BY DEF Init, Off
<1>2. Passed(memory.last, handed)
  BY <1>1 DEF Passed
<1> QED BY InitTyped, <1>1, <1>2 DEF IInv, Runs

LEMMA InvariantStays == IInv /\ [Next]_vars => IInv'
<1> SUFFICES ASSUME IInv, [Next]_vars PROVE IInv'
  OBVIOUS
<1>1. CASE UNCHANGED vars
  <2>1. UNCHANGED <<log, task, queue, memory, lock, proc, handed, calls, lost, sessions, faults>>
    BY <1>1 DEF vars, world, ghosts
  <2>2. Typed'
    BY <2>1 DEF IInv, Typed, TypeOK
  <2>3. \A r : IsNews(r)' = IsNews(r)
    BY <2>1 DEF IsNews
  <2> QED BY <2>1, <2>2, <2>3 DEF IInv, Passed, Runs
<1>2. CASE Next
  <2>1. Typed' /\ TypeOK /\ log \in Seq(Revision) /\ Grows /\ Typed
    BY <1>2, TypedStays, NextGrows DEF IInv, Typed
  <2>2. Passed(memory.last, handed)' /\ handed \subseteq handed'
    BY <1>2, MemorySteps DEF Passed
  <2>3. ASSUME NEW q \in Procs, Runs(q)'
        PROVE  (/\ Passed(proc[q].from, handed)
                /\ Passed(proc[q].latest, handed \cup proc[q].changed))'
    <3>1. GoesOn(proc[q], proc'[q]) \/ RunBegins(q)
      BY <1>2, <2>1, <2>3, ProcSteps DEF Becomes, Runs
    <3>2. CASE GoesOn(proc[q], proc'[q])
      <4>1. Runs(q)
        BY <3>2 DEF GoesOn, Runs, Working, Ending
      <4>2. Passed(proc[q].from, handed) /\ Passed(proc[q].latest, handed \cup proc[q].changed)
        BY <4>1 DEF IInv
      <4>3. proc'[q].from = proc[q].from /\ proc'[q].latest = proc[q].latest /\ proc'[q].changed = proc[q].changed
        BY <3>2 DEF GoesOn
      <4>4. Passed(proc[q].from, handed)'
        BY <2>1, <2>2, <4>2, <4>3, PassedStays DEF Passed
      <4>5. handed \cup proc[q].changed \subseteq handed' \cup proc'[q].changed
        BY <2>2, <4>3
      <4>6. /\ proc[q].latest \in 0..Len(log')
            /\ \A r \in 2..proc[q].latest : IsNews(r)' => r \in handed' \cup proc'[q].changed
        <5> DEFINE n == proc[q].latest
                   given == handed \cup proc[q].changed
                   more == handed' \cup proc'[q].changed
        <5>1. Passed(n, given) /\ given \subseteq more
          BY <4>2, <4>5
        <5> HIDE DEF n, given, more
        <5>2. n \in 0..Len(log') /\ \A r \in 2..n : IsNews(r)' => r \in more
          BY <2>1, <5>1, PassedStays
        <5> QED BY <5>2 DEF n, more
      <4>7. Passed(proc[q].latest, handed \cup proc[q].changed)'
        BY <4>3, <4>6 DEF Passed
      <4> QED BY <4>4, <4>7
    <3>3. CASE RunBegins(q)
      <4>0. PICK view \in Views : SyncSees(view) /\ BeginsOn(q, view)
        BY <2>1, <3>3, BeginsSeen DEF Typed, State
      <4>1. /\ handed' = handed /\ memory' = memory
            /\ proc'[q].from = memory.last /\ proc'[q].latest = Latest(view, memory.last)
            /\ proc'[q].changed = PeopleChanges(view, memory.last)
        BY <2>1, <3>3, <4>0 DEF RunBegins, BeginsOn, Typed
      <4>2. Passed(proc[q].from, handed)'
        BY <2>2, <4>1 DEF Passed
      <4>3. Passed(proc[q].latest, handed \cup proc[q].changed)'
        BY <2>1, <4>0, <4>1, GivenAll, SeesRead DEF IInv, Passed
      <4> QED BY <4>2, <4>3
    <3> QED BY <3>1, <3>2, <3>3
  <2> QED BY <2>1, <2>2, <2>3 DEF IInv
<1> QED BY <1>1, <1>2

LEMMA Invariant == Spec => []IInv
BY InitInvariant, InvariantStays, PTL DEF Spec

\* Whatever the log, the faults and the commands given, and even when two processes
\* take the lock at once: the sequence in runner.json passes over no standing change
\* of a person that no finished run was given.
THEOREM NewsCorrect == Spec => []NothingPassedOver
<1>1. IInv => NothingPassedOver
  BY DEF IInv, Passed, NothingPassedOver
<1> QED BY <1>1, Invariant, PTL

-----------------------------------------------------------------------------
(* One process at a time, and what a day costs.                            *)

Alone ==
    /\ \A p, q \in Procs : p # q /\ Alive(p) => ~Alive(q)
    /\ \A p \in Procs : Holds(p) => lock.is = "held" /\ lock.pid = p

\* What the runs of today have cost: those that count in runner.json, those lost
\* with their process, and the one at work.
DayCounted ==
    /\ (\A p \in Procs : ~Runs(p)) => calls <= lost + RunsToday
    /\ \A p \in Procs : Runs(p) /\ proc[p].today => /\ calls <= lost + proc[p].spent
                                                     /\ proc[p].spent <= RunsToday + 1
    /\ \A p \in Procs : Runs(p) /\ ~proc[p].today => calls <= lost

DayInv == IInv /\ Alone /\ DayCounted

\* A process that is on takes a step and gives the lock back if it ends.
Moves(p) ==
    /\ Alive(p)
    /\ \E s \in State : proc' = [proc EXCEPT ![p] = s]
    /\ Holds(p)' => lock'.is = "held" /\ lock'.pid = p

LEMMA MovesAlone ==
  ASSUME Typed, Alone, NEW p \in Procs, Moves(p)
  PROVE  Alone'
<1>1. PICK s \in State : proc' = [proc EXCEPT ![p] = s]
  BY DEF Moves
<1>2. proc'[p] = s /\ \A q \in Procs \ {p} : proc'[q] = proc[q] /\ proc[q].at = "off"
  BY <1>1 DEF Alone, Moves, Alive, Typed
<1>3. \A q \in Procs : Holds(q)' => q = p
  BY <1>2 DEF Holds
<1>4. \A q \in Procs : Alive(q)' => q = p
  BY <1>2 DEF Alive
<1> QED BY <1>3, <1>4 DEF Alone, Moves

LEMMA StillAlone ==
  ASSUME Alone, UNCHANGED <<proc, lock>>
  PROVE  Alone'
BY DEF Alone, Alive, Holds

\* A process starts only when the other one is off.
LEMMA StartsAlone ==
  ASSUME Typed, Alone, ~Racing, NEW p \in Procs, NEW kind \in Kinds, proc[p] = Off, Acquire(p, kind, faults)
  PROVE  Alone'
<1>1. ASSUME NEW q \in Procs, q # p PROVE proc[q].at = "off"
  <2>1. proc[q].at # "acquiring"
    BY DEF Acquire
  <2>2. ~Holds(q)
    <3>1. SUFFICES ASSUME Holds(q) PROVE FALSE
      OBVIOUS
    <3>2. lock.is = "held" /\ lock.pid = q /\ Alive(q)
      BY <3>1 DEF Alone, Holds, Alive
    <3>3. lock # None
      BY <3>2 DEF None
    <3>4. Held(p, faults, lock)
      BY <1>1, <3>2 DEF Held
    <3> QED BY <3>3, <3>4 DEF Acquire
  <2>3. proc[q] \in State
    BY DEF Typed, State
  <2> QED BY <2>1, <2>2, <2>3, StateAt DEF Holds
<1>2. proc'[p].at = "acquiring" /\ \A q \in Procs \ {p} : proc'[q] = proc[q]
  BY DEF Acquire, Typed
<1>3. \A q \in Procs : Alive(q)' => q = p
  BY <1>1, <1>2 DEF Alive
<1>4. \A q \in Procs : ~Holds(q)'
  BY <1>1, <1>2 DEF Holds
<1> QED BY <1>3, <1>4 DEF Alone

LEMMA AloneStays ==
  ASSUME Typed, Alone, ~Racing, Next
  PROVE  Alone'
<1>1. /\ proc \in [Procs -> State] /\ proc' \in [Procs -> State]
      /\ faults \in Nat /\ Off.at = "off" /\ "session" \in Procs /\ "service" \in Procs
  BY ProcSteps DEF Typed, State, Off, Procs
<1>2. CASE UNCHANGED <<proc, lock>>
  BY <1>2, StillAlone
<1>3. CASE Midnight
  <2>1. lock' = lock /\ proc' = [p \in Procs |-> IF proc[p].at \in {"working", "ending"}
                               THEN [proc[p] EXCEPT !.today = FALSE] ELSE proc[p]]
    BY <1>3 DEF Midnight
  <2>2. \A p \in Procs : proc[p].at = "working" \/ proc[p].at = "ending" => proc[p] \in Working \cup Ending
    BY <1>1, StateAt
  <2>3. \A p \in Procs : proc'[p].at = proc[p].at
    BY <2>1, <2>2 DEF Working, Ending
  <2> QED BY <2>1, <2>3 DEF Alone, Alive, Holds
<1>4. CASE ServiceOpens \/ SessionOpens
  <2>1. PICK p \in Procs, kind \in Kinds : Acquire(p, kind, faults) /\ proc[p] = Off
    BY <1>4 DEF ServiceOpens, SessionOpens, Procs, Kinds
  <2> QED BY <2>1, StartsAlone
<1>5. ASSUME NEW p \in Procs, NEW s, Alive(p), proc' = [proc EXCEPT ![p] = s],
             s.at = "off" \/ (lock'.is = "held" /\ lock'.pid = p)
      PROVE  Alone'
  <2>1. proc'[p] = s /\ s \in State
    BY <1>1, <1>5
  <2>2. Moves(p)
    BY <1>5, <2>1 DEF Moves, Holds
  <2> QED BY <2>2, MovesAlone
<1>6. ASSUME NEW p \in Procs, AcquireEnd(p) PROVE Alone'
  BY <1>5, <1>6 DEF AcquireEnd, Mine, Alive
<1>7. ASSUME NEW p \in Procs, Holds(p) PROVE Alive(p) /\ lock.is = "held" /\ lock.pid = p
  BY <1>7 DEF Alone, Alive, Holds
<1>8. ASSUME NEW p \in Procs, Holds(p), Release(p) \/ Rest(p) PROVE Alone'
  BY <1>1, <1>5, <1>7, <1>8 DEF Release, Rest
<1>9. ASSUME NEW p \in Procs, Holds(p), NEW s, proc' = [proc EXCEPT ![p] = s], lock' = lock PROVE Alone'
  BY <1>5, <1>7, <1>9
<1>10. ASSUME NEW p \in Procs, RunSkips(p) \/ RunSaves(p) \/ SyncFails(p) PROVE Alone'
  BY <1>8, <1>10 DEF RunSkips, RunSaves, SyncFails, Runner, Holds
<1>11. ASSUME NEW p \in Procs, RunBegins(p) PROVE Alone'
  BY <1>9, <1>11 DEF RunBegins, Runner, Holds
<1>12. ASSUME NEW p \in Procs, RunEnds(p) PROVE Alone'
  BY <1>9, <1>12 DEF RunEnds, Holds
<1>13. ASSUME NEW p \in Procs, Crash(p) PROVE Alone'
  BY <1>1, <1>5, <1>13 DEF Crash, Alive
<1>14. CASE McpSyncs
  BY <1>1, <1>9, <1>14 DEF McpSyncs, Holds
<1>15. CASE McpEnds
  BY <1>1, <1>8, <1>15 DEF McpEnds, Holds
<1>16. CASE People \/ IntervalEnds \/ McpWrites \/ \E p \in Procs : RunWrites(p)
  BY <1>2, <1>16, PeopleGrow DEF IntervalEnds, McpWrites, RunWrites
<1> QED BY <1>3, <1>4, <1>6, <1>10, <1>11, <1>12, <1>13, <1>14, <1>15, <1>16 DEF Next, Run

LEMMA SameCounted ==
  ASSUME DayCounted, UNCHANGED <<calls, lost>>, RunsToday' = RunsToday,
         \A p \in Procs : Runs(p)' <=> Runs(p),
         \A p \in Procs : Runs(p) => proc'[p].today = proc[p].today /\ proc'[p].spent = proc[p].spent
  PROVE  DayCounted'
BY DEF DayCounted

\* The only process that runs stops running: what its run cost is in runner.json, or lost.
LEMMA RunOver ==
  ASSUME Typed, Alone, NEW p \in Procs, Alive(p), NEW s \in {Off} \cup Opened \cup Lent,
         proc' = [proc EXCEPT ![p] = s], calls <= lost' + RunsToday', calls' = calls
  PROVE  DayCounted'
<1>1. proc'[p] = s /\ s.at \notin {"working", "ending"}
  BY DEF Typed, Off, Opened, Lent
<1>2. \A q \in Procs \ {p} : proc'[q] = proc[q] /\ proc[q].at = "off"
  BY DEF Typed, Alone, Alive
<1>3. \A q \in Procs : ~Runs(q)'
  BY <1>1, <1>2 DEF Runs
<1> QED BY <1>3 DEF DayCounted

\* What calls are accounted for when the only live process runs, or does not.
LEMMA CountedBy ==
  ASSUME Alone, DayCounted, NEW p \in Procs, Alive(p)
  PROVE  /\ ~Runs(p) => calls <= lost + RunsToday
         /\ Runs(p) /\ proc[p].today => calls <= lost + proc[p].spent /\ proc[p].spent <= RunsToday + 1
         /\ Runs(p) /\ ~proc[p].today => calls <= lost
<1>1. \A q \in Procs \ {p} : ~Runs(q)
  BY DEF Alone, Alive, Runs
<1> QED BY <1>1 DEF DayCounted

LEMMA DayStays ==
  ASSUME Typed, Alone, DayCounted, ~Racing, Next
  PROVE  DayCounted'
<1>1. /\ proc \in [Procs -> State] /\ proc' \in [Procs -> State] /\ "session" \in Procs
      /\ faults \in Nat /\ calls \in Nat /\ lost \in Nat /\ Off.at = "off"
      /\ RunsToday \in 0..DayCap /\ DayCap \in Nat
      /\ memory \in [last : 0..Len(log), runs : 0..DayCap, today : BOOLEAN, due : BOOLEAN]
  BY ProcSteps, AgentAssumption DEF Typed, TypeOK, State, Off, Procs, RunsToday
<1>2. CASE UNCHANGED <<proc, memory, calls, lost>>
  BY <1>2, SameCounted DEF RunsToday, Runs
<1>3. CASE IntervalEnds
  <2>1. RunsToday' = RunsToday /\ UNCHANGED <<proc, calls, lost>>
    BY <1>1, <1>3 DEF IntervalEnds, RunsToday, ghosts
  <2> QED BY <2>1, SameCounted DEF Runs
<1>4. CASE Midnight
  <2>1. calls' = 0 /\ lost' = 0
        /\ proc' = [p \in Procs |-> IF Runs(p) THEN [proc[p] EXCEPT !.today = FALSE] ELSE proc[p]]
    BY <1>4 DEF Midnight, Runs
  <2>2. RunsToday' = 0
    BY <1>1, <1>4 DEF Midnight, RunsToday
  <2>3. \A p \in Procs : Runs(p) => proc[p] \in Working \cup Ending
    BY <1>1, StateAt DEF Runs
  <2>4. \A p \in Procs : Runs(p) => proc'[p].today = FALSE
    BY <2>1, <2>3 DEF Working, Ending
  <2>5. \A p \in Procs : Runs(p)' => Runs(p)
    BY <2>1 DEF Runs
  <2> QED BY <2>1, <2>2, <2>4, <2>5 DEF DayCounted
<1>5. ASSUME NEW p \in Procs, NEW s \in {Off} \cup Opened \cup Lent, ~Runs(p),
             proc' = [proc EXCEPT ![p] = s], UNCHANGED <<calls, lost>>, RunsToday' = RunsToday
      PROVE  DayCounted'
  <2>1. proc'[p] = s /\ \A q \in Procs \ {p} : proc'[q] = proc[q]
    BY <1>1, <1>5
  <2>2. s.at \notin {"working", "ending"}
    BY DEF Off, Opened, Lent
  <2>3. \A q \in Procs : Runs(q)' <=> Runs(q)
    BY <1>5, <2>1, <2>2 DEF Runs
  <2> QED BY <1>5, <2>1, <2>3, SameCounted
<1>6. CASE ServiceOpens \/ SessionOpens
  <2>1. PICK p \in Procs, kind \in Kinds : Acquire(p, kind, faults) /\ proc[p] = Off
    BY <1>6 DEF ServiceOpens, SessionOpens, Procs, Kinds
  <2>2. UNCHANGED <<memory, calls, lost>>
    BY <1>6 DEF ServiceOpens, SessionOpens, ghosts
  <2> QED BY <1>1, <1>5, <2>1, <2>2, OpenedStates DEF Acquire, Runs, RunsToday
<1>7. ASSUME NEW p \in Procs, AcquireEnd(p) PROVE DayCounted'
  <2>1. proc[p] \in Opened /\ proc' = [proc EXCEPT ![p] = Open(proc[p].kind, proc[p].token)]
        /\ ~Runs(p) /\ UNCHANGED <<calls, lost, memory>>
    BY <1>1, <1>7, StateAt DEF AcquireEnd, Runs, ghosts
  <2>2. proc[p].kind \in Kinds /\ proc[p].token \in Nat
    BY <2>1 DEF Opened
  <2> QED BY <1>5, <2>1, <2>2, OpenedStates DEF RunsToday
<1>8. ASSUME NEW p \in Procs, proc[p].at \in {"open", "ending"}, Rest(p)
      PROVE  \E s \in {Off} \cup Opened : proc' = [proc EXCEPT ![p] = s]
  <2>1. proc[p].token \in Nat
    BY <1>1, <1>8, StateAt DEF Opened, Ending
  <2>2. Open("run", proc[p].token) \in Opened
    BY <2>1, OpenedStates DEF Kinds
  <2> QED BY <1>1, <1>8, <2>2 DEF Rest, Release
<1>9. ASSUME NEW p \in Procs, RunSkips(p) PROVE DayCounted'
  <2>1. proc[p].at = "open" /\ ~Runs(p) /\ Rest(p) /\ UNCHANGED <<calls, lost>>
    BY <1>9 DEF RunSkips, Runner, Runs, ghosts
  <2>2. RunsToday' = RunsToday
    BY <1>1, <1>9 DEF RunSkips, RunsToday
  <2> QED BY <1>5, <1>8, <2>1, <2>2
<1>10. ASSUME NEW p \in Procs, RunBegins(p) PROVE DayCounted'
  <2>1. /\ proc[p].at = "open" /\ ~Runs(p) /\ Alive(p)
        /\ UNCHANGED <<memory, lost>> /\ calls' = calls + 1
    BY <1>10 DEF RunBegins, Runner, Runs, Alive
  <2>2. calls <= lost + RunsToday /\ RunsToday' = RunsToday
    BY <2>1, CountedBy DEF RunsToday
  <2>3. proc'[p].at = "working" /\ proc'[p].today = TRUE /\ proc'[p].spent = RunsToday + 1
    BY <1>1, <1>10 DEF RunBegins
  <2>4. \A q \in Procs \ {p} : ~Runs(q)'
    BY <1>1, <1>10, <2>1 DEF RunBegins, Alone, Alive, Runs
  <2>5. Runs(p)'
    BY <2>3 DEF Runs
  <2> QED BY <1>1, <2>1, <2>2, <2>3, <2>4, <2>5 DEF DayCounted
<1>11. ASSUME NEW p \in Procs, RunEnds(p) PROVE DayCounted'
  <2>1. PICK ok \in BOOLEAN :
          proc' = [proc EXCEPT ![p] = [at |-> "ending", kind |-> proc[p].kind, token |-> proc[p].token,
                                       ok |-> ok, today |-> proc[p].today, spent |-> proc[p].spent,
                                       from |-> proc[p].from, latest |-> proc[p].latest,
                                       changed |-> proc[p].changed]]
    BY <1>1, <1>11 DEF RunEnds
  <2>2. proc[p].at = "working" /\ UNCHANGED <<memory, calls, lost>> /\ RunsToday' = RunsToday
    BY <1>11 DEF RunEnds, ghosts, RunsToday
  <2>3. /\ proc'[p].at = "ending" /\ proc'[p].today = proc[p].today /\ proc'[p].spent = proc[p].spent
        /\ \A q \in Procs \ {p} : proc'[q] = proc[q]
    BY <1>1, <2>1
  <2>4. \A q \in Procs : Runs(q)' <=> Runs(q)
    BY <2>2, <2>3 DEF Runs
  <2> QED BY <2>2, <2>3, <2>4, SameCounted
<1>12. ASSUME NEW p \in Procs, RunSaves(p) PROVE DayCounted'
  <2>1. proc[p].at = "ending" /\ Runs(p) /\ Alive(p) /\ Rest(p) /\ UNCHANGED <<calls, lost>>
    BY <1>12 DEF RunSaves, Runs, Alive
  <2>2. proc[p].today \in BOOLEAN /\ proc[p].spent \in 1..DayCap
    BY <1>1, <2>1, StateAt DEF Ending
  <2>3. RunsToday' = IF proc[p].today THEN proc[p].spent ELSE 0
    BY <1>12 DEF RunSaves, RunsToday, Spent
  <2>4. calls <= lost' + RunsToday'
    BY <1>1, <2>1, <2>2, <2>3, CountedBy
  <2> QED BY <1>8, <2>1, <2>4, RunOver
<1>13. ASSUME NEW p \in Procs, Crash(p) PROVE DayCounted'
  <2>1. Alive(p) /\ calls' = calls /\ proc' = [proc EXCEPT ![p] = Off] /\ RunsToday' = RunsToday
    BY <1>13 DEF Crash, Alive, RunsToday
  <2>2. lost' = IF Runs(p) /\ proc[p].today THEN lost + 1 ELSE lost
    BY <1>13 DEF Crash, Runs
  <2>3. Runs(p) => proc[p].spent \in 1..DayCap
    BY <1>1, StateAt DEF Runs, Working, Ending
  <2>4. calls <= lost' + RunsToday'
    BY <1>1, <2>1, <2>2, <2>3, CountedBy
  <2> QED BY <2>1, <2>4, RunOver
<1>14. CASE McpSyncs
  <2>0. PICK view \in Views :
          proc' = [proc EXCEPT !["session"] = [at |-> "lent", kind |-> "mcp", token |-> proc["session"].token,
                                               base |-> Heads(view)]]
    BY <1>1, <1>14 DEF McpSyncs
  <2> DEFINE s == [at |-> "lent", kind |-> "mcp", token |-> proc["session"].token, base |-> Heads(view)]
  <2>1. /\ proc' = [proc EXCEPT !["session"] = s] /\ ~Runs("session")
        /\ UNCHANGED <<memory, calls, lost>>
    BY <1>14, <2>0 DEF McpSyncs, Runs, ghosts
  <2>2. proc'["session"] = s /\ proc'["session"] \in State /\ s.at = "lent"
    BY <1>1, <2>1
  <2> HIDE DEF s
  <2>3. s \in Lent
    BY <2>2, StateAt
  <2> QED BY <1>1, <1>5, <2>1, <2>3 DEF RunsToday
<1>15. CASE McpEnds
  BY <1>1, <1>5, <1>15 DEF McpEnds, Release, Runs, ghosts, RunsToday
<1>16. ASSUME NEW p \in Procs, SyncFails(p) PROVE DayCounted'
  BY <1>1, <1>5, <1>16 DEF SyncFails, Release, Runs, ghosts, RunsToday
<1>17. CASE People \/ McpWrites \/ \E p \in Procs : RunWrites(p)
  BY <1>2, <1>17, PeopleGrow DEF McpWrites, RunWrites, ghosts
<1> QED BY <1>3, <1>4, <1>6, <1>7, <1>9, <1>10, <1>11, <1>12, <1>13, <1>14, <1>15, <1>16, <1>17
        DEF Next, Run

LEMMA DayInvariant == ASSUME ~Racing PROVE Spec => []DayInv
<1>1. Init => DayInv
  <2> SUFFICES ASSUME Init PROVE DayInv
    OBVIOUS
  <2>1. \A p \in Procs : proc[p].at = "off"
    BY DEF Init, Off
  <2>2. calls = 0 /\ lost = 0 /\ RunsToday = 0
    BY DEF Init, RunsToday
  <2> QED BY <2>1, <2>2, InitInvariant DEF DayInv, Alone, DayCounted, Alive, Holds, Runs
<1>2. DayInv /\ [Next]_vars => DayInv'
  <2> SUFFICES ASSUME DayInv, [Next]_vars PROVE DayInv'
    OBVIOUS
  <2>1. CASE Next
    <3>1. IInv' /\ Typed
      BY <2>1, InvariantStays DEF DayInv, IInv
    <3> QED BY <2>1, <3>1, AloneStays, DayStays DEF DayInv
  <2>2. CASE UNCHANGED vars
    <3>1. UNCHANGED <<log, task, queue, memory, lock, proc, handed, calls, lost, sessions, faults>>
      BY <2>2 DEF vars, world, ghosts
    <3>2. IInv'
      BY <2>2, InvariantStays DEF DayInv
    <3>3. Alone' /\ DayCounted'
      BY <3>1, StillAlone, SameCounted DEF DayInv, RunsToday, Runs
    <3> QED BY <3>2, <3>3 DEF DayInv
  <2> QED BY <2>1, <2>2
<1> QED BY <1>1, <1>2, PTL DEF Spec

\* As long as no two processes take the lock in the same instant, the lock is one
\* process's at a time (lock.ts), whatever dies while it holds it and whatever lock
\* file it leaves.
THEOREM HolderCorrect == ASSUME ~Racing PROVE Spec => []OneHolder
<1>1. DayInv => OneHolder
  BY DEF DayInv, Alone, OneHolder, Procs, Alive, Holds
<1> QED BY <1>1, DayInvariant, PTL

\* And a day costs no more model runs than DayCap and those whose process died, for
\* every cap and every number of crashes, failed runs and commands given by hand.
THEOREM DayCapCorrect == ASSUME ~Racing PROVE Spec => []DayCapHolds
<1>1. DayInv => DayCapHolds
  <2> SUFFICES ASSUME DayInv PROVE DayCapHolds
    OBVIOUS
  <2>1. /\ proc \in [Procs -> State] /\ calls \in Nat /\ lost \in Nat
        /\ RunsToday \in 0..DayCap /\ DayCap \in Nat
    BY AgentAssumption DEF DayInv, IInv, Typed, TypeOK, State, RunsToday
  <2>2. ASSUME NEW p \in Procs, Runs(p) PROVE calls <= DayCap + lost
    <3>1. proc[p].today \in BOOLEAN /\ proc[p].spent \in 1..DayCap
      BY <2>1, <2>2, StateAt DEF Runs, Working, Ending
    <3> QED BY <2>1, <2>2, <3>1 DEF DayInv, DayCounted
  <2>3. CASE \A p \in Procs : ~Runs(p)
    BY <2>1, <2>3 DEF DayInv, DayCounted, DayCapHolds
  <2> QED BY <2>2, <2>3 DEF DayCapHolds
<1> QED BY <1>1, DayInvariant, PTL
=============================================================================
