--------------------------- MODULE MCSyncRunner ---------------------------
(***************************************************************************)
(* Small queues and logs, told as four stories that share the constants.   *)
(* Queue: a refused edit, its child, which is larger than a request's      *)
(* budget, and an edit that makes the server refuse the request it comes   *)
(* in.  Inbox: a local merge (of a peer's head with one from before the    *)
(* run) that a peer's merge makes redundant.  Stuck: a change that can     *)
(* never be applied, with a restart.  Handover: a change the user may      *)
(* apply after it was parked, for two connections.                         *)
(***************************************************************************)
EXTENDS SyncRunner, TLC

CONSTANTS b, k, x, m, p, q, w, z

AllParents == [e \in Edits |-> CASE e = k -> {b} [] e = m -> {p} [] OTHER -> {}]
AllBytes == [e \in Edits |-> IF e = k THEN 3 ELSE 1]
AllTwins == [r \in Peers |-> IF r = q THEN {m} ELSE {}]

Story(edits, peers, connections, maxCrashes, maxRequeues) ==
    [edits |-> edits, peers |-> peers, connections |-> connections,
     crashes |-> maxCrashes, requeues |-> maxRequeues]

Queue == Story({b, k, x}, {}, 1, 0, 1)
Inbox == Story({m}, {p, q}, 1, 1, 0)
Stuck == Story({}, {p, z}, 1, 1, 0)
Handover == Story({}, {w}, 2, 0, 0)

VARIABLE story

\* A step keeps to what its story has.  The queue, to which nothing arrives from
\* others, is told without unsaved text, the stuck change and two connections
\* without a refused session, and these without text and coalesced triggers too.
Told ==
    /\ made' \subseteq story.edits
    /\ ToSet(log') \subseteq story.edits \cup story.peers
    /\ \A c \in Connections : c > story.connections => run'[c].pc = "off"
    /\ crashes' <= story.crashes /\ requeues' <= story.requeues
    /\ story \in {Queue, Handover} => ~unsaved'
    /\ story \in {Stuck, Handover} => session' = "live"
    /\ story = Handover => \A c \in Connections : ~run'[c].rerun

MCInit == Init /\ story \in {Queue, Inbox, Stuck, Handover}
MCNext == Next /\ Told /\ UNCHANGED story
MCSpec == MCInit /\ [][MCNext]_<<vars, story>> /\ Fairness
==========================================================================
