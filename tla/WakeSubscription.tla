-------------------------- MODULE WakeSubscription --------------------------
(***************************************************************************)
(* The plugin's long-poll client.  A loop loads the durable cursor, holds  *)
(* a GET /wait on the server and triggers a sync when the server answers   *)
(* with a greater cursor.                                                  *)
(*                                                                         *)
(* The loop and the poll it awaits are two activities: the loop leaves a   *)
(* poll behind when the host stops it, and the poll runs on.  What the     *)
(* server does to a poll is the client's side of an action of module       *)
(* WakeChannel, which composes it with LongPoll.  Times are abstracted: a  *)
(* delay ends by its timer or by resume().                                 *)
(***************************************************************************)
EXTENDS Integers

CONSTANTS
    MaxSettleChecks,  \* MAX_SETTLE_CHECKS
    MaxCursor,        \* bound on the server's cursor
    MaxErrors,        \* bound on transport errors
    MaxRestores       \* bound on restores of the server from a backup

VARIABLES
    loop,         \* where the loop is
    poll,         \* where the latest pollOnce is
    sent,         \* the cursor of that poll
    current,      \* the cursor the server captured when it held the poll
    answer,       \* the cursor it was answered with
    pending,      \* pendingSyncFromCursor, or NoCursor
    settleChecks,
    announced,    \* announcedCursor
    connected,    \* the last edge reported to the controller
    stopped,
    durable,      \* the client's durable cursor
    syncing,      \* a sync was triggered and has not ended
    cursor,       \* the server's cursor
    wakes,        \* history: wakes fired
    woken,        \* history: greatest cursor of a wake since the last restore
    errors, restores

client == <<loop, pending, settleChecks, announced, connected>>
wire == <<poll, sent, current, answer>>
history == <<wakes, woken>>
vars == <<client, wire, stopped, durable, syncing, cursor, history, errors, restores>>

NoCursor == -1

TypeOK ==
    /\ loop \in {"unstarted", "load", "settle", "poll", "backoff", "done", "refused"}
    /\ poll \in {"none", "token", "held", "answered", "failed", "denied"}
    /\ {sent, current, answer, announced, durable, cursor, wakes, woken} \subseteq Nat
    /\ pending \in Nat \cup {NoCursor}
    /\ settleChecks \in 0..MaxSettleChecks
    /\ connected \in {"unknown", "up", "down"}
    /\ stopped \in BOOLEAN /\ syncing \in BOOLEAN
    /\ errors \in 0..MaxErrors /\ restores \in 0..MaxRestores

Init ==
    /\ loop = "unstarted" /\ poll = "none"
    /\ sent = 0 /\ current = 0 /\ answer = 0
    /\ pending = NoCursor /\ settleChecks = 0 /\ announced = 0
    /\ connected = "unknown" /\ stopped = FALSE
    /\ durable = 0 /\ syncing = FALSE /\ cursor = 0
    /\ wakes = 0 /\ woken = 0 /\ errors = 0 /\ restores = 0

-----------------------------------------------------------------------------
(* Called by the controller.                                               *)

Start ==
    /\ loop = "unstarted" /\ ~stopped
    /\ loop' = "load"
    /\ UNCHANGED <<pending, settleChecks, announced, connected, wire, stopped,
                   durable, syncing, cursor, history, errors, restores>>

Stop ==
    /\ ~stopped
    /\ stopped' = TRUE
    /\ UNCHANGED <<client, wire, durable, syncing, cursor, history, errors, restores>>

-----------------------------------------------------------------------------
(* The loop.                                                               *)

\* The loop leaves at its next test of stopped, or because stop() wins a race.
Exit ==
    /\ stopped /\ loop \in {"load", "settle", "poll", "backoff"}
    /\ loop' = "done"
    /\ UNCHANGED <<pending, settleChecks, announced, connected, wire, stopped,
                   durable, syncing, cursor, history, errors, restores>>

\* The anti-spin gate.
Settling == pending # NoCursor /\ durable <= pending /\ settleChecks < MaxSettleChecks

\* One settle check is spent.
SpendCheck == settleChecks + 1

\* Faulty variant: a poll asks from the durable cursor alone.
DurableCursor == durable

\* The cursor a poll asks from: past anything already announced.
PollCursor == IF durable > announced THEN durable ELSE announced

\* loadCursor has returned: wait for the last wake to settle, or poll.  (Once
\* stop() was called the load loses its race with the stop signal.)
Load ==
    /\ loop = "load" /\ ~stopped
    /\ \/ /\ Settling
          /\ settleChecks' = SpendCheck
          /\ loop' = "settle"
          /\ UNCHANGED <<pending, wire>>
       \/ /\ ~Settling
          /\ pending' = NoCursor
          /\ settleChecks' = 0
          /\ sent' = PollCursor
          /\ poll' = "token"
          /\ loop' = "poll"
          /\ UNCHANGED <<current, answer>>
    /\ UNCHANGED <<announced, connected, stopped, durable, syncing, cursor, history,
                   errors, restores>>

\* A settle or backoff delay ends: its timer fires or resume() releases it.
DelayEnd ==
    /\ loop \in {"settle", "backoff"} /\ ~stopped
    /\ loop' = "load"
    /\ UNCHANGED <<pending, settleChecks, announced, connected, wire, stopped,
                   durable, syncing, cursor, history, errors, restores>>

\* A peer advanced the log: one sync is triggered.
Wake ==
    /\ pending' = sent
    /\ announced' = answer
    /\ syncing' = TRUE
    /\ wakes' = wakes + 1
    /\ woken' = answer

\* Faulty variant: the announced position outlives the server's.
HeartbeatKeepsAnnounced ==
    /\ pending' = NoCursor
    /\ UNCHANGED <<announced, syncing, history>>

\* Nothing newer; a cursor below the one sent is a restored server's.
Heartbeat ==
    /\ pending' = NoCursor
    /\ announced' = IF answer < sent THEN 0 ELSE announced
    /\ UNCHANGED <<syncing, history>>

\* What the poll held is gone with it.
PollOver == poll' = "none" /\ sent' = 0 /\ current' = 0 /\ answer' = 0

\* The awaited poll was answered.
Resolve ==
    /\ loop = "poll" /\ poll = "answered" /\ ~stopped
    /\ PollOver
    /\ loop' = "load"
    /\ connected' = "up"
    /\ IF answer > sent THEN Wake ELSE Heartbeat
    /\ UNCHANGED <<settleChecks, stopped, durable, cursor, errors, restores>>

\* The awaited poll was rejected: a 401 is final, anything else backs off.
Fail ==
    /\ loop = "poll" /\ poll \in {"failed", "denied"} /\ ~stopped
    /\ PollOver
    /\ connected' = "down"
    /\ loop' = IF poll = "denied" THEN "refused" ELSE "backoff"
    /\ stopped' = (poll = "denied")
    /\ UNCHANGED <<pending, settleChecks, announced, durable, syncing, cursor, history, errors, restores>>

-----------------------------------------------------------------------------
(* pollOnce and the server's end of it.                                    *)

\* getAuthToken has returned: the request is issued, and answered at once or held.
Request ==
    /\ poll = "token"
    /\ current' = cursor
    /\ IF cursor > sent THEN poll' = "answered" /\ answer' = cursor
       ELSE poll' = "held" /\ UNCHANGED answer
    /\ UNCHANGED <<client, sent, stopped, durable, syncing, cursor, history, errors, restores>>

\* The hold window ends: the captured cursor is a heartbeat.
Timeout ==
    /\ poll = "held"
    /\ poll' = "answered"
    /\ answer' = current
    /\ UNCHANGED <<client, sent, current, stopped, durable, syncing, cursor, history,
                   errors, restores>>

\* A network error, an answer that is not a cursor, a 403, 429 or 500.
TransportError ==
    /\ errors < MaxErrors
    /\ poll \in {"token", "held", "answered"}
    /\ poll' = "failed"
    /\ errors' = errors + 1
    /\ UNCHANGED <<client, sent, current, answer, stopped, durable, syncing, cursor,
                   history, restores>>

\* The session is refused: a 401, or the token provider's authDenied.
Denied ==
    /\ poll = "token"
    /\ poll' = "denied"
    /\ UNCHANGED <<client, sent, current, answer, stopped, durable, syncing, cursor,
                   history, errors, restores>>

\* A peer's push commits one revision; its notification comes later, or never.
PeerCommit ==
    /\ cursor < MaxCursor
    /\ cursor' = cursor + 1
    /\ UNCHANGED <<client, wire, stopped, durable, syncing, history, errors, restores>>

\* A notification ends the hold, with the cursor of that moment.
Notified ==
    /\ poll = "held"
    /\ poll' = "answered"
    /\ answer' = cursor
    /\ UNCHANGED <<client, sent, current, stopped, durable, syncing, cursor, history,
                   errors, restores>>

\* The server is restored from a backup: its cursor goes back, connections drop.
Restore ==
    /\ restores < MaxRestores
    /\ cursor' \in 0..(cursor - 1)
    /\ poll' = IF poll \in {"held", "answered"} THEN "failed" ELSE poll
    /\ woken' = 0
    /\ restores' = restores + 1
    /\ UNCHANGED <<client, sent, current, answer, stopped, durable, syncing, wakes, errors>>

\* A triggered sync ends: the pull lands, or the durable cursor stays.
SyncEnd ==
    /\ syncing
    /\ syncing' = FALSE
    /\ durable' \in durable..cursor \cup {durable}
    /\ UNCHANGED <<client, wire, stopped, cursor, history, errors, restores>>
=============================================================================
