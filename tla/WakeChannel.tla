---------------------------- MODULE WakeChannel ----------------------------
(***************************************************************************)
(* The wake channel end to end: a device's WakeSubscription against the    *)
(* server's LongPoll.  The client's poll is one of the server's            *)
(* connections while it is held; a client that loses the network does not  *)
(* take its slot along, and asks again while the old one is still held.    *)
(* Other devices push beside it; their polls would only take other slots.  *)
(***************************************************************************)
EXTENDS LongPoll

CONSTANTS
    Home,             \* the vault the device is connected to
    Own,              \* the device
    NoConn,           \* no connection
    MaxSettleChecks,  \* MAX_SETTLE_CHECKS
    MaxErrors,        \* bound on transport errors
    MaxRestores       \* bound on restores of the server from a backup

ASSUME ChannelAssumption ==
    /\ Home \in Vault /\ Own \in Device /\ NoConn \notin Wait
    /\ MaxSettleChecks \in Nat /\ MaxErrors \in Nat /\ MaxRestores \in Nat

VARIABLES
    loop, poll, sent, current, answer, pending, settleChecks, announced, connected,
    stopped, durable, syncing, wakes, woken, errors, restores,  \* WakeSubscription's
    conn              \* the server's connection that holds the client's poll

Client == INSTANCE WakeSubscription WITH cursor <- cursor[Home]

clientVars == <<loop, poll, sent, current, answer, pending, settleChecks, announced, connected,
                stopped, durable, syncing, wakes, woken, errors, restores, conn>>
channelVars == <<vars, clientVars>>

ChannelInit == Init /\ Client!Init /\ conn = NoConn

-----------------------------------------------------------------------------
(* The client alone.                                                       *)

Loop(A) == UNCHANGED <<vars, conn>> /\ A

Start == Loop(Client!Start)
Exit == Loop(Client!Exit)
Load == Loop(Client!Load)
DelayEnd == Loop(Client!DelayEnd)
Resolve == Loop(Client!Resolve)
Fail == Loop(Client!Fail)
StopHost == Loop(Client!Stop)
SyncEnd == Loop(Client!SyncEnd)
Refused == Loop(Client!Denied)

-----------------------------------------------------------------------------
(* A poll meets the route.                                                 *)

\* Answered at once, or held in a slot of its own.
Ask ==
    \/ poll = "token" /\ ~NothingNewer(Home, sent) /\ Loop(Client!Request)
    \/ /\ poll = "token"
       /\ \E w \in Wait : WaitHold(w, Own, Home, sent) /\ conn' = w
       /\ Client!Request

\* 429: the slots are taken, perhaps by this device's own abandoned poll.
TooMany ==
    /\ poll = "token" /\ NothingNewer(Home, sent) /\ ~Acquirable(Own)
    /\ Loop(Client!TransportError)

\* The hold window of the client's poll ends.
HoldEnds ==
    /\ conn # NoConn
    /\ WaitEnd(conn)
    /\ conn' = NoConn
    /\ Client!Timeout

\* The network fails the client; the server has not noticed.
LinkFails ==
    /\ UNCHANGED vars
    /\ conn' = NoConn
    /\ Client!TransportError

\* The timer or the close event of any other held wait.
OtherWaitEnds(w) ==
    /\ w # conn
    /\ WaitEnd(w)
    /\ UNCHANGED clientVars

-----------------------------------------------------------------------------
(* The other devices.                                                      *)

OtherPushes ==
    \E p \in Push :
      \/ PushStart(p, Home) /\ UNCHANGED clientVars
      \/ PushCommit(p) /\ UNCHANGED conn /\ Client!PeerCommit
      \/ PushFault(p) /\ UNCHANGED clientVars

\* The end of a push: its notification reaches the client's poll if that is held.
PushEnds(p) ==
    /\ PushFinish(p)
    /\ IF conn \in Wait /\ wait'[conn] = FreeWait
       THEN conn' = NoConn /\ Client!Notified
       ELSE UNCHANGED clientVars

ServerDies ==
    /\ Crash
    /\ conn' = NoConn
    /\ IF poll = "held" THEN Client!TransportError
       ELSE UNCHANGED <<loop, poll, sent, current, answer, pending, settleChecks, announced,
                        connected, stopped, durable, syncing, wakes, woken, errors, restores>>

\* The server comes back with the log of a backup.
ServerRestored ==
    /\ Down
    /\ \E n \in 0..MaxCursor : cursor' = [cursor EXCEPT ![Home] = n]
    /\ conn' = NoConn
    /\ Client!Restore
    /\ UNCHANGED faults

\* Once the client has stopped, only its own end and that of its polls are followed.
World ==
    \/ OtherPushes \/ \E p \in Push : PushEnds(p)
    \/ ServerDies \/ ServerRestored \/ SyncEnd

ChannelNext ==
    \/ Start \/ Exit \/ Load \/ DelayEnd \/ Resolve \/ Fail \/ StopHost \/ Refused
    \/ Ask \/ TooMany \/ HoldEnds \/ LinkFails \/ \E w \in Wait : OtherWaitEnds(w)
    \/ ~stopped /\ World

(***************************************************************************)
(* Timers fire and promises settle, on both sides; a batch comes to its    *)
(* end.  Nothing makes the host stop, the peers commit or a sync succeed.  *)
(***************************************************************************)
ChannelFairness ==
    /\ WF_channelVars(Start) /\ WF_channelVars(Exit) /\ WF_channelVars(Load)
    /\ WF_channelVars(DelayEnd) /\ WF_channelVars(Resolve) /\ WF_channelVars(Fail)
    /\ WF_channelVars(Ask) /\ WF_channelVars(HoldEnds)
    /\ \A w \in Wait : WF_channelVars(OtherWaitEnds(w))

ChannelSpec == ChannelInit /\ [][ChannelNext]_channelVars /\ ChannelFairness

-----------------------------------------------------------------------------
(* Properties.                                                             *)

(***************************************************************************)
(* The anti-spin contract of the subscription: while the server keeps its  *)
(* log it fires at most one wake for each revision a peer commits, even    *)
(* when a pull never moves the durable cursor and the settle budget ends.  *)
(***************************************************************************)
OneWakePerAdvance == restores = 0 => wakes <= cursor[Home]

(***************************************************************************)
(* What a peer commits beyond the device is announced to it by a wake,     *)
(* although a push may end in an error before its notification, a poll be  *)
(* abandoned in its slot, a heartbeat be stale, or the server die or be    *)
(* restored to a shorter log.  (A restored log that has grown back to      *)
(* exactly the announced cursor cannot be told from the old one.)          *)
(***************************************************************************)
CommitAnnounced ==
    (loop # "unstarted" /\ cursor[Home] > durable /\ cursor[Home] > woken)
      ~> (woken >= cursor[Home] \/ durable >= cursor[Home] \/ announced = cursor[Home] \/ stopped)
=============================================================================
