------------------------------ MODULE LogReader ------------------------------
(***************************************************************************)
(* A device that reads the server's log across restores.  It reads it      *)
(* twice: the sync runner pulls what is past its durable cursor, with no   *)
(* epoch, and RevisionHistory holds the whole log, seeded on a new         *)
(* connection from a store in IndexedDB and confirmed by the server.       *)
(*                                                                         *)
(* The server is module Backup.  The device's session is taken to outlive  *)
(* the restore, or to be won back by a rejoin, which keeps data.json.      *)
(***************************************************************************)
EXTENDS Backup

CONSTANTS
    Casts       \* who takes part: sets of "push", "cli", "clock", "disk" (that fails),
                \* "operator" (who restores) and "device"

VARIABLES
    cast,       \* the chosen one of Casts
    conn,       \* the device is connected
    cursor,     \* the sync runner's durable cursor
    seen,       \* the revisions it has applied
    hist,       \* RevisionHistory: its log and epoch, Nothing before the first refresh
    stored,     \* the log and epoch RevisionHistoryStore holds
    spanning    \* history: a connection has outlived a restore

reader == <<conn, cursor, seen, hist, stored, spanning>>
rvars == <<vars, cast, reader>>

ReaderTypeOK ==
    /\ conn \in BOOLEAN /\ spanning \in BOOLEAN
    /\ cursor \in 0..MaxRevs /\ seen \subseteq 1..MaxRevs
    /\ \A h \in {hist, stored} \ {Nothing} : h.log \in Seq(1..MaxRevs)

ReaderInit ==
    /\ Init
    /\ cast \in Casts
    /\ conn = FALSE /\ cursor = 0 /\ seen = {}
    /\ hist = Nothing /\ stored = Nothing
    /\ spanning = FALSE

-----------------------------------------------------------------------------
(* The connection.                                                         *)

Connect ==
    /\ "device" \in cast /\ ~conn
    /\ conn' = TRUE
    /\ UNCHANGED <<vars, cast, cursor, seen, hist, stored, spanning>>

\* The log in memory goes with the connection.
Disconnect ==
    /\ conn
    /\ conn' = FALSE
    /\ hist' = Nothing
    /\ UNCHANGED <<vars, cast, cursor, seen, stored, spanning>>

-----------------------------------------------------------------------------
(* The pull route: a cursor beyond the log is a 409.                       *)

CursorValid(after) == after <= Len(log)
EventsAfter(after) == SubSeq(log, after + 1, Len(log))

\* The sync runner pulls and applies every event; a 409 changes nothing.
Pull ==
    /\ conn /\ up /\ CursorValid(cursor)
    /\ seen' = seen \cup ToSet(EventsAfter(cursor))
    /\ cursor' = Len(log)
    /\ UNCHANGED <<vars, cast, conn, hist, stored, spanning>>

-----------------------------------------------------------------------------
(* RevisionHistory.refresh.                                                *)

\* Faulty variant: a stored log that is no longer than the server's will do.
ConfirmedByLength(h) == h # Nothing /\ CursorValid(Len(h.log))

\* The first pull overlaps the last stored event, which must come back
\* unchanged and under the same epoch.
Confirmed(h) ==
    /\ h # Nothing /\ h.log # <<>>
    /\ CursorValid(Len(h.log))
    /\ h.epoch = epoch
    /\ log[Len(h.log)] = Last(h.log)

\* The log after a refresh: pulled from the end of the one in memory, or from
\* the end of a confirmed stored one, or in full.
Refreshed ==
    LET base == IF hist # Nothing THEN hist.log
                ELSE IF Confirmed(stored) THEN stored.log ELSE <<>>
    IN  [is |-> "log", epoch |-> epoch, log |-> base \o EventsAfter(Len(base))]

\* How much of the store is known to be good: what was restored and confirmed, or
\* saved since; a failed save leaves nothing known.
PersistedCursor ==
    IF hist = Nothing THEN IF Confirmed(stored) THEN Len(stored.log) ELSE 0
    ELSE IF stored # Nothing /\ Len(stored.log) = Len(hist.log) THEN Len(hist.log) ELSE 0

\* What the store holds after a save that is cut off: an appended segment is not
\* read before its meta record, a rewrite removes the meta record first.
TornSave ==
    IF PersistedCursor > 0 /\ stored.epoch = epoch THEN stored ELSE Nothing

\* In memory, a log longer than the server's gets a 409 and stays as it is.  (A
\* refresh that fails between two pages keeps the first in memory: a prefix of the
\* server's, taken here with the refresh that completes it.)
Refresh ==
    /\ conn /\ up
    /\ hist # Nothing => CursorValid(Len(hist.log))
    /\ hist' = Refreshed
    /\ IF PersistedCursor = Len(Refreshed.log) THEN UNCHANGED <<stored, faults>>
       ELSE \/ stored' = Refreshed /\ UNCHANGED faults
            \/ faults < MaxFaults /\ stored' = TornSave /\ faults' = faults + 1
    /\ UNCHANGED <<data, minted, put, up, cycle, store, ids, wounded, clock, target, restores,
                   decays, cast, conn, cursor, seen, spanning>>

-----------------------------------------------------------------------------

\* A step of the server and its operator, seen by a device that stays connected.
ServerSide ==
    /\ \/ Server \/ Cycle("scheduler")
       \/ "push" \in cast /\ Push
       \/ "clock" \in cast /\ Tick
       \/ "operator" \in cast /\ Operator
       \/ "disk" \in cast /\ (Decay \/ Rot)
       \/ "cli" \in cast /\ (Cycle("cli") \/ BackupCli \/ CliDies)
    /\ spanning' = (spanning \/ (conn /\ hist # Nothing /\ epoch' # epoch))
    /\ UNCHANGED <<cast, conn, cursor, seen, hist, stored>>

ReaderNext == ServerSide \/ Connect \/ Disconnect \/ Pull \/ Refresh

ReaderSpec == ReaderInit /\ [][ReaderNext]_rvars

-----------------------------------------------------------------------------
(* Properties.                                                             *)

(***************************************************************************)
(* The log a device builds its merges on is the server's: a stored log     *)
(* from before a restore is set aside, even when the restored log has      *)
(* grown past it, and a save that was cut off reads as absent.  (Said of   *)
(* devices no connection of which has outlived a restore.)                 *)
(***************************************************************************)
HistoryIsServers ==
    hist # Nothing /\ ~spanning => IsPrefix(hist.log, log) /\ hist.epoch = epoch

(***************************************************************************)
(* What the pull route says of a restore: a cursor beyond the log fails    *)
(* closed, "so a client that pulls WITHOUT the epoch can never silently    *)
(* skip re-issued sequences".  Whatever sequence the cursor has passed was *)
(* applied.  It does not hold: README, known divergences.                  *)
(***************************************************************************)
NoReissuedSkipped == cursor <= Len(log) => \A i \in 1..cursor : log[i] \in seen
=============================================================================
