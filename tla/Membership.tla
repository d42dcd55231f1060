----------------------------- MODULE Membership -----------------------------
(***************************************************************************)
(* How a device becomes, stays and stops being part of a vault: the tables *)
(* of the server (owner pairings, invitations, devices, memberships,       *)
(* refresh families, rejoin grants, agent enrollments) and the three       *)
(* clients that join: the machine of an owner, which redeems a pairing     *)
(* code, the machine of a guest, which redeems an invitation and waits for *)
(* an owner's approval, and the agent service, which claims enrollments.   *)
(*                                                                         *)
(* An invitation stands for the token, the user and the device it will     *)
(* become: the server mints all three once for each invitation.  A pairing *)
(* code stands for the device it makes.  A refresh token stands for the    *)
(* family it begins; its rotations are RefreshRotation's subject.  Every   *)
(* server operation is one database transaction.  Each client runs from    *)
(* one durable write or network wait to the next and may be closed there.  *)
(***************************************************************************)
EXTENDS Naturals, FiniteSets, FiniteSetsExt

CONSTANTS
    Owners,        \* users created by the setup command, each with a vault
    Instance,      \* the instance owner among them
    Pairings,      \* pairing codes the setup command can mint
    Invitations,   \* invitations the owners can mint
    Agents,        \* agents the owners can enroll
    MaxAttempts,   \* MAX_APPROVAL_ATTEMPTS
    MaxDecisions,  \* bound on operations of the owners and on expiries
    MaxTokens,     \* bound on refresh tokens minted by the clients
    MaxFaults      \* bound on lost answers, restarts and failed writes

None == "none"

ASSUME MembershipAssumption ==
    /\ Instance \in Owners
    /\ Owners \cap (Invitations \cup Agents) = {}
    /\ Pairings \cap (Invitations \cup Agents) = {}
    /\ Invitations \cap Agents = {}
    /\ None \notin Owners \cup Pairings \cup Invitations \cup Agents
    /\ MaxAttempts \in Nat \ {0}
    /\ {MaxDecisions, MaxTokens, MaxFaults} \subseteq Nat

VARIABLES
    code,         \* owner_pairings and invitations, by code
    device,       \* devices.status, by the code that made the device
    member,       \* memberships.status, by user
    role,         \* memberships.role, by user
    home,         \* the vault of a user's membership, named by its first owner
    families,     \* refresh_token_families with their first refresh token
    authored,     \* users that a revision, an invitation, a grant or an enrollment names
    grants,       \* rejoin_grants that are not consumed
    enrollment,   \* agent_enrollments, by agent
    rows,         \* the waiting devices each owner's pane shows
    guest,        \* the guest's machine
    laptop,       \* the owner's machine
    service,      \* the agent service
    tokens, decisions, faults

tables == <<code, device, member, role, home, families, authored, grants, enrollment>>
clients == <<guest, laptop, service>>
counters == <<tokens, decisions, faults>>
vars == <<tables, rows, clients, counters>>

User == Owners \cup Invitations \cup Agents
Device == Pairings \cup Invitations \cup Agents
Token == 1..MaxTokens

\* The user a device belongs to: every invitation and every agent has its own.
UserOf(d) == IF d \in Pairings THEN code[d].user ELSE d

Code == [state : {"none", "open", "burned", "redeemed", "gone"},
         fresh : BOOLEAN,          \* before expires_at, then before the end of the wait
         user : Owners \cup {None},   \* the owner a pairing code is for
         vault : Owners \cup {None},
         role : {"editor", "owner"},
         linked : BOOLEAN,         \* consumed_by_user_id and pending_device_id are set
         token : Token \cup {0},   \* pending_refresh_token_hash
         secret : Token \cup {0},  \* devices.rejoin_secret_hash
         attempts : 0..MaxAttempts]
NoCode == [state |-> "none", fresh |-> TRUE, user |-> None, vault |-> None,
           role |-> "editor", linked |-> FALSE, token |-> 0, secret |-> 0, attempts |-> 0]

Family == [device : Device, token : Token, status : {"active", "ended"}]
Grant == [user : Invitations, number : Nat, fresh : BOOLEAN]

\* What the guest's machine holds: SecretStorage (refresh, secret, envelope,
\* credential), data.json (phase, at) and the running process (pc, on, candidate).
Guest == [refresh : Token \cup {0}, secret : Token \cup {0},
          envelope : Invitations \cup {None}, credential : Invitations \cup {None},
          phase : {"none", "redeeming", "pending", "connected"},
          at : Invitations \cup {None},
          pc : {"idle", "secret", "envelope", "state", "redeem", "redeemed",
                "keep", "waiting", "polled", "rejecting", "rejoin", "rejoined"},
          on : Invitations \cup {None},
          verdict : {"pending", "approved", "rejected", "error"},
          live : Invitations \cup {None},
          candidate : Token \cup {0}]
NewGuest == [refresh |-> 0, secret |-> 0, envelope |-> None, credential |-> None,
             phase |-> "none", at |-> None, pc |-> "idle", on |-> None,
             verdict |-> "error", live |-> None, candidate |-> 0]

\* The owner's machine: the record of an unfinished pairing, then the connection.
Laptop == [pairing : Pairings \cup {None}, token : Token \cup {0},
           refresh : Token \cup {0}, connection : Pairings \cup {None},
           pc : {"idle", "pair", "paired", "keep", "clear", "failed"}]
NewLaptop == [pairing |-> None, token |-> 0, refresh |-> 0, connection |-> None, pc |-> "idle"]

\* The agent service: one claim at a time, its token and redemption id persisted.
Service == [claim : Nat, token : Token \cup {0}, pc : {"idle", "claim", "claimed", "forget"},
            answer : Agents \cup {None}, joined : SUBSET (Agents \X Token)]

Enrollment == [state : {"none", "waiting", "claimed", "dropped"},
               by : User \cup {None}, at : Nat, claim : Nat, token : Token \cup {0}]
NoEnrollment == [state |-> "none", by |-> None, at |-> 0, claim |-> 0, token |-> 0]

TypeOK ==
    /\ code \in [Pairings \cup Invitations -> Code]
    /\ device \in [Device -> {"absent", "pending", "approved", "revoked"}]
    /\ member \in [User -> {"absent", "active", "revoked"}]
    /\ role \in [User -> {"editor", "owner"}]
    /\ home \in [User -> Owners \cup {None}]
    /\ families \subseteq Family
    /\ authored \subseteq User
    /\ grants \subseteq Grant
    /\ enrollment \in [Agents -> Enrollment]
    /\ rows \in [User -> SUBSET Invitations]
    /\ guest \in Guest /\ laptop \in Laptop /\ service \in Service
    /\ tokens \in 0..MaxTokens /\ decisions \in 0..MaxDecisions /\ faults \in 0..MaxFaults

Init ==
    /\ code = [c \in Pairings \cup Invitations |-> NoCode]
    /\ device = [d \in Device |-> "absent"]
    /\ member = [u \in User |-> "absent"]
    /\ role = [u \in User |-> "editor"]
    /\ home = [u \in User |-> None]
    /\ families = {} /\ authored = {} /\ grants = {}
    /\ enrollment = [a \in Agents |-> NoEnrollment]
    /\ rows = [u \in User |-> {}]
    /\ guest = NewGuest /\ laptop = NewLaptop
    /\ service = [claim |-> 1, token |-> 0, pc |-> "idle", answer |-> None, joined |-> {}]
    /\ tokens = 0 /\ decisions = 0 /\ faults = 0

\* Bookkeeping of the bounds
Decide == decisions < MaxDecisions /\ decisions' = decisions + 1 /\ UNCHANGED <<tokens, faults>>
Fault == faults < MaxFaults /\ faults' = faults + 1 /\ UNCHANGED <<tokens, decisions>>

-----------------------------------------------------------------------------
(* Sessions.                                                               *)

\* createInitialFamilyFromHashInCurrentTransaction: token_hash is unique.
TokenUsed(t) == \E f \in families : f.token = t
NewFamily(d, t) == [device |-> d, token |-> t, status |-> "active"]

\* lookupRefreshContext and rotateRefresh: the family and the device must be good.
Good(f) == f.status = "active" /\ device[f.device] = "approved"
SessionOf(t) == {f.device : f \in {g \in families : g.token = t /\ Good(g)}}

\* revokeDeviceInCurrentTransaction for a set of devices
EndFamilies(ds) == {IF f.device \in ds THEN [f EXCEPT !.status = "ended"] ELSE f : f \in families}

\* requireOwner and #requireOwnerMembership: an active owner of the vault
IsOwnerOf(u, v) == member[u] = "active" /\ role[u] = "owner" /\ home[u] = v

\* A user acts from a connected machine whose device has a session.
SignedIn(u) ==
    \E f \in families :
        /\ Good(f) /\ f.device \in {laptop.connection, guest.live}
        /\ UserOf(f.device) = u

\* The family outlives its window or is burned for reuse.
FamilyEnds ==
    \E f \in families :
        /\ f.status = "active"
        /\ Decide
        /\ families' = (families \ {f}) \cup {[f EXCEPT !.status = "ended"]}
        /\ UNCHANGED <<code, device, member, role, home, authored, grants, enrollment, rows, clients>>

-----------------------------------------------------------------------------
(* The setup command on the server.                                        *)

\* A fresh owner pairing; 15 minutes.
OpenPairing(p, u, v) ==
    [NoCode EXCEPT !.state = "open", !.user = u, !.vault = v]

\* The user, the vault and the owner membership of a new owner, and its pairing
NewOwner(u, p) ==
    /\ member[u] = "absent" /\ code[p].state = "none"
    /\ member' = [member EXCEPT ![u] = "active"]
    /\ role' = [role EXCEPT ![u] = "owner"]
    /\ home' = [home EXCEPT ![u] = u]
    /\ code' = [code EXCEPT ![p] = OpenPairing(p, u, u)]
    /\ UNCHANGED <<device, families, authored, grants, enrollment, rows, clients>>

\* initializeOwner: refused once the instance has its state row.
InitializeOwner(p) ==
    /\ NewOwner(Instance, p)
    /\ UNCHANGED counters

\* createVault: an independent owner with a vault of its own
CreateVault(u, p) ==
    /\ u # Instance /\ member[Instance] # "absent"
    /\ NewOwner(u, p)
    /\ Decide

\* #rotatePairing: the owner's unconsumed codes for the vault are deleted and a
\* fresh one is minted.  (For the founder here; once the founder is gone, the
\* vault's oldest remaining owner, an invited one, gets the code.)
RotatePairing(u, p) ==
    /\ u \in Owners /\ IsOwnerOf(u, u) /\ code[p].state = "none"
    /\ code' = [c \in DOMAIN code |->
                  IF c = p THEN OpenPairing(p, u, u)
                  ELSE IF code[c].user = u /\ code[c].state = "open"
                  THEN [code[c] EXCEPT !.state = "burned"] ELSE code[c]]
    /\ Decide
    /\ UNCHANGED <<device, member, role, home, families, authored, grants, enrollment, rows, clients>>

\* Faulty variant: a consumed code is refused whoever presents it again.
PairedByPairingOnce(p, t) == FALSE

\* A consumed code may be presented again with the token it was consumed with.
PairedBy(p, t) ==
    /\ code[p].state = "redeemed"
    /\ [device |-> p, token |-> t, status |-> "active"] \in families

\* pairOwnerDeviceFromHash, and the membership the route then looks for
PairOwnerDevice(p, t) ==
    LET opened == code[p].state = "open" /\ code[p].fresh /\ ~TokenUsed(t)
    IN  /\ IF opened
           THEN /\ code' = [code EXCEPT ![p].state = "redeemed", ![p].token = t]
                /\ device' = [device EXCEPT ![p] = "approved"]
                /\ families' = families \cup {NewFamily(p, t)}
           ELSE UNCHANGED <<code, device, families>>
        /\ laptop' = [laptop EXCEPT !.pc =
             IF (opened \/ PairedBy(p, t)) /\ member[code[p].user] = "active"
             THEN "paired" ELSE "failed"]
        /\ UNCHANGED <<member, role, home, authored, grants, enrollment>>

-----------------------------------------------------------------------------
(* The owner's machine: connectAsOwner.                                    *)

\* The client's half is stored before the code is spent, and used again when the
\* same code is pasted again.
PastePairing(p) ==
    /\ laptop.pc = "idle" /\ code[p].state # "none"
    /\ IF laptop.pairing = p
       THEN laptop' = [laptop EXCEPT !.pc = "pair"] /\ UNCHANGED tokens
       ELSE /\ tokens < MaxTokens /\ tokens' = tokens + 1
            /\ laptop' = [laptop EXCEPT !.pc = "pair", !.pairing = p, !.token = tokens + 1]
    /\ UNCHANGED <<tables, rows, guest, service, decisions, faults>>

DeliverPairing ==
    /\ laptop.pc = "pair"
    /\ PairOwnerDevice(laptop.pairing, laptop.token)
    /\ UNCHANGED <<rows, guest, service, counters>>

\* The answer: the refresh token is saved, then the connection is written, then
\* the record is cleared.
KeepPairedToken ==
    /\ laptop.pc = "paired"
    /\ laptop' = [laptop EXCEPT !.refresh = laptop.token, !.pc = "keep"]
    /\ UNCHANGED <<tables, rows, guest, service, counters>>

WriteOwnerConnection ==
    /\ laptop.pc = "keep"
    /\ laptop' = [laptop EXCEPT !.connection = laptop.pairing, !.pc = "clear"]
    /\ UNCHANGED <<tables, rows, guest, service, counters>>

ClearPairing ==
    /\ laptop.pc = "clear"
    /\ laptop' = [laptop EXCEPT !.pairing = None, !.token = 0, !.pc = "idle"]
    /\ UNCHANGED <<tables, rows, guest, service, counters>>

PairingFails ==
    /\ laptop.pc = "failed"
    /\ laptop' = [laptop EXCEPT !.pc = "idle"]
    /\ UNCHANGED <<tables, rows, guest, service, counters>>

\* The request or its answer is lost, a write throws, or the application is closed.
LaptopFault ==
    /\ laptop.pc # "idle"
    /\ Fault
    /\ laptop' = [laptop EXCEPT !.pc = "idle"]
    /\ UNCHANGED <<tables, rows, guest, service>>

\* resetHavemindConnectionState
ResetLaptop ==
    /\ laptop.pc = "idle" /\ laptop # NewLaptop
    /\ Fault
    /\ laptop' = NewLaptop
    /\ UNCHANGED <<tables, rows, guest, service>>

-----------------------------------------------------------------------------
(* Invitations: the owner's side.                                          *)

\* createInvitation, and the row the composer shows for it
CreateInvitation(u, i, r) ==
    /\ SignedIn(u) /\ IsOwnerOf(u, home[u])
    /\ code[i].state = "none"
    /\ code' = [code EXCEPT ![i] = [NoCode EXCEPT !.state = "open", !.vault = home[u], !.role = r]]
    /\ authored' = authored \cup {u}
    /\ rows' = [rows EXCEPT ![u] = @ \cup {i}]
    /\ Decide
    /\ UNCHANGED <<device, member, role, home, families, grants, enrollment, clients>>

\* listPendingApprovals, as restorePendingApprovals adopts it
PendingApprovals(v) ==
    {i \in Invitations : /\ code[i].state = "redeemed" /\ code[i].vault = v
                         /\ code[i].linked /\ device[i] = "pending"}

RefreshRows(u) ==
    /\ SignedIn(u) /\ IsOwnerOf(u, home[u])
    /\ rows[u] # PendingApprovals(home[u])
    /\ rows' = [rows EXCEPT ![u] = PendingApprovals(home[u])]
    /\ Decide
    /\ UNCHANGED <<tables, clients>>

\* #deletePendingUser: the user's rows go with it, and the invitation forgets it.
DeleteUser(i) ==
    /\ device' = [device EXCEPT ![i] = "absent"]
    /\ member' = [member EXCEPT ![i] = "absent"]
    /\ families' = {f \in families : f.device # i}
    /\ grants' = {g \in grants : g.user # i}
    /\ UNCHANGED <<role, home, authored, enrollment>>

\* approveRedeemedDevice's conditions on the waiting device
Approvable(i) ==
    code[i].state = "redeemed" /\ code[i].linked /\ code[i].fresh /\ device[i] = "pending"

DropRow(u, i) == rows' = [rows EXCEPT ![u] = @ \ {i}]

\* The right code: the device, its membership and its family become active.
Approve(u, i) ==
    /\ SignedIn(u) /\ i \in rows[u] /\ IsOwnerOf(u, code[i].vault)
    /\ Approvable(i) /\ ~TokenUsed(code[i].token)
    /\ code' = [code EXCEPT ![i].attempts = 0]
    /\ device' = [device EXCEPT ![i] = "approved"]
    /\ member' = [member EXCEPT ![i] = "active"]
    /\ role' = [role EXCEPT ![i] = code[i].role]
    /\ home' = [home EXCEPT ![i] = code[i].vault]
    /\ families' = families \cup {NewFamily(i, code[i].token)}
    /\ DropRow(u, i)
    /\ Decide
    /\ UNCHANGED <<authored, grants, enrollment, clients>>

\* A wrong code counts; the last one allowed deletes the device.
Mistype(u, i) ==
    /\ SignedIn(u) /\ i \in rows[u] /\ IsOwnerOf(u, code[i].vault)
    /\ Approvable(i)
    /\ LET locked == code[i].attempts + 1 >= MaxAttempts IN
         /\ code' = [code EXCEPT ![i].attempts = @ + 1, ![i].linked = ~locked]
         /\ IF locked THEN DeleteUser(i) /\ DropRow(u, i)
            ELSE UNCHANGED <<device, member, families, grants, enrollment, role, home, authored, rows>>
    /\ Decide
    /\ UNCHANGED clients

\* rejectPendingDevice looks at no device status: whoever the invitation admitted
\* is deleted, unless another row refers to it.
Reject(u, i) ==
    /\ SignedIn(u) /\ i \in rows[u] /\ IsOwnerOf(u, code[i].vault)
    /\ code[i].linked /\ i \notin authored
    /\ code' = [code EXCEPT ![i].linked = FALSE]
    /\ DeleteUser(i)
    /\ DropRow(u, i)
    /\ Decide
    /\ UNCHANGED clients

\* The row of an invitation disappears from the pane when the invitation expires.
Expire(c) ==
    /\ code[c].state = "open" /\ code[c].fresh
    /\ code' = [code EXCEPT ![c].fresh = FALSE]
    /\ rows' = [u \in User |-> rows[u] \ {c}]
    /\ Decide
    /\ UNCHANGED <<device, member, role, home, families, authored, grants, enrollment, clients>>

\* An hour has passed since the redemption.
WaitTooLong(i) ==
    /\ code[i].state = "redeemed" /\ code[i].fresh /\ device[i] = "pending"
    /\ code' = [code EXCEPT ![i].fresh = FALSE]
    /\ rows' = [u \in User |-> rows[u] \ {i}]
    /\ UNCHANGED <<device, member, role, home, families, authored, grants, enrollment, clients, counters>>

\* Faulty variant: only records that nothing refers to are pruned.
PruneSparesDevices == FALSE

\* pruneExpiredRecords, hourly: a device that nobody approved is deleted.
Prune ==
    \E i \in Invitations :
        /\ code[i].state = "redeemed" /\ ~code[i].fresh /\ device[i] = "pending"
        /\ code' = [code EXCEPT ![i].linked = FALSE]
        /\ DeleteUser(i)
        /\ UNCHANGED <<rows, clients, counters>>

\* findStaleInvitationIds: expired and unredeemed, or redeemed with nothing pending
\* any more, or redeemed long ago, whatever has become of the device.
StaleInvitations(old) ==
    {i \in Invitations : \/ code[i].state = "open" /\ ~code[i].fresh
                         \/ code[i].state = "redeemed" /\ (~code[i].linked \/ i \in old)}

\* findStalePendingDeviceIds; a pending device is referred to by nothing.
StaleDevices(old) == {i \in old : device[i] = "pending" /\ i \notin authored}

\* The cleanup-stale command, of an operator: the rows of invitations go, and the
\* devices that wait too long; the user stays without either.
CleanupStale(old) ==
    LET gone == StaleInvitations(old) IN
      /\ \A i \in old : code[i].state = "redeemed" /\ code[i].linked
      /\ gone # {}
      /\ code' = [c \in DOMAIN code |-> IF c \in gone
                     THEN [code[c] EXCEPT !.state = "gone", !.linked = FALSE] ELSE code[c]]
      /\ device' = [d \in Device |-> IF d \in StaleDevices(old) THEN "absent" ELSE device[d]]
      /\ Decide
      /\ UNCHANGED <<member, role, home, families, authored, grants, enrollment, rows, clients>>

-----------------------------------------------------------------------------
(* The guest's machine: OnboardingController.                              *)

\* A step of the guest alone
GuestStep == UNCHANGED <<tables, rows, laptop, service>>

\* beginFromPastedEnvelope, loadInvitationReview (the invitation must be open) and
\* confirmInvitation, which mints the guest's half and stores it before it is spent:
\* the refresh token, the rejoin secret, the envelope, then the durable state.
Confirm(i) ==
    /\ guest.pc = "idle" /\ code[i].state = "open" /\ code[i].fresh
    /\ tokens < MaxTokens /\ tokens' = tokens + 1
    /\ guest' = [guest EXCEPT !.pc = "secret", !.on = i, !.refresh = tokens + 1]
    /\ GuestStep /\ UNCHANGED <<decisions, faults>>

SaveRejoinSecret ==
    /\ guest.pc = "secret"
    /\ guest' = [guest EXCEPT !.pc = "envelope", !.secret = guest.refresh]
    /\ GuestStep /\ UNCHANGED counters

SaveEnvelope ==
    /\ guest.pc = "envelope"
    /\ guest' = [guest EXCEPT !.pc = "state", !.envelope = guest.on]
    /\ GuestStep /\ UNCHANGED counters

SaveRedeeming ==
    /\ guest.pc = "state"
    /\ guest' = [guest EXCEPT !.pc = "redeem", !.phase = "redeeming", !.at = guest.on]
    /\ GuestStep /\ UNCHANGED counters

\* redeemInvitationForOnboarding: an expired invitation is burned, a consumed one
\* refused whoever presents it; otherwise the device waits with the hashes sent.
RedeemInvitation ==
    /\ guest.pc = "redeem"
    /\ LET i == guest.on IN
         \/ /\ code[i].state = "open" /\ code[i].fresh
            /\ code' = [code EXCEPT ![i].state = "redeemed", ![i].linked = TRUE,
                                    ![i].token = guest.refresh, ![i].secret = guest.secret]
            /\ device' = [device EXCEPT ![i] = "pending"]
            /\ guest' = [guest EXCEPT !.pc = "redeemed"]
         \/ /\ code[i].state = "open" /\ ~code[i].fresh
            /\ code' = [code EXCEPT ![i].state = "burned"]
            /\ guest' = [guest EXCEPT !.pc = "idle", !.on = None]
            /\ UNCHANGED device
         \/ /\ code[i].state # "open"
            /\ guest' = [guest EXCEPT !.pc = "idle", !.on = None]
            /\ UNCHANGED <<code, device>>
    /\ UNCHANGED <<member, role, home, families, authored, grants, enrollment,
                   rows, laptop, service, counters>>

\* The answer: the credential is saved, then the durable state, and the envelope
\* is cleared as far as that succeeds.
SavePendingCredential ==
    /\ guest.pc = "redeemed"
    /\ guest' = [guest EXCEPT !.pc = "keep", !.credential = guest.on]
    /\ GuestStep /\ UNCHANGED counters

SavePending ==
    /\ guest.pc = "keep"
    /\ guest' = [guest EXCEPT !.pc = "waiting", !.phase = "pending", !.envelope = None,
                              !.on = None]
    /\ GuestStep /\ UNCHANGED counters

\* getApprovalStatus; without its row the invitation is unknown.
ApprovalStatus(i) ==
    IF code[i].state = "gone" THEN "error"
    ELSE IF ~code[i].linked THEN "rejected"
    ELSE IF device[i] = "pending" THEN "pending"
    ELSE IF device[i] = "approved" THEN (IF member[i] = "active" THEN "approved" ELSE "error")
    ELSE "rejected"

\* pollApproval, one round of driveToConnected
PollApproval ==
    /\ guest.pc = "waiting"
    /\ guest' = IF guest.credential = None
                THEN [guest EXCEPT !.pc = "idle"]
                ELSE [guest EXCEPT !.pc = "polled", !.verdict = ApprovalStatus(guest.at)]
    /\ GuestStep /\ UNCHANGED counters

\* The device waits on, is connected, or lets its credential and then its state go.
HandleApproval ==
    /\ guest.pc = "polled"
    /\ LET rest == [guest EXCEPT !.pc = "idle", !.verdict = "error"] IN
       guest' = CASE guest.verdict = "pending" -> [rest EXCEPT !.pc = "waiting"]
                  [] guest.verdict = "error" -> rest
                  [] guest.verdict = "approved" ->
                       [rest EXCEPT !.phase = "connected", !.credential = None, !.live = guest.at]
                  [] guest.verdict = "rejected" ->
                       [rest EXCEPT !.pc = "rejecting", !.credential = None]
    /\ GuestStep /\ UNCHANGED counters

ClearRejected ==
    /\ guest.pc = "rejecting"
    /\ guest' = [guest EXCEPT !.pc = "idle", !.phase = "none", !.at = None]
    /\ GuestStep /\ UNCHANGED counters

\* resume at the next start or retry, by the durable phase
Resume ==
    /\ guest.pc = "idle" /\ guest.live = None
    /\ \/ guest.phase = "redeeming" /\ guest.envelope # None
          /\ guest' = [guest EXCEPT !.pc = "redeem", !.on = guest.at]
       \/ guest.phase = "pending" /\ guest.credential # None
          /\ guest' = [guest EXCEPT !.pc = "waiting"]
       \/ guest.phase = "connected" /\ guest.refresh # 0
          /\ guest' = [guest EXCEPT !.live = guest.at]
    /\ GuestStep /\ UNCHANGED counters

\* The application is closed, or the request, its answer or a write is lost.
CloseGuest ==
    /\ guest.pc # "idle" \/ guest.live # None
    /\ Fault
    /\ guest' = [guest EXCEPT !.pc = "idle", !.live = None, !.candidate = 0,
                              !.verdict = "error", !.on = None]
    /\ GuestStep

LoseRedemption ==
    /\ guest.pc \in {"redeem", "redeemed"}
    /\ Fault
    /\ guest' = [guest EXCEPT !.pc = "idle", !.on = None]
    /\ GuestStep

\* resetHavemindConnectionState
ResetGuest ==
    /\ guest.pc = "idle" /\ guest.phase # "none"
    /\ Fault
    /\ guest' = NewGuest
    /\ GuestStep

-----------------------------------------------------------------------------
(* Rejoining, revoking and what members leave behind.                      *)

\* The session is refused: armRejoin reads the identity the device holds and
\* mints the one candidate token its polls present.
ArmRejoin ==
    /\ guest.pc = "idle" /\ guest.live # None /\ guest.phase = "connected"
    /\ guest.live \notin SessionOf(guest.refresh)
    /\ tokens < MaxTokens /\ tokens' = tokens + 1
    /\ guest' = [guest EXCEPT !.pc = "rejoin", !.live = None, !.candidate = tokens + 1]
    /\ GuestStep /\ UNCHANGED <<decisions, faults>>

\* createGrant consumes the member's earlier grants.
Superseded(t) == {g \in grants : g.user # t}

CreateGrant(u, t) ==
    /\ SignedIn(u) /\ member[t] = "active" /\ IsOwnerOf(u, home[t])
    /\ device[t] = "approved"
    /\ grants' = Superseded(t) \cup {[user |-> t, number |-> decisions, fresh |-> TRUE]}
    /\ authored' = authored \cup {u}
    /\ Decide
    /\ UNCHANGED <<code, device, member, role, home, families, enrollment, rows, clients>>

ExpireGrant ==
    \E g \in grants :
        /\ g.fresh
        /\ Decide
        /\ grants' = (grants \ {g}) \cup {[g EXCEPT !.fresh = FALSE]}
        /\ UNCHANGED <<code, device, member, role, home, families, authored, enrollment, rows, clients>>

\* #loadLiveGrant: the newest grant that is not consumed, unless it has expired
LiveGrant(t) ==
    {g \in grants : /\ g.user = t /\ g.fresh
                    /\ \A h \in grants : h.user = t => h.number <= g.number}

\* Faulty variant: a member who was removed after the grant was issued comes back.
MayRejoinRevoked(t, secret, token) ==
    LiveGrant(t) # {} /\ code[t].secret = secret /\ ~TokenUsed(token)

\* redeemGrant's conditions
MayRejoin(t, secret, token) ==
    /\ LiveGrant(t) # {} /\ member[t] = "active" /\ device[t] = "approved"
    /\ code[t].secret = secret /\ ~TokenUsed(token)

\* One poll that succeeds; any other leaves both sides as they were.
RedeemGrant ==
    /\ guest.pc = "rejoin"
    /\ LET t == guest.at IN
         /\ MayRejoin(t, guest.secret, guest.candidate)
         /\ grants' = grants \ LiveGrant(t)
         /\ families' = families \cup {NewFamily(t, guest.candidate)}
    /\ guest' = [guest EXCEPT !.pc = "rejoined"]
    /\ UNCHANGED <<code, device, member, role, home, authored, enrollment,
                   rows, laptop, service, counters>>

\* The token is saved and the connection restarted.
SaveRejoined ==
    /\ guest.pc = "rejoined"
    /\ guest' = [guest EXCEPT !.pc = "idle", !.refresh = guest.candidate,
                              !.candidate = 0, !.live = guest.at]
    /\ GuestStep /\ UNCHANGED counters

\* The answer is lost: the poll goes on with the same candidate.
LoseRejoin ==
    /\ guest.pc = "rejoined"
    /\ Fault
    /\ guest' = [guest EXCEPT !.pc = "rejoin"]
    /\ GuestStep

\* The devices of a member in its vault
DevicesOf(t) == {d \in Device : device[d] # "absent" /\ UserOf(d) = t}

\* revokeDeviceInCurrentTransaction for every device of the member
Burned(t) == EndFamilies(DevicesOf(t))

\* Faulty variant: any member of the vault may remove any other, or itself.
MayRevokeAnyMember(u, t) == SignedIn(u) /\ home[u] = home[t]

\* The revoke route: an owner of the vault, about another membership
MayRevoke(u, t) == SignedIn(u) /\ IsOwnerOf(u, home[t]) /\ u # t

Revoke(u, t) ==
    /\ MayRevoke(u, t) /\ member[t] = "active"
    /\ member' = [member EXCEPT ![t] = "revoked"]
    /\ device' = [d \in Device |-> IF d \in DevicesOf(t) THEN "revoked" ELSE device[d]]
    /\ families' = Burned(t)
    /\ Decide
    /\ UNCHANGED <<code, role, home, authored, grants, enrollment, rows, clients>>

\* A member pushes a revision.
Push(u) ==
    /\ SignedIn(u) /\ member[u] = "active" /\ u \notin authored
    /\ authored' = authored \cup {u}
    /\ Decide
    /\ UNCHANGED <<code, device, member, role, home, families, grants, enrollment, rows, clients>>

-----------------------------------------------------------------------------
(* Agents: one click of an owner, then claimNextAgent of the service.      *)

Enroll(u, a) ==
    /\ SignedIn(u) /\ IsOwnerOf(u, home[u]) /\ enrollment[a].state = "none"
    /\ enrollment' = [enrollment EXCEPT ![a] =
         [NoEnrollment EXCEPT !.state = "waiting", !.by = u, !.at = decisions]]
    /\ authored' = authored \cup {u}
    /\ Decide
    /\ UNCHANGED <<code, device, member, role, home, families, grants, rows, clients>>

Waiting == {a \in Agents : enrollment[a].state = "waiting"}

\* The token and the redemption id are stored before they are sent, and sent again
\* after a failure.
BeginClaim ==
    /\ service.pc = "idle"
    /\ IF service.token # 0
       THEN service' = [service EXCEPT !.pc = "claim"] /\ UNCHANGED tokens
       ELSE /\ Agents # {}
            /\ tokens < MaxTokens /\ tokens' = tokens + 1
            /\ service' = [service EXCEPT !.pc = "claim", !.token = tokens + 1]
    /\ UNCHANGED <<tables, rows, guest, laptop, decisions, faults>>

\* Faulty variant: a repeated claim is a new one.
ClaimedWithForgets(claim) == {}

\* The agent already claimed with a redemption id
ClaimedWith(claim) == {a \in Agents : enrollment[a].claim = claim}

\* claim and #complete: the oldest waiting agent whose owner is still one; the
\* older ones of former owners are dropped.  (An owner's device stays approved as
\* long as the membership is active: both end in revokeMembership.)
Claim ==
    LET old == ClaimedWith(service.claim)
        good == {a \in Waiting : IsOwnerOf(enrollment[a].by, home[enrollment[a].by])}
        next == {a \in good : \A b \in good : enrollment[a].at <= enrollment[b].at}
        dropped == {b \in Waiting \ good :
                      \A a \in next : enrollment[b].at < enrollment[a].at}
        Answer(a) == service' = [service EXCEPT !.pc = "claimed", !.answer = a]
    IN  /\ service.pc = "claim"
        /\ \/ /\ old # {}
              /\ \E a \in old : Answer(a)
              /\ UNCHANGED <<device, member, role, home, families, enrollment>>
           \/ /\ old = {} /\ next = {}
              /\ Answer(None)
              /\ enrollment' = [a \in Agents |-> IF a \in dropped
                                  THEN [enrollment[a] EXCEPT !.state = "dropped"] ELSE enrollment[a]]
              /\ UNCHANGED <<device, member, role, home, families>>
           \/ /\ old = {} /\ ~TokenUsed(service.token)
              /\ \E a \in next :
                   /\ Answer(a)
                   /\ enrollment' = [b \in Agents |->
                        IF b \in dropped THEN [enrollment[b] EXCEPT !.state = "dropped"]
                        ELSE IF b = a THEN [enrollment[b] EXCEPT !.state = "claimed",
                                              !.claim = service.claim, !.token = service.token]
                        ELSE enrollment[b]]
                   /\ device' = [device EXCEPT ![a] = "approved"]
                   /\ member' = [member EXCEPT ![a] = "active"]
                   /\ role' = [role EXCEPT ![a] = "editor"]
                   /\ home' = [home EXCEPT ![a] = home[enrollment[a].by]]
                   /\ families' = families \cup {NewFamily(a, service.token)}
        /\ UNCHANGED <<code, authored, grants, rows, guest, laptop, counters>>

\* The agent's secrets and identity are written; with no agent the claim is forgotten.
KeepClaim ==
    /\ service.pc = "claimed"
    /\ service' = [service EXCEPT !.pc = "forget",
         !.joined = IF service.answer = None THEN @ ELSE @ \cup {<<service.answer, service.token>>}]
    /\ UNCHANGED <<tables, rows, guest, laptop, counters>>

ForgetClaim ==
    /\ service.pc = "forget"
    /\ service' = [service EXCEPT !.pc = "idle", !.token = 0, !.claim = @ + 1, !.answer = None]
    /\ UNCHANGED <<tables, rows, guest, laptop, counters>>

\* The request or the answer is lost, or the service stops.
ServiceFault ==
    /\ service.pc # "idle"
    /\ Fault
    /\ service' = [service EXCEPT !.pc = "idle", !.answer = None]
    /\ UNCHANGED <<tables, rows, guest, laptop>>

-----------------------------------------------------------------------------
OwnerActs ==
    \/ \E p \in Pairings : InitializeOwner(p) \/ PastePairing(p)
    \/ \E u \in Owners, p \in Pairings : CreateVault(u, p) \/ RotatePairing(u, p)
    \/ DeliverPairing \/ KeepPairedToken \/ WriteOwnerConnection \/ ClearPairing
    \/ PairingFails \/ LaptopFault \/ ResetLaptop
    \/ \E u \in User, i \in Invitations, r \in {"editor", "owner"} : CreateInvitation(u, i, r)
    \/ \E u \in User : RefreshRows(u) \/ Push(u)
    \/ \E u \in User, i \in Invitations :
         Approve(u, i) \/ Mistype(u, i) \/ Reject(u, i) \/ CreateGrant(u, i)
    \/ \E u, t \in User : Revoke(u, t)
    \/ \E u \in User, a \in Agents : Enroll(u, a)

GuestGoesOn ==
    \/ SaveRejoinSecret \/ SaveEnvelope \/ SaveRedeeming \/ RedeemInvitation
    \/ SavePendingCredential \/ SavePending \/ PollApproval \/ HandleApproval
    \/ ClearRejected \/ Resume

GuestActs ==
    \/ \E i \in Invitations : Confirm(i)
    \/ GuestGoesOn \/ CloseGuest \/ LoseRedemption \/ ResetGuest
    \/ ArmRejoin \/ RedeemGrant \/ SaveRejoined \/ LoseRejoin

ServiceActs == BeginClaim \/ Claim \/ KeepClaim \/ ForgetClaim \/ ServiceFault

TimeActs ==
    \/ \E c \in Pairings \cup Invitations : Expire(c)
    \/ \E i \in Invitations : WaitTooLong(i)
    \/ \E old \in SUBSET Invitations : CleanupStale(old)
    \/ Prune \/ ExpireGrant \/ FamilyEnds

Next == OwnerActs \/ GuestActs \/ ServiceActs \/ TimeActs

\* Time passes, the hourly pruning runs, and the guest's machine goes on: it is
\* started again after a stop, and a failed connection is retried.
Fairness ==
    /\ \A i \in Invitations : WF_vars(WaitTooLong(i))
    /\ WF_vars(Prune)
    /\ WF_vars(GuestGoesOn)

Spec == Init /\ [][Next]_vars /\ Fairness

-----------------------------------------------------------------------------
(* Properties.                                                             *)

\* An active session belongs to an approved device of an active member: approval
\* (approveRedeemedDevice), claim, rejoin (redeemGrant), rejection, the attempt cap
\* and revocation (revokeMembership) keep the three tables in step, in any order.
SessionsBelong ==
    \A f \in families : f.status = "active" /\ f.device \in Invitations \cup Agents
        => device[f.device] = "approved" /\ member[f.device] = "active"

\* A vault never loses its last owner: owners who remove each other (revoke route)
\* or reject a device that was approved meanwhile always leave one.
VaultKeepsOwner ==
    \A v \in Owners : (\E u \in User : home[u] = v /\ member[u] # "absent")
        => \E u \in User : IsOwnerOf(u, v)

\* The laptop's token spent the code and its session is still good.
SpentByLaptop(p) ==
    /\ laptop.pairing = p /\ code[p].state = "redeemed" /\ code[p].token = laptop.token
    /\ [device |-> p, token |-> laptop.token, status |-> "active"] \in families
    /\ member[code[p].user] = "active"

\* A pairing whose answer was lost or that was interrupted between two writes is
\* never refused (pairOwnerDeviceFromHash answers a repeat), and connectAsOwner lets
\* the stored half go only once the connection is written.
PairingRecoverable ==
    [][\A p \in Pairings : SpentByLaptop(p) =>
         /\ laptop'.pc # "failed"
         /\ laptop'.pairing = p => laptop'.token = laptop.token
         /\ laptop'.pairing = None => laptop'.connection = p \/ laptop' = NewLaptop]_vars

\* Every agent the server handed out is at the service with the token of its
\* session, or the service still holds the claim that fetches it again
\* (claimNextAgent, AgentEnrollmentService.claim).
NoAgentStranded ==
    \A a \in Agents : enrollment[a].state = "claimed" =>
        \/ <<a, enrollment[a].token>> \in service.joined
        \/ /\ service.claim = enrollment[a].claim
           /\ service.token = enrollment[a].token

\* A guest never waits for ever for an owner who does nothing: the wait ends with
\* an answer (pollApproval), through the hourly pruning if nobody decides.  The
\* state without its credential is what a crash in the middle of a rejection leaves.
\* A guest whose invitation cleanup-stale deleted is told nothing (known divergences).
WaitingEnds ==
    guest.phase = "pending"
      ~> (guest.phase # "pending" \/ guest.credential = None \/ code[guest.at].state = "gone")

\* What connectFromInput promises: a replacement that ended without success leaves
\* a healthy connection with the refresh token of its session.  It does not hold:
\* README, known divergences.
ReplacementKeepsSession ==
    guest.pc = "idle" /\ guest.live # None
      /\ (\E f \in families : f.device = guest.live /\ Good(f))
        => guest.live \in SessionOf(guest.refresh)
=============================================================================
