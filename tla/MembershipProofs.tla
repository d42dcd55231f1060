-------------------------- MODULE MembershipProofs --------------------------
(***************************************************************************)
(* Proofs about module Membership.                                         *)
(*                                                                         *)
(* The inductive invariant says what the tables have to do with each other *)
(* and with the half of a hand-shake that a client holds: an invitation    *)
(* that is not redeemed has neither device nor member, a waiting device no *)
(* membership, an owner's code an owner; and the machine of an owner or    *)
(* the agent service, at each point of an exchange, still holds what it    *)
(* needs to repeat it.                                                     *)
(***************************************************************************)
EXTENDS Membership, TLAPS

\* A redeemed code has attempts left as long as its invitation knows its device, and
\* the token it was redeemed with.
CodeKnows(row) ==
    /\ row.linked => row.attempts < MaxAttempts
    /\ row.state \in {"none", "open"} => row.attempts = 0
    /\ row.state = "redeemed" => row.token # 0
Codes == Pairings \cup Invitations
CodesKnow == \A c \in Codes : CodeKnows(code[c])

\* The guest's machine works on an invitation, with a token of its own.
GuestKnows ==
    /\ guest.pc # "idle" \/ guest.phase # "none" => guest.refresh # 0
    /\ guest.pc \in {"rejoin", "rejoined"} => guest.candidate # 0 /\ guest.phase = "connected"
    /\ guest.pc \in {"secret", "envelope", "state", "redeem", "redeemed", "keep"}
         => guest.on \in Invitations
    /\ guest.phase # "none" => guest.at \in Invitations
    /\ guest.pc \notin {"idle", "secret", "envelope", "state"} => guest.phase # "none"

\* The owner's machine works on a code, and writes its connection before it
\* clears the record.
LaptopKnows ==
    /\ laptop.pairing # None => laptop.token # 0
    /\ laptop.pc \in {"pair", "paired", "keep"} => laptop.pairing # None
    /\ laptop.pc = "clear" => laptop.connection = laptop.pairing

ServiceKnows ==
    /\ service.claim # 0
    /\ service.pc # "idle" => service.token # 0

\* An agent that waits was enrolled by a user.
EnrolledBy == \A a \in Agents : enrollment[a].state = "waiting" => enrollment[a].by \in User

Typed == TypeOK /\ CodesKnow /\ GuestKnows /\ LaptopKnows /\ ServiceKnows /\ EnrolledBy

\* What an invitation has become.
Admitted ==
    \A i \in Invitations :
        /\ code[i].state \in {"none", "open"} => device[i] = "absent" /\ member[i] = "absent"
        /\ device[i] = "pending" => member[i] = "absent"
        /\ member[i] # "absent" => home[i] = code[i].vault
        /\ i \notin rows[i]

\* A pairing code is an owner's, and only owners have one.
OwnersCodes ==
    \A p \in Pairings : code[p].state # "none"
        => code[p].user \in Owners /\ member[code[p].user] # "absent"

\* An agent edits, it never owns.
AgentsEdit == \A a \in Agents : role[a] = "editor"

\* A claim is for one agent, and the answers the service holds name it.
ClaimsCount ==
    /\ \A a \in Agents :
         /\ enrollment[a].state = "claimed" <=> enrollment[a].claim # 0
         /\ enrollment[a].state = "claimed" => enrollment[a].token # 0
         /\ enrollment[a].claim <= service.claim
         /\ \A b \in Agents : enrollment[a].claim = enrollment[b].claim /\ a # b
              => enrollment[a].claim = 0
         /\ service.pc = "claimed" /\ enrollment[a].claim = service.claim => service.answer = a
         /\ service.pc = "forget" /\ enrollment[a].claim = service.claim
              => <<a, enrollment[a].token>> \in service.joined

\* A refused pairing left no session behind.
RefusedHasNone == laptop.pc = "failed" => \A p \in Pairings : ~SpentByLaptop(p)

IInv ==
    /\ Typed /\ Admitted /\ OwnersCodes /\ AgentsEdit /\ ClaimsCount /\ RefusedHasNone
    /\ SessionsBelong /\ VaultKeepsOwner /\ NoAgentStranded

-----------------------------------------------------------------------------
(* Who changes what.                                                       *)

LaptopActs ==
    \/ \E p \in Pairings : PastePairing(p)
    \/ DeliverPairing \/ KeepPairedToken \/ WriteOwnerConnection \/ ClearPairing
    \/ PairingFails \/ LaptopFault \/ ResetLaptop

\* The steps of the machines that touch no table
Private ==
    \/ \E p \in Pairings : PastePairing(p)
    \/ KeepPairedToken \/ WriteOwnerConnection \/ ClearPairing
    \/ PairingFails \/ LaptopFault \/ ResetLaptop
    \/ SaveRejoinSecret \/ SaveEnvelope \/ SaveRedeeming
    \/ SavePendingCredential \/ SavePending \/ PollApproval \/ HandleApproval
    \/ ClearRejected \/ Resume
    \/ \E i \in Invitations : Confirm(i)
    \/ CloseGuest \/ LoseRedemption \/ ResetGuest
    \/ ArmRejoin \/ SaveRejoined \/ LoseRejoin
    \/ BeginClaim \/ KeepClaim \/ ForgetClaim \/ ServiceFault

LEMMA PrivateFrame == ASSUME Private PROVE UNCHANGED <<tables, rows>>
<1> USE DEF tables, GuestStep
<1>1. ASSUME NEW p \in Pairings, PastePairing(p) PROVE UNCHANGED <<tables, rows>>
  BY <1>1 DEF PastePairing
<1>2. CASE KeepPairedToken \/ WriteOwnerConnection \/ ClearPairing
             \/ PairingFails \/ LaptopFault \/ ResetLaptop
  BY <1>2 DEF KeepPairedToken, WriteOwnerConnection, ClearPairing,
              PairingFails, LaptopFault, ResetLaptop
<1>3. CASE SaveRejoinSecret \/ SaveEnvelope \/ SaveRedeeming \/ SavePendingCredential
             \/ SavePending \/ PollApproval \/ HandleApproval \/ ClearRejected \/ Resume
  BY <1>3 DEF SaveRejoinSecret, SaveEnvelope, SaveRedeeming, SavePendingCredential,
              SavePending, PollApproval, HandleApproval, ClearRejected, Resume
<1>4. ASSUME NEW i \in Invitations, Confirm(i) PROVE UNCHANGED <<tables, rows>>
  BY <1>4 DEF Confirm
<1>5. CASE CloseGuest \/ LoseRedemption \/ ResetGuest \/ ArmRejoin \/ SaveRejoined \/ LoseRejoin
  BY <1>5 DEF CloseGuest, LoseRedemption, ResetGuest, ArmRejoin, SaveRejoined, LoseRejoin
<1>6. CASE BeginClaim \/ KeepClaim \/ ForgetClaim \/ ServiceFault
  BY <1>6 DEF BeginClaim, KeepClaim, ForgetClaim, ServiceFault
<1> QED BY <1>1, <1>2, <1>3, <1>4, <1>5, <1>6 DEF Private

\* The steps that touch tables
Public ==
    \/ \E p \in Pairings : InitializeOwner(p)
    \/ \E u \in Owners, p \in Pairings : CreateVault(u, p) \/ RotatePairing(u, p)
    \/ DeliverPairing
    \/ \E u \in User, i \in Invitations, r \in {"editor", "owner"} : CreateInvitation(u, i, r)
    \/ \E u \in User : RefreshRows(u) \/ Push(u)
    \/ \E u \in User, i \in Invitations :
         Approve(u, i) \/ Mistype(u, i) \/ Reject(u, i) \/ CreateGrant(u, i)
    \/ \E u, t \in User : Revoke(u, t)
    \/ \E u \in User, a \in Agents : Enroll(u, a)
    \/ RedeemInvitation \/ RedeemGrant \/ Claim
    \/ TimeActs

LEMMA PublicOrPrivate == Next => Public \/ Private
BY DEF Next, OwnerActs, GuestActs, GuestGoesOn, ServiceActs, Public, Private

\* Each machine moves by its own steps only.
LEMMA MachinesApart ==
  ASSUME Next
  PROVE  /\ LaptopActs \/ UNCHANGED laptop
         /\ GuestActs \/ UNCHANGED guest
         /\ ServiceActs \/ UNCHANGED service
<1> USE DEF clients, GuestStep
<1>1. ASSUME LaptopActs PROVE UNCHANGED <<guest, service>>
  BY <1>1 DEF LaptopActs, PastePairing, DeliverPairing, KeepPairedToken, WriteOwnerConnection,
              ClearPairing, PairingFails, LaptopFault, ResetLaptop
<1>2. ASSUME GuestActs PROVE UNCHANGED <<laptop, service>>
  <2>1. CASE GuestGoesOn
    BY <2>1 DEF GuestGoesOn, SaveRejoinSecret, SaveEnvelope, SaveRedeeming, RedeemInvitation,
         SavePendingCredential, SavePending, PollApproval, HandleApproval, ClearRejected, Resume
  <2>2. ASSUME NEW i \in Invitations, Confirm(i) PROVE UNCHANGED <<laptop, service>>
    BY <2>2 DEF Confirm
  <2>3. CASE CloseGuest \/ LoseRedemption \/ ResetGuest \/ ArmRejoin \/ SaveRejoined \/ LoseRejoin
    BY <2>3 DEF CloseGuest, LoseRedemption, ResetGuest, ArmRejoin, SaveRejoined, LoseRejoin
  <2>4. CASE RedeemGrant
    BY <2>4 DEF RedeemGrant
  <2> QED BY <1>2, <2>1, <2>2, <2>3, <2>4 DEF GuestActs
<1>3. ASSUME ServiceActs PROVE UNCHANGED <<laptop, guest>>
  BY <1>3 DEF ServiceActs, BeginClaim, Claim, KeepClaim, ForgetClaim, ServiceFault
<1>4. ASSUME OwnerActs, ~LaptopActs PROVE UNCHANGED clients
  <2>1. ASSUME NEW p \in Pairings, InitializeOwner(p) PROVE UNCHANGED clients
    BY <2>1 DEF InitializeOwner, NewOwner
  <2>2. ASSUME NEW u \in Owners, NEW p \in Pairings, CreateVault(u, p) \/ RotatePairing(u, p)
        PROVE  UNCHANGED clients
    BY <2>2 DEF CreateVault, NewOwner, RotatePairing
  <2>3. ASSUME NEW u \in User, NEW i \in Invitations, NEW r \in {"editor", "owner"},
               CreateInvitation(u, i, r)
        PROVE  UNCHANGED clients
    BY <2>3 DEF CreateInvitation
  <2>4. ASSUME NEW u \in User, RefreshRows(u) \/ Push(u) PROVE UNCHANGED clients
    BY <2>4 DEF RefreshRows, Push
  <2>5. ASSUME NEW u \in User, NEW i \in Invitations,
               Approve(u, i) \/ Mistype(u, i) \/ Reject(u, i) \/ CreateGrant(u, i)
        PROVE  UNCHANGED clients
    BY <2>5 DEF Approve, Mistype, Reject, CreateGrant
  <2>6. ASSUME NEW u \in User, NEW t \in User, Revoke(u, t) PROVE UNCHANGED clients
    BY <2>6 DEF Revoke
  <2>7. ASSUME NEW u \in User, NEW a \in Agents, Enroll(u, a) PROVE UNCHANGED clients
    BY <2>7 DEF Enroll
  <2> QED BY <1>4, <2>1, <2>2, <2>3, <2>4, <2>5, <2>6, <2>7 DEF OwnerActs, LaptopActs
<1>5. ASSUME TimeActs PROVE UNCHANGED clients
  BY <1>5 DEF TimeActs, Expire, WaitTooLong, CleanupStale, Prune, ExpireGrant, FamilyEnds
<1> QED BY <1>1, <1>2, <1>3, <1>4, <1>5 DEF Next

-----------------------------------------------------------------------------
(* Types.                                                                  *)

LEMMA Bounds == MaxTokens \in Nat /\ MaxDecisions \in Nat /\ MaxFaults \in Nat
BY MembershipAssumption

\* A fresh token is a token.
LEMMA FreshToken ==
  ASSUME tokens \in 0..MaxTokens, tokens < MaxTokens
  PROVE  tokens + 1 \in Token /\ tokens + 1 # 0 /\ tokens + 1 \in 0..MaxTokens
BY Bounds DEF Token

LEMMA GuestStays ==
  ASSUME tokens \in 0..MaxTokens, guest \in Guest, GuestKnows, Next
  PROVE  guest' \in Guest /\ GuestKnows'
<1> DEFINE Knows == guest' \in Guest /\ GuestKnows'
<1>1. CASE UNCHANGED guest
  BY <1>1 DEF GuestKnows
<1>2. ASSUME NEW i \in Invitations, Confirm(i) PROVE Knows
  BY <1>2, FreshToken DEF Confirm, Guest, GuestKnows
<1>3. CASE SaveRejoinSecret
  BY <1>3 DEF SaveRejoinSecret, Guest, GuestKnows
<1>4. CASE SaveEnvelope
  BY <1>4 DEF SaveEnvelope, Guest, GuestKnows
<1>5. CASE SaveRedeeming
  BY <1>5 DEF SaveRedeeming, Guest, GuestKnows
<1>6. CASE RedeemInvitation
  BY ZenonT(60), <1>6 DEF RedeemInvitation, Guest, GuestKnows
<1>7. CASE SavePendingCredential
  BY <1>7 DEF SavePendingCredential, Guest, GuestKnows
<1>8. CASE SavePending
  BY <1>8 DEF SavePending, Guest, GuestKnows
<1>9. CASE PollApproval
  <2> DEFINE answer == ApprovalStatus(guest.at)
  <2>1. answer \in {"pending", "approved", "rejected", "error"}
    BY DEF ApprovalStatus
  <2>2. CASE guest.credential = None
    BY <1>9, <2>2 DEF PollApproval, Guest, GuestKnows
  <2>3. CASE guest.credential # None
    <3>1. guest' = [guest EXCEPT !.pc = "polled", !.verdict = answer] /\ guest.pc = "waiting"
      BY <1>9, <2>3 DEF PollApproval
    <3> HIDE DEF answer
    <3> QED BY <2>1, <3>1 DEF Guest, GuestKnows
  <2> QED BY <2>2, <2>3
<1>10. CASE HandleApproval
  <2> DEFINE rest == [guest EXCEPT !.pc = "idle", !.verdict = "error"]
  <2>1. guest.verdict \in {"pending", "approved", "rejected", "error"} /\ guest.pc = "polled"
    BY <1>10 DEF HandleApproval, Guest
  <2>2. CASE guest.verdict = "pending"
    <3>1. guest' = [rest EXCEPT !.pc = "waiting"]
      BY <1>10, <2>2 DEF HandleApproval
    <3> QED BY <2>1, <3>1 DEF Guest, GuestKnows
  <2>3. CASE guest.verdict = "error"
    <3>1. guest' = rest
      BY <1>10, <2>3 DEF HandleApproval
    <3> QED BY <2>1, <3>1 DEF Guest, GuestKnows
  <2>4. CASE guest.verdict = "approved"
    <3>1. guest' = [rest EXCEPT !.phase = "connected", !.credential = None, !.live = guest.at]
      BY <1>10, <2>4 DEF HandleApproval
    <3> QED BY <2>1, <3>1 DEF Guest, GuestKnows
  <2>5. CASE guest.verdict = "rejected"
    <3>1. guest' = [rest EXCEPT !.pc = "rejecting", !.credential = None]
      BY <1>10, <2>5 DEF HandleApproval
    <3> QED BY <2>1, <3>1 DEF Guest, GuestKnows
  <2> QED BY <2>1, <2>2, <2>3, <2>4, <2>5
<1>11. CASE ClearRejected
  BY <1>11 DEF ClearRejected, Guest, GuestKnows
<1>12. CASE Resume
  BY ZenonT(60), <1>12 DEF Resume, Guest, GuestKnows
<1>13. CASE CloseGuest \/ LoseRedemption
  BY ZenonT(60), <1>13 DEF CloseGuest, LoseRedemption, Guest, GuestKnows
<1>14. CASE ResetGuest
  BY <1>14 DEF ResetGuest, NewGuest, Guest, GuestKnows
<1>15. CASE ArmRejoin
  BY <1>15, FreshToken DEF ArmRejoin, Guest, GuestKnows
<1>16. CASE RedeemGrant \/ SaveRejoined \/ LoseRejoin
  BY ZenonT(60), <1>16 DEF RedeemGrant, SaveRejoined, LoseRejoin, Guest, GuestKnows
<1> QED BY MachinesApart, <1>1, <1>2, <1>3, <1>4, <1>5, <1>6, <1>7, <1>8, <1>9, <1>10,
           <1>11, <1>12, <1>13, <1>14, <1>15, <1>16 DEF GuestActs, GuestGoesOn

LEMMA LaptopStays ==
  ASSUME tokens \in 0..MaxTokens, laptop \in Laptop, LaptopKnows, Next
  PROVE  laptop' \in Laptop /\ LaptopKnows'
<1> DEFINE Knows == laptop' \in Laptop /\ LaptopKnows'
<1>1. CASE UNCHANGED laptop
  BY <1>1 DEF LaptopKnows
<1>2. ASSUME NEW p \in Pairings, PastePairing(p) PROVE Knows
  BY ZenonT(60), <1>2, FreshToken, MembershipAssumption DEF PastePairing, Laptop, LaptopKnows
<1>3. CASE DeliverPairing
  BY <1>3 DEF DeliverPairing, PairOwnerDevice, Laptop, LaptopKnows
<1>4. CASE KeepPairedToken \/ WriteOwnerConnection
  BY <1>4 DEF KeepPairedToken, WriteOwnerConnection, Laptop, LaptopKnows
<1>5. CASE ClearPairing
  BY <1>5 DEF ClearPairing, Laptop, LaptopKnows
<1>6. CASE PairingFails \/ LaptopFault
  BY <1>6 DEF PairingFails, LaptopFault, Laptop, LaptopKnows
<1>7. CASE ResetLaptop
  BY <1>7 DEF ResetLaptop, NewLaptop, Laptop, LaptopKnows
<1> QED BY MachinesApart, <1>1, <1>2, <1>3, <1>4, <1>5, <1>6, <1>7 DEF LaptopActs

LEMMA ServiceStays ==
  ASSUME tokens \in 0..MaxTokens, service \in Service, ServiceKnows, Next
  PROVE  service' \in Service /\ ServiceKnows'
<1> DEFINE Knows == service' \in Service /\ ServiceKnows'
<1>1. CASE UNCHANGED service
  BY <1>1 DEF ServiceKnows
<1>2. CASE BeginClaim
  BY <1>2, FreshToken DEF BeginClaim, Service, ServiceKnows
<1>3. CASE Claim
  <2>1. ASSUME NEW a \in Agents \cup {None}, service' = [service EXCEPT !.pc = "claimed", !.answer = a]
        PROVE  Knows
    BY <1>3, <2>1 DEF Claim, Service, ServiceKnows
  <2>2. \E a \in Agents \cup {None} : service' = [service EXCEPT !.pc = "claimed", !.answer = a]
    BY <1>3 DEF Claim, ClaimedWith, Waiting
  <2> QED BY <2>1, <2>2
<1>4. CASE KeepClaim
  <2> DEFINE held == IF service.answer = None THEN service.joined
                     ELSE service.joined \cup {<<service.answer, service.token>>}
  <2>1. service.token \in Token
    BY <1>4 DEF KeepClaim, Service, ServiceKnows
  <2>2. held \subseteq Agents \X Token
    BY <2>1 DEF Service
  <2>3. service' = [service EXCEPT !.pc = "forget", !.joined = held]
    BY <1>4 DEF KeepClaim, Service
  <2> HIDE DEF held
  <2> QED BY <1>4, <2>2, <2>3 DEF KeepClaim, Service, ServiceKnows
<1>5. CASE ForgetClaim
  <2>1. service.claim + 1 \in Nat /\ service.claim + 1 # 0
    BY DEF Service
  <2>2. service' = [service EXCEPT !.pc = "idle", !.token = 0, !.claim = service.claim + 1,
                                   !.answer = None]
    BY <1>5 DEF ForgetClaim
  <2> QED BY <2>1, <2>2 DEF Service, ServiceKnows
<1>6. CASE ServiceFault
  BY <1>6 DEF ServiceFault, Service, ServiceKnows
<1> QED BY MachinesApart, <1>1, <1>2, <1>3, <1>4, <1>5, <1>6 DEF ServiceActs

-----------------------------------------------------------------------------
(* Who changes which table.                                                *)

CodeActs ==
    \/ \E p \in Pairings : InitializeOwner(p)
    \/ \E u \in Owners, p \in Pairings : CreateVault(u, p) \/ RotatePairing(u, p)
    \/ DeliverPairing
    \/ \E u \in User, i \in Invitations, r \in {"editor", "owner"} : CreateInvitation(u, i, r)
    \/ \E u \in User, i \in Invitations : Approve(u, i) \/ Mistype(u, i) \/ Reject(u, i)
    \/ RedeemInvitation
    \/ \E c \in Pairings \cup Invitations : Expire(c)
    \/ \E i \in Invitations : WaitTooLong(i)
    \/ \E old \in SUBSET Invitations : CleanupStale(old)
    \/ Prune

DeviceActs ==
    \/ DeliverPairing
    \/ \E u \in User, i \in Invitations : Approve(u, i) \/ Mistype(u, i) \/ Reject(u, i)
    \/ \E u, t \in User : Revoke(u, t)
    \/ RedeemInvitation
    \/ \E old \in SUBSET Invitations : CleanupStale(old)
    \/ Prune
    \/ Claim

MemberActs ==
    \/ \E p \in Pairings : InitializeOwner(p)
    \/ \E u \in Owners, p \in Pairings : CreateVault(u, p)
    \/ \E u \in User, i \in Invitations : Approve(u, i) \/ Mistype(u, i) \/ Reject(u, i)
    \/ \E u, t \in User : Revoke(u, t)
    \/ Prune
    \/ Claim

FamilyActs ==
    \/ DeliverPairing
    \/ \E u \in User, i \in Invitations : Approve(u, i) \/ Mistype(u, i) \/ Reject(u, i)
    \/ \E u, t \in User : Revoke(u, t)
    \/ RedeemGrant
    \/ Prune
    \/ Claim
    \/ FamilyEnds

GrantActs ==
    \/ \E u \in User, i \in Invitations : Mistype(u, i) \/ Reject(u, i) \/ CreateGrant(u, i)
    \/ Prune
    \/ RedeemGrant
    \/ ExpireGrant

RowActs ==
    \/ \E u \in User, i \in Invitations, r \in {"editor", "owner"} : CreateInvitation(u, i, r)
    \/ \E u \in User : RefreshRows(u)
    \/ \E u \in User, i \in Invitations : Approve(u, i) \/ Mistype(u, i) \/ Reject(u, i)
    \/ \E c \in Pairings \cup Invitations : Expire(c)
    \/ \E i \in Invitations : WaitTooLong(i)

AuthoredActs ==
    \/ \E u \in User, i \in Invitations, r \in {"editor", "owner"} : CreateInvitation(u, i, r)
    \/ \E u \in User, i \in Invitations : CreateGrant(u, i)
    \/ \E u \in User : Push(u)
    \/ \E u \in User, a \in Agents : Enroll(u, a)

EnrollmentActs == Claim \/ \E u \in User, a \in Agents : Enroll(u, a)

LEMMA TablesApart ==
  ASSUME Next
  PROVE  /\ CodeActs \/ UNCHANGED code
         /\ DeviceActs \/ UNCHANGED device
         /\ MemberActs \/ UNCHANGED <<member, role, home>>
         /\ FamilyActs \/ UNCHANGED families
         /\ GrantActs \/ UNCHANGED grants
         /\ RowActs \/ UNCHANGED rows
         /\ AuthoredActs \/ UNCHANGED authored
         /\ EnrollmentActs \/ UNCHANGED enrollment
<1> DEFINE Apart ==
         /\ CodeActs \/ UNCHANGED code
         /\ DeviceActs \/ UNCHANGED device
         /\ MemberActs \/ UNCHANGED <<member, role, home>>
         /\ FamilyActs \/ UNCHANGED families
         /\ GrantActs \/ UNCHANGED grants
         /\ RowActs \/ UNCHANGED rows
         /\ AuthoredActs \/ UNCHANGED authored
         /\ EnrollmentActs \/ UNCHANGED enrollment
<1> SUFFICES Apart OBVIOUS
<1>1. CASE Private
  BY <1>1, PrivateFrame DEF tables
<1>2. ASSUME NEW p \in Pairings, InitializeOwner(p) PROVE Apart
  BY <1>2 DEF InitializeOwner, NewOwner, CodeActs, MemberActs
<1>3. ASSUME NEW u \in Owners, NEW p \in Pairings, CreateVault(u, p) PROVE Apart
  BY <1>3 DEF CreateVault, NewOwner, CodeActs, MemberActs
<1>4. ASSUME NEW u \in Owners, NEW p \in Pairings, RotatePairing(u, p) PROVE Apart
  BY <1>4 DEF RotatePairing, CodeActs
<1>5. CASE DeliverPairing
  <2>1. UNCHANGED <<member, role, home, authored, grants, enrollment, rows>>
    BY <1>5 DEF DeliverPairing, PairOwnerDevice
  <2> QED BY <1>5, <2>1 DEF CodeActs, DeviceActs, FamilyActs
<1>6. ASSUME NEW u \in User, NEW i \in Invitations, NEW r \in {"editor", "owner"},
             CreateInvitation(u, i, r)
      PROVE  Apart
  <2>1. UNCHANGED <<device, member, role, home, families, grants, enrollment>>
    BY <1>6 DEF CreateInvitation
  <2> QED BY <1>6, <2>1 DEF CodeActs, RowActs, AuthoredActs
<1>7. ASSUME NEW u \in User, RefreshRows(u) PROVE Apart
  BY <1>7 DEF RefreshRows, tables, RowActs
<1>8. ASSUME NEW u \in User, Push(u) PROVE Apart
  BY <1>8 DEF Push, AuthoredActs
<1>9. ASSUME NEW u \in User, NEW i \in Invitations, Approve(u, i) PROVE Apart
  <2>1. UNCHANGED <<authored, grants, enrollment>>
    BY <1>9 DEF Approve
  <2> QED BY <1>9, <2>1 DEF CodeActs, DeviceActs, MemberActs, FamilyActs, RowActs
<1>10. ASSUME NEW u \in User, NEW i \in Invitations, Mistype(u, i) \/ Reject(u, i) PROVE Apart
  <2>1. UNCHANGED <<authored, enrollment>>
    BY <1>10 DEF Mistype, Reject, DeleteUser
  <2> QED BY <1>10, <2>1 DEF CodeActs, DeviceActs, MemberActs, FamilyActs, GrantActs, RowActs
<1>11. ASSUME NEW u \in User, NEW i \in Invitations, CreateGrant(u, i) PROVE Apart
  BY <1>11 DEF CreateGrant, GrantActs, AuthoredActs
<1>12. ASSUME NEW u \in User, NEW t \in User, Revoke(u, t) PROVE Apart
  <2>1. UNCHANGED <<code, authored, grants, enrollment, rows>>
    BY <1>12 DEF Revoke
  <2> QED BY <1>12, <2>1 DEF DeviceActs, MemberActs, FamilyActs
<1>13. ASSUME NEW u \in User, NEW a \in Agents, Enroll(u, a) PROVE Apart
  BY <1>13 DEF Enroll, AuthoredActs, EnrollmentActs
<1>14. CASE RedeemInvitation
  BY <1>14 DEF RedeemInvitation, CodeActs, DeviceActs
<1>15. CASE RedeemGrant
  BY <1>15 DEF RedeemGrant, FamilyActs, GrantActs
<1>16. CASE Claim
  <2>1. UNCHANGED <<code, authored, grants, rows>>
    BY <1>16 DEF Claim
  <2> QED BY <1>16, <2>1 DEF DeviceActs, MemberActs, FamilyActs, EnrollmentActs
<1>17. ASSUME NEW c \in Pairings \cup Invitations, Expire(c) PROVE Apart
  BY <1>17 DEF Expire, CodeActs, RowActs
<1>18. ASSUME NEW i \in Invitations, WaitTooLong(i) PROVE Apart
  BY <1>18 DEF WaitTooLong, CodeActs, RowActs
<1>19. ASSUME NEW old \in SUBSET Invitations, CleanupStale(old) PROVE Apart
  BY <1>19 DEF CleanupStale, CodeActs, DeviceActs
<1>20. CASE Prune
  <2>1. UNCHANGED <<role, home, authored, enrollment, rows>>
    BY <1>20 DEF Prune, DeleteUser
  <2> QED BY <1>20, <2>1 DEF CodeActs, DeviceActs, MemberActs, FamilyActs, GrantActs
<1>21. CASE ExpireGrant
  BY <1>21 DEF ExpireGrant, GrantActs
<1>22. CASE FamilyEnds
  BY <1>22 DEF FamilyEnds, FamilyActs
<1> HIDE DEF Apart
<1>23. CASE TimeActs
  BY <1>17, <1>18, <1>19, <1>20, <1>21, <1>22, <1>23 DEF TimeActs
<1>24. CASE Public /\ ~TimeActs
  <2>1. CASE \E u \in User, i \in Invitations :
               Approve(u, i) \/ Mistype(u, i) \/ Reject(u, i) \/ CreateGrant(u, i)
    BY <2>1, <1>9, <1>10, <1>11
  <2>2. CASE \E u \in User, i \in Invitations, r \in {"editor", "owner"} : CreateInvitation(u, i, r)
    BY <2>2, <1>6
  <2> QED BY <1>2, <1>3, <1>4, <1>5, <1>7, <1>8, <1>12, <1>13, <1>14, <1>15, <1>16, <1>24,
             <2>1, <2>2 DEF Public
<1> QED BY PublicOrPrivate, <1>1, <1>23, <1>24

-----------------------------------------------------------------------------
(* Types of the tables.                                                    *)

\* What a row says, field by field.
LEMMA CodeType ==
  ASSUME TypeOK, CodesKnow, NEW c \in Codes
  PROVE  /\ code[c] \in Code /\ CodeKnows(code[c])
         /\ code[c].state \in {"none", "open", "burned", "redeemed", "gone"}
         /\ code[c].user \in Owners \cup {None} /\ code[c].vault \in Owners \cup {None}
         /\ code[c].role \in {"editor", "owner"}
         /\ code[c].linked \in BOOLEAN /\ code[c].fresh \in BOOLEAN
         /\ code[c].token \in Token \cup {0}
         /\ code[c].attempts \in Nat /\ code[c].attempts <= MaxAttempts
         /\ code[c].state = "redeemed" => code[c].token \in Token
<1>1. code[c] \in Code
  BY DEF TypeOK, Codes
<1>2. MaxAttempts \in Nat
  BY MembershipAssumption
<1> QED BY <1>1, <1>2 DEF Code, CodesKnow, CodeKnows

\* A new row.
LEMMA CodeOpened ==
  /\ NoCode \in Code /\ NoCode.attempts = 0 /\ NoCode.linked = FALSE
  /\ \A p \in Pairings, u \in Owners :
       OpenPairing(p, u, u) \in Code /\ CodeKnows(OpenPairing(p, u, u))
  /\ \A v \in Owners \cup {None}, r \in {"editor", "owner"} :
       LET row == [NoCode EXCEPT !.state = "open", !.vault = v, !.role = r]
       IN  row \in Code /\ CodeKnows(row)
<1>1. NoCode \in Code /\ NoCode.attempts = 0 /\ NoCode.linked = FALSE
  BY MembershipAssumption DEF NoCode, Code
<1>2. ASSUME NEW p \in Pairings, NEW u \in Owners
      PROVE  OpenPairing(p, u, u) \in Code /\ CodeKnows(OpenPairing(p, u, u))
  BY <1>1 DEF OpenPairing, Code, CodeKnows
<1>3. ASSUME NEW v \in Owners \cup {None}, NEW r \in {"editor", "owner"}
      PROVE  LET row == [NoCode EXCEPT !.state = "open", !.vault = v, !.role = r]
             IN  row \in Code /\ CodeKnows(row)
  BY <1>1 DEF Code, CodeKnows
<1> QED BY <1>1, <1>2, <1>3

\* One row is replaced.
LEMMA CodeReplaced ==
  ASSUME TypeOK, CodesKnow, NEW c \in Codes, NEW row \in Code, CodeKnows(row),
         code' = [code EXCEPT ![c] = row]
  PROVE  code' \in [Codes -> Code] /\ CodesKnow'
BY DEF TypeOK, CodesKnow, Codes

LEMMA CodesStay ==
  ASSUME Typed, Next
  PROVE  code' \in [Codes -> Code] /\ CodesKnow'
<1> DEFINE Knows == code' \in [Codes -> Code] /\ CodesKnow'
<1> SUFFICES Knows OBVIOUS
<1> TypeOK /\ CodesKnow /\ MaxAttempts \in Nat /\ MaxAttempts > 0
  BY MembershipAssumption DEF Typed
<1> HIDE DEF Knows
<1>1. ASSUME NEW p \in Pairings, NEW u \in Owners,
             code' = [code EXCEPT ![p] = OpenPairing(p, u, u)]
      PROVE  Knows
  <2>1. OpenPairing(p, u, u) \in Code /\ CodeKnows(OpenPairing(p, u, u)) /\ p \in Codes
    BY CodeOpened DEF Codes
  <2> QED BY <1>1, <2>1, CodeReplaced DEF Knows
<1>2. ASSUME NEW p \in Pairings, InitializeOwner(p) PROVE Knows
  BY <1>1, <1>2, MembershipAssumption DEF InitializeOwner, NewOwner
<1>3. ASSUME NEW u \in Owners, NEW p \in Pairings, CreateVault(u, p) PROVE Knows
  BY <1>1, <1>3 DEF CreateVault, NewOwner
<1>4. ASSUME NEW u \in Owners, NEW p \in Pairings, RotatePairing(u, p) PROVE Knows
  <2>1. OpenPairing(p, u, u) \in Code /\ CodeKnows(OpenPairing(p, u, u))
    BY CodeOpened
  <2>2. ASSUME NEW c \in Codes, code[c].state = "open"
        PROVE  [code[c] EXCEPT !.state = "burned"] \in Code
               /\ CodeKnows([code[c] EXCEPT !.state = "burned"])
    BY <2>2, CodeType DEF Code, CodeKnows
  <2>3. code' = [c \in Codes |->
                  IF c = p THEN OpenPairing(p, u, u)
                  ELSE IF code[c].user = u /\ code[c].state = "open"
                  THEN [code[c] EXCEPT !.state = "burned"] ELSE code[c]]
    BY <1>4 DEF RotatePairing, TypeOK, Codes
  <2>4. ASSUME NEW c \in Codes PROVE code'[c] \in Code /\ CodeKnows(code'[c])
    BY <2>1, <2>2, <2>3, CodeType
  <2> QED BY <2>3, <2>4 DEF Knows, CodesKnow
<1>5. CASE DeliverPairing
  <2> DEFINE p == laptop.pairing
             row == [code[p] EXCEPT !.state = "redeemed", !.token = laptop.token]
  <2>1. p \in Codes /\ laptop.token \in Token /\ laptop.token # 0
    BY <1>5 DEF DeliverPairing, Typed, LaptopKnows, TypeOK, Laptop, Codes
  <2>2. \/ UNCHANGED code
        \/ /\ code[p].state = "open"
           /\ code' = [code EXCEPT ![p].state = "redeemed", ![p].token = laptop.token]
    BY <1>5 DEF DeliverPairing, PairOwnerDevice
  <2> p \in DOMAIN code /\ code[p] \in Code
    BY <2>1, CodeType DEF TypeOK, Codes
  <2>3. CASE UNCHANGED code
    BY <2>3 DEF Knows, TypeOK, Codes, CodesKnow
  <2>4. CASE /\ code[p].state = "open"
             /\ code' = [code EXCEPT ![p].state = "redeemed", ![p].token = laptop.token]
    <3>1. row \in Code /\ CodeKnows(row)
      BY <2>1, <2>4, CodeType DEF Code, CodeKnows
    <3> QED BY <2>1, <2>4, <3>1, CodeReplaced DEF Knows
  <2> QED BY <2>2, <2>3, <2>4
<1>6. ASSUME NEW u \in User, NEW i \in Invitations, NEW r \in {"editor", "owner"},
             CreateInvitation(u, i, r)
      PROVE  Knows
  <2> DEFINE row == [NoCode EXCEPT !.state = "open", !.vault = home[u], !.role = r]
  <2>1. row \in Code /\ CodeKnows(row)
    BY CodeOpened DEF TypeOK
  <2> QED BY <1>6, <2>1, CodeReplaced DEF Knows, CreateInvitation, Codes
<1>7. ASSUME NEW u \in User, NEW i \in Invitations, Approve(u, i) PROVE Knows
  <2> DEFINE row == [code[i] EXCEPT !.attempts = 0]
  <2>1. row \in Code /\ CodeKnows(row) /\ i \in Codes
    BY CodeType DEF Code, CodeKnows, Codes
  <2>2. code' = [code EXCEPT ![i] = row]
    BY <1>7, <2>1 DEF Approve
  <2> QED BY <2>1, <2>2, CodeReplaced DEF Knows
<1>8. ASSUME NEW u \in User, NEW i \in Invitations, Mistype(u, i) PROVE Knows
  <2> DEFINE row == [code[i] EXCEPT !.attempts = code[i].attempts + 1,
                                    !.linked = ~(code[i].attempts + 1 >= MaxAttempts)]
  <2>1. code[i].linked /\ code[i].state = "redeemed" /\ i \in Codes
    BY <1>8 DEF Mistype, Approvable, Codes
  <2>2. code[i].attempts + 1 \in 0..MaxAttempts
    BY <2>1, CodeType DEF CodeKnows
  <2>3. row \in Code /\ CodeKnows(row)
    <3>1. code[i].attempts + 1 < MaxAttempts \/ code[i].attempts + 1 >= MaxAttempts
      BY <2>1, CodeType
    <3>2. row \in Code
      BY ZenonT(60), <2>1, <2>2, CodeType DEF Code
    <3>3. row.attempts = code[i].attempts + 1 /\ row.state = "redeemed"
          /\ row.token = code[i].token
          /\ row.linked = ~(code[i].attempts + 1 >= MaxAttempts)
      BY <2>1, CodeType DEF Code
    <3> HIDE DEF row
    <3> QED BY <2>1, <2>2, <3>1, <3>2, <3>3, CodeType DEF CodeKnows
  <2>4. code' = [code EXCEPT ![i] = row]
    BY <1>8, <2>1 DEF Mistype
  <2> QED BY <2>1, <2>3, <2>4, CodeReplaced DEF Knows
<1>9. ASSUME NEW i \in Invitations, code' = [code EXCEPT ![i].linked = FALSE] PROVE Knows
  <2> DEFINE row == [code[i] EXCEPT !.linked = FALSE]
  <2>1. row \in Code /\ CodeKnows(row) /\ i \in Codes
    BY CodeType DEF Code, CodeKnows, Codes
  <2> QED BY <1>9, <2>1, CodeReplaced DEF Knows
<1>10. ASSUME NEW u \in User, NEW i \in Invitations, Reject(u, i) PROVE Knows
  BY <1>9, <1>10 DEF Reject
<1>11. CASE Prune
  BY <1>9, <1>11 DEF Prune
<1>12. CASE RedeemInvitation
  <2> DEFINE i == guest.on
             row == [code[i] EXCEPT !.state = "redeemed", !.linked = TRUE,
                                    !.token = guest.refresh, !.secret = guest.secret]
             burned == [code[i] EXCEPT !.state = "burned"]
  <2>1. i \in Codes /\ guest.refresh \in Token /\ guest.refresh # 0 /\ guest.secret \in Token \cup {0}
    BY <1>12 DEF RedeemInvitation, Typed, GuestKnows, TypeOK, Guest, Codes
  <2>2. \/ code[i].state = "open" /\ code' = [code EXCEPT ![i] = row]
        \/ code[i].state = "open" /\ code' = [code EXCEPT ![i] = burned]
        \/ UNCHANGED code
    BY <1>12, <2>1 DEF RedeemInvitation
  <2>3. CASE code[i].state = "open" /\ code' = [code EXCEPT ![i] = row]
    <3>1. row \in Code
      BY <2>1, CodeType DEF Code
    <3>2. row.attempts = code[i].attempts /\ row.state = "redeemed" /\ row.token = guest.refresh
      BY <2>1, CodeType DEF Code
    <3>3. code[i].attempts = 0
      BY <2>1, <2>3, CodeType DEF CodeKnows
    <3>4. CodeKnows(row)
      BY <2>1, <3>2, <3>3 DEF CodeKnows
    <3> QED BY <2>1, <2>3, <3>1, <3>4, CodeReplaced DEF Knows
  <2>4. CASE code[i].state = "open" /\ code' = [code EXCEPT ![i] = burned]
    <3>1. burned \in Code /\ CodeKnows(burned)
      BY <2>1, <2>4, CodeType DEF Code, CodeKnows
    <3> QED BY <2>1, <2>4, <3>1, CodeReplaced DEF Knows
  <2>5. CASE UNCHANGED code
    BY <2>5 DEF Knows, TypeOK, Codes, CodesKnow
  <2> QED BY <2>2, <2>3, <2>4, <2>5
<1>13. ASSUME NEW c \in Codes, code' = [code EXCEPT ![c].fresh = FALSE] PROVE Knows
  <2> DEFINE row == [code[c] EXCEPT !.fresh = FALSE]
  <2>1. row \in Code /\ CodeKnows(row)
    BY CodeType DEF Code, CodeKnows
  <2> QED BY <1>13, <2>1, CodeReplaced DEF Knows
<1>14. ASSUME NEW c \in Codes, Expire(c) PROVE Knows
  BY <1>13, <1>14 DEF Expire
<1>15. ASSUME NEW i \in Invitations, WaitTooLong(i) PROVE Knows
  BY <1>13, <1>15 DEF WaitTooLong, Codes
<1>16. ASSUME NEW old \in SUBSET Invitations, CleanupStale(old) PROVE Knows
  <2>1. ASSUME NEW c \in Codes
        PROVE  [code[c] EXCEPT !.state = "gone", !.linked = FALSE] \in Code
               /\ CodeKnows([code[c] EXCEPT !.state = "gone", !.linked = FALSE])
    BY CodeType DEF Code, CodeKnows
  <2>2. code' = [c \in Codes |-> IF c \in StaleInvitations(old)
                   THEN [code[c] EXCEPT !.state = "gone", !.linked = FALSE] ELSE code[c]]
    BY <1>16 DEF CleanupStale, TypeOK, Codes
  <2>3. ASSUME NEW c \in Codes PROVE code'[c] \in Code /\ CodeKnows(code'[c])
    BY <2>1, <2>2, CodeType
  <2> QED BY <2>2, <2>3 DEF Knows, CodesKnow
<1>17. CASE UNCHANGED code
  BY <1>17 DEF Knows, TypeOK, Codes, CodesKnow
<1> QED BY TablesApart, <1>2, <1>3, <1>4, <1>5, <1>6, <1>7, <1>8, <1>10, <1>11, <1>12, <1>14,
           <1>15, <1>16, <1>17 DEF CodeActs, Codes

\* An invitation and an agent are their own users.
LEMMA UserOfType ==
  ASSUME TypeOK, NEW d \in Device
  PROVE  /\ UserOf(d) \in User \cup {None}
         /\ d \in Invitations \cup Agents => UserOf(d) = d /\ d \in User
<1>1. CASE d \in Pairings
  <2>1. code[d] \in Code
    BY <1>1 DEF TypeOK
  <2> QED BY <1>1, <2>1, MembershipAssumption DEF UserOf, Code, User
<1>2. CASE d \notin Pairings
  BY <1>2 DEF UserOf, Device, User
<1> QED BY <1>1, <1>2, MembershipAssumption

DeviceState == {"absent", "pending", "approved", "revoked"}

LEMMA DevicesStay ==
  ASSUME Typed, Next
  PROVE  device' \in [Device -> DeviceState]
<1> DEFINE Known == device' \in [Device -> DeviceState]
<1> device \in [Device -> DeviceState]
  BY DEF Typed, TypeOK, DeviceState
<1>1. CASE DeliverPairing
  BY <1>1 DEF DeliverPairing, PairOwnerDevice, DeviceState
<1>2. ASSUME NEW i \in Invitations, DeleteUser(i) PROVE Known
  BY <1>2 DEF DeleteUser, DeviceState
<1>3. ASSUME NEW u \in User, NEW i \in Invitations, Approve(u, i) PROVE Known
  BY <1>3 DEF Approve, DeviceState
<1>4. ASSUME NEW u \in User, NEW i \in Invitations, Mistype(u, i) \/ Reject(u, i) PROVE Known
  BY <1>2, <1>4 DEF Mistype, Reject
<1>5. ASSUME NEW u \in User, NEW t \in User, Revoke(u, t) PROVE Known
  BY <1>5 DEF Revoke, DeviceState
<1>6. CASE RedeemInvitation
  BY <1>6 DEF RedeemInvitation, DeviceState
<1>7. ASSUME NEW old \in SUBSET Invitations, CleanupStale(old) PROVE Known
  BY <1>7 DEF CleanupStale, DeviceState
<1>8. CASE Prune
  BY <1>2, <1>8 DEF Prune
<1>9. CASE Claim
  BY <1>9 DEF Claim, DeviceState
<1> QED BY TablesApart, <1>1, <1>3, <1>4, <1>5, <1>6, <1>7, <1>8, <1>9 DEF DeviceActs

LEMMA MembersStay ==
  ASSUME Typed, Next
  PROVE  /\ member' \in [User -> {"absent", "active", "revoked"}]
         /\ role' \in [User -> {"editor", "owner"}]
         /\ home' \in [User -> Owners \cup {None}]
<1> DEFINE Known == /\ member' \in [User -> {"absent", "active", "revoked"}]
                    /\ role' \in [User -> {"editor", "owner"}]
                    /\ home' \in [User -> Owners \cup {None}]
<1> SUFFICES Known OBVIOUS
<1> /\ member \in [User -> {"absent", "active", "revoked"}]
    /\ role \in [User -> {"editor", "owner"}]
    /\ home \in [User -> Owners \cup {None}]
  BY DEF Typed, TypeOK
<1>1. ASSUME NEW u \in Owners, NEW p \in Pairings, NewOwner(u, p) PROVE Known
  BY <1>1 DEF NewOwner
<1>2. ASSUME NEW p \in Pairings, InitializeOwner(p) PROVE Known
  BY <1>1, <1>2, MembershipAssumption DEF InitializeOwner
<1>3. ASSUME NEW u \in Owners, NEW p \in Pairings, CreateVault(u, p) PROVE Known
  BY <1>1, <1>3 DEF CreateVault
<1>4. ASSUME NEW u \in User, NEW i \in Invitations, Approve(u, i) PROVE Known
  <2>1. code[i].role \in {"editor", "owner"} /\ code[i].vault \in Owners \cup {None}
    BY CodeType DEF Typed, Codes
  <2> QED BY <1>4, <2>1 DEF Approve
<1>5. ASSUME NEW i \in Invitations, DeleteUser(i) PROVE Known
  BY <1>5 DEF DeleteUser
<1>6. ASSUME NEW u \in User, NEW i \in Invitations, Mistype(u, i) \/ Reject(u, i) PROVE Known
  BY <1>5, <1>6 DEF Mistype, Reject
<1>7. ASSUME NEW u \in User, NEW t \in User, Revoke(u, t) PROVE Known
  BY <1>7 DEF Revoke
<1>8. CASE Prune
  BY <1>5, <1>8 DEF Prune
<1>9. CASE Claim
  <2>1. CASE UNCHANGED <<member, role, home>>
    BY <2>1
  <2>2. ASSUME NEW a \in Waiting,
               /\ member' = [member EXCEPT ![a] = "active"]
               /\ role' = [role EXCEPT ![a] = "editor"]
               /\ home' = [home EXCEPT ![a] = home[enrollment[a].by]],
               IsOwnerOf(enrollment[a].by, home[enrollment[a].by])
        PROVE  Known
    <3>1. enrollment[a].by \in User
      BY <2>2 DEF Waiting, Typed, EnrolledBy
    <3> QED BY <2>2, <3>1
  <2> QED BY <1>9, <2>1, <2>2 DEF Claim
<1>10. CASE UNCHANGED <<member, role, home>>
  BY <1>10
<1> QED BY TablesApart, <1>2, <1>3, <1>4, <1>6, <1>7, <1>8, <1>9, <1>10 DEF MemberActs

\* Every session is a device's.
LEMMA FamiliesStay ==
  ASSUME Typed, Next
  PROVE  families' \subseteq Family
<1> DEFINE Known == families' \subseteq Family
<1> families \subseteq Family
  BY DEF Typed, TypeOK
<1>1. ASSUME NEW d \in Device, NEW t \in Token,
             families' \subseteq families \cup {NewFamily(d, t)}
      PROVE  Known
  BY <1>1 DEF NewFamily, Family
<1>2. ASSUME families' \subseteq families PROVE Known
  BY <1>2
<1>3. CASE DeliverPairing
  <2>1. laptop.pairing \in Device /\ laptop.token \in Token
    BY <1>3 DEF DeliverPairing, Typed, LaptopKnows, TypeOK, Laptop, Device
  <2>2. families' \subseteq families \cup {NewFamily(laptop.pairing, laptop.token)}
    BY <1>3 DEF DeliverPairing, PairOwnerDevice
  <2> QED BY <1>1, <2>1, <2>2
<1>4. ASSUME NEW u \in User, NEW i \in Invitations, Approve(u, i) PROVE Known
  <2>1. code[i].token \in Token
    BY <1>4, CodeType DEF Approve, Approvable, Typed, Codes
  <2> QED BY <1>1, <1>4, <2>1 DEF Approve, Device
<1>5. ASSUME NEW u \in User, NEW i \in Invitations, Mistype(u, i) \/ Reject(u, i) PROVE Known
  BY <1>2, <1>5 DEF Mistype, Reject, DeleteUser
<1>6. ASSUME NEW u \in User, NEW t \in User, Revoke(u, t) PROVE Known
  BY <1>6 DEF Revoke, Burned, EndFamilies, Family
<1>7. CASE RedeemGrant
  <2>1. guest.candidate \in Token /\ guest.at \in Device
    BY <1>7 DEF RedeemGrant, Typed, GuestKnows, TypeOK, Guest, Device
  <2> QED BY <1>1, <1>7, <2>1 DEF RedeemGrant
<1>8. CASE Prune
  BY <1>2, <1>8 DEF Prune, DeleteUser
<1>9. CASE Claim
  <2>1. service.token \in Token
    BY <1>9 DEF Claim, Typed, ServiceKnows, TypeOK, Service
  <2>2. \/ UNCHANGED families
        \/ \E a \in Agents : families' = families \cup {NewFamily(a, service.token)}
    BY <1>9 DEF Claim, Waiting
  <2> QED BY <1>1, <1>2, <2>1, <2>2 DEF Device
<1>10. CASE FamilyEnds
  BY <1>10 DEF FamilyEnds, Family
<1> QED BY TablesApart, <1>2, <1>3, <1>4, <1>5, <1>6, <1>7, <1>8, <1>9, <1>10 DEF FamilyActs

LEMMA GrantsStay ==
  ASSUME Typed, Next
  PROVE  grants' \subseteq Grant
<1> DEFINE Known == grants' \subseteq Grant
<1> grants \subseteq Grant /\ decisions \in Nat
  BY Bounds DEF Typed, TypeOK
<1>1. ASSUME grants' \subseteq grants PROVE Known
  BY <1>1
<1>2. ASSUME NEW u \in User, NEW i \in Invitations, Mistype(u, i) \/ Reject(u, i) PROVE Known
  BY <1>1, <1>2 DEF Mistype, Reject, DeleteUser
<1>3. ASSUME NEW u \in User, NEW i \in Invitations, CreateGrant(u, i) PROVE Known
  <2> DEFINE new == [user |-> i, number |-> decisions, fresh |-> TRUE]
  <2>1. new \in Grant
    BY DEF Grant
  <2>2. grants' \subseteq grants \cup {new}
    BY <1>3 DEF CreateGrant, Superseded
  <2> QED BY <2>1, <2>2
<1>4. CASE Prune
  BY <1>1, <1>4 DEF Prune, DeleteUser
<1>5. CASE RedeemGrant
  BY <1>1, <1>5 DEF RedeemGrant
<1>6. CASE ExpireGrant
  BY <1>6 DEF ExpireGrant, Grant
<1> QED BY TablesApart, <1>1, <1>2, <1>3, <1>4, <1>5, <1>6 DEF GrantActs

LEMMA RowsStay ==
  ASSUME Typed, Next
  PROVE  rows' \in [User -> SUBSET Invitations]
<1> DEFINE Known == rows' \in [User -> SUBSET Invitations]
<1> rows \in [User -> SUBSET Invitations]
  BY DEF Typed, TypeOK
<1>1. ASSUME NEW u \in User, NEW i \in Invitations, NEW r \in {"editor", "owner"},
             CreateInvitation(u, i, r)
      PROVE  Known
  BY <1>1 DEF CreateInvitation
<1>2. ASSUME NEW u \in User, RefreshRows(u) PROVE Known
  BY <1>2 DEF RefreshRows, PendingApprovals
<1>3. ASSUME NEW u \in User, NEW i \in Invitations, Approve(u, i) \/ Mistype(u, i) \/ Reject(u, i)
      PROVE  Known
  BY <1>3 DEF Approve, Mistype, Reject, DropRow
<1>4. ASSUME NEW c \in Codes, Expire(c) PROVE Known
  BY <1>4 DEF Expire
<1>5. ASSUME NEW i \in Invitations, WaitTooLong(i) PROVE Known
  BY <1>5 DEF WaitTooLong
<1> QED BY TablesApart, <1>1, <1>2, <1>3, <1>4, <1>5 DEF RowActs, Codes

LEMMA AuthoredStays ==
  ASSUME Typed, Next
  PROVE  authored' \subseteq User
<1> authored \subseteq User
  BY DEF Typed, TypeOK
<1> QED BY TablesApart DEF AuthoredActs, CreateInvitation, CreateGrant, Push, Enroll

\* Who was enrolled, and by whom.
LEMMA EnrollmentStays ==
  ASSUME Typed, Next
  PROVE  enrollment' \in [Agents -> Enrollment] /\ EnrolledBy'
<1> DEFINE Known == enrollment' \in [Agents -> Enrollment] /\ EnrolledBy'
<1> SUFFICES Known OBVIOUS
<1> /\ enrollment \in [Agents -> Enrollment] /\ EnrolledBy
    /\ decisions \in Nat /\ 0 \in Nat
    /\ service.claim \in Nat /\ service.token \in Token \cup {0}
  BY Bounds DEF Typed, TypeOK, Service
<1>1. ASSUME NEW u \in User, NEW a \in Agents, Enroll(u, a) PROVE Known
  <2> DEFINE new == [NoEnrollment EXCEPT !.state = "waiting", !.by = u, !.at = decisions]
  <2>1. new \in Enrollment /\ new.by = u
    BY DEF Enrollment, NoEnrollment
  <2>2. enrollment' = [enrollment EXCEPT ![a] = new]
    BY <1>1 DEF Enroll
  <2> HIDE DEF new
  <2> QED BY <2>1, <2>2 DEF EnrolledBy
<1>2. CASE Claim
  <2> DEFINE Step(b) == \/ enrollment'[b] = enrollment[b]
                        \/ enrollment'[b] = [enrollment[b] EXCEPT !.state = "dropped"]
                        \/ enrollment'[b] = [enrollment[b] EXCEPT !.state = "claimed",
                                               !.claim = service.claim, !.token = service.token]
  <2>1. enrollment' = [b \in Agents |-> enrollment'[b]] /\ \A b \in Agents : Step(b)
    BY <1>2 DEF Claim
  <2>2. ASSUME NEW b \in Agents
        PROVE  enrollment'[b] \in Enrollment
               /\ (enrollment'[b].state = "waiting" => enrollment'[b].by \in User)
    <3>1. enrollment[b] \in Enrollment /\ Step(b)
      BY <2>1
    <3> QED BY <3>1 DEF Enrollment, EnrolledBy
  <2> QED BY <2>1, <2>2 DEF EnrolledBy
<1>3. CASE UNCHANGED enrollment
  BY <1>3 DEF EnrolledBy
<1> QED BY TablesApart, <1>1, <1>2, <1>3 DEF EnrollmentActs

LEMMA CountersStay ==
  ASSUME Typed, Next
  PROVE  tokens' \in 0..MaxTokens /\ decisions' \in 0..MaxDecisions /\ faults' \in 0..MaxFaults
<1> DEFINE Known == /\ tokens' \in 0..MaxTokens
                    /\ decisions' \in 0..MaxDecisions
                    /\ faults' \in 0..MaxFaults
<1> SUFFICES Known OBVIOUS
<1> tokens \in 0..MaxTokens /\ decisions \in 0..MaxDecisions /\ faults \in 0..MaxFaults
  BY DEF Typed, TypeOK
<1>1. CASE UNCHANGED counters
  BY <1>1 DEF counters
<1>2. CASE Decide
  BY <1>2, Bounds DEF Decide
<1>3. CASE Fault
  BY <1>3, Bounds DEF Fault
<1>4. CASE tokens < MaxTokens /\ tokens' = tokens + 1 /\ UNCHANGED <<decisions, faults>>
  BY <1>4, Bounds
<1> DEFINE Counted == \/ UNCHANGED counters \/ Decide \/ Fault
                      \/ /\ tokens < MaxTokens /\ tokens' = tokens + 1
                         /\ UNCHANGED <<decisions, faults>>
<1>5. Counted => Known
  BY <1>1, <1>2, <1>3, <1>4
<1> HIDE DEF Known
<1>6. ASSUME NEW p \in Pairings, PastePairing(p) PROVE Counted
  BY <1>6 DEF PastePairing, counters
<1>7. CASE DeliverPairing \/ KeepPairedToken \/ WriteOwnerConnection \/ ClearPairing
             \/ PairingFails \/ LaptopFault \/ ResetLaptop
  <2>1. Counted
    BY <1>7 DEF DeliverPairing, KeepPairedToken, WriteOwnerConnection,
                ClearPairing, PairingFails, LaptopFault, ResetLaptop
  <2> QED BY <1>5, <2>1
<1>8. CASE GuestGoesOn
  <2>1. Counted
    BY <1>8 DEF GuestGoesOn, SaveRejoinSecret, SaveEnvelope, SaveRedeeming, RedeemInvitation,
         SavePendingCredential, SavePending, PollApproval, HandleApproval, ClearRejected, Resume
  <2> QED BY <1>5, <2>1
<1>9. ASSUME NEW i \in Invitations, Confirm(i) PROVE Counted
  BY <1>9 DEF Confirm
<1>10. CASE CloseGuest \/ LoseRedemption \/ ResetGuest
             \/ ArmRejoin \/ RedeemGrant \/ SaveRejoined \/ LoseRejoin
  <2>1. Counted
    BY <1>10 DEF CloseGuest, LoseRedemption, ResetGuest, ArmRejoin, RedeemGrant,
                 SaveRejoined, LoseRejoin
  <2> QED BY <1>5, <2>1
<1>11. CASE ServiceActs
  <2>1. Counted
    BY <1>11 DEF ServiceActs, BeginClaim, Claim, KeepClaim, ForgetClaim, ServiceFault, counters
  <2> QED BY <1>5, <2>1
<1>12. ASSUME NEW p \in Pairings, InitializeOwner(p) PROVE Counted
  BY <1>12 DEF InitializeOwner
<1>13. ASSUME NEW u \in Owners, NEW p \in Pairings, CreateVault(u, p) \/ RotatePairing(u, p)
       PROVE  Counted
  BY <1>13 DEF CreateVault, RotatePairing
<1>14. ASSUME NEW u \in User, NEW i \in Invitations, NEW r \in {"editor", "owner"},
              CreateInvitation(u, i, r)
       PROVE  Counted
  BY <1>14 DEF CreateInvitation
<1>15. ASSUME NEW u \in User, RefreshRows(u) \/ Push(u) PROVE Counted
  BY <1>15 DEF RefreshRows, Push
<1>16. ASSUME NEW u \in User, NEW i \in Invitations,
              Approve(u, i) \/ Mistype(u, i) \/ Reject(u, i) \/ CreateGrant(u, i)
       PROVE  Counted
  BY <1>16 DEF Approve, Mistype, Reject, CreateGrant
<1>17. ASSUME NEW u \in User, NEW t \in User, Revoke(u, t) PROVE Counted
  BY <1>17 DEF Revoke
<1>18. ASSUME NEW u \in User, NEW a \in Agents, Enroll(u, a) PROVE Counted
  BY <1>18 DEF Enroll
<1>19. CASE TimeActs
  <2>1. Counted
    BY <1>19 DEF TimeActs, Expire, WaitTooLong, CleanupStale, Prune, ExpireGrant, FamilyEnds
  <2> QED BY <1>5, <2>1
<1> HIDE DEF Counted
<1>20. CASE OwnerActs
  BY <1>5, <1>6, <1>7, <1>12, <1>13, <1>14, <1>15, <1>16, <1>17, <1>18, <1>20 DEF OwnerActs
<1>21. CASE GuestActs
  BY <1>5, <1>8, <1>9, <1>10, <1>21 DEF GuestActs
<1> QED BY <1>11, <1>19, <1>20, <1>21 DEF Next

-----------------------------------------------------------------------------
(* The type invariant.                                                     *)

LEMMA InitTyped == Init => Typed
<1> SUFFICES ASSUME Init PROVE Typed OBVIOUS
<1> MaxAttempts \in Nat /\ MaxAttempts > 0
  BY MembershipAssumption
<1> USE DEF Init
<1>1. code \in [Codes -> Code] /\ CodesKnow
  BY CodeOpened DEF Codes, CodesKnow, CodeKnows, NoCode
<1>2. /\ device \in [Device -> {"absent", "pending", "approved", "revoked"}]
      /\ member \in [User -> {"absent", "active", "revoked"}]
      /\ role \in [User -> {"editor", "owner"}]
      /\ home \in [User -> Owners \cup {None}]
      /\ families \subseteq Family /\ authored \subseteq User /\ grants \subseteq Grant
      /\ rows \in [User -> SUBSET Invitations]
  OBVIOUS
<1>3. enrollment \in [Agents -> Enrollment] /\ EnrolledBy
  BY DEF Enrollment, NoEnrollment, EnrolledBy
<1>4. guest \in Guest /\ GuestKnows
  BY DEF NewGuest, Guest, GuestKnows
<1>5. laptop \in Laptop /\ LaptopKnows
  BY DEF NewLaptop, Laptop, LaptopKnows
<1>6. service \in Service /\ ServiceKnows
  BY DEF Service, ServiceKnows
<1>7. tokens \in 0..MaxTokens /\ decisions \in 0..MaxDecisions /\ faults \in 0..MaxFaults
  BY Bounds
<1> QED BY <1>1, <1>2, <1>3, <1>4, <1>5, <1>6, <1>7 DEF Typed, TypeOK, Codes

LEMMA TypedStays ==
  ASSUME Typed, [Next]_vars
  PROVE  Typed'
<1>1. CASE UNCHANGED vars
  <2>1. /\ UNCHANGED <<code, device, member, role, home, families, authored, grants, enrollment>>
        /\ UNCHANGED <<rows, guest, laptop, service, tokens, decisions, faults>>
    BY <1>1 DEF vars, tables, clients, counters
  <2>2. TypeOK' = TypeOK /\ CodesKnow' = CodesKnow /\ GuestKnows' = GuestKnows
        /\ LaptopKnows' = LaptopKnows /\ ServiceKnows' = ServiceKnows /\ EnrolledBy' = EnrolledBy
    BY <2>1 DEF TypeOK, CodesKnow, GuestKnows, LaptopKnows, ServiceKnows, EnrolledBy
  <2> QED BY <2>2 DEF Typed
<1>2. CASE Next
  <2>1. guest' \in Guest /\ GuestKnows' /\ laptop' \in Laptop /\ LaptopKnows'
        /\ service' \in Service /\ ServiceKnows'
    BY <1>2, GuestStays, LaptopStays, ServiceStays DEF Typed, TypeOK
  <2> QED BY <1>2, <2>1, CodesStay, DevicesStay, MembersStay, FamiliesStay, GrantsStay, RowsStay,
             AuthoredStays, EnrollmentStays, CountersStay DEF Typed, TypeOK, Codes, DeviceState
<1> QED BY <1>1, <1>2

\* The tables and the three machines hold what their columns and fields may hold.
THEOREM TypeCorrect == Spec => []TypeOK
<1>1. Spec => []Typed
  BY InitTyped, TypedStays, PTL DEF Spec
<1>2. Typed => TypeOK
  BY DEF Typed
<1> QED BY <1>1, <1>2, PTL

-----------------------------------------------------------------------------
(* What a step does to one row.                                            *)

\* A code is opened once, for an owner that is a member by then.
Opened(c) ==
    /\ code[c].state = "none" /\ code'[c].state = "open"
    /\ c \in Pairings => code'[c].user \in Owners /\ member'[code'[c].user] = "active"

\* From then on it keeps whom and what it is for, and its token once it is redeemed;
\* an owner's code is redeemed by the owner's machine only.
Moved(c) ==
    /\ code'[c].user = code[c].user /\ code'[c].vault = code[c].vault
    /\ code'[c].state = "none" <=> code[c].state = "none"
    /\ code'[c].state = "open" => code[c].state = "open"
    /\ code'[c].state = "redeemed" =>
         \/ code[c].state = "redeemed" /\ code'[c].token = code[c].token
         \/ code[c].state = "open" /\ (c \in Pairings => DeliverPairing)

LEMMA CodeSteps ==
  ASSUME Typed, Next, NEW c \in Codes
  PROVE  Opened(c) \/ Moved(c)
<1> DEFINE Stepped == Opened(c) \/ Moved(c)
<1> SUFFICES Stepped OBVIOUS
<1> /\ code \in [Codes -> Code] /\ code[c] \in Code
    /\ Pairings \cap Invitations = {} /\ Owners \subseteq User
    /\ member \in [User -> {"absent", "active", "revoked"}]
  BY CodeType, MembershipAssumption DEF Typed, TypeOK, Codes, User
<1>1. CASE code'[c] = code[c]
  BY <1>1 DEF Moved
<1>2. ASSUME NEW p \in Pairings, NEW u \in Owners, NewOwner(u, p) PROVE Stepped
  <2>1. CASE c = p
    <3>1. code'[c].state = "open" /\ code'[c].user = u
      BY <1>2, <2>1 DEF NewOwner, OpenPairing, NoCode
    <3> QED BY <1>2, <2>1, <3>1 DEF NewOwner, Opened
  <2> QED BY <1>1, <1>2, <2>1 DEF NewOwner
<1>3. ASSUME NEW u \in Owners, NEW p \in Pairings, RotatePairing(u, p) PROVE Stepped
  <2>1. CASE c = p
    <3>1. code'[c].state = "open" /\ code'[c].user = u
      BY <1>3, <2>1 DEF RotatePairing, OpenPairing, NoCode
    <3> QED BY <1>3, <2>1, <3>1 DEF RotatePairing, IsOwnerOf, Opened
  <2>2. CASE c # p /\ code[c].state = "open"
    <3>1. code'[c] = [code[c] EXCEPT !.state = "burned"] \/ code'[c] = code[c]
      BY <1>3, <2>2 DEF RotatePairing
    <3> QED BY <1>1, <2>2, <3>1 DEF Moved, Code
  <2>3. CASE c # p /\ code[c].state # "open"
    BY <1>1, <1>3, <2>3 DEF RotatePairing
  <2> QED BY <2>1, <2>2, <2>3
<1>4. CASE DeliverPairing
  <2>1. CASE c # laptop.pairing
    BY <1>1, <1>4, <2>1 DEF DeliverPairing, PairOwnerDevice
  <2>2. CASE c = laptop.pairing /\ code'[c] # code[c]
    <3>1. code[c].state = "open"
          /\ code'[c] = [code[c] EXCEPT !.state = "redeemed", !.token = laptop.token]
      BY <1>4, <2>2 DEF DeliverPairing, PairOwnerDevice
    <3> QED BY <1>4, <3>1 DEF Moved, Code
  <2> QED BY <1>1, <2>1, <2>2
<1>5. ASSUME NEW u \in User, NEW i \in Invitations, NEW r \in {"editor", "owner"},
             CreateInvitation(u, i, r)
      PROVE  Stepped
  <2>1. CASE c = i
    <3>1. code'[c].state = "open"
      BY <1>5, <2>1 DEF CreateInvitation, NoCode
    <3> QED BY <1>5, <2>1, <3>1 DEF CreateInvitation, Opened
  <2> QED BY <1>1, <1>5, <2>1 DEF CreateInvitation
<1>6. ASSUME NEW u \in User, NEW i \in Invitations, Approve(u, i) \/ Mistype(u, i) \/ Reject(u, i)
      PROVE  Stepped
  <2>1. /\ code'[c].state = code[c].state /\ code'[c].token = code[c].token
        /\ code'[c].user = code[c].user /\ code'[c].vault = code[c].vault
    BY <1>6 DEF Approve, Mistype, Reject, Code
  <2> QED BY <2>1 DEF Moved
<1>7. CASE RedeemInvitation
  <2>1. CASE c # guest.on
    BY <1>1, <1>7, <2>1 DEF RedeemInvitation
  <2>2. CASE c = guest.on /\ code'[c] # code[c]
    <3>1. c \in Invitations
      BY <1>7, <2>2 DEF RedeemInvitation, Typed, GuestKnows
    <3>2. \/ /\ code[c].state = "open" /\ code'[c].state \in {"redeemed", "burned"}
             /\ code'[c].user = code[c].user /\ code'[c].vault = code[c].vault
          \/ code'[c] = code[c]
      BY <1>7, <2>2 DEF RedeemInvitation, Code
    <3> QED BY <2>2, <3>1, <3>2 DEF Moved
  <2> QED BY <1>1, <2>1, <2>2
<1>8. ASSUME NEW k \in Codes, Expire(k) PROVE Stepped
  <2>1. code'[c] = code[c] \/ code'[c] = [code[c] EXCEPT !.fresh = FALSE]
    BY <1>8 DEF Expire
  <2> QED BY <1>1, <2>1 DEF Moved, Code
<1>9. ASSUME NEW i \in Invitations, WaitTooLong(i) PROVE Stepped
  <2>1. code'[c] = code[c] \/ code'[c] = [code[c] EXCEPT !.fresh = FALSE]
    BY <1>9 DEF WaitTooLong
  <2> QED BY <1>1, <2>1 DEF Moved, Code
<1>10. ASSUME NEW old \in SUBSET Invitations, CleanupStale(old) PROVE Stepped
  <2>1. \/ code'[c] = code[c]
        \/ code[c].state \in {"open", "redeemed"}
           /\ code'[c] = [code[c] EXCEPT !.state = "gone", !.linked = FALSE]
    BY <1>10 DEF CleanupStale, StaleInvitations
  <2> QED BY <1>1, <2>1 DEF Moved, Code
<1>11. CASE Prune
  <2>1. code'[c] = code[c] \/ code'[c] = [code[c] EXCEPT !.linked = FALSE]
    BY <1>11 DEF Prune
  <2> QED BY <1>1, <2>1 DEF Moved, Code
<1> HIDE DEF Stepped
<1>12. ASSUME NEW u \in Owners, NEW p \in Pairings, CreateVault(u, p) PROVE Stepped
  BY <1>2, <1>12 DEF CreateVault
<1>13. ASSUME NEW p \in Pairings, InitializeOwner(p) PROVE Stepped
  BY <1>2, <1>13, MembershipAssumption DEF InitializeOwner
<1> QED BY TablesApart, <1>1, <1>3, <1>4, <1>5, <1>6, <1>7, <1>8, <1>9, <1>10, <1>11, <1>12, <1>13
        DEF CodeActs, Codes

\* A membership begins with a set-up, an approval or a claim, and is deleted with the
\* user of an invitation.
LEMMA MemberSteps ==
  ASSUME Typed, Next, NEW u \in User
  PROVE  \/ member'[u] = member[u] /\ role'[u] = role[u] /\ home'[u] = home[u]
         \/ /\ u \in Owners /\ member[u] = "absent"
            /\ member'[u] = "active" /\ role'[u] = "owner" /\ home'[u] = u
         \/ /\ u \in Invitations /\ code[u].state = "redeemed" /\ device[u] = "pending"
            /\ \E by \in User : Approve(by, u)
         \/ /\ u \in Invitations /\ member'[u] = "absent" /\ home'[u] = home[u]
            /\ role'[u] = role[u] /\ DeleteUser(u)
            /\ \/ \E by \in User : Mistype(by, u) \/ Reject(by, u)
               \/ code[u].state = "redeemed" /\ device[u] = "pending" /\ Prune
         \/ /\ member[u] = "active" /\ member'[u] = "revoked" /\ home'[u] = home[u]
            /\ role'[u] = role[u] /\ \E by \in User : Revoke(by, u)
         \/ /\ u \in Agents /\ Claim /\ enrollment[u].state = "waiting"
            /\ member'[u] = "active" /\ role'[u] = "editor"
            /\ home'[u] = home[enrollment[u].by]
            /\ IsOwnerOf(enrollment[u].by, home[enrollment[u].by])
<1> DEFINE Same == member'[u] = member[u] /\ role'[u] = role[u] /\ home'[u] = home[u]
<1> /\ member \in [User -> {"absent", "active", "revoked"}]
    /\ role \in [User -> {"editor", "owner"}]
    /\ home \in [User -> Owners \cup {None}]
    /\ Owners \subseteq User /\ Invitations \subseteq User /\ Agents \subseteq User
  BY DEF Typed, TypeOK, User
<1>1. ASSUME NEW o \in Owners, NEW p \in Pairings, NewOwner(o, p)
      PROVE  Same \/ /\ u \in Owners /\ member[u] = "absent"
                     /\ member'[u] = "active" /\ role'[u] = "owner" /\ home'[u] = u
  BY <1>1 DEF NewOwner
<1>2. ASSUME NEW p \in Pairings, InitializeOwner(p)
      PROVE  Same \/ /\ u \in Owners /\ member[u] = "absent"
                     /\ member'[u] = "active" /\ role'[u] = "owner" /\ home'[u] = u
  BY <1>1, <1>2, MembershipAssumption DEF InitializeOwner
<1>3. ASSUME NEW o \in Owners, NEW p \in Pairings, CreateVault(o, p)
      PROVE  Same \/ /\ u \in Owners /\ member[u] = "absent"
                     /\ member'[u] = "active" /\ role'[u] = "owner" /\ home'[u] = u
  BY <1>1, <1>3 DEF CreateVault
<1>4. ASSUME NEW by \in User, NEW i \in Invitations, Approve(by, i)
      PROVE  Same \/ (u = i /\ code[u].state = "redeemed" /\ device[u] = "pending")
  <2>1. CASE u = i
    BY <1>4, <2>1 DEF Approve, Approvable
  <2>2. CASE u # i
    <3>1. /\ member' = [member EXCEPT ![i] = "active"]
          /\ role' = [role EXCEPT ![i] = code[i].role]
          /\ home' = [home EXCEPT ![i] = code[i].vault]
      BY <1>4 DEF Approve
    <3> QED BY <2>2, <3>1
  <2> QED BY <2>1, <2>2
<1>5. ASSUME NEW i \in Invitations, DeleteUser(i)
      PROVE  \/ Same
             \/ u = i /\ member'[u] = "absent" /\ home'[u] = home[u] /\ role'[u] = role[u]
  BY <1>5 DEF DeleteUser
<1>6. ASSUME NEW by \in User, NEW i \in Invitations, Mistype(by, i) \/ Reject(by, i)
      PROVE  DeleteUser(i) \/ Same
  BY <1>6 DEF Mistype, Reject
<1>7. ASSUME Prune
      PROVE  \E i \in Invitations : DeleteUser(i) /\ code[i].state = "redeemed" /\ device[i] = "pending"
  BY <1>7 DEF Prune
<1>8. ASSUME NEW by \in User, NEW t \in User, Revoke(by, t)
      PROVE  Same \/ /\ u = t /\ member[u] = "active" /\ member'[u] = "revoked"
                     /\ home'[u] = home[u] /\ role'[u] = role[u]
  BY <1>8 DEF Revoke
<1>9. ASSUME Claim
      PROVE  Same \/ /\ u \in Agents /\ enrollment[u].state = "waiting"
                     /\ member'[u] = "active" /\ role'[u] = "editor"
                     /\ home'[u] = home[enrollment[u].by]
                     /\ IsOwnerOf(enrollment[u].by, home[enrollment[u].by])
  <2>1. \/ UNCHANGED <<member, role, home>>
        \/ \E a \in Agents :
             /\ enrollment[a].state = "waiting"
             /\ IsOwnerOf(enrollment[a].by, home[enrollment[a].by])
             /\ member' = [member EXCEPT ![a] = "active"]
             /\ role' = [role EXCEPT ![a] = "editor"]
             /\ home' = [home EXCEPT ![a] = home[enrollment[a].by]]
    BY <1>9 DEF Claim, Waiting
  <2>2. ASSUME NEW a \in Agents,
               /\ member' = [member EXCEPT ![a] = "active"]
               /\ role' = [role EXCEPT ![a] = "editor"]
               /\ home' = [home EXCEPT ![a] = home[enrollment[a].by]]
        PROVE  Same \/ /\ u = a /\ member'[u] = "active" /\ role'[u] = "editor"
                       /\ home'[u] = home[enrollment[u].by]
    BY <2>2
  <2> QED BY <2>1, <2>2
<1> QED
  <2>1. CASE UNCHANGED <<member, role, home>>
    BY <2>1
  <2>2. CASE \E p \in Pairings : InitializeOwner(p)
    BY <2>2, <1>2
  <2>3. CASE \E o \in Owners, p \in Pairings : CreateVault(o, p)
    BY <2>3, <1>3
  <2>4. CASE \E by \in User, i \in Invitations : Approve(by, i)
    BY <2>4, <1>4
  <2>5. CASE \E by \in User, i \in Invitations : Mistype(by, i) \/ Reject(by, i)
    BY <2>5, <1>5, <1>6
  <2>6. CASE Prune
    BY <2>6, <1>5, <1>7
  <2>7. CASE \E by \in User, t \in User : Revoke(by, t)
    BY <2>7, <1>8
  <2>8. CASE Claim
    BY <2>8, <1>9
  <2> QED BY TablesApart, <2>1, <2>2, <2>3, <2>4, <2>5, <2>6, <2>7, <2>8 DEF MemberActs

-----------------------------------------------------------------------------
(* Members and their vaults.                                               *)

\* Sessions, rows and users of invitations, owners and agents are kept apart.
LEMMA UsersApart ==
  /\ Owners \subseteq User /\ Invitations \subseteq User /\ Agents \subseteq User
  /\ Invitations \subseteq Codes /\ Pairings \subseteq Codes
  /\ Owners \cap Invitations = {} /\ Owners \cap Agents = {} /\ Invitations \cap Agents = {}
  /\ Pairings \cap Invitations = {} /\ Pairings \cap Agents = {}
BY MembershipAssumption DEF User, Codes

\* What becomes of one device
LEMMA DeviceSteps ==
  ASSUME Typed, Next, NEW i \in Invitations
  PROVE  \/ device'[i] = device[i]
         \/ device'[i] = "approved" /\ device[i] = "pending" /\ \E by \in User : Approve(by, i)
         \/ device'[i] = "absent"
         \/ device'[i] = "revoked" /\ device[i] # "absent"
         \/ device'[i] = "pending" /\ code[i].state = "open" /\ code'[i].state = "redeemed"
<1> device \in [Device -> DeviceState] /\ i \in Device /\ i \in Codes /\ i \notin Agents \cup Pairings
  BY UsersApart DEF Typed, TypeOK, DeviceState, Device
<1> code \in [Codes -> Code]
  BY DEF Typed, TypeOK, Codes
<1>1. CASE DeliverPairing
  <2>1. laptop.pairing \in Pairings
    BY <1>1 DEF DeliverPairing, Typed, LaptopKnows, TypeOK, Laptop
  <2> QED BY <1>1, <2>1 DEF DeliverPairing, PairOwnerDevice
<1>2. ASSUME NEW u \in User, NEW k \in Invitations, Approve(u, k)
      PROVE  \/ device'[i] = device[i]
             \/ device'[i] = "approved" /\ device[i] = "pending" /\ i = k
  <2>1. device' = [device EXCEPT ![k] = "approved"] /\ device[k] = "pending"
    BY <1>2 DEF Approve, Approvable
  <2> QED BY <2>1
<1>3. ASSUME NEW k \in Invitations, DeleteUser(k)
      PROVE  device'[i] = device[i] \/ device'[i] = "absent"
  BY <1>3 DEF DeleteUser
<1>4. ASSUME NEW u \in User, NEW k \in Invitations, Mistype(u, k) \/ Reject(u, k)
      PROVE  device'[i] = device[i] \/ device'[i] = "absent"
  BY <1>3, <1>4 DEF Mistype, Reject
<1>5. ASSUME NEW u \in User, NEW t \in User, Revoke(u, t)
      PROVE  device'[i] = device[i] \/ (device'[i] = "revoked" /\ device[i] # "absent")
  <2>1. device' = [d \in Device |-> IF d \in DevicesOf(t) THEN "revoked" ELSE device[d]]
    BY <1>5 DEF Revoke
  <2>2. i \in DevicesOf(t) => device[i] # "absent"
    BY DEF DevicesOf
  <2> QED BY <2>1, <2>2
<1>6. ASSUME RedeemInvitation
      PROVE  \/ device'[i] = device[i]
             \/ device'[i] = "pending" /\ code[i].state = "open" /\ code'[i].state = "redeemed"
  BY <1>6 DEF RedeemInvitation, Code
<1>7. ASSUME NEW old \in SUBSET Invitations, CleanupStale(old)
      PROVE  device'[i] = device[i] \/ device'[i] = "absent"
  BY <1>7 DEF CleanupStale
<1>8. ASSUME Prune
      PROVE  device'[i] = device[i] \/ device'[i] = "absent"
  BY <1>3, <1>8 DEF Prune
<1>9. ASSUME Claim
      PROVE  device'[i] = device[i]
  <2>1. UNCHANGED device \/ \E a \in Agents : device' = [device EXCEPT ![a] = "approved"]
    BY <1>9 DEF Claim, Waiting
  <2> QED BY <2>1
<1> QED
  <2>1. CASE \E u \in User, k \in Invitations : Approve(u, k)
    BY <2>1, <1>2
  <2>2. CASE \E u \in User, k \in Invitations : Mistype(u, k) \/ Reject(u, k)
    BY <2>2, <1>4
  <2>3. CASE \E u, t \in User : Revoke(u, t)
    BY <2>3, <1>5
  <2>4. CASE \E old \in SUBSET Invitations : CleanupStale(old)
    BY <2>4, <1>7
  <2>5. CASE UNCHANGED device
    BY <2>5
  <2> QED BY TablesApart, <1>1, <1>6, <1>8, <1>9, <2>1, <2>2, <2>3, <2>4, <2>5 DEF DeviceActs

LEMMA AdmittedStays ==
  ASSUME Typed, Admitted, Next
  PROVE  Admitted'
<1> SUFFICES ASSUME NEW i \in Invitations
             PROVE  /\ code'[i].state \in {"none", "open"}
                         => device'[i] = "absent" /\ member'[i] = "absent"
                    /\ device'[i] = "pending" => member'[i] = "absent"
                    /\ member'[i] # "absent" => home'[i] = code'[i].vault
                    /\ i \notin rows'[i]
  BY DEF Admitted
<1> /\ i \in User /\ i \in Codes /\ i \notin Owners /\ i \notin Agents /\ i \notin Pairings
    /\ code[i].state \in {"none", "open"} => device[i] = "absent" /\ member[i] = "absent"
    /\ device[i] = "pending" => member[i] = "absent"
    /\ member[i] # "absent" => home[i] = code[i].vault
    /\ i \notin rows[i]
  BY UsersApart DEF Admitted
<1>1. Opened(i) \/ Moved(i)
  BY CodeSteps
<1>2. code'[i].state \in {"none", "open"} => code[i].state \in {"none", "open"}
  BY <1>1 DEF Opened, Moved
<1>3. code'[i].vault = code[i].vault \/ (code[i].state = "none" /\ code'[i].state = "open")
  <2>1. CASE Opened(i)
    BY <2>1 DEF Opened
  <2>2. CASE Moved(i)
    BY <2>2 DEF Moved
  <2> QED BY <1>1, <2>1, <2>2
<1>4. ASSUME NEW u \in User, Approve(u, i)
      PROVE  /\ device[i] = "pending" /\ code[i].state = "redeemed" /\ code'[i].state = "redeemed"
             /\ device'[i] = "approved" /\ member'[i] = "active" /\ home'[i] = code[i].vault
             /\ code'[i].vault = code[i].vault
  <2>1. code[i] \in Code /\ code \in [Codes -> Code]
    BY CodeType DEF Typed, TypeOK, Codes
  <2>2. device \in [Device -> DeviceState] /\ i \in Device
    BY DEF Typed, TypeOK, DeviceState, Device
  <2>3. member \in [User -> {"absent", "active", "revoked"}] /\ home \in [User -> Owners \cup {None}]
    BY DEF Typed, TypeOK
  <2>4. code'[i].state = code[i].state /\ code'[i].vault = code[i].vault
    BY <1>4, <2>1 DEF Approve, Code
  <2> QED BY <1>4, <2>2, <2>3, <2>4 DEF Approve, Approvable
<1>5. \/ member'[i] = member[i] /\ home'[i] = home[i]
      \/ \E u \in User : Approve(u, i)
      \/ member'[i] = "absent"
      \/ member[i] = "active" /\ member'[i] = "revoked" /\ home'[i] = home[i]
  BY MemberSteps
<1>6. \/ device'[i] = device[i]
      \/ \E u \in User : Approve(u, i)
      \/ device'[i] \in {"absent", "revoked"} /\ (device'[i] = "revoked" => device[i] # "absent")
      \/ device'[i] = "pending" /\ code[i].state = "open" /\ code'[i].state = "redeemed"
  BY DeviceSteps
<1>7. CASE \E u \in User : Approve(u, i)
  <2>1. i \notin rows'[i]
    <3>1. PICK u \in User : Approve(u, i)
      BY <1>7
    <3>2. rows \in [User -> SUBSET Invitations]
      BY DEF Typed, TypeOK
    <3> QED BY <3>1, <3>2 DEF Approve, DropRow
  <2> QED BY <1>4, <1>7, <2>1
<1>8. CASE ~\E u \in User : Approve(u, i)
  <2>1. code'[i].state \in {"none", "open"} => device'[i] = "absent" /\ member'[i] = "absent"
    BY <1>2, <1>5, <1>6, <1>8
  <2>2. device'[i] = "pending" => member'[i] = "absent"
    BY <1>5, <1>6, <1>8
  <2>3. member'[i] # "absent" => home'[i] = code'[i].vault
    BY <1>3, <1>5, <1>8
  <2>4. i \notin rows'[i]
    <3> rows \in [User -> SUBSET Invitations]
      BY DEF Typed, TypeOK
    <3>1. ASSUME NEW u \in User, NEW k \in Invitations, NEW r \in {"editor", "owner"},
                 CreateInvitation(u, k, r)
          PROVE  i \notin rows'[i]
      <4>1. member[u] = "active" /\ code[k].state = "none"
        BY <3>1 DEF CreateInvitation, IsOwnerOf
      <4>2. u # k
        BY <4>1 DEF Admitted
      <4> QED BY <3>1, <4>2 DEF CreateInvitation
    <3>2. ASSUME NEW u \in User, RefreshRows(u) PROVE i \notin rows'[i]
      <4>1. member[u] = "active"
        BY <3>2 DEF RefreshRows, IsOwnerOf
      <4>2. u = i => i \notin PendingApprovals(home[i])
        BY <4>1 DEF PendingApprovals
      <4> QED BY <3>2, <4>2 DEF RefreshRows
    <3>3. ASSUME NEW u \in User, NEW k \in Invitations,
                 Approve(u, k) \/ Mistype(u, k) \/ Reject(u, k)
          PROVE  i \notin rows'[i]
      BY <3>3 DEF Approve, Mistype, Reject, DropRow
    <3>4. ASSUME NEW c \in Codes, Expire(c) \/ (c \in Invitations /\ WaitTooLong(c))
          PROVE  i \notin rows'[i]
      BY <3>4 DEF Expire, WaitTooLong
    <3>5. CASE UNCHANGED rows
      BY <3>5
    <3>6. CASE \E u \in User, k \in Invitations, r \in {"editor", "owner"} : CreateInvitation(u, k, r)
      BY <3>1, <3>6
    <3>7. CASE \E u \in User : RefreshRows(u)
      BY <3>2, <3>7
    <3>8. CASE \E u \in User, k \in Invitations : Approve(u, k) \/ Mistype(u, k) \/ Reject(u, k)
      BY <3>3, <3>8
    <3>9. CASE (\E c \in Codes : Expire(c)) \/ \E k \in Invitations : WaitTooLong(k)
      BY <3>4, <3>9, UsersApart
    <3> QED BY TablesApart, <3>5, <3>6, <3>7, <3>8, <3>9 DEF RowActs, Codes
  <2> QED BY <2>1, <2>2, <2>3, <2>4
<1> QED BY <1>7, <1>8

LEMMA AgentsEditStays ==
  ASSUME Typed, AgentsEdit, Next
  PROVE  AgentsEdit'
<1> SUFFICES ASSUME NEW a \in Agents PROVE role'[a] = "editor"
  BY DEF AgentsEdit
<1> a \in User /\ a \notin Owners /\ a \notin Invitations /\ role[a] = "editor"
  BY UsersApart DEF AgentsEdit
<1> QED BY MemberSteps

LEMMA OwnersCodesStay ==
  ASSUME Typed, OwnersCodes, Next
  PROVE  OwnersCodes'
<1> SUFFICES ASSUME NEW p \in Pairings, code'[p].state # "none"
             PROVE  code'[p].user \in Owners /\ member'[code'[p].user] # "absent"
  BY DEF OwnersCodes
<1>1. p \in Codes
  BY UsersApart
<1>2. CASE Opened(p)
  BY <1>2 DEF Opened
<1>3. CASE Moved(p)
  <2>1. code[p].user \in Owners /\ member[code[p].user] # "absent" /\ code'[p].user = code[p].user
    BY <1>3 DEF Moved, OwnersCodes
  <2>2. code[p].user \in User /\ code[p].user \notin Invitations /\ code[p].user \notin Agents
    BY <2>1, UsersApart
  <2> QED BY <2>1, <2>2, MemberSteps
<1> QED BY <1>1, <1>2, <1>3, CodeSteps

\* A vault's last owner cannot go: who removes a member is an owner and stays.
LEMMA VaultKeepsOwnerStays ==
  ASSUME Typed, Admitted, AgentsEdit, VaultKeepsOwner, Next
  PROVE  VaultKeepsOwner'
<1> SUFFICES ASSUME NEW v \in Owners, NEW w \in User, home'[w] = v, member'[w] # "absent"
             PROVE  \E u \in User : member'[u] = "active" /\ role'[u] = "owner" /\ home'[u] = v
  BY DEF VaultKeepsOwner, IsOwnerOf
<1> DEFINE Kept == \E u \in User : member'[u] = "active" /\ role'[u] = "owner" /\ home'[u] = v
           Stays(u) == member'[u] = member[u] /\ role'[u] = role[u] /\ home'[u] = home[u]
<1>1. ASSUME NEW u \in User, IsOwnerOf(u, v), ~Stays(u) PROVE Kept
  <2>1. u \notin Owners \/ member[u] = "active"
    BY <1>1 DEF IsOwnerOf
  <2>2. u \in Agents => role[u] # "owner"
    BY DEF AgentsEdit
  <2>3. CASE u \in Invitations /\ DeleteUser(u) /\ member'[u] = "absent"
              /\ \E by \in User : Mistype(by, u) \/ Reject(by, u)
    <3>1. PICK by \in User : Mistype(by, u) \/ Reject(by, u)
      BY <2>3
    <3>2. u \in rows[by] /\ IsOwnerOf(by, code[u].vault)
      BY <3>1 DEF Mistype, Reject
    <3>3. by # u
      BY <2>3, <3>2 DEF Admitted
    <3>4. home[u] = code[u].vault
      BY <1>1, <2>3 DEF IsOwnerOf, Admitted
    <3>5. member' = [member EXCEPT ![u] = "absent"] /\ UNCHANGED <<role, home>>
      BY <2>3 DEF DeleteUser
    <3>6. member'[by] = member[by]
      BY <3>3, <3>5 DEF Typed, TypeOK
    <3> QED BY <1>1, <3>2, <3>4, <3>5, <3>6 DEF IsOwnerOf
  <2>4. CASE \E by \in User : Revoke(by, u)
    <3>1. PICK by \in User : Revoke(by, u)
      BY <2>4
    <3>2. IsOwnerOf(by, home[u]) /\ by # u
      BY <3>1 DEF Revoke, MayRevoke
    <3>3. member' = [member EXCEPT ![u] = "revoked"] /\ UNCHANGED <<role, home>>
      BY <3>1 DEF Revoke
    <3>4. member'[by] = member[by]
      BY <3>2, <3>3 DEF Typed, TypeOK
    <3> QED BY <1>1, <3>2, <3>3, <3>4 DEF IsOwnerOf
  <2>5. u \in Invitations => device[u] # "pending"
    BY <1>1 DEF Admitted, IsOwnerOf
  <2> QED BY <1>1, <2>2, <2>3, <2>4, <2>5, MemberSteps DEF IsOwnerOf
<1>2. ASSUME NEW u \in User, IsOwnerOf(u, v), Stays(u) PROVE Kept
  BY <1>2 DEF IsOwnerOf
<1>3. CASE home[w] = v /\ member[w] # "absent"
  <2>1. PICK u \in User : IsOwnerOf(u, v)
    BY <1>3 DEF VaultKeepsOwner
  <2> QED BY <1>1, <1>2, <2>1
<1>4. CASE w \in Owners /\ member'[w] = "active" /\ role'[w] = "owner" /\ home'[w] = w
  BY <1>4
<1>5. CASE w \in Invitations /\ \E by \in User : Approve(by, w)
  <2>1. PICK by \in User : Approve(by, w)
    BY <1>5
  <2>2. IsOwnerOf(by, code[w].vault) /\ device[w] = "pending" /\ home'[w] = code[w].vault
    BY <2>1 DEF Approve, Approvable, Typed, TypeOK
  <2>3. IsOwnerOf(by, v)
    BY <2>2
  <2> QED BY <1>1, <1>2, <2>3
<1>6. CASE /\ enrollment[w].state = "waiting" /\ w \in Agents
           /\ IsOwnerOf(enrollment[w].by, home[enrollment[w].by])
           /\ home'[w] = home[enrollment[w].by]
  <2>1. enrollment[w].by \in User
    BY <1>6 DEF Typed, EnrolledBy
  <2> QED BY <1>1, <1>2, <1>6, <2>1
<1> QED BY <1>3, <1>4, <1>5, <1>6, MemberSteps

\* A session is gone, ended or begun anew; a new one is the device's that was approved.
LEMMA SessionsBelongStays ==
  ASSUME Typed, Admitted, SessionsBelong, Next
  PROVE  SessionsBelong'
<1> DEFINE Held(d) == device'[d] = "approved" /\ member'[d] = "active"
           Guest2 == Invitations \cup Agents
<1> SUFFICES ASSUME NEW f \in families', NEW d \in Guest2, f.status = "active", f.device = d
             PROVE  Held(d)
  BY DEF SessionsBelong
<1> /\ device \in [Device -> DeviceState] /\ families \subseteq Family
    /\ member \in [User -> {"absent", "active", "revoked"}]
    /\ d \in User /\ d \in Device /\ UserOf(d) = d /\ d \notin Owners /\ d \notin Pairings
  BY UserOfType, UsersApart DEF Typed, TypeOK, DeviceState, User, Device
<1>1. f \in families => device[d] = "approved" /\ member[d] = "active"
  BY DEF SessionsBelong
<1>2. CASE UNCHANGED <<families, device, member>>
  BY <1>1, <1>2
<1>3. ASSUME NEW u \in Owners, NEW p \in Pairings, NewOwner(u, p) PROVE Held(d)
  <2>1. f \in families /\ device' = device /\ member' = [member EXCEPT ![u] = "active"]
    BY <1>3 DEF NewOwner
  <2> QED BY <1>1, <2>1
<1>4. CASE DeliverPairing
  <2>1. laptop.pairing \in Pairings /\ member' = member
    BY <1>4 DEF DeliverPairing, PairOwnerDevice, Typed, LaptopKnows, TypeOK, Laptop
  <2>2. device'[d] = device[d]
    BY <1>4, <2>1 DEF DeliverPairing, PairOwnerDevice
  <2>3. f \in families \/ f = NewFamily(laptop.pairing, laptop.token)
    BY <1>4 DEF DeliverPairing, PairOwnerDevice
  <2>4. f # NewFamily(laptop.pairing, laptop.token)
    BY <2>1 DEF NewFamily
  <2> QED BY <1>1, <2>1, <2>2, <2>3, <2>4
<1>5. ASSUME NEW u \in User, NEW i \in Invitations, Approve(u, i) PROVE Held(d)
  <2>1. /\ device' = [device EXCEPT ![i] = "approved"]
        /\ member' = [member EXCEPT ![i] = "active"]
        /\ families' = families \cup {NewFamily(i, code[i].token)}
    BY <1>5 DEF Approve
  <2>2. d # i => f \in families
    BY <2>1 DEF NewFamily
  <2> QED BY <1>1, <2>1, <2>2, UsersApart
<1>6. ASSUME NEW i \in Invitations, DeleteUser(i) PROVE Held(d)
  <2>1. f \in families /\ d # i
    BY <1>6 DEF DeleteUser
  <2>2. device' = [device EXCEPT ![i] = "absent"] /\ member' = [member EXCEPT ![i] = "absent"]
    BY <1>6 DEF DeleteUser
  <2> QED BY <1>1, <2>1, <2>2
<1>7. ASSUME NEW u \in User, NEW i \in Invitations, Mistype(u, i) \/ Reject(u, i)
      PROVE  DeleteUser(i) \/ UNCHANGED <<families, device, member>>
  BY <1>7 DEF Mistype, Reject
<1>8. ASSUME NEW u \in User, NEW t \in User, Revoke(u, t) PROVE Held(d)
  <2>1. /\ member' = [member EXCEPT ![t] = "revoked"]
        /\ device' = [e \in Device |-> IF e \in DevicesOf(t) THEN "revoked" ELSE device[e]]
        /\ families' = EndFamilies(DevicesOf(t))
    BY <1>8 DEF Revoke, Burned
  <2>2. PICK g \in families : f = IF g.device \in DevicesOf(t) THEN [g EXCEPT !.status = "ended"] ELSE g
    BY <2>1 DEF EndFamilies
  <2>3. g \in Family
    OBVIOUS
  <2>4. f = g /\ g.device \notin DevicesOf(t)
    BY <2>2, <2>3 DEF Family
  <2>5. d \notin DevicesOf(t) /\ device[d] = "approved" /\ member[d] = "active"
    BY <1>1, <2>4
  <2>6. d # t
    BY <2>5 DEF DevicesOf
  <2> QED BY <2>1, <2>5, <2>6
<1>9. CASE RedeemInvitation
  <2>1. f \in families /\ member' = member
    BY <1>9 DEF RedeemInvitation
  <2>2. guest.on \in Invitations
    BY <1>9 DEF RedeemInvitation, Typed, GuestKnows
  <2>3. \/ device' = device
        \/ code[guest.on].state = "open" /\ device' = [device EXCEPT ![guest.on] = "pending"]
    BY <1>9 DEF RedeemInvitation
  <2>4. code[guest.on].state = "open" => d # guest.on
    BY <1>1, <2>1, <2>2 DEF Admitted
  <2> QED BY <1>1, <2>1, <2>3, <2>4
<1>10. CASE RedeemGrant
  <2>1. /\ families' = families \cup {NewFamily(guest.at, guest.candidate)}
        /\ device' = device /\ member' = member
        /\ device[guest.at] = "approved" /\ member[guest.at] = "active"
    BY <1>10 DEF RedeemGrant, MayRejoin
  <2>2. d # guest.at => f \in families
    BY <2>1 DEF NewFamily
  <2> QED BY <1>1, <2>1, <2>2
<1>11. ASSUME NEW old \in SUBSET Invitations, CleanupStale(old) PROVE Held(d)
  <2>1. /\ f \in families /\ member' = member
        /\ device' = [e \in Device |-> IF e \in StaleDevices(old) THEN "absent" ELSE device[e]]
    BY <1>11 DEF CleanupStale
  <2>2. d \notin StaleDevices(old)
    BY <1>1, <2>1 DEF StaleDevices
  <2> QED BY <1>1, <2>1, <2>2
<1>12. CASE Claim
  <2>1. \/ UNCHANGED <<families, device, member>>
        \/ \E a \in Agents :
             /\ device' = [device EXCEPT ![a] = "approved"]
             /\ member' = [member EXCEPT ![a] = "active"]
             /\ families' = families \cup {NewFamily(a, service.token)}
    BY <1>12 DEF Claim, Waiting
  <2>2. ASSUME NEW a \in Agents,
               /\ device' = [device EXCEPT ![a] = "approved"]
               /\ member' = [member EXCEPT ![a] = "active"]
               /\ families' = families \cup {NewFamily(a, service.token)}
        PROVE  Held(d)
    <3>1. d # a => f \in families
      BY <2>2 DEF NewFamily
    <3> QED BY <1>1, <2>2, <3>1, UsersApart
  <2> QED BY <1>2, <2>1, <2>2
<1>13. CASE FamilyEnds
  <2>1. device' = device /\ member' = member
    BY <1>13 DEF FamilyEnds
  <2>2. PICK g \in families : families' = (families \ {g}) \cup {[g EXCEPT !.status = "ended"]}
    BY <1>13 DEF FamilyEnds
  <2>3. g \in Family
    OBVIOUS
  <2>4. f # [g EXCEPT !.status = "ended"]
    BY <2>3 DEF Family
  <2> QED BY <1>1, <2>1, <2>2, <2>4
<1> HIDE DEF Held
<1> QED
  <2>1. CASE \E p \in Pairings : InitializeOwner(p)
    BY <2>1, <1>3, MembershipAssumption DEF InitializeOwner
  <2>2. CASE \E u \in Owners, p \in Pairings : CreateVault(u, p)
    BY <2>2, <1>3 DEF CreateVault
  <2>3. CASE \E u \in User, i \in Invitations : Approve(u, i)
    BY <2>3, <1>5
  <2>4. CASE \E u \in User, i \in Invitations : Mistype(u, i) \/ Reject(u, i)
    BY <2>4, <1>2, <1>6, <1>7
  <2>5. CASE \E u, t \in User : Revoke(u, t)
    BY <2>5, <1>8
  <2>6. CASE \E old \in SUBSET Invitations : CleanupStale(old)
    BY <2>6, <1>11
  <2>7. CASE Prune
    BY <2>7, <1>6 DEF Prune
  <2> QED BY TablesApart, <1>2, <1>4, <1>9, <1>10, <1>12, <1>13, <2>1, <2>2, <2>3, <2>4, <2>5,
             <2>6, <2>7 DEF DeviceActs, MemberActs, FamilyActs

-----------------------------------------------------------------------------
(* Agents.                                                                 *)

LEMMA ClaimsStay ==
  ASSUME Typed, ClaimsCount, NoAgentStranded, Next
  PROVE  ClaimsCount' /\ NoAgentStranded'
<1> DEFINE Kept == ClaimsCount' /\ NoAgentStranded'
<1> SUFFICES Kept OBVIOUS
<1> /\ enrollment \in [Agents -> Enrollment] /\ service \in Service
    /\ service.claim \in Nat /\ service.claim # 0
    /\ \A a \in Agents : enrollment[a] \in Enrollment /\ enrollment[a].claim \in Nat
  BY DEF Typed, TypeOK, Service, ServiceKnows, Enrollment
<1>1. CASE UNCHANGED <<enrollment, service>>
  BY <1>1 DEF ClaimsCount, NoAgentStranded
<1>2. ASSUME NEW u \in User, NEW a \in Agents, Enroll(u, a) PROVE Kept
  <2>1. /\ service' = service /\ enrollment[a].claim = 0
        /\ enrollment'[a].state = "waiting" /\ enrollment'[a].claim = 0
        /\ \A b \in Agents : b # a => enrollment'[b] = enrollment[b]
    BY <1>2 DEF Enroll, clients, NoEnrollment, ClaimsCount
  <2>2. ClaimsCount'
    BY <2>1 DEF ClaimsCount
  <2>3. NoAgentStranded'
    BY <2>1 DEF NoAgentStranded
  <2> QED BY <2>2, <2>3
<1>3. CASE BeginClaim
  <2>1. /\ enrollment' = enrollment /\ service'.claim = service.claim
        /\ service'.joined = service.joined /\ service'.pc = "claim"
        /\ service.token # 0 => service'.token = service.token
    BY <1>3 DEF BeginClaim, tables, Service
  <2> QED BY <2>1 DEF ClaimsCount, NoAgentStranded
<1>4. CASE KeepClaim
  <2>1. /\ enrollment' = enrollment /\ service.pc = "claimed" /\ service'.pc = "forget"
        /\ service'.claim = service.claim /\ service'.token = service.token
        /\ service.joined \subseteq service'.joined
        /\ service.answer # None => <<service.answer, service.token>> \in service'.joined
    BY <1>4 DEF KeepClaim, tables, Service
  <2>2. ASSUME NEW a \in Agents, enrollment[a].claim = service.claim
        PROVE  <<a, enrollment[a].token>> \in service'.joined
    <3>1. service.answer = a /\ enrollment[a].state = "claimed" /\ a # None
      BY <2>1, <2>2, MembershipAssumption DEF ClaimsCount
    <3> QED BY <2>1, <3>1 DEF NoAgentStranded
  <2> QED BY <2>1, <2>2 DEF ClaimsCount, NoAgentStranded
<1>5. CASE ForgetClaim
  <2>1. /\ enrollment' = enrollment /\ service.pc = "forget" /\ service'.pc = "idle"
        /\ service'.claim = service.claim + 1 /\ service'.joined = service.joined
    BY <1>5 DEF ForgetClaim, tables, Service
  <2>2. ASSUME NEW a \in Agents PROVE enrollment[a].claim <= service.claim + 1
    <3>1. enrollment[a].claim <= service.claim /\ enrollment[a].claim \in Nat
      BY DEF ClaimsCount
    <3> QED BY <3>1
  <2>3. ClaimsCount'
    BY <2>1, <2>2 DEF ClaimsCount
  <2>4. NoAgentStranded'
    BY <2>1 DEF ClaimsCount, NoAgentStranded
  <2> QED BY <2>3, <2>4
<1>6. CASE ServiceFault
  <2>1. /\ enrollment' = enrollment /\ service'.pc = "idle" /\ service'.claim = service.claim
        /\ service'.token = service.token /\ service'.joined = service.joined
    BY <1>6 DEF ServiceFault, tables, Service
  <2> QED BY <2>1 DEF ClaimsCount, NoAgentStranded
<1>7. CASE Claim
  <2> DEFINE old == ClaimedWith(service.claim)
             Same(b) == \/ enrollment'[b] = enrollment[b]
                        \/ /\ enrollment[b].state = "waiting"
                           /\ enrollment'[b] = [enrollment[b] EXCEPT !.state = "dropped"]
             New(a) == /\ enrollment[a].state = "waiting"
                       /\ enrollment'[a] = [enrollment[a] EXCEPT !.state = "claimed",
                                              !.claim = service.claim, !.token = service.token]
             Answer(a) == service' = [service EXCEPT !.pc = "claimed", !.answer = a]
  <2>1. /\ service.pc = "claim" /\ service.token # 0
        /\ \/ \E a \in old : Answer(a) /\ enrollment' = enrollment
           \/ old = {} /\ Answer(None) /\ \A b \in Agents : Same(b)
           \/ old = {} /\ \E a \in Agents : Answer(a) /\ New(a) /\ \A b \in Agents \ {a} : Same(b)
    <3> DEFINE good == {a \in Waiting : IsOwnerOf(enrollment[a].by, home[enrollment[a].by])}
               next == {a \in good : \A b \in good : enrollment[a].at <= enrollment[b].at}
               dropped == {b \in Waiting \ good :
                             \A a \in next : enrollment[b].at < enrollment[a].at}
    <3>1. service.pc = "claim" /\ service.token # 0
      BY <1>7 DEF Claim, Typed, ServiceKnows
    <3>2. \/ \E a \in old : Answer(a) /\ enrollment' = enrollment
          \/ /\ old = {} /\ Answer(None)
             /\ enrollment' = [b \in Agents |-> IF b \in dropped
                  THEN [enrollment[b] EXCEPT !.state = "dropped"] ELSE enrollment[b]]
          \/ /\ old = {}
             /\ \E a \in next : /\ Answer(a)
                               /\ enrollment' = [b \in Agents |->
                    IF b \in dropped THEN [enrollment[b] EXCEPT !.state = "dropped"]
                    ELSE IF b = a THEN [enrollment[b] EXCEPT !.state = "claimed",
                                          !.claim = service.claim, !.token = service.token]
                    ELSE enrollment[b]]
      BY <1>7 DEF Claim
    <3>3. dropped \subseteq Waiting /\ next \subseteq Waiting /\ dropped \cap next = {}
      OBVIOUS
    <3>4. \A b \in Waiting : b \in Agents /\ enrollment[b].state = "waiting"
      BY DEF Waiting
    <3> HIDE DEF good, next, dropped, old, Answer
    <3> QED BY ZenonT(60), <3>1, <3>2, <3>3, <3>4
  <2>2. ASSUME NEW a, Answer(a)
        PROVE  /\ service'.pc = "claimed" /\ service'.answer = a /\ service'.claim = service.claim
               /\ service'.token = service.token /\ service'.joined = service.joined
    BY <2>2 DEF Service
  <2>3. ASSUME NEW b \in Agents, Same(b)
        PROVE  /\ enrollment'[b].claim = enrollment[b].claim
               /\ enrollment'[b].token = enrollment[b].token
               /\ enrollment'[b].state = "claimed" <=> enrollment[b].state = "claimed"
    BY <2>3 DEF Enrollment
  <2>4. ASSUME NEW a \in Agents, New(a)
        PROVE  /\ enrollment'[a].claim = service.claim /\ enrollment'[a].token = service.token
               /\ enrollment'[a].state = "claimed" /\ enrollment[a].claim = 0
    BY <2>4 DEF Enrollment, ClaimsCount
  <2> HIDE DEF Same, New, Answer
  <2>5. CASE \E a \in old : Answer(a) /\ enrollment' = enrollment
    <3>1. PICK a \in old : Answer(a)
      BY <2>5
    <3>2. a \in Agents /\ enrollment[a].claim = service.claim
      BY DEF ClaimedWith
    <3>3. ClaimsCount'
      BY <2>2, <2>5, <3>1, <3>2 DEF ClaimsCount
    <3>4. NoAgentStranded'
      BY <2>2, <2>5, <3>1 DEF NoAgentStranded
    <3> QED BY <3>3, <3>4
  <2>6. CASE old = {} /\ Answer(None) /\ \A b \in Agents : Same(b)
    <3>1. \A b \in Agents : enrollment[b].claim # service.claim
      BY <2>6 DEF ClaimedWith
    <3>2. ClaimsCount'
      BY <2>2, <2>3, <2>6, <3>1 DEF ClaimsCount
    <3>3. NoAgentStranded'
      BY <2>2, <2>3, <2>6 DEF NoAgentStranded
    <3> QED BY <3>2, <3>3
  <2>7. CASE old = {} /\ \E a \in Agents : Answer(a) /\ New(a) /\ \A b \in Agents \ {a} : Same(b)
    <3>1. PICK a \in Agents : Answer(a) /\ New(a) /\ \A b \in Agents \ {a} : Same(b)
      BY <2>7
    <3>2. \A b \in Agents : enrollment[b].claim # service.claim
      BY <2>7 DEF ClaimedWith
    <3>3. \A b \in Agents \ {a} : /\ enrollment'[b].claim = enrollment[b].claim
                                  /\ enrollment'[b].token = enrollment[b].token
                                  /\ enrollment'[b].state = "claimed" <=> enrollment[b].state = "claimed"
      BY <2>3, <3>1
    <3>4. ClaimsCount'
      BY <2>1, <2>2, <2>4, <3>1, <3>2, <3>3 DEF ClaimsCount
    <3>5. NoAgentStranded'
      BY <2>2, <2>4, <3>1, <3>3 DEF NoAgentStranded
    <3> QED BY <3>4, <3>5
  <2> QED BY <2>1, <2>5, <2>6, <2>7
<1>8. CASE \E u \in User, a \in Agents : Enroll(u, a)
  BY <1>2, <1>8
<1> HIDE DEF Kept
<1> QED BY TablesApart, MachinesApart, <1>1, <1>2, <1>3, <1>4, <1>5, <1>6, <1>7, <1>8
        DEF EnrollmentActs, ServiceActs

-----------------------------------------------------------------------------
(* Pairings.                                                               *)

\* No step but the delivery of the pairing request, with this token, starts the
\* session of a pairing code.
LEMMA SpentBefore ==
  ASSUME Typed, OwnersCodes, Next, ~DeliverPairing, UNCHANGED laptop,
         NEW p \in Pairings, SpentByLaptop(p)'
  PROVE  SpentByLaptop(p)
<1> DEFINE f == [device |-> p, token |-> laptop.token, status |-> "active"]
<1>1. /\ laptop.pairing = p /\ code'[p].state = "redeemed" /\ code'[p].token = laptop.token
      /\ f \in families' /\ member'[code'[p].user] = "active"
  BY DEF SpentByLaptop
<1>2. p \in Codes /\ p \notin Invitations /\ p \notin Agents
  BY UsersApart
<1>3. code[p].state = "redeemed" /\ code[p].token = laptop.token /\ code'[p].user = code[p].user
  BY <1>1, <1>2, CodeSteps DEF Opened, Moved
<1>4. member[code[p].user] = "active"
  <2>1. code[p].user \in Owners /\ member[code[p].user] # "absent"
    BY <1>3 DEF OwnersCodes
  <2>2. code[p].user \in User /\ code[p].user \notin Invitations /\ code[p].user \notin Agents
    BY <2>1, UsersApart
  <2> QED BY <1>1, <1>3, <2>1, <2>2, MemberSteps
<1>5. f \in families
  <2>1. CASE families' \subseteq families
    BY <1>1, <2>1
  <2>2. ASSUME NEW d \in Device, NEW t, d \notin Pairings, families' = families \cup {NewFamily(d, t)}
        PROVE  f \in families
    BY <1>1, <2>2 DEF NewFamily
  <2>3. ASSUME NEW g \in families, f = [g EXCEPT !.status = "ended"] PROVE FALSE
    BY <2>3 DEF Typed, TypeOK, Family
  <2>4. ASSUME NEW u \in User, NEW i \in Invitations, Approve(u, i) PROVE f \in families
    BY <1>2, <2>2, <2>4, UsersApart DEF Approve, Device
  <2>5. ASSUME NEW u \in User, NEW i \in Invitations, Mistype(u, i) \/ Reject(u, i)
        PROVE  families' \subseteq families
    BY <2>5 DEF Mistype, Reject, DeleteUser
  <2>6. ASSUME NEW u \in User, NEW t \in User, Revoke(u, t) PROVE f \in families
    BY <1>1, <2>3, <2>6 DEF Revoke, Burned, EndFamilies
  <2>7. CASE RedeemGrant
    <3>1. guest.at \in Invitations
      BY <2>7 DEF RedeemGrant, Typed, GuestKnows
    <3> QED BY <2>2, <2>7, <3>1, UsersApart DEF RedeemGrant, Device
  <2>8. CASE Prune
    BY <2>1, <2>8 DEF Prune, DeleteUser
  <2>9. CASE Claim
    <3>1. UNCHANGED families \/ \E a \in Agents : families' = families \cup {NewFamily(a, service.token)}
      BY <2>9 DEF Claim, Waiting
    <3> QED BY <2>1, <2>2, <3>1, UsersApart DEF Device
  <2>10. CASE FamilyEnds
    BY <1>1, <2>3, <2>10 DEF FamilyEnds
  <2>11. CASE \E u \in User, i \in Invitations : Approve(u, i)
    BY <2>4, <2>11
  <2>12. CASE \E u \in User, i \in Invitations : Mistype(u, i) \/ Reject(u, i)
    BY <2>1, <2>5, <2>12
  <2>13. CASE \E u, t \in User : Revoke(u, t)
    BY <2>6, <2>13
  <2> QED BY TablesApart, <2>1, <2>7, <2>8, <2>9, <2>10, <2>11, <2>12, <2>13 DEF FamilyActs
<1> QED BY <1>1, <1>3, <1>4, <1>5 DEF SpentByLaptop

\* The delivery fails only if the code is spent by another, over or not a member's.
LEMMA Delivered ==
  ASSUME Typed, DeliverPairing
  PROVE  /\ laptop'.pairing = laptop.pairing /\ laptop'.token = laptop.token
         /\ laptop'.pc = "failed" => \A p \in Pairings : ~SpentByLaptop(p)'
         /\ \A p \in Pairings : SpentByLaptop(p) => laptop'.pc = "paired"
<1> DEFINE q == laptop.pairing
           t == laptop.token
           opened == code[q].state = "open" /\ code[q].fresh /\ ~TokenUsed(t)
<1>1. q \in Pairings /\ q \in Codes /\ laptop \in Laptop /\ code \in [Codes -> Code] /\ code[q] \in Code
  BY UsersApart, CodeType DEF DeliverPairing, Typed, LaptopKnows, TypeOK, Laptop, Codes
<1>2. member' = member
  BY DEF DeliverPairing, PairOwnerDevice
<1>3. laptop' = [laptop EXCEPT !.pc =
        IF (opened \/ PairedBy(q, t)) /\ member[code[q].user] = "active" THEN "paired" ELSE "failed"]
  BY DEF DeliverPairing, PairOwnerDevice
<1>4. laptop'.pairing = q /\ laptop'.token = t
  BY <1>1, <1>3 DEF Laptop
<1>5. laptop'.pc = IF (opened \/ PairedBy(q, t)) /\ member[code[q].user] = "active"
                   THEN "paired" ELSE "failed"
  BY <1>1, <1>3 DEF Laptop
<1>6. opened \/ UNCHANGED <<code, families>>
  BY DEF DeliverPairing, PairOwnerDevice
<1>7. code'[q].user = code[q].user
  BY <1>1 DEF DeliverPairing, PairOwnerDevice, Code
<1> HIDE DEF opened
<1>8. ASSUME NEW p \in Pairings, laptop'.pc = "failed", SpentByLaptop(p)' PROVE FALSE
  <2>1. p = q /\ member[code[q].user] = "active"
    BY <1>2, <1>4, <1>7, <1>8 DEF SpentByLaptop
  <2>2. UNCHANGED <<code, families>>
    BY <1>5, <1>6, <1>8, <2>1
  <2>3. PairedBy(q, t)
    BY <1>4, <1>8, <2>1, <2>2 DEF SpentByLaptop, PairedBy
  <2> QED BY <1>5, <1>8, <2>1, <2>3
<1>9. ASSUME NEW p \in Pairings, SpentByLaptop(p) PROVE laptop'.pc = "paired"
  BY <1>5, <1>9 DEF SpentByLaptop, PairedBy
<1> QED BY <1>4, <1>8, <1>9

LEMMA RefusedStays ==
  ASSUME Typed, OwnersCodes, RefusedHasNone, Next
  PROVE  RefusedHasNone'
<1> SUFFICES ASSUME laptop'.pc = "failed", NEW p \in Pairings, SpentByLaptop(p)'
             PROVE  FALSE
  BY DEF RefusedHasNone
<1>1. CASE DeliverPairing
  BY <1>1, Delivered
<1>2. CASE UNCHANGED laptop /\ ~DeliverPairing
  <2>1. SpentByLaptop(p) /\ laptop.pc = "failed"
    BY <1>2, SpentBefore
  <2> QED BY <2>1 DEF RefusedHasNone
<1>3. ASSUME LaptopActs, ~DeliverPairing PROVE laptop'.pc # "failed"
  <2>1. laptop \in Laptop
    BY DEF Typed, TypeOK
  <2>2. ASSUME NEW q \in Pairings, PastePairing(q) PROVE laptop'.pc = "pair"
    BY <2>1, <2>2 DEF PastePairing, Laptop
  <2>3. KeepPairedToken => laptop'.pc = "keep"
    BY <2>1 DEF KeepPairedToken, Laptop
  <2>4. WriteOwnerConnection => laptop'.pc = "clear"
    BY <2>1 DEF WriteOwnerConnection, Laptop
  <2>5. ClearPairing => laptop'.pc = "idle"
    BY <2>1 DEF ClearPairing, Laptop
  <2>6. PairingFails \/ LaptopFault => laptop'.pc = "idle"
    BY <2>1 DEF PairingFails, LaptopFault, Laptop
  <2>7. ResetLaptop => laptop'.pc = "idle"
    BY DEF ResetLaptop, NewLaptop
  <2> QED BY <1>3, <2>2, <2>3, <2>4, <2>5, <2>6, <2>7 DEF LaptopActs
<1> QED BY MachinesApart, <1>1, <1>2, <1>3

Recoverable(p) ==
    /\ laptop'.pc # "failed"
    /\ laptop'.pairing = p => laptop'.token = laptop.token
    /\ laptop'.pairing = None => laptop'.connection = p \/ laptop' = NewLaptop

LEMMA PairingStep ==
  ASSUME Typed, RefusedHasNone, Next, NEW p \in Pairings, SpentByLaptop(p)
  PROVE  Recoverable(p)
<1> /\ laptop.pairing = p /\ laptop.pc # "failed" /\ laptop \in Laptop /\ p # None
    /\ laptop.pc = "clear" => laptop.connection = p
  BY MembershipAssumption DEF SpentByLaptop, RefusedHasNone, Typed, TypeOK, LaptopKnows
<1> USE DEF Recoverable
<1>1. CASE UNCHANGED laptop
  BY <1>1
<1>2. ASSUME NEW q \in Pairings, PastePairing(q) PROVE Recoverable(p)
  <2>1. CASE q = p
    BY <1>2, <2>1 DEF PastePairing, Laptop
  <2>2. CASE q # p
    BY <1>2, <2>2, MembershipAssumption DEF PastePairing, Laptop
  <2> QED BY <2>1, <2>2
<1>3. CASE DeliverPairing
  BY <1>3, Delivered
<1>4. CASE KeepPairedToken
  BY <1>4 DEF KeepPairedToken, Laptop
<1>5. CASE WriteOwnerConnection
  BY <1>5 DEF WriteOwnerConnection, Laptop
<1>6. CASE ClearPairing
  BY <1>6 DEF ClearPairing, Laptop
<1>7. CASE PairingFails \/ LaptopFault
  BY <1>7 DEF PairingFails, LaptopFault, Laptop
<1>8. CASE ResetLaptop
  BY <1>8 DEF ResetLaptop, NewLaptop
<1> QED BY MachinesApart, <1>1, <1>2, <1>3, <1>4, <1>5, <1>6, <1>7, <1>8 DEF LaptopActs

-----------------------------------------------------------------------------
(* The invariant and what follows from it.                                 *)

LEMMA InitInvariant == Init => IInv
<1> SUFFICES ASSUME Init PROVE IInv OBVIOUS
<1>1. Typed
  BY InitTyped
<1>2. Admitted
  BY UsersApart DEF Init, NoCode, Admitted, User, Device
<1>5. OwnersCodes /\ AgentsEdit
  BY DEF Init, NoCode, OwnersCodes, AgentsEdit, User
<1>3. ClaimsCount /\ NoAgentStranded
  BY DEF Init, NoEnrollment, ClaimsCount, NoAgentStranded
<1>4. RefusedHasNone /\ SessionsBelong /\ VaultKeepsOwner
  BY DEF Init, NewLaptop, RefusedHasNone, SessionsBelong, VaultKeepsOwner
<1> QED BY <1>1, <1>2, <1>3, <1>4, <1>5 DEF IInv

LEMMA InvariantStays == IInv /\ [Next]_vars => IInv'
<1> SUFFICES ASSUME IInv, [Next]_vars PROVE IInv' OBVIOUS
<1>1. CASE UNCHANGED vars
  <2>1. /\ UNCHANGED <<code, device, member, role, home, families, authored, grants, enrollment>>
        /\ UNCHANGED <<rows, guest, laptop, service, tokens, decisions, faults>>
    BY <1>1 DEF vars, tables, clients, counters
  <2>2. Typed'
    BY TypedStays DEF IInv
  <2>3. Admitted' /\ OwnersCodes' /\ AgentsEdit' /\ ClaimsCount' /\ NoAgentStranded'
    BY <2>1 DEF IInv, Admitted, OwnersCodes, AgentsEdit, ClaimsCount, NoAgentStranded
  <2>4. RefusedHasNone' /\ SessionsBelong' /\ VaultKeepsOwner'
    BY <2>1 DEF IInv, RefusedHasNone, SpentByLaptop, SessionsBelong, VaultKeepsOwner, IsOwnerOf
  <2> QED BY <2>2, <2>3, <2>4 DEF IInv
<1>2. CASE Next
  BY <1>2, TypedStays, AdmittedStays, OwnersCodesStay, AgentsEditStays, ClaimsStay, RefusedStays,
     SessionsBelongStays, VaultKeepsOwnerStays DEF IInv
<1> QED BY <1>1, <1>2

LEMMA Invariant == Spec => []IInv
BY InitInvariant, InvariantStays, PTL DEF Spec

\* In every order of approvals, rejections, mistyped codes, expiries, clean-ups,
\* rejoins and revocations, a session that can be used belongs to an approved device
\* of an active member.
THEOREM SessionsCorrect == Spec => []SessionsBelong
<1>1. IInv => SessionsBelong
  BY DEF IInv
<1> QED BY <1>1, Invariant, PTL

\* However many owners a vault has and whatever they do to each other, one stays.
THEOREM VaultCorrect == Spec => []VaultKeepsOwner
<1>1. IInv => VaultKeepsOwner
  BY DEF IInv
<1> QED BY <1>1, Invariant, PTL

\* An agent the server handed out is never lost between the two sides.
THEOREM AgentsCorrect == Spec => []NoAgentStranded
<1>1. IInv => NoAgentStranded
  BY DEF IInv
<1> QED BY <1>1, Invariant, PTL

\* An interrupted pairing is completed by pasting the same code again.
THEOREM PairingCorrect == Spec => PairingRecoverable
<1> DEFINE Kept == \A p \in Pairings : SpentByLaptop(p) =>
               /\ laptop'.pc # "failed"
               /\ laptop'.pairing = p => laptop'.token = laptop.token
               /\ laptop'.pairing = None => laptop'.connection = p \/ laptop' = NewLaptop
<1>1. IInv /\ [Next]_vars => [Kept]_vars
  <2> SUFFICES ASSUME IInv, Next PROVE Kept
    OBVIOUS
  <2>1. ASSUME NEW p \in Pairings, SpentByLaptop(p) PROVE Recoverable(p)
    BY <2>1, PairingStep DEF IInv
  <2> QED BY <2>1 DEF Recoverable
<1> QED BY <1>1, Invariant, PTL DEF Spec, PairingRecoverable
=============================================================================
