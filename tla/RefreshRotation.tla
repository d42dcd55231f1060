--------------------------- MODULE RefreshRotation ---------------------------
(***************************************************************************)
(* A device's session: the refresh-token family in the server's database   *)
(* and the client's RefreshTokenAccessProvider that rotates it.            *)
(*                                                                         *)
(* Every rotation presents the stored token with a pair of a rotation id   *)
(* and a successor token that are minted together; here one number stands  *)
(* for the pair.  The client writes the pair to SecretStorage before it    *)
(* sends, so that it can repeat an unanswered rotation exactly.  Reads and *)
(* writes of SecretStorage are synchronous: a provider's step runs from    *)
(* one network wait to the next.                                           *)
(*                                                                         *)
(* Requests and answers may be lost.  A request is not delivered after the *)
(* client has given it up: its connection is closed by then.               *)
(***************************************************************************)
EXTENDS Integers, FiniteSets

CONSTANTS
    MaxProviders,     \* providers built one after another for the connection
    MaxMints,         \* bound on minted pairs
    MaxCrashes,       \* bound on restarts of the client
    MaxLost,          \* bound on lost messages and failed writes
    MaxServerFaults,  \* bound on rotations that fail for a database error
    MaxForeign        \* bound on rotations by another holder of a token

ASSUME RotationAssumption ==
    /\ MaxProviders \in Nat \ {0}
    /\ {MaxMints, MaxCrashes, MaxLost, MaxServerFaults, MaxForeign} \subseteq Nat

VARIABLES
    rows,        \* refresh_tokens of the family
    family,      \* refresh_token_families.status
    generation,  \* refresh_token_families.current_generation
    deadline,    \* the family's expires_at: "ahead" or "passed"
    access,      \* live access tokens, each named by the successor it came with
    stored,      \* SecretStorage: the refresh token
    pending,     \* SecretStorage: the in-flight rotation, or NoPair
    provider,    \* the providers of the client process
    current,     \* the registered provider
    minted,      \* pairs minted so far
    grants,      \* history: the rotations answered with a 200
    crashes, lost, serverFaults, foreign

server == <<rows, family, generation, deadline, access, grants>>
secrets == <<stored, pending>>
budgets == <<crashes, lost, serverFaults, foreign>>
rotationVars == <<server, secrets, provider, current, minted, budgets>>

None == -1
Pair == [token : Nat, successor : Nat]
NoPair == [token |-> None, successor |-> None]
Row == [token : Nat, generation : Nat, successor : Nat \cup {None}]
Providers == 1..MaxProviders

\* A provider is idle, has a usable access token cached, has a rotation in
\* flight, or has been refused.
PC == {"idle", "cached", "sent", "200", "401", "error", "refused"}
At(pc) == [pc |-> pc, pair |-> NoPair]

RotationTypeOK ==
    /\ rows \subseteq Row
    /\ family \in {"active", "reuse-detected", "revoked"}
    /\ generation \in Nat /\ deadline \in {"ahead", "passed"}
    /\ access \subseteq Nat
    /\ stored \in Nat /\ pending \in Pair \cup {NoPair}
    /\ provider \in [Providers -> [pc : PC, pair : Pair \cup {NoPair}]]
    /\ current \in Providers
    /\ minted \in 0..MaxMints
    /\ grants \subseteq Pair
    /\ crashes \in 0..MaxCrashes /\ lost \in 0..MaxLost
    /\ serverFaults \in 0..MaxServerFaults /\ foreign \in 0..MaxForeign

\* createInitialFamilyFromHash: generation 0 holds the token the client minted.
RotationInit ==
    /\ rows = {[token |-> 0, generation |-> 0, successor |-> None]}
    /\ family = "active" /\ generation = 0 /\ deadline = "ahead" /\ access = {}
    /\ stored = 0 /\ pending = NoPair
    /\ provider = [p \in Providers |-> At("idle")]
    /\ current = 1 /\ minted = 0 /\ grants = {}
    /\ crashes = 0 /\ lost = 0 /\ serverFaults = 0 /\ foreign = 0

Alive == family = "active" /\ deadline = "ahead"

-----------------------------------------------------------------------------
(* The server: rotateRefresh.                                              *)

\* A consumed token may only be presented to repeat its own rotation, and only
\* while the successor is still the family's current token.
ExactRetry(r, q) ==
    /\ r.successor = q.successor
    /\ generation = r.generation + 1
    /\ \E s \in rows : s.token = q.successor /\ s.generation = r.generation + 1

\* Faulty variant: a repeated rotation is answered whatever the family's status.
VerdictRetryFirst(q) ==
    LET row == {r \in rows : r.token = q.token} IN
    IF row = {} THEN "invalid"
    ELSE IF \E r \in row : r.successor # None /\ ExactRetry(r, q) THEN "retry"
    ELSE IF ~Alive THEN "invalid"
    ELSE IF \E r \in row : r.successor # None \/ r.generation # generation THEN "reuse"
    ELSE "rotate"

(***************************************************************************)
(* The order of rotateInTransaction's checks.  A token that is not         *)
(* consumed has the family's own deadline, so one flag stands for both.    *)
(***************************************************************************)
Verdict(q) ==
    LET row == {r \in rows : r.token = q.token} IN
    IF row = {} \/ deadline = "passed" THEN "invalid"
    ELSE IF family # "active" THEN "revoked"
    ELSE IF \E r \in row : r.successor # None
         THEN IF \E r \in row : ExactRetry(r, q) THEN "retry" ELSE "reuse"
    ELSE IF \/ \E r \in row : r.generation # generation
            \/ \E r \in rows : r.token = q.successor
         THEN "reuse"
    ELSE "rotate"

\* The token is consumed and its successor inserted, one generation on.
Rotated(q) ==
    {r \in rows : r.token # q.token}
      \cup {[r EXCEPT !.successor = q.successor] : r \in {r \in rows : r.token = q.token}}
      \cup {[token |-> q.successor, generation |-> generation + 1, successor |-> None]}

\* markReuse: the family is burned and its access tokens are revoked.
MarkReuse ==
    /\ family' = "reuse-detected"
    /\ access' = {}
    /\ UNCHANGED <<rows, generation, grants>>

\* issueAccess, and the 200 that carries the token
IssueAccess(q) ==
    /\ access' = access \cup {q.successor}
    /\ grants' = grants \cup {q}
    /\ UNCHANGED family

\* The transaction; every failure is answered with a 401.
Rotate(q) ==
    LET verdict == Verdict(q) IN
    /\ \/ verdict = "rotate" /\ rows' = Rotated(q) /\ generation' = generation + 1
                             /\ IssueAccess(q)
       \/ verdict = "retry" /\ IssueAccess(q) /\ UNCHANGED <<rows, generation>>
       \/ verdict = "reuse" /\ MarkReuse
       \/ verdict \in {"invalid", "revoked"}
            /\ UNCHANGED <<rows, family, generation, access, grants>>
    /\ UNCHANGED deadline

Answer(q) == IF Verdict(q) \in {"rotate", "retry"} THEN "200" ELSE "401"

\* revokeDeviceInCurrentTransaction
RevokeDevice ==
    /\ family # "revoked"
    /\ family' = "revoked"
    /\ access' = {}
    /\ UNCHANGED <<rows, generation, deadline, grants, secrets, provider, current, minted, budgets>>

\* The device has not refreshed for a whole window; access tokens end with it.
Expire ==
    /\ deadline = "ahead"
    /\ deadline' = "passed"
    /\ access' = {}
    /\ UNCHANGED <<rows, family, generation, grants, secrets, provider, current, minted, budgets>>

-----------------------------------------------------------------------------
(* The client: RefreshTokenAccessProvider.                                 *)

\* resolvePendingRotation: a record minted for the stored token is replayed.
Replayable == pending # NoPair /\ pending.token = stored

\* rotateOnce up to the request: replay the record, or mint one and persist it.
Begin ==
    /\ provider[current].pc = "idle"
    /\ \/ /\ Replayable
          /\ provider' = [provider EXCEPT ![current] = [pc |-> "sent", pair |-> pending]]
          /\ UNCHANGED <<pending, minted>>
       \/ /\ ~Replayable
          /\ minted < MaxMints
          /\ LET new == [token |-> stored, successor |-> minted + 1] IN
               /\ pending' = new
               /\ provider' = [provider EXCEPT ![current] = [pc |-> "sent", pair |-> new]]
          /\ minted' = minted + 1
    /\ UNCHANGED <<server, stored, current, budgets>>

\* The request reaches the server, which answers.
Deliver(p) ==
    /\ provider[p].pc = "sent"
    /\ Rotate(provider[p].pair)
    /\ provider' = [provider EXCEPT ![p].pc = Answer(provider[p].pair)]
    /\ UNCHANGED <<secrets, current, minted, budgets>>

\* A database error rolls the rotation back; it too is answered with a 401.
ServerFault(p) ==
    /\ provider[p].pc = "sent"
    /\ serverFaults < MaxServerFaults
    /\ serverFaults' = serverFaults + 1
    /\ provider' = [provider EXCEPT ![p].pc = "401"]
    /\ UNCHANGED <<server, secrets, current, minted, crashes, lost, foreign>>

\* The request or its answer is lost, or the answer cannot be read.
Lose(p) ==
    /\ provider[p].pc \in {"sent", "200", "401"}
    /\ lost < MaxLost
    /\ lost' = lost + 1
    /\ provider' = [provider EXCEPT ![p].pc = "error"]
    /\ UNCHANGED <<server, secrets, current, minted, crashes, serverFaults, foreign>>

\* saveRefreshToken of the successor
Adopt(p) == stored' = provider[p].pair.successor

\* A 200: the successor becomes the stored token, then the record is cleared
\* (a failed clear is ignored).
Granted(p) ==
    /\ provider[p].pc = "200"
    /\ Adopt(p)
    /\ pending' \in {pending, NoPair}
    /\ provider' = [provider EXCEPT ![p] = At("cached")]
    /\ UNCHANGED <<server, current, minted, budgets>>

\* A 200 whose successor cannot be written: the rotation throws, the record stays.
SaveFails(p) ==
    /\ provider[p].pc = "200"
    /\ lost < MaxLost
    /\ lost' = lost + 1
    /\ provider' = [provider EXCEPT ![p] = At("idle")]
    /\ UNCHANGED <<server, secrets, current, minted, crashes, serverFaults, foreign>>

\* A 401 is final: the record is dropped and the sync loop stops.
Refused(p) ==
    /\ provider[p].pc = "401"
    /\ pending' \in {pending, NoPair}
    /\ provider' = [provider EXCEPT ![p] = At("refused")]
    /\ UNCHANGED <<server, stored, current, minted, budgets>>

\* Faulty variant: any failure drops the record.
FailedDropsRecord(p) ==
    /\ provider[p].pc = "error"
    /\ provider' = [provider EXCEPT ![p] = At("idle")]
    /\ pending' = NoPair
    /\ UNCHANGED <<server, stored, current, minted, budgets>>

\* Faulty variant: any failure is taken as final.
FailedForGood(p) ==
    /\ provider[p].pc = "error"
    /\ provider' = [provider EXCEPT ![p] = At("refused")]
    /\ UNCHANGED <<server, secrets, current, minted, budgets>>

\* Any other failure keeps the record for the next attempt.
Failed(p) ==
    /\ provider[p].pc = "error"
    /\ provider' = [provider EXCEPT ![p] = At("idle")]
    /\ UNCHANGED <<server, secrets, current, minted, budgets>>

InFlight(p) == provider[p].pc \in {"sent", "200", "401", "error"}

\* The cached access token nears its end; no request outlasts its lifetime.
AccessExpires ==
    /\ provider[current].pc = "cached"
    /\ minted < MaxMints
    /\ \A p \in Providers : ~InFlight(p)
    /\ provider' = [provider EXCEPT ![current] = At("idle")]
    /\ UNCHANGED <<server, secrets, current, minted, budgets>>

\* replaceSharedAccessProvider: a reconnect builds a provider over the same
\* secrets; a rotation of the old one runs on.
Replace ==
    /\ current < MaxProviders
    /\ minted < MaxMints
    /\ current' = current + 1
    /\ UNCHANGED <<server, secrets, provider, minted, budgets>>

\* The client process dies and is started again: SecretStorage is what is left.
Crash ==
    /\ crashes < MaxCrashes
    /\ minted < MaxMints
    /\ provider' = [p \in Providers |-> At("idle")]
    /\ crashes' = crashes + 1
    /\ UNCHANGED <<server, secrets, current, minted, lost, serverFaults, foreign>>

\* Another holder of one of the family's tokens presents it with a pair of its own.
Foreign ==
    /\ foreign < MaxForeign
    /\ minted < MaxMints
    /\ \E r \in rows : Rotate([token |-> r.token, successor |-> minted + 1])
    /\ minted' = minted + 1
    /\ foreign' = foreign + 1
    /\ UNCHANGED <<secrets, provider, current, crashes, lost, serverFaults>>

RotationNext ==
    \/ Begin \/ AccessExpires \/ Replace \/ Crash
    \/ RevokeDevice \/ Expire \/ Foreign
    \/ \E p \in Providers :
         Deliver(p) \/ ServerFault(p) \/ Lose(p) \/ Granted(p) \/ SaveFails(p)
           \/ Refused(p) \/ Failed(p)

\* The sync loop keeps asking for access and answers are processed.
Fairness ==
    /\ WF_rotationVars(Begin)
    /\ \A p \in Providers : /\ WF_rotationVars(Deliver(p)) /\ WF_rotationVars(Granted(p))
                            /\ WF_rotationVars(Refused(p)) /\ WF_rotationVars(Failed(p))

RotationSpec == RotationInit /\ [][RotationNext]_rotationVars /\ Fairness

-----------------------------------------------------------------------------
(* Properties.                                                             *)

\* So far one provider alone has used the tokens, and the database has not failed.
SoleHolder == current = 1 /\ foreign = 0 /\ serverFaults = 0

(***************************************************************************)
(* The device's own rotations never look like reuse, whatever is lost and  *)
(* wherever the client crashes: the family is burned only for somebody     *)
(* else's rotation.                                                        *)
(***************************************************************************)
NeverBurned == SoleHolder => family # "reuse-detected"

(***************************************************************************)
(* The device is never stranded: while the family lives, SecretStorage     *)
(* holds its current token, or the record of the rotation that consumed    *)
(* the stored one and made its successor current.                          *)
(***************************************************************************)
NeverStranded ==
    SoleHolder /\ Alive =>
      \/ \E r \in rows : r.token = stored /\ r.successor = None
      \/ \E r \in rows : /\ r.token = stored
                         /\ pending = [token |-> stored, successor |-> r.successor]
                         /\ r.generation + 1 = generation

\* A device that wants access gets it, once messages stop being lost, unless
\* its session ends.
GetsAccess ==
    SoleHolder /\ Alive ~> (provider[current].pc = "cached" \/ ~Alive \/ ~SoleHolder)

\* The client gives its rotation up on a 401 because the family is already dead.
\* It does not hold: README, known divergences.
DenialMeansDead == \A p \in Providers : provider[p].pc \in {"401", "refused"} => ~Alive

(***************************************************************************)
(* The family is one chain: each generation has one token, each but the    *)
(* last is consumed and names the next.                                    *)
(***************************************************************************)
ChainLinear ==
    /\ {r.generation : r \in rows} = 0..generation
    /\ \A r, s \in rows : r.generation = s.generation \/ r.token = s.token => r = s
    /\ \A r \in rows :
         IF r.successor = None THEN r.generation = generation
         ELSE \E s \in rows : s.token = r.successor /\ s.generation = r.generation + 1

\* Two holders of one token are never both served: every 200 for a token has
\* the same successor.
GrantedOnce == \A g, h \in grants : g.token = h.token => g = h

\* A family that was revoked, burned or left to expire grants nothing, and none
\* of the access tokens it issued works.
DeadGrantsNothing == ~Alive => access = {}
=============================================================================
