---------------------------- MODULE MCMembership ----------------------------
(***************************************************************************)
(* Guests: an owner with one pairing code and two invitations.  House: two *)
(* owners with a code each, and two agents.                                *)
(***************************************************************************)
EXTENDS Membership, TLC

CONSTANTS first, second

Symmetry == Permutations(Agents)

\* The two invitations differ in nothing but their names: the first one that is
\* minted is called first.  (Symmetry by hand: the run checks a liveness property.)
Named == second \in Invitations /\ code'[second].state # "none" => code'[first].state # "none"

\* The owner's machine has its failures in the other run.
Undisturbed == laptop' # laptop => faults' = faults
=============================================================================
