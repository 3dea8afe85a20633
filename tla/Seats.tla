------------------------------- MODULE Seats -------------------------------
(***************************************************************************)
(* The seats of one workspace (auth: add_workspace_member,                 *)
(* create_invitation, accept_invitation, remove_workspace_member,          *)
(* revoke_invitation).  A member takes a seat and a pending invitation     *)
(* reserves one.  _assert_seats_available reads the limit, counts the      *)
(* members and counts the invitations in separate queries, and the row it  *)
(* makes room for is committed later; nothing is locked.  Roles and        *)
(* projects are left out: no seat depends on them.                         *)
(***************************************************************************)
EXTENDS Naturals, FiniteSets

CONSTANTS Threads, Users, Invitations, Owner,
          Email,   \* the user each invitation is addressed to
          Limits,  \* the seat limits of the plans
          None

ASSUME ThreadsAssumption == IsFiniteSet(Threads) /\ Threads # {}
ASSUME EmailAssumption == Email \in [Invitations -> Users]
ASSUME OwnerAssumption == Owner \in Users
ASSUME LimitsAssumption == Limits \subseteq Nat
ASSUME NoneAssumption == None \notin Users \cup Invitations

VARIABLES
    members,     \* workspace_members
    invitation,  \* the state of each invitation row
    limit,       \* the seat limit of the owner's plan
    job,         \* what each thread is doing and what it has read
    highest,     \* history: the highest limit there has been
    uses,        \* history: how often each invitation was accepted
    late         \* history: an invitation was accepted that had just expired

seatsVars == <<members, invitation, limit, job, highest, uses, late>>

InvitationStates == {"none", "pending", "used", "expired", "revoked"}
SeatsPCs == {"idle", "limit_read", "members_counted", "granted"}

\* user: whom the request makes a member; invitation: what it accepts or
\* sends; seat: whether it needs a seat; count: how many it asks for
Idle == [pc |-> "idle", user |-> None, invitation |-> None, seat |-> FALSE,
         count |-> 0, limit |-> 0, seen |-> 0]

Pending == {i \in Invitations : invitation[i] = "pending"}
Finish(t) == job' = [job EXCEPT ![t] = Idle]
Load(t, request) ==
    /\ job[t].pc = "idle"
    /\ job' = [job EXCEPT ![t] = request]
    /\ UNCHANGED <<members, invitation, limit, highest, uses, late>>

(***************************************************************************)
(* What each request reads before it counts seats.                         *)
(***************************************************************************)
\* For a user who is a member already only the role changes
AddLoad(t, u) ==
    /\ u \notin members
    /\ Load(t, [Idle EXCEPT !.pc = "limit_read", !.user = u, !.seat = TRUE,
                            !.count = 1, !.limit = limit])

InviteLoad(t, i) ==
    /\ invitation[i] = "none"
    /\ \A s \in Threads : job[s].invitation # i
    /\ Load(t, [Idle EXCEPT !.pc = "limit_read", !.invitation = i,
                            !.count = 1, !.limit = limit])

Acceptable(i) == invitation[i] = "pending"

\* A member needs no seat; the invitation reserved the one of anyone else
AcceptLoad(t, i) ==
    /\ Acceptable(i)
    /\ Load(t, [Idle EXCEPT !.pc = IF Email[i] \in members THEN "granted" ELSE "limit_read",
                            !.user = Email[i], !.invitation = i,
                            !.seat = Email[i] \notin members, !.limit = limit])

(***************************************************************************)
(* _assert_seats_available.                                                *)
(***************************************************************************)
CountMembers(t) ==
    /\ job[t].pc = "limit_read"
    /\ job' = [job EXCEPT ![t].pc = "members_counted", ![t].seen = Cardinality(members)]
    /\ UNCHANGED <<members, invitation, limit, highest, uses, late>>

\* (mutant) pending invitations reserve nothing
UsedSeatsMembers(t) == job[t].seen
UsedSeats(t) == job[t].seen + Cardinality(Pending)

CountPending(t) ==
    /\ job[t].pc = "members_counted"
    /\ \/ /\ UsedSeats(t) + job[t].count <= job[t].limit
          /\ job' = [job EXCEPT ![t].pc = "granted"]
       \/ /\ UsedSeats(t) + job[t].count > job[t].limit
          /\ Finish(t)
    /\ UNCHANGED <<members, invitation, limit, highest, uses, late>>

(***************************************************************************)
(* The commits.  The primary key refuses a second row for a member, and    *)
(* the update of a deleted invitation fails: both roll the request back.   *)
(***************************************************************************)
Granted(t) == job[t].pc = "granted"
Accepts(t) == job[t].user # None /\ job[t].invitation # None
Seated(t) == IF job[t].seat THEN {job[t].user} ELSE {}
Conflict(t) == \/ Seated(t) \cap members # {}
               \/ Accepts(t) /\ invitation[job[t].invitation] = "revoked"

RollBack(t) ==
    /\ Granted(t)
    /\ Conflict(t)
    /\ Finish(t)
    /\ UNCHANGED <<members, invitation, limit, highest, uses, late>>

AddCommit(t) ==
    /\ Granted(t)
    /\ job[t].invitation = None
    /\ ~Conflict(t)
    /\ members' = members \cup Seated(t)
    /\ Finish(t)
    /\ UNCHANGED <<invitation, limit, highest, uses, late>>

InviteCommit(t) ==
    /\ Granted(t)
    /\ job[t].user = None
    /\ invitation[job[t].invitation] = "none"
    /\ invitation' = [invitation EXCEPT ![job[t].invitation] = "pending"]
    /\ Finish(t)
    /\ UNCHANGED <<members, limit, highest, uses, late>>

\* (mutant) used_at is not set
AcceptedUnmarked == "pending"
Accepted == "used"

AcceptCommit(t) ==
    /\ Granted(t)
    /\ Accepts(t)
    /\ ~Conflict(t)
    /\ members' = members \cup Seated(t)
    /\ invitation' = [invitation EXCEPT ![job[t].invitation] = Accepted]
    /\ uses' = [uses EXCEPT ![job[t].invitation] = @ + 1]
    /\ late' = (late \/ invitation[job[t].invitation] = "expired")
    /\ Finish(t)
    /\ UNCHANGED <<limit, highest>>

(***************************************************************************)
(* Rows that go, time and plans.                                           *)
(***************************************************************************)
RemoveMember(u) ==
    /\ u \in members
    /\ members' = members \ {u}
    /\ UNCHANGED <<invitation, limit, job, highest, uses, late>>

RevokeInvitation(i) ==
    /\ invitation[i] \notin {"none", "revoked"}
    /\ invitation' = [invitation EXCEPT ![i] = "revoked"]
    /\ UNCHANGED <<members, limit, job, highest, uses, late>>

InvitationExpires(i) ==
    /\ invitation[i] = "pending"
    /\ invitation' = [invitation EXCEPT ![i] = "expired"]
    /\ UNCHANGED <<members, limit, job, highest, uses, late>>

\* Billing sets the plan without regard to the seats in use
PlanChanges(l) ==
    /\ l # limit
    /\ limit' = l
    /\ highest' = IF l > highest THEN l ELSE highest
    /\ UNCHANGED <<members, invitation, job, uses, late>>

SeatsCrash ==
    /\ \E t \in Threads : job[t] # Idle
    /\ job' = [t \in Threads |-> Idle]
    /\ UNCHANGED <<members, invitation, limit, highest, uses, late>>

\* create_workspace makes its owner the only member
SeatsInit ==
    /\ members = {Owner}
    /\ invitation = [i \in Invitations |-> "none"]
    /\ limit \in Limits \ {0}
    /\ job = [t \in Threads |-> Idle]
    /\ highest = limit
    /\ uses = [i \in Invitations |-> 0]
    /\ late = FALSE

SeatsNext ==
    \/ \E t \in Threads :
        \/ \E u \in Users : AddLoad(t, u)
        \/ \E i \in Invitations : InviteLoad(t, i) \/ AcceptLoad(t, i)
        \/ CountMembers(t) \/ CountPending(t)
        \/ RollBack(t) \/ AddCommit(t) \/ InviteCommit(t) \/ AcceptCommit(t)
    \/ \E u \in Users : RemoveMember(u)
    \/ \E i \in Invitations : RevokeInvitation(i) \/ InvitationExpires(i)
    \/ \E l \in Limits : PlanChanges(l)
    \/ SeatsCrash

SeatsSpec == SeatsInit /\ [][SeatsNext]_seatsVars

-----------------------------------------------------------------------------
(***************************************************************************)
(* Safety.                                                                 *)
(***************************************************************************)
\* The types, and: an invitation that was accepted is never pending again, and is
\* accepted once by each thread that read it unused at most, however often the
\* user is removed in between.  accept_invitation and used_at.
SeatsTypeOK ==
    /\ members \subseteq Users
    /\ invitation \in [Invitations -> InvitationStates]
    /\ limit \in Limits
    /\ job \in [Threads -> [pc : SeatsPCs, user : Users \cup {None},
                            invitation : Invitations \cup {None}, seat : BOOLEAN,
                            count : {0, 1}, limit : Limits \cup {0}, seen : Nat]]
    /\ highest \in Limits
    /\ uses \in [Invitations -> 0..Cardinality(Threads)]
    /\ late \in BOOLEAN
    /\ \A i \in Invitations : uses[i] > 0 => invitation[i] \in {"used", "revoked"}

\* Members and pending invitations exceed the highest limit the plan has had by
\* fewer than the threads that may stand between counting and committing: a lone
\* request never exceeds it, however its two counts fall.  Once an invitation has
\* expired while it was being accepted they may exceed it by one seat more, and
\* by no more than one however often that happens.  _assert_seats_available.
SeatsBounded ==
    LET taken == Cardinality(members) + Cardinality(Pending)
    IN  /\ taken <= highest + Cardinality(Threads)
        /\ ~late => taken < highest + Cardinality(Threads)
=============================================================================
