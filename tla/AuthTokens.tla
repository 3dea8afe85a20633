----------------------------- MODULE AuthTokens -----------------------------
(***************************************************************************)
(* The sessions of one user (auth: login, mfa_challenge, refresh,          *)
(* switch_workspace, logout, suspend_user).  A login starts a family of    *)
(* refresh tokens; refresh and switch_workspace rotate one: the row is     *)
(* loaded and judged, and used_at and the successor are committed          *)
(* together.  A used token presented again, a logout or a suspension       *)
(* revokes: a query selects rows, a later commit marks them.  The threads  *)
(* that do this lock nothing.  Which workspace a token names is left out:  *)
(* it does not decide whether the token is good.                           *)
(***************************************************************************)
EXTENDS Naturals, FiniteSets

CONSTANTS Threads, Tokens, Families, None

ASSUME ThreadsAssumption == IsFiniteSet(Threads)
ASSUME NoneAssumption == None \notin Tokens \cup Families

VARIABLES
    token,       \* refresh_tokens: the family of an issued token and its marks
    suspended,   \* users.suspended_at is set
    otp,         \* users.mfa_otp_code is set and has not expired
    otpEnabled,  \* settings.auth_login_otp_enabled
    job,         \* what each thread is doing and the rows it selected
    parent,      \* history: the token each token was rotated from
    revokedOnce, \* history: families a revocation has been committed for
    raced        \* history: families a rotation overlapped a revocation of

rows == <<token, suspended, otp, otpEnabled>>
history == <<parent, revokedOnce, raced>>
vars == <<token, suspended, otp, otpEnabled, job, parent, revokedOnce, raced>>

Unissued == [family |-> None, used |-> FALSE, revoked |-> FALSE, expired |-> FALSE]

PCs == {"idle", "login_checked", "otp_checked", "otp_spent", "rotating", "revoking",
        "revoke_selected", "suspending", "suspend_selected"}

Idle == [pc |-> "idle", token |-> None, rows |-> {}]

Issued(k) == token[k].family # None
FamilyOf(t) == token[job[t].token].family
Live(k) == Issued(k) /\ ~token[k].revoked /\ ~token[k].used /\ ~token[k].expired

\* Threads about to mark the rows they selected in family f
Selecting(f) ==
    \E t \in Threads : \/ job[t].pc = "suspend_selected"
                       \/ job[t].pc = "revoke_selected" /\ FamilyOf(t) = f

Rotating(f) == \E t \in Threads : job[t].pc = "rotating" /\ FamilyOf(t) = f

\* The next token and the next family: which is immaterial (how many there
\* are bounds the model).
NewToken == CHOOSE k \in Tokens : ~Issued(k)
FreshFamilies == {f \in Families : \A k \in Tokens : token[k].family # f}

Goto(t, pc) == job' = [job EXCEPT ![t] = [@ EXCEPT !.pc = pc]]
Finish(t) == job' = [job EXCEPT ![t] = Idle]

(***************************************************************************)
(* evaluate_refresh: the verdict on a row.                                 *)
(***************************************************************************)
\* (mutant) used_at is not looked at
ValidUsed(row) == ~row.revoked /\ ~row.expired

Valid(row) == ~row.revoked /\ ~row.expired /\ ~row.used

Reuse(row) == ~row.revoked /\ ~row.expired /\ row.used

(***************************************************************************)
(* login and mfa_challenge.  Neither the challenge nor the commit that     *)
(* issues the tokens looks at suspended_at again.                          *)
(***************************************************************************)
LoginLoad(t) ==
    /\ job[t].pc = "idle"
    /\ ~suspended
    /\ Goto(t, "login_checked")
    /\ UNCHANGED <<rows, history>>

\* _issue_tokens with new_family
StartFamily(t) ==
    /\ FreshFamilies # {}
    /\ \E k \in Tokens : ~Issued(k)
    /\ token' = [token EXCEPT ![NewToken] =
                    [Unissued EXCEPT !.family = CHOOSE f \in FreshFamilies : TRUE]]
    /\ Finish(t)
    /\ UNCHANGED <<suspended, otp, otpEnabled, history>>

LoginIssue(t) ==
    /\ job[t].pc = "login_checked"
    /\ ~otpEnabled
    /\ StartFamily(t)

LoginChallenge(t) ==
    /\ job[t].pc = "login_checked"
    /\ otpEnabled
    /\ otp' = TRUE
    /\ Finish(t)
    /\ UNCHANGED <<token, suspended, otpEnabled, history>>

ChallengeLoad(t) ==
    /\ job[t].pc = "idle"
    /\ otp
    /\ Goto(t, "otp_checked")
    /\ UNCHANGED <<rows, history>>

ChallengeSpend(t) ==
    /\ job[t].pc = "otp_checked"
    /\ otp' = FALSE
    /\ Goto(t, "otp_spent")
    /\ UNCHANGED <<token, suspended, otpEnabled, history>>

ChallengeIssue(t) ==
    /\ job[t].pc = "otp_spent"
    /\ StartFamily(t)

(***************************************************************************)
(* refresh and switch_workspace.                                           *)
(***************************************************************************)
RotateLoad(t, k) ==
    /\ job[t].pc = "idle"
    /\ Issued(k)
    /\ Valid(token[k])
    /\ job' = [job EXCEPT ![t] = [Idle EXCEPT !.pc = "rotating", !.token = k]]
    /\ raced' = IF Selecting(token[k].family) THEN raced \cup {token[k].family} ELSE raced
    /\ UNCHANGED <<rows, parent, revokedOnce>>

\* Only the column that changed is written
WithUsed(row) == [row EXCEPT !.used = TRUE]

\* (mutant) _issue_tokens is not given the family
SuccessorAlone(row) == Unissued
Successor(row) == [Unissued EXCEPT !.family = row.family]

RotateCommit(t) ==
    LET old == job[t].token
    IN  /\ job[t].pc = "rotating"
        /\ \E k \in Tokens : ~Issued(k)
        /\ token' = [token EXCEPT ![old] = WithUsed(@), ![NewToken] = Successor(token[old])]
        /\ parent' = [parent EXCEPT ![NewToken] = old]
        /\ Finish(t)
        /\ UNCHANGED <<suspended, otp, otpEnabled, revokedOnce, raced>>

(***************************************************************************)
(* _revoke_family, called on reuse and by logout, for whatever token is    *)
(* presented.                                                              *)
(***************************************************************************)
ReuseLoad(t, k) ==
    /\ job[t].pc = "idle"
    /\ Issued(k)
    /\ Reuse(token[k])
    /\ job' = [job EXCEPT ![t] = [Idle EXCEPT !.pc = "revoking", !.token = k]]
    /\ UNCHANGED <<rows, history>>

LogoutLoad(t, k) ==
    /\ job[t].pc = "idle"
    /\ Issued(k)
    /\ job' = [job EXCEPT ![t] = [Idle EXCEPT !.pc = "revoking", !.token = k]]
    /\ UNCHANGED <<rows, history>>

\* (mutant) logout revokes the token it is given
RevokeSelectOne(t) ==
    /\ job[t].pc = "revoking"
    /\ job' = [job EXCEPT ![t] = [@ EXCEPT !.pc = "revoke_selected", !.rows = {job[t].token}]]
    /\ raced' = IF Rotating(FamilyOf(t)) THEN raced \cup {FamilyOf(t)} ELSE raced
    /\ UNCHANGED <<rows, parent, revokedOnce>>

RevokeSelect(t) ==
    /\ job[t].pc = "revoking"
    /\ job' = [job EXCEPT ![t] = [@ EXCEPT !.pc = "revoke_selected",
                                         !.rows = {k \in Tokens : token[k].family = FamilyOf(t)}]]
    /\ raced' = IF Rotating(FamilyOf(t)) THEN raced \cup {FamilyOf(t)} ELSE raced
    /\ UNCHANGED <<rows, parent, revokedOnce>>

Revoke(marked) ==
    token' = [k \in Tokens |-> IF k \in marked THEN [token[k] EXCEPT !.revoked = TRUE]
                               ELSE token[k]]

RevokeCommit(t) ==
    /\ job[t].pc = "revoke_selected"
    /\ Revoke(job[t].rows)
    /\ revokedOnce' = revokedOnce \cup {FamilyOf(t)}
    /\ Finish(t)
    /\ UNCHANGED <<suspended, otp, otpEnabled, parent, raced>>

(***************************************************************************)
(* suspend_user marks the user and every token; unsuspend_user.            *)
(***************************************************************************)
SuspendLoad(t) ==
    /\ job[t].pc = "idle"
    /\ Goto(t, "suspending")
    /\ UNCHANGED <<rows, history>>

SuspendSelect(t) ==
    /\ job[t].pc = "suspending"
    /\ job' = [job EXCEPT ![t] = [@ EXCEPT !.pc = "suspend_selected",
                                         !.rows = {k \in Tokens : Issued(k)}]]
    /\ raced' = raced \cup {f \in Families : Rotating(f)}
    /\ UNCHANGED <<rows, parent, revokedOnce>>

SuspendCommit(t) ==
    /\ job[t].pc = "suspend_selected"
    /\ suspended' = TRUE
    /\ Revoke(job[t].rows)
    /\ revokedOnce' = revokedOnce \cup {token[k].family : k \in job[t].rows}
    /\ Finish(t)
    /\ UNCHANGED <<otp, otpEnabled, parent, raced>>

Unsuspend ==
    /\ suspended
    /\ suspended' = FALSE
    /\ UNCHANGED <<token, otp, otpEnabled, job, history>>

(***************************************************************************)
(* The clock and the process.                                              *)
(***************************************************************************)
\* Every token lives as long, so a token expires after the one it replaced.
TokenExpires(k) ==
    /\ Issued(k)
    /\ ~token[k].expired
    /\ parent[k] # None => token[parent[k]].expired
    /\ token' = [token EXCEPT ![k] = [@ EXCEPT !.expired = TRUE]]
    /\ UNCHANGED <<suspended, otp, otpEnabled, job, history>>

OtpExpires ==
    /\ otp
    /\ otp' = FALSE
    /\ UNCHANGED <<token, suspended, otpEnabled, job, history>>

Crash ==
    /\ \E t \in Threads : job[t].pc # "idle"
    /\ job' = [t \in Threads |-> Idle]
    /\ UNCHANGED <<rows, history>>

Init ==
    /\ token = [k \in Tokens |-> Unissued]
    /\ suspended = FALSE
    /\ otp = FALSE
    /\ otpEnabled \in BOOLEAN
    /\ job = [t \in Threads |-> Idle]
    /\ parent = [k \in Tokens |-> None]
    /\ revokedOnce = {}
    /\ raced = {}

Next ==
    \/ \E t \in Threads :
        \/ LoginLoad(t) \/ LoginIssue(t) \/ LoginChallenge(t)
        \/ ChallengeLoad(t) \/ ChallengeSpend(t) \/ ChallengeIssue(t)
        \/ RotateCommit(t)
        \/ RevokeSelect(t) \/ RevokeCommit(t)
        \/ SuspendLoad(t) \/ SuspendSelect(t) \/ SuspendCommit(t)
        \/ \E k \in Tokens : RotateLoad(t, k) \/ ReuseLoad(t, k) \/ LogoutLoad(t, k)
    \/ \E k \in Tokens : TokenExpires(k)
    \/ Unsuspend
    \/ OtpExpires
    \/ Crash

Spec == Init /\ [][Next]_vars

-----------------------------------------------------------------------------
(***************************************************************************)
(* Safety.                                                                 *)
(***************************************************************************)
Row == [family : Families \cup {None}, used : BOOLEAN, revoked : BOOLEAN, expired : BOOLEAN]
Job == [pc : PCs, token : Tokens \cup {None}, rows : SUBSET Tokens]

TypeOK ==
    /\ token \in [Tokens -> Row]
    /\ suspended \in BOOLEAN
    /\ otp \in BOOLEAN
    /\ otpEnabled \in BOOLEAN
    /\ job \in [Threads -> Job]
    /\ parent \in [Tokens -> Tokens \cup {None}]
    /\ \A k \in Tokens : parent[k] # None => /\ token[parent[k]].used
                                             /\ token[k].family = token[parent[k]].family
                                             /\ Issued(k)
    /\ revokedOnce \subseteq Families
    /\ raced \subseteq Families

\* A refresh token is rotated at most once by each thread that read it before
\* the first of them committed: once if requests come one at a time, never more
\* often than there are threads.  evaluate_refresh and RefreshToken.used_at.
Successors(k) == {n \in Tokens : parent[n] = k}
RotationsBounded == \A k \in Tokens : Cardinality(Successors(k)) <= Cardinality(Threads)

\* After a logout, a detected reuse or a suspension has committed, no token of
\* the families it revoked is good again, except where a rotation overlapped
\* the revocation.  _revoke_family against refresh.
RevocationIsFinal ==
    \A f \in revokedOnce \ raced : \A k \in Tokens : token[k].family = f => ~Live(k)
=============================================================================
