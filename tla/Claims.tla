------------------------------- MODULE Claims -------------------------------
(***************************************************************************)
(* Claim packages (claims/service.py) beside the change events they rest   *)
(* on.  A claim is drafted, submitted when its chain to a confirmed event  *)
(* and that event's baseline is intact and its amount is approved,         *)
(* answered, negotiated and settled.  A request loads the row, decides,    *)
(* and commits; a thread serves one request, of either module.             *)
(***************************************************************************)
EXTENDS ChangeEvents

CONSTANTS ClaimIds,
          Amounts,   \* claim_amount_minor
          Approved,  \* the amounts the approval matrix lets through
          Terminal   \* the statuses a settlement can leave a claim in

ASSUME AmountsAssumption == Approved \subseteq Amounts /\ Amounts # {}
ASSUME ClaimIdsAssumption == None \notin ClaimIds
ASSUME TerminalAssumption == Terminal \subseteq {"settled", "withdrawn", "disputed"}

VARIABLES
    claim,    \* claims and claim_settlements
    desk,     \* what each thread is doing with which claim
    agreed,   \* history: the amount that was approved for submission
    crossed   \* history: claims two requests had loaded at one time

claimVars == <<claim, desk, agreed, crossed>>

ClaimStatuses == {"none", "draft", "submitted", "under_review", "negotiated"} \cup Terminal
DeskPCs == {"idle", "updating", "submitting", "checked", "answering", "settling"}

AnAmount == CHOOSE a \in Amounts : TRUE
NoClaim == [status |-> "none", event |-> None, baseline |-> 0, amount |-> AnAmount,
            submitted |-> FALSE, settlement |-> "none"]

\* status: what to write ("none": what was loaded); amount: loaded or to write
NoDesk == [pc |-> "idle", claim |-> None, status |-> "none", amount |-> AnAmount]

Free(t) == desk[t] = NoDesk /\ job[t] = Idle
Leave(t) == desk' = [desk EXCEPT ![t] = NoDesk]
Stored(t) == claim[desk[t].claim]

OpenClaim(t, c, pc, status, amount) ==
    /\ Free(t)
    /\ claim[c].status # "none"
    /\ desk' = [desk EXCEPT ![t] =
                  [pc |-> pc, claim |-> c, amount |-> amount,
                   status |-> IF status = claim[c].status THEN "none" ELSE status]]
    /\ crossed' = IF \E s \in Threads : desk[s].claim = c THEN crossed \cup {c} ELSE crossed
    /\ UNCHANGED <<claim, agreed>>

\* (mutant) a status that did not change is written all the same
WrittenAlways(t) == desk[t].status

Written(t) == IF desk[t].status = "none" THEN Stored(t).status ELSE desk[t].status

(***************************************************************************)
(* create_claim: the baseline is the event's unless the request names one. *)
(***************************************************************************)
CreateClaim(c, e, named, amount) ==
    /\ claim[c].status = "none"
    /\ e # None => event[e].status # "none"
    /\ claim' = [claim EXCEPT ![c] =
                    [NoClaim EXCEPT !.status = "draft", !.event = e, !.amount = amount,
                       !.baseline = IF named = 0 /\ e # None THEN event[e].baseline ELSE named]]
    /\ UNCHANGED <<desk, agreed, crossed>>

(***************************************************************************)
(* update_claim and submit_claim.                                          *)
(***************************************************************************)
\* (mutant) a claim may be edited until it is settled
EditableSubmitted(c) == claim[c].status \in {"draft", "submitted"}

Editable(c) == claim[c].status = "draft"

UpdateLoad(t, c, amount) ==
    /\ Editable(c)
    /\ amount # claim[c].amount
    /\ OpenClaim(t, c, "updating", claim[c].status, amount)

UpdateCommit(t) ==
    /\ desk[t].pc = "updating"
    /\ claim' = [claim EXCEPT ![desk[t].claim] = [@ EXCEPT !.amount = desk[t].amount]]
    /\ Leave(t)
    /\ UNCHANGED <<agreed, crossed>>

SubmitLoad(t, c) ==
    /\ claim[c].status = "draft"
    /\ OpenClaim(t, c, "submitting", "submitted", claim[c].amount)

\* (mutant) the event's status is not looked at
ChainIntactAnyStatus(row) ==
    /\ row.event # None
    /\ row.baseline \in 1..baseline
    /\ event[row.event].baseline = row.baseline

\* chain_integrity
ChainIntact(row) ==
    /\ row.event # None
    /\ row.baseline \in 1..baseline
    /\ event[row.event].baseline = row.baseline
    /\ event[row.event].status = "confirmed"

SubmitCheck(t) ==
    /\ desk[t].pc = "submitting"
    /\ IF ChainIntact(Stored(t)) /\ desk[t].amount \in Approved
       THEN desk' = [desk EXCEPT ![t] = [@ EXCEPT !.pc = "checked"]]
       ELSE Leave(t)
    /\ UNCHANGED <<claim, agreed, crossed>>

SubmitCommit(t) ==
    /\ desk[t].pc = "checked"
    /\ claim' = [claim EXCEPT ![desk[t].claim] = [@ EXCEPT !.status = Written(t),
                                                           !.submitted = TRUE]]
    /\ agreed' = [agreed EXCEPT ![desk[t].claim] = desk[t].amount]
    /\ Leave(t)
    /\ UNCHANGED <<crossed>>

(***************************************************************************)
(* record_response and record_negotiation, of a claim in any status.       *)
(***************************************************************************)
AfterResponse(status) == IF status = "submitted" THEN "under_review" ELSE status

RespondLoad(t, c) ==
    OpenClaim(t, c, "answering", AfterResponse(claim[c].status), AnAmount)

AfterNegotiation(status) ==
    IF status \in {"submitted", "under_review"} THEN "negotiated" ELSE status

NegotiateLoad(t, c) ==
    OpenClaim(t, c, "answering", AfterNegotiation(claim[c].status), AnAmount)

AnswerCommit(t) ==
    /\ desk[t].pc = "answering"
    /\ claim' = [claim EXCEPT ![desk[t].claim] = [@ EXCEPT !.status = Written(t)]]
    /\ Leave(t)
    /\ UNCHANGED <<agreed, crossed>>

(***************************************************************************)
(* record_settlement, of a claim in any status.  The settlement's unique   *)
(* claim_id rolls back a second one.                                       *)
(***************************************************************************)
SettleLoad(t, c, status) ==
    /\ claim[c].settlement = "none"
    /\ OpenClaim(t, c, "settling", status, AnAmount)

SettleCommit(t) ==
    /\ desk[t].pc = "settling"
    /\ claim' = IF Stored(t).settlement # "none" THEN claim
                ELSE [claim EXCEPT ![desk[t].claim] =
                        [@ EXCEPT !.status = Written(t), !.settlement = desk[t].status]]
    /\ Leave(t)
    /\ UNCHANGED <<agreed, crossed>>

CrashBoth ==
    /\ \E t \in Threads : ~Free(t)
    /\ job' = [t \in Threads |-> Idle]
    /\ desk' = [t \in Threads |-> NoDesk]
    /\ UNCHANGED <<event, last, inbound, baseline, paid, claim, agreed, crossed>>

ClaimsInit ==
    /\ Init
    /\ claim = [c \in ClaimIds |-> NoClaim]
    /\ desk = [t \in Threads |-> NoDesk]
    /\ agreed = [c \in ClaimIds |-> AnAmount]
    /\ crossed = {}

ClaimRequest(t) ==
    \/ \E c \in ClaimIds :
        \/ \E amount \in Amounts : UpdateLoad(t, c, amount)
        \/ \E status \in Terminal : SettleLoad(t, c, status)
        \/ SubmitLoad(t, c) \/ RespondLoad(t, c) \/ NegotiateLoad(t, c)
    \/ UpdateCommit(t) \/ SubmitCheck(t) \/ SubmitCommit(t)
    \/ AnswerCommit(t) \/ SettleCommit(t)

NewClaim ==
    \E c \in ClaimIds, e \in Events \cup {None}, named \in 0..baseline, amount \in Amounts :
        CreateClaim(c, e, named, amount)

ClaimsNext ==
    \/ \E t \in Threads : desk[t] = NoDesk /\ Request(t) /\ UNCHANGED claimVars
    \/ Surroundings /\ UNCHANGED claimVars
    \/ \E t \in Threads : ClaimRequest(t) /\ UNCHANGED eventVars
    \/ NewClaim /\ UNCHANGED eventVars
    \/ CrashBoth

ClaimsSpec == ClaimsInit /\ [][ClaimsNext]_<<eventVars, claimVars>>

-----------------------------------------------------------------------------
(***************************************************************************)
(* Safety.                                                                 *)
(***************************************************************************)
ClaimRow == [status : ClaimStatuses, event : Events \cup {None}, baseline : Nat,
             amount : Amounts, submitted : BOOLEAN, settlement : Terminal \cup {"none"}]
Desk == [pc : DeskPCs, claim : ClaimIds \cup {None}, status : ClaimStatuses, amount : Amounts]

ClaimsTypeOK ==
    /\ TypeOK
    /\ claim \in [ClaimIds -> ClaimRow]
    /\ \A c \in ClaimIds : claim[c].status = "none" => claim[c] = NoClaim
    /\ desk \in [Threads -> Desk]
    /\ \A t \in Threads : job[t] = Idle \/ desk[t] = NoDesk
    /\ agreed \in [ClaimIds -> Amounts]
    /\ crossed \subseteq ClaimIds

\* What rests on a change rests on a person's word that it is one: a confirmed
\* event, a notice deadline, and a claim that was submitted - which also names
\* the baseline of its event - however requests of the two modules interleave.
\* chain_integrity, record_confirmation.
Backed ==
    /\ ConfirmedByPerson
    /\ \A c \in ClaimIds : claim[c].submitted =>
        /\ claim[c].event # None
        /\ event[claim[c].event].changed
        /\ event[claim[c].event].baseline = claim[c].baseline

\* Of a claim whose requests came one at a time: what was approved at submission
\* is what it still claims, and a settlement is the last word on its status.
\* update_claim, submit_claim, record_response, record_settlement.
ClaimStands ==
    \A c \in ClaimIds \ crossed :
        /\ claim[c].submitted => claim[c].amount = agreed[c]
        /\ claim[c].settlement # "none" => claim[c].status = claim[c].settlement
=============================================================================
