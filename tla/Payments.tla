------------------------------ MODULE Payments ------------------------------
(***************************************************************************)
(* Checkouts and payment webhooks of one user account: coupon uses taken   *)
(* by checkout requests, orders handed to a payment provider, the events   *)
(* the provider sends, and what the webhook endpoints do with them.        *)
(*                                                                         *)
(* Checkout handlers run in threads and interleave at every read and       *)
(* commit.  The webhook handlers are coroutines that never await between   *)
(* reading the body and committing, and their idempotency marker is under  *)
(* a unique constraint, so a delivery is one step; a server that dies      *)
(* before the commit leaves no trace and the provider delivers again.      *)
(***************************************************************************)
EXTENDS Integers, FiniteSets

CONSTANTS
    Checkouts,      \* checkout requests
    Kinds,          \* what they may buy
    Providers,      \* the payment providers in use
    MaxUses,        \* max_uses of the coupon
    OtherTypes,     \* event types besides the payment itself
    Identified,     \* the providers whose event bodies carry a top-level id
    MaxRepeats      \* bound: times one event without an id takes effect

\* (mutant) the handler waits for an event type it does not know
PaidTypeCaptured(provider) ==
    IF provider = "razorpay" THEN "payment.captured" ELSE "checkout.session.completed"

PaidType(provider) ==
    IF provider = "razorpay" THEN "order.paid" ELSE "checkout.session.completed"

SubscriptionTypes ==
    {"subscription.activated", "subscription.charged", "subscription.cancelled"}

ASSUME CheckoutsAssumption == IsFiniteSet(Checkouts)

ASSUME KindsAssumption ==
    Kinds \subseteq {"paygo", "subscription", "project_activation"} /\ Kinds # {}

ASSUME ProvidersAssumption ==
    Providers \subseteq {"razorpay", "stripe"} /\ Providers # {}

ASSUME TypesAssumption == OtherTypes \subseteq SubscriptionTypes \cup {"payment.failed"}

ASSUME MaxUsesAssumption == MaxUses \in Nat

ASSUME IdentifiedAssumption ==
    Identified \subseteq Providers /\ MaxRepeats \in Nat \ {0}

Types == {"order.paid", "checkout.session.completed"} \cup OtherTypes

Events == [checkout : Checkouts, type : Types]

VARIABLES
    coupon,     \* the coupons row: [active, uses]
    order,      \* each checkout request and the order it created; inr: quoted
                \* in rupees (told apart for project activations only, as the
                \* code does)
    seen,       \* uses_count as each checkout loaded it
    sent,       \* events the provider has sent at least once
    claimed,    \* webhook_events rows
    acked,      \* events answered with 200
    plan,       \* the account's plan
    active,     \* the project's subscription is active
    credits,    \* review_paid usage rows, per checkout
    invoices,   \* paid invoices, per checkout
    times       \* observation: how often each event took effect

checkoutVars == <<coupon, order, seen>>
webhookVars == <<claimed, acked>>
effectVars == <<plan, active, credits, invoices, times>>
vars == <<coupon, order, seen, sent, claimed, acked,
          plan, active, credits, invoices, times>>

States == {"new", "validated", "use_taken", "rejected", "crashed", "ordered", "paid"}

TypeOK ==
    /\ coupon \in [active : BOOLEAN, uses : Nat]
    /\ order \in [Checkouts -> [state : States, kind : Kinds,
                                provider : Providers, coupon : BOOLEAN,
                                inr : BOOLEAN]]
    /\ seen \in [Checkouts -> Nat]
    /\ sent \subseteq Events
    /\ claimed \subseteq Events
    /\ acked \subseteq Events
    /\ plan \in {"free", "pro"}
    /\ active \in BOOLEAN
    /\ credits \in [Checkouts -> Nat]
    /\ invoices \in [Checkouts -> Nat]
    /\ times \in [Events -> Nat]

Init ==
    /\ coupon = [active |-> TRUE, uses |-> 0]
    /\ order \in [Checkouts -> [state : {"new"}, kind : Kinds,
                                provider : Providers, coupon : BOOLEAN,
                                inr : BOOLEAN]]
    /\ \A c \in Checkouts : order[c].inr \/ order[c].kind = "project_activation"
    /\ seen = [c \in Checkouts |-> 0]
    /\ sent = {} /\ claimed = {} /\ acked = {}
    /\ plan = "free" /\ active = FALSE
    /\ credits = [c \in Checkouts |-> 0]
    /\ invoices = [c \in Checkouts |-> 0]
    /\ times = [e \in Events |-> 0]

(***************************************************************************)
(* Coupons and checkout requests.                                          *)
(***************************************************************************)

\* (mutant) the use after the last is allowed
CouponValidOffByOne == coupon.active /\ coupon.uses <= MaxUses

\* _validate_coupon, expiry counted with delete_coupon under "active"
CouponValid == coupon.active /\ coupon.uses < MaxUses

\* delete_coupon, or valid_until passes
CouponLapses ==
    /\ coupon.active
    /\ coupon' = [coupon EXCEPT !.active = FALSE]
    /\ UNCHANGED <<order, seen, sent, webhookVars, effectVars>>

Advance(c, from, to) ==
    /\ order[c].state = from
    /\ order' = [order EXCEPT ![c].state = to]
    /\ UNCHANGED <<sent, webhookVars, effectVars>>

\* apply_coupon loads the row and validates it; an invalid coupon is a 400
\* that changes nothing, and so is a checkout that never started
ValidateCoupon(c) ==
    /\ order[c].coupon
    /\ CouponValid
    /\ seen' = [seen EXCEPT ![c] = coupon.uses]
    /\ Advance(c, "new", "validated")
    /\ UNCHANGED coupon

\* ... and commits uses_count + 1, computed from the row it loaded
TakeUse(c) ==
    /\ coupon' = [coupon EXCEPT !.uses = seen[c] + 1]
    /\ Advance(c, "validated", "use_taken")
    /\ UNCHANGED seen

\* the client's amount_minor differs, or the provider is unavailable
RejectCheckout(c) ==
    /\ Advance(c, "use_taken", "rejected")
    /\ UNCHANGED <<coupon, seen>>

CreateOrder(c) ==
    /\ Advance(c, IF order[c].coupon THEN "use_taken" ELSE "new", "ordered")
    /\ UNCHANGED <<coupon, seen>>

CrashCheckout(c) ==
    /\ \/ Advance(c, "validated", "crashed")
       \/ Advance(c, "use_taken", "crashed")
    /\ UNCHANGED <<coupon, seen>>

(***************************************************************************)
(* The customer and the provider (outside the program).                    *)
(***************************************************************************)
Send(c, type) ==
    /\ sent' = sent \cup {[checkout |-> c, type |-> type]}
    /\ UNCHANGED <<coupon, seen, webhookVars, effectVars>>

Pay(c) ==
    /\ order[c].state = "ordered"
    /\ order' = [order EXCEPT ![c].state = "paid"]
    /\ Send(c, PaidType(order[c].provider))

\* the customer's card is refused; the order stays open
PaymentFails(c) ==
    /\ "payment.failed" \in OtherTypes
    /\ order[c].state = "ordered"
    /\ order[c].provider = "razorpay"
    /\ Send(c, "payment.failed")
    /\ UNCHANGED order

SubscriptionEvent(c, type) ==
    /\ type \in OtherTypes
    /\ order[c].state = "paid"
    /\ order[c].provider = "razorpay"
    /\ order[c].kind = "subscription"
    /\ Send(c, type)
    /\ UNCHANGED order

(***************************************************************************)
(* process_razorpay_webhook and process_stripe_webhook, on a delivery of   *)
(* an event.  The provider may deliver any event it sent, in any order and *)
(* any number of times.                                                    *)
(***************************************************************************)
CarriesAmount(e) == e.type \notin {"subscription.activated", "subscription.cancelled"}

\* _valid_amount: the event carries the amount and the currency the order was
\* created with; the discount is worked out again from the coupon as it is now,
\* and an activation is only accepted at the full price and in rupees
AmountValid(e) ==
    LET o == order[e.checkout]
    IN  CarriesAmount(e) =>
            IF o.kind = "project_activation" THEN o.inr /\ ~o.coupon
            ELSE o.coupon => CouponValid

\* (mutant) the marker is claimed before the amount is checked
RefuseAmountMarked(e) ==
    /\ e \in sent
    /\ ~AmountValid(e)
    /\ claimed' = claimed \cup {e}
    /\ UNCHANGED <<checkoutVars, sent, acked, effectVars>>

\* ... answered 400 with an amount_mismatch row in payment_log, which nothing
\* reads again
RefuseAmount(e) ==
    /\ e \in sent
    /\ ~AmountValid(e)
    /\ UNCHANGED vars

Duplicate(e) ==
    /\ e \in sent
    /\ AmountValid(e)
    /\ e \in claimed
    /\ acked' = acked \cup {e}
    /\ UNCHANGED <<checkoutVars, sent, claimed, effectVars>>

\* the effects, by kind and event type
ActivatesProject(e) == order[e.checkout].kind = "project_activation"

\* (mutant) every checkout the customer completed is credited
CreditsReviewAnyKind(e) ==
    /\ ~ActivatesProject(e)
    /\ e.type \in {"order.paid", "checkout.session.completed", "subscription.charged"}

CreditsReview(e) ==
    /\ ~ActivatesProject(e)
    /\ \/ e.type = "order.paid"
       \/ e.type = "checkout.session.completed" /\ order[e.checkout].kind = "paygo"

SetsPlan(e) ==
    \/ e.type \in {"subscription.activated", "subscription.charged"}
    \/ e.type = "checkout.session.completed" /\ order[e.checkout].kind = "subscription"

\* (mutant) the activation of a subscription is invoiced as its charge is
InvoicesActivation(e) == CreditsReview(e) \/ SetsPlan(e)

Invoices(e) ==
    CreditsReview(e) \/ (SetsPlan(e) /\ CarriesAmount(e))

\* (mutant) the marker is only written for events that move money
ApplyEventUnmarked(e) ==
    /\ e \in sent
    /\ AmountValid(e)
    /\ e \notin claimed
    /\ times[e] < MaxRepeats
    /\ claimed' = IF CarriesAmount(e) THEN claimed \cup {e} ELSE claimed
    /\ acked' = acked \cup {e}
    /\ times' = [times EXCEPT ![e] = @ + 1]
    /\ plan' = IF SetsPlan(e) THEN "pro" ELSE plan
    /\ active' = (active \/ ActivatesProject(e))
    /\ credits' = [credits EXCEPT ![e.checkout] = IF CreditsReview(e) THEN @ + 1 ELSE @]
    /\ invoices' = [invoices EXCEPT ![e.checkout] = IF Invoices(e) THEN @ + 1 ELSE @]
    /\ UNCHANGED <<checkoutVars, sent>>

ApplyEvent(e) ==
    /\ e \in sent
    /\ AmountValid(e)
    /\ e \notin claimed
    /\ times[e] < MaxRepeats
    /\ claimed' = IF order[e.checkout].provider \in Identified
                  THEN claimed \cup {e} ELSE claimed
    /\ acked' \in {acked, acked \cup {e}}    \* the answer may be lost
    /\ times' = [times EXCEPT ![e] = @ + 1]
    /\ plan' = IF SetsPlan(e) THEN "pro"
               ELSE IF e.type = "subscription.cancelled" THEN "free" ELSE plan
    /\ active' = (active \/ ActivatesProject(e))
    /\ credits' = [credits EXCEPT ![e.checkout] = IF CreditsReview(e) THEN @ + 1 ELSE @]
    /\ invoices' = [invoices EXCEPT ![e.checkout] = IF Invoices(e) THEN @ + 1 ELSE @]
    /\ UNCHANGED <<checkoutVars, sent>>

Deliver(e) == RefuseAmount(e) \/ Duplicate(e) \/ ApplyEvent(e)

Next ==
    \/ CouponLapses
    \/ \E c \in Checkouts :
        \/ ValidateCoupon(c)
        \/ TakeUse(c)
        \/ RejectCheckout(c)
        \/ CreateOrder(c)
        \/ CrashCheckout(c)
        \/ Pay(c)
        \/ PaymentFails(c)
        \/ \E type \in SubscriptionTypes : SubscriptionEvent(c, type)
    \/ \E e \in Events : Deliver(e)

Spec == Init /\ [][Next]_vars

\* The provider delivers an event until it is acknowledged (nothing else in the
\* system needs fairness: customers and checkouts may stop anywhere).
FairSpec == Spec /\ \A e \in Events : WF_vars(Deliver(e) /\ e \notin acked)

-----------------------------------------------------------------------------
(***************************************************************************)
(* What the webhooks promise.                                              *)
(***************************************************************************)
Ledger == INSTANCE PaymentLedger WITH emitted <- sent,
                                      applied <- times,
                                      acknowledged <- acked

\* Deliveries in any order, any number of times: each event takes effect at
\* most once and is acknowledged only once it did (A2, A6, B12).
LedgerSpec == Ledger!LedgerSpec

PaidFor(kind) ==
    \E c \in Checkouts : order[c].state = "paid" /\ order[c].kind = kind

\* B20a: a payment event must represent a transfer of funds to activate a
\* project: the project is active only if some checkout for it was paid.
ProjectPaidFor == active => PaidFor("project_activation")

\* What activated a project: an event of an order at the full price in rupees,
\* which was paid or whose payment failed.
ProjectAccounted ==
    active => \E e \in Events :
        LET o == order[e.checkout]
        IN  /\ times[e] > 0
            /\ o.kind = "project_activation" /\ o.inr /\ ~o.coupon
            /\ o.state = "paid" \/ e.type = "payment.failed"

\* B3, B10, over every type of event and in any order of delivery: a plan, a
\* credit or an invoice is there only if it was paid for, each purchase credits
\* one review at most, and a failed payment gives nothing but an activation.
NothingUnpaid ==
    /\ ProjectAccounted
    /\ plan # "free" => PaidFor("subscription")
    /\ \A c \in Checkouts :
        /\ credits[c] + invoices[c] > 0 => order[c].state = "paid"
        /\ credits[c] <= 1

MoneyTypes == {"order.paid", "checkout.session.completed", "subscription.charged"}

\* Every transfer of money claimed for a review or a subscription has one paid
\* invoice, and no other event has: charges and activations delivered twice or
\* out of order, or again after a lost answer, neither double an invoice nor
\* lose one.
MoneyInvoicedOnce ==
    \A c \in Checkouts :
        order[c].kind # "project_activation" =>
            invoices[c] = Cardinality({e \in claimed : e.checkout = c /\ e.type \in MoneyTypes})

TookUse(c) ==
    /\ order[c].coupon
    /\ order[c].state \in {"use_taken", "rejected", "crashed", "ordered", "paid"}

\* uses_count never exceeds max_uses nor the checkouts that committed a use,
\* although threads overwrite each other's count.
UsesCounted ==
    /\ coupon.uses <= MaxUses
    /\ coupon.uses <= Cardinality({c \in Checkouts : TookUse(c)})

\* The price is one the webhook accepts, with the coupon as it is now.
PriceAccepted(c) ==
    LET o == order[c]
    IN  /\ o.kind = "project_activation" => o.inr /\ ~o.coupon
        /\ o.coupon => CouponValid

\* A payment whose price is acceptable from some moment on takes effect in the
\* end, whatever was refused, lost or delivered before: at the list price every
\* payment but that of an activation in another currency, with a coupon every
\* one but those whose coupon has lapsed or is used up.
PaidTakesEffect ==
    \A c \in Checkouts :
        <>[](order[c].state = "paid" /\ PriceAccepted(c))
            => <>(times[[checkout |-> c, type |-> PaidType(order[c].provider)]] > 0)
=============================================================================
