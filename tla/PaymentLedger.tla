---------------------------- MODULE PaymentLedger ----------------------------
(***************************************************************************)
(* What the webhook endpoints promise the payment provider and the         *)
(* accounts: a payment event takes effect at most once, and it is          *)
(* acknowledged only after it took effect.  Payments implements this.      *)
(***************************************************************************)
EXTENDS Naturals

CONSTANT Events     \* the payment events a provider can send

VARIABLES
    emitted,        \* events the provider has sent
    applied,        \* how many times each event took effect
    acknowledged    \* events answered with success

ledger == <<emitted, applied, acknowledged>>

LedgerInit ==
    /\ emitted = {}
    /\ applied = [e \in Events |-> 0]
    /\ acknowledged = {}

Emit(e) ==
    /\ emitted' = emitted \cup {e}
    /\ UNCHANGED <<applied, acknowledged>>

Apply(e) ==
    /\ e \in emitted
    /\ applied[e] = 0
    /\ applied' = [applied EXCEPT ![e] = 1]
    /\ acknowledged' \in {acknowledged, acknowledged \cup {e}}
    /\ UNCHANGED emitted

Acknowledge(e) ==
    /\ applied[e] = 1
    /\ acknowledged' = acknowledged \cup {e}
    /\ UNCHANGED <<emitted, applied>>

LedgerNext == \E e \in Events : Emit(e) \/ Apply(e) \/ Acknowledge(e)

LedgerSpec == LedgerInit /\ [][LedgerNext]_ledger
=============================================================================
