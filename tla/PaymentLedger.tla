---------------------------- MODULE PaymentLedger ----------------------------
(***************************************************************************)
(* What the payment service promises: a ledger of payments.  Every charge  *)
(* is a new payment; what was paid for never changes and a canceled        *)
(* payment is never revived.  The ledger may be wiped as a whole; a cancel *)
(* that was under way then may bring its payment back, as a canceled one.  *)
(***************************************************************************)
EXTENDS Naturals

CONSTANT Data           \* what a payment is made for, or with

VARIABLES ledger,       \* function: payment id -> [data, canceled]
          issued        \* payment ids handed out so far

ledgerVars == <<ledger, issued>>

LedgerInit == ledger = [k \in {} |-> {}] /\ issued = 0

Charge(d) ==
  /\ issued' = issued + 1
  /\ ledger' = [k \in DOMAIN ledger \cup {issued + 1} |->
                  IF k = issued + 1 THEN [data |-> d, canceled |-> FALSE] ELSE ledger[k]]

Cancel(S) ==
  /\ ledger' = [k \in DOMAIN ledger |->
                  IF k \in S THEN [data |-> ledger[k].data, canceled |-> TRUE] ELSE ledger[k]]
  /\ UNCHANGED issued

Return(k, d) ==
  /\ k \in 1 .. issued /\ k \notin DOMAIN ledger
  /\ ledger' = [j \in DOMAIN ledger \cup {k} |->
                  IF j = k THEN [data |-> d, canceled |-> TRUE] ELSE ledger[j]]
  /\ UNCHANGED issued

Wipe == ledger' = [k \in {} |-> {}] /\ UNCHANGED issued

LedgerNext == \/ \E d \in Data : Charge(d) \/ \E k \in 1 .. issued : Return(k, d)
              \/ \E S \in SUBSET DOMAIN ledger : Cancel(S)
              \/ Wipe

LedgerSpec == LedgerInit /\ [][LedgerNext]_ledgerVars

=============================================================================
