----------------------------- MODULE CheckoutMC -----------------------------
(***************************************************************************)
(* Small instances of Checkout.                                            *)
(***************************************************************************)
EXTENDS Checkout, TLC

Symmetry == Permutations(Proc) \cup Permutations(Resv)

(* Behaviours in which no call, statement or COMMIT fails: what goes wrong  *)
(* in them goes wrong by the order of the steps alone.                     *)
NothingFails ==
  \E p \in Proc : \/ \E i \in DOMAIN rows : PayFind(p, i) \/ CancelFind(p, i)
                  \/ Advance(p)
FailureFreeSpec == Init /\ [][NothingFails]_vars
=============================================================================
