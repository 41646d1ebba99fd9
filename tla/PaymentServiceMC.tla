-------------------------- MODULE PaymentServiceMC --------------------------
(***************************************************************************)
(* Small instances of PaymentService.                                      *)
(***************************************************************************)
EXTENDS PaymentService, TLC

Symmetry == Permutations(Proc) \cup Permutations(Token) \cup Permutations(RawData)
=============================================================================
