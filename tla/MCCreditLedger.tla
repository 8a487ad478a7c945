---------------------------- MODULE MCCreditLedger ----------------------------
(* CreditLedger for TLC.                                                   *)
EXTENDS CreditLedger, TLC

WorkerSymmetry == Permutations(Workers)
===============================================================================
