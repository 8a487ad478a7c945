---------------------------- MODULE MCHermesPlugin ----------------------------
(* A call of the plugin, which another holder of its token posts too, and    *)
(* one that the API executes. Their spends need not be multiples of the      *)
(* grain, and a budget may do for one of them only.                          *)
EXTENDS HermesPlugin

CONSTANTS c1, c2

MCCalls == {c1, c2}
MCServed == {c2}
MCBudgets == {4, 6}
MCSpends == {3, 4}
===============================================================================
