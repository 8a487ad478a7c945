----------------------------- MODULE MCRoutePools -----------------------------
(* Two routes over two models of two providers, with two processes that may  *)
(* both run a job while one of them may also serve a setup that waits, an    *)
(* update, all of which may overlap or die, and a request. For the run of    *)
(* SavedIsServed there are two jobs, and neither setups that wait nor        *)
(* updates.                                                                  *)
EXTENDS RoutePools, TLC

CONSTANTS coding, writing_, m1, m2, alpha, beta, j1, j2, s1, s2, u1, q1

MCRoutes == {coding, writing_}
MCModels == {m1, m2}
MCProvider == [m \in MCModels |-> IF m = m2 THEN beta ELSE alpha]
MCRequired == {alpha}
MCExempt == {alpha}
MCJobs == {j1}
MCTwoJobs == {j1, j2}
MCNone == {}
MCSetups == {s1, s2}
MCWaiting == {s1}
MCUpdates == {u1}
MCRequests == {q1}
MCQuality == [m \in MCModels |-> IF m = m1 THEN 3 ELSE 9]
MCRank == [m \in MCModels |-> IF m = m1 THEN 2 ELSE 1]
MCDebit == [m \in MCModels |-> IF m = m1 THEN 1 ELSE 3]
MCSavings == [m \in MCModels |-> 1]
MCSymmetry == Permutations(MCRoutes)
===============================================================================
