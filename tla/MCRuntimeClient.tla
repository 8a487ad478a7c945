---------------------------- MODULE MCRuntimeClient ----------------------------
(* A trace of a root span and a child, either of which may have begun before *)
(* the client. A user works within the root span or outside of it, and the   *)
(* child may start in its context.                                           *)
EXTENDS RuntimeClient

CONSTANTS root, child, user, run1, t1

MCSpans == {root, child}
MCUsers == {user}
MCTrace == [s \in MCSpans |-> t1]
MCParent == [s \in MCSpans |-> IF s = root THEN NoSpan ELSE root]
MCUnder == [s \in MCSpans |-> IF s = child THEN user ELSE NoUser]
MCWithin == [u \in MCUsers |-> root]
MCName == [u \in MCUsers |-> run1]
===============================================================================
