------------------------------ MODULE MCDrccp ------------------------------
EXTENDS Drccp

\* Two nodes; n1 can be reached under a second name.
MCListen == [n \in Node |-> IF n = "n1" THEN "a1" ELSE "a2"]
MCResolve == [a \in Name |-> IF a = "a2" THEN "n2" ELSE "n1"]
=============================================================================
