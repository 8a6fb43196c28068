---------------------------- MODULE MCFederation ----------------------------
(***************************************************************************)
(* Small hosts for module Federation.                                      *)
(***************************************************************************)
EXTENDS Federation

CONSTANTS z1, z2, z3, a1, a2, a3, a4, p, l1, l2, h1, h2

\* One workspace, restarted and cleaned.
OneChain == [z \in Zordon |-> <<l1>>]
OneHome == [a \in Alpha |-> l1]

\* Two projects under a parent, whose Alphasfile was edited in between.
TwoChains == [z \in Zordon |-> IF z = z1 THEN <<p, l1>> ELSE <<p, l2>>]
TwoHashes == [z \in Zordon |-> [w \in Workspace |-> IF z # z1 /\ w = p THEN h2 ELSE h1]]
TwoHomes == [a \in Alpha |-> CASE a = a3 -> l1 [] a = a4 -> l2 [] OTHER -> p]

\* Nobody edited the parent's Alphasfile.
SameHashes == [z \in Zordon |-> [w \in Workspace |-> h1]]
==============================================================================
