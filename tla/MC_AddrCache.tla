--------------------------- MODULE MC_AddrCache ---------------------------
(***************************************************************************)
(* Model-checking instance of AddrCache: three address slots, two cache    *)
(* slots, IPv4 and Ethernet (two types whose trees must stay separate, one *)
(* of them reachable through getaddrinfo), two byte values.                *)
(***************************************************************************)
EXTENDS AddrCache, TLC

CONSTANTS a1, a2, a3, c1, c2, v1, v2

MCAddrs == {a1, a2, a3}
MCCaches == {c1, c2}
MCTypes == {1, 3}
MCValues == {v1, v2}
MCKeys == MCTypes \X MCValues

\* For the refinement run: one byte value, shared by both types, so that
\* the only keys are the same bytes as IPv4 and as Ethernet.
MCKeysOne == MCTypes \X {v1}

\* For the refinement run with both values: two address slots.
MCAddrsTwo == {a1, a2}

\* handlers[type-1].cmp as the tree sees it: it compares the bytes only
\* (the type is asserted, never compared), and with model-value bytes only
\* its zero, byte equality, is observable.
MCTreeCmp(x, y) == IF x[2] = y[2] THEN 0 ELSE 1

Symmetry == Permutations(MCAddrs) \cup Permutations(MCCaches)
              \cup Permutations(MCValues)
=============================================================================
