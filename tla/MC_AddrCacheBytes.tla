------------------------- MODULE MC_AddrCacheBytes -------------------------
(***************************************************************************)
(* The address cache composed with the comparators: AddrCache whose keys   *)
(* are real IPv4 and IPv6 bytes and whose splay trees find an entry with   *)
(* handlers[type-1].cmp as AddrCompare models it, on a little-endian,      *)
(* non-_WIN32 build, where ipv4_cmp and ipv6_cmp do not follow network     *)
(* byte order.  The values are pairs that byte order sorts differently.   *)
(***************************************************************************)
EXTENDS AddrCache, Sequences, TLC

CONSTANTS a1, a2, a3, c1, c2, LittleEndian

MCAddrs == {a1, a2, a3}
MCCaches == {c1, c2}

Z12 == <<0, 0, 0, 0, 0, 0, 0, 0, 0, 0, 0, 0>>

\* 1.0.0.2 and 2.0.0.1; 1:2:: and 2:1:: (differing within the first word)
MCKeys == {<<1, <<1, 0, 0, 2>>>>, <<1, <<2, 0, 0, 1>>>>,
           <<2, <<0, 1, 0, 2>> \o Z12>>, <<2, <<0, 2, 0, 1>> \o Z12>>}

Cmp == INSTANCE AddrCompare
         WITH Addresses <- {}, le <- LittleEndian, win <- FALSE,
              sa <- NULL, sb <- NULL, same <- FALSE

\* ac->tree[i] is ordered by handlers[i].cmp (scamper_addrcache_alloc):
\* splaytree_find compares findme = <<type, addr>> with each member of the
\* tree of that type by the type's comparator.
BytesTreeCmp(x, y) ==
    Cmp!TypeCmp([type |-> x[1], bytes |-> x[2]], [type |-> y[1], bytes |-> y[2]])

Symmetry == Permutations(MCAddrs) \cup Permutations(MCCaches)
=============================================================================
