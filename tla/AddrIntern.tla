----------------------------- MODULE AddrIntern -----------------------------
(***************************************************************************)
(* What the address API promises its caller, without reference counts,    *)
(* splay trees or back pointers (spec.md sections 3 and 4.2).             *)
(*                                                                         *)
(* The caller holds a bag of references, each an object and the type and  *)
(* bytes it asked for.  An object exists exactly while some reference to  *)
(* it is held.  Each live cache maps a key to at most one object, which   *)
(* is then the object every get of that key returns; the entry disappears *)
(* with the last reference to the object or with the cache.  Any call     *)
(* that allocates may instead fail and return NULL.                        *)
(***************************************************************************)
EXTENDS Naturals, Bags, BagsExt, FiniteSetsExt

CONSTANTS Addrs, Caches, Keys, NULL, MaxRef

\* keys getaddrinfo can produce: IPv4 and IPv6
IPKeys == {k \in Keys : k[1] \in {1, 2}}

VARIABLES
    held,       \* bag of <<object, key>>: the references the caller holds
    acLive,     \* live caches
    interned,   \* interned[c][k]: the object cache c returns for k, or NULL
    ret         \* the last call and what it returned

vars == <<held, acLive, interned, ret>>

NoEntries == [k \in Keys |-> NULL]

Refs(a) == MapThenSumSet(LAMBDA k : CopiesIn(<<a, k>>, held), Keys)

\* An object nobody holds and no cache returns: free memory.
Fresh(a) == Refs(a) = 0 /\ \A c \in Caches, k \in Keys : interned[c][k] # a

Init ==
    /\ held = EmptyBag
    /\ acLive = {}
    /\ interned = [c \in Caches |-> NoEntries]
    /\ ret = [fn |-> "none", res |-> NULL]

Return(fn, res) == ret' = [fn |-> fn, res |-> res]

Fail(fn) ==
    /\ Return(fn, NULL)
    /\ UNCHANGED <<held, acLive, interned>>

\* A new object not indexed by any cache.
Alloc(fn, k) ==
    \E a \in Addrs :
        /\ Fresh(a)
        /\ held' = BagAdd(held, <<a, k>>)
        /\ Return(fn, a)
        /\ UNCHANGED <<acLive, interned>>

\* The cache's object for k, shared, or a new one it now returns for k.
Get(fn, c, k) ==
    /\ c \in acLive
    /\ IF interned[c][k] # NULL
       THEN LET a == interned[c][k]
            IN /\ Refs(a) < MaxRef
               /\ held' = BagAdd(held, <<a, k>>)
               /\ Return(fn, a)
               /\ UNCHANGED interned
       ELSE \E a \in Addrs :
               /\ Fresh(a)
               /\ held' = BagAdd(held, <<a, k>>)
               /\ interned' = [interned EXCEPT ![c][k] = a]
               /\ Return(fn, a)
    /\ UNCHANGED acLive

Use(a, k) ==
    /\ BagIn(<<a, k>>, held)
    /\ Refs(a) < MaxRef
    /\ held' = BagAdd(held, <<a, k>>)
    /\ Return("addr_use", a)
    /\ UNCHANGED <<acLive, interned>>

\* Dropping the last reference to an object removes it from its cache.
Release(a, k) ==
    /\ BagIn(<<a, k>>, held)
    /\ held' = BagRemove(held, <<a, k>>)
    /\ interned' = IF Refs(a) = 1
                     THEN [c \in Caches |-> [j \in Keys |->
                             IF interned[c][j] = a THEN NULL ELSE interned[c][j]]]
                     ELSE interned
    /\ Return("addr_free", NULL)
    /\ UNCHANGED acLive

NewCache ==
    \E c \in Caches \ acLive :
        /\ acLive' = acLive \cup {c}
        /\ interned' = [interned EXCEPT ![c] = NoEntries]
        /\ Return("addrcache_alloc", c)
        /\ UNCHANGED held

\* Destroying a cache forgets its entries; the objects stay held.
DropCache(c) ==
    /\ c \in acLive
    /\ acLive' = acLive \ {c}
    /\ interned' = [interned EXCEPT ![c] = NoEntries]
    /\ Return("addrcache_free", NULL)
    /\ UNCHANGED held

Next ==
    \/ \E k \in Keys : Alloc("addr_alloc", k) \/ Fail("addr_alloc")
    \/ \E k \in IPKeys : Alloc("addr_resolve", k)
    \/ Fail("addr_resolve")
    \/ \E c \in Caches, k \in Keys : Get("addrcache_get", c, k)
    \/ \E c \in acLive : Fail("addrcache_get")
    \/ \E c \in Caches, k \in IPKeys : Get("addrcache_resolve", c, k)
    \/ \E c \in acLive : Fail("addrcache_resolve")
    \/ \E a \in Addrs, k \in Keys : Use(a, k) \/ Release(a, k)
    \/ Fail("addr_use") \/ Fail("addr_free")   \* called on NULL
    \/ NewCache \/ Fail("addrcache_alloc")
    \/ \E c \in Caches : DropCache(c)

Spec == Init /\ [][Next]_vars

=============================================================================
