----------------------------- MODULE AddrCache -----------------------------
(***************************************************************************)
(* Lifecycle of scamper_addr_t values and of the interning cache           *)
(* scamper_addrcache_t (src/scamper/scamper_addr.c).                       *)
(*                                                                         *)
(* An address is a heap object with a type (1..4), immutable bytes, a      *)
(* reference count refcnt and a non-owning back pointer internal to the    *)
(* cache that indexes it.  A cache holds one splay tree per type, ordered  *)
(* by that type's byte comparator.  The program is single threaded: every  *)
(* API call is one atomic step.  The caller is modelled by the bag refs of *)
(* the references it holds, each tagged with the key it asked for; it only *)
(* calls scamper_addr_use/free on references it holds and never uses a    *)
(* cache after scamper_addrcache_free (the contract of spec.md section 5). *)
(*                                                                         *)
(* Keys is the set of <<type, bytes>> pairs callers ask for, and TreeCmp   *)
(* the comparator of the splay trees on two keys of one type.  MC_AddrCache *)
(* takes bytes as model values and TreeCmp as byte equality, ignoring the *)
(* type as handlers[type-1].cmp does (the comparators run shows each cmp   *)
(* is zero exactly on equal bytes); MC_AddrCacheBytes takes real bytes and *)
(* TreeCmp from AddrCompare, so the two components are checked together.  *)
(* Heap slots (Addrs, Caches) are reused                                   *)
(* after free, as malloc reuses memory.  Allocation may fail at any time.  *)
(***************************************************************************)
EXTENDS Integers, FiniteSets, Bags, BagsExt, FiniteSetsExt

CONSTANTS
    Addrs,      \* heap slots for scamper_addr_t objects
    Caches,     \* heap slots for scamper_addrcache_t objects
    Keys,       \* <<type, bytes>> pairs an address may be asked for
    NULL,       \* the null pointer
    MaxRef,     \* bound on the references the caller holds to one address
    IntMax,     \* INT_MAX of the int sa->refcnt, scaled down
    TreeCmp(_, _) \* handlers[type-1].cmp on two keys of one type

Types == {k[1] : k \in Keys}
Values == {k[2] : k \in Keys}

ASSUME Types \subseteq 1..4 /\ Types # {}
ASSUME MaxRef \in Nat \ {0} /\ IntMax \in Nat \ {0}

\* Keys of SCAMPER_ADDR_TYPE_IPV4 and _IPV6: what getaddrinfo can produce
IPKeys == {k \in Keys : k[1] \in {1, 2}}

VARIABLES
    live,       \* allocated scamper_addr_t slots
    type,       \* sa->type
    addr,       \* sa->addr (the bytes)
    refcnt,     \* sa->refcnt
    internal,   \* sa->internal: owning cache or NULL
    acLive,     \* allocated scamper_addrcache_t slots
    tree,       \* ac->tree[type-1]: members of each splay tree
    refs,       \* bag of <<address, key asked for>> held by the caller
    ret         \* the last API call and the pointer it returned

vars == <<live, type, addr, refcnt, internal, acLive, tree, refs, ret>>

Key(a) == <<type[a], addr[a]>>

\* sa->refcnt++ on an int: signed overflow is undefined; the builds scamper
\* is compiled with (no -ftrapv) wrap around to INT_MIN.
RefInc(n) == IF n = IntMax THEN -IntMax - 1 ELSE n + 1

\* Number of references to a that the caller holds.
Held(a) == MapThenSumSet(LAMBDA k : CopiesIn(<<a, k>>, refs), Keys)

Init ==
    /\ live = {}
    /\ type = [a \in Addrs |-> CHOOSE t \in Types : TRUE]
    /\ addr = [a \in Addrs |-> CHOOSE v \in Values : TRUE]
    /\ refcnt = [a \in Addrs |-> 0]
    /\ internal = [a \in Addrs |-> NULL]
    /\ acLive = {}
    /\ tree = [c \in Caches |-> [t \in Types |-> {}]]
    /\ refs = EmptyBag
    /\ ret = [fn |-> "none", res |-> NULL]

Return(fn, res) == ret' = [fn |-> fn, res |-> res]

(***************************************************************************)
(* scamper_addr_alloc: malloc the object and memdup the bytes; either may  *)
(* fail (the object is then freed and NULL returned).  A new address has   *)
(* refcnt 1 and no cache.                                                  *)
(***************************************************************************)
NewAddr(a, k, ac) ==
    /\ live' = live \cup {a}
    /\ type' = [type EXCEPT ![a] = k[1]]
    /\ addr' = [addr EXCEPT ![a] = k[2]]
    /\ refcnt' = [refcnt EXCEPT ![a] = 1]
    /\ internal' = [internal EXCEPT ![a] = ac]

AllocAddr(fn, k) ==
    \/ \E a \in Addrs \ live :
          /\ NewAddr(a, k, NULL)
          /\ refs' = BagAdd(refs, <<a, k>>)
          /\ Return(fn, a)
          /\ UNCHANGED <<acLive, tree>>
    \/ /\ Return(fn, NULL)
       /\ UNCHANGED <<live, type, addr, refcnt, internal, acLive, tree, refs>>

AddrAlloc(k) == AllocAddr("addr_alloc", k)

(***************************************************************************)
(* scamper_addr_resolve: getaddrinfo fails, returns nothing, or returns a  *)
(* first IPv4/IPv6 candidate that is passed to scamper_addr_alloc.         *)
(***************************************************************************)
AddrResolve ==
    \/ /\ Return("addr_resolve", NULL)
       /\ UNCHANGED <<live, type, addr, refcnt, internal, acLive, tree, refs>>
    \/ \E k \in IPKeys : AllocAddr("addr_resolve", k)

(***************************************************************************)
(* splaytree_find(ac->tree[type-1], &findme): the tree of the requested    *)
(* type, compared on the bytes by that type's comparator.                  *)
(***************************************************************************)
\* Mutant: the lookup compares bytes in every tree instead of the tree of
\* the requested type.
FindInAnyTree(c, k) ==
    {a \in UNION {tree[c][t] : t \in Types} : TreeCmp(Key(a), k) = 0}

\* Mutant: the comparator compares the type only, no bytes.
FindByTypeOnly(c, k) == tree[c][k[1]]

FindInTree(c, k) == {a \in tree[c][k[1]] : TreeCmp(Key(a), k) = 0}

GetHit(fn, c, k) ==
    \E a \in FindInTree(c, k) :
        /\ Held(a) < MaxRef
        /\ refcnt' = [refcnt EXCEPT ![a] = RefInc(@)]
        /\ refs' = BagAdd(refs, <<a, k>>)
        /\ Return(fn, a)
        /\ UNCHANGED <<live, type, addr, internal, acLive, tree>>

(***************************************************************************)
(* scamper_addrcache_get, miss: allocate, insert into the tree, and only   *)
(* then set sa->internal.  If allocation or splaytree_insert fails the new *)
(* object (internal still NULL) is released with scamper_addr_free, so the *)
(* call returns NULL and leaves no trace.                                  *)
(***************************************************************************)
\* Mutant: the miss path is taken without first searching the tree.
GetMissNoFind(fn, c, k) ==
    \/ \E a \in Addrs \ live :
          /\ NewAddr(a, k, c)
          /\ tree' = [tree EXCEPT ![c][k[1]] = @ \cup {a}]
          /\ refs' = BagAdd(refs, <<a, k>>)
          /\ Return(fn, a)
          /\ UNCHANGED acLive
    \/ /\ Return(fn, NULL)
       /\ UNCHANGED <<live, type, addr, refcnt, internal, acLive, tree, refs>>

\* Mutant: the new object is given its internal pointer but never enters
\* the tree.
GetMissNoInsert(fn, c, k) ==
    /\ FindInTree(c, k) = {}
    /\ \/ \E a \in Addrs \ live :
             /\ NewAddr(a, k, c)
             /\ refs' = BagAdd(refs, <<a, k>>)
             /\ Return(fn, a)
             /\ UNCHANGED <<acLive, tree>>
       \/ /\ Return(fn, NULL)
          /\ UNCHANGED <<live, type, addr, refcnt, internal, acLive, tree, refs>>

GetMiss(fn, c, k) ==
    /\ FindInTree(c, k) = {}
    /\ \/ \E a \in Addrs \ live :
             /\ NewAddr(a, k, c)
             /\ tree' = [tree EXCEPT ![c][k[1]] = @ \cup {a}]
             /\ refs' = BagAdd(refs, <<a, k>>)
             /\ Return(fn, a)
             /\ UNCHANGED acLive
       \/ /\ Return(fn, NULL)
          /\ UNCHANGED <<live, type, addr, refcnt, internal, acLive, tree, refs>>

CacheGet(c, k) ==
    /\ c \in acLive
    /\ \/ GetHit("addrcache_get", c, k)
       \/ GetMiss("addrcache_get", c, k)

(***************************************************************************)
(* scamper_addrcache_resolve: as scamper_addr_resolve, but the first       *)
(* IPv4/IPv6 candidate goes to scamper_addrcache_get.                      *)
(***************************************************************************)
CacheResolve(c) ==
    /\ c \in acLive
    /\ \/ /\ Return("addrcache_resolve", NULL)
          /\ UNCHANGED <<live, type, addr, refcnt, internal, acLive, tree, refs>>
       \/ \E k \in IPKeys :
             \/ GetHit("addrcache_resolve", c, k)
             \/ GetMiss("addrcache_resolve", c, k)

(***************************************************************************)
(* scamper_addr_use: one more reference to an address the caller holds.    *)
(***************************************************************************)
AddrUse(a, k) ==
    /\ BagIn(<<a, k>>, refs)
    /\ Held(a) < MaxRef
    /\ refcnt' = [refcnt EXCEPT ![a] = RefInc(@)]
    /\ refs' = BagAdd(refs, <<a, k>>)
    /\ Return("addr_use", a)
    /\ UNCHANGED <<live, type, addr, internal, acLive, tree>>

\* scamper_addr_use(NULL): the NULL a failed call returned is passed on.
AddrUseNull ==
    /\ Return("addr_use", NULL)
    /\ UNCHANGED <<live, type, addr, refcnt, internal, acLive, tree, refs>>

(***************************************************************************)
(* scamper_addr_free: drop one reference.  assert(sa->refcnt > 0) aborts   *)
(* the program otherwise.  When --refcnt is no longer positive the object  *)
(* is removed from the tree of the cache internal points to, if any, and   *)
(* freed.                                                                  *)
(***************************************************************************)
\* Mutant: the last scamper_addr_free frees the object without
\* splaytree_remove_item.
AddrFreeNoUnlink(a, k) ==
    /\ BagIn(<<a, k>>, refs)
    /\ refs' = BagRemove(refs, <<a, k>>)
    /\ refcnt' = [refcnt EXCEPT ![a] = @ - 1]
    /\ Return("addr_free", NULL)
    /\ \/ /\ refcnt[a] - 1 > 0
          /\ UNCHANGED live
       \/ /\ refcnt[a] - 1 <= 0
          /\ live' = live \ {a}
    /\ UNCHANGED <<type, addr, internal, acLive, tree>>

AddrFree(a, k) ==
    /\ BagIn(<<a, k>>, refs)
    /\ refcnt[a] > 0
    /\ refs' = BagRemove(refs, <<a, k>>)
    /\ refcnt' = [refcnt EXCEPT ![a] = @ - 1]
    /\ Return("addr_free", NULL)
    /\ \/ /\ refcnt[a] - 1 > 0
          /\ UNCHANGED <<live, tree>>
       \/ /\ refcnt[a] - 1 <= 0
          /\ tree' = IF internal[a] # NULL
                       THEN [tree EXCEPT ![internal[a]][type[a]] = @ \ {a}]
                       ELSE tree
          /\ live' = live \ {a}
    /\ UNCHANGED <<type, addr, internal, acLive>>

\* scamper_addr_free(NULL) returns at once.
AddrFreeNull ==
    /\ Return("addr_free", NULL)
    /\ UNCHANGED <<live, type, addr, refcnt, internal, acLive, tree, refs>>

(***************************************************************************)
(* scamper_addrcache_alloc: a zeroed cache with one splay tree per type;   *)
(* if malloc or any splaytree_alloc fails the partial cache is released    *)
(* by scamper_addrcache_free and NULL is returned.                         *)
(***************************************************************************)
CacheAlloc ==
    /\ \/ \E c \in Caches \ acLive :
             /\ acLive' = acLive \cup {c}
             /\ tree' = [tree EXCEPT ![c] = [t \in Types |-> {}]]
             /\ Return("addrcache_alloc", c)
       \/ /\ Return("addrcache_alloc", NULL)
          /\ UNCHANGED <<acLive, tree>>
    /\ UNCHANGED <<live, type, addr, refcnt, internal, refs>>

(***************************************************************************)
(* scamper_addrcache_free: splaytree_free on every tree calls free_cb on   *)
(* each member, which clears its internal pointer; the members themselves  *)
(* stay allocated for the references still held.                           *)
(***************************************************************************)
\* Mutant: splaytree_free is given no callback, internal is left set.
FreeCbNoop(c) == internal

Members(c) == UNION {tree[c][t] : t \in Types}

FreeCb(c) ==
    [a \in Addrs |-> IF a \in Members(c) THEN NULL ELSE internal[a]]

CacheFree(c) ==
    /\ c \in acLive
    /\ internal' = FreeCb(c)
    /\ acLive' = acLive \ {c}
    /\ tree' = [tree EXCEPT ![c] = [t \in Types |-> {}]]
    /\ Return("addrcache_free", NULL)
    /\ UNCHANGED <<live, type, addr, refcnt, refs>>

Next ==
    \/ \E k \in Keys : AddrAlloc(k)
    \/ AddrResolve
    \/ \E c \in Caches, k \in Keys : CacheGet(c, k)
    \/ \E c \in Caches : CacheResolve(c)
    \/ \E a \in Addrs, k \in Keys : AddrUse(a, k)
    \/ \E a \in Addrs, k \in Keys : AddrFree(a, k)
    \/ AddrUseNull
    \/ AddrFreeNull
    \/ CacheAlloc
    \/ \E c \in Caches : CacheFree(c)

Spec == Init /\ [][Next]_vars

-----------------------------------------------------------------------------
(***************************************************************************)
(* Properties.                                                             *)
(***************************************************************************)

\* Interning (scamper_addrcache_get): among the live addresses that belong
\* to one live cache, no two hold the same type and bytes, so repeated gets
\* of one value share one object however gets, frees, cache teardown and
\* slot reuse interleave.
Interning ==
    \A a, b \in live :
        (internal[a] \in acLive /\ internal[a] = internal[b] /\ Key(a) = Key(b))
            => a = b

\* No dangling tree entry (scamper_addr_free, scamper_addrcache_get): every
\* member of a live cache's tree of type t is a live address of type t
\* whose internal pointer names that cache, so splaytree_find never
\* returns freed memory and the assert(sa->internal == ac) of the hit path
\* holds.
NoDanglingEntry ==
    \A c \in acLive, t \in Types, a \in Addrs :
        a \in tree[c][t] => /\ a \in live
                            /\ type[a] = t
                            /\ internal[a] = c

\* No dangling back pointer (scamper_addrcache_free, free_cb,
\* scamper_addr_free): a live address whose internal pointer is set points
\* to a live cache whose tree holds it, so the final scamper_addr_free never
\* removes it from a freed cache, nor from a new cache that reuses the slot.
NoDanglingBackRef ==
    \A a \in live :
        internal[a] # NULL => /\ internal[a] \in acLive
                              /\ a \in tree[internal[a]][type[a]]

\* Reference counting (scamper_addr_use, scamper_addrcache_get,
\* scamper_addr_free): the refcnt of a live address is exactly the number of
\* references the caller holds and is positive, and no reference is held to
\* a freed address: no use after free and no leak.
RefcntExact ==
    \A a \in Addrs :
        IF a \in live THEN refcnt[a] = Held(a) /\ refcnt[a] >= 1
                      ELSE Held(a) = 0

\* A held reference always denotes the type and bytes the caller asked for,
\* even when address slots are freed and reused (scamper_addrcache_get looks
\* in the tree of the requested type only).
HandleIntegrity ==
    \A r \in BagToSet(refs) : Key(r[1]) = r[2]

(***************************************************************************)
(* Refinement of AddrIntern: the splay trees of a live cache, read as a    *)
(* map from key to object, are the abstract interning map; refs is the     *)
(* bag of held references.                                                 *)
(***************************************************************************)
InternedMap ==
    [c \in Caches |-> [k \in Keys |->
        IF c \in acLive /\ FindInTree(c, k) # {}
        THEN CHOOSE a \in FindInTree(c, k) : TRUE ELSE NULL]]

Intern == INSTANCE AddrIntern WITH held <- refs, interned <- InternedMap

\* Every behaviour of the reference-counted, tree-indexed implementation
\* (scamper_addr_alloc/use/free, scamper_addrcache_get/resolve/alloc/free)
\* is a behaviour of AddrIntern: a get returns the cache's shared object
\* while any reference to it is held, and a new object only otherwise.
InternRefinement == Intern!Spec

=============================================================================
