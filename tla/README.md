# TLA+ models of scamper's address value and address cache

This directory holds TLA+ models of `src/scamper/scamper_addr.c`. They
are checked with TLC. The source has three parts.

- **Address value.** A `scamper_addr_t` is a type tag (1..4 for IPv4,
  IPv6, Ethernet and FireWire), its owned bytes, a reference count
  `refcnt`, and a non-owning back pointer `internal` to the cache that
  indexes it.
- **Kind operation table.** `handlers[]` holds the comparators, the
  prefix and mask algorithms and the classifiers, all built on the mask
  tables `uint32_netmask` and `uint32_hostmask`.
- **Address cache.** `scamper_addrcache_t` has one splay tree per type
  and interns addresses. It is reached through `scamper_addrcache_get`,
  `scamper_addrcache_resolve` and `scamper_addrcache_free`, and its
  back pointers are cleared by `free_cb`.

The parts interact through the back pointer. `scamper_addr_free` of the
last reference goes through `internal` to remove the address from its
cache's tree. `scamper_addrcache_free` goes the other way: it clears
`internal` on every member that is still held. The trees are ordered by
the `cmp` handlers, so the comparators are what decides whether two
values are "the same" in a cache.

The program is single-threaded (spec.md section 5), so every API call is
one atomic step. The caller is the only actor. The caller is modelled by
the bag of references it holds, and it may call any API function on
anything it holds, in any order.

## Modules

| Module | Models | State | Actions |
|---|---|---|---|
| `AddrCache` | alloc, resolve, use and free of an address; alloc, get, resolve and free of a cache | `live`, `type`, `addr`, `refcnt`, `internal` per heap slot; `acLive`; `tree[c][t]`, the set of members of cache c's tree for type t; `refs`, the caller's bag of `<<address, key>>`; `ret`, the last call and its result | `AddrAlloc`, `AddrResolve`, `CacheGet` (as `GetHit` or `GetMiss`), `CacheResolve`, `AddrUse`, `AddrFree`, `AddrUseNull`, `AddrFreeNull` (the early returns on NULL), `CacheAlloc`, `CacheFree` (with `FreeCb`) |
| `AddrIntern` | the abstract promise: each live cache maps a key to at most one object, and an object lives exactly while it is held | `held`, `acLive`, `interned`, `ret` | `Alloc`, `Get`, `Use`, `Release`, `NewCache`, `DropCache`, `Fail` |
| `AddrPrefix` | `ipv4_/ipv6_` `inprefix`, `prefix`, `netaddr`, `islinklocal`; `ipv4_prefixhosts`; `scamper_addr_isrfc1918`; the `scamper_addr_*` dispatchers; the mask tables, `uint16_mask` included | `le` (byte order) and `win` (`_WIN32`) of the build; `sa` and `sb` (one query); `garbage`, the memory an out-of-bounds table read returns | `Query` |
| `AddrCompare` | `ipv4/ipv6/ethernet/firewire` `cmp`, the `human_cmp` variants, `scamper_addr_cmp`, `scamper_addr_human_cmp`, `scamper_addr_raw_cmp` | `le`, `win`, `sa`, `sb`, `same` (a == b) | `Query` |
| `AddrFamily` | `scamper_addr_resolve`'s walk over the `getaddrinfo` list, `scamper_addr_af`, `scamper_addr_size` | `af` (the hint), `res0` (the candidate list), `allocOk` (the allocation outcome): one query | `Query` |
| `AddrText` | `ethernet_tostr`, `firewire_tostr`, `scamper_addr_tostr`; `ipv4_tostr`/`ipv6_tostr` as the call to the external `addr_tostr` | `sa`, `size` (one query: address and buffer size) | `Query` |
| `MC_AddrCacheBytes` | the composition: `AddrCache` whose trees search with `scamper_addr_cmp` of `AddrCompare` | as `AddrCache` | as `AddrCache` |

The `MC_*` modules instantiate these modules for TLC. `AddrCache` takes
its key set `Keys` and the tree comparator `TreeCmp` as constants.
`MC_AddrCache` uses model-value bytes, with `TreeCmp` as byte equality.
Like `handlers[type-1].cmp`, it ignores the type, so only the choice of
tree keeps an IPv4 and an Ethernet address with the same bytes apart.
That is sound because the `comparators` run shows each `cmp` is zero
exactly on equal bytes. `MC_AddrCacheBytes` uses real bytes and the
modelled `scamper_addr_cmp`, so the two components are checked
together.

### Abstractions

- **Heap.** Heap objects are model values (`Addrs`, `Caches`). A freed
  slot may be reused by the next allocation, which is how a stale
  pointer would show up.
- **Allocation failure.** Every allocation (malloc, memdup,
  splaytree_alloc, splaytree_insert) may fail. The model takes each
  failure path the code has, and `ret` records which call returned
  NULL.
- **Splay tree.** The splay tree is an external collaborator and is
  assumed correct. `tree[c][t]` is the set it holds, and a find is
  equality of the value under the tree's comparator.
- **Resolution.** In `AddrCache`, `getaddrinfo` is modelled by its
  outcomes: it fails, or its first IPv4 or IPv6 candidate is some value.
  `AddrFamily` models the loop over the candidate list itself. It uses
  lists of up to three candidates, of the hinted family or, for
  `AF_UNSPEC`, of any family. This shows that the `AddrCache`
  abstraction (NULL or an IP key) is what the loop produces. The bytes
  that follow `sin_addr`/`sin6_addr` in the sockaddr are `Trailer`, so
  a wrong `memdup` size would show.
- **`refcnt` width.** `refcnt` is an `int` whose maximum is the
  constant `IntMax`. An increment at `IntMax` wraps to `-IntMax - 1`,
  as builds without `-ftrapv` do. `assert(sa->refcnt > 0)` in
  `scamper_addr_free` is a guard: a failing assert aborts the program,
  which the model does not continue. The number of references the
  caller holds to one address is bounded by `MaxRef`.
- **32-bit words.** A word is the tuple of its four base-256 digits,
  most significant first. A load from memory reverses the bytes when
  `le` is TRUE, `htonl`/`ntohl` are `Reverse` on a little-endian build,
  and `&` and `^` act per byte. This keeps both byte orders in the
  model, which is where the interesting bugs are.
- **Builds.** `win` selects the `_WIN32` code. There, IPv6 `inprefix`,
  `cmp` and `human_cmp` walk eight 16-bit words (`u.Word[i]`, with
  `uint16_mask` and `htons`/`ntohs`) instead of four 32-bit ones.
- **Out-of-bounds reads.** Reading the mask table out of bounds is
  undefined behaviour. It happens with `uint32_netmask[len-1]` when
  `len < 0`. The model returns the word `garbage`, which is any of
  `OobWords`.
- **Loops.** The C loops are RECURSIVE LET operators with the same exits
  as the code.
- **`memcmp`.** It is modelled by the sign of its result.
- **Text.** Text is a sequence of one-character strings. `"%02x"` is two
  lowercase hex digits. `snprintf(buf, len, ...)` keeps the first
  `len - 1` characters, and writes nothing when `len = 0`. `addr_tostr`
  is external, and its result is the model value `External`.

## Runs

| Run | What it checks | Result |
|---|---|---|
| `cache_lifecycle` (`MC_AddrCache.cfg`) | `Interning`: live addresses with the same live cache and key are one object. `NoDanglingEntry`: every tree member is live, of the tree's type, and points back to the cache. `NoDanglingBackRef`: a set `internal` names a live cache whose tree holds the address. `RefcntExact`: `refcnt` equals the number of references held, and a freed slot is held by nobody. `HandleIntegrity`: what the caller holds still has the key it was returned for. | pass, 46,519 states |
| `cache_refines_interning` (`MC_AddrCache_refine.cfg`) | `AddrCache` implements `AddrIntern`, under the mapping `held <- refs` and `interned[c][k]` = the tree member of cache c with key k. | pass, 11,720 states |
| `cache_with_comparators` (`MC_AddrCacheBytes.cfg`) | `Interning` and `HandleIntegrity`, with the IPv4 keys 1.0.0.2 and 2.0.0.1 and the IPv6 keys 1:2:: and 2:1::, each tree searching with its type's `handlers[i].cmp` on a little-endian build. | pass, 98,513 states |
| `prefix_algorithms` (`MC_AddrPrefix.cfg`) | On both byte orders and on POSIX and `_WIN32` builds, `prefix` is the common-prefix length of the bit strings. `inprefix` agrees with bit equality for every length that is not negative, including -1 for lengths beyond the width. `netaddr` clears exactly the host bits. `prefixhosts` is the reference definition of spec.md 4.1. `islinklocal` and `isrfc1918` test the listed ranges. | pass, 6,348 states |
| `comparators` (`MC_AddrCompare.cfg`) | `scamper_addr_cmp` is a total order on both byte orders. `human_cmp` is numeric (network-byte) order. `raw_cmp` finds equality exactly where `cmp` does. | pass, 528 states |
| `tostr_format` (`MC_AddrText.cfg`) | `TostrFormat` checks Ethernet and FireWire text with buffer sizes 0 to 32. With size 0 the buffer is untouched. Otherwise the output is never longer than size - 1, is a prefix of the text in spec.md section 6, and is the whole text once the buffer holds it and its NUL. That text reads back to the bytes. | pass, 112 states |
| `cache_refines_interning_two_values` (`MC_AddrCache_refine2.cfg`) | The same refinement with both values and two address slots, so that keys of one type differ in their bytes. | pass, 4,579 states |
| `resolve_round_trip` (`MC_AddrFamily.cfg`) | `ResolveRoundTrip` covers every hint and every `getaddrinfo` list of up to three candidates. The result is built from the first IPv4/IPv6 candidate, skipping others. `scamper_addr_af` gives back that candidate's family, which is the hinted one unless the hint is `AF_UNSPEC`. The bytes are the candidate's, and `scamper_addr_size` counts them. NULL is returned only without such a candidate or on allocation failure. | pass, 372 states |
| `cmp_network_order` (`MC_AddrCompare_order.cfg`) | spec.md 4.1 says `compare` is raw-byte order in network byte order. | **violation**, as expected |
| `inprefix_negative_len` (`MC_AddrPrefix_neglen.cfg`) | A negative prefix length given to `scamper_addr_inprefix` is an error (-1). spec.md 4.1 calls an out-of-range length an error, and `netaddr` rejects `netlen <= 0`. | **violation**, as expected |
| `refcnt_wrap` (`MC_AddrCache_wrap.cfg`) | `RefcntExact` is checked with `IntMax` = 2 and `MaxRef` = 3, so the caller can hold one more reference than the `int` holds. | **violation**, as expected |

### Findings

`ipv4_cmp` and `ipv6_cmp` compare the words as the host loads them. On a
little-endian build, `scamper_addr_cmp(2.0.0.1, 1.0.0.2) = -1`, which is
not network byte order, so the spec's description of `compare` does not
hold. It is still a total order (run `comparators`), so the caches are
sound. `human_cmp` is the network-order one. This also answers the open
question of spec.md section 9: the two orders do differ on little-endian
hosts.

`ipv4_inprefix` (line 231) and `ipv6_inprefix` (line 415) reject
`len > width` but not `len < 0`. They then read `uint32_netmask[len-1]`
before the table. In the model that read returns whatever memory holds.
TLC shows `inprefix(0.0.0.0, 0.0.0.0, -1) = 1`. For equal operands the
result is 1 whatever that memory holds. For other operands it depends on
the memory. Either way a negative length is not rejected as an error.

`scamper_addrcache_get` (line 708) and `scamper_addr_use` (line 780)
increment `refcnt` with no bound. Run `refcnt_wrap` scales `INT_MAX`
down to 2. With three references held, the increment wraps to -3, so
`refcnt` no longer counts the references. The next `scamper_addr_free`
then fails its assert. With `NDEBUG`, it frees an address that is still
held. In the real program this takes `INT_MAX + 1` references to one
address. spec.md section 3 calls `refcount` an integer >= 1 and puts no
bound on the number of references.

The `cache_with_comparators` run shows that the host-order `cmp` is
nevertheless a sound tree comparator for the cache. Values that
little-endian order sorts differently from network order are interned
once and found again.

### Mutants

Each property of a passing run is shown to be violated by one plausible
bug in the code it is about. The mutants are:

- a cache get that does not search first;
- a last free that does not unlink the address from its tree;
- a cache free without `free_cb`;
- a hit that does not increment `refcnt`;
- a find that searches all of the cache's trees, not only the tree of the requested type;
- a miss that does not insert;
- IPv6 prefix, inprefix and netaddr without the `htonl` or the `memset`;
- `prefixhosts` without its `>= 31` short cut;
- `islinklocal` without `ntohl`;
- `ipv6_cmp` without its `return 1`;
- `human_cmp` without `ntohl`;
- `raw_cmp` comparing only 4 bytes;
- `ipv4_cmp` without its `return 0` for equal words, run under the
  composed cache;
- `firewire_tostr` with six conversions, as if copied from
  `ethernet_tostr`;
- the `scamper_addr_resolve` loop without its `break`, which keeps the
  last usable candidate;
- a tree comparator that compares the type and no bytes. Only the
  two-value refinement run can see it.

The full list is in `PROJECT.json`.

## Bounds

**`MC_AddrCache`.** The bounds are 3 address slots, 2 caches, types
{IPv4, Ethernet}, 2 values and `MaxRef` = 2.

- Two caches are needed to interleave a free of one cache with the last
  free of an address that the other cache indexes.
- Three slots allow a value to be cached, held standalone and reused
  after a free.
- Two values and two types let keys differ in type or in value.
`MC_AddrCacheBytes` has four keys: two per IP type, chosen so that
little-endian `cmp` orders each pair against network order.
- `MaxRef` = 2 lets a hit share an object.

In all these runs `IntMax` = 2 is at least `MaxRef`, so the counter
cannot wrap. Only `refcnt_wrap` lets it.

The refinement run uses one value and three slots, and takes 12 s. It
checks slot reuse. With both values and three slots it takes minutes,
so the second refinement run uses both values and two slots. Two
addresses of one type with different bytes then meet in one cache. Refinement
concerns identity, not which value is stored. Symmetry is applied to
slots, caches and values, which are interchangeable model values.

**`MC_AddrPrefix` and `MC_AddrCompare`.** The inputs are chosen at the
boundaries:

- all zeros and all ones;
- addresses that differ in bit 1, 8, 9 or 31;
- network and broadcast addresses of a /24;
- IPv6 addresses that differ in each 32-bit word;
- addresses whose bytes swap order under `ntohl`.

The prefix lengths include -1, 0, 1, 31, 32 and 33 and each multiple of
32 ±1 up to 129. These cover the 16-bit word boundaries of `_WIN32` at
16, 32, 64 and 96. Each query is checked on both byte orders and both
builds. The out-of-bounds word is one of three: all zeros, all ones, and
0xff000000, which changes under a byte swap.

**`MC_AddrFamily`.** Two IPv4 and two IPv6 values let the first and the
last candidate differ. Lists of up to three candidates let a candidate
of another family come before the first usable one, and let two usable
candidates follow each other. Each hint `AF_UNSPEC`, `AF_INET` and
`AF_INET6` is taken, with the family constants of Linux (0, 2, 10).
With `AI_NUMERICHOST`, which the code always sets, `getaddrinfo` returns
a single candidate in practice. The longer lists check the loop against the resolver's
contract, not against a case that is known to occur.
`scamper_addrcache_resolve` repeats the loop (line 756) and is not
modelled by `AddrFamily`.

## Fairness and liveness

None. The code has no internal scheduling, timers or retries, and
everything happens because the caller calls. Nothing is promised to
happen eventually, so no run checks liveness. A weak-fairness condition
here would be an assumption that the caller keeps calling, which is a
property of the program using this file, not of this file. Deadlock is checked:
there is always a call the caller can make.

## Not modelled

- **The text of IPv4 and IPv6 addresses.** `ipv4_tostr` and
  `ipv6_tostr` only call the external `addr_tostr`.
- **The splay tree's own code, `getaddrinfo`, `addr_tostr`.** These are
  external collaborators.
- **A trapping build.** On signed overflow, a build with `-ftrapv` or
  UBSan would abort instead of wrapping. The model takes the wrapping
  outcome, the one that silently corrupts the count.
- **A partially allocated cache.** `scamper_addrcache_alloc` can fail
  between two `splaytree_alloc`s, and it then frees its own half-built
  cache before returning NULL. That state is never visible to a caller,
  so the model has a failed alloc return NULL with no other change. The
  refinement run checks that the failure leaves no cache behind: a
  failed alloc that kept its slot would violate `InternRefinement`.
- **The order of insert and `internal` on a miss.** If
  `splaytree_insert` fails, the new address is freed with `internal`
  still NULL, so nothing changes. The model takes this as one failing
  step. Setting `internal` before the insert would make that free call
  `splaytree_remove_item` on a tree that does not hold the address. What
  that does depends on the external splay tree, so no property covers
  the order at line 719.
- **NULL arguments.** The model never passes NULL as an argument: a NULL
  argument is outside the caller contract it enumerates. This leaves out
  the dereference before the NULL check in `ipv4_netaddr` and
  `ipv6_netaddr`. The only caller, `scamper_addr_netaddr`, reads
  `a->type` first, so that check is dead code.
- **`_WIN32` and big-endian instances of the composed cache.** The
  trees are modelled as sets, so only where `cmp` is zero matters to the
  cache. Run `comparators` shows `cmp` is zero exactly on equal bytes on
  both byte orders and both builds.

## Plan for later work

- Every function of `scamper_addr.c` is now an action or an operator of
  a module. Further work would mean instances with more slots. The
  state space grows quickly with them, and the refinement run with three
  slots and two values already takes several minutes.
