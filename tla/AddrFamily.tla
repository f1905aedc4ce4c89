----------------------------- MODULE AddrFamily -----------------------------
(***************************************************************************)
(* From address family to address kind and back (src/scamper/scamper_addr.c): *)
(* scamper_addr_resolve walks the getaddrinfo result list, turns the first *)
(* PF_INET or PF_INET6 candidate into an address of type IPv4 or IPv6 with *)
(* memdup(va, handlers[type-1].size), and scamper_addr_af and              *)
(* scamper_addr_size read the family and width back from the address.     *)
(*                                                                         *)
(* getaddrinfo is the external resolver.  It is modelled by its contract   *)
(* (spec.md section 6): it fails or returns a list of candidates, and with *)
(* hints.ai_family = AF_INET or AF_INET6 every candidate has that family.  *)
(* A candidate is its family and the bytes of sin_addr / sin6_addr; what   *)
(* follows them in the sockaddr (sin_zero, sin6_scope_id) is Trailer.      *)
(***************************************************************************)
EXTENDS Integers, Sequences, SequencesExt

CONSTANTS
    AF_UNSPEC, AF_INET, AF_INET6,  \* the family constants of the build
    PF_OTHER,   \* a family scamper does not handle
    V4Addrs,    \* values of sin_addr, 4-byte tuples
    V6Addrs,    \* values of sin6_addr, 16-byte tuples
    MaxRes,     \* bound on the length of a getaddrinfo result list
    NULL

ASSUME {AF_UNSPEC, AF_INET, AF_INET6, PF_OTHER} \subseteq Int
ASSUME \A v \in V4Addrs : Len(v) = 4
ASSUME \A v \in V6Addrs : Len(v) = 16

VARIABLES
    af,         \* the af argument, copied into hints.ai_family
    res0,       \* what getaddrinfo returned: a list, empty on failure
    allocOk     \* whether malloc and memdup in scamper_addr_alloc succeed

vars == <<af, res0, allocOk>>

Trailer == <<0, 0, 0, 0>>

\* The candidates getaddrinfo may return for hints.ai_family = f.
Candidates(f) ==
    LET v4 == [family : {AF_INET}, addr : V4Addrs]
        v6 == [family : {AF_INET6}, addr : V6Addrs]
    IN CASE f = AF_INET -> v4
         [] f = AF_INET6 -> v6
         [] OTHER -> v4 \cup v6 \cup [family : {PF_OTHER}, addr : {<<>>}]

\* handlers[i].size
HandlerSize == <<4, 16, 6, 8>>

scamper_addr_size(sa) == HandlerSize[sa.type]

scamper_addr_af(sa) ==
    CASE sa.type = 1 -> AF_INET
      [] sa.type = 2 -> AF_INET6
      [] OTHER -> -1

\* The test of the loop: res->ai_family == PF_INET or PF_INET6.
Usable(c) == c.family \in {AF_INET, AF_INET6}

\* memdup(va, n): n bytes from sin_addr / sin6_addr on.
Memdup(c, n) == SubSeq(c.addr \o Trailer, 1, n)

\* scamper_addr_alloc(type, va) for the candidate c.
AllocFrom(c) ==
    LET t == IF c.family = AF_INET THEN 1 ELSE 2
    IN [type |-> t, bytes |-> Memdup(c, HandlerSize[t])]

\* Mutant: the loop has no break and keeps the last usable candidate.
ResolveLastCandidate(res, ok) ==
    LET i == SelectLastInSeq(res, Usable)
    IN IF i = 0 \/ ~ok THEN NULL ELSE AllocFrom(res[i])

\* getaddrinfo failed or returned nothing: NULL.  Otherwise the loop stops
\* at the first PF_INET/PF_INET6 candidate and allocates from it; sa stays
\* NULL when there is none, or when the allocation fails.
scamper_addr_resolve(res, ok) ==
    LET i == SelectInSeq(res, Usable)
    IN IF i = 0 \/ ~ok THEN NULL ELSE AllocFrom(res[i])

-----------------------------------------------------------------------------
Init ==
    /\ af = AF_UNSPEC
    /\ res0 = <<>>
    /\ allocOk = TRUE

\* The caller resolves a numeric address of family af.
Query ==
    \E f \in {AF_UNSPEC, AF_INET, AF_INET6} :
        /\ af' = f
        /\ res0' \in SeqOf(Candidates(f), MaxRes)
        /\ allocOk' \in BOOLEAN

Next == Query

Spec == Init /\ [][Next]_vars

-----------------------------------------------------------------------------
\* Resolution round trip (scamper_addr_resolve, scamper_addr_alloc,
\* scamper_addr_af, scamper_addr_size): the address returned is built from
\* the first IPv4 or IPv6 candidate, skipping others; scamper_addr_af gives
\* back that candidate's family, which is the requested af unless af is
\* AF_UNSPEC; its bytes are the candidate's address and scamper_addr_size
\* is their number.  NULL is returned only when getaddrinfo yields no such
\* candidate or the allocation fails.
ResolveRoundTrip ==
    LET sa == scamper_addr_resolve(res0, allocOk)
    IN IF sa = NULL
       THEN ~allocOk \/ \A i \in DOMAIN res0 : ~Usable(res0[i])
       ELSE \E i \in DOMAIN res0 :
               /\ \A j \in 1..(i - 1) : res0[j].family = PF_OTHER
               /\ scamper_addr_af(sa) = res0[i].family
               /\ af # AF_UNSPEC => scamper_addr_af(sa) = af
               /\ sa.bytes = res0[i].addr
               /\ scamper_addr_size(sa) = Len(sa.bytes)

=============================================================================
