---------------------------- MODULE AddrCompare ----------------------------
(***************************************************************************)
(* The comparators of scamper_addr.c: ipv4_cmp, ipv6_cmp, ethernet_cmp,    *)
(* firewire_cmp (the order of the cache's splay trees), their _human_cmp   *)
(* variants, scamper_addr_raw_cmp, and the dispatch of scamper_addr_cmp    *)
(* and scamper_addr_human_cmp with its pointer-identity short cut and its  *)
(* order on the type discriminant across types.                            *)
(*                                                                         *)
(* As in AddrPrefix, memory is a byte tuple, and a 32-bit (or, for IPv6   *)
(* on a _WIN32 build, 16-bit) word loaded from it is the tuple of its      *)
(* base-256 digits, most significant first, whose value depends on the     *)
(* byte order le of the build.  memcmp is modelled by *)
(* the sign of its result: its magnitude is unspecified and every caller   *)
(* here only tests the sign.                                               *)
(*                                                                         *)
(* The state is one query: the build (le, win), two address objects      *)
(* and whether they are the same object (same, possible only when equal). *)
(***************************************************************************)
EXTENDS Integers, Sequences, SequencesExt

CONSTANTS
    Addresses   \* the addresses queries are drawn from: [type, bytes]

VARIABLES
    le,         \* TRUE on a little-endian build
    win,        \* TRUE on a _WIN32 build
    sa,         \* first argument
    sb,         \* second argument
    same        \* sa and sb are one object (a == b)

vars == <<le, win, sa, sb, same>>

\* handlers[type-1].size
Size == [t \in 1..4 |-> CASE t = 1 -> 4 [] t = 2 -> 16 [] t = 3 -> 6 [] t = 4 -> 8]

-----------------------------------------------------------------------------
Word(d1, d2, d3, d4) == <<d1, d2, d3, d4>>

\* The n-byte word i (0-based) of memory m as the host loads it.
LoadW(m, i, n) ==
    LET b == SubSeq(m, n * i + 1, n * i + n)
    IN IF le THEN Reverse(b) ELSE b

Load32(m, i) == LoadW(m, i, 4)

\* The bytes of an IPv6 word: s6_addr32[i], or u.Word[i] on _WIN32.
Ipv6WordBytes == IF win THEN 2 ELSE 4

\* ntohl, and ntohs on a 16-bit word
Ntohl(x) == IF le THEN Reverse(x) ELSE x

\* Three-way comparison of two digit tuples of one length, most
\* significant first: of two unsigned words, or of two byte strings.
RECURSIVE LexCmp(_, _)
LexCmp(x, y) ==
    IF Len(x) = 0 THEN 0
    ELSE IF Head(x) < Head(y) THEN -1
    ELSE IF Head(x) > Head(y) THEN 1
    ELSE LexCmp(Tail(x), Tail(y))

\* The sign of memcmp(x, y, n) on the first n bytes.
Memcmp(x, y, n) == LexCmp(SubSeq(x, 1, n), SubSeq(y, 1, n))

-----------------------------------------------------------------------------
(* Per-type comparators.                                                   *)

\* Mutant: ipv4_cmp without its "return 0" for equal words, answering 1
\* for everything that is not smaller.
Ipv4CmpNoEqual(a, b) ==
    IF LexCmp(Load32(a.bytes, 0), Load32(b.bytes, 0)) = -1 THEN -1 ELSE 1

ipv4_cmp(a, b) == LexCmp(Load32(a.bytes, 0), Load32(b.bytes, 0))

\* Mutant: the human comparison forgets ntohl.
Ipv4HumanCmpNoNtohl(a, b) == LexCmp(Load32(a.bytes, 0), Load32(b.bytes, 0))

ipv4_human_cmp(a, b) ==
    LexCmp(Ntohl(Load32(a.bytes, 0)), Ntohl(Load32(b.bytes, 0)))

\* for(i=0; i<4; i++) compare s6_addr32[i], or on _WIN32 for(i=0; i<8;
\* i++) compare u.Word[i] (after ntohl/ntohs when human); return at the
\* first word that differs.
Ipv6WordCmp(a, b, human) ==
    LET n == Ipv6WordBytes
        Conv(w) == IF human THEN Ntohl(w) ELSE w
        RECURSIVE Loop(_)
        Loop(i) ==
            IF i = 16 \div n THEN 0
            ELSE LET c == LexCmp(Conv(LoadW(a.bytes, i, n)), Conv(LoadW(b.bytes, i, n)))
                 IN IF c # 0 THEN c ELSE Loop(i + 1)
    IN Loop(0)

\* Mutant: the loop of ipv6_cmp lacks the "return 1" line, so a word that
\* is greater falls through to the next word.
Ipv6CmpNoGreater(a, b) ==
    LET n == Ipv6WordBytes
        RECURSIVE Loop(_)
        Loop(i) ==
            IF i = 16 \div n THEN 0
            ELSE IF LexCmp(LoadW(a.bytes, i, n), LoadW(b.bytes, i, n)) = -1 THEN -1
            ELSE Loop(i + 1)
    IN Loop(0)

ipv6_cmp(a, b) == Ipv6WordCmp(a, b, FALSE)

ipv6_human_cmp(a, b) == Ipv6WordCmp(a, b, TRUE)

ethernet_cmp(a, b) == Memcmp(a.bytes, b.bytes, 6)

firewire_cmp(a, b) == Memcmp(a.bytes, b.bytes, 8)

-----------------------------------------------------------------------------
(* Dispatch.                                                               *)

\* handlers[type-1].cmp and .human_cmp
TypeCmp(a, b) ==
    CASE a.type = 1 -> ipv4_cmp(a, b)
      [] a.type = 2 -> ipv6_cmp(a, b)
      [] a.type = 3 -> ethernet_cmp(a, b)
      [] a.type = 4 -> firewire_cmp(a, b)

TypeHumanCmp(a, b) ==
    CASE a.type = 1 -> ipv4_human_cmp(a, b)
      [] a.type = 2 -> ipv6_human_cmp(a, b)
      [] a.type = 3 -> ethernet_cmp(a, b)
      [] a.type = 4 -> firewire_cmp(a, b)

\* The shape shared by scamper_addr_cmp and scamper_addr_human_cmp: the
\* same object compares equal, the same type uses the handler, and other
\* types are ordered by discriminant.  isSame is a == b.
\* human selects the handler's human_cmp.
DispatchCmp(a, b, isSame, human) ==
    IF isSame THEN 0
    ELSE IF a.type = b.type
         THEN IF human THEN TypeHumanCmp(a, b) ELSE TypeCmp(a, b)
    ELSE IF a.type < b.type THEN -1 ELSE 1

scamper_addr_cmp(a, b, isSame) == DispatchCmp(a, b, isSame, FALSE)

scamper_addr_human_cmp(a, b, isSame) == DispatchCmp(a, b, isSame, TRUE)

\* Mutant: raw_cmp compares sizeof(struct in_addr) bytes for every type.
RawCmpIPv4Size(a, raw) == Memcmp(a.bytes, raw, 4)

\* memcmp(a->addr, raw, handlers[a->type-1].size)
scamper_addr_raw_cmp(a, raw) == Memcmp(a.bytes, raw, Size[a.type])

-----------------------------------------------------------------------------
Init ==
    /\ le \in BOOLEAN
    /\ win \in BOOLEAN
    /\ sa = CHOOSE a \in Addresses : TRUE
    /\ sb = sa
    /\ same = TRUE

\* The caller compares two addresses: distinct objects, or one object
\* passed twice.
Query ==
    /\ sa' \in Addresses
    /\ sb' \in Addresses
    /\ same' \in IF sa' = sb' THEN BOOLEAN ELSE {FALSE}
    /\ UNCHANGED <<le, win>>

Next == Query

Spec == Init /\ [][Next]_vars

-----------------------------------------------------------------------------
(* Reference: the order of the address as a number, i.e. of its network-  *)
(* order bytes, with types ordered by discriminant.                        *)

NetworkOrder(a, b) ==
    IF a.type = b.type THEN LexCmp(a.bytes, b.bytes)
    ELSE IF a.type < b.type THEN -1 ELSE 1

(***************************************************************************)
(* Properties.                                                             *)
(***************************************************************************)

\* scamper_addr_cmp, the order of the cache's splay trees, is a total
\* order on every build: antisymmetric, zero exactly for equal type and
\* bytes (whether or not the two are one object), and transitive over any
\* third address.
CmpTotalOrder ==
    LET c(x, y) == scamper_addr_cmp(x, y, FALSE)
    IN /\ scamper_addr_cmp(sa, sb, same) = -scamper_addr_cmp(sb, sa, same)
       /\ (scamper_addr_cmp(sa, sb, same) = 0) = (sa = sb)
       /\ \A sc \in Addresses :
             (c(sa, sb) <= 0 /\ c(sb, sc) <= 0) => c(sa, sc) <= 0

\* scamper_addr_human_cmp orders addresses of one type by their numeric
\* value (their network-order bytes) on every build, and other types by
\* discriminant.
HumanCmpIsNetworkOrder ==
    scamper_addr_human_cmp(sa, sb, same) = NetworkOrder(sa, sb)

\* scamper_addr_raw_cmp, which probes by value without building an
\* address, finds equality exactly where scamper_addr_cmp does, for every
\* type's size.
RawCmpAgreesOnEquality ==
    sa.type = sb.type =>
        ((scamper_addr_raw_cmp(sa, sb.bytes) = 0) = (scamper_addr_cmp(sa, sb, same) = 0))

\* spec.md 4.1: compare is the raw-byte order in network byte order, the
\* same order as human_compare.
CmpIsNetworkOrder ==
    scamper_addr_cmp(sa, sb, same) = NetworkOrder(sa, sb)

=============================================================================
