----------------------------- MODULE AddrPrefix -----------------------------
(***************************************************************************)
(* The prefix and mask algorithms of the kind table (scamper_addr.c):      *)
(* ipv4_/ipv6_inprefix, _prefix, _netaddr, _islinklocal, ipv4_prefixhosts  *)
(* and scamper_addr_isrfc1918, with the dispatch through handlers[].       *)
(*                                                                         *)
(* Addresses are records [type, bytes] whose bytes are the network-order   *)
(* memory of the address.  The code loads that memory into 32-bit words   *)
(* (s_addr, s6_addr32[i]) whose numeric value depends on the byte order    *)
(* of the build, masks them with the host-order tables uint32_netmask and  *)
(* uint32_hostmask through htonl/ntohl, and stores the result back.  A     *)
(* 32-bit word is modelled as its four base-256 digits, most significant   *)
(* first, so that byte order, htonl and the bitwise operators are modelled *)
(* by what they do (TLC integers are too narrow for 32-bit words).  The    *)
(* _WIN32 build walks IPv6 prefixes in 16-bit words (u.Word[i]) with the   *)
(* table uint16_mask; win selects it.                                      *)
(*                                                                         *)
(* A negative prefix length makes inprefix read uint32_netmask[len-1]      *)
(* outside the table: undefined behaviour, modelled as the word garbage,   *)
(* any of OobWords.                                                        *)
(*                                                                         *)
(* The state is one query: the build (le, win), two addresses sa and sb    *)
(* drawn from Addresses, and the memory garbage.  Every step picks a new   *)
(* query.  Each property compares the code's result with a reference      *)
(* definition stated on the bit string of the address, independent of     *)
(* words, byte order and build.                                            *)
(***************************************************************************)
EXTENDS Integers, Sequences, SequencesExt, Bitwise

CONSTANTS
    Addresses,  \* the addresses queries are drawn from: [type, bytes]
    Lens,       \* prefix lengths passed to inprefix and netaddr
    OobWords    \* 32-bit words an out-of-bounds table read may return

VARIABLES
    le,         \* TRUE on a little-endian build
    win,        \* TRUE on a _WIN32 build
    garbage,    \* the word found before uint32_netmask in memory
    sa,         \* first argument
    sb          \* second argument (or prefix buffer)

vars == <<le, win, garbage, sa, sb>>

\* handlers[type-1].size
Size == [t \in 1..4 |-> CASE t = 1 -> 4 [] t = 2 -> 16 [] t = 3 -> 6 [] t = 4 -> 8]

-----------------------------------------------------------------------------
(* 16- and 32-bit words as digit tuples, and the byte-order conversions.  *)

Word(d1, d2, d3, d4) == <<d1, d2, d3, d4>>

\* Bitwise AND and XOR of two words of one width, digit by digit.
AndW(x, y) == [j \in DOMAIN x |-> x[j] & y[j]]
XorW(x, y) == [j \in DOMAIN x |-> x[j] ^^ y[j]]
IsZeroW(x) == \A j \in DOMAIN x : x[j] = 0

\* The n-byte word i (0-based) of the memory m as the host loads it
\* (s_addr, s6_addr32[i], u.Word[i]): on a little-endian host the first
\* byte is least significant.
LoadW(m, i, n) ==
    LET b == SubSeq(m, n * i + 1, n * i + n)
    IN IF le THEN Reverse(b) ELSE b

Load32(m, i) == LoadW(m, i, 4)

\* The four bytes a store of the word x writes to memory.
Store32(x) == IF le THEN Reverse(x) ELSE x

\* htonl, ntohl and htons: a byte swap on a little-endian host.
Htonl(x) == IF le THEN Reverse(x) ELSE x
Ntohl(x) == Htonl(x)

\* A byte whose n most significant bits are set.
TopBits(n) == 256 - 2^(8 - n)
Clamp8(n) == IF n < 0 THEN 0 ELSE IF n > 8 THEN 8 ELSE n

\* A table of n-byte words whose entry i has the i+1 most significant
\* bits set.
MaskTable(n) ==
    [i \in 0..8 * n - 1 |-> [j \in 1..n |-> TopBits(Clamp8(i + 1 - 8 * (j - 1)))]]

\* uint32_netmask
Netmask == MaskTable(4)

\* uint16_mask (_WIN32)
Uint16Mask == MaskTable(2)

\* table[i], where i may lie outside the table: the read then returns
\* whatever memory holds.
MaskAt(table, i) ==
    IF i \in DOMAIN table THEN table[i] ELSE SubSeq(garbage, 1, Len(table[0]))

\* uint32_hostmask[i]: the 32-i least significant bits set.
Hostmask == [i \in 0..31 |-> [j \in 1..4 |-> 255 - TopBits(Clamp8(i - 8 * (j - 1)))]]

-----------------------------------------------------------------------------
(* IPv4 handlers.                                                          *)

Ipv4InPrefix(a, p, len) ==
    IF len = 0 THEN 1
    ELSE IF len > 32 THEN -1
    ELSE IF IsZeroW(AndW(XorW(Load32(a.bytes, 0), Load32(p, 0)),
                           Htonl(MaskAt(Netmask, len - 1))))
         THEN 1 ELSE 0

\* for(i=32; i>0; i--) if(((a ^ b) & htonl(uint32_netmask[i-1])) == 0) break;
Ipv4Prefix(a, b) ==
    LET x == XorW(Load32(a.bytes, 0), Load32(b.bytes, 0))
        RECURSIVE Scan(_)
        Scan(i) == IF i > 0 /\ ~IsZeroW(AndW(x, Htonl(Netmask[i - 1])))
                   THEN Scan(i - 1) ELSE i
    IN Scan(32)

\* The host part of s under a prefix of length i is all zeros or all ones.
HostDegenerate(s, i) ==
    LET c == AndW(Ntohl(Load32(s.bytes, 0)), Hostmask[i])
    IN IsZeroW(c) \/ c = Hostmask[i]

\* Mutant: the short cut for point-to-point prefixes tests i >= 32.
Ipv4PrefixHostsNoShortcut(a, b) ==
    LET RECURSIVE Shrink(_)
        Shrink(i) == IF i > 0 /\ (HostDegenerate(a, i) \/ HostDegenerate(b, i))
                     THEN Shrink(i - 1) ELSE i
        i0 == Ipv4Prefix(a, b)
    IN IF i0 >= 32 THEN i0 ELSE Shrink(i0)

Ipv4PrefixHosts(a, b) ==
    LET RECURSIVE Shrink(_)
        Shrink(i) == IF i > 0 /\ (HostDegenerate(a, i) \/ HostDegenerate(b, i))
                     THEN Shrink(i - 1) ELSE i
        i0 == Ipv4Prefix(a, b)
    IN IF i0 >= 31 THEN i0 ELSE Shrink(i0)

\* Mutant: the link-local test masks s_addr without ntohl.
Ipv4IsLinkLocalNoNtohl(a) ==
    AndW(Load32(a.bytes, 0), Word(255, 255, 0, 0)) = Word(169, 254, 0, 0)

\* 169.254.0.0/16
Ipv4IsLinkLocal(a) ==
    AndW(Ntohl(Load32(a.bytes, 0)), Word(255, 255, 0, 0)) = Word(169, 254, 0, 0)

\* Result of a netaddr call: the return code and the bytes written to net.
NetResult(rc, net) == [rc |-> rc, net |-> net]

Ipv4NetAddr(a, netlen) ==
    IF netlen <= 0 \/ netlen > 32 THEN NetResult(-1, <<>>)
    ELSE NetResult(0, Store32(Htonl(AndW(Ntohl(Load32(a.bytes, 0)),
                                          Netmask[netlen - 1]))))

-----------------------------------------------------------------------------
(* IPv6 handlers.  ipv6_inprefix walks four 32-bit words, or on _WIN32   *)
(* eight 16-bit words with uint16_mask; the other handlers use 32-bit     *)
(* words on every build.                                                   *)

\* The word width in bits and the mask table of ipv6_inprefix.
InPrefixBits == IF win THEN 16 ELSE 32
InPrefixTable == IF win THEN Uint16Mask ELSE Netmask

\* Mutant: the partial-word mask is used without htonl/htons.
Ipv6InPrefixNoHtonl(a, p, len) ==
    LET w == InPrefixBits
        RECURSIVE Loop(_, _)
        Loop(i, l) ==
            IF i = 128 \div w THEN -1
            ELSE LET mask == IF l > w THEN InPrefixTable[w - 1]
                             ELSE MaskAt(InPrefixTable, l - 1)
                 IN IF ~IsZeroW(AndW(XorW(LoadW(a.bytes, i, w \div 8),
                                          LoadW(p, i, w \div 8)), mask))
                    THEN 0
                    ELSE IF l <= w THEN 1 ELSE Loop(i + 1, l - w)
    IN IF len = 0 THEN 1 ELSE IF len > 128 THEN -1 ELSE Loop(0, len)

Ipv6InPrefix(a, p, len) ==
    LET w == InPrefixBits
        RECURSIVE Loop(_, _)
        Loop(i, l) ==
            IF i = 128 \div w THEN -1
            ELSE LET mask == IF l > w THEN InPrefixTable[w - 1]
                             ELSE Htonl(MaskAt(InPrefixTable, l - 1))
                 IN IF ~IsZeroW(AndW(XorW(LoadW(a.bytes, i, w \div 8),
                                          LoadW(p, i, w \div 8)), mask))
                    THEN 0
                    ELSE IF l <= w THEN 1 ELSE Loop(i + 1, l - w)
    IN IF len = 0 THEN 1 ELSE IF len > 128 THEN -1 ELSE Loop(0, len)

\* Mutant: the bit scan of a differing word masks without htonl.
Ipv6PrefixNoHtonl(a, b) ==
    LET RECURSIVE Outer(_, _), Inner(_, _, _)
        Outer(i, x) ==
            IF i = 4 THEN x
            ELSE IF Load32(a.bytes, i) = Load32(b.bytes, i) THEN Outer(i + 1, x + 32)
            ELSE Inner(i, 0, x)
        Inner(i, j, x) ==
            IF j = 32 THEN Outer(i + 1, x)
            ELSE IF ~IsZeroW(AndW(XorW(Load32(a.bytes, i), Load32(b.bytes, i)),
                                    Netmask[j]))
                 THEN x
                 ELSE Inner(i, j + 1, x + 1)
    IN Outer(0, 0)

Ipv6Prefix(a, b) ==
    LET RECURSIVE Outer(_, _), Inner(_, _, _)
        Outer(i, x) ==
            IF i = 4 THEN x
            ELSE IF Load32(a.bytes, i) = Load32(b.bytes, i) THEN Outer(i + 1, x + 32)
            ELSE Inner(i, 0, x)
        Inner(i, j, x) ==
            IF j = 32 THEN Outer(i + 1, x)
            ELSE IF ~IsZeroW(AndW(XorW(Load32(a.bytes, i), Load32(b.bytes, i)),
                                    Htonl(Netmask[j])))
                 THEN x
                 ELSE Inner(i, j + 1, x + 1)
    IN Outer(0, 0)

\* fe80::/10
Ipv6IsLinkLocal(a) == a.bytes[1] = 254 /\ (a.bytes[2] & 192) = 128

ZeroWord == Word(0, 0, 0, 0)

\* Mutant: p starts as a copy of the address instead of memset to zero,
\* so the words after the prefix keep the host bits.
Ipv6NetAddrNoMemset(a, nl) ==
    LET RECURSIVE Loop(_, _, _)
        Loop(i, n, p) ==
            LET w == IF n >= 32 THEN Load32(a.bytes, i)
                     ELSE Htonl(AndW(Ntohl(Load32(a.bytes, i)), Netmask[n - 1]))
                q == [p EXCEPT ![i + 1] = w]
            IN IF n <= 32 \/ i = 3 THEN q ELSE Loop(i + 1, n - 32, q)
    IN IF nl <= 0 \/ nl > 128 THEN NetResult(-1, <<>>)
       ELSE LET p == Loop(0, nl, [i \in 1..4 |-> Load32(a.bytes, i - 1)])
            IN NetResult(0, FlattenSeq([i \in 1..4 |-> Store32(p[i])]))

Ipv6NetAddr(a, nl) ==
    LET RECURSIVE Loop(_, _, _)
        Loop(i, n, p) ==
            LET w == IF n >= 32 THEN Load32(a.bytes, i)
                     ELSE Htonl(AndW(Ntohl(Load32(a.bytes, i)), Netmask[n - 1]))
                q == [p EXCEPT ![i + 1] = w]
            IN IF n <= 32 \/ i = 3 THEN q ELSE Loop(i + 1, n - 32, q)
    IN IF nl <= 0 \/ nl > 128 THEN NetResult(-1, <<>>)
       ELSE LET p == Loop(0, nl, <<ZeroWord, ZeroWord, ZeroWord, ZeroWord>>)
            IN NetResult(0, FlattenSeq([i \in 1..4 |-> Store32(p[i])]))

-----------------------------------------------------------------------------
(* Dispatch through handlers[type-1]; NULL entries give the error value.  *)

scamper_addr_inprefix(a, p, len) ==
    CASE a.type = 1 -> Ipv4InPrefix(a, p, len)
      [] a.type = 2 -> Ipv6InPrefix(a, p, len)
      [] OTHER      -> -1

scamper_addr_prefix(a, b) ==
    CASE a.type # b.type -> -1
      [] a.type = 1      -> Ipv4Prefix(a, b)
      [] a.type = 2      -> Ipv6Prefix(a, b)
      [] OTHER           -> -1

scamper_addr_prefixhosts(a, b) ==
    IF a.type # b.type \/ a.type # 1 THEN -1 ELSE Ipv4PrefixHosts(a, b)

scamper_addr_islinklocal(a) ==
    CASE a.type = 1 -> Ipv4IsLinkLocal(a)
      [] a.type = 2 -> Ipv6IsLinkLocal(a)
      [] OTHER      -> FALSE

scamper_addr_netaddr(a, len) ==
    CASE a.type = 1 -> Ipv4NetAddr(a, len)
      [] a.type = 2 -> Ipv6NetAddr(a, len)
      [] OTHER      -> NetResult(-1, <<>>)

\* 10.0.0.0/8, 172.16.0.0/12, 192.168.0.0/16
scamper_addr_isrfc1918(a) ==
    /\ a.type = 1
    /\ LET x == Ntohl(Load32(a.bytes, 0))
       IN \/ AndW(x, Word(255, 0, 0, 0)) = Word(10, 0, 0, 0)
          \/ AndW(x, Word(255, 240, 0, 0)) = Word(172, 16, 0, 0)
          \/ AndW(x, Word(255, 255, 0, 0)) = Word(192, 168, 0, 0)

-----------------------------------------------------------------------------
Init ==
    /\ le \in BOOLEAN
    /\ win \in BOOLEAN
    /\ garbage = CHOOSE g \in OobWords : TRUE
    /\ sa = CHOOSE a \in Addresses : TRUE
    /\ sb = sa

\* The caller asks a new question of the same build.
Query ==
    /\ sa' \in Addresses
    /\ sb' \in Addresses
    /\ garbage' \in OobWords
    /\ UNCHANGED <<le, win>>

Next == Query

Spec == Init /\ [][Next]_vars

-----------------------------------------------------------------------------
(* Reference definitions on the network-order bit string.                 *)

IsIP(a) == a.type \in {1, 2}

Bits(a) == [k \in 1..8 * Len(a.bytes) |->
              (a.bytes[(k - 1) \div 8 + 1] \div 2^(7 - ((k - 1) % 8))) % 2]

\* The number of leading bits two bit strings of one length share.
RefCommonPrefix(a, b) ==
    LET x == Bits(a)
        y == Bits(b)
    IN Min({k \in 1..Len(x) : x[k] # y[k]} \cup {Len(x) + 1}) - 1

\* The bytes of a with every bit from position n on cleared.
RefNetwork(a, n) ==
    [j \in 1..Len(a.bytes) |->
        LET keep == Clamp8(n - 8 * (j - 1))
        IN (a.bytes[j] \div 2^(8 - keep)) * 2^(8 - keep)]

\* Bits i..31 of an IPv4 address are all zero or all one.
RefDegenerate(a, i) ==
    LET host == SubSeq(Bits(a), i + 1, 32)
    IN host = [k \in 1..32 - i |-> 0] \/ host = [k \in 1..32 - i |-> 1]

-----------------------------------------------------------------------------
(* Properties.                                                             *)

\* scamper_addr_prefix (ipv4_prefix, ipv6_prefix) returns the number of
\* leading bits two addresses of the same IP type share, on either byte
\* order, and -1 for mismatched or non-IP types.
PrefixExact ==
    scamper_addr_prefix(sa, sb) =
        IF sa.type = sb.type /\ IsIP(sa) THEN RefCommonPrefix(sa, sb) ELSE -1

\* scamper_addr_inprefix (ipv4_inprefix, ipv6_inprefix, in 32- or 16-bit
\* words): with the bytes of an address of the same type as prefix, for
\* every length that is not negative, a length 0 matches, a length
\* beyond the bit width is an error, and otherwise the result is 1 exactly
\* when the first len bits agree, across the 32-bit word boundaries of
\* IPv6; non-IP types give -1.
InPrefixExact ==
    sa.type = sb.type =>
        LET c == RefCommonPrefix(sa, sb)
        IN \A len \in Lens \cap Nat :
               scamper_addr_inprefix(sa, sb.bytes, len) =
                   IF ~IsIP(sa) THEN -1
                   ELSE IF len = 0 THEN 1
                   ELSE IF len > 8 * Size[sa.type] THEN -1
                   ELSE IF len <= c THEN 1 ELSE 0

\* scamper_addr_netaddr (ipv4_netaddr, ipv6_netaddr) writes the address
\* with every bit from position len on cleared, for 0 < len <= bit width,
\* and fails otherwise.
NetAddrExact ==
    \A len \in Lens :
        scamper_addr_netaddr(sa, len) =
            IF IsIP(sa) /\ 0 < len /\ len <= 8 * Size[sa.type]
            THEN NetResult(0, RefNetwork(sa, len))
            ELSE NetResult(-1, <<>>)

\* scamper_addr_prefixhosts (ipv4_prefixhosts) keeps a common prefix of 31
\* or 32 bits, and otherwise returns the longest length not above the
\* common prefix at which neither address's host part is all zeros or all
\* ones, or 0 (spec.md 4.1).
PrefixHostsExact ==
    scamper_addr_prefixhosts(sa, sb) =
        IF sa.type # sb.type \/ sa.type # 1 THEN -1
        ELSE LET c == RefCommonPrefix(sa, sb)
             IN IF c >= 31 THEN c
                ELSE Max({i \in 0..c : i = 0 \/ (~RefDegenerate(sa, i) /\ ~RefDegenerate(sb, i))})

\* scamper_addr_islinklocal and scamper_addr_isrfc1918 classify by the
\* leading address bits: 169.254/16 and fe80::/10; 10/8, 172.16/12 and
\* 192.168/16; other types are never link-local or private.
ClassifyExact ==
    LET b == sa.bytes
    IN /\ scamper_addr_islinklocal(sa) =
            \/ sa.type = 1 /\ b[1] = 169 /\ b[2] = 254
            \/ sa.type = 2 /\ b[1] = 254 /\ b[2] \div 64 = 2
       /\ scamper_addr_isrfc1918(sa) =
            (sa.type = 1 /\ (b[1] = 10 \/ (b[1] = 172 /\ b[2] \div 16 = 1)
                                       \/ (b[1] = 192 /\ b[2] = 168)))

\* spec.md 4.1 calls a prefix length outside the kind's bit width an error,
\* and ipv4_netaddr/ipv6_netaddr reject netlen <= 0: a negative length
\* given to scamper_addr_inprefix is an error too, whatever memory holds.
InPrefixRejectsNegative ==
    \A len \in Lens :
        (len < 0 /\ IsIP(sa) /\ sa.type = sb.type) =>
            scamper_addr_inprefix(sa, sb.bytes, len) = -1

=============================================================================
