------------------------------ MODULE AddrText ------------------------------
(***************************************************************************)
(* Text rendering of addresses (scamper_addr.c): scamper_addr_tostr        *)
(* dispatches to handlers[type-1].tostr; ethernet_tostr and firewire_tostr *)
(* format the bytes with snprintf("%02x:...") into the caller's buffer of  *)
(* size bytes; ipv4_tostr and ipv6_tostr hand the bytes to the external    *)
(* addr_tostr, which is outside this file and is not modelled.             *)
(*                                                                         *)
(* Text is a sequence of one-character strings.  snprintf(buf, len, ...)   *)
(* writes the first len-1 characters of its output and a NUL when len > 0, *)
(* and nothing when len = 0; the model gives the characters before the     *)
(* NUL, or Untouched.                                                      *)
(*                                                                         *)
(* The state is one query: an address and a buffer size.                   *)
(***************************************************************************)
EXTENDS Naturals, Sequences, SequencesExt

CONSTANTS
    Addresses,  \* [type, bytes] records queries are drawn from
    Sizes,      \* buffer sizes passed as len
    Untouched,  \* the buffer content when snprintf writes nothing
    External    \* the result of the external addr_tostr

VARIABLES
    sa,         \* the address
    size        \* the size of the caller's buffer

vars == <<sa, size>>

HexChars == <<"0", "1", "2", "3", "4", "5", "6", "7",
              "8", "9", "a", "b", "c", "d", "e", "f">>

\* "%02x" of one byte: two lowercase hex digits, zero padded.
Fmt02x(b) == <<HexChars[b \div 16 + 1], HexChars[(b % 16) + 1]>>

\* The format "%02x:%02x:...:%02x" with n conversions, applied to bytes.
RECURSIVE FmtHexColon(_, _)
FmtHexColon(bytes, n) ==
    IF n = 1 THEN Fmt02x(bytes[1])
    ELSE FmtHexColon(bytes, n - 1) \o <<":">> \o Fmt02x(bytes[n])

\* snprintf(buf, len, ...) as the buffer holds it afterwards.
Snprintf(len, out) ==
    IF len = 0 THEN Untouched ELSE SubSeq(out, 1, Min({len - 1, Len(out)}))

ethernet_tostr(a, len) == Snprintf(len, FmtHexColon(a.bytes, 6))

\* Mutant: firewire_tostr written from ethernet_tostr, with six
\* conversions instead of eight.
FirewireTostrSix(a, len) == Snprintf(len, FmtHexColon(a.bytes, 6))

firewire_tostr(a, len) == Snprintf(len, FmtHexColon(a.bytes, 8))

\* addr_tostr(AF_INET / AF_INET6, addr->addr, buf, len)
ipv4_tostr(a, len) == External
ipv6_tostr(a, len) == External

\* handlers[type-1].tostr(sa, dst, size); return dst
scamper_addr_tostr(a, len) ==
    CASE a.type = 1 -> ipv4_tostr(a, len)
      [] a.type = 2 -> ipv6_tostr(a, len)
      [] a.type = 3 -> ethernet_tostr(a, len)
      [] a.type = 4 -> firewire_tostr(a, len)

-----------------------------------------------------------------------------
Init ==
    /\ sa = CHOOSE a \in Addresses : TRUE
    /\ size = CHOOSE n \in Sizes : TRUE

\* The caller renders an address into a buffer.
Query ==
    /\ sa' \in Addresses
    /\ size' \in Sizes

Next == Query

Spec == Init /\ [][Next]_vars

-----------------------------------------------------------------------------
(* Reference: the text of spec.md section 6, read back.                    *)

HexValue(c) == CHOOSE v \in 0..15 : HexChars[v + 1] = c

\* s is n lowercase hex byte pairs separated by colons, spelling bytes.
SpellsBytes(s, bytes, n) ==
    /\ Len(s) = 3 * n - 1
    /\ \A i \in 1..n :
          /\ \A j \in 0..1 : s[3 * i - 2 + j] \in Range(HexChars)
          /\ 16 * HexValue(s[3 * i - 2]) + HexValue(s[3 * i - 1]) = bytes[i]
          /\ i < n => s[3 * i] = ":"

\* The number of bytes rendered for a link-layer type.
Width(t) == IF t = 3 THEN 6 ELSE 8

(***************************************************************************)
(* Properties.                                                             *)
(***************************************************************************)

\* scamper_addr_tostr of an Ethernet or FireWire address never writes past
\* the caller's buffer, leaves it untouched when size is 0, writes a
\* prefix of the spec.md section 6 text otherwise, and writes all of it,
\* which reads back to the address bytes, when the buffer has room for
\* the text and its NUL (18 or 24 bytes).
TostrFormat ==
    sa.type \in {3, 4} =>
        LET out == scamper_addr_tostr(sa, size)
            n == Width(sa.type)
            full == FmtHexColon(sa.bytes, n)   \* what snprintf formats
        IN IF size = 0 THEN out = Untouched
           ELSE /\ SpellsBytes(full, sa.bytes, n)
                /\ Len(out) <= size - 1
                /\ out = SubSeq(full, 1, Len(out))
                /\ size >= 3 * n => out = full

=============================================================================
