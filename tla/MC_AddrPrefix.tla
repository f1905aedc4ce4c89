--------------------------- MODULE MC_AddrPrefix ---------------------------
(***************************************************************************)
(* Inputs for AddrPrefix: IPv4 and IPv6 addresses at the boundaries of the *)
(* algorithms (all zeros, all ones, network and broadcast addresses, pairs *)
(* differing in the last bit, in a word boundary bit, in the first bit),   *)
(* the examples of spec.md section 8, and one Ethernet address for the     *)
(* kinds without prefix handlers.                                          *)
(***************************************************************************)
EXTENDS AddrPrefix

V4(a, b, c, d) == [type |-> 1, bytes |-> <<a, b, c, d>>]
V6(s) == [type |-> 2, bytes |-> s]

Z12 == <<0, 0, 0, 0, 0, 0, 0, 0, 0, 0, 0, 0>>

MCAddresses == {
    V4(0, 0, 0, 0), V4(255, 255, 255, 255),
    V4(192, 168, 1, 0), V4(192, 168, 1, 1), V4(192, 168, 1, 255),
    V4(192, 168, 1, 130), V4(192, 168, 3, 7), V4(128, 0, 0, 0),
    V4(169, 254, 5, 5), V4(10, 0, 0, 1), V4(172, 16, 0, 1),
    V4(172, 32, 0, 1), V4(8, 8, 8, 8),
    \* fe80::1, febf::, fec0::, 2001:db8::1, 2001:db8::, 2001:db8:0:1::,
    \* 2001:db8::8000:0, ::
    V6(<<254, 128>> \o Z12 \o <<0, 1>>), V6(<<254, 191>> \o Z12 \o <<0, 0>>),
    V6(<<254, 192>> \o Z12 \o <<0, 0>>),
    V6(<<32, 1, 13, 184>> \o Z12), V6(<<32, 1, 13, 185>> \o Z12),
    V6(<<32, 1, 13, 184, 0, 0, 0, 1>> \o <<0, 0, 0, 0, 0, 0, 0, 0>>),
    V6(<<32, 1, 13, 184>> \o <<0, 0, 0, 0, 0, 0, 0, 0, 128, 0, 0, 0>>),
    V6(<<32, 1, 13, 184>> \o <<0, 0, 0, 0, 0, 0, 0, 0, 0, 0, 0, 1>>),
    V6(<<0, 0, 0, 0>> \o Z12),
    [type |-> 3, bytes |-> <<0, 17, 34, 51, 68, 85>>]
}

MCLens == {-1, 0, 1, 7, 8, 9, 12, 16, 23, 24, 30, 31, 32, 33,
           63, 64, 65, 95, 96, 97, 127, 128, 129}
\* Words an out-of-bounds read may return: all zeros, all ones, and a word
\* that differs by byte order.
MCOobWords == {<<0, 0, 0, 0>>, <<255, 255, 255, 255>>, <<255, 0, 0, 0>>}
=============================================================================
