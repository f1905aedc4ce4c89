-------------------------- MODULE MC_AddrCompare --------------------------
(***************************************************************************)
(* Inputs for AddrCompare: IPv4 and IPv6 addresses whose network order and *)
(* little-endian word order disagree (1.0.0.2 and 2.0.0.1), that differ   *)
(* only in a later IPv6 word, and Ethernet and FireWire addresses.        *)
(***************************************************************************)
EXTENDS AddrCompare

V4(a, b, c, d) == [type |-> 1, bytes |-> <<a, b, c, d>>]
Z8 == <<0, 0, 0, 0, 0, 0, 0, 0>>

MCAddresses == {
    V4(1, 0, 0, 2), V4(2, 0, 0, 1), V4(1, 0, 0, 1), V4(10, 0, 0, 1),
    [type |-> 2, bytes |-> <<32, 1, 13, 184>> \o Z8 \o <<0, 0, 0, 1>>],
    [type |-> 2, bytes |-> <<32, 1, 13, 184>> \o Z8 \o <<1, 0, 0, 0>>],
    [type |-> 2, bytes |-> <<1, 0, 0, 2>> \o Z8 \o <<0, 0, 0, 0>>],
    [type |-> 2, bytes |-> <<2, 0, 0, 1>> \o Z8 \o <<0, 0, 0, 0>>],
    [type |-> 3, bytes |-> <<0, 17, 34, 51, 68, 85>>],
    [type |-> 3, bytes |-> <<0, 17, 34, 51, 68, 86>>],
    [type |-> 4, bytes |-> <<2, 0, 0, 0, 0, 0, 0, 1>>]
}
=============================================================================
