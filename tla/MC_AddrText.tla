---------------------------- MODULE MC_AddrText ----------------------------
(***************************************************************************)
(* Inputs for AddrText: Ethernet and FireWire addresses with bytes below   *)
(* 16 (where "%02x" pads), above 159 (letters) and at 0 and 255; an IPv4   *)
(* address for the external path; buffer sizes at 0, 1, one short of the  *)
(* text, exactly the text and its NUL, and larger.                         *)
(***************************************************************************)
EXTENDS AddrText

MCAddresses == {
    [type |-> 3, bytes |-> <<0, 17, 34, 51, 68, 85>>],
    [type |-> 3, bytes |-> <<1, 17, 160, 255, 10, 0>>],
    [type |-> 3, bytes |-> <<0, 1, 17, 160, 255, 10>>],
    [type |-> 4, bytes |-> <<2, 0, 0, 255, 254, 171, 205, 239>>],
    [type |-> 4, bytes |-> <<2, 0, 0, 255, 254, 171, 205, 15>>],
    [type |-> 3, bytes |-> <<255, 255, 255, 255, 255, 255>>],
    [type |-> 4, bytes |-> <<0, 0, 0, 0, 0, 0, 0, 0>>],
    [type |-> 1, bytes |-> <<192, 168, 1, 1>>]
}

MCSizes == {0, 1, 2, 3, 4, 16, 17, 18, 19, 22, 23, 24, 25, 32}
=============================================================================
