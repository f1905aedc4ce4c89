--------------------------- MODULE MC_AddrFamily ---------------------------
(***************************************************************************)
(* Model-checking instance of AddrFamily: two values of each family, so    *)
(* that taking the first and taking the last candidate differ, and result  *)
(* lists of up to three candidates, so that a skipped candidate of another *)
(* family can precede the first usable one.                                *)
(***************************************************************************)
EXTENDS AddrFamily

Z14 == <<0, 0, 0, 0, 0, 0, 0, 0, 0, 0, 0, 0, 0, 0>>

\* 192.0.2.1 and 10.0.0.1
MCV4Addrs == {<<192, 0, 2, 1>>, <<10, 0, 0, 1>>}

\* 2001:db8::1 and fe80::1
MCV6Addrs == {<<32, 1, 13, 184>> \o SubSeq(Z14, 1, 11) \o <<1>>,
              <<254, 128>> \o SubSeq(Z14, 1, 13) \o <<1>>}
=============================================================================
