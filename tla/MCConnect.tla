------------------------------ MODULE MCConnect ------------------------------
(* Three relay addresses, one more than their transport holds, and a host     *)
(* with three connections over the same transport.                            *)
EXTENDS Connect

OneTransport == {"Quic"}
Fast == {1, 2}
ThreeAddresses == 1..3
ThreeQuic == <<"Quic", "Quic", "Quic">>
OneOrTwo == {1, 2}
=============================================================================
