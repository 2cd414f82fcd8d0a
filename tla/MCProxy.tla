------------------------------ MODULE MCProxy ------------------------------
(***************************************************************************)
(* Instances of Proxy.                                                     *)
(***************************************************************************)
EXTENDS Proxy

CONSTANTS r1, r2

\* A handshake that the upstream answers without a 101 is an ordinary GET.
get       == [safe |-> TRUE, body |-> FALSE, upgrade |-> FALSE]
handshake == [safe |-> TRUE, body |-> FALSE, upgrade |-> TRUE]
upload    == [safe |-> FALSE, body |-> TRUE, upgrade |-> FALSE]

Gets == {get}
HandshakesAndUploads == {handshake, upload}

NoPath   == [u \in Upstream |-> <<>>]
SomePath == [u \in Upstream |-> <<"base">>]
=============================================================================
