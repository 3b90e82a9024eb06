--------------------------- MODULE MCAesdHandler ---------------------------
(***************************************************************************)
(* Small instances of AesdHandler: the digits stand for the bytes of       *)
(* packets too.                                                            *)
(***************************************************************************)
EXTENDS AesdHandler

CONSTANTS h1, h2

\* Two packets, which together have BUFFER_SIZE bytes, from one client; from the other
\* a packet, or a seek command, which recv may split so
\* that its numbers are not all there and become a packet.
MixedScripts == {h1 :> <<1, 2, 3, NEWLINE, 4, NEWLINE>> @@ h2 :> s :
                   s \in {<<5, NEWLINE>>, <<SEEK1, SEEK2, 0, COMMA, 1, NEWLINE>>}}

\* One packet more than the device keeps, each of the same size.
FullScripts == {h1 :> <<1, NEWLINE, 2, NEWLINE, 3, NEWLINE>>}

=============================================================================
