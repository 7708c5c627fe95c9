--------------------------- MODULE MCTlsTransport ---------------------------
(* One client, a handshake of a flight each way, a ring that can overflow. *)
EXTENDS TlsTransport

\* ClientHello, the server's flight, the client's certificate and Finished.
TwoFlights == <<"send", "recv", "send">>
=============================================================================
