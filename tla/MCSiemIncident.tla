--------------------------- MODULE MCSiemIncident ---------------------------
(* A server with its resend loop and two request handlers. *)
EXTENDS SiemIncident

CONSTANTS resend_loop, h1, h2, siem, read

MCCaller == {resend_loop, h1, h2}
MCHandler == {h1, h2}
MCKey == {siem, read}
=============================================================================
