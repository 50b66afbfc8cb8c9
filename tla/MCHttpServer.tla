---------------------------- MODULE MCHttpServer ----------------------------
(***************************************************************************)
(* HttpServer for TLC: a provider that moves from k1 to k2 and may publish *)
(* a key of another algorithm (e1) beside k2; a limit of one request.      *)
(***************************************************************************)
EXTENDS HttpServer

CONSTANTS k1, k2, e1, r1

MCRequest == {r1}
MCKey == {k1, k2, e1}
MCRs256 == {k1, k2}
MCJwksSets == {{k1}, {k2}, {k2, e1}}
=============================================================================
