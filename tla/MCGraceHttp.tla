---------------------------- MODULE MCGraceHttp ----------------------------
(* GraceHttp for TLC: a Run, two calls of Shutdown, two requests.           *)
EXTENDS GraceHttp

=============================================================================
