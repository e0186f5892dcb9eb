---------------------------- MODULE MCHttpClient ----------------------------
(* Two requests on any connections, answers with and without a length.                        *)
EXTENDS HttpClient

MCNoLength == -1
=============================================================================
