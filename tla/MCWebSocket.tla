----------------------------- MODULE MCWebSocket -----------------------------
(* Messages of one frame and of two, empty, small, and with lengths of two and of eight *)
(* bytes; each control frame.                                                           *)
EXTENDS WebSocket

Frame(fin, op, masked, size) == [fin |-> fin, op |-> op, masked |-> masked, size |-> size]
MCFrames ==
  {Frame(TRUE, TEXT, FALSE, 0), Frame(TRUE, TEXT, TRUE, 3), Frame(FALSE, TEXT, FALSE, 130),
   Frame(TRUE, TEXT, FALSE, 66000), Frame(TRUE, CONTINUATION, FALSE, 2),
   Frame(TRUE, PING, FALSE, 2), Frame(TRUE, PONG, FALSE, 1), Frame(TRUE, CLOSE, FALSE, 1)}
=============================================================================
