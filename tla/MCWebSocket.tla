---------------------------- MODULE MCWebSocket -----------------------------
(* Instances of WebSocket for TLC. *)
EXTENDS WebSocket

Short == [op |-> "data", fin |-> TRUE, masked |-> TRUE, long |-> FALSE, tooLong |-> FALSE, length |-> 2]

\* Plain frames, empty, long enough to use the mask twice, and with an extended length; pings;
\* a fragment; a frame without a mask and one that is too long.
MixedFrames ==
    {Short,
     [Short EXCEPT !.length = 0],
     [Short EXCEPT !.long = TRUE, !.length = 5],
     [Short EXCEPT !.op = "ping", !.length = 1],
     [Short EXCEPT !.op = "ping", !.long = TRUE],
     [Short EXCEPT !.fin = FALSE],
     [Short EXCEPT !.masked = FALSE],
     [Short EXCEPT !.long = TRUE, !.tooLong = TRUE]}

BoundaryLengths == {0, 1, 124, 125, 126, 127, 128, 255, 256, 257, 65534, 65535, 65536, 65537, 16777216}
=============================================================================
