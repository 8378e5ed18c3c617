----------------------------- MODULE MCWebSocket -----------------------------
(***************************************************************************)
(* Inputs for WebSocket: handshakes, and frames with the messages that     *)
(* they are to give.                                                       *)
(***************************************************************************)
EXTENDS WebSocket

Shake(start, extensions) ==
  [connection |-> {"keep-alive", "upgrade"}, upgrade |-> {"websocket"}, start |-> start,
   version |-> {"13"}, responseExtensions |-> FALSE, sameOrigin |-> TRUE, proof |-> TRUE,
   extensions |-> extensions]
Both == {"permessage-deflate", "no_context_takeover"}
MCRequests ==
  {Shake("GET", {"permessage-deflate"}), [Shake("GET", {}) EXCEPT !.version = {"8"}],
   [Shake("GET", {}) EXCEPT !.responseExtensions = TRUE],
   Shake("101", Both), Shake("101", {"permessage-deflate"})}
MCGoodRequests == {Shake("GET", {})}

\* Frames: the usual one, and what differs from it.
F(op, fin, len) ==
  [op |-> op, fin |-> fin, len |-> len, negative |-> FALSE, rsv1 |-> FALSE, rsv23 |-> FALSE, ext |-> FALSE,
   utf8 |-> TRUE, corrupt |-> FALSE, inflated |-> 0, code |-> 1000]
Long(f) == [f EXCEPT !.ext = TRUE]
Negative(f) == [Long(f) EXCEPT !.negative = TRUE]
Bad(f) == [f EXCEPT !.utf8 = FALSE]
Deflated(f, n) == [f EXCEPT !.rsv1 = TRUE, !.inflated = n]
Msg(op, of) == [op |-> op, of |-> of, last |-> of[Len(of)]]
In(frames, messages, n) ==
  [frames |-> frames, messages |-> messages, onMessage |-> TRUE, sends |-> n]
OnlyFrames(frames) == [In(frames, <<>>, 0) EXCEPT !.onMessage = FALSE]
Invalid(f) == In(<<F("text", TRUE, 1), f, F("text", TRUE, 1)>>, <<Msg("text", <<1>>)>>, 0)

MCInputs ==
  {\* a fragmented message with a ping inside, then another
   In(<<F("text", FALSE, 2), F("ping", TRUE, 1), F("cont", TRUE, 1), Long(F("binary", TRUE, 2))>>,
      <<Msg("text", <<1, 3>>), Msg("binary", <<4>>)>>, 0),
   \* compressed, empty and invalid messages
   In(<<Deflated(F("binary", FALSE, 2), 0), [F("cont", TRUE, 0) EXCEPT !.inflated = 3],
        F("text", TRUE, 0)>>, <<Msg("binary", <<1, 2>>)>>, 0),
   In(<<F("text", TRUE, 1), Deflated(F("text", TRUE, 0), 0)>>, <<Msg("text", <<1>>)>>, 0),
   In(<<Deflated(F("binary", TRUE, 2), 4)>>, <<Msg("binary", <<1>>)>>, 0),
   In(<<F("text", TRUE, 1), Deflated(F("text", TRUE, 2), 9)>>, <<Msg("text", <<1>>)>>, 0),
   In(<<F("text", TRUE, 1), [Deflated(F("text", TRUE, 2), 2) EXCEPT !.corrupt = TRUE]>>,
      <<Msg("text", <<1>>)>>, 0),
   In(<<Bad(F("text", TRUE, 1)), F("pong", TRUE, 0)>>, <<>>, 0),
   In(<<F("cont", TRUE, 1)>>, <<>>, 0),
   \* invalid frames, and what is too long
   Invalid([F("text", TRUE, 0) EXCEPT !.rsv23 = TRUE]), Invalid(F("reserved", TRUE, 0)),
   Invalid(F("ping", FALSE, 0)), Invalid(Negative(F("text", TRUE, 0))),
   Invalid(F("ping", TRUE, 3)), Invalid(Long(F("text", TRUE, 7))),
   In(<<F("text", FALSE, 1), F("binary", TRUE, 1), F("cont", TRUE, 1)>>, <<>>, 0),
   In(<<F("text", FALSE, 3), F("cont", TRUE, 2)>>, <<>>, 0),
   \* OnDataFrame without OnMessage
   OnlyFrames(<<F("text", FALSE, 1), F("binary", TRUE, 1)>>),
   \* the closing handshake
   In(<<F("close", TRUE, 0), F("text", TRUE, 1)>>, <<Msg("text", <<2>>)>>, 0),
   In(<<F("close", TRUE, 2)>>, <<>>, 0),
   In(<<[F("close", TRUE, 2) EXCEPT !.code = 1005]>>, <<>>, 0),
   In(<<F("close", TRUE, 1)>>, <<>>, 0),
   \* writers while a ping is answered
   In(<<F("ping", TRUE, 1)>>, <<>>, 2), In(<<>>, <<>>, 3)}
MCOrderInputs == {In(<<F("text", TRUE, 1)>>, <<Msg("text", <<1>>)>>, 0)}
=============================================================================
