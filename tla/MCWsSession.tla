------------------------------ MODULE MCWsSession ------------------------------
(* What pages send to my_ws_session, and other clients.                    *)
EXTENDS WsSession

(* A byte that a parser in the wrong place takes for a short text frame,   *)
(* and one that it takes for a reserved opcode.                            *)
Looks == 1
Rough == 123

text(n, a) == [op |-> Text, mask |-> TRUE, len |-> n, fill |-> Looks, answer |-> a, max |-> 0]
control(op, n) == [op |-> op, mask |-> TRUE, len |-> n, fill |-> Looks, answer |-> 0, max |-> 0]

(* A question for the files of json_server.                                *)
files(n, a, m) == [text(n, a) EXCEPT !.max = m]

(* A message, a ping of a keepalive, a message.                            *)
Talk == <<files(2, 125, 8), control(Ping, 0), files(1, 126, 5)>>
(* A message the server does not know, an answer to nobody, a message.     *)
Odd == <<text(1, 0), control(Pong, 1), files(2, 65535, 31)>>
(* A ping that a cut turns into a message of the echo server.              *)
Pinged == <<text(1, 1), control(Ping, 1), text(1, 1)>>
(* A client that does not mask.                                            *)
Bare == <<[text(2, 65537) EXCEPT !.mask = FALSE], text(1, 65536)>>
(* A long message, and the end.                                            *)
Long == <<[text(126, 2) EXCEPT !.fill = Rough], control(Close, 2)>>
(* Frames that my_ws_session refuses.                                      *)
Refused(op) == <<text(1, 1), control(op, 1), text(1, 1)>>

DemoFrames ==
  [talk |-> Talk, odd |-> Odd, pinged |-> Pinged, bare |-> Bare, long |-> Long,
   binary |-> Refused(Binary), continued |-> Refused(Continuation)]

DemoServers ==
  [c \in DOMAIN DemoFrames |->
    CASE c = "talk" -> {"demo", "json", "echo"}
      [] c = "odd" -> {"json"}
      [] c = "pinged" -> {"echo"}
      [] c = "bare" -> {"demo", "echo"}
      [] OTHER -> {"demo"}]

DemoDirectory == 0 .. 40

(* A key: as the head of a frame, its bytes are a text frame, a ping, a    *)
(* refused frame, and a length in two bytes.                               *)
DemoKey == <<1, 137, 8, 126>>
=============================================================================
