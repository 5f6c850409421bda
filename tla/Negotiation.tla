----------------------------- MODULE Negotiation -----------------------------
(***************************************************************************)
(* What the multi-protocol server promises to one TCP connection, with no  *)
(* word of sessions, handlers, sockets or chunks of bytes:                 *)
(*                                                                         *)
(*   - a connection is negotiated, possibly upgraded to WebSocket once,    *)
(*     then served by ONE protocol, then closed, and never goes back;      *)
(*   - a protocol that is chosen by a GUID serves only a client that       *)
(*     announced that GUID;                                                *)
(*   - a protocol that speaks WebSocket frames serves only a connection    *)
(*     that was upgraded, and HTTP only one that was not.                  *)
(*                                                                         *)
(* MultiProtocol.tla implements this module.                               *)
(***************************************************************************)
CONSTANTS
  Conn,          \* connections
  Protocol,      \* protocol indexes
  Http,          \* the protocols that serve plain HTTP requests
  Framed,        \* the protocols that speak WebSocket frames
  NoProtocol     \* not a protocol

VARIABLES
  stage,         \* how far each connection is
  served,        \* the protocol that serves it, or NoProtocol
  announced      \* the protocol whose GUID its client sends, or NoProtocol

avars == <<stage, served, announced>>

Stage == {"absent", "negotiating", "upgraded", "serving", "closed"}

ATypeOK == /\ stage \in [Conn -> Stage]
           /\ served \in [Conn -> Protocol \cup {NoProtocol}]
           /\ announced \in [Conn -> Protocol \cup {NoProtocol}]

AInit == /\ stage = [c \in Conn |-> "absent"]
         /\ served = [c \in Conn |-> NoProtocol]
         /\ announced \in [Conn -> Protocol \cup {NoProtocol}]

Open(c) ==
  /\ stage[c] = "absent"
  /\ stage' = [stage EXCEPT ![c] = "negotiating"]
  /\ UNCHANGED <<served, announced>>

Upgrade(c) ==
  /\ stage[c] = "negotiating"
  /\ stage' = [stage EXCEPT ![c] = "upgraded"]
  /\ UNCHANGED <<served, announced>>

Serve(c, p) ==
  /\ stage[c] \in {"negotiating", "upgraded"}
  /\ p \in Http => stage[c] = "negotiating"
  /\ p \in Framed => stage[c] = "upgraded"
  /\ p \notin Http => announced[c] = p
  /\ stage' = [stage EXCEPT ![c] = "serving"]
  /\ served' = [served EXCEPT ![c] = p]
  /\ UNCHANGED announced

Close(c) ==
  /\ stage[c] \in {"negotiating", "upgraded", "serving"}
  /\ stage' = [stage EXCEPT ![c] = "closed"]
  /\ served' = [served EXCEPT ![c] = NoProtocol]
  /\ UNCHANGED announced

ANext == \E c \in Conn :
  \/ Open(c)
  \/ Upgrade(c)
  \/ \E p \in Protocol : Serve(c, p)
  \/ Close(c)

ASpec == AInit /\ [][ANext]_avars
=============================================================================
