------------------------------- MODULE TcpEcho -------------------------------
(***************************************************************************)
(* The echo of raw TCP sessions: the strings that tcp_session reads and    *)
(* writes, my_tcp_session of the demo server, which echoes once, the       *)
(* session of echo_server, which loops, and their clients.                 *)
(*                                                                         *)
(* A byte is known by its place in the stream of the client.  A read takes *)
(* any part of what has been typed, a write hands over any part of what is *)
(* left of it, and Window bytes may wait for the client to read.           *)
(***************************************************************************)
EXTENDS Integers, SequencesExt

CONSTANTS
  MaxTyped,      \* bytes that a client types
  BufferSize,    \* of incoming_data_t
  Window         \* bytes under way to a client that does not read

ASSUME EchoAssumption ==
  MaxTyped \in Nat /\ BufferSize \in Nat \ {0} /\ Window \in Nat \ {0}

VARIABLES
  session,   \* "once": my_tcp_session; "loop": the session of echo_server
  client,    \* "raw" and "quiet" are the programs; a "user" is any other
  phase,     \* where the client is
  typed,     \* bytes that the client has written
  rd,        \* bytes that the session has read
  reading,   \* a read is outstanding
  writes,    \* what is left of outstanding writes, in the order they go on
  open,      \* the session's socket is open
  down,      \* bytes under way to the client
  got        \* bytes that the client has read

vars == <<session, client, phase, typed, rd, reading, writes, open, down, got>>
clientVars == <<client, phase, typed, got>>
sessionVars == <<session, rd, reading, writes, open>>

Bytes(a, b) == [i \in 1 .. b - a |-> a + i]
Gone == phase \in {"ended", "failed"}

(* An end that closes with bytes it has not read resets the connection.    *)
ClientResets == Gone /\ down # <<>>
SessionResets == ~open /\ rd < typed

(* Behind its handshake, the session has started to read.                  *)
Init ==
  /\ session \in {"once", "loop"}
  /\ client \in {"user", IF session = "once" THEN "raw" ELSE "quiet"}
  /\ phase = "typing" /\ typed = 0
  /\ rd = 0 /\ reading = TRUE /\ writes = <<>> /\ open = TRUE
  /\ down = <<>> /\ got = <<>>

-----------------------------------------------------------------------------
(* The clients.                                                            *)

(* A line, which may be empty.  A user types as many as he likes.          *)
Type ==
  /\ phase = "typing"
  /\ \E n \in 0 .. MaxTyped - typed : typed' = typed + n
  /\ phase' = CASE client = "raw" -> "reading"
                [] client = "quiet" -> "leaving"
                [] client = "user" -> "typing"
  /\ UNCHANGED <<client, got, sessionVars, down>>

(* mpt_raw_client reads as many bytes as it has written.                   *)
Read ==
  /\ phase = "reading" \/ (client = "user" /\ ~Gone)
  /\ \E n \in 1 .. Len(down) :
       /\ client = "raw" => Len(got) + n <= typed
       /\ got' = got \o SubSeq(down, 1, n)
       /\ down' = SubSeq(down, n + 1, Len(down))
  /\ UNCHANGED <<client, phase, typed, sessionVars>>

Ends ==
  /\ \/ client = "raw" /\ phase = "reading" /\ Len(got) = typed
     \/ client = "quiet" /\ phase = "leaving"
     \/ client = "user" /\ ~Gone
  /\ phase' = "ended"
  /\ UNCHANGED <<client, typed, got, sessionVars, down>>

(* Its read ends with an error: behind the last byte, or anywhere when the *)
(* connection has been reset.                                              *)
ReplyIsShort ==
  /\ client = "raw" /\ phase = "reading" /\ Len(got) < typed
  /\ ~open /\ (down = <<>> \/ SessionResets)
  /\ phase' = "failed"
  /\ UNCHANGED <<client, typed, got, sessionVars, down>>

-----------------------------------------------------------------------------
(* The session.                                                            *)

(* shutdown, with the end of what is outstanding.                          *)
Close == open' = FALSE /\ reading' = FALSE /\ writes' = <<>>

(* my_tcp_session and my_session: written back, whatever is being written. *)
on_read_string(bytes) == writes' = Append(writes, bytes)

(* Mutant: the session reads on at once.                                   *)
on_async_read_string_ReadsOn ==
  /\ reading /\ rd < typed
  /\ \E n \in 1 .. typed - rd :
       /\ n <= BufferSize
       /\ rd' = rd + n
       /\ on_read_string(Bytes(rd, rd + n))
  /\ UNCHANGED <<session, reading, open, clientVars, down>>

on_async_read_string ==
  /\ reading /\ rd < typed
  /\ \E n \in 1 .. typed - rd :
       /\ n <= BufferSize
       /\ rd' = rd + n
       /\ on_read_string(Bytes(rd, rd + n))
  /\ reading' = FALSE
  /\ UNCHANGED <<session, open, clientVars, down>>

(* Mutant: it reads again also after an error.                             *)
ReadFails_Again ==
  /\ reading /\ Gone /\ (rd = typed \/ ClientResets)
  /\ UNCHANGED vars

(* on_async_read_string with an error: on_error_code.                      *)
ReadFails ==
  /\ reading /\ Gone /\ (rd = typed \/ ClientResets)
  /\ Close
  /\ UNCHANGED <<session, rd, clientVars, down>>

(* Mutant: the session of echo_server does not override on_write.          *)
on_write_NoLoop(left) ==
  IF left # <<>> THEN writes' = left /\ UNCHANGED <<reading, open>> ELSE Close

(* Mutant: something keeps my_tcp_session alive.                           *)
on_write_Kept(left) ==
  /\ reading' = (session = "loop") /\ writes' = left
  /\ UNCHANGED open

(* A write has ended.  The session of echo_server reads again, also after  *)
(* an error; my_tcp_session starts nothing, and is destroyed.              *)
on_write(left) ==
  \/ session = "loop" /\ writes' = left /\ reading' = TRUE /\ UNCHANGED open
  \/ session = "once" /\ Close

(* Mutant: what a partial write leaves is forgotten.                       *)
WriteSome_Once ==
  /\ writes # <<>>
  /\ \E n \in DOMAIN Head(writes) :
       /\ Gone \/ Len(down) + n <= Window
       /\ down' = down \o SubSeq(Head(writes), 1, n)
       /\ on_write(Tail(writes))
  /\ UNCHANGED <<session, rd, clientVars>>

(* Mutant: a write that goes on begins again.                              *)
WriteSome_Again ==
  /\ writes # <<>>
  /\ \E n \in DOMAIN Head(writes) :
       /\ Gone \/ Len(down) + n <= Window
       /\ down' = down \o SubSeq(Head(writes), 1, n)
       /\ \/ n = Len(Head(writes)) /\ on_write(Tail(writes))
          \/ n < Len(Head(writes)) /\ UNCHANGED <<writes, reading, open>>
  /\ UNCHANGED <<session, rd, clientVars>>

(* A composed write goes on behind the writes started meanwhile.           *)
WriteSome ==
  /\ writes # <<>>
  /\ \E n \in DOMAIN Head(writes) :
       LET rest == SubSeq(Head(writes), n + 1, Len(Head(writes))) IN
       /\ Gone \/ Len(down) + n <= Window
       /\ down' = down \o SubSeq(Head(writes), 1, n)
       /\ \/ rest = <<>> /\ on_write(Tail(writes))
          \/ /\ rest # <<>> /\ writes' = Append(Tail(writes), rest)
             /\ UNCHANGED <<reading, open>>
  /\ UNCHANGED <<session, rd, clientVars>>

WriteFails ==
  /\ writes # <<>> /\ Gone
  /\ on_write(Tail(writes))
  /\ UNCHANGED <<session, rd, clientVars, down>>

Session == on_async_read_string \/ ReadFails \/ WriteSome \/ WriteFails

Next == Type \/ Read \/ Ends \/ ReplyIsShort \/ Session

Spec == Init /\ [][Next]_vars

(* io_service::run handles what has completed.  mpt_raw_client blocks in   *)
(* read and nowhere else behind its line; nobody has to type.              *)
RawReads == client = "raw" /\ (Read \/ Ends \/ ReplyIsShort)
FairSpec == Spec /\ WF_vars(Session) /\ WF_vars(RawReads)

-----------------------------------------------------------------------------
(* Every field has its type, and a session that is open has exactly one    *)
(* operation outstanding: async_write queues nothing.                      *)
TypeOK ==
  /\ session \in {"once", "loop"} /\ client \in {"raw", "quiet", "user"}
  /\ phase \in {"typing", "reading", "leaving", "ended", "failed"}
  /\ typed \in 0 .. MaxTyped /\ rd \in 0 .. typed
  /\ reading \in BOOLEAN /\ open \in BOOLEAN
  /\ Len(writes) = IF open /\ ~reading THEN 1 ELSE 0
  /\ reading => open
  /\ got \in Seq(1 .. MaxTyped) /\ down \in Seq(1 .. MaxTyped)

(* What the client has got, what is under way to it and what is being      *)
(* written are the bytes it has typed, each once and in order, up to the   *)
(* last that was read, although partial writes go on behind new ones.      *)
EchoInOrder ==
  /\ got = Bytes(0, Len(got))
  /\ ~Gone => got \o down \o FlattenSeq(writes) = Bytes(0, rd)

(* The echo as its client sees it (EchoChannel.tla): every step of session *)
(* and client is a step, or no step, of that promise.                      *)
Echo == INSTANCE EchoChannel WITH
          said <- Bytes(0, typed), heard <- got, ended <- Gone
ImplementsEcho == Echo!Spec

(* mpt_raw_client fails only when the one read of my_tcp_session has cut   *)
(* its line: if its line was read whole, it gets the whole reply, although *)
(* the session closes as soon as it has been handed over.                  *)
OnlyCutLinesFail == phase = "failed" => rd \in 1 .. typed - 1

(* mpt_raw_client comes to its end, with the reply or with an error.       *)
RawClientEnds == phase = "reading" ~> phase \in {"ended", "failed"}

(* A session ends when its client has gone, also the one that does not     *)
(* look at the error of a write.                                           *)
SessionEnds == Gone ~> ~open

(* The session of echo_server keeps up with a user who stays, as far as    *)
(* the user makes room by reading.                                         *)
EchoKeepsUp ==
  \A k \in 1 .. MaxTyped :
    (session = "loop" /\ typed = k) ~> (Len(got \o down) >= k \/ Len(down) = Window \/ Gone)
=============================================================================
