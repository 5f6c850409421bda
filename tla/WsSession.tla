------------------------------ MODULE WsSession ------------------------------
(***************************************************************************)
(* A WebSocket session: data_frame_parser, ws_session, and the on_read of  *)
(* the demo's my_ws_session, of the session of json_server and of that of  *)
(* echo_ws_server.  The demo's session begins behind the negotiation of    *)
(* MultiProtocol; the others are alone on their servers, and begin with    *)
(* the first read of their handshake.                                      *)
(*                                                                         *)
(* The client's frames are one stream of bytes, and each read completes    *)
(* with any part of it.  The parser keeps its state from read to read, but *)
(* the frame it fills is a local variable of the handler, and what is left *)
(* in the buffer behind a complete frame is not looked at.                 *)
(*                                                                         *)
(* A byte is a number.  A payload is known by where it lies in the stream  *)
(* and by the masking key it is decoded with: it is the payload of a       *)
(* frame the client sent, or Garbage.                                      *)
(***************************************************************************)
EXTENDS Integers, SequencesExt, Shortening

CONSTANTS
  Frames,       \* Frames[c]: the frames that a client of kind c sends
  Servers,      \* Servers[c]: the servers that a client of kind c visits
  Directory,    \* the lengths of the names in the directory of json_server
  Key,          \* the four bytes of a masking key
  BufferSize    \* of incoming_data_t

(* data_frame::operation_code, on the wire.                                *)
Continuation == 0
Text == 1
Binary == 2
Close == 8
Ping == 9
Pong == 10
Reserved == 15
Opcode == {Continuation, Text, Binary, Close, Ping, Pong, Reserved}

(* A length for all that do not fit TLC's integers, and the bound of those *)
(* that are told apart.                                                    *)
TooLong == 8388607
Longest == 256 * (TooLong \div 256) - 1

(* A frame: its opcode, whether it is masked, its length, a byte that      *)
(* fills its payload, how long the answer to it is, 0 for none, of the     *)
(* servers that know messages, and the max_length of a question for the    *)
(* files of json_server, 0 if it is no such question.                      *)
Frame ==
  [op : Opcode, mask : BOOLEAN, len : 0 .. Longest, fill : 0 .. 255, answer : 0 .. Longest,
   max : Nat \ 1 .. 3]

(* A message is not empty: it is JSON.                                     *)
ASSUME ClientsAssumption ==
  /\ Servers \in [DOMAIN Frames -> SUBSET {"demo", "json", "echo"}]
  /\ \A c \in DOMAIN Frames :
       /\ Frames[c] \in Seq(Frame)
       /\ \A i \in DOMAIN Frames[c] :
            /\ Frames[c][i].op = Text => Frames[c][i].len > 0
            /\ Frames[c][i].answer > 0 => Frames[c][i].op = Text
  /\ Directory \subseteq Nat
  /\ Key \in [1 .. 4 -> 0 .. 255]
  /\ BufferSize \in Nat \ {0}

VARIABLES
  server,     \* whose session this is
  stage,      \* how far its handshake is
  client,     \* the kind of client of this session
  patient,    \* it waits for the reply that upgrades, and for answers
  asked,      \* its request: with a key, "other", or none yet
  sent,       \* how many frames it has written
  gone,       \* it has closed the connection
  rd,         \* how many bytes the session has read
  parser,     \* the data_frame_parser: its state
  from,       \* rd when this parser was made
  tidy,       \* each read so far was one frame
  reading,    \* a read is outstanding
  open,       \* the socket is open
  delivered,  \* what on_read was given, in order
  writes,     \* outstanding async_writes, in the order they write next
  out         \* what the client gets: headers and payloads of answers

clientVars == <<server, client, patient, asked, sent, gone>>
readVars == <<stage, rd, parser, from, tidy, reading, open, delivered>>
vars == <<clientVars, readVars, writes, out>>

Garbage == 0
State == {"fin_opcode", "mask_payload_len", "extended_payload_len", "masking_key", "payload"}
Number(c) == Len(Frames[c])

-----------------------------------------------------------------------------
(* Headers.                                                                *)

(* The w bytes of n, the most significant first: hton16, hton64.           *)
Place == <<1, 256, 65536, 16777216>>
BigEndian(n, w) == [i \in 1 .. w |-> IF w - i > 3 THEN 0 ELSE (n \div Place[w - i + 1]) % 256]

(* Mutant: 126 in the seven bits of a length is no length.                 *)
to_buffers_OffByOne(op, n) ==
  <<128 + op>> \o
  (IF n <= 126 THEN <<n>>
   ELSE IF n < 65537 THEN <<126>> \o BigEndian(n % 65536, 2)
   ELSE <<127>> \o BigEndian(n, 8))

(* The header of an unmasked frame with n bytes.                           *)
to_buffers(op, n) ==
  <<128 + op>> \o
  (IF n < 126 THEN <<n>>
   ELSE IF n < 65537 THEN <<126>> \o BigEndian(n % 65536, 2)
   ELSE <<127>> \o BigEndian(n, 8))

(* What the client writes, by the protocol.                                *)
ClientHeader(f) ==
  LET head == IF f.len < 126 THEN <<f.len>>
              ELSE IF f.len < 65536 THEN <<126>> \o BigEndian(f.len, 2)
              ELSE <<127>> \o BigEndian(f.len, 8)
  IN  <<128 + f.op>> \o
      (IF f.mask THEN <<128 + head[1]>> \o Tail(head) \o Key ELSE head)

ClientFrame(f) == ClientHeader(f) \o [i \in 1 .. f.len |-> f.fill]

Stream == [c \in DOMAIN Frames |-> FlattenSeq([i \in DOMAIN Frames[c] |-> ClientFrame(Frames[c][i])])]

(* Where the i-th frame of a client ends.                                  *)
Ends ==
  [c \in DOMAIN Frames |->
    [i \in 0 .. Number(c) |->
      Len(FlattenSeq([k \in 1 .. i |-> ClientFrame(Frames[c][k])]))]]

End(i) == Ends[client][i]
Written == End(sent)

-----------------------------------------------------------------------------
(* data_frame_parser.  The record p is the parser (state, n), the frame it *)
(* fills, and whether the frame is complete.                               *)

(* mk_frame_parser.                                                        *)
NewParser == [state |-> "fin_opcode", n |-> 0]

(* The frame of a handler, with the parser q; key is 0 while masking_key_  *)
(* is not initialised.                                                     *)
data_frame(q) ==
  [state |-> q.state, n |-> q.n, op |-> Text, mask |-> FALSE, len |-> 0, ext |-> 0, key |-> 0,
   first |-> 0, size |-> 0, done |-> FALSE]

(* Mutant: the length is not converted from the network's order.           *)
Shifted_Host(ext, b) == IF ext >= TooLong \div 256 THEN TooLong ELSE b * 256 + ext
Shifted(ext, b) == IF ext >= TooLong \div 256 THEN TooLong ELSE ext * 256 + b

fin_opcode(p, b) ==
  [p EXCEPT !.op = IF b % 16 \in Opcode THEN b % 16 ELSE Reserved,
            !.state = "mask_payload_len"]

(* What follows a length.                                                  *)
AfterLength(p) ==
  [p EXCEPT !.state = IF p.mask THEN "masking_key" ELSE "payload",
            !.n = IF p.mask THEN 1 ELSE 0]

mask_payload_len(p, b) ==
  LET q == [p EXCEPT !.mask = b >= 128, !.len = b % 128]
  IN  IF q.len = 0 THEN [q EXCEPT !.done = TRUE]
      ELSE IF q.len \in {126, 127} THEN [q EXCEPT !.state = "extended_payload_len", !.n = 1]
      ELSE AfterLength(q)

(* extended_payload_len1 to 8.  The second state asks for the length in    *)
(* the frame: in a frame that is not the one the parser began with, it is  *)
(* 0, and the parser stays.                                                *)
extended_payload_len(p, b) ==
  LET q == [p EXCEPT !.ext = IF p.n = 1 /\ p.len \notin {126, 127} THEN @ ELSE Shifted(@, b)]
  IN  CASE p.n = 2 /\ p.len = 126 -> AfterLength(q)
        [] p.n = 2 /\ p.len \notin {126, 127} -> p
        [] p.n = 8 -> AfterLength(q)
        [] OTHER -> [q EXCEPT !.n = @ + 1]

(* Mutant: the count of key bytes is left behind.                          *)
masking_key_NoReset(p, k) ==
  [p EXCEPT !.key = IF p.n = 1 THEN k ELSE @,
            !.state = IF p.n = 4 THEN "payload" ELSE @,
            !.n = @ + 1]

masking_key(p, k) ==
  [p EXCEPT !.key = IF p.n = 1 THEN k ELSE @,
            !.state = IF p.n = 4 THEN "payload" ELSE @,
            !.n = IF p.n = 4 THEN 0 ELSE @ + 1]

(* The size at which the payload is complete.                              *)
Awaited(p) == IF p.len \in {126, 127} THEN p.ext ELSE p.len

payload(p, k) ==
  [p EXCEPT !.first = IF p.size = 0 THEN k ELSE @,
            !.size = @ + 1,
            !.done = p.size + 1 = Awaited(p)]

(* The byte b, at place k of the stream.                                   *)
consume(p, b, k) ==
  CASE p.state = "fin_opcode" -> fin_opcode(p, b)
    [] p.state = "mask_payload_len" -> mask_payload_len(p, b)
    [] p.state = "extended_payload_len" -> extended_payload_len(p, b)
    [] p.state = "masking_key" -> masking_key(p, k)
    [] p.state = "payload" -> payload(p, k)

(* parse ignores what is behind a complete frame.                          *)
parse(q, bytes, base) ==
  LET after[i \in 0 .. Len(bytes)] ==
        IF i = 0 THEN data_frame(q)
        ELSE LET p == after[i - 1] IN IF p.done THEN p ELSE consume(p, bytes[i], base + i)
  IN  after[Len(bytes)]

(* The frames of which p holds the payload.  Without a mask it is xored    *)
(* with what the key happens to be: zeroes, if lucky.                      *)
Contents(p, lucky) ==
  {i \in DOMAIN Frames[client] :
     LET f == Frames[client][i] IN
     /\ p.size = f.len /\ p.first = End(i) - f.len + 1
     /\ IF f.mask THEN p.key = p.first - 4 ELSE p.key = 0 /\ lucky}

-----------------------------------------------------------------------------

(* The demo's on_handshake_success, or on_socket_connected of the others,  *)
(* has started the first read.                                             *)
Init ==
  /\ client \in DOMAIN Frames /\ patient \in BOOLEAN
  /\ server \in Servers[client]
  /\ stage = IF server = "demo" THEN "up" ELSE "first_read"
  /\ asked = IF server = "demo" THEN "key" ELSE "no"
  /\ sent = 0 /\ gone = FALSE
  /\ rd = 0 /\ parser = NewParser /\ from = 0 /\ tidy = TRUE
  /\ reading = TRUE /\ open = TRUE
  /\ delivered = <<>> /\ writes = <<>> /\ out = <<>>

(* The client.                                                             *)

IsMessage(i) == Frames[client][i].op = Text
Answered(i) == [msg |-> i, part |-> "payload"] \in ToSet(out)

(* Whether what on_read is given is answered: the echo server answers all, *)
(* the others a message they know, and no other, nor what is no JSON.      *)
Answers(i) == server = "echo" \/ (i # Garbage /\ Frames[client][i].answer > 0)

Ask ==
  /\ ~gone /\ asked = "no"
  /\ asked' \in {"key", "other"}
  /\ UNCHANGED <<server, client, patient, sent, gone, readVars, writes, out>>

(* A patient client sends nothing while it waits for an answer.            *)
Send ==
  /\ ~gone /\ asked # "no" /\ sent < Number(client)
  /\ patient =>
       /\ stage # "first_read"
       /\ \A i \in 1 .. sent : IsMessage(i) /\ Answers(i) => Answered(i)
  /\ sent' = sent + 1
  /\ UNCHANGED <<server, client, patient, asked, gone, readVars, writes, out>>

Leave ==
  /\ ~gone /\ gone' = TRUE
  /\ UNCHANGED <<server, client, patient, asked, sent, readVars, writes, out>>

-----------------------------------------------------------------------------
(* The session.  on_error logs and shuts down: outstanding operations end  *)
(* with an error, and find the socket closed.                              *)
on_error ==
  /\ open' = FALSE /\ reading' = FALSE
  /\ writes' = <<>>

async_write(i) == writes' = Append(writes, [msg |-> i, left |-> <<"header", "payload">>])

on_read(i) ==
  /\ delivered' = Append(delivered, i)
  /\ IF Answers(i) THEN async_write(i) ELSE UNCHANGED writes

(* ws_handshake, alone on its server.  A read with the whole request, and  *)
(* a key in it, is answered, and what else was in the buffer is dropped; a *)
(* part of a request is refused like a wrong one.                          *)
on_first_read ==
  /\ stage = "first_read" /\ reading /\ asked # "no"
  /\ \/ /\ asked = "key"
        /\ \E n \in 0 .. Written : n < BufferSize /\ rd' = n /\ tidy' = (n = 0)
        /\ stage' = "second_read" /\ reading' = FALSE
        /\ UNCHANGED <<open, writes>>
     \/ on_error /\ UNCHANGED <<stage, rd, tidy>>
  /\ UNCHANGED <<clientVars, parser, from, delivered, out>>

(* The reply that upgrades has been written, or not.                       *)
on_second_read ==
  /\ stage = "second_read" /\ open
  /\ \/ stage' = "up" /\ reading' = TRUE /\ from' = rd /\ UNCHANGED <<open, writes>>
     \/ gone /\ on_error /\ UNCHANGED <<stage, from>>
  /\ UNCHANGED <<clientVars, rd, parser, tidy, delivered, out>>

(* async_read_some, with a parser.                                         *)
ReadOn(q) ==
  /\ parser' = q
  /\ from' = IF q = NewParser THEN rd' ELSE from
  /\ UNCHANGED <<reading, open>>

(* Mutant: the parser goes on after a ping.                                *)
on_read_data_frame_KeepsParser(p) ==
  \/ /\ p.op = Text
     /\ \E lucky \in BOOLEAN :
          on_read(IF Contents(p, lucky) = {} THEN Garbage ELSE CHOOSE i \in Contents(p, lucky) : TRUE)
     /\ ReadOn(NewParser)
  \/ /\ p.op \in {Ping, Pong}
     /\ ReadOn([state |-> p.state, n |-> p.n])
     /\ UNCHANGED <<delivered, writes>>
  \/ /\ p.op \notin {Text, Ping, Pong}
     /\ on_error
     /\ UNCHANGED <<parser, from, delivered>>

(* p holds a complete frame.                                               *)
on_read_data_frame(p) ==
  \/ /\ p.op = Text
     /\ \E lucky \in BOOLEAN :
          on_read(IF Contents(p, lucky) = {} THEN Garbage ELSE CHOOSE i \in Contents(p, lucky) : TRUE)
     /\ ReadOn(NewParser)
  \/ /\ p.op \in {Ping, Pong}
     /\ ReadOn(NewParser)
     /\ UNCHANGED <<delivered, writes>>
  \/ /\ p.op \notin {Text, Ping, Pong}
     /\ on_error
     /\ UNCHANGED <<parser, from, delivered>>

on_read_dataframe ==
  /\ stage = "up" /\ reading /\ rd < Written
  /\ \E n \in 1 .. Written - rd :
       LET p == parse(parser, SubSeq(Stream[client], rd + 1, rd + n), rd) IN
       /\ n <= BufferSize
       /\ rd' = rd + n
       /\ tidy' = (tidy /\ \E i \in 1 .. sent : rd = End(i - 1) /\ rd' = End(i))
       /\ \/ p.done /\ on_read_data_frame(p)
          \/ /\ ~p.done
             /\ ReadOn([state |-> p.state, n |-> p.n])
             /\ UNCHANGED <<delivered, writes>>
  /\ UNCHANGED <<clientVars, stage, out>>

(* A read ends with an error when the client has closed.                   *)
ReadFails ==
  /\ reading /\ gone
  /\ on_error
  /\ UNCHANGED <<clientVars, stage, rd, parser, from, tidy, delivered, out>>

(* Mutant: what a partial write leaves is forgotten.                       *)
WriteSome_Once ==
  /\ open /\ writes # <<>>
  /\ LET w == Head(writes) IN
     \E n \in 1 .. Len(w.left) :
       /\ out' = out \o [k \in 1 .. n |-> [msg |-> w.msg, part |-> w.left[k]]]
       /\ writes' = Tail(writes)
  /\ UNCHANGED <<clientVars, readVars>>

(* A composed write hands over one buffer or all that it has left.  With   *)
(* more to come it queues up again, behind the writes started meanwhile.   *)
WriteSome ==
  /\ open /\ writes # <<>>
  /\ LET w == Head(writes) IN
     \E n \in 1 .. Len(w.left) :
       /\ out' = out \o [k \in 1 .. n |-> [msg |-> w.msg, part |-> w.left[k]]]
       /\ writes' = IF n = Len(w.left) THEN Tail(writes)
                    ELSE Append(Tail(writes), [w EXCEPT !.left = SubSeq(@, n + 1, Len(@))])
  /\ UNCHANGED <<clientVars, readVars>>

(* on_write_dataframe with an error.                                       *)
WriteFails ==
  /\ writes # <<>> /\ gone
  /\ on_error
  /\ UNCHANGED <<clientVars, stage, rd, parser, from, tidy, delivered, out>>

Reads == on_first_read \/ on_second_read \/ on_read_dataframe \/ ReadFails
Writes == WriteSome \/ WriteFails

Next == Ask \/ Send \/ Leave \/ Reads \/ Writes

Spec == Init /\ [][Next]_vars

(* io_service::run handles what has completed.                             *)
FairSpec == Spec /\ WF_vars(Reads) /\ WF_vars(Writes)

-----------------------------------------------------------------------------
(* Every field has its type, and a parser that a read leaves is in a state *)
(* of the enumeration.                                                     *)
TypeOK ==
  /\ client \in DOMAIN Frames /\ server \in Servers[client]
  /\ stage \in {"first_read", "second_read", "up"} /\ patient \in BOOLEAN /\ gone \in BOOLEAN
  /\ asked \in {"no", "key", "other"} /\ sent \in 0 .. Number(client)
  /\ rd \in 0 .. Written /\ from \in 0 .. rd
  /\ parser.state \in State
  /\ parser.n \in CASE parser.state = "extended_payload_len" -> 1 .. 8
                    [] parser.state = "masking_key" -> 1 .. 4
                    [] OTHER -> {0}
  /\ tidy \in BOOLEAN /\ reading \in BOOLEAN /\ open \in BOOLEAN
  /\ (reading => open) /\ (open => reading \/ stage = "second_read")
  /\ \A k \in DOMAIN delivered : delivered[k] \in {Garbage} \cup DOMAIN Frames[client]
  /\ \A k \in DOMAIN writes :
       /\ Answers(writes[k].msg)
       /\ writes[k].left \in {<<"header", "payload">>, <<"payload">>}
  /\ \A k \in DOMAIN out : Answers(out[k].msg) /\ out[k].part \in {"header", "payload"}

(* While each read was one frame, on_read got every masked text frame read *)
(* so far, whole, once and in order, whatever pings came in between: the   *)
(* parser that is left behind never leaks into the next frame.             *)
Framed == {i \in 1 .. sent : End(i) <= rd /\ IsMessage(i)}
TidyDelivery ==
  tidy /\ (\A i \in Framed : Frames[client][i].mask)
    => ToSet(delivered) = Framed /\ \A j, k \in DOMAIN delivered : j < k => delivered[j] < delivered[k]

(* A read that begins with a new parser at a frame and holds it whole      *)
(* delivers it as sent, whatever came before and whatever follows it in    *)
(* the same read.  Only the frame at the front of a read has that promise. *)
FrontFrameDelivered ==
  [][\A i \in 1 .. sent :
       /\ stage = "up" /\ from = rd /\ parser = NewParser
       /\ rd = End(i - 1) /\ rd' >= End(i)
       /\ IsMessage(i) /\ Frames[client][i].mask
       => delivered' = Append(delivered, i)]_vars

(* A client that waits for its answers gets them whole and in the order of *)
(* its messages, although composed writes are not queued; and the header   *)
(* of each answer is one that this library's parser takes for its length.  *)
(* An echo server that a cut frame has made answer what is no message of   *)
(* the client is left out: it may mix that answer with the one the client  *)
(* waits for.                                                              *)
(* (65536 bytes are announced as 0, see BigEndian(n % 65536, 2).)          *)
HeadersAgree ==
  \A c \in DOMAIN Frames : \A i \in DOMAIN Frames[c] : \A n \in {Frames[c][i].len, Frames[c][i].answer} :
    LET p == parse(NewParser, to_buffers(Text, n), 0)
    IN  n \notin {0, 65536} => p.state = "payload" /\ Awaited(p) = n

(* How many of the first d that on_read was given are answered.            *)
AnsweredOf(d) == Cardinality({e \in 1 .. d : Answers(delivered[e])})

OnlyMessages == \A d \in DOMAIN delivered : delivered[d] # Garbage /\ IsMessage(delivered[d])

PatientClientReadsAnswers ==
  /\ patient /\ (server = "echo" => OnlyMessages) =>
       \A k \in DOMAIN out :
          /\ \E d \in DOMAIN delivered :
               delivered[d] = out[k].msg /\ Answers(delivered[d]) /\ AnsweredOf(d) = (k + 1) \div 2
          /\ out[k].part = IF k % 2 = 1 THEN "header" ELSE "payload"
  /\ HeadersAgree

(* Each name that json_server has listed in an answer fits the max_length  *)
(* of its question (my_session.cpp:45 to 58).                              *)
Name(n) == [k \in 1 .. n |-> k]
ListedNamesFit ==
  server = "json" =>
    \A k \in DOMAIN out :
      LET max == Frames[client][out[k].msg].max
      IN  max > 0 => \A n \in Directory : NameFits(Name(n), max)

(* A patient client whose messages each come in one read is answered, by   *)
(* each of the servers, or has left, or has sent a frame that ends the     *)
(* session.                                                                *)
PatientClientIsAnswered ==
  \A i \in UNION {DOMAIN Frames[c] : c \in DOMAIN Frames} :
    (patient /\ sent = i /\ tidy /\ IsMessage(i) /\ Answers(i) /\ Frames[client][i].mask)
      ~> (Answered(i) \/ ~tidy \/ ~open)

(* ws_session.hxx:167, "more data is required": a text frame whose first   *)
(* part was read by a new parser is delivered when its last byte is read.  *)
MoreDataCompletes ==
  [][\A i \in 1 .. sent :
       /\ from = End(i - 1) /\ from < rd /\ rd < End(i) /\ rd' = End(i)
       /\ IsMessage(i) /\ Frames[client][i].mask
       => delivered' = Append(delivered, i)]_vars
=============================================================================
