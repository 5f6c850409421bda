---------------------------- MODULE MultiProtocol ----------------------------
(***************************************************************************)
(* One port, several protocols: the negotiation of ez_server_multi_prot.   *)
(*                                                                         *)
(* An accepted socket belongs to a session object of the class with the    *)
(* highest index.  Each class looks at the bytes of the first read (or, on *)
(* an upgraded WebSocket, at the text of the first frame); the one that    *)
(* does not want them fails the handshake, and the socket and the bytes    *)
(* are moved to a session of the class below, down to index 0.             *)
(*                                                                         *)
(* The io_service runs one handler at a time (server.hxx), so one handler, *)
(* with the whole descent through the classes it may start, is one action. *)
(* A session object lives as long as an asynchronous operation that is     *)
(* bound to it (or the set of log sessions) holds it; its destructor       *)
(* closes the socket if it still has it.                                   *)
(*                                                                         *)
(* A client's bytes are a script of tokens, the pieces a read may separate *)
(* and the classes can tell apart:                                         *)
(*   line    the request line, the headers before Sec-WebSocket-Key, and   *)
(*           as much of that header as does not spell its name yet         *)
(*   key     the rest of the Sec-WebSocket-Key header                      *)
(*   end     the rest of the request, with the empty line that ends it     *)
(*   frame1, frame2  the two parts of a text frame;  ctl  any other frame  *)
(*   guid1, guid2    the two parts of a GUID sent as raw bytes             *)
(*   msg     the first message to the established protocol                 *)
(***************************************************************************)
EXTENDS Naturals, Sequences

CONSTANTS
  Conn,           \* connections, one per client that connects
  ProtocolCount,  \* protocol_count_ of multi_protocol
  Class,          \* Class[i]: what kind of session has protocol index i
  Clients         \* what a client may be: its script and the GUID it sends

Index == 0 .. ProtocolCount - 1
NoGuid == ProtocolCount            \* a text that is no session's GUID
NoSession == ProtocolCount         \* no session has had the socket yet

Kinds == {"ws", "log", "http", "raw"}
Token == {"line", "key", "end", "frame1", "frame2", "ctl", "guid1", "guid2", "msg"}

(* Only ws_handshake has both a constructor from an io_service and an      *)
(* on_first_read that multi_protocol can call, so it is at the top.        *)
ASSUME ProtocolsAssumption ==
  /\ ProtocolCount \in Nat \ {0}
  /\ Class \in [Index -> Kinds]
  /\ Class[ProtocolCount - 1] \in {"ws", "log"}

ASSUME ClientsAssumption ==
  Clients \subseteq [script : Seq(Token), guid : Index \cup {NoGuid}]

(* Clients do not stop half-way: a request has an end and comes before any *)
(* frame, and who asks for WebSocket sends a frame sooner or later.  There *)
(* is no deadline for one that would not.                                  *)
FrameStart == {"frame1", "ctl"}

ASSUME ClientsGoOn ==
  \A cl \in Clients :
    /\ cl.script # <<>> /\ cl.script[1] = "line" =>
         \E j \in DOMAIN cl.script :
           cl.script[j] = "end" /\ \A i \in 1 .. j : cl.script[i] \notin FrameStart
    /\ (\E i \in DOMAIN cl.script : cl.script[i] = "key") =>
         \E j \in DOMAIN cl.script : cl.script[j] \in FrameStart

WsClass == {i \in Index : Class[i] \in {"ws", "log"}}
HttpClass == {i \in Index : Class[i] = "http"}

VARIABLES
  client,    \* who is at the other end
  sent,      \* how many tokens of its script the client has written
  up,        \* the client has not closed its end
  got,       \* the replies the server has written during the negotiation
  sock,      \* the server's end of the connection
  owner,     \* protocol index of the session that has the socket
  pend,      \* handler of that session's outstanding operation
  rd,        \* how many tokens the server has read
  log_session_set_   \* the connections of the sessions in my_server's set

clientVars == <<client, sent, up>>
serverVars == <<got, sock, owner, pend, rd, log_session_set_>>
vars == <<client, sent, up, got, sock, owner, pend, rd, log_session_set_>>

Tribool == {"true", "false", "indeterminate"}
Tag == {"http", "ws_guid", "none"}
Reply == {"switching_protocols", "http"}
Handshaking == {"on_first_read", "on_second_read", "on_guid_read"}
Handler == Handshaking \cup {"handle_read", "handle_write", "serving", "none"}

TypeOK ==
  /\ client \in [Conn -> Clients]
  /\ sent \in [Conn -> Nat]
  /\ up \in [Conn -> BOOLEAN]
  /\ got \in [Conn -> Seq(Reply)]
  /\ sock \in [Conn -> {"absent", "backlog", "open", "closed"}]
  /\ owner \in [Conn -> Index \cup {NoSession}]
  /\ pend \in [Conn -> Handler]
  /\ rd \in [Conn -> Nat]
  /\ \A c \in Conn : rd[c] <= sent[c] /\ sent[c] <= Len(client[c].script)
  /\ log_session_set_ \subseteq Conn

Init ==
  /\ client \in [Conn -> Clients]
  /\ sent = [c \in Conn |-> 0]
  /\ up = [c \in Conn |-> FALSE]
  /\ got = [c \in Conn |-> <<>>]
  /\ sock = [c \in Conn |-> "absent"]
  /\ owner = [c \in Conn |-> NoSession]
  /\ pend = [c \in Conn |-> "none"]
  /\ rd = [c \in Conn |-> 0]
  /\ log_session_set_ = {}

-----------------------------------------------------------------------------
(* The clients: they connect, write in order, and may hang up at any time. *)

Connect(c) ==
  /\ sock[c] = "absent"
  /\ sock' = [sock EXCEPT ![c] = "backlog"]
  /\ up' = [up EXCEPT ![c] = TRUE]
  /\ UNCHANGED <<client, sent, got, owner, pend, rd, log_session_set_>>

(* A WebSocket client writes no frame before the reply that upgrades.      *)
Upgraded(c) == "switching_protocols" \in {got[c][i] : i \in DOMAIN got[c]}

CanSend(c) ==
  /\ up[c]
  /\ sent[c] < Len(client[c].script)
  /\ client[c].script[sent[c] + 1] \in FrameStart => Upgraded(c)

Send(c) ==
  /\ CanSend(c)
  /\ sent' = [sent EXCEPT ![c] = @ + 1]
  /\ UNCHANGED <<client, up, serverVars>>

Hangup(c) ==
  /\ up[c]
  /\ up' = [up EXCEPT ![c] = FALSE]
  /\ UNCHANGED <<client, sent, serverVars>>

-----------------------------------------------------------------------------
(* What the sessions see in the bytes of one read.                         *)

Chunk(c, k) == SubSeq(client[c].script, rd[c] + 1, rd[c] + k)

HasToken(s, t) == \E i \in DOMAIN s : s[i] = t

(* request.find("Sec-WebSocket-Key:") over the bytes of this read alone.   *)
HasKey(s) == HasToken(s, "key")

(* request_parser over the bytes of a request from its beginning: a GUID   *)
(* starts with an opening brace, which no method may contain.              *)
ParseRequest(s) ==
  IF s = <<>> \/ s[1] # "line" THEN "false"
  ELSE IF HasToken(s, "end") THEN "true" ELSE "indeterminate"

(* Mutant: a prefix of the read is compared, its length is not.            *)
RawGuid_Prefix(c, s) ==
  IF Len(s) >= 2 /\ s[1] = "guid1" /\ s[2] = "guid2" THEN client[c].guid ELSE NoGuid

(* try_handshake compares the length of the read with that of the GUID.    *)
RawGuid(c, s) == IF s = <<"guid1", "guid2">> THEN client[c].guid ELSE NoGuid

(* A hand_shake_data_t, reduced to what the sessions ask of it.            *)
HandShakeData ==
  [tag : Tag, key : BOOLEAN, request : Tribool, guid : Index \cup {NoGuid}]

Incoming(c, s, tag) ==
  [tag |-> tag, key |-> HasKey(s), request |-> ParseRequest(s), guid |-> RawGuid(c, s)]

(* Mutant: the payload is passed on as the data of a first read.           *)
FramePayload_Untagged(c) ==
  {in \in HandShakeData : /\ in.tag = "http"
                          /\ in.guid = client[c].guid
                          /\ in.guid # NoGuid => in.request = "false" /\ ~in.key}

(* The text of a frame is the client's GUID, or any text at all.           *)
FramePayload(c) ==
  {in \in HandShakeData : /\ in.tag = "ws_guid"
                          /\ in.guid = client[c].guid
                          /\ in.guid # NoGuid => in.request = "false" /\ ~in.key}

-----------------------------------------------------------------------------
(* The sessions.                                                           *)

(* Mutant: on_shutdown forgets the signal that removes the session.        *)
Shutdown_KeepsLogSession(c) ==
  /\ sock' = [sock EXCEPT ![c] = "closed"]
  /\ pend' = [pend EXCEPT ![c] = "none"]
  /\ UNCHANGED <<got, owner, log_session_set_>>

(* shutdown closes the socket, and my_log_session::on_shutdown takes the   *)
(* session out of the set.  on_error and on_error_code end here, and so    *)
(* does the destructor of a session that still has an open socket.         *)
Shutdown(c) ==
  /\ sock' = [sock EXCEPT ![c] = "closed"]
  /\ pend' = [pend EXCEPT ![c] = "none"]
  /\ log_session_set_' = log_session_set_ \ {c}
  /\ UNCHANGED <<got, owner>>

(* Session i has the socket, and waits in handler h.                       *)
Wait(c, i, h) ==
  /\ owner' = [owner EXCEPT ![c] = i]
  /\ pend' = [pend EXCEPT ![c] = h]
  /\ UNCHANGED <<sock, log_session_set_>>

Write(c, reply) == got' = [got EXCEPT ![c] = Append(@, reply)]

(* on_handshake_success of class i: all but the log session start to read, *)
(* the log session is held by the set instead and reads nothing.           *)
HandshakeSuccess(c, i) ==
  \/ /\ Class[i] # "log"
     /\ Wait(c, i, "serving")
     /\ UNCHANGED got
  \/ /\ Class[i] = "log"
     /\ owner' = [owner EXCEPT ![c] = i]
     /\ pend' = [pend EXCEPT ![c] = "none"]
     /\ log_session_set_' = log_session_set_ \cup {c}
     /\ UNCHANGED <<sock, got>>

(* ws_handshake::first_write answers a complete request that has the key.  *)
UpgradeRequest(in) == in.request = "true" /\ in.key

(* Mutant: try_handshake of a raw session compares the lengths only.       *)
TakenBy_AnyGuid(i, in) ==
  \/ Class[i] = "raw" /\ in.guid # NoGuid
  \/ Class[i] = "http" /\ in.tag = "http" /\ ~in.key /\ in.request # "false"
  \/ Class[i] \in {"ws", "log"} /\ in.tag = "http" /\ UpgradeRequest(in)
  \/ Class[i] \in {"ws", "log"} /\ in.tag = "ws_guid" /\ in.guid = i

(* handshake() of class i keeps the connection; else it fails it, with the *)
(* same data and the same tag.                                             *)
TakenBy(i, in) ==
  \/ Class[i] = "raw" /\ in.guid = i
  \/ Class[i] = "http" /\ in.tag = "http" /\ ~in.key /\ in.request # "false"
  \/ Class[i] \in {"ws", "log"} /\ in.tag = "http" /\ UpgradeRequest(in)
  \/ Class[i] \in {"ws", "log"} /\ in.tag = "ws_guid" /\ in.guid = i

handshake(c, i, in) ==
  \/ /\ Class[i] = "raw" \/ in.tag = "ws_guid"
     /\ HandshakeSuccess(c, i)
  \/ /\ Class[i] = "http" /\ in.tag = "http" /\ in.request = "true"
     /\ Wait(c, i, "handle_write") /\ Write(c, "http")
  \/ /\ Class[i] = "http" /\ in.tag = "http" /\ in.request = "indeterminate"
     /\ Wait(c, i, "handle_read") /\ UNCHANGED got
  \/ /\ Class[i] \in {"ws", "log"} /\ in.tag = "http"
     /\ Wait(c, i, "on_second_read") /\ Write(c, "switching_protocols")

(* The descent: the socket goes to the highest class below i that takes    *)
(* the data; the last session to have had it closes it if none does.       *)
on_handshake_fail(c, i, in) ==
  \/ \E j \in 0 .. i - 1 :
       /\ TakenBy(j, in)
       /\ \A k \in j + 1 .. i - 1 : ~TakenBy(k, in)
       /\ handshake(c, j, in)
  \/ /\ \A j \in 0 .. i - 1 : ~TakenBy(j, in)
     /\ Shutdown(c)

-----------------------------------------------------------------------------
(* The handlers of the server, each run to its end by the event loop.      *)

on_accept(c) ==
  /\ sock[c] = "backlog"
  /\ sock' = [sock EXCEPT ![c] = "open"]
  /\ owner' = [owner EXCEPT ![c] = ProtocolCount - 1]
  /\ pend' = [pend EXCEPT ![c] = "on_first_read"]
  /\ UNCHANGED <<clientVars, got, rd, log_session_set_>>

(* Mutant: one more than bytes_transferred is taken from the buffer.       *)
ReadSome_OneTooMany(c, k) ==
  /\ k \in 1 .. sent[c] - rd[c] + 1
  /\ rd' = [rd EXCEPT ![c] = @ + k]
  /\ UNCHANGED clientVars

(* A read completes with some of the bytes that are there, or with an      *)
(* error once the client has gone.                                         *)
ReadSome(c, k) ==
  /\ k \in 1 .. sent[c] - rd[c]
  /\ rd' = [rd EXCEPT ![c] = @ + k]
  /\ UNCHANGED clientVars

(* Mutant: the error is taken for a read of nothing, and read again.       *)
OperationFails_Retries(c) ==
  /\ ~up[c]
  /\ UNCHANGED vars

OperationFails(c) ==
  /\ ~up[c]
  /\ Shutdown(c)
  /\ UNCHANGED <<clientVars, rd>>

(* The second disjunct is first_write.                                     *)
FirstReadOk(c, s) ==
  \/ /\ ~HasKey(s)
     /\ on_handshake_fail(c, owner[c], Incoming(c, s, "http"))
  \/ /\ HasKey(s)
     /\ UpgradeRequest(Incoming(c, s, "none"))
     /\ Wait(c, owner[c], "on_second_read")
     /\ Write(c, "switching_protocols")
  \/ /\ HasKey(s)
     /\ ~UpgradeRequest(Incoming(c, s, "none"))
     /\ on_handshake_fail(c, owner[c], Incoming(c, s, "none"))

on_first_read(c) ==
  /\ pend[c] = "on_first_read"
  /\ \/ OperationFails(c)
     \/ \E k \in 1 .. Len(client[c].script) :
          ReadSome(c, k) /\ FirstReadOk(c, Chunk(c, k))

(* Mutant: nothing is read after the reply.                                *)
on_second_read_NoRead(c) ==
  /\ pend[c] = "on_second_read"
  /\ \/ OperationFails(c)
     \/ /\ Wait(c, owner[c], "none")
        /\ UNCHANGED <<clientVars, got, rd>>

(* The reply that upgrades is written: guid_read starts the next read.     *)
on_second_read(c) ==
  /\ pend[c] = "on_second_read"
  /\ \/ OperationFails(c)
     \/ /\ Wait(c, owner[c], "on_guid_read")
        /\ UNCHANGED <<clientVars, got, rd>>

(* Mutant: any GUID of the server's succeeds at once.                      *)
do_custom_handshake_AnyGuid(c, in) ==
  \/ /\ in.guid # NoGuid
     /\ HandshakeSuccess(c, owner[c])
  \/ /\ in.guid = NoGuid
     /\ on_handshake_fail(c, owner[c], in)

do_custom_handshake(c, in) ==
  \/ /\ in.guid = owner[c]
     /\ HandshakeSuccess(c, owner[c])
  \/ /\ in.guid # owner[c]
     /\ on_handshake_fail(c, owner[c], in)

(* Mutant: the rest of the frame is awaited with a new parser, as in the   *)
(* code that is commented out, which then waits for the rest of its own.   *)
GuidReadOk_NewParser(c, s) ==
  \/ /\ s[1] = "ctl"
     /\ Shutdown(c)
  \/ /\ s = <<"frame1">> \/ s[1] = "frame2"
     /\ Wait(c, owner[c], "on_guid_read")
     /\ UNCHANGED got
  \/ /\ s # <<"frame1">> /\ s[1] = "frame1"
     /\ \E in \in FramePayload(c) : do_custom_handshake(c, in)

(* Part of a frame: no operation is started, so the session is destroyed.  *)
(* A frame that is no text frame is an error.  What follows a whole frame  *)
(* in the same read is dropped.                                            *)
GuidReadOk(c, s) ==
  \/ /\ s = <<"frame1">> \/ s[1] = "ctl"
     /\ Shutdown(c)
  \/ /\ s # <<"frame1">> /\ s[1] # "ctl"
     /\ \E in \in FramePayload(c) : do_custom_handshake(c, in)

on_guid_read(c) ==
  /\ pend[c] = "on_guid_read"
  /\ \/ OperationFails(c)
     \/ \E k \in 1 .. Len(client[c].script) :
          ReadSome(c, k) /\ GuidReadOk(c, Chunk(c, k))

(* The parser is a member of http_session: it goes on with the request     *)
(* where the last read left it.  Both replies, of handle_request and of    *)
(* stock_reply(bad_request), end the request.                              *)
HandleReadOk(c, k) ==
  LET result == ParseRequest(SubSeq(client[c].script, 1, rd[c] + k)) IN
  \/ /\ result # "indeterminate"
     /\ Wait(c, owner[c], "handle_write")
     /\ Write(c, "http")
  \/ /\ result = "indeterminate"
     /\ Wait(c, owner[c], "handle_read")
     /\ UNCHANGED got

handle_read(c) ==
  /\ pend[c] = "handle_read"
  /\ \/ OperationFails(c)
     \/ \E k \in 1 .. Len(client[c].script) :
          ReadSome(c, k) /\ HandleReadOk(c, k)

handle_write(c) ==
  /\ pend[c] = "handle_write"
  /\ Shutdown(c)
  /\ UNCHANGED <<clientVars, rd>>

(* The established session ends: it has nothing more to wait for, or one   *)
(* of its operations failed (Serialization says when one does).            *)
EndOfSession(c) ==
  /\ pend[c] = "serving"
  /\ Shutdown(c)
  /\ UNCHANGED <<clientVars, rd>>

(* The log session learns that its client has gone from a failed write.    *)
on_write_quiet(c) ==
  /\ c \in log_session_set_
  /\ OperationFails(c)

Server(c) ==
  \/ on_accept(c)
  \/ on_first_read(c)
  \/ on_second_read(c)
  \/ on_guid_read(c)
  \/ handle_read(c)
  \/ handle_write(c)

Environment(c) ==
  \/ Connect(c)
  \/ Send(c)
  \/ Hangup(c)
  \/ EndOfSession(c)
  \/ on_write_quiet(c)

Next == \E c \in Conn : Server(c) \/ Environment(c)

Spec == Init /\ [][Next]_vars

(* The event loop runs every handler whose operation has completed.  No    *)
(* fairness for the clients: they may stop writing, and never hang up.     *)
FairSpec == Spec /\ \A c \in Conn : WF_vars(Server(c))

-----------------------------------------------------------------------------
(* Properties.                                                             *)

Established(c) == sock[c] = "open" /\ (pend[c] = "serving" \/ c \in log_session_set_)
HttpServes(c) == sock[c] = "open" /\ pend[c] \in {"handle_read", "handle_write"}

(* A session chosen by its GUID (do_custom_handshake, tcp_session::        *)
(* handshake) serves only a client that sends that GUID, whatever the      *)
(* classes above did with the data and however the reads cut the stream.   *)
AnnouncedProtocol ==
  \A c \in Conn : Established(c) => owner[c] = client[c].guid

(* When a raw session is established on a connection that was not          *)
(* upgraded, the server has read the GUID and nothing of the message that  *)
(* the client may already have written behind it (the size test of         *)
(* try_handshake, against reads that end early or late).                   *)
RawStartsAfterGuid ==
  \A c \in Conn : Established(c) /\ ~Upgraded(c) => rd[c] = 2

(* The negotiation answers a connection at most once: never a second 101,  *)
(* never an HTTP reply after one.  A session that speaks frames has sent   *)
(* its 101, and HTTP serves no upgraded connection (the tags of            *)
(* hand_shake_data_t are what keeps the classes apart).  Only the session  *)
(* at the top upgrades: what it passes down for first_write has no key.    *)
OneReply ==
  \A c \in Conn :
    /\ Len(got[c]) <= 1
    /\ Established(c) /\ owner[c] \in WsClass => Upgraded(c)
    /\ HttpServes(c) => owner[c] \in HttpClass /\ ~Upgraded(c)
    /\ pend[c] = "on_second_read" => owner[c] = ProtocolCount - 1

(* Nothing leaks and nothing dangles: a socket is open exactly while an    *)
(* operation or the set keeps its session alive, and the set holds exactly *)
(* the established log sessions, never one whose socket is closed (the     *)
(* ownership by shared_ptr, and on_shutdown of my_log_session).            *)
SocketHasKeeper ==
  \A c \in Conn :
    /\ sock[c] = "open" <=> (pend[c] # "none" \/ c \in log_session_set_)
    /\ c \in log_session_set_ => Class[owner[c]] = "log" /\ pend[c] = "none"

(* The server never waits for bytes from a client that waits for the       *)
(* server: whatever was dropped or cut, a negotiation that cannot go on    *)
(* has been given up.                                                      *)
NoMutualWait ==
  \A c \in Conn :
    ~ /\ sock[c] = "open" /\ pend[c] \in {"on_first_read", "on_guid_read", "handle_read"}
      /\ up[c] /\ rd[c] = sent[c] /\ 0 < sent[c] /\ ~CanSend(c)

(* The negotiation as its clients see it (Negotiation.tla).                *)
StageOf(c) ==
  IF sock[c] \in {"absent", "backlog"} THEN "absent"
  ELSE IF sock[c] = "closed" THEN "closed"
  ELSE IF pend[c] = "on_first_read" THEN "negotiating"
  ELSE IF pend[c] \in {"on_second_read", "on_guid_read"} THEN "upgraded"
  ELSE "serving"

N == INSTANCE Negotiation WITH
       Protocol <- Index,
       Http <- HttpClass,
       Framed <- WsClass,
       NoProtocol <- NoGuid,
       stage <- [c \in Conn |-> StageOf(c)],
       served <- [c \in Conn |-> IF StageOf(c) = "serving" THEN owner[c] ELSE NoGuid],
       announced <- [c \in Conn |-> client[c].guid]

(* Every step of the server is a step, or no step, of the abstract         *)
(* negotiation: one upgrade at most, one protocol at most, only one that   *)
(* was announced, closed for ever.                                         *)
ImplementsNegotiation == N!ASpec

(* A client that waits for the server gets it: its connection is accepted, *)
(* and served, answered or closed, or it is asked to go on.  Nothing is    *)
(* assumed of the clients; the event loop is fair to ready handlers.       *)
ClientIsHeard ==
  \A c \in Conn :
    (sock[c] \in {"backlog", "open"} /\ ~CanSend(c))
      ~> (Established(c) \/ sock[c] = "closed" \/ CanSend(c))

(* There is no deadline on a negotiation, so the descriptor of a client    *)
(* that gave up comes back only by its hang-up: in whatever read, write or *)
(* accept it is found, the socket is closed, or a session is established   *)
(* (which then finds it).                                                  *)
HangupIsNoticed ==
  \A c \in Conn :
    (sock[c] \in {"backlog", "open"} /\ ~up[c]) ~> (Established(c) \/ sock[c] = "closed")

=============================================================================
