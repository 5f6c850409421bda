------------------------ MODULE MultiProtocol_proofs ------------------------
(***************************************************************************)
(* The safety of the negotiation, for any connections, any clients and any *)
(* order of the protocol classes, and that it implements Negotiation.      *)
(***************************************************************************)
EXTENDS MultiProtocol, TLAPS

Asked == <<>>
Switched == <<"switching_protocols">>
Answered == <<"http">>

(***************************************************************************)
(* The inductive invariant: what each phase of a connection implies about  *)
(* its owner, the replies it has seen and the place in the stream.         *)
(***************************************************************************)
BeforeAccept(c) ==
  sock[c] \in {"absent", "backlog"} =>
    pend[c] = "none" /\ c \notin log_session_set_ /\ got[c] = Asked /\ rd[c] = 0

AfterClose(c) ==
  sock[c] = "closed" => pend[c] = "none" /\ c \notin log_session_set_

Kept(c) ==
  sock[c] = "open" => owner[c] \in Index /\ (pend[c] # "none" \/ c \in log_session_set_)

FirstPhase(c) ==
  pend[c] = "on_first_read" => owner[c] = ProtocolCount - 1 /\ got[c] = Asked /\ rd[c] = 0

UpgradePhase(c) ==
  pend[c] \in {"on_second_read", "on_guid_read"} =>
    owner[c] = ProtocolCount - 1 /\ got[c] = Switched

HttpPhase(c) ==
  /\ pend[c] = "handle_read" => owner[c] \in HttpClass /\ got[c] = Asked
  /\ pend[c] = "handle_write" => owner[c] \in HttpClass /\ got[c] = Answered

ServingPhase(c) ==
  /\ pend[c] = "serving" \/ c \in log_session_set_ =>
       /\ owner[c] = client[c].guid
       /\ owner[c] \notin HttpClass
       /\ got[c] = Switched \/ (got[c] = Asked /\ owner[c] \notin WsClass /\ rd[c] = 2)
  /\ c \in log_session_set_ => Class[owner[c]] = "log" /\ pend[c] = "none"

Replies(c) == got[c] \in {Asked, Switched, Answered}

Conforms(c) ==
  /\ BeforeAccept(c)
  /\ AfterClose(c)
  /\ Kept(c)
  /\ FirstPhase(c)
  /\ UpgradePhase(c)
  /\ HttpPhase(c)
  /\ ServingPhase(c)
  /\ Replies(c)

IInv == TypeOK /\ \A c \in Conn : Conforms(c)

-----------------------------------------------------------------------------
(* A handler of c moves no read position but that of c, and never past the *)
(* bytes that have been written.                                           *)
ReadsOf(c) ==
  /\ rd' \in [Conn -> Nat]
  /\ rd'[c] <= sent[c]
  /\ \A d \in Conn \ {c} : rd'[d] = rd[d]

(* What the sessions above guarantee of the data they pass down.           *)
Sound(c, in) ==
  /\ in \in HandShakeData
  /\ in.guid \in {client[c].guid, NoGuid}
  /\ in.tag = "http" => ~in.key
  /\ in.tag = "ws_guid" => got[c] = Switched
  /\ in.tag # "ws_guid" => got[c] = Asked /\ (in.guid # NoGuid => rd'[c] = 2)

(* Nothing that a handler of c does touches another connection.            *)
LEMMA OthersConform ==
  ASSUME NEW c \in Conn, NEW d \in Conn, d # c, Conforms(d),
         client'[d] = client[d], sock'[d] = sock[d], pend'[d] = pend[d],
         owner'[d] = owner[d], got'[d] = got[d], rd'[d] = rd[d],
         d \in log_session_set_' <=> d \in log_session_set_
  PROVE  Conforms(d)'
BY DEF Conforms, BeforeAccept, AfterClose, Kept, FirstPhase, UpgradePhase, HttpPhase,
       ServingPhase, Replies

(* A function keeps its type when one value is replaced by another of it.  *)
LEMMA ExceptTyped ==
  ASSUME NEW S, NEW f \in [Conn -> S], NEW c \in Conn, NEW v \in S
  PROVE  [f EXCEPT ![c] = v] \in [Conn -> S]
OBVIOUS

(* A read of connection c passes nobody's written bytes.                   *)
LEMMA ReadsTyped ==
  ASSUME TypeOK, NEW c \in Conn, ReadsOf(c), UNCHANGED clientVars
  PROVE  \A d \in Conn : rd'[d] <= sent'[d] /\ sent'[d] <= Len(client'[d].script)
<1>1. UNCHANGED <<client, sent>>
  BY DEF clientVars
<1>2. \A d \in Conn : rd[d] <= sent[d] /\ sent[d] <= Len(client[d].script)
  BY DEF TypeOK
<1>3. \A d \in Conn : rd'[d] <= sent[d]
  BY <1>2 DEF ReadsOf
<1>4. QED
  BY <1>1, <1>2, <1>3

(* A session that closes its socket.                                       *)
LEMMA ShutdownConforms ==
  ASSUME IInv, NEW c \in Conn, Shutdown(c), UNCHANGED clientVars, ReadsOf(c)
  PROVE  IInv'
<1>1. TypeOK'
  <2>1. rd' \in [Conn -> Nat]
    BY DEF ReadsOf
  <2>2. "none" \in Handler
    BY DEF Handler
  <2>3. QED
    BY <2>1, <2>2, ReadsTyped DEF IInv, TypeOK, Shutdown, clientVars
<1>2. Conforms(c)'
  BY DEF IInv, TypeOK, Shutdown, clientVars, Conforms, BeforeAccept, AfterClose, Kept,
         FirstPhase, UpgradePhase, HttpPhase, ServingPhase, Replies
<1>3. ASSUME NEW d \in Conn, d # c PROVE Conforms(d)'
  BY <1>3, OthersConform DEF IInv, TypeOK, Shutdown, ReadsOf, clientVars
<1>4. QED
  BY <1>1, <1>2, <1>3 DEF IInv

(* A session that is established by the GUID its client announced.         *)
LEMMA SuccessConforms ==
  ASSUME IInv, NEW c \in Conn, NEW i \in Index, sock[c] = "open",
         HandshakeSuccess(c, i), UNCHANGED clientVars, ReadsOf(c),
         i = client[c].guid, i \notin HttpClass, c \notin log_session_set_,
         got[c] = Switched \/ (got[c] = Asked /\ i \notin WsClass /\ rd'[c] = 2)
  PROVE  IInv'
<1>1. TypeOK'
  BY DEF IInv, TypeOK, HandshakeSuccess, Wait, ReadsOf, clientVars, Handler
<1>2. Conforms(c)'
  BY DEF IInv, TypeOK, HandshakeSuccess, Wait, clientVars, Conforms, BeforeAccept, AfterClose,
         Kept, FirstPhase, UpgradePhase, HttpPhase, ServingPhase, Replies
<1>3. ASSUME NEW d \in Conn, d # c PROVE Conforms(d)'
  BY <1>3, OthersConform DEF IInv, TypeOK, HandshakeSuccess, Wait, ReadsOf, clientVars
<1>4. QED
  BY <1>1, <1>2, <1>3 DEF IInv

(* The class that takes the data, and all that its handshake starts.       *)
LEMMA HandshakeConforms ==
  ASSUME IInv, NEW c \in Conn, NEW i \in Index, NEW in, sock[c] = "open",
         c \notin log_session_set_, Sound(c, in), TakenBy(i, in), handshake(c, i, in),
         UNCHANGED clientVars, ReadsOf(c)
  PROVE  IInv'
<1>1. CASE Class[i] = "raw" \/ in.tag = "ws_guid"
  <2>1. HandshakeSuccess(c, i)
    BY <1>1 DEF handshake, TakenBy, Sound
  <2>2. i = client[c].guid /\ i \notin HttpClass
    BY <1>1 DEF TakenBy, Sound, HttpClass, Index, NoGuid
  <2>3. got[c] = Switched \/ (got[c] = Asked /\ i \notin WsClass /\ rd'[c] = 2)
    BY <1>1, ProtocolsAssumption DEF TakenBy, Sound, WsClass, Index, NoGuid
  <2>4. QED
    BY <2>1, <2>2, <2>3, SuccessConforms
<1>2. CASE Class[i] # "raw" /\ in.tag # "ws_guid"
  <2>1. Class[i] = "http" /\ in.tag = "http" /\ in.request # "false"
    BY <1>2 DEF TakenBy, Sound, UpgradeRequest
  <2>2. i \in HttpClass /\ got[c] = Asked
    BY <2>1 DEF HttpClass, Sound
  <2>3. \/ Wait(c, i, "handle_write") /\ got' = [got EXCEPT ![c] = Answered]
        \/ Wait(c, i, "handle_read") /\ UNCHANGED got
    BY <2>1, <2>2 DEF handshake, Write, IInv, TypeOK, Asked, Answered
  <2>4. TypeOK'
    <3>1. Answered \in Seq(Reply)
      BY DEF Answered, Reply
    <3>2. {"handle_read", "handle_write"} \subseteq Handler
      BY DEF Handler
    <3>3. rd' \in [Conn -> Nat]
      BY DEF ReadsOf
    <3>4. got' \in [Conn -> Seq(Reply)]
      <4>1. got \in [Conn -> Seq(Reply)]
        BY DEF IInv, TypeOK
      <4>2. [got EXCEPT ![c] = Answered] \in [Conn -> Seq(Reply)]
        BY <3>1, <4>1, ExceptTyped
      <4>3. QED
        BY <2>3, <4>1, <4>2
    <3>5. pend' \in [Conn -> Handler] /\ owner' \in [Conn -> Index \cup {NoSession}]
      <4>1. \E h \in Handler : Wait(c, i, h)
        BY <2>3, <3>2
      <4>2. QED
        BY <4>1 DEF IInv, TypeOK, Wait
    <3>6. QED
      BY <2>3, <3>3, <3>4, <3>5, ReadsTyped DEF IInv, TypeOK, Wait, clientVars
  <2>5. Conforms(c)'
    BY <2>2, <2>3 DEF IInv, TypeOK, Wait, clientVars, Conforms, BeforeAccept, AfterClose,
         Kept, FirstPhase, UpgradePhase, HttpPhase, ServingPhase, Replies
  <2>6. ASSUME NEW d \in Conn, d # c PROVE Conforms(d)'
    BY <2>3, <2>6, OthersConform DEF IInv, TypeOK, Wait, ReadsOf, clientVars
  <2>7. QED
    BY <2>4, <2>5, <2>6 DEF IInv
<1>3. QED
  BY <1>1, <1>2

(* The descent through the classes below i.                                *)
LEMMA FailConforms ==
  ASSUME IInv, NEW c \in Conn, NEW i \in Index, NEW in, sock[c] = "open",
         c \notin log_session_set_, Sound(c, in), on_handshake_fail(c, i, in),
         UNCHANGED clientVars, ReadsOf(c)
  PROVE  IInv'
<1>1. CASE \E j \in 0 .. i - 1 : TakenBy(j, in) /\ handshake(c, j, in)
  <2>1. PICK j \in 0 .. i - 1 : TakenBy(j, in) /\ handshake(c, j, in)
    BY <1>1
  <2>2. j \in Index
    BY <2>1, ProtocolsAssumption DEF Index
  <2>3. QED
    BY <2>1, <2>2, HandshakeConforms
<1>2. CASE Shutdown(c)
  BY <1>2, ShutdownConforms
<1>3. QED
  BY <1>1, <1>2 DEF on_handshake_fail

-----------------------------------------------------------------------------
(* The steps of the clients and of the acceptor.                           *)

(* A server that has just started satisfies the invariant.                 *)
LEMMA InitConforms == Init => IInv
<1> SUFFICES ASSUME Init PROVE IInv
  OBVIOUS
<1>1. TypeOK
  <2>1. <<>> \in Seq(Reply)
    OBVIOUS
  <2>2. ASSUME NEW c \in Conn PROVE Len(client[c].script) \in Nat
    <3>1. client[c] \in Clients
      BY DEF Init
    <3>2. client[c].script \in Seq(Token)
      BY <3>1, ClientsAssumption
    <3>3. QED
      BY <3>2
  <2>3. got \in [Conn -> Seq(Reply)]
    BY <2>1 DEF Init
  <2>4. ASSUME NEW c \in Conn PROVE rd[c] <= sent[c] /\ sent[c] <= Len(client[c].script)
    <3>1. rd[c] = 0 /\ sent[c] = 0
      BY DEF Init
    <3>2. \A n \in Nat : 0 <= n
      OBVIOUS
    <3>3. QED
      BY <2>2, <3>1, <3>2
  <2>5. QED
    BY <2>3, <2>4 DEF Init, TypeOK, Handler
<1>2. ASSUME NEW c \in Conn PROVE Conforms(c)
  BY DEF Init, Conforms, BeforeAccept, AfterClose, Kept, FirstPhase, UpgradePhase, HttpPhase,
         ServingPhase, Replies, Asked
<1>3. QED
  BY <1>1, <1>2 DEF IInv

(* No step of a client disturbs it.                                        *)
LEMMA ClientConforms ==
  ASSUME IInv, NEW c \in Conn, Connect(c) \/ Send(c) \/ Hangup(c)
  PROVE  IInv'
<1>1. CASE Connect(c)
  <2>1. TypeOK'
    BY <1>1 DEF IInv, TypeOK, Connect
  <2>2. Conforms(c)'
    BY <1>1 DEF IInv, TypeOK, Connect, Conforms, BeforeAccept, AfterClose, Kept, FirstPhase,
         UpgradePhase, HttpPhase, ServingPhase, Replies
  <2>3. ASSUME NEW d \in Conn, d # c PROVE Conforms(d)'
    BY <1>1, <2>3, OthersConform DEF IInv, TypeOK, Connect
  <2>4. QED
    BY <2>1, <2>2, <2>3 DEF IInv
<1>2. CASE Send(c)
  <2>1. TypeOK'
    <3>1. sent' \in [Conn -> Nat]
      BY <1>2 DEF IInv, TypeOK, Send
    <3>2. ASSUME NEW d \in Conn
          PROVE  rd'[d] <= sent'[d] /\ sent'[d] <= Len(client'[d].script)
      <4>1. client[d].script \in Seq(Token)
        BY ClientsAssumption DEF IInv, TypeOK
      <4>2. Len(client[d].script) \in Nat
        BY <4>1
      <4>3. QED
        BY <1>2, <4>2 DEF IInv, TypeOK, Send, CanSend, serverVars
    <3>3. QED
      BY <1>2, <3>1, <3>2 DEF IInv, TypeOK, Send, serverVars
  <2>2. ASSUME NEW d \in Conn PROVE Conforms(d)'
    BY <1>2 DEF IInv, Send, serverVars, Conforms, BeforeAccept, AfterClose, Kept, FirstPhase,
         UpgradePhase, HttpPhase, ServingPhase, Replies
  <2>3. QED
    BY <2>1, <2>2 DEF IInv
<1>3. CASE Hangup(c)
  <2>1. TypeOK'
    BY <1>3 DEF IInv, TypeOK, Hangup, serverVars
  <2>2. ASSUME NEW d \in Conn PROVE Conforms(d)'
    BY <1>3 DEF IInv, Hangup, serverVars, Conforms, BeforeAccept, AfterClose, Kept, FirstPhase,
         UpgradePhase, HttpPhase, ServingPhase, Replies
  <2>3. QED
    BY <2>1, <2>2 DEF IInv
<1>4. QED
  BY <1>1, <1>2, <1>3

(* An accepted connection begins in the phase of its first read.           *)
LEMMA AcceptConforms ==
  ASSUME IInv, NEW c \in Conn, on_accept(c)
  PROVE  IInv'
<1>1. TypeOK'
  <2>1. ProtocolCount - 1 \in Index
    BY ProtocolsAssumption DEF Index
  <2>2. QED
    BY <2>1 DEF IInv, TypeOK, on_accept, clientVars, Handler, Handshaking
<1>2. Conforms(c)'
  <2>1. ProtocolCount - 1 \in Index
    BY ProtocolsAssumption DEF Index
  <2>2. QED
    BY <2>1 DEF IInv, TypeOK, on_accept, clientVars, Conforms, BeforeAccept, AfterClose, Kept,
         FirstPhase, UpgradePhase, HttpPhase, ServingPhase, Replies
<1>3. ASSUME NEW d \in Conn, d # c PROVE Conforms(d)'
  BY <1>3, OthersConform DEF IInv, TypeOK, on_accept, clientVars
<1>4. QED
  BY <1>1, <1>2, <1>3 DEF IInv

-----------------------------------------------------------------------------
(* The handlers.                                                           *)

(* A handler of a session that waits runs with the socket open.            *)
LEMMA PendingIsOpen ==
  ASSUME IInv, NEW c \in Conn, pend[c] # "none"
  PROVE  sock[c] = "open" /\ c \notin log_session_set_
BY DEF IInv, TypeOK, Conforms, BeforeAccept, AfterClose, ServingPhase

(* A read is a non-empty part of the script and moves rd by its length.    *)
LEMMA ReadSomeReads ==
  ASSUME TypeOK, NEW c \in Conn, NEW k, ReadSome(c, k)
  PROVE  /\ ReadsOf(c)
         /\ UNCHANGED clientVars
         /\ k \in Nat /\ k > 0
         /\ rd'[c] = rd[c] + k
         /\ Chunk(c, k) \in Seq(Token)
         /\ Len(Chunk(c, k)) = k
<1>1. client[c].script \in Seq(Token) /\ sent[c] \in Nat /\ rd[c] \in Nat
      /\ rd[c] <= sent[c] /\ sent[c] <= Len(client[c].script)
  BY ClientsAssumption DEF TypeOK
<1>2. k \in 1 .. sent[c] - rd[c]
  BY DEF ReadSome
<1>3. k \in Nat /\ k > 0 /\ rd'[c] = rd[c] + k /\ UNCHANGED clientVars
  BY <1>1, <1>2 DEF ReadSome, TypeOK
<1>4. ReadsOf(c)
  BY <1>1, <1>2, <1>3 DEF ReadsOf, ReadSome, TypeOK
<1>5. Chunk(c, k) \in Seq(Token) /\ Len(Chunk(c, k)) = k
  <2>1. rd[c] + 1 \in 1 .. Len(client[c].script) + 1
        /\ rd[c] + k \in rd[c] .. Len(client[c].script)
        /\ Len(client[c].script) \in Nat
    BY <1>1, <1>2
  <2>2. QED
    BY <1>1, <1>2, <2>1 DEF Chunk
<1>6. QED
  BY <1>3, <1>4, <1>5

(* A failed operation shuts down and leaves nothing behind.                *)
LEMMA FailsConforms ==
  ASSUME IInv, NEW c \in Conn, OperationFails(c)
  PROVE  IInv'
<1>1. UNCHANGED clientVars /\ Shutdown(c) /\ UNCHANGED rd
  BY DEF OperationFails
<1>2. ReadsOf(c)
  BY <1>1 DEF IInv, TypeOK, ReadsOf
<1>3. QED
  BY <1>1, <1>2, ShutdownConforms

(* The tag of a first read agrees with the bytes and with their place.     *)
LEMMA IncomingSound ==
  ASSUME IInv, NEW c \in Conn, NEW k, NEW tag \in {"http", "none"}, ReadSome(c, k),
         pend[c] = "on_first_read", tag = "http" => ~HasKey(Chunk(c, k))
  PROVE  Sound(c, Incoming(c, Chunk(c, k), tag))
<1> DEFINE s == Chunk(c, k)
           in == Incoming(c, s, tag)
<1>1. got[c] = Asked /\ rd[c] = 0
  BY DEF IInv, Conforms, FirstPhase
<1>2. Len(s) = k /\ rd'[c] = k
  BY <1>1, ReadSomeReads DEF IInv
<1>3. client[c].guid \in Index \cup {NoGuid}
  BY ClientsAssumption DEF IInv, TypeOK
<1>4. in \in HandShakeData
  <2>1. HasKey(s) \in BOOLEAN
    BY DEF HasKey, HasToken
  <2>2. ParseRequest(s) \in Tribool
    BY DEF ParseRequest, Tribool
  <2>3. RawGuid(c, s) \in Index \cup {NoGuid}
    BY <1>3 DEF RawGuid
  <2>4. QED
    BY <2>1, <2>2, <2>3 DEF Incoming, HandShakeData, Tag
<1>5. in.guid # NoGuid => rd'[c] = 2 /\ in.guid = client[c].guid
  <2>1. SUFFICES ASSUME RawGuid(c, s) # NoGuid PROVE rd'[c] = 2 /\ RawGuid(c, s) = client[c].guid
    BY DEF Incoming
  <2>2. s = <<"guid1", "guid2">>
    BY <2>1 DEF RawGuid
  <2>3. Len(s) = 2
    BY <2>2
  <2>4. QED
    BY <1>2, <2>1, <2>3 DEF RawGuid
<1>6. QED
  BY <1>1, <1>4, <1>5 DEF Sound, Incoming

(* A reply that upgrades, from the session at the top.                     *)
LEMMA UpgradeConforms ==
  ASSUME IInv, NEW c \in Conn, pend[c] = "on_first_read", UNCHANGED clientVars, ReadsOf(c),
         Wait(c, owner[c], "on_second_read"), Write(c, "switching_protocols")
  PROVE  IInv'
<1>1. got[c] = Asked /\ owner[c] = ProtocolCount - 1 /\ owner[c] \in Index
  BY PendingIsOpen DEF IInv, Conforms, FirstPhase, Kept
<1>2. got' = [got EXCEPT ![c] = Switched]
  BY <1>1 DEF Write, IInv, TypeOK, Asked, Switched
<1>3. TypeOK'
  <2>1. Switched \in Seq(Reply)
    BY DEF Switched, Reply
  <2>2. got' \in [Conn -> Seq(Reply)]
    BY <1>2, <2>1, ExceptTyped DEF IInv, TypeOK
  <2>3. rd' \in [Conn -> Nat]
    BY DEF ReadsOf
  <2>4. pend' \in [Conn -> Handler] /\ owner' \in [Conn -> Index \cup {NoSession}]
    BY <1>1 DEF IInv, TypeOK, Wait, Handler, Handshaking
  <2>5. QED
    BY <2>2, <2>3, <2>4, ReadsTyped DEF IInv, TypeOK, Wait, clientVars
<1>4. Conforms(c)'
  <2>1. sock[c] = "open" /\ c \notin log_session_set_
    BY PendingIsOpen
  <2>2. QED
    BY <1>1, <1>2, <2>1 DEF IInv, TypeOK, Wait, clientVars, Conforms, BeforeAccept, AfterClose,
         Kept, FirstPhase, UpgradePhase, HttpPhase, ServingPhase, Replies
<1>5. ASSUME NEW d \in Conn, d # c PROVE Conforms(d)'
  BY <1>2, <1>5, OthersConform DEF IInv, TypeOK, Wait, ReadsOf, clientVars
<1>6. QED
  BY <1>3, <1>4, <1>5 DEF IInv

(* ws_handshake::on_first_read, with the whole descent.                    *)
LEMMA FirstReadConforms ==
  ASSUME IInv, NEW c \in Conn, on_first_read(c)
  PROVE  IInv'
<1>1. pend[c] = "on_first_read" /\ sock[c] = "open" /\ c \notin log_session_set_
  BY PendingIsOpen DEF on_first_read
<1>2. CASE OperationFails(c)
  BY <1>2, FailsConforms
<1>3. ASSUME NEW k, ReadSome(c, k), FirstReadOk(c, Chunk(c, k)) PROVE IInv'
  <2>1. ReadsOf(c) /\ UNCHANGED clientVars
    BY <1>3, ReadSomeReads DEF IInv
  <2>2. owner[c] \in Index
    BY <1>1 DEF IInv, Conforms, Kept
  <2>3. CASE ~HasKey(Chunk(c, k)) /\ on_handshake_fail(c, owner[c], Incoming(c, Chunk(c, k), "http"))
    <3>1. Sound(c, Incoming(c, Chunk(c, k), "http"))
      BY <1>1, <1>3, <2>3, IncomingSound
    <3>2. QED
      BY <1>1, <2>1, <2>2, <2>3, <3>1, FailConforms
  <2>4. CASE Wait(c, owner[c], "on_second_read") /\ Write(c, "switching_protocols")
    BY <1>1, <2>1, <2>4, UpgradeConforms
  <2>5. CASE on_handshake_fail(c, owner[c], Incoming(c, Chunk(c, k), "none"))
    <3>1. Sound(c, Incoming(c, Chunk(c, k), "none"))
      BY <1>1, <1>3, IncomingSound
    <3>2. QED
      BY <1>1, <2>1, <2>2, <2>5, <3>1, FailConforms
  <2>6. QED
    BY <1>3, <2>3, <2>4, <2>5 DEF FirstReadOk
<1>4. QED
  BY <1>2, <1>3 DEF on_first_read

(* on_second_read starts the next read in the same session.                *)
LEMMA SecondReadConforms ==
  ASSUME IInv, NEW c \in Conn, on_second_read(c)
  PROVE  IInv'
<1>1. pend[c] = "on_second_read" /\ sock[c] = "open" /\ c \notin log_session_set_
  BY PendingIsOpen DEF on_second_read
<1>2. CASE OperationFails(c)
  BY <1>2, FailsConforms
<1>3. CASE Wait(c, owner[c], "on_guid_read") /\ UNCHANGED <<clientVars, got, rd>>
  <2>1. owner[c] \in Index
    BY <1>1 DEF IInv, Conforms, Kept
  <2>2. TypeOK'
    BY <1>3, <2>1 DEF IInv, TypeOK, Wait, clientVars, Handler, Handshaking
  <2>3. Conforms(c)'
    BY <1>1, <1>3, <2>1 DEF IInv, TypeOK, Wait, clientVars, Conforms, BeforeAccept, AfterClose,
         Kept, FirstPhase, UpgradePhase, HttpPhase, ServingPhase, Replies
  <2>4. ASSUME NEW d \in Conn, d # c PROVE Conforms(d)'
    BY <1>3, <2>4, OthersConform DEF IInv, TypeOK, Wait, clientVars
  <2>5. QED
    BY <2>2, <2>3, <2>4 DEF IInv
<1>4. QED
  BY <1>2, <1>3 DEF on_second_read

(* ws_handshake::on_guid_read, which may hand the payload of a frame       *)
(* down.                                                                   *)
LEMMA GuidReadConforms ==
  ASSUME IInv, NEW c \in Conn, on_guid_read(c)
  PROVE  IInv'
<1>1. pend[c] = "on_guid_read" /\ sock[c] = "open" /\ c \notin log_session_set_
  BY PendingIsOpen DEF on_guid_read
<1>2. /\ owner[c] = ProtocolCount - 1 /\ owner[c] \in Index
      /\ Class[owner[c]] \in {"ws", "log"}
      /\ got[c] = Switched
  BY <1>1, ProtocolsAssumption DEF IInv, Conforms, UpgradePhase, Kept
<1>3. CASE OperationFails(c)
  BY <1>3, FailsConforms
<1>4. ASSUME NEW k, ReadSome(c, k), GuidReadOk(c, Chunk(c, k)) PROVE IInv'
  <2>1. ReadsOf(c) /\ UNCHANGED clientVars
    BY <1>4, ReadSomeReads DEF IInv
  <2>2. CASE Shutdown(c)
    BY <2>1, <2>2, ShutdownConforms
  <2>3. ASSUME NEW in \in FramePayload(c), do_custom_handshake(c, in) PROVE IInv'
    <3>1. Sound(c, in) /\ in.tag = "ws_guid" /\ in.guid = client[c].guid
      BY <1>2, <2>3 DEF Sound, FramePayload
    <3>2. CASE in.guid = owner[c] /\ HandshakeSuccess(c, owner[c])
      <4>1. owner[c] = client[c].guid /\ owner[c] \notin HttpClass
        BY <1>2, <3>1, <3>2 DEF HttpClass
      <4>2. QED
        BY <1>1, <1>2, <2>1, <3>2, <4>1, SuccessConforms
    <3>3. CASE on_handshake_fail(c, owner[c], in)
      BY <1>1, <1>2, <2>1, <3>1, <3>3, FailConforms
    <3>4. QED
      BY <2>3, <3>2, <3>3 DEF do_custom_handshake
  <2>4. QED
    BY <1>4, <2>2, <2>3 DEF GuidReadOk
<1>5. QED
  BY <1>3, <1>4 DEF on_guid_read

(* http_session::handle_read: a reply, or a read more.                     *)
LEMMA HandleReadConforms ==
  ASSUME IInv, NEW c \in Conn, handle_read(c)
  PROVE  IInv'
<1>1. pend[c] = "handle_read" /\ sock[c] = "open" /\ c \notin log_session_set_
  BY PendingIsOpen DEF handle_read
<1>2. owner[c] \in Index /\ owner[c] \in HttpClass /\ got[c] = Asked
  BY <1>1 DEF IInv, Conforms, Kept, HttpPhase
<1>3. CASE OperationFails(c)
  BY <1>3, FailsConforms
<1>4. ASSUME NEW k, ReadSome(c, k), HandleReadOk(c, k) PROVE IInv'
  <2>1. ReadsOf(c) /\ UNCHANGED clientVars
    BY <1>4, ReadSomeReads DEF IInv
  <2>2. \/ Wait(c, owner[c], "handle_write") /\ got' = [got EXCEPT ![c] = Answered]
        \/ Wait(c, owner[c], "handle_read") /\ got' = [got EXCEPT ![c] = Asked]
    <3>1. Write(c, "http") => got' = [got EXCEPT ![c] = Answered]
      BY <1>2 DEF Write, IInv, TypeOK, Asked, Answered
    <3>2. UNCHANGED got => got' = [got EXCEPT ![c] = Asked]
      BY <1>2 DEF IInv, TypeOK
    <3>3. QED
      BY <1>4, <3>1, <3>2 DEF HandleReadOk
  <2>3. TypeOK'
    <3>1. Answered \in Seq(Reply) /\ Asked \in Seq(Reply)
      BY DEF Answered, Asked, Reply
    <3>2. \E v \in Seq(Reply) : got' = [got EXCEPT ![c] = v]
      BY <2>2, <3>1
    <3>3. got' \in [Conn -> Seq(Reply)]
      BY <3>2, ExceptTyped DEF IInv, TypeOK
    <3>4. rd' \in [Conn -> Nat]
      BY <2>1 DEF ReadsOf
    <3>5. \E h \in Handler : Wait(c, owner[c], h)
      BY <2>2 DEF Handler
    <3>6. QED
      BY <1>2, <2>1, <3>3, <3>4, <3>5, ReadsTyped DEF IInv, TypeOK, Wait, clientVars
  <2>4. Conforms(c)'
    BY <1>1, <1>2, <2>1, <2>2 DEF IInv, TypeOK, Wait, clientVars, Conforms, BeforeAccept,
         AfterClose, Kept, FirstPhase, UpgradePhase, HttpPhase, ServingPhase, Replies
  <2>5. ASSUME NEW d \in Conn, d # c PROVE Conforms(d)'
    BY <2>1, <2>2, <2>5, OthersConform DEF IInv, TypeOK, Wait, ReadsOf, clientVars
  <2>6. QED
    BY <2>3, <2>4, <2>5 DEF IInv
<1>5. QED
  BY <1>3, <1>4 DEF handle_read

(* The ends of established sessions and of replies close the socket.       *)
LEMMA EndConforms ==
  ASSUME IInv, NEW c \in Conn, handle_write(c) \/ EndOfSession(c) \/ on_write_quiet(c)
  PROVE  IInv'
<1>1. CASE on_write_quiet(c)
  BY <1>1, FailsConforms DEF on_write_quiet
<1>2. CASE handle_write(c) \/ EndOfSession(c)
  <2>1. Shutdown(c) /\ UNCHANGED clientVars /\ UNCHANGED rd
    BY <1>2 DEF handle_write, EndOfSession
  <2>2. ReadsOf(c)
    BY <2>1 DEF IInv, TypeOK, ReadsOf
  <2>3. QED
    BY <2>1, <2>2, ShutdownConforms
<1>3. QED
  BY <1>1, <1>2

-----------------------------------------------------------------------------
(* The invariant, and the properties that follow from it.                  *)

(* Every phase of a connection is what the handlers leave it, under any    *)
(* interleaving of the connections' handlers and clients.                  *)
THEOREM Inductive == Spec => []IInv
<1>1. Init => IInv
  BY InitConforms
<1>2. IInv /\ [Next]_vars => IInv'
  <2> SUFFICES ASSUME IInv, [Next]_vars PROVE IInv'
    OBVIOUS
  <2>1. CASE UNCHANGED vars
    BY <2>1 DEF vars, IInv, TypeOK, Conforms, BeforeAccept, AfterClose, Kept, FirstPhase,
         UpgradePhase, HttpPhase, ServingPhase, Replies
  <2>2. ASSUME NEW c \in Conn, Server(c) PROVE IInv'
    BY <2>2, AcceptConforms, FirstReadConforms, SecondReadConforms, GuidReadConforms,
       HandleReadConforms, EndConforms DEF Server
  <2>3. ASSUME NEW c \in Conn, Environment(c) PROVE IInv'
    BY <2>3, ClientConforms, EndConforms DEF Environment
  <2>4. QED
    BY <2>1, <2>2, <2>3 DEF Next
<1>3. QED
  BY <1>1, <1>2, PTL DEF Spec

(* Reads stay inside what the client wrote, every field has its type.      *)
THEOREM TypeCorrect == Spec => []TypeOK
<1>1. IInv => TypeOK
  BY DEF IInv
<1>2. QED
  BY <1>1, Inductive, PTL

(* A client that has read a first reply is upgraded when that is the 101.  *)
LEMMA UpgradedIsSwitched ==
  ASSUME NEW c \in Conn, got[c] \in {Asked, Switched, Answered}
  PROVE  Upgraded(c) <=> got[c] = Switched
<1>1. CASE got[c] = Asked
  BY <1>1 DEF Upgraded, Asked, Switched
<1>2. CASE got[c] = Switched
  <2>1. 1 \in DOMAIN got[c] /\ got[c][1] = "switching_protocols"
    BY <1>2 DEF Switched
  <2>2. QED
    BY <1>2, <2>1 DEF Upgraded
<1>3. CASE got[c] = Answered
  <2>1. DOMAIN got[c] = {1} /\ got[c][1] = "http"
    BY <1>3 DEF Answered
  <2>2. got[c] # Switched
    BY <1>3, <2>1 DEF Switched
  <2>3. QED
    BY <2>1, <2>2 DEF Upgraded
<1>4. QED
  BY <1>1, <1>2, <1>3

(* A protocol chosen by its GUID serves only the client that sent it, for  *)
(* any order of the classes and any way the stream is cut.                 *)
THEOREM AnnouncedProtocolHolds == Spec => []AnnouncedProtocol
<1>1. IInv => AnnouncedProtocol
  BY DEF IInv, Conforms, ServingPhase, AnnouncedProtocol, Established
<1>2. QED
  BY <1>1, Inductive, PTL

(* A raw session starts right behind its GUID.                             *)
THEOREM RawStartsAfterGuidHolds == Spec => []RawStartsAfterGuid
<1>1. IInv => RawStartsAfterGuid
  BY UpgradedIsSwitched DEF IInv, Conforms, ServingPhase, Replies, RawStartsAfterGuid, Established
<1>2. QED
  BY <1>1, Inductive, PTL

(* One answer per negotiation, and only the answer that fits the protocol. *)
THEOREM OneReplyHolds == Spec => []OneReply
<1>1. ASSUME IInv, NEW c \in Conn PROVE Len(got[c]) <= 1
  <2>1. got[c] \in {Asked, Switched, Answered}
    BY <1>1 DEF IInv, Conforms, Replies
  <2>2. CASE got[c] = Asked
    BY <2>2 DEF Asked
  <2>3. CASE got[c] = Switched
    BY <2>3 DEF Switched
  <2>4. CASE got[c] = Answered
    BY <2>4 DEF Answered
  <2>5. QED
    BY <2>1, <2>2, <2>3, <2>4
<1>2. ASSUME IInv, NEW c \in Conn
      PROVE  /\ Established(c) /\ owner[c] \in WsClass => Upgraded(c)
             /\ HttpServes(c) => owner[c] \in HttpClass /\ ~Upgraded(c)
             /\ pend[c] = "on_second_read" => owner[c] = ProtocolCount - 1
  <2>1. Upgraded(c) <=> got[c] = Switched
    BY <1>2, UpgradedIsSwitched DEF IInv, Conforms, Replies
  <2>2. Asked # Switched /\ Answered # Switched
    BY DEF Asked, Switched, Answered
  <2>3. QED
    BY <1>2, <2>1, <2>2 DEF IInv, Conforms, ServingPhase, HttpPhase, UpgradePhase, Established,
       HttpServes
<1>3. IInv => OneReply
  BY <1>1, <1>2 DEF OneReply
<1>4. QED
  BY <1>3, Inductive, PTL

(* No socket leaks, no session dangles, and the set of log sessions is     *)
(* exactly what broadcast may write to.                                    *)
THEOREM SocketHasKeeperHolds == Spec => []SocketHasKeeper
<1>1. IInv => SocketHasKeeper
  BY DEF IInv, TypeOK, Conforms, BeforeAccept, AfterClose, Kept, ServingPhase, SocketHasKeeper
<1>2. QED
  BY <1>1, Inductive, PTL

-----------------------------------------------------------------------------
(* Nobody waits for nobody.  While no 101 was written, no frame was sent;  *)
(* a session that upgraded has not read the client's last token; a request *)
(* that is not at its end is still going on.                               *)
NoFrameYet(c) ==
  got[c] = Asked => \A i \in 1 .. sent[c] : client[c].script[i] \notin FrameStart

MoreToCome(c) ==
  pend[c] \in {"on_second_read", "on_guid_read"} => rd[c] < Len(client[c].script)

Unfinished(c) ==
  pend[c] = "handle_read" => ParseRequest(SubSeq(client[c].script, 1, rd[c])) = "indeterminate"

GoesOn(c) == NoFrameYet(c) /\ MoreToCome(c) /\ Unfinished(c)

(* A step of the server on c: it unwrites no reply, and either c is in no  *)
(* phase that matters, or what matters in that phase holds.                *)
LEMMA ServerGoesOn ==
  ASSUME NEW c \in Conn, GoesOn(c), UNCHANGED clientVars,
         got'[c] = Asked => got[c] = Asked,
         \/ pend'[c] \in {"none", "serving", "handle_write", "on_first_read"}
         \/ /\ pend'[c] \in {"on_second_read", "on_guid_read"}
            /\ rd'[c] < Len(client[c].script)
         \/ /\ pend'[c] = "handle_read"
            /\ ParseRequest(SubSeq(client[c].script, 1, rd'[c])) = "indeterminate"
  PROVE  GoesOn(c)'
BY DEF GoesOn, NoFrameYet, MoreToCome, Unfinished, clientVars

LEMMA ShutdownGoesOn ==
  ASSUME IInv, NEW c \in Conn, GoesOn(c), UNCHANGED clientVars, Shutdown(c)
  PROVE  GoesOn(c)'
<1>1. pend'[c] = "none" /\ got'[c] = got[c]
  BY DEF Shutdown, IInv, TypeOK
<1>2. QED
  BY <1>1, ServerGoesOn

(* The class that takes the data waits for no upgrade: its data has no     *)
(* key.  It goes on reading only a request that has not ended.             *)
LEMMA HandshakeGoesOn ==
  ASSUME IInv, NEW c \in Conn, NEW i \in Index, NEW in, Sound(c, in), TakenBy(i, in),
         handshake(c, i, in)
  PROVE  /\ got'[c] = Asked => got[c] = Asked
         /\ \/ pend'[c] \in {"none", "serving", "handle_write"}
            \/ pend'[c] = "handle_read" /\ in.tag = "http" /\ in.request = "indeterminate"
<1>1. pend \in [Conn -> Handler] /\ got \in [Conn -> Seq(Reply)] /\ got[c] \in Seq(Reply)
  BY DEF IInv, TypeOK
<1>2. CASE HandshakeSuccess(c, i)
  BY <1>1, <1>2 DEF HandshakeSuccess, Wait
<1>3. CASE Wait(c, i, "handle_write") /\ Write(c, "http")
  <2>1. got'[c] = Append(got[c], "http")
    BY <1>1, <1>3 DEF Write
  <2>2. got'[c] # Asked
    BY <1>1, <2>1 DEF Asked
  <2>3. QED
    BY <1>1, <1>3, <2>2 DEF Wait
<1>4. CASE /\ in.tag = "http" /\ in.request = "indeterminate"
           /\ Wait(c, i, "handle_read") /\ UNCHANGED got
  BY <1>1, <1>4 DEF Wait
<1>5. ~(Class[i] \in {"ws", "log"} /\ in.tag = "http")
  BY DEF TakenBy, Sound, UpgradeRequest
<1>6. QED
  BY <1>2, <1>3, <1>4, <1>5 DEF handshake

LEMMA FailGoesOn ==
  ASSUME IInv, NEW c \in Conn, NEW i \in Index, NEW in, Sound(c, in), on_handshake_fail(c, i, in)
  PROVE  /\ got'[c] = Asked => got[c] = Asked
         /\ \/ pend'[c] \in {"none", "serving", "handle_write"}
            \/ pend'[c] = "handle_read" /\ in.tag = "http" /\ in.request = "indeterminate"
<1>1. CASE Shutdown(c)
  BY <1>1 DEF Shutdown, IInv, TypeOK
<1>2. CASE \E j \in 0 .. i - 1 : TakenBy(j, in) /\ handshake(c, j, in)
  <2>1. PICK j \in 0 .. i - 1 : TakenBy(j, in) /\ handshake(c, j, in)
    BY <1>2
  <2>2. j \in Index
    BY <2>1, ProtocolsAssumption DEF Index
  <2>3. QED
    BY <2>1, <2>2, HandshakeGoesOn
<1>3. QED
  BY <1>1, <1>2 DEF on_handshake_fail

LEMMA FirstReadGoesOn ==
  ASSUME IInv, NEW c \in Conn, GoesOn(c), on_first_read(c)
  PROVE  GoesOn(c)'
<1>1. pend[c] = "on_first_read" /\ got[c] = Asked /\ rd[c] = 0 /\ owner[c] \in Index
  BY PendingIsOpen DEF on_first_read, IInv, Conforms, FirstPhase, Kept
<1>2. CASE OperationFails(c)
  BY <1>2, ShutdownGoesOn DEF OperationFails
<1>3. ASSUME NEW k, ReadSome(c, k), FirstReadOk(c, Chunk(c, k)) PROVE GoesOn(c)'
  <2> DEFINE s == Chunk(c, k)
  <2>1. /\ UNCHANGED clientVars /\ k \in Nat /\ k > 0 /\ rd'[c] = k /\ rd'[c] <= sent[c]
    BY <1>1, <1>3, ReadSomeReads DEF IInv, ReadsOf
  <2>2. s = SubSeq(client[c].script, 1, rd'[c])
    BY <1>1, <2>1 DEF Chunk
  <2>3. ASSUME NEW tag \in {"http", "none"}, tag = "http" => ~HasKey(s),
               on_handshake_fail(c, owner[c], Incoming(c, s, tag))
        PROVE  GoesOn(c)'
    <3>1. Sound(c, Incoming(c, s, tag))
      BY <1>1, <1>3, <2>3, IncomingSound
    <3>2. Incoming(c, s, tag).request = ParseRequest(s)
      BY DEF Incoming
    <3>3. \/ pend'[c] \in {"none", "serving", "handle_write"}
          \/ pend'[c] = "handle_read" /\ ParseRequest(s) = "indeterminate"
      BY <1>1, <2>3, <3>1, <3>2, FailGoesOn
    <3>4. QED
      BY <1>1, <2>1, <2>2, <3>3, ServerGoesOn
  <2>4. CASE HasKey(s) /\ Wait(c, owner[c], "on_second_read") /\ Write(c, "switching_protocols")
    <3>1. client[c] \in Clients /\ client[c].script \in Seq(Token)
          /\ sent[c] \in Nat /\ sent[c] <= Len(client[c].script)
      BY ClientsAssumption DEF IInv, TypeOK
    <3>2. PICK i \in DOMAIN s : s[i] = "key"
      BY <2>4 DEF HasKey, HasToken
    <3>3. i \in DOMAIN client[c].script /\ client[c].script[i] = "key"
      BY <2>1, <2>2, <3>1, <3>2
    <3>4. PICK j \in DOMAIN client[c].script : client[c].script[j] \in FrameStart
      BY <3>1, <3>3, ClientsGoOn
    <3>5. j \notin 1 .. sent[c]
      BY <1>1, <3>4 DEF GoesOn, NoFrameYet
    <3>6. rd'[c] < Len(client[c].script)
      BY <2>1, <3>1, <3>4, <3>5
    <3>7. pend'[c] = "on_second_read"
      BY <2>4 DEF Wait, IInv, TypeOK
    <3>8. QED
      BY <1>1, <2>1, <3>6, <3>7, ServerGoesOn
  <2>5. QED
    BY <1>3, <2>3, <2>4 DEF FirstReadOk
<1>4. QED
  BY <1>2, <1>3 DEF on_first_read

LEMMA GuidReadGoesOn ==
  ASSUME IInv, NEW c \in Conn, GoesOn(c), on_guid_read(c)
  PROVE  GoesOn(c)'
<1>1. pend[c] = "on_guid_read" /\ got[c] = Switched /\ owner[c] \in Index
  BY PendingIsOpen DEF on_guid_read, IInv, Conforms, UpgradePhase, Kept
<1>2. CASE OperationFails(c)
  BY <1>2, ShutdownGoesOn DEF OperationFails
<1>3. ASSUME NEW k, ReadSome(c, k), GuidReadOk(c, Chunk(c, k)) PROVE GoesOn(c)'
  <2>1. UNCHANGED clientVars
    BY <1>3, ReadSomeReads DEF IInv
  <2>2. CASE Shutdown(c)
    BY <2>1, <2>2, ShutdownGoesOn
  <2>3. ASSUME NEW in \in FramePayload(c), do_custom_handshake(c, in) PROVE GoesOn(c)'
    <3>1. Sound(c, in) /\ in.tag = "ws_guid"
      BY <1>1, <2>3 DEF Sound, FramePayload
    <3>2. CASE HandshakeSuccess(c, owner[c])
      <4>1. pend'[c] \in {"none", "serving"} /\ got' = got
        BY <3>2 DEF HandshakeSuccess, Wait, IInv, TypeOK
      <4>2. QED
        BY <2>1, <4>1, ServerGoesOn
    <3>3. CASE on_handshake_fail(c, owner[c], in)
      <4>1. /\ got'[c] = Asked => got[c] = Asked
            /\ pend'[c] \in {"none", "serving", "handle_write"}
        BY <1>1, <3>1, <3>3, FailGoesOn
      <4>2. QED
        BY <2>1, <4>1, ServerGoesOn
    <3>4. QED
      BY <2>3, <3>2, <3>3 DEF do_custom_handshake
  <2>4. QED
    BY <1>3, <2>2, <2>3 DEF GuidReadOk
<1>4. QED
  BY <1>2, <1>3 DEF on_guid_read

LEMMA HandleReadGoesOn ==
  ASSUME IInv, NEW c \in Conn, GoesOn(c), handle_read(c)
  PROVE  GoesOn(c)'
<1>1. pend[c] = "handle_read" /\ got[c] = Asked
  BY DEF handle_read, IInv, Conforms, HttpPhase
<1>2. CASE OperationFails(c)
  BY <1>2, ShutdownGoesOn DEF OperationFails
<1>3. ASSUME NEW k, ReadSome(c, k), HandleReadOk(c, k) PROVE GoesOn(c)'
  <2>1. UNCHANGED clientVars /\ rd'[c] = rd[c] + k
    BY <1>3, ReadSomeReads DEF IInv
  <2>2. \/ pend'[c] = "handle_write"
        \/ /\ pend'[c] = "handle_read"
           /\ ParseRequest(SubSeq(client[c].script, 1, rd'[c])) = "indeterminate"
    BY <1>3, <2>1 DEF HandleReadOk, Wait, IInv, TypeOK
  <2>3. QED
    BY <1>1, <2>1, <2>2, ServerGoesOn
<1>4. QED
  BY <1>2, <1>3 DEF handle_read

LEMMA ClientGoesOn ==
  ASSUME IInv, NEW c \in Conn, GoesOn(c), Connect(c) \/ Send(c) \/ Hangup(c)
  PROVE  GoesOn(c)'
<1>1. CASE Send(c)
  <2>1. sent'[c] = sent[c] + 1 /\ sent[c] \in Nat /\ UNCHANGED <<client, serverVars>>
    BY <1>1 DEF Send, IInv, TypeOK
  <2>2. ASSUME got[c] = Asked PROVE client[c].script[sent[c] + 1] \notin FrameStart
    <3>1. ~Upgraded(c)
      BY <2>2 DEF Upgraded, Asked
    <3>2. QED
      BY <1>1, <3>1 DEF Send, CanSend
  <2>3. NoFrameYet(c)'
    <3> SUFFICES ASSUME got'[c] = Asked, NEW i \in 1 .. sent'[c]
                 PROVE  client[c].script[i] \notin FrameStart
      BY <2>1 DEF NoFrameYet, serverVars
    <3>1. got[c] = Asked
      BY <2>1 DEF serverVars
    <3>2. CASE i = sent[c] + 1
      BY <2>2, <3>1, <3>2
    <3>3. CASE i \in 1 .. sent[c]
      BY <3>1, <3>3 DEF GoesOn, NoFrameYet
    <3>4. QED
      BY <2>1, <3>2, <3>3
  <2>4. QED
    BY <2>1, <2>3 DEF GoesOn, MoreToCome, Unfinished, serverVars
<1>2. CASE Connect(c) \/ Hangup(c)
  BY <1>2 DEF Connect, Hangup, serverVars, GoesOn, NoFrameYet, MoreToCome, Unfinished
<1>3. QED
  BY <1>1, <1>2

LEMMA ServerStepGoesOn ==
  ASSUME IInv, NEW c \in Conn, GoesOn(c), Server(c) \/ Environment(c)
  PROVE  GoesOn(c)'
<1>1. CASE on_accept(c)
  <2>1. UNCHANGED <<clientVars, got>> /\ pend'[c] = "on_first_read"
    BY <1>1 DEF on_accept, IInv, TypeOK
  <2>2. QED
    BY <2>1, ServerGoesOn
<1>2. CASE on_second_read(c)
  <2>1. CASE OperationFails(c)
    BY <2>1, ShutdownGoesOn DEF OperationFails
  <2>2. CASE Wait(c, owner[c], "on_guid_read") /\ UNCHANGED <<clientVars, got, rd>>
    <3>1. pend'[c] = "on_guid_read" /\ rd'[c] < Len(client[c].script)
      BY <1>2, <2>2 DEF on_second_read, Wait, IInv, TypeOK, GoesOn, MoreToCome
    <3>2. QED
      BY <2>2, <3>1, ServerGoesOn
  <2>3. QED
    BY <1>2, <2>1, <2>2 DEF on_second_read
<1>3. CASE handle_write(c) \/ EndOfSession(c) \/ on_write_quiet(c)
  BY <1>3, ShutdownGoesOn DEF handle_write, EndOfSession, on_write_quiet, OperationFails
<1>4. QED
  BY <1>1, <1>2, <1>3, FirstReadGoesOn, GuidReadGoesOn, HandleReadGoesOn, ClientGoesOn
     DEF Server, Environment

(* No handler of one connection touches another.                           *)
LEMMA OneConnection ==
  ASSUME IInv, NEW c \in Conn, NEW d \in Conn, d # c, Server(c) \/ Environment(c)
  PROVE  /\ client'[d] = client[d] /\ sent'[d] = sent[d]
         /\ got'[d] = got[d] /\ pend'[d] = pend[d] /\ rd'[d] = rd[d]
<1>1. ASSUME Shutdown(c) PROVE got'[d] = got[d] /\ pend'[d] = pend[d]
  BY <1>1 DEF Shutdown, IInv, TypeOK
<1>2. ASSUME NEW i, NEW h, Wait(c, i, h) PROVE pend'[d] = pend[d]
  BY <1>2 DEF Wait, IInv, TypeOK
<1>3. ASSUME NEW r, Write(c, r) PROVE got'[d] = got[d]
  BY <1>3 DEF Write, IInv, TypeOK
<1>4. ASSUME NEW i, HandshakeSuccess(c, i) PROVE got'[d] = got[d] /\ pend'[d] = pend[d]
  BY <1>2, <1>4 DEF HandshakeSuccess, IInv, TypeOK
<1>5. ASSUME NEW i, NEW in, handshake(c, i, in) PROVE got'[d] = got[d] /\ pend'[d] = pend[d]
  BY <1>2, <1>3, <1>4, <1>5 DEF handshake
<1>6. ASSUME NEW i, NEW in, on_handshake_fail(c, i, in) PROVE got'[d] = got[d] /\ pend'[d] = pend[d]
  BY <1>1, <1>5, <1>6 DEF on_handshake_fail
<1>7. ASSUME NEW k, ReadSome(c, k) PROVE UNCHANGED clientVars /\ rd'[d] = rd[d]
  BY <1>7 DEF ReadSome, IInv, TypeOK
<1>8. ASSUME OperationFails(c) PROVE /\ UNCHANGED clientVars /\ rd'[d] = rd[d]
                                    /\ got'[d] = got[d] /\ pend'[d] = pend[d]
  BY <1>1, <1>8 DEF OperationFails
<1>9. CASE Connect(c) \/ Send(c) \/ Hangup(c)
  BY <1>9 DEF Connect, Send, Hangup, serverVars, IInv, TypeOK
<1>10. CASE on_accept(c)
  BY <1>10 DEF on_accept, clientVars, IInv, TypeOK
<1>11. CASE on_first_read(c)
  BY <1>2, <1>3, <1>6, <1>7, <1>8, <1>11 DEF on_first_read, FirstReadOk, clientVars
<1>12. CASE on_second_read(c)
  BY <1>2, <1>8, <1>12 DEF on_second_read, clientVars
<1>13. CASE on_guid_read(c)
  BY <1>1, <1>4, <1>6, <1>7, <1>8, <1>13 DEF on_guid_read, GuidReadOk, do_custom_handshake, clientVars
<1>14. CASE handle_read(c)
  BY <1>2, <1>3, <1>7, <1>8, <1>14 DEF handle_read, HandleReadOk, clientVars
<1>15. CASE handle_write(c) \/ EndOfSession(c) \/ on_write_quiet(c)
  BY <1>1, <1>8, <1>15 DEF handle_write, EndOfSession, on_write_quiet, clientVars
<1>16. QED
  BY <1>9, <1>10, <1>11, <1>12, <1>13, <1>14, <1>15 DEF Server, Environment

LEMMA StepGoesOn == IInv /\ (\A d \in Conn : GoesOn(d)) /\ [Next]_vars => (\A d \in Conn : GoesOn(d))'
<1> SUFFICES ASSUME IInv, \A d \in Conn : GoesOn(d), [Next]_vars, NEW d \in Conn PROVE GoesOn(d)'
  OBVIOUS
<1>1. CASE UNCHANGED vars
  BY <1>1 DEF vars, GoesOn, NoFrameYet, MoreToCome, Unfinished
<1>2. ASSUME NEW c \in Conn, Server(c) \/ Environment(c) PROVE GoesOn(d)'
  <2>1. CASE d = c
    BY <1>2, <2>1, ServerStepGoesOn
  <2>2. CASE d # c
    BY <1>2, <2>2, OneConnection DEF GoesOn, NoFrameYet, MoreToCome, Unfinished
  <2>3. QED
    BY <2>1, <2>2
<1>3. QED
  BY <1>1, <1>2 DEF Next

(* A client that goes on is never left waiting for a server that waits for *)
(* it, however the reads cut its bytes.                                    *)
THEOREM NoMutualWaitHolds == Spec => []NoMutualWait
<1> DEFINE AllGoOn == \A d \in Conn : GoesOn(d)
<1>1. Init => AllGoOn
  BY DEF Init, GoesOn, NoFrameYet, MoreToCome, Unfinished
<1>2. IInv /\ AllGoOn => NoMutualWait
  <2> SUFFICES ASSUME IInv, AllGoOn, NEW c \in Conn, up[c], rd[c] = sent[c], 0 < sent[c],
                      pend[c] \in {"on_first_read", "on_guid_read", "handle_read"}
               PROVE  CanSend(c)
    BY DEF NoMutualWait
  <2> DEFINE script == client[c].script
  <2>1. /\ client[c] \in Clients /\ script \in Seq(Token) /\ sent[c] \in Nat
        /\ sent[c] <= Len(script) /\ GoesOn(c) /\ Conforms(c)
    BY ClientsAssumption DEF IInv, TypeOK
  <2>2. CASE pend[c] = "on_first_read"
    BY <2>1, <2>2 DEF Conforms, FirstPhase
  <2>3. CASE pend[c] = "on_guid_read"
    <3>1. sent[c] < Len(script) /\ got[c] = Switched
      BY <2>1, <2>3 DEF GoesOn, MoreToCome, Conforms, UpgradePhase
    <3>2. Upgraded(c)
      BY <3>1 DEF Upgraded, Switched
    <3>3. QED
      BY <3>1, <3>2 DEF CanSend
  <2>4. CASE pend[c] = "handle_read"
    <3> DEFINE s == SubSeq(script, 1, sent[c])
    <3>1. /\ Len(s) = sent[c] /\ \A i \in 1 .. sent[c] : s[i] = script[i]
      BY <2>1
    <3>2. s[1] = "line" /\ ~HasToken(s, "end")
      BY <2>1, <2>4 DEF GoesOn, Unfinished, ParseRequest
    <3>3. script[1] = "line" /\ script # <<>>
      BY <2>1, <3>1, <3>2
    <3>4. PICK j \in DOMAIN script :
            script[j] = "end" /\ \A i \in 1 .. j : script[i] \notin FrameStart
      BY <2>1, <3>3, ClientsGoOn
    <3>5. j \notin 1 .. sent[c]
      BY <2>1, <3>1, <3>2, <3>4 DEF HasToken
    <3>6. sent[c] < Len(script) /\ sent[c] + 1 \in 1 .. j
      BY <2>1, <3>4, <3>5
    <3>7. QED
      BY <3>4, <3>6 DEF CanSend
  <2>5. QED
    BY <2>2, <2>3, <2>4
<1>3. QED
  BY <1>1, <1>2, StepGoesOn, Inductive, PTL DEF Spec

-----------------------------------------------------------------------------
(* The refinement: every handler is one step of the abstract negotiation   *)
(* of its connection, or none.                                             *)

ServedBy(c) == IF StageOf(c) = "serving" THEN owner[c] ELSE NoGuid

OthersSame(c) ==
  \A d \in Conn \ {c} :
    sock'[d] = sock[d] /\ pend'[d] = pend[d] /\ owner'[d] = owner[d]

Moves(c, from, to) == StageOf(c) = from /\ StageOf(c)' = to

AbstractStep(c) ==
  \/ UNCHANGED <<StageOf(c), ServedBy(c)>>
  \/ Moves(c, "absent", "negotiating")
  \/ Moves(c, "negotiating", "upgraded")
  \/ /\ StageOf(c) \in {"negotiating", "upgraded"}
     /\ StageOf(c)' = "serving"
     /\ owner'[c] \in Index
     /\ owner'[c] \in HttpClass => StageOf(c) = "negotiating"
     /\ owner'[c] \in WsClass => StageOf(c) = "upgraded"
     /\ owner'[c] \notin HttpClass => client[c].guid = owner'[c]
  \/ /\ StageOf(c) \in {"negotiating", "upgraded", "serving"}
     /\ StageOf(c)' = "closed"

(* A step of one connection that maps is a step of Negotiation, as the     *)
(* other connections keep their mapped state.                              *)
LEMMA StepMaps ==
  ASSUME NEW c \in Conn, OthersSame(c), UNCHANGED client, AbstractStep(c)
  PROVE  [N!ANext]_(N!avars)
<1> DEFINE st == [d \in Conn |-> StageOf(d)]
           sv == [d \in Conn |-> ServedBy(d)]
           an == [d \in Conn |-> client[d].guid]
<1>1. \A d \in Conn \ {c} : StageOf(d)' = StageOf(d) /\ ServedBy(d)' = ServedBy(d)
  BY DEF OthersSame, StageOf, ServedBy
<1>2. an' = an
  OBVIOUS
<1>3. st' = [st EXCEPT ![c] = StageOf(c)'] /\ sv' = [sv EXCEPT ![c] = ServedBy(c)']
  BY <1>1
<1>4. CASE UNCHANGED <<StageOf(c), ServedBy(c)>>
  <2>1. st' = st /\ sv' = sv
    BY <1>1, <1>4
  <2>2. QED
    BY <1>2, <2>1 DEF N!avars, ServedBy
<1>5. CASE Moves(c, "absent", "negotiating")
  <2>1. sv' = sv
    BY <1>1, <1>5 DEF Moves, ServedBy
  <2>2. N!Open(c)
    BY <1>2, <1>3, <1>5, <2>1 DEF N!Open, Moves, ServedBy
  <2>3. QED
    BY <2>2 DEF N!ANext
<1>6. CASE Moves(c, "negotiating", "upgraded")
  <2>1. sv' = sv
    BY <1>1, <1>6 DEF Moves, ServedBy
  <2>2. N!Upgrade(c)
    BY <1>2, <1>3, <1>6, <2>1 DEF N!Upgrade, Moves, ServedBy
  <2>3. QED
    BY <2>2 DEF N!ANext
<1>7. CASE /\ StageOf(c) \in {"negotiating", "upgraded"}
           /\ StageOf(c)' = "serving"
           /\ owner'[c] \in Index
           /\ owner'[c] \in HttpClass => StageOf(c) = "negotiating"
           /\ owner'[c] \in WsClass => StageOf(c) = "upgraded"
           /\ owner'[c] \notin HttpClass => client[c].guid = owner'[c]
  <2>1. PICK p \in Index : p = owner'[c]
    BY <1>7
  <2>2. ServedBy(c)' = p
    BY <1>7, <2>1 DEF ServedBy
  <2>3. N!Serve(c, p)
    BY <1>2, <1>3, <1>7, <2>1, <2>2 DEF N!Serve, ServedBy
  <2>4. QED
    BY <2>3 DEF N!ANext
<1>8. CASE /\ StageOf(c) \in {"negotiating", "upgraded", "serving"}
           /\ StageOf(c)' = "closed"
  <2>1. ServedBy(c)' = NoGuid
    BY <1>8 DEF ServedBy, NoGuid
  <2>2. N!Close(c)
    BY <1>2, <1>3, <1>8, <2>1 DEF N!Close, ServedBy
  <2>3. QED
    BY <2>2 DEF N!ANext
<1>9. QED
  BY <1>4, <1>5, <1>6, <1>7, <1>8 DEF AbstractStep

(* An open socket is in one of the three live stages.                      *)
LEMMA OpenStage ==
  ASSUME NEW c \in Conn, sock[c] = "open"
  PROVE  StageOf(c) \in {"negotiating", "upgraded", "serving"}
BY DEF StageOf

(* A shutdown is Negotiation's closing.                                    *)
LEMMA ShutdownMaps ==
  ASSUME IInv, NEW c \in Conn, sock[c] = "open", Shutdown(c)
  PROVE  OthersSame(c) /\ AbstractStep(c)
<1>1. OthersSame(c)
  BY DEF IInv, TypeOK, Shutdown, OthersSame
<1>2. StageOf(c)' = "closed"
  BY DEF IInv, TypeOK, Shutdown, StageOf
<1>3. QED
  BY <1>1, <1>2, OpenStage DEF AbstractStep

(* A class that takes the data is Negotiation's choice or upgrade.         *)
LEMMA HandshakeMaps ==
  ASSUME IInv, NEW c \in Conn, NEW i \in Index, NEW in, Sound(c, in), sock[c] = "open",
         pend[c] = (IF in.tag = "ws_guid" THEN "on_guid_read" ELSE "on_first_read"),
         TakenBy(i, in), handshake(c, i, in)
  PROVE  OthersSame(c) /\ AbstractStep(c)
<1>1. /\ owner' = [owner EXCEPT ![c] = i]
      /\ \E h \in {"serving", "handle_read", "handle_write", "none"} :
           pend' = [pend EXCEPT ![c] = h]
      /\ UNCHANGED sock
  BY DEF Sound, TakenBy, handshake, HandshakeSuccess, Wait, UpgradeRequest
<1>2. OthersSame(c)
  BY <1>1 DEF IInv, TypeOK, OthersSame
<1>3. StageOf(c)' = "serving" /\ owner'[c] = i
  BY <1>1 DEF IInv, TypeOK, StageOf
<1>4. StageOf(c) = IF in.tag = "ws_guid" THEN "upgraded" ELSE "negotiating"
  BY DEF StageOf
<1>5. i \in HttpClass => in.tag = "http"
  BY DEF TakenBy, HttpClass
<1>6. i \in WsClass => in.tag = "ws_guid"
  BY DEF TakenBy, WsClass, Sound, UpgradeRequest
<1>7. i \notin HttpClass => client[c].guid = i
  BY DEF TakenBy, HttpClass, Sound, Index, NoGuid, UpgradeRequest
<1>8. QED
  BY <1>2, <1>3, <1>4, <1>5, <1>6, <1>7 DEF AbstractStep

(* The descent ends in a class that takes the data, or in a closing.       *)
LEMMA FailMaps ==
  ASSUME IInv, NEW c \in Conn, NEW i \in Index, NEW in, Sound(c, in), sock[c] = "open",
         pend[c] = (IF in.tag = "ws_guid" THEN "on_guid_read" ELSE "on_first_read"),
         on_handshake_fail(c, i, in)
  PROVE  OthersSame(c) /\ AbstractStep(c)
<1>1. CASE \E j \in 0 .. i - 1 : TakenBy(j, in) /\ handshake(c, j, in)
  <2>1. PICK j \in 0 .. i - 1 : TakenBy(j, in) /\ handshake(c, j, in)
    BY <1>1
  <2>2. j \in Index
    BY <2>1, ProtocolsAssumption DEF Index
  <2>3. QED
    BY <2>1, <2>2, HandshakeMaps
<1>2. CASE Shutdown(c)
  BY <1>2, ShutdownMaps
<1>3. QED
  BY <1>1, <1>2 DEF on_handshake_fail

(* on_first_read maps.                                                     *)
LEMMA FirstReadMaps ==
  ASSUME IInv, NEW c \in Conn, on_first_read(c)
  PROVE  OthersSame(c) /\ AbstractStep(c) /\ UNCHANGED client
<1>1. pend[c] = "on_first_read" /\ sock[c] = "open" /\ owner[c] \in Index
  BY PendingIsOpen DEF on_first_read, IInv, Conforms, Kept
<1>2. CASE OperationFails(c)
  BY <1>1, <1>2, ShutdownMaps DEF OperationFails, clientVars
<1>3. ASSUME NEW k, ReadSome(c, k), FirstReadOk(c, Chunk(c, k))
      PROVE  OthersSame(c) /\ AbstractStep(c) /\ UNCHANGED client
  <2>1. UNCHANGED client
    BY <1>3 DEF ReadSome, clientVars
  <2>2. CASE ~HasKey(Chunk(c, k)) /\ on_handshake_fail(c, owner[c], Incoming(c, Chunk(c, k), "http"))
    <3>1. Sound(c, Incoming(c, Chunk(c, k), "http")) /\ Incoming(c, Chunk(c, k), "http").tag = "http"
      BY <1>1, <1>3, <2>2, IncomingSound DEF Incoming
    <3>2. QED
      BY <1>1, <2>1, <2>2, <3>1, FailMaps
  <2>3. CASE Wait(c, owner[c], "on_second_read")
    <3>1. OthersSame(c)
      BY <2>3 DEF IInv, TypeOK, Wait, OthersSame
    <3>2. Moves(c, "negotiating", "upgraded")
      BY <1>1, <2>3 DEF IInv, TypeOK, Wait, Moves, StageOf
    <3>3. QED
      BY <2>1, <3>1, <3>2 DEF AbstractStep
  <2>4. CASE on_handshake_fail(c, owner[c], Incoming(c, Chunk(c, k), "none"))
    <3>1. Sound(c, Incoming(c, Chunk(c, k), "none")) /\ Incoming(c, Chunk(c, k), "none").tag = "none"
      BY <1>1, <1>3, IncomingSound DEF Incoming
    <3>2. QED
      BY <1>1, <2>1, <2>4, <3>1, FailMaps
  <2>5. QED
    BY <1>3, <2>2, <2>3, <2>4 DEF FirstReadOk
<1>4. QED
  BY <1>2, <1>3 DEF on_first_read

(* on_second_read maps.                                                    *)
LEMMA SecondReadMaps ==
  ASSUME IInv, NEW c \in Conn, on_second_read(c)
  PROVE  OthersSame(c) /\ AbstractStep(c) /\ UNCHANGED client
<1>1. pend[c] = "on_second_read" /\ sock[c] = "open"
  BY PendingIsOpen DEF on_second_read
<1>2. CASE OperationFails(c)
  BY <1>1, <1>2, ShutdownMaps DEF OperationFails, clientVars
<1>3. CASE Wait(c, owner[c], "on_guid_read") /\ UNCHANGED <<clientVars, got, rd>>
  <2>1. OthersSame(c)
    BY <1>3 DEF IInv, TypeOK, Wait, OthersSame
  <2>2. UNCHANGED <<StageOf(c), ServedBy(c)>>
    BY <1>1, <1>3 DEF IInv, TypeOK, Wait, StageOf, ServedBy
  <2>3. QED
    BY <1>3, <2>1, <2>2 DEF AbstractStep, clientVars
<1>4. QED
  BY <1>2, <1>3 DEF on_second_read

(* on_guid_read maps.                                                      *)
LEMMA GuidReadMaps ==
  ASSUME IInv, NEW c \in Conn, on_guid_read(c)
  PROVE  OthersSame(c) /\ AbstractStep(c) /\ UNCHANGED client
<1>1. /\ pend[c] = "on_guid_read" /\ sock[c] = "open"
      /\ owner[c] = ProtocolCount - 1 /\ owner[c] \in Index
      /\ Class[owner[c]] \in {"ws", "log"}
      /\ got[c] = Switched
  BY PendingIsOpen, ProtocolsAssumption DEF on_guid_read, IInv, Conforms, Kept, UpgradePhase
<1>2. CASE OperationFails(c)
  BY <1>1, <1>2, ShutdownMaps DEF OperationFails, clientVars
<1>3. ASSUME NEW k, ReadSome(c, k), GuidReadOk(c, Chunk(c, k))
      PROVE  OthersSame(c) /\ AbstractStep(c) /\ UNCHANGED client
  <2>1. UNCHANGED client
    BY <1>3 DEF ReadSome, clientVars
  <2>2. CASE Shutdown(c)
    BY <1>1, <2>1, <2>2, ShutdownMaps
  <2>3. ASSUME NEW in \in FramePayload(c), do_custom_handshake(c, in)
        PROVE  OthersSame(c) /\ AbstractStep(c)
    <3>1. Sound(c, in) /\ in.tag = "ws_guid" /\ in.guid = client[c].guid
      BY <1>1, <2>3 DEF Sound, FramePayload
    <3>2. CASE in.guid = owner[c] /\ HandshakeSuccess(c, owner[c])
      <4>1. in.tag = "ws_guid" /\ TakenBy(owner[c], in) /\ handshake(c, owner[c], in)
        BY <1>1, <3>1, <3>2 DEF TakenBy, handshake
      <4>2. QED
        BY <1>1, <3>1, <4>1, HandshakeMaps
    <3>3. CASE on_handshake_fail(c, owner[c], in)
      BY <1>1, <3>1, <3>3, FailMaps
    <3>4. QED
      BY <2>3, <3>2, <3>3 DEF do_custom_handshake
  <2>4. QED
    BY <1>3, <2>1, <2>2, <2>3 DEF GuidReadOk
<1>4. QED
  BY <1>2, <1>3 DEF on_guid_read

(* http_session::handle_read maps.                                         *)
LEMMA HandleReadMaps ==
  ASSUME IInv, NEW c \in Conn, handle_read(c)
  PROVE  OthersSame(c) /\ AbstractStep(c) /\ UNCHANGED client
<1>1. pend[c] = "handle_read" /\ sock[c] = "open"
  BY PendingIsOpen DEF handle_read
<1>2. CASE OperationFails(c)
  BY <1>1, <1>2, ShutdownMaps DEF OperationFails, clientVars
<1>3. ASSUME NEW k, ReadSome(c, k), HandleReadOk(c, k)
      PROVE  OthersSame(c) /\ AbstractStep(c) /\ UNCHANGED client
  <2>1. UNCHANGED client
    BY <1>3 DEF ReadSome, clientVars
  <2>2. \E h \in {"handle_read", "handle_write"} : Wait(c, owner[c], h)
    BY <1>3 DEF HandleReadOk
  <2>3. OthersSame(c)
    BY <2>2 DEF IInv, TypeOK, Wait, OthersSame
  <2>4. UNCHANGED <<StageOf(c), ServedBy(c)>>
    BY <1>1, <2>2 DEF IInv, TypeOK, Wait, StageOf, ServedBy
  <2>5. QED
    BY <2>1, <2>3, <2>4 DEF AbstractStep
<1>4. QED
  BY <1>2, <1>3 DEF handle_read

(* The ends of sessions map to a closing.                                  *)
LEMMA EndMaps ==
  ASSUME IInv, NEW c \in Conn, handle_write(c) \/ EndOfSession(c) \/ on_write_quiet(c)
  PROVE  OthersSame(c) /\ AbstractStep(c) /\ UNCHANGED client
<1>1. sock[c] = "open"
  BY DEF IInv, TypeOK, Conforms, BeforeAccept, AfterClose, handle_write, EndOfSession,
     on_write_quiet
<1>2. Shutdown(c) /\ UNCHANGED client
  BY DEF handle_write, EndOfSession, on_write_quiet, OperationFails, clientVars
<1>3. QED
  BY <1>1, <1>2, ShutdownMaps

(* on_accept maps.                                                         *)
LEMMA AcceptMaps ==
  ASSUME IInv, NEW c \in Conn, on_accept(c)
  PROVE  OthersSame(c) /\ AbstractStep(c) /\ UNCHANGED client
<1>1. OthersSame(c)
  BY DEF IInv, TypeOK, on_accept, OthersSame
<1>2. Moves(c, "absent", "negotiating")
  BY DEF IInv, TypeOK, on_accept, Moves, StageOf
<1>3. QED
  BY <1>1, <1>2 DEF AbstractStep, on_accept, clientVars

(* The steps of a client map to none.                                      *)
LEMMA ClientMaps ==
  ASSUME IInv, NEW c \in Conn, Connect(c) \/ Send(c) \/ Hangup(c)
  PROVE  OthersSame(c) /\ AbstractStep(c) /\ UNCHANGED client
<1>1. CASE Connect(c)
  <2>1. OthersSame(c)
    BY <1>1 DEF IInv, TypeOK, Connect, OthersSame
  <2>2. UNCHANGED <<StageOf(c), ServedBy(c)>>
    BY <1>1 DEF IInv, TypeOK, Connect, StageOf, ServedBy
  <2>3. QED
    BY <1>1, <2>1, <2>2 DEF AbstractStep, Connect
<1>2. CASE Send(c) \/ Hangup(c)
  <2>1. UNCHANGED <<client, sock, pend, owner>>
    BY <1>2 DEF Send, Hangup, serverVars
  <2>2. UNCHANGED <<StageOf(c), ServedBy(c)>>
    BY <2>1 DEF StageOf, ServedBy
  <2>3. QED
    BY <2>1, <2>2 DEF AbstractStep, OthersSame
<1>3. QED
  BY <1>1, <1>2

(* The server, with its sessions, tags and descents, does nothing to a     *)
(* connection that the abstract negotiation does not allow.                *)
THEOREM Implementation == Spec => ImplementsNegotiation
<1>1. Init => N!AInit
  <2> SUFFICES ASSUME Init PROVE N!AInit
    OBVIOUS
  <2>1. ASSUME NEW c \in Conn
        PROVE  StageOf(c) = "absent" /\ client[c].guid \in Index \cup {NoGuid}
    BY ClientsAssumption DEF Init, StageOf
  <2>2. QED
    BY <2>1 DEF N!AInit
<1>2. IInv /\ [Next]_vars => [N!ANext]_(N!avars)
  <2> SUFFICES ASSUME IInv, [Next]_vars PROVE [N!ANext]_(N!avars)
    OBVIOUS
  <2>1. CASE UNCHANGED vars
    BY <2>1 DEF vars, N!avars, StageOf
  <2>2. ASSUME NEW c \in Conn, Server(c) PROVE [N!ANext]_(N!avars)
    BY <2>2, StepMaps, AcceptMaps, FirstReadMaps, SecondReadMaps, GuidReadMaps, HandleReadMaps,
       EndMaps DEF Server
  <2>3. ASSUME NEW c \in Conn, Environment(c) PROVE [N!ANext]_(N!avars)
    BY <2>3, StepMaps, ClientMaps, EndMaps DEF Environment
  <2>4. QED
    BY <2>1, <2>2, <2>3 DEF Next
<1>3. QED
  BY <1>1, <1>2, Inductive, PTL DEF Spec, ImplementsNegotiation, N!ASpec
=============================================================================
