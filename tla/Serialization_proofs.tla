------------------------ MODULE Serialization_proofs ------------------------
(***************************************************************************)
(* With the assertions compiled in, the echo is what was typed, for any    *)
(* length of the header, any radix and any sizes of archives, and session  *)
(* and client implement EchoChannel.                                       *)
(*                                                                         *)
(* An archive is decoded when as many bytes were announced, and read, as   *)
(* were sent: what the digits of a header say matters to the types alone.  *)
(***************************************************************************)
EXTENDS Serialization, Induction

Debug == build = "debug"

(***************************************************************************)
(* The inductive invariant.  HeaderFirst, because a message is whole only  *)
(* when it is behind its header; Once, because a message that came whole   *)
(* stays the last its sender has written; Replies, because the client's    *)
(* message is whatever the server was given.                               *)
(***************************************************************************)
Shape ==
  /\ build \in {"debug", "release"}
  /\ open \in [Process -> BOOLEAN] /\ pend \in [Process -> Handler]
  /\ size \in [Process -> Nat] /\ rd \in [Process -> Int]
  /\ msg \in [Process -> {"none", "typed", "torn"}]
  /\ \A p \in Process : open[p] <=> pend[p] # "none"

Before(p) == pend[p] \in {"on_write_guid", "on_read_header"} \/ (p = "client" /\ pend[p] = "on_write")

HeaderFirst ==
  \A p \in Process :
    /\ Before(p) => rd[Peer(p)] = 0
    /\ pend[p] = "on_read_data" => rd[Peer(p)] = HeaderLength

Once ==
  /\ pend["client"] = "on_write_guid" => size["client"] = 0
  /\ pend["server"] # "on_write_guid"
  /\ pend["server"] \in {"on_read_header", "on_read_data"} => size["server"] = 0
  /\ \A p \in Process : msg[p] # "none" =>
       /\ pend[p] = "none" \/ (p = "server" /\ pend[p] = "on_write")
       /\ size[Peer(p)] # 0

Whole ==
  \A p \in Process : msg[p] # "none" =>
    msg[p] = "typed" /\ rd[Peer(p)] = HeaderLength + size[Peer(p)]

Replies == size["server"] # 0 => msg["server"] = "typed"

IInv == Shape /\ (Debug => HeaderFirst /\ Once /\ Whole /\ Replies)

-----------------------------------------------------------------------------
LEMMA PeerProperties ==
  ASSUME NEW p \in Process
  PROVE  /\ Peer(p) \in Process /\ Peer(p) # p /\ Peer(Peer(p)) = p
         /\ \A q \in Process : q = p \/ q = Peer(p)
         /\ Peer("client") = "server" /\ Peer("server") = "client"
BY DEF Process, Peer

LEMMA InitIInv == Init => IInv
<1> SUFFICES ASSUME Init PROVE IInv
  OBVIOUS
<1>1. Shape
  BY DEF Init, Shape, Process, Handler
<1>2. HeaderFirst /\ Once /\ Whole /\ Replies
  BY DEF Init, HeaderFirst, Before, Once, Whole, Replies, Process, Peer
<1>3. QED
  BY <1>1, <1>2 DEF IInv

-----------------------------------------------------------------------------
(* What the steps are made of.                                             *)
LEMMA ClosesProperties ==
  ASSUME Shape, NEW p \in Process, Closes(p)
  PROVE  /\ open' \in [Process -> BOOLEAN] /\ pend' \in [Process -> Handler]
         /\ open'[p] = FALSE /\ pend'[p] = "none"
         /\ \A q \in Process \ {p} : open'[q] = open[q] /\ pend'[q] = pend[q]
         /\ \A q \in Process : open'[q] <=> pend'[q] # "none"
BY DEF Shape, Closes, Handler

LEMMA WaitsProperties ==
  ASSUME Shape, NEW p \in Process, NEW h \in Handler \ {"none"}, pend[p] # "none", Waits(p, h)
  PROVE  /\ open' \in [Process -> BOOLEAN] /\ pend' \in [Process -> Handler]
         /\ open' = open /\ pend'[p] = h
         /\ \A q \in Process \ {p} : pend'[q] = pend[q]
         /\ \A q \in Process : open'[q] <=> pend'[q] # "none"
BY DEF Shape, Waits

LEMMA WriteProperties ==
  ASSUME Shape, NEW p \in Process, pend[p] # "none", async_write(p)
  PROVE  /\ open' \in [Process -> BOOLEAN] /\ pend' \in [Process -> Handler]
         /\ size' \in [Process -> Nat]
         /\ \A q \in Process \ {p} : pend'[q] = pend[q] /\ size'[q] = size[q]
         /\ \A q \in Process : open'[q] <=> pend'[q] # "none"
         /\ \/ pend'[p] = "on_write" /\ size'[p] # 0
            \/ pend'[p] = "none" /\ size' = size
<1>1. PICK n \in Sizes :
        \/ Fits(n) /\ size' = [size EXCEPT ![p] = n] /\ Waits(p, "on_write")
        \/ ~Fits(n) /\ UNCHANGED size /\ Closes(p)
  BY DEF async_write
<1>2. n \in Nat /\ n # 0
  BY SerializationAssumption
<1>3. CASE size' = [size EXCEPT ![p] = n] /\ Waits(p, "on_write")
  <2>1. "on_write" \in Handler \ {"none"}
    BY DEF Handler
  <2>2. /\ open' \in [Process -> BOOLEAN] /\ pend' \in [Process -> Handler]
        /\ pend'[p] = "on_write"
        /\ \A q \in Process \ {p} : pend'[q] = pend[q]
        /\ \A q \in Process : open'[q] <=> pend'[q] # "none"
    BY <1>3, <2>1, WaitsProperties
  <2>3. size' \in [Process -> Nat] /\ size'[p] = n /\ \A q \in Process \ {p} : size'[q] = size[q]
    BY <1>2, <1>3 DEF Shape
  <2>4. QED
    BY <1>2, <2>2, <2>3
<1>4. CASE UNCHANGED size /\ Closes(p)
  BY <1>4, ClosesProperties DEF Shape
<1>5. QED
  BY <1>1, <1>3, <1>4

(* A step after which p waits for nothing, and that reads or gives nothing *)
(* that counts: it leaves size and messages alone.                         *)
LEMMA StepOfEnd ==
  ASSUME IInv, NEW p \in Process, Closes(p), UNCHANGED <<build, size, msg>>,
         \A q \in Process \ {Peer(p)} : rd'[q] = rd[q], rd' \in [Process -> Int],
         msg[p] # "none" => rd' = rd
  PROVE  IInv'
<1>1. /\ open' \in [Process -> BOOLEAN] /\ pend' \in [Process -> Handler]
      /\ open'[p] = FALSE /\ pend'[p] = "none"
      /\ \A q \in Process \ {p} : open'[q] = open[q] /\ pend'[q] = pend[q]
      /\ \A q \in Process : open'[q] <=> pend'[q] # "none"
  BY ClosesProperties DEF IInv
<1>2. Shape'
  BY <1>1 DEF IInv, Shape
<1>3. SUFFICES ASSUME Debug PROVE HeaderFirst' /\ Once' /\ Whole' /\ Replies'
  BY <1>2 DEF IInv, Debug
<1>4. HeaderFirst /\ Once /\ Whole /\ Replies
  BY <1>3 DEF IInv
<1>5. HeaderFirst'
  BY <1>1, <1>4, PeerProperties DEF HeaderFirst, Before
<1>6. Once'
  BY <1>1, <1>4 DEF Once, Process
<1>7. Whole' /\ Replies'
  BY <1>4, PeerProperties DEF Whole, Replies
<1>8. QED
  BY <1>5, <1>6, <1>7

(* p's next handler is h, and it has read what comes before that.          *)
LEMMA StepOfWait ==
  ASSUME IInv, NEW p \in Process, NEW h \in Handler \ {"none", "on_write_guid"}, Waits(p, h),
         pend[p] # "none", UNCHANGED <<build, size, msg>>, rd' \in [Process -> Int],
         \A q \in Process \ {Peer(p)} : rd'[q] = rd[q],
         Debug => /\ msg[p] = "none"
                  /\ h \in {"on_read_header", "on_read_data"}
                  /\ h = "on_read_header" => rd'[Peer(p)] = 0
                  /\ h = "on_read_data" => rd'[Peer(p)] = HeaderLength
                  /\ p = "server" => size["server"] = 0
  PROVE  IInv'
<1>1. /\ open' \in [Process -> BOOLEAN] /\ pend' \in [Process -> Handler]
      /\ open' = open /\ pend'[p] = h
      /\ \A q \in Process \ {p} : pend'[q] = pend[q]
      /\ \A q \in Process : open'[q] <=> pend'[q] # "none"
  BY WaitsProperties DEF IInv
<1>2. Shape'
  BY <1>1 DEF IInv, Shape
<1>3. SUFFICES ASSUME Debug PROVE HeaderFirst' /\ Once' /\ Whole' /\ Replies'
  BY <1>2 DEF IInv, Debug
<1>4. HeaderFirst /\ Once /\ Whole /\ Replies
  BY <1>3 DEF IInv
<1>5. HeaderFirst'
  BY <1>1, <1>3, <1>4, PeerProperties DEF HeaderFirst, Before
<1>6. Once'
  BY <1>1, <1>3, <1>4 DEF Once, Process
<1>7. Whole' /\ Replies'
  BY <1>3, <1>4, PeerProperties DEF Whole, Replies
<1>8. QED
  BY <1>5, <1>6, <1>7

-----------------------------------------------------------------------------
(* The steps.                                                              *)
LEMMA StepOfTypeIn ==
  ASSUME IInv, type_in
  PROVE  IInv'
<1>1. /\ pend["client"] = "on_write_guid" /\ UNCHANGED <<build, rd, msg>>
      /\ \/ async_write("client")
         \/ Closes("client") /\ UNCHANGED size
  BY DEF type_in
<1>2. "client" \in Process
  BY DEF Process
<1>3. CASE async_write("client")
  <2>1. /\ open' \in [Process -> BOOLEAN] /\ pend' \in [Process -> Handler]
        /\ size' \in [Process -> Nat]
        /\ \A q \in Process \ {"client"} : pend'[q] = pend[q] /\ size'[q] = size[q]
        /\ \A q \in Process : open'[q] <=> pend'[q] # "none"
        /\ \/ pend'["client"] = "on_write" /\ size'["client"] # 0
           \/ pend'["client"] = "none" /\ size' = size
    BY <1>1, <1>2, <1>3, WriteProperties DEF IInv
  <2>2. Shape'
    BY <1>1, <2>1 DEF IInv, Shape
  <2>3. SUFFICES ASSUME Debug PROVE HeaderFirst' /\ Once' /\ Whole' /\ Replies'
    BY <1>1, <2>2 DEF IInv, Debug
  <2>4. HeaderFirst /\ Once /\ Whole /\ Replies
    BY <2>3 DEF IInv
  <2>5. HeaderFirst'
    BY <1>1, <1>2, <2>1, <2>4, PeerProperties DEF HeaderFirst, Before
  <2>6. msg["client"] = "none" /\ msg["server"] = "none"
    BY <1>1, <1>2, <2>4, PeerProperties DEF Once, Process
  <2>7. Once' /\ Whole'
    BY <1>1, <2>1, <2>4, <2>6 DEF Once, Whole, Process
  <2>8. Replies'
    BY <1>1, <2>1, <2>4 DEF Replies, Process
  <2>9. QED
    BY <2>5, <2>7, <2>8
<1>4. CASE Closes("client") /\ UNCHANGED size
  BY <1>1, <1>2, <1>4, StepOfEnd DEF IInv, Shape
<1>5. QED
  BY <1>1, <1>3, <1>4

LEMMA StepOfWrite ==
  ASSUME IInv, NEW p \in Process, on_write(p)
  PROVE  IInv'
<1>1. /\ pend[p] = "on_write" /\ UNCHANGED <<build, size, rd, msg>>
      /\ Closes(p) \/ (p = "client" /\ Waits(p, "on_read_header"))
  BY DEF on_write, on_write_msg
<1>2. CASE Closes(p)
  BY <1>1, <1>2, StepOfEnd DEF IInv, Shape
<1>3. CASE p = "client" /\ Waits(p, "on_read_header")
  <2>1. Debug => msg[p] = "none" /\ rd[Peer(p)] = 0
    BY <1>1, <1>3 DEF IInv, Once, HeaderFirst, Before
  <2>2. rd' \in [Process -> Int] /\ "on_read_header" \in Handler \ {"none", "on_write_guid"}
    BY <1>1 DEF IInv, Shape, Handler
  <2>3. QED
    BY <1>1, <1>3, <2>1, <2>2, StepOfWait
<1>4. QED
  BY <1>1, <1>2, <1>3

(* The bytes that are read are counted, and nobody else's.                 *)
LEMMA ReadsProperties ==
  ASSUME Shape, NEW p \in Process, NEW k \in Int, Reads(p, k)
  PROVE  /\ rd' \in [Process -> Int] /\ rd'[Peer(p)] = rd[Peer(p)] + k
         /\ \A q \in Process \ {Peer(p)} : rd'[q] = rd[q]
BY PeerProperties DEF Shape, Reads

(* A session that ends with a read has been given nothing before.          *)
LEMMA StepOfLastRead ==
  ASSUME IInv, NEW p \in Process, NEW k \in Int, Reads(p, k), Closes(p),
         UNCHANGED <<build, size, msg>>, Debug => msg[p] = "none"
  PROVE  IInv'
<1>1. Shape
  BY DEF IInv
<1>2. rd' \in [Process -> Int] /\ \A q \in Process \ {Peer(p)} : rd'[q] = rd[q]
  BY <1>1, ReadsProperties
<1>3. CASE msg[p] = "none"
  BY <1>2, <1>3, StepOfEnd
<1>4. CASE msg[p] # "none"
  <2>1. Shape'
    BY <1>1, <1>2, ClosesProperties DEF Shape
  <2>2. QED
    BY <1>4, <2>1 DEF IInv, Debug
<1>5. QED
  BY <1>3, <1>4

LEMMA StepOfReadHeader ==
  ASSUME IInv, NEW p \in Process, on_read_header(p)
  PROVE  IInv'
<1>1. pend[p] = "on_read_header" /\ UNCHANGED <<build, size, msg>> /\ Shape
  BY DEF on_read_header, IInv
<1>2. Debug => msg[p] = "none" /\ rd[Peer(p)] = 0 /\ (p = "server" => size["server"] = 0)
  BY <1>1 DEF IInv, Once, HeaderFirst, Before
<1>3. CASE Closes(p) /\ UNCHANGED rd
  BY <1>1, <1>3, StepOfEnd DEF Shape
<1>4. ASSUME NEW k \in ReadSome(p, HeaderLength), Reads(p, k), HeaderRead(p, k)
      PROVE  IInv'
  <2>1. k \in Int
    BY DEF ReadSome
  <2>2. /\ rd' \in [Process -> Int] /\ rd'[Peer(p)] = rd[Peer(p)] + k
        /\ \A q \in Process \ {Peer(p)} : rd'[q] = rd[q]
    BY <1>1, <1>4, <2>1, ReadsProperties
  <2>3. Closes(p) \/ (Waits(p, "on_read_data") /\ (Debug => k = HeaderLength))
    BY <1>1, <1>4 DEF HeaderRead, Aborts, Debug, Shape
  <2>4. CASE Closes(p)
    BY <1>1, <1>2, <1>4, <2>1, <2>4, StepOfLastRead
  <2>5. CASE Waits(p, "on_read_data") /\ (Debug => k = HeaderLength)
    <3>1. Debug => rd'[Peer(p)] = HeaderLength
      BY <1>2, <2>2, <2>5, SerializationAssumption
    <3>2. "on_read_data" \in Handler \ {"none", "on_write_guid"}
      BY DEF Handler
    <3>3. QED
      BY <1>1, <1>2, <2>2, <2>5, <3>1, <3>2, StepOfWait
  <2>6. QED
    BY <2>3, <2>4, <2>5
<1>5. QED
  BY <1>3, <1>4 DEF on_read_header

(* A whole archive is given to on_read.                                    *)
LEMMA StepOfMessage ==
  ASSUME IInv, NEW p \in Process, pend[p] = "on_read_data", UNCHANGED build,
         NEW k \in Nat \ {0}, Reads(p, k), NEW m \in {"none", "typed", "torn"}, on_read(p, m),
         Debug => k = size[Peer(p)] /\ m = IF p = "server" THEN "typed" ELSE msg["server"]
  PROVE  IInv' /\ (Debug => msg'[p] = "typed" /\ size["client"] # 0)
<1>1. Shape /\ k \in Int
  BY DEF IInv
<1>2. /\ rd' \in [Process -> Int] /\ rd'[Peer(p)] = rd[Peer(p)] + k
      /\ \A q \in Process \ {Peer(p)} : rd'[q] = rd[q]
  BY <1>1, ReadsProperties
<1>3. /\ msg' \in [Process -> {"none", "typed", "torn"}] /\ msg'[p] = m
      /\ \A q \in Process \ {p} : msg'[q] = msg[q]
  BY <1>1 DEF on_read, Shape
<1>4. CASE p = "client"
  <2>1. Closes(p) /\ UNCHANGED size
    BY <1>4 DEF on_read
  <2>2. /\ open' \in [Process -> BOOLEAN] /\ pend' \in [Process -> Handler]
        /\ pend'[p] = "none"
        /\ \A q \in Process \ {p} : pend'[q] = pend[q]
        /\ \A q \in Process : open'[q] <=> pend'[q] # "none"
    BY <1>1, <2>1, ClosesProperties
  <2>3. Shape'
    BY <1>1, <1>2, <1>3, <2>1, <2>2 DEF Shape
  <2>4. SUFFICES ASSUME Debug
                 PROVE  /\ HeaderFirst' /\ Once' /\ Whole' /\ Replies'
                        /\ msg'[p] = "typed" /\ size["client"] # 0
    BY <2>3 DEF IInv, Debug
  <2>5. HeaderFirst /\ Once /\ Whole /\ Replies
    BY <2>4 DEF IInv
  <2>6. k = size["server"] /\ m = msg["server"] /\ size["server"] # 0 /\ Peer(p) = "server"
    BY <1>4, <2>4, PeerProperties
  <2>7. m = "typed" /\ size["client"] # 0
    BY <2>5, <2>6, PeerProperties DEF Replies, Once, Process
  <2>8. HeaderFirst'
    BY <1>2, <2>2, <2>5, PeerProperties DEF HeaderFirst, Before
  <2>9. Once'
    BY <1>3, <1>4, <2>1, <2>2, <2>5, <2>6 DEF Once, Process, Peer
  <2>10. rd'["server"] = HeaderLength + size["server"]
    BY <1>2, <2>5, <2>6 DEF HeaderFirst
  <2>11. Whole'
    BY <1>2, <1>3, <1>4, <2>1, <2>5, <2>7, <2>10 DEF Whole, Process, Peer
  <2>12. Replies'
    BY <1>3, <1>4, <2>1, <2>5 DEF Replies, Process
  <2>13. QED
    BY <1>3, <2>7, <2>8, <2>9, <2>11, <2>12
<1>5. CASE p = "server"
  <2>1. async_write("server")
    BY <1>5 DEF on_read
  <2>2. /\ open' \in [Process -> BOOLEAN] /\ pend' \in [Process -> Handler]
        /\ size' \in [Process -> Nat]
        /\ \A q \in Process \ {"server"} : pend'[q] = pend[q] /\ size'[q] = size[q]
        /\ \A q \in Process : open'[q] <=> pend'[q] # "none"
        /\ \/ pend'["server"] = "on_write" /\ size'["server"] # 0
           \/ pend'["server"] = "none" /\ size' = size
    BY <1>1, <1>5, <2>1, WriteProperties
  <2>3. Shape'
    BY <1>1, <1>2, <1>3, <2>2 DEF Shape
  <2>4. SUFFICES ASSUME Debug
                 PROVE  /\ HeaderFirst' /\ Once' /\ Whole' /\ Replies'
                        /\ msg'[p] = "typed" /\ size["client"] # 0
    BY <2>3 DEF IInv, Debug
  <2>5. HeaderFirst /\ Once /\ Whole /\ Replies
    BY <2>4 DEF IInv
  <2>6. k = size["client"] /\ m = "typed" /\ size["client"] # 0 /\ Peer(p) = "client"
    BY <1>5, <2>4, PeerProperties
  <2>7. size["server"] = 0 /\ msg["client"] = "none"
    BY <1>5, <2>5 DEF Once, Process, Peer
  <2>8. HeaderFirst'
    BY <1>2, <1>5, <2>2, <2>5, PeerProperties DEF HeaderFirst, Before
  <2>9. Once'
    BY <1>3, <1>5, <2>2, <2>5, <2>6, <2>7 DEF Once, Process, Peer
  <2>10. rd'["client"] = HeaderLength + size'["client"]
    BY <1>2, <1>5, <2>2, <2>5, <2>6 DEF HeaderFirst, Process
  <2>11. Whole'
    BY <1>3, <1>5, <2>6, <2>7, <2>10 DEF Whole, Process, Peer
  <2>12. Replies'
    BY <1>3, <1>5, <2>6 DEF Replies
  <2>13. QED
    BY <1>3, <2>6, <2>8, <2>9, <2>11, <2>12
<1>6. QED
  BY <1>4, <1>5 DEF Process

LEMMA StepOfReadData ==
  ASSUME IInv, NEW p \in Process, on_read_data(p)
  PROVE  IInv' /\ (Debug /\ msg' # msg => msg'[p] = "typed" /\ size["client"] # 0)
<1>1. pend[p] = "on_read_data" /\ UNCHANGED build /\ Shape
  BY DEF on_read_data, IInv
<1>2. Debug => msg[p] = "none"
  BY <1>1 DEF IInv, Once
<1>3. CASE Undecodable(p) /\ UNCHANGED rd
  BY <1>1, <1>3, StepOfEnd DEF Undecodable, Shape
<1>4. ASSUME NEW k \in ReadSome(p, want[p]), Reads(p, k),
             Closes(p) /\ UNCHANGED <<size, msg>>
      PROVE  IInv' /\ msg' = msg
  BY <1>1, <1>2, <1>4, k \in Int, StepOfLastRead DEF ReadSome
<1>5. ASSUME NEW k \in ReadSome(p, want[p]), Reads(p, k), build = "release" \/ k = want[p], DataRead(p, k)
      PROVE  IInv' /\ (Debug /\ msg' # msg => msg'[p] = "typed" /\ size["client"] # 0)
  <2>1. k \in Nat \ {0}
    BY DEF ReadSome
  <2>2. CASE Undecodable(p)
    BY <1>4, <1>5, <2>2 DEF Undecodable
  <2>3. CASE k = size[Peer(p)] /\ on_read(p, IF p = "server" THEN "typed" ELSE msg["server"])
    <3>1. (IF p = "server" THEN "typed" ELSE msg["server"]) \in {"none", "typed", "torn"}
      BY <1>1 DEF Shape, Process
    <3>2. QED
      BY <1>1, <1>5, <2>1, <2>3, <3>1, StepOfMessage
  <2>4. CASE k # want[p] /\ on_read(p, "torn")
    BY <1>1, <1>5, <2>1, <2>4, StepOfMessage DEF Debug
  <2>5. QED
    BY <1>5, <2>2, <2>3, <2>4 DEF DataRead
<1>6. QED
  BY <1>3, <1>4, <1>5 DEF on_read_data, Aborts

LEMMA StepIInv == IInv /\ [Next]_vars => IInv'
<1> SUFFICES ASSUME IInv, [Next]_vars PROVE IInv'
  OBVIOUS
<1>1. CASE type_in
  BY <1>1, StepOfTypeIn
<1>2. CASE Quit
  BY <1>2, StepOfEnd DEF Quit, IInv, Shape, Process
<1>3. ASSUME NEW p \in Process, Session(p) PROVE IInv'
  BY <1>3, StepOfWrite, StepOfReadHeader, StepOfReadData DEF Session
<1>4. CASE UNCHANGED <<build, open, pend, size, rd, msg>>
  BY <1>4 DEF IInv, Shape, Debug, HeaderFirst, Before, Once, Whole, Replies
<1>5. QED
  BY <1>1, <1>2, <1>3, <1>4 DEF Next, Arrive, vars

-----------------------------------------------------------------------------
(* The invariant of every reachable state.                                 *)
THEOREM Inductive == Spec => []IInv
BY InitIInv, StepIInv, PTL DEF Spec

(* What comes back is what was typed, and it was read to its end.          *)
THEOREM EchoIsTypedHolds == Spec => []EchoIsTyped
<1>1. IInv => EchoIsTyped
  <2> SUFFICES ASSUME IInv, NEW p \in Process, Debug, msg[p] # "none"
               PROVE  msg[p] = "typed" /\ rd[Peer(p)] = Written(Peer(p))
    BY DEF EchoIsTyped, Debug
  <2>1. msg[p] = "typed" /\ rd[Peer(p)] = HeaderLength + size[Peer(p)] /\ size[Peer(p)] # 0
    BY DEF IInv, Whole, Once
  <2>2. QED
    BY <2>1 DEF Written
<1>2. QED
  BY <1>1, Inductive, PTL

-----------------------------------------------------------------------------
(* The types.  What arrives is bounded by what was written, so they depend *)
(* on a sender that writes one archive: who may still write has not.       *)
Unwritten ==
  /\ pend["client"] = "on_write_guid" => size["client"] = 0
  /\ pend["server"] # "on_write_guid"
  /\ pend["server"] \in {"on_read_header", "on_read_data"} => size["server"] = 0

TypeInv == TypeOK /\ Unwritten

LEMMA PowerProperties ==
  /\ Power \in [Nat -> Nat]
  /\ \A k \in Nat : Power[k] > 0
<1>1. Multiplies(Power, Radix, 1)
  <2>1. \E f : Multiplies(f, Radix, 1)
    BY Multiplied, SerializationAssumption
  <2>2. Power = CHOOSE f : f = [k \in Nat |-> IF k = 0 THEN 1 ELSE Radix * f[k - 1]]
    BY DEF Power
  <2>3. QED
    BY <2>1, <2>2 DEF Multiplies
<1>2. Power \in [Nat -> Nat] /\ Power[0] = 1 /\ \A k \in Nat : Power[k + 1] = Radix * Power[k]
  BY <1>1, MultipliedProperties, SerializationAssumption
<1> DEFINE S == {k \in Nat : Power[k] > 0}
<1>3. ASSUME NEW n \in Nat, \A m \in 0 .. n - 1 : m \in S PROVE n \in S
  <2>1. CASE n = 0
    BY <1>2, <2>1
  <2>2. CASE n # 0
    <3>1. n - 1 \in S /\ n - 1 \in Nat /\ (n - 1) + 1 = n
      BY <1>3, <2>2
    <3>2. Power[n] = Radix * Power[n - 1] /\ Power[n - 1] \in Nat /\ Power[n - 1] > 0
      BY <1>2, <3>1
    <3>3. \A x, y \in Nat : x > 0 /\ y > 0 => x * y \in Nat /\ x * y > 0
      OBVIOUS
    <3>4. QED
      BY <3>2, <3>3, SerializationAssumption
  <2>3. QED
    BY <2>1, <2>2
<1> HIDE DEF S
<1>4. \A n \in Nat : n \in S
  BY <1>3, Strongly
<1>5. QED
  BY <1>2, <1>4 DEF S

(* Any part of a header announces some size.                               *)
LEMMA HeaderValueType ==
  ASSUME NEW n \in Nat, NEW k \in 1 .. HeaderLength
  PROVE  HeaderValue(n, k) \in Nat
<1>1. HeaderLength - k \in Nat
  BY SerializationAssumption
<1>2. Power[HeaderLength - k] \in Nat /\ Power[HeaderLength - k] > 0
  BY <1>1, PowerProperties
<1>3. QED
  BY <1>2 DEF HeaderValue

(* What is read has arrived.                                               *)
LEMMA ReadSomeProperties ==
  ASSUME TypeOK, NEW p \in Process, NEW limit \in Nat, NEW k \in ReadSome(p, limit), Reads(p, k)
  PROVE  /\ k \in 1 .. limit
         /\ rd' \in [Process -> Nat] /\ \A q \in Process : rd'[q] <= arrived[q]
<1> DEFINE there == arrived[Peer(p)] - rd[Peer(p)]
<1>1. /\ Peer(p) \in Process /\ rd \in [Process -> Nat] /\ arrived \in [Process -> Nat]
      /\ \A q \in Process : rd[q] <= arrived[q]
  BY PeerProperties DEF TypeOK
<1>2. there \in Nat
  BY <1>1
<1> HIDE DEF there
<1>3. \E x \in {limit, there} : \A y \in {limit, there} : x <= y
  <2>1. CASE limit <= there
    BY <1>2, <2>1
  <2>2. CASE there <= limit
    BY <1>2, <2>2
  <2>3. QED
    BY <1>2, <2>1, <2>2
<1>4. Min({limit, there}) \in {limit, there} /\ Min({limit, there}) <= limit /\ Min({limit, there}) <= there
  BY <1>3 DEF Min
<1>5. k \in 1 .. Min({limit, there})
  BY DEF ReadSome, there
<1>6. k \in 1 .. limit /\ k <= there
  BY <1>2, <1>4, <1>5
<1>7. rd' = [rd EXCEPT ![Peer(p)] = @ + k] /\ rd[Peer(p)] + k <= arrived[Peer(p)]
  BY <1>1, <1>6 DEF Reads, there
<1>8. QED
  BY <1>1, <1>6, <1>7

LEMMA InitTypeInv == Init => TypeInv
<1> SUFFICES ASSUME Init PROVE TypeInv
  OBVIOUS
<1>1. TypeOK
  BY DEF Init, TypeOK, Process, Handler
<1>2. QED
  BY <1>1 DEF Init, TypeInv, Unwritten, Process

(* A step of p that leaves what was written, and what arrives, alone, or   *)
(* is the first to write.                                                  *)
LEMMA StepOfOne ==
  ASSUME TypeInv, NEW p \in Process, UNCHANGED <<build, arrived>>,
         open' \in [Process -> BOOLEAN], pend' \in [Process -> Handler],
         \A q \in Process : open'[q] <=> pend'[q] # "none",
         \A q \in Process \ {p} : pend'[q] = pend[q] /\ size'[q] = size[q],
         size' \in [Process -> Nat], size[p] = 0 \/ size' = size,
         rd' \in [Process -> Nat], \A q \in Process : rd'[q] <= arrived[q],
         want' \in [Process -> Nat], msg' \in [Process -> {"none", "typed", "torn"}],
         aborted' \in [Process -> {"no", "header", "data"}],
         \/ pend'[p] \in {"none", "on_write"}
         \/ /\ pend'[p] \in {"on_read_header", "on_read_data"} /\ size' = size
            /\ p = "server" => pend[p] \in {"on_read_header", "on_read_data"}
  PROVE  TypeInv'
<1>1. \A q \in Process : size[q] = 0 \/ size'[q] = size[q]
  BY DEF TypeInv, TypeOK
<1>2. TypeOK'
  <2>1. \A q \in Process : arrived[q] <= IF size'[q] = 0 THEN 0 ELSE HeaderLength + size'[q]
    BY <1>1, SerializationAssumption DEF TypeInv, TypeOK
  <2>2. QED
    BY <2>1 DEF TypeInv, TypeOK
<1>3. Unwritten'
  BY DEF TypeInv, Unwritten, Process
<1>4. QED
  BY <1>2, <1>3 DEF TypeInv

LEMMA StepTypeInv == TypeInv /\ [Next]_vars => TypeInv'
<1> SUFFICES ASSUME TypeInv, [Next]_vars PROVE TypeInv'
  OBVIOUS
<1>1. TypeOK /\ Unwritten /\ Shape
  BY DEF TypeInv, TypeOK, Shape
<1>2. /\ size \in [Process -> Nat] /\ rd \in [Process -> Nat] /\ want \in [Process -> Nat]
      /\ msg \in [Process -> {"none", "typed", "torn"}]
      /\ aborted \in [Process -> {"no", "header", "data"}]
      /\ \A q \in Process : rd[q] <= arrived[q]
  BY <1>1 DEF TypeOK
<1>3. ASSUME NEW p \in Process, Arrive(p) PROVE TypeInv'
  <2>1. PICK n \in arrived[p] + 1 .. Written(p) : arrived' = [arrived EXCEPT ![p] = n]
    BY <1>3 DEF Arrive
  <2>2. arrived[p] \in Nat /\ Written(p) \in Nat /\ n \in Nat /\ arrived[p] <= n /\ n <= Written(p)
    BY <1>1, <2>1, SerializationAssumption DEF TypeOK, Written
  <2>3. arrived' \in [Process -> Nat]
    BY <1>1, <2>1, <2>2 DEF TypeOK
  <2>4. \A q \in Process : arrived[q] <= arrived'[q] /\ arrived'[q] <= Written(q)
    BY <1>1, <2>1, <2>2 DEF TypeOK, Written
  <2>5. \A q \in Process : rd[q] <= arrived'[q]
    BY <1>1, <1>2, <2>3, <2>4 DEF TypeOK
  <2>6. QED
    BY <1>1, <1>3, <2>3, <2>4, <2>5 DEF Arrive, TypeInv, TypeOK, Unwritten, Written
<1>4. ASSUME NEW p \in Process, Closes(p), UNCHANGED <<build, arrived, size>>,
             rd' \in [Process -> Nat], \A q \in Process : rd'[q] <= arrived[q],
             want' \in [Process -> Nat], msg' \in [Process -> {"none", "typed", "torn"}],
             aborted' \in [Process -> {"no", "header", "data"}]
      PROVE  TypeInv'
  <2>1. /\ open' \in [Process -> BOOLEAN] /\ pend' \in [Process -> Handler]
        /\ pend'[p] = "none" /\ \A q \in Process \ {p} : pend'[q] = pend[q]
        /\ \A q \in Process : open'[q] <=> pend'[q] # "none"
    BY <1>1, <1>4, ClosesProperties
  <2>2. QED
    BY <1>2, <1>4, <2>1, StepOfOne
<1>5. ASSUME NEW p \in Process, NEW h \in {"on_read_header", "on_read_data"}, pend[p] # "none",
             p = "server" => pend[p] \in {"on_read_header", "on_read_data"},
             Waits(p, h), UNCHANGED <<build, arrived, size>>,
             rd' \in [Process -> Nat], \A q \in Process : rd'[q] <= arrived[q],
             want' \in [Process -> Nat], UNCHANGED <<msg, aborted>>
      PROVE  TypeInv'
  <2>1. h \in Handler \ {"none"}
    BY DEF Handler
  <2>2. /\ open' \in [Process -> BOOLEAN] /\ pend' \in [Process -> Handler]
        /\ pend'[p] = h /\ \A q \in Process \ {p} : pend'[q] = pend[q]
        /\ \A q \in Process : open'[q] <=> pend'[q] # "none"
    BY <1>1, <1>5, <2>1, WaitsProperties
  <2>3. QED
    BY <1>2, <1>5, <2>2, StepOfOne
<1>6. ASSUME NEW p \in Process, async_write(p), size[p] = 0, pend[p] # "none",
             UNCHANGED <<build, arrived, want, aborted>>,
             rd' \in [Process -> Nat], \A q \in Process : rd'[q] <= arrived[q],
             msg' \in [Process -> {"none", "typed", "torn"}]
      PROVE  TypeInv'
  <2>1. /\ open' \in [Process -> BOOLEAN] /\ pend' \in [Process -> Handler]
        /\ size' \in [Process -> Nat]
        /\ \A q \in Process \ {p} : pend'[q] = pend[q] /\ size'[q] = size[q]
        /\ \A q \in Process : open'[q] <=> pend'[q] # "none"
        /\ pend'[p] \in {"none", "on_write"}
    BY <1>1, <1>6, WriteProperties
  <2>2. QED
    BY <1>2, <1>6, <2>1, StepOfOne
<1>7. CASE type_in
  <2>1. "client" \in Process /\ size["client"] = 0 /\ pend["client"] = "on_write_guid"
    BY <1>1, <1>7 DEF type_in, Unwritten, Process
  <2>2. QED
    BY <1>2, <1>4, <1>6, <1>7, <2>1 DEF type_in
<1>8. CASE Quit
  BY <1>2, <1>4, <1>8 DEF Quit, Process
<1>9. ASSUME NEW p \in Process, on_write(p) PROVE TypeInv'
  BY <1>2, <1>4, <1>5, <1>9 DEF on_write, on_write_msg
<1>10. ASSUME NEW p \in Process, on_read_header(p) PROVE TypeInv'
  <2>1. CASE Closes(p) /\ UNCHANGED <<rd, want, aborted>>
    BY <1>2, <1>4, <1>10, <2>1 DEF on_read_header
  <2>2. ASSUME NEW k \in ReadSome(p, HeaderLength), Reads(p, k), HeaderRead(p, k) PROVE TypeInv'
    <3>1. /\ k \in 1 .. HeaderLength
          /\ rd' \in [Process -> Nat] /\ \A q \in Process : rd'[q] <= arrived[q]
      BY <1>1, <2>2, ReadSomeProperties, SerializationAssumption
    <3>2. HeaderValue(size[Peer(p)], k) \in Nat
      BY <1>2, <3>1, HeaderValueType, PeerProperties
    <3>3. [want EXCEPT ![p] = HeaderValue(size[Peer(p)], k)] \in [Process -> Nat]
      BY <1>2, <3>2
    <3>4. CASE Aborts(p, "header") /\ UNCHANGED want
      <4>1. aborted' \in [Process -> {"no", "header", "data"}]
        BY <1>2, <3>4 DEF Aborts
      <4>2. QED
        BY <1>2, <1>4, <1>10, <3>1, <3>4, <4>1 DEF on_read_header, Aborts
    <3>5. CASE Closes(p) /\ UNCHANGED <<want, aborted>>
      BY <1>2, <1>4, <1>10, <3>1, <3>5 DEF on_read_header
    <3>6. CASE /\ want' = [want EXCEPT ![p] = HeaderValue(size[Peer(p)], k)]
               /\ Waits(p, "on_read_data") /\ UNCHANGED aborted
      BY <1>2, <1>5, <1>10, <3>1, <3>3, <3>6 DEF on_read_header
    <3>7. QED
      BY <2>2, <3>4, <3>5, <3>6 DEF HeaderRead
  <2>3. QED
    BY <1>10, <2>1, <2>2 DEF on_read_header
<1>11. ASSUME NEW p \in Process, on_read_data(p) PROVE TypeInv'
  <2>1. pend[p] = "on_read_data" /\ UNCHANGED <<build, arrived, want>>
    BY <1>11 DEF on_read_data
  <2>2. CASE Undecodable(p) /\ UNCHANGED <<rd, aborted>>
    BY <1>2, <1>4, <2>1, <2>2 DEF Undecodable
  <2>3. ASSUME NEW k \in ReadSome(p, want[p]), Reads(p, k) PROVE
             rd' \in [Process -> Nat] /\ \A q \in Process : rd'[q] <= arrived[q]
    BY <1>1, <1>2, <2>3, ReadSomeProperties
  <2>4. ASSUME NEW k \in ReadSome(p, want[p]), Reads(p, k),
               Aborts(p, "data") /\ UNCHANGED <<size, msg>>
        PROVE  TypeInv'
    <3>1. aborted' \in [Process -> {"no", "header", "data"}]
      BY <1>2, <2>4 DEF Aborts
    <3>2. QED
      BY <1>2, <1>4, <2>1, <2>3, <2>4, <3>1 DEF Aborts
  <2>5. ASSUME NEW k \in ReadSome(p, want[p]), Reads(p, k), UNCHANGED aborted,
               NEW m \in {"none", "typed", "torn"}, on_read(p, m)
        PROVE  TypeInv'
    <3>1. msg' \in [Process -> {"none", "typed", "torn"}]
      BY <1>2, <2>5 DEF on_read
    <3>2. CASE p = "server"
      <4>1. size[p] = 0
        BY <1>1, <2>1, <3>2 DEF Unwritten
      <4>2. QED
        BY <1>6, <2>1, <2>3, <2>5, <3>1, <3>2, <4>1 DEF on_read
    <3>3. CASE p # "server"
      BY <1>2, <1>4, <2>1, <2>3, <2>5, <3>1, <3>3 DEF on_read
    <3>4. QED
      BY <3>2, <3>3
  <2>6. ASSUME NEW k \in ReadSome(p, want[p]), Reads(p, k), DataRead(p, k), UNCHANGED aborted
        PROVE  TypeInv'
    <3>1. (IF p = "server" THEN "typed" ELSE msg["server"]) \in {"none", "typed", "torn"}
      BY <1>2 DEF Process
    <3>2. \/ on_read(p, IF p = "server" THEN "typed" ELSE msg["server"])
          \/ on_read(p, "torn")
          \/ Undecodable(p)
      BY <2>6 DEF DataRead
    <3>3. Undecodable(p) => TypeInv'
      BY <1>2, <1>4, <2>1, <2>3, <2>6 DEF Undecodable
    <3>4. QED
      BY <2>5, <2>6, <3>1, <3>2, <3>3
  <2>7. QED
    BY <1>11, <2>2, <2>4, <2>6 DEF on_read_data
<1>12. CASE UNCHANGED vars
  BY <1>1, <1>12 DEF vars, TypeInv, TypeOK, Unwritten
<1>13. QED
  BY <1>3, <1>7, <1>8, <1>9, <1>10, <1>11, <1>12 DEF Next, Session

(* Nothing is read before it has arrived, nothing arrives that was not     *)
(* written, and a header that is cut short still announces a size.         *)
THEOREM TypeCorrect == Spec => []TypeOK
<1>1. TypeInv => TypeOK
  BY DEF TypeInv
<1>2. QED
  BY <1>1, InitTypeInv, StepTypeInv, PTL DEF Spec

-----------------------------------------------------------------------------
(* The refinement.                                                         *)
Said == IF size["client"] = 0 THEN <<>> ELSE <<"typed">>
Heard == IF build = "release" \/ msg["client"] = "none" THEN <<>> ELSE <<msg["client"]>>
EchoNext == [Echo!Next]_(Echo!echoVars)

LEMMA ShortPrefixes ==
  /\ Echo!IsPrefix(<<>>, <<>>) /\ Echo!IsPrefix(<<>>, <<"typed">>)
  /\ Echo!IsPrefix(<<"typed">>, <<"typed">>)
BY DEF Echo!IsPrefix

(* A step that says and hears nothing may end the conversation.            *)
LEMMA SilentStep ==
  ASSUME UNCHANGED <<Said, Heard>>, open'["client"] => open["client"],
         open["client"] \in BOOLEAN, open'["client"] \in BOOLEAN
  PROVE  EchoNext
<1>1. CASE open'["client"] = open["client"]
  BY <1>1 DEF EchoNext, Echo!echoVars, Said, Heard
<1>2. CASE open'["client"] # open["client"]
  <2>1. (~open["client"])' = TRUE
    BY <1>2
  <2>2. Echo!End
    BY <2>1 DEF Echo!End, Said, Heard
  <2>3. QED
    BY <2>2 DEF EchoNext, Echo!Next
<1>3. QED
  BY <1>1, <1>2

LEMMA TypeInSays ==
  ASSUME IInv, type_in
  PROVE  EchoNext
<1>1. /\ pend["client"] = "on_write_guid" /\ UNCHANGED <<build, msg>> /\ Shape
      /\ async_write("client") \/ (Closes("client") /\ UNCHANGED size)
  BY DEF type_in, IInv
<1>2. "client" \in Process /\ open["client"] = TRUE
  BY <1>1 DEF Process, Shape
<1>3. Heard' = Heard
  BY <1>1 DEF Heard
<1>4. IInv'
  BY StepOfTypeIn
<1>5. open'["client"] \in BOOLEAN
  BY <1>2, <1>4 DEF IInv, Shape
<1>6. CASE size' = size
  BY <1>2, <1>3, <1>5, <1>6, SilentStep DEF Said
<1>7. CASE size' # size
  <2>1. pend'["client"] = "on_write" /\ size'["client"] # 0
    BY <1>1, <1>2, <1>7, WriteProperties
  <2>2. open'["client"] = TRUE
    BY <1>2, <1>4, <2>1 DEF IInv, Shape
  <2>3. Said' = <<"typed">> /\ Said \in {<<>>, <<"typed">>}
    BY <2>1 DEF Said
  <2>4. Echo!IsPrefix(Said, Said')
    BY <2>3, ShortPrefixes
  <2>5. Echo!Say
    BY <1>2, <1>3, <2>2, <2>4 DEF Echo!Say, Said, Heard
  <2>6. QED
    BY <2>5 DEF EchoNext, Echo!Next
<1>8. QED
  BY <1>6, <1>7

(* Only the client's own steps touch what it says and hears.               *)
LEMMA ServersRead ==
  ASSUME IInv, on_read_data("server")
  PROVE  /\ size'["client"] = size["client"] /\ msg'["client"] = msg["client"]
         /\ open'["client"] = open["client"] /\ build' = build
<1>1. "server" \in Process /\ "client" \in Process /\ pend["server"] = "on_read_data" /\ Shape /\ build' = build
  BY DEF on_read_data, Process, IInv
<1>2. CASE Closes("server") /\ UNCHANGED <<size, msg>>
  BY <1>1, <1>2, ClosesProperties
<1>3. ASSUME NEW m, on_read("server", m)
      PROVE  size'["client"] = size["client"] /\ msg'["client"] = msg["client"]
             /\ open'["client"] = open["client"]
  <2>1. async_write("server") /\ msg' = [msg EXCEPT !["server"] = m]
    BY <1>3 DEF on_read
  <2>2. size'["client"] = size["client"]
    BY <1>1, <2>1, WriteProperties
  <2>3. open'["client"] = open["client"]
    BY <1>1, <2>1 DEF async_write, Waits, Closes, Shape
  <2>4. msg'["client"] = msg["client"]
    BY <1>1, <2>1 DEF Shape
  <2>5. QED
    BY <2>2, <2>3, <2>4
<1>4. QED
  BY <1>1, <1>2, <1>3 DEF on_read_data, DataRead, Undecodable, Aborts

LEMMA ClientReads ==
  ASSUME IInv, on_read_data("client")
  PROVE  EchoNext
<1>1. /\ "client" \in Process /\ pend["client"] = "on_read_data" /\ Shape /\ build' = build
      /\ open["client"] = TRUE
  BY DEF on_read_data, Process, IInv, Shape
<1>2. size' = size
  BY <1>1 DEF on_read_data, DataRead, on_read, Undecodable
<1>3. IInv' /\ (Debug /\ msg' # msg => msg'["client"] = "typed" /\ size["client"] # 0)
  BY <1>1, StepOfReadData
<1>4. open'["client"] \in BOOLEAN
  BY <1>1, <1>3 DEF IInv, Shape
<1>5. CASE build = "release" \/ msg' = msg
  <2>1. Heard' = Heard /\ Said' = Said
    BY <1>1, <1>2, <1>5 DEF Heard, Said
  <2>2. QED
    BY <1>1, <1>4, <2>1, SilentStep
<1>6. CASE Debug /\ msg' # msg
  <2>1. msg["client"] = "none" /\ msg'["client"] = "typed" /\ size["client"] # 0
    BY <1>1, <1>3, <1>6 DEF IInv, Once
  <2>2. Heard = <<>> /\ Heard' = <<"typed">> /\ Said = <<"typed">> /\ Said' = Said
    BY <1>1, <1>2, <1>6, <2>1 DEF Heard, Said, Debug
  <2>3. Echo!IsPrefix(Heard, Heard') /\ Echo!IsPrefix(Heard', Said)
    BY <2>2, ShortPrefixes
  <2>4. Echo!Hear
    BY <1>1, <1>4, <2>2, <2>3 DEF Echo!Hear, Heard, Said
  <2>5. QED
    BY <2>4 DEF EchoNext, Echo!Next
<1>7. QED
  BY <1>1, <1>5, <1>6 DEF Shape, Debug

(* The round trip is an echo.                                              *)
THEOREM Implementation == Spec => ImplementsEcho
<1>1. Init => Echo!Init
  <2> SUFFICES ASSUME Init PROVE Echo!Init
    OBVIOUS
  <2>1. size["client"] = 0 /\ msg["client"] = "none" /\ open["client"] = TRUE
    BY DEF Init, Process
  <2>2. QED
    BY <2>1 DEF Echo!Init
<1>2. IInv /\ IInv' /\ [Next]_vars => [Echo!Next]_(Echo!echoVars)
  <2> SUFFICES ASSUME IInv, IInv', [Next]_vars PROVE EchoNext
    BY DEF EchoNext
  <2> DEFINE Silent == /\ size'["client"] = size["client"] /\ msg'["client"] = msg["client"]
                       /\ build' = build /\ (open'["client"] => open["client"])
  <2>1. "client" \in Process /\ open["client"] \in BOOLEAN /\ open'["client"] \in BOOLEAN
    BY DEF Process, IInv, Shape
  <2>2. ASSUME Silent PROVE EchoNext
    <3>1. Said' = Said /\ Heard' = Heard
      BY <2>2 DEF Said, Heard
    <3>2. QED
      BY <2>1, <2>2, <3>1, SilentStep
  <2>3. CASE type_in
    BY <2>3, TypeInSays
  <2>4. CASE Quit
    BY <2>2, <2>4 DEF Quit
  <2>5. ASSUME NEW p \in Process, on_write(p) \/ on_read_header(p) PROVE EchoNext
    <3>1. Silent
      BY <2>1, <2>5 DEF on_write, on_write_msg, on_read_header, HeaderRead, Aborts, Closes, Waits, IInv, Shape
    <3>2. QED
      BY <2>2, <3>1
  <2>6. CASE on_read_data("client")
    BY <2>6, ClientReads
  <2>7. CASE on_read_data("server")
    BY <2>2, <2>7, ServersRead
  <2>8. CASE UNCHANGED <<build, open, size, msg>>
    BY <2>2, <2>8
  <2>9. QED
    BY <2>3, <2>4, <2>5, <2>6, <2>7, <2>8 DEF Next, Session, Arrive, vars, Process
<1>3. QED
  BY <1>1, <1>2, Inductive, PTL DEF Spec, ImplementsEcho, Echo!Spec
=============================================================================
