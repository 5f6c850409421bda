----------------------------- MODULE Serialization -----------------------------
(***************************************************************************)
(* One echo between serialize_client and my_serialization_session, from    *)
(* the end of the handshake to the end of both sessions.                   *)
(*                                                                         *)
(* A message is an archive behind a header that holds its size: digits,    *)
(* padded with blanks on the left to a fixed length.  Both are read with   *)
(* async_read_some, which completes with what is there, into buffers that  *)
(* are zeroed first.  A session that starts no operation is destroyed, and *)
(* closes its socket.                                                      *)
(*                                                                         *)
(* RawStartsAfterGuid of MultiProtocol is why the server has read nothing  *)
(* of the first message when this begins.                                  *)
(***************************************************************************)
EXTENDS Naturals, SequencesExt

CONSTANTS
  HeaderLength,   \* header_length_
  Radix,          \* of the digits in the header (std::hex: 16)
  Sizes           \* how many bytes the archive of a message may have

ASSUME SerializationAssumption ==
  /\ HeaderLength \in Nat \ {0} /\ Radix \in Nat \ {0, 1}
  /\ Sizes \subseteq Nat \ {0}

Process == {"client", "server"}
Peer(p) == IF p = "client" THEN "server" ELSE "client"

VARIABLES
  build,      \* whether BOOST_ASSERT is compiled in: "debug", or not
  open,       \* open[p]: the socket of p is open
  pend,       \* handler of the outstanding operation of p
  size,       \* size of the archive that p has written, or 0
  arrived,    \* how many bytes written by p the other side could read by now
  rd,         \* how many bytes written by p the other side has read
  want,       \* inbound_data_size of p
  msg,        \* what on_read of p was given
  aborted     \* the assertion that ended the process of p

vars == <<build, open, pend, size, arrived, rd, want, msg, aborted>>

Handler == {"on_write_guid", "on_write", "on_read_header", "on_read_data", "none"}

(* "torn": an archive with zeroes in the place of bytes still to come.     *)
TypeOK ==
  /\ build \in {"debug", "release"}
  /\ open \in [Process -> BOOLEAN]
  /\ pend \in [Process -> Handler]
  /\ size \in [Process -> Nat] /\ arrived \in [Process -> Nat] /\ rd \in [Process -> Nat]
  /\ want \in [Process -> Nat]
  /\ msg \in [Process -> {"none", "typed", "torn"}]
  /\ aborted \in [Process -> {"no", "header", "data"}]
  /\ \A p \in Process :
       /\ rd[p] <= arrived[p]
       /\ arrived[p] <= IF size[p] = 0 THEN 0 ELSE HeaderLength + size[p]
       /\ open[p] <=> pend[p] # "none"

(* The client's write of the GUID has completed; on_handshake_success of   *)
(* the server has started to read.                                         *)
Init ==
  /\ build \in {"debug", "release"}
  /\ open = [p \in Process |-> TRUE]
  /\ pend = [p \in Process |-> IF p = "client" THEN "on_write_guid" ELSE "on_read_header"]
  /\ size = [p \in Process |-> 0]
  /\ arrived = [p \in Process |-> 0]
  /\ rd = [p \in Process |-> 0]
  /\ want = [p \in Process |-> 0]
  /\ msg = [p \in Process |-> "none"]
  /\ aborted = [p \in Process |-> "no"]

-----------------------------------------------------------------------------
(* The header.                                                             *)

Power[k \in Nat] == IF k = 0 THEN 1 ELSE Radix * Power[k - 1]

Fits(n) == n < Power[HeaderLength]

(* How many digits the size n has.                                         *)
Digits(n) == CHOOSE d \in 1 .. n : Power[d - 1] <= n /\ n < Power[d]

(* What the stream extraction gets from the first k bytes of the header    *)
(* for n: the digits among them; with blanks alone it fails.               *)
HasDigit(n, k) == k > HeaderLength - Digits(n)
HeaderValue(n, k) == n \div Power[HeaderLength - k]

(* The network.                                                            *)

Written(p) == IF size[p] = 0 THEN 0 ELSE HeaderLength + size[p]

Arrive(p) ==
  /\ arrived[p] < Written(p)
  /\ \E n \in arrived[p] + 1 .. Written(p) : arrived' = [arrived EXCEPT ![p] = n]
  /\ UNCHANGED <<build, open, pend, size, rd, want, msg, aborted>>

(* A read fails at the end of the stream, or when the other side closed    *)
(* with bytes unread; a write, when the other side has closed.             *)
ReadFails(p) ==
  ~open[Peer(p)] /\ (rd[Peer(p)] = Written(Peer(p)) \/ rd[p] < Written(p))

WriteFails(p) == ~open[Peer(p)]

-----------------------------------------------------------------------------
(* The sessions.                                                           *)

Closes(p) ==
  /\ open' = [open EXCEPT ![p] = FALSE]
  /\ pend' = [pend EXCEPT ![p] = "none"]

Waits(p, h) ==
  /\ pend' = [pend EXCEPT ![p] = h]
  /\ UNCHANGED open

Aborts(p, what) ==
  /\ Closes(p)
  /\ aborted' = [aborted EXCEPT ![p] = what]

async_write(p) ==
  \E n \in Sizes :
    \/ Fits(n) /\ size' = [size EXCEPT ![p] = n] /\ Waits(p, "on_write")
    \/ ~Fits(n) /\ UNCHANGED size /\ Closes(p)

(* The user types a line.                                                  *)
type_in ==
  /\ pend["client"] = "on_write_guid"
  /\ \/ async_write("client")
     \/ WriteFails("client") /\ Closes("client") /\ UNCHANGED size
  /\ UNCHANGED <<build, arrived, rd, want, msg, aborted>>

(* The client waits for the reply; the server's session has nothing more   *)
(* to do, and ends.                                                        *)
on_write_msg(p) == IF p = "client" THEN Waits(p, "on_read_header") ELSE Closes(p)

on_write(p) ==
  /\ pend[p] = "on_write"
  /\ \/ on_write_msg(p)
     \/ WriteFails(p) /\ Closes(p)
  /\ UNCHANGED <<build, size, arrived, rd, want, msg, aborted>>

(* k bytes of what has arrived, and no more than the buffer holds.         *)
ReadSome(p, limit) == 1 .. Min({limit, arrived[Peer(p)] - rd[Peer(p)]})

Reads(p, k) == rd' = [rd EXCEPT ![Peer(p)] = @ + k]

(* Mutant: more is read than the header.                                   *)
on_read_header_Greedy(p) ==
  /\ pend[p] = "on_read_header"
  /\ \E k \in ReadSome(p, HeaderLength + 1) :
       /\ Reads(p, k + 1)
       /\ want' = [want EXCEPT ![p] = size[Peer(p)]]
       /\ Waits(p, "on_read_data") /\ UNCHANGED aborted
  /\ UNCHANGED <<build, size, arrived, msg>>

HeaderRead(p, k) ==
  LET n == size[Peer(p)] IN
  \/ build = "debug" /\ k # HeaderLength /\ Aborts(p, "header") /\ UNCHANGED want
  \/ /\ build = "release" \/ k = HeaderLength
     /\ UNCHANGED aborted
     /\ \/ ~HasDigit(n, k) /\ Closes(p) /\ UNCHANGED want
        \/ /\ HasDigit(n, k) /\ want' = [want EXCEPT ![p] = HeaderValue(n, k)]
           /\ Waits(p, "on_read_data")

on_read_header(p) ==
  /\ pend[p] = "on_read_header"
  /\ \/ ReadFails(p) /\ Closes(p) /\ UNCHANGED <<rd, want, aborted>>
     \/ \E k \in ReadSome(p, HeaderLength) : Reads(p, k) /\ HeaderRead(p, k)
  /\ UNCHANGED <<build, size, arrived, msg>>

(* Mutant: the server's session waits for the next message instead.        *)
on_read_NoReply(p, m) ==
  /\ msg' = [msg EXCEPT ![p] = m]
  /\ UNCHANGED size
  /\ IF p = "server" THEN Waits(p, "on_read_header") ELSE Closes(p)

(* on_read of the server sends its message back, of the client shows it.   *)
on_read(p, m) ==
  /\ msg' = [msg EXCEPT ![p] = m]
  /\ IF p = "server" THEN async_write(p) ELSE Closes(p) /\ UNCHANGED size

(* Unable to decode: on_error_ex_ec does nothing, and the session ends.    *)
Undecodable(p) == Closes(p) /\ UNCHANGED <<size, msg>>

(* A whole archive is the message; the beginning of one, padded with       *)
(* zeroes, decodes to another message or not at all; one that starts with  *)
(* digits of its own size has no valid signature.                          *)
DataRead(p, k) ==
  LET n == size[Peer(p)] IN
  \/ want[p] = n /\ k = n /\ on_read(p, IF p = "server" THEN "typed" ELSE msg["server"])
  \/ want[p] = n /\ k # n /\ (on_read(p, "torn") \/ Undecodable(p))
  \/ want[p] # n /\ Undecodable(p)

(* Mutant: the assertion on the size of the data is not there.             *)
on_read_data_NoAssert(p) ==
  /\ pend[p] = "on_read_data"
  /\ \E k \in ReadSome(p, want[p]) : Reads(p, k) /\ DataRead(p, k)
  /\ UNCHANGED <<build, arrived, want, aborted>>

on_read_data(p) ==
  /\ pend[p] = "on_read_data"
  /\ \/ ReadFails(p) /\ Undecodable(p) /\ UNCHANGED <<rd, aborted>>
     \/ \E k \in ReadSome(p, want[p]) :
          /\ Reads(p, k)
          /\ \/ build = "debug" /\ k # want[p] /\ Aborts(p, "data") /\ UNCHANGED <<size, msg>>
             \/ (build = "release" \/ k = want[p]) /\ DataRead(p, k) /\ UNCHANGED aborted
  /\ UNCHANGED <<build, arrived, want>>

(* The user ends the client.                                               *)
Quit ==
  /\ open["client"]
  /\ Closes("client")
  /\ UNCHANGED <<build, size, arrived, rd, want, msg, aborted>>

Session(p) == on_write(p) \/ on_read_header(p) \/ on_read_data(p)

Next == type_in \/ Quit \/ \E p \in Process : Arrive(p) \/ Session(p)

Spec == Init /\ [][Next]_vars

(* Bytes that are written arrive, and completed operations are handled;    *)
(* the user may never type a line, and never ends the client.              *)
FairSpec ==
  Spec /\ \A p \in Process : WF_vars(Arrive(p)) /\ WF_vars(Session(p))

-----------------------------------------------------------------------------
(* Properties.                                                             *)

(* With the assertions compiled in, the line that comes back is the line   *)
(* that was typed, however the streams are cut: a message that is given to *)
(* on_read is whole, and nothing is left unread behind it.                 *)
EchoIsTyped ==
  \A p \in Process :
    build = "debug" /\ msg[p] # "none" => msg[p] = "typed" /\ rd[Peer(p)] = Written(Peer(p))

(* Once a line is typed, both sessions come to their end and close their   *)
(* sockets, whatever was torn or lost.                                     *)
RoundTripEnds == pend["client"] # "on_write_guid" ~> \A p \in Process : ~open[p]

(* With the assertions, the round trip is an echo as its client sees it    *)
(* (EchoChannel.tla); without them, nothing is claimed of what it hears.   *)
Echo == INSTANCE EchoChannel WITH
          said <- IF size["client"] = 0 THEN <<>> ELSE <<"typed">>,
          heard <- IF build = "release" \/ msg["client"] = "none" THEN <<>>
                   ELSE <<msg["client"]>>,
          ended <- ~open["client"]
ImplementsEcho == Echo!Spec

-----------------------------------------------------------------------------
(* What the source says of itself and does not do.                         *)

(* "Issue a read operation to read exactly the number of bytes in a        *)
(* header." (serialization_session.hxx:137)                                *)
HeaderReadExactly == \A p \in Process : aborted[p] # "header"
=============================================================================
