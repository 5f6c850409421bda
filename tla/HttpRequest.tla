------------------------------ MODULE HttpRequest ------------------------------
(***************************************************************************)
(* One request to the demo server, byte by byte: the first read by the     *)
(* class on top, ws_handshake, then http_session, its request_parser and   *)
(* its request_handler.                                                    *)
(*                                                                         *)
(* A byte is a character, as far as the parser tells bytes apart.  "K" is  *)
(* the whole word Sec-WebSocket-Key: it is found as one, and it is made of *)
(* characters a header name may have.  So are the words of a file's name.  *)
(***************************************************************************)
EXTENDS Integers, SequencesExt

CONSTANTS
  Inputs,      \* what clients send
  Files        \* the paths of the files below doc_root

Digit == {"0", "1", "2"}
HexDigit == Digit \cup {"a", "e"}
ctl == {"CR", "LF", "HT", "DEL"}
tspecial == {":", "/", "{", "SP", "HT"}
EightBit == {"eight"}
Word == {"index", "html", "gif"}
Token == HexDigit \cup Word \cup {"g", "H", "T", "P", "K", "%", "+", "-", "."}
Char == Token \cup ctl \cup tspecial \cup EightBit

ASSUME InputsAssumption == Inputs \subseteq Seq(Char)

VARIABLES
  input,     \* what the client of this connection sends
  gone,      \* it has closed the connection
  rd,        \* how many bytes have been read
  session,   \* what the connection waits for
  parser,    \* request_parser_ and request_ of http_session
  opened,    \* the path of the file that handle_request opened
  reply,     \* the status of the reply
  type       \* its Content-Type

vars == <<input, gone, rd, session, parser, opened, reply, type>>

None == <<>>

-----------------------------------------------------------------------------
(* request_parser.  The record holds state_, the request as far as the     *)
(* handlers ask for it, and the tribool of the last byte.                  *)

NewParser == [state |-> "method_start", uri |-> <<>>, names |-> <<>>, result |-> "indeterminate"]

To(p, state) == [p EXCEPT !.state = state]
Refuse(p) == [p EXCEPT !.result = "false"]
Expect(p, ch, c, state) == IF c = ch THEN To(p, state) ELSE Refuse(p)

(* The request line.                                                       *)
method(p, c) ==
  IF p.state = "method" /\ c = "SP" THEN To(p, "uri")
  ELSE IF c \in Token THEN To(p, "method")
  ELSE Refuse(p)

uri(p, c) ==
  IF c = "SP" THEN To(p, "http_version_h")
  ELSE IF c \in ctl THEN Refuse(p)
  ELSE [p EXCEPT !.uri = Append(@, c)]

http_version(p, c) ==
  CASE p.state = "http_version_h" -> Expect(p, "H", c, "http_version_t_1")
    [] p.state = "http_version_t_1" -> Expect(p, "T", c, "http_version_t_2")
    [] p.state = "http_version_t_2" -> Expect(p, "T", c, "http_version_p")
    [] p.state = "http_version_p" -> Expect(p, "P", c, "http_version_slash")
    [] p.state = "http_version_slash" -> Expect(p, "/", c, "http_version_major_start")
    [] p.state \in {"http_version_major_start", "http_version_major"} /\ c \in Digit ->
         To(p, "http_version_major")
    [] p.state \in {"http_version_minor_start", "http_version_minor"} /\ c \in Digit ->
         To(p, "http_version_minor")
    [] p.state = "http_version_major" /\ c = "." -> To(p, "http_version_minor_start")
    [] p.state = "http_version_minor" /\ c = "CR" -> To(p, "expecting_newline_1")
    [] OTHER -> Refuse(p)

(* The headers.                                                            *)
(* Mutant: the empty line ends like any other.                             *)
header_line_start_Newline2(p, c) ==
  IF c = "CR" THEN To(p, "expecting_newline_2")
  ELSE IF p.names # <<>> /\ c \in {"SP", "HT"} THEN To(p, "header_lws")
  ELSE IF c \in Token THEN [To(p, "header_name") EXCEPT !.names = Append(@, <<c>>)]
  ELSE Refuse(p)

header_line_start(p, c) ==
  IF c = "CR" THEN To(p, "expecting_newline_3")
  ELSE IF p.names # <<>> /\ c \in {"SP", "HT"} THEN To(p, "header_lws")
  ELSE IF c \in Token THEN [To(p, "header_name") EXCEPT !.names = Append(@, <<c>>)]
  ELSE Refuse(p)

(* Mutant: a line of blanks ends the request.                              *)
header_lws_Newline3(p, c) ==
  IF c = "CR" THEN To(p, "expecting_newline_3")
  ELSE IF c \in {"SP", "HT"} THEN p
  ELSE IF c \in ctl THEN Refuse(p)
  ELSE To(p, "header_value")

header_lws(p, c) ==
  IF c = "CR" THEN To(p, "expecting_newline_2")
  ELSE IF c \in {"SP", "HT"} THEN p
  ELSE IF c \in ctl THEN Refuse(p)
  ELSE To(p, "header_value")

header_name(p, c) ==
  IF c = ":" THEN To(p, "space_before_header_value")
  ELSE IF c \in Token THEN [p EXCEPT !.names[Len(p.names)] = Append(@, c)]
  ELSE Refuse(p)

header_value(p, c) ==
  IF c = "CR" THEN To(p, "expecting_newline_2")
  ELSE IF c \in ctl THEN Refuse(p)
  ELSE p

consume(p, c) ==
  CASE p.state \in {"method_start", "method"} -> method(p, c)
    [] p.state = "uri" -> uri(p, c)
    [] p.state = "expecting_newline_1" -> Expect(p, "LF", c, "header_line_start")
    [] p.state = "header_line_start" -> header_line_start(p, c)
    [] p.state = "header_lws" -> header_lws(p, c)
    [] p.state = "header_name" -> header_name(p, c)
    [] p.state = "space_before_header_value" -> Expect(p, "SP", c, "header_value")
    [] p.state = "header_value" -> header_value(p, c)
    [] p.state = "expecting_newline_2" -> Expect(p, "LF", c, "header_line_start")
    [] p.state = "expecting_newline_3" ->
         [p EXCEPT !.result = IF c = "LF" THEN "true" ELSE "false"]
    [] OTHER -> http_version(p, c)

parse(q, bytes) ==
  LET after[i \in 0 .. Len(bytes)] ==
        IF i = 0 THEN q
        ELSE LET p == after[i - 1] IN
             IF p.result = "indeterminate" THEN consume(p, bytes[i]) ELSE p
  IN  after[Len(bytes)]

(* The same text once more, in rfc6455_engine.                             *)
rfc6455_parse(bytes) == parse(NewParser, bytes)

-----------------------------------------------------------------------------
(* request_handler.                                                        *)

Hex(c) == CASE c = "0" -> 0 [] c = "1" -> 1 [] c = "2" -> 2 [] c = "a" -> 10 [] c = "e" -> 14
CharOf(n) == IF n = 46 THEN "." ELSE IF n = 42 THEN "*" ELSE "other"

(* What the extraction of a hexadecimal int gets from two characters: it   *)
(* takes a sign, and stops at the first character that is no digit.        *)
Extracts(x, y) == x \in HexDigit \/ (x \in {"+", "-"} /\ y \in HexDigit)
Extracted(x, y) ==
  IF x = "-" THEN -Hex(y)
  ELSE IF x = "+" THEN Hex(y)
  ELSE IF y \in HexDigit THEN 16 * Hex(x) + Hex(y)
  ELSE Hex(x)

(* Mutant: an escape at the end is taken for one that is cut.              *)
url_decode_OffByOne(in) ==
  LET from[i \in 1 .. Len(in) + 3] ==
        IF i > Len(in) THEN [ok |-> TRUE, out |-> <<>>]
        ELSE IF in[i] # "%"
          THEN LET r == from[i + 1] IN
               [r EXCEPT !.out = <<IF in[i] = "+" THEN "SP" ELSE in[i]>> \o @]
        ELSE IF i + 2 < Len(in) /\ Extracts(in[i + 1], in[i + 2])
          THEN LET r == from[i + 3] IN
               [r EXCEPT !.out = <<CharOf(Extracted(in[i + 1], in[i + 2]))>> \o @]
        ELSE [ok |-> FALSE, out |-> <<>>]
  IN  from[1]

url_decode(in) ==
  LET from[i \in 1 .. Len(in) + 3] ==
        IF i > Len(in) THEN [ok |-> TRUE, out |-> <<>>]
        ELSE IF in[i] # "%"
          THEN LET r == from[i + 1] IN
               [r EXCEPT !.out = <<IF in[i] = "+" THEN "SP" ELSE in[i]>> \o @]
        ELSE IF i + 2 <= Len(in) /\ Extracts(in[i + 1], in[i + 2])
          THEN LET r == from[i + 3] IN
               [r EXCEPT !.out = <<CharOf(Extracted(in[i + 1], in[i + 2]))>> \o @]
        ELSE [ok |-> FALSE, out |-> <<>>]
  IN  from[1]

HasDots(path) == \E i \in 1 .. Len(path) - 1 : path[i] = "." /\ path[i + 1] = "."

(* A directory's path is extended.                                         *)
FilePath(path) ==
  IF path # <<>> /\ Last(path) = "/" THEN path \o <<"index", ".", "html">> ELSE path

(* What is behind the last dot, if no slash is behind it.                  *)
extension(path) ==
  LET last(c) == SelectLastInSeq(path, LAMBDA x : x = c)
  IN  IF last(".") > last("/") THEN SubSeq(path, last(".") + 1, Len(path)) ELSE <<>>

mappings == [gif |-> "image/gif", html |-> "text/html"]
extension_to_type(ext) ==
  IF Len(ext) = 1 /\ ext[1] \in DOMAIN mappings THEN mappings[ext[1]] ELSE "text/plain"

stock_reply(status, file) == [status |-> status, file |-> file, type |-> "text/html"]

(* Mutant: the dots are looked for before the uri is decoded.              *)
handle_request_Early(in) ==
  LET d == url_decode(in)
      path == FilePath(d.out)
  IN  IF ~d.ok \/ d.out = <<>> \/ Head(d.out) # "/" \/ HasDots(in)
      THEN stock_reply("bad_request", None)
      ELSE IF path \notin Files THEN stock_reply("not_found", path)
      ELSE [status |-> "ok", file |-> path, type |-> extension_to_type(extension(path))]

(* The reply: its status, the file that was opened for it, and its type.   *)
handle_request(in) ==
  LET d == url_decode(in)
      path == FilePath(d.out)
  IN  IF ~d.ok \/ d.out = <<>> \/ Head(d.out) # "/" \/ HasDots(d.out)
      THEN stock_reply("bad_request", None)
      ELSE IF path \notin Files THEN stock_reply("not_found", path)
      ELSE [status |-> "ok", file |-> path, type |-> extension_to_type(extension(path))]

-----------------------------------------------------------------------------
(* The connection.                                                         *)

Waiting == {"on_first_read", "handle_read", "handle_write"}
Ended == {"upgraded", "declined", "closed"}

Init ==
  /\ input \in Inputs /\ gone = FALSE
  /\ rd = 0
  /\ session = "on_first_read"
  /\ parser = NewParser
  /\ opened = None /\ reply = "none" /\ type = "none"

Leave ==
  /\ ~gone /\ gone' = TRUE
  /\ UNCHANGED <<input, rd, session, parser, opened, reply, type>>

(* Mutant: the reply is written before it is made.                         *)
Write_Unset(r) ==
  /\ opened' = r.file /\ type' = r.type
  /\ session' = "handle_write"
  /\ UNCHANGED reply

(* async_write of a reply.                                                 *)
Write(r) ==
  /\ reply' = r.status /\ opened' = r.file /\ type' = r.type
  /\ session' = "handle_write"

HandleRequest(p) == Write(handle_request(p.uri))

Ends(how) ==
  /\ session' = how
  /\ UNCHANGED <<opened, reply, type>>

(* request.find("Sec-WebSocket-Key:") over one read.                       *)
HasKey(bytes) == \E i \in 1 .. Len(bytes) - 1 : bytes[i] = "K" /\ bytes[i + 1] = ":"

(* ws_handshake::first_write: a key in a header, or the data goes to the   *)
(* classes below with a tag that http_session does not take.               *)
first_write(bytes) ==
  /\ parser' = rfc6455_parse(bytes)
  /\ Ends(IF parser'.result = "true" /\ <<"K">> \in ToSet(parser'.names)
          THEN "upgraded" ELSE "declined")

http_first_read(bytes) ==
  /\ parser' = parse(NewParser, bytes)
  /\ CASE parser'.result = "true" -> HandleRequest(parser')
       [] parser'.result = "false" -> Ends("declined")
       [] OTHER -> Ends("handle_read")

on_first_read ==
  /\ session = "on_first_read"
  /\ \E n \in 1 .. Len(input) :
       LET bytes == SubSeq(input, 1, n) IN
       /\ rd' = n
       /\ IF HasKey(bytes) THEN first_write(bytes) ELSE http_first_read(bytes)
  /\ UNCHANGED <<input, gone>>

handle_read ==
  /\ session = "handle_read"
  /\ \E n \in rd + 1 .. Len(input) :
       /\ rd' = n
       /\ parser' = parse(parser, SubSeq(input, rd + 1, n))
       /\ CASE parser'.result = "true" -> HandleRequest(parser')
            [] parser'.result = "false" -> Write(stock_reply("bad_request", None))
            [] OTHER -> Ends("handle_read")
  /\ UNCHANGED <<input, gone>>

(* The reply has been written, or could not be: either way the socket is   *)
(* closed.                                                                 *)
handle_write ==
  /\ session = "handle_write"
  /\ Ends("closed")
  /\ UNCHANGED <<input, gone, rd, parser>>

ReadFails ==
  /\ session \in {"on_first_read", "handle_read"} /\ gone
  /\ Ends("closed")
  /\ UNCHANGED <<input, gone, rd, parser>>

Session == on_first_read \/ handle_read \/ handle_write \/ ReadFails

Next == Leave \/ Session

Spec == Init /\ [][Next]_vars

(* io_service::run handles what has completed.                             *)
FairSpec == Spec /\ WF_vars(Session)

-----------------------------------------------------------------------------
(* What a request is, from the lines it is made of.                        *)

Slice(s, a, b) == SubSeq(s, a, b)
All(s, S) == \A i \in DOMAIN s : s[i] \in S
Nonempty(s, S) == s # <<>> /\ All(s, S)
Field == Char \ ctl

IsVersion(l) ==
  /\ Len(l) > 5 /\ Slice(l, 1, 5) = <<"H", "T", "T", "P", "/">>
  /\ \E d \in DOMAIN l :
       l[d] = "." /\ Nonempty(Slice(l, 6, d - 1), Digit) /\ Nonempty(Slice(l, d + 1, Len(l)), Digit)

IsRequestLine(l) ==
  \E i, j \in DOMAIN l :
    /\ i < j /\ l[i] = "SP" /\ l[j] = "SP"
    /\ Nonempty(Slice(l, 1, i - 1), Token)
    /\ All(Slice(l, i + 1, j - 1), Field \ {"SP"})
    /\ IsVersion(Slice(l, j + 1, Len(l)))

IsHeader(l) ==
  \E i \in 1 .. Len(l) - 1 :
    /\ l[i] = ":" /\ l[i + 1] = "SP"
    /\ Nonempty(Slice(l, 1, i - 1), Token) /\ All(Slice(l, i + 2, Len(l)), Field)

(* A header that goes on in the next line.                                 *)
IsFolded(l) ==
  \E i \in DOMAIN l : Nonempty(Slice(l, 1, i), {"SP", "HT"}) /\ All(Slice(l, i + 1, Len(l)), Field)

(* The line that the newline at e ends, without its "\r\n".                *)
LineTo(s, e) == Slice(s, Max({0} \cup {i \in 1 .. e - 1 : s[i] = "LF"}) + 1, e - 2)

IsRequest(s) ==
  LET ends == {i \in DOMAIN s : s[i] = "LF"}
      first == Min(ends)
  IN  /\ Len(s) \in ends /\ first < Len(s)
      /\ \A e \in ends : e > 1 /\ s[e - 1] = "CR"
      /\ IsRequestLine(LineTo(s, first)) /\ LineTo(s, Len(s)) = <<>>
      /\ \A e \in ends \ {first, Len(s)} :
           \/ IsHeader(LineTo(s, e))
           \/ IsFolded(LineTo(s, e)) /\ \E d \in ends \ {first} : d < e

HoldsRequest(s) == \E n \in DOMAIN s : s[n] = "LF" /\ IsRequest(Slice(s, 1, n))

(* The uri of a request.                                                   *)
Uri(s) ==
  LET spaces == {i \in DOMAIN s : s[i] = "SP"}
      first == Min(spaces)
  IN  Slice(s, first + 1, Min(spaces \ {first}) - 1)

(* An encoding is valid when two hexadecimal digits follow each "%".       *)
ValidEncoding(u) ==
  \A i \in DOMAIN u :
    u[i] = "%" => i + 2 <= Len(u) /\ u[i + 1] \in HexDigit /\ u[i + 2] \in HexDigit

Decoded(u) ==
  LET kept == {i \in DOMAIN u : ~\E k \in DOMAIN u : u[k] = "%" /\ i \in {k + 1, k + 2}}
      Rank(i) == Cardinality({j \in kept : j <= i})
      Meant(i) == CASE u[i] = "%" -> CharOf(16 * Hex(u[i + 1]) + Hex(u[i + 2]))
                    [] u[i] = "+" -> "SP"
                    [] OTHER -> u[i]
  IN  [n \in 1 .. Cardinality(kept) |-> Meant(CHOOSE i \in kept : Rank(i) = n)]

-----------------------------------------------------------------------------
(* Every field has its type.                                               *)
TypeOK ==
  /\ input \in Inputs /\ gone \in BOOLEAN /\ rd \in 0 .. Len(input)
  /\ session \in Waiting \cup Ended
  /\ parser.result \in {"true", "false", "indeterminate"}
  /\ reply \in {"none", "ok", "not_found", "bad_request"}
  /\ session = "handle_write" => reply # "none"
  /\ session = "handle_read" => parser.result = "indeterminate"
  /\ opened \in Seq(Char \cup {"other", "*"})
  /\ type \in {"none", "text/plain", "text/html", "image/gif"}

(* The parser says "complete" when the bytes it has been given begin with  *)
(* a request, and never refuses what does, wherever reads cut it.          *)
VerdictIsGrammar ==
  rd > 0 =>
    /\ parser.result = "true" <=> HoldsRequest(Slice(input, 1, rd))
    /\ parser.result = "false" => ~HoldsRequest(input)

(* The reply to a request whose uri is well encoded is the one its decoded *)
(* path asks for; and the type of a file is that of the word its path ends *)
(* in behind a dot, wherever else dots and slashes are.                    *)
RepliesFit ==
  (reply # "none" /\ parser.result = "true" /\ ValidEncoding(Uri(input))) =>
    LET path == Decoded(Uri(input))
        file == IF path # <<>> /\ Last(path) = "/" THEN path \o <<"index", ".", "html">> ELSE path
        EndsIn(w) == Len(file) > 1 /\ SubSeq(file, Len(file) - 1, Len(file)) = <<".", w>>
    IN  /\ reply = IF path = <<>> \/ Head(path) # "/" \/ HasDots(path) THEN "bad_request"
                   ELSE IF file \in Files THEN "ok" ELSE "not_found"
        /\ type = IF reply # "ok" \/ EndsIn("html") THEN "text/html"
                  ELSE IF EndsIn("gif") THEN "image/gif"
                  ELSE "text/plain"

(* request_handler.hxx:44, "Request path must be absolute and not contain  *)
(* "..".": no path is opened that is not, however it was encoded.          *)
OpenedPathIsBelowRoot == opened # None => Head(opened) = "/" /\ ~HasDots(opened)

(* A request that names no key is answered, if its client stays.           *)
RequestIsAnswered ==
  (~HasKey(input) /\ HoldsRequest(input)) ~> (reply # "none" \/ gone)

(* request_handler.hpp:46, url_decode "Returns false if the encoding was   *)
(* invalid": no file is looked up for a uri that is not well encoded.      *)
InvalidEncodingIsRefused == reply \in {"ok", "not_found"} => ValidEncoding(Uri(input))
=============================================================================
