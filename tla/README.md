# Verification of splice

TLA+ models of [splice](../src), a header-only C++ library for servers that speak several protocols on
one port (raw TCP, serialized objects, HTTP, WebSocket), and of the demo server that uses all of it. TLC
checks the models on small instances; TLAPS proves every invariant that TLC checks, and the refinements, for
every instance.

## The system

`ez_server` owns an `io_service` and an acceptor. `mono_protocol` gives each accepted socket to a session
of one class; `multi_protocol` gives it to a session of the class with the highest *protocol index* and, each
time a class declines, moves socket and bytes to a new session of the class below. A session is a chain of
asynchronous operations: each handler starts the next one and keeps the session alive through the
`shared_ptr` bound to it. A handler that starts nothing lets the session be destroyed, and the destructor
closes the socket. There is no timer (`install_handshake_timeout` is commented out) and, because of
`if(thread_count=1)`, one thread: handlers never overlap, and each is one atomic action of the models.

### Components

| component | state | operations | talks to | what makes it correct | module |
|---|---|---|---|---|---|
| negotiation: `multi_protocol`, `tcp_session`, `ws_handshake`, `http_session`, demo sessions | who has the socket, the outstanding operation, bytes read, replies sent, `log_session_set_` | `on_accept`, `on_first_read`, `on_second_read`, `on_guid_read`, `handle_read`, `handle_write`, `on_handshake_fail`, `shutdown` | client (bytes), server (signal of the log session) | the right protocol at the right place of the stream; one reply; no leak; nobody waits for nobody | `MultiProtocol` implements `Negotiation` |
| server: `ez_server`, `protocol`, accept loops | acceptor, outstanding accept, sessions | constructor, `start_accept`, `on_accept`, `run`, `on_stop` | operating system | the loop is never lost, waiting clients are accepted, the demo never runs deaf | `Server` |
| log broadcast: `my_logger`, `my_server`, `my_log_session` | set of log sessions, posted sends, outstanding writes | `track`, `broadcast`, `send`, `on_write_quiet`, `on_shutdown` | every class that logs | the feedback from failed sends to new lines does not feed itself | `LogBroadcast` |
| serialization: `serialization_session`, `my_serialization_session`, `serialize_client` | bytes in flight, size announced, message read | `async_write`, `async_read`, `on_read_header`, `on_read_data`, `on_read` | its peer, over TCP | what is delivered is what was sent; both sides end | `Serialization` implements `EchoChannel` |
| WebSocket frames and session: `data_frame`, `data_frame_parser`, `ws_session` | parser state, frame under construction | `parse`, `on_read_dataframe`, `on_read_data_frame`, `async_write` | its peer | each frame that a read begins with is delivered once, whole, in order; answers are too | `WsSession` |
| HTTP: `request_parser`, `request_handler`, `http_session`, `reply` | parser state, request, reply | `consume`, `handle_request`, `url_decode`, `on_first_read`, `handle_read`, `handle_write` | client, files | the verdict does not depend on how the bytes were cut; status, file and type of the reply fit the path | `HttpRequest`; its verdict in `MultiProtocol` |
| raw echo: `async_read_string`, `async_write`, `my_tcp_session`, `raw_client`, mono echo server and client | outstanding operation, bytes | read and write loop | its peer | echo in order, both ends come to their end | `TcpEcho` implements `EchoChannel` |
| serialization engine | as serialization session | | | | not modelled: the same code again, and no user of it |
| JSON server, mono WebSocket echo server | stage of the handshake, then as the WebSocket session | `on_first_read`, `on_second_read` of one protocol, `on_read`, `on_message` | its peer | as the WebSocket session; names in an answer fit what the client asked for | `WsSession`, `Shortening` |
| loggers: `log_interface`, Boost.Log back ends | none | `log_*_t`, `reduce`, `extract_file_name` | console and files | both ends of the data are shown | `Shortening`; the rest is layout |
| HTML pages, page preprocessing | | | | | not modelled: I/O |

What is hard here is not parallelism but *cuts and order*: `async_read_some` completes with any part of what
the peer wrote; a decision is taken on it and never revised; operations that are not restarted end a session
silently; destructors call handlers; an error path may log, and logging is itself a client of the sessions.
`PROJECT.json` lists the hazards at their lines.

## The modules

### `Negotiation` - the promise

`stage`, `served`, `announced` per connection: a connection is negotiated, perhaps upgraded once, served by
one protocol and closed for ever. A protocol chosen by GUID serves a client that announced it; one that
speaks frames, an upgraded connection; HTTP, one that is not.

### `MultiProtocol` - the negotiation as coded

One connection per client. `owner[c]` is the index of the session that has the socket, `pend[c]` the handler
of its outstanding operation, `rd[c]` how far the server has read, `got[c]` the replies. A client's bytes are a
script of *tokens*: the pieces of a request, a frame or a raw GUID that a read may separate and that the code
tells apart. A read takes any non-empty part of what was written, so every fragmentation and every
coalescing at token boundaries occurs.

| action | code |
|---|---|
| `on_accept` | `multi_protocol::on_accept`, `on_socket_connected` |
| `on_first_read` (`FirstReadOk`) | `ws_handshake::on_first_read`, `first_write` |
| `on_second_read` | `ws_handshake::on_second_read`, `guid_read` |
| `on_guid_read` (`GuidReadOk`, `do_custom_handshake`) | `ws_handshake::on_guid_read`, `do_custom_handshake` |
| `on_handshake_fail`, `handshake`, `TakenBy` | `multi_protocol::on_handshake_fail`, `my_server::do_next_handshake`, the `handshake` and `try_handshake` of each class; the descent is part of the handler that starts it |
| `handle_read`, `handle_write` | `http_session` |
| `EndOfSession`, `on_write_quiet`, `OperationFails` | destructor; failed write of a log session; error branches |

`Class` gives the kind of session at each index; the demo's is `<<raw, raw, log, http, ws>>`
(`MCMultiProtocol`). Only `ws_handshake` has both a constructor from an `io_service` and an `on_first_read`
that `multi_protocol` can call, which is the assumption `ProtocolsAssumption` on the top class.

`ParseRequest` stands for the byte machine of `request_parser`: a request that starts at its beginning is
complete, incomplete, or refused at its first byte when it starts with the brace of a GUID. Not modelled: a
request longer than the 8192 bytes of a buffer other than as a cut, malformed requests that fail later than
their first piece (those are `HttpRequest`'s), and clients that start to speak before a `Connect`.

`NoMutualWait` is about clients that go on (`ClientsGoOn`): a request has an end and comes before any frame, and
who asks for WebSocket sends a frame sooner or later. Without a deadline the server waits for ever for a client
that does neither.

### `Server` - construction and the accept loop

`acceptor` is how far the constructor came, `accepting` whether an accept is outstanding. Accepts fail on an
acceptor that was opened but not bound, and while the process has no descriptor (`MaxOpen`). `build` and
`MultiProtocols` choose the assertion of `multi_protocol::on_accept`. `logger` is what an error of the
constructor is logged with: the library's default and the JSON server print, so that a server that could not
listen runs on, deaf; the demo's `my_logger` calls a signal which the derived constructor sets later, so its
server asserts or throws instead (`on_error`, `Constructs`). `run` starts one thread whatever it is asked for.

### `LogBroadcast` - logging that feeds on itself

`posted[s]` and `writing[s]` count the sends posted to and the writes outstanding for a log session. Each
branch of `on_write_quiet` counts the lines that `on_error`, `shutdown`, `on_shutdown` and the destructor log,
and broadcasts them to the set as it is at that moment. `server_destructor` is the end of `main`.

### `EchoChannel` - what an echo promises

`said`, `heard`, `ended`: a client hears a prefix of what it said, and nothing once the conversation has ended.
`TcpEcho` implements it always, `Serialization` in a debug build; in a release build a torn archive may come
back, and its mapping claims nothing.

### `Serialization` - one echo

From the state `RawStartsAfterGuid` guarantees, the client types a line, the server echoes it. The header is
blanks and digits: a part of it is no digits at all (the session ends) or a smaller size. An archive with zeroes
in place of bytes still to come decodes to something else or not at all, which is Boost.Serialization's choice.
In a debug `build` the assertions end the process.

### `WsSession` - frames and the session behind the upgrade

One session and its client, on one of three servers. The demo's session begins behind the negotiation of
`MultiProtocol`. The sessions of `json_server` and of `echo_ws_server` are alone on their servers and begin with
the first read of their own handshake: `stage` is how far it is, `asked` what request the client has sent. `rd` is how far it has read, `parser` what a `data_frame_parser` keeps from read to
read, `delivered` what `on_read` was given, `writes` the outstanding `async_write`s and `out` what the client gets.
Bytes are numbers, so that the parser takes a byte of a payload, a mask or a length for a head when it is in the
wrong place; a payload is known by its place in the stream, its size and the key it is decoded with, and is
`Garbage` when that is no payload of a frame sent. Lengths stop at `TooLong`, which no frame of a client reaches
(`Longest`), so that the eight bytes of a length fit TLC's integers. `consume` is the switch of the parser with one operator per
group of states; the eight states of an extended length are one with a count. `data_frame` is the frame that
each call of `on_read_dataframe` makes anew, with its key not initialised: `lucky` is the choice of what it holds.

| action | code |
|---|---|
| `Ask`, `on_first_read`, `on_second_read` | the request; `ws_handshake` without a class below: part of a request is refused, what comes behind a whole one is dropped with the buffer |
| `on_read_dataframe`, `on_read_data_frame`, `on_read` | `ws_session` and the `on_read` of the three sessions (`Answers`: the echo server answers whatever it gets, the others the messages they know); the part of the buffer behind a complete frame is dropped |
| `WriteSome` | a composed write of header and payload: one buffer or both at a time, the rest behind other writes |
| `ReadFails`, `WriteFails`, `on_error` | error branches, `shutdown` |
| `Send`, `Leave` | the client |

The echo server answers control frames and frames without text too, so `PatientClientReadsAnswers` speaks of it
only while it was given messages (`OnlyMessages`).

### `HttpRequest` - one request

`input` is what the client sends; `on_first_read` is the class on top (`ws_handshake`) and, when it finds no key,
`http_session`; `handle_read` is each further read. A byte is a character as far as the parser tells bytes apart,
and "K" is the word `Sec-WebSocket-Key`. `parse` is compared with `IsRequest`, a grammar of request lines,
headers, folded headers and the empty line, written without states; `url_decode` with `Decoded`, whose
n-th character is what the n-th character stands for that is no second or third one of an escape. `opened` is the path that `handle_request` gives to `ifstream`,
`type` the `Content-Type` of the reply, from the extension of that path or that of a stock reply.

### `TcpEcho` - strings

One raw session behind its handshake and its client: `my_tcp_session` with `mpt_raw_client`, the session of
`echo_server` with its client, and each with a user who does as he likes. A byte is its place in the stream.
`on_async_read_string` reads any part and starts the write; `WriteSome` hands over any part that fits `Window`;
`on_write` loops, or ends the session. An end that closes with unread bytes resets the connection (`ClientResets`,
`SessionResets`).

### `Shortening` - texts cut in their middle

`shown_name` is the arithmetic of `my_session::on_message` in the JSON server, half by half as the code has it;
`reduce` that of `log_interface`. The code does not look at the characters, so a text is the sequence of its
places. Below a `max_length` of four the code makes a string of a range that ends before it begins: undefined,
and outside of the model. The module has no state. `ListedNamesFit` of `WsSession` is
about the answers that list such names; `DataShown` and `NameFits` are proved, for texts of any length.

## The runs

| run | shows | bounds |
|---|---|---|
| `negotiation` | all safety properties of `MultiProtocol`, that it implements `Negotiation`, `ClientIsHeard` and `HangupIsNoticed` | 2 connections, the five demo classes, 6 kinds of client: browser page, one that does not wait, one that leaves early with a control frame, raw console client, loader of a page, each with a GUID of the server or none |
| `server` | `AcceptLoopLives`, `DemoNeverDeaf`, `WaitingIsAccepted` | 3 clients, backlog 2, one descriptor, debug and release builds, both kinds of logger |
| `server_assert` | an assertion that fails when an accept does | the same |
| `log` | `NoStorm`, `NoSendAfterShutdown`, `Quiesces` | 2 log sessions, 2 lines |
| `log_signal` | an assertion that fails at teardown | 2 log sessions |
| `serialization` | `EchoIsTyped` in debug builds, that it implements `EchoChannel`, `RoundTripEnds` in both builds | header of 3 binary digits, archives of 1, 3, 6 bytes and one that does not fit |
| `serialization_header` | a comment the code does not keep | the same |
| `websocket` | `TidyDelivery`, `FrontFrameDelivered`, `PatientClientReadsAnswers`, `PatientClientIsAnswered`, `ListedNamesFit` | 7 kinds of client of 2 or 3 frames each, patient or not, most of them of the demo, some of the other servers; answers of 1 to 65537 bytes; names of up to 40 characters |
| `websocket_more_data` | a frame that two reads share is lost, which a comment denies | the same |
| `http` | `VerdictIsGrammar`, `RepliesFit`, `OpenedPathIsBelowRoot`, `RequestIsAnswered` | a request with every edit of one character, folded headers, upgrade, two requests in a row; all paths of up to 3 characters of 7 behind the slash, escapes with a neighbour, and files with extensions |
| `http_encoding` | an escape that is none is decoded, which a comment denies | the same |
| `tcp_echo` | `EchoInOrder`, that it implements `EchoChannel`, `OnlyCutLinesFail`, `RawClientEnds`, `SessionEnds`, `EchoKeepsUp` | 6 bytes, reads of at most 4, a window of 3 |

Why the bounds are enough. Connections share nothing but the log set, so two show every interference there
is. Each script has at least one token on each side of every boundary the code looks at. One descriptor and a
backlog of two make the accept loop run out and recover, with clients still waiting. Two log sessions are the
least for which one's failure reaches another. A header with three digits, of sizes with one, two and three,
has every kind of cut: blanks only, some digits, all. The
frames of `websocket` use every branch of the parser but the eight bytes of a 64-bit length, which a client would
need 65536 bytes for; those are covered by the answers, whose headers `HeadersAgree` gives to the parser. The
handshake of the other servers shares nothing with the frames but the bytes it drops, so that clients with short
frames are enough for them. The fill bytes and the key are chosen so that a parser in the wrong place sees text,
control and refused frames. Names of up to forty characters, odd and even, lie on both sides of each `max_length` that is asked
for, 5, 8 and 31. A request with one edit has every character class in every state
of the parser. Six bytes are more than a read takes and more than the window holds. `CHECK_DEADLOCK FALSE` is set
everywhere because connections, sessions and servers really end.

Fairness. `io_service::run` takes completed operations from a queue, so a handler whose operation has
completed is run: weak fairness of each connection's server actions, of the accept handler, of posted sends
outstanding reads and writes. In `Serialization`, TCP delivers what was written. Clients get none: they may stop
writing at any time and never hang up; a user may never type. The exception is `mpt_raw_client`, a program of this
repository that blocks in one `read`: it goes on when that read returns.

### What the source says and does not do

The *violation* runs each check one statement of a comment or an assertion; `PROJECT.json` quotes the lines. A
failed accept aborts a debug build; a log session that is alive at teardown calls an `on_shutdown` whose signal
is already destroyed; headers of archives are read in one `async_read_some`, which may end early; a frame that
two reads share is lost, as the parser is kept and the frame is not; an escape of one hexadecimal digit is
decoded.

Seen while modelling, and part of the models without a run: a request cut before `Sec-WebSocket-Key` is served
as HTTP; half a GUID frame closes the connection, as the read that should go on is commented out; no
deadline is set; `if(thread_count=1)` assigns, so that `run` never starts a thread; a server whose acceptor
failed to open is deaf; an answer of 65536 bytes is announced with length 0; the payload of a frame without a mask
is xored with an uninitialised key; a client that does not wait for its answers may get them mixed; a raw line
that is read in two parts is echoed in part, and its client ends with an error.

## The proofs

The prover sees no fairness, so all theorems are about `Spec`; each module of proofs names its invariant `IInv`,
which the theorem `Inductive` establishes.

`MultiProtocol_proofs`, for any set of connections and clients and any order of classes under
`ProtocolsAssumption` and `ClientsAssumption`:

* `Inductive`: `Spec => []IInv`. `IInv` is `TypeOK` and, per connection, a conjunct per phase
  (`BeforeAccept`, `FirstPhase`, `UpgradePhase`, `HttpPhase`, `ServingPhase`, `AfterClose`, `Kept`,
  `Replies`) that ties owner, replies and stream position together. None of the properties below is inductive
  alone: that a log session is upgraded when it is established rests on the two phases before, in which the
  top class has sent exactly one 101; that a raw session starts behind the GUID rests on nothing having been
  read before the first read. There is one lemma per action, and lemmas on `Shutdown`, `HandshakeSuccess`,
  `handshake` and `on_handshake_fail`, which several actions end in.
* `TypeCorrect`, `AnnouncedProtocolHolds`, `RawStartsAfterGuidHolds`, `OneReplyHolds`,
  `SocketHasKeeperHolds`: the invariants of the run, from `IInv`.
* `NoMutualWaitHolds`, under `ClientsGoOn`, from `GoesOn`, an invariant on top of `IInv`: no frame is sent before
  the 101 (`NoFrameYet`), a session that upgraded has not read the client's last token (`MoreToCome`), and a request
  that is still read has not ended (`Unfinished`).
* `Implementation`: `Spec => ImplementsNegotiation`. Every action maps to one action of `Negotiation` or to
  none (`StepMaps` and the lemmas `...Maps`).

`Server_proofs`, for any clients, limits and kind of protocol (`ServerAssumption`): `TypeCorrect`,
`AcceptLoopLivesHolds`, `DemoNeverDeafHolds`. The properties are inductive once the sessions are known to be
finite, which the count of descriptors needs. The work is in `on_accept`: that the head of the queue is in it once
only, so that it waits no more when it has its session.

`LogBroadcast_proofs`, for any set of log sessions and any number of lines (`LogAssumption`): `TypeCorrect`,
`NoStormHolds` and `NoSendAfterShutdownHolds`. `IInv` adds that the members of the set are open
(`MembersAreOpen`): a broadcast posts to members, and a session is out of the set before its socket is closed. The
load of a session says nothing of the lines that failures will still cause, so `NoStorm` is not inductive. `Calm`
says there is a bound `L` on what each member was sent, such that `Foreseen`, that is `L` with the lines which the
rest of the server still has and the lines which writes of failed sessions will still cause, is at most the
`Bound` for as many sessions as have failed. A failure at most triples `Foreseen`, as does one step of `Bound`.

`Serialization_proofs`, for any length of the header, radix, sizes of archives and pieces: `TypeCorrect`,
`EchoIsTypedHolds`, `Implementation`. `IInv` says, in debug builds, that a message is read behind its header
(`HeaderFirst`), that what came whole stays the last its sender wrote (`Once`), that what was decoded was read to
the end (`Whole`), and that a reply is what the server decoded (`Replies`). Nothing depends on the digits of a
header: an archive is decoded when as many bytes were announced, and read, as were sent. That a cut header
announces a number is an induction over the powers of the radix.

`TcpEcho_proofs`, for any lines, buffer and window: `TypeCorrect`, `EchoInOrderHolds`, `OnlyCutLinesFailHolds`,
`Implementation`. `IInv` says that what was heard, what is under way and what is being written are three
stretches of what was typed, one behind the other (`Stretches`), that at most one write is outstanding, and that
a session closes before its client only when it has read something (`HasRead`).

`Induction` is what the next two modules rest on. The prover cannot instantiate the library's induction theorems,
which take a predicate; here the predicate is a *set* of numbers, and the ground is that such a set has a least
element (`LeastElement`, from `WFMin`). `Recursion` says that a function may be defined step by step; `FlattenParts` and its neighbours, that a sequence of sequences put together holds each of them
at its place.

`WsSession_proofs`, for any frames with `ClientsAssumption`, any servers and any cuts of the stream: `TypeCorrect`
and all the invariants of the run. A parser is a run over the bytes it is given, one state per byte.
`HeadParsed` follows it through a head of each form of length, `FrameParsed` through a whole frame: a new parser
takes the frame at the front of any bytes for what the client meant, and nothing behind it. That `to_buffers`
writes such heads is `HeadersAgreeHolds`. On these rest three invariants, one on the other:

* `Typed`: `TypeOK`, how far each stream is, and that what is delivered is a frame of the client or `Garbage`.
* `Tidy`: while each read was one frame the parser is new and what was delivered are the messages so framed,
  which gives `TidyDeliveryHolds`. `FrontFrameDeliveredHolds` is about single steps.
* `PatientInv`: a delivered frame has been read to its end, and later ones are delivered later (`InOrder`);
  a patient client has the answer of each message but its last (`Waited`), so that at most one write is under
  way; what was written, and is being written, are the answers to what was delivered (`Right`, `Standing`).
  `PatientClientReadsAnswersHolds` is not inductive without them: that no two writes mix follows from the waiting.
  TLC checked this invariant on the `websocket` run before it was proved.

`ListedNamesFitHolds`, `NameFitsHolds` and `DataShownHolds`, about `Shortening`, are in the same module, for texts
of any characters and any length, from a lemma on a beginning, a gap and an end (`Joined`).

`HttpRequest_proofs`, for any inputs and files: all four invariants of the run. Again the parser is a run over the
bytes. `VerdictIsGrammarHolds` compares its verdict with a grammar that knows no states:

* One lemma per state says which bytes it takes and where it goes, and `Loops` which states may stay.
* `FirstInv` and `LineInv` say for each state what the bytes since the beginning of the line are: so much of a
  method, a target, a version, a header. From them `FirstRead` and `LineRead`: what the parser has taken is a
  line of the grammar. `FirstTaken`, `HeaderTaken`, `FoldedTaken` and `EndTaken` are the other direction: each line
  of the grammar is taken.
* `LinesOK`, by induction on the ends of lines, puts lines together to a request (`CompleteRead`, `Verdicts`), and
  `CompleteIsRequest` shows that this is what `IsRequest` says.
* `ReadSoFar`, the invariant over the reads: the parser is where a run over the whole input is after `rd` bytes,
  wherever the reads cut it.

`RepliesFitHolds` adds what the parser has kept as target (`UriRead`), that `url_decode` of a well encoded target
is `Decoded` of it, by induction on the places of the target (`RankFills`, `DecodedMore`), and that a reply is the
one of `handle_request` for the target (`Answered`). `OpenedPathIsBelowRootHolds` needs no grammar: the path that is
opened was tested after it was decoded.

Only model-checked: what needs fairness, which is out of the prover's reach. These are `ClientIsHeard`,
`HangupIsNoticed`, `WaitingIsAccepted`, `Quiesces`, `RoundTripEnds`, `PatientClientIsAnswered`, `RequestIsAnswered`,
`RawClientEnds`, `SessionEnds` and `EchoKeepsUp`.

## Not modelled

* `serialization_engine`: the chain of `serialization_session` over again, which no class of the repository uses.
* The digest of the upgrade key (Base64, SHA-1), the text of replies and the table of status lines, the layout of
  log lines and the calls of Boost.Log: functions of bytes with no state.
* The HTML pages and the substitution of text in pages before the server starts. As clients, pages are
  scripts of `MCMultiProtocol` and `MCWsSession`.
* `extract_file_name`, whose search ends only at a separator in front of the pointer: whether there is one is the
  build's choice.
* Lines that are logged while the `io_service` destroys what it still holds, after `log_session_` is destroyed:
  undefined, and the last the process does.

## Plan

1. Done: all components with state, the two abstract specifications and their refinements, and the proofs above.
2. Left: the composition of `WsSession` and `TcpEcho` as the established sessions of `MultiProtocol`, in place of
   `EndOfSession`; the sends of `my_log_session` as composed writes that mix; a channel of messages that
   `WsSession` implements under reads that are frames. `TidyDelivery` and `PatientClientReadsAnswers` are what
   the mapping of that channel would need.
