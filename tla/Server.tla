-------------------------------- MODULE Server --------------------------------
(***************************************************************************)
(* ez_server and its acceptor: construction, the accept loop of            *)
(* mono_protocol and multi_protocol, run() and on_stop().                  *)
(*                                                                         *)
(* The operating system keeps a queue of connections that have not been    *)
(* accepted yet, and a process has a limited number of descriptors: an     *)
(* accept fails while there is none left, and on an acceptor that was      *)
(* opened but could not be bound.                                          *)
(***************************************************************************)
EXTENDS Naturals, Sequences, FiniteSets

CONSTANTS
  Client,          \* who may connect
  MaxBacklog,      \* connections that listen() lets wait
  MaxOpen,         \* sockets the process may have besides the acceptor
  MultiProtocols   \* whether the server derives from multi_protocol

ASSUME ServerAssumption ==
  /\ MaxBacklog \in Nat \ {0} /\ MaxOpen \in Nat \ {0}
  /\ MultiProtocols \in BOOLEAN

VARIABLES
  build,       \* whether BOOST_ASSERT is compiled in: "debug", or not
  logger,      \* what an error of the constructor is logged with
  phase,       \* where main() is
  acceptor,    \* how far the constructor came with acceptor_
  accepting,   \* an asynchronous accept is outstanding
  backlog,     \* the clients in the queue of the operating system
  sessions     \* the clients that have a session with an open socket

vars == <<build, logger, phase, acceptor, accepting, backlog, sessions>>

(* What the constructor makes of acceptor_: resolve or open failed; or     *)
(* set_option, bind or listen did; or none.  An error is only logged, and  *)
(* a logger "prints" it or "signals": the demo's.                          *)
Acceptor == {"unopened", "open", "listening"}
Logger == {"prints", "signals"}

Waiting == {backlog[i] : i \in DOMAIN backlog}

TypeOK ==
  /\ build \in {"debug", "release"} /\ logger \in Logger
  /\ phase \in {"constructing", "constructed", "running", "stopped", "aborted", "crashed"}
  /\ acceptor \in Acceptor
  /\ accepting \in BOOLEAN
  /\ backlog \in Seq(Client) /\ Len(backlog) <= MaxBacklog
  /\ \A i, j \in DOMAIN backlog : backlog[i] = backlog[j] => i = j
  /\ sessions \subseteq Client \ Waiting /\ Cardinality(sessions) <= MaxOpen

Init ==
  /\ build \in {"debug", "release"} /\ logger \in Logger
  /\ phase = "constructing"
  /\ acceptor = "unopened"
  /\ accepting = FALSE
  /\ backlog = <<>>
  /\ sessions = {}

(* start_accept: nothing is done with an acceptor that is not open.        *)
start_accept(a) == accepting' = (a # "unopened")

(* The derived constructor calls start_accept.                             *)
Constructs(a) ==
  /\ acceptor' = a /\ start_accept(a)
  /\ phase' = "constructed"

(* Mutant: signal_ is set before the acceptor is opened.                   *)
on_error_Bound(a) == Constructs(a)

(* The demo's logger calls signal_, which the derived constructor sets     *)
(* after its bases are constructed: an assertion that fails, or an         *)
(* exception that main catches.                                            *)
on_error(a) ==
  \/ logger = "prints" /\ Constructs(a)
  \/ /\ logger = "signals"
     /\ phase' = IF build = "debug" THEN "crashed" ELSE "stopped"
     /\ UNCHANGED <<acceptor, accepting>>

(* The end iterator of a resolve that failed is dereferenced before its    *)
(* error is looked at, which may crash.                                    *)
ez_server ==
  /\ phase = "constructing"
  /\ \/ Constructs("listening")
     \/ \E a \in Acceptor \ {"listening"} : on_error(a)
     \/ phase' = "crashed" /\ UNCHANGED <<acceptor, accepting>>
  /\ UNCHANGED <<build, logger, backlog, sessions>>

(* The caller's thread runs the handlers, alone: whatever thread_count was *)
(* asked for, if(thread_count=1) assigns.                                  *)
run ==
  /\ phase = "constructed"
  /\ phase' = "running"
  /\ UNCHANGED <<build, logger, acceptor, accepting, backlog, sessions>>

on_stop ==
  /\ phase = "running"
  /\ phase' = "stopped"
  /\ UNCHANGED <<build, logger, acceptor, accepting, backlog, sessions>>

-----------------------------------------------------------------------------
(* The clients and the operating system.                                   *)

Connect(c) ==
  /\ acceptor = "listening" /\ phase \in {"constructed", "running"}
  /\ c \notin sessions \cup Waiting
  /\ Len(backlog) < MaxBacklog
  /\ backlog' = Append(backlog, c)
  /\ UNCHANGED <<build, logger, phase, acceptor, accepting, sessions>>

(* A session ends, and its socket is closed (MultiProtocol says when).     *)
SessionEnds(c) ==
  /\ phase = "running"
  /\ c \in sessions
  /\ sessions' = sessions \ {c}
  /\ UNCHANGED <<build, logger, phase, acceptor, accepting, backlog>>

-----------------------------------------------------------------------------
(* The accept handler.                                                     *)

Room == Cardinality(sessions) < MaxOpen

AcceptSucceeds == acceptor = "listening" /\ backlog # <<>> /\ Room
AcceptFails == acceptor = "open" \/ (acceptor = "listening" /\ backlog # <<>> /\ ~Room)

(* Mutant: the connection stays where the next accept finds it again.      *)
Accepted_Kept ==
  /\ sessions' = sessions \cup {Head(backlog)}
  /\ start_accept(acceptor)
  /\ UNCHANGED <<phase, backlog>>

(* The connection gets the session that waited for it, and the loop goes   *)
(* on with a new one.                                                      *)
Accepted ==
  /\ sessions' = sessions \cup {Head(backlog)}
  /\ backlog' = Tail(backlog)
  /\ start_accept(acceptor)
  /\ UNCHANGED phase

(* Mutant: an error ends the loop.                                         *)
NotAccepted_Return ==
  /\ accepting' = FALSE
  /\ UNCHANGED <<phase, sessions, backlog>>

(* BOOST_ASSERT(session->get_socket().is_open()) of multi_protocol comes   *)
(* before the error is looked at; otherwise the error is logged.           *)
NotAccepted ==
  \/ /\ MultiProtocols /\ build = "debug"
     /\ phase' = "aborted"
     /\ accepting' = FALSE
     /\ UNCHANGED <<sessions, backlog>>
  \/ /\ ~(MultiProtocols /\ build = "debug")
     /\ start_accept(acceptor)
     /\ UNCHANGED <<phase, sessions, backlog>>

on_accept ==
  /\ phase = "running" /\ accepting
  /\ \/ AcceptSucceeds /\ Accepted
     \/ AcceptFails /\ NotAccepted
  /\ UNCHANGED <<build, logger, acceptor>>

Next ==
  \/ ez_server
  \/ run
  \/ on_stop
  \/ on_accept
  \/ \E c \in Client : Connect(c) \/ SessionEnds(c)

Spec == Init /\ [][Next]_vars

(* The event loop runs the accept handler when the accept has completed.   *)
FairSpec == Spec /\ WF_vars(on_accept)

-----------------------------------------------------------------------------
(* Properties.                                                             *)

(* The loop is never lost: a server with an open acceptor has an accept    *)
(* outstanding, also after accepts that failed (on_accept always comes to  *)
(* start_accept).                                                          *)
AcceptLoopLives ==
  phase \in {"constructed", "running"} /\ acceptor # "unopened" => accepting

(* The demo server never runs deaf: with its logger, a server that comes   *)
(* to run() is listening, as the line about any failure finds signal_      *)
(* empty (my_logger.cpp:18) and ends the construction.                     *)
DemoNeverDeaf ==
  logger = "signals" /\ phase \in {"constructed", "running"} => acceptor = "listening"

(* A waiting client is accepted, unless the server stops or has no room    *)
(* for it: descriptors that ran out and came back delay it, no more.       *)
WaitingIsAccepted ==
  \A c \in Client :
    c \in Waiting /\ phase = "running"
      ~> c \in sessions \/ phase # "running" \/ ~Room

-----------------------------------------------------------------------------
(* What the source says of itself and does not do.                         *)

(* BOOST_ASSERT(session->get_socket().is_open()) (multi_protocol.hxx:52).  *)
AcceptedSocketIsOpen == phase # "aborted"
=============================================================================
