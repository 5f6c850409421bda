----------------------------- MODULE LogBroadcast -----------------------------
(***************************************************************************)
(* The log sessions of the demo server, and the loop they close: every     *)
(* line that is logged is broadcast to every log session by a posted send, *)
(* a send that fails closes its session, and closing a session logs.       *)
(*                                                                         *)
(* A session object lives while the set, a posted send or an outstanding   *)
(* write holds it; its destructor logs too.                                *)
(***************************************************************************)
EXTENDS Naturals, FiniteSets

CONSTANTS
  Session,     \* the log sessions that may be established
  MaxLines,    \* lines that the rest of the server logs
  Debug        \* log_trace is tracked as well (my_logger.hpp, !NDEBUG)

ASSUME LogAssumption ==
  IsFiniteSet(Session) /\ MaxLines \in Nat /\ Debug \in BOOLEAN

VARIABLES
  set,        \* log_session_set_
  open,       \* the sessions whose socket is open
  gone,       \* the sessions whose client has gone
  posted,     \* how many sends are posted to the io_service
  writing,    \* how many writes are outstanding
  lines,      \* lines the rest of the server has logged
  ended,      \* io_service.run has returned, my_server is destroyed
  empty       \* an on_shutdown has found signal_ empty

vars == <<set, open, gone, posted, writing, lines, ended, empty>>

TypeOK ==
  /\ set \subseteq Session /\ open \subseteq Session /\ gone \subseteq Session
  /\ posted \in [Session -> Nat] /\ writing \in [Session -> Nat]
  /\ lines \in 0 .. MaxLines
  /\ ended \in BOOLEAN /\ empty \in BOOLEAN

Init ==
  /\ set = {} /\ open = {} /\ gone = {}
  /\ posted = [s \in Session |-> 0]
  /\ writing = [s \in Session |-> 0]
  /\ lines = 0
  /\ ended = FALSE /\ empty = FALSE

Trace == IF Debug THEN 1 ELSE 0

(* track: n lines, each posted to every session that is in the set.        *)
broadcast(p, n, to) == [s \in Session |-> IF s \in to THEN p[s] + n ELSE p[s]]

-----------------------------------------------------------------------------
(* A GUID handshake succeeds: on_connect inserts the session.              *)
on_connect(s) ==
  /\ ~ended /\ s \notin open \cup gone
  /\ posted[s] = 0 /\ writing[s] = 0
  /\ open' = open \cup {s}
  /\ set' = set \cup {s}
  /\ UNCHANGED <<gone, posted, writing, lines, ended, empty>>

ClientGoes(s) ==
  /\ s \in open \ gone
  /\ gone' = gone \cup {s}
  /\ UNCHANGED <<set, open, posted, writing, lines, ended, empty>>

(* Some other handler logs a line.                                         *)
track ==
  /\ ~ended /\ lines < MaxLines
  /\ lines' = lines + 1
  /\ posted' = broadcast(posted, 1, set)
  /\ UNCHANGED <<set, open, gone, writing, ended, empty>>

(* "Take care of not generating log message, otherwise will loop           *)
(* indefinitely": the mutant does.                                         *)
send_Logs(s) ==
  /\ ~ended /\ posted[s] > 0
  /\ posted' = broadcast([posted EXCEPT ![s] = @ - 1], 1, set)
  /\ writing' = [writing EXCEPT ![s] = @ + 1]
  /\ UNCHANGED <<set, open, gone, lines, ended, empty>>

(* Mutant: a session that is written to again while a send is posted.      *)
send_Unposted(s) ==
  /\ ~ended /\ posted[s] + writing[s] > 0
  /\ posted' = [posted EXCEPT ![s] = @ - 1]
  /\ writing' = [writing EXCEPT ![s] = @ + 1]
  /\ UNCHANGED <<set, open, gone, lines, ended, empty>>

send(s) ==
  /\ ~ended /\ posted[s] > 0
  /\ posted' = [posted EXCEPT ![s] = @ - 1]
  /\ writing' = [writing EXCEPT ![s] = @ + 1]
  /\ UNCHANGED <<set, open, gone, lines, ended, empty>>

(* What the destructor logs if the write that completes was the last to    *)
(* hold session s, which is in the set or not: its own line and, from      *)
(* shutdown, a trace.                                                      *)
Destroyed(s, p, to) == s \notin to /\ p[s] = 0 /\ writing[s] = 1
Released(s, p, to) == IF Destroyed(s, p, to) THEN broadcast(p, 1 + Trace, to) ELSE p

WriteSucceeds(s) ==
  /\ s \in open
  /\ UNCHANGED <<set, open, posted>>

(* Mutant: on_shutdown does not signal.                                    *)
WriteFailsOpen_Stays(s) ==
  /\ s \in open \cap gone
  /\ open' = open \ {s}
  /\ UNCHANGED set
  /\ \E n \in 1 .. 2 : posted' = broadcast(posted, 1 + Trace + n, set)

(* on_error logs an error, shutdown a trace, and on_shutdown a line, or an *)
(* error for each call that failed; all this while the session is still in *)
(* the set.  Then the signal takes it out.                                 *)
WriteFailsOpen(s) ==
  /\ s \in open \cap gone
  /\ open' = open \ {s}
  /\ set' = set \ {s}
  /\ \E n \in 1 .. 2 :
       posted' = Released(s, broadcast(posted, 1 + Trace + n, set), set \ {s})

(* Mutant: a line that could not be written is sent again.                 *)
WriteFailsClosed_Again(s) ==
  /\ s \notin open
  /\ posted' = [posted EXCEPT ![s] = @ + 1]
  /\ UNCHANGED <<set, open>>

(* The socket has been closed before: shutdown returns early.              *)
WriteFailsClosed(s) ==
  /\ s \notin open
  /\ posted' = Released(s, broadcast(posted, 1 + Trace, set), set)
  /\ UNCHANGED <<set, open>>

on_write_quiet(s) ==
  /\ ~ended /\ writing[s] > 0
  /\ \/ WriteSucceeds(s)
     \/ WriteFailsOpen(s)
     \/ WriteFailsClosed(s)
  /\ writing' = [writing EXCEPT ![s] = @ - 1]
  /\ UNCHANGED <<gone, lines, ended, empty>>

(* main returns: the set of my_server is destroyed, and with it its        *)
(* sessions.  Their base class shuts the open sockets down, and calls      *)
(* on_shutdown of a derived class whose signal_ has been destroyed.        *)
server_destructor ==
  /\ ~ended
  /\ ended' = TRUE
  /\ open' = open \ set
  /\ set' = {}
  /\ \/ UNCHANGED empty
     \/ set \cap open # {} /\ empty' = TRUE
  /\ UNCHANGED <<gone, posted, writing, lines>>

Next ==
  \/ track
  \/ server_destructor
  \/ \E s \in Session : on_connect(s) \/ ClientGoes(s) \/ send(s) \/ on_write_quiet(s)

Spec == Init /\ [][Next]_vars

(* Posted handlers are run, outstanding writes complete.                   *)
FairSpec ==
  Spec /\ \A s \in Session : WF_vars(send(s)) /\ WF_vars(on_write_quiet(s))

-----------------------------------------------------------------------------
(* Properties.                                                             *)

(* The loop from a failed send back to new sends does not feed itself: a   *)
(* session that fails makes a few lines, each of its sends that was posted *)
(* before makes less than three more, and they go only to the sessions     *)
(* that are left (shutdown removes the session before its last sends run). *)
(* Bound[n]: what there is to write to a session when n others have failed *)
(* before, (MaxLines + 6) * 3 ^ n.                                         *)
Bound[n \in Nat] == IF n = 0 THEN MaxLines + 6 ELSE 3 * Bound[n - 1]
Load(s) == posted[s] + writing[s]
NoStorm == \A s \in Session : Load(s) <= Bound[Cardinality(Session) - 1]

(* A session whose socket is closed is never sent to again: no line that   *)
(* is logged after its shutdown is posted to it.                           *)
NoSendAfterShutdown ==
  [][\A s \in Session : s \in gone /\ s \notin open => posted'[s] <= posted[s]]_vars

(* Once the rest of the server is silent, so are the log sessions.         *)
Quiesces ==
  <>[](ended \/ \A s \in Session : posted[s] = 0 /\ writing[s] = 0)

-----------------------------------------------------------------------------
(* What the source says of itself and does not do.                         *)

(* BOOST_ASSERT(!signal_.empty()) (my_log_session.hpp:68).                 *)
SignalIsSet == ~empty
=============================================================================
