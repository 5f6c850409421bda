---------------------------- MODULE Server_proofs ----------------------------
(***************************************************************************)
(* The accept loop is never lost, for any clients, any queue, any number   *)
(* of descriptors and either kind of protocol.                             *)
(***************************************************************************)
EXTENDS Server, FiniteSetTheorems, SequenceTheorems, TLAPS

(***************************************************************************)
(* The inductive invariant: the properties themselves, and that sessions   *)
(* are finite, without which the limit of descriptors counts nothing.      *)
(***************************************************************************)
IInv ==
  /\ TypeOK
  /\ IsFiniteSet(sessions)
  /\ AcceptLoopLives
  /\ DemoNeverDeaf

-----------------------------------------------------------------------------
LEMMA InitIInv == Init => IInv
<1> SUFFICES ASSUME Init PROVE IInv
  OBVIOUS
<1>1. IsFiniteSet({}) /\ Cardinality({}) = 0
  BY FS_EmptySet
<1>2. backlog \in Seq(Client) /\ Len(backlog) = 0 /\ DOMAIN backlog = {}
  BY EmptySeq, LenProperties DEF Init
<1>3. Len(backlog) <= MaxBacklog /\ Cardinality(sessions) <= MaxOpen
  BY <1>1, <1>2, ServerAssumption DEF Init
<1>4. TypeOK
  BY <1>2, <1>3 DEF Init, TypeOK, Acceptor
<1>5. QED
  BY <1>1, <1>4 DEF Init, IInv, AcceptLoopLives, DemoNeverDeaf

LEMMA StepOfConstructor ==
  ASSUME IInv, ez_server
  PROVE  IInv'
<1>1. UNCHANGED <<build, logger, backlog, sessions>> /\ Waiting' = Waiting
  BY DEF ez_server, Waiting
<1>2. ASSUME NEW a \in Acceptor, Constructs(a), logger = "signals" => a = "listening"
      PROVE  IInv'
  <2>1. accepting' = (a # "unopened") /\ acceptor' = a /\ phase' = "constructed"
    BY <1>2 DEF Constructs, start_accept
  <2>2. TypeOK'
    BY <1>1, <2>1 DEF IInv, TypeOK
  <2>3. QED
    BY <1>1, <1>2, <2>1, <2>2 DEF IInv, AcceptLoopLives, DemoNeverDeaf
<1>3. ASSUME phase' \in {"crashed", "stopped"}, UNCHANGED <<acceptor, accepting>>
      PROVE  IInv'
  <2>1. TypeOK'
    BY <1>1, <1>3 DEF IInv, TypeOK
  <2>2. QED
    BY <1>1, <1>3, <2>1 DEF IInv, AcceptLoopLives, DemoNeverDeaf
<1>4. CASE Constructs("listening")
  BY <1>2, <1>4 DEF Acceptor
<1>5. CASE \E a \in Acceptor \ {"listening"} : on_error(a)
  <2>1. PICK a \in Acceptor \ {"listening"} : on_error(a)
    BY <1>5
  <2>2. CASE logger = "prints" /\ Constructs(a)
    BY <1>2, <2>2
  <2>3. CASE phase' \in {"crashed", "stopped"} /\ UNCHANGED <<acceptor, accepting>>
    BY <1>3, <2>3
  <2>4. QED
    BY <2>1, <2>2, <2>3 DEF on_error
<1>6. CASE phase' = "crashed" /\ UNCHANGED <<acceptor, accepting>>
  BY <1>3, <1>6
<1>7. QED
  BY <1>4, <1>5, <1>6 DEF ez_server

LEMMA StepOfMain ==
  ASSUME IInv, run \/ on_stop
  PROVE  IInv'
<1>1. /\ UNCHANGED <<build, logger, acceptor, accepting, backlog, sessions>>
      /\ phase \in {"constructed", "running"} /\ phase' \in {"running", "stopped"}
  BY DEF run, on_stop
<1>2. Waiting' = Waiting
  BY <1>1 DEF Waiting
<1>3. TypeOK'
  BY <1>1, <1>2 DEF IInv, TypeOK
<1>4. QED
  BY <1>1, <1>3 DEF IInv, AcceptLoopLives, DemoNeverDeaf

(* The queue behind a new connection.                                      *)
LEMMA StepOfConnect ==
  ASSUME IInv, NEW c \in Client, Connect(c)
  PROVE  IInv'
<1>1. /\ UNCHANGED <<build, logger, phase, acceptor, accepting, sessions>>
      /\ phase \in {"constructed", "running"} /\ c \notin sessions \cup Waiting
      /\ Len(backlog) < MaxBacklog /\ backlog' = Append(backlog, c)
  BY DEF Connect
<1>2. /\ backlog \in Seq(Client) /\ sessions \subseteq Client \ Waiting
      /\ \A i, j \in DOMAIN backlog : backlog[i] = backlog[j] => i = j
  BY DEF IInv, TypeOK
<1>3. /\ Len(backlog) \in Nat /\ DOMAIN backlog = 1 .. Len(backlog)
      /\ backlog' \in Seq(Client) /\ Len(backlog') = Len(backlog) + 1
      /\ backlog'[Len(backlog) + 1] = c
      /\ \A i \in 1 .. Len(backlog) : backlog'[i] = backlog[i]
  BY <1>1, <1>2, AppendProperties, LenProperties
<1>4. DOMAIN backlog' = 1 .. Len(backlog) + 1
  BY <1>3, LenProperties
<1>5. Len(backlog') <= MaxBacklog
  BY <1>1, <1>3, ServerAssumption
<1>6. \A i \in 1 .. Len(backlog) + 1 : i \in 1 .. Len(backlog) \/ i = Len(backlog) + 1
  BY <1>3
<1>7. Waiting' = Waiting \cup {c}
  BY <1>3, <1>4, <1>6 DEF Waiting
<1>8. \A i \in 1 .. Len(backlog) : backlog[i] # c
  BY <1>1, <1>3 DEF Waiting
<1>9. \A i, j \in DOMAIN backlog' : backlog'[i] = backlog'[j] => i = j
  BY <1>2, <1>3, <1>4, <1>6, <1>8
<1>10. sessions' \subseteq Client \ Waiting'
  BY <1>1, <1>2, <1>7
<1>11. TypeOK'
  BY <1>1, <1>3, <1>5, <1>9, <1>10 DEF IInv, TypeOK
<1>12. QED
  BY <1>1, <1>11 DEF IInv, AcceptLoopLives, DemoNeverDeaf

LEMMA StepOfSessionEnds ==
  ASSUME IInv, NEW c \in Client, SessionEnds(c)
  PROVE  IInv'
<1>1. /\ UNCHANGED <<build, logger, phase, acceptor, accepting, backlog>>
      /\ c \in sessions /\ sessions' = sessions \ {c}
  BY DEF SessionEnds
<1>2. IsFiniteSet(sessions) /\ Cardinality(sessions) \in Nat /\ Cardinality(sessions) <= MaxOpen
  BY FS_CardinalityType DEF IInv, TypeOK
<1>3. IsFiniteSet(sessions') /\ Cardinality(sessions') = Cardinality(sessions) - 1
  BY <1>1, <1>2, FS_RemoveElement
<1>4. Cardinality(sessions') <= MaxOpen
  BY <1>2, <1>3, ServerAssumption
<1>5. Waiting' = Waiting
  BY <1>1 DEF Waiting
<1>6. TypeOK'
  BY <1>1, <1>4, <1>5 DEF IInv, TypeOK
<1>7. QED
  BY <1>1, <1>3, <1>6 DEF IInv, AcceptLoopLives, DemoNeverDeaf

(* The head of the queue becomes a session, for which there is room.       *)
LEMMA StepOfAccepted ==
  ASSUME IInv, phase = "running", AcceptSucceeds, Accepted, UNCHANGED <<build, logger, acceptor>>
  PROVE  IInv'
<1>1. /\ acceptor = "listening" /\ backlog # <<>> /\ Cardinality(sessions) < MaxOpen
      /\ sessions' = sessions \cup {Head(backlog)} /\ backlog' = Tail(backlog)
      /\ accepting' = TRUE /\ phase' = phase
  BY DEF AcceptSucceeds, Accepted, Room, start_accept
<1>2. /\ backlog \in Seq(Client) /\ sessions \subseteq Client \ Waiting
      /\ \A i, j \in DOMAIN backlog : backlog[i] = backlog[j] => i = j
      /\ Len(backlog) <= MaxBacklog /\ IsFiniteSet(sessions)
  BY DEF IInv, TypeOK
<1>3. /\ Len(backlog) \in Nat /\ Len(backlog) # 0 /\ DOMAIN backlog = 1 .. Len(backlog)
      /\ Head(backlog) = backlog[1]
      /\ backlog' \in Seq(Client) /\ Len(backlog') = Len(backlog) - 1
      /\ \A i \in 1 .. Len(backlog') : backlog'[i] = backlog[i + 1]
  BY <1>1, <1>2, HeadTailProperties, LenProperties, EmptySeq
<1>4. DOMAIN backlog' = 1 .. Len(backlog')
  BY <1>3, LenProperties
<1>5. /\ 1 \in 1 .. Len(backlog) /\ Len(backlog') <= MaxBacklog
      /\ \A i \in 1 .. Len(backlog') : i + 1 \in 1 .. Len(backlog) /\ i + 1 # 1
      /\ \A i, j \in 1 .. Len(backlog') : i + 1 = j + 1 => i = j
  BY <1>2, <1>3, ServerAssumption
<1>6. \A i, j \in DOMAIN backlog' : backlog'[i] = backlog'[j] => i = j
  <2> SUFFICES ASSUME NEW i \in 1 .. Len(backlog'), NEW j \in 1 .. Len(backlog'),
                      backlog'[i] = backlog'[j]
               PROVE  i = j
    BY <1>4
  <2>1. backlog[i + 1] = backlog[j + 1] /\ i + 1 \in DOMAIN backlog /\ j + 1 \in DOMAIN backlog
    BY <1>3, <1>5
  <2>2. i + 1 = j + 1
    BY <2>1, <1>2
  <2>3. QED
    BY <2>2, <1>5
<1>7. backlog[1] \in Waiting /\ backlog[1] \in Client
  BY <1>2, <1>3, <1>5 DEF Waiting
<1>8. Waiting' \subseteq Waiting \ {backlog[1]}
  <2> SUFFICES ASSUME NEW i \in DOMAIN backlog' PROVE backlog'[i] \in Waiting \ {backlog[1]}
    BY DEF Waiting
  <2>1. backlog'[i] = backlog[i + 1] /\ i + 1 \in DOMAIN backlog /\ i + 1 # 1
    BY <1>3, <1>4, <1>5
  <2>2. QED
    BY <2>1, <1>2, <1>3, <1>5 DEF Waiting
<1>9. sessions' \subseteq Client \ Waiting'
  BY <1>1, <1>2, <1>3, <1>7, <1>8
<1>10. /\ IsFiniteSet(sessions') /\ Cardinality(sessions) \in Nat
       /\ Cardinality(sessions') \in {Cardinality(sessions), Cardinality(sessions) + 1}
  BY <1>1, <1>2, FS_AddElement, FS_CardinalityType
<1>11. Cardinality(sessions') <= MaxOpen
  BY <1>1, <1>10, ServerAssumption
<1>12. TypeOK'
  BY <1>1, <1>3, <1>5, <1>6, <1>9, <1>11 DEF IInv, TypeOK
<1>13. QED
  BY <1>1, <1>10, <1>12 DEF IInv, AcceptLoopLives, DemoNeverDeaf

LEMMA StepOfNotAccepted ==
  ASSUME IInv, phase = "running", AcceptFails, NotAccepted, UNCHANGED <<build, logger, acceptor>>
  PROVE  IInv'
<1>1. /\ UNCHANGED <<sessions, backlog>> /\ acceptor \in {"open", "listening"}
      /\ \/ phase' = "aborted" /\ accepting' = FALSE
         \/ phase' = phase /\ accepting' = (acceptor # "unopened")
  BY DEF NotAccepted, AcceptFails, start_accept
<1>2. Waiting' = Waiting
  BY <1>1 DEF Waiting
<1>3. TypeOK'
  BY <1>1, <1>2 DEF IInv, TypeOK
<1>4. QED
  BY <1>1, <1>3 DEF IInv, AcceptLoopLives, DemoNeverDeaf

-----------------------------------------------------------------------------
LEMMA StepIInv == IInv /\ [Next]_vars => IInv'
<1> SUFFICES ASSUME IInv, [Next]_vars PROVE IInv'
  OBVIOUS
<1>1. CASE ez_server
  BY <1>1, StepOfConstructor
<1>2. CASE run \/ on_stop
  BY <1>2, StepOfMain
<1>3. CASE on_accept
  BY <1>3, StepOfAccepted, StepOfNotAccepted DEF on_accept
<1>4. ASSUME NEW c \in Client, Connect(c) PROVE IInv'
  BY <1>4, StepOfConnect
<1>5. ASSUME NEW c \in Client, SessionEnds(c) PROVE IInv'
  BY <1>5, StepOfSessionEnds
<1>6. CASE UNCHANGED vars
  <2>1. Waiting' = Waiting
    BY <1>6 DEF vars, Waiting
  <2>2. TypeOK'
    BY <1>6, <2>1 DEF IInv, TypeOK, vars
  <2>3. QED
    BY <1>6, <2>2 DEF IInv, AcceptLoopLives, DemoNeverDeaf, vars
<1>7. QED
  BY <1>1, <1>2, <1>3, <1>4, <1>5, <1>6 DEF Next

(* The invariant of every reachable state.                                 *)
THEOREM Inductive == Spec => []IInv
BY InitIInv, StepIInv, PTL DEF Spec

(* Every variable keeps its type; queue and sessions stay in their limits. *)
THEOREM TypeCorrect == Spec => []TypeOK
<1>1. IInv => TypeOK
  BY DEF IInv
<1>2. QED
  BY <1>1, Inductive, PTL

(* The accept loop is never lost while the server lives.                   *)
THEOREM AcceptLoopLivesHolds == Spec => []AcceptLoopLives
<1>1. IInv => AcceptLoopLives
  BY DEF IInv
<1>2. QED
  BY <1>1, Inductive, PTL

(* A server with the logger of the demo listens, or does not run.          *)
THEOREM DemoNeverDeafHolds == Spec => []DemoNeverDeaf
<1>1. IInv => DemoNeverDeaf
  BY DEF IInv
<1>2. QED
  BY <1>1, Inductive, PTL
=============================================================================
