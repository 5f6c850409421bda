----------------------------- MODULE EchoChannel -----------------------------
(***************************************************************************)
(* What an echo service promises to one client: it hears what it said,     *)
(* each thing once and in order, while it says more, and nothing after the *)
(* conversation has ended, which it may with what is heard last.  How much *)
(* of it the client hears is not promised.                                 *)
(*                                                                         *)
(* TcpEcho.tla and Serialization.tla implement this module.                *)
(***************************************************************************)
EXTENDS SequencesExt

VARIABLES
  said,    \* what the client has said, in order
  heard,   \* what it has heard of it
  ended    \* the conversation has ended

echoVars == <<said, heard, ended>>

Init == said = <<>> /\ heard = <<>> /\ ended = FALSE

Say ==
  /\ ~ended
  /\ IsPrefix(said, said')
  /\ UNCHANGED <<heard, ended>>

Hear ==
  /\ ~ended
  /\ IsPrefix(heard, heard') /\ IsPrefix(heard', said)
  /\ ended' \in BOOLEAN
  /\ UNCHANGED said

End == ended' = TRUE /\ UNCHANGED <<said, heard>>

Next == Say \/ Hear \/ End

Spec == Init /\ [][Next]_echoVars
=============================================================================
