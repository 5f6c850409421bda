--------------------------- MODULE MCMultiProtocol ---------------------------
(* The server of examples/multi_protocol_echo, with the clients it is made *)
(* for and the ones that get it wrong.                                     *)
EXTENDS MultiProtocol, TLC

(* do_next_handshake and construct_session of main.cpp.                    *)
DemoClass == (0 :> "raw") @@ (1 :> "raw") @@ (2 :> "log") @@ (3 :> "http") @@ (4 :> "ws")

Request == <<"line", "key", "end">>

(* A browser page, with the GUID of its protocol or with none.             *)
Page(g) == [script |-> Request \o <<"frame1", "frame2">>, guid |-> g]
(* A page that sends its first message without waiting behind its GUID.    *)
EagerPage == [script |-> Request \o <<"frame1", "frame2", "msg">>, guid |-> 4]
(* A page that is left before it sends its GUID: the browser's close frame.*)
LeftPage == [script |-> Request \o <<"ctl">>, guid |-> NoGuid]
(* A console client: the GUID, then a message when its user has typed one. *)
Console(g) == [script |-> <<"guid1", "guid2", "msg">>, guid |-> g]
(* A browser that loads index.html.                                        *)
Loader == [script |-> <<"line", "end">>, guid |-> NoGuid]

DemoClients ==
  {Page(4), Page(2), EagerPage, Page(NoGuid), LeftPage,
   Console(0), Console(1), Console(NoGuid), Loader}
=============================================================================
