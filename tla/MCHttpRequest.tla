---------------------------- MODULE MCHttpRequest ----------------------------
(* Requests that are right, that are wrong in one place, and every short   *)
(* path.                                                                   *)
EXTENDS HttpRequest

Line(u) == <<"g", "SP">> \o u \o <<"SP", "H", "T", "T", "P", "/", "1", ".", "1", "CR", "LF">>
End == <<"CR", "LF">>
Header(name) == <<name, ":", "SP", "a", "CR", "LF">>

Base == Line(<<"/">>) \o Header("a") \o End
Folded == Line(<<"/", "a">>) \o Header("a") \o <<"HT", "SP", "a", "CR", "LF">> \o End
Upgrade == Line(<<"/">>) \o Header("K") \o End
(* The word in a place that is no header.                                  *)
KeyInUri == Line(<<"/", "K", ":">>) \o End

Kinds == {"SP", "HT", "CR", "LF", ":", "/", "1", "a", "eight"}

(* One character replaced, left out or put in.                             *)
Edits(s) ==
  {[s EXCEPT ![i] = c] : i \in DOMAIN s, c \in Kinds}
  \cup {RemoveAt(s, i) : i \in DOMAIN s}
  \cup {InsertAt(s, i, c) : i \in DOMAIN s, c \in {"SP", "HT", "CR", "a"}}

Paths == UNION {[1 .. n -> {"/", ".", "%", "2", "e", "g", "+"}] : n \in 0 .. 4}

Short == {p \in Paths : Len(p) < 4}
(* An escape with a character before or behind it.                         *)
Escaped ==
  {<<"/">> \o p : p \in {q \in Paths : Len(q) = 4 /\ q[1] = "." /\ q[2] = "%"}} \cup
  {<<"/">> \o p : p \in {q \in Paths : Len(q) = 4 /\ q[1] = "%" /\ q[4] = "."}} \cup
  {p \in Paths : Len(p) = 4 /\ p[1] = "%" /\ p[4] = "/"}

(* Dots and words in the last part of a path, and in others.               *)
Named ==
  {<<"/", "2", ".", "html">>, <<"/", ".", "gif">>, <<"/", "html">>, <<"/", ".", "gif", "/", "2">>,
   <<"/", ".", "2", "/", "gif">>, <<"/", "2", "%", "2", "e", "html">>,
   <<"/", ".", "gif", ".", "html">>, <<"/", "2", ".", "html", "/">>, <<"/", "%", "2", "a">>}

DemoInputs ==
  Edits(Base) \cup {Folded, Upgrade, KeyInUri, Base \o Base} \cup {Line(u) \o End : u \in Named} \cup
  {Line(u) \o End : u \in {<<"/">> \o p : p \in Short} \cup Escaped}

DemoFiles ==
  {<<"/", "index", ".", "html">>, <<"/", ".">>, <<"/", "2">>, <<"/", "2", ".", "html">>,
   <<"/", ".", "gif">>, <<"/", "html">>, <<"/", ".", "2", "/", "gif">>, <<"/", ".", "gif", ".", "html">>}
=============================================================================
