-------------------------- MODULE HttpRequest_proofs --------------------------
(***************************************************************************)
(* The request parser and the request handler, for requests of any length  *)
(* and any cuts of their bytes into reads.                                 *)
(***************************************************************************)
EXTENDS HttpRequest, Induction

(***************************************************************************)
(* The parser as a machine: a record of one type, and a step per byte.     *)
(***************************************************************************)
ParserState ==
  {"method_start", "method", "uri", "http_version_h", "http_version_t_1", "http_version_t_2",
   "http_version_p", "http_version_slash", "http_version_major_start", "http_version_major",
   "http_version_minor_start", "http_version_minor", "expecting_newline_1", "header_line_start",
   "header_lws", "header_name", "space_before_header_value", "header_value",
   "expecting_newline_2", "expecting_newline_3"}
Verdict == {"true", "false", "indeterminate"}
Parser == [state : ParserState, uri : Seq(Char), names : Seq(Seq(Char)), result : Verdict]

Step(p, c) == IF p.result = "indeterminate" THEN consume(p, c) ELSE p

(* f is a run of the parser over bytes, from q.                            *)
Runs(f, q, bytes) ==
  f = [i \in 0 .. Len(bytes) |->
        IF i = 0 THEN q
        ELSE IF f[i - 1].result = "indeterminate" THEN consume(f[i - 1], bytes[i]) ELSE f[i - 1]]

LEMMA ToType ==
  ASSUME NEW p \in Parser, NEW state \in ParserState
  PROVE  To(p, state) \in Parser /\ To(p, state).state = state
         /\ To(p, state).uri = p.uri /\ To(p, state).names = p.names /\ To(p, state).result = p.result
BY DEF To, Parser

LEMMA RefuseType ==
  ASSUME NEW p \in Parser
  PROVE  Refuse(p) \in Parser /\ Refuse(p).result = "false"
BY DEF Refuse, Parser, Verdict

LEMMA ExpectType ==
  ASSUME NEW p \in Parser, NEW ch, NEW c, NEW state \in ParserState
  PROVE  Expect(p, ch, c, state) \in Parser
BY ToType, RefuseType DEF Expect

LEMMA NewParserType == NewParser \in Parser
BY DEF NewParser, Parser, ParserState, Verdict

LEMMA ConsumeType ==
  ASSUME NEW p \in Parser, NEW c \in Char
  PROVE  consume(p, c) \in Parser
<1>1. method(p, c) \in Parser
  BY ToType, RefuseType DEF method, ParserState
<1>2. uri(p, c) \in Parser
  <2>1. [p EXCEPT !.uri = Append(@, c)] \in Parser
    BY DEF Parser
  <2>2. QED
    BY <2>1, ToType, RefuseType DEF uri, ParserState
<1>3. http_version(p, c) \in Parser
  BY ToType, RefuseType, ExpectType DEF http_version, ParserState
<1>4. header_line_start(p, c) \in Parser
  <2>1. ASSUME NEW q \in Parser PROVE [q EXCEPT !.names = Append(@, <<c>>)] \in Parser
    <3>1. q.names \in Seq(Seq(Char)) /\ <<c>> \in Seq(Char)
      BY DEF Parser
    <3>2. Append(q.names, <<c>>) \in Seq(Seq(Char))
      BY <3>1
    <3>3. QED
      BY <3>2 DEF Parser
  <2>2. QED
    BY <2>1, ToType, RefuseType DEF header_line_start, ParserState
<1>5. header_lws(p, c) \in Parser
  BY ToType, RefuseType DEF header_lws, ParserState
<1>6. header_name(p, c) \in Parser
  <2>1. [p EXCEPT !.names[Len(p.names)] = Append(@, c)] \in Parser
    <3> DEFINE names == [p.names EXCEPT ![Len(p.names)] = Append(p.names[Len(p.names)], c)]
    <3>1. p.names \in Seq(Seq(Char))
      BY DEF Parser
    <3>2. names \in Seq(Seq(Char))
      <4>1. CASE p.names = <<>>
        <5>2. p.names \in [1 .. 0 -> Seq(Char)] /\ Len(p.names) \notin 1 .. 0
          BY <3>1, <4>1
        <5>3. names \in [1 .. 0 -> Seq(Char)]
          BY <5>2, ExceptOutside
        <5> HIDE DEF names
        <5>4. QED
          BY <5>3, FunctionIsSeq
      <4>2. CASE p.names # <<>>
        <5>1. Len(p.names) \in 1 .. Len(p.names) /\ p.names[Len(p.names)] \in Seq(Char)
          BY <3>1, <4>2
        <5>2. Append(p.names[Len(p.names)], c) \in Seq(Char)
          BY <5>1
        <5>3. QED
          BY <3>1, <5>1, <5>2
      <4>3. QED
        BY <4>1, <4>2
    <3>3. [p EXCEPT !.names[Len(p.names)] = Append(@, c)] = [p EXCEPT !.names = names]
      OBVIOUS
    <3>4. QED
      BY <3>2, <3>3 DEF Parser
  <2>2. QED
    BY <2>1, ToType, RefuseType DEF header_name, ParserState
<1>7. header_value(p, c) \in Parser
  BY ToType, RefuseType DEF header_value, ParserState
<1>8. [p EXCEPT !.result = IF c = "LF" THEN "true" ELSE "false"] \in Parser
  BY DEF Parser, Verdict
<1>9. QED
  BY <1>1, <1>2, <1>3, <1>4, <1>5, <1>6, <1>7, <1>8, ExpectType DEF consume, ParserState

LEMMA RunExists ==
  ASSUME NEW q \in Parser, NEW bytes \in Seq(Char)
  PROVE  \E f : Runs(f, q, bytes)
<1> DEFINE N == Len(bytes)
           step == [x \in Parser \X Nat |-> IF x[2] < N THEN Step(x[1], bytes[x[2] + 1]) ELSE x[1]]
<1>1. ASSUME NEW p \in Parser, NEW n \in Nat PROVE n < N => Step(p, bytes[n + 1]) \in Parser
  BY ConsumeType, <1>1 DEF Step
<1>2. step \in [Parser \X Nat -> Parser]
  <2> SUFFICES ASSUME NEW x \in Parser \X Nat
               PROVE  (IF x[2] < N THEN Step(x[1], bytes[x[2] + 1]) ELSE x[1]) \in Parser
    OBVIOUS
  <2>1. x[1] \in Parser /\ x[2] \in Nat
    OBVIOUS
  <2>2. QED
    BY <1>1, <2>1
<1>3. \A p \in Parser : \A n \in Nat : n < N => step[<<p, n>>] = Step(p, bytes[n + 1])
  OBVIOUS
<1> HIDE DEF step
<1>4. PICK g \in [Nat -> Parser] : Follows(g, q, step)
  BY <1>2, Recursion
<1>5. g[0] = q /\ \A n \in Nat : n < N => g[n + 1] = Step(g[n], bytes[n + 1])
  BY <1>3, <1>4 DEF Follows
<1> DEFINE f == [i \in 0 .. N |-> g[i]]
<1>6. \A i \in 0 .. N : g[i] = IF i = 0 THEN q ELSE Step(g[i - 1], bytes[i])
  <2> SUFFICES ASSUME NEW i \in 0 .. N, i # 0 PROVE g[i] = Step(g[i - 1], bytes[i])
    BY <1>5
  <2>1. i - 1 \in Nat /\ i - 1 < N /\ (i - 1) + 1 = i
    OBVIOUS
  <2>2. QED
    BY <1>5, <2>1
<1>7. \A i \in 0 .. N : i # 0 => f[i - 1] = g[i - 1]
  OBVIOUS
<1>8. Runs(f, q, bytes)
  BY <1>6, <1>7 DEF Runs, Step
<1>9. QED
  BY <1>8

LEMMA ParseRuns ==
  ASSUME NEW q \in Parser, NEW bytes \in Seq(Char)
  PROVE  \E f : Runs(f, q, bytes) /\ parse(q, bytes) = f[Len(bytes)]
<1> DEFINE f == CHOOSE f : Runs(f, q, bytes)
<1>1. Runs(f, q, bytes)
  BY RunExists
<1>2. parse(q, bytes) = f[Len(bytes)]
  BY DEF parse, Runs
<1>3. QED
  BY <1>1, <1>2

LEMMA RunProperties ==
  ASSUME NEW q \in Parser, NEW bytes \in Seq(Char), NEW f, Runs(f, q, bytes)
  PROVE  /\ f[0] = q
         /\ \A i \in 1 .. Len(bytes) : f[i] = Step(f[i - 1], bytes[i])
         /\ \A i \in 0 .. Len(bytes) : f[i] \in Parser
<1>1. f[0] = q /\ \A i \in 1 .. Len(bytes) : f[i] = Step(f[i - 1], bytes[i])
  BY DEF Runs, Step
<1> DEFINE S == {i \in 0 .. Len(bytes) : f[i] \in Parser}
<1>2. ASSUME NEW i \in 0 .. Len(bytes) - 1, i \in S PROVE i + 1 \in S
  <2>1. i + 1 \in 1 .. Len(bytes) /\ (i + 1) - 1 = i /\ bytes[i + 1] \in Char
    OBVIOUS
  <2>2. f[i + 1] = Step(f[i], bytes[i + 1]) /\ f[i] \in Parser
    BY <1>1, <1>2, <2>1
  <2>3. QED
    BY <2>1, <2>2, ConsumeType DEF Step
<1>3. 0 \in S
  BY <1>1
<1> HIDE DEF S
<1>4. \A i \in 0 .. Len(bytes) : i \in S
  BY <1>2, <1>3, Upwards
<1>5. QED
  BY <1>1, <1>4 DEF S

LEMMA ParseType ==
  ASSUME NEW q \in Parser, NEW bytes \in Seq(Char)
  PROVE  parse(q, bytes) \in Parser
<1>1. PICK f : Runs(f, q, bytes) /\ parse(q, bytes) = f[Len(bytes)]
  BY ParseRuns
<1>2. Len(bytes) \in 0 .. Len(bytes)
  OBVIOUS
<1>3. QED
  BY <1>1, <1>2, RunProperties

(***************************************************************************)
(* The parser, state by state.  Moves leaves the uri as it is, and what    *)
(* has a name keeps one.                                                   *)
(***************************************************************************)
At(p, state) == p.state = state /\ p.result = "indeterminate"
Named(p) == p.names # <<>>
Moves(p, q, state) == At(q, state) /\ q.uri = p.uri /\ (Named(p) => Named(q))

LEMMA ToMoves ==
  ASSUME NEW p \in Parser, p.result = "indeterminate", NEW state
  PROVE  Moves(p, To(p, state), state) /\ To(p, state).names = p.names
BY DEF Moves, At, To, Parser, Named

LEMMA RefuseFails ==
  ASSUME NEW p \in Parser
  PROVE  Refuse(p).result = "false" /\ Refuse(p).uri = p.uri
BY DEF Refuse, Parser

LEMMA MethodStep ==
  ASSUME NEW p \in Parser, p.result = "indeterminate", p.state \in {"method_start", "method"}, NEW c \in Char
  PROVE  /\ c \in Token => Moves(p, consume(p, c), "method") /\ consume(p, c).names = p.names
         /\ p.state = "method" /\ c = "SP" => Moves(p, consume(p, c), "uri") /\ consume(p, c).names = p.names
         /\ c \notin Token /\ ~(p.state = "method" /\ c = "SP") => consume(p, c).result = "false"
<1>1. consume(p, c) = method(p, c)
  BY DEF consume
<1>2. "SP" \notin Token
  BY DEF Token, HexDigit, Digit, Word
<1>3. QED
  BY <1>1, <1>2, ToMoves, RefuseFails DEF method

LEMMA UriStep ==
  ASSUME NEW p \in Parser, At(p, "uri"), NEW c \in Char
  PROVE  /\ c = "SP" => Moves(p, consume(p, c), "http_version_h") /\ consume(p, c).names = p.names
         /\ c \in Field \ {"SP"} =>
              At(consume(p, c), "uri") /\ consume(p, c).uri = Append(p.uri, c) /\ consume(p, c).names = p.names
         /\ c \in ctl => consume(p, c).result = "false"
<1>1. consume(p, c) = uri(p, c)
  BY DEF consume, At
<1>2. "SP" \notin ctl
  BY DEF ctl
<1>3. CASE c = "SP"
  BY <1>1, <1>2, <1>3, ToMoves DEF uri, At
<1>4. CASE c \in ctl
  BY <1>1, <1>2, <1>4, RefuseFails DEF uri, Field
<1>5. CASE c \in Field \ {"SP"}
  <2>1. consume(p, c) = [p EXCEPT !.uri = Append(@, c)]
    BY <1>1, <1>5 DEF uri, Field
  <2>2. QED
    BY <1>2, <1>5, <2>1 DEF At, Parser, Field
<1>6. QED
  BY <1>3, <1>4, <1>5

(* A state that waits for one character.                                   *)
Awaits(p, c, ch, state) ==
  /\ c = ch => Moves(p, consume(p, c), state) /\ consume(p, c).names = p.names
  /\ c # ch => consume(p, c).result = "false"

LEMMA ExpectStep ==
  ASSUME NEW p \in Parser, p.result = "indeterminate", NEW c \in Char
  PROVE  /\ p.state = "http_version_h" => Awaits(p, c, "H", "http_version_t_1")
         /\ p.state = "http_version_t_1" => Awaits(p, c, "T", "http_version_t_2")
         /\ p.state = "http_version_t_2" => Awaits(p, c, "T", "http_version_p")
         /\ p.state = "http_version_p" => Awaits(p, c, "P", "http_version_slash")
         /\ p.state = "http_version_slash" => Awaits(p, c, "/", "http_version_major_start")
         /\ p.state = "expecting_newline_1" => Awaits(p, c, "LF", "header_line_start")
         /\ p.state = "expecting_newline_2" => Awaits(p, c, "LF", "header_line_start")
         /\ p.state = "space_before_header_value" => Awaits(p, c, "SP", "header_value")
<1>1. ASSUME NEW ch, NEW state, consume(p, c) = Expect(p, ch, c, state)
      PROVE  Awaits(p, c, ch, state)
  BY <1>1, ToMoves, RefuseFails DEF Expect, Awaits
<1>2. /\ p.state = "http_version_h" => consume(p, c) = Expect(p, "H", c, "http_version_t_1")
      /\ p.state = "http_version_t_1" => consume(p, c) = Expect(p, "T", c, "http_version_t_2")
      /\ p.state = "http_version_t_2" => consume(p, c) = Expect(p, "T", c, "http_version_p")
      /\ p.state = "http_version_p" => consume(p, c) = Expect(p, "P", c, "http_version_slash")
      /\ p.state = "http_version_slash" => consume(p, c) = Expect(p, "/", c, "http_version_major_start")
  <2>1. p.state \in {"http_version_h", "http_version_t_1", "http_version_t_2", "http_version_p",
                     "http_version_slash"} => consume(p, c) = http_version(p, c)
    BY DEF consume
  <2>2. QED
    BY <2>1 DEF http_version
<1>3. /\ p.state = "expecting_newline_1" => consume(p, c) = Expect(p, "LF", c, "header_line_start")
      /\ p.state = "expecting_newline_2" => consume(p, c) = Expect(p, "LF", c, "header_line_start")
      /\ p.state = "space_before_header_value" => consume(p, c) = Expect(p, "SP", c, "header_value")
  BY DEF consume
<1>4. QED
  BY <1>1, <1>2, <1>3

LEMMA VersionStep ==
  ASSUME NEW p \in Parser, p.result = "indeterminate", NEW c \in Char,
         p.state \in {"http_version_major_start", "http_version_major",
                      "http_version_minor_start", "http_version_minor"}
  PROVE  /\ c \in Digit /\ p.state \in {"http_version_major_start", "http_version_major"} =>
              Moves(p, consume(p, c), "http_version_major") /\ consume(p, c).names = p.names
         /\ c \in Digit /\ p.state \in {"http_version_minor_start", "http_version_minor"} =>
              Moves(p, consume(p, c), "http_version_minor") /\ consume(p, c).names = p.names
         /\ c = "." /\ p.state = "http_version_major" =>
              Moves(p, consume(p, c), "http_version_minor_start") /\ consume(p, c).names = p.names
         /\ c = "CR" /\ p.state = "http_version_minor" =>
              Moves(p, consume(p, c), "expecting_newline_1") /\ consume(p, c).names = p.names
         /\ \/ c \in Digit
            \/ c = "." /\ p.state = "http_version_major"
            \/ c = "CR" /\ p.state = "http_version_minor"
            \/ consume(p, c).result = "false"
<1>1. consume(p, c) = http_version(p, c)
  BY DEF consume
<1>2. "." \notin Digit /\ "CR" \notin Digit
  BY DEF Digit
<1>3. QED
  BY <1>1, <1>2, ToMoves, RefuseFails DEF http_version

LEMMA LineStartStep ==
  ASSUME NEW p \in Parser, At(p, "header_line_start"), NEW c \in Char
  PROVE  /\ c = "CR" => Moves(p, consume(p, c), "expecting_newline_3")
         /\ Named(p) /\ c \in {"SP", "HT"} => Moves(p, consume(p, c), "header_lws")
         /\ c \in Token => Moves(p, consume(p, c), "header_name") /\ Named(consume(p, c))
         /\ \/ c = "CR" \/ (Named(p) /\ c \in {"SP", "HT"}) \/ c \in Token
            \/ consume(p, c).result = "false"
<1>1. consume(p, c) = header_line_start(p, c)
  BY DEF consume, At
<1>2. {"SP", "HT", "CR"} \cap Token = {}
  BY DEF Token, HexDigit, Digit, Word
<1>3. c \in Token =>
        /\ consume(p, c) = [To(p, "header_name") EXCEPT !.names = Append(@, <<c>>)]
  BY <1>1, <1>2 DEF header_line_start
<1>4. p.result = "indeterminate" /\ Append(p.names, <<c>>) # <<>>
  <2>1. p.names \in Seq(Seq(Char)) /\ <<c>> \in Seq(Char)
    BY DEF Parser
  <2>2. Len(Append(p.names, <<c>>)) = Len(p.names) + 1 /\ Len(p.names) \in Nat
    BY <2>1
  <2>3. Append(p.names, <<c>>) # <<>>
    BY <2>2
  <2>4. QED
    BY <2>3 DEF At
<1>5. c \in Token => Moves(p, consume(p, c), "header_name") /\ Named(consume(p, c))
  BY <1>3, <1>4 DEF To, Moves, At, Named, Parser
<1>6. QED
  BY <1>1, <1>2, <1>4, <1>5, ToMoves, RefuseFails DEF header_line_start, Named

LEMMA LwsStep ==
  ASSUME NEW p \in Parser, At(p, "header_lws"), NEW c \in Char
  PROVE  /\ c = "CR" => Moves(p, consume(p, c), "expecting_newline_2")
         /\ c \in {"SP", "HT"} => Moves(p, consume(p, c), "header_lws")
         /\ c \notin ctl /\ c # "SP" => Moves(p, consume(p, c), "header_value")
         /\ c = "CR" \/ c \in {"SP", "HT"} \/ c \notin ctl \/ consume(p, c).result = "false"
<1>1. consume(p, c) = header_lws(p, c)
  BY DEF consume, At
<1>2. "CR" \in ctl /\ "HT" \in ctl
  BY DEF ctl
<1>3. Moves(p, p, "header_lws") /\ p.result = "indeterminate"
  BY DEF Moves, At
<1>4. QED
  BY <1>1, <1>2, <1>3, ToMoves, RefuseFails DEF header_lws

LEMMA NameStep ==
  ASSUME NEW p \in Parser, At(p, "header_name"), Named(p), NEW c \in Char
  PROVE  /\ c = ":" => Moves(p, consume(p, c), "space_before_header_value")
         /\ c \in Token => Moves(p, consume(p, c), "header_name")
         /\ c = ":" \/ c \in Token \/ consume(p, c).result = "false"
<1>1. consume(p, c) = header_name(p, c)
  BY DEF consume, At
<1>2. ":" \notin Token
  BY DEF Token, HexDigit, Digit, Word
<1>3. c \in Token => consume(p, c) = [p EXCEPT !.names[Len(p.names)] = Append(@, c)]
  BY <1>1, <1>2 DEF header_name
<1>4. c \in Token => Moves(p, consume(p, c), "header_name")
  <2> DEFINE names == [p.names EXCEPT ![Len(p.names)] = Append(p.names[Len(p.names)], c)]
  <2>1. p.names \in Seq(Seq(Char)) /\ p.names # <<>>
    BY DEF Parser, Named
  <2>2. names # <<>>
    <3>1. DOMAIN names = DOMAIN p.names
      OBVIOUS
    <3>2. DOMAIN p.names = 1 .. Len(p.names) /\ Len(p.names) \in Nat \ {0}
      BY <2>1
    <3> HIDE DEF names
    <3>3. 1 \in DOMAIN names
      BY <3>1, <3>2
    <3>4. QED
      BY <3>3
  <2>3. c \in Token => consume(p, c) = [p EXCEPT !.names = names]
    BY <1>3
  <2> HIDE DEF names
  <2>4. QED
    BY <2>2, <2>3 DEF Moves, At, Named, Parser
<1>5. QED
  BY <1>1, <1>2, <1>4, ToMoves, RefuseFails DEF header_name, At

LEMMA ValueStep ==
  ASSUME NEW p \in Parser, At(p, "header_value"), NEW c \in Char
  PROVE  /\ c = "CR" => Moves(p, consume(p, c), "expecting_newline_2")
         /\ c \notin ctl => Moves(p, consume(p, c), "header_value")
         /\ c = "CR" \/ c \notin ctl \/ consume(p, c).result = "false"
<1>1. consume(p, c) = header_value(p, c)
  BY DEF consume, At
<1>2. "CR" \in ctl
  BY DEF ctl
<1>3. Moves(p, p, "header_value") /\ p.result = "indeterminate"
  BY DEF Moves, At
<1>4. QED
  BY <1>1, <1>2, <1>3, ToMoves, RefuseFails DEF header_value

LEMMA LastStep ==
  ASSUME NEW p \in Parser, At(p, "expecting_newline_3"), NEW c \in Char
  PROVE  /\ c = "LF" => consume(p, c).result = "true"
         /\ c # "LF" => consume(p, c).result = "false"
         /\ consume(p, c).uri = p.uri
BY DEF consume, At, Parser

(***************************************************************************)
(* A run of the parser over s, from its beginning.                         *)
(***************************************************************************)
Run(f, s) == s \in Seq(Char) /\ Runs(f, NewParser, s)

LEMMA RunStep ==
  ASSUME NEW s, NEW f, Run(f, s)
  PROVE  /\ f[0] = NewParser /\ Len(s) \in Nat
         /\ \A i \in 0 .. Len(s) : f[i] \in Parser
         /\ \A i \in 0 .. Len(s) - 1 :
              /\ i + 1 \in 0 .. Len(s) /\ s[i + 1] \in Char
              /\ f[i].result = "indeterminate" => f[i + 1] = consume(f[i], s[i + 1])
              /\ f[i].result # "indeterminate" => f[i + 1] = f[i]
<1>1. /\ f[0] = NewParser
      /\ \A i \in 1 .. Len(s) : f[i] = Step(f[i - 1], s[i])
      /\ \A i \in 0 .. Len(s) : f[i] \in Parser
  BY NewParserType, RunProperties DEF Run
<1>2. Len(s) \in Nat
  BY DEF Run
<1>3. ASSUME NEW i \in 0 .. Len(s) - 1
      PROVE  /\ i + 1 \in 0 .. Len(s) /\ s[i + 1] \in Char
             /\ f[i + 1] = Step(f[i], s[i + 1])
  <2>1. i + 1 \in 1 .. Len(s) /\ (i + 1) - 1 = i
    BY <1>2
  <2>2. f[i + 1] = Step(f[(i + 1) - 1], s[i + 1])
    BY <1>1, <2>1
  <2>3. QED
    BY <2>1, <2>2 DEF Run
<1>4. QED
  BY <1>1, <1>2, <1>3 DEF Step

(* s[i + 1] when it is known that there is one.                            *)
LEMMA RunMoves ==
  ASSUME NEW s, NEW f, Run(f, s), NEW i \in Nat, i + 1 <= Len(s), f[i].result = "indeterminate"
  PROVE  f[i] \in Parser /\ f[i + 1] = consume(f[i], s[i + 1]) /\ s[i + 1] \in Char
<1>1. i \in 0 .. Len(s) - 1 /\ i \in 0 .. Len(s)
  BY RunStep
<1>2. QED
  BY <1>1, RunStep

(* What a parser has said it keeps to.                                     *)
LEMMA Decided ==
  ASSUME NEW s, NEW f, Run(f, s), NEW i \in 0 .. Len(s), NEW j \in i .. Len(s),
         f[i].result # "indeterminate"
  PROVE  f[j] = f[i]
<1> DEFINE T == {n \in 0 .. j - i : f[i + n] = f[i]}
<1>1. ASSUME NEW n \in 0 .. j - i - 1, n \in T PROVE n + 1 \in T
  <2>1. i + n \in 0 .. Len(s) - 1 /\ i + (n + 1) = (i + n) + 1 /\ n + 1 \in 0 .. j - i
    BY RunStep
  <2>2. f[i + n] = f[i]
    BY <1>1
  <2>3. f[(i + n) + 1] = f[i + n]
    BY <2>1, <2>2, RunStep
  <2>4. QED
    BY <2>1, <2>2, <2>3
<1>2. 0 \in T /\ j - i \in Int
  BY RunStep
<1> HIDE DEF T
<1>3. \A n \in 0 .. j - i : n \in T
  BY <1>1, <1>2, Upwards
<1>4. j - i \in 0 .. j - i /\ i + (j - i) = j
  BY RunStep
<1>5. QED
  BY <1>3, <1>4 DEF T

(* The characters behind the first a, up to the first b, are in S.         *)
Span(s, a, b, S) == \A i \in a + 1 .. b : s[i] \in S

(* In the states Q, with names in M, characters of S change nothing.       *)
In(p, Q, M) == p.state \in Q /\ p.result = "indeterminate" /\ p.names \in M
Loop(Q, M, S) == \A p \in Parser : \A c \in S : In(p, Q, M) => In(consume(p, c), Q, M)

LEMMA Loops ==
  ASSUME NEW s, NEW f, Run(f, s), NEW Q, NEW M, NEW S, Loop(Q, M, S),
         NEW a \in 0 .. Len(s), NEW b \in a .. Len(s), In(f[a], Q, M), Span(s, a, b, S)
  PROVE  In(f[b], Q, M)
<1> DEFINE T == {n \in 0 .. b - a : In(f[a + n], Q, M)}
<1>1. ASSUME NEW n \in 0 .. b - a - 1, n \in T PROVE n + 1 \in T
  <2>1. /\ a + n \in 0 .. Len(s) - 1 /\ a + n \in 0 .. Len(s) /\ a + (n + 1) = (a + n) + 1
        /\ n + 1 \in 0 .. b - a /\ (a + n) + 1 \in a + 1 .. b
    BY RunStep
  <2>2. In(f[a + n], Q, M)
    BY <1>1
  <2>3. s[(a + n) + 1] \in S
    BY <2>1 DEF Span
  <2>4. f[(a + n) + 1] = consume(f[a + n], s[(a + n) + 1]) /\ f[a + n] \in Parser
    BY <2>1, <2>2, RunStep DEF In
  <2>5. In(f[(a + n) + 1], Q, M)
    BY <2>2, <2>3, <2>4 DEF Loop
  <2>6. QED
    BY <2>1, <2>5
<1>2. 0 \in T /\ b - a \in Int
  BY RunStep
<1> HIDE DEF T
<1>3. \A n \in 0 .. b - a : n \in T
  BY <1>1, <1>2, Upwards
<1>4. b - a \in 0 .. b - a /\ a + (b - a) = b
  BY RunStep
<1>5. QED
  BY <1>3, <1>4 DEF T

(***************************************************************************)
(* The lines behind the request line.                                      *)
(***************************************************************************)
Blank == {"SP", "HT"}
Listed == Seq(Seq(Char)) \ {<<>>}

(* The line behind the first a, up to the first b, is a header; or goes on *)
(* with one.                                                               *)
HeaderSpan(s, a, b) ==
  \E k \in a + 2 .. b - 1 :
    s[k] = ":" /\ s[k + 1] = "SP" /\ Span(s, a, k - 1, Token) /\ Span(s, k + 1, b, Field)
FoldedSpan(s, a, b) ==
  \E k \in a + 1 .. b : Span(s, a, k, Blank) /\ Span(s, k, b, Field)

LEMMA Characters ==
  /\ Token \subseteq Char /\ Field \subseteq Char /\ Blank \subseteq Char /\ Digit \subseteq Token
  /\ Token \subseteq Field \ {"SP"} /\ Field \cap ctl = {} /\ Char = Field \cup ctl
  /\ "SP" \in Field /\ "SP" \notin Token /\ ":" \notin Token /\ ":" \in Field /\ "." \in Token
  /\ "CR" \in ctl /\ "LF" \in ctl /\ "HT" \in ctl /\ ":" # "SP"
  /\ "." \notin Digit /\ "/" \notin Token /\ "/" \in Field
BY DEF Token, Field, Blank, Char, HexDigit, Digit, Word, ctl, tspecial, EightBit

LEMMA ListedNamed == \A p \in Parser : p.names \in Listed <=> Named(p)
BY DEF Parser, Listed, Named

LEMMA LineLoops ==
  /\ Loop({"header_name"}, Listed, Token)
  /\ Loop({"header_value"}, Listed, Field)
  /\ Loop({"header_lws"}, Listed, Blank)
  /\ Loop({"header_lws", "header_value"}, Listed, Field)
<1>1. ASSUME NEW p \in Parser, NEW c \in Token, In(p, {"header_name"}, Listed)
      PROVE  In(consume(p, c), {"header_name"}, Listed)
  <2>1. At(p, "header_name") /\ Named(p) /\ c \in Char
    BY <1>1, ListedNamed, Characters DEF At, In
  <2>2. Moves(p, consume(p, c), "header_name") /\ consume(p, c) \in Parser
    BY <2>1, NameStep, ConsumeType
  <2>3. QED
    BY <2>1, <2>2, ListedNamed DEF Moves, At, In
<1>2. ASSUME NEW p \in Parser, NEW c \in Field, In(p, {"header_value"}, Listed)
      PROVE  In(consume(p, c), {"header_value"}, Listed)
  <2>1. At(p, "header_value") /\ Named(p) /\ c \in Char /\ c \notin ctl
    BY <1>2, ListedNamed, Characters DEF At, In
  <2>2. Moves(p, consume(p, c), "header_value") /\ consume(p, c) \in Parser
    BY <2>1, ValueStep, ConsumeType
  <2>3. QED
    BY <2>1, <2>2, ListedNamed DEF Moves, At, In
<1>3. ASSUME NEW p \in Parser, NEW c \in Char, In(p, {"header_lws"}, Listed)
      PROVE  /\ c \in Blank => In(consume(p, c), {"header_lws"}, Listed)
             /\ c \in Field => In(consume(p, c), {"header_lws", "header_value"}, Listed)
  <2>1. At(p, "header_lws") /\ Named(p)
    BY <1>3, ListedNamed DEF At, In
  <2>2. /\ consume(p, c) \in Parser
        /\ c \in Blank => Moves(p, consume(p, c), "header_lws")
        /\ c \notin ctl /\ c # "SP" => Moves(p, consume(p, c), "header_value")
    BY <2>1, LwsStep, ConsumeType DEF Blank
  <2>3. c \in Field => c \notin ctl /\ (c = "SP" => c \in Blank)
    BY DEF Field, Blank
  <2>4. QED
    BY <2>1, <2>2, <2>3, ListedNamed DEF Moves, At, In
<1>4. QED
  BY <1>1, <1>2, <1>3, Characters DEF Loop, In

(* The end of a line.                                                      *)
LEMMA LineEnds ==
  ASSUME NEW s, NEW f, Run(f, s), NEW b \in Nat, b + 2 <= Len(s), s[b + 1] = "CR", s[b + 2] = "LF",
         In(f[b], {"header_lws", "header_value"}, Listed)
  PROVE  At(f[b + 2], "header_line_start") /\ Named(f[b + 2])
<1>1. f[b] \in Parser /\ f[b + 1] = consume(f[b], "CR") /\ "CR" \in Char /\ Len(s) \in Nat
  BY RunMoves, RunStep, Characters DEF In
<1>2. f[b].names \in Listed /\ Named(f[b]) /\ (At(f[b], "header_lws") \/ At(f[b], "header_value"))
  BY <1>1, ListedNamed DEF In, At
<1>3. Moves(f[b], f[b + 1], "expecting_newline_2")
  BY <1>1, <1>2, LwsStep, ValueStep
<1>4. At(f[b + 1], "expecting_newline_2") /\ Named(f[b + 1])
  BY <1>2, <1>3 DEF Moves
<1>5. f[b + 1] \in Parser /\ f[b + 2] = consume(f[b + 1], "LF") /\ "LF" \in Char
  <2>1. b + 1 \in Nat /\ (b + 1) + 1 = b + 2
    OBVIOUS
  <2>2. QED
    BY <1>4, <2>1, RunMoves DEF At
<1>6. Moves(f[b + 1], f[b + 2], "header_line_start")
  BY <1>4, <1>5, ExpectStep DEF Awaits, At
<1>7. QED
  BY <1>4, <1>6 DEF Moves

LEMMA HeaderTaken ==
  ASSUME NEW s, NEW f, Run(f, s), NEW a \in Nat, NEW b \in Nat, b + 2 <= Len(s),
         s[b + 1] = "CR", s[b + 2] = "LF", At(f[a], "header_line_start"), HeaderSpan(s, a, b)
  PROVE  At(f[b + 2], "header_line_start") /\ Named(f[b + 2])
<1>1. PICK k \in a + 2 .. b - 1 :
        s[k] = ":" /\ s[k + 1] = "SP" /\ Span(s, a, k - 1, Token) /\ Span(s, k + 1, b, Field)
  BY DEF HeaderSpan
<1>2. /\ Len(s) \in Nat /\ a + 1 \in 0 .. Len(s) /\ k - 1 \in a + 1 .. Len(s) /\ k - 1 \in Nat
      /\ k \in Nat /\ k + 1 \in 0 .. Len(s) /\ b \in k + 1 .. Len(s) /\ (k - 1) + 1 = k
      /\ a + 1 \in a + 1 .. k - 1
  BY RunStep
<1>3. s[a + 1] \in Token /\ Span(s, a + 1, k - 1, Token)
  BY <1>1, <1>2 DEF Span
<1>4. f[a] \in Parser /\ f[a + 1] = consume(f[a], s[a + 1]) /\ s[a + 1] \in Char
  BY <1>2, RunMoves DEF At
<1>5. Moves(f[a], f[a + 1], "header_name") /\ Named(f[a + 1])
  BY <1>3, <1>4, LineStartStep
<1>6. In(f[a + 1], {"header_name"}, Listed)
  BY <1>2, <1>5, RunStep, ListedNamed DEF Moves, At, In
<1>7. In(f[k - 1], {"header_name"}, Listed)
  BY <1>2, <1>3, <1>6, Loops, LineLoops
<1>8. f[k - 1] \in Parser /\ f[k] = consume(f[k - 1], ":") /\ ":" \in Char
  BY <1>1, <1>2, <1>7, RunMoves DEF In
<1>9. Moves(f[k - 1], f[k], "space_before_header_value") /\ Named(f[k])
  <2>1. At(f[k - 1], "header_name") /\ Named(f[k - 1])
    BY <1>7, <1>8, ListedNamed DEF In, At
  <2>2. Moves(f[k - 1], f[k], "space_before_header_value")
    BY <1>8, <2>1, NameStep
  <2>3. QED
    BY <2>1, <2>2 DEF Moves
<1>10. f[k] \in Parser /\ f[k + 1] = consume(f[k], "SP") /\ "SP" \in Char
  BY <1>1, <1>2, <1>9, RunMoves DEF Moves, At
<1>11. In(f[k + 1], {"header_value"}, Listed)
  <2>1. Moves(f[k], f[k + 1], "header_value")
    BY <1>9, <1>10, ExpectStep DEF Awaits, Moves, At
  <2>2. Named(f[k + 1]) /\ f[k + 1] \in Parser
    BY <1>2, <1>9, <2>1, RunStep DEF Moves
  <2>3. QED
    BY <2>1, <2>2, ListedNamed DEF Moves, At, In
<1>12. In(f[b], {"header_value"}, Listed)
  BY <1>1, <1>2, <1>11, Loops, LineLoops
<1>13. In(f[b], {"header_lws", "header_value"}, Listed)
  BY <1>12 DEF In
<1>14. QED
  BY <1>13, LineEnds

LEMMA FoldedTaken ==
  ASSUME NEW s, NEW f, Run(f, s), NEW a \in Nat, NEW b \in Nat, b + 2 <= Len(s),
         s[b + 1] = "CR", s[b + 2] = "LF", At(f[a], "header_line_start"), Named(f[a]),
         FoldedSpan(s, a, b)
  PROVE  At(f[b + 2], "header_line_start") /\ Named(f[b + 2])
<1>1. PICK k \in a + 1 .. b : Span(s, a, k, Blank) /\ Span(s, k, b, Field)
  BY DEF FoldedSpan
<1>2. /\ Len(s) \in Nat /\ a + 1 \in 0 .. Len(s) /\ k \in a + 1 .. Len(s) /\ k \in 0 .. Len(s)
      /\ b \in k .. Len(s) /\ a + 1 \in a + 1 .. k
  BY RunStep
<1>3. s[a + 1] \in Blank /\ Span(s, a + 1, k, Blank)
  BY <1>1, <1>2 DEF Span
<1>4. f[a] \in Parser /\ f[a + 1] = consume(f[a], s[a + 1]) /\ s[a + 1] \in Char
  BY <1>2, RunMoves DEF At
<1>5. Moves(f[a], f[a + 1], "header_lws")
  BY <1>3, <1>4, LineStartStep DEF Blank
<1>6. In(f[a + 1], {"header_lws"}, Listed)
  BY <1>2, <1>5, RunStep, ListedNamed DEF Moves, At, In
<1>7. In(f[k], {"header_lws"}, Listed)
  BY <1>2, <1>3, <1>6, Loops, LineLoops
<1>8. In(f[k], {"header_lws", "header_value"}, Listed)
  BY <1>7 DEF In
<1>9. In(f[b], {"header_lws", "header_value"}, Listed)
  BY <1>1, <1>2, <1>8, Loops, LineLoops
<1>10. QED
  BY <1>9, LineEnds

LEMMA EndTaken ==
  ASSUME NEW s, NEW f, Run(f, s), NEW a \in Nat, a + 2 <= Len(s),
         s[a + 1] = "CR", s[a + 2] = "LF", At(f[a], "header_line_start")
  PROVE  f[a + 1].result = "indeterminate" /\ f[a + 2].result = "true"
<1>1. f[a] \in Parser /\ f[a + 1] = consume(f[a], "CR") /\ "CR" \in Char /\ Len(s) \in Nat
  BY RunMoves, RunStep, Characters DEF At
<1>2. At(f[a + 1], "expecting_newline_3")
  BY <1>1, LineStartStep DEF Moves
<1>3. f[a + 1] \in Parser /\ f[a + 2] = consume(f[a + 1], "LF") /\ "LF" \in Char
  <2>1. a + 1 \in Nat /\ (a + 1) + 1 = a + 2
    OBVIOUS
  <2>2. QED
    BY <1>2, <2>1, RunMoves DEF At
<1>4. QED
  BY <1>2, <1>3, LastStep DEF At

LEMMA SpanMore ==
  ASSUME NEW s, NEW S, NEW a \in Nat, NEW i \in Nat, Span(s, a, i, S), s[i + 1] \in S
  PROVE  Span(s, a, i + 1, S)
<1>1. \A j \in a + 1 .. i + 1 : j \in a + 1 .. i \/ j = i + 1
  OBVIOUS
<1>2. QED
  BY <1>1 DEF Span

(* A line that a parser takes, after the lines that left p.                *)
LineSpan(s, a, b, p) == HeaderSpan(s, a, b) \/ (Named(p) /\ FoldedSpan(s, a, b))

LEMMA LineSpanMore ==
  ASSUME NEW s, NEW p, NEW a \in Nat, NEW i \in Nat, LineSpan(s, a, i, p), s[i + 1] \in Field
  PROVE  LineSpan(s, a, i + 1, p)
<1>1. CASE HeaderSpan(s, a, i)
  <2>1. PICK k \in a + 2 .. i - 1 :
          s[k] = ":" /\ s[k + 1] = "SP" /\ Span(s, a, k - 1, Token) /\ Span(s, k + 1, i, Field)
    BY <1>1 DEF HeaderSpan
  <2>2. k \in a + 2 .. (i + 1) - 1 /\ k + 1 \in Nat
    BY <2>1
  <2>3. Span(s, k + 1, i + 1, Field)
    BY <2>1, <2>2, SpanMore
  <2>4. QED
    BY <2>1, <2>2, <2>3 DEF HeaderSpan, LineSpan
<1>2. CASE Named(p) /\ FoldedSpan(s, a, i)
  <2>1. PICK k \in a + 1 .. i : Span(s, a, k, Blank) /\ Span(s, k, i, Field)
    BY <1>2 DEF FoldedSpan
  <2>2. k \in a + 1 .. i + 1 /\ k \in Nat
    BY <2>1
  <2>3. Span(s, k, i + 1, Field)
    BY <2>1, <2>2, SpanMore
  <2>4. QED
    BY <1>2, <2>1, <2>2, <2>3 DEF FoldedSpan, LineSpan
<1>3. QED
  BY <1>1, <1>2 DEF LineSpan

(* Within a line that begins behind the first a: what the state says of it *)
(* after the first i.                                                      *)
LineInv(s, f, a, i) ==
  \/ f[i].result = "false"
  \/ i = a /\ f[i] = f[a]
  \/ i = a + 1 /\ s[i] = "CR" /\ At(f[i], "expecting_newline_3")
  \/ At(f[i], "header_name") /\ Named(f[i]) /\ i > a /\ Span(s, a, i, Token)
  \/ /\ At(f[i], "space_before_header_value") /\ Named(f[i])
     /\ i > a + 1 /\ s[i] = ":" /\ Span(s, a, i - 1, Token)
  \/ At(f[i], "header_value") /\ Named(f[i]) /\ LineSpan(s, a, i, f[a])
  \/ At(f[i], "header_lws") /\ Named(f[i]) /\ Named(f[a]) /\ i > a /\ Span(s, a, i, Blank)
  \/ At(f[i], "expecting_newline_2") /\ Named(f[i]) /\ s[i] = "CR" /\ LineSpan(s, a, i - 1, f[a])

LEMMA LineInvStep ==
  ASSUME NEW s, NEW f, Run(f, s), NEW a \in Nat, At(f[a], "header_line_start"),
         NEW i \in Nat, a <= i, i + 1 <= Len(s), s[i + 1] # "LF", LineInv(s, f, a, i)
  PROVE  LineInv(s, f, a, i + 1)
<1> DEFINE c == s[i + 1]
           q == f[i + 1]
<1>1. i \in 0 .. Len(s) - 1 /\ (i + 1) - 1 = i /\ i + 1 > a
  BY RunStep
<1>2. CASE f[i].result = "false"
  <2>1. f[i + 1] = f[i]
    BY <1>1, <1>2, RunStep
  <2>2. QED
    BY <1>2, <2>1 DEF LineInv
<1>3. ASSUME f[i].result = "indeterminate"
      PROVE  f[i] \in Parser /\ q = consume(f[i], c) /\ c \in Char /\ c # "LF"
  BY <1>3, RunMoves
<1> HIDE DEF c, q
<1>4. CASE i = a /\ f[i] = f[a]
  <2>1. f[i] \in Parser /\ q = consume(f[i], c) /\ c \in Char /\ At(f[i], "header_line_start")
    BY <1>3, <1>4 DEF At
  <2>2. CASE q.result = "false"
    BY <2>2 DEF LineInv, q
  <2>3. CASE c = "CR"
    <3>1. At(q, "expecting_newline_3")
      BY <2>1, <2>3, LineStartStep DEF Moves
    <3>2. QED
      BY <1>4, <2>3, <3>1 DEF LineInv, c, q
  <2>4. CASE Named(f[i]) /\ c \in {"SP", "HT"}
    <3>1. At(q, "header_lws") /\ Named(q)
      BY <2>1, <2>4, LineStartStep DEF Moves
    <3>2. Span(s, a, i + 1, Blank)
      BY <1>1, <1>4, <2>4 DEF Span, Blank, c
    <3>3. QED
      BY <1>1, <1>4, <2>4, <3>1, <3>2 DEF LineInv, q
  <2>5. CASE c \in Token
    <3>1. At(q, "header_name") /\ Named(q)
      BY <2>1, <2>5, LineStartStep DEF Moves
    <3>2. Span(s, a, i + 1, Token)
      BY <1>1, <1>4, <2>5 DEF Span, c
    <3>3. QED
      BY <1>1, <3>1, <3>2 DEF LineInv, q
  <2>6. QED
    BY <2>1, <2>2, <2>3, <2>4, <2>5, LineStartStep
<1>5. CASE i = a + 1 /\ s[i] = "CR" /\ At(f[i], "expecting_newline_3")
  <2>1. q.result = "false"
    BY <1>3, <1>5, LastStep DEF At
  <2>2. QED
    BY <2>1 DEF LineInv, q
<1>6. CASE At(f[i], "header_name") /\ Named(f[i]) /\ i > a /\ Span(s, a, i, Token)
  <2>1. f[i] \in Parser /\ q = consume(f[i], c) /\ c \in Char
    BY <1>3, <1>6 DEF At
  <2>2. CASE q.result = "false"
    BY <2>2 DEF LineInv, q
  <2>3. CASE c = ":"
    <3>1. At(q, "space_before_header_value") /\ Named(q)
      BY <1>6, <2>1, <2>3, NameStep DEF Moves
    <3>2. i + 1 > a + 1
      BY <1>6
    <3>3. QED
      BY <1>1, <1>6, <2>3, <3>1, <3>2 DEF LineInv, c, q
  <2>4. CASE c \in Token
    <3>1. At(q, "header_name") /\ Named(q)
      BY <1>6, <2>1, <2>4, NameStep DEF Moves
    <3>2. Span(s, a, i + 1, Token)
      BY <1>6, <2>4, SpanMore DEF c
    <3>3. QED
      BY <1>1, <3>1, <3>2 DEF LineInv, q
  <2>5. QED
    BY <1>6, <2>1, <2>2, <2>3, <2>4, NameStep
<1>7. CASE /\ At(f[i], "space_before_header_value") /\ Named(f[i])
           /\ i > a + 1 /\ s[i] = ":" /\ Span(s, a, i - 1, Token)
  <2>1. f[i] \in Parser /\ q = consume(f[i], c) /\ c \in Char
    BY <1>3, <1>7 DEF At
  <2>2. CASE c # "SP"
    <3>1. q.result = "false"
      BY <1>7, <2>1, <2>2, ExpectStep DEF Awaits, At
    <3>2. QED
      BY <3>1 DEF LineInv, q
  <2>3. CASE c = "SP"
    <3>1. At(q, "header_value") /\ Named(q)
      BY <1>7, <2>1, <2>3, ExpectStep DEF Awaits, Moves, At
    <3>2. i \in a + 2 .. (i + 1) - 1 /\ Span(s, i + 1, i + 1, Field)
      BY <1>7 DEF Span
    <3>3. HeaderSpan(s, a, i + 1)
      BY <1>7, <2>3, <3>2 DEF HeaderSpan, c
    <3>4. QED
      BY <3>1, <3>3 DEF LineInv, LineSpan, q
  <2>4. QED
    BY <2>2, <2>3
<1>8. CASE At(f[i], "header_value") /\ Named(f[i]) /\ LineSpan(s, a, i, f[a])
  <2>1. f[i] \in Parser /\ q = consume(f[i], c) /\ c \in Char
    BY <1>3, <1>8 DEF At
  <2>2. CASE q.result = "false"
    BY <2>2 DEF LineInv, q
  <2>3. CASE c = "CR"
    <3>1. At(q, "expecting_newline_2") /\ Named(q)
      BY <1>8, <2>1, <2>3, ValueStep DEF Moves
    <3>2. QED
      BY <1>1, <1>8, <2>3, <3>1 DEF LineInv, c, q
  <2>4. CASE c \notin ctl
    <3>1. At(q, "header_value") /\ Named(q)
      BY <1>8, <2>1, <2>4, ValueStep DEF Moves
    <3>2. LineSpan(s, a, i + 1, f[a])
      BY <1>8, <2>1, <2>4, LineSpanMore DEF c, Field
    <3>3. QED
      BY <3>1, <3>2 DEF LineInv, q
  <2>5. QED
    BY <1>8, <2>1, <2>2, <2>3, <2>4, ValueStep
<1>9. CASE At(f[i], "header_lws") /\ Named(f[i]) /\ Named(f[a]) /\ i > a /\ Span(s, a, i, Blank)
  <2>1. f[i] \in Parser /\ q = consume(f[i], c) /\ c \in Char
    BY <1>3, <1>9 DEF At
  <2>2. FoldedSpan(s, a, i)
    <3>1. i \in a + 1 .. i /\ Span(s, i, i, Field)
      BY <1>9 DEF Span
    <3>2. QED
      BY <1>9, <3>1 DEF FoldedSpan
  <2>3. LineSpan(s, a, i, f[a])
    BY <1>9, <2>2 DEF LineSpan
  <2>4. CASE q.result = "false"
    BY <2>4 DEF LineInv, q
  <2>5. CASE c = "CR"
    <3>1. At(q, "expecting_newline_2") /\ Named(q)
      BY <1>9, <2>1, <2>5, LwsStep DEF Moves
    <3>2. QED
      BY <1>1, <2>3, <2>5, <3>1 DEF LineInv, c, q
  <2>6. CASE c \in {"SP", "HT"}
    <3>1. At(q, "header_lws") /\ Named(q)
      BY <1>9, <2>1, <2>6, LwsStep DEF Moves
    <3>2. Span(s, a, i + 1, Blank)
      BY <1>9, <2>6, SpanMore DEF c, Blank
    <3>3. QED
      BY <1>1, <1>9, <3>1, <3>2 DEF LineInv, q
  <2>7. CASE c \notin ctl /\ c # "SP"
    <3>1. At(q, "header_value") /\ Named(q)
      BY <1>9, <2>1, <2>7, LwsStep DEF Moves
    <3>2. LineSpan(s, a, i + 1, f[a])
      BY <2>1, <2>3, <2>7, LineSpanMore DEF c, Field
    <3>3. QED
      BY <3>1, <3>2 DEF LineInv, q
  <2>8. QED
    BY <1>9, <2>1, <2>4, <2>5, <2>6, <2>7, LwsStep
<1>10. CASE At(f[i], "expecting_newline_2") /\ Named(f[i]) /\ s[i] = "CR" /\ LineSpan(s, a, i - 1, f[a])
  <2>1. q.result = "false"
    BY <1>3, <1>10, ExpectStep DEF Awaits, At
  <2>2. QED
    BY <2>1 DEF LineInv, q
<1>11. QED
  BY <1>2, <1>4, <1>5, <1>6, <1>7, <1>8, <1>9, <1>10 DEF LineInv

LEMMA LineInvHolds ==
  ASSUME NEW s, NEW f, Run(f, s), NEW a \in Nat, At(f[a], "header_line_start"),
         NEW b \in a .. Len(s), \A j \in a + 1 .. b : s[j] # "LF"
  PROVE  LineInv(s, f, a, b)
<1> DEFINE T == {n \in 0 .. b - a : LineInv(s, f, a, a + n)}
<1>1. ASSUME NEW n \in 0 .. b - a - 1, n \in T PROVE n + 1 \in T
  <2>1. /\ a + n \in Nat /\ a <= a + n /\ (a + n) + 1 <= Len(s) /\ a + (n + 1) = (a + n) + 1
        /\ n + 1 \in 0 .. b - a /\ (a + n) + 1 \in a + 1 .. b
    BY RunStep
  <2>2. LineInv(s, f, a, a + n) /\ s[(a + n) + 1] # "LF"
    BY <1>1, <2>1
  <2>3. LineInv(s, f, a, (a + n) + 1)
    BY <2>1, <2>2, LineInvStep
  <2>4. QED
    BY <2>1, <2>3
<1>2. 0 \in T /\ b - a \in Int
  BY RunStep DEF LineInv
<1> HIDE DEF T
<1>3. \A n \in 0 .. b - a : n \in T
  BY <1>1, <1>2, Upwards
<1>4. b - a \in 0 .. b - a /\ a + (b - a) = b
  BY RunStep
<1>5. QED
  BY <1>3, <1>4 DEF T

(* What a parser that has not refused has read when a line ends.           *)
LEMMA LineRead ==
  ASSUME NEW s, NEW f, Run(f, s), NEW a \in Nat, At(f[a], "header_line_start"),
         NEW e \in a + 1 .. Len(s), \A j \in a + 1 .. e - 1 : s[j] # "LF", s[e] = "LF"
  PROVE  /\ f[e - 1].result # "true"
         /\ f[e].result = "true" => e = a + 2 /\ s[e - 1] = "CR"
         /\ f[e].result = "indeterminate" => s[e - 1] = "CR" /\ LineSpan(s, a, e - 2, f[a])
<1> DEFINE i == e - 1
           p == f[i]
           q == f[i + 1]
<1>1. i \in a .. Len(s) /\ i \in Nat /\ i + 1 = e /\ i \in 0 .. Len(s) - 1 /\ i - 1 = e - 2
  BY RunStep
<1>2. LineInv(s, f, a, i)
  BY <1>1, LineInvHolds
<1>3. ASSUME p.result = "indeterminate"
      PROVE  p \in Parser /\ q = consume(p, "LF") /\ "LF" \in Char
  BY <1>1, <1>3, RunMoves
<1>4. p.result = "false" => q.result = "false"
  BY <1>1, RunStep
<1>5. p.result # "true"
  BY <1>2 DEF LineInv, At
<1> HIDE DEF q, i
<1>6. "LF" \in ctl /\ "LF" \notin Token /\ "LF" # "CR"
  BY DEF ctl, Token, HexDigit, Digit, Word
<1>7. CASE p.result = "false"
  BY <1>1, <1>4, <1>5, <1>7 DEF q, i
<1>8. CASE At(p, "header_line_start")
  <2>1. q.result = "false"
    BY <1>3, <1>6, <1>8, LineStartStep DEF At
  <2>2. QED
    BY <1>1, <1>5, <2>1 DEF q, i
<1>9. CASE i = a + 1 /\ s[i] = "CR" /\ At(p, "expecting_newline_3")
  <2>1. q.result = "true"
    BY <1>3, <1>9, LastStep DEF At
  <2>2. QED
    BY <1>1, <1>5, <1>9, <2>1 DEF q, i
<1>10. CASE At(p, "header_name") /\ Named(p)
  <2>1. q.result = "false"
    BY <1>3, <1>6, <1>10, NameStep DEF At
  <2>2. QED
    BY <1>1, <1>5, <2>1 DEF q, i
<1>11. CASE At(p, "space_before_header_value")
  <2>1. q.result = "false"
    BY <1>3, <1>11, ExpectStep DEF At, Awaits
  <2>2. QED
    BY <1>1, <1>5, <2>1 DEF q, i
<1>12. CASE At(p, "header_value") \/ At(p, "header_lws")
  <2>1. q.result = "false"
    BY <1>3, <1>6, <1>12, ValueStep, LwsStep DEF At
  <2>2. QED
    BY <1>1, <1>5, <2>1 DEF q, i
<1>13. CASE At(p, "expecting_newline_2") /\ s[i] = "CR" /\ LineSpan(s, a, i - 1, f[a])
  <2>1. q.result = "indeterminate"
    BY <1>3, <1>13, ExpectStep DEF At, Awaits, Moves
  <2>2. QED
    BY <1>1, <1>5, <1>13, <2>1 DEF q, i
<1>14. QED
  BY <1>2, <1>7, <1>8, <1>9, <1>10, <1>11, <1>12, <1>13 DEF LineInv

(***************************************************************************)
(* The request line.  u is the uri: what is between its two spaces.        *)
(***************************************************************************)
LetterStates == <<"http_version_h", "http_version_t_1", "http_version_t_2", "http_version_p",
                  "http_version_slash", "http_version_major_start">>
Letters == <<"H", "T", "T", "P", "/">>
NoSpace == Field \ {"SP"}

(* What begins the line up to the first i: a method and u; the two spaces  *)
(* that end them, too; n letters behind these; the digits up to the dot;   *)
(* all of the line.                                                        *)
UriSpan(s, i, u) ==
  \E k \in 2 .. i :
    s[k] = "SP" /\ Span(s, 0, k - 1, Token) /\ Span(s, k, i, NoSpace) /\ u = SubSeq(s, k + 1, i)
TargetSpan(s, i, u) == i > 0 /\ s[i] = "SP" /\ UriSpan(s, i - 1, u)
LetterSpan(s, i, n, u) ==
  i - n \in Nat /\ TargetSpan(s, i - n, u) /\ \A j \in 1 .. n : s[i - n + j] = Letters[j]
MajorSpan(s, i, u) ==
  \E m \in 1 .. i - 1 : LetterSpan(s, m, 5, u) /\ Span(s, m, i, Digit)
FirstSpan(s, i, u) ==
  \E d \in 2 .. i - 1 : s[d] = "." /\ MajorSpan(s, d - 1, u) /\ Span(s, d, i, Digit)

(* In the request line: what the state says of it after the first i.       *)
FirstShape(s, p, i) ==
  \/ i = 0 /\ At(p, "method_start") /\ p.uri = <<>>
  \/ At(p, "method") /\ p.uri = <<>> /\ i > 0 /\ Span(s, 0, i, Token)
  \/ At(p, "uri") /\ UriSpan(s, i, p.uri)
  \/ \E n \in 0 .. 5 : At(p, LetterStates[n + 1]) /\ LetterSpan(s, i, n, p.uri)
  \/ At(p, "http_version_major") /\ MajorSpan(s, i, p.uri)
  \/ At(p, "http_version_minor_start") /\ s[i] = "." /\ MajorSpan(s, i - 1, p.uri)
  \/ At(p, "http_version_minor") /\ FirstSpan(s, i, p.uri)
  \/ At(p, "expecting_newline_1") /\ s[i] = "CR" /\ FirstSpan(s, i - 1, p.uri)

FirstInv(s, p, i) == p.result = "false" \/ (p.names = <<>> /\ FirstShape(s, p, i))

LEMMA SliceMore ==
  ASSUME NEW s \in Seq(Char), NEW k \in Nat, NEW i \in k .. Len(s) - 1
  PROVE  /\ SubSeq(s, i + 1, i) = <<>>
         /\ Append(SubSeq(s, k + 1, i), s[i + 1]) = SubSeq(s, k + 1, i + 1)
<1>1. SubSeq(s, i + 1, i) = <<>>
  BY SubSeqEmpty
<1> DEFINE t == SubSeq(s, k + 1, i)
           w == SubSeq(s, k + 1, i + 1)
<1>2. i \in Nat /\ Len(s) \in Nat /\ s[i + 1] \in Char
  OBVIOUS
<1>3. /\ t \in Seq(Char) /\ Len(t) = i - k
      /\ \A j \in 1 .. i - k : t[j] = s[k + j]
  <2>1. \A j \in k + 1 .. i : s[j] \in Char
    BY <1>2
  <2>2. /\ t \in Seq(Char) /\ Len(t) = IF k + 1 <= i THEN i - (k + 1) + 1 ELSE 0
        /\ \A j \in 1 .. i - (k + 1) + 1 : t[j] = s[(k + 1) + j - 1]
    BY <1>2, <2>1, SubSeqProperties
  <2>3. QED
    BY <1>2, <2>2
<1>4. /\ w \in Seq(Char) /\ Len(w) = i + 1 - k
      /\ \A j \in 1 .. i + 1 - k : w[j] = s[k + j]
  <2>1. \A j \in k + 1 .. i + 1 : s[j] \in Char
    BY <1>2
  <2>2. /\ w \in Seq(Char) /\ Len(w) = IF k + 1 <= i + 1 THEN (i + 1) - (k + 1) + 1 ELSE 0
        /\ \A j \in 1 .. (i + 1) - (k + 1) + 1 : w[j] = s[(k + 1) + j - 1]
    BY <1>2, <2>1, SubSeqProperties
  <2>3. QED
    BY <1>2, <2>2
<1> HIDE DEF t, w
<1>5. Append(t, s[i + 1]) \in Seq(Char) /\ Len(Append(t, s[i + 1])) = Len(w)
  BY <1>2, <1>3, <1>4
<1>6. ASSUME NEW j \in 1 .. Len(w) PROVE Append(t, s[i + 1])[j] = w[j]
  <2>1. CASE j = i + 1 - k
    <3>1. j = Len(t) + 1 /\ k + j = i + 1
      BY <1>2, <1>3, <2>1
    <3>2. QED
      BY <1>2, <1>3, <1>4, <3>1
  <2>2. CASE j # i + 1 - k
    <3>1. j \in 1 .. Len(t) /\ j \in 1 .. i - k
      BY <1>2, <1>3, <1>4, <2>2
    <3>2. Append(t, s[i + 1])[j] = t[j]
      BY <1>2, <1>3, <3>1
    <3>3. QED
      BY <1>2, <1>3, <1>4, <3>1, <3>2
  <2>3. QED
    BY <2>1, <2>2
<1>7. Append(t, s[i + 1]) = w
  BY <1>4, <1>5, <1>6, SeqEqual
<1>8. QED
  BY <1>1, <1>7 DEF t, w

(* A letter of HTTP/.                                                      *)
LEMMA LetterStep ==
  ASSUME NEW p \in Parser, p.result = "indeterminate", NEW c \in Char, NEW n \in 0 .. 4,
         p.state = LetterStates[n + 1]
  PROVE  Awaits(p, c, Letters[n + 1], LetterStates[n + 2])
<1>1. /\ LetterStates[1] = "http_version_h" /\ LetterStates[2] = "http_version_t_1"
      /\ LetterStates[3] = "http_version_t_2" /\ LetterStates[4] = "http_version_p"
      /\ LetterStates[5] = "http_version_slash" /\ LetterStates[6] = "http_version_major_start"
      /\ Letters[1] = "H" /\ Letters[2] = "T" /\ Letters[3] = "T" /\ Letters[4] = "P" /\ Letters[5] = "/"
  BY DEF LetterStates, Letters
<1>2. n \in {0, 1, 2, 3, 4}
  OBVIOUS
<1>3. CASE n = 0
  BY <1>1, <1>3, ExpectStep
<1>4. CASE n = 1
  BY <1>1, <1>4, ExpectStep
<1>5. CASE n = 2
  BY <1>1, <1>5, ExpectStep
<1>6. CASE n = 3
  BY <1>1, <1>6, ExpectStep
<1>7. CASE n = 4
  BY <1>1, <1>7, ExpectStep
<1>8. QED
  BY <1>2, <1>3, <1>4, <1>5, <1>6, <1>7

LEMMA FirstInvStep ==
  ASSUME NEW s \in Seq(Char), NEW p \in Parser, p.result = "indeterminate",
         NEW i \in 0 .. Len(s) - 1, s[i + 1] # "LF", FirstInv(s, p, i)
  PROVE  FirstInv(s, consume(p, s[i + 1]), i + 1)
<1> DEFINE c == s[i + 1]
           q == consume(p, c)
           u == p.uri
<1>1. /\ i \in Nat /\ Len(s) \in Nat /\ c \in Char /\ c # "LF" /\ i + 1 > 0 /\ (i + 1) - 1 = i
      /\ q \in Parser /\ s[i + 1] = c
  BY ConsumeType
<1>2. p.names = <<>> /\ FirstShape(s, p, i)
  BY DEF FirstInv
<1> HIDE DEF c, q
<1>3. SUFFICES ASSUME q.result # "false"
               PROVE  q.names = <<>> /\ FirstShape(s, q, i + 1)
  BY DEF FirstInv, c, q
<1>4. ASSUME p.state \in {"method_start", "method"}, u = <<>>, p.state = "method" => i > 0,
             Span(s, 0, i, Token)
      PROVE  q.names = <<>> /\ FirstShape(s, q, i + 1)
  <2>1. CASE c \in Token
    <3>1. At(q, "method") /\ q.uri = <<>> /\ q.names = <<>>
      BY <1>1, <1>2, <1>4, <2>1, MethodStep DEF Moves, q
    <3>2. Span(s, 0, i + 1, Token)
      BY <1>1, <1>4, <2>1, SpanMore
    <3>3. QED
      BY <1>1, <3>1, <3>2 DEF FirstShape
  <2>2. CASE p.state = "method" /\ c = "SP"
    <3>1. At(q, "uri") /\ q.uri = <<>> /\ q.names = <<>>
      BY <1>1, <1>2, <1>4, <2>2, MethodStep DEF Moves, q
    <3>2. i + 1 \in 2 .. i + 1 /\ Span(s, i + 1, i + 1, NoSpace)
      BY <1>1, <1>4, <2>2 DEF Span
    <3>3. SubSeq(s, (i + 1) + 1, i + 1) = <<>>
      BY <1>1, SubSeqEmpty
    <3>4. UriSpan(s, i + 1, <<>>)
      BY <1>1, <1>4, <2>2, <3>2, <3>3 DEF UriSpan
    <3>5. QED
      BY <3>1, <3>4 DEF FirstShape
  <2>3. QED
    BY <1>1, <1>3, <1>4, <2>1, <2>2, MethodStep DEF q
<1>5. CASE i = 0 /\ At(p, "method_start") /\ u = <<>>
  BY <1>4, <1>5 DEF At, Span
<1>6. CASE At(p, "method") /\ u = <<>> /\ i > 0 /\ Span(s, 0, i, Token)
  BY <1>4, <1>6 DEF At
<1>7. CASE At(p, "uri") /\ UriSpan(s, i, u)
  <2>1. CASE c = "SP"
    <3>1. At(q, "http_version_h") /\ q.uri = u /\ q.names = <<>>
      BY <1>1, <1>2, <1>7, <2>1, UriStep DEF Moves, q
    <3>2. TargetSpan(s, i + 1, u)
      BY <1>1, <1>7, <2>1 DEF TargetSpan
    <3>3. LetterSpan(s, i + 1, 0, u) /\ 0 \in 0 .. 5 /\ LetterStates[0 + 1] = "http_version_h"
      BY <1>1, <3>2 DEF LetterSpan, LetterStates
    <3>4. QED
      BY <3>1, <3>3 DEF FirstShape
  <2>2. CASE c \in NoSpace
    <3>1. At(q, "uri") /\ q.uri = Append(u, c) /\ q.names = <<>>
      BY <1>1, <1>2, <1>7, <2>2, UriStep DEF q, NoSpace
    <3>2. PICK k \in 2 .. i :
            s[k] = "SP" /\ Span(s, 0, k - 1, Token) /\ Span(s, k, i, NoSpace) /\ u = SubSeq(s, k + 1, i)
      BY <1>7 DEF UriSpan
    <3>3. k \in Nat /\ k \in 2 .. i + 1 /\ i \in k .. Len(s) - 1
      BY <1>1
    <3>4. Span(s, k, i + 1, NoSpace)
      BY <1>1, <2>2, <3>2, <3>3, SpanMore
    <3>5. q.uri = SubSeq(s, k + 1, i + 1)
      BY <3>1, <3>2, <3>3, SliceMore DEF c
    <3>6. UriSpan(s, i + 1, q.uri)
      BY <3>2, <3>3, <3>4, <3>5 DEF UriSpan
    <3>7. QED
      BY <3>1, <3>6 DEF FirstShape
  <2>3. c = "SP" \/ c \in NoSpace \/ q.result = "false"
    BY <1>1, <1>7, UriStep, Characters DEF q, NoSpace
  <2>4. QED
    BY <1>3, <2>1, <2>2, <2>3
<1>8. ASSUME NEW n \in 0 .. 5, At(p, LetterStates[n + 1]), LetterSpan(s, i, n, u)
      PROVE  q.names = <<>> /\ FirstShape(s, q, i + 1)
  <2>1. CASE n \in 0 .. 4
    <3>1. Awaits(p, c, Letters[n + 1], LetterStates[n + 2])
      BY <1>1, <1>8, <2>1, LetterStep DEF At
    <3>2. c = Letters[n + 1] /\ At(q, LetterStates[n + 2]) /\ q.uri = u /\ q.names = <<>>
      BY <1>2, <1>3, <3>1 DEF Awaits, Moves, q
    <3>3. n + 1 \in 0 .. 5 /\ (n + 1) + 1 = n + 2 /\ (i + 1) - (n + 1) = i - n
      BY <1>1, <2>1
    <3>4. ASSUME NEW j \in 1 .. n + 1 PROVE s[i - n + j] = Letters[j]
      <4>1. CASE j = n + 1
        <5>1. i - n + j = i + 1
          BY <1>1, <4>1
        <5>2. QED
          BY <1>1, <3>2, <4>1, <5>1
      <4>2. CASE j \in 1 .. n
        BY <1>8, <4>2 DEF LetterSpan
      <4>3. QED
        BY <4>1, <4>2
    <3>5. LetterSpan(s, i + 1, n + 1, u)
      BY <1>8, <3>3, <3>4 DEF LetterSpan
    <3>6. QED
      BY <3>2, <3>3, <3>5 DEF FirstShape
  <2>2. CASE n = 5
    <3>1. p.state = "http_version_major_start"
      BY <1>8, <2>2 DEF At, LetterStates
    <3>2. c \in Digit /\ At(q, "http_version_major") /\ q.uri = u /\ q.names = <<>>
      BY <1>1, <1>2, <1>3, <3>1, VersionStep DEF Moves, q
    <3>3. i \in Nat /\ i >= 5 /\ i > 0
      BY <1>1, <1>8, <2>2 DEF LetterSpan
    <3>4. i \in 1 .. (i + 1) - 1 /\ Span(s, i, i + 1, Digit)
      BY <1>1, <3>2, <3>3 DEF Span
    <3>5. MajorSpan(s, i + 1, u)
      BY <1>8, <2>2, <3>4 DEF MajorSpan
    <3>6. QED
      BY <3>2, <3>5 DEF FirstShape
  <2>3. QED
    BY <2>1, <2>2
<1>9. CASE At(p, "http_version_major") /\ MajorSpan(s, i, u)
  <2>1. CASE c \in Digit
    <3>1. At(q, "http_version_major") /\ q.uri = u /\ q.names = <<>>
      BY <1>1, <1>2, <1>9, <2>1, VersionStep DEF Moves, q, At
    <3>2. PICK m \in 1 .. i - 1 : LetterSpan(s, m, 5, u) /\ Span(s, m, i, Digit)
      BY <1>9 DEF MajorSpan
    <3>3. m \in Nat /\ m \in 1 .. (i + 1) - 1
      BY <1>1
    <3>4. Span(s, m, i + 1, Digit)
      BY <1>1, <2>1, <3>2, <3>3, SpanMore
    <3>5. MajorSpan(s, i + 1, u)
      BY <3>2, <3>3, <3>4 DEF MajorSpan
    <3>6. QED
      BY <3>1, <3>5 DEF FirstShape
  <2>2. CASE c = "."
    <3>1. At(q, "http_version_minor_start") /\ q.uri = u /\ q.names = <<>>
      BY <1>1, <1>2, <1>9, <2>2, VersionStep DEF Moves, q, At
    <3>2. QED
      BY <1>1, <1>9, <2>2, <3>1 DEF FirstShape
  <2>3. c \in Digit \/ c = "."
    BY <1>1, <1>3, <1>9, VersionStep DEF q, At
  <2>4. QED
    BY <2>1, <2>2, <2>3
<1>10. CASE At(p, "http_version_minor_start") /\ s[i] = "." /\ MajorSpan(s, i - 1, u)
  <2>1. c \in Digit /\ At(q, "http_version_minor") /\ q.uri = u /\ q.names = <<>>
    BY <1>1, <1>2, <1>3, <1>10, VersionStep DEF Moves, q, At
  <2>2. i \in 2 .. (i + 1) - 1 /\ Span(s, i, i + 1, Digit)
    <3>1. i - 1 - 1 >= 1
      BY <1>1, <1>10 DEF MajorSpan
    <3>2. QED
      BY <1>1, <2>1, <3>1 DEF Span
  <2>3. FirstSpan(s, i + 1, u)
    BY <1>10, <2>2 DEF FirstSpan
  <2>4. QED
    BY <2>1, <2>3 DEF FirstShape
<1>11. CASE At(p, "http_version_minor") /\ FirstSpan(s, i, u)
  <2>1. CASE c \in Digit
    <3>1. At(q, "http_version_minor") /\ q.uri = u /\ q.names = <<>>
      BY <1>1, <1>2, <1>11, <2>1, VersionStep DEF Moves, q, At
    <3>2. PICK d \in 2 .. i - 1 : s[d] = "." /\ MajorSpan(s, d - 1, u) /\ Span(s, d, i, Digit)
      BY <1>11 DEF FirstSpan
    <3>3. d \in Nat /\ d \in 2 .. (i + 1) - 1
      BY <1>1
    <3>4. Span(s, d, i + 1, Digit)
      BY <1>1, <2>1, <3>2, <3>3, SpanMore
    <3>5. FirstSpan(s, i + 1, u)
      BY <3>2, <3>3, <3>4 DEF FirstSpan
    <3>6. QED
      BY <3>1, <3>5 DEF FirstShape
  <2>2. CASE c = "CR"
    <3>1. At(q, "expecting_newline_1") /\ q.uri = u /\ q.names = <<>>
      BY <1>1, <1>2, <1>11, <2>2, VersionStep DEF Moves, q, At
    <3>2. QED
      BY <1>1, <1>11, <2>2, <3>1 DEF FirstShape
  <2>3. c \in Digit \/ c = "CR"
    BY <1>1, <1>3, <1>11, VersionStep DEF q, At
  <2>4. QED
    BY <2>1, <2>2, <2>3
<1>12. CASE At(p, "expecting_newline_1")
  BY <1>1, <1>3, <1>12, ExpectStep DEF At, Awaits, q
<1>13. QED
  BY <1>2, <1>5, <1>6, <1>7, <1>8, <1>9, <1>10, <1>11, <1>12 DEF FirstShape

LEMMA FirstInvHolds ==
  ASSUME NEW s, NEW f, Run(f, s), NEW b \in 0 .. Len(s), \A j \in 1 .. b : s[j] # "LF"
  PROVE  FirstInv(s, f[b], b)
<1> DEFINE T == {n \in 0 .. b : FirstInv(s, f[n], n)}
<1>1. ASSUME NEW n \in 0 .. b - 1, n \in T PROVE n + 1 \in T
  <2>1. n \in 0 .. Len(s) - 1 /\ n + 1 \in 0 .. b /\ n + 1 \in 1 .. b /\ n \in 0 .. Len(s)
    BY RunStep
  <2>2. FirstInv(s, f[n], n) /\ s[n + 1] # "LF" /\ s \in Seq(Char) /\ f[n] \in Parser
    BY <1>1, <2>1, RunStep DEF Run
  <2>3. CASE f[n].result = "indeterminate"
    <3>1. f[n + 1] = consume(f[n], s[n + 1])
      BY <2>1, <2>3, RunStep
    <3>2. FirstInv(s, f[n + 1], n + 1)
      BY <2>1, <2>2, <2>3, <3>1, FirstInvStep
    <3>3. QED
      BY <2>1, <3>2
  <2>4. CASE f[n].result # "indeterminate"
    <3>1. f[n + 1] = f[n] /\ f[n].result = "false"
      BY <2>1, <2>2, <2>4, RunStep DEF FirstInv, FirstShape, At
    <3>2. QED
      BY <2>1, <3>1 DEF FirstInv
  <2>5. QED
    BY <2>3, <2>4
<1>2. 0 \in T
  <2>1. f[0] = NewParser
    BY RunStep
  <2>2. FirstInv(s, f[0], 0)
    BY <2>1 DEF FirstInv, FirstShape, NewParser, At
  <2>3. QED
    BY <2>2
<1>3. b \in Int /\ b \in 0 .. b
  BY RunStep
<1> HIDE DEF T
<1>4. \A n \in 0 .. b : n \in T
  BY <1>1, <1>2, <1>3, Upwards
<1>5. QED
  BY <1>3, <1>4 DEF T

(* What a parser that has not refused has read when the first line ends.   *)
LEMMA FirstRead ==
  ASSUME NEW s, NEW f, Run(f, s), NEW e \in 1 .. Len(s), \A j \in 1 .. e - 1 : s[j] # "LF", s[e] = "LF"
  PROVE  /\ f[e - 1].result # "true" /\ f[e].result # "true"
         /\ f[e].result = "indeterminate" =>
              /\ e > 2 /\ s[e - 1] = "CR" /\ FirstSpan(s, e - 2, f[e].uri)
              /\ At(f[e], "header_line_start") /\ ~Named(f[e])
<1> DEFINE i == e - 1
           p == f[i]
           q == f[i + 1]
<1>1. /\ i \in 0 .. Len(s) /\ i \in Nat /\ i + 1 = e /\ i \in 0 .. Len(s) - 1 /\ i - 1 = e - 2
      /\ p \in Parser /\ q \in Parser
  BY RunStep
<1>2. FirstInv(s, p, i)
  BY <1>1, FirstInvHolds
<1>3. ASSUME p.result = "indeterminate"
      PROVE  q = consume(p, "LF") /\ "LF" \in Char
  BY <1>1, <1>3, RunMoves
<1>4. p.result = "false" => q.result = "false"
  BY <1>1, RunStep
<1>5. p.result # "true"
  BY <1>2 DEF FirstInv, FirstShape, At
<1> HIDE DEF q, i
<1>6. /\ "LF" \in ctl /\ "LF" \notin Token /\ "LF" # "CR" /\ "LF" # "SP" /\ "LF" \notin Digit /\ "LF" # "."
      /\ \A n \in 0 .. 4 : Letters[n + 1] # "LF"
  <2>1. ASSUME NEW n \in 0 .. 4 PROVE Letters[n + 1] # "LF"
    <3>1. n + 1 \in {1, 2, 3, 4, 5}
      OBVIOUS
    <3>2. /\ Letters[1] = "H" /\ Letters[2] = "T" /\ Letters[3] = "T" /\ Letters[4] = "P"
          /\ Letters[5] = "/"
      BY DEF Letters
    <3>3. QED
      BY <3>1, <3>2
  <2>2. QED
    BY <2>1 DEF ctl, Token, HexDigit, Digit, Word
<1>7. CASE p.result = "false"
  BY <1>1, <1>4, <1>5, <1>7 DEF q, i
<1>8. CASE At(p, "method_start") \/ At(p, "method")
  <2>1. q.result = "false"
    BY <1>1, <1>3, <1>6, <1>8, MethodStep DEF At
  <2>2. QED
    BY <1>1, <1>5, <2>1 DEF q, i
<1>9. CASE At(p, "uri")
  <2>1. q.result = "false"
    BY <1>1, <1>3, <1>6, <1>9, UriStep DEF At
  <2>2. QED
    BY <1>1, <1>5, <2>1 DEF q, i
<1>10. ASSUME NEW n \in 0 .. 4, At(p, LetterStates[n + 1]) PROVE q.result = "false"
  <2>1. Letters[n + 1] # "LF" /\ p.state = LetterStates[n + 1]
    BY <1>6, <1>10 DEF At
  <2>2. Awaits(p, "LF", Letters[n + 1], LetterStates[n + 2])
    BY <1>1, <1>3, <1>10, <2>1, LetterStep DEF At
  <2>3. QED
    BY <1>3, <1>10, <2>1, <2>2 DEF At, Awaits
<1>11. ASSUME At(p, LetterStates[5 + 1]) PROVE q.result = "false"
  <2>1. At(p, "http_version_major_start")
    BY <1>11 DEF LetterStates
  <2>2. QED
    BY <1>1, <1>3, <1>6, <2>1, VersionStep DEF At
<1>12. ASSUME NEW n \in 0 .. 5, At(p, LetterStates[n + 1]) PROVE q.result = "false"
  <2>1. n \in 0 .. 4 \/ n = 5
    OBVIOUS
  <2>2. QED
    BY <1>10, <1>11, <1>12, <2>1
<1>13. CASE At(p, "http_version_major") \/ At(p, "http_version_minor_start") \/ At(p, "http_version_minor")
  <2>1. q.result = "false"
    BY <1>1, <1>3, <1>6, <1>13, VersionStep DEF At
  <2>2. QED
    BY <1>1, <1>5, <2>1 DEF q, i
<1>14. CASE p.names = <<>> /\ At(p, "expecting_newline_1") /\ s[i] = "CR" /\ FirstSpan(s, i - 1, p.uri)
  <2>1. At(q, "header_line_start") /\ q.uri = p.uri /\ ~Named(q)
    BY <1>1, <1>3, <1>14, ExpectStep DEF At, Awaits, Moves, Named
  <2>2. i - 1 > 2
    BY <1>1, <1>14 DEF FirstSpan, i
  <2>3. QED
    BY <1>1, <1>5, <1>14, <2>1, <2>2 DEF q, i, At
<1>15. QED
  <2>1. CASE \E n \in 0 .. 5 : At(p, LetterStates[n + 1])
    BY <1>1, <1>5, <1>12, <2>1 DEF q, i
  <2>2. QED
    BY <1>2, <1>7, <1>8, <1>9, <1>13, <1>14, <2>1 DEF FirstInv, FirstShape

Unnamed == {<<>>}

LEMMA FirstLoops ==
  /\ Loop({"method"}, Unnamed, Token)
  /\ Loop({"uri"}, Unnamed, NoSpace)
  /\ Loop({"http_version_major"}, Unnamed, Digit)
  /\ Loop({"http_version_minor"}, Unnamed, Digit)
<1>1. ASSUME NEW p \in Parser, NEW c \in Token, In(p, {"method"}, Unnamed)
      PROVE  In(consume(p, c), {"method"}, Unnamed)
  <2>1. c \in Char
    BY Characters
  <2>2. QED
    BY <1>1, <2>1, MethodStep DEF In, Unnamed, Moves, At
<1>2. ASSUME NEW p \in Parser, NEW c \in NoSpace, In(p, {"uri"}, Unnamed)
      PROVE  In(consume(p, c), {"uri"}, Unnamed)
  <2>1. c \in Char
    BY Characters DEF NoSpace
  <2>2. QED
    BY <1>2, <2>1, UriStep DEF In, Unnamed, At, NoSpace
<1>3. ASSUME NEW p \in Parser, NEW c \in Digit
      PROVE  /\ In(p, {"http_version_major"}, Unnamed) => In(consume(p, c), {"http_version_major"}, Unnamed)
             /\ In(p, {"http_version_minor"}, Unnamed) => In(consume(p, c), {"http_version_minor"}, Unnamed)
  <2>1. c \in Char
    BY Characters
  <2>2. QED
    BY <2>1, VersionStep DEF In, Unnamed, Moves, At
<1>4. QED
  BY <1>1, <1>2, <1>3 DEF Loop

LEMMA FirstTaken ==
  ASSUME NEW s, NEW f, Run(f, s), NEW b \in Nat, b + 2 <= Len(s), s[b + 1] = "CR", s[b + 2] = "LF",
         NEW u, FirstSpan(s, b, u)
  PROVE  At(f[b + 2], "header_line_start") /\ ~Named(f[b + 2])
<1>1. PICK d \in 2 .. b - 1 : s[d] = "." /\ MajorSpan(s, d - 1, u) /\ Span(s, d, b, Digit)
  BY DEF FirstSpan
<1>2. PICK m \in 1 .. (d - 1) - 1 : LetterSpan(s, m, 5, u) /\ Span(s, m, d - 1, Digit)
  BY <1>1 DEF MajorSpan
<1>3. /\ m - 5 \in Nat /\ m - 5 > 0 /\ s[m - 5] = "SP" /\ UriSpan(s, (m - 5) - 1, u)
      /\ \A j \in 1 .. 5 : s[m - 5 + j] = Letters[j]
  BY <1>2 DEF LetterSpan, TargetSpan
<1> DEFINE x == (m - 5) - 1
<1>4. PICK k \in 2 .. x : s[k] = "SP" /\ Span(s, 0, k - 1, Token) /\ Span(s, k, x, NoSpace)
  BY <1>3 DEF UriSpan
<1>5. Len(s) \in Nat /\ s \in Seq(Char)
  BY RunStep DEF Run
<1>6. /\ x \in Nat /\ k \in Nat /\ k - 1 \in Nat /\ m \in Nat /\ d \in Nat
      /\ 2 <= k /\ k <= x /\ x + 6 = m /\ m <= d - 2 /\ d <= b - 1 /\ b <= Len(s) - 2
  BY <1>3, <1>4, <1>5
<1> HIDE DEF x
<1>7. In(f[1], {"method"}, Unnamed)
  <2>1. f[0] = NewParser /\ f[0] \in Parser /\ f[0].result = "indeterminate"
    BY <1>5, RunStep DEF NewParser
  <2>2. s[1] \in Token /\ s[1] \in Char
    <3>1. 1 \in 0 + 1 .. k - 1 /\ 1 \in 1 .. Len(s)
      BY <1>5, <1>6
    <3>2. QED
      BY <1>4, <1>5, <3>1 DEF Span
  <2>3. f[0 + 1] = consume(f[0], s[0 + 1])
    BY <1>5, <1>6, <2>1, RunStep
  <2>4. f[1] = consume(f[0], s[1])
    BY <2>3
  <2>5. Moves(f[0], f[1], "method") /\ f[1].names = f[0].names
    BY <2>1, <2>2, <2>4, MethodStep DEF NewParser
  <2>6. QED
    BY <2>1, <2>5 DEF Moves, At, In, Unnamed, NewParser
<1>8. In(f[k - 1], {"method"}, Unnamed)
  <2>1. Span(s, 1, k - 1, Token) /\ 1 \in 0 .. Len(s) /\ k - 1 \in 1 .. Len(s)
    BY <1>4, <1>5, <1>6 DEF Span
  <2>2. QED
    BY <1>7, <2>1, Loops, FirstLoops
<1>9. In(f[k], {"uri"}, Unnamed)
  <2>1. (k - 1) + 1 = k /\ (k - 1) + 1 <= Len(s)
    BY <1>5, <1>6
  <2>2. f[k - 1] \in Parser /\ f[k] = consume(f[k - 1], "SP") /\ "SP" \in Char
    BY <1>4, <1>6, <1>8, <2>1, RunMoves DEF In
  <2>3. QED
    BY <1>8, <2>2, MethodStep DEF In, Moves, At, Unnamed
<1>10. In(f[x], {"uri"}, Unnamed)
  <2>1. k \in 0 .. Len(s) /\ x \in k .. Len(s)
    BY <1>5, <1>6
  <2>2. QED
    BY <1>4, <1>9, <2>1, Loops, FirstLoops
<1>11. In(f[x + 1], {LetterStates[1]}, Unnamed)
  <2>1. s[x + 1] = "SP" /\ x + 1 <= Len(s)
    <3>1. x + 1 = m - 5 /\ x + 1 <= Len(s)
      BY <1>5, <1>6
    <3>2. QED
      BY <1>3, <3>1
  <2>2. f[x] \in Parser /\ f[x + 1] = consume(f[x], "SP") /\ "SP" \in Char
    BY <1>6, <1>10, <2>1, RunMoves DEF In
  <2>3. QED
    BY <1>10, <2>2, UriStep DEF In, Moves, At, Unnamed, LetterStates
<1>12. In(f[m], {LetterStates[6]}, Unnamed)
  <2> DEFINE T == {n \in 0 .. 5 : In(f[x + 1 + n], {LetterStates[n + 1]}, Unnamed)}
  <2>1. ASSUME NEW n \in 0 .. 5 - 1, n \in T PROVE n + 1 \in T
    <3>1. /\ n \in 0 .. 4 /\ n + 1 \in 0 .. 5 /\ n + 1 \in 1 .. 5 /\ x + 1 + n \in Nat /\ (x + 1 + n) + 1 <= Len(s)
          /\ (x + 1 + n) + 1 = m - 5 + (n + 1) /\ (x + 1 + n) + 1 = x + 1 + (n + 1) /\ (n + 1) + 1 = n + 2
      BY <1>5, <1>6
    <3>2. s[(x + 1 + n) + 1] = Letters[n + 1]
      BY <1>3, <3>1
    <3>3. In(f[x + 1 + n], {LetterStates[n + 1]}, Unnamed)
      BY <2>1
    <3>4. /\ f[x + 1 + n] \in Parser /\ f[(x + 1 + n) + 1] = consume(f[x + 1 + n], Letters[n + 1])
          /\ Letters[n + 1] \in Char
      BY <3>1, <3>2, <3>3, RunMoves DEF In
    <3>5. Awaits(f[x + 1 + n], Letters[n + 1], Letters[n + 1], LetterStates[n + 2])
      BY <3>1, <3>3, <3>4, LetterStep DEF In
    <3>6. In(f[(x + 1 + n) + 1], {LetterStates[n + 2]}, Unnamed)
      BY <3>3, <3>4, <3>5 DEF Awaits, Moves, At, In, Unnamed
    <3>7. QED
      BY <3>1, <3>6
  <2>2. 0 \in T
    BY <1>6, <1>11
  <2> HIDE DEF T
  <2>3. \A n \in 0 .. 5 : n \in T
    BY <2>1, <2>2, Upwards
  <2>4. 5 \in T /\ x + 1 + 5 = m
    BY <1>6, <2>3
  <2>5. QED
    BY <2>4 DEF T
<1>13. In(f[m + 1], {"http_version_major"}, Unnamed)
  <2>1. m + 1 \in m + 1 .. d - 1 /\ m + 1 <= Len(s)
    BY <1>5, <1>6
  <2>2. s[m + 1] \in Digit
    BY <1>2, <2>1 DEF Span
  <2>3. f[m] \in Parser /\ f[m + 1] = consume(f[m], s[m + 1]) /\ s[m + 1] \in Char
    BY <1>6, <1>12, <2>1, RunMoves DEF In
  <2>4. f[m].state = "http_version_major_start"
    BY <1>12 DEF In, LetterStates
  <2>5. QED
    BY <1>12, <2>2, <2>3, <2>4, VersionStep DEF In, Moves, At, Unnamed
<1>14. In(f[d - 1], {"http_version_major"}, Unnamed)
  <2>1. Span(s, m + 1, d - 1, Digit) /\ m + 1 \in 0 .. Len(s) /\ d - 1 \in m + 1 .. Len(s)
    BY <1>2, <1>5, <1>6 DEF Span
  <2>2. QED
    BY <1>13, <2>1, Loops, FirstLoops
<1>15. In(f[d], {"http_version_minor_start"}, Unnamed)
  <2>1. d - 1 \in Nat /\ (d - 1) + 1 = d /\ (d - 1) + 1 <= Len(s)
    BY <1>5, <1>6
  <2>2. f[d - 1] \in Parser /\ f[d] = consume(f[d - 1], ".") /\ "." \in Char
    BY <1>1, <1>14, <2>1, RunMoves DEF In
  <2>3. QED
    BY <1>14, <2>2, VersionStep DEF In, Moves, At, Unnamed
<1>16. In(f[d + 1], {"http_version_minor"}, Unnamed)
  <2>1. d + 1 \in d + 1 .. b /\ d + 1 <= Len(s)
    BY <1>5, <1>6
  <2>2. s[d + 1] \in Digit
    BY <1>1, <2>1 DEF Span
  <2>3. f[d] \in Parser /\ f[d + 1] = consume(f[d], s[d + 1]) /\ s[d + 1] \in Char
    BY <1>6, <1>15, <2>1, RunMoves DEF In
  <2>4. QED
    BY <1>15, <2>2, <2>3, VersionStep DEF In, Moves, At, Unnamed
<1>17. In(f[b], {"http_version_minor"}, Unnamed)
  <2>1. Span(s, d + 1, b, Digit) /\ d + 1 \in 0 .. Len(s) /\ b \in d + 1 .. Len(s)
    BY <1>1, <1>5, <1>6 DEF Span
  <2>2. QED
    BY <1>16, <2>1, Loops, FirstLoops
<1>18. In(f[b + 1], {"expecting_newline_1"}, Unnamed)
  <2>1. f[b] \in Parser /\ f[b + 1] = consume(f[b], "CR") /\ "CR" \in Char
    BY <1>5, <1>6, <1>17, RunMoves DEF In
  <2>2. QED
    BY <1>17, <2>1, VersionStep DEF In, Moves, At, Unnamed
<1>19. f[b + 1] \in Parser /\ f[b + 2] = consume(f[b + 1], "LF") /\ "LF" \in Char
  <2>1. b + 1 \in Nat /\ (b + 1) + 1 = b + 2 /\ f[b + 1].result = "indeterminate"
    BY <1>18 DEF In
  <2>2. QED
    BY <2>1, RunMoves
<1>20. QED
  BY <1>18, <1>19, ExpectStep DEF In, Awaits, Moves, At, Unnamed, Named

(***************************************************************************)
(* The lines of a request, by the newlines that end them.                  *)
(***************************************************************************)
(* The newline before e, or 0.                                             *)
Before(s, e) == Max({0} \cup {i \in 1 .. e - 1 : s[i] = "LF"})

LEMMA BeforeProperties ==
  ASSUME NEW s, NEW e \in Nat \ {0}
  PROVE  /\ Before(s, e) \in 0 .. e - 1
         /\ Before(s, e) # 0 => s[Before(s, e)] = "LF"
         /\ \A j \in Before(s, e) + 1 .. e - 1 : s[j] # "LF"
         /\ \A j \in 1 .. e - 1 : s[j] = "LF" => j <= Before(s, e)
<1> DEFINE T == {0} \cup {i \in 1 .. e - 1 : s[i] = "LF"}
<1>1. T \in SUBSET (0 .. e - 1) /\ T # {} /\ e - 1 \in Nat
  OBVIOUS
<1>2. \A j \in 1 .. e - 1 : s[j] = "LF" => j \in T
  OBVIOUS
<1>3. \A j \in T : j # 0 => s[j] = "LF"
  OBVIOUS
<1> HIDE DEF T
<1>4. Max(T) \in T /\ \A y \in T : y <= Max(T)
  BY <1>1, MaxIsGreatest
<1>5. Before(s, e) = Max(T)
  BY DEF Before, T
<1>6. Before(s, e) \in 0 .. e - 1 /\ \A j \in 1 .. e - 1 : s[j] = "LF" => j <= Before(s, e)
  BY <1>1, <1>2, <1>4, <1>5
<1>7. ASSUME NEW j \in Before(s, e) + 1 .. e - 1, s[j] = "LF" PROVE FALSE
  <2>1. j \in 1 .. e - 1 /\ ~(j <= Before(s, e))
    BY <1>6
  <2>2. QED
    BY <1>6, <1>7, <2>1
<1>8. QED
  BY <1>3, <1>4, <1>5, <1>6, <1>7

(* The line that ends at e is as it should be.                             *)
LineOK(s, e) ==
  /\ s[e - 1] = "CR"
  /\ IF Before(s, e) = 0 THEN \E u : FirstSpan(s, e - 2, u)
     ELSE \/ HeaderSpan(s, Before(s, e), e - 2)
          \/ Before(s, Before(s, e)) # 0 /\ FoldedSpan(s, Before(s, e), e - 2)
LinesOK(s, n) == \A e \in 1 .. n : s[e] = "LF" => LineOK(s, e)

(* The newline at n ends a request.                                        *)
Complete(s, n) ==
  /\ n > 2 /\ s[n] = "LF" /\ s[n - 1] = "CR" /\ s[n - 2] = "LF" /\ LinesOK(s, n - 2)

(* Where a line begins, a parser has not refused if the lines before it    *)
(* are as they should be.                                                  *)
Stands(s, f, n) ==
  /\ f[n].result = "indeterminate" <=> LinesOK(s, n)
  /\ f[n].result = "indeterminate" =>
       At(f[n], "header_line_start") /\ (Named(f[n]) <=> Before(s, n) # 0)

LEMMA StandsFirst ==
  ASSUME NEW s, NEW f, Run(f, s), NEW n \in 1 .. Len(s), s[n] = "LF", Before(s, n) = 0
  PROVE  Stands(s, f, n)
<1>1. Len(s) \in Nat /\ n \in Nat \ {0}
  BY RunStep
<1>2. \A j \in 1 .. n - 1 : s[j] # "LF"
  BY <1>1, BeforeProperties
<1>3. /\ f[n].result # "true"
      /\ f[n].result = "indeterminate" =>
           /\ n > 2 /\ s[n - 1] = "CR" /\ FirstSpan(s, n - 2, f[n].uri)
           /\ At(f[n], "header_line_start") /\ ~Named(f[n])
  BY <1>2, FirstRead
<1>4. LinesOK(s, n) <=> LineOK(s, n)
  <2>1. \A e \in 1 .. n : s[e] = "LF" => e = n
    BY <1>1, <1>2
  <2>2. n \in 1 .. n
    BY <1>1
  <2>3. QED
    BY <2>1, <2>2 DEF LinesOK
<1>5. f[n].result = "indeterminate" => LineOK(s, n)
  BY <1>3 DEF LineOK
<1>6. ASSUME LineOK(s, n) PROVE f[n].result = "indeterminate"
  <2>1. PICK u : FirstSpan(s, n - 2, u)
    BY <1>6 DEF LineOK
  <2>2. n - 2 > 2
    BY <1>1, <2>1 DEF FirstSpan
  <2>3. n - 2 \in Nat /\ (n - 2) + 2 = n /\ (n - 2) + 1 = n - 1
    BY <1>1, <2>2
  <2>4. At(f[(n - 2) + 2], "header_line_start")
    BY <1>1, <1>6, <2>1, <2>3, FirstTaken DEF LineOK
  <2>5. QED
    BY <2>3, <2>4 DEF At
<1>7. QED
  BY <1>3, <1>4, <1>5, <1>6 DEF Stands

LEMMA StandsNext ==
  ASSUME NEW s, NEW f, Run(f, s), NEW n \in 1 .. Len(s), s[n] = "LF", Before(s, n) # 0,
         Stands(s, f, Before(s, n))
  PROVE  Stands(s, f, n) /\ (f[n].result = "indeterminate" => f[Before(s, n)].result = "indeterminate")
<1> DEFINE a == Before(s, n)
<1>1. Len(s) \in Nat /\ n \in Nat \ {0}
  BY RunStep
<1>2. a \in 1 .. n - 1 /\ s[a] = "LF" /\ \A j \in a + 1 .. n - 1 : s[j] # "LF"
  BY <1>1, BeforeProperties
<1>3. a \in Nat /\ n \in a + 1 .. Len(s) /\ a \in 0 .. Len(s) /\ n \in a .. Len(s)
  BY <1>1, <1>2
<1>4. /\ f[a].result = "indeterminate" <=> LinesOK(s, a)
      /\ f[a].result = "indeterminate" =>
           At(f[a], "header_line_start") /\ (Named(f[a]) <=> Before(s, a) # 0)
  BY DEF Stands
<1>5. LineOK(s, n) <=>
        /\ s[n - 1] = "CR"
        /\ HeaderSpan(s, a, n - 2) \/ (Before(s, a) # 0 /\ FoldedSpan(s, a, n - 2))
  BY DEF LineOK
<1> HIDE DEF a
<1>6. LinesOK(s, n) <=> LinesOK(s, a) /\ LineOK(s, n)
  <2>1. \A e \in 1 .. n : s[e] = "LF" => e \in 1 .. a \/ e = n
    BY <1>1, <1>2, <1>3
  <2>2. n \in 1 .. n /\ \A e \in 1 .. a : e \in 1 .. n
    BY <1>1, <1>2
  <2>3. QED
    BY <2>1, <2>2 DEF LinesOK
<1>7. ASSUME f[n].result = "indeterminate"
      PROVE  f[a].result = "indeterminate" /\ LinesOK(s, n)
  <2>1. f[a].result = "indeterminate"
    BY <1>3, <1>7, Decided
  <2>2. s[n - 1] = "CR" /\ LineSpan(s, a, n - 2, f[a])
    BY <1>2, <1>3, <1>4, <1>7, <2>1, LineRead
  <2>3. QED
    BY <1>4, <1>5, <1>6, <2>1, <2>2 DEF LineSpan
<1>8. ASSUME LinesOK(s, n)
      PROVE  At(f[n], "header_line_start") /\ Named(f[n])
  <2>1. LinesOK(s, a) /\ LineOK(s, n) /\ At(f[a], "header_line_start") /\ (Named(f[a]) <=> Before(s, a) # 0)
    BY <1>4, <1>6, <1>8
  <2>2. n - 2 > a
    BY <1>1, <1>3, <1>5, <2>1 DEF HeaderSpan, FoldedSpan
  <2>3. n - 2 \in Nat /\ (n - 2) + 2 = n /\ (n - 2) + 1 = n - 1 /\ n <= Len(s)
    BY <1>1, <1>3, <2>2
  <2>4. At(f[(n - 2) + 2], "header_line_start") /\ Named(f[(n - 2) + 2])
    BY <1>3, <1>5, <2>1, <2>3, HeaderTaken, FoldedTaken
  <2>5. QED
    BY <2>3, <2>4
<1>9. QED
  BY <1>7, <1>8 DEF Stands, At, a

LEMMA StandsHolds ==
  ASSUME NEW s, NEW f, Run(f, s), NEW n \in 1 .. Len(s), s[n] = "LF"
  PROVE  Stands(s, f, n)
<1> DEFINE T == {k \in Nat : k \in 1 .. Len(s) /\ s[k] = "LF" => Stands(s, f, k)}
<1>1. ASSUME NEW k \in Nat, \A m \in 0 .. k - 1 : m \in T PROVE k \in T
  <2> SUFFICES ASSUME k \in 1 .. Len(s), s[k] = "LF" PROVE Stands(s, f, k)
    OBVIOUS
  <2>1. CASE Before(s, k) = 0
    BY <2>1, StandsFirst
  <2>2. CASE Before(s, k) # 0
    <3>1. Before(s, k) \in 0 .. k - 1 /\ Before(s, k) \in 1 .. Len(s) /\ s[Before(s, k)] = "LF"
      BY <2>2, RunStep, BeforeProperties
    <3>2. Stands(s, f, Before(s, k))
      <4>1. Before(s, k) \in T
        BY <1>1, <3>1
      <4>2. QED
        BY <3>1, <4>1
    <3>3. QED
      BY <2>2, <3>2, StandsNext
  <2>3. QED
    BY <2>1, <2>2
<1> HIDE DEF T
<1>2. \A k \in Nat : k \in T
  BY <1>1, Strongly
<1>3. n \in Nat
  BY RunStep
<1>4. QED
  BY <1>2, <1>3 DEF T

(* A parser has said "complete" when the bytes so far begin with a request,*)
(* and not before.                                                         *)
LEMMA CompleteRead ==
  ASSUME NEW s, NEW f, Run(f, s), NEW n \in 1 .. Len(s)
  PROVE  Complete(s, n) <=> f[n].result = "true" /\ f[n - 1].result # "true"
<1>1. Len(s) \in Nat /\ n \in Nat \ {0} /\ n - 1 \in 0 .. Len(s) - 1 /\ (n - 1) + 1 = n /\ n - 1 \in 0 .. Len(s)
      /\ n \in n - 1 .. Len(s)
  BY RunStep
<1>2. ASSUME Complete(s, n) PROVE f[n].result = "true" /\ f[n - 1].result # "true"
  <2> DEFINE a == n - 2
  <2>1. a \in 1 .. Len(s) /\ a \in Nat /\ a + 2 = n /\ a + 1 = n - 1 /\ a + 2 <= Len(s)
        /\ s[a] = "LF" /\ s[a + 1] = "CR" /\ s[a + 2] = "LF" /\ LinesOK(s, a)
    BY <1>1, <1>2 DEF Complete
  <2> HIDE DEF a
  <2>2. At(f[a], "header_line_start")
    BY <2>1, StandsHolds DEF Stands
  <2>3. f[a + 1].result = "indeterminate" /\ f[a + 2].result = "true"
    BY <2>1, <2>2, EndTaken
  <2>4. QED
    BY <2>1, <2>3
<1>3. ASSUME f[n].result = "true", f[n - 1].result # "true" PROVE Complete(s, n)
  <2> DEFINE a == Before(s, n)
  <2>1. /\ a \in 0 .. n - 1 /\ (a # 0 => s[a] = "LF") /\ \A j \in a + 1 .. n - 1 : s[j] # "LF"
    BY <1>1, BeforeProperties
  <2>2. a \in Nat /\ a \in 0 .. Len(s) /\ n - 1 \in a .. Len(s) /\ n \in a .. Len(s) /\ n \in a + 1 .. Len(s)
    BY <1>1, <2>1
  <2>3. f[n - 1].result = "indeterminate" /\ f[a].result = "indeterminate"
    <3>1. f[n - 1].result = "indeterminate"
      BY <1>1, <1>3, Decided
    <3>2. QED
      BY <2>2, <3>1, Decided
  <2>4. a # 0
    <3> SUFFICES ASSUME a = 0 PROVE FALSE
      OBVIOUS
    <3>1. \A j \in 1 .. n - 1 : s[j] # "LF"
      BY <2>1
    <3>2. CASE s[n] = "LF"
      BY <1>3, <3>1, <3>2, FirstRead
    <3>3. CASE s[n] # "LF"
      <4>1. \A j \in 1 .. n : s[j] # "LF"
        BY <1>1, <3>1, <3>3
      <4>2. FirstInv(s, f[n], n)
        BY <2>2, <4>1, FirstInvHolds
      <4>3. QED
        BY <1>3, <4>2 DEF FirstInv, FirstShape, At
    <3>4. QED
      BY <3>2, <3>3
  <2>5. At(f[a], "header_line_start") /\ LinesOK(s, a)
    <3>1. a \in 1 .. Len(s) /\ s[a] = "LF"
      BY <2>1, <2>2, <2>4
    <3>2. QED
      BY <2>3, <3>1, StandsHolds DEF Stands
  <2>6. s[n] = "LF"
    <3> SUFFICES ASSUME s[n] # "LF" PROVE FALSE
      OBVIOUS
    <3>1. \A j \in a + 1 .. n : s[j] # "LF"
      BY <1>1, <2>1, <2>2
    <3> HIDE DEF a
    <3>2. LineInv(s, f, a, n)
      BY <2>2, <2>5, <3>1, LineInvHolds
    <3>3. QED
      BY <1>3, <2>3, <3>2 DEF LineInv, At
  <2> HIDE DEF a
  <2>7. n = a + 2 /\ s[n - 1] = "CR"
    BY <1>3, <2>1, <2>2, <2>5, <2>6, LineRead
  <2>8. a = n - 2 /\ n > 2
    BY <1>1, <2>2, <2>4, <2>7
  <2>9. QED
    BY <2>1, <2>4, <2>5, <2>6, <2>7, <2>8 DEF Complete
<1>4. QED
  BY <1>2, <1>3

LEMMA Verdicts ==
  ASSUME NEW s, NEW f, Run(f, s), NEW r \in 0 .. Len(s)
  PROVE  /\ f[r].result = "true" <=> \E n \in 1 .. r : Complete(s, n)
         /\ f[r].result = "false" => ~\E n \in 1 .. Len(s) : Complete(s, n)
<1>1. Len(s) \in Nat /\ r \in Nat
  BY RunStep
<1>2. ASSUME NEW n \in 1 .. Len(s), Complete(s, n), f[r].result = "false" PROVE FALSE
  <2>1. f[n].result = "true" /\ n \in 0 .. Len(s)
    BY <1>1, <1>2, CompleteRead
  <2>2. CASE n <= r
    <3>1. r \in n .. Len(s)
      BY <1>1, <2>2
    <3>2. f[r] = f[n]
      BY <2>1, <3>1, Decided
    <3>3. QED
      BY <1>2, <2>1, <3>2
  <2>3. CASE n > r
    <3>1. n \in r .. Len(s)
      BY <1>1, <2>3
    <3>2. f[n] = f[r]
      BY <1>2, <3>1, Decided
    <3>3. QED
      BY <1>2, <2>1, <3>2
  <2>4. QED
    BY <1>1, <2>2, <2>3
<1>3. ASSUME NEW n \in 1 .. r, Complete(s, n) PROVE f[r].result = "true"
  <2>1. n \in 1 .. Len(s) /\ n \in 0 .. Len(s) /\ r \in n .. Len(s)
    BY <1>1
  <2>2. f[n].result = "true"
    BY <1>3, <2>1, CompleteRead
  <2>3. QED
    BY <2>1, <2>2, Decided
<1>4. ASSUME f[r].result = "true" PROVE \E n \in 1 .. r : Complete(s, n)
  <2> DEFINE T == {n \in 0 .. r : f[n].result = "true"}
  <2>1. T \in SUBSET Nat /\ T # {}
    BY <1>1, <1>4
  <2>2. PICK n \in T : \A m \in T : n <= m
    BY <2>1, LeastElement
  <2>3. f[n].result = "true" /\ n \in 0 .. r
    OBVIOUS
  <2>4. n # 0
    BY <2>3, RunStep DEF NewParser
  <2>5. n \in 1 .. r /\ n \in 1 .. Len(s) /\ n - 1 \in 0 .. r /\ ~(n <= n - 1)
    BY <1>1, <2>3, <2>4
  <2>6. f[n - 1].result # "true"
    BY <2>2, <2>5
  <2>7. QED
    BY <2>3, <2>5, <2>6, CompleteRead
<1>5. QED
  BY <1>2, <1>3, <1>4

(***************************************************************************)
(* The grammar says the same of a line that the spans say.  l is a view of *)
(* the n characters of s behind the first a.                               *)
(***************************************************************************)
View(l, s, a, n) ==
  l \in Seq(Char) /\ Len(l) = n /\ n \in Nat /\ a \in Nat /\ \A i \in 1 .. n : l[i] = s[a + i]

LEMMA SliceView ==
  ASSUME NEW s \in Seq(Char), NEW a \in Nat, NEW b \in a .. Len(s)
  PROVE  View(Slice(s, a + 1, b), s, a, b - a)
<1> DEFINE t == SubSeq(s, a + 1, b)
<1>1. Len(s) \in Nat /\ b \in Nat
  OBVIOUS
<1>2. \A j \in a + 1 .. b : s[j] \in Char
  BY <1>1
<1>3. /\ t \in Seq(Char) /\ Len(t) = IF a + 1 <= b THEN b - (a + 1) + 1 ELSE 0
      /\ \A j \in 1 .. b - (a + 1) + 1 : t[j] = s[(a + 1) + j - 1]
  BY <1>1, <1>2, SubSeqProperties
<1> HIDE DEF t
<1>4. Len(t) = b - a /\ b - a \in Nat
  BY <1>1, <1>3
<1>5. \A j \in 1 .. b - a : t[j] = s[a + j]
  BY <1>1, <1>3
<1>6. QED
  BY <1>3, <1>4, <1>5 DEF View, Slice, t

LEMMA ViewSlice ==
  ASSUME NEW l, NEW s, NEW a, NEW n, View(l, s, a, n), NEW i \in 1 .. n + 1, NEW j \in i - 1 .. n
  PROVE  /\ View(Slice(l, i, j), s, a + i - 1, j - i + 1)
         /\ \A S : All(Slice(l, i, j), S) <=> Span(s, a + i - 1, a + j, S)
         /\ Slice(l, i, j) = <<>> <=> j = i - 1
<1>1. l \in Seq(Char) /\ Len(l) = n /\ n \in Nat /\ a \in Nat /\ \A k \in 1 .. n : l[k] = s[a + k]
  BY DEF View
<1> DEFINE t == Slice(l, i, j)
<1>2. View(t, l, i - 1, j - i + 1)
  <2>1. i - 1 \in Nat /\ j \in i - 1 .. Len(l) /\ (i - 1) + 1 = i /\ j - (i - 1) = j - i + 1
    BY <1>1
  <2>2. View(Slice(l, (i - 1) + 1, j), l, i - 1, j - (i - 1))
    BY <1>1, <2>1, SliceView
  <2>3. QED
    BY <2>1, <2>2
<1>3. /\ t \in Seq(Char) /\ Len(t) = j - i + 1 /\ j - i + 1 \in Nat /\ i - 1 \in Nat
      /\ \A k \in 1 .. j - i + 1 : t[k] = l[i - 1 + k]
  BY <1>2 DEF View
<1> HIDE DEF t
<1>4. ASSUME NEW k \in 1 .. j - i + 1 PROVE t[k] = s[a + i - 1 + k]
  <2>1. i - 1 + k \in 1 .. n /\ a + (i - 1 + k) = a + i - 1 + k
    BY <1>1, <1>3
  <2>2. QED
    BY <1>1, <1>3, <2>1
<1>5. View(t, s, a + i - 1, j - i + 1)
  BY <1>1, <1>3, <1>4 DEF View
<1>6. ASSUME NEW S PROVE All(t, S) <=> Span(s, a + i - 1, a + j, S)
  <2>1. DOMAIN t = 1 .. j - i + 1
    BY <1>3
  <2>2. ASSUME All(t, S), NEW x \in (a + i - 1) + 1 .. a + j PROVE s[x] \in S
    <3>1. x - (a + i - 1) \in 1 .. j - i + 1 /\ a + i - 1 + (x - (a + i - 1)) = x
      BY <1>1, <1>3
    <3>2. QED
      BY <1>4, <2>1, <2>2, <3>1 DEF All
  <2>3. ASSUME Span(s, a + i - 1, a + j, S), NEW k \in DOMAIN t PROVE t[k] \in S
    <3>1. k \in 1 .. j - i + 1 /\ a + i - 1 + k \in (a + i - 1) + 1 .. a + j
      BY <1>1, <1>3, <2>1
    <3>2. QED
      BY <1>4, <2>3, <3>1 DEF Span
  <2>4. QED
    BY <2>2, <2>3 DEF All, Span
<1>7. t = <<>> <=> j = i - 1
  <2>1. t = <<>> <=> Len(t) = 0
    BY <1>3
  <2>2. QED
    BY <1>3, <2>1
<1>8. QED
  BY <1>5, <1>6, <1>7 DEF t

LEMMA HeaderView ==
  ASSUME NEW l, NEW s, NEW a, NEW n, View(l, s, a, n)
  PROVE  IsHeader(l) <=> HeaderSpan(s, a, a + n)
<1>1. Len(l) = n /\ n \in Nat /\ a \in Nat /\ \A k \in 1 .. n : l[k] = s[a + k]
  BY DEF View
<1>2. ASSUME NEW i \in 1 .. n - 1
      PROVE  /\ Nonempty(Slice(l, 1, i - 1), Token) <=> i > 1 /\ Span(s, a, a + i - 1, Token)
             /\ All(Slice(l, i + 2, n), Field) <=> Span(s, a + i + 1, a + n, Field)
  <2>1. /\ Slice(l, 1, i - 1) = <<>> <=> i - 1 = 1 - 1
        /\ All(Slice(l, 1, i - 1), Token) <=> Span(s, a + 1 - 1, a + (i - 1), Token)
    <3>1. 1 \in 1 .. n + 1 /\ i - 1 \in 1 - 1 .. n
      BY <1>1
    <3>2. QED
      BY <3>1, ViewSlice
  <2>2. All(Slice(l, i + 2, n), Field) <=> Span(s, a + (i + 2) - 1, a + n, Field)
    <3>1. i + 2 \in 1 .. n + 1 /\ n \in (i + 2) - 1 .. n
      BY <1>1
    <3>2. QED
      BY <3>1, ViewSlice
  <2>3. a + 1 - 1 = a /\ a + (i - 1) = a + i - 1 /\ a + (i + 2) - 1 = a + i + 1 /\ (i - 1 = 1 - 1 <=> ~(i > 1))
    BY <1>1
  <2>4. QED
    BY <2>1, <2>2, <2>3 DEF Nonempty
<1>3. ASSUME IsHeader(l) PROVE HeaderSpan(s, a, a + n)
  <2>1. PICK i \in 1 .. n - 1 :
          /\ l[i] = ":" /\ l[i + 1] = "SP"
          /\ Nonempty(Slice(l, 1, i - 1), Token) /\ All(Slice(l, i + 2, n), Field)
    BY <1>1, <1>3 DEF IsHeader
  <2> DEFINE k == a + i
  <2>2. i > 1 /\ i \in 1 .. n /\ i + 1 \in 1 .. n /\ k \in a + 2 .. (a + n) - 1
        /\ a + (i + 1) = k + 1 /\ a + i + 1 = k + 1 /\ a + i - 1 = k - 1
    BY <1>1, <1>2, <2>1
  <2>3. s[k] = ":" /\ s[k + 1] = "SP" /\ Span(s, a, k - 1, Token) /\ Span(s, k + 1, a + n, Field)
    BY <1>1, <1>2, <2>1, <2>2
  <2> HIDE DEF k
  <2>4. QED
    BY <2>2, <2>3 DEF HeaderSpan
<1>4. ASSUME HeaderSpan(s, a, a + n) PROVE IsHeader(l)
  <2>1. PICK k \in a + 2 .. (a + n) - 1 :
          s[k] = ":" /\ s[k + 1] = "SP" /\ Span(s, a, k - 1, Token) /\ Span(s, k + 1, a + n, Field)
    BY <1>4 DEF HeaderSpan
  <2> DEFINE i == k - a
  <2>2. i \in 1 .. n - 1 /\ i > 1 /\ i \in 1 .. n /\ i + 1 \in 1 .. n
        /\ a + (i + 1) = k + 1 /\ a + i + 1 = k + 1 /\ a + i - 1 = k - 1 /\ a + i = k
    BY <1>1
  <2> HIDE DEF i
  <2>3. /\ l[i] = ":" /\ l[i + 1] = "SP"
        /\ Nonempty(Slice(l, 1, i - 1), Token) /\ All(Slice(l, i + 2, n), Field)
    BY <1>1, <1>2, <2>1, <2>2
  <2>4. QED
    BY <1>1, <2>2, <2>3 DEF IsHeader
<1>5. QED
  BY <1>3, <1>4

LEMMA FoldedView ==
  ASSUME NEW l, NEW s, NEW a, NEW n, View(l, s, a, n)
  PROVE  IsFolded(l) <=> FoldedSpan(s, a, a + n)
<1>1. Len(l) = n /\ n \in Nat /\ a \in Nat /\ DOMAIN l = 1 .. n
  BY DEF View
<1>2. ASSUME NEW i \in 1 .. n
      PROVE  /\ Nonempty(Slice(l, 1, i), {"SP", "HT"}) <=> Span(s, a, a + i, Blank)
             /\ All(Slice(l, i + 1, n), Field) <=> Span(s, a + i, a + n, Field)
  <2>1. /\ Slice(l, 1, i) = <<>> <=> i = 1 - 1
        /\ All(Slice(l, 1, i), Blank) <=> Span(s, a + 1 - 1, a + i, Blank)
    <3>1. 1 \in 1 .. n + 1 /\ i \in 1 - 1 .. n
      BY <1>1
    <3>2. QED
      BY <3>1, ViewSlice
  <2>2. All(Slice(l, i + 1, n), Field) <=> Span(s, a + (i + 1) - 1, a + n, Field)
    <3>1. i + 1 \in 1 .. n + 1 /\ n \in (i + 1) - 1 .. n
      BY <1>1
    <3>2. QED
      BY <3>1, ViewSlice
  <2>3. a + 1 - 1 = a /\ a + (i + 1) - 1 = a + i /\ i # 1 - 1
    BY <1>1
  <2>4. QED
    BY <2>1, <2>2, <2>3 DEF Nonempty, Blank
<1>3. ASSUME IsFolded(l) PROVE FoldedSpan(s, a, a + n)
  <2>1. PICK i \in 1 .. n : Nonempty(Slice(l, 1, i), {"SP", "HT"}) /\ All(Slice(l, i + 1, n), Field)
    BY <1>1, <1>3 DEF IsFolded
  <2>2. a + i \in a + 1 .. a + n
    BY <1>1
  <2>3. QED
    BY <1>2, <2>1, <2>2 DEF FoldedSpan
<1>4. ASSUME FoldedSpan(s, a, a + n) PROVE IsFolded(l)
  <2>1. PICK k \in a + 1 .. a + n : Span(s, a, k, Blank) /\ Span(s, k, a + n, Field)
    BY <1>4 DEF FoldedSpan
  <2> DEFINE i == k - a
  <2>2. i \in 1 .. n /\ a + i = k
    BY <1>1
  <2> HIDE DEF i
  <2>3. Nonempty(Slice(l, 1, i), {"SP", "HT"}) /\ All(Slice(l, i + 1, n), Field)
    BY <1>2, <2>1, <2>2
  <2>4. QED
    BY <1>1, <2>2, <2>3 DEF IsFolded
<1>5. QED
  BY <1>3, <1>4

LEMMA LettersType == Letters \in Seq(Char) /\ Len(Letters) = 5
<1>1. {"H", "T", "P", "/"} \subseteq Char
  BY DEF Char, Token, tspecial
<1>2. QED
  BY <1>1 DEF Letters

(* The version, and the digits around its dot.                             *)
VersionSpan(s, a, b) ==
  /\ \A j \in 1 .. 5 : s[a + j] = Letters[j]
  /\ \E d \in a + 7 .. b - 1 : s[d] = "." /\ Span(s, a + 5, d - 1, Digit) /\ Span(s, d, b, Digit)

LEMMA VersionView ==
  ASSUME NEW l, NEW s, NEW a, NEW n, View(l, s, a, n)
  PROVE  IsVersion(l) <=> VersionSpan(s, a, a + n)
<1>1. l \in Seq(Char) /\ Len(l) = n /\ n \in Nat /\ a \in Nat /\ DOMAIN l = 1 .. n /\ \A k \in 1 .. n : l[k] = s[a + k]
  BY DEF View
<1>2. ASSUME n > 5
      PROVE  Slice(l, 1, 5) = Letters <=> \A j \in 1 .. 5 : s[a + j] = Letters[j]
  <2> DEFINE t == Slice(l, 1, 5)
  <2>1. 1 \in 1 .. n + 1 /\ 5 \in 1 - 1 .. n
    BY <1>1, <1>2
  <2>2. View(t, s, a + 1 - 1, 5 - 1 + 1)
    BY <2>1, ViewSlice
  <2> HIDE DEF t
  <2>3. a + 1 - 1 = a /\ 5 - 1 + 1 = 5
    BY <1>1
  <2>4. t \in Seq(Char) /\ Len(t) = 5 /\ \A j \in 1 .. 5 : t[j] = s[a + j]
    BY <2>2, <2>3 DEF View
  <2>5. ASSUME \A j \in 1 .. 5 : s[a + j] = Letters[j] PROVE t = Letters
    <3>1. \A j \in 1 .. Len(t) : t[j] = Letters[j]
      BY <2>4, <2>5
    <3>2. QED
      BY <2>4, <3>1, LettersType, SeqEqual
  <2>6. QED
    BY <2>4, <2>5 DEF t
<1>3. ASSUME NEW d \in 1 .. n
      PROVE  /\ d > 6 => (Nonempty(Slice(l, 6, d - 1), Digit) <=> d > 6 /\ Span(s, a + 5, a + d - 1, Digit))
             /\ Nonempty(Slice(l, d + 1, n), Digit) <=> d < n /\ Span(s, a + d, a + n, Digit)
  <2>1. ASSUME d > 6
        PROVE  /\ Slice(l, 6, d - 1) = <<>> <=> d - 1 = 6 - 1
               /\ All(Slice(l, 6, d - 1), Digit) <=> Span(s, a + 6 - 1, a + (d - 1), Digit)
    <3>1. 6 \in 1 .. n + 1 /\ d - 1 \in 6 - 1 .. n
      BY <1>1, <2>1
    <3>2. QED
      BY <3>1, ViewSlice
  <2>2. /\ Slice(l, d + 1, n) = <<>> <=> n = (d + 1) - 1
        /\ All(Slice(l, d + 1, n), Digit) <=> Span(s, a + (d + 1) - 1, a + n, Digit)
    <3>1. d + 1 \in 1 .. n + 1 /\ n \in (d + 1) - 1 .. n
      BY <1>1
    <3>2. QED
      BY <3>1, ViewSlice
  <2>3. a + 6 - 1 = a + 5 /\ a + (d - 1) = a + d - 1 /\ a + (d + 1) - 1 = a + d
        /\ (d > 6 => d - 1 # 6 - 1) /\ (n = (d + 1) - 1 <=> ~(d < n))
    BY <1>1
  <2>4. QED
    BY <2>1, <2>2, <2>3 DEF Nonempty
<1>4. ASSUME NEW d \in 1 .. n, d <= 6 PROVE Slice(l, 6, d - 1) = <<>>
  <2>1. d - 1 < 6 /\ d - 1 \in Int
    BY <1>1, <1>4
  <2>2. QED
    BY <2>1, SubSeqEmpty DEF Slice
<1>5. ASSUME IsVersion(l) PROVE VersionSpan(s, a, a + n)
  <2>1. n > 5 /\ Slice(l, 1, 5) = Letters
    BY <1>1, <1>5 DEF IsVersion, Letters
  <2>2. PICK d \in 1 .. n :
          l[d] = "." /\ Nonempty(Slice(l, 6, d - 1), Digit) /\ Nonempty(Slice(l, d + 1, n), Digit)
    BY <1>1, <1>5 DEF IsVersion
  <2>3. d > 6
    BY <1>1, <1>4, <2>2 DEF Nonempty
  <2>4. d < n /\ Span(s, a + 5, a + d - 1, Digit) /\ Span(s, a + d, a + n, Digit) /\ s[a + d] = "."
    BY <1>1, <1>3, <2>2, <2>3
  <2>5. a + d \in a + 7 .. (a + n) - 1
    BY <1>1, <2>3, <2>4
  <2>6. \A j \in 1 .. 5 : s[a + j] = Letters[j]
    BY <1>2, <2>1
  <2> DEFINE k == a + d
  <2>7. s[k] = "." /\ Span(s, a + 5, k - 1, Digit) /\ Span(s, k, a + n, Digit) /\ k \in a + 7 .. (a + n) - 1
    <3>1. k - 1 = a + (d - 1)
      BY <1>1
    <3> HIDE DEF k
    <3>2. Span(s, a + 5, k - 1, Digit)
      BY <2>4, <3>1
    <3>3. QED
      BY <2>4, <2>5, <3>2 DEF k
  <2> HIDE DEF k
  <2>8. QED
    BY <2>6, <2>7 DEF VersionSpan
<1>6. ASSUME VersionSpan(s, a, a + n) PROVE IsVersion(l)
  <2>1. PICK k \in a + 7 .. (a + n) - 1 :
          s[k] = "." /\ Span(s, a + 5, k - 1, Digit) /\ Span(s, k, a + n, Digit)
    BY <1>6 DEF VersionSpan
  <2> DEFINE d == k - a
  <2>2. d \in 1 .. n /\ d > 6 /\ d < n /\ a + d = k /\ a + d - 1 = k - 1 /\ n > 5
    BY <1>1
  <2> HIDE DEF d
  <2>3. l[d] = "." /\ Nonempty(Slice(l, 6, d - 1), Digit) /\ Nonempty(Slice(l, d + 1, n), Digit)
    BY <1>1, <1>3, <2>1, <2>2
  <2>4. Slice(l, 1, 5) = Letters
    BY <1>2, <1>6, <2>2 DEF VersionSpan
  <2>5. QED
    BY <1>1, <2>2, <2>3, <2>4 DEF IsVersion, Letters
<1>7. QED
  BY <1>5, <1>6

LEMMA FirstView ==
  ASSUME NEW l, NEW s, NEW n, View(l, s, 0, n)
  PROVE  IsRequestLine(l) <=> \E u : FirstSpan(s, n, u)
<1>1. /\ l \in Seq(Char) /\ Len(l) = n /\ n \in Nat /\ DOMAIN l = 1 .. n
      /\ \A k \in 1 .. n : l[k] = s[k]
  BY DEF View
<1>2. ASSUME NEW i \in 1 .. n, NEW j \in 1 .. n, i < j
      PROVE  /\ Nonempty(Slice(l, 1, i - 1), Token) <=> i > 1 /\ Span(s, 0, i - 1, Token)
             /\ All(Slice(l, i + 1, j - 1), NoSpace) <=> Span(s, i, j - 1, NoSpace)
             /\ IsVersion(Slice(l, j + 1, n)) <=> VersionSpan(s, j, n)
  <2>1. /\ Slice(l, 1, i - 1) = <<>> <=> i - 1 = 1 - 1
        /\ All(Slice(l, 1, i - 1), Token) <=> Span(s, 0 + 1 - 1, 0 + (i - 1), Token)
    <3>1. 1 \in 1 .. n + 1 /\ i - 1 \in 1 - 1 .. n
      BY <1>1
    <3>2. QED
      BY <3>1, ViewSlice
  <2>2. All(Slice(l, i + 1, j - 1), NoSpace) <=> Span(s, 0 + (i + 1) - 1, 0 + (j - 1), NoSpace)
    <3>1. i + 1 \in 1 .. n + 1 /\ j - 1 \in (i + 1) - 1 .. n
      BY <1>1, <1>2
    <3>2. QED
      BY <3>1, ViewSlice
  <2>3. View(Slice(l, j + 1, n), s, 0 + (j + 1) - 1, n - (j + 1) + 1)
    <3>1. j + 1 \in 1 .. n + 1 /\ n \in (j + 1) - 1 .. n
      BY <1>1
    <3>2. QED
      BY <3>1, ViewSlice
  <2>4. IsVersion(Slice(l, j + 1, n)) <=> VersionSpan(s, 0 + (j + 1) - 1, 0 + (j + 1) - 1 + (n - (j + 1) + 1))
    BY <2>3, VersionView
  <2>5. /\ 0 + 1 - 1 = 0 /\ 0 + (i - 1) = i - 1 /\ 0 + (i + 1) - 1 = i /\ 0 + (j - 1) = j - 1
        /\ 0 + (j + 1) - 1 = j /\ j + (n - (j + 1) + 1) = n /\ (i - 1 = 1 - 1 <=> ~(i > 1))
    BY <1>1
  <2>6. QED
    BY <2>1, <2>2, <2>4, <2>5 DEF Nonempty
<1>3. ASSUME IsRequestLine(l) PROVE \E u : FirstSpan(s, n, u)
  <2>1. PICK i \in 1 .. n, j \in 1 .. n :
          /\ i < j /\ l[i] = "SP" /\ l[j] = "SP"
          /\ Nonempty(Slice(l, 1, i - 1), Token) /\ All(Slice(l, i + 1, j - 1), NoSpace)
          /\ IsVersion(Slice(l, j + 1, n))
    BY <1>1, <1>3 DEF IsRequestLine, NoSpace
  <2>2. /\ s[i] = "SP" /\ s[j] = "SP" /\ i > 1
        /\ Span(s, 0, i - 1, Token) /\ Span(s, i, j - 1, NoSpace) /\ VersionSpan(s, j, n)
    BY <1>1, <1>2, <2>1
  <2> DEFINE u == SubSeq(s, i + 1, j - 1)
  <2>3. UriSpan(s, j - 1, u)
    <3>1. i \in 2 .. j - 1
      BY <1>1, <2>1, <2>2
    <3>2. QED
      BY <2>2, <3>1 DEF UriSpan
  <2> HIDE DEF u
  <2>4. TargetSpan(s, j, u)
    BY <1>1, <2>2, <2>3 DEF TargetSpan
  <2>5. PICK d \in j + 7 .. n - 1 : s[d] = "." /\ Span(s, j + 5, d - 1, Digit) /\ Span(s, d, n, Digit)
    BY <2>2 DEF VersionSpan
  <2>6. LetterSpan(s, j + 5, 5, u)
    <3>1. (j + 5) - 5 = j /\ j \in Nat
      BY <1>1
    <3>2. QED
      BY <2>2, <2>4, <3>1 DEF LetterSpan, VersionSpan
  <2>7. j + 5 \in 1 .. (d - 1) - 1 /\ d \in 2 .. n - 1
    BY <1>1, <2>5
  <2>8. MajorSpan(s, d - 1, u)
    BY <2>5, <2>6, <2>7 DEF MajorSpan
  <2>9. FirstSpan(s, n, u)
    BY <2>5, <2>7, <2>8 DEF FirstSpan
  <2>10. QED
    BY <2>9
<1>4. ASSUME NEW u, FirstSpan(s, n, u) PROVE IsRequestLine(l)
  <2>1. PICK d \in 2 .. n - 1 : s[d] = "." /\ MajorSpan(s, d - 1, u) /\ Span(s, d, n, Digit)
    BY <1>4 DEF FirstSpan
  <2>2. PICK m \in 1 .. (d - 1) - 1 : LetterSpan(s, m, 5, u) /\ Span(s, m, d - 1, Digit)
    BY <2>1 DEF MajorSpan
  <2> DEFINE j == m - 5
  <2>3. j \in Nat /\ j > 0 /\ s[j] = "SP" /\ UriSpan(s, j - 1, u) /\ \A h \in 1 .. 5 : s[j + h] = Letters[h]
    BY <2>2 DEF LetterSpan, TargetSpan
  <2>4. j + 5 = m /\ j \in Int
    OBVIOUS
  <2> HIDE DEF j
  <2>5. PICK i \in 2 .. j - 1 : s[i] = "SP" /\ Span(s, 0, i - 1, Token) /\ Span(s, i, j - 1, NoSpace)
    BY <2>3 DEF UriSpan
  <2>6. i \in 1 .. n /\ j \in 1 .. n /\ i < j /\ i > 1 /\ d \in j + 7 .. n - 1
    BY <1>1, <2>3, <2>4
  <2>7. VersionSpan(s, j, n)
    BY <2>1, <2>2, <2>3, <2>4, <2>6 DEF VersionSpan
  <2>8. /\ l[i] = "SP" /\ l[j] = "SP" /\ Nonempty(Slice(l, 1, i - 1), Token)
        /\ All(Slice(l, i + 1, j - 1), NoSpace) /\ IsVersion(Slice(l, j + 1, n))
    BY <1>1, <1>2, <2>3, <2>5, <2>6, <2>7
  <2>9. QED
    BY <1>1, <2>6, <2>8 DEF IsRequestLine, NoSpace
<1>5. QED
  BY <1>3, <1>4

(* The line that ends at e, in the first n characters.                     *)
LEMMA LineView ==
  ASSUME NEW s, NEW t, NEW n, View(t, s, 0, n), NEW e \in 1 .. n, e > 1, s[e - 1] = "CR"
  PROVE  /\ Before(s, e) <= e - 2
         /\ View(LineTo(t, e), s, Before(s, e), e - 2 - Before(s, e))
<1>1. n \in Nat /\ e \in Nat \ {0} /\ e - 1 \in Nat /\ \A i \in 1 .. n : t[i] = s[i]
  BY DEF View
<1>2. Before(s, e) \in 0 .. e - 1 /\ (Before(s, e) # 0 => s[Before(s, e)] = "LF")
  BY <1>1, BeforeProperties
<1>3. {i \in 1 .. e - 1 : t[i] = "LF"} = {i \in 1 .. e - 1 : s[i] = "LF"}
  <2>1. \A i \in 1 .. e - 1 : t[i] = s[i]
    BY <1>1
  <2>2. QED
    BY <2>1
<1>4. LineTo(t, e) = Slice(t, Before(s, e) + 1, e - 2)
  BY <1>3 DEF LineTo, Before
<1> DEFINE a == Before(s, e)
<1> HIDE DEF a
<1>5. a <= e - 2 /\ a \in Nat /\ a + 1 \in 1 .. n + 1 /\ e - 2 \in (a + 1) - 1 .. n
  <2>1. a # e - 1
    BY <1>1, <1>2 DEF a
  <2>2. a \in 0 .. e - 1
    BY <1>2 DEF a
  <2>3. QED
    BY <1>1, <2>1, <2>2
<1>6. View(Slice(t, a + 1, e - 2), s, 0 + (a + 1) - 1, (e - 2) - (a + 1) + 1)
  BY <1>5, ViewSlice
<1>7. 0 + (a + 1) - 1 = a /\ (e - 2) - (a + 1) + 1 = e - 2 - a
  BY <1>1, <1>5
<1>8. QED
  BY <1>4, <1>5, <1>6, <1>7 DEF a

(* The newlines of a sequence, and the first.                              *)
Newlines(s, n) == {i \in 1 .. n : s[i] = "LF"}
First(s, n) == Min(Newlines(s, n))

LEMMA FirstProperties ==
  ASSUME NEW s, NEW n \in Nat, Newlines(s, n) # {}
  PROVE  /\ First(s, n) \in 1 .. n /\ s[First(s, n)] = "LF"
         /\ \A e \in 1 .. n : s[e] = "LF" => (Before(s, e) = 0 <=> e = First(s, n)) /\ First(s, n) <= e
<1> DEFINE F == First(s, n)
           N == Newlines(s, n)
<1>1. N \in SUBSET Nat /\ N # {}
  BY DEF Newlines
<1>2. F \in N /\ \A y \in N : F <= y
  BY <1>1, MinIsLeast DEF First
<1>3. F \in 1 .. n /\ s[F] = "LF" /\ \A e \in 1 .. n : s[e] = "LF" => F <= e
  BY <1>2 DEF Newlines
<1> HIDE DEF F, N
<1>4. ASSUME NEW e \in 1 .. n, s[e] = "LF" PROVE Before(s, e) = 0 <=> e = F
  <2>1. /\ e \in Nat \ {0} /\ Before(s, e) \in 0 .. e - 1 /\ (Before(s, e) # 0 => s[Before(s, e)] = "LF")
        /\ \A j \in 1 .. e - 1 : s[j] = "LF" => j <= Before(s, e)
    BY BeforeProperties
  <2>2. ASSUME e = F, Before(s, e) # 0 PROVE FALSE
    <3>1. Before(s, e) \in 1 .. n /\ s[Before(s, e)] = "LF" /\ ~(F <= Before(s, e))
      BY <1>3, <2>1, <2>2
    <3>2. QED
      BY <1>3, <3>1
  <2>3. ASSUME e # F, Before(s, e) = 0 PROVE FALSE
    <3>1. F \in 1 .. e - 1 /\ ~(F <= 0)
      BY <1>3, <1>4, <2>3
    <3>2. QED
      BY <1>3, <2>1, <2>3, <3>1
  <2>4. QED
    BY <2>2, <2>3
<1>5. QED
  BY <1>3, <1>4 DEF F

(* The lines of the grammar are those that a parser takes.                 *)
LEMMA LinesAgree ==
  ASSUME NEW s, NEW t, NEW n, View(t, s, 0, n), NEW e \in 1 .. n, e > 1, s[e] = "LF", s[e - 1] = "CR",
         NEW F, F = First(s, n)
  PROVE  LineOK(s, e) <=>
           IF e = F THEN IsRequestLine(LineTo(t, e))
           ELSE \/ IsHeader(LineTo(t, e))
                \/ IsFolded(LineTo(t, e)) /\ \E d \in Newlines(s, n) \ {F} : d < e
<1> DEFINE b == Before(s, e)
           l == LineTo(t, e)
<1>1. n \in Nat /\ e \in Nat \ {0}
  BY DEF View
<1>2. b <= e - 2 /\ View(l, s, b, e - 2 - b)
  BY LineView
<1>3. e \in Newlines(s, n)
  BY DEF Newlines
<1>4. /\ F \in 1 .. n /\ s[F] = "LF"
      /\ \A d \in 1 .. n : s[d] = "LF" => (Before(s, d) = 0 <=> d = F) /\ F <= d
  BY <1>1, <1>3, FirstProperties
<1>5. b \in 0 .. e - 1 /\ (b # 0 => s[b] = "LF") /\ \A j \in 1 .. e - 1 : s[j] = "LF" => j <= b
  BY <1>1, BeforeProperties
<1>6. LineOK(s, e) <=>
        IF b = 0 THEN \E u : FirstSpan(s, e - 2, u)
        ELSE HeaderSpan(s, b, e - 2) \/ (Before(s, b) # 0 /\ FoldedSpan(s, b, e - 2))
  BY DEF LineOK
<1>7. b = 0 <=> e = F
  BY <1>4
<1> HIDE DEF b, l
<1>8. b + (e - 2 - b) = e - 2 /\ b \in Nat
  BY <1>1, <1>5
<1>9. CASE b = 0
  <2>1. View(l, s, 0, e - 2)
    BY <1>1, <1>2, <1>9
  <2>2. IsRequestLine(l) <=> \E u : FirstSpan(s, e - 2, u)
    BY <2>1, FirstView
  <2>3. QED
    BY <1>6, <1>7, <1>9, <2>2 DEF l
<1>10. CASE b # 0
  <2>1. IsHeader(l) <=> HeaderSpan(s, b, e - 2)
    BY <1>2, <1>8, HeaderView
  <2>2. IsFolded(l) <=> FoldedSpan(s, b, e - 2)
    BY <1>2, <1>8, FoldedView
  <2>3. b \in 1 .. n /\ s[b] = "LF" /\ b < e
    BY <1>1, <1>5, <1>10
  <2>4. ASSUME Before(s, b) # 0 PROVE \E d \in Newlines(s, n) \ {F} : d < e
    <3>1. b # F /\ b \in Newlines(s, n)
      BY <1>4, <2>3, <2>4 DEF Newlines
    <3>2. QED
      BY <2>3, <3>1
  <2>5. ASSUME NEW d \in Newlines(s, n) \ {F}, d < e PROVE Before(s, b) # 0
    <3>1. d \in 1 .. n /\ s[d] = "LF" /\ d # F /\ F <= d
      BY <1>4, <2>5 DEF Newlines
    <3>2. d \in 1 .. e - 1
      BY <1>1, <2>5, <3>1
    <3>3. d <= b
      BY <1>5, <3>1, <3>2
    <3>4. b # F
      BY <1>1, <1>4, <2>3, <3>1, <3>3
    <3>5. QED
      BY <1>4, <2>3, <3>4
  <2>6. QED
    BY <1>6, <1>7, <1>10, <2>1, <2>2, <2>4, <2>5 DEF l
<1>11. QED
  BY <1>9, <1>10

LEMMA CompleteIsRequest ==
  ASSUME NEW s \in Seq(Char), NEW n \in 1 .. Len(s)
  PROVE  Complete(s, n) <=> s[n] = "LF" /\ IsRequest(Slice(s, 1, n))
<1> DEFINE t == Slice(s, 1, n)
           N == Newlines(s, n)
           F == First(s, n)
<1>1. Len(s) \in Nat /\ n \in Nat \ {0}
  OBVIOUS
<1>2. View(t, s, 0, n)
  <2>1. View(Slice(s, 0 + 1, n), s, 0, n - 0)
    BY <1>1, SliceView
  <2>2. 0 + 1 = 1 /\ n - 0 = n
    BY <1>1
  <2>3. QED
    BY <2>1, <2>2
<1> HIDE DEF t
<1>3. Len(t) = n /\ DOMAIN t = 1 .. n /\ \A i \in 1 .. n : t[i] = s[i]
  BY <1>2 DEF View
<1>4. {i \in DOMAIN t : t[i] = "LF"} = N
  BY <1>3 DEF Newlines
<1>5. IsRequest(t) <=>
        /\ n \in N /\ F < n
        /\ \A e \in N : e > 1 /\ t[e - 1] = "CR"
        /\ IsRequestLine(LineTo(t, F)) /\ LineTo(t, n) = <<>>
        /\ \A e \in N \ {F, n} :
             \/ IsHeader(LineTo(t, e))
             \/ IsFolded(LineTo(t, e)) /\ \E d \in N \ {F} : d < e
  BY <1>3, <1>4 DEF IsRequest, First
<1>6. N # {} =>
        /\ F \in 1 .. n /\ s[F] = "LF"
        /\ \A e \in 1 .. n : s[e] = "LF" => (Before(s, e) = 0 <=> e = F) /\ F <= e
  BY <1>1, FirstProperties
<1>7. \A e : e \in N <=> e \in 1 .. n /\ s[e] = "LF"
  BY DEF Newlines
<1>8. ASSUME NEW e \in N, e > 1 PROVE t[e - 1] = s[e - 1]
  BY <1>1, <1>3, <1>7, <1>8
<1>9. ASSUME NEW e \in N, e > 1, s[e - 1] = "CR"
      PROVE  LineOK(s, e) <=>
               IF e = F THEN IsRequestLine(LineTo(t, e))
               ELSE \/ IsHeader(LineTo(t, e))
                    \/ IsFolded(LineTo(t, e)) /\ \E d \in N \ {F} : d < e
  BY <1>2, <1>7, <1>9, LinesAgree
<1>10. /\ Before(s, n) \in 0 .. n - 1 /\ (Before(s, n) # 0 => s[Before(s, n)] = "LF")
       /\ \A j \in 1 .. n - 1 : s[j] = "LF" => j <= Before(s, n)
  BY <1>1, BeforeProperties
<1>11. ASSUME n > 1, s[n - 1] = "CR"
       PROVE  LineTo(t, n) = <<>> <=> Before(s, n) = n - 2
  <2>1. n \in 1 .. n
    BY <1>1
  <2>2. Before(s, n) <= n - 2 /\ View(LineTo(t, n), s, Before(s, n), n - 2 - Before(s, n))
    BY <1>2, <1>11, <2>1, LineView
  <2>3. LineTo(t, n) \in Seq(Char) /\ Len(LineTo(t, n)) = n - 2 - Before(s, n)
    BY <2>2 DEF View
  <2>4. LineTo(t, n) = <<>> <=> Len(LineTo(t, n)) = 0
    BY <2>3
  <2>5. QED
    BY <1>1, <1>10, <2>3, <2>4
<1> HIDE DEF N, F
<1>12. ASSUME s[n] = "LF", IsRequest(t) PROVE Complete(s, n)
  <2>1. /\ n \in N /\ F < n /\ \A e \in N : e > 1 /\ s[e - 1] = "CR"
    BY <1>5, <1>8, <1>12
  <2>2. n > 1 /\ s[n - 1] = "CR" /\ Before(s, n) = n - 2
    BY <1>5, <1>11, <1>12, <2>1
  <2>3. n - 2 > 0 /\ s[n - 2] = "LF"
    <3>1. F \in 1 .. n - 1 /\ s[F] = "LF"
      BY <1>1, <1>6, <2>1
    <3>2. F <= n - 2
      BY <1>10, <2>2, <3>1
    <3>3. QED
      BY <1>1, <1>10, <2>2, <3>1, <3>2
  <2>4. ASSUME NEW e \in 1 .. n - 2, s[e] = "LF" PROVE LineOK(s, e)
    <3>1. e \in N /\ e # n
      BY <1>1, <1>7, <2>4
    <3>2. QED
      BY <1>5, <1>9, <1>12, <2>1, <3>1
  <2>5. QED
    BY <1>1, <1>12, <2>2, <2>3, <2>4 DEF Complete, LinesOK
<1>13. ASSUME Complete(s, n) PROVE s[n] = "LF" /\ IsRequest(t)
  <2>1. n > 2 /\ s[n] = "LF" /\ s[n - 1] = "CR" /\ s[n - 2] = "LF" /\ LinesOK(s, n - 2)
    BY <1>13 DEF Complete
  <2>2. n \in N /\ n - 2 \in N /\ n - 2 \in 1 .. n - 1
    BY <1>1, <1>7, <2>1
  <2>3. F \in 1 .. n /\ s[F] = "LF" /\ F <= n - 2 /\ F < n /\ F # n /\ F \in 1 .. n - 2
    BY <1>1, <1>6, <1>7, <2>2
  <2>4. ASSUME NEW e \in N, e # n PROVE e > 1 /\ s[e - 1] = "CR" /\ LineOK(s, e)
    <3>1. e \in 1 .. n - 2 /\ s[e] = "LF"
      <4>1. e # n - 1
        BY <1>7, <2>1, <2>4
      <4>2. QED
        BY <1>1, <1>7, <2>4, <4>1
    <3>2. LineOK(s, e)
      BY <2>1, <3>1 DEF LinesOK
    <3>3. e > 1
      <4> SUFFICES ASSUME e = 1 PROVE FALSE
        BY <3>1
      <4>1. Before(s, 1) \in 0 .. 1 - 1
        BY BeforeProperties
      <4>2. \E u : FirstSpan(s, 1 - 2, u)
        BY <3>2, <4>1 DEF LineOK
      <4>3. QED
        BY <4>2 DEF FirstSpan
    <3>4. QED
      BY <3>2, <3>3 DEF LineOK
  <2>5. Before(s, n) = n - 2
    <3>1. n - 2 <= Before(s, n)
      BY <1>10, <2>1, <2>2
    <3>2. Before(s, n) # n - 1
      BY <1>1, <1>10, <2>1
    <3>3. QED
      BY <1>1, <1>10, <3>1, <3>2
  <2>6. LineTo(t, n) = <<>>
    BY <1>1, <1>11, <2>1, <2>5
  <2>7. IsRequestLine(LineTo(t, F))
    <3>1. F \in N
      BY <1>7, <2>3
    <3>2. QED
      BY <1>9, <2>3, <2>4, <3>1
  <2>8. ASSUME NEW e \in N PROVE e > 1 /\ t[e - 1] = "CR"
    <3>1. e > 1 /\ s[e - 1] = "CR"
      BY <1>1, <2>1, <2>4
    <3>2. QED
      BY <1>8, <3>1
  <2>9. ASSUME NEW e \in N \ {F, n}
        PROVE  \/ IsHeader(LineTo(t, e))
               \/ IsFolded(LineTo(t, e)) /\ \E d \in N \ {F} : d < e
    BY <1>9, <2>4
  <2>10. QED
    BY <1>5, <2>1, <2>2, <2>3, <2>6, <2>7, <2>8, <2>9
<1>14. QED
  BY <1>12, <1>13 DEF t

(***************************************************************************)
(* The verdict, and the reads that it does not depend on.                  *)
(***************************************************************************)
LEMMA HoldsComplete ==
  ASSUME NEW s \in Seq(Char), NEW r \in 0 .. Len(s)
  PROVE  HoldsRequest(Slice(s, 1, r)) <=> \E n \in 1 .. r : Complete(s, n)
<1> DEFINE t == Slice(s, 1, r)
<1>1. View(t, s, 0, r)
  <2>1. View(Slice(s, 0 + 1, r), s, 0, r - 0)
    BY SliceView
  <2>2. 0 + 1 = 1 /\ r - 0 = r
    OBVIOUS
  <2>3. QED
    BY <2>1, <2>2
<1> HIDE DEF t
<1>2. t \in Seq(Char) /\ Len(t) = r /\ r \in Nat /\ DOMAIN t = 1 .. r /\ \A i \in 1 .. r : t[i] = s[i]
  BY <1>1 DEF View
<1>3. ASSUME NEW n \in 1 .. r PROVE Slice(t, 1, n) = Slice(s, 1, n)
  <2> DEFINE x == SubSeq(t, 1, n)
             y == SubSeq(s, 1, n)
  <2>1. n \in Nat /\ n \in 0 .. Len(t) /\ n \in 0 .. Len(s) /\ 0 + 1 = 1 /\ n - 0 = n
    BY <1>2
  <2>2. View(Slice(t, 0 + 1, n), t, 0, n - 0) /\ View(Slice(s, 0 + 1, n), s, 0, n - 0)
    BY <1>2, <2>1, SliceView
  <2>3. View(x, t, 0, n) /\ View(y, s, 0, n)
    BY <2>1, <2>2 DEF Slice
  <2> HIDE DEF x, y
  <2>4. x \in Seq(Char) /\ y \in Seq(Char) /\ Len(x) = n /\ Len(y) = n
    BY <2>3 DEF View
  <2>5. \A i \in 1 .. Len(x) : x[i] = y[i]
    BY <1>2, <2>3, <2>4 DEF View
  <2>6. x = y
    BY <2>4, <2>5, SeqEqual
  <2>7. QED
    BY <2>6 DEF Slice, x, y
<1>4. ASSUME NEW n \in 1 .. r PROVE t[n] = "LF" /\ IsRequest(Slice(t, 1, n)) <=> Complete(s, n)
  <2>1. n \in 1 .. Len(s) /\ t[n] = s[n]
    BY <1>2
  <2>2. QED
    BY <1>3, <2>1, CompleteIsRequest
<1>5. QED
  BY <1>2, <1>4 DEF HoldsRequest, t

(* A run goes on where a read has cut it.                                  *)
LEMMA RunGoesOn ==
  ASSUME NEW s, NEW f, Run(f, s), NEW r \in 0 .. Len(s), NEW n \in r .. Len(s)
  PROVE  parse(f[r], SubSeq(s, r + 1, n)) = f[n]
<1> DEFINE bytes == SubSeq(s, r + 1, n)
<1>1. Len(s) \in Nat /\ s \in Seq(Char) /\ r \in Nat /\ n \in Nat /\ f[r] \in Parser
  BY RunStep DEF Run
<1>2. bytes \in Seq(Char) /\ Len(bytes) = n - r /\ n - r \in Nat /\ \A i \in 1 .. n - r : bytes[i] = s[r + i]
  BY <1>1, SliceView DEF View, Slice
<1> HIDE DEF bytes
<1>3. PICK g : Runs(g, f[r], bytes) /\ parse(f[r], bytes) = g[Len(bytes)]
  BY <1>1, <1>2, ParseRuns
<1>4. g[0] = f[r] /\ \A i \in 1 .. n - r : g[i] = Step(g[i - 1], bytes[i])
  BY <1>1, <1>2, <1>3, RunProperties
<1> DEFINE T == {i \in 0 .. n - r : g[i] = f[r + i]}
<1>5. ASSUME NEW i \in 0 .. (n - r) - 1, i \in T PROVE i + 1 \in T
  <2>1. /\ i + 1 \in 1 .. n - r /\ (i + 1) - 1 = i /\ i + 1 \in 0 .. n - r
        /\ r + i \in 0 .. Len(s) - 1 /\ (r + i) + 1 = r + (i + 1) /\ g[i] = f[r + i]
    BY <1>1, <1>5
  <2>2. g[i + 1] = Step(g[(i + 1) - 1], bytes[i + 1]) /\ bytes[i + 1] = s[r + (i + 1)]
    BY <1>2, <1>4, <2>1
  <2>3. g[i + 1] = Step(f[r + i], s[(r + i) + 1])
    BY <2>1, <2>2
  <2>4. f[(r + i) + 1] = Step(f[r + i], s[(r + i) + 1])
    BY <2>1, RunStep DEF Step
  <2>5. QED
    BY <2>1, <2>3, <2>4
<1>6. 0 \in T
  BY <1>1, <1>4
<1> HIDE DEF T
<1>7. \A i \in 0 .. n - r : i \in T
  <2> DEFINE m == n - r
  <2>1. m \in Int /\ \A i \in 0 .. m - 1 : i \in T => i + 1 \in T
    BY <1>2, <1>5
  <2> HIDE DEF m
  <2>2. \A i \in 0 .. m : i \in T
    BY <1>6, <2>1, Upwards
  <2>3. QED
    BY <2>2 DEF m
<1>8. n - r \in 0 .. n - r /\ r + (n - r) = n
  BY <1>1, <1>2
<1>9. QED
  BY <1>2, <1>3, <1>7, <1>8 DEF T, bytes

LEMMA RunOf ==
  ASSUME NEW s \in Seq(Char)
  PROVE  \E f : Run(f, s)
BY RunExists, NewParserType DEF Run

(***************************************************************************)
(* The uri that a parser has read when it says "complete".                 *)
(***************************************************************************)
LineStates == {"header_line_start", "header_lws", "header_name", "space_before_header_value",
               "header_value", "expecting_newline_2", "expecting_newline_3"}

(* Behind the request line the uri is left alone.                          *)
LEMMA UriStays ==
  ASSUME NEW p \in Parser, p.result = "indeterminate", p.state \in LineStates, NEW c
  PROVE  consume(p, c).uri = p.uri /\ consume(p, c).state \in LineStates
<1>1. ASSUME NEW state \in LineStates
      PROVE  /\ To(p, state).uri = p.uri /\ To(p, state).state \in LineStates
             /\ \A ch : Expect(p, ch, c, state).uri = p.uri /\ Expect(p, ch, c, state).state \in LineStates
  BY DEF To, Expect, Refuse, Parser
<1>2. Refuse(p).uri = p.uri /\ Refuse(p).state \in LineStates
  BY DEF Refuse, Parser
<1>3. CASE p.state = "header_line_start"
  <2>1. consume(p, c) = header_line_start(p, c)
    BY <1>3 DEF consume
  <2>2. [To(p, "header_name") EXCEPT !.names = Append(@, <<c>>)].uri = p.uri
        /\ [To(p, "header_name") EXCEPT !.names = Append(@, <<c>>)].state \in LineStates
    BY DEF To, Parser, LineStates
  <2>3. QED
    BY <1>1, <1>2, <2>1, <2>2 DEF header_line_start, LineStates
<1>4. CASE p.state = "header_lws"
  <2>1. consume(p, c) = header_lws(p, c)
    BY <1>4 DEF consume
  <2>2. QED
    BY <1>1, <1>2, <2>1 DEF header_lws, LineStates
<1>5. CASE p.state = "header_name"
  <2>1. consume(p, c) = header_name(p, c)
    BY <1>5 DEF consume
  <2> DEFINE names == [p.names EXCEPT ![Len(p.names)] = Append(p.names[Len(p.names)], c)]
             q == [p EXCEPT !.names = names]
  <2>2. [p EXCEPT !.names[Len(p.names)] = Append(@, c)] = q
    OBVIOUS
  <2> HIDE DEF names
  <2>3. q.uri = p.uri /\ q.state = p.state
    BY DEF Parser
  <2> HIDE DEF q
  <2>4. consume(p, c) \in {To(p, "space_before_header_value"), q, Refuse(p)}
    BY <2>1, <2>2 DEF header_name
  <2>5. QED
    BY <1>1, <1>2, <2>3, <2>4 DEF LineStates
<1>6. CASE p.state = "header_value"
  <2>1. consume(p, c) = header_value(p, c)
    BY <1>6 DEF consume
  <2>2. QED
    BY <1>1, <1>2, <2>1 DEF header_value, LineStates
<1>7. CASE p.state \in {"space_before_header_value", "expecting_newline_2"}
  <2>1. consume(p, c) \in {Expect(p, "SP", c, "header_value"), Expect(p, "LF", c, "header_line_start")}
    BY <1>7 DEF consume
  <2>2. QED
    BY <1>1, <2>1 DEF LineStates
<1>8. CASE p.state = "expecting_newline_3"
  <2>1. consume(p, c) = [p EXCEPT !.result = IF c = "LF" THEN "true" ELSE "false"]
    BY <1>8 DEF consume
  <2>2. QED
    BY <2>1 DEF Parser
<1>9. QED
  BY <1>3, <1>4, <1>5, <1>6, <1>7, <1>8 DEF LineStates

LEMMA UriKept ==
  ASSUME NEW s, NEW f, Run(f, s), NEW e \in 0 .. Len(s), NEW r \in e .. Len(s), f[e].state \in LineStates
  PROVE  f[r].uri = f[e].uri
<1> DEFINE T == {n \in 0 .. r - e : f[e + n].uri = f[e].uri /\ f[e + n].state \in LineStates}
           m == r - e
<1>1. ASSUME NEW n \in 0 .. m - 1, n \in T PROVE n + 1 \in T
  <2>1. e + n \in 0 .. Len(s) - 1 /\ e + n \in 0 .. Len(s) /\ e + (n + 1) = (e + n) + 1 /\ n + 1 \in 0 .. r - e
    BY RunStep
  <2>2. f[e + n].uri = f[e].uri /\ f[e + n].state \in LineStates /\ f[e + n] \in Parser
    BY <1>1, <2>1, RunStep
  <2>3. f[(e + n) + 1].uri = f[e + n].uri /\ f[(e + n) + 1].state \in LineStates
    BY <2>1, <2>2, RunStep, UriStays
  <2>4. QED
    BY <2>1, <2>2, <2>3
<1>2. 0 \in T /\ m \in Int /\ m \in 0 .. m /\ e + m = r
  BY RunStep
<1> HIDE DEF m
<1>3. \A n \in T : f[e + n].uri = f[e].uri
  OBVIOUS
<1> HIDE DEF T
<1>4. \A n \in 0 .. m : n \in T
  BY <1>1, <1>2, Upwards
<1>5. QED
  BY <1>2, <1>3, <1>4

(* Between the first two spaces.                                           *)
LEMMA UriBetween ==
  ASSUME NEW s \in Seq(Char), NEW b \in 0 .. Len(s), NEW u, FirstSpan(s, b, u)
  PROVE  u = Uri(s) /\ u \in Seq(Char)
<1>1. PICK d \in 2 .. b - 1 : MajorSpan(s, d - 1, u)
  BY DEF FirstSpan
<1>2. PICK m \in 1 .. (d - 1) - 1 : LetterSpan(s, m, 5, u)
  BY <1>1 DEF MajorSpan
<1> DEFINE j == m - 5
<1>3. j \in Nat /\ j > 0 /\ s[j] = "SP" /\ UriSpan(s, j - 1, u)
  BY <1>2 DEF LetterSpan, TargetSpan
<1>4. Len(s) \in Nat /\ DOMAIN s = 1 .. Len(s) /\ j <= Len(s)
  OBVIOUS
<1> HIDE DEF j
<1>5. PICK k \in 2 .. j - 1 :
        /\ s[k] = "SP" /\ Span(s, 0, k - 1, Token) /\ Span(s, k, j - 1, NoSpace) /\ u = SubSeq(s, k + 1, j - 1)
  BY <1>3 DEF UriSpan
<1> DEFINE spaces == {i \in DOMAIN s : s[i] = "SP"}
<1>6. "SP" \notin Token /\ "SP" \notin NoSpace
  BY Characters DEF NoSpace
<1>7. k \in spaces /\ j \in spaces /\ k # j /\ spaces \in SUBSET Nat
  BY <1>3, <1>4, <1>5
<1>8. ASSUME NEW i \in spaces PROVE i = k \/ i >= j
  <2>1. i \in 1 .. Len(s) /\ s[i] = "SP"
    BY <1>4
  <2>2. i \notin 0 + 1 .. k - 1
    BY <1>5, <1>6, <2>1 DEF Span
  <2>3. i \notin k + 1 .. j - 1
    BY <1>5, <1>6, <2>1 DEF Span
  <2>4. QED
    BY <1>3, <1>5, <2>1, <2>2, <2>3
<1>9. Uri(s) = Slice(s, Min(spaces) + 1, Min(spaces \ {Min(spaces)}) - 1)
  BY DEF Uri
<1> HIDE DEF spaces
<1>10. Min(spaces) = k
  <2>1. Min(spaces) \in spaces /\ \A y \in spaces : Min(spaces) <= y
    BY <1>7, MinIsLeast
  <2>2. Min(spaces) <= k
    BY <1>7, <2>1
  <2>3. Min(spaces) = k \/ Min(spaces) >= j
    BY <1>8, <2>1
  <2>4. Min(spaces) \in Nat /\ k \in Nat /\ k < j
    <3>1. Min(spaces) \in Nat
      BY <1>7, <2>1
    <3>2. k \in Nat /\ k < j
      BY <1>3
    <3>3. QED
      BY <3>1, <3>2
  <2> DEFINE x == Min(spaces)
  <2>5. x \in Nat /\ x <= k /\ (x = k \/ x >= j)
    BY <2>2, <2>3, <2>4
  <2> HIDE DEF x
  <2>6. x = k
    BY <1>3, <2>4, <2>5
  <2>7. QED
    BY <2>6 DEF x
<1>11. Min(spaces \ {k}) = j
  <2> DEFINE rest == spaces \ {k}
  <2>1. rest \in SUBSET Nat /\ j \in rest /\ \A i \in rest : i >= j
    BY <1>7, <1>8
  <2> HIDE DEF rest
  <2>2. Min(rest) \in rest /\ \A y \in rest : Min(rest) <= y
    BY <2>1, MinIsLeast
  <2>3. Min(rest) = j
    <3> DEFINE x == Min(rest)
    <3>1. x \in Nat /\ x >= j /\ x <= j
      BY <2>1, <2>2
    <3> HIDE DEF x
    <3>2. x = j
      BY <1>3, <3>1
    <3>3. QED
      BY <3>2 DEF x
  <2>4. QED
    BY <2>3 DEF rest
<1>12. u = Uri(s)
  BY <1>5, <1>9, <1>10, <1>11 DEF Slice
<1>13. u \in Seq(Char)
  <2>1. k \in Nat /\ j - 1 \in k .. Len(s)
    BY <1>3, <1>4, <1>5
  <2>2. View(Slice(s, k + 1, j - 1), s, k, (j - 1) - k)
    BY <2>1, SliceView
  <2>3. QED
    BY <1>5, <2>2 DEF View, Slice
<1>14. QED
  BY <1>12, <1>13

LEMMA UriRead ==
  ASSUME NEW s, NEW f, Run(f, s), NEW r \in 0 .. Len(s), f[r].result = "true"
  PROVE  f[r].uri = Uri(s) /\ f[r].uri \in Seq(Char)
<1>1. PICK n \in 1 .. r : Complete(s, n)
  BY Verdicts
<1>2. Len(s) \in Nat /\ r \in Nat /\ n \in Nat /\ s \in Seq(Char)
  BY RunStep DEF Run
<1> DEFINE a == n - 2
<1>3. a \in 1 .. Len(s) /\ a \in Nat /\ s[a] = "LF" /\ LinesOK(s, a)
  BY <1>1, <1>2 DEF Complete
<1> HIDE DEF a
<1>4. Stands(s, f, a)
  BY <1>3, StandsHolds
<1> DEFINE e == First(s, a)
<1>5. a \in Newlines(s, a)
  BY <1>3 DEF Newlines
<1>6. e \in 1 .. a /\ s[e] = "LF" /\ Before(s, e) = 0
  <2>1. First(s, a) \in 1 .. a /\ s[First(s, a)] = "LF"
    BY <1>3, <1>5, FirstProperties
  <2>2. Before(s, First(s, a)) = 0
    BY <1>3, <1>5, <2>1, FirstProperties
  <2>3. QED
    BY <2>1, <2>2
<1> HIDE DEF e
<1>7. e \in Nat \ {0} /\ e \in 1 .. Len(s) /\ e \in 0 .. Len(s) /\ a \in e .. Len(s) /\ r \in e .. Len(s)
  <2>1. a <= r
    BY <1>1, <1>2 DEF a
  <2>2. QED
    BY <1>2, <1>3, <1>6, <2>1
<1>8. \A i \in 1 .. e - 1 : s[i] # "LF"
  BY <1>6, <1>7, BeforeProperties
<1>9. f[e].result = "indeterminate"
  <2>1. f[a].result = "indeterminate"
    BY <1>3, <1>4 DEF Stands
  <2>2. QED
    BY <1>7, <2>1, Decided
<1>10. e > 2 /\ FirstSpan(s, e - 2, f[e].uri) /\ At(f[e], "header_line_start")
  BY <1>6, <1>7, <1>8, <1>9, FirstRead
<1>11. e - 2 \in 0 .. Len(s)
  BY <1>2, <1>7, <1>10
<1>12. f[e].uri = Uri(s) /\ f[e].uri \in Seq(Char)
  BY <1>2, <1>10, <1>11, UriBetween
<1>13. f[r].uri = f[e].uri
  BY <1>7, <1>10, UriKept DEF At, LineStates
<1>14. QED
  BY <1>12, <1>13

(***************************************************************************)
(* The decoder.                                                            *)
(***************************************************************************)
DecodedChar == Char \cup {"other", "*"}
DecoderResult == [ok : BOOLEAN, out : Seq(DecodedChar)]
Done == [ok |-> TRUE, out |-> <<>>]

(* What is decoded from i on, when near is what is decoded from i + 1 on,  *)
(* and far from i + 3 on.                                                  *)
DecodeStep(in, i, near, far) ==
  IF i > Len(in) THEN Done
  ELSE IF in[i] # "%"
    THEN [near EXCEPT !.out = <<IF in[i] = "+" THEN "SP" ELSE in[i]>> \o @]
  ELSE IF i + 2 <= Len(in) /\ Extracts(in[i + 1], in[i + 2])
    THEN [far EXCEPT !.out = <<CharOf(Extracted(in[i + 1], in[i + 2]))>> \o @]
  ELSE [ok |-> FALSE, out |-> <<>>]

Decodes(f, in) ==
  f = [i \in 1 .. Len(in) + 3 |->
        IF i > Len(in) THEN [ok |-> TRUE, out |-> <<>>]
        ELSE IF in[i] # "%"
          THEN [f[i + 1] EXCEPT !.out = <<IF in[i] = "+" THEN "SP" ELSE in[i]>> \o @]
        ELSE IF i + 2 <= Len(in) /\ Extracts(in[i + 1], in[i + 2])
          THEN [f[i + 3] EXCEPT !.out = <<CharOf(Extracted(in[i + 1], in[i + 2]))>> \o @]
        ELSE [ok |-> FALSE, out |-> <<>>]]

LEMMA DecodeStepType ==
  ASSUME NEW in \in Seq(Char), NEW i \in Nat \ {0},
         NEW near \in DecoderResult, NEW far \in DecoderResult
  PROVE  DecodeStep(in, i, near, far) \in DecoderResult
<1>1. Done \in DecoderResult /\ [ok |-> FALSE, out |-> <<>>] \in DecoderResult
  BY DEF Done, DecoderResult
<1>2. ASSUME NEW r \in DecoderResult, NEW c \in DecodedChar
      PROVE  [r EXCEPT !.out = <<c>> \o @] \in DecoderResult
  <2>1. <<c>> \o r.out \in Seq(DecodedChar)
    BY DEF DecoderResult
  <2>2. QED
    BY <2>1 DEF DecoderResult
<1>3. CASE i <= Len(in) /\ in[i] # "%"
  <2>1. in[i] \in DecodedChar
    BY <1>3 DEF DecodedChar
  <2>2. "SP" \in DecodedChar
    BY DEF DecodedChar, Char, tspecial
  <2>3. (IF in[i] = "+" THEN "SP" ELSE in[i]) \in DecodedChar
    BY <2>1, <2>2
  <2>4. QED
    BY <1>2, <1>3, <2>3 DEF DecodeStep
<1>4. CASE i + 2 <= Len(in)
  <2>1. CharOf(Extracted(in[i + 1], in[i + 2])) \in DecodedChar
    BY DEF CharOf, DecodedChar, Char, Token
  <2>2. QED
    BY <1>1, <1>2, <1>3, <2>1 DEF DecodeStep
<1>5. QED
  BY <1>1, <1>3, <1>4 DEF DecodeStep

LEMMA DecodesExists ==
  ASSUME NEW in \in Seq(Char)
  PROVE  \E f : Decodes(f, in)
<1> DEFINE N == Len(in) + 3
           R == DecoderResult
           S == R \X R \X R
           next(x, n) == IF n < N - 1 THEN DecodeStep(in, N - 1 - n, x[1], x[3]) ELSE x[1]
           step == [y \in S \X Nat |-> <<next(y[1], y[2]), y[1][1], y[1][2]>>]
           q == <<Done, Done, Done>>
<1>1. q \in S
  <2>1. Done \in R
    BY DEF Done, DecoderResult
  <2> HIDE DEF R
  <2>2. QED
    BY <2>1
<1>2. ASSUME NEW x \in S, NEW n \in Nat PROVE next(x, n) \in R
  <2>1. x[1] \in R /\ x[3] \in R
    OBVIOUS
  <2>2. n < N - 1 => N - 1 - n \in Nat \ {0}
    OBVIOUS
  <2>3. QED
    BY <2>1, <2>2, DecodeStepType
<1>3. step \in [S \X Nat -> S]
  <2> HIDE DEF next
  <2> SUFFICES ASSUME NEW y \in S \X Nat PROVE <<next(y[1], y[2]), y[1][1], y[1][2]>> \in S
    OBVIOUS
  <2>1. y[1] \in S /\ y[2] \in Nat
    OBVIOUS
  <2>2. next(y[1], y[2]) \in R /\ y[1][1] \in R /\ y[1][2] \in R
    BY <1>2, <2>1
  <2>3. QED
    BY <2>2
<1>4. \A x \in S, n \in Nat : step[<<x, n>>] = <<next(x, n), x[1], x[2]>>
  OBVIOUS
<1> HIDE DEF step, q, S, next
<1>5. PICK g \in [Nat -> S] : Follows(g, q, step)
  BY <1>1, <1>3, Recursion
<1>6. g[0] = q /\ \A n \in Nat : g[n + 1] = <<next(g[n], n), g[n][1], g[n][2]>>
  BY <1>4, <1>5 DEF Follows
<1> DEFINE f == [i \in 1 .. N |-> g[N - i][1]]
<1>7. ASSUME NEW i \in 1 .. N, i > Len(in) PROVE f[i] = Done
  <2>1. g[0][1] = Done /\ g[0][2] = Done /\ g[0][3] = Done
    BY <1>6 DEF q
  <2>2. g[1][1] = Done /\ g[1][2] = Done
    <3>1. g[0 + 1] = <<next(g[0], 0), g[0][1], g[0][2]>> /\ 0 + 1 = 1
      <4>1. ASSUME NEW n \in Nat PROVE g[n + 1] = <<next(g[n], n), g[n][1], g[n][2]>>
        BY <1>6
      <4>2. 0 \in Nat /\ 0 + 1 = 1
        OBVIOUS
      <4>3. QED
        BY <4>1, <4>2, Zenon
    <3>2. next(g[0], 0) = Done
      BY <2>1 DEF next, DecodeStep
    <3>3. QED
      BY <2>1, <3>1, <3>2
  <2>3. g[2][1] = Done
    <3>1. 1 \in Nat /\ 1 + 1 = 2 /\ g[1 + 1] = <<next(g[1], 1), g[1][1], g[1][2]>>
      BY <1>6
    <3>2. next(g[1], 1) = Done
      BY <2>1 DEF next, DecodeStep
    <3>3. QED
      BY <3>1, <3>2
  <2>4. N - i \in {0, 1, 2}
    BY <1>7
  <2>5. QED
    BY <2>1, <2>2, <2>3, <2>4
<1>8. ASSUME NEW i \in 1 .. N, i <= Len(in) PROVE f[i] = DecodeStep(in, i, f[i + 1], f[i + 3])
  <2>1. N - i \in Nat /\ N - i - 1 \in Nat /\ N - i - 2 \in Nat /\ N - i - 3 \in Nat
    BY <1>8
  <2>2. /\ N - i = (N - i - 1) + 1 /\ N - i - 1 = (N - i - 2) + 1 /\ N - i - 2 = (N - i - 3) + 1
        /\ i + 1 \in 1 .. N /\ i + 3 \in 1 .. N
        /\ N - (i + 1) = N - i - 1 /\ N - (i + 3) = N - i - 3
        /\ N - 1 - (N - i - 1) = i /\ N - i - 1 < N - 1
    BY <1>8
  <2>3. f[i] = next(g[N - i - 1], N - i - 1)
    <3>1. g[(N - i - 1) + 1] = <<next(g[N - i - 1], N - i - 1), g[N - i - 1][1], g[N - i - 1][2]>>
      BY <1>6, <2>1
    <3>2. f[i] = g[N - i][1]
      OBVIOUS
    <3>3. g[N - i] = g[(N - i - 1) + 1]
      BY <2>2
    <3>4. QED
      BY <3>1, <3>2, <3>3
  <2>4. g[N - i - 1][3] = g[N - i - 2][2] /\ g[N - i - 2][2] = g[N - i - 3][1]
    <3> DEFINE n == N - i - 3
    <3>1. n \in Nat /\ n + 1 \in Nat /\ N - i - 2 = n + 1 /\ N - i - 1 = (n + 1) + 1
      BY <2>1
    <3> HIDE DEF n
    <3>2. g[n + 1] = <<next(g[n], n), g[n][1], g[n][2]>>
      BY <1>6, <3>1
    <3>3. g[(n + 1) + 1] = <<next(g[n + 1], n + 1), g[n + 1][1], g[n + 1][2]>>
      BY <1>6, <3>1
    <3>4. g[n + 1][2] = g[n][1] /\ g[(n + 1) + 1][3] = g[n + 1][2]
      BY <3>2, <3>3
    <3>5. QED
      BY <3>1, <3>4 DEF n
  <2>5. f[i + 1] = g[N - i - 1][1] /\ f[i + 3] = g[N - i - 3][1]
    BY <2>2
  <2>6. f[i] = DecodeStep(in, i, g[N - i - 1][1], g[N - i - 1][3])
    BY <2>2, <2>3 DEF next
  <2>7. QED
    BY <2>4, <2>5, <2>6
<1> HIDE DEF f
<1>9. \A i \in 1 .. N : f[i] = DecodeStep(in, i, f[i + 1], f[i + 3])
  <2> SUFFICES ASSUME NEW i \in 1 .. N PROVE f[i] = DecodeStep(in, i, f[i + 1], f[i + 3])
    OBVIOUS
  <2>1. CASE i > Len(in)
    BY <1>7, <2>1 DEF DecodeStep
  <2>2. CASE i <= Len(in)
    BY <1>8, <2>2
  <2>3. QED
    BY <2>1, <2>2
<1>10. f = [i \in 1 .. N |-> f[i]]
  BY DEF f
<1>11. f = [i \in 1 .. N |-> DecodeStep(in, i, f[i + 1], f[i + 3])]
  BY <1>9, <1>10
<1>12. Decodes(f, in)
  BY <1>11 DEF Decodes, DecodeStep, Done
<1>13. QED
  BY <1>12

LEMMA DecodesProperties ==
  ASSUME NEW in \in Seq(Char), NEW f, Decodes(f, in)
  PROVE  /\ \A i \in 1 .. Len(in) + 3 : f[i] = DecodeStep(in, i, f[i + 1], f[i + 3])
         /\ \A i \in 1 .. Len(in) + 3 : f[i] \in DecoderResult
<1> DEFINE N == Len(in) + 3
<1>1. \A i \in 1 .. N : f[i] = DecodeStep(in, i, f[i + 1], f[i + 3])
  BY DEF Decodes, DecodeStep, Done
<1> DEFINE S == {n \in Nat : n < N => f[N - n] \in DecoderResult}
<1>2. ASSUME NEW n \in Nat, \A m \in 0 .. n - 1 : m \in S PROVE n \in S
  <2> SUFFICES ASSUME n < N PROVE f[N - n] \in DecoderResult
    OBVIOUS
  <2>1. N - n \in 1 .. N
    OBVIOUS
  <2>2. CASE N - n > Len(in)
    <3>1. f[N - n] = Done
      BY <1>1, <2>1, <2>2 DEF DecodeStep
    <3>2. QED
      BY <3>1 DEF Done, DecoderResult
  <2>3. CASE N - n <= Len(in)
    <3>1. n - 1 \in 0 .. n - 1 /\ n - 3 \in 0 .. n - 1 /\ N - (n - 1) = N - n + 1 /\ N - (n - 3) = N - n + 3
      BY <2>3
    <3>2. f[N - n + 1] \in DecoderResult /\ f[N - n + 3] \in DecoderResult
      <4>1. f[N - (n - 1)] \in DecoderResult /\ f[N - (n - 3)] \in DecoderResult
        <5>1. n - 1 \in S /\ n - 3 \in S /\ n - 1 < N /\ n - 3 < N
          BY <1>2, <3>1
        <5>2. QED
          BY <5>1
      <4>2. QED
        BY <3>1, <4>1
    <3>3. QED
      BY <1>1, <2>1, <3>2, DecodeStepType
  <2>4. QED
    BY <2>1, <2>2, <2>3
<1> HIDE DEF S
<1>3. \A n \in Nat : n \in S
  BY <1>2, Strongly
<1>4. ASSUME NEW i \in 1 .. N PROVE f[i] \in DecoderResult
  <2>1. N - i \in Nat /\ N - i < N /\ N - (N - i) = i
    OBVIOUS
  <2>2. QED
    BY <1>3, <2>1 DEF S
<1>5. QED
  BY <1>1, <1>4

LEMMA DecodeRuns ==
  ASSUME NEW in \in Seq(Char)
  PROVE  \E f : Decodes(f, in) /\ url_decode(in) = f[1]
<1> DEFINE f == CHOOSE f : Decodes(f, in)
<1>1. Decodes(f, in)
  BY DecodesExists
<1>2. url_decode(in) = f[1]
  BY DEF url_decode, Decodes
<1>3. QED
  BY <1>1, <1>2

LEMMA DecodeType ==
  ASSUME NEW in \in Seq(Char)
  PROVE  url_decode(in) \in DecoderResult
<1>1. PICK f : Decodes(f, in) /\ url_decode(in) = f[1]
  BY DecodeRuns
<1>2. 1 \in 1 .. Len(in) + 3
  OBVIOUS
<1>3. QED
  BY <1>1, <1>2, DecodesProperties

(***************************************************************************)
(* What a well encoded uri decodes to.  Kept are the places of the         *)
(* characters that do not belong to an escape before them; the characters  *)
(* of the path are theirs, in their order.                                 *)
(***************************************************************************)
Escapes(u, i) == \E k \in DOMAIN u : u[k] = "%" /\ i \in {k + 1, k + 2}
Kept(u) == {i \in DOMAIN u : ~Escapes(u, i)}
UpTo(u, i) == {j \in Kept(u) : j <= i}
Rank(u, i) == Cardinality(UpTo(u, i))
Meant(u, i) ==
  CASE u[i] = "%" -> CharOf(16 * Hex(u[i + 1]) + Hex(u[i + 2]))
    [] u[i] = "+" -> "SP"
    [] OTHER -> u[i]

LEMMA RankStep ==
  ASSUME NEW u \in Seq(Char)
  PROVE  /\ Rank(u, 0) = 0 /\ Rank(u, Len(u)) = Cardinality(Kept(u))
         /\ \A i \in 0 .. Len(u) : Rank(u, i) \in Nat
         /\ \A i \in 1 .. Len(u) : Rank(u, i) = IF i \in Kept(u) THEN Rank(u, i - 1) + 1 ELSE Rank(u, i - 1)
<1>1. Len(u) \in Nat /\ Kept(u) \subseteq 1 .. Len(u)
  BY DEF Kept
<1>2. IsFiniteSet(Kept(u))
  <2>1. IsFiniteSet(1 .. Len(u))
    BY <1>1, FS_Interval
  <2>2. QED
    BY <1>1, <2>1, FS_Subset
<1>3. ASSUME NEW i PROVE IsFiniteSet(UpTo(u, i)) /\ Rank(u, i) \in Nat
  <2>1. UpTo(u, i) \subseteq Kept(u)
    BY DEF UpTo
  <2>2. IsFiniteSet(UpTo(u, i))
    BY <1>2, <2>1, FS_Subset
  <2>3. QED
    BY <2>2, FS_CardinalityType DEF Rank
<1>4. Rank(u, 0) = 0
  <2>1. UpTo(u, 0) = {}
    BY <1>1 DEF UpTo
  <2>2. QED
    BY <2>1, FS_EmptySet DEF Rank
<1>5. UpTo(u, Len(u)) = Kept(u)
  BY <1>1 DEF UpTo
<1>6. ASSUME NEW i \in 1 .. Len(u)
      PROVE  Rank(u, i) = IF i \in Kept(u) THEN Rank(u, i - 1) + 1 ELSE Rank(u, i - 1)
  <2>1. CASE i \in Kept(u)
    <3>1. UpTo(u, i) = UpTo(u, i - 1) \cup {i} /\ i \notin UpTo(u, i - 1)
      BY <1>1, <2>1 DEF UpTo
    <3>2. Cardinality(UpTo(u, i - 1) \cup {i}) = Cardinality(UpTo(u, i - 1)) + 1
      BY <1>3, <3>1, FS_AddElement
    <3>3. QED
      BY <2>1, <3>1, <3>2 DEF Rank
  <2>2. CASE i \notin Kept(u)
    <3>1. UpTo(u, i) = UpTo(u, i - 1)
      BY <1>1, <2>2 DEF UpTo
    <3>2. QED
      BY <2>2, <3>1 DEF Rank
  <2>3. QED
    BY <2>1, <2>2
<1>7. QED
  BY <1>3, <1>4, <1>5, <1>6 DEF Rank

(* Ranks grow, and every number up to the last is one.                     *)
LEMMA RankGrows ==
  ASSUME NEW u \in Seq(Char), NEW i \in 0 .. Len(u), NEW j \in i .. Len(u)
  PROVE  Rank(u, i) <= Rank(u, j)
<1> DEFINE T == {n \in 0 .. j - i : Rank(u, i) <= Rank(u, i + n)}
<1>1. Len(u) \in Nat /\ i \in Nat /\ j \in Nat /\ j - i \in Int
  OBVIOUS
<1>2. 0 \in T
  BY <1>1, RankStep
<1>3. ASSUME NEW n \in 0 .. (j - i) - 1, n \in T PROVE n + 1 \in T
  <2>1. i + (n + 1) \in 1 .. Len(u) /\ (i + (n + 1)) - 1 = i + n /\ n + 1 \in 0 .. j - i /\ i + n \in 0 .. Len(u)
    BY <1>1
  <2>2. Rank(u, i) <= Rank(u, i + n) /\ Rank(u, i + n) \in Nat /\ Rank(u, i) \in Nat
    BY <1>3, <2>1, RankStep
  <2>3. Rank(u, i + (n + 1)) \in {Rank(u, i + n), Rank(u, i + n) + 1}
    BY <2>1, RankStep
  <2>4. QED
    BY <2>1, <2>2, <2>3
<1> HIDE DEF T
<1>4. \A n \in 0 .. j - i : n \in T
  <2> DEFINE m == j - i
  <2>1. m \in Int /\ \A n \in 0 .. m - 1 : n \in T => n + 1 \in T
    BY <1>1, <1>3
  <2> HIDE DEF m
  <2>2. \A n \in 0 .. m : n \in T
    BY <1>2, <2>1, Upwards
  <2>3. QED
    BY <2>2 DEF m
<1>5. j - i \in 0 .. j - i /\ i + (j - i) = j
  BY <1>1
<1>6. QED
  BY <1>4, <1>5 DEF T

LEMMA RankFills ==
  ASSUME NEW u \in Seq(Char), NEW n \in 1 .. Cardinality(Kept(u))
  PROVE  \E i \in Kept(u) : Rank(u, i) = n
<1> DEFINE T == {i \in 0 .. Len(u) : n <= Rank(u, i)}
<1>1. Len(u) \in Nat /\ n \in Nat /\ n >= 1
  <2>1. Cardinality(Kept(u)) \in Nat
    BY RankStep
  <2>2. QED
    BY <2>1
<1>2. T \in SUBSET Nat /\ T # {}
  <2>1. Len(u) \in 0 .. Len(u) /\ n <= Rank(u, Len(u))
    BY <1>1, RankStep
  <2>2. QED
    BY <2>1
<1>3. PICK i \in T : \A j \in T : i <= j
  BY <1>2, LeastElement
<1>4. i \in 0 .. Len(u) /\ n <= Rank(u, i)
  OBVIOUS
<1>5. i # 0
  BY <1>1, <1>4, RankStep
<1>6. i \in 1 .. Len(u) /\ i - 1 \in 0 .. Len(u) /\ ~(i <= i - 1)
  BY <1>1, <1>4, <1>5
<1>7. ~(n <= Rank(u, i - 1))
  BY <1>3, <1>6
<1>8. Rank(u, i - 1) \in Nat /\ Rank(u, i) = IF i \in Kept(u) THEN Rank(u, i - 1) + 1 ELSE Rank(u, i - 1)
  BY <1>6, RankStep
<1>9. i \in Kept(u) /\ Rank(u, i) = n
  BY <1>1, <1>4, <1>7, <1>8
<1>10. QED
  BY <1>9

(* One character put before what is decoded.                               *)
Prepend(r, c) == [r EXCEPT !.out = <<c>> \o @]

(* What a decoder makes of u from i on.                                    *)
DecodedFrom(r, u, i) ==
  /\ r.ok /\ r.out \in Seq(DecodedChar) /\ Len(r.out) = Rank(u, Len(u)) - Rank(u, i - 1)
  /\ \A j \in Kept(u) :
       j >= i => /\ Rank(u, j) - Rank(u, i - 1) \in 1 .. Len(r.out)
                 /\ r.out[Rank(u, j) - Rank(u, i - 1)] = Meant(u, j)

LEMMA ConsProperties ==
  ASSUME NEW S, NEW s \in Seq(S), NEW c \in S
  PROVE  /\ <<c>> \o s \in Seq(S) /\ Len(<<c>> \o s) = Len(s) + 1
         /\ (<<c>> \o s)[1] = c /\ \A k \in 1 .. Len(s) : (<<c>> \o s)[k + 1] = s[k]
<1>1. <<c>> \in Seq(S) /\ Len(<<c>>) = 1
  OBVIOUS
<1>2. Len(s) \in Nat /\ 1 \in 1 .. 1 + Len(s)
  OBVIOUS
<1>3. ASSUME NEW k \in 1 .. Len(s) PROVE (<<c>> \o s)[k + 1] = s[k]
  <2>1. k + 1 \in 1 .. 1 + Len(s) /\ k + 1 > 1 /\ (k + 1) - 1 = k
    BY <1>2
  <2>2. QED
    BY <1>1, <1>2, <2>1
<1>4. QED
  BY <1>1, <1>2, <1>3

(* One character more, which stands for the places from i up to j - 1.     *)
LEMMA DecodedMore ==
  ASSUME NEW u \in Seq(Char), NEW i \in Kept(u), NEW j \in i + 1 .. Len(u) + 1,
         \A k \in i + 1 .. j - 1 : k \notin Kept(u), NEW r \in DecoderResult, DecodedFrom(r, u, j),
         Meant(u, i) \in DecodedChar
  PROVE  DecodedFrom(Prepend(r, Meant(u, i)), u, i)
<1> DEFINE c == Meant(u, i)
           out == <<c>> \o r.out
           q == [r EXCEPT !.out = <<c>> \o @]
<1>1. Len(u) \in Nat /\ i \in 1 .. Len(u) /\ j \in Nat /\ i \in Nat /\ i - 1 \in 0 .. Len(u) /\ j - 1 \in 0 .. Len(u)
      /\ i \in 0 .. Len(u)
  BY DEF Kept
<1>2. Rank(u, j - 1) = Rank(u, i - 1) + 1 /\ Rank(u, i) = Rank(u, i - 1) + 1
  <2> DEFINE T == {n \in 0 .. j - 1 - i : Rank(u, i + n) = Rank(u, i)}
             m == (j - 1) - i
  <2>1. Rank(u, i) = Rank(u, i - 1) + 1
    BY <1>1, RankStep
  <2>2. ASSUME NEW n \in 0 .. m - 1, n \in T PROVE n + 1 \in T
    <3>1. i + (n + 1) \in 1 .. Len(u) /\ (i + (n + 1)) - 1 = i + n /\ n + 1 \in 0 .. j - 1 - i
          /\ i + (n + 1) \in i + 1 .. j - 1
      BY <1>1
    <3>2. Rank(u, i + (n + 1)) = Rank(u, i + n)
      BY <3>1, RankStep
    <3>3. QED
      BY <2>2, <3>1, <3>2
  <2>3. 0 \in T /\ m \in Int /\ m \in 0 .. m /\ i + m = j - 1
    BY <1>1
  <2> HIDE DEF m
  <2>4. \A n \in T : Rank(u, i + n) = Rank(u, i)
    OBVIOUS
  <2> HIDE DEF T
  <2>5. \A n \in 0 .. m : n \in T
    BY <2>2, <2>3, Upwards
  <2>6. Rank(u, i + m) = Rank(u, i)
    BY <2>3, <2>4, <2>5
  <2>7. QED
    BY <2>1, <2>3, <2>6
<1>3. /\ Rank(u, i - 1) \in Nat /\ Rank(u, Len(u)) \in Nat /\ Rank(u, j - 1) \in Nat
      /\ \A k \in Kept(u) : Rank(u, k) \in Nat
  <2>1. \A k \in Kept(u) : k \in 0 .. Len(u)
    BY DEF Kept
  <2>2. Len(u) \in 0 .. Len(u)
    BY <1>1
  <2>3. QED
    BY <1>1, <2>1, <2>2, RankStep
<1>4. /\ r.ok /\ r.out \in Seq(DecodedChar) /\ Len(r.out) = Rank(u, Len(u)) - Rank(u, j - 1)
      /\ \A k \in Kept(u) :
           k >= j => /\ Rank(u, k) - Rank(u, j - 1) \in 1 .. Len(r.out)
                     /\ r.out[Rank(u, k) - Rank(u, j - 1)] = Meant(u, k)
  BY DEF DecodedFrom
<1>5. q.ok = r.ok /\ q.out = out
  BY DEF DecoderResult
<1>6. /\ out \in Seq(DecodedChar) /\ Len(out) = Len(r.out) + 1 /\ out[1] = c
      /\ \A k \in 1 .. Len(r.out) : out[k + 1] = r.out[k]
  BY <1>4, ConsProperties
<1> HIDE DEF q, out, c
<1>7. Len(out) = Rank(u, Len(u)) - Rank(u, i - 1) /\ Len(r.out) \in Nat
  BY <1>2, <1>3, <1>4, <1>6
<1>8. ASSUME NEW k \in Kept(u), k >= i
      PROVE  /\ Rank(u, k) - Rank(u, i - 1) \in 1 .. Len(out)
             /\ out[Rank(u, k) - Rank(u, i - 1)] = Meant(u, k)
  <2>1. CASE k = i
    <3>1. Rank(u, k) - Rank(u, i - 1) = 1
      BY <1>2, <1>3, <2>1
    <3>2. QED
      BY <1>6, <1>7, <2>1, <3>1 DEF c
  <2>2. CASE k # i
    <3>1. k \in 1 .. Len(u)
      BY DEF Kept
    <3>2. k >= j
      BY <1>1, <1>8, <2>2, <3>1
    <3> DEFINE x == Rank(u, k) - Rank(u, j - 1)
    <3>3. x \in 1 .. Len(r.out) /\ r.out[x] = Meant(u, k) /\ Rank(u, k) - Rank(u, i - 1) = x + 1
      BY <1>2, <1>3, <1>4, <3>2
    <3> HIDE DEF x
    <3>4. out[x + 1] = Meant(u, k) /\ x + 1 \in 1 .. Len(out)
      BY <1>6, <1>7, <3>3
    <3>5. QED
      BY <3>3, <3>4
  <2>3. QED
    BY <2>1, <2>2
<1>9. DecodedFrom(q, u, i)
  BY <1>4, <1>5, <1>6, <1>7, <1>8 DEF DecodedFrom
<1>10. QED
  BY <1>9 DEF q, c, Prepend

LEMMA MeantType ==
  ASSUME NEW u \in Seq(Char), NEW i \in DOMAIN u
  PROVE  Meant(u, i) \in DecodedChar
<1>1. u[i] \in Char /\ "SP" \in Char
  <2>1. i \in 1 .. Len(u)
    OBVIOUS
  <2>2. u[i] \in Char
    BY <2>1
  <2>3. QED
    BY <2>2 DEF Char, tspecial
<1>2. \A n : CharOf(n) \in DecodedChar
  BY DEF CharOf, DecodedChar, Char, Token
<1>3. QED
  BY <1>1, <1>2 DEF Meant, DecodedChar

LEMMA DecodesValid ==
  ASSUME NEW u \in Seq(Char), ValidEncoding(u), NEW f, Decodes(f, u)
  PROVE  DecodedFrom(f[1], u, 1)
<1> DEFINE N == Len(u)
           Good(i) == ~Escapes(u, i) => DecodedFrom(f[i], u, i)
           S == {n \in Nat : n <= N => Good(N + 1 - n)}
<1>1. N \in Nat /\ DOMAIN u = 1 .. N
  OBVIOUS
<1>2. /\ \A i \in 1 .. N + 3 : f[i] = DecodeStep(u, i, f[i + 1], f[i + 3])
      /\ \A i \in 1 .. N + 3 : f[i] \in DecoderResult
  BY DecodesProperties
<1>3. \A i \in 1 .. N : u[i] = "%" => i + 2 <= N /\ u[i + 1] \in HexDigit /\ u[i + 2] \in HexDigit
  BY <1>1 DEF ValidEncoding
<1>4. "%" \notin HexDigit /\ "+" \notin HexDigit /\ "-" \notin HexDigit
  BY DEF HexDigit, Digit
<1>5. \A i \in 1 .. N : i \in Kept(u) <=> ~Escapes(u, i)
  BY <1>1 DEF Kept
<1>6. Good(N + 1)
  <2>1. f[N + 1] = Done
    <3> DEFINE i == N + 1
    <3>1. i \in 1 .. N + 3 /\ i > Len(u)
      BY <1>1
    <3> HIDE DEF i
    <3>2. f[i] = Done
      BY <1>2, <3>1 DEF DecodeStep
    <3>3. QED
      BY <3>2 DEF i
  <2>2. (N + 1) - 1 = N /\ Rank(u, N) - Rank(u, N) = 0
    <3>1. N \in 0 .. Len(u)
      BY <1>1
    <3>2. Rank(u, N) \in Nat
      BY <3>1, RankStep
    <3>3. QED
      BY <1>1, <3>2
  <2>3. \A j \in Kept(u) : ~(j >= N + 1)
    BY <1>1 DEF Kept
  <2>4. Done.ok /\ Done.out \in Seq(DecodedChar) /\ Len(Done.out) = 0
    BY DEF Done
  <2>5. QED
    BY <2>1, <2>2, <2>3, <2>4 DEF DecodedFrom
<1>7. ASSUME NEW i \in 1 .. N, ~Escapes(u, i), Good(i + 1), i + 3 <= N + 1 => Good(i + 3)
      PROVE  DecodedFrom(f[i], u, i)
  <2>1. i \in Kept(u) /\ i \in 1 .. N + 3 /\ i + 1 \in 1 .. N + 3 /\ i + 3 \in 1 .. N + 3 /\ ~(i > Len(u))
    BY <1>1, <1>5, <1>7
  <2>2. f[i] = DecodeStep(u, i, f[i + 1], f[i + 3]) /\ f[i + 1] \in DecoderResult /\ f[i + 3] \in DecoderResult
    BY <1>2, <2>1
  <2>3. Meant(u, i) \in DecodedChar
    BY <1>1, MeantType
  <2>4. CASE u[i] # "%"
    <3>1. f[i] = Prepend(f[i + 1], Meant(u, i))
      BY <2>1, <2>2, <2>4 DEF DecodeStep, Meant, Prepend
    <3>2. ~Escapes(u, i + 1)
      <4> SUFFICES ASSUME NEW k \in 1 .. N, u[k] = "%", i + 1 \in {k + 1, k + 2} PROVE FALSE
        BY <1>1 DEF Escapes
      <4>1. k = i \/ i = k + 1
        BY <1>1
      <4>2. QED
        BY <1>1, <1>7, <2>4, <4>1 DEF Escapes
    <3>3. DecodedFrom(f[i + 1], u, i + 1)
      BY <1>7, <3>2
    <3>4. i + 1 \in i + 1 .. Len(u) + 1 /\ \A k \in i + 1 .. (i + 1) - 1 : k \notin Kept(u)
      BY <1>1
    <3>5. QED
      BY <2>1, <2>2, <2>3, <3>1, <3>3, <3>4, DecodedMore
  <2>5. CASE u[i] = "%"
    <3>1. i + 2 <= N /\ u[i + 1] \in HexDigit /\ u[i + 2] \in HexDigit
      BY <1>3, <2>5
    <3>2. Extracts(u[i + 1], u[i + 2])
      BY <3>1 DEF Extracts
    <3>3. CharOf(Extracted(u[i + 1], u[i + 2])) = Meant(u, i)
      BY <1>4, <2>5, <3>1 DEF Extracted, Meant
    <3>4. f[i] = Prepend(f[i + 3], Meant(u, i))
      <4>1. f[i] = Prepend(f[i + 3], CharOf(Extracted(u[i + 1], u[i + 2])))
        BY <1>1, <2>1, <2>2, <2>5, <3>1, <3>2 DEF DecodeStep, Prepend
      <4>2. QED
        BY <3>3, <4>1
    <3>5. ~Escapes(u, i + 3)
      <4> SUFFICES ASSUME NEW k \in 1 .. N, u[k] = "%", i + 3 \in {k + 1, k + 2} PROVE FALSE
        BY <1>1 DEF Escapes
      <4>1. k = i + 2 \/ k = i + 1
        BY <1>1
      <4>2. QED
        BY <1>4, <3>1, <4>1
    <3>6. DecodedFrom(f[i + 3], u, i + 3)
      BY <1>1, <1>7, <3>1, <3>5
    <3>7. i + 3 \in i + 1 .. Len(u) + 1 /\ \A k \in i + 1 .. (i + 3) - 1 : k \notin Kept(u)
      <4>1. i + 3 \in i + 1 .. Len(u) + 1
        BY <1>1, <3>1
      <4>2. ASSUME NEW k \in i + 1 .. (i + 3) - 1 PROVE k \notin Kept(u)
        <5>1. k \in {i + 1, i + 2} /\ i \in DOMAIN u
          BY <1>1
        <5>2. Escapes(u, k)
          BY <2>5, <5>1 DEF Escapes
        <5>3. QED
          BY <5>2 DEF Kept
      <4>3. QED
        BY <4>1, <4>2
    <3>8. QED
      BY <2>1, <2>2, <2>3, <3>4, <3>6, <3>7, DecodedMore
  <2>6. QED
    BY <2>4, <2>5
<1> HIDE DEF Good
<1>8. ASSUME NEW n \in Nat, \A m \in 0 .. n - 1 : m \in S PROVE n \in S
  <2> SUFFICES ASSUME n <= N PROVE Good(N + 1 - n)
    OBVIOUS
  <2>1. CASE n = 0
    BY <1>1, <1>6, <2>1
  <2>2. CASE n # 0
    <3> DEFINE i == N + 1 - n
    <3>1. i \in 1 .. N /\ N + 1 - (n - 1) = i + 1 /\ n - 1 \in 0 .. n - 1
      BY <1>1, <2>2
    <3>2. Good(i + 1)
      <4>1. n - 1 \in S /\ n - 1 <= N
        BY <1>1, <1>8, <3>1
      <4>2. Good(N + 1 - (n - 1))
        BY <4>1
      <4>3. QED
        BY <3>1, <4>2
    <3>3. ASSUME i + 3 <= N + 1 PROVE Good(i + 3)
      <4>1. n - 3 \in 0 .. n - 1 /\ N + 1 - (n - 3) = i + 3 /\ n - 3 <= N
        BY <1>1, <2>2, <3>3
      <4>2. n - 3 \in S
        BY <1>8, <4>1
      <4>3. Good(N + 1 - (n - 3))
        BY <4>1, <4>2
      <4>4. QED
        BY <4>1, <4>3
    <3> HIDE DEF i
    <3>4. Good(i)
      BY <1>7, <3>1, <3>2, <3>3 DEF Good
    <3>5. QED
      BY <3>4 DEF i
  <2>3. QED
    BY <2>1, <2>2
<1> HIDE DEF S
<1>9. \A n \in Nat : n \in S
  BY <1>8, Strongly
<1>10. Good(1)
  <2>1. N \in S /\ N + 1 - N = 1 /\ N <= N
    BY <1>1, <1>9
  <2>2. Good(N + 1 - N)
    BY <2>1 DEF S
  <2>3. QED
    BY <2>1, <2>2
<1>11. ~Escapes(u, 1)
  BY <1>1 DEF Escapes
<1>12. QED
  BY <1>10, <1>11 DEF Good

(* The decoder and the encoding agree.                                     *)
LEMMA DecodedIsMeant ==
  ASSUME NEW u \in Seq(Char), ValidEncoding(u)
  PROVE  url_decode(u).ok /\ url_decode(u).out = Decoded(u)
<1>1. PICK f : Decodes(f, u) /\ url_decode(u) = f[1]
  BY DecodeRuns
<1>2. DecodedFrom(f[1], u, 1)
  BY <1>1, DecodesValid
<1> DEFINE out == f[1].out
           C == Cardinality(Kept(u))
           at(n) == CHOOSE i \in Kept(u) : Rank(u, i) = n
           d == [n \in 1 .. C |-> Meant(u, at(n))]
<1>3. Rank(u, 1 - 1) = 0 /\ Rank(u, Len(u)) = C /\ C \in Nat
  <2>1. Rank(u, 0) = 0 /\ Rank(u, Len(u)) = C
    BY RankStep
  <2>2. Len(u) \in 0 .. Len(u) /\ 1 - 1 = 0
    OBVIOUS
  <2>3. QED
    BY <2>1, <2>2, RankStep
<1>4. /\ f[1].ok /\ out \in Seq(DecodedChar) /\ Len(out) = C
      /\ \A j \in Kept(u) : Rank(u, j) \in 1 .. C /\ out[Rank(u, j)] = Meant(u, j)
  <2>1. /\ f[1].ok /\ out \in Seq(DecodedChar) /\ Len(out) = C - 0
        /\ \A j \in Kept(u) : j >= 1 => Rank(u, j) - 0 \in 1 .. Len(out) /\ out[Rank(u, j) - 0] = Meant(u, j)
    BY <1>2, <1>3 DEF DecodedFrom
  <2>2. ASSUME NEW j \in Kept(u) PROVE j >= 1 /\ Rank(u, j) - 0 = Rank(u, j)
    <3>1. j \in 1 .. Len(u) /\ j \in 0 .. Len(u)
      BY DEF Kept
    <3>2. Rank(u, j) \in Nat
      BY <3>1, RankStep
    <3>3. QED
      BY <3>1, <3>2
  <2>3. C - 0 = C
    BY <1>3
  <2>4. QED
    BY <2>1, <2>2, <2>3
<1>5. Decoded(u) = d
  BY DEF Decoded, Kept, Escapes, Rank, UpTo, Meant
<1>6. ASSUME NEW n \in 1 .. C PROVE out[n] = Meant(u, at(n))
  <2>1. at(n) \in Kept(u) /\ Rank(u, at(n)) = n
    BY RankFills
  <2> HIDE DEF at
  <2>2. out[Rank(u, at(n))] = Meant(u, at(n))
    BY <1>4, <2>1
  <2>3. QED
    BY <2>1, <2>2
<1> HIDE DEF at
<1>7. out = d
  <2>1. out = [n \in 1 .. C |-> out[n]]
    <3>1. out \in [1 .. Len(out) -> DecodedChar]
      BY <1>4
    <3>2. QED
      BY <1>4, <3>1
  <2>2. QED
    BY <1>6, <2>1
<1>8. QED
  BY <1>1, <1>4, <1>5, <1>7

(***************************************************************************)
(* The handler.                                                            *)
(***************************************************************************)
Path == Seq(DecodedChar)

(* The file of a directory is as safe as the directory.                    *)
LEMMA FilePathIsSafe ==
  ASSUME NEW path \in Path, path # <<>>, Head(path) = "/", ~HasDots(path)
  PROVE  FilePath(path) \in Path /\ Head(FilePath(path)) = "/" /\ ~HasDots(FilePath(path))
<1>1. CASE Last(path) # "/"
  BY <1>1 DEF FilePath
<1>2. CASE Last(path) = "/"
  <2> DEFINE index == <<"index", ".", "html">>
             file == path \o index
             n == Len(path)
  <2>1. index \in Path
    <3>1. "index" \in DecodedChar /\ "." \in DecodedChar /\ "html" \in DecodedChar
      BY DEF DecodedChar, Char, Token, Word
    <3>2. QED
      BY <3>1 DEF Path
  <2>2. /\ file \in Path /\ Len(file) = n + 3 /\ n \in Nat \ {0}
        /\ \A i \in 1 .. n : file[i] = path[i]
        /\ file[n + 1] = "index" /\ file[n + 2] = "." /\ file[n + 3] = "html"
    BY <2>1 DEF Path
  <2>3. Head(file) = "/" /\ path[n] = "/"
    BY <1>2, <2>2 DEF Last, Path
  <2> HIDE DEF file
  <2>4. ~HasDots(file)
    <3> SUFFICES ASSUME NEW i \in 1 .. Len(file) - 1, file[i] = ".", file[i + 1] = "." PROVE FALSE
      BY DEF HasDots
    <3>1. CASE i < n
      <4>1. path[i] = "." /\ path[i + 1] = "." /\ i \in 1 .. Len(path) - 1
        BY <2>2, <3>1
      <4>2. QED
        BY <4>1 DEF HasDots
    <3>2. CASE i = n
      BY <2>2, <2>3, <3>2
    <3>3. CASE i = n + 1 \/ i = n + 2
      BY <2>2, <3>3
    <3>4. QED
      BY <2>2, <3>1, <3>2, <3>3
  <2>5. FilePath(path) = file
    BY <1>2 DEF FilePath, file
  <2>6. QED
    BY <2>2, <2>3, <2>4, <2>5
<1>3. QED
  BY <1>1, <1>2

(* A reply names a file below the root or none.                            *)
Safe(file) == file # None => Head(file) = "/" /\ ~HasDots(file)
ReplyOK(r) ==
  /\ r.status \in {"ok", "not_found", "bad_request"}
  /\ r.file \in Path /\ Safe(r.file)
  /\ r.type \in {"text/plain", "text/html", "image/gif"}

LEMMA BadRequestOK == ReplyOK(stock_reply("bad_request", None))
BY DEF ReplyOK, stock_reply, None, Safe, Path

LEMMA HandleRequestOK ==
  ASSUME NEW in \in Seq(Char)
  PROVE  ReplyOK(handle_request(in))
<1> DEFINE d == url_decode(in)
           path == FilePath(d.out)
<1>1. d.out \in Path
  BY DecodeType DEF DecoderResult, Path
<1>2. CASE ~d.ok \/ d.out = <<>> \/ Head(d.out) # "/" \/ HasDots(d.out)
  BY <1>2, BadRequestOK DEF handle_request
<1>3. CASE ~(~d.ok \/ d.out = <<>> \/ Head(d.out) # "/" \/ HasDots(d.out))
  <2>1. path \in Path /\ Safe(path)
    BY <1>1, <1>3, FilePathIsSafe DEF Safe
  <2>2. extension_to_type(extension(path)) \in {"text/plain", "text/html", "image/gif"}
    BY DEF extension_to_type, mappings
  <2>3. handle_request(in) =
          IF path \notin Files THEN stock_reply("not_found", path)
          ELSE [status |-> "ok", file |-> path, type |-> extension_to_type(extension(path))]
    BY <1>3 DEF handle_request
  <2> HIDE DEF path
  <2>4. QED
    BY <2>1, <2>2, <2>3 DEF ReplyOK, stock_reply
<1>4. QED
  BY <1>2, <1>3

(***************************************************************************)
(* The type of a file: the word behind the dot its path ends in.           *)
(***************************************************************************)
LastOf(path, c) ==
  LET I == {i \in 1 .. Len(path) : path[i] = c}
  IN  IF I # {} THEN Max(I) ELSE 0
EndsIn(path, w) == Len(path) > 1 /\ SubSeq(path, Len(path) - 1, Len(path)) = <<".", w>>

LEMMA LastOfProperties ==
  ASSUME NEW path \in Path, NEW c
  PROVE  /\ LastOf(path, c) \in 0 .. Len(path)
         /\ LastOf(path, c) # 0 => path[LastOf(path, c)] = c
         /\ \A i \in 1 .. Len(path) : path[i] = c => i <= LastOf(path, c)
<1> DEFINE I == {i \in 1 .. Len(path) : path[i] = c}
<1>1. Len(path) \in Nat /\ I \in SUBSET (0 .. Len(path)) /\ I \subseteq 1 .. Len(path)
  BY DEF Path
<1>2. LastOf(path, c) = IF I # {} THEN Max(I) ELSE 0
  BY DEF LastOf
<1>3. \A i \in I : path[i] = c
  OBVIOUS
<1>4. \A i \in 1 .. Len(path) : path[i] = c => i \in I
  OBVIOUS
<1> HIDE DEF I
<1>5. CASE I = {}
  BY <1>1, <1>2, <1>4, <1>5
<1>6. CASE I # {}
  <2>1. Max(I) \in I /\ \A y \in I : y <= Max(I)
    BY <1>1, <1>6, MaxIsGreatest
  <2>2. QED
    BY <1>1, <1>2, <1>3, <1>4, <1>6, <2>1
<1>7. QED
  BY <1>5, <1>6

LEMMA EndsInProperties ==
  ASSUME NEW path \in Path, NEW w \in {"html", "gif"}
  PROVE  EndsIn(path, w) <=> Len(path) > 1 /\ path[Len(path) - 1] = "." /\ path[Len(path)] = w
<1>1. Len(path) \in Nat /\ path \in Seq(DecodedChar)
  BY DEF Path
<1>2. ASSUME Len(path) > 1
      PROVE  SubSeq(path, Len(path) - 1, Len(path)) = <<".", w>> <=>
               path[Len(path) - 1] = "." /\ path[Len(path)] = w
  <2> DEFINE n == Len(path)
             t == SubSeq(path, n - 1, n)
  <2>1. \A i \in n - 1 .. n : path[i] \in DecodedChar
    BY <1>1, <1>2
  <2>2. n - 1 \in Int /\ n \in Int /\ n - 1 <= n /\ n - (n - 1) + 1 = 2
    BY <1>1
  <2> HIDE DEF n
  <2>3. /\ t \in Seq(DecodedChar) /\ Len(t) = n - (n - 1) + 1
        /\ \A i \in 1 .. n - (n - 1) + 1 : t[i] = path[(n - 1) + i - 1]
    BY <2>1, <2>2, SubSeqProperties
  <2> HIDE DEF t
  <2>4. Len(t) = 2 /\ t[1] = path[n - 1] /\ t[2] = path[n]
    <3>1. 1 \in 1 .. 2 /\ 2 \in 1 .. 2 /\ (n - 1) + 1 - 1 = n - 1 /\ (n - 1) + 2 - 1 = n
      BY <2>2
    <3>2. t[1] = path[(n - 1) + 1 - 1] /\ t[2] = path[(n - 1) + 2 - 1]
      BY <2>2, <2>3, <3>1
    <3>3. QED
      BY <2>2, <2>3, <3>1, <3>2
  <2>5. <<".", w>> \in Seq(DecodedChar)
    BY DEF DecodedChar, Char, Token, Word
  <2>6. ASSUME t[1] = ".", t[2] = w PROVE t = <<".", w>>
    <3> DEFINE v == <<".", w>>
    <3>1. v \in Seq(DecodedChar) /\ Len(v) = 2 /\ v[1] = "." /\ v[2] = w
      BY <2>5
    <3> HIDE DEF v
    <3>2. \A i \in 1 .. Len(t) : t[i] = v[i]
      <4>1. \A i \in 1 .. Len(t) : i = 1 \/ i = 2
        BY <2>4
      <4>2. QED
        BY <2>6, <3>1, <4>1
    <3>3. t = v
      BY <2>3, <2>4, <3>1, <3>2, SeqEqual
    <3>4. QED
      BY <3>3 DEF v
  <2>7. ASSUME t = <<".", w>> PROVE t[1] = "." /\ t[2] = w
    BY <2>7
  <2>8. t = <<".", w>> <=> path[n - 1] = "." /\ path[n] = w
    BY <2>4, <2>6, <2>7
  <2>9. QED
    BY <2>8 DEF t, n
<1>3. QED
  BY <1>2 DEF EndsIn

LEMMA FileType ==
  ASSUME NEW path \in Path
  PROVE  extension_to_type(extension(path)) =
           IF EndsIn(path, "html") THEN "text/html"
           ELSE IF EndsIn(path, "gif") THEN "image/gif"
           ELSE "text/plain"
<1> DEFINE dot == LastOf(path, ".")
           slash == LastOf(path, "/")
           n == Len(path)
           ext == extension(path)
<1>1. extension(path) = IF dot > slash THEN SubSeq(path, dot + 1, n) ELSE <<>>
  BY DEF extension, SelectLastInSeq, LastOf
<1>2. n \in Nat /\ path \in Seq(DecodedChar)
  BY DEF Path
<1>3. /\ dot \in 0 .. n /\ (dot # 0 => path[dot] = ".") /\ \A i \in 1 .. n : path[i] = "." => i <= dot
      /\ slash \in 0 .. n /\ (slash # 0 => path[slash] = "/") /\ \A i \in 1 .. n : path[i] = "/" => i <= slash
  BY LastOfProperties
<1>4. /\ EndsIn(path, "html") <=> n > 1 /\ path[n - 1] = "." /\ path[n] = "html"
      /\ EndsIn(path, "gif") <=> n > 1 /\ path[n - 1] = "." /\ path[n] = "gif"
  BY EndsInProperties
<1> HIDE DEF dot, slash, n, ext
<1>5. extension_to_type(ext) =
        IF Len(ext) = 1 /\ ext[1] \in {"gif", "html"}
        THEN (IF ext[1] = "gif" THEN "image/gif" ELSE "text/html") ELSE "text/plain"
  BY DEF extension_to_type, mappings
<1>6. dot > slash =>
        /\ Len(ext) = n - dot
        /\ n - dot = 1 => ext[1] = path[n]
  <2> SUFFICES ASSUME dot > slash
               PROVE  Len(ext) = n - dot /\ (n - dot = 1 => ext[1] = path[n])
    OBVIOUS
  <2>1. \A i \in dot + 1 .. n : path[i] \in DecodedChar
    BY <1>2, <1>3 DEF n
  <2>2. dot + 1 \in Int /\ n \in Int
    BY <1>2, <1>3
  <2>3. ext = SubSeq(path, dot + 1, n)
    BY <1>1 DEF ext
  <2>4. /\ Len(ext) = IF dot + 1 <= n THEN n - (dot + 1) + 1 ELSE 0
        /\ \A i \in 1 .. n - (dot + 1) + 1 : ext[i] = path[(dot + 1) + i - 1]
    BY <2>1, <2>2, <2>3, SubSeqProperties
  <2>5. Len(ext) = n - dot
    BY <1>2, <1>3, <2>4
  <2>6. ASSUME n - dot = 1 PROVE ext[1] = path[n]
    <3>1. 1 \in 1 .. n - (dot + 1) + 1 /\ (dot + 1) + 1 - 1 = n
      BY <1>2, <1>3, <2>6
    <3>2. ext[1] = path[(dot + 1) + 1 - 1]
      BY <2>4, <3>1
    <3>3. QED
      BY <3>1, <3>2
  <2>7. QED
    BY <2>5, <2>6
<1>7. ~(dot > slash) => Len(ext) = 0
  BY <1>1 DEF ext
<1>8. ASSUME NEW w \in {"html", "gif"}
      PROVE  (Len(ext) = 1 /\ ext[1] = w) <=> (n > 1 /\ path[n - 1] = "." /\ path[n] = w)
  <2>1. ASSUME Len(ext) = 1, ext[1] = w PROVE n > 1 /\ path[n - 1] = "." /\ path[n] = w
    <3>1. dot > slash
      BY <1>7, <2>1
    <3>2. n - dot = 1 /\ dot > 0 /\ path[n] = w
      BY <1>3, <1>6, <2>1, <3>1
    <3>3. dot = n - 1 /\ path[dot] = "."
      BY <1>2, <1>3, <3>2
    <3>4. QED
      BY <1>2, <3>2, <3>3
  <2>2. ASSUME n > 1, path[n - 1] = ".", path[n] = w PROVE Len(ext) = 1 /\ ext[1] = w
    <3>1. n - 1 \in 1 .. n /\ n \in 1 .. n
      BY <1>2, <2>2
    <3>2. n - 1 <= dot
      BY <1>3, <2>2, <3>1
    <3>3. dot # n /\ slash # n /\ slash # n - 1
      BY <1>2, <1>3, <2>2
    <3>4. dot = n - 1 /\ slash < n - 1 /\ dot > slash /\ n - dot = 1
      BY <1>2, <1>3, <3>2, <3>3
    <3>5. QED
      BY <1>6, <2>2, <3>4
  <2>3. QED
    BY <2>1, <2>2
<1>9. extension_to_type(ext) =
           IF EndsIn(path, "html") THEN "text/html"
           ELSE IF EndsIn(path, "gif") THEN "image/gif"
           ELSE "text/plain"
  <2>1. EndsIn(path, "html") <=> Len(ext) = 1 /\ ext[1] = "html"
    BY <1>4, <1>8
  <2>2. EndsIn(path, "gif") <=> Len(ext) = 1 /\ ext[1] = "gif"
    BY <1>4, <1>8
  <2>3. QED
    BY <1>5, <2>1, <2>2
<1>10. QED
  BY <1>9 DEF ext

LEMMA FilePathType ==
  ASSUME NEW path \in Path
  PROVE  FilePath(path) \in Path
<1>1. <<"index", ".", "html">> \in Path
  BY DEF Path, DecodedChar, Char, Token, Word
<1>2. path \o <<"index", ".", "html">> \in Path
  BY <1>1 DEF Path
<1>3. QED
  BY <1>2 DEF FilePath

(* What the handler makes of a well encoded uri.                           *)
Fits(status, type_, u) ==
  LET path == Decoded(u)
      file == FilePath(path)
  IN  /\ status = IF path = <<>> \/ Head(path) # "/" \/ HasDots(path) THEN "bad_request"
                  ELSE IF file \in Files THEN "ok" ELSE "not_found"
      /\ type_ = IF status # "ok" \/ EndsIn(file, "html") THEN "text/html"
                 ELSE IF EndsIn(file, "gif") THEN "image/gif"
                 ELSE "text/plain"

LEMMA HandleRequestFits ==
  ASSUME NEW u \in Seq(Char), ValidEncoding(u)
  PROVE  Fits(handle_request(u).status, handle_request(u).type, u)
<1> DEFINE path == Decoded(u)
           file == FilePath(path)
           d == url_decode(u)
           r == handle_request(u)
<1>1. d.ok /\ d.out = path
  BY DecodedIsMeant
<1>2. path \in Path
  BY <1>1, DecodeType DEF DecoderResult, Path
<1>3. file \in Path
  BY <1>2, FilePathType
<1>4. r = IF path = <<>> \/ Head(path) # "/" \/ HasDots(path) THEN stock_reply("bad_request", None)
          ELSE IF file \notin Files THEN stock_reply("not_found", file)
          ELSE [status |-> "ok", file |-> file, type |-> extension_to_type(extension(file))]
  BY <1>1 DEF handle_request
<1>5. extension_to_type(extension(file)) =
        IF EndsIn(file, "html") THEN "text/html"
        ELSE IF EndsIn(file, "gif") THEN "image/gif"
        ELSE "text/plain"
  BY <1>3, FileType
<1>6. Fits(r.status, r.type, u) <=>
        /\ r.status = IF path = <<>> \/ Head(path) # "/" \/ HasDots(path) THEN "bad_request"
                      ELSE IF file \in Files THEN "ok" ELSE "not_found"
        /\ r.type = IF r.status # "ok" \/ EndsIn(file, "html") THEN "text/html"
                    ELSE IF EndsIn(file, "gif") THEN "image/gif"
                    ELSE "text/plain"
  BY DEF Fits
<1> HIDE DEF path, file, r
<1>7. CASE path = <<>> \/ Head(path) # "/" \/ HasDots(path)
  BY <1>4, <1>6, <1>7 DEF stock_reply, r
<1>8. CASE ~(path = <<>> \/ Head(path) # "/" \/ HasDots(path)) /\ file \notin Files
  BY <1>4, <1>6, <1>8 DEF stock_reply, r
<1>9. CASE ~(path = <<>> \/ Head(path) # "/" \/ HasDots(path)) /\ file \in Files
  BY <1>4, <1>5, <1>6, <1>9 DEF r
<1>10. QED
  BY <1>7, <1>8, <1>9

(***************************************************************************)
(* The connection.                                                         *)
(***************************************************************************)
(* The parser is what the types of TypeOK rest on.                         *)
Typed == TypeOK /\ parser \in Parser /\ OpenedPathIsBelowRoot

LEMMA InputType == \A s \in Inputs : s \in Seq(Char)
BY InputsAssumption

LEMMA InitTyped == Init => Typed
<1> SUFFICES ASSUME Init PROVE Typed
  OBVIOUS
<1>1. <<>> \in Seq(Char \cup {"other", "*"}) /\ 0 \in 0 .. Len(input)
  BY InputType DEF Init
<1>2. parser \in Parser /\ parser.result = "indeterminate"
  BY NewParserType DEF Init, NewParser
<1>3. QED
  BY <1>1, <1>2 DEF Init, Typed, TypeOK, OpenedPathIsBelowRoot, None, Waiting, Verdict

(* What a written reply does to the types.                                 *)
LEMMA WriteTyped ==
  ASSUME Typed, NEW r, ReplyOK(r), Write(r), parser' \in Parser, UNCHANGED <<input, gone>>,
         rd' \in 0 .. Len(input)
  PROVE  Typed'
<1>1. opened' \in Seq(Char \cup {"other", "*"}) /\ Safe(opened')
  BY DEF ReplyOK, Write, Path, DecodedChar
<1>2. parser'.result \in Verdict
  BY DEF Parser
<1>3. TypeOK'
  BY <1>1, <1>2 DEF Typed, TypeOK, Write, ReplyOK, Verdict, Waiting
<1>4. QED
  BY <1>1, <1>3 DEF Typed, Safe, OpenedPathIsBelowRoot

LEMMA EndsTyped ==
  ASSUME Typed, NEW how, how \in Ended \cup {"handle_read"}, Ends(how),
         how = "handle_read" => parser'.result = "indeterminate",
         parser' \in Parser, UNCHANGED <<input, gone>>, rd' \in 0 .. Len(input)
  PROVE  Typed'
<1>1. parser'.result \in Verdict
  BY DEF Parser
<1>2. TypeOK'
  BY <1>1 DEF Typed, TypeOK, Ends, Verdict, Waiting, Ended
<1>3. QED
  BY <1>2 DEF Typed, Ends, OpenedPathIsBelowRoot

LEMMA NextTyped ==
  ASSUME Typed, [Next]_vars
  PROVE  Typed'
<1>1. input \in Seq(Char)
  BY InputType DEF Typed, TypeOK
<1>2. ASSUME NEW n \in 1 .. Len(input)
      PROVE  n \in 0 .. Len(input) /\ SubSeq(input, 1, n) \in Seq(Char)
  BY <1>1
<1>3. ASSUME NEW p \in Parser PROVE ReplyOK(handle_request(p.uri))
  BY HandleRequestOK DEF Parser
<1>4. CASE UNCHANGED vars
  BY <1>4 DEF vars, Typed, TypeOK, OpenedPathIsBelowRoot
<1>5. CASE Leave
  BY <1>5 DEF Leave, Typed, TypeOK, OpenedPathIsBelowRoot
<1>6. CASE on_first_read
  <2>1. PICK n \in 1 .. Len(input) :
          /\ rd' = n
          /\ IF HasKey(SubSeq(input, 1, n)) THEN first_write(SubSeq(input, 1, n))
             ELSE http_first_read(SubSeq(input, 1, n))
    BY <1>6 DEF on_first_read
  <2> DEFINE bytes == SubSeq(input, 1, n)
  <2>2. bytes \in Seq(Char) /\ rd' \in 0 .. Len(input) /\ UNCHANGED <<input, gone>>
    BY <1>2, <1>6, <2>1 DEF on_first_read
  <2>3. parser' = parse(NewParser, bytes)
    BY <2>1 DEF first_write, http_first_read, rfc6455_parse
  <2> HIDE DEF bytes
  <2>4. parser' \in Parser
    BY <2>2, <2>3, ParseType, NewParserType
  <2>5. CASE first_write(bytes)
    <3>1. PICK how \in {"upgraded", "declined"} : Ends(how)
      BY <2>5 DEF first_write
    <3>2. QED
      BY <2>2, <2>4, <3>1, EndsTyped DEF Ended
  <2>6. CASE http_first_read(bytes)
    <3>1. CASE parser'.result = "true"
      <4>1. Write(handle_request(parser'.uri))
        BY <2>6, <3>1 DEF http_first_read, HandleRequest
      <4>2. QED
        BY <1>3, <2>2, <2>4, <4>1, WriteTyped
    <3>2. CASE parser'.result = "false"
      <4>1. Ends("declined")
        BY <2>6, <3>2 DEF http_first_read
      <4>2. QED
        BY <2>2, <2>4, <4>1, EndsTyped DEF Ended
    <3>3. CASE parser'.result = "indeterminate"
      <4>1. Ends("handle_read")
        BY <2>6, <3>3 DEF http_first_read
      <4>2. QED
        BY <2>2, <2>4, <3>3, <4>1, EndsTyped DEF Ended
    <3>4. QED
      BY <2>4, <3>1, <3>2, <3>3 DEF Parser, Verdict
  <2>7. QED
    BY <2>1, <2>5, <2>6 DEF bytes
<1>7. CASE handle_read
  <2>1. PICK n \in rd + 1 .. Len(input) :
          /\ rd' = n
          /\ parser' = parse(parser, SubSeq(input, rd + 1, n))
          /\ CASE parser'.result = "true" -> HandleRequest(parser')
               [] parser'.result = "false" -> Write(stock_reply("bad_request", None))
               [] OTHER -> Ends("handle_read")
    BY <1>7 DEF handle_read
  <2>2. rd \in Nat /\ rd' \in 0 .. Len(input) /\ UNCHANGED <<input, gone>>
    BY <1>1, <1>7, <2>1 DEF handle_read, Typed, TypeOK
  <2>3. SubSeq(input, rd + 1, n) \in Seq(Char)
    BY <1>1, <2>1, <2>2
  <2>4. parser' \in Parser
    BY <2>1, <2>3, ParseType DEF Typed
  <2>5. CASE parser'.result = "true"
    <3>1. Write(handle_request(parser'.uri))
      BY <2>1, <2>5 DEF HandleRequest
    <3>2. QED
      BY <1>3, <2>2, <2>4, <3>1, WriteTyped
  <2>6. CASE parser'.result = "false"
    BY <2>1, <2>2, <2>4, <2>6, BadRequestOK, WriteTyped
  <2>7. CASE parser'.result = "indeterminate"
    BY <2>1, <2>2, <2>4, <2>7, EndsTyped
  <2>8. QED
    BY <2>4, <2>5, <2>6, <2>7 DEF Parser, Verdict
<1>8. CASE handle_write \/ ReadFails
  <2>1. Ends("closed") /\ UNCHANGED <<input, gone, rd, parser>>
    BY <1>8 DEF handle_write, ReadFails
  <2>2. parser' \in Parser /\ rd' \in 0 .. Len(input)
    BY <2>1 DEF Typed, TypeOK
  <2>3. QED
    BY <2>1, <2>2, EndsTyped DEF Ended
<1>9. QED
  BY <1>4, <1>5, <1>6, <1>7, <1>8 DEF Next, Session

(***************************************************************************)
(* The parser of a connection has read what its client has sent so far.    *)
(***************************************************************************)
ReadSoFar == \E f : Run(f, input) /\ parser = f[rd]

LEMMA InitRead == Init => ReadSoFar
<1> SUFFICES ASSUME Init PROVE ReadSoFar
  OBVIOUS
<1>1. input \in Seq(Char) /\ rd = 0 /\ parser = NewParser
  BY InputType DEF Init
<1>2. PICK f : Run(f, input)
  BY <1>1, RunOf
<1>3. f[0] = NewParser
  BY <1>2, RunStep
<1>4. QED
  BY <1>1, <1>2, <1>3 DEF ReadSoFar

LEMMA NextRead ==
  ASSUME Typed, ReadSoFar, [Next]_vars
  PROVE  ReadSoFar'
<1>1. PICK f : Run(f, input) /\ parser = f[rd]
  BY DEF ReadSoFar
<1>2. input \in Seq(Char) /\ rd \in 0 .. Len(input) /\ Len(input) \in Nat
  BY InputType DEF Typed, TypeOK
<1>3. CASE UNCHANGED <<input, rd, parser>>
  BY <1>3 DEF ReadSoFar
<1>4. ASSUME UNCHANGED input, NEW n \in 0 .. Len(input), rd' = n, parser' = f[n]
      PROVE  ReadSoFar'
  <2>1. Run(f, input')
    BY <1>1, <1>4
  <2>2. parser' = f[rd']
    BY <1>4
  <2>3. QED
    BY <2>1, <2>2 DEF ReadSoFar
<1>5. CASE on_first_read
  <2>1. PICK n \in 1 .. Len(input) :
          /\ rd' = n
          /\ IF HasKey(SubSeq(input, 1, n)) THEN first_write(SubSeq(input, 1, n))
             ELSE http_first_read(SubSeq(input, 1, n))
    BY <1>5 DEF on_first_read
  <2>2. parser' = parse(NewParser, SubSeq(input, 1, n))
    BY <2>1 DEF first_write, http_first_read, rfc6455_parse
  <2>3. 0 \in 0 .. Len(input) /\ n \in 0 .. Len(input) /\ f[0] = NewParser /\ 0 + 1 = 1
    BY <1>1, <1>2, RunStep
  <2>4. parse(f[0], SubSeq(input, 0 + 1, n)) = f[n]
    BY <1>1, <2>3, RunGoesOn
  <2>5. parser' = f[n] /\ UNCHANGED input
    BY <1>5, <2>2, <2>3, <2>4 DEF on_first_read
  <2>6. QED
    BY <1>4, <2>1, <2>3, <2>5
<1>6. CASE handle_read
  <2>1. PICK n \in rd + 1 .. Len(input) :
          rd' = n /\ parser' = parse(parser, SubSeq(input, rd + 1, n))
    BY <1>6 DEF handle_read
  <2>2. n \in rd .. Len(input) /\ n \in 0 .. Len(input)
    BY <1>2
  <2>3. parser' = f[n] /\ UNCHANGED input
    BY <1>1, <1>2, <1>6, <2>1, <2>2, RunGoesOn DEF handle_read
  <2>4. QED
    BY <1>4, <2>1, <2>2, <2>3
<1>7. QED
  BY <1>3, <1>5, <1>6 DEF Next, Session, Leave, handle_write, ReadFails, vars

LEMMA ReadVerdict ==
  ASSUME Typed, ReadSoFar
  PROVE  VerdictIsGrammar
<1>1. PICK f : Run(f, input) /\ parser = f[rd]
  BY DEF ReadSoFar
<1>2. input \in Seq(Char) /\ rd \in 0 .. Len(input) /\ Len(input) \in 0 .. Len(input)
  BY InputType DEF Typed, TypeOK
<1>3. /\ parser.result = "true" <=> \E n \in 1 .. rd : Complete(input, n)
      /\ parser.result = "false" => ~\E n \in 1 .. Len(input) : Complete(input, n)
  BY <1>1, <1>2, Verdicts
<1>4. HoldsRequest(Slice(input, 1, rd)) <=> \E n \in 1 .. rd : Complete(input, n)
  BY <1>2, HoldsComplete
<1>5. HoldsRequest(Slice(input, 1, Len(input))) <=> \E n \in 1 .. Len(input) : Complete(input, n)
  BY <1>2, HoldsComplete
<1>6. Slice(input, 1, Len(input)) = input
  BY <1>2, SubSeqFull DEF Slice
<1>7. QED
  BY <1>3, <1>4, <1>5, <1>6 DEF VerdictIsGrammar

(***************************************************************************)
(* A reply is the handler's, to the uri that the parser has read.          *)
(***************************************************************************)
Answered ==
  /\ session \in {"on_first_read", "handle_read"} => reply = "none"
  /\ reply # "none" /\ parser.result = "true" =>
       reply = handle_request(parser.uri).status /\ type = handle_request(parser.uri).type

LEMMA NextAnswered ==
  ASSUME Typed, Answered, [Next]_vars
  PROVE  Answered'
<1>1. CASE UNCHANGED <<session, reply, type, parser>>
  BY <1>1 DEF Answered
<1>2. ASSUME NEW how, Ends(how), reply = "none" PROVE Answered'
  BY <1>2 DEF Ends, Answered
<1>3. ASSUME HandleRequest(parser') PROVE Answered'
  BY <1>3 DEF HandleRequest, Write, Answered
<1>4. CASE on_first_read
  <2>1. reply = "none"
    BY <1>4 DEF on_first_read, Answered
  <2>2. PICK bytes : IF HasKey(bytes) THEN first_write(bytes) ELSE http_first_read(bytes)
    BY <1>4 DEF on_first_read
  <2>3. (\E how : Ends(how)) \/ HandleRequest(parser')
    BY <2>2 DEF first_write, http_first_read
  <2>4. QED
    BY <1>2, <1>3, <2>1, <2>3
<1>5. CASE handle_read
  <2>1. reply = "none"
    BY <1>5 DEF handle_read, Answered
  <2>2. \/ HandleRequest(parser')
        \/ parser'.result = "false" /\ Write(stock_reply("bad_request", None))
        \/ Ends("handle_read")
    BY <1>5 DEF handle_read
  <2>3. CASE parser'.result = "false" /\ Write(stock_reply("bad_request", None))
    BY <2>3 DEF Write, Answered
  <2>4. QED
    BY <1>2, <1>3, <2>1, <2>2, <2>3
<1>6. CASE handle_write \/ ReadFails
  BY <1>6 DEF handle_write, ReadFails, Ends, Answered
<1>7. QED
  BY <1>1, <1>4, <1>5, <1>6 DEF Next, Session, Leave, vars

LEMMA AnswerFits ==
  ASSUME Typed, ReadSoFar, Answered
  PROVE  RepliesFit
<1>1. PICK f : Run(f, input) /\ parser = f[rd]
  BY DEF ReadSoFar
<1>2. SUFFICES ASSUME reply # "none", parser.result = "true", ValidEncoding(Uri(input))
               PROVE  Fits(reply, type, Uri(input))
  BY DEF RepliesFit, Fits, FilePath, EndsIn
<1>3. rd \in 0 .. Len(input)
  BY DEF Typed, TypeOK
<1>4. parser.uri = Uri(input) /\ parser.uri \in Seq(Char)
  BY <1>1, <1>2, <1>3, UriRead
<1>5. reply = handle_request(parser.uri).status /\ type = handle_request(parser.uri).type
  BY <1>2 DEF Answered
<1>6. Fits(handle_request(Uri(input)).status, handle_request(Uri(input)).type, Uri(input))
  BY <1>2, <1>4, HandleRequestFits
<1>7. QED
  BY <1>4, <1>5, <1>6

(* Every state of the connection has its types, whatever clients send.     *)
THEOREM TypeCorrect == Spec => []TypeOK
<1>1. Init => Typed
  BY InitTyped
<1>2. Typed /\ [Next]_vars => Typed'
  BY NextTyped
<1>3. Typed => TypeOK
  BY DEF Typed
<1>4. QED
  BY <1>1, <1>2, <1>3, PTL DEF Spec

(* request_handler.hxx:44: no path with "..", and none that is not         *)
(* absolute, is opened, for all inputs, all encodings and all cuts.        *)
THEOREM OpenedPathIsBelowRootHolds == Spec => []OpenedPathIsBelowRoot
<1>1. Init => Typed
  BY InitTyped
<1>2. Typed /\ [Next]_vars => Typed'
  BY NextTyped
<1>3. Typed => OpenedPathIsBelowRoot
  BY DEF Typed
<1>4. QED
  BY <1>1, <1>2, <1>3, PTL DEF Spec

(* The parser has said "complete" exactly when the bytes so far begin with *)
(* a request of the grammar, and has refused nothing that does: for all    *)
(* inputs, and wherever the reads cut them.                                *)
THEOREM VerdictIsGrammarHolds == Spec => []VerdictIsGrammar
<1>1. Init => Typed /\ ReadSoFar
  BY InitTyped, InitRead
<1>2. (Typed /\ ReadSoFar) /\ [Next]_vars => (Typed /\ ReadSoFar)'
  BY NextTyped, NextRead
<1>3. Typed /\ ReadSoFar => VerdictIsGrammar
  BY ReadVerdict
<1>4. QED
  BY <1>1, <1>2, <1>3, PTL DEF Spec

(* A well encoded request is answered with the file, the error and the     *)
(* type that its decoded path asks for, however its bytes were cut.        *)
THEOREM RepliesFitHolds == Spec => []RepliesFit
<1>1. Init => Typed /\ ReadSoFar /\ Answered
  <2>1. Init => Answered
    BY DEF Init, Answered
  <2>2. QED
    BY <2>1, InitTyped, InitRead
<1>2. (Typed /\ ReadSoFar /\ Answered) /\ [Next]_vars => (Typed /\ ReadSoFar /\ Answered)'
  BY NextTyped, NextRead, NextAnswered
<1>3. Typed /\ ReadSoFar /\ Answered => RepliesFit
  BY AnswerFits
<1>4. QED
  BY <1>1, <1>2, <1>3, PTL DEF Spec
=============================================================================
