--------------------------- MODULE WsSession_proofs ---------------------------
(***************************************************************************)
(* A WebSocket session, for any clients and any cuts of what they send     *)
(* into reads; and the texts that its answers and the log shorten, for     *)
(* texts of any length and any max_length from 4 on.                       *)
(***************************************************************************)
EXTENDS WsSession, Induction

(***************************************************************************)
(* Shortening.                                                             *)
(***************************************************************************)
(* Three texts in a row.                                                   *)
LEMMA InARow ==
  ASSUME NEW T, NEW b \in Seq(T), NEW g \in Seq(T), NEW e \in Seq(T)
  PROVE  /\ Len(b \o g \o e) = Len(b) + Len(g) + Len(e)
         /\ \A i \in 1 .. Len(b) : (b \o g \o e)[i] = b[i]
         /\ \A i \in 1 .. Len(e) : (b \o g \o e)[Len(b) + Len(g) + i] = e[i]
<1>1. b \o g \in Seq(T) /\ Len(b \o g) = Len(b) + Len(g)
  OBVIOUS
<1>2. \A i \in 1 .. Len(b) : (b \o g)[i] = b[i]
  OBVIOUS
<1>3. \A i \in 1 .. Len(b) + Len(g) : (b \o g \o e)[i] = (b \o g)[i]
  BY <1>1
<1>4. /\ Len(b \o g \o e) = Len(b) + Len(g) + Len(e)
      /\ \A i \in 1 .. Len(e) : (b \o g \o e)[Len(b) + Len(g) + i] = e[i]
  BY <1>1
<1>5. \A i \in 1 .. Len(b) : i \in 1 .. Len(b) + Len(g)
  OBVIOUS
<1> QED
  BY <1>2, <1>3, <1>4, <1>5

LEMMA RowKeepsEnds ==
  ASSUME NEW T, NEW text \in Seq(T), NEW b \in Seq(T), NEW g \in Seq(T), NEW e \in Seq(T),
         Len(b) + Len(e) <= Len(text),
         \A i \in 1 .. Len(b) : b[i] = text[i],
         \A i \in 1 .. Len(e) : e[i] = text[Len(text) - Len(e) + i]
  PROVE  KeepsEnds(b \o g \o e, text, Len(b), Len(g), Len(e))
<1>1. Len(b) >= 0 /\ Len(e) >= 0
  OBVIOUS
<1>2. /\ Len(b \o g \o e) = Len(b) + Len(g) + Len(e)
      /\ \A i \in 1 .. Len(b) : (b \o g \o e)[i] = b[i]
      /\ \A i \in 1 .. Len(e) : (b \o g \o e)[Len(b) + Len(g) + i] = e[i]
  BY InARow
<1>3. \A i \in 1 .. Len(b) : (b \o g \o e)[i] = text[i]
  BY <1>2, Zenon
<1>4. \A i \in 1 .. Len(e) : (b \o g \o e)[Len(b) + Len(g) + i] = text[Len(text) - Len(e) + i]
  BY <1>2, Zenon
<1> QED
  BY <1>1, <1>2, <1>3, <1>4, Zenon DEF KeepsEnds

(* A beginning, a gap and an end, put together.                            *)
LEMMA Joined ==
  ASSUME NEW T, 0 \in T, NEW text \in Seq(T), NEW l \in Nat, NEW gap \in Nat, NEW r \in Nat,
         l + r <= Len(text)
  PROVE  KeepsEnds(Begin(text, l) \o Gap(gap) \o From(text, Len(text) - r), text, l, gap, r)
<1>1. /\ Begin(text, l) \in Seq(T) /\ Len(Begin(text, l)) = l
      /\ \A i \in 1 .. l : Begin(text, l)[i] = text[i]
  BY DEF Begin
<1>2. Gap(gap) \in Seq(T) /\ Len(Gap(gap)) = gap
  BY DEF Gap
<1>3. /\ From(text, Len(text) - r) \in Seq(T) /\ Len(From(text, Len(text) - r)) = r
      /\ \A i \in 1 .. r : From(text, Len(text) - r)[i] = text[Len(text) - r + i]
  <2>1. Len(text) - r + 1 \in 1 .. Len(text) + 1 /\ Len(text) \in Nat
    OBVIOUS
  <2> QED
    BY <2>1 DEF From
<1>4. /\ Len(Begin(text, l)) + Len(From(text, Len(text) - r)) <= Len(text)
      /\ \A i \in 1 .. Len(Begin(text, l)) : Begin(text, l)[i] = text[i]
      /\ \A i \in 1 .. Len(From(text, Len(text) - r)) :
           From(text, Len(text) - r)[i] = text[Len(text) - Len(From(text, Len(text) - r)) + i]
  BY <1>1, <1>3, Zenon
<1>5. KeepsEnds(Begin(text, l) \o Gap(gap) \o From(text, Len(text) - r), text,
                Len(Begin(text, l)), Len(Gap(gap)), Len(From(text, Len(text) - r)))
  BY <1>1, <1>2, <1>3, <1>4, RowKeepsEnds, Zenon
<1> QED
  BY <1>1, <1>2, <1>3, <1>5, Zenon

(* A text of any characters, with room for those of the gap.               *)
LEMMA Wider ==
  ASSUME NEW S, NEW text \in Seq(S)
  PROVE  text \in Seq(S \cup {0}) /\ 0 \in S \cup {0}
OBVIOUS

(* The names in an answer of json_server fit, for names of any length and  *)
(* any max_length for which the code is defined.                           *)
THEOREM NameFitsHolds ==
  ASSUME NEW S, NEW file \in Seq(S), NEW max \in Nat, max >= 4
  PROVE  NameFits(file, max)
<1> DEFINE n == Len(file)
           l == max \div 2 - 2
           r == max \div 2 - 1
<1>1. CASE n <= max
  BY <1>1 DEF NameFits, shown_name
<1>2. CASE n > max
  <2>1. n \in Nat /\ l \in 0 .. max /\ r \in 0 .. max /\ r = l + 1 /\ l + r <= n
    BY <1>2
  <2>2. l + 3 + r \in {max - 1, max}
    BY <2>1
  <2>3. shown_name(file, max) = Begin(file, l) \o Gap(3) \o From(file, n - r)
    <3>1. n \div 2 \in Nat /\ max \div 2 \in Nat
      BY <2>1
    <3>2. /\ n \div 2 + (max \div 2 - n \div 2 - 2) = l
          /\ n \div 2 + (n - n \div 2 - max \div 2 + 1) = n - r
      BY <3>1, <2>1
    <3> QED
      BY <3>2, <1>2 DEF shown_name
  <2>4. KeepsEnds(shown_name(file, max), file, l, 3, r)
    <3>1. 3 \in Nat /\ l \in Nat /\ r \in Nat /\ l + r <= Len(file)
      BY <2>1
    <3> HIDE DEF l, r
    <3>2. file \in Seq(S \cup {0}) /\ 0 \in S \cup {0}
      BY Wider
    <3>3. KeepsEnds(Begin(file, l) \o Gap(3) \o From(file, Len(file) - r), file, l, 3, r)
      BY <3>1, <3>2, Joined
    <3> QED
      BY <3>3, <2>3, Zenon
  <2>5. Len(shown_name(file, max)) = l + 3 + r
    BY <2>4 DEF KeepsEnds
  <2> HIDE DEF l, r
  <2> QED
    BY <1>2, <2>1, <2>2, <2>4, <2>5 DEF NameFits
<1> QED
  BY <1>1, <1>2

(* The log shows both ends of its data, for data of any length.            *)
THEOREM DataShownHolds ==
  ASSUME NEW S, NEW data \in Seq(S)
  PROVE  DataShown(data)
<1>1. CASE Len(data) < 25
  BY <1>1 DEF DataShown, reduce
<1>2. CASE Len(data) >= 25
  <2>1. reduce(data) = Begin(data, 10) \o Gap(5) \o From(data, Len(data) - 10)
    BY <1>2 DEF reduce
  <2>2. 10 + 10 <= Len(data) /\ 10 \in Nat /\ 5 \in Nat
    BY <1>2
  <2>3. KeepsEnds(reduce(data), data, 10, 5, 10)
    <3>1. data \in Seq(S \cup {0}) /\ 0 \in S \cup {0}
      BY Wider
    <3>2. KeepsEnds(Begin(data, 10) \o Gap(5) \o From(data, Len(data) - 10), data, 10, 5, 10)
      BY <2>2, <3>1, Joined
    <3> QED
      BY <3>2, <2>1, Zenon
  <2> QED
    BY <1>2, <2>3 DEF DataShown, KeepsEnds
<1> QED
  BY <1>1, <1>2

(***************************************************************************)
(* The data_frame_parser as a machine: a step per byte.                    *)
(***************************************************************************)
Byte == 0 .. 255

(* The values of n in a state.                                             *)
Places(state) ==
  CASE state = "extended_payload_len" -> 1 .. 8
    [] state = "masking_key" -> 1 .. 4
    [] OTHER -> {0}
Parsers == {q \in [state : State, n : 0 .. 8] : q.n \in Places(q.state)}

Handler ==
  [state : State, n : 0 .. 8, op : Opcode, mask : BOOLEAN, len : 0 .. 127, ext : Nat, key : Nat,
   first : Nat, size : Nat, done : BOOLEAN]
Handlers == {p \in Handler : p.n \in Places(p.state)}

Advance(p, b, k) == IF p.done THEN p ELSE consume(p, b, k)

(* f is a run of the parser over bytes, which begin behind base.           *)
Runs(f, q, bytes, base) ==
  f = [i \in 0 .. Len(bytes) |->
        IF i = 0 THEN data_frame(q)
        ELSE IF f[i - 1].done THEN f[i - 1] ELSE consume(f[i - 1], bytes[i], base + i)]

LEMMA NewParserType == NewParser \in Parsers
BY DEF NewParser, Parsers, State, Places

LEMMA DataFrameType ==
  ASSUME NEW q \in Parsers
  PROVE  data_frame(q) \in Handlers
BY DEF data_frame, Parsers, Handlers, Handler, Opcode, Text

LEMMA LeftType ==
  ASSUME NEW p \in Handlers
  PROVE  [state |-> p.state, n |-> p.n] \in Parsers
BY DEF Parsers, Handlers, Handler

LEMMA MoveType ==
  ASSUME NEW p \in Handler, NEW state \in State, NEW n \in 0 .. 8, n \in Places(state)
  PROVE  [p EXCEPT !.state = state, !.n = n] \in Handlers
BY DEF Handlers, Handler

LEMMA AfterLengthType ==
  ASSUME NEW p \in Handler
  PROVE  AfterLength(p) \in Handlers
<1>1. AfterLength(p) \in Handler
  <2>1. ASSUME NEW state \in State, NEW n \in 0 .. 8
        PROVE  [p EXCEPT !.state = state, !.n = n] \in Handler
    BY DEF Handler
  <2>2. /\ (IF p.mask THEN "masking_key" ELSE "payload") \in State
        /\ (IF p.mask THEN 1 ELSE 0) \in 0 .. 8
    BY DEF State
  <2>3. QED
    BY <2>1, <2>2 DEF AfterLength
<1>2. AfterLength(p).n \in Places(AfterLength(p).state)
  BY DEF AfterLength, Handler, State, Places
<1>3. QED
  BY <1>1, <1>2 DEF Handlers

LEMMA ShiftedType ==
  ASSUME NEW ext \in Nat, NEW b \in Byte
  PROVE  Shifted(ext, b) \in Nat
BY DEF Shifted, TooLong, Byte

LEMMA ConsumeType ==
  ASSUME NEW p \in Handlers, NEW b \in Byte, NEW k \in Nat
  PROVE  consume(p, b, k) \in Handlers
<1>1. p \in Handler /\ p.n \in Places(p.state) /\ p.state \in State
  BY DEF Handlers, Handler
<1>2. CASE p.state = "fin_opcode"
  <2>1. (IF b % 16 \in Opcode THEN b % 16 ELSE Reserved) \in Opcode
    BY DEF Opcode
  <2>2. fin_opcode(p, b) \in Handler
    BY <1>1, <2>1 DEF fin_opcode, Handler, State
  <2>3. fin_opcode(p, b).n = 0 /\ fin_opcode(p, b).state = "mask_payload_len"
    BY <1>1, <1>2 DEF fin_opcode, Handler, Places
  <2>4. QED
    BY <1>2, <2>2, <2>3 DEF consume, Handlers, Places
<1>3. CASE p.state = "mask_payload_len"
  <2> DEFINE q == [p EXCEPT !.mask = b >= 128, !.len = b % 128]
  <2>1. (b >= 128) \in BOOLEAN /\ b % 128 \in 0 .. 127
    BY DEF Byte
  <2>2. q \in Handler /\ q.n = 0 /\ q.state = "mask_payload_len"
    BY <1>1, <1>3, <2>1 DEF Handler, Places
  <2> HIDE DEF q
  <2>3. [q EXCEPT !.done = TRUE] \in Handlers
    BY <2>2 DEF Handlers, Handler, Places
  <2>4. [q EXCEPT !.state = "extended_payload_len", !.n = 1] \in Handlers
    <3>1. "extended_payload_len" \in State /\ 1 \in 0 .. 8 /\ 1 \in Places("extended_payload_len")
      BY DEF State, Places
    <3>2. QED
      BY <2>2, <3>1, MoveType
  <2>5. AfterLength(q) \in Handlers
    BY <2>2, AfterLengthType
  <2>6. mask_payload_len(p, b) \in Handlers
    BY <2>3, <2>4, <2>5 DEF mask_payload_len, q
  <2>7. QED
    BY <1>3, <2>6 DEF consume
<1>4. CASE p.state = "extended_payload_len"
  <2> DEFINE q == [p EXCEPT !.ext = IF p.n = 1 /\ p.len \notin {126, 127} THEN @ ELSE Shifted(@, b)]
  <2>1. q \in Handler /\ q.n = p.n /\ q.state = p.state /\ p.n \in 1 .. 8
    BY <1>1, <1>4, ShiftedType DEF Handler, Places
  <2> HIDE DEF q
  <2>2. p.n # 8 => [q EXCEPT !.n = @ + 1] \in Handlers
    BY <1>4, <2>1 DEF Handlers, Handler, Places
  <2>3. AfterLength(q) \in Handlers
    BY <2>1, AfterLengthType
  <2>4. extended_payload_len(p, b) =
          CASE p.n = 2 /\ p.len = 126 -> AfterLength(q)
            [] p.n = 2 /\ p.len \notin {126, 127} -> p
            [] p.n = 8 -> AfterLength(q)
            [] OTHER -> [q EXCEPT !.n = @ + 1]
    BY DEF extended_payload_len, q
  <2>5. extended_payload_len(p, b) \in Handlers
    BY <2>2, <2>3, <2>4
  <2>6. QED
    BY <1>4, <2>5 DEF consume
<1>5. CASE p.state = "masking_key"
  <2>1. p.n \in 1 .. 4
    BY <1>1, <1>5 DEF Places
  <2>2. masking_key(p, k) \in Handlers
    <3>1. ASSUME NEW state \in State, NEW n \in Places(state) \cap (0 .. 8), NEW key \in Nat
          PROVE  [p EXCEPT !.key = key, !.state = state, !.n = n] \in Handlers
      BY <1>1 DEF Handlers, Handler
    <3>2. (IF p.n = 1 THEN k ELSE p.key) \in Nat
      BY <1>1 DEF Handler
    <3>3. CASE p.n = 4
      <4>1. "payload" \in State /\ 0 \in Places("payload") \cap (0 .. 8)
        BY DEF State, Places
      <4>2. QED
        BY <3>1, <3>2, <3>3, <4>1 DEF masking_key
    <3>4. CASE p.n # 4
      <4>1. p.state \in State /\ p.n + 1 \in Places(p.state) \cap (0 .. 8)
        BY <1>1, <1>5, <2>1, <3>4 DEF Places
      <4>2. QED
        BY <3>1, <3>2, <3>4, <4>1 DEF masking_key
    <3>5. QED
      BY <3>3, <3>4
  <2>3. QED
    BY <1>5, <2>2 DEF consume
<1>6. CASE p.state = "payload"
  <2>1. (p.size + 1 = Awaited(p)) \in BOOLEAN /\ p.n = 0
    BY <1>1, <1>6 DEF Places
  <2>2. payload(p, k) \in Handlers
    <3>1. ASSUME NEW first \in Nat, NEW size \in Nat, NEW done \in BOOLEAN
          PROVE  [p EXCEPT !.first = first, !.size = size, !.done = done] \in Handlers
      BY <1>1 DEF Handlers, Handler
    <3>2. (IF p.size = 0 THEN k ELSE p.first) \in Nat /\ p.size + 1 \in Nat
      BY <1>1 DEF Handler
    <3>3. QED
      BY <2>1, <3>1, <3>2 DEF payload
  <2>3. QED
    BY <1>6, <2>2 DEF consume
<1>7. QED
  BY <1>1, <1>2, <1>3, <1>4, <1>5, <1>6 DEF State

LEMMA AdvanceType ==
  ASSUME NEW p \in Handlers, NEW b \in Byte, NEW k \in Nat
  PROVE  Advance(p, b, k) \in Handlers
BY ConsumeType DEF Advance

LEMMA RunExists ==
  ASSUME NEW q \in Parsers, NEW bytes \in Seq(Byte), NEW base \in Nat
  PROVE  \E f : Runs(f, q, bytes, base)
<1> DEFINE N == Len(bytes)
           step == [x \in Handlers \X Nat |->
                     IF x[2] < N THEN Advance(x[1], bytes[x[2] + 1], base + (x[2] + 1)) ELSE x[1]]
<1>1. ASSUME NEW p \in Handlers, NEW n \in Nat
      PROVE  n < N => Advance(p, bytes[n + 1], base + (n + 1)) \in Handlers
  <2>1. n < N => bytes[n + 1] \in Byte /\ base + (n + 1) \in Nat
    OBVIOUS
  <2>2. QED
    BY <2>1, AdvanceType
<1>2. step \in [Handlers \X Nat -> Handlers]
  <2> SUFFICES ASSUME NEW x \in Handlers \X Nat
               PROVE  (IF x[2] < N THEN Advance(x[1], bytes[x[2] + 1], base + (x[2] + 1)) ELSE x[1])
                        \in Handlers
    OBVIOUS
  <2>1. x[1] \in Handlers /\ x[2] \in Nat
    OBVIOUS
  <2>2. QED
    BY <1>1, <2>1
<1>3. \A p \in Handlers : \A n \in Nat :
        n < N => step[<<p, n>>] = Advance(p, bytes[n + 1], base + (n + 1))
  OBVIOUS
<1>4. data_frame(q) \in Handlers
  BY DataFrameType
<1> HIDE DEF step
<1>5. PICK g \in [Nat -> Handlers] : Follows(g, data_frame(q), step)
  BY <1>2, <1>4, Recursion
<1>6. g[0] = data_frame(q) /\ \A n \in Nat : n < N => g[n + 1] = Advance(g[n], bytes[n + 1], base + (n + 1))
  BY <1>3, <1>5 DEF Follows
<1> DEFINE f == [i \in 0 .. N |-> g[i]]
<1>7. \A i \in 0 .. N : g[i] = IF i = 0 THEN data_frame(q) ELSE Advance(g[i - 1], bytes[i], base + i)
  <2> SUFFICES ASSUME NEW i \in 0 .. N, i # 0 PROVE g[i] = Advance(g[i - 1], bytes[i], base + i)
    BY <1>6
  <2>1. i - 1 \in Nat /\ i - 1 < N /\ (i - 1) + 1 = i
    OBVIOUS
  <2>2. QED
    BY <1>6, <2>1
<1>8. \A i \in 0 .. N : i # 0 => f[i - 1] = g[i - 1]
  OBVIOUS
<1>9. Runs(f, q, bytes, base)
  BY <1>7, <1>8 DEF Runs, Advance
<1>10. QED
  BY <1>9

LEMMA ParseRuns ==
  ASSUME NEW q \in Parsers, NEW bytes \in Seq(Byte), NEW base \in Nat
  PROVE  \E f : Runs(f, q, bytes, base) /\ parse(q, bytes, base) = f[Len(bytes)]
<1> DEFINE f == CHOOSE f : Runs(f, q, bytes, base)
<1>1. Runs(f, q, bytes, base)
  BY RunExists
<1>2. parse(q, bytes, base) = f[Len(bytes)]
  BY DEF parse, Runs
<1>3. QED
  BY <1>1, <1>2

LEMMA RunProperties ==
  ASSUME NEW q \in Parsers, NEW bytes \in Seq(Byte), NEW base \in Nat, NEW f, Runs(f, q, bytes, base)
  PROVE  /\ f[0] = data_frame(q)
         /\ \A i \in 1 .. Len(bytes) : f[i] = Advance(f[i - 1], bytes[i], base + i)
         /\ \A i \in 0 .. Len(bytes) : f[i] \in Handlers
<1>1. f[0] = data_frame(q) /\ \A i \in 1 .. Len(bytes) : f[i] = Advance(f[i - 1], bytes[i], base + i)
  BY DEF Runs, Advance
<1> DEFINE S == {i \in 0 .. Len(bytes) : f[i] \in Handlers}
<1>2. ASSUME NEW i \in 0 .. Len(bytes) - 1, i \in S PROVE i + 1 \in S
  <2>1. i + 1 \in 1 .. Len(bytes) /\ (i + 1) - 1 = i /\ bytes[i + 1] \in Byte /\ base + (i + 1) \in Nat
    OBVIOUS
  <2>2. f[i + 1] = Advance(f[i], bytes[i + 1], base + (i + 1)) /\ f[i] \in Handlers
    BY <1>1, <1>2, <2>1
  <2>3. QED
    BY <2>1, <2>2, AdvanceType
<1>3. 0 \in S
  BY <1>1, DataFrameType
<1> HIDE DEF S
<1>n. Len(bytes) \in Int
  OBVIOUS
<1>4. \A i \in 0 .. Len(bytes) : i \in S
  BY <1>2, <1>3, <1>n, Upwards
<1>5. QED
  BY <1>1, <1>4 DEF S

LEMMA ParseType ==
  ASSUME NEW q \in Parsers, NEW bytes \in Seq(Byte), NEW base \in Nat
  PROVE  parse(q, bytes, base) \in Handlers
<1>1. PICK f : Runs(f, q, bytes, base) /\ parse(q, bytes, base) = f[Len(bytes)]
  BY ParseRuns
<1>2. Len(bytes) \in 0 .. Len(bytes)
  OBVIOUS
<1>3. QED
  BY <1>1, <1>2, RunProperties

(* After i bytes, the part of the payload that p has lies behind base, and *)
(* ends where the parser is, or was when it had all.                       *)
Placed(p, base, i) ==
  \/ p.size = 0 /\ p.first = 0
  \/ /\ p.state = "payload" /\ p.size > 0 /\ p.first > base
     /\ p.first + p.size - 1 <= base + i
     /\ ~p.done => p.first + p.size - 1 = base + i

LEMMA PlacedStep ==
  ASSUME NEW p \in Handlers, NEW base \in Nat, NEW i \in Nat, NEW b \in Byte,
         Placed(p, base, i)
  PROVE  Placed(Advance(p, b, base + (i + 1)), base, i + 1)
<1>1. p \in Handler /\ p.state \in State
  BY DEF Handlers, Handler
<1>2. CASE p.done
  BY <1>1, <1>2 DEF Advance, Placed, Handler
<1>3. CASE ~p.done /\ p.state = "payload"
  <2>1. Advance(p, b, base + (i + 1)) = payload(p, base + (i + 1))
    BY <1>3 DEF Advance, consume
  <2>2. /\ payload(p, base + (i + 1)).state = p.state
        /\ payload(p, base + (i + 1)).size = p.size + 1
        /\ payload(p, base + (i + 1)).first = IF p.size = 0 THEN base + (i + 1) ELSE p.first
    BY <1>1 DEF payload, Handler
  <2>3. p.size \in Nat /\ p.first \in Nat
    BY <1>1 DEF Handler
  <2>4. QED
    BY <1>3, <2>1, <2>2, <2>3 DEF Placed
<1>4. CASE ~p.done /\ p.state # "payload"
  <2> DEFINE r == consume(p, b, base + (i + 1))
  <2>1. p.size = 0 /\ p.first = 0
    BY <1>4 DEF Placed
  <2>2. ASSUME NEW q \in Handler, q.size = 0 /\ q.first = 0
        PROVE  AfterLength(q).size = 0 /\ AfterLength(q).first = 0
    BY <2>2 DEF AfterLength, Handler
  <2>3. r.size = 0 /\ r.first = 0
    <3>1. CASE p.state = "fin_opcode"
      BY <1>1, <2>1, <3>1 DEF consume, fin_opcode, Handler
    <3>2. CASE p.state = "mask_payload_len"
      <4> DEFINE q == [p EXCEPT !.mask = b >= 128, !.len = b % 128]
      <4>1. (b >= 128) \in BOOLEAN /\ b % 128 \in 0 .. 127
        BY DEF Byte
      <4>2. q \in Handler /\ q.size = 0 /\ q.first = 0
        BY <1>1, <2>1, <4>1 DEF Handler
      <4> HIDE DEF q
      <4>3. AfterLength(q).size = 0 /\ AfterLength(q).first = 0
        BY <2>2, <4>2
      <4>4. /\ [q EXCEPT !.done = TRUE].size = 0 /\ [q EXCEPT !.done = TRUE].first = 0
            /\ [q EXCEPT !.state = "extended_payload_len", !.n = 1].size = 0
            /\ [q EXCEPT !.state = "extended_payload_len", !.n = 1].first = 0
        BY <4>2 DEF Handler
      <4>5. mask_payload_len(p, b).size = 0 /\ mask_payload_len(p, b).first = 0
        BY <4>3, <4>4 DEF mask_payload_len, q
      <4>6. QED
        BY <3>2, <4>5 DEF consume
    <3>3. CASE p.state = "extended_payload_len"
      <4> DEFINE q == [p EXCEPT !.ext = IF p.n = 1 /\ p.len \notin {126, 127} THEN @ ELSE Shifted(@, b)]
      <4>1. q \in Handler /\ q.size = 0 /\ q.first = 0
        BY <1>1, <2>1, ShiftedType DEF Handler
      <4> HIDE DEF q
      <4>2. AfterLength(q).size = 0 /\ AfterLength(q).first = 0
        BY <2>2, <4>1
      <4>3. [q EXCEPT !.n = @ + 1].size = 0 /\ [q EXCEPT !.n = @ + 1].first = 0
        BY <4>1 DEF Handler
      <4>4. extended_payload_len(p, b).size = 0 /\ extended_payload_len(p, b).first = 0
        BY <2>1, <4>2, <4>3 DEF extended_payload_len, q
      <4>5. QED
        BY <3>3, <4>4 DEF consume
    <3>4. CASE p.state = "masking_key"
      BY <1>1, <2>1, <3>4 DEF consume, masking_key, Handler
    <3>5. QED
      BY <1>1, <1>4, <3>1, <3>2, <3>3, <3>4 DEF State
  <2>4. QED
    BY <1>4, <2>3 DEF Advance, Placed
<1>5. QED
  BY <1>2, <1>3, <1>4

(* The payload that a read completes lies in this read.                    *)
LEMMA ParsePlaced ==
  ASSUME NEW q \in Parsers, NEW bytes \in Seq(Byte), NEW base \in Nat
  PROVE  Placed(parse(q, bytes, base), base, Len(bytes))
<1>1. PICK f : Runs(f, q, bytes, base) /\ parse(q, bytes, base) = f[Len(bytes)]
  BY ParseRuns
<1>2. /\ f[0] = data_frame(q)
      /\ \A i \in 1 .. Len(bytes) : f[i] = Advance(f[i - 1], bytes[i], base + i)
      /\ \A i \in 0 .. Len(bytes) : f[i] \in Handlers
  BY <1>1, RunProperties
<1> DEFINE S == {i \in 0 .. Len(bytes) : Placed(f[i], base, i)}
<1>3. ASSUME NEW i \in 0 .. Len(bytes) - 1, i \in S PROVE i + 1 \in S
  <2>1. i + 1 \in 1 .. Len(bytes) /\ (i + 1) - 1 = i /\ bytes[i + 1] \in Byte
        /\ f[i] \in Handlers /\ i \in Nat
    BY <1>2
  <2>2. f[i + 1] = Advance(f[i], bytes[i + 1], base + (i + 1))
    BY <1>2, <2>1
  <2>3. Placed(f[i], base, i)
    BY <1>3
  <2>4. Placed(f[i + 1], base, i + 1)
    BY <2>1, <2>2, <2>3, PlacedStep
  <2>5. QED
    BY <2>1, <2>4
<1>4. 0 \in S
  BY <1>2 DEF data_frame, Placed
<1>5. Len(bytes) \in Nat
  OBVIOUS
<1> HIDE DEF S
<1>6. \A i \in 0 .. Len(bytes) : i \in S
  BY <1>3, <1>4, <1>5, Upwards
<1>7. Len(bytes) \in S
  BY <1>5, <1>6
<1>8. QED
  BY <1>1, <1>7 DEF S

(***************************************************************************)
(* Headers: what announces the length n is taken for n.                    *)
(***************************************************************************)
(* A parser within a header.                                               *)
Within(p, state, n, op, mask, len, ext) ==
  /\ p.state = state /\ p.n = n /\ p.op = op /\ p.mask = mask /\ p.len = len /\ p.ext = ext
  /\ p.key = 0 /\ p.first = 0 /\ p.size = 0 /\ p.done = FALSE
(* And behind its length.                                                  *)
Behind(p, op, mask, len, ext) ==
  Within(p, IF mask THEN "masking_key" ELSE "payload", IF mask THEN 1 ELSE 0, op, mask, len, ext)

LEMMA ConsumesOpcode ==
  ASSUME NEW op \in Opcode, NEW k
  PROVE  Within(consume(data_frame(NewParser), 128 + op, k), "mask_payload_len", 0, op, FALSE, 0, 0)
<1> DEFINE p == data_frame(NewParser)
<1>1. p \in Handler /\ Within(p, "fin_opcode", 0, Text, FALSE, 0, 0)
  <2>1. p \in Handler
    BY DataFrameType, NewParserType DEF Handlers
  <2>2. QED
    BY <2>1 DEF data_frame, NewParser, Within
<1>2. (128 + op) % 16 = op
  BY DEF Opcode, Continuation, Text, Binary, Close, Ping, Pong, Reserved
<1> HIDE DEF p
<1>3. Within(fin_opcode(p, 128 + op), "mask_payload_len", 0, op, FALSE, 0, 0)
  BY <1>1, <1>2 DEF fin_opcode, Within, Handler
<1>4. consume(p, 128 + op, k) = fin_opcode(p, 128 + op)
  BY <1>1 DEF consume, Within
<1>5. QED
  BY <1>3, <1>4 DEF p

LEMMA AfterLengthBehind ==
  ASSUME NEW p \in Handler, NEW op, NEW mask \in BOOLEAN, NEW len, NEW ext, NEW state, NEW n,
         Within(p, state, n, op, mask, len, ext)
  PROVE  Behind(AfterLength(p), op, mask, len, ext)
BY DEF AfterLength, Behind, Within, Handler

(* The byte says whether there is a mask, and s.                           *)
Says(b, mask, s) == b \in Byte /\ (b >= 128) = mask /\ b % 128 = s
(* And the parser behind it has taken that.                                *)
TakenLength(p, op, mask, s) ==
  IF s \in {126, 127} THEN Within(p, "extended_payload_len", 1, op, mask, s, 0)
  ELSE Behind(p, op, mask, s, 0)

LEMMA SaysLength ==
  ASSUME NEW mask \in BOOLEAN, NEW s \in 1 .. 127
  PROVE  Says((IF mask THEN 128 ELSE 0) + s, mask, s)
<1>1. CASE mask
  <2>1. (IF mask THEN 128 ELSE 0) + s = 128 + s
    BY <1>1
  <2>2. 128 + s \in Byte /\ 128 + s >= 128 /\ (128 + s) % 128 = s
    BY DEF Byte
  <2>3. QED
    BY <1>1, <2>1, <2>2 DEF Says
<1>2. CASE ~mask
  <2>1. (IF mask THEN 128 ELSE 0) + s = s
    BY <1>2
  <2>2. s \in Byte /\ ~(s >= 128) /\ s % 128 = s
    BY DEF Byte
  <2>3. QED
    BY <1>2, <2>1, <2>2 DEF Says
<1>3. QED
  BY <1>1, <1>2

LEMMA ConsumesLength ==
  ASSUME NEW p \in Handler, NEW op, Within(p, "mask_payload_len", 0, op, FALSE, 0, 0),
         NEW mask \in BOOLEAN, NEW s \in 1 .. 127, NEW k, NEW b, Says(b, mask, s)
  PROVE  TakenLength(consume(p, b, k), op, mask, s)
<1> DEFINE q == [p EXCEPT !.mask = b >= 128, !.len = b % 128]
<1>1. q \in Handler /\ Within(q, "mask_payload_len", 0, op, mask, s, 0)
  <2>1. (b >= 128) = mask /\ b % 128 = s /\ s \in 0 .. 127
    BY DEF Says
  <2>2. QED
    BY <2>1 DEF Within, Handler
<1>2. consume(p, b, k)
        = IF s \in {126, 127} THEN [q EXCEPT !.state = "extended_payload_len", !.n = 1]
          ELSE AfterLength(q)
  <2>1. q.len = s
    BY <1>1 DEF Within
  <2>2. consume(p, b, k) = mask_payload_len(p, b)
    BY DEF consume, Within
  <2>3. QED
    BY <2>1, <2>2 DEF mask_payload_len
<1> HIDE DEF q
<1>3. Within([q EXCEPT !.state = "extended_payload_len", !.n = 1], "extended_payload_len", 1, op, mask, s, 0)
  BY <1>1 DEF Within, Handler
<1>4. Behind(AfterLength(q), op, mask, s, 0)
  BY <1>1, AfterLengthBehind
<1>5. QED
  BY <1>2, <1>3, <1>4 DEF TakenLength

(* A frame without a payload ends here.                                    *)
LEMMA ConsumesNoLength ==
  ASSUME NEW p \in Handler, NEW op, Within(p, "mask_payload_len", 0, op, FALSE, 0, 0),
         NEW b \in Byte, b % 128 = 0, NEW k
  PROVE  consume(p, b, k).op = op /\ consume(p, b, k).done
<1> DEFINE q == [p EXCEPT !.mask = b >= 128, !.len = b % 128]
<1>1. q \in Handler /\ q.len = 0 /\ q.op = op
  <2>1. (b >= 128) \in BOOLEAN
    BY DEF Byte
  <2>2. QED
    BY <2>1 DEF Within, Handler
<1>2. consume(p, b, k) = [q EXCEPT !.done = TRUE]
  <2>1. consume(p, b, k) = mask_payload_len(p, b)
    BY DEF consume, Within
  <2>2. QED
    BY <1>1, <2>1 DEF mask_payload_len
<1> HIDE DEF q
<1>3. QED
  BY <1>1, <1>2 DEF Handler

LEMMA ConsumesExtended ==
  ASSUME NEW op \in Opcode, NEW mask \in BOOLEAN, NEW s \in {126, 127}, NEW j \in 1 .. 8,
         NEW ext \in Nat, NEW b \in Byte, NEW k,
         NEW p \in Handler, Within(p, "extended_payload_len", j, op, mask, s, ext)
  PROVE  LET r == consume(p, b, k) IN
         IF (j = 2 /\ s = 126) \/ j = 8 THEN Behind(r, op, mask, s, Shifted(ext, b))
         ELSE Within(r, "extended_payload_len", j + 1, op, mask, s, Shifted(ext, b))
<1> DEFINE q == [p EXCEPT !.ext = IF p.n = 1 /\ p.len \notin {126, 127} THEN @ ELSE Shifted(@, b)]
<1>1. q \in Handler /\ Within(q, "extended_payload_len", j, op, mask, s, Shifted(ext, b))
  <2>1. p.len \in {126, 127} /\ p.ext = ext
    BY DEF Within
  <2>2. q \in Handler
    BY <2>1, ShiftedType DEF Handler
  <2>3. QED
    BY <2>1, <2>2 DEF Within, Handler
<1>2. Behind(AfterLength(q), op, mask, s, Shifted(ext, b))
  <2> HIDE DEF q
  <2>1. QED
    BY <1>1, AfterLengthBehind
<1>3. Within([q EXCEPT !.n = @ + 1], "extended_payload_len", j + 1, op, mask, s, Shifted(ext, b))
  <2> HIDE DEF q
  <2>1. QED
    BY <1>1 DEF Within, Handler
<1>4. p.n = j /\ p.len = s /\ p.state = "extended_payload_len"
  BY DEF Within
<1>5. consume(p, b, k) = IF (j = 2 /\ s = 126) \/ j = 8 THEN AfterLength(q) ELSE [q EXCEPT !.n = @ + 1]
  <2>1. consume(p, b, k) = extended_payload_len(p, b)
    BY <1>4 DEF consume
  <2>2. QED
    BY <1>4, <2>1 DEF extended_payload_len
<1> HIDE DEF q
<1>6. QED
  BY <1>2, <1>3, <1>5

(* The bytes begin with a header of the opcode op that announces n bytes.  *)
HeadLength(n) == IF n < 126 THEN 2 ELSE IF n < 65536 THEN 4 ELSE 10
Announces(bytes, op, mask, n) ==
  /\ Len(bytes) >= HeadLength(n)
  /\ bytes[1] = 128 + op
  /\ bytes[2] = (IF mask THEN 128 ELSE 0) + (IF n < 126 THEN n ELSE IF n < 65536 THEN 126 ELSE 127)
  /\ n >= 126 /\ n < 65536 => bytes[3] = n \div 256 /\ bytes[4] = n % 256
  /\ n >= 65536 =>
       /\ bytes[3] = 0 /\ bytes[4] = 0 /\ bytes[5] = 0 /\ bytes[6] = 0 /\ bytes[7] = 0
       /\ bytes[8] = n \div 65536 /\ bytes[9] = (n \div 256) % 256 /\ bytes[10] = n % 256

LEMMA LongestBound == Longest \in Nat /\ Longest <= 8388351
<1>1. Longest = 8388351
  BY SMT DEF Longest, TooLong
<1>2. QED
  BY <1>1, SMT

(* The header is behind p.                                                 *)
Sized(len, ext, n) == (IF len \in {126, 127} THEN ext ELSE len) = n /\ n # 0
HeadDone(p, op, mask, n) ==
  \E len \in 1 .. 127, ext \in Nat : Behind(p, op, mask, len, ext) /\ Sized(len, ext, n)

LEMMA HeadParsed ==
  ASSUME NEW op \in Opcode, NEW mask \in BOOLEAN, NEW n \in 1 .. Longest, NEW base \in Nat,
         NEW bytes \in Seq(Byte), Announces(bytes, op, mask, n),
         NEW f, Runs(f, NewParser, bytes, base)
  PROVE  HeadDone(f[HeadLength(n)], op, mask, n)
<1>1. /\ f[0] = data_frame(NewParser)
      /\ \A i \in 1 .. Len(bytes) : f[i] = Advance(f[i - 1], bytes[i], base + i)
      /\ \A i \in 0 .. Len(bytes) : f[i] \in Handlers
  BY RunProperties, NewParserType
<1>2. ASSUME NEW i \in Nat, i < HeadLength(n)
      PROVE  i + 1 \in 1 .. Len(bytes) /\ bytes[i + 1] \in Byte /\ f[i] \in Handler
  <2>1. i + 1 \in 1 .. Len(bytes) /\ i \in 0 .. Len(bytes)
    BY <1>2, SMT DEF Announces, HeadLength
  <2>2. f[i] \in Handlers
    BY <1>1, <2>1
  <2>3. QED
    BY <2>1, <2>2 DEF Handlers
<1>3. ASSUME NEW i \in Nat, i < HeadLength(n), ~f[i].done
      PROVE  f[i + 1] = consume(f[i], bytes[i + 1], base + (i + 1))
  <2>1. i + 1 \in 1 .. Len(bytes) /\ (i + 1) - 1 = i
    BY <1>2, <1>3
  <2>2. QED
    BY <1>1, <1>3, <2>1 DEF Advance
<1> DEFINE s == IF n < 126 THEN n ELSE IF n < 65536 THEN 126 ELSE 127
<1>4. Within(f[1], "mask_payload_len", 0, op, FALSE, 0, 0)
  <2>1. f[0 + 1] = consume(f[0], bytes[0 + 1], base + (0 + 1))
    <3>1. 0 \in Nat /\ 0 < HeadLength(n) /\ ~f[0].done
      BY <1>1, SMT DEF HeadLength, data_frame
    <3>2. QED
      BY <1>3, <3>1, Zenon
  <2>2. 0 + 1 = 1
    OBVIOUS
  <2>3. bytes[1] = 128 + op
    BY DEF Announces
  <2>4. QED
    BY <1>1, <2>1, <2>2, <2>3, ConsumesOpcode
<1>5. IF s \in {126, 127} THEN Within(f[2], "extended_payload_len", 1, op, mask, s, 0)
      ELSE Behind(f[2], op, mask, s, 0)
  <2>1. f[1 + 1] = consume(f[1], bytes[1 + 1], base + (1 + 1))
    <3>1. 1 \in Nat /\ 1 < HeadLength(n) /\ ~f[1].done
      BY <1>4, SMT DEF HeadLength, Within
    <3>2. QED
      BY <1>3, <3>1, Zenon
  <2>2. 1 + 1 = 2 /\ s \in 0 .. 127 /\ s # 0
    BY SMT
  <2>3. bytes[2] = (IF mask THEN 128 ELSE 0) + s
    BY SMT DEF Announces
  <2>4. f[1] \in Handler
    BY <1>2, SMT DEF HeadLength
  <2>5. f[2] = consume(f[1], bytes[2], base + 2)
    BY <2>1, <2>2, SMT
  <2> HIDE DEF s
  <2>6. QED
    <3>1. s \in 0 .. 127 /\ s # 0
      BY <2>2
    <3>2. s \in 1 .. 127
      BY <3>1
    <3>3. Says(bytes[2], mask, s)
      BY <2>3, <3>2, SaysLength
    <3>4. TakenLength(f[2], op, mask, s)
      BY <1>4, <2>4, <2>5, <3>2, <3>3, ConsumesLength
    <3>5. QED
      BY <3>4 DEF TakenLength
<1>6. ASSUME NEW j \in 1 .. 8, NEW ext \in Nat, s \in {126, 127}, 1 + j < HeadLength(n),
             Within(f[1 + j], "extended_payload_len", j, op, mask, s, ext)
      PROVE  IF (j = 2 /\ s = 126) \/ j = 8 THEN Behind(f[2 + j], op, mask, s, Shifted(ext, bytes[2 + j]))
             ELSE Within(f[2 + j], "extended_payload_len", j + 1, op, mask, s, Shifted(ext, bytes[2 + j]))
  <2>1. f[(1 + j) + 1] = consume(f[1 + j], bytes[(1 + j) + 1], base + ((1 + j) + 1))
    <3>1. 1 + j \in Nat /\ 1 + j < HeadLength(n) /\ ~f[1 + j].done
      BY <1>6 DEF Within
    <3>2. QED
      BY <1>3, <3>1, Zenon
  <2> HIDE DEF s
  <2>2. (1 + j) + 1 = 2 + j /\ bytes[(1 + j) + 1] \in Byte /\ f[1 + j] \in Handler
    <3>1. 1 + j \in Nat
      OBVIOUS
    <3>2. QED
      BY <1>2, <1>6, <3>1
  <2>3. QED
    BY <1>6, <2>1, <2>2, ConsumesExtended
<1>7. CASE n < 126
  <2>1. Behind(f[HeadLength(n)], op, mask, n, 0) /\ n \in 1 .. 127 /\ n \notin {126, 127} /\ 0 \in Nat
    BY <1>5, <1>7, SMT DEF HeadLength
  <2>2. QED
    BY <2>1 DEF HeadDone, Sized
<1>8. CASE n >= 126 /\ n < 65536
  <2>1. s = 126 /\ HeadLength(n) = 4
    BY <1>8, SMT DEF HeadLength
  <2>2. Shifted(0, bytes[3]) = n \div 256 /\ Shifted(n \div 256, bytes[4]) = n
    BY <1>8, SMT DEF Shifted, TooLong, Announces
  <2>3. n \div 256 \in Nat
    BY <1>8, SMT
  <2> HIDE DEF s
  <2>4. Within(f[2], "extended_payload_len", 1, op, mask, 126, 0)
    BY <1>5, <2>1
  <2>5. Within(f[3], "extended_payload_len", 2, op, mask, 126, n \div 256)
    <3>1. 1 \in 1 .. 8 /\ 0 \in Nat /\ 1 + 1 = 2 /\ 2 + 1 = 3 /\ 1 + 1 < HeadLength(n)
      BY <2>1
    <3>2. Within(f[2 + 1], "extended_payload_len", 1 + 1, op, mask, s, Shifted(0, bytes[2 + 1]))
      BY <1>6, <2>1, <2>4, <3>1
    <3>3. QED
      BY <2>1, <2>2, <3>1, <3>2
  <2>6. Behind(f[4], op, mask, 126, n)
    <3>1. 2 \in 1 .. 8 /\ 1 + 2 = 3 /\ 2 + 2 = 4 /\ 1 + 2 < HeadLength(n)
      BY <2>1
    <3>2. Behind(f[2 + 2], op, mask, s, Shifted(n \div 256, bytes[2 + 2]))
      BY <1>6, <2>1, <2>3, <2>5, <3>1
    <3>3. QED
      BY <2>1, <2>2, <3>1, <3>2
  <2>7. QED
    BY <2>1, <2>6 DEF HeadDone, Sized
<1>9. CASE n >= 65536
  <2>1. s = 127 /\ HeadLength(n) = 10
    BY <1>9, SMT DEF HeadLength
  <2>2. Shifted(0, 0) = 0
    BY DEF Shifted, TooLong
  <2>3. /\ Shifted(0, n \div 65536) = n \div 65536
        /\ Shifted(n \div 65536, (n \div 256) % 256) = n \div 256
        /\ Shifted(n \div 256, n % 256) = n
        /\ n \div 65536 \in Nat /\ n \div 256 \in Nat
    <3>1. n \in Nat /\ n <= 8388351
      BY LongestBound, SMT
    <3>2. /\ n \div 65536 \in Nat /\ n \div 65536 < 32767
          /\ n \div 256 \in Nat /\ n \div 256 < 32767
          /\ n % 256 \in Nat /\ (n \div 256) % 256 \in Nat
      BY <3>1, SMT
    <3>3. (n \div 256) \div 256 = n \div 65536
      BY <3>1, SMT
    <3>4. ASSUME NEW m \in Nat PROVE m = (m \div 256) * 256 + (m % 256)
      OBVIOUS
    <3>10. n = (n \div 256) * 256 + (n % 256) /\ n \div 256 = (n \div 65536) * 256 + ((n \div 256) % 256)
      <4>1. n \div 256 \in Nat
        BY <3>2
      <4>2. QED
        BY <3>1, <3>3, <3>4, <4>1, SMT
    <3>5. ASSUME NEW ext \in Nat, ext < 32767, NEW b PROVE Shifted(ext, b) = ext * 256 + b
      BY <3>5, SMT DEF Shifted, TooLong
    <3>6. QED
      <4> DEFINE a == n \div 65536
                 b == n \div 256
                 c == n % 256
                 d == (n \div 256) % 256
      <4>1. Shifted(0, a) = a
        <5>1. 0 \in Nat /\ 0 < 32767 /\ 0 * 256 + a = a
          BY <3>2
        <5>2. QED
          BY <3>5, <5>1
      <4>2. Shifted(a, d) = b
        <5>1. a \in Nat /\ a < 32767
          BY <3>2
        <5>2. Shifted(a, d) = a * 256 + d
          BY <3>5, <5>1
        <5>3. QED
          BY <3>10, <5>2
      <4>3. Shifted(b, c) = n
        <5>1. Shifted(b, c) = b * 256 + c
          BY <3>2, <3>5
        <5>2. QED
          BY <3>10, <5>1
      <4>4. a \in Nat /\ b \in Nat
        BY <3>2
      <4>5. QED
        BY <4>1, <4>2, <4>3, <4>4
  <2> HIDE DEF s
  <2>4. ASSUME NEW j \in 1 .. 7, NEW ext \in Nat,
               Within(f[1 + j], "extended_payload_len", j, op, mask, 127, ext)
        PROVE  Within(f[2 + j], "extended_payload_len", j + 1, op, mask, 127, Shifted(ext, bytes[2 + j]))
    <3>1. j \in 1 .. 8 /\ 1 + j < HeadLength(n) /\ ~((j = 2 /\ s = 126) \/ j = 8)
      BY <2>1
    <3>2. QED
      BY <1>6, <2>1, <2>4, <3>1
  <2>5. Within(f[2], "extended_payload_len", 1, op, mask, 127, 0)
    BY <1>5, <2>1
  <2>6. ASSUME NEW j \in 1 .. 5, Within(f[1 + j], "extended_payload_len", j, op, mask, 127, 0)
        PROVE  Within(f[2 + j], "extended_payload_len", j + 1, op, mask, 127, 0)
    <3>1. bytes[2 + j] = 0
      BY <1>9, SMT DEF Announces
    <3>2. j \in 1 .. 7 /\ 0 \in Nat
      OBVIOUS
    <3>3. QED
      BY <2>2, <2>4, <2>6, <3>1, <3>2
  <2>7. Within(f[7], "extended_payload_len", 6, op, mask, 127, 0)
    <3>1. Within(f[3], "extended_payload_len", 2, op, mask, 127, 0)
      BY <2>5, <2>6
    <3>2. Within(f[4], "extended_payload_len", 3, op, mask, 127, 0)
      BY <2>6, <3>1
    <3>3. Within(f[5], "extended_payload_len", 4, op, mask, 127, 0)
      BY <2>6, <3>2
    <3>4. Within(f[6], "extended_payload_len", 5, op, mask, 127, 0)
      BY <2>6, <3>3
    <3>5. QED
      BY <2>6, <3>4
  <2>8. Within(f[8], "extended_payload_len", 7, op, mask, 127, n \div 65536)
    BY <1>9, <2>3, <2>4, <2>7, SMT DEF Announces
  <2>9. Within(f[9], "extended_payload_len", 8, op, mask, 127, n \div 256)
    BY <1>9, <2>3, <2>4, <2>8, SMT DEF Announces
  <2>10. Behind(f[10], op, mask, 127, n)
    <3>1. 8 \in 1 .. 8 /\ 1 + 8 = 9 /\ 2 + 8 = 10 /\ 1 + 8 < HeadLength(n)
      BY <2>1
    <3>2. Behind(f[2 + 8], op, mask, s, Shifted(n \div 256, bytes[2 + 8]))
      BY <1>6, <2>1, <2>3, <2>9, <3>1
    <3>3. QED
      BY <1>9, <2>1, <2>3, <3>1, <3>2, SMT DEF Announces
  <2>11. QED
    BY <2>1, <2>10 DEF HeadDone, Sized
<1>10. QED
  BY <1>7, <1>8, <1>9, SMT

(* What writes a length: the bytes of n behind the first byte of a header. *)
HeadOf(n) == IF n < 126 THEN <<n>>
             ELSE IF n < 65536 THEN <<126>> \o BigEndian(n, 2)
             ELSE <<127>> \o BigEndian(n, 8)

(* Lengths of two bytes.                                                   *)
Short(n) == n \in Nat /\ n < 65536

LEMMA BigEndianShort ==
  ASSUME NEW n \in Nat, Short(n)
  PROVE  /\ Len(BigEndian(n, 2)) = 2 /\ BigEndian(n, 2) \in Seq(Byte)
         /\ BigEndian(n, 2)[1] = n \div 256 /\ BigEndian(n, 2)[2] = n % 256
<1> DEFINE g == BigEndian(n, 2)
<1>1. Place[1] = 1 /\ Place[2] = 256
  BY SMT DEF Place
<1>2. g = [i \in 1 .. 2 |-> IF 2 - i > 3 THEN 0 ELSE (n \div Place[2 - i + 1]) % 256]
  BY DEF BigEndian
<1>3. g[1] = (n \div 256) % 256
  BY <1>1, <1>2, SMT
<1>4. g[2] = (n \div 1) % 256 /\ n \div 1 = n
  BY <1>1, <1>2, SMT
<1>5. (n \div 256) % 256 = n \div 256
  BY SMT DEF Short
<1>6. \A i \in 1 .. 2 : g[i] \in Byte
  BY <1>3, <1>4, SMT DEF Byte
<1>7. DOMAIN g = 1 .. 2
  BY <1>2
<1> HIDE DEF g
<1>8. g \in Seq(Byte) /\ Len(g) = 2
  <2>1. g = [i \in 1 .. 2 |-> g[i]]
    BY <1>2, <1>7
  <2>2. g \in [1 .. 2 -> Byte]
    BY <1>6, <2>1
  <2>3. QED
    BY <2>2, FunctionIsSeq
<1>9. QED
  BY <1>3, <1>4, <1>5, <1>8 DEF g

LEMMA BigEndianLong ==
  ASSUME NEW n \in Nat, n <= Longest
  PROVE  /\ Len(BigEndian(n, 8)) = 8 /\ BigEndian(n, 8) \in Seq(Byte)
         /\ \A i \in 1 .. 5 : BigEndian(n, 8)[i] = 0
         /\ BigEndian(n, 8)[6] = n \div 65536 /\ BigEndian(n, 8)[7] = (n \div 256) % 256
         /\ BigEndian(n, 8)[8] = n % 256
<1> DEFINE g == BigEndian(n, 8)
<1>1. Place[1] = 1 /\ Place[2] = 256 /\ Place[3] = 65536 /\ Place[4] = 16777216
  BY SMT DEF Place
<1>2. g = [i \in 1 .. 8 |-> IF 8 - i > 3 THEN 0 ELSE (n \div Place[8 - i + 1]) % 256]
  BY DEF BigEndian
<1>0. n <= 8388351
  BY SMT DEF Longest, TooLong
<1>3. \A i \in 1 .. 4 : g[i] = 0
  BY <1>2, SMT
<1>4. g[5] = (n \div 16777216) % 256 /\ n \div 16777216 = 0
  BY <1>0, <1>1, <1>2, SMT
<1>5. g[6] = (n \div 65536) % 256 /\ (n \div 65536) % 256 = n \div 65536
  BY <1>0, <1>1, <1>2, SMT
<1>6. g[7] = (n \div 256) % 256
  BY <1>1, <1>2, SMT
<1>7. g[8] = (n \div 1) % 256 /\ n \div 1 = n
  BY <1>1, <1>2, SMT
<1>8. g[5] = 0
  BY <1>4, SMT
<1>9. DOMAIN g = 1 .. 8
  BY <1>2
<1>10. /\ n \div 65536 \in Nat /\ (n \div 65536) % 256 \in Byte
       /\ n \div 256 \in Nat /\ (n \div 256) % 256 \in Byte /\ n % 256 \in Byte /\ 0 \in Byte
  BY SMT DEF Byte
<1> HIDE DEF g
<1>11. \A i \in 1 .. 8 : g[i] \in Byte
  BY <1>3, <1>5, <1>6, <1>7, <1>8, <1>10, SMT
<1>12. g \in Seq(Byte) /\ Len(g) = 8
  <2>1. g = [i \in 1 .. 8 |-> g[i]]
    BY <1>2, <1>9
  <2>2. g \in [1 .. 8 -> Byte]
    BY <1>11, <2>1
  <2>3. QED
    BY <2>2, FunctionIsSeq
<1>13. \A i \in 1 .. 5 : g[i] = 0
  BY <1>3, <1>8
<1>14. QED
  BY <1>5, <1>6, <1>7, <1>12, <1>13 DEF g

(* One byte before others.                                                 *)
LEMMA Prefixed ==
  ASSUME NEW S, NEW x \in S, NEW t \in Seq(S), NEW r, r = <<x>> \o t
  PROVE  /\ r \in Seq(S) /\ Len(r) = 1 + Len(t) /\ r[1] = x
         /\ \A i \in 1 .. Len(t) : r[i + 1] = t[i]
OBVIOUS

LEMMA HeadOfType ==
  ASSUME NEW n \in Nat, n <= Longest
  PROVE  HeadOf(n) \in Seq(Byte) /\ Len(HeadOf(n)) = HeadLength(n) - 1 /\ HeadOf(n)[1] < 128
<1>1. CASE n < 126
  <2>1. n \in Byte
    BY <1>1 DEF Byte
  <2>2. HeadOf(n) = <<n>> /\ HeadLength(n) = 2
    BY <1>1 DEF HeadOf, HeadLength
  <2>3. QED
    BY <1>1, <2>1, <2>2
<1>2. CASE n >= 126 /\ n < 65536
  <2>1. HeadOf(n) = <<126>> \o BigEndian(n, 2) /\ HeadLength(n) = 4
    BY <1>2, SMT DEF HeadOf, HeadLength
  <2>2. BigEndian(n, 2) \in Seq(Byte) /\ Len(BigEndian(n, 2)) = 2
    <3>1. Short(n)
      BY <1>2, SMT DEF Short
    <3>2. QED
      BY <3>1, BigEndianShort
  <2>3. 126 \in Byte /\ 126 < 128
    BY DEF Byte
  <2>4. QED
    BY <2>1, <2>2, <2>3, Prefixed
<1>3. CASE n >= 65536
  <2>1. HeadOf(n) = <<127>> \o BigEndian(n, 8) /\ HeadLength(n) = 10
    BY <1>3, SMT DEF HeadOf, HeadLength
  <2>2. BigEndian(n, 8) \in Seq(Byte) /\ Len(BigEndian(n, 8)) = 8
    BY BigEndianLong
  <2>3. 127 \in Byte /\ 127 < 128
    BY DEF Byte
  <2> DEFINE g == BigEndian(n, 8)
             r == HeadOf(n)
  <2>4. g \in Seq(Byte) /\ Len(g) = 8 /\ r = <<127>> \o g
    BY <2>1, <2>2
  <2> HIDE DEF g, r
  <2>5. r \in Seq(Byte) /\ Len(r) = 1 + Len(g) /\ r[1] = 127
    <3>1. 127 \in Byte
      BY <2>3
    <3>2. r = <<127>> \o g /\ g \in Seq(Byte)
      BY <2>4
    <3>3. QED
      BY <3>1, <3>2, Prefixed
  <2>6. QED
    BY <2>1, <2>3, <2>4, <2>5 DEF r
<1>4. QED
  BY <1>1, <1>2, <1>3, SMT

LEMMA HeadAnnounces ==
  ASSUME NEW n \in Nat, n <= Longest, NEW op, NEW mask, NEW bytes \in Seq(Byte),
         Len(bytes) >= HeadLength(n), bytes[1] = 128 + op,
         bytes[2] = (IF mask THEN 128 ELSE 0) + HeadOf(n)[1],
         \A i \in 2 .. HeadLength(n) - 1 : bytes[i + 1] = HeadOf(n)[i]
  PROVE  Announces(bytes, op, mask, n)
<1>1. CASE n < 126
  <2>1. HeadOf(n) = <<n>>
    BY <1>1 DEF HeadOf
  <2>2. QED
    BY <1>1, <2>1, SMT DEF Announces
<1>2. CASE n >= 126 /\ n < 65536
  <2>1. HeadOf(n) = <<126>> \o BigEndian(n, 2) /\ HeadLength(n) = 4
    BY <1>2, SMT DEF HeadOf, HeadLength
  <2>2. /\ BigEndian(n, 2) \in Seq(Byte) /\ Len(BigEndian(n, 2)) = 2
        /\ BigEndian(n, 2)[1] = n \div 256 /\ BigEndian(n, 2)[2] = n % 256
    <3>1. Short(n)
      BY <1>2, SMT DEF Short
    <3>2. QED
      BY <3>1, BigEndianShort
  <2>3. HeadOf(n)[1] = 126 /\ HeadOf(n)[2] = n \div 256 /\ HeadOf(n)[3] = n % 256
    BY <2>1, <2>2
  <2>4. bytes[2 + 1] = HeadOf(n)[2] /\ bytes[3 + 1] = HeadOf(n)[3]
    <3>1. 2 \in 2 .. HeadLength(n) - 1 /\ 3 \in 2 .. HeadLength(n) - 1
      BY <2>1
    <3>2. QED
      BY <3>1, Zenon
  <2>5. QED
    BY <1>2, <2>3, <2>4, SMT DEF Announces
<1>3. CASE n >= 65536
  <2>1. HeadOf(n) = <<127>> \o BigEndian(n, 8) /\ HeadLength(n) = 10
    BY <1>3, SMT DEF HeadOf, HeadLength
  <2>2. /\ Len(BigEndian(n, 8)) = 8 /\ BigEndian(n, 8) \in Seq(Byte)
        /\ \A i \in 1 .. 5 : BigEndian(n, 8)[i] = 0
        /\ BigEndian(n, 8)[6] = n \div 65536 /\ BigEndian(n, 8)[7] = (n \div 256) % 256
        /\ BigEndian(n, 8)[8] = n % 256
    BY BigEndianLong
  <2>3. HeadOf(n)[1] = 127 /\ \A i \in 1 .. 8 : HeadOf(n)[i + 1] = BigEndian(n, 8)[i]
    <3> DEFINE g == BigEndian(n, 8)
               r == HeadOf(n)
    <3>1. 127 \in Byte
      BY DEF Byte
    <3>2. g \in Seq(Byte) /\ Len(g) = 8 /\ r = <<127>> \o g
      BY <2>1, <2>2
    <3> HIDE DEF g, r
    <3>3. r[1] = 127 /\ \A i \in 1 .. Len(g) : r[i + 1] = g[i]
      BY <3>1, <3>2, Prefixed
    <3>4. QED
      BY <3>2, <3>3 DEF g, r
  <2>4. \A i \in 2 .. 9 : bytes[i + 1] = BigEndian(n, 8)[i - 1]
    <3>1. ASSUME NEW i \in 2 .. 9 PROVE bytes[i + 1] = BigEndian(n, 8)[i - 1]
      <4>1. i - 1 \in 1 .. 8 /\ (i - 1) + 1 = i /\ i \in 2 .. HeadLength(n) - 1
        BY <2>1
      <4>2. HeadOf(n)[(i - 1) + 1] = BigEndian(n, 8)[i - 1]
        BY <2>3, <4>1
      <4>3. QED
        BY <4>1, <4>2
    <3>2. QED
      BY <3>1
  <2>5. \A i \in 3 .. 10 : bytes[i] = BigEndian(n, 8)[i - 2]
    <3>1. ASSUME NEW i \in 3 .. 10 PROVE bytes[i] = BigEndian(n, 8)[i - 2]
      <4>1. i - 1 \in 2 .. 9 /\ (i - 1) + 1 = i /\ (i - 1) - 1 = i - 2
        OBVIOUS
      <4>2. bytes[(i - 1) + 1] = BigEndian(n, 8)[(i - 1) - 1]
        BY <2>4, <4>1
      <4>3. QED
        BY <4>1, <4>2
    <3>2. QED
      BY <3>1
  <2> DEFINE g == BigEndian(n, 8)
  <2>6. /\ bytes[3] = g[1] /\ bytes[4] = g[2] /\ bytes[5] = g[3] /\ bytes[6] = g[4]
        /\ bytes[7] = g[5] /\ bytes[8] = g[6] /\ bytes[9] = g[7] /\ bytes[10] = g[8]
    BY <2>5
  <2>7. g[1] = 0 /\ g[2] = 0 /\ g[3] = 0 /\ g[4] = 0 /\ g[5] = 0
    BY <2>2
  <2>8. /\ bytes[3] = 0 /\ bytes[4] = 0 /\ bytes[5] = 0 /\ bytes[6] = 0 /\ bytes[7] = 0
        /\ bytes[8] = n \div 65536 /\ bytes[9] = (n \div 256) % 256 /\ bytes[10] = n % 256
    BY <2>2, <2>6, <2>7
  <2>9. QED
    BY <1>3, <2>3, <2>8, SMT DEF Announces
<1>4. QED
  BY <1>1, <1>2, <1>3, SMT

(***************************************************************************)
(* A frame at the front of what is read is parsed for what it is.          *)
(***************************************************************************)
(* Within a masking key: the first j - 1 bytes of it are read.             *)
InKey(p, j, op, len, ext, start) ==
  /\ p.state = "masking_key" /\ p.n = j /\ p.op = op /\ p.mask = TRUE /\ p.len = len /\ p.ext = ext
  /\ p.key = (IF j = 1 THEN 0 ELSE start + 1)
  /\ p.first = 0 /\ p.size = 0 /\ p.done = FALSE

(* Within a payload of n bytes: i of them are read.                        *)
InPayload(p, i, n, op, key, start) ==
  /\ p.state = "payload" /\ p.op = op /\ Awaited(p) = n /\ p.key = key
  /\ p.first = (IF i = 0 THEN 0 ELSE start + 1)
  /\ p.size = i /\ p.done = (i = n)

LEMMA ConsumesKey ==
  ASSUME NEW p \in Handler, NEW j \in 1 .. 3, NEW op, NEW len, NEW ext, NEW start \in Nat, NEW b,
         InKey(p, j, op, len, ext, start)
  PROVE  InKey(consume(p, b, start + j), j + 1, op, len, ext, start)
<1>1. consume(p, b, start + j) = masking_key(p, start + j)
  BY DEF consume, InKey
<1>2. InKey(masking_key(p, start + j), j + 1, op, len, ext, start)
  BY DEF masking_key, InKey, Handler
<1>3. QED
  BY <1>1, <1>2

LEMMA ConsumesLastOfKey ==
  ASSUME NEW p \in Handler, NEW op, NEW len, NEW ext, NEW start \in Nat, NEW b, NEW n, NEW m, NEW k,
         InKey(p, 4, op, len, ext, start), Sized(len, ext, n)
  PROVE  InPayload(consume(p, b, k), 0, n, op, start + 1, m)
<1>1. consume(p, b, k) = masking_key(p, k)
  BY DEF consume, InKey
<1>2. InPayload(masking_key(p, k), 0, n, op, start + 1, m)
  BY DEF masking_key, InKey, InPayload, Awaited, Sized, Handler
<1>3. QED
  BY <1>1, <1>2

LEMMA ConsumesPayload ==
  ASSUME NEW p \in Handler, NEW i \in Nat, NEW n \in Nat, NEW op, NEW key, NEW start \in Nat, NEW b,
         i < n, InPayload(p, i, n, op, key, start)
  PROVE  InPayload(consume(p, b, start + (i + 1)), i + 1, n, op, key, start)
<1>1. consume(p, b, start + (i + 1)) = payload(p, start + (i + 1))
  BY DEF consume, InPayload
<1>2. p.size = i /\ p.first = IF i = 0 THEN 0 ELSE start + 1
  BY DEF InPayload
<1> DEFINE r == payload(p, start + (i + 1))
<1>3. /\ r.state = p.state /\ r.op = p.op /\ r.len = p.len /\ r.ext = p.ext /\ r.key = p.key
      /\ r.first = (IF p.size = 0 THEN start + (i + 1) ELSE p.first)
      /\ r.size = p.size + 1 /\ r.done = (p.size + 1 = Awaited(p))
  BY DEF payload, Handler
<1> HIDE DEF r
<1>4. Awaited(r) = Awaited(p)
  BY <1>3 DEF Awaited
<1>5. r.first = IF i + 1 = 0 THEN 0 ELSE start + 1
  BY <1>2, <1>3
<1>6. Awaited(p) = n /\ p.state = "payload" /\ p.op = op /\ p.key = key
  BY DEF InPayload
<1>7. InPayload(r, i + 1, n, op, key, start)
  BY <1>2, <1>3, <1>4, <1>5, <1>6 DEF InPayload
<1>8. QED
  BY <1>1, <1>7 DEF r

(* What is behind a complete frame is ignored.                             *)
LEMMA DoneStays ==
  ASSUME NEW q \in Parsers, NEW bytes \in Seq(Byte), NEW base \in Nat, NEW f,
         Runs(f, q, bytes, base), NEW i \in 0 .. Len(bytes), f[i].done
  PROVE  f[Len(bytes)] = f[i]
<1>1. \A j \in 1 .. Len(bytes) : f[j] = Advance(f[j - 1], bytes[j], base + j)
  BY RunProperties
<1> DEFINE S == {d \in 0 .. Len(bytes) - i : f[i + d] = f[i]}
<1>2. 0 \in S
  OBVIOUS
<1>3. ASSUME NEW d \in 0 .. Len(bytes) - i - 1, d \in S PROVE d + 1 \in S
  <2>1. i + (d + 1) \in 1 .. Len(bytes) /\ (i + (d + 1)) - 1 = i + d
    OBVIOUS
  <2>2. f[i + (d + 1)] = Advance(f[i + d], bytes[i + (d + 1)], base + (i + (d + 1)))
    BY <1>1, <2>1
  <2>3. f[i + d] = f[i]
    BY <1>3
  <2>4. f[i + (d + 1)] = f[i]
    BY <2>2, <2>3 DEF Advance
  <2>5. d + 1 \in 0 .. Len(bytes) - i
    OBVIOUS
  <2>6. QED
    BY <2>4, <2>5
<1>4. Len(bytes) - i \in Int
  OBVIOUS
<1> HIDE DEF S
<1>5. \A d \in 0 .. Len(bytes) - i : d \in S
  BY <1>2, <1>3, <1>4, Upwards
<1>6. Len(bytes) - i \in S
  BY <1>5
<1>7. i + (Len(bytes) - i) = Len(bytes)
  OBVIOUS
<1>8. QED
  BY <1>6, <1>7 DEF S

LEMMA RunStep ==
  ASSUME NEW q \in Parsers, NEW bytes \in Seq(Byte), NEW base \in Nat, NEW f,
         Runs(f, q, bytes, base), NEW i \in 0 .. Len(bytes) - 1, ~f[i].done
  PROVE  /\ f[i + 1] = consume(f[i], bytes[i + 1], base + (i + 1))
         /\ f[i] \in Handler /\ bytes[i + 1] \in Byte
<1>1. i + 1 \in 1 .. Len(bytes) /\ (i + 1) - 1 = i /\ i \in 0 .. Len(bytes)
  OBVIOUS
<1>2. f[i + 1] = Advance(f[i], bytes[i + 1], base + (i + 1)) /\ f[i] \in Handlers
  BY <1>1, RunProperties
<1>3. QED
  BY <1>1, <1>2 DEF Advance, Handlers

LEMMA KeyParsed ==
  ASSUME NEW q \in Parsers, NEW bytes \in Seq(Byte), NEW base \in Nat, NEW f,
         Runs(f, q, bytes, base), NEW h \in Nat, h + 4 <= Len(bytes),
         NEW op, NEW len, NEW ext, NEW n, Sized(len, ext, n), Behind(f[h], op, TRUE, len, ext)
  PROVE  InPayload(f[h + 4], 0, n, op, base + h + 1, base + (h + 4))
<1> DEFINE start == base + h
<1>1. start \in Nat
  OBVIOUS
<1>2. InKey(f[h], 1, op, len, ext, start)
  BY DEF Behind, Within, InKey
<1> HIDE DEF start
<1>3. ASSUME NEW j \in 1 .. 4, InKey(f[h + (j - 1)], j, op, len, ext, start)
      PROVE  /\ f[h + j] = consume(f[h + (j - 1)], bytes[h + j], start + j)
             /\ f[h + (j - 1)] \in Handler
  <2>1. h + (j - 1) \in 0 .. Len(bytes) - 1 /\ (h + (j - 1)) + 1 = h + j
    OBVIOUS
  <2>2. ~f[h + (j - 1)].done
    BY <1>3 DEF InKey
  <2>3. /\ f[(h + (j - 1)) + 1]
             = consume(f[h + (j - 1)], bytes[(h + (j - 1)) + 1], base + ((h + (j - 1)) + 1))
        /\ f[h + (j - 1)] \in Handler
    BY <2>1, <2>2, RunStep
  <2>4. base + (h + j) = start + j
    BY DEF start
  <2>5. QED
    BY <2>1, <2>3, <2>4
<1>4. ASSUME NEW j \in 1 .. 3, InKey(f[h + (j - 1)], j, op, len, ext, start)
      PROVE  InKey(f[h + j], j + 1, op, len, ext, start)
  <2>1. j \in 1 .. 4
    OBVIOUS
  <2>2. f[h + j] = consume(f[h + (j - 1)], bytes[h + j], start + j) /\ f[h + (j - 1)] \in Handler
    BY <1>3, <1>4, <2>1
  <2>3. QED
    BY <1>1, <1>4, <2>2, ConsumesKey
<1>5. InKey(f[h + 3], 4, op, len, ext, start)
  <2>1. /\ 1 \in 1 .. 3 /\ 1 - 1 = 0 /\ 1 + 1 = 2 /\ h + 0 = h
        /\ 2 \in 1 .. 3 /\ 2 - 1 = 1 /\ 2 + 1 = 3
        /\ 3 \in 1 .. 3 /\ 3 - 1 = 2 /\ 3 + 1 = 4
    OBVIOUS
  <2>2. InKey(f[h + 1], 1 + 1, op, len, ext, start)
    <3>1. InKey(f[h + (1 - 1)], 1, op, len, ext, start)
      BY <1>2, <2>1
    <3>2. QED
      BY <1>4, <2>1, <3>1, Zenon
  <2>3. InKey(f[h + 2], 2 + 1, op, len, ext, start)
    <3>1. InKey(f[h + (2 - 1)], 2, op, len, ext, start)
      BY <2>1, <2>2
    <3>2. QED
      BY <1>4, <2>1, <3>1, Zenon
  <2>4. InKey(f[h + 3], 3 + 1, op, len, ext, start)
    <3>1. InKey(f[h + (3 - 1)], 3, op, len, ext, start)
      BY <2>1, <2>3
    <3>2. QED
      BY <1>4, <2>1, <3>1, Zenon
  <2>5. QED
    BY <2>1, <2>4
<1>6. f[h + 4] = consume(f[h + 3], bytes[h + 4], start + 4) /\ f[h + 3] \in Handler
  <2>1. 4 \in 1 .. 4 /\ 4 - 1 = 3
    OBVIOUS
  <2>2. InKey(f[h + (4 - 1)], 4, op, len, ext, start)
    BY <1>5, <2>1
  <2>3. QED
    BY <1>3, <2>1, <2>2
<1>7. InPayload(f[h + 4], 0, n, op, start + 1, base + (h + 4))
  <2>1. ASSUME NEW b, NEW m, NEW k
        PROVE  InPayload(consume(f[h + 3], b, k), 0, n, op, start + 1, m)
    BY <1>1, <1>5, <1>6, ConsumesLastOfKey
  <2>2. QED
    BY <1>6, <2>1
<1>8. QED
  BY <1>7 DEF start

LEMMA PayloadParsed ==
  ASSUME NEW q \in Parsers, NEW bytes \in Seq(Byte), NEW base \in Nat, NEW f,
         Runs(f, q, bytes, base), NEW h \in Nat, NEW n \in Nat, h + n <= Len(bytes),
         NEW op, NEW key, InPayload(f[h], 0, n, op, key, base + h)
  PROVE  InPayload(f[h + n], n, n, op, key, base + h)
<1> DEFINE S == {i \in 0 .. n : InPayload(f[h + i], i, n, op, key, base + h)}
<1>1. 0 \in S
  OBVIOUS
<1>2. ASSUME NEW i \in 0 .. n - 1, i \in S PROVE i + 1 \in S
  <2>1. /\ h + i \in 0 .. Len(bytes) - 1 /\ (h + i) + 1 = h + (i + 1) /\ i \in Nat /\ i < n
        /\ base + ((h + i) + 1) = (base + h) + (i + 1) /\ base + h \in Nat /\ i + 1 \in 0 .. n
        /\ i # n
    OBVIOUS
  <2>2. InPayload(f[h + i], i, n, op, key, base + h)
    BY <1>2
  <2>3. ~f[h + i].done
    BY <2>1, <2>2 DEF InPayload
  <2>4. /\ f[(h + i) + 1] = consume(f[h + i], bytes[(h + i) + 1], base + ((h + i) + 1))
        /\ f[h + i] \in Handler
    BY <2>1, <2>3, RunStep
  <2>5. f[h + (i + 1)] = consume(f[h + i], bytes[(h + i) + 1], (base + h) + (i + 1))
    BY <2>1, <2>4
  <2>6. InPayload(f[h + (i + 1)], i + 1, n, op, key, base + h)
    BY <2>1, <2>2, <2>4, <2>5, ConsumesPayload
  <2>7. QED
    BY <2>1, <2>6
<1>3. n \in Int
  OBVIOUS
<1> HIDE DEF S
<1>4. \A i \in 0 .. n : i \in S
  BY <1>1, <1>2, <1>3, Upwards
<1>5. n \in S
  BY <1>4
<1>6. QED
  BY <1>5 DEF S

(* How long the header of a client's frame is.                             *)
HeaderLength(fr) == HeadLength(fr.len) + (IF fr.mask THEN 4 ELSE 0)

LEMMA FrameFields ==
  ASSUME NEW fr \in Frame
  PROVE  fr.op \in Opcode /\ fr.mask \in BOOLEAN /\ fr.len \in Nat /\ fr.len <= Longest /\ fr.fill \in Byte
<1>1. Longest \in Nat
  BY LongestBound
<1>2. fr.op \in Opcode /\ fr.mask \in BOOLEAN /\ fr.len \in 0 .. Longest /\ fr.fill \in 0 .. 255
  BY DEF Frame
<1>3. QED
  BY <1>1, <1>2 DEF Byte

LEMMA HeadLengthType == \A n : HeadLength(n) \in Nat /\ HeadLength(n) >= 2
BY SMT DEF HeadLength

LEMMA KeyType == Key \in Seq(Byte) /\ Len(Key) = 4
<1>1. Key \in [1 .. 4 -> Byte] /\ 4 \in Nat
  BY ClientsAssumption DEF Byte
<1>2. QED
  BY <1>1, FunctionIsSeq

LEMMA ClientHeaderParts ==
  ASSUME NEW fr \in Frame
  PROVE  /\ ClientHeader(fr) \in Seq(Byte) /\ Len(ClientHeader(fr)) = HeaderLength(fr)
         /\ ClientHeader(fr)[1] = 128 + fr.op
         /\ ClientHeader(fr)[2] = (IF fr.mask THEN 128 ELSE 0) + HeadOf(fr.len)[1]
         /\ \A i \in 2 .. HeadLength(fr.len) - 1 : ClientHeader(fr)[i + 1] = HeadOf(fr.len)[i]
<1> DEFINE head == HeadOf(fr.len)
           rest == IF fr.mask THEN <<128 + head[1]>> \o Tail(head) \o Key ELSE head
           H == HeadLength(fr.len)
<1>1. /\ fr.op \in Opcode /\ fr.mask \in BOOLEAN /\ fr.len \in Nat /\ fr.len <= Longest
      /\ H \in Nat /\ H >= 2
  BY FrameFields, HeadLengthType
<1>2. head \in Seq(Byte) /\ Len(head) = H - 1 /\ head[1] < 128
  BY <1>1, HeadOfType
<1>0. /\ 128 + head[1] \in Byte /\ 0 + head[1] = head[1]
  <2> DEFINE x == head[1]
  <2>1. x \in Byte /\ x < 128
    BY <1>1, <1>2, ElementOfSeq
  <2> HIDE DEF x
  <2>2. 128 + x \in Byte /\ 0 + x = x
    BY <2>1 DEF Byte
  <2>3. QED
    BY <2>2 DEF x
<1>3. ClientHeader(fr) = <<128 + fr.op>> \o rest
  BY DEF ClientHeader, HeadOf
<1>4. 128 + fr.op \in Byte
  BY <1>1 DEF Opcode, Continuation, Text, Binary, Close, Ping, Pong, Reserved, Byte
<1> HIDE DEF head, H
<1>5. /\ rest \in Seq(Byte) /\ Len(rest) = (H - 1) + (IF fr.mask THEN 4 ELSE 0)
      /\ rest[1] = (IF fr.mask THEN 128 ELSE 0) + head[1]
      /\ \A i \in 2 .. H - 1 : rest[i] = head[i]
  <2>1. CASE ~fr.mask
    <3>1. rest = head /\ head[1] \in Byte
      BY <1>1, <1>2, <2>1
    <3>2. QED
      BY <1>0, <1>1, <1>2, <2>1, <3>1
  <2>2. CASE fr.mask
    <3> DEFINE t == Tail(head)
               b == 128 + head[1]
    <3>1. t \in Seq(Byte) /\ Len(t) = H - 2 /\ (\A i \in 1 .. H - 2 : t[i] = head[i + 1]) /\ head[1] \in Byte
      <4>1. head # <<>>
        BY <1>1, <1>2
      <4>2. QED
        BY <1>1, <1>2, <4>1, HeadTailProperties
    <3>2. b \in Byte
      BY <1>0
    <3>3. rest = (<<b>> \o t) \o Key
      BY <2>2
    <3> HIDE DEF t, b, rest
    <3>4. /\ <<b>> \o t \in Seq(Byte) /\ Len(<<b>> \o t) = 1 + Len(t) /\ (<<b>> \o t)[1] = b
          /\ \A i \in 1 .. Len(t) : (<<b>> \o t)[i + 1] = t[i]
      BY <3>1, <3>2, Prefixed
    <3> DEFINE c == <<b>> \o t
    <3>5. c \in Seq(Byte) /\ Len(c) = H - 1 /\ c[1] = b /\ \A i \in 1 .. H - 2 : c[i + 1] = t[i]
      BY <1>1, <3>1, <3>4
    <3> HIDE DEF c
    <3>6. /\ rest \in Seq(Byte) /\ Len(rest) = (H - 1) + 4
          /\ \A i \in 1 .. H - 1 : rest[i] = c[i]
      <4>1. rest = c \o Key
        BY <3>3 DEF c
      <4>2. /\ rest \in Seq(Byte) /\ Len(rest) = Len(c) + Len(Key)
            /\ \A i \in 1 .. Len(c) + Len(Key) : rest[i] = IF i <= Len(c) THEN c[i] ELSE Key[i - Len(c)]
        BY <3>5, <4>1, KeyType, ConcatProperties
      <4>3. QED
        BY <1>1, <3>5, <4>2, KeyType
    <3>7. \A i \in 2 .. H - 1 : rest[i] = head[i]
      <4>1. ASSUME NEW i \in 2 .. H - 1 PROVE rest[i] = head[i]
        <5>1. i - 1 \in 1 .. H - 2 /\ (i - 1) + 1 = i /\ i \in 1 .. H - 1
          BY <1>1
        <5>2. c[(i - 1) + 1] = t[i - 1] /\ t[i - 1] = head[(i - 1) + 1] /\ rest[i] = c[i]
          BY <3>1, <3>5, <3>6, <5>1
        <5>3. QED
          BY <5>1, <5>2
      <4>2. QED
        BY <4>1
    <3>8. rest[1] = b
      BY <1>1, <3>5, <3>6
    <3>9. QED
      BY <2>2, <3>6, <3>7, <3>8 DEF b
  <2>3. QED
    BY <1>1, <2>1, <2>2
<1> HIDE DEF rest
<1>6. /\ ClientHeader(fr) \in Seq(Byte) /\ Len(ClientHeader(fr)) = 1 + Len(rest)
      /\ ClientHeader(fr)[1] = 128 + fr.op
      /\ \A i \in 1 .. Len(rest) : ClientHeader(fr)[i + 1] = rest[i]
  BY <1>3, <1>4, <1>5, Prefixed
<1>7. Len(ClientHeader(fr)) = HeaderLength(fr)
  BY <1>1, <1>5, <1>6 DEF HeaderLength, H
<1>8. ClientHeader(fr)[2] = (IF fr.mask THEN 128 ELSE 0) + head[1]
  <2>1. 1 \in 1 .. Len(rest) /\ 1 + 1 = 2
    BY <1>1, <1>5
  <2>2. ClientHeader(fr)[1 + 1] = rest[1]
    BY <1>6, <2>1, Zenon
  <2>3. QED
    BY <1>5, <2>1, <2>2
<1>9. \A i \in 2 .. H - 1 : ClientHeader(fr)[i + 1] = head[i]
  <2>1. ASSUME NEW i \in 2 .. H - 1 PROVE ClientHeader(fr)[i + 1] = head[i]
    <3>1. i \in 1 .. Len(rest)
      BY <1>1, <1>5
    <3>2. QED
      BY <1>5, <1>6, <3>1
  <2>2. QED
    BY <2>1
<1>10. QED
  BY <1>6, <1>7, <1>8, <1>9 DEF head, H

Begins(bytes, s) == Len(bytes) >= Len(s) /\ \A i \in 1 .. Len(s) : bytes[i] = s[i]

LEMMA ClientFrameParts ==
  ASSUME NEW fr \in Frame
  PROVE  /\ ClientFrame(fr) \in Seq(Byte) /\ Len(ClientFrame(fr)) = HeaderLength(fr) + fr.len
         /\ HeaderLength(fr) \in Nat /\ HeaderLength(fr) >= 2
         /\ \A bytes \in Seq(Byte) : Begins(bytes, ClientFrame(fr)) => Begins(bytes, ClientHeader(fr))
<1> DEFINE h == ClientHeader(fr)
           body == [i \in 1 .. fr.len |-> fr.fill]
<1>1. fr.len \in Nat /\ fr.fill \in Byte /\ fr.mask \in BOOLEAN
  BY FrameFields
<1>2. body \in Seq(Byte) /\ Len(body) = fr.len
  <2>1. body \in [1 .. fr.len -> Byte]
    BY <1>1
  <2>2. QED
    BY <1>1, <2>1, FunctionIsSeq
<1>3. h \in Seq(Byte) /\ Len(h) = HeaderLength(fr)
  BY ClientHeaderParts
<1>4. ClientFrame(fr) = h \o body
  BY DEF ClientFrame
<1>5. HeaderLength(fr) \in Nat /\ HeaderLength(fr) >= 2
  BY <1>1, HeadLengthType DEF HeaderLength
<1> HIDE DEF h, body
<1>6. /\ ClientFrame(fr) \in Seq(Byte) /\ Len(ClientFrame(fr)) = Len(h) + Len(body)
      /\ \A i \in 1 .. Len(h) + Len(body) :
           ClientFrame(fr)[i] = IF i <= Len(h) THEN h[i] ELSE body[i - Len(h)]
  <2>1. /\ h \o body \in Seq(Byte) /\ Len(h \o body) = Len(h) + Len(body)
        /\ \A i \in 1 .. Len(h) + Len(body) :
             (h \o body)[i] = IF i <= Len(h) THEN h[i] ELSE body[i - Len(h)]
    BY <1>2, <1>3, ConcatProperties
  <2>2. QED
    BY <1>4, <2>1
<1>7. ASSUME NEW bytes \in Seq(Byte), Begins(bytes, ClientFrame(fr)) PROVE Begins(bytes, h)
  <2>1. Len(bytes) >= Len(h) + Len(body) /\ Len(bytes) >= Len(h)
    BY <1>1, <1>2, <1>3, <1>5, <1>6, <1>7 DEF Begins
  <2>2. ASSUME NEW i \in 1 .. Len(h) PROVE bytes[i] = h[i]
    <3>1. i \in 1 .. Len(h) + Len(body) /\ i <= Len(h)
      BY <1>1, <1>2, <1>3, <1>5
    <3>2. QED
      BY <1>6, <1>7, <3>1 DEF Begins
  <2>3. QED
    BY <2>1, <2>2 DEF Begins
<1>8. QED
  BY <1>2, <1>3, <1>5, <1>6, <1>7 DEF h

LEMMA HeaderAnnounces ==
  ASSUME NEW fr \in Frame, NEW bytes \in Seq(Byte), Begins(bytes, ClientHeader(fr))
  PROVE  Announces(bytes, fr.op, fr.mask, fr.len)
<1>1. fr.len \in Nat /\ fr.len <= Longest /\ fr.mask \in BOOLEAN
  BY FrameFields
<1>2. /\ Len(ClientHeader(fr)) = HeaderLength(fr)
      /\ ClientHeader(fr)[1] = 128 + fr.op
      /\ ClientHeader(fr)[2] = (IF fr.mask THEN 128 ELSE 0) + HeadOf(fr.len)[1]
      /\ \A i \in 2 .. HeadLength(fr.len) - 1 : ClientHeader(fr)[i + 1] = HeadOf(fr.len)[i]
  BY ClientHeaderParts
<1> DEFINE H == HeadLength(fr.len)
           L == HeaderLength(fr)
<1>3. H \in Nat /\ H >= 2 /\ L \in Nat /\ L >= H
  BY <1>1, HeadLengthType DEF HeaderLength
<1>4. Len(bytes) >= L /\ \A i \in 1 .. L : bytes[i] = ClientHeader(fr)[i]
  BY <1>2 DEF Begins
<1> HIDE DEF H, L
<1>5. Len(bytes) >= H /\ bytes[1] = ClientHeader(fr)[1] /\ bytes[2] = ClientHeader(fr)[2]
  BY <1>3, <1>4
<1>6. \A i \in 2 .. H - 1 : bytes[i + 1] = HeadOf(fr.len)[i]
  <2>1. ASSUME NEW i \in 2 .. H - 1 PROVE bytes[i + 1] = HeadOf(fr.len)[i]
    <3>1. i + 1 \in 1 .. L
      BY <1>3
    <3>2. bytes[i + 1] = ClientHeader(fr)[i + 1]
      BY <1>4, <3>1
    <3>3. QED
      BY <1>2, <3>2 DEF H
  <2>2. QED
    BY <2>1
<1>7. QED
  BY <1>1, <1>2, <1>5, <1>6, HeadAnnounces DEF H

(* p holds the frame fr of the stream, read from base on.                  *)
Parsed(p, fr, base) ==
  /\ p.done /\ p.op = fr.op
  /\ fr.len > 0 =>
       /\ p.size = fr.len /\ p.first = base + HeaderLength(fr) + 1
       /\ p.key = IF fr.mask THEN p.first - 4 ELSE 0

LEMMA EmptyFrameParsed ==
  ASSUME NEW fr \in Frame, NEW bytes \in Seq(Byte), NEW base \in Nat, NEW f,
         Runs(f, NewParser, bytes, base), Begins(bytes, ClientFrame(fr)), fr.len = 0
  PROVE  f[Len(bytes)].done /\ f[Len(bytes)].op = fr.op
<1>1. Announces(bytes, fr.op, fr.mask, 0)
  BY ClientFrameParts, HeaderAnnounces
<1>2. Len(bytes) >= 2 /\ bytes[1] = 128 + fr.op /\ bytes[2] = (IF fr.mask THEN 128 ELSE 0) + 0
  BY <1>1, SMT DEF Announces, HeadLength
<1>3. fr.op \in Opcode /\ fr.mask \in BOOLEAN
  BY FrameFields
<1>4. bytes[2] % 128 = 0
  BY <1>2, <1>3
<1>5. f[0] = data_frame(NewParser)
  BY RunProperties, NewParserType
<1>6. f[1] = consume(f[0], bytes[1], base + 1)
  <2>1. 0 \in 0 .. Len(bytes) - 1 /\ 0 + 1 = 1 /\ ~f[0].done
    BY <1>2, <1>5 DEF data_frame
  <2>2. f[0 + 1] = consume(f[0], bytes[0 + 1], base + (0 + 1))
    BY <2>1, RunStep, NewParserType
  <2>3. QED
    BY <2>1, <2>2
<1>7. Within(f[1], "mask_payload_len", 0, fr.op, FALSE, 0, 0)
  BY <1>2, <1>3, <1>5, <1>6, ConsumesOpcode
<1>8. f[2] = consume(f[1], bytes[2], base + 2) /\ f[1] \in Handler /\ bytes[2] \in Byte
  <2>1. 1 \in 0 .. Len(bytes) - 1 /\ 1 + 1 = 2 /\ ~f[1].done
    BY <1>2, <1>7 DEF Within
  <2>2. f[1 + 1] = consume(f[1], bytes[1 + 1], base + (1 + 1)) /\ f[1] \in Handler /\ bytes[1 + 1] \in Byte
    BY <2>1, RunStep, NewParserType
  <2>3. QED
    BY <2>1, <2>2
<1>9. f[2].op = fr.op /\ f[2].done
  <2>1. ASSUME NEW k PROVE consume(f[1], bytes[2], k).op = fr.op /\ consume(f[1], bytes[2], k).done
    BY <1>4, <1>7, <1>8, ConsumesNoLength
  <2>2. QED
    BY <1>8, <2>1
<1>10. f[Len(bytes)] = f[2]
  <2>1. 2 \in 0 .. Len(bytes)
    BY <1>2
  <2>2. QED
    BY <1>9, <2>1, DoneStays, NewParserType
<1>11. QED
  BY <1>9, <1>10

LEMMA FullFrameParsed ==
  ASSUME NEW fr \in Frame, NEW bytes \in Seq(Byte), NEW base \in Nat, NEW f,
         Runs(f, NewParser, bytes, base), Begins(bytes, ClientFrame(fr)), fr.len # 0
  PROVE  Parsed(f[Len(bytes)], fr, base)
<1> DEFINE n == fr.len
           h == HeadLength(n)
           H == HeaderLength(fr)
           key == IF fr.mask THEN base + h + 1 ELSE 0
<1>1. /\ fr.op \in Opcode /\ fr.mask \in BOOLEAN /\ n \in Nat \ {0} /\ n <= Longest /\ n \in 1 .. Longest
      /\ h \in Nat /\ H = h + IF fr.mask THEN 4 ELSE 0
  BY FrameFields, HeadLengthType, LongestBound DEF HeaderLength
<1>2. Announces(bytes, fr.op, fr.mask, n) /\ Len(bytes) >= H + n
  BY ClientFrameParts, HeaderAnnounces DEF Begins
<1>3. PICK len \in 1 .. 127, ext \in Nat : Behind(f[h], fr.op, fr.mask, len, ext) /\ Sized(len, ext, n)
  <2>1. HeadDone(f[h], fr.op, fr.mask, n)
    BY <1>1, <1>2, HeadParsed
  <2>2. QED
    BY <2>1 DEF HeadDone
<1> HIDE DEF n, h, H
<1>4. InPayload(f[H], 0, n, fr.op, key, base + H)
  <2>1. CASE fr.mask
    <3>0. fr.mask = TRUE
      BY <1>1, <2>1
    <3>4. H = h + 4
      BY <1>1, <2>1
    <3>5. Behind(f[h], fr.op, TRUE, len, ext)
      BY <1>3, <3>0
    <3>6. h + 4 <= Len(bytes)
      <4>1. h \in Nat /\ n \in Nat /\ Len(bytes) >= H + n
        BY <1>1, <1>2
      <4>2. QED
        BY <3>4, <4>1
    <3>1. h + 4 <= Len(bytes) /\ H = h + 4 /\ Behind(f[h], fr.op, TRUE, len, ext)
      BY <3>4, <3>5, <3>6
    <3>2. InPayload(f[h + 4], 0, n, fr.op, base + h + 1, base + (h + 4))
      BY <1>1, <1>3, <3>1, KeyParsed, NewParserType
    <3>3. QED
      BY <2>1, <3>1, <3>2
  <2>2. CASE ~fr.mask
    <3>0. fr.mask = FALSE
      BY <1>1, <2>2
    <3>4. H = h /\ 0 # n
      BY <1>1, <2>2
    <3>5. Behind(f[h], fr.op, FALSE, len, ext)
      BY <1>3, <3>0
    <3>1. H = h /\ Behind(f[h], fr.op, FALSE, len, ext) /\ 0 # n
      BY <3>4, <3>5
    <3>2. InPayload(f[h], 0, n, fr.op, 0, base + H)
      BY <1>3, <3>1 DEF Behind, Within, InPayload, Sized, Awaited
    <3>3. QED
      BY <2>2, <3>1, <3>2
  <2>3. QED
    BY <1>1, <2>1, <2>2
<1>5. InPayload(f[H + n], n, n, fr.op, key, base + H)
  <2>1. H \in Nat /\ H + n <= Len(bytes) /\ n \in Nat
    BY <1>1, <1>2
  <2>2. QED
    BY <1>4, <2>1, PayloadParsed, NewParserType
<1>6. f[Len(bytes)] = f[H + n]
  <2>1. H + n \in 0 .. Len(bytes)
    BY <1>1, <1>2
  <2>3. f[H + n].done
    BY <1>5 DEF InPayload
  <2>2. QED
    BY <2>1, <2>3, DoneStays, NewParserType
<1>7. Parsed(f[H + n], fr, base)
  <2>1. /\ f[H + n].op = fr.op /\ f[H + n].size = n /\ f[H + n].key = key
        /\ f[H + n].first = base + H + 1 /\ f[H + n].done
    BY <1>1, <1>5 DEF InPayload
  <2>2. key = IF fr.mask THEN (base + H + 1) - 4 ELSE 0
    BY <1>1
  <2>3. QED
    BY <2>1, <2>2 DEF Parsed, n, H
<1>8. QED
  BY <1>6, <1>7

LEMMA FrameParsed ==
  ASSUME NEW fr \in Frame, NEW bytes \in Seq(Byte), NEW base \in Nat, Begins(bytes, ClientFrame(fr))
  PROVE  Parsed(parse(NewParser, bytes, base), fr, base)
<1>1. PICK f : Runs(f, NewParser, bytes, base) /\ parse(NewParser, bytes, base) = f[Len(bytes)]
  BY ParseRuns, NewParserType
<1>2. CASE fr.len = 0
  BY <1>1, <1>2, EmptyFrameParsed DEF Parsed
<1>3. CASE fr.len # 0
  BY <1>1, <1>3, FullFrameParsed
<1>4. QED
  BY <1>2, <1>3

(***************************************************************************)
(* The header of an answer.                                                *)
(***************************************************************************)
(* All lengths but two.                                                    *)
Announced(n) == n \notin {0, 65536}

LEMMA AnswerHeader ==
  ASSUME NEW n \in Nat, n <= Longest, Announced(n)
  PROVE  to_buffers(Text, n) = <<128 + Text>> \o HeadOf(n)
<1>1. CASE n < 126
  BY <1>1, SMT DEF to_buffers, HeadOf
<1>2. CASE n >= 126 /\ n < 65536
  <2>1. n % 65536 = n /\ n < 65537 /\ ~(n < 126) /\ n < 65536
    BY <1>2, SMT
  <2>2. to_buffers(Text, n) = <<128 + Text>> \o (<<126>> \o BigEndian(n, 2))
    BY <2>1, SMT DEF to_buffers
  <2>3. HeadOf(n) = <<126>> \o BigEndian(n, 2)
    BY <2>1, SMT DEF HeadOf
  <2>4. QED
    BY <2>2, <2>3, SMT
<1>3. CASE n >= 65536
  <2>1. ~(n < 65537) /\ ~(n < 126) /\ ~(n < 65536)
    BY <1>3, SMT DEF Announced
  <2>2. to_buffers(Text, n) = <<128 + Text>> \o (<<127>> \o BigEndian(n, 8))
    BY <2>1, SMT DEF to_buffers
  <2>3. HeadOf(n) = <<127>> \o BigEndian(n, 8)
    BY <2>1, SMT DEF HeadOf
  <2>4. QED
    BY <2>2, <2>3, SMT
<1>4. QED
  BY <1>1, <1>2, <1>3, SMT

(* The library takes its own header for the length it was made for.        *)
OwnHeaderIsRead(n) ==
  LET p == parse(NewParser, to_buffers(Text, n), 0) IN p.state = "payload" /\ Awaited(p) = n

LEMMA OwnHeader ==
  ASSUME NEW n \in Nat, n <= Longest, Announced(n)
  PROVE  OwnHeaderIsRead(n)
<1> DEFINE bytes == to_buffers(Text, n)
           head == HeadOf(n)
           H == HeadLength(n)
<1>1. head \in Seq(Byte) /\ Len(head) = H - 1 /\ head[1] < 128 /\ H \in Nat /\ H >= 2
  BY HeadOfType, HeadLengthType
<1>2. 128 + Text \in Byte /\ Text \in Opcode
  BY DEF Text, Byte, Opcode
<1>3. bytes = <<128 + Text>> \o head
  BY AnswerHeader
<1> HIDE DEF bytes, head, H
<1>4. /\ bytes \in Seq(Byte) /\ Len(bytes) = 1 + Len(head) /\ bytes[1] = 128 + Text
      /\ \A i \in 1 .. Len(head) : bytes[i + 1] = head[i]
  BY <1>1, <1>2, <1>3, Prefixed
<1>5. Len(bytes) = H /\ \A i \in 1 .. H - 1 : bytes[i + 1] = head[i]
  BY <1>1, <1>4
<1>6. bytes[2] = (IF FALSE THEN 128 ELSE 0) + head[1]
  <2>1. 1 \in 1 .. H - 1 /\ 1 + 1 = 2
    BY <1>1
  <2>2. bytes[1 + 1] = head[1]
    BY <1>5, <2>1
  <2> DEFINE x == head[1]
  <2>3. x \in Byte
    BY <1>1, ElementOfSeq
  <2> HIDE DEF x
  <2>4. 0 + x = x
    BY <2>3 DEF Byte
  <2>5. QED
    BY <2>1, <2>2, <2>4 DEF x
<1>7. Announces(bytes, Text, FALSE, n)
  <2>1. \A i \in 2 .. H - 1 : bytes[i + 1] = head[i]
    BY <1>1, <1>5
  <2>2. Len(bytes) >= H
    BY <1>1, <1>5
  <2>3. QED
    <3>1. ASSUME NEW op, bytes[1] = 128 + op PROVE Announces(bytes, op, FALSE, n)
      BY <1>4, <1>6, <2>1, <2>2, <3>1, HeadAnnounces DEF head, H
    <3>2. QED
      BY <1>4, <3>1
<1>8. PICK f : Runs(f, NewParser, bytes, 0) /\ parse(NewParser, bytes, 0) = f[Len(bytes)]
  BY <1>4, ParseRuns, NewParserType
<1>9. HeadDone(f[H], Text, FALSE, n)
  <2>1. n \in 1 .. Longest /\ FALSE \in BOOLEAN /\ 0 \in Nat
    BY LongestBound, SMT DEF Announced
  <2>2. QED
    BY <1>2, <1>4, <1>7, <1>8, <2>1, HeadParsed DEF H
<1>10. PICK len \in 1 .. 127, ext \in Nat : Behind(f[H], Text, FALSE, len, ext) /\ Sized(len, ext, n)
  BY <1>9 DEF HeadDone
<1>11. f[H].state = "payload" /\ Awaited(f[H]) = n
  BY <1>10 DEF Behind, Within, Sized, Awaited
<1>12. QED
  BY <1>5, <1>8, <1>11 DEF OwnHeaderIsRead, bytes

(* The header of an answer, of any length but those of which to_buffers    *)
(* writes another, is one that data_frame_parser takes for that length.    *)
THEOREM HeadersAgreeHolds == HeadersAgree
<1>1. ASSUME NEW c \in DOMAIN Frames, NEW i \in DOMAIN Frames[c],
             NEW n \in {Frames[c][i].len, Frames[c][i].answer}, Announced(n)
      PROVE  OwnHeaderIsRead(n)
  <2>1. Frames[c][i] \in Frame
    BY ClientsAssumption, LenProperties
  <2>2. n \in 0 .. Longest
    BY <2>1 DEF Frame
  <2>3. n \in Nat /\ n <= Longest
    BY <2>2, LongestBound
  <2>4. QED
    BY <1>1, <2>3, OwnHeader
<1>2. QED
  BY <1>1, SMT DEF HeadersAgree, OwnHeaderIsRead, Announced

(***************************************************************************)
(* The stream of a client, and where its frames lie.                       *)
(***************************************************************************)
(* What the first i frames of the client c make.                           *)
ByteFrames(c) == [i \in DOMAIN Frames[c] |-> ClientFrame(Frames[c][i])]
Upto(c, i) == FlattenSeq(FirstOf(ByteFrames(c), i))

LEMMA ClientsFrames ==
  ASSUME NEW c \in DOMAIN Frames
  PROVE  /\ Frames[c] \in Seq(Frame) /\ Number(c) \in Nat /\ DOMAIN Frames[c] = 1 .. Number(c)
         /\ \A i \in 1 .. Number(c) : Frames[c][i] \in Frame
         /\ ByteFrames(c) \in Seq(Seq(Byte)) /\ Len(ByteFrames(c)) = Number(c)
         /\ \A i \in 1 .. Number(c) : ByteFrames(c)[i] = ClientFrame(Frames[c][i])
<1>1. Frames[c] \in Seq(Frame)
  BY ClientsAssumption
<1>2. Number(c) \in Nat /\ DOMAIN Frames[c] = 1 .. Number(c)
  BY <1>1, LenProperties DEF Number
<1>3. \A i \in 1 .. Number(c) : Frames[c][i] \in Frame
  BY <1>1, ElementOfSeq DEF Number
<1>4. ByteFrames(c) \in [1 .. Number(c) -> Seq(Byte)]
  BY <1>2, <1>3, ClientFrameParts DEF ByteFrames
<1>5. ByteFrames(c) \in Seq(Seq(Byte)) /\ Len(ByteFrames(c)) = Number(c)
  BY <1>2, <1>4, FunctionIsSeq
<1>6. \A i \in 1 .. Number(c) : ByteFrames(c)[i] = ClientFrame(Frames[c][i])
  BY <1>2 DEF ByteFrames
<1>7. QED
  BY <1>1, <1>2, <1>3, <1>5, <1>6

LEMMA UptoParts ==
  ASSUME NEW c \in DOMAIN Frames
  PROVE  /\ Upto(c, 0) = <<>> /\ Upto(c, Number(c)) = Stream[c]
         /\ \A i \in 0 .. Number(c) : Upto(c, i) \in Seq(Byte) /\ Ends[c][i] = Len(Upto(c, i))
         /\ \A i \in 1 .. Number(c) : Upto(c, i) = Upto(c, i - 1) \o ClientFrame(Frames[c][i])
<1>1. /\ ByteFrames(c) \in Seq(Seq(Byte)) /\ Len(ByteFrames(c)) = Number(c) /\ Number(c) \in Nat
      /\ DOMAIN Frames[c] = 1 .. Number(c)
      /\ \A i \in 1 .. Number(c) : ByteFrames(c)[i] = ClientFrame(Frames[c][i])
  BY ClientsFrames
<1>2. /\ Upto(c, 0) = <<>>
      /\ \A i \in 0 .. Number(c) : Upto(c, i) \in Seq(Byte)
      /\ FirstOf(ByteFrames(c), Number(c)) = ByteFrames(c)
  BY <1>1, FlattenParts DEF Upto
<1>3. Upto(c, Number(c)) = Stream[c]
  BY <1>2 DEF Upto, Stream, ByteFrames
<1>4. ASSUME NEW i \in 0 .. Number(c) PROVE Ends[c][i] = Len(Upto(c, i))
  <2>1. FirstOf(ByteFrames(c), i) = [k \in 1 .. i |-> ClientFrame(Frames[c][k])]
    <3>1. \A k \in 1 .. i : k \in 1 .. Number(c)
      BY <1>1
    <3>2. QED
      BY <1>1, <3>1 DEF FirstOf
  <2>2. Ends[c][i] = Len(FlattenSeq([k \in 1 .. i |-> ClientFrame(Frames[c][k])]))
    BY DEF Ends
  <2>3. QED
    BY <2>1, <2>2 DEF Upto
<1>5. ASSUME NEW i \in 1 .. Number(c)
      PROVE  Upto(c, i) = Upto(c, i - 1) \o ClientFrame(Frames[c][i])
  BY <1>1, FlattenOneMore DEF Upto
<1>6. QED
  BY <1>2, <1>3, <1>4, <1>5

(* A frame follows the one before it, and is two bytes long at least.      *)
LEMMA EndsGrow ==
  ASSUME NEW c \in DOMAIN Frames
  PROVE  /\ Ends[c][0] = 0
         /\ \A i \in 0 .. Number(c) : Ends[c][i] \in Nat
         /\ \A i \in 1 .. Number(c) :
              /\ Ends[c][i] = Ends[c][i - 1] + HeaderLength(Frames[c][i]) + Frames[c][i].len
              /\ HeaderLength(Frames[c][i]) \in Nat /\ HeaderLength(Frames[c][i]) >= 2
              /\ Frames[c][i].len \in Nat /\ Ends[c][i - 1] \in Nat
<1>1. Ends[c][0] = 0
  <2>1. 0 \in 0 .. Number(c)
    BY ClientsFrames
  <2>2. QED
    BY <2>1, UptoParts
<1>2. \A i \in 0 .. Number(c) : Ends[c][i] \in Nat
  BY UptoParts, LenProperties
<1>3. ASSUME NEW i \in 1 .. Number(c)
      PROVE  /\ Ends[c][i] = Ends[c][i - 1] + HeaderLength(Frames[c][i]) + Frames[c][i].len
             /\ HeaderLength(Frames[c][i]) \in Nat /\ HeaderLength(Frames[c][i]) >= 2
             /\ Frames[c][i].len \in Nat /\ Ends[c][i - 1] \in Nat
  <2> DEFINE fr == Frames[c][i]
             a == Upto(c, i - 1)
             b == ClientFrame(fr)
  <2>1. i \in 0 .. Number(c) /\ i - 1 \in 0 .. Number(c) /\ fr \in Frame
    BY ClientsFrames
  <2>2. a \in Seq(Byte) /\ Upto(c, i) = a \o b /\ Ends[c][i] = Len(Upto(c, i)) /\ Ends[c][i - 1] = Len(a)
    BY <2>1, UptoParts
  <2>3. b \in Seq(Byte) /\ Len(b) = HeaderLength(fr) + fr.len /\ HeaderLength(fr) \in Nat /\ HeaderLength(fr) >= 2
    BY <2>1, ClientFrameParts
  <2>4. fr.len \in Nat
    BY <2>1, FrameFields
  <2> HIDE DEF a, b, fr
  <2>5. Len(a \o b) = Len(a) + Len(b) /\ Len(a) \in Nat
    BY <2>2, <2>3, ConcatProperties, LenProperties
  <2>6. Ends[c][i] = Ends[c][i - 1] + HeaderLength(fr) + fr.len /\ Ends[c][i - 1] \in Nat
    BY <2>2, <2>3, <2>4, <2>5
  <2>7. QED
    BY <2>3, <2>4, <2>6 DEF fr
<1>4. QED
  BY <1>1, <1>2, <1>3

LEMMA EndsIncrease ==
  ASSUME NEW c \in DOMAIN Frames, NEW i \in 0 .. Number(c), NEW j \in 0 .. Number(c), i < j
  PROVE  Ends[c][i] + 2 <= Ends[c][j]
<1> DEFINE S == {d \in 0 .. Number(c) - i - 1 : Ends[c][i] + 2 <= Ends[c][i + 1 + d]}
<1>1. Number(c) \in Nat
  BY ClientsFrames
<1>2. ASSUME NEW k \in 0 .. Number(c) - 1
      PROVE  Ends[c][k] + 2 <= Ends[c][k + 1] /\ Ends[c][k] \in Nat /\ Ends[c][k + 1] \in Nat
  <2>1. k + 1 \in 1 .. Number(c) /\ (k + 1) - 1 = k /\ k \in 0 .. Number(c) /\ k + 1 \in 0 .. Number(c)
    BY <1>1
  <2>2. /\ Ends[c][k + 1] = Ends[c][k] + HeaderLength(Frames[c][k + 1]) + Frames[c][k + 1].len
        /\ HeaderLength(Frames[c][k + 1]) \in Nat /\ HeaderLength(Frames[c][k + 1]) >= 2
        /\ Frames[c][k + 1].len \in Nat /\ Ends[c][k] \in Nat /\ Ends[c][k + 1] \in Nat
    BY <2>1, EndsGrow
  <2>3. QED
    BY <2>2
<1>3. 0 \in S
  <2>1. i \in 0 .. Number(c) - 1 /\ i + 1 + 0 = i + 1 /\ 0 \in 0 .. Number(c) - i - 1
    BY <1>1
  <2>2. QED
    BY <1>2, <2>1
<1>4. ASSUME NEW d \in 0 .. Number(c) - i - 1 - 1, d \in S PROVE d + 1 \in S
  <2>1. /\ i + 1 + d \in 0 .. Number(c) - 1 /\ (i + 1 + d) + 1 = i + 1 + (d + 1)
        /\ d + 1 \in 0 .. Number(c) - i - 1 /\ i \in 0 .. Number(c) - 1
    BY <1>1
  <2>2. /\ Ends[c][i + 1 + d] + 2 <= Ends[c][i + 1 + (d + 1)] /\ Ends[c][i] \in Nat
        /\ Ends[c][i + 1 + d] \in Nat /\ Ends[c][i + 1 + (d + 1)] \in Nat
    BY <1>2, <2>1
  <2>3. Ends[c][i] + 2 <= Ends[c][i + 1 + d]
    BY <1>4
  <2>4. QED
    BY <2>1, <2>2, <2>3
<1>5. Number(c) - i - 1 \in Int
  BY <1>1
<1> HIDE DEF S
<1>6. \A d \in 0 .. Number(c) - i - 1 : d \in S
  BY <1>3, <1>4, <1>5, Upwards
<1>7. j - i - 1 \in 0 .. Number(c) - i - 1 /\ i + 1 + (j - i - 1) = j
  BY <1>1
<1>8. j - i - 1 \in S
  BY <1>6, <1>7
<1>9. QED
  BY <1>7, <1>8 DEF S

LEMMA BeginsAppended ==
  ASSUME NEW a \in Seq(Byte), NEW b \in Seq(Byte), NEW s \in Seq(Byte), Begins(a, s)
  PROVE  Begins(a \o b, s)
<1>1. /\ Len(a \o b) = Len(a) + Len(b) /\ Len(a) \in Nat /\ Len(b) \in Nat /\ Len(s) \in Nat
      /\ \A i \in 1 .. Len(a) + Len(b) : (a \o b)[i] = IF i <= Len(a) THEN a[i] ELSE b[i - Len(a)]
  BY ConcatProperties, LenProperties
<1>2. Len(a) >= Len(s) /\ \A i \in 1 .. Len(s) : a[i] = s[i]
  BY DEF Begins
<1>3. ASSUME NEW i \in 1 .. Len(s) PROVE (a \o b)[i] = s[i]
  <2>1. i \in 1 .. Len(a) + Len(b) /\ i <= Len(a)
    BY <1>1, <1>2
  <2>2. QED
    BY <1>1, <1>2, <2>1
<1>4. Len(a \o b) >= Len(s)
  BY <1>1, <1>2
<1>5. QED
  BY <1>3, <1>4 DEF Begins

LEMMA StreamBegins ==
  ASSUME NEW c \in DOMAIN Frames, NEW i \in 0 .. Number(c)
  PROVE  Stream[c] \in Seq(Byte) /\ Begins(Stream[c], Upto(c, i))
<1> DEFINE S == {d \in 0 .. Number(c) - i : Begins(Upto(c, i + d), Upto(c, i))}
<1>1. Number(c) \in Nat /\ \A j \in 1 .. Number(c) : Frames[c][j] \in Frame
  BY ClientsFrames
<1>2. 0 \in S
  <2>1. 0 \in 0 .. Number(c) - i /\ i + 0 = i
    BY <1>1
  <2>2. Upto(c, i) \in Seq(Byte)
    BY UptoParts
  <2>3. Begins(Upto(c, i), Upto(c, i))
    BY <2>2 DEF Begins
  <2>4. QED
    BY <2>1, <2>3
<1>3. ASSUME NEW d \in 0 .. Number(c) - i - 1, d \in S PROVE d + 1 \in S
  <2>1. /\ i + (d + 1) \in 1 .. Number(c) /\ (i + (d + 1)) - 1 = i + d /\ i + d \in 0 .. Number(c)
        /\ d + 1 \in 0 .. Number(c) - i
    BY <1>1
  <2>2. /\ Upto(c, i + (d + 1)) = Upto(c, i + d) \o ClientFrame(Frames[c][i + (d + 1)])
        /\ Upto(c, i + d) \in Seq(Byte) /\ Upto(c, i) \in Seq(Byte)
    BY <2>1, UptoParts
  <2>3. ClientFrame(Frames[c][i + (d + 1)]) \in Seq(Byte)
    BY <1>1, <2>1, ClientFrameParts
  <2>4. Begins(Upto(c, i + d), Upto(c, i))
    BY <1>3
  <2>5. Begins(Upto(c, i + (d + 1)), Upto(c, i))
    BY <2>2, <2>3, <2>4, BeginsAppended
  <2>6. QED
    BY <2>1, <2>5
<1>4. Number(c) - i \in Int
  BY <1>1
<1> HIDE DEF S
<1>5. \A d \in 0 .. Number(c) - i : d \in S
  BY <1>2, <1>3, <1>4, Upwards
<1>6. Number(c) - i \in S /\ i + (Number(c) - i) = Number(c) /\ Number(c) \in 0 .. Number(c)
  BY <1>1, <1>5
<1>7. Upto(c, Number(c)) = Stream[c] /\ Upto(c, Number(c)) \in Seq(Byte)
  BY <1>6, UptoParts
<1>8. QED
  BY <1>6, <1>7 DEF S

(* The i-th frame lies between its end and that of the one before it.      *)
LEMMA FrameInStream ==
  ASSUME NEW c \in DOMAIN Frames, NEW i \in 1 .. Number(c), NEW fr, fr = ClientFrame(Frames[c][i])
  PROVE  /\ Stream[c] \in Seq(Byte) /\ Len(Stream[c]) >= Ends[c][i]
         /\ Ends[c][i] = Ends[c][i - 1] + Len(fr) /\ Len(fr) \in Nat /\ Ends[c][i - 1] \in Nat
         /\ \A k \in 1 .. Len(fr) : Stream[c][Ends[c][i - 1] + k] = fr[k]
<1> DEFINE a == Upto(c, i - 1)
           u == Upto(c, i)
<1>1. i \in 0 .. Number(c) /\ i - 1 \in 0 .. Number(c) /\ Frames[c][i] \in Frame
  BY ClientsFrames
<1>2. a \in Seq(Byte) /\ u = a \o fr /\ Ends[c][i] = Len(u) /\ Ends[c][i - 1] = Len(a)
  BY <1>1, UptoParts
<1>3. fr \in Seq(Byte)
  BY <1>1, ClientFrameParts
<1>4. Stream[c] \in Seq(Byte) /\ Begins(Stream[c], u)
  BY <1>1, StreamBegins
<1> HIDE DEF a, u
<1>5. /\ Len(a \o fr) = Len(a) + Len(fr) /\ Len(a) \in Nat /\ Len(fr) \in Nat
      /\ \A k \in 1 .. Len(a) + Len(fr) : (a \o fr)[k] = IF k <= Len(a) THEN a[k] ELSE fr[k - Len(a)]
  BY <1>2, <1>3, ConcatProperties, LenProperties
<1>6. ASSUME NEW k \in 1 .. Len(fr) PROVE Stream[c][Len(a) + k] = fr[k]
  <2>1. Len(a) + k \in 1 .. Len(a) + Len(fr) /\ ~(Len(a) + k <= Len(a)) /\ (Len(a) + k) - Len(a) = k
    BY <1>5
  <2>2. (a \o fr)[Len(a) + k] = fr[k]
    BY <1>5, <2>1
  <2>3. Len(u) = Len(a) + Len(fr)
    BY <1>2, <1>5
  <2>4. Stream[c][Len(a) + k] = u[Len(a) + k]
    BY <1>4, <2>1, <2>3 DEF Begins
  <2>5. QED
    BY <1>2, <2>2, <2>4
<1>7. Len(Stream[c]) >= Len(u) /\ Len(u) = Len(a) + Len(fr)
  BY <1>2, <1>4, <1>5 DEF Begins
<1>8. QED
  BY <1>2, <1>4, <1>5, <1>6, <1>7

(* What a read gives to the parser.                                        *)
LEMMA ReadType ==
  ASSUME NEW c \in DOMAIN Frames, NEW r \in Nat, NEW n \in Nat, r + n <= Len(Stream[c])
  PROVE  /\ SubSeq(Stream[c], r + 1, r + n) \in Seq(Byte)
         /\ Len(SubSeq(Stream[c], r + 1, r + n)) = n
         /\ \A k \in 1 .. n : SubSeq(Stream[c], r + 1, r + n)[k] = Stream[c][r + k]
<1> DEFINE s == Stream[c]
<1>1. s \in Seq(Byte) /\ Len(s) \in Nat
  <2>1. 0 \in 0 .. Number(c)
    BY ClientsFrames
  <2>2. QED
    BY <2>1, StreamBegins, LenProperties
<1> HIDE DEF s
<1>2. \A i \in r + 1 .. r + n : s[i] \in Byte
  <2>1. \A i \in r + 1 .. r + n : i \in 1 .. Len(s)
    BY <1>1 DEF s
  <2>2. QED
    BY <1>1, <2>1, ElementOfSeq
<1>3. r + 1 \in Int /\ r + n \in Int
  OBVIOUS
<1>4. /\ SubSeq(s, r + 1, r + n) \in Seq(Byte)
      /\ Len(SubSeq(s, r + 1, r + n)) = IF r + 1 <= r + n THEN (r + n) - (r + 1) + 1 ELSE 0
      /\ \A k \in 1 .. (r + n) - (r + 1) + 1 : SubSeq(s, r + 1, r + n)[k] = s[(r + 1) + k - 1]
  BY <1>2, <1>3, SubSeqProperties
<1>5. /\ (IF r + 1 <= r + n THEN (r + n) - (r + 1) + 1 ELSE 0) = n
      /\ \A k \in 1 .. n : k \in 1 .. (r + n) - (r + 1) + 1 /\ (r + 1) + k - 1 = r + k
  OBVIOUS
<1>6. QED
  BY <1>4, <1>5 DEF s

(* A read that begins at a frame and holds it whole begins with it.        *)
LEMMA ReadBegins ==
  ASSUME NEW c \in DOMAIN Frames, NEW i \in 1 .. Number(c), NEW r \in Nat, NEW n \in Nat,
         r = Ends[c][i - 1], r + n <= Len(Stream[c]), Ends[c][i] <= r + n
  PROVE  Begins(SubSeq(Stream[c], r + 1, r + n), ClientFrame(Frames[c][i]))
<1> DEFINE fr == ClientFrame(Frames[c][i])
           bytes == SubSeq(Stream[c], r + 1, r + n)
<1>1. /\ Ends[c][i] = Ends[c][i - 1] + Len(fr) /\ Len(fr) \in Nat
      /\ \A k \in 1 .. Len(fr) : Stream[c][Ends[c][i - 1] + k] = fr[k]
  BY FrameInStream
<1>2. Len(bytes) = n /\ \A k \in 1 .. n : bytes[k] = Stream[c][r + k]
  BY ReadType
<1> HIDE DEF fr, bytes
<1>3. Len(fr) <= n
  BY <1>1
<1>4. ASSUME NEW k \in 1 .. Len(fr) PROVE bytes[k] = fr[k]
  <2>1. k \in 1 .. n
    BY <1>1, <1>3
  <2>2. QED
    BY <1>1, <1>2, <2>1
<1>5. Begins(bytes, fr)
  BY <1>2, <1>3, <1>4 DEF Begins
<1>6. QED
  BY <1>5 DEF fr, bytes

(***************************************************************************)
(* Types.                                                                  *)
(***************************************************************************)
(* What on_read is given, a composed write, and a piece of an answer.      *)
Given == {Garbage} \cup DOMAIN Frames[client]
Write == {w \in [msg : Given, left : {<<"header", "payload">>, <<"payload">>}] : Answers(w.msg)}
Piece == {o \in [msg : Given, part : {"header", "payload"}] : Answers(o.msg)}

Typed ==
  /\ client \in DOMAIN Frames /\ server \in Servers[client]
  /\ stage \in {"first_read", "second_read", "up"} /\ patient \in BOOLEAN /\ gone \in BOOLEAN
  /\ asked \in {"no", "key", "other"} /\ sent \in 0 .. Number(client)
  /\ rd \in 0 .. Written /\ from \in 0 .. rd /\ (stage = "first_read" => from = 0)
  /\ parser \in Parsers
  /\ tidy \in BOOLEAN /\ reading \in BOOLEAN /\ open \in BOOLEAN
  /\ (reading => open) /\ (open => reading \/ stage = "second_read")
  /\ delivered \in Seq(Given) /\ writes \in Seq(Write) /\ out \in Seq(Piece)

LEMMA TypedTypeOK == Typed => TypeOK
<1> SUFFICES ASSUME Typed PROVE TypeOK
  OBVIOUS
<1>1. parser.state \in State /\ parser.n \in Places(parser.state)
  BY DEF Typed, Parsers
<1>2. parser.n \in CASE parser.state = "extended_payload_len" -> 1 .. 8
                     [] parser.state = "masking_key" -> 1 .. 4
                     [] OTHER -> {0}
  BY <1>1 DEF Places, State
<1>3. \A k \in DOMAIN delivered : delivered[k] \in Given
  BY LenProperties, ElementOfSeq DEF Typed
<1>4. \A k \in DOMAIN writes : writes[k] \in Write
  BY LenProperties, ElementOfSeq DEF Typed
<1>5. \A k \in DOMAIN out : out[k] \in Piece
  BY LenProperties, ElementOfSeq DEF Typed
<1>6. \A k \in DOMAIN writes :
         /\ Answers(writes[k].msg)
         /\ writes[k].left \in {<<"header", "payload">>, <<"payload">>}
  BY <1>4 DEF Write
<1>7. \A k \in DOMAIN out : Answers(out[k].msg) /\ out[k].part \in {"header", "payload"}
  BY <1>5 DEF Piece
<1>8. QED
  BY <1>1, <1>2, <1>3, <1>6, <1>7 DEF Typed, TypeOK, Given

(* Steps do not change who the client is and where.                        *)
LEMMA SameClient ==
  ASSUME client' = client, server' = server
  PROVE  /\ Given' = Given /\ Write' = Write /\ Piece' = Piece
         /\ \A i : (Answers(i) <=> Answers(i)') /\ End(i) = End(i)' /\ (IsMessage(i) <=> IsMessage(i)')
<1>1. \A i : (Answers(i) <=> Answers(i)') /\ End(i) = End(i)' /\ (IsMessage(i) <=> IsMessage(i)')
  BY DEF Answers, End, IsMessage
<1>2. Given' = Given
  BY DEF Given
<1>3. QED
  BY <1>1, <1>2 DEF Write, Piece

LEMMA NothingWritten == <<>> \in Seq(Write) /\ <<>> \in Seq(Piece) /\ <<>> \in Seq(Given)
OBVIOUS

LEMMA WrittenType ==
  ASSUME client \in DOMAIN Frames, sent \in 0 .. Number(client)
  PROVE  /\ Written \in Nat /\ Written <= Len(Stream[client]) /\ Len(Stream[client]) \in Nat
         /\ Number(client) \in Nat
<1>1. Stream[client] \in Seq(Byte) /\ Begins(Stream[client], Upto(client, sent))
  BY StreamBegins
<1>2. Ends[client][sent] = Len(Upto(client, sent)) /\ Ends[client][sent] \in Nat
  BY UptoParts, EndsGrow
<1>3. QED
  BY <1>1, <1>2, ClientsFrames, LenProperties DEF Written, End, Begins

LEMMA InitTyped == Init => Typed
<1> SUFFICES ASSUME Init PROVE Typed
  OBVIOUS
<1>1. client \in DOMAIN Frames /\ sent = 0
  BY DEF Init
<1>2. Written = 0 /\ 0 \in 0 .. Number(client)
  BY <1>1, EndsGrow, ClientsFrames DEF Written, End
<1>3. rd \in 0 .. Written /\ from \in 0 .. rd
  BY <1>2 DEF Init
<1>4. /\ stage \in {"first_read", "second_read", "up"} /\ asked \in {"no", "key", "other"}
      /\ patient \in BOOLEAN /\ gone \in BOOLEAN /\ server \in Servers[client] /\ from = 0
      /\ tidy \in BOOLEAN /\ reading \in BOOLEAN /\ open \in BOOLEAN /\ reading
  BY DEF Init
<1>5. parser \in Parsers
  BY NewParserType DEF Init
<1>6. delivered \in Seq(Given) /\ writes \in Seq(Write) /\ out \in Seq(Piece) /\ open
  BY NothingWritten DEF Init
<1>7. sent \in 0 .. Number(client)
  BY <1>1, <1>2
<1>8. QED
  BY <1>1, <1>3, <1>4, <1>5, <1>6, <1>7 DEF Typed

LEMMA ClientTyped ==
  ASSUME Typed, Ask \/ Send \/ Leave
  PROVE  Typed'
<1>1. client' = client /\ server' = server
  BY DEF Ask, Send, Leave
<1>2. Given' = Given /\ Write' = Write /\ Piece' = Piece
  BY <1>1, SameClient
<1>3. CASE Ask
  <2>1. Written' = Written
    BY <1>3 DEF Ask, Written, End
  <2>2. QED
    BY <1>2, <1>3, <2>1 DEF Ask, readVars, Typed
<1>4. CASE Leave
  <2>1. Written' = Written
    BY <1>4 DEF Leave, Written, End
  <2>2. QED
    BY <1>2, <1>4, <2>1 DEF Leave, readVars, Typed
<1>5. CASE Send
  <2>1. sent \in 0 .. Number(client) /\ sent < Number(client) /\ client \in DOMAIN Frames /\ rd \in 0 .. Written
    BY <1>5 DEF Send, Typed
  <2>2. sent + 1 \in 0 .. Number(client) /\ sent < sent + 1
    BY <2>1, ClientsFrames
  <2>3. Ends[client][sent] + 2 <= Ends[client][sent + 1] /\ Ends[client][sent] \in Nat /\ Ends[client][sent + 1] \in Nat
    BY <2>1, <2>2, EndsIncrease, EndsGrow
  <2>4. Written = Ends[client][sent] /\ Written' = Ends[client][sent + 1]
    BY <1>1, <1>5 DEF Send, Written, End
  <2>5. rd \in 0 .. Written'
    BY <2>1, <2>3, <2>4
  <2>6. QED
    BY <1>2, <1>5, <2>2, <2>5 DEF Send, readVars, Typed
<1>6. QED
  BY <1>3, <1>4, <1>5

LEMMA ContentsType ==
  ASSUME NEW p, NEW lucky
  PROVE  (IF Contents(p, lucky) = {} THEN Garbage ELSE CHOOSE i \in Contents(p, lucky) : TRUE) \in Given
<1>1. Contents(p, lucky) \subseteq DOMAIN Frames[client]
  BY DEF Contents
<1>2. CASE Contents(p, lucky) = {}
  BY <1>2 DEF Given
<1>3. CASE Contents(p, lucky) # {}
  <2>1. (CHOOSE i \in Contents(p, lucky) : TRUE) \in Contents(p, lucky)
    BY <1>3
  <2>2. QED
    BY <1>1, <1>3, <2>1 DEF Given
<1>4. QED
  BY <1>2, <1>3

(* What a read gives a parser, and what the parser makes of it.            *)
LEMMA ReadParsed ==
  ASSUME Typed, NEW n \in 1 .. Written - rd
  PROVE  /\ SubSeq(Stream[client], rd + 1, rd + n) \in Seq(Byte)
         /\ Len(SubSeq(Stream[client], rd + 1, rd + n)) = n
         /\ n \in Nat /\ rd \in Nat /\ rd + n \in 0 .. Written /\ rd + n <= Len(Stream[client])
         /\ parse(parser, SubSeq(Stream[client], rd + 1, rd + n), rd) \in Handlers
<1>1. client \in DOMAIN Frames /\ sent \in 0 .. Number(client) /\ rd \in 0 .. Written /\ parser \in Parsers
  BY DEF Typed
<1>2. Written \in Nat /\ Written <= Len(Stream[client]) /\ Len(Stream[client]) \in Nat
  BY <1>1, WrittenType
<1>3. n \in Nat /\ rd \in Nat /\ rd + n <= Len(Stream[client]) /\ rd + n \in 0 .. Written
  BY <1>1, <1>2
<1>4. /\ SubSeq(Stream[client], rd + 1, rd + n) \in Seq(Byte)
      /\ Len(SubSeq(Stream[client], rd + 1, rd + n)) = n
  BY <1>1, <1>3, ReadType
<1>5. QED
  BY <1>1, <1>3, <1>4, ParseType

LEMMA on_readTyped ==
  ASSUME Typed, NEW i \in Given, on_read(i)
  PROVE  delivered' \in Seq(Given) /\ writes' \in Seq(Write)
<1>1. delivered \in Seq(Given) /\ writes \in Seq(Write)
  BY DEF Typed
<1>2. delivered' \in Seq(Given)
  BY <1>1, AppendProperties DEF on_read
<1>3. CASE Answers(i)
  <2>1. [msg |-> i, left |-> <<"header", "payload">>] \in Write
    BY <1>3 DEF Write
  <2>2. writes' = Append(writes, [msg |-> i, left |-> <<"header", "payload">>])
    BY <1>3 DEF on_read, async_write
  <2>3. QED
    BY <1>1, <1>2, <2>1, <2>2, AppendProperties
<1>4. CASE ~Answers(i)
  BY <1>1, <1>2, <1>4 DEF on_read
<1>5. QED
  BY <1>3, <1>4

LEMMA HandshakeTyped ==
  ASSUME Typed, on_first_read \/ on_second_read
  PROVE  Typed'
<1>1. client' = client /\ server' = server /\ sent' = sent
  BY DEF on_first_read, on_second_read, clientVars
<1>2. Given' = Given /\ Write' = Write /\ Piece' = Piece /\ Written' = Written
  BY <1>1, SameClient DEF Written, End
<1>3. Written \in Nat
  BY WrittenType DEF Typed
<1>4. <<>> \in Seq(Write)
  BY NothingWritten
<1>5. CASE on_first_read
  <2>1. from = 0 /\ rd' \in 0 .. Written /\ tidy' \in BOOLEAN
    BY <1>3, <1>5 DEF on_first_read, Typed
  <2>2. from' \in 0 .. rd'
    BY <1>3, <1>5, <2>1 DEF on_first_read
  <2>3. /\ stage' \in {"first_read", "second_read", "up"} /\ (stage' = "first_read" => from' = 0)
        /\ reading' \in BOOLEAN /\ open' \in BOOLEAN
        /\ (reading' => open') /\ (open' => reading' \/ stage' = "second_read")
        /\ writes' \in Seq(Write)
    BY <1>4, <1>5, <2>1 DEF on_first_read, on_error, Typed
  <2>4. /\ client' = client /\ server' = server /\ patient' = patient /\ gone' = gone /\ asked' = asked
        /\ sent' = sent /\ parser' = parser /\ delivered' = delivered /\ out' = out
    BY <1>5 DEF on_first_read, clientVars
  <2>5. QED
    BY <1>2, <2>1, <2>2, <2>3, <2>4 DEF Typed
<1>6. CASE on_second_read
  <2>1. rd' = rd /\ rd \in 0 .. Written /\ from' \in 0 .. rd' /\ from \in 0 .. rd
    <3>1. rd' = rd /\ (from' = rd \/ from' = from)
      BY <1>6 DEF on_second_read
    <3>2. rd \in 0 .. Written /\ from \in 0 .. rd
      BY DEF Typed
    <3>3. QED
      BY <1>3, <3>1, <3>2
  <2>2. /\ stage' \in {"second_read", "up"}
        /\ reading' \in BOOLEAN /\ open' \in BOOLEAN
        /\ (reading' => open') /\ (open' => reading' \/ stage' = "second_read")
        /\ writes' \in Seq(Write)
    BY <1>4, <1>6 DEF on_second_read, on_error, Typed
  <2>3. /\ client' = client /\ server' = server /\ patient' = patient /\ gone' = gone /\ asked' = asked
        /\ sent' = sent /\ parser' = parser /\ delivered' = delivered /\ out' = out /\ tidy' = tidy
    BY <1>6 DEF on_second_read, clientVars
  <2>4. QED
    BY <1>2, <2>1, <2>2, <2>3 DEF Typed
<1>7. QED
  BY <1>5, <1>6

LEMMA ErrorTyped ==
  ASSUME Typed, ReadFails \/ WriteFails
  PROVE  Typed'
<1>1. /\ client' = client /\ server' = server /\ patient' = patient /\ gone' = gone /\ asked' = asked
      /\ sent' = sent /\ parser' = parser /\ delivered' = delivered /\ out' = out /\ tidy' = tidy
      /\ stage' = stage /\ rd' = rd /\ from' = from
      /\ open' = FALSE /\ reading' = FALSE /\ writes' = <<>>
  BY DEF ReadFails, WriteFails, on_error, clientVars
<1>2. Given' = Given /\ Write' = Write /\ Piece' = Piece /\ Written' = Written
  BY <1>1, SameClient DEF Written, End
<1>3. QED
  BY <1>1, <1>2, NothingWritten DEF Typed

(* Where a read leaves off.                                                *)
LEMMA ReadOnTyped ==
  ASSUME Typed, NEW q \in Parsers, NEW n \in Nat, rd + n \in 0 .. Written, rd' = rd + n, ReadOn(q)
  PROVE  parser' \in Parsers /\ from' \in 0 .. rd' /\ reading' = reading /\ open' = open
<1>1. rd \in Nat /\ from \in 0 .. rd
  BY WrittenType DEF Typed
<1>2. QED
  BY <1>1 DEF ReadOn

LEMMA on_read_dataframeTyped ==
  ASSUME Typed, on_read_dataframe
  PROVE  Typed'
<1>1. /\ client' = client /\ server' = server /\ patient' = patient /\ gone' = gone /\ asked' = asked
      /\ sent' = sent /\ stage' = stage /\ out' = out /\ stage = "up"
  BY DEF on_read_dataframe, clientVars
<1>2. Given' = Given /\ Write' = Write /\ Piece' = Piece /\ Written' = Written
  BY <1>1, SameClient DEF Written, End
<1>3. PICK n \in 1 .. Written - rd :
        LET p == parse(parser, SubSeq(Stream[client], rd + 1, rd + n), rd) IN
        /\ rd' = rd + n
        /\ tidy' = (tidy /\ \E i \in 1 .. sent : rd = End(i - 1) /\ rd' = End(i))
        /\ \/ p.done /\ on_read_data_frame(p)
           \/ /\ ~p.done
              /\ ReadOn([state |-> p.state, n |-> p.n])
              /\ UNCHANGED <<delivered, writes>>
  BY DEF on_read_dataframe
<1> DEFINE p == parse(parser, SubSeq(Stream[client], rd + 1, rd + n), rd)
<1>4. p \in Handlers /\ n \in Nat /\ rd + n \in 0 .. Written
  BY ReadParsed
<1>5. rd' \in 0 .. Written' /\ tidy' \in BOOLEAN
  BY <1>2, <1>3, <1>4 DEF Typed
<1> HIDE DEF p
<1>6. /\ parser' \in Parsers /\ from' \in 0 .. rd' /\ (reading' => open') /\ (open' => reading')
      /\ reading' \in BOOLEAN /\ open' \in BOOLEAN
      /\ delivered' \in Seq(Given) /\ writes' \in Seq(Write)
  <2>1. /\ delivered \in Seq(Given) /\ writes \in Seq(Write) /\ parser \in Parsers /\ from \in 0 .. rd
        /\ rd \in 0 .. Written /\ (reading => open) /\ (open => reading \/ stage = "second_read")
        /\ reading \in BOOLEAN /\ open \in BOOLEAN /\ Written \in Nat
    BY WrittenType DEF Typed
  <2>2. NewParser \in Parsers /\ [state |-> p.state, n |-> p.n] \in Parsers
    BY <1>4, NewParserType, LeftType
  <2>3. ASSUME NEW q \in Parsers, ReadOn(q)
        PROVE  parser' \in Parsers /\ from' \in 0 .. rd' /\ reading' = reading /\ open' = open
    <3>1. rd' = rd + n
      BY <1>3
    <3>2. QED
      BY <1>4, <2>3, <3>1, ReadOnTyped
  <2>4. CASE ReadOn([state |-> p.state, n |-> p.n]) /\ UNCHANGED <<delivered, writes>>
    BY <1>1, <2>1, <2>2, <2>3, <2>4
  <2>5. CASE ReadOn(NewParser) /\ UNCHANGED <<delivered, writes>>
    BY <1>1, <2>1, <2>2, <2>3, <2>5
  <2>6. CASE ReadOn(NewParser) /\ \E i \in Given : on_read(i)
    <3>1. delivered' \in Seq(Given) /\ writes' \in Seq(Write)
      BY <2>6, on_readTyped
    <3>2. QED
      BY <1>1, <2>1, <2>2, <2>3, <2>6, <3>1
  <2>7. CASE on_error /\ UNCHANGED <<parser, from, delivered>>
    <3>1. from' \in 0 .. rd' /\ parser' \in Parsers /\ delivered' \in Seq(Given)
      BY <1>3, <1>4, <2>1, <2>7
    <3>2. writes' \in Seq(Write) /\ open' = FALSE /\ reading' = FALSE
      BY <2>7, NothingWritten DEF on_error
    <3>3. QED
      BY <3>1, <3>2
  <2>8. CASE on_read_data_frame(p)
    <3>1. CASE p.op = Text
      <4>1. PICK lucky \in BOOLEAN :
              on_read(IF Contents(p, lucky) = {} THEN Garbage ELSE CHOOSE i \in Contents(p, lucky) : TRUE)
        BY <2>8, <3>1 DEF on_read_data_frame, Text, Ping, Pong
      <4>2. ReadOn(NewParser)
        BY <2>8, <3>1 DEF on_read_data_frame, Text, Ping, Pong
      <4>3. QED
        BY <2>6, <4>1, <4>2, ContentsType
    <3>2. CASE p.op # Text
      BY <2>5, <2>7, <2>8, <3>2 DEF on_read_data_frame
    <3>3. QED
      BY <3>1, <3>2
  <2>9. QED
    BY <1>3, <2>4, <2>8 DEF p
<1>7. QED
  BY <1>1, <1>2, <1>5, <1>6 DEF Typed

(* What a composed write hands over, and what it has left.                 *)
Pieces(w, n) == [k \in 1 .. n |-> [msg |-> w.msg, part |-> w.left[k]]]
Rest(w, n) == [w EXCEPT !.left = SubSeq(@, n + 1, Len(@))]
Whole(i) == [msg |-> i, left |-> <<"header", "payload">>]
Half(i) == [msg |-> i, left |-> <<"payload">>]

LEMMA WriteForms ==
  ASSUME NEW w \in Write
  PROVE  /\ w.msg \in Given /\ Answers(w.msg) /\ (w = Whole(w.msg) \/ w = Half(w.msg))
         /\ Half(w.msg) \in Write
<1>1. /\ w.msg \in Given /\ Answers(w.msg) /\ w.left \in {<<"header", "payload">>, <<"payload">>}
      /\ w \in [msg : Given, left : {<<"header", "payload">>, <<"payload">>}]
  BY DEF Write
<1>2. w = [msg |-> w.msg, left |-> w.left]
  BY <1>1
<1>3. Half(w.msg) \in Write
  BY <1>1 DEF Half, Write
<1>4. QED
  BY <1>1, <1>2, <1>3 DEF Whole, Half

LEMMA PiecesOfWhole ==
  ASSUME NEW i \in Given, Answers(i)
  PROVE  /\ Len(Whole(i).left) = 2 /\ Rest(Whole(i), 1) = Half(i)
         /\ Pieces(Whole(i), 1) = <<[msg |-> i, part |-> "header"]>>
         /\ Pieces(Whole(i), 2) = <<[msg |-> i, part |-> "header"], [msg |-> i, part |-> "payload"]>>
<1>1. Len(Whole(i).left) = 2
  BY DEF Whole
<1>2. SubSeq(<<"header", "payload">>, 2, 2) = <<"payload">>
  <2> DEFINE s == <<"header", "payload">>
             t == SubSeq(s, 2, 2)
  <2>1. s \in Seq({"header", "payload"}) /\ s[2] = "payload" /\ \A k \in 2 .. 2 : s[k] \in {"header", "payload"}
    OBVIOUS
  <2> HIDE DEF s
  <2>2. /\ t \in Seq({"header", "payload"}) /\ Len(t) = 1
        /\ \A k \in 1 .. 1 : t[k] = s[2 + k - 1]
    BY <2>1, SubSeqProperties
  <2>3. t[1] = "payload"
    BY <2>1, <2>2
  <2> HIDE DEF t
  <2>4. t = <<"payload">>
    BY <2>2, <2>3
  <2>5. QED
    BY <2>4 DEF s, t
<1>3. Rest(Whole(i), 1) = Half(i)
  BY <1>2 DEF Rest, Whole, Half
<1>4. Pieces(Whole(i), 1) = <<[msg |-> i, part |-> "header"]>>
  BY DEF Pieces, Whole
<1>5. Pieces(Whole(i), 2) = <<[msg |-> i, part |-> "header"], [msg |-> i, part |-> "payload"]>>
  BY DEF Pieces, Whole
<1>6. QED
  BY <1>1, <1>3, <1>4, <1>5

LEMMA PiecesOfHalf ==
  ASSUME NEW i \in Given, Answers(i)
  PROVE  Len(Half(i).left) = 1 /\ Pieces(Half(i), 1) = <<[msg |-> i, part |-> "payload"]>>
BY DEF Half, Pieces

HeaderOf(i) == [msg |-> i, part |-> "header"]
PayloadOf(i) == [msg |-> i, part |-> "payload"]

(* The three things that one step of a write may be.                       *)
WritesAll(i) ==
  Head(writes) = Whole(i) /\ out' = out \o <<HeaderOf(i), PayloadOf(i)>> /\ writes' = Tail(writes)
WritesHeader(i) ==
  Head(writes) = Whole(i) /\ out' = out \o <<HeaderOf(i)>> /\ writes' = Append(Tail(writes), Half(i))
WritesPayload(i) ==
  Head(writes) = Half(i) /\ out' = out \o <<PayloadOf(i)>> /\ writes' = Tail(writes)

LEMMA WriteSomeForms ==
  ASSUME Typed, WriteSome
  PROVE  \E i \in Given : Answers(i) /\ (WritesAll(i) \/ WritesHeader(i) \/ WritesPayload(i))
<1> DEFINE w == Head(writes)
           i == w.msg
<1>1. writes \in Seq(Write) /\ writes # <<>>
  BY DEF Typed, WriteSome
<1>2. w \in Write
  BY <1>1, HeadTailProperties
<1>3. PICK n \in 1 .. Len(w.left) :
        /\ out' = out \o Pieces(w, n)
        /\ writes' = IF n = Len(w.left) THEN Tail(writes) ELSE Append(Tail(writes), Rest(w, n))
  BY DEF WriteSome, Pieces, Rest
<1> HIDE DEF w
<1>4. i \in Given /\ Answers(i) /\ (w = Whole(i) \/ w = Half(i))
  BY <1>2, WriteForms
<1> DEFINE j == w.msg
<1>5. j \in Given /\ Answers(j) /\ (w = Whole(j) \/ w = Half(j))
  BY <1>4
<1> HIDE DEF i, j
<1>6. CASE w = Whole(j)
  <2>1. n = 1 \/ n = 2
    <3>1. Len(Whole(j).left) = 2
      BY <1>5, PiecesOfWhole
    <3>2. Len(w.left) = 2
      BY <1>6, <3>1
    <3>3. QED
      BY <3>2
  <2>2. CASE n = 1
    <3>1. out' = out \o <<HeaderOf(j)>> /\ writes' = Append(Tail(writes), Half(j))
      BY <1>3, <1>5, <1>6, <2>2, PiecesOfWhole DEF HeaderOf
    <3>2. QED
      BY <1>5, <1>6, <3>1 DEF WritesHeader, w
  <2>3. CASE n = 2
    <3>1. out' = out \o <<HeaderOf(j), PayloadOf(j)>> /\ writes' = Tail(writes)
      BY <1>3, <1>5, <1>6, <2>3, PiecesOfWhole DEF HeaderOf, PayloadOf
    <3>2. QED
      BY <1>5, <1>6, <3>1 DEF WritesAll, w
  <2>4. QED
    BY <2>1, <2>2, <2>3
<1>7. CASE w = Half(j)
  <2>1. n = 1
    <3>1. Len(Half(j).left) = 1
      BY <1>5, PiecesOfHalf
    <3>2. Len(w.left) = 1
      BY <1>7, <3>1
    <3>3. QED
      BY <3>2
  <2>2. out' = out \o <<PayloadOf(j)>> /\ writes' = Tail(writes)
    BY <1>3, <1>5, <1>7, <2>1, PiecesOfHalf DEF PayloadOf
  <2>3. QED
    BY <1>5, <1>7, <2>2 DEF WritesPayload, w
<1>8. QED
  BY <1>5, <1>6, <1>7

LEMMA WriteSomeTyped ==
  ASSUME Typed, WriteSome
  PROVE  Typed'
<1>1. /\ client' = client /\ server' = server /\ patient' = patient /\ gone' = gone /\ asked' = asked
      /\ sent' = sent /\ parser' = parser /\ delivered' = delivered /\ tidy' = tidy
      /\ stage' = stage /\ rd' = rd /\ from' = from /\ open' = open /\ reading' = reading
  BY DEF WriteSome, clientVars, readVars
<1>2. Given' = Given /\ Write' = Write /\ Piece' = Piece /\ Written' = Written
  BY <1>1, SameClient DEF Written, End
<1>3. PICK i \in Given : Answers(i) /\ (WritesAll(i) \/ WritesHeader(i) \/ WritesPayload(i))
  BY WriteSomeForms
<1>4. writes \in Seq(Write) /\ writes # <<>> /\ out \in Seq(Piece)
  BY DEF Typed, WriteSome
<1>5. Tail(writes) \in Seq(Write)
  BY <1>4, HeadTailProperties
<1>6. HeaderOf(i) \in Piece /\ PayloadOf(i) \in Piece /\ Half(i) \in Write
  BY <1>3 DEF HeaderOf, PayloadOf, Half, Piece, Write
<1>7. writes' \in Seq(Write) /\ out' \in Seq(Piece)
  <2> DEFINE t == Tail(writes)
             h == HeaderOf(i)
             p == PayloadOf(i)
             r == Half(i)
  <2>1. t \in Seq(Write) /\ h \in Piece /\ p \in Piece /\ r \in Write
    BY <1>5, <1>6
  <2>2. \/ out' = out \o <<h, p>> /\ writes' = t
        \/ out' = out \o <<h>> /\ writes' = Append(t, r)
        \/ out' = out \o <<p>> /\ writes' = t
    BY <1>3 DEF WritesAll, WritesHeader, WritesPayload
  <2> HIDE DEF t, h, p, r
  <2>3. <<h, p>> \in Seq(Piece) /\ <<h>> \in Seq(Piece) /\ <<p>> \in Seq(Piece) /\ Append(t, r) \in Seq(Write)
    BY <2>1
  <2>4. QED
    BY <1>4, <2>1, <2>2, <2>3, ConcatProperties
<1>8. QED
  BY <1>1, <1>2, <1>7 DEF Typed

LEMMA NextTyped ==
  ASSUME Typed, [Next]_vars
  PROVE  Typed'
<1>1. CASE Next
  <2>1. CASE Ask \/ Send \/ Leave
    BY <2>1, ClientTyped
  <2>2. CASE on_first_read \/ on_second_read
    BY <2>2, HandshakeTyped
  <2>3. CASE on_read_dataframe
    BY <2>3, on_read_dataframeTyped
  <2>4. CASE ReadFails \/ WriteFails
    BY <2>4, ErrorTyped
  <2>5. CASE WriteSome
    BY <2>5, WriteSomeTyped
  <2>6. QED
    BY <1>1, <2>1, <2>2, <2>3, <2>4, <2>5 DEF Next, Reads, Writes
<1>2. CASE UNCHANGED vars
  <2>1. /\ client' = client /\ server' = server /\ patient' = patient /\ gone' = gone /\ asked' = asked
        /\ sent' = sent /\ parser' = parser /\ delivered' = delivered /\ tidy' = tidy /\ writes' = writes
        /\ stage' = stage /\ rd' = rd /\ from' = from /\ open' = open /\ reading' = reading /\ out' = out
    BY <1>2 DEF vars, clientVars, readVars
  <2>2. Given' = Given /\ Write' = Write /\ Piece' = Piece /\ Written' = Written
    BY <2>1, SameClient DEF Written, End
  <2>3. QED
    BY <2>1, <2>2 DEF Typed
<1>3. QED
  BY <1>1, <1>2

LEMMA AlwaysTyped == Spec => []Typed
<1>1. Init => Typed
  BY InitTyped
<1>2. Typed /\ [Next]_vars => Typed'
  BY NextTyped
<1>3. QED
  BY <1>1, <1>2, PTL DEF Spec

(* Every field has its type, however the bytes are cut: the parser is in a *)
(* state of the enumeration, on_read is given a frame of the client or     *)
(* Garbage, and what is written answers something.                         *)
THEOREM TypeCorrect == Spec => []TypeOK
BY AlwaysTyped, TypedTypeOK, PTL

(* Whatever json_server lists fits the max_length of its question, for any *)
(* directory and any questions (my_session.cpp:45 to 58).                  *)
THEOREM ListedNamesFitHolds == Spec => []ListedNamesFit
<1>1. Typed => ListedNamesFit
  <2> SUFFICES ASSUME Typed, server = "json", NEW k \in DOMAIN out,
                      Frames[client][out[k].msg].max > 0, NEW n \in Directory
               PROVE  NameFits(Name(n), Frames[client][out[k].msg].max)
    BY DEF ListedNamesFit
  <2>1. out[k] \in Piece /\ client \in DOMAIN Frames
    BY LenProperties, ElementOfSeq DEF Typed
  <2>2. out[k].msg \in Given /\ Answers(out[k].msg)
    BY <2>1 DEF Piece
  <2>3. out[k].msg \in DOMAIN Frames[client]
    BY <2>2 DEF Given, Answers, Garbage
  <2>4. Frames[client][out[k].msg] \in Frame
    BY <2>1, <2>3, ClientsFrames
  <2>5. Frames[client][out[k].msg].max \in Nat \ 1 .. 3
    BY <2>4 DEF Frame
  <2> DEFINE max == Frames[client][out[k].msg].max
  <2>6. max \in Nat /\ max > 3
    BY <2>5
  <2>7. n \in Nat
    BY ClientsAssumption
  <2>8. Name(n) \in Seq(Nat)
    <3>1. Name(n) \in [1 .. n -> Nat]
      BY DEF Name
    <3>2. QED
      BY <2>7, <3>1, FunctionIsSeq
  <2> HIDE DEF max
  <2>9. NameFits(Name(n), max)
    BY <2>6, <2>8, NameFitsHolds
  <2>10. QED
    BY <2>9 DEF max
<1>2. QED
  BY <1>1, AlwaysTyped, PTL

(***************************************************************************)
(* What is delivered.                                                      *)
(***************************************************************************)
(* A frame of a client that is read from base on, whole, is known again.   *)
LEMMA WholeFrameKnown ==
  ASSUME client \in DOMAIN Frames, NEW i \in 1 .. Number(client), NEW p, NEW lucky,
         Parsed(p, Frames[client][i], End(i - 1)), Frames[client][i].len > 0, Frames[client][i].mask
  PROVE  Contents(p, lucky) = {i}
<1> DEFINE fr == Frames[client][i]
<1>1. /\ End(i) = End(i - 1) + HeaderLength(fr) + fr.len
      /\ HeaderLength(fr) \in Nat /\ fr.len \in Nat /\ End(i - 1) \in Nat /\ End(i) \in Nat
      /\ DOMAIN Frames[client] = 1 .. Number(client) /\ Number(client) \in Nat
  <2>1. i \in 0 .. Number(client)
    BY ClientsFrames
  <2>2. QED
    BY <2>1, EndsGrow, ClientsFrames DEF End
<1>2. p.size = fr.len /\ p.first = End(i - 1) + HeaderLength(fr) + 1 /\ p.key = p.first - 4
  BY DEF Parsed
<1>3. p.first = End(i) - fr.len + 1
  BY <1>1, <1>2
<1>4. i \in Contents(p, lucky)
  BY <1>1, <1>2, <1>3 DEF Contents
<1>5. ASSUME NEW j \in Contents(p, lucky) PROVE j = i
  <2>1. /\ j \in 1 .. Number(client) /\ p.size = Frames[client][j].len
        /\ p.first = End(j) - Frames[client][j].len + 1
    BY <1>1, <1>5 DEF Contents
  <2>2. j \in 0 .. Number(client) /\ i \in 0 .. Number(client) /\ End(j) \in Nat
    BY <1>1, <2>1, EndsGrow DEF End
  <2>3. End(j) = End(i)
    <3>1. Frames[client][j].len = fr.len /\ End(j) - fr.len + 1 = End(i) - fr.len + 1
      BY <1>2, <1>3, <2>1
    <3>2. fr.len \in Nat /\ End(j) \in Nat /\ End(i) \in Nat
      BY <1>1, <2>2
    <3> HIDE DEF fr
    <3>3. QED
      BY <3>1, <3>2
  <2>4. ~(j < i) /\ ~(i < j)
    BY <1>1, <2>2, <2>3, EndsIncrease DEF End
  <2>5. QED
    BY <2>2, <2>4
<1>6. QED
  BY <1>4, <1>5

(* So a message at the front of a read by a new parser is delivered.       *)
LEMMA FrontIsDelivered ==
  ASSUME Typed, on_read_dataframe, NEW i \in 1 .. sent, parser = NewParser,
         rd = End(i - 1), rd' >= End(i)
  PROVE  \E p \in Handlers :
           /\ Parsed(p, Frames[client][i], rd)
           /\ on_read_data_frame(p)
<1>1. client \in DOMAIN Frames /\ sent \in 0 .. Number(client) /\ rd \in 0 .. Written
  BY DEF Typed
<1>2. i \in 1 .. Number(client) /\ Number(client) \in Nat
  BY <1>1, ClientsFrames
<1>3. PICK n \in 1 .. Written - rd :
        LET p == parse(parser, SubSeq(Stream[client], rd + 1, rd + n), rd) IN
        /\ rd' = rd + n
        /\ \/ p.done /\ on_read_data_frame(p)
           \/ /\ ~p.done
              /\ ReadOn([state |-> p.state, n |-> p.n])
              /\ UNCHANGED <<delivered, writes>>
  BY DEF on_read_dataframe
<1> DEFINE bytes == SubSeq(Stream[client], rd + 1, rd + n)
           p == parse(NewParser, bytes, rd)
<1>4. bytes \in Seq(Byte) /\ n \in Nat /\ rd \in Nat /\ rd + n <= Len(Stream[client]) /\ p \in Handlers
  BY ReadParsed
<1>5. Begins(bytes, ClientFrame(Frames[client][i]))
  BY <1>1, <1>2, <1>3, <1>4, ReadBegins DEF End
<1>6. Frames[client][i] \in Frame
  BY <1>1, <1>2, ClientsFrames
<1> HIDE DEF bytes
<1>7. Parsed(p, Frames[client][i], rd)
  BY <1>4, <1>5, <1>6, FrameParsed
<1>8. p.done
  BY <1>7 DEF Parsed
<1>9. on_read_data_frame(p)
  BY <1>3, <1>8 DEF bytes
<1>10. QED
  BY <1>4, <1>7, <1>9

(* What on_read is given of a whole, masked message.                       *)
LEMMA MessageIsGiven ==
  ASSUME client \in DOMAIN Frames, NEW i \in 1 .. Number(client), NEW p,
         IsMessage(i), Frames[client][i].mask,
         Parsed(p, Frames[client][i], End(i - 1)), on_read_data_frame(p)
  PROVE  on_read(i) /\ ReadOn(NewParser)
<1>1. Frames[client][i].len > 0
  BY ClientsFrames, ClientsAssumption DEF IsMessage
<1>2. p.op = Text
  BY DEF Parsed, IsMessage
<1>3. PICK lucky \in BOOLEAN :
        on_read(IF Contents(p, lucky) = {} THEN Garbage ELSE CHOOSE j \in Contents(p, lucky) : TRUE)
  BY <1>2 DEF on_read_data_frame, Text, Ping, Pong
<1>4. ReadOn(NewParser)
  BY <1>2 DEF on_read_data_frame, Text, Ping, Pong
<1>5. Contents(p, lucky) = {i}
  BY <1>1, WholeFrameKnown
<1>6. (IF Contents(p, lucky) = {} THEN Garbage ELSE CHOOSE j \in Contents(p, lucky) : TRUE) = i
  BY <1>5
<1>7. QED
  BY <1>3, <1>4, <1>6

(* A message at the front of a read is delivered as sent: for any cuts     *)
(* into reads before it, and whatever is read behind it.                   *)
THEOREM FrontFrameDeliveredHolds == Spec => FrontFrameDelivered
<1>1. ASSUME Typed, [Next]_vars, NEW i \in 1 .. sent,
             stage = "up", from = rd, parser = NewParser, rd = End(i - 1), rd' >= End(i),
             IsMessage(i), Frames[client][i].mask
      PROVE  delivered' = Append(delivered, i)
  <2>1. client \in DOMAIN Frames /\ sent \in 0 .. Number(client)
    BY <1>1 DEF Typed
  <2>2. i \in 1 .. Number(client) /\ i \in 0 .. Number(client)
    BY <2>1, ClientsFrames
  <2>3. rd \in Nat /\ rd' # rd
    <3>1. i - 1 \in 0 .. Number(client) /\ i - 1 < i
      BY <2>2, <2>1, ClientsFrames
    <3>2. Ends[client][i - 1] + 2 <= Ends[client][i] /\ Ends[client][i] \in Nat /\ Ends[client][i - 1] \in Nat
      BY <2>1, <2>2, <3>1, EndsIncrease, EndsGrow
    <3>3. QED
      BY <1>1, <3>2 DEF End
  <2>4. on_read_dataframe
    BY <1>1, <2>3 DEF Next, vars, clientVars, readVars, Ask, Send, Leave, Reads, Writes, on_first_read,
         on_second_read, ReadFails, WriteSome, WriteFails
  <2>5. PICK p \in Handlers : Parsed(p, Frames[client][i], rd) /\ on_read_data_frame(p)
    BY <1>1, <2>4, FrontIsDelivered
  <2>6. on_read(i)
    BY <1>1, <2>1, <2>2, <2>5, MessageIsGiven
  <2>7. QED
    BY <2>6 DEF on_read
<1>2. Typed /\ [Next]_vars =>
        [\A i \in 1 .. sent :
           /\ stage = "up" /\ from = rd /\ parser = NewParser
           /\ rd = End(i - 1) /\ rd' >= End(i)
           /\ IsMessage(i) /\ Frames[client][i].mask
           => delivered' = Append(delivered, i)]_vars
  BY <1>1
<1>3. QED
  BY <1>2, AlwaysTyped, PTL DEF Spec, FrontFrameDelivered

(***************************************************************************)
(* While each read is one frame.                                           *)
(***************************************************************************)
Increasing(s) == \A j, k \in DOMAIN s : j < k => s[j] < s[k]

LEMMA AppendIncreasing ==
  ASSUME NEW s \in Seq(Nat), NEW i \in Nat, Increasing(s), \A x \in ToSet(s) : x < i
  PROVE  Increasing(Append(s, i)) /\ ToSet(Append(s, i)) = ToSet(s) \cup {i}
<1> DEFINE t == Append(s, i)
<1>1. /\ t \in Seq(Nat) /\ Len(t) = Len(s) + 1 /\ t[Len(s) + 1] = i
      /\ (\A k \in 1 .. Len(s) : t[k] = s[k]) /\ Len(s) \in Nat
      /\ DOMAIN s = 1 .. Len(s) /\ DOMAIN t = 1 .. Len(t)
  BY AppendProperties, LenProperties
<1>2. \A k \in 1 .. Len(s) : s[k] \in ToSet(s)
  BY <1>1 DEF ToSet
<1> HIDE DEF t
<1>3. Increasing(t)
  <2>1. ASSUME NEW j \in DOMAIN t, NEW k \in DOMAIN t, j < k PROVE t[j] < t[k]
    <3>1. j \in 1 .. Len(s) /\ (k \in 1 .. Len(s) \/ k = Len(s) + 1)
      BY <1>1, <2>1
    <3>2. CASE k \in 1 .. Len(s)
      BY <1>1, <2>1, <3>1, <3>2 DEF Increasing
    <3>3. CASE k = Len(s) + 1
      <4>1. t[k] = i /\ t[j] = s[j] /\ s[j] < i
        BY <1>1, <1>2, <3>1, <3>3
      <4>2. QED
        BY <4>1
    <3>4. QED
      BY <3>1, <3>2, <3>3
  <2>2. QED
    BY <2>1 DEF Increasing
<1>4. ToSet(t) = ToSet(s) \cup {i}
  <2>1. ASSUME NEW k \in DOMAIN t PROVE t[k] \in ToSet(s) \cup {i}
    <3>1. k \in 1 .. Len(s) \/ k = Len(s) + 1
      BY <1>1
    <3>2. QED
      BY <1>1, <1>2, <3>1
  <2>2. ASSUME NEW k \in DOMAIN s PROVE s[k] \in ToSet(t)
    <3>1. k \in DOMAIN t /\ t[k] = s[k]
      BY <1>1
    <3>2. QED
      BY <3>1 DEF ToSet
  <2>3. i \in ToSet(t)
    <3>1. Len(s) + 1 \in DOMAIN t
      BY <1>1
    <3>2. QED
      BY <1>1, <3>1 DEF ToSet
  <2>4. ToSet(t) \subseteq ToSet(s) \cup {i}
    BY <2>1 DEF ToSet
  <2>5. ToSet(s) \subseteq ToSet(t)
    BY <2>2 DEF ToSet
  <2>6. QED
    BY <2>3, <2>4, <2>5
<1>5. QED
  BY <1>3, <1>4 DEF t

(* Nothing is delivered before the session is up, and a read that was a    *)
(* whole frame leaves a new parser.                                        *)
Fresh == stage # "up" => parser = NewParser /\ delivered = <<>>
AllMasked == \A i \in Framed : Frames[client][i].mask
Tidy ==
  /\ Fresh
  /\ tidy => parser = NewParser
  /\ tidy /\ AllMasked => ToSet(delivered) = Framed /\ Increasing(delivered)

LEMMA TidyIsTidyDelivery == Tidy => TidyDelivery
BY DEF Tidy, TidyDelivery, AllMasked, Increasing

(* The frames read so far.                                                 *)
LEMMA FramedGrows ==
  ASSUME Typed, client' = client
  PROVE  /\ sent' = sent /\ rd' = rd => Framed' = Framed
         /\ sent' = sent + 1 /\ sent < Number(client) /\ rd' = rd => Framed' = Framed
         /\ rd' = 0 /\ sent' = sent => Framed' = {}
         /\ \A i \in 1 .. sent :
              sent' = sent /\ rd = End(i - 1) /\ rd' = End(i) =>
                /\ Framed' = Framed \cup (IF IsMessage(i) THEN {i} ELSE {})
                /\ \A j \in Framed : j < i
<1>1. /\ client \in DOMAIN Frames /\ sent \in 0 .. Number(client) /\ rd \in 0 .. Written
      /\ Number(client) \in Nat /\ Written \in Nat /\ Written = End(sent)
  BY WrittenType DEF Typed, Written
<1>2. \A i : End(i)' = End(i) /\ (IsMessage(i)' <=> IsMessage(i))
  BY DEF End, IsMessage
<1>3. \A i \in 0 .. Number(client) : End(i) \in Nat
  BY <1>1, EndsGrow DEF End
<1>4. \A i, j \in 0 .. Number(client) : i < j => End(i) + 2 <= End(j)
  BY <1>1, EndsIncrease DEF End
<1>5. sent' = sent /\ rd' = rd => Framed' = Framed
  BY <1>2 DEF Framed
<1>6. ASSUME sent' = sent + 1, sent < Number(client), rd' = rd PROVE Framed' = Framed
  <2>1. sent + 1 \in 0 .. Number(client) /\ sent < sent + 1
    BY <1>1, <1>6
  <2>2. End(sent) + 2 <= End(sent + 1) /\ End(sent + 1) \in Nat /\ End(sent) \in Nat
    BY <1>1, <1>3, <1>4, <2>1
  <2>3. ~(End(sent + 1) <= rd)
    BY <1>1, <2>2
  <2>4. 1 .. sent + 1 = (1 .. sent) \cup {sent + 1}
    BY <1>1
  <2>5. Framed' = {i \in 1 .. sent + 1 : End(i) <= rd /\ IsMessage(i)}
    BY <1>2, <1>6 DEF Framed
  <2>6. QED
    BY <2>3, <2>4, <2>5 DEF Framed
<1>7. ASSUME rd' = 0, sent' = sent PROVE Framed' = {}
  <2>1. ASSUME NEW i \in 1 .. sent PROVE ~(End(i) <= 0)
    <3>1. i \in 0 .. Number(client) /\ 0 \in 0 .. Number(client) /\ 0 < i
      BY <1>1
    <3>2. End(0) + 2 <= End(i) /\ End(0) \in Nat /\ End(i) \in Nat
      BY <1>3, <1>4, <3>1
    <3>3. QED
      BY <3>2
  <2>2. Framed' = {i \in 1 .. sent : End(i) <= 0 /\ IsMessage(i)}
    BY <1>2, <1>7 DEF Framed
  <2>3. QED
    BY <2>1, <2>2
<1>8. ASSUME NEW i \in 1 .. sent, sent' = sent, rd = End(i - 1), rd' = End(i)
      PROVE  /\ Framed' = Framed \cup (IF IsMessage(i) THEN {i} ELSE {})
             /\ \A j \in Framed : j < i
  <2>1. i \in 0 .. Number(client) /\ i - 1 \in 0 .. Number(client) /\ i - 1 < i
    BY <1>1
  <2>2. \A j \in 1 .. sent : j \in 0 .. Number(client) /\ End(j) \in Nat
    BY <1>1, <1>3
  <2>3. End(i) \in Nat /\ End(i - 1) \in Nat
    BY <1>3, <2>1
  <2>4. ASSUME NEW j \in 1 .. sent
        PROVE  (End(j) <= End(i) <=> j <= i) /\ (End(j) <= End(i - 1) <=> j <= i - 1)
    <3>1. j \in 0 .. Number(client) /\ End(j) \in Nat
      BY <2>2
    <3>2. /\ j < i => End(j) + 2 <= End(i)
          /\ i < j => End(i) + 2 <= End(j)
          /\ j < i - 1 => End(j) + 2 <= End(i - 1)
          /\ i - 1 < j => End(i - 1) + 2 <= End(j)
      BY <1>4, <2>1, <3>1
    <3>3. j < i \/ j = i \/ i < j
      BY <1>1
    <3>4. j < i - 1 \/ j = i - 1 \/ i - 1 < j
      BY <1>1
    <3>5. End(j) <= End(i) <=> j <= i
      BY <2>3, <3>1, <3>2, <3>3
    <3>6. End(j) <= End(i - 1) <=> j <= i - 1
      BY <2>3, <3>1, <3>2, <3>4
    <3>7. QED
      BY <3>5, <3>6
  <2>5. Framed' = {j \in 1 .. sent : End(j) <= End(i) /\ IsMessage(j)}
    BY <1>2, <1>8 DEF Framed
  <2>6. Framed = {j \in 1 .. sent : End(j) <= End(i - 1) /\ IsMessage(j)}
    BY <1>8 DEF Framed
  <2>7. Framed' = {j \in 1 .. sent : j <= i /\ IsMessage(j)} /\ Framed = {j \in 1 .. sent : j <= i - 1 /\ IsMessage(j)}
    BY <2>4, <2>5, <2>6
  <2>8. \A j \in 1 .. sent : j <= i <=> j <= i - 1 \/ j = i
    BY <1>1
  <2>9. \A j \in Framed : j < i
    BY <1>1, <2>7
  <2>10. Framed' = Framed \cup (IF IsMessage(i) THEN {i} ELSE {})
    BY <2>7, <2>8
  <2>11. QED
    BY <2>9, <2>10
<1>9. QED
  BY <1>5, <1>6, <1>7, <1>8

LEMMA TidyKept ==
  ASSUME Typed, Tidy, client' = client, Framed' = Framed,
         tidy' = tidy, stage' = stage, parser' = parser, delivered' = delivered
  PROVE  Tidy'
BY DEF Tidy, Fresh, AllMasked, Increasing

(* A tidy read is one frame: what it does to the session.                  *)
LEMMA TidyReadIsFrame ==
  ASSUME Typed, Tidy, on_read_dataframe, tidy'
  PROVE  \E i \in 1 .. sent :
           /\ tidy /\ rd = End(i - 1) /\ rd' = End(i) /\ parser' = NewParser
           /\ ~IsMessage(i) => delivered' = delivered
           /\ IsMessage(i) /\ Frames[client][i].mask => delivered' = Append(delivered, i)
<1>1. tidy /\ parser = NewParser /\ \E i \in 1 .. sent : rd = End(i - 1) /\ rd' = End(i)
  BY DEF on_read_dataframe, Tidy
<1>2. PICK i \in 1 .. sent : rd = End(i - 1) /\ rd' = End(i)
  BY <1>1
<1>3. client \in DOMAIN Frames /\ sent \in 0 .. Number(client) /\ rd \in 0 .. Written
  BY DEF Typed
<1>4. i \in 1 .. Number(client) /\ i \in 0 .. Number(client)
  BY <1>3, ClientsFrames
<1>5. End(i) \in Nat
  BY <1>3, <1>4, EndsGrow DEF End
<1>6. PICK p \in Handlers : Parsed(p, Frames[client][i], rd) /\ on_read_data_frame(p)
  BY <1>1, <1>2, <1>5, FrontIsDelivered
<1>7. p.op = Frames[client][i].op
  BY <1>6 DEF Parsed
<1>8. CASE IsMessage(i)
  <2>1. parser' = NewParser
    BY <1>6, <1>7, <1>8 DEF on_read_data_frame, IsMessage, ReadOn, Text, Ping, Pong
  <2>2. Frames[client][i].mask => delivered' = Append(delivered, i)
    <3>1. Frames[client][i].mask => on_read(i)
      BY <1>2, <1>3, <1>4, <1>6, <1>8, MessageIsGiven
    <3>2. QED
      BY <3>1 DEF on_read
  <2>3. QED
    BY <1>1, <1>2, <1>8, <2>1, <2>2
<1>9. CASE ~IsMessage(i)
  <2>1. p.op # Text
    BY <1>7, <1>9 DEF IsMessage
  <2>2. delivered' = delivered /\ parser' = NewParser
    BY <1>1, <1>6, <2>1 DEF on_read_data_frame, ReadOn
  <2>3. QED
    BY <1>1, <1>2, <1>9, <2>2
<1>10. QED
  BY <1>8, <1>9

LEMMA TidyRead ==
  ASSUME Typed, Tidy, on_read_dataframe
  PROVE  Tidy'
<1>1. client' = client /\ sent' = sent /\ stage' = stage /\ stage = "up"
  BY DEF on_read_dataframe, clientVars
<1>2. Fresh'
  BY <1>1 DEF Fresh
<1>3. CASE ~tidy'
  <2>1. tidy' \in BOOLEAN
    BY DEF on_read_dataframe, Typed
  <2>2. QED
    BY <1>2, <1>3, <2>1 DEF Tidy
<1>4. CASE tidy'
  <2>1. PICK i \in 1 .. sent :
           /\ tidy /\ rd = End(i - 1) /\ rd' = End(i) /\ parser' = NewParser
           /\ ~IsMessage(i) => delivered' = delivered
           /\ IsMessage(i) /\ Frames[client][i].mask => delivered' = Append(delivered, i)
    BY <1>4, TidyReadIsFrame
  <2>2. /\ Framed' = Framed \cup (IF IsMessage(i) THEN {i} ELSE {})
        /\ \A j \in Framed : j < i
    BY <1>1, <2>1, FramedGrows
  <2>3. AllMasked' => AllMasked /\ (IsMessage(i) => Frames[client][i].mask)
    BY <1>1, <2>2 DEF AllMasked
  <2>4. ASSUME AllMasked' PROVE ToSet(delivered') = Framed' /\ Increasing(delivered')
    <3>1. ToSet(delivered) = Framed /\ Increasing(delivered)
      BY <2>1, <2>3, <2>4 DEF Tidy
    <3>2. CASE ~IsMessage(i)
      BY <2>1, <2>2, <3>1, <3>2
    <3>3. CASE IsMessage(i)
      <4>1. delivered' = Append(delivered, i)
        BY <2>1, <2>3, <2>4, <3>3
      <4>2. delivered \in Seq(Nat) /\ i \in Nat
        <5>1. client \in DOMAIN Frames /\ delivered \in Seq(Given) /\ sent \in 0 .. Number(client)
          BY DEF Typed
        <5>2. Given \subseteq Nat
          BY <5>1, ClientsFrames DEF Given, Garbage
        <5>3. delivered \in Seq(Nat)
          BY <5>1, <5>2, SeqMonotonic
        <5>4. i \in Nat
          BY <5>1, ClientsFrames
        <5>5. QED
          BY <5>3, <5>4
      <4>3. \A x \in ToSet(delivered) : x < i
        BY <2>2, <3>1
      <4>4. Increasing(Append(delivered, i)) /\ ToSet(Append(delivered, i)) = ToSet(delivered) \cup {i}
        BY <3>1, <4>2, <4>3, AppendIncreasing
      <4>5. QED
        BY <2>2, <3>1, <3>3, <4>1, <4>4
    <3>4. QED
      BY <3>2, <3>3
  <2>5. AllMasked' => (ToSet(delivered) = Framed)' /\ Increasing(delivered)'
    BY <2>4 DEF Increasing, ToSet
  <2>6. QED
    BY <1>2, <2>1, <2>5 DEF Tidy
<1>5. QED
  BY <1>3, <1>4

LEMMA InitTidy == Init => Tidy
<1> SUFFICES ASSUME Init PROVE Tidy
  OBVIOUS
<1>1. Framed = {}
  BY DEF Init, Framed
<1>2. parser = NewParser /\ delivered = <<>>
  BY DEF Init
<1>3. ToSet(<<>>) = {} /\ Increasing(<<>>)
  BY DEF ToSet, Increasing
<1>4. QED
  BY <1>1, <1>2, <1>3 DEF Tidy, Fresh

LEMMA TidyFirstRead ==
  ASSUME Typed, Tidy, on_first_read
  PROVE  Tidy'
<1>1. /\ client' = client /\ sent' = sent /\ parser' = parser /\ delivered' = delivered
      /\ stage = "first_read" /\ parser = NewParser /\ delivered = <<>>
  BY DEF on_first_read, clientVars, Tidy, Fresh
<1>2. (rd' = rd /\ tidy' = tidy) \/ (tidy' = (rd' = 0))
  BY DEF on_first_read
<1>3. Fresh'
  BY <1>1 DEF Fresh
<1>4. CASE rd' = rd /\ tidy' = tidy
  <2>1. Framed' = Framed
    BY <1>1, <1>4, FramedGrows
  <2>2. QED
    BY <1>1, <1>3, <1>4, <2>1 DEF Tidy, AllMasked, Increasing
<1>5. CASE tidy' = (rd' = 0)
  <2>1. tidy' => Framed' = {}
    BY <1>1, <1>5, FramedGrows
  <2>2. ToSet(<<>>) = {} /\ Increasing(<<>>)
    BY DEF ToSet, Increasing
  <2>3. tidy' => (ToSet(delivered) = Framed)' /\ Increasing(delivered)'
    BY <1>1, <2>1, <2>2 DEF Increasing, ToSet
  <2>4. QED
    BY <1>1, <1>3, <2>3 DEF Tidy
<1>6. QED
  BY <1>2, <1>4, <1>5

LEMMA NextTidy ==
  ASSUME Typed, Tidy, [Next]_vars
  PROVE  Tidy'
<1>1. CASE on_read_dataframe
  BY <1>1, TidyRead
<1>2. CASE on_first_read
  BY <1>2, TidyFirstRead
<1>3. CASE Send
  <2>1. /\ client' = client /\ sent' = sent + 1 /\ sent < Number(client) /\ rd' = rd
        /\ tidy' = tidy /\ stage' = stage /\ parser' = parser /\ delivered' = delivered
    BY <1>3 DEF Send, readVars
  <2>2. Framed' = Framed
    BY <2>1, FramedGrows
  <2>3. QED
    BY <2>1, <2>2, TidyKept
<1>4. CASE on_second_read
  <2>1. /\ client' = client /\ sent' = sent /\ rd' = rd /\ stage = "second_read"
        /\ tidy' = tidy /\ parser' = parser /\ delivered' = delivered
    BY <1>4 DEF on_second_read, clientVars
  <2>2. Framed' = Framed
    BY <2>1, FramedGrows
  <2>3. Fresh'
    BY <2>1 DEF Tidy, Fresh
  <2>4. QED
    BY <2>1, <2>2, <2>3 DEF Tidy, AllMasked, Increasing
<1>5. CASE Ask \/ Leave \/ ReadFails \/ WriteFails \/ WriteSome \/ UNCHANGED vars
  <2>1. /\ client' = client /\ sent' = sent /\ rd' = rd
        /\ tidy' = tidy /\ stage' = stage /\ parser' = parser /\ delivered' = delivered
    BY <1>5 DEF Ask, Leave, ReadFails, WriteFails, WriteSome, vars, clientVars, readVars
  <2>2. Framed' = Framed
    BY <2>1, FramedGrows
  <2>3. QED
    BY <2>1, <2>2, TidyKept
<1>6. QED
  BY <1>1, <1>2, <1>3, <1>4, <1>5 DEF Next, Reads, Writes

(* While each read is one frame, on_read gets every masked message, whole, *)
(* once and in order, for any frames between them.                         *)
THEOREM TidyDeliveryHolds == Spec => []TidyDelivery
<1>1. Init => Tidy
  BY InitTidy
<1>2. Typed /\ Tidy /\ [Next]_vars => Tidy'
  BY NextTidy
<1>3. Spec => []Tidy
  BY <1>1, <1>2, AlwaysTyped, PTL DEF Spec
<1>4. QED
  BY <1>3, TidyIsTidyDelivery, PTL

(***************************************************************************)
(* What a patient client reads.                                            *)
(***************************************************************************)
(* What a read does to the session.  What on_read is given, if it is a     *)
(* frame of the client, ends within the read.                              *)
Gives(i) ==
  /\ on_read(i) /\ open' = open
  /\ i # Garbage => i \in 1 .. Number(client) /\ rd < End(i) /\ End(i) <= rd'

LEMMA ContentsRead ==
  ASSUME Typed, NEW base \in Nat, NEW n \in Nat, NEW p \in Handlers, Placed(p, base, n),
         NEW lucky, NEW i \in Contents(p, lucky)
  PROVE  i \in 1 .. Number(client) /\ base < End(i) /\ End(i) <= base + n
<1> DEFINE fr == Frames[client][i]
<1>1. /\ client \in DOMAIN Frames /\ i \in 1 .. Number(client) /\ i \in 0 .. Number(client)
      /\ p.size = fr.len /\ p.first = End(i) - fr.len + 1
  BY ClientsFrames DEF Contents, Typed
<1>2. /\ End(i) = End(i - 1) + HeaderLength(fr) + fr.len
      /\ HeaderLength(fr) \in Nat /\ HeaderLength(fr) >= 2 /\ fr.len \in Nat
      /\ End(i - 1) \in Nat /\ End(i) \in Nat
  BY <1>1, EndsGrow DEF End
<1> HIDE DEF fr
<1>3. p.first > 0
  BY <1>1, <1>2
<1>4. p.first > base /\ p.first + p.size - 1 <= base + n /\ p.size > 0
  BY <1>3 DEF Placed
<1>5. p.first + p.size - 1 = End(i)
  BY <1>1, <1>2
<1>6. p.first \in Nat /\ p.size \in Nat
  BY DEF Handlers, Handler
<1>7. QED
  BY <1>1, <1>2, <1>4, <1>5, <1>6

LEMMA ReadForms ==
  ASSUME Typed, on_read_dataframe
  PROVE  /\ open /\ stage = "up" /\ rd' \in Nat /\ rd <= rd' /\ rd' <= Written
         /\ client' = client /\ server' = server /\ patient' = patient /\ sent' = sent /\ out' = out
         /\ \/ delivered' = delivered /\ writes' = writes /\ open' = open
            \/ delivered' = delivered /\ writes' = <<>> /\ open' = FALSE
            \/ \E i \in Given : Gives(i)
<1>1. PICK n \in 1 .. Written - rd :
        LET p == parse(parser, SubSeq(Stream[client], rd + 1, rd + n), rd) IN
        /\ rd' = rd + n
        /\ \/ p.done /\ on_read_data_frame(p)
           \/ /\ ~p.done
              /\ ReadOn([state |-> p.state, n |-> p.n])
              /\ UNCHANGED <<delivered, writes>>
  BY DEF on_read_dataframe
<1> DEFINE bytes == SubSeq(Stream[client], rd + 1, rd + n)
           p == parse(parser, bytes, rd)
<1>2. /\ bytes \in Seq(Byte) /\ n \in Nat /\ rd \in Nat /\ rd + n <= Len(Stream[client]) /\ p \in Handlers
      /\ Len(bytes) = n /\ rd + n \in 0 .. Written
  BY ReadParsed
<1>3. Placed(p, rd, n)
  <2>1. parser \in Parsers
    BY DEF Typed
  <2> HIDE DEF bytes
  <2>2. Placed(p, rd, Len(bytes))
    BY <1>2, <2>1, ParsePlaced
  <2>3. QED
    BY <1>2, <2>2
<1>4. rd' \in Nat /\ rd <= rd' /\ rd' <= Written
  <2>1. Written \in Nat
    BY WrittenType DEF Typed
  <2>2. QED
    BY <1>1, <1>2, <2>1
<1>5. /\ client' = client /\ server' = server /\ patient' = patient /\ sent' = sent /\ out' = out
      /\ open /\ stage = "up"
  BY DEF on_read_dataframe, clientVars, Typed
<1>6. rd' = rd + n /\ (on_read_data_frame(p) \/ (ReadOn([state |-> p.state, n |-> p.n]) /\ UNCHANGED <<delivered, writes>>))
  BY <1>1
<1> HIDE DEF p
<1>7. \/ delivered' = delivered /\ writes' = writes /\ open' = open
      \/ delivered' = delivered /\ writes' = <<>> /\ open' = FALSE
      \/ \E i \in Given : Gives(i)
  <2>1. CASE ReadOn([state |-> p.state, n |-> p.n]) /\ UNCHANGED <<delivered, writes>>
    BY <2>1 DEF ReadOn
  <2>2. CASE on_read_data_frame(p) /\ p.op # Text
    BY <2>2 DEF on_read_data_frame, ReadOn, on_error
  <2>3. CASE on_read_data_frame(p) /\ p.op = Text
    <3>1. PICK lucky \in BOOLEAN :
            on_read(IF Contents(p, lucky) = {} THEN Garbage ELSE CHOOSE j \in Contents(p, lucky) : TRUE)
      BY <2>3 DEF on_read_data_frame, Text, Ping, Pong
    <3>2. open' = open
      BY <2>3 DEF on_read_data_frame, ReadOn, Text, Ping, Pong
    <3> DEFINE i == IF Contents(p, lucky) = {} THEN Garbage ELSE CHOOSE j \in Contents(p, lucky) : TRUE
    <3>3. i \in Given
      BY ContentsType
    <3>4. i # Garbage => i \in Contents(p, lucky)
      OBVIOUS
    <3>5. on_read(i)
      BY <3>1
    <3> HIDE DEF i
    <3>6. i # Garbage => i \in 1 .. Number(client) /\ rd < End(i) /\ End(i) <= rd'
      BY <1>2, <1>3, <1>6, <3>4, ContentsRead
    <3>7. Gives(i)
      BY <3>2, <3>5, <3>6 DEF Gives
    <3>8. QED
      BY <3>3, <3>7
  <2>4. QED
    BY <1>6, <2>1, <2>2, <2>3
<1>8. QED
  BY <1>4, <1>5, <1>7

(* The frames among what on_read was given are read, and in order.         *)
InOrder ==
  /\ \A d \in DOMAIN delivered :
       delivered[d] # Garbage => delivered[d] \in 1 .. sent /\ End(delivered[d]) <= rd
  /\ \A d, e \in DOMAIN delivered :
       d < e /\ delivered[d] # Garbage /\ delivered[e] # Garbage => delivered[d] < delivered[e]

LEMMA GivesInOrder ==
  ASSUME Typed, InOrder, NEW i \in Given, Gives(i), rd' \in Nat, rd <= rd', rd' <= Written,
         client' = client, sent' = sent
  PROVE  /\ InOrder' /\ (i # Garbage => i \in 1 .. sent)
         /\ i # Garbage => \A d \in DOMAIN delivered : delivered[d] # Garbage => delivered[d] < i
<1>1. /\ client \in DOMAIN Frames /\ sent \in 0 .. Number(client) /\ rd \in 0 .. Written
      /\ Number(client) \in Nat /\ Written \in Nat /\ Written = End(sent) /\ delivered \in Seq(Given)
  BY WrittenType DEF Typed, Written
<1>2. \A j \in 0 .. Number(client) : End(j) \in Nat
  BY <1>1, EndsGrow DEF End
<1>3. \A j, k \in 0 .. Number(client) : j < k => End(j) + 2 <= End(k)
  BY <1>1, EndsIncrease DEF End
<1>4. i # Garbage => i \in 1 .. Number(client) /\ rd < End(i) /\ End(i) <= rd'
  BY DEF Gives
<1>5. rd \in Nat /\ rd' \in Int
  <2>1. rd \in Nat
    BY <1>1
  <2>2. QED
    BY <2>1
<1>6. i # Garbage => i \in 1 .. sent
  <2>1. ASSUME i # Garbage PROVE i \in 1 .. sent
    <3>1. i \in 1 .. Number(client) /\ i \in 0 .. Number(client) /\ sent \in 0 .. Number(client)
      BY <1>1, <1>4, <2>1
    <3>2. End(i) <= End(sent) /\ End(i) \in Nat /\ End(sent) \in Nat
      BY <1>1, <1>2, <1>4, <1>5, <2>1, <3>1
    <3>3. ~(sent < i)
      BY <1>3, <3>1, <3>2
    <3>4. QED
      BY <3>1, <3>3
  <2>2. QED
    BY <2>1
<1>7. ASSUME i # Garbage, NEW d \in DOMAIN delivered, delivered[d] # Garbage PROVE delivered[d] < i
  <2> DEFINE j == delivered[d]
  <2>1. j \in 1 .. sent /\ End(j) <= rd
    BY <1>7 DEF InOrder
  <2> HIDE DEF j
  <2>2. j \in 0 .. Number(client) /\ i \in 0 .. Number(client) /\ End(j) \in Nat /\ End(i) \in Nat
    BY <1>1, <1>2, <1>4, <1>7, <2>1
  <2>3. End(j) < End(i)
    BY <1>4, <1>5, <1>7, <2>1, <2>2
  <2>4. ~(i < j) /\ i # j
    BY <1>3, <2>2, <2>3
  <2>5. j < i
    BY <2>2, <2>4
  <2>6. QED
    BY <2>5 DEF j
<1>8. /\ delivered' = Append(delivered, i) /\ DOMAIN delivered' = 1 .. Len(delivered) + 1
      /\ DOMAIN delivered = 1 .. Len(delivered) /\ Len(delivered) \in Nat
      /\ delivered'[Len(delivered) + 1] = i
      /\ \A d \in 1 .. Len(delivered) : delivered'[d] = delivered[d]
  <2>1. delivered' = Append(delivered, i)
    BY DEF Gives, on_read
  <2>2. QED
    BY <1>1, <2>1, AppendProperties, LenProperties
<1>9. ASSUME NEW d \in DOMAIN delivered', delivered'[d] # Garbage
      PROVE  delivered'[d] \in 1 .. sent /\ End(delivered'[d]) <= rd'
  <2>1. CASE d \in 1 .. Len(delivered)
    <3>1. delivered[d] \in 1 .. sent /\ End(delivered[d]) <= rd
      BY <1>8, <1>9, <2>1 DEF InOrder
    <3>2. End(delivered[d]) \in Nat
      BY <1>1, <1>2, <3>1
    <3>3. End(delivered[d]) <= rd'
      BY <1>5, <3>1, <3>2
    <3>4. QED
      BY <1>8, <2>1, <3>1, <3>3
  <2>2. CASE d = Len(delivered) + 1
    BY <1>4, <1>6, <1>8, <1>9, <2>2
  <2>3. QED
    BY <1>8, <2>1, <2>2
<1>10. ASSUME NEW d \in DOMAIN delivered', NEW e \in DOMAIN delivered', d < e,
              delivered'[d] # Garbage, delivered'[e] # Garbage
       PROVE  delivered'[d] < delivered'[e]
  <2>1. d \in 1 .. Len(delivered)
    BY <1>8, <1>10
  <2>2. CASE e \in 1 .. Len(delivered)
    BY <1>8, <1>10, <2>1, <2>2 DEF InOrder
  <2>3. CASE e = Len(delivered) + 1
    BY <1>7, <1>8, <1>10, <2>1, <2>3
  <2>4. QED
    BY <1>8, <2>2, <2>3
<1>11. InOrder'
  BY <1>9, <1>10 DEF InOrder, End
<1>12. QED
  BY <1>6, <1>7, <1>11

(* How many of the first d of s are in A.                                  *)
Count(s, A, d) == Cardinality({e \in 1 .. d : s[e] \in A})

LEMMA CountType ==
  ASSUME NEW s, NEW A, NEW d \in Nat
  PROVE  Count(s, A, d) \in Nat /\ IsFiniteSet({e \in 1 .. d : s[e] \in A}) /\ Count(s, A, 0) = 0
<1>1. IsFiniteSet(1 .. d)
  BY FS_Interval
<1>2. IsFiniteSet({e \in 1 .. d : s[e] \in A})
  BY <1>1, FS_Subset
<1>3. {e \in 1 .. 0 : s[e] \in A} = {}
  OBVIOUS
<1>4. QED
  BY <1>2, <1>3, FS_CardinalityType, FS_EmptySet DEF Count

(* In t there is one more behind s.                                        *)
OneMore(s, t, A, i) ==
  /\ \A d \in 0 .. Len(s) : Count(t, A, d) = Count(s, A, d)
  /\ i \in A => Count(t, A, Len(t)) = Count(s, A, Len(s)) + 1
  /\ i \notin A => Count(t, A, Len(t)) = Count(s, A, Len(s))

LEMMA CountAppended ==
  ASSUME NEW T, NEW s \in Seq(T), NEW A, NEW i \in T
  PROVE  OneMore(s, Append(s, i), A, i)
<1> DEFINE t == Append(s, i)
<1>1. /\ Len(t) = Len(s) + 1 /\ t[Len(s) + 1] = i /\ Len(s) \in Nat
      /\ \A d \in 1 .. Len(s) : t[d] = s[d]
  BY AppendProperties, LenProperties
<1>2. ASSUME NEW d \in 0 .. Len(s) PROVE {e \in 1 .. d : t[e] \in A} = {e \in 1 .. d : s[e] \in A}
  <2>1. \A e \in 1 .. d : t[e] = s[e]
    BY <1>1
  <2>2. QED
    BY <2>1
<1> HIDE DEF t
<1>3. \A d \in 0 .. Len(s) : Count(t, A, d) = Count(s, A, d)
  BY <1>2 DEF Count
<1> DEFINE n == Len(s)
           S == {e \in 1 .. n : s[e] \in A}
<1>4. IsFiniteSet(S) /\ Count(s, A, n) \in Nat /\ Count(s, A, n) = Cardinality(S)
  BY <1>1, CountType DEF Count
<1>5. n + 1 \notin S
  BY <1>1
<1>6. {e \in 1 .. n + 1 : t[e] \in A} = IF i \in A THEN S \cup {n + 1} ELSE S
  <2>1. {e \in 1 .. n : t[e] \in A} = S
    BY <1>1, <1>2
  <2>2. 1 .. n + 1 = (1 .. n) \cup {n + 1}
    BY <1>1
  <2>3. t[n + 1] = i
    BY <1>1
  <2>4. {e \in 1 .. n + 1 : t[e] \in A} = {e \in 1 .. n : t[e] \in A} \cup {e \in {n + 1} : t[e] \in A}
    BY <2>2
  <2>5. {e \in {n + 1} : t[e] \in A} = IF i \in A THEN {n + 1} ELSE {}
    BY <2>3
  <2> HIDE DEF S, n
  <2>6. QED
    BY <2>1, <2>4, <2>5
<1> HIDE DEF S, n
<1>7. Cardinality(S \cup {n + 1}) = Cardinality(S) + 1
  BY <1>4, <1>5, FS_AddElement
<1>8. CASE i \in A
  <2>1. {e \in 1 .. n + 1 : t[e] \in A} = S \cup {n + 1}
    BY <1>6, <1>8
  <2>2. Count(t, A, n + 1) = Count(s, A, n) + 1
    BY <1>4, <1>7, <2>1 DEF Count
  <2>3. QED
    BY <1>1, <1>3, <1>8, <2>2 DEF n, t, OneMore
<1>9. CASE i \notin A
  <2>1. {e \in 1 .. n + 1 : t[e] \in A} = S
    BY <1>6, <1>9
  <2>2. Count(t, A, n + 1) = Count(s, A, n)
    BY <1>4, <2>1 DEF Count
  <2>3. QED
    BY <1>1, <1>3, <1>9, <2>2 DEF n, t, OneMore
<1>10. QED
  BY <1>8, <1>9

(* The pieces o answer those of s that are in A, in their order.           *)
Right(s, A, o) ==
  \A k \in DOMAIN o :
    /\ \E d \in DOMAIN s : s[d] = o[k].msg /\ s[d] \in A /\ Count(s, A, d) = (k + 1) \div 2
    /\ o[k].part = IF k % 2 = 1 THEN "header" ELSE "payload"

(* And the writes w are what is left of the answer to the last of them.    *)
Standing(s, A, w, o) ==
  LET m == Count(s, A, Len(s)) IN
  \/ w = <<>> /\ Len(o) = 2 * m
  \/ \E e \in DOMAIN s :
       /\ s[e] \in A /\ Count(s, A, e) = m
       /\ \/ w = <<Whole(s[e])>> /\ Len(o) = 2 * m - 2
          \/ w = <<Half(s[e])>> /\ Len(o) = 2 * m - 1

LEMMA RightKept ==
  ASSUME NEW T, NEW s \in Seq(T), NEW A, NEW i \in T, NEW o, Right(s, A, o)
  PROVE  Right(Append(s, i), A, o)
<1> DEFINE t == Append(s, i)
<1>1. /\ t \in Seq(T) /\ Len(t) = Len(s) + 1 /\ DOMAIN s = 1 .. Len(s) /\ DOMAIN t = 1 .. Len(t)
      /\ Len(s) \in Nat /\ \A d \in 1 .. Len(s) : t[d] = s[d]
  BY AppendProperties, LenProperties
<1>2. \A d \in 0 .. Len(s) : Count(t, A, d) = Count(s, A, d)
  BY CountAppended DEF OneMore
<1> HIDE DEF t
<1>3. \A d \in DOMAIN s : d \in DOMAIN t /\ t[d] = s[d] /\ Count(t, A, d) = Count(s, A, d)
  BY <1>1, <1>2
<1>4. Right(t, A, o)
  BY <1>3 DEF Right
<1>5. QED
  BY <1>4 DEF t

LEMMA StandingKept ==
  ASSUME NEW T, NEW s \in Seq(T), NEW A, NEW i \in T, i \notin A, NEW w, NEW o, Standing(s, A, w, o)
  PROVE  Standing(Append(s, i), A, w, o)
<1> DEFINE t == Append(s, i)
<1>1. /\ t \in Seq(T) /\ Len(t) = Len(s) + 1 /\ DOMAIN s = 1 .. Len(s) /\ DOMAIN t = 1 .. Len(t)
      /\ Len(s) \in Nat /\ \A d \in 1 .. Len(s) : t[d] = s[d]
  BY AppendProperties, LenProperties
<1>2. /\ \A d \in 0 .. Len(s) : Count(t, A, d) = Count(s, A, d)
      /\ Count(t, A, Len(t)) = Count(s, A, Len(s))
  <2>1. OneMore(s, t, A, i)
    BY CountAppended
  <2>2. QED
    BY <2>1 DEF OneMore
<1> HIDE DEF t
<1>3. Count(t, A, Len(t)) = Count(s, A, Len(s))
  BY <1>2
<1>4. \A d \in DOMAIN s : d \in DOMAIN t /\ t[d] = s[d] /\ Count(t, A, d) = Count(s, A, d)
  BY <1>1, <1>2
<1>5. Standing(t, A, w, o)
  BY <1>3, <1>4 DEF Standing
<1>6. QED
  BY <1>5 DEF t

LEMMA StandingAnswered ==
  ASSUME NEW T, NEW s \in Seq(T), NEW A, NEW i \in T, i \in A, NEW o, Standing(s, A, <<>>, o)
  PROVE  Standing(Append(s, i), A, <<Whole(i)>>, o)
<1> DEFINE t == Append(s, i)
           m == Count(s, A, Len(s))
<1>1. /\ t \in Seq(T) /\ Len(t) = Len(s) + 1 /\ DOMAIN t = 1 .. Len(t) /\ Len(s) \in Nat
      /\ t[Len(t)] = i
  BY AppendProperties, LenProperties
<1>2. Count(t, A, Len(t)) = m + 1 /\ m \in Nat
  <2>1. OneMore(s, t, A, i)
    BY CountAppended
  <2>2. QED
    BY <1>1, <2>1, CountType DEF OneMore
<1>3. Len(o) = 2 * m
  BY DEF Standing
<1> HIDE DEF t, m
<1>4. Len(t) \in DOMAIN t /\ 2 * (m + 1) - 2 = 2 * m
  BY <1>1, <1>2
<1>5. Standing(t, A, <<Whole(i)>>, o)
  BY <1>1, <1>2, <1>3, <1>4 DEF Standing
<1>6. QED
  BY <1>5 DEF t

(* What a step of a write adds is right.                                   *)
LEMMA RightAppended ==
  ASSUME NEW U, NEW o \in Seq(U), NEW x \in U, NEW s, NEW A, Right(s, A, o),
         NEW e \in DOMAIN s, x.msg = s[e], s[e] \in A, Count(s, A, e) = ((Len(o) + 1) + 1) \div 2,
         x.part = IF (Len(o) + 1) % 2 = 1 THEN "header" ELSE "payload"
  PROVE  Right(s, A, Append(o, x))
<1> DEFINE q == Append(o, x)
<1>1. /\ Len(q) = Len(o) + 1 /\ DOMAIN o = 1 .. Len(o) /\ DOMAIN q = 1 .. Len(q) /\ Len(o) \in Nat
      /\ q[Len(o) + 1] = x /\ \A k \in 1 .. Len(o) : q[k] = o[k]
  BY AppendProperties, LenProperties
<1> HIDE DEF q
<1>2. ASSUME NEW k \in DOMAIN q
      PROVE  /\ \E d \in DOMAIN s : s[d] = q[k].msg /\ s[d] \in A /\ Count(s, A, d) = (k + 1) \div 2
             /\ q[k].part = IF k % 2 = 1 THEN "header" ELSE "payload"
  <2>1. CASE k \in 1 .. Len(o)
    <3>1. k \in DOMAIN o /\ q[k] = o[k]
      BY <1>1, <2>1
    <3>2. QED
      BY <3>1 DEF Right
  <2>2. CASE k = Len(o) + 1
    BY <1>1, <2>2
  <2>3. QED
    BY <1>1, <2>1, <2>2
<1>3. Right(s, A, q)
  BY <1>2 DEF Right
<1>4. QED
  BY <1>3 DEF q

LEMMA Halves ==
  /\ \A i, j : Whole(i) = Whole(j) => i = j
  /\ \A i, j : Half(i) = Half(j) => i = j
  /\ \A i, j : Whole(i) # Half(j)
<1>1. <<"header", "payload">> # <<"payload">>
  <2>1. Len(<<"header", "payload">>) = 2 /\ Len(<<"payload">>) = 1
    OBVIOUS
  <2>2. QED
    BY <2>1
<1>2. \A i : /\ Whole(i).msg = i /\ Half(i).msg = i
             /\ Whole(i).left = <<"header", "payload">> /\ Half(i).left = <<"payload">>
  BY DEF Whole, Half
<1>3. QED
  BY <1>1, <1>2

(* One write at a time: what stands after its step.                        *)
LEMMA OneWriteAtATime ==
  ASSUME NEW T, NEW s \in Seq(T), NEW A, NEW U, NEW o \in Seq(U), NEW w, NEW v, NEW q, NEW i,
         HeaderOf(i) \in U, PayloadOf(i) \in U, w # <<>>, Right(s, A, o), Standing(s, A, w, o),
         \/ Head(w) = Whole(i) /\ q = o \o <<HeaderOf(i), PayloadOf(i)>> /\ v = Tail(w)
         \/ Head(w) = Whole(i) /\ q = o \o <<HeaderOf(i)>> /\ v = Append(Tail(w), Half(i))
         \/ Head(w) = Half(i) /\ q = o \o <<PayloadOf(i)>> /\ v = Tail(w)
  PROVE  Right(s, A, q) /\ Standing(s, A, v, q)
<1> DEFINE h == HeaderOf(i)
           p == PayloadOf(i)
           m == Count(s, A, Len(s))
<1>1. PICK e \in DOMAIN s :
        /\ s[e] \in A /\ Count(s, A, e) = m
        /\ \/ w = <<Whole(s[e])>> /\ Len(o) = 2 * m - 2
           \/ w = <<Half(s[e])>> /\ Len(o) = 2 * m - 1
  BY DEF Standing
<1>2. /\ h \in U /\ h.msg = i /\ h.part = "header"
      /\ p \in U /\ p.msg = i /\ p.part = "payload"
  BY DEF HeaderOf, PayloadOf
<1>3. m \in Nat /\ Len(o) \in Nat
  BY CountType, LenProperties
<1> HIDE DEF h, p, m
<1>4. Append(o, h) \in Seq(U) /\ Len(Append(o, h)) = Len(o) + 1
  BY <1>2, AppendProperties
<1>5. /\ o \o <<h, p>> = Append(Append(o, h), p) /\ o \o <<h>> = Append(o, h) /\ o \o <<p>> = Append(o, p)
      /\ Len(Append(Append(o, h), p)) = Len(o) + 2 /\ Len(Append(o, p)) = Len(o) + 1
  BY <1>2
<1>6. CASE w = <<Whole(s[e])>> /\ Len(o) = 2 * m - 2
  <2>1. Head(w) = Whole(s[e]) /\ Tail(w) = <<>>
    BY <1>6
  <2>2. i = s[e]
    BY <2>1, Halves
  <2>3. m = ((Len(o) + 1) + 1) \div 2 /\ (Len(o) + 1) % 2 = 1
    BY <1>3, <1>6
  <2>4. Right(s, A, Append(o, h))
    BY <1>1, <1>2, <2>2, <2>3, RightAppended
  <2>5. CASE q = o \o <<h, p>> /\ v = Tail(w)
    <3>1. m = ((Len(Append(o, h)) + 1) + 1) \div 2 /\ (Len(Append(o, h)) + 1) % 2 # 1
      BY <1>3, <1>4, <1>6
    <3>2. Right(s, A, Append(Append(o, h), p))
      BY <1>1, <1>2, <1>4, <2>2, <2>4, <3>1, RightAppended
    <3>3. v = <<>> /\ Len(q) = 2 * m
      BY <1>3, <1>5, <1>6, <2>1, <2>5
    <3>4. QED
      BY <1>5, <2>5, <3>2, <3>3 DEF Standing, m
  <2>6. CASE q = o \o <<h>> /\ v = Append(Tail(w), Half(i))
    <3>1. v = <<Half(s[e])>> /\ Len(q) = 2 * m - 1
      BY <1>3, <1>4, <1>5, <1>6, <2>1, <2>2, <2>6
    <3>2. QED
      BY <1>1, <1>5, <2>4, <2>6, <3>1 DEF Standing, m
  <2>7. QED
    BY <2>1, <2>5, <2>6, Halves DEF h, p
<1>7. CASE w = <<Half(s[e])>> /\ Len(o) = 2 * m - 1
  <2>1. Head(w) = Half(s[e]) /\ Tail(w) = <<>>
    BY <1>7
  <2>2. Head(w) = Half(i) /\ q = o \o <<p>> /\ v = Tail(w)
    BY <2>1, Halves DEF p
  <2>3. i = s[e]
    BY <2>1, <2>2, Halves
  <2>4. m = ((Len(o) + 1) + 1) \div 2 /\ (Len(o) + 1) % 2 # 1
    BY <1>3, <1>7
  <2>5. Right(s, A, Append(o, p))
    BY <1>1, <1>2, <2>3, <2>4, RightAppended
  <2>6. v = <<>> /\ Len(q) = 2 * m
    BY <1>3, <1>5, <1>7, <2>1, <2>2
  <2>7. QED
    BY <1>5, <2>2, <2>5, <2>6 DEF Standing, m
<1>8. QED
  BY <1>1, <1>6, <1>7

(* What on_read answers.                                                   *)
Answering == {i \in Given : Answers(i)}

(* The cuts have not made the echo server answer what is no message.       *)
Heard == server = "echo" => OnlyMessages

(* All but its last message is answered when a patient client sends one.   *)
Waited == \A i \in 1 .. sent - 1 : IsMessage(i) /\ Answers(i) => Answered(i)

PatientInv ==
  /\ Fresh /\ InOrder
  /\ patient => Waited
  /\ patient /\ Heard =>
       /\ Right(delivered, Answering, out)
       /\ open => Standing(delivered, Answering, writes, out)

LEMMA AnsweringHeard ==
  ASSUME Typed, Heard, NEW e \in DOMAIN delivered, delivered[e] \in Answering
  PROVE  delivered[e] # Garbage /\ IsMessage(delivered[e]) /\ Answers(delivered[e])
<1> DEFINE j == delivered[e]
<1>1. j \in Given /\ Answers(j) /\ client \in DOMAIN Frames
  BY DEF Answering, Typed
<1>2. CASE server = "echo"
  BY <1>1, <1>2 DEF Heard, OnlyMessages
<1>3. CASE server # "echo"
  <2>1. j # Garbage /\ Frames[client][j].answer > 0 /\ j \in DOMAIN Frames[client]
    BY <1>1, <1>3 DEF Answers, Given
  <2>2. IsMessage(j)
    BY <1>1, <2>1, ClientsAssumption DEF IsMessage
  <2>3. QED
    BY <1>1, <2>1, <2>2
<1>4. QED
  BY <1>2, <1>3

(* So nothing is left to write when a patient client's message is given.   *)
LEMMA NothingOutstanding ==
  ASSUME Typed, PatientInv, patient, Heard, open, NEW i \in 1 .. sent,
         \A d \in DOMAIN delivered : delivered[d] # Garbage => delivered[d] < i
  PROVE  Standing(delivered, Answering, <<>>, out) /\ writes = <<>>
<1> SUFFICES ASSUME writes # <<>> PROVE FALSE
  BY DEF PatientInv
<1> DEFINE s == delivered
           A == Answering
           m == Count(s, A, Len(s))
<1>1. Right(s, A, out) /\ Standing(s, A, writes, out) /\ Waited /\ InOrder
  BY DEF PatientInv
<1>2. PICK e \in DOMAIN s :
        s[e] \in A /\ Count(s, A, e) = m /\ (Len(out) = 2 * m - 2 \/ Len(out) = 2 * m - 1)
  BY <1>1 DEF Standing
<1>3. s[e] # Garbage /\ IsMessage(s[e]) /\ Answers(s[e])
  BY <1>2, AnsweringHeard
<1>4. /\ s \in Seq(Given) /\ out \in Seq(Piece) /\ sent \in 0 .. Number(client)
      /\ client \in DOMAIN Frames /\ Number(client) \in Nat /\ m \in Nat
      /\ DOMAIN s = 1 .. Len(s) /\ Len(s) \in Nat /\ DOMAIN out = 1 .. Len(out) /\ Len(out) \in Nat
  BY ClientsFrames, LenProperties, CountType DEF Typed
<1>5. s[e] \in 1 .. sent /\ s[e] < i
  BY <1>1, <1>3 DEF InOrder
<1>6. s[e] \in 1 .. sent - 1
  BY <1>4, <1>5
<1>7. Answered(s[e])
  BY <1>1, <1>3, <1>6 DEF Waited
<1>8. PICK k \in DOMAIN out : out[k] = [msg |-> s[e], part |-> "payload"]
  BY <1>7 DEF Answered, ToSet
<1>9. out[k].msg = s[e] /\ out[k].part = "payload"
  BY <1>8
<1>10. PICK d \in DOMAIN s : s[d] = s[e] /\ Count(s, A, d) = (k + 1) \div 2
  BY <1>1, <1>9 DEF Right
<1>11. k % 2 # 1
  BY <1>1, <1>9 DEF Right
<1>12. k \in 1 .. 2 * m - 1 /\ k % 2 # 1
  <2>1. k \in 1 .. Len(out)
    BY <1>4
  <2>2. QED
    BY <1>2, <1>4, <1>11, <2>1
<1>13. (k + 1) \div 2 < m
  <2>1. k # 2 * m - 1 /\ k \in 1 .. 2 * m - 2
    BY <1>4, <1>12
  <2>2. (k + 1) \div 2 <= m - 1
    BY <1>4, <2>1
  <2>3. (k + 1) \div 2 \in Int
    BY <2>1
  <2> HIDE DEF m
  <2>4. QED
    BY <1>4, <2>2, <2>3
<1>14. d = e
  <2>1. ~(d < e) /\ ~(e < d)
    <3>1. s[e] \in Nat
      BY <1>4, <1>5
    <3>2. ~(s[e] < s[e])
      BY <3>1
    <3>3. QED
      BY <1>1, <1>3, <1>10, <3>2 DEF InOrder
  <2>2. QED
    BY <1>4, <2>1
<1>15. QED
  BY <1>2, <1>4, <1>10, <1>13, <1>14

LEMMA PatientOut ==
  ASSUME Typed, PatientInv
  PROVE  PatientClientReadsAnswers
<1>1. ASSUME patient, Heard
      PROVE  \A k \in DOMAIN out :
               /\ \E d \in DOMAIN delivered :
                    delivered[d] = out[k].msg /\ Answers(delivered[d]) /\ AnsweredOf(d) = (k + 1) \div 2
               /\ out[k].part = IF k % 2 = 1 THEN "header" ELSE "payload"
  <2>1. Right(delivered, Answering, out)
    BY <1>1 DEF PatientInv
  <2>2. /\ delivered \in Seq(Given) /\ DOMAIN delivered = 1 .. Len(delivered) /\ Len(delivered) \in Nat
        /\ \A d \in DOMAIN delivered : delivered[d] \in Given
    BY LenProperties, ElementOfSeq DEF Typed
  <2>3. ASSUME NEW d \in DOMAIN delivered
        PROVE  AnsweredOf(d) = Count(delivered, Answering, d) /\ (delivered[d] \in Answering => Answers(delivered[d]))
    <3>1. \A e \in 1 .. d : delivered[e] \in Answering <=> Answers(delivered[e])
      BY <2>2 DEF Answering
    <3>2. {e \in 1 .. d : delivered[e] \in Answering} = {e \in 1 .. d : Answers(delivered[e])}
      BY <3>1
    <3>3. QED
      BY <3>2 DEF AnsweredOf, Count, Answering
  <2>4. QED
    BY <2>1, <2>3 DEF Right
<1>2. HeadersAgree
  BY HeadersAgreeHolds
<1>3. QED
  BY <1>1, <1>2 DEF PatientClientReadsAnswers, Heard

(* The answers given so far stay given.                                    *)
LEMMA StaysAnswered ==
  ASSUME NEW U, out \in Seq(U), NEW o \in Seq(U), out' = out \o o, NEW i, Answered(i)
  PROVE  Answered(i)'
<1>1. PICK k \in DOMAIN out : out[k] = [msg |-> i, part |-> "payload"]
  BY DEF Answered, ToSet
<1>2. k \in DOMAIN out' /\ out'[k] = out[k]
  BY <1>1, ConcatProperties, LenProperties
<1>3. QED
  BY <1>1, <1>2 DEF Answered, ToSet

LEMMA InitPatient == Init => PatientInv
<1> SUFFICES ASSUME Init PROVE PatientInv
  OBVIOUS
<1>1. delivered = <<>> /\ writes = <<>> /\ out = <<>> /\ parser = NewParser /\ sent = 0
  BY DEF Init
<1>2. Fresh /\ InOrder /\ Waited
  BY <1>1 DEF Fresh, InOrder, Waited
<1>3. Right(<<>>, Answering, <<>>)
  BY DEF Right
<1>4. Count(<<>>, Answering, 0) = 0 /\ Len(<<>>) = 0
  BY CountType
<1>5. Standing(<<>>, Answering, <<>>, <<>>)
  BY <1>4 DEF Standing
<1>6. QED
  BY <1>1, <1>2, <1>3, <1>5 DEF PatientInv

(* Steps that deliver nothing, write nothing and send nothing.             *)
LEMMA PatientKept ==
  ASSUME Typed, PatientInv, client' = client, server' = server, patient' = patient, sent' = sent,
         delivered' = delivered, out' = out, Fresh', InOrder',
         (writes' = writes /\ open' = open) \/ open' = FALSE
  PROVE  PatientInv'
<1>1. /\ \A i : (Answers(i) <=> Answers(i)') /\ End(i) = End(i)' /\ (IsMessage(i) <=> IsMessage(i)')
      /\ Given' = Given
  BY SameClient
<1>2. Answering' = Answering
  BY <1>1 DEF Answering
<1>3. (Heard' <=> Heard) /\ (Waited' <=> Waited)
  BY <1>1 DEF Heard, Waited, OnlyMessages, Answered
<1>4. patient /\ Heard => Right(delivered, Answering, out)' /\ (open' => Standing(delivered, Answering, writes, out)')
  <2>1. Right(delivered, Answering, out)' <=> Right(delivered, Answering, out)
    BY <1>2 DEF Right, Count
  <2>2. open' => (Standing(delivered, Answering, writes, out)' <=> Standing(delivered, Answering, writes, out))
    BY <1>2 DEF Standing, Count, Whole, Half
  <2>3. QED
    BY <2>1, <2>2 DEF PatientInv
<1>5. QED
  BY <1>3, <1>4 DEF PatientInv

LEMMA PatientSend ==
  ASSUME Typed, PatientInv, Send
  PROVE  PatientInv'
<1>1. /\ client' = client /\ server' = server /\ patient' = patient /\ sent' = sent + 1 /\ rd' = rd
      /\ delivered' = delivered /\ out' = out /\ writes' = writes /\ open' = open
      /\ stage' = stage /\ parser' = parser
  BY DEF Send, readVars
<1>2. /\ \A i : (Answers(i) <=> Answers(i)') /\ End(i) = End(i)' /\ (IsMessage(i) <=> IsMessage(i)')
      /\ Given' = Given
  BY <1>1, SameClient
<1>3. Answering' = Answering
  BY <1>2 DEF Answering
<1>4. Heard' <=> Heard
  BY <1>1, <1>2 DEF Heard, OnlyMessages
<1>5. sent \in Nat
  BY ClientsFrames DEF Typed
<1>6. patient => Waited'
  <2>1. patient => \A i \in 1 .. sent : IsMessage(i) /\ Answers(i) => Answered(i)
    BY DEF Send
  <2>2. sent' - 1 = sent
    BY <1>1, <1>5
  <2>3. QED
    BY <1>1, <1>2, <2>1, <2>2 DEF Waited, Answered
<1>7. InOrder'
  <2>1. 1 .. sent \subseteq 1 .. sent'
    BY <1>1, <1>5
  <2>2. QED
    BY <1>1, <1>2, <2>1 DEF PatientInv, InOrder
<1>8. Fresh'
  BY <1>1 DEF PatientInv, Fresh
<1>9. Right(delivered, Answering, out)' <=> Right(delivered, Answering, out)
  BY <1>1, <1>3 DEF Right, Count
<1>10. Standing(delivered, Answering, writes, out)' <=> Standing(delivered, Answering, writes, out)
  BY <1>1, <1>3 DEF Standing, Count, Whole, Half
<1>11. QED
  BY <1>1, <1>4, <1>6, <1>7, <1>8, <1>9, <1>10 DEF PatientInv

LEMMA PatientWrite ==
  ASSUME Typed, PatientInv, WriteSome
  PROVE  PatientInv'
<1>1. /\ client' = client /\ server' = server /\ patient' = patient /\ sent' = sent /\ rd' = rd
      /\ delivered' = delivered /\ open' = open /\ open /\ stage' = stage /\ parser' = parser
      /\ writes # <<>>
  BY DEF WriteSome, clientVars, readVars
<1>2. /\ \A i : (Answers(i) <=> Answers(i)') /\ End(i) = End(i)' /\ (IsMessage(i) <=> IsMessage(i)')
      /\ Given' = Given
  BY <1>1, SameClient
<1>3. Answering' = Answering /\ (Heard' <=> Heard)
  BY <1>1, <1>2 DEF Answering, Heard, OnlyMessages
<1>4. Fresh' /\ InOrder'
  BY <1>1, <1>2 DEF PatientInv, Fresh, InOrder
<1>5. PICK i \in Given : Answers(i) /\ (WritesAll(i) \/ WritesHeader(i) \/ WritesPayload(i))
  BY WriteSomeForms
<1>6. HeaderOf(i) \in Piece /\ PayloadOf(i) \in Piece
  BY <1>5 DEF HeaderOf, PayloadOf, Piece
<1>7. out \in Seq(Piece) /\ delivered \in Seq(Given)
  BY DEF Typed
<1>8. \E o \in Seq(Piece) : out' = out \o o
  <2> DEFINE h == HeaderOf(i)
             p == PayloadOf(i)
  <2>1. h \in Piece /\ p \in Piece /\ (out' = out \o <<h, p>> \/ out' = out \o <<h>> \/ out' = out \o <<p>>)
    BY <1>5, <1>6 DEF WritesAll, WritesHeader, WritesPayload
  <2> HIDE DEF h, p
  <2>2. <<h, p>> \in Seq(Piece) /\ <<h>> \in Seq(Piece) /\ <<p>> \in Seq(Piece)
    BY <2>1
  <2>3. QED
    BY <2>1, <2>2
<1>9. patient => Waited'
  <2>1. \A j : Answered(j) => Answered(j)'
    BY <1>7, <1>8, StaysAnswered
  <2>2. QED
    BY <1>1, <1>2, <2>1 DEF PatientInv, Waited
<1>10. ASSUME patient, Heard
       PROVE  Right(delivered, Answering, out') /\ Standing(delivered, Answering, writes', out')
  <2>1. Right(delivered, Answering, out) /\ Standing(delivered, Answering, writes, out)
    BY <1>1, <1>10 DEF PatientInv
  <2>2. \/ Head(writes) = Whole(i) /\ out' = out \o <<HeaderOf(i), PayloadOf(i)>> /\ writes' = Tail(writes)
        \/ Head(writes) = Whole(i) /\ out' = out \o <<HeaderOf(i)>> /\ writes' = Append(Tail(writes), Half(i))
        \/ Head(writes) = Half(i) /\ out' = out \o <<PayloadOf(i)>> /\ writes' = Tail(writes)
    BY <1>5 DEF WritesAll, WritesHeader, WritesPayload
  <2>3. QED
    BY <1>1, <1>6, <1>7, <2>1, <2>2, OneWriteAtATime
<1>11. Right(delivered, Answering, out)' <=> Right(delivered, Answering, out')
  BY <1>1, <1>3 DEF Right, Count
<1>12. Standing(delivered, Answering, writes, out)' <=> Standing(delivered, Answering, writes', out')
  BY <1>1, <1>3 DEF Standing, Count, Whole, Half
<1>13. QED
  BY <1>1, <1>3, <1>4, <1>9, <1>10, <1>11, <1>12 DEF PatientInv

(* A read that gives on_read something.                                    *)
LEMMA PatientGiven ==
  ASSUME Typed, PatientInv, open, stage = "up", rd' \in Nat, rd <= rd', rd' <= Written,
         client' = client, server' = server, patient' = patient, sent' = sent, out' = out,
         stage' = stage, NEW i \in Given, Gives(i)
  PROVE  PatientInv'
<1>1. delivered' = Append(delivered, i) /\ open' = open
  BY DEF Gives, on_read
<1>2. /\ \A j : (Answers(j) <=> Answers(j)') /\ (IsMessage(j) <=> IsMessage(j)')
      /\ Given' = Given
  BY SameClient
<1>3. Answering' = Answering
  BY <1>2 DEF Answering
<1>4. delivered \in Seq(Given)
  BY DEF Typed
<1>5. /\ DOMAIN delivered' = 1 .. Len(delivered) + 1 /\ DOMAIN delivered = 1 .. Len(delivered)
      /\ Len(delivered) \in Nat /\ delivered'[Len(delivered) + 1] = i
      /\ \A d \in 1 .. Len(delivered) : delivered'[d] = delivered[d]
  BY <1>1, <1>4, AppendProperties, LenProperties
<1>6. Heard' => Heard /\ (server = "echo" => i # Garbage)
  <2>1. \A d \in DOMAIN delivered : d \in DOMAIN delivered' /\ delivered'[d] = delivered[d]
    BY <1>5
  <2>2. Len(delivered) + 1 \in DOMAIN delivered'
    BY <1>5
  <2>3. OnlyMessages' => OnlyMessages /\ i # Garbage
    BY <1>2, <1>5, <2>1, <2>2 DEF OnlyMessages
  <2>4. QED
    BY <2>3 DEF Heard
<1>7. /\ InOrder' /\ (i # Garbage => i \in 1 .. sent)
      /\ i # Garbage => \A d \in DOMAIN delivered : delivered[d] # Garbage => delivered[d] < i
  BY GivesInOrder DEF PatientInv
<1>8. Fresh' /\ (patient' => Waited')
  BY <1>2 DEF Fresh, PatientInv, Waited, Answered
<1>9. ASSUME patient, Heard'
      PROVE  /\ Right(Append(delivered, i), Answering, out)
             /\ Standing(Append(delivered, i), Answering, writes', out)
  <2>1. Heard /\ Right(delivered, Answering, out) /\ Standing(delivered, Answering, writes, out)
    BY <1>6, <1>9 DEF PatientInv
  <2>2. Right(Append(delivered, i), Answering, out)
    BY <1>4, <2>1, RightKept
  <2>3. CASE i \in Answering
    <3>1. Answers(i)
      BY <2>3 DEF Answering
    <3>2. i # Garbage
      BY <1>6, <1>9, <3>1 DEF Answers
    <3>3. Standing(delivered, Answering, <<>>, out) /\ writes = <<>>
      BY <1>7, <1>9, <2>1, <3>2, NothingOutstanding
    <3>4. writes' = <<Whole(i)>>
      BY <3>1, <3>3 DEF Gives, on_read, async_write, Whole
    <3>5. Standing(Append(delivered, i), Answering, <<Whole(i)>>, out)
      BY <1>4, <2>3, <3>3, StandingAnswered
    <3>6. QED
      BY <2>2, <3>4, <3>5
  <2>4. CASE i \notin Answering
    <3>1. writes' = writes
      BY <2>4 DEF Answering, Gives, on_read
    <3>2. Standing(Append(delivered, i), Answering, writes, out)
      BY <1>4, <2>1, <2>4, StandingKept
    <3>3. QED
      BY <2>2, <3>1, <3>2
  <2>5. QED
    BY <2>3, <2>4
<1>10. Right(delivered, Answering, out)' <=> Right(Append(delivered, i), Answering, out)
  BY <1>1, <1>3 DEF Right, Count
<1>11. Standing(delivered, Answering, writes, out)' <=> Standing(Append(delivered, i), Answering, writes', out)
  BY <1>1, <1>3 DEF Standing, Count, Whole, Half
<1>12. QED
  BY <1>7, <1>8, <1>9, <1>10, <1>11 DEF PatientInv

(* Reading on leaves what was given in order.                              *)
LEMMA ReadOnInOrder ==
  ASSUME Typed, InOrder, client' = client, sent' = sent, delivered' = delivered,
         rd' \in Nat, rd <= rd'
  PROVE  InOrder'
<1>1. \A j \in 0 .. Number(client) : End(j) \in Nat
  BY EndsGrow DEF End, Typed
<1>2. /\ rd \in Nat /\ sent \in 0 .. Number(client) /\ Number(client) \in Nat
  BY WrittenType, ClientsFrames DEF Typed
<1>3. \A d \in DOMAIN delivered :
        delivered[d] # Garbage => delivered[d] \in 1 .. sent /\ End(delivered[d]) <= rd
  BY DEF InOrder
<1>4. ASSUME NEW d \in DOMAIN delivered, delivered[d] # Garbage
      PROVE  delivered[d] \in 1 .. sent /\ End(delivered[d]) <= rd'
  <2> DEFINE j == delivered[d]
  <2>1. j \in 1 .. sent /\ End(j) <= rd
    BY <1>3, <1>4
  <2> HIDE DEF j
  <2>2. End(j) \in Nat
    BY <1>1, <1>2, <2>1
  <2>3. End(j) <= rd'
    BY <1>2, <2>1, <2>2
  <2>4. QED
    BY <2>1, <2>3 DEF j
<1>5. QED
  BY <1>4 DEF InOrder, End

LEMMA NextPatient ==
  ASSUME Typed, PatientInv, [Next]_vars
  PROVE  PatientInv'
<1>1. CASE on_read_dataframe
  <2>1. /\ open /\ stage = "up" /\ rd' \in Nat /\ rd <= rd' /\ rd' <= Written
        /\ client' = client /\ server' = server /\ patient' = patient /\ sent' = sent /\ out' = out
        /\ \/ delivered' = delivered /\ writes' = writes /\ open' = open
           \/ delivered' = delivered /\ writes' = <<>> /\ open' = FALSE
           \/ \E i \in Given : Gives(i)
    BY <1>1, ReadForms
  <2>2. stage' = stage
    BY <1>1 DEF on_read_dataframe
  <2>3. CASE delivered' = delivered /\ ((writes' = writes /\ open' = open) \/ open' = FALSE)
    <3>1. Fresh'
      BY <2>1, <2>2 DEF Fresh
    <3>2. InOrder'
      BY <2>1, <2>3, ReadOnInOrder DEF PatientInv
    <3>3. QED
      BY <2>1, <2>2, <2>3, <3>1, <3>2, PatientKept
  <2>4. CASE \E i \in Given : Gives(i)
    BY <2>1, <2>2, <2>4, PatientGiven
  <2>5. QED
    BY <2>1, <2>3, <2>4
<1>2. CASE Send
  BY <1>2, PatientSend
<1>3. CASE WriteSome
  BY <1>3, PatientWrite
<1>4. CASE on_first_read \/ on_second_read
  <2>1. /\ client' = client /\ server' = server /\ patient' = patient /\ sent' = sent
        /\ delivered' = delivered /\ out' = out /\ parser' = parser
        /\ stage # "up" /\ ((writes' = writes /\ open' = open) \/ open' = FALSE)
    BY <1>4 DEF on_first_read, on_second_read, clientVars, on_error
  <2>2. Fresh' /\ delivered = <<>>
    BY <2>1 DEF PatientInv, Fresh
  <2>3. InOrder'
    BY <2>1, <2>2 DEF InOrder
  <2>4. QED
    BY <2>1, <2>2, <2>3, PatientKept
<1>5. CASE Ask \/ Leave \/ ReadFails \/ WriteFails \/ UNCHANGED vars
  <2>1. /\ client' = client /\ server' = server /\ patient' = patient /\ sent' = sent /\ rd' = rd
        /\ delivered' = delivered /\ out' = out /\ parser' = parser /\ stage' = stage
        /\ ((writes' = writes /\ open' = open) \/ open' = FALSE)
    BY <1>5 DEF Ask, Leave, ReadFails, WriteFails, vars, clientVars, readVars, on_error
  <2>2. Fresh'
    BY <2>1 DEF PatientInv, Fresh
  <2>3. InOrder'
    <3>1. rd \in Nat /\ rd <= rd
      BY WrittenType DEF Typed
    <3>2. QED
      BY <2>1, <3>1, ReadOnInOrder DEF PatientInv
  <2>4. QED
    BY <2>1, <2>2, <2>3, PatientKept
<1>6. QED
  BY <1>1, <1>2, <1>3, <1>4, <1>5 DEF Next, Reads, Writes

(* A client that waits for its answers gets them whole, in the order of    *)
(* its messages, and with headers that the library's own parser reads as   *)
(* they were meant: for any clients, any frames between its messages, and  *)
(* any cuts of the stream into reads.                                      *)
THEOREM PatientClientReadsAnswersHolds == Spec => []PatientClientReadsAnswers
<1>1. Init => PatientInv
  BY InitPatient
<1>2. Typed /\ PatientInv /\ [Next]_vars => PatientInv'
  BY NextPatient
<1>3. Spec => []PatientInv
  BY <1>1, <1>2, AlwaysTyped, PTL DEF Spec
<1>4. Typed /\ PatientInv => PatientClientReadsAnswers
  BY PatientOut
<1>5. QED
  BY <1>3, <1>4, AlwaysTyped, PTL
=============================================================================
