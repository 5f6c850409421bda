--------------------------- MODULE TcpEcho_proofs ---------------------------
(***************************************************************************)
(* The echo is in order for any number of bytes, any buffer and any        *)
(* window, and the session with its client implements EchoChannel.         *)
(***************************************************************************)
EXTENDS TcpEcho, SequenceTheorems, TLAPS

(* What the outstanding write has left.                                    *)
Left == IF writes = <<>> THEN <<>> ELSE Head(writes)

(***************************************************************************)
(* The inductive invariant: heard, under way and being written are three   *)
(* stretches of one stream, and a session that closes before its client    *)
(* has gone has read something.                                            *)
(***************************************************************************)
Pieces == writes \in Seq(Seq(1 .. MaxTyped))

HeardInOrder == \A i \in 1 .. Len(got) : got[i] = i

Stretches ==
  ~Gone =>
    /\ Len(got) + Len(down) + Len(Left) = rd
    /\ \A i \in 1 .. Len(down) : down[i] = Len(got) + i
    /\ \A i \in 1 .. Len(Left) : Left[i] = Len(got) + Len(down) + i

HasRead == (writes # <<>> \/ (~open /\ ~Gone)) => rd >= 1

CutLine == phase = "failed" => ~open /\ rd \in 1 .. typed - 1

IInv == TypeOK /\ Pieces /\ HeardInOrder /\ Stretches /\ HasRead /\ CutLine

-----------------------------------------------------------------------------
LEMMA BytesProperties ==
  ASSUME NEW a \in Nat, NEW b \in Nat, a <= b
  PROVE  /\ Bytes(a, b) \in Seq(a + 1 .. b)
         /\ Len(Bytes(a, b)) = b - a
         /\ \A i \in 1 .. b - a : Bytes(a, b)[i] = a + i
  BY IsASeq, b - a \in Nat, \A i \in 1 .. b - a : a + i \in a + 1 .. b DEF Bytes

(* The first n bytes.                                                      *)
LEMMA FirstBytes ==
  ASSUME NEW n \in Nat
  PROVE  /\ Bytes(0, n) \in Seq(Nat) /\ Len(Bytes(0, n)) = n
         /\ \A i \in 1 .. n : Bytes(0, n)[i] = i
<1>1. Bytes(0, n) = [i \in 1 .. n |-> i]
  <2>1. n - 0 = n /\ \A i \in 1 .. n : 0 + i = i
    OBVIOUS
  <2>2. QED
    BY <2>1 DEF Bytes
<1>2. QED
  BY <1>1, IsASeq

LEMMA Wider ==
  ASSUME NEW S, NEW T, S \subseteq T, NEW s \in Seq(S)
  PROVE  s \in Seq(T)
  BY SeqMonotonic

(* A sequence and what a cut at n makes of it.                             *)
LEMMA Cut ==
  ASSUME NEW S, NEW w \in Seq(S), NEW n \in 1 .. Len(w)
  PROVE  /\ SubSeq(w, 1, n) \in Seq(S) /\ Len(SubSeq(w, 1, n)) = n
         /\ \A i \in 1 .. n : SubSeq(w, 1, n)[i] = w[i]
         /\ SubSeq(w, n + 1, Len(w)) \in Seq(S) /\ Len(SubSeq(w, n + 1, Len(w))) = Len(w) - n
         /\ \A i \in 1 .. Len(w) - n : SubSeq(w, n + 1, Len(w))[i] = w[n + i]
<1>1. Len(w) \in Nat /\ w \in [1 .. Len(w) -> S]
  BY LenProperties
<1>2. \A i \in 1 .. n : w[i] \in S
  BY <1>1
<1>3. \A i \in n + 1 .. Len(w) : w[i] \in S
  BY <1>1
<1>4. /\ SubSeq(w, 1, n) \in Seq(S) /\ Len(SubSeq(w, 1, n)) = n
      /\ \A i \in 1 .. n : SubSeq(w, 1, n)[i] = w[i]
  BY <1>1, <1>2, SubSeqProperties
<1>5. /\ SubSeq(w, n + 1, Len(w)) \in Seq(S)
      /\ Len(SubSeq(w, n + 1, Len(w))) = IF n + 1 <= Len(w) THEN Len(w) - (n + 1) + 1 ELSE 0
      /\ \A i \in 1 .. Len(w) - (n + 1) + 1 :
           SubSeq(w, n + 1, Len(w))[i] = w[n + 1 + i - 1]
  <2> DEFINE m == n + 1
  <2> HIDE DEF m
  <2>1. m \in Int /\ Len(w) \in Int /\ \A i \in m .. Len(w) : w[i] \in S
    BY <1>1, <1>3 DEF m
  <2>2. /\ SubSeq(w, m, Len(w)) \in Seq(S)
        /\ Len(SubSeq(w, m, Len(w))) = IF m <= Len(w) THEN Len(w) - m + 1 ELSE 0
        /\ \A i \in 1 .. Len(w) - m + 1 : SubSeq(w, m, Len(w))[i] = w[m + i - 1]
    BY <2>1, SubSeqProperties
  <2>3. QED
    BY <2>2 DEF m
<1>6. Len(w) \in Nat /\ n \in Nat /\ n <= Len(w)
  BY LenProperties
<1>7. /\ Len(w) - (n + 1) + 1 = Len(w) - n /\ (n + 1 <= Len(w) \/ Len(w) - n = 0)
      /\ \A i \in 1 .. Len(w) - n : n + 1 + i - 1 = n + i
  BY <1>6
<1>8. QED
  BY <1>4, <1>5, <1>6, <1>7

LEMMA Joined ==
  ASSUME NEW S, NEW s \in Seq(S), NEW t \in Seq(S)
  PROVE  /\ s \o t \in Seq(S) /\ Len(s \o t) = Len(s) + Len(t)
         /\ \A i \in 1 .. Len(s) : (s \o t)[i] = s[i]
         /\ \A i \in 1 .. Len(t) : (s \o t)[Len(s) + i] = t[i]
         /\ \A i \in Len(s) + 1 .. Len(s) + Len(t) : (s \o t)[i] = t[i - Len(s)]
  BY ConcatProperties, LenProperties

(* Equal element by element, as far as s goes.                             *)
LEMMA PrefixByElements ==
  ASSUME NEW S, NEW s \in Seq(S), NEW t \in Seq(S), Len(s) <= Len(t),
         \A i \in 1 .. Len(s) : s[i] = t[i]
  PROVE  IsPrefix(s, t)
<1>1. CASE Len(s) = 0
  <2>1. SubSeq(s, 1, Len(s)) = <<>> /\ SubSeq(t, 1, Len(s)) = <<>>
    BY <1>1, SubSeqEmpty, LenProperties
  <2>2. QED
    BY <2>1 DEF IsPrefix
<1>2. CASE Len(s) # 0
  <2>1. Len(s) \in 1 .. Len(s) /\ Len(s) \in 1 .. Len(t)
    BY <1>2, LenProperties
  <2>2. /\ SubSeq(s, 1, Len(s)) \in Seq(S) /\ Len(SubSeq(s, 1, Len(s))) = Len(s)
        /\ \A i \in 1 .. Len(s) : SubSeq(s, 1, Len(s))[i] = s[i]
    BY <2>1, Cut
  <2>3. /\ SubSeq(t, 1, Len(s)) \in Seq(S) /\ Len(SubSeq(t, 1, Len(s))) = Len(s)
        /\ \A i \in 1 .. Len(s) : SubSeq(t, 1, Len(s))[i] = t[i]
    BY <2>1, Cut
  <2>4. SubSeq(s, 1, Len(s)) = SubSeq(t, 1, Len(s))
    BY <2>2, <2>3, SeqEqual
  <2>5. QED
    BY <2>4 DEF IsPrefix
<1>3. QED
  BY <1>1, <1>2

-----------------------------------------------------------------------------
LEMMA InitIInv == Init => IInv
<1> SUFFICES ASSUME Init PROVE IInv
  OBVIOUS
<1> USE DEF Init
<1>1. Left = <<>> /\ Len(<<>>) = 0 /\ <<>> \in Seq(1 .. MaxTyped) /\ <<>> \in Seq(Seq(1 .. MaxTyped))
  BY EmptySeq DEF Left
<1>2. TypeOK
  BY <1>1, EchoAssumption DEF TypeOK
<1>3. Pieces /\ HeardInOrder /\ Stretches /\ HasRead /\ CutLine
  BY <1>1 DEF Pieces, HeardInOrder, Stretches, HasRead, CutLine, Gone
<1>4. QED
  BY <1>2, <1>3 DEF IInv

(* The outstanding write, if there is one, is the only one.                *)
LEMMA OneWrite ==
  ASSUME IInv
  PROVE  /\ Left \in Seq(1 .. MaxTyped) /\ Len(Left) \in Nat
         /\ writes # <<>> => /\ open /\ ~reading
                            /\ Left = Head(writes) /\ Tail(writes) = <<>>
         /\ reading => writes = <<>>
<1> USE DEF IInv, TypeOK, Pieces
<1>1. Len(writes) \in {0, 1} /\ (writes = <<>> <=> Len(writes) = 0)
  BY EmptySeq
<1>2. CASE writes = <<>>
  BY <1>1, <1>2, EmptySeq DEF Left
<1>3. CASE writes # <<>>
  <2>1. Head(writes) \in Seq(1 .. MaxTyped) /\ Tail(writes) \in Seq(Seq(1 .. MaxTyped))
        /\ Len(Tail(writes)) = Len(writes) - 1
    BY <1>3, HeadTailProperties
  <2>2. Len(Tail(writes)) = 0
    BY <2>1, <1>1, <1>3
  <2>3. Tail(writes) = <<>>
    BY <2>1, <2>2, EmptySeq
  <2>4. Left = Head(writes) /\ Len(Left) \in Nat
    BY <1>3, <2>1, LenProperties DEF Left
  <2>5. QED
    BY <1>1, <1>3, <2>1, <2>3, <2>4
<1>4. QED
  BY <1>2, <1>3

-----------------------------------------------------------------------------
(* The client.                                                             *)
LEMMA TypeStep ==
  ASSUME IInv, Type
  PROVE  IInv'
<1> USE DEF Type, IInv, sessionVars
<1>1. PICK n \in 0 .. MaxTyped - typed : typed' = typed + n
  OBVIOUS
<1>2. typed \in Nat /\ typed' \in 0 .. MaxTyped /\ typed' >= typed /\ rd \in 0 .. typed'
  BY <1>1, EchoAssumption DEF TypeOK
<1>3. phase' \in {"typing", "reading", "leaving"} /\ ~Gone
  BY DEF TypeOK, Gone
<1>4. TypeOK'
  BY <1>2, <1>3 DEF TypeOK
<1>5. (Pieces /\ HeardInOrder /\ Stretches /\ HasRead /\ CutLine)'
  BY <1>3 DEF Pieces, HeardInOrder, Stretches, HasRead, CutLine, Gone, Left
<1>6. QED
  BY <1>4, <1>5

(* What is read goes from the front of what is under way.                  *)
LEMMA ReadStep ==
  ASSUME IInv, Read
  PROVE  IInv'
<1>0. /\ UNCHANGED <<client, phase, typed, session, rd, reading, writes, open>>
      /\ phase = "reading" \/ (client = "user" /\ ~Gone)
  BY DEF Read, sessionVars
<1>1. PICK n \in 1 .. Len(down) : /\ got' = got \o SubSeq(down, 1, n)
                                  /\ down' = SubSeq(down, n + 1, Len(down))
  BY DEF Read
<1>2. got \in Seq(1 .. MaxTyped) /\ down \in Seq(1 .. MaxTyped)
  BY DEF IInv, TypeOK
<1>3. Len(got) \in Nat /\ Len(down) \in Nat /\ Len(Left) \in Nat
  BY <1>2, OneWrite, LenProperties
<1> DEFINE front == SubSeq(down, 1, n)
<1>4. /\ front \in Seq(1 .. MaxTyped) /\ Len(front) = n
      /\ \A i \in 1 .. n : front[i] = down[i]
      /\ down' \in Seq(1 .. MaxTyped) /\ Len(down') = Len(down) - n
      /\ \A i \in 1 .. Len(down) - n : down'[i] = down[n + i]
  BY <1>1, <1>2, Cut
<1> HIDE DEF front
<1>5. got' = got \o front
  BY <1>1 DEF front
<1>6. /\ got' \in Seq(1 .. MaxTyped) /\ Len(got') = Len(got) + n
      /\ \A i \in 1 .. Len(got) : got'[i] = got[i]
      /\ \A i \in Len(got) + 1 .. Len(got) + n : got'[i] = front[i - Len(got)]
  <2>1. /\ got \o front \in Seq(1 .. MaxTyped) /\ Len(got \o front) = Len(got) + n
        /\ \A i \in 1 .. Len(got) : (got \o front)[i] = got[i]
        /\ \A i \in Len(got) + 1 .. Len(got) + n : (got \o front)[i] = front[i - Len(got)]
    BY <1>2, <1>4, Joined
  <2>2. QED
    BY <2>1, <1>5
<1>7. TypeOK'
  BY <1>0, <1>4, <1>6 DEF IInv, TypeOK
<1>8. n \in Nat /\ n <= Len(down)
  BY <1>3
<1>9. ~Gone
  BY <1>0 DEF Gone
<1>10. HeardInOrder'
  <2> SUFFICES ASSUME NEW i \in 1 .. Len(got') PROVE got'[i] = i
    BY DEF HeardInOrder
  <2>1. CASE i <= Len(got)
    BY <2>1, <1>3, <1>6 DEF IInv, HeardInOrder
  <2>2. CASE i > Len(got)
    <3>1. i - Len(got) \in 1 .. n /\ i - Len(got) \in 1 .. Len(down) /\ i \in Len(got) + 1 .. Len(got) + n
      BY <2>2, <1>3, <1>6
    <3>2. got'[i] = down[i - Len(got)]
      BY <3>1, <1>4, <1>6
    <3>3. down[i - Len(got)] = Len(got) + (i - Len(got))
      BY <3>1, <1>9 DEF IInv, Stretches
    <3>4. QED
      BY <3>1, <3>2, <3>3, <1>3
  <2>3. QED
    BY <2>1, <2>2, <1>3, <1>6
<1>11. Left' = Left /\ writes' = writes
  BY <1>0 DEF Left
<1>12. Stretches'
  <2>0. /\ Len(got) + Len(down) + Len(Left) = rd /\ rd' = rd
        /\ \A i \in 1 .. Len(down) : down[i] = Len(got) + i
        /\ \A i \in 1 .. Len(Left) : Left[i] = Len(got) + Len(down) + i
    BY <1>0, <1>9 DEF IInv, Stretches
  <2>1. Len(got') + Len(down') + Len(Left') = rd'
    BY <2>0, <1>3, <1>4, <1>6, <1>8, <1>11
  <2>2. \A i \in 1 .. Len(down') : down'[i] = Len(got') + i
    <3> SUFFICES ASSUME NEW i \in 1 .. Len(down) - n PROVE down'[i] = Len(got) + n + i
      BY <1>4, <1>6
    <3>1. n + i \in 1 .. Len(down) /\ Len(got) + (n + i) = Len(got) + n + i
      BY <1>3, <1>8
    <3>2. QED
      BY <3>1, <2>0, <1>4
  <2>3. \A i \in 1 .. Len(Left') : Left'[i] = Len(got') + Len(down') + i
    <3>1. Len(got') + Len(down') = Len(got) + Len(down)
      BY <1>3, <1>4, <1>6, <1>8
    <3>2. QED
      BY <3>1, <2>0, <1>11
  <2>4. QED
    BY <2>1, <2>2, <2>3 DEF Stretches
<1>13. (Pieces /\ HasRead /\ CutLine)'
  BY <1>0, <1>9 DEF IInv, Pieces, HasRead, CutLine, Gone
<1>14. QED
  BY <1>7, <1>10, <1>12, <1>13 DEF IInv

LEMMA EndsStep ==
  ASSUME IInv, Ends
  PROVE  IInv'
<1> USE DEF Ends, IInv, sessionVars
<1>1. Gone' /\ phase' # "failed" /\ TypeOK'
  BY DEF TypeOK, Gone
<1>2. (Pieces /\ HeardInOrder /\ Stretches /\ HasRead /\ CutLine)'
  BY <1>1 DEF Pieces, HeardInOrder, Stretches, HasRead, CutLine
<1>3. QED
  BY <1>1, <1>2

(* Bytes are missing: they were read and are under way, or never read.     *)
LEMMA ReplyIsShortStep ==
  ASSUME IInv, ReplyIsShort
  PROVE  IInv'
<1> USE DEF ReplyIsShort, IInv, sessionVars
<1>1. Gone' /\ TypeOK' /\ ~Gone
  BY DEF TypeOK, Gone
<1>2. writes = <<>> /\ Left = <<>> /\ Len(Left) = 0
  BY OneWrite, EmptySeq DEF Left
<1>3. rd >= 1 /\ rd \in 0 .. typed /\ typed \in Nat
  BY <1>1, EchoAssumption DEF HasRead, TypeOK
<1>4. rd < typed
  <2>1. CASE SessionResets
    BY <2>1 DEF SessionResets
  <2>2. CASE down = <<>>
    <3>1. Len(down) = 0
      BY <2>2, EmptySeq
    <3>2. Len(got) \in Nat /\ Len(got) < typed
      BY LenProperties DEF TypeOK
    <3>3. Len(got) + 0 + 0 = rd
      BY <3>1, <1>1, <1>2 DEF Stretches
    <3>4. QED
      BY <3>2, <3>3
  <2>3. QED
    BY <2>1, <2>2
<1>5. (Pieces /\ HeardInOrder /\ Stretches /\ HasRead /\ CutLine)'
  BY <1>1, <1>2, <1>3, <1>4 DEF Pieces, HeardInOrder, Stretches, HasRead, CutLine
<1>6. QED
  BY <1>1, <1>5

-----------------------------------------------------------------------------
(* The session.                                                            *)

(* What was read follows what is on its way.                               *)
LEMMA ReadStringStep ==
  ASSUME IInv, on_async_read_string
  PROVE  IInv'
<1>1. PICK n \in 1 .. typed - rd : rd' = rd + n /\ writes' = Append(writes, Bytes(rd, rd + n))
  BY DEF on_async_read_string, on_read_string
<1>2. /\ reading /\ rd < typed /\ ~reading' /\ reading' \in BOOLEAN
      /\ UNCHANGED <<session, open, client, phase, typed, got, down>>
  BY DEF on_async_read_string, clientVars
<1>3. /\ rd \in Nat /\ typed \in Nat /\ typed <= MaxTyped /\ MaxTyped \in Nat
      /\ n \in Nat /\ n >= 1 /\ rd + n <= typed
  BY EchoAssumption DEF IInv, TypeOK
<1>4. writes = <<>> /\ Left = <<>> /\ Len(Left) = 0 /\ open
  BY <1>2, OneWrite, EmptySeq DEF Left, IInv, TypeOK
<1> DEFINE b == rd + n
           new == Bytes(rd, b)
<1>b. /\ b \in Nat /\ rd <= b /\ b - rd = n /\ rd + 1 .. b \subseteq 1 .. MaxTyped
      /\ b = rd + n
  BY <1>3
<1> HIDE DEF b
<1>5. /\ new \in Seq(1 .. MaxTyped) /\ Len(new) = n
      /\ \A i \in 1 .. n : new[i] = rd + i
  <2>1. /\ new \in Seq(rd + 1 .. b) /\ Len(new) = b - rd
        /\ \A i \in 1 .. b - rd : new[i] = rd + i
    BY <1>b, <1>3, BytesProperties
  <2>2. new \in Seq(1 .. MaxTyped)
    BY <2>1, <1>b, Wider
  <2>3. QED
    BY <2>1, <2>2, <1>b
<1> HIDE DEF new
<1>6. writes' = <<new>>
  <2>1. writes' = Append(<<>>, new)
    BY <1>1, <1>4 DEF new, b
  <2>2. QED
    BY <2>1
<1>7. /\ writes' \in Seq(Seq(1 .. MaxTyped)) /\ Len(writes') = 1
      /\ Left' = new /\ writes' # <<>>
  BY <1>5, <1>6 DEF Left
<1>8. TypeOK'
  BY <1>1, <1>2, <1>3, <1>4, <1>7 DEF IInv, TypeOK
<1>9. Stretches'
  <2> SUFFICES ASSUME ~Gone' PROVE Stretches'
    BY DEF Stretches
  <2>1. /\ Len(got) + Len(down) + Len(Left) = rd
        /\ \A i \in 1 .. Len(down) : down[i] = Len(got) + i
    BY <1>2 DEF IInv, Stretches, Gone
  <2>2. Len(got) \in Nat /\ Len(down) \in Nat
    BY LenProperties DEF IInv, TypeOK
  <2>3. Len(got) + Len(down) = rd
    BY <2>1, <2>2, <1>4
  <2>4. got' = got /\ down' = down /\ Len(Left') = n /\ rd' = rd + n
    BY <1>1, <1>2, <1>5, <1>7
  <2>5. QED
    BY <2>1, <2>3, <2>4, <1>5, <1>7 DEF Stretches
<1>10. (Pieces /\ HeardInOrder /\ HasRead /\ CutLine)'
  BY <1>1, <1>2, <1>3, <1>4, <1>7 DEF IInv, Pieces, HeardInOrder, HasRead, CutLine
<1>11. QED
  BY <1>8, <1>9, <1>10 DEF IInv

LEMMA ReadFailsStep ==
  ASSUME IInv, ReadFails
  PROVE  IInv'
<1>1. /\ Gone /\ ~open' /\ ~reading' /\ writes' = <<>>
      /\ open' \in BOOLEAN /\ reading' \in BOOLEAN
      /\ UNCHANGED <<session, rd, client, phase, typed, got, down>>
  BY DEF ReadFails, Close, clientVars
<1>2. <<>> \in Seq(Seq(1 .. MaxTyped)) /\ Len(<<>>) = 0
  BY EmptySeq
<1>3. TypeOK'
  BY <1>1, <1>2 DEF IInv, TypeOK
<1>4. (Pieces /\ HeardInOrder /\ Stretches /\ HasRead /\ CutLine)'
  BY <1>1, <1>2 DEF IInv, Pieces, HeardInOrder, Stretches, HasRead, CutLine, Gone
<1>5. QED
  BY <1>3, <1>4 DEF IInv

(* on_write when nothing is left of the only write: the session reads on,  *)
(* or closes.                                                              *)
LEMMA AfterWrite ==
  ASSUME IInv, writes # <<>>, on_write(Tail(writes)), UNCHANGED <<session, rd, client, phase, typed, got>>,
         down' \in Seq(1 .. MaxTyped)
  PROVE  TypeOK' /\ Pieces' /\ HeardInOrder' /\ HasRead' /\ CutLine' /\ writes' = <<>> /\ Left' = <<>>
<1>1. writes' = <<>> /\ Left' = <<>>
  BY OneWrite DEF on_write, Close, Left
<1>2. (reading' /\ open') \/ (~reading' /\ ~open')
  <2>1. open
    BY OneWrite
  <2>2. (reading' = TRUE /\ open' = open) \/ (open' = FALSE /\ reading' = FALSE)
    BY DEF on_write, Close
  <2>3. QED
    BY <2>1, <2>2
<1>3. reading' \in BOOLEAN /\ open' \in BOOLEAN
  BY DEF on_write, Close, IInv, TypeOK
<1>4. <<>> \in Seq(Seq(1 .. MaxTyped)) /\ Len(<<>>) = 0
  BY EmptySeq
<1>5. TypeOK'
  BY <1>1, <1>2, <1>3, <1>4 DEF IInv, TypeOK
<1>6. rd >= 1 /\ open
  BY OneWrite DEF IInv, HasRead
<1>7. (Pieces /\ HeardInOrder /\ HasRead /\ CutLine)'
  BY <1>1, <1>4, <1>6 DEF IInv, Pieces, HeardInOrder, HasRead, CutLine
<1>8. QED
  BY <1>1, <1>5, <1>7

(* What is handed over goes from the front of the write to the end of what *)
(* is under way.                                                           *)
LEMMA WriteSomeStep ==
  ASSUME IInv, WriteSome
  PROVE  IInv'
<1> DEFINE w == Head(writes)
<1>1. writes # <<>> /\ UNCHANGED <<session, rd, client, phase, typed, got>>
  BY DEF WriteSome, clientVars
<1>2. w \in Seq(1 .. MaxTyped) /\ Left = w /\ Len(w) \in Nat /\ open /\ ~reading /\ Tail(writes) = <<>>
  BY <1>1, OneWrite
<1>3. down \in Seq(1 .. MaxTyped) /\ got \in Seq(1 .. MaxTyped)
  BY DEF IInv, TypeOK
<1>4. Len(down) \in Nat /\ Len(got) \in Nat
  BY <1>3, LenProperties
<1>5. PICK n \in 1 .. Len(w) :
        LET rest == SubSeq(w, n + 1, Len(w)) IN
        /\ down' = down \o SubSeq(w, 1, n)
        /\ \/ rest = <<>> /\ on_write(Tail(writes))
           \/ /\ rest # <<>> /\ writes' = Append(Tail(writes), rest)
              /\ UNCHANGED <<reading, open>>
  <2>1. DOMAIN w = 1 .. Len(w)
    BY <1>2, LenProperties
  <2>2. QED
    BY <2>1 DEF WriteSome
<1> DEFINE front == SubSeq(w, 1, n)
           rest == SubSeq(w, n + 1, Len(w))
<1>6. /\ front \in Seq(1 .. MaxTyped) /\ Len(front) = n
      /\ \A i \in 1 .. n : front[i] = w[i]
      /\ rest \in Seq(1 .. MaxTyped) /\ Len(rest) = Len(w) - n
      /\ \A i \in 1 .. Len(w) - n : rest[i] = w[n + i]
  BY <1>2, Cut
<1>7. down' = down \o front /\ (\/ rest = <<>> /\ on_write(Tail(writes))
                               \/ /\ rest # <<>> /\ writes' = Append(Tail(writes), rest)
                                  /\ UNCHANGED <<reading, open>>)
  BY <1>5
<1> HIDE DEF front, rest, w
<1>8. /\ down' \in Seq(1 .. MaxTyped) /\ Len(down') = Len(down) + n
      /\ \A i \in 1 .. Len(down) : down'[i] = down[i]
      /\ \A i \in Len(down) + 1 .. Len(down) + n : down'[i] = front[i - Len(down)]
  <2>1. /\ down \o front \in Seq(1 .. MaxTyped) /\ Len(down \o front) = Len(down) + Len(front)
        /\ \A i \in 1 .. Len(down) : (down \o front)[i] = down[i]
        /\ \A i \in Len(down) + 1 .. Len(down) + Len(front) :
             (down \o front)[i] = front[i - Len(down)]
    <3>1. front \in Seq(1 .. MaxTyped)
      BY <1>6
    <3>2. QED
      BY <3>1, <1>3, Joined
  <2>2. Len(front) = n
    BY <1>6
  <2>3. QED
    BY <2>1, <2>2, <1>7
<1>9. /\ TypeOK' /\ Pieces' /\ HeardInOrder' /\ HasRead' /\ CutLine'
      /\ Left' = rest
  <2>1. CASE rest = <<>> /\ on_write(Tail(writes))
    BY <2>1, <1>1, <1>8, AfterWrite
  <2>2. CASE rest # <<>> /\ writes' = Append(Tail(writes), rest) /\ UNCHANGED <<reading, open>>
    <3>1. writes' = <<rest>>
      <4>1. writes' = Append(<<>>, rest)
        BY <2>2, <1>2
      <4>2. QED
        BY <4>1
    <3>2. writes' \in Seq(Seq(1 .. MaxTyped)) /\ Len(writes') = 1 /\ Left' = rest /\ writes' # <<>>
      BY <3>1, <1>6 DEF Left
    <3>3. TypeOK'
      BY <2>2, <3>2, <1>1, <1>2, <1>8 DEF IInv, TypeOK
    <3>4. (Pieces /\ HeardInOrder /\ HasRead /\ CutLine)'
      BY <2>2, <3>2, <1>1, <1>2 DEF IInv, Pieces, HeardInOrder, HasRead, CutLine
    <3>5. QED
      BY <3>2, <3>3, <3>4
  <2>3. QED
    BY <2>1, <2>2, <1>7
<1>10. Stretches'
  <2> SUFFICES ASSUME ~Gone' PROVE Stretches'
    BY DEF Stretches
  <2>1. /\ Len(got) + Len(down) + Len(w) = rd /\ rd' = rd /\ got' = got
        /\ \A i \in 1 .. Len(down) : down[i] = Len(got) + i
        /\ \A i \in 1 .. Len(w) : w[i] = Len(got) + Len(down) + i
    BY <1>1, <1>2 DEF IInv, Stretches, Gone
  <2>2. n \in Nat /\ n <= Len(w)
    BY <1>2
  <2>3. Len(got') + Len(down') + Len(Left') = rd'
    <3>1. Len(got') = Len(got) /\ Len(down') = Len(down) + n /\ Len(Left') = Len(w) - n
      BY <2>1, <1>6, <1>8, <1>9
    <3>2. Len(got) + (Len(down) + n) + (Len(w) - n) = Len(got) + Len(down) + Len(w)
      BY <2>2, <1>2, <1>4
    <3>3. QED
      BY <3>1, <3>2, <2>1
  <2>4. ASSUME NEW i \in 1 .. Len(down') PROVE down'[i] = Len(got') + i
    <3>1. CASE i <= Len(down)
      <4>1. i \in 1 .. Len(down)
        BY <3>1, <1>4, <1>8
      <4>2. down'[i] = down[i] /\ down[i] = Len(got) + i
        BY <4>1, <2>1, <1>8
      <4>3. QED
        BY <4>2, <2>1
    <3>2. CASE i > Len(down)
      <4>1. i \in Len(down) + 1 .. Len(down) + n /\ i - Len(down) \in 1 .. n /\ i - Len(down) \in 1 .. Len(w)
        BY <3>2, <2>2, <1>2, <1>4, <1>8
      <4>2. down'[i] = w[i - Len(down)]
        BY <4>1, <1>6, <1>8
      <4>3. w[i - Len(down)] = Len(got) + Len(down) + (i - Len(down))
        BY <4>1, <2>1
      <4>4. QED
        BY <4>1, <4>2, <4>3, <2>1, <1>4
    <3>3. QED
      BY <3>1, <3>2, <1>4, <1>8
  <2>5. ASSUME NEW i \in 1 .. Len(Left') PROVE Left'[i] = Len(got') + Len(down') + i
    <3>1. i \in 1 .. Len(w) - n /\ n + i \in 1 .. Len(w)
      BY <2>2, <1>2, <1>6, <1>9
    <3>2. Left'[i] = w[n + i]
      BY <3>1, <1>6, <1>9
    <3>3. w[n + i] = Len(got) + Len(down) + (n + i)
      BY <3>1, <2>1
    <3>4. QED
      BY <3>1, <3>2, <3>3, <2>1, <2>2, <1>4, <1>8
  <2>6. QED
    BY <2>3, <2>4, <2>5 DEF Stretches
<1>11. QED
  BY <1>9, <1>10 DEF IInv

LEMMA WriteFailsStep ==
  ASSUME IInv, WriteFails
  PROVE  IInv'
<1>1. /\ writes # <<>> /\ Gone /\ on_write(Tail(writes))
      /\ UNCHANGED <<session, rd, client, phase, typed, got, down>>
  BY DEF WriteFails, clientVars
<1>2. down' \in Seq(1 .. MaxTyped)
  BY <1>1 DEF IInv, TypeOK
<1>3. TypeOK' /\ Pieces' /\ HeardInOrder' /\ HasRead' /\ CutLine'
  BY <1>1, <1>2, AfterWrite
<1>4. Stretches'
  BY <1>1 DEF Stretches, Gone
<1>5. QED
  BY <1>3, <1>4 DEF IInv

LEMMA StutterStep ==
  ASSUME IInv, UNCHANGED vars
  PROVE  IInv'
BY DEF vars, IInv, TypeOK, Pieces, HeardInOrder, Stretches, HasRead, CutLine, Gone, Left

(* The inductive invariant.                                                *)
THEOREM Inductive == Spec => []IInv
<1>1. IInv /\ [Next]_vars => IInv'
  BY TypeStep, ReadStep, EndsStep, ReplyIsShortStep, ReadStringStep, ReadFailsStep, WriteSomeStep,
     WriteFailsStep, StutterStep DEF Next, Session
<1>2. QED
  BY InitIInv, <1>1, PTL DEF Spec

-----------------------------------------------------------------------------
LEMMA FlattenLeft ==
  ASSUME IInv
  PROVE  FlattenSeq(writes) = Left
<1>1. CASE writes = <<>>
  BY <1>1, EmptySeq DEF FlattenSeq, Left
<1>2. CASE writes # <<>>
  <2>1. Len(writes) = 1 /\ writes[1] = Left
    BY <1>2, EmptySeq DEF IInv, TypeOK, Pieces, Left
  <2> DEFINE flatten == CHOOSE f : f = [i \in 1 .. Len(writes) |->
                          IF i = 1 THEN writes[i] ELSE f[i - 1] \o writes[i]]
  <2>2. flatten = [i \in 1 .. 1 |-> writes[1]]
    <3>1. \A f : [i \in 1 .. Len(writes) |-> IF i = 1 THEN writes[i] ELSE f[i - 1] \o writes[i]]
                 = [i \in 1 .. 1 |-> writes[1]]
      BY <2>1
    <3>2. QED
      BY <3>1
  <2>3. flatten[Len(writes)] = writes[1]
    BY <2>1, <2>2
  <2> HIDE DEF flatten
  <2>4. FlattenSeq(writes) = flatten[Len(writes)]
    BY <2>1 DEF FlattenSeq, flatten
  <2>5. QED
    BY <2>1, <2>3, <2>4
<1>3. QED
  BY <1>1, <1>2

(* Two sequences of the same length with the same elements.                *)
LEMMA OrderFromStretches ==
  ASSUME IInv
  PROVE  EchoInOrder
<1>1. /\ got \in Seq(1 .. MaxTyped) /\ down \in Seq(1 .. MaxTyped) /\ Left \in Seq(1 .. MaxTyped)
      /\ Len(got) \in Nat /\ Len(down) \in Nat /\ Len(Left) \in Nat
      /\ rd \in Nat
  BY OneWrite, LenProperties, EchoAssumption DEF IInv, TypeOK
<1>2. got = Bytes(0, Len(got))
  <2>1. /\ Bytes(0, Len(got)) \in Seq(Nat) /\ Len(Bytes(0, Len(got))) = Len(got)
        /\ \A i \in 1 .. Len(got) : Bytes(0, Len(got))[i] = i
    BY <1>1, FirstBytes
  <2>2. \A i \in 1 .. Len(got) : got[i] = i
    BY DEF IInv, HeardInOrder
  <2>3. got \in Seq(Nat)
    BY <1>1, 1 .. MaxTyped \subseteq Nat, Wider
  <2>4. QED
    BY <2>1, <2>2, <2>3, SeqEqual
<1>3. ASSUME ~Gone PROVE got \o down \o Left = Bytes(0, rd)
  <2>1. /\ Len(got) + Len(down) + Len(Left) = rd
        /\ \A i \in 1 .. Len(got) : got[i] = i
        /\ \A i \in 1 .. Len(down) : down[i] = Len(got) + i
        /\ \A i \in 1 .. Len(Left) : Left[i] = Len(got) + Len(down) + i
    BY <1>3 DEF IInv, HeardInOrder, Stretches
  <2> DEFINE both == got \o down
             all == both \o Left
  <2>2. /\ both \in Seq(1 .. MaxTyped) /\ Len(both) = Len(got) + Len(down)
        /\ \A i \in 1 .. Len(got) : both[i] = got[i]
        /\ \A i \in Len(got) + 1 .. Len(got) + Len(down) : both[i] = down[i - Len(got)]
    BY <1>1, Joined
  <2> HIDE DEF both
  <2>3. /\ all \in Seq(1 .. MaxTyped) /\ Len(all) = Len(both) + Len(Left)
        /\ \A i \in 1 .. Len(both) : all[i] = both[i]
        /\ \A i \in Len(both) + 1 .. Len(both) + Len(Left) : all[i] = Left[i - Len(both)]
    <3>1. both \in Seq(1 .. MaxTyped) /\ Left \in Seq(1 .. MaxTyped)
      BY <1>1, <2>2
    <3>2. QED
      BY <3>1, Joined
  <2> HIDE DEF all
  <2>4. Len(all) = rd /\ Len(both) \in Nat
    BY <1>1, <2>1, <2>2, <2>3
  <2>5. ASSUME NEW i \in 1 .. rd PROVE all[i] = i
    <3>1. CASE i <= Len(got)
      <4>1. i \in 1 .. Len(got) /\ i \in 1 .. Len(both)
        BY <3>1, <1>1, <2>2
      <4>2. all[i] = both[i] /\ both[i] = got[i] /\ got[i] = i
        BY <4>1, <2>1, <2>2, <2>3
      <4>3. QED
        BY <4>2
    <3>2. CASE i > Len(got) /\ i <= Len(both)
      <4>1. /\ i \in 1 .. Len(both) /\ i \in Len(got) + 1 .. Len(got) + Len(down)
            /\ i - Len(got) \in 1 .. Len(down)
        BY <3>2, <1>1, <2>2
      <4>2. all[i] = both[i] /\ both[i] = down[i - Len(got)] /\ down[i - Len(got)] = Len(got) + (i - Len(got))
        BY <4>1, <2>1, <2>2, <2>3
      <4>3. QED
        BY <4>2, <1>1
    <3>3. CASE i > Len(both)
      <4>1. /\ i \in Len(both) + 1 .. Len(both) + Len(Left)
            /\ i - Len(both) \in 1 .. Len(Left)
        BY <3>3, <1>1, <2>1, <2>2, <2>4
      <4>2. all[i] = Left[i - Len(both)] /\ Left[i - Len(both)] = Len(got) + Len(down) + (i - Len(both))
        BY <4>1, <2>1, <2>3
      <4>3. QED
        BY <4>2, <1>1, <2>2
    <3>4. QED
      BY <3>1, <3>2, <3>3, <1>1, <2>4
  <2>6. /\ Bytes(0, rd) \in Seq(Nat) /\ Len(Bytes(0, rd)) = rd
        /\ \A i \in 1 .. rd : Bytes(0, rd)[i] = i
    BY <1>1, FirstBytes
  <2>7. all = Bytes(0, rd)
    <3>1. all \in Seq(Nat)
      BY <2>3, 1 .. MaxTyped \subseteq Nat, Wider
    <3>2. QED
      BY <3>1, <2>4, <2>5, <2>6, SeqEqual
  <2>8. QED
    BY <2>7 DEF all, both
<1>4. QED
  BY <1>2, <1>3, FlattenLeft DEF EchoInOrder

(* Every field has its type, and an open session waits for one operation:  *)
(* it reads, or writes what it has read.                                   *)
THEOREM TypeCorrect == Spec => []TypeOK
<1>1. IInv => TypeOK
  BY DEF IInv
<1>2. QED
  BY <1>1, Inductive, PTL

(* What was heard, what is under way and what is being written are what    *)
(* was typed, in order, for any sizes of buffer and window.                *)
THEOREM EchoInOrderHolds == Spec => []EchoInOrder
<1>1. IInv => EchoInOrder
  BY OrderFromStretches
<1>2. QED
  BY <1>1, Inductive, PTL

(* mpt_raw_client fails only if the one read of the session has cut its    *)
(* line.                                                                   *)
THEOREM OnlyCutLinesFailHolds == Spec => []OnlyCutLinesFail
<1>1. IInv => OnlyCutLinesFail
  BY DEF IInv, CutLine, OnlyCutLinesFail
<1>2. QED
  BY <1>1, Inductive, PTL

-----------------------------------------------------------------------------
(* The refinement: what the client types is said, what it reads is heard.  *)
LEMMA TypeSays ==
  ASSUME IInv, Type
  PROVE  Echo!Say
<1>1. PICK n \in 0 .. MaxTyped - typed : typed' = typed + n
  BY DEF Type
<1>2. typed \in Nat /\ typed' \in Nat /\ typed <= typed'
  BY <1>1, EchoAssumption DEF IInv, TypeOK
<1>3. phase' \in {"reading", "leaving", "typing"} /\ phase = "typing" /\ got' = got
  BY DEF Type, IInv, TypeOK
<1>4. IsPrefix(Bytes(0, typed), Bytes(0, typed'))
  <2>1. /\ Bytes(0, typed) \in Seq(Nat) /\ Len(Bytes(0, typed)) = typed
        /\ \A i \in 1 .. typed : Bytes(0, typed)[i] = i
    BY <1>2, FirstBytes
  <2>2. /\ Bytes(0, typed') \in Seq(Nat) /\ Len(Bytes(0, typed')) = typed'
        /\ \A i \in 1 .. typed' : Bytes(0, typed')[i] = i
    BY <1>2, FirstBytes
  <2>3. \A i \in 1 .. typed : i \in 1 .. typed'
    BY <1>2
  <2>4. QED
    BY <2>1, <2>2, <2>3, <1>2, PrefixByElements
<1>5. Echo!IsPrefix(Bytes(0, typed), Bytes(0, typed'))
  BY <1>4 DEF IsPrefix, Echo!IsPrefix
<1>6. Bytes(0, typed)' = Bytes(0, typed')
  BY DEF Bytes
<1>7. ~Gone /\ Gone' = Gone
  BY <1>3 DEF Gone
<1>8. QED
  BY <1>3, <1>5, <1>6, <1>7 DEF Echo!Say

LEMMA ReadHears ==
  ASSUME IInv, Read
  PROVE  Echo!Hear
<1>1. /\ UNCHANGED <<phase, typed, rd>>
      /\ phase = "reading" \/ (client = "user" /\ ~Gone)
  BY DEF Read, sessionVars
<1>2. ~Gone /\ Gone' = Gone /\ Bytes(0, typed)' = Bytes(0, typed)
  BY <1>1 DEF Gone, Bytes
<1>3. IInv'
  BY ReadStep
<1>4. PICK n \in 1 .. Len(down) : got' = got \o SubSeq(down, 1, n)
  BY DEF Read
<1>5. /\ got \in Seq(1 .. MaxTyped) /\ got' \in Seq(1 .. MaxTyped) /\ down \in Seq(1 .. MaxTyped)
      /\ down' \in Seq(1 .. MaxTyped) /\ Left' \in Seq(1 .. MaxTyped)
  <2>1. (Left \in Seq(1 .. MaxTyped))'
    <3>1. CASE writes' = <<>>
      BY <3>1, EmptySeq DEF Left
    <3>2. CASE writes' # <<>>
      BY <3>2, <1>3, HeadTailProperties DEF Left, IInv, Pieces
    <3>3. QED
      BY <3>1, <3>2
  <2>2. QED
    BY <1>3, <2>1 DEF IInv, TypeOK
<1>6. IsPrefix(got, got')
  <2>1. SubSeq(down, 1, n) \in Seq(1 .. MaxTyped) /\ Len(SubSeq(down, 1, n)) = n
    BY <1>5, Cut
  <2> DEFINE front == SubSeq(down, 1, n)
  <2> HIDE DEF front
  <2>2. front \in Seq(1 .. MaxTyped) /\ Len(front) \in Nat
    BY <2>1 DEF front
  <2>3. /\ got \o front \in Seq(1 .. MaxTyped) /\ Len(got \o front) = Len(got) + Len(front)
        /\ \A i \in 1 .. Len(got) : (got \o front)[i] = got[i]
    BY <1>5, <2>2, Joined
  <2>4. Len(got) \in Nat /\ got' = got \o front
    BY <1>4, <1>5, LenProperties DEF front
  <2>5. Len(got) <= Len(got')
    <3>1. Len(got') = Len(got) + Len(front)
      BY <2>3, <2>4
    <3>2. QED
      BY <2>2, <2>4, <3>1
  <2>6. \A i \in 1 .. Len(got) : got[i] = got'[i]
    BY <2>3, <2>4
  <2>7. got \in Seq(1 .. MaxTyped) /\ got' \in Seq(1 .. MaxTyped)
    BY <1>5
  <2>8. QED
    BY <2>5, <2>6, <2>7, PrefixByElements
<1>7. IsPrefix(got', Bytes(0, typed))
  <2>1. Len(got') \in Nat /\ Len(down') \in Nat /\ Len(Left') \in Nat
    BY <1>5, LenProperties
  <2>2. Len(got') + Len(down') + Len(Left') = rd'
    BY <1>2, <1>3 DEF IInv, Stretches
  <2>3. rd' \in 0 .. typed /\ typed \in Nat
    BY <1>1, EchoAssumption DEF IInv, TypeOK
  <2>4. Len(got') <= typed
    BY <2>1, <2>2, <2>3
  <2>5. \A i \in 1 .. Len(got') : got'[i] = i
    BY <1>3 DEF IInv, HeardInOrder
  <2>6. /\ Bytes(0, typed) \in Seq(Nat) /\ Len(Bytes(0, typed)) = typed
        /\ \A i \in 1 .. typed : Bytes(0, typed)[i] = i
    BY <2>3, FirstBytes
  <2>7. got' \in Seq(Nat)
    BY <1>5, 1 .. MaxTyped \subseteq Nat, Wider
  <2>8. \A i \in 1 .. Len(got') : i \in 1 .. typed
    BY <2>1, <2>3, <2>4
  <2>9. QED
    BY <2>4, <2>5, <2>6, <2>7, <2>8, PrefixByElements
<1>8. Gone' \in BOOLEAN
  BY DEF Gone
<1>9. QED
  BY <1>2, <1>6, <1>7, <1>8 DEF Echo!Hear, IsPrefix, Echo!IsPrefix

(* The session and its client do nothing that an echo may not do.          *)
THEOREM Implementation == Spec => ImplementsEcho
<1>1. Init => Echo!Init
  <2> SUFFICES ASSUME Init PROVE Echo!Init
    OBVIOUS
  <2>1. Bytes(0, 0) \in Seq(Nat) /\ Len(Bytes(0, 0)) = 0
    BY FirstBytes
  <2>2. Bytes(0, typed) = <<>>
    BY <2>1, EmptySeq DEF Init
  <2>3. QED
    BY <2>2 DEF Init, Echo!Init, Gone
<1>2. IInv /\ [Next]_vars => [Echo!Next]_(Echo!echoVars)
  <2> SUFFICES ASSUME IInv, [Next]_vars PROVE [Echo!Next]_(Echo!echoVars)
    OBVIOUS
  <2>1. CASE Type
    BY <2>1, TypeSays DEF Echo!Next
  <2>2. CASE Read
    BY <2>2, ReadHears DEF Echo!Next
  <2>3. CASE Ends \/ ReplyIsShort
    <3>1. Gone' /\ typed' = typed /\ got' = got
      BY <2>3 DEF Ends, ReplyIsShort, Gone
    <3>2. Bytes(0, typed)' = Bytes(0, typed) /\ Gone' = TRUE
      BY <3>1 DEF Bytes, Gone
    <3>3. QED
      BY <3>1, <3>2 DEF Echo!Next, Echo!End
  <2>4. CASE Session \/ UNCHANGED vars
    <3>1. typed' = typed /\ got' = got /\ phase' = phase
      BY <2>4 DEF Session, on_async_read_string, ReadFails, WriteSome, WriteFails, clientVars, vars
    <3>2. QED
      BY <3>1 DEF Echo!echoVars, Bytes, Gone
  <2>5. QED
    BY <2>1, <2>2, <2>3, <2>4 DEF Next
<1>3. QED
  BY <1>1, <1>2, Inductive, PTL DEF Spec, ImplementsEcho, Echo!Spec
=============================================================================
