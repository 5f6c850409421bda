------------------------- MODULE LogBroadcast_proofs -------------------------
(***************************************************************************)
(* No line goes to a log session behind its shutdown, and the sessions     *)
(* that fail make no storm, for any sessions and any number of lines, with *)
(* traces or without.                                                      *)
(***************************************************************************)
EXTENDS LogBroadcast, Induction

(***************************************************************************)
(* The inductive invariant: a session leaves the set in the step that      *)
(* closes its socket, and all lines are posted to members of the set.  Who *)
(* was never a member has nothing to write.                                *)
(*                                                                         *)
(* L is a bound on the lines that any member was sent so far.  Foreseen    *)
(* adds what is still to come without another failure: the lines of the    *)
(* rest of the server, and the errors of the writes that sessions which    *)
(* have failed had left, two each and two more in the destructor.  A       *)
(* failure at most triples it.                                             *)
(***************************************************************************)
MembersAreOpen == set \subseteq open

Failed == gone \ open
weight == [s \in Session |-> IF s \in Failed /\ Load(s) > 0 THEN 2 * Load(s) + 2 ELSE 0]
Pending(w) == UNION {{s} \X (1 .. w[s]) : s \in Session}
Foreseen(L, w, n) == L + Cardinality(Pending(w)) + (MaxLines - n) + 6

Calm == \E L \in Nat :
          /\ \A s \in set : Load(s) <= L
          /\ Foreseen(L, weight, lines) <= Bound[Cardinality(Failed)]
Quiet == \A s \in Session \ (open \cup gone) : Load(s) = 0
Working == ~ended => set = open /\ Calm /\ Quiet

Members == TypeOK /\ MembersAreOpen
IInv == Members /\ Working /\ NoStorm

-----------------------------------------------------------------------------
(* Nobody loses a post by a broadcast, and who is not addressed gets none. *)
LEMMA BroadcastProperties ==
  ASSUME NEW p \in [Session -> Nat], NEW n \in Nat, NEW to
  PROVE  /\ broadcast(p, n, to) \in [Session -> Nat]
         /\ \A s \in Session : s \notin to => broadcast(p, n, to)[s] = p[s]
BY DEF broadcast

LEMMA TraceType == Trace \in Nat /\ 1 + Trace \in Nat
BY DEF Trace

LEMMA ReleasedProperties ==
  ASSUME NEW p \in [Session -> Nat], NEW r, NEW to
  PROVE  /\ Released(r, p, to) \in [Session -> Nat]
         /\ \A s \in Session : s \notin to => Released(r, p, to)[s] = p[s]
BY BroadcastProperties, TraceType DEF Released

(* The two ways in which a write fails: what they post.                    *)
LEMMA FailurePosts ==
  ASSUME Members, NEW r \in Session, WriteFailsOpen(r) \/ WriteFailsClosed(r)
  PROVE  /\ posted' \in [Session -> Nat]
         /\ \A s \in Session \ open : posted'[s] = posted[s]
<1>1. posted \in [Session -> Nat] /\ set \subseteq open
  BY DEF Members, TypeOK, MembersAreOpen
<1>2. CASE WriteFailsOpen(r)
  <2>1. PICK n \in 1 .. 2 :
          posted' = Released(r, broadcast(posted, 1 + Trace + n, set), set \ {r})
    BY <1>2 DEF WriteFailsOpen
  <2>2. 1 + Trace + n \in Nat
    BY TraceType
  <2>3. /\ broadcast(posted, 1 + Trace + n, set) \in [Session -> Nat]
        /\ \A s \in Session : s \notin set => broadcast(posted, 1 + Trace + n, set)[s] = posted[s]
    BY <1>1, <2>2, BroadcastProperties
  <2> DEFINE p == broadcast(posted, 1 + Trace + n, set)
  <2> HIDE DEF p
  <2>4. /\ Released(r, p, set \ {r}) \in [Session -> Nat]
        /\ \A s \in Session : s \notin set \ {r} => Released(r, p, set \ {r})[s] = p[s]
    BY <2>3, ReleasedProperties DEF p
  <2>5. QED
    BY <1>1, <2>1, <2>3, <2>4 DEF p
<1>3. CASE WriteFailsClosed(r)
  <2>1. posted' = Released(r, broadcast(posted, 1 + Trace, set), set)
    BY <1>3 DEF WriteFailsClosed
  <2>2. /\ broadcast(posted, 1 + Trace, set) \in [Session -> Nat]
        /\ \A s \in Session : s \notin set => broadcast(posted, 1 + Trace, set)[s] = posted[s]
    BY <1>1, TraceType, BroadcastProperties
  <2> DEFINE p == broadcast(posted, 1 + Trace, set)
  <2> HIDE DEF p
  <2>3. /\ Released(r, p, set) \in [Session -> Nat]
        /\ \A s \in Session : s \notin set => Released(r, p, set)[s] = p[s]
    BY <2>2, ReleasedProperties DEF p
  <2>4. QED
    BY <1>1, <2>1, <2>2, <2>3 DEF p
<1>4. QED
  BY <1>2, <1>3

-----------------------------------------------------------------------------
LEMMA InitMembers == Init => Members
<1> SUFFICES ASSUME Init PROVE Members
  OBVIOUS
<1>1. lines \in 0 .. MaxLines
  BY LogAssumption DEF Init
<1>2. posted \in [Session -> Nat] /\ writing \in [Session -> Nat]
  BY DEF Init
<1>3. QED
  BY <1>1, <1>2 DEF Init, Members, TypeOK, MembersAreOpen

LEMMA StepOfWrite ==
  ASSUME Members, NEW r \in Session, on_write_quiet(r)
  PROVE  Members'
<1>1. /\ UNCHANGED <<gone, lines, ended, empty>>
      /\ writing[r] > 0 /\ writing' = [writing EXCEPT ![r] = @ - 1]
      /\ WriteSucceeds(r) \/ WriteFailsOpen(r) \/ WriteFailsClosed(r)
  BY DEF on_write_quiet
<1>2. posted' \in [Session -> Nat]
  BY <1>1, FailurePosts DEF WriteSucceeds, Members, TypeOK
<1>3. writing' \in [Session -> Nat]
  BY <1>1 DEF Members, TypeOK
<1>4. set' \subseteq open' /\ open' \subseteq open
  BY <1>1 DEF WriteSucceeds, WriteFailsOpen, WriteFailsClosed, Members, MembersAreOpen
<1>5. QED
  BY <1>1, <1>2, <1>3, <1>4 DEF Members, TypeOK, MembersAreOpen

LEMMA StepMembers == Members /\ [Next]_vars => Members'
<1> SUFFICES ASSUME Members, [Next]_vars PROVE Members'
  OBVIOUS
<1>1. CASE track
  <2>1. posted' \in [Session -> Nat] /\ lines' \in 0 .. MaxLines
    BY <1>1, BroadcastProperties, LogAssumption DEF track, Members, TypeOK
  <2>2. QED
    BY <1>1, <2>1 DEF track, Members, TypeOK, MembersAreOpen
<1>2. CASE server_destructor
  BY <1>2 DEF server_destructor, Members, TypeOK, MembersAreOpen
<1>3. ASSUME NEW s \in Session, on_connect(s) \/ ClientGoes(s) PROVE Members'
  BY <1>3 DEF on_connect, ClientGoes, Members, TypeOK, MembersAreOpen
<1>4. ASSUME NEW s \in Session, send(s) PROVE Members'
  <2>1. posted' \in [Session -> Nat] /\ writing' \in [Session -> Nat]
    BY <1>4 DEF send, Members, TypeOK
  <2>2. QED
    BY <1>4, <2>1 DEF send, Members, TypeOK, MembersAreOpen
<1>5. ASSUME NEW s \in Session, on_write_quiet(s) PROVE Members'
  BY <1>5, StepOfWrite
<1>6. CASE UNCHANGED vars
  BY <1>6 DEF vars, Members, TypeOK, MembersAreOpen
<1>7. QED
  BY <1>1, <1>2, <1>3, <1>4, <1>5, <1>6 DEF Next

-----------------------------------------------------------------------------
(* Counting what is to come.                                               *)

LEMMA BoundProperties ==
  /\ Bound \in [Nat -> Nat] /\ Bound[0] = MaxLines + 6
  /\ \A n \in Nat : Bound[n + 1] = 3 * Bound[n]
  /\ \A m, n \in Nat : m <= n => Bound[m] <= Bound[n]
<1>1. Bound \in [Nat -> Nat] /\ Bound[0] = MaxLines + 6 /\ \A n \in Nat : Bound[n + 1] = 3 * Bound[n]
  <2>1. MaxLines + 6 \in Nat /\ 3 \in Nat
    BY LogAssumption
  <2>2. Bound = CHOOSE f : Multiplies(f, 3, MaxLines + 6)
    BY DEF Bound, Multiplies
  <2>3. Multiplies(Bound, 3, MaxLines + 6)
    BY <2>1, <2>2, Multiplied
  <2>4. QED
    BY <2>1, <2>3, MultipliedProperties
<1>2. ASSUME NEW m \in Nat, NEW n \in Nat, m <= n PROVE Bound[m] <= Bound[n]
  <2> DEFINE T == {k \in 0 .. n - m : Bound[m] <= Bound[m + k]}
  <2>1. 0 \in T
    BY <1>1, <1>2
  <2>2. ASSUME NEW k \in 0 .. (n - m) - 1, k \in T PROVE k + 1 \in T
    <3>1. Bound[m + k] \in Nat /\ Bound[m] \in Nat /\ Bound[(m + k) + 1] = 3 * Bound[m + k]
      BY <1>1
    <3>2. (m + k) + 1 = m + (k + 1)
      OBVIOUS
    <3>3. QED
      BY <1>2, <2>2, <3>1, <3>2
  <2> HIDE DEF T
  <2>3. \A k \in 0 .. n - m : k \in T
    BY <2>1, <2>2, Upwards
  <2>4. n - m \in 0 .. n - m /\ m + (n - m) = n
    BY <1>2
  <2>5. QED
    BY <2>3, <2>4 DEF T
<1>3. QED
  BY <1>1, <1>2

(* One session's part of the lines to come.                                *)
LEMMA PendingParts ==
  ASSUME NEW w \in [Session -> Nat], NEW r \in Session
  PROVE  LET rest == UNION {{s} \X (1 .. w[s]) : s \in Session \ {r}}
         IN  /\ IsFiniteSet(Pending(w)) /\ Cardinality(Pending(w)) \in Nat
             /\ Cardinality(rest) \in Nat
             /\ Cardinality(Pending(w)) = Cardinality(rest) + w[r]
<1> DEFINE part(s) == {s} \X (1 .. w[s])
           rest == UNION {part(s) : s \in Session \ {r}}
<1>1. ASSUME NEW s \in Session PROVE IsFiniteSet(part(s)) /\ Cardinality(part(s)) = w[s]
  <2>1. IsFiniteSet(1 .. w[s]) /\ Cardinality(1 .. w[s]) = w[s]
    BY FS_Interval
  <2>2. IsFiniteSet({s}) /\ Cardinality({s}) = 1
    BY FS_Singleton
  <2>3. IsFiniteSet(part(s)) /\ Cardinality(part(s)) = 1 * w[s]
    BY <2>1, <2>2, FS_Product
  <2>4. QED
    BY <2>3
<1>2. IsFiniteSet(rest) /\ Cardinality(rest) \in Nat
  <2>1. IsFiniteSet(Session \ {r})
    BY LogAssumption, FS_Difference
  <2>2. IsFiniteSet({part(s) : s \in Session \ {r}})
    <3> DEFINE f == [s \in Session \ {r} |-> part(s)]
    <3>1. f \in Surjection(Session \ {r}, {part(s) : s \in Session \ {r}})
      BY DEF Surjection
    <3>2. QED
      BY <2>1, <3>1, FS_Surjection
  <2>3. \A T \in {part(s) : s \in Session \ {r}} : IsFiniteSet(T)
    BY <1>1
  <2> HIDE DEF part
  <2>4. IsFiniteSet(rest)
    BY <2>2, <2>3, FS_UNION
  <2>5. QED
    BY <2>4, FS_CardinalityType
<1>3. Pending(w) = rest \cup part(r) /\ rest \cap part(r) = {}
  BY DEF Pending
<1>4. QED
  <2> HIDE DEF part, rest
  <2>1. IsFiniteSet(part(r)) /\ Cardinality(part(r)) = w[r]
    BY <1>1
  <2>2. /\ IsFiniteSet(rest \cup part(r))
        /\ Cardinality(rest \cup part(r)) = Cardinality(rest) + Cardinality(part(r)) - Cardinality({})
    BY <1>2, <1>3, <2>1, FS_Union
  <2>3. QED
    BY <1>2, <1>3, <2>1, <2>2, FS_EmptySet DEF rest, part

LEMMA PendingType ==
  ASSUME NEW w \in [Session -> Nat]
  PROVE  Cardinality(Pending(w)) \in Nat
<1>1. CASE Session = {}
  <2>1. Pending(w) = {}
    BY <1>1 DEF Pending
  <2>2. QED
    BY <2>1, FS_EmptySet
<1>2. CASE Session # {}
  <2>1. PICK r : r \in Session
    BY <1>2
  <2>2. QED
    BY <2>1, PendingParts
<1>3. QED
  BY <1>1, <1>2

LEMMA WeightType == TypeOK => weight \in [Session -> Nat]
BY DEF TypeOK, Load, weight

LEMMA FailedCount ==
  ASSUME NEW F \in SUBSET Session
  PROVE  /\ IsFiniteSet(F) /\ Cardinality(F) \in Nat
         /\ \A s \in Session \ F :
              Cardinality(F) <= Cardinality(Session) - 1 /\ Cardinality(Session) - 1 \in Nat
<1>1. /\ IsFiniteSet(F) /\ Cardinality(F) \in Nat
      /\ Cardinality(Session) \in Nat /\ Cardinality(F) <= Cardinality(Session)
      /\ Cardinality(F) = Cardinality(Session) => F = Session
  BY LogAssumption, FS_Subset, FS_CardinalityType
<1>2. ASSUME NEW s \in Session \ F
      PROVE  Cardinality(F) <= Cardinality(Session) - 1 /\ Cardinality(Session) - 1 \in Nat
  BY <1>1
<1>3. QED
  BY <1>1, <1>2

(* Who has not failed has less to write than is allowed, by more than the  *)
(* lines that it gets when it fails.                                       *)
LEMMA MembersHaveRoom ==
  ASSUME NEW F \in SUBSET Session, NEW w \in [Session -> Nat], NEW n \in 0 .. MaxLines,
         NEW L \in Nat, Foreseen(L, w, n) <= Bound[Cardinality(F)], NEW s \in Session \ F
  PROVE  L + 6 <= Bound[Cardinality(Session) - 1]
<1>1. Cardinality(Pending(w)) \in Nat
  BY PendingParts
<1>2. MaxLines - n \in Nat
  BY LogAssumption
<1>3. /\ Cardinality(F) \in Nat /\ Cardinality(Session) - 1 \in Nat
      /\ Cardinality(F) <= Cardinality(Session) - 1
  BY FailedCount
<1>4. /\ Bound[Cardinality(F)] \in Nat /\ Bound[Cardinality(Session) - 1] \in Nat
      /\ Bound[Cardinality(F)] <= Bound[Cardinality(Session) - 1]
  BY <1>3, BoundProperties
<1>5. QED
  BY <1>1, <1>2, <1>4 DEF Foreseen

(* What a step leaves alone.                                               *)
LEMMA SameWeight ==
  ASSUME Failed' = Failed, \A s \in Failed : Load(s)' = Load(s), TypeOK
  PROVE  weight' = weight
BY DEF weight, TypeOK

(* A step after which the sessions are calm again keeps the bound, when    *)
(* nobody gets lines but members and, within the bound, who fails.         *)
LEMMA CalmIsEnough ==
  ASSUME IInv, TypeOK', MembersAreOpen', Calm',
         \A s \in Session : \/ s \in set'
                           \/ Load(s)' <= Load(s)
                           \/ Load(s)' <= Bound[Cardinality(Session) - 1]
  PROVE  NoStorm'
<1> SUFFICES ASSUME NEW s \in Session PROVE Load(s)' <= Bound[Cardinality(Session) - 1]
  BY DEF NoStorm
<1>1. CASE Load(s)' <= Load(s)
  <2>1. Load(s) <= Bound[Cardinality(Session) - 1]
    BY DEF IInv, NoStorm
  <2>2. Load(s) \in Nat /\ Load(s)' \in Nat
    BY DEF IInv, Members, TypeOK, Load
  <2>3. s \in Session => Cardinality(Session) - 1 \in Nat
    BY LogAssumption, FS_CardinalityType, FS_EmptySet
  <2>4. Bound[Cardinality(Session) - 1] \in Nat
    BY <2>3, BoundProperties
  <2>5. QED
    BY <1>1, <2>1, <2>2, <2>4
<1>2. CASE s \in set'
  <2>1. PICK L \in Nat : /\ \A r \in set' : Load(r)' <= L
                         /\ Foreseen(L, weight', lines') <= Bound[Cardinality(Failed')]
    BY DEF Calm
  <2>2. s \in Session \ Failed' /\ Failed' \in SUBSET Session
    BY <1>2 DEF Failed, MembersAreOpen, TypeOK
  <2>3. weight' \in [Session -> Nat] /\ lines' \in 0 .. MaxLines
    BY DEF TypeOK, Load, weight
  <2>4. L + 6 <= Bound[Cardinality(Session) - 1]
    BY <2>1, <2>2, <2>3, MembersHaveRoom
  <2>5. Load(s)' \in Nat /\ Cardinality(Session) - 1 \in Nat
    <3>1. Load(s)' \in Nat
      BY DEF TypeOK, Load
    <3>2. Cardinality(Session) - 1 \in Nat
      BY <2>2, FailedCount
    <3>3. QED
      BY <3>1, <3>2
  <2>6. Load(s)' <= L /\ Bound[Cardinality(Session) - 1] \in Nat
    BY <1>2, <2>1, <2>5, BoundProperties
  <2>7. QED
    BY <2>4, <2>5, <2>6
<1>3. QED
  BY <1>1, <1>2

(* A step after which the same sessions have failed, with the same left to *)
(* write, and everybody else at most one line more that was foreseen.      *)
LEMMA StaysCalm ==
  ASSUME IInv, ~ended, Failed' = Failed, \A s \in Failed : Load(s)' = Load(s),
         NEW n \in 0 .. 1, lines' = lines + n, TypeOK',
         \A s \in set' : IF s \in set THEN Load(s)' <= Load(s) + n ELSE Load(s)' = 0
  PROVE  Calm'
<1>1. PICK L \in Nat : /\ \A s \in set : Load(s) <= L
                       /\ Foreseen(L, weight, lines) <= Bound[Cardinality(Failed)]
  BY DEF IInv, Working, Calm
<1>2. weight' = weight
  BY SameWeight DEF IInv, Members
<1>3. Cardinality(Pending(weight)) \in Nat /\ MaxLines \in Nat /\ lines \in Nat
  BY WeightType, PendingType, LogAssumption DEF IInv, Members, TypeOK
<1>4. Foreseen(L + n, weight', lines') = Foreseen(L, weight, lines)
  BY <1>2, <1>3 DEF Foreseen
<1>5. ASSUME NEW s \in set' PROVE Load(s)' <= L + n
  <2>1. s \in Session /\ Load(s) \in Nat /\ Load(s)' \in Nat
    BY DEF IInv, Members, TypeOK, Load
  <2>2. s \in set => Load(s) <= L
    BY <1>1
  <2>3. QED
    BY <2>1, <2>2
<1>6. L + n \in Nat
  OBVIOUS
<1>7. QED
  BY <1>1, <1>4, <1>5, <1>6 DEF Calm

-----------------------------------------------------------------------------
(* The steps of sessions that fail.                                        *)

(* What is to come when only one session's part of it changes.             *)
LEMMA OnePart ==
  ASSUME NEW w \in [Session -> Nat], NEW v \in [Session -> Nat], NEW r \in Session,
         \A s \in Session \ {r} : v[s] = w[s]
  PROVE  Cardinality(Pending(v)) + w[r] = Cardinality(Pending(w)) + v[r]
<1> DEFINE rest(x) == UNION {{s} \X (1 .. x[s]) : s \in Session \ {r}}
<1>1. rest(v) = rest(w)
  OBVIOUS
<1>2. /\ Cardinality(Pending(w)) = Cardinality(rest(w)) + w[r]
      /\ Cardinality(Pending(v)) = Cardinality(rest(v)) + v[r]
      /\ Cardinality(rest(w)) \in Nat
  BY PendingParts
<1> HIDE DEF rest
<1>3. QED
  BY <1>1, <1>2

(* A member fails: it gets up to four lines itself, and writes one less.   *)
LEMMA FailsOpen ==
  ASSUME IInv, ~ended, NEW r \in Session, WriteFailsOpen(r), TypeOK', MembersAreOpen',
         writing[r] > 0, writing' = [writing EXCEPT ![r] = @ - 1], UNCHANGED <<gone, lines, ended>>
  PROVE  set' = open' /\ Calm' /\ Quiet' /\ NoStorm'
<1>1. /\ posted \in [Session -> Nat] /\ writing \in [Session -> Nat] /\ set \subseteq Session
      /\ lines \in 0 .. MaxLines /\ set = open /\ Quiet /\ TypeOK /\ MembersAreOpen
  BY DEF IInv, Members, TypeOK, Working
<1>2. r \in set /\ r \in gone /\ open' = open \ {r} /\ set' = set \ {r}
  BY <1>1 DEF WriteFailsOpen
<1>3. PICK n \in 1 .. 2 :
        posted' = Released(r, broadcast(posted, 1 + Trace + n, set), set \ {r})
  BY DEF WriteFailsOpen
<1> DEFINE m == 1 + Trace + n
<1>4. m \in 1 .. 4
  BY DEF Trace
<1>5. posted' = broadcast(posted, m, set)
  <2>1. broadcast(posted, m, set)[r] = posted[r] + m
    BY <1>1, <1>2 DEF broadcast
  <2> HIDE DEF m
  <2>2. posted[r] + m # 0
    BY <1>1, <1>4
  <2>3. ~ Destroyed(r, broadcast(posted, m, set), set \ {r})
    BY <2>1, <2>2 DEF Destroyed
  <2>4. QED
    BY <1>3, <2>3 DEF Released, m
<1> HIDE DEF m
<1>6. \A s \in Session : posted'[s] = IF s \in set THEN posted[s] + m ELSE posted[s]
  BY <1>5 DEF broadcast
<1>7. /\ \A s \in set \ {r} : Load(s)' = Load(s) + m
      /\ \A s \in Session \ set : Load(s)' = Load(s)
      /\ Load(r)' = Load(r) + m - 1
      /\ \A s \in Session : Load(s) \in Nat
  BY <1>1, <1>2, <1>4, <1>6 DEF Load
<1>8. Failed' = Failed \cup {r} /\ r \notin Failed /\ Failed \in SUBSET Session
  BY <1>1, <1>2 DEF Failed, TypeOK
<1>9. PICK L \in Nat : /\ \A s \in set : Load(s) <= L
                       /\ Foreseen(L, weight, lines) <= Bound[Cardinality(Failed)]
  BY DEF IInv, Working, Calm
<1>10. /\ Cardinality(Failed) \in Nat
       /\ Cardinality(Failed') = Cardinality(Failed) + 1
  BY <1>8, FailedCount, FS_AddElement
<1>11. /\ Bound[Cardinality(Failed')] = 3 * Bound[Cardinality(Failed)]
       /\ Bound[Cardinality(Failed)] \in Nat
  BY <1>10, BoundProperties
<1>12. weight \in [Session -> Nat] /\ weight' \in [Session -> Nat]
  BY <1>1, WeightType DEF TypeOK, weight, Load
<1>13. \A s \in Session \ {r} : weight'[s] = weight[s]
  <2> SUFFICES ASSUME NEW s \in Session \ {r} PROVE weight'[s] = weight[s]
    OBVIOUS
  <2>1. s \in Failed' <=> s \in Failed
    BY <1>8
  <2>2. s \in Failed => s \notin set
    BY <1>1 DEF Failed
  <2>3. QED
    BY <1>7, <2>1, <2>2 DEF weight
<1>14. weight[r] = 0 /\ weight'[r] <= 2 * (Load(r) + 3) + 2
  <2>1. Load(r)' \in Nat /\ Load(r)' <= Load(r) + 3
    BY <1>4, <1>7, <1>1, <1>2
  <2>2. weight[r] = 0
    BY <1>8 DEF weight
  <2>3. weight'[r] = IF Load(r)' > 0 THEN 2 * Load(r)' + 2 ELSE 0
    BY <1>8 DEF weight
  <2>4. QED
    BY <1>7, <2>1, <2>2, <2>3
<1>15. Foreseen(L + 4, weight', lines') <= Bound[Cardinality(Failed')]
  <2>1. Cardinality(Pending(weight')) + weight[r] = Cardinality(Pending(weight)) + weight'[r]
    BY <1>12, <1>13, OnePart
  <2>2. Cardinality(Pending(weight)) \in Nat /\ Cardinality(Pending(weight')) \in Nat
    BY <1>12, PendingType
  <2>3. weight'[r] \in Nat /\ Load(r) <= L /\ Load(r) \in Nat
    BY <1>2, <1>7, <1>9, <1>12
  <2>4. MaxLines - lines \in Nat /\ lines' = lines
    BY <1>1, LogAssumption
  <2>5. Cardinality(Pending(weight')) <= Cardinality(Pending(weight)) + 2 * L + 8
    BY <1>14, <2>1, <2>2, <2>3
  <2>6. QED
    BY <1>9, <1>11, <2>2, <2>4, <2>5 DEF Foreseen
<1>16. Calm'
  <2>1. ASSUME NEW s \in set' PROVE Load(s)' <= L + 4
    BY <1>1, <1>2, <1>4, <1>7, <1>9
  <2>2. L + 4 \in Nat
    OBVIOUS
  <2>3. QED
    BY <1>15, <2>1, <2>2 DEF Calm
<1>17. \A s \in Session : \/ s \in set'
                          \/ Load(s)' <= Load(s)
                          \/ Load(s)' <= Bound[Cardinality(Session) - 1]
  <2>1. Load(r)' <= Bound[Cardinality(Session) - 1]
    <3>1. L + 6 <= Bound[Cardinality(Session) - 1]
      BY <1>1, <1>8, <1>9, <1>12, MembersHaveRoom
    <3>2. Bound[Cardinality(Session) - 1] \in Nat
      BY <1>8, FailedCount, BoundProperties
    <3>3. Load(r)' <= L + 3
      BY <1>1, <1>2, <1>4, <1>7, <1>9
    <3>4. Load(r)' \in Nat
      BY DEF TypeOK, Load
    <3>5. QED
      BY <3>1, <3>2, <3>3, <3>4
  <2>2. QED
    BY <1>2, <1>7, <2>1
<1>18. Quiet'
  BY <1>1, <1>2, <1>7 DEF Quiet
<1>19. NoStorm'
  BY <1>16, <1>17, CalmIsEnough
<1>20. QED
  BY <1>1, <1>2, <1>16, <1>18, <1>19

(* The write of a session that has failed before: two lines, and two more  *)
(* if it was the last.                                                     *)
LEMMA FailsClosed ==
  ASSUME IInv, ~ended, NEW r \in Session, WriteFailsClosed(r), TypeOK', MembersAreOpen',
         writing[r] > 0, writing' = [writing EXCEPT ![r] = @ - 1], UNCHANGED <<gone, lines, ended>>
  PROVE  set' = open' /\ Calm' /\ Quiet' /\ NoStorm'
<1>1. /\ posted \in [Session -> Nat] /\ writing \in [Session -> Nat] /\ set \subseteq Session
      /\ lines \in 0 .. MaxLines /\ set = open /\ Quiet /\ TypeOK /\ MembersAreOpen
  BY DEF IInv, Members, TypeOK, Working
<1>2. r \notin set /\ open' = open /\ set' = set /\ Failed' = Failed /\ Load(r) > 0
  BY <1>1 DEF WriteFailsClosed, Failed, Load
<1>3. r \in Failed /\ Failed \in SUBSET Session
  BY <1>1, <1>2 DEF Quiet, Failed, TypeOK
<1> DEFINE last == posted[r] = 0 /\ writing[r] = 1
           m == 1 + Trace
           k == IF last THEN m + m ELSE m
<1>4. m \in 1 .. 2 /\ k \in 1 .. 4
  BY DEF Trace
<1>5. \A s \in Session : posted'[s] = IF s \in set THEN posted[s] + k ELSE posted[s]
  <2> DEFINE p == broadcast(posted, m, set)
  <2>1. p \in [Session -> Nat] /\ \A s \in Session : p[s] = IF s \in set THEN posted[s] + m ELSE posted[s]
    BY <1>1, <1>4 DEF broadcast
  <2>2. posted' = Released(r, p, set)
    BY DEF WriteFailsClosed
  <2> HIDE DEF p
  <2>3. Destroyed(r, p, set) <=> last
    BY <1>2, <2>1 DEF Destroyed
  <2>4. \A s \in Session : broadcast(p, m, set)[s] = IF s \in set THEN p[s] + m ELSE p[s]
    BY DEF broadcast
  <2>5. posted' = IF last THEN broadcast(p, m, set) ELSE p
    BY <2>2, <2>3 DEF Released
  <2> HIDE DEF last, m
  <2>6. CASE last
    BY <1>1, <1>4, <2>1, <2>4, <2>5, <2>6
  <2>7. CASE ~last
    BY <2>1, <2>5, <2>7
  <2>8. QED
    BY <2>6, <2>7
<1> HIDE DEF k, m
<1>6. /\ \A s \in set : Load(s)' = Load(s) + k
      /\ \A s \in Session \ (set \cup {r}) : Load(s)' = Load(s)
      /\ Load(r)' = Load(r) - 1
      /\ \A s \in Session : Load(s) \in Nat
  BY <1>1, <1>2, <1>4, <1>5 DEF Load
<1>7. PICK L \in Nat : /\ \A s \in set : Load(s) <= L
                       /\ Foreseen(L, weight, lines) <= Bound[Cardinality(Failed)]
  BY DEF IInv, Working, Calm
<1>8. weight \in [Session -> Nat] /\ weight' \in [Session -> Nat]
  BY <1>1, WeightType DEF TypeOK, weight, Load
<1>9. \A s \in Session \ {r} : weight'[s] = weight[s]
  <2> SUFFICES ASSUME NEW s \in Session \ {r} PROVE weight'[s] = weight[s]
    OBVIOUS
  <2>1. s \in Failed => s \notin set
    BY <1>1 DEF Failed
  <2>2. QED
    BY <1>2, <1>6, <2>1 DEF weight
<1>10. weight[r] = weight'[r] + (IF last THEN 4 ELSE 2)
  <2>1. weight[r] = 2 * Load(r) + 2
    BY <1>2, <1>3 DEF weight
  <2>2. weight'[r] = IF Load(r)' > 0 THEN 2 * Load(r)' + 2 ELSE 0
    BY <1>2, <1>3 DEF weight
  <2>3. last <=> Load(r) = 1
    BY <1>1 DEF Load
  <2> HIDE DEF last
  <2>4. QED
    BY <1>2, <1>6, <2>1, <2>2, <2>3
<1>11. k <= IF last THEN 4 ELSE 2
  BY <1>4 DEF k
<1> HIDE DEF last
<1>12. Foreseen(L + k, weight', lines') <= Bound[Cardinality(Failed)]
  <2>1. Cardinality(Pending(weight')) + weight[r] = Cardinality(Pending(weight)) + weight'[r]
    BY <1>8, <1>9, OnePart
  <2>2. Cardinality(Pending(weight)) \in Nat /\ Cardinality(Pending(weight')) \in Nat
    BY <1>8, PendingType
  <2>3. weight[r] \in Nat /\ weight'[r] \in Nat
    BY <1>8
  <2>4. MaxLines - lines \in Nat /\ lines' = lines
    BY <1>1, LogAssumption
  <2>5. Cardinality(Pending(weight')) + k <= Cardinality(Pending(weight))
    BY <1>4, <1>10, <1>11, <2>1, <2>2, <2>3
  <2>6. Bound[Cardinality(Failed)] \in Nat
    BY <1>3, FailedCount, BoundProperties
  <2>7. QED
    BY <1>4, <1>7, <2>2, <2>4, <2>5, <2>6 DEF Foreseen
<1>13. Calm'
  <2>1. ASSUME NEW s \in set' PROVE Load(s)' <= L + k
    BY <1>1, <1>2, <1>4, <1>6, <1>7
  <2>2. L + k \in Nat
    BY <1>4
  <2>3. QED
    BY <1>2, <1>12, <2>1, <2>2 DEF Calm
<1>14. \A s \in Session : s \in set' \/ Load(s)' <= Load(s)
  BY <1>2, <1>6
<1>15. Quiet'
  BY <1>1, <1>2, <1>3, <1>6 DEF Quiet, Failed
<1>16. NoStorm'
  BY <1>13, <1>14, CalmIsEnough
<1>17. QED
  BY <1>1, <1>2, <1>13, <1>15, <1>16

-----------------------------------------------------------------------------
LEMMA InitIInv == Init => IInv
<1> SUFFICES ASSUME Init PROVE IInv
  OBVIOUS
<1>1. Members
  BY InitMembers
<1>2. \A s \in Session : Load(s) = 0
  BY DEF Init, Load
<1>3. weight = [s \in Session |-> 0]
  BY DEF Init, weight, Failed
<1>4. Pending(weight) = {}
  BY <1>3 DEF Pending
<1>5. Failed = {} /\ Cardinality({}) = 0
  BY FS_EmptySet DEF Init, Failed
<1>6. Bound[0] = MaxLines + 6
  BY BoundProperties
<1>7. Calm
  <2>1. Foreseen(0, weight, lines) <= Bound[Cardinality(Failed)]
    BY <1>4, <1>5, <1>6, LogAssumption DEF Init, Foreseen
  <2>2. 0 \in Nat /\ \A s \in set : Load(s) <= 0
    BY DEF Init
  <2>3. QED
    BY <2>1, <2>2 DEF Calm
<1>8. NoStorm
  <2> SUFFICES ASSUME NEW s \in Session PROVE Load(s) <= Bound[Cardinality(Session) - 1]
    BY DEF NoStorm
  <2>1. Cardinality(Session) - 1 \in Nat
    BY FailedCount, FS_EmptySet
  <2>2. Bound[Cardinality(Session) - 1] \in Nat
    BY <2>1, BoundProperties
  <2>3. QED
    BY <1>2, <2>2
<1>9. QED
  BY <1>1, <1>2, <1>7, <1>8 DEF IInv, Working, Quiet, Init

LEMMA StepIInv == IInv /\ [Next]_vars => IInv'
<1> SUFFICES ASSUME IInv, [Next]_vars PROVE IInv'
  OBVIOUS
<1>1. Members' /\ TypeOK' /\ MembersAreOpen'
  BY StepMembers DEF IInv, Members
<1>2. /\ posted \in [Session -> Nat] /\ writing \in [Session -> Nat] /\ set \subseteq Session
      /\ lines \in 0 .. MaxLines /\ NoStorm /\ \A s \in Session : Load(s) \in Nat
  BY DEF IInv, Members, TypeOK, Load
<1>3. ~ended => set = open /\ Quiet
  BY DEF IInv, Working
<1> USE DEF IInv
<1>4. CASE track
  <2>1. \A s \in Session : Load(s)' = IF s \in set THEN Load(s) + 1 ELSE Load(s)
    BY <1>2, <1>4 DEF track, broadcast, Load
  <2>2. /\ ~ended /\ ~ended' /\ Failed' = Failed /\ set' = set /\ open' = open
        /\ lines' = lines + 1 /\ gone' = gone
    BY <1>4 DEF track, Failed
  <2>3. \A s \in Failed : s \in Session \ set
    BY <1>3, <2>2 DEF Failed, Members, TypeOK
  <2>4. Calm'
    BY <1>1, <1>2, <2>1, <2>2, <2>3, StaysCalm
  <2>5. NoStorm'
    <3>1. \A s \in Session : s \in set' \/ Load(s)' <= Load(s)
      BY <1>2, <2>1, <2>2
    <3>2. QED
      BY <1>1, <2>4, <3>1, CalmIsEnough
  <2>6. Quiet'
    BY <1>3, <2>1, <2>2 DEF Quiet
  <2>7. QED
    BY <1>1, <1>3, <2>2, <2>4, <2>5, <2>6 DEF Working
<1>5. CASE server_destructor
  <2>1. NoStorm'
    BY <1>2, <1>5 DEF server_destructor, NoStorm, Load
  <2>2. QED
    BY <1>1, <1>5, <2>1 DEF server_destructor, Working
<1>6. ASSUME NEW r \in Session, on_connect(r) PROVE IInv'
  <2>1. \A s \in Session : Load(s)' = Load(s)
    BY <1>6 DEF on_connect, Load
  <2>2. /\ ~ended /\ ~ended' /\ Failed' = Failed /\ lines' = lines + 0
        /\ set' = set \cup {r} /\ open' = open \cup {r} /\ gone' = gone /\ Load(r) = 0
    BY <1>2, <1>6 DEF on_connect, Failed, Load
  <2>3. Failed \subseteq Session
    BY DEF Failed, Members, TypeOK
  <2>4. \A s \in set' : IF s \in set THEN Load(s)' <= Load(s) + 0 ELSE Load(s)' = 0
    BY <1>2, <2>1, <2>2
  <2>5. Calm'
    BY <1>1, <1>2, <2>1, <2>2, <2>3, <2>4, StaysCalm
  <2>6. NoStorm'
    BY <1>2, <2>1 DEF NoStorm
  <2>7. Quiet'
    BY <1>3, <2>1, <2>2 DEF Quiet
  <2>8. QED
    BY <1>1, <1>3, <2>2, <2>5, <2>6, <2>7 DEF Working
<1>7. ASSUME NEW r \in Session, ClientGoes(r) \/ send(r) PROVE IInv'
  <2>1. \A s \in Session : Load(s)' = Load(s)
    BY <1>2, <1>7 DEF ClientGoes, send, Load
  <2>2. /\ Failed' = Failed /\ lines' = lines + 0 /\ ended' = ended
        /\ set' = set /\ open' = open /\ gone \subseteq gone'
    BY <1>2, <1>7 DEF ClientGoes, send, Failed
  <2>3. Failed \subseteq Session
    BY DEF Failed, Members, TypeOK
  <2>4. NoStorm'
    BY <1>2, <2>1 DEF NoStorm
  <2>5. CASE ended
    BY <1>1, <2>2, <2>4, <2>5 DEF Working
  <2>6. CASE ~ended
    <3>1. \A s \in set' : IF s \in set THEN Load(s)' <= Load(s) + 0 ELSE Load(s)' = 0
      BY <1>2, <2>1, <2>2
    <3>2. Calm'
      BY <1>1, <1>2, <2>1, <2>2, <2>3, <2>6, <3>1, StaysCalm
    <3>3. Quiet'
      BY <1>3, <2>1, <2>2, <2>6 DEF Quiet
    <3>4. QED
      BY <1>1, <1>3, <2>2, <2>4, <2>6, <3>2, <3>3 DEF Working
  <2>7. QED
    BY <2>5, <2>6
<1>8. ASSUME NEW r \in Session, on_write_quiet(r) PROVE IInv'
  <2>1. /\ UNCHANGED <<gone, lines, ended>> /\ ~ended
        /\ writing[r] > 0 /\ writing' = [writing EXCEPT ![r] = @ - 1]
    BY <1>8 DEF on_write_quiet
  <2>2. CASE WriteSucceeds(r)
    <3>1. /\ \A s \in Session : Load(s)' = IF s = r THEN Load(s) - 1 ELSE Load(s)
          /\ r \in open /\ UNCHANGED <<set, open>>
      BY <1>2, <2>1, <2>2 DEF WriteSucceeds, Load
    <3>2. Failed' = Failed /\ r \notin Failed /\ lines' = lines + 0 /\ Failed \subseteq Session
      BY <1>2, <2>1, <3>1 DEF Failed, Members, TypeOK
    <3>3. \A s \in set' : IF s \in set THEN Load(s)' <= Load(s) + 0 ELSE Load(s)' = 0
      BY <1>2, <3>1
    <3>4. Calm'
      BY <1>1, <1>2, <2>1, <3>1, <3>2, <3>3, StaysCalm
    <3>5. \A s \in Session : Load(s)' <= Load(s)
      BY <1>2, <3>1
    <3>6. NoStorm'
      BY <1>1, <3>4, <3>5, CalmIsEnough
    <3>7. Quiet'
      BY <1>3, <2>1, <3>1 DEF Quiet
    <3>8. QED
      BY <1>1, <1>3, <2>1, <3>1, <3>4, <3>6, <3>7 DEF Working
  <2>3. CASE WriteFailsOpen(r)
    BY <1>1, <2>1, <2>3, FailsOpen DEF Working
  <2>4. CASE WriteFailsClosed(r)
    BY <1>1, <2>1, <2>4, FailsClosed DEF Working
  <2>5. QED
    BY <1>8, <2>2, <2>3, <2>4 DEF on_write_quiet
<1>9. CASE UNCHANGED vars
  <2>1. NoStorm' /\ (\A s \in Session : Load(s)' = Load(s)) /\ Failed' = Failed
    BY <1>2, <1>9 DEF vars, NoStorm, Load, Failed
  <2>2. weight' = weight
    BY <2>1 DEF weight, Members, TypeOK, Load, Failed
  <2>3. Calm => Calm'
    BY <1>2, <1>9, <2>1, <2>2 DEF vars, Calm
  <2>4. Quiet => Quiet'
    BY <1>9, <2>1 DEF vars, Quiet
  <2>5. QED
    BY <1>1, <1>9, <2>1, <2>3, <2>4 DEF vars, Working
<1>10. QED
  BY <1>4, <1>5, <1>6, <1>7, <1>8, <1>9 DEF Next

(* The invariant of every reachable state.                                 *)
THEOREM Inductive == Spec => []IInv
BY InitIInv, StepIInv, PTL DEF Spec

(* Every variable keeps its type: no count of posts or writes falls below  *)
(* zero.                                                                   *)
THEOREM TypeCorrect == Spec => []TypeOK
<1>1. IInv => TypeOK
  BY DEF IInv, Members
<1>2. QED
  BY <1>1, Inductive, PTL

(* However many sessions fail, and in whatever order, the lines that their *)
(* failures make never pile up beyond the bound in any session.            *)
THEOREM NoStormHolds == Spec => []NoStorm
<1>1. IInv => NoStorm
  BY DEF IInv
<1>2. QED
  BY <1>1, Inductive, PTL

(* A session whose socket is closed is never sent to again.                *)
THEOREM NoSendAfterShutdownHolds == Spec => NoSendAfterShutdown
<1> DEFINE NoNewPost == \A s \in Session : s \in gone /\ s \notin open => posted'[s] <= posted[s]
<1>1. IInv /\ [Next]_vars => [NoNewPost]_vars
  <2> SUFFICES ASSUME IInv, Next, NEW s \in Session, s \notin open
               PROVE  posted'[s] <= posted[s]
    OBVIOUS
  <2>1. posted \in [Session -> Nat] /\ posted[s] \in Nat /\ s \notin set
    BY DEF IInv, Members, TypeOK, MembersAreOpen
  <2>2. CASE track
    BY <2>1, <2>2, BroadcastProperties DEF track
  <2>3. CASE server_destructor
    BY <2>1, <2>3 DEF server_destructor
  <2>4. ASSUME NEW r \in Session, on_connect(r) \/ ClientGoes(r) PROVE posted'[s] <= posted[s]
    BY <2>1, <2>4 DEF on_connect, ClientGoes
  <2>5. ASSUME NEW r \in Session, send(r) PROVE posted'[s] <= posted[s]
    BY <2>1, <2>5 DEF send
  <2>6. ASSUME NEW r \in Session, on_write_quiet(r) PROVE posted'[s] <= posted[s]
    BY <2>1, <2>6, FailurePosts DEF on_write_quiet, WriteSucceeds, IInv
  <2>7. QED
    BY <2>2, <2>3, <2>4, <2>5, <2>6 DEF Next
<1>2. QED
  BY <1>1, Inductive, PTL DEF Spec, NoSendAfterShutdown
=============================================================================
