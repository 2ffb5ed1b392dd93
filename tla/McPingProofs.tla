----------------------------- MODULE McPingProofs -----------------------------
(***************************************************************************)
(* How much a ping reads, how long it takes and what it believes, for any  *)
(* timeout, any width of the integers and of their groups and any limit on *)
(* packets.                                                                *)
(***************************************************************************)
EXTENDS McPing, LoopTheorems, SequenceTheorems

(***************************************************************************)
(* The call's own deadline holds until the dial is over; the second one is *)
(* a timeout after that.                                                   *)
(***************************************************************************)
DeadlinesHold ==
    /\ now \in Nat
    /\ deadline \in Nat
    /\ now <= deadline
    /\ pc = "dial" => deadline = Timeout
    /\ deadline <= 2 * Timeout

LEMMA StepKeepsDeadlines ==
    ASSUME DeadlinesHold, [Next]_vars
    PROVE  DeadlinesHold'
<1> USE PingAssumption DEF DeadlinesHold, timeVars, dataVars
<1>1. CASE Tick
  BY <1>1 DEF Tick
<1>2. CASE IOFails
  BY <1>2 DEF IOFails
<1>3. CASE DialSucceeds
  BY <1>3 DEF DialSucceeds
<1>4. CASE Send
  BY <1>4 DEF Send
<1>5. CASE ReadLength
  <2>1. pc' # "dial" /\ UNCHANGED <<now, deadline>>
    <3>1. PICK b \in Byte : LengthByte(Append(got, b))
      BY <1>5 DEF ReadLength
    <3> QED
      BY <1>5, <3>1 DEF ReadLength, LengthByte
  <2> QED
    BY <2>1
<1>6. CASE ReadBody
  BY <1>6 DEF ReadBody
<1>7. CASE Again
  BY <1>7 DEF Again
<1>8. CASE UNCHANGED vars
  BY <1>8 DEF vars
<1> QED
  BY <1>1, <1>2, <1>3, <1>4, <1>5, <1>6, <1>7, <1>8 DEF Next

(***************************************************************************)
(* A ping ends within twice its timeout, whatever the server sends and     *)
(* however slowly (ping.go:21 and ping.go:43).                             *)
(***************************************************************************)
THEOREM PingsEndInTime == Spec => []EndsInTime
<1>1. Init => DeadlinesHold
  BY PingAssumption DEF Init, DeadlinesHold
<1>2. DeadlinesHold => EndsInTime
  BY PingAssumption DEF DeadlinesHold, EndsInTime
<1> QED
  BY <1>1, <1>2, StepKeepsDeadlines, PTL DEF Spec

-----------------------------------------------------------------------------
(* How much is read *)

(***************************************************************************)
(* Before the length is known, got holds an unfinished VarInt and has room *)
(* for another byte; after that there is a byte left to read of the packet.*)
(***************************************************************************)
ReadingStops ==
    /\ pc \in {"dial", "handshake", "request"} => Len(got) = 0
    /\ pc = "length" => Len(got) < MaxBytes
    /\ pc = "body" => Len(got) < length

IInv == TypeOK /\ ReadingStops

LEMMA NothingRead == <<>> \in Seq(Byte) /\ Len(<<>>) = 0
OBVIOUS

LEMMA MaxBytesPositive == MaxBytes \in Nat \ {0}
BY PingAssumption DEF MaxBytes

\* One more byte of the length, wherever it leads.
LEMMA LengthByteKeepsIInv ==
    ASSUME IInv, ReadLength
    PROVE  IInv'
<1> USE MaxBytesPositive, PingAssumption DEF IInv, TypeOK, ReadingStops
<1>1. PICK b \in Byte : LengthByte(Append(got, b))
  BY DEF ReadLength
<1> DEFINE bytes == Append(got, b)
<1>2. bytes \in Seq(Byte) /\ Len(bytes) = Len(got) + 1
  OBVIOUS
<1>3. pc = "length" /\ UNCHANGED <<now, deadline, ioFailed>>
  BY DEF ReadLength, timeVars
<1> HIDE DEF bytes
<1>4. CASE NoVarInt(bytes) /\ UNCHANGED length
  BY <1>1, <1>2, <1>3, <1>4 DEF LengthByte, Done, bytes
<1>5. CASE Fits(VarIntOf(bytes)) /\ pc' = "body"
  BY <1>1, <1>2, <1>3, <1>5 DEF LengthByte, Fits, Done, bytes
<1>6. CASE pc' = "failed" /\ got' = bytes /\ UNCHANGED length
  BY <1>2, <1>3, <1>6 DEF Done
<1> QED
  BY <1>1, <1>4, <1>5, <1>6 DEF LengthByte, bytes

LEMMA StepKeepsIInv ==
    ASSUME IInv, [Next]_vars
    PROVE  IInv'
<1> USE MaxBytesPositive, PingAssumption
    DEF IInv, TypeOK, ReadingStops, Done, timeVars, dataVars
<1>1. CASE Tick
  BY <1>1 DEF Tick
<1>2. CASE IOFails
  BY <1>2 DEF IOFails
<1>3. CASE DialSucceeds
  BY <1>3 DEF DialSucceeds
<1>4. CASE Send
  BY <1>4 DEF Send
<1>5. CASE ReadLength
  BY <1>5, LengthByteKeepsIInv
<1>6. CASE ReadBody
  <2>1. PICK b \in Byte : got' = Append(got, b)
    BY <1>6 DEF ReadBody
  <2>2. got' \in Seq(Byte) /\ Len(got') = Len(got) + 1
    BY <2>1
  <2> QED BY <1>6, <2>2 DEF ReadBody
<1>7. CASE Again
  <2>1. got' \in Seq(Byte) /\ Len(got') = 0
    BY <1>7, NothingRead DEF Again
  <2>2. ioFailed' \in BOOLEAN
    BY <1>7, Zenon DEF Again
  <2>3. pc' = "dial" /\ now' = 0 /\ deadline' = Timeout /\ length' = 0
    BY <1>7 DEF Again
  <2> QED BY <2>1, <2>2, <2>3
<1>8. CASE UNCHANGED vars
  BY <1>8 DEF vars
<1> QED
  BY <1>1, <1>2, <1>3, <1>4, <1>5, <1>6, <1>7, <1>8 DEF Next

LEMMA InitHasIInv ==
    ASSUME Init
    PROVE  IInv
<1>1. ioFailed \in BOOLEAN
  BY Zenon DEF Init
<1>2. got \in Seq(Byte) /\ Len(got) = 0
  BY NothingRead DEF Init
<1> QED
  BY <1>1, <1>2, MaxBytesPositive, PingAssumption
  DEF Init, IInv, TypeOK, ReadingStops, Done

(***************************************************************************)
(* readVarInt and io.ReadFull never take more bytes than they may, whoever *)
(* sends them: a length is at most MaxPacket, and what is read at most a   *)
(* VarInt or the packet it announces (ping.go:121-152).                    *)
(***************************************************************************)
THEOREM TypeCorrect == Spec => []TypeOK
<1>1. IInv => TypeOK
  BY DEF IInv
<1> QED
  BY <1>1, InitHasIInv, StepKeepsIInv, PTL DEF Spec

-----------------------------------------------------------------------------
(* Powers of two *)

\* A finite set has so many subsets: all that is known of powers.
LEMMA PowerCounts ==
    ASSUME NEW n \in Nat, NEW S, IsFiniteSet(S), Cardinality(S) = n
    PROVE  /\ 2 ^ n = Cardinality(SUBSET S) /\ 2 ^ n \in Nat
           /\ IsFiniteSet(SUBSET S)
<1>1. IsFiniteSet(SUBSET S) /\ Cardinality(SUBSET S) = 2 ^ Cardinality(S)
  BY FS_SUBSET
<1>2. Cardinality(SUBSET S) \in Nat
  BY <1>1, FS_CardinalityType
<1> QED BY <1>1, <1>2

LEMMA PowerPositive == \A n \in Nat : 2 ^ n \in Nat \ {0}
<1> TAKE n \in Nat
<1>1. IsFiniteSet(1 .. n) /\ Cardinality(1 .. n) = n
  BY FS_Interval
<1>2. /\ 2 ^ n = Cardinality(SUBSET (1 .. n)) /\ 2 ^ n \in Nat
      /\ IsFiniteSet(SUBSET (1 .. n))
  BY <1>1, PowerCounts, Zenon
<1>3. SUBSET (1 .. n) # {}
  OBVIOUS
<1>4. 2 ^ n # 0
  BY <1>2, <1>3, FS_EmptySet, Zenon
<1> QED BY <1>2, <1>4

LEMMA PowerZero == 2 ^ 0 = 1
<1>1. IsFiniteSet({}) /\ Cardinality({}) = 0
  BY FS_EmptySet
<1>2. 2 ^ Cardinality({}) = Cardinality(SUBSET {})
  BY <1>1, FS_SUBSET, Zenon
<1>3. SUBSET {} = {{}}
  OBVIOUS
<1> QED BY <1>1, <1>2, <1>3, FS_Singleton, Zenon

LEMMA Pairs ==
    ASSUME NEW U, NEW V
    PROVE  /\ \A a \in U, b \in V : <<a, b>> \in U \X V
           /\ \A p \in U \X V : p[1] \in U /\ p[2] \in V /\ p = <<p[1], p[2]>>
OBVIOUS

\* Every member of Y is the union of its parts within A and B.
Splits(Y, A, B, U, V) ==
    /\ \A a \in U, b \in V :
           a \cup b \in Y /\ (a \cup b) \cap A = a /\ (a \cup b) \cap B = b
    /\ \A c \in Y : /\ c \cap A \in U /\ c \cap B \in V
                    /\ (c \cap A) \cup (c \cap B) = c

LEMMA UnionsOfPairs ==
    ASSUME NEW U, NEW V, NEW Y, NEW A, NEW B, Splits(Y, A, B, U, V)
    PROVE  ExistsBijection(U \X V, Y)
<1> USE DEF Splits
<1> DEFINE X == U \X V
           f == [p \in X |-> p[1] \cup p[2]]
<1>1. \A p \in X : p[1] \in U /\ p[2] \in V /\ p = <<p[1], p[2]>>
  BY Pairs, Zenon
<1>2. \A a \in U, b \in V : <<a, b>> \in X
  BY Pairs, Zenon
<1> HIDE DEF X
<1>3. \A p \in X : f[p] = p[1] \cup p[2]
  BY Zenon
<1>4. f = [p \in X |-> f[p]]
  BY Zenon
<1> HIDE DEF f
<1>5. ASSUME NEW p \in X
      PROVE  f[p] \in Y /\ f[p] \cap A = p[1] /\ f[p] \cap B = p[2]
  <2>1. p[1] \in U /\ p[2] \in V
    BY <1>1, Zenon
  <2> DEFINE u == p[1] \cup p[2]
  <2>2. u \in Y /\ u \cap A = p[1] /\ u \cap B = p[2]
    BY <2>1
  <2>3. f[p] = u
    BY <1>3, Zenon
  <2> HIDE DEF u
  <2> QED BY <2>2, <2>3, Zenon
<1>6. f \in [X -> Y]
  BY <1>4, <1>5, Zenon
<1>7. \A p \in X : f[p] \cap A = p[1] /\ f[p] \cap B = p[2]
  BY <1>5, Zenon
<1>8. ASSUME NEW p \in X, NEW q \in X, f[p] = f[q] PROVE p = q
  <2>1. p[1] = q[1] /\ p[2] = q[2]
    <3>1. f[p] \cap A = f[q] \cap A /\ f[p] \cap B = f[q] \cap B
      BY <1>8
    <3>2. /\ f[p] \cap A = p[1] /\ f[p] \cap B = p[2]
          /\ f[q] \cap A = q[1] /\ f[q] \cap B = q[2]
      BY <1>7, Zenon
    <3> QED BY <3>1, <3>2, Zenon
  <2>2. p = <<p[1], p[2]>> /\ q = <<q[1], q[2]>>
    BY <1>1, Zenon
  <2>3. <<p[1], p[2]>> = <<q[1], q[2]>>
    BY <2>1, Zenon
  <2> QED BY <2>2, <2>3, Zenon
<1>9. ASSUME NEW c \in Y PROVE \E p \in X : f[p] = c
  <2> DEFINE p == <<c \cap A, c \cap B>>
  <2>1. p \in X
    BY <1>2, Zenon
  <2>2. p[1] = c \cap A /\ p[2] = c \cap B
    OBVIOUS
  <2> HIDE DEF p
  <2>3. f[p] = p[1] \cup p[2]
    BY <1>3, <2>1, Zenon
  <2>4. p[1] \cup p[2] = (c \cap A) \cup (c \cap B)
    BY <2>2, Zenon
  <2>5. (c \cap A) \cup (c \cap B) = c
    OBVIOUS
  <2> QED BY <2>1, <2>3, <2>4, <2>5, Zenon
<1>10. f \in Injection(X, Y)
  <2>1. IsInjective(f)
    BY <1>6, <1>8, Zenon DEF IsInjective
  <2> QED BY <1>6, <2>1, Zenon DEF Injection
<1>11. f \in Surjection(X, Y)
  BY <1>6, <1>9, Zenon DEF Surjection
<1>12. ExistsBijection(X, Y)
  BY <1>10, <1>11, Zenon DEF ExistsBijection, Bijection
<1> QED BY <1>12, Zenon DEF X

LEMMA Adjacent ==
    ASSUME NEW m \in Nat, NEW n \in Nat
    PROVE  /\ IsFiniteSet(1 .. m) /\ Cardinality(1 .. m) = m
           /\ IsFiniteSet(m + 1 .. m + n) /\ Cardinality(m + 1 .. m + n) = n
           /\ IsFiniteSet(1 .. m + n) /\ Cardinality(1 .. m + n) = m + n
           /\ (1 .. m) \cup (m + 1 .. m + n) = 1 .. m + n
           /\ (1 .. m) \cap (m + 1 .. m + n) = {}
<1>1. IsFiniteSet(1 .. m) /\ Cardinality(1 .. m) = m
  BY FS_Interval
<1>2. IsFiniteSet(m + 1 .. m + n) /\ Cardinality(m + 1 .. m + n) = n
  <2>1. IsFiniteSet(m + 1 .. m + n)
        /\ Cardinality(m + 1 .. m + n)
           = IF m + 1 > m + n THEN 0 ELSE (m + n) - (m + 1) + 1
    BY FS_Interval
  <2> QED BY <2>1
<1>3. IsFiniteSet(1 .. m + n) /\ Cardinality(1 .. m + n) = m + n
  <2>1. IsFiniteSet(1 .. m + n)
        /\ Cardinality(1 .. m + n) = IF 1 > m + n THEN 0 ELSE (m + n) - 1 + 1
    BY FS_Interval
  <2> QED BY <2>1
<1>4. \A x : x \in (1 .. m) \cup (m + 1 .. m + n) <=> x \in 1 .. m + n
  OBVIOUS
<1>5. (1 .. m) \cup (m + 1 .. m + n) = 1 .. m + n
  BY <1>4, Zenon
<1>6. (1 .. m) \cap (m + 1 .. m + n) = {}
  OBVIOUS
<1> QED BY <1>1, <1>2, <1>3, <1>5, <1>6

LEMMA PowerSum ==
    ASSUME NEW m \in Nat, NEW n \in Nat
    PROVE  2 ^ (m + n) = 2 ^ m * 2 ^ n
<1> DEFINE A == 1 .. m
           B == m + 1 .. m + n
           C == 1 .. m + n
           U == SUBSET A
           V == SUBSET B
<1>1. /\ IsFiniteSet(A) /\ Cardinality(A) = m
      /\ IsFiniteSet(B) /\ Cardinality(B) = n
      /\ IsFiniteSet(C) /\ Cardinality(C) = m + n
      /\ A \cup B = C
      /\ A \cap B = {}
  BY Adjacent, Zenon
<1> HIDE DEF A, B, C
<1>2. /\ 2 ^ m = Cardinality(U) /\ IsFiniteSet(U)
      /\ 2 ^ n = Cardinality(V) /\ IsFiniteSet(V)
      /\ 2 ^ (m + n) = Cardinality(SUBSET C)
  BY <1>1, FS_SUBSET, Zenon
<1>3. ExistsBijection(U \X V, SUBSET C)
  <2>1. Splits(SUBSET C, A, B, U, V)
    BY <1>1 DEF Splits
  <2> HIDE DEF U, V
  <2> QED BY <2>1, UnionsOfPairs, Zenon
<1> HIDE DEF U, V
<1>4. /\ IsFiniteSet(U \X V)
      /\ Cardinality(U \X V) = Cardinality(U) * Cardinality(V)
  BY <1>2, FS_Product
<1>5. Cardinality(SUBSET C) = Cardinality(U \X V)
  BY <1>3, <1>4, FS_Bijection, Zenon
<1> QED BY <1>2, <1>4, <1>5, Zenon

LEMMA PowerGrows ==
    ASSUME NEW m \in Nat, NEW n \in Nat, m <= n
    PROVE  2 ^ m <= 2 ^ n
<1> DEFINE d == n - m
<1>1. d \in Nat /\ n = m + d
  OBVIOUS
<1> HIDE DEF d
<1>2. 2 ^ n = 2 ^ m * 2 ^ d
  BY <1>1, PowerSum, Zenon
<1> DEFINE a == 2 ^ m
           b == 2 ^ d
<1>3. a \in Nat \ {0} /\ b \in Nat \ {0}
  BY <1>1, PowerPositive, Zenon
<1> HIDE DEF a, b
<1>4. a <= a * b
  BY <1>3
<1> QED BY <1>2, <1>4, Zenon DEF a, b

-----------------------------------------------------------------------------
(* Division *)

LEMMA Division ==
    ASSUME NEW n \in Int, NEW d \in Nat \ {0}
    PROVE  /\ n \div d \in Int /\ n % d \in 0 .. d - 1
           /\ n = d * (n \div d) + (n % d)
           /\ d * (n \div d) <= n /\ n < d * ((n \div d) + 1)
OBVIOUS

LEMMA QuotientIsNat ==
    ASSUME NEW n \in Nat, NEW d \in Nat \ {0}
    PROVE  n \div d \in 0 .. n
OBVIOUS

LEMMA QuotientIs ==
    ASSUME NEW n \in Int, NEW d \in Nat \ {0}, NEW q \in Int,
           d * q <= n, n < d * (q + 1)
    PROVE  n \div d = q
OBVIOUS

LEMMA DivideTwice ==
    ASSUME NEW n \in Nat, NEW a \in Nat \ {0}, NEW p \in Nat \ {0}
    PROVE  (n \div a) \div p = n \div (a * p)
<1> DEFINE q == n \div a
           r == q \div p
<1>1. q \in Int /\ a * q <= n /\ n < a * (q + 1)
  BY Division
<1>2. r \in Int /\ p * r <= q /\ q < p * (r + 1)
  <2> HIDE DEF q
  <2> QED BY <1>1, Division
<1> HIDE DEF q, r
<1>3. a * (p * r) <= a * q
  BY <1>1, <1>2
<1>4. q + 1 <= p * (r + 1)
  BY <1>1, <1>2
<1>5. a * (q + 1) <= a * (p * (r + 1))
  BY <1>1, <1>2, <1>4
<1>6. (a * p) * r <= n /\ n < (a * p) * (r + 1)
  BY <1>1, <1>2, <1>3, <1>5
<1>7. a * p \in Nat \ {0}
  OBVIOUS
<1>8. n \div (a * p) = r
  BY <1>2, <1>6, <1>7, QuotientIs
<1> QED BY <1>8 DEF r, q

LEMMA DivideByOne == \A n \in Nat : n \div 1 = n
OBVIOUS

LEMMA DivideByMore ==
    ASSUME NEW n \in Nat, NEW d \in Nat, n < d
    PROVE  n \div d = 0 /\ n % d = n
OBVIOUS

-----------------------------------------------------------------------------
(* Places *)

Base == 2 ^ GroupBits
Place(k) == 2 ^ (GroupBits * k)
Width == 2 ^ IntBits

LEMMA Places ==
    /\ Base \in Nat \ {0}
    /\ \A k \in Nat : Place(k) \in Nat \ {0}
    /\ Place(0) = 1
    /\ \A k \in Nat : Place(k + 1) = Place(k) * Base
<1>1. GroupBits \in Nat
  BY PingAssumption
<1>2. Base \in Nat \ {0}
  BY <1>1, PowerPositive, Zenon DEF Base
<1>3. ASSUME NEW k \in Nat
      PROVE  Place(k) \in Nat \ {0} /\ Place(k + 1) = Place(k) * Base
  <2> DEFINE e == GroupBits * k
  <2>1. e \in Nat
    BY <1>1
  <2>2. GroupBits * (k + 1) = e + GroupBits
    BY <1>1
  <2> HIDE DEF e
  <2>3. 2 ^ e \in Nat \ {0}
    BY <2>1, PowerPositive, Zenon
  <2>4. 2 ^ (e + GroupBits) = 2 ^ e * 2 ^ GroupBits
    BY <1>1, <2>1, PowerSum, Zenon
  <2> QED BY <2>2, <2>3, <2>4, Zenon DEF Place, Base, e
<1>4. GroupBits * 0 = 0
  BY <1>1
<1>5. Place(0) = 1
  BY <1>4, PowerZero, Zenon DEF Place
<1> QED BY <1>2, <1>3, <1>5, Zenon

LEMMA PlacesSuffice ==
    /\ Width \in Nat \ {0} /\ Width <= Place(MaxBytes)
    /\ MaxPacket < 2 ^ (IntBits - 1)
    /\ 2 ^ (IntBits - 1) \in Nat
    /\ 2 ^ (IntBits - 1) <= Width
<1>1. IntBits \in Nat /\ IntBits - 1 \in Nat /\ IntBits - 1 <= IntBits
  BY PingAssumption
<1>2. GroupBits * MaxBytes \in Nat /\ IntBits <= GroupBits * MaxBytes
  <2> DEFINE n == IntBits + GroupBits - 1
  <2>1. n \in Int /\ GroupBits \in Nat \ {0} /\ n + 1 = IntBits + GroupBits
    BY PingAssumption
  <2> HIDE DEF n
  <2>2. n \div GroupBits \in Int /\ n < GroupBits * ((n \div GroupBits) + 1)
    BY <2>1, Division
  <2> DEFINE q == n \div GroupBits
  <2> HIDE DEF q
  <2>3. q \in Int /\ n < GroupBits * (q + 1)
    BY <2>2 DEF q
  <2>4. /\ GroupBits * (q + 1) = GroupBits * q + GroupBits
        /\ GroupBits * q \in Int
    BY <2>1, <2>3
  <2>5. IntBits <= GroupBits * q
    BY <1>1, <2>1, <2>3, <2>4
  <2>6. MaxBytes = q
    BY DEF MaxBytes, n, q
  <2> QED BY <1>1, <2>4, <2>5, <2>6
<1> DEFINE e == GroupBits * MaxBytes
<1>3. e \in Nat /\ IntBits <= e
  BY <1>2
<1> HIDE DEF e
<1>4. 2 ^ IntBits <= 2 ^ e
  BY <1>1, <1>3, PowerGrows, Zenon
<1>5. 2 ^ (IntBits - 1) <= 2 ^ IntBits
  BY <1>1, PowerGrows, Zenon
<1>6. 2 ^ IntBits \in Nat \ {0} /\ 2 ^ (IntBits - 1) \in Nat \ {0}
  BY <1>1, PowerPositive, Zenon
<1> QED BY <1>4, <1>5, <1>6, PingAssumption DEF Width, Place, e

-----------------------------------------------------------------------------
(* writeVarInt *)

Values == 0 .. 2 ^ (IntBits - 1) - 1

LEMMA ValuesAreNat ==
    \A v \in Values : v \in Nat /\ v < Width /\ v < 2 ^ (IntBits - 1)
BY PlacesSuffice DEF Values

LEMMA GroupsExist ==
    ASSUME NEW v \in Values
    PROVE  \E k \in 1 .. MaxBytes :
               v < Place(k) /\ (k > 1 => v >= Place(k - 1))
<1> DEFINE S == {k \in 1 .. MaxBytes : v < Place(k)}
<1>1. MaxBytes \in S
  <2>1. MaxBytes \in 1 .. MaxBytes
    BY MaxBytesPositive
  <2>2. Place(MaxBytes) \in Nat
    BY MaxBytesPositive, Places, Zenon
  <2>3. v < Place(MaxBytes)
    BY <2>2, PlacesSuffice DEF Values
  <2> QED BY <2>1, <2>3
<1>2. S \in SUBSET Nat
  OBVIOUS
<1>3. PICK m \in S : \A k \in S : m <= k
  <2> HIDE DEF S
  <2> QED BY <1>1, <1>2, LeastNat
<1>4. ASSUME m > 1 PROVE v >= Place(m - 1)
  <2>1. m - 1 \in 1 .. MaxBytes /\ m - 1 \in Nat /\ m - 1 < m
    BY <1>4, MaxBytesPositive
  <2>2. m - 1 \notin S
    BY <1>2, <1>3, <2>1
  <2>3. ~ (v < Place(m - 1))
    BY <2>1, <2>2
  <2>4. Place(m - 1) \in Nat
    BY <2>1, Places, Zenon
  <2> QED BY <2>3, <2>4 DEF Values
<1> QED BY <1>3, <1>4

\* What writeVarInt returns for v: its groups.
Written(w, v, g) ==
    /\ g \in 1 .. MaxBytes
    /\ v < Place(g)
    /\ w = [i \in 1 .. g |->
               [more |-> i < g, bits |-> (v \div Place(i - 1)) % Base]]

LEMMA WritesGroups ==
    ASSUME NEW v \in Values
    PROVE  \E g : Written(WriteVarInt(v), v, g)
<1> DEFINE g == CHOOSE k \in 1 .. MaxBytes :
                    /\ v < 2 ^ (GroupBits * k)
                    /\ k > 1 => v >= 2 ^ (GroupBits * (k - 1))
<1>1. g \in 1 .. MaxBytes /\ v < 2 ^ (GroupBits * g)
  <2>1. \E k \in 1 .. MaxBytes :
            /\ v < 2 ^ (GroupBits * k)
            /\ k > 1 => v >= 2 ^ (GroupBits * (k - 1))
    BY GroupsExist, Zenon DEF Place
  <2> QED BY <2>1, Zenon
<1>2. WriteVarInt(v) = [i \in 1 .. g |->
          [more |-> i < g,
           bits |-> (v \div 2 ^ (GroupBits * (i - 1))) % 2 ^ GroupBits]]
  BY Zenon DEF WriteVarInt
<1> HIDE DEF g
<1>3. Written(WriteVarInt(v), v, g)
  BY <1>1, <1>2, Zenon DEF Written, Place, Base
<1> QED BY <1>3, Zenon

LEMMA IsByte ==
    \A m \in BOOLEAN, b \in 0 .. Base - 1 : [more |-> m, bits |-> b] \in Byte
BY Zenon DEF Byte, Base

\* The bytes of it.
Groups(w, v, g) ==
    /\ w \in Seq(Byte) /\ Len(w) = g
    /\ \A i \in 1 .. g : w[i].more <=> i < g
    /\ \A i \in 1 .. g : w[i].bits = (v \div Place(i - 1)) % Base

LEMMA WrittenIsBytes ==
    ASSUME NEW w, NEW v \in Values, NEW g, Written(w, v, g)
    PROVE  Groups(w, v, g)
<1>1. g \in Nat /\ g >= 1
  BY MaxBytesPositive DEF Written
<1>2. ASSUME NEW i \in 1 .. g
      PROVE  (v \div Place(i - 1)) % Base \in 0 .. Base - 1
  <2>1. i - 1 \in Nat
    BY <1>1
  <2>2. Place(i - 1) \in Nat \ {0} /\ Base \in Nat \ {0}
    BY <2>1, Places, Zenon
  <2>3. v \div Place(i - 1) \in Int
    <3>1. v \in Int
      BY ValuesAreNat
    <3> QED BY <2>2, <3>1, Division, Zenon
  <2> QED BY <2>2, <2>3, Division
<1>3. \A i \in 1 .. g :
          w[i] = [more |-> i < g, bits |-> (v \div Place(i - 1)) % Base]
  BY Zenon DEF Written
<1>4. ASSUME NEW i \in 1 .. g PROVE (i < g) \in BOOLEAN
  <2>1. (i < g) = TRUE \/ (i < g) = FALSE
    BY <1>1
  <2> QED BY <2>1, Zenon
<1>5. \A i \in 1 .. g : w[i] \in Byte
  BY <1>2, <1>3, <1>4, IsByte, Zenon
<1>6. w = [i \in 1 .. g |-> w[i]]
  BY DEF Written
<1>7. w \in Seq(Byte) /\ Len(w) = g
  BY <1>1, <1>5, <1>6
<1>8. ASSUME NEW i \in 1 .. g
      PROVE  /\ w[i].more <=> i < g
             /\ w[i].bits = (v \div Place(i - 1)) % Base
  <2>1. /\ w[i].more = (i < g)
        /\ w[i].bits = (v \div Place(i - 1)) % Base
    <3> DEFINE m == i < g
               b == (v \div Place(i - 1)) % Base
    <3>1. w[i] = [more |-> m, bits |-> b]
      BY <1>3, Zenon
    <3> HIDE DEF m, b
    <3>2. w[i].more = m /\ w[i].bits = b
      BY <3>1
    <3> QED BY <3>2, Zenon DEF m, b
  <2> QED BY <2>1, Zenon
<1> QED BY <1>7, <1>8, Zenon DEF Groups

-----------------------------------------------------------------------------
(* readVarInt *)

(***************************************************************************)
(* The loop that Value is: from the topmost group down, each makes room    *)
(* for the next.                                                           *)
(***************************************************************************)
Loops(f, w, n) ==
    /\ f[{}] = 0
    /\ \A s \in SUBSET (1 .. n) :
           s # {} => f[s] = (w[Min(s)].bits + Base * f[s \ {Min(s)}]) % Width

LEMMA ValueLoops ==
    ASSUME NEW w \in Seq(Byte)
    PROVE  \E f : Loops(f, w, Len(w)) /\ Value(w) = Signed(f[1 .. Len(w)])
<1> DEFINE n == Len(w)
           B == 0 .. Width - 1
           step == [i \in 1 .. n |->
                       [a \in B |-> (w[i].bits + Base * a) % Width]]
           f == CHOOSE f : f = [s \in SUBSET (DOMAIN w) |->
                    IF s = {} THEN 0
                    ELSE (w[Min(s)].bits + 2 ^ GroupBits * f[s \ {Min(s)}])
                         % 2 ^ IntBits]
<1>1. n \in Nat /\ DOMAIN w = 1 .. n
  OBVIOUS
<1>2. Value(w) = Signed(f[DOMAIN w])
  BY DEF Value, FoldRight, MapThenFoldSet
<1>3. ASSUME NEW i \in 1 .. n, NEW a \in B
      PROVE  (w[i].bits + Base * a) % Width \in B
  <2>1. w[i] \in Byte
    OBVIOUS
  <2>2. Base \in Nat \ {0} /\ Width \in Nat \ {0}
    BY Places, PlacesSuffice, Zenon
  <2>3. w[i].bits \in 0 .. Base - 1
    BY <2>1, Zenon DEF Byte, Base
  <2>4. w[i].bits \in Int /\ a \in Int
    BY <2>2, <2>3
  <2>5. w[i].bits + Base * a \in Int
    BY <2>2, <2>4
  <2> QED BY <2>2, <2>5, Division, Zenon
<1>4. /\ step \in [1 .. n -> [B -> B]]
      /\ \A i \in 1 .. n, a \in B :
             step[i][a] = (w[i].bits + Base * a) % Width
  <2> HIDE DEF B, n
  <2> QED BY <1>3
<1>5. 0 \in B
  BY PlacesSuffice
<1> HIDE DEF step
<1>6. \E h : FoldsRightWith(h, n, B, 0, step)
  <2> HIDE DEF n, B
  <2> QED BY <1>1, <1>4, <1>5, FoldRightExists, Zenon
<1>7. PICK h : FoldsRightWith(h, n, B, 0, step)
  BY <1>6, Zenon
<1>8. \A s \in SUBSET (1 .. n) : s # {} => Min(s) \in 1 .. n
  <2>1. \A s \in SUBSET (1 .. n) : s \in SUBSET Nat
    OBVIOUS
  <2> HIDE DEF n
  <2>2. \A s \in SUBSET (1 .. n) : s # {} => Min(s) \in s
    BY <2>1, MinIsLeast, Zenon
  <2> QED BY <2>2
<1>9. h = [s \in SUBSET (DOMAIN w) |->
               IF s = {} THEN 0
               ELSE (w[Min(s)].bits + Base * h[s \ {Min(s)}]) % Width]
  <2> HIDE DEF B, n
  <2>1. h \in [SUBSET (1 .. n) -> B]
    BY <1>7, Zenon DEF FoldsRightWith
  <2>2. ASSUME NEW s \in SUBSET (1 .. n)
        PROVE  h[s] = IF s = {} THEN 0
                      ELSE (w[Min(s)].bits + Base * h[s \ {Min(s)}]) % Width
    <3>1. h[s] = IF s = {} THEN 0 ELSE step[Min(s)][h[s \ {Min(s)}]]
      BY <1>7, Zenon DEF FoldsRightWith
    <3>2. h[s \ {Min(s)}] \in B
      BY <2>1
    <3> QED BY <1>4, <1>8, <3>1, <3>2, Zenon
  <2> QED BY <1>1, <2>1, <2>2, Zenon
<1>10. f = [s \in SUBSET (DOMAIN w) |->
               IF s = {} THEN 0
               ELSE (w[Min(s)].bits + Base * f[s \ {Min(s)}]) % Width]
  <2> HIDE DEF B, n
  <2> QED BY <1>9, Zenon DEF Base, Width
<1>11. Loops(f, w, n)
  <2> HIDE DEF n, f
  <2> QED BY <1>1, <1>10, Zenon DEF Loops
<1> HIDE DEF f
<1> QED BY <1>1, <1>2, <1>11, Zenon

LEMMA ReadsValue ==
    ASSUME NEW v \in Values, NEW w, NEW g, Written(w, v, g)
    PROVE  Value(w) = v
<1>1. /\ w \in Seq(Byte) /\ Len(w) = g
      /\ \A i \in 1 .. g : w[i].bits = (v \div Place(i - 1)) % Base
  <2>1. Groups(w, v, g)
    BY WrittenIsBytes, Zenon
  <2> QED BY <2>1, Zenon DEF Groups
<1>2. PICK f : Loops(f, w, g) /\ Value(w) = Signed(f[1 .. g])
  BY <1>1, ValueLoops, Zenon
<1>3. g \in Nat \ {0} /\ v < Place(g)
  BY MaxBytesPositive DEF Written
<1>4. v \in Nat /\ v < Width /\ v < 2 ^ (IntBits - 1)
  BY ValuesAreNat
<1> DEFINE Good(k) == f[k .. g] = v \div Place(k - 1)
           S == {k \in 1 .. g + 1 : Good(k)}
<1>5. Good(g + 1)
  <2>1. g + 1 \in 1 .. g + 1 /\ g + 1 .. g = {} /\ (g + 1) - 1 = g
    BY <1>3
  <2>2. Place(g) \in Nat
    BY <1>3, Places, Zenon
  <2>3. v \div Place(g) = 0
    BY <1>3, <1>4, <2>2, DivideByMore
  <2>4. f[{}] = 0
    BY <1>2, Zenon DEF Loops
  <2>5. f[g + 1 .. g] = v \div Place((g + 1) - 1)
    BY <2>1, <2>3, <2>4
  <2> QED BY <2>5
<1>6. ASSUME NEW k \in 1 .. g, Good(k + 1) PROVE Good(k)
  <2> DEFINE q == v \div Place(k - 1)
             r == f[k + 1 .. g]
  <2>1. k - 1 \in Nat /\ (k + 1) - 1 = k /\ (k - 1) + 1 = k /\ k \in 1 .. g + 1
    BY <1>3
  <2>2. /\ Place(k - 1) \in Nat \ {0} /\ Base \in Nat \ {0}
        /\ Place(k) = Place(k - 1) * Base
    BY <2>1, Places, Zenon
  <2>3. q \in 0 .. v
    BY <1>4, <2>2, QuotientIsNat, Zenon
  <2>4. r = q \div Base
    <3>1. r = v \div Place(k)
      BY <1>6, <2>1, Zenon
    <3>2. q \div Base = v \div (Place(k - 1) * Base)
      BY <1>4, <2>2, DivideTwice, Zenon
    <3> QED BY <2>2, <3>1, <3>2, Zenon
  <2>5. f[k .. g] = (w[k].bits + Base * r) % Width
    <3>1. /\ k .. g \in SUBSET (1 .. g) /\ k .. g # {}
          /\ (k .. g) \ {k} = k + 1 .. g /\ Min(k .. g) = k
      <4>1. g \in Nat
        BY <1>3
      <4> QED BY <4>1, PositionsFrom, Zenon
    <3> QED BY <1>2, <3>1, Zenon DEF Loops
  <2>6. w[k].bits = q % Base
    BY <1>1, Zenon
  <2> HIDE DEF q, r
  <2>7. q \in Nat /\ q < Width /\ q = Base * (q \div Base) + (q % Base)
        /\ q % Base \in Int /\ Base * (q \div Base) \in Int
    <3>1. q \in Int /\ q \in Nat /\ q < Width
      BY <1>4, <2>3, PlacesSuffice
    <3>2. /\ q \div Base \in Int /\ q % Base \in 0 .. Base - 1
          /\ q = Base * (q \div Base) + (q % Base)
      BY <2>2, <3>1, Division, Zenon
    <3> QED BY <2>2, <3>1, <3>2
  <2>8. w[k].bits + Base * r = q
    BY <2>4, <2>6, <2>7
  <2>9. q % Width = q
    BY <2>7, PlacesSuffice, DivideByMore
  <2>10. f[k .. g] = q
    BY <2>5, <2>8, <2>9, Zenon
  <2> QED BY <2>1, <2>10, Zenon DEF q
<1> HIDE DEF Good
<1>7. Good(1)
  <2>1. /\ g \in Nat /\ 1 \in 1 .. g + 1 /\ g + 1 \in 1 .. g + 1
        /\ \A k \in 1 .. g : k \in 1 .. g + 1
    BY <1>3
  <2>3. g + 1 \in S /\ \A k \in 1 .. g : k + 1 \in S => k \in S
    BY <1>5, <1>6, <2>1, Zenon
  <2> HIDE DEF S
  <2>2. \A k \in 1 .. g + 1 : k \in S
    BY <2>1, <2>3, LoopDown, Zenon
  <2> QED BY <2>1, <2>2, Zenon DEF S
<1>8. f[1 .. g] = v
  <2>1. f[1 .. g] = v \div Place(0)
    <3>1. 1 - 1 = 0
      OBVIOUS
    <3> QED BY <1>7, <3>1, Zenon DEF Good
  <2>2. v \div Place(0) = v
    BY <1>4, Places, DivideByOne, Zenon
  <2> QED BY <2>1, <2>2, Zenon
<1>9. Signed(v) = v
  BY <1>4, PlacesSuffice DEF Signed
<1> QED BY <1>2, <1>8, <1>9, Zenon

\* The bytes before a VarInt's last one say that another follows.
LEMMA ReadsLength ==
    ASSUME NEW bs \in Seq(Byte), NEW g \in 1 .. Len(bs),
           \A i \in 1 .. g : bs[i].more <=> i < g
    PROVE  VarIntLen(bs) = g
<1> DEFINE I == {i \in 1 .. Len(bs) : ~bs[i].more}
<1>1. VarIntLen(bs) = IF I # {} THEN Min(I) ELSE 0
  BY DEF VarIntLen, SelectInSeq
<1>2. g \in I
  <2>1. g \in 1 .. g /\ ~(g < g)
    OBVIOUS
  <2>2. ~bs[g].more
    BY <2>1, Zenon
  <2> QED BY <2>2, Zenon
<1>3. ASSUME NEW i \in I PROVE g <= i
  <2>1. CASE i < g
    <3>1. i \in 1 .. g
      BY <2>1
    <3>2. bs[i].more
      BY <2>1, <3>1, Zenon
    <3> QED BY <3>2, Zenon
  <2> QED BY <2>1
<1>4. I \in SUBSET Nat
  OBVIOUS
<1> HIDE DEF I
<1>5. Min(I) \in I /\ \A y \in I : Min(I) <= y
  BY <1>2, <1>4, MinIsLeast
<1>6. Min(I) = g
  <2>1. Min(I) <= g /\ g <= Min(I)
    BY <1>2, <1>3, <1>5, Zenon
  <2>2. Min(I) \in Nat /\ g \in Nat
    BY <1>2, <1>4, <1>5
  <2> QED BY <2>1, <2>2
<1> QED BY <1>1, <1>2, <1>6, Zenon

\* readVarInt makes v of bs and leaves t.
Reads(bs, v, t) ==
    /\ bs \in Seq(Byte)
    /\ ~NoVarInt(bs)
    /\ VarIntOf(bs) = v
    /\ AfterVarInt(bs) = t

(***************************************************************************)
(* Reading inverts writing, whatever follows: readVarInt takes the bytes   *)
(* that writeVarInt wrote, no more and no less, and returns its argument   *)
(* (ping.go:90-139), for integers and groups of any width.                 *)
(***************************************************************************)
THEOREM ReadingInvertsWriting ==
    ASSUME NEW v \in Values, NEW t \in Seq(Byte)
    PROVE  /\ WriteVarInt(v) \in Seq(Byte)
           /\ Reads(WriteVarInt(v) \o t, v, t)
<1> DEFINE w == WriteVarInt(v)
           bs == w \o t
<1>1. PICK g : Written(w, v, g)
  BY WritesGroups, Zenon
<1> HIDE DEF w
<1>2. /\ w \in Seq(Byte) /\ Len(w) = g
      /\ \A i \in 1 .. g : w[i].more <=> i < g
  <2>1. Groups(w, v, g)
    BY <1>1, WrittenIsBytes, Zenon
  <2> QED BY <2>1, Zenon DEF Groups
<1>3. Value(w) = v
  BY <1>1, ReadsValue, Zenon
<1>4. g \in 1 .. MaxBytes /\ g \in Nat \ {0} /\ MaxBytes \in Nat
  BY <1>1, MaxBytesPositive DEF Written
<1>5. /\ bs \in Seq(Byte) /\ Len(bs) = g + Len(t) /\ g \in 1 .. Len(bs)
      /\ \A i \in 1 .. g : bs[i] = w[i]
  BY <1>2, <1>4
<1>6. SubSeq(bs, 1, g) = w
  BY <1>2, <1>4
<1>7. SubSeq(bs, g + 1, Len(bs)) = t
  BY <1>2, <1>4
<1> HIDE DEF bs
<1>8. VarIntLen(bs) = g
  BY <1>2, <1>5, ReadsLength, Zenon
<1>9. ~NoVarInt(bs)
  BY <1>4, <1>8 DEF NoVarInt
<1>10. VarIntOf(bs) = v
  BY <1>3, <1>6, <1>8, Zenon DEF VarIntOf
<1>11. AfterVarInt(bs) = t
  BY <1>7, <1>8, Zenon DEF AfterVarInt
<1>12. Reads(bs, v, t)
  BY <1>5, <1>9, <1>10, <1>11, Zenon DEF Reads
<1> QED BY <1>2, <1>12, Zenon DEF bs, w

-----------------------------------------------------------------------------
(* Answers that are turned down *)

(***************************************************************************)
(* A ping that fails although the network did not has read a length that   *)
(* is none, or a whole packet that is no status response.                  *)
(***************************************************************************)
FailuresHaveReasons ==
    /\ pc \in {"dial", "handshake", "request", "length"} => length = 0
    /\ pc = "body" => length > 0
    /\ pc = "failed" /\ ~ioFailed =>
           \/ length = 0 /\ (NoVarInt(got) \/ ~Fits(VarIntOf(got)))
           \/ length > 0 /\ Len(got) = length /\ ~IsStatusResponse(got)

AInv == IInv /\ FailuresHaveReasons

LEMMA LengthByteKeepsReasons ==
    ASSUME AInv, ReadLength
    PROVE  FailuresHaveReasons'
<1> USE DEF FailuresHaveReasons
<1>1. PICK b \in Byte : LengthByte(Append(got, b))
  BY DEF ReadLength
<1>2. pc = "length" /\ length = 0
  BY DEF ReadLength, AInv
<1> DEFINE bytes == Append(got, b)
<1> HIDE DEF bytes
<1>3. CASE NoVarInt(bytes) /\ got' = bytes /\ UNCHANGED length
  <2>1. pc' \in {"length", "failed"}
    BY <1>1, <1>2, <1>3 DEF LengthByte, bytes
  <2>2. NoVarInt(got')
    BY <1>3, Zenon
  <2> QED BY <1>2, <1>3, <2>1, <2>2
<1>4. CASE Fits(VarIntOf(bytes)) /\ pc' = "body" /\ length' = VarIntOf(bytes)
  BY <1>4, PingAssumption DEF Fits
<1>5. CASE ~Fits(VarIntOf(bytes)) /\ pc' = "failed" /\ got' = bytes
           /\ UNCHANGED length
  <2>1. ~Fits(VarIntOf(got'))
    BY <1>5, Zenon
  <2> QED BY <1>2, <1>5, <2>1
<1> QED BY <1>1, <1>3, <1>4, <1>5 DEF LengthByte, bytes

LEMMA BodyByteKeepsReasons ==
    ASSUME AInv, ReadBody
    PROVE  FailuresHaveReasons'
<1> USE DEF FailuresHaveReasons
<1>1. PICK b \in Byte : got' = Append(got, b)
  BY DEF ReadBody
<1>2. pc = "body" /\ length > 0 /\ length \in Nat /\ length' = length
  BY PingAssumption DEF ReadBody, AInv, IInv, TypeOK
<1>3. Len(got) < length /\ got \in Seq(Byte)
  BY <1>2 DEF AInv, IInv, ReadingStops, TypeOK
<1>4. Len(got') = Len(got) + 1 /\ Len(got) \in Nat
  BY <1>1, <1>3
<1>5. CASE Len(got') < length
  BY <1>2, <1>5 DEF ReadBody
<1>6. CASE ~(Len(got') < length) /\ IsStatusResponse(got')
  BY <1>2, <1>6 DEF ReadBody
<1>7. CASE ~(Len(got') < length) /\ ~IsStatusResponse(got')
  <2>1. pc' = "failed"
    BY <1>7 DEF ReadBody
  <2>2. Len(got') = length
    BY <1>2, <1>3, <1>4, <1>7
  <2> QED BY <1>2, <1>7, <2>1, <2>2
<1> QED BY <1>5, <1>6, <1>7

LEMMA StepKeepsAInv ==
    ASSUME AInv, [Next]_vars
    PROVE  AInv'
<1> USE DEF FailuresHaveReasons, dataVars
<1>1. IInv'
  BY StepKeepsIInv DEF AInv
<1>2. FailuresHaveReasons'
  <2>1. CASE Tick
    BY <2>1 DEF Tick, AInv, Done
  <2>2. CASE IOFails
    BY <2>2 DEF IOFails, AInv, Done
  <2>3. CASE DialSucceeds
    BY <2>3 DEF DialSucceeds, AInv
  <2>4. CASE Send
    BY <2>4 DEF Send, AInv
  <2>5. CASE ReadLength
    BY <2>5, LengthByteKeepsReasons
  <2>6. CASE ReadBody
    BY <2>6, BodyByteKeepsReasons
  <2>7. CASE Again
    BY <2>7 DEF Again
  <2>8. CASE UNCHANGED vars
    <3>1. /\ pc' = pc /\ length' = length /\ got' = got
          /\ ioFailed' = ioFailed
      BY <2>8 DEF vars
    <3> QED BY <3>1, Zenon DEF AInv
  <2> QED
    BY <2>1, <2>2, <2>3, <2>4, <2>5, <2>6, <2>7, <2>8 DEF Next
<1> QED BY <1>1, <1>2 DEF AInv

\* Lengths, and the packet id, are among the values of a VarInt.
LEMMA LengthsAreValues == \A n \in 0 .. MaxPacket : n \in Values
BY PlacesSuffice, PingAssumption DEF Values

LEMMA EmptyRest ==
    ASSUME NEW w \in Seq(Byte)
    PROVE  w \o <<>> = w
BY ConcatEmptySeq

\* The length an honest server announces is read as it is.
LEMMA HonestLengthIsRead ==
    ASSUME NEW n \in 1 .. MaxPacket, got = WriteVarInt(n)
    PROVE  ~NoVarInt(got) /\ Fits(VarIntOf(got))
<1> DEFINE w == WriteVarInt(n)
<1>1. n \in Values
  BY LengthsAreValues
<1>2. w \in Seq(Byte) /\ Reads(w \o <<>>, n, <<>>)
  BY <1>1, NothingRead, ReadingInvertsWriting, Zenon
<1> HIDE DEF w
<1>3. Reads(w, n, <<>>)
  BY <1>2, EmptyRest, Zenon
<1>4. Reads(got, n, <<>>)
  BY <1>3, Zenon DEF w
<1> QED BY <1>4, Zenon DEF Reads, Fits

\* And so is its packet.
LEMMA HonestPacketIsRead ==
    ASSUME NEW json \in Seq(Byte), Len(json) \in 1 .. MaxPacket
    PROVE  IsStatusResponse(StatusResponse(json))
<1> DEFINE m == Len(json)
           id == WriteVarInt(0)
           w == WriteVarInt(m)
           rest == w \o json
<1>1. 0 \in Values /\ m \in Values /\ m > 0
  BY LengthsAreValues, PingAssumption
<1>2. w \in Seq(Byte) /\ Reads(rest, m, json)
  <2> HIDE DEF m
  <2> QED BY <1>1, ReadingInvertsWriting, Zenon
<1> HIDE DEF m, rest
<1>3. rest \in Seq(Byte)
  BY <1>2, Zenon DEF Reads
<1>4. id \in Seq(Byte) /\ Reads(id \o rest, 0, rest)
  BY <1>1, <1>3, ReadingInvertsWriting, Zenon
<1>5. StatusResponse(json) = id \o rest
  <2> HIDE DEF id, w
  <2>1. StatusResponse(json) = (id \o w) \o json
    BY Zenon DEF StatusResponse, id, w, m
  <2>2. (id \o w) \o json = id \o (w \o json)
    BY <1>2, <1>4, ConcatAssociative
  <2> QED BY <2>1, <2>2, Zenon DEF rest
<1> HIDE DEF id, w
<1> DEFINE data == id \o rest
<1>6. ~NoVarInt(data) /\ VarIntOf(data) = 0 /\ AfterVarInt(data) = rest
  BY <1>4, Zenon DEF Reads
<1>7. ~NoVarInt(rest) /\ VarIntOf(rest) > 0
  <2>1. VarIntOf(rest) = m /\ ~NoVarInt(rest)
    BY <1>2, Zenon DEF Reads
  <2> QED BY <1>1, <2>1, Zenon
<1> HIDE DEF data
<1>8. IsStatusResponse(data)
  BY <1>6, <1>7, Zenon DEF IsStatusResponse
<1> QED BY <1>5, <1>8, Zenon DEF data

(***************************************************************************)
(* A server whose answer is written the way writeVarInt writes, and which  *)
(* the network does not cut short, is never turned down, whatever the      *)
(* packet's length and content (ping.go:141-153, ping.go:74-85).           *)
(***************************************************************************)
THEOREM HonestAnswersAreAccepted == Spec => []HonestAnswerAccepted
<1>1. Init => AInv
  <2> SUFFICES ASSUME Init PROVE AInv
    OBVIOUS
  <2>1. IInv
    BY InitHasIInv
  <2>2. FailuresHaveReasons
    BY DEF Init, FailuresHaveReasons
  <2> QED BY <2>1, <2>2 DEF AInv
<1>2. AInv => HonestAnswerAccepted
  <2> SUFFICES ASSUME AInv, pc = "failed", ~ioFailed
               PROVE  /\ length = 0 =>
                           \A n \in 1 .. MaxPacket : got # WriteVarInt(n)
                      /\ length > 0 =>
                           \A k \in 1 .. length - 1 :
                               got # StatusResponse(SubSeq(got, k + 1, length))
    BY DEF HonestAnswerAccepted
  <2>1. length \in Nat /\ length <= MaxPacket /\ got \in Seq(Byte)
    BY PingAssumption DEF AInv, IInv, TypeOK
  <2>2. ASSUME length = 0, NEW n \in 1 .. MaxPacket, got = WriteVarInt(n)
        PROVE  FALSE
    <3>1. ~NoVarInt(got) /\ Fits(VarIntOf(got))
      BY <2>2, HonestLengthIsRead
    <3>2. NoVarInt(got) \/ ~Fits(VarIntOf(got))
      BY <2>2 DEF AInv, FailuresHaveReasons
    <3> QED BY <3>1, <3>2, Zenon
  <2>3. ASSUME length > 0, NEW k \in 1 .. length - 1,
               got = StatusResponse(SubSeq(got, k + 1, length))
        PROVE  FALSE
    <3> DEFINE json == SubSeq(got, k + 1, length)
    <3>1. Len(got) = length /\ ~IsStatusResponse(got)
      BY <2>1, <2>3 DEF AInv, FailuresHaveReasons
    <3>2. json \in Seq(Byte) /\ Len(json) \in 1 .. MaxPacket
      BY <2>1, <3>1, PingAssumption
    <3> HIDE DEF json
    <3>3. IsStatusResponse(StatusResponse(json))
      BY <3>2, HonestPacketIsRead, Zenon
    <3> QED BY <2>3, <3>1, <3>3, Zenon DEF json
  <2> QED BY <2>2, <2>3
<1> QED
  BY <1>1, <1>2, StepKeepsAInv, PTL DEF Spec
=============================================================================
