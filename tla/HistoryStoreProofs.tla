-------------------------- MODULE HistoryStoreProofs --------------------------
(***************************************************************************)
(* Proofs about HistoryStore, for any number of saves and samples, and     *)
(* about the strategies of HealthScore, which use what it records: they    *)
(* choose well on any snapshot of any number of backends.                  *)
(***************************************************************************)
EXTENDS HistoryStore, HealthScore, LoopTheorems, SequenceTheorems

-----------------------------------------------------------------------------
(* The record *)

(***************************************************************************)
(* A save exists only after a sample was counted, so what it reads is      *)
(* never zero.                                                             *)
(***************************************************************************)
ReadsAreSamples ==
    /\ \A s \in Saves \ saving : args[s] = Unread
    /\ saving # {} => record.samples > 0 /\ record.avg > 0
    /\ \A s \in saving :
           /\ args[s].avg # NotRead => args[s].avg > 0
           /\ args[s].samples # NotRead => args[s].samples > 0

Consistent ==
    /\ FirstSampleIsFirst
    /\ recorder = "averaged" => record.avg > 0 /\ record.samples < MaxSamples

\* A save that runs alone reads the record as it will stay.
AloneMeansAlone ==
    alone /\ opened =>
        /\ recorder = "averaged" => saving = {}
        /\ recorder = "idle" /\ saving = {} => row = record
        /\ \A s, t \in saving : s = t
        /\ \A s \in saving :
               /\ args[s].avg \in {NotRead, record.avg}
               /\ args[s].samples \in {NotRead, record.samples}

\* What was current is at most the sample behind that is being saved.
OneBehind ==
    current =>
        /\ record.samples <= row.samples + 1
        /\ recorder = "averaged" =>
               saving = {} /\ record.samples <= row.samples
        /\ \A s \in saving : args[s].samples \in {NotRead, record.samples}

IInv == TypeOK /\ ReadsAreSamples /\ Consistent /\ AloneMeansAlone /\ OneBehind

USE HistoryAssumption DEF Count, Stats

LEMMA InitIInv == Init => IInv
  BY DEF Init, IInv, TypeOK, ReadsAreSamples, Consistent, FirstSampleIsFirst,
         AloneMeansAlone, OneBehind, Empty, Unread

LEMMA AverageIInv == IInv /\ Average => IInv'
<1> SUFFICES ASSUME IInv, Average PROVE IInv'
  OBVIOUS
<1> USE DEF IInv, TypeOK, Average, saveVars
<1>1. /\ record'.samples = record.samples
      /\ record'.avg \in Count
      /\ record'.avg > 0
      /\ record' \in Stats
  BY DEF Consistent, FirstSampleIsFirst
<1>2. TypeOK'
  <2>1. alone' \in BOOLEAN /\ current' \in BOOLEAN
    BY Zenon DEF UpToDate
  <2> QED
    BY <1>1, <2>1
<1>3. ReadsAreSamples'
  BY <1>1 DEF ReadsAreSamples
<1>4. Consistent'
  BY <1>1 DEF Consistent, FirstSampleIsFirst
<1>5. AloneMeansAlone'
  BY <1>1 DEF AloneMeansAlone
<1>6. OneBehind'
  <2>1. current' => row = record /\ saving = {}
    BY Zenon DEF UpToDate
  <2>2. recorder' = "averaged" /\ saving' = saving /\ row' = row
    OBVIOUS
  <2> QED
    BY <1>1, <2>1, <2>2 DEF OneBehind
<1> QED
  BY <1>2, <1>3, <1>4, <1>5, <1>6

LEMMA CountIInv == IInv /\ CountAndSave => IInv'
<1> SUFFICES ASSUME IInv, CountAndSave PROVE IInv'
  OBVIOUS
<1> USE DEF IInv, TypeOK, CountAndSave, historyVars
<1>1. /\ record'.samples = record.samples + 1
      /\ record'.avg = record.avg
      /\ record'.avg > 0
      /\ record' \in Stats
  BY DEF Consistent
<1>2. PICK s \in Saves \ saving : saving' = saving \cup {s}
  OBVIOUS
<1>3. args[s] = Unread
  BY <1>2 DEF ReadsAreSamples
<1>4. TypeOK'
  BY <1>1, <1>2
<1>5. ReadsAreSamples'
  BY <1>1, <1>2, <1>3 DEF ReadsAreSamples, Unread
<1>6. Consistent'
  BY <1>1 DEF Consistent, FirstSampleIsFirst
<1>7. AloneMeansAlone'
  BY <1>1, <1>2, <1>3 DEF AloneMeansAlone, Unread
<1>8. OneBehind'
  BY <1>1, <1>2, <1>3 DEF OneBehind, Unread
<1> QED
  BY <1>4, <1>5, <1>6, <1>7, <1>8

LEMMA ReadIInv ==
  ASSUME NEW s \in Saves
  PROVE  IInv /\ (ReadAvg(s) \/ ReadSamples(s)) => IInv'
<1> SUFFICES ASSUME IInv, ReadAvg(s) \/ ReadSamples(s) PROVE IInv'
  OBVIOUS
<1> USE DEF IInv, TypeOK, ReadAvg, ReadSamples, historyVars
<1>1. TypeOK'
  OBVIOUS
<1>2. s \in saving /\ UNCHANGED <<record, recorder, saving, row, opened,
                                  alone, current>>
  OBVIOUS
<1>3. ASSUME NEW t \in Saves
      PROVE  /\ t # s => args'[t] = args[t]
             /\ args'[t].avg \in {args[t].avg, record.avg}
             /\ args'[t].samples \in {args[t].samples, record.samples}
  OBVIOUS
<1>4. ReadsAreSamples'
  BY <1>2, <1>3 DEF ReadsAreSamples
<1>5. Consistent'
  BY <1>2 DEF Consistent, FirstSampleIsFirst
<1>6. AloneMeansAlone'
  BY <1>2, <1>3 DEF AloneMeansAlone
<1>7. OneBehind'
  BY <1>2, <1>3 DEF OneBehind
<1> QED
  BY <1>1, <1>4, <1>5, <1>6, <1>7

LEMMA FinishIInv ==
  ASSUME NEW s \in Saves
  PROVE  IInv /\ (NothingToSaveTo(s) \/ WriteFails(s)) => IInv'
<1> SUFFICES ASSUME IInv, NothingToSaveTo(s) \/ WriteFails(s) PROVE IInv'
  OBVIOUS
<1> USE DEF IInv, TypeOK, NothingToSaveTo, WriteFails, Finish, historyVars
<1>1. TypeOK'
  <2>1. args' \in [Saves -> [avg : Count \cup {NotRead},
                             samples : Count \cup {NotRead}]]
    BY DEF Unread
  <2>2. saving' \in SUBSET Saves
    OBVIOUS
  <2>3. alone' \in BOOLEAN
    BY Zenon
  <2> QED
    BY <2>1, <2>2, <2>3
<1>2. ReadsAreSamples'
  BY DEF ReadsAreSamples, Unread
<1>3. Consistent'
  BY DEF Consistent, FirstSampleIsFirst
<1>4. AloneMeansAlone'
  BY DEF AloneMeansAlone
<1>5. OneBehind'
  BY DEF OneBehind
<1> QED
  BY <1>1, <1>2, <1>3, <1>4, <1>5

LEMMA WriteIInv ==
  ASSUME NEW s \in Saves
  PROVE  IInv /\ Write(s) => IInv'
<1> SUFFICES ASSUME IInv, Write(s) PROVE IInv'
  OBVIOUS
<1> USE DEF IInv, TypeOK, Write, Finish, HasRead, historyVars
<1>1. args[s] \in Stats /\ args[s].avg > 0 /\ args[s].samples > 0
  BY DEF ReadsAreSamples
<1>2. TypeOK'
  BY <1>1 DEF Unread
<1>3. ReadsAreSamples'
  BY DEF ReadsAreSamples, Unread
<1>4. Consistent'
  BY <1>1 DEF Consistent, FirstSampleIsFirst
<1>5. AloneMeansAlone'
  BY <1>1 DEF AloneMeansAlone
<1>6. OneBehind'
  BY <1>1 DEF OneBehind
<1> QED
  BY <1>2, <1>3, <1>4, <1>5, <1>6

LEMMA RestartIInv == IInv /\ (Restart \/ RestartWithoutHistory) => IInv'
<1> SUFFICES ASSUME IInv, Restart \/ RestartWithoutHistory PROVE IInv'
  OBVIOUS
<1> USE DEF IInv, TypeOK, Restart, RestartWithoutHistory, ProcessStarts,
            Empty, Unread
<1>1. TypeOK'
  <2>1. alone' \in BOOLEAN /\ current' \in BOOLEAN /\ opened' \in BOOLEAN
    BY Zenon
  <2>2. record' \in Stats /\ recorder' = "idle" /\ row' = row
    OBVIOUS
  <2>3. saving' = {} /\ args' = [s \in Saves |-> Unread]
    OBVIOUS
  <2> QED
    BY <2>1, <2>2, <2>3
<1>2. ReadsAreSamples'
  BY DEF ReadsAreSamples
<1>3. Consistent'
  BY DEF Consistent, FirstSampleIsFirst
<1>4. AloneMeansAlone'
  BY DEF AloneMeansAlone
<1>5. OneBehind'
  <2>1. current' => record' = row
    BY Zenon
  <2>2. recorder' = "idle" /\ saving' = {} /\ row' = row
    OBVIOUS
  <2>3. current' => record'.samples <= row'.samples + 1
    BY <2>1, <2>2
  <2> QED
    BY <2>2, <2>3 DEF OneBehind
<1> QED
  BY <1>1, <1>2, <1>3, <1>4, <1>5

LEMMA InductiveInvariant == Spec => []IInv
<1>1. ASSUME IInv, [Next]_vars PROVE IInv'
  <2>1. CASE Average
    BY <1>1, <2>1, AverageIInv
  <2>2. CASE CountAndSave
    BY <1>1, <2>2, CountIInv
  <2>3. ASSUME NEW s \in Saves, SaveStep(s) PROVE IInv'
    BY <1>1, <2>3, ReadIInv, FinishIInv, WriteIInv DEF SaveStep
  <2>4. CASE Restart \/ RestartWithoutHistory
    BY <1>1, <2>4, RestartIInv
  <2>5. CASE UNCHANGED vars
    BY <1>1, <2>5
       DEF vars, saveVars, historyVars, IInv, TypeOK, ReadsAreSamples,
           Consistent, FirstSampleIsFirst, AloneMeansAlone, OneBehind
  <2> QED
    BY <1>1, <2>1, <2>2, <2>3, <2>4, <2>5 DEF Next
<1> QED
  BY <1>1, InitIInv, PTL DEF Spec

\* Every variable of the history keeps its type (history.go).
THEOREM TypeCorrect == Spec => []TypeOK
  BY InductiveInvariant, PTL DEF IInv

\* No average is thrown away for lack of counted samples (history.go:168).
THEOREM FirstSamplesAreFirst == Spec => []FirstSampleIsFirst
<1>1. IInv => FirstSampleIsFirst
  BY DEF IInv, Consistent
<1> QED
  BY <1>1, InductiveInvariant, PTL

\* A save that runs alone brings the row up to date (history.go:186).
THEOREM SerialSavesAreComplete == Spec => []SerialSavesLoseNothing
<1>1. IInv => SerialSavesLoseNothing
  BY DEF IInv, TypeOK, AloneMeansAlone, SerialSavesLoseNothing, Pending
<1> QED
  BY <1>1, InductiveInvariant, PTL

\* A crash costs an up-to-date row one sample at most (history.go:179).
THEOREM CrashesLoseOneSample == Spec => []CrashLosesOneSample
<1>1. IInv => CrashLosesOneSample
  BY DEF IInv, OneBehind, CrashLosesOneSample
<1> QED
  BY <1>1, InductiveInvariant, PTL

HIDE HistoryAssumption DEF Count, Stats

-----------------------------------------------------------------------------
(* The strategies *)

\* What a strategy can be given: any backends, with the trust that is kept.
BackendState == [healthy : BOOLEAN, disabled : BOOLEAN, conns : Nat, max : Int,
            fails : Nat, trust : 50 .. 100, lat : Nat, jit : Nat, trend : Int,
            hist : [samples : Nat, lat : Nat, jit : Nat]]

Up(bs) == {i \in DOMAIN bs : IsUp(bs[i])}

-----------------------------------------------------------------------------
(* Arithmetic *)

LEMMA PosProduct == \A a, b \in Nat \ {0} : a * b \in Nat \ {0}
OBVIOUS

LEMMA NatProduct == \A a, b \in Nat : a * b \in Nat
OBVIOUS

LEMMA IntProduct == \A a, b \in Int : a * b \in Int
OBVIOUS

LEMMA ProductGrows == \A a, b, c \in Int : a <= b /\ c >= 0 => a * c <= b * c
OBVIOUS

LEMMA Associates == \A a, b, c \in Int : (40 * a) * b * c = 40 * (a * b * c)
OBVIOUS

LEMMA DivBound ==
    ASSUME NEW n \in Int, NEW d \in Nat \ {0}, NEW q \in Int, q * d <= n
    PROVE  n \div d \in Int /\ q <= n \div d
OBVIOUS

LEMMA ModSmall ==
    ASSUME NEW m \in Nat \ {0}, NEW n \in 0 .. m - 1
    PROVE  n % m = n
OBVIOUS

LEMMA ModSelf == \A m \in Nat \ {0} : m % m = 0
OBVIOUS

LEMMA MinOfTwo ==
    ASSUME NEW a \in Int, NEW b \in Int
    PROVE  Min({a, b}) = IF a <= b THEN a ELSE b
<1> DEFINE m == IF a <= b THEN a ELSE b
<1>1. m \in {a, b} /\ \A y \in {a, b} : m <= y
  OBVIOUS
<1>2. \A x \in {a, b} : (\A y \in {a, b} : x <= y) => x = m
  OBVIOUS
<1> HIDE DEF m
<1>3. Min({a, b}) = m
  BY <1>1, <1>2 DEF Min
<1> QED BY <1>3 DEF m

-----------------------------------------------------------------------------
(* Scores *)

LEMMA LeastIsPositive ==
    ASSUME NEW S \in SUBSET Nat
    PROVE  /\ Least(S) \in Nat \ {0}
           /\ \A x \in S : x > 0 => Least(S) \in S /\ Least(S) <= x
<1> DEFINE pos == {x \in S : x > 0}
<1>1. pos \in SUBSET Nat
  OBVIOUS
<1>2. CASE pos = {}
  BY <1>2 DEF Least
<1>3. CASE pos # {}
  <2>1. Least(S) = Min(pos)
    BY <1>3, Zenon DEF Least
  <2>2. Min(pos) \in pos /\ \A x \in pos : Min(pos) <= x
    <3> HIDE DEF pos
    <3> QED BY <1>1, <1>3, MinIsLeast
  <2>3. \A y \in pos : y \in Nat \ {0} /\ y \in S
    OBVIOUS
  <2>4. \A x \in S : x > 0 => x \in pos
    OBVIOUS
  <2> HIDE DEF pos
  <2> QED BY <2>1, <2>2, <2>3, <2>4
<1> QED BY <1>2, <1>3

LEMMA ShareIsFraction ==
    ASSUME NEW points \in Nat, NEW least \in Nat, NEW own \in Nat
    PROVE  /\ Share(points, least, own).num \in Nat
           /\ Share(points, least, own).den \in Nat \ {0}
BY DEF Share

\* The fastest gets all the points for its latency.
LEMMA FullShare ==
    ASSUME NEW points \in Nat, NEW least \in Nat, NEW own \in Nat,
           own > 0 => own = least
    PROVE  Share(points, least, own).num
           = points * Share(points, least, own).den
BY DEF Share

LEMMA FreeShareIsFraction ==
    ASSUME NEW b \in BackendState, IsUp(b)
    PROVE  FreeShare(b).num \in Nat /\ FreeShare(b).den \in Nat \ {0}
<1>1. b.conns \in Nat /\ b.max \in Int /\ (b.max > 0 => b.conns < b.max)
  BY DEF BackendState, IsUp
<1> QED BY <1>1 DEF FreeShare

LEMMA TrendIsBounded ==
    ASSUME NEW t \in Int
    PROVE  TrendAdjustment(t) \in -10 .. 10
BY DEF TrendAdjustment

LEMMA HistoryIsBounded ==
    ASSUME NEW b \in BackendState
    PROVE  HistoricalScore(b) \in -12 .. 12
BY DEF HistoricalScore

(***************************************************************************)
(* A backend that is up has a score of 0 to 100, and at least 15 if it has *)
(* all the points for its latency: 30 of 100 remain when the trend takes   *)
(* ten, and the least trust halves them.                                   *)
(***************************************************************************)
LEMMA RelativeIsBounded ==
    ASSUME NEW b \in BackendState, IsUp(b),
           NEW minLat \in Nat \ {0}, NEW minJit \in Nat \ {0}
    PROVE  /\ RelativeHealthScore(b, minLat, minJit) \in 0 .. 100
           /\ (b.lat > 0 => b.lat = minLat)
              => RelativeHealthScore(b, minLat, minJit) >= 15
<1> DEFINE l == Share(40, minLat, b.lat)
           j == Share(30, minJit, b.jit)
           c == FreeShare(b)
           whole == (IF b.fails = 0 THEN 10 ELSE 0) + TrendAdjustment(b.trend)
           den == l.den * j.den * c.den
           A == l.num * j.den * c.den
           B == j.num * l.den * c.den
           C == c.num * l.den * j.den
           D == whole * den
           num == A + B + C + D
           total == (num * b.trust) \div (100 * den)
<1>1. /\ b.lat \in Nat /\ b.jit \in Nat /\ b.trust \in 50 .. 100
      /\ b.trend \in Int /\ b.fails \in Nat
      /\ ~b.disabled /\ b.healthy
  BY DEF BackendState, IsUp
<1>2. l.num \in Nat /\ l.den \in Nat \ {0}
  BY <1>1, ShareIsFraction
<1>3. j.num \in Nat /\ j.den \in Nat \ {0}
  BY <1>1, ShareIsFraction
<1>4. c.num \in Nat /\ c.den \in Nat \ {0}
  BY FreeShareIsFraction
<1>5. whole \in Int /\ whole >= -10
  BY <1>1, TrendIsBounded
<1>6. RelativeHealthScore(b, minLat, minJit)
      = IF num < 0 THEN 0 ELSE Min({total, 100})
  BY <1>1, Zenon DEF RelativeHealthScore
<1>7. (b.lat > 0 => b.lat = minLat) => l.num = 40 * l.den
  BY <1>1, FullShare
<1> HIDE DEF l, j, c, whole
<1>8. den \in Nat \ {0}
  BY <1>2, <1>3, <1>4, PosProduct
<1>9. A \in Nat /\ B \in Nat /\ C \in Nat
  BY <1>2, <1>3, <1>4, NatProduct
<1>10. (b.lat > 0 => b.lat = minLat) => A = 40 * den
  BY <1>2, <1>3, <1>4, <1>7, Associates
<1>11. D \in Int /\ D >= (-10) * den
  <2> HIDE DEF den
  <2>1. (-10) * den <= whole * den
    BY <1>5, <1>8, ProductGrows
  <2> QED BY <1>5, <1>8, <2>1, IntProduct
<1> HIDE DEF den, A, B, C, D
<1>12. num \in Int /\ ((b.lat > 0 => b.lat = minLat) => num >= 30 * den)
  BY <1>8, <1>9, <1>10, <1>11
<1> HIDE DEF num
<1>13. 100 * den \in Nat \ {0} /\ num * b.trust \in Int
  BY <1>1, <1>8, <1>12, IntProduct
<1>14. num >= 0 => total \in Int /\ total >= 0
  <2> SUFFICES ASSUME num >= 0 PROVE total \in Int /\ total >= 0
    OBVIOUS
  <2>1. 0 <= num * b.trust
    BY <1>1, <1>12, NatProduct
  <2>2. 0 * (100 * den) <= num * b.trust
    BY <1>8, <2>1
  <2> QED BY <1>13, <2>2, DivBound
<1>15. num >= 30 * den => total \in Int /\ total >= 15
  <2> SUFFICES ASSUME num >= 30 * den PROVE total \in Int /\ total >= 15
    OBVIOUS
  <2>1. (30 * den) * b.trust <= num * b.trust
    BY <1>1, <1>8, <1>12, ProductGrows
  <2>2. 50 * (30 * den) <= b.trust * (30 * den)
    BY <1>1, <1>8, ProductGrows
  <2>3. (30 * den) * b.trust = b.trust * (30 * den)
    BY <1>1, <1>8
  <2>4. 15 * (100 * den) = 50 * (30 * den)
    BY <1>8
  <2>5. /\ (30 * den) * b.trust \in Int /\ num * b.trust \in Int
        /\ 50 * (30 * den) \in Int
    BY <1>1, <1>8, <1>12, IntProduct
  <2>6. 15 * (100 * den) <= num * b.trust
    BY <2>1, <2>2, <2>3, <2>4, <2>5
  <2> QED BY <1>13, <2>6, DivBound
<1>16. total \in Int => Min({total, 100}) = IF total <= 100 THEN total ELSE 100
  <2> HIDE DEF total
  <2> QED BY MinOfTwo
<1>17. num >= 30 * den => num >= 0
  BY <1>8, <1>12
<1> HIDE DEF total
<1> QED BY <1>6, <1>8, <1>12, <1>14, <1>15, <1>16, <1>17

-----------------------------------------------------------------------------
(* The choice of the best *)

(***************************************************************************)
(* A loop over c that keeps the position with the greatest value, and      *)
(* starts with the first one in good.  What is not good is no better.      *)
(***************************************************************************)
Choosable(n, P, c, v, good) ==
    /\ n \in Nat
    /\ P \in SUBSET (Nat \ {0})
    /\ c \in [1 .. n -> P]
    /\ v \in [P -> Int]
    /\ good \in SUBSET P
    /\ \A i \in good, k \in P \ good : v[k] <= v[i]

Better(a, i, v, good) == IF a = 0 THEN i \in good ELSE v[i] > v[a]

Choice(n, P, c, v, good) ==
    [k \in 1 .. n |-> [a \in P \cup {0} |->
        IF Better(a, c[k], v, good) THEN c[k] ELSE a]]

IsBest(i, n, c, v) ==
    /\ \E k \in 1 .. n : i = c[k]
    /\ \A k \in 1 .. n : v[c[k]] <= v[i]

LEMMA LoopKeepsBest ==
    ASSUME NEW n, NEW P, NEW c, NEW v, NEW good,
           Choosable(n, P, c, v, good),
           NEW g, g[0] = 0,
           \A k \in 1 .. n :
               g[k] = IF Better(g[k - 1], c[k], v, good)
                      THEN c[k] ELSE g[k - 1],
           \E k \in 1 .. n : c[k] \in good
    PROVE  IsBest(g[n], n, c, v)
<1> USE DEF Choosable, Better, IsBest
<1> DEFINE None(k) == g[k] = 0 /\ \A m \in 1 .. k : c[m] \notin good
           Best(k) == /\ g[k] \in good
                      /\ \E m \in 1 .. k : g[k] = c[m]
                      /\ \A m \in 1 .. k : v[c[m]] <= v[g[k]]
           S == {k \in 0 .. n : None(k) \/ Best(k)}
<1>1. None(0) /\ 0 \in 0 .. n
  OBVIOUS
<1>2. ASSUME NEW k \in 1 .. n, None(k - 1) \/ Best(k - 1)
      PROVE  None(k) \/ Best(k)
  <2>1. /\ \A m \in 1 .. k : m \in 1 .. k - 1 \/ m = k
        /\ \A m \in 1 .. k - 1 : m \in 1 .. k
        /\ \A m \in 1 .. k : m \in 1 .. n
        /\ k \in 1 .. k
    OBVIOUS
  <2>2. \A m \in 1 .. n : c[m] \in P /\ v[c[m]] \in Int /\ c[m] # 0
    OBVIOUS
  <2>3. CASE None(k - 1) /\ c[k] \notin good
    <3>1. g[k] = 0
      BY <2>3
    <3> QED BY <2>1, <2>3, <3>1
  <2>4. CASE None(k - 1) /\ c[k] \in good
    <3>1. g[k] = c[k]
      BY <2>4
    <3>2. \A m \in 1 .. k - 1 : c[m] \in P \ good
      BY <2>1, <2>2, <2>4
    <3>3. \A m \in 1 .. k - 1 : v[c[m]] <= v[c[k]]
      BY <2>4, <3>2, Zenon
    <3>4. v[c[k]] <= v[c[k]]
      BY <2>2
    <3>5. \A m \in 1 .. k : v[c[m]] <= v[c[k]]
      BY <2>1, <3>3, <3>4, Zenon
    <3> QED BY <2>1, <2>4, <3>1, <3>5
  <2>5. CASE Best(k - 1) /\ ~(v[c[k]] > v[g[k - 1]])
    <3>1. g[k] = g[k - 1] /\ v[c[k]] <= v[g[k - 1]]
      BY <2>2, <2>5
    <3> QED BY <2>1, <2>5, <3>1
  <2>6. CASE Best(k - 1) /\ v[c[k]] > v[g[k - 1]]
    <3>1. g[k] = c[k] /\ g[k - 1] \in P /\ v[g[k - 1]] \in Int
      BY <2>2, <2>6
    <3>2. c[k] \in good
      <4>1. c[k] \in P \ good => v[c[k]] <= v[g[k - 1]]
        BY <2>6, Zenon
      <4>2. ~(v[c[k]] <= v[g[k - 1]])
        BY <2>2, <2>6, <3>1
      <4> QED BY <2>2, <4>1, <4>2, Zenon
    <3>3. \A x \in Int : x <= v[g[k - 1]] => x <= v[c[k]]
      BY <2>2, <2>6, <3>1
    <3>4. \A m \in 1 .. k - 1 : v[c[m]] <= v[c[k]]
      BY <2>1, <2>2, <2>6, <3>3, Zenon
    <3>5. v[c[k]] <= v[c[k]]
      BY <2>2
    <3>6. \A m \in 1 .. k : v[c[m]] <= v[c[k]]
      BY <2>1, <3>4, <3>5, Zenon
    <3> QED BY <2>1, <3>1, <3>2, <3>6
  <2> QED BY <1>2, <2>3, <2>4, <2>5, <2>6
<1>3. \A k \in 1 .. n : k \in 0 .. n
  OBVIOUS
<1> HIDE DEF None, Best
<1>4. 0 \in S /\ \A k \in 1 .. n : k - 1 \in S => k \in S
  BY <1>1, <1>2, <1>3, Zenon
<1>5. \A k \in 0 .. n : k \in S
  <2> HIDE DEF S
  <2> QED BY <1>4, LoopInduction, Zenon
<1>6. n \in 0 .. n
  OBVIOUS
<1>7. None(n) \/ Best(n)
  BY <1>5, <1>6, Zenon
<1> QED BY <1>7, Zenon DEF None, Best

LEMMA ChoiceIsStep ==
    ASSUME NEW n, NEW P, NEW c, NEW v, NEW good,
           Choosable(n, P, c, v, good)
    PROVE  /\ Choice(n, P, c, v, good)
              \in [1 .. n -> [P \cup {0} -> P \cup {0}]]
           /\ n \in Nat
           /\ 0 \in P \cup {0}
BY DEF Choosable, Choice

LEMMA FoldKeepsBest ==
    ASSUME NEW n, NEW P, NEW c, NEW v, NEW good,
           Choosable(n, P, c, v, good),
           \E k \in 1 .. n : c[k] \in good,
           NEW f,
           Folds(f, n, P \cup {0}, 0, Choice(n, P, c, v, good))
    PROVE  IsBest(f[1 .. n], n, c, v)
<1>1. Rounds(f, n, P \cup {0}, 0, Choice(n, P, c, v, good))
  BY ChoiceIsStep, FoldRounds, Zenon
<1>2. n \in Nat
  BY ChoiceIsStep, Zenon
<1> DEFINE g == [k \in 0 .. n |-> f[1 .. k]]
<1>3. g[0] = 0 /\ g[n] = f[1 .. n]
  BY <1>1, <1>2 DEF Rounds
<1>4. ASSUME NEW k \in 1 .. n
      PROVE  g[k] = IF Better(g[k - 1], c[k], v, good)
                    THEN c[k] ELSE g[k - 1]
  <2>1. k \in 0 .. n /\ k - 1 \in 0 .. n
    BY <1>2, Positions, Zenon
  <2>2. g[k] = f[1 .. k] /\ g[k - 1] = f[1 .. k - 1]
    BY <2>1
  <2>3. g[k - 1] \in P \cup {0}
    BY <1>1, <2>1, <2>2, Zenon DEF Rounds
  <2>4. g[k] = Choice(n, P, c, v, good)[k][g[k - 1]]
    BY <1>1, <2>2, Zenon DEF Rounds
  <2> QED BY <2>3, <2>4, Zenon DEF Choice
<1> HIDE DEF g
<1>5. IsBest(g[n], n, c, v)
  BY <1>3, <1>4, LoopKeepsBest, Zenon
<1> QED BY <1>3, <1>5, Zenon

-----------------------------------------------------------------------------
(* The candidates *)

\* The positions among the first k of the backends that are up.
UpTo(bs, k) == {i \in 1 .. k : IsUp(bs[i])}

LEMMA UpGrows ==
    ASSUME NEW bs \in Seq(BackendState), NEW k \in 1 .. Len(bs)
    PROVE  /\ UpTo(bs, k) = IF IsUp(bs[k]) THEN UpTo(bs, k - 1) \cup {k}
                            ELSE UpTo(bs, k - 1)
           /\ k \notin UpTo(bs, k - 1)
<1>1. \A i : i \in 1 .. k <=> i \in 1 .. k - 1 \/ i = k
  OBVIOUS
<1>2. k \notin 1 .. k - 1
  OBVIOUS
<1> QED BY <1>1, <1>2, Zenon DEF UpTo

\* up lists the set U, each member once.
Lists(up, U) ==
    /\ IsFiniteSet(U)
    /\ Len(up) = Cardinality(U)
    /\ \A j \in 1 .. Len(up) : up[j] \in U
    /\ \A i \in U : \E j \in 1 .. Len(up) : up[j] = i

LEMMA AppendLists ==
    ASSUME NEW n \in Nat, NEW U \in SUBSET (1 .. n), NEW up \in Seq(1 .. n),
           NEW i \in 1 .. n, i \notin U, Lists(up, U)
    PROVE  Lists(Append(up, i), U \cup {i})
<1>1. /\ IsFiniteSet(U \cup {i})
      /\ Cardinality(U \cup {i}) = Cardinality(U) + 1
  BY FS_AddElement DEF Lists
<1>2. Len(Append(up, i)) = Len(up) + 1 /\ Len(up) \in Nat
  OBVIOUS
<1>3. \A j \in 1 .. Len(up) : Append(up, i)[j] = up[j]
  OBVIOUS
<1>4. Append(up, i)[Len(up) + 1] = i
  OBVIOUS
<1>5. /\ \A j \in 1 .. Len(up) + 1 : j \in 1 .. Len(up) \/ j = Len(up) + 1
      /\ \A j \in 1 .. Len(up) : j \in 1 .. Len(up) + 1
      /\ Len(up) + 1 \in 1 .. Len(up) + 1
  BY <1>2
<1>6. \A j \in 1 .. Len(up) + 1 : Append(up, i)[j] \in U \cup {i}
  BY <1>3, <1>4, <1>5, Zenon DEF Lists
<1>7. \A x \in U \cup {i} : \E j \in 1 .. Len(up) + 1 : Append(up, i)[j] = x
  BY <1>3, <1>4, <1>5, Zenon DEF Lists
<1> QED BY <1>1, <1>2, <1>6, <1>7, Zenon DEF Lists

(***************************************************************************)
(* filterAvailable returns the backends that are up, each once.            *)
(***************************************************************************)
LEMMA CandidatesAreUp ==
    ASSUME NEW bs \in Seq(BackendState)
    PROVE  /\ Candidates(bs) \in Seq(1 .. Len(bs))
           /\ Lists(Candidates(bs), Up(bs))
<1> DEFINE n == Len(bs)
           seq == [i \in DOMAIN bs |-> i]
           B == Seq(1 .. n)
           step == [i \in 1 .. n |-> [a \in B |->
                       IF IsUp(bs[i]) THEN Append(a, i) ELSE a]]
           f == CHOOSE f : f = [s \in SUBSET (DOMAIN seq) |->
                    IF s = {} THEN <<>>
                    ELSE IF IsUp(bs[seq[Max(s)]])
                         THEN Append(f[s \ {Max(s)}], seq[Max(s)])
                         ELSE f[s \ {Max(s)}]]
<1>1. n \in Nat /\ DOMAIN seq = 1 .. n /\ DOMAIN bs = 1 .. n
  OBVIOUS
<1>2. Candidates(bs) = f[DOMAIN seq]
  BY DEF Candidates, FoldLeft, MapThenFoldSet
<1>3. \A i \in 1 .. n, a \in B :
          (IF IsUp(bs[i]) THEN Append(a, i) ELSE a) \in B
  BY AppendProperties, Zenon
<1>4. /\ step \in [1 .. n -> [B -> B]]
      /\ \A i \in 1 .. n, a \in B :
             step[i][a] = IF IsUp(bs[i]) THEN Append(a, i) ELSE a
  <2> HIDE DEF B, n
  <2> QED BY <1>3
<1>5. <<>> \in B
  OBVIOUS
<1> HIDE DEF step
<1>6. \E h : FoldsWith(h, n, B, <<>>, step)
  <2> HIDE DEF n, B
  <2> QED BY <1>1, <1>4, <1>5, FoldExists, Zenon
<1>7. PICK h : FoldsWith(h, n, B, <<>>, step)
  BY <1>6, Zenon
<1>8. \A s \in SUBSET (1 .. n) : s # {} => Max(s) \in 1 .. n
  BY <1>1, MaxIsMember
<1>9. \A s \in SUBSET (1 .. n), a \in B :
          s # {} => step[Max(s)][a] = IF IsUp(bs[seq[Max(s)]])
                                      THEN Append(a, seq[Max(s)]) ELSE a
  <2>1. \A i \in 1 .. n : seq[i] = i
    BY <1>1
  <2> QED BY <1>4, <1>8, <2>1, Zenon
<1>10. h = [s \in SUBSET (DOMAIN seq) |->
               IF s = {} THEN <<>>
               ELSE IF IsUp(bs[seq[Max(s)]])
                    THEN Append(h[s \ {Max(s)}], seq[Max(s)])
                    ELSE h[s \ {Max(s)}]]
  <2> HIDE DEF seq, B, n
  <2>1. h \in [SUBSET (1 .. n) -> B]
    BY <1>7, Zenon DEF FoldsWith
  <2>2. ASSUME NEW s \in SUBSET (1 .. n)
        PROVE  h[s] = IF s = {} THEN <<>>
                      ELSE IF IsUp(bs[seq[Max(s)]])
                           THEN Append(h[s \ {Max(s)}], seq[Max(s)])
                           ELSE h[s \ {Max(s)}]
    <3>1. h[s] = IF s = {} THEN <<>> ELSE step[Max(s)][h[s \ {Max(s)}]]
      BY <1>7, Zenon DEF FoldsWith
    <3>2. h[s \ {Max(s)}] \in B
      BY <2>1
    <3> QED BY <1>9, <3>1, <3>2, Zenon
  <2> QED BY <1>1, <2>1, <2>2, Zenon
<1>11. f = [s \in SUBSET (DOMAIN seq) |->
               IF s = {} THEN <<>>
               ELSE IF IsUp(bs[seq[Max(s)]])
                    THEN Append(f[s \ {Max(s)}], seq[Max(s)])
                    ELSE f[s \ {Max(s)}]]
  <2> HIDE DEF seq, B, n
  <2> QED BY <1>10, Zenon
<1>12. Rounds(f, n, B, <<>>, step)
  <2> HIDE DEF seq, B, n, f
  <2>1. f[{}] = <<>>
    BY <1>11, Zenon
  <2>2. \A s \in SUBSET (1 .. n) :
            s # {} /\ f[s \ {Max(s)}] \in B
            => f[s] = step[Max(s)][f[s \ {Max(s)}]]
    BY <1>1, <1>9, <1>11, Zenon
  <2>3. Folds(f, n, B, <<>>, step)
    BY <2>1, <2>2, Zenon DEF Folds
  <2> QED BY <1>1, <1>4, <1>5, <2>3, FoldRounds, Zenon
<1> HIDE DEF f
<1> DEFINE Good(k) == Lists(f[1 .. k], UpTo(bs, k))
           S == {k \in 0 .. n : Good(k)}
<1>13. Good(0)
  <2>1. UpTo(bs, 0) = {}
    BY NoPosition, Zenon DEF UpTo
  <2>2. Lists(<<>>, {})
    BY FS_EmptySet DEF Lists
  <2> QED BY <1>12, <2>1, <2>2, Zenon DEF Rounds
<1>14. ASSUME NEW k \in 1 .. n, Good(k - 1) PROVE Good(k)
  <2> HIDE DEF n, B
  <2>1. k - 1 \in 0 .. n /\ k \in 1 .. n
    BY <1>1, Positions, Zenon
  <2>2. f[1 .. k - 1] \in B
    BY <1>12, <2>1, Zenon DEF Rounds
  <2>3. f[1 .. k] = IF IsUp(bs[k]) THEN Append(f[1 .. k - 1], k)
                    ELSE f[1 .. k - 1]
    BY <1>4, <1>12, <2>2, Zenon DEF Rounds
  <2>4. /\ UpTo(bs, k) = IF IsUp(bs[k]) THEN UpTo(bs, k - 1) \cup {k}
                         ELSE UpTo(bs, k - 1)
        /\ k \notin UpTo(bs, k - 1)
    BY UpGrows, Zenon DEF n
  <2>5. UpTo(bs, k - 1) \in SUBSET (1 .. n)
    <3>1. \A i \in 1 .. k - 1 : i \in 1 .. n
      BY <1>1
    <3> QED BY <3>1, Zenon DEF UpTo
  <2>6. CASE IsUp(bs[k])
    <3>1. Lists(Append(f[1 .. k - 1], k), UpTo(bs, k - 1) \cup {k})
      BY <1>1, <1>14, <2>2, <2>4, <2>5, AppendLists, Zenon DEF B
    <3> QED BY <2>3, <2>4, <2>6, <3>1, Zenon
  <2>7. CASE ~IsUp(bs[k])
    BY <1>14, <2>3, <2>4, <2>7, Zenon
  <2> QED BY <2>6, <2>7, Zenon
<1>15. Good(n)
  <2> HIDE DEF n, Good
  <2>1. 0 \in S /\ \A k \in 1 .. n : k - 1 \in S => k \in S
    BY <1>1, <1>13, <1>14, Positions, ZeroPositions, Zenon
  <2>2. \A k \in 0 .. n : k \in S
    <3> HIDE DEF S
    <3> QED BY <1>1, <2>1, LoopInduction, Zenon
  <2>3. n \in 0 .. n
    BY <1>1
  <2> QED BY <2>2, <2>3, Zenon
<1>16. UpTo(bs, n) = Up(bs)
  BY <1>1, Zenon DEF UpTo, Up
<1>17. f[1 .. n] \in B
  <2> HIDE DEF n, B
  <2>1. n \in 0 .. n
    BY <1>1
  <2> QED BY <1>12, <2>1, Zenon DEF Rounds
<1> QED BY <1>1, <1>2, <1>15, <1>16, <1>17, Zenon

-----------------------------------------------------------------------------
(* What each strategy chooses *)

(***************************************************************************)
(* Scores of candidates are numbers, and one of them at least is above -1: *)
(* history takes twelve points at most from the fifteen of the fastest.    *)
(***************************************************************************)
LEMMA SomeScoreIsGood ==
    ASSUME NEW bs \in Seq(BackendState)
    PROVE  /\ \A i \in Up(bs) : Score(bs, i) \in Int
           /\ Up(bs) # {} => \E i \in Up(bs) : Score(bs, i) > -1
<1> DEFINE up == {k \in DOMAIN bs : IsUp(bs[k])}
           lats == {bs[k].lat : k \in up}
           jits == {bs[k].jit : k \in up}
           relative(i) == RelativeHealthScore(bs[i], Least(lats), Least(jits))
<1>1. \A i \in up : bs[i] \in BackendState /\ IsUp(bs[i])
  OBVIOUS
<1>2. \A i \in up : bs[i].lat \in Nat /\ bs[i].jit \in Nat
  BY <1>1 DEF BackendState
<1>3. lats \in SUBSET Nat /\ jits \in SUBSET Nat
  BY <1>2
<1>4. \A i \in up : bs[i].lat \in lats
  OBVIOUS
<1>5. \A x \in lats : \E i \in up : bs[i].lat = x
  OBVIOUS
<1>6. up = Up(bs)
  BY Zenon DEF Up
<1>7. \A i \in up : Score(bs, i) = relative(i) + HistoricalScore(bs[i])
  BY Zenon DEF Score
<1> HIDE DEF up, lats, jits
<1>8. /\ Least(lats) \in Nat \ {0} /\ Least(jits) \in Nat \ {0}
      /\ \A x \in lats : x > 0 => Least(lats) \in lats
  BY <1>3, LeastIsPositive, Zenon
<1>9. ASSUME NEW i \in up
      PROVE  /\ relative(i) \in 0 .. 100
             /\ HistoricalScore(bs[i]) \in -12 .. 12
             /\ (bs[i].lat > 0 => bs[i].lat = Least(lats)) => relative(i) >= 15
  BY <1>1, <1>8, RelativeIsBounded, HistoryIsBounded, Zenon
<1>10. ASSUME up # {}
       PROVE  \E i \in up : bs[i].lat > 0 => bs[i].lat = Least(lats)
  <2>1. CASE \E x \in lats : x > 0
    BY <1>5, <1>8, <2>1, Zenon
  <2>2. CASE \A x \in lats : ~(x > 0)
    BY <1>4, <1>10, <2>2, Zenon
  <2> QED BY <2>1, <2>2, Zenon
<1> HIDE DEF relative
<1>14. \A r \in 0 .. 100, q \in -12 .. 12 :
          r + q \in Int /\ (r >= 15 => r + q > -1)
  OBVIOUS
<1>11. \A i \in up : Score(bs, i) \in Int
  BY <1>7, <1>9, <1>14, Zenon
<1>12. \A i \in up : relative(i) >= 15 => Score(bs, i) > -1
  BY <1>7, <1>9, <1>14, Zenon
<1>13. up # {} => \E i \in up : Score(bs, i) > -1
  BY <1>9, <1>10, <1>12, Zenon
<1> QED BY <1>6, <1>11, <1>13, Zenon

(***************************************************************************)
(* What BestScore and LeastConnections fold over: candidates, with no      *)
(* position that is 0.                                                     *)
(***************************************************************************)
LEMMA CandidatesAreChoosable ==
    ASSUME NEW bs \in Seq(BackendState), NEW v \in [Up(bs) -> Int],
           NEW z \in Int
    PROVE  Choosable(Len(Candidates(bs)), Up(bs), Candidates(bs), v,
                     {i \in Up(bs) : v[i] > z})
<1> DEFINE c == Candidates(bs)
           P == Up(bs)
           good == {i \in P : v[i] > z}
<1>1. c \in Seq(1 .. Len(bs)) /\ Lists(c, P)
  BY CandidatesAreUp, Zenon
<1>2. Len(c) \in Nat /\ c \in [1 .. Len(c) -> P]
  <2>1. Len(c) \in Nat /\ c = [k \in 1 .. Len(c) |-> c[k]]
    <3> HIDE DEF c
    <3> QED BY <1>1
  <2> HIDE DEF c, P
  <2> QED BY <1>1, <2>1 DEF Lists
<1>3. P \in SUBSET (Nat \ {0})
  BY DEF Up
<1> HIDE DEF c, P
<1>4. good \in SUBSET P
  OBVIOUS
<1>5. \A i \in good, k \in P \ good : v[k] <= v[i]
  <2>1. \A i \in P : v[i] \in Int
    BY DEF P
  <2>2. \A i \in good : i \in P /\ v[i] > z
    OBVIOUS
  <2>3. \A k \in P \ good : k \in P /\ ~(v[k] > z)
    OBVIOUS
  <2> HIDE DEF good
  <2> QED BY <2>1, <2>2, <2>3
<1> HIDE DEF good
<1>6. v \in [P -> Int]
  BY DEF P
<1>7. Choosable(Len(c), P, c, v, good)
  BY <1>2, <1>3, <1>4, <1>5, <1>6, Zenon DEF Choosable
<1> QED BY <1>7, Zenon DEF c, P, good

\* The best of all candidates is the best of all that are up.
LEMMA BestIsUp ==
    ASSUME NEW bs \in Seq(BackendState), NEW v, NEW i,
           IsBest(i, Len(Candidates(bs)), Candidates(bs), v)
    PROVE  i \in Up(bs) /\ \A k \in Up(bs) : v[k] <= v[i]
BY CandidatesAreUp, Zenon DEF IsBest, Lists

\* What is up is listed.
LEMMA UpIsListed ==
    ASSUME NEW bs \in Seq(BackendState), NEW i \in Up(bs)
    PROVE  \E k \in 1 .. Len(Candidates(bs)) : Candidates(bs)[k] = i
BY CandidatesAreUp, Zenon DEF Lists

(***************************************************************************)
(* The health-score strategy returns an available backend, and none of     *)
(* them scores more.                                                       *)
(***************************************************************************)
LEMMA HealthScoreChoosesBest ==
    ASSUME NEW bs \in Seq(BackendState), Up(bs) # {}
    PROVE  /\ BestScore(bs) \in Up(bs)
           /\ \A i \in Up(bs) : Score(bs, i) <= Score(bs, BestScore(bs))
<1> DEFINE c == Candidates(bs)
           n == Len(c)
           P == Up(bs)
           v == [i \in P |-> Score(bs, i)]
           good == {i \in P : v[i] > -1}
           wins(best, i) == Score(bs, i) > (IF best = 0 THEN -1
                                            ELSE Score(bs, best))
           f == CHOOSE f : f = [s \in SUBSET (DOMAIN c) |->
                    IF s = {} THEN 0
                    ELSE IF wins(f[s \ {Max(s)}], c[Max(s)])
                         THEN c[Max(s)] ELSE f[s \ {Max(s)}]]
<1>1. v \in [P -> Int]
  BY SomeScoreIsGood
<1>2. Choosable(n, P, c, v, good)
  <2> HIDE DEF v
  <2>1. -1 \in Int
    OBVIOUS
  <2> QED BY <1>1, <2>1, CandidatesAreChoosable, Zenon
<1>3. \E k \in 1 .. n : c[k] \in good
  <2>1. PICK i \in P : Score(bs, i) > -1
    BY SomeScoreIsGood
  <2>2. i \in good
    BY <2>1
  <2> QED BY <2>1, <2>2, UpIsListed, Zenon
<1>4. DOMAIN c = 1 .. n
  <2>1. c \in Seq(1 .. Len(bs))
    BY CandidatesAreUp, Zenon
  <2> QED BY <2>1
<1>5. BestScore(bs) = f[DOMAIN c]
  BY DEF BestScore, FoldLeft, MapThenFoldSet, NoBackendFound
<1>6. \A best \in P \cup {0}, i \in P :
          wins(best, i) <=> Better(best, i, v, good)
  BY <1>2 DEF Better, Choosable
<1> HIDE DEF v, good, wins
<1>7. PICK h : FoldsWith(h, n, P \cup {0}, 0, Choice(n, P, c, v, good))
  BY <1>2, ChoiceIsStep, FoldExists, Zenon
<1>8. \A s \in SUBSET (1 .. n) : s # {} => Max(s) \in 1 .. n
  BY <1>2, ChoiceIsStep, MaxIsMember, Zenon
<1>9. \A s \in SUBSET (1 .. n), a \in P \cup {0} :
          s # {} => Choice(n, P, c, v, good)[Max(s)][a]
                    = IF wins(a, c[Max(s)]) THEN c[Max(s)] ELSE a
  <2>1. \A k \in 1 .. n : c[k] \in P
    BY <1>2 DEF Choosable
  <2>2. \A k \in 1 .. n, a \in P \cup {0} :
            Choice(n, P, c, v, good)[k][a]
            = IF Better(a, c[k], v, good) THEN c[k] ELSE a
    BY Zenon DEF Choice
  <2> QED BY <1>6, <1>8, <2>1, <2>2, Zenon
<1>10. h = [s \in SUBSET (DOMAIN c) |->
               IF s = {} THEN 0
               ELSE IF wins(h[s \ {Max(s)}], c[Max(s)])
                    THEN c[Max(s)] ELSE h[s \ {Max(s)}]]
  <2> HIDE DEF n, c, P, f
  <2>1. h \in [SUBSET (1 .. n) -> P \cup {0}]
    BY <1>7, Zenon DEF FoldsWith
  <2>2. ASSUME NEW s \in SUBSET (1 .. n)
        PROVE  h[s] = IF s = {} THEN 0
                      ELSE IF wins(h[s \ {Max(s)}], c[Max(s)])
                           THEN c[Max(s)] ELSE h[s \ {Max(s)}]
    <3>1. h[s] = IF s = {} THEN 0
                 ELSE Choice(n, P, c, v, good)[Max(s)][h[s \ {Max(s)}]]
      BY <1>7, Zenon DEF FoldsWith
    <3>2. h[s \ {Max(s)}] \in P \cup {0}
      BY <2>1
    <3> QED BY <1>9, <3>1, <3>2, Zenon
  <2> QED BY <1>4, <2>1, <2>2, Zenon
<1>11. f = [s \in SUBSET (DOMAIN c) |->
               IF s = {} THEN 0
               ELSE IF wins(f[s \ {Max(s)}], c[Max(s)])
                    THEN c[Max(s)] ELSE f[s \ {Max(s)}]]
  <2> HIDE DEF n, c, P
  <2> QED BY <1>10, Zenon
<1>12. Folds(f, n, P \cup {0}, 0, Choice(n, P, c, v, good))
  <2> HIDE DEF n, c, P, f
  <2>1. f[{}] = 0
    BY <1>11, Zenon
  <2>2. ASSUME NEW s \in SUBSET (1 .. n), s # {},
               f[s \ {Max(s)}] \in P \cup {0}
        PROVE  f[s] = Choice(n, P, c, v, good)[Max(s)][f[s \ {Max(s)}]]
    <3>1. f[s] = IF wins(f[s \ {Max(s)}], c[Max(s)])
                 THEN c[Max(s)] ELSE f[s \ {Max(s)}]
      BY <1>4, <1>11, <2>2, Zenon
    <3> QED BY <1>9, <2>2, <3>1, Zenon
  <2> QED BY <2>1, <2>2, Zenon DEF Folds
<1>13. IsBest(f[1 .. n], n, c, v)
  <2> HIDE DEF n, c, P, f
  <2> QED BY <1>2, <1>3, <1>12, FoldKeepsBest, Zenon
<1> DEFINE best == f[1 .. n]
<1>14. BestScore(bs) = best
  BY <1>4, <1>5
<1> HIDE DEF f
<1>15. best \in P /\ \A i \in P : v[i] <= v[best]
  BY <1>13, BestIsUp, Zenon
<1> QED BY <1>14, <1>15, Zenon DEF v

(***************************************************************************)
(* The least-connections strategy returns an available backend, and none   *)
(* of them has fewer connections.                                          *)
(***************************************************************************)
LEMMA LeastConnectionsChoosesFewest ==
    ASSUME NEW bs \in Seq(BackendState), Up(bs) # {}
    PROVE  /\ LeastConnections(bs) \in Up(bs)
           /\ \A i \in Up(bs) : bs[LeastConnections(bs)].conns <= bs[i].conns
<1> DEFINE c == Candidates(bs)
           n == Len(c)
           P == Up(bs)
           v == [i \in P |-> -bs[i].conns]
           good == P
           wins(best, i) == best = 0 \/ bs[i].conns < bs[best].conns
           f == CHOOSE f : f = [s \in SUBSET (DOMAIN c) |->
                    IF s = {} THEN 0
                    ELSE IF wins(f[s \ {Max(s)}], c[Max(s)])
                         THEN c[Max(s)] ELSE f[s \ {Max(s)}]]
<1>0. \A i \in P : bs[i].conns \in Nat /\ i \in Nat \ {0}
  <2>1. \A i \in P : bs[i] \in BackendState /\ i \in Nat \ {0}
    BY DEF Up
  <2> HIDE DEF P
  <2> QED BY <2>1 DEF BackendState
<1>1. v \in [P -> Int]
  BY <1>0
<1>2. Choosable(n, P, c, v, good)
  <2> DEFINE none == {i \in P : v[i] > 0}
  <2>1. Choosable(n, P, c, v, none)
    <3> HIDE DEF v
    <3>1. 0 \in Int
      OBVIOUS
    <3> QED BY <1>1, <3>1, CandidatesAreChoosable, Zenon
  <2> HIDE DEF none, v, n, c, P
  <2> QED BY <2>1, Zenon DEF Choosable
<1>3. \E k \in 1 .. n : c[k] \in good
  <2>1. PICK i \in P : TRUE
    OBVIOUS
  <2> QED BY <2>1, UpIsListed, Zenon
<1>4. DOMAIN c = 1 .. n
  <2>1. c \in Seq(1 .. Len(bs))
    BY CandidatesAreUp, Zenon
  <2> QED BY <2>1
<1>5. LeastConnections(bs) = f[DOMAIN c]
  BY DEF LeastConnections, FoldLeft, MapThenFoldSet, NoBackendFound
<1>6. \A best \in P \cup {0}, i \in P :
          wins(best, i) <=> Better(best, i, v, good)
  BY <1>0 DEF Better
<1> HIDE DEF v, good, wins
<1>7. PICK h : FoldsWith(h, n, P \cup {0}, 0, Choice(n, P, c, v, good))
  BY <1>2, ChoiceIsStep, FoldExists, Zenon
<1>8. \A s \in SUBSET (1 .. n) : s # {} => Max(s) \in 1 .. n
  BY <1>2, ChoiceIsStep, MaxIsMember, Zenon
<1>9. \A s \in SUBSET (1 .. n), a \in P \cup {0} :
          s # {} => Choice(n, P, c, v, good)[Max(s)][a]
                    = IF wins(a, c[Max(s)]) THEN c[Max(s)] ELSE a
  <2>1. \A k \in 1 .. n : c[k] \in P
    BY <1>2 DEF Choosable
  <2>2. \A k \in 1 .. n, a \in P \cup {0} :
            Choice(n, P, c, v, good)[k][a]
            = IF Better(a, c[k], v, good) THEN c[k] ELSE a
    BY Zenon DEF Choice
  <2> QED BY <1>6, <1>8, <2>1, <2>2, Zenon
<1>10. h = [s \in SUBSET (DOMAIN c) |->
               IF s = {} THEN 0
               ELSE IF wins(h[s \ {Max(s)}], c[Max(s)])
                    THEN c[Max(s)] ELSE h[s \ {Max(s)}]]
  <2> HIDE DEF n, c, P, f
  <2>1. h \in [SUBSET (1 .. n) -> P \cup {0}]
    BY <1>7, Zenon DEF FoldsWith
  <2>2. ASSUME NEW s \in SUBSET (1 .. n)
        PROVE  h[s] = IF s = {} THEN 0
                      ELSE IF wins(h[s \ {Max(s)}], c[Max(s)])
                           THEN c[Max(s)] ELSE h[s \ {Max(s)}]
    <3>1. h[s] = IF s = {} THEN 0
                 ELSE Choice(n, P, c, v, good)[Max(s)][h[s \ {Max(s)}]]
      BY <1>7, Zenon DEF FoldsWith
    <3>2. h[s \ {Max(s)}] \in P \cup {0}
      BY <2>1
    <3> QED BY <1>9, <3>1, <3>2, Zenon
  <2> QED BY <1>4, <2>1, <2>2, Zenon
<1>11. f = [s \in SUBSET (DOMAIN c) |->
               IF s = {} THEN 0
               ELSE IF wins(f[s \ {Max(s)}], c[Max(s)])
                    THEN c[Max(s)] ELSE f[s \ {Max(s)}]]
  <2> HIDE DEF n, c, P
  <2> QED BY <1>10, Zenon
<1>12. Folds(f, n, P \cup {0}, 0, Choice(n, P, c, v, good))
  <2> HIDE DEF n, c, P, f
  <2>1. f[{}] = 0
    BY <1>11, Zenon
  <2>2. ASSUME NEW s \in SUBSET (1 .. n), s # {},
               f[s \ {Max(s)}] \in P \cup {0}
        PROVE  f[s] = Choice(n, P, c, v, good)[Max(s)][f[s \ {Max(s)}]]
    <3>1. f[s] = IF wins(f[s \ {Max(s)}], c[Max(s)])
                 THEN c[Max(s)] ELSE f[s \ {Max(s)}]
      BY <1>4, <1>11, <2>2, Zenon
    <3> QED BY <1>9, <2>2, <3>1, Zenon
  <2> QED BY <2>1, <2>2, Zenon DEF Folds
<1>13. IsBest(f[1 .. n], n, c, v)
  <2> HIDE DEF n, c, P, f
  <2> QED BY <1>2, <1>3, <1>12, FoldKeepsBest, Zenon
<1> DEFINE best == f[1 .. n]
<1>14. LeastConnections(bs) = best
  BY <1>4, <1>5
<1> HIDE DEF f
<1>15. best \in P /\ \A i \in P : v[i] <= v[best]
  BY <1>13, BestIsUp, Zenon
<1> HIDE DEF best, P
<1>16. \A i \in P : bs[best].conns <= bs[i].conns
  BY <1>0, <1>15 DEF v
<1> QED BY <1>14, <1>15, <1>16, Zenon DEF P

\* The sequential strategy returns the first available backend.
LEMMA SequentialChoosesFirst ==
    ASSUME NEW bs \in Seq(BackendState)
    PROVE  Sequential(bs) = IF Up(bs) = {} THEN 0 ELSE Min(Up(bs))
<1>1. Up(bs) = {i \in 1 .. Len(bs) : IsUp(bs[i])}
  BY DEF Up
<1> QED BY <1>1 DEF Sequential, SelectInSeq

(***************************************************************************)
(* As many calls of the round-robin strategy as there are available        *)
(* backends use every one of them.                                         *)
(***************************************************************************)
LEMMA RoundRobinTakesTurns ==
    ASSUME NEW bs \in Seq(BackendState), Up(bs) # {}
    PROVE  {RoundRobin(bs, k) : k \in 1 .. Cardinality(Up(bs))} = Up(bs)
<1> DEFINE c == Candidates(bs)
           n == Len(c)
           turn(k) == c[(k % n) + 1]
<1>1. c \in Seq(1 .. Len(bs)) /\ Lists(c, Up(bs))
  BY CandidatesAreUp, Zenon
<1>2. c # <<>> /\ n \in Nat \ {0} /\ n = Cardinality(Up(bs))
  <2>1. PICK i \in Up(bs) : TRUE
    OBVIOUS
  <2>2. PICK k \in 1 .. n : c[k] = i
    BY UpIsListed, Zenon
  <2>3. n \in Nat
    <3> HIDE DEF c
    <3> QED BY <1>1
  <2>4. n # 0
    BY <2>2, <2>3
  <2>5. c # <<>>
    BY <2>4
  <2> QED BY <1>1, <2>3, <2>4, <2>5, Zenon DEF Lists
<1>3. \A k : RoundRobin(bs, k) = turn(k)
  BY <1>2, Zenon DEF RoundRobin
<1> HIDE DEF c
<1>4. ASSUME NEW k \in 1 .. n PROVE (k % n) + 1 \in 1 .. n
  BY <1>2, ModSmall, ModSelf
<1>5. ASSUME NEW j \in 1 .. n PROVE \E k \in 1 .. n : (k % n) + 1 = j
  <2>1. CASE j = 1
    <3>1. n \in 1 .. n /\ (n % n) + 1 = 1
      BY <1>2, ModSelf
    <3> QED BY <2>1, <3>1, Zenon
  <2>2. CASE j # 1
    <3>1. j - 1 \in 1 .. n /\ j - 1 \in 0 .. n - 1 /\ (j - 1) + 1 = j
      BY <1>2, <2>2
    <3>2. (j - 1) % n = j - 1
      BY <1>2, <3>1, ModSmall, Zenon
    <3> QED BY <3>1, <3>2, Zenon
  <2> QED BY <2>1, <2>2
<1>6. \A k \in 1 .. n : turn(k) \in Up(bs)
  BY <1>1, <1>4, Zenon DEF Lists
<1>7. \A i \in Up(bs) : \E k \in 1 .. n : turn(k) = i
  <2>1. \A i \in Up(bs) : \E j \in 1 .. n : c[j] = i
    BY <1>1, Zenon DEF Lists
  <2> QED BY <2>1, <1>5, Zenon
<1> HIDE DEF turn, n
<1>8. \A k \in 1 .. n : RoundRobin(bs, k) \in Up(bs)
  BY <1>3, <1>6, Zenon
<1>9. \A i \in Up(bs) : \E k \in 1 .. n : i = RoundRobin(bs, k)
  BY <1>3, <1>7, Zenon
<1>10. {RoundRobin(bs, k) : k \in 1 .. n} = Up(bs)
  BY <1>8, <1>9, Zenon
<1> QED BY <1>2, <1>10, Zenon

\* Without an available backend no strategy returns one.
LEMMA NothingUp ==
    ASSUME NEW bs \in Seq(BackendState), Up(bs) = {}
    PROVE  /\ BestScore(bs) = 0
           /\ LeastConnections(bs) = 0
           /\ RoundRobin(bs, 1) = 0
<1> DEFINE c == Candidates(bs)
           score(best, i) == IF Score(bs, i) > (IF best = 0 THEN -1
                                                ELSE Score(bs, best))
                             THEN i ELSE best
           conns(best, i) == IF best = 0 \/ bs[i].conns < bs[best].conns
                             THEN i ELSE best
<1>1. c = <<>>
  <2>1. c \in Seq(1 .. Len(bs)) /\ Lists(c, {})
    BY CandidatesAreUp, Zenon
  <2>2. Len(c) = 0
    BY <2>1, FS_EmptySet, Zenon DEF Lists
  <2> HIDE DEF c
  <2> QED BY <2>1, <2>2
<1>2. DOMAIN c = {}
  BY <1>1
<1>3. RoundRobin(bs, 1) = 0
  BY <1>1, Zenon DEF RoundRobin, NoBackendFound
<1> DEFINE f == CHOOSE f : f = [s \in SUBSET (DOMAIN c) |->
                    IF s = {} THEN 0
                    ELSE score(f[s \ {Max(s)}], c[Max(s)])]
           g == CHOOSE g : g = [s \in SUBSET (DOMAIN c) |->
                    IF s = {} THEN 0
                    ELSE conns(g[s \ {Max(s)}], c[Max(s)])]
<1>4. BestScore(bs) = f[DOMAIN c]
  BY DEF BestScore, FoldLeft, MapThenFoldSet, NoBackendFound
<1>5. LeastConnections(bs) = g[DOMAIN c]
  BY DEF LeastConnections, FoldLeft, MapThenFoldSet, NoBackendFound
<1> DEFINE h == [s \in {{}} |-> 0]
<1> HIDE DEF c, score, conns
<1>6. \A s : s \in SUBSET (DOMAIN c) <=> s = {}
  BY <1>2, Zenon
<1>7. h = [s \in SUBSET (DOMAIN c) |-> IF s = {} THEN 0
                    ELSE score(h[s \ {Max(s)}], c[Max(s)])]
  BY <1>6
<1>8. h = [s \in SUBSET (DOMAIN c) |-> IF s = {} THEN 0
                    ELSE conns(h[s \ {Max(s)}], c[Max(s)])]
  BY <1>6
<1> HIDE DEF h
<1>9. f = [s \in SUBSET (DOMAIN c) |-> IF s = {} THEN 0
                    ELSE score(f[s \ {Max(s)}], c[Max(s)])]
  BY <1>7, Zenon
<1>10. g = [s \in SUBSET (DOMAIN c) |-> IF s = {} THEN 0
                    ELSE conns(g[s \ {Max(s)}], c[Max(s)])]
  BY <1>8, Zenon
<1> HIDE DEF f, g
<1>11. f[DOMAIN c] = 0
  BY <1>2, <1>9, Zenon
<1>12. g[DOMAIN c] = 0
  BY <1>2, <1>10, Zenon
<1> QED BY <1>3, <1>4, <1>5, <1>11, <1>12, Zenon

(***************************************************************************)
(* On any snapshot of any number of backends every strategy finds an       *)
(* available backend if there is one, and keeps to its name.               *)
(***************************************************************************)
THEOREM StrategiesChooseWell == \A bs \in Seq(BackendState) : ChoosesWell(bs)
<1> SUFFICES ASSUME NEW bs \in Seq(BackendState) PROVE ChoosesWell(bs)
  OBVIOUS
<1> DEFINE best == BestScore(bs)
           first == Sequential(bs)
           least == LeastConnections(bs)
           turns == {RoundRobin(bs, n) : n \in 1 .. Cardinality(Up(bs))}
<1>1. ChoosesWell(bs) <=>
          IF Up(bs) = {}
          THEN {best, first, least, RoundRobin(bs, 1)} = {NoBackendFound}
          ELSE /\ best \in Up(bs)
               /\ \A i \in Up(bs) : Score(bs, i) <= Score(bs, best)
               /\ first = Min(Up(bs))
               /\ least \in Up(bs)
               /\ \A i \in Up(bs) : bs[least].conns <= bs[i].conns
               /\ turns = Up(bs)
  BY Zenon DEF ChoosesWell, Up
<1>2. CASE Up(bs) # {}
  BY <1>1, <1>2, HealthScoreChoosesBest, SequentialChoosesFirst,
     LeastConnectionsChoosesFewest, RoundRobinTakesTurns, Zenon
<1>3. CASE Up(bs) = {}
  <2>1. best = 0 /\ least = 0 /\ RoundRobin(bs, 1) = 0
    BY <1>3, NothingUp, Zenon
  <2>2. first = 0
    BY <1>3, SequentialChoosesFirst, Zenon
  <2> HIDE DEF best, first, least
  <2> QED BY <1>1, <1>3, <2>1, <2>2, Zenon DEF NoBackendFound
<1> QED BY <1>2, <1>3

=============================================================================
