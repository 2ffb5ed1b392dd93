----------------------------- MODULE HealthScore ------------------------------
(***************************************************************************)
(* The strategies of the load balancer (strategy.go) and the scores they   *)
(* compare (backend.go, history.go), as functions of one snapshot of the   *)
(* backends.  A backend is a record                                        *)
(*   [healthy, disabled, conns, max, fails, trust, lat, jit, trend, hist]  *)
(* with lat, jit and trend as AvgLatency, Jitter and Trend return them and *)
(* hist = [samples, lat, jit] its record of the period.  Fractions are     *)
(* kept as numerator and denominator where Go computes with float64.       *)
(***************************************************************************)
EXTENDS Integers, Sequences, FiniteSets, SequencesExt,
        FiniteSetsExt

CONSTANT MinSamplesForUse   \* 20 in the code

ASSUME ScoreAssumption == MinSamplesForUse \in Nat

NoBackendFound == 0   \* nil; otherwise a strategy returns a position

IsUp(b) ==
    /\ ~b.disabled
    /\ b.healthy
    /\ ~(b.max > 0 /\ b.conns >= b.max)

\* Positions of the backends a strategy chooses among.
Candidates(bs) ==
    FoldLeft(LAMBDA up, i : IF IsUp(bs[i]) THEN Append(up, i) ELSE up,
             <<>>, [i \in DOMAIN bs |-> i])

-----------------------------------------------------------------------------
(* Scores *)

TrendAdjustment(t) ==
    CASE t > 20 -> -10
      [] t > 10 /\ t <= 20 -> -5
      [] t < -10 /\ t >= -20 -> 5
      [] t < -20 -> 10
      [] OTHER -> 0

\* A backend without latencies gets the full points of that part.
Share(points, least, own) ==
    IF own > 0 THEN [num |-> points * least, den |-> own]
               ELSE [num |-> points, den |-> 1]

FreeShare(b) ==
    IF b.max > 0 THEN [num |-> 20 * (b.max - b.conns), den |-> b.max]
                 ELSE [num |-> 20, den |-> 1]

RelativeHealthScore(b, minLat, minJit) ==
    LET l == Share(40, minLat, b.lat)
        j == Share(30, minJit, b.jit)
        c == FreeShare(b)
        whole == (IF b.fails = 0 THEN 10 ELSE 0) + TrendAdjustment(b.trend)
        den == l.den * j.den * c.den
        num == l.num * j.den * c.den + j.num * l.den * c.den
               + c.num * l.den * j.den + whole * den
    IN  IF b.disabled \/ ~b.healthy \/ num < 0 THEN 0
        ELSE Min({(num * b.trust) \div (100 * den), 100})

\* own is below, above that share of what is usual; the code divides floats.
Below(own, usual, percent) == own * 100 < usual * percent
Above(own, usual, percent) == own * 100 > usual * percent

HistoricalScore(b) ==
    LET h == b.hist
        latPart ==
            IF ~(h.lat > 0 /\ b.lat > 0) THEN 0
            ELSE CASE Below(b.lat, h.lat, 70) -> 8
                   [] ~Below(b.lat, h.lat, 70) /\ Below(b.lat, h.lat, 85) -> 4
                   [] Above(b.lat, h.lat, 150) -> -8
                   [] ~Above(b.lat, h.lat, 150) /\ Above(b.lat, h.lat, 120)
                      -> -4
                   [] OTHER -> 0
        jitPart ==
            IF ~(h.jit > 0 /\ b.jit > 0) THEN 0
            ELSE CASE Below(b.jit, h.jit, 70) -> 4
                   [] Above(b.jit, h.jit, 150) -> -4
                   [] OTHER -> 0
    IN  IF h.samples < MinSamplesForUse THEN 0 ELSE latPart + jitPart

-----------------------------------------------------------------------------
(* Strategies; the first of several equally good backends wins.  The random *)
(* one returns any of the candidates.                                       *)

RoundRobin(bs, counter) ==
    LET up == Candidates(bs)
    IN  IF up = <<>> THEN NoBackendFound ELSE up[(counter % Len(up)) + 1]

LeastConnections(bs) ==
    FoldLeft(LAMBDA best, i : IF best = NoBackendFound
                                 \/ bs[i].conns < bs[best].conns
                              THEN i ELSE best,
             NoBackendFound, Candidates(bs))

Sequential(bs) == SelectInSeq(bs, IsUp)

\* The least positive value, or 1.
Least(S) == LET pos == {x \in S : x > 0} IN IF pos = {} THEN 1 ELSE Min(pos)

\* Faulty: the minima are taken over all backends.
ScoreAgainstAll(bs, i) ==
    RelativeHealthScore(bs[i], Least({bs[k].lat : k \in DOMAIN bs}),
                               Least({bs[k].jit : k \in DOMAIN bs}))
    + HistoricalScore(bs[i])

Score(bs, i) ==
    LET up == {k \in DOMAIN bs : IsUp(bs[k])}
    IN  RelativeHealthScore(bs[i], Least({bs[k].lat : k \in up}),
                                   Least({bs[k].jit : k \in up}))
        + HistoricalScore(bs[i])

\* A candidate has to beat a score of -1.
BestScore(bs) ==
    FoldLeft(LAMBDA best, i :
                 IF Score(bs, i) > (IF best = NoBackendFound THEN -1
                                    ELSE Score(bs, best))
                 THEN i ELSE best,
             NoBackendFound, Candidates(bs))

-----------------------------------------------------------------------------
(* Properties *)

(***************************************************************************)
(* A strategy that returns nil makes Dial fail the player                  *)
(* (server_info.go:62).  On one snapshot it does so only if no backend is  *)
(* available.  For health-score that takes arithmetic: a candidate has to  *)
(* score above -1, and the fastest keeps enough points against loss of     *)
(* trust, a bad trend, failures and history.  And each strategy keeps to   *)
(* its name: most points, first in order, fewest connections, everyone in  *)
(* turn.                                                                   *)
(***************************************************************************)
ChoosesWell(bs) ==
    LET up == {i \in DOMAIN bs : IsUp(bs[i])}
        best == BestScore(bs)
        first == Sequential(bs)
        least == LeastConnections(bs)
        turns == {RoundRobin(bs, n) : n \in 1 .. Cardinality(up)}
    IN  IF up = {}
        THEN {best, first, least, RoundRobin(bs, 1)} = {NoBackendFound}
        ELSE /\ best \in up
             /\ \A i \in up : Score(bs, i) <= Score(bs, best)
             /\ first = Min(up)
             /\ least \in up
             /\ \A i \in up : bs[least].conns <= bs[i].conns
             /\ turns = up
=============================================================================
