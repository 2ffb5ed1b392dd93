---------------------------- MODULE MCHistoryStore ----------------------------
(***************************************************************************)
(* Instances of HistoryStore for TLC, together with the strategies that    *)
(* use the record (HealthScore) on two backends: each is up or down, has   *)
(* no limit or one free place, no, a short or a long latency and jitter,   *)
(* and everything that costs points: failures, least trust, and with or    *)
(* without a worsening trend and a past of n samples that was better.      *)
(***************************************************************************)
EXTENDS HistoryStore, HealthScore

CONSTANT Times   \* latencies and jitters

ASSUME TimesAssumption == Times \subseteq Nat

Loads == {[healthy |-> TRUE, conns |-> 0, max |-> 0],
          [healthy |-> TRUE, conns |-> 9, max |-> 10],
          [healthy |-> TRUE, conns |-> 10, max |-> 10],
          [healthy |-> FALSE, conns |-> 0, max |-> 10]}

Snapshots(n) ==
    {[healthy |-> c.healthy, disabled |-> FALSE, conns |-> c.conns,
      max |-> c.max, fails |-> 1, trust |-> 50, lat |-> l, jit |-> j,
      trend |-> t, hist |-> [samples |-> m, lat |-> 1, jit |-> 1]] :
        c \in Loads, l \in Times, j \in Times, t \in {0, 25}, m \in {0, n}}

\* Scores depend on n only through n >= MinSamplesForUse.
FoundWithout == \A a, b \in Snapshots(0) : ChoosesWell(<<a, b>>)
FoundWith == \A a, b \in Snapshots(MinSamplesForUse) : ChoosesWell(<<a, b>>)

(***************************************************************************)
(* Whatever number of samples Record, torn rows and restarts have left in  *)
(* the record, on a consistent snapshot of the backends every strategy     *)
(* finds an available one if there is one.                                 *)
(***************************************************************************)
SelectFindsAvailable ==
    IF record.samples < MinSamplesForUse THEN FoundWithout ELSE FoundWith
=============================================================================
