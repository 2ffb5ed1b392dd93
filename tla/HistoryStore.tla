----------------------------- MODULE HistoryStore -----------------------------
(***************************************************************************)
(* Latency history (internal/loadbalancer/history.go): the record of one   *)
(* backend and 15-minute period, kept in memory, and its row in the        *)
(* database.  Record changes the record under a mutex and starts a         *)
(* goroutine that reads it again, without the mutex, and writes the row.   *)
(*                                                                         *)
(* An average (latency and jitter move together) is represented by the     *)
(* number of samples in it (up to MaxSamples), so that avg and samples     *)
(* agree in a record nothing has torn.                                     *)
(***************************************************************************)
EXTENDS Integers

CONSTANTS
    Saves,        \* goroutines running savePeriodStats at a time (a bound)
    MaxSamples,   \* bound on the samples of the period
    NotRead       \* stands for a field a save has not read yet

ASSUME HistoryAssumption ==
    /\ MaxSamples \in Nat
    /\ NotRead \notin Nat

VARIABLES
    record,    \* the PeriodStats in hm.cache
    recorder,  \* where the health checker is in Record
    saving,    \* which saves have been started
    args,      \* the arguments of each save's statement, as far as read
    row,       \* the row of period_stats; no samples: there is none
    opened,    \* hm.db is not nil
    alone,     \* history: the last sample's save had the row to itself
    current    \* history: the row was up to date before the last sample

saveVars == <<saving, args>>
historyVars == <<alone, current>>
vars == <<record, recorder, saveVars, row, opened, historyVars>>

Count == 0 .. MaxSamples
Stats == [avg : Count, samples : Count]
Empty == [avg |-> 0, samples |-> 0]
Unread == [avg |-> NotRead, samples |-> NotRead]

TypeOK ==
    /\ record \in Stats
    /\ recorder \in {"idle", "averaged"}
    /\ saving \in SUBSET Saves
    /\ args \in [Saves -> [avg : Count \cup {NotRead},
                           samples : Count \cup {NotRead}]]
    /\ row \in Stats
    /\ opened \in BOOLEAN
    /\ alone \in BOOLEAN
    /\ current \in BOOLEAN

Init ==
    /\ record = Empty
    /\ recorder = "idle"
    /\ saving = {}
    /\ args = [s \in Saves |-> Unread]
    /\ row = Empty
    /\ opened \in BOOLEAN
    /\ alone = TRUE
    /\ current = TRUE

UpToDate == row = record /\ saving = {}

-----------------------------------------------------------------------------
(* Record, under the mutex *)

\* The first sample is the average, a later one is folded into it.
Average ==
    /\ recorder = "idle"
    /\ record.samples < MaxSamples
    /\ record' = [record EXCEPT
           !.avg = IF record.samples = 0 THEN 1
                   ELSE IF @ < MaxSamples THEN @ + 1 ELSE @]
    /\ recorder' = "averaged"
    /\ alone' = (saving = {} /\ opened)
    /\ current' = UpToDate
    /\ UNCHANGED <<saveVars, row, opened>>

\* Faulty: the save is started before the sample is counted.
SaveAndCount ==
    \/ /\ recorder = "averaged"
       /\ \E s \in Saves \ saving :
              /\ saving' = saving \cup {s}
              /\ args' = [args EXCEPT ![s] = Unread]
       /\ recorder' = "saving"
       /\ UNCHANGED <<record, row, opened, historyVars>>
    \/ /\ recorder = "saving"
       /\ record' = [record EXCEPT !.samples = @ + 1]
       /\ recorder' = "idle"
       /\ UNCHANGED <<saveVars, row, opened, historyVars>>

\* Samples++, and the save is started.
CountAndSave ==
    /\ recorder = "averaged"
    /\ record' = [record EXCEPT !.samples = @ + 1]
    /\ \E s \in Saves \ saving : saving' = saving \cup {s}
    /\ recorder' = "idle"
    /\ UNCHANGED <<args, row, opened, historyVars>>

-----------------------------------------------------------------------------
(* savePeriodStats, without the mutex *)

Finish(s) ==
    /\ saving' = saving \ {s}
    /\ args' = [args EXCEPT ![s] = Unread]

NothingToSaveTo(s) ==
    /\ s \in saving
    /\ ~opened
    /\ Finish(s)
    /\ UNCHANGED <<record, recorder, row, opened, historyVars>>

\* The fields are read one by one; no rule of Go says in which order.
ReadAvg(s) ==
    /\ s \in saving
    /\ opened
    /\ args[s].avg = NotRead
    /\ args' = [args EXCEPT ![s].avg = record.avg]
    /\ UNCHANGED <<record, recorder, saving, row, opened, historyVars>>

ReadSamples(s) ==
    /\ s \in saving
    /\ opened
    /\ args[s].samples = NotRead
    /\ args' = [args EXCEPT ![s].samples = record.samples]
    /\ UNCHANGED <<record, recorder, saving, row, opened, historyVars>>

HasRead(s) == args[s].avg # NotRead /\ args[s].samples # NotRead

\* Faulty: INSERT OR IGNORE for INSERT OR REPLACE.
WriteIgnored(s) ==
    /\ s \in saving
    /\ HasRead(s)
    /\ row' = IF row = Empty THEN args[s] ELSE row
    /\ Finish(s)
    /\ UNCHANGED <<record, recorder, opened, historyVars>>

\* Faulty: the old row is deleted first, and the new one inserted later.
WriteDeletesFirst(s) ==
    /\ s \in saving
    /\ HasRead(s)
    /\ \/ /\ row # Empty
          /\ row' = Empty
          /\ UNCHANGED saveVars
       \/ /\ row = Empty
          /\ row' = args[s]
          /\ Finish(s)
    /\ UNCHANGED <<record, recorder, opened, historyVars>>

\* INSERT OR REPLACE.
Write(s) ==
    /\ s \in saving
    /\ HasRead(s)
    /\ row' = args[s]
    /\ Finish(s)
    /\ UNCHANGED <<record, recorder, opened, historyVars>>

\* The error is dropped: the database was locked, or the disk full.
WriteFails(s) ==
    /\ s \in saving
    /\ HasRead(s)
    /\ Finish(s)
    /\ alone' = FALSE
    /\ UNCHANGED <<record, recorder, row, opened, current>>

-----------------------------------------------------------------------------
(* NewHistoryManager after the process ended, at whatever point it was *)

ProcessStarts ==
    /\ recorder' = "idle"
    /\ saving' = {}
    /\ args' = [s \in Saves |-> Unread]
    /\ UNCHANGED row

\* Faulty: a period without a row has no record at all.
RestartLeavesNil ==
    /\ ProcessStarts
    /\ record' = IF row = Empty THEN NotRead ELSE row
    /\ opened' = TRUE
    /\ alone' = TRUE
    /\ current' = TRUE

\* initDB and loadFromDB: what is not in the database starts empty.
Restart ==
    /\ ProcessStarts
    /\ record' = row
    /\ opened' = TRUE
    /\ alone' = TRUE
    /\ current' = TRUE

\* The database cannot be opened, or cannot be read: all starts empty.
RestartWithoutHistory ==
    /\ ProcessStarts
    /\ record' = Empty
    /\ opened' \in BOOLEAN
    /\ alone' = (row = Empty)
    /\ current' = (row = Empty)

-----------------------------------------------------------------------------

SaveStep(s) ==
    \/ NothingToSaveTo(s) \/ ReadAvg(s) \/ ReadSamples(s)
    \/ Write(s) \/ WriteFails(s)

Next ==
    \/ Average \/ CountAndSave
    \/ \E s \in Saves : SaveStep(s)
    \/ Restart \/ RestartWithoutHistory

Spec == Init /\ [][Next]_vars

-----------------------------------------------------------------------------
(* Properties *)

Pending == recorder = "averaged" \/ saving # {}

(***************************************************************************)
(* Record takes a period without samples for a new one and overwrites its  *)
(* average (history.go:168).  That never throws an average away: in memory *)
(* between two calls of Record, and in a row however its save was torn, no *)
(* samples means no average, and an average has samples.                   *)
(***************************************************************************)
FirstSampleIsFirst ==
    /\ recorder = "idle" => (record.samples = 0 <=> record.avg = 0)
    /\ row.samples = 0 <=> row.avg = 0

(***************************************************************************)
(* The database heals: after a sample that found no save under way and     *)
(* whose own write succeeds, the row is the record, whatever overlapping,  *)
(* torn, failed or reordered writes there were before.                     *)
(***************************************************************************)
SerialSavesLoseNothing == alone /\ opened /\ ~Pending => row = record

(***************************************************************************)
(* If the row was up to date when the last sample arrived, the process may *)
(* end at any moment, and the write may fail: a restart that can read the  *)
(* database loses that sample at most.                                     *)
(***************************************************************************)
CrashLosesOneSample == current => record.samples <= row.samples + 1
=============================================================================
