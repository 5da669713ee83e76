---------------------------- MODULE RunLedgerProofs ----------------------------
(***************************************************************************)
(* Theorems about the run ledger, for any number of runs, reapers and      *)
(* waiters and whatever the retention limits remove.                       *)
(***************************************************************************)
EXTENDS RunLedger, FiniteSetTheorems, WellFoundedInduction, TLAPS

(***************************************************************************)
(* The inductive invariant: what holds of each run, reaper and waiter.     *)
(***************************************************************************)

(* An id that is not allocated yet has left no trace; a created entry       *)
(* waits for its runner; only a finish record carries an outcome; a         *)
(* recorded pid is a runner's, and a runner at work has recorded its own.   *)
HistoryOK(r) ==
    /\ ~Allocated(r) => entry[r] = Absent /\ runner[r] = "none"
    /\ front[r] = "created" => /\ entry[r].state = "running" /\ ~entry[r].orphaned
                               /\ runner[r] = "none"
    /\ front[r] = "launched" => runner[r] # "none"
    /\ entry[r].state # "finished" => entry[r].rc = "none"
    /\ entry[r].pid => runner[r] # "none"
    /\ runner[r] \in {"working", "ending"} => entry[r].pid
    /\ runner[r] = "ending" => code[r] \in {"ok", "failed"}

(* LiveRunsKept and OutcomeTrue, of one run. *)
LiveRunKept(r) ==
    runner[r] \in {"started", "working", "ending"} =>
        entry[r].state = "running" /\ ~entry[r].orphaned
TrueRun(r) ==
    entry[r].state = "finished" =>
        \/ /\ entry[r].rc \in {"ok", "failed"} /\ entry[r].rc = code[r]
           /\ runner[r] \in {"recorded", "dead"}
        \/ entry[r].rc = "reaped" /\ runner[r] = "dead"
        \/ entry[r].rc \in {"unlaunched", "event"} /\ runner[r] = "none"
RunOK(r) == HistoryOK(r) /\ LiveRunKept(r) /\ TrueRun(r)

(* What a reaper has read was started, and what it found dead stays dead. *)
ReaperOK(q) ==
    /\ reaper[q].at # "idle" => reaper[q].run \in Runs /\ runner[reaper[q].run] # "none"
    /\ reaper[q].at \in {"dead", "stamp"} => runner[reaper[q].run] = "dead"

(* AnswerTrue, of one waiter, and that its answer cannot become false. *)
WaiterOK(w) ==
    LET r == waiter[w].run
    IN  /\ waiter[w].at # "idle" => r \in Runs
        /\ waiter[w].at # "done" => waiter[w].answer = "none"
        /\ waiter[w].answer \in {"ok", "failed"} =>
              runner[r] \in {"recorded", "dead"} /\ waiter[w].answer = code[r]
        /\ waiter[w].answer = "orphaned" =>
              runner[r] = "dead" /\ entry[r].rc \notin {"ok", "failed"}

IInv == /\ TypeOK
        /\ \A r \in Runs : RunOK(r)
        /\ \A q \in Reapers : ReaperOK(q)
        /\ \A w \in Waiters : WaiterOK(w)

(* What every step leaves true of the past: runners only go forward, and a  *)
(* recorded outcome stays.                                                  *)
Forward(r) ==
    /\ runner[r] # "none" => runner'[r] # "none"
    /\ runner[r] \in {"recorded", "dead"} =>
          runner'[r] \in {runner[r], "dead"} /\ code'[r] = code[r]
    /\ (runner[r] = "dead" /\ entry[r].rc \notin {"ok", "failed"}) =>
          entry'[r].rc \notin {"ok", "failed"}

FinalEntry(r) ==
    entry[r].state = "finished" =>
        \/ entry'[r].state = "absent"
        \/ /\ entry'[r].state = "finished"
           /\ entry'[r].rc = entry[r].rc /\ entry'[r].pid = entry[r].pid

(* Run r as a step that is not about it leaves it: as it was, or pruned. *)
Apart(r) ==
    /\ entry'[r] = entry[r] \/ (Prunable(entry[r]) /\ entry'[r] = Absent)
    /\ front'[r] = front[r] /\ runner'[r] = runner[r] /\ code'[r] = code[r]

-----------------------------------------------------------------------------
(* What pruning leaves: each entry stays as it is, or it was prunable and   *)
(* is gone.                                                                 *)
LEMMA PrunedFacts ==
    ASSUME NEW es \in [Runs -> Entries]
    PROVE  /\ Pruned(es) \in [Runs -> Entries]
           /\ \A r \in Runs : \/ Pruned(es)[r] = es[r]
                              \/ Prunable(es[r]) /\ Pruned(es)[r] = Absent
<1>1. Absent \in Entries
  BY DEF Absent, Entries, Codes
<1>2. \A r \in Runs : r \in Victims(es) => Prunable(es[r])
  BY DEF Victims
<1>3. QED
  BY <1>1, <1>2 DEF Pruned

LEMMA EntryTypes ==
    /\ Absent \in Entries /\ Bare \in Entries /\ Event \in Entries
    /\ \A b \in BOOLEAN : RunningEntry(b) \in Entries
    /\ \A e \in Entries, rc \in Codes : Finished(e, rc) \in Entries
    /\ \A e \in Entries : Stamped(e) \in Entries
BY DEF Absent, Bare, Event, RunningEntry, Finished, Stamped, Entries, Codes

LEMMA EntryFields ==
    /\ Absent.state = "absent" /\ Absent.rc = "none" /\ ~Absent.pid
    /\ Bare.state = "bare" /\ Bare.rc = "none" /\ ~Bare.pid
    /\ Event.state = "finished" /\ Event.rc = "event" /\ ~Event.pid
    /\ \A b \in BOOLEAN : /\ RunningEntry(b).state = "running" /\ RunningEntry(b).rc = "none"
                          /\ RunningEntry(b).pid = b /\ ~RunningEntry(b).orphaned
    /\ \A e \in Entries, rc \in Codes :
          Finished(e, rc).state = "finished" /\ Finished(e, rc).rc = rc
          /\ Finished(e, rc).pid = e.pid
    /\ \A e \in Entries :
          IF e.state = "absent"
          THEN Stamped(e).state = "running" /\ Stamped(e).rc = "none" /\ ~Stamped(e).pid
          ELSE Stamped(e).state = e.state /\ Stamped(e).rc = e.rc /\ Stamped(e).pid = e.pid
BY DEF Absent, Bare, Event, RunningEntry, Finished, Stamped, Entries

(* Recording an entry touches the others only by pruning. *)
LEMMA RecordFacts ==
    ASSUME entry \in [Runs -> Entries], NEW r \in Runs, NEW e \in Entries, Record(r, e)
    PROVE  /\ entry' \in [Runs -> Entries]
           /\ \A x \in Runs \ {r} : \/ entry'[x] = entry[x]
                                    \/ Prunable(entry[x]) /\ entry'[x] = Absent
           /\ entry'[r] = e \/ (Prunable(e) /\ entry'[r] = Absent)
<1> DEFINE es == [entry EXCEPT ![r] = e]
<1>1. es \in [Runs -> Entries]
  OBVIOUS
<1>2. entry' = Pruned(es)
  BY DEF Record
<1>3. es[r] = e /\ \A x \in Runs \ {r} : es[x] = entry[x]
  OBVIOUS
<1> HIDE DEF es
<1>4. QED
  BY <1>1, <1>2, <1>3, PrunedFacts

LEMMA FinishFacts ==
    ASSUME entry \in [Runs -> Entries], NEW r \in Runs, NEW rc \in Codes, FinishRun(r, rc)
    PROVE  /\ entry' \in [Runs -> Entries]
           /\ \A x \in Runs \ {r} : \/ entry'[x] = entry[x]
                                    \/ Prunable(entry[x]) /\ entry'[x] = Absent
           /\ IF entry[r].state = "running"
              THEN entry'[r] = Finished(entry[r], rc) \/ entry'[r] = Absent
              ELSE entry'[r] = entry[r]
<1>1. Finished(entry[r], rc) \in Entries
  BY EntryTypes
<1>2. CASE entry[r].state = "running"
  BY <1>1, <1>2, RecordFacts DEF FinishRun, MayFinish
<1>3. CASE entry[r].state # "running"
  BY <1>3 DEF FinishRun, MayFinish
<1>4. QED
  BY <1>2, <1>3

LEMMA ApartOK ==
    ASSUME IInv, NEW r \in Runs, Apart(r)
    PROVE  RunOK(r)' /\ Forward(r) /\ FinalEntry(r)
<1> USE DEF Apart, Prunable, Absent
<1>0. RunOK(r) /\ entry[r] \in Entries
  BY DEF IInv, TypeOK
<1>1. HistoryOK(r)'
  BY <1>0 DEF RunOK, HistoryOK, LiveRunKept, Allocated, Entries
<1>2. LiveRunKept(r)' /\ TrueRun(r)'
  BY <1>0 DEF RunOK, LiveRunKept, TrueRun, Entries
<1>3. Forward(r) /\ FinalEntry(r)
  BY <1>0 DEF Forward, FinalEntry, Entries
<1>4. QED
  BY <1>1, <1>2, <1>3 DEF RunOK

LEMMA ReapersKept ==
    ASSUME IInv, reaper' = reaper, \A r \in Runs : Forward(r)
    PROVE  \A q \in Reapers : ReaperOK(q)'
BY DEF IInv, ReaperOK, Forward

LEMMA WaitersKept ==
    ASSUME IInv, waiter' = waiter, \A r \in Runs : Forward(r)
    PROVE  \A w \in Waiters : WaiterOK(w)'
<1> SUFFICES ASSUME NEW w \in Waiters PROVE WaiterOK(w)'
  OBVIOUS
<1>1. WaiterOK(w) /\ waiter[w] \in Waiting
  BY DEF IInv, TypeOK
<1>2. CASE waiter[w].at = "idle" \/ waiter[w].answer = "none"
  BY <1>1, <1>2 DEF WaiterOK, Waiting
<1>3. CASE waiter[w].run \in Runs
  BY <1>1, <1>3 DEF WaiterOK, Forward
<1>4. QED
  BY <1>1, <1>2, <1>3 DEF WaiterOK

(* A step about run r alone. *)
LEMMA RunStep ==
    ASSUME IInv, TypeOK', NEW r \in Runs,
           \A x \in Runs \ {r} : Apart(x),
           RunOK(r)', Forward(r), reaper' = reaper, waiter' = waiter
    PROVE  IInv'
<1>1. \A x \in Runs : RunOK(x)' /\ Forward(x)
  BY ApartOK
<1>2. QED
  BY <1>1, ReapersKept, WaitersKept DEF IInv

-----------------------------------------------------------------------------
(* The front door and the runner: one lemma for each action. *)

LEMMA CheckOutputInv ==
    ASSUME IInv, NEW r \in Runs, CheckOutput(r)
    PROVE  IInv' /\ \A x \in Runs : FinalEntry(x)
<1> USE DEF CheckOutput
<1>1. TypeOK'
  BY DEF IInv, TypeOK, FrontStates
<1>2. \A x \in Runs \ {r} : Apart(x)
  BY DEF IInv, TypeOK, Apart
<1>3. RunOK(r) /\ front'[r] = "checked"
  BY DEF IInv, TypeOK
<1>4. RunOK(r)' /\ Forward(r) /\ FinalEntry(r)
  BY <1>3 DEF RunOK, HistoryOK, LiveRunKept, TrueRun, Forward, FinalEntry, Allocated
<1>5. QED
  BY <1>1, <1>2, <1>4, RunStep, ApartOK

(* start_run and record_event, on a fresh id. *)
LEMMA StartInv ==
    ASSUME IInv, NEW r \in Runs,
           StartDetached(r) \/ StartDirect(r) \/ CrashInStart(r) \/ RecordEvent(r)
    PROVE  IInv' /\ \A x \in Runs : FinalEntry(x)
<1>0. RunOK(r) /\ entry \in [Runs -> Entries] /\ ~Allocated(r)
  BY DEF IInv, TypeOK, StartDetached, StartDirect, CrashInStart, RecordEvent, NextId
<1>1. entry[r] = Absent /\ runner[r] = "none"
  BY <1>0 DEF RunOK, HistoryOK
<1>2. PICK e \in {RunningEntry(FALSE), RunningEntry(TRUE), Bare, Event} :
         /\ Record(r, e) \/ (e = Bare /\ entry' = [entry EXCEPT ![r] = e])
         /\ \/ e = RunningEntry(FALSE) /\ StartDetached(r)
            \/ e = RunningEntry(TRUE) /\ StartDirect(r)
            \/ e = Bare /\ CrashInStart(r)
            \/ e = Event /\ RecordEvent(r)
  BY DEF StartDetached, StartDirect, CrashInStart, RecordEvent
<1>3. e \in Entries
  BY EntryTypes
<1>4. /\ entry' \in [Runs -> Entries]
      /\ \A x \in Runs \ {r} : \/ entry'[x] = entry[x]
                               \/ Prunable(entry[x]) /\ entry'[x] = Absent
      /\ entry'[r] = e \/ (Prunable(e) /\ entry'[r] = Absent)
  <2>1. CASE Record(r, e)
    BY <1>0, <1>3, <2>1, RecordFacts
  <2>2. CASE entry' = [entry EXCEPT ![r] = e]
    BY <1>0, <1>3, <2>2
  <2>3. QED
    BY <1>2, <2>1, <2>2
<1> USE DEF StartDetached, StartDirect, CrashInStart, RecordEvent
<1>5. TypeOK'
  BY <1>2, <1>4 DEF IInv, TypeOK, FrontStates, RunnerStates
<1>6. \A x \in Runs \ {r} : Apart(x)
  BY <1>2, <1>4 DEF IInv, TypeOK, Apart
<1>7. /\ front'[r] = IF e = RunningEntry(FALSE) THEN "created" ELSE "done"
      /\ runner'[r] = IF e = RunningEntry(TRUE) THEN "working" ELSE "none"
  BY <1>1, <1>2 DEF IInv, TypeOK, RunningEntry, Bare, Event, Absent
<1>8. RunOK(r)'
  <2>1. CASE e = RunningEntry(FALSE)
    <3>1. entry'[r] = e /\ e.state = "running" /\ e.rc = "none" /\ ~e.orphaned /\ ~e.pid
      BY <1>4, <2>1, EntryFields DEF Prunable
    <3>2. front'[r] = "created" /\ runner'[r] = "none"
      BY <1>7, <2>1, <3>1, EntryFields
    <3>3. QED
      BY <3>1, <3>2 DEF RunOK, HistoryOK, LiveRunKept, TrueRun, Allocated
  <2>2. CASE e = RunningEntry(TRUE)
    <3>1. entry'[r] = e /\ e.state = "running" /\ e.rc = "none" /\ ~e.orphaned /\ e.pid
      BY <1>4, <2>2, EntryFields DEF Prunable
    <3>2. front'[r] = "done" /\ runner'[r] = "working"
      BY <1>7, <2>2, <3>1, EntryFields
    <3>3. QED
      BY <3>1, <3>2 DEF RunOK, HistoryOK, LiveRunKept, TrueRun, Allocated
  <2>3. CASE e = Bare \/ e = Event
    <3>1. /\ entry'[r].state # "running" /\ ~entry'[r].pid
          /\ entry'[r].rc = IF entry'[r].state = "finished" THEN "event" ELSE "none"
      BY <1>4, <2>3, EntryFields
    <3>2. RunningEntry(FALSE).state = "running" /\ RunningEntry(TRUE).state = "running"
      BY EntryFields
    <3>3. e.state # "running"
      BY <2>3, EntryFields
    <3>4. front'[r] = "done" /\ runner'[r] = "none"
      BY <1>7, <3>2, <3>3
    <3>5. QED
      BY <3>1, <3>4 DEF RunOK, HistoryOK, LiveRunKept, TrueRun, Allocated
  <2>4. QED
    BY <1>2, <2>1, <2>2, <2>3
<1>9. Forward(r) /\ FinalEntry(r)
  BY <1>1, <1>2, <1>4, <1>7 DEF Forward, FinalEntry, RunningEntry, Bare, Event, Absent
<1>10. QED
  BY <1>2, <1>5, <1>6, <1>8, <1>9, RunStep, ApartOK

LEMMA LaunchInv ==
    ASSUME IInv, NEW r \in Runs, Launch(r) \/ AttachReturns(r) \/ FrontDies(r)
    PROVE  IInv' /\ \A x \in Runs : FinalEntry(x)
<1> USE DEF Launch, AttachReturns, FrontDies
<1>1. TypeOK'
  BY DEF IInv, TypeOK, FrontStates, RunnerStates
<1>2. \A x \in Runs \ {r} : Apart(x)
  BY DEF IInv, TypeOK, Apart
<1>3. RunOK(r) /\ front[r] \in {"created", "launched", "attached"} /\ entry' = entry /\ code' = code
  BY DEF IInv
<1>4. \/ front'[r] = "launched" /\ runner'[r] = "started" /\ front[r] = "created"
      \/ front'[r] = "done" /\ runner' = runner
  BY DEF IInv, TypeOK
<1>5. RunOK(r)' /\ Forward(r) /\ FinalEntry(r)
  BY <1>3, <1>4 DEF RunOK, HistoryOK, LiveRunKept, TrueRun, Forward, FinalEntry, Allocated
<1>6. QED
  BY <1>1, <1>2, <1>5, RunStep, ApartOK

LEMMA LaunchFailsInv ==
    ASSUME IInv, NEW r \in Runs, LaunchFails(r)
    PROVE  IInv' /\ \A x \in Runs : FinalEntry(x)
<1> USE DEF LaunchFails
<1>0. RunOK(r) /\ entry \in [Runs -> Entries] /\ FinishRun(r, "unlaunched")
  BY DEF IInv, TypeOK
<1>1. entry[r].state = "running" /\ runner[r] = "none"
  BY <1>0 DEF RunOK, HistoryOK
<1>2. "unlaunched" \in Codes
  BY DEF Codes
<1>3. /\ entry' \in [Runs -> Entries]
      /\ \A x \in Runs \ {r} : \/ entry'[x] = entry[x]
                               \/ Prunable(entry[x]) /\ entry'[x] = Absent
      /\ entry'[r] = Finished(entry[r], "unlaunched") \/ entry'[r] = Absent
  BY <1>0, <1>1, <1>2, FinishFacts
<1>4. TypeOK'
  BY <1>3 DEF IInv, TypeOK, FrontStates
<1>5. \A x \in Runs \ {r} : Apart(x)
  BY <1>3 DEF IInv, TypeOK, Apart
<1>6. front'[r] = "done" /\ entry[r] \in Entries
  BY DEF IInv, TypeOK
<1>7. /\ entry'[r].state # "running"
      /\ entry'[r].state = "finished" => entry'[r].rc = "unlaunched"
      /\ entry'[r].state # "finished" => entry'[r].rc = "none"
      /\ entry'[r].pid => entry[r].pid
  BY <1>2, <1>3, <1>6, EntryFields
<1>8. RunOK(r)' /\ Forward(r) /\ FinalEntry(r)
  BY <1>0, <1>1, <1>6, <1>7 DEF RunOK, HistoryOK, LiveRunKept, TrueRun, Forward,
     FinalEntry, Allocated
<1>9. QED
  BY <1>4, <1>5, <1>8, RunStep, ApartOK

LEMMA RecordPidInv ==
    ASSUME IInv, NEW r \in Runs, RecordPid(r) \/ Adopt(r)
    PROVE  IInv' /\ \A x \in Runs : FinalEntry(x)
<1> USE DEF RecordPid, Adopt
<1>0. RunOK(r) /\ entry[r] \in Entries
  BY DEF IInv, TypeOK
<1>1. \/ entry' = entry
      \/ entry[r].state = "running" /\ entry' = [entry EXCEPT ![r].pid = TRUE]
  BY DEF Updatable
<1>2. entry' \in [Runs -> Entries]
  <2>1. [entry[r] EXCEPT !.pid = TRUE] \in Entries
    BY <1>0 DEF Entries
  <2>2. QED
    BY <1>1, <2>1 DEF IInv, TypeOK
<1>3. TypeOK'
  BY <1>2 DEF IInv, TypeOK, FrontStates, RunnerStates
<1>4. \A x \in Runs \ {r} : Apart(x)
  BY <1>1 DEF IInv, TypeOK, Apart
<1>5. \/ entry'[r] = entry[r]
      \/ entry[r].state = "running" /\ entry'[r] = [entry[r] EXCEPT !.pid = TRUE]
  BY <1>0, <1>1 DEF IInv, TypeOK
<1>6. \/ front[r] = "launched" /\ front'[r] \in {"attached", "done"} /\ runner' = runner
      \/ /\ runner[r] = "started" /\ runner'[r] = "working" /\ front' = front
         /\ entry[r].state = "running" /\ entry'[r].pid
  BY <1>0 DEF IInv, TypeOK, Entries
<1>7. runner[r] # "none" /\ code' = code
  BY <1>0, <1>6 DEF RunOK, HistoryOK
<1>8. HistoryOK(r)'
  BY <1>0, <1>5, <1>6, <1>7 DEF RunOK, HistoryOK, Allocated, Entries, Absent
<1>9. LiveRunKept(r)' /\ TrueRun(r)'
  BY <1>0, <1>5, <1>6, <1>7 DEF RunOK, LiveRunKept, TrueRun, Entries
<1>10. Forward(r) /\ FinalEntry(r)
  BY <1>0, <1>5, <1>6, <1>7 DEF Forward, FinalEntry, Entries
<1>11. QED
  BY <1>3, <1>4, <1>8, <1>9, <1>10, RunStep, ApartOK DEF RunOK

LEMMA RunnerMovesInv ==
    ASSUME IInv, NEW r \in Runs, ProviderEnds(r) \/ RunnerExits(r) \/ RunnerKilled(r)
    PROVE  IInv' /\ \A x \in Runs : FinalEntry(x)
<1> USE DEF ProviderEnds, RunnerExits, RunnerKilled
<1>1. TypeOK'
  BY DEF IInv, TypeOK, RunnerStates, Codes
<1>2. \A x \in Runs \ {r} : Apart(x)
  BY DEF IInv, TypeOK, Apart
<1>3. RunOK(r) /\ entry' = entry /\ front' = front
  BY DEF IInv
<1>4. \/ runner[r] = "working" /\ runner'[r] = "ending" /\ code'[r] \in {"ok", "failed"}
      \/ /\ runner[r] \in {"started", "working", "ending", "recorded"}
         /\ runner'[r] = "dead" /\ code' = code
  BY DEF IInv, TypeOK
<1>5. RunOK(r)' /\ Forward(r) /\ FinalEntry(r)
  BY <1>3, <1>4 DEF RunOK, HistoryOK, LiveRunKept, TrueRun, Forward, FinalEntry, Allocated
<1>6. QED
  BY <1>1, <1>2, <1>5, RunStep, ApartOK

LEMMA RecordFinishInv ==
    ASSUME IInv, NEW r \in Runs, RecordFinish(r)
    PROVE  IInv' /\ \A x \in Runs : FinalEntry(x)
<1> USE DEF RecordFinish
<1>0. RunOK(r) /\ entry \in [Runs -> Entries] /\ FinishRun(r, code[r])
  BY DEF IInv, TypeOK
<1>1. entry[r].state = "running" /\ code[r] \in {"ok", "failed"} /\ entry[r] \in Entries
  BY <1>0 DEF RunOK, HistoryOK, LiveRunKept
<1>2. code[r] \in Codes
  BY DEF IInv, TypeOK
<1>3. /\ entry' \in [Runs -> Entries]
      /\ \A x \in Runs \ {r} : \/ entry'[x] = entry[x]
                               \/ Prunable(entry[x]) /\ entry'[x] = Absent
      /\ entry'[r] = Finished(entry[r], code[r]) \/ entry'[r] = Absent
  BY <1>0, <1>1, <1>2, FinishFacts
<1>4. TypeOK'
  BY <1>3 DEF IInv, TypeOK, RunnerStates
<1>5. \A x \in Runs \ {r} : Apart(x)
  BY <1>3 DEF IInv, TypeOK, Apart
<1>6. runner'[r] = "recorded" /\ front' = front /\ code' = code
  BY DEF IInv, TypeOK
<1>7. /\ entry'[r].state # "running"
      /\ entry'[r].state = "finished" => entry'[r].rc = code[r]
      /\ entry'[r].state # "finished" => entry'[r].rc = "none"
  BY <1>1, <1>2, <1>3, EntryFields
<1>8. RunOK(r)' /\ Forward(r) /\ FinalEntry(r)
  BY <1>0, <1>1, <1>6, <1>7 DEF RunOK, HistoryOK, LiveRunKept, TrueRun, Forward,
     FinalEntry, Allocated
<1>9. QED
  BY <1>4, <1>5, <1>8, RunStep, ApartOK

-----------------------------------------------------------------------------
(* Reapers and waiters *)

(* A step of a reaper that leaves the ledger alone. *)
LEMMA ReaperMovesInv ==
    ASSUME IInv, NEW q \in Reapers,
           (\E r \in Runs : ReapRead(q, r)) \/ ReapCheck(q) \/ ReaperDies(q)
    PROVE  IInv' /\ \A x \in Runs : FinalEntry(x)
<1>0. /\ reaper[q] \in Reaping /\ ReaperOK(q) /\ \A r \in Runs : RunOK(r)
      /\ UNCHANGED <<entry, front, runner, code, waiter>>
  BY DEF IInv, TypeOK, ReapRead, ReapCheck, ReaperDies
<1>1. \E s \in Reaping :
         /\ reaper' = [reaper EXCEPT ![q] = s]
         /\ s.at # "idle" => s.run \in Runs /\ runner[s.run] # "none"
         /\ s.at \in {"dead", "stamp"} => runner[s.run] = "dead"
  <2>1. Resting \in Reaping /\ Resting.at = "idle"
    BY DEF Resting, Reaping
  <2>2. ASSUME NEW r \in Runs, ReapRead(q, r)
        PROVE  reaper' = [reaper EXCEPT ![q] = [at |-> "read", run |-> r]]
               /\ runner[r] # "none"
    BY <1>0, <2>2 DEF ReapRead, RunOK, HistoryOK
  <2>3. CASE \E r \in Runs : ReapRead(q, r)
    <3>1. PICK r \in Runs : ReapRead(q, r)
      BY <2>3
    <3>2. [at |-> "read", run |-> r] \in Reaping
      BY DEF Reaping
    <3>3. QED
      BY <2>2, <3>1, <3>2
  <2>4. CASE ReapCheck(q)
    <3> DEFINE s == IF Alive(reaper[q].run) THEN Resting ELSE [reaper[q] EXCEPT !.at = "dead"]
    <3>1. reaper' = [reaper EXCEPT ![q] = s] /\ reaper[q].at = "read"
      BY <2>4 DEF ReapCheck, IInv, TypeOK
    <3>2. reaper[q].run \in Runs /\ runner[reaper[q].run] # "none"
      BY <1>0, <3>1 DEF ReaperOK
    <3>3. runner[reaper[q].run] \in RunnerStates
      BY <3>2 DEF IInv, TypeOK
    <3>4. CASE Alive(reaper[q].run)
      BY <2>1, <3>1, <3>4
    <3>5. CASE ~Alive(reaper[q].run)
      <4>1. s \in Reaping /\ s.run = reaper[q].run /\ runner[s.run] = "dead"
        BY <1>0, <3>2, <3>3, <3>5 DEF Reaping, Alive, RunnerStates
      <4> HIDE DEF s
      <4>2. QED
        BY <3>1, <3>2, <4>1
    <3>6. QED
      BY <3>4, <3>5
  <2>5. CASE ReaperDies(q)
    BY <2>1, <2>5 DEF ReaperDies
  <2>6. QED
    BY <2>3, <2>4, <2>5
<1>2. TypeOK'
  BY <1>0, <1>1 DEF IInv, TypeOK
<1>3. \A p \in Reapers : ReaperOK(p)'
  BY <1>0, <1>1 DEF IInv, TypeOK, ReaperOK
<1>4. \A r \in Runs : RunOK(r)' /\ FinalEntry(r)
  BY <1>0 DEF RunOK, HistoryOK, LiveRunKept, TrueRun, Allocated, FinalEntry
<1>5. \A w \in Waiters : WaiterOK(w)'
  BY <1>0 DEF IInv, WaiterOK
<1>6. QED
  BY <1>2, <1>3, <1>4, <1>5 DEF IInv

(* A write of a reaper: the run it found dead gets a finish record or the   *)
(* orphaned mark.                                                           *)
LEMMA ReaperWritesInv ==
    ASSUME IInv, NEW q \in Reapers, ReapFinish(q) \/ ReapStamp(q)
    PROVE  IInv' /\ \A x \in Runs : FinalEntry(x)
<1>0. PICK r \in Runs : /\ r = reaper[q].run /\ runner[r] = "dead"
                        /\ reaper[q] \in Reaping
                        /\ UNCHANGED <<front, runner, code, waiter>>
  BY DEF IInv, TypeOK, ReaperOK, ReapFinish, ReapStamp
<1>1. RunOK(r) /\ entry \in [Runs -> Entries] /\ entry[r] \in Entries
  BY <1>0 DEF IInv, TypeOK
<1>2. /\ entry' \in [Runs -> Entries]
      /\ \A x \in Runs \ {r} : \/ entry'[x] = entry[x]
                               \/ Prunable(entry[x]) /\ entry'[x] = Absent
      /\ \/ entry'[r] = entry[r]
         \/ entry'[r] = Absent /\ entry[r].state = "running"
         \/ entry[r].state = "running" /\ entry'[r] = Finished(entry[r], "reaped")
         \/ entry'[r] = Stamped(entry[r])
  <2>1. CASE ReapFinish(q)
    <3>1. FinishRun(r, "reaped") /\ "reaped" \in Codes
      BY <1>0, <2>1 DEF ReapFinish, Codes
    <3>2. QED
      BY <1>0, <1>1, <3>1, FinishFacts
  <2>2. CASE ReapStamp(q)
    <3>1. entry' = [entry EXCEPT ![r] = Stamped(entry[r])]
      BY <1>0, <1>1, <2>2 DEF ReapStamp
    <3>2. Stamped(entry[r]) \in Entries
      BY <1>1, EntryTypes
    <3>3. QED
      BY <1>0, <1>1, <3>1, <3>2
  <2>3. QED
    BY <2>1, <2>2
<1>3. /\ reaper' \in [Reapers -> Reaping]
      /\ \A p \in Reapers \ {q} : reaper'[p] = reaper[p]
      /\ reaper'[q] = Resting \/ reaper'[q] = [reaper[q] EXCEPT !.at = "stamp"]
  <2>1. Resting \in Reaping /\ [reaper[q] EXCEPT !.at = "stamp"] \in Reaping
    BY <1>0 DEF Resting, Reaping
  <2>2. \/ reaper' = [reaper EXCEPT ![q] = Resting]
        \/ reaper' = [reaper EXCEPT ![q] = [reaper[q] EXCEPT !.at = "stamp"]]
    BY DEF IInv, TypeOK, ReapFinish, ReapStamp
  <2>3. QED
    BY <2>1, <2>2 DEF IInv, TypeOK
<1>4. TypeOK'
  BY <1>0, <1>2, <1>3 DEF IInv, TypeOK
<1>5. \A x \in Runs \ {r} : Apart(x)
  BY <1>0, <1>2 DEF Apart
<1>6. /\ entry'[r].state = "finished" => \/ entry'[r].rc = entry[r].rc /\ entry[r].state = "finished"
                                         \/ entry'[r].rc = "reaped"
      /\ entry'[r].state # "finished" => entry'[r].rc = "none"
      /\ entry[r].state = "finished" =>
            /\ entry'[r].state = "finished"
            /\ entry'[r].rc = entry[r].rc /\ entry'[r].pid = entry[r].pid
      /\ entry[r].rc \notin {"ok", "failed"} => entry'[r].rc \notin {"ok", "failed"}
  <2>1. "reaped" \in Codes /\ (entry[r].state # "finished" => entry[r].rc = "none")
    BY <1>1 DEF Codes, RunOK, HistoryOK
  <2>2. CASE entry'[r] = entry[r]
    BY <2>1, <2>2
  <2>3. CASE entry'[r] = Absent /\ entry[r].state = "running"
    BY <2>1, <2>3, EntryFields
  <2>4. CASE entry[r].state = "running" /\ entry'[r] = Finished(entry[r], "reaped")
    BY <1>1, <2>1, <2>4, EntryFields
  <2>5. CASE entry'[r] = Stamped(entry[r])
    BY <1>1, <2>1, <2>5, EntryFields
  <2>6. QED
    BY <1>2, <2>2, <2>3, <2>4, <2>5
<1>7. front[r] \notin {"idle", "checked", "created"}
  BY <1>0, <1>1 DEF RunOK, HistoryOK, Allocated
<1>8. RunOK(r)' /\ Forward(r) /\ FinalEntry(r)
  BY <1>0, <1>1, <1>6, <1>7 DEF RunOK, HistoryOK, LiveRunKept, TrueRun, Forward,
     FinalEntry, Allocated
<1>9. \A x \in Runs : RunOK(x)' /\ Forward(x) /\ FinalEntry(x)
  BY <1>5, <1>8, ApartOK
<1>10. \A p \in Reapers : ReaperOK(p)'
  BY <1>0, <1>3 DEF IInv, ReaperOK, Resting, Reaping
<1>11. \A w \in Waiters : WaiterOK(w)'
  BY <1>0, <1>9, WaitersKept
<1>12. QED
  BY <1>4, <1>9, <1>10, <1>11 DEF IInv

LEMMA WaiterInv ==
    ASSUME IInv, NEW w \in Waiters, WaiterStep(w)
    PROVE  IInv' /\ \A x \in Runs : FinalEntry(x)
<1>0. waiter[w] \in Waiting /\ WaiterOK(w) /\ UNCHANGED <<entry, front, runner, code, reaper>>
  BY DEF IInv, TypeOK, WaiterStep, BeginWait, Poll
<1>1. \A r \in Runs : RunOK(r)' /\ FinalEntry(r)
  BY <1>0 DEF IInv, RunOK, HistoryOK, LiveRunKept, TrueRun, Allocated, FinalEntry
<1>2. \A q \in Reapers : ReaperOK(q)'
  BY <1>0 DEF IInv, ReaperOK
<1>3. waiter' \in [Waiters -> Waiting] /\ (\A v \in Waiters \ {w} : waiter'[v] = waiter[v])
      /\ WaiterOK(w)'
  <2>1. CASE \E r \in Runs : BeginWait(w, r)
    <3>1. PICK r \in Runs : BeginWait(w, r)
      BY <2>1
    <3> DEFINE v == [NotWaiting EXCEPT !.at = "waiting", !.run = r]
    <3>2. v \in Waiting /\ v.at = "waiting" /\ v.run = r /\ v.answer = "none"
      BY DEF NotWaiting, Waiting, Codes
    <3>3. waiter' = [waiter EXCEPT ![w] = v]
      BY <3>1 DEF BeginWait
    <3> HIDE DEF v
    <3>4. QED
      BY <3>2, <3>3 DEF IInv, TypeOK, WaiterOK
  <2>2. CASE Poll(w)
    <3> DEFINE r == waiter[w].run
    <3>1. waiter[w].at = "waiting" /\ r \in Runs /\ waiter[w].answer = "none"
      BY <1>0, <2>2 DEF Poll, WaiterOK
    <3>2. RunOK(r) /\ entry[r] \in Entries /\ runner[r] \in RunnerStates
      BY <3>1 DEF IInv, TypeOK
    <3>3. CASE waiter' = [waiter EXCEPT ![w].dead = Gone(r)]
      <4>1. Gone(r) \in BOOLEAN
        BY <3>2 DEF Gone, Entries
      <4>2. QED
        BY <1>0, <3>1, <3>3, <4>1 DEF IInv, TypeOK, WaiterOK, Waiting
    <3>4. CASE \E a \in Codes \cup {"missing", "orphaned"} :
                  /\ Answer(w, a)
                  /\ a \in {"ok", "failed"} =>
                        runner[r] \in {"recorded", "dead"} /\ a = code[r]
                  /\ a = "orphaned" =>
                        runner[r] = "dead" /\ entry[r].rc \notin {"ok", "failed"}
      <4>1. PICK a \in Codes \cup {"missing", "orphaned"} :
                  /\ Answer(w, a)
                  /\ a \in {"ok", "failed"} =>
                        runner[r] \in {"recorded", "dead"} /\ a = code[r]
                  /\ a = "orphaned" =>
                        runner[r] = "dead" /\ entry[r].rc \notin {"ok", "failed"}
        BY <3>4
      <4> DEFINE v == [waiter[w] EXCEPT !.at = "done", !.answer = a]
      <4>2. waiter' = [waiter EXCEPT ![w] = v]
        BY <4>1 DEF Answer, IInv, TypeOK
      <4>3. v \in Waiting /\ v.run = r /\ v.answer = a /\ v.at = "done"
        BY <1>0 DEF Waiting
      <4> HIDE DEF v
      <4>4. waiter'[w] = v
        BY <4>2 DEF IInv, TypeOK
      <4>5. QED
        BY <1>0, <3>1, <4>1, <4>2, <4>3, <4>4 DEF IInv, TypeOK, WaiterOK
    <3>5. CASE entry[r].state = "finished" /\ Answer(w, entry[r].rc)
      BY <3>2, <3>4, <3>5 DEF RunOK, TrueRun, Entries
    <3>6. CASE entry[r].state \in {"absent", "bare"} /\ Answer(w, "missing")
      BY <3>4, <3>6
    <3>7. CASE entry[r].state = "running" /\ Gone(r) /\ Answer(w, "orphaned")
      <4>1. runner[r] = "dead" /\ entry[r].rc = "none"
        BY <3>2, <3>7 DEF Gone, Alive, RunnerStates, RunOK, HistoryOK
      <4>2. QED
        BY <3>4, <3>7, <4>1
    <3>8. QED
      BY <2>2, <3>3, <3>5, <3>6, <3>7 DEF Poll
  <2>3. QED
    BY <2>1, <2>2 DEF WaiterStep
<1>4. TypeOK'
  BY <1>0, <1>3 DEF IInv, TypeOK
<1>5. \A v \in Waiters : WaiterOK(v)'
  BY <1>0, <1>3 DEF IInv, WaiterOK
<1>6. QED
  BY <1>1, <1>2, <1>4, <1>5 DEF IInv

-----------------------------------------------------------------------------
(* Every step *)

LEMMA InitInv == Init => IInv
<1> SUFFICES ASSUME Init PROVE IInv
  OBVIOUS
<1> USE DEF Init
<1>1. TypeOK
  BY EntryTypes DEF TypeOK, FrontStates, RunnerStates, Codes, Resting, Reaping, NotWaiting,
                    Waiting
<1>2. \A r \in Runs : RunOK(r)
  BY DEF RunOK, HistoryOK, LiveRunKept, TrueRun, Allocated, Absent
<1>3. \A q \in Reapers : ReaperOK(q)
  BY DEF ReaperOK, Resting
<1>4. \A w \in Waiters : WaiterOK(w)
  BY DEF WaiterOK, NotWaiting
<1>5. QED
  BY <1>1, <1>2, <1>3, <1>4 DEF IInv

LEMMA NextInv ==
    ASSUME IInv, [Next]_vars
    PROVE  IInv' /\ \A x \in Runs : FinalEntry(x)
<1>1. ASSUME NEW r \in Runs, FrontStep(r)
      PROVE  IInv' /\ \A x \in Runs : FinalEntry(x)
  BY <1>1, CheckOutputInv, StartInv, LaunchInv, LaunchFailsInv, RecordPidInv DEF FrontStep
<1>2. ASSUME NEW r \in Runs, RunnerStep(r)
      PROVE  IInv' /\ \A x \in Runs : FinalEntry(x)
  BY <1>2, RecordPidInv, RunnerMovesInv, RecordFinishInv DEF RunnerStep
<1>3. ASSUME NEW q \in Reapers, ReaperStep(q)
      PROVE  IInv' /\ \A x \in Runs : FinalEntry(x)
  BY <1>3, ReaperMovesInv, ReaperWritesInv DEF ReaperStep
<1>4. CASE UNCHANGED vars
  BY <1>4 DEF vars, IInv, TypeOK, RunOK, HistoryOK, LiveRunKept, TrueRun, Allocated,
              ReaperOK, WaiterOK, FinalEntry
<1>5. QED
  BY <1>1, <1>2, <1>3, <1>4, WaiterInv DEF Next

(* Only the check of the output makes a front door checked. *)
LEMMA OnlyCheckChecks ==
    ASSUME IInv, [Next]_vars, NEW r \in Runs, front[r] = "idle", front'[r] = "checked"
    PROVE  CheckOutput(r)
<1>0. front \in [Runs -> FrontStates]
  BY DEF IInv, TypeOK
<1>1. ASSUME NEW x \in Runs, FrontStep(x)
      PROVE  CheckOutput(r)
  BY <1>0, <1>1 DEF FrontStep, CheckOutput, StartDetached, StartDirect, CrashInStart,
     RecordEvent, Launch, LaunchFails, RecordPid, AttachReturns, FrontDies
<1>2. ASSUME NEW x \in Runs, RunnerStep(x)
      PROVE  front' = front
  BY <1>2 DEF RunnerStep, Adopt, ProviderEnds, RecordFinish, RunnerExits, RunnerKilled
<1>3. ASSUME NEW q \in Reapers, ReaperStep(q)
      PROVE  front' = front
  BY <1>3 DEF ReaperStep, ReapRead, ReapCheck, ReapFinish, ReapStamp, ReaperDies
<1>4. ASSUME NEW w \in Waiters, WaiterStep(w)
      PROVE  front' = front
  BY <1>4 DEF WaiterStep, BeginWait, Poll
<1>5. CASE UNCHANGED vars
  BY <1>5 DEF vars
<1>6. QED
  BY <1>1, <1>2, <1>3, <1>4, <1>5 DEF Next

-----------------------------------------------------------------------------
(* Retention.  The bytes of a set of runs are summed run by run; what is    *)
(* shown of them is shown of the least number for which it could fail.      *)

(* A nonempty set of naturals has a least member.                           *)
LEMMA LeastNat ==
    ASSUME NEW S, S # {}, S \subseteq Nat
    PROVE  \E x \in S : \A y \in S : x <= y
<1> DEFINE R == OpToRel(<, Nat)
<1>1. IsWellFoundedOn(R, Nat)
  BY NatLessThanWellFounded
<1>2. \A x, y \in Nat : <<x, y>> \in R <=> x < y
  BY DEF OpToRel
<1> HIDE DEF R
<1>3. PICK x \in S : \A y \in S : ~ (<<y, x>> \in R)
  BY <1>1, WFMin
<1>4. \A y \in S : x <= y
  <2>1. \A y \in S : ~(y < x) /\ x \in Nat /\ y \in Nat
    BY <1>2, <1>3
  <2>2. QED
    BY <2>1
<1>5. QED
  BY <1>4

Weight(S, n) == IF n \in S THEN Size[n] ELSE 0
Sums(S) == CHOOSE sum : sum = [n \in 0..MaxStarted |->
                                  IF n = 0 THEN 0 ELSE sum[n - 1] + Weight(S, n)]
(* The first sums, up to that of run k. *)
SumsTo(S, k, f) ==
    /\ f \in [0..k -> Nat] /\ f[0] = 0
    /\ \A n \in 1..k : f[n] = f[n - 1] + Weight(S, n)

LEMMA Weights ==
    ASSUME NEW S, NEW n \in 1..MaxStarted
    PROVE  Weight(S, n) \in Nat
BY RunLedgerAssumption DEF Weight, Runs

LEMMA SumsUpTo ==
    ASSUME NEW S
    PROVE  \A k \in 0..MaxStarted : \E f : SumsTo(S, k, f)
<1> DEFINE Bad == {k \in 0..MaxStarted : ~ \E f : SumsTo(S, k, f)}
<1>1. MaxStarted \in Nat
  BY RunLedgerAssumption
<1>2. ASSUME Bad # {} PROVE FALSE
  <2>1. PICK k \in Bad : \A j \in Bad : k <= j
    <3>1. Bad \subseteq Nat
      OBVIOUS
    <3> HIDE DEF Bad
    <3>2. QED
      BY <1>2, <3>1, LeastNat
  <2>2. k \in 0..MaxStarted /\ k \in Nat
    OBVIOUS
  <2>3. CASE k = 0
    <3> DEFINE f == [i \in 0..0 |-> 0]
    <3>1. f \in [0..0 -> Nat] /\ f[0] = 0 /\ 1..0 = {}
      OBVIOUS
    <3> HIDE DEF f
    <3>2. SumsTo(S, k, f)
      BY <2>3, <3>1 DEF SumsTo
    <3>3. QED
      BY <3>2
  <2>4. CASE k # 0
    <3>1. k - 1 \in 0..MaxStarted /\ k - 1 \notin Bad
      BY <1>1, <2>1, <2>2, <2>4
    <3>2. PICK f : SumsTo(S, k - 1, f)
      BY <3>1
    <3>3. f \in [0..(k - 1) -> Nat] /\ f[0] = 0
          /\ \A n \in 1..(k - 1) : f[n] = f[n - 1] + Weight(S, n)
      BY <3>2 DEF SumsTo
    <3>4. k \in 1..MaxStarted /\ Weight(S, k) \in Nat /\ f[k - 1] \in Nat
      BY <2>2, <2>4, <3>3, Weights
    <3> DEFINE last == f[k - 1] + Weight(S, k)
               g == [i \in 0..k |-> IF i = k THEN last ELSE f[i]]
    <3>5. last \in Nat
      BY <3>4
    <3>6. \A i \in 0..k : i # k => i \in 0..(k - 1) /\ g[i] = f[i]
      BY <2>2
    <3>7. g[k] = last /\ \A i \in 0..k : g[i] \in Nat
      BY <2>2, <3>3, <3>5, <3>6
    <3>8. g \in [0..k -> Nat] /\ g[0] = 0
      BY <2>2, <2>4, <3>3, <3>6, <3>7
    <3>9. ASSUME NEW n \in 1..k PROVE g[n] = g[n - 1] + Weight(S, n)
      <4>1. n - 1 \in 0..k /\ n - 1 # k /\ g[n - 1] = f[n - 1]
        BY <2>2, <3>6
      <4>2. CASE n = k
        BY <3>7, <4>1, <4>2
      <4>3. CASE n # k
        <5>1. n \in 1..(k - 1) /\ n \in 0..k
          BY <2>2, <4>3
        <5>2. g[n] = f[n] /\ f[n] = f[n - 1] + Weight(S, n)
          BY <3>3, <3>6, <4>3, <5>1
        <5>3. QED
          BY <4>1, <5>2
      <4>4. QED
        BY <4>2, <4>3
    <3> HIDE DEF g
    <3>10. SumsTo(S, k, g)
      BY <3>8, <3>9 DEF SumsTo
    <3>11. QED
      BY <3>10
  <2>5. QED
    BY <2>3, <2>4
<1>3. QED
  BY <1>2

LEMMA SumsIs ==
    ASSUME NEW S
    PROVE  \A n \in 0..MaxStarted :
              Sums(S)[n] = IF n = 0 THEN 0 ELSE Sums(S)[n - 1] + Weight(S, n)
<1>1. MaxStarted \in Nat /\ MaxStarted \in 0..MaxStarted
  BY RunLedgerAssumption
<1>2. PICK f : SumsTo(S, MaxStarted, f)
  BY <1>1, SumsUpTo
<1> DEFINE g == [n \in 0..MaxStarted |-> IF n = 0 THEN 0 ELSE f[n - 1] + Weight(S, n)]
<1>3. f \in [0..MaxStarted -> Nat]
  BY <1>2 DEF SumsTo
<1>4. \A n \in 0..MaxStarted : f[n] = g[n]
  <2>1. \A n \in 0..MaxStarted : n = 0 \/ n \in 1..MaxStarted
    BY <1>1
  <2>2. QED
    BY <1>2, <2>1 DEF SumsTo
<1>5. f = g
  BY <1>3, <1>4
<1>6. \E sum : sum = [n \in 0..MaxStarted |->
                         IF n = 0 THEN 0 ELSE sum[n - 1] + Weight(S, n)]
  BY <1>5
<1>7. Sums(S) = [n \in 0..MaxStarted |->
                    IF n = 0 THEN 0 ELSE Sums(S)[n - 1] + Weight(S, n)]
  BY <1>6 DEF Sums
<1>8. QED
  BY <1>7

(* More runs have no fewer bytes.                                           *)
LEMMA SumsGrow ==
    ASSUME NEW S, NEW T, S \subseteq T
    PROVE  \A n \in 0..MaxStarted : /\ Sums(S)[n] \in Nat /\ Sums(T)[n] \in Nat
                                    /\ Sums(S)[n] <= Sums(T)[n]
<1> DEFINE s == Sums(S)
           t == Sums(T)
           Bad == {n \in 0..MaxStarted :
                      ~(s[n] \in Nat /\ t[n] \in Nat /\ s[n] <= t[n])}
<1>1. MaxStarted \in Nat
  BY RunLedgerAssumption
<1>2. \A n \in 0..MaxStarted : /\ s[n] = IF n = 0 THEN 0 ELSE s[n - 1] + Weight(S, n)
                               /\ t[n] = IF n = 0 THEN 0 ELSE t[n - 1] + Weight(T, n)
  BY SumsIs
<1> HIDE DEF s, t
<1>3. ASSUME Bad # {} PROVE FALSE
  <2>1. PICK k \in Bad : \A j \in Bad : k <= j
    <3>1. Bad \subseteq Nat
      OBVIOUS
    <3> HIDE DEF Bad
    <3>2. QED
      BY <1>3, <3>1, LeastNat
  <2>2. k \in 0..MaxStarted /\ k \in Nat
    OBVIOUS
  <2>3. CASE k = 0
    BY <1>2, <2>2, <2>3
  <2>4. CASE k # 0
    <3>1. k - 1 \in 0..MaxStarted /\ k - 1 \notin Bad /\ k \in 1..MaxStarted
      BY <1>1, <2>1, <2>2, <2>4
    <3>2. s[k - 1] \in Nat /\ t[k - 1] \in Nat /\ s[k - 1] <= t[k - 1]
      BY <3>1
    <3>3. Weight(S, k) \in Nat /\ Weight(T, k) \in Nat /\ Weight(S, k) <= Weight(T, k)
      <4>1. Weight(S, k) \in Nat /\ Weight(T, k) \in Nat
        BY <3>1, Weights
      <4>2. Weight(S, k) = 0 \/ Weight(S, k) = Weight(T, k)
        BY DEF Weight
      <4>3. QED
        BY <4>1, <4>2
    <3>4. s[k] = s[k - 1] + Weight(S, k) /\ t[k] = t[k - 1] + Weight(T, k)
      BY <1>2, <2>2, <2>4
    <3>5. QED
      BY <3>2, <3>3, <3>4
  <2>5. QED
    BY <2>3, <2>4
<1>4. QED
  BY <1>3 DEF s, t

LEMMA OverGrows ==
    ASSUME NEW S, NEW T, S \subseteq T, T \subseteq Runs, Over(S)
    PROVE  Over(T)
<1>1. MaxStarted \in Nat /\ MaxRuns \in Nat /\ MaxBytes \in Nat
  BY RunLedgerAssumption
<1>2. IsFiniteSet(T)
  <2>1. IsFiniteSet(1..MaxStarted)
    BY <1>1, FS_Interval
  <2>2. QED
    BY <2>1, FS_Subset DEF Runs
<1>3. /\ Cardinality(S) \in Nat /\ Cardinality(T) \in Nat
      /\ Cardinality(S) <= Cardinality(T)
  BY <1>2, FS_Subset, FS_CardinalityType
<1>4. Bytes(S) = Sums(S)[MaxStarted] /\ Bytes(T) = Sums(T)[MaxStarted]
  BY DEF Bytes, Sums, Weight
<1>5. Bytes(S) \in Nat /\ Bytes(T) \in Nat /\ Bytes(S) <= Bytes(T)
  BY <1>1, <1>4, SumsGrow
<1>6. QED
  BY <1>1, <1>3, <1>5 DEF Over

(* A prune stops within the limits, or when only running entries are left:  *)
(* what it keeps lies among the entries that the oldest prunable one it     *)
(* keeps was judged with.                                                   *)
LEMMA PrunedEnough ==
    ASSUME NEW es \in [Runs -> Entries]
    PROVE  \/ ~Over(Directories(Pruned(es)))
           \/ \A r \in Directories(Pruned(es)) : Pruned(es)[r].state = "running"
<1> DEFINE D == Directories(es)
           kept == Directories(Pruned(es))
           Rest(r) == D \ {q \in Runs : Prunable(es[q]) /\ Older(q, r)}
           old == {r \in kept : Prunable(es[r])}
<1>1. Absent.state = "absent" /\ Runs \subseteq Nat
  BY DEF Absent, Runs
<1>2. Victims(es) = {r \in D : Prunable(es[r]) /\ Over(Rest(r))}
  BY DEF Victims
<1>3. kept = D \ Victims(es) /\ D \subseteq Runs
  BY <1>1 DEF Directories, Pruned
<1>4. \A r \in kept : Pruned(es)[r] = es[r]
  BY <1>3 DEF Pruned
<1> HIDE DEF kept
<1>5. ASSUME NEW r \in kept, r \notin old
      PROVE  Pruned(es)[r].state = "running"
  <2>1. es[r].state \in {"absent", "bare", "running", "finished"} /\ es[r].state # "absent"
    BY <1>3 DEF Entries, Directories
  <2>2. es[r].state \notin {"bare", "finished"}
    BY <1>5 DEF Prunable
  <2>3. QED
    BY <1>4, <2>1, <2>2
<1>6. ASSUME old # {}
      PROVE  ~Over(kept)
  <2>1. PICK r \in old : \A q \in old : r <= q
    <3>1. old \subseteq Nat
      BY <1>1, <1>3
    <3> HIDE DEF old
    <3>2. QED
      BY <1>6, <3>1, LeastNat
  <2>2. r \in D /\ Prunable(es[r]) /\ r \notin Victims(es) /\ r \in Nat
    BY <1>1, <1>3
  <2>3. ~Over(Rest(r))
    BY <1>2, <2>2
  <2>4. kept \subseteq Rest(r)
    <3>1. ASSUME NEW q \in kept, Prunable(es[q]), Older(q, r) PROVE FALSE
      <4>1. q \in old /\ q \in Nat /\ q < r
        BY <1>1, <1>3, <3>1 DEF Older
      <4>2. QED
        BY <2>1, <2>2, <4>1
    <3>2. QED
      BY <1>3, <3>1
  <2>5. Rest(r) \subseteq Runs
    BY <1>3
  <2> HIDE DEF Rest
  <2>6. QED
    BY <2>3, <2>4, <2>5, OverGrows
<1>7. QED
  BY <1>5, <1>6 DEF kept

(* Only a write that prunes starts a run or finishes one.                   *)
LEMMA RecordedPrunes ==
    ASSUME IInv, [Next]_vars, NEW r \in Runs, RecordedNow(r)
    PROVE  \E es \in [Runs -> Entries] : entry' = Pruned(es)
<1>0. entry \in [Runs -> Entries] /\ code \in [Runs -> Codes]
  BY DEF IInv, TypeOK
<1>1. ASSUME NEW x \in Runs, NEW e \in Entries, Record(x, e)
      PROVE  \E es \in [Runs -> Entries] : entry' = Pruned(es)
  <2>1. [entry EXCEPT ![x] = e] \in [Runs -> Entries]
    BY <1>0
  <2>2. QED
    BY <1>1, <2>1 DEF Record
<1>2. entry' # entry /\ \E x \in Runs : entry'[x].state # entry[x].state
  BY DEF RecordedNow, RunningEntry, Absent
<1>3. ASSUME NEW x \in Runs, NEW rc \in Codes, FinishRun(x, rc)
      PROVE  \E es \in [Runs -> Entries] : entry' = Pruned(es)
  <2>1. Finished(entry[x], rc) \in Entries
    BY <1>0, EntryTypes
  <2>2. Record(x, Finished(entry[x], rc))
    BY <1>2, <1>3 DEF FinishRun
  <2>3. QED
    BY <1>1, <2>1, <2>2
<1>4. ASSUME NEW x \in Runs, FrontStep(x)
      PROVE  \E es \in [Runs -> Entries] : entry' = Pruned(es)
  <2>1. CASE StartDetached(x) \/ StartDirect(x) \/ RecordEvent(x)
    BY <1>1, <2>1, EntryTypes DEF StartDetached, StartDirect, RecordEvent
  <2>2. CASE LaunchFails(x)
    BY <1>3, <2>2 DEF LaunchFails, Codes
  <2>3. CASE CrashInStart(x)
    <3>1. entry' = [entry EXCEPT ![x] = Bare]
      BY <2>3 DEF CrashInStart
    <3>2. Bare.state = "bare"
      BY EntryFields
    <3>3. QED
      BY <1>0, <3>1, <3>2, EntryFields DEF RecordedNow
  <2>4. CASE RecordPid(x)
    BY <1>0, <1>2, <2>4 DEF RecordPid, Entries
  <2>5. QED
    BY <1>2, <1>4, <2>1, <2>2, <2>3, <2>4
       DEF FrontStep, CheckOutput, Launch, AttachReturns, FrontDies
<1>5. ASSUME NEW x \in Runs, RunnerStep(x)
      PROVE  \E es \in [Runs -> Entries] : entry' = Pruned(es)
  <2>1. CASE RecordFinish(x)
    BY <1>0, <1>3, <2>1 DEF RecordFinish
  <2>2. CASE Adopt(x)
    BY <1>0, <1>2, <2>2 DEF Adopt, Entries
  <2>3. QED
    BY <1>2, <1>5, <2>1, <2>2 DEF RunnerStep, ProviderEnds, RunnerExits, RunnerKilled
<1>6. ASSUME NEW q \in Reapers, ReaperStep(q)
      PROVE  \E es \in [Runs -> Entries] : entry' = Pruned(es)
  <2>1. CASE ReapFinish(q)
    <3>1. FinishRun(reaper[q].run, "reaped")
      BY <2>1 DEF ReapFinish
    <3>2. reaper[q].run \in Runs
      BY <2>1 DEF IInv, ReaperOK, ReapFinish
    <3>3. QED
      BY <1>3, <3>1, <3>2 DEF Codes
  <2>2. CASE ReapStamp(q)
    <3> DEFINE x == reaper[q].run
    <3>1. x \in Runs
      BY <2>2 DEF IInv, ReaperOK, ReapStamp
    <3>2. entry' = [entry EXCEPT ![x] = Stamped(entry[x])]
      BY <2>2 DEF ReapStamp
    <3> HIDE DEF x
    <3>3. x = r /\ entry'[r] = Stamped(entry[r]) /\ entry[r] \in Entries
      BY <1>0, <3>1, <3>2 DEF RecordedNow, RunningEntry, Absent
    <3>4. CASE entry[r].state = "absent"
      <4>1. entry'[r].orphaned /\ entry'[r].state = "running"
        BY <3>3, <3>4 DEF Stamped, RunningEntry, Absent
      <4>2. QED
        BY <4>1, EntryFields DEF RecordedNow
    <3>5. CASE entry[r].state # "absent"
      <4>1. Stamped(entry[r]).state = entry[r].state
        BY <3>3, <3>5, EntryFields
      <4>2. entry'[r].state = entry[r].state
        BY <3>3, <4>1
      <4>3. QED
        BY <3>5, <4>2 DEF RecordedNow
    <3>6. QED
      BY <3>4, <3>5
  <2>3. QED
    BY <1>2, <1>6, <2>1, <2>2 DEF ReaperStep, ReapRead, ReapCheck, ReaperDies
<1>7. ASSUME NEW w \in Waiters, WaiterStep(w)
      PROVE  entry' = entry
  BY <1>7 DEF WaiterStep, BeginWait, Poll
<1>8. CASE UNCHANGED vars
  BY <1>2, <1>8 DEF vars
<1>9. QED
  BY <1>2, <1>4, <1>5, <1>6, <1>7, <1>8 DEF Next

(* The invariant holds throughout, whatever is pruned, reaped or killed. *)
THEOREM Invariance == Spec => []IInv
<1>1. IInv /\ [Next]_vars => IInv'
  BY NextInv
<1>2. QED
  BY InitInv, <1>1, PTL DEF Spec

(* Every variable of the ledger keeps its type. *)
THEOREM TypeCorrect == Spec => []TypeOK
<1>1. IInv => TypeOK
  BY DEF IInv
<1>2. QED
  BY <1>1, Invariance, PTL

(* A run whose runner has not recorded the end is in the ledger and running.*)
THEOREM LiveKept == Spec => []LiveRunsKept
<1>1. IInv => LiveRunsKept
  BY DEF IInv, RunOK, LiveRunKept, LiveRunsKept
<1>2. QED
  BY <1>1, Invariance, PTL

(* A recorded outcome is the true one. *)
THEOREM TrueOutcome == Spec => []OutcomeTrue
<1>1. IInv => OutcomeTrue
  BY DEF IInv, RunOK, TrueRun, OutcomeTrue
<1>2. QED
  BY <1>1, Invariance, PTL

(* A waiter tells the runner's own code, or truly that it died without one. *)
THEOREM TrueAnswer == Spec => []AnswerTrue
<1>1. IInv => AnswerTrue
  BY DEF IInv, WaiterOK, AnswerTrue
<1>2. QED
  BY <1>1, Invariance, PTL

(* A finished entry keeps its outcome and its pid until it is pruned. *)
THEOREM FinalOutcome == Spec => OutcomeFinal
<1>1. IInv /\ [Next]_vars =>
         [\A r \in Runs : entry[r].state = "finished" =>
             \/ entry'[r].state = "absent"
             \/ /\ entry'[r].state = "finished"
                /\ entry'[r].rc = entry[r].rc /\ entry'[r].pid = entry[r].pid]_vars
  BY NextInv DEF FinalEntry
<1>2. QED
  BY <1>1, Invariance, PTL DEF Spec, OutcomeFinal

(* No dispatch goes past the check while a runner that writes the same path *)
(* is at work: such a runner is alive and its entry says so.                *)
THEOREM Refused == Spec => OutputRefused
<1>1. ASSUME IInv, [Next]_vars, NEW q \in Runs, NEW r \in Runs,
             front[r] = "idle", front'[r] = "checked", Output[q] = Output[r]
      PROVE  runner[q] # "working"
  <2>1. ~Live(q)
    <3>1. CheckOutput(r)
      BY <1>1, OnlyCheckChecks
    <3>2. QED
      BY <3>1, <1>1 DEF CheckOutput
  <2>2. RunOK(q)
    BY <1>1 DEF IInv
  <2>3. QED
    BY <2>1, <2>2 DEF Live, Alive, RunOK, HistoryOK, LiveRunKept
<1>2. IInv /\ [Next]_vars =>
         [\A q, r \in Runs :
             (front[r] = "idle" /\ front'[r] = "checked" /\ Output[q] = Output[r])
             => runner[q] # "working"]_vars
  BY <1>1
<1>3. QED
  BY <1>2, Invariance, PTL DEF Spec, OutputRefused

(* Whenever a run is started or finished, what goes beyond the limits is    *)
(* running: a prune stops early only when nothing prunable is left.         *)
THEOREM Retention == Spec => RetentionHolds
<1>1. ASSUME IInv, [Next]_vars, \E r \in Runs : RecordedNow(r)
      PROVE  \/ /\ Cardinality(Directories(entry')) <= MaxRuns
                /\ Bytes(Directories(entry')) <= MaxBytes
             \/ \A r \in Directories(entry') : entry'[r].state = "running"
  <2>1. PICK es \in [Runs -> Entries] : entry' = Pruned(es)
    BY <1>1, RecordedPrunes
  <2>2. \/ ~Over(Directories(entry'))
        \/ \A r \in Directories(entry') : entry'[r].state = "running"
    BY <2>1, PrunedEnough
  <2> DEFINE kept == Directories(entry')
  <2>3. /\ MaxRuns \in Nat /\ MaxBytes \in Nat
        /\ Cardinality(kept) \in Nat /\ Bytes(kept) \in Nat
    <3>1. IsFiniteSet(Runs) /\ MaxStarted \in 0..MaxStarted
      BY RunLedgerAssumption, FS_Interval DEF Runs
    <3>2. kept \subseteq Runs
      BY DEF Directories
    <3> HIDE DEF kept
    <3>3. Cardinality(kept) \in Nat
      BY <3>1, <3>2, FS_Subset, FS_CardinalityType
    <3>4. Bytes(kept) = Sums(kept)[MaxStarted]
      BY DEF Bytes, Sums, Weight
    <3>5. QED
      BY <3>1, <3>3, <3>4, SumsGrow, RunLedgerAssumption
  <2>4. ~Over(kept) => Cardinality(kept) <= MaxRuns /\ Bytes(kept) <= MaxBytes
    <3> HIDE DEF kept
    <3>1. QED
      BY <2>3 DEF Over
  <2>5. QED
    BY <2>2, <2>4
<1>2. IInv /\ [Next]_vars =>
         [(\E r \in Runs : RecordedNow(r)) =>
             \/ /\ Cardinality(Directories(entry')) <= MaxRuns
                /\ Bytes(Directories(entry')) <= MaxBytes
             \/ \A r \in Directories(entry') : entry'[r].state = "running"]_vars
  BY <1>1
<1>3. QED
  BY <1>2, Invariance, PTL DEF Spec, RetentionHolds

-----------------------------------------------------------------------------
(* The book.  A step of the ledger moves one run of it, and lets the others *)
(* stay or be forgotten.                                                    *)

Same(r) == Life(r)' = Life(r) /\ OnRecord(r)' = OnRecord(r)
Settled(r) == Life(r)' = Life(r) /\ OnRecord(r)' \in B!Stays(OnRecord(r))
Moved(r, l, b) == Life(r)' = l /\ OnRecord(r)' \in B!Stays(b)

RecordsTyped == \A r \in Runs : OnRecord(r) \in B!Books

LEMMA RecordTypes == IInv => RecordsTyped
<1> SUFFICES ASSUME IInv, NEW r \in Runs PROVE OnRecord(r) \in B!Books
  BY DEF RecordsTyped
<1>1. entry[r].state \in {"absent", "bare", "running", "finished"}
  BY DEF IInv, TypeOK, Entries
<1>2. TrueRun(r)
  BY DEF IInv, RunOK
<1>3. OnRecord(r) \in B!Books
  BY <1>1, <1>2 DEF OnRecord, TrueRun, B!Books, B!Closed
<1>4. QED
  BY <1>3

LEMMA ApartSettles ==
    ASSUME IInv, NEW r \in Runs, Apart(r)
    PROVE  Settled(r)
<1>1. entry[r].state \in {"absent", "bare", "running", "finished"}
  BY DEF IInv, TypeOK, Entries
<1>2. HistoryOK(r) /\ TrueRun(r)
  BY DEF IInv, RunOK
<1>3. Life(r)' = Life(r) /\ (Allocated(r)' <=> Allocated(r))
  BY DEF Apart, Life, Allocated
<1>4. CASE entry'[r] = entry[r]
  <2>1. OnRecord(r)' = OnRecord(r)
    BY <1>3, <1>4 DEF OnRecord, Ghost
  <2>2. QED
    BY <1>3, <2>1 DEF Settled, B!Stays
<1>5. CASE Prunable(entry[r]) /\ entry'[r] = Absent
  <2>1. Allocated(r)'
    BY <1>2, <1>3, <1>5 DEF HistoryOK, Prunable, Absent
  <2>2. OnRecord(r)' = "forgotten"
    BY <1>5, <2>1 DEF OnRecord, Absent
  <2>3. OnRecord(r) \in B!Closed
    BY <1>2, <1>5 DEF OnRecord, Ghost, Prunable, TrueRun, B!Closed
  <2>4. QED
    BY <1>3, <2>2, <2>3 DEF Settled, B!Stays
<1>6. QED
  BY <1>4, <1>5 DEF Apart

LEMMA MovesIs ==
    ASSUME IInv, IInv', NEW r \in Runs, NEW l, NEW b, Moved(r, l, b),
           \A q \in Runs \ {r} : Settled(q)
    PROVE  B!Moves(r, l, b)
<1> DEFINE life == [q \in Runs |-> Life(q)]
           book == [q \in Runs |-> OnRecord(q)]
<1>1. life' = [life EXCEPT ![r] = l]
  BY DEF Moved, Settled
<1>2. RecordsTyped'
  BY RecordTypes, PTL
<1>3. book' \in [Runs -> B!Books]
  BY <1>2 DEF RecordsTyped, B!Books, B!Closed
<1>4. book'[r] \in B!Stays(b)
  BY DEF Moved
<1>5. \A q \in Runs \ {r} : book'[q] \in B!Stays(book[q])
  BY DEF Settled
<1>6. QED
  BY <1>1, <1>3, <1>4, <1>5 DEF B!Moves

LEMMA SameStutters ==
    ASSUME \A q \in Runs : Same(q)
    PROVE  UNCHANGED B!vars
BY DEF Same, B!vars

LEMMA RunMoves ==
    ASSUME IInv, IInv', NEW r \in Runs, NEW l, NEW b, Moved(r, l, b),
           \A x \in Runs \ {r} : Apart(x)
    PROVE  B!Moves(r, l, b)
BY ApartSettles, MovesIs

LEMMA Written ==
    ASSUME IInv, NEW r \in Runs, NEW e \in Entries, Record(r, e),
           \A x \in Runs \ {r} : /\ front'[x] = front[x] /\ runner'[x] = runner[x]
                                 /\ code'[x] = code[x]
    PROVE  /\ \A x \in Runs \ {r} : Apart(x)
           /\ entry'[r] = e \/ (Prunable(e) /\ entry'[r] = Absent)
<1>1. entry \in [Runs -> Entries]
  BY DEF IInv, TypeOK
<1>2. QED
  BY <1>1, RecordFacts DEF Apart

LEMMA StartsBook ==
    ASSUME IInv, IInv', NEW r \in Runs,
           StartDetached(r) \/ StartDirect(r) \/ CrashInStart(r) \/ RecordEvent(r)
    PROVE  B!Open(r) \/ B!Note(r)
<1>1. /\ entry \in [Runs -> Entries] /\ front \in [Runs -> FrontStates]
      /\ runner \in [Runs -> RunnerStates] /\ code \in [Runs -> Codes] /\ HistoryOK(r)
  BY DEF IInv, TypeOK, RunOK
<1>2. ~Allocated(r) /\ runner[r] = "none" /\ Life(r) = "unborn"
  BY <1>1 DEF HistoryOK, StartDetached, StartDirect, CrashInStart, RecordEvent, NextId, Life
<1>3. CASE StartDetached(r)
  <2>1. Record(r, RunningEntry(FALSE)) /\ RunningEntry(FALSE) \in Entries
    BY <1>3, EntryTypes DEF StartDetached
  <2>2. /\ front' = [front EXCEPT ![r] = "created"] /\ runner' = runner /\ code' = code
    BY <1>3 DEF StartDetached
  <2>3. /\ \A x \in Runs \ {r} : Apart(x)
        /\ entry'[r] = RunningEntry(FALSE)
    BY <1>1, <2>1, <2>2, Written, EntryFields DEF Prunable
  <2>4. Life(r)' = "pending" /\ OnRecord(r)' = "running"
    <3>1. entry'[r].state = "running" /\ ~entry'[r].orphaned
      BY <2>3 DEF RunningEntry, Absent
    <3>2. Life(r)' = "pending"
      BY <1>1, <1>2, <2>2 DEF Life, Allocated
    <3>3. QED
      BY <3>1, <3>2 DEF OnRecord, Ghost
  <2>5. B!Moves(r, "pending", "running")
    BY <2>3, <2>4, RunMoves DEF Moved, B!Stays
  <2>6. QED
    BY <1>2, <2>5 DEF B!Open
<1>4. CASE StartDirect(r)
  <2>1. Record(r, RunningEntry(TRUE)) /\ RunningEntry(TRUE) \in Entries
    BY <1>4, EntryTypes DEF StartDirect
  <2>2. /\ front' = [front EXCEPT ![r] = "done"] /\ code' = code
        /\ runner' = [runner EXCEPT ![r] = "working"]
    BY <1>4 DEF StartDirect
  <2>3. /\ \A x \in Runs \ {r} : Apart(x)
        /\ entry'[r] = RunningEntry(TRUE)
    BY <1>1, <2>1, <2>2, Written, EntryFields DEF Prunable
  <2>4. Life(r)' = "live" /\ OnRecord(r)' = "running"
    <3>1. entry'[r].state = "running" /\ ~entry'[r].orphaned
      BY <2>3 DEF RunningEntry, Absent
    <3>2. Life(r)' = "live"
      BY <1>1, <1>2, <2>2 DEF Life, Allocated
    <3>3. QED
      BY <3>1, <3>2 DEF OnRecord, Ghost
  <2>5. B!Moves(r, "live", "running")
    BY <2>3, <2>4, RunMoves DEF Moved, B!Stays
  <2>6. QED
    BY <1>2, <2>5 DEF B!Open
<1>5. CASE CrashInStart(r)
  <2>1. /\ front' = [front EXCEPT ![r] = "done"] /\ runner' = runner /\ code' = code
        /\ entry' = [entry EXCEPT ![r] = Bare]
    BY <1>5 DEF CrashInStart
  <2>2. \A x \in Runs \ {r} : Apart(x)
    BY <1>1, <2>1 DEF Apart
  <2>3. Life(r)' = "pending" /\ OnRecord(r)' = "blank"
    BY <1>1, <1>2, <2>1, EntryFields DEF Life, Allocated, OnRecord
  <2>4. B!Moves(r, "pending", "blank")
    BY <2>2, <2>3, RunMoves DEF Moved, B!Stays
  <2>5. QED
    BY <1>2, <2>4 DEF B!Note
<1>6. CASE RecordEvent(r)
  <2>1. Record(r, Event) /\ Event \in Entries
    BY <1>6, EntryTypes DEF RecordEvent
  <2>2. /\ front' = [front EXCEPT ![r] = "done"] /\ runner' = runner /\ code' = code
    BY <1>6 DEF RecordEvent
  <2>3. /\ \A x \in Runs \ {r} : Apart(x)
        /\ entry'[r] = Event \/ entry'[r] = Absent
    BY <1>1, <2>1, <2>2, Written
  <2>4. Life(r)' = "pending" /\ Allocated(r)'
    BY <1>1, <1>2, <2>2 DEF Life, Allocated
  <2>5. OnRecord(r)' \in {"event", "forgotten"}
    BY <2>3, <2>4, EntryFields DEF OnRecord, Ghost
  <2>6. B!Moves(r, "pending", "event")
    BY <2>3, <2>4, <2>5, RunMoves DEF Moved, B!Stays, B!Closed
  <2>7. QED
    BY <1>2, <2>6 DEF B!Note
<1>7. QED
  BY <1>3, <1>4, <1>5, <1>6

(* A finish record closes a run that shows as running, or changes nothing.  *)
LEMMA FinishBook ==
    ASSUME IInv, NEW r \in Runs, NEW rc \in {"ok", "failed", "reaped", "unlaunched"},
           FinishRun(r, rc),
           \A x \in Runs \ {r} : /\ front'[x] = front[x] /\ runner'[x] = runner[x]
                                 /\ code'[x] = code[x],
           Allocated(r)', entry[r].state = "running"
    PROVE  /\ \A x \in Runs \ {r} : Apart(x)
           /\ OnRecord(r)' \in B!Stays(rc)
<1>1. entry \in [Runs -> Entries] /\ rc \in Codes
  BY DEF IInv, TypeOK, Codes
<1> DEFINE e == Finished(entry[r], rc)
<1>2. e \in Entries /\ Record(r, e) /\ e.state = "finished" /\ e.rc = rc
  BY <1>1, EntryTypes, EntryFields DEF FinishRun, MayFinish
<1> HIDE DEF e
<1>3. /\ \A x \in Runs \ {r} : Apart(x)
      /\ entry'[r] = e \/ entry'[r] = Absent
  BY <1>2, Written
<1>4. OnRecord(r)' \in {rc, "forgotten"}
  BY <1>2, <1>3, EntryFields DEF OnRecord, Ghost
<1>5. QED
  BY <1>3, <1>4 DEF B!Stays, B!Closed

LEMMA FrontBook ==
    ASSUME IInv, IInv', NEW r \in Runs, FrontStep(r)
    PROVE  UNCHANGED B!vars \/ B!Next
<1>1. /\ entry \in [Runs -> Entries] /\ front \in [Runs -> FrontStates]
      /\ runner \in [Runs -> RunnerStates] /\ code \in [Runs -> Codes] /\ HistoryOK(r)
  BY DEF IInv, TypeOK, RunOK
<1>2. CASE StartDetached(r) \/ StartDirect(r) \/ CrashInStart(r) \/ RecordEvent(r)
  BY <1>2, StartsBook DEF B!Next
<1>3. CASE CheckOutput(r) \/ AttachReturns(r) \/ FrontDies(r)
  <2>1. \A x \in Runs : Same(x)
    BY <1>1, <1>3 DEF CheckOutput, AttachReturns, FrontDies, Same, Life, Allocated,
                      OnRecord, Ghost
  <2>2. QED
    BY <2>1, SameStutters
<1>4. CASE Launch(r)
  <2>1. /\ front[r] = "created" /\ entry' = entry /\ code' = code
        /\ front' = [front EXCEPT ![r] = "launched"]
        /\ runner' = [runner EXCEPT ![r] = "started"]
    BY <1>4 DEF Launch
  <2>2. \A x \in Runs \ {r} : Apart(x)
    BY <1>1, <2>1 DEF Apart
  <2>3. Life(r) = "pending" /\ OnRecord(r) = "running"
    BY <1>1, <2>1 DEF HistoryOK, Life, Allocated, OnRecord, Ghost
  <2>4. Life(r)' = "live" /\ OnRecord(r)' = "running"
    BY <1>1, <2>1 DEF HistoryOK, Life, Allocated, OnRecord, Ghost
  <2>5. B!Moves(r, "live", "running")
    BY <2>2, <2>4, RunMoves DEF Moved, B!Stays
  <2>6. B!Launch(r)
    BY <2>3, <2>5 DEF B!Launch
  <2>7. QED
    BY <2>6 DEF B!Next
<1>5. CASE LaunchFails(r)
  <2>1. /\ front[r] = "created" /\ FinishRun(r, "unlaunched")
        /\ front' = [front EXCEPT ![r] = "done"] /\ runner' = runner /\ code' = code
    BY <1>5 DEF LaunchFails
  <2>2. /\ Life(r) = "pending" /\ OnRecord(r) = "running"
        /\ entry[r].state = "running" /\ Life(r)' = "pending" /\ Allocated(r)'
    BY <1>1, <2>1 DEF HistoryOK, Life, Allocated, OnRecord, Ghost
  <2>3. \A x \in Runs \ {r} : /\ front'[x] = front[x] /\ runner'[x] = runner[x]
                              /\ code'[x] = code[x]
    BY <1>1, <2>1
  <2>4. /\ \A x \in Runs \ {r} : Apart(x)
        /\ OnRecord(r)' \in B!Stays("unlaunched")
    BY <2>1, <2>2, <2>3, FinishBook
  <2>5. B!Moves(r, "pending", "unlaunched")
    BY <2>2, <2>4, RunMoves DEF Moved
  <2>6. B!Fail(r)
    BY <2>2, <2>5 DEF B!Fail
  <2>7. QED
    BY <2>6 DEF B!Next
<1>6. CASE RecordPid(r)
  <2>1. /\ front[r] = "launched" /\ runner' = runner /\ front'[r] \in {"attached", "done"}
        /\ \A x \in Runs \ {r} : front'[x] = front[x] /\ entry'[x] = entry[x]
    BY <1>1, <1>6 DEF RecordPid
  <2>2. /\ entry'[r].state = entry[r].state /\ entry'[r].orphaned = entry[r].orphaned
        /\ entry'[r].rc = entry[r].rc
    BY <1>1, <1>6 DEF RecordPid, Entries
  <2>3. \A x \in Runs \ {r} : Same(x)
    BY <2>1 DEF Same, Life, Allocated, OnRecord, Ghost
  <2>4. Same(r)
    BY <2>1, <2>2 DEF Same, Life, Allocated, OnRecord, Ghost
  <2>5. QED
    BY <2>3, <2>4, SameStutters
<1>7. QED
  BY <1>2, <1>3, <1>4, <1>5, <1>6 DEF FrontStep

LEMMA RunnerBook ==
    ASSUME IInv, IInv', NEW r \in Runs, RunnerStep(r)
    PROVE  UNCHANGED B!vars \/ B!Next
<1>1. /\ entry \in [Runs -> Entries] /\ front \in [Runs -> FrontStates]
      /\ runner \in [Runs -> RunnerStates] /\ code \in [Runs -> Codes]
      /\ HistoryOK(r) /\ LiveRunKept(r)
  BY DEF IInv, TypeOK, RunOK
<1>2. runner[r] # "none" => Allocated(r)
  BY <1>1 DEF HistoryOK
<1>3. runner[r] \in {"started", "working", "ending"} =>
         /\ Life(r) = "live" /\ OnRecord(r) = "running"
         /\ entry[r].state = "running" /\ ~entry[r].orphaned
  BY <1>1, <1>2 DEF LiveRunKept, Life, OnRecord, Ghost
<1>4. ASSUME /\ runner[r] \in {"started", "working", "ending"}
             /\ entry' = entry /\ front' = front
             /\ code' = code /\ runner' = [runner EXCEPT ![r] = "dead"]
      PROVE  B!Next
  <2>1. \A x \in Runs \ {r} : Apart(x)
    BY <1>1, <1>4 DEF Apart
  <2>2. Allocated(r)'
    BY <1>2, <1>4 DEF Allocated
  <2>3. Life(r)' = "over" /\ OnRecord(r)' = "running"
    BY <1>1, <1>3, <1>4, <2>2 DEF Life, OnRecord, Ghost
  <2>4. B!Moves(r, "over", "running")
    BY <2>1, <2>3, RunMoves DEF Moved, B!Stays
  <2>5. B!Die(r)
    BY <1>3, <1>4, <2>4 DEF B!Die
  <2>6. QED
    BY <2>5 DEF B!Next
<1>5. CASE Adopt(r)
  <2>1. /\ runner[r] = "started" /\ front' = front
        /\ runner' = [runner EXCEPT ![r] = "working"]
        /\ \A x \in Runs \ {r} : entry'[x] = entry[x]
        /\ entry'[r].state = entry[r].state /\ entry'[r].orphaned = entry[r].orphaned
        /\ entry'[r].rc = entry[r].rc
    BY <1>1, <1>5 DEF Adopt, Entries
  <2>2. \A x \in Runs \ {r} : Same(x)
    BY <1>1, <2>1 DEF Same, Life, Allocated, OnRecord, Ghost
  <2>3. Same(r)
    BY <1>1, <2>1 DEF Same, Life, Allocated, OnRecord, Ghost
  <2>4. QED
    BY <2>2, <2>3, SameStutters
<1>6. CASE ProviderEnds(r)
  <2>1. /\ runner[r] = "working" /\ front' = front /\ entry' = entry
        /\ runner' = [runner EXCEPT ![r] = "ending"]
    BY <1>6 DEF ProviderEnds
  <2>2. \A x \in Runs : Same(x)
    BY <1>1, <2>1 DEF Same, Life, Allocated, OnRecord, Ghost
  <2>3. QED
    BY <2>2, SameStutters
<1>7. CASE RecordFinish(r)
  <2>1. /\ runner[r] = "ending" /\ FinishRun(r, code[r]) /\ front' = front /\ code' = code
        /\ runner' = [runner EXCEPT ![r] = "recorded"]
    BY <1>7 DEF RecordFinish
  <2>2. code[r] \in {"ok", "failed"}
    BY <1>1, <2>1 DEF HistoryOK
  <2>3. Life(r)' = "over" /\ Allocated(r)'
    BY <1>1, <1>2, <2>1 DEF Life, Allocated
  <2>4. \A x \in Runs \ {r} : /\ front'[x] = front[x] /\ runner'[x] = runner[x]
                              /\ code'[x] = code[x]
    BY <1>1, <2>1
  <2>5. /\ \A x \in Runs \ {r} : Apart(x)
        /\ OnRecord(r)' \in B!Stays(code[r])
    BY <1>3, <2>1, <2>2, <2>3, <2>4, FinishBook
  <2>6. B!Moves(r, "over", code[r])
    BY <2>3, <2>5, RunMoves DEF Moved
  <2>7. B!Close(r)
    BY <1>3, <2>1, <2>2, <2>6 DEF B!Close
  <2>8. QED
    BY <2>7 DEF B!Next
<1>8. CASE RunnerExits(r) /\ runner[r] = "recorded"
  <2>1. /\ front' = front /\ entry' = entry
        /\ runner' = [runner EXCEPT ![r] = "dead"]
    BY <1>8 DEF RunnerExits
  <2>2. \A x \in Runs : Same(x)
    BY <1>1, <1>8, <2>1 DEF Same, Life, Allocated, OnRecord, Ghost
  <2>3. QED
    BY <2>2, SameStutters
<1>9. CASE (RunnerExits(r) /\ runner[r] = "started") \/ RunnerKilled(r)
  BY <1>4, <1>9 DEF RunnerExits, RunnerKilled
<1>10. QED
  BY <1>5, <1>6, <1>7, <1>8, <1>9 DEF RunnerStep, RunnerExits

(* Who is about to mark a run has closed it: it shows as running no more,   *)
(* except as a ghost.                                                       *)
ClosedOK(q) == reaper[q].at = "stamp" => OnRecord(reaper[q].run) # "running"
ClosedInv == \A q \in Reapers : ClosedOK(q)

LEMMA ReaperBook ==
    ASSUME IInv, IInv', ClosedInv, NEW q \in Reapers, ReaperStep(q)
    PROVE  UNCHANGED B!vars \/ B!Next
<1>1. /\ entry \in [Runs -> Entries] /\ front \in [Runs -> FrontStates]
      /\ runner \in [Runs -> RunnerStates] /\ code \in [Runs -> Codes]
      /\ ReaperOK(q) /\ ClosedOK(q)
  BY DEF IInv, TypeOK, ClosedInv
<1>2. CASE entry' = entry /\ front' = front /\ runner' = runner
  <2>1. \A x \in Runs : Same(x)
    BY <1>2 DEF Same, Life, Allocated, OnRecord, Ghost
  <2>2. QED
    BY <2>1, SameStutters
<1>0. PICK r : r = reaper[q].run
  OBVIOUS
<1>3. reaper[q].at \in {"dead", "stamp"} =>
         /\ r \in Runs /\ runner[r] = "dead" /\ Allocated(r) /\ Life(r) = "over"
  <2>1. reaper[q].at \in {"dead", "stamp"} => r \in Runs /\ runner[r] = "dead"
    BY <1>0, <1>1 DEF ReaperOK
  <2>2. \A x \in Runs : HistoryOK(x)
    BY DEF IInv, RunOK
  <2>3. QED
    BY <2>1, <2>2 DEF HistoryOK, Life
<1>4. CASE ReapFinish(q) /\ entry[r].state = "running"
  <2>1. /\ reaper[q].at = "dead" /\ FinishRun(r, "reaped")
        /\ front' = front /\ runner' = runner /\ code' = code
    BY <1>0, <1>4 DEF ReapFinish
  <2>2. r \in Runs /\ Life(r) = "over" /\ Life(r)' = "over" /\ Allocated(r)'
    BY <1>3, <2>1 DEF Life, Allocated
  <2>3. OnRecord(r) \in {"running", "ghost"}
    BY <1>4 DEF OnRecord
  <2>4. \A x \in Runs \ {r} : /\ front'[x] = front[x] /\ runner'[x] = runner[x]
                              /\ code'[x] = code[x]
    BY <2>1
  <2>5. /\ \A x \in Runs \ {r} : Apart(x)
        /\ OnRecord(r)' \in B!Stays("reaped")
    BY <1>4, <2>1, <2>2, <2>4, FinishBook
  <2>6. B!Moves(r, "over", "reaped")
    BY <2>2, <2>5, RunMoves DEF Moved
  <2>7. B!Reap(r)
    BY <2>2, <2>3, <2>6 DEF B!Reap
  <2>8. QED
    BY <2>2, <2>7 DEF B!Next
<1>5. CASE ReapFinish(q) /\ entry[r].state # "running"
  BY <1>0, <1>2, <1>5 DEF ReapFinish, FinishRun, MayFinish
<1>6. CASE ReapStamp(q)
  <2>1. /\ reaper[q].at = "stamp" /\ entry' = [entry EXCEPT ![r] = Stamped(entry[r])]
        /\ front' = front /\ runner' = runner /\ code' = code
    BY <1>0, <1>6 DEF ReapStamp
  <2>2. r \in Runs /\ Life(r) = "over" /\ Life(r)' = "over" /\ Allocated(r) /\ Allocated(r)'
    BY <1>3, <2>1 DEF Life, Allocated
  <2>3. \A x \in Runs \ {r} : Apart(x) /\ Same(x)
    BY <1>1, <2>1 DEF Apart, Same, Life, Allocated, OnRecord, Ghost
  <2>4. entry[r] \in Entries /\ entry'[r] = Stamped(entry[r])
    BY <1>1, <2>1, <2>2
  <2>5. CASE entry[r].state = "absent"
    <3>1. entry'[r].state = "running" /\ entry'[r].orphaned
      BY <2>4, <2>5 DEF Stamped, RunningEntry, Absent
    <3>2. OnRecord(r)' = "ghost" /\ OnRecord(r) = "forgotten"
      BY <2>2, <2>5, <3>1 DEF OnRecord, Ghost
    <3>3. B!Moves(r, "over", "ghost")
      BY <2>2, <2>3, <3>2, RunMoves DEF Moved, B!Stays
    <3>4. B!Haunt(r)
      BY <2>2, <3>2, <3>3 DEF B!Haunt
    <3>5. QED
      BY <2>2, <3>4 DEF B!Next
  <2>6. CASE entry[r].state # "absent"
    <3>1. /\ entry'[r].state = entry[r].state /\ entry'[r].rc = entry[r].rc
          /\ entry'[r].orphaned
      BY <2>4, <2>6 DEF Stamped, Entries
    <3>2. entry[r].state = "running" => entry[r].orphaned
      BY <1>0, <1>1, <2>1, <2>2 DEF ClosedOK, OnRecord, Ghost
    <3>3. OnRecord(r)' = OnRecord(r)
      BY <2>2, <3>1, <3>2 DEF OnRecord, Ghost
    <3>4. Same(r)
      BY <2>2, <3>3 DEF Same
    <3>5. QED
      BY <2>3, <3>4, SameStutters
  <2>7. QED
    BY <2>5, <2>6
<1>7. QED
  BY <1>2, <1>4, <1>5, <1>6 DEF ReaperStep, ReapRead, ReapCheck, ReaperDies

LEMMA BookStep ==
    ASSUME IInv, IInv', ClosedInv, [Next]_vars
    PROVE  UNCHANGED B!vars \/ B!Next
<1>1. CASE \E r \in Runs : FrontStep(r) \/ RunnerStep(r)
  BY <1>1, FrontBook, RunnerBook
<1>2. CASE \E q \in Reapers : ReaperStep(q)
  BY <1>2, ReaperBook
<1>3. CASE (\E w \in Waiters : WaiterStep(w)) \/ UNCHANGED vars
  <2>1. entry' = entry /\ front' = front /\ runner' = runner
    BY <1>3 DEF WaiterStep, BeginWait, Poll, vars
  <2>2. \A x \in Runs : Same(x)
    BY <2>1 DEF Same, Life, Allocated, OnRecord, Ghost
  <2>3. QED
    BY <2>2, SameStutters
<1>4. QED
  BY <1>1, <1>2, <1>3 DEF Next

(* A run that is over and closed does not show as running again.            *)
LEMMA NeverAgain ==
    ASSUME UNCHANGED B!vars \/ B!Next, NEW r \in Runs,
           Life(r) = "over", OnRecord(r) # "running"
    PROVE  OnRecord(r)' # "running"
<1> DEFINE life == [q \in Runs |-> Life(q)]
           book == [q \in Runs |-> OnRecord(q)]
<1>1. life[r] = "over" /\ book[r] # "running" /\ book'[r] = OnRecord(r)'
  OBVIOUS
<1>2. CASE UNCHANGED B!vars
  <2>1. book' = book
    BY <1>2 DEF B!vars
  <2>2. QED
    BY <1>1, <2>1
<1>3. CASE B!Next
  <2>1. PICK x \in Runs : B!Open(x) \/ B!Note(x) \/ B!Launch(x) \/ B!Fail(x)
                          \/ B!Close(x) \/ B!Die(x) \/ B!Reap(x) \/ B!Haunt(x)
    BY <1>3 DEF B!Next
  <2>2. \/ x # r /\ book'[r] \in B!Stays(book[r])
        \/ x = r /\ (book'[r] \in B!Stays("reaped") \/ book'[r] \in B!Stays("ghost"))
    BY <1>1, <2>1 DEF B!Open, B!Note, B!Launch, B!Fail, B!Close, B!Die, B!Reap, B!Haunt,
                      B!Moves
  <2>3. QED
    BY <1>1, <2>2 DEF B!Stays, B!Closed
<1>4. QED
  BY <1>2, <1>3

LEMMA ClosedNext ==
    ASSUME IInv, IInv', ClosedInv, [Next]_vars
    PROVE  ClosedInv'
<1> SUFFICES ASSUME NEW q \in Reapers, reaper'[q].at = "stamp"
             PROVE  (OnRecord(reaper[q].run) # "running")'
  BY DEF ClosedInv, ClosedOK
<1>1. PICK r : r = reaper'[q].run
  OBVIOUS
<1>2. SUFFICES OnRecord(r)' # "running"
  BY <1>1 DEF OnRecord, Ghost, Allocated
<1>3. reaper \in [Reapers -> Reaping] /\ ReaperOK(q) /\ ClosedOK(q)
  BY DEF IInv, TypeOK, ClosedInv
<1>4. CASE reaper'[q] = reaper[q]
  <2>1. reaper[q].at = "stamp" /\ r \in Runs /\ runner[r] = "dead" /\ r = reaper[q].run
    BY <1>1, <1>3, <1>4 DEF ReaperOK
  <2>2. HistoryOK(r)
    BY <2>1 DEF IInv, RunOK
  <2>3. Life(r) = "over" /\ OnRecord(r) # "running"
    BY <1>3, <2>1, <2>2 DEF HistoryOK, Life, ClosedOK
  <2>4. QED
    BY <2>1, <2>3, BookStep, NeverAgain
<1>5. CASE ReapFinish(q)
  <2>1. /\ r = reaper[q].run /\ reaper[q].at = "dead" /\ entry[r].state # "absent"
        /\ FinishRun(r, "reaped") /\ front' = front /\ runner' = runner /\ code' = code
    BY <1>1, <1>3, <1>5 DEF ReapFinish, Resting, Reaping
  <2>2. r \in Runs /\ runner[r] = "dead"
    BY <1>3, <2>1 DEF ReaperOK
  <2>3. HistoryOK(r) /\ TrueRun(r) /\ entry[r] \in Entries
    BY <2>2 DEF IInv, RunOK, TypeOK
  <2>4. Allocated(r)'
    BY <2>1, <2>2, <2>3 DEF HistoryOK, Allocated
  <2>5. CASE entry[r].state = "running"
    <3>1. OnRecord(r)' \in B!Stays("reaped")
      BY <2>1, <2>2, <2>4, <2>5, FinishBook
    <3>2. QED
      BY <3>1 DEF B!Stays, B!Closed
  <2>6. CASE entry[r].state # "running"
    <3>1. entry' = entry /\ entry[r].state \in {"bare", "finished"}
      BY <2>1, <2>3, <2>6 DEF FinishRun, MayFinish, Entries
    <3>2. QED
      BY <2>3, <3>1 DEF OnRecord, Ghost, TrueRun
  <2>7. QED
    BY <2>5, <2>6
<1>6. QED
  <2>1. CASE \E x \in Runs : FrontStep(x) \/ RunnerStep(x)
    BY <1>4, <2>1 DEF FrontStep, RunnerStep, CheckOutput, StartDetached, StartDirect,
          CrashInStart, RecordEvent, Launch, LaunchFails, RecordPid, AttachReturns, FrontDies,
          Adopt, ProviderEnds, RecordFinish, RunnerExits, RunnerKilled
  <2>2. CASE (\E w \in Waiters : WaiterStep(w)) \/ UNCHANGED vars
    BY <1>4, <2>2 DEF WaiterStep, BeginWait, Poll, vars
  <2>3. CASE \E x \in Reapers : ReaperStep(x)
    <3>1. PICK x \in Reapers : ReaperStep(x)
      BY <2>3
    <3>2. CASE x # q
      BY <1>3, <1>4, <3>1, <3>2 DEF ReaperStep, ReapRead, ReapCheck, ReapFinish, ReapStamp,
                                    ReaperDies
    <3>3. CASE x = q
      <4>1. reaper'[q].at = "stamp" => ReapFinish(q)
        BY <1>3, <3>1, <3>3 DEF ReaperStep, ReapRead, ReapCheck, ReapStamp, ReaperDies,
                                Resting, Reaping
      <4>2. QED
        BY <1>5, <4>1
    <3>4. QED
      BY <3>2, <3>3
  <2>4. QED
    BY <2>1, <2>2, <2>3 DEF Next

(* The ledger keeps its book: a live run shows as running, only its own end  *)
(* or a reaper after its death closes it, and only retention drops a record. *)
THEOREM KeepsBook == Spec => RunBookSpec
<1>1. Init => B!Init
  BY DEF Init, B!Init, Life, OnRecord, Allocated, Absent
<1>2. Init => ClosedInv
  BY DEF Init, ClosedInv, ClosedOK, Resting
<1>3. IInv /\ IInv' /\ ClosedInv /\ [Next]_vars => ClosedInv' /\ [B!Next]_(B!vars)
  BY BookStep, ClosedNext
<1>4. QED
  BY <1>1, <1>2, <1>3, Invariance, PTL DEF Spec, RunBookSpec, B!Spec

=============================================================================
