------------------------------ MODULE RunLedger ------------------------------
(***************************************************************************)
(* The run ledger of subfleet/run_ledger.py: one directory per dispatched  *)
(* run, written under one lock by the front door that creates it, by the   *)
(* runner that adopts and finishes it and by `subfleet runs reap`, pruned  *)
(* whenever a run is recorded, and polled without the lock by              *)
(* `subfleet wait`, by the reaper and by the check of a run's -o path.     *)
(*                                                                         *)
(* A run id starts with the time of its allocation, so ids are numbers in  *)
(* the order of allocation.  A section that holds the lock is one action.  *)
(* Artifacts are copied with the entry and are left out.                   *)
(***************************************************************************)
EXTENDS Naturals, FiniteSets

CONSTANTS
    MaxStarted,   \* bound: run ids allocated in a behaviour
    MaxRuns,      \* MAX_RUNS
    MaxBytes,     \* MAX_BYTES
    Size,         \* bytes that each run's directory holds
    Output,       \* the -o path that each run is dispatched with
    Reapers,      \* processes running `subfleet runs reap`
    Waiters       \* processes waiting for a run

Runs == 1..MaxStarted

ASSUME RunLedgerAssumption ==
    /\ MaxStarted \in Nat /\ MaxRuns \in Nat /\ MaxBytes \in Nat
    /\ Size \in [Runs -> Nat]

VARIABLES
    entry,    \* what the ledger holds of each run
    front,    \* the front door that dispatches each run
    runner,   \* the runner process of each run
    code,     \* the exit code its runner is about to record
    reaper,   \* what each reaper is doing
    waiter    \* what each waiter has seen and answered

vars == <<entry, front, runner, code, reaper, waiter>>

-----------------------------------------------------------------------------
(* Entries: the directory is absent, bare (no meta.json yet), running (no   *)
(* finished_at) or finished.                                                *)

Codes == {"none", "ok", "failed", "reaped", "unlaunched", "event"}
Entries == [state: {"absent", "bare", "running", "finished"},
            pid: BOOLEAN, rc: Codes, orphaned: BOOLEAN]
Absent == [state |-> "absent", pid |-> FALSE, rc |-> "none", orphaned |-> FALSE]
Bare == [Absent EXCEPT !.state = "bare"]
RunningEntry(pid) == [Absent EXCEPT !.state = "running", !.pid = pid]
Event == [Absent EXCEPT !.state = "finished", !.rc = "event"]
Finished(e, rc) == [e EXCEPT !.state = "finished", !.rc = rc]

Directories(es) == {r \in Runs : es[r].state # "absent"}
AnyDirectory(e) == e.state # "absent"                        \* mutant
Prunable(e) == e.state \in {"bare", "finished"}

Bytes(S) == LET sum[n \in 0..MaxStarted] ==
                    IF n = 0 THEN 0
                    ELSE sum[n - 1] + (IF n \in S THEN Size[n] ELSE 0)
            IN  sum[MaxStarted]
OverByOne(S) == Cardinality(S) > MaxRuns + 1 \/ Bytes(S) > MaxBytes   \* mutant
Over(S) == Cardinality(S) > MaxRuns \/ Bytes(S) > MaxBytes

(* _prune_locked: the oldest prunable directories go, one by one, until the *)
(* rest is within the limits or none is left.                               *)
Older(q, r) == q < r
Victims(es) ==
    {r \in Directories(es) :
        /\ Prunable(es[r])
        /\ Over(Directories(es) \ {q \in Runs : Prunable(es[q]) /\ Older(q, r)})}
Pruned(es) == [r \in Runs |-> IF r \in Victims(es) THEN Absent ELSE es[r]]

(* Write run r's entry and prune. *)
Record(r, e) == entry' = Pruned([entry EXCEPT ![r] = e])

(* finish_run: the first finish record stays. *)
Refinishable(e) == e.state \in {"running", "finished"}        \* mutant
MayFinish(e) == e.state = "running"
FinishRun(r, rc) ==
    IF MayFinish(entry[r]) THEN Record(r, Finished(entry[r], rc)) ELSE UNCHANGED entry

-----------------------------------------------------------------------------
(* Processes *)

FrontStates == {"idle", "checked", "created", "launched", "attached", "done"}
RunnerStates == {"none", "started", "working", "ending", "recorded", "dead"}
(* _pid_alive: kill(pid, 0).  A runner that its parent, the front door, has  *)
(* not waited for still answers it when it is dead.                         *)
Zombie(r) == runner[r] = "dead" /\ front[r] \in {"launched", "attached"}
NoAlive(r) == FALSE                                          \* mutant
Alive(r) == runner[r] \in {"started", "working", "ending", "recorded"} \/ Zombie(r)

(* Without a recorded pid there is no evidence of death. *)
PidNotNeeded(r) == ~Alive(r)                                 \* mutant
NeverGone(r) == FALSE                                        \* mutant
Gone(r) == entry[r].pid /\ ~Alive(r)

Reaping == [at: {"idle", "read", "dead", "stamp"}, run: Runs \cup {0}]
Waiting == [at: {"idle", "waiting", "done"}, run: Runs \cup {0}, dead: BOOLEAN,
            answer: Codes \cup {"missing", "orphaned"}]
Resting == [at |-> "idle", run |-> 0]
NotWaiting == [at |-> "idle", run |-> 0, dead |-> FALSE, answer |-> "none"]

Init ==
    /\ entry = [r \in Runs |-> Absent]
    /\ front = [r \in Runs |-> "idle"]
    /\ runner = [r \in Runs |-> "none"]
    /\ code = [r \in Runs |-> "none"]
    /\ reaper = [q \in Reapers |-> Resting]
    /\ waiter = [w \in Waiters |-> NotWaiting]

-----------------------------------------------------------------------------
(* The front door *)

(* _output_path_guard: no run that shows as live names the same output. *)
Attended(r) == entry[r].state = "running" /\ front[r] # "done"    \* mutant
Live(r) == entry[r].state = "running" /\ entry[r].pid /\ Alive(r)

CheckOutput(r) ==
    /\ front[r] = "idle"
    /\ \A q \in Runs : Output[q] = Output[r] => ~Live(q)
    /\ front' = [front EXCEPT ![r] = "checked"]
    /\ UNCHANGED <<entry, runner, code, reaper, waiter>>

Allocated(r) == front[r] \notin {"idle", "checked"}
NextId(r) == ~Allocated(r) /\ \A q \in 1..(r - 1) : Allocated(q)

(* start_run by the front door of a detached run. *)
StartDetached(r) ==
    /\ front[r] = "checked" /\ NextId(r)
    /\ Record(r, RunningEntry(FALSE))
    /\ front' = [front EXCEPT ![r] = "created"]
    /\ UNCHANGED <<runner, code, reaper, waiter>>

(* start_run by the runner of a synchronous launch, under its own pid. *)
StartDirect(r) ==
    /\ front[r] = "checked" /\ NextId(r)
    /\ Record(r, RunningEntry(TRUE))
    /\ front' = [front EXCEPT ![r] = "done"]
    /\ runner' = [runner EXCEPT ![r] = "working"]
    /\ UNCHANGED <<code, reaper, waiter>>

(* Killed inside start_run, after the directory was made. *)
CrashInStart(r) ==
    /\ front[r] = "checked" /\ NextId(r)
    /\ entry' = [entry EXCEPT ![r] = Bare]
    /\ front' = [front EXCEPT ![r] = "done"]
    /\ UNCHANGED <<runner, code, reaper, waiter>>

(* record_event: an entry that is born finished. *)
RecordEvent(r) ==
    /\ front[r] = "idle" /\ NextId(r)
    /\ Record(r, Event)
    /\ front' = [front EXCEPT ![r] = "done"]
    /\ UNCHANGED <<runner, code, reaper, waiter>>

Launch(r) ==
    /\ front[r] = "created"
    /\ front' = [front EXCEPT ![r] = "launched"]
    /\ runner' = [runner EXCEPT ![r] = "started"]
    /\ UNCHANGED <<entry, code, reaper, waiter>>

LaunchFails(r) ==
    /\ front[r] = "created"
    /\ FinishRun(r, "unlaunched")
    /\ front' = [front EXCEPT ![r] = "done"]
    /\ UNCHANGED <<runner, code, reaper, waiter>>

(* update_run with the pid of the process it launched; it leaves a finished *)
(* entry alone and fails on one that is gone.  With --attach it then waits. *)
Updatable(e) == e.state = "running"
RecordPid(r) ==
    /\ front[r] = "launched"
    /\ entry' = IF Updatable(entry[r]) THEN [entry EXCEPT ![r].pid = TRUE] ELSE entry
    /\ \E f \in {"attached", "done"} : front' = [front EXCEPT ![r] = f]
    /\ UNCHANGED <<runner, code, reaper, waiter>>

(* wait_for: the run is over, gone from the ledger or an orphan. *)
Terminal(r) == entry[r].state # "running" \/ Gone(r)
AttachReturns(r) ==
    /\ front[r] = "attached"
    /\ Terminal(r)
    /\ front' = [front EXCEPT ![r] = "done"]
    /\ UNCHANGED <<entry, runner, code, reaper, waiter>>

FrontDies(r) ==
    /\ front[r] \in {"created", "launched", "attached"}
    /\ front' = [front EXCEPT ![r] = "done"]
    /\ UNCHANGED <<entry, runner, code, reaper, waiter>>

-----------------------------------------------------------------------------
(* The runner *)

(* adopt_run: refuses an entry that is finished or gone. *)
Adopt(r) ==
    /\ runner[r] = "started"
    /\ entry[r].state = "running"
    /\ entry' = [entry EXCEPT ![r].pid = TRUE]
    /\ runner' = [runner EXCEPT ![r] = "working"]
    /\ UNCHANGED <<front, code, reaper, waiter>>

(* The provider is over; the EXIT trap salvages before it records. *)
ProviderEnds(r) ==
    /\ runner[r] = "working"
    /\ \E rc \in {"ok", "failed"} : code' = [code EXCEPT ![r] = rc]
    /\ runner' = [runner EXCEPT ![r] = "ending"]
    /\ UNCHANGED <<entry, front, reaper, waiter>>

RecordFinish(r) ==
    /\ runner[r] = "ending"
    /\ FinishRun(r, code[r])
    /\ runner' = [runner EXCEPT ![r] = "recorded"]
    /\ UNCHANGED <<front, code, reaper, waiter>>

(* It leaves after its finish record, or before it adopted anything. *)
RunnerExits(r) ==
    /\ runner[r] \in {"started", "recorded"}
    /\ runner' = [runner EXCEPT ![r] = "dead"]
    /\ UNCHANGED <<entry, front, code, reaper, waiter>>

(* Killed so that its EXIT trap does not run to the end. *)
RunnerKilled(r) ==
    /\ runner[r] \in {"working", "ending"}
    /\ runner' = [runner EXCEPT ![r] = "dead"]
    /\ UNCHANGED <<entry, front, code, reaper, waiter>>

-----------------------------------------------------------------------------
(* subfleet runs reap *)

ReapRead(q, r) ==
    /\ reaper[q].at = "idle"
    /\ entry[r].state = "running" /\ entry[r].pid
    /\ reaper' = [reaper EXCEPT ![q] = [at |-> "read", run |-> r]]
    /\ UNCHANGED <<entry, front, runner, code, waiter>>

ReapCheck(q) ==
    /\ reaper[q].at = "read"
    /\ reaper' = [reaper EXCEPT ![q] = IF Alive(@.run) THEN Resting
                                       ELSE [@ EXCEPT !.at = "dead"]]
    /\ UNCHANGED <<entry, front, runner, code, waiter>>

(* finish_run raises on a directory that is gone, and the reaper with it. *)
ReapFinish(q) ==
    /\ reaper[q].at = "dead"
    /\ LET r == reaper[q].run
       IN  /\ FinishRun(r, "reaped")
           /\ reaper' = [reaper EXCEPT ![q] = IF entry[r].state = "absent" THEN Resting
                                              ELSE [@ EXCEPT !.at = "stamp"]]
    /\ UNCHANGED <<front, runner, code, waiter>>

(* A missing meta.json reads as an empty record and is written back. *)
Stamped(e) == IF e.state = "absent" THEN [RunningEntry(FALSE) EXCEPT !.orphaned = TRUE]
              ELSE [e EXCEPT !.orphaned = TRUE]
ReapStamp(q) ==
    /\ reaper[q].at = "stamp"
    /\ entry' = [entry EXCEPT ![reaper[q].run] = Stamped(@)]
    /\ reaper' = [reaper EXCEPT ![q] = Resting]
    /\ UNCHANGED <<front, runner, code, waiter>>

ReaperDies(q) ==
    /\ reaper[q].at # "idle"
    /\ reaper' = [reaper EXCEPT ![q] = Resting]
    /\ UNCHANGED <<entry, front, runner, code, waiter>>

-----------------------------------------------------------------------------
(* subfleet wait *)

(* A wait for a run that is finished answers at once and is left out. *)
BeginWait(w, r) ==
    /\ waiter[w].at = "idle"
    /\ entry[r].state = "running"
    /\ waiter' = [waiter EXCEPT ![w] = [NotWaiting EXCEPT !.at = "waiting", !.run = r]]
    /\ UNCHANGED <<entry, front, runner, code, reaper>>

Answer(w, a) == waiter' = [waiter EXCEPT ![w].at = "done", ![w].answer = a]

(* One round of wait_for_runs; a pid must be seen dead in two of them, the  *)
(* grace period apart.                                                      *)
Poll(w) ==
    /\ waiter[w].at = "waiting"
    /\ LET r == waiter[w].run
       IN  \/ entry[r].state \in {"absent", "bare"} /\ Answer(w, "missing")
           \/ entry[r].state = "finished" /\ Answer(w, entry[r].rc)
           \/ /\ entry[r].state = "running"
              /\ Gone(r) /\ waiter[w].dead
              /\ Answer(w, "orphaned")
           \/ /\ entry[r].state = "running"
              /\ ~(Gone(r) /\ waiter[w].dead)
              /\ waiter' = [waiter EXCEPT ![w].dead = Gone(r)]
    /\ UNCHANGED <<entry, front, runner, code, reaper>>

-----------------------------------------------------------------------------
FrontStep(r) == \/ CheckOutput(r) \/ StartDetached(r) \/ StartDirect(r)
                \/ CrashInStart(r) \/ RecordEvent(r) \/ Launch(r)
                \/ LaunchFails(r) \/ RecordPid(r) \/ AttachReturns(r) \/ FrontDies(r)
RunnerStep(r) == \/ Adopt(r) \/ ProviderEnds(r) \/ RecordFinish(r)
                 \/ RunnerExits(r) \/ RunnerKilled(r)
ReaperStep(q) == \/ \E r \in Runs : ReapRead(q, r)
                 \/ ReapCheck(q) \/ ReapFinish(q) \/ ReapStamp(q) \/ ReaperDies(q)
WaiterStep(w) == (\E r \in Runs : BeginWait(w, r)) \/ Poll(w)

Next == \/ \E r \in Runs : FrontStep(r) \/ RunnerStep(r)
        \/ \E q \in Reapers : ReaperStep(q)
        \/ \E w \in Waiters : WaiterStep(w)

Spec == Init /\ [][Next]_vars

(* Runners end, by themselves or killed, and who waits for one keeps polling. *)
FairSpec == /\ Spec
            /\ \A r \in Runs : WF_vars(RunnerStep(r)) /\ WF_vars(AttachReturns(r))
            /\ \A w \in Waiters : WF_vars(Poll(w))

-----------------------------------------------------------------------------
(* Properties *)

TypeOK ==
    /\ entry \in [Runs -> Entries]
    /\ front \in [Runs -> FrontStates]
    /\ runner \in [Runs -> RunnerStates]
    /\ code \in [Runs -> Codes]
    /\ reaper \in [Reapers -> Reaping]
    /\ waiter \in [Waiters -> Waiting]

(* "Active RUNNING entries are not deleted mid-dispatch": until its runner  *)
(* has recorded the end, a run is in the ledger and shows as running, so    *)
(* nothing prunes or reaps it and the runner can still adopt it.            *)
LiveRunsKept ==
    \A r \in Runs : runner[r] \in {"started", "working", "ending"} =>
                        entry[r].state = "running" /\ ~entry[r].orphaned

(* A recorded outcome is the true one: the runner's own exit code, -9 only  *)
(* for a runner that died without recording, 127 only for one never started.*)
OutcomeTrue ==
    \A r \in Runs : entry[r].state = "finished" =>
        \/ entry[r].rc \in {"ok", "failed"} /\ entry[r].rc = code[r]
           /\ runner[r] \in {"recorded", "dead"}
        \/ entry[r].rc = "reaped" /\ runner[r] = "dead"
        \/ entry[r].rc \in {"unlaunched", "event"} /\ runner[r] = "none"

(* A finished entry is final: late updates of its pid, a second finish and  *)
(* a reaper leave it as it is, until it is pruned.                          *)
OutcomeFinal ==
    [][\A r \in Runs : entry[r].state = "finished" =>
          \/ entry'[r].state = "absent"
          \/ /\ entry'[r].state = "finished"
             /\ entry'[r].rc = entry[r].rc /\ entry'[r].pid = entry[r].pid]_vars

(* Retention: whenever a run is recorded, started or finished, what goes    *)
(* beyond the limits is running.                                            *)
RecordedNow(r) ==
    \/ entry'[r].state = "finished" /\ entry[r].state # "finished"
    \/ entry'[r] \in {RunningEntry(FALSE), RunningEntry(TRUE)} /\ entry[r].state = "absent"
RetentionHolds ==
    [][(\E r \in Runs : RecordedNow(r)) =>
          \/ /\ Cardinality(Directories(entry')) <= MaxRuns
             /\ Bytes(Directories(entry')) <= MaxBytes
          \/ \A r \in Directories(entry') : entry'[r].state = "running"]_vars

(* A waiter tells the truth: the runner's own code, or that the runner died *)
(* without recording one.                                                   *)
AnswerTrue ==
    \A w \in Waiters :
        LET r == waiter[w].run
        IN  /\ waiter[w].answer \in {"ok", "failed"} => waiter[w].answer = code[r]
            /\ waiter[w].answer = "orphaned" =>
                  runner[r] = "dead" /\ entry[r].rc \notin {"ok", "failed"}

(* A waiter on a run whose pid was recorded, and whose front door has left, *)
(* always returns, unless the run becomes a ghost: reaped, pruned and then  *)
(* recreated by the orphaned mark, which nothing ends.                      *)
Ghost(r) == entry[r].state = "running" /\ entry[r].orphaned
WaiterReturns ==
    \A w \in Waiters :
        (/\ waiter[w].at = "waiting"
         /\ entry[waiter[w].run].pid /\ front[waiter[w].run] = "done")
        ~> (waiter[w].at = "done" \/ \E r \in Runs : r = waiter[w].run /\ Ghost(r))

(* An -o path that a live run is still writing is refused: no dispatch goes *)
(* past the check while a runner that writes the same path is at work.      *)
OutputRefused ==
    [][\A q, r \in Runs :
          (front[r] = "idle" /\ front'[r] = "checked" /\ Output[q] = Output[r])
          => runner[q] # "working"]_vars

(* The ledger keeps the book it promises (see RunBook): a run whose runner  *)
(* lives is on record as running, its own runner or, after its death, a     *)
(* reaper closes it, and no outcome is rewritten before retention drops it. *)
Life(r) == IF ~Allocated(r) THEN "unborn"
           ELSE IF runner[r] = "none" THEN "pending"
           ELSE IF runner[r] \in {"started", "working", "ending"} THEN "live" ELSE "over"
OnRecord(r) == IF entry[r].state = "absent"
               THEN IF Allocated(r) THEN "forgotten" ELSE "none"
               ELSE IF entry[r].state = "bare" THEN "blank"
               ELSE IF Ghost(r) THEN "ghost"
               ELSE IF entry[r].state = "running" THEN "running" ELSE entry[r].rc
B == INSTANCE RunBook WITH life <- [r \in Runs |-> Life(r)],
                           book <- [r \in Runs |-> OnRecord(r)]
RunBookSpec == B!Spec

=============================================================================
