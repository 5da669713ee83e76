-------------------------------- MODULE Nudges --------------------------------
(***************************************************************************)
(* Resume nudges and revives (subfleet/tickle.py, and its commands in      *)
(* subfleet/cli.py).  A restart of a Claude session runs the SessionStart  *)
(* hook, which judges the session's own transcript and may spawn a worker  *)
(* that pushes "continue" into the session's inbox; an operator may sweep  *)
(* or muster; a periodic pass resumes, headlessly, the sessions whose      *)
(* process is gone.  What was done is kept in one record per session, a    *)
(* file that all of them load and save without a lock.                     *)
(*                                                                         *)
(* A slot is a hook with the worker it spawns, or an operator's command.   *)
(* `nudged', `tried', `twice', `again', `raced', `excused' and `erased'    *)
(* are history.                                                            *)
(***************************************************************************)
EXTENDS Integers, Sequences, FiniteSets, FiniteSetsExt

CONSTANTS
    Sessions,     \* interactive sessions, each with a transcript
    Slots,        \* hooks with their workers, and operator commands, at one time
    Passes,       \* revive passes at one time
    Cooldown,     \* decide's cooldown, in units of the clock
    Quiet,        \* age that a muster, a sweep and a revive wait for
    Window,       \* age that a muster and a revive still reach
    MaxAge,       \* age that a resume nudge still reaches
    MaxBatch,     \* detached revives that may run at one time
    MaxEntries,   \* bound: entries of a transcript
    MaxTime,      \* bound: the clock
    MaxOps        \* bound: commands, passes and deaths of either

ASSUME NudgesAssumption ==
    /\ {Cooldown, Quiet, Window, MaxAge, MaxBatch, MaxEntries, MaxTime, MaxOps} \subseteq Nat
    /\ IsFiniteSet(Sessions) /\ Sessions # {}
    /\ "none" \notin Passes
    /\ MaxEntries >= 2

VARIABLES
    now,          \* the clock
    transcript,   \* kinds of the main-chain entries; an index is a uuid
    turnAt,       \* when the last turn was written
    up,           \* whether the session has a process with an inbox
    owed,         \* whether the app has still to write the stub of its restart
    inbox,        \* nudges that the process has accepted and not read
    record,       \* tickles/<session>.json
    slot,         \* what each slot is doing
    lock,         \* the pass that holds revive.lock, or NoPass
    pass,         \* what each revive pass is doing
    live,         \* detached revives of the session that are running
    nudged,       \* history: key of the last nudge that an inbox accepted, or 0
    tried,        \* history: keys whose push was attempted
    twice,        \* history: an inbox accepted another nudge of a key, unforced
    again,        \* history: the key last revived, and whether one was revived twice
    raced,        \* history: what kept a push or a revive from the record
    excused,      \* history: something kept the last restart from its nudge
    retiree,      \* history: whether the session was retired, and revived after it
    erased,       \* history: a later save dropped the retirement
    ops           \* bound: of these so far

slots == <<slot, nudged, tried, twice, excused>>
revives == <<lock, pass, live, again, retiree>>
vars == <<now, transcript, turnAt, up, owed, inbox, record, slots, revives, raced, erased, ops>>

-----------------------------------------------------------------------------
(* The transcript, as turn_state reads it *)

UserKinds == {"prompt", "result", "nudge", "esc"}
AssistantKinds == {"call", "text"}
Kinds == UserKinds \cup AssistantKinds \cup {"stub", "banner"}

Ids(t, K) == {i \in DOMAIN t : t[i] \in K}
Latest(S) == IF S = {} THEN 0 ELSE Max(S)

(* The entries read backwards, down to the last turn of the model. *)
Scanned(t) == LET turn == Latest(Ids(t, AssistantKinds)) IN {i \in DOMAIN t : i >= turn}

LastTurn(t) == Latest(Scanned(t) \cap Ids(t, UserKinds \cup AssistantKinds))

State(t) ==
    LET last == LastTurn(t)
        limited == Scanned(t) \cap Ids(t, {"banner"}) # {}
    IN  IF last = 0 THEN "empty"
        ELSE IF t[last] = "nudge" THEN "tickled"
        ELSE IF t[last] = "esc" THEN "stopped"
        ELSE IF t[last] = "text" /\ ~limited THEN "completed"
        ELSE "interrupted"

(* dedupe_key: the newest stub if there is one, else the last turn. *)
Key(t) ==
    LET stubs == Scanned(t) \cap Ids(t, {"stub"})
    IN  IF stubs # {} THEN Max(stubs) ELSE LastTurn(t)

Age(s) == now - turnAt[s]

-----------------------------------------------------------------------------
NoPass == "none"
Keys == 0..MaxEntries
Records == [last: Keys, at: -1..MaxTime, retired: BOOLEAN, revived: Keys]
NoRecord == [last |-> 0, at |-> -1, retired |-> FALSE, revived |-> 0]

Modes == {"none", "hook", "sweep", "ask", "forced", "muster", "retire"}
SlotStates == {"idle", "noting", "waiting", "skipping", "saving"}
SlotRecords == [at: SlotStates, mode: Modes, s: Sessions, go: BOOLEAN,
                before: Keys, key: Keys, copy: Records]
PassStates == {"idle", "next", "probing", "launching", "recording"}
PassRecords == [at: PassStates, rows: SUBSET Sessions, s: Sessions, key: Keys,
                copy: Records, census: SUBSET Sessions,
                retired: SUBSET Sessions, launched: Nat]

AnySession == CHOOSE s \in Sessions : TRUE
Idle == [at |-> "idle", mode |-> "none", s |-> AnySession, go |-> FALSE,
         before |-> 0, key |-> 0, copy |-> NoRecord]
Resting == [at |-> "idle", rows |-> {}, s |-> AnySession, key |-> 0,
            copy |-> NoRecord, census |-> {}, retired |-> {}, launched |-> 0]

(* A session that has just answered, is in a call, or has been asked. *)
Starts == {<<"call">>, <<"text">>, <<"text", "prompt">>}

Init ==
    /\ now = 0
    /\ transcript \in [Sessions -> Starts]
    /\ turnAt = [s \in Sessions |-> 0]
    /\ up \in [Sessions -> BOOLEAN]
    /\ owed = [s \in Sessions |-> FALSE]
    /\ inbox = [s \in Sessions |-> 0]
    /\ record = [s \in Sessions |-> NoRecord]
    /\ slot = [w \in Slots |-> Idle]
    /\ lock = NoPass
    /\ pass = [p \in Passes |-> Resting]
    /\ live = [s \in Sessions |-> 0]
    /\ nudged = [s \in Sessions |-> 0]
    /\ tried = [s \in Sessions |-> {}]
    /\ twice = [s \in Sessions |-> FALSE]
    /\ again = [s \in Sessions |-> [key |-> 0, twice |-> FALSE]]
    /\ raced = [s \in Sessions |-> FALSE]
    /\ excused = [s \in Sessions |-> FALSE]
    /\ retiree = [s \in Sessions |-> "no"]
    /\ erased = [s \in Sessions |-> FALSE]
    /\ ops = 0

Tick ==
    /\ now < MaxTime
    /\ now' = now + 1
    /\ UNCHANGED <<transcript, turnAt, up, owed, inbox, record, slots, revives, raced, erased, ops>>

-----------------------------------------------------------------------------
(* The session, its app and its user *)

(* The bound keeps room for the stub of a restart. *)
Add(s, k) ==
    /\ Len(transcript[s]) < MaxEntries - (IF owed[s] /\ k # "stub" THEN 1 ELSE 0)
    /\ transcript' = [transcript EXCEPT ![s] = Append(@, k)]
    /\ turnAt' = IF k \in UserKinds \cup AssistantKinds
                 THEN [turnAt EXCEPT ![s] = now] ELSE turnAt

(* What a running process may write after the last turn. *)
Follows(k) ==
    IF k = "call" THEN {"result", "esc"}
    ELSE IF k = "text" THEN {"prompt"}
    ELSE {"call", "text", "banner", "prompt"}

Turn(s) ==
    /\ up[s] \/ live[s] > 0
    /\ LastTurn(transcript[s]) # 0
    /\ \E k \in Follows(transcript[s][LastTurn(transcript[s])]) : Add(s, k)
    /\ UNCHANGED <<now, up, owed, inbox, record, slots, revives, raced, erased, ops>>

ReadNudge(s) ==
    /\ up[s] /\ inbox[s] > 0
    /\ Add(s, "nudge")
    /\ inbox' = [inbox EXCEPT ![s] = @ - 1]
    /\ UNCHANGED <<now, up, owed, record, slots, revives, raced, erased, ops>>

WriteStub(s) ==
    /\ owed[s]
    /\ Add(s, "stub")
    /\ owed' = [owed EXCEPT ![s] = FALSE]
    /\ UNCHANGED <<now, up, inbox, record, slots, revives, raced, erased, ops>>

(* The process ends: a crash, the app's idle reaper, tmux killed. *)
Die(s) ==
    /\ up[s]
    /\ up' = [up EXCEPT ![s] = FALSE]
    /\ owed' = [owed EXCEPT ![s] = FALSE]
    /\ inbox' = [inbox EXCEPT ![s] = 0]
    /\ UNCHANGED <<now, transcript, turnAt, record, slots, revives, raced, erased, ops>>

-----------------------------------------------------------------------------
(* The hook, the worker it spawns, and the operator's commands *)

Operate == ops < MaxOps /\ ops' = ops + 1
At(w, r) == slot' = [slot EXCEPT ![w] = r]
Rest(w) == At(w, Idle)
Excuse(s) == excused' = [excused EXCEPT ![s] = TRUE]

(* A save drops what the file says and the saved record does not. *)
Drops(s, new) == new.last < record[s].last \/ new.revived < record[s].revived
Unretires(s, new) == record[s].retired /\ ~new.retired

Save(s, new) ==
    /\ record' = [record EXCEPT ![s] = new]
    /\ raced' = [raced EXCEPT ![s] = @ \/ Drops(s, new)]
    /\ erased' = [erased EXCEPT ![s] = @ \/ Unretires(s, new)]

NeverRetired(s) == FALSE                                         \* mutant
Retired(s) == record[s].retired
Cooling(s) == record[s].at >= 0 /\ now - record[s].at < Cooldown
NeverCalled(s) == FALSE                                          \* mutant
Called(s) == record[s].last # 0 /\ record[s].last = Key(transcript[s])

(* decide: why this session gets no nudge now, or "none". *)
Refusal(s) ==
    IF State(transcript[s]) # "interrupted" THEN "idle"
    ELSE IF Age(s) > MaxAge THEN "old"
    ELSE IF Called(s) THEN "called"
    ELSE IF Cooling(s) THEN "cooldown"
    ELSE "none"

(* The hook runs before the app has written this restart's stub, so a key  *)
(* or a cooldown of the previous restart is left to the worker.            *)
SpawnsIfAllowed(s) == Refusal(s) = "none"                        \* mutant
Spawns(s) == Refusal(s) \in {"none", "called", "cooldown"}

Restart(s, w) ==
    /\ slot[w].at = "idle"
    /\ Operate
    /\ Len(transcript[s]) < MaxEntries
    /\ up' = [up EXCEPT ![s] = TRUE]
    /\ owed' = [owed EXCEPT ![s] = TRUE]
    /\ inbox' = [inbox EXCEPT ![s] = 0]
    /\ excused' = [excused EXCEPT ![s] = Refusal(s) \in {"idle", "old"}]
    /\ At(w, [Idle EXCEPT !.at = "noting", !.mode = "hook", !.s = s, !.go = Spawns(s),
                          !.copy = record[s]])
    /\ UNCHANGED <<now, transcript, turnAt, record, nudged, tried, twice, revives, raced, erased>>

(* A hook whose source is compact or clear only notes its decision. *)
Compact(s, w) ==
    /\ slot[w].at = "idle" /\ up[s]
    /\ Operate
    /\ At(w, [Idle EXCEPT !.at = "noting", !.mode = "hook", !.s = s, !.copy = record[s]])
    /\ UNCHANGED <<now, transcript, turnAt, up, owed, inbox, record, nudged, tried, twice,
                   excused, revives, raced, erased>>

(* note: the record as the hook loaded it, with one more line of history;   *)
(* then spawn, which may fail.  The worker remembers the real last turn.    *)
SaveNote(w) ==
    LET s == slot[w].s IN
    /\ slot[w].at = "noting"
    /\ Save(s, slot[w].copy)
    /\ \/ /\ slot[w].go
          /\ At(w, [Idle EXCEPT !.at = "waiting", !.mode = "hook", !.s = s,
                                !.before = LastTurn(transcript[s])])
          /\ UNCHANGED excused
       \/ slot[w].go /\ Excuse(s) /\ Rest(w)
       \/ ~slot[w].go /\ UNCHANGED excused /\ Rest(w)
    /\ UNCHANGED <<now, transcript, turnAt, up, owed, inbox, nudged, tried, twice,
                   revives, ops>>

Command(s, w, mode, turn) ==
    At(w, [Idle EXCEPT !.at = "waiting", !.mode = mode, !.s = s, !.before = turn])

(* tickle --all, on an interrupted session of the survey, forced or not. *)
Sweep(s, w) ==
    /\ slot[w].at = "idle" /\ up[s]
    /\ Operate
    /\ State(transcript[s]) = "interrupted"
    /\ Command(s, w, "sweep", LastTurn(transcript[s])) \/ Command(s, w, "forced", 0)
    /\ UNCHANGED <<now, transcript, turnAt, up, owed, inbox, record, nudged, tried, twice,
                   excused, revives, raced, erased>>

(* tickle <session>, forced or not, whatever the session is doing; it does *)
(* not wait, so that no turn can come between.                             *)
Ask(s, w) ==
    /\ slot[w].at = "idle"
    /\ Operate
    /\ Command(s, w, "ask", 0) \/ Command(s, w, "forced", 0)
    /\ UNCHANGED <<now, transcript, turnAt, up, owed, inbox, record, nudged, tried, twice,
                   excused, revives, raced, erased>>

(* Slots that have decided to nudge and not recorded it. *)
Committed(s) ==
    {w \in Slots : slot[w].s = s /\ \/ slot[w].at = "saving"
                                    \/ slot[w].mode = "muster" /\ slot[w].at = "waiting"}
Commits(s) == raced' = [raced EXCEPT ![s] = @ \/ Committed(s) # {}]

(* muster_deliver: eligible, and quiet. *)
Muster(s, w) ==
    /\ slot[w].at = "idle" /\ up[s]
    /\ Operate
    /\ State(transcript[s]) \in {"interrupted", "completed"}
    /\ Age(s) \in Quiet..Window
    /\ ~Called(s)
    /\ At(w, [Idle EXCEPT !.at = "waiting", !.mode = "muster", !.s = s,
                          !.before = LastTurn(transcript[s]), !.key = Key(transcript[s])])
    /\ Commits(s)
    /\ UNCHANGED <<now, transcript, turnAt, up, owed, inbox, record, nudged, tried, twice,
                   excused, revives, erased>>

(* After the wait, against the fresh transcript.  The hook's delay covers   *)
(* the time the app takes to write its stub.  A forced nudge only asks that *)
(* the session be interrupted: it passes the cap of age, the key, the       *)
(* cooldown, a new turn and the quiet.                                      *)
Verdict(w) ==
    LET s == slot[w].s
        moved == slot[w].mode # "ask" /\ LastTurn(transcript[s]) # slot[w].before
        refusal == Refusal(s)
    IN  IF slot[w].mode = "muster" THEN IF moved THEN "active" ELSE "none"
        ELSE IF slot[w].mode = "forced"
        THEN IF State(transcript[s]) = "interrupted" THEN "none" ELSE "idle"
        ELSE IF refusal # "none" THEN refusal
        ELSE IF moved THEN "active"
        ELSE IF slot[w].mode = "sweep" /\ Age(s) < Quiet THEN "quiet"
        ELSE "none"

Waits(w) == slot[w].at = "waiting" /\ (slot[w].mode = "hook" => ~owed[slot[w].s])

(* deliver writes a record of its own; muster_deliver extends the old one.  *)
(* Both remember the key whether or not the inbox took the push.            *)
KeyOf(w) == IF slot[w].mode = "muster" THEN slot[w].key ELSE Key(transcript[slot[w].s])
PartRemembered(w) == [last |-> KeyOf(w), at |-> now]             \* mutant
Remembered(w) ==
    IF slot[w].mode = "muster"
    THEN [record[slot[w].s] EXCEPT !.last = slot[w].key, !.at = now]
    ELSE [NoRecord EXCEPT !.last = KeyOf(w), !.at = now]

(* push_to_session: the inbox of a running process takes it, or not.  A     *)
(* forced nudge does not count as the second of its key.  What is left is   *)
(* to save, whatever the mode was.                                          *)
WakeAndPush(w) ==
    LET s == slot[w].s
        k == KeyOf(w)
    IN  /\ Waits(w)
        /\ Verdict(w) = "none"
        /\ tried' = [tried EXCEPT ![s] = @ \cup {k}]
        /\ \/ /\ up[s]
              /\ inbox' = [inbox EXCEPT ![s] = @ + 1]
              /\ nudged' = [nudged EXCEPT ![s] = k]
              /\ twice' = [twice EXCEPT ![s] = @ \/ (k = nudged[s] /\ slot[w].mode # "forced")]
           \/ UNCHANGED <<inbox, nudged, twice>>
        /\ At(w, [Idle EXCEPT !.at = "saving", !.mode = "hook", !.s = s,
                              !.copy = Remembered(w)])
        /\ IF slot[w].mode = "muster" THEN UNCHANGED raced ELSE Commits(s)
        /\ UNCHANGED <<now, transcript, turnAt, up, owed, record, excused, revives,
                       erased, ops>>

(* skipped loads the record to write the reason into its history; a muster  *)
(* that is refused writes nothing.                                          *)
WakeAndSkip(w) ==
    LET s == slot[w].s IN
    /\ Waits(w)
    /\ Verdict(w) # "none"
    /\ IF slot[w].mode = "muster" THEN Rest(w)
       ELSE At(w, [Idle EXCEPT !.at = "skipping", !.mode = "hook", !.s = s,
                               !.copy = record[s]])
    /\ IF slot[w].mode = "hook" /\ Verdict(w) # "called" THEN Excuse(s)
       ELSE UNCHANGED excused
    /\ UNCHANGED <<now, transcript, turnAt, up, owed, inbox, record, nudged, tried, twice,
                   revives, raced, erased, ops>>

(* retire_session, called by an operator who replaces a session. *)
Retire(s, w) ==
    /\ slot[w].at = "idle"
    /\ Operate
    /\ At(w, [Idle EXCEPT !.at = "skipping", !.mode = "retire", !.s = s,
                          !.copy = [record[s] EXCEPT !.retired = TRUE]])
    /\ UNCHANGED <<now, transcript, turnAt, up, owed, inbox, record, nudged, tried, twice,
                   excused, revives, raced, erased>>

SaveRecord(w) ==
    LET s == slot[w].s IN
    /\ slot[w].at \in {"skipping", "saving"}
    /\ Save(s, slot[w].copy)
    /\ Rest(w)
    /\ retiree' = IF slot[w].mode = "retire" /\ retiree[s] = "no"
                  THEN [retiree EXCEPT ![s] = "retired"] ELSE retiree
    /\ UNCHANGED <<now, transcript, turnAt, up, owed, inbox, nudged, tried, twice, excused,
                   lock, pass, live, again, ops>>

SlotDies(w) ==
    LET s == slot[w].s IN
    /\ slot[w].at # "idle"
    /\ Operate
    /\ Rest(w)
    /\ Excuse(s)
    /\ raced' = [raced EXCEPT ![s] = @ \/ slot[w].at = "saving"]
    /\ UNCHANGED <<now, transcript, turnAt, up, owed, inbox, record, nudged, tried, twice,
                   revives, erased>>

-----------------------------------------------------------------------------
(* A revive pass: auto_revive *)

AtPass(p, r) == pass' = [pass EXCEPT ![p] = r]
Detached == {s \in Sessions : live[s] > 0}

(* cold_sessions, less the rows that the app may still restart. *)
Cold == {s \in Sessions :
            /\ ~up[s]
            /\ ~Retired(s)
            /\ State(transcript[s]) = "interrupted"
            /\ Age(s) \in Quiet..Window}

NoLock == TRUE                                                   \* mutant
LockFree == lock = NoPass

StartPass(p) ==
    /\ pass[p].at = "idle"
    /\ Operate
    /\ LockFree
    /\ lock' = p
    /\ AtPass(p, [Resting EXCEPT !.at = "next", !.rows = Cold, !.census = Detached,
                                 !.retired = {s \in Sessions : retiree[s] = "retired"}])
    /\ UNCHANGED <<now, transcript, turnAt, up, owed, inbox, record, slots, live, again,
                   retiree, raced, erased>>

Skip(p, s) == AtPass(p, [pass[p] EXCEPT !.at = "next", !.rows = @ \ {s}, !.copy = NoRecord, !.key = 0])

NotRevived(s) == FALSE                                           \* mutant
RevivedHere(s) == record[s].revived # 0 /\ record[s].revived = Key(transcript[s])

Eligible(p, s) ==
    /\ Cardinality(pass[p].census) + pass[p].launched < MaxBatch
    /\ s \notin pass[p].census
    /\ ~RevivedHere(s)
    /\ Ids(transcript[s], AssistantKinds) # {}
    /\ ~Retired(s)

Examine(p, s) ==
    /\ pass[p].at = "next" /\ s \in pass[p].rows
    /\ IF Eligible(p, s)
       THEN AtPass(p, [pass[p] EXCEPT !.at = "probing", !.s = s, !.copy = record[s],
                                      !.key = Key(transcript[s])])
       ELSE Skip(p, s)
    /\ UNCHANGED <<now, transcript, turnAt, up, owed, inbox, record, slots, lock, live, again,
                   retiree, raced, erased, ops>>

NotDetached(s) == s \notin Detached
HasRoom(p) == Cardinality(Detached) + pass[p].launched < MaxBatch

(* probe_lane_any: minutes pass until a lane serves, or none does.  The     *)
(* census is then refreshed; one that fails ends the pass.                  *)
Park(p) ==
    /\ pass[p].at = "probing"
    /\ Skip(p, pass[p].s)
    /\ UNCHANGED <<now, transcript, turnAt, up, owed, inbox, record, slots, lock, live,
                   again, retiree, raced, erased, ops>>

Refresh(p) ==
    LET s == pass[p].s IN
    /\ pass[p].at = "probing"
    /\ \/ AtPass(p, [pass[p] EXCEPT !.at = "next", !.rows = {}])
       \/ AtPass(p, [pass[p] EXCEPT !.census = Detached, !.rows = @ \ {s},
                         !.at = IF NotDetached(s) /\ HasRoom(p) THEN "launching" ELSE "next"])
    /\ UNCHANGED <<now, transcript, turnAt, up, owed, inbox, record, slots, lock, live,
                   again, retiree, raced, erased, ops>>

(* revive_session, which may fail to start the process. *)
Launch(p) ==
    LET s == pass[p].s IN
    /\ pass[p].at = "launching"
    /\ \/ Skip(p, s) /\ UNCHANGED <<live, again, retiree>>
       \/ /\ live' = [live EXCEPT ![s] = @ + 1]
          /\ again' = [again EXCEPT ![s] = [key |-> pass[p].key,
                              twice |-> @.twice \/ pass[p].key = @.key]]
          /\ retiree' = IF s \in pass[p].retired
                        THEN [retiree EXCEPT ![s] = "revived"] ELSE retiree
          /\ AtPass(p, [pass[p] EXCEPT !.at = "recording", !.launched = @ + 1])
    /\ UNCHANGED <<now, transcript, turnAt, up, owed, inbox, record, slots, lock,
                   raced, erased, ops>>

(* The record as it was examined, before the lanes were probed. *)
RecordRevive(p) ==
    /\ pass[p].at = "recording"
    /\ Save(pass[p].s, [pass[p].copy EXCEPT !.revived = pass[p].key])
    /\ AtPass(p, [pass[p] EXCEPT !.at = "next", !.copy = NoRecord, !.key = 0])
    /\ UNCHANGED <<now, transcript, turnAt, up, owed, inbox, slots, lock, live, again, retiree, ops>>

EndPass(p) ==
    /\ pass[p].at = "next" /\ pass[p].rows = {}
    /\ AtPass(p, Resting)
    /\ lock' = NoPass
    /\ UNCHANGED <<now, transcript, turnAt, up, owed, inbox, record, slots, live, again,
                   retiree, raced, erased, ops>>

PassDies(p) ==
    /\ pass[p].at # "idle"
    /\ Operate
    /\ AtPass(p, Resting)
    /\ lock' = NoPass
    /\ raced' = IF pass[p].at = "recording" THEN [raced EXCEPT ![pass[p].s] = TRUE] ELSE raced
    /\ UNCHANGED <<now, transcript, turnAt, up, owed, inbox, record, slots, live, again,
                   retiree, erased>>

ReviveEnds(s) ==
    /\ live[s] > 0
    /\ live' = [live EXCEPT ![s] = @ - 1]
    /\ UNCHANGED <<now, transcript, turnAt, up, owed, inbox, record, slots, lock, pass, again,
                   retiree, raced, erased, ops>>

-----------------------------------------------------------------------------
SessionSteps(s) == Turn(s) \/ ReadNudge(s) \/ WriteStub(s) \/ Die(s) \/ ReviveEnds(s)
Starting(s, w) == \/ Restart(s, w) \/ Compact(s, w) \/ Sweep(s, w) \/ Ask(s, w)
                  \/ Muster(s, w) \/ Retire(s, w)
SlotSteps(w) == \/ SaveNote(w) \/ WakeAndPush(w) \/ WakeAndSkip(w)
                \/ SaveRecord(w) \/ SlotDies(w)
PassSteps(p) == \/ StartPass(p) \/ Park(p) \/ Refresh(p) \/ Launch(p) \/ RecordRevive(p)
                \/ EndPass(p) \/ PassDies(p) \/ \E s \in Sessions : Examine(p, s)

Next ==
    \/ Tick
    \/ \E s \in Sessions : SessionSteps(s) \/ \E w \in Slots : Starting(s, w)
    \/ \E w \in Slots : SlotSteps(w)
    \/ \E p \in Passes : PassSteps(p)

Spec == Init /\ [][Next]_vars

-----------------------------------------------------------------------------
TypeOK ==
    /\ now \in 0..MaxTime
    /\ transcript \in [Sessions -> Seq(Kinds)]
    /\ turnAt \in [Sessions -> 0..MaxTime]
    /\ \A s \in Sessions : Len(transcript[s]) <= MaxEntries
    /\ up \in [Sessions -> BOOLEAN] /\ owed \in [Sessions -> BOOLEAN]
    /\ inbox \in [Sessions -> Nat]
    /\ record \in [Sessions -> Records]
    /\ slot \in [Slots -> SlotRecords]
    /\ lock \in Passes \cup {NoPass}
    /\ pass \in [Passes -> PassRecords]
    /\ live \in [Sessions -> Nat]
    /\ nudged \in [Sessions -> Keys] /\ tried \in [Sessions -> SUBSET Keys]
    /\ twice \in [Sessions -> BOOLEAN] /\ raced \in [Sessions -> BOOLEAN]
    /\ again \in [Sessions -> [key : Keys, twice : BOOLEAN]]
    /\ excused \in [Sessions -> BOOLEAN]
    /\ retiree \in [Sessions -> {"no", "retired", "revived"}]
    /\ erased \in [Sessions -> BOOLEAN]
    /\ ops \in 0..MaxOps

(* One interruption point, or one restart of it, earns one nudge and one    *)
(* revive, unless two commands overlapped on the session, one died before   *)
(* it wrote what it did, or a stale save took it back; an operator's        *)
(* --force earns one more nudge each time.  A nudge that is not forced is   *)
(* not a second one even after a forced one.                                *)
NudgedOnce == \A s \in Sessions : twice[s] => raced[s]
RevivedOnce == \A s \in Sessions : again[s].twice => raced[s]

(* Whatever the passes do, a session has one detached continuation at most  *)
(* and the batch cap bounds them all: two would work in one worktree and    *)
(* burn two lanes.                                                          *)
OneRevive ==
    /\ \A s \in Sessions : live[s] <= 1
    /\ Cardinality(Detached) <= MaxBatch

(* A restart that finds its turn cut off is not lost: once its stub is      *)
(* written and nobody works on the session, a push was tried for this very  *)
(* restart or there is a reason other than "already nudged", which a hook   *)
(* that runs before the stub would give.                                    *)
Settled(s) == ~owed[s] /\ \A w \in Slots : slot[w].at = "idle" \/ slot[w].s # s
CutOffByRestart(s) ==
    /\ up[s] /\ State(transcript[s]) = "interrupted"
    /\ transcript[s][Len(transcript[s])] = "stub"
RestartSettled ==
    \A s \in Sessions : Settled(s) /\ CutOffByRestart(s) =>
        Key(transcript[s]) \in tried[s] \/ excused[s]

(* A retired session is not revived by a later pass unless a save that did  *)
(* not carry the retirement replaced the record.                            *)
RetiredStays == \A s \in Sessions : retiree[s] = "revived" => erased[s]

=============================================================================
