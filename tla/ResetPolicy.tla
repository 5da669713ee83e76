----------------------------- MODULE ResetPolicy -----------------------------
(***************************************************************************)
(* Gifted reset credits (subfleet/reset_policy.py and its callers): a      *)
(* credit restores an exhausted Codex lane at once and is gone when it is  *)
(* used.  Dispatches that find no lane (cli.cmd_pick) and the watchdog     *)
(* spend one by the same locked evaluator, at most one in every Interval;  *)
(* an operator (cli.cmd_reset_codex) spends them lane by lane, takes the   *)
(* lock only to remember the redemption, and is not held to the interval.  *)
(* Every spender is a process that judges from a snapshot of the lanes     *)
(* taken earlier, and may die between any two steps.                       *)
(*                                                                         *)
(* `spent', `memory' and `known' are history: when each process used a     *)
(* credit by the policy, whether that is on record, and what was on record *)
(* of the others when it did.                                              *)
(***************************************************************************)
EXTENDS Integers, FiniteSets, FiniteSetsExt

CONSTANTS
    Lanes, Shadowed,     \* Codex homes, and those that the desktop app uses
    Picks,               \* dispatches that find no lane, reset codex --policy
    Watchdogs,           \* watchdog cycles
    Operators,           \* subfleet reset codex <lane | all>
    NoLane, NoProcess,   \* model values
    Gifts,               \* credits each lane starts with
    Full, Floor,         \* a fresh weekly window, and headroom_floor_pct
    Interval,            \* min_interval_min
    MaxTime              \* bound: how far the clock runs

Policies == Picks \cup Watchdogs
Processes == Policies \cup Operators

ASSUME ResetPolicyAssumption ==
    /\ NoLane \notin Lanes /\ NoProcess \notin Processes /\ Shadowed \subseteq Lanes
    /\ Picks \cap Watchdogs = {} /\ Policies \cap Operators = {}
    /\ {Gifts, Full, Floor, Interval, MaxTime} \subseteq Nat

VARIABLES
    now,          \* the clock of the machine
    headroom,     \* what is left of each lane's weekly window, on the server
    credits,      \* credits each lane holds, on the server
    lock,         \* who has the policy lock
    last,         \* last_redeemed_at in reset-policy.json
    pc,           \* where each process is
    lane,         \* the lane it works on
    verdict,      \* what the evaluator makes of its snapshot of the lanes
    current,      \* the time it goes by: to evaluate, or for an operator to record
    todo,         \* the lanes an operator has still to look at
    taken,        \* when a process took its snapshot (generated_at)
    spent,        \* history: when the policy made it use a credit
    memory,       \* history: whether that use is on record
    known         \* history: the others' memory when it did

server == <<headroom, credits>>
locals == <<lane, verdict, current>>
past == <<taken, spent, memory, known>>
vars == <<now, server, lock, last, pc, locals, todo, past>>

Never == -1
Times == 0..MaxTime
Memories == {"none", "forgotten", "remembered", "overwritten"}
Places == {"start", "entering", "waiting", "listing", "consuming", "remembering",
           "stamping", "recording", "done"}
Verdicts == [triggered : BOOLEAN, candidates : SUBSET Lanes]

Blank == [triggered |-> FALSE, candidates |-> {}]

Init ==
    /\ now = 0
    /\ headroom \in [Lanes -> 0..Full]
    /\ credits = [l \in Lanes |-> Gifts]
    /\ lock = NoProcess
    /\ last = Never
    /\ pc = [p \in Processes |-> "start"]
    /\ lane = [p \in Processes |-> NoLane]
    /\ verdict = [p \in Processes |-> Blank]
    /\ current = [p \in Processes |-> 0]
    /\ todo = [o \in Operators |-> Lanes]
    /\ taken = [p \in Policies |-> 0]
    /\ spent = [p \in Policies |-> Never]
    /\ memory = [p \in Policies |-> "none"]
    /\ known = [p \in Policies |-> [q \in Policies |-> "none"]]

Goto(p, to) == pc' = [pc EXCEPT ![p] = to]

(* A process that ends, with the policy lock or without: the operating      *)
(* system releases it, and what the process remembered is gone.             *)
Exit(p) ==
    /\ Goto(p, "done")
    /\ lock' = IF lock = p THEN NoProcess ELSE lock
    /\ lane' = [lane EXCEPT ![p] = NoLane]
    /\ verdict' = [verdict EXCEPT ![p] = Blank]
    /\ current' = [current EXCEPT ![p] = 0]

-----------------------------------------------------------------------------
(* The evaluator: reset_policy.run *)

Limited(l) == headroom[l] = 0
Candidates == {l \in Lanes : Limited(l) /\ credits[l] > 0}

(* The lanes that a process may find dispatchable.  A dispatch passes none: *)
(* it found none.  The watchdog passes those of rank_for_dispatch, which    *)
(* leaves out any lane that is unprobed, refused, a duplicate or short of   *)
(* five-hour headroom besides those that are limited.                       *)
Dispatchable(p) == IF p \in Picks THEN {{}} ELSE SUBSET {l \in Lanes : ~Limited(l)}
Triggered(open) ==
    \/ open = {}
    \/ MapThenSumSet(LAMBDA l : headroom[l], open) < Floor

(* snapshot.build, or for a dispatch the watchdog's last one.  The part of  *)
(* the evaluation that depends on its rows alone is taken here; the locked  *)
(* part follows in Evaluate.                                                *)
Snapshot(p) ==
    /\ pc[p] = "start"
    /\ \E open \in Dispatchable(p) :
          verdict' = [verdict EXCEPT ![p] = [triggered |-> Triggered(open),
                                             candidates |-> Candidates]]
    /\ taken' = [taken EXCEPT ![p] = now]
    /\ Goto(p, "entering")
    /\ UNCHANGED <<now, server, lock, last, lane, current, todo, spent, memory, known>>

(* The watchdog gives the time of its snapshot, a dispatch the present one. *)
TimeOf(p) == IF p \in Watchdogs THEN taken[p] ELSE now
Enter(p) ==
    /\ pc[p] = "entering"
    /\ current' = [current EXCEPT ![p] = TimeOf(p)]
    /\ Goto(p, "waiting")
    /\ UNCHANGED <<now, server, lock, last, lane, verdict, todo, past>>

Elapsed(p) == IF current[p] > last THEN current[p] - last ELSE 0
AnyTime(p) == TRUE                                           \* mutant
IntervalOK(p) == last = Never \/ Elapsed(p) >= Interval
Ready(p) == verdict[p].triggered /\ IntervalOK(p) /\ verdict[p].candidates # {}

Evaluate(p) ==
    /\ pc[p] = "waiting"
    /\ lock = NoProcess
    /\ IF Ready(p) THEN lock' = p /\ Goto(p, "listing") /\ UNCHANGED locals ELSE Exit(p)
    /\ UNCHANGED <<now, server, last, todo, past>>

(* Lists the candidates' credits until one answers with a credit, lanes of  *)
(* the desktop app last.                                                    *)
SelectCredit(p) ==
    /\ pc[p] = "listing"
    /\ \E answering \in SUBSET {l \in verdict[p].candidates : credits[l] > 0} :
          LET unshadowed == answering \ Shadowed
              group == IF unshadowed # {} THEN unshadowed ELSE answering
          IN  \/ group = {} /\ Exit(p)
              \/ \E l \in group : /\ lane' = [lane EXCEPT ![p] = l]
                                  /\ Goto(p, "consuming")
                                  /\ UNCHANGED <<lock, verdict, current>>
    /\ UNCHANGED <<now, server, last, todo, past>>

(* What the server makes of a request to consume a credit of lane l. *)
Reset(l) ==
    /\ credits[l] > 0
    /\ credits' = [credits EXCEPT ![l] = @ - 1]
    /\ headroom' = [headroom EXCEPT ![l] = Full]

(* codex.consume_reset_credit: the answer may be lost, and the credit gone. *)
Consume(p) ==
    /\ pc[p] = "consuming"
    /\ \/ /\ Reset(lane[p])
          /\ spent' = [spent EXCEPT ![p] = now]
          /\ memory' = [memory EXCEPT ![p] = "forgotten"]
          /\ known' = [known EXCEPT ![p] = memory]
          /\ \/ Goto(p, "remembering") /\ UNCHANGED <<lock, locals>>
             \/ Exit(p)
       \/ Exit(p) /\ UNCHANGED <<server, spent, memory, known>>
    /\ UNCHANGED <<now, last, todo, taken>>

(* _remember_redemption, within the lock that run already has. *)
Remember(p) ==
    /\ pc[p] = "remembering"
    /\ last' = now
    /\ memory' = [memory EXCEPT ![p] = "remembered"]
    /\ Goto(p, "recording")
    /\ UNCHANGED <<now, server, lock, locals, todo, taken, spent, known>>

(* record_redemption takes the lock itself, unless it is told not to        *)
(* remember.  The poll for propagation that follows changes nothing shared. *)
AlwaysLocks(p) == TRUE                                       \* mutant
TakesLock(p) == p \in Operators
MayRecord(p) == TakesLock(p) => lock = NoProcess
Record(p) ==
    /\ pc[p] = "recording"
    /\ MayRecord(p)
    /\ Exit(p)
    /\ UNCHANGED <<now, server, last, todo, past>>

-----------------------------------------------------------------------------
(* The operator: cli.cmd_reset_codex *)

(* Probes the next lane and lists its credits; the lane is skipped when the *)
(* probe does not say limited, or no credit is listed.                      *)
Probe(o) ==
    /\ pc[o] = "start"
    /\ \E l \in todo[o] :
          /\ todo' = [todo EXCEPT ![o] = @ \ {l}]
          /\ \/ /\ l \in Candidates
                /\ lane' = [lane EXCEPT ![o] = l]
                /\ Goto(o, "consuming")
             \/ UNCHANGED <<lane, pc>>
    /\ UNCHANGED <<now, server, lock, last, verdict, current, past>>

(* Stops at the first answer that is not a success. *)
ConsumeByHand(o) ==
    /\ pc[o] = "consuming"
    /\ \/ Reset(lane[o]) /\ \/ Goto(o, "stamping") /\ UNCHANGED <<lock, locals>>
                            \/ Exit(o)
       \/ Exit(o) /\ UNCHANGED server
    /\ UNCHANGED <<now, last, todo, past>>

(* record_redemption takes the time before the lock. *)
Stamp(o) ==
    /\ pc[o] = "stamping"
    /\ current' = [current EXCEPT ![o] = now]
    /\ Goto(o, "recording")
    /\ UNCHANGED <<now, server, lock, last, lane, verdict, todo, past>>

(* What a record with time t leaves on record of the redemptions before: an *)
(* older time covers none of the later ones.                                *)
Overwritten(t) ==
    [p \in Policies |-> IF memory[p] = "remembered" /\ t < spent[p]
                        THEN "overwritten" ELSE memory[p]]

(* It goes on to the next lane, or stops when a record failed. *)
RememberByHand(o) ==
    /\ pc[o] = "recording"
    /\ MayRecord(o)
    /\ last' = current[o]
    /\ memory' = Overwritten(current[o])
    /\ \/ Goto(o, "start") /\ UNCHANGED <<lock, locals>>
       \/ Exit(o)
    /\ UNCHANGED <<now, server, todo, taken, spent, known>>

Finish(o) ==
    /\ pc[o] = "start" /\ todo[o] = {}
    /\ Exit(o)
    /\ UNCHANGED <<now, server, last, todo, past>>

-----------------------------------------------------------------------------
(* Deaths, the use of the lanes, and time *)

Dies(p) ==
    /\ pc[p] # "done"
    /\ Exit(p)
    /\ UNCHANGED <<now, server, last, todo, past>>

Use(l) ==
    /\ headroom[l] > 0
    /\ headroom' = [headroom EXCEPT ![l] = @ - 1]
    /\ UNCHANGED <<now, credits, lock, last, pc, locals, todo, past>>

Tick ==
    /\ now < MaxTime
    /\ now' = now + 1
    /\ UNCHANGED <<server, lock, last, pc, locals, todo, past>>

PolicyStep(p) == \/ Snapshot(p) \/ Enter(p) \/ Evaluate(p) \/ SelectCredit(p)
                 \/ Consume(p) \/ Remember(p) \/ Record(p)
OperatorStep(o) == Probe(o) \/ ConsumeByHand(o) \/ Stamp(o) \/ RememberByHand(o) \/ Finish(o)

Next == \/ \E p \in Policies : PolicyStep(p)
        \/ \E o \in Operators : OperatorStep(o)
        \/ \E p \in Processes : Dies(p)
        \/ \E l \in Lanes : Use(l)
        \/ Tick

Spec == Init /\ [][Next]_vars
FairSpec == /\ Spec
            /\ \A p \in Policies : WF_vars(PolicyStep(p))
            /\ \A o \in Operators : WF_vars(OperatorStep(o))

-----------------------------------------------------------------------------
(* Properties *)

TypeOK ==
    /\ now \in Times
    /\ headroom \in [Lanes -> 0..Full]
    /\ credits \in [Lanes -> Nat]
    /\ lock \in Processes \cup {NoProcess}
    /\ last \in Times \cup {Never}
    /\ pc \in [Processes -> Places]
    /\ lane \in [Processes -> Lanes \cup {NoLane}]
    /\ verdict \in [Processes -> Verdicts]
    /\ current \in [Processes -> Times]
    /\ todo \in [Operators -> SUBSET Lanes]
    /\ taken \in [Policies -> Times]
    /\ spent \in [Policies -> Times \cup {Never}]
    /\ memory \in [Policies -> Memories]
    /\ known \in [Policies -> [Policies -> Memories]]

(* Two credits are never used by the policy within the interval, whoever    *)
(* dispatches, watches or restarts meanwhile: the earlier use must have     *)
(* gone unrecorded, its process killed or its answer lost, or an operator   *)
(* have written an older time over it.                                      *)
IntervalKept ==
    \A p, q \in Policies : known[p][q] = "remembered" => spent[p] - spent[q] >= Interval

(* The watchdog never spends on what it saw before a recorded redemption or *)
(* within the interval after it, however long it waited for the lock: one   *)
(* exhaustion does not cost two credits.                                    *)
EvidenceFresh ==
    \A p \in Watchdogs, q \in Policies :
        (known[p][q] = "remembered" /\ Interval > 0) => taken[p] - spent[q] >= Interval

(* Every process ends: none waits for ever for the policy lock, its own     *)
(* included.                                                                *)
EveryProcessEnds == \A p \in Processes : <>(pc[p] = "done")

=============================================================================
