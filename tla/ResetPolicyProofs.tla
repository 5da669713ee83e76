-------------------------- MODULE ResetPolicyProofs --------------------------
(***************************************************************************)
(* Theorems about the reset policy, for any lanes, spenders, credits and   *)
(* interval.                                                               *)
(***************************************************************************)
EXTENDS ResetPolicy, TLAPS

Before == {"start", "entering", "waiting", "listing", "consuming"}
Judging == {"waiting", "listing", "consuming"}
Allowed == {"listing", "consuming"}
Holding == {"listing", "consuming", "remembering", "recording"}

(* What a process of the policy may rely on while others spend and record:  *)
(* whoever is about to spend holds the lock, so that last_redeemed_at is    *)
(* what it was judged by; that covers every use which is on record.         *)
PolicyOK(p) ==
    /\ pc[p] \in Holding => lock = p
    /\ pc[p] \in Before => memory[p] = "none"
    /\ pc[p] = "remembering" => memory[p] = "forgotten"
    /\ pc[p] \in Judging => /\ current[p] <= now
                            /\ p \in Watchdogs => current[p] = taken[p]
    /\ pc[p] \in Allowed => IntervalOK(p)
    /\ memory[p] # "none" => spent[p] \in Times
    /\ memory[p] = "remembered" => spent[p] <= last
    /\ spent[p] <= now
    /\ taken[p] <= now

(* What was on record of q when p used its credit. *)
KnownOK(p, q) ==
    known[p][q] = "remembered" =>
        /\ memory[p] # "none"
        /\ memory[q] # "none"
        /\ spent[p] - spent[q] >= Interval
        /\ (p \in Watchdogs /\ Interval > 0) => taken[p] - spent[q] >= Interval

IInv == /\ TypeOK
        /\ \A p \in Policies : PolicyOK(p)
        /\ \A p, q \in Policies : KnownOK(p, q)

-----------------------------------------------------------------------------
(* Types *)

LEMMA Constants ==
    /\ Gifts \in Nat /\ Full \in Nat /\ Interval \in Nat /\ MaxTime \in Nat
    /\ Policies \subseteq Processes /\ Operators \subseteq Processes
    /\ Watchdogs \subseteq Policies
    /\ \A p \in Policies : p \notin Operators
    /\ NoProcess \notin Processes
BY ResetPolicyAssumption DEF Policies, Processes

LEMMA GotoType ==
    ASSUME TypeOK, NEW p \in Processes, NEW to \in Places, Goto(p, to)
    PROVE  pc' \in [Processes -> Places]
BY DEF TypeOK, Goto

LEMMA ExitType ==
    ASSUME TypeOK, NEW p \in Processes, Exit(p)
    PROVE  /\ pc' \in [Processes -> Places]
           /\ lock' \in Processes \cup {NoProcess}
           /\ lane' \in [Processes -> Lanes \cup {NoLane}]
           /\ verdict' \in [Processes -> Verdicts]
           /\ current' \in [Processes -> Times]
<1>1. pc' \in [Processes -> Places]
  BY DEF TypeOK, Exit, Goto, Places
<1>2. Blank \in Verdicts /\ 0 \in Times
  BY Constants DEF Blank, Verdicts, Times
<1>3. lock' \in Processes \cup {NoProcess} /\ lane' \in [Processes -> Lanes \cup {NoLane}]
  BY DEF TypeOK, Exit
<1>4. verdict' \in [Processes -> Verdicts] /\ current' \in [Processes -> Times]
  BY <1>2 DEF TypeOK, Exit
<1>5. QED
  BY <1>1, <1>3, <1>4

LEMMA ResetType ==
    ASSUME TypeOK, NEW l \in Lanes, Reset(l)
    PROVE  headroom' \in [Lanes -> 0..Full] /\ credits' \in [Lanes -> Nat]
<1>1. Full \in 0..Full
  BY Constants
<1>2. headroom' \in [Lanes -> 0..Full]
  BY <1>1 DEF TypeOK, Reset
<1>3. credits[l] - 1 \in Nat
  BY DEF TypeOK, Reset
<1>4. credits' \in [Lanes -> Nat]
  BY <1>3 DEF TypeOK, Reset
<1>5. QED
  BY <1>2, <1>4

LEMMA InitInvariant == Init => IInv
<1> SUFFICES ASSUME Init PROVE IInv
  OBVIOUS
<1>1. 0 \in Times /\ Never \in Times \cup {Never} /\ Blank \in Verdicts
  BY Constants DEF Times, Blank, Verdicts
<1>2. TypeOK
  BY <1>1, Constants DEF Init, TypeOK, Places, Memories
<1>3. ASSUME NEW p \in Policies PROVE PolicyOK(p)
  <2>1. p \in Processes
    BY Constants
  <2>2. QED
    BY <2>1 DEF Init, PolicyOK, Before, Judging, Allowed, Holding, Never
<1>4. ASSUME NEW p \in Policies, NEW q \in Policies PROVE KnownOK(p, q)
  BY DEF Init, KnownOK
<1>5. QED
  BY <1>2, <1>3, <1>4 DEF IInv

-----------------------------------------------------------------------------
(* Steps that leave the record and the history alone, and admit nobody. *)

LEMMA Quiet ==
    ASSUME IInv, TypeOK', now' >= now, UNCHANGED <<last, past>>,
           \A p \in Policies :
              /\ pc'[p] \in Before => pc[p] \in Before
              /\ pc'[p] = "remembering" => pc[p] = "remembering"
              /\ pc'[p] \in Holding => pc[p] \in Holding /\ lock' = lock
              /\ pc'[p] \in Judging => pc[p] \in Judging /\ current'[p] = current[p]
              /\ pc'[p] \in Allowed => pc[p] \in Allowed
    PROVE  IInv'
<1>1. ASSUME NEW p \in Policies PROVE PolicyOK(p)'
  <2>1. Allowed \subseteq Judging
    BY DEF Allowed, Judging
  <2>2. now \in Int /\ now' \in Int /\ current[p] \in Int /\ taken[p] \in Int /\ spent[p] \in Int
    BY Constants DEF IInv, TypeOK, Times, Never
  <2>3. pc'[p] \in Allowed => IntervalOK(p)'
    BY <2>1 DEF IInv, PolicyOK, IntervalOK, Elapsed
  <2>4. QED
    BY <2>2, <2>3 DEF IInv, PolicyOK, past
<1>2. \A p, q \in Policies : KnownOK(p, q)'
  BY DEF IInv, KnownOK, past
<1>3. QED
  BY <1>1, <1>2 DEF IInv

(* The same for a step of p alone. *)
LEMMA QuietStep ==
    ASSUME IInv, TypeOK', NEW p \in Processes,
           UNCHANGED <<now, last, past>>,
           NEW to \in Places, Goto(p, to),
           \/ p \in Operators
           \/ to = "done"
           \/ pc[p] = "listing" /\ to = "consuming",
           \/ UNCHANGED <<lock, current>>
           \/ Exit(p)
           \/ p \in Operators /\ lock' = lock /\ \A q \in Policies : current'[q] = current[q]
    PROVE  IInv'
<1>1. now' >= now
  BY Constants DEF IInv, TypeOK, Times
<1>2. ASSUME NEW q \in Policies, q # p
      PROVE  pc'[q] = pc[q] /\ current'[q] = current[q]
  <2>1. q \in Processes
    BY Constants
  <2>2. pc'[q] = pc[q]
    BY <1>2, <2>1 DEF IInv, TypeOK, Goto
  <2>3. current'[q] = current[q]
    BY <1>2, <2>1 DEF IInv, TypeOK, Exit
  <2>4. QED
    BY <2>2, <2>3
<1>3. ASSUME NEW q \in Policies, q # p, pc[q] \in Holding PROVE lock' = lock
  BY <1>3 DEF IInv, PolicyOK, Exit
<1>4. pc'[p] = to
  BY DEF IInv, TypeOK, Goto
<1>5. ASSUME NEW q \in Policies
      PROVE  /\ pc'[q] \in Before => pc[q] \in Before
             /\ pc'[q] = "remembering" => pc[q] = "remembering"
             /\ pc'[q] \in Holding => pc[q] \in Holding /\ lock' = lock
             /\ pc'[q] \in Judging => pc[q] \in Judging /\ current'[q] = current[q]
             /\ pc'[q] \in Allowed => pc[q] \in Allowed
  <2>1. CASE q # p
    BY <2>1, <1>2, <1>3
  <2>2. CASE q = p
    <3>1. to = "done" \/ (pc[p] = "listing" /\ to = "consuming" /\ UNCHANGED <<lock, current>>)
      BY <2>2, <1>4, Constants DEF Exit, Goto, IInv, TypeOK
    <3>2. QED
      BY <2>2, <3>1, <1>4 DEF Before, Holding, Judging, Allowed
  <2>3. QED
    BY <2>1, <2>2
<1>6. QED
  BY <1>1, <1>5, Quiet

-----------------------------------------------------------------------------
(* The evaluator *)

LEMMA SnapshotStep == ASSUME IInv, NEW p \in Policies, Snapshot(p) PROVE IInv'
<1> USE DEF Snapshot
<1>1. TypeOK'
  <2>1. p \in Processes /\ now \in Times
    BY Constants DEF IInv, TypeOK
  <2>2. PICK open \in Dispatchable(p) :
            verdict' = [verdict EXCEPT ![p] = [triggered |-> Triggered(open),
                                               candidates |-> Candidates]]
    OBVIOUS
  <2>8. Triggered(open) \in BOOLEAN /\ Candidates \in SUBSET Lanes
    BY Zenon DEF Triggered, Candidates
  <2>3. [triggered |-> Triggered(open), candidates |-> Candidates] \in Verdicts
    BY <2>8 DEF Verdicts
  <2>4. pc' \in [Processes -> Places]
    BY <2>1, GotoType DEF IInv, Places
  <2>5. verdict' \in [Processes -> Verdicts]
    BY <2>2, <2>3 DEF IInv, TypeOK
  <2>6. taken' \in [Policies -> Times]
    BY <2>1 DEF IInv, TypeOK
  <2>7. QED
    BY <2>4, <2>5, <2>6 DEF IInv, TypeOK, server
<1>2. p \in Processes /\ pc \in [Processes -> Places] /\ taken \in [Policies -> Times]
  BY Constants DEF IInv, TypeOK
<1>3. pc'[p] = "entering" /\ taken'[p] = now
  BY <1>2 DEF Goto
<1>4. ASSUME NEW q \in Policies, q # p PROVE pc'[q] = pc[q] /\ taken'[q] = taken[q]
  BY <1>2, <1>4, Constants DEF Goto
<1>5. memory[p] = "none"
  BY DEF IInv, PolicyOK, Before
<1>6. ASSUME NEW q \in Policies PROVE PolicyOK(q)'
  <2>1. CASE q = p
    <3>1. now \in Int /\ spent[p] <= now /\ now <= now
      BY Constants DEF IInv, PolicyOK, TypeOK, Times
    <3>2. QED
      BY <2>1, <1>3, <1>5, <3>1 DEF PolicyOK, Before, Holding, Judging, Allowed
  <2>2. CASE q # p
    BY <2>2, <1>4 DEF IInv, PolicyOK, IntervalOK, Elapsed
  <2>3. QED
    BY <2>1, <2>2
<1>7. ASSUME NEW q \in Policies, NEW x \in Policies PROVE KnownOK(q, x)'
  BY <1>4, <1>5 DEF IInv, KnownOK
<1>8. QED
  BY <1>1, <1>6, <1>7 DEF IInv

LEMMA EnterStep == ASSUME IInv, NEW p \in Policies, Enter(p) PROVE IInv'
<1> USE DEF Enter
<1>1. p \in Processes /\ TimeOf(p) \in Times /\ TimeOf(p) <= now
  BY Constants DEF IInv, TypeOK, PolicyOK, TimeOf, Times
<1>2. TypeOK'
  <2>1. pc' \in [Processes -> Places]
    BY <1>1, GotoType DEF IInv, Places
  <2>2. current' \in [Processes -> Times]
    BY <1>1 DEF IInv, TypeOK
  <2>3. QED
    BY <2>1, <2>2 DEF IInv, TypeOK, server, past
<1>3. pc'[p] = "waiting" /\ current'[p] = TimeOf(p)
  BY <1>1 DEF IInv, TypeOK, Goto
<1>4. ASSUME NEW q \in Policies, q # p PROVE pc'[q] = pc[q] /\ current'[q] = current[q]
  BY <1>4, Constants DEF IInv, TypeOK, Goto
<1>5. ASSUME NEW q \in Policies PROVE PolicyOK(q)'
  <2>1. CASE q = p
    BY <2>1, <1>1, <1>3 DEF IInv, PolicyOK, Before, Holding, Judging, Allowed, TimeOf, past
  <2>2. CASE q # p
    BY <2>2, <1>4 DEF IInv, PolicyOK, IntervalOK, Elapsed, past
  <2>3. QED
    BY <2>1, <2>2
<1>6. \A q, x \in Policies : KnownOK(q, x)'
  BY DEF IInv, KnownOK, past
<1>7. QED
  BY <1>2, <1>5, <1>6 DEF IInv

LEMMA EvaluateStep == ASSUME IInv, NEW p \in Policies, Evaluate(p) PROVE IInv'
<1> USE DEF Evaluate
<1>1. p \in Processes
  BY Constants
<1>2. CASE ~Ready(p)
  <2>1. Exit(p)
    BY <1>2
  <2>2. TypeOK'
    BY <1>1, <2>1, ExitType DEF IInv, TypeOK, server, past
  <2>3. QED
    BY <1>1, <2>1, <2>2, QuietStep DEF Exit, Places
<1>3. CASE Ready(p)
  <2>1. lock' = p /\ Goto(p, "listing") /\ UNCHANGED locals
    BY <1>3
  <2>2. TypeOK'
    <3>1. pc' \in [Processes -> Places]
      BY <1>1, <2>1, GotoType DEF IInv, Places
    <3>2. QED
      BY <1>1, <2>1, <3>1 DEF IInv, TypeOK, server, past, locals
  <2>3. pc'[p] = "listing" /\ IntervalOK(p)
    BY <1>1, <1>3, <2>1 DEF IInv, TypeOK, Goto, Ready
  <2>4. ASSUME NEW q \in Policies, q # p PROVE pc'[q] = pc[q] /\ pc[q] \notin Holding
    <3>1. pc'[q] = pc[q]
      BY <2>1, <2>4, Constants DEF IInv, TypeOK, Goto
    <3>2. QED
      BY <2>4, <3>1, Constants DEF IInv, PolicyOK
  <2>5. ASSUME NEW q \in Policies PROVE PolicyOK(q)'
    <3>1. CASE q = p
      BY <3>1, <2>1, <2>3
      DEF IInv, PolicyOK, Before, Holding, Judging, Allowed, past, locals, IntervalOK, Elapsed
    <3>2. CASE q # p
      BY <3>2, <2>1, <2>4 DEF IInv, PolicyOK, Holding, Allowed, past, locals
    <3>3. QED
      BY <3>1, <3>2
  <2>6. \A q, x \in Policies : KnownOK(q, x)'
    BY DEF IInv, KnownOK, past
  <2>7. QED
    BY <2>2, <2>5, <2>6 DEF IInv
<1>4. QED
  BY <1>2, <1>3

LEMMA SelectStep == ASSUME IInv, NEW p \in Policies, SelectCredit(p) PROVE IInv'
<1>1. p \in Processes
  BY Constants
<1>2. \/ Exit(p)
      \/ \E l \in Lanes : /\ lane' = [lane EXCEPT ![p] = l]
                          /\ Goto(p, "consuming")
                          /\ UNCHANGED <<lock, verdict, current>>
  <2>1. verdict[p].candidates \subseteq Lanes
    BY <1>1 DEF IInv, TypeOK, Verdicts
  <2>2. QED
    BY <2>1 DEF SelectCredit
<1>3. CASE Exit(p)
  <2>1. TypeOK'
    BY <1>1, <1>3, ExitType DEF SelectCredit, IInv, TypeOK, server, past
  <2>2. QED
    BY <1>1, <1>3, <2>1, QuietStep DEF SelectCredit, Exit, Places
<1>4. ASSUME NEW l \in Lanes, lane' = [lane EXCEPT ![p] = l], Goto(p, "consuming"),
             UNCHANGED <<lock, verdict, current>>
      PROVE  IInv'
  <2>1. pc' \in [Processes -> Places]
    BY <1>1, <1>4, GotoType DEF IInv, Places
  <2>2. TypeOK'
    BY <1>4, <2>1 DEF SelectCredit, IInv, TypeOK, server, past
  <2>3. QED
    BY <1>1, <1>4, <2>2, QuietStep DEF SelectCredit, Places
<1>5. QED
  BY <1>2, <1>3, <1>4

(* The use of a credit: what it is judged by is still true, and covers all  *)
(* that is on record.                                                       *)
LEMMA SpendStep ==
    ASSUME IInv, NEW p \in Policies, pc[p] = "consuming", TypeOK', UNCHANGED <<now, last, taken>>,
           spent' = [spent EXCEPT ![p] = now],
           memory' = [memory EXCEPT ![p] = "forgotten"],
           known' = [known EXCEPT ![p] = memory],
           \/ Goto(p, "remembering") /\ UNCHANGED <<lock, locals>>
           \/ Exit(p)
    PROVE  IInv'
<1>1. p \in Processes /\ now \in Times
  BY Constants DEF IInv, TypeOK
<1>2. /\ memory'[p] = "forgotten" /\ spent'[p] = now
      /\ \A q \in Policies : known'[p][q] = memory[q]
  BY DEF IInv, TypeOK
<1>3. /\ pc'[p] \in {"remembering", "done"}
      /\ pc'[p] = "remembering" => lock' = lock
  BY <1>1 DEF IInv, TypeOK, Goto, Exit
<1>4. ASSUME NEW q \in Policies, q # p
      PROVE  /\ pc'[q] = pc[q] /\ current'[q] = current[q]
             /\ memory'[q] = memory[q] /\ spent'[q] = spent[q]
             /\ pc[q] \notin Holding
  <2>1. q \in Processes
    BY Constants
  <2>2. pc'[q] = pc[q]
    BY <1>4, <2>1 DEF IInv, TypeOK, Goto, Exit
  <2>3. current'[q] = current[q]
    BY <1>4, <2>1 DEF IInv, TypeOK, Exit, locals
  <2>4. memory'[q] = memory[q] /\ spent'[q] = spent[q]
    BY <1>4 DEF IInv, TypeOK
  <2>5. pc[q] \notin Holding
    BY <1>4 DEF IInv, PolicyOK, Holding
  <2>6. QED
    BY <2>2, <2>3, <2>4, <2>5
<1>5. ASSUME NEW q \in Policies PROVE PolicyOK(q)'
  <2>1. CASE q = p
    <3>1. now <= now /\ taken[p] <= now
      BY <1>1 DEF IInv, PolicyOK, Times
    <3>2. lock = p
      BY DEF IInv, PolicyOK, Holding
    <3>3. QED
      BY <2>1, <1>1, <1>2, <1>3, <3>1, <3>2
      DEF PolicyOK, Before, Holding, Judging, Allowed
  <2>2. CASE q # p
    BY <2>2, <1>4 DEF IInv, PolicyOK, Holding, Allowed
  <2>3. QED
    BY <2>1, <2>2
<1>6. ASSUME NEW q \in Policies, memory[q] = "remembered"
      PROVE  /\ q # p
             /\ now - spent[q] >= Interval
             /\ (p \in Watchdogs /\ Interval > 0) => taken[p] - spent[q] >= Interval
  <2>1. q # p
    BY <1>6 DEF IInv, PolicyOK, Before
  <2>2. spent[q] \in Times /\ spent[q] <= last /\ spent[q] <= now
    BY <1>6 DEF IInv, PolicyOK
  <2>3. last # Never /\ last \in Int /\ now \in Int /\ current[p] \in Int /\ Interval \in Nat
    BY <1>1, <2>2, Constants DEF IInv, TypeOK, Times, Never
  <2>4. current[p] <= now /\ (p \in Watchdogs => current[p] = taken[p]) /\ IntervalOK(p)
    BY DEF IInv, PolicyOK, Judging, Allowed
  <2>5. Elapsed(p) >= Interval
    BY <2>3, <2>4 DEF IntervalOK
  <2>6. CASE current[p] > last
    <3>1. current[p] - last >= Interval
      BY <2>5, <2>6 DEF Elapsed
    <3>2. QED
      BY <2>1, <2>2, <2>3, <2>4, <3>1 DEF Times
  <2>7. CASE ~(current[p] > last)
    <3>1. Interval = 0
      BY <2>3, <2>5, <2>7 DEF Elapsed
    <3>2. QED
      BY <2>1, <2>2, <2>3, <3>1 DEF Times
  <2>8. QED
    BY <2>6, <2>7
<1>7. ASSUME NEW q \in Policies, NEW x \in Policies PROVE KnownOK(q, x)'
  <2>1. CASE q = p
    <3> SUFFICES ASSUME memory[x] = "remembered" PROVE KnownOK(q, x)'
      BY <1>2, <2>1 DEF KnownOK
    <3>1. memory'[x] = "remembered" /\ spent'[x] = spent[x]
      BY <1>4, <1>6
    <3>2. QED
      BY <1>2, <1>6, <2>1, <3>1 DEF KnownOK
  <2>2. CASE q # p
    <3> SUFFICES ASSUME known[q][x] = "remembered" PROVE KnownOK(q, x)'
      BY <2>2 DEF KnownOK, IInv, TypeOK
    <3>1. x # p
      BY DEF IInv, KnownOK, PolicyOK, Before
    <3>2. QED
      BY <1>4, <2>2, <3>1 DEF IInv, KnownOK
  <2>3. QED
    BY <2>1, <2>2
<1>8. QED
  BY <1>5, <1>7 DEF IInv

LEMMA ConsumeStep == ASSUME IInv, NEW p \in Policies, Consume(p) PROVE IInv'
<1>1. p \in Processes /\ pc[p] = "consuming" /\ now \in Times
  BY Constants DEF Consume, IInv, TypeOK
<1>2. CASE Exit(p) /\ UNCHANGED <<server, spent, memory, known>>
  <2>1. TypeOK'
    BY <1>1, <1>2, ExitType DEF Consume, IInv, TypeOK, server
  <2>2. QED
    BY <1>1, <1>2, <2>1, QuietStep DEF Consume, Exit, Places, past
<1>3. CASE /\ Reset(lane[p])
           /\ spent' = [spent EXCEPT ![p] = now]
           /\ memory' = [memory EXCEPT ![p] = "forgotten"]
           /\ known' = [known EXCEPT ![p] = memory]
           /\ \/ Goto(p, "remembering") /\ UNCHANGED <<lock, locals>>
              \/ Exit(p)
  <2>1. headroom' \in [Lanes -> 0..Full] /\ credits' \in [Lanes -> Nat]
    <3>1. CASE lane[p] \in Lanes
      BY <1>3, <3>1, ResetType DEF IInv
    <3>2. CASE lane[p] \notin Lanes
      BY <1>3, <3>2 DEF Reset, IInv, TypeOK
    <3>3. QED
      BY <3>1, <3>2
  <2>2. /\ pc' \in [Processes -> Places]
        /\ lock' \in Processes \cup {NoProcess}
        /\ lane' \in [Processes -> Lanes \cup {NoLane}]
        /\ verdict' \in [Processes -> Verdicts]
        /\ current' \in [Processes -> Times]
    <3>1. CASE Exit(p)
      BY <1>1, <3>1, ExitType DEF IInv
    <3>2. CASE Goto(p, "remembering") /\ UNCHANGED <<lock, locals>>
      <4>1. pc' \in [Processes -> Places]
        BY <1>1, <3>2, GotoType DEF IInv, Places
      <4>2. QED
        BY <3>2, <4>1 DEF IInv, TypeOK, locals
    <3>3. QED
      BY <1>3, <3>1, <3>2
  <2>3. /\ spent' \in [Policies -> Times \cup {Never}]
        /\ memory' \in [Policies -> Memories]
        /\ known' \in [Policies -> [Policies -> Memories]]
    BY <1>1, <1>3 DEF IInv, TypeOK, Memories
  <2>4. TypeOK'
    BY <2>1, <2>2, <2>3 DEF Consume, IInv, TypeOK
  <2>5. UNCHANGED <<now, last, taken>>
    BY DEF Consume
  <2>6. QED
    BY <1>1, <1>3, <2>4, <2>5, SpendStep
<1>4. QED
  BY <1>2, <1>3 DEF Consume

LEMMA RememberStep == ASSUME IInv, NEW p \in Policies, Remember(p) PROVE IInv'
<1> USE DEF Remember
<1>1. p \in Processes /\ now \in Times
  BY Constants DEF IInv, TypeOK
<1>2. TypeOK'
  <2>1. pc' \in [Processes -> Places]
    BY <1>1, GotoType DEF IInv, Places
  <2>2. memory' \in [Policies -> Memories]
    BY DEF IInv, TypeOK, Memories
  <2>3. QED
    BY <1>1, <2>1, <2>2 DEF IInv, TypeOK, server, locals
<1>3. pc'[p] = "recording" /\ memory'[p] = "remembered" /\ memory[p] # "none" /\ lock = p
  <2>1. pc'[p] = "recording" /\ memory'[p] = "remembered"
    BY <1>1 DEF IInv, TypeOK, Goto
  <2>2. lock = p
    BY DEF IInv, PolicyOK, Holding
  <2>3. memory[p] # "none"
    BY DEF IInv, PolicyOK
  <2>4. QED
    BY <2>1, <2>2, <2>3
<1>4. ASSUME NEW q \in Policies, q # p
      PROVE  pc'[q] = pc[q] /\ memory'[q] = memory[q] /\ pc[q] \notin Holding
  <2>1. pc'[q] = pc[q] /\ memory'[q] = memory[q]
    BY <1>4, Constants DEF IInv, TypeOK, Goto
  <2>2. pc[q] \notin Holding
    BY <1>3, <1>4 DEF IInv, PolicyOK
  <2>3. QED
    BY <2>1, <2>2
<1>5. ASSUME NEW q \in Policies PROVE PolicyOK(q)'
  <2>1. CASE q = p
    <3>1. spent[p] \in Times /\ spent[p] <= now /\ taken[p] <= now
      BY <1>3 DEF IInv, PolicyOK
    <3>2. QED
      BY <2>1, <1>3, <3>1 DEF PolicyOK, Before, Holding, Judging, Allowed
  <2>2. CASE q # p
    BY <2>2, <1>4 DEF IInv, PolicyOK, Holding, Allowed, locals
  <2>3. QED
    BY <2>1, <2>2
<1>6. ASSUME NEW q \in Policies, NEW x \in Policies PROVE KnownOK(q, x)'
  <2>1. \A y \in Policies : memory[y] # "none" => memory'[y] # "none"
    BY <1>3, <1>4
  <2>2. QED
    BY <2>1 DEF IInv, KnownOK
<1>7. QED
  BY <1>2, <1>5, <1>6 DEF IInv

LEMMA RecordStep == ASSUME IInv, NEW p \in Policies, Record(p) PROVE IInv'
<1>1. p \in Processes
  BY Constants
<1>2. TypeOK'
  BY <1>1, ExitType DEF Record, IInv, TypeOK, server, past
<1>3. QED
  BY <1>1, <1>2, QuietStep DEF Record, Exit, Places

-----------------------------------------------------------------------------
(* The operator *)

LEMMA OperatorQuiet ==
    ASSUME IInv, NEW o \in Operators,
           Probe(o) \/ ConsumeByHand(o) \/ Stamp(o) \/ Finish(o)
    PROVE  IInv'
<1>1. o \in Processes /\ now \in Times
  BY Constants DEF IInv, TypeOK
<1>2. CASE Probe(o)
  <2>1. PICK l \in todo[o] :
           /\ todo' = [todo EXCEPT ![o] = @ \ {l}]
           /\ \/ /\ l \in Candidates
                 /\ lane' = [lane EXCEPT ![o] = l]
                 /\ Goto(o, "consuming")
              \/ UNCHANGED <<lane, pc>>
    BY <1>2 DEF Probe
  <2>2. todo' \in [Operators -> SUBSET Lanes]
    BY <2>1 DEF IInv, TypeOK
  <2>3. UNCHANGED <<now, server, lock, last, verdict, current, past>>
    BY <1>2 DEF Probe
  <2>4. CASE lane' = [lane EXCEPT ![o] = l] /\ Goto(o, "consuming")
    <3>1. pc' \in [Processes -> Places]
      BY <1>1, <2>4, GotoType DEF IInv, Places
    <3>2. l \in Lanes
      BY <2>1 DEF IInv, TypeOK
    <3>3. TypeOK'
      BY <2>2, <2>3, <2>4, <3>1, <3>2 DEF IInv, TypeOK, server, past
    <3>4. QED
      BY <1>1, <2>3, <2>4, <3>3, QuietStep DEF Places
  <2>5. CASE UNCHANGED <<lane, pc>>
    <3>1. TypeOK'
      BY <2>2, <2>3, <2>5 DEF IInv, TypeOK, server, past
    <3>2. now' >= now
      BY <1>1, <2>3 DEF Times
    <3>3. QED
      BY <2>3, <2>5, <3>1, <3>2, Quiet
  <2>6. QED
    BY <2>1, <2>4, <2>5
<1>3. CASE ConsumeByHand(o)
  <2>1. UNCHANGED <<now, last, todo, past>>
    BY <1>3 DEF ConsumeByHand
  <2>2. headroom' \in [Lanes -> 0..Full] /\ credits' \in [Lanes -> Nat]
    <3>1. CASE UNCHANGED server
      BY <3>1 DEF IInv, TypeOK, server
    <3>2. CASE Reset(lane[o]) /\ lane[o] \in Lanes
      BY <3>2, ResetType DEF IInv
    <3>3. CASE Reset(lane[o]) /\ lane[o] \notin Lanes
      BY <3>3 DEF Reset, IInv, TypeOK
    <3>4. QED
      BY <1>3, <3>1, <3>2, <3>3 DEF ConsumeByHand
  <2>3. CASE Exit(o)
    <3>1. TypeOK'
      BY <1>1, <2>1, <2>2, <2>3, ExitType DEF IInv, TypeOK, past
    <3>2. QED
      BY <1>1, <2>1, <2>3, <3>1, QuietStep DEF Exit, Places
  <2>4. CASE Goto(o, "stamping") /\ UNCHANGED <<lock, locals>>
    <3>1. pc' \in [Processes -> Places]
      BY <1>1, <2>4, GotoType DEF IInv, Places
    <3>2. TypeOK'
      BY <2>1, <2>2, <2>4, <3>1 DEF IInv, TypeOK, past, locals
    <3>3. QED
      BY <1>1, <2>1, <2>4, <3>2, QuietStep DEF Places, locals
  <2>5. QED
    BY <1>3, <2>3, <2>4 DEF ConsumeByHand
<1>4. CASE Stamp(o)
  <2>1. pc' \in [Processes -> Places]
    BY <1>1, <1>4, GotoType DEF Stamp, IInv, Places
  <2>2. current' \in [Processes -> Times]
    BY <1>1, <1>4 DEF Stamp, IInv, TypeOK
  <2>3. TypeOK'
    BY <1>4, <2>1, <2>2 DEF Stamp, IInv, TypeOK, server, past
  <2>4. \A q \in Policies : current'[q] = current[q]
    BY <1>4, Constants DEF Stamp, IInv, TypeOK
  <2>5. QED
    BY <1>1, <1>4, <2>3, <2>4, QuietStep DEF Stamp, Places
<1>5. CASE Finish(o)
  <2>1. TypeOK'
    BY <1>1, <1>5, ExitType DEF Finish, IInv, TypeOK, server, past
  <2>2. QED
    BY <1>1, <1>5, <2>1, QuietStep DEF Finish, Exit, Places
<1>6. QED
  BY <1>2, <1>3, <1>4, <1>5

(* Nobody holds the lock when an operator records, and the uses its time    *)
(* does not cover are no longer on record.                                  *)
LEMMA RememberByHandStep == ASSUME IInv, NEW o \in Operators, RememberByHand(o) PROVE IInv'
<1> USE DEF RememberByHand
<1>1. o \in Processes /\ current[o] \in Times /\ lock = NoProcess
  BY Constants DEF IInv, TypeOK, MayRecord, TakesLock
<1>2. memory' \in [Policies -> Memories] /\ \A q \in Policies :
         /\ memory'[q] = "remembered" => memory[q] = "remembered" /\ ~(current[o] < spent[q])
         /\ memory'[q] = "none" <=> memory[q] = "none"
         /\ memory[q] = "forgotten" => memory'[q] = "forgotten"
  BY DEF IInv, TypeOK, Overwritten, Memories
<1>3. /\ pc' \in [Processes -> Places]
      /\ lock' \in Processes \cup {NoProcess}
      /\ lane' \in [Processes -> Lanes \cup {NoLane}]
      /\ verdict' \in [Processes -> Verdicts]
      /\ current' \in [Processes -> Times]
  <2>1. CASE Exit(o)
    BY <1>1, <2>1, ExitType DEF IInv
  <2>2. CASE Goto(o, "start") /\ UNCHANGED <<lock, locals>>
    <3>1. pc' \in [Processes -> Places]
      BY <1>1, <2>2, GotoType DEF IInv, Places
    <3>2. QED
      BY <2>2, <3>1 DEF IInv, TypeOK, locals
  <2>3. QED
    BY <2>1, <2>2
<1>4. TypeOK'
  BY <1>1, <1>2, <1>3 DEF IInv, TypeOK, server
<1>5. ASSUME NEW q \in Policies
      PROVE  /\ pc'[q] = pc[q] /\ current'[q] = current[q] /\ pc[q] \notin Holding
             /\ now' = now /\ spent'[q] = spent[q] /\ taken'[q] = taken[q]
  <2>1. q # o /\ q \in Processes /\ q # NoProcess
    BY Constants
  <2>2. pc'[q] = pc[q]
    BY <2>1 DEF IInv, TypeOK, Goto, Exit
  <2>3. current'[q] = current[q]
    BY <2>1 DEF IInv, TypeOK, Exit, locals
  <2>4. pc[q] \notin Holding
    BY <1>1, <2>1 DEF IInv, PolicyOK
  <2>5. QED
    BY <2>2, <2>3, <2>4
<1>6. ASSUME NEW q \in Policies PROVE PolicyOK(q)'
  <2>1. Allowed \subseteq Holding /\ "remembering" \in Holding
    BY DEF Allowed, Holding
  <2>2. memory'[q] = "remembered" => spent[q] <= current[o]
    <3>1. memory'[q] = "remembered" => spent[q] \in Times /\ ~(current[o] < spent[q])
      BY <1>2 DEF IInv, PolicyOK
    <3>2. QED
      BY <1>1, <3>1 DEF Times
  <2>3. QED
    BY <1>2, <1>5, <2>1, <2>2 DEF IInv, PolicyOK
<1>7. ASSUME NEW q \in Policies, NEW x \in Policies PROVE KnownOK(q, x)'
  BY <1>2, <1>5 DEF IInv, KnownOK
<1>8. QED
  BY <1>4, <1>6, <1>7 DEF IInv

-----------------------------------------------------------------------------
(* Deaths, use and time *)

LEMMA DiesStep == ASSUME IInv, NEW p \in Processes, Dies(p) PROVE IInv'
<1>1. TypeOK'
  BY ExitType DEF Dies, IInv, TypeOK, server, past
<1>2. QED
  BY <1>1, QuietStep DEF Dies, Exit, Places

LEMMA UseStep == ASSUME IInv, NEW l \in Lanes, Use(l) PROVE IInv'
<1>1. headroom[l] - 1 \in 0..Full
  BY Constants DEF Use, IInv, TypeOK
<1>2. TypeOK'
  BY <1>1 DEF Use, IInv, TypeOK, locals, past
<1>3. now' >= now
  BY Constants DEF Use, IInv, TypeOK, Times
<1>4. QED
  BY <1>2, <1>3, Quiet DEF Use, locals

LEMMA TickStep == ASSUME IInv, Tick PROVE IInv'
<1>1. now' \in Times /\ now' >= now
  BY Constants DEF Tick, IInv, TypeOK, Times
<1>2. TypeOK'
  BY <1>1 DEF Tick, IInv, TypeOK, server, locals, past
<1>3. QED
  BY <1>1, <1>2, Quiet DEF Tick, locals

LEMMA StepInvariant == IInv /\ [Next]_vars => IInv'
<1> SUFFICES ASSUME IInv, [Next]_vars PROVE IInv'
  OBVIOUS
<1>1. CASE UNCHANGED vars
  BY <1>1 DEF vars, server, locals, past, IInv, TypeOK, PolicyOK, KnownOK, IntervalOK, Elapsed
<1>2. ASSUME NEW p \in Policies, PolicyStep(p) PROVE IInv'
  BY <1>2, SnapshotStep, EnterStep, EvaluateStep, SelectStep, ConsumeStep, RememberStep,
     RecordStep DEF PolicyStep
<1>3. ASSUME NEW o \in Operators, OperatorStep(o) PROVE IInv'
  BY <1>3, OperatorQuiet, RememberByHandStep DEF OperatorStep
<1>4. QED
  BY <1>1, <1>2, <1>3, DiesStep, UseStep, TickStep DEF Next

-----------------------------------------------------------------------------
(* The invariant holds throughout: who is about to spend holds the lock,    *)
(* and the recorded time covers every use that is on record.                *)
THEOREM Invariance == Spec => []IInv
BY InitInvariant, StepInvariant, PTL DEF Spec

(* Every variable of the reset policy keeps its type. *)
THEOREM TypeCorrect == Spec => []TypeOK
<1>1. IInv => TypeOK
  BY DEF IInv
<1>2. QED
  BY <1>1, Invariance, PTL

(* reset_policy.run does not spend twice within the interval, for any       *)
(* number of dispatches, watchdog cycles and operators.                     *)
THEOREM Spacing == Spec => []IntervalKept
<1>1. IInv => IntervalKept
  BY DEF IInv, KnownOK, IntervalKept
<1>2. QED
  BY <1>1, Invariance, PTL

(* The watchdog does not spend on a snapshot that a recorded redemption may *)
(* have overtaken.                                                          *)
THEOREM Freshness == Spec => []EvidenceFresh
<1>1. IInv => EvidenceFresh
  BY Constants DEF IInv, KnownOK, EvidenceFresh
<1>2. QED
  BY <1>1, Invariance, PTL

=============================================================================
