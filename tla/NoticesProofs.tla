---------------------------- MODULE NoticesProofs ----------------------------
(***************************************************************************)
(* Theorems about completion notices, for any runs, hooks and kills.       *)
(***************************************************************************)
EXTENDS Notices, TLAPS

(* A report is handed from one holder to the next: a row is only written    *)
(* after the push, and a push that was accepted left the report in the      *)
(* inbox, from where it only goes by a fate.                                *)
RunOK(r) ==
    /\ rows[r] # "none" => notifier[r] \in {"noting", "done"}
    /\ sent[r] => r \in inbox \/ fate[r] # {}
    /\ Finished(r) /\ fate[r] = {} => Held(r)

IInv == TypeOK /\ \A r \in Runs : RunOK(r)

(* Row r as a step may leave it. *)
KeptRow(r) ==
    (rows[r] = "parked" /\ rows'[r] # "parked") =>
        \E h \in Hooks : /\ hook[h].at = "marking" /\ r \in hook[h].list
                         /\ hook'[h].at = "printing"

-----------------------------------------------------------------------------
LEMMA EndsFacts ==
    ASSUME fate \in [Runs -> SUBSET (Told \cup Lost)], NEW S, NEW f \in Told \cup Lost,
           Ends(S, f)
    PROVE  /\ fate' \in [Runs -> SUBSET (Told \cup Lost)]
           /\ \A r \in Runs : /\ fate[r] \subseteq fate'[r]
                              /\ r \in S => fate'[r] # {}
                              /\ r \notin S => fate'[r] = fate[r]
BY DEF Ends

(* What is not touched: the hooks that print, and the fates there are. *)
LEMMA SameHolders ==
    ASSUME NEW r \in Runs, RunOK(r), fate[r] \subseteq fate'[r],
           rows'[r] = rows[r], sent'[r] = sent[r], r \in inbox => r \in inbox',
           \A h \in Hooks : hook[h].at = "printing" /\ r \in hook[h].list =>
                               hook'[h].at = "printing" /\ r \in hook'[h].list,
           waiter[r] = "waiting" => waiter'[r] = "waiting",
           notifier'[r] = notifier[r]
    PROVE  RunOK(r)'
BY DEF RunOK, Held, Finished

-----------------------------------------------------------------------------
(* The notifier and the front door *)

LEMMA NotifierTypes ==
    ASSUME IInv, NEW r \in Runs,
           \/ RecordFinish(r) \/ NotifierStep(r) \/ NotifierDies(r)
           \/ WaiterReports(r) \/ WaiterDies(r)
    PROVE  TypeOK' /\ \A x \in Runs : fate[x] \subseteq fate'[x]
<1> USE DEF RecordFinish, NotifierStep, Load, LeaveToWaiter, Push, Append, SetNotify,
            NotifierDies, WaiterReports, WaiterDies, Kill
<1>1. fate' = fate \/ \E S \in SUBSET Runs, f \in Told \cup Lost : Ends(S, f)
  BY DEF Told, Lost
<1>2. fate' \in [Runs -> SUBSET (Told \cup Lost)] /\ \A x \in Runs : fate[x] \subseteq fate'[x]
  BY <1>1, EndsFacts DEF IInv, TypeOK
<1>3. notifier' \in [Runs -> NotifierStates] /\ waiter' \in [Runs -> WaiterStates]
  BY DEF IInv, TypeOK, NotifierStates, WaiterStates
<1>4. noted' \in [Runs -> {"none", "pushed", "unpushed"}] /\ kills' \in 0..MaxKills
  BY NoticesAssumption DEF IInv, TypeOK
<1>5. /\ rows' \in [Runs -> Rows] /\ sent' \in [Runs -> BOOLEAN]
      /\ inbox' \in SUBSET Runs
  BY DEF IInv, TypeOK, Rows, RowOf
<1>6. UNCHANGED <<session, hook>>
  OBVIOUS
<1>7. QED
  BY <1>2, <1>3, <1>4, <1>5, <1>6 DEF IInv, TypeOK

LEMMA NotifierInv ==
    ASSUME IInv, NEW r \in Runs,
           \/ RecordFinish(r) \/ NotifierStep(r) \/ NotifierDies(r)
           \/ WaiterReports(r) \/ WaiterDies(r)
    PROVE  IInv' /\ \A x \in Runs : KeptRow(x)
<1> USE DEF NotifierStep
<1>1. TypeOK' /\ \A x \in Runs : fate[x] \subseteq fate'[x]
  BY NotifierTypes
<1>2. ASSUME NEW x \in Runs, x # r PROVE RunOK(x)' /\ KeptRow(x)
  <2>1. /\ rows'[x] = rows[x] /\ sent'[x] = sent[x] /\ notifier'[x] = notifier[x]
        /\ waiter'[x] = waiter[x] /\ hook' = hook /\ (x \in inbox => x \in inbox')
    BY <1>2 DEF IInv, TypeOK, RecordFinish, Load, LeaveToWaiter, Push, Append, SetNotify,
                NotifierDies, WaiterReports, WaiterDies
  <2>2. RunOK(x)'
    BY <1>1, <2>1, SameHolders DEF IInv
  <2>3. QED
    BY <2>1, <2>2 DEF KeptRow
<1>3. RunOK(r)' /\ KeptRow(r)
  <2> USE DEF IInv, TypeOK, RunOK, Held, Finished, KeptRow
  <2>1. CASE RecordFinish(r)
    BY <2>1, <1>1 DEF RecordFinish
  <2>2. CASE Load(r)
    BY <2>2, <1>1, EndsFacts DEF Load, Lost
  <2>3. CASE LeaveToWaiter(r)
    BY <2>3, <1>1 DEF LeaveToWaiter
  <2>4. CASE Push(r)
    BY <2>4, <1>1 DEF Push
  <2>5. CASE Append(r)
    <3>1. rows[r] = "none"
      BY <2>5 DEF Append
    <3>2. CASE rows' = [rows EXCEPT ![r] = RowOf(r)] /\ UNCHANGED fate
      BY <2>5, <3>1, <3>2 DEF Append, RowOf
    <3>3. CASE UNCHANGED rows /\ sent[r] /\ UNCHANGED fate
      BY <2>5, <3>1, <3>3 DEF Append
    <3>4. CASE UNCHANGED rows /\ Ends({r}, "unwritten")
      <4>1. fate'[r] # {}
        BY <3>4, EndsFacts DEF Lost
      <4>2. QED
        BY <2>5, <3>1, <3>4, <4>1 DEF Append
    <3>5. QED
      BY <2>5, <3>2, <3>3, <3>4 DEF Append
  <2>6. CASE SetNotify(r)
    BY <2>6, <1>1 DEF SetNotify
  <2>7. CASE NotifierDies(r)
    <3>1. CASE notifier[r] = "noting" \/ sent[r]
      BY <2>7, <3>1 DEF NotifierDies
    <3>2. CASE Ends({r}, "killed")
      <4>1. fate'[r] # {}
        BY <3>2, EndsFacts DEF Lost
      <4>2. QED
        BY <2>7, <4>1, <1>1 DEF NotifierDies
    <3>3. QED
      BY <2>7, <3>1, <3>2 DEF NotifierDies
  <2>8. CASE WaiterReports(r)
    <3>1. fate'[r] # {}
      BY <2>8, EndsFacts DEF WaiterReports, Told
    <3>2. QED
      BY <2>8, <3>1 DEF WaiterReports
  <2>9. CASE WaiterDies(r)
    <3>1. CASE LeftTo(r)
      <4>1. fate'[r] # {}
        BY <2>9, <3>1, EndsFacts DEF WaiterDies, Lost
      <4>2. QED
        BY <2>9, <4>1 DEF WaiterDies
    <3>2. CASE ~LeftTo(r)
      <4>1. notifier[r] \in {"none", "loading", "checking", "appending"}
        BY <2>9, <3>2 DEF LeftTo, WaiterDies, NotifierStates
      <4>2. QED
        BY <2>9, <4>1, <1>1 DEF WaiterDies
    <3>3. QED
      BY <3>1, <3>2
  <2>10. QED
    BY <2>1, <2>2, <2>3, <2>4, <2>5, <2>6, <2>7, <2>8, <2>9
<1>4. QED
  BY <1>1, <1>2, <1>3 DEF IInv

-----------------------------------------------------------------------------
(* The session and its hooks *)

LEMMA ReadInboxInv ==
    ASSUME IInv, ReadInbox
    PROVE  IInv' /\ \A x \in Runs : KeptRow(x)
<1> USE DEF ReadInbox
<1>1. "read" \in Told \cup Lost /\ Ends(inbox, "read")
  BY DEF Told
<1>2. /\ fate' \in [Runs -> SUBSET (Told \cup Lost)]
      /\ \A x \in Runs : /\ fate[x] \subseteq fate'[x]
                         /\ x \in inbox => fate'[x] # {}
  BY <1>1, EndsFacts DEF IInv, TypeOK
<1>3. TypeOK'
  BY <1>2 DEF IInv, TypeOK
<1>4. \A x \in Runs : RunOK(x)'
  BY <1>2 DEF IInv, RunOK, Held, Finished
<1>5. QED
  BY <1>3, <1>4 DEF IInv, KeptRow

(* What the inbox held is unread, what was left to a front door unreported. *)
LEMMA SessionDiesInv ==
    ASSUME IInv, SessionDies
    PROVE  IInv' /\ \A x \in Runs : KeptRow(x)
<1> USE DEF SessionDies, Kill
<1>1. /\ fate' \in [Runs -> SUBSET (Told \cup Lost)]
      /\ \A x \in Runs : /\ fate[x] \subseteq fate'[x]
                         /\ x \in inbox \/ LeftTo(x) => fate'[x] # {}
  BY DEF IInv, TypeOK, Told, Lost
<1>2. \A h \in Hooks : hook'[h].list = hook[h].list /\ hook'[h].at = hook[h].at
  BY DEF IInv, TypeOK, HookRecords
<1>3. TypeOK'
  <2>1. waiter' \in [Runs -> WaiterStates] /\ kills' \in 0..MaxKills
    BY NoticesAssumption DEF IInv, TypeOK, WaiterStates
  <2>2. hook' \in [Hooks -> HookRecords]
    BY DEF IInv, TypeOK, HookRecords
  <2>3. QED
    BY <1>1, <2>1, <2>2 DEF IInv, TypeOK
<1>4. ASSUME NEW x \in Runs PROVE RunOK(x)'
  <2>1. CASE fate'[x] # {}
    BY <2>1 DEF IInv, RunOK, Held, Finished
  <2>2. CASE fate'[x] = {}
    <3>1. fate[x] = {} /\ x \notin inbox /\ ~LeftTo(x) /\ ~sent[x]
      BY <1>1, <2>2 DEF IInv, RunOK
    <3>2. waiter[x] = "waiting" => notifier[x] \notin {"noting", "done"}
      BY <3>1 DEF LeftTo
    <3>3. Finished(x)' => Held(x)'
      BY <1>2, <3>1, <3>2 DEF IInv, TypeOK, NotifierStates, RunOK, Held, Finished
    <3>4. QED
      BY <3>1, <3>3 DEF IInv, RunOK
  <2>3. QED
    BY <2>1, <2>2
<1>5. QED
  BY <1>3, <1>4 DEF IInv, KeptRow

(* A hook starts, reads the file, or ends without a word. *)
LEMMA HookMovesInv ==
    ASSUME IInv, NEW h \in Hooks, SessionStarts(h) \/ UserPrompt(h) \/ HookReads(h)
    PROVE  IInv' /\ \A x \in Runs : KeptRow(x)
<1> USE DEF SessionStarts, UserPrompt, HookReads
<1>1. PICK e \in HookRecords : hook' = [hook EXCEPT ![h] = e]
  <2>1. CASE SessionStarts(h) \/ UserPrompt(h)
    <3>1. \A at \in {"session-start", "user-prompt"} : Starting(at) \in HookRecords
      BY DEF Starting, HookRecords
    <3>2. \E at \in {"session-start", "user-prompt"} :
             hook' = [hook EXCEPT ![h] = Starting(at)]
      BY <2>1
    <3>3. QED
      BY <3>1, <3>2
  <2>2. CASE HookReads(h)
    <3> DEFINE L == Pending(hook[h].at = "session-start")
    <3>1. L \in SUBSET Runs
      BY DEF Pending
    <3> HIDE DEF L
    <3>2. hook[h] \in HookRecords
      BY DEF IInv, TypeOK
    <3>3. Resting \in HookRecords /\ [hook[h] EXCEPT !.at = "marking", !.list = L] \in HookRecords
      BY <3>1, <3>2 DEF Resting, HookRecords
    <3>4. hook' = [hook EXCEPT ![h] = IF L = {} THEN Resting
                                      ELSE [hook[h] EXCEPT !.at = "marking", !.list = L]]
      BY <2>2 DEF L
    <3>5. QED
      BY <3>3, <3>4
  <2>3. QED
    BY <2>1, <2>2
<1>2. TypeOK'
  BY <1>1 DEF IInv, TypeOK
<1>3. hook[h].at # "printing" /\ \A k \in Hooks \ {h} : hook'[k] = hook[k]
  BY <1>1 DEF IInv, TypeOK
<1>4. UNCHANGED <<inbox, rows, notifier, sent, waiter, fate>>
  OBVIOUS
<1>5. \A x \in Runs : RunOK(x)' /\ KeptRow(x)
  BY <1>3, <1>4, SameHolders DEF IInv, KeptRow
<1>6. QED
  BY <1>2, <1>5 DEF IInv

LEMMA HookMarksInv ==
    ASSUME IInv, NEW h \in Hooks, HookMarks(h)
    PROVE  IInv' /\ \A x \in Runs : KeptRow(x)
<1> USE DEF HookMarks, Marked
<1>1. TypeOK' /\ hook' = [hook EXCEPT ![h].at = "printing"]
  <2>1. [hook[h] EXCEPT !.at = "printing"] \in HookRecords
    BY DEF IInv, TypeOK, HookRecords
  <2>2. hook' = [hook EXCEPT ![h] = [hook[h] EXCEPT !.at = "printing"]]
    OBVIOUS
  <2>3. hook' \in [Hooks -> HookRecords]
    BY <2>1, <2>2 DEF IInv, TypeOK
  <2>4. rows' \in [Runs -> Rows]
    BY DEF IInv, TypeOK, Rows
  <2>5. QED
    BY <2>3, <2>4 DEF IInv, TypeOK
<1>2. /\ hook'[h].at = "printing" /\ hook'[h].list = hook[h].list
      /\ \A k \in Hooks \ {h} : hook'[k] = hook[k]
  BY <1>1 DEF IInv, TypeOK, HookRecords
<1>3. ASSUME NEW x \in Runs PROVE RunOK(x)' /\ KeptRow(x)
  <2>1. CASE x \in hook[h].list /\ rows[x] = "parked"
    <3>1. Held(x)' /\ rows'[x] = "surfaced"
      BY <2>1, <1>2 DEF Held, IInv, TypeOK
    <3>2. QED
      BY <2>1, <3>1, <1>2 DEF IInv, RunOK, Finished, KeptRow
  <2>2. CASE ~(x \in hook[h].list /\ rows[x] = "parked")
    <3>1. rows'[x] = rows[x]
      BY <2>2
    <3>2. \A k \in Hooks : hook[k].at = "printing" /\ x \in hook[k].list =>
                              hook'[k].at = "printing" /\ x \in hook'[k].list
      BY <1>2
    <3>3. QED
      BY <3>1, <3>2, SameHolders DEF IInv, KeptRow
  <2>3. QED
    BY <2>1, <2>2
<1>4. QED
  BY <1>1, <1>3 DEF IInv

(* Every report of a hook's list has a fate when it ends after the mark. *)
LEMMA HookEndsInv ==
    ASSUME IInv, NEW h \in Hooks, HookPrints(h) \/ HookDies(h)
    PROVE  IInv' /\ \A x \in Runs : KeptRow(x)
<1> USE DEF HookPrints, HookDies, Kill
<1>1. \/ fate' = fate /\ hook[h].at # "printing"
      \/ \E f \in Told \cup Lost : Ends(hook[h].list, f)
  BY DEF Told, Lost
<1>2. /\ fate' \in [Runs -> SUBSET (Told \cup Lost)]
      /\ \A x \in Runs : /\ fate[x] \subseteq fate'[x]
                         /\ hook[h].at = "printing" /\ x \in hook[h].list => fate'[x] # {}
  BY <1>1, EndsFacts DEF IInv, TypeOK
<1>3. /\ hook' = [hook EXCEPT ![h] = Resting]
      /\ UNCHANGED <<session, inbox, rows, notifier, sent, waiter, noted>>
  OBVIOUS
<1>4. TypeOK'
  <2>1. Resting \in HookRecords
    BY DEF Resting, HookRecords
  <2>2. hook' \in [Hooks -> HookRecords]
    BY <1>3, <2>1 DEF IInv, TypeOK
  <2>3. kills' \in 0..MaxKills
    BY NoticesAssumption DEF IInv, TypeOK
  <2>4. QED
    BY <1>2, <1>3, <2>2, <2>3 DEF IInv, TypeOK
<1>5. \A k \in Hooks \ {h} : hook'[k] = hook[k]
  BY <1>3 DEF IInv, TypeOK
<1>6. ASSUME NEW x \in Runs PROVE RunOK(x)' /\ KeptRow(x)
  <2>1. CASE hook[h].at = "printing" /\ x \in hook[h].list
    BY <2>1, <1>2, <1>3 DEF IInv, RunOK, KeptRow
  <2>2. CASE ~(hook[h].at = "printing" /\ x \in hook[h].list)
    BY <2>2, <1>2, <1>3, <1>5, SameHolders DEF IInv, KeptRow
  <2>3. QED
    BY <2>1, <2>2
<1>7. QED
  BY <1>4, <1>6 DEF IInv

(* Only what was surfaced is dropped. *)
LEMMA PruneInv ==
    ASSUME IInv, PruneNotices
    PROVE  IInv' /\ \A x \in Runs : KeptRow(x)
<1>1. PICK S \in SUBSET Runs :
         /\ \A r \in S : rows[r] = "surfaced"
         /\ rows' = [r \in Runs |-> IF r \in S THEN "none" ELSE rows[r]]
         /\ UNCHANGED <<session, inbox, notifier, sent, waiter, noted, hook, fate, kills>>
  BY DEF PruneNotices, Droppable
<1>2. TypeOK'
  BY <1>1 DEF IInv, TypeOK, Rows
<1>3. \A x \in Runs : /\ rows[x] = "parked" <=> rows'[x] = "parked"
                      /\ rows'[x] # "none" => rows[x] # "none"
  BY <1>1
<1>4. \A x \in Runs : RunOK(x)' /\ KeptRow(x)
  BY <1>1, <1>3 DEF IInv, RunOK, Held, Finished, KeptRow
<1>5. QED
  BY <1>2, <1>4 DEF IInv

-----------------------------------------------------------------------------
LEMMA InitInv == Init => IInv
BY NoticesAssumption DEF Init, IInv, TypeOK, RunOK, Finished, Rows, NotifierStates,
   WaiterStates, Resting, HookRecords

LEMMA NextInv ==
    ASSUME IInv, [Next]_vars
    PROVE  IInv' /\ \A x \in Runs : KeptRow(x)
<1>1. ASSUME NEW h \in Hooks, SessionStarts(h) \/ UserPrompt(h) \/ HookStep(h) \/ HookDies(h)
      PROVE  IInv' /\ \A x \in Runs : KeptRow(x)
  BY <1>1, HookMovesInv, HookMarksInv, HookEndsInv DEF HookStep
<1>2. CASE UNCHANGED vars
  BY <1>2 DEF vars, IInv, TypeOK, RunOK, Held, Finished, KeptRow
<1>3. QED
  BY <1>1, <1>2, NotifierInv, ReadInboxInv, SessionDiesInv, PruneInv DEF Next

(* The invariant holds throughout, whatever dies and restarts. *)
THEOREM Invariance == Spec => []IInv
<1>1. IInv /\ [Next]_vars => IInv'
  BY NextInv
<1>2. QED
  BY InitInv, <1>1, PTL DEF Spec

(* Every variable keeps its type. *)
THEOREM TypeCorrect == Spec => []TypeOK
<1>1. IInv => TypeOK
  BY DEF IInv
<1>2. QED
  BY <1>1, Invariance, PTL

(* The report of a recorded end has a holder until it has had a fate. *)
THEOREM NothingForgotten == Spec => []NoneForgotten
<1>1. IInv => NoneForgotten
  BY DEF IInv, RunOK, NoneForgotten
<1>2. QED
  BY <1>1, Invariance, PTL

(* A parked notice stays until a hook that has read it marks it. *)
THEOREM Kept == Spec => NoticeKept
<1>1. IInv /\ [Next]_vars =>
         [\A r \in Runs : (rows[r] = "parked" /\ rows'[r] # "parked") =>
             \E h \in Hooks : /\ hook[h].at = "marking" /\ r \in hook[h].list
                              /\ hook'[h].at = "printing"]_vars
  BY NextInv DEF KeptRow
<1>2. QED
  BY <1>1, Invariance, PTL DEF Spec, NoticeKept

=============================================================================
