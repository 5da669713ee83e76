----------------------------- MODULE GateProofs ------------------------------
(***************************************************************************)
(* Proofs about the agreement gate, for any number of invocations,         *)
(* revisions and rounds.                                                   *)
(***************************************************************************)
EXTENDS GateInvariant, TLAPS

(* A stored gate stays a gate when the recorded action changes. *)
LEMMA SetActionFacts ==
    ASSUME NEW g \in Gates, NEW s \in Statuses, NEW a \in ActionStatuses
    PROVE  /\ SetAction(g, s, a) \in Gates
           /\ SetAction(g, s, a).status = s
           /\ SetAction(g, s, a).rounds = g.rounds
           /\ SetAction(g, s, a).lease = g.lease
           /\ SetAction(g, s, a).action.attempt = g.action.attempt
           /\ SetAction(g, s, a).action.status = a
BY DEF SetAction, Gates, Actions

(* A sequence with one element replaced keeps its length and the others. *)
LEMMA DecidedFacts ==
    ASSUME NEW rs \in Seq(Rounds), NEW n \in 1..Len(rs),
           NEW s \in Verdicts \cup {"reviewing"}
    PROVE  /\ Decided(rs, n, s) \in Seq(Rounds)
           /\ Len(Decided(rs, n, s)) = Len(rs)
           /\ Decided(rs, n, s) # <<>>
           /\ \A i \in 1..Len(rs) :
                 /\ Decided(rs, n, s)[i].attempt = rs[i].attempt
                 /\ Decided(rs, n, s)[i].revision = rs[i].revision
                 /\ i # n => Decided(rs, n, s)[i] = rs[i]
           /\ Decided(rs, n, s)[n].status = s
<1> DEFINE us == [rs EXCEPT ![n].status = s]
<1>1. rs \in [1..Len(rs) -> Rounds] /\ Len(rs) \in Nat
  OBVIOUS
<1>2. rs[n] \in Rounds /\ [rs[n] EXCEPT !.status = s] \in Rounds
  BY <1>1 DEF Rounds
<1>3. us \in [1..Len(rs) -> Rounds]
  BY <1>1, <1>2
<1>4. us \in Seq(Rounds) /\ Len(us) = Len(rs)
  BY <1>1, <1>3
<1>5. us # <<>>
  BY <1>4
<1>6. us[n].status = s /\ \A i \in 1..Len(rs) : i # n => us[i] = rs[i]
  BY <1>1, <1>2 DEF Rounds
<1>7. us[n].attempt = rs[n].attempt /\ us[n].revision = rs[n].revision
  BY <1>1, <1>2 DEF Rounds
<1>8. QED
  BY <1>4, <1>5, <1>6, <1>7 DEF Decided

LEMMA AbandonFacts ==
    ASSUME NEW g \in Gates, g.rounds # <<>>
    PROVE  /\ Abandon(g) \in Gates
           /\ Abandon(g).status = "blocked"
           /\ Abandon(g).lease = NoProc
           /\ Abandon(g).action = g.action
           /\ Len(Abandon(g).rounds) = Len(g.rounds)
           /\ Abandon(g).rounds # <<>>
           /\ \A i \in 1..Len(g.rounds) :
                 /\ Abandon(g).rounds[i].attempt = g.rounds[i].attempt
                 /\ Abandon(g).rounds[i].revision = g.rounds[i].revision
                 /\ g.rounds[i].status # "reviewing" =>
                       Abandon(g).rounds[i].status = g.rounds[i].status
<1> DEFINE n == Len(g.rounds)
           s == IF g.rounds[n].status = "reviewing" THEN "blocked"
                                                    ELSE g.rounds[n].status
           us == Decided(g.rounds, n, s)
<1>1. g.rounds \in Seq(Rounds) /\ n \in 1..Len(g.rounds)
  BY DEF Gates
<1>2. s \in Verdicts \cup {"reviewing"}
  <2>1. g.rounds[n] \in Rounds
    BY <1>1
  <2>2. QED
    BY <2>1 DEF Rounds, Verdicts
<1>3. /\ us \in Seq(Rounds) /\ Len(us) = Len(g.rounds) /\ us # <<>>
      /\ us[n].status = s
      /\ \A i \in 1..Len(g.rounds) :
            /\ us[i].attempt = g.rounds[i].attempt
            /\ us[i].revision = g.rounds[i].revision
            /\ i # n => us[i] = g.rounds[i]
  <2> HIDE DEF s, n
  <2>1. QED
    BY <1>1, <1>2, DecidedFacts
<1>4. Abandon(g) = [g EXCEPT !.status = "blocked", !.lease = NoProc, !.rounds = us]
  BY DEF Abandon, Last, Gates
<1> HIDE DEF us
<1>5. /\ Abandon(g) \in Gates
      /\ Abandon(g).status = "blocked" /\ Abandon(g).lease = NoProc
      /\ Abandon(g).action = g.action /\ Abandon(g).rounds = us
  BY <1>3, <1>4 DEF Gates, Statuses
<1>6. QED
  BY <1>1, <1>3, <1>5

LEMMA ReviewedFacts ==
    ASSUME NEW g \in Gates, NEW n \in 1..Len(g.rounds),
           NEW r \in Verdicts \cup {"error"}
    PROVE  /\ Reviewed(g, n, r) \in Gates
           /\ Reviewed(g, n, r).status = ReviewedStatus(r, n)
           /\ Reviewed(g, n, r).lease = NoProc
           /\ Reviewed(g, n, r).action = g.action
           /\ Len(Reviewed(g, n, r).rounds) = Len(g.rounds)
           /\ Reviewed(g, n, r).rounds # <<>>
           /\ Reviewed(g, n, r).rounds[n].status = RoundStatus(r)
           /\ \A i \in 1..Len(g.rounds) :
                 /\ Reviewed(g, n, r).rounds[i].attempt = g.rounds[i].attempt
                 /\ Reviewed(g, n, r).rounds[i].revision = g.rounds[i].revision
                 /\ i # n => Reviewed(g, n, r).rounds[i] = g.rounds[i]
<1> DEFINE s == RoundStatus(r)
           us == Decided(g.rounds, n, s)
<1>1. g.rounds \in Seq(Rounds)
  BY DEF Gates
<1>2. s \in Verdicts \cup {"reviewing"} /\ ReviewedStatus(r, n) \in Statuses
  BY DEF RoundStatus, Verdicts, ReviewedStatus, Statuses
<1>3. /\ us \in Seq(Rounds) /\ Len(us) = Len(g.rounds) /\ us # <<>>
      /\ us[n].status = s
      /\ \A i \in 1..Len(g.rounds) :
            /\ us[i].attempt = g.rounds[i].attempt
            /\ us[i].revision = g.rounds[i].revision
            /\ i # n => us[i] = g.rounds[i]
  <2> HIDE DEF s
  <2>1. QED
    BY <1>1, <1>2, DecidedFacts
<1>4. Reviewed(g, n, r) = [g EXCEPT !.status = ReviewedStatus(r, n),
                                    !.lease = NoProc, !.rounds = us]
  BY DEF Reviewed, Gates
<1> HIDE DEF us
<1>5. /\ Reviewed(g, n, r) \in Gates
      /\ Reviewed(g, n, r).status = ReviewedStatus(r, n)
      /\ Reviewed(g, n, r).lease = NoProc
      /\ Reviewed(g, n, r).action = g.action
      /\ Reviewed(g, n, r).rounds = us
  BY <1>2, <1>3, <1>4 DEF Gates
<1>6. QED
  BY <1>3, <1>5

LEMMA ReservedFacts ==
    ASSUME NEW g \in Gates, NEW p \in Procs, seen[p] \in Revisions
    PROVE  /\ Reserved(g, p) \in Gates
           /\ Reserved(g, p).status = "reviewing"
           /\ Reserved(g, p).lease = p
           /\ Reserved(g, p).action = g.action
           /\ Len(Reserved(g, p).rounds) = Len(g.rounds) + 1
           /\ Reserved(g, p).rounds # <<>>
           /\ Last(Reserved(g, p)) = [attempt |-> p, revision |-> seen[p],
                                      status |-> "reviewing"]
           /\ \A i \in 1..Len(g.rounds) :
                 Reserved(g, p).rounds[i] = g.rounds[i]
<1> DEFINE r == [attempt |-> p, revision |-> seen[p], status |-> "reviewing"]
<1>1. r \in Rounds
  BY DEF Rounds
<1>2. g.rounds \in Seq(Rounds)
  BY DEF Gates
<1>3. /\ Reserved(g, p).status = "reviewing" /\ Reserved(g, p).lease = p
      /\ Reserved(g, p).action = g.action
      /\ Reserved(g, p).rounds = Append(g.rounds, r)
  BY DEF Reserved, Gates
<1> HIDE DEF r
<1>4. /\ Append(g.rounds, r) \in Seq(Rounds)
      /\ Len(Append(g.rounds, r)) = Len(g.rounds) + 1
      /\ Append(g.rounds, r)[Len(g.rounds) + 1] = r
      /\ \A i \in 1..Len(g.rounds) : Append(g.rounds, r)[i] = g.rounds[i]
  BY <1>1, <1>2
<1>5. Reserved(g, p) \in Gates
  BY <1>3, <1>4 DEF Reserved, Gates, Statuses
<1>6. Append(g.rounds, r) # <<>>
  BY <1>4, <1>2
<1>7. QED
  BY <1>3, <1>4, <1>5, <1>6 DEF Last, r

(* The latest round of a gate that has one. *)
LEMMA LastFacts ==
    ASSUME NEW g \in Gates, g.rounds # <<>>
    PROVE  /\ Len(g.rounds) \in 1..Len(g.rounds)
           /\ Last(g) = g.rounds[Len(g.rounds)]
           /\ Last(g) \in Rounds
BY DEF Gates, Last

LEMMA NoGateFacts ==
    /\ NoGate \in Gates
    /\ NoGate.status = "none" /\ NoGate.rounds = <<>> /\ NoGate.lease = NoProc
    /\ NoGate.action = NoAction
    /\ NoAction \in Actions /\ NoAction.attempt = NoProc /\ NoAction.status = "none"
BY DEF NoGate, NoAction, Gates, Actions, Statuses, ActionStatuses

-----------------------------------------------------------------------------
(* Type correctness.  The gate's type needs the rest of the invariant: a   *)
(* verdict is only written to a round that exists.                         *)

LEMMA InitType == Init => TypeOK
<1> SUFFICES ASSUME Init PROVE TypeOK
  OBVIOUS
<1>1. artifact \in Artifacts
  BY DEF Init, Artifacts, PrStates
<1>2. /\ peer \in [Procs -> PeerStates]
      /\ pc \in [Procs -> PCs]
      /\ result \in [Procs -> Verdicts \cup {"error"} \cup ActionStatuses]
  BY DEF Init, PeerStates, PCs, ActionStatuses
<1>3. /\ expect \in [Procs -> Revisions \cup {NoRevision}]
      /\ seen \in [Procs -> Revisions \cup {NoRevision}]
      /\ snap \in [Procs -> Gates]
      /\ gate \in Gates
  BY NoGateFacts DEF Init
<1>4. certificate \in Revisions \cup {NoRevision} /\ requests \subseteq Requests
  BY DEF Init
<1>5. QED
  BY <1>1, <1>2, <1>3, <1>4 DEF TypeOK

(* What a write of gate.json does to the types. *)
LEMMA SaveType ==
    ASSUME TypeOK, NEW p \in Procs, NEW g \in Gates, NEW l \in PCs, Save(p, g, l),
           certificate' \in Revisions \cup {NoRevision},
           expect' \in [Procs -> Revisions \cup {NoRevision}],
           UNCHANGED world
    PROVE  TypeOK'
BY NoGateFacts DEF Save, Goto, Learn, TypeOK, world, ActionStatuses

LEMMA LeaveType ==
    ASSUME TypeOK, NEW p \in Procs, Leave(p),
           expect' \in [Procs -> Revisions \cup {NoRevision}],
           certificate' \in Revisions \cup {NoRevision}, UNCHANGED <<gate, world>>
    PROVE  TypeOK'
BY NoGateFacts DEF Leave, Goto, Learn, TypeOK, world, ActionStatuses, PCs

LEMMA RefuseType ==
    ASSUME TypeOK, NEW p \in Procs, Refuse(p)
    PROVE  TypeOK'
BY LeaveType DEF Refuse, TypeOK, world

(* What an invocation works from: the revision of the artifact it sees. *)
LEMMA RevisionType ==
    ASSUME TypeOK
    PROVE  Revision \in Revisions
BY DEF TypeOK, Artifacts, Revision, Revisions

LEMMA TypeStep ==
    ASSUME TypeOK, NEW p \in Procs, Known(p), LeaseOK, Step(p)
    PROVE  TypeOK'
<1>1. CASE NewGate(p)
  <2>1. [NoGate EXCEPT !.status = "ready"] \in Gates
    BY NoGateFacts DEF Gates, Statuses
  <2>2. expect' \in [Procs -> Revisions \cup {NoRevision}]
    BY <1>1 DEF NewGate, TypeOK
  <2>3. QED
    BY <1>1, <2>1, <2>2, SaveType DEF NewGate, TypeOK, PCs, Running
<1>2. CASE Continue(p)
  <2>1. expect' \in [Procs -> Revisions \cup {NoRevision}]
    BY <1>2 DEF Continue, TypeOK
  <2>2. gate.status = "reviewing" => Abandon(gate) \in Gates
    BY AbandonFacts DEF TypeOK, LeaseOK
  <2>3. CASE Leave(p) /\ UNCHANGED gate
    BY <1>2, <2>1, <2>3, LeaveType DEF Continue, TypeOK
  <2>4. CASE gate.status = "reviewing" /\ Save(p, Abandon(gate), "approve")
    BY <1>2, <2>1, <2>2, <2>4, SaveType DEF Continue, TypeOK, PCs, Running
  <2>5. CASE \E l \in {"done", "reconcile", "approve"} : Save(p, gate, l)
    BY <1>2, <2>1, <2>5, SaveType DEF Continue, TypeOK, PCs, Running
  <2>6. QED
    BY <1>2, <2>3, <2>4, <2>5 DEF Continue
<1>3. CASE Reconcile(p)
  BY <1>3, LeaveType DEF Reconcile, Goto, Learn, TypeOK, world, PCs, Running,
                         ActionStatuses
<1>4. CASE ReconcileQueue(p)
  BY <1>4, LeaveType DEF ReconcileQueue, Goto, Learn, TypeOK, world, PCs, Running,
                         ActionStatuses
<1>5. CASE SaveReconciled(p)
  <2>1. ReconciledStatus(result[p]) \in Statuses
    BY DEF ReconciledStatus, Statuses, ActionStates
  <2>2. pc[p] = "reconciled" => result[p] \in ActionStatuses
    BY DEF Known, LocalOK
  <2>3. pc[p] = "reconciled" =>
          SetAction(snap[p], ReconciledStatus(result[p]), result[p]) \in Gates
    BY <2>1, <2>2, SetActionFacts DEF TypeOK
  <2>4. QED
    BY <1>5, <2>3, SaveType, LeaveType DEF SaveReconciled, TypeOK, PCs, Running
<1>6. CASE MainApproves(p)
  BY <1>6, RefuseType DEF MainApproves, Goto, TypeOK, world, PCs, Running
<1>7. CASE Supersede(p)
  <2>1. [snap[p] EXCEPT !.status = "blocked", !.action = NoAction] \in Gates
    BY NoGateFacts DEF TypeOK, Gates, Statuses
  <2>2. QED
    BY <1>7, <2>1, SaveType, RefuseType DEF Supersede, TypeOK, PCs, Running
<1>8. CASE CaptureForReview(p)
  BY <1>8, RefuseType, RevisionType DEF CaptureForReview, Goto, TypeOK, world, PCs, Running
<1>9. CASE Reserve(p)
  <2>1. Reserved(gate, p) \in Gates
    BY <1>9, ReservedFacts DEF Reserve, Known, LocalOK, TypeOK
  <2>2. [gate EXCEPT !.status = "blocked"] \in Gates
    BY DEF TypeOK, Gates, Statuses
  <2>3. QED
    BY <1>9, <2>1, <2>2, SaveType, RefuseType DEF Reserve, TypeOK, PCs, Running
<1>10. CASE LaunchPeer(p)
  BY <1>10 DEF LaunchPeer, Goto, TypeOK, PeerStates, PCs, Running
<1>11. CASE SpawnDetached(p)
  BY <1>11 DEF SpawnDetached, TypeOK, PeerStates
<1>12. CASE Collect(p)
  BY <1>12 DEF Collect, Goto, Learn, TypeOK, world, PCs, Running
<1>13. CASE FinishReview(p)
  <2> DEFINE n == Len(snap[p].rounds)
  <2>1. n \in 1..Len(gate.rounds) /\ result[p] \in Verdicts \cup {"error"}
    BY <1>13, LastFacts DEF FinishReview, Known, ReviewerAlone, ReviewPhase, LeaseOK,
                            LocalOK, TypeOK
  <2>2. Reviewed(gate, n, result[p]) \in Gates
    BY <2>1, ReviewedFacts DEF TypeOK
  <2>3. QED
    BY <1>13, <2>2, SaveType, RefuseType DEF FinishReview, TypeOK, PCs, Running
<1>14. CASE CompleteAgreement(p)
  <2>1. [gate EXCEPT !.status = "completed",
              !.action = [NoAction EXCEPT !.status = "authorized"]] \in Gates
    BY NoGateFacts DEF TypeOK, Gates, Actions, Statuses, ActionStatuses
  <2>2. SameApproval(gate, snap[p]) => Last(snap[p]).revision \in Revisions
    BY LastFacts DEF SameApproval, Approved, TypeOK, Rounds
  <2>3. QED
    BY <1>14, <2>1, <2>2, SaveType, LeaveType, RefuseType
       DEF CompleteAgreement, TypeOK, PCs, Running
<1>15. CASE ReserveMerge(p)
  <2>1. [gate EXCEPT !.status = "action_attempting",
              !.action = [attempt |-> p, status |-> "prechecking"]] \in Gates
    BY DEF TypeOK, Gates, Actions, Statuses, ActionStates, ActionStatuses
  <2>2. QED
    BY <1>15, <2>1, SaveType, RefuseType DEF ReserveMerge, TypeOK, PCs, Running
<1>16. CASE Precheck(p)
  BY <1>16 DEF Precheck, Goto, Learn, TypeOK, world, PCs, Running, ActionStatuses
<1>17. CASE SaveAttempting(p)
  <2>1. SetAction(snap[p], "action_attempting", "attempting") \in Gates
    BY SetActionFacts DEF TypeOK, Statuses, ActionStates, ActionStatuses
  <2>2. QED
    BY <1>17, <2>1, SaveType, RefuseType DEF SaveAttempting, TypeOK, PCs, Running
<1>18. CASE Dispatch(p)
  <2>1. Last(snap[p]).revision.head \in Heads
    BY <1>18, LastFacts DEF Dispatch, Known, ActorOwnsRounds, ActPhase, Dispatching,
                            Approved, TypeOK, Rounds, Revisions
  <2>2. QED
    BY <1>18, <2>1 DEF Dispatch, Goto, TypeOK, Requests, PCs, Running
<1>19. CASE ReconcileDispatch(p)
  BY <1>19 DEF ReconcileDispatch, Goto, Learn, TypeOK, world, PCs, Running, ActionStatuses
<1>20. CASE ReconcileDispatchQueue(p)
  BY <1>20 DEF ReconcileDispatchQueue, Goto, Learn, TypeOK, world, PCs, Running,
               ActionStatuses
<1>21. CASE SaveAction(p)
  <2>1. ReconciledStatus(result[p]) \in Statuses
    BY DEF ReconciledStatus, Statuses, ActionStates
  <2>2. pc[p] = "act" => result[p] \in ActionStatuses
    BY DEF Known, LocalOK
  <2>3. pc[p] = "act" =>
          SetAction(snap[p], ReconciledStatus(result[p]), result[p]) \in Gates
    BY <2>1, <2>2, SetActionFacts DEF TypeOK
  <2>4. QED
    BY <1>21, <2>3, SaveType, RefuseType DEF SaveAction, TypeOK, PCs, Running
<1>22. QED
  BY <1>1, <1>2, <1>3, <1>4, <1>5, <1>6, <1>7, <1>8, <1>9, <1>10, <1>11, <1>12,
     <1>13, <1>14, <1>15, <1>16, <1>17, <1>18, <1>19, <1>20, <1>21 DEF Step

-----------------------------------------------------------------------------
(* A step of one invocation, as the others see it *)

OthersKept(p) ==
    /\ \A q \in Procs \ {p} :
          /\ pc'[q] = pc[q] /\ expect'[q] = expect[q] /\ seen'[q] = seen[q]
          /\ snap'[q] = snap[q] /\ result'[q] = result[q]
    /\ pc[p] # "done" /\ pc'[p] # "idle"
    /\ pc[p] # "idle" => expect'[p] = expect[p]
    /\ artifact' = artifact

(* What a write of gate.json may not touch. *)
RoundsKept ==
    /\ Len(gate.rounds) <= Len(gate'.rounds)
    /\ \A i \in 1..Len(gate.rounds) :
          /\ gate'.rounds[i].attempt = gate.rounds[i].attempt
          /\ gate'.rounds[i].revision = gate.rounds[i].revision
          /\ gate.rounds[i].status # "reviewing" =>
                gate'.rounds[i].status = gate.rounds[i].status

OutcomeKept == gate.status = "completed" =>
                   gate'.status = "completed" /\ gate'.rounds = gate.rounds

(* A write respects the reviewer at work and the invocation that acts. *)
Respects(q) ==
    /\ pc[q] \in ReviewPhase => gate' = gate
    /\ pc[q] \in ActPhase =>
          /\ Merged \/ gate'.action.attempt = q
          /\ gate'.action.attempt = q =>
                /\ gate.action.attempt = q
                /\ gate'.rounds = gate.rounds
                /\ gate'.lease = NoProc
                /\ \/ gate'.status \in {"action_attempting", "completed"}
                   \/ /\ gate'.status = "action_failed"
                      /\ gate'.action.status = "merged_revision_mismatch"

LEMMA Frame ==
    ASSUME TypeOK, NEW p \in Procs, Step(p) \/ Stop(p)
    PROVE  OthersKept(p)
<1> USE DEF OthersKept, TypeOK, Refuse, Leave, Save, Goto, Learn, world
<1>1. CASE NewGate(p)
  BY <1>1 DEF NewGate
<1>2. CASE Continue(p)
  BY <1>2 DEF Continue
<1>3. CASE Reconcile(p)
  BY <1>3 DEF Reconcile
<1>4. CASE ReconcileQueue(p)
  BY <1>4 DEF ReconcileQueue
<1>5. CASE SaveReconciled(p)
  BY <1>5 DEF SaveReconciled
<1>6. CASE MainApproves(p)
  BY <1>6 DEF MainApproves
<1>7. CASE Supersede(p)
  BY <1>7 DEF Supersede
<1>8. CASE CaptureForReview(p)
  BY <1>8 DEF CaptureForReview
<1>9. CASE Reserve(p)
  BY <1>9 DEF Reserve
<1>10. CASE LaunchPeer(p)
  BY <1>10 DEF LaunchPeer
<1>11. CASE SpawnDetached(p)
  BY <1>11 DEF SpawnDetached
<1>12. CASE Collect(p)
  BY <1>12 DEF Collect
<1>13. CASE FinishReview(p)
  BY <1>13 DEF FinishReview
<1>14. CASE CompleteAgreement(p)
  BY <1>14 DEF CompleteAgreement
<1>15. CASE ReserveMerge(p)
  BY <1>15 DEF ReserveMerge
<1>16. CASE Precheck(p)
  BY <1>16 DEF Precheck
<1>17. CASE SaveAttempting(p)
  BY <1>17 DEF SaveAttempting
<1>18. CASE Dispatch(p)
  BY <1>18 DEF Dispatch
<1>19. CASE ReconcileDispatch(p)
  BY <1>19 DEF ReconcileDispatch
<1>20. CASE ReconcileDispatchQueue(p)
  BY <1>20 DEF ReconcileDispatchQueue
<1>21. CASE SaveAction(p)
  BY <1>21 DEF SaveAction
<1>22. CASE Stop(p)
  BY <1>22 DEF Stop, Running
<1>23. QED
  BY <1>1, <1>2, <1>3, <1>4, <1>5, <1>6, <1>7, <1>8, <1>9, <1>10, <1>11, <1>12,
     <1>13, <1>14, <1>15, <1>16, <1>17, <1>18, <1>19, <1>20, <1>21, <1>22 DEF Step

(* Starting is for good, and so is ending. *)
LEMMA StaysOver ==
    ASSUME TypeOK, NEW p \in Procs, OthersKept(p), NEW x \in Procs \cup {NoProc}
    PROVE  /\ Started(x) => Started(x)'
           /\ Started(x) /\ ~LeaseLive(x) => ~LeaseLive(x)'
<1>1. CASE x = NoProc
  BY <1>1 DEF Started, LeaseLive
<1>2. CASE x # NoProc /\ x # p
  BY <1>2 DEF Started, LeaseLive, OthersKept
<1>3. CASE x # NoProc /\ x = p
  <2>1. pc[p] \in {"idle"} \cup Running
    BY DEF TypeOK, OthersKept, PCs
  <2>2. QED
    BY <1>3, <2>1 DEF Started, LeaseLive, OthersKept
<1>4. QED
  BY <1>1, <1>2, <1>3

LEMMA OthersKnown ==
    ASSUME TypeOK, NEW p \in Procs, OthersKept(p), NEW q \in Procs, q # p,
           Known(q), TypeOK', RoundsKept, gate' = gate \/ Respects(q)
    PROVE  Known(q)'
<1>1. /\ pc'[q] = pc[q] /\ expect'[q] = expect[q] /\ seen'[q] = seen[q]
      /\ snap'[q] = snap[q] /\ result'[q] = result[q]
      /\ artifact' = artifact
  BY DEF OthersKept
<1>2. snap[q].action.attempt \in Procs \cup {NoProc} /\ snap[q] \in Gates
  BY DEF TypeOK, Gates, Actions
<1>3. LocalOK(q)'
  <2>1. Started(snap[q].action.attempt)'
    BY <1>1, <1>2, StaysOver DEF Known, LocalOK, Started
  <2>2. QED
    BY <1>1, <2>1 DEF Known, LocalOK, Last
<1>4. ReviewerAlone(q)'
  BY <1>1 DEF Known, ReviewerAlone, Respects, Last
<1>5. SnapshotOK(q)'
  BY <1>1 DEF Known, SnapshotOK
<1>6. MergeKnown(q)'
  BY <1>1 DEF Known, MergeKnown, Merged, LandedAs, Last
<1>7. RecoveryOfDead(q)'
  <2>1. ~LeaseLive(snap[q].action.attempt) => ~LeaseLive(snap[q].action.attempt)'
    BY <1>2, <1>1, StaysOver DEF Known, LocalOK, LeaseLive
  <2>2. QED
    BY <1>1, <2>1 DEF Known, RecoveryOfDead
<1>8. ActorOwnsRounds(q)'
  <2>1. SUFFICES ASSUME pc[q] \in ActPhase PROVE ActorOwnsRounds(q)'
    BY <1>1 DEF ActorOwnsRounds
  <2> DEFINE n == Len(snap[q].rounds)
  <2>2. /\ snap[q].status = "action_attempting"
        /\ snap[q].action.attempt = q
        /\ snap[q].lease = NoProc
        /\ Approved(snap[q])
        /\ Last(snap[q]).revision = expect[q]
        /\ n <= Len(gate.rounds)
        /\ gate.rounds[n] = Last(snap[q])
    BY <2>1 DEF Known, ActorOwnsRounds
  <2>3. n \in 1..Len(gate.rounds)
    BY <2>2, LastFacts, <1>2 DEF TypeOK, Gates, Approved
  <2>4. /\ gate.rounds[n] \in Rounds /\ gate'.rounds[n] \in Rounds
        /\ Len(gate.rounds) \in Nat /\ Len(gate'.rounds) \in Nat
    BY <2>3 DEF TypeOK, Gates, RoundsKept
  <2>5. gate.rounds[n].status = "approve"
    BY <2>2 DEF Approved
  <2>6. gate'.rounds[n] = gate.rounds[n] /\ n <= Len(gate'.rounds)
    <3> HIDE DEF n
    <3>1. /\ gate'.rounds[n].attempt = gate.rounds[n].attempt
          /\ gate'.rounds[n].revision = gate.rounds[n].revision
          /\ gate'.rounds[n].status = gate.rounds[n].status
      BY <2>3, <2>5 DEF RoundsKept
    <3>2. gate'.rounds[n] = gate.rounds[n]
      BY <2>4, <3>1 DEF Rounds
    <3>3. n <= Len(gate'.rounds)
      BY <2>3, <2>4 DEF RoundsKept
    <3>4. QED
      BY <3>2, <3>3
  <2>7. CASE gate' = gate
    BY <1>1, <2>1, <2>7 DEF Known, ActorOwnsRounds, Approved, Last, Merged
  <2>8. CASE Respects(q)
    <3>1. (Merged \/ gate.action.attempt = q)'
      BY <1>1, <2>1, <2>8 DEF Respects, Merged
    <3>2. gate'.action.attempt = q =>
              /\ gate'.rounds = snap[q].rounds
              /\ gate'.lease = NoProc
              /\ \/ gate'.status \in {"action_attempting", "completed"}
                 \/ /\ gate'.status = "action_failed"
                    /\ gate'.action.status = "merged_revision_mismatch"
      BY <2>1, <2>8 DEF Respects, Known, ActorOwnsRounds
    <3>3. QED
      BY <1>1, <2>2, <2>6, <3>1, <3>2 DEF ActorOwnsRounds, Approved, Last
  <2>9. QED
    BY <2>7, <2>8
<1>9. QED
  BY <1>3, <1>4, <1>5, <1>6, <1>7, <1>8 DEF Known

(* Rounds, actions and requests keep their owners and what those attested. *)
LEMMA OwnersKept ==
    ASSUME TypeOK, NEW p \in Procs, OthersKept(p), NEW x \in Procs, Started(x)
    PROVE  Started(x)' /\ expect'[x] = expect[x]
BY StaysOver, GateAssumption DEF OthersKept, Started

LEMMA RequestsKept ==
    ASSUME TypeOK, TypeOK', NEW p \in Procs, OthersKept(p), OwnersStarted,
           RequestsApproved, RoundsKept, NEW r \in requests
    PROVE  /\ Started(r.by)'
           /\ expect'[r.by].head = r.head
           /\ \E i \in 1..Len(gate'.rounds) :
                 gate'.rounds[i].status = "approve" /\ gate'.rounds[i].revision.head = r.head
<1>1. r.by \in Procs /\ Started(r.by)
  BY DEF TypeOK, Requests, OwnersStarted
<1>2. PICK i \in 1..Len(gate.rounds) :
          gate.rounds[i].status = "approve" /\ gate.rounds[i].revision.head = r.head
  BY DEF RequestsApproved
<1>3. Len(gate.rounds) \in Nat /\ Len(gate'.rounds) \in Nat
  BY DEF TypeOK, Gates
<1>4. /\ i \in 1..Len(gate'.rounds)
      /\ gate'.rounds[i].status = "approve" /\ gate'.rounds[i].revision.head = r.head
  BY <1>2, <1>3 DEF RoundsKept
<1>5. QED
  BY <1>1, <1>4, OwnersKept DEF RequestsApproved

(* A step of one invocation preserves the invariant if it respects the      *)
(* others and leaves its own state and the gate in order.                   *)
LEMMA StepInv ==
    ASSUME IInv, TypeOK', NEW p \in Procs, OthersKept(p), RoundsKept,
           requests' = requests,
           pc'[p] \in Dispatching => pc[p] \in Dispatching,
           \A q \in Procs \ {p} : gate' = gate \/ Respects(q),
           LeaseOK', AgreementStands', CompletedMergeLanded', Known(p)',
           Started(gate.action.attempt)',
           gate'.action.status = "merged_revision_mismatch" => Merged,
           \A i \in 1..Len(gate'.rounds) : i > Len(gate.rounds) =>
               /\ gate'.rounds[i].attempt = p
               /\ gate'.rounds[i].revision = expect'[p]
    PROVE  IInv'
<1>1. \A q \in Procs : Known(q)'
  BY OthersKnown DEF IInv
<1>2. \A i \in 1..Len(gate'.rounds) :
          /\ Started(gate.rounds[i].attempt)'
          /\ gate'.rounds[i].revision = expect'[gate'.rounds[i].attempt]
  <2> SUFFICES ASSUME NEW i \in 1..Len(gate'.rounds)
               PROVE  /\ Started(gate.rounds[i].attempt)'
                      /\ gate'.rounds[i].revision = expect'[gate'.rounds[i].attempt]
    OBVIOUS
  <2>1. Len(gate.rounds) \in Nat /\ Len(gate'.rounds) \in Nat
    BY DEF TypeOK, Gates
  <2>2. CASE i > Len(gate.rounds)
    BY <2>2 DEF OthersKept, Started
  <2>3. CASE i \in 1..Len(gate.rounds)
    <3>1. gate'.rounds[i].attempt = gate.rounds[i].attempt
      BY <2>3 DEF RoundsKept
    <3>2. gate'.rounds[i].revision = expect[gate.rounds[i].attempt]
      BY <2>3 DEF RoundsKept, IInv, GateOK, RoundsAttested
    <3>3. gate.rounds[i].attempt \in Procs
      <4>1. gate.rounds[i] \in Rounds
        BY <2>3 DEF IInv, TypeOK, Gates
      <4>2. QED
        BY <4>1 DEF Rounds
    <3>4. Started(gate.rounds[i].attempt)
      BY <2>3 DEF IInv, GateOK, OwnersStarted
    <3>5. /\ Started(gate.rounds[i].attempt)'
          /\ expect'[gate.rounds[i].attempt] = expect[gate.rounds[i].attempt]
      <4>1. \A y \in Procs : Started(y) => /\ y # NoProc => pc'[y] # "idle"
                                           /\ expect'[y] = expect[y]
        BY OwnersKept DEF IInv, Started
      <4>2. QED
        BY <3>1, <3>3, <3>4, <4>1 DEF Started
    <3>6. QED
      BY <3>1, <3>2, <3>5 DEF Started
  <2>4. QED
    BY <2>1, <2>2, <2>3
<1>3. \A r \in requests :
          /\ Started(r.by)'
          /\ expect'[r.by].head = r.head
          /\ \E i \in 1..Len(gate'.rounds) :
                gate'.rounds[i].status = "approve" /\ gate'.rounds[i].revision.head = r.head
  BY RequestsKept DEF IInv, GateOK
<1>4. OwnersStarted'
  BY <1>2, <1>3 DEF OwnersStarted, Started
<1>5. RoundsAttested' /\ RequestsApproved'
  BY <1>2, <1>3 DEF RoundsAttested, RequestsApproved
<1>6. LandedOnce'
  BY DEF IInv, GateOK, LandedOnce, Merged, OthersKept
<1>7. OneDispatching'
  BY DEF IInv, GateOK, OneDispatching, OthersKept
<1>8. QED
  BY <1>1, <1>4, <1>5, <1>6, <1>7 DEF IInv, GateOK

(* A step that writes nothing only has to leave its own state in order. *)
LEMMA QuietInv ==
    ASSUME IInv, TypeOK', NEW p \in Procs, OthersKept(p),
           gate' = gate, requests' = requests,
           pc'[p] \in Dispatching => pc[p] \in Dispatching, Known(p)'
    PROVE  IInv'
<1>1. RoundsKept
  BY DEF RoundsKept, IInv, TypeOK, Gates
<1>2. LeaseOK' /\ AgreementStands'
  BY DEF IInv, GateOK, LeaseOK, AgreementStands, Approved, Last
<1>3. CompletedMergeLanded'
  BY DEF IInv, GateOK, CompletedMergeLanded, OthersKept, Last
<1>4. gate.action.attempt \in Procs \cup {NoProc}
  BY DEF IInv, TypeOK, Gates, Actions
<1>5. Started(gate.action.attempt)'
  BY <1>4, StaysOver DEF IInv, GateOK, OwnersStarted, Started
<1>6. gate'.action.status = "merged_revision_mismatch" => Merged
  BY DEF IInv, GateOK, LandedOnce
<1>7. \A i \in 1..Len(gate'.rounds) : ~(i > Len(gate.rounds))
  BY DEF IInv, TypeOK, Gates
<1>8. QED
  BY <1>1, <1>2, <1>3, <1>5, <1>6, <1>7, StepInv

-----------------------------------------------------------------------------
(* The beginning, the peer's runner, and the outside world *)

LEMMA InitInv == Init => IInv
<1> SUFFICES ASSUME Init PROVE IInv
  OBVIOUS
<1>1. TypeOK
  BY InitType
<1>2. LeaseOK /\ OwnersStarted /\ OneDispatching
  BY NoGateFacts DEF Init, LeaseOK, OwnersStarted, OneDispatching, Dispatching, Started
<1>3. LandedOnce
  BY NoGateFacts DEF Init, LandedOnce, Merged
<1>4. RoundsAttested /\ AgreementStands /\ CompletedMergeLanded /\ RequestsApproved
  BY NoGateFacts DEF Init, RoundsAttested, AgreementStands, CompletedMergeLanded,
                     RequestsApproved, ActionStates
<1>5. ASSUME NEW p \in Procs PROVE Known(p)
  <2>1. pc[p] = "idle" /\ snap[p] = NoGate
    BY DEF Init
  <2>2. QED
    BY <2>1, NoGateFacts
       DEF Known, LocalOK, ReviewerAlone, SnapshotOK, MergeKnown, RecoveryOfDead,
           ActorOwnsRounds, Started, ReviewPhase, ContinuePhase, ReconcilePhase,
           ActPhase, Dispatching
<1>6. QED
  BY <1>1, <1>2, <1>3, <1>4, <1>5 DEF IInv, GateOK

(* A step of the peer's runner, or a stutter, changes nothing the invariant *)
(* speaks of.                                                               *)
LEMMA PeerInv ==
    ASSUME IInv, TypeOK',
           UNCHANGED <<gate, artifact, requests, pc, expect, seen, snap, result>>
    PROVE  IInv'
<1>1. GateOK'
  BY DEF IInv, GateOK, LeaseOK, OwnersStarted, LandedOnce, OneDispatching,
         RoundsAttested, AgreementStands, CompletedMergeLanded, RequestsApproved,
         Started, Merged, Approved, Last
<1>2. ASSUME NEW q \in Procs PROVE Known(q)'
  BY DEF IInv, Known, LocalOK, ReviewerAlone, SnapshotOK, MergeKnown,
         RecoveryOfDead, ActorOwnsRounds, Started, Merged, LandedAs, LeaseLive,
         Approved, Last
<1>3. QED
  BY <1>1, <1>2 DEF IInv

(* What the world can do to the pull request. *)
LEMMA WorldFacts ==
    ASSUME TypeOK, LandedOnce, World
    PROVE  /\ TypeOK'
           /\ Merged => artifact' = artifact
           /\ LandedOnce'
           /\ requests' \subseteq requests
           /\ Outside
<1> USE DEF TypeOK, Artifacts, PrStates, Merged, LandedOnce, Outside
<1>1. Landing \in Artifacts /\ Landing.state = "MERGED" /\ Landing.landed \in Revisions
  BY RevisionType DEF Landing
<1>2. Landing.landed # NoRevision
  BY <1>1, GateAssumption
<1>3. CASE Push
  BY <1>3 DEF Push
<1>4. CASE BaseMoves
  BY <1>4 DEF BaseMoves
<1>5. CASE CloseOrReopen
  BY <1>5 DEF CloseOrReopen
<1>6. CASE MergedByOthers
  BY <1>1, <1>2, <1>6 DEF MergedByOthers, IsOpenPr
<1>7. CASE QueueDecides
  BY <1>1, <1>2, <1>7 DEF QueueDecides, IsOpenPr
<1>8. CASE \E r \in requests : DecideRequest(r)
  BY <1>1, <1>2, <1>8 DEF DecideRequest, IsOpenPr
<1>9. QED
  BY <1>3, <1>4, <1>5, <1>6, <1>7, <1>8 DEF World

LEMMA WorldInv ==
    ASSUME IInv, World
    PROVE  IInv'
<1>1. /\ TypeOK' /\ LandedOnce' /\ requests' \subseteq requests
      /\ Merged => artifact' = artifact
      /\ UNCHANGED <<gate, certificate, peer, pc, expect, seen, snap, result>>
  BY WorldFacts DEF IInv, GateOK, Outside
<1>2. CompletedMergeLanded'
  BY <1>1 DEF IInv, GateOK, CompletedMergeLanded, Merged, Last
<1>3. GateOK'
  BY <1>1, <1>2 DEF IInv, GateOK, LeaseOK, OwnersStarted, OneDispatching,
         RoundsAttested, AgreementStands, RequestsApproved, Started, Approved, Last
<1>4. ASSUME NEW q \in Procs PROVE Known(q)'
  <2>1. LocalOK(q)' /\ ReviewerAlone(q)' /\ SnapshotOK(q)' /\ RecoveryOfDead(q)'
    BY <1>1 DEF IInv, Known, LocalOK, ReviewerAlone, SnapshotOK, RecoveryOfDead,
                Started, LeaseLive, Last
  <2>2. MergeKnown(q)'
    BY <1>1 DEF IInv, Known, MergeKnown, MergeSeen, Merged, LandedAs, Last
  <2>3. ActorOwnsRounds(q)'
    BY <1>1 DEF IInv, Known, ActorOwnsRounds, Merged, Approved, Last
  <2>4. QED
    BY <2>1, <2>2, <2>3 DEF Known
<1>5. QED
  BY <1>1, <1>3, <1>4 DEF IInv

-----------------------------------------------------------------------------
(* Steps that write nothing *)

(* An invocation that is over relies on nothing. *)
LEMMA DoneKnown ==
    ASSUME NEW p \in Procs, pc'[p] = "done", snap'[p] = NoGate
    PROVE  Known(p)'
BY NoGateFacts
   DEF Known, LocalOK, ReviewerAlone, SnapshotOK, MergeKnown, RecoveryOfDead,
       ActorOwnsRounds, Started, ReviewPhase, ContinuePhase, ReconcilePhase,
       ActPhase, Dispatching

(* Between the phases, it only relies on the action it has seen. *)
LEMMA PlainKnown ==
    ASSUME NEW p \in Procs,
           pc'[p] \in {"review", "agree", "merge"},
           pc'[p] # "review" => Last(snap'[p]).revision = expect'[p],
           Started(snap[p].action.attempt)',
           snap'[p].action.status = "merged_revision_mismatch" => Merged'
    PROVE  Known(p)'
BY DEF Known, LocalOK, ReviewerAlone, SnapshotOK, MergeKnown, RecoveryOfDead,
       ActorOwnsRounds, Last, ReviewPhase, ContinuePhase, ReconcilePhase,
       ActPhase, Dispatching

LEMMA LeaveInv ==
    ASSUME IInv, TypeOK', NEW p \in Procs, OthersKept(p), Leave(p),
           gate' = gate, requests' = requests
    PROVE  IInv'
<1>1. pc'[p] = "done" /\ snap'[p] = NoGate
  BY DEF Leave, Goto, IInv, TypeOK
<1>2. QED
  BY <1>1, DoneKnown, QuietInv DEF Dispatching

LEMMA RefuseInv ==
    ASSUME IInv, NEW p \in Procs, OthersKept(p), Refuse(p)
    PROVE  IInv'
BY RefuseType, LeaveInv DEF IInv, Refuse, world

(* What a step of p that keeps its snapshot also keeps. *)
LEMMA SnapStarted ==
    ASSUME TypeOK, NEW p \in Procs, OthersKept(p), Known(p), snap'[p] = snap[p]
    PROVE  Started(snap[p].action.attempt)'
<1>1. snap[p].action.attempt \in Procs \cup {NoProc}
  BY DEF TypeOK, Gates, Actions
<1>2. QED
  BY <1>1, StaysOver DEF Known, LocalOK, Started

LEMMA ReconcileInv ==
    ASSUME IInv, NEW p \in Procs, OthersKept(p), TypeOK', Reconcile(p)
    PROVE  IInv'
<1>1. gate' = gate /\ requests' = requests /\ artifact' = artifact
      /\ pc[p] = "reconcile" /\ Known(p)
  BY DEF IInv, Reconcile, world
<1>2. CASE Leave(p)
  BY <1>1, <1>2, LeaveInv
<1>3. CASE ~Leave(p)
  <2>1. /\ snap'[p] = snap[p] /\ expect' = expect
        /\ pc'[p] \in {"reconciled", "queue"}
        /\ pc'[p] = "reconciled" => result'[p] \in MergeSeen \cup {"blocked"}
    BY <1>1, <1>3 DEF Reconcile, Goto, Learn, IInv, TypeOK, MergeSeen
  <2>2. Started(snap[p].action.attempt)'
    BY <1>1, <2>1, SnapStarted DEF IInv
  <2>3. LocalOK(p)' /\ ReviewerAlone(p)' /\ ActorOwnsRounds(p)'
    BY <2>1, <2>2 DEF LocalOK, ReviewerAlone, ReviewPhase, ActorOwnsRounds, ActPhase,
                      Dispatching, MergeSeen, ActionStatuses
  <2>4. SnapshotOK(p)'
    BY <1>1, <2>1 DEF Known, SnapshotOK, ContinuePhase, ReconcilePhase
  <2>5. MergeKnown(p)'
    BY <1>1, <1>3, <2>1 DEF Known, MergeKnown, Reconcile, Goto, Learn, IInv, TypeOK,
                            Merged, MergeSeen, LandedAs, Last
  <2>6. RecoveryOfDead(p)'
    <3>1. Merged \/ (snap[p].status = "action_attempting" =>
                        ~LeaseLive(snap[p].action.attempt))
      BY <1>1, <1>3 DEF Reconcile, Merged
    <3>2. CASE Merged
      BY <1>1, <1>3, <2>1, <3>2 DEF RecoveryOfDead, Reconcile, Merged, MergeSeen, Goto,
                                    Learn, IInv, TypeOK
    <3>3. CASE ~Merged
      <4>1. snap[p].action.status # "merged_revision_mismatch"
        BY <1>1, <3>3 DEF Known, MergeKnown
      <4>2. snap[p].action.attempt \in Procs \cup {NoProc}
        BY DEF IInv, TypeOK, Gates, Actions
      <4>3. snap[p].status = "action_attempting" =>
                ~LeaseLive(snap[p].action.attempt)'
        BY <1>1, <2>1, <3>1, <3>3, <4>2, StaysOver
           DEF Known, LocalOK, IInv, LeaseLive
      <4>4. QED
        BY <2>1, <4>1, <4>3 DEF RecoveryOfDead
    <3>4. QED
      BY <3>2, <3>3
  <2>7. QED
    BY <1>1, <2>1, <2>3, <2>4, <2>5, <2>6, QuietInv DEF Known, Dispatching
<1>4. QED
  BY <1>2, <1>3

LEMMA ReconcileQueueInv ==
    ASSUME IInv, NEW p \in Procs, OthersKept(p), TypeOK', ReconcileQueue(p)
    PROVE  IInv'
<1>1. gate' = gate /\ requests' = requests /\ artifact' = artifact
      /\ pc[p] = "queue" /\ Known(p)
  BY DEF IInv, ReconcileQueue, world
<1>2. CASE Leave(p)
  BY <1>1, <1>2, LeaveInv
<1>3. CASE ~Leave(p)
  <2>1. /\ snap'[p] = snap[p] /\ expect' = expect
        /\ pc'[p] \in {"reconciled", "approve"}
        /\ pc'[p] = "reconciled" => result'[p] \in {"queued", "interrupted", "dequeued"}
    BY <1>1, <1>3 DEF ReconcileQueue, Goto, Learn, IInv, TypeOK
  <2>2. Started(snap[p].action.attempt)'
    BY <1>1, <2>1, SnapStarted DEF IInv
  <2>3. LocalOK(p)' /\ ReviewerAlone(p)' /\ ActorOwnsRounds(p)'
    BY <2>1, <2>2 DEF LocalOK, ReviewerAlone, ReviewPhase, ActorOwnsRounds, ActPhase,
                      Dispatching, ActionStatuses
  <2>4. SnapshotOK(p)' /\ MergeKnown(p)'
    BY <1>1, <2>1 DEF Known, SnapshotOK, ContinuePhase, ReconcilePhase, MergeKnown,
                      Merged, MergeSeen
  <2>5. RecoveryOfDead(p)'
    <3>1. snap[p].action.attempt \in Procs \cup {NoProc}
      BY DEF IInv, TypeOK, Gates, Actions
    <3>2. snap[p].status = "action_attempting" => ~LeaseLive(snap[p].action.attempt)'
      BY <1>1, <2>1, <3>1, StaysOver DEF Known, RecoveryOfDead, LocalOK, IInv, LeaseLive
    <3>3. QED
      BY <1>1, <2>1, <3>2 DEF Known, RecoveryOfDead
  <2>6. QED
    BY <1>1, <2>1, <2>3, <2>4, <2>5, QuietInv DEF Known, Dispatching
<1>4. QED
  BY <1>2, <1>3

LEMMA MainApprovesInv ==
    ASSUME IInv, NEW p \in Procs, OthersKept(p), TypeOK', MainApproves(p)
    PROVE  IInv'
<1>1. CASE Refuse(p)
  BY <1>1, RefuseInv
<1>2. CASE ~Refuse(p)
  <2>1. /\ UNCHANGED <<gate, certificate, world, expect, seen, snap, result>>
        /\ pc[p] = "approve" /\ Known(p)
        /\ pc'[p] \in {"review", "supersede", "agree", "merge"}
        /\ pc'[p] \in {"agree", "merge"} => Last(snap[p]).revision = expect[p]
    <3>1. /\ UNCHANGED <<gate, certificate, world, expect, seen, snap, result>>
          /\ pc[p] = "approve"
      BY <1>2 DEF MainApproves
    <3>2. /\ pc'[p] \in {"review", "supersede", "agree", "merge"}
          /\ pc'[p] \in {"agree", "merge"} => SameRevision(p)
      BY <1>2 DEF MainApproves, Goto, IInv, TypeOK, SameRevision
    <3>3. QED
      BY <3>1, <3>2 DEF SameRevision, IInv
  <2>2. Started(snap[p].action.attempt)'
    BY <2>1, SnapStarted DEF IInv
  <2>3. snap'[p].action.status = "merged_revision_mismatch" => Merged'
    BY <2>1 DEF Known, MergeKnown, Merged, world
  <2>4. CASE pc'[p] = "supersede"
    <3>1. SnapshotOK(p)'
      BY <1>2, <2>1, <2>4 DEF Known, SnapshotOK, ContinuePhase, ReconcilePhase,
                              MainApproves, RetryableAction, Goto, IInv, TypeOK
    <3>2. Known(p)'
      BY <2>1, <2>2, <2>3, <2>4, <3>1
         DEF Known, LocalOK, ReviewerAlone, MergeKnown, RecoveryOfDead, ActorOwnsRounds,
             ReviewPhase, ActPhase, Dispatching
    <3>3. QED
      BY <2>1, <2>4, <3>2, QuietInv DEF world, Dispatching
  <2>5. CASE pc'[p] # "supersede"
    <3>1. Known(p)'
      BY <2>1, <2>2, <2>3, <2>5, PlainKnown DEF Last
    <3>2. QED
      BY <2>1, <2>5, <3>1, QuietInv DEF world, Dispatching
  <2>6. QED
    BY <2>4, <2>5
<1>3. QED
  BY <1>1, <1>2

LEMMA CaptureForReviewInv ==
    ASSUME IInv, NEW p \in Procs, OthersKept(p), TypeOK', CaptureForReview(p)
    PROVE  IInv'
<1>1. CASE Refuse(p)
  BY <1>1, RefuseInv
<1>2. CASE ~Refuse(p)
  <2>1. /\ UNCHANGED <<gate, certificate, world, expect, snap, result>>
        /\ pc'[p] = "reserve" /\ Known(p)
        /\ seen'[p] = Revision /\ expect[p] = Revision
    BY <1>2 DEF CaptureForReview, Goto, IInv, TypeOK, Attested
  <2>2. Started(snap[p].action.attempt)'
    BY <2>1, SnapStarted DEF IInv
  <2>3. LocalOK(p)'
    BY <2>1, <2>2, RevisionType DEF LocalOK, IInv
  <2>4. Known(p)'
    BY <2>1, <2>3
       DEF Known, ReviewerAlone, SnapshotOK, MergeKnown, RecoveryOfDead, ActorOwnsRounds,
           ReviewPhase, ContinuePhase, ReconcilePhase, ActPhase, Dispatching, Merged, world
  <2>5. QED
    BY <2>1, <2>4, QuietInv DEF world, Dispatching
<1>3. QED
  BY <1>1, <1>2

(* The reviewer's own steps up to the verdict. *)
LEMMA ReviewerInv ==
    ASSUME IInv, NEW p \in Procs, OthersKept(p), TypeOK',
           LaunchPeer(p) \/ SpawnDetached(p) \/ Collect(p)
    PROVE  IInv'
<1>1. /\ UNCHANGED <<gate, artifact, requests, expect, snap>>
      /\ pc[p] \in ReviewPhase /\ pc'[p] \in {"waiting", "reviewed"} /\ Known(p)
      /\ pc'[p] = "reviewed" => result'[p] \in Verdicts \cup {"error"}
  BY DEF LaunchPeer, SpawnDetached, Collect, Goto, Learn, IInv, TypeOK, world, ReviewPhase
<1>2. Started(snap[p].action.attempt)'
  BY <1>1, SnapStarted DEF IInv
<1>3. LocalOK(p)'
  BY <1>1, <1>2 DEF LocalOK
<1>4. ReviewerAlone(p)'
  BY <1>1 DEF Known, ReviewerAlone, ReviewPhase, Last
<1>5. Known(p)'
  BY <1>1, <1>3, <1>4
     DEF Known, SnapshotOK, MergeKnown, RecoveryOfDead, ActorOwnsRounds,
         ContinuePhase, ReconcilePhase, ActPhase, Dispatching, Merged
<1>6. QED
  BY <1>1, <1>5, QuietInv DEF Dispatching

(* Its own steps keep an actor's claim on the gate. *)
LEMMA ActorKept ==
    ASSUME IInv, NEW p \in Procs, OthersKept(p), pc[p] \in ActPhase, pc'[p] \in ActPhase,
           gate' = gate, snap' = snap,
           pc'[p] = "act" => /\ result'[p] \in ActionStatuses
                             /\ result'[p] \in MergeSeen => Merged
                             /\ result'[p] = "merged" => LandedAs(Last(snap[p]).revision)
    PROVE  Known(p)'
<1>1. Known(p) /\ artifact' = artifact /\ expect'[p] = expect[p]
  BY DEF IInv, OthersKept, ActPhase, Dispatching
<1>2. Started(snap[p].action.attempt)'
  BY <1>1, SnapStarted DEF IInv
<1>3. LocalOK(p)'
  BY <1>2 DEF LocalOK, ActPhase, Dispatching
<1>4. ActorOwnsRounds(p)'
  BY <1>1 DEF Known, ActorOwnsRounds, Merged, Approved, Last
<1>5. MergeKnown(p)'
  BY <1>1 DEF Known, MergeKnown, ActPhase, Dispatching, Merged, LandedAs, Last
<1>6. ReviewerAlone(p)' /\ SnapshotOK(p)' /\ RecoveryOfDead(p)'
  BY DEF ReviewerAlone, SnapshotOK, RecoveryOfDead, ActPhase, Dispatching, ReviewPhase,
         ContinuePhase, ReconcilePhase
<1>7. QED
  BY <1>3, <1>4, <1>5, <1>6 DEF Known

LEMMA OwnersStartedStill ==
    ASSUME IInv, NEW p \in Procs, OthersKept(p), gate' = gate,
           \A r \in requests' : r \in requests \/ r.by = p
    PROVE  OwnersStarted'
<1>1. \A x \in Procs \cup {NoProc} : Started(x) => (x # NoProc => pc'[x] # "idle")
  BY StaysOver DEF IInv, Started
<1>2. gate.action.attempt \in Procs \cup {NoProc}
  BY DEF IInv, TypeOK, Gates, Actions
<1>3. \A i \in 1..Len(gate.rounds) : gate.rounds[i].attempt \in Procs
  <2>1. \A i \in 1..Len(gate.rounds) : gate.rounds[i] \in Rounds
    BY DEF IInv, TypeOK, Gates
  <2>2. QED
    BY <2>1 DEF Rounds
<1>4. \A r \in requests : r.by \in Procs
  BY DEF IInv, TypeOK, Requests
<1>5. QED
  BY <1>1, <1>2, <1>3, <1>4 DEF IInv, GateOK, OwnersStarted, Started, OthersKept

LEMMA PrecheckInv ==
    ASSUME IInv, NEW p \in Procs, OthersKept(p), TypeOK', Precheck(p)
    PROVE  IInv'
<1>1. /\ UNCHANGED <<gate, certificate, world, expect, seen, snap>>
      /\ pc[p] = "precheck" /\ pc'[p] \in {"dispatch", "act"}
      /\ pc'[p] = "dispatch" => artifact.state = "OPEN"
      /\ pc'[p] = "act" => result'[p] = "blocked"
  BY DEF Precheck, Goto, Learn, IInv, TypeOK
<1>2. Known(p)'
  BY <1>1, ActorKept DEF ActPhase, Dispatching, ActionStatuses, MergeSeen
<1>3. CASE pc'[p] = "act"
  BY <1>1, <1>2, <1>3, QuietInv DEF world, Dispatching
<1>4. CASE pc'[p] = "dispatch"
  <2>1. gate.action.attempt = p
    BY <1>1, <1>4 DEF IInv, Known, ActorOwnsRounds, ActPhase, Merged
  <2>2. \A q \in Procs \ {p} : pc[q] \notin Dispatching
    BY <1>1, <1>4, <2>1 DEF IInv, Known, ActorOwnsRounds, ActPhase, Merged
  <2>3. OneDispatching'
    BY <2>2 DEF OneDispatching, OthersKept
  <2>4. \A q \in Procs \ {p} : Known(q)'
    <3>1. RoundsKept
      BY <1>1 DEF RoundsKept, IInv, TypeOK, Gates
    <3>2. QED
      BY <1>1, <3>1, OthersKnown DEF IInv
  <2>5. GateOK'
    <3>1. LeaseOK' /\ LandedOnce' /\ RoundsAttested' /\ AgreementStands'
          /\ CompletedMergeLanded' /\ RequestsApproved'
      BY <1>1 DEF IInv, GateOK, LeaseOK, LandedOnce, RoundsAttested, AgreementStands,
                  CompletedMergeLanded, RequestsApproved, Merged, Approved, Last, world
    <3>2. OwnersStarted'
      BY <1>1, OwnersStartedStill DEF world
    <3>3. QED
      BY <2>3, <3>1, <3>2 DEF GateOK
  <2>6. QED
    BY <1>2, <2>4, <2>5 DEF IInv
<1>5. QED
  BY <1>1, <1>3, <1>4

LEMMA DispatchInv ==
    ASSUME IInv, NEW p \in Procs, OthersKept(p), TypeOK', Dispatch(p)
    PROVE  IInv'
<1> DEFINE r == [by |-> p, head |-> Last(snap[p]).revision.head]
<1>1. /\ UNCHANGED <<gate, certificate, artifact, peer, expect, seen, snap, result>>
      /\ pc[p] = "attempt" /\ pc'[p] = "sent" /\ requests' \subseteq requests \cup {r}
  BY DEF Dispatch, Goto, IInv, TypeOK
<1>2. Known(p)'
  BY <1>1, ActorKept DEF ActPhase, Dispatching
<1>3. \A q \in Procs \ {p} : Known(q)'
  <2>1. RoundsKept
    BY <1>1 DEF RoundsKept, IInv, TypeOK, Gates
  <2>2. QED
    BY <1>1, <2>1, OthersKnown DEF IInv
<1>4. /\ expect[p].head = r.head
      /\ \E i \in 1..Len(gate.rounds) :
            gate.rounds[i].status = "approve" /\ gate.rounds[i].revision.head = r.head
  <2> DEFINE n == Len(snap[p].rounds)
  <2>1. /\ Approved(snap[p]) /\ Last(snap[p]).revision = expect[p]
        /\ n <= Len(gate.rounds) /\ gate.rounds[n] = Last(snap[p])
    BY <1>1 DEF IInv, Known, ActorOwnsRounds, ActPhase, Dispatching
  <2>2. n \in 1..Len(gate.rounds)
    BY <2>1, LastFacts DEF IInv, TypeOK, Gates, Approved
  <2>3. QED
    BY <2>1, <2>2 DEF Approved
<1>5. RequestsApproved'
  BY <1>1, <1>4 DEF IInv, GateOK, RequestsApproved
<1>6. OwnersStarted'
  BY <1>1, OwnersStartedStill
<1>7. GateOK'
  BY <1>1, <1>5, <1>6
     DEF IInv, GateOK, LeaseOK, LandedOnce, OneDispatching, Dispatching, RoundsAttested,
         AgreementStands, CompletedMergeLanded, Merged, Approved, Last, OthersKept
<1>8. QED
  BY <1>2, <1>3, <1>7 DEF IInv

LEMMA ReconcileDispatchInv ==
    ASSUME IInv, NEW p \in Procs, OthersKept(p), TypeOK',
           ReconcileDispatch(p) \/ ReconcileDispatchQueue(p)
    PROVE  IInv'
<1>1. /\ UNCHANGED <<gate, certificate, world, expect, seen, snap>>
      /\ pc[p] \in {"sent", "postqueue"} /\ pc'[p] \in {"postqueue", "act"}
      /\ pc'[p] = "act" => /\ result'[p] \in ActionStatuses
                           /\ result'[p] \in MergeSeen => Merged
                           /\ result'[p] = "merged" => LandedAs(Last(snap[p]).revision)
  BY DEF ReconcileDispatch, ReconcileDispatchQueue, Goto, Learn, IInv, TypeOK,
         ActionStatuses, MergeSeen, Merged
<1>2. Known(p)'
  BY <1>1, ActorKept DEF ActPhase, Dispatching
<1>3. QED
  BY <1>1, <1>2, QuietInv DEF world, Dispatching

-----------------------------------------------------------------------------
(* Steps that write gate.json *)

(* What the gate looks like to an invocation that may not be overruled. *)
LEMMA Reviewing ==
    ASSUME IInv, NEW q \in Procs, pc[q] \in ReviewPhase
    PROVE  gate.status = "reviewing" /\ gate.lease = q /\ LeaseLive(q)
BY GateAssumption DEF IInv, Known, ReviewerAlone, ReviewPhase, LeaseLive, Running

LEMMA Acting ==
    ASSUME IInv, NEW q \in Procs, pc[q] \in ActPhase
    PROVE  /\ LeaseLive(q)
           /\ Merged \/ gate.action.attempt = q
           /\ gate.action.attempt = q =>
                 /\ gate.rounds = snap[q].rounds
                 /\ gate.lease = NoProc
                 /\ \/ gate.status \in {"action_attempting", "completed"}
                    \/ /\ gate.status = "action_failed"
                       /\ gate.action.status = "merged_revision_mismatch"
                       /\ Merged
BY GateAssumption DEF IInv, GateOK, LandedOnce, Known, ActorOwnsRounds, ActPhase,
                      Dispatching, LeaseLive, Running

LEMMA SameRounds ==
    ASSUME TypeOK, gate'.rounds = gate.rounds
    PROVE  /\ RoundsKept
           /\ \A i \in 1..Len(gate'.rounds) : ~(i > Len(gate.rounds))
BY DEF RoundsKept, TypeOK, Gates

LEMMA NewGateInv ==
    ASSUME IInv, NEW p \in Procs, OthersKept(p), TypeOK', NewGate(p)
    PROVE  IInv' /\ RoundsKept /\ OutcomeKept
<1>1. /\ gate = NoGate /\ UNCHANGED <<certificate, world>>
      /\ gate' = [NoGate EXCEPT !.status = "ready"]
      /\ pc'[p] = "review" /\ snap'[p] = gate'
  BY DEF NewGate, Save, Goto, IInv, GateOK, LeaseOK, TypeOK
<1>2. /\ gate'.status = "ready" /\ gate'.rounds = gate.rounds /\ gate'.lease = NoProc
      /\ gate'.action = gate.action /\ gate'.action = NoAction
  BY <1>1, NoGateFacts DEF NoGate
<1>3. RoundsKept /\ \A i \in 1..Len(gate'.rounds) : ~(i > Len(gate.rounds))
  BY <1>2, SameRounds DEF IInv
<1>4. OutcomeKept
  BY <1>1, NoGateFacts DEF OutcomeKept
<1>5. Known(p)'
  BY <1>1, <1>2, NoGateFacts, PlainKnown DEF Started
<1>6. \A q \in Procs \ {p} : Respects(q)
  BY <1>1, <1>2, NoGateFacts, GateAssumption, Reviewing, Acting DEF Respects
<1>7. LeaseOK' /\ AgreementStands' /\ CompletedMergeLanded'
  BY <1>2 DEF LeaseOK, AgreementStands, CompletedMergeLanded, ActionStates
<1>8. IInv'
  BY <1>1, <1>2, <1>3, <1>5, <1>6, <1>7, NoGateFacts, StepInv
     DEF Dispatching, Started, world
<1>9. QED
  BY <1>3, <1>4, <1>8

(* A write that leaves gate.json as it was. *)
LEMMA SameGate ==
    ASSUME TypeOK, gate' = gate
    PROVE  RoundsKept /\ OutcomeKept
BY DEF RoundsKept, OutcomeKept, TypeOK, Gates

LEMMA GateOwnerStarted ==
    ASSUME IInv, NEW p \in Procs, OthersKept(p),
           gate'.action.attempt \in {gate.action.attempt, p, NoProc}
    PROVE  Started(gate.action.attempt)'
<1>1. gate.action.attempt \in Procs \cup {NoProc}
  BY DEF IInv, TypeOK, Gates, Actions
<1>2. \A x \in Procs \cup {NoProc} : Started(x) => (x # NoProc => pc'[x] # "idle")
  BY StaysOver DEF IInv, Started
<1>3. QED
  BY <1>1, <1>2 DEF IInv, GateOK, OwnersStarted, Started, OthersKept

LEMMA ContinueInv ==
    ASSUME IInv, NEW p \in Procs, OthersKept(p), TypeOK', Continue(p)
    PROVE  IInv' /\ RoundsKept /\ OutcomeKept
<1>1. pc[p] = "idle" /\ UNCHANGED <<certificate, world>> /\ gate.status # "none"
  BY DEF Continue
<1>2. CASE Leave(p) /\ UNCHANGED gate
  BY <1>1, <1>2, LeaveInv, SameGate DEF IInv, world
<1>3. CASE /\ gate.status = "reviewing" /\ ~LeaseLive(gate.lease)
           /\ Save(p, Abandon(gate), "approve")
  <2>1. gate' = Abandon(gate) /\ pc'[p] = "approve" /\ snap'[p] = gate' /\ result'[p] = "none"
    BY <1>3 DEF Save, Goto, Learn, IInv, TypeOK
  <2>2. gate \in Gates /\ gate.rounds # <<>>
    BY <1>3 DEF IInv, TypeOK, GateOK, LeaseOK
  <2>3. /\ gate'.status = "blocked" /\ gate'.lease = NoProc /\ gate'.action = gate.action
        /\ RoundsKept /\ Len(gate'.rounds) = Len(gate.rounds)
    BY <2>1, <2>2, AbandonFacts DEF RoundsKept, Gates
  <2>4. Started(gate.action.attempt)'
    BY <2>3, GateOwnerStarted
  <2>5. gate'.action.status = "merged_revision_mismatch" => Merged
    BY <2>3 DEF IInv, GateOK, LandedOnce
  <2>6. Known(p)'
    BY <2>1, <2>3, <2>4, <2>5
       DEF Known, LocalOK, ReviewerAlone, SnapshotOK, MergeKnown, RecoveryOfDead,
           ActorOwnsRounds, Started, ReviewPhase, ContinuePhase, ReconcilePhase, ActPhase,
           Dispatching, Merged, OthersKept
  <2>7. \A q \in Procs \ {p} : Respects(q)
    BY <1>3, <2>3, Reviewing, Acting DEF Respects
  <2>8. LeaseOK' /\ AgreementStands' /\ CompletedMergeLanded'
    BY <2>3 DEF LeaseOK, AgreementStands, CompletedMergeLanded, ActionStates
  <2>9. \A i \in 1..Len(gate'.rounds) : ~(i > Len(gate.rounds))
    BY <2>2, <2>3 DEF Gates
  <2>10. IInv'
    BY <1>1, <2>1, <2>3, <2>4, <2>5, <2>6, <2>7, <2>8, <2>9, StepInv DEF Dispatching, world
  <2>11. QED
    BY <1>3, <2>3, <2>10 DEF OutcomeKept
<1>4. CASE /\ gate.status # "reviewing"
           /\ Save(p, gate, IF gate.status = "completed" THEN "done"
                            ELSE IF gate.status \in ActionStates THEN "reconcile"
                            ELSE "approve")
  <2> DEFINE l == IF gate.status = "completed" THEN "done"
                  ELSE IF gate.status \in ActionStates THEN "reconcile"
                  ELSE "approve"
  <2>1. gate' = gate /\ pc'[p] = l /\ result'[p] = "none"
        /\ snap'[p] = IF l = "done" THEN NoGate ELSE gate
    BY <1>4 DEF Save, Goto, Learn, IInv, TypeOK
  <2>2. Started(gate.action.attempt)'
    BY <2>1, GateOwnerStarted
  <2>3. gate.action.status = "merged_revision_mismatch" => Merged
    BY DEF IInv, GateOK, LandedOnce
  <2>4. gate.lease = NoProc
    BY <1>4 DEF IInv, GateOK, LeaseOK
  <2>5. Known(p)'
    <3>1. CASE l = "done"
      BY <2>1, <3>1, DoneKnown
    <3>2. CASE l \in {"reconcile", "approve"}
      <4>1. /\ l = "reconcile" => gate.status \in ActionStates
            /\ gate.status # "completed"
        BY <3>2
      <4>2. QED
        BY <1>1, <1>4, <2>1, <2>2, <2>3, <2>4, <3>2, <4>1
           DEF Known, LocalOK, ReviewerAlone, SnapshotOK, MergeKnown, RecoveryOfDead,
               ActorOwnsRounds, Started, ReviewPhase, ContinuePhase, ReconcilePhase,
               ActPhase, Dispatching, Merged, OthersKept
    <3>3. QED
      BY <3>1, <3>2
  <2>6. QED
    BY <1>1, <2>1, <2>5, QuietInv, SameGate DEF IInv, Dispatching, world
<1>5. QED
  BY <1>2, <1>3, <1>4 DEF Continue

LEMMA SaveReconciledInv ==
    ASSUME IInv, NEW p \in Procs, OthersKept(p), TypeOK', SaveReconciled(p)
    PROVE  IInv' /\ RoundsKept /\ OutcomeKept
<1> DEFINE r == result[p]
           s == ReconciledStatus(r)
           l == IF r \in {"interrupted", "dequeued"} THEN "approve" ELSE "done"
<1>1. pc[p] = "reconciled" /\ UNCHANGED <<certificate, world, expect>> /\ Known(p)
  BY DEF SaveReconciled, IInv
<1>2. CASE Leave(p) /\ UNCHANGED gate
  BY <1>1, <1>2, LeaveInv, SameGate DEF IInv, world
<1>3. CASE gate = snap[p] /\ Save(p, SetAction(snap[p], s, r), l)
  <2>1. gate' = SetAction(gate, s, r) /\ pc'[p] = l
        /\ snap'[p] = (IF l = "done" THEN NoGate ELSE gate') /\ result'[p] = "none"
    BY <1>3 DEF Save, Goto, Learn, IInv, TypeOK
  <2>2. gate.status \in ActionStates /\ gate.lease = NoProc /\ gate \in Gates
    BY <1>1, <1>3 DEF Known, SnapshotOK, ReconcilePhase, ContinuePhase, IInv, TypeOK
  <2>3. r \in ActionStatuses
    BY <1>1 DEF Known, LocalOK
  <2>4. /\ s \in {"completed", "blocked", "action_queued", "action_failed"}
        /\ s = "completed" <=> r = "merged"
        /\ r \in {"interrupted", "dequeued", "merged_revision_mismatch"} => s = "action_failed"
    BY DEF ReconciledStatus
  <2>5. /\ gate'.status = s /\ gate'.rounds = gate.rounds /\ gate'.lease = NoProc
        /\ gate'.action.attempt = gate.action.attempt /\ gate'.action.status = r
    <3> HIDE DEF s, r
    <3>1. s \in Statuses
      BY <2>4 DEF Statuses, ActionStates
    <3>2. QED
      BY <2>1, <2>2, <2>3, <3>1, SetActionFacts
  <2>6. RoundsKept /\ \A i \in 1..Len(gate'.rounds) : ~(i > Len(gate.rounds))
    BY <2>5, SameRounds DEF IInv
  <2>7. OutcomeKept
    BY <2>2 DEF OutcomeKept, ActionStates
  <2>8. Started(gate.action.attempt)'
    BY <2>5, GateOwnerStarted
  <2>9. r = "merged_revision_mismatch" => Merged
    BY <1>1 DEF Known, MergeKnown, MergeSeen
  <2>10. \A q \in Procs \ {p} : Respects(q)
    <3> SUFFICES ASSUME NEW q \in Procs \ {p} PROVE Respects(q)
      OBVIOUS
    <3>1. pc[q] \notin ReviewPhase
      BY <2>2, Reviewing DEF ActionStates
    <3>2. CASE pc[q] \in ActPhase /\ gate.action.attempt = q
      <4>1. /\ gate.status = "action_attempting" /\ LeaseLive(q)
            \/ gate.action.status = "merged_revision_mismatch"
        BY <2>2, <3>2, Acting DEF ActionStates
      <4>2. r \in MergeSeen
        BY <1>1, <1>3, <3>2, <4>1 DEF Known, RecoveryOfDead
      <4>3. s \in {"completed"} \/ (s = "action_failed" /\ r = "merged_revision_mismatch")
        BY <2>4, <4>2 DEF MergeSeen
      <4>4. QED
        BY <2>5, <3>1, <3>2, <4>3 DEF Respects
    <3>3. CASE pc[q] \in ActPhase /\ gate.action.attempt # q
      BY <2>5, <3>1, <3>3, Acting DEF Respects
    <3>4. QED
      BY <3>1, <3>2, <3>3 DEF Respects
  <2>11. LeaseOK'
    BY <2>4, <2>5 DEF LeaseOK
  <2>12. AgreementStands'
    BY <2>2, <2>5 DEF IInv, GateOK, AgreementStands, Approved, Last
  <2>13. CompletedMergeLanded'
    BY <1>1, <1>3, <2>4, <2>5
       DEF CompletedMergeLanded, Known, MergeKnown, MergeSeen, LandedAs, Merged, Last,
           world
  <2>14. Known(p)'
    <3>1. CASE l = "done"
      BY <2>1, <3>1, DoneKnown
    <3>2. CASE l = "approve"
      BY <2>1, <2>4, <2>5, <2>8, <3>2
         DEF Known, LocalOK, ReviewerAlone, SnapshotOK, MergeKnown, RecoveryOfDead,
             ActorOwnsRounds, Started, ReviewPhase, ContinuePhase, ReconcilePhase,
             ActPhase, Dispatching
    <3>3. QED
      BY <3>1, <3>2
  <2>15. IInv'
    BY <1>1, <2>1, <2>5, <2>6, <2>8, <2>9, <2>10, <2>11, <2>12, <2>13, <2>14, StepInv
       DEF Dispatching, world
  <2>16. QED
    BY <2>6, <2>7, <2>15
<1>4. QED
  BY <1>2, <1>3 DEF SaveReconciled, Unchanged

LEMMA SupersedeInv ==
    ASSUME IInv, NEW p \in Procs, OthersKept(p), TypeOK', Supersede(p)
    PROVE  IInv' /\ RoundsKept /\ OutcomeKept
<1>1. CASE Refuse(p)
  BY <1>1, RefuseInv, SameGate DEF IInv, Refuse
<1>2. CASE ~Refuse(p)
  <2>1. /\ gate = snap[p] /\ pc[p] = "supersede" /\ Known(p)
        /\ gate' = [gate EXCEPT !.status = "blocked", !.action = NoAction]
        /\ pc'[p] = "review" /\ snap'[p] = gate'
        /\ UNCHANGED <<certificate, world, expect>>
    BY <1>2 DEF Supersede, Unchanged, Save, Goto, IInv, TypeOK
  <2>2. gate.status \in {"agreed", "action_failed", "blocked"} /\ gate.lease = NoProc
    BY <2>1 DEF Known, SnapshotOK, ContinuePhase
  <2>3. /\ gate'.status = "blocked" /\ gate'.rounds = gate.rounds
        /\ gate'.lease = NoProc /\ gate'.action = NoAction
    BY <2>1, <2>2 DEF IInv, TypeOK, Gates
  <2>4. RoundsKept /\ \A i \in 1..Len(gate'.rounds) : ~(i > Len(gate.rounds))
    BY <2>3, SameRounds DEF IInv
  <2>5. Known(p)'
    BY <2>1, <2>3, NoGateFacts, PlainKnown DEF Started
  <2>6. \A q \in Procs \ {p} : Respects(q)
    BY <2>2, <2>3, NoGateFacts, GateAssumption, Reviewing, Acting DEF Respects
  <2>7. LeaseOK' /\ AgreementStands' /\ CompletedMergeLanded'
    BY <2>3 DEF LeaseOK, AgreementStands, CompletedMergeLanded, ActionStates
  <2>8. IInv'
    BY <2>1, <2>3, <2>4, <2>5, <2>6, <2>7, NoGateFacts, StepInv
       DEF Dispatching, Started, world
  <2>9. QED
    BY <2>2, <2>4, <2>8 DEF OutcomeKept
<1>3. QED
  BY <1>1, <1>2

LEMMA ReserveInv ==
    ASSUME IInv, NEW p \in Procs, OthersKept(p), TypeOK', Reserve(p)
    PROVE  IInv' /\ RoundsKept /\ OutcomeKept
<1>1. CASE Refuse(p)
  BY <1>1, RefuseInv, SameGate DEF IInv, Refuse
<1>2. CASE ~Refuse(p)
  <2>1. /\ pc[p] = "reserve" /\ UNCHANGED <<certificate, world, expect>>
        /\ gate.status \in {"ready", "changes_requested", "blocked"}
        /\ gate \in Gates /\ gate.lease = NoProc /\ Known(p)
    BY <1>2 DEF Reserve, Reservable, IInv, TypeOK, GateOK, LeaseOK
  <2>2. gate'.action = gate.action => Started(gate.action.attempt)'
    BY GateOwnerStarted
  <2>3. gate'.action = gate.action =>
            (gate'.action.status = "merged_revision_mismatch" => Merged)
    BY DEF IInv, GateOK, LandedOnce
  <2>4. gate'.action = gate.action => \A q \in Procs \ {p} : Respects(q)
    BY <2>1, Reviewing, Acting DEF Respects
  <2>5. CASE Save(p, [gate EXCEPT !.status = "blocked"], "done")
    <3>1. /\ gate' = [gate EXCEPT !.status = "blocked"] /\ pc'[p] = "done"
          /\ snap'[p] = NoGate
      BY <2>5 DEF Save, Goto, IInv, TypeOK
    <3>2. /\ gate'.status = "blocked" /\ gate'.rounds = gate.rounds
          /\ gate'.lease = NoProc /\ gate'.action = gate.action
      BY <2>1, <3>1 DEF Gates
    <3>3. RoundsKept /\ \A i \in 1..Len(gate'.rounds) : ~(i > Len(gate.rounds))
      BY <3>2, SameRounds DEF IInv
    <3>4. Known(p)'
      BY <3>1, DoneKnown
    <3>5. LeaseOK' /\ AgreementStands' /\ CompletedMergeLanded'
      BY <3>2 DEF LeaseOK, AgreementStands, CompletedMergeLanded, ActionStates
    <3>6. IInv'
      BY <2>1, <2>2, <2>3, <2>4, <3>1, <3>2, <3>3, <3>4, <3>5, StepInv
         DEF Dispatching, world
    <3>7. QED
      BY <2>1, <3>3, <3>6 DEF OutcomeKept
  <2>6. CASE Save(p, Reserved(gate, p), "peer")
    <3>1. /\ gate' = Reserved(gate, p) /\ pc'[p] = "peer" /\ snap'[p] = gate'
      BY <2>6 DEF Save, Goto, IInv, TypeOK
    <3>2. seen[p] \in Revisions /\ seen[p] = expect'[p]
      BY <2>1 DEF Known, LocalOK
    <3>3. /\ gate'.status = "reviewing" /\ gate'.lease = p /\ gate'.action = gate.action
          /\ Len(gate'.rounds) = Len(gate.rounds) + 1 /\ gate'.rounds # <<>>
          /\ Last(gate)' = [attempt |-> p, revision |-> seen[p], status |-> "reviewing"]
          /\ \A i \in 1..Len(gate.rounds) : gate'.rounds[i] = gate.rounds[i]
      BY <2>1, <3>1, <3>2, ReservedFacts DEF Last
    <3>4. Len(gate.rounds) \in Nat
      BY <2>1 DEF Gates
    <3>5. RoundsKept
      BY <3>3, <3>4 DEF RoundsKept
    <3>6. \A i \in 1..Len(gate'.rounds) : i > Len(gate.rounds) =>
              gate'.rounds[i].attempt = p /\ gate'.rounds[i].revision = expect'[p]
      BY <3>2, <3>3, <3>4 DEF Last
    <3>7. Known(p)'
      BY <2>2, <2>3, <3>1, <3>3
         DEF Known, LocalOK, ReviewerAlone, SnapshotOK, MergeKnown, RecoveryOfDead,
             ActorOwnsRounds, Started, ContinuePhase, ReconcilePhase, ActPhase,
             Dispatching, Merged, OthersKept, Last
    <3>8. LeaseOK' /\ AgreementStands' /\ CompletedMergeLanded'
      BY <3>3 DEF LeaseOK, AgreementStands, CompletedMergeLanded, ActionStates
    <3>9. IInv'
      BY <2>1, <2>2, <2>3, <2>4, <3>1, <3>3, <3>5, <3>6, <3>7, <3>8, StepInv
         DEF Dispatching, world
    <3>10. QED
      BY <2>1, <3>5, <3>9 DEF OutcomeKept
  <2>7. QED
    BY <1>2, <2>5, <2>6 DEF Reserve
<1>3. QED
  BY <1>1, <1>2

LEMMA FinishReviewInv ==
    ASSUME IInv, NEW p \in Procs, OthersKept(p), TypeOK', FinishReview(p)
    PROVE  IInv' /\ RoundsKept /\ OutcomeKept
<1> DEFINE n == Len(snap[p].rounds)
           r == result[p]
           l == IF r = "approve" THEN "agree" ELSE "done"
<1>1. CASE Refuse(p)
  BY <1>1, RefuseInv, SameGate DEF IInv, Refuse
<1>2. CASE ~Refuse(p)
  <2>1. /\ Save(p, Reviewed(gate, n, r), l) /\ pc[p] = "reviewed"
        /\ UNCHANGED <<certificate, world, expect>>
    BY <1>2 DEF FinishReview
  <2>2. /\ gate' = Reviewed(gate, n, r) /\ pc'[p] = l
        /\ snap'[p] = IF l = "done" THEN NoGate ELSE gate'
    BY <2>1 DEF Save, Goto, IInv, TypeOK
  <2>3. /\ gate \in Gates /\ gate = snap[p] /\ gate.status = "reviewing" /\ gate.lease = p
        /\ Last(gate).attempt = p /\ gate.rounds # <<>> /\ Last(gate).status = "reviewing"
        /\ r \in Verdicts \cup {"error"}
    BY <2>1 DEF IInv, TypeOK, GateOK, LeaseOK, Known, ReviewerAlone, ReviewPhase, LocalOK
  <2>4. n = Len(gate.rounds) /\ n \in 1..n /\ Last(gate) = gate.rounds[n]
    BY <2>3, LastFacts
  <2>5. /\ gate'.status = ReviewedStatus(r, n) /\ gate'.lease = NoProc
        /\ gate'.action = gate.action /\ Len(gate'.rounds) = n /\ gate'.rounds # <<>>
        /\ gate'.rounds[n].status = RoundStatus(r)
        /\ \A i \in 1..n : /\ gate'.rounds[i].attempt = gate.rounds[i].attempt
                           /\ gate'.rounds[i].revision = gate.rounds[i].revision
                           /\ i # n => gate'.rounds[i] = gate.rounds[i]
    <3> HIDE DEF n, r
    <3>1. QED
      BY <2>2, <2>3, <2>4, ReviewedFacts
  <2>6. RoundsKept /\ \A i \in 1..Len(gate'.rounds) : ~(i > Len(gate.rounds))
    BY <2>3, <2>4, <2>5 DEF RoundsKept, Gates
  <2>7. /\ gate'.status \in {"agreed", "changes_requested", "blocked"}
        /\ gate'.status = "agreed" <=> r = "approve"
    BY <2>5 DEF ReviewedStatus
  <2>8. LeaseOK' /\ CompletedMergeLanded'
    BY <2>5, <2>7 DEF LeaseOK, CompletedMergeLanded
  <2>9. AgreementStands'
    BY <2>4, <2>5, <2>7 DEF AgreementStands, Approved, Last, RoundStatus, ActionStates
  <2>10. Started(gate.action.attempt)'
    BY <2>5, GateOwnerStarted
  <2>11. gate'.action.status = "merged_revision_mismatch" => Merged
    BY <2>5 DEF IInv, GateOK, LandedOnce
  <2>12. \A q \in Procs \ {p} : Respects(q)
    BY <2>3, <2>5, Reviewing, Acting DEF Respects
  <2>13. Known(p)'
    <3>1. CASE r # "approve"
      BY <2>2, <3>1, DoneKnown
    <3>2. CASE r = "approve"
      <4>1. gate.rounds[n].revision = expect[p]
        BY <2>3, <2>4 DEF IInv, GateOK, RoundsAttested
      <4>2. Last(gate)'.revision = expect'[p]
        BY <2>1, <2>4, <2>5, <4>1 DEF Last
      <4>3. QED
        BY <2>2, <2>10, <2>11, <3>2, <4>2, PlainKnown DEF Started, Merged, OthersKept, Last
    <3>3. QED
      BY <3>1, <3>2
  <2>14. IInv'
    BY <2>1, <2>2, <2>6, <2>8, <2>9, <2>10, <2>11, <2>12, <2>13, StepInv
       DEF Dispatching, world
  <2>15. QED
    BY <2>3, <2>6, <2>14 DEF OutcomeKept
<1>3. QED
  BY <1>1, <1>2

LEMMA CompleteAgreementInv ==
    ASSUME IInv, NEW p \in Procs, OthersKept(p), TypeOK', CompleteAgreement(p)
    PROVE  IInv' /\ RoundsKept /\ OutcomeKept
<1>1. CASE Refuse(p)
  BY <1>1, RefuseInv, SameGate DEF IInv, Refuse
<1>2. CASE ~Refuse(p)
  <2>1. /\ SameApproval(gate, snap[p]) /\ gate.status = "agreed" /\ pc[p] = "agree"
        /\ UNCHANGED <<world, expect>> /\ gate \in Gates /\ gate.lease = NoProc
        /\ Last(snap[p]).revision = expect[p]
    BY <1>2 DEF CompleteAgreement, IInv, TypeOK, GateOK, LeaseOK, Known, LocalOK
  <2>2. CASE Leave(p) /\ UNCHANGED gate
    BY <2>1, <2>2, LeaveInv, SameGate DEF IInv, world
  <2>3. CASE OnAgreement = "merge" /\ Save(p, gate, "merge")
    <3>1. gate' = gate /\ pc'[p] = "merge" /\ snap'[p] = gate
      BY <2>3 DEF Save, Goto, IInv, TypeOK
    <3>2. Started(gate.action.attempt)'
      BY <3>1, GateOwnerStarted
    <3>3. gate.action.status = "merged_revision_mismatch" => Merged
      BY DEF IInv, GateOK, LandedOnce
    <3>4. Last(gate).revision = expect[p]
      BY <2>1 DEF SameApproval
    <3>5. Known(p)'
      BY <2>1, <3>1, <3>2, <3>3, <3>4, PlainKnown DEF Started, Merged, OthersKept, Last
    <3>6. QED
      BY <2>1, <3>1, <3>5, QuietInv, SameGate DEF IInv, Dispatching, world
  <2>4. CASE /\ OnAgreement = "proceed"
             /\ Save(p, [gate EXCEPT !.status = "completed",
                           !.action = [NoAction EXCEPT !.status = "authorized"]], "done")
    <3>1. /\ gate' = [gate EXCEPT !.status = "completed",
                        !.action = [NoAction EXCEPT !.status = "authorized"]]
          /\ pc'[p] = "done" /\ snap'[p] = NoGate
      BY <2>4 DEF Save, Goto, IInv, TypeOK
    <3>2. /\ gate'.status = "completed" /\ gate'.rounds = gate.rounds
          /\ gate'.lease = NoProc /\ gate'.action.attempt = NoProc
          /\ gate'.action.status = "authorized"
      BY <2>1, <3>1 DEF Gates, NoAction
    <3>3. RoundsKept /\ \A i \in 1..Len(gate'.rounds) : ~(i > Len(gate.rounds))
      BY <3>2, SameRounds DEF IInv
    <3>4. Known(p)'
      BY <3>1, DoneKnown
    <3>5. LeaseOK' /\ CompletedMergeLanded'
      BY <2>4, <3>2 DEF LeaseOK, CompletedMergeLanded
    <3>6. AgreementStands'
      BY <2>1, <3>2 DEF AgreementStands, SameApproval, Approved, Last
    <3>7. \A q \in Procs \ {p} : Respects(q)
      BY <2>1, <3>2, GateAssumption, Reviewing, Acting DEF Respects
    <3>8. IInv'
      BY <2>1, <3>1, <3>2, <3>3, <3>4, <3>5, <3>6, <3>7, StepInv
         DEF Dispatching, Started, world
    <3>9. QED
      BY <2>1, <3>3, <3>8 DEF OutcomeKept
  <2>5. QED
    BY <1>2, <2>2, <2>3, <2>4 DEF CompleteAgreement
<1>3. QED
  BY <1>1, <1>2

LEMMA ReserveMergeInv ==
    ASSUME IInv, NEW p \in Procs, OthersKept(p), TypeOK', ReserveMerge(p)
    PROVE  IInv' /\ RoundsKept /\ OutcomeKept
<1>1. CASE Refuse(p)
  BY <1>1, RefuseInv, SameGate DEF IInv, Refuse
<1>2. CASE ~Refuse(p)
  <2>1. /\ SameApproval(gate, snap[p]) /\ pc[p] = "merge"
        /\ gate.status \in {"agreed", "action_failed", "blocked"}
        /\ UNCHANGED <<certificate, world, expect>> /\ gate \in Gates
        /\ gate.lease = NoProc /\ Last(snap[p]).revision = expect[p]
    BY <1>2 DEF ReserveMerge, IInv, TypeOK, GateOK, LeaseOK, Known, LocalOK
  <2>2. /\ gate' = [gate EXCEPT !.status = "action_attempting",
                      !.action = [attempt |-> p, status |-> "prechecking"]]
        /\ pc'[p] = "precheck" /\ snap'[p] = gate'
    BY <1>2 DEF ReserveMerge, Save, Goto, IInv, TypeOK
  <2>3. /\ gate'.status = "action_attempting" /\ gate'.rounds = gate.rounds
        /\ gate'.lease = NoProc /\ gate'.action.attempt = p
        /\ gate'.action.status = "prechecking"
    BY <2>1, <2>2 DEF Gates
  <2>4. RoundsKept /\ \A i \in 1..Len(gate'.rounds) : ~(i > Len(gate.rounds))
    BY <2>3, SameRounds DEF IInv
  <2>5. Approved(gate) /\ Last(gate).revision = expect[p] /\ Len(gate.rounds) \in Nat
    BY <2>1 DEF SameApproval, Gates
  <2>6. Started(gate.action.attempt)'
    BY <2>3, GateOwnerStarted
  <2>7. ActorOwnsRounds(p)'
    <3>1. Approved(gate)' /\ Last(gate)' = Last(gate) /\ expect'[p] = expect[p]
      BY <2>1, <2>3, <2>5 DEF Approved, Last
    <3>2. Len(gate'.rounds) <= Len(gate'.rounds)
      BY <2>3, <2>5
    <3>3. QED
      BY <2>2, <2>3, <2>5, <3>1, <3>2 DEF ActorOwnsRounds, Approved, Last
  <2>8. Known(p)'
    BY <2>1, <2>2, <2>3, <2>6, <2>7
       DEF Known, LocalOK, ReviewerAlone, SnapshotOK, MergeKnown, RecoveryOfDead,
           Started, ReviewPhase, ContinuePhase, ReconcilePhase
  <2>9. LeaseOK' /\ AgreementStands' /\ CompletedMergeLanded'
    BY <2>3, <2>5 DEF LeaseOK, AgreementStands, CompletedMergeLanded, Approved, Last
  <2>10. \A q \in Procs \ {p} : Respects(q)
    BY <2>1, <2>3, Reviewing, Acting DEF Respects
  <2>11. IInv'
    BY <2>1, <2>2, <2>3, <2>4, <2>6, <2>8, <2>9, <2>10, StepInv DEF Dispatching, world
  <2>12. QED
    BY <2>1, <2>4, <2>11 DEF OutcomeKept
<1>3. QED
  BY <1>1, <1>2

(* What an actor that still owns the action may write. *)
LEMMA ActorWrites ==
    ASSUME IInv, NEW p \in Procs, OthersKept(p), TypeOK', pc[p] \in ActPhase,
           gate.action.attempt = p,
           gate'.rounds = snap[p].rounds, gate'.lease = snap[p].lease,
           gate'.action.attempt = snap[p].action.attempt,
           gate.status = "completed" => gate'.status = "completed",
           gate'.status \notin {"none", "reviewing"},
           gate'.action.status = "merged_revision_mismatch" => Merged,
           gate'.status = "completed" => Merged /\ LandedAs(Last(snap[p]).revision),
           requests' = requests, pc'[p] \in Dispatching => pc[p] \in Dispatching,
           Known(p)'
    PROVE  IInv' /\ RoundsKept /\ OutcomeKept
<1>1. /\ gate.rounds = snap[p].rounds /\ gate.lease = NoProc /\ gate'.lease = NoProc
      /\ gate'.action.attempt = p /\ Approved(snap[p])
  BY Acting DEF IInv, Known, ActorOwnsRounds
<1>2. RoundsKept /\ \A i \in 1..Len(gate'.rounds) : ~(i > Len(gate.rounds))
  BY <1>1, SameRounds DEF IInv
<1>3. OutcomeKept
  BY <1>1 DEF OutcomeKept
<1>4. LeaseOK' /\ AgreementStands'
  BY <1>1 DEF LeaseOK, AgreementStands, Approved, Last
<1>5. CompletedMergeLanded'
  BY DEF CompletedMergeLanded, Merged, LandedAs, OthersKept, Last
<1>6. \A q \in Procs \ {p} : Respects(q)
  <2> SUFFICES ASSUME NEW q \in Procs \ {p} PROVE Respects(q)
    OBVIOUS
  <2>1. pc[q] \notin ReviewPhase
    BY <1>1, Reviewing, GateAssumption
  <2>2. pc[q] \in ActPhase => Merged
    BY Acting
  <2>3. QED
    BY <1>1, <2>1, <2>2 DEF Respects
<1>7. Started(gate.action.attempt)'
  BY <1>1, GateOwnerStarted
<1>8. IInv'
  BY <1>2, <1>4, <1>5, <1>6, <1>7, StepInv
<1>9. QED
  BY <1>2, <1>3, <1>8

LEMMA SaveAttemptingInv ==
    ASSUME IInv, NEW p \in Procs, OthersKept(p), TypeOK', SaveAttempting(p)
    PROVE  IInv' /\ RoundsKept /\ OutcomeKept
<1>1. CASE Refuse(p)
  BY <1>1, RefuseInv, SameGate DEF IInv, Refuse
<1>2. CASE ~Refuse(p)
  <2>1. /\ pc[p] = "dispatch" /\ gate.action.attempt = p /\ gate.status # "completed"
        /\ UNCHANGED <<certificate, world, expect>> /\ snap[p] \in Gates
        /\ gate' = SetAction(snap[p], "action_attempting", "attempting")
        /\ pc'[p] = "attempt" /\ snap'[p] = gate'
    BY <1>2 DEF SaveAttempting, MaySaveAction, Save, Goto, IInv, TypeOK
  <2>2. /\ gate'.status = "action_attempting" /\ gate'.rounds = snap[p].rounds
        /\ gate'.lease = snap[p].lease /\ gate'.action.attempt = snap[p].action.attempt
        /\ gate'.action.status = "attempting"
    BY <2>1, SetActionFacts DEF Statuses, ActionStates, ActionStatuses
  <2>3. /\ gate.rounds = snap[p].rounds /\ snap[p].lease = NoProc
        /\ snap[p].action.attempt = p /\ Approved(snap[p])
        /\ Last(snap[p]).revision = expect[p] /\ Len(snap[p].rounds) \in Nat
    BY <2>1 DEF IInv, Known, ActorOwnsRounds, ActPhase, Dispatching, TypeOK, Gates
  <2>4. ActorOwnsRounds(p)'
    <3>1. expect'[p] = expect[p] /\ gate'.action.attempt = p
      BY <2>1, <2>2, <2>3
    <3>2. Len(gate'.rounds) <= Len(gate'.rounds)
      BY <2>2, <2>3
    <3>3. Approved(gate)' /\ Last(gate)' = Last(snap[p])
      BY <2>2, <2>3 DEF Approved, Last
    <3>4. snap'[p] = gate' /\ gate'.lease = NoProc /\ gate'.status = "action_attempting"
      BY <2>1, <2>2, <2>3
    <3>5. QED
      BY <2>3, <3>1, <3>2, <3>3, <3>4 DEF ActorOwnsRounds, Approved, Last
  <2>5. Known(p)'
    BY <2>1, <2>2, <2>3, <2>4
       DEF Known, LocalOK, ReviewerAlone, SnapshotOK, MergeKnown, RecoveryOfDead,
           Started, ReviewPhase, ContinuePhase, ReconcilePhase
  <2>6. QED
    BY <2>1, <2>2, <2>5, ActorWrites DEF ActPhase, Dispatching, world
<1>3. QED
  BY <1>1, <1>2

LEMMA SaveActionInv ==
    ASSUME IInv, NEW p \in Procs, OthersKept(p), TypeOK', SaveAction(p)
    PROVE  IInv' /\ RoundsKept /\ OutcomeKept
<1> DEFINE r == result[p]
           s == ReconciledStatus(r)
<1>1. CASE Refuse(p)
  BY <1>1, RefuseInv, SameGate DEF IInv, Refuse
<1>2. CASE ~Refuse(p)
  <2>1. /\ pc[p] = "act" /\ gate.action.attempt = p
        /\ gate.status = "completed" => s = "completed"
        /\ UNCHANGED <<certificate, world, expect>> /\ snap[p] \in Gates
        /\ gate' = SetAction(snap[p], s, r)
        /\ pc'[p] = "done" /\ snap'[p] = NoGate
    BY <1>2 DEF SaveAction, MaySaveAction, Save, Goto, IInv, TypeOK
  <2>2. /\ s \in {"completed", "blocked", "action_queued", "action_failed"}
        /\ s = "completed" => r = "merged"
    BY DEF ReconciledStatus
  <2>3. /\ r \in ActionStatuses
        /\ r \in MergeSeen => Merged
        /\ r = "merged" => LandedAs(Last(snap[p]).revision)
    BY <2>1 DEF IInv, Known, LocalOK, MergeKnown
  <2>4. /\ gate'.status = s /\ gate'.rounds = snap[p].rounds
        /\ gate'.lease = snap[p].lease /\ gate'.action.attempt = snap[p].action.attempt
        /\ gate'.action.status = r
    <3> HIDE DEF s, r
    <3>1. s \in Statuses
      BY <2>2 DEF Statuses, ActionStates
    <3>2. QED
      BY <2>1, <2>3, <3>1, SetActionFacts
  <2>5. Known(p)'
    BY <2>1, DoneKnown
  <2>6. QED
    <3> HIDE DEF s, r
    <3>1. QED
      BY <2>1, <2>2, <2>3, <2>4, <2>5, ActorWrites DEF ActPhase, Dispatching, MergeSeen, world
<1>3. QED
  BY <1>1, <1>2

-----------------------------------------------------------------------------
(* The theorems *)

LEMMA StepOK ==
    ASSUME IInv, NEW p \in Procs, Step(p) \/ Stop(p)
    PROVE  IInv' /\ RoundsKept /\ OutcomeKept
<1>1. OthersKept(p) /\ Known(p)
  BY Frame DEF IInv
<1>2. CASE Stop(p)
  BY <1>1, <1>2, RefuseInv, SameGate DEF Stop, Refuse, IInv
<1>3. CASE Step(p)
  <2>1. TypeOK'
    BY <1>1, <1>3, TypeStep DEF IInv, GateOK
  <2>2. CASE \/ Reconcile(p) \/ ReconcileQueue(p) \/ MainApproves(p)
             \/ CaptureForReview(p) \/ LaunchPeer(p) \/ SpawnDetached(p) \/ Collect(p)
             \/ Precheck(p) \/ Dispatch(p)
             \/ ReconcileDispatch(p) \/ ReconcileDispatchQueue(p)
    <3>1. gate' = gate
      BY <2>2 DEF Reconcile, ReconcileQueue, MainApproves, CaptureForReview, LaunchPeer,
                  SpawnDetached, Collect, Precheck, Dispatch, ReconcileDispatch,
                  ReconcileDispatchQueue, Refuse
    <3>2. IInv'
      BY <1>1, <2>1, <2>2, ReconcileInv, ReconcileQueueInv, MainApprovesInv,
         CaptureForReviewInv, ReviewerInv, PrecheckInv, DispatchInv, ReconcileDispatchInv
    <3>3. QED
      BY <3>1, <3>2, SameGate DEF IInv
  <2>3. QED
    BY <1>1, <1>3, <2>1, <2>2, NewGateInv, ContinueInv, SaveReconciledInv, SupersedeInv,
       ReserveInv, FinishReviewInv, CompleteAgreementInv, ReserveMergeInv,
       SaveAttemptingInv, SaveActionInv DEF Step
<1>4. QED
  BY <1>2, <1>3

LEMMA NextOK ==
    ASSUME IInv, [Next]_vars
    PROVE  IInv' /\ RoundsKept /\ OutcomeKept
<1>1. CASE \E p \in Procs : Step(p) \/ Stop(p)
  BY <1>1, StepOK
<1>2. CASE \E p \in Procs : RunnerStarts(p) \/ RunnerEnds(p) \/ RunnerKilled(p)
  <2>1. TypeOK'
    BY <1>2 DEF IInv, TypeOK, RunnerStarts, RunnerEnds, RunnerKilled, PeerStates
  <2>2. UNCHANGED <<gate, artifact, requests, pc, expect, seen, snap, result>>
    BY <1>2 DEF RunnerStarts, RunnerEnds, RunnerKilled
  <2>3. QED
    BY <2>1, <2>2, PeerInv, SameGate DEF IInv
<1>3. CASE World
  BY <1>3, WorldInv, WorldFacts, SameGate DEF IInv, GateOK, Outside
<1>4. CASE UNCHANGED vars
  <2>1. TypeOK'
    BY <1>4 DEF vars, IInv, TypeOK
  <2>2. QED
    BY <1>4, <2>1, PeerInv, SameGate DEF vars, IInv
<1>5. QED
  BY <1>1, <1>2, <1>3, <1>4 DEF Next

(* The invariant of GateInvariant holds throughout. *)
THEOREM Invariance == Spec => []IInv
<1>1. IInv /\ [Next]_vars => IInv'
  BY NextOK
<1>2. QED
  BY <1>1, InitInv, PTL DEF Spec

(* gate.json, the pull request and every invocation's memory have their types. *)
THEOREM TypeCorrect == Spec => []TypeOK
<1>1. IInv => TypeOK
  BY DEF IInv
<1>2. QED
  BY <1>1, Invariance, PTL

(* No approval is inferred: each round is about the revision its own main    *)
(* agent attested, whatever happened to the artifact meanwhile.              *)
THEOREM Attestation == Spec => []RoundsAttested
<1>1. IInv => RoundsAttested
  BY DEF IInv, GateOK
<1>2. QED
  BY <1>1, Invariance, PTL

(* The gate is agreed, acting or completed only on a standing approval. *)
THEOREM StandingAgreement == Spec => []AgreementStands
<1>1. IInv => AgreementStands
  BY DEF IInv, GateOK
<1>2. QED
  BY <1>1, Invariance, PTL

(* A completed merge gate landed exactly the revision both agents approved. *)
THEOREM LandedRevision == Spec => []CompletedMergeLanded
<1>1. IInv => CompletedMergeLanded
  BY DEF IInv, GateOK
<1>2. QED
  BY <1>1, Invariance, PTL

(* Every request that reaches GitHub carries an approved and attested head. *)
THEOREM ApprovedRequests == Spec => []RequestsApproved
<1>1. IInv => RequestsApproved
  BY DEF IInv, GateOK
<1>2. QED
  BY <1>1, Invariance, PTL

(* At most one invocation at a time is about to send the merge command. *)
THEOREM SingleDispatcher == Spec => []OneDispatcher
<1>1. IInv => OneDispatcher
  BY DEF IInv, GateOK, OneDispatching, Dispatching, OneDispatcher
<1>2. QED
  BY <1>1, Invariance, PTL

(* No write, however stale the copy it is made from, alters a decided round. *)
THEOREM History == Spec => HistoryKept
<1>1. IInv /\ [Next]_vars =>
        [\A i \in 1..Len(gate.rounds) :
            /\ i <= Len(gate'.rounds)
            /\ gate'.rounds[i].attempt = gate.rounds[i].attempt
            /\ gate'.rounds[i].revision = gate.rounds[i].revision
            /\ gate.rounds[i].status # "reviewing" =>
                  gate'.rounds[i].status = gate.rounds[i].status]_vars
  <2> SUFFICES ASSUME IInv, [Next]_vars, NEW i \in 1..Len(gate.rounds)
               PROVE  /\ i <= Len(gate'.rounds)
                      /\ gate'.rounds[i].attempt = gate.rounds[i].attempt
                      /\ gate'.rounds[i].revision = gate.rounds[i].revision
                      /\ gate.rounds[i].status # "reviewing" =>
                            gate'.rounds[i].status = gate.rounds[i].status
    OBVIOUS
  <2>1. RoundsKept /\ IInv'
    BY NextOK
  <2>2. Len(gate.rounds) \in Nat /\ Len(gate'.rounds) \in Nat
    BY <2>1 DEF IInv, TypeOK, Gates
  <2>3. QED
    BY <2>1, <2>2 DEF RoundsKept
<1>2. QED
  BY <1>1, Invariance, PTL DEF Spec, HistoryKept

(* A completed gate stays completed, on the same rounds. *)
THEOREM Completion == Spec => CompletedFinal
<1>1. IInv /\ [Next]_vars =>
        [gate.status = "completed" =>
            gate'.status = "completed" /\ gate'.rounds = gate.rounds]_vars
  BY NextOK DEF OutcomeKept
<1>2. QED
  BY <1>1, Invariance, PTL DEF Spec, CompletedFinal

-----------------------------------------------------------------------------
(* One review at a time *)

(* Nobody writes gate.json while the peer of its round is live in the       *)
(* ledger: recovery waits for it, and its invocation publishes afterwards.  *)
LEMMA ReviewStands ==
    ASSUME IInv, ReviewInv, NEW p \in Procs, Step(p), NEW q \in Procs, RunMetaLive(q)
    PROVE  gate' = gate
<1>1. gate.status = "reviewing" /\ Last(gate).attempt = q
  BY DEF ReviewInv, PeerReviews
<1>2. Known(p)
  BY DEF IInv
<1>3. ~NewGate(p)
  BY <1>1 DEF NewGate
<1>4. CASE Continue(p)
  BY <1>1, <1>4 DEF Continue
<1>5. CASE SaveReconciled(p) \/ Supersede(p)
  <2>1. snap[p].status # "reviewing"
    BY <1>2, <1>5
       DEF Known, SnapshotOK, SaveReconciled, Supersede, ContinuePhase, ReconcilePhase
  <2>2. QED
    BY <1>1, <1>5, <2>1 DEF SaveReconciled, Supersede, Unchanged, Refuse
<1>6. CASE Reserve(p)
  BY <1>1, <1>6 DEF Reserve, Reservable, Refuse
<1>7. CASE FinishReview(p)
  <2>1. pc[p] = "reviewed" /\ Last(gate).attempt = p
    BY <1>2, <1>7 DEF FinishReview, Known, ReviewerAlone, ReviewPhase
  <2>2. RunOver(p)
    BY <2>1 DEF ReviewInv, PeerReviews
  <2>3. QED
    BY <1>1, <2>1, <2>2 DEF RunOver, RunMetaLive, Zombie
<1>8. CASE CompleteAgreement(p) \/ ReserveMerge(p)
  BY <1>1, <1>8 DEF CompleteAgreement, ReserveMerge, Refuse
<1>9. CASE SaveAttempting(p) \/ SaveAction(p)
  <2>1. pc[p] \in ActPhase
    BY <1>9 DEF SaveAttempting, SaveAction, ActPhase, Dispatching
  <2>2. gate.action.attempt # p
    BY <1>1, <2>1, Acting
  <2>3. QED
    BY <1>9, <2>2 DEF SaveAttempting, SaveAction, MaySaveAction, Refuse
<1>10. CASE \/ Reconcile(p) \/ ReconcileQueue(p) \/ MainApproves(p)
            \/ CaptureForReview(p) \/ LaunchPeer(p) \/ SpawnDetached(p) \/ Collect(p)
            \/ Precheck(p) \/ Dispatch(p)
            \/ ReconcileDispatch(p) \/ ReconcileDispatchQueue(p)
  BY <1>10 DEF Reconcile, ReconcileQueue, MainApproves, CaptureForReview, LaunchPeer,
               SpawnDetached, Collect, Precheck, Dispatch, ReconcileDispatch,
               ReconcileDispatchQueue, Refuse
<1>11. QED
  BY <1>3, <1>4, <1>5, <1>6, <1>7, <1>8, <1>9, <1>10 DEF Step

(* Only its own invocation launches a peer, waits for it and reads its      *)
(* verdict.                                                                 *)
LEMMA PeerFrame ==
    ASSUME TypeOK, NEW p \in Procs, Step(p) \/ Stop(p)
    PROVE  /\ peer' = peer \/ LaunchPeer(p) \/ SpawnDetached(p)
           /\ pc'[p] = "reviewed" => Collect(p)
           /\ pc'[p] = "waiting" => LaunchPeer(p) \/ pc[p] = "waiting"
<1> USE DEF TypeOK, Refuse, Leave, Save, Goto, Learn, world
<1>1. CASE NewGate(p) \/ Continue(p) \/ SaveReconciled(p) \/ Supersede(p)
  BY <1>1 DEF NewGate, Continue, SaveReconciled, Supersede
<1>2. CASE Reconcile(p) \/ ReconcileQueue(p) \/ MainApproves(p) \/ CaptureForReview(p)
  BY <1>2 DEF Reconcile, ReconcileQueue, MainApproves, CaptureForReview
<1>3. CASE Reserve(p) \/ FinishReview(p) \/ CompleteAgreement(p) \/ ReserveMerge(p)
  BY <1>3 DEF Reserve, FinishReview, CompleteAgreement, ReserveMerge
<1>4. CASE LaunchPeer(p) \/ SpawnDetached(p) \/ Collect(p)
  BY <1>4 DEF LaunchPeer, SpawnDetached, Collect
<1>5. CASE Precheck(p) \/ SaveAttempting(p) \/ Dispatch(p)
  BY <1>5 DEF Precheck, SaveAttempting, Dispatch
<1>6. CASE ReconcileDispatch(p) \/ ReconcileDispatchQueue(p) \/ SaveAction(p)
  BY <1>6 DEF ReconcileDispatch, ReconcileDispatchQueue, SaveAction
<1>7. CASE Stop(p)
  BY <1>7 DEF Stop
<1>8. QED
  BY <1>1, <1>2, <1>3, <1>4, <1>5, <1>6, <1>7 DEF Step

LEMMA ReviewStep ==
    ASSUME Detached, IInv, ReviewInv, NEW p \in Procs, Step(p) \/ Stop(p)
    PROVE  ReviewInv'
<1> SUFFICES ASSUME NEW q \in Procs PROVE PeerReviews(q)'
  BY DEF ReviewInv
<1>1. TypeOK /\ PeerReviews(q) /\ Known(p) /\ OthersKept(p)
  BY Frame DEF IInv, ReviewInv
<1>2. CASE LaunchPeer(p)
  <2>1. /\ gate.status = "reviewing" /\ Last(gate).attempt = p /\ gate' = gate
        /\ pc'[p] = "waiting"
        /\ peer' = peer \/ peer' = [peer EXCEPT ![p] = "entry"]
    BY <1>1, <1>2 DEF LaunchPeer, Known, ReviewerAlone, ReviewPhase, Goto, TypeOK
  <2>2. CASE q = p
    BY <1>1, <2>1, <2>2 DEF PeerReviews, RunMetaLive, Zombie, Last, TypeOK
  <2>3. CASE q # p
    BY <1>1, <2>1, <2>3 DEF PeerReviews, RunMetaLive, Zombie, RunOver, Last, TypeOK, OthersKept
  <2>4. QED
    BY <2>2, <2>3
<1>3. CASE SpawnDetached(p)
  <2>1. /\ pc' = pc /\ gate' = gate /\ pc[p] = "waiting" /\ peer[p] = "entry"
        /\ peer' \in {[peer EXCEPT ![p] = "live"], [peer EXCEPT ![p] = "gone"]}
    BY <1>3 DEF SpawnDetached
  <2>2. QED
    BY <1>1, <2>1 DEF PeerReviews, RunMetaLive, Zombie, RunOver, Last, TypeOK
<1>4. CASE peer' = peer /\ ~LaunchPeer(p)
  <2>1. RunMetaLive(q) => gate' = gate
    BY ReviewStands DEF Stop, Refuse
  <2>2. pc'[q] = "reviewed" => RunOver(q)
    <3>1. CASE q = p
      BY <1>1, <3>1, PeerFrame DEF Collect
    <3>2. CASE q # p
      BY <1>1, <3>2 DEF OthersKept, PeerReviews
    <3>3. QED
      BY <3>1, <3>2
  <2>3. RunMetaLive(q)' => RunMetaLive(q)
    <3>1. pc'[q] = "waiting" => pc[q] = "waiting"
      BY <1>1, <1>4, PeerFrame DEF OthersKept
    <3>2. QED
      BY <1>4, <3>1 DEF RunMetaLive, Zombie
  <2>4. QED
    BY <1>1, <1>4, <2>1, <2>2, <2>3 DEF PeerReviews, RunOver, Last
<1>5. QED
  BY <1>1, <1>2, <1>3, <1>4, PeerFrame

LEMMA ReviewNext ==
    ASSUME Detached, IInv, ReviewInv, [Next]_vars
    PROVE  ReviewInv'
<1>1. CASE \E p \in Procs : Step(p) \/ Stop(p)
  BY <1>1, ReviewStep
<1>2. CASE \E p \in Procs : RunnerStarts(p) \/ RunnerEnds(p) \/ RunnerKilled(p)
  <2>1. PICK p \in Procs : RunnerStarts(p) \/ RunnerEnds(p) \/ RunnerKilled(p)
    BY <1>2
  <2>2. ~RunnerStarts(p)
    BY DEF ReviewInv, PeerReviews, RunnerStarts
  <2>3. /\ \/ peer' = [peer EXCEPT ![p] = "gone"]
           \/ peer[p] = "live" /\ pc[p] = "waiting" /\ peer' = [peer EXCEPT ![p] = "zombie"]
        /\ gate' = gate /\ pc' = pc /\ peer \in [Procs -> PeerStates]
    BY <2>1, <2>2 DEF RunnerEnds, RunnerKilled, IInv, TypeOK
  <2>4. QED
    BY <2>3 DEF ReviewInv, PeerReviews, RunMetaLive, Zombie, RunOver, Last
<1>3. CASE World \/ UNCHANGED vars
  <2>1. gate' = gate /\ pc' = pc /\ peer' = peer
    BY <1>3, WorldFacts DEF IInv, GateOK, Outside, vars
  <2>2. QED
    BY <2>1 DEF ReviewInv, PeerReviews, RunMetaLive, Zombie, RunOver, Last
<1>4. QED
  BY <1>1, <1>2, <1>3 DEF Next

(* Ledgered before it is started, a peer is never joined by a second one:    *)
(* whatever invocations die, no two of them have a peer at work.             *)
THEOREM SingleReview ==
    ASSUME Detached
    PROVE  Spec => []OneReview
<1>1. Init => ReviewInv
  BY DEF Init, ReviewInv, PeerReviews, RunMetaLive, Zombie
<1>2. IInv /\ ReviewInv /\ [Next]_vars => ReviewInv'
  BY ReviewNext
<1>3. ReviewInv => OneReview
  BY DEF ReviewInv, PeerReviews, OneReview, PeerBusy, RunMetaLive
<1>4. QED
  BY <1>1, <1>2, <1>3, Invariance, PTL DEF Spec

-----------------------------------------------------------------------------
(* The certificate of a gate that authorizes *)

(* A save of a gate without a merge keeps every invocation away from one.   *)
LEMMA MergelessSave ==
    ASSUME TypeOK, NoMerges, NEW p \in Procs, OthersKept(p), NEW g, Mergeless(g), NEW l,
           Save(p, g, l), l \notin ActPhase \cup ReconcilePhase \cup {"merge"}
    PROVE  NoMerges'
<1>1. gate' = g /\ pc' = [pc EXCEPT ![p] = l] /\ pc \in [Procs -> PCs]
  BY DEF Save, Goto, TypeOK
<1>2. Mergeless(snap'[p])
  BY NoGateFacts DEF Save, TypeOK, Mergeless, ActionStates
<1>3. ASSUME NEW q \in Procs
      PROVE  Mergeless(snap'[q]) /\ pc'[q] \notin ActPhase \cup ReconcilePhase \cup {"merge"}
  BY <1>1, <1>2, <1>3 DEF NoMerges, OthersKept
<1>4. QED
  BY <1>1, <1>3 DEF NoMerges, Mergeless

(* Nor does a step that writes nothing bring it there.                      *)
LEMMA MergelessQuiet ==
    ASSUME TypeOK, NoMerges, NEW p \in Procs, OthersKept(p), gate' = gate,
           snap'[p] \in {snap[p], NoGate},
           pc'[p] \notin ActPhase \cup ReconcilePhase \cup {"merge"}
    PROVE  NoMerges'
<1>1. Mergeless(snap'[p])
  BY NoGateFacts DEF NoMerges, Mergeless, ActionStates
<1>2. QED
  BY <1>1 DEF NoMerges, Mergeless, OthersKept

LEMMA MergelessLeave ==
    ASSUME TypeOK, NoMerges, NEW p \in Procs, OthersKept(p), gate' = gate, Leave(p)
    PROVE  NoMerges'
<1>1. snap'[p] = NoGate /\ pc'[p] = "done"
  BY DEF Leave, Goto, TypeOK
<1>2. QED
  BY <1>1, MergelessQuiet DEF ActPhase, Dispatching, ReconcilePhase

(* What is written to a gate without a merge.                               *)
LEMMA MergelessWrites ==
    ASSUME NEW g \in Gates, Mergeless(g)
    PROVE  /\ g.rounds # <<>> => Mergeless(Abandon(g))
           /\ Mergeless([NoGate EXCEPT !.status = "ready"])
           /\ Mergeless([g EXCEPT !.status = "blocked"])
           /\ Mergeless([g EXCEPT !.status = "blocked", !.action = NoAction])
           /\ Mergeless([g EXCEPT !.status = "completed",
                            !.action = [NoAction EXCEPT !.status = "authorized"]])
           /\ \A p \in Procs : seen[p] \in Revisions => Mergeless(Reserved(g, p))
           /\ \A n \in 1..Len(g.rounds), r \in Verdicts \cup {"error"} :
                 Mergeless(Reviewed(g, n, r))
<1> USE DEF Mergeless, ActionStates
<1>1. g.rounds # <<>> => Mergeless(Abandon(g))
  BY AbandonFacts
<1>2. Mergeless([NoGate EXCEPT !.status = "ready"])
  BY NoGateFacts DEF NoGate
<1>3. /\ Mergeless([g EXCEPT !.status = "blocked"])
      /\ Mergeless([g EXCEPT !.status = "blocked", !.action = NoAction])
      /\ Mergeless([g EXCEPT !.status = "completed",
                       !.action = [NoAction EXCEPT !.status = "authorized"]])
  BY NoGateFacts DEF Gates, NoAction
<1>4. \A p \in Procs : seen[p] \in Revisions => Mergeless(Reserved(g, p))
  BY ReservedFacts
<1>5. \A n \in 1..Len(g.rounds), r \in Verdicts \cup {"error"} : Mergeless(Reviewed(g, n, r))
  BY ReviewedFacts DEF ReviewedStatus
<1>6. QED
  BY <1>1, <1>2, <1>3, <1>4, <1>5

LEMMA MergelessStep ==
    ASSUME OnAgreement = "proceed", IInv, NoMerges, NEW p \in Procs, Step(p) \/ Stop(p)
    PROVE  NoMerges'
<1>1. /\ TypeOK /\ OthersKept(p) /\ Known(p) /\ gate \in Gates /\ snap[p] \in Gates
      /\ Mergeless(gate) /\ Mergeless(snap[p])
      /\ pc[p] \notin ActPhase \cup ReconcilePhase \cup {"merge"}
  BY Frame DEF IInv, TypeOK, NoMerges
<1>2. CASE Refuse(p)
  BY <1>1, <1>2, MergelessLeave DEF Refuse
<1>3. CASE NewGate(p)
  BY <1>1, <1>3, MergelessSave, MergelessWrites
     DEF NewGate, ActPhase, Dispatching, ReconcilePhase
<1>4. CASE Continue(p)
  <2>1. CASE Leave(p) /\ UNCHANGED gate
    BY <1>1, <2>1, MergelessLeave
  <2>2. CASE gate.status = "reviewing" /\ Save(p, Abandon(gate), "approve")
    <3>1. gate.rounds # <<>>
      BY <2>2 DEF IInv, GateOK, LeaseOK
    <3>2. QED
      BY <1>1, <2>2, <3>1, MergelessSave, MergelessWrites DEF ActPhase, Dispatching,
         ReconcilePhase
  <2>3. CASE Save(p, gate, "done") \/ Save(p, gate, "approve")
    BY <1>1, <2>3, MergelessSave DEF ActPhase, Dispatching, ReconcilePhase
  <2>4. QED
    BY <1>1, <1>4, <2>1, <2>2, <2>3 DEF Continue, Mergeless
<1>5. CASE MainApproves(p) /\ ~Refuse(p)
  <2>1. ~RetryableAction(snap[p])
    BY <1>1 DEF RetryableAction, Mergeless, ActionStates
  <2>2. pc'[p] \in {"review", "supersede", "agree"} /\ gate' = gate /\ snap' = snap
    BY <1>1, <1>5, <2>1 DEF MainApproves, Goto, TypeOK
  <2>3. QED
    BY <1>1, <2>2, MergelessQuiet DEF ActPhase, Dispatching, ReconcilePhase
<1>6. CASE Supersede(p) /\ ~Refuse(p)
  BY <1>1, <1>6, MergelessSave, MergelessWrites
     DEF Supersede, ActPhase, Dispatching, ReconcilePhase
<1>7. CASE \/ (CaptureForReview(p) /\ ~Refuse(p)) \/ LaunchPeer(p) \/ SpawnDetached(p)
           \/ Collect(p)
  <2>1. /\ gate' = gate /\ snap' = snap
        /\ pc'[p] \in {"reserve", "waiting", "reviewed"}
    BY <1>1, <1>7 DEF CaptureForReview, LaunchPeer, SpawnDetached, Collect, Goto, TypeOK
  <2>2. QED
    BY <1>1, <2>1, MergelessQuiet DEF ActPhase, Dispatching, ReconcilePhase
<1>8. CASE Reserve(p) /\ ~Refuse(p)
  <2>1. seen[p] \in Revisions
    BY <1>1, <1>8 DEF Reserve, Known, LocalOK
  <2>2. CASE Save(p, [gate EXCEPT !.status = "blocked"], "done")
    BY <1>1, <2>2, MergelessSave, MergelessWrites DEF ActPhase, Dispatching, ReconcilePhase
  <2>3. CASE Save(p, Reserved(gate, p), "peer")
    BY <1>1, <2>1, <2>3, MergelessSave, MergelessWrites
       DEF ActPhase, Dispatching, ReconcilePhase
  <2>4. QED
    BY <1>8, <2>2, <2>3 DEF Reserve
<1>9. CASE FinishReview(p) /\ ~Refuse(p)
  <2> DEFINE n == Len(snap[p].rounds)
             l == IF result[p] = "approve" THEN "agree" ELSE "done"
  <2>1. Save(p, Reviewed(gate, n, result[p]), l) /\ l \in {"agree", "done"}
    BY <1>9 DEF FinishReview
  <2>2. result[p] \in Verdicts \cup {"error"} /\ gate = snap[p] /\ gate.rounds # <<>>
    BY <1>1, <1>9 DEF FinishReview, Known, LocalOK, ReviewerAlone, ReviewPhase, IInv,
                      GateOK, LeaseOK
  <2>3. n \in 1..Len(gate.rounds)
    BY <1>1, <2>2, LastFacts
  <2>4. Mergeless(Reviewed(gate, n, result[p]))
    <3> HIDE DEF n
    <3>1. QED
      BY <1>1, <2>2, <2>3, MergelessWrites
  <2>5. QED
    <3> HIDE DEF n, l
    <3>1. QED
      BY <1>1, <2>1, <2>4, MergelessSave DEF ActPhase, Dispatching, ReconcilePhase
<1>10. CASE CompleteAgreement(p) /\ ~Refuse(p)
  <2>1. CASE Save(p, [gate EXCEPT !.status = "completed",
                         !.action = [NoAction EXCEPT !.status = "authorized"]], "done")
    BY <1>1, <2>1, MergelessSave, MergelessWrites DEF ActPhase, Dispatching, ReconcilePhase
  <2>2. CASE Leave(p) /\ UNCHANGED gate
    BY <1>1, <2>2, MergelessLeave
  <2>3. QED
    BY <1>10, <2>1, <2>2 DEF CompleteAgreement
<1>11. \/ Refuse(p) \/ NewGate(p) \/ Continue(p) \/ MainApproves(p) \/ Supersede(p)
       \/ CaptureForReview(p) \/ Reserve(p) \/ LaunchPeer(p) \/ SpawnDetached(p)
       \/ Collect(p) \/ FinishReview(p) \/ CompleteAgreement(p)
  BY <1>1 DEF Step, Stop, Reconcile, ReconcileQueue, SaveReconciled, ReserveMerge, Precheck,
              SaveAttempting, Dispatch, ReconcileDispatch, ReconcileDispatchQueue,
              SaveAction, ActPhase, Dispatching, ReconcilePhase
<1>12. QED
  BY <1>2, <1>3, <1>4, <1>5, <1>6, <1>7, <1>8, <1>9, <1>10, <1>11

(* Where merges are not, only a completed agreement completes the gate.     *)
LEMMA CompletesOnce ==
    ASSUME OnAgreement = "proceed", IInv, NoMerges, NEW p \in Procs, Step(p) \/ Stop(p),
           gate.status # "completed",
           ~(CompleteAgreement(p) /\ gate.status = "agreed" /\ SameApproval(gate, snap[p]))
    PROVE  gate'.status # "completed"
<1>1. /\ TypeOK /\ Known(p) /\ gate \in Gates /\ snap[p] \in Gates
      /\ pc[p] \notin ActPhase \cup ReconcilePhase \cup {"merge"}
  BY DEF IInv, TypeOK, NoMerges
<1>2. CASE gate' = gate
  BY <1>2
<1>3. CASE NewGate(p)
  BY <1>3, NoGateFacts DEF NewGate, Save, NoGate
<1>4. CASE Continue(p) /\ gate' # gate
  <2>1. gate' = Abandon(gate) /\ gate.rounds # <<>>
    BY <1>4 DEF Continue, Save, IInv, GateOK, LeaseOK
  <2>2. QED
    BY <1>1, <2>1, AbandonFacts
<1>5. CASE Supersede(p) /\ gate' # gate
  BY <1>1, <1>5 DEF Supersede, Save, Refuse, Gates
<1>6. CASE Reserve(p) /\ gate' # gate
  <2>1. seen[p] \in Revisions
    BY <1>1, <1>6 DEF Reserve, Known, LocalOK
  <2>2. gate' = [gate EXCEPT !.status = "blocked"] \/ gate' = Reserved(gate, p)
    BY <1>6 DEF Reserve, Save, Refuse
  <2>3. QED
    BY <1>1, <2>1, <2>2, ReservedFacts DEF Gates
<1>7. CASE FinishReview(p) /\ gate' # gate
  <2> DEFINE n == Len(snap[p].rounds)
  <2>1. gate' = Reviewed(gate, n, result[p])
    BY <1>7 DEF FinishReview, Save, Refuse
  <2>2. result[p] \in Verdicts \cup {"error"} /\ gate = snap[p] /\ gate.rounds # <<>>
    BY <1>1, <1>7 DEF FinishReview, Known, LocalOK, ReviewerAlone, ReviewPhase, IInv,
                      GateOK, LeaseOK
  <2>3. n \in 1..Len(gate.rounds)
    BY <1>1, <2>2, LastFacts
  <2>4. QED
    <3> HIDE DEF n
    <3>1. gate'.status = ReviewedStatus(result[p], n)
      BY <1>1, <2>1, <2>2, <2>3, ReviewedFacts
    <3>2. QED
      BY <3>1 DEF ReviewedStatus
<1>8. gate' = gate \/ NewGate(p) \/ Continue(p) \/ Supersede(p) \/ Reserve(p) \/ FinishReview(p)
  BY <1>1 DEF Step, Stop, Refuse, MainApproves, CaptureForReview, LaunchPeer, SpawnDetached,
              Collect, CompleteAgreement, Reconcile, ReconcileQueue, SaveReconciled,
              ReserveMerge, Precheck, SaveAttempting, Dispatch, ReconcileDispatch,
              ReconcileDispatchQueue, SaveAction, ActPhase, Dispatching, ReconcilePhase
<1>9. QED
  BY <1>2, <1>3, <1>4, <1>5, <1>6, <1>7, <1>8

(* Only the completion of an agreement writes a certificate, or completes.  *)
LEMMA CertificateStep ==
    ASSUME OnAgreement = "proceed", IInv, CertifiedInv, NEW p \in Procs, Step(p) \/ Stop(p)
    PROVE  CompletedCertified'
<1>1. TypeOK /\ Mergeless(gate) /\ NoMerges' /\ OutcomeKept
  BY MergelessStep, StepOK DEF IInv, CertifiedInv, NoMerges
<1>2. CASE CompleteAgreement(p) /\ gate.status = "agreed" /\ SameApproval(gate, snap[p])
  <2>1. gate' = gate \/ (gate'.rounds = gate.rounds /\ certificate' = Last(gate).revision)
    <3>1. CASE Save(p, [gate EXCEPT !.status = "completed",
                           !.action = [NoAction EXCEPT !.status = "authorized"]], "done")
      BY <1>1, <1>2, <3>1 DEF CompleteAgreement, SameApproval, Save, TypeOK, Gates
    <3>2. CASE gate' = gate
      BY <3>2
    <3>3. QED
      BY <1>2, <3>1, <3>2 DEF CompleteAgreement
  <2>2. QED
    BY <1>2, <2>1 DEF CompletedCertified, Last
<1>3. CASE ~(CompleteAgreement(p) /\ gate.status = "agreed" /\ SameApproval(gate, snap[p]))
  <2>1. certificate' = certificate
    BY <1>3 DEF Step, Stop, Refuse, NewGate, Continue, Reconcile, ReconcileQueue,
                SaveReconciled, MainApproves, Supersede, CaptureForReview, Reserve,
                LaunchPeer, SpawnDetached, Collect, FinishReview, CompleteAgreement,
                ReserveMerge, Precheck, SaveAttempting, Dispatch, ReconcileDispatch,
                ReconcileDispatchQueue, SaveAction
  <2>2. gate.status # "completed" => gate'.status # "completed"
    BY <1>3, CompletesOnce DEF CertifiedInv
  <2>3. QED
    BY <1>1, <2>1, <2>2 DEF CertifiedInv, CompletedCertified, OutcomeKept, Last
<1>4. QED
  BY <1>2, <1>3

LEMMA CertifiedNext ==
    ASSUME OnAgreement = "proceed", IInv, CertifiedInv, [Next]_vars
    PROVE  CertifiedInv'
<1>1. CASE \E p \in Procs : Step(p) \/ Stop(p)
  BY <1>1, MergelessStep, CertificateStep DEF CertifiedInv
<1>2. CASE \/ \E p \in Procs : RunnerStarts(p) \/ RunnerEnds(p) \/ RunnerKilled(p)
           \/ World \/ UNCHANGED vars
  <2>1. UNCHANGED <<gate, certificate, pc, snap>>
    BY <1>2, WorldFacts DEF RunnerStarts, RunnerEnds, RunnerKilled, IInv, GateOK, Outside, vars
  <2>2. QED
    BY <2>1 DEF CertifiedInv, NoMerges, Mergeless, CompletedCertified, Last
<1>3. QED
  BY <1>1, <1>2 DEF Next

(* A gate that authorizes its main agent is completed only with its          *)
(* certificate written, and for the revision of its last round.              *)
THEOREM Certification ==
    ASSUME OnAgreement = "proceed"
    PROVE  Spec => []CompletedCertified
<1>1. Init => CertifiedInv
  BY NoGateFacts DEF Init, CertifiedInv, NoMerges, Mergeless, CompletedCertified,
                     ActionStates, ActPhase, Dispatching, ReconcilePhase
<1>2. IInv /\ CertifiedInv /\ [Next]_vars => CertifiedInv'
  BY CertifiedNext
<1>3. CertifiedInv => CompletedCertified
  BY DEF CertifiedInv
<1>4. QED
  BY <1>1, <1>2, <1>3, Invariance, PTL DEF Spec

-----------------------------------------------------------------------------
(* The agreement gate implements the agreement of module Agreement: every  *)
(* step of the gate attests, consents, lands, decides or stutters there.   *)

(* The refinement mapping of A. *)
Attestations == {gate.rounds[i].revision : i \in 1..Len(gate.rounds)}
Consented == IF Approved(gate) THEN Last(gate).revision ELSE NoRevision
Outcome == IF gate.status = "completed" THEN Last(gate).revision ELSE NoRevision

(* The abstract actions under the mapping. *)
AttestStep(r) ==
    /\ Outcome = NoRevision
    /\ Attestations' = Attestations \cup {r} /\ Consented' = NoRevision
    /\ artifact'.landed = artifact.landed /\ Outcome' = Outcome
ConsentStep(r) ==
    /\ Outcome = NoRevision /\ Consented = NoRevision /\ r \in Attestations
    /\ Consented' = r
    /\ Attestations' = Attestations /\ artifact'.landed = artifact.landed
    /\ Outcome' = Outcome
LandStep(r) ==
    /\ artifact.landed = NoRevision
    /\ artifact'.landed = r
    /\ Attestations' = Attestations /\ Consented' = Consented /\ Outcome' = Outcome
DecideStep ==
    /\ Outcome = NoRevision /\ Consented # NoRevision
    /\ OnAgreement = "merge" => artifact.landed = Consented
    /\ Outcome' = Consented
    /\ Attestations' = Attestations /\ Consented' = Consented
    /\ artifact'.landed = artifact.landed
Stutter ==
    /\ Attestations' = Attestations /\ Consented' = Consented
    /\ artifact'.landed = artifact.landed /\ Outcome' = Outcome

LEMMA AbstractStep ==
    ASSUME \/ \E r \in Revisions : AttestStep(r) \/ ConsentStep(r) \/ LandStep(r)
           \/ DecideStep
           \/ Stutter
    PROVE  [A!Next]_(A!vars)
BY DEF AttestStep, ConsentStep, LandStep, DecideStep, Stutter, Attestations, Consented,
       Outcome, A!Next, A!vars, A!Attest, A!Consent, A!Land, A!Decide

(* The latest round of a gate whose rounds are typed. *)
LEMMA LastRevision ==
    ASSUME NEW g \in Gates, g.rounds # <<>>
    PROVE  Last(g).revision \in Revisions /\ Last(g).revision # NoRevision
BY LastFacts, GateAssumption DEF Rounds

(* A write that keeps the rounds decides at most the outcome. *)
LEMMA SameRoundsStep ==
    ASSUME IInv, IInv', OutcomeKept, gate'.rounds = gate.rounds, artifact' = artifact
    PROVE  DecideStep \/ Stutter
<1>1. /\ Attestations' = Attestations /\ Consented' = Consented
      /\ Last(gate)' = Last(gate) /\ Approved(gate)' = Approved(gate)
  BY DEF Attestations, Consented, Approved, Last
<1>2. CASE gate.status = "completed"
  BY <1>1, <1>2 DEF OutcomeKept, Stutter, Outcome
<1>3. CASE gate.status # "completed" /\ gate'.status # "completed"
  BY <1>1, <1>3 DEF Stutter, Outcome
<1>4. CASE gate.status # "completed" /\ gate'.status = "completed"
  <2>1. Approved(gate)' /\ (OnAgreement = "merge" => artifact.landed = Last(gate)'.revision)
    BY <1>4 DEF IInv, GateOK, AgreementStands, CompletedMergeLanded
  <2>2. Approved(gate) /\ Consented = Last(gate).revision
    BY <1>1, <2>1 DEF Consented
  <2>3. Consented # NoRevision
    BY <2>2, LastRevision DEF IInv, TypeOK, Approved
  <2>4. QED
    BY <1>1, <1>4, <2>1, <2>2, <2>3 DEF DecideStep, Outcome
<1>5. QED
  BY <1>2, <1>3, <1>4

LEMMA WorldRefines ==
    ASSUME IInv, IInv', World
    PROVE  Stutter \/ \E r \in Revisions : LandStep(r)
<1>1. gate' = gate /\ (Merged => artifact' = artifact)
  BY WorldFacts DEF IInv, GateOK, Outside
<1>2. Attestations' = Attestations /\ Consented' = Consented /\ Outcome' = Outcome
  BY <1>1 DEF Attestations, Consented, Outcome, Approved, Last
<1>3. Merged <=> artifact.landed # NoRevision
  BY DEF IInv, GateOK, LandedOnce
<1>4. artifact'.landed \in Revisions \cup {NoRevision}
  BY DEF IInv, TypeOK, Artifacts
<1>5. CASE artifact'.landed = artifact.landed
  BY <1>2, <1>5 DEF Stutter
<1>6. CASE artifact'.landed # artifact.landed
  BY <1>1, <1>2, <1>3, <1>4, <1>6 DEF LandStep
<1>7. QED
  BY <1>5, <1>6

LEMMA AbandonRefines ==
    ASSUME IInv, gate.status = "reviewing", gate' = Abandon(gate), artifact' = artifact
    PROVE  Stutter
<1>1. gate \in Gates /\ gate.rounds # <<>>
  BY DEF IInv, TypeOK, GateOK, LeaseOK
<1> DEFINE n == Len(gate.rounds)
<1>2. /\ Len(gate'.rounds) = n /\ gate'.status = "blocked" /\ gate'.rounds # <<>>
      /\ \A i \in 1..n : gate'.rounds[i].revision = gate.rounds[i].revision
      /\ n \in 1..n /\ Last(gate) = gate.rounds[n]
  BY <1>1, AbandonFacts, LastFacts
<1>3. Last(gate)'.status = "approve" <=> Last(gate).status = "approve"
  <2> DEFINE s == IF Last(gate).status = "reviewing" THEN "blocked" ELSE Last(gate).status
  <2>1. gate'.rounds = Decided(gate.rounds, n, s)
    BY <1>1 DEF Abandon, Gates
  <2>2. Last(gate).status \in Verdicts \cup {"reviewing"}
    BY <1>1, LastFacts DEF Rounds
  <2>3. gate'.rounds[n].status = s
    <3>1. s \in Verdicts \cup {"reviewing"} /\ gate.rounds \in Seq(Rounds)
      BY <1>1, <2>2 DEF Verdicts, Gates
    <3> HIDE DEF s
    <3>2. QED
      BY <1>2, <2>1, <3>1, DecidedFacts
  <2>4. QED
    BY <1>2, <2>3 DEF Last
<1>4. Attestations' = Attestations
  BY <1>2 DEF Attestations
<1>5. Consented' = Consented
  BY <1>1, <1>2, <1>3 DEF Consented, Approved, Last
<1>6. QED
  BY <1>2, <1>4, <1>5 DEF Stutter, Outcome

LEMMA ReserveRefines ==
    ASSUME IInv, NEW p \in Procs, Reserve(p), gate' = Reserved(gate, p), artifact' = artifact
    PROVE  \E r \in Revisions : AttestStep(r)
<1> DEFINE n == Len(gate.rounds)
<1>1. gate \in Gates /\ seen[p] \in Revisions
  BY DEF IInv, TypeOK, Known, LocalOK, Reserve
<1>2. /\ gate'.status = "reviewing" /\ Len(gate'.rounds) = n + 1
      /\ Last(gate)' = [attempt |-> p, revision |-> seen[p], status |-> "reviewing"]
      /\ \A i \in 1..n : gate'.rounds[i] = gate.rounds[i]
  BY <1>1, ReservedFacts DEF Last
<1>3. gate.status # "completed"
  <2>1. gate' # gate
    BY <1>1, <1>2 DEF Gates
  <2>2. Reservable(gate)
    BY <2>1 DEF Reserve, Refuse
  <2>3. QED
    BY <2>2 DEF Reservable
<1>4. n \in Nat /\ gate'.rounds[n + 1].revision = seen[p]
  BY <1>1, <1>2 DEF Gates, Last
<1>5. Attestations' = Attestations \cup {seen[p]}
  <2>1. \A i \in 1..Len(gate'.rounds) : i \in 1..n \/ i = n + 1
    BY <1>2, <1>4
  <2>2. Attestations' \subseteq Attestations \cup {seen[p]}
    BY <1>2, <1>4, <2>1 DEF Attestations
  <2>3. \A i \in 1..n : i \in 1..Len(gate'.rounds)
    BY <1>2, <1>4
  <2>4. Attestations \subseteq Attestations'
    BY <1>2, <2>3 DEF Attestations
  <2>5. n + 1 \in 1..Len(gate'.rounds)
    BY <1>2, <1>4
  <2>6. seen[p] \in Attestations'
    BY <1>4, <2>5 DEF Attestations
  <2>7. QED
    BY <2>2, <2>4, <2>6
<1>6. Consented' = NoRevision
  BY <1>2 DEF Consented, Approved
<1>7. QED
  BY <1>1, <1>2, <1>3, <1>5, <1>6 DEF AttestStep, Outcome

LEMMA FinishReviewRefines ==
    ASSUME IInv, NEW p \in Procs, FinishReview(p), gate' # gate, artifact' = artifact
    PROVE  Stutter \/ \E r \in Revisions : ConsentStep(r)
<1> DEFINE n == Len(gate.rounds)
           r == result[p]
<1>1. /\ gate \in Gates /\ gate = snap[p] /\ gate.status = "reviewing"
      /\ gate.rounds # <<>> /\ Last(gate).status = "reviewing"
      /\ r \in Verdicts \cup {"error"}
  BY DEF FinishReview, IInv, TypeOK, GateOK, LeaseOK, Known, ReviewerAlone, ReviewPhase,
         LocalOK
<1>2. n \in 1..n /\ Last(gate) = gate.rounds[n] /\ Last(gate).revision \in Revisions
  BY <1>1, LastFacts, LastRevision
<1>3. gate' = Reviewed(gate, n, r)
  BY <1>1 DEF FinishReview, Save, Refuse
<1>4. /\ gate'.status = ReviewedStatus(r, n) /\ Len(gate'.rounds) = n /\ gate'.rounds # <<>>
      /\ gate'.rounds[n].status = RoundStatus(r)
      /\ \A i \in 1..n : gate'.rounds[i].revision = gate.rounds[i].revision
  <2> HIDE DEF n, r
  <2>1. n \in 1..Len(gate.rounds)
    BY <1>2 DEF n
  <2>2. QED
    BY <1>1, <1>3, <2>1, ReviewedFacts DEF n
<1>5. Outcome = NoRevision /\ Outcome' = NoRevision
  BY <1>1, <1>4 DEF Outcome, ReviewedStatus
<1>6. Attestations' = Attestations /\ Last(gate).revision \in Attestations
  BY <1>2, <1>4 DEF Attestations
<1>7. Consented = NoRevision
  BY <1>1 DEF Consented, Approved
<1>8. CASE r = "approve"
  <2>1. Consented' = Last(gate).revision
    BY <1>2, <1>4, <1>8 DEF Consented, Approved, Last, RoundStatus
  <2>2. QED
    BY <1>2, <1>5, <1>6, <1>7, <2>1 DEF ConsentStep
<1>9. CASE r # "approve"
  <2>1. Consented' = NoRevision
    BY <1>2, <1>4, <1>9 DEF Consented, Approved, Last, RoundStatus
  <2>2. QED
    BY <1>5, <1>6, <1>7, <2>1 DEF Stutter
<1>10. QED
  BY <1>8, <1>9

(* Every other step of an invocation keeps the rounds. *)
LEMMA RoundsSame ==
    ASSUME IInv, NEW p \in Procs, Step(p) \/ Stop(p)
    PROVE  \/ gate'.rounds = gate.rounds
           \/ gate.status = "reviewing" /\ gate' = Abandon(gate)
           \/ Reserve(p) /\ gate' = Reserved(gate, p)
           \/ FinishReview(p) /\ gate' # gate
<1> USE DEF Save, Leave, Refuse
<1>1. CASE NewGate(p)
  BY <1>1, NoGateFacts DEF NewGate, IInv, GateOK, LeaseOK, NoGate
<1>2. CASE Continue(p)
  BY <1>2 DEF Continue
<1>3. CASE SaveReconciled(p) \/ Supersede(p)
  <2>1. snap[p] \in Gates
    BY DEF IInv, TypeOK
  <2>2. gate' = gate \/ gate'.rounds = snap[p].rounds
    BY <1>3, <2>1 DEF SaveReconciled, Supersede, SetAction, Gates
  <2>3. gate' = gate \/ gate = snap[p]
    BY <1>3 DEF SaveReconciled, Supersede, Unchanged
  <2>4. QED
    BY <2>2, <2>3
<1>4. CASE Reserve(p)
  BY <1>4 DEF Reserve, IInv, TypeOK, Gates
<1>5. CASE FinishReview(p)
  BY <1>5
<1>6. CASE CompleteAgreement(p) \/ ReserveMerge(p)
  BY <1>6 DEF CompleteAgreement, ReserveMerge, IInv, TypeOK, Gates
<1>7. CASE SaveAttempting(p) \/ SaveAction(p)
  <2>1. gate.action.attempt = p => gate.rounds = snap[p].rounds
    BY <1>7 DEF SaveAttempting, SaveAction, IInv, Known, ActorOwnsRounds, ActPhase,
                Dispatching
  <2>2. snap[p] \in Gates
    BY DEF IInv, TypeOK
  <2>3. \/ gate' = gate
        \/ /\ gate.action.attempt = p
           /\ \E status \in Statuses, action \in ActionStatuses :
                 gate' = SetAction(snap[p], status, action)
    <3>1. result[p] \in Verdicts \cup {"error"} \cup ActionStatuses
      BY DEF IInv, TypeOK
    <3>2. CASE SaveAttempting(p)
      BY <3>2 DEF SaveAttempting, MaySaveAction, Statuses, ActionStates, ActionStatuses
    <3>3. CASE SaveAction(p)
      <4>1. pc[p] = "act" => result[p] \in ActionStatuses
        BY DEF IInv, Known, LocalOK
      <4>2. ReconciledStatus(result[p]) \in Statuses
        BY DEF ReconciledStatus, Statuses, ActionStates
      <4>3. QED
        BY <3>3, <4>1, <4>2 DEF SaveAction, MaySaveAction
    <3>4. QED
      BY <1>7, <3>2, <3>3
  <2>4. QED
    BY <2>1, <2>2, <2>3 DEF SetAction, Gates
<1>8. CASE \/ Reconcile(p) \/ ReconcileQueue(p) \/ MainApproves(p)
           \/ CaptureForReview(p) \/ LaunchPeer(p) \/ SpawnDetached(p) \/ Collect(p)
           \/ Precheck(p) \/ Dispatch(p)
           \/ ReconcileDispatch(p) \/ ReconcileDispatchQueue(p) \/ Stop(p)
  BY <1>8 DEF Reconcile, ReconcileQueue, MainApproves, CaptureForReview, LaunchPeer,
              SpawnDetached, Collect, Precheck, Dispatch, ReconcileDispatch,
              ReconcileDispatchQueue, Stop
<1>9. QED
  BY <1>1, <1>2, <1>3, <1>4, <1>5, <1>6, <1>7, <1>8 DEF Step

LEMMA NextRefines ==
    ASSUME IInv, [Next]_vars
    PROVE  [A!Next]_(A!vars)
<1>1. IInv' /\ OutcomeKept
  BY NextOK
<1>2. CASE \E p \in Procs : Step(p) \/ Stop(p)
  <2>1. PICK p \in Procs : Step(p) \/ Stop(p)
    BY <1>2
  <2>2. artifact' = artifact
    BY <2>1, Frame DEF OthersKept, IInv
  <2>3. CASE gate'.rounds = gate.rounds
    BY <1>1, <2>2, <2>3, SameRoundsStep, AbstractStep
  <2>4. CASE gate.status = "reviewing" /\ gate' = Abandon(gate)
    BY <2>2, <2>4, AbandonRefines, AbstractStep
  <2>5. CASE Reserve(p) /\ gate' = Reserved(gate, p)
    BY <2>2, <2>5, ReserveRefines, AbstractStep
  <2>6. CASE FinishReview(p) /\ gate' # gate
    BY <2>2, <2>6, FinishReviewRefines, AbstractStep
  <2>7. QED
    BY <2>1, <2>3, <2>4, <2>5, <2>6, RoundsSame
<1>3. CASE \/ \E p \in Procs : RunnerStarts(p) \/ RunnerEnds(p) \/ RunnerKilled(p)
           \/ UNCHANGED vars
  <2>1. gate' = gate /\ artifact' = artifact
    BY <1>3 DEF RunnerStarts, RunnerEnds, RunnerKilled, vars
  <2>2. QED
    BY <1>1, <2>1, SameRoundsStep, AbstractStep
<1>4. CASE World
  BY <1>1, <1>4, WorldRefines, AbstractStep
<1>5. QED
  BY <1>2, <1>3, <1>4 DEF Next

(* The gate implements Agreement: it decides once, on a consented revision   *)
(* that was attested, and after that revision landed if it is to merge.      *)
THEOREM Implements == Spec => AgreementSpec
<1>1. Init => A!Init
  BY NoGateFacts DEF Init, A!Init, Approved
<1>2. IInv /\ [Next]_vars => [A!Next]_(A!vars)
  BY NextRefines
<1>3. QED
  BY <1>1, <1>2, Invariance, PTL DEF Spec, AgreementSpec, A!Spec

=============================================================================
