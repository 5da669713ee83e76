--------------------------- MODULE GateInvariant ----------------------------
(***************************************************************************)
(* The inductive invariant behind the gate's safety properties: what       *)
(* gate.json says of the world, and what each invocation may still rely on *)
(* while others are writing.                                               *)
(***************************************************************************)
EXTENDS Gate

ReviewPhase == {"peer", "waiting", "reviewed"}
Dispatching == {"dispatch", "attempt"}
ActPhase == Dispatching \cup {"precheck", "sent", "postqueue", "act"}
ReconcilePhase == {"reconcile", "queue", "reconciled"}
ContinuePhase == ReconcilePhase \cup {"approve", "supersede"}
MergeSeen == {"merged", "merged_revision_mismatch"}

Merged == artifact.state = "MERGED"
Started(p) == p # NoProc => pc[p] # "idle"

-----------------------------------------------------------------------------
(* The files and GitHub *)

(* The lease is held only while a round is under review. *)
LeaseOK ==
    /\ gate.status = "none" => gate = NoGate
    /\ gate.lease # NoProc => gate.status = "reviewing"
    /\ gate.status = "reviewing" => gate.rounds # <<>>

(* Rounds, actions and requests belong to invocations that have started. *)
OwnersStarted ==
    /\ \A i \in 1..Len(gate.rounds) : Started(gate.rounds[i].attempt)
    /\ Started(gate.action.attempt)
    /\ \A r \in requests : Started(r.by)

(* Only a merged pull request has landed, or is recorded as a mismatch. *)
LandedOnce ==
    /\ Merged <=> artifact.landed # NoRevision
    /\ gate.action.status = "merged_revision_mismatch" => Merged

(* A merge action can only be dispatched by one invocation. *)
OneDispatching ==
    \A p, q \in Procs : pc[p] \in Dispatching /\ pc[q] \in Dispatching => p = q

GateOK == /\ LeaseOK
          /\ OwnersStarted
          /\ LandedOnce
          /\ OneDispatching
          /\ RoundsAttested
          /\ AgreementStands
          /\ CompletedMergeLanded
          /\ RequestsApproved

-----------------------------------------------------------------------------
(* One invocation *)

(* What it holds in memory is what its next step needs. *)
LocalOK(p) ==
    /\ pc[p] = "reserve" => seen[p] \in Revisions /\ seen[p] = expect[p]
    /\ pc[p] = "reviewed" => result[p] \in Verdicts \cup {"error"}
    /\ pc[p] \in {"reconciled", "act"} => result[p] \in ActionStatuses
    /\ pc[p] \in {"agree", "merge"} => Last(snap[p]).revision = expect[p]
    /\ Started(snap[p].action.attempt)

(* Nobody writes gate.json while its reviewer is at work. *)
ReviewerAlone(p) ==
    pc[p] \in ReviewPhase =>
        /\ gate = snap[p]
        /\ gate.status = "reviewing" /\ gate.lease = p
        /\ Last(gate).status = "reviewing" /\ Last(gate).attempt = p

(* A continued gate was neither new, nor under review, nor completed. *)
SnapshotOK(p) ==
    /\ pc[p] \in ContinuePhase =>
          /\ snap[p].status \notin {"none", "reviewing", "completed"}
          /\ snap[p].lease = NoProc
    /\ pc[p] \in ReconcilePhase => snap[p].status \in ActionStates
    /\ pc[p] = "supersede" => snap[p].status \in {"agreed", "action_failed", "blocked"}

(* What it saw of a merge is final. *)
MergeKnown(p) ==
    /\ snap[p].action.status = "merged_revision_mismatch" => Merged
    /\ pc[p] \in {"reconciled", "act"} /\ result[p] \in MergeSeen => Merged
    /\ pc[p] \in {"reconciled", "act"} /\ result[p] = "merged" =>
          LandedAs(Last(snap[p]).revision)

(* Recovery only goes on from an action whose invocation is over. *)
RecoveryOfDead(p) ==
    pc[p] = "queue" \/ (pc[p] = "reconciled" /\ result[p] \notin MergeSeen) =>
        /\ snap[p].status = "action_attempting" =>
              ~LeaseLive(snap[p].action.attempt)
        /\ snap[p].action.status # "merged_revision_mismatch"

(* While it acts on an agreement, an invocation loses the action to another *)
(* only once the pull request is merged, and the approval stays on record.  *)
(* As long as it owns the action, the rounds are those it started from.     *)
ActorOwnsRounds(p) ==
    pc[p] \in ActPhase =>
        /\ snap[p].status = "action_attempting"
        /\ snap[p].action.attempt = p
        /\ snap[p].lease = NoProc
        /\ Approved(snap[p])
        /\ Last(snap[p]).revision = expect[p]
        /\ Len(snap[p].rounds) <= Len(gate.rounds)
        /\ gate.rounds[Len(snap[p].rounds)] = Last(snap[p])
        /\ Merged \/ gate.action.attempt = p
        /\ gate.action.attempt = p =>
              /\ gate.rounds = snap[p].rounds
              /\ gate.lease = NoProc
              /\ \/ gate.status \in {"action_attempting", "completed"}
                 \/ /\ gate.status = "action_failed"
                    /\ gate.action.status = "merged_revision_mismatch"

Known(p) == /\ LocalOK(p)
            /\ ReviewerAlone(p)
            /\ SnapshotOK(p)
            /\ MergeKnown(p)
            /\ RecoveryOfDead(p)
            /\ ActorOwnsRounds(p)

IInv == TypeOK /\ GateOK /\ \A p \in Procs : Known(p)

-----------------------------------------------------------------------------
(* A ledgered peer is the reviewer of the round under review: recovery      *)
(* waits for it as long as the ledger shows it, and its own invocation      *)
(* publishes a verdict only once it is over.                                *)
PeerReviews(p) ==
    /\ peer[p] # "unledgered"
    /\ RunMetaLive(p) => gate.status = "reviewing" /\ Last(gate).attempt = p
    /\ pc[p] = "reviewed" => RunOver(p)

ReviewInv == \A p \in Procs : PeerReviews(p)

(* A gate that only authorizes its main agent never starts a merge action,  *)
(* so only a completed agreement completes it.                              *)
Mergeless(g) == g.status \notin ActionStates /\ g.action.status \in {"none", "authorized"}

NoMerges ==
    /\ Mergeless(gate)
    /\ \A p \in Procs : /\ Mergeless(snap[p])
                         /\ pc[p] \notin ActPhase \cup ReconcilePhase \cup {"merge"}

CertifiedInv == NoMerges /\ CompletedCertified

=============================================================================
