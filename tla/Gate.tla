-------------------------------- MODULE Gate --------------------------------
(***************************************************************************)
(* The agreement gate of subfleet/consensus.py: a main agent and one peer  *)
(* must both approve the same revision of a plan or pull request before    *)
(* the gate authorizes the main to proceed, or merges the pull request.    *)
(*                                                                         *)
(* Every element of Procs is one invocation of `subfleet gate pr`, `gate   *)
(* plan` or `gate continue`.  All of them share gate.json.  A section that *)
(* holds the gate's file lock is one action; the artifact, the queue and   *)
(* the peer's run are read outside it, in actions of their own, so what an *)
(* invocation acts on may be stale.  An invocation reserves at most one    *)
(* review round and at most one merge, so its own name also serves as its  *)
(* pid, as its lease token and as the attempt id of its round and action.  *)
(***************************************************************************)
EXTENDS Naturals, Sequences

CONSTANTS
    Procs,        \* invocations of the gate command
    NoProc,       \* no invocation
    Heads,        \* head commits of the pull request, or contents of the plan
    Bases,        \* tips of the base branch; a plan has one
    NoRevision,   \* no revision
    Kind,         \* "plan" or "pr"
    OnAgreement,  \* "proceed" or "merge"
    MaxRounds,    \* --max-rounds
    Detached      \* whether the peer's run is ledgered before it is started

Revisions == [head: Heads, base: Bases]

ASSUME GateAssumption ==
    /\ NoProc \notin Procs
    /\ NoRevision \notin Revisions
    /\ Kind \in {"plan", "pr"}
    /\ OnAgreement \in {"proceed", "merge"}
    /\ Kind = "plan" => OnAgreement = "proceed"
    /\ MaxRounds \in Nat \ {0}
    /\ Detached \in BOOLEAN

VARIABLES
    gate,         \* gate.json
    certificate,  \* the revision named by certificate.json
    artifact,     \* the plan, or the pull request as GitHub reports it
    requests,     \* merge requests sent to GitHub and not yet decided
    peer,         \* the peer run launched by each invocation
    pc,           \* where each invocation stands
    expect,       \* the revision its main agent attests (--expect-...)
    seen,         \* the revision it captured for review
    snap,         \* the copy of gate.json it works from
    result        \* what it last learnt, and has yet to save

vars == <<gate, certificate, artifact, requests, peer, pc, expect, seen, snap, result>>
world == <<artifact, requests, peer>>

-----------------------------------------------------------------------------
(* gate.json *)

ActionStates == {"action_attempting", "action_queued", "action_failed"}
Statuses == {"none", "ready", "reviewing", "changes_requested", "blocked",
             "agreed", "completed"} \cup ActionStates
Verdicts == {"approve", "changes_requested", "blocked"}

Rounds == [attempt: Procs, revision: Revisions,
           status: Verdicts \cup {"reviewing"}]

ActionStatuses == {"none", "authorized", "prechecking", "attempting",
                   "blocked", "unknown", "merged_revision_mismatch", "merged",
                   "queued", "queue_unknown", "failed", "interrupted",
                   "dequeued"}
Actions == [attempt: Procs \cup {NoProc}, status: ActionStatuses]
NoAction == [attempt |-> NoProc, status |-> "none"]

Gates == [status: Statuses, rounds: Seq(Rounds),
          lease: Procs \cup {NoProc}, action: Actions]
NoGate == [status |-> "none", rounds |-> <<>>,
           lease |-> NoProc, action |-> NoAction]

Last(g) == g.rounds[Len(g.rounds)]
Approved(g) == g.rounds # <<>> /\ Last(g).status = "approve"
Decided(rounds, n, status) == [rounds EXCEPT ![n].status = status]
SetAction(g, status, action) ==
    [g EXCEPT !.status = status, !.action.status = action]

-----------------------------------------------------------------------------
(* The artifact and GitHub *)

PrStates == {"OPEN", "CLOSED", "MERGED"}
Artifacts == [head: Heads, base: Bases, state: PrStates, queued: BOOLEAN,
              landed: Revisions \cup {NoRevision}]
Revision == [head |-> artifact.head, base |-> artifact.base]
Requests == [by: Procs, head: Heads]

(* The revision the merge commit's parents show. *)
Landing == [artifact EXCEPT !.state = "MERGED", !.queued = FALSE,
                            !.landed = Revision]

-----------------------------------------------------------------------------
(* Invocations and peer runs *)

PeerStates == {"none", "entry", "unledgered", "live", "zombie", "gone"}
Running == {"approve", "reconcile", "queue", "reconciled", "supersede",
            "review", "reserve", "peer", "waiting", "reviewed", "agree",
            "merge", "precheck", "dispatch", "attempt", "sent", "postqueue",
            "act"}
PCs == {"idle", "done"} \cup Running

(* Mutants, here and below, are variants of the definition that follows    *)
(* them; no action uses one.                                               *)
LeaseExpires(p) == FALSE                                     \* mutant
LeaseLive(p) == p # NoProc /\ pc[p] \in Running

(* A detached runner that was killed before its finish record is a child    *)
(* of the invocation that waits for it and does not reap it: to everybody   *)
(* its pid is alive, as long as that invocation is.                         *)
Zombie(p) == peer[p] = "zombie" /\ pc[p] = "waiting"

(* The ledger names a run for this attempt, without a finish record and    *)
(* without a recorded pid that is dead.                                    *)
RunNotLookedUp(p) == FALSE                                   \* mutant
RunMetaLive(p) == peer[p] \in {"entry", "live"} \/ Zombie(p)

(* _assert_expected, on a fresh capture of the artifact. *)
AnyRevision(p) == TRUE                                       \* mutant
Attested(p) == expect[p] = Revision

(* _assert_state_unchanged, under the lock. *)
Unchanged(p) == gate = snap[p]

(* _merged_revision_blocker: the landed parents are the approved revision. *)
LandedHead(r) == artifact.landed.head = r.head               \* mutant
LandedAs(r) == artifact.landed = r

(* The latest round is about the revision the main attests now. *)
SameRevision(p) == Last(snap[p]).revision = expect[p]

(* The approval in h is still the latest in g. *)
AnyApproval(g, h) == Approved(g)                             \* mutant
AnyRound(g, h) == g.rounds # <<>>                            \* mutant
SameApproval(g, h) ==
    Approved(g) /\ Last(g).attempt = Last(h).attempt
                /\ Last(g).revision = Last(h).revision

Goto(p, label) == pc' = [pc EXCEPT ![p] = label]
Learn(p, r) == result' = [result EXCEPT ![p] = r]

(* The invocation ends; what it held in memory is gone. *)
Leave(p) == /\ Goto(p, "done")
            /\ seen' = [seen EXCEPT ![p] = NoRevision]
            /\ snap' = [snap EXCEPT ![p] = NoGate]
            /\ Learn(p, "none")

(* It leaves with a GateError: nothing is written. *)
Refuse(p) == Leave(p) /\ UNCHANGED <<gate, certificate, world, expect>>

(* Write g to gate.json and go on from it. *)
Save(p, g, label) == /\ gate' = g
                     /\ Goto(p, label)
                     /\ snap' = [snap EXCEPT ![p] = IF label = "done" THEN NoGate ELSE g]
                     /\ seen' = [seen EXCEPT ![p] = NoRevision]
                     /\ Learn(p, "none")

Init ==
    /\ gate = NoGate
    /\ certificate = NoRevision
    /\ artifact \in [head: Heads, base: Bases, state: {"OPEN"},
                     queued: {FALSE}, landed: {NoRevision}]
    /\ requests = {}
    /\ peer = [p \in Procs |-> "none"]
    /\ pc = [p \in Procs |-> "idle"]
    /\ expect = [p \in Procs |-> NoRevision]
    /\ seen = [p \in Procs |-> NoRevision]
    /\ snap = [p \in Procs |-> NoGate]
    /\ result = [p \in Procs |-> "none"]

-----------------------------------------------------------------------------
(* gate pr / gate plan *)

NewGate(p) ==
    /\ pc[p] = "idle"
    /\ gate.status = "none"
    /\ \E e \in Revisions : e = Revision /\ expect' = [expect EXCEPT ![p] = e]
    /\ Save(p, [NoGate EXCEPT !.status = "ready"], "review")
    /\ UNCHANGED <<certificate, world>>

-----------------------------------------------------------------------------
(* gate continue *)

Abandon(g) ==
    LET status == Last(g).status
    IN  [g EXCEPT !.status = "blocked", !.lease = NoProc,
                  !.rounds = Decided(@, Len(@), IF status = "reviewing"
                                                THEN "blocked" ELSE status)]

Continue(p) ==
    /\ pc[p] = "idle"
    /\ gate.status # "none"
    /\ \E e \in Revisions : expect' = [expect EXCEPT ![p] = e]
    /\ \/ /\ gate.status = "reviewing"
          /\ LeaseLive(gate.lease) \/ RunMetaLive(Last(gate).attempt)
          /\ Leave(p)
          /\ UNCHANGED gate
       \/ /\ gate.status = "reviewing"
          /\ ~LeaseLive(gate.lease)
          /\ ~RunMetaLive(Last(gate).attempt)
          /\ Save(p, Abandon(gate), "approve")
       \/ /\ gate.status # "reviewing"
          /\ Save(p, gate, IF gate.status = "completed" THEN "done"
                           ELSE IF gate.status \in ActionStates THEN "reconcile"
                           ELSE "approve")
    /\ UNCHANGED <<certificate, world>>

(* An earlier merge action left the gate unfinished: look at the pull      *)
(* request.  A merged one is only accepted with the approved parents, and  *)
(* reading those can fail.                                                 *)
Reconcile(p) ==
    /\ pc[p] = "reconcile"
    /\ LET attempting == /\ snap[p].status = "action_attempting"
                         /\ LeaseLive(snap[p].action.attempt)
       IN  \/ /\ artifact.state = "MERGED"
              /\ \/ Learn(p, "merged") /\ LandedAs(Last(snap[p]).revision)
                 \/ Learn(p, "merged_revision_mismatch")
              /\ Goto(p, "reconciled") /\ UNCHANGED <<seen, snap>>
           \/ /\ artifact.state # "MERGED" /\ attempting
              /\ Leave(p)
           \/ /\ artifact.state = "OPEN" /\ ~attempting
              /\ Goto(p, "queue") /\ UNCHANGED <<seen, snap, result>>
           \/ /\ artifact.state = "CLOSED" /\ ~attempting
              /\ Learn(p, "blocked")
              /\ Goto(p, "reconciled") /\ UNCHANGED <<seen, snap>>
    /\ UNCHANGED <<gate, certificate, world, expect>>

(* _merge_pending: TRUE, FALSE, or unknown, which ends the invocation. *)
ReconcileQueue(p) ==
    /\ pc[p] = "queue"
    /\ \/ Leave(p)
       \/ /\ artifact.state = "OPEN"
          /\ artifact.queued \/ snap[p].status # "action_failed"
          /\ Learn(p, CASE artifact.queued -> "queued"
                        [] snap[p].status = "action_attempting" -> "interrupted"
                        [] OTHER -> "dequeued")
          /\ Goto(p, "reconciled") /\ UNCHANGED <<seen, snap>>
       \/ /\ artifact.state = "OPEN"
          /\ ~artifact.queued /\ snap[p].status = "action_failed"
          /\ Goto(p, "approve") /\ UNCHANGED <<seen, snap, result>>
    /\ UNCHANGED <<gate, certificate, world, expect>>

ReconciledStatus(action) ==
    CASE action = "merged"  -> "completed"
      [] action = "blocked" -> "blocked"
      [] action = "queued"  -> "action_queued"
      [] OTHER              -> "action_failed"

(* Write what was found, unless another invocation wrote in between. *)
SaveReconciled(p) ==
    /\ pc[p] = "reconciled"
    /\ IF Unchanged(p)
       THEN Save(p, SetAction(snap[p], ReconciledStatus(result[p]), result[p]),
                 IF result[p] \in {"interrupted", "dequeued"}
                 THEN "approve" ELSE "done")
       ELSE Leave(p) /\ UNCHANGED gate
    /\ UNCHANGED <<certificate, world, expect>>

RetryableAction(g) ==
    \/ g.status = "action_failed"
    \/ g.status = "blocked" /\ g.action.status = "blocked"
    \/ g.status = "agreed" /\ OnAgreement = "merge"

(* --main-approve for exactly the captured revision: complete the agreement *)
(* it belongs to, retry its merge, or start a round.                        *)
MainApproves(p) ==
    /\ pc[p] = "approve"
    /\ LET agreed == snap[p].status = "agreed" /\ OnAgreement = "proceed"
           retry  == RetryableAction(snap[p])
       IN  \/ /\ Attested(p)
              /\ \/ ~agreed /\ ~retry /\ Goto(p, "review")
                 \/ /\ agreed \/ retry
                    /\ Approved(snap[p])
                    /\ Goto(p, IF ~SameRevision(p) THEN "supersede"
                               ELSE IF agreed THEN "agree" ELSE "merge")
              /\ UNCHANGED <<gate, certificate, world, expect, seen, snap, result>>
           \/ Refuse(p)

(* The main now approves another revision than the agreed one. *)
Supersede(p) ==
    /\ pc[p] = "supersede"
    /\ \/ /\ Unchanged(p)
          /\ Save(p, [snap[p] EXCEPT !.status = "blocked", !.action = NoAction],
                  "review")
          /\ UNCHANGED <<certificate, world, expect>>
       \/ ~Unchanged(p) /\ Refuse(p)

-----------------------------------------------------------------------------
(* _review_round *)

CaptureForReview(p) ==
    /\ pc[p] = "review"
    /\ \/ /\ Attested(p)
          /\ seen' = [seen EXCEPT ![p] = Revision]
          /\ Goto(p, "reserve")
          /\ UNCHANGED <<gate, certificate, world, expect, snap, result>>
       \/ Refuse(p)

ReservableOnceDone(g) == g.status \in {"ready", "blocked", "completed"}   \* mutant
Reservable(g) == g.status \in {"ready", "changes_requested", "blocked"}

(* After changes were requested, the same revision needs --response. *)
NeedsResponse(g, revision) ==
    /\ g.rounds # <<>>
    /\ Last(g).status = "changes_requested"
    /\ Last(g).revision = revision

ReservedOnSeen(g, p) ==                                          \* mutant
    [snap[p] EXCEPT !.status = "reviewing", !.lease = p,
                    !.rounds = Append(@, [attempt |-> p, revision |-> seen[p],
                                          status |-> "reviewing"])]
Reserved(g, p) ==
    [g EXCEPT !.status = "reviewing", !.lease = p,
              !.rounds = Append(@, [attempt |-> p, revision |-> seen[p],
                                    status |-> "reviewing"])]

Reserve(p) ==
    /\ pc[p] = "reserve"
    /\ \E response \in BOOLEAN :
          IF Reservable(gate) /\ (NeedsResponse(gate, seen[p]) => response)
          THEN /\ IF Len(gate.rounds) + 1 > MaxRounds
                  THEN Save(p, [gate EXCEPT !.status = "blocked"], "done")
                  ELSE Save(p, Reserved(gate, p), "peer")
               /\ UNCHANGED <<certificate, world, expect>>
          ELSE Refuse(p)

(* The delegate starts the peer.  A detached launch writes the ledger entry *)
(* first and then spawns the runner; otherwise the runner is a child that   *)
(* ledgers itself once it is up.  No run at all if the bundle could not be  *)
(* prepared or the dispatch failed.                                         *)
LaunchPeer(p) ==
    /\ pc[p] = "peer"
    /\ \/ /\ peer' = [peer EXCEPT ![p] =
                        IF Detached THEN "entry" ELSE "unledgered"]
          /\ Goto(p, "waiting")
       \/ Goto(p, "waiting") /\ UNCHANGED peer
    /\ UNCHANGED <<gate, certificate, artifact, requests, expect, seen, snap, result>>

SpawnDetached(p) ==
    /\ pc[p] = "waiting"
    /\ peer[p] = "entry"
    /\ \E s \in {"live", "gone"} : peer' = [peer EXCEPT ![p] = s]
    /\ UNCHANGED <<gate, certificate, artifact, requests, pc, expect, seen, snap, result>>

RunnerStarts(p) ==
    /\ peer[p] = "unledgered"
    /\ peer' = [peer EXCEPT ![p] = "live"]
    /\ UNCHANGED <<gate, certificate, artifact, requests, pc, expect, seen, snap, result>>

RunnerEnds(p) ==
    /\ peer[p] \in {"unledgered", "live"}
    /\ peer' = [peer EXCEPT ![p] = "gone"]
    /\ UNCHANGED <<gate, certificate, artifact, requests, pc, expect, seen, snap, result>>

(* Killed before its finish record.  The parent of an attached runner reaps *)
(* it, and so does init once the invocation is gone: such a death is an end *)
(* like any other.                                                          *)
RunnerKilled(p) ==
    /\ Detached
    /\ pc[p] = "waiting"
    /\ peer[p] = "live"
    /\ peer' = [peer EXCEPT ![p] = "zombie"]
    /\ UNCHANGED <<gate, certificate, artifact, requests, pc, expect, seen, snap, result>>

(* The peer's run is over: capture the artifact again and read the output.  *)
(* Any doubt about the run, its model, its verdict or the revision is an    *)
(* error; only a run that took place can have returned a verdict.           *)
RunSeen(p) == peer[p] = "gone"                               \* mutant
RunOver(p) == peer[p] \in {"none", "gone"}

Collect(p) ==
    /\ pc[p] = "waiting"
    /\ RunOver(p)
    /\ \E r \in Verdicts \cup {"error"} :
          /\ r \in Verdicts => peer[p] = "gone" /\ Revision = Last(snap[p]).revision
          /\ Learn(p, r)
    /\ Goto(p, "reviewed")
    /\ UNCHANGED <<gate, certificate, world, expect, seen, snap>>

RoundStatus(r) == IF r = "error" THEN "blocked" ELSE r

ReviewedStatus(r, n) ==
    CASE r = "approve" -> "agreed"
      [] r = "changes_requested" /\ n < MaxRounds -> "changes_requested"
      [] OTHER -> "blocked"

Reviewed(g, n, r) ==
    [g EXCEPT !.status = ReviewedStatus(r, n), !.lease = NoProc,
              !.rounds = Decided(@, n, RoundStatus(r))]

(* Publish the verdict, under the lease and the round it was reserved with. *)
FinishReview(p) ==
    /\ pc[p] = "reviewed"
    /\ LET n == Len(snap[p].rounds)
       IN  IF /\ gate.lease = p
              /\ Len(gate.rounds) >= n
              /\ gate.rounds[n].attempt = p
           THEN /\ Save(p, Reviewed(gate, n, result[p]),
                        IF result[p] = "approve" THEN "agree" ELSE "done")
                /\ UNCHANGED <<certificate, world, expect>>
           ELSE Refuse(p)

-----------------------------------------------------------------------------
(* _complete_agreement *)

CompleteAgreement(p) ==
    /\ pc[p] = "agree"
    /\ IF SameApproval(gate, snap[p]) /\ gate.status = "agreed"
       THEN /\ certificate' = Last(snap[p]).revision
            /\ \/ /\ OnAgreement = "proceed"
                  /\ Save(p, [gate EXCEPT !.status = "completed",
                                !.action = [NoAction EXCEPT !.status = "authorized"]],
                          "done")
               \/ OnAgreement = "merge" /\ Save(p, gate, "merge")
               \/ Leave(p) /\ UNCHANGED gate   \* killed before the save
            /\ UNCHANGED <<world, expect>>
       ELSE Refuse(p)

-----------------------------------------------------------------------------
(* _perform_merge *)

ReserveMerge(p) ==
    /\ pc[p] = "merge"
    /\ IF /\ gate.status \in {"agreed", "action_failed", "blocked"}
          /\ SameApproval(gate, snap[p])
       THEN /\ Save(p, [gate EXCEPT !.status = "action_attempting",
                          !.action = [attempt |-> p, status |-> "prechecking"]],
                    "precheck")
            /\ UNCHANGED <<certificate, world, expect>>
       ELSE Refuse(p)

(* The pull request must be open, at the approved head and base, and clean; *)
(* a failed read or an unclean checkout blocks as well.                     *)
Precheck(p) ==
    /\ pc[p] = "precheck"
    /\ \/ /\ artifact.state = "OPEN"
          /\ Revision = Last(snap[p]).revision
          /\ Goto(p, "dispatch")
          /\ UNCHANGED result
       \/ Learn(p, "blocked") /\ Goto(p, "act")
    /\ UNCHANGED <<gate, certificate, world, expect, seen, snap>>

(* _save_action_state *)
MaySaveAction(p, status) ==
    /\ gate.action.attempt = p
    /\ gate.status = "completed" => status = "completed"

SaveAttempting(p) ==
    /\ pc[p] = "dispatch"
    /\ IF MaySaveAction(p, "action_attempting")
       THEN /\ Save(p, SetAction(snap[p], "action_attempting", "attempting"),
                    "attempt")
            /\ UNCHANGED <<certificate, world, expect>>
       ELSE Refuse(p)

(* gh pr merge --match-head-commit.  The command may fail before GitHub     *)
(* hears of it, and its 30 s timeout or a crash does not recall a request.  *)
Dispatch(p) ==
    /\ pc[p] = "attempt"
    /\ \/ requests' = requests \cup {[by |-> p, head |-> Last(snap[p]).revision.head]}
       \/ UNCHANGED requests
    /\ Goto(p, "sent")
    /\ UNCHANGED <<gate, certificate, artifact, peer, expect, seen, snap, result>>

(* Whatever the command returned, only the pull request's state counts. *)
ReconcileDispatch(p) ==
    /\ pc[p] = "sent"
    /\ \/ /\ artifact.state = "OPEN"
          /\ Goto(p, "postqueue")
          /\ UNCHANGED result
       \/ /\ \E r \in {"unknown", "merged", "merged_revision_mismatch", "failed"} :
                /\ r = "merged" => /\ artifact.state = "MERGED"
                                   /\ LandedAs(Last(snap[p]).revision)
                /\ r = "merged_revision_mismatch" => artifact.state = "MERGED"
                /\ r = "failed" => artifact.state = "CLOSED"
                /\ Learn(p, r)
          /\ Goto(p, "act")
    /\ UNCHANGED <<gate, certificate, world, expect, seen, snap>>

ReconcileDispatchQueue(p) ==
    /\ pc[p] = "postqueue"
    /\ \E r \in {"queued", "queue_unknown", "failed"} :
          /\ r = "queued" => artifact.state = "OPEN" /\ artifact.queued
          /\ r = "failed" => artifact.state = "OPEN" /\ ~artifact.queued
          /\ Learn(p, r)
    /\ Goto(p, "act")
    /\ UNCHANGED <<gate, certificate, world, expect, seen, snap>>

SaveAction(p) ==
    /\ pc[p] = "act"
    /\ LET status == ReconciledStatus(result[p])
       IN  IF MaySaveAction(p, status)
           THEN /\ Save(p, SetAction(snap[p], status, result[p]), "done")
                /\ UNCHANGED <<certificate, world, expect>>
           ELSE Refuse(p)

(* The invocation is killed. *)
Stop(p) == pc[p] \in Running /\ Refuse(p)

-----------------------------------------------------------------------------
(* The world outside the gate *)

Outside == UNCHANGED <<gate, certificate, peer, pc, expect, seen, snap, result>>
IsOpenPr == Kind = "pr" /\ artifact.state = "OPEN"

(* A push to the branch or an edit of the plan; it may leave a queue entry. *)
Push ==
    /\ artifact.state # "MERGED"
    /\ \E h \in Heads \ {artifact.head}, q \in {FALSE, artifact.queued} :
          artifact' = [artifact EXCEPT !.head = h, !.queued = q]
    /\ UNCHANGED requests
    /\ Outside

BaseMoves ==
    /\ Kind = "pr"
    /\ artifact.state # "MERGED"
    /\ \E b \in Bases \ {artifact.base} : artifact' = [artifact EXCEPT !.base = b]
    /\ UNCHANGED requests
    /\ Outside

CloseOrReopen ==
    /\ Kind = "pr"
    /\ artifact.state # "MERGED"
    /\ artifact' = [artifact EXCEPT !.queued = FALSE,
                      !.state = IF @ = "OPEN" THEN "CLOSED" ELSE "OPEN"]
    /\ UNCHANGED requests
    /\ Outside

MergedByOthers ==
    /\ IsOpenPr
    /\ artifact' = Landing
    /\ UNCHANGED requests
    /\ Outside

(* GitHub decides a request: it merges or queues a matching open head, or   *)
(* refuses it.                                                              *)
DecideRequest(r) ==
    /\ r \in requests
    /\ requests' = requests \ {r}
    /\ \/ /\ IsOpenPr
          /\ artifact.head = r.head
          /\ artifact' \in {Landing, [artifact EXCEPT !.queued = TRUE]}
       \/ UNCHANGED artifact
    /\ Outside

QueueDecides ==
    /\ IsOpenPr
    /\ artifact.queued
    /\ artifact' \in {Landing, [artifact EXCEPT !.queued = FALSE]}
    /\ UNCHANGED requests
    /\ Outside

World == \/ Push \/ BaseMoves \/ CloseOrReopen \/ MergedByOthers \/ QueueDecides
         \/ \E r \in requests : DecideRequest(r)

Step(p) ==
    \/ NewGate(p) \/ Continue(p)
    \/ Reconcile(p) \/ ReconcileQueue(p) \/ SaveReconciled(p)
    \/ MainApproves(p) \/ Supersede(p)
    \/ CaptureForReview(p) \/ Reserve(p) \/ LaunchPeer(p) \/ SpawnDetached(p)
    \/ Collect(p) \/ FinishReview(p) \/ CompleteAgreement(p)
    \/ ReserveMerge(p) \/ Precheck(p) \/ SaveAttempting(p) \/ Dispatch(p)
    \/ ReconcileDispatch(p) \/ ReconcileDispatchQueue(p) \/ SaveAction(p)

Next == \/ \E p \in Procs : \/ Step(p) \/ Stop(p)
                           \/ RunnerStarts(p) \/ RunnerEnds(p) \/ RunnerKilled(p)
        \/ World

Spec == Init /\ [][Next]_vars

(* A running invocation keeps running, and so does its peer's runner, until *)
(* it ends or is killed.                                                    *)
FairSpec == Spec /\ \A p \in Procs :
                WF_vars(Step(p)) /\ WF_vars(RunnerStarts(p) \/ RunnerEnds(p))

-----------------------------------------------------------------------------
(* Properties *)

TypeOK ==
    /\ gate \in Gates
    /\ certificate \in Revisions \cup {NoRevision}
    /\ artifact \in Artifacts
    /\ requests \subseteq Requests
    /\ peer \in [Procs -> PeerStates]
    /\ pc \in [Procs -> PCs]
    /\ expect \in [Procs -> Revisions \cup {NoRevision}]
    /\ seen \in [Procs -> Revisions \cup {NoRevision}]
    /\ snap \in [Procs -> Gates]
    /\ result \in [Procs -> Verdicts \cup {"error"} \cup ActionStatuses]

(* A round is about exactly the revision its own main agent attested, so no *)
(* approval is ever inferred from a fresh read of the artifact.             *)
RoundsAttested ==
    \A i \in 1..Len(gate.rounds) :
        gate.rounds[i].revision = expect[gate.rounds[i].attempt]

(* The gate is only agreed, acting or completed while its latest round is   *)
(* an approval: no later round or late write leaves it acting on nothing.   *)
AgreementStands ==
    gate.status \in {"agreed", "completed"} \cup ActionStates => Approved(gate)

(* A merge gate that says completed has landed the commit whose parents are *)
(* the revision that main and peer both approved.                           *)
CompletedMergeLanded ==
    (gate.status = "completed" /\ OnAgreement = "merge") =>
        artifact.state = "MERGED" /\ artifact.landed = Last(gate).revision

(* Any request GitHub may still act on carries a head that a peer approved  *)
(* and that the main agent behind that very request attested.               *)
RequestsApproved ==
    \A r \in requests :
        /\ expect[r.by].head = r.head
        /\ \E i \in 1..Len(gate.rounds) :
              gate.rounds[i].status = "approve" /\ gate.rounds[i].revision.head = r.head

(* No two invocations are about to send the merge command. *)
OneDispatcher ==
    \A p, q \in Procs : pc[p] = "attempt" /\ pc[q] = "attempt" => p = q

(* Live gate and peer leases prevent duplicate reviews: never two peers at  *)
(* work for one gate.                                                       *)
PeerBusy(p) == peer[p] \in {"unledgered", "live"}
OneReview == \A p, q \in Procs : PeerBusy(p) /\ PeerBusy(q) => p = q

(* A completed gate names its last round's revision in its certificate. *)
CompletedCertified ==
    gate.status = "completed" => certificate = Last(gate).revision

(* A decided round is history: no write, however late, alters or drops it,  *)
(* and an undecided one keeps its attempt and revision.                     *)
HistoryKept ==
    [][\A i \in 1..Len(gate.rounds) :
          /\ i <= Len(gate'.rounds)
          /\ gate'.rounds[i].attempt = gate.rounds[i].attempt
          /\ gate'.rounds[i].revision = gate.rounds[i].revision
          /\ gate.rounds[i].status # "reviewing" =>
                gate'.rounds[i].status = gate.rounds[i].status]_vars

(* A completed gate stays completed, with the same rounds. *)
CompletedFinal ==
    [][gate.status = "completed" =>
          gate'.status = "completed" /\ gate'.rounds = gate.rounds]_vars

(* "Unknown never permits retry": a merge whose queue membership could not   *)
(* be read is only retried by an invocation that has since looked at it.    *)
UnknownNeverRetried ==
    [][\A p \in Procs :
          (/\ gate.status = "action_failed"
           /\ gate.action.status = "queue_unknown"
           /\ gate'.status = "action_attempting"
           /\ gate'.action.attempt = p)
          => snap[p].action.attempt = gate.action.attempt]_vars

(* Every invocation returns, whoever is stopped and whatever peer never      *)
(* starts or dies: none waits for ever on a lease, on a round or on the peer *)
(* of another.  The one exception is its own detached peer killed before a   *)
(* finish record, for which it waits without a timeout (wait_for_runs).      *)
EveryInvocationReturns ==
    \A p \in Procs : pc[p] \in Running ~> (pc[p] = "done" \/ Zombie(p))

(* The gate implements the agreement it promises (see Agreement). *)
A == INSTANCE Agreement WITH
         MustLand <- OnAgreement = "merge",
         attested <- {gate.rounds[i].revision : i \in 1..Len(gate.rounds)},
         consent  <- IF Approved(gate) THEN Last(gate).revision ELSE NoRevision,
         landed   <- artifact.landed,
         outcome  <- IF gate.status = "completed" THEN Last(gate).revision
                                                  ELSE NoRevision
AgreementSpec == A!Spec

=============================================================================
