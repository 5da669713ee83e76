------------------------------ MODULE Dispatch -------------------------------
(***************************************************************************)
(* `subfleet run` (subfleet/delegate.py) from the classified request to    *)
(* the provider that serves it: the model's tier, the snapshot of          *)
(* capacity, the lane, the Fable reserve, and what follows a lane that     *)
(* refuses, in the front door and in the runners that re-pick by           *)
(* themselves (bin/subfleet-claude, bin/subfleet-codex).                   *)
(*                                                                         *)
(* Several front doors share the cooldown file and the ledger's runs in    *)
(* flight.  A door decides from the snapshot it took at its start and      *)
(* reads only the Claude cooldowns afresh; a runner reads a new report.    *)
(* Percentages, reserve readings and the answers of just-in-time probes    *)
(* stand still during a dispatch; cooldowns come and go.  No reset credit  *)
(* is applicable (ResetPolicy has them).                                   *)
(***************************************************************************)
EXTENDS Lanes, FiniteSets, Sequences, Functions

CONSTANTS
    Doors,          \* processes of `subfleet run`
    Requests,       \* what they are asked for
    Fleets,         \* capacity rows, reserve readings and probes
    CapRatio, MinSlack,     \* the reserve's policy, MinSlack as parts of Full
    MaxAttempts,    \* lanes that a door tries for one model
    MaxRetries,     \* attempts that a runner may add
    CodexFailures,  \* what the Codex CLI exits with when it fails
    MaxOthers       \* bound: limits that runners without a door meet

None == "none"

CodexModels == {"luna", "terra", "astra"}
Capability == [luna |-> 0, terra |-> 0, opus |-> 1, astra |-> 2, fable |-> 3]

UpwardChain ==
    [trivial |-> <<"luna", "opus", "astra">>, easy |-> <<"luna", "opus", "astra">>,
     standard |-> <<"opus", "astra">>, hard |-> <<"astra">>]
ClassModel == [fable |-> "fable", review |-> "opus", sweep |-> "terra", build |-> "opus"]

\* What a request names, and what a probe and a reading of the reserve say.
RequestRecords ==
    [task : STRING, tier : DOMAIN UpwardChain \cup {None}, class : DOMAIN ClassModel \cup {None},
     model : Models \cup CodexModels \cup {None}, lane : Lanes \cup {None},
     home : Homes \cup {None}, exclude : SUBSET Lanes, detached : BOOLEAN]
Used == Nat \cup {Unknown}
Scored == 0..Full \cup {Unknown}
Statuses ==
    {"ok", "limited", "rate-limited", "exhausted", "cooldown", "no-window-data", "free-plan",
     "no-auth", "no-token", "token-invalid", "token-revoked", "secret-missing",
     "not-enrolled", "network-error", "http-error", "skipped", "unknown"}
LaneRows ==
    [active : BOOLEAN, enrolled : BOOLEAN, status : Statuses, five : Used, weekly : Used,
     windows : [Models -> Used], scoped : [Models -> Used], critical : SUBSET Models,
     cooled : [Scopes -> Nat], score : Scored, dispatchable : BOOLEAN, inFlight : Nat,
     tokens : Nat]
FleetRecords ==
    [claude : [Lanes -> LaneRows],
     codex : [Homes -> [base : Statuses, weeklyReset : Nat, until : Nat]],
     reserve : [Lanes -> [shared : Scored, fable : Scored, present : BOOLEAN]],
     probe : [Lanes -> Scored]]

ASSUME DispatchAssumption ==
    /\ Models = {"opus", "fable"} /\ Homes # {} /\ Lanes # {}
    /\ IsFiniteSet(Lanes) /\ IsFiniteSet(Homes) /\ IsFiniteSet(Doors)
    /\ None \notin Lanes \cup Homes
    /\ MaxAttempts \in Nat \ {0} /\ MaxRetries \in Nat /\ MaxOthers \in Nat
    /\ CapRatio \in Nat /\ MinSlack \in Nat
    /\ CodexFailures \subseteq Nat \ {0}
    /\ \A f \in Fleets : f \in FleetRecords
    /\ \A r \in Requests : /\ r \in RequestRecords
                           /\ IF r.task = None THEN r.class # None ELSE r.tier # None

VARIABLES
    fleet,      \* what the probes and the readings say
    cooldown,   \* the scopes of each lane in a cooldown that has not passed
    rested,     \* the homes in a cooldown that has not passed
    door,       \* the front doors
    run,        \* the run that each door started last
    others      \* bound: limits met elsewhere so far

vars == <<fleet, cooldown, rested, door, run, others>>

-----------------------------------------------------------------------------
(* Requests: a task with a tier, or a class read off the prompt; pins of a  *)
(* model, a lane or a home; lanes to leave out.                             *)

Preferred(task, tier) ==
    IF task = "voice" THEN "fable"
    ELSE IF task = "sweep" THEN IF tier = "hard" THEN "astra" ELSE "terra"
    ELSE UpwardChain[tier][1]

SemanticCandidates(task, tier) ==
    IF task \in {"voice", "sweep"} THEN <<Preferred(task, tier)>> ELSE UpwardChain[tier]

Family(model) == IF model \in CodexModels THEN "codex" ELSE "claude"

Requested(r) ==
    LET model == IF r.model # None THEN r.model
                 ELSE IF r.task # None THEN Preferred(r.task, r.tier)
                 ELSE ClassModel[r.class]
    IN IF r.home # None /\ r.model = None /\ Family(model) # "codex" THEN "astra" ELSE model

Pinned(r) == r.model # None \/ r.lane # None \/ r.home # None

\* The models that the request may move up through.
Chain(r) ==
    IF Pinned(r) THEN <<>>
    ELSE IF r.task # None THEN SemanticCandidates(r.task, r.tier)
    ELSE IF r.class \in {"build", "review"} THEN UpwardChain["standard"] ELSE <<>>

Accepted(r) ==
    /\ r.lane # None => Family(Requested(r)) = "claude"
    /\ r.home # None => Family(Requested(r)) = "codex"

-----------------------------------------------------------------------------
(* The capacity report, and what a door makes of its snapshot.              *)

InFlight(l) == Cardinality({d \in Doors : run[d].pc = "running" /\ run[d].lane = l})

ClaudeRow(l) ==
    LET r == fleet.claude[l]
        shut == Account \in cooldown[l] /\ r.status = "ok"
    IN [r EXCEPT !.cooled = [s \in Scopes |-> Bit(s \in cooldown[l])],
                 !.status = IF shut THEN "limited" ELSE @,
                 !.score = IF shut THEN 0 ELSE @,
                 !.dispatchable = @ /\ ~shut,
                 !.inFlight = InFlight(l)]

Report == [claude |-> [l \in Lanes |-> ClaudeRow(l)],
           codex |-> [h \in Homes |-> Gated(fleet.codex[h], Bit(h \in rested))]]

\* _capacity_candidates without its blind filter.
Eligible(snap, m, excluded) ==
    {l \in Lanes \ excluded : /\ DispatchableFor(snap.claude[l], m)
                              /\ cooldown[l] \cap {Account, m} = {}}
Blind(snap, m) == {l \in Lanes : ModelHeadroom(snap.claude[l], m) = Unknown}

\* A blind lane is probed: a full one is cooled, an unknown one stays if idle.
Spent(l) == fleet.probe[l] # Unknown /\ ~Enough(fleet.probe[l])
Candidates(snap, m, excluded) ==
    {l \in Eligible(snap, m, excluded) :
        l \in Blind(snap, m) =>
            ~Spent(l) /\ (fleet.probe[l] = Unknown => snap.claude[l].inFlight = 0)}
Chilled(snap, S, excluded) ==
    [l \in Lanes |-> cooldown[l] \cup
        {m \in S : l \in Eligible(snap, m, excluded) \cap Blind(snap, m) /\ Spent(l)}]

ProbedScore(snap, m) ==
    [l \in Lanes |-> IF l \in Blind(snap, m) THEN fleet.probe[l]
                     ELSE ModelHeadroom(snap.claude[l], m)]
Stranded(snap, m) == IF m = "fable" THEN {} ELSE Lanes \ Eligible(snap, "fable", {})
BestLane(snap, S, m) ==
    First(S, ClaudeKey(snap.claude, ProbedScore(snap, m), Stranded(snap, m)))
BestHome(rows) == First(Open(rows), CodexKey(rows, 0))

\* The Fable reserve: what a model other than Fable may use.
ReserveState(reading) ==
    IF reading.shared = Unknown THEN "unmeasured"
    ELSE IF ~reading.present THEN "no-fable"
    ELSE IF reading.fable = Unknown THEN "unmeasured"
    ELSE IF Full - reading.shared - CapRatio * (Full - reading.fable) >= MinSlack
    THEN "slack" ELSE "reserved"
Unreserved(S, m) ==
    IF m = "fable" THEN S
    ELSE {l \in S : ReserveState(fleet.reserve[l]) \in {"slack", "no-fable"}}

AllLimited(snap, family) ==
    IF family = "codex" THEN FamilyState(snap.codex, Homes) = "limited"
    ELSE FamilyState(snap.claude, {l \in Lanes : snap.claude[l].enrolled}) = "limited"

\* _model_capacity_state is False: the model is known to be spent.  Looking for
\* candidates has cooled the blind lanes probed full before it asks again.
Exhausted(snap, model) ==
    IF model \in CodexModels THEN Open(snap.codex) = {} /\ AllLimited(snap, "codex")
    ELSE /\ \A l \in Eligible(snap, model, {}) : l \in Blind(snap, model) /\ Spent(l)
         /\ Open(snap.claude) # {} \/ AllLimited(snap, "claude")

Select(snap, chain) ==
    LET live == {i \in DOMAIN chain : ~Exhausted(snap, chain[i])}
    IN chain[IF live = {} THEN Len(chain) ELSE Min(live)]

-----------------------------------------------------------------------------
(* The front door.                                                          *)

Idle == [pc |-> "idle"]
NoRun == [pc |-> "none", lane |-> None]

Init ==
    /\ fleet \in Fleets
    /\ cooldown = [l \in Lanes |-> {}] /\ rested = {}
    /\ door = [d \in Doors |-> Idle] /\ run = [d \in Doors |-> NoRun]
    /\ others = 0

\* Elastic work crosses to Claude when every Codex home is limited.
Elastic(snap, r, model) ==
    /\ \/ r.task = None /\ r.class # "fable"
       \/ r.task = "sweep" /\ r.tier # "hard"
    /\ Family(model) = "codex" /\ ~Pinned(r) /\ AllLimited(snap, "codex")

\* The snapshot, the model, and Fable's floor.
Start(d, r) ==
    LET snap == Report
        first == IF Chain(r) = <<>> THEN Requested(r) ELSE Select(snap, Chain(r))
        cross == Elastic(snap, r, first)
        model == IF cross /\ Candidates(snap, "opus", {}) # {} THEN "opus" ELSE first
        asked == (Range(Chain(r)) \cup {model} \cup IF cross THEN {"opus"} ELSE {}) \cap Models
        floor == /\ model = "fable" /\ r.lane = None
                 /\ IF r.task = None THEN r.class = "fable" ELSE r.task = "voice"
                 /\ Candidates(snap, "fable", {}) = {}
    IN /\ door[d].pc = "idle" /\ Accepted(r)
       /\ cooldown' = Chilled(snap, asked, {})
       /\ door' = [door EXCEPT ![d] =
                     [pc |-> IF floor THEN "done" ELSE "choose", request |-> r,
                      model |-> model, snap |-> IF floor THEN <<>> ELSE snap,
                      tried |-> {}, attempts |-> 0, refused |-> {},
                      result |-> IF floor THEN 3 ELSE 0]]
       /\ UNCHANGED <<fleet, others, rested, run>>

WholeChain(chain, i) == chain                                 \* mutant
Above(chain, i) == SubSeq(chain, i + 1, Len(chain))

\* What is left of the request's chain, and its first model not known to be spent.
Upward(d) ==
    LET chain == Chain(door[d].request)
        at == {i \in DOMAIN chain : chain[i] = door[d].model}
    IN IF at = {} THEN <<>> ELSE Above(chain, Min(at))
NextRoute(d) == IF Upward(d) = <<>> THEN None ELSE Select(door[d].snap, Upward(d))

Promoted(d, model) == [door EXCEPT ![d].model = model, ![d].attempts = 0, ![d].pc = "choose"]
Ended(D, result) ==
    [D EXCEPT !.pc = "done", !.result = result, !.snap = <<>>, !.tried = {}, !.attempts = 0]
Finished(d, result) == [door EXCEPT ![d] = Ended(@, result)]

Forgetful(d) == door[d].request.exclude                       \* mutant
TriedOrExcluded(d) ==
    {l \in Lanes : <<l, door[d].model>> \in door[d].tried} \cup door[d].request.exclude

Choosing(d, family) == door[d].pc = "choose" /\ Family(door[d].model) = family

Pool(d) ==
    IF door[d].request.lane # None THEN {door[d].request.lane}
    ELSE Candidates(door[d].snap, door[d].model, TriedOrExcluded(d))
Usable(d) == Unreserved(Pool(d), door[d].model)
Withheld(d) == Pool(d) # {} /\ Usable(d) = {}

\* Looking for candidates may cool blind lanes.
Looked(d) ==
    IF door[d].request.lane # None THEN cooldown
    ELSE Chilled(door[d].snap, {door[d].model}, TriedOrExcluded(d))

\* Every lane must be kept for Fable: up to Astra, or Fable on these lanes.
Divert(d) ==
    LET next == NextRoute(d)
        astra == next \in CodexModels /\ Open(door[d].snap.codex) # {}
    IN /\ Choosing(d, "claude") /\ Withheld(d)
       /\ cooldown' = Looked(d)
       /\ door' = Promoted(d, IF astra THEN next ELSE "fable")
       /\ UNCHANGED <<fleet, others, rested, run>>

HomesFor(d) ==
    IF door[d].request.home # None THEN {door[d].request.home}
    ELSE Open(door[d].snap.codex)

Refuse(d) ==
    /\ \/ Choosing(d, "codex") /\ HomesFor(d) = {}
       \/ Choosing(d, "claude") /\ Pool(d) = {}
       \/ Choosing(d, "claude") /\ ~Withheld(d) /\ door[d].attempts >= MaxAttempts
    /\ cooldown' = IF Family(door[d].model) = "claude" THEN Looked(d) ELSE cooldown
    /\ door' = Finished(d, 3)
    /\ UNCHANGED <<fleet, others, rested, run>>

\* -A: the runner may re-pick by itself.
AlwaysRepick(d) == TRUE                                         \* mutant
MayRepick(d) ==
    LET r == door[d].request
    IN IF Family(door[d].model) = "codex" THEN r.home = None
       ELSE r.detached /\ r.lane = None

Launched(d, lane) ==
    run' = [run EXCEPT ![d] = [pc |-> "running", lane |-> lane, model |-> door[d].model,
                               auto |-> MayRepick(d), attempt |-> 1, excluded |-> {}, rc |-> 0]]
AfterLaunch(D) == IF D.request.detached THEN Ended(D, 0) ELSE [D EXCEPT !.pc = "waiting"]

LaunchCodex(d) ==
    /\ Choosing(d, "codex") /\ HomesFor(d) # {}
    /\ Launched(d, IF door[d].request.home # None THEN door[d].request.home
                   ELSE BestHome(door[d].snap.codex))
    /\ door' = [door EXCEPT ![d] = AfterLaunch(@)]
    /\ UNCHANGED <<fleet, others, cooldown, rested>>

Unrecorded(D, lane) == D                                      \* mutant
Recorded(D, lane) ==
    [D EXCEPT !.attempts = @ + 1, !.tried = @ \cup {<<lane, D.model>>}]

LaunchClaude(d) ==
    LET D == door[d]
        lane == BestLane(D.snap, Usable(d), D.model)
    IN /\ Choosing(d, "claude") /\ Usable(d) # {} /\ D.attempts < MaxAttempts
       /\ Launched(d, lane)
       /\ door' = [door EXCEPT ![d] = AfterLaunch(Recorded(@, lane))]
       /\ cooldown' = Looked(d)
       /\ UNCHANGED <<fleet, others, rested>>

-----------------------------------------------------------------------------
(* The runners: a run is served, refused, broken off or lost.               *)

Running(d, family) == run[d].pc = "running" /\ Family(run[d].model) = family
Over(d, rc) == [run EXCEPT ![d].pc = "over", ![d].rc = rc]
Moved(d, lane) == [run EXCEPT ![d].lane = lane, ![d].attempt = @ + 1,
                              ![d].excluded = @ \cup {run[d].lane}]
CanRetry(d) == run[d].attempt <= MaxRetries
Refusal(d) == [door EXCEPT ![d].refused = @ \cup {<<run[d].lane, run[d].model>>}]

Serve(d) ==
    /\ run[d].pc = "running" /\ run' = Over(d, 0)
    /\ UNCHANGED <<fleet, others, cooldown, rested, door>>

\* A failure that looks transient is retried on the same lane.
Retry(d) ==
    /\ run[d].pc = "running" /\ CanRetry(d)
    /\ run' = [run EXCEPT ![d].attempt = @ + 1]
    /\ UNCHANGED <<fleet, others, cooldown, rested, door>>

Fail(d) ==
    /\ run[d].pc = "running"
    /\ \E rc \in IF Family(run[d].model) = "codex" THEN CodexFailures ELSE {1} :
          run' = Over(d, rc)
    /\ UNCHANGED <<fleet, others, cooldown, rested, door>>

\* `subfleet pick claude` on a new report, without the lanes of this run.
Alternates(d) ==
    {l \in Lanes \ (run[d].excluded \cup {run[d].lane}) : PickKeeps(ClaudeRow(l), run[d].model)}
LaneLimited(d) ==
    LET l == run[d].lane
        m == run[d].model
    IN /\ Running(d, "claude")
       /\ cooldown' = [cooldown EXCEPT ![l] = @ \cup {m}]
       /\ door' = Refusal(d)
       /\ run' = IF run[d].auto /\ CanRetry(d) /\ Alternates(d) # {}
                 THEN Moved(d, First(Alternates(d), PickKey(Report.claude, m)))
                 ELSE Over(d, 4)
       /\ UNCHANGED <<fleet, others, rested>>

\* The lane's token is dead.
TokenDead(d) ==
    /\ Running(d, "claude")
    /\ cooldown' = [cooldown EXCEPT ![run[d].lane] = @ \cup {Account}]
    /\ door' = Refusal(d)
    /\ run' = Over(d, 5)
    /\ UNCHANGED <<fleet, others, rested>>

\* The runner passes on what the Codex CLI exits with; a text that looks
\* transient too is retried.
HomeLimited(d) ==
    LET h == run[d].lane
        rows == [Report.codex EXCEPT ![h] = Gated(fleet.codex[h], 1)]
    IN /\ Running(d, "codex")
       /\ rested' = rested \cup {h}
       /\ \/ /\ run[d].auto /\ CanRetry(d) /\ Open(rows) # {}
             /\ run' = Moved(d, BestHome(rows))
          \/ CanRetry(d) /\ run' = [run EXCEPT ![d].attempt = @ + 1]
          \/ \E rc \in CodexFailures : run' = Over(d, rc)
       /\ UNCHANGED <<fleet, others, cooldown, door>>

\* A cooldown passes.
Expire ==
    /\ \/ /\ \E l \in Lanes : \E s \in cooldown[l] :
                cooldown' = [cooldown EXCEPT ![l] = @ \ {s}]
          /\ UNCHANGED rested
       \/ \E h \in rested : rested' = rested \ {h} /\ UNCHANGED cooldown
    /\ UNCHANGED <<fleet, others, door, run>>

\* A runner that no door started meets a limit.
Elsewhere ==
    /\ others < MaxOthers /\ others' = others + 1
    /\ \/ /\ \E l \in Lanes, s \in Scopes :
                cooldown' = [cooldown EXCEPT ![l] = @ \cup {s}]
          /\ UNCHANGED rested
       \/ \E h \in Homes : rested' = rested \cup {h} /\ UNCHANGED cooldown
    /\ UNCHANGED <<fleet, door, run>>

-----------------------------------------------------------------------------
(* What a synchronous door makes of the runner's return code.               *)

Returned(d, family) ==
    door[d].pc = "waiting" /\ run[d].pc = "over" /\ Family(run[d].model) = family

Gone(d) == run' = [run EXCEPT ![d] = NoRun]

CodexReturned(d) ==
    LET rc == run[d].rc
    IN /\ Returned(d, "codex") /\ Gone(d)
       /\ door' = IF rc = 4 /\ NextRoute(d) # None THEN Promoted(d, NextRoute(d))
                  ELSE Finished(d, rc)
       /\ cooldown' = IF rc = 4 THEN Chilled(door[d].snap, Range(Upward(d)) \cap Models, {})
                      ELSE cooldown
       /\ UNCHANGED <<fleet, others, rested>>

\* The door records the cooldown too, in case the runner's hook did not.
ClaudeReturned(d) ==
    LET D == door[d]
        rc == run[d].rc
        scope == IF rc = 4 THEN {D.model} ELSE IF rc = 5 THEN {Account} ELSE {}
        free == D.request.lane = None
        tried == {l \in Lanes : <<l, D.model>> \in D.tried}
        remaining == Unreserved(Candidates(D.snap, D.model, tried), D.model)
        spent == D.attempts >= MaxAttempts \/ remaining = {}
        looked == IF rc = 4 /\ free THEN Chilled(D.snap, {D.model}, tried) ELSE cooldown
    IN /\ Returned(d, "claude") /\ Gone(d)
       /\ cooldown' = [looked EXCEPT ![run[d].lane] = @ \cup scope]
       /\ door' = IF rc = 4 /\ free /\ spent /\ NextRoute(d) # None
                  THEN Promoted(d, NextRoute(d))
                  ELSE IF rc \in {4, 5} /\ free /\ D.attempts < MaxAttempts
                  THEN [door EXCEPT ![d].pc = "choose"]
                  ELSE Finished(d, IF rc \in {4, 5} THEN 3 ELSE rc)
       /\ UNCHANGED <<fleet, others, rested>>

Decide(d) == Divert(d) \/ Refuse(d) \/ LaunchCodex(d) \/ LaunchClaude(d)
Answer(d) == Serve(d) \/ Retry(d) \/ Fail(d) \/ LaneLimited(d) \/ TokenDead(d) \/ HomeLimited(d)
Return(d) == CodexReturned(d) \/ ClaudeReturned(d)

Next ==
    \/ \E d \in Doors :
          \/ \E r \in Requests : Start(d, r)
          \/ Decide(d) \/ Answer(d) \/ Return(d)
    \/ Expire \/ Elsewhere

Spec == Init /\ [][Next]_vars

\* Doors go on; the providers answer each attempt, as nothing limits its time.
Fairness == \A d \in Doors : WF_vars(Decide(d) \/ Return(d)) /\ WF_vars(Answer(d))

FairSpec == Spec /\ Fairness

-----------------------------------------------------------------------------
(* Properties.                                                              *)

Pairs == Lanes \X Models

DoorOK(D) ==
    \/ D = Idle
    \/ /\ D.pc \in {"choose", "waiting", "done"} /\ D.request \in Requests
       /\ D.model \in Models \cup CodexModels
       /\ D.tried \subseteq Pairs /\ D.refused \subseteq Pairs
       /\ D.attempts \in 0..MaxAttempts /\ D.result \in Nat

RunOK(R) ==
    \/ R = NoRun
    \/ /\ R.pc \in {"running", "over"} /\ R.lane \in Lanes \cup Homes
       /\ R.model \in Models \cup CodexModels /\ R.auto \in BOOLEAN
       /\ R.attempt \in 1..(MaxRetries + 1) /\ R.excluded \subseteq Lanes \cup Homes
       /\ R.rc \in Nat

\* Types: the doors with their runs, and what they share.
TypeOK ==
    /\ fleet \in Fleets
    /\ cooldown \in [Lanes -> SUBSET Scopes] /\ rested \subseteq Homes
    /\ others \in 0..MaxOthers
    /\ \A d \in Doors : DoorOK(door[d]) /\ RunOK(run[d])

Better(a, b) == Capability[a] >= Capability[b]

\* Whatever is exhausted, withheld for Fable or refused at run time, a dispatch
\* only moves up: its model is never below the one its request asks for, nor
\* below one that it already had.
NeverDownTier ==
    [][\A d \in Doors : door'[d] # Idle =>
          Better(door'[d].model, IF door[d] = Idle THEN Requested(door'[d].request)
                                 ELSE door[d].model)]_vars

\* A Claude lane that refused a model's run, for its limit or its token, is not
\* given that run again, by the door or by the runner, though the cooldown that
\* the refusal left may have passed meanwhile.
RefusedOnce ==
    \A d \in Doors : run[d].pc = "running" => <<run[d].lane, run[d].model>> \notin door[d].refused

\* A pinned lane or home is the only one that the run is on, in the runner's
\* hands as well; a pinned model gives way to nothing but Fable, on that lane,
\* when the reserve withholds it.
PinsKept ==
    \A d \in Doors : run[d].pc # "none" =>
        LET r == door[d].request
        IN /\ r.lane # None => run[d].lane = r.lane
           /\ r.home # None => run[d].lane = r.home
           /\ r.model # None => run[d].model \in {r.model, "fable"}

\* Every dispatch comes to an end, and so does every run: neither lanes that
\* recover between two attempts nor the moves upward keep it going for ever.
EveryDispatchEnds ==
    \A d \in Doors : /\ (door[d].pc = "choose") ~> (door[d].pc = "done")
                     /\ (run[d].pc = "running") ~> (run[d].pc # "running")

\* "A lane that stays blind is allowed only while it carries no other run"
\* (_blind_lane_filter).
BlindAlone ==
    \A d, e \in Doors : d # e /\ run[d].pc = "running" /\ run[e].pc = "running"
        /\ run[d].lane = run[e].lane /\ run[d].lane \in Lanes
        => fleet.claude[run[d].lane].score # Unknown \/ fleet.probe[run[d].lane] # Unknown
=============================================================================
