--------------------------------- MODULE Watch ---------------------------------
(***************************************************************************)
(* The watchdog (subfleet/watchdog.py).  A cycle probes every home, runs   *)
(* one `codex exec' in each home whose access token has expired, judges    *)
(* the alert conditions, tells the operator of those that are due and of   *)
(* those that cleared, and saves what it told.  Two files remember:        *)
(* refresh-probes.json the attempts to heal, alerts.json the conditions.   *)
(* launchd starts one cycle after another; each may die at any point.      *)
(*                                                                         *)
(* Times are ages, capped at the interval they are compared with: a time   *)
(* on file that is older is as good as none.  The clock stands still while *)
(* a cycle runs, for a cycle compares with the time of its start.          *)
(*                                                                         *)
(* `heard' .. `dug' are history.                                           *)
(***************************************************************************)
EXTENDS Integers, FiniteSets

CONSTANTS
    Homes,        \* the codex homes
    Spacing,      \* REFRESH_PROBE_SPACING_MIN, in units of the clock
    Realert,      \* REALERT_HOURS
    Daily,        \* the strict interval of expiring capacity
    Starting,     \* tokens that a home may start with
    MaxChanges,   \* bound: changes of a login, of the app, of the projection
    MaxFaults     \* bound: cycles that die or lose one message

(* Tokens: the access token is valid, expired, expired with a refresh token *)
(* that was revoked (dead), itself revoked, or there is no auth.json.       *)
Tokens == {"valid", "expired", "dead", "revoked", "none"}

ASSUME WatchAssumption ==
    /\ Spacing \in Nat /\ Realert \in Nat /\ Daily \in Nat
    /\ Realert <= Daily /\ Starting \subseteq Tokens
    /\ MaxChanges \in Nat /\ MaxFaults \in Nat

VARIABLES
    login,        \* per home: its tokens, its plan and the stamp of auth.json
    marks,        \* what the snapshot finds of homes besides their probe
    expiring,     \* whether capacity is projected to expire unused
    probes,       \* refresh-probes.json
    alerts,       \* alerts.json
    cycle,        \* what the cycle is doing
    heard,        \* history: per key, the age of its last alert, whether it is
                  \* yet to be cleared and whether a cycle found the condition gone
    early,        \* history: keys told again too soon
    misled,       \* history: per key, all-clears that no alert preceded
    unsaved,      \* history: per key, all-clears whose record died with a cycle
    execs,        \* history: per home, the age and the answer of the last exec
    dug,          \* history: homes probed again too soon, or when known dead
    changes, faults   \* bounds: of these so far

world == <<login, marks, expiring>>
told == <<heard, early, misled, unsaved>>
healing == <<execs, dug>>
vars == <<world, probes, alerts, cycle, told, healing, changes, faults>>

-----------------------------------------------------------------------------
Stamps == 0..MaxChanges + 2
Verdicts == {"ok", "free-plan", "auth-suspect", "auth-revoked", "no-auth", "unknown"}
Results == {"none", "healed", "revoked", "failed"}
Grown(a, interval) == a + 1                                      \* mutant
Older(a, interval) == IF a < interval THEN a + 1 ELSE a

NoHome == "fleet"
HomeKinds == {"noauth", "revoked", "suspect", "free", "refresh", "shadow"}

Keys == (HomeKinds \X Homes) \cup ({"empty", "expiring"} \X {NoHome})

(* The desktop app is signed into the account of a home; a session in the   *)
(* home met a revoked refresh token, whatever its login is by now.          *)
Marks == {"shadow", "refresh"} \X Homes

(* The interval of a condition; one told once compares no times.            *)
Interval(k) == IF k[1] = "expiring" THEN Daily ELSE IF k[1] = "shadow" THEN 0 ELSE Realert

Unprobed == [result |-> "none", stamp |-> 0, age |-> Spacing]
Untold(k) == [active |-> FALSE, age |-> Interval(k)]
Probes == [Homes -> [result : Results, stamp : Stamps, age : 0..Spacing]]
Alerts == [Keys -> [active : BOOLEAN, age : 0..Daily]]

Idle == [at |-> "idle",
         verdict |-> [h \in Homes |-> "ok"], stamp |-> [h \in Homes |-> 0],
         todo |-> {}, tried |-> {}, sent |-> {},
         probes |-> [h \in Homes |-> Unprobed], alerts |-> [k \in Keys |-> Untold(k)]]

Init ==
    /\ login \in [Homes -> [token : Starting, free : {FALSE}, stamp : {1}]]
    /\ marks = {} /\ expiring = FALSE
    /\ probes = [h \in Homes |-> Unprobed]
    /\ alerts = [k \in Keys |-> Untold(k)]
    /\ cycle = Idle
    /\ heard = [k \in Keys |-> [age |-> Interval(k), open |-> FALSE, gone |-> TRUE]]
    /\ early = {}
    /\ misled = [k \in Keys |-> 0] /\ unsaved = [k \in Keys |-> 0]
    /\ execs = [h \in Homes |-> [age |-> Spacing, dead |-> 0]]
    /\ dug = {}
    /\ changes = 0 /\ faults = 0

-----------------------------------------------------------------------------
(* The world *)

Change == changes < MaxChanges /\ changes' = changes + 1
Fault == faults < MaxFaults /\ faults' = faults + 1
Becomes(h, t) == login' = [login EXCEPT ![h].token = t]
Renewed(h, f) ==
    login' = [login EXCEPT ![h] = [token |-> "valid", free |-> f, stamp |-> @.stamp + 1]]

(* A token ages out, its refresh token is revoked by a sibling, a login is  *)
(* aborted, a run of the CLI refreshes it or the operator logs in again.    *)
Expire(h) ==
    /\ login[h].token \in {"valid", "revoked"}
    /\ Becomes(h, [valid |-> "expired", revoked |-> "dead"][login[h].token])

Revoke(h) ==
    /\ login[h].token \in {"valid", "expired"}
    /\ Becomes(h, [valid |-> "revoked", expired |-> "dead"][login[h].token])

Abort(h) == login[h].token # "none" /\ Becomes(h, "none")

Renew(h) == \E f \in BOOLEAN : Renewed(h, f)

LoginChanges ==
    /\ Change
    /\ \E h \in Homes : Expire(h) \/ Revoke(h) \/ Abort(h) \/ Renew(h)
    /\ UNCHANGED <<marks, expiring, probes, alerts, cycle, told, healing, faults>>

(* The app is signed into another account, a session meets the revoked token *)
(* or its error ages out, the projection of capacity crosses its bound.  A   *)
(* snapshot reads these once: what changes later is for the next cycle.     *)
OtherChanges ==
    /\ cycle.at = "idle"
    /\ Change
    /\ \/ /\ \E k \in Marks : marks' \in {marks \cup {k}, marks \ {k}} \ {marks}
          /\ UNCHANGED expiring
       \/ UNCHANGED marks /\ expiring' = ~expiring
    /\ UNCHANGED <<login, probes, alerts, cycle, told, healing, faults>>

-----------------------------------------------------------------------------
(* One cycle *)

Tick ==
    /\ cycle.at = "idle"
    /\ probes' = [h \in Homes |-> [probes[h] EXCEPT !.age = Older(@, Spacing)]]
    /\ alerts' = [k \in Keys |-> [alerts[k] EXCEPT !.age = Older(@, Interval(k))]]
    /\ heard' = [k \in Keys |-> [heard[k] EXCEPT !.age = Older(@, Interval(k))]]
    /\ execs' = [h \in Homes |-> [execs[h] EXCEPT !.age = Older(@, Spacing)]]
    /\ UNCHANGED <<world, cycle, early, misled, unsaved, dug, changes, faults>>

(* codex_verdict of a probe that reached its endpoint; any other is a       *)
(* network error, except that a home without auth.json is not asked.        *)
JudgedRevoked(l) ==                                              \* mutant
    [valid |-> IF l.free THEN "free-plan" ELSE "ok", expired |-> "auth-revoked",
     dead |-> "auth-revoked", revoked |-> "auth-revoked", none |-> "no-auth"][l.token]
Judged(l) ==
    [valid |-> IF l.free THEN "free-plan" ELSE "ok", expired |-> "auth-suspect",
     dead |-> "auth-suspect", revoked |-> "auth-revoked", none |-> "no-auth"][l.token]
Readings(l) == {Judged(l)} \cup (IF l.token = "none" THEN {} ELSE {"unknown"})

(* snapshot.build, and the candidates of the heal.                          *)
BeginWith(v) ==
    LET suspects == {h \in Homes : v[h] = "auth-suspect"}
        heals == suspects # {}
    IN  /\ cycle.at = "idle"
        /\ cycle' = [Idle EXCEPT
                  !.at = IF heals THEN "healing" ELSE "telling",
                  !.verdict = v, !.todo = suspects,
                  !.stamp = IF heals THEN [h \in Homes |-> login[h].stamp] ELSE @,
                  !.probes = IF heals THEN probes ELSE @]
        /\ UNCHANGED <<world, probes, alerts, told, healing, changes, faults>>

Begin ==
    \E v \in [Homes -> Verdicts] :
        (\A h \in Homes : v[h] \in Readings(login[h])) /\ BeginWith(v)

BeginOnline == BeginWith([h \in Homes |-> Judged(login[h])])

-----------------------------------------------------------------------------
(* heal_expired_codex_homes *)

(* A revoked result holds until auth.json is another one.                   *)
NeverLatched(h) == FALSE                                         \* mutant
Latched(h) ==
    cycle.probes[h].result = "revoked" /\ cycle.probes[h].stamp = cycle.stamp[h]
Spaced(h) == cycle.probes[h].age < Spacing
Heals(h) == cycle.at = "healing" /\ h \in cycle.todo

SkipHome(h) ==
    /\ Heals(h)
    /\ Latched(h) \/ Spaced(h)
    /\ cycle' = [cycle EXCEPT !.todo = @ \ {h},
                              !.verdict[h] = IF Latched(h) THEN "auth-revoked" ELSE @]
    /\ UNCHANGED <<world, probes, alerts, told, healing, changes, faults>>

(* What the attempt and the probe after it make of the home.                *)
Resulting(v) ==
    IF v = "ok" THEN "healed"
    ELSE IF v \in {"free-plan", "auth-revoked"} THEN "revoked"
    ELSE "failed"

Attempted(h, result, stamp, v) ==
    /\ cycle' = [cycle EXCEPT !.todo = @ \ {h}, !.tried = @ \cup {h}, !.verdict[h] = v,
                              !.probes[h] = [result |-> result, stamp |-> stamp, age |-> 0]]
    /\ execs' = [execs EXCEPT ![h] =
           [age |-> 0,
            dead |-> IF v = "auth-revoked" /\ stamp = login[h].stamp THEN stamp ELSE 0]]
    /\ dug' = IF execs[h].age < Spacing \/ execs[h].dead = login[h].stamp
              THEN dug \cup {h} ELSE dug

(* refresh_via_cli: the CLI finds its refresh token revoked.                *)
ExecRevoked(h) ==
    /\ login[h].token \in {"dead", "revoked"}
    /\ Attempted(h, "revoked", cycle.stamp[h], "auth-revoked")
    /\ UNCHANGED login

(* The exec fails, or it works; either way it may have refreshed the token, *)
(* and the home is probed again.  A probe that says nothing new leaves the  *)
(* row as it was.                                                           *)
ExecThenProbe(h, online) ==
    LET renewed == [login[h] EXCEPT !.token = "valid", !.stamp = @ + 1]
    IN  \E l \in {login[h]} \cup (IF login[h].token = "expired" THEN {renewed} ELSE {}) :
          \E v \in IF online THEN {Judged(l)} ELSE Readings(l) :
            /\ online => l.token # "expired"
            /\ login' = [login EXCEPT ![h] = l]
            /\ IF Resulting(v) = "failed"
               THEN Attempted(h, "failed", cycle.stamp[h], cycle.verdict[h])
               ELSE Attempted(h, Resulting(v), l.stamp, v)

Exec(h, online) ==
    /\ Heals(h) /\ ~Latched(h) /\ ~Spaced(h)
    /\ \/ ExecRevoked(h)
       \/ (online => login[h].token \notin {"dead", "revoked"}) /\ ExecThenProbe(h, online)
    /\ UNCHANGED <<marks, expiring, probes, alerts, told, changes, faults>>

(* The attempts of the cycle reach the file together, after the last.       *)
SaveProbes ==
    /\ cycle.at = "healing" /\ cycle.todo = {}
    /\ probes' = IF cycle.tried = {} THEN probes ELSE cycle.probes
    /\ cycle' = [cycle EXCEPT !.at = "telling", !.tried = {}, !.stamp = Idle.stamp,
                              !.probes = Idle.probes]
    /\ UNCHANGED <<world, alerts, told, healing, changes, faults>>

-----------------------------------------------------------------------------
(* evaluate_conditions, on the rows after the heal *)

Offline(v) == \A h \in Homes : v[h] = "unknown"

Conditions(c) ==
    LET rows(kind, verdict) == {kind} \X {h \in Homes : c.verdict[h] = verdict}
    IN  IF Offline(c.verdict) THEN {}
        ELSE rows("noauth", "no-auth") \cup rows("revoked", "auth-revoked")
             \cup rows("suspect", "auth-suspect") \cup rows("free", "free-plan")
             \cup marks
             \cup (IF \E h \in Homes : c.verdict[h] = "ok" THEN {} ELSE {<<"empty", NoHome>>})
             \cup (IF expiring THEN {<<"expiring", NoHome>>} ELSE {})

DueAgain(k) == ~alerts[k].active                                 \* mutant
Due(k) == alerts[k].age >= Interval(k) /\ ~(k[1] = "shadow" /\ alerts[k].active)
WantedAgain(active) == {k \in active : Due(k) \/ ~alerts[k].active}\* mutant
Wanted(active) ==
    {k \in active : Due(k) \/ (k[1] # "expiring" /\ ~alerts[k].active)}

(* One all-clear per condition that cleared, unless its home is still bad.  *)
Cleared(active) == {k \in Keys \ active : alerts[k].active}
StillBad(k, active) == k[2] # NoHome /\ \E j \in active : j[2] = k[2]
Clearable(k) == k[1] \notin {"shadow", "expiring"}
AllClears(active) ==
    {k \in Cleared(active) : Clearable(k) /\ ~StillBad(k, active)}

(* A row that ended is as good as none, but for the time of the strict kind. *)
Ended(k) ==
    IF k[1] = "expiring" THEN [alerts[k] EXCEPT !.active = FALSE] ELSE Untold(k)

RecordedNoEnd(active, sent) ==                                   \* mutant
    [k \in Keys |-> IF k \in Wanted(active) /\ k \in sent THEN [active |-> TRUE, age |-> 0]
                    ELSE alerts[k]]
Recorded(active, sent) ==
    LET wanted == Wanted(active)
    IN  [k \in Keys |->
            IF k \in wanted
            THEN IF k \in sent THEN [active |-> TRUE, age |-> 0] ELSE alerts[k]
            ELSE IF k \in active THEN [alerts[k] EXCEPT !.active = TRUE] ELSE Ended(k)]

(* History: an alert is early when an alert of its key was heard within its *)
(* interval and no cycle found the condition gone since; expiring capacity  *)
(* may come and go, and the shadow of the app is told once.                 *)
Early(k) ==
    /\ k[1] = "expiring" \/ ~heard[k].gone
    /\ k[1] = "shadow" \/ heard[k].age < Interval(k)

Heard(active, sent) ==
    [k \in Keys |->
        IF k \in sent \cap active
        THEN [age |-> 0, open |-> Clearable(k),
              gone |-> k[1] = "expiring"]
        ELSE [age |-> IF k \in active \/ k[1] = "expiring" THEN heard[k].age ELSE Interval(k),
              gone |-> heard[k].gone \/ k \notin active,
              open |-> heard[k].open /\ k \notin sent]]

(* The alerts and the all-clears, each of which the transport may lose.     *)
TellWith(sent) ==
    LET active == Conditions(cycle) IN
    /\ cycle.at = "telling"
    /\ sent \subseteq Wanted(active) \cup AllClears(active)
    /\ heard' = Heard(active, sent)
    /\ early' = early \cup {k \in sent \cap active : Early(k)}
    /\ misled' = [k \in Keys |->
           misled[k] + (IF k \in sent \ active /\ ~heard[k].open THEN 1 ELSE 0)]
    /\ cycle' = [Idle EXCEPT !.at = "saving", !.sent = sent,
                             !.alerts = Recorded(active, sent)]
    /\ UNCHANGED <<world, probes, alerts, unsaved, healing, changes>>

Messages ==
    LET active == Conditions(cycle) IN Wanted(active) \cup AllClears(active)

(* The transport takes every message, none, or all but one.                 *)
TellAll == TellWith(Messages) /\ UNCHANGED faults
TellNothing == TellWith({}) /\ UNCHANGED faults
TellOnline == ~Offline(cycle.verdict) /\ TellAll
TellSome ==
    /\ cycle.at = "telling"
    /\ Fault
    /\ \E lost \in Messages : Messages # {lost} /\ TellWith(Messages \ {lost})

SaveAlerts ==
    /\ cycle.at = "saving"
    /\ alerts' = cycle.alerts
    /\ cycle' = Idle
    /\ UNCHANGED <<world, probes, heard, early, misled, unsaved, healing, changes, faults>>

(* The all-clears of a cycle that did not save yet.                         *)
Pending(k) == cycle.at = "saving" /\ k \in cycle.sent /\ ~heard[k].open

(* A cycle that dies before it told or tried anything leaves nothing behind. *)
(* An alert or an exec whose record dies with it is not held against the    *)
(* next; what the operator read stands.                                     *)
Die ==
    /\ cycle.tried # {} \/ cycle.sent # {}
    /\ Fault
    /\ cycle' = Idle
    /\ unsaved' = [k \in Keys |-> unsaved[k] + (IF Pending(k) THEN 1 ELSE 0)]
    /\ heard' = [k \in Keys |->
           IF k \in cycle.sent THEN [heard[k] EXCEPT !.age = Interval(k), !.gone = TRUE]
           ELSE heard[k]]
    /\ execs' = [h \in Homes |->
           IF h \in cycle.tried THEN [age |-> Spacing, dead |-> 0] ELSE execs[h]]
    /\ UNCHANGED <<world, probes, alerts, early, misled, dug, changes>>

-----------------------------------------------------------------------------
CycleStep ==
    \/ Begin
    \/ \E h \in Homes : SkipHome(h) \/ Exec(h, FALSE)
    \/ SaveProbes
    \/ TellAll \/ TellNothing \/ TellSome \/ SaveAlerts

Next == LoginChanges \/ OtherChanges \/ Tick \/ CycleStep \/ Die

Spec == Init /\ [][Next]_vars

(* launchd starts cycles again and again and time passes between them; an   *)
(* endpoint and a transport that fail do not fail for ever.                 *)
Fairness ==
    /\ SF_vars(Tick)
    /\ WF_vars(CycleStep)
    /\ SF_vars(BeginOnline)
    /\ SF_vars(TellOnline)
    /\ \A h \in Homes : SF_vars(Exec(h, TRUE))

FairSpec == Spec /\ Fairness

-----------------------------------------------------------------------------
TypeOK ==
    /\ login \in [Homes -> [token : Tokens, free : BOOLEAN, stamp : Stamps]]
    /\ marks \subseteq Marks /\ expiring \in BOOLEAN
    /\ probes \in Probes /\ alerts \in Alerts
    /\ cycle.at \in {"idle", "healing", "telling", "saving"}
    /\ cycle.verdict \in [Homes -> Verdicts]
    /\ cycle.probes \in Probes /\ cycle.alerts \in Alerts
    /\ cycle.todo \cup cycle.tried \subseteq Homes
    /\ cycle.sent \subseteq Keys
    /\ heard \in [Keys -> [age : 0..Daily, open : BOOLEAN, gone : BOOLEAN]]
    /\ early \subseteq Keys
    /\ misled \in [Keys -> Nat] /\ unsaved \in [Keys -> Nat]
    /\ execs \in [Homes -> [age : 0..Spacing, dead : Stamps]]
    /\ dug \subseteq Homes

(* No condition is told again within its interval, the one on expiring      *)
(* capacity not even when it came back, the one on the app not at all, while *)
(* cycles keep finding it; an alert whose record was lost with its cycle    *)
(* does not count (run, evaluate_conditions).                               *)
AlertsSpaced == early = {}

(* An all-clear answers an alert heard since the last all-clear of its key:  *)
(* a condition whose alert was lost clears in silence, and one that cleared *)
(* does not clear again.  Each exception has a cycle of its own that died   *)
(* between the all-clear and the record of it: a crash costs the operator   *)
(* one wrong message at most (run).                                         *)
AllClearsAnswer == \A k \in Keys : misled[k] <= unsaved[k]

(* A home is not probed twice within the spacing, nor again after its login *)
(* was found revoked, as long as the attempts reached the file.  The time   *)
(* of an attempt is that of the heal's start, as the code writes it: with   *)
(* several homes the execs of one that comes late in its turn may be nearer *)
(* to each other by the time the earlier ones took                          *)
(* (heal_expired_codex_homes).                                              *)
HealsSpaced == dug = {}

(* A home whose token expired and can be refreshed is healed in the end,    *)
(* unless its plan is the free one (heal_expired_codex_homes).              *)
ExpiredHealed ==
    \A h \in Homes :
        (login[h].token = "expired" /\ ~login[h].free) ~> (login[h].token # "expired")

(* The operator is told of a home whose login stays dead, and told again as *)
(* long as it does: the alert reaches him infinitely often                  *)
(* (heal_expired_codex_homes, run).                                         *)
Alerted(k) == cycle.at = "saving" /\ k \in cycle.sent /\ heard[k].open
DeadTold ==
    \A h \in Homes : <>[](login[h].token = "dead") => []<>Alerted(<<"revoked", h>>)
===============================================================================
