------------------------------ MODULE Capacity -------------------------------
(***************************************************************************)
(* What subfleet knows of its lanes' capacity (subfleet/capacity.py): the  *)
(* cooldown file and the usage ledger that runners append to when a        *)
(* provider refuses a run, the cache of live probes, the roster with its   *)
(* keychain secrets, and the report that `subfleet run` and the picks read.*)
(*                                                                         *)
(* A read-modify-write under the cooldown file's lock is one action.  The  *)
(* cache is read, probed and written without a lock, but a reader uses one *)
(* version of it and the last writer's stands: a report is one action too. *)
(***************************************************************************)
EXTENDS Lanes, FiniteSets

CONSTANTS
    FiveHours, SevenDays,   \* the rolling windows
    TTL,                    \* CACHE_TTL_SECONDS
    Fallback,               \* UNKNOWN_LIMIT_FALLBACK
    HomeRest,               \* minutes that a codex runner rests its home
    AuthRest,               \* days that a dead token rests its lane
    Resets,                 \* offsets of the resets that providers name, 0 if none
    LoginProbes,            \* answers of the usage endpoint to the desktop login
    HomeProbes,             \* answers of wham for a Codex home
    Legacy,                 \* hard limits recorded without a model
    MaxTime, MaxOps         \* bounds: the clock and the recorded operations

Times == 0..MaxTime
LastTime == MaxTime + AuthRest
None == "none"

Percent == Nat \cup {Unknown}
Limits == [lane: Lanes, scope: Scopes, at: Times, reset: 0..LastTime,
           five: Nat, weekly: Nat]

ASSUME CapacityAssumption ==
    /\ FiveHours \in Nat /\ SevenDays \in Nat /\ FiveHours <= SevenDays /\ TTL \in Nat
    /\ AuthRest \in Nat /\ Fallback \in 0..AuthRest /\ HomeRest \in 0..AuthRest
    /\ Resets \subseteq 0..AuthRest
    /\ \A p \in LoginProbes : /\ p.five \in Percent /\ p.fiveReset \in Nat
                              /\ p.weekly \in Percent /\ p.weeklyReset \in Nat
                              /\ p.windows \in [Models -> Percent]
                              /\ p.scoped \in [Models -> Percent]
    /\ Legacy \subseteq Limits /\ IsFiniteSet(Legacy)
    /\ Account \notin Models /\ Lanes \cap Homes = {}
    /\ MaxTime \in Nat \ {0} /\ MaxOps \in Nat

VARIABLES
    now,
    cooldown,    \* cooldowns.json: the end of each lane's cooldown per scope
    uses,        \* the usage ledger: which lanes ran when
    limits,      \* the usage ledger: hard_limit events
    errors,      \* the usage limit that a home's rollouts name last: [at, reset]
    redeemed,    \* when a home's weekly window was last reset by a credit
    enrolled,    \* the roster: accounts with a lane token's name
    secrets,     \* the tokens that the keychain holds
    login,       \* the desktop login's account
    endpoint,    \* what the endpoints answer now: login and homes
    cache,       \* capacity cache
    rests,       \* history: until when each scope was refused, for all readers
    ops          \* bound: operations recorded so far

stores == <<cooldown, uses, limits, errors, redeemed>>
roster == <<enrolled, secrets, login>>
vars == <<now, stores, roster, endpoint, cache, rests, ops>>

All == Lanes \cup Homes
Endpoints == [login: LoginProbes, home: [Homes -> HomeProbes]]

-----------------------------------------------------------------------------
(* The cooldown file and the ledger.                                        *)

Later(a, b) == IF a > b THEN a ELSE b
Extended(c, lane, scope, until) ==
    [c EXCEPT ![lane][scope] = Later(@, until)]
Cleared(c, lane) == [c EXCEPT ![lane] = [s \in Scopes |-> 0]]

\* lane_cooldown: an account's cooldown holds for each of its models.
LaneCooldown(c, lane, scope) ==
    Later(Future(c[lane][Account], now), Future(c[lane][scope], now))

Lifelong(lane, window) == Cardinality({u \in uses : u.lane = lane})   \* mutant
Sum(lane, window) == Cardinality({u \in uses : u.lane = lane /\ u.at + window >= now})

\* learned_capacities: the largest sum at a limit that named no model.
Learned(lane, field) ==
    Max({0} \cup {e[field] : e \in {f \in limits : f.lane = lane /\ f.scope = Account}})

Ratio(tokens, size) == IF size = 0 THEN Unknown ELSE (Full * tokens) \div size

\* A reset that has passed counts as one that was never known.
Stands(e) == IF e.reset > now THEN e.reset ELSE Future(e.at + Fallback, now)
OwnLimits(lane, scope) == {Stands(e) : e \in {f \in limits : f.lane = lane /\ f.scope = scope}}
NoLedger(lane, scope) == 0                                    \* mutant
HardLimitUntil(lane, scope) ==
    Max({0} \cup OwnLimits(lane, scope) \cup OwnLimits(lane, Account))

\* short_window_limit_until
ShortWindow(h) ==
    LET e == errors[h]
    IN IF e.reset > now /\ ~(redeemed[h] # 0 /\ e.at <= redeemed[h]) THEN e.reset
       ELSE Future(cooldown[h][Account], now)

-----------------------------------------------------------------------------
(* Reports.                                                                 *)

Caches == [at: Times, roster: SUBSET Lanes, login: Lanes \cup {None},
           live: LoginProbes, homes: [Homes -> HomeProbes], secrets: SUBSET Lanes]
Probed == [at |-> now, roster |-> enrolled, login |-> login, live |-> endpoint.login,
           homes |-> endpoint.home, secrets |-> secrets \cap enrolled]
NoCache == [at |-> 0, roster |-> {}, login |-> None]

Hit(c) == c.at # 0 /\ c.roster = enrolled /\ now - c.at < TTL

Used(force) == IF Hit(cache) /\ ~force THEN cache ELSE Probed

NoBuckets == [m \in Models |-> Unknown]
Unprobed == [five |-> Unknown, weekly |-> Unknown, fiveReset |-> 0, weeklyReset |-> 0,
             windows |-> NoBuckets, scoped |-> NoBuckets, critical |-> {},
             probe |-> None, status |-> None, until |-> 0]

\* The desktop login's row is live, whatever its lane token used.  (A keepalive's
\* window moves only the reset of an estimate: it is left out.)
Readings(l, live) ==
    LET Of(used, window, field) ==
            IF live.probe = "ok" /\ used # Unknown THEN used
            ELSE Ratio(Sum(l, window), Learned(l, field))
    IN [live EXCEPT !.five = Of(@, FiveHours, "five"),
                    !.weekly = Of(@, SevenDays, "weekly")]

ModelCooldown(l, m) == Later(Future(cooldown[l][m], now), HardLimitUntil(l, m))

ClaudeRow(l, c) ==
    LET active == l = c.login
        live == IF active THEN LoginRow(c.live, c.at) ELSE Unprobed
        read == IF l \in enrolled \/ ~active THEN Readings(l, live) ELSE live
        known == {e.scope : e \in {f \in limits : f.lane = l}} \ {Account}
        cooled == [s \in Scopes |-> IF s \in known THEN ModelCooldown(l, s)
                                    ELSE Future(cooldown[l][s], now)]
        until == Max({cooled[Account], HardLimitUntil(l, Account), Future(live.until, now)})
        score == Score(read.five, read.weekly)
        status == IF l \notin enrolled
                  THEN IF active /\ live.status # "ok" THEN live.status ELSE "not-enrolled"
                  ELSE IF l \notin c.secrets THEN "secret-missing"
                  ELSE IF until # 0 \/ live.probe = "rate-limited" THEN "limited"
                  ELSE IF ~Enough(score) THEN "exhausted" ELSE "ok"
    IN [active |-> active, enrolled |-> l \in enrolled, status |-> status,
        five |-> read.five, weekly |-> read.weekly, windows |-> live.windows,
        scoped |-> live.scoped, critical |-> live.critical, cooled |-> cooled,
        until |-> IF status = "exhausted" /\ until = 0 THEN WindowLimit(read, now) ELSE until,
        score |-> IF status \in Limited THEN 0 ELSE score,
        dispatchable |-> status = "ok"]

Report(c) ==
    [claude |-> [l \in Lanes |-> ClaudeRow(l, c)],
     codex |-> [h \in Homes |-> Gated(CodexRow(c.homes[h], c.at), ShortWindow(h))]]

-----------------------------------------------------------------------------
(* Initially some limits of older releases may be on record.                *)

Init ==
    /\ now = 1 /\ ops = 0
    /\ cooldown = [l \in All |-> [s \in Scopes |-> 0]]
    /\ uses = {} /\ limits \in {{}, Legacy}
    /\ errors = [h \in Homes |-> [at |-> 0, reset |-> 0]]
    /\ redeemed = [h \in Homes |-> 0]
    /\ enrolled \in SUBSET Lanes /\ secrets = enrolled
    /\ login \in Lanes \cup {None}
    /\ endpoint \in Endpoints
    /\ cache = NoCache
    /\ rests = [l \in All |-> [s \in Scopes |->
                   Max({0} \cup {Later(e.reset, e.at + Fallback) :
                                     e \in {f \in limits : f.lane = l /\ f.scope = s}})]]

Tick ==
    /\ now < MaxTime /\ now' = now + 1
    /\ UNCHANGED <<stores, roster, endpoint, cache, rests, ops>>

Op == ops < MaxOps /\ ops' = ops + 1

Refused(lane, scope, until) == rests' = Extended(rests, lane, scope, until)

\* record_lane_run of a run that the provider served.
RunServed(l) ==
    /\ Op /\ l \in enrolled
    /\ uses' = uses \cup {[lane |-> l, at |-> now]}
    /\ UNCHANGED <<now, cooldown, limits, errors, redeemed, roster, endpoint,
                   cache, rests>>

\* record_lane_run of a run that met a hard limit, whose reset may be unknown.
RunLimited(l, m, offset) ==
    LET used == uses \cup {[lane |-> l, at |-> now]}
        reset == now + IF offset = 0 THEN Fallback ELSE offset
        Tokens(window) == Cardinality({u \in used : u.lane = l /\ u.at + window >= now})
        event == [lane |-> l, scope |-> m, at |-> now, reset |-> reset,
                  five |-> Tokens(FiveHours), weekly |-> Tokens(SevenDays)]
    IN /\ Op /\ l \in enrolled
       /\ uses' = used /\ limits' = limits \cup {event}
       /\ cooldown' = Extended(cooldown, l, m, reset)
       /\ Refused(l, m, reset)
       /\ UNCHANGED <<now, errors, redeemed, roster, endpoint, cache>>

\* record_lane_run of a run whose token is dead.
RunUnauthorized(l) ==
    /\ Op /\ l \in enrolled
    /\ uses' = uses \cup {[lane |-> l, at |-> now]}
    /\ cooldown' = Extended(cooldown, l, Account, now + AuthRest)
    /\ Refused(l, Account, now + AuthRest)
    /\ UNCHANGED <<now, limits, errors, redeemed, roster, endpoint, cache>>

\* A codex run meets its usage limit: the runner rests the home, and the
\* rollout that it leaves behind may name the reset.
HomeLimited(h, offset) ==
    /\ Op
    /\ cooldown' = Extended(cooldown, h, Account, now + HomeRest)
    /\ errors' = [errors EXCEPT ![h] =
                     [at |-> now, reset |-> IF offset = 0 THEN 0 ELSE now + offset]]
    /\ Refused(h, Account, now + HomeRest)
    /\ UNCHANGED <<now, uses, limits, redeemed, roster, endpoint, cache>>

\* reset_policy.run redeems a credit for the home.
Redeem(h) ==
    /\ Op
    /\ redeemed' = [redeemed EXCEPT ![h] = now]
    /\ cooldown' = Cleared(cooldown, h)
    /\ rests' = Cleared(rests, h)
    /\ UNCHANGED <<now, uses, limits, errors, roster, endpoint, cache>>

\* cmd_enroll: a new token, which ends the cooldown of the old one.
Enroll(l) ==
    /\ Op
    /\ enrolled' = enrolled \cup {l} /\ secrets' = secrets \cup {l}
    /\ cooldown' = Cleared(cooldown, l)
    /\ rests' = [rests EXCEPT ![l][Account] = HardLimitUntil(l, Account)]
    /\ UNCHANGED <<now, uses, limits, errors, redeemed, login, endpoint, cache>>

\* The operator signs in to another account, or removes a token.
SignIn(l) ==
    /\ Op /\ login' = l
    /\ UNCHANGED <<now, stores, enrolled, secrets, endpoint, cache, rests>>
DropSecret(l) ==
    /\ Op /\ secrets' = secrets \ {l}
    /\ UNCHANGED <<now, stores, enrolled, login, endpoint, cache, rests>>

\* What the providers' usage endpoints answer changes.
Usage(e) ==
    /\ Op /\ endpoint' = e
    /\ UNCHANGED <<now, stores, roster, cache, rests>>

\* collect: the report is Report(cache'), and the cache is what it leaves.
Collect(force) ==
    /\ cache' = Used(force)
    /\ UNCHANGED <<now, stores, roster, endpoint, rests, ops>>

Next ==
    \/ Tick
    \/ \E l \in Lanes : RunServed(l) \/ RunUnauthorized(l) \/ Enroll(l) \/ DropSecret(l)
    \/ \E l \in Lanes, m \in Models, r \in Resets : RunLimited(l, m, r)
    \/ \E h \in Homes, r \in Resets : HomeLimited(h, r)
    \/ \E h \in Homes : Redeem(h)
    \/ \E l \in Lanes \cup {None} : SignIn(l)
    \/ \E e \in Endpoints : Usage(e)
    \/ \E force \in BOOLEAN : Collect(force)

Spec == Init /\ [][Next]_vars

-----------------------------------------------------------------------------
(* Properties.                                                              *)

\* Types: the files that the runners, the operator and the reports share.
TypeOK ==
    /\ now \in Times /\ ops \in 0..MaxOps
    /\ cooldown \in [All -> [Scopes -> 0..LastTime]]
    /\ uses \subseteq [lane: Lanes, at: Times] /\ limits \subseteq Limits
    /\ errors \in [Homes -> [at: Times, reset: 0..LastTime]]
    /\ redeemed \in [Homes -> Times]
    /\ enrolled \subseteq Lanes /\ secrets \subseteq Lanes
    /\ login \in Lanes \cup {None}
    /\ endpoint \in Endpoints
    /\ cache \in Caches \cup {NoCache}
    /\ rests \in [All -> [Scopes -> 0..LastTime]]

Standing(lane, scope) == rests[lane][scope] > now \/ rests[lane][Account] > now

\* A refusal that a runner recorded keeps its lane from every later report
\* until the reset that came with it, whatever is cached, recorded after it or
\* cleared: a new token clears the lane's cooldowns but lifts only the old
\* token's, and only a redeemed credit opens a Codex home early.
LimitStands ==
    \A force \in BOOLEAN :
        LET report == Report(Used(force))
        IN /\ \A l \in Lanes, m \in Models :
                 Standing(l, m) => ~DispatchableFor(report.claude[l], m)
           /\ \A h \in Homes : Standing(h, Account) => ~report.codex[h].dispatchable

\* `subfleet run`, the state that reports print and `subfleet pick claude` are
\* three gates in two modules: they agree on every lane and model.
GatesAgree ==
    \A force \in BOOLEAN : \A l \in Lanes, m \in Models :
        LET row == Report(Used(force)).claude[l]
        IN /\ DispatchableFor(row, m) <=> row.enrolled /\ ModelState(row, m) = "ok"
           /\ DispatchableFor(row, m) <=> PickKeeps(row, m)

Forgotten(l, m) ==
    /\ rests[l][Account] <= now
    /\ \A e \in limits : e.lane = l /\ e.scope \in {m, Account} =>
           Later(e.reset, e.at + Fallback) <= now
    /\ \A u \in uses : u.lane = l => u.at + SevenDays < now

\* No lane is lost: with its token in the keychain when the cache was filled, a
\* lane that is not the desktop login serves a model again once the resets and
\* the fallbacks of its refusals have passed and its tokens have left the
\* weekly window, whatever sizes of its windows were learned meanwhile.
NeverLockedOut ==
    \A force \in BOOLEAN : \A l \in enrolled, m \in Models :
        LET used == Used(force)
        IN Forgotten(l, m) /\ l \in used.secrets /\ l # used.login
           => DispatchableFor(Report(used).claude[l], m)
=============================================================================
