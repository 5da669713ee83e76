-------------------------------- MODULE Lanes --------------------------------
(***************************************************************************)
(* The rows of a capacity report (subfleet/capacity.py) and what is read   *)
(* from them: whether a lane may serve a model, for `subfleet run` and for *)
(* `subfleet pick claude` (subfleet/cli.py), which lane of a family is the *)
(* best one and what the family as a whole is said to have left.           *)
(*                                                                         *)
(* A percentage is a number of parts of Full, a time is a number and 0 is  *)
(* no time at all.  Model names are canonical (normalize_claude_model).    *)
(***************************************************************************)
EXTENDS Integers, FiniteSetsExt

CONSTANTS
    Lanes,         \* Claude accounts
    Homes,         \* Codex homes
    Models,        \* Claude models
    Order,         \* the alphabetical order of lanes and homes
    Full,          \* a hundred percent
    MinHeadroom,   \* DEFAULT_MIN_HEADROOM
    Handicap       \* INTERACTIVE_HANDICAP

ASSUME LanesAssumption ==
    /\ Full \in Nat /\ MinHeadroom \in 1..Full /\ Handicap \in Nat
    /\ Order \in [Lanes \cup Homes -> Nat]
    /\ \A x, y \in Lanes \cup Homes : Order[x] = Order[y] => x = y

Account == "*"
Scopes == Models \cup {Account}

Unknown == -1
Known(S) == S \ {Unknown}
Future(time, now) == IF time > now THEN time ELSE 0

Left(used) == IF used = Unknown THEN Unknown ELSE Max({0, Full - used})
Worst(S) == IF Known(S) = {} THEN Unknown ELSE Min(Known(S))
Score(five, weekly) == Worst({Left(five), Left(weekly)})

-----------------------------------------------------------------------------
(* One lane and one model.                                                  *)

ScopedExhausted(row, m) == row.scoped[m] >= Full \/ m \in row.critical

ModelHeadroom(row, m) ==
    Worst({row.score, Left(row.windows[m]), Left(row.scoped[m])})

Enough(headroom) == headroom = Unknown \/ headroom >= MinHeadroom

AccountBlind(row, m) ==                                       \* mutant
    /\ row.dispatchable
    /\ row.cooled[m] = 0
    /\ ~ScopedExhausted(row, m)
    /\ Enough(row.score)

DispatchableFor(row, m) ==
    /\ row.dispatchable
    /\ row.cooled[Account] = 0 /\ row.cooled[m] = 0
    /\ ~ScopedExhausted(row, m)
    /\ Enough(ModelHeadroom(row, m))

ModelState(row, m) ==
    IF row.cooled[Account] # 0 \/ row.cooled[m] # 0 THEN "cooled"
    ELSE IF ScopedExhausted(row, m) THEN "limited"
    ELSE IF ~row.dispatchable THEN row.status
    ELSE IF ~Enough(ModelHeadroom(row, m)) THEN "exhausted"
    ELSE "ok"

\* What `subfleet pick claude --model m` keeps of the enrolled lanes.
PickKeeps(row, m) ==
    LET used == {row.five, row.weekly, row.windows[m], row.scoped[m]}
    IN /\ row.enrolled
       /\ row.status \in {"ok", "exhausted"}
       /\ Enough(Worst({Left(u) : u \in used}))
       /\ ~(row.status = "exhausted" /\ Score(row.five, row.weekly) = Unknown)
       /\ ModelState(row, m) \in {"ok", "exhausted"}

-----------------------------------------------------------------------------
(* Rows from probes.  A full window is lifted at its reset; a generic limit *)
(* belongs to the short window.                                             *)

WindowLimit(w, now) ==
    LET Spent(used, reset) == used > Full - MinHeadroom /\ reset > now
        resets == {r \in {w.fiveReset, w.weeklyReset} :
                      \/ r = w.fiveReset /\ Spent(w.five, r)
                      \/ r = w.weeklyReset /\ Spent(w.weekly, r)}
    IN IF resets # {} THEN Max(resets)
       ELSE IF w.fiveReset > now THEN w.fiveReset ELSE Future(w.weeklyReset, now)

Limited == {"rate-limited", "limited", "exhausted"}

LoginRow(p, now) ==
    LET status == IF p.status = "ok" /\ Score(p.five, p.weekly) = 0
                  THEN "exhausted" ELSE p.status
    IN [five |-> p.five, weekly |-> p.weekly, fiveReset |-> p.fiveReset,
        weeklyReset |-> p.weeklyReset, windows |-> p.windows,
        scoped |-> p.scoped, critical |-> p.critical, probe |-> p.status,
        status |-> status, until |-> IF status \in Limited THEN WindowLimit(p, now) ELSE 0]

CodexStatus(p) ==
    IF ~p.auth THEN "no-auth"
    ELSE IF p.status # "ok" THEN p.status
    ELSE IF p.free THEN "free-plan"
    ELSE IF p.reached THEN "limited"
    ELSE IF Score(p.five, p.weekly) = Unknown THEN "no-window-data"
    ELSE IF ~Enough(Score(p.five, p.weekly)) THEN "exhausted"
    ELSE "ok"

CodexRow(p, now) ==
    [base |-> CodexStatus(p), weeklyReset |-> p.weeklyReset,
     until |-> IF CodexStatus(p) \in {"limited", "exhausted"}
               THEN WindowLimit(p, now) ELSE 0]

\* _apply_codex_dynamic_gate: the limits that runs met since the probe.
Gated(row, short) ==
    [status |-> IF row.base = "ok" /\ short # 0 THEN "cooldown" ELSE row.base,
     dispatchable |-> row.base = "ok" /\ short = 0,
     weeklyReset |-> row.weeklyReset,
     until |-> IF row.base = "ok" THEN short ELSE row.until]

-----------------------------------------------------------------------------
(* The best lane of a family, and what the family has left.                 *)

Bit(b) == IF b THEN 1 ELSE 0
Before(a, b) == \E i \in DOMAIN a : a[i] < b[i] /\ \A j \in 1..(i - 1) : a[j] = b[j]
First(S, key) == CHOOSE x \in S : \A y \in S \ {x} : Before(key[x], key[y])

\* Codex: the earliest weekly reset, a just-past one being due now.
CodexKey(rows, now) ==
    [h \in Homes |-> <<Bit(rows[h].weeklyReset = 0),
                       Max({0, rows[h].weeklyReset - now}), Order[h]>>]

\* Claude: stranded lanes, then the desktop login last, then known scores.
ClaudeKey(rows, score, stranded) ==
    [l \in Lanes |->
        LET r == rows[l]
        IN <<Bit(l \notin stranded), Bit(r.active), Bit(score[l] = Unknown),
             (IF r.active THEN Handicap ELSE 0) - score[l], r.inFlight, r.tokens, Order[l]>>]

\* `subfleet pick claude`: known use first, then the least busy lane.
PickKey(rows, m) ==
    [l \in Lanes |->
        LET r == rows[l]
            left == Worst({Left(r.five), Left(r.weekly), Left(r.windows[m]), Left(r.scoped[m])})
            used == Full - left + (IF r.active THEN Handicap ELSE 0)
        IN <<Bit(left = Unknown), IF left = Unknown THEN 0 ELSE used, r.inFlight,
             Bit(left = Unknown /\ r.active), r.tokens, Order[l]>>]

Open(rows) == {l \in DOMAIN rows : rows[l].dispatchable}

FamilyState(rows, relevant) ==
    IF Open(rows) \cap relevant # {} THEN "available"
    ELSE IF relevant = {} THEN "empty"
    ELSE IF \A l \in relevant : rows[l].status \in {"limited", "exhausted", "cooldown"}
    THEN "limited" ELSE "unknown"
=============================================================================
