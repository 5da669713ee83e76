----------------------------- MODULE MCDispatch ------------------------------
EXTENDS Dispatch, TLC
MCOrder == "a" :> 1 @@ "b" :> 2 @@ "g" :> 3 @@ "h" :> 4

\* Claude rows: how much of the account and of Opus's and Fable's windows is used.
Row(status, active, used, opus, fable) ==
    [active |-> active, enrolled |-> TRUE, status |-> status, five |-> used,
     weekly |-> -1, windows |-> [m \in {"opus", "fable"} |-> -1],
     scoped |-> [opus |-> opus, fable |-> fable], critical |-> {},
     cooled |-> [s \in {"opus", "fable", "*"} |-> 0], score |-> IF used < 0 THEN -1 ELSE 10 - used,
     dispatchable |-> status = "ok", inFlight |-> 0, tokens |-> 0]
Home(base) == [base |-> base, weeklyReset |-> 1, until |-> 0]
Reading(shared, fable, present) == [shared |-> shared, fable |-> fable, present |-> present]
Fleet(a, b, g, h, ra, rb, pa, pb) ==
    [claude |-> "a" :> a @@ "b" :> b, codex |-> "g" :> Home(g) @@ "h" :> Home(h),
     reserve |-> "a" :> ra @@ "b" :> rb, probe |-> "a" :> pa @@ "b" :> pb]
Open5 == Row("ok", FALSE, 5, -1, -1)
Login == Row("ok", TRUE, 2, -1, -1)
Dark == Row("ok", FALSE, -1, -1, -1)
NoFable == Row("ok", FALSE, 5, -1, 10)
Slack == Reading(1, 8, TRUE)
Kept == Reading(6, 1, TRUE)
Team == Reading(6, -1, FALSE)
MCFleets ==
    {Fleet(Open5, Login, "ok", "ok", Slack, Slack, -1, -1),
     Fleet(Dark, Open5, "limited", "limited", Team, Kept, -1, -1),
     Fleet(Dark, Dark, "ok", "limited", Slack, Slack, 0, -1),
     Fleet(Dark, Dark, "ok", "limited", Slack, Slack, 0, 0),
     Fleet(NoFable, Row("exhausted", FALSE, 10, -1, -1), "ok", "ok", Slack, Kept, -1, -1),
     Fleet(Open5, Open5, "ok", "limited", Kept, Kept, -1, -1)}

Ask(task, tier, class, model, lane, home, exclude, detached) ==
    [task |-> task, tier |-> tier, class |-> class, model |-> model, lane |-> lane,
     home |-> home, exclude |-> exclude, detached |-> detached]
N == "none"
MCRequests == UNION {{
    Ask("work", "easy", N, N, N, N, {}, detached),
    Ask("work", "standard", N, N, N, N, {"a"}, detached),
    Ask("work", "standard", N, N, "a", N, {}, detached),
    Ask("work", "hard", N, N, N, "g", {}, detached),
    Ask("sweep", "easy", N, N, N, N, {}, detached),
    Ask("voice", "hard", N, N, N, N, {}, detached),
    Ask(N, N, "build", N, N, N, {}, detached),
    Ask(N, N, "fable", N, N, N, {}, detached),
    Ask(N, N, "build", "opus", N, N, {}, detached)} : detached \in BOOLEAN}
TwoRequests == {Ask("work", "standard", N, N, N, N, {}, TRUE), Ask("work", "easy", N, N, N, N, {}, FALSE)}
=============================================================================
