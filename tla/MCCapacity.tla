----------------------------- MODULE MCCapacity ------------------------------
EXTENDS Capacity, TLC
MCOrder == "a" :> 1 @@ "h" :> 2
None3 == [m \in {"fable", "opus"} |-> -1]
Probe(status, five, weekly, scoped, critical) ==
    [status |-> status, five |-> five, weekly |-> weekly, fiveReset |-> 2,
     weeklyReset |-> 4, windows |-> [None3 EXCEPT !["opus"] = scoped],
     scoped |-> [None3 EXCEPT !["fable"] = scoped], critical |-> critical]
MCLoginProbes == {Probe("ok", 1, 2, -1, {}), Probe("ok", 4, 1, -1, {}),
                  Probe("ok", 1, 1, 4, {"fable"}), Probe("rate-limited", -1, -1, -1, {})}
Home(five, weekly, reached) ==
    [auth |-> TRUE, status |-> "ok", free |-> FALSE, reached |-> reached, five |-> five,
     weekly |-> weekly, fiveReset |-> 0, weeklyReset |-> 4]
MCHomeProbes == {Home(-1, 1, FALSE), Home(-1, 4, FALSE)}
MCLegacy == {[lane |-> "a", scope |-> "*", at |-> 1, reset |-> 2, five |-> 1, weekly |-> 1]}
=============================================================================
