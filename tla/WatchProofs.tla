------------------------------ MODULE WatchProofs ------------------------------
(***************************************************************************)
(* Theorems about the watchdog, for any homes, spacing and intervals, and  *)
(* any number of faults and of changes of the world.                       *)
(***************************************************************************)
EXTENDS Watch, TLAPS

Cycles == [at : {"idle", "healing", "telling", "saving"},
           verdict : [Homes -> Verdicts], stamp : [Homes -> Stamps],
           todo : SUBSET Homes, tried : SUBSET Homes,
           sent : SUBSET Keys, probes : Probes, alerts : Alerts]

(* Types, and the bound of the stamps: each is paid for by a change, an     *)
(* expired token's refresh in advance.                                      *)
Types ==
    /\ login \in [Homes -> [token : Tokens, free : BOOLEAN, stamp : Nat \ {0}]]
    /\ marks \subseteq Marks /\ expiring \in BOOLEAN
    /\ probes \in Probes /\ alerts \in Alerts /\ cycle \in Cycles
    /\ heard \in [Keys -> [age : 0..Daily, open : BOOLEAN, gone : BOOLEAN]]
    /\ early \subseteq Keys
    /\ misled \in [Keys -> Nat] /\ unsaved \in [Keys -> Nat]
    /\ execs \in [Homes -> [age : 0..Spacing, dead : Stamps]]
    /\ dug \subseteq Homes
    /\ changes \in 0..MaxChanges

Owed(l) == IF l.token = "expired" THEN 1 ELSE 0
StampsPaid == \A h \in Homes : login[h].stamp + Owed(login[h]) <= changes + 2

(* What a version of alerts.json knows of the last alert of a key: it stands *)
(* while the condition is found, and is no younger on file.                 *)
Remembers(file, k) ==
    /\ (k[1] # "expiring" /\ ~heard[k].gone) => file[k].active
    /\ (k[1] = "expiring" \/ ~heard[k].gone) => file[k].age <= heard[k].age

AlertsKnown ==
    \A k \in Keys : (cycle.at = "saving" /\ k \in cycle.sent) \/ Remembers(alerts, k)
SavingKnown == cycle.at = "saving" => \A k \in Keys : Remembers(cycle.alerts, k)

(* An active row whose condition was cleared already promises an all-clear  *)
(* that answers nothing; each such promise is the debt of a cycle that died. *)
Debt(file, k) == IF Clearable(k) /\ file[k].active /\ ~heard[k].open THEN 1 ELSE 0
Lost(k) == IF Pending(k) THEN 1 ELSE 0
Covered ==
    \A k \in Keys :
        /\ misled[k] + Debt(alerts, k) <= unsaved[k] + Lost(k)
        /\ cycle.at = "saving" => misled[k] + Debt(cycle.alerts, k) <= unsaved[k]

(* A row of refresh-probes.json that knows of the last exec in its home.    *)
Knows(row, h) ==
    /\ row.age <= execs[h].age
    /\ execs[h].dead # 0 => row.result = "revoked" /\ row.stamp = execs[h].dead

ProbesKnown ==
    \A h \in Homes : (cycle.at = "healing" /\ h \in cycle.tried) \/ Knows(probes[h], h)
StampsKnown == \A h \in Homes : execs[h].dead <= login[h].stamp
HealingKnown ==
    cycle.at = "healing" => \A h \in Homes :
        /\ h \notin cycle.tried => cycle.probes[h] = probes[h]
        /\ h \in cycle.tried => Knows(cycle.probes[h], h)
        /\ h \in cycle.todo => /\ h \notin cycle.tried
                               /\ cycle.verdict[h] = "auth-suspect"
                               /\ execs[h].dead <= cycle.stamp[h]
        /\ cycle.stamp[h] <= login[h].stamp

Telling == AlertsKnown /\ SavingKnown /\ Covered /\ early = {}
Healing == ProbesKnown /\ StampsKnown /\ HealingKnown /\ dug = {}
IInv == Types /\ StampsPaid /\ Telling /\ Healing

-----------------------------------------------------------------------------
(* Constants, keys and rows *)

LEMMA Constants ==
    /\ Spacing \in Nat /\ Realert \in Nat /\ Daily \in Nat /\ Realert <= Daily
    /\ MaxChanges \in Nat /\ Starting \subseteq Tokens
    /\ 0 \in Stamps /\ 1 \in Stamps
    /\ \A k : Interval(k) \in 0..Daily
<1>1. \A k : Interval(k) \in 0..Daily
  BY WatchAssumption DEF Interval
<1>2. 0 \in Stamps /\ 1 \in Stamps
  BY WatchAssumption DEF Stamps
<1>3. QED
  BY <1>1, <1>2, WatchAssumption

LEMMA IdleType == Idle \in Cycles /\ Idle.at = "idle" /\ Idle.sent = {} /\ Idle.tried = {}
<1>1. Unprobed \in [result : Results, stamp : Stamps, age : 0..Spacing]
  BY Constants DEF Unprobed, Results
<1>2. [h \in Homes |-> Unprobed] \in Probes
  BY <1>1 DEF Probes
<1>3. \A k \in Keys : Untold(k) \in [active : BOOLEAN, age : 0..Daily]
  BY Constants DEF Untold
<1>4. [k \in Keys |-> Untold(k)] \in Alerts
  BY <1>3 DEF Alerts
<1>5. [h \in Homes |-> "ok"] \in [Homes -> Verdicts]
  BY DEF Verdicts
<1>6. [h \in Homes |-> 0] \in [Homes -> Stamps]
  BY Constants
<1>7. QED
  BY <1>2, <1>4, <1>5, <1>6 DEF Idle, Cycles

LEMMA OlderType ==
    ASSUME NEW i \in Nat, NEW bound \in Nat, i <= bound, NEW a \in 0..bound
    PROVE  Older(a, i) \in 0..bound
BY DEF Older

(* The stamp of a home is bounded. *)
LEMMA StampBound ==
    ASSUME Types, StampsPaid, NEW h \in Homes
    PROVE  login[h].stamp \in Stamps /\ login[h].stamp >= 1
<1>1. login[h].stamp + Owed(login[h]) <= changes + 2
  BY DEF StampsPaid
<1>2. Owed(login[h]) \in {0, 1} /\ login[h].stamp \in Nat \ {0} /\ changes \in 0..MaxChanges
  BY DEF Types, Owed
<1>3. QED
  BY <1>1, <1>2, Constants DEF Stamps

-----------------------------------------------------------------------------
LEMMA InitInvariant == Init => IInv
<1> SUFFICES ASSUME Init PROVE IInv
  OBVIOUS
<1>1. Types
  <2>1. login \in [Homes -> [token : Tokens, free : BOOLEAN, stamp : Nat \ {0}]]
    <3>1. login \in [Homes -> [token : Starting, free : {FALSE}, stamp : {1}]]
      BY DEF Init
    <3>2. \A h \in Homes : login[h] \in [token : Tokens, free : BOOLEAN, stamp : Nat \ {0}]
      <4> SUFFICES ASSUME NEW h \in Homes
                   PROVE  login[h] \in [token : Tokens, free : BOOLEAN, stamp : Nat \ {0}]
        OBVIOUS
      <4>1. PICK t \in Starting : login[h] = [token |-> t, free |-> FALSE, stamp |-> 1]
        BY <3>1
      <4>2. t \in Tokens
        BY Constants
      <4>3. QED
        BY <4>1, <4>2
    <3>3. QED
      BY <3>1, <3>2
  <2>2. probes \in Probes /\ alerts \in Alerts /\ cycle \in Cycles
    BY IdleType DEF Init, Idle, Cycles
  <2>3. heard \in [Keys -> [age : 0..Daily, open : BOOLEAN, gone : BOOLEAN]]
    BY Constants DEF Init
  <2>4. execs \in [Homes -> [age : 0..Spacing, dead : Stamps]]
    BY Constants DEF Init
  <2>5. changes \in 0..MaxChanges
    BY Constants DEF Init
  <2>6. /\ marks \subseteq Marks /\ expiring \in BOOLEAN /\ dug \subseteq Homes
        /\ early \subseteq Keys /\ misled \in [Keys -> Nat] /\ unsaved \in [Keys -> Nat]
    BY DEF Init
  <2>7. QED
    BY <2>1, <2>2, <2>3, <2>4, <2>5, <2>6 DEF Types
<1>2. StampsPaid
  <2>1. \A h \in Homes : login[h].stamp = 1
    BY DEF Init
  <2>2. \A h \in Homes : Owed(login[h]) \in {0, 1}
    BY DEF Owed
  <2>3. QED
    BY <2>1, <2>2 DEF Init, StampsPaid
<1>3. Telling
  <2>1. \A k \in Keys : Remembers(alerts, k) /\ ~alerts[k].active
    BY Constants DEF Init, Remembers, Untold
  <2>2. cycle.at # "saving"
    BY IdleType DEF Init
  <2>3. Covered
    <3>1. \A k \in Keys : misled[k] = 0 /\ unsaved[k] = 0
      BY DEF Init
    <3>2. \A k \in Keys : Debt(alerts, k) = 0 /\ Lost(k) = 0
      BY <2>1, <2>2 DEF Debt, Lost, Pending
    <3>3. QED
      BY <2>2, <3>1, <3>2 DEF Covered
  <2>4. QED
    BY <2>1, <2>2, <2>3 DEF Init, Telling, AlertsKnown, SavingKnown
<1>4. Healing
  <2>1. \A h \in Homes : Knows(probes[h], h) /\ execs[h].dead <= login[h].stamp
    <3> SUFFICES ASSUME NEW h \in Homes
                 PROVE  Knows(probes[h], h) /\ execs[h].dead <= login[h].stamp
      OBVIOUS
    <3>1. login[h].stamp = 1
      BY DEF Init
    <3>2. execs[h] = [age |-> Spacing, dead |-> 0] /\ probes[h] = Unprobed
      BY DEF Init
    <3>3. QED
      BY <3>1, <3>2, Constants DEF Knows, Unprobed
  <2>2. cycle.at # "healing"
    BY IdleType DEF Init
  <2>3. QED
    BY <2>1, <2>2 DEF Init, Healing, ProbesKnown, StampsKnown, HealingKnown
<1>5. QED
  BY <1>1, <1>2, <1>3, <1>4 DEF IInv

-----------------------------------------------------------------------------
(* What a step of the one file leaves to the other *)

LEMMA TellingKept ==
    ASSUME IInv, UNCHANGED <<alerts, told>>,
           cycle' = cycle \/ (cycle.at # "saving" /\ cycle'.at # "saving")
    PROVE  Telling'
<1>1. \A k : Remembers(alerts, k) => Remembers(alerts, k)'
  BY DEF Remembers, told
<1>2. \A k : Remembers(cycle.alerts, k) /\ cycle' = cycle => Remembers(cycle.alerts, k)'
  BY DEF Remembers, told
<1>3. AlertsKnown'
  BY <1>1 DEF IInv, Telling, AlertsKnown, told
<1>4. SavingKnown'
  BY <1>2 DEF IInv, Telling, SavingKnown, told
<1>5. Covered'
  <2>1. \A k : Debt(alerts, k)' = Debt(alerts, k) /\ (cycle' = cycle => Lost(k)' = Lost(k))
    BY DEF Debt, Lost, Pending, told
  <2>2. cycle.at # "saving" /\ cycle'.at # "saving" => \A k : Lost(k) = 0 /\ Lost(k)' = 0
    BY DEF Lost, Pending
  <2>3. \A k : cycle' = cycle => Debt(cycle.alerts, k)' = Debt(cycle.alerts, k)
    BY DEF Debt, told
  <2>4. QED
    BY <2>1, <2>2, <2>3 DEF IInv, Telling, Covered, told
<1>6. QED
  BY <1>3, <1>4, <1>5 DEF IInv, Telling, told

LEMMA HealingKept ==
    ASSUME IInv, UNCHANGED <<probes, execs, dug>>,
           \A h \in Homes : login[h].stamp <= login'[h].stamp,
           \A h \in Homes : login'[h].stamp \in Nat,
           cycle' = cycle \/ (cycle.at # "healing" /\ cycle'.at # "healing")
    PROVE  Healing'
<1>1. \A row, h : Knows(row, h) => Knows(row, h)'
  BY DEF Knows
<1>2. ProbesKnown'
  BY DEF IInv, Healing, ProbesKnown, Knows
<1>3. \A h \in Homes : /\ execs[h].dead \in Nat /\ login[h].stamp \in Nat
                       /\ cycle.stamp[h] \in Nat
  BY Constants DEF IInv, Types, Cycles, Stamps
<1>4. StampsKnown'
  BY <1>3 DEF IInv, Healing, StampsKnown
<1>5. HealingKnown'
  <2>1. CASE cycle'.at # "healing"
    BY <2>1 DEF HealingKnown
  <2>2. CASE cycle' = cycle /\ cycle.at = "healing"
    BY <1>3, <2>2 DEF IInv, Healing, HealingKnown, Knows
  <2>3. QED
    BY <2>1, <2>2
<1>6. QED
  BY <1>2, <1>4, <1>5 DEF IInv, Healing

LEMMA LoginChangesInv ==
    ASSUME IInv, LoginChanges
    PROVE  IInv'
<1>1. PICK h \in Homes : Expire(h) \/ Revoke(h) \/ Abort(h) \/ Renew(h)
  BY DEF LoginChanges
<1>2. PICK l \in [token : Tokens, free : BOOLEAN, stamp : Nat \ {0}] :
         /\ login' = [login EXCEPT ![h] = l]
         /\ login[h].stamp <= l.stamp
         /\ l.stamp + Owed(l) <= login[h].stamp + Owed(login[h]) + 1
  <2> DEFINE With(t) == [login[h] EXCEPT !.token = t]
  <2>1. login[h] \in [token : Tokens, free : BOOLEAN, stamp : Nat \ {0}]
    BY DEF IInv, Types
  <2>2. ASSUME NEW t \in Tokens, Becomes(h, t)
        PROVE  /\ With(t) \in [token : Tokens, free : BOOLEAN, stamp : Nat \ {0}]
               /\ login' = [login EXCEPT ![h] = With(t)]
               /\ login[h].stamp <= With(t).stamp
               /\ With(t).stamp + Owed(With(t)) <= login[h].stamp + Owed(login[h]) + 1
    <3>1. With(t) \in [token : Tokens, free : BOOLEAN, stamp : Nat \ {0}]
      BY <2>1
    <3>2. login' = [login EXCEPT ![h] = With(t)]
      BY <2>2, <2>1 DEF Becomes, IInv, Types
    <3>3. With(t).stamp = login[h].stamp
      BY <2>1
    <3>4. Owed(With(t)) \in {0, 1} /\ Owed(login[h]) \in {0, 1}
      BY DEF Owed
    <3>5. QED
      BY <2>1, <3>1, <3>2, <3>3, <3>4
  <2>3. CASE Expire(h)
    <3>1. [valid |-> "expired", revoked |-> "dead"][login[h].token] \in Tokens
      BY <2>3 DEF Expire, Tokens
    <3>2. QED
      BY <2>3, <3>1, <2>2 DEF Expire
  <2>4. CASE Revoke(h)
    <3>1. [valid |-> "revoked", expired |-> "dead"][login[h].token] \in Tokens
      BY <2>4 DEF Revoke, Tokens
    <3>2. QED
      BY <2>4, <3>1, <2>2 DEF Revoke
  <2>5. CASE Abort(h)
    <3>1. "none" \in Tokens
      BY DEF Tokens
    <3>2. QED
      BY <2>5, <3>1, <2>2 DEF Abort
  <2>6. CASE Renew(h)
    <3>1. PICK f \in BOOLEAN : Renewed(h, f)
      BY <2>6 DEF Renew
    <3> DEFINE l == [token |-> "valid", free |-> f, stamp |-> login[h].stamp + 1]
    <3>2. l \in [token : Tokens, free : BOOLEAN, stamp : Nat \ {0}]
      BY <2>1 DEF Tokens
    <3>3. login' = [login EXCEPT ![h] = l]
      BY <3>1 DEF Renewed, IInv, Types
    <3>4. Owed(l) = 0 /\ Owed(login[h]) \in {0, 1}
      BY DEF Owed
    <3>5. login[h].stamp <= l.stamp
      BY <2>1
    <3>6. l.stamp + Owed(l) <= login[h].stamp + Owed(login[h]) + 1
      BY <2>1, <3>4
    <3> HIDE DEF l
    <3>7. QED
      BY <3>2, <3>3, <3>5, <3>6
  <2>7. QED
    BY <1>1, <2>3, <2>4, <2>5, <2>6
<1>3. changes' = changes + 1 /\ changes' \in 0..MaxChanges
  BY Constants DEF LoginChanges, Change, IInv, Types
<1>4. login' \in [Homes -> [token : Tokens, free : BOOLEAN, stamp : Nat \ {0}]]
  BY <1>2 DEF IInv, Types
<1>5. UNCHANGED <<marks, expiring, probes, alerts, cycle, told, healing>>
  BY DEF LoginChanges
<1>6. Types'
  BY <1>3, <1>4, <1>5 DEF IInv, Types, told, healing
<1>7. \A g \in Homes : /\ login[g].stamp <= login'[g].stamp /\ login'[g].stamp \in Nat
                       /\ login'[g].stamp + Owed(login'[g])
                              <= login[g].stamp + Owed(login[g]) + 1
  <2> SUFFICES ASSUME NEW g \in Homes
               PROVE  /\ login[g].stamp <= login'[g].stamp /\ login'[g].stamp \in Nat
                      /\ login'[g].stamp + Owed(login'[g])
                             <= login[g].stamp + Owed(login[g]) + 1
    OBVIOUS
  <2>1. login[g].stamp \in Nat /\ Owed(login[g]) \in {0, 1}
    BY DEF IInv, Types, Owed
  <2>2. login'[g] = IF g = h THEN l ELSE login[g]
    BY <1>2 DEF IInv, Types
  <2>3. QED
    BY <1>2, <2>1, <2>2
<1>8. StampsPaid'
  <2> SUFFICES ASSUME NEW g \in Homes
               PROVE  login'[g].stamp + Owed(login'[g]) <= changes' + 2
    BY DEF StampsPaid
  <2>1. login[g].stamp + Owed(login[g]) <= changes + 2
    BY DEF IInv, StampsPaid
  <2>2. /\ login[g].stamp \in Nat /\ Owed(login[g]) \in {0, 1} /\ changes \in Nat
        /\ login'[g].stamp \in Nat /\ Owed(login'[g]) \in {0, 1}
    BY <1>7, Constants DEF IInv, Types, Owed
  <2>3. QED
    BY <1>3, <1>7, <2>1, <2>2
<1>9. Telling'
  BY <1>5, TellingKept
<1>10. Healing'
  BY <1>5, <1>7, HealingKept DEF healing
<1>11. QED
  BY <1>6, <1>8, <1>9, <1>10 DEF IInv

LEMMA OtherChangesInv ==
    ASSUME IInv, OtherChanges
    PROVE  IInv'
<1>1. changes' = changes + 1 /\ changes' \in 0..MaxChanges /\ changes \in Nat
  BY Constants DEF OtherChanges, Change, IInv, Types
<1>2. UNCHANGED <<login, probes, alerts, cycle, told, healing>>
  BY DEF OtherChanges
<1>3. marks' \subseteq Marks /\ expiring' \in BOOLEAN
  BY DEF OtherChanges, IInv, Types
<1>4. Types'
  BY <1>1, <1>2, <1>3 DEF IInv, Types, told, healing
<1>5. StampsPaid'
  BY <1>1, <1>2 DEF IInv, StampsPaid, Owed, Types
<1>6. Telling'
  BY <1>2, TellingKept
<1>7. \A h \in Homes : login[h].stamp <= login'[h].stamp /\ login'[h].stamp \in Nat
  BY <1>2 DEF IInv, Types
<1>8. Healing'
  BY <1>2, <1>7, HealingKept DEF healing
<1>9. QED
  BY <1>4, <1>5, <1>6, <1>8 DEF IInv

(* All ages grow alike, and no cycle is under way. *)
LEMMA TickInv ==
    ASSUME IInv, Tick
    PROVE  IInv'
<1> USE Constants
<1>1. Types'
  <2>1. probes' \in Probes
    <3>1. \A h \in Homes : [probes[h] EXCEPT !.age = Older(@, Spacing)]
                               \in [result : Results, stamp : Stamps, age : 0..Spacing]
      <4> SUFFICES ASSUME NEW h \in Homes
                   PROVE  [probes[h] EXCEPT !.age = Older(@, Spacing)]
                              \in [result : Results, stamp : Stamps, age : 0..Spacing]
        OBVIOUS
      <4>1. probes[h] \in [result : Results, stamp : Stamps, age : 0..Spacing]
        BY DEF IInv, Types, Probes
      <4>2. Older(probes[h].age, Spacing) \in 0..Spacing
        BY <4>1 DEF Older
      <4>3. QED
        BY <4>1, <4>2
    <3>2. QED
      BY <3>1 DEF Tick, Probes
  <2>2. alerts' \in Alerts
    <3>1. \A k \in Keys : [alerts[k] EXCEPT !.age = Older(@, Interval(k))]
                               \in [active : BOOLEAN, age : 0..Daily]
      <4> SUFFICES ASSUME NEW k \in Keys
                   PROVE  [alerts[k] EXCEPT !.age = Older(@, Interval(k))]
                              \in [active : BOOLEAN, age : 0..Daily]
        OBVIOUS
      <4>1. alerts[k] \in [active : BOOLEAN, age : 0..Daily]
        BY DEF IInv, Types, Alerts
      <4>2. Older(alerts[k].age, Interval(k)) \in 0..Daily
        <5>1. alerts[k].age \in 0..Daily /\ Interval(k) \in 0..Daily
          BY <4>1
        <5>2. QED
          BY <5>1 DEF Older
      <4>3. QED
        BY <4>1, <4>2
    <3>2. QED
      BY <3>1 DEF Tick, Alerts
  <2>3. heard' \in [Keys -> [age : 0..Daily, open : BOOLEAN, gone : BOOLEAN]]
    <3>1. \A k \in Keys : [heard[k] EXCEPT !.age = Older(@, Interval(k))]
                               \in [age : 0..Daily, open : BOOLEAN, gone : BOOLEAN]
      BY OlderType DEF IInv, Types
    <3>2. QED
      BY <3>1 DEF Tick
  <2>4. execs' \in [Homes -> [age : 0..Spacing, dead : Stamps]]
    <3>1. \A h \in Homes : [execs[h] EXCEPT !.age = Older(@, Spacing)]
                               \in [age : 0..Spacing, dead : Stamps]
      BY OlderType DEF IInv, Types
    <3>2. QED
      BY <3>1 DEF Tick
  <2>5. QED
    BY <2>1, <2>2, <2>3, <2>4 DEF Tick, IInv, Types, world
<1>2. StampsPaid'
  BY DEF Tick, IInv, StampsPaid, Owed, world
<1>3. cycle.at = "idle" /\ cycle' = cycle
  BY DEF Tick
<1>4. \A k \in Keys :
          /\ alerts'[k].age = Older(alerts[k].age, Interval(k))
          /\ heard'[k].age = Older(heard[k].age, Interval(k))
          /\ alerts'[k].active = alerts[k].active
          /\ heard'[k].gone = heard[k].gone /\ heard'[k].open = heard[k].open
  BY DEF Tick, IInv, Types, Alerts
<1>5. AlertsKnown'
  <2> SUFFICES ASSUME NEW k \in Keys PROVE Remembers(alerts, k)'
    BY DEF AlertsKnown
  <2>1. Remembers(alerts, k)
    BY <1>3 DEF IInv, Telling, AlertsKnown
  <2>2. alerts[k].age \in Int /\ heard[k].age \in Int /\ Interval(k) \in Int
    BY DEF IInv, Types, Alerts
  <2>3. alerts[k].age <= heard[k].age => alerts'[k].age <= heard'[k].age
    <3>1. alerts[k].age \in 0..Daily /\ heard[k].age \in 0..Daily
      BY DEF IInv, Types, Alerts
    <3>2. QED
      BY <1>4, <2>2, <3>1 DEF Older
  <2>4. QED
    BY <1>4, <2>1, <2>3 DEF Remembers
<1>6. Telling'
  <2>1. Covered'
    BY <1>3, <1>4 DEF Tick, IInv, Telling, Covered, Debt, Lost, Pending
  <2>2. QED
    BY <1>3, <1>5, <2>1 DEF Tick, IInv, Telling, SavingKnown
<1>7. \A h \in Homes : /\ probes'[h].age = Older(probes[h].age, Spacing)
                       /\ probes'[h].result = probes[h].result
                       /\ probes'[h].stamp = probes[h].stamp
                       /\ execs'[h].age = Older(execs[h].age, Spacing)
                       /\ execs'[h].dead = execs[h].dead
  BY DEF Tick, IInv, Types, Probes
<1>8. ProbesKnown'
  <2> SUFFICES ASSUME NEW h \in Homes PROVE Knows(probes[h], h)'
    BY DEF ProbesKnown
  <2>1. Knows(probes[h], h)
    BY <1>3 DEF IInv, Healing, ProbesKnown
  <2>2. probes[h].age \in 0..Spacing /\ execs[h].age \in 0..Spacing
    BY DEF IInv, Types, Probes
  <2>3. probes'[h].age <= execs'[h].age
    BY <1>7, <2>1, <2>2 DEF Knows, Older
  <2>4. QED
    BY <1>7, <2>1, <2>3 DEF Knows
<1>9. StampsKnown'
  BY <1>7 DEF Tick, world, IInv, Healing, StampsKnown
<1>10. Healing'
  BY <1>3, <1>8, <1>9 DEF Tick, IInv, Healing, HealingKnown
<1>11. QED
  BY <1>1, <1>2, <1>6, <1>10 DEF IInv

-----------------------------------------------------------------------------
(* The heal *)

LEMMA JudgedType == \A l \in [token : Tokens, free : BOOLEAN, stamp : Nat \ {0}] :
                        Judged(l) \in Verdicts /\ Readings(l) \subseteq Verdicts
<1> SUFFICES ASSUME NEW l \in [token : Tokens, free : BOOLEAN, stamp : Nat \ {0}]
             PROVE  Judged(l) \in Verdicts /\ Readings(l) \subseteq Verdicts
  OBVIOUS
<1>1. l.token \in Tokens
  OBVIOUS
<1>2. Judged(l) \in Verdicts
  BY <1>1 DEF Judged, Tokens, Verdicts
<1>3. "unknown" \in Verdicts
  BY DEF Verdicts
<1>4. QED
  BY <1>2, <1>3 DEF Readings

LEMMA BeginInv ==
    ASSUME IInv, NEW v \in [Homes -> Verdicts], BeginWith(v)
    PROVE  IInv'
<1> DEFINE suspects == {h \in Homes : v[h] = "auth-suspect"}
<1>1. \A h \in Homes : login[h].stamp \in Stamps
  BY StampBound DEF IInv
<1>2. /\ cycle'.at = IF suspects # {} THEN "healing" ELSE "telling"
      /\ cycle'.verdict = v /\ cycle'.todo = suspects /\ cycle'.tried = {}
      /\ cycle'.sent = {} /\ cycle'.alerts = Idle.alerts
      /\ cycle'.stamp = IF suspects # {} THEN [h \in Homes |-> login[h].stamp] ELSE Idle.stamp
      /\ cycle'.probes = IF suspects # {} THEN probes ELSE Idle.probes
      /\ DOMAIN cycle' = DOMAIN Idle
  BY DEF BeginWith, Idle
<1>3. cycle' \in Cycles
  <2>1. Idle.alerts \in Alerts /\ Idle.stamp \in [Homes -> Stamps] /\ Idle.probes \in Probes
    BY IdleType DEF Cycles
  <2>2. cycle'.stamp \in [Homes -> Stamps] /\ cycle'.probes \in Probes
    BY <1>1, <1>2, <2>1 DEF IInv, Types
  <2>3. cycle' = [at |-> cycle'.at, verdict |-> cycle'.verdict, stamp |-> cycle'.stamp,
                  todo |-> cycle'.todo, tried |-> cycle'.tried,
                  sent |-> cycle'.sent, probes |-> cycle'.probes, alerts |-> cycle'.alerts]
    BY DEF BeginWith, Idle
  <2>4. suspects \subseteq Homes
    OBVIOUS
  <2> HIDE DEF suspects
  <2>5. /\ cycle'.at \in {"idle", "healing", "telling", "saving"} /\ cycle'.verdict \in [Homes -> Verdicts]
        /\ cycle'.todo \in SUBSET Homes /\ cycle'.tried \in SUBSET Homes
        /\ cycle'.sent \in SUBSET Keys /\ cycle'.alerts \in Alerts
    BY <1>2, <2>1, <2>4
  <2>6. QED
    BY <2>2, <2>3, <2>5 DEF Cycles
<1>4. cycle.at = "idle" /\ UNCHANGED <<world, probes, alerts, told, healing, changes>>
  BY DEF BeginWith
<1>5. Types'
  BY <1>3, <1>4 DEF IInv, Types, world, told, healing
<1>6. StampsPaid'
  BY <1>4 DEF IInv, StampsPaid, Owed, world
<1>7. Telling'
  BY <1>2, <1>4, TellingKept
<1>8. HealingKnown'
  <2> SUFFICES ASSUME cycle'.at = "healing", NEW h \in Homes
               PROVE  /\ cycle'.tried = {} /\ cycle'.probes[h] = probes'[h]
                      /\ h \in cycle'.todo => cycle'.verdict[h] = "auth-suspect"
                      /\ execs'[h].dead <= cycle'.stamp[h]
                      /\ cycle'.stamp[h] <= login'[h].stamp
    BY DEF HealingKnown
  <2>1. suspects # {}
    BY <1>2
  <2>2. cycle'.stamp[h] = login[h].stamp
    BY <1>2, <2>1
  <2>3. login[h].stamp \in Nat /\ execs[h].dead <= login[h].stamp
    BY DEF IInv, Types, Healing, StampsKnown
  <2>4. QED
    BY <1>2, <1>4, <2>1, <2>2, <2>3 DEF world, healing
<1>9. Healing'
  <2>1. ProbesKnown'
    BY <1>2, <1>4 DEF IInv, Healing, ProbesKnown, Knows, healing
  <2>2. QED
    BY <1>4, <1>8, <2>1 DEF IInv, Healing, StampsKnown, world, healing
<1>10. QED
  BY <1>5, <1>6, <1>7, <1>9 DEF IInv

LEMMA SkipHomeInv ==
    ASSUME IInv, NEW h \in Homes, SkipHome(h)
    PROVE  IInv'
<1>1. cycle \in Cycles /\ cycle.at = "healing"
  BY DEF IInv, Types, SkipHome, Heals
<1>2. /\ cycle'.at = "healing" /\ cycle'.todo = cycle.todo \ {h}
      /\ \A g \in Homes \ {h} : cycle'.verdict[g] = cycle.verdict[g]
      /\ cycle'.tried = cycle.tried /\ cycle'.stamp = cycle.stamp
      /\ cycle'.probes = cycle.probes
  BY <1>1 DEF SkipHome, Cycles
<1>3. cycle' \in Cycles
  <2>1. cycle.verdict[h] \in Verdicts /\ "auth-revoked" \in Verdicts
    BY <1>1 DEF Cycles, Verdicts
  <2>2. QED
    BY <1>1, <2>1 DEF SkipHome, Cycles
<1>4. UNCHANGED <<world, probes, alerts, told, healing, changes>>
  BY DEF SkipHome
<1>5. Types'
  BY <1>3, <1>4 DEF IInv, Types, world, told, healing
<1>6. StampsPaid'
  BY <1>4 DEF IInv, StampsPaid, Owed, world
<1>7. Telling'
  BY <1>1, <1>2, <1>4, TellingKept
<1>8. HealingKnown'
  BY <1>1, <1>2, <1>4 DEF IInv, Healing, HealingKnown, Knows, world, healing
<1>9. Healing'
  <2>1. ProbesKnown'
    BY <1>1, <1>2, <1>4 DEF IInv, Healing, ProbesKnown, Knows, healing
  <2>2. QED
    BY <1>4, <1>8, <2>1 DEF IInv, Healing, StampsKnown, world, healing
<1>10. QED
  BY <1>5, <1>6, <1>7, <1>9 DEF IInv

(* An exec is neither too soon nor in vain, for the rows know of the last one. *)
LEMMA AttemptedInv ==
    ASSUME IInv, NEW h \in Homes, Heals(h), ~Latched(h), ~Spaced(h),
           NEW result \in Results, NEW stamp \in Stamps, NEW v \in Verdicts,
           Attempted(h, result, stamp, v),
           v = "auth-revoked" /\ stamp = login[h].stamp => result = "revoked",
           NEW l \in [token : Tokens, free : BOOLEAN, stamp : Nat \ {0}],
           login' = [login EXCEPT ![h] = l], login[h].stamp <= l.stamp,
           l.stamp + Owed(l) <= login[h].stamp + Owed(login[h]),
           UNCHANGED <<marks, expiring, probes, alerts, told, changes, faults>>
    PROVE  IInv'
<1> DEFINE row == [result |-> result, stamp |-> stamp, age |-> 0]
           dead == IF v = "auth-revoked" /\ stamp = login[h].stamp THEN stamp ELSE 0
<1>1. cycle \in Cycles /\ cycle.at = "healing" /\ h \in cycle.todo
  BY DEF IInv, Types, Heals
<1>2. /\ cycle'.at = "healing" /\ cycle'.todo = cycle.todo \ {h}
      /\ cycle'.tried = cycle.tried \cup {h} /\ cycle'.stamp = cycle.stamp
      /\ \A g \in Homes \ {h} : /\ cycle'.verdict[g] = cycle.verdict[g]
                                /\ cycle'.probes[g] = cycle.probes[g]
      /\ cycle'.probes[h] = row
  BY <1>1 DEF Attempted, Cycles, Probes
<1>3. row \in [result : Results, stamp : Stamps, age : 0..Spacing]
  BY Constants
<1>4. cycle' \in Cycles
  <2>1. [cycle.probes EXCEPT ![h] = row] \in Probes /\ [cycle.verdict EXCEPT ![h] = v] \in [Homes -> Verdicts]
    BY <1>1, <1>3 DEF Cycles, Probes
  <2>2. cycle' = [cycle EXCEPT !.todo = @ \ {h}, !.tried = @ \cup {h},
                               !.verdict = [@ EXCEPT ![h] = v], !.probes = [@ EXCEPT ![h] = row]]
    BY <1>1 DEF Attempted, Cycles, Probes
  <2> HIDE DEF row
  <2>3. QED
    BY <1>1, <2>1, <2>2 DEF Cycles
<1>5. execs' = [execs EXCEPT ![h] = [age |-> 0, dead |-> dead]]
  BY DEF Attempted, IInv, Types
<1>6. dead \in Stamps /\ dead \in Nat /\ dead <= login[h].stamp
  BY Constants DEF Stamps, IInv, Types
<1>7. execs' \in [Homes -> [age : 0..Spacing, dead : Stamps]]
  <2> HIDE DEF dead
  <2>1. [age |-> 0, dead |-> dead] \in [age : 0..Spacing, dead : Stamps]
    BY <1>6, Constants
  <2>2. QED
    BY <1>5, <2>1 DEF IInv, Types
<1>8. dug' = {}
  <2>1. h \notin cycle.tried /\ cycle.probes[h] = probes[h] /\ execs[h].dead <= cycle.stamp[h]
        /\ cycle.stamp[h] <= login[h].stamp
    BY <1>1 DEF IInv, Healing, HealingKnown
  <2>2. /\ login[h].stamp \in Nat \ {0} /\ execs[h].dead \in Nat /\ cycle.stamp[h] \in Nat
        /\ execs[h].age \in Nat /\ Spacing \in Nat
    BY <1>1, Constants DEF IInv, Types, Cycles, Stamps
  <2>3. ~(execs[h].age < Spacing) /\ execs[h].dead # login[h].stamp
    <3>1. Knows(cycle.probes[h], h)
      BY <2>1 DEF IInv, Healing, ProbesKnown
    <3>2. ~(execs[h].age < Spacing)
      <4>1. cycle.probes[h].age \in 0..Spacing
        BY <1>1 DEF Cycles, Probes
      <4>2. QED
        BY <2>2, <3>1, <4>1 DEF Spaced, Knows
    <3>3. SUFFICES ASSUME execs[h].dead = login[h].stamp PROVE FALSE
      BY <3>2
    <3>4. cycle.probes[h].result = "revoked" /\ cycle.probes[h].stamp = cycle.stamp[h]
      BY <2>1, <2>2, <3>1, <3>3 DEF Knows
    <3>5. QED
      BY <3>4 DEF Latched
  <2>4. dug = {}
    BY DEF IInv, Healing
  <2>5. QED
    BY <2>3, <2>4 DEF Attempted
<1>9. login' \in [Homes -> [token : Tokens, free : BOOLEAN, stamp : Nat \ {0}]]
  BY DEF IInv, Types
<1>10. \A g \in Homes : login'[g] = IF g = h THEN l ELSE login[g]
  BY DEF IInv, Types
<1>11. Types'
  BY <1>4, <1>7, <1>8, <1>9 DEF IInv, Types, told
<1>12. StampsPaid'
  <2> SUFFICES ASSUME NEW g \in Homes
               PROVE  login'[g].stamp + Owed(login'[g]) <= changes + 2
    BY DEF StampsPaid
  <2>1. login[g].stamp + Owed(login[g]) <= changes + 2
    BY DEF IInv, StampsPaid
  <2>2. /\ login[g].stamp \in Nat /\ Owed(login[g]) \in {0, 1} /\ changes \in Nat
        /\ l.stamp \in Nat /\ Owed(l) \in {0, 1}
    BY Constants DEF IInv, Types, Owed
  <2>3. QED
    BY <1>10, <2>1, <2>2
<1>13. Telling'
  BY <1>1, <1>2, TellingKept
<1>14. \A g \in Homes : login[g].stamp \in Nat /\ login[g].stamp <= login'[g].stamp
                        /\ login'[g].stamp \in Nat
  BY <1>10 DEF IInv, Types
<1>15. \A g \in Homes : execs'[g] = IF g = h THEN [age |-> 0, dead |-> dead]
                                    ELSE execs[g]
  BY <1>5 DEF IInv, Types
<1>16. ProbesKnown'
  <2> SUFFICES ASSUME NEW g \in Homes, g \notin cycle'.tried PROVE Knows(probes[g], g)'
    BY <1>2 DEF ProbesKnown
  <2>1. g # h /\ Knows(probes[g], g)
    BY <1>1, <1>2 DEF IInv, Healing, ProbesKnown
  <2>2. QED
    BY <1>15, <2>1 DEF Knows
<1>17. StampsKnown'
  <2> HIDE DEF dead
  <2>1. \A g \in Homes : execs[g].dead \in Nat
    BY DEF IInv, Types, Stamps
  <2>2. QED
    BY <1>6, <1>14, <1>15, <2>1 DEF StampsKnown, IInv, Healing
<1>18. Knows(row, h)'
  <2>1. execs'[h] = [age |-> 0, dead |-> dead]
    BY <1>15
  <2>2. dead # 0 => result = "revoked" /\ stamp = dead
    OBVIOUS
  <2> HIDE DEF dead
  <2>3. QED
    BY <2>1, <2>2 DEF Knows
<1>19. HealingKnown'
  <2> SUFFICES ASSUME NEW g \in Homes
               PROVE  /\ g \notin cycle'.tried => cycle'.probes[g] = probes'[g]
                      /\ g \in cycle'.tried => Knows(cycle.probes[g], g)'
                      /\ g \in cycle'.todo => /\ g \notin cycle'.tried
                                              /\ cycle'.verdict[g] = "auth-suspect"
                                              /\ execs'[g].dead <= cycle'.stamp[g]
                      /\ cycle'.stamp[g] <= login'[g].stamp
    BY DEF HealingKnown
  <2>1. cycle'.stamp[g] <= login'[g].stamp
    <3>1. cycle.stamp[g] \in Nat /\ cycle.stamp[g] <= login[g].stamp
      BY <1>1 DEF Cycles, Stamps, IInv, Healing, HealingKnown
    <3>2. QED
      BY <1>2, <1>14, <3>1
  <2>2. CASE g = h
    <3>1. Knows(cycle.probes[g], g)'
      BY <1>2, <1>18, <2>2
    <3>2. QED
      BY <1>2, <2>1, <2>2, <3>1
  <2>3. CASE g # h
    <3>1. Knows(cycle.probes[g], g) => Knows(cycle.probes[g], g)'
      BY <1>2, <1>15, <2>3 DEF Knows
    <3>2. execs'[g] = execs[g]
      BY <1>15, <2>3
    <3>3. QED
      BY <1>1, <1>2, <2>1, <2>3, <3>1, <3>2 DEF IInv, Healing, HealingKnown
  <2>4. QED
    BY <2>2, <2>3
<1>20. QED
  BY <1>8, <1>11, <1>12, <1>13, <1>16, <1>17, <1>19 DEF IInv, Healing

LEMMA ExecInv ==
    ASSUME IInv, NEW h \in Homes, NEW online \in BOOLEAN, Exec(h, online)
    PROVE  IInv'
<1>1. /\ Heals(h) /\ ~Latched(h) /\ ~Spaced(h)
      /\ UNCHANGED <<marks, expiring, probes, alerts, told, changes, faults>>
  BY DEF Exec
<1>2. login[h] \in [token : Tokens, free : BOOLEAN, stamp : Nat \ {0}] /\ login[h].stamp \in Stamps
  BY StampBound DEF IInv, Types
<1>3. /\ cycle.stamp[h] \in Stamps /\ cycle.verdict[h] = "auth-suspect"
  BY <1>1 DEF Heals, IInv, Types, Cycles, Healing, HealingKnown
<1>4. {"healed", "revoked", "failed"} \subseteq Results /\ {"auth-suspect", "auth-revoked"} \subseteq Verdicts
  BY DEF Results, Verdicts
<1>5. CASE ExecRevoked(h)
  <2>1. login' = [login EXCEPT ![h] = login[h]]
    BY <1>5 DEF ExecRevoked, IInv, Types
  <2>2. login[h].stamp + Owed(login[h]) <= login[h].stamp + Owed(login[h])
    BY <1>2 DEF Owed
  <2>3. Attempted(h, "revoked", cycle.stamp[h], "auth-revoked")
    BY <1>5 DEF ExecRevoked
  <2>4. login[h].stamp <= login[h].stamp /\ "revoked" \in Results /\ "auth-revoked" \in Verdicts
    BY <1>2, <1>4
  <2> DEFINE l == login[h]
  <2>5. /\ l \in [token : Tokens, free : BOOLEAN, stamp : Nat \ {0}]
        /\ login' = [login EXCEPT ![h] = l] /\ login[h].stamp <= l.stamp
        /\ l.stamp + Owed(l) <= login[h].stamp + Owed(login[h])
    BY <1>2, <2>1, <2>2, <2>4
  <2> HIDE DEF l
  <2>6. QED
    BY <1>1, <1>3, <2>3, <2>4, <2>5, AttemptedInv
<1>6. CASE ExecThenProbe(h, online)
  <2> DEFINE renewed == [login[h] EXCEPT !.token = "valid", !.stamp = @ + 1]
             Logins == {login[h]} \cup (IF login[h].token = "expired" THEN {renewed} ELSE {})
  <2>1. PICK l \in Logins : \E v \in IF online THEN {Judged(l)} ELSE Readings(l) :
            /\ login' = [login EXCEPT ![h] = l]
            /\ IF Resulting(v) = "failed"
               THEN Attempted(h, "failed", cycle.stamp[h], cycle.verdict[h])
               ELSE Attempted(h, Resulting(v), l.stamp, v)
    BY <1>6 DEF ExecThenProbe
  <2>2. /\ l \in [token : Tokens, free : BOOLEAN, stamp : Nat \ {0}]
        /\ login[h].stamp <= l.stamp
        /\ l.stamp + Owed(l) <= login[h].stamp + Owed(login[h])
    <3>1. CASE l = login[h]
      BY <1>2, <3>1 DEF Owed
    <3>2. CASE login[h].token = "expired" /\ l = renewed
      <4>1. l.token = "valid" /\ l.stamp = login[h].stamp + 1
        BY <1>2, <3>2
      <4>2. Owed(l) = 0 /\ Owed(login[h]) = 1
        BY <3>2, <4>1 DEF Owed
      <4>3. l \in [token : Tokens, free : BOOLEAN, stamp : Nat \ {0}]
        <5>1. l = [token |-> "valid", free |-> login[h].free, stamp |-> login[h].stamp + 1]
          BY <1>2, <3>2
        <5>2. "valid" \in Tokens /\ login[h].free \in BOOLEAN /\ login[h].stamp + 1 \in Nat \ {0}
          BY <1>2 DEF Tokens
        <5>3. QED
          BY <5>1, <5>2
      <4>4. QED
        BY <1>2, <4>1, <4>2, <4>3
    <3>3. QED
      BY <3>1, <3>2
  <2>3. l.stamp \in Stamps
    <3>1. login[h].stamp + Owed(login[h]) <= changes + 2 /\ changes \in 0..MaxChanges
      BY DEF IInv, StampsPaid, Types
    <3>2. Owed(l) \in {0, 1} /\ Owed(login[h]) \in {0, 1}
      BY DEF Owed
    <3>3. QED
      BY <1>2, <2>2, <3>1, <3>2, Constants DEF Stamps
  <2>4. PICK v \in IF online THEN {Judged(l)} ELSE Readings(l) :
            /\ login' = [login EXCEPT ![h] = l]
            /\ IF Resulting(v) = "failed"
               THEN Attempted(h, "failed", cycle.stamp[h], cycle.verdict[h])
               ELSE Attempted(h, Resulting(v), l.stamp, v)
    BY <2>1
  <2> HIDE DEF Logins, renewed
  <2>5. v \in Verdicts
    BY <2>2, <2>4, JudgedType
  <2>6. CASE Resulting(v) = "failed"
    BY <1>1, <1>3, <1>4, <2>2, <2>4, <2>6, AttemptedInv
  <2>7. CASE Resulting(v) # "failed"
    <3>1. Resulting(v) \in Results
      BY <1>4 DEF Resulting
    <3>2. v = "auth-revoked" => Resulting(v) = "revoked"
      BY DEF Resulting
    <3>3. QED
      BY <1>1, <2>2, <2>3, <2>4, <2>5, <2>7, <3>1, <3>2, AttemptedInv
  <2>8. QED
    BY <2>6, <2>7
<1>7. QED
  BY <1>5, <1>6 DEF Exec

(* The rows reach the file: those of the homes tried, the others unchanged. *)
LEMMA SaveProbesInv ==
    ASSUME IInv, SaveProbes
    PROVE  IInv'
<1>1. cycle \in Cycles /\ cycle.at = "healing" /\ cycle.todo = {}
  BY DEF IInv, Types, SaveProbes
<1>2. UNCHANGED <<world, alerts, told, healing, changes, faults>>
  BY DEF SaveProbes
<1>3. cycle'.at = "telling"
  BY <1>1 DEF SaveProbes, Cycles
<1>4. cycle' \in Cycles
  BY <1>1, IdleType DEF SaveProbes, Cycles
<1>5. probes' \in Probes
  BY <1>1 DEF SaveProbes, IInv, Types, Cycles
<1>6. Types'
  BY <1>2, <1>4, <1>5 DEF IInv, Types, world, told, healing
<1>7. StampsPaid'
  BY <1>2 DEF IInv, StampsPaid, Owed, world
<1>8. Telling'
  BY <1>1, <1>2, <1>3, TellingKept
<1>9. ProbesKnown'
  <2> SUFFICES ASSUME NEW h \in Homes PROVE Knows(probes[h], h)'
    BY DEF ProbesKnown
  <2>1. \A row : Knows(row, h) => Knows(row, h)'
    BY <1>2 DEF Knows, healing
  <2>2. CASE h \in cycle.tried
    <3>1. Knows(cycle.probes[h], h) /\ probes' = cycle.probes
      BY <1>1, <2>2 DEF SaveProbes, IInv, Healing, HealingKnown
    <3>2. QED
      BY <1>2, <3>1 DEF Knows, healing
  <2>3. CASE h \notin cycle.tried
    <3>1. Knows(probes[h], h) /\ probes'[h] = probes[h]
      BY <1>1, <2>3 DEF SaveProbes, IInv, Healing, ProbesKnown, HealingKnown
    <3>2. QED
      BY <1>2, <3>1 DEF Knows, healing
  <2>4. QED
    BY <2>2, <2>3
<1>10. Healing'
  BY <1>2, <1>3, <1>9 DEF IInv, Healing, StampsKnown, HealingKnown, world, healing
<1>11. QED
  BY <1>6, <1>7, <1>8, <1>10 DEF IInv

-----------------------------------------------------------------------------
(* The alerts *)

LEMMA ConditionsAreKeys ==
    ASSUME Types, NEW c \in Cycles PROVE Conditions(c) \subseteq Keys
<1>1. \A kind \in HomeKinds : \A S \in SUBSET Homes : ({kind} \X S) \subseteq Keys
  BY DEF Keys
<1>2. {"noauth", "revoked", "suspect", "free", "shadow", "refresh"} \subseteq HomeKinds
  BY DEF HomeKinds
<1>3. marks \subseteq Keys
  BY <1>2 DEF Types, Marks, Keys
<1>4. <<"empty", NoHome>> \in Keys /\ <<"expiring", NoHome>> \in Keys
  BY DEF Keys
<1>5. QED
  BY <1>1, <1>2, <1>3, <1>4 DEF Conditions

(* What is told follows what is on file, and the record of it will be true. *)
LEMMA TellWithInv ==
    ASSUME IInv, NEW sent, TellWith(sent)
    PROVE  IInv'
<1> DEFINE active == Conditions(cycle)
<1>1. cycle \in Cycles /\ active \subseteq Keys
  BY ConditionsAreKeys DEF IInv, Types
<1>2. /\ cycle.at = "telling" /\ sent \subseteq Wanted(active) \cup AllClears(active)
      /\ heard' = Heard(active, sent)
      /\ early' = early \cup {k \in sent \cap active : Early(k)}
      /\ misled' = [k \in Keys |->
             misled[k] + (IF k \in sent \ active /\ ~heard[k].open THEN 1 ELSE 0)]
      /\ cycle' = [Idle EXCEPT !.at = "saving", !.sent = sent, !.alerts = Recorded(active, sent)]
      /\ UNCHANGED <<world, probes, alerts, unsaved, healing, changes>>
  BY DEF TellWith
<1> HIDE DEF active
<1>3. /\ Wanted(active) \subseteq active
      /\ AllClears(active) \cap active = {} /\ AllClears(active) \subseteq Keys
      /\ \A k \in AllClears(active) : Clearable(k) /\ alerts[k].active
  BY DEF Wanted, AllClears, Cleared
<1>4. sent \subseteq Keys /\ sent \cap active \subseteq Wanted(active)
  BY <1>1, <1>2, <1>3
<1>5. \A k \in Keys : /\ alerts[k] \in [active : BOOLEAN, age : 0..Daily]
                      /\ heard[k] \in [age : 0..Daily, open : BOOLEAN, gone : BOOLEAN]
  BY DEF IInv, Types, Alerts
<1>6. \A k \in Keys : ~heard[k].gone /\ k[1] # "expiring" => alerts[k].active
  BY <1>2 DEF IInv, Telling, AlertsKnown, Remembers
<1>7. \A k \in Keys : k[1] = "expiring" \/ ~heard[k].gone => alerts[k].age <= heard[k].age
  BY <1>2 DEF IInv, Telling, AlertsKnown, Remembers
<1>8. \A k \in Keys : misled[k] + Debt(alerts, k) <= unsaved[k]
  <2>1. \A k \in Keys : Lost(k) = 0
    BY <1>2 DEF Lost, Pending
  <2>2. \A k \in Keys : unsaved[k] \in Nat
    BY DEF IInv, Types
  <2>3. QED
    BY <2>1, <2>2 DEF IInv, Telling, Covered
<1>9. early' = {}
  <2> SUFFICES ASSUME NEW k \in sent \cap active, Early(k) PROVE FALSE
    BY <1>2 DEF IInv, Telling
  <2>1. k \in Keys /\ k \in Wanted(active)
    BY <1>4
  <2>2. k[1] = "expiring" \/ ~heard[k].gone
    BY DEF Early
  <2>3. Due(k)
    BY <1>6, <2>1, <2>2 DEF Wanted
  <2>4. k[1] # "shadow"
    BY <1>6, <2>1, <2>2, <2>3 DEF Due
  <2>5. heard[k].age < Interval(k)
    BY <2>4 DEF Early
  <2>6. alerts[k].age >= Interval(k) /\ alerts[k].age <= heard[k].age
    BY <1>7, <2>1, <2>2, <2>3 DEF Due
  <2>7. alerts[k].age \in Int /\ heard[k].age \in Int /\ Interval(k) \in Int
    BY <1>5, <2>1, Constants
  <2>8. QED
    BY <2>5, <2>6, <2>7
<1>10. \A k \in Keys : k \in sent \ active =>
           k \notin Wanted(active) /\ k \in AllClears(active) /\ Clearable(k) /\ alerts[k].active
  BY <1>2, <1>3
<1>11. \A k \in Keys : heard'[k] =
           IF k \in sent \cap active
           THEN [age |-> 0, open |-> Clearable(k), gone |-> k[1] = "expiring"]
           ELSE [age |-> IF k \in active \/ k[1] = "expiring" THEN heard[k].age ELSE Interval(k),
                 gone |-> heard[k].gone \/ k \notin active,
                 open |-> heard[k].open /\ k \notin sent]
  BY <1>2 DEF Heard
<1>12. \A k \in Keys :
           /\ k \in sent \cap active => /\ heard'[k].age = 0
                                        /\ heard'[k].open <=> Clearable(k)
                                        /\ heard'[k].gone <=> k[1] = "expiring"
           /\ k \notin sent \cap active =>
                  /\ heard'[k].open <=> heard[k].open /\ k \notin sent
                  /\ heard'[k].gone <=> heard[k].gone \/ k \notin active
                  /\ k \in active \/ k[1] = "expiring" => heard'[k].age = heard[k].age
  <2> SUFFICES ASSUME NEW k \in Keys
               PROVE  /\ k \in sent \cap active => /\ heard'[k].age = 0
                                                   /\ heard'[k].open <=> Clearable(k)
                                                   /\ heard'[k].gone <=> k[1] = "expiring"
                      /\ k \notin sent \cap active =>
                           /\ heard'[k].open <=> heard[k].open /\ k \notin sent
                           /\ heard'[k].gone <=> heard[k].gone \/ k \notin active
                           /\ k \in active \/ k[1] = "expiring" => heard'[k].age = heard[k].age
    OBVIOUS
  <2>1. PICK c \in BOOLEAN, e \in BOOLEAN : c = Clearable(k) /\ e = (k[1] = "expiring")
    BY Zenon DEF Clearable
  <2>2. PICK g \in BOOLEAN, o \in BOOLEAN : /\ g = (heard[k].gone \/ k \notin active)
                                           /\ o = (heard[k].open /\ k \notin sent)
    BY Zenon
  <2>3. PICK a : a = IF k \in active \/ k[1] = "expiring" THEN heard[k].age ELSE Interval(k)
    OBVIOUS
  <2>4. heard'[k] = IF k \in sent \cap active THEN [age |-> 0, open |-> c, gone |-> e]
                    ELSE [age |-> a, gone |-> g, open |-> o]
    BY <1>11, <2>1, <2>2, <2>3
  <2>5. CASE k \in sent \cap active
    <3>1. heard'[k].age = 0 /\ heard'[k].open = c /\ heard'[k].gone = e
      BY <2>4, <2>5
    <3>2. QED
      BY <2>1, <2>5, <3>1
  <2>6. CASE k \notin sent \cap active
    <3>1. heard'[k].age = a /\ heard'[k].open = o /\ heard'[k].gone = g
      BY <2>4, <2>6
    <3>2. QED
      BY <2>2, <2>3, <2>6, <3>1
  <2>7. QED
    BY <2>5, <2>6
<1>13. heard' \in [Keys -> [age : 0..Daily, open : BOOLEAN, gone : BOOLEAN]]
  <2>1. ASSUME NEW k \in Keys PROVE heard'[k] \in [age : 0..Daily, open : BOOLEAN, gone : BOOLEAN]
    <3>1. PICK c \in BOOLEAN, e \in BOOLEAN : c = Clearable(k) /\ e = (k[1] = "expiring")
      BY Zenon DEF Clearable
    <3>2. PICK g \in BOOLEAN, o \in BOOLEAN : /\ g = (heard[k].gone \/ k \notin active)
                                             /\ o = (heard[k].open /\ k \notin sent)
      BY Zenon
    <3>3. PICK a \in 0..Daily :
              a = IF k \in active \/ k[1] = "expiring" THEN heard[k].age ELSE Interval(k)
      BY <1>5, Constants
    <3>4. heard'[k] = IF k \in sent \cap active THEN [age |-> 0, open |-> c, gone |-> e]
                      ELSE [age |-> a, gone |-> g, open |-> o]
      BY <1>11, <3>1, <3>2, <3>3
    <3>5. [age |-> 0, open |-> c, gone |-> e] \in [age : 0..Daily, open : BOOLEAN, gone : BOOLEAN]
      BY Constants
    <3>6. QED
      BY <3>4, <3>5
  <2>2. QED
    BY <1>2, <2>1 DEF Heard
<1>14. \A k \in Keys : Recorded(active, sent)[k] =
           IF k \in Wanted(active)
           THEN IF k \in sent THEN [active |-> TRUE, age |-> 0] ELSE alerts[k]
           ELSE IF k \in active THEN [alerts[k] EXCEPT !.active = TRUE] ELSE Ended(k)
  BY DEF Recorded
<1>15. Recorded(active, sent) \in Alerts
  <2>1. ASSUME NEW k \in Keys PROVE Ended(k) \in [active : BOOLEAN, age : 0..Daily]
    <3>1. Interval(k) \in 0..Daily /\ alerts[k] \in [active : BOOLEAN, age : 0..Daily]
      BY <1>5, Constants
    <3>2. QED
      BY <3>1 DEF Ended, Untold
  <2>2. ASSUME NEW k \in Keys
        PROVE  Recorded(active, sent)[k] \in [active : BOOLEAN, age : 0..Daily]
    <3>1. /\ alerts[k] \in [active : BOOLEAN, age : 0..Daily]
          /\ Ended(k) \in [active : BOOLEAN, age : 0..Daily]
          /\ [active |-> TRUE, age |-> 0] \in [active : BOOLEAN, age : 0..Daily]
      BY <1>5, <2>1, Constants
    <3>2. [alerts[k] EXCEPT !.active = TRUE] \in [active : BOOLEAN, age : 0..Daily]
      BY <3>1
    <3>3. QED
      BY <1>14, <3>1, <3>2
  <2>3. QED
    BY <2>2 DEF Recorded, Alerts
<1>16. /\ cycle' \in Cycles /\ cycle'.at = "saving" /\ cycle'.sent = sent
       /\ cycle'.alerts = Recorded(active, sent)
  BY <1>2, <1>4, <1>15, IdleType DEF Cycles
<1>17. Types'
  <2>1. early' \subseteq Keys /\ misled' \in [Keys -> Nat]
    BY <1>2, <1>9 DEF IInv, Types
  <2>2. QED
    BY <1>2, <1>13, <1>16, <2>1 DEF IInv, Types, world, healing
<1>18. StampsPaid'
  BY <1>2 DEF IInv, StampsPaid, Owed, world
<1>19. AlertsKnown'
  <2> SUFFICES ASSUME NEW k \in Keys, k \notin sent PROVE Remembers(alerts, k)'
    BY <1>16 DEF AlertsKnown
  <2>1. /\ k[1] = "expiring" \/ ~heard'[k].gone => heard'[k].age = heard[k].age
        /\ ~heard'[k].gone => ~heard[k].gone
    BY <1>12
  <2>2. QED
    BY <1>2, <1>6, <1>7, <2>1 DEF Remembers
<1> DEFINE file == Recorded(active, sent)
<1>20. /\ SavingKnown'
       /\ \A k \in Keys : k \in sent \ active => ~file[k].active
       /\ \A k \in Keys : k \notin sent /\ Clearable(k) /\ file[k].active => alerts[k].active
  <2> HIDE DEF file
  <2> SUFFICES ASSUME NEW k \in Keys
               PROVE  /\ (k[1] # "expiring" /\ ~heard'[k].gone) => file[k].active
                      /\ (k[1] = "expiring" \/ ~heard'[k].gone) => file[k].age <= heard'[k].age
                      /\ k \in sent \ active => ~file[k].active
                      /\ k \notin sent /\ Clearable(k) /\ file[k].active => alerts[k].active
    BY <1>16 DEF SavingKnown, Remembers, file
  <2>1. CASE k \in sent \cap active
    <3>1. file[k] = [active |-> TRUE, age |-> 0]
      BY <1>4, <1>14, <2>1 DEF file
    <3>2. heard'[k].age = 0 /\ (heard'[k].gone <=> k[1] = "expiring")
      BY <1>12, <2>1
    <3>3. QED
      BY <2>1, <3>1, <3>2
  <2>2. CASE k \in sent \ active
    <3>1. k[1] # "expiring"
      BY <1>10, <2>2 DEF Clearable
    <3>2. file[k] = Untold(k)
      BY <1>10, <1>14, <2>2, <3>1 DEF Ended, file
    <3>3. heard'[k].gone
      BY <1>12, <2>2
    <3>4. QED
      BY <2>2, <3>1, <3>2, <3>3 DEF Untold
  <2>3. CASE k \notin sent
    <3>1. /\ k[1] = "expiring" \/ ~heard'[k].gone => heard'[k].age = heard[k].age
          /\ heard'[k].gone <=> (heard[k].gone \/ k \notin active)
      BY <1>12, <2>3
    <3>2. CASE k \in Wanted(active)
      <4>1. file[k] = alerts[k] /\ k \in active
        BY <1>3, <1>14, <2>3, <3>2 DEF file
      <4>2. QED
        BY <1>6, <1>7, <2>3, <3>1, <4>1
    <3>3. CASE k \notin Wanted(active) /\ k \in active
      <4>1. file[k] = [alerts[k] EXCEPT !.active = TRUE]
        BY <1>14, <3>3 DEF file
      <4>2. Clearable(k) => alerts[k].active
        BY <3>3 DEF Wanted, Clearable
      <4>3. QED
        BY <1>5, <1>7, <2>3, <3>1, <4>1, <4>2
    <3>4. CASE k \notin active
      <4>1. file[k] = Ended(k)
        BY <1>3, <1>14, <3>4 DEF file
      <4>2. ~file[k].active /\ (k[1] = "expiring" => file[k].age = alerts[k].age)
        BY <1>5, <4>1 DEF Ended, Untold
      <4>3. QED
        BY <1>7, <2>3, <3>1, <3>4, <4>2
    <3>5. QED
      BY <3>2, <3>3, <3>4
  <2>4. QED
    BY <2>1, <2>2, <2>3
<1>21. Covered'
  <2> HIDE DEF file
  <2> SUFFICES ASSUME NEW k \in Keys
               PROVE  /\ misled'[k] + Debt(alerts, k)' <= unsaved'[k] + Lost(k)'
                      /\ misled'[k] + Debt(cycle.alerts, k)' <= unsaved'[k]
    BY DEF Covered
  <2>1. /\ misled[k] \in Nat /\ unsaved[k] \in Nat /\ unsaved' = unsaved
        /\ misled[k] + Debt(alerts, k) <= unsaved[k] /\ Debt(alerts, k) \in {0, 1}
    BY <1>2, <1>8 DEF IInv, Types, Debt
  <2>2. /\ Debt(alerts, k)' = IF Clearable(k) /\ alerts[k].active /\ ~heard'[k].open THEN 1 ELSE 0
        /\ Debt(cycle.alerts, k)' =
               IF Clearable(k) /\ file[k].active /\ ~heard'[k].open THEN 1 ELSE 0
        /\ Lost(k)' = IF k \in sent /\ ~heard'[k].open THEN 1 ELSE 0
        /\ misled'[k] = misled[k] + (IF k \in sent \ active /\ ~heard[k].open THEN 1 ELSE 0)
    BY <1>2, <1>16 DEF Debt, Lost, Pending, Clearable, file
  <2>3. CASE k \in sent \cap active
    <3>1. Clearable(k) => heard'[k].open
      BY <1>12, <2>3
    <3>2. misled'[k] = misled[k] /\ Debt(alerts, k)' = 0 /\ Debt(cycle.alerts, k)' = 0
      BY <2>1, <2>2, <2>3, <3>1
    <3>3. Lost(k)' \in {0, 1}
      BY <2>2
    <3>4. QED
      BY <2>1, <3>2, <3>3
  <2>4. CASE k \in sent \ active
    <3>1. ~heard'[k].open /\ ~file[k].active /\ Clearable(k) /\ alerts[k].active
      BY <1>10, <1>12, <1>20, <2>4 DEF file
    <3>2. /\ Debt(alerts, k)' = 1 /\ Debt(cycle.alerts, k)' = 0 /\ Lost(k)' = 1
          /\ misled'[k] = misled[k] + Debt(alerts, k)
      BY <2>2, <2>4, <3>1 DEF Debt
    <3>3. QED
      BY <2>1, <3>2
  <2>5. CASE k \notin sent
    <3>1. heard'[k].open = heard[k].open
      <4>1. heard[k].open \in BOOLEAN /\ heard'[k].open \in BOOLEAN
        BY <1>5, <1>13
      <4>2. heard'[k].open <=> heard[k].open
        BY <1>12, <2>5
      <4>3. QED
        BY <4>1, <4>2
    <3>2. Debt(alerts, k)' = Debt(alerts, k) /\ Lost(k)' = 0 /\ misled'[k] = misled[k]
      BY <2>1, <2>2, <2>5, <3>1 DEF Debt
    <3>3. Debt(cycle.alerts, k)' <= Debt(alerts, k)
      BY <1>20, <2>2, <2>5, <3>1 DEF Debt, file
    <3>4. Debt(cycle.alerts, k)' \in {0, 1}
      BY <2>2
    <3>5. QED
      BY <2>1, <3>2, <3>3, <3>4
  <2>6. QED
    BY <2>3, <2>4, <2>5
<1>22. Healing'
  <2>1. \A h \in Homes : login[h].stamp <= login'[h].stamp /\ login'[h].stamp \in Nat
    BY <1>2 DEF world, IInv, Types
  <2>2. QED
    BY <1>2, <1>16, <2>1, HealingKept DEF healing
<1>23. QED
  BY <1>9, <1>17, <1>18, <1>19, <1>20, <1>21, <1>22 DEF IInv, Telling

LEMMA SaveAlertsInv ==
    ASSUME IInv, SaveAlerts
    PROVE  IInv'
<1>1. cycle \in Cycles /\ cycle.at = "saving"
  BY DEF IInv, Types, SaveAlerts
<1>2. /\ alerts' = cycle.alerts /\ cycle' = Idle
      /\ UNCHANGED <<world, probes, heard, early, misled, unsaved, healing, changes>>
  BY DEF SaveAlerts
<1>3. Types'
  BY <1>1, <1>2, IdleType DEF IInv, Types, Cycles, world, healing
<1>4. StampsPaid'
  BY <1>2 DEF IInv, StampsPaid, Owed, world
<1>5. AlertsKnown'
  BY <1>1, <1>2 DEF AlertsKnown, SavingKnown, Remembers, IInv, Telling
<1>6. Covered'
  <2>1. \A k \in Keys : Debt(alerts, k)' = Debt(cycle.alerts, k) /\ Lost(k)' = 0
    BY <1>2, IdleType DEF Debt, Lost, Pending
  <2>2. \A k \in Keys : misled[k] \in Nat /\ unsaved[k] \in Nat
    BY DEF IInv, Types
  <2>3. QED
    BY <1>1, <1>2, <2>1, <2>2, IdleType DEF IInv, Telling, Covered
<1>7. Telling'
  BY <1>2, <1>5, <1>6, IdleType DEF IInv, Telling, SavingKnown
<1>8. Healing'
  <2>1. \A h \in Homes : login[h].stamp <= login'[h].stamp /\ login'[h].stamp \in Nat
    BY <1>2 DEF world, IInv, Types
  <2>2. QED
    BY <1>1, <1>2, <2>1, IdleType, HealingKept DEF healing
<1>9. QED
  BY <1>3, <1>4, <1>7, <1>8 DEF IInv

(* What the cycle told and tried without a record of it is not held against *)
(* the next; an all-clear of it is.                                         *)
LEMMA DieInv ==
    ASSUME IInv, Die
    PROVE  IInv'
<1>1. /\ cycle' = Idle /\ UNCHANGED <<world, probes, alerts, early, misled, dug, changes>>
      /\ unsaved' = [k \in Keys |-> unsaved[k] + Lost(k)]
      /\ heard' = [k \in Keys |->
             IF k \in cycle.sent THEN [heard[k] EXCEPT !.age = Interval(k), !.gone = TRUE]
             ELSE heard[k]]
      /\ execs' = [h \in Homes |->
             IF h \in cycle.tried THEN [age |-> Spacing, dead |-> 0] ELSE execs[h]]
  BY DEF Die, Lost
<1>2. \A k \in Keys : /\ alerts[k] \in [active : BOOLEAN, age : 0..Daily]
                      /\ heard[k] \in [age : 0..Daily, open : BOOLEAN, gone : BOOLEAN]
                      /\ unsaved[k] \in Nat /\ misled[k] \in Nat /\ Lost(k) \in {0, 1}
  BY DEF IInv, Types, Alerts, Lost
<1>3. Types'
  <2>1. heard' \in [Keys -> [age : 0..Daily, open : BOOLEAN, gone : BOOLEAN]]
    <3>1. \A k \in Keys : [heard[k] EXCEPT !.age = Interval(k), !.gone = TRUE]
                               \in [age : 0..Daily, open : BOOLEAN, gone : BOOLEAN]
      BY <1>2, Constants
    <3>2. QED
      BY <1>1, <1>2, <3>1
  <2>2. execs' \in [Homes -> [age : 0..Spacing, dead : Stamps]]
    <3>1. [age |-> Spacing, dead |-> 0] \in [age : 0..Spacing, dead : Stamps]
      BY Constants
    <3>2. QED
      BY <1>1, <3>1 DEF IInv, Types
  <2>3. unsaved' \in [Keys -> Nat]
    <3>1. \A k \in Keys : unsaved[k] + Lost(k) \in Nat
      BY <1>2
    <3>2. QED
      BY <1>1, <3>1
  <2>4. QED
    BY <1>1, <2>1, <2>2, <2>3, IdleType DEF IInv, Types, world
<1>4. StampsPaid'
  BY <1>1 DEF IInv, StampsPaid, Owed, world
<1>5. AlertsKnown'
  <2> SUFFICES ASSUME NEW k \in Keys PROVE Remembers(alerts, k)'
    BY DEF AlertsKnown
  <2>1. CASE k \in cycle.sent
    <3>1. heard'[k].gone /\ heard'[k].age = Interval(k)
      BY <1>1, <1>2, <2>1
    <3>2. k[1] = "expiring" => alerts[k].age <= Interval(k)
      BY <1>2, Constants DEF Interval
    <3>3. QED
      BY <1>1, <3>1, <3>2 DEF Remembers
  <2>2. CASE k \notin cycle.sent
    BY <1>1, <2>2 DEF IInv, Telling, AlertsKnown, Remembers
  <2>3. QED
    BY <2>1, <2>2
<1>6. Covered'
  <2> SUFFICES ASSUME NEW k \in Keys PROVE misled'[k] + Debt(alerts, k)' <= unsaved'[k] + Lost(k)'
    BY <1>1, IdleType DEF Covered
  <2>1. heard'[k].open = heard[k].open
    <3>1. heard'[k] = IF k \in cycle.sent THEN [heard[k] EXCEPT !.age = Interval(k), !.gone = TRUE]
                      ELSE heard[k]
      BY <1>1
    <3>2. QED
      BY <1>2, <3>1
  <2>2. Debt(alerts, k)' = Debt(alerts, k) /\ Lost(k)' = 0
    BY <1>1, <2>1, IdleType DEF Debt, Lost, Pending
  <2>3. misled[k] + Debt(alerts, k) <= unsaved[k] + Lost(k)
    BY DEF IInv, Telling, Covered
  <2>4. QED
    <3>1. unsaved'[k] = unsaved[k] + Lost(k) /\ misled' = misled
      BY <1>1
    <3>2. Debt(alerts, k) \in {0, 1}
      BY DEF Debt
    <3>3. QED
      BY <1>2, <2>2, <2>3, <3>1, <3>2
<1>7. Telling'
  BY <1>1, <1>5, <1>6, IdleType DEF IInv, Telling, SavingKnown
<1>8. Healing'
  <2>1. \A h \in Homes : /\ login[h].stamp \in Nat
                         /\ probes[h].age \in 0..Spacing /\ Spacing \in Nat
    BY Constants DEF IInv, Types, Probes
  <2>2. \A h \in Homes : h \in cycle.tried => execs'[h] = [age |-> Spacing, dead |-> 0]
    BY <1>1
  <2>3. \A h \in Homes : h \notin cycle.tried => execs'[h] = execs[h]
    BY <1>1
  <2>4. ProbesKnown'
    <3> SUFFICES ASSUME NEW h \in Homes PROVE Knows(probes[h], h)'
      BY DEF ProbesKnown
    <3>1. CASE h \in cycle.tried
      <4>1. probes' = probes /\ execs'[h].age = Spacing /\ execs'[h].dead = 0
        BY <1>1, <2>2, <3>1
      <4>2. probes[h].age <= Spacing
        BY <2>1
      <4>3. QED
        BY <4>1, <4>2 DEF Knows
    <3>2. CASE h \notin cycle.tried
      BY <1>1, <2>3, <3>2 DEF IInv, Healing, ProbesKnown, Knows
    <3>3. QED
      BY <3>1, <3>2
  <2>5. StampsKnown'
    <3> SUFFICES ASSUME NEW h \in Homes PROVE execs'[h].dead <= login[h].stamp
      BY <1>1 DEF StampsKnown, world
    <3>1. CASE h \in cycle.tried
      BY <2>1, <2>2, <3>1
    <3>2. CASE h \notin cycle.tried
      BY <2>3, <3>2 DEF IInv, Healing, StampsKnown
    <3>3. QED
      BY <3>1, <3>2
  <2>6. QED
    BY <1>1, <2>4, <2>5, IdleType DEF IInv, Healing, HealingKnown
<1>9. QED
  BY <1>3, <1>4, <1>7, <1>8 DEF IInv

-----------------------------------------------------------------------------
LEMMA NextInvariant == IInv /\ [Next]_vars => IInv'
<1> SUFFICES ASSUME IInv, [Next]_vars PROVE IInv'
  OBVIOUS
<1>1. CASE Begin
  BY <1>1, BeginInv DEF Begin
<1>2. ASSUME NEW h \in Homes, SkipHome(h) \/ Exec(h, FALSE) PROVE IInv'
  BY <1>2, SkipHomeInv, ExecInv
<1>3. CASE TellAll \/ TellNothing \/ TellSome
  BY <1>3, TellWithInv DEF TellAll, TellNothing, TellSome
<1>4. CASE UNCHANGED vars
  <2>1. UNCHANGED <<login, marks, expiring, probes, alerts, cycle, heard, early, misled,
                    unsaved, execs, dug, changes>>
    BY <1>4 DEF vars, world, told, healing
  <2>2. Types' /\ StampsPaid'
    BY <2>1 DEF IInv, Types, StampsPaid, Owed
  <2>3. Telling'
    BY <2>1, TellingKept DEF told
  <2>4. \A h \in Homes : login[h].stamp <= login'[h].stamp /\ login'[h].stamp \in Nat
    BY <2>1 DEF IInv, Types
  <2>5. Healing'
    BY <2>1, <2>4, HealingKept
  <2>6. QED
    BY <2>2, <2>3, <2>5 DEF IInv
<1>5. QED
  BY <1>1, <1>2, <1>3, <1>4, LoginChangesInv, OtherChangesInv, TickInv, SaveProbesInv,
     SaveAlertsInv, DieInv DEF Next, CycleStep

(* The invariant: what the two files know of what was told and tried.       *)
THEOREM Invariance == Spec => []IInv
BY InitInvariant, NextInvariant, PTL DEF Spec

(* Types, with the bound of the stamps that auth.json goes through.         *)
THEOREM TypeCorrect == Spec => []TypeOK
<1>1. IInv => TypeOK
  <2> SUFFICES ASSUME IInv PROVE TypeOK
    OBVIOUS
  <2>1. \A h \in Homes : login[h] \in [token : Tokens, free : BOOLEAN, stamp : Stamps]
    <3> SUFFICES ASSUME NEW h \in Homes
                 PROVE  login[h] \in [token : Tokens, free : BOOLEAN, stamp : Stamps]
      OBVIOUS
    <3>1. login[h].stamp \in Stamps
      BY StampBound DEF IInv
    <3>2. QED
      BY <3>1 DEF IInv, Types
  <2>2. login \in [Homes -> [token : Tokens, free : BOOLEAN, stamp : Stamps]]
    BY <2>1 DEF IInv, Types
  <2>3. QED
    BY <2>2 DEF IInv, Types, Cycles, TypeOK
<1>2. QED
  BY <1>1, Invariance, PTL

(* Alerts keep their spacing whichever cycles die and whatever the transport *)
(* loses: run, evaluate_conditions.                                          *)
THEOREM AlertSpacing == Spec => []AlertsSpaced
<1>1. IInv => AlertsSpaced
  BY DEF IInv, Telling, AlertsSpaced
<1>2. QED
  BY <1>1, Invariance, PTL

(* An all-clear answers an alert heard since the last one, but for as many   *)
(* as cycles died between the message and the record of it: run.            *)
THEOREM ClearingAnswers == Spec => []AllClearsAnswer
<1>1. IInv => AllClearsAnswer
  <2> SUFFICES ASSUME IInv, NEW k \in Keys PROVE misled[k] <= unsaved[k]
    BY DEF AllClearsAnswer
  <2>1. /\ misled[k] \in Nat /\ unsaved[k] \in Nat
        /\ Debt(alerts, k) \in {0, 1} /\ Debt(cycle.alerts, k) \in {0, 1}
    BY DEF IInv, Types, Debt
  <2>2. CASE cycle.at = "saving"
    BY <2>1, <2>2 DEF IInv, Telling, Covered
  <2>3. CASE cycle.at # "saving"
    <3>1. Lost(k) = 0
      BY <2>3 DEF Lost, Pending
    <3>2. QED
      BY <2>1, <3>1 DEF IInv, Telling, Covered
  <2>4. QED
    BY <2>2, <2>3
<1>2. QED
  BY <1>1, Invariance, PTL

(* Heals keep their spacing and spare a login known to be revoked, also when *)
(* the login changes between the snapshot and the exec: it is judged by the  *)
(* stamp of the snapshot (heal_expired_codex_homes).                         *)
THEOREM HealSpacing == Spec => []HealsSpaced
<1>1. IInv => HealsSpaced
  BY DEF IInv, Healing, HealsSpaced
<1>2. QED
  BY <1>1, Invariance, PTL

================================================================================
