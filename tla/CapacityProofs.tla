---------------------------- MODULE CapacityProofs -----------------------------
(***************************************************************************)
(* Theorems about the capacity of the lanes, for any lanes, homes, models, *)
(* windows and cooldowns, any answers of the providers and any bounds.     *)
(***************************************************************************)
EXTENDS Capacity, FiniteSetTheorems, WellFoundedInduction, TLAPS

-----------------------------------------------------------------------------
(* The least and the greatest of some numbers *)

(* A nonempty set of naturals has a least member.                           *)
LEMMA LeastNat ==
    ASSUME NEW S, S # {}, S \subseteq Nat
    PROVE  Min(S) \in S /\ \A y \in S : Min(S) <= y
<1> DEFINE R == OpToRel(<, Nat)
<1>1. IsWellFoundedOn(R, Nat)
  BY NatLessThanWellFounded
<1>2. \A x, y \in Nat : <<x, y>> \in R <=> x < y
  BY DEF OpToRel
<1> HIDE DEF R
<1>3. PICK x \in S : \A y \in S : ~ (<<y, x>> \in R)
  BY <1>1, WFMin
<1>4. \A y \in S : x <= y
  <2>1. \A y \in S : ~(y < x) /\ x \in Nat /\ y \in Nat
    BY <1>2, <1>3
  <2>2. QED
    BY <2>1
<1>5. QED
  BY <1>4 DEF Min

(* A finite set of integers has an upper bound among its members: the sets  *)
(* of greater members shrink, and a smallest one is empty.                  *)
LEMMA GreatestInt ==
    ASSUME NEW S, IsFiniteSet(S), S # {}, S \subseteq Int
    PROVE  Max(S) \in S /\ \A y \in S : y <= Max(S)
<1> DEFINE Above(x) == {y \in S : y > x}
           T == {Above(x) : x \in S}
           Q == StrictSubsetOrdering(S)
<1>1. \A x \in S : Above(x) \in T /\ Above(x) \subseteq S
  OBVIOUS
<1>2. T \subseteq FiniteSubsetsOf(S) /\ T # {}
  <2>1. T \subseteq SUBSET S /\ T # {}
    OBVIOUS
  <2>2. QED
    BY <2>1, FS_FiniteSubsetsOfFinite
<1>3. IsWellFoundedOn(Q, FiniteSubsetsOf(S))
  BY FS_StrictSubsetOrderingWellFounded
<1>4. PICK A \in T : \A B \in T : ~ (<<B, A>> \in Q)
  <2> HIDE DEF T, Q
  <2>1. QED
    BY <1>2, <1>3, WFMin
<1>5. PICK x \in S : A = Above(x)
  OBVIOUS
<1>6. ASSUME NEW y \in S, y > x PROVE FALSE
  <2>1. y \in Above(x) /\ y \notin Above(y) /\ \A z \in Above(y) : z \in Above(x)
    BY <1>6
  <2>2. <<Above(y), Above(x)>> \in Q
    <3> HIDE DEF Above
    <3>1. QED
      BY <1>1, <2>1 DEF StrictSubsetOrdering
  <2>3. QED
    BY <1>1, <1>4, <1>5, <2>2
<1>7. \A y \in S : x >= y
  BY <1>6
<1>8. QED
  BY <1>7 DEF Max

(* Pairs, triples and quadruples are finite.                                *)
LEMMA FiniteFew ==
    ASSUME NEW a, NEW b, NEW c, NEW d
    PROVE  IsFiniteSet({a, b}) /\ IsFiniteSet({a, b, c}) /\ IsFiniteSet({a, b, c, d})
<1>1. IsFiniteSet({a}) /\ IsFiniteSet({b}) /\ IsFiniteSet({c}) /\ IsFiniteSet({d})
  BY FS_Singleton
<1>2. IsFiniteSet({a} \cup {b})
  BY <1>1, FS_Union
<1>3. IsFiniteSet(({a} \cup {b}) \cup {c})
  BY <1>1, <1>2, FS_Union
<1>4. IsFiniteSet((({a} \cup {b}) \cup {c}) \cup {d})
  BY <1>1, <1>3, FS_Union
<1>5. /\ {a, b} = {a} \cup {b} /\ {a, b, c} = ({a} \cup {b}) \cup {c}
      /\ {a, b, c, d} = (({a} \cup {b}) \cup {c}) \cup {d}
  OBVIOUS
<1>6. QED
  BY <1>2, <1>3, <1>4, <1>5

-----------------------------------------------------------------------------
(* Percentages and what is left of them *)

Scored == 0..Full \cup {Unknown}

(* What is left of a window: nothing known, nothing, or the rest of Full.   *)
LEMMA LeftIs ==
    ASSUME NEW used \in Percent
    PROVE  /\ Left(used) \in Scored
           /\ used = Unknown => Left(used) = Unknown
           /\ used = 0 => Left(used) = Full
<1>1. Full \in Nat
  BY LanesAssumption
<1>2. CASE used = Unknown
  BY <1>1, <1>2 DEF Left, Scored, Unknown
<1>3. CASE used \in Nat
  <2> DEFINE S == {0, Full - used}
  <2>1. S # {} /\ S \subseteq Int /\ IsFiniteSet(S)
    <3>1. IsFiniteSet(S)
      BY FiniteFew
    <3>2. QED
      BY <1>1, <1>3, <3>1
  <2>2. Left(used) = Max(S)
    BY <1>3 DEF Left, Unknown
  <2>3. Max(S) \in S /\ \A y \in S : y <= Max(S)
    <3> HIDE DEF S
    <3>1. QED
      BY <2>1, GreatestInt
  <2>4. Max(S) \in 0..Full /\ (used = 0 => Max(S) = Full)
    BY <1>1, <1>3, <2>3
  <2>5. QED
    <3> HIDE DEF S
    <3>1. QED
      BY <1>3, <2>2, <2>4 DEF Scored, Unknown
<1>4. QED
  BY <1>2, <1>3 DEF Percent

(* The worst of some scores is one of them, or nothing is known, and enough *)
(* is left when each leaves enough.                                         *)
LEMMA WorstIs ==
    ASSUME NEW S, S \subseteq Scored
    PROVE  /\ Worst(S) \in Scored
           /\ Enough(Worst(S)) <=> \A x \in S : Enough(x)
<1>1. Full \in Nat /\ MinHeadroom \in 1..Full
  BY LanesAssumption
<1>2. Known(S) \subseteq 0..Full /\ Known(S) \subseteq Nat /\ Known(S) \subseteq S
      /\ \A x \in S : x = Unknown \/ x \in Known(S)
  BY <1>1 DEF Known, Scored, Unknown
<1>3. CASE Known(S) = {}
  BY <1>2, <1>3 DEF Worst, Enough, Scored
<1>4. CASE Known(S) # {}
  <2> DEFINE w == Min(Known(S))
  <2>1. w \in Known(S) /\ \A y \in Known(S) : w <= y
    BY <1>2, <1>4, LeastNat
  <2>2. Worst(S) = w
    BY <1>4 DEF Worst
  <2> HIDE DEF w
  <2>3. Enough(w) => \A x \in S : Enough(x)
    <3>1. w \in 0..Full /\ w # Unknown
      BY <1>2, <2>1 DEF Unknown
    <3>2. ASSUME Enough(w), NEW x \in S PROVE Enough(x)
      <4>1. CASE x = Unknown
        BY <4>1 DEF Enough
      <4>2. CASE x \in Known(S)
        BY <1>1, <1>2, <2>1, <3>1, <3>2, <4>2 DEF Enough
      <4>3. QED
        BY <1>2, <4>1, <4>2
    <3>3. QED
      BY <3>2
  <2>4. QED
    BY <1>2, <2>1, <2>2, <2>3 DEF Scored
<1>5. QED
  BY <1>3, <1>4

(* Scores of two windows.                                                   *)
LEMMA ScoreIs ==
    ASSUME NEW five \in Percent, NEW weekly \in Percent
    PROVE  /\ Score(five, weekly) \in Scored
           /\ Enough(Score(five, weekly)) <=> Enough(Left(five)) /\ Enough(Left(weekly))
<1>1. {Left(five), Left(weekly)} \subseteq Scored
  BY LeftIs
<1>2. QED
  BY <1>1, WorstIs DEF Score

-----------------------------------------------------------------------------
(* What backs a refusal *)

(* Until when a recorded limit keeps its scope.                             *)
Lasts(e) == Later(e.reset, e.at + Fallback)
Backed(l, s) ==
    \E e \in limits : e.lane = l /\ e.scope = s /\ rests[l][s] <= Lasts(e)

(* A new token clears the cooldowns of its lane, and with them all that     *)
(* keeps a refused model but the ledger: every refusal of a model has a     *)
(* limit there, one of the account a limit or a cooldown, and no cooldown   *)
(* outlasts what was refused.                                               *)
LaneSound(l) ==
    /\ \A m \in Models : rests[l][m] = 0 \/ Backed(l, m)
    /\ rests[l][Account] <= cooldown[l][Account] \/ Backed(l, Account)
    /\ \A s \in Scopes : cooldown[l][s] <= rests[l][s]

HomeSound(h) == rests[h][Account] <= cooldown[h][Account]

CapacityInv ==
    /\ TypeOK
    /\ IsFiniteSet(uses) /\ IsFiniteSet(limits)
    /\ \A l \in Lanes : LaneSound(l)
    /\ \A h \in Homes : HomeSound(h)

-----------------------------------------------------------------------------
(* Times *)

Ends == [All -> [Scopes -> 0..LastTime]]

LEMMA TimeFacts ==
    ASSUME TypeOK
    PROVE  /\ now \in Nat /\ MaxTime \in Nat /\ LastTime \in Nat /\ now <= MaxTime
           /\ \A d \in 0..AuthRest : now + d \in 0..LastTime
           /\ Times \subseteq Nat /\ Times \subseteq 0..LastTime
           /\ AuthRest \in 0..AuthRest /\ Fallback \in 0..AuthRest /\ HomeRest \in 0..AuthRest
           /\ Resets \subseteq 0..AuthRest
           /\ cooldown \in Ends /\ rests \in Ends
           /\ Lanes \subseteq All /\ Homes \subseteq All /\ Account \in Scopes
           /\ Models \subseteq Scopes
           /\ \A l \in Lanes, h \in Homes : l # h
<1>1. MaxTime \in Nat /\ AuthRest \in Nat /\ LastTime = MaxTime + AuthRest
  BY CapacityAssumption DEF LastTime
<1>2. now \in 0..MaxTime /\ cooldown \in Ends /\ rests \in Ends
  BY DEF TypeOK, Ends, Times
<1>3. Times \subseteq Nat /\ Times \subseteq 0..LastTime
  BY <1>1 DEF Times
<1>4. \A d \in 0..AuthRest : now + d \in 0..LastTime
  BY <1>1, <1>2
<1>5. /\ AuthRest \in 0..AuthRest /\ Fallback \in 0..AuthRest /\ HomeRest \in 0..AuthRest
      /\ Resets \subseteq 0..AuthRest
  BY CapacityAssumption
<1>6. /\ Lanes \subseteq All /\ Homes \subseteq All /\ Account \in Scopes
      /\ Models \subseteq Scopes /\ \A l \in Lanes, h \in Homes : l # h
  BY CapacityAssumption DEF All, Scopes
<1>7. QED
  BY <1>1, <1>2, <1>3, <1>4, <1>5, <1>6

(* The end of what is over is no time, that of what is not is its own.      *)
LEMMA FutureIs ==
    ASSUME TypeOK, NEW t \in Nat
    PROVE  /\ Future(t, now) \in Nat /\ Future(t, now) <= t
           /\ t > now <=> Future(t, now) # 0
           /\ t > now => Future(t, now) = t
BY TimeFacts DEF Future

LEMMA LaterIs ==
    ASSUME NEW a \in Nat, NEW b \in Nat
    PROVE  /\ Later(a, b) \in {a, b} /\ Later(a, b) \in Nat
           /\ a <= Later(a, b) /\ b <= Later(a, b)
BY DEF Later

LEMMA LimitFacts ==
    ASSUME TypeOK, NEW e \in limits
    PROVE  /\ e.lane \in Lanes /\ e.scope \in Scopes /\ e.at \in Nat
           /\ e.reset \in 0..LastTime /\ e.five \in Nat /\ e.weekly \in Nat
           /\ Lasts(e) \in 0..LastTime /\ Stands(e) \in 0..LastTime
           /\ Stands(e) <= Lasts(e)
           /\ Lasts(e) > now <=> Stands(e) # 0
           /\ Stands(e) # 0 => Stands(e) > now
<1>1. /\ e.lane \in Lanes /\ e.scope \in Scopes /\ e.at \in 0..MaxTime
      /\ e.reset \in 0..LastTime /\ e.five \in Nat /\ e.weekly \in Nat
  BY DEF TypeOK, Limits, Times
<1>2. /\ MaxTime \in Nat /\ LastTime = MaxTime + AuthRest /\ LastTime \in Nat
      /\ Fallback \in 0..AuthRest /\ AuthRest \in Nat /\ now \in Nat
  BY CapacityAssumption, TimeFacts DEF LastTime
<1>3. e.at + Fallback \in 0..LastTime
  BY <1>1, <1>2
<1>4. Lasts(e) \in 0..LastTime /\ Stands(e) \in 0..LastTime
  BY <1>1, <1>2, <1>3 DEF Lasts, Later, Stands, Future
<1>5. /\ Stands(e) <= Lasts(e)
      /\ Lasts(e) > now <=> Stands(e) # 0
      /\ Stands(e) # 0 => Stands(e) > now
  BY <1>1, <1>2, <1>3 DEF Lasts, Later, Stands, Future
<1>6. QED
  BY <1>1, <1>4, <1>5

(* Writes of the cooldown file.                                             *)
LEMMA ExtendedIs ==
    ASSUME NEW c \in Ends, NEW lane \in All, NEW scope \in Scopes,
           NEW until \in 0..LastTime, LastTime \in Nat
    PROVE  /\ Extended(c, lane, scope, until) \in Ends
           /\ Extended(c, lane, scope, until)[lane][scope] = Later(c[lane][scope], until)
           /\ \A l \in All, s \in Scopes :
                 l # lane \/ s # scope => Extended(c, lane, scope, until)[l][s] = c[l][s]
<1>1. c[lane] \in [Scopes -> 0..LastTime] /\ c[lane][scope] \in 0..LastTime
  BY DEF Ends
<1> DEFINE t == Later(c[lane][scope], until)
           row == [c[lane] EXCEPT ![scope] = t]
<1>2. t \in 0..LastTime
  BY <1>1 DEF Later
<1>3. Extended(c, lane, scope, until) = [c EXCEPT ![lane] = row]
  BY DEF Extended
<1> HIDE DEF t
<1>4. row \in [Scopes -> 0..LastTime] /\ row[scope] = t
      /\ \A s \in Scopes : s # scope => row[s] = c[lane][s]
  BY <1>1, <1>2
<1> HIDE DEF row
<1>5. QED
  BY <1>3, <1>4 DEF Ends, t

LEMMA ClearedIs ==
    ASSUME NEW c \in Ends, NEW lane \in All, LastTime \in Nat
    PROVE  /\ Cleared(c, lane) \in Ends
           /\ \A s \in Scopes : Cleared(c, lane)[lane][s] = 0
           /\ \A l \in All : l # lane => Cleared(c, lane)[l] = c[l]
<1> DEFINE row == [s \in Scopes |-> 0]
<1>1. row \in [Scopes -> 0..LastTime] /\ \A s \in Scopes : row[s] = 0
  OBVIOUS
<1>2. Cleared(c, lane) = [c EXCEPT ![lane] = row]
  BY DEF Cleared
<1> HIDE DEF row
<1>3. QED
  BY <1>1, <1>2 DEF Ends

(* The greatest reset of the limits of a scope and of its account.          *)
LEMMA HardLimitIs ==
    ASSUME TypeOK, NEW l \in Lanes, NEW s \in Scopes
    PROVE  /\ HardLimitUntil(l, s) \in 0..LastTime
           /\ HardLimitUntil(l, s) = 0 \/
                 \E e \in limits : /\ e.lane = l /\ e.scope \in {s, Account}
                                   /\ Stands(e) = HardLimitUntil(l, s)
           /\ \A e \in limits : e.lane = l /\ e.scope \in {s, Account} =>
                 Stands(e) <= HardLimitUntil(l, s)
<1> DEFINE S == {0} \cup OwnLimits(l, s) \cup OwnLimits(l, Account)
<1>1. S \subseteq 0..LastTime /\ S # {} /\ LastTime \in Nat
  BY LimitFacts, TimeFacts DEF OwnLimits
<1>2. IsFiniteSet(S)
  <2> HIDE DEF S
  <2>1. IsFiniteSet(0..LastTime)
    BY <1>1, FS_Interval
  <2>2. QED
    BY <1>1, <2>1, FS_Subset
<1>3. S \subseteq Int
  BY <1>1
<1>4. Max(S) \in S /\ \A y \in S : y <= Max(S)
  <2> HIDE DEF S
  <2>1. QED
    BY <1>1, <1>2, <1>3, GreatestInt
<1>5. HardLimitUntil(l, s) = Max(S)
  BY DEF HardLimitUntil
<1>6. \A e \in limits : e.lane = l /\ e.scope \in {s, Account} => Stands(e) \in S
  BY DEF OwnLimits
<1>7. \A t \in S : t = 0 \/ \E e \in limits : /\ e.lane = l /\ e.scope \in {s, Account}
                                              /\ Stands(e) = t
  BY DEF OwnLimits
<1> HIDE DEF S
<1>8. QED
  BY <1>1, <1>4, <1>5, <1>6, <1>7

-----------------------------------------------------------------------------
(* The beginning and each step *)

LEMMA InitInv == Init => CapacityInv
<1> SUFFICES ASSUME Init PROVE CapacityInv
  OBVIOUS
<1> DEFINE Ledger(l, s) == {Later(e.reset, e.at + Fallback) :
                               e \in {f \in limits : f.lane = l /\ f.scope = s}}
           Sums(l, s) == {0} \cup Ledger(l, s)
<1>1. /\ MaxTime \in Nat \ {0} /\ AuthRest \in Nat /\ Fallback \in 0..AuthRest
      /\ LastTime = MaxTime + AuthRest /\ LastTime \in Nat
  BY CapacityAssumption DEF LastTime
<1>2. limits \subseteq Limits /\ IsFiniteSet(limits) /\ IsFiniteSet(uses)
  BY FS_EmptySet, CapacityAssumption DEF Init
<1>3. \A e \in limits : /\ Lasts(e) \in 0..LastTime /\ e.lane \in Lanes
  BY <1>1, <1>2 DEF Limits, Times, Lasts, Later
<1>4. ASSUME NEW l \in All, NEW s \in Scopes
      PROVE  /\ rests[l][s] \in 0..LastTime
             /\ rests[l][s] = 0 \/ \E e \in limits : /\ e.lane = l /\ e.scope = s
                                                     /\ Lasts(e) = rests[l][s]
  <2>1. Sums(l, s) \subseteq 0..LastTime /\ Sums(l, s) # {}
    BY <1>1, <1>3 DEF Lasts
  <2>2. IsFiniteSet(0..LastTime)
    BY <1>1, FS_Interval
  <2>3. rests[l][s] = Max(Sums(l, s))
    BY DEF Init
  <2>4. \A t \in Sums(l, s) : t = 0 \/ \E e \in limits : /\ e.lane = l /\ e.scope = s
                                                         /\ Lasts(e) = t
    BY DEF Lasts
  <2> HIDE DEF Sums
  <2>5. IsFiniteSet(Sums(l, s)) /\ Sums(l, s) \subseteq Int
    BY <1>1, <2>1, <2>2, FS_Subset
  <2>6. Max(Sums(l, s)) \in Sums(l, s)
    BY <2>1, <2>5, GreatestInt
  <2>7. QED
    BY <2>1, <2>3, <2>4, <2>6
<1>5. rests \in Ends /\ cooldown \in Ends
  <2>1. DOMAIN rests = All /\ rests = [l \in All |-> rests[l]]
        /\ \A l \in All : rests[l] = [s \in Scopes |-> rests[l][s]]
    BY DEF Init
  <2>2. \A l \in All : rests[l] \in [Scopes -> 0..LastTime]
    BY <1>4, <2>1
  <2>3. cooldown \in Ends
    BY <1>1 DEF Init, Ends
  <2>4. QED
    BY <2>1, <2>2, <2>3 DEF Ends
<1>6. TypeOK
  <2>1. now \in Times /\ ops \in 0..MaxOps
    BY <1>1, CapacityAssumption DEF Init, Times
  <2>2. uses \subseteq [lane: Lanes, at: Times] /\ cache \in Caches \cup {NoCache}
    BY DEF Init
  <2>3. errors \in [Homes -> [at: Times, reset: 0..LastTime]]
    BY <1>1 DEF Init, Times
  <2>4. redeemed \in [Homes -> Times]
    BY <1>1 DEF Init, Times
  <2>5. /\ enrolled \subseteq Lanes /\ secrets \subseteq Lanes
        /\ login \in Lanes \cup {None} /\ endpoint \in Endpoints
    BY DEF Init
  <2>6. QED
    BY <1>2, <1>5, <2>1, <2>2, <2>3, <2>4, <2>5 DEF TypeOK, Ends
<1>7. \A l \in Lanes : LaneSound(l)
  <2> SUFFICES ASSUME NEW l \in Lanes PROVE LaneSound(l)
    OBVIOUS
  <2>1. ASSUME NEW s \in Scopes PROVE rests[l][s] = 0 \/ Backed(l, s)
    BY <1>1, <1>4, TimeFacts, <1>6 DEF Backed
  <2>2. \A s \in Scopes : cooldown[l][s] = 0 /\ rests[l][s] \in Nat
    <3>1. l \in All
      BY DEF All
    <3>2. \A s \in Scopes : cooldown[l][s] = 0
      BY <3>1 DEF Init
    <3>3. QED
      BY <1>1, <1>4, <3>1, <3>2
  <2>3. QED
    BY <2>1, <2>2, TimeFacts, <1>6 DEF LaneSound
<1>8. \A h \in Homes : HomeSound(h)
  <2> SUFFICES ASSUME NEW h \in Homes PROVE HomeSound(h)
    OBVIOUS
  <2>1. rests[h][Account] = 0
    BY <1>3, <1>4, <1>6, TimeFacts
  <2>2. cooldown[h][Account] = 0
    BY <1>6, TimeFacts DEF Init
  <2>3. QED
    BY <2>1, <2>2 DEF HomeSound
<1>9. QED
  BY <1>2, <1>6, <1>7, <1>8 DEF CapacityInv

(* A step that neither records nor lifts a refusal.                         *)
LEMMA QuietStep ==
    ASSUME CapacityInv, TypeOK', IsFiniteSet(uses'),
           UNCHANGED <<cooldown, limits, rests>>
    PROVE  CapacityInv'
BY DEF CapacityInv, LaneSound, HomeSound, Backed

LEMMA UsesStep ==
    ASSUME CapacityInv, NEW l \in Lanes
    PROVE  /\ uses \cup {[lane |-> l, at |-> now]} \subseteq [lane: Lanes, at: Times]
           /\ IsFiniteSet(uses \cup {[lane |-> l, at |-> now]})
<1> DEFINE new == {[lane |-> l, at |-> now]}
<1>1. IsFiniteSet(new)
  BY FS_Singleton
<1>2. new \subseteq [lane: Lanes, at: Times] /\ uses \subseteq [lane: Lanes, at: Times]
  BY DEF CapacityInv, TypeOK
<1>3. IsFiniteSet(uses)
  BY DEF CapacityInv
<1> HIDE DEF new
<1>4. uses \cup new \subseteq [lane: Lanes, at: Times] /\ IsFiniteSet(uses \cup new)
  BY <1>1, <1>2, <1>3, FS_Union
<1>5. QED
  BY <1>4 DEF new

LEMMA OpType ==
    ASSUME TypeOK, Op
    PROVE  ops' \in 0..MaxOps
BY CapacityAssumption DEF TypeOK, Op

(* The report that a collection uses is a cached one or a new one.          *)
LEMMA UsedIs ==
    ASSUME TypeOK, NEW force \in BOOLEAN
    PROVE  Used(force) \in Caches
<1>1. Probed \in Caches
  BY TimeFacts DEF TypeOK, Probed, Caches, Endpoints
<1>2. Hit(cache) => cache \in Caches
  BY DEF Hit, TypeOK, NoCache
<1>3. QED
  BY <1>1, <1>2 DEF Used

LEMMA TickStep == ASSUME CapacityInv, Tick PROVE CapacityInv'
<1>1. TypeOK'
  BY TimeFacts DEF CapacityInv, Tick, stores, roster, TypeOK, Times
<1>2. QED
  BY <1>1, QuietStep DEF Tick, stores, CapacityInv

LEMMA RosterStep ==
    ASSUME CapacityInv,
           \/ \E l \in Lanes \cup {None} : SignIn(l)
           \/ \E l \in Lanes : DropSecret(l)
           \/ \E e \in Endpoints : Usage(e)
    PROVE  CapacityInv'
<1>1. TypeOK'
  BY OpType DEF CapacityInv, SignIn, DropSecret, Usage, stores, roster, TypeOK
<1>2. QED
  BY <1>1, QuietStep DEF SignIn, DropSecret, Usage, stores, CapacityInv

LEMMA CollectStep == ASSUME CapacityInv, NEW force \in BOOLEAN, Collect(force) PROVE CapacityInv'
<1>1. Used(force) \in Caches
  BY UsedIs DEF CapacityInv
<1>2. TypeOK'
  BY <1>1 DEF CapacityInv, Collect, stores, roster, TypeOK
<1>3. QED
  BY <1>2, QuietStep DEF Collect, stores, CapacityInv

LEMMA ServedStep == ASSUME CapacityInv, NEW l \in Lanes, RunServed(l) PROVE CapacityInv'
<1>1. uses' \subseteq [lane: Lanes, at: Times] /\ IsFiniteSet(uses')
  BY UsesStep DEF RunServed
<1>2. TypeOK'
  BY <1>1, OpType DEF CapacityInv, RunServed, roster, TypeOK
<1>3. QED
  BY <1>1, <1>2, QuietStep DEF RunServed

(* A refusal that was recorded leaves every other lane and scope alone.     *)
LEMMA ExtendStep ==
    ASSUME CapacityInv, TypeOK', IsFiniteSet(uses'), IsFiniteSet(limits'),
           limits \subseteq limits',
           NEW lane \in All, NEW scope \in Scopes, NEW until \in 0..LastTime,
           cooldown' = Extended(cooldown, lane, scope, until),
           rests' = Extended(rests, lane, scope, until),
           scope = Account \/
              \E e \in limits' : e.lane = lane /\ e.scope = scope /\ until <= Lasts(e)
    PROVE  CapacityInv'
<1>1. /\ TypeOK /\ LastTime \in Nat /\ cooldown \in Ends /\ rests \in Ends
      /\ Lanes \subseteq All /\ Homes \subseteq All /\ Account \in Scopes /\ Models \subseteq Scopes
      /\ Account \notin Models
  BY TimeFacts, CapacityAssumption DEF CapacityInv
<1>2. ASSUME NEW l \in All, NEW s \in Scopes
      PROVE  /\ l = lane /\ s = scope =>
                   /\ cooldown'[l][s] = Later(cooldown[l][s], until)
                   /\ rests'[l][s] = Later(rests[l][s], until)
             /\ ~(l = lane /\ s = scope) =>
                   cooldown'[l][s] = cooldown[l][s] /\ rests'[l][s] = rests[l][s]
             /\ cooldown[l][s] \in Nat /\ rests[l][s] \in Nat
  <2>1. cooldown[l][s] \in 0..LastTime /\ rests[l][s] \in 0..LastTime
    BY <1>1 DEF Ends
  <2>2. cooldown[l][s] \in Nat /\ rests[l][s] \in Nat
    BY <2>1
  <2>3. ASSUME NEW c \in Ends, NEW d, d = Extended(c, lane, scope, until)
        PROVE  /\ l = lane /\ s = scope => d[l][s] = Later(c[l][s], until)
               /\ ~(l = lane /\ s = scope) => d[l][s] = c[l][s]
    BY <1>1, <2>3, ExtendedIs
  <2>4. QED
    BY <1>1, <2>2, <2>3
<1>3. ASSUME NEW l \in All, NEW s \in Scopes
      PROVE  /\ rests'[l][s] \in {rests[l][s], until}
             /\ rests'[l][s] = until => until = rests[l][s] \/ (l = lane /\ s = scope)
             /\ until \in Nat
  BY <1>1, <1>2 DEF Later
<1>4. ASSUME NEW l \in Lanes, NEW s \in Scopes, Backed(l, s),
             rests'[l][s] = rests[l][s]
      PROVE  Backed(l, s)'
  BY <1>4 DEF Backed, Lasts
<1>5. ASSUME NEW l \in Lanes PROVE LaneSound(l)'
  <2>1. LaneSound(l) /\ l \in All
    BY <1>1 DEF CapacityInv
  <2>2. ASSUME NEW m \in Models PROVE rests'[l][m] = 0 \/ Backed(l, m)'
    <3>1. CASE rests'[l][m] = rests[l][m]
      BY <1>1, <1>4, <2>1, <3>1 DEF LaneSound
    <3>2. CASE rests'[l][m] = until /\ l = lane /\ m = scope
      BY <1>1, <3>2 DEF Backed, Lasts
    <3>3. QED
      BY <1>1, <1>3, <2>1, <3>1, <3>2
  <2>3. rests'[l][Account] <= cooldown'[l][Account] \/ Backed(l, Account)'
    <3>1. CASE ~(l = lane /\ Account = scope)
      BY <1>1, <1>2, <1>4, <2>1, <3>1 DEF LaneSound
    <3>2. CASE l = lane /\ Account = scope
      <4>1. /\ cooldown'[l][Account] = Later(cooldown[l][Account], until)
            /\ rests'[l][Account] = Later(rests[l][Account], until)
            /\ cooldown[l][Account] \in Nat /\ rests[l][Account] \in Nat /\ until \in Nat
        BY <1>1, <1>2, <1>3, <2>1, <3>2
      <4>2. CASE rests[l][Account] <= cooldown[l][Account]
        BY <4>1, <4>2 DEF Later
      <4>3. CASE Backed(l, Account)
        <5>1. rests'[l][Account] = rests[l][Account]
              \/ rests'[l][Account] <= cooldown'[l][Account]
          BY <4>1 DEF Later
        <5>2. QED
          BY <1>1, <1>4, <4>3, <5>1
      <4>4. QED
        BY <2>1, <4>2, <4>3 DEF LaneSound
    <3>3. QED
      BY <3>1, <3>2
  <2>4. ASSUME NEW s \in Scopes PROVE cooldown'[l][s] <= rests'[l][s]
    <3>1. cooldown[l][s] <= rests[l][s]
      BY <2>1 DEF LaneSound
    <3>2. QED
      BY <1>2, <1>3, <2>1, <3>1 DEF Later
  <2>5. QED
    BY <2>2, <2>3, <2>4 DEF LaneSound
<1>6. ASSUME NEW h \in Homes PROVE HomeSound(h)'
  <2>1. HomeSound(h) /\ h \in All
    BY <1>1 DEF CapacityInv
  <2>2. QED
    BY <1>1, <1>2, <1>3, <2>1 DEF HomeSound, Later
<1>7. QED
  BY <1>5, <1>6 DEF CapacityInv

LEMMA LimitedStep ==
    ASSUME CapacityInv, NEW l \in Lanes, NEW m \in Models, NEW offset \in Resets,
           RunLimited(l, m, offset)
    PROVE  CapacityInv'
<1> DEFINE used == uses \cup {[lane |-> l, at |-> now]}
           reset == now + IF offset = 0 THEN Fallback ELSE offset
           Tokens(window) == Cardinality({u \in used : u.lane = l /\ u.at + window >= now})
           event == [lane |-> l, scope |-> m, at |-> now, reset |-> reset,
                     five |-> Tokens(FiveHours), weekly |-> Tokens(SevenDays)]
<1>1. /\ TypeOK /\ Op /\ uses' = used /\ limits' = limits \cup {event}
      /\ cooldown' = Extended(cooldown, l, m, reset) /\ rests' = Extended(rests, l, m, reset)
      /\ UNCHANGED <<now, errors, redeemed, roster, endpoint, cache>>
  BY DEF RunLimited, Refused, CapacityInv
<1>2. used \subseteq [lane: Lanes, at: Times] /\ IsFiniteSet(used)
  BY UsesStep
<1>3. \A window : Tokens(window) \in Nat
  <2> HIDE DEF used
  <2>1. ASSUME NEW window PROVE Tokens(window) \in Nat
    <3> DEFINE S == {u \in used : u.lane = l /\ u.at + window >= now}
    <3>1. S \subseteq used
      OBVIOUS
    <3> HIDE DEF S
    <3>2. IsFiniteSet(S)
      BY <1>2, <3>1, FS_Subset
    <3>3. Cardinality(S) \in Nat
      BY <3>2, FS_CardinalityType
    <3>4. QED
      BY <3>3 DEF S
  <2>2. QED
    BY <2>1
<1> HIDE DEF Tokens, used
<1>4. reset \in 0..LastTime
  BY <1>1, TimeFacts
<1> HIDE DEF reset
<1>5. event \in Limits /\ event.lane = l /\ event.scope = m /\ event.reset = reset
      /\ event.at = now
  BY <1>1, <1>3, <1>4, TimeFacts DEF Limits, TypeOK
<1> HIDE DEF event
<1>6. IsFiniteSet(limits')
  <2>1. IsFiniteSet({event}) /\ IsFiniteSet(limits)
    BY FS_Singleton DEF CapacityInv
  <2>2. QED
    BY <1>1, <2>1, FS_Union
<1>7. /\ l \in All /\ m \in Scopes /\ cooldown \in Ends /\ rests \in Ends /\ LastTime \in Nat
      /\ now \in Nat /\ Fallback \in Nat
  BY <1>1, TimeFacts, CapacityAssumption
<1>8. cooldown' \in Ends /\ rests' \in Ends
  BY <1>1, <1>4, <1>7, ExtendedIs
<1>9. TypeOK'
  BY <1>1, <1>2, <1>5, <1>8, OpType DEF TypeOK, roster, Ends
<1>10. reset <= Lasts(event)
  BY <1>4, <1>5, <1>7 DEF Lasts, Later
<1>11. \E e \in limits' : e.lane = l /\ e.scope = m /\ reset <= Lasts(e)
  BY <1>1, <1>5, <1>10
<1>12. limits \subseteq limits'
  BY <1>1
<1>13. QED
  BY <1>1, <1>2, <1>4, <1>6, <1>7, <1>9, <1>11, <1>12, ExtendStep

LEMMA UnauthorizedStep ==
    ASSUME CapacityInv, NEW l \in Lanes, RunUnauthorized(l)
    PROVE  CapacityInv'
<1> DEFINE until == now + AuthRest
<1>1. /\ TypeOK /\ Op /\ uses' = uses \cup {[lane |-> l, at |-> now]}
      /\ cooldown' = Extended(cooldown, l, Account, until)
      /\ rests' = Extended(rests, l, Account, until)
      /\ UNCHANGED <<now, limits, errors, redeemed, roster, endpoint, cache>>
  BY DEF RunUnauthorized, Refused, CapacityInv
<1>2. uses' \subseteq [lane: Lanes, at: Times] /\ IsFiniteSet(uses')
  BY <1>1, UsesStep
<1>3. /\ until \in 0..LastTime /\ l \in All /\ Account \in Scopes /\ cooldown \in Ends
      /\ rests \in Ends /\ LastTime \in Nat
  BY <1>1, TimeFacts
<1> HIDE DEF until
<1>4. cooldown' \in Ends /\ rests' \in Ends
  BY <1>1, <1>3, ExtendedIs
<1>5. TypeOK'
  BY <1>1, <1>2, <1>4, OpType DEF TypeOK, roster, Ends
<1>6. IsFiniteSet(limits') /\ limits \subseteq limits'
  BY <1>1 DEF CapacityInv
<1>7. QED
  BY <1>1, <1>2, <1>3, <1>5, <1>6, ExtendStep

LEMMA HomeLimitedStep ==
    ASSUME CapacityInv, NEW h \in Homes, NEW offset \in Resets, HomeLimited(h, offset)
    PROVE  CapacityInv'
<1> DEFINE until == now + HomeRest
           end == IF offset = 0 THEN 0 ELSE now + offset
<1>1. /\ TypeOK /\ Op /\ errors' = [errors EXCEPT ![h] = [at |-> now, reset |-> end]]
      /\ cooldown' = Extended(cooldown, h, Account, until)
      /\ rests' = Extended(rests, h, Account, until)
      /\ UNCHANGED <<now, uses, limits, redeemed, roster, endpoint, cache>>
  BY DEF HomeLimited, Refused, CapacityInv
<1>2. /\ until \in 0..LastTime /\ end \in 0..LastTime /\ h \in All /\ Account \in Scopes
      /\ cooldown \in Ends /\ rests \in Ends /\ LastTime \in Nat
  BY <1>1, TimeFacts
<1> HIDE DEF until, end
<1>3. cooldown' \in Ends /\ rests' \in Ends
  BY <1>1, <1>2, ExtendedIs
<1>4. errors' \in [Homes -> [at: Times, reset: 0..LastTime]]
  BY <1>1, <1>2 DEF TypeOK
<1>5. TypeOK'
  BY <1>1, <1>3, <1>4, OpType DEF TypeOK, roster, Ends
<1>6. IsFiniteSet(limits') /\ IsFiniteSet(uses') /\ limits \subseteq limits'
  BY <1>1 DEF CapacityInv
<1>7. QED
  BY <1>1, <1>2, <1>5, <1>6, ExtendStep

LEMMA RedeemStep ==
    ASSUME CapacityInv, NEW h \in Homes, Redeem(h)
    PROVE  CapacityInv'
<1>1. /\ TypeOK /\ Op /\ redeemed' = [redeemed EXCEPT ![h] = now]
      /\ cooldown' = Cleared(cooldown, h) /\ rests' = Cleared(rests, h)
      /\ UNCHANGED <<now, uses, limits, errors, roster, endpoint, cache>>
  BY DEF Redeem, CapacityInv
<1>2. /\ h \in All /\ Account \in Scopes /\ cooldown \in Ends /\ rests \in Ends
      /\ LastTime \in Nat /\ Lanes \subseteq All /\ Homes \subseteq All
      /\ \A l \in Lanes : l # h
  BY <1>1, TimeFacts
<1>3. /\ cooldown' \in Ends /\ rests' \in Ends
      /\ cooldown'[h][Account] = 0 /\ rests'[h][Account] = 0
      /\ \A x \in All : x # h => cooldown'[x] = cooldown[x] /\ rests'[x] = rests[x]
  BY <1>1, <1>2, ClearedIs
<1>4. redeemed' \in [Homes -> Times]
  BY <1>1 DEF TypeOK
<1>5. TypeOK'
  BY <1>1, <1>3, <1>4, OpType DEF TypeOK, roster, Ends
<1>6. \A l \in Lanes : LaneSound(l)'
  BY <1>1, <1>2, <1>3 DEF CapacityInv, LaneSound, Backed, Lasts
<1>7. \A x \in Homes : HomeSound(x)'
  BY <1>1, <1>2, <1>3 DEF CapacityInv, HomeSound
<1>8. QED
  BY <1>1, <1>5, <1>6, <1>7 DEF CapacityInv

LEMMA EnrollStep ==
    ASSUME CapacityInv, NEW l \in Lanes, Enroll(l)
    PROVE  CapacityInv'
<1> DEFINE until == HardLimitUntil(l, Account)
<1>1. /\ TypeOK /\ Op /\ enrolled' = enrolled \cup {l} /\ secrets' = secrets \cup {l}
      /\ cooldown' = Cleared(cooldown, l)
      /\ rests' = [rests EXCEPT ![l][Account] = until]
      /\ UNCHANGED <<now, uses, limits, errors, redeemed, login, endpoint, cache>>
  BY DEF Enroll, CapacityInv
<1>2. /\ l \in All /\ Account \in Scopes /\ cooldown \in Ends /\ rests \in Ends
      /\ LastTime \in Nat /\ Lanes \subseteq All /\ Homes \subseteq All
      /\ Models \subseteq Scopes /\ Account \notin Models
      /\ \A h \in Homes : l # h
  BY <1>1, TimeFacts, CapacityAssumption
<1>3. /\ cooldown' \in Ends /\ \A s \in Scopes : cooldown'[l][s] = 0
      /\ \A x \in All : x # l => cooldown'[x] = cooldown[x]
  BY <1>1, <1>2, ClearedIs
<1>4. /\ until \in 0..LastTime
      /\ until = 0 \/ \E e \in limits : e.lane = l /\ e.scope = Account /\ Stands(e) = until
  BY <1>1, <1>2, HardLimitIs
<1> HIDE DEF until
<1>5. /\ rests' \in Ends /\ rests'[l][Account] = until
      /\ \A s \in Scopes : s # Account => rests'[l][s] = rests[l][s]
      /\ \A x \in All : x # l => rests'[x] = rests[x]
  BY <1>1, <1>2, <1>4 DEF Ends
<1>6. TypeOK'
  BY <1>1, <1>3, <1>5, OpType DEF TypeOK, Ends
<1>7. LaneSound(l)'
  <2>1. ASSUME NEW m \in Models PROVE rests'[l][m] = 0 \/ Backed(l, m)'
    <3>1. rests'[l][m] = rests[l][m]
      BY <1>2, <1>5
    <3>2. QED
      BY <1>1, <3>1 DEF CapacityInv, LaneSound, Backed, Lasts
  <2>2. rests'[l][Account] <= cooldown'[l][Account] \/ Backed(l, Account)'
    <3>1. CASE until = 0
      BY <1>2, <1>3, <1>5, <3>1
    <3>2. CASE \E e \in limits : e.lane = l /\ e.scope = Account /\ Stands(e) = until
      BY <1>1, <1>4, <1>5, <3>2, LimitFacts DEF Backed, Lasts
    <3>3. QED
      BY <1>4, <3>1, <3>2
  <2>3. \A s \in Scopes : cooldown'[l][s] <= rests'[l][s]
    BY <1>2, <1>3, <1>5 DEF Ends
  <2>4. QED
    BY <2>1, <2>2, <2>3 DEF LaneSound
<1>8. \A x \in Lanes \ {l} : LaneSound(x)'
  BY <1>1, <1>2, <1>3, <1>5 DEF CapacityInv, LaneSound, Backed, Lasts
<1>9. \A h \in Homes : HomeSound(h)'
  BY <1>1, <1>2, <1>3, <1>5 DEF CapacityInv, HomeSound
<1>10. QED
  BY <1>1, <1>6, <1>7, <1>8, <1>9 DEF CapacityInv

LEMMA NextInv ==
    ASSUME CapacityInv, [Next]_vars
    PROVE  CapacityInv'
<1>1. CASE Next
  BY <1>1, TickStep, RosterStep, CollectStep, ServedStep, LimitedStep, UnauthorizedStep,
     HomeLimitedStep, RedeemStep, EnrollStep DEF Next
<1>2. CASE UNCHANGED vars
  <2>1. TypeOK'
    BY <1>2 DEF vars, stores, roster, CapacityInv, TypeOK
  <2>2. QED
    BY <1>2, <2>1, QuietStep DEF vars, stores, CapacityInv
<1>3. QED
  BY <1>1, <1>2

(* What backs each refusal is never lost, and nothing outlasts a refusal:   *)
(* not by a run, a limit, a dead token, a redemption or a new token.        *)
THEOREM Invariance == Spec => []CapacityInv
BY InitInv, NextInv, PTL DEF Spec

(* The cooldown file, the ledger, the roster, the cache and the history keep *)
(* their types: no date is ever further ahead than a token's rest.           *)
THEOREM TypeCorrect == Spec => []TypeOK
<1>1. CapacityInv => TypeOK
  BY DEF CapacityInv
<1>2. QED
  BY <1>1, Invariance, PTL

-----------------------------------------------------------------------------
(* Readings of a lane *)

(* The reset that a window of a probe waits for is a time.                  *)
LEMMA WindowLimitIs ==
    ASSUME NEW w, w.fiveReset \in Nat, w.weeklyReset \in Nat, NEW t \in Nat
    PROVE  WindowLimit(w, t) \in Nat
<1> DEFINE Spent(used, reset) == used > Full - MinHeadroom /\ reset > t
           resets == {r \in {w.fiveReset, w.weeklyReset} :
                         \/ r = w.fiveReset /\ Spent(w.five, r)
                         \/ r = w.weeklyReset /\ Spent(w.weekly, r)}
<1>1. resets \subseteq {w.fiveReset, w.weeklyReset}
  OBVIOUS
<1>2. WindowLimit(w, t) = IF resets # {} THEN Max(resets)
                          ELSE IF w.fiveReset > t THEN w.fiveReset ELSE Future(w.weeklyReset, t)
  BY DEF WindowLimit
<1> HIDE DEF resets
<1>3. IsFiniteSet({w.fiveReset, w.weeklyReset})
  BY FiniteFew
<1>4. IsFiniteSet(resets) /\ resets \subseteq Int /\ resets \subseteq Nat
  BY <1>1, <1>3, FS_Subset
<1>5. resets # {} => Max(resets) \in Nat
  BY <1>4, GreatestInt
<1>6. QED
  BY <1>2, <1>5 DEF Future

(* A ratio of tokens to a learned size is a percentage, none of no tokens.  *)
LEMMA RatioIs ==
    ASSUME NEW tokens \in Nat, NEW size \in Nat
    PROVE  /\ Ratio(tokens, size) \in Percent
           /\ tokens = 0 => Ratio(tokens, size) \in {0, Unknown}
<1>1. Full * tokens \in Nat /\ (tokens = 0 => Full * tokens = 0)
  BY LanesAssumption
<1> DEFINE n == Full * tokens
<1>2. size # 0 => n \div size \in Nat /\ (n = 0 => n \div size = 0)
  <2>1. n \in Nat
    BY <1>1
  <2> HIDE DEF n
  <2>2. QED
    BY <2>1
<1>3. Ratio(tokens, size) = IF size = 0 THEN Unknown ELSE n \div size
  BY DEF Ratio
<1> HIDE DEF n
<1>4. tokens = 0 => n = 0
  BY <1>1 DEF n
<1>5. QED
  BY <1>2, <1>3, <1>4 DEF Percent

LEMMA SumIs ==
    ASSUME CapacityInv, NEW l, NEW window
    PROVE  /\ Sum(l, window) \in Nat
           /\ (\A u \in uses : u.lane = l => ~(u.at + window >= now)) => Sum(l, window) = 0
<1> DEFINE S == {u \in uses : u.lane = l /\ u.at + window >= now}
<1>1. S \subseteq uses /\ IsFiniteSet(uses)
  BY DEF CapacityInv
<1>2. (\A u \in uses : u.lane = l => ~(u.at + window >= now)) => S = {}
  OBVIOUS
<1>3. Sum(l, window) = Cardinality(S)
  BY DEF Sum
<1> HIDE DEF S
<1>4. IsFiniteSet(S)
  BY <1>1, FS_Subset
<1>5. Cardinality(S) \in Nat /\ (S = {} => Cardinality(S) = 0)
  BY <1>4, FS_CardinalityType, FS_EmptySet
<1>6. QED
  BY <1>2, <1>3, <1>5

LEMMA LearnedIs ==
    ASSUME CapacityInv, NEW l, NEW field \in {"five", "weekly"}
    PROVE  Learned(l, field) \in Nat
<1> DEFINE E == {f \in limits : f.lane = l /\ f.scope = Account}
           f == [e \in E |-> e[field]]
           T == {e[field] : e \in E}
           S == {0} \cup T
<1>1. IsFiniteSet(E)
  BY FS_Subset DEF CapacityInv
<1>2. \A e \in E : e.five \in Nat /\ e.weekly \in Nat
  BY LimitFacts DEF CapacityInv
<1>3. T \subseteq Nat
  BY <1>2
<1>4. IsFiniteSet(T)
  <2>1. f \in Surjection(E, T)
    BY DEF Surjection
  <2>2. QED
    BY <1>1, <2>1, FS_Surjection
<1>5. Learned(l, field) = Max(S)
  BY DEF Learned
<1> HIDE DEF T
<1>6. IsFiniteSet(S) /\ S # {} /\ S \subseteq Int /\ S \subseteq Nat
  <2>1. IsFiniteSet({0})
    BY FS_Singleton
  <2>2. IsFiniteSet({0} \cup T)
    BY <1>4, <2>1, FS_Union
  <2>3. QED
    BY <1>3, <2>2
<1> HIDE DEF S
<1>7. QED
  BY <1>5, <1>6, GreatestInt

(* A live probe, or what stands for one.                                    *)
LiveRows(x) ==
    [five: Percent, weekly: Percent, fiveReset: Nat, weeklyReset: Nat,
     windows: [Models -> Percent], scoped: [Models -> Percent], critical: {x.critical},
     probe: {x.probe}, status: {x.status}, until: Nat]

LEMMA LoginRowIs ==
    ASSUME NEW p \in LoginProbes, NEW t \in Nat
    PROVE  LoginRow(p, t) \in LiveRows(LoginRow(p, t))
<1>1. /\ p.five \in Percent /\ p.fiveReset \in Nat
      /\ p.weekly \in Percent /\ p.weeklyReset \in Nat
      /\ p.windows \in [Models -> Percent] /\ p.scoped \in [Models -> Percent]
  BY CapacityAssumption
<1>2. WindowLimit(p, t) \in Nat
  BY <1>1, WindowLimitIs
<1> DEFINE status == IF p.status = "ok" /\ Score(p.five, p.weekly) = 0
                     THEN "exhausted" ELSE p.status
           until == IF status \in Limited THEN WindowLimit(p, t) ELSE 0
<1>3. until \in Nat
  BY <1>2
<1>4. LoginRow(p, t) = [five |-> p.five, weekly |-> p.weekly, fiveReset |-> p.fiveReset,
        weeklyReset |-> p.weeklyReset, windows |-> p.windows,
        scoped |-> p.scoped, critical |-> p.critical, probe |-> p.status,
        status |-> status, until |-> until]
  BY DEF LoginRow
<1> HIDE DEF status, until
<1>5. QED
  BY <1>1, <1>3, <1>4 DEF LiveRows

LEMMA UnprobedIs == Unprobed \in LiveRows(Unprobed) /\ Unprobed.probe = None
BY DEF Unprobed, LiveRows, NoBuckets, Percent

(* What a lane has used: the probe's word, or a ratio of its own tokens.    *)
LEMMA ReadingsAre ==
    ASSUME CapacityInv, NEW l, NEW live, live \in LiveRows(live)
    PROVE  /\ Readings(l, live).five \in Percent /\ Readings(l, live).weekly \in Percent
           /\ live.probe # "ok" =>
                 /\ Readings(l, live).five = Ratio(Sum(l, FiveHours), Learned(l, "five"))
                 /\ Readings(l, live).weekly = Ratio(Sum(l, SevenDays), Learned(l, "weekly"))
<1> DEFINE Of(used, window, field) ==
               IF live.probe = "ok" /\ used # Unknown THEN used
               ELSE Ratio(Sum(l, window), Learned(l, field))
           five == Of(live.five, FiveHours, "five")
           weekly == Of(live.weekly, SevenDays, "weekly")
<1>1. /\ Ratio(Sum(l, FiveHours), Learned(l, "five")) \in Percent
      /\ Ratio(Sum(l, SevenDays), Learned(l, "weekly")) \in Percent
  BY SumIs, LearnedIs, RatioIs
<1>2. live.five \in Percent /\ live.weekly \in Percent
  BY DEF LiveRows
<1>3. five \in Percent /\ weekly \in Percent
  BY <1>1, <1>2
<1>4. Readings(l, live) = [live EXCEPT !.five = five, !.weekly = weekly]
  BY DEF Readings, LiveRows
<1>5. live.probe # "ok" => /\ five = Ratio(Sum(l, FiveHours), Learned(l, "five"))
                           /\ weekly = Ratio(Sum(l, SevenDays), Learned(l, "weekly"))
  OBVIOUS
<1> HIDE DEF five, weekly
<1>6. Readings(l, live).five = five /\ Readings(l, live).weekly = weekly
  BY <1>4 DEF LiveRows
<1>7. QED
  BY <1>3, <1>5, <1>6

-----------------------------------------------------------------------------
(* The row of a lane *)

(* The models that some limit of the lane names.                            *)
Named(l) == {e.scope : e \in {f \in limits : f.lane = l}} \ {Account}

(* A lane that may be picked is enrolled, rests from nothing and has enough *)
(* left; one that is out of tokens has not.                                 *)
RowSound(row, l) ==
    /\ row.enrolled <=> l \in enrolled
    /\ row.dispatchable <=> row.status = "ok"
    /\ row.five \in Percent /\ row.weekly \in Percent
    /\ row.windows \in [Models -> Percent] /\ row.scoped \in [Models -> Percent]
    /\ \A s \in Scopes :
          row.cooled[s] = IF s \in Named(l) THEN ModelCooldown(l, s)
                          ELSE Future(cooldown[l][s], now)
    /\ row.status = "ok" =>
          /\ l \in enrolled
          /\ row.score = Score(row.five, row.weekly)
          /\ row.cooled[Account] = 0 /\ HardLimitUntil(l, Account) = 0
    /\ row.status = "exhausted" /\ l \in enrolled =>
          ~Enough(Score(row.five, row.weekly))

(* What is known of a lane that is not the desktop login.                   *)
RowUnprobed(row, l, c) ==
    /\ row.five = Ratio(Sum(l, FiveHours), Learned(l, "five"))
    /\ row.weekly = Ratio(Sum(l, SevenDays), Learned(l, "weekly"))
    /\ row.windows = NoBuckets /\ row.scoped = NoBuckets /\ row.critical = {}
    /\ /\ l \in enrolled /\ l \in c.secrets
       /\ row.cooled[Account] = 0 /\ HardLimitUntil(l, Account) = 0
       /\ Enough(Score(row.five, row.weekly))
       => row.status = "ok"

(* The end of an account's rest is the greatest of its three.               *)
LEMMA RestIs ==
    ASSUME NEW a \in Nat, NEW b \in Nat, NEW d \in Nat
    PROVE  /\ Max({a, b, d}) \in {a, b, d}
           /\ a <= Max({a, b, d}) /\ b <= Max({a, b, d}) /\ d <= Max({a, b, d})
<1> DEFINE S == {a, b, d}
<1>1. S # {} /\ S \subseteq Int /\ a \in S /\ b \in S /\ d \in S
  OBVIOUS
<1>2. IsFiniteSet(S)
  BY FiniteFew
<1>3. Max(S) \in S /\ \A y \in S : y <= Max(S)
  <2> HIDE DEF S
  <2>1. QED
    BY <1>1, <1>2, GreatestInt
<1>4. QED
  BY <1>1, <1>3

LEMMA RowIs ==
    ASSUME CapacityInv, NEW l \in Lanes, NEW c \in Caches
    PROVE  /\ RowSound(ClaudeRow(l, c), l)
           /\ l # c.login => RowUnprobed(ClaudeRow(l, c), l, c)
<1> DEFINE active == l = c.login
           live == IF active THEN LoginRow(c.live, c.at) ELSE Unprobed
           read == IF l \in enrolled \/ ~active THEN Readings(l, live) ELSE live
           known == Named(l)
           cooled == [s \in Scopes |-> IF s \in known THEN ModelCooldown(l, s)
                                       ELSE Future(cooldown[l][s], now)]
           until == Max({cooled[Account], HardLimitUntil(l, Account), Future(live.until, now)})
           score == Score(read.five, read.weekly)
           status == IF l \notin enrolled
                     THEN IF active /\ live.status # "ok" THEN live.status ELSE "not-enrolled"
                     ELSE IF l \notin c.secrets THEN "secret-missing"
                     ELSE IF until # 0 \/ live.probe = "rate-limited" THEN "limited"
                     ELSE IF ~Enough(score) THEN "exhausted" ELSE "ok"
           rest == IF status = "exhausted" /\ until = 0 THEN WindowLimit(read, now) ELSE until
           left == IF status \in Limited THEN 0 ELSE score
           open == status = "ok"
           named == l \in enrolled
           row == [active |-> active, enrolled |-> named, status |-> status,
                   five |-> read.five, weekly |-> read.weekly, windows |-> live.windows,
                   scoped |-> live.scoped, critical |-> live.critical, cooled |-> cooled,
                   until |-> rest, score |-> left, dispatchable |-> open]
<1>1. ClaudeRow(l, c) = row
  BY DEF ClaudeRow, Named
<1>2. live \in LiveRows(live)
  <2>1. c.live \in LoginProbes /\ c.at \in Nat
    BY TimeFacts DEF Caches, CapacityInv
  <2>2. QED
    BY <2>1, LoginRowIs, UnprobedIs
<1>3. ~active => live = Unprobed
  OBVIOUS
<1>4. ~active => /\ live.windows = NoBuckets /\ live.scoped = NoBuckets
                 /\ live.critical = {} /\ live.until = 0 /\ live.probe = None
  BY <1>3 DEF Unprobed
<1>5. \A s \in Scopes : cooled[s] = IF s \in known THEN ModelCooldown(l, s)
                                    ELSE Future(cooldown[l][s], now)
  OBVIOUS
<1>6. Account \in Scopes /\ Account \notin known
  BY DEF Scopes, Named
<1> HIDE DEF live, cooled, known
<1>7. /\ live.windows \in [Models -> Percent] /\ live.scoped \in [Models -> Percent]
      /\ live.five \in Percent /\ live.weekly \in Percent /\ live.until \in Nat
  BY <1>2 DEF LiveRows
<1>8. read.five \in Percent /\ read.weekly \in Percent
  BY <1>2, <1>7, ReadingsAre
<1>9. ~active => /\ read.five = Ratio(Sum(l, FiveHours), Learned(l, "five"))
                 /\ read.weekly = Ratio(Sum(l, SevenDays), Learned(l, "weekly"))
  <2>1. ~active => live.probe # "ok"
    BY <1>4 DEF None
  <2>2. QED
    BY <1>2, <2>1, ReadingsAre
<1> HIDE DEF read
<1>10. /\ cooled[Account] \in Nat /\ HardLimitUntil(l, Account) \in Nat
       /\ Future(live.until, now) \in Nat
  <2>1. cooled[Account] = Future(cooldown[l][Account], now)
    BY <1>5, <1>6
  <2>2. cooldown[l][Account] \in Nat /\ TypeOK
    BY <1>6, TimeFacts DEF CapacityInv, Ends
  <2>3. HardLimitUntil(l, Account) \in Nat
    BY <1>6, <2>2, HardLimitIs, TimeFacts
  <2>4. QED
    BY <1>7, <2>1, <2>2, <2>3, FutureIs
<1>11. until = 0 => cooled[Account] = 0 /\ HardLimitUntil(l, Account) = 0
  BY <1>10, RestIs
<1>12. ~active /\ cooled[Account] = 0 /\ HardLimitUntil(l, Account) = 0 => until = 0
  <2>1. ~active => Future(live.until, now) = 0
    BY <1>4, TimeFacts DEF Future, CapacityInv
  <2>2. QED
    BY <1>10, <2>1, RestIs
<1> HIDE DEF until, score
<1>13. /\ status = "ok" => /\ named /\ until = 0 /\ left = score
       /\ status = "exhausted" /\ named => ~Enough(score)
  BY DEF Limited
<1>14. ~active /\ named /\ l \in c.secrets /\ until = 0 /\ Enough(score) => status = "ok"
  BY <1>4 DEF None
<1>15. score = Score(read.five, read.weekly)
  BY DEF score
<1> HIDE DEF status, left, rest
<1>16. open <=> status = "ok"
  OBVIOUS
<1>17. named <=> l \in enrolled
  OBVIOUS
<1> DEFINE r == ClaudeRow(l, c)
<1>18. /\ r.active = active /\ r.enrolled = named /\ r.status = status
       /\ r.five = read.five /\ r.weekly = read.weekly /\ r.windows = live.windows
       /\ r.scoped = live.scoped /\ r.critical = live.critical /\ r.cooled = cooled
       /\ r.score = left /\ r.dispatchable = open
  BY <1>1
<1> HIDE DEF r
<1>19. RowSound(r, l)
  <2>1. r.enrolled <=> l \in enrolled
    BY <1>18
  <2>2. r.dispatchable <=> r.status = "ok"
    BY <1>18
  <2>3. /\ r.five \in Percent /\ r.weekly \in Percent
        /\ r.windows \in [Models -> Percent] /\ r.scoped \in [Models -> Percent]
    BY <1>7, <1>8, <1>18
  <2>4. \A s \in Scopes : r.cooled[s] = IF s \in Named(l) THEN ModelCooldown(l, s)
                                        ELSE Future(cooldown[l][s], now)
    BY <1>5, <1>18 DEF known
  <2>5. r.status = "ok" => /\ l \in enrolled
                           /\ r.score = Score(r.five, r.weekly)
                           /\ r.cooled[Account] = 0 /\ HardLimitUntil(l, Account) = 0
    BY <1>11, <1>13, <1>15, <1>18
  <2>6. r.status = "exhausted" /\ l \in enrolled => ~Enough(Score(r.five, r.weekly))
    BY <1>13, <1>15, <1>18
  <2>7. QED
    BY <2>1, <2>2, <2>3, <2>4, <2>5, <2>6 DEF RowSound
<1>20. l # c.login => RowUnprobed(r, l, c)
  BY <1>4, <1>9, <1>12, <1>14, <1>15, <1>18 DEF RowUnprobed
<1>21. QED
  BY <1>19, <1>20 DEF r

-----------------------------------------------------------------------------
(* Refusals stand *)

(* A limit that still stands is in the ledger's word on its scope.          *)
LEMMA BackedStands ==
    ASSUME CapacityInv, NEW l \in Lanes, NEW s \in Scopes, Backed(l, s), rests[l][s] > now
    PROVE  /\ HardLimitUntil(l, s) # 0
           /\ \E e \in limits : e.lane = l /\ e.scope = s
<1>1. PICK e \in limits : e.lane = l /\ e.scope = s /\ rests[l][s] <= Lasts(e)
  BY DEF Backed
<1>2. TypeOK
  BY DEF CapacityInv
<1>3. /\ Lasts(e) \in 0..LastTime /\ Stands(e) \in 0..LastTime
      /\ Lasts(e) > now => Stands(e) # 0
  BY <1>2, LimitFacts
<1>4. rests[l][s] \in 0..LastTime /\ now \in Nat /\ LastTime \in Nat
  BY <1>2, TimeFacts DEF Ends
<1>5. Lasts(e) > now
  BY <1>1, <1>3, <1>4
<1>6. HardLimitUntil(l, s) \in 0..LastTime /\ Stands(e) <= HardLimitUntil(l, s)
  BY <1>1, <1>2, HardLimitIs
<1>7. QED
  BY <1>1, <1>3, <1>4, <1>5, <1>6

LEMMA RefusedLane ==
    ASSUME CapacityInv, NEW l \in Lanes, NEW m \in Models, Standing(l, m),
           NEW row, RowSound(row, l)
    PROVE  ~DispatchableFor(row, m)
<1> SUFFICES ASSUME DispatchableFor(row, m) PROVE FALSE
  OBVIOUS
<1>1. /\ row.status = "ok" /\ row.cooled[m] = 0 /\ row.cooled[Account] = 0
      /\ HardLimitUntil(l, Account) = 0
  BY DEF DispatchableFor, RowSound
<1>2. /\ Account \in Scopes /\ m \in Scopes /\ m # Account /\ TypeOK
      /\ now \in Nat /\ LaneSound(l)
  BY CapacityAssumption, TimeFacts DEF CapacityInv
<1>3. /\ cooldown[l][Account] \in Nat /\ cooldown[l][m] \in Nat
      /\ rests[l][Account] \in Nat /\ rests[l][m] \in Nat
  BY <1>2, TimeFacts DEF Ends
<1>4. CASE rests[l][m] > now
  <2>1. Backed(l, m)
    BY <1>2, <1>3, <1>4 DEF LaneSound
  <2>2. /\ HardLimitUntil(l, m) # 0
        /\ \E e \in limits : e.lane = l /\ e.scope = m
    BY <1>2, <1>4, <2>1, BackedStands
  <2>3. m \in Named(l)
    BY <1>2, <2>2 DEF Named
  <2>4. row.cooled[m] = Later(Future(cooldown[l][m], now), HardLimitUntil(l, m))
    BY <1>2, <2>3 DEF RowSound, ModelCooldown
  <2>5. Future(cooldown[l][m], now) \in Nat /\ HardLimitUntil(l, m) \in Nat
    BY <1>2, <1>3, FutureIs, HardLimitIs, TimeFacts
  <2>6. QED
    BY <1>1, <2>2, <2>4, <2>5 DEF Later
<1>5. CASE rests[l][Account] > now
  <2>1. ~Backed(l, Account)
    BY <1>1, <1>2, <1>5, BackedStands
  <2>2. cooldown[l][Account] > now
    BY <1>2, <1>3, <1>5, <2>1 DEF LaneSound
  <2>3. row.cooled[Account] = Future(cooldown[l][Account], now)
    BY <1>2 DEF RowSound, Named
  <2>4. QED
    BY <1>1, <1>2, <1>3, <2>2, <2>3, FutureIs
<1>6. QED
  BY <1>4, <1>5 DEF Standing

LEMMA RefusedHome ==
    ASSUME CapacityInv, NEW h \in Homes, Standing(h, Account)
    PROVE  ShortWindow(h) # 0
<1>1. /\ TypeOK /\ rests[h][Account] > now /\ HomeSound(h) /\ now \in Nat
  BY TimeFacts DEF CapacityInv, Standing
<1>2. cooldown[h][Account] \in Nat /\ rests[h][Account] \in Nat
  BY <1>1, TimeFacts DEF Ends
<1>3. cooldown[h][Account] > now
  BY <1>1, <1>2 DEF HomeSound
<1>4. Future(cooldown[h][Account], now) # 0
  BY <1>1, <1>2, <1>3, FutureIs
<1>5. errors[h].reset > now => errors[h].reset # 0
  BY <1>1
<1>6. QED
  BY <1>4, <1>5 DEF ShortWindow

LEMMA InvStands == CapacityInv => LimitStands
<1> SUFFICES ASSUME CapacityInv, NEW force \in BOOLEAN
             PROVE  LET report == Report(Used(force))
                    IN /\ \A l \in Lanes, m \in Models :
                             Standing(l, m) => ~DispatchableFor(report.claude[l], m)
                       /\ \A h \in Homes : Standing(h, Account) => ~report.codex[h].dispatchable
  BY DEF LimitStands
<1> DEFINE c == Used(force)
<1>1. c \in Caches
  BY UsedIs DEF CapacityInv
<1> HIDE DEF c
<1>2. ASSUME NEW l \in Lanes, NEW m \in Models, Standing(l, m)
      PROVE  ~DispatchableFor(ClaudeRow(l, c), m)
  BY <1>1, <1>2, RowIs, RefusedLane
<1>3. ASSUME NEW h \in Homes, Standing(h, Account)
      PROVE  ~Gated(CodexRow(c.homes[h], c.at), ShortWindow(h)).dispatchable
  BY <1>3, RefusedHome DEF Gated
<1>4. QED
  BY <1>2, <1>3 DEF Report, c

(* A recorded refusal keeps its lane from every report until its reset,     *)
(* whatever is cached or recorded after it, and no new token lifts it.      *)
THEOREM RefusalsStand == Spec => []LimitStands
BY Invariance, InvStands, PTL

-----------------------------------------------------------------------------
(* The gates agree *)

LEMMA LaneGates ==
    ASSUME NEW l \in Lanes, NEW m \in Models, NEW row, RowSound(row, l)
    PROVE  /\ DispatchableFor(row, m) <=> row.enrolled /\ ModelState(row, m) = "ok"
           /\ DispatchableFor(row, m) <=> PickKeeps(row, m)
<1>1. /\ row.dispatchable <=> row.status = "ok"
      /\ row.status = "ok" => row.enrolled /\ row.score = Score(row.five, row.weekly)
      /\ row.status = "exhausted" /\ row.enrolled => ~Enough(Score(row.five, row.weekly))
  BY DEF RowSound
<1>2. /\ row.five \in Percent /\ row.weekly \in Percent
      /\ row.windows[m] \in Percent /\ row.scoped[m] \in Percent
  BY DEF RowSound
<1>3. /\ Left(row.five) \in Scored /\ Left(row.weekly) \in Scored
      /\ Left(row.windows[m]) \in Scored /\ Left(row.scoped[m]) \in Scored
  BY <1>2, LeftIs
<1> DEFINE four == {row.five, row.weekly, row.windows[m], row.scoped[m]}
           left == {Left(u) : u \in four}
           score == Score(row.five, row.weekly)
<1>4. left = {Left(row.five), Left(row.weekly), Left(row.windows[m]), Left(row.scoped[m])}
  OBVIOUS
<1> HIDE DEF left
<1>5. Enough(Worst(left)) <=> /\ Enough(Left(row.five)) /\ Enough(Left(row.weekly))
                              /\ Enough(Left(row.windows[m])) /\ Enough(Left(row.scoped[m]))
  <2>1. left \subseteq Scored
    BY <1>3, <1>4
  <2>2. Enough(Worst(left)) <=> \A x \in left : Enough(x)
    BY <2>1, WorstIs
  <2>3. QED
    BY <1>4, <2>2
<1>6. /\ score \in Scored
      /\ Enough(score) <=> Enough(Left(row.five)) /\ Enough(Left(row.weekly))
  BY <1>2, ScoreIs
<1> HIDE DEF score
<1>7. row.score = score =>
         (Enough(ModelHeadroom(row, m)) <=>
             /\ Enough(score) /\ Enough(Left(row.windows[m])) /\ Enough(Left(row.scoped[m])))
  <2> DEFINE three == {row.score, Left(row.windows[m]), Left(row.scoped[m])}
  <2>1. row.score = score => three \subseteq Scored
    BY <1>3, <1>6
  <2>2. row.score = score => (Enough(Worst(three)) <=> \A x \in three : Enough(x))
    BY <2>1, WorstIs
  <2>3. ModelHeadroom(row, m) = Worst(three)
    BY DEF ModelHeadroom
  <2>4. QED
    BY <2>2, <2>3
<1>8. PickKeeps(row, m) <=>
         /\ row.enrolled
         /\ row.status \in {"ok", "exhausted"}
         /\ Enough(Worst(left))
         /\ ~(row.status = "exhausted" /\ score = Unknown)
         /\ ModelState(row, m) \in {"ok", "exhausted"}
  BY DEF PickKeeps, left, score
<1>9. row.score = score \/ row.status # "ok"
  BY <1>1 DEF score
<1>10. row.status = "exhausted" /\ row.enrolled => ~Enough(score)
  BY <1>1 DEF score
<1>11. DispatchableFor(row, m) <=> row.enrolled /\ ModelState(row, m) = "ok"
  BY <1>1 DEF DispatchableFor, ModelState
<1>12. row.status = "ok" =>
          (DispatchableFor(row, m) <=> PickKeeps(row, m))
  BY <1>1, <1>5, <1>6, <1>7, <1>8, <1>9 DEF DispatchableFor, ModelState
<1>13. row.status # "ok" => ~DispatchableFor(row, m) /\ ~PickKeeps(row, m)
  BY <1>1, <1>5, <1>6, <1>8, <1>10 DEF DispatchableFor
<1>14. QED
  BY <1>11, <1>12, <1>13

LEMMA InvGates == CapacityInv => GatesAgree
<1> SUFFICES ASSUME CapacityInv, NEW force \in BOOLEAN, NEW l \in Lanes, NEW m \in Models
             PROVE  LET row == Report(Used(force)).claude[l]
                    IN /\ DispatchableFor(row, m) <=> row.enrolled /\ ModelState(row, m) = "ok"
                       /\ DispatchableFor(row, m) <=> PickKeeps(row, m)
  BY DEF GatesAgree
<1> DEFINE row == ClaudeRow(l, Used(force))
<1>1. Report(Used(force)).claude[l] = row
  BY DEF Report
<1>2. RowSound(row, l)
  BY UsedIs, RowIs DEF CapacityInv
<1> HIDE DEF row
<1>3. QED
  BY <1>1, <1>2, LaneGates

(* `subfleet run`, the state that a report prints and `subfleet pick`: the  *)
(* three gates agree on every lane and model of every report.               *)
THEOREM OneGate == Spec => []GatesAgree
BY Invariance, InvGates, PTL

-----------------------------------------------------------------------------
(* No lane is lost *)

(* Once the refusals of a lane are forgotten nothing of them is left.       *)
LEMMA ForgottenRests ==
    ASSUME CapacityInv, NEW l \in Lanes, NEW m \in Models, Forgotten(l, m)
    PROVE  /\ HardLimitUntil(l, m) = 0 /\ HardLimitUntil(l, Account) = 0
           /\ Future(cooldown[l][m], now) = 0 /\ Future(cooldown[l][Account], now) = 0
<1>1. /\ Account \in Scopes /\ m \in Scopes /\ TypeOK
      /\ now \in Nat /\ LastTime \in Nat /\ LaneSound(l)
  BY TimeFacts DEF CapacityInv
<1>2. /\ cooldown[l][Account] \in Nat /\ cooldown[l][m] \in Nat
      /\ rests[l][Account] \in Nat /\ rests[l][m] \in Nat
  BY <1>1, TimeFacts DEF Ends
<1>3. \A e \in limits : e.lane = l /\ e.scope \in {m, Account} => Lasts(e) <= now
  BY DEF Forgotten, Lasts
<1>4. \A e \in limits : e.lane = l /\ e.scope \in {m, Account} => Stands(e) = 0
  <2>1. ASSUME NEW e \in limits, e.lane = l, e.scope \in {m, Account}
        PROVE  Stands(e) = 0
    <3>1. Lasts(e) \in 0..LastTime /\ (Lasts(e) > now <=> Stands(e) # 0)
      BY <1>1, LimitFacts
    <3>2. Lasts(e) <= now
      BY <1>3, <2>1
    <3>3. QED
      BY <1>1, <3>1, <3>2
  <2>2. QED
    BY <2>1
<1>5. HardLimitUntil(l, m) = 0 /\ HardLimitUntil(l, Account) = 0
  BY <1>1, <1>4, HardLimitIs
<1>6. rests[l][m] <= now
  <2>1. CASE rests[l][m] = 0
    BY <1>1, <2>1
  <2>2. CASE Backed(l, m)
    <3>1. PICK e \in limits : e.lane = l /\ e.scope = m /\ rests[l][m] <= Lasts(e)
      BY <2>2 DEF Backed
    <3>2. Lasts(e) <= now /\ Lasts(e) \in 0..LastTime
      BY <1>1, <1>3, <3>1, LimitFacts
    <3>3. QED
      BY <1>1, <1>2, <3>1, <3>2
  <2>3. QED
    BY <1>1, <2>1, <2>2 DEF LaneSound
<1>7. cooldown[l][m] <= now /\ cooldown[l][Account] <= now
  BY <1>1, <1>2, <1>6 DEF LaneSound, Forgotten
<1>8. QED
  BY <1>1, <1>2, <1>5, <1>7 DEF Future

(* What is not in the weekly window is not in the shorter one either.       *)
LEMMA ForgottenTokens ==
    ASSUME CapacityInv, NEW l \in Lanes, NEW m \in Models, Forgotten(l, m)
    PROVE  Sum(l, FiveHours) = 0 /\ Sum(l, SevenDays) = 0
<1>1. FiveHours \in Nat /\ SevenDays \in Nat /\ FiveHours <= SevenDays /\ now \in Nat
  BY CapacityAssumption, TimeFacts DEF CapacityInv
<1>2. \A u \in uses : u.at \in Nat
  BY TimeFacts DEF CapacityInv, TypeOK
<1>3. \A u \in uses : u.lane = l => u.at + SevenDays < now
  BY DEF Forgotten
<1>4. \A u \in uses : u.lane = l => /\ ~(u.at + SevenDays >= now)
                                    /\ ~(u.at + FiveHours >= now)
  BY <1>1, <1>2, <1>3
<1>5. QED
  BY <1>4, SumIs

LEMMA FreshIsEnough ==
    ASSUME NEW used \in {0, Unknown}
    PROVE  Enough(Left(used))
<1>1. Full \in Nat /\ MinHeadroom \in 1..Full
  BY LanesAssumption
<1>2. used \in Percent
  BY DEF Percent
<1>3. Left(used) \in {Full, Unknown}
  BY <1>2, LeftIs
<1>4. QED
  BY <1>1, <1>3 DEF Enough, Unknown

LEMMA OpenLane ==
    ASSUME CapacityInv, NEW l \in enrolled, NEW m \in Models, Forgotten(l, m),
           NEW c \in Caches, l \in c.secrets, l # c.login,
           NEW row, RowSound(row, l), RowUnprobed(row, l, c)
    PROVE  DispatchableFor(row, m)
<1>1. l \in Lanes /\ m \in Scopes /\ Account \in Scopes /\ m # Account
  BY CapacityAssumption, TimeFacts DEF CapacityInv, TypeOK
<1>2. /\ HardLimitUntil(l, m) = 0 /\ HardLimitUntil(l, Account) = 0
      /\ Future(cooldown[l][m], now) = 0 /\ Future(cooldown[l][Account], now) = 0
  BY <1>1, ForgottenRests
<1>3. row.cooled[m] = 0 /\ row.cooled[Account] = 0
  <2>1. ModelCooldown(l, m) = 0
    BY <1>2 DEF ModelCooldown, Later
  <2>2. Account \notin Named(l)
    BY DEF Named
  <2>3. QED
    BY <1>1, <1>2, <2>1, <2>2 DEF RowSound
<1>4. row.five \in {0, Unknown} /\ row.weekly \in {0, Unknown}
  <2>1. Learned(l, "five") \in Nat /\ Learned(l, "weekly") \in Nat
    BY LearnedIs
  <2>2. Sum(l, FiveHours) = 0 /\ Sum(l, SevenDays) = 0
    BY <1>1, ForgottenTokens
  <2>3. /\ Ratio(0, Learned(l, "five")) \in {0, Unknown}
        /\ Ratio(0, Learned(l, "weekly")) \in {0, Unknown}
    BY <2>1, RatioIs
  <2>4. QED
    BY <2>2, <2>3 DEF RowUnprobed
<1>5. /\ Enough(Left(row.five)) /\ Enough(Left(row.weekly)) /\ Enough(Left(Unknown))
      /\ row.five \in Percent /\ row.weekly \in Percent
  BY <1>4, FreshIsEnough DEF RowSound
<1>6. Enough(Score(row.five, row.weekly)) /\ Score(row.five, row.weekly) \in Scored
  BY <1>5, ScoreIs
<1>7. row.status = "ok"
  BY <1>2, <1>3, <1>6 DEF RowUnprobed
<1>8. row.dispatchable /\ row.score = Score(row.five, row.weekly)
  BY <1>7 DEF RowSound
<1>9. row.windows[m] = Unknown /\ row.scoped[m] = Unknown /\ row.critical = {}
  BY DEF RowUnprobed, NoBuckets
<1>10. ~ScopedExhausted(row, m)
  <2>1. Full \in Nat
    BY LanesAssumption
  <2>2. QED
    BY <1>9, <2>1 DEF ScopedExhausted, Unknown
<1>11. Enough(ModelHeadroom(row, m))
  <2> DEFINE three == {row.score, Left(row.windows[m]), Left(row.scoped[m])}
  <2>1. Left(Unknown) \in Scored
    BY LeftIs DEF Percent
  <2>2. three \subseteq Scored /\ \A x \in three : Enough(x)
    BY <1>5, <1>6, <1>8, <1>9, <2>1
  <2>3. ModelHeadroom(row, m) = Worst(three)
    BY DEF ModelHeadroom
  <2> HIDE DEF three
  <2>4. QED
    BY <2>2, <2>3, WorstIs
<1>12. QED
  BY <1>3, <1>8, <1>10, <1>11 DEF DispatchableFor

LEMMA InvOpen == CapacityInv => NeverLockedOut
<1> SUFFICES ASSUME CapacityInv, NEW force \in BOOLEAN, NEW l \in enrolled, NEW m \in Models
             PROVE  LET used == Used(force)
                    IN Forgotten(l, m) /\ l \in used.secrets /\ l # used.login
                       => DispatchableFor(Report(used).claude[l], m)
  BY DEF NeverLockedOut
<1> DEFINE c == Used(force)
           row == ClaudeRow(l, c)
<1>1. c \in Caches /\ l \in Lanes
  BY UsedIs DEF CapacityInv, TypeOK
<1>2. Report(c).claude[l] = row
  BY <1>1 DEF Report
<1> HIDE DEF c
<1>3. RowSound(row, l) /\ (l # c.login => RowUnprobed(row, l, c))
  BY <1>1, RowIs
<1> HIDE DEF row
<1>4. Forgotten(l, m) /\ l \in c.secrets /\ l # c.login => DispatchableFor(row, m)
  BY <1>1, <1>3, OpenLane
<1>5. QED
  BY <1>2, <1>4 DEF c

(* A lane whose refusals have ended and whose tokens have left the weekly   *)
(* window serves a model again, whatever window sizes were learned.         *)
THEOREM LanesReopen == Spec => []NeverLockedOut
BY Invariance, InvOpen, PTL

================================================================================
