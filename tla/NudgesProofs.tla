----------------------------- MODULE NudgesProofs -----------------------------
(***************************************************************************)
(* Theorems about the nudges and revives, for any sessions, slots, passes, *)
(* thresholds and bounds.                                                  *)
(***************************************************************************)
EXTENDS Nudges, FiniteSetTheorems, TLAPS

KeyNow(s) == Key(transcript[s])

(* No record, and no copy of one, names an entry beyond the key of now.     *)
KeyedBy(r, s) == r.last <= KeyNow(s) /\ r.revived <= KeyNow(s)
Keyed ==
    /\ \A s \in Sessions : KeyedBy(record[s], s)
    /\ \A w \in Slots : KeyedBy(slot[w].copy, slot[w].s) /\ slot[w].key <= KeyNow(slot[w].s)
    /\ \A p \in Passes : KeyedBy(pass[p].copy, pass[p].s) /\ pass[p].key <= KeyNow(pass[p].s)

(* As long as nothing raced, what is loaded is not ahead of the record ...  *)
LoadedOK(s) ==
    /\ \A w \in Slots : slot[w].s = s =>
          /\ slot[w].copy.revived <= record[s].revived
          /\ slot[w].at # "saving" => slot[w].copy.last <= record[s].last
    /\ \A p \in Passes : pass[p].s = s =>
          /\ pass[p].copy.revived <= record[s].revived
          /\ pass[p].copy.last <= record[s].last

(* ... one slot at most has decided to nudge, what it will record covers    *)
(* the last nudge, and without it the record does.                          *)
Nudger(w, s) == w \in Committed(s)
NudgerOK(w, s) ==
    IF slot[w].at = "saving" THEN nudged[s] <= slot[w].copy.last ELSE nudged[s] < slot[w].key
NudgeOK(s) ==
    /\ \A v, w \in Slots : Nudger(v, s) /\ Nudger(w, s) => v = w
    /\ \A w \in Slots : Nudger(w, s) => NudgerOK(w, s)
    /\ (\A w \in Slots : slot[w].s = s => slot[w].at # "saving") => nudged[s] <= record[s].last
    /\ ~twice[s]

(* ... and the record, or the pass that is about to write it, covers the    *)
(* last revive.                                                             *)
ReviveOK(s) ==
    /\ \/ again[s].key <= record[s].revived
       \/ \E p \in Passes : /\ pass[p].at = "recording" /\ pass[p].s = s
                            /\ again[s].key <= pass[p].key
    /\ \A p \in Passes : pass[p].s = s /\ pass[p].at \in {"probing", "launching"} =>
          pass[p].key > record[s].revived
    /\ ~again[s].twice

Unraced == \A s \in Sessions : ~raced[s] => LoadedOK(s) /\ NudgeOK(s) /\ ReviveOK(s)

(* One pass at a time, which looked before it launches.                     *)
Locked == \A p \in Passes : pass[p].at # "idle" => lock = p
Batched ==
    /\ OneRevive
    /\ \A p \in Passes : pass[p].at = "launching" =>
          /\ live[pass[p].s] = 0
          /\ Cardinality(Detached) + pass[p].launched < MaxBatch

(* A retirement is on record until a save drops it, and the rows of a pass  *)
(* were not retired, or it was dropped.                                     *)
OnHand(p) ==
    pass[p].rows \cup (IF pass[p].at \in {"probing", "launching"} THEN {pass[p].s} ELSE {})
RetiredOK ==
    /\ \A s \in Sessions : ~erased[s] =>
          /\ retiree[s] = "retired" => record[s].retired
          /\ retiree[s] # "revived"
    /\ \A w \in Slots : slot[w].mode = "retire" =>
          slot[w].copy.retired /\ slot[w].at = "skipping"
    /\ \A p \in Passes : \A s \in pass[p].retired \cap OnHand(p) : erased[s]

(* Every key on record was tried; a hook is on its way, or its restart was  *)
(* seen to.                                                                 *)
TriedBy(r, s) == r.last = 0 \/ r.last \in tried[s]
Trying ==
    /\ \A s \in Sessions : TriedBy(record[s], s)
    /\ \A w \in Slots : TriedBy(slot[w].copy, slot[w].s)
    /\ \A p \in Passes : TriedBy(pass[p].copy, pass[p].s)

OnItsWay(w, s) ==
    /\ slot[w].s = s /\ slot[w].mode = "hook"
    /\ (slot[w].at = "noting" /\ slot[w].go) \/ slot[w].at = "waiting"
SeenTo(s) ==
    /\ ~owed[s]
    /\ transcript[s][Len(transcript[s])] = "stub" => KeyNow(s) \in tried[s]
Restarted ==
    \A s \in Sessions : up[s] /\ ~excused[s] =>
        SeenTo(s) \/ \E w \in Slots : OnItsWay(w, s)

IInv == /\ TypeOK /\ Keyed /\ Unraced /\ Locked /\ Batched /\ RetiredOK /\ Trying /\ Restarted

-----------------------------------------------------------------------------
(* The largest of a set of numbers, which its transcript's keys are.        *)
LEMMA MaxOf ==
    ASSUME NEW n \in Nat, NEW S \in SUBSET (0..n), S # {}
    PROVE  Max(S) \in S /\ \A y \in S : y <= Max(S)
<1> DEFINE Above(x) == {y \in S : y > x}
           T == {Above(x) : x \in S}
           R == StrictSubsetOrdering(S)
<1>1. IsFiniteSet(S)
  <2>1. 0 \in Int /\ n \in Int
    OBVIOUS
  <2>2. IsFiniteSet(0..n)
    BY <2>1, FS_Interval
  <2>3. QED
    BY <2>2, FS_Subset
<1>2. T \subseteq FiniteSubsetsOf(S) /\ T # {}
  <2>1. FiniteSubsetsOf(S) = SUBSET S
    BY <1>1, FS_FiniteSubsetsOfFinite
  <2>2. T \subseteq SUBSET S
    <3>1. \A x \in S : Above(x) \subseteq S
      OBVIOUS
    <3> HIDE DEF Above
    <3>2. QED
      BY <3>1
  <2>3. T # {}
    <3>1. PICK x \in S : TRUE
      OBVIOUS
    <3>2. Above(x) \in T
      OBVIOUS
    <3>3. QED
      BY <3>2
  <2>4. QED
    BY <2>1, <2>2, <2>3
<1>3. IsWellFoundedOn(R, FiniteSubsetsOf(S))
  BY FS_StrictSubsetOrderingWellFounded
<1>4. PICK A \in T : \A B \in T : ~ (<<B, A>> \in R)
  <2> HIDE DEF T, R
  <2>1. QED
    BY <1>2, <1>3, WFMin
<1>5. PICK x \in S : A = Above(x)
  OBVIOUS
<1>6. \A y \in S : ~(y > x)
  <2> SUFFICES ASSUME NEW y \in S, y > x PROVE FALSE
    OBVIOUS
  <2>1. x \in Int /\ y \in Int /\ \A z \in S : z \in Int
    OBVIOUS
  <2>2. Above(y) \subseteq Above(x) /\ y \in Above(x) /\ y \notin Above(y)
    <3>1. \A z \in Above(y) : z \in Above(x)
      BY <2>1
    <3>2. y \in Above(x)
      OBVIOUS
    <3>3. y \notin Above(y)
      BY <2>1
    <3> HIDE DEF Above
    <3>4. QED
      BY <3>1, <3>2, <3>3
  <2>3. <<Above(y), Above(x)>> \in R
    BY <2>2 DEF StrictSubsetOrdering
  <2>4. QED
    BY <1>4, <1>5, <2>3
<1>7. \E z \in S : \A y \in S : z >= y
  BY <1>6
<1>8. QED
  BY <1>7 DEF Max

LEMMA LatestOf ==
    ASSUME NEW n \in Nat, NEW S \in SUBSET (1..n)
    PROVE  /\ Latest(S) \in 0..n
           /\ S = {} => Latest(S) = 0
           /\ S # {} => Latest(S) \in S
           /\ \A y \in S : y <= Latest(S)
<1>1. CASE S = {}
  BY <1>1 DEF Latest
<1>2. CASE S # {}
  <2>1. S \in SUBSET (0..n)
    OBVIOUS
  <2>2. Max(S) \in S /\ \A y \in S : y <= Max(S)
    BY <1>2, <2>1, MaxOf
  <2>3. Latest(S) = Max(S)
    BY <1>2 DEF Latest
  <2>4. Max(S) \in 1..n
    BY <2>2
  <2>5. QED
    BY <1>2, <2>2, <2>3, <2>4
<1>3. QED
  BY <1>1, <1>2

LEMMA IdsRange ==
    ASSUME NEW t \in Seq(Kinds), NEW K
    PROVE  Ids(t, K) \subseteq 1..Len(t) /\ Scanned(t) \subseteq 1..Len(t) /\ Len(t) \in Nat
<1>1. DOMAIN t = 1..Len(t) /\ Len(t) \in Nat
  OBVIOUS
<1>2. QED
  BY <1>1 DEF Ids, Scanned

LEMMA IdsAppend ==
    ASSUME NEW t \in Seq(Kinds), NEW k \in Kinds, NEW K
    PROVE  Ids(Append(t, k), K) = Ids(t, K) \cup (IF k \in K THEN {Len(t) + 1} ELSE {})
<1>1. /\ Len(t) \in Nat /\ DOMAIN t = 1..Len(t)
      /\ DOMAIN Append(t, k) = 1..(Len(t) + 1)
      /\ \A i \in 1..Len(t) : Append(t, k)[i] = t[i]
      /\ Append(t, k)[Len(t) + 1] = k
  OBVIOUS
<1>2. 1..(Len(t) + 1) = (1..Len(t)) \cup {Len(t) + 1}
  BY <1>1
<1> DEFINE u == Append(t, k)
           n == Len(t)
<1>3. u = Append(t, k) /\ n = Len(t)
  OBVIOUS
<1> HIDE DEF u, n
<1>4. Ids(u, K) = Ids(t, K) \cup (IF k \in K THEN {n + 1} ELSE {})
  BY <1>1, <1>2, <1>3 DEF Ids
<1>5. QED
  BY <1>3, <1>4

(* The key is the place of an entry, and a turn has one. *)
LEMMA KeyRange ==
    ASSUME NEW t \in Seq(Kinds)
    PROVE  /\ Key(t) \in 0..Len(t) /\ LastTurn(t) \in 0..Len(t)
           /\ LastTurn(t) # 0 => Key(t) >= 1
<1> DEFINE n == Len(t)
           turns == Scanned(t) \cap Ids(t, UserKinds \cup AssistantKinds)
           stubs == Scanned(t) \cap Ids(t, {"stub"})
<1>1. n \in Nat /\ turns \in SUBSET (1..n) /\ stubs \in SUBSET (1..n)
  BY IdsRange
<1>2. LastTurn(t) \in 0..n
  BY <1>1, LatestOf DEF LastTurn
<1>3. stubs # {} => Max(stubs) \in 1..n
  <2>1. stubs \in SUBSET (0..n)
    BY <1>1
  <2> HIDE DEF stubs
  <2>2. QED
    BY <1>1, <2>1, MaxOf
<1>4. Key(t) = IF stubs # {} THEN Max(stubs) ELSE LastTurn(t)
  BY DEF Key
<1> HIDE DEF stubs, turns
<1>5. QED
  BY <1>1, <1>2, <1>3, <1>4

(* The key never goes back. *)
LEMMA KeyGrows ==
    ASSUME NEW t \in Seq(Kinds), NEW k \in Kinds
    PROVE  Key(t) <= Key(Append(t, k))
<1> DEFINE n == Len(t)
           u == Append(t, k)
           both == UserKinds \cup AssistantKinds
<1>1. n \in Nat /\ u \in Seq(Kinds) /\ Len(u) = n + 1
  OBVIOUS
<1>2. /\ Ids(t, AssistantKinds) \subseteq 1..n /\ Ids(t, both) \subseteq 1..n
      /\ Ids(t, {"stub"}) \subseteq 1..n /\ Scanned(t) \subseteq 1..n
      /\ DOMAIN t = 1..n /\ DOMAIN u = 1..(n + 1)
  BY IdsRange
<1>3. \A K : Ids(u, K) = Ids(t, K) \cup (IF k \in K THEN {n + 1} ELSE {})
  BY IdsAppend
<1>4. Key(t) \in 0..n /\ Key(u) \in 0..(n + 1)
  BY <1>1, KeyRange
<1>5. Scanned(u) = {i \in 1..(n + 1) : i >= Latest(Ids(u, AssistantKinds))}
  BY <1>2 DEF Scanned
<1>6. LastTurn(t) = Latest(Scanned(t) \cap Ids(t, both)) /\ LastTurn(u) = Latest(Scanned(u) \cap Ids(u, both))
  BY DEF LastTurn
<1> DEFINE stubs == Scanned(t) \cap Ids(t, {"stub"})
           stubsU == Scanned(u) \cap Ids(u, {"stub"})
<1>7. /\ Key(t) = IF stubs # {} THEN Max(stubs) ELSE LastTurn(t)
      /\ Key(u) = IF stubsU # {} THEN Max(stubsU) ELSE LastTurn(u)
  BY DEF Key
<1> SUFFICES Key(t) <= Key(u)
  OBVIOUS
<1> HIDE DEF n, u, both
<1>8. CASE k \in AssistantKinds
  <2>1. n + 1 \in Ids(u, AssistantKinds) /\ Ids(u, AssistantKinds) \in SUBSET (1..(n + 1))
    BY <1>1, <1>2, <1>3, <1>8
  <2>2. Latest(Ids(u, AssistantKinds)) = n + 1
    <3>1. n + 1 \in Nat
      BY <1>1
    <3>2. /\ n + 1 <= Latest(Ids(u, AssistantKinds))
          /\ Latest(Ids(u, AssistantKinds)) \in 0..(n + 1)
      BY <2>1, <3>1, LatestOf
    <3>3. QED
      BY <1>1, <3>2
  <2>3. Scanned(u) = {n + 1}
    BY <1>1, <1>5, <2>2
  <2>4. k # "stub" /\ k \in both
    BY <1>8 DEF AssistantKinds, both
  <2>5. stubsU = {}
    BY <1>1, <1>2, <1>3, <2>3, <2>4
  <2>6. Scanned(u) \cap Ids(u, both) = {n + 1}
    BY <1>3, <2>3, <2>4
  <2>7. LastTurn(u) = n + 1
    <3>1. {n + 1} \in SUBSET (1..(n + 1)) /\ n + 1 \in Nat
      BY <1>1
    <3>2. Latest({n + 1}) \in {n + 1}
      BY <3>1, LatestOf
    <3>3. QED
      BY <1>6, <2>6, <3>2
  <2>8. QED
    BY <1>1, <1>4, <1>7, <2>5, <2>7
<1>9. CASE k \notin AssistantKinds
  <2>1. Ids(u, AssistantKinds) = Ids(t, AssistantKinds)
    BY <1>3, <1>9
  <2>2. Latest(Ids(t, AssistantKinds)) \in 0..n
    BY <1>1, <1>2, LatestOf
  <2>3. Scanned(u) = Scanned(t) \cup {n + 1}
    <3>1. Scanned(t) = {i \in 1..n : i >= Latest(Ids(t, AssistantKinds))}
      BY <1>2 DEF Scanned
    <3>2. QED
      BY <1>1, <1>5, <2>1, <2>2, <3>1
  <2>4. CASE k = "stub"
    <3>1. n + 1 \in stubsU
      BY <1>3, <2>3, <2>4
    <3>2. stubsU \in SUBSET (0..(n + 1)) /\ n + 1 \in Nat
      BY <1>1, <1>5
    <3>3. Max(stubsU) \in stubsU /\ n + 1 <= Max(stubsU)
      <4> HIDE DEF stubsU
      <4>1. QED
        BY <3>1, <3>2, MaxOf
    <3>4. Max(stubsU) \in Int
      BY <3>2, <3>3
    <3>5. QED
      BY <1>1, <1>4, <1>7, <3>1, <3>3, <3>4
  <2>5. CASE k # "stub"
    <3>1. Ids(u, {"stub"}) = Ids(t, {"stub"})
      BY <1>3, <2>5
    <3>2. stubsU = stubs
      BY <1>1, <1>2, <2>3, <3>1
    <3>3. CASE stubs # {}
      <4>1. Key(t) = Max(stubs) /\ Key(u) = Max(stubsU)
        BY <1>7, <3>2, <3>3
      <4> HIDE DEF stubs, stubsU
      <4>2. QED
        BY <1>1, <1>4, <3>2, <4>1
    <3>4. CASE stubs = {}
      <4> DEFINE turns == Scanned(t) \cap Ids(t, both)
                 turnsU == Scanned(u) \cap Ids(u, both)
      <4>1. turns \subseteq turnsU
        BY <1>3, <2>3
      <4>2. turns \in SUBSET (1..n) /\ turnsU \in SUBSET (1..(n + 1)) /\ n + 1 \in Nat
        BY <1>1, <1>2, <1>5
      <4>3. LastTurn(t) = Latest(turns) /\ LastTurn(u) = Latest(turnsU)
        BY <1>6
      <4> HIDE DEF turns, turnsU
      <4>4. Latest(turns) = 0 \/ Latest(turns) \in turnsU
        BY <1>1, <4>1, <4>2, LatestOf
      <4>5. Latest(turnsU) \in 0..(n + 1) /\ \A y \in turnsU : y <= Latest(turnsU)
        BY <4>2, LatestOf
      <4>6. Latest(turns) <= Latest(turnsU)
        BY <4>4, <4>5
      <4>7. QED
        BY <1>7, <3>2, <3>4, <4>3, <4>6
    <3>5. QED
      BY <3>3, <3>4
  <2>6. QED
    BY <2>4, <2>5
<1>10. QED
  BY <1>8, <1>9

-----------------------------------------------------------------------------
(* Types *)

LEMMA Constants ==
    /\ Cooldown \in Nat /\ Quiet \in Nat /\ Window \in Nat /\ MaxAge \in Nat
    /\ MaxBatch \in Nat /\ MaxEntries \in Nat /\ MaxTime \in Nat /\ MaxOps \in Nat
    /\ MaxEntries >= 2 /\ NoPass \notin Passes
    /\ IsFiniteSet(Sessions) /\ Sessions # {}
BY NudgesAssumption DEF NoPass

LEMMA BlankTypes ==
    /\ NoRecord \in Records /\ Idle \in SlotRecords /\ Resting \in PassRecords
    /\ AnySession \in Sessions /\ 0 \in Keys
    /\ Idle.at = "idle" /\ Idle.mode = "none" /\ Idle.s = AnySession /\ ~Idle.go
    /\ Idle.key = 0 /\ Idle.before = 0 /\ Idle.copy = NoRecord
    /\ Resting.at = "idle" /\ Resting.rows = {} /\ Resting.s = AnySession
    /\ Resting.key = 0 /\ Resting.copy = NoRecord /\ Resting.retired = {}
    /\ Resting.census = {} /\ Resting.launched = 0
<1>1. 0 \in Keys /\ -1 \in -1..MaxTime
  BY Constants DEF Keys
<1>2. NoRecord \in Records
  BY <1>1 DEF NoRecord, Records
<1>3. AnySession \in Sessions
  BY Constants DEF AnySession
<1>4. Idle \in SlotRecords
  BY <1>1, <1>2, <1>3 DEF Idle, SlotRecords, SlotStates, Modes
<1>5. Resting \in PassRecords
  BY <1>1, <1>2, <1>3 DEF Resting, PassRecords, PassStates
<1>6. QED
  BY <1>1, <1>2, <1>3, <1>4, <1>5 DEF Idle, Resting

LEMMA KeyType ==
    ASSUME TypeOK, NEW s \in Sessions
    PROVE  /\ KeyNow(s) \in Keys /\ KeyNow(s) \in Nat
           /\ LastTurn(transcript[s]) \in Keys
           /\ LastTurn(transcript[s]) # 0 => KeyNow(s) >= 1
           /\ Len(transcript[s]) \in Nat /\ transcript[s] \in Seq(Kinds)
<1>1. transcript[s] \in Seq(Kinds) /\ Len(transcript[s]) <= MaxEntries
  BY DEF TypeOK
<1>2. Len(transcript[s]) \in Nat
  BY <1>1
<1>3. QED
  BY <1>1, <1>2, KeyRange, Constants DEF KeyNow, Keys

LEMMA RecordFacts ==
    \A r \in Records : /\ r.last \in Keys /\ r.last \in Nat /\ r.revived \in Keys
                       /\ r.revived \in Nat /\ r.retired \in BOOLEAN /\ r.at \in -1..MaxTime
BY Constants DEF Records, Keys

LEMMA FieldTypes ==
    ASSUME TypeOK
    PROVE  /\ \A s \in Sessions : record[s] \in Records
           /\ \A w \in Slots : /\ slot[w].at \in SlotStates /\ slot[w].mode \in Modes
                                /\ slot[w].copy \in Records /\ slot[w].s \in Sessions
                                /\ slot[w].key \in Keys /\ slot[w].key \in Nat
                                /\ slot[w].go \in BOOLEAN /\ slot[w].before \in Keys
           /\ \A p \in Passes : /\ pass[p].at \in PassStates /\ pass[p].s \in Sessions
                                /\ pass[p].key \in Keys /\ pass[p].key \in Nat
                                /\ pass[p].copy \in Records /\ pass[p].launched \in Nat
                                /\ pass[p].rows \subseteq Sessions
                                /\ pass[p].census \subseteq Sessions
                                /\ pass[p].retired \subseteq Sessions
<1>1. \A k \in Keys : k \in Nat
  BY Constants DEF Keys
<1>2. \A s \in Sessions : record[s] \in Records
  BY DEF TypeOK
<1>3. ASSUME NEW w \in Slots
      PROVE  /\ slot[w].at \in SlotStates /\ slot[w].mode \in Modes
             /\ slot[w].copy \in Records /\ slot[w].s \in Sessions
             /\ slot[w].key \in Keys /\ slot[w].go \in BOOLEAN /\ slot[w].before \in Keys
  <2>1. slot[w] \in SlotRecords
    BY DEF TypeOK
  <2>2. QED
    BY <2>1 DEF SlotRecords
<1>4. ASSUME NEW p \in Passes
      PROVE  /\ pass[p].at \in PassStates /\ pass[p].s \in Sessions
             /\ pass[p].key \in Keys
             /\ pass[p].copy \in Records /\ pass[p].launched \in Nat
             /\ pass[p].rows \subseteq Sessions
             /\ pass[p].census \subseteq Sessions
             /\ pass[p].retired \subseteq Sessions
  <2>1. pass[p] \in PassRecords
    BY DEF TypeOK
  <2>2. QED
    BY <2>1 DEF PassRecords
<1>5. QED
  BY <1>1, <1>2, <1>3, <1>4

(* An entry is added to one transcript. *)
LEMMA AddFacts ==
    ASSUME TypeOK, NEW s \in Sessions, NEW k \in Kinds, Add(s, k)
    PROVE  /\ transcript' \in [Sessions -> Seq(Kinds)] /\ turnAt' \in [Sessions -> 0..MaxTime]
           /\ \A r \in Sessions : /\ Len(transcript'[r]) <= MaxEntries
                                  /\ KeyNow(r) <= KeyNow(r)'
                                  /\ r # s => transcript'[r] = transcript[r]
           /\ transcript'[s][Len(transcript'[s])] = k
<1>1. transcript[s] \in Seq(Kinds) /\ Len(transcript[s]) \in Nat /\ now \in 0..MaxTime
  BY DEF TypeOK
<1>2. Append(transcript[s], k) \in Seq(Kinds)
  BY <1>1
<1>3. transcript' = [transcript EXCEPT ![s] = Append(transcript[s], k)]
  BY DEF Add
<1>4. transcript' \in [Sessions -> Seq(Kinds)]
  BY <1>2, <1>3 DEF TypeOK
<1>5. turnAt' \in [Sessions -> 0..MaxTime]
  BY <1>1 DEF Add, TypeOK
<1>6. \A r \in Sessions : transcript'[r] = IF r = s THEN Append(transcript[s], k) ELSE transcript[r]
  BY <1>3 DEF TypeOK
<1>7. Len(transcript[s]) + 1 <= MaxEntries
  BY <1>1, Constants DEF Add
<1>8. Len(Append(transcript[s], k)) = Len(transcript[s]) + 1
      /\ Append(transcript[s], k)[Len(transcript[s]) + 1] = k
  BY <1>1
<1>9. ASSUME NEW r \in Sessions
      PROVE  Len(transcript'[r]) <= MaxEntries /\ KeyNow(r) <= KeyNow(r)'
  <2>1. CASE r = s
    BY <1>1, <1>6, <1>7, <1>8, <2>1, KeyGrows DEF KeyNow
  <2>2. CASE r # s
    <3>1. transcript'[r] = transcript[r] /\ Len(transcript[r]) <= MaxEntries
      BY <1>6, <2>2 DEF TypeOK
    <3>2. KeyNow(r) = KeyNow(r)' /\ KeyNow(r) \in Nat
      BY <3>1, KeyType DEF KeyNow
    <3>3. QED
      BY <3>1, <3>2
  <2>3. QED
    BY <2>1, <2>2
<1>10. QED
  BY <1>4, <1>5, <1>6, <1>8, <1>9

-----------------------------------------------------------------------------
LEMMA StartsFacts ==
    ASSUME NEW t \in Starts
    PROVE  t \in Seq(Kinds) /\ Len(t) <= 2 /\ t[Len(t)] # "stub"
<1>1. "call" \in Kinds /\ "text" \in Kinds /\ "prompt" \in Kinds
  BY DEF Kinds, UserKinds, AssistantKinds
<1>2. CASE t = <<"call">>
  BY <1>1, <1>2
<1>3. CASE t = <<"text">>
  BY <1>1, <1>3
<1>4. CASE t = <<"text", "prompt">>
  BY <1>1, <1>4
<1>5. QED
  BY <1>2, <1>3, <1>4 DEF Starts

LEMMA InitInvariant == Init => IInv
<1> SUFFICES ASSUME Init PROVE IInv
  OBVIOUS
<1> USE Constants, BlankTypes
<1>1. TypeOK
  <2>1. transcript \in [Sessions -> Seq(Kinds)] /\ \A s \in Sessions : Len(transcript[s]) <= MaxEntries
    <3>1. \A t \in Starts : t \in Seq(Kinds) /\ Len(t) \in Nat /\ Len(t) <= 2
      BY StartsFacts
    <3>2. \A s \in Sessions : transcript[s] \in Starts
      BY DEF Init
    <3>3. \A t \in Starts : Len(t) <= MaxEntries
      BY <3>1
    <3>4. QED
      BY <3>1, <3>2, <3>3 DEF Init
  <2>2. now \in 0..MaxTime /\ turnAt \in [Sessions -> 0..MaxTime] /\ ops \in 0..MaxOps
    BY DEF Init
  <2>3. QED
    BY <2>1, <2>2 DEF Init, TypeOK
<1>2. \A s \in Sessions : KeyNow(s) \in Nat
  BY <1>1, KeyType
<1>3. Keyed
  BY <1>2 DEF Init, Keyed, KeyedBy, NoRecord
<1>4. Unraced
  <2> SUFFICES ASSUME NEW s \in Sessions PROVE LoadedOK(s) /\ NudgeOK(s) /\ ReviveOK(s)
    BY DEF Unraced
  <2>1. LoadedOK(s)
    BY DEF Init, LoadedOK, NoRecord
  <2>2. NudgeOK(s)
    BY DEF Init, NudgeOK, Nudger, Committed, NoRecord
  <2>3. ReviveOK(s)
    BY DEF Init, ReviveOK, NoRecord
  <2>4. QED
    BY <2>1, <2>2, <2>3
<1>5. Locked
  BY DEF Init, Locked
<1>6. Batched
  <2>1. Detached = {}
    BY DEF Init, Detached
  <2>2. Cardinality(Detached) = 0
    BY <2>1, FS_EmptySet
  <2>3. QED
    BY <2>2 DEF Init, Batched, OneRevive
<1>7. RetiredOK
  BY DEF Init, RetiredOK
<1>8. Trying
  BY DEF Init, Trying, TriedBy, NoRecord
<1>9. Restarted
  <2> SUFFICES ASSUME NEW s \in Sessions PROVE SeenTo(s)
    BY DEF Restarted
  <2>1. transcript[s] \in Starts
    BY DEF Init
  <2>2. \A t \in Starts : t[Len(t)] # "stub"
    BY StartsFacts
  <2>3. QED
    BY <2>1, <2>2 DEF SeenTo, Init
<1>10. QED
  BY <1>1, <1>3, <1>4, <1>5, <1>6, <1>7, <1>8, <1>9 DEF IInv

-----------------------------------------------------------------------------
(* Steps of the sessions and of the clock *)

LEMMA SessionFrame ==
    ASSUME IInv, TypeOK',
           \A r \in Sessions : KeyNow(r) <= KeyNow(r)' /\ live'[r] <= live[r],
           UNCHANGED <<record, slot, nudged, tried, twice, lock, pass, again, retiree,
                       raced, erased>>
    PROVE  Keyed' /\ Unraced' /\ Locked' /\ Batched' /\ RetiredOK' /\ Trying'
<1>1. \A r \in Sessions : /\ KeyNow(r) \in Nat /\ KeyNow(r)' \in Nat
                          /\ live[r] \in Nat /\ live'[r] \in Nat
  <2>1. \A r \in Sessions : KeyNow(r) \in Nat
    BY KeyType DEF IInv
  <2>2. ASSUME NEW r \in Sessions PROVE KeyNow(r)' \in Nat
    <3>1. transcript'[r] \in Seq(Kinds)
      BY DEF TypeOK
    <3>2. Key(transcript'[r]) \in 0..Len(transcript'[r]) /\ Len(transcript'[r]) \in Nat
      BY <3>1, KeyRange
    <3>3. QED
      BY <3>2 DEF KeyNow
  <2>3. QED
    BY <2>1, <2>2 DEF IInv, TypeOK
<1>2. /\ \A s \in Sessions : record[s] \in Records
      /\ \A w \in Slots : slot[w].copy \in Records /\ slot[w].s \in Sessions /\ slot[w].key \in Nat
      /\ \A p \in Passes : pass[p].copy \in Records /\ pass[p].s \in Sessions /\ pass[p].key \in Nat
  BY FieldTypes DEF IInv
<1>3. Keyed'
  <2>1. \A r \in Records, s \in Sessions : KeyedBy(r, s) => KeyedBy(r, s)'
    BY <1>1, RecordFacts DEF KeyedBy
  <2>2. \A s \in Sessions, k \in Nat : k <= KeyNow(s) => k <= KeyNow(s)'
    BY <1>1
  <2>3. QED
    BY <1>2, <2>1, <2>2 DEF IInv, Keyed
<1>4. Unraced'
  BY DEF IInv, Unraced, LoadedOK, NudgeOK, NudgerOK, Nudger, Committed, ReviveOK
<1>5. Locked'
  BY DEF IInv, Locked
<1>6. Batched'
  <2>1. Detached' \subseteq Detached
    BY <1>1 DEF Detached
  <2>2. IsFiniteSet(Detached) /\ Detached \subseteq Sessions
    BY Constants, FS_Subset DEF Detached
  <2>3. Cardinality(Detached') <= Cardinality(Detached) /\ IsFiniteSet(Detached')
    BY <2>1, <2>2, FS_Subset
  <2>4. Cardinality(Detached) \in Nat /\ Cardinality(Detached') \in Nat
    BY <2>2, <2>3, FS_CardinalityType
  <2>5. \A p \in Passes : pass[p].launched \in Nat
    BY DEF IInv, TypeOK, PassRecords
  <2>6. OneRevive'
    BY <1>1, <2>3, <2>4, Constants DEF IInv, Batched, OneRevive
  <2>7. \A p \in Passes : pass[p].at = "launching" => live'[pass[p].s] = 0
    BY <1>1, <1>2 DEF IInv, Batched
  <2>8. \A p \in Passes : pass[p].at = "launching" =>
            Cardinality(Detached') + pass[p].launched < MaxBatch
    BY <2>3, <2>4, <2>5, Constants DEF IInv, Batched
  <2>9. QED
    BY <2>6, <2>7, <2>8 DEF Batched
<1>7. RetiredOK'
  BY DEF IInv, RetiredOK, OnHand
<1>8. Trying'
  BY DEF IInv, Trying, TriedBy
<1>9. QED
  BY <1>3, <1>4, <1>5, <1>6, <1>7, <1>8

(* A step that adds no stub leaves every restart as it was. *)
LEMMA RestartedFrame ==
    ASSUME IInv, UNCHANGED <<slot, tried, excused>>,
           \A r \in Sessions : /\ up'[r] => up[r]
                               /\ up'[r] /\ owed'[r] => owed[r]
                               /\ \/ transcript'[r] = transcript[r]
                                  \/ transcript'[r][Len(transcript'[r])] # "stub"
                                  \/ owed[r]
    PROVE  Restarted'
<1> SUFFICES ASSUME NEW r \in Sessions, up'[r], ~excused[r]
             PROVE  SeenTo(r)' \/ \E w \in Slots : OnItsWay(w, r)'
  BY DEF Restarted
<1>1. CASE SeenTo(r)
  BY <1>1 DEF SeenTo, KeyNow
<1>2. CASE \E w \in Slots : OnItsWay(w, r)
  BY <1>2 DEF OnItsWay
<1>3. QED
  BY <1>1, <1>2 DEF IInv, Restarted

LEMMA SessionStepsInv ==
    ASSUME IInv, NEW s \in Sessions, SessionSteps(s)
    PROVE  IInv'
<1>1. UNCHANGED <<now, record, slots, lock, pass, again, retiree, raced, erased, ops>>
  BY DEF SessionSteps, Turn, ReadNudge, WriteStub, Die, ReviveEnds, revives
<1>2. \A r \in Sessions : /\ KeyNow(r) \in Nat /\ live[r] \in Nat /\ inbox[r] \in Nat
                          /\ up[r] \in BOOLEAN /\ owed[r] \in BOOLEAN
  BY KeyType DEF IInv, TypeOK
<1>3. ASSUME NEW k \in Kinds, Add(s, k)
      PROVE  /\ transcript' \in [Sessions -> Seq(Kinds)] /\ turnAt' \in [Sessions -> 0..MaxTime]
             /\ \A r \in Sessions : /\ Len(transcript'[r]) <= MaxEntries
                                    /\ KeyNow(r) <= KeyNow(r)'
                                    /\ r # s => transcript'[r] = transcript[r]
             /\ transcript'[s][Len(transcript'[s])] = k
  BY <1>3, AddFacts DEF IInv
<1>4. \/ \E k \in Kinds : Add(s, k)
      \/ UNCHANGED <<transcript, turnAt>>
  <2>1. ASSUME NEW k, NEW l, k \in Follows(l) PROVE k \in Kinds
    BY <2>1 DEF Follows, Kinds, UserKinds, AssistantKinds
  <2>2. "nudge" \in Kinds /\ "stub" \in Kinds
    BY DEF Kinds, UserKinds
  <2>3. QED
    BY <2>1, <2>2 DEF SessionSteps, Turn, ReadNudge, WriteStub, Die, ReviveEnds
<1>5. /\ transcript' \in [Sessions -> Seq(Kinds)] /\ turnAt' \in [Sessions -> 0..MaxTime]
      /\ \A r \in Sessions : Len(transcript'[r]) <= MaxEntries /\ KeyNow(r) <= KeyNow(r)'
  <2>1. CASE \E k \in Kinds : Add(s, k)
    BY <1>3, <2>1
  <2>2. CASE UNCHANGED <<transcript, turnAt>>
    BY <1>2, <2>2 DEF IInv, TypeOK, KeyNow
  <2>3. QED
    BY <1>4, <2>1, <2>2
<1>6. /\ up' \in [Sessions -> BOOLEAN] /\ owed' \in [Sessions -> BOOLEAN]
      /\ inbox' \in [Sessions -> Nat] /\ live' \in [Sessions -> Nat]
      /\ \A r \in Sessions : live'[r] <= live[r] /\ (up'[r] => up[r]) /\ (owed'[r] => owed[r])
  <2>1. CASE Turn(s)
    BY <1>2, <2>1 DEF Turn, IInv, TypeOK, revives
  <2>2. CASE ReadNudge(s)
    BY <1>2, <2>2 DEF ReadNudge, IInv, TypeOK, revives
  <2>3. CASE WriteStub(s)
    BY <1>2, <2>3 DEF WriteStub, IInv, TypeOK, revives
  <2>4. CASE Die(s)
    BY <1>2, <2>4 DEF Die, IInv, TypeOK, revives
  <2>5. CASE ReviveEnds(s)
    BY <1>2, <2>5 DEF ReviveEnds, IInv, TypeOK, revives
  <2>6. QED
    BY <2>1, <2>2, <2>3, <2>4, <2>5 DEF SessionSteps
<1>7. TypeOK'
  BY <1>1, <1>5, <1>6 DEF IInv, TypeOK, slots
<1>8. \A r \in Sessions : \/ transcript'[r] = transcript[r]
                          \/ transcript'[r][Len(transcript'[r])] # "stub"
                          \/ owed[r]
  <2>1. CASE Turn(s)
    <3>1. PICK k \in Kinds : k # "stub" /\ Add(s, k)
      <4>1. \A l, k : k \in Follows(l) => k \in Kinds /\ k # "stub"
        BY DEF Follows, Kinds, UserKinds, AssistantKinds
      <4>2. QED
        BY <2>1, <4>1 DEF Turn
    <3>2. QED
      BY <1>3, <3>1
  <2>2. CASE ReadNudge(s)
    <3>1. "nudge" \in Kinds
      BY DEF Kinds, UserKinds
    <3>2. QED
      BY <1>3, <2>2, <3>1 DEF ReadNudge
  <2>3. CASE WriteStub(s)
    <3>1. "stub" \in Kinds
      BY DEF Kinds
    <3>2. QED
      BY <1>3, <2>3, <3>1 DEF WriteStub
  <2>4. CASE Die(s) \/ ReviveEnds(s)
    BY <2>4 DEF Die, ReviveEnds
  <2>5. QED
    BY <2>1, <2>2, <2>3, <2>4 DEF SessionSteps
<1>9. Restarted'
  BY <1>1, <1>6, <1>8, RestartedFrame DEF slots
<1>10. QED
  BY <1>1, <1>5, <1>6, <1>7, <1>9, SessionFrame DEF IInv, slots

LEMMA TickInv ==
    ASSUME IInv, Tick
    PROVE  IInv'
<1>1. UNCHANGED <<transcript, turnAt, up, owed, inbox, record, slots, revives, raced, erased, ops>>
      /\ now' = now + 1 /\ now < MaxTime
  BY DEF Tick
<1>2. TypeOK'
  BY <1>1, Constants DEF IInv, TypeOK, slots, revives
<1>3. \A r \in Sessions : KeyNow(r) <= KeyNow(r)' /\ live'[r] <= live[r]
  <2>1. \A r \in Sessions : KeyNow(r) \in Nat /\ live[r] \in Nat
    BY KeyType DEF IInv, TypeOK
  <2>2. QED
    BY <1>1, <2>1 DEF KeyNow, revives
<1>4. Restarted'
  BY <1>1, RestartedFrame DEF slots
<1>5. QED
  BY <1>1, <1>2, <1>3, <1>4, SessionFrame DEF IInv, slots, revives

-----------------------------------------------------------------------------
(* Steps of the slots *)

LEMMA SlotType ==
    ASSUME TypeOK, NEW w \in Slots, NEW r \in SlotRecords, At(w, r)
    PROVE  /\ slot' \in [Slots -> SlotRecords]
           /\ slot'[w] = r
           /\ \A v \in Slots : v # w => slot'[v] = slot[v]
BY DEF TypeOK, At

(* What a change of one slot leaves alone, when the nudges are accounted    *)
(* for.                                                                     *)
LEMMA SlotFrame ==
    ASSUME IInv, TypeOK', NEW w \in Slots, NEW r \in SlotRecords, At(w, r),
           KeyedBy(r.copy, r.s), r.key <= KeyNow(r.s), TriedBy(r.copy, r.s)',
           r.mode = "retire" => r.copy.retired /\ r.at = "skipping",
           r.copy.revived <= record[r.s].revived,
           r.at # "saving" => r.copy.last <= record[r.s].last,
           \A s \in Sessions : raced[s] => raced'[s],
           \A s \in Sessions : tried[s] \subseteq tried'[s],
           \A s \in Sessions : ~raced'[s] => NudgeOK(s)',
           UNCHANGED <<transcript, record, lock, pass, live, again, retiree, erased>>
    PROVE  Keyed' /\ Unraced' /\ Locked' /\ Batched' /\ RetiredOK' /\ Trying'
<1>1. slot'[w] = r /\ \A v \in Slots : v # w => slot'[v] = slot[v]
  BY SlotType DEF IInv
<1>2. r.s \in Sessions
  BY DEF SlotRecords
<1>3. Keyed'
  BY <1>1 DEF IInv, Keyed, KeyedBy, KeyNow
<1>4. Unraced'
  <2> SUFFICES ASSUME NEW s \in Sessions, ~raced'[s]
               PROVE  LoadedOK(s)' /\ NudgeOK(s)' /\ ReviveOK(s)'
    BY DEF Unraced
  <2>1. LoadedOK(s) /\ ReviveOK(s)
    BY DEF IInv, Unraced
  <2>2. LoadedOK(s)'
    BY <1>1, <2>1 DEF LoadedOK
  <2>3. ReviveOK(s)'
    BY <2>1 DEF ReviveOK
  <2>4. QED
    BY <2>2, <2>3
<1>5. Locked'
  BY DEF IInv, Locked
<1>6. Batched'
  BY DEF IInv, Batched, OneRevive, Detached
<1>7. RetiredOK'
  BY <1>1 DEF IInv, RetiredOK, OnHand
<1>8. Trying'
  <2> DEFINE Will(c, s) == c.last = 0 \/ c.last \in tried'[s]
  <2>1. \A s \in Sessions : \A c \in Records : TriedBy(c, s) => Will(c, s)
    BY DEF TriedBy
  <2>2. /\ \A s \in Sessions : Will(record[s], s)
        /\ \A v \in Slots : Will(slot[v].copy, slot[v].s)
        /\ \A p \in Passes : Will(pass[p].copy, pass[p].s)
    <3> HIDE DEF Will
    <3>1. QED
      BY <2>1, FieldTypes DEF IInv, Trying
  <2>3. Will(r.copy, r.s)
    BY DEF TriedBy
  <2>4. QED
    BY <1>1, <2>2, <2>3 DEF Trying, TriedBy
<1>9. QED
  BY <1>3, <1>4, <1>5, <1>6, <1>7, <1>8

(* A slot that stops, or starts, without having decided to nudge. *)
LEMMA QuietNudges ==
    ASSUME IInv, NEW w \in Slots, NEW r \in SlotRecords, At(w, r),
           r.at # "saving", ~(r.mode = "muster" /\ r.at = "waiting"),
           slot[w].at = "saving" => raced'[slot[w].s],
           \A s \in Sessions : raced[s] => raced'[s],
           UNCHANGED <<record, nudged, twice>>
    PROVE  \A s \in Sessions : ~raced'[s] => NudgeOK(s)'
<1>1. slot'[w] = r /\ \A v \in Slots : v # w => slot'[v] = slot[v]
  BY SlotType DEF IInv
<1> SUFFICES ASSUME NEW s \in Sessions, ~raced'[s] PROVE NudgeOK(s)'
  OBVIOUS
<1>2. NudgeOK(s)
  BY DEF IInv, Unraced
<1>3. \A v \in Slots : Nudger(v, s)' => v # w /\ Nudger(v, s)
  BY <1>1 DEF Nudger, Committed
<1>4. slot[w].s = s => slot[w].at # "saving"
  OBVIOUS
<1>5. \A u, v \in Slots : Nudger(u, s)' /\ Nudger(v, s)' => u = v
  BY <1>2, <1>3 DEF NudgeOK
<1>6. \A v \in Slots : Nudger(v, s)' => NudgerOK(v, s)'
  BY <1>1, <1>2, <1>3 DEF NudgeOK, NudgerOK
<1>7. (\A v \in Slots : slot'[v].s = s => slot'[v].at # "saving") => nudged[s] <= record[s].last
  BY <1>1, <1>2, <1>4 DEF NudgeOK
<1>8. QED
  BY <1>2, <1>5, <1>6, <1>7 DEF NudgeOK

(* While none has decided to nudge, the record covers the last nudge ...    *)
LEMMA AbreastOfNudges ==
    ASSUME IInv, NEW s \in Sessions, ~raced[s], Committed(s) = {}
    PROVE  /\ nudged[s] \in Nat /\ record[s].last \in Nat /\ KeyNow(s) \in Nat
           /\ nudged[s] <= record[s].last /\ record[s].last <= KeyNow(s)
<1>1. nudged[s] \in Nat /\ record[s].last \in Nat /\ KeyNow(s) \in Nat
  <2>1. nudged[s] \in Keys /\ record[s] \in Records
    BY DEF IInv, TypeOK
  <2>2. QED
    BY <2>1, Constants, RecordFacts, KeyType DEF IInv, Keys
<1>2. nudged[s] <= record[s].last
  <2>1. NudgeOK(s)
    BY DEF IInv, Unraced
  <2>2. \A v \in Slots : slot[v].s = s => slot[v].at # "saving"
    BY DEF Committed
  <2>3. QED
    BY <2>1, <2>2 DEF NudgeOK
<1>3. record[s].last <= KeyNow(s)
  BY DEF IInv, Keyed, KeyedBy
<1>4. QED
  BY <1>1, <1>2, <1>3

(* ... and a session that still has to be nudged has a key beyond it.       *)
LEMMA AheadOfNudges ==
    ASSUME IInv, NEW s \in Sessions, ~raced[s], Committed(s) = {},
           State(transcript[s]) # "empty", ~Called(s)
    PROVE  nudged[s] < KeyNow(s) /\ nudged[s] <= record[s].last
<1>1. KeyNow(s) >= 1
  <2>1. LastTurn(transcript[s]) # 0
    BY DEF State
  <2>2. QED
    BY <2>1, KeyType DEF IInv
<1>2. record[s].last < KeyNow(s)
  BY <1>1, AbreastOfNudges DEF Called, KeyNow
<1>3. QED
  BY <1>2, AbreastOfNudges

(* A slot that decides to nudge, while no other has. *)
LEMMA MusterNudges ==
    ASSUME IInv, NEW w \in Slots, NEW r \in SlotRecords, At(w, r),
           slot[w].at = "idle", r.at = "waiting", r.mode = "muster", r.key = KeyNow(r.s),
           State(transcript[r.s]) # "empty", ~Called(r.s), Commits(r.s),
           UNCHANGED <<record, nudged, twice>>
    PROVE  \A s \in Sessions : ~raced'[s] => NudgeOK(s)'
<1>1. slot'[w] = r /\ \A v \in Slots : v # w => slot'[v] = slot[v]
  BY SlotType DEF IInv
<1>2. r.s \in Sessions
  BY DEF SlotRecords
<1> SUFFICES ASSUME NEW s \in Sessions, ~raced'[s] PROVE NudgeOK(s)'
  OBVIOUS
<1>3. ~raced[s] /\ (s = r.s => Committed(s) = {})
  BY <1>2 DEF Commits, IInv, TypeOK
<1>4. NudgeOK(s)
  BY <1>3 DEF IInv, Unraced
<1>5. CASE s # r.s
  <2>1. \A v \in Slots : Nudger(v, s)' => v # w /\ Nudger(v, s)
    BY <1>1, <1>5 DEF Nudger, Committed
  <2>2. \A v \in Slots : Nudger(v, s)' => NudgerOK(v, s)'
    BY <1>1, <1>4, <2>1 DEF NudgeOK, NudgerOK
  <2>3. (\A v \in Slots : slot'[v].s = s => slot'[v].at # "saving") => nudged[s] <= record[s].last
    BY <1>1, <1>4 DEF NudgeOK
  <2>4. QED
    BY <1>4, <2>1, <2>2, <2>3 DEF NudgeOK
<1>6. CASE s = r.s
  <2>1. \A v \in Slots : Nudger(v, s)' => v = w
    BY <1>1, <1>3, <1>6 DEF Nudger, Committed
  <2>2. nudged[s] < KeyNow(s) /\ nudged[s] <= record[s].last
    BY <1>3, <1>6, AheadOfNudges
  <2>3. \A v \in Slots : Nudger(v, s)' => NudgerOK(v, s)'
    BY <1>1, <1>6, <2>1, <2>2 DEF NudgerOK
  <2>4. QED
    BY <1>4, <2>1, <2>2, <2>3 DEF NudgeOK
<1>7. QED
  BY <1>5, <1>6

(* What a push will leave in the record. *)
LEMMA PushFacts ==
    ASSUME IInv, NEW w \in Slots, WakeAndPush(w)
    PROVE  /\ slot[w].s \in Sessions /\ slot[w].at = "waiting"
           /\ KeyOf(w) \in Keys /\ KeyOf(w) \in Nat /\ KeyOf(w) <= KeyNow(slot[w].s)
           /\ Remembered(w) \in Records /\ Remembered(w).last = KeyOf(w)
           /\ Remembered(w).revived <= record[slot[w].s].revived
           /\ Remembered(w).revived <= KeyNow(slot[w].s)
           /\ \E r \in SlotRecords :
                 /\ At(w, r) /\ r.at = "saving" /\ r.mode = "hook" /\ r.s = slot[w].s
                 /\ r.key = 0 /\ r.copy = Remembered(w)
<1>1. slot[w].s \in Sessions /\ slot[w].key \in Keys /\ slot[w].mode \in Modes /\ now \in 0..MaxTime
  BY FieldTypes DEF IInv, TypeOK
<1>2. KeyNow(slot[w].s) \in Keys /\ \A k \in Keys : k \in Nat
  BY <1>1, Constants, KeyType DEF IInv, Keys
<1>3. slot[w].at = "waiting"
  BY DEF WakeAndPush, Waits
<1>4. KeyOf(w) \in Keys /\ KeyOf(w) <= KeyNow(slot[w].s)
  BY <1>1, <1>2 DEF KeyOf, KeyNow, IInv, Keyed
<1>5. record[slot[w].s] \in Records
  BY <1>1 DEF IInv, TypeOK
<1>6. now \in -1..MaxTime
  BY <1>1, Constants
<1>7. /\ Remembered(w) \in Records /\ Remembered(w).last = KeyOf(w)
      /\ Remembered(w).revived \in {0, record[slot[w].s].revived}
  <2>1. CASE slot[w].mode = "muster"
    BY <1>4, <1>5, <1>6, <2>1 DEF Remembered, Records, KeyOf
  <2>2. CASE slot[w].mode # "muster"
    BY <1>4, <1>6, <2>2, BlankTypes DEF Remembered, Records, NoRecord
  <2>3. QED
    BY <2>1, <2>2
<1>8. record[slot[w].s].revived \in Nat /\ record[slot[w].s].revived <= KeyNow(slot[w].s)
  BY <1>1, <1>5, RecordFacts DEF IInv, Keyed, KeyedBy
<1>9. Remembered(w).revived <= record[slot[w].s].revived /\ Remembered(w).revived <= KeyNow(slot[w].s)
  BY <1>2, <1>7, <1>8
<1> DEFINE m == "hook"
           q == slot[w].s
           c == Remembered(w)
           r == [Idle EXCEPT !.at = "saving", !.mode = m, !.s = q, !.copy = c]
<1>10. /\ r \in SlotRecords /\ r.at = "saving" /\ r.mode = "hook" /\ r.s = q /\ r.key = 0 /\ r.copy = c
  <2>1. m \in Modes /\ m = "hook" /\ q \in Sessions /\ c \in Records
    BY <1>1, <1>7 DEF Modes
  <2> HIDE DEF m, q, c
  <2>2. QED
    BY <2>1, BlankTypes DEF SlotRecords, SlotStates, Idle
<1>11. At(w, r)
  BY DEF WakeAndPush
<1> HIDE DEF r
<1>12. \E x \in SlotRecords : /\ At(w, x) /\ x.at = "saving" /\ x.mode = "hook"
                              /\ x.s = slot[w].s /\ x.key = 0 /\ x.copy = Remembered(w)
  BY <1>10, <1>11
<1>13. QED
  BY <1>1, <1>2, <1>3, <1>4, <1>7, <1>9, <1>12

LEMMA PushNudges ==
    ASSUME IInv, NEW w \in Slots, WakeAndPush(w)
    PROVE  \A s \in Sessions : ~raced'[s] => NudgeOK(s)'
<1>1. /\ slot[w].s \in Sessions /\ slot[w].at = "waiting" /\ KeyOf(w) \in Nat
      /\ Remembered(w).last = KeyOf(w)
  BY PushFacts
<1>2. PICK r \in SlotRecords : /\ At(w, r) /\ r.at = "saving" /\ r.mode = "hook"
                               /\ r.s = slot[w].s /\ r.copy = Remembered(w)
  BY PushFacts
<1>3. slot'[w] = r /\ \A v \in Slots : v # w => slot'[v] = slot[v]
  BY <1>2, SlotType DEF IInv
<1> SUFFICES ASSUME NEW s \in Sessions, ~raced'[s] PROVE NudgeOK(s)'
  OBVIOUS
<1>4. ~raced[s] /\ UNCHANGED record
  BY <1>1 DEF WakeAndPush, Commits, IInv, TypeOK
<1>5. NudgeOK(s) /\ nudged[s] \in Nat /\ twice[s] \in BOOLEAN
  <2>1. nudged[s] \in Keys
    BY DEF IInv, TypeOK
  <2>2. QED
    BY <1>4, <2>1, Constants DEF IInv, Unraced, TypeOK, Keys
<1>6. CASE s # slot[w].s
  <2>1. nudged'[s] = nudged[s] /\ twice'[s] = twice[s]
    BY <1>1, <1>6 DEF WakeAndPush, IInv, TypeOK
  <2>2. \A v \in Slots : Nudger(v, s)' => v # w /\ Nudger(v, s)
    BY <1>2, <1>3, <1>6 DEF Nudger, Committed
  <2>3. \A v \in Slots : Nudger(v, s)' => NudgerOK(v, s)'
    BY <1>3, <1>5, <2>1, <2>2 DEF NudgeOK, NudgerOK
  <2>4. (\A v \in Slots : slot'[v].s = s => slot'[v].at # "saving") => nudged[s] <= record[s].last
    BY <1>3, <1>5, <1>6 DEF NudgeOK
  <2>5. QED
    BY <1>4, <1>5, <2>1, <2>2, <2>3, <2>4 DEF NudgeOK
<1>7. CASE s = slot[w].s
  <2>1. /\ nudged[s] <= KeyOf(w) /\ \A v \in Slots : Nudger(v, s) => v = w
        /\ slot[w].mode # "forced" => nudged[s] < KeyOf(w)
    <3>1. CASE slot[w].mode = "muster"
      <4>1. Nudger(w, s)
        BY <1>1, <1>7, <3>1 DEF Nudger, Committed
      <4>2. nudged[s] < KeyOf(w) /\ \A v \in Slots : Nudger(v, s) => v = w
        BY <1>1, <1>5, <3>1, <4>1 DEF NudgeOK, NudgerOK, KeyOf
      <4>3. QED
        BY <1>1, <1>5, <4>2
    <3>2. CASE slot[w].mode # "muster"
      <4>1. Committed(s) = {}
        BY <1>7, <3>2 DEF WakeAndPush, Commits, IInv, TypeOK
      <4>2. nudged[s] <= KeyNow(s)
        BY <1>4, <1>5, <4>1, AbreastOfNudges
      <4>3. ASSUME slot[w].mode # "forced" PROVE nudged[s] < KeyNow(s)
        <5>1. Refusal(s) = "none"
          BY <1>7, <3>2, <4>3 DEF WakeAndPush, Verdict
        <5>2. State(transcript[s]) # "empty" /\ ~Called(s)
          BY <5>1 DEF Refusal
        <5>3. QED
          BY <1>4, <4>1, <5>2, AheadOfNudges
      <4>4. QED
        BY <1>7, <3>2, <4>1, <4>2, <4>3 DEF KeyOf, KeyNow, Nudger
    <3>3. QED
      BY <3>1, <3>2
  <2>2. \A v \in Slots : Nudger(v, s)' => v = w
    BY <1>3, <2>1 DEF Nudger, Committed
  <2>3. nudged'[s] \in {nudged[s], KeyOf(w)} /\ twice'[s] = twice[s]
    BY <1>1, <1>5, <1>7, <2>1 DEF WakeAndPush, IInv, TypeOK
  <2>4. \A v \in Slots : Nudger(v, s)' => NudgerOK(v, s)'
    BY <1>1, <1>2, <1>3, <1>5, <2>1, <2>2, <2>3 DEF NudgerOK
  <2>5. QED
    BY <1>2, <1>3, <1>5, <1>7, <2>2, <2>3, <2>4 DEF NudgeOK
<1>8. QED
  BY <1>6, <1>7

(* A slot that does not carry a restart leaves the others on their way.     *)
LEMMA RestartedSlot ==
    ASSUME IInv, NEW w \in Slots, \A v \in Slots : v # w => slot'[v] = slot[v],
           UNCHANGED transcript,
           \A s \in Sessions :
               \/ excused'[s] \/ SeenTo(s)' \/ OnItsWay(w, s)'
               \/ /\ up'[s] => up[s] /\ (owed'[s] => owed[s])
                  /\ excused[s] => excused'[s]
                  /\ tried[s] \subseteq tried'[s]
                  /\ ~OnItsWay(w, s)
    PROVE  Restarted'
<1> SUFFICES ASSUME NEW s \in Sessions, up'[s], ~excused'[s], ~SeenTo(s)', ~OnItsWay(w, s)'
             PROVE  \E v \in Slots : OnItsWay(v, s)'
  BY DEF Restarted
<1>1. up[s] /\ ~excused[s] /\ ~OnItsWay(w, s)
  OBVIOUS
<1>2. ~SeenTo(s)
  BY DEF SeenTo, KeyNow
<1>3. PICK v \in Slots : OnItsWay(v, s)
  BY <1>1, <1>2 DEF IInv, Restarted
<1>4. OnItsWay(v, s)'
  BY <1>1, <1>3 DEF OnItsWay
<1>5. QED
  BY <1>4

(* A save replaces the record with the copy of the slot.                    *)
LEMMA SaveFrame ==
    ASSUME IInv, TypeOK', NEW w \in Slots, NEW r \in SlotRecords, At(w, r),
           Save(slot[w].s, slot[w].copy), slot[w].at \in {"noting", "skipping", "saving"},
           r.copy = NoRecord, r.key = 0, r.mode \in {"none", "hook"}, r.at # "saving",
           UNCHANGED <<transcript, nudged, tried, twice, lock, pass, live, again>>,
           \/ UNCHANGED retiree
           \/ slot[w].mode = "retire" /\ retiree' = [retiree EXCEPT ![slot[w].s] = "retired"]
    PROVE  Keyed' /\ Unraced' /\ Locked' /\ Batched' /\ RetiredOK' /\ Trying'
<1>1. slot'[w] = r /\ \A v \in Slots : v # w => slot'[v] = slot[v]
  BY SlotType DEF IInv
<1>2. r.s \in Sessions /\ slot[w].s \in Sessions /\ slot[w].copy \in Records
  BY FieldTypes DEF SlotRecords, IInv
<1>3. \A s \in Sessions : record'[s] = IF s = slot[w].s THEN slot[w].copy ELSE record[s]
  BY DEF Save, IInv, TypeOK
<1>4. NoRecord.last = 0 /\ NoRecord.revived = 0 /\ ~NoRecord.retired
  BY DEF NoRecord
<1>5. \A s \in Sessions : KeyNow(s) \in Nat /\ record[s].last \in Nat /\ record[s].revived \in Nat
  BY FieldTypes, RecordFacts, KeyType DEF IInv
<1>6. Keyed'
  <2>1. \A s \in Sessions : KeyedBy(record[s], s)'
    BY <1>3 DEF IInv, Keyed, KeyedBy, KeyNow
  <2>2. \A v \in Slots : KeyedBy(slot[v].copy, slot[v].s)' /\ (slot[v].key <= KeyNow(slot[v].s))'
    BY <1>1, <1>2, <1>4, <1>5 DEF IInv, Keyed, KeyedBy, KeyNow
  <2>3. \A p \in Passes : KeyedBy(pass[p].copy, pass[p].s)' /\ (pass[p].key <= KeyNow(pass[p].s))'
    BY DEF IInv, Keyed, KeyedBy, KeyNow
  <2>4. QED
    BY <2>1, <2>2, <2>3 DEF Keyed, KeyedBy, KeyNow
<1>7. Unraced'
  <2> SUFFICES ASSUME NEW s \in Sessions, ~raced'[s]
               PROVE  LoadedOK(s)' /\ NudgeOK(s)' /\ ReviveOK(s)'
    BY DEF Unraced
  <2>1. ~raced[s] /\ (s = slot[w].s => ~Drops(s, slot[w].copy))
    BY <1>2 DEF Save, Drops, IInv, TypeOK
  <2>2. LoadedOK(s) /\ NudgeOK(s) /\ ReviveOK(s)
    BY <2>1 DEF IInv, Unraced
  <2>3. slot[w].copy.last \in Nat /\ slot[w].copy.revived \in Nat
    BY <1>2, RecordFacts
  <2>4. /\ record'[s].revived = record[s].revived
        /\ record'[s].last \in Nat /\ record'[s].last >= record[s].last
        /\ slot[w].at # "saving" \/ slot[w].s # s => record'[s].last = record[s].last
    <3>1. CASE s = slot[w].s
      <4>1. slot[w].copy.revived <= record[s].revived
            /\ (slot[w].at # "saving" => slot[w].copy.last <= record[s].last)
        BY <2>2, <3>1 DEF LoadedOK
      <4>2. slot[w].copy.revived >= record[s].revived /\ slot[w].copy.last >= record[s].last
        BY <1>5, <2>1, <2>3, <3>1 DEF Drops
      <4>3. QED
        BY <1>3, <1>5, <2>3, <3>1, <4>1, <4>2
    <3>2. CASE s # slot[w].s
      BY <1>3, <1>5, <3>2
    <3>3. QED
      BY <3>1, <3>2
  <2>5. LoadedOK(s)'
    <3>1. ASSUME NEW v \in Slots, slot'[v].s = s
          PROVE  /\ slot'[v].copy.revived <= record'[s].revived
                 /\ slot'[v].at # "saving" => slot'[v].copy.last <= record'[s].last
      <4>1. CASE v = w
        BY <1>1, <1>4, <1>5, <2>4, <4>1
      <4>2. CASE v # w
        <5>1. slot[v].copy.last \in Nat
          BY FieldTypes, RecordFacts DEF IInv
        <5>2. QED
          BY <1>1, <1>5, <2>2, <2>4, <3>1, <4>2, <5>1 DEF LoadedOK
      <4>3. QED
        BY <4>1, <4>2
    <3>2. ASSUME NEW p \in Passes, pass[p].s = s
          PROVE  /\ pass[p].copy.revived <= record'[s].revived
                 /\ pass[p].copy.last <= record'[s].last
      <4>1. pass[p].copy.last \in Nat
        BY FieldTypes, RecordFacts DEF IInv
      <4>2. QED
        BY <1>5, <2>2, <2>4, <3>2, <4>1 DEF LoadedOK
    <3>3. QED
      BY <3>1, <3>2 DEF LoadedOK
  <2>6. NudgeOK(s)'
    <3>1. \A v \in Slots : Nudger(v, s)' => v # w /\ Nudger(v, s)
      BY <1>1 DEF Nudger, Committed
    <3>2. \A v \in Slots : Nudger(v, s)' => NudgerOK(v, s)'
      BY <1>1, <2>2, <3>1 DEF NudgeOK, NudgerOK
    <3>3. (\A v \in Slots : slot'[v].s = s => slot'[v].at # "saving") => nudged[s] <= record'[s].last
      <4>1. CASE slot[w].at = "saving" /\ slot[w].s = s
        <5>1. NudgerOK(w, s)
          BY <2>2, <4>1 DEF NudgeOK, Nudger, Committed
        <5>2. QED
          BY <1>3, <4>1, <5>1 DEF NudgerOK
      <4>2. CASE slot[w].at # "saving" \/ slot[w].s # s
        BY <1>1, <2>2, <2>4, <4>2 DEF NudgeOK
      <4>3. QED
        BY <4>1, <4>2
    <3>4. QED
      BY <2>2, <3>1, <3>2, <3>3 DEF NudgeOK
  <2>7. ReviveOK(s)'
    BY <2>2, <2>4 DEF ReviveOK
  <2>8. QED
    BY <2>5, <2>6, <2>7
<1>8. Locked'
  BY DEF IInv, Locked
<1>9. Batched'
  BY DEF IInv, Batched, OneRevive, Detached
<1>10. RetiredOK'
  <2>1. \A s \in Sessions : ~erased'[s] =>
            ~erased[s] /\ (s = slot[w].s => ~Unretires(s, slot[w].copy))
    BY <1>2 DEF Save, Unretires, IInv, TypeOK
  <2>2. slot[w].mode = "retire" => slot[w].copy.retired
    BY DEF IInv, RetiredOK
  <2>3. ASSUME NEW s \in Sessions, ~erased'[s]
        PROVE  (retiree'[s] = "retired" => record'[s].retired) /\ retiree'[s] # "revived"
    <3>1. (retiree[s] = "retired" => record[s].retired) /\ retiree[s] # "revived"
      BY <2>1, <2>3 DEF IInv, RetiredOK
    <3>2. CASE s = slot[w].s
      <4>1. record[s].retired => record'[s].retired
        BY <1>3, <2>1, <2>3, <3>2 DEF Unretires
      <4>2. CASE UNCHANGED retiree
        BY <3>1, <4>1, <4>2
      <4>3. CASE slot[w].mode = "retire" /\ retiree' = [retiree EXCEPT ![slot[w].s] = "retired"]
        BY <1>3, <2>2, <3>2, <4>3 DEF IInv, TypeOK
      <4>4. QED
        BY <4>2, <4>3
    <3>3. CASE s # slot[w].s
      BY <1>3, <3>1, <3>3 DEF IInv, TypeOK
    <3>4. QED
      BY <3>2, <3>3
  <2>4. \A v \in Slots : slot'[v].mode = "retire" => slot'[v].copy.retired /\ slot'[v].at = "skipping"
    BY <1>1 DEF IInv, RetiredOK
  <2>5. \A p \in Passes : \A s \in pass[p].retired \cap OnHand(p) : erased'[s]
    <3>1. \A p \in Passes : pass[p].retired \subseteq Sessions
      BY FieldTypes DEF IInv
    <3>2. QED
      BY <2>1, <3>1 DEF IInv, RetiredOK
  <2>6. QED
    BY <2>3, <2>4, <2>5 DEF RetiredOK, OnHand
<1>11. Trying'
  BY <1>1, <1>2, <1>3, <1>4 DEF IInv, Trying, TriedBy
<1>12. QED
  BY <1>6, <1>7, <1>8, <1>9, <1>10, <1>11

LEMMA OperateType == ASSUME TypeOK, Operate PROVE ops' \in 0..MaxOps
BY Constants DEF TypeOK, Operate

LEMMA RestartInv ==
    ASSUME IInv, NEW s \in Sessions, NEW w \in Slots, Restart(s, w)
    PROVE  IInv'
<1>1. record[s] \in Records /\ \A q \in Sessions : KeyNow(q) \in Nat
  BY KeyType DEF IInv, TypeOK
<1>2. PICK b \in BOOLEAN : b = Spawns(s)
  <2>1. Spawns(s) \in BOOLEAN
    BY DEF Spawns
  <2>2. QED
    BY <2>1, Zenon
<1>3. PICK r \in SlotRecords :
          /\ At(w, r) /\ r.at = "noting" /\ r.mode = "hook" /\ r.s = s /\ r.go = b
          /\ r.key = 0 /\ r.copy = record[s]
  <2> DEFINE c == record[s]
             r == [Idle EXCEPT !.at = "noting", !.mode = "hook", !.s = s, !.go = b, !.copy = c]
  <2>1. c \in Records
    BY <1>1
  <2>2. r \in SlotRecords /\ r.at = "noting" /\ r.mode = "hook" /\ r.s = s /\ r.go = b
                                    /\ r.key = 0 /\ r.copy = c
    <3> HIDE DEF c
    <3>1. QED
      BY <2>1, BlankTypes DEF SlotRecords, SlotStates, Modes, Idle
  <2>3. At(w, r)
    BY <1>2 DEF Restart
  <2> HIDE DEF r
  <2>4. QED
    BY <2>2, <2>3
<1>4. slot'[w] = r /\ \A v \in Slots : v # w => slot'[v] = slot[v]
  BY <1>3, SlotType DEF IInv
<1>5. TypeOK'
  <2>1. slot' \in [Slots -> SlotRecords]
    BY <1>3, SlotType DEF IInv
  <2>2. ops' \in 0..MaxOps
    BY OperateType DEF IInv, Restart
  <2>3. PICK e \in BOOLEAN : e = (Refusal(s) \in {"idle", "old"})
    <3>1. (Refusal(s) \in {"idle", "old"}) \in BOOLEAN
      OBVIOUS
    <3>2. QED
      BY <3>1, Zenon
  <2>4. excused' \in [Sessions -> BOOLEAN]
    BY <2>3 DEF Restart, IInv, TypeOK
  <2>5. QED
    BY <2>1, <2>2, <2>4, Constants DEF IInv, TypeOK, Restart, revives
<1>6. slot[w].at = "idle"
  BY DEF Restart
<1>7. Keyed' /\ Unraced' /\ Locked' /\ Batched' /\ RetiredOK' /\ Trying'
  <2>1. \A q \in Sessions : ~raced'[q] => NudgeOK(q)'
    BY <1>3, <1>6, QuietNudges DEF Restart
  <2>2. KeyedBy(r.copy, r.s) /\ TriedBy(r.copy, r.s)' /\ r.key <= KeyNow(r.s)
    BY <1>1, <1>3 DEF IInv, Keyed, KeyedBy, Trying, TriedBy, Restart
  <2>3. r.copy.revived <= record[r.s].revived /\ r.copy.last <= record[r.s].last
    BY <1>1, <1>3, RecordFacts
  <2>4. QED
    BY <1>3, <1>5, <2>1, <2>2, <2>3, SlotFrame DEF Restart, revives
<1>8. Restarted'
  <2>1. excused'[s] \/ OnItsWay(w, s)'
    <3>1. CASE Refusal(s) \in {"idle", "old"}
      BY <3>1 DEF Restart, IInv, TypeOK
    <3>2. CASE Refusal(s) \notin {"idle", "old"}
      <4>1. Refusal(s) \in {"none", "called", "cooldown"}
        BY <3>2 DEF Refusal
      <4>2. r.go
        BY <1>2, <1>3, <4>1, Zenon DEF Spawns
      <4>3. QED
        BY <1>3, <1>4, <4>2 DEF OnItsWay
    <3>3. QED
      BY <3>1, <3>2
  <2>2. \A q \in Sessions : q # s =>
            /\ up'[q] => up[q] /\ (owed'[q] => owed[q])
            /\ excused[q] => excused'[q]
            /\ tried[q] \subseteq tried'[q]
            /\ ~OnItsWay(w, q)
    BY <1>6 DEF Restart, IInv, TypeOK, OnItsWay
  <2>3. QED
    BY <1>4, <2>1, <2>2, RestartedSlot DEF Restart
<1>9. QED
  BY <1>5, <1>7, <1>8 DEF IInv

(* The commands that start a slot without touching the session.             *)
LEMMA CompactInv ==
    ASSUME IInv, NEW s \in Sessions, NEW w \in Slots, Compact(s, w)
    PROVE  IInv'
<1>1. record[s] \in Records /\ \A q \in Sessions : KeyNow(q) \in Nat
  BY KeyType DEF IInv, TypeOK
<1>2. PICK r \in SlotRecords :
          /\ At(w, r) /\ r.at = "noting" /\ r.mode = "hook" /\ r.s = s
          /\ r.key = 0 /\ r.copy = record[s]
  <2> DEFINE c == record[s]
             r == [Idle EXCEPT !.at = "noting", !.mode = "hook", !.s = s, !.copy = c]
  <2>1. c \in Records
    BY <1>1
  <2>2. r \in SlotRecords /\ r.at = "noting" /\ r.mode = "hook" /\ r.s = s
                                    /\ r.key = 0 /\ r.copy = c
    <3> HIDE DEF c
    <3>1. QED
      BY <2>1, BlankTypes DEF SlotRecords, SlotStates, Modes, Idle
  <2>3. At(w, r)
    BY DEF Compact
  <2> HIDE DEF r
  <2>4. QED
    BY <2>2, <2>3
<1>3. slot'[w] = r /\ \A v \in Slots : v # w => slot'[v] = slot[v]
  BY <1>2, SlotType DEF IInv
<1>4. TypeOK'
  <2>1. slot' \in [Slots -> SlotRecords]
    BY <1>2, SlotType DEF IInv
  <2>2. ops' \in 0..MaxOps
    BY OperateType DEF IInv, Compact
  <2>3. QED
    BY <2>1, <2>2, Constants DEF IInv, TypeOK, Compact, revives
<1>5. slot[w].at = "idle"
  BY DEF Compact
<1>6. Keyed' /\ Unraced' /\ Locked' /\ Batched' /\ RetiredOK' /\ Trying'
  <2>1. \A q \in Sessions : ~raced'[q] => NudgeOK(q)'
    BY <1>2, <1>5, QuietNudges DEF Compact
  <2>2. KeyedBy(r.copy, r.s) /\ TriedBy(r.copy, r.s)' /\ r.key <= KeyNow(r.s)
    BY <1>1, <1>2 DEF IInv, Keyed, KeyedBy, Trying, TriedBy, Compact
  <2>3. r.copy.revived <= record[r.s].revived /\ r.copy.last <= record[r.s].last
    BY <1>1, <1>2, RecordFacts
  <2>4. QED
    BY <1>2, <1>4, <2>1, <2>2, <2>3, SlotFrame DEF Compact, revives
<1>7. Restarted'
  BY <1>3, <1>5, RestartedSlot DEF Compact, OnItsWay
<1>8. QED
  BY <1>4, <1>6, <1>7 DEF IInv

(* A sweep, or a nudge that an operator asks for, forced or not. *)
LEMMA CommandInv ==
    ASSUME IInv, NEW s \in Sessions, NEW w \in Slots, Sweep(s, w) \/ Ask(s, w)
    PROVE  IInv'
<1> USE DEF Sweep, Ask
<1>1. record[s] \in Records /\ \A q \in Sessions : /\ KeyNow(q) \in Nat
                                                   /\ LastTurn(transcript[q]) \in Keys
  BY KeyType DEF IInv, TypeOK
<1>2. PICK r \in SlotRecords :
          /\ At(w, r) /\ r.at = "waiting" /\ r.mode \in {"sweep", "ask", "forced"} /\ r.s = s
          /\ r.key = 0 /\ r.copy = NoRecord
  <2>1. PICK mode \in {"sweep", "ask", "forced"}, c \in {0, LastTurn(transcript[s])} :
            Command(s, w, mode, c)
    OBVIOUS
  <2> DEFINE r == [Idle EXCEPT !.at = "waiting", !.mode = mode, !.s = s, !.before = c]
  <2>2. r \in SlotRecords /\ r.at = "waiting" /\ r.mode = mode /\ r.s = s
                                    /\ r.key = 0 /\ r.copy = NoRecord
    <3>1. c \in Keys
      BY <1>1, BlankTypes
    <3>2. QED
      BY <3>1, BlankTypes DEF SlotRecords, SlotStates, Modes, Idle
  <2>3. At(w, r)
    BY <2>1 DEF Command
  <2> HIDE DEF r
  <2>4. QED
    BY <2>1, <2>2, <2>3
<1>3. slot'[w] = r /\ \A v \in Slots : v # w => slot'[v] = slot[v]
  BY <1>2, SlotType DEF IInv
<1>4. TypeOK'
  <2>1. slot' \in [Slots -> SlotRecords]
    BY <1>2, SlotType DEF IInv
  <2>2. ops' \in 0..MaxOps
    BY OperateType DEF IInv
  <2>3. QED
    BY <2>1, <2>2, Constants DEF IInv, TypeOK, revives
<1>5. slot[w].at = "idle"
  OBVIOUS
<1>6. Keyed' /\ Unraced' /\ Locked' /\ Batched' /\ RetiredOK' /\ Trying'
  <2>1. \A q \in Sessions : ~raced'[q] => NudgeOK(q)'
    BY <1>2, <1>5, QuietNudges
  <2>2. KeyedBy(r.copy, r.s) /\ TriedBy(r.copy, r.s)' /\ r.key <= KeyNow(r.s)
    BY <1>1, <1>2 DEF KeyedBy, TriedBy, NoRecord
  <2>3. r.copy.revived <= record[r.s].revived /\ r.copy.last <= record[r.s].last
    BY <1>1, <1>2, RecordFacts DEF NoRecord
  <2>4. QED
    BY <1>2, <1>4, <2>1, <2>2, <2>3, SlotFrame DEF revives
<1>7. Restarted'
  BY <1>3, <1>5, RestartedSlot DEF OnItsWay
<1>8. QED
  BY <1>4, <1>6, <1>7 DEF IInv

LEMMA RetireInv ==
    ASSUME IInv, NEW s \in Sessions, NEW w \in Slots, Retire(s, w)
    PROVE  IInv'
<1>1. record[s] \in Records /\ \A q \in Sessions : KeyNow(q) \in Nat
  BY KeyType DEF IInv, TypeOK
<1> DEFINE c == [record[s] EXCEPT !.retired = TRUE]
<1>2. c \in Records /\ c.last = record[s].last /\ c.revived = record[s].revived /\ c.retired
  BY <1>1 DEF Records
<1>3. PICK r \in SlotRecords :
          /\ At(w, r) /\ r.at = "skipping" /\ r.mode = "retire" /\ r.s = s
          /\ r.key = 0 /\ r.copy = c
  <2> DEFINE r == [Idle EXCEPT !.at = "skipping", !.mode = "retire", !.s = s, !.copy = c]
  <2>1. c \in Records
    BY <1>2
  <2>2. r \in SlotRecords /\ r.at = "skipping" /\ r.mode = "retire" /\ r.s = s
                                    /\ r.key = 0 /\ r.copy = c
    <3>1. QED
      BY <2>1, BlankTypes DEF SlotRecords, SlotStates, Modes, Idle
  <2>3. At(w, r)
    BY DEF Retire
  <2> HIDE DEF r
  <2>4. QED
    BY <2>2, <2>3
<1> HIDE DEF c
<1>4. slot'[w] = r /\ \A v \in Slots : v # w => slot'[v] = slot[v]
  BY <1>3, SlotType DEF IInv
<1>5. TypeOK'
  <2>1. slot' \in [Slots -> SlotRecords]
    BY <1>3, SlotType DEF IInv
  <2>2. ops' \in 0..MaxOps
    BY OperateType DEF IInv, Retire
  <2>3. QED
    BY <2>1, <2>2, Constants DEF IInv, TypeOK, Retire, revives
<1>6. slot[w].at = "idle"
  BY DEF Retire
<1>7. Keyed' /\ Unraced' /\ Locked' /\ Batched' /\ RetiredOK' /\ Trying'
  <2>1. \A q \in Sessions : ~raced'[q] => NudgeOK(q)'
    BY <1>3, <1>6, QuietNudges DEF Retire
  <2>2. KeyedBy(r.copy, r.s) /\ TriedBy(r.copy, r.s)' /\ r.key <= KeyNow(r.s)
    BY <1>1, <1>2, <1>3 DEF IInv, Keyed, KeyedBy, Trying, TriedBy, Retire
  <2>3. r.copy.revived <= record[r.s].revived /\ r.copy.last <= record[r.s].last
    BY <1>1, <1>2, <1>3, RecordFacts
  <2>4. QED
    BY <1>2, <1>3, <1>5, <2>1, <2>2, <2>3, SlotFrame DEF Retire, revives
<1>8. Restarted'
  BY <1>4, <1>6, RestartedSlot DEF Retire, OnItsWay
<1>9. QED
  BY <1>5, <1>7, <1>8 DEF IInv

LEMMA MusterInv ==
    ASSUME IInv, NEW s \in Sessions, NEW w \in Slots, Muster(s, w)
    PROVE  IInv'
<1>1. record[s] \in Records /\ \A q \in Sessions : /\ KeyNow(q) \in Keys /\ KeyNow(q) \in Nat
                                                   /\ LastTurn(transcript[q]) \in Keys
  BY KeyType DEF IInv, TypeOK
<1>2. PICK r \in SlotRecords :
          /\ At(w, r) /\ r.at = "waiting" /\ r.mode = "muster" /\ r.s = s
          /\ r.key = KeyNow(s) /\ r.copy = NoRecord
  <2> DEFINE c == LastTurn(transcript[s])
             k == Key(transcript[s])
             r == [Idle EXCEPT !.at = "waiting", !.mode = "muster", !.s = s, !.before = c, !.key = k]
  <2>1. c \in Keys /\ k \in Keys /\ k = KeyNow(s)
    BY <1>1 DEF KeyNow
  <2>2. r \in SlotRecords /\ r.at = "waiting" /\ r.mode = "muster" /\ r.s = s
                          /\ r.key = k /\ r.copy = NoRecord
    <3> HIDE DEF c, k
    <3>1. QED
      BY <2>1, BlankTypes DEF SlotRecords, SlotStates, Modes, Idle
  <2>3. At(w, r)
    BY DEF Muster
  <2> HIDE DEF r, k
  <2>4. QED
    BY <2>1, <2>2, <2>3
<1>3. slot'[w] = r /\ \A v \in Slots : v # w => slot'[v] = slot[v]
  BY <1>2, SlotType DEF IInv
<1>4. TypeOK'
  <2>1. slot' \in [Slots -> SlotRecords]
    BY <1>2, SlotType DEF IInv
  <2>2. ops' \in 0..MaxOps
    BY OperateType DEF IInv, Muster
  <2>3. raced' \in [Sessions -> BOOLEAN]
    BY DEF Muster, Commits, IInv, TypeOK
  <2>4. QED
    BY <2>1, <2>2, <2>3, Constants DEF IInv, TypeOK, Muster, revives
<1>5. slot[w].at = "idle" /\ State(transcript[s]) # "empty" /\ ~Called(s)
  BY DEF Muster
<1>6. Keyed' /\ Unraced' /\ Locked' /\ Batched' /\ RetiredOK' /\ Trying'
  <2>1. \A q \in Sessions : ~raced'[q] => NudgeOK(q)'
    BY <1>2, <1>5, MusterNudges DEF Muster
  <2>2. KeyedBy(r.copy, r.s) /\ TriedBy(r.copy, r.s)' /\ r.key <= KeyNow(r.s)
    BY <1>1, <1>2 DEF KeyedBy, TriedBy, NoRecord
  <2>3. r.copy.revived <= record[r.s].revived /\ r.copy.last <= record[r.s].last
    BY <1>1, <1>2, RecordFacts DEF NoRecord
  <2>4. \A q \in Sessions : raced[q] => raced'[q]
    BY DEF Muster, Commits, IInv, TypeOK
  <2>5. QED
    BY <1>2, <1>4, <2>1, <2>2, <2>3, <2>4, SlotFrame DEF Muster, revives
<1>7. Restarted'
  BY <1>3, <1>5, RestartedSlot DEF Muster, OnItsWay
<1>8. QED
  BY <1>4, <1>6, <1>7 DEF IInv

LEMMA SaveTypes ==
    ASSUME IInv, NEW w \in Slots, Save(slot[w].s, slot[w].copy)
    PROVE  /\ record' \in [Sessions -> Records]
           /\ raced' \in [Sessions -> BOOLEAN] /\ erased' \in [Sessions -> BOOLEAN]
<1>1. slot[w].s \in Sessions /\ slot[w].copy \in Records
  BY FieldTypes DEF IInv
<1>2. record' \in [Sessions -> Records]
  BY <1>1 DEF Save, IInv, TypeOK
<1>3. raced' \in [Sessions -> BOOLEAN]
  BY <1>1 DEF Save, Drops, IInv, TypeOK
<1>4. erased' \in [Sessions -> BOOLEAN]
  BY <1>1 DEF Save, Unretires, IInv, TypeOK
<1>5. QED
  BY <1>2, <1>3, <1>4

LEMMA SaveNoteInv ==
    ASSUME IInv, NEW w \in Slots, SaveNote(w)
    PROVE  IInv'
<1>1. slot[w].s \in Sessions /\ slot[w].at = "noting" /\ LastTurn(transcript[slot[w].s]) \in Keys
  BY FieldTypes, KeyType DEF IInv, SaveNote
<1>2. PICK r \in SlotRecords :
          /\ At(w, r) /\ r.copy = NoRecord /\ r.key = 0 /\ r.mode \in {"none", "hook"}
          /\ r.at # "saving"
          /\ \/ slot[w].go /\ r.at = "waiting" /\ r.mode = "hook" /\ r.s = slot[w].s
             \/ slot[w].go /\ Excuse(slot[w].s)
             \/ ~slot[w].go
  <2>1. CASE Rest(w) /\ ((slot[w].go /\ Excuse(slot[w].s)) \/ ~slot[w].go)
    BY <2>1, BlankTypes DEF Rest
  <2>2. CASE ~(Rest(w) /\ ((slot[w].go /\ Excuse(slot[w].s)) \/ ~slot[w].go))
    <3> DEFINE q == slot[w].s
               c == LastTurn(transcript[q])
               r == [Idle EXCEPT !.at = "waiting", !.mode = "hook", !.s = q, !.before = c]
    <3>1. q \in Sessions /\ c \in Keys
      BY <1>1
    <3>2. slot[w].go /\ At(w, r)
      BY <2>2 DEF SaveNote
    <3>3. r \in SlotRecords /\ r.at = "waiting" /\ r.mode = "hook" /\ r.s = q
                            /\ r.key = 0 /\ r.copy = NoRecord
      <4> HIDE DEF c, q
      <4>1. QED
        BY <3>1, BlankTypes DEF SlotRecords, SlotStates, Modes, Idle
    <3> HIDE DEF r
    <3>4. QED
      BY <3>2, <3>3
  <2>3. QED
    BY <2>1, <2>2
<1>3. slot'[w] = r /\ \A v \in Slots : v # w => slot'[v] = slot[v]
  BY <1>2, SlotType DEF IInv
<1>4. Save(slot[w].s, slot[w].copy) /\ (UNCHANGED excused \/ Excuse(slot[w].s))
  BY DEF SaveNote
<1>5. TypeOK'
  <2>1. slot' \in [Slots -> SlotRecords]
    BY <1>2, SlotType DEF IInv
  <2>2. /\ record' \in [Sessions -> Records]
        /\ raced' \in [Sessions -> BOOLEAN] /\ erased' \in [Sessions -> BOOLEAN]
    BY <1>4, SaveTypes
  <2>3. excused' \in [Sessions -> BOOLEAN]
    BY <1>4 DEF Excuse, IInv, TypeOK
  <2>4. QED
    BY <2>1, <2>2, <2>3, Constants DEF IInv, TypeOK, SaveNote, revives
<1>6. Keyed' /\ Unraced' /\ Locked' /\ Batched' /\ RetiredOK' /\ Trying'
  BY <1>1, <1>2, <1>4, <1>5, SaveFrame DEF SaveNote, revives
<1>7. Restarted'
  <2>1. ASSUME NEW s \in Sessions
        PROVE  \/ excused'[s] \/ OnItsWay(w, s)'
               \/ (excused[s] => excused'[s]) /\ ~OnItsWay(w, s)
    <3>1. excused[s] => excused'[s]
      BY <1>4 DEF Excuse, IInv, TypeOK
    <3>2. CASE s # slot[w].s \/ ~slot[w].go
      BY <1>1, <3>1, <3>2 DEF OnItsWay
    <3>3. CASE s = slot[w].s /\ slot[w].go /\ Excuse(slot[w].s)
      BY <3>3 DEF Excuse, IInv, TypeOK
    <3>4. CASE s = slot[w].s /\ r.at = "waiting" /\ r.mode = "hook" /\ r.s = slot[w].s
      BY <1>3, <3>4 DEF OnItsWay
    <3>5. QED
      BY <1>2, <3>2, <3>3, <3>4
  <2>2. UNCHANGED <<transcript, up, owed, tried>>
    BY DEF SaveNote
  <2>3. QED
    BY <1>3, <2>1, <2>2, RestartedSlot
<1>8. QED
  BY <1>5, <1>6, <1>7 DEF IInv

LEMMA SaveRecordInv ==
    ASSUME IInv, NEW w \in Slots, SaveRecord(w)
    PROVE  IInv'
<1>1. slot[w].s \in Sessions /\ slot[w].at \in {"skipping", "saving"}
  BY FieldTypes DEF IInv, SaveRecord
<1>2. At(w, Idle) /\ Save(slot[w].s, slot[w].copy)
  BY DEF SaveRecord, Rest
<1>3. /\ slot' \in [Slots -> SlotRecords]
      /\ slot'[w] = Idle /\ \A v \in Slots : v # w => slot'[v] = slot[v]
  BY <1>2, BlankTypes, SlotType DEF IInv
<1>4. TypeOK'
  <2>1. /\ record' \in [Sessions -> Records]
        /\ raced' \in [Sessions -> BOOLEAN] /\ erased' \in [Sessions -> BOOLEAN]
    BY <1>2, SaveTypes
  <2>2. retiree' \in [Sessions -> {"no", "retired", "revived"}]
    BY DEF SaveRecord, IInv, TypeOK
  <2>3. QED
    BY <1>3, <2>1, <2>2, Constants DEF IInv, TypeOK, SaveRecord
<1>5. Keyed' /\ Unraced' /\ Locked' /\ Batched' /\ RetiredOK' /\ Trying'
  <2>1. \/ UNCHANGED retiree
        \/ slot[w].mode = "retire" /\ retiree' = [retiree EXCEPT ![slot[w].s] = "retired"]
    BY DEF SaveRecord
  <2>2. QED
    BY <1>1, <1>2, <1>4, <2>1, BlankTypes, SaveFrame DEF SaveRecord
<1>6. Restarted'
  BY <1>1, <1>3, RestartedSlot DEF SaveRecord, OnItsWay
<1>7. QED
  BY <1>4, <1>5, <1>6 DEF IInv

LEMMA SlotDiesInv ==
    ASSUME IInv, NEW w \in Slots, SlotDies(w)
    PROVE  IInv'
<1>1. slot[w].s \in Sessions /\ At(w, Idle)
  BY FieldTypes DEF IInv, SlotDies, Rest
<1>2. /\ slot' \in [Slots -> SlotRecords]
      /\ slot'[w] = Idle /\ \A v \in Slots : v # w => slot'[v] = slot[v]
  BY <1>1, BlankTypes, SlotType DEF IInv
<1>3. TypeOK'
  <2>1. ops' \in 0..MaxOps
    BY OperateType DEF IInv, SlotDies
  <2>2. raced' \in [Sessions -> BOOLEAN] /\ excused' \in [Sessions -> BOOLEAN]
    BY DEF SlotDies, Excuse, IInv, TypeOK
  <2>3. QED
    BY <1>2, <2>1, <2>2, Constants DEF IInv, TypeOK, SlotDies, revives
<1>4. Keyed' /\ Unraced' /\ Locked' /\ Batched' /\ RetiredOK' /\ Trying'
  <2>1. /\ \A q \in Sessions : raced[q] => raced'[q]
        /\ slot[w].at = "saving" => raced'[slot[w].s]
    BY <1>1 DEF SlotDies, IInv, TypeOK
  <2>2. \A q \in Sessions : ~raced'[q] => NudgeOK(q)'
    BY <1>1, <2>1, BlankTypes, QuietNudges DEF SlotDies
  <2>3. KeyNow(AnySession) \in Nat /\ record[AnySession] \in Records
    BY BlankTypes, KeyType DEF IInv, TypeOK
  <2>4. KeyedBy(Idle.copy, Idle.s) /\ TriedBy(Idle.copy, Idle.s)' /\ Idle.key <= KeyNow(Idle.s)
    BY <2>3, BlankTypes DEF KeyedBy, TriedBy, NoRecord
  <2>5. Idle.copy.revived <= record[Idle.s].revived /\ Idle.copy.last <= record[Idle.s].last
    BY <2>3, BlankTypes, RecordFacts DEF NoRecord
  <2>6. QED
    BY <1>1, <1>3, <2>1, <2>2, <2>4, <2>5, BlankTypes, SlotFrame DEF SlotDies, revives
<1>5. Restarted'
  <2>1. \A q \in Sessions : (excused[q] => excused'[q]) /\ (q = slot[w].s => excused'[q])
    BY <1>1 DEF SlotDies, Excuse, IInv, TypeOK
  <2>2. QED
    BY <1>2, <2>1, RestartedSlot DEF SlotDies, OnItsWay
<1>6. QED
  BY <1>3, <1>4, <1>5 DEF IInv

LEMMA WakeAndPushInv ==
    ASSUME IInv, NEW w \in Slots, WakeAndPush(w)
    PROVE  IInv'
<1>1. /\ slot[w].s \in Sessions /\ slot[w].at = "waiting"
      /\ KeyOf(w) \in Keys /\ KeyOf(w) \in Nat /\ KeyOf(w) <= KeyNow(slot[w].s)
      /\ Remembered(w).last = KeyOf(w)
      /\ Remembered(w).revived <= record[slot[w].s].revived
      /\ Remembered(w).revived <= KeyNow(slot[w].s)
  BY PushFacts
<1>2. PICK r \in SlotRecords :
          /\ At(w, r) /\ r.at = "saving" /\ r.mode = "hook" /\ r.s = slot[w].s
          /\ r.key = 0 /\ r.copy = Remembered(w)
  BY PushFacts
<1>3. /\ slot' \in [Slots -> SlotRecords]
      /\ slot'[w] = r /\ \A v \in Slots : v # w => slot'[v] = slot[v]
  BY <1>2, SlotType DEF IInv
<1>4. /\ \A q \in Sessions : tried[q] \subseteq tried'[q] /\ (raced[q] => raced'[q])
      /\ KeyOf(w) \in tried'[slot[w].s]
      /\ tried' \in [Sessions -> SUBSET Keys] /\ raced' \in [Sessions -> BOOLEAN]
  <2>1. tried' = [tried EXCEPT ![slot[w].s] = @ \cup {KeyOf(w)}]
    BY DEF WakeAndPush
  <2>2. /\ \A q \in Sessions : tried[q] \subseteq tried'[q]
        /\ KeyOf(w) \in tried'[slot[w].s]
        /\ tried' \in [Sessions -> SUBSET Keys]
    BY <1>1, <2>1 DEF IInv, TypeOK
  <2>3. UNCHANGED raced \/ Commits(slot[w].s)
    BY DEF WakeAndPush
  <2>4. (\A q \in Sessions : raced[q] => raced'[q]) /\ raced' \in [Sessions -> BOOLEAN]
    BY <1>1, <2>3 DEF Commits, IInv, TypeOK
  <2>5. QED
    BY <2>2, <2>4
<1>5. TypeOK'
  <2>1. /\ inbox' \in [Sessions -> Nat] /\ nudged' \in [Sessions -> Keys]
        /\ twice' \in [Sessions -> BOOLEAN]
    <3>1. CASE UNCHANGED <<inbox, nudged, twice>>
      BY <3>1 DEF IInv, TypeOK
    <3>2. CASE ~ UNCHANGED <<inbox, nudged, twice>>
      <4>1. /\ inbox' = [inbox EXCEPT ![slot[w].s] = @ + 1]
            /\ nudged' = [nudged EXCEPT ![slot[w].s] = KeyOf(w)]
            /\ twice' = [twice EXCEPT ![slot[w].s] =
                  @ \/ (KeyOf(w) = nudged[slot[w].s] /\ slot[w].mode # "forced")]
        BY <3>2 DEF WakeAndPush
      <4>2. inbox' \in [Sessions -> Nat] /\ nudged' \in [Sessions -> Keys]
        BY <1>1, <4>1 DEF IInv, TypeOK
      <4>3. twice' \in [Sessions -> BOOLEAN]
        BY <1>1, <4>1 DEF IInv, TypeOK
      <4>4. QED
        BY <4>2, <4>3
    <3>3. QED
      BY <3>1, <3>2
  <2>2. UNCHANGED <<now, transcript, turnAt, up, owed, record, excused, revives, erased, ops>>
    BY DEF WakeAndPush
  <2>3. QED
    BY <1>3, <1>4, <2>1, <2>2, Constants DEF IInv, TypeOK, revives
<1>6. Keyed' /\ Unraced' /\ Locked' /\ Batched' /\ RetiredOK' /\ Trying'
  <2>1. \A q \in Sessions : ~raced'[q] => NudgeOK(q)'
    BY PushNudges
  <2>2. KeyedBy(r.copy, r.s) /\ TriedBy(r.copy, r.s)' /\ r.key <= KeyNow(r.s)
    <3>1. KeyNow(slot[w].s) \in Nat
      BY <1>1, KeyType DEF IInv
    <3>2. QED
      BY <1>1, <1>2, <1>4, <3>1 DEF KeyedBy, TriedBy
  <2>3. r.copy.revived <= record[r.s].revived
    BY <1>1, <1>2
  <2>4. r.mode # "retire"
    BY <1>1, <1>2 DEF IInv, RetiredOK
  <2>5. UNCHANGED <<transcript, record, lock, pass, live, again, retiree, erased>>
    BY DEF WakeAndPush, revives
  <2>6. QED
    BY <1>2, <1>4, <1>5, <2>1, <2>2, <2>3, <2>4, <2>5, SlotFrame
<1>7. Restarted'
  <2>1. ASSUME NEW s \in Sessions
        PROVE  SeenTo(s)' \/ ((excused[s] => excused'[s]) /\ tried[s] \subseteq tried'[s] /\ ~OnItsWay(w, s))
    <3>1. UNCHANGED <<excused, owed, transcript>>
      BY DEF WakeAndPush
    <3>2. CASE s = slot[w].s /\ slot[w].mode = "hook"
      <4>1. ~owed[s] /\ KeyOf(w) = KeyNow(s)
        BY <3>2 DEF WakeAndPush, Waits, KeyOf, KeyNow
      <4>2. QED
        BY <1>4, <3>1, <3>2, <4>1 DEF SeenTo, KeyNow
    <3>3. CASE ~(s = slot[w].s /\ slot[w].mode = "hook")
      BY <1>4, <3>1, <3>3 DEF OnItsWay
    <3>4. QED
      BY <3>2, <3>3
  <2>2. UNCHANGED <<transcript, up, owed>>
    BY DEF WakeAndPush
  <2>3. QED
    BY <1>3, <2>1, <2>2, RestartedSlot
<1>8. QED
  BY <1>5, <1>6, <1>7 DEF IInv

LEMMA WakeAndSkipInv ==
    ASSUME IInv, NEW w \in Slots, WakeAndSkip(w)
    PROVE  IInv'
<1>1. slot[w].s \in Sessions /\ slot[w].at = "waiting" /\ record[slot[w].s] \in Records
  BY FieldTypes DEF IInv, WakeAndSkip, Waits
<1>2. /\ \A q \in Sessions : KeyNow(q) \in Nat /\ record[q] \in Records
      /\ record[slot[w].s].last \in Nat
  BY <1>1, FieldTypes, RecordFacts, KeyType DEF IInv
<1>3. PICK r \in SlotRecords :
          /\ At(w, r) /\ r.at \in {"idle", "skipping"} /\ r.mode \in {"none", "hook"} /\ r.key = 0
          /\ r.copy \in {NoRecord, record[r.s]}
  <2>1. CASE slot[w].mode = "muster"
    BY <2>1, BlankTypes DEF WakeAndSkip, Rest
  <2>2. CASE slot[w].mode # "muster"
    <3> DEFINE q == slot[w].s
               c == record[q]
               r == [Idle EXCEPT !.at = "skipping", !.mode = "hook", !.s = q, !.copy = c]
    <3>1. q \in Sessions /\ c \in Records /\ c = record[q]
      BY <1>1
    <3>2. r \in SlotRecords /\ r.at = "skipping" /\ r.mode = "hook" /\ r.s = q
                            /\ r.key = 0 /\ r.copy = c
      <4> HIDE DEF c, q
      <4>1. QED
        BY <3>1, BlankTypes DEF SlotRecords, SlotStates, Modes, Idle
    <3>3. At(w, r)
      BY <2>2 DEF WakeAndSkip
    <3> HIDE DEF r, c
    <3>4. QED
      BY <3>1, <3>2, <3>3
  <2>3. QED
    BY <2>1, <2>2
<1>4. /\ slot' \in [Slots -> SlotRecords]
      /\ slot'[w] = r /\ \A v \in Slots : v # w => slot'[v] = slot[v]
  BY <1>3, SlotType DEF IInv
<1>5. TypeOK'
  <2>1. excused' \in [Sessions -> BOOLEAN]
    BY DEF WakeAndSkip, Excuse, IInv, TypeOK
  <2>2. QED
    BY <1>4, <2>1, Constants DEF IInv, TypeOK, WakeAndSkip, revives
<1>6. Keyed' /\ Unraced' /\ Locked' /\ Batched' /\ RetiredOK' /\ Trying'
  <2>1. \A q \in Sessions : ~raced'[q] => NudgeOK(q)'
    BY <1>1, <1>3, QuietNudges DEF WakeAndSkip
  <2>2. r.s \in Sessions
    BY DEF SlotRecords
  <2>3. KeyedBy(r.copy, r.s) /\ TriedBy(r.copy, r.s) /\ r.key <= KeyNow(r.s)
    BY <1>2, <1>3, <2>2 DEF IInv, Keyed, KeyedBy, Trying, TriedBy, NoRecord
  <2>4. TriedBy(r.copy, r.s)'
    BY <2>3 DEF TriedBy, WakeAndSkip
  <2>5. r.copy.revived <= record[r.s].revived /\ r.copy.last <= record[r.s].last
    BY <1>2, <1>3, <2>2, RecordFacts DEF NoRecord
  <2>6. QED
    BY <1>3, <1>5, <2>1, <2>3, <2>4, <2>5, SlotFrame DEF WakeAndSkip, revives
<1>7. Restarted'
  <2>1. ASSUME NEW s \in Sessions
        PROVE  \/ excused'[s] \/ SeenTo(s)'
               \/ (excused[s] => excused'[s]) /\ ~OnItsWay(w, s)
    <3>1. UNCHANGED <<tried, owed, transcript>>
      BY DEF WakeAndSkip
    <3>2. excused[s] => excused'[s]
      BY DEF WakeAndSkip, Excuse, IInv, TypeOK
    <3>3. CASE ~(s = slot[w].s /\ slot[w].mode = "hook")
      BY <3>2, <3>3 DEF OnItsWay
    <3>4. CASE s = slot[w].s /\ slot[w].mode = "hook" /\ Verdict(w) # "called"
      BY <1>1, <3>4 DEF WakeAndSkip, Excuse, IInv, TypeOK
    <3>5. CASE s = slot[w].s /\ slot[w].mode = "hook" /\ Verdict(w) = "called"
      <4>1. Called(s)
        BY <3>5 DEF Verdict, Refusal
      <4>2. KeyNow(s) \in tried[s]
        BY <4>1 DEF Called, KeyNow, IInv, Trying, TriedBy
      <4>3. ~owed[s]
        BY <3>5 DEF WakeAndSkip, Waits
      <4>4. QED
        BY <3>1, <4>2, <4>3 DEF SeenTo, KeyNow
    <3>6. QED
      BY <3>3, <3>4, <3>5
  <2>2. UNCHANGED <<transcript, up, owed, tried>>
    BY DEF WakeAndSkip
  <2>3. QED
    BY <1>4, <2>1, <2>2, RestartedSlot
<1>8. QED
  BY <1>5, <1>6, <1>7 DEF IInv

-----------------------------------------------------------------------------
(* Steps of the passes *)

LEMMA PassType ==
    ASSUME TypeOK, NEW p \in Passes, NEW r \in PassRecords, AtPass(p, r)
    PROVE  /\ pass' \in [Passes -> PassRecords]
           /\ pass'[p] = r
           /\ \A q \in Passes : q # p => pass'[q] = pass[q]
BY DEF TypeOK, AtPass

(* What a step of a pass leaves alone, when the revives are accounted for.  *)
LEMMA PassFrame ==
    ASSUME IInv, TypeOK', NEW p \in Passes, NEW r \in PassRecords, AtPass(p, r),
           KeyedBy(r.copy, r.s), r.key <= KeyNow(r.s), TriedBy(r.copy, r.s),
           ~raced[r.s] => /\ r.copy.revived <= record[r.s].revived
                          /\ r.copy.last <= record[r.s].last,
           \A s \in Sessions : raced[s] => raced'[s],
           \A s \in Sessions : ~raced'[s] => ReviveOK(s)',
           Locked', Batched',
           \A s \in r.retired \cap OnHand(p)' : erased[s],
           \A s \in Sessions : retiree'[s] = retiree[s] \/ erased[s],
           UNCHANGED <<transcript, up, owed, record, slot, nudged, tried, twice, excused, erased>>
    PROVE  IInv'
<1>1. pass'[p] = r /\ \A q \in Passes : q # p => pass'[q] = pass[q]
  BY PassType DEF IInv
<1>2. Keyed'
  BY <1>1 DEF IInv, Keyed, KeyedBy, KeyNow
<1>3. Unraced'
  <2> SUFFICES ASSUME NEW s \in Sessions, ~raced'[s]
               PROVE  LoadedOK(s)' /\ NudgeOK(s)' /\ ReviveOK(s)'
    BY DEF Unraced
  <2>1. LoadedOK(s) /\ NudgeOK(s)
    BY DEF IInv, Unraced
  <2>2. LoadedOK(s)'
    BY <1>1, <2>1 DEF LoadedOK
  <2>3. NudgeOK(s)'
    BY <2>1 DEF NudgeOK, NudgerOK, Nudger, Committed
  <2>4. QED
    BY <2>2, <2>3
<1>4. RetiredOK'
  <2>1. \A q \in Passes : q # p => OnHand(q)' = OnHand(q) /\ pass'[q].retired = pass[q].retired
    BY <1>1 DEF OnHand
  <2>2. \A q \in Passes : \A s \in pass'[q].retired \cap OnHand(q)' : erased'[s]
    BY <1>1, <2>1 DEF IInv, RetiredOK
  <2>3. QED
    BY <2>2 DEF IInv, RetiredOK
<1>5. Trying'
  BY <1>1 DEF IInv, Trying, TriedBy
<1>6. Restarted'
  BY RestartedFrame
<1>7. QED
  BY <1>2, <1>3, <1>4, <1>5, <1>6 DEF IInv

(* A pass that neither launched nor is about to, or that looked first.      *)
LEMMA QuietRevive ==
    ASSUME IInv, NEW p \in Passes, NEW r \in PassRecords, AtPass(p, r),
           pass[p].at = "recording" => raced'[pass[p].s],
           r.at # "recording",
           r.at \in {"probing", "launching"} => (~raced[r.s] => r.key > record[r.s].revived),
           \A s \in Sessions : raced[s] => raced'[s],
           UNCHANGED <<record, again>>
    PROVE  \A s \in Sessions : ~raced'[s] => ReviveOK(s)'
<1>1. pass'[p] = r /\ \A q \in Passes : q # p => pass'[q] = pass[q]
  BY PassType DEF IInv
<1> SUFFICES ASSUME NEW s \in Sessions, ~raced'[s] PROVE ReviveOK(s)'
  OBVIOUS
<1>2. ReviveOK(s) /\ ~raced[s]
  BY DEF IInv, Unraced
<1>3. \/ again[s].key <= record[s].revived
      \/ \E q \in Passes : /\ pass'[q].at = "recording" /\ pass'[q].s = s
                           /\ again[s].key <= pass'[q].key
  BY <1>1, <1>2 DEF ReviveOK
<1>4. \A q \in Passes : pass'[q].s = s /\ pass'[q].at \in {"probing", "launching"} =>
          pass'[q].key > record[s].revived
  BY <1>1, <1>2 DEF ReviveOK
<1>5. QED
  BY <1>2, <1>3, <1>4 DEF ReviveOK

LEMMA QuietBatch ==
    ASSUME IInv, NEW p \in Passes, NEW r \in PassRecords, AtPass(p, r), UNCHANGED live,
           r.at = "launching" => /\ live[r.s] = 0
                                 /\ Cardinality(Detached) + r.launched < MaxBatch
    PROVE  Batched'
<1>1. pass'[p] = r /\ \A q \in Passes : q # p => pass'[q] = pass[q]
  BY PassType DEF IInv
<1>2. Detached' = Detached
  BY DEF Detached
<1>3. QED
  BY <1>1, <1>2 DEF IInv, Batched, OneRevive

(* The holder of the lock is the only pass under way.                       *)
LEMMA HeldLock ==
    ASSUME IInv, NEW p \in Passes, NEW r \in PassRecords, AtPass(p, r),
           \/ pass[p].at # "idle" /\ (UNCHANGED lock \/ r.at = "idle")
           \/ lock = NoPass /\ lock' = p
    PROVE  /\ Locked'
           /\ \A q \in Passes : q # p => pass[q].at = "idle" /\ pass'[q] = pass[q]
<1>1. pass'[p] = r /\ \A q \in Passes : q # p => pass'[q] = pass[q]
  BY PassType DEF IInv
<1>2. \A q \in Passes : q # p => pass[q].at = "idle"
  BY Constants DEF IInv, Locked
<1>3. pass[p].at # "idle" => lock = p
  BY DEF IInv, Locked
<1>4. QED
  BY <1>1, <1>2, <1>3 DEF Locked

LEMMA StartPassInv ==
    ASSUME IInv, NEW p \in Passes, StartPass(p)
    PROVE  IInv'
<1> DEFINE gone == {s \in Sessions : retiree[s] = "retired"}
           c == Cold
           d == Detached
           r == [Resting EXCEPT !.at = "next", !.rows = c, !.census = d, !.retired = gone]
<1>1. c \subseteq Sessions /\ d \subseteq Sessions /\ gone \subseteq Sessions
  BY DEF Cold, Detached
<1>2. AtPass(p, r)
  BY DEF StartPass
<1>3. \A s \in gone \cap c : erased[s]
  BY DEF Cold, Retired, IInv, RetiredOK
<1> HIDE DEF c, d, gone
<1>4. /\ r \in PassRecords /\ r.at = "next" /\ r.rows = c /\ r.s = AnySession /\ r.key = 0
      /\ r.copy = NoRecord /\ r.retired = gone
  BY <1>1, BlankTypes DEF PassRecords, PassStates, Resting
<1> HIDE DEF r
<1>5. pass' \in [Passes -> PassRecords] /\ pass'[p] = r
  BY <1>2, <1>4, PassType DEF IInv
<1>6. lock = NoPass /\ lock' = p /\ pass[p].at = "idle"
  BY DEF StartPass, LockFree
<1>7. TypeOK'
  <2>1. ops' \in 0..MaxOps
    BY OperateType DEF IInv, StartPass
  <2>2. QED
    BY <1>5, <2>1, Constants DEF IInv, TypeOK, StartPass, slots
<1>8. Locked'
  BY <1>2, <1>4, <1>6, HeldLock
<1>9. Batched'
  BY <1>2, <1>4, QuietBatch DEF StartPass
<1>10. \A s \in Sessions : ~raced'[s] => ReviveOK(s)'
  BY <1>2, <1>4, <1>6, QuietRevive DEF StartPass
<1>11. KeyNow(AnySession) \in Nat /\ record[AnySession] \in Records
  BY BlankTypes, KeyType DEF IInv, TypeOK
<1>12. /\ KeyedBy(r.copy, r.s) /\ r.key <= KeyNow(r.s) /\ TriedBy(r.copy, r.s)
       /\ r.copy.revived <= record[r.s].revived /\ r.copy.last <= record[r.s].last
  BY <1>4, <1>11, RecordFacts DEF KeyedBy, TriedBy, NoRecord
<1>13. OnHand(p)' = c
  BY <1>4, <1>5 DEF OnHand
<1>14. QED
  BY <1>2, <1>3, <1>4, <1>7, <1>8, <1>9, <1>10, <1>12, <1>13, PassFrame DEF StartPass, slots

(* What a pass carries that goes on, and what a skipped row leaves of it.   *)
LEMMA PassFacts ==
    ASSUME IInv, NEW p \in Passes
    PROVE  /\ pass[p] \in PassRecords /\ pass[p].s \in Sessions
           /\ pass[p].key \in Nat /\ pass[p].key <= KeyNow(pass[p].s)
           /\ KeyedBy(pass[p].copy, pass[p].s) /\ TriedBy(pass[p].copy, pass[p].s)
           /\ \A s \in Sessions : /\ KeyNow(s) \in Keys /\ KeyNow(s) \in Nat
                                  /\ record[s] \in Records
                                  /\ record[s].last \in Nat /\ record[s].revived \in Nat
                                  /\ NoRecord.revived <= record[s].revived
                                  /\ NoRecord.last <= record[s].last
                                  /\ KeyedBy(NoRecord, s) /\ TriedBy(NoRecord, s)
<1>1. pass[p] \in PassRecords /\ pass[p].s \in Sessions /\ pass[p].key \in Nat
  BY FieldTypes DEF IInv, TypeOK
<1>2. \A s \in Sessions : KeyNow(s) \in Keys /\ KeyNow(s) \in Nat /\ record[s] \in Records
  BY KeyType DEF IInv, TypeOK
<1>3. NoRecord.revived = 0 /\ NoRecord.last = 0
  BY DEF NoRecord
<1>4. \A s \in Sessions : record[s].last \in Nat /\ record[s].revived \in Nat
  BY <1>2, RecordFacts
<1>5. QED
  BY <1>1, <1>2, <1>3, <1>4, BlankTypes DEF IInv, Keyed, KeyedBy, Trying, TriedBy

LEMMA SkipInv ==
    ASSUME IInv, NEW p \in Passes, NEW s \in Sessions, Skip(p, s),
           pass[p].at \in {"next", "probing", "launching"},
           pass[p].at = "next" \/ s = pass[p].s,
           UNCHANGED <<now, transcript, turnAt, up, owed, inbox, record, slots, lock, live, again,
                       retiree, raced, erased, ops>>
    PROVE  IInv'
<1> DEFINE x == pass[p]
           rest == x.rows \ {s}
           r == [x EXCEPT !.at = "next", !.rows = rest, !.copy = NoRecord, !.key = 0]
<1>1. x \in PassRecords /\ rest \subseteq x.rows
  BY PassFacts
<1>2. AtPass(p, r)
  BY DEF Skip
<1>3. /\ x = pass[p]
      /\ r \in PassRecords /\ r.at = "next" /\ r.rows = rest /\ r.s = pass[p].s /\ r.key = 0
      /\ r.copy = NoRecord /\ r.retired = pass[p].retired
  <2>1. x = pass[p]
    OBVIOUS
  <2> HIDE DEF x, rest
  <2>2. QED
    BY <1>1, <2>1, BlankTypes DEF PassRecords, PassStates
<1> HIDE DEF x, rest, r
<1>4. pass' \in [Passes -> PassRecords] /\ pass'[p] = r
  BY <1>2, <1>3, PassType DEF IInv
<1>5. TypeOK'
  BY <1>4, Constants DEF IInv, TypeOK, slots
<1>6. Locked'
  BY <1>2, <1>3, HeldLock
<1>7. Batched'
  BY <1>2, <1>3, QuietBatch
<1>8. \A q \in Sessions : ~raced'[q] => ReviveOK(q)'
  BY <1>2, <1>3, QuietRevive
<1>9. /\ KeyedBy(r.copy, r.s) /\ r.key <= KeyNow(r.s) /\ TriedBy(r.copy, r.s)
      /\ r.copy.revived <= record[r.s].revived /\ r.copy.last <= record[r.s].last
  BY <1>3, PassFacts
<1>10. OnHand(p)' \subseteq OnHand(p)
  BY <1>1, <1>3, <1>4 DEF OnHand
<1>11. \A q \in r.retired \cap OnHand(p)' : erased[q]
  BY <1>3, <1>10 DEF IInv, RetiredOK
<1>12. QED
  BY <1>2, <1>3, <1>5, <1>6, <1>7, <1>8, <1>9, <1>11, PassFrame DEF slots

(* The model's turn is a turn. *)
LEMMA TurnKey ==
    ASSUME IInv, NEW s \in Sessions, Ids(transcript[s], AssistantKinds) # {}
    PROVE  KeyNow(s) >= 1
<1> DEFINE t == transcript[s]
           n == Len(t)
           A == Ids(t, AssistantKinds)
           T == Scanned(t) \cap Ids(t, UserKinds \cup AssistantKinds)
<1>1. t \in Seq(Kinds)
  BY KeyType DEF IInv
<1>2. n \in Nat /\ A \in SUBSET (1..n) /\ T \in SUBSET (1..n) /\ A # {}
  BY <1>1, IdsRange
<1>3. Latest(A) \in A
  <2> HIDE DEF A, n, t
  <2>1. QED
    BY <1>2, LatestOf
<1>4. Latest(A) \in T
  <2>1. A \subseteq Ids(t, UserKinds \cup AssistantKinds) /\ A \subseteq DOMAIN t
    BY DEF Ids
  <2>2. Latest(A) \in Scanned(t)
    <3>1. Latest(A) \in DOMAIN t /\ Latest(A) >= Latest(A)
      BY <1>2, <1>3, <2>1
    <3>2. QED
      BY <3>1 DEF Scanned
  <2> HIDE DEF A
  <2>3. QED
    BY <1>3, <2>1, <2>2
<1>5. Latest(T) \in T
  <2> HIDE DEF n, T, t
  <2>1. QED
    BY <1>2, <1>4, LatestOf
<1>6. LastTurn(t) = Latest(T)
  BY DEF LastTurn
<1>7. LastTurn(t) # 0
  <2> HIDE DEF T, n, t
  <2>1. QED
    BY <1>2, <1>5, <1>6
<1>8. QED
  BY <1>7, KeyType DEF IInv

LEMMA ExamineInv ==
    ASSUME IInv, NEW p \in Passes, NEW s \in Sessions, Examine(p, s)
    PROVE  IInv'
<1>1. /\ pass[p].at = "next" /\ s \in pass[p].rows
      /\ UNCHANGED <<now, transcript, turnAt, up, owed, inbox, record, slots, lock, live, again,
                     retiree, raced, erased, ops>>
  BY DEF Examine
<1>2. CASE ~Eligible(p, s)
  BY <1>1, <1>2, SkipInv DEF Examine
<1>3. CASE Eligible(p, s)
  <2> DEFINE x == pass[p]
             c == record[s]
             k == Key(transcript[s])
             r == [x EXCEPT !.at = "probing", !.s = s, !.copy = c, !.key = k]
  <2>1. x \in PassRecords /\ c \in Records /\ k \in Keys /\ k = KeyNow(s) /\ k \in Nat
    BY PassFacts DEF KeyNow
  <2>2. AtPass(p, r)
    BY <1>3 DEF Examine
  <2>3. /\ r \in PassRecords /\ r.at = "probing" /\ r.rows = pass[p].rows /\ r.s = s
        /\ r.key = KeyNow(s) /\ r.copy = record[s] /\ r.retired = pass[p].retired
    <3>1. x = pass[p] /\ c = record[s]
      OBVIOUS
    <3> HIDE DEF x, c, k
    <3>2. QED
      BY <2>1, <3>1 DEF PassRecords, PassStates
  <2> HIDE DEF x, c, k, r
  <2>4. pass' \in [Passes -> PassRecords] /\ pass'[p] = r
    BY <2>2, <2>3, PassType DEF IInv
  <2>5. TypeOK'
    BY <1>1, <2>4, Constants DEF IInv, TypeOK, slots
  <2>6. Locked'
    BY <1>1, <2>2, <2>3, HeldLock
  <2>7. Batched'
    BY <1>1, <2>2, <2>3, QuietBatch
  <2>8. r.key > record[s].revived
    <3>1. Ids(transcript[s], AssistantKinds) # {} /\ ~RevivedHere(s)
      BY <1>3 DEF Eligible
    <3>2. KeyNow(s) >= 1 /\ record[s].revived <= KeyNow(s)
      BY <3>1, TurnKey DEF IInv, Keyed, KeyedBy
    <3>3. record[s].revived = 0 \/ record[s].revived # KeyNow(s)
      BY <3>1 DEF RevivedHere, KeyNow
    <3>4. KeyNow(s) \in Nat /\ record[s].revived \in Nat
      BY PassFacts
    <3>5. QED
      BY <2>3, <3>2, <3>3, <3>4
  <2>9. \A q \in Sessions : ~raced'[q] => ReviveOK(q)'
    BY <1>1, <2>2, <2>3, <2>8, QuietRevive
  <2>10. /\ KeyedBy(r.copy, r.s) /\ r.key <= KeyNow(r.s) /\ TriedBy(r.copy, r.s)
         /\ r.copy.revived <= record[r.s].revived /\ r.copy.last <= record[r.s].last
    BY <2>3, PassFacts DEF IInv, Keyed, Trying
  <2>11. OnHand(p)' \subseteq OnHand(p)
    BY <1>1, <2>3, <2>4 DEF OnHand
  <2>12. \A q \in r.retired \cap OnHand(p)' : erased[q]
    BY <2>3, <2>11 DEF IInv, RetiredOK
  <2>13. QED
    BY <1>1, <2>2, <2>3, <2>5, <2>6, <2>7, <2>9, <2>10, <2>12, PassFrame DEF slots
<1>4. QED
  BY <1>2, <1>3

LEMMA RefreshInv ==
    ASSUME IInv, NEW p \in Passes, Refresh(p)
    PROVE  IInv'
<1>1. /\ pass[p].at = "probing"
      /\ UNCHANGED <<now, transcript, turnAt, up, owed, inbox, record, slots, lock, live, again,
                     retiree, raced, erased, ops>>
  BY DEF Refresh
<1>2. PICK r \in PassRecords :
          /\ AtPass(p, r) /\ r.at \in {"next", "launching"} /\ r.rows \subseteq pass[p].rows
          /\ r.s = pass[p].s /\ r.key = pass[p].key /\ r.copy = pass[p].copy
          /\ r.retired = pass[p].retired
          /\ r.at = "launching" => /\ pass[p].s \notin Detached
                                   /\ Cardinality(Detached) + r.launched < MaxBatch
  <2> DEFINE x == pass[p]
             rest == x.rows \ {x.s}
             d == Detached
  <2>1. x \in PassRecords /\ d \subseteq Sessions /\ x = pass[p] /\ d = Detached
    BY PassFacts DEF Detached
  <2>2. CASE AtPass(p, [x EXCEPT !.at = "next", !.rows = {}])
    <3> DEFINE r == [x EXCEPT !.at = "next", !.rows = {}]
    <3> HIDE DEF x
    <3>1. /\ r \in PassRecords /\ r.at = "next" /\ r.rows \subseteq x.rows /\ r.s = x.s
          /\ r.key = x.key /\ r.copy = x.copy /\ r.retired = x.retired
      BY <2>1 DEF PassRecords, PassStates
    <3> HIDE DEF r
    <3>2. AtPass(p, r)
      BY <2>2 DEF r
    <3>3. QED
      BY <2>1, <3>1, <3>2
  <2>3. CASE ~AtPass(p, [x EXCEPT !.at = "next", !.rows = {}])
    <3>1. PICK a \in {"next", "launching"} :
              /\ a = IF NotDetached(x.s) /\ HasRoom(p) THEN "launching" ELSE "next"
              /\ AtPass(p, [x EXCEPT !.census = d, !.rows = rest, !.at = a])
      BY <2>3 DEF Refresh
    <3> DEFINE r == [x EXCEPT !.census = d, !.rows = rest, !.at = a]
    <3>2. rest \subseteq x.rows
      OBVIOUS
    <3> HIDE DEF x, d, rest
    <3>3. /\ r \in PassRecords /\ r.at = a /\ r.rows \subseteq x.rows /\ r.s = x.s
          /\ r.key = x.key /\ r.copy = x.copy /\ r.retired = x.retired /\ r.launched = x.launched
      BY <2>1, <3>2 DEF PassRecords, PassStates
    <3> HIDE DEF r
    <3>4. AtPass(p, r)
      BY <3>1 DEF r
    <3>5. a = "launching" => x.s \notin Detached /\ Cardinality(Detached) + x.launched < MaxBatch
      BY <2>1, <3>1 DEF NotDetached, HasRoom
    <3>6. QED
      BY <2>1, <3>3, <3>4, <3>5
  <2>4. QED
    BY <2>2, <2>3
<1>3. pass' \in [Passes -> PassRecords] /\ pass'[p] = r
  BY <1>2, PassType DEF IInv
<1>4. TypeOK'
  BY <1>1, <1>3, Constants DEF IInv, TypeOK, slots
<1>5. Locked'
  BY <1>1, <1>2, HeldLock
<1>6. Batched'
  <2>1. r.at = "launching" => live[r.s] = 0 /\ Cardinality(Detached) + r.launched < MaxBatch
    <3>1. r.s \in Sessions /\ live[r.s] \in Nat
      BY <1>2, PassFacts DEF IInv, TypeOK
    <3>2. r.at = "launching" => r.s \notin Detached
      BY <1>2
    <3>3. r.at = "launching" => live[r.s] = 0
      BY <3>1, <3>2 DEF Detached
    <3>4. QED
      BY <1>2, <3>3
  <2>2. QED
    BY <1>1, <1>2, <2>1, QuietBatch
<1>7. \A q \in Sessions : ~raced'[q] => ReviveOK(q)'
  <2>1. ~raced[pass[p].s] => pass[p].key > record[pass[p].s].revived
    BY <1>1, PassFacts DEF IInv, Unraced, ReviveOK
  <2>2. QED
    BY <1>1, <1>2, <2>1, QuietRevive
<1>8. /\ KeyedBy(r.copy, r.s) /\ r.key <= KeyNow(r.s) /\ TriedBy(r.copy, r.s)
      /\ ~raced[r.s] => r.copy.revived <= record[r.s].revived /\ r.copy.last <= record[r.s].last
  BY <1>2, PassFacts DEF IInv, Unraced, LoadedOK
<1>9. \A q \in r.retired \cap OnHand(p)' : erased[q]
  <2>1. OnHand(p)' \subseteq OnHand(p)
    BY <1>1, <1>2, <1>3 DEF OnHand
  <2>2. QED
    BY <1>2, <2>1 DEF IInv, RetiredOK
<1>10. QED
  BY <1>1, <1>2, <1>4, <1>5, <1>6, <1>7, <1>8, <1>9, PassFrame DEF slots

LEMMA LaunchInv ==
    ASSUME IInv, NEW p \in Passes, Launch(p)
    PROVE  IInv'
<1> DEFINE s == pass[p].s
<1>1. /\ pass[p].at = "launching" /\ s \in Sessions
      /\ UNCHANGED <<now, transcript, turnAt, up, owed, inbox, record, slots, lock,
                     raced, erased, ops>>
  BY PassFacts DEF Launch
<1>2. CASE Skip(p, s) /\ UNCHANGED <<live, again, retiree>>
  BY <1>1, <1>2, SkipInv
<1>3. CASE ~(Skip(p, s) /\ UNCHANGED <<live, again, retiree>>)
  <2>1. /\ live' = [live EXCEPT ![s] = @ + 1]
        /\ again' = [again EXCEPT ![s] = [key |-> pass[p].key,
                                          twice |-> @.twice \/ pass[p].key = @.key]]
        /\ retiree' = IF s \in pass[p].retired
                      THEN [retiree EXCEPT ![s] = "revived"] ELSE retiree
        /\ AtPass(p, [pass[p] EXCEPT !.at = "recording", !.launched = @ + 1])
    BY <1>3 DEF Launch
  <2>2. PICK r \in PassRecords :
            /\ AtPass(p, r) /\ r.at = "recording" /\ r.rows = pass[p].rows /\ r.s = s
            /\ r.key = pass[p].key /\ r.copy = pass[p].copy /\ r.retired = pass[p].retired
    <3> DEFINE x == pass[p]
               n == x.launched + 1
               r == [x EXCEPT !.at = "recording", !.launched = n]
    <3>1. x \in PassRecords /\ n \in Nat /\ x = pass[p] /\ AtPass(p, r)
      BY <2>1, FieldTypes, PassFacts DEF IInv
    <3> HIDE DEF x, n
    <3>2. /\ r \in PassRecords /\ r.at = "recording" /\ r.rows = x.rows /\ r.s = x.s
          /\ r.key = x.key /\ r.copy = x.copy /\ r.retired = x.retired
      BY <3>1 DEF PassRecords, PassStates
    <3> HIDE DEF r
    <3>3. QED
      BY <3>1, <3>2
  <2>3. /\ pass' \in [Passes -> PassRecords] /\ pass'[p] = r
        /\ \A q \in Passes : q # p => pass'[q] = pass[q]
    BY <2>2, PassType DEF IInv
  <2>4. PICK z \in BOOLEAN : z = (again[s].twice \/ pass[p].key = again[s].key)
    <3>1. (again[s].twice \/ pass[p].key = again[s].key) \in BOOLEAN
      OBVIOUS
    <3>2. QED
      BY <3>1, Zenon
  <2>5. /\ again'[s] = [key |-> pass[p].key, twice |-> z]
        /\ \A q \in Sessions : q # s => again'[q] = again[q]
        /\ again' \in [Sessions -> [key : Keys, twice : BOOLEAN]]
    <3>1. again' = [again EXCEPT ![s] = [key |-> pass[p].key, twice |-> z]]
      BY <2>1, <2>4
    <3>2. pass[p].key \in Keys
      BY FieldTypes DEF IInv
    <3> HIDE DEF s
    <3>3. QED
      BY <1>1, <3>1, <3>2 DEF IInv, TypeOK
  <2>6. TypeOK'
    <3>1. live' \in [Sessions -> Nat]
      BY <1>1, <2>1 DEF IInv, TypeOK
    <3>2. retiree' \in [Sessions -> {"no", "retired", "revived"}]
      BY <1>1, <2>1 DEF IInv, TypeOK
    <3>3. QED
      BY <1>1, <2>3, <2>5, <3>1, <3>2, Constants DEF IInv, TypeOK, slots
  <2>7. Locked' /\ \A q \in Passes : q # p => pass[q].at = "idle" /\ pass'[q] = pass[q]
    BY <1>1, <2>2, HeldLock
  <2>8. Batched'
    <3>1. live[s] = 0 /\ Cardinality(Detached) + pass[p].launched < MaxBatch
      BY <1>1 DEF IInv, Batched
    <3>2. \A q \in Sessions : live'[q] = IF q = s THEN 1 ELSE live[q]
      BY <1>1, <2>1, <3>1 DEF IInv, TypeOK
    <3>3. Detached' = Detached \cup {s} /\ s \notin Detached
      <4>1. \A q \in Sessions : live'[q] > 0 <=> live[q] > 0 \/ q = s
        BY <1>1, <3>1, <3>2
      <4>2. QED
        BY <1>1, <3>1, <4>1 DEF Detached
    <3>4. IsFiniteSet(Detached)
      BY Constants, FS_Subset DEF Detached
    <3>5. Cardinality(Detached \cup {s}) = Cardinality(Detached) + 1
      BY <3>3, <3>4, FS_AddElement
    <3>6. Cardinality(Detached) \in Nat /\ pass[p].launched \in Nat
      BY <3>4, FS_CardinalityType, FieldTypes DEF IInv
    <3>7. Cardinality(Detached)' <= MaxBatch
      BY <3>1, <3>3, <3>5, <3>6, Constants
    <3>8. \A q \in Sessions : live'[q] <= 1
      BY <3>2 DEF IInv, Batched, OneRevive
    <3>9. QED
      BY <2>2, <2>3, <2>7, <3>7, <3>8 DEF Batched, OneRevive
  <2>9. ASSUME NEW q \in Sessions, ~raced'[q] PROVE ReviveOK(q)'
    <3>1. ReviveOK(q)
      BY <1>1, <2>9 DEF IInv, Unraced
    <3>2. again[q].key <= record[q].revived
      BY <1>1, <2>7, <3>1 DEF ReviveOK
    <3>3. \A u \in Passes : pass'[u].at \notin {"probing", "launching"}
      BY <2>2, <2>3, <2>7
    <3>4. CASE q # s
      BY <1>1, <2>5, <3>1, <3>2, <3>3, <3>4 DEF ReviveOK
    <3>5. CASE q = s
      <4>1. pass[p].key > record[q].revived
        BY <1>1, <3>1, <3>5 DEF ReviveOK
      <4>2. again[q].key \in Nat /\ record[q].revived \in Nat /\ pass[p].key \in Nat
        <5>1. again[q].key \in Keys
          BY DEF IInv, TypeOK
        <5>2. QED
          BY <5>1, PassFacts, Constants DEF Keys
      <4>3. pass[p].key # again[q].key
        BY <3>2, <4>1, <4>2
      <4>4. again'[q].key = pass[p].key /\ ~again'[q].twice
        <5>1. ~again[s].twice
          BY <3>1, <3>5 DEF ReviveOK
        <5>2. ~z
          BY <2>4, <3>5, <4>3, <5>1
        <5>3. QED
          BY <2>5, <3>5, <5>2
      <4>5. pass'[p].at = "recording" /\ pass'[p].s = q /\ again'[q].key <= pass'[p].key
        BY <2>2, <2>3, <3>5, <4>2, <4>4
      <4>6. QED
        BY <3>3, <4>4, <4>5 DEF ReviveOK
    <3>6. QED
      BY <3>4, <3>5
  <2>10. /\ KeyedBy(r.copy, r.s) /\ r.key <= KeyNow(r.s) /\ TriedBy(r.copy, r.s)
         /\ ~raced[r.s] => r.copy.revived <= record[r.s].revived /\ r.copy.last <= record[r.s].last
    BY <2>2, PassFacts DEF IInv, Unraced, LoadedOK
  <2>11. \A q \in r.retired \cap OnHand(p)' : erased[q]
    <3>1. OnHand(p)' \subseteq OnHand(p)
      BY <2>2, <2>3 DEF OnHand
    <3>2. QED
      BY <2>2, <3>1 DEF IInv, RetiredOK
  <2>12. \A q \in Sessions : retiree'[q] = retiree[q] \/ erased[q]
    <3>1. s \in pass[p].retired => erased[s]
      BY <1>1 DEF IInv, RetiredOK, OnHand
    <3>2. QED
      BY <1>1, <2>1, <3>1 DEF IInv, TypeOK
  <2>13. QED
    BY <1>1, <2>2, <2>6, <2>7, <2>8, <2>9, <2>10, <2>11, <2>12, PassFrame DEF slots
<1>4. QED
  BY <1>2, <1>3

LEMMA RestInv ==
    ASSUME IInv, TypeOK', NEW p \in Passes, AtPass(p, Resting), lock' = NoPass,
           pass[p].at # "idle", pass[p].at = "recording" => raced'[pass[p].s],
           \A s \in Sessions : raced[s] => raced'[s],
           UNCHANGED <<transcript, up, owed, record, slots, live, again, retiree, erased>>
    PROVE  IInv'
<1>1. pass'[p] = Resting
  BY BlankTypes, PassType DEF IInv
<1>2. Locked'
  BY BlankTypes, HeldLock
<1>3. Batched'
  BY BlankTypes, QuietBatch
<1>4. \A s \in Sessions : ~raced'[s] => ReviveOK(s)'
  BY BlankTypes, QuietRevive
<1>5. KeyNow(AnySession) \in Nat /\ record[AnySession] \in Records
  BY BlankTypes, KeyType DEF IInv, TypeOK
<1>6. /\ KeyedBy(Resting.copy, Resting.s) /\ Resting.key <= KeyNow(Resting.s)
      /\ TriedBy(Resting.copy, Resting.s)
      /\ Resting.copy.revived <= record[Resting.s].revived
      /\ Resting.copy.last <= record[Resting.s].last
  BY <1>5, BlankTypes, RecordFacts DEF KeyedBy, TriedBy, NoRecord
<1>7. \A s \in Resting.retired \cap OnHand(p)' : erased[s]
  BY BlankTypes
<1>8. QED
  BY <1>2, <1>3, <1>4, <1>6, <1>7, BlankTypes, PassFrame DEF slots

LEMMA EndPassInv == ASSUME IInv, NEW p \in Passes, EndPass(p) PROVE IInv'
<1>1. pass' \in [Passes -> PassRecords]
  BY BlankTypes, PassType DEF EndPass, IInv
<1>2. TypeOK'
  BY <1>1, Constants DEF EndPass, IInv, TypeOK, slots
<1>3. QED
  BY <1>2, RestInv DEF EndPass

LEMMA PassDiesInv == ASSUME IInv, NEW p \in Passes, PassDies(p) PROVE IInv'
<1>1. pass' \in [Passes -> PassRecords]
  BY BlankTypes, PassType DEF PassDies, IInv
<1>2. pass[p].s \in Sessions
  BY PassFacts
<1>3. /\ raced' \in [Sessions -> BOOLEAN]
      /\ pass[p].at = "recording" => raced'[pass[p].s]
      /\ \A s \in Sessions : raced[s] => raced'[s]
  BY <1>2 DEF PassDies, IInv, TypeOK
<1>4. TypeOK'
  <2>1. ops' \in 0..MaxOps
    BY OperateType DEF IInv, PassDies
  <2>2. QED
    BY <1>1, <1>3, <2>1, Constants DEF PassDies, IInv, TypeOK, slots
<1>5. QED
  BY <1>3, <1>4, RestInv DEF PassDies

LEMMA RecordReviveInv ==
    ASSUME IInv, NEW p \in Passes, RecordRevive(p)
    PROVE  IInv'
<1> DEFINE s == pass[p].s
           c == [pass[p].copy EXCEPT !.revived = pass[p].key]
<1>1. /\ pass[p].at = "recording" /\ Save(s, c)
      /\ UNCHANGED <<now, transcript, turnAt, up, owed, inbox, slots, lock, live, again, retiree, ops>>
  BY DEF RecordRevive
<1>2. /\ s \in Sessions /\ pass[p].copy \in Records /\ pass[p].key \in Keys /\ pass[p].key \in Nat
      /\ c \in Records /\ c.last = pass[p].copy.last /\ c.revived = pass[p].key
      /\ c.last \in Nat
  <2>1. s \in Sessions /\ pass[p].copy \in Records /\ pass[p].key \in Keys /\ pass[p].key \in Nat
    BY FieldTypes DEF IInv
  <2>2. c \in Records /\ c.last = pass[p].copy.last /\ c.revived = pass[p].key
    BY <2>1 DEF Records
  <2>3. QED
    BY <2>1, <2>2, RecordFacts
<1>3. PICK r \in PassRecords :
          /\ AtPass(p, r) /\ r.at = "next" /\ r.rows = pass[p].rows /\ r.s = s
          /\ r.key = 0 /\ r.copy = NoRecord /\ r.retired = pass[p].retired
  <2> DEFINE x == pass[p]
             r == [x EXCEPT !.at = "next", !.copy = NoRecord, !.key = 0]
  <2>1. x \in PassRecords /\ x = pass[p] /\ AtPass(p, r)
    BY PassFacts DEF RecordRevive
  <2> HIDE DEF x
  <2>2. /\ r \in PassRecords /\ r.at = "next" /\ r.rows = x.rows /\ r.s = x.s
        /\ r.key = 0 /\ r.copy = NoRecord /\ r.retired = x.retired
    BY <2>1, BlankTypes DEF PassRecords, PassStates
  <2> HIDE DEF r
  <2>3. QED
    BY <2>1, <2>2
<1>4. /\ pass' \in [Passes -> PassRecords] /\ pass'[p] = r
      /\ \A q \in Passes : q # p => pass'[q] = pass[q]
  BY <1>3, PassType DEF IInv
<1> HIDE DEF s, c
<1>5. /\ record' \in [Sessions -> Records]
      /\ \A q \in Sessions : record'[q] = IF q = s THEN c ELSE record[q]
  BY <1>1, <1>2 DEF Save, IInv, TypeOK
<1>6. /\ raced' \in [Sessions -> BOOLEAN]
      /\ \A q \in Sessions : ~raced'[q] => ~raced[q] /\ (q = s => ~Drops(s, c))
  BY <1>1, <1>2 DEF Save, Drops, IInv, TypeOK
<1>7. /\ erased' \in [Sessions -> BOOLEAN]
      /\ \A q \in Sessions : ~erased'[q] => ~erased[q] /\ (q = s => ~Unretires(s, c))
  BY <1>1, <1>2 DEF Save, Unretires, IInv, TypeOK
<1>8. TypeOK'
  BY <1>1, <1>4, <1>5, <1>6, <1>7, Constants DEF IInv, TypeOK, slots
<1>9. Locked' /\ \A q \in Passes : q # p => pass[q].at = "idle" /\ pass'[q] = pass[q]
  BY <1>1, <1>3, HeldLock
<1>10. UNCHANGED <<transcript, up, owed, slot, nudged, tried, twice, excused, lock, live, again, retiree>>
  BY <1>1 DEF slots
<1>11. \A q \in Sessions : /\ KeyNow(q) \in Nat /\ record[q].last \in Nat /\ record[q].revived \in Nat
                           /\ NoRecord.last = 0 /\ NoRecord.revived = 0
  BY PassFacts DEF NoRecord
<1>12. Keyed'
  <2>1. KeyedBy(c, s)
    BY <1>2, PassFacts DEF KeyedBy, s
  <2>2. /\ \A q \in Sessions : KeyedBy(record[q], q)'
        /\ \A w \in Slots : KeyedBy(slot[w].copy, slot[w].s)' /\ (slot[w].key <= KeyNow(slot[w].s))'
    BY <1>5, <1>10, <2>1 DEF IInv, Keyed, KeyedBy, KeyNow
  <2>3. ASSUME NEW u \in Passes
        PROVE  KeyedBy(pass[u].copy, pass[u].s)' /\ (pass[u].key <= KeyNow(pass[u].s))'
    <3>1. CASE u = p
      BY <1>2, <1>3, <1>4, <1>10, <1>11, <3>1 DEF KeyedBy, KeyNow
    <3>2. CASE u # p
      BY <1>4, <1>10, <3>2 DEF IInv, Keyed, KeyedBy, KeyNow
    <3>3. QED
      BY <3>1, <3>2
  <2>4. QED
    BY <2>2, <2>3 DEF Keyed
<1>13. Batched'
  BY <1>3, <1>10, QuietBatch
<1>14. Unraced'
  <2> SUFFICES ASSUME NEW q \in Sessions, ~raced'[q]
               PROVE  LoadedOK(q)' /\ NudgeOK(q)' /\ ReviveOK(q)'
    BY DEF Unraced
  <2>1. LoadedOK(q) /\ NudgeOK(q) /\ ReviveOK(q) /\ (q = s => ~Drops(s, c))
    BY <1>6 DEF IInv, Unraced
  <2>2. /\ record'[q].last = record[q].last
        /\ record'[q].revived \in Nat /\ record'[q].revived >= record[q].revived
        /\ q = s => record'[q].revived = pass[p].key
    <3>1. CASE q # s
      BY <1>5, <1>11, <3>1
    <3>2. CASE q = s
      <4>1. c.last <= record[q].last
        BY <1>2, <2>1, <3>2 DEF LoadedOK, s
      <4>2. c.last >= record[q].last /\ c.revived >= record[q].revived
        BY <1>2, <1>11, <2>1, <3>2 DEF Drops
      <4>3. QED
        BY <1>2, <1>5, <1>11, <3>2, <4>1, <4>2
    <3>3. QED
      BY <3>1, <3>2
  <2>3. LoadedOK(q)'
    <3>1. ASSUME NEW v \in Slots, slot[v].s = q
          PROVE  /\ slot[v].copy.revived <= record'[q].revived
                 /\ slot[v].at # "saving" => slot[v].copy.last <= record'[q].last
      <4>1. slot[v].copy.revived \in Nat
        BY FieldTypes, RecordFacts DEF IInv
      <4>2. QED
        BY <1>11, <2>1, <2>2, <3>1, <4>1 DEF LoadedOK
    <3>2. ASSUME NEW u \in Passes, pass'[u].s = q
          PROVE  pass'[u].copy.revived <= record'[q].revived /\ pass'[u].copy.last <= record'[q].last
      <4>1. CASE u = p
        BY <1>3, <1>4, <1>11, <2>2, <4>1
      <4>2. CASE u # p
        <5>1. pass[u].copy.revived \in Nat
          BY FieldTypes, RecordFacts DEF IInv
        <5>2. QED
          BY <1>4, <1>11, <2>1, <2>2, <3>2, <4>2, <5>1 DEF LoadedOK
      <4>3. QED
        BY <4>1, <4>2
    <3>3. QED
      BY <1>10, <3>1, <3>2 DEF LoadedOK
  <2>4. NudgeOK(q)'
    BY <1>10, <2>1, <2>2 DEF NudgeOK, NudgerOK, Nudger, Committed
  <2>5. ReviveOK(q)'
    <3>1. again[q].key <= record'[q].revived
      <4>1. again[q].key \in Nat
        <5>1. again[q].key \in Keys
          BY DEF IInv, TypeOK
        <5>2. QED
          BY <5>1, Constants DEF Keys
      <4>2. CASE again[q].key <= record[q].revived
        BY <1>11, <2>2, <4>1, <4>2
      <4>3. CASE ~(again[q].key <= record[q].revived)
        <5>1. pass[p].s = q /\ again[q].key <= pass[p].key
          BY <1>9, <2>1, <4>3 DEF ReviveOK
        <5>2. QED
          BY <2>2, <5>1 DEF s
      <4>4. QED
        BY <4>2, <4>3
    <3>2. \A u \in Passes : pass'[u].at \notin {"probing", "launching"}
      BY <1>3, <1>4, <1>9
    <3>3. QED
      BY <1>10, <2>1, <3>1, <3>2 DEF ReviveOK
  <2>6. QED
    BY <2>3, <2>4, <2>5
<1>15. RetiredOK'
  <2>1. \A q \in Sessions : ~erased'[q] =>
            (retiree'[q] = "retired" => record'[q].retired) /\ retiree'[q] # "revived"
    BY <1>5, <1>7, <1>10 DEF IInv, RetiredOK, Unretires
  <2>2. \A u \in Passes : \A q \in pass'[u].retired \cap OnHand(u)' : erased'[q]
    <3>1. \A u \in Passes : OnHand(u)' \subseteq OnHand(u) /\ pass'[u].retired = pass[u].retired
      BY <1>3, <1>4 DEF OnHand
    <3>2. \A u \in Passes : pass[u].retired \subseteq Sessions
      BY FieldTypes DEF IInv
    <3>3. QED
      BY <1>7, <3>1, <3>2 DEF IInv, RetiredOK
  <2>3. QED
    BY <1>10, <2>1, <2>2 DEF IInv, RetiredOK
<1>16. Trying'
  <2>1. TriedBy(c, s)
    BY <1>2, PassFacts DEF TriedBy, s
  <2>2. /\ \A q \in Sessions : TriedBy(record[q], q)'
        /\ \A w \in Slots : TriedBy(slot[w].copy, slot[w].s)'
    BY <1>5, <1>10, <2>1 DEF IInv, Trying, TriedBy
  <2>3. ASSUME NEW u \in Passes PROVE TriedBy(pass[u].copy, pass[u].s)'
    <3>1. CASE u = p
      BY <1>2, <1>3, <1>4, <1>11, <3>1 DEF TriedBy
    <3>2. CASE u # p
      BY <1>4, <1>10, <3>2 DEF IInv, Trying, TriedBy
    <3>3. QED
      BY <3>1, <3>2
  <2>4. QED
    BY <2>2, <2>3 DEF Trying
<1>17. Restarted'
  BY <1>10, RestartedFrame
<1>18. QED
  BY <1>8, <1>9, <1>12, <1>13, <1>14, <1>15, <1>16, <1>17 DEF IInv

-----------------------------------------------------------------------------
LEMMA NextInvariant == ASSUME IInv, [Next]_vars PROVE IInv'
<1>1. CASE Tick
  BY <1>1, TickInv
<1>2. ASSUME NEW s \in Sessions, SessionSteps(s) PROVE IInv'
  BY <1>2, SessionStepsInv
<1>3. ASSUME NEW s \in Sessions, NEW w \in Slots, Starting(s, w) PROVE IInv'
  BY <1>3, RestartInv, CompactInv, CommandInv, MusterInv, RetireInv DEF Starting
<1>4. ASSUME NEW w \in Slots, SlotSteps(w) PROVE IInv'
  BY <1>4, SaveNoteInv, WakeAndPushInv, WakeAndSkipInv, SaveRecordInv, SlotDiesInv DEF SlotSteps
<1>5. ASSUME NEW p \in Passes, PassSteps(p) PROVE IInv'
  <2>1. CASE Park(p)
    <3>1. pass[p].s \in Sessions
      BY PassFacts
    <3>2. QED
      BY <2>1, <3>1, SkipInv DEF Park
  <2>2. CASE \E s \in Sessions : Examine(p, s)
    BY <2>2, ExamineInv
  <2>3. QED
    BY <1>5, <2>1, <2>2, StartPassInv, RefreshInv, LaunchInv, RecordReviveInv, EndPassInv,
       PassDiesInv DEF PassSteps
<1>6. CASE UNCHANGED vars
  <2>1. UNCHANGED <<now, transcript, turnAt, up, owed, inbox, record, slots, revives, raced, erased, ops>>
    BY <1>6 DEF vars
  <2>2. UNCHANGED <<slot, nudged, tried, twice, excused, lock, pass, live, again, retiree>>
    BY <2>1 DEF slots, revives
  <2>3. TypeOK'
    BY <2>1, <2>2 DEF IInv, TypeOK
  <2>4. \A r \in Sessions : KeyNow(r) <= KeyNow(r)' /\ live'[r] <= live[r]
    <3>1. \A r \in Sessions : KeyNow(r) \in Nat /\ live[r] \in Nat
      BY KeyType DEF IInv, TypeOK
    <3>2. QED
      BY <2>1, <2>2, <3>1 DEF KeyNow
  <2>5. Restarted'
    BY <2>1, <2>2, RestartedFrame
  <2>6. QED
    BY <2>1, <2>2, <2>3, <2>4, <2>5, SessionFrame DEF IInv
<1>7. QED
  BY <1>1, <1>2, <1>3, <1>4, <1>5, <1>6 DEF Next

(* The invariant that the rest follows from: records, copies and keys that  *)
(* never run ahead of the transcript, at most one slot that has decided to  *)
(* nudge, and a pass alone with the lock.                                   *)
THEOREM Invariance == Spec => []IInv
BY InitInvariant, NextInvariant, PTL DEF Spec

(* Every reachable state is well formed: records, slots and passes carry    *)
(* keys of entries that the transcript has.                                 *)
THEOREM TypeCorrect == Spec => []TypeOK
<1>1. IInv => TypeOK
  BY DEF IInv
<1>2. QED
  BY <1>1, Invariance, PTL

(* One interruption point earns one nudge (decide's dedupe key), except on  *)
(* a session where two commands overlapped, one died before it saved, or a  *)
(* stale save took the key back.                                            *)
THEOREM OneNudgePerKey == Spec => []NudgedOnce
<1>1. IInv => NudgedOnce
  BY DEF IInv, Unraced, NudgeOK, NudgedOnce
<1>2. QED
  BY <1>1, Invariance, PTL

(* One interruption point earns one headless revive (auto_revive's          *)
(* revived_key), with the same exceptions.                                  *)
THEOREM OneRevivePerKey == Spec => []RevivedOnce
<1>1. IInv => RevivedOnce
  BY DEF IInv, Unraced, ReviveOK, RevivedOnce
<1>2. QED
  BY <1>1, Invariance, PTL

(* A session has one detached continuation at most, and the cap bounds all  *)
(* of them, however long a lane probe lasts.                                *)
THEOREM BatchCapped == Spec => []OneRevive
<1>1. IInv => OneRevive
  BY DEF IInv, Batched
<1>2. QED
  BY <1>1, Invariance, PTL

(* A restart that finds its turn cut off is nudged for this very restart,   *)
(* or something other than the dedupe of the previous one kept it.          *)
THEOREM RestartsAnswered == Spec => []RestartSettled
<1>1. IInv => RestartSettled
  <2> SUFFICES ASSUME IInv, NEW s \in Sessions, Settled(s), CutOffByRestart(s), ~excused[s]
               PROVE  KeyNow(s) \in tried[s]
    BY DEF RestartSettled, KeyNow
  <2>1. \A w \in Slots : ~OnItsWay(w, s)
    BY DEF Settled, OnItsWay
  <2>2. SeenTo(s)
    BY <2>1 DEF IInv, Restarted, CutOffByRestart
  <2>3. QED
    BY <2>2 DEF SeenTo, CutOffByRestart
<1>2. QED
  BY <1>1, Invariance, PTL

(* A retirement holds against every later pass unless a save that did not   *)
(* carry it replaced the record (retire_session loads and saves).           *)
THEOREM RetirementHolds == Spec => []RetiredStays
<1>1. IInv => RetiredStays
  BY DEF IInv, RetiredOK, RetiredStays
<1>2. QED
  BY <1>1, Invariance, PTL

================================================================================
