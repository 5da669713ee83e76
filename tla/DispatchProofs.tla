---------------------------- MODULE DispatchProofs -----------------------------
(***************************************************************************)
(* Theorems about the dispatch, for any lanes, homes, doors, requests and  *)
(* fleets, and any limits of attempts and retries.                         *)
(***************************************************************************)
EXTENDS Dispatch, FiniteSetTheorems, SequenceTheorems, TLAPS

-----------------------------------------------------------------------------
(* The first of some lanes *)

(* A finite set has a member below which an order has no other.             *)
LEMMA Least ==
    ASSUME NEW S, IsFiniteSet(S), S # {}, NEW R,
           \A x \in S : <<x, x>> \notin R,
           \A x, y, z \in S : <<x, y>> \in R /\ <<y, z>> \in R => <<x, z>> \in R
    PROVE  \E x \in S : \A y \in S : <<y, x>> \notin R
<1> DEFINE Below(x) == {y \in S : <<y, x>> \in R}
           T == {Below(x) : x \in S}
           Q == StrictSubsetOrdering(S)
<1>1. T \subseteq FiniteSubsetsOf(S) /\ T # {}
  <2>1. FiniteSubsetsOf(S) = SUBSET S
    BY FS_FiniteSubsetsOfFinite
  <2>2. T \subseteq SUBSET S
    <3>1. \A x \in S : Below(x) \subseteq S
      OBVIOUS
    <3> HIDE DEF Below
    <3>2. QED
      BY <3>1
  <2>3. T # {}
    <3>1. PICK x \in S : TRUE
      OBVIOUS
    <3>2. Below(x) \in T
      OBVIOUS
    <3>3. QED
      BY <3>2
  <2>4. QED
    BY <2>1, <2>2, <2>3
<1>2. IsWellFoundedOn(Q, FiniteSubsetsOf(S))
  BY FS_StrictSubsetOrderingWellFounded
<1>3. PICK A \in T : \A B \in T : ~ (<<B, A>> \in Q)
  <2> HIDE DEF T, Q
  <2>1. QED
    BY <1>1, <1>2, WFMin
<1>4. PICK x \in S : A = Below(x)
  OBVIOUS
<1>5. ASSUME NEW y \in S, <<y, x>> \in R PROVE FALSE
  <2>1. Below(y) \subseteq Below(x) /\ y \in Below(x) /\ y \notin Below(y)
    <3>1. \A z \in Below(y) : z \in Below(x)
      BY <1>5
    <3>2. y \in Below(x)
      BY <1>5
    <3>3. y \notin Below(y)
      OBVIOUS
    <3> HIDE DEF Below
    <3>4. QED
      BY <3>1, <3>2, <3>3
  <2>2. Below(x) \subseteq S
    OBVIOUS
  <2>3. <<Below(y), Below(x)>> \in Q
    <3> HIDE DEF Below
    <3>1. QED
      BY <2>1, <2>2 DEF StrictSubsetOrdering
  <2>4. Below(y) \in T
    BY <1>5
  <2>5. QED
    BY <1>3, <1>4, <2>3, <2>4
<1>6. QED
  BY <1>5

(* The smallest of a finite set of numbers.                                 *)
LEMMA MinOf ==
    ASSUME NEW S, IsFiniteSet(S), S # {}, S \subseteq Int
    PROVE  Min(S) \in S /\ \A y \in S : Min(S) <= y
<1> DEFINE R == {p \in S \X S : p[1] < p[2]}
<1>1. \A x, y \in S : <<x, y>> \in R <=> x < y
  OBVIOUS
<1> HIDE DEF R
<1>2. PICK x \in S : \A y \in S : <<y, x>> \notin R
  <2>1. \A x \in S : <<x, x>> \notin R
    BY <1>1
  <2>2. \A x, y, z \in S : <<x, y>> \in R /\ <<y, z>> \in R => <<x, z>> \in R
    BY <1>1
  <2>3. QED
    BY <2>1, <2>2, Least
<1>3. \A y \in S : x <= y
  <2>1. \A y \in S : ~(y < x) /\ y \in Int /\ x \in Int
    BY <1>1, <1>2
  <2>2. QED
    BY <2>1
<1>4. QED
  BY <1>3 DEF Min

(* The greatest, likewise.                                                *)
LEMMA MaxOf ==
    ASSUME NEW S, IsFiniteSet(S), S # {}, S \subseteq Int
    PROVE  Max(S) \in S /\ \A y \in S : y <= Max(S)
<1> DEFINE R == {p \in S \X S : p[1] > p[2]}
<1>1. \A x, y \in S : <<x, y>> \in R <=> x > y
  OBVIOUS
<1> HIDE DEF R
<1>2. PICK x \in S : \A y \in S : <<y, x>> \notin R
  <2>1. \A x \in S : <<x, x>> \notin R
    BY <1>1
  <2>2. \A x, y, z \in S : <<x, y>> \in R /\ <<y, z>> \in R => <<x, z>> \in R
    BY <1>1
  <2>3. QED
    BY <2>1, <2>2, Least
<1>3. \A y \in S : x >= y
  <2>1. \A y \in S : ~(y > x) /\ y \in Int /\ x \in Int
    BY <1>1, <1>2
  <2>2. QED
    BY <2>1
<1>4. QED
  BY <1>3 DEF Max

(* Keys of one length whose last part tells them apart are totally ordered. *)
Keyed(S, key, n) ==
    /\ \A x \in S : key[x] \in Seq(Int) /\ Len(key[x]) = n
    /\ \A x, y \in S : key[x][n] = key[y][n] => x = y

LEMMA BeforeOrders ==
    ASSUME NEW n \in Nat \ {0}, NEW a \in Seq(Int), NEW b \in Seq(Int), NEW c \in Seq(Int),
           Len(a) = n, Len(b) = n, Len(c) = n
    PROVE  /\ ~Before(a, a)
           /\ Before(a, b) /\ Before(b, c) => Before(a, c)
           /\ a[n] # b[n] => Before(a, b) \/ Before(b, a)
<1>1. DOMAIN a = 1..n /\ DOMAIN b = 1..n /\ DOMAIN c = 1..n
  OBVIOUS
<1>2. \A i \in 1..n : a[i] \in Int /\ b[i] \in Int /\ c[i] \in Int
  BY <1>1
<1>3. ~Before(a, a)
  BY <1>1, <1>2 DEF Before
<1>4. ASSUME Before(a, b), Before(b, c) PROVE Before(a, c)
  <2>1. PICK i \in 1..n : a[i] < b[i] /\ \A k \in 1..(i - 1) : a[k] = b[k]
    BY <1>1, <1>4 DEF Before
  <2>2. PICK j \in 1..n : b[j] < c[j] /\ \A k \in 1..(j - 1) : b[k] = c[k]
    BY <1>1, <1>4 DEF Before
  <2>3. CASE i <= j
    <3>1. a[i] < c[i]
      BY <1>2, <2>1, <2>2, <2>3
    <3>2. \A k \in 1..(i - 1) : a[k] = c[k]
      BY <2>1, <2>2, <2>3
    <3>3. QED
      BY <1>1, <3>1, <3>2 DEF Before
  <2>4. CASE j < i
    <3>1. a[j] < c[j]
      BY <1>2, <2>1, <2>2, <2>4
    <3>2. \A k \in 1..(j - 1) : a[k] = c[k]
      BY <2>1, <2>2, <2>4
    <3>3. QED
      BY <1>1, <3>1, <3>2 DEF Before
  <2>5. QED
    BY <2>3, <2>4
<1>5. ASSUME a[n] # b[n] PROVE Before(a, b) \/ Before(b, a)
  <2> DEFINE D == {i \in 1..n : a[i] # b[i]}
  <2>1. D \subseteq 1..n /\ D # {} /\ D \subseteq Int
    BY <1>5
  <2>2. IsFiniteSet(D)
    <3>1. IsFiniteSet(1..n)
      BY FS_Interval
    <3>2. QED
      BY <2>1, <3>1, FS_Subset
  <2>3. PICK m \in D : \A y \in D : m <= y
    <3> HIDE DEF D
    <3>1. QED
      BY <2>1, <2>2, MinOf
  <2>4. m \in 1..n /\ a[m] # b[m] /\ \A k \in 1..(m - 1) : a[k] = b[k]
    BY <2>3
  <2>5. a[m] < b[m] \/ b[m] < a[m]
    BY <1>2, <2>4
  <2>6. CASE a[m] < b[m]
    BY <1>1, <2>4, <2>6 DEF Before
  <2>7. CASE b[m] < a[m]
    <3>1. \A k \in 1..(m - 1) : b[k] = a[k]
      BY <2>4
    <3>2. QED
      BY <1>1, <2>4, <2>7, <3>1 DEF Before
  <2>8. QED
    BY <2>5, <2>6, <2>7
<1>6. QED
  BY <1>3, <1>4, <1>5

(* Whatever the keys say, the first of some lanes is one of them.           *)
LEMMA FirstIn ==
    ASSUME NEW S, IsFiniteSet(S), S # {}, NEW key, NEW n \in Nat \ {0}, Keyed(S, key, n)
    PROVE  First(S, key) \in S
<1> DEFINE R == {p \in S \X S : Before(key[p[1]], key[p[2]])}
<1>1. \A x, y \in S : <<x, y>> \in R <=> Before(key[x], key[y])
  OBVIOUS
<1>2. \A x, y, z \in S : /\ ~Before(key[x], key[x])
                         /\ Before(key[x], key[y]) /\ Before(key[y], key[z])
                               => Before(key[x], key[z])
                         /\ x # y => Before(key[x], key[y]) \/ Before(key[y], key[x])
  BY BeforeOrders DEF Keyed
<1> HIDE DEF R
<1>3. PICK x \in S : \A y \in S : <<y, x>> \notin R
  <2>1. \A x \in S : <<x, x>> \notin R
    BY <1>1, <1>2
  <2>2. \A x, y, z \in S : <<x, y>> \in R /\ <<y, z>> \in R => <<x, z>> \in R
    BY <1>1, <1>2
  <2>3. QED
    BY <2>1, <2>2, Least
<1>4. \A y \in S \ {x} : Before(key[x], key[y])
  BY <1>1, <1>2, <1>3
<1>5. QED
  BY <1>4 DEF First

-----------------------------------------------------------------------------
(* Models, requests and their chains *)

ModelNames == Models \cup CodexModels

(* The models by name and family, and what Better means on them.            *)
LEMMA ModelFacts ==
    /\ ModelNames = {"luna", "terra", "astra", "opus", "fable"}
    /\ Models = {"opus", "fable"} /\ CodexModels = {"luna", "terra", "astra"}
    /\ None \notin ModelNames
    /\ \A m \in ModelNames : Capability[m] \in 0..3 /\ Better(m, m) /\ Better("fable", m)
    /\ \A a, b, c \in ModelNames : Better(a, b) /\ Better(b, c) => Better(a, c)
    /\ \A m \in ModelNames : /\ Family(m) = "codex" <=> m \in CodexModels
                             /\ Family(m) = "claude" <=> m \in Models
                             /\ Family(m) = "codex" \/ Family(m) = "claude"
<1>1. Models = {"opus", "fable"}
  BY DispatchAssumption
<1>2. ModelNames = {"luna", "terra", "astra", "opus", "fable"} /\ None \notin ModelNames
  BY <1>1 DEF ModelNames, CodexModels, None
<1>3. \A m \in ModelNames : Capability[m] \in 0..3 /\ Capability["fable"] = 3
  BY <1>2 DEF Capability
<1>4. \A m \in ModelNames : Better(m, m) /\ Better("fable", m)
  BY <1>3 DEF Better
<1>5. \A a, b, c \in ModelNames : Better(a, b) /\ Better(b, c) => Better(a, c)
  BY <1>3 DEF Better
<1>6. \A m \in ModelNames : /\ Family(m) = "codex" <=> m \in CodexModels
                            /\ Family(m) = "claude" <=> m \in Models
                            /\ Family(m) = "codex" \/ Family(m) = "claude"
  BY <1>1, <1>2 DEF Family, CodexModels
<1>7. QED
  BY <1>1, <1>2, <1>3, <1>4, <1>5, <1>6 DEF CodexModels

(* A chain that climbs from a model.                                        *)
Climbs(chain, model) ==
    /\ chain \in Seq(ModelNames)
    /\ \A i \in 1..Len(chain) : Better(chain[i], model)
    /\ \A i, j \in 1..Len(chain) : i < j => Better(chain[j], chain[i])

(* The upward chains climb from their first model.                          *)
LEMMA Upwards ==
    /\ \A t \in DOMAIN UpwardChain : /\ Climbs(UpwardChain[t], UpwardChain[t][1])
                                     /\ UpwardChain[t][1] \in ModelNames
    /\ \A m \in ModelNames : Climbs(<<m>>, m)
    /\ \A m \in ModelNames : Climbs(<<>>, m)
    /\ Climbs(UpwardChain["standard"], "opus")
<1>1. Better("astra", "luna") /\ Better("opus", "luna") /\ Better("astra", "opus")
  BY DEF Better, Capability
<1>2. {"luna", "astra", "opus"} \subseteq ModelNames
  BY ModelFacts
<1>3. \A m \in {"luna", "astra", "opus"} : Better(m, m)
  BY <1>2, ModelFacts
<1>4. ASSUME NEW a \in ModelNames, NEW b \in ModelNames, NEW c \in ModelNames,
             Better(b, a), Better(c, a), Better(c, b)
      PROVE  Climbs(<<a, b, c>>, a)
  <2> DEFINE s == <<a, b, c>>
  <2>1. s \in Seq(ModelNames) /\ Len(s) = 3 /\ s[1] = a /\ s[2] = b /\ s[3] = c
    OBVIOUS
  <2>2. Better(a, a)
    BY ModelFacts
  <2> HIDE DEF s
  <2>3. \A i \in 1..3 : i = 1 \/ i = 2 \/ i = 3
    OBVIOUS
  <2>4. QED
    BY <1>4, <2>1, <2>2, <2>3 DEF Climbs
<1>5. ASSUME NEW a \in ModelNames, NEW b \in ModelNames, Better(b, a)
      PROVE  Climbs(<<a, b>>, a)
  <2> DEFINE s == <<a, b>>
  <2>1. s \in Seq(ModelNames) /\ Len(s) = 2 /\ s[1] = a /\ s[2] = b
    OBVIOUS
  <2>2. Better(a, a)
    BY ModelFacts
  <2> HIDE DEF s
  <2>3. \A i \in 1..2 : i = 1 \/ i = 2
    OBVIOUS
  <2>4. QED
    BY <1>5, <2>1, <2>2, <2>3 DEF Climbs
<1>6. ASSUME NEW a \in ModelNames PROVE Climbs(<<a>>, a) /\ Climbs(<<>>, a)
  BY ModelFacts DEF Climbs
<1>7. Climbs(<<"luna", "opus", "astra">>, "luna")
  BY <1>1, <1>2, <1>4
<1>8. Climbs(<<"opus", "astra">>, "opus") /\ Climbs(<<"astra">>, "astra")
  BY <1>1, <1>2, <1>5, <1>6
<1>9. DOMAIN UpwardChain = {"trivial", "easy", "standard", "hard"}
      /\ UpwardChain["trivial"] = <<"luna", "opus", "astra">>
      /\ UpwardChain["easy"] = <<"luna", "opus", "astra">>
      /\ UpwardChain["standard"] = <<"opus", "astra">>
      /\ UpwardChain["hard"] = <<"astra">>
  BY DEF UpwardChain
<1>10. ASSUME NEW t \in DOMAIN UpwardChain
       PROVE  Climbs(UpwardChain[t], UpwardChain[t][1]) /\ UpwardChain[t][1] \in ModelNames
  <2>1. t = "trivial" \/ t = "easy" \/ t = "standard" \/ t = "hard"
    BY <1>9
  <2>2. QED
    BY <1>2, <1>7, <1>8, <1>9, <2>1
<1>11. QED
  BY <1>6, <1>8, <1>9, <1>10

(* What a request asks for, and the chain it may climb, none for a pin.     *)
LEMMA RequestFacts ==
    ASSUME NEW r \in Requests
    PROVE  /\ Requested(r) \in ModelNames
           /\ Climbs(Chain(r), Requested(r))
           /\ Pinned(r) => Chain(r) = <<>>
           /\ r.lane \in Lanes \cup {None} /\ r.home \in Homes \cup {None}
           /\ r.detached \in BOOLEAN
           /\ r.model # None => r.model \in ModelNames /\ Requested(r) = r.model
<1>1. /\ r \in RequestRecords
      /\ IF r.task = None THEN r.class # None ELSE r.tier # None
  BY DispatchAssumption
<1>2. /\ r.lane \in Lanes \cup {None} /\ r.home \in Homes \cup {None}
      /\ r.detached \in BOOLEAN /\ r.model \in ModelNames \cup {None}
      /\ r.tier \in DOMAIN UpwardChain \cup {None}
      /\ r.class \in DOMAIN ClassModel \cup {None}
  BY <1>1 DEF RequestRecords, ModelNames
<1>3. {"luna", "terra", "astra", "opus", "fable"} \subseteq ModelNames
  BY ModelFacts
<1>4. ASSUME r.class # None PROVE ClassModel[r.class] \in ModelNames
  <2>1. r.class \in {"fable", "review", "sweep", "build"}
    BY <1>2, <1>4 DEF ClassModel
  <2>2. QED
    BY <1>3, <2>1 DEF ClassModel
<1>5. ASSUME r.tier # None PROVE Preferred(r.task, r.tier) \in ModelNames
  BY <1>2, <1>3, <1>5, Upwards DEF Preferred
<1>6. Requested(r) \in ModelNames
  BY <1>1, <1>2, <1>3, <1>4, <1>5 DEF Requested
<1>7. r.model # None => r.model \in ModelNames /\ Requested(r) = r.model
  BY <1>2 DEF Requested
<1>8. Pinned(r) => Chain(r) = <<>>
  BY DEF Chain
<1>9. Climbs(Chain(r), Requested(r))
  <2>1. CASE Pinned(r)
    BY <1>6, <1>8, <2>1, Upwards
  <2>2. CASE ~Pinned(r) /\ r.task # None
    <3>1. r.tier \in DOMAIN UpwardChain
      BY <1>1, <1>2, <2>2
    <3>2. Requested(r) = Preferred(r.task, r.tier) /\ Preferred(r.task, r.tier) \in ModelNames
      BY <1>1, <1>5, <2>2 DEF Requested, Pinned
    <3>3. Chain(r) = SemanticCandidates(r.task, r.tier)
      BY <2>2 DEF Chain
    <3>4. CASE r.task \in {"voice", "sweep"}
      BY <3>2, <3>3, <3>4, Upwards DEF SemanticCandidates
    <3>5. CASE r.task \notin {"voice", "sweep"}
      BY <3>1, <3>2, <3>3, <3>5, Upwards DEF SemanticCandidates, Preferred
    <3>6. QED
      BY <3>4, <3>5
  <2>3. CASE ~Pinned(r) /\ r.task = None
    <3>1. Requested(r) = ClassModel[r.class]
      BY <2>3 DEF Requested, Pinned
    <3>2. CASE r.class \in {"build", "review"}
      <4>1. ClassModel[r.class] = "opus"
        BY <3>2 DEF ClassModel
      <4>2. Chain(r) = UpwardChain["standard"]
        BY <2>3, <3>2 DEF Chain
      <4>3. QED
        BY <3>1, <4>1, <4>2, Upwards
    <3>3. CASE r.class \notin {"build", "review"}
      <4>1. Chain(r) = <<>>
        BY <2>3, <3>3 DEF Chain
      <4>2. QED
        BY <1>6, <4>1, Upwards
    <3>4. QED
      BY <3>2, <3>3
  <2>4. QED
    BY <2>1, <2>2, <2>3
<1>10. QED
  BY <1>2, <1>6, <1>7, <1>8, <1>9

(* Elastic work asks for no more than Opus.                                 *)
LEMMA ElasticFacts ==
    ASSUME NEW snap, NEW r \in Requests, NEW model, Elastic(snap, r, model)
    PROVE  Better("opus", Requested(r)) /\ ~Pinned(r)
<1>1. ~Pinned(r) /\ \/ r.task = None /\ r.class # "fable"
                    \/ r.task = "sweep" /\ r.tier # "hard"
  BY DEF Elastic
<1>2. CASE r.task = None /\ r.class # "fable"
  <2>1. r \in RequestRecords /\ r.class # None
    BY <1>2, DispatchAssumption
  <2>2. r.class \in {"review", "sweep", "build"}
    BY <1>2, <2>1 DEF RequestRecords, ClassModel
  <2>3. Requested(r) = ClassModel[r.class]
    BY <1>1, <1>2 DEF Requested, Pinned
  <2>4. Requested(r) \in {"opus", "terra"}
    BY <2>2, <2>3 DEF ClassModel
  <2>5. QED
    BY <1>1, <2>4 DEF Better, Capability
<1>3. CASE r.task = "sweep" /\ r.tier # "hard"
  <2>1. Requested(r) = "terra"
    BY <1>1, <1>3 DEF Requested, Pinned, Preferred, None
  <2>2. QED
    BY <1>1, <2>1 DEF Better, Capability
<1>4. QED
  BY <1>1, <1>2, <1>3

(* The model that a capacity report selects is one of its chain.            *)
LEMMA SelectIn ==
    ASSUME NEW snap, NEW chain \in Seq(ModelNames), chain # <<>>
    PROVE  \E i \in 1..Len(chain) : Select(snap, chain) = chain[i]
<1> DEFINE live == {i \in DOMAIN chain : ~Exhausted(snap, chain[i])}
<1>1. Len(chain) \in Nat \ {0} /\ DOMAIN chain = 1..Len(chain)
  OBVIOUS
<1>2. live \subseteq 1..Len(chain) /\ live \subseteq Int
  BY <1>1
<1>3. IsFiniteSet(live)
  <2>1. IsFiniteSet(1..Len(chain))
    BY <1>1, FS_Interval
  <2>2. QED
    BY <1>2, <2>1, FS_Subset
<1>4. Select(snap, chain) = chain[IF live = {} THEN Len(chain) ELSE Min(live)]
  BY DEF Select
<1> HIDE DEF live
<1>5. live # {} => Min(live) \in live
  BY <1>2, <1>3, MinOf
<1>6. CASE live = {}
  BY <1>1, <1>4, <1>6
<1>7. CASE live # {}
  BY <1>2, <1>4, <1>5, <1>7
<1>8. QED
  BY <1>6, <1>7

(* The next route of a door is none, or a better model of its chain.        *)
LEMMA NextFacts ==
    ASSUME NEW d, door[d].request \in Requests
    PROVE  /\ Upward(d) \in Seq(ModelNames)
           /\ NextRoute(d) # None =>
                /\ NextRoute(d) \in ModelNames /\ ~Pinned(door[d].request)
                /\ Better(NextRoute(d), door[d].model)
           /\ NextRoute(d) = None \/ NextRoute(d) \in ModelNames
<1> DEFINE r == door[d].request
           chain == Chain(r)
           at == {i \in DOMAIN chain : chain[i] = door[d].model}
<1>1. Climbs(chain, Requested(r)) /\ (Pinned(r) => chain = <<>>)
  BY RequestFacts
<1>2. chain \in Seq(ModelNames) /\ Len(chain) \in Nat /\ DOMAIN chain = 1..Len(chain)
  BY <1>1 DEF Climbs
<1>3. at \subseteq 1..Len(chain) /\ at \subseteq Int
  BY <1>2
<1>4. IsFiniteSet(at)
  <2>1. IsFiniteSet(1..Len(chain))
    BY <1>2, FS_Interval
  <2>2. QED
    BY <1>3, <2>1, FS_Subset
<1>5. Upward(d) = IF at = {} THEN <<>> ELSE Above(chain, Min(at))
  BY DEF Upward
<1>6. \A i \in at : chain[i] = door[d].model
  OBVIOUS
<1>7. CASE at = {}
  <2>1. Upward(d) = <<>> /\ NextRoute(d) = None
    BY <1>5, <1>7 DEF NextRoute
  <2>2. QED
    BY <2>1
<1>8. CASE at # {}
  <2> DEFINE k == Min(at)
             up == Above(chain, k)
  <2>1. k \in at
    <3> HIDE DEF at
    <3>1. QED
      BY <1>3, <1>4, <1>8, MinOf
  <2>2. k \in 1..Len(chain) /\ chain[k] = door[d].model
    BY <1>3, <1>6, <2>1
  <2> HIDE DEF k
  <2>3. /\ up \in Seq(ModelNames) /\ Len(up) = Len(chain) - k
        /\ \A i \in 1..Len(up) : up[i] = chain[k + i]
    <3> HIDE DEF chain
    <3>1. up = SubSeq(chain, k + 1, Len(chain))
      BY DEF Above
    <3>2. k + 1 \in Int /\ Len(chain) \in Int /\ k + 1 <= Len(chain) + 1
          /\ \A i \in (k + 1)..Len(chain) : chain[i] \in ModelNames
      BY <1>2, <2>2
    <3>3. /\ up \in Seq(ModelNames)
          /\ Len(up) = IF k + 1 <= Len(chain) THEN Len(chain) - (k + 1) + 1 ELSE 0
          /\ \A i \in 1..(Len(chain) - (k + 1) + 1) : up[i] = chain[k + 1 + i - 1]
      BY <3>1, <3>2, SubSeqProperties
    <3> HIDE DEF up
    <3>4. Len(up) = Len(chain) - k
      BY <2>2, <3>2, <3>3
    <3>5. \A i \in 1..Len(up) : up[i] = chain[k + i]
      BY <2>2, <3>2, <3>3, <3>4
    <3>6. QED
      BY <3>3, <3>4, <3>5
  <2>4. Upward(d) = up
    BY <1>5, <1>8 DEF k
  <2>5. up # <<>> => ~Pinned(r)
    <3>1. chain # <<>>
      BY <2>2
    <3>2. QED
      BY <1>1, <3>1
  <2>6. ASSUME up # <<>>
        PROVE  NextRoute(d) \in ModelNames /\ Better(NextRoute(d), door[d].model)
    <3>1. NextRoute(d) = Select(door[d].snap, up)
      BY <2>4, <2>6 DEF NextRoute
    <3> HIDE DEF up, chain, r
    <3>2. PICK i \in 1..Len(up) : NextRoute(d) = up[i]
      BY <2>3, <2>6, <3>1, SelectIn
    <3>3. NextRoute(d) = chain[k + i] /\ k + i \in 1..Len(chain) /\ k < k + i
      BY <1>2, <2>2, <2>3, <3>2
    <3>4. Better(chain[k + i], chain[k]) /\ chain[k + i] \in ModelNames
      BY <1>1, <1>2, <2>2, <3>3 DEF Climbs
    <3>5. QED
      BY <2>2, <3>3, <3>4
  <2>7. CASE up = <<>>
    <3>1. NextRoute(d) = None
      BY <2>4, <2>7 DEF NextRoute
    <3>2. QED
      BY <2>3, <2>4, <3>1
  <2>8. CASE up # <<>>
    BY <2>3, <2>4, <2>5, <2>6, <2>8
  <2>9. QED
    BY <2>7, <2>8
<1>9. QED
  BY <1>7, <1>8

-----------------------------------------------------------------------------
(* Numbers: what is left, scores and keys *)

(* The sets of readings are finite.                                         *)
LEMMA FiniteThree ==
    ASSUME NEW a, NEW b, NEW c, NEW e
    PROVE  IsFiniteSet({a, b, c}) /\ IsFiniteSet({a, b, c, e}) /\ IsFiniteSet({a, b})
<1>1. IsFiniteSet({a}) /\ IsFiniteSet({b}) /\ IsFiniteSet({c}) /\ IsFiniteSet({e})
  BY FS_Singleton
<1>2. IsFiniteSet({a} \cup {b})
  BY <1>1, FS_Union
<1>3. IsFiniteSet(({a} \cup {b}) \cup {c})
  BY <1>1, <1>2, FS_Union
<1>4. IsFiniteSet((({a} \cup {b}) \cup {c}) \cup {e})
  BY <1>1, <1>3, FS_Union
<1>5. {a, b} = {a} \cup {b} /\ {a, b, c} = ({a} \cup {b}) \cup {c}
      /\ {a, b, c, e} = (({a} \cup {b}) \cup {c}) \cup {e}
  OBVIOUS
<1>6. QED
  BY <1>2, <1>3, <1>4, <1>5

(* What is left of a window is a part of Full, or unknown.                  *)
LEMMA LeftScored ==
    ASSUME NEW used \in Used
    PROVE  Left(used) \in Scored
<1>1. Full \in Nat
  BY LanesAssumption
<1>2. used \in Nat \/ used = -1
  BY DEF Used, Unknown
<1>3. CASE used = -1
  BY <1>3 DEF Left, Unknown, Scored
<1>4. CASE used \in Nat
  <2> DEFINE S == {0, Full - used}
  <2>1. IsFiniteSet(S) /\ S # {} /\ S \subseteq Int
    <3>1. IsFiniteSet(S)
      BY FiniteThree
    <3>2. QED
      BY <1>1, <1>4, <3>1
  <2>2. Left(used) = Max(S)
    BY <1>4 DEF Left, Unknown
  <2>3. Max(S) \in S /\ \A y \in S : y <= Max(S)
    <3> HIDE DEF S
    <3>1. QED
      BY <2>1, MaxOf
  <2>4. 0 <= Max(S) /\ Max(S) <= Full /\ Max(S) \in Int
    BY <1>1, <1>4, <2>3
  <2>5. QED
    BY <1>1, <2>2, <2>4 DEF Scored
<1>5. QED
  BY <1>2, <1>3, <1>4

(* So is the least of what is left of several.                              *)
LEMMA WorstScored ==
    ASSUME NEW S, IsFiniteSet(S), S \subseteq Scored
    PROVE  Worst(S) \in Scored
<1>1. Full \in Nat
  BY LanesAssumption
<1>2. Known(S) \subseteq 0..Full /\ Known(S) \subseteq Int /\ Known(S) \subseteq S
  BY <1>1 DEF Known, Scored, Unknown
<1>3. IsFiniteSet(Known(S))
  BY <1>2, FS_Subset
<1>4. Known(S) # {} => Min(Known(S)) \in Known(S)
  BY <1>2, <1>3, MinOf
<1>5. QED
  BY <1>2, <1>4 DEF Worst, Scored

(* So is the headroom of a lane for a model.                                *)
LEMMA HeadroomScored ==
    ASSUME NEW row \in LaneRows, NEW m \in Models
    PROVE  ModelHeadroom(row, m) \in Scored
<1>1. row.score \in Scored /\ row.windows[m] \in Used /\ row.scoped[m] \in Used
  BY DEF LaneRows
<1>2. Left(row.windows[m]) \in Scored /\ Left(row.scoped[m]) \in Scored
  BY <1>1, LeftScored
<1>3. IsFiniteSet({row.score, Left(row.windows[m]), Left(row.scoped[m])})
  BY FiniteThree
<1>4. {row.score, Left(row.windows[m]), Left(row.scoped[m])} \subseteq Scored
  BY <1>1, <1>2
<1>5. QED
  BY <1>3, <1>4, WorstScored DEF ModelHeadroom

(* Scores and uses are numbers.                                             *)
LEMMA ScoredInt == Scored \subseteq Int /\ Used \subseteq Int
BY LanesAssumption DEF Scored, Used, Unknown

(* Rows of a report.                                                        *)
HomeRows == [status : Statuses, dispatchable : BOOLEAN, weeklyReset : Nat, until : Nat]
Reports == [claude : [Lanes -> LaneRows], codex : [Homes -> HomeRows]]

(* The first lane of `subfleet run` is one of those it may take.            *)
LEMMA ClaudeFirst ==
    ASSUME NEW S, S \subseteq Lanes, S # {}, NEW rows \in [Lanes -> LaneRows],
           NEW score \in [Lanes -> Scored], NEW stranded
    PROVE  First(S, ClaudeKey(rows, score, stranded)) \in S
<1> DEFINE key == ClaudeKey(rows, score, stranded)
<1>1. ASSUME NEW l \in Lanes
      PROVE  key[l] \in Seq(Int) /\ Len(key[l]) = 7 /\ key[l][7] = Order[l]
  <2> DEFINE a1 == Bit(l \notin stranded)
             a2 == Bit(rows[l].active)
             a3 == Bit(score[l] = Unknown)
             a4 == (IF rows[l].active THEN Handicap ELSE 0) - score[l]
             a5 == rows[l].inFlight
             a6 == rows[l].tokens
             a7 == Order[l]
  <2>1. key[l] = <<a1, a2, a3, a4, a5, a6, a7>>
    BY DEF ClaudeKey
  <2>2. a1 \in Int /\ a2 \in Int /\ a3 \in Int
    BY DEF Bit
  <2>3. a4 \in Int
    <3>1. score[l] \in Scored
      OBVIOUS
    <3>2. score[l] \in Int
      BY <3>1, ScoredInt
    <3>3. Handicap \in Int
      BY LanesAssumption
    <3>4. QED
      BY <3>2, <3>3
  <2>4. a5 \in Int /\ a6 \in Int
    BY DEF LaneRows
  <2>5. a7 \in Int
    BY LanesAssumption
  <2> HIDE DEF a1, a2, a3, a4, a5, a6, a7, key
  <2>6. QED
    BY <2>1, <2>2, <2>3, <2>4, <2>5 DEF a7
<1>2. Keyed(S, key, 7)
  <2> HIDE DEF key
  <2>1. \A x, y \in S : key[x][7] = key[y][7] => x = y
    BY <1>1, LanesAssumption
  <2>2. QED
    BY <1>1, <2>1 DEF Keyed
<1>3. IsFiniteSet(S)
  BY DispatchAssumption, FS_Subset
<1> HIDE DEF key
<1>4. First(S, key) \in S
  BY <1>2, <1>3, FirstIn
<1>5. QED
  BY <1>4 DEF key

(* So is that of `subfleet pick claude`.                                    *)
LEMMA PickFirst ==
    ASSUME NEW S, S \subseteq Lanes, S # {}, NEW rows \in [Lanes -> LaneRows],
           NEW m \in Models
    PROVE  First(S, PickKey(rows, m)) \in S
<1> DEFINE key == PickKey(rows, m)
<1>1. ASSUME NEW l \in Lanes
      PROVE  key[l] \in Seq(Int) /\ Len(key[l]) = 6 /\ key[l][6] = Order[l]
  <2> DEFINE r == rows[l]
             left == Worst({Left(r.five), Left(r.weekly), Left(r.windows[m]), Left(r.scoped[m])})
             used == Full - left + (IF r.active THEN Handicap ELSE 0)
             a1 == Bit(left = Unknown)
             a2 == IF left = Unknown THEN 0 ELSE used
             a3 == r.inFlight
             a4 == Bit(left = Unknown /\ r.active)
             a5 == r.tokens
             a6 == Order[l]
  <2>1. key[l] = <<a1, a2, a3, a4, a5, a6>>
    BY DEF PickKey
  <2>2. a1 \in Int /\ a4 \in Int
    BY DEF Bit
  <2>3. left \in Int
    <3>1. r.five \in Used /\ r.weekly \in Used /\ r.windows[m] \in Used /\ r.scoped[m] \in Used
      BY DEF LaneRows
    <3> DEFINE T == {Left(r.five), Left(r.weekly), Left(r.windows[m]), Left(r.scoped[m])}
    <3>2. T \subseteq Scored
      BY <3>1, LeftScored
    <3>3. IsFiniteSet(T)
      BY FiniteThree
    <3>4. Worst(T) \in Scored
      <4> HIDE DEF T
      <4>1. QED
        BY <3>2, <3>3, WorstScored
    <3>5. QED
      BY <3>4, ScoredInt
  <2>4. a2 \in Int
    <3>1. Full \in Int /\ Handicap \in Int
      BY LanesAssumption
    <3> HIDE DEF left, r
    <3>2. QED
      BY <2>3, <3>1
  <2>5. a3 \in Int /\ a5 \in Int
    BY DEF LaneRows
  <2>6. a6 \in Int
    BY LanesAssumption
  <2> HIDE DEF a1, a2, a3, a4, a5, a6, key
  <2>7. QED
    BY <2>1, <2>2, <2>4, <2>5, <2>6 DEF a6
<1>2. Keyed(S, key, 6)
  <2> HIDE DEF key
  <2>1. \A x, y \in S : key[x][6] = key[y][6] => x = y
    BY <1>1, LanesAssumption
  <2>2. QED
    BY <1>1, <2>1 DEF Keyed
<1>3. IsFiniteSet(S)
  BY DispatchAssumption, FS_Subset
<1> HIDE DEF key
<1>4. First(S, key) \in S
  BY <1>2, <1>3, FirstIn
<1>5. QED
  BY <1>4 DEF key

(* And the best home.                                                       *)
LEMMA HomeFirst ==
    ASSUME NEW rows \in [Homes -> HomeRows], Open(rows) # {}
    PROVE  BestHome(rows) \in Homes
<1> DEFINE key == CodexKey(rows, 0)
           S == Open(rows)
<1>1. S \subseteq Homes
  BY DEF Open
<1>2. ASSUME NEW h \in Homes
      PROVE  key[h] \in Seq(Int) /\ Len(key[h]) = 3 /\ key[h][3] = Order[h]
  <2> DEFINE reset == rows[h].weeklyReset
             a1 == Bit(reset = 0)
             a2 == Max({0, reset - 0})
             a3 == Order[h]
  <2>1. key[h] = <<a1, a2, a3>>
    BY DEF CodexKey
  <2>2. a1 \in Int
    BY DEF Bit
  <2>3. a2 \in Int
    <3>1. reset \in Nat
      BY DEF HomeRows
    <3> HIDE DEF reset
    <3> DEFINE T == {0, reset - 0}
    <3>2. T \subseteq Int /\ T # {}
      BY <3>1
    <3>3. IsFiniteSet(T)
      BY FiniteThree
    <3>4. Max(T) \in T
      <4> HIDE DEF T
      <4>1. QED
        BY <3>2, <3>3, MaxOf
    <3>5. QED
      BY <3>2, <3>4
  <2>4. a3 \in Int
    BY LanesAssumption
  <2> HIDE DEF a1, a2, a3, key
  <2>5. QED
    BY <2>1, <2>2, <2>3, <2>4 DEF a3
<1>3. Keyed(S, key, 3)
  <2> HIDE DEF key, S
  <2>1. \A x, y \in S : key[x][3] = key[y][3] => x = y
    BY <1>1, <1>2, LanesAssumption
  <2>2. QED
    BY <1>1, <1>2, <2>1 DEF Keyed
<1>4. IsFiniteSet(S)
  BY <1>1, DispatchAssumption, FS_Subset
<1> HIDE DEF key, S
<1>5. First(S, key) \in S
  <2>1. S # {}
    BY DEF S
  <2>2. QED
    BY <1>3, <1>4, <2>1, FirstIn
<1>6. QED
  BY <1>1, <1>5 DEF key, S, BestHome

-----------------------------------------------------------------------------
(* Capacity reports *)

(* What a fleet holds, field by field.                                      *)
LEMMA FleetFacts ==
    ASSUME fleet \in Fleets
    PROVE  /\ fleet.claude \in [Lanes -> LaneRows]
           /\ fleet.probe \in [Lanes -> Scored]
           /\ \A h \in Homes : /\ fleet.codex[h].base \in Statuses
                               /\ fleet.codex[h].weeklyReset \in Nat
                               /\ fleet.codex[h].until \in Nat
<1>1. fleet \in FleetRecords
  BY DispatchAssumption
<1>2. /\ fleet.claude \in [Lanes -> LaneRows] /\ fleet.probe \in [Lanes -> Scored]
      /\ fleet.codex \in [Homes -> [base : Statuses, weeklyReset : Nat, until : Nat]]
  BY <1>1 DEF FleetRecords
<1>3. QED
  BY <1>2

(* A Claude row of a report, with its cooldowns and runs in flight.         *)
LEMMA RowTyped ==
    ASSUME fleet \in Fleets, NEW l \in Lanes
    PROVE  ClaudeRow(l) \in LaneRows
<1> DEFINE r == fleet.claude[l]
           shut == Account \in cooldown[l] /\ r.status = "ok"
           cooled == [s \in Scopes |-> Bit(s \in cooldown[l])]
<1>1. r \in LaneRows
  BY FleetFacts
<1>2. cooled \in [Scopes -> Nat]
  BY DEF Bit
<1>3. InFlight(l) \in Nat
  <2>1. IsFiniteSet(Doors)
    BY DispatchAssumption
  <2>2. {d \in Doors : run[d].pc = "running" /\ run[d].lane = l} \subseteq Doors
    OBVIOUS
  <2>3. QED
    BY <2>1, <2>2, FS_Subset, FS_CardinalityType DEF InFlight
<1>4. 0 \in Scored
  BY LanesAssumption DEF Scored
<1> DEFINE open == r.dispatchable /\ ~shut
           status == IF shut THEN "limited" ELSE r.status
           score == IF shut THEN 0 ELSE r.score
           flights == InFlight(l)
<1>5. open \in BOOLEAN
  OBVIOUS
<1>6. status \in Statuses /\ score \in Scored
  <2>1. r.status \in Statuses /\ r.score \in Scored
    BY <1>1 DEF LaneRows
  <2> HIDE DEF r, shut
  <2>2. status \in Statuses
    <3>1. "limited" \in Statuses
      BY DEF Statuses
    <3>2. QED
      BY <2>1, <3>1
  <2>3. score \in Scored
    BY <1>4, <2>1
  <2>4. QED
    BY <2>2, <2>3
<1>7. ClaudeRow(l) = [r EXCEPT !.cooled = cooled, !.status = status, !.score = score,
                               !.dispatchable = open, !.inFlight = flights]
  BY DEF ClaudeRow
<1> HIDE DEF r, shut, cooled, open, status, score, flights
<1>8. [r EXCEPT !.cooled = cooled, !.status = status, !.score = score,
                !.dispatchable = open, !.inFlight = flights] \in LaneRows
  BY <1>1, <1>2, <1>3, <1>5, <1>6 DEF LaneRows, flights
<1>9. QED
  BY <1>7, <1>8

(* A Codex row of a report, with the limit its home met.                    *)
LEMMA GatedTyped ==
    ASSUME fleet \in Fleets, NEW h \in Homes, NEW short \in Nat
    PROVE  Gated(fleet.codex[h], short) \in HomeRows
<1> DEFINE c == fleet.codex[h]
           open == c.base = "ok" /\ short = 0
<1>1. c.base \in Statuses /\ c.weeklyReset \in Nat /\ c.until \in Nat
  BY FleetFacts
<1>2. open \in BOOLEAN
  OBVIOUS
<1>3. Gated(c, short) = [status |-> IF c.base = "ok" /\ short # 0 THEN "cooldown" ELSE c.base,
                         dispatchable |-> open, weeklyReset |-> c.weeklyReset,
                         until |-> IF c.base = "ok" THEN short ELSE c.until]
  BY DEF Gated
<1> DEFINE status == IF c.base = "ok" /\ short # 0 THEN "cooldown" ELSE c.base
           until == IF c.base = "ok" THEN short ELSE c.until
<1> HIDE DEF c
<1>4. status \in Statuses /\ until \in Nat
  <2>1. "cooldown" \in Statuses
    BY DEF Statuses
  <2>2. status \in Statuses
    BY <1>1, <2>1
  <2>3. until \in Nat
    BY <1>1
  <2>4. QED
    BY <2>2, <2>3
<1>5. Gated(c, short) = [status |-> status, dispatchable |-> open,
                         weeklyReset |-> c.weeklyReset, until |-> until]
  BY <1>3
<1> HIDE DEF open, status, until
<1>6. Gated(c, short) \in HomeRows
  BY <1>1, <1>2, <1>4, <1>5 DEF HomeRows
<1>7. QED
  BY <1>6 DEF c

(* A report holds a row of each lane and of each home.                      *)
LEMMA ReportTyped ==
    ASSUME fleet \in Fleets
    PROVE  Report \in Reports
<1>1. [l \in Lanes |-> ClaudeRow(l)] \in [Lanes -> LaneRows]
  BY RowTyped
<1>2. ASSUME NEW h \in Homes PROVE Gated(fleet.codex[h], Bit(h \in rested)) \in HomeRows
  <2>1. Bit(h \in rested) \in Nat
    BY DEF Bit
  <2>2. QED
    BY <2>1, GatedTyped
<1>3. [h \in Homes |-> Gated(fleet.codex[h], Bit(h \in rested))] \in [Homes -> HomeRows]
  BY <1>2
<1>4. Report.claude = [l \in Lanes |-> ClaudeRow(l)]
      /\ Report.codex = [h \in Homes |-> Gated(fleet.codex[h], Bit(h \in rested))]
  BY DEF Report
<1>5. Report = [claude |-> Report.claude, codex |-> Report.codex]
  BY DEF Report
<1>6. QED
  BY <1>1, <1>3, <1>4, <1>5 DEF Reports

(* The scores by which a door compares lanes for a model.                   *)
LEMMA ProbedTyped ==
    ASSUME fleet \in Fleets, NEW snap \in Reports, NEW m \in Models
    PROVE  ProbedScore(snap, m) \in [Lanes -> Scored]
<1>1. ASSUME NEW l \in Lanes PROVE ModelHeadroom(snap.claude[l], m) \in Scored
  <2>1. snap.claude[l] \in LaneRows
    BY DEF Reports
  <2>2. QED
    BY <2>1, HeadroomScored
<1>2. \A l \in Lanes : fleet.probe[l] \in Scored
  BY FleetFacts
<1>3. QED
  BY <1>1, <1>2 DEF ProbedScore

(* The best lane is one of those that may serve the model.                  *)
LEMMA BestLaneIn ==
    ASSUME fleet \in Fleets, NEW snap \in Reports, NEW m \in Models,
           NEW S, S \subseteq Lanes, S # {}
    PROVE  BestLane(snap, S, m) \in S
<1>1. snap.claude \in [Lanes -> LaneRows]
  BY DEF Reports
<1>2. QED
  BY <1>1, ProbedTyped, ClaudeFirst DEF BestLane

(* Candidates are lanes that the door has not left out.                     *)
LEMMA CandidatesIn ==
    ASSUME NEW snap, NEW m, NEW excluded
    PROVE  Candidates(snap, m, excluded) \subseteq Lanes \ excluded
BY DEF Candidates, Eligible

(* Cooling blind lanes for some models cools scopes.                        *)
LEMMA ChilledTyped ==
    ASSUME NEW snap, NEW S, S \subseteq Models, NEW excluded,
           cooldown \in [Lanes -> SUBSET Scopes]
    PROVE  Chilled(snap, S, excluded) \in [Lanes -> SUBSET Scopes]
BY DEF Chilled, Scopes

-----------------------------------------------------------------------------
(* The inductive invariant.  It speaks of one door and its run at a time,   *)
(* which share nothing with the others but cooldowns: a lane's family, the  *)
(* reports of doors that still decide, who remembers the refusals (a door   *)
(* that decides, or the run that moves on), and what pins bind.             *)

DoorRecords ==
    [pc : {"choose", "waiting", "done"}, request : Requests, model : ModelNames,
     snap : Reports \cup {<<>>}, tried : SUBSET Pairs, attempts : 0..MaxAttempts,
     refused : SUBSET Pairs, result : Nat]
RunRecords ==
    [pc : {"running", "over"}, lane : Lanes \cup Homes, model : ModelNames, auto : BOOLEAN,
     attempt : 1..(MaxRetries + 1), excluded : SUBSET (Lanes \cup Homes), rc : Nat]

\* Reports of doors that still decide; a run's lane is of its model's family.
Formed(D, R) ==
    /\ D = Idle \/ D \in DoorRecords
    /\ R = NoRun \/ R \in RunRecords
    /\ D.pc \in {"choose", "waiting"} => D.snap \in Reports
    /\ R # NoRun =>
          /\ Family(R.model) = "codex" => R.lane \in Homes
          /\ Family(R.model) = "claude" => R.lane \in Lanes

\* A door and its run.
Linked(D, R) ==
    /\ D.pc \in {"idle", "choose"} => R = NoRun
    /\ D.pc = "waiting" => R # NoRun
    /\ R # NoRun => R.model = D.model
    /\ R # NoRun /\ R.auto => D.request.lane = None /\ D.request.home = None

\* Pins bind a family, and the model but for Fable.
Binds(r, model) ==
    /\ r.lane # None => Family(model) = "claude"
    /\ r.home # None => Family(model) = "codex"
    /\ r.model # None => model \in {r.model, "fable"}

\* The pins are kept by the door and by its run.
Bound(D, R) ==
    /\ D # Idle => Binds(D.request, D.model)
    /\ R # NoRun => /\ D.request.lane # None => R.lane = D.request.lane
                    /\ D.request.home # None => R.lane = D.request.home

\* Refused runs are remembered, and so not given again.
Remembered(D, R) ==
    /\ D.pc \in {"choose", "waiting"} => D.refused \subseteq D.tried
    /\ D.pc = "choose" /\ (D.request.lane # None \/ D.request.detached) => D.refused = {}
    /\ D.pc = "waiting" =>
          /\ ~D.request.detached
          /\ Family(R.model) = "claude" => <<R.lane, R.model>> \in D.tried /\ ~R.auto
    /\ R.pc = "running" =>
          /\ <<R.lane, R.model>> \notin D.refused
          /\ D.pc = "done" => \A p \in D.refused : p[1] \in R.excluded

Sound(D, R) == Formed(D, R) /\ Linked(D, R) /\ Bound(D, R) /\ Remembered(D, R)

Shared ==
    /\ fleet \in Fleets /\ others \in 0..MaxOthers
    /\ cooldown \in [Lanes -> SUBSET Scopes] /\ rested \subseteq Homes
    /\ door = [d \in Doors |-> door[d]] /\ run = [d \in Doors |-> run[d]]

IInv == Shared /\ \A d \in Doors : Sound(door[d], run[d])

-----------------------------------------------------------------------------
(* Steps of one door or run, record by record *)

(* Idle doors and absent runs are told from the others by pc.               *)
LEMMA Distinct ==
    /\ Idle.pc = "idle" /\ NoRun.pc = "none" /\ NoRun.lane = None
    /\ \A D \in DoorRecords : D.pc \in {"choose", "waiting", "done"} /\ D # Idle
    /\ \A R \in RunRecords : R.pc \in {"running", "over"} /\ R # NoRun
<1>1. Idle.pc = "idle" /\ NoRun.pc = "none" /\ NoRun.lane = None
  BY DEF Idle, NoRun
<1>2. \A D \in DoorRecords : D.pc \in {"choose", "waiting", "done"}
  BY DEF DoorRecords
<1>3. \A R \in RunRecords : R.pc \in {"running", "over"}
  BY DEF RunRecords
<1>4. QED
  BY <1>1, <1>2, <1>3

(* A dispatch ends.                                                         *)
LEMMA EndedFacts ==
    ASSUME NEW D \in DoorRecords, NEW n \in Nat
    PROVE  LET E == Ended(D, n)
           IN /\ E \in DoorRecords /\ E.pc = "done" /\ E.request = D.request
              /\ E.model = D.model /\ E.refused = D.refused
<1>1. {} \in SUBSET Pairs /\ 0 \in 0..MaxAttempts
  BY DispatchAssumption
<1>2. QED
  BY <1>1 DEF DoorRecords, Ended

LEMMA EndsSound ==
    ASSUME NEW D \in DoorRecords, NEW R, Sound(D, R), NEW n \in Nat
    PROVE  Sound(Ended(D, n), NoRun)
<1> DEFINE E == Ended(D, n)
<1>1. E \in DoorRecords /\ E.pc = "done" /\ E.request = D.request /\ E.model = D.model
  BY EndedFacts
<1> HIDE DEF E
<1>2. Formed(E, NoRun) /\ Linked(E, NoRun) /\ Remembered(E, NoRun)
  BY <1>1, Distinct DEF Formed, Linked, Remembered
<1>3. Bound(E, NoRun)
  BY <1>1, Distinct DEF Sound, Bound
<1>4. QED
  BY <1>2, <1>3 DEF Sound, E

(* It goes on with a model that its pins allow.                             *)
LEMMA PromotesSound ==
    ASSUME NEW D \in DoorRecords, NEW R, Sound(D, R), NEW m \in ModelNames,
           Binds(D.request, m),
           \/ D.pc = "choose"
           \/ D.pc = "waiting" /\ D.request.lane = None,
           NEW E, E = [D EXCEPT !.model = m, !.attempts = 0, !.pc = "choose"]
    PROVE  Sound(E, NoRun)
<1>1. /\ E \in DoorRecords /\ E.pc = "choose" /\ E.request = D.request /\ E.model = m
      /\ E.snap = D.snap /\ E.tried = D.tried /\ E.refused = D.refused
  <2>1. 0 \in 0..MaxAttempts
    BY DispatchAssumption
  <2>2. QED
    BY <2>1 DEF DoorRecords
<1>2. Formed(E, NoRun) /\ Linked(E, NoRun) /\ Bound(E, NoRun)
  BY <1>1, Distinct DEF Formed, Linked, Bound, Sound
<1>3. Remembered(E, NoRun)
  BY <1>1, Distinct DEF Remembered, Sound
<1>4. QED
  BY <1>2, <1>3 DEF Sound

(* A door that came back from a free lane decides again.                    *)
LEMMA AgainSound ==
    ASSUME NEW D \in DoorRecords, NEW R, Sound(D, R),
           D.pc = "waiting", D.request.lane = None,
           NEW E, E = [D EXCEPT !.pc = "choose"]
    PROVE  Sound(E, NoRun)
<1>1. /\ E \in DoorRecords /\ E.pc = "choose" /\ E.request = D.request /\ E.model = D.model
      /\ E.snap = D.snap /\ E.tried = D.tried /\ E.refused = D.refused
  BY DEF DoorRecords
<1>2. Formed(E, NoRun) /\ Linked(E, NoRun) /\ Bound(E, NoRun)
  BY <1>1, Distinct DEF Formed, Linked, Bound, Sound
<1>3. Remembered(E, NoRun)
  BY <1>1, Distinct DEF Remembered, Sound
<1>4. QED
  BY <1>2, <1>3 DEF Sound

(* The door of a run waits for it or has let it go.                         *)
LEMMA RunFacts ==
    ASSUME NEW D, NEW R, Sound(D, R), R.pc \in {"running", "over"}
    PROVE  /\ D \in DoorRecords /\ R \in RunRecords /\ D.pc \in {"waiting", "done"}
           /\ R.model = D.model /\ R.model \in ModelNames /\ D.request \in Requests
           /\ Family(R.model) = "codex" => R.lane \in Homes
           /\ Family(R.model) = "claude" => R.lane \in Lanes /\ R.model \in Models
<1>1. R # NoRun /\ R \in RunRecords
  BY Distinct DEF Sound, Formed
<1>2. D.pc \notin {"idle", "choose"}
  BY <1>1 DEF Sound, Linked
<1>3. D \in DoorRecords /\ D.pc \in {"waiting", "done"}
  BY <1>2, Distinct DEF Sound, Formed
<1>4. R.model = D.model /\ R.model \in ModelNames /\ D.request \in Requests
  BY <1>1, <1>3 DEF Sound, Linked, RunRecords, DoorRecords
<1>5. /\ Family(R.model) = "codex" => R.lane \in Homes
      /\ Family(R.model) = "claude" => R.lane \in Lanes
  BY <1>1 DEF Sound, Formed
<1>6. QED
  BY <1>1, <1>3, <1>4, <1>5, ModelFacts

(* A door that takes note of a refusal.                                     *)
Noted(D, R) == [D EXCEPT !.refused = @ \cup {<<R.lane, R.model>>}]

(* What a noted refusal changes, and what not.                              *)
LEMMA NotedFacts ==
    ASSUME NEW D \in DoorRecords, NEW R, R.lane \in Lanes, R.model \in Models
    PROVE  LET E == Noted(D, R)
           IN /\ E \in DoorRecords /\ E.pc = D.pc /\ E.request = D.request
              /\ E.model = D.model /\ E.snap = D.snap /\ E.tried = D.tried
              /\ E.refused = D.refused \cup {<<R.lane, R.model>>}
<1> DEFINE p == <<R.lane, R.model>>
<1>1. p \in Pairs
  BY DEF Pairs
<1>2. Noted(D, R) = [D EXCEPT !.refused = @ \cup {p}]
  BY DEF Noted
<1>3. D.refused \cup {p} \in SUBSET Pairs
  BY <1>1 DEF DoorRecords
<1> HIDE DEF p
<1>4. QED
  BY <1>2, <1>3 DEF DoorRecords, p

(* A run is over, refused or not.                                           *)
LEMMA OverSound ==
    ASSUME NEW D, NEW R, Sound(D, R), R.pc = "running", NEW n \in Nat,
           NEW F, F = [R EXCEPT !.pc = "over", !.rc = n]
    PROVE  /\ Sound(D, F)
           /\ Family(R.model) = "claude" => Sound(Noted(D, R), F)
<1>1. /\ D \in DoorRecords /\ R \in RunRecords /\ D.pc \in {"waiting", "done"}
      /\ Family(R.model) = "claude" => R.lane \in Lanes /\ R.model \in Models
  BY RunFacts
<1>2. /\ F \in RunRecords /\ F.pc = "over" /\ F.lane = R.lane /\ F.model = R.model
      /\ F.auto = R.auto
  BY <1>1 DEF RunRecords
<1>3. F # NoRun /\ R # NoRun /\ D # Idle
  BY <1>1, <1>2, Distinct
<1>4. Formed(D, F) /\ Linked(D, F) /\ Bound(D, F) /\ Remembered(D, F)
  <2>1. Formed(D, F)
    BY <1>1, <1>2, <1>3 DEF Formed, Sound
  <2>2. Linked(D, F) /\ Bound(D, F)
    BY <1>1, <1>2, <1>3 DEF Linked, Bound, Sound
  <2>3. Remembered(D, F)
    BY <1>1, <1>2, <1>3 DEF Remembered, Sound
  <2>4. QED
    BY <2>1, <2>2, <2>3
<1>5. ASSUME Family(R.model) = "claude" PROVE Sound(Noted(D, R), F)
  <2> DEFINE E == Noted(D, R)
  <2>1. /\ E \in DoorRecords /\ E.pc = D.pc /\ E.request = D.request
        /\ E.model = D.model /\ E.snap = D.snap /\ E.tried = D.tried
        /\ E.refused = D.refused \cup {<<R.lane, R.model>>}
    BY <1>1, <1>5, NotedFacts
  <2> HIDE DEF E
  <2>2. E # Idle
    BY <2>1, Distinct
  <2>3. Formed(E, F)
    BY <1>2, <1>4, <2>1 DEF Formed
  <2>4. Linked(E, F) /\ Bound(E, F)
    BY <1>3, <1>4, <2>1, <2>2 DEF Linked, Bound
  <2>5. D.pc = "waiting" => <<R.lane, R.model>> \in D.tried /\ D.refused \subseteq D.tried
    BY <1>5 DEF Sound, Remembered
  <2>6. Remembered(E, F)
    BY <1>1, <1>2, <1>4, <2>1, <2>5 DEF Remembered
  <2>7. QED
    BY <2>3, <2>4, <2>6 DEF Sound, E
<1>6. QED
  BY <1>4, <1>5 DEF Sound

(* A run tries again where it is.                                           *)
LEMMA RetrySound ==
    ASSUME NEW D, NEW R, Sound(D, R), R.pc = "running", R.attempt <= MaxRetries,
           NEW F, F = [R EXCEPT !.attempt = @ + 1]
    PROVE  Sound(D, F)
<1>1. D \in DoorRecords /\ R \in RunRecords /\ D.pc \in {"waiting", "done"}
  BY RunFacts
<1>2. R.attempt + 1 \in 1..(MaxRetries + 1)
  BY <1>1, DispatchAssumption DEF RunRecords
<1>3. /\ F \in RunRecords /\ F.pc = R.pc /\ F.lane = R.lane /\ F.model = R.model
      /\ F.auto = R.auto /\ F.excluded = R.excluded
  BY <1>1, <1>2 DEF RunRecords
<1>4. F # NoRun /\ R # NoRun
  BY <1>1, <1>3, Distinct
<1>5. Formed(D, F)
  BY <1>3, <1>4 DEF Formed, Sound
<1>6. Linked(D, F) /\ Bound(D, F)
  BY <1>3, <1>4 DEF Linked, Bound, Sound
<1>7. Remembered(D, F)
  BY <1>3 DEF Remembered, Sound
<1>8. QED
  BY <1>5, <1>6, <1>7 DEF Sound

(* A run moves to a lane that it has not had, or to another home.           *)
LEMMA MovesSound ==
    ASSUME NEW D, NEW R, Sound(D, R), R.pc = "running", R.auto, R.attempt <= MaxRetries,
           NEW l, NEW F,
           F = [R EXCEPT !.lane = l, !.attempt = @ + 1, !.excluded = @ \cup {R.lane}]
    PROVE  /\ Family(R.model) = "codex" /\ l \in Homes => Sound(D, F)
           /\ /\ Family(R.model) = "claude" /\ l \in Lanes
              /\ l \notin R.excluded \cup {R.lane}
              => Sound(Noted(D, R), F)
<1>1. /\ D \in DoorRecords /\ R \in RunRecords /\ D.pc \in {"waiting", "done"}
      /\ R.model = D.model /\ R.model \in ModelNames
      /\ Family(R.model) = "claude" => R.lane \in Lanes /\ R.model \in Models
  BY RunFacts
<1>2. R.attempt + 1 \in 1..(MaxRetries + 1)
  BY <1>1, DispatchAssumption DEF RunRecords
<1>3. ASSUME l \in Lanes \cup Homes
      PROVE  /\ F \in RunRecords /\ F.pc = "running" /\ F.lane = l /\ F.model = R.model
             /\ F.auto = R.auto /\ F.excluded = R.excluded \cup {R.lane}
  <2>1. R.excluded \cup {R.lane} \in SUBSET (Lanes \cup Homes)
    BY <1>1 DEF RunRecords
  <2>2. QED
    BY <1>1, <1>2, <1>3, <2>1 DEF RunRecords
<1>4. R # NoRun /\ D # Idle
  BY <1>1, Distinct
<1>5. D.request.lane = None /\ D.request.home = None
  BY <1>4 DEF Sound, Linked
<1>6. ASSUME Family(R.model) = "codex", l \in Homes PROVE Sound(D, F)
  <2>1. F # NoRun
    BY <1>3, <1>6, Distinct
  <2>2. Formed(D, F)
    BY <1>3, <1>6, <2>1 DEF Formed, Sound
  <2>3. Linked(D, F) /\ Bound(D, F)
    BY <1>3, <1>4, <1>5, <1>6, <2>1 DEF Linked, Bound, Sound
  <2>4. <<l, R.model>> \notin D.refused
    <3>1. R.model \notin Models
      BY <1>1, <1>6, ModelFacts
    <3>2. QED
      BY <1>1, <3>1 DEF DoorRecords, Pairs
  <2>5. Remembered(D, F)
    BY <1>1, <1>3, <1>6, <2>4 DEF Remembered, Sound
  <2>6. QED
    BY <2>2, <2>3, <2>5 DEF Sound
<1>7. ASSUME Family(R.model) = "claude", l \in Lanes, l \notin R.excluded \cup {R.lane}
      PROVE  Sound(Noted(D, R), F)
  <2> DEFINE E == Noted(D, R)
  <2>1. /\ E \in DoorRecords /\ E.pc = D.pc /\ E.request = D.request
        /\ E.model = D.model /\ E.snap = D.snap /\ E.tried = D.tried
        /\ E.refused = D.refused \cup {<<R.lane, R.model>>}
    BY <1>1, <1>7, NotedFacts
  <2> HIDE DEF E
  <2>2. E # Idle /\ F # NoRun
    BY <1>3, <1>7, <2>1, Distinct
  <2>3. Formed(E, F)
    BY <1>3, <1>7, <2>1, <2>2, ModelFacts DEF Formed, Sound
  <2>4. Linked(E, F) /\ Bound(E, F)
    BY <1>3, <1>4, <1>5, <1>7, <2>1, <2>2 DEF Linked, Bound, Sound
  <2>5. D.pc = "done"
    BY <1>1, <1>7 DEF Sound, Remembered
  <2>6. \A p \in D.refused : p[1] \in R.excluded
    BY <2>5 DEF Sound, Remembered
  <2>7. \A p \in E.refused : p[1] \in F.excluded
    BY <1>3, <1>7, <2>1, <2>6
  <2>8. <<l, R.model>> \notin E.refused
    BY <1>7, <2>1, <2>6
  <2>9. Remembered(E, F)
    BY <1>3, <1>7, <2>1, <2>5, <2>7, <2>8 DEF Remembered
  <2>10. QED
    BY <2>3, <2>4, <2>9 DEF Sound, E
<1>8. QED
  BY <1>6, <1>7

(* A new run, on a lane of its model's family that the pins allow and that  *)
(* did not refuse it; E is the door that has taken note of a Claude lane.   *)
NewRun(l, m, a) ==
    [pc |-> "running", lane |-> l, model |-> m, auto |-> a, attempt |-> 1,
     excluded |-> {}, rc |-> 0]

LEMMA LaunchSound ==
    ASSUME NEW D \in DoorRecords, Sound(D, NoRun), D.pc = "choose",
           NEW auto \in BOOLEAN,
           auto => D.request.lane = None /\ D.request.home = None,
           auto /\ Family(D.model) = "claude" => D.request.detached,
           NEW lane \in IF Family(D.model) = "codex" THEN Homes ELSE Lanes,
           D.request.lane # None => lane = D.request.lane,
           D.request.home # None => lane = D.request.home,
           <<lane, D.model>> \notin D.refused,
           NEW E, E = IF Family(D.model) = "codex" THEN D ELSE Recorded(D, lane),
           Family(D.model) # "codex" => D.attempts < MaxAttempts
    PROVE  Sound(AfterLaunch(E), NewRun(lane, D.model, auto))
<1> DEFINE R == NewRun(lane, D.model, auto)
<1>1. D.model \in ModelNames /\ D.request \in Requests
  BY DEF DoorRecords
<1>2. \/ Family(D.model) = "codex" /\ lane \in Homes
      \/ Family(D.model) = "claude" /\ lane \in Lanes /\ D.model \in Models
  BY <1>1, ModelFacts
<1>3. /\ R \in RunRecords /\ R.pc = "running" /\ R.lane = lane /\ R.model = D.model
      /\ R.auto = auto /\ R.excluded = {}
  <2>1. 1 \in 1..(MaxRetries + 1) /\ 0 \in Nat /\ {} \in SUBSET (Lanes \cup Homes)
    BY DispatchAssumption
  <2>2. lane \in Lanes \cup Homes
    BY <1>2
  <2>3. QED
    BY <1>1, <2>1, <2>2 DEF NewRun, RunRecords
<1>4. R # NoRun
  BY <1>3, Distinct
<1> HIDE DEF R
<1>5. /\ E \in DoorRecords /\ E.pc = "choose" /\ E.request = D.request /\ E.model = D.model
      /\ E.snap = D.snap /\ E.refused = D.refused /\ D.tried \subseteq E.tried
      /\ Family(D.model) = "claude" => <<lane, D.model>> \in E.tried
  <2>1. CASE Family(D.model) = "codex"
    BY <1>2, <2>1
  <2>2. CASE Family(D.model) # "codex"
    <3>1. <<lane, D.model>> \in Pairs
      BY <1>2, <2>2 DEF Pairs
    <3>2. D.attempts + 1 \in 0..MaxAttempts /\ D.tried \cup {<<lane, D.model>>} \in SUBSET Pairs
      BY <2>2, <3>1, DispatchAssumption DEF DoorRecords
    <3>3. E = [D EXCEPT !.attempts = @ + 1, !.tried = @ \cup {<<lane, D.model>>}]
      BY <2>2 DEF Recorded
    <3> DEFINE n == D.attempts + 1
               t == D.tried \cup {<<lane, D.model>>}
    <3>4. E = [D EXCEPT !.attempts = n, !.tried = t]
      BY <3>3
    <3>5. n \in 0..MaxAttempts /\ t \in SUBSET Pairs /\ D.tried \subseteq t
          /\ <<lane, D.model>> \in t
      BY <3>2
    <3> HIDE DEF n, t
    <3>6. QED
      BY <3>4, <3>5 DEF DoorRecords
  <2>3. QED
    BY <2>1, <2>2
<1> DEFINE A == AfterLaunch(E)
<1>6. /\ A \in DoorRecords /\ A.request = D.request /\ A.model = D.model
      /\ A.refused = D.refused
      /\ IF D.request.detached THEN A.pc = "done"
         ELSE A.pc = "waiting" /\ A.snap = D.snap /\ A.tried = E.tried
  <2>1. CASE D.request.detached
    <3>1. A = Ended(E, 0)
      BY <1>5, <2>1 DEF AfterLaunch
    <3> HIDE DEF A
    <3>2. E \in DoorRecords /\ 0 \in Nat
      BY <1>5
    <3>3. /\ Ended(E, 0) \in DoorRecords /\ Ended(E, 0).pc = "done"
          /\ Ended(E, 0).request = E.request /\ Ended(E, 0).model = E.model
          /\ Ended(E, 0).refused = E.refused
      BY <3>2, EndedFacts
    <3>4. QED
      BY <1>5, <2>1, <3>1, <3>3
  <2>2. CASE ~D.request.detached
    <3>1. A = [E EXCEPT !.pc = "waiting"]
      BY <1>5, <2>2 DEF AfterLaunch
    <3>2. QED
      BY <1>5, <2>2, <3>1 DEF DoorRecords
  <2>3. QED
    BY <2>1, <2>2
<1> HIDE DEF A
<1>7. A # Idle /\ A.pc \in {"waiting", "done"}
  BY <1>6, Distinct
<1>8. /\ D.snap \in Reports /\ D.refused \subseteq D.tried
      /\ D.request.detached => D.refused = {}
      /\ Binds(D.request, D.model)
  BY Distinct DEF Sound, Formed, Remembered, Bound
<1>9. Formed(A, R)
  BY <1>2, <1>3, <1>4, <1>6, <1>7, <1>8 DEF Formed
<1>10. Linked(A, R)
  BY <1>3, <1>4, <1>6, <1>7 DEF Linked
<1>11. Bound(A, R)
  BY <1>3, <1>4, <1>6, <1>7, <1>8 DEF Bound
<1>12. Remembered(A, R)
  <2>1. A.pc = "waiting" =>
          /\ ~D.request.detached /\ A.refused \subseteq A.tried
          /\ Family(R.model) = "claude" => <<R.lane, R.model>> \in A.tried /\ ~R.auto
    BY <1>3, <1>5, <1>6, <1>8
  <2>2. <<R.lane, R.model>> \notin A.refused
    BY <1>3, <1>6, <1>8
  <2>3. A.pc = "done" => A.refused = {}
    BY <1>6, <1>8
  <2>4. QED
    BY <1>3, <1>6, <1>7, <2>1, <2>2, <2>3 DEF Remembered
<1>13. QED
  BY <1>9, <1>10, <1>11, <1>12 DEF Sound, A, R

-----------------------------------------------------------------------------
(* Steps of the system *)

\* A door keeps or raises its model.
Up(D, E) == E # Idle => Better(E.model, IF D = Idle THEN Requested(E.request) ELSE D.model)

\* What a step of d does: other doors and their runs stay as they are.
Step(d) ==
    /\ Shared'
    /\ \A e \in Doors \ {d} : door'[e] = door[e] /\ run'[e] = run[e]
    /\ Sound(door'[d], run'[d]) /\ Up(door[d], door'[d])

(* One value of a function changes.                                         *)
LEMMA Except ==
    ASSUME NEW S, NEW f, f = [x \in S |-> f[x]], NEW x \in S, NEW v,
           NEW g, g = [f EXCEPT ![x] = v]
    PROVE  g = [y \in S |-> g[y]] /\ g[x] = v /\ \A y \in S \ {x} : g[y] = f[y]
OBVIOUS

(* A door that keeps its model keeps its tier.                              *)
LEMMA UpSame ==
    ASSUME NEW D, NEW R, Sound(D, R), NEW E,
           E = D \/ (E # Idle /\ D # Idle /\ E.model = D.model)
    PROVE  Up(D, E)
<1>1. CASE D = Idle
  BY <1>1 DEF Up
<1>2. CASE D # Idle
  <2>1. D.model \in ModelNames
    BY <1>2 DEF Sound, Formed, DoorRecords
  <2>2. E.model = D.model
    OBVIOUS
  <2>3. QED
    BY <1>2, <2>1, <2>2, ModelFacts DEF Up
<1>3. QED
  BY <1>1, <1>2

(* What a deciding door is.                                                 *)
LEMMA ChoosingFacts ==
    ASSUME IInv, NEW d \in Doors, door[d].pc = "choose"
    PROVE  /\ door[d] \in DoorRecords /\ door[d] # Idle /\ run[d] = NoRun
           /\ door[d].model \in ModelNames /\ door[d].request \in Requests
           /\ door[d].snap \in Reports /\ Binds(door[d].request, door[d].model)
<1>1. Sound(door[d], run[d])
  BY DEF IInv
<1>2. door[d] \in DoorRecords /\ door[d] # Idle
  BY <1>1, Distinct DEF Sound, Formed
<1>3. run[d] = NoRun /\ door[d].snap \in Reports /\ Binds(door[d].request, door[d].model)
  BY <1>1, <1>2 DEF Sound, Linked, Formed, Bound
<1>4. QED
  BY <1>2, <1>3 DEF DoorRecords

(* Looking for candidates cools scopes.                                     *)
LEMMA LookedTyped ==
    ASSUME IInv, NEW d, door[d].model \in Models
    PROVE  Looked(d) \in [Lanes -> SUBSET Scopes]
<1>1. cooldown \in [Lanes -> SUBSET Scopes] /\ {door[d].model} \subseteq Models
  BY DEF IInv, Shared
<1>2. Chilled(door[d].snap, {door[d].model}, TriedOrExcluded(d)) \in [Lanes -> SUBSET Scopes]
  BY <1>1, ChilledTyped
<1>3. QED
  BY <1>1, <1>2 DEF Looked

(* One lemma per action: each is a Step of its door.                        *)
LEMMA StartStep ==
    ASSUME IInv, NEW d \in Doors, NEW r \in Requests, Start(d, r)
    PROVE  Step(d)
<1> DEFINE snap == Report
           first == IF Chain(r) = <<>> THEN Requested(r) ELSE Select(snap, Chain(r))
           cross == Elastic(snap, r, first)
           model == IF cross /\ Candidates(snap, "opus", {}) # {} THEN "opus" ELSE first
           asked == (Range(Chain(r)) \cup {model} \cup IF cross THEN {"opus"} ELSE {}) \cap Models
           floor == /\ model = "fable" /\ r.lane = None
                    /\ IF r.task = None THEN r.class = "fable" ELSE r.task = "voice"
                    /\ Candidates(snap, "fable", {}) = {}
           E == [pc |-> IF floor THEN "done" ELSE "choose", request |-> r, model |-> model,
                 snap |-> IF floor THEN <<>> ELSE snap, tried |-> {}, attempts |-> 0,
                 refused |-> {}, result |-> IF floor THEN 3 ELSE 0]
<1>1. /\ door[d].pc = "idle" /\ Accepted(r)
      /\ cooldown' = Chilled(snap, asked, {}) /\ door' = [door EXCEPT ![d] = E]
      /\ fleet' = fleet /\ others' = others /\ rested' = rested /\ run' = run
  BY DEF Start
<1>2. Sound(door[d], run[d]) /\ Shared
  BY DEF IInv
<1>3. door[d] = Idle /\ run[d] = NoRun
  BY <1>1, <1>2, Distinct DEF Sound, Formed, Linked
<1>4. snap \in Reports
  BY <1>2, ReportTyped DEF Shared
<1>5. /\ Requested(r) \in ModelNames /\ Climbs(Chain(r), Requested(r))
      /\ Pinned(r) => Chain(r) = <<>>
      /\ r.model # None => Requested(r) = r.model
  BY RequestFacts
<1>6. first \in ModelNames /\ Better(first, Requested(r)) /\ (Pinned(r) => first = Requested(r))
  <2>1. CASE Chain(r) = <<>>
    BY <1>5, <2>1, ModelFacts
  <2>2. CASE Chain(r) # <<>>
    <3>1. Chain(r) \in Seq(ModelNames)
      BY <1>5 DEF Climbs
    <3>2. PICK i \in 1..Len(Chain(r)) : first = Chain(r)[i]
      BY <2>2, <3>1, SelectIn
    <3>3. QED
      BY <1>5, <2>2, <3>1, <3>2 DEF Climbs
  <2>3. QED
    BY <2>1, <2>2
<1>7. cross => Better("opus", Requested(r)) /\ ~Pinned(r)
  BY ElasticFacts
<1>8. /\ model \in ModelNames /\ Better(model, Requested(r))
      /\ Pinned(r) => model = Requested(r)
  <2>1. "opus" \in ModelNames
    BY ModelFacts
  <2> HIDE DEF first, cross, snap
  <2>2. QED
    BY <1>6, <1>7, <2>1
<1>9. Binds(r, model)
  BY <1>1, <1>5, <1>8 DEF Binds, Pinned, Accepted
<1>10. asked \subseteq Models
  OBVIOUS
<1> HIDE DEF snap, model, asked, floor
<1>11. /\ E \in DoorRecords /\ E.pc \in {"choose", "done"} /\ E.request = r /\ E.model = model
       /\ E.refused = {} /\ (E.pc = "choose" => E.snap \in Reports)
  <2> DEFINE pc == IF floor THEN "done" ELSE "choose"
             s == IF floor THEN <<>> ELSE snap
             res == IF floor THEN 3 ELSE 0
  <2>1. /\ pc \in {"choose", "done"} /\ s \in Reports \cup {<<>>} /\ res \in Nat
        /\ pc = "choose" => s \in Reports
    BY <1>4
  <2>2. {} \in SUBSET Pairs /\ 0 \in 0..MaxAttempts
    BY DispatchAssumption
  <2> HIDE DEF pc, s, res
  <2>3. QED
    BY <1>8, <2>1, <2>2 DEF DoorRecords, pc, s, res
<1> HIDE DEF E
<1>12. E # Idle
  BY <1>11, Distinct
<1>13. Sound(E, NoRun)
  <2>1. Formed(E, NoRun) /\ Linked(E, NoRun)
    BY <1>11, Distinct DEF Formed, Linked
  <2>2. Bound(E, NoRun) /\ Remembered(E, NoRun)
    BY <1>9, <1>11, Distinct DEF Bound, Remembered
  <2>3. QED
    BY <2>1, <2>2 DEF Sound
<1>14. Up(Idle, E)
  BY <1>8, <1>11 DEF Up
<1>15. /\ door' = [e \in Doors |-> door'[e]] /\ door'[d] = E
       /\ \A e \in Doors \ {d} : door'[e] = door[e]
  BY <1>1, <1>2, Except DEF Shared
<1>16. cooldown' \in [Lanes -> SUBSET Scopes]
  BY <1>1, <1>2, <1>10, ChilledTyped DEF Shared
<1>17. Shared'
  BY <1>1, <1>2, <1>15, <1>16 DEF Shared
<1>18. QED
  BY <1>1, <1>3, <1>13, <1>14, <1>15, <1>17 DEF Step

(* Shared state when a door alone or its run alone changes, and cooldowns.  *)
LEMMA SharedKept ==
    ASSUME IInv, NEW d \in Doors, NEW E, NEW R,
           door' = [door EXCEPT ![d] = E], run' = [run EXCEPT ![d] = R],
           fleet' = fleet, others' = others, rested' \subseteq Homes,
           cooldown' \in [Lanes -> SUBSET Scopes],
           Sound(E, R), Up(door[d], E)
    PROVE  Step(d)
<1>1. Shared
  BY DEF IInv
<1>2. /\ door' = [e \in Doors |-> door'[e]] /\ door'[d] = E
      /\ \A e \in Doors \ {d} : door'[e] = door[e]
  BY <1>1, Except DEF Shared
<1>3. /\ run' = [e \in Doors |-> run'[e]] /\ run'[d] = R
      /\ \A e \in Doors \ {d} : run'[e] = run[e]
  BY <1>1, Except DEF Shared
<1>4. Shared'
  BY <1>1, <1>2, <1>3 DEF Shared
<1>5. QED
  BY <1>2, <1>3, <1>4 DEF Step

(* What a state in IInv says of one door and of what is shared.             *)
LEMMA SameAt ==
    ASSUME IInv, NEW d \in Doors
    PROVE  door = [door EXCEPT ![d] = door[d]] /\ run = [run EXCEPT ![d] = run[d]]
           /\ cooldown \in [Lanes -> SUBSET Scopes] /\ rested \subseteq Homes
           /\ fleet \in Fleets /\ Sound(door[d], run[d])
BY DEF IInv, Shared

LEMMA DivertStep ==
    ASSUME IInv, NEW d \in Doors, Divert(d)
    PROVE  Step(d)
<1> DEFINE D == door[d]
           next == NextRoute(d)
           astra == next \in CodexModels /\ Open(D.snap.codex) # {}
           m == IF astra THEN next ELSE "fable"
           E == [D EXCEPT !.model = m, !.attempts = 0, !.pc = "choose"]
<1>1. /\ D.pc = "choose" /\ Family(D.model) = "claude"
      /\ cooldown' = Looked(d) /\ door' = [door EXCEPT ![d] = E]
      /\ fleet' = fleet /\ others' = others /\ rested' = rested /\ run' = run
  BY DEF Divert, Choosing, Promoted
<1>2. /\ D \in DoorRecords /\ D # Idle /\ run[d] = NoRun /\ D.model \in ModelNames
      /\ D.request \in Requests /\ Binds(D.request, D.model)
  BY <1>1, ChoosingFacts
<1>3. D.model \in Models
  BY <1>1, <1>2, ModelFacts
<1>4. /\ next # None => /\ next \in ModelNames /\ ~Pinned(D.request)
                        /\ Better(next, D.model)
  BY <1>2, NextFacts
<1>5. m \in ModelNames /\ Better(m, D.model) /\ Binds(D.request, m)
  <2>1. CASE astra
    <3>1. next # None
      BY <2>1 DEF CodexModels, None
    <3>2. QED
      BY <1>4, <2>1, <3>1 DEF Binds, Pinned
  <2>2. CASE ~astra
    <3>1. m = "fable" /\ "fable" \in ModelNames /\ "fable" \in Models
      BY <2>2, ModelFacts
    <3>2. Better(m, D.model) /\ Family(m) = "claude"
      BY <1>2, <3>1, ModelFacts
    <3>3. D.request.home = None
      BY <1>1, <1>2 DEF Binds
    <3>4. QED
      BY <3>1, <3>2, <3>3 DEF Binds
  <2>3. QED
    BY <2>1, <2>2
<1> HIDE DEF m, next, astra
<1>6. Sound(D, run[d]) /\ run = [run EXCEPT ![d] = NoRun]
  BY <1>2, SameAt
<1>7. Sound(E, NoRun)
  BY <1>1, <1>2, <1>5, <1>6, PromotesSound
<1>8. E # Idle /\ E.model = m
  <2>1. E.pc = "choose" /\ E.model = m
    BY <1>2 DEF DoorRecords
  <2>2. QED
    BY <2>1, Distinct
<1>9. Up(D, E)
  BY <1>2, <1>5, <1>8 DEF Up
<1>10. cooldown' \in [Lanes -> SUBSET Scopes]
  BY <1>1, <1>3, LookedTyped
<1> HIDE DEF E
<1>11. QED
  BY <1>1, <1>6, <1>7, <1>9, <1>10, SameAt, SharedKept

LEMMA RefuseStep ==
    ASSUME IInv, NEW d \in Doors, Refuse(d)
    PROVE  Step(d)
<1> DEFINE D == door[d]
           E == Ended(D, 3)
<1>1. /\ D.pc = "choose"
      /\ cooldown' = IF Family(D.model) = "claude" THEN Looked(d) ELSE cooldown
      /\ door' = [door EXCEPT ![d] = E]
      /\ fleet' = fleet /\ others' = others /\ rested' = rested /\ run' = run
  BY DEF Refuse, Choosing, Finished
<1>2. /\ D \in DoorRecords /\ D # Idle /\ run[d] = NoRun /\ D.model \in ModelNames
  BY <1>1, ChoosingFacts
<1>3. Sound(D, NoRun) /\ run = [run EXCEPT ![d] = NoRun]
  BY <1>2, SameAt
<1>4. Sound(E, NoRun)
  BY <1>2, <1>3, EndsSound
<1>5. Up(D, E)
  <2>1. E # Idle /\ E.model = D.model
    BY <1>2, EndedFacts, Distinct
  <2>2. QED
    BY <1>2, <1>3, <2>1, UpSame
<1>6. cooldown' \in [Lanes -> SUBSET Scopes]
  BY <1>1, <1>2, LookedTyped, SameAt, ModelFacts
<1> HIDE DEF E
<1>7. QED
  BY <1>1, <1>3, <1>4, <1>5, <1>6, SameAt, SharedKept

LEMMA LaunchCodexStep ==
    ASSUME IInv, NEW d \in Doors, LaunchCodex(d)
    PROVE  Step(d)
<1> DEFINE D == door[d]
           lane == IF D.request.home # None THEN D.request.home ELSE BestHome(D.snap.codex)
           auto == MayRepick(d)
           E == AfterLaunch(D)
           R == NewRun(lane, D.model, auto)
<1>1. /\ D.pc = "choose" /\ Family(D.model) = "codex" /\ HomesFor(d) # {}
      /\ run' = [run EXCEPT ![d] = R] /\ door' = [door EXCEPT ![d] = E]
      /\ UNCHANGED <<fleet, others, cooldown, rested>>
  BY DEF LaunchCodex, Choosing, Launched, NewRun
<1>2. /\ D \in DoorRecords /\ D # Idle /\ run[d] = NoRun /\ D.model \in ModelNames
      /\ D.request \in Requests /\ D.snap \in Reports /\ Binds(D.request, D.model)
  BY <1>1, ChoosingFacts
<1>3. lane \in Homes
  <2>1. CASE D.request.home # None
    BY <1>2, <2>1, RequestFacts
  <2>2. CASE D.request.home = None
    <3>1. Open(D.snap.codex) # {} /\ D.snap.codex \in [Homes -> HomeRows]
      BY <1>1, <1>2, <2>2 DEF HomesFor, Reports
    <3>2. QED
      BY <2>2, <3>1, HomeFirst
  <2>3. QED
    BY <2>1, <2>2
<1>4. D.request.lane = None
  BY <1>1, <1>2 DEF Binds
<1>5. auto = (D.request.home = None)
  BY <1>1 DEF MayRepick
<1>6. auto \in BOOLEAN /\ (auto => D.request.lane = None /\ D.request.home = None)
  BY <1>4, <1>5
<1>7. D.request.home # None => lane = D.request.home
  OBVIOUS
<1>8. <<lane, D.model>> \notin D.refused
  <2>1. D.model \notin Models
    BY <1>1, <1>2, ModelFacts
  <2>2. QED
    BY <1>2, <2>1 DEF DoorRecords, Pairs
<1>9. Sound(D, NoRun)
  BY <1>2, SameAt
<1> HIDE DEF lane, auto
<1>10. Sound(E, R)
  BY <1>1, <1>2, <1>3, <1>4, <1>6, <1>7, <1>8, <1>9, LaunchSound
<1>11. Up(D, E)
  <2>1. E # Idle /\ E.model = D.model
    <3>1. CASE D.request.detached
      BY <1>2, <3>1, EndedFacts, Distinct DEF AfterLaunch
    <3>2. CASE ~D.request.detached
      <4>1. E = [D EXCEPT !.pc = "waiting"]
        BY <3>2 DEF AfterLaunch
      <4>2. E.pc = "waiting" /\ E.model = D.model
        BY <1>2, <4>1 DEF DoorRecords
      <4>3. QED
        BY <4>2, Distinct
    <3>3. QED
      BY <3>1, <3>2
  <2>2. QED
    BY <1>2, <1>9, <2>1, UpSame
<1> HIDE DEF E, R
<1>12. QED
  BY <1>1, <1>10, <1>11, SameAt, SharedKept

LEMMA LaunchClaudeStep ==
    ASSUME IInv, NEW d \in Doors, LaunchClaude(d)
    PROVE  Step(d)
<1> DEFINE D == door[d]
           lane == BestLane(D.snap, Usable(d), D.model)
           auto == MayRepick(d)
           N == Recorded(D, lane)
           E == AfterLaunch(N)
           R == NewRun(lane, D.model, auto)
<1>1. /\ D.pc = "choose" /\ Family(D.model) = "claude" /\ Usable(d) # {}
      /\ D.attempts < MaxAttempts /\ cooldown' = Looked(d)
      /\ run' = [run EXCEPT ![d] = R] /\ door' = [door EXCEPT ![d] = E]
      /\ UNCHANGED <<fleet, others, rested>>
  BY DEF LaunchClaude, Choosing, Launched, NewRun
<1>2. /\ D \in DoorRecords /\ D # Idle /\ run[d] = NoRun /\ D.model \in ModelNames
      /\ D.request \in Requests /\ D.snap \in Reports /\ Binds(D.request, D.model)
  BY <1>1, ChoosingFacts
<1>3. D.model \in Models
  BY <1>1, <1>2, ModelFacts
<1>4. Sound(D, NoRun)
  BY <1>2, SameAt
<1>5. /\ Pool(d) \subseteq Lanes
      /\ D.request.lane # None => Pool(d) = {D.request.lane}
      /\ \A l \in Pool(d) : <<l, D.model>> \notin D.refused
  <2>1. CASE D.request.lane # None
    <3>1. Pool(d) = {D.request.lane} /\ D.request.lane \in Lanes
      BY <1>2, <2>1, RequestFacts DEF Pool
    <3>2. D.refused = {}
      BY <1>1, <1>4, <2>1 DEF Sound, Remembered
    <3>3. QED
      BY <3>1, <3>2
  <2>2. CASE D.request.lane = None
    <3>1. Pool(d) \subseteq Lanes \ TriedOrExcluded(d)
      BY <2>2, CandidatesIn DEF Pool
    <3>2. D.refused \subseteq D.tried
      BY <1>1, <1>4 DEF Sound, Remembered
    <3>3. QED
      BY <2>2, <3>1, <3>2 DEF TriedOrExcluded
  <2>3. QED
    BY <2>1, <2>2
<1>6. lane \in Usable(d) /\ Usable(d) \subseteq Pool(d)
  <2>1. Usable(d) \subseteq Pool(d)
    BY DEF Usable, Unreserved
  <2>2. fleet \in Fleets /\ Usable(d) \subseteq Lanes
    BY <1>5, <2>1, SameAt
  <2>3. QED
    BY <1>1, <1>2, <1>3, <2>1, <2>2, BestLaneIn
<1>7. /\ lane \in Lanes /\ <<lane, D.model>> \notin D.refused
      /\ D.request.lane # None => lane = D.request.lane
  <2> HIDE DEF lane
  <2>1. QED
    BY <1>5, <1>6
<1>8. D.request.home = None /\ D.request.detached \in BOOLEAN
  BY <1>1, <1>2, RequestFacts DEF Binds
<1>9. auto = (D.request.detached /\ D.request.lane = None)
  BY <1>1 DEF MayRepick
<1>10. /\ auto \in BOOLEAN
       /\ auto => D.request.lane = None /\ D.request.home = None /\ D.request.detached
  BY <1>8, <1>9
<1> HIDE DEF lane, auto
<1>11. Family(D.model) # "codex"
  BY <1>1
<1>12. Sound(E, R)
  <2>1. N = IF Family(D.model) = "codex" THEN D ELSE Recorded(D, lane)
    BY <1>11
  <2> HIDE DEF N
  <2>2. QED
    BY <1>1, <1>2, <1>4, <1>7, <1>8, <1>10, <1>11, <2>1, LaunchSound
<1>13. Up(D, E)
  <2>1. R # NoRun /\ R.model = D.model
    BY Distinct DEF NewRun
  <2> HIDE DEF E, R
  <2>2. E.model = D.model /\ E # Idle
    BY <1>12, <2>1, Distinct DEF Sound, Linked
  <2>3. QED
    BY <1>2, <1>4, <2>2, UpSame
<1>14. cooldown' \in [Lanes -> SUBSET Scopes]
  BY <1>1, <1>3, LookedTyped
<1> HIDE DEF E, R
<1>15. QED
  BY <1>1, <1>12, <1>13, <1>14, SameAt, SharedKept

(* What a run's door and its run are, while the run lasts or is over.       *)
LEMMA RunningFacts ==
    ASSUME IInv, NEW d \in Doors, run[d].pc \in {"running", "over"}
    PROVE  /\ Sound(door[d], run[d])
           /\ door[d] \in DoorRecords /\ door[d] # Idle /\ run[d] \in RunRecords
           /\ door[d].pc \in {"waiting", "done"} /\ run[d].model = door[d].model
           /\ run[d].model \in ModelNames /\ door[d].request \in Requests
           /\ Family(run[d].model) = "codex" => run[d].lane \in Homes
           /\ Family(run[d].model) = "claude" => run[d].lane \in Lanes /\ run[d].model \in Models
<1>1. Sound(door[d], run[d])
  BY DEF IInv
<1>2. QED
  BY <1>1, RunFacts, Distinct

\* A run that ends, and one that takes note of a refusal.
Closed(d, n) == [run[d] EXCEPT !.pc = "over", !.rc = n]

(* The end of a run, whether its door notes a refusal or not.               *)
LEMMA OverFacts ==
    ASSUME IInv, NEW d \in Doors, run[d].pc = "running", NEW n \in Nat
    PROVE  /\ Sound(door[d], Closed(d, n)) /\ Up(door[d], door[d])
           /\ Family(run[d].model) = "claude" =>
                 /\ Sound(Noted(door[d], run[d]), Closed(d, n))
                 /\ Up(door[d], Noted(door[d], run[d]))
<1>1. /\ Sound(door[d], run[d]) /\ door[d] \in DoorRecords /\ door[d] # Idle
      /\ Family(run[d].model) = "claude" => run[d].lane \in Lanes /\ run[d].model \in Models
  BY RunningFacts
<1>2. Sound(door[d], Closed(d, n))
      /\ (Family(run[d].model) = "claude" => Sound(Noted(door[d], run[d]), Closed(d, n)))
  BY <1>1, OverSound DEF Closed
<1>3. Up(door[d], door[d])
  BY <1>1, UpSame
<1>4. ASSUME Family(run[d].model) = "claude" PROVE Up(door[d], Noted(door[d], run[d]))
  <2>1. /\ Noted(door[d], run[d]) \in DoorRecords
        /\ Noted(door[d], run[d]).model = door[d].model
    BY <1>1, <1>4, NotedFacts
  <2>2. QED
    BY <1>1, <2>1, UpSame, Distinct
<1>5. QED
  BY <1>2, <1>3, <1>4

LEMMA OverIs ==
    ASSUME NEW d, NEW n
    PROVE  Over(d, n) = [run EXCEPT ![d] = Closed(d, n)]
BY DEF Over, Closed

LEMMA RefusalIs ==
    ASSUME NEW d
    PROVE  Refusal(d) = [door EXCEPT ![d] = Noted(door[d], run[d])]
BY DEF Refusal, Noted

LEMMA EndsStep ==
    ASSUME IInv, NEW d \in Doors, Serve(d) \/ Fail(d)
    PROVE  Step(d)
<1>1. PICK n \in Nat : /\ run' = Over(d, n) /\ run[d].pc = "running"
                       /\ UNCHANGED <<fleet, others, cooldown, rested, door>>
  <2>1. CASE Serve(d)
    BY <2>1 DEF Serve
  <2>2. CASE Fail(d)
    <3>1. CodexFailures \subseteq Nat /\ 1 \in Nat
      BY DispatchAssumption
    <3>2. PICK rc \in IF Family(run[d].model) = "codex" THEN CodexFailures ELSE {1} :
             run' = Over(d, rc)
      BY <2>2 DEF Fail
    <3>3. rc \in Nat
      BY <3>1, <3>2
    <3>4. QED
      BY <2>2, <3>2, <3>3 DEF Fail
  <2>3. QED
    BY <2>1, <2>2
<1>2. Sound(door[d], Closed(d, n)) /\ Up(door[d], door[d])
  BY <1>1, OverFacts
<1>3. run' = [run EXCEPT ![d] = Closed(d, n)]
  BY <1>1, OverIs
<1>4. QED
  BY <1>1, <1>2, <1>3, SameAt, SharedKept

LEMMA RetryStep ==
    ASSUME IInv, NEW d \in Doors, Retry(d)
    PROVE  Step(d)
<1> DEFINE R == [run[d] EXCEPT !.attempt = @ + 1]
<1>1. /\ run[d].pc = "running" /\ run[d].attempt <= MaxRetries
      /\ run' = [run EXCEPT ![d] = R]
      /\ UNCHANGED <<fleet, others, cooldown, rested, door>>
  BY DEF Retry, CanRetry
<1>2. Sound(door[d], run[d]) /\ Up(door[d], door[d])
  BY <1>1, SameAt, UpSame
<1>3. Sound(door[d], R)
  BY <1>1, <1>2, RetrySound
<1> HIDE DEF R
<1>4. QED
  BY <1>1, <1>2, <1>3, SameAt, SharedKept

LEMMA TokenDeadStep ==
    ASSUME IInv, NEW d \in Doors, TokenDead(d)
    PROVE  Step(d)
<1>1. /\ run[d].pc = "running" /\ Family(run[d].model) = "claude"
      /\ cooldown' = [cooldown EXCEPT ![run[d].lane] = @ \cup {Account}]
      /\ door' = Refusal(d) /\ run' = Over(d, 5)
      /\ UNCHANGED <<fleet, others, rested>>
  BY DEF TokenDead, Running
<1>2. /\ Sound(Noted(door[d], run[d]), Closed(d, 5))
      /\ Up(door[d], Noted(door[d], run[d]))
  BY <1>1, OverFacts
<1>3. cooldown' \in [Lanes -> SUBSET Scopes]
  BY <1>1, SameAt DEF Scopes
<1>4. /\ door' = [door EXCEPT ![d] = Noted(door[d], run[d])]
      /\ run' = [run EXCEPT ![d] = Closed(d, 5)]
  BY <1>1, OverIs, RefusalIs
<1>5. QED
  BY <1>1, <1>2, <1>3, <1>4, SameAt, SharedKept

\* A run that moves to l.
Shifted(d, l) ==
    [run[d] EXCEPT !.lane = l, !.attempt = @ + 1, !.excluded = @ \cup {run[d].lane}]

LEMMA MovedIs ==
    ASSUME NEW d, NEW l
    PROVE  Moved(d, l) = [run EXCEPT ![d] = Shifted(d, l)]
BY DEF Moved, Shifted

LEMMA LaneLimitedStep ==
    ASSUME IInv, NEW d \in Doors, LaneLimited(d)
    PROVE  Step(d)
<1> DEFINE m == run[d].model
           l == First(Alternates(d), PickKey(Report.claude, m))
           moves == run[d].auto /\ CanRetry(d) /\ Alternates(d) # {}
           E == Noted(door[d], run[d])
<1>1. /\ run[d].pc = "running" /\ Family(m) = "claude"
      /\ cooldown' = [cooldown EXCEPT ![run[d].lane] = @ \cup {m}]
      /\ door' = Refusal(d)
      /\ run' = IF moves THEN Moved(d, l) ELSE Over(d, 4)
      /\ UNCHANGED <<fleet, others, rested>>
  BY DEF LaneLimited, Running
<1>2. /\ Sound(door[d], run[d]) /\ m \in Models
      /\ Sound(E, Closed(d, 4)) /\ Up(door[d], E)
  BY <1>1, RunningFacts, OverFacts
<1>3. cooldown' \in [Lanes -> SUBSET Scopes]
  BY <1>1, <1>2, SameAt DEF Scopes
<1>4. ASSUME moves PROVE Sound(E, Shifted(d, l))
  <2>1. Alternates(d) \subseteq Lanes \ (run[d].excluded \cup {run[d].lane})
    BY DEF Alternates
  <2>2. Report \in Reports
    BY SameAt, ReportTyped
  <2>3. Report.claude \in [Lanes -> LaneRows]
    BY <2>2 DEF Reports
  <2>4. l \in Alternates(d)
    BY <1>2, <1>4, <2>1, <2>3, PickFirst
  <2> HIDE DEF l
  <2>5. l \in Lanes /\ l \notin run[d].excluded \cup {run[d].lane}
    BY <2>1, <2>4
  <2>6. run[d].auto /\ run[d].attempt <= MaxRetries
    BY <1>4 DEF CanRetry
  <2>7. QED
    BY <1>1, <1>2, <2>5, <2>6, MovesSound DEF Shifted
<1>5. door' = [door EXCEPT ![d] = E]
  BY <1>1, RefusalIs
<1> HIDE DEF l, E
<1>6. CASE moves
  <2>1. run' = [run EXCEPT ![d] = Shifted(d, l)]
    BY <1>1, <1>6, MovedIs
  <2>2. QED
    BY <1>1, <1>2, <1>3, <1>4, <1>5, <1>6, <2>1, SameAt, SharedKept
<1>7. CASE ~moves
  <2>1. run' = [run EXCEPT ![d] = Closed(d, 4)]
    BY <1>1, <1>7, OverIs
  <2>2. QED
    BY <1>1, <1>2, <1>3, <1>5, <2>1, SameAt, SharedKept
<1>8. QED
  BY <1>6, <1>7

LEMMA HomeLimitedStep ==
    ASSUME IInv, NEW d \in Doors, HomeLimited(d)
    PROVE  Step(d)
<1> DEFINE h == run[d].lane
           rows == [Report.codex EXCEPT ![h] = Gated(fleet.codex[h], 1)]
<1>1. /\ run[d].pc = "running" /\ Family(run[d].model) = "codex"
      /\ rested' = rested \cup {h}
      /\ UNCHANGED <<fleet, others, cooldown, door>>
  BY DEF HomeLimited, Running
<1>2. \/ run[d].auto /\ CanRetry(d) /\ Open(rows) # {} /\ run' = Moved(d, BestHome(rows))
      \/ CanRetry(d) /\ run' = [run EXCEPT ![d].attempt = @ + 1]
      \/ \E rc \in CodexFailures : run' = Over(d, rc)
  BY DEF HomeLimited
<1>3. /\ Sound(door[d], run[d]) /\ Up(door[d], door[d]) /\ h \in Homes
  BY <1>1, RunningFacts, UpSame
<1>4. rested' \subseteq Homes /\ cooldown' \in [Lanes -> SUBSET Scopes]
  BY <1>1, <1>3, SameAt
<1>5. rows \in [Homes -> HomeRows]
  <2>1. Report \in Reports /\ fleet \in Fleets
    BY SameAt, ReportTyped
  <2>2. Report.codex \in [Homes -> HomeRows]
    BY <2>1 DEF Reports
  <2>3. Gated(fleet.codex[h], 1) \in HomeRows
    BY <1>3, <2>1, GatedTyped
  <2>4. QED
    BY <1>3, <2>2, <2>3
<1> HIDE DEF rows
<1>6. CASE run[d].auto /\ CanRetry(d) /\ Open(rows) # {} /\ run' = Moved(d, BestHome(rows))
  <2>1. BestHome(rows) \in Homes
    BY <1>5, <1>6, HomeFirst
  <2>2. run[d].auto /\ run[d].attempt <= MaxRetries
    BY <1>6 DEF CanRetry
  <2>3. Sound(door[d], Shifted(d, BestHome(rows)))
    BY <1>1, <1>3, <2>1, <2>2, MovesSound DEF Shifted
  <2>4. run' = [run EXCEPT ![d] = Shifted(d, BestHome(rows))]
    BY <1>6, MovedIs
  <2>5. QED
    BY <1>1, <1>3, <1>4, <2>3, <2>4, SameAt, SharedKept
<1>7. CASE CanRetry(d) /\ run' = [run EXCEPT ![d].attempt = @ + 1]
  <2> DEFINE R == [run[d] EXCEPT !.attempt = @ + 1]
  <2>1. run[d].attempt <= MaxRetries /\ run' = [run EXCEPT ![d] = R]
    BY <1>7 DEF CanRetry
  <2>2. Sound(door[d], R)
    BY <1>1, <1>3, <2>1, RetrySound
  <2> HIDE DEF R
  <2>3. QED
    BY <1>1, <1>3, <1>4, <2>1, <2>2, SameAt, SharedKept
<1>8. CASE \E rc \in CodexFailures : run' = Over(d, rc)
  <2>1. PICK rc \in CodexFailures : run' = Over(d, rc)
    BY <1>8
  <2>2. rc \in Nat
    BY DispatchAssumption
  <2>3. Sound(door[d], Closed(d, rc)) /\ run' = [run EXCEPT ![d] = Closed(d, rc)]
    BY <1>1, <2>1, <2>2, OverFacts, OverIs
  <2>4. QED
    BY <1>1, <1>3, <1>4, <2>3, SameAt, SharedKept
<1>9. QED
  BY <1>2, <1>6, <1>7, <1>8

(* A door whose run is over ends, goes on upward, or decides again.         *)
LEMMA ReturnFacts ==
    ASSUME IInv, NEW d \in Doors, door[d].pc = "waiting", run[d].pc = "over"
    PROVE  /\ run[d].rc \in Nat
           /\ \A n \in Nat : Sound(Ended(door[d], n), NoRun) /\ Up(door[d], Ended(door[d], n))
           /\ NextRoute(d) # None =>
                LET E == [door[d] EXCEPT !.model = NextRoute(d), !.attempts = 0, !.pc = "choose"]
                IN Sound(E, NoRun) /\ Up(door[d], E)
           /\ door[d].request.lane = None =>
                LET E == [door[d] EXCEPT !.pc = "choose"]
                IN Sound(E, NoRun) /\ Up(door[d], E)
<1> DEFINE D == door[d]
           R == run[d]
<1>1. /\ Sound(D, R) /\ D \in DoorRecords /\ D # Idle /\ R \in RunRecords
      /\ D.request \in Requests
  BY RunningFacts
<1>2. R.rc \in Nat
  BY <1>1 DEF RunRecords
<1>3. ASSUME NEW n \in Nat PROVE Sound(Ended(D, n), NoRun) /\ Up(D, Ended(D, n))
  <2>1. Sound(Ended(D, n), NoRun)
    BY <1>1, EndsSound
  <2>2. Ended(D, n) # Idle /\ Ended(D, n).model = D.model
    BY <1>1, EndedFacts, Distinct
  <2>3. QED
    BY <1>1, <2>1, <2>2, UpSame
<1>4. ASSUME NextRoute(d) # None
      PROVE  LET E == [D EXCEPT !.model = NextRoute(d), !.attempts = 0, !.pc = "choose"]
             IN Sound(E, NoRun) /\ Up(D, E)
  <2> DEFINE m == NextRoute(d)
             E == [D EXCEPT !.model = m, !.attempts = 0, !.pc = "choose"]
  <2>1. m \in ModelNames /\ ~Pinned(D.request) /\ Better(m, D.model)
    BY <1>1, <1>4, NextFacts
  <2>2. Binds(D.request, m) /\ D.request.lane = None
    BY <2>1 DEF Binds, Pinned
  <2> HIDE DEF m
  <2>3. Sound(E, NoRun)
    BY <1>1, <2>1, <2>2, PromotesSound
  <2>4. E.model = m
    BY <1>1 DEF DoorRecords
  <2>5. Up(D, E)
    BY <1>1, <2>1, <2>4 DEF Up
  <2>6. QED
    BY <2>3, <2>5 DEF m
<1>5. ASSUME D.request.lane = None
      PROVE  LET E == [D EXCEPT !.pc = "choose"] IN Sound(E, NoRun) /\ Up(D, E)
  <2> DEFINE E == [D EXCEPT !.pc = "choose"]
  <2>1. Sound(E, NoRun)
    BY <1>1, <1>5, AgainSound
  <2>2. E.pc = "choose" /\ E.model = D.model
    BY <1>1 DEF DoorRecords
  <2>3. Up(D, E)
    BY <1>1, <2>2, UpSame, Distinct
  <2>4. QED
    BY <2>1, <2>3
<1>6. QED
  BY <1>2, <1>3, <1>4, <1>5

LEMMA CodexReturnedStep ==
    ASSUME IInv, NEW d \in Doors, CodexReturned(d)
    PROVE  Step(d)
<1> DEFINE D == door[d]
           rc == run[d].rc
           asked == Range(Upward(d)) \cap Models
           on == rc = 4 /\ NextRoute(d) # None
           P == [D EXCEPT !.model = NextRoute(d), !.attempts = 0, !.pc = "choose"]
<1>1. /\ D.pc = "waiting" /\ run[d].pc = "over" /\ run' = [run EXCEPT ![d] = NoRun]
      /\ door' = IF on THEN [door EXCEPT ![d] = P] ELSE [door EXCEPT ![d] = Ended(D, rc)]
      /\ cooldown' = IF rc = 4 THEN Chilled(D.snap, asked, {}) ELSE cooldown
      /\ UNCHANGED <<fleet, others, rested>>
  BY DEF CodexReturned, Returned, Gone, Promoted, Finished
<1>2. /\ rc \in Nat /\ Sound(Ended(D, rc), NoRun) /\ Up(D, Ended(D, rc))
      /\ on => Sound(P, NoRun) /\ Up(D, P)
  BY <1>1, ReturnFacts
<1>3. cooldown' \in [Lanes -> SUBSET Scopes]
  <2>1. asked \subseteq Models
    OBVIOUS
  <2> HIDE DEF asked
  <2>2. QED
    BY <1>1, <2>1, SameAt, ChilledTyped
<1> HIDE DEF P
<1>4. CASE on
  BY <1>1, <1>2, <1>3, <1>4, SameAt, SharedKept
<1>5. CASE ~on
  BY <1>1, <1>2, <1>3, <1>5, SameAt, SharedKept
<1>6. QED
  BY <1>4, <1>5

LEMMA ClaudeReturnedStep ==
    ASSUME IInv, NEW d \in Doors, ClaudeReturned(d)
    PROVE  Step(d)
<1> DEFINE D == door[d]
           rc == run[d].rc
           scope == IF rc = 4 THEN {D.model} ELSE IF rc = 5 THEN {Account} ELSE {}
           free == D.request.lane = None
           tried == {l \in Lanes : <<l, D.model>> \in D.tried}
           remaining == Unreserved(Candidates(D.snap, D.model, tried), D.model)
           spent == D.attempts >= MaxAttempts \/ remaining = {}
           looked == IF rc = 4 /\ free THEN Chilled(D.snap, {D.model}, tried) ELSE cooldown
           up == rc = 4 /\ free /\ spent /\ NextRoute(d) # None
           again == rc \in {4, 5} /\ free /\ D.attempts < MaxAttempts
           P == [D EXCEPT !.model = NextRoute(d), !.attempts = 0, !.pc = "choose"]
           A == [D EXCEPT !.pc = "choose"]
           n == IF rc \in {4, 5} THEN 3 ELSE rc
<1>1. /\ D.pc = "waiting" /\ run[d].pc = "over" /\ Family(run[d].model) = "claude"
      /\ run' = [run EXCEPT ![d] = NoRun]
      /\ cooldown' = [looked EXCEPT ![run[d].lane] = @ \cup scope]
      /\ door' = IF up THEN [door EXCEPT ![d] = P]
                 ELSE IF again THEN [door EXCEPT ![d] = A]
                 ELSE [door EXCEPT ![d] = Ended(D, n)]
      /\ UNCHANGED <<fleet, others, rested>>
  BY DEF ClaudeReturned, Returned, Gone, Promoted, Finished
<1>2. run[d].rc \in Nat /\ (up => Sound(P, NoRun) /\ Up(D, P))
      /\ (again => Sound(A, NoRun) /\ Up(D, A))
  BY <1>1, ReturnFacts
<1>3. Sound(Ended(D, n), NoRun) /\ Up(D, Ended(D, n))
  <2>1. n \in Nat
    BY <1>2
  <2> HIDE DEF n
  <2>2. QED
    BY <1>1, <2>1, ReturnFacts
<1>4. cooldown' \in [Lanes -> SUBSET Scopes]
  <2>1. D.model \in Models
    BY <1>1, RunningFacts
  <2>2. scope \subseteq Scopes
    BY <2>1 DEF Scopes
  <2>3. looked \in [Lanes -> SUBSET Scopes]
    <3>1. cooldown \in [Lanes -> SUBSET Scopes] /\ {D.model} \subseteq Models
      BY <2>1, SameAt
    <3>2. Chilled(D.snap, {D.model}, tried) \in [Lanes -> SUBSET Scopes]
      BY <3>1, ChilledTyped
    <3>3. QED
      BY <3>1, <3>2
  <2> HIDE DEF scope, looked
  <2>4. QED
    BY <1>1, <2>2, <2>3
<1> HIDE DEF P, A, up, again, n, looked, scope
<1>5. CASE up
  BY <1>1, <1>2, <1>4, <1>5, SameAt, SharedKept
<1>6. CASE ~up /\ again
  BY <1>1, <1>2, <1>4, <1>6, SameAt, SharedKept
<1>7. CASE ~up /\ ~again
  BY <1>1, <1>3, <1>4, <1>7, SameAt, SharedKept
<1>8. QED
  BY <1>5, <1>6, <1>7

(* Cooldowns come and go without a door.                                    *)
LEMMA ElsewhereStep ==
    ASSUME IInv, Expire \/ Elsewhere
    PROVE  Shared' /\ door' = door /\ run' = run
<1>1. Shared
  BY DEF IInv
<1>2. CASE Expire
  <2>1. UNCHANGED <<fleet, others, door, run>>
    BY <1>2 DEF Expire
  <2>2. \/ /\ \E l \in Lanes : \E s \in cooldown[l] :
                 cooldown' = [cooldown EXCEPT ![l] = @ \ {s}]
           /\ rested' = rested
        \/ \E h \in rested : rested' = rested \ {h} /\ cooldown' = cooldown
    BY <1>2 DEF Expire
  <2>3. cooldown' \in [Lanes -> SUBSET Scopes] /\ rested' \subseteq Homes
    <3>1. CASE /\ \E l \in Lanes : \E s \in cooldown[l] :
                    cooldown' = [cooldown EXCEPT ![l] = @ \ {s}]
               /\ rested' = rested
      BY <1>1, <3>1 DEF Shared
    <3>2. CASE \E h \in rested : rested' = rested \ {h} /\ cooldown' = cooldown
      BY <1>1, <3>2 DEF Shared
    <3>3. QED
      BY <2>2, <3>1, <3>2
  <2>4. QED
    BY <1>1, <2>1, <2>3 DEF Shared
<1>3. CASE Elsewhere
  <2>1. UNCHANGED <<fleet, door, run>> /\ others < MaxOthers /\ others' = others + 1
    BY <1>3 DEF Elsewhere
  <2>2. others' \in 0..MaxOthers
    BY <1>1, <2>1, DispatchAssumption DEF Shared
  <2>3. \/ /\ \E l \in Lanes, s \in Scopes : cooldown' = [cooldown EXCEPT ![l] = @ \cup {s}]
           /\ rested' = rested
        \/ \E h \in Homes : rested' = rested \cup {h} /\ cooldown' = cooldown
    BY <1>3 DEF Elsewhere
  <2>4. cooldown' \in [Lanes -> SUBSET Scopes] /\ rested' \subseteq Homes
    <3>1. CASE /\ \E l \in Lanes, s \in Scopes :
                    cooldown' = [cooldown EXCEPT ![l] = @ \cup {s}]
               /\ rested' = rested
      BY <1>1, <3>1 DEF Shared
    <3>2. CASE \E h \in Homes : rested' = rested \cup {h} /\ cooldown' = cooldown
      BY <1>1, <3>2 DEF Shared
    <3>3. QED
      BY <2>3, <3>1, <3>2
  <2>5. QED
    BY <1>1, <2>1, <2>2, <2>4 DEF Shared
<1>4. QED
  BY <1>2, <1>3

-----------------------------------------------------------------------------
(* The theorems *)

\* The step that NeverDownTier asks for: no model goes down.
TierStep ==
    \A d \in Doors : door'[d] # Idle =>
        Better(door'[d].model, IF door[d] = Idle THEN Requested(door'[d].request)
                               ELSE door[d].model)

(* The invariant holds at first,                                            *)
LEMMA Initially == Init => IInv
<1> SUFFICES ASSUME Init PROVE IInv
  OBVIOUS
<1>1. /\ fleet \in Fleets /\ cooldown = [l \in Lanes |-> {}] /\ rested = {} /\ others = 0
      /\ door = [d \in Doors |-> Idle] /\ run = [d \in Doors |-> NoRun]
  BY DEF Init
<1>2. Shared
  BY <1>1, DispatchAssumption DEF Shared
<1>3. Sound(Idle, NoRun)
  BY Distinct DEF Sound, Formed, Linked, Bound, Remembered
<1>4. QED
  BY <1>1, <1>2, <1>3 DEF IInv

(* every Step of a door keeps it and lowers no model,                       *)
LEMMA StepKeeps ==
    ASSUME IInv, NEW d \in Doors, Step(d)
    PROVE  IInv' /\ TierStep
<1>1. /\ Shared' /\ Sound(door'[d], run'[d]) /\ Up(door[d], door'[d])
      /\ \A e \in Doors \ {d} : door'[e] = door[e] /\ run'[e] = run[e]
  BY DEF Step
<1>2. \A e \in Doors : Sound(door[e], run[e])
  BY DEF IInv
<1>3. \A e \in Doors : Sound(door'[e], run'[e])
  BY <1>1, <1>2
<1>4. \A e \in Doors : Up(door[e], door'[e])
  <2>1. \A e \in Doors : Up(door[e], door[e])
    BY <1>2, UpSame
  <2>2. QED
    BY <1>1, <2>1
<1>5. QED
  BY <1>1, <1>3, <1>4 DEF IInv, TierStep, Up

(* and so does every step of the system.                                    *)
LEMMA Inductive == IInv /\ [Next]_vars => IInv' /\ TierStep
<1> SUFFICES ASSUME IInv, [Next]_vars PROVE IInv' /\ TierStep
  OBVIOUS
<1>1. ASSUME NEW d \in Doors, \E r \in Requests : Start(d, r) PROVE IInv' /\ TierStep
  BY <1>1, StartStep, StepKeeps
<1>2. ASSUME NEW d \in Doors, Decide(d) PROVE IInv' /\ TierStep
  BY <1>2, DivertStep, RefuseStep, LaunchCodexStep, LaunchClaudeStep, StepKeeps DEF Decide
<1>3. ASSUME NEW d \in Doors, Answer(d) PROVE IInv' /\ TierStep
  BY <1>3, EndsStep, RetryStep, LaneLimitedStep, TokenDeadStep, HomeLimitedStep, StepKeeps
     DEF Answer
<1>4. ASSUME NEW d \in Doors, Return(d) PROVE IInv' /\ TierStep
  BY <1>4, CodexReturnedStep, ClaudeReturnedStep, StepKeeps DEF Return
<1>5. ASSUME Shared', door' = door, run' = run PROVE IInv' /\ TierStep
  <2>1. \A e \in Doors : Sound(door[e], run[e])
    BY DEF IInv
  <2>2. \A e \in Doors : Up(door[e], door[e])
    BY <2>1, UpSame
  <2>3. QED
    BY <1>5, <2>1, <2>2 DEF IInv, TierStep, Up
<1>6. CASE Expire \/ Elsewhere
  BY <1>5, <1>6, ElsewhereStep
<1>7. CASE UNCHANGED vars
  <2>1. Shared' /\ door' = door /\ run' = run
    BY <1>7 DEF vars, IInv, Shared
  <2>2. QED
    BY <1>5, <2>1
<1>8. QED
  BY <1>1, <1>2, <1>3, <1>4, <1>6, <1>7 DEF Next

(* In every behaviour a door and its run are linked, keep their pins and    *)
(* remember the refusals.                                                   *)
THEOREM Invariance == Spec => []IInv
BY Initially, Inductive, PTL DEF Spec

(* In every behaviour, doors, runs and cooldowns are of their types.        *)
THEOREM TypeCorrect == Spec => []TypeOK
<1>1. IInv => TypeOK
  <2> SUFFICES ASSUME IInv PROVE TypeOK
    OBVIOUS
  <2>1. ASSUME NEW d \in Doors PROVE DoorOK(door[d]) /\ RunOK(run[d])
    <3>1. (door[d] = Idle \/ door[d] \in DoorRecords) /\ (run[d] = NoRun \/ run[d] \in RunRecords)
      BY DEF IInv, Sound, Formed
    <3>2. DoorOK(door[d])
      BY <3>1 DEF DoorOK, DoorRecords, ModelNames
    <3>3. RunOK(run[d])
      BY <3>1 DEF RunOK, RunRecords, ModelNames
    <3>4. QED
      BY <3>2, <3>3
  <2>2. QED
    BY <2>1 DEF IInv, Shared, TypeOK
<1>2. QED
  BY <1>1, Invariance, PTL

(* Whatever requests ask for and providers answer, a dispatch never goes    *)
(* below the model that was asked for, nor below one that it had.           *)
THEOREM ModelsOnlyRise == Spec => NeverDownTier
<1>1. IInv /\ [Next]_vars => [TierStep]_vars
  BY Inductive
<1>2. NeverDownTier <=> [][TierStep]_vars
  BY DEF NeverDownTier, TierStep
<1>3. QED
  BY <1>1, <1>2, Invariance, PTL DEF Spec

(* No lane that refused a model's run has that run again.                   *)
THEOREM RefusedNotAskedAgain == Spec => []RefusedOnce
<1>1. IInv => RefusedOnce
  BY DEF IInv, Sound, Remembered, RefusedOnce
<1>2. QED
  BY <1>1, Invariance, PTL

(* A run is where its pins say, with the pinned model or with Fable.        *)
THEOREM PinsAreKept == Spec => []PinsKept
<1>1. IInv => PinsKept
  <2> SUFFICES ASSUME IInv, NEW d \in Doors, run[d].pc # "none"
               PROVE  LET r == door[d].request
                      IN /\ r.lane # None => run[d].lane = r.lane
                         /\ r.home # None => run[d].lane = r.home
                         /\ r.model # None => run[d].model \in {r.model, "fable"}
    BY DEF PinsKept
  <2>1. Sound(door[d], run[d])
    BY DEF IInv
  <2>2. run[d] # NoRun
    BY Distinct
  <2>3. door[d] # Idle /\ run[d].model = door[d].model
    BY <2>1, <2>2, Distinct DEF Sound, Linked
  <2>4. QED
    BY <2>1, <2>2, <2>3 DEF Sound, Bound, Binds
<1>2. QED
  BY <1>1, Invariance, PTL

================================================================================
