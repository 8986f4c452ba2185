------------------------------- MODULE SweepProofs -------------------------------
(* Proofs about the optimiser's sweep, for every base request, catalogue and list of       *)
(* variables: a warm start fits the model it is handed to, and the expansion is the one    *)
(* that was asked for.                                                                     *)
EXTENDS Sweep, FiniteSetTheorems, SequenceTheorems, TLAPS

--------------------------------------------------------------------------------
(* The warm starts of a sweep.  What the cache holds under a key is a number of nodes, and *)
(* the key alone says which: everything buildModel() counts is in massAffectingHash().     *)
(* The seed of the variant in flight was taken from the cache under that variant's own key.*)
(* The number of nodes of every request with this key. *)
NodesOf(key) == 2 + ChainLength(key[1]["wall"]) + ChainLength(key[1]["roof"])
                  + ChainLength(key[1]["floor"]) + (IF key[2] = {} THEN 0 ELSE 1)

(* Every converged state in the cache has the nodes its key asks for. *)
CacheFitsKeys == \A key \in DOMAIN spinUpCache : spinUpCache[key] = NodesOf(key)

SweepInv == CacheFitsKeys /\ SeedFitsMesh

(* massAffectingHash() keeps all of a request that the mesh and the model are built from.  *)
LEMMA KeySaysNodes == ASSUME NEW r PROVE NodesOf(MassAffectingHash(r)) = NodeCount(r)
  BY DEF NodesOf, MassAffectingHash, NodeCount

(* Seed and options of a variant, 524-548: a seed out of a cache that fits its keys fits   *)
(* the variant it is handed to.                                                            *)
LEMMA SeedOfRun ==
  ASSUME NEW ex, NEW i, NEW cache, \A key \in DOMAIN cache : cache[key] = NodesOf(key),
         RunOf(ex, i, cache).seed # 0
  PROVE  RunOf(ex, i, cache).seed = NodeCount(ex[RunOf(ex, i, cache).index].request)
<1> DEFINE key == MassAffectingHash(ex[i].request)
<1>1. RunOf(ex, i, cache).index = i
  BY DEF RunOf
<1>2. RunOf(ex, i, cache).seed = IF key \in DOMAIN cache THEN cache[key] ELSE 0
  BY DEF RunOf
<1>3. RunOf(ex, i, cache).seed = NodesOf(key)
  BY <1>2
<1> QED
  BY <1>1, <1>3, KeySaysNodes

(* The head of the loop, 519-522: whatever it does, the seed it leaves behind fits.        *)
LEMMA LoopKeepsSeeds ==
  ASSUME NEW cache, NEW vs, \A key \in DOMAIN cache : cache[key] = NodesOf(key),
         Loop(expanded', cache, vs)
  PROVE  SeedFitsMesh'
<1>1. inflight' = NoRun \/ inflight' = RunOf(expanded', Len(vs) + 1, cache)
  BY DEF Loop
<1>2. CASE inflight' = NoRun
  BY <1>2 DEF SeedFitsMesh, NoRun
<1>3. CASE inflight' = RunOf(expanded', Len(vs) + 1, cache)
  <2>1. SUFFICES ASSUME inflight'.seed # 0
                 PROVE  inflight'.seed = NodeCount(expanded'[inflight'.index].request)
    BY DEF SeedFitsMesh
  <2>2. RunOf(expanded', Len(vs) + 1, cache).seed # 0
    BY <1>3, <2>1
  <2> QED
    BY <1>3, <2>2, SeedOfRun
<1> QED
  BY <1>1, <1>2, <1>3

LEMMA SweepStarts == SweepInit => SweepInv
  BY DEF SweepInit, SweepInv, CacheFitsKeys, SeedFitsMesh, NoRun

(* A converged state is kept under its request's key, 553-560, unless there is one.        *)
LEMMA ResolvesKeeps == SweepInv /\ Resolves => SweepInv'
<1> SUFFICES ASSUME SweepInv, Resolves PROVE SweepInv'
  OBVIOUS
<1> DEFINE r   == expanded[inflight.index].request
           key == MassAffectingHash(r)
<1>1. /\ spinUpCache' = [k \in DOMAIN spinUpCache \cup {key} |->
                           IF k \in DOMAIN spinUpCache THEN spinUpCache[k] ELSE NodeCount(r)]
      /\ Loop(expanded, spinUpCache', variants')
      /\ expanded' = expanded
  BY DEF Resolves
<1>2. CacheFitsKeys'
  <2>1. NodesOf(key) = NodeCount(r)
    BY KeySaysNodes
  <2> QED
    BY <1>1, <2>1 DEF SweepInv, CacheFitsKeys
<1>3. Loop(expanded', spinUpCache', variants')
  BY <1>1
<1>4. SeedFitsMesh'
  BY <1>2, <1>3, LoopKeepsSeeds DEF CacheFitsKeys
<1> QED
  BY <1>2, <1>4 DEF SweepInv

LEMMA SweepKept == SweepInv /\ [SweepNext]_sweepVars => SweepInv'
<1> SUFFICES ASSUME SweepInv, [SweepNext]_sweepVars PROVE SweepInv'
  OBVIOUS
<1>1. CASE RunSweep
  <2>1. CacheFitsKeys'
    BY <1>1 DEF RunSweep, SweepInv, CacheFitsKeys
  <2>2. CASE Loop(expanded', spinUpCache, variants)
    BY <2>1, <2>2, LoopKeepsSeeds DEF SweepInv, CacheFitsKeys
  <2>3. CASE UNCHANGED <<expanded, inflight>>
    BY <2>1, <2>3 DEF SweepInv, SeedFitsMesh
  <2> QED
    BY <1>1, <2>1, <2>2, <2>3 DEF RunSweep, SweepInv, SeedFitsMesh
<1>2. CASE Resolves
  BY <1>2, ResolvesKeeps
<1>3. CASE Fails
  BY <1>3 DEF Fails, SweepInv, CacheFitsKeys, SeedFitsMesh, NoRun
<1>4. CASE Abort
  BY <1>4 DEF Abort, SweepInv, CacheFitsKeys, SeedFitsMesh
<1>5. CASE UNCHANGED sweepVars
  BY <1>5 DEF sweepVars, SweepInv, CacheFitsKeys, SeedFitsMesh
<1> QED
  BY <1>1, <1>2, <1>3, <1>4, <1>5 DEF SweepNext

(* sweep.ts 436-442 and 524-548: whatever a sweep asks for and in whatever order the       *)
(* variants come, none is seeded with a state of another number of nodes, which the engine *)
(* would refuse.                                                                           *)
THEOREM SeedsFit == SweepSpec => []SeedFitsMesh
<1>1. SweepInv => SeedFitsMesh
  BY DEF SweepInv
<1> QED
  BY <1>1, SweepStarts, SweepKept, PTL DEF SweepSpec


--------------------------------------------------------------------------------
(* Division by a number of ticks. *)
LEMMA DivMod ==
  ASSUME NEW a \in Int, NEW b \in Int, b > 0
  PROVE  a \div b \in Int /\ a % b \in 0..(b - 1) /\ a = b * (a \div b) + (a % b)
<1>1. a = b * (a \div b) + (a % b)
  BY SMT
<1> QED
  BY <1>1

LEMMA DivModOf ==
  ASSUME NEW b \in Int, b > 0, NEW q \in Int, NEW r \in 0..(b - 1)
  PROVE  (b * q + r) \div b = q /\ (b * q + r) % b = r
  BY SMT

LEMMA OneQuotient ==
  ASSUME NEW b \in Int, b > 0, NEW q \in Int, NEW r \in 0..(b - 1), NEW p \in Int, NEW t \in 0..(b - 1),
         b * q + r = b * p + t
  PROVE  q = p /\ r = t
  BY DivModOf

LEMMA Grows ==
  ASSUME NEW b \in Nat, NEW m \in Int, NEW n \in Int, m <= n
  PROVE  b * m \in Int /\ b * n \in Int /\ b * m <= b * n
  OBVIOUS

LEMMA DivGrows ==
  ASSUME NEW b \in Int, b > 0, NEW m \in Int, NEW n \in Int, m <= n
  PROVE  m \div b <= n \div b
<1>1. m = b * (m \div b) + (m % b) /\ m % b \in 0..(b - 1) /\ m \div b \in Int
  BY DivMod
<1>2. n = b * (n \div b) + (n % b) /\ n % b \in 0..(b - 1) /\ n \div b \in Int
  BY DivMod
<1>3. SUFFICES ASSUME n \div b + 1 <= m \div b PROVE FALSE
  BY <1>1, <1>2
<1> DEFINE p == m \div b
           q == n \div b
<1>4. b * (q + 1) <= b * p /\ b * (q + 1) = b * q + b
  BY <1>1, <1>2, <1>3, Grows
<1> QED
  BY <1>1, <1>2, <1>4

--------------------------------------------------------------------------------
(* Induction, and sums over finite sets.                                                   *)
(* A set of numbers has a least element: of the intervals up to them, one is smallest.    *)
LEMMA LeastOf ==
  ASSUME NEW N \in SUBSET Nat, N # {}
  PROVE  \E n \in N : \A m \in N : n <= m
<1> DEFINE F == {0..n : n \in N}
<1>1. IsWellFoundedOn(StrictSubsetOrdering(Nat), FiniteSubsetsOf(Nat))
  BY FS_StrictSubsetOrderingWellFounded
<1>2. F \subseteq FiniteSubsetsOf(Nat)
  <2> SUFFICES ASSUME NEW n \in N PROVE 0..n \in FiniteSubsetsOf(Nat)
    OBVIOUS
  <2>1. IsFiniteSet(0..n)
    BY FS_Interval
  <2> QED BY <2>1 DEF FiniteSubsetsOf
<1>3. F # {}
  OBVIOUS
<1> HIDE DEF F
<1>4. PICK x \in F : \A y \in F : ~(<<y, x>> \in StrictSubsetOrdering(Nat))
  BY <1>1, <1>2, <1>3, WFMin
<1>5. PICK n \in N : x = 0..n
  BY DEF F
<1>6. ASSUME NEW m \in N, m < n PROVE FALSE
  <2>1. 0..m \in F /\ 0..m \subseteq 0..n /\ 0..m # 0..n
    BY <1>6 DEF F
  <2>2. <<0..m, 0..n>> \in StrictSubsetOrdering(Nat)
    BY <2>1 DEF StrictSubsetOrdering
  <2> QED BY <2>1, <2>2, <1>4, <1>5
<1> QED BY <1>6

(* So a set of numbers that has 0 and with each number the next one has them all.         *)
LEMMA Induct ==
  ASSUME NEW G \in SUBSET Nat, 0 \in G, \A n \in G : n + 1 \in G
  PROVE  G = Nat
<1>1. SUFFICES ASSUME Nat \ G # {} PROVE FALSE
  OBVIOUS
<1>2. PICK n \in Nat \ G : \A m \in Nat \ G : n <= m
  BY LeastOf, <1>1
<1>3. n - 1 \in Nat /\ n - 1 \notin Nat \ G
  BY <1>2
<1> QED BY <1>2, <1>3

(* What the community modules fold with: a function on the subsets that takes one element  *)
(* off and combines it with the fold of the rest.  It exists, by the number of elements.   *)
Iterates(it, S, V, a, ch, op) ==
  /\ it \in [SUBSET S -> V]
  /\ \A s \in SUBSET S : it[s] = IF s = {} THEN a ELSE op[ch[s]][it[s \ {ch[s]}]]
Picks(ch, S) == \A s \in SUBSET S : s # {} => ch[s] \in s
Combines(op, S, V) == \A x \in S : \A v \in V : op[x][v] \in V

LEMMA FoldExists ==
  ASSUME NEW S, IsFiniteSet(S), NEW V, NEW a \in V,
         NEW ch, Picks(ch, S), NEW op, Combines(op, S, V)
  PROVE  \E it : Iterates(it, S, V, a, ch, op)
<1> USE DEF Picks, Combines
<1> DEFINE Level(k) == {s \in SUBSET S : Cardinality(s) <= k}
           FoldsTo(it, k) == /\ it \in [Level(k) -> V]
                         /\ \A s \in Level(k) : it[s] = IF s = {} THEN a ELSE op[ch[s]][it[s \ {ch[s]}]]
           G == {k \in Nat : \E it : FoldsTo(it, k)}
<1>0. \A s \in SUBSET S : IsFiniteSet(s) /\ Cardinality(s) \in Nat
  BY FS_Subset, FS_CardinalityType
<1>1. \A s \in SUBSET S : s # {} => /\ Cardinality(s) > 0
                                    /\ Cardinality(s \ {ch[s]}) = Cardinality(s) - 1
  <2> SUFFICES ASSUME NEW s \in SUBSET S, s # {}
               PROVE  /\ Cardinality(s) > 0
                      /\ Cardinality(s \ {ch[s]}) = Cardinality(s) - 1
    OBVIOUS
  <2>1. ch[s] \in s /\ IsFiniteSet(s) /\ Cardinality(s) \in Nat
    BY <1>0
  <2>2. Cardinality(s) # 0
    BY <2>1, FS_EmptySet
  <2>3. Cardinality(s \ {ch[s]}) = Cardinality(s) - 1
    BY <2>1, FS_RemoveElement
  <2> QED BY <2>1, <2>2, <2>3
<1>2. 0 \in G
  <2>1. Level(0) = {{}}
    BY <1>0, <1>1, FS_EmptySet
  <2>2. FoldsTo([s \in {{}} |-> a], 0)
    BY <2>1
  <2> HIDE DEF FoldsTo
  <2>3. \E it : FoldsTo(it, 0)
    BY <2>2
  <2> QED BY <2>3
<1>3. ASSUME NEW k \in G PROVE k + 1 \in G
  <2>1. PICK it : FoldsTo(it, k)
    OBVIOUS
  <2> DEFINE next == [s \in Level(k + 1) |-> IF s \in Level(k) THEN it[s] ELSE op[ch[s]][it[s \ {ch[s]}]]]
  <2>2. ASSUME NEW s \in Level(k + 1), s # {}
        PROVE  s \ {ch[s]} \in Level(k) /\ ch[s] \in S
    BY <1>0, <1>1, <2>2
  <2>3. {} \in Level(k)
    BY FS_EmptySet
  <2>4. next \in [Level(k + 1) -> V]
    <3> SUFFICES ASSUME NEW s \in Level(k + 1), s \notin Level(k)
                 PROVE  op[ch[s]][it[s \ {ch[s]}]] \in V
      BY <2>1
    <3>1. s # {}
      BY <2>3
    <3> QED BY <2>1, <2>2, <3>1
  <2>5. ASSUME NEW s \in Level(k + 1)
        PROVE  next[s] = IF s = {} THEN a ELSE op[ch[s]][next[s \ {ch[s]}]]
    <3>1. CASE s = {}
      BY <3>1, <2>1, <2>3
    <3>2. CASE s # {}
      <4>1. s \ {ch[s]} \in Level(k) /\ s \ {ch[s]} \in Level(k + 1)
        <5>1. s \ {ch[s]} \in Level(k)
          BY <2>2, <3>2
        <5>2. Cardinality(s \ {ch[s]}) \in Nat /\ k \in Nat
          BY <1>0
        <5> QED BY <5>1, <5>2
      <4>2. next[s \ {ch[s]}] = it[s \ {ch[s]}]
        BY <4>1
      <4>3. next[s] = op[ch[s]][it[s \ {ch[s]}]]
        <5>1. s \in Level(k) => it[s] = op[ch[s]][it[s \ {ch[s]}]]
          BY <2>1, <3>2
        <5>2. next[s] = IF s \in Level(k) THEN it[s] ELSE op[ch[s]][it[s \ {ch[s]}]]
          OBVIOUS
        <5> HIDE DEF Level, next
        <5> QED BY <5>1, <5>2
      <4> QED BY <3>2, <4>2, <4>3
    <3> QED BY <3>1, <3>2
  <2> HIDE DEF next
  <2>6. FoldsTo(next, k + 1)
    BY <2>4, <2>5
  <2> HIDE DEF FoldsTo
  <2>7. \E g : FoldsTo(g, k + 1)
    BY <2>6
  <2>8. k + 1 \in Nat
    OBVIOUS
  <2> QED BY <2>7, <2>8
<1>4. G \in SUBSET Nat
  OBVIOUS
<1>5. G = Nat
  <2> HIDE DEF G
  <2> QED BY <1>2, <1>3, <1>4, Induct
<1>6. Cardinality(S) \in G
  BY <1>0, <1>5
<1>7. Level(Cardinality(S)) = SUBSET S
  BY FS_Subset, <1>0
<1>8. PICK it : FoldsTo(it, Cardinality(S))
  BY <1>6
<1>9. Iterates(it, S, V, a, ch, op)
  BY <1>7, <1>8 DEF Iterates
<1> QED BY <1>9

--------------------------------------------------------------------------------
(* Folds over sequences. FoldLeft() of the community modules folds over the positions of  *)
(* a sequence from the last one down; what is needed of it is that it goes through the    *)
(* elements in their order.                                                               *)

(* A set of positions has a last one. *)
LEMMA MaxOf ==
  ASSUME NEW n \in Nat, NEW s \in SUBSET (1..n), s # {}
  PROVE  Max(s) \in s /\ \A y \in s : y <= Max(s)
<1> DEFINE N == {n - x : x \in s}
<1>1. N \in SUBSET Nat /\ N # {}
  <2>1. \A x \in s : n - x \in Nat
    OBVIOUS
  <2>2. PICK x \in s : TRUE
    OBVIOUS
  <2>3. n - x \in N
    OBVIOUS
  <2> QED
    BY <2>1, <2>3
<1> HIDE DEF N
<1>2. PICK m \in N : \A k \in N : m <= k
  BY <1>1, LeastOf
<1>3. PICK x \in s : m = n - x
  BY DEF N
<1>4. \A y \in s : y <= x
  <2> TAKE y \in s
  <2>1. n - y \in N /\ y \in Int /\ x \in Int
    BY DEF N
  <2> QED
    BY <1>2, <1>3, <2>1
<1>5. \E z \in s : \A y \in s : z >= y
  BY <1>4
<1> QED
  BY <1>5 DEF Max

(* The last of the first k positions. *)
LEMMA MaxOfPrefix ==
  ASSUME NEW n \in Nat, NEW k \in 1..n
  PROVE  Max(1..k) = k /\ (1..k) \ {k} = 1..(k - 1) /\ 1..k \in SUBSET (1..n) /\ 1..k # {}
<1>1. 1..k \in SUBSET (1..n) /\ 1..k # {} /\ k \in 1..k
  OBVIOUS
<1>2. Max(1..k) \in 1..k /\ \A y \in 1..k : y <= Max(1..k)
  BY <1>1, MaxOf
<1>3. Max(1..k) = k
  BY <1>1, <1>2
<1>4. (1..k) \ {k} = 1..(k - 1)
  OBVIOUS
<1> QED
  BY <1>1, <1>3, <1>4

(* What FoldLeft folds with. *)
FromLast(g, n, V, a, op) ==
  /\ g \in [SUBSET (1..n) -> V]
  /\ \A s \in SUBSET (1..n) : g[s] = IF s = {} THEN a ELSE op[Max(s)][g[s \ {Max(s)}]]

(* A fold over the positions of a sequence, taken from the last one down, exists. *)
LEMMA FromTheLast ==
  ASSUME NEW n \in Nat, NEW V, NEW a \in V, NEW op, Combines(op, 1..n, V)
  PROVE  \E g : FromLast(g, n, V, a, op)
<1> DEFINE S == 1..n
           ch == [s \in SUBSET S |-> Max(s)]
<1>1. IsFiniteSet(S)
  BY FS_Interval
<1>2. Picks(ch, S)
  BY MaxOf DEF Picks
<1>3. Combines(op, S, V)
  OBVIOUS
<1>4. \A s \in SUBSET S : ch[s] = Max(s)
  OBVIOUS
<1> HIDE DEF ch, S
<1>5. PICK g : Iterates(g, S, V, a, ch, op)
  BY <1>1, <1>2, <1>3, FoldExists
<1>6. /\ g \in [SUBSET S -> V]
      /\ \A s \in SUBSET S : g[s] = IF s = {} THEN a ELSE op[Max(s)][g[s \ {Max(s)}]]
  BY <1>4, <1>5 DEF Iterates
<1>7. FromLast(g, n, V, a, op)
  BY <1>6 DEF S, FromLast
<1> QED
  BY <1>7

(* A fold from the left goes through the elements in their order. *)
Runs(it, n, V, a, op) ==
  it \in [0..n -> V] /\ it[0] = a /\ \A k \in 1..n : it[k] = op[k][it[k - 1]]

(* ... and it is the run through the prefixes: the value after k elements comes from the  *)
(* value after k - 1.                                                                     *)
LEMMA InTheirOrder ==
  ASSUME NEW n \in Nat, NEW V, NEW a \in V, NEW op, Combines(op, 1..n, V),
         NEW g, \A s \in SUBSET (1..n) : s = {} => g[s] = a,
         \A s \in SUBSET (1..n) : s # {} /\ g[s \ {Max(s)}] \in V => g[s] = op[Max(s)][g[s \ {Max(s)}]]
  PROVE  Runs([k \in 0..n |-> g[1..k]], n, V, a, op)
<1> DEFINE it == [k \in 0..n |-> g[1..k]]
           G == {k \in Nat : k <= n => it[k] \in V}
<1>1. it[0] = a
  <2>1. 1..0 = {} /\ {} \in SUBSET (1..n)
    OBVIOUS
  <2> QED
    BY <2>1
<1>2. ASSUME NEW k \in 1..n, it[k - 1] \in V PROVE it[k] = op[k][it[k - 1]] /\ it[k] \in V
  <2> DEFINE s == 1..k
  <2>1. Max(s) = k /\ s \ {k} = 1..(k - 1) /\ s \in SUBSET (1..n) /\ s # {}
    BY MaxOfPrefix
  <2>2. it[k] = g[s] /\ it[k - 1] = g[1..(k - 1)]
    OBVIOUS
  <2> HIDE DEF s
  <2>3. g[s] = op[k][g[1..(k - 1)]]
    BY <1>2, <2>1, <2>2
  <2>4. it[k] = op[k][it[k - 1]]
    BY <2>2, <2>3
  <2> HIDE DEF it
  <2> QED
    BY <1>2, <2>4 DEF Combines
<1>3. 0 \in G
  BY <1>1
<1>4. ASSUME NEW k \in G PROVE k + 1 \in G
  <2>1. CASE k + 1 <= n
    <3>1. k + 1 \in 1..n /\ it[(k + 1) - 1] \in V
      <4>1. k \in Nat /\ (k + 1) - 1 = k /\ it[k] \in V
        BY <2>1
      <4> HIDE DEF it
      <4> QED
        BY <2>1, <4>1
    <3> HIDE DEF it
    <3> QED
      BY <1>2, <3>1
  <2> QED
    BY <2>1
<1>5. G = Nat
  <2>1. G \in SUBSET Nat
    OBVIOUS
  <2> HIDE DEF G
  <2> QED
    BY <1>3, <1>4, <2>1, Induct
<1>6. \A k \in 0..n : it[k] \in V
  <2> SUFFICES ASSUME NEW k \in 0..n PROVE it[k] \in V
    OBVIOUS
  <2>1. k \in G
    <3>1. k \in Nat
      OBVIOUS
    <3> HIDE DEF G
    <3> QED
      BY <1>5, <3>1
  <2> HIDE DEF it
  <2> QED
    BY <2>1
<1>7. it \in [0..n -> V]
  BY <1>6
<1>8. \A k \in 1..n : it[k] = op[k][it[k - 1]]
  <2> TAKE k \in 1..n
  <2>1. it[k - 1] \in V
    BY <1>6
  <2> QED
    BY <1>2, <2>1
<1> HIDE DEF it
<1> QED
  BY <1>1, <1>7, <1>8 DEF Runs, it

--------------------------------------------------------------------------------
(* The expansion is an odometer. expandVariants(), 369-393: the wheels are the lists of   *)
(* values, each counts in the product of the lengths of those behind it.                  *)

(* The variables of a request: lists of values. *)
Lists(specs) ==
  /\ Len(specs) \in Nat /\ DOMAIN specs = 1..Len(specs)
  /\ \A s \in DOMAIN specs : Len(specs[s].values) \in Nat

(* What Total() and Digit() multiply: the lengths of the lists behind place s. *)
Times(specs, s) ==
  [k \in 1..Len(specs) |-> [v \in Nat |-> IF k > s THEN v * Len(specs[k].values) ELSE v]]

(* The number of combinations of the variables behind place s, as Digit() counts it. *)
Later(specs, s) ==
  FoldLeft(LAMBDA n, t : IF t > s THEN n * Len(specs[t].values) ELSE n, 1, [t \in DOMAIN specs |-> t])

LEMMA TimesCombines ==
  ASSUME NEW specs, Lists(specs), NEW s
  PROVE  Combines(Times(specs, s), 1..Len(specs), Nat)
<1> DEFINE n == Len(specs)
<1>1. ASSUME NEW k \in 1..n, NEW v \in Nat PROVE Times(specs, s)[k][v] \in Nat
  <2> DEFINE l == Len(specs[k].values)
  <2>1. l \in Nat
    BY DEF Lists
  <2>2. Times(specs, s)[k][v] = IF k > s THEN v * l ELSE v
    BY DEF Times
  <2> HIDE DEF l
  <2>3. v * l \in Nat
    BY <2>1
  <2> QED
    BY <2>2, <2>3
<1> QED
  BY <1>1 DEF Combines

(* Total() is a run through the variables ... *)
LEMMA TotalRuns ==
  ASSUME NEW specs, Lists(specs)
  PROVE  \E it : Runs(it, Len(specs), Nat, 1, Times(specs, 0)) /\ Total(specs) = it[Len(specs)]
<1> DEFINE n == Len(specs)
           op == Times(specs, 0)
           Body(h) == [u \in SUBSET DOMAIN specs |->
                         IF u = {} THEN 1 ELSE LET x == Max(u) IN h[u \ {x}] * Len(specs[x].values)]
           it == CHOOSE h : h = Body(h)
<1>0. n \in Nat /\ DOMAIN specs = 1..n
  BY DEF Lists
<1>1. Total(specs) = it[DOMAIN specs]
  BY DEF Total, FoldLeft, MapThenFoldSet
<1>2. Combines(op, 1..n, Nat) /\ 1 \in Nat
  BY TimesCombines
<1>3. PICK g : /\ g \in [SUBSET (1..n) -> Nat]
               /\ \A u \in SUBSET (1..n) : g[u] = IF u = {} THEN 1 ELSE op[Max(u)][g[u \ {Max(u)}]]
  <2> HIDE DEF op, n
  <2>1. \E g : FromLast(g, n, Nat, 1, op)
    BY <1>0, <1>2, FromTheLast
  <2> QED
    BY <2>1 DEF FromLast
<1>4. ASSUME NEW k \in 1..n, NEW v \in Nat PROVE op[k][v] = v * Len(specs[k].values)
  BY <1>0 DEF Times
<1>5. ASSUME NEW u \in SUBSET (1..n), u # {} PROVE Max(u) \in 1..n
  BY <1>0, <1>5, MaxOf
<1>6. g = Body(g)
  <2>1. ASSUME NEW u \in SUBSET (1..n)
        PROVE  g[u] = IF u = {} THEN 1 ELSE LET x == Max(u) IN g[u \ {x}] * Len(specs[x].values)
    <3>1. CASE u = {}
      BY <1>3, <3>1
    <3>2. CASE u # {}
      <4>1. Max(u) \in 1..n /\ g[u \ {Max(u)}] \in Nat
        BY <1>3, <1>5, <3>2
      <4> HIDE DEF op, n
      <4> QED
        BY <1>3, <1>4, <3>2, <4>1
    <3> QED
      BY <3>1, <3>2
  <2> QED
    BY <1>0, <1>3, <2>1
<1>7. it = Body(it)
  BY <1>6
<1> HIDE DEF it
<1>8. \A u \in SUBSET (1..n) : u = {} => it[u] = 1
  BY <1>0, <1>7
<1>9. \A u \in SUBSET (1..n) : u # {} /\ it[u \ {Max(u)}] \in Nat => it[u] = op[Max(u)][it[u \ {Max(u)}]]
  <2> SUFFICES ASSUME NEW u \in SUBSET (1..n), u # {}, it[u \ {Max(u)}] \in Nat
               PROVE  it[u] = op[Max(u)][it[u \ {Max(u)}]]
    OBVIOUS
  <2>1. it[u] = it[u \ {Max(u)}] * Len(specs[Max(u)].values)
    BY <1>0, <1>7
  <2>2. Max(u) \in 1..n
    BY <1>5
  <2> HIDE DEF op, n
  <2> QED
    BY <1>4, <2>1, <2>2
<1> DEFINE runs == [k \in 0..n |-> it[1..k]]
<1>10. Runs(runs, n, Nat, 1, op)
  <2> HIDE DEF op, n
  <2> QED
    BY <1>0, <1>2, <1>8, <1>9, InTheirOrder
<1>11. runs[n] = it[1..n]
  BY <1>0
<1>12. Runs(runs, Len(specs), Nat, 1, Times(specs, 0)) /\ Total(specs) = runs[Len(specs)]
  BY <1>0, <1>1, <1>10, <1>11
<1> QED
  BY <1>12

(* ... and so is what Digit() divides by. *)
LEMMA LaterRuns ==
  ASSUME NEW specs, Lists(specs), NEW s
  PROVE  \E it : Runs(it, Len(specs), Nat, 1, Times(specs, s)) /\ Later(specs, s) = it[Len(specs)]
<1> DEFINE n == Len(specs)
           op == Times(specs, s)
           f == [t \in DOMAIN specs |-> t]
           Body(h) == [u \in SUBSET DOMAIN f |->
                         IF u = {} THEN 1
                         ELSE LET x == Max(u)
                              IN IF f[x] > s THEN h[u \ {x}] * Len(specs[f[x]].values) ELSE h[u \ {x}]]
           it == CHOOSE h : h = Body(h)
<1>0. n \in Nat /\ DOMAIN specs = 1..n /\ DOMAIN f = 1..n
  BY DEF Lists
<1>1. Later(specs, s) = it[DOMAIN f]
  BY DEF Later, FoldLeft, MapThenFoldSet
<1>2. Combines(op, 1..n, Nat) /\ 1 \in Nat
  BY TimesCombines
<1>3. PICK g : /\ g \in [SUBSET (1..n) -> Nat]
               /\ \A u \in SUBSET (1..n) : g[u] = IF u = {} THEN 1 ELSE op[Max(u)][g[u \ {Max(u)}]]
  <2> HIDE DEF op, n
  <2>1. \E g : FromLast(g, n, Nat, 1, op)
    BY <1>0, <1>2, FromTheLast
  <2> QED
    BY <2>1 DEF FromLast
<1>4. ASSUME NEW k \in 1..n, NEW v \in Nat
      PROVE  op[k][v] = IF f[k] > s THEN v * Len(specs[f[k]].values) ELSE v
  BY <1>0 DEF Times
<1>5. ASSUME NEW u \in SUBSET (1..n), u # {} PROVE Max(u) \in 1..n
  BY <1>0, <1>5, MaxOf
<1> HIDE DEF f
<1>6. g = Body(g)
  <2>1. ASSUME NEW u \in SUBSET (1..n)
        PROVE  g[u] = IF u = {} THEN 1
                      ELSE LET x == Max(u)
                           IN IF f[x] > s THEN g[u \ {x}] * Len(specs[f[x]].values) ELSE g[u \ {x}]
    <3>1. CASE u = {}
      BY <1>3, <3>1
    <3>2. CASE u # {}
      <4>1. Max(u) \in 1..n /\ g[u \ {Max(u)}] \in Nat
        BY <1>3, <1>5, <3>2
      <4> HIDE DEF op, n
      <4> QED
        BY <1>3, <1>4, <3>2, <4>1
    <3> QED
      BY <3>1, <3>2
  <2> QED
    BY <1>0, <1>3, <2>1
<1>7. it = Body(it)
  BY <1>6
<1> HIDE DEF it
<1>8. \A u \in SUBSET (1..n) : u = {} => it[u] = 1
  BY <1>0, <1>7
<1>9. \A u \in SUBSET (1..n) : u # {} /\ it[u \ {Max(u)}] \in Nat => it[u] = op[Max(u)][it[u \ {Max(u)}]]
  <2> SUFFICES ASSUME NEW u \in SUBSET (1..n), u # {}, it[u \ {Max(u)}] \in Nat
               PROVE  it[u] = op[Max(u)][it[u \ {Max(u)}]]
    OBVIOUS
  <2>1. it[u] = IF f[Max(u)] > s THEN it[u \ {Max(u)}] * Len(specs[f[Max(u)]].values) ELSE it[u \ {Max(u)}]
    BY <1>0, <1>7
  <2>2. Max(u) \in 1..n
    BY <1>5
  <2> HIDE DEF op, n
  <2> QED
    BY <1>4, <2>1, <2>2
<1> DEFINE runs == [k \in 0..n |-> it[1..k]]
<1>10. Runs(runs, n, Nat, 1, op)
  <2> HIDE DEF op, n
  <2> QED
    BY <1>0, <1>2, <1>8, <1>9, InTheirOrder
<1>11. runs[n] = it[1..n]
  BY <1>0
<1>12. Runs(runs, Len(specs), Nat, 1, Times(specs, s)) /\ Later(specs, s) = runs[Len(specs)]
  BY <1>0, <1>1, <1>10, <1>11
<1> QED
  BY <1>12

(* Each variable counts in what the ones behind it can show together. *)
LEMMA NextWeight ==
  ASSUME NEW specs, Lists(specs), NEW s \in 1..Len(specs),
         NEW p, Runs(p, Len(specs), Nat, 1, Times(specs, s - 1)),
         NEW q, Runs(q, Len(specs), Nat, 1, Times(specs, s))
  PROVE  p[Len(specs)] = Len(specs[s].values) * q[Len(specs)]
<1> DEFINE n == Len(specs)
           L(k) == Len(specs[k].values)
           Good(k) == IF k < s THEN p[k] = 1 /\ q[k] = 1 ELSE p[k] = L(s) * q[k]
           G == {k \in Nat : k <= n => Good(k)}
<1>0. n \in Nat /\ s \in 1..n /\ \A k \in 1..n : L(k) \in Nat
  BY DEF Lists
<1>1. /\ p \in [0..n -> Nat] /\ q \in [0..n -> Nat] /\ p[0] = 1 /\ q[0] = 1
      /\ \A k \in 1..n : p[k] = Times(specs, s - 1)[k][p[k - 1]] /\ q[k] = Times(specs, s)[k][q[k - 1]]
  BY DEF Runs
<1>2. ASSUME NEW k \in 1..n
      PROVE  /\ p[k] = IF k > s - 1 THEN p[k - 1] * L(k) ELSE p[k - 1]
             /\ q[k] = IF k > s THEN q[k - 1] * L(k) ELSE q[k - 1]
             /\ p[k - 1] \in Nat /\ q[k - 1] \in Nat
  <2>1. p[k - 1] \in Nat /\ q[k - 1] \in Nat
    <3>1. k - 1 \in 0..n
      BY <1>0
    <3> QED
      BY <1>1, <3>1
  <2> QED
    BY <1>0, <1>1, <2>1 DEF Times
<1> HIDE DEF L, n
<1>3. 0 \in G
  BY <1>0, <1>1
<1>4. ASSUME NEW k \in G PROVE k + 1 \in G
  <2> SUFFICES ASSUME k + 1 <= n PROVE Good(k + 1)
    OBVIOUS
  <2>1. k \in Nat /\ Good(k) /\ k + 1 \in 1..n /\ (k + 1) - 1 = k
    BY <1>0
  <2>2. /\ p[k + 1] = IF k + 1 > s - 1 THEN p[k] * L(k + 1) ELSE p[k]
        /\ q[k + 1] = IF k + 1 > s THEN q[k] * L(k + 1) ELSE q[k]
        /\ p[k] \in Nat /\ q[k] \in Nat
    BY <1>2, <2>1
  <2>3. CASE k + 1 < s
    BY <1>0, <2>1, <2>2, <2>3
  <2>4. CASE k + 1 = s
    <3>1. p[k] = 1 /\ q[k] = 1 /\ p[k + 1] = p[k] * L(s) /\ q[k + 1] = q[k] /\ L(s) \in Nat
      BY <1>0, <2>1, <2>2, <2>4
    <3> QED
      BY <2>4, <3>1
  <2>5. CASE k + 1 > s
    <3> DEFINE a == L(s)
               b == L(k + 1)
               x == q[k]
    <3>1. p[k] = a * x /\ p[k + 1] = p[k] * b /\ q[k + 1] = x * b /\ a \in Nat /\ b \in Nat /\ x \in Nat
      BY <1>0, <2>1, <2>2, <2>5
    <3> HIDE DEF a, b, x
    <3>2. (a * x) * b = a * (x * b)
      BY <3>1
    <3>3. p[k + 1] = a * q[k + 1]
      BY <3>1, <3>2
    <3> QED
      BY <1>0, <2>1, <2>5, <3>3 DEF a
  <2> QED
    BY <1>0, <2>1, <2>3, <2>4, <2>5
<1>5. G = Nat
  <2>1. G \in SUBSET Nat
    OBVIOUS
  <2> HIDE DEF G
  <2> QED
    BY <1>3, <1>4, <2>1, Induct
<1>6. Good(n)
  <2>1. n \in G
    <3> HIDE DEF G
    <3> QED
      BY <1>0, <1>5
  <2> QED
    BY <1>0, <2>1
<1> QED
  BY <1>0, <1>6 DEF L, n

(* The last one counts in ones. *)
LEMMA LastWeight ==
  ASSUME NEW specs, Lists(specs), NEW q, Runs(q, Len(specs), Nat, 1, Times(specs, Len(specs)))
  PROVE  q[Len(specs)] = 1
<1> DEFINE n == Len(specs)
           G == {k \in Nat : k <= n => q[k] = 1}
<1>0. n \in Nat
  BY DEF Lists
<1>1. q \in [0..n -> Nat] /\ q[0] = 1 /\ \A k \in 1..n : q[k] = Times(specs, n)[k][q[k - 1]]
  BY DEF Runs
<1>2. ASSUME NEW k \in 1..n PROVE q[k] = q[k - 1]
  <2>1. q[k - 1] \in Nat /\ ~(k > n)
    BY <1>0, <1>1
  <2> QED
    BY <1>1, <2>1 DEF Times
<1> HIDE DEF n
<1>3. 0 \in G
  BY <1>1
<1>4. ASSUME NEW k \in G PROVE k + 1 \in G
  <2> SUFFICES ASSUME k + 1 <= n PROVE q[k + 1] = 1
    OBVIOUS
  <2>1. k \in Nat /\ q[k] = 1 /\ k + 1 \in 1..n /\ (k + 1) - 1 = k
    BY <1>0
  <2> QED
    BY <1>2, <2>1
<1>5. G = Nat
  <2>1. G \in SUBSET Nat
    OBVIOUS
  <2> HIDE DEF G
  <2> QED
    BY <1>3, <1>4, <2>1, Induct
<1>6. n \in G
  <2> HIDE DEF G
  <2> QED
    BY <1>0, <1>5
<1> QED
  BY <1>0, <1>6 DEF n

(* An odometer of n wheels: L[s] is the number of places of wheel s, W[s] what it counts in. *)
Odometer(n, W, L) ==
  /\ n \in Nat /\ L \in [1..n -> Nat] /\ W \in [0..n -> Nat]
  /\ W[n] = 1 /\ \A s \in 1..n : W[s - 1] = L[s] * W[s]

(* The odometer of a request. *)
Weights(specs) == [s \in 0..Len(specs) |-> IF s = 0 THEN Total(specs) ELSE Later(specs, s)]
Places(specs) == [s \in 1..Len(specs) |-> Len(specs[s].values)]

(* The lists of a request are wheels in this sense. *)
LEMMA SweepIsOdometer ==
  ASSUME NEW specs, Lists(specs)
  PROVE  Odometer(Len(specs), Weights(specs), Places(specs))
<1> DEFINE n == Len(specs)
           W == Weights(specs)
<1>0. n \in Nat /\ DOMAIN specs = 1..n /\ \A s \in 1..n : Len(specs[s].values) \in Nat
  BY DEF Lists
<1>1. ASSUME NEW s \in 0..n
      PROVE  \E it : Runs(it, Len(specs), Nat, 1, Times(specs, s)) /\ W[s] = it[Len(specs)]
  <2>1. CASE s = 0
    <3>1. W[s] = Total(specs)
      BY <2>1 DEF Weights
    <3> QED
      BY <2>1, <3>1, TotalRuns
  <2>2. CASE s # 0
    <3>1. W[s] = Later(specs, s)
      BY <2>2 DEF Weights
    <3> QED
      BY <3>1, LaterRuns
  <2> QED
    BY <2>1, <2>2
<1>2. \A s \in 0..n : W[s] \in Nat
  <2> TAKE s \in 0..n
  <2>1. PICK it : Runs(it, Len(specs), Nat, 1, Times(specs, s)) /\ W[s] = it[Len(specs)]
    BY <1>1
  <2>2. it \in [0..n -> Nat] /\ n \in 0..n
    BY <1>0, <2>1 DEF Runs
  <2> QED
    BY <2>1, <2>2
<1>3. W[n] = 1
  <2>1. PICK it : Runs(it, Len(specs), Nat, 1, Times(specs, n)) /\ W[n] = it[Len(specs)]
    BY <1>0, <1>1
  <2> QED
    BY <2>1, LastWeight
<1>4. \A s \in 1..n : W[s - 1] = Len(specs[s].values) * W[s]
  <2> TAKE s \in 1..n
  <2>1. s - 1 \in 0..n /\ s \in 0..n
    BY <1>0
  <2>2. PICK p : Runs(p, Len(specs), Nat, 1, Times(specs, s - 1)) /\ W[s - 1] = p[Len(specs)]
    BY <1>1, <2>1
  <2>3. PICK q : Runs(q, Len(specs), Nat, 1, Times(specs, s)) /\ W[s] = q[Len(specs)]
    BY <1>1, <2>1
  <2> QED
    BY <2>2, <2>3, NextWeight
<1>5. W \in [0..n -> Nat]
  <2>1. W = [s \in 0..n |-> W[s]]
    BY DEF Weights
  <2> HIDE DEF W
  <2> QED
    BY <1>2, <2>1
<1>6. Places(specs) \in [1..n -> Nat] /\ \A s \in 1..n : Places(specs)[s] = Len(specs[s].values)
  BY <1>0 DEF Places
<1> HIDE DEF W
<1> QED
  BY <1>0, <1>3, <1>4, <1>5, <1>6 DEF Odometer, W

(* The arithmetic of one wheel. *)
LEMMA NextModulo ==
  ASSUME NEW q \in Nat, NEW l \in Nat, l > 0
  PROVE  (q + 1) % l = IF (q % l) + 1 < l THEN (q % l) + 1 ELSE 0
<1> DEFINE r == q % l
           p == q \div l
<1>1. p \in Int /\ r \in 0..(l - 1) /\ q = l * p + r
  BY DivMod
<1> HIDE DEF p, r
<1>2. CASE r + 1 < l
  <2>1. r + 1 \in 0..(l - 1) /\ q + 1 = l * p + (r + 1)
    BY <1>1, <1>2
  <2>2. (l * p + (r + 1)) % l = r + 1
    BY <1>1, <2>1, DivModOf
  <2> QED
    BY <1>2, <2>1, <2>2 DEF r
<1>3. CASE ~(r + 1 < l)
  <2>1. r + 1 = l /\ 0 \in 0..(l - 1) /\ p + 1 \in Int
    BY <1>1, <1>3
  <2>2. q + 1 = l * (p + 1) + 0
    BY <1>1, <2>1
  <2>3. (l * (p + 1) + 0) % l = 0
    BY <2>1, DivModOf
  <2> QED
    BY <1>3, <2>2, <2>3 DEF r
<1> QED
  BY <1>2, <1>3

(* Counting on by one moves to the next block of w only from the last of one. *)
LEMMA NextQuotient ==
  ASSUME NEW k \in Nat, NEW w \in Nat, w > 0
  PROVE  /\ k \div w \in Nat
         /\ (k + 1) \div w = IF k % w = w - 1 THEN (k \div w) + 1 ELSE k \div w
<1> DEFINE r == k % w
           p == k \div w
<1>1. p \in Int /\ r \in 0..(w - 1) /\ k = w * p + r
  BY DivMod
<1>2. p \in Nat
  <2>1. 0 \div w <= k \div w /\ 0 \div w = 0
    BY DivGrows, SMT
  <2> QED
    BY <1>1, <2>1
<1> HIDE DEF p, r
<1>3. CASE r = w - 1
  <2>1. k + 1 = w * (p + 1) + 0 /\ p + 1 \in Int /\ 0 \in 0..(w - 1)
    BY <1>1, <1>3
  <2>2. (w * (p + 1) + 0) \div w = p + 1
    BY <2>1, DivModOf
  <2> QED
    BY <1>2, <1>3, <2>1, <2>2 DEF p, r
<1>4. CASE r # w - 1
  <2>1. k + 1 = w * p + (r + 1) /\ r + 1 \in 0..(w - 1)
    BY <1>1, <1>4
  <2>2. (w * p + (r + 1)) \div w = p
    BY <1>1, <2>1, DivModOf
  <2> QED
    BY <1>2, <1>4, <2>1, <2>2 DEF p, r
<1> QED
  BY <1>3, <1>4

(* A count modulo l * w is a digit of base l in blocks of w. *)
LEMMA SplitModulo ==
  ASSUME NEW k \in Nat, NEW w \in Nat, w > 0, NEW l \in Nat, l > 0
  PROVE  /\ k % (l * w) = w * ((k \div w) % l) + (k % w)
         /\ (k \div w) % l \in 0..(l - 1) /\ k % w \in 0..(w - 1)
<1> DEFINE q == k \div w
           r == k % w
           p == q \div l
           d == q % l
<1>1. q \in Int /\ r \in 0..(w - 1) /\ k = w * q + r
  BY DivMod
<1> HIDE DEF q, r
<1>2. p \in Int /\ d \in 0..(l - 1) /\ q = l * p + d
  BY <1>1, DivMod
<1> HIDE DEF p, d
<1> DEFINE m == l * w
           x == w * d + r
<1>3. m \in Int /\ m > 0
  BY SMT
<1>4. x \in 0..(m - 1)
  <2>1. w * d <= w * (l - 1) /\ w * d \in Int /\ w * (l - 1) = m - w
    <3>1. w * d <= w * (l - 1) /\ w * d \in Int
      BY <1>2, Grows
    <3> QED
      BY <3>1
  <2>2. w * 0 <= w * d
    BY <1>2, Grows
  <2> DEFINE y == w * d
  <2>3. y \in Int /\ 0 <= y /\ y <= m - w
    BY <2>1, <2>2
  <2> HIDE DEF m, y
  <2> QED
    BY <1>1, <1>3, <2>3 DEF y
<1>5. k = m * p + x
  <2>1. w * (l * p + d) = (l * w) * p + w * d
    BY <1>1, <1>2
  <2> QED
    BY <1>1, <1>2, <2>1
<1> HIDE DEF m, x
<1>6. (m * p + x) % m = x
  BY <1>2, <1>3, <1>4, DivModOf
<1> QED
  BY <1>1, <1>2, <1>5, <1>6 DEF m, x, d, q, r

(* Where wheel s stands at count k. *)
DigitOf(k, W, L, s) == (k \div W[s]) % L[s]

(* If there is anything to count then no wheel is empty. *)
LEMMA WheelsTurn ==
  ASSUME NEW n, NEW W, NEW L, Odometer(n, W, L), W[0] > 0
  PROVE  /\ \A s \in 0..n : W[s] \in Nat /\ W[s] > 0
         /\ \A s \in 1..n : L[s] \in Nat /\ L[s] > 0
<1> DEFINE G == {k \in Nat : k <= n => W[k] > 0}
<1>0. /\ n \in Nat /\ \A s \in 0..n : W[s] \in Nat
      /\ \A s \in 1..n : L[s] \in Nat /\ W[s - 1] = L[s] * W[s]
  BY DEF Odometer
<1>1. ASSUME NEW s \in 1..n, W[s - 1] > 0 PROVE W[s] > 0 /\ L[s] > 0
  <2> DEFINE a == L[s]
             b == W[s]
  <2>1. a \in Nat /\ b \in Nat /\ W[s - 1] = a * b
    BY <1>0
  <2> HIDE DEF a, b
  <2>2. a # 0 /\ b # 0
    BY <1>1, <2>1
  <2> QED
    BY <2>1, <2>2 DEF a, b
<1>2. 0 \in G
  OBVIOUS
<1>3. ASSUME NEW k \in G PROVE k + 1 \in G
  <2> SUFFICES ASSUME k + 1 <= n PROVE W[k + 1] > 0
    OBVIOUS
  <2>1. k + 1 \in 1..n /\ (k + 1) - 1 = k /\ W[k] > 0
    BY <1>0
  <2> QED
    BY <1>1, <2>1
<1>4. G = Nat
  <2>1. G \in SUBSET Nat
    OBVIOUS
  <2> HIDE DEF G
  <2> QED
    BY <1>2, <1>3, <2>1, Induct
<1>5. \A s \in 0..n : W[s] > 0
  <2> TAKE s \in 0..n
  <2>1. s \in Nat /\ s <= n
    BY <1>0
  <2>2. s \in G
    <3> HIDE DEF G
    <3> QED
      BY <1>4, <2>1
  <2> QED
    BY <2>1, <2>2
<1>6. \A s \in 1..n : L[s] > 0
  <2> TAKE s \in 1..n
  <2>1. s - 1 \in 0..n
    BY <1>0
  <2> QED
    BY <1>1, <1>5, <2>1
<1> QED
  BY <1>0, <1>5, <1>6

(* Induction from the last wheel to the first. *)
LEMMA InductDown ==
  ASSUME NEW n \in Nat, NEW G \in SUBSET (0..n), n \in G, \A s \in 1..n : s \in G => s - 1 \in G
  PROVE  G = 0..n
<1> DEFINE H == {k \in Nat : k <= n => n - k \in G}
<1>1. 0 \in H
  OBVIOUS
<1>2. ASSUME NEW k \in H PROVE k + 1 \in H
  <2> SUFFICES ASSUME k + 1 <= n PROVE n - (k + 1) \in G
    OBVIOUS
  <2>1. n - k \in 1..n /\ n - k \in G /\ (n - k) - 1 = n - (k + 1)
    OBVIOUS
  <2> QED
    BY <2>1
<1>3. H = Nat
  <2>1. H \in SUBSET Nat
    OBVIOUS
  <2> HIDE DEF H
  <2> QED
    BY <1>1, <1>2, <2>1, Induct
<1>4. ASSUME NEW s \in 0..n PROVE s \in G
  <2>1. n - s \in Nat /\ n - s <= n /\ n - (n - s) = s
    OBVIOUS
  <2>2. n - s \in H
    <3> HIDE DEF H
    <3> QED
      BY <1>3, <2>1
  <2> QED
    BY <2>1, <2>2
<1> QED
  BY <1>4

(* The wheels behind s all stand at their last place exactly before s turns. *)
LEMMA LastOfBlock ==
  ASSUME NEW n, NEW W, NEW L, Odometer(n, W, L), W[0] > 0, NEW k \in Nat
  PROVE  \A s \in 0..n : k % W[s] = W[s] - 1 <=> \A t \in 1..n : t > s => DigitOf(k, W, L, t) = L[t] - 1
<1> DEFINE Ends(s) == \A t \in 1..n : t > s => DigitOf(k, W, L, t) = L[t] - 1
           G == {s \in 0..n : k % W[s] = W[s] - 1 <=> Ends(s)}
<1>0. /\ n \in Nat /\ W[n] = 1 /\ \A s \in 1..n : W[s - 1] = L[s] * W[s]
      /\ \A s \in 0..n : W[s] \in Nat /\ W[s] > 0
      /\ \A s \in 1..n : L[s] \in Nat /\ L[s] > 0
  BY WheelsTurn DEF Odometer
<1>1. n \in G
  <2>1. k % 1 = 0
    BY SMT
  <2>2. Ends(n)
    BY <1>0
  <2> QED
    BY <1>0, <2>1, <2>2
<1>2. ASSUME NEW s \in 1..n, s \in G PROVE s - 1 \in G
  <2>0. s \in 0..n /\ s - 1 \in 0..n
    BY <1>0
  <2> DEFINE w == W[s]
             l == L[s]
             d == DigitOf(k, W, L, s)
             r == k % W[s]
  <2>1. w \in Nat /\ w > 0 /\ l \in Nat /\ l > 0 /\ W[s - 1] = l * w
    BY <1>0, <2>0
  <2>2. k % (l * w) = w * d + r /\ d \in 0..(l - 1) /\ r \in 0..(w - 1)
    BY <2>1, SplitModulo DEF DigitOf
  <2>3. Ends(s - 1) <=> d = l - 1 /\ Ends(s)
    <3>1. \A t \in 1..n : t > s - 1 <=> t = s \/ t > s
      BY <1>0
    <3>2. ASSUME Ends(s - 1) PROVE d = l - 1 /\ Ends(s)
      BY <3>1, <3>2
    <3>3. ASSUME d = l - 1, Ends(s) PROVE Ends(s - 1)
      <4> SUFFICES ASSUME NEW t \in 1..n, t > s - 1 PROVE DigitOf(k, W, L, t) = L[t] - 1
        OBVIOUS
      <4>1. CASE t = s
        BY <3>3, <4>1
      <4>2. CASE t > s
        BY <3>3, <4>2
      <4> QED
        BY <3>1, <4>1, <4>2
    <3> HIDE DEF Ends, d, l
    <3> QED
      BY <3>2, <3>3
  <2>4. r = w - 1 <=> Ends(s)
    BY <1>2
  <2>5. w * d + r = l * w - 1 <=> d = l - 1 /\ r = w - 1
    <3> HIDE DEF w, l, d, r
    <3>1. w * (l - 1) = l * w - w /\ w * (l - 1) \in Int /\ l * w \in Int
      BY <2>1
    <3>2. CASE d = l - 1
      BY <2>1, <2>2, <3>1, <3>2
    <3>3. CASE d # l - 1
      <4>1. d + 1 <= l - 1 /\ w * (d + 1) <= w * (l - 1) /\ w * (d + 1) = w * d + w /\ w * d \in Int
        <5>1. d + 1 <= l - 1 /\ d + 1 \in Int
          BY <2>1, <2>2, <3>3
        <5>2. w * (d + 1) <= w * (l - 1)
          BY <2>1, <5>1, Grows
        <5> QED
          BY <2>1, <2>2, <5>1, <5>2
      <4> DEFINE x == w * d
                 y == l * w
      <4>2. x \in Int /\ y \in Int /\ x + w <= y - w /\ r < w /\ r \in Int /\ w \in Int /\ w > 0
        BY <2>1, <2>2, <3>1, <4>1
      <4> HIDE DEF x, y
      <4>3. ~(x + r = y - 1)
        BY <4>2
      <4> QED
        BY <3>3, <4>3 DEF x, y
    <3> QED
      BY <3>2, <3>3
  <2> HIDE DEF w, l, d, r, Ends
  <2>6. k % W[s - 1] = W[s - 1] - 1 <=> Ends(s - 1)
    BY <2>1, <2>2, <2>3, <2>4, <2>5
  <2> QED
    BY <2>0, <2>6
<1>3. G = 0..n
  <2>1. G \in SUBSET (0..n)
    OBVIOUS
  <2> HIDE DEF G
  <2> QED
    BY <1>0, <1>1, <1>2, <2>1, InductDown
<1> QED
  BY <1>3

(* No two counts below the product of the wheels show the same. *)
LEMMA DigitsDetermine ==
  ASSUME NEW n, NEW W, NEW L, Odometer(n, W, L), W[0] > 0, NEW k \in Nat, NEW m \in Nat,
         \A s \in 1..n : DigitOf(k, W, L, s) = DigitOf(m, W, L, s), k < W[0], m < W[0]
  PROVE  k = m
<1> DEFINE G == {s \in 0..n : k % W[s] = m % W[s]}
<1>0. /\ n \in Nat /\ W[n] = 1 /\ \A s \in 1..n : W[s - 1] = L[s] * W[s]
      /\ \A s \in 0..n : W[s] \in Nat /\ W[s] > 0
      /\ \A s \in 1..n : L[s] \in Nat /\ L[s] > 0
  BY WheelsTurn DEF Odometer
<1>1. n \in G
  <2>1. k % 1 = 0 /\ m % 1 = 0
    BY SMT
  <2> QED
    BY <1>0, <2>1
<1>2. ASSUME NEW s \in 1..n, s \in G PROVE s - 1 \in G
  <2>0. s \in 0..n /\ s - 1 \in 0..n
    BY <1>0
  <2> DEFINE w == W[s]
             l == L[s]
  <2>1. w \in Nat /\ w > 0 /\ l \in Nat /\ l > 0 /\ W[s - 1] = l * w
    BY <1>0, <2>0
  <2>2. /\ k % (l * w) = w * DigitOf(k, W, L, s) + (k % w)
        /\ m % (l * w) = w * DigitOf(m, W, L, s) + (m % w)
    BY <2>1, SplitModulo DEF DigitOf
  <2>3. k % w = m % w
    BY <1>2
  <2> HIDE DEF w, l
  <2>4. k % W[s - 1] = m % W[s - 1]
    BY <2>1, <2>2, <2>3
  <2> QED
    BY <2>0, <2>4
<1>3. G = 0..n
  <2>1. G \in SUBSET (0..n)
    OBVIOUS
  <2> HIDE DEF G
  <2> QED
    BY <1>0, <1>1, <1>2, <2>1, InductDown
<1>4. k % W[0] = m % W[0]
  <2>1. 0 \in 0..n
    BY <1>0
  <2> QED
    BY <1>3, <2>1
<1> DEFINE w == W[0]
<1>5. w \in Nat /\ w > 0
  BY <1>0
<1>6. k = w * 0 + k /\ m = w * 0 + m /\ k \in 0..(w - 1) /\ m \in 0..(w - 1)
  BY <1>5
<1>7. k % w = k /\ m % w = m
  <2> HIDE DEF w
  <2>1. (w * 0 + k) % w = k /\ (w * 0 + m) % w = m
    BY <1>5, <1>6, DivModOf
  <2> QED
    BY <1>6, <2>1
<1> QED
  BY <1>4, <1>7

(* Turning the odometer counts on by one. *)
Shown(k, n, W, L) == [s \in 1..n |-> DigitOf(k, W, L, s)]

LEMMA TurnCounts ==
  ASSUME NEW specs, Lists(specs), NEW W, NEW n, n = Len(specs), Odometer(n, W, Places(specs)), W[0] > 0,
         NEW k \in Nat
  PROVE  Turn(specs, Shown(k, n, W, Places(specs))) = Shown(k + 1, n, W, Places(specs))
<1> DEFINE L == Places(specs)
           ix == Shown(k, n, W, L)
           room == {s \in DOMAIN ix : ix[s] + 1 < Len(specs[s].values)}
<1>0. /\ n \in Nat /\ \A s \in 0..n : W[s] \in Nat /\ W[s] > 0
      /\ \A s \in 1..n : L[s] \in Nat /\ L[s] > 0
  BY WheelsTurn DEF Odometer
<1>1. \A s \in 1..n : Len(specs[s].values) = L[s]
  BY DEF Places
<1>2. DOMAIN ix = 1..n /\ \A s \in 1..n : ix[s] = DigitOf(k, W, L, s)
  BY DEF Shown
<1> HIDE DEF L, ix
<1>3. \A s \in 1..n : DigitOf(k, W, L, s) \in 0..(L[s] - 1) /\ k \div W[s] \in Nat
  <2> TAKE s \in 1..n
  <2> DEFINE w == W[s]
             l == L[s]
  <2>1. w \in Nat /\ w > 0 /\ l \in Nat /\ l > 0
    BY <1>0
  <2> HIDE DEF w, l
  <2>2. (k \div w) % l \in 0..(l - 1) /\ k \div w \in Nat
    BY <2>1, SplitModulo, NextQuotient
  <2> QED
    BY <2>2 DEF w, l, DigitOf
<1>4. \A s \in 1..n : s \in room <=> DigitOf(k, W, L, s) # L[s] - 1
  <2> TAKE s \in 1..n
  <2> DEFINE d == DigitOf(k, W, L, s)
             l == L[s]
  <2>1. d \in 0..(l - 1) /\ l \in Nat /\ (s \in room <=> d + 1 < l)
    BY <1>0, <1>1, <1>2, <1>3
  <2> HIDE DEF d, l
  <2>2. d + 1 < l <=> d # l - 1
    BY <2>1
  <2> QED
    BY <2>1, <2>2 DEF d, l
<1>5. room \in SUBSET (1..n)
  BY <1>2
<1> HIDE DEF room
<1>6. ASSUME NEW s \in 1..n
      PROVE  (IF \E t \in room : t > s THEN ix[s] ELSE IF s \in room THEN ix[s] + 1 ELSE 0)
               = DigitOf(k + 1, W, L, s)
  <2> DEFINE w == W[s]
             l == L[s]
             q == k \div w
  <2>1. w \in Nat /\ w > 0 /\ l \in Nat /\ l > 0 /\ q \in Nat
    BY <1>0, <1>3
  <2>2. (\E t \in room : t > s) <=> ~(k % w = w - 1)
    <3>1. L = Places(specs)
      BY DEF L
    <3>2. Odometer(n, W, L)
      BY <3>1
    <3>3. s \in 0..n
      BY <1>0
    <3>4. k % w = w - 1 <=> \A t \in 1..n : t > s => DigitOf(k, W, L, t) = L[t] - 1
      BY <3>2, <3>3, LastOfBlock
    <3> HIDE DEF w
    <3> QED
      BY <1>4, <1>5, <3>4
  <2>3. ix[s] = q % l /\ DigitOf(k + 1, W, L, s) = ((k + 1) \div w) % l
    BY <1>2 DEF DigitOf
  <2>4. s \in room <=> (q % l) + 1 < l
    <3>1. q % l \in 0..(l - 1)
      <4> HIDE DEF q, l
      <4> QED
        BY <2>1, DivMod
    <3>2. s \in room <=> q % l # l - 1
      BY <1>4 DEF DigitOf
    <3> HIDE DEF q, l
    <3> QED
      BY <2>1, <3>1, <3>2
  <2>5. (k + 1) \div w = IF k % w = w - 1 THEN q + 1 ELSE q
    <3> HIDE DEF w
    <3> QED
      BY <2>1, NextQuotient DEF q
  <2>6. (q + 1) % l = IF (q % l) + 1 < l THEN (q % l) + 1 ELSE 0
    <3> HIDE DEF q, l
    <3> QED
      BY <2>1, NextModulo
  <2> HIDE DEF q, l, w
  <2> QED
    BY <2>2, <2>3, <2>4, <2>5, <2>6
<1>7. Turn(specs, ix) = [s \in DOMAIN ix |-> IF \E t \in room : t > s THEN ix[s]
                                            ELSE IF s \in room THEN ix[s] + 1 ELSE 0]
  BY DEF Turn, room
<1>8. Turn(specs, ix) = [s \in 1..n |-> DigitOf(k + 1, W, L, s)]
  BY <1>2, <1>6, <1>7
<1> QED
  BY <1>8 DEF Shown, L, ix

(* What is expanded is within the product of the lists. *)
LEMMA CountIsBounded ==
  ASSUME NEW asked, Lists(asked.variables), asked.maxVariants \in Int
  PROVE  /\ Count(asked) \in Nat /\ Total(asked.variables) = Weights(asked.variables)[0]
         /\ Count(asked) > 0 => Count(asked) <= Weights(asked.variables)[0]
<1> DEFINE total == Total(asked.variables)
<1>1. total = Weights(asked.variables)[0] /\ total \in Nat
  <2>1. Odometer(Len(asked.variables), Weights(asked.variables), Places(asked.variables))
    BY SweepIsOdometer
  <2>2. 0 \in 0..Len(asked.variables)
    BY DEF Lists
  <2>3. Weights(asked.variables)[0] = total
    BY <2>2 DEF Weights
  <2>4. Weights(asked.variables)[0] \in Nat
    BY <2>1, <2>2 DEF Odometer
  <2> QED
    BY <2>3, <2>4
<1> HIDE DEF total
<1>2. Count(asked) = IF asked.maxVariants < 0 THEN 0 ELSE IF asked.maxVariants <= total THEN asked.maxVariants ELSE total
  BY DEF Count, Smaller, total
<1> QED
  BY <1>1, <1>2 DEF total

(* The index vectors of the expansion are what the odometer shows, count by count, from   *)
(* 0.                                                                                     *)
LEMMA IndicesShow ==
  ASSUME NEW asked, Lists(asked.variables), asked.maxVariants \in Int, NEW specs, specs = asked.variables
  PROVE  /\ DOMAIN Indices(asked) = 1..Count(asked)
         /\ \A i \in 1..Count(asked) : Indices(asked)[i] = Shown(i - 1, Len(specs), Weights(specs), Places(specs))
<1> DEFINE n == Len(specs)
           c == Count(asked)
           W == Weights(specs)
           L == Places(specs)
           D == [i \in 1..c |-> Shown(i - 1, n, W, L)]
           Body(h) == [i \in 1..c |-> IF i = 1 THEN Zeros(specs) ELSE Turn(specs, h[i - 1])]
           ix == CHOOSE h : h = Body(h)
<1>1. c \in Nat /\ (c > 0 => W[0] > 0) /\ Odometer(n, W, L) /\ Lists(specs)
  <2>1. Odometer(n, W, L)
    BY SweepIsOdometer
  <2>2. c \in Nat /\ (c > 0 => c <= W[0])
    BY CountIsBounded
  <2>3. W[0] \in Nat
    BY <2>1 DEF Odometer
  <2> HIDE DEF c, W, L, n
  <2> QED
    BY <2>1, <2>2, <2>3
<1>2. Indices(asked) = ix
  BY DEF Indices
<1>3. ASSUME NEW i \in 1..c PROVE D[i] = IF i = 1 THEN Zeros(specs) ELSE Turn(specs, D[i - 1])
  <2>0. c > 0 /\ W[0] > 0
    <3>1. c > 0
      BY <1>1
    <3> QED
      BY <1>1, <3>1
  <2>1. CASE i = 1
    <3>1. \A s \in 1..n : DigitOf(0, W, L, s) = 0
      <4> TAKE s \in 1..n
      <4> DEFINE w == W[s]
                 l == L[s]
      <4>1. w \in Nat /\ w > 0 /\ l \in Nat /\ l > 0
        <5>1. s \in 0..n
          BY <1>1 DEF Odometer
        <5> HIDE DEF n, W, L
        <5> QED
          BY <1>1, <2>0, <5>1, WheelsTurn
      <4> HIDE DEF w, l
      <4>2. 0 \div w = 0 /\ 0 % l = 0
        BY <4>1, SMT
      <4> QED
        BY <4>2 DEF DigitOf, w, l
    <3>2. D[i] = [s \in 1..n |-> DigitOf(0, W, L, s)]
      BY <2>1 DEF Shown
    <3>3. Zeros(specs) = [s \in 1..n |-> 0]
      BY DEF Zeros, Lists
    <3> HIDE DEF W, L, n, D
    <3> QED
      BY <2>1, <3>1, <3>2, <3>3
  <2>2. CASE i # 1
    <3>1. i - 2 \in Nat /\ i - 1 \in 1..c /\ (i - 2) + 1 = i - 1 /\ (i - 1) - 1 = i - 2
      BY <1>1, <2>2
    <3>2. Turn(specs, Shown(i - 2, n, W, L)) = Shown(i - 1, n, W, L)
      <4> DEFINE k == i - 2
      <4>1. k \in Nat /\ k + 1 = i - 1
        BY <3>1
      <4> HIDE DEF k, W
      <4>2. Turn(specs, Shown(k, n, W, Places(specs))) = Shown(k + 1, n, W, Places(specs))
        BY <1>1, <2>0, <4>1, TurnCounts
      <4> QED
        BY <4>1, <4>2 DEF k
    <3>3. D[i] = Shown(i - 1, n, W, L) /\ D[i - 1] = Shown(i - 2, n, W, L)
      BY <3>1
    <3> HIDE DEF D, W, L, n
    <3> QED
      BY <2>2, <3>2, <3>3
  <2> QED
    BY <2>1, <2>2
<1> HIDE DEF W, L, n, c
<1>4. D = Body(D)
  <2> DEFINE B == Body(D)
  <2>1. DOMAIN D = 1..c /\ DOMAIN B = 1..c
    OBVIOUS
  <2>2. \A i \in 1..c : D[i] = B[i]
    BY <1>3
  <2>3. D = [i \in 1..c |-> D[i]] /\ B = [i \in 1..c |-> B[i]]
    OBVIOUS
  <2> HIDE DEF D, B
  <2>4. D = B
    BY <2>2, <2>3
  <2> QED
    BY <2>4 DEF B
<1>5. ix = Body(ix)
  BY <1>4
<1> HIDE DEF ix
<1>6. DOMAIN ix = 1..c /\ \A i \in 1..c : ix[i] = IF i = 1 THEN Zeros(specs) ELSE Turn(specs, ix[i - 1])
  BY <1>5
<1> DEFINE G == {k \in Nat : k + 1 <= c => ix[k + 1] = D[k + 1]}
<1>7. G = Nat
  <2> HIDE DEF D
  <2>1. 0 \in G
    <3> SUFFICES ASSUME 1 <= c PROVE ix[1] = D[1]
      OBVIOUS
    <3>1. 1 \in 1..c
      BY <1>1
    <3> QED
      BY <1>3, <1>6, <3>1
  <2>2. ASSUME NEW k \in G PROVE k + 1 \in G
    <3> SUFFICES ASSUME (k + 1) + 1 <= c PROVE ix[(k + 1) + 1] = D[(k + 1) + 1]
      OBVIOUS
    <3> DEFINE i == (k + 1) + 1
    <3>1. i \in 1..c /\ i # 1 /\ i - 1 = k + 1 /\ k + 1 <= c
      BY <1>1
    <3>2. ix[k + 1] = D[k + 1]
      BY <3>1
    <3> HIDE DEF i
    <3>3. ix[i] = Turn(specs, ix[k + 1]) /\ D[i] = Turn(specs, D[k + 1])
      BY <1>3, <1>6, <3>1
    <3>4. ix[i] = D[i]
      BY <3>2, <3>3
    <3> QED
      BY <3>4 DEF i
  <2>3. G \in SUBSET Nat
    OBVIOUS
  <2> HIDE DEF G
  <2> QED
    BY <2>1, <2>2, <2>3, Induct
<1>8. ASSUME NEW i \in 1..c PROVE ix[i] = Shown(i - 1, n, W, L)
  <2>1. i - 1 \in Nat /\ (i - 1) + 1 = i /\ i <= c
    BY <1>1
  <2>2. i - 1 \in G
    <3> HIDE DEF G
    <3> QED
      BY <1>7, <2>1
  <2> DEFINE k == i - 1
  <2>3. k \in G /\ k + 1 = i
    BY <2>1, <2>2
  <2>4. ix[i] = D[i]
    <3> HIDE DEF k, D
    <3> QED
      BY <2>1, <2>3
  <2> QED
    BY <2>4
<1> QED
  BY <1>2, <1>6, <1>8 DEF c, n, W, L

(* The expansion is that of the request, and it is made of values that can be applied.    *)
ExpandedAsAsked ==
  /\ sweep \in Sweeps
  /\ expanded # <<>> => expanded = ExpandVariants(Base, sweep) /\ Expands(sweep)

LEMMA SweepsAreLists == \A asked \in Sweeps : Lists(asked.variables) /\ asked.maxVariants \in Int
  BY SweepAssumption DEF Lists, IsList

LEMMA DigitIsShown ==
  ASSUME NEW specs, Lists(specs), NEW s \in 1..Len(specs), NEW i
  PROVE  Digit(specs, s, i) = DigitOf(i - 1, Weights(specs), Places(specs), s)
<1>1. Weights(specs)[s] = Later(specs, s) /\ Places(specs)[s] = Len(specs[s].values)
  <2>1. s \in 0..Len(specs) /\ s # 0
    BY DEF Lists
  <2> QED
    BY <2>1 DEF Weights, Places
<1>2. Digit(specs, s, i) = ((i - 1) \div Later(specs, s)) % Len(specs[s].values)
  BY DEF Digit, Later
<1> QED
  BY <1>1, <1>2 DEF DigitOf

(* Each choice of an expansion is what the odometer shows at its place. *)
LEMMA ChoicesShow ==
  ASSUME ExpandedAsAsked, NEW specs, specs = sweep.variables
  PROVE  /\ Lists(specs) /\ (expanded # <<>> => DOMAIN expanded = 1..Count(sweep))
         /\ \A i \in DOMAIN expanded :
              /\ i - 1 \in Nat /\ i - 1 < Weights(specs)[0]
              /\ expanded[i] = [choice |-> expanded[i].choice,
                                request |-> Variant(Base, specs, expanded[i].choice)]
              /\ expanded[i].choice = Shown(i - 1, Len(specs), Weights(specs), Places(specs))
<1>1. Lists(specs) /\ sweep.maxVariants \in Int
  BY SweepsAreLists DEF ExpandedAsAsked
<1>2. CASE expanded = <<>>
  BY <1>1, <1>2
<1>3. CASE expanded # <<>>
  <2> DEFINE ix == Indices(sweep)
  <2>1. expanded = [i \in 1..Count(sweep) |-> [choice |-> ix[i], request |-> Variant(Base, specs, ix[i])]]
    BY <1>3 DEF ExpandedAsAsked, ExpandVariants
  <2>2. \A i \in 1..Count(sweep) : ix[i] = Shown(i - 1, Len(specs), Weights(specs), Places(specs))
    BY <1>1, IndicesShow
  <2>3. Count(sweep) \in Nat /\ (Count(sweep) > 0 => Count(sweep) <= Weights(specs)[0])
    BY <1>1, CountIsBounded
  <2>4. Weights(specs)[0] \in Nat
    <3>1. Odometer(Len(specs), Weights(specs), Places(specs)) /\ 0 \in 0..Len(specs)
      BY <1>1, SweepIsOdometer DEF Lists
    <3> QED
      BY <3>1 DEF Odometer
  <2> HIDE DEF ix
  <2>5. ASSUME NEW i \in DOMAIN expanded
        PROVE  /\ i - 1 \in Nat /\ i - 1 < Weights(specs)[0]
               /\ expanded[i] = [choice |-> ix[i], request |-> Variant(Base, specs, ix[i])]
               /\ ix[i] = Shown(i - 1, Len(specs), Weights(specs), Places(specs))
    BY <2>1, <2>2, <2>3, <2>4
  <2>6. ASSUME NEW i \in DOMAIN expanded PROVE expanded[i].choice = ix[i]
    BY <2>5
  <2> QED
    BY <1>1, <2>1, <2>5, <2>6
<1> QED
  BY <1>2, <1>3

(* The expansion is the prefix of the product, and no choice occurs twice (362-368). *)
LEMMA PrefixHolds ==
  ASSUME ExpandedAsAsked
  PROVE  PrefixOfProduct
<1> DEFINE specs == sweep.variables
           n == Len(specs)
           W == Weights(specs)
           L == Places(specs)
<1>0. Lists(specs) /\ Odometer(n, W, L)
  BY ChoicesShow, SweepIsOdometer
<1>1. ASSUME NEW i \in DOMAIN expanded
      PROVE  i - 1 \in Nat /\ i - 1 < W[0] /\ expanded[i].choice = Shown(i - 1, n, W, L)
  BY ChoicesShow
<1>2. ASSUME NEW i \in DOMAIN expanded, NEW s \in DOMAIN specs
      PROVE  expanded[i].choice[s] = Digit(specs, s, i)
  <2>1. s \in 1..n
    BY <1>0 DEF Lists
  <2>2. expanded[i].choice[s] = DigitOf(i - 1, W, L, s)
    BY <1>1, <2>1 DEF Shown
  <2>3. Digit(specs, s, i) = DigitOf(i - 1, W, L, s)
    BY <1>0, <2>1, DigitIsShown
  <2> QED
    BY <2>2, <2>3
<1>3. ASSUME NEW i \in DOMAIN expanded, NEW j \in DOMAIN expanded, expanded[i].choice = expanded[j].choice
      PROVE  i = j
  <2> DEFINE k == i - 1
             m == j - 1
  <2>1. /\ k \in Nat /\ k < W[0] /\ m \in Nat /\ m < W[0] /\ W[0] > 0
        /\ Shown(k, n, W, L) = Shown(m, n, W, L)
    <3>1. W[0] \in Nat
      BY <1>0 DEF Odometer
    <3> QED
      BY <1>1, <1>3, <3>1
  <2>2. \A s \in 1..n : DigitOf(k, W, L, s) = DigitOf(m, W, L, s)
    <3> TAKE s \in 1..n
    <3>1. Shown(k, n, W, L)[s] = Shown(m, n, W, L)[s]
      BY <2>1
    <3> QED
      BY <3>1 DEF Shown
  <2> HIDE DEF k, m, W, L, n
  <2>3. k = m
    BY <1>0, <2>1, <2>2, DigitsDetermine
  <2>4. i - 1 = j - 1 /\ i \in Int /\ j \in Int
    <3>0. expanded # <<>>
      BY <1>3
    <3>1. DOMAIN expanded = 1..Count(sweep)
      BY <3>0, ChoicesShow
    <3>2. Count(sweep) \in Nat
      BY ChoicesShow, CountIsBounded, SweepsAreLists DEF ExpandedAsAsked
    <3> QED
      BY <1>3, <2>3, <3>1, <3>2 DEF k, m
  <2> QED
    BY <2>4
<1> QED
  BY <1>2, <1>3 DEF PrefixOfProduct

LEMMA ExpansionStarts == SweepInit => ExpandedAsAsked
  BY DEF SweepInit, ExpandedAsAsked

LEMMA ExpansionKept ==
  ASSUME ExpandedAsAsked, [SweepNext]_sweepVars
  PROVE  ExpandedAsAsked'
<1>1. sweep' = sweep
  BY DEF SweepNext, RunSweep, Resolves, Fails, Abort, sweepVars
<1>2. expanded' = expanded \/ (expanded' = ExpandVariants(Base, sweep) /\ Expands(sweep))
  BY DEF SweepNext, RunSweep, Resolves, Fails, Abort, sweepVars
<1>3. Expands(sweep') = Expands(sweep) /\ ExpandVariants(Base, sweep') = ExpandVariants(Base, sweep)
  BY <1>1
<1> QED
  BY <1>1, <1>2, <1>3 DEF ExpandedAsAsked

--------------------------------------------------------------------------------
(* The weight of a construction. What a new place for the insulation must not change is   *)
(* the thickness of each material. The proof looks at every weight of layers at once: a   *)
(* sum of numbers that the layers have each for itself.                                   *)

(* Two folds that do the same to their first n elements have the same values up to there. *)
SameSteps(n, V, op, po) == \A k \in 1..n : \A v \in V : op[k][v] = po[k][v]

LEMMA RunsAgree ==
  ASSUME NEW n \in Nat, NEW V, NEW a, NEW op, NEW it, Runs(it, n, V, a, op),
         NEW N \in Nat, n <= N, NEW po, NEW jt, Runs(jt, N, V, a, po),
         SameSteps(n, V, op, po)
  PROVE  \A k \in 0..n : it[k] = jt[k]
<1> DEFINE G == {k \in Nat : k <= n => it[k] = jt[k]}
<1>1. 0 \in G
  BY DEF Runs
<1>2. ASSUME NEW k \in G PROVE k + 1 \in G
  <2> SUFFICES ASSUME k + 1 <= n PROVE it[k + 1] = jt[k + 1]
    OBVIOUS
  <2> DEFINE i == k + 1
  <2>1. i \in 1..n /\ i \in 1..N /\ i - 1 = k /\ k \in 0..n /\ it[k] = jt[k]
    OBVIOUS
  <2> HIDE DEF i
  <2>2. it[i] = op[i][it[k]] /\ jt[i] = po[i][jt[k]] /\ it[k] \in V
    BY <2>1 DEF Runs
  <2>3. it[i] = jt[i]
    BY <2>1, <2>2 DEF SameSteps
  <2> QED
    BY <2>3 DEF i
<1>3. G = Nat
  <2>1. G \in SUBSET Nat
    OBVIOUS
  <2> HIDE DEF G
  <2> QED
    BY <1>1, <1>2, <2>1, Induct
<1>4. ASSUME NEW k \in 0..n PROVE it[k] = jt[k]
  <2>1. k \in Nat /\ k <= n
    OBVIOUS
  <2>2. k \in G
    <3> HIDE DEF G
    <3> QED
      BY <1>3, <2>1
  <2> QED
    BY <2>1, <2>2
<1> QED
  BY <1>4

(* There is a run through any sequence. *)
LEMMA RunsExist ==
  ASSUME NEW n \in Nat, NEW V, NEW a \in V, NEW op, Combines(op, 1..n, V)
  PROVE  \E it : Runs(it, n, V, a, op)
<1>1. PICK g : FromLast(g, n, V, a, op)
  BY FromTheLast
<1>2. \A s \in SUBSET (1..n) : s = {} => g[s] = a
  BY <1>1 DEF FromLast
<1>3. \A s \in SUBSET (1..n) : s # {} /\ g[s \ {Max(s)}] \in V => g[s] = op[Max(s)][g[s \ {Max(s)}]]
  BY <1>1 DEF FromLast
<1> DEFINE it == [k \in 0..n |-> g[1..k]]
<1>4. Runs(it, n, V, a, op)
  BY <1>2, <1>3, InTheirOrder
<1> QED
  BY <1>4

(* Induction over sequences. *)
LEMMA SeqInduct ==
  ASSUME NEW S, NEW P \in SUBSET Seq(S), <<>> \in P, \A c \in P : \A l \in S : Append(c, l) \in P
  PROVE  P = Seq(S)
<1> DEFINE G == {k \in Nat : \A c \in Seq(S) : Len(c) = k => c \in P}
<1>1. 0 \in G
  <2>1. ASSUME NEW c \in Seq(S), Len(c) = 0 PROVE c = <<>>
    BY <2>1, EmptySeq
  <2> QED
    BY <2>1
<1>2. ASSUME NEW k \in G PROVE k + 1 \in G
  <2> SUFFICES ASSUME NEW c \in Seq(S), Len(c) = k + 1 PROVE c \in P
    OBVIOUS
  <2>1. c # <<>>
    BY EmptySeq
  <2>2. PICK d \in Seq(S), l \in S : c = Append(d, l)
    BY <2>1, SequenceEmptyOrAppend
  <2>3. Len(d) = k
    <3>1. Len(c) = Len(d) + 1 /\ Len(d) \in Nat /\ k \in Nat
      BY <2>2, AppendProperties, LenProperties
    <3> QED
      BY <3>1
  <2>4. d \in P
    BY <2>3
  <2> QED
    BY <2>2, <2>4
<1>3. G = Nat
  <2>1. G \in SUBSET Nat
    OBVIOUS
  <2> HIDE DEF G
  <2> QED
    BY <1>1, <1>2, <2>1, Induct
<1>4. ASSUME NEW c \in Seq(S) PROVE c \in P
  <2>1. Len(c) \in Nat
    BY LenProperties
  <2>2. Len(c) \in G
    <3> HIDE DEF G
    <3> QED
      BY <1>3, <2>1
  <2> QED
    BY <2>2
<1> QED
  BY <1>4

(* The sum of a weight over the layers of a construction. *)
Plus(con, f) == [k \in 1..Len(con) |-> [v \in Nat |-> v + f[con[k]]]]
Weigh(con, f) == (CHOOSE it : Runs(it, Len(con), Nat, 0, Plus(con, f)))[Len(con)]

LEMMA WeighRuns ==
  ASSUME NEW con \in Seq(Layer), NEW f \in [Layer -> Nat]
  PROVE  \E it : Runs(it, Len(con), Nat, 0, Plus(con, f)) /\ Weigh(con, f) = it[Len(con)] /\ Weigh(con, f) \in Nat
<1> DEFINE n == Len(con)
           op == Plus(con, f)
<1>1. n \in Nat /\ \A k \in 1..n : con[k] \in Layer
  BY LenProperties, ElementOfSeq
<1>2. Combines(op, 1..n, Nat)
  BY <1>1 DEF Combines, Plus
<1>3. \E it : Runs(it, n, Nat, 0, op)
  <2> HIDE DEF op, n
  <2> QED
    BY <1>1, <1>2, RunsExist
<1> DEFINE it == CHOOSE jt : Runs(jt, n, Nat, 0, op)
<1>4. Runs(it, n, Nat, 0, op)
  BY <1>3
<1>5. Weigh(con, f) = it[n]
  BY DEF Weigh
<1>6. it[n] \in Nat
  <2> HIDE DEF it, op, n
  <2>1. it \in [0..n -> Nat] /\ n \in 0..n
    BY <1>1, <1>4 DEF Runs
  <2> QED
    BY <2>1
<1> HIDE DEF it
<1> QED
  BY <1>4, <1>5, <1>6

LEMMA WeighEmpty ==
  ASSUME NEW f \in [Layer -> Nat]
  PROVE  Weigh(<<>>, f) = 0
<1>1. <<>> \in Seq(Layer) /\ Len(<<>>) = 0
  BY EmptySeq
<1>2. PICK it : Runs(it, Len(<<>>), Nat, 0, Plus(<<>>, f)) /\ Weigh(<<>>, f) = it[Len(<<>>)]
  BY <1>1, WeighRuns
<1> QED
  BY <1>1, <1>2 DEF Runs

LEMMA WeighAppend ==
  ASSUME NEW con \in Seq(Layer), NEW l \in Layer, NEW f \in [Layer -> Nat]
  PROVE  Weigh(Append(con, l), f) = Weigh(con, f) + f[l]
<1> DEFINE n == Len(con)
           d == Append(con, l)
<1>1. /\ n \in Nat /\ n + 1 \in Nat /\ d \in Seq(Layer) /\ Len(d) = n + 1 /\ d[n + 1] = l
      /\ \A k \in 1..n : d[k] = con[k] /\ con[k] \in Layer
  BY LenProperties, ElementOfSeq, AppendProperties
<1>2. PICK it : Runs(it, n, Nat, 0, Plus(con, f)) /\ Weigh(con, f) = it[n]
  BY WeighRuns
<1> HIDE DEF d
<1>3. PICK jt : Runs(jt, n + 1, Nat, 0, Plus(d, f)) /\ Weigh(d, f) = jt[n + 1]
  BY <1>1, WeighRuns
<1> HIDE DEF n
<1>4. \A k \in 1..n : \A v \in Nat : Plus(con, f)[k][v] = Plus(d, f)[k][v]
  <2> TAKE k \in 1..n
  <2>1. k \in 1..(n + 1) /\ Len(con) = n
    BY <1>1 DEF n
  <2> QED
    BY <1>1, <2>1 DEF Plus
<1>5. it[n] = jt[n]
  <2>1. n <= n + 1 /\ n \in 0..n
    BY <1>1
  <2> DEFINE op == Plus(con, f)
             po == Plus(d, f)
  <2>2. /\ n \in Nat /\ n + 1 \in Nat /\ Runs(it, n, Nat, 0, op) /\ Runs(jt, n + 1, Nat, 0, po)
        /\ SameSteps(n, Nat, op, po)
    BY <1>1, <1>2, <1>3, <1>4 DEF SameSteps
  <2> HIDE DEF op, po
  <2>3. \A k \in 0..n : it[k] = jt[k]
    BY <2>1, <2>2, RunsAgree
  <2> QED
    BY <2>1, <2>3
<1>6. jt[n + 1] = jt[n] + f[l]
  <2> DEFINE i == n + 1
  <2>1. i \in 1..i /\ i - 1 = n /\ n \in 0..i
    BY <1>1
  <2>2. i \in 1..Len(d) /\ d[i] = l
    BY <1>1, <2>1
  <2> HIDE DEF i
  <2>3. jt \in [0..i -> Nat] /\ \A k \in 1..i : jt[k] = Plus(d, f)[k][jt[k - 1]]
    BY <1>3 DEF Runs, i
  <2>4. jt[i] = Plus(d, f)[i][jt[n]] /\ jt[n] \in Nat
    BY <2>1, <2>3
  <2>5. jt[i] = jt[n] + f[l]
    BY <2>2, <2>4 DEF Plus
  <2> QED
    BY <2>5 DEF i
<1> QED
  BY <1>2, <1>3, <1>5, <1>6 DEF d, n

LayerOf(m, t) == [material |-> m, thickness |-> t]
ThicknessOf(m) == [l \in Layer |-> IF l.material = m THEN l.thickness ELSE 0]

(* The thickness of a material in a construction is such a weight. *)
LEMMA ThicknessWeighs ==
  ASSUME NEW con \in Seq(Layer), NEW m
  PROVE  Thickness(con, m) = Weigh(con, ThicknessOf(m))
<1> DEFINE n == Len(con)
           w == ThicknessOf(m)
           op == Plus(con, w)
           Body(h) == [u \in SUBSET DOMAIN con |->
                         IF u = {} THEN 0
                         ELSE LET x == Max(u)
                              IN IF con[x].material = m THEN h[u \ {x}] + con[x].thickness ELSE h[u \ {x}]]
           it == CHOOSE h : h = Body(h)
<1>0. /\ n \in Nat /\ DOMAIN con = 1..n /\ w \in [Layer -> Nat]
      /\ \A k \in 1..n : con[k] \in Layer /\ con[k].thickness \in Nat
  <2>1. n \in Nat /\ DOMAIN con = 1..n
    BY LenProperties
  <2>2. ASSUME NEW k \in 1..n PROVE con[k] \in Layer
    BY ElementOfSeq
  <2>3. \A l \in Layer : l.thickness \in Nat
    BY DEF Layer
  <2>4. w \in [Layer -> Nat]
    BY <2>3 DEF ThicknessOf
  <2> QED
    BY <2>1, <2>2, <2>3, <2>4
<1>1. Thickness(con, m) = it[DOMAIN con]
  BY DEF Thickness, FoldLeft, MapThenFoldSet
<1>2. Combines(op, 1..n, Nat) /\ 0 \in Nat
  <2> HIDE DEF w
  <2> QED
    BY <1>0 DEF Combines, Plus
<1>3. PICK g : /\ g \in [SUBSET (1..n) -> Nat]
               /\ \A u \in SUBSET (1..n) : g[u] = IF u = {} THEN 0 ELSE op[Max(u)][g[u \ {Max(u)}]]
  <2> HIDE DEF op, n
  <2>1. \E g : FromLast(g, n, Nat, 0, op)
    BY <1>0, <1>2, FromTheLast
  <2> QED
    BY <2>1 DEF FromLast
<1>4. ASSUME NEW k \in 1..n, NEW v \in Nat
      PROVE  op[k][v] = IF con[k].material = m THEN v + con[k].thickness ELSE v
  <2>1. w[con[k]] = IF con[k].material = m THEN con[k].thickness ELSE 0
    BY <1>0 DEF ThicknessOf
  <2> HIDE DEF w
  <2>2. op[k][v] = v + w[con[k]]
    BY DEF Plus
  <2> QED
    BY <2>1, <2>2
<1>5. ASSUME NEW u \in SUBSET (1..n), u # {} PROVE Max(u) \in 1..n
  BY <1>0, <1>5, MaxOf
<1>6. g = Body(g)
  <2>1. ASSUME NEW u \in SUBSET (1..n)
        PROVE  g[u] = IF u = {} THEN 0
                      ELSE LET x == Max(u)
                           IN IF con[x].material = m THEN g[u \ {x}] + con[x].thickness ELSE g[u \ {x}]
    <3>1. CASE u = {}
      BY <1>3, <3>1
    <3>2. CASE u # {}
      <4>1. Max(u) \in 1..n /\ g[u \ {Max(u)}] \in Nat
        BY <1>3, <1>5, <3>2
      <4> HIDE DEF op, n
      <4> QED
        BY <1>3, <1>4, <3>2, <4>1
    <3> QED
      BY <3>1, <3>2
  <2> QED
    BY <1>0, <1>3, <2>1
<1>7. it = Body(it)
  BY <1>6
<1> HIDE DEF it
<1>8. \A u \in SUBSET (1..n) : u = {} => it[u] = 0
  BY <1>0, <1>7
<1>9. \A u \in SUBSET (1..n) : u # {} /\ it[u \ {Max(u)}] \in Nat => it[u] = op[Max(u)][it[u \ {Max(u)}]]
  <2> SUFFICES ASSUME NEW u \in SUBSET (1..n), u # {}, it[u \ {Max(u)}] \in Nat
               PROVE  it[u] = op[Max(u)][it[u \ {Max(u)}]]
    OBVIOUS
  <2>1. it[u] = IF con[Max(u)].material = m THEN it[u \ {Max(u)}] + con[Max(u)].thickness ELSE it[u \ {Max(u)}]
    BY <1>0, <1>7
  <2>2. Max(u) \in 1..n
    BY <1>5
  <2> HIDE DEF op, n
  <2> QED
    BY <1>4, <2>1, <2>2
<1> DEFINE runs == [k \in 0..n |-> it[1..k]]
<1>10. Runs(runs, n, Nat, 0, op)
  <2> HIDE DEF op, n
  <2> QED
    BY <1>0, <1>2, <1>8, <1>9, InTheirOrder
<1>11. runs[n] = it[1..n]
  BY <1>0
<1>12. PICK jt : Runs(jt, n, Nat, 0, op) /\ Weigh(con, w) = jt[n]
  <2> HIDE DEF w
  <2> QED
    BY <1>0, WeighRuns
<1>13. runs[n] = jt[n]
  <2> HIDE DEF op, runs, n
  <2>1. SameSteps(n, Nat, op, op)
    BY DEF SameSteps
  <2>2. \A k \in 0..n : runs[k] = jt[k]
    BY <1>0, <1>10, <1>12, <2>1, RunsAgree
  <2> QED
    BY <1>0, <2>2
<1> QED
  BY <1>0, <1>1, <1>11, <1>12, <1>13

(* What Of() folds with. *)
Keeping(con, A) ==
  [k \in 1..Len(con) |-> [v \in Seq(Layer) |-> IF con[k].material \in A THEN Append(v, con[k]) ELSE v]]

LEMMA OfRuns ==
  ASSUME NEW con \in Seq(Layer), NEW A
  PROVE  \E it : Runs(it, Len(con), Seq(Layer), <<>>, Keeping(con, A)) /\ Of(con, A) = it[Len(con)]
<1> DEFINE n == Len(con)
           V == Seq(Layer)
           op == Keeping(con, A)
           Body(h) == [u \in SUBSET DOMAIN con |->
                         IF u = {} THEN <<>>
                         ELSE LET x == Max(u)
                              IN IF con[x].material \in A THEN Append(h[u \ {x}], con[x]) ELSE h[u \ {x}]]
           it == CHOOSE h : h = Body(h)
<1>0. n \in Nat /\ DOMAIN con = 1..n /\ \A k \in 1..n : con[k] \in Layer
  <2>1. n \in Nat /\ DOMAIN con = 1..n
    BY LenProperties
  <2>2. ASSUME NEW k \in 1..n PROVE con[k] \in Layer
    BY ElementOfSeq
  <2> QED
    BY <2>1, <2>2
<1>1. Of(con, A) = it[DOMAIN con]
  BY DEF Of, FoldLeft, MapThenFoldSet
<1>2. Combines(op, 1..n, V) /\ <<>> \in V
  <2>1. ASSUME NEW k \in 1..n, NEW v \in V PROVE op[k][v] \in V
    <3>1. op[k][v] = IF con[k].material \in A THEN Append(v, con[k]) ELSE v
      BY DEF Keeping
    <3>2. Append(v, con[k]) \in V
      BY <1>0, AppendProperties
    <3> HIDE DEF op, V
    <3> QED
      BY <3>1, <3>2
  <2>2. <<>> \in V
    BY EmptySeq
  <2> HIDE DEF op, V
  <2> QED
    BY <2>1, <2>2 DEF Combines
<1>4. ASSUME NEW k \in 1..n, NEW v \in V
      PROVE  op[k][v] = IF con[k].material \in A THEN Append(v, con[k]) ELSE v
  BY DEF Keeping
<1> HIDE DEF V
<1>3. PICK g : /\ g \in [SUBSET (1..n) -> V]
               /\ \A u \in SUBSET (1..n) : g[u] = IF u = {} THEN <<>> ELSE op[Max(u)][g[u \ {Max(u)}]]
  <2> HIDE DEF op, n
  <2>1. \E g : FromLast(g, n, V, <<>>, op)
    BY <1>0, <1>2, FromTheLast
  <2> QED
    BY <2>1 DEF FromLast
<1>5. ASSUME NEW u \in SUBSET (1..n), u # {} PROVE Max(u) \in 1..n
  BY <1>0, <1>5, MaxOf
<1>6. g = Body(g)
  <2>1. ASSUME NEW u \in SUBSET (1..n)
        PROVE  g[u] = IF u = {} THEN <<>>
                      ELSE LET x == Max(u)
                           IN IF con[x].material \in A THEN Append(g[u \ {x}], con[x]) ELSE g[u \ {x}]
    <3>1. CASE u = {}
      BY <1>3, <3>1
    <3>2. CASE u # {}
      <4>1. Max(u) \in 1..n /\ g[u \ {Max(u)}] \in V
        BY <1>3, <1>5, <3>2
      <4> HIDE DEF op, n
      <4> QED
        BY <1>3, <1>4, <3>2, <4>1
    <3> QED
      BY <3>1, <3>2
  <2> QED
    BY <1>0, <1>3, <2>1
<1>7. it = Body(it)
  BY <1>6
<1> HIDE DEF it
<1>8. \A u \in SUBSET (1..n) : u = {} => it[u] = <<>>
  BY <1>0, <1>7
<1>9. \A u \in SUBSET (1..n) : u # {} /\ it[u \ {Max(u)}] \in V => it[u] = op[Max(u)][it[u \ {Max(u)}]]
  <2> SUFFICES ASSUME NEW u \in SUBSET (1..n), u # {}, it[u \ {Max(u)}] \in V
               PROVE  it[u] = op[Max(u)][it[u \ {Max(u)}]]
    OBVIOUS
  <2>1. it[u] = IF con[Max(u)].material \in A THEN Append(it[u \ {Max(u)}], con[Max(u)]) ELSE it[u \ {Max(u)}]
    BY <1>0, <1>7
  <2>2. Max(u) \in 1..n
    BY <1>5
  <2> HIDE DEF op, n
  <2> QED
    BY <1>4, <2>1, <2>2
<1> DEFINE runs == [k \in 0..n |-> it[1..k]]
<1>10. Runs(runs, n, V, <<>>, op)
  <2> HIDE DEF op, n
  <2> QED
    BY <1>0, <1>2, <1>8, <1>9, InTheirOrder
<1>11. runs[n] = it[1..n]
  BY <1>0
<1>12. Runs(runs, Len(con), Seq(Layer), <<>>, Keeping(con, A)) /\ Of(con, A) = runs[Len(con)]
  BY <1>0, <1>1, <1>10, <1>11 DEF V
<1> QED
  BY <1>12

LEMMA OfEmpty ==
  ASSUME NEW A
  PROVE  Of(<<>>, A) = <<>>
<1>1. <<>> \in Seq(Layer) /\ Len(<<>>) = 0
  BY EmptySeq
<1>2. PICK it : Runs(it, Len(<<>>), Seq(Layer), <<>>, Keeping(<<>>, A)) /\ Of(<<>>, A) = it[Len(<<>>)]
  BY <1>1, OfRuns
<1> QED
  BY <1>1, <1>2 DEF Runs

LEMMA OfAppend ==
  ASSUME NEW con \in Seq(Layer), NEW l \in Layer, NEW A
  PROVE  /\ Of(con, A) \in Seq(Layer)
         /\ Of(Append(con, l), A) = IF l.material \in A THEN Append(Of(con, A), l) ELSE Of(con, A)
<1> DEFINE n == Len(con)
           d == Append(con, l)
           V == Seq(Layer)
<1>1. /\ n \in Nat /\ n + 1 \in Nat /\ d \in Seq(Layer) /\ Len(d) = n + 1 /\ d[n + 1] = l
      /\ \A k \in 1..n : d[k] = con[k]
  BY LenProperties, AppendProperties
<1>2. PICK it : Runs(it, n, V, <<>>, Keeping(con, A)) /\ Of(con, A) = it[n]
  BY OfRuns
<1> HIDE DEF d
<1>3. PICK jt : Runs(jt, n + 1, V, <<>>, Keeping(d, A)) /\ Of(d, A) = jt[n + 1]
  BY <1>1, OfRuns
<1>4. \A k \in 1..n : \A v \in V : Keeping(con, A)[k][v] = Keeping(d, A)[k][v]
  <2> TAKE k \in 1..n
  <2>1. k \in 1..(n + 1)
    BY <1>1
  <2> HIDE DEF V
  <2> QED
    BY <1>1, <2>1 DEF Keeping, V
<1> HIDE DEF n
<1>5. it[n] = jt[n]
  <2>1. n <= n + 1 /\ n \in 0..n
    BY <1>1
  <2> HIDE DEF V
  <2> DEFINE op == Keeping(con, A)
             po == Keeping(d, A)
  <2>2. /\ n \in Nat /\ n + 1 \in Nat /\ Runs(it, n, V, <<>>, op) /\ Runs(jt, n + 1, V, <<>>, po)
        /\ SameSteps(n, V, op, po)
    BY <1>1, <1>2, <1>3, <1>4 DEF SameSteps
  <2> HIDE DEF op, po
  <2>3. \A k \in 0..n : it[k] = jt[k]
    BY <2>1, <2>2, RunsAgree
  <2> QED
    BY <2>1, <2>3
<1>6. jt[n] \in V /\ jt[n + 1] = IF l.material \in A THEN Append(jt[n], l) ELSE jt[n]
  <2> DEFINE i == n + 1
  <2>1. i \in 1..i /\ i - 1 = n /\ n \in 0..i
    BY <1>1
  <2>2. i \in 1..Len(d) /\ d[i] = l
    BY <1>1, <2>1
  <2> HIDE DEF i, V
  <2>3. jt \in [0..i -> V] /\ \A k \in 1..i : jt[k] = Keeping(d, A)[k][jt[k - 1]]
    BY <1>3 DEF Runs, i
  <2>4. jt[i] = Keeping(d, A)[i][jt[n]] /\ jt[n] \in V
    BY <2>1, <2>3
  <2>5. jt[i] = IF l.material \in A THEN Append(jt[n], l) ELSE jt[n]
    BY <2>2, <2>4 DEF Keeping, V
  <2> QED
    BY <2>4, <2>5 DEF i
<1> QED
  BY <1>2, <1>3, <1>5, <1>6 DEF d, n

(* The weight of two parts is the sum of theirs. *)
LEMMA WeighConcat ==
  ASSUME NEW c \in Seq(Layer), NEW d \in Seq(Layer), NEW f \in [Layer -> Nat]
  PROVE  Weigh(c \o d, f) = Weigh(c, f) + Weigh(d, f)
<1> DEFINE P == {e \in Seq(Layer) : Weigh(c \o e, f) = Weigh(c, f) + Weigh(e, f)}
<1>0. \A e \in Seq(Layer) : Weigh(e, f) \in Nat
  BY WeighRuns
<1>1. <<>> \in P
  <2>1. c \o <<>> = c /\ <<>> \in Seq(Layer) /\ Weigh(<<>>, f) = 0
    BY ConcatEmptySeq, EmptySeq, WeighEmpty
  <2>2. Weigh(c \o <<>>, f) = Weigh(c, f) + 0
    BY <1>0, <2>1
  <2> QED
    BY <2>1, <2>2
<1>2. ASSUME NEW e \in P, NEW l \in Layer PROVE Append(e, l) \in P
  <2>1. e \in Seq(Layer) /\ <<l>> \in Seq(Layer) /\ Weigh(c \o e, f) = Weigh(c, f) + Weigh(e, f)
    OBVIOUS
  <2>2. c \o e \in Seq(Layer) /\ Append(e, l) \in Seq(Layer)
    BY <2>1, ConcatProperties, AppendProperties
  <2>3. c \o Append(e, l) = Append(c \o e, l)
    <3>1. Append(e, l) = e \o <<l>> /\ Append(c \o e, l) = (c \o e) \o <<l>>
      BY <2>1, <2>2, AppendIsConcat
    <3>2. (c \o e) \o <<l>> = c \o (e \o <<l>>)
      BY <2>1, ConcatAssociative
    <3> QED
      BY <3>1, <3>2
  <2>4. Weigh(Append(c \o e, l), f) = Weigh(c \o e, f) + f[l] /\ Weigh(Append(e, l), f) = Weigh(e, f) + f[l]
    BY <2>1, <2>2, WeighAppend
  <2> DEFINE x == Weigh(c, f)
             y == Weigh(e, f)
             z == f[l]
  <2>5. x \in Nat /\ y \in Nat /\ z \in Nat
    BY <1>0, <2>1
  <2>6. Weigh(c \o Append(e, l), f) = (x + y) + z /\ Weigh(Append(e, l), f) = y + z
    BY <2>1, <2>3, <2>4
  <2> HIDE DEF x, y, z
  <2>7. (x + y) + z = x + (y + z)
    BY <2>5
  <2>8. Weigh(c \o Append(e, l), f) = x + Weigh(Append(e, l), f)
    BY <2>6, <2>7
  <2> QED
    BY <2>2, <2>8 DEF x
<1>3. P = Seq(Layer)
  <2>1. P \in SUBSET Seq(Layer)
    OBVIOUS
  <2> HIDE DEF P
  <2> QED
    BY <1>1, <1>2, <2>1, SeqInduct
<1>4. d \in P
  <2> HIDE DEF P
  <2> QED
    BY <1>3
<1> QED
  BY <1>4

(* A construction with something done to each of its layers. *)
Mapped(con, op) == [i \in DOMAIN con |-> op[con[i]]]

LEMMA MappedType ==
  ASSUME NEW c \in Seq(Layer), NEW op \in [Layer -> Layer]
  PROVE  Mapped(c, op) \in Seq(Layer) /\ Len(Mapped(c, op)) = Len(c)
<1>1. Len(c) \in Nat /\ DOMAIN c = 1..Len(c)
  BY LenProperties
<1>2. \A i \in 1..Len(c) : c[i] \in Layer
  BY ElementOfSeq
<1>3. Mapped(c, op) = [i \in 1..Len(c) |-> op[c[i]]]
  BY <1>1 DEF Mapped
<1>4. [i \in 1..Len(c) |-> op[c[i]]] \in [1..Len(c) -> Layer]
  BY <1>2
<1> QED
  BY <1>1, <1>3, <1>4

(* Weighing what became of each layer is weighing the layers by what becomes of them. *)
LEMMA WeighMapped ==
  ASSUME NEW c \in Seq(Layer), NEW op \in [Layer -> Layer], NEW f \in [Layer -> Nat],
         NEW g \in [Layer -> Nat], \A l \in Layer : g[l] = f[op[l]]
  PROVE  Weigh(Mapped(c, op), f) = Weigh(c, g)
<1> DEFINE P == {e \in Seq(Layer) : Weigh(Mapped(e, op), f) = Weigh(e, g)}
<1>1. <<>> \in P
  <2>1. <<>> \in Seq(Layer) /\ Len(<<>>) = 0
    BY EmptySeq
  <2>2. Mapped(<<>>, op) = <<>>
    BY <2>1, MappedType, EmptySeq
  <2>3. Weigh(<<>>, f) = 0 /\ Weigh(<<>>, g) = 0
    BY WeighEmpty
  <2> QED
    BY <2>1, <2>2, <2>3
<1>2. ASSUME NEW e \in P, NEW l \in Layer PROVE Append(e, l) \in P
  <2>1. e \in Seq(Layer) /\ op[l] \in Layer
    OBVIOUS
  <2>2. /\ Mapped(e, op) \in Seq(Layer) /\ Append(e, l) \in Seq(Layer)
        /\ Len(Mapped(e, op)) = Len(e) /\ Len(Append(e, l)) = Len(e) + 1 /\ Len(e) \in Nat
        /\ \A i \in 1..Len(e) : Append(e, l)[i] = e[i]
        /\ Append(e, l)[Len(e) + 1] = l
    <3>1. Mapped(e, op) \in Seq(Layer) /\ Len(Mapped(e, op)) = Len(e)
      BY <2>1, MappedType
    <3>2. Len(e) \in Nat
      BY <2>1, LenProperties
    <3>3. /\ Append(e, l) \in Seq(Layer) /\ Len(Append(e, l)) = Len(e) + 1
          /\ \A i \in 1..Len(e) : Append(e, l)[i] = e[i]
          /\ Append(e, l)[Len(e) + 1] = l
      BY <2>1, AppendProperties
    <3> QED
      BY <3>1, <3>2, <3>3
  <2> HIDE DEF P
  <2>3. Mapped(Append(e, l), op) = Append(Mapped(e, op), op[l])
    <3> DEFINE n == Len(e)
               s == Mapped(Append(e, l), op)
               t == Append(Mapped(e, op), op[l])
               b == Mapped(e, op)
               a == Append(e, l)
    <3>1. s \in Seq(Layer) /\ Len(s) = n + 1
      BY <2>2, MappedType
    <3>2. t \in Seq(Layer) /\ Len(t) = n + 1 /\ t[n + 1] = op[l] /\ \A i \in 1..n : t[i] = b[i]
      BY <2>1, <2>2, AppendProperties
    <3>3. \A i \in 1..n : b[i] = op[e[i]]
      BY <2>1, <2>2, LenProperties DEF Mapped
    <3>4. \A i \in 1..(n + 1) : s[i] = op[a[i]]
      BY <2>1, <2>2, LenProperties DEF Mapped
    <3>5. \A i \in 1..n : a[i] = e[i]
      BY <2>2
    <3>6. a[n + 1] = l /\ n \in Nat
      BY <2>2
    <3> HIDE DEF n, s, t, a, b
    <3>7. \A i \in 1..(n + 1) : s[i] = t[i]
      <4> TAKE i \in 1..(n + 1)
      <4>1. CASE i = n + 1
        BY <3>2, <3>4, <3>6, <4>1
      <4>2. CASE i # n + 1
        <5>1. i \in 1..n
          BY <3>6, <4>2
        <5>2. t[i] = op[e[i]]
          BY <3>2, <3>3, <5>1
        <5>3. s[i] = op[a[i]] /\ a[i] = e[i]
          BY <3>4, <3>5, <5>1
        <5> QED
          BY <5>2, <5>3
      <4> QED
        BY <4>1, <4>2
    <3>8. s = t
      BY <3>1, <3>2, <3>7, SeqEqual
    <3> QED
      BY <3>8 DEF s, t, b
  <2>4. Weigh(Append(Mapped(e, op), op[l]), f) = Weigh(Mapped(e, op), f) + f[op[l]]
    BY <2>1, <2>2, WeighAppend
  <2>5. Weigh(Append(e, l), g) = Weigh(e, g) + g[l]
    BY <2>1, WeighAppend
  <2>6. Weigh(Mapped(e, op), f) = Weigh(e, g)
    BY DEF P
  <2>7. Weigh(Mapped(Append(e, l), op), f) = Weigh(Append(e, l), g)
    BY <2>3, <2>4, <2>5, <2>6
  <2> QED
    BY <2>2, <2>7 DEF P
<1>3. P = Seq(Layer)
  <2>1. P \in SUBSET Seq(Layer)
    OBVIOUS
  <2> HIDE DEF P
  <2> QED
    BY <1>1, <1>2, <2>1, SeqInduct
<1>4. c \in P
  <2> HIDE DEF P
  <2> QED
    BY <1>3
<1> QED
  BY <1>4

(* Taking the layers of some materials apart from the others loses none of them. *)
LEMMA OfSplits ==
  ASSUME NEW c \in Seq(Layer), NEW A, NEW f \in [Layer -> Nat]
  PROVE  Weigh(Of(c, A), f) + Weigh(Of(c, Material \ A), f) = Weigh(c, f)
<1> DEFINE P == {e \in Seq(Layer) : Weigh(Of(e, A), f) + Weigh(Of(e, Material \ A), f) = Weigh(e, f)}
<1>1. <<>> \in P
  BY OfEmpty, WeighEmpty, EmptySeq
<1>2. ASSUME NEW e \in P, NEW l \in Layer PROVE Append(e, l) \in P
  <2> DEFINE p == Of(e, A)
             q == Of(e, Material \ A)
  <2>1. e \in Seq(Layer) /\ p \in Seq(Layer) /\ q \in Seq(Layer) /\ Append(e, l) \in Seq(Layer)
    BY OfAppend, AppendProperties
  <2>2. l.material \in Material
    BY DEF Layer
  <2>3. /\ Of(Append(e, l), A) = IF l.material \in A THEN Append(p, l) ELSE p
        /\ Of(Append(e, l), Material \ A) = IF l.material \in Material \ A THEN Append(q, l) ELSE q
    BY <2>1, OfAppend
  <2>4. Weigh(p, f) \in Nat /\ Weigh(q, f) \in Nat /\ f[l] \in Nat
    BY <2>1, WeighRuns
  <2>5. Weigh(Append(e, l), f) = Weigh(e, f) + f[l]
    BY <2>1, WeighAppend
  <2>6. Weigh(Append(p, l), f) = Weigh(p, f) + f[l] /\ Weigh(Append(q, l), f) = Weigh(q, f) + f[l]
    BY <2>1, WeighAppend
  <2>7. Weigh(e, f) = Weigh(p, f) + Weigh(q, f)
    OBVIOUS
  <2> HIDE DEF p, q
  <2>8. Weigh(Of(Append(e, l), A), f) + Weigh(Of(Append(e, l), Material \ A), f) = Weigh(Append(e, l), f)
    <3> DEFINE x == Weigh(p, f)
               y == Weigh(q, f)
               z == f[l]
    <3>0. x \in Nat /\ y \in Nat /\ z \in Nat /\ Weigh(Append(e, l), f) = (x + y) + z
      BY <2>4, <2>5, <2>7
    <3>1. CASE l.material \in A
      <4>1. Weigh(Of(Append(e, l), A), f) = x + z /\ Weigh(Of(Append(e, l), Material \ A), f) = y
        BY <2>3, <2>6, <3>1
      <4> HIDE DEF x, y, z
      <4> QED
        BY <3>0, <4>1
    <3>2. CASE l.material \notin A
      <4>1. Weigh(Of(Append(e, l), A), f) = x /\ Weigh(Of(Append(e, l), Material \ A), f) = y + z
        BY <2>2, <2>3, <2>6, <3>2
      <4> HIDE DEF x, y, z
      <4> QED
        BY <3>0, <4>1
    <3> QED
      BY <3>1, <3>2
  <2> QED
    BY <2>1, <2>8
<1>3. P = Seq(Layer)
  <2>1. P \in SUBSET Seq(Layer)
    OBVIOUS
  <2> HIDE DEF P
  <2> QED
    BY <1>1, <1>2, <2>1, SeqInduct
<1>4. c \in P
  <2> HIDE DEF P
  <2> QED
    BY <1>3
<1> QED
  BY <1>4

(* The layers that are no insulation: how many, and how thick. A weight is fair if a      *)
(* layer of twice the thickness weighs twice as much, so that the halves of a layer weigh *)
(* what it did. A construction is even if its one layer of mass, when there is only one,  *)
(* can be halved without a rest.                                                          *)
Mass == {l \in Layer : l.material \notin Insulation}
One  == [l \in Layer |-> IF l \in Mass THEN 1 ELSE 0]
Bulk == [l \in Layer |-> IF l \in Mass THEN l.thickness ELSE 0]
Fair == {f \in [Layer -> Nat] :
           \A l, h \in Mass : l.material = h.material /\ l.thickness = 2 * h.thickness => f[l] = 2 * f[h]}
Even(con) == Weigh(con, One) = 1 => Weigh(con, Bulk) % 2 = 0

LEMMA WeightTypes == One \in [Layer -> Nat] /\ Bulk \in [Layer -> Nat] /\ Mass \in SUBSET Layer
<1>1. \A l \in Layer : l.thickness \in Nat
  BY DEF Layer
<1> QED
  BY <1>1 DEF One, Bulk, Mass

LEMMA WeighSingle ==
  ASSUME NEW l \in Layer, NEW f \in [Layer -> Nat]
  PROVE  <<l>> \in Seq(Layer) /\ Weigh(<<l>>, f) = f[l]
<1>1. <<>> \in Seq(Layer)
  BY EmptySeq
<1>2. Append(<<>>, l) = <<>> \o <<l>> /\ <<l>> \in Seq(Layer)
  BY <1>1, AppendIsConcat
<1>3. Append(<<>>, l) = <<l>>
  BY <1>2, ConcatEmptySeq
<1>4. Weigh(Append(<<>>, l), f) = Weigh(<<>>, f) + f[l] /\ Weigh(<<>>, f) = 0 /\ f[l] \in Nat
  BY <1>1, WeighAppend, WeighEmpty
<1> QED
  BY <1>2, <1>3, <1>4

(* What is taken apart from the insulation is mass, each layer counted once. *)
LEMMA RestIsMass ==
  ASSUME NEW c \in Seq(Layer)
  PROVE  LET ins  == Of(c, Insulation)
             rest == Of(c, Material \ Insulation)
         IN /\ ins \in Seq(Layer) /\ rest \in Seq(Mass) /\ rest \in Seq(Layer)
            /\ Weigh(c, One) = Len(rest) /\ Weigh(c, Bulk) = Weigh(rest, Bulk)
<1> DEFINE A == Insulation
           B == Material \ Insulation
           P == {e \in Seq(Layer) : /\ Of(e, B) \in Seq(Mass)
                                    /\ Weigh(Of(e, A), One) = 0 /\ Weigh(Of(e, A), Bulk) = 0
                                    /\ Weigh(Of(e, B), One) = Len(Of(e, B))}
<1>0. One \in [Layer -> Nat] /\ Bulk \in [Layer -> Nat] /\ Mass \in SUBSET Layer
  BY WeightTypes
<1>1. <<>> \in P
  <2>1. <<>> \in Seq(Layer) /\ <<>> \in Seq(Mass) /\ Len(<<>>) = 0
    BY EmptySeq
  <2>2. Of(<<>>, A) = <<>> /\ Of(<<>>, B) = <<>>
    BY OfEmpty
  <2>3. Weigh(<<>>, One) = 0 /\ Weigh(<<>>, Bulk) = 0
    BY <1>0, WeighEmpty
  <2> QED
    BY <2>1, <2>2, <2>3
<1>2. ASSUME NEW e \in P, NEW l \in Layer PROVE Append(e, l) \in P
  <2> DEFINE p == Of(e, A)
             q == Of(e, B)
  <2>1. /\ e \in Seq(Layer) /\ q \in Seq(Mass) /\ Weigh(p, One) = 0 /\ Weigh(p, Bulk) = 0
        /\ Weigh(q, One) = Len(q)
    OBVIOUS
  <2> HIDE DEF P
  <2>2. p \in Seq(Layer) /\ q \in Seq(Layer) /\ Append(e, l) \in Seq(Layer)
    BY <2>1, OfAppend, AppendProperties
  <2>3. /\ Of(Append(e, l), A) = IF l.material \in A THEN Append(p, l) ELSE p
        /\ Of(Append(e, l), B) = IF l.material \in B THEN Append(q, l) ELSE q
    BY <2>1, OfAppend
  <2>4. l.material \in Material
    BY DEF Layer
  <2>5. CASE l.material \in A
    <3>1. Of(Append(e, l), A) = Append(p, l) /\ Of(Append(e, l), B) = q
      BY <2>3, <2>5
    <3>2. l \notin Mass
      BY <2>5 DEF Mass
    <3>3. One[l] = 0 /\ Bulk[l] = 0
      BY <3>2 DEF One, Bulk
    <3>4. Weigh(Append(p, l), One) = Weigh(p, One) + One[l] /\ Weigh(Append(p, l), Bulk) = Weigh(p, Bulk) + Bulk[l]
      BY <1>0, <2>2, WeighAppend
    <3>5. Weigh(Append(p, l), One) = 0 /\ Weigh(Append(p, l), Bulk) = 0
      BY <2>1, <3>3, <3>4
    <3> HIDE DEF p, q, A, B
    <3> QED
      BY <2>1, <2>2, <3>1, <3>5 DEF P, q
  <2>6. CASE l.material \notin A
    <3>1. Of(Append(e, l), A) = p /\ Of(Append(e, l), B) = Append(q, l)
      BY <2>3, <2>4, <2>6
    <3>2. l \in Mass
      BY <2>6 DEF Mass
    <3>3. One[l] = 1
      BY <3>2 DEF One
    <3>4. Weigh(Append(q, l), One) = Weigh(q, One) + One[l]
      BY <1>0, <2>2, WeighAppend
    <3>5. Append(q, l) \in Seq(Mass) /\ Len(Append(q, l)) = Len(q) + 1
      BY <2>1, <3>2, AppendProperties
    <3>6. Weigh(Append(q, l), One) = Len(Append(q, l))
      BY <2>1, <3>3, <3>4, <3>5
    <3> HIDE DEF q, A, B
    <3> QED
      BY <2>1, <2>2, <3>1, <3>5, <3>6 DEF P
  <2> QED
    BY <2>5, <2>6
<1>3. P = Seq(Layer)
  <2>1. P \in SUBSET Seq(Layer)
    OBVIOUS
  <2> HIDE DEF P
  <2> QED
    BY <1>1, <1>2, <2>1, SeqInduct
<1>4. c \in P
  <2> HIDE DEF P
  <2> QED
    BY <1>3
<1> DEFINE ins == Of(c, A)
           rest == Of(c, B)
<1>5. rest \in Seq(Mass) /\ Weigh(ins, One) = 0 /\ Weigh(ins, Bulk) = 0 /\ Weigh(rest, One) = Len(rest)
  BY <1>4
<1>6. ins \in Seq(Layer) /\ rest \in Seq(Layer)
  <2>1. <<>> \in Seq(Layer)
    BY EmptySeq
  <2>2. \A M : Of(c, M) \in Seq(Layer)
    <3> TAKE M
    <3>1. PICK it : Runs(it, Len(c), Seq(Layer), <<>>, Keeping(c, M)) /\ Of(c, M) = it[Len(c)]
      BY OfRuns
    <3>2. it \in [0..Len(c) -> Seq(Layer)] /\ Len(c) \in 0..Len(c)
      BY <3>1, LenProperties DEF Runs
    <3> QED
      BY <3>1, <3>2
  <2> QED
    BY <2>2
<1>7. Weigh(c, One) = Weigh(rest, One) /\ Weigh(c, Bulk) = Weigh(rest, Bulk)
  <2>1. Weigh(ins, One) + Weigh(rest, One) = Weigh(c, One) /\ Weigh(ins, Bulk) + Weigh(rest, Bulk) = Weigh(c, Bulk)
    BY <1>0, OfSplits
  <2>2. Weigh(rest, One) \in Nat /\ Weigh(rest, Bulk) \in Nat
    BY <1>0, <1>6, WeighRuns
  <2> HIDE DEF ins, rest
  <2> QED
    BY <1>5, <2>1, <2>2
<1> QED
  BY <1>5, <1>6, <1>7

(* The halves of a layer of mass weigh what it did. *)
LEMMA HalvesWeigh ==
  ASSUME NEW x \in Mass, x.thickness % 2 = 0
  PROVE  /\ Halves(x) \in Seq(Layer) /\ Weigh(Halves(x), One) = 2
         /\ \A f \in Fair : Weigh(Halves(x), f) = f[x]
<1> DEFINE h == [x EXCEPT !.thickness = @ \div 2]
<1>1. x \in Layer /\ x.thickness \in Nat /\ x.material \in Material
  BY DEF Mass, Layer
<1>2. h.material = x.material /\ h.thickness = x.thickness \div 2 /\ h = [material |-> x.material, thickness |-> x.thickness \div 2]
  BY <1>1 DEF Layer
<1>3. x.thickness \div 2 \in Nat /\ x.thickness = 2 * (x.thickness \div 2)
  BY <1>1
<1>4. h \in Mass
  BY <1>1, <1>2, <1>3 DEF Mass, Layer
<1>5. Halves(x) = <<h>> \o <<h>>
  <2>1. Halves(x) = <<h, h>>
    BY DEF Halves
  <2> HIDE DEF h
  <2> QED
    BY <2>1
<1> HIDE DEF h
<1>6. h \in Layer
  BY <1>4 DEF Mass
<1>7. \A f \in [Layer -> Nat] : Weigh(Halves(x), f) = f[h] + f[h]
  <2> TAKE f \in [Layer -> Nat]
  <2>1. <<h>> \in Seq(Layer) /\ Weigh(<<h>>, f) = f[h]
    BY <1>6, WeighSingle
  <2>2. Weigh(<<h>> \o <<h>>, f) = Weigh(<<h>>, f) + Weigh(<<h>>, f)
    BY <2>1, WeighConcat
  <2> QED
    BY <1>5, <2>1, <2>2
<1>8. Halves(x) \in Seq(Layer)
  BY <1>5, <1>6, WeighSingle, ConcatProperties, WeightTypes
<1>9. Weigh(Halves(x), One) = 2
  <2>1. One[h] = 1
    BY <1>4, <1>6 DEF One
  <2> QED
    BY <1>7, <2>1, WeightTypes
<1>10. ASSUME NEW f \in Fair PROVE Weigh(Halves(x), f) = f[x]
  <2>1. f \in [Layer -> Nat] /\ f[x] = 2 * f[h]
    BY <1>2, <1>3, <1>4 DEF Fair
  <2>2. f[h] \in Nat
    BY <1>6, <2>1
  <2> QED
    BY <1>7, <2>1, <2>2
<1> QED
  BY <1>8, <1>9, <1>10

(* So do the leaves of what is taken apart from the insulation. *)
LEMMA LeavesWeigh ==
  ASSUME NEW rest \in Seq(Mass), Len(rest) = 1 => Weigh(rest, Bulk) % 2 = 0
  PROVE  /\ Leaves(rest) \in Seq(Layer) /\ \A f \in Fair : Weigh(Leaves(rest), f) = Weigh(rest, f)
         /\ IF Len(rest) = 1 THEN Weigh(Leaves(rest), One) = 2 ELSE Leaves(rest) = rest
<1>0. rest \in Seq(Layer)
  BY WeightTypes, SeqMonotonic
<1>1. CASE Len(rest) = 1
  <2> DEFINE x == rest[1]
  <2>1. x \in Mass /\ x \in Layer
    BY <1>1, ElementOfSeq, WeightTypes
  <2>2. rest = <<x>>
    <3>1. <<x>> \in Seq(Mass) /\ Len(<<x>>) = 1 /\ <<x>>[1] = x
      BY <2>1
    <3> QED
      BY <1>1, <3>1, SeqEqual
  <2>3. Leaves(rest) = Halves(x)
    BY <1>1 DEF Leaves
  <2> HIDE DEF x
  <2>4. \A f \in [Layer -> Nat] : Weigh(rest, f) = f[x]
    BY <2>1, <2>2, WeighSingle
  <2>5. Bulk[x] = x.thickness
    BY <2>1 DEF Bulk
  <2>6. x.thickness % 2 = 0
    BY <1>1, <2>4, <2>5, WeightTypes
  <2>7. \A f \in Fair : f \in [Layer -> Nat]
    BY DEF Fair
  <2> QED
    BY <1>1, <2>1, <2>3, <2>4, <2>6, <2>7, HalvesWeigh
<1>2. CASE Len(rest) # 1
  BY <1>0, <1>2 DEF Leaves
<1> QED
  BY <1>1, <1>2

(* Insulation between two leaves: nothing is lost at the cut. *)
LEMMA SandwichWeighs ==
  ASSUME NEW two \in Seq(Layer), NEW ins \in Seq(Layer), NEW mid \in 0..Len(two)
  PROVE  LET d == SubSeq(two, 1, mid) \o ins \o SubSeq(two, mid + 1, Len(two))
         IN d \in Seq(Layer) /\ \A f \in [Layer -> Nat] : Weigh(d, f) = Weigh(ins, f) + Weigh(two, f)
<1> DEFINE n == Len(two)
           a == SubSeq(two, 1, mid)
           b == SubSeq(two, mid + 1, n)
<1>1. n \in Nat /\ \A i \in 1..n : two[i] \in Layer
  BY LenProperties, ElementOfSeq
<1>2. a \in Seq(Layer) /\ b \in Seq(Layer)
  <2>1. 1 \in Int /\ mid \in Int /\ mid + 1 \in Int /\ n \in Int
    BY <1>1
  <2>2. (\A i \in 1..mid : two[i] \in Layer) /\ (\A i \in (mid + 1)..n : two[i] \in Layer)
    BY <1>1
  <2> HIDE DEF n
  <2> QED
    BY <2>1, <2>2, SubSeqProperties
<1>3. a \o b = two
  <2>1. SubSeq(two, 1, mid) \o SubSeq(two, mid + 1, Len(two)) = SubSeq(two, 1, Len(two))
    <3>1. 1 \in 1..(Len(two) + 1) /\ mid \in (1 - 1)..Len(two) /\ Len(two) \in mid..Len(two)
      BY <1>1
    <3> QED
      BY <3>1, ConcatAdjacentSubSeq
  <2> QED
    BY <2>1, SubSeqFull
<1> HIDE DEF a, b
<1>4. a \o ins \in Seq(Layer) /\ (a \o ins) \o b \in Seq(Layer)
  BY <1>2, ConcatProperties
<1>5. ASSUME NEW f \in [Layer -> Nat] PROVE Weigh((a \o ins) \o b, f) = Weigh(ins, f) + Weigh(two, f)
  <2>1. Weigh((a \o ins) \o b, f) = Weigh(a \o ins, f) + Weigh(b, f)
    BY <1>2, <1>4, WeighConcat
  <2>2. Weigh(a \o ins, f) = Weigh(a, f) + Weigh(ins, f) /\ Weigh(a \o b, f) = Weigh(a, f) + Weigh(b, f)
    BY <1>2, WeighConcat
  <2>3. Weigh(a, f) \in Nat /\ Weigh(b, f) \in Nat /\ Weigh(ins, f) \in Nat
    BY <1>2, WeighRuns
  <2> QED
    BY <1>3, <2>1, <2>2, <2>3
<1> QED
  BY <1>4, <1>5 DEF a, b

--------------------------------------------------------------------------------
(* The appliers keep what weighs alike. *)

LEMMA FairType == \A f \in Fair : f \in [Layer -> Nat]
  BY DEF Fair

(* Wherever the insulation goes, nothing is lost and what was even stays so. *)
LEMMA ReorderKeeps ==
  ASSUME NEW c \in Seq(Layer), Even(c), NEW position \in {"inside", "outside", "cavity"}
  PROVE  LET d == ReorderInsulation(c, position)
         IN d \in Seq(Layer) /\ Even(d) /\ \A f \in Fair : Weigh(d, f) = Weigh(c, f)
<1> DEFINE ins  == Of(c, Insulation)
           rest == Of(c, Material \ Insulation)
           two  == Leaves(rest)
           mid  == (Len(two) + 1) \div 2
           d    == ReorderInsulation(c, position)
<1>1. /\ ins \in Seq(Layer) /\ rest \in Seq(Mass) /\ rest \in Seq(Layer)
      /\ Weigh(c, One) = Len(rest) /\ Weigh(c, Bulk) = Weigh(rest, Bulk)
  BY RestIsMass
<1>2. \A f \in [Layer -> Nat] : Weigh(c, f) = Weigh(ins, f) + Weigh(rest, f) /\ Weigh(ins, f) \in Nat /\ Weigh(rest, f) \in Nat
  BY <1>1, OfSplits, WeighRuns
<1>3. d = IF ins = <<>> THEN c
          ELSE CASE position = "outside" -> ins \o rest
                 [] position = "inside"  -> rest \o ins
                 [] position = "cavity"  -> SubSeq(two, 1, mid) \o ins \o SubSeq(two, mid + 1, Len(two))
  BY DEF ReorderInsulation
<1> SUFFICES d \in Seq(Layer) /\ Even(d) /\ \A f \in Fair : Weigh(d, f) = Weigh(c, f)
  OBVIOUS
<1> HIDE DEF ins, rest, d
(* It is enough that every weight is kept. *)
<1>4. ASSUME d \in Seq(Layer), \A f \in [Layer -> Nat] : Weigh(d, f) = Weigh(c, f)
      PROVE  d \in Seq(Layer) /\ Even(d) /\ \A f \in Fair : Weigh(d, f) = Weigh(c, f)
  BY <1>4, FairType, WeightTypes DEF Even
<1>5. CASE ins = <<>>
  <2>1. d = c
    BY <1>3, <1>5
  <2> QED
    BY <1>4, <2>1
<1>6. CASE ins # <<>> /\ position = "outside"
  <2>1. d = ins \o rest
    BY <1>3, <1>6
  <2>2. d \in Seq(Layer) /\ \A f \in [Layer -> Nat] : Weigh(d, f) = Weigh(c, f)
    BY <1>1, <1>2, <2>1, WeighConcat, ConcatProperties
  <2> QED
    BY <1>4, <2>2
<1>7. CASE ins # <<>> /\ position = "inside"
  <2>1. d = rest \o ins
    BY <1>3, <1>7
  <2>2. d \in Seq(Layer)
    BY <1>1, <2>1, ConcatProperties
  <2>3. ASSUME NEW f \in [Layer -> Nat] PROVE Weigh(d, f) = Weigh(c, f)
    <3>1. Weigh(d, f) = Weigh(rest, f) + Weigh(ins, f)
      BY <1>1, <2>1, WeighConcat
    <3> QED
      BY <1>2, <3>1
  <2> QED
    BY <1>4, <2>2, <2>3
<1>8. CASE ins # <<>> /\ position = "cavity"
  <2>1. d = SubSeq(two, 1, mid) \o ins \o SubSeq(two, mid + 1, Len(two))
    BY <1>3, <1>8
  <2>2. /\ two \in Seq(Layer) /\ \A f \in Fair : Weigh(two, f) = Weigh(rest, f)
        /\ IF Len(rest) = 1 THEN Weigh(two, One) = 2 ELSE two = rest
    <3>1. Len(rest) = 1 => Weigh(rest, Bulk) % 2 = 0
      BY <1>1 DEF Even
    <3> QED
      BY <1>1, <3>1, LeavesWeigh
  <2> HIDE DEF two
  <2>3. mid \in 0..Len(two)
    <3>1. Len(two) \in Nat
      BY <2>2, LenProperties
    <3> QED
      BY <3>1
  <2> HIDE DEF mid
  <2>4. d \in Seq(Layer) /\ \A f \in [Layer -> Nat] : Weigh(d, f) = Weigh(ins, f) + Weigh(two, f)
    BY <1>1, <2>1, <2>2, <2>3, SandwichWeighs
  <2>5. \A f \in Fair : Weigh(d, f) = Weigh(c, f)
    BY <1>2, <2>2, <2>4, FairType
  <2>6. CASE Len(rest) = 1
    <3>1. Weigh(c, One) = 1 /\ Weigh(c, One) = Weigh(ins, One) + Weigh(rest, One) /\ Weigh(ins, One) \in Nat
      BY <1>1, <1>2, <2>6, WeightTypes
    <3>2. Weigh(d, One) = Weigh(ins, One) + 2
      BY <2>2, <2>4, <2>6, WeightTypes
    <3>3. Weigh(d, One) # 1
      BY <3>1, <3>2
    <3> QED
      BY <2>4, <2>5, <3>3 DEF Even
  <2>7. CASE Len(rest) # 1
    <3>1. \A f \in [Layer -> Nat] : Weigh(d, f) = Weigh(c, f)
      BY <1>2, <2>2, <2>4, <2>7
    <3> QED
      BY <1>4, <2>4, <3>1
  <2> QED
    BY <2>6, <2>7
<1> QED
  BY <1>5, <1>6, <1>7, <1>8

(* What an applier does to each layer, as far as the weights are concerned. *)
Decent(op) ==
  /\ op \in [Layer -> Layer]
  /\ \A f \in Fair : [l \in Layer |-> f[op[l]]] \in Fair
  /\ \A l \in Layer : op[l] \in Mass <=> l \in Mass
  /\ \A c \in Seq(Layer) : Weigh(c, Bulk) % 2 = 0 => Weigh(Mapped(c, op), Bulk) % 2 = 0

(* Two constructions that no fair weight tells apart. *)
Alike(c, d) == \A f \in Fair : Weigh(c, f) = Weigh(d, f)

(* What such an applier does to two constructions that weigh alike, it does to both       *)
(* alike.                                                                                 *)
LEMMA MappedKeeps ==
  ASSUME NEW op, Decent(op), NEW c \in Seq(Layer)
  PROVE  /\ Mapped(c, op) \in Seq(Layer) /\ (Even(c) => Even(Mapped(c, op)))
         /\ \A d \in Seq(Layer) : Alike(c, d) => Alike(Mapped(c, op), Mapped(d, op))
<1>0. op \in [Layer -> Layer]
  BY DEF Decent
<1>1. Mapped(c, op) \in Seq(Layer)
  BY <1>0, MappedType
<1>2. Weigh(Mapped(c, op), One) = Weigh(c, One)
  <2>1. \A l \in Layer : One[l] = One[op[l]]
    BY <1>0 DEF Decent, One
  <2> QED
    BY <1>0, <2>1, WeighMapped, WeightTypes
<1>3. Even(c) => Even(Mapped(c, op))
  BY <1>2 DEF Even, Decent
<1>4. ASSUME NEW d \in Seq(Layer), Alike(c, d) PROVE Alike(Mapped(c, op), Mapped(d, op))
  <2> SUFFICES ASSUME NEW f \in Fair PROVE Weigh(Mapped(c, op), f) = Weigh(Mapped(d, op), f)
    BY DEF Alike
  <2> DEFINE g == [l \in Layer |-> f[op[l]]]
  <2>1. g \in Fair /\ f \in [Layer -> Nat]
    BY FairType DEF Decent
  <2>2. g \in [Layer -> Nat] /\ \A l \in Layer : g[l] = f[op[l]]
    BY <2>1, FairType
  <2> HIDE DEF g
  <2>3. Weigh(Mapped(c, op), f) = Weigh(c, g) /\ Weigh(Mapped(d, op), f) = Weigh(d, g)
    BY <1>0, <2>1, <2>2, WeighMapped
  <2>4. Weigh(c, g) = Weigh(d, g)
    BY <1>4, <2>1 DEF Alike
  <2> QED
    BY <2>3, <2>4
<1> QED
  BY <1>1, <1>3, <1>4

(* An applier that leaves the mass of every layer alone leaves what is even so. *)
LEMMA SameBulk ==
  ASSUME NEW op \in [Layer -> Layer], \A l \in Layer : Bulk[op[l]] = Bulk[l], NEW c \in Seq(Layer)
  PROVE  Weigh(Mapped(c, op), Bulk) = Weigh(c, Bulk)
  BY WeighMapped, WeightTypes

(* The appliers of swapStructuralMaterial(), applyInsulationThickness() and               *)
(* applyMassStrategy().                                                                   *)
Swapped(m)  == [l \in Layer |-> IF l.material \in Structural THEN [l EXCEPT !.material = m] ELSE l]
Insulated(t) == [l \in Layer |-> IF l.material \in Insulation THEN [l EXCEPT !.thickness = t] ELSE l]
Doubled     == [l \in Layer |-> [l EXCEPT !.thickness = 2 * @]]

LEMMA SwappedDecent ==
  ASSUME Insulation \cap Structural = {}, NEW m \in Structural
  PROVE  Decent(Swapped(m))
<1> DEFINE op == Swapped(m)
<1>1. ASSUME NEW l \in Layer
      PROVE  /\ op[l] \in Layer /\ op[l].thickness = l.thickness
             /\ (op[l] \in Mass <=> l \in Mass)
             /\ IF l \in Mass THEN op[l].material = m ELSE op[l] = l
  <2>1. l.material \in Insulation \cup Structural /\ l.thickness \in Nat
        /\ l = [material |-> l.material, thickness |-> l.thickness]
    BY DEF Layer, Material
  <2>2. op[l] = IF l.material \in Structural THEN [material |-> m, thickness |-> l.thickness] ELSE l
    BY <2>1 DEF Swapped
  <2> HIDE DEF op
  <2> QED
    BY <2>1, <2>2 DEF Layer, Material, Mass
<1>2. op \in [Layer -> Layer]
  <2>1. op = [l \in Layer |-> op[l]]
    BY DEF Swapped
  <2> HIDE DEF op
  <2> QED
    BY <1>1, <2>1
<1> HIDE DEF op
<1>3. ASSUME NEW f \in Fair PROVE [l \in Layer |-> f[op[l]]] \in Fair
  <2> DEFINE g == [l \in Layer |-> f[op[l]]]
  <2>1. g \in [Layer -> Nat]
    BY <1>1, FairType
  <2>2. ASSUME NEW l \in Mass, NEW h \in Mass, l.material = h.material, l.thickness = 2 * h.thickness
        PROVE  g[l] = 2 * g[h]
    <3>1. l \in Layer /\ h \in Layer
      BY DEF Mass
    <3>2. op[l] \in Mass /\ op[h] \in Mass /\ op[l].material = op[h].material /\ op[l].thickness = 2 * op[h].thickness
      BY <1>1, <2>2, <3>1
    <3>3. f[op[l]] = 2 * f[op[h]]
      BY <3>2 DEF Fair
    <3> QED
      BY <3>1, <3>3
  <2> HIDE DEF g
  <2>3. g \in Fair
    BY <2>1, <2>2 DEF Fair
  <2> QED
    BY <2>3 DEF g
<1>4. \A c \in Seq(Layer) : Weigh(Mapped(c, op), Bulk) = Weigh(c, Bulk)
  <2>1. \A l \in Layer : Bulk[op[l]] = Bulk[l]
    BY <1>1 DEF Bulk
  <2> QED
    BY <1>2, <2>1, SameBulk
<1>5. Decent(op)
  BY <1>1, <1>2, <1>3, <1>4 DEF Decent
<1> QED
  BY <1>5 DEF op

LEMMA InsulatedDecent ==
  ASSUME NEW t \in Nat
  PROVE  Decent(Insulated(t))
<1> DEFINE op == Insulated(t)
<1>1. ASSUME NEW l \in Layer
      PROVE  op[l] \in Layer /\ (op[l] \in Mass <=> l \in Mass) /\ (l \in Mass => op[l] = l)
  <2>1. l.material \in Material /\ l.thickness \in Nat
        /\ l = [material |-> l.material, thickness |-> l.thickness]
    BY DEF Layer
  <2>2. op[l] = IF l.material \in Insulation THEN [material |-> l.material, thickness |-> t] ELSE l
    BY <2>1 DEF Insulated
  <2> HIDE DEF op
  <2> QED
    BY <2>1, <2>2 DEF Layer, Mass
<1>2. op \in [Layer -> Layer]
  <2>1. op = [l \in Layer |-> op[l]]
    BY DEF Insulated
  <2> HIDE DEF op
  <2> QED
    BY <1>1, <2>1
<1> HIDE DEF op
<1>3. ASSUME NEW f \in Fair PROVE [l \in Layer |-> f[op[l]]] \in Fair
  <2> DEFINE g == [l \in Layer |-> f[op[l]]]
  <2>1. g \in [Layer -> Nat]
    BY <1>1, FairType
  <2>2. ASSUME NEW l \in Mass, NEW h \in Mass, l.material = h.material, l.thickness = 2 * h.thickness
        PROVE  g[l] = 2 * g[h]
    <3>1. l \in Layer /\ h \in Layer
      BY DEF Mass
    <3>2. op[l] = l /\ op[h] = h
      BY <1>1, <3>1
    <3>3. f[l] = 2 * f[h]
      BY <2>2 DEF Fair
    <3> QED
      BY <3>1, <3>2, <3>3
  <2> HIDE DEF g
  <2>3. g \in Fair
    BY <2>1, <2>2 DEF Fair
  <2> QED
    BY <2>3 DEF g
<1>4. \A c \in Seq(Layer) : Weigh(Mapped(c, op), Bulk) = Weigh(c, Bulk)
  <2>1. \A l \in Layer : Bulk[op[l]] = Bulk[l]
    BY <1>1 DEF Bulk
  <2> QED
    BY <1>2, <2>1, SameBulk
<1>5. Decent(op)
  BY <1>1, <1>2, <1>3, <1>4 DEF Decent
<1> QED
  BY <1>5 DEF op

LEMMA WeighTwice ==
  ASSUME NEW c \in Seq(Layer), NEW f \in [Layer -> Nat], NEW g \in [Layer -> Nat], \A l \in Layer : g[l] = 2 * f[l]
  PROVE  Weigh(c, g) = 2 * Weigh(c, f)
<1> DEFINE P == {e \in Seq(Layer) : Weigh(e, g) = 2 * Weigh(e, f)}
<1>1. <<>> \in P
  <2>1. <<>> \in Seq(Layer) /\ Weigh(<<>>, f) = 0 /\ Weigh(<<>>, g) = 0
    BY EmptySeq, WeighEmpty
  <2> QED
    BY <2>1
<1>2. ASSUME NEW e \in P, NEW l \in Layer PROVE Append(e, l) \in P
  <2>1. e \in Seq(Layer) /\ Append(e, l) \in Seq(Layer)
    BY AppendProperties
  <2>2. Weigh(Append(e, l), g) = Weigh(e, g) + g[l] /\ Weigh(Append(e, l), f) = Weigh(e, f) + f[l]
    BY <2>1, WeighAppend
  <2>3. Weigh(e, g) = 2 * Weigh(e, f) /\ g[l] = 2 * f[l] /\ f[l] \in Nat /\ Weigh(e, f) \in Nat
    BY <2>1, WeighRuns
  <2>4. Weigh(Append(e, l), g) = 2 * Weigh(Append(e, l), f)
    BY <2>2, <2>3
  <2> QED
    BY <2>1, <2>4
<1>3. P = Seq(Layer)
  <2>1. P \in SUBSET Seq(Layer)
    OBVIOUS
  <2> HIDE DEF P
  <2> QED
    BY <1>1, <1>2, <2>1, SeqInduct
<1>4. c \in P
  <2> HIDE DEF P
  <2> QED
    BY <1>3
<1> QED
  BY <1>4

LEMMA DoubledDecent == Decent(Doubled)
<1>1. ASSUME NEW l \in Layer
      PROVE  /\ Doubled[l] \in Layer /\ Doubled[l].material = l.material
             /\ Doubled[l].thickness = 2 * l.thickness /\ (Doubled[l] \in Mass <=> l \in Mass)
  <2>1. l.material \in Material /\ l.thickness \in Nat /\ 2 * l.thickness \in Nat
        /\ l = [material |-> l.material, thickness |-> l.thickness]
    BY DEF Layer
  <2>2. Doubled[l] = [material |-> l.material, thickness |-> 2 * l.thickness]
    BY <2>1 DEF Doubled
  <2> QED
    BY <2>1, <2>2 DEF Layer, Mass
<1>2. Doubled \in [Layer -> Layer]
  <2>1. Doubled = [l \in Layer |-> Doubled[l]]
    BY DEF Doubled
  <2> QED
    BY <1>1, <2>1
<1>3. ASSUME NEW f \in Fair PROVE [l \in Layer |-> f[Doubled[l]]] \in Fair
  <2> DEFINE g == [l \in Layer |-> f[Doubled[l]]]
  <2>1. g \in [Layer -> Nat]
    BY <1>1, FairType
  <2>2. ASSUME NEW l \in Mass, NEW h \in Mass, l.material = h.material, l.thickness = 2 * h.thickness
        PROVE  g[l] = 2 * g[h]
    <3>1. l \in Layer /\ h \in Layer /\ h.thickness \in Nat
      BY DEF Mass, Layer
    <3>2. /\ Doubled[l] \in Mass /\ Doubled[h] \in Mass /\ Doubled[l].material = Doubled[h].material
          /\ Doubled[l].thickness = 2 * Doubled[h].thickness
      BY <1>1, <2>2, <3>1
    <3>3. f[Doubled[l]] = 2 * f[Doubled[h]]
      BY <3>2 DEF Fair
    <3> QED
      BY <3>1, <3>3
  <2> HIDE DEF g
  <2>3. g \in Fair
    BY <2>1, <2>2 DEF Fair
  <2> QED
    BY <2>3 DEF g
<1>4. ASSUME NEW c \in Seq(Layer) PROVE Weigh(Mapped(c, Doubled), Bulk) % 2 = 0
  <2> DEFINE g == [l \in Layer |-> Bulk[Doubled[l]]]
  <2>1. g \in [Layer -> Nat] /\ \A l \in Layer : g[l] = Bulk[Doubled[l]]
    BY <1>1, WeightTypes
  <2>2. \A l \in Layer : g[l] = 2 * Bulk[l]
    BY <1>1, <2>1 DEF Bulk
  <2> HIDE DEF g
  <2>3. Weigh(Mapped(c, Doubled), Bulk) = Weigh(c, g)
    BY <1>2, <2>1, WeighMapped, WeightTypes
  <2>4. Weigh(c, g) = 2 * Weigh(c, Bulk) /\ Weigh(c, Bulk) \in Nat
    BY <2>1, <2>2, WeighTwice, WeighRuns, WeightTypes
  <2> QED
    BY <2>3, <2>4
<1> QED
  BY <1>1, <1>2, <1>3, <1>4 DEF Decent

(* The requests a sweep makes: their constructions can be halved where it is asked for. *)
EvenLayers == {c \in Seq(Layer) : Even(c)}
Good == [layers : [SurfaceType -> EvenLayers], area : Nat, window : Int, storage : SUBSET Storage, ach : Nat]

(* What a choice makes of the layers of a surface of type t. *)
After(kind, v, t, c) ==
  IF \/ kind = "wallConstruction" /\ t = "wall"
     \/ kind = "roofConstruction" /\ t = "roof" THEN Mapped(c, Swapped(v))
  ELSE IF kind = "insulationThickness" THEN Mapped(c, Insulated(v))
  ELSE IF kind = "insulationPosition" /\ t # "floor" THEN ReorderInsulation(c, v)
  ELSE IF kind = "massStrategy" /\ ((v = "floor" /\ t = "floor") \/ (v = "trombe" /\ t = "wall")) THEN Mapped(c, Doubled)
  ELSE c

LEMMA AlikeItself == \A c, d : c = d => Alike(c, d)
  BY DEF Alike

(* Whatever is chosen, constructions stay even, those that weigh alike still do, and a    *)
(* new place for the insulation changes no weight.                                        *)
LEMMA AfterKeeps ==
  ASSUME NEW kind, NEW v, NEW t, NEW c \in EvenLayers, MayBeAsked(kind, v), Applicable(kind, v)
  PROVE  /\ After(kind, v, t, c) \in EvenLayers
         /\ kind = "insulationPosition" => Alike(After(kind, v, t, c), c)
         /\ \A d \in EvenLayers : Alike(c, d) => Alike(After(kind, v, t, c), After(kind, v, t, d))
<1>0. c \in Seq(Layer) /\ Even(c) /\ \A d \in EvenLayers : d \in Seq(Layer) /\ Even(d)
  BY DEF EvenLayers
<1>1. ASSUME NEW op, Decent(op), \A d \in EvenLayers : After(kind, v, t, d) = Mapped(d, op),
             kind # "insulationPosition"
      PROVE  /\ After(kind, v, t, c) \in EvenLayers
             /\ kind = "insulationPosition" => Alike(After(kind, v, t, c), c)
             /\ \A d \in EvenLayers : Alike(c, d) => Alike(After(kind, v, t, c), After(kind, v, t, d))
  <2>1. /\ Mapped(c, op) \in Seq(Layer) /\ Even(Mapped(c, op))
        /\ \A d \in Seq(Layer) : Alike(c, d) => Alike(Mapped(c, op), Mapped(d, op))
    BY <1>0, <1>1, MappedKeeps
  <2> QED
    BY <1>0, <1>1, <2>1 DEF EvenLayers
<1>2. CASE (kind = "wallConstruction" /\ t = "wall") \/ (kind = "roofConstruction" /\ t = "roof")
  <2>1. v \in Structural
    <3>1. kind \in {"wallConstruction", "roofConstruction"}
      BY <1>2
    <3>2. v \notin Insulation
      BY <3>1 DEF MayBeAsked
    <3>3. Applicable(kind, v) = (v \in Material)
      BY <3>1 DEF Applicable
    <3> QED
      BY <3>2, <3>3 DEF Material
  <2>2. Decent(Swapped(v))
    BY <2>1, SwappedDecent, SweepAssumption
  <2>3. \A d \in EvenLayers : After(kind, v, t, d) = Mapped(d, Swapped(v))
    BY <1>2 DEF After
  <2>4. kind # "insulationPosition"
    BY <1>2
  <2> QED
    BY <1>1, <2>2, <2>3, <2>4
<1>3. CASE kind = "insulationThickness"
  <2>1. v \in Nat
    BY <1>3 DEF MayBeAsked
  <2>2. Decent(Insulated(v))
    BY <2>1, InsulatedDecent
  <2>3. \A d \in EvenLayers : After(kind, v, t, d) = Mapped(d, Insulated(v))
    BY <1>3 DEF After
  <2>4. kind # "insulationPosition"
    BY <1>3
  <2> QED
    BY <1>1, <2>2, <2>3, <2>4
<1>4. CASE kind = "insulationPosition" /\ t # "floor"
  <2>1. v \in {"inside", "outside", "cavity"}
    BY <1>4 DEF MayBeAsked
  <2>2. \A d : After(kind, v, t, d) = ReorderInsulation(d, v)
    BY <1>4 DEF After
  <2>3. ASSUME NEW d \in EvenLayers
        PROVE  ReorderInsulation(d, v) \in EvenLayers /\ Alike(ReorderInsulation(d, v), d)
    BY <1>0, <2>1, ReorderKeeps DEF EvenLayers, Alike
  <2>4. \A d \in EvenLayers : Alike(c, d) => Alike(ReorderInsulation(c, v), ReorderInsulation(d, v))
    BY <2>3 DEF Alike
  <2> QED
    BY <2>2, <2>3, <2>4
<1>5. CASE kind = "massStrategy" /\ ((v = "floor" /\ t = "floor") \/ (v = "trombe" /\ t = "wall"))
  <2>1. \A d \in EvenLayers : After(kind, v, t, d) = Mapped(d, Doubled)
    BY <1>5 DEF After
  <2>2. kind # "insulationPosition"
    BY <1>5
  <2> QED
    BY <1>1, <2>1, <2>2, DoubledDecent
<1>6. CASE /\ ~((kind = "wallConstruction" /\ t = "wall") \/ (kind = "roofConstruction" /\ t = "roof"))
           /\ kind # "insulationThickness"
           /\ ~(kind = "insulationPosition" /\ t # "floor")
           /\ ~(kind = "massStrategy" /\ ((v = "floor" /\ t = "floor") \/ (v = "trombe" /\ t = "wall")))
  <2>1. ASSUME NEW d PROVE After(kind, v, t, d) = d
    <3> DEFINE a1 == (kind = "wallConstruction" /\ t = "wall") \/ (kind = "roofConstruction" /\ t = "roof")
               a3 == kind = "insulationPosition" /\ t # "floor"
               a4 == kind = "massStrategy" /\ ((v = "floor" /\ t = "floor") \/ (v = "trombe" /\ t = "wall"))
    <3>1. After(kind, v, t, d) = IF a1 THEN Mapped(d, Swapped(v))
                                 ELSE IF kind = "insulationThickness" THEN Mapped(d, Insulated(v))
                                 ELSE IF a3 THEN ReorderInsulation(d, v)
                                 ELSE IF a4 THEN Mapped(d, Doubled) ELSE d
      BY DEF After
    <3>2. ~a1 /\ kind # "insulationThickness" /\ ~a3 /\ ~a4
      BY <1>6
    <3> HIDE DEF a1, a3, a4
    <3> QED
      BY <3>1, <3>2
  <2> QED
    BY <2>1, AlikeItself
<1> QED
  BY <1>2, <1>3, <1>4, <1>5, <1>6

(* The appliers, layer by layer. *)
LEMMA AppliersMap ==
  ASSUME NEW c \in Seq(Layer)
  PROVE  /\ \A m : SwapStructural(c, m) = Mapped(c, Swapped(m))
         /\ \A t : InsulationThickness(c, t) = Mapped(c, Insulated(t))
         /\ Thicken(c) = Mapped(c, Doubled)
<1>1. \A i \in DOMAIN c : c[i] \in Layer
  BY LenProperties, ElementOfSeq
<1>2. ASSUME NEW m PROVE SwapStructural(c, m) = Mapped(c, Swapped(m))
  BY <1>1 DEF SwapStructural, EachLayer, Mapped, Swapped
<1>3. ASSUME NEW t PROVE InsulationThickness(c, t) = Mapped(c, Insulated(t))
  BY <1>1 DEF InsulationThickness, EachLayer, Mapped, Insulated
<1>4. Thicken(c) = Mapped(c, Doubled)
  BY <1>1 DEF Thicken, EachLayer, Mapped, Doubled
<1> QED
  BY <1>2, <1>3, <1>4

(* Choose() as a whole is this on every surface. *)
LEMMA ChooseLayers ==
  ASSUME NEW r \in Good, NEW kind, NEW v, MayBeAsked(kind, v), Applicable(kind, v)
  PROVE  /\ Choose(r, kind, v) \in Good
         /\ \A t \in SurfaceType : Choose(r, kind, v).layers[t] = After(kind, v, t, r.layers[t])
<1> DEFINE q == Choose(r, kind, v)
<1>0. /\ r = [layers |-> r.layers, area |-> r.area, window |-> r.window, storage |-> r.storage, ach |-> r.ach]
      /\ r.layers \in [SurfaceType -> EvenLayers] /\ r.area \in Nat /\ r.window \in Int
      /\ r.storage \subseteq Storage /\ r.ach \in Nat
      /\ \A t \in SurfaceType : r.layers[t] \in Seq(Layer)
  BY DEF Good, EvenLayers
(* A variable that only changes the layers. *)
<1>1. ASSUME NEW g, q = [r EXCEPT !.layers = g],
             DOMAIN g = SurfaceType, g = [t \in SurfaceType |-> g[t]],
             \A t \in SurfaceType : g[t] = After(kind, v, t, r.layers[t])
      PROVE  q \in Good /\ \A t \in SurfaceType : q.layers[t] = After(kind, v, t, r.layers[t])
  <2>1. \A t \in SurfaceType : g[t] \in EvenLayers
    BY <1>0, <1>1, AfterKeeps
  <2>2. g \in [SurfaceType -> EvenLayers]
    BY <1>1, <2>1
  <2>3. q = [layers |-> g, area |-> r.area, window |-> r.window, storage |-> r.storage, ach |-> r.ach]
    BY <1>0, <1>1
  <2> HIDE DEF q
  <2> QED
    BY <1>0, <1>1, <2>2, <2>3 DEF Good
(* One that leaves them alone. *)
<1>2. ASSUME NEW w \in Int, NEW st \in SUBSET Storage, NEW a \in Nat,
             q = [layers |-> r.layers, area |-> r.area, window |-> w, storage |-> st, ach |-> a],
             \A t \in SurfaceType : After(kind, v, t, r.layers[t]) = r.layers[t]
      PROVE  q \in Good /\ \A t \in SurfaceType : q.layers[t] = After(kind, v, t, r.layers[t])
  <2> HIDE DEF q
  <2> QED
    BY <1>0, <1>2 DEF Good
<1>3. CASE kind = "wallConstruction"
  <2> DEFINE g == [t \in SurfaceType |-> IF t \in {"wall"} THEN SwapStructural(r.layers[t], v) ELSE r.layers[t]]
  <2>1. q = [r EXCEPT !.layers = g]
    BY <1>0, <1>3 DEF Choose, OnSurfaces
  <2>2. \A t \in SurfaceType : g[t] = After(kind, v, t, r.layers[t])
    BY <1>0, <1>3, AppliersMap DEF After
  <2>3. DOMAIN g = SurfaceType /\ g = [t \in SurfaceType |-> g[t]]
    OBVIOUS
  <2> HIDE DEF g, q
  <2> QED
    BY <1>1, <2>1, <2>2, <2>3 DEF q
<1>4. CASE kind = "roofConstruction"
  <2> DEFINE g == [t \in SurfaceType |-> IF t \in {"roof"} THEN SwapStructural(r.layers[t], v) ELSE r.layers[t]]
  <2>1. q = [r EXCEPT !.layers = g]
    BY <1>0, <1>4 DEF Choose, OnSurfaces
  <2>2. \A t \in SurfaceType : g[t] = After(kind, v, t, r.layers[t])
    BY <1>0, <1>4, AppliersMap DEF After
  <2>3. DOMAIN g = SurfaceType /\ g = [t \in SurfaceType |-> g[t]]
    OBVIOUS
  <2> HIDE DEF g, q
  <2> QED
    BY <1>1, <2>1, <2>2, <2>3 DEF q
<1>5. CASE kind = "insulationThickness"
  <2> DEFINE g == [t \in SurfaceType |-> IF t \in SurfaceType THEN InsulationThickness(r.layers[t], v) ELSE r.layers[t]]
  <2>1. q = [r EXCEPT !.layers = g]
    BY <1>0, <1>5 DEF Choose, OnSurfaces
  <2>2. \A t \in SurfaceType : g[t] = After(kind, v, t, r.layers[t])
    BY <1>0, <1>5, AppliersMap DEF After
  <2>3. DOMAIN g = SurfaceType /\ g = [t \in SurfaceType |-> g[t]]
    OBVIOUS
  <2> HIDE DEF g, q
  <2> QED
    BY <1>1, <2>1, <2>2, <2>3 DEF q
<1>6. CASE kind = "insulationPosition"
  <2> DEFINE g == [t \in SurfaceType |-> IF t \in SurfaceType \ {"floor"} THEN ReorderInsulation(r.layers[t], v) ELSE r.layers[t]]
  <2>1. q = [r EXCEPT !.layers = g]
    BY <1>0, <1>6 DEF Choose, OnSurfaces
  <2>2. \A t \in SurfaceType : g[t] = After(kind, v, t, r.layers[t])
    BY <1>0, <1>6 DEF After
  <2>3. DOMAIN g = SurfaceType /\ g = [t \in SurfaceType |-> g[t]]
    OBVIOUS
  <2> HIDE DEF g, q
  <2> QED
    BY <1>1, <2>1, <2>2, <2>3 DEF q
<1>7. CASE kind = "massStrategy" /\ v \in {"floor", "trombe"}
  <2> DEFINE t0 == IF v = "floor" THEN "floor" ELSE "wall"
             g == [r.layers EXCEPT ![t0] = Thicken(@)]
  <2>1. q = [r EXCEPT !.layers = g]
    <3>1. CASE v = "floor"
      BY <1>0, <1>7, <3>1 DEF Choose, MassStrategy, SurfaceType
    <3>2. CASE v = "trombe"
      BY <1>0, <1>7, <3>2 DEF Choose, MassStrategy, SurfaceType
    <3> QED
      BY <1>7, <3>1, <3>2
  <2>2. t0 \in SurfaceType /\ \A t \in SurfaceType : g[t] = IF t = t0 THEN Mapped(r.layers[t], Doubled) ELSE r.layers[t]
    BY <1>0, AppliersMap DEF SurfaceType
  <2>3. \A t \in SurfaceType : g[t] = After(kind, v, t, r.layers[t])
    <3> TAKE t \in SurfaceType
    <3>1. After(kind, v, t, r.layers[t]) =
            IF (v = "floor" /\ t = "floor") \/ (v = "trombe" /\ t = "wall") THEN Mapped(r.layers[t], Doubled) ELSE r.layers[t]
      BY <1>7 DEF After
    <3>2. t = t0 <=> (v = "floor" /\ t = "floor") \/ (v = "trombe" /\ t = "wall")
      <4>1. CASE v = "floor"
        BY <4>1
      <4>2. CASE v = "trombe"
        BY <4>2
      <4> QED
        BY <1>7, <4>1, <4>2
    <3>3. g[t] = IF t = t0 THEN Mapped(r.layers[t], Doubled) ELSE r.layers[t]
      BY <2>2
    <3> HIDE DEF g, t0
    <3> QED
      BY <3>1, <3>2, <3>3
  <2>4. DOMAIN g = SurfaceType /\ g = [t \in SurfaceType |-> g[t]]
    BY <1>0
  <2> HIDE DEF g, q, t0
  <2> QED
    BY <1>1, <2>1, <2>3, <2>4 DEF q
<1>8. CASE kind = "massStrategy" /\ v \notin {"floor", "trombe"}
  <2> DEFINE st == IF v = "none" THEN {} ELSE {v}
  <2>1. st \in SUBSET Storage
    <3>1. Applicable(kind, v) = (v \in {"none", "floor", "trombe"} \cup Storage)
      BY <1>8 DEF Applicable
    <3> QED
      BY <1>8, <3>1
  <2>2. q = [layers |-> r.layers, area |-> r.area, window |-> r.window, storage |-> st, ach |-> r.ach]
    <3>1. q = [r EXCEPT !.storage = st]
      BY <1>8 DEF Choose, MassStrategy
    <3> QED
      BY <1>0, <3>1
  <2>3. \A t \in SurfaceType : After(kind, v, t, r.layers[t]) = r.layers[t]
    BY <1>8 DEF After
  <2> HIDE DEF st, q
  <2> QED
    BY <1>0, <1>2, <2>1, <2>2, <2>3 DEF q
<1>9. CASE kind = "wwr"
  <2> DEFINE w == (v * (r.area + r.window)) \div 100
  <2>1. w \in Int
    <3>1. v \in Nat
      BY <1>9 DEF MayBeAsked
    <3>2. v * (r.area + r.window) \in Int
      BY <1>0, <3>1
    <3> QED
      BY <3>2
  <2>2. q = [layers |-> r.layers, area |-> r.area, window |-> w, storage |-> r.storage, ach |-> r.ach]
    <3>1. q = [r EXCEPT !.window = w]
      BY <1>9 DEF Choose, Wwr
    <3> HIDE DEF w
    <3> QED
      BY <1>0, <3>1
  <2>3. \A t \in SurfaceType : After(kind, v, t, r.layers[t]) = r.layers[t]
    BY <1>9 DEF After
  <2> HIDE DEF w, q
  <2> QED
    BY <1>0, <1>2, <2>1, <2>2, <2>3 DEF q
<1>10. CASE kind = "ach"
  <2>1. v \in Nat
    BY <1>10 DEF MayBeAsked
  <2>2. q = [layers |-> r.layers, area |-> r.area, window |-> r.window, storage |-> r.storage, ach |-> v]
    <3>1. q = [r EXCEPT !.ach = v]
      BY <1>10 DEF Choose
    <3> QED
      BY <1>0, <3>1
  <2>3. \A t \in SurfaceType : After(kind, v, t, r.layers[t]) = r.layers[t]
    BY <1>10 DEF After
  <2> HIDE DEF q
  <2> QED
    BY <1>0, <1>2, <2>1, <2>2, <2>3 DEF q
<1>11. CASE kind \notin {"wallConstruction", "roofConstruction", "insulationThickness", "insulationPosition",
                         "massStrategy", "wwr", "ach"}
  <2>1. q = r
    BY <1>11 DEF Choose
  <2>2. \A t \in SurfaceType : After(kind, v, t, r.layers[t]) = r.layers[t]
    BY <1>11 DEF After
  <2> QED
    BY <2>1, <2>2
<1> QED
  BY <1>3, <1>4, <1>5, <1>6, <1>7, <1>8, <1>9, <1>10, <1>11

--------------------------------------------------------------------------------
(* Variants. *)

(* A construction of even thicknesses is even. *)
LEMMA EvenThicknesses ==
  ASSUME NEW c \in Seq(Layer), \A i \in DOMAIN c : c[i].thickness % 2 = 0
  PROVE  Even(c)
<1> DEFINE P == {e \in Seq(Layer) : (\A i \in DOMAIN e : e[i].thickness % 2 = 0) => Weigh(e, Bulk) % 2 = 0}
<1>1. <<>> \in P
  <2>1. <<>> \in Seq(Layer) /\ Weigh(<<>>, Bulk) = 0
    BY EmptySeq, WeighEmpty, WeightTypes
  <2> QED
    BY <2>1
<1>2. ASSUME NEW e \in P, NEW l \in Layer PROVE Append(e, l) \in P
  <2> DEFINE d == Append(e, l)
  <2>0. e \in Seq(Layer) /\ ((\A i \in DOMAIN e : e[i].thickness % 2 = 0) => Weigh(e, Bulk) % 2 = 0)
    OBVIOUS
  <2> HIDE DEF P
  <2>1. /\ d \in Seq(Layer) /\ Len(d) = Len(e) + 1 /\ d[Len(e) + 1] = l /\ \A i \in 1..Len(e) : d[i] = e[i]
    BY <2>0, AppendProperties
  <2>2. DOMAIN e = 1..Len(e) /\ Len(e) \in Nat /\ DOMAIN d = 1..Len(d)
    BY <2>0, <2>1, LenProperties
  <2>3. Weigh(d, Bulk) = Weigh(e, Bulk) + Bulk[l] /\ Weigh(e, Bulk) \in Nat
    BY <2>0, WeighAppend, WeighRuns, WeightTypes
  <2> HIDE DEF d
  <2>4. ASSUME \A i \in DOMAIN d : d[i].thickness % 2 = 0 PROVE Weigh(d, Bulk) % 2 = 0
    <3>1. \A i \in 1..Len(e) : i \in 1..Len(d)
      BY <2>1, <2>2
    <3>2. \A i \in DOMAIN e : e[i].thickness % 2 = 0
      BY <2>1, <2>2, <2>4, <3>1
    <3>3. l.thickness % 2 = 0 /\ l.thickness \in Nat
      <4>1. Len(e) + 1 \in 1..Len(d)
        BY <2>1, <2>2
      <4> QED
        BY <2>1, <2>2, <2>4, <4>1 DEF Layer
    <3>4. Bulk[l] \in Nat /\ Bulk[l] % 2 = 0
      BY <3>3 DEF Bulk
    <3>5. Weigh(e, Bulk) % 2 = 0
      BY <2>0, <3>2
    <3> DEFINE x == Weigh(e, Bulk)
               y == Bulk[l]
    <3>6. x \in Nat /\ y \in Nat /\ x % 2 = 0 /\ y % 2 = 0
      BY <2>3, <3>4, <3>5
    <3> HIDE DEF x, y
    <3>7. (x + y) % 2 = 0
      BY <3>6
    <3> QED
      BY <2>3, <3>7 DEF x, y
  <2> QED
    BY <2>1, <2>4 DEF P, d
<1>3. P = Seq(Layer)
  <2>1. P \in SUBSET Seq(Layer)
    OBVIOUS
  <2> HIDE DEF P
  <2> QED
    BY <1>1, <1>2, <2>1, SeqInduct
<1>4. c \in P
  <2> HIDE DEF P
  <2> QED
    BY <1>3
<1> QED
  BY <1>4 DEF Even

LEMMA BaseIsGood == Base \in Good
<1>1. /\ Base \in Request
      /\ \A t \in SurfaceType : \A i \in DOMAIN Base.layers[t] : Base.layers[t][i].thickness % 2 = 0
  BY SweepAssumption
<1>2. /\ Base = [layers |-> Base.layers, area |-> Base.area, window |-> Base.window,
                 storage |-> Base.storage, ach |-> Base.ach]
      /\ Base.layers \in [SurfaceType -> Seq(Layer)] /\ Base.area \in Nat /\ Base.window \in Nat
      /\ Base.storage \in SUBSET Storage /\ Base.ach \in Nat
  BY <1>1 DEF Request
<1>3. \A t \in SurfaceType : Base.layers[t] \in EvenLayers
  <2> TAKE t \in SurfaceType
  <2> DEFINE c == Base.layers[t]
  <2>1. c \in Seq(Layer) /\ \A i \in DOMAIN c : c[i].thickness % 2 = 0
    BY <1>1, <1>2
  <2> HIDE DEF c
  <2>2. c \in EvenLayers
    BY <2>1, EvenThicknesses DEF EvenLayers
  <2> QED
    BY <2>2 DEF c
<1>4. Base.layers \in [SurfaceType -> EvenLayers]
  BY <1>2, <1>3
<1> QED
  BY <1>2, <1>4 DEF Good

(* What a variant is made by: the value of each variable, one after the other. *)
Picked(specs, ix, k) == specs[k].values[ix[k] + 1]
Applying(specs, ix) ==
  [k \in 1..Len(specs) |-> [r \in Good |-> Choose(r, specs[k].kind, Picked(specs, ix, k))]]
Applies(specs, ix) ==
  \A k \in 1..Len(specs) : /\ MayBeAsked(specs[k].kind, Picked(specs, ix, k))
                           /\ Applicable(specs[k].kind, Picked(specs, ix, k))

(* Variant() is a run through the variables. *)
LEMMA VariantRuns ==
  ASSUME NEW specs, Lists(specs), NEW ix, Applies(specs, ix)
  PROVE  \E it : Runs(it, Len(specs), Good, Base, Applying(specs, ix)) /\ Variant(Base, specs, ix) = it[Len(specs)]
<1> DEFINE n == Len(specs)
           op == Applying(specs, ix)
           f == [s \in DOMAIN specs |-> s]
           Body(h) == [u \in SUBSET DOMAIN f |->
                         IF u = {} THEN Base
                         ELSE LET x == Max(u)
                              IN Choose(h[u \ {x}], specs[f[x]].kind, specs[f[x]].values[ix[f[x]] + 1])]
           it == CHOOSE h : h = Body(h)
<1>0. n \in Nat /\ DOMAIN specs = 1..n /\ DOMAIN f = 1..n
  BY DEF Lists
<1>1. Variant(Base, specs, ix) = it[DOMAIN f]
  BY DEF Variant, FoldLeft, MapThenFoldSet
<1>2. Combines(op, 1..n, Good) /\ Base \in Good
  <2>1. ASSUME NEW k \in 1..n, NEW r \in Good PROVE op[k][r] \in Good
    <3>1. op[k][r] = Choose(r, specs[k].kind, Picked(specs, ix, k))
      BY DEF Applying
    <3>2. MayBeAsked(specs[k].kind, Picked(specs, ix, k)) /\ Applicable(specs[k].kind, Picked(specs, ix, k))
      BY DEF Applies
    <3>3. Choose(r, specs[k].kind, Picked(specs, ix, k)) \in Good
      BY <3>2, ChooseLayers
    <3> HIDE DEF op
    <3> QED
      BY <3>1, <3>3
  <2> HIDE DEF op, n
  <2> QED
    BY <2>1, BaseIsGood DEF Combines
<1>4. ASSUME NEW k \in 1..n, NEW r \in Good
      PROVE  op[k][r] = Choose(r, specs[f[k]].kind, specs[f[k]].values[ix[f[k]] + 1])
  BY <1>0 DEF Applying, Picked
<1>3. PICK g : /\ g \in [SUBSET (1..n) -> Good]
               /\ \A u \in SUBSET (1..n) : g[u] = IF u = {} THEN Base ELSE op[Max(u)][g[u \ {Max(u)}]]
  <2> HIDE DEF op, n
  <2>1. \E g : FromLast(g, n, Good, Base, op)
    BY <1>0, <1>2, FromTheLast
  <2> QED
    BY <2>1 DEF FromLast
<1>5. ASSUME NEW u \in SUBSET (1..n), u # {} PROVE Max(u) \in 1..n
  BY <1>0, <1>5, MaxOf
<1> HIDE DEF f
<1>6. g = Body(g)
  <2>1. ASSUME NEW u \in SUBSET (1..n)
        PROVE  g[u] = IF u = {} THEN Base
                      ELSE LET x == Max(u)
                           IN Choose(g[u \ {x}], specs[f[x]].kind, specs[f[x]].values[ix[f[x]] + 1])
    <3>1. CASE u = {}
      BY <1>3, <3>1
    <3>2. CASE u # {}
      <4>1. Max(u) \in 1..n /\ g[u \ {Max(u)}] \in Good
        BY <1>3, <1>5, <3>2
      <4> HIDE DEF op, n
      <4> QED
        BY <1>3, <1>4, <3>2, <4>1
    <3> QED
      BY <3>1, <3>2
  <2> QED
    BY <1>0, <1>3, <2>1
<1>7. it = Body(it)
  BY <1>6
<1> HIDE DEF it
<1>8. \A u \in SUBSET (1..n) : u = {} => it[u] = Base
  BY <1>0, <1>7
<1>9. \A u \in SUBSET (1..n) : u # {} /\ it[u \ {Max(u)}] \in Good => it[u] = op[Max(u)][it[u \ {Max(u)}]]
  <2> SUFFICES ASSUME NEW u \in SUBSET (1..n), u # {}, it[u \ {Max(u)}] \in Good
               PROVE  it[u] = op[Max(u)][it[u \ {Max(u)}]]
    OBVIOUS
  <2>1. it[u] = Choose(it[u \ {Max(u)}], specs[f[Max(u)]].kind, specs[f[Max(u)]].values[ix[f[Max(u)]] + 1])
    BY <1>0, <1>7
  <2>2. Max(u) \in 1..n
    BY <1>5
  <2> HIDE DEF op, n
  <2> QED
    BY <1>4, <2>1, <2>2
<1> DEFINE runs == [k \in 0..n |-> it[1..k]]
<1>10. Runs(runs, n, Good, Base, op)
  <2> HIDE DEF op, n
  <2> QED
    BY <1>0, <1>2, <1>8, <1>9, InTheirOrder
<1>11. runs[n] = it[1..n]
  BY <1>0
<1>12. Runs(runs, Len(specs), Good, Base, Applying(specs, ix)) /\ Variant(Base, specs, ix) = runs[Len(specs)]
  BY <1>0, <1>1, <1>10, <1>11
<1> QED
  BY <1>12

LayersAlike(r, q) == \A t \in SurfaceType : Alike(r.layers[t], q.layers[t])

(* Two requests that weigh alike still do after the same choice, or after any two places  *)
(* for the insulation.                                                                    *)
LEMMA StepAlike ==
  ASSUME NEW r \in Good, NEW q \in Good, LayersAlike(r, q), NEW kind, NEW v, NEW w,
         MayBeAsked(kind, v), Applicable(kind, v), MayBeAsked(kind, w), Applicable(kind, w),
         v = w \/ kind = "insulationPosition"
  PROVE  LayersAlike(Choose(r, kind, v), Choose(q, kind, w))
<1> SUFFICES ASSUME NEW t \in SurfaceType
             PROVE  Alike(Choose(r, kind, v).layers[t], Choose(q, kind, w).layers[t])
  BY DEF LayersAlike
<1> DEFINE c == r.layers[t]
           d == q.layers[t]
<1>1. Choose(r, kind, v).layers[t] = After(kind, v, t, c) /\ Choose(q, kind, w).layers[t] = After(kind, w, t, d)
  BY ChooseLayers
<1>2. c \in EvenLayers /\ d \in EvenLayers /\ Alike(c, d)
  BY DEF Good, LayersAlike
<1> HIDE DEF c, d
<1>3. CASE v = w
  <2>1. Alike(After(kind, v, t, c), After(kind, v, t, d))
    BY <1>2, AfterKeeps
  <2> QED
    BY <1>1, <1>3, <2>1
<1>4. CASE kind = "insulationPosition"
  <2>1. Alike(After(kind, v, t, c), c) /\ Alike(After(kind, w, t, d), d)
    BY <1>2, <1>4, AfterKeeps
  <2> QED
    BY <1>1, <1>2, <2>1 DEF Alike
<1> QED
  BY <1>3, <1>4

(* Hence two variants that differ only in where the insulation sits weigh alike on every  *)
(* surface.                                                                               *)
LEMMA VariantsAlike ==
  ASSUME NEW specs, Lists(specs), NEW c, NEW d, Applies(specs, c), Applies(specs, d),
         \A s \in 1..Len(specs) : c[s] # d[s] => specs[s].kind = "insulationPosition"
  PROVE  /\ Variant(Base, specs, c) \in Good /\ Variant(Base, specs, d) \in Good
         /\ LayersAlike(Variant(Base, specs, c), Variant(Base, specs, d))
<1> DEFINE n == Len(specs)
<1>0. n \in Nat
  BY DEF Lists
<1>1. PICK it : Runs(it, n, Good, Base, Applying(specs, c)) /\ Variant(Base, specs, c) = it[n]
  BY VariantRuns
<1>2. PICK jt : Runs(jt, n, Good, Base, Applying(specs, d)) /\ Variant(Base, specs, d) = jt[n]
  BY VariantRuns
<1>3. /\ it \in [0..n -> Good] /\ it[0] = Base /\ \A k \in 1..n : it[k] = Applying(specs, c)[k][it[k - 1]]
      /\ jt \in [0..n -> Good] /\ jt[0] = Base /\ \A k \in 1..n : jt[k] = Applying(specs, d)[k][jt[k - 1]]
  BY <1>1, <1>2 DEF Runs
<1> DEFINE G == {k \in Nat : k <= n => LayersAlike(it[k], jt[k])}
<1>4. 0 \in G
  BY <1>3 DEF LayersAlike, Alike
<1>5. ASSUME NEW k \in G PROVE k + 1 \in G
  <2> SUFFICES ASSUME k + 1 <= n PROVE LayersAlike(it[k + 1], jt[k + 1])
    OBVIOUS
  <2> DEFINE s == k + 1
             kind == specs[s].kind
             v == Picked(specs, c, s)
             w == Picked(specs, d, s)
  <2>1. s \in 1..n /\ s - 1 = k /\ k \in 0..n /\ LayersAlike(it[k], jt[k])
    BY <1>0
  <2> HIDE DEF s
  <2>2. it[k] \in Good /\ jt[k] \in Good /\ it[s] = Applying(specs, c)[s][it[k]] /\ jt[s] = Applying(specs, d)[s][jt[k]]
    BY <1>3, <2>1
  <2>3. it[s] = Choose(it[k], kind, v) /\ jt[s] = Choose(jt[k], kind, w)
    BY <2>1, <2>2 DEF Applying
  <2>4. /\ MayBeAsked(kind, v) /\ Applicable(kind, v) /\ MayBeAsked(kind, w) /\ Applicable(kind, w)
    BY <2>1 DEF Applies
  <2>5. v = w \/ kind = "insulationPosition"
    BY <2>1 DEF Picked
  <2> HIDE DEF kind, v, w
  <2>6. LayersAlike(it[s], jt[s])
    BY <2>1, <2>2, <2>3, <2>4, <2>5, StepAlike
  <2> QED
    BY <2>6 DEF s
<1>6. G = Nat
  <2>1. G \in SUBSET Nat
    OBVIOUS
  <2> HIDE DEF G
  <2> QED
    BY <1>4, <1>5, <2>1, Induct
<1>7. LayersAlike(it[n], jt[n])
  <2>1. n \in G
    <3> HIDE DEF G
    <3> QED
      BY <1>0, <1>6
  <2> QED
    BY <1>0, <2>1
<1>8. it[n] \in Good /\ jt[n] \in Good
  BY <1>0, <1>3
<1> QED
  BY <1>1, <1>2, <1>7, <1>8

(* The thickness of a material is a fair weight. *)
LEMMA ThicknessIsFair ==
  ASSUME NEW m
  PROVE  ThicknessOf(m) \in Fair
<1>1. \A l \in Layer : l.thickness \in Nat
  BY DEF Layer
<1>2. ThicknessOf(m) \in [Layer -> Nat]
  BY <1>1 DEF ThicknessOf
<1>3. ASSUME NEW l \in Mass, NEW h \in Mass, l.material = h.material, l.thickness = 2 * h.thickness
      PROVE  ThicknessOf(m)[l] = 2 * ThicknessOf(m)[h]
  <2>1. l \in Layer /\ h \in Layer /\ h.thickness \in Nat
    BY <1>1 DEF Mass
  <2> QED
    BY <1>3, <2>1 DEF ThicknessOf
<1> QED
  BY <1>2, <1>3 DEF Fair

(* Every digit of a variant stands for a value that may be asked and can be applied. *)
LEMMA ChoiceApplies ==
  ASSUME ExpandedAsAsked, NEW i \in DOMAIN expanded
  PROVE  Applies(sweep.variables, expanded[i].choice)
<1> DEFINE specs == sweep.variables
           n == Len(specs)
           W == Weights(specs)
           L == Places(specs)
           ix == expanded[i].choice
<1>0. Lists(specs) /\ sweep \in Sweeps /\ Odometer(n, W, L)
  BY ChoicesShow, SweepIsOdometer DEF ExpandedAsAsked
<1>1. i - 1 \in Nat /\ i - 1 < W[0] /\ ix = Shown(i - 1, n, W, L)
  BY ChoicesShow
<1>2. W[0] > 0
  <2>1. W[0] \in Nat
    BY <1>0 DEF Odometer
  <2> QED
    BY <1>1, <2>1
<1>3. ASSUME NEW s \in 1..n PROVE ix[s] + 1 \in 1..L[s]
  <2> DEFINE w == W[s]
             l == L[s]
             k == i - 1
  <2>1. w \in Nat /\ w > 0 /\ l \in Nat /\ l > 0
    <3>1. s \in 0..n
      BY <1>0 DEF Odometer
    <3> HIDE DEF n, W, L
    <3> QED
      BY <1>0, <1>2, <3>1, WheelsTurn
  <2>2. ix[s] = (k \div w) % l
    BY <1>1 DEF Shown, DigitOf
  <2>3. k \in Nat
    BY <1>1
  <2> HIDE DEF w, l, k
  <2>4. (k \div w) % l \in 0..(l - 1)
    BY <2>1, <2>3, SplitModulo
  <2>5. ((k \div w) % l) + 1 \in 1..l
    BY <2>1, <2>4
  <2> QED
    BY <2>2, <2>5 DEF l
<1>4. expanded # <<>>
  OBVIOUS
<1>5. expanded = ExpandVariants(Base, sweep) /\ Expands(sweep)
  BY <1>4 DEF ExpandedAsAsked
<1>6. i \in 1..Count(sweep) /\ ix = Indices(sweep)[i]
  BY <1>5 DEF ExpandVariants
<1>7. ASSUME NEW s \in 1..n
      PROVE  MayBeAsked(specs[s].kind, Picked(specs, ix, s)) /\ Applicable(specs[s].kind, Picked(specs, ix, s))
  <2>1. s \in DOMAIN specs
    BY <1>0 DEF Lists
  <2>2. Applicable(specs[s].kind, specs[s].values[Indices(sweep)[i][s] + 1])
    BY <1>5, <1>6, <2>1 DEF Expands
  <2>3. L[s] = Len(specs[s].values)
    BY DEF Places
  <2>4. DOMAIN specs[s].values = 1..Len(specs[s].values)
        /\ \A j \in DOMAIN specs[s].values : MayBeAsked(specs[s].kind, specs[s].values[j])
    BY <1>0, <2>1, SweepAssumption DEF IsList
  <2>5. ix[s] + 1 \in DOMAIN specs[s].values
    BY <1>3, <2>3, <2>4
  <2> HIDE DEF ix
  <2> QED
    BY <1>6, <2>2, <2>4, <2>5 DEF Picked
<1> QED
  BY <1>7 DEF Applies

(* The thickness of every material on every surface is the same in two variants that      *)
(* differ only in where the insulation sits (118-123).                                    *)
LEMMA PositionHolds ==
  ASSUME ExpandedAsAsked
  PROVE  PositionKeepsThickness
<1> SUFFICES ASSUME NEW i \in DOMAIN expanded, NEW j \in DOMAIN expanded,
                    OnlyPositionDiffers(expanded[i].choice, expanded[j].choice),
                    NEW t \in SurfaceType, NEW m \in Material
             PROVE  Thickness(expanded[i].request.layers[t], m) = Thickness(expanded[j].request.layers[t], m)
  BY DEF PositionKeepsThickness
<1> DEFINE specs == sweep.variables
           c == expanded[i].choice
           d == expanded[j].choice
<1>1. /\ Lists(specs) /\ expanded[i].request = Variant(Base, specs, c)
      /\ expanded[j].request = Variant(Base, specs, d)
  <2>1. /\ Lists(specs)
        /\ \A k \in DOMAIN expanded : expanded[k] = [choice |-> expanded[k].choice,
                                request |-> Variant(Base, specs, expanded[k].choice)]
    BY ChoicesShow
  <2>2. ASSUME NEW k \in DOMAIN expanded
        PROVE  expanded[k].request = Variant(Base, specs, expanded[k].choice)
    <3>1. expanded[k] = [choice |-> expanded[k].choice, request |-> Variant(Base, specs, expanded[k].choice)]
      BY <2>1
    <3> DEFINE x == expanded[k].choice
               y == Variant(Base, specs, expanded[k].choice)
    <3>2. expanded[k] = [choice |-> x, request |-> y]
      BY <3>1
    <3> HIDE DEF x, y
    <3>3. expanded[k].request = y
      BY <3>2
    <3> QED
      BY <3>3 DEF y
  <2> QED
    BY <2>1, <2>2
<1>2. Applies(specs, c) /\ Applies(specs, d)
  BY ChoiceApplies
<1>3. \A s \in 1..Len(specs) : c[s] # d[s] => specs[s].kind = "insulationPosition"
  BY <1>1 DEF OnlyPositionDiffers, Lists
<1> HIDE DEF specs, c, d
<1> DEFINE r == Variant(Base, specs, c)
           q == Variant(Base, specs, d)
<1>4. r \in Good /\ q \in Good /\ LayersAlike(r, q)
  BY <1>1, <1>2, <1>3, VariantsAlike
<1> HIDE DEF r, q
<1>5. r.layers[t] \in Seq(Layer) /\ q.layers[t] \in Seq(Layer) /\ Alike(r.layers[t], q.layers[t])
  BY <1>4 DEF Good, EvenLayers, LayersAlike
<1>6. Thickness(r.layers[t], m) = Weigh(r.layers[t], ThicknessOf(m)) /\ Thickness(q.layers[t], m) = Weigh(q.layers[t], ThicknessOf(m))
  BY <1>5, ThicknessWeighs
<1>7. Weigh(r.layers[t], ThicknessOf(m)) = Weigh(q.layers[t], ThicknessOf(m))
  BY <1>5, ThicknessIsFair DEF Alike
<1> QED
  BY <1>1, <1>6, <1>7 DEF r, q

LEMMA ExpansionStands == SweepSpec => []ExpandedAsAsked
  BY ExpansionStarts, ExpansionKept, PTL DEF SweepSpec

(* For every base request with even thicknesses, catalogue and list of variables, the     *)
(* expansion is the prefix of the product of the variables, in the order of an odometer,  *)
(* and a new place for the insulation changes the thickness of nothing, whatever is       *)
(* applied before and after it.                                                           *)
THEOREM ExpansionFollows == SweepSpec => []ExpansionIsFaithful
<1>1. ExpandedAsAsked => ExpansionIsFaithful
  BY PrefixHolds, PositionHolds DEF ExpansionIsFaithful
<1> QED
  BY <1>1, ExpansionStands, PTL
================================================================================
