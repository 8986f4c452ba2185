----------------------------- MODULE LinearSolver -----------------------------
(* The linear solvers of packages/engine/src/solve: the tridiagonal and the bordered       *)
(* ("arrow") solver of schur.ts, and the dense LU and the Thomas algorithm of linalg.ts.   *)
(*                                                                                         *)
(* Numbers are the residues modulo a prime.  What the solvers compute are rational         *)
(* expressions of their inputs, and an identity between such expressions holds of reals    *)
(* only if it holds of residues wherever no divisor vanishes; so the residues tell a right *)
(* formula from a wrong one exactly, where floating point would need tolerances.  Rounding *)
(* is abstracted away, and "smaller than 1e-14" is "zero".  Vectors are sequences, so node  *)
(* i of the code is entry i + 1.                                                           *)
EXTENDS Integers, Sequences, SequencesExt, Functions

CONSTANT P  \* a prime below 2^15.5, so that products stay within 32 bits

ASSUME FieldAssumption == P \in 2..46340 /\ \A d \in 2..(P - 1) : d * d > P \/ P % d # 0

Residue == 0..(P - 1)
Plus(a, b)  == (a + b) % P
Minus(a, b) == (a - b) % P
Times(a, b) == (a * b) % P
Inverse1[a \in 1..(P - 1)] == IF a = 1 THEN 1 ELSE (P - (((P \div a) * Inverse1[P % a]) % P)) % P
Over(a, b)  == IF b = 0 THEN 0 ELSE Times(a, Inverse1[b])
Total(f) ==
  LET sum[k \in 0..Len(f)] == IF k = 0 THEN 0 ELSE Plus(sum[k - 1], f[k]) IN sum[Len(f)]


(* The same sequence, computed element by element once and for all. *)
Listed(f) == SubSeq(f, 1, Len(f))

Singular == [code |-> "SINGULAR_MATRIX"]

--------------------------------------------------------------------------------
(* triFactor() and triSolveAt(): the pivots m and the super-diagonal cp of an elimination *)
(* without pivoting, kept for many right-hand sides.                                      *)
TriFactor(sub, diag, sup) ==
  LET Pivot(m, i) == IF i = 1 THEN diag[1] ELSE Minus(diag[i], Times(sub[i], Over(sup[i - 1], m[i - 1])))
      m[i \in 0..Len(diag)] == IF i = 0 THEN <<>> ELSE LET done == m[i - 1] IN Append(done, Pivot(done, i))
      pivots == m[Len(diag)]
  IN IF 0 \in Range(pivots) THEN Singular
     ELSE [sub |-> sub, m |-> pivots, cp |-> Listed([i \in DOMAIN diag |-> Over(sup[i], pivots[i])])]

TriSolve(f, d) ==
  LET n == Len(f.m)
      Down(w, i) == Over(Minus(d[i], IF i = 1 THEN 0 ELSE Times(f.sub[i], w[i - 1])), f.m[i])
      w[i \in 0..n] == IF i = 0 THEN <<>> ELSE LET done == w[i - 1] IN Append(done, Down(done, i))
      below == w[n]
      Up(x, i) == Minus(below[i], IF i = n THEN 0 ELSE Times(f.cp[i], Head(x)))
      x[i \in 1..(n + 1)] == IF i = n + 1 THEN <<>> ELSE LET done == x[i + 1] IN <<Up(done, i)>> \o done
  IN x[1]

(* thomas(): the same elimination with one right-hand side, in one pass. *)
Thomas(a, b, c, d) ==
  LET n == Len(b)
      Row(done, i) ==
        LET m == IF i = 1 THEN b[1] ELSE Minus(b[i], Times(a[i], Last(done).cp))
            over == IF i = 1 THEN d[1] ELSE Minus(d[i], Times(a[i], Last(done).dp))
        IN [m |-> m, cp |-> Over(c[i], m), dp |-> Over(over, m)]
      rows[i \in 0..n] == IF i = 0 THEN <<>> ELSE LET done == rows[i - 1] IN Append(done, Row(done, i))
      swept == rows[n]
      Up(x, i) == Minus(swept[i].dp, IF i = n THEN 0 ELSE Times(swept[i].cp, Head(x)))
      x[i \in 1..(n + 1)] == IF i = n + 1 THEN <<>> ELSE LET done == x[i + 1] IN <<Up(done, i)>> \o done
  IN IF \E i \in 1..n : swept[i].m = 0 THEN Singular ELSE [x |-> x[1]]

--------------------------------------------------------------------------------
(* factorArrow(): chains are tridiagonal and only the last node of each touches the air    *)
(* (-hiA) and the radiant star (-hrIA), so what is left after eliminating them is 2 by 2.  *)
(* Where nothing radiates the star's row is T_star - T_air = 0.                            *)
LastNode(ch) == Len(ch.diag)
AirColumn(ch) == [i \in DOMAIN ch.diag |-> IF i = LastNode(ch) THEN Minus(0, ch.hiA) ELSE 0]
StarColumnOutside(ch) == [i \in DOMAIN ch.diag |-> IF i = 1 THEN Minus(0, ch.hrIA) ELSE 0]
StarColumn(ch) == [i \in DOMAIN ch.diag |-> IF i = LastNode(ch) THEN Minus(0, ch.hrIA) ELSE 0]
ChainFactors(ch) ==
  LET tri == TriFactor(ch.sub, ch.diag, ch.sup)
  IN IF tri = Singular THEN Singular
     ELSE [offset |-> ch.offset, n |-> LastNode(ch), tri |-> tri, hiA |-> ch.hiA, hrIA |-> ch.hrIA,
           invKtoAir |-> TriSolve(tri, AirColumn(ch)), invKtoStar |-> TriSolve(tri, StarColumn(ch))]

FactorArrow(chains, dAir, dStar, tieStarToAir) ==
  LET fs == Listed([s \in DOMAIN chains |-> ChainFactors(chains[s])])
      Sum(h, inv) == Total([s \in DOMAIN fs |-> Times(fs[s][h], fs[s][inv][fs[s].n])])
      s00 == Plus(dAir, Sum("hiA", "invKtoAir"))
      s01 == Sum("hiA", "invKtoStar")
      s10 == IF tieStarToAir THEN P - 1 ELSE Sum("hrIA", "invKtoAir")
      s11 == IF tieStarToAir THEN 1 ELSE Plus(dStar, Sum("hrIA", "invKtoStar"))
      det == Minus(Times(s00, s11), Times(s01, s10))
  IN IF Singular \in Range(fs) THEN Singular
     ELSE IF det = 0 THEN Singular
     ELSE [chains |-> fs, sInv |-> << Over(s11, det), Over(P - s01, det), Over(P - s10, det), Over(s00, det) >>]

(* solveArrow(). *)
SolveArrow(f, b, airIndex, starIndex) ==
  LET w == Listed([s \in DOMAIN f.chains |->
                     LET ch == f.chains[s] IN TriSolve(ch.tri, SubSeq(b, ch.offset, ch.offset + ch.n - 1))])
      Reduced(z, h) == Plus(b[z], Total([s \in DOMAIN w |-> Times(f.chains[s][h], Last(w[s]))]))
      rhsAir == Reduced(airIndex, "hiA")
      rhsStar == Reduced(starIndex, "hrIA")
      tAir == Plus(Times(f.sInv[1], rhsAir), Times(f.sInv[2], rhsStar))
      tStar == Plus(Times(f.sInv[3], rhsAir), Times(f.sInv[4], rhsStar))
      Of(i) == CHOOSE s \in DOMAIN w : i \in f.chains[s].offset..(f.chains[s].offset + f.chains[s].n - 1)
      Chained(ch, v, k) == Minus(v[k], Plus(Times(ch.invKtoAir[k], tAir), Times(ch.invKtoStar[k], tStar)))
  IN Listed([i \in DOMAIN b |->
        CASE i = airIndex -> tAir [] i = starIndex -> tStar
          [] OTHER -> Chained(f.chains[Of(i)], w[Of(i)], i - f.chains[Of(i)].offset + 1)])

--------------------------------------------------------------------------------
(* luFactor() and luSolve(): dense, rows exchanged for the pivot of largest magnitude.  A  *)
(* residue's magnitude is its distance from zero; any order will do.                       *)
Magnitude(v) == IF 2 * v < P THEN v ELSE P - v

Eliminate(st, k) ==
  LET n == Len(st.lu)
      Size(i) == Magnitude(st.lu[i][k])
      maxRow == CHOOSE r \in k..n : \A i \in k..n : Size(r) > Size(i) \/ (Size(r) = Size(i) /\ r <= i)
      Swapped(i) == IF i = k THEN maxRow ELSE IF i = maxRow THEN k ELSE i
      pivot == st.lu[maxRow]
      Reduce(row) ==
        LET f == Over(row[k], pivot[k])
        IN Listed([j \in 1..n |-> CASE j < k -> row[j] [] j = k -> f [] j > k -> Minus(row[j], Times(f, pivot[j]))])
  IN [lu  |-> Listed([i \in 1..n |-> IF i <= k THEN st.lu[Swapped(i)] ELSE Reduce(st.lu[Swapped(i)])]),
      piv |-> Listed([i \in 1..n |-> st.piv[Swapped(i)]]),
      ok  |-> st.ok /\ pivot[k] # 0]

LuFactor(a) ==
  LET start == [lu |-> a, piv |-> [i \in DOMAIN a |-> i], ok |-> TRUE]
      after[k \in 0..Len(a)] == IF k = 0 THEN start ELSE LET st == after[k - 1] IN Eliminate(st, k)
      last == after[Len(a)]
  IN IF last.ok THEN last ELSE Singular

LuSolve(f, b) ==
  LET n == Len(b)
      Dot(row, v) == Total([j \in 1..Len(v) |-> Times(row[j], v[j])])
      y[i \in 0..n] == IF i = 0 THEN <<>>
                        ELSE LET done == y[i - 1] IN Append(done, Minus(b[f.piv[i]], Dot(f.lu[i], done)))
      lower == y[n]
      Up(x, i) == Over(Minus(lower[i], Total([j \in 1..(n - i) |-> Times(f.lu[i][i + j], x[j])])), f.lu[i][i])
      x[i \in 1..(n + 1)] == IF i = n + 1 THEN <<>> ELSE LET done == x[i + 1] IN <<Up(done, i)>> \o done
  IN x[1]

--------------------------------------------------------------------------------
(* The dense matrix an arrow stands for, schur.ts 17-25. *)
ArrowMatrix(chains, dAir, dStar, tieStarToAir, airIndex, starIndex, n) ==
  LET In(i, s) == i - chains[s].offset + 1 \in DOMAIN chains[s].diag
      Of(i) == CHOOSE s \in DOMAIN chains : In(i, s)
      At(i, s) == i - chains[s].offset + 1
      Border(i, h) == LET s == Of(i) IN IF At(i, s) = LastNode(chains[s]) THEN Minus(0, chains[s][h]) ELSE 0
      Inner(i, j) == LET s == Of(i)
                     IN CASE i = j -> chains[s].diag[At(i, s)]
                          [] j = i - 1 /\ In(j, s) -> chains[s].sub[At(i, s)]
                          [] j = i + 1 /\ In(j, s) -> chains[s].sup[At(i, s)]
                          [] OTHER -> 0
      Fabric(i) == i \notin {airIndex, starIndex}
      Entry(i, j) ==
        CASE i = airIndex /\ j = airIndex -> dAir
          [] i = airIndex /\ j = starIndex -> 0
          [] i = starIndex /\ j = starIndex -> IF tieStarToAir THEN 1 ELSE dStar
          [] i = starIndex /\ j = airIndex -> IF tieStarToAir THEN P - 1 ELSE 0
          [] i = airIndex /\ Fabric(j) -> Border(j, "hiA")
          [] i = starIndex /\ Fabric(j) -> IF tieStarToAir THEN 0 ELSE Border(j, "hrIA")
          [] Fabric(i) /\ j = airIndex -> Border(i, "hiA")
          [] Fabric(i) /\ j = starIndex -> Border(i, "hrIA")
          [] OTHER -> Inner(i, j)
  IN Listed([i \in 1..n |-> Listed([j \in 1..n |-> Entry(i, j)])])

(* residualInf() is zero. *)
Solves(a, x, b) == \A i \in DOMAIN a : Total([j \in DOMAIN x |-> Times(a[i][j], x[j])]) = b[i]
================================================================================
