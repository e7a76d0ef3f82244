---------------------------- MODULE FoldTheorems ----------------------------
(***************************************************************************)
(* What the folds and the sums of the community modules compute, for every *)
(* finite set.  The library's induction theorems take operators as         *)
(* parameters; here induction is the choice of a minimal counterexample,   *)
(* and the step of a fold is a function.                                   *)
(***************************************************************************)
EXTENDS Integers, FiniteSets, FiniteSetsExt, Functions, FiniteSetTheorems, TLAPS

-----------------------------------------------------------------------------
(* Induction                                                               *)

(* Among finite sets there is one that contains no other.                  *)
LEMMA MinimalSet ==
  ASSUME NEW C, C # {}, \A c \in C : IsFiniteSet(c)
  PROVE  \E x \in C : \A y \in C : y \subseteq x => y = x
<1> DEFINE S == UNION C
<1>1. C \subseteq FiniteSubsetsOf(S)
  BY DEF FiniteSubsetsOf
<1>2. PICK x \in C : \A y \in C : ~ (<<y, x>> \in StrictSubsetOrdering(S))
  BY <1>1, FS_StrictSubsetOrderingWellFounded, WFMin, Zenon
<1>3. ASSUME NEW y \in C, y \subseteq x, y # x PROVE FALSE
  <2>1. <<y, x>> \in StrictSubsetOrdering(S)
    BY <1>3 DEF StrictSubsetOrdering
  <2> QED
    BY <2>1, <1>2
<1> QED
  BY <1>3

(* Every non-empty set of natural numbers has a least element.             *)
LEMMA LeastNatural ==
  ASSUME NEW T, T \subseteq Nat, T # {}
  PROVE  \E n \in T : \A m \in T : n <= m
<1> DEFINE C == {0 .. n : n \in T}
<1>1. C # {}
  OBVIOUS
<1>2. \A c \in C : IsFiniteSet(c)
  BY FS_Interval
<1>3. PICK c \in C : \A y \in C : y \subseteq c => y = c
  <2> HIDE DEF C
  <2> QED BY <1>1, <1>2, MinimalSet
<1>4. PICK n \in T : c = 0 .. n
  OBVIOUS
<1>5. ASSUME NEW m \in T PROVE n <= m
  <2> SUFFICES ASSUME m < n PROVE FALSE
    OBVIOUS
  <2>1. 0 .. m \subseteq 0 .. n /\ n \in 0 .. n /\ n \notin 0 .. m
    OBVIOUS
  <2> QED
    BY <2>1, <1>3, <1>4
<1> QED
  BY <1>5

(* Induction over the natural numbers, for a set of them.                  *)
LEMMA NaturalInduction ==
  ASSUME NEW P, 0 \in P, \A n \in Nat : n \in P => n + 1 \in P
  PROVE  Nat \subseteq P
<1> SUFFICES ASSUME Nat \ P # {} PROVE FALSE
  OBVIOUS
<1>1. PICK n \in Nat \ P : \A m \in Nat \ P : n <= m
  BY LeastNatural
<1>2. n - 1 \in Nat /\ n - 1 \in P
  BY <1>1
<1> QED
  BY <1>2

(* Induction over a finite set, for a set of its subsets.                  *)
LEMMA FiniteInduction ==
  ASSUME NEW S, IsFiniteSet(S), NEW P, {} \in P,
         \A T \in SUBSET S, x \in S : T \in P /\ x \notin T => T \cup {x} \in P
  PROVE  S \in P
<1> DEFINE Bad == (SUBSET S) \ P
<1> SUFFICES ASSUME Bad # {} PROVE FALSE
  OBVIOUS
<1>1. \A s \in Bad : IsFiniteSet(s)
  BY FS_Subset
<1>2. PICK s \in Bad : \A y \in Bad : y \subseteq s => y = s
  <2> HIDE DEF Bad
  <2> QED BY <1>1, MinimalSet
<1>3. PICK x : x \in s
  OBVIOUS
<1>4. s \ {x} \in P /\ s \ {x} \in SUBSET S /\ x \in S
  BY <1>2, <1>3
<1>5. (s \ {x}) \cup {x} \in P
  BY <1>4
<1>6. (s \ {x}) \cup {x} = s
  BY <1>3
<1> QED
  BY <1>5, <1>6

(* A finite set that is totally ordered by R has a last element.           *)
LEMMA FiniteOrderLast ==
  ASSUME NEW S, IsFiniteSet(S), S # {}, NEW R,
         \A x, y \in S : x = y \/ <<x, y>> \in R \/ <<y, x>> \in R,
         \A x, y, z \in S : <<x, y>> \in R /\ <<y, z>> \in R => <<x, z>> \in R
  PROVE  \E m \in S : \A x \in S : x = m \/ <<x, m>> \in R
<1> DEFINE Last(T, m) == m \in T /\ \A x \in T : x = m \/ <<x, m>> \in R
           P == {T \in SUBSET S : T # {} => \E m \in T : Last(T, m)}
<1>1. {} \in P
  OBVIOUS
<1>2. ASSUME NEW T \in SUBSET S, NEW x \in S, T \in P, x \notin T
      PROVE  T \cup {x} \in P
  <2>1. CASE T = {}
    <3>1. Last(T \cup {x}, x)
      BY <2>1
    <3> QED BY <3>1
  <2>2. CASE T # {}
    <3>1. PICK m \in T : Last(T, m)
      BY <1>2, <2>2
    <3>2. CASE <<m, x>> \in R
      <4>1. \A y \in T : <<y, x>> \in R
        BY <3>1, <3>2
      <4>2. Last(T \cup {x}, x)
        BY <4>1
      <4> QED BY <4>2
    <3>3. CASE <<m, x>> \notin R
      <4>1. <<x, m>> \in R
        BY <1>2, <3>1, <3>3
      <4>2. Last(T \cup {x}, m)
        BY <4>1, <3>1
      <4> QED BY <4>2
    <3> QED
      BY <3>2, <3>3
  <2> QED
    BY <2>1, <2>2
<1>3. S \in P
  <2> HIDE DEF P
  <2> QED BY <1>1, <1>2, FiniteInduction
<1> QED
  BY <1>3

(* A finite set of integers has a maximum.                                 *)
LEMMA FiniteMaximum ==
  ASSUME NEW S, IsFiniteSet(S), S # {}, S \subseteq Int
  PROVE  \E m \in S : \A x \in S : x <= m
<1> DEFINE R == {p \in Int \X Int : p[1] <= p[2]}
<1>1. \A x, y \in Int : <<x, y>> \in R <=> x <= y
  OBVIOUS
<1>2. /\ \A x, y \in S : x = y \/ <<x, y>> \in R \/ <<y, x>> \in R
      /\ \A x, y, z \in S : <<x, y>> \in R /\ <<y, z>> \in R => <<x, z>> \in R
  <2> HIDE DEF R
  <2> QED BY <1>1
<1>3. PICK m \in S : \A x \in S : x = m \/ <<x, m>> \in R
  <2> HIDE DEF R
  <2> QED BY <1>2, FiniteOrderLast
<1>4. \A x \in S : x <= m
  <2> TAKE x \in S
  <2>1. x \in Int /\ m \in Int /\ (x = m \/ <<x, m>> \in R)
    BY <1>3
  <2> HIDE DEF R
  <2> QED BY <2>1, <1>1
<1> QED
  BY <1>4

-----------------------------------------------------------------------------
(* Folds                                                                   *)

(* c picks the element of a set that is folded in last.                    *)
FoldEquation(g, F, b, c, S) ==
  g = [s \in SUBSET S |-> IF s = {} THEN b ELSE F[c[s]][g[s \ {c[s]}]]]

FoldPicks(c, S) == \A s \in SUBSET S : s # {} => c[s] \in s

FoldSteps(F, S, B) == F \in [S -> [B -> B]]

IsFold(g, F, b, c, S, B) ==
  g \in [SUBSET S -> B] /\ FoldEquation(g, F, b, c, S)

(* Solutions of the equation agree where both are defined.                 *)
LEMMA FoldUnique ==
  ASSUME NEW S, IsFiniteSet(S), NEW b, NEW F, NEW c,
         \A s \in SUBSET S : s # {} => c[s] \in s,
         NEW u \in SUBSET S, NEW v \in SUBSET u, NEW g, NEW h,
         FoldEquation(g, F, b, c, u), FoldEquation(h, F, b, c, v)
  PROVE  g[v] = h[v]
<1> DEFINE Bad == {s \in SUBSET v : g[s] # h[s]}
<1> SUFFICES ASSUME Bad # {} PROVE FALSE
  OBVIOUS
<1>1. \A s \in Bad : IsFiniteSet(s)
  BY FS_Subset
<1>2. PICK s \in Bad : \A y \in Bad : y \subseteq s => y = s
  <2> HIDE DEF Bad
  <2> QED BY <1>1, MinimalSet
<1>3. s # {}
  BY <1>2 DEF FoldEquation
<1>4. c[s] \in s /\ s \ {c[s]} \in SUBSET v
  BY <1>3
<1>5. g[s \ {c[s]}] = h[s \ {c[s]}]
  BY <1>4, <1>2
<1>6. g[s] = F[c[s]][g[s \ {c[s]}]]
  BY <1>3 DEF FoldEquation
<1>7. h[s] = F[c[s]][h[s \ {c[s]}]]
  BY <1>3 DEF FoldEquation
<1> QED
  BY <1>5, <1>6, <1>7

(* The equation of a fold over a finite set has a solution.                *)
LEMMA FoldExists ==
  ASSUME NEW S, IsFiniteSet(S), NEW B, NEW b \in B,
         NEW F, FoldSteps(F, S, B), NEW c, FoldPicks(c, S)
  PROVE  \E g : IsFold(g, F, b, c, S, B)
<1> USE DEF FoldSteps, FoldPicks, IsFold
<1> DEFINE Sol(g, s) == g \in [SUBSET s -> B] /\ FoldEquation(g, F, b, c, s)
           Bad == {s \in SUBSET S : \A g : ~Sol(g, s)}
           G(s) == CHOOSE g : Sol(g, s)
<1> SUFFICES ASSUME Bad # {} PROVE FALSE
  OBVIOUS
<1>1. \A s \in Bad : IsFiniteSet(s)
  BY FS_Subset
<1>2. PICK s \in Bad : \A y \in Bad : y \subseteq s => y = s
  <2> HIDE DEF Bad
  <2> QED BY <1>1, MinimalSet
<1>3. \A t \in SUBSET s : t # s => Sol(G(t), t)
  <2> TAKE t \in SUBSET s
  <2> SUFFICES ASSUME t # s PROVE \E g : Sol(g, t)
    OBVIOUS
  <2>1. t \notin Bad /\ t \in SUBSET S
    BY <1>2
  <2> QED
    BY <2>1
<1> DEFINE h == [t \in SUBSET s |-> IF t = {} THEN b
                   ELSE F[c[t]][G(t \ {c[t]})[t \ {c[t]}]]]
<1>4. ASSUME NEW t \in SUBSET s, t # {}
      PROVE  /\ c[t] \in t /\ t \ {c[t]} \in SUBSET s /\ t \ {c[t]} # s
             /\ t \ {c[t]} # t
  BY <1>4
<1>0. s \in SUBSET S
  OBVIOUS
<1> HIDE DEF Sol, G, Bad
<1>5. h \in [SUBSET s -> B]
  <2> SUFFICES ASSUME NEW t \in SUBSET s, t # {}
               PROVE  F[c[t]][G(t \ {c[t]})[t \ {c[t]}]] \in B
    OBVIOUS
  <2>1. Sol(G(t \ {c[t]}), t \ {c[t]})
    BY <1>3, <1>4
  <2>2. G(t \ {c[t]})[t \ {c[t]}] \in B
    BY <2>1 DEF Sol
  <2>3. c[t] \in S
    BY <1>4, <1>0
  <2> QED
    BY <2>2, <2>3
<1>6. ASSUME NEW u \in SUBSET s, u # s PROVE h[u] = G(u)[u]
  <2>1. Sol(G(u), u)
    BY <1>3, <1>6
  <2>2. CASE u = {}
    BY <2>1, <2>2 DEF Sol, FoldEquation
  <2>3. CASE u # {}
    <3> DEFINE v == u \ {c[u]}
    <3>1. v \in SUBSET u /\ v \in SUBSET s /\ v # s
      BY <1>4, <2>3
    <3>2. Sol(G(v), v)
      BY <3>1, <1>3
    <3>3. G(u)[u] = F[c[u]][G(u)[v]]
      BY <2>1, <2>3 DEF Sol, FoldEquation
    <3>4. G(u)[v] = G(v)[v]
      <4>1. FoldEquation(G(u), F, b, c, u) /\ FoldEquation(G(v), F, b, c, v)
        BY <2>1, <3>2 DEF Sol
      <4>2. u \in SUBSET S
        BY <1>0
      <4> HIDE DEF v
      <4> QED
        BY <4>1, <4>2, <3>1, FoldUnique
    <3>5. h[u] = F[c[u]][G(v)[v]]
      BY <2>3
    <3> QED
      BY <3>3, <3>4, <3>5
  <2> QED
    BY <2>2, <2>3
<1>7. FoldEquation(h, F, b, c, s)
  <2> SUFFICES ASSUME NEW t \in SUBSET s, t # {}
               PROVE  h[t] = F[c[t]][h[t \ {c[t]}]]
    BY DEF FoldEquation
  <2>1. h[t \ {c[t]}] = G(t \ {c[t]})[t \ {c[t]}]
    BY <1>4, <1>6
  <2> QED
    BY <2>1
<1>8. Sol(h, s)
  BY <1>5, <1>7 DEF Sol
<1> QED
  BY <1>8, <1>2 DEF Bad

-----------------------------------------------------------------------------
(* Sums of the values of a function over a finite set                      *)

Numeric(f, S) == IsFiniteSet(S) /\ \A x \in S : f[x] \in Int

Chosen(s) == CHOOSE x \in s : TRUE

(* SumFunctionOnSet satisfies its recursion.                               *)
LEMMA SumRecursion ==
  ASSUME NEW S, NEW f, Numeric(f, S)
  PROVE  /\ \A s \in SUBSET S : SumFunctionOnSet(f, s) \in Int
         /\ SumFunctionOnSet(f, {}) = 0
         /\ \A s \in SUBSET S : s # {} =>
              SumFunctionOnSet(f, s)
                = f[Chosen(s)] + SumFunctionOnSet(f, s \ {Chosen(s)})
<1> DEFINE F == [x \in S |-> [n \in Int |-> f[x] + n]]
           c == [s \in SUBSET S |-> Chosen(s)]
           Direct(g, s) == g = [t \in SUBSET s |-> IF t = {} THEN 0
                                  ELSE f[Chosen(t)] + g[t \ {Chosen(t)}]]
<1>1. \A s \in SUBSET S : s # {} => c[s] \in s
  BY DEF Chosen
<1>2. F \in [S -> [Int -> Int]]
  BY DEF Numeric
<1>3. PICK g \in [SUBSET S -> Int] : FoldEquation(g, F, 0, c, S)
  <2>1. IsFiniteSet(S) /\ FoldSteps(F, S, Int) /\ FoldPicks(c, S)
    BY <1>1, <1>2 DEF Numeric, FoldSteps, FoldPicks
  <2> HIDE DEF F, c, Direct
  <2>2. 0 \in Int
    OBVIOUS
  <2>3. \E g : IsFold(g, F, 0, c, S, Int)
    BY <2>1, <2>2, FoldExists, Zenon
  <2> QED
    BY <2>3 DEF IsFold
<1>4. g[{}] = 0
  BY <1>3 DEF FoldEquation
<1>5. ASSUME NEW t \in SUBSET S, t # {}
      PROVE  /\ Chosen(t) \in t /\ t \ {Chosen(t)} \in SUBSET S
             /\ g[t] = f[Chosen(t)] + g[t \ {Chosen(t)}]
  <2>1. Chosen(t) \in t /\ t \ {Chosen(t)} \in SUBSET S /\ c[t] = Chosen(t)
    BY <1>1, <1>5
  <2>2. g[t] = F[c[t]][g[t \ {c[t]}]]
    BY <1>3, <1>5 DEF FoldEquation
  <2>3. g[t \ {Chosen(t)}] \in Int /\ Chosen(t) \in S
    BY <2>1
  <2> QED
    BY <2>1, <2>2, <2>3
<1> HIDE DEF F, c
<1>6. ASSUME NEW s \in SUBSET S
      PROVE  SumFunctionOnSet(f, s) = g[s]
  <2> DEFINE h == CHOOSE h : Direct(h, s)
  <2>1. Direct([t \in SUBSET s |-> g[t]], s)
    BY <1>4, <1>5
  <2>2. Direct(h, s)
    BY <2>1
  <2>3. SumFunctionOnSet(f, s) = h[s]
    BY DEF SumFunctionOnSet, FoldFunctionOnSet, MapThenFoldSet, Chosen
  <2> HIDE DEF h
  <2> DEFINE Bad == {t \in SUBSET s : h[t] # g[t]}
  <2>4. SUFFICES ASSUME Bad # {} PROVE FALSE
    BY <2>3
  <2>5. \A t \in Bad : IsFiniteSet(t)
    BY FS_Subset DEF Numeric
  <2>6. PICK t \in Bad : \A y \in Bad : y \subseteq t => y = t
    <3> HIDE DEF Bad
    <3> QED BY <2>4, <2>5, MinimalSet
  <2>7. t # {}
    BY <2>2, <1>4
  <2>8. Chosen(t) \in t /\ g[t] = f[Chosen(t)] + g[t \ {Chosen(t)}]
    BY <1>5, <2>7
  <2>9. h[t] = f[Chosen(t)] + h[t \ {Chosen(t)}]
    BY <2>2, <2>7
  <2>10. h[t \ {Chosen(t)}] = g[t \ {Chosen(t)}]
    BY <2>6, <2>8
  <2> QED
    BY <2>8, <2>9, <2>10
<1> QED
  BY <1>4, <1>5, <1>6

(* A sum can be taken apart at any element.                                *)
LEMMA SumRemove ==
  ASSUME NEW S, NEW f, Numeric(f, S), NEW x \in S
  PROVE  SumFunctionOnSet(f, S) = f[x] + SumFunctionOnSet(f, S \ {x})
<1> DEFINE Sum(s) == SumFunctionOnSet(f, s)
           Bad == {s \in SUBSET S : \E y \in s : Sum(s) # f[y] + Sum(s \ {y})}
<1> SUFFICES ASSUME Bad # {} PROVE FALSE
  OBVIOUS
<1>1. \A s \in Bad : IsFiniteSet(s)
  BY FS_Subset DEF Numeric
<1>2. PICK s \in Bad : \A t \in Bad : t \subseteq s => t = s
  <2> HIDE DEF Bad
  <2> QED BY <1>1, MinimalSet
<1>3. PICK y \in s : Sum(s) # f[y] + Sum(s \ {y})
  OBVIOUS
<1> DEFINE z == Chosen(s)
<1>4. z \in s /\ Sum(s) = f[z] + Sum(s \ {z})
  <2>1. s # {} /\ s \in SUBSET S
    OBVIOUS
  <2>2. z \in s
    BY <2>1 DEF Chosen
  <2> HIDE DEF Bad
  <2>3. Sum(s) = f[z] + Sum(s \ {z})
    BY <2>1, SumRecursion
  <2> QED
    BY <2>2, <2>3
<1> HIDE DEF z
<1>5. y # z
  BY <1>3, <1>4
<1>6. Sum(s \ {z}) = f[y] + Sum((s \ {z}) \ {y})
  BY <1>2, <1>4, <1>5
<1>7. Sum(s \ {y}) = f[z] + Sum((s \ {y}) \ {z})
  BY <1>2, <1>4, <1>5
<1>8. (s \ {y}) \ {z} = (s \ {z}) \ {y}
  OBVIOUS
<1>9. Sum((s \ {z}) \ {y}) \in Int /\ f[y] \in Int /\ f[z] \in Int
  BY <1>4, SumRecursion DEF Numeric
<1> HIDE DEF Sum
<1> QED
  BY <1>3, <1>4, <1>6, <1>7, <1>8, <1>9

(* Sums are integers, and the empty one is 0.                              *)
LEMMA SumInt ==
  ASSUME NEW S, NEW f, Numeric(f, S)
  PROVE  SumFunctionOnSet(f, S) \in Int
BY SumRecursion

(* The sum over no element is 0.                                           *)
LEMMA SumEmpty ==
  ASSUME NEW f
  PROVE  SumFunctionOnSet(f, {}) = 0
<1>1. Numeric(f, {})
  BY FS_EmptySet DEF Numeric
<1> QED
  BY <1>1, SumRecursion

(* The sum of sums.                                                        *)
LEMMA SumAdd ==
  ASSUME NEW S, NEW f, NEW g, NEW h, Numeric(f, S), Numeric(g, S),
         \A x \in S : h[x] = f[x] + g[x]
  PROVE  SumFunctionOnSet(h, S) = SumFunctionOnSet(f, S) + SumFunctionOnSet(g, S)
<1> DEFINE Eq(T) == SumFunctionOnSet(h, T) = SumFunctionOnSet(f, T) + SumFunctionOnSet(g, T)
           P == {T \in SUBSET S : Eq(T)}
<1>1. {} \in P
  BY SumEmpty
<1>2. ASSUME NEW T \in SUBSET S, NEW x \in S, T \in P, x \notin T
      PROVE  T \cup {x} \in P
  <2> DEFINE U == T \cup {x}
  <2>1. Numeric(f, U) /\ Numeric(g, U) /\ Numeric(h, U) /\ Numeric(f, T) /\ Numeric(g, T)
    BY FS_Subset DEF Numeric
  <2>2. U \ {x} = T /\ x \in U
    BY <1>2
  <2> HIDE DEF U
  <2>3. /\ SumFunctionOnSet(f, U) = f[x] + SumFunctionOnSet(f, T)
        /\ SumFunctionOnSet(g, U) = g[x] + SumFunctionOnSet(g, T)
        /\ SumFunctionOnSet(h, U) = h[x] + SumFunctionOnSet(h, T)
    BY <2>1, <2>2, SumRemove
  <2>4. SumFunctionOnSet(f, T) \in Int /\ SumFunctionOnSet(g, T) \in Int
    BY <2>1, SumInt
  <2>5. f[x] \in Int /\ g[x] \in Int /\ h[x] = f[x] + g[x]
    BY DEF Numeric
  <2>6. Eq(U)
    BY <1>2, <2>3, <2>4, <2>5
  <2> QED
    BY <2>6 DEF U
<1>3. S \in P
  <2> HIDE DEF P
  <2> QED BY <1>1, <1>2, FiniteInduction DEF Numeric
<1> QED
  BY <1>3

(* Sums are monotonic.                                                     *)
LEMMA SumMonotonic ==
  ASSUME NEW S, NEW f, NEW g, Numeric(f, S), Numeric(g, S),
         \A x \in S : f[x] <= g[x]
  PROVE  SumFunctionOnSet(f, S) <= SumFunctionOnSet(g, S)
<1> DEFINE Le(T) == SumFunctionOnSet(f, T) <= SumFunctionOnSet(g, T)
           P == {T \in SUBSET S : Le(T)}
<1>1. {} \in P
  BY SumEmpty
<1>2. ASSUME NEW T \in SUBSET S, NEW x \in S, T \in P, x \notin T
      PROVE  T \cup {x} \in P
  <2> DEFINE U == T \cup {x}
  <2>1. Numeric(f, U) /\ Numeric(g, U) /\ Numeric(f, T) /\ Numeric(g, T)
    BY FS_Subset DEF Numeric
  <2>2. U \ {x} = T /\ x \in U
    BY <1>2
  <2> HIDE DEF U
  <2>3. /\ SumFunctionOnSet(f, U) = f[x] + SumFunctionOnSet(f, T)
        /\ SumFunctionOnSet(g, U) = g[x] + SumFunctionOnSet(g, T)
    BY <2>1, <2>2, SumRemove
  <2>4. SumFunctionOnSet(f, T) \in Int /\ SumFunctionOnSet(g, T) \in Int
    BY <2>1, SumInt
  <2>5. f[x] \in Int /\ g[x] \in Int /\ f[x] <= g[x]
    BY DEF Numeric
  <2>6. Le(U)
    BY <1>2, <2>3, <2>4, <2>5
  <2> QED
    BY <2>6 DEF U
<1>3. S \in P
  <2> HIDE DEF P
  <2> QED BY <1>1, <1>2, FiniteInduction DEF Numeric
<1> QED
  BY <1>3

(* A sum depends only on the values summed.                                *)
LEMMA SumEqual ==
  ASSUME NEW S, NEW f, NEW g, Numeric(f, S), \A x \in S : f[x] = g[x]
  PROVE  Numeric(g, S) /\ SumFunctionOnSet(g, S) = SumFunctionOnSet(f, S)
<1>1. Numeric(g, S) /\ \A x \in S : f[x] <= g[x] /\ g[x] <= f[x]
  BY DEF Numeric
<1>2. /\ SumFunctionOnSet(f, S) <= SumFunctionOnSet(g, S)
      /\ SumFunctionOnSet(g, S) <= SumFunctionOnSet(f, S)
  BY <1>1, SumMonotonic
<1>3. SumFunctionOnSet(f, S) \in Int /\ SumFunctionOnSet(g, S) \in Int
  BY <1>1, SumInt
<1> QED
  BY <1>1, <1>2, <1>3

(* The sum of zeros is 0, and a sum of natural numbers is one.             *)
LEMMA SumZero ==
  ASSUME NEW S, NEW f, IsFiniteSet(S), \A x \in S : f[x] = 0
  PROVE  SumFunctionOnSet(f, S) = 0
<1>1. Numeric(f, S) /\ \A x \in S : f[x] = f[x] + f[x]
  BY DEF Numeric
<1>2. SumFunctionOnSet(f, S) = SumFunctionOnSet(f, S) + SumFunctionOnSet(f, S)
  BY <1>1, SumAdd
<1>3. PICK n \in Int : n = SumFunctionOnSet(f, S)
  BY <1>1, SumInt
<1>4. n = n + n
  BY <1>2, <1>3
<1>5. n = 0
  BY <1>4
<1> QED
  BY <1>3, <1>5

(* A finite sum of naturals is a natural.                                  *)
LEMMA SumNat ==
  ASSUME NEW S, NEW f, IsFiniteSet(S), \A x \in S : f[x] \in Nat
  PROVE  Numeric(f, S) /\ SumFunctionOnSet(f, S) \in Nat
<1> DEFINE z == [x \in S |-> 0]
<1>1. Numeric(f, S) /\ Numeric(z, S) /\ \A x \in S : z[x] = 0 /\ z[x] <= f[x]
  BY DEF Numeric
<1> HIDE DEF z
<1>2. SumFunctionOnSet(z, S) <= SumFunctionOnSet(f, S)
  BY <1>1, SumMonotonic
<1>3. SumFunctionOnSet(z, S) = 0
  BY <1>1, SumZero
<1>4. SumFunctionOnSet(f, S) \in Int
  BY <1>1, SumInt
<1> QED
  BY <1>1, <1>2, <1>3, <1>4

(* Values that change at one element only.                                 *)
LEMMA SumChange ==
  ASSUME NEW S, NEW f, NEW g, Numeric(f, S), Numeric(g, S), NEW x \in S,
         \A y \in S \ {x} : g[y] = f[y]
  PROVE  SumFunctionOnSet(g, S) = SumFunctionOnSet(f, S) + g[x] - f[x]
<1> DEFINE T == S \ {x}
<1>1. Numeric(f, T) /\ Numeric(g, T)
  BY FS_Subset DEF Numeric
<1>2. SumFunctionOnSet(g, T) = SumFunctionOnSet(f, T)
  BY <1>1, SumEqual
<1>3. SumFunctionOnSet(f, S) = f[x] + SumFunctionOnSet(f, T)
  BY SumRemove
<1>4. SumFunctionOnSet(g, S) = g[x] + SumFunctionOnSet(g, T)
  BY SumRemove
<1>5. SumFunctionOnSet(f, T) \in Int /\ f[x] \in Int /\ g[x] \in Int
  BY <1>1, SumInt DEF Numeric
<1> QED
  BY <1>2, <1>3, <1>4, <1>5

(* Sums over two parts of a set.                                           *)
LEMMA SumUnion ==
  ASSUME NEW S, NEW T, NEW f, Numeric(f, S), Numeric(f, T), S \cap T = {}
  PROVE  SumFunctionOnSet(f, S \cup T) = SumFunctionOnSet(f, S) + SumFunctionOnSet(f, T)
<1> DEFINE Eq(U) == SumFunctionOnSet(f, S \cup U)
                      = SumFunctionOnSet(f, S) + SumFunctionOnSet(f, U)
           P == {U \in SUBSET T : Eq(U)}
<1>0. SumFunctionOnSet(f, S) \in Int
  BY SumInt
<1>1. {} \in P
  <2>1. S \cup {} = S
    OBVIOUS
  <2>2. Eq({})
    BY <1>0, <2>1, SumEmpty
  <2> QED
    BY <2>2
<1>2. ASSUME NEW U \in SUBSET T, NEW x \in T, U \in P, x \notin U
      PROVE  U \cup {x} \in P
  <2> DEFINE V == U \cup {x}
             A == S \cup U
             B == S \cup V
  <2>1. Numeric(f, U) /\ Numeric(f, V) /\ Numeric(f, A) /\ Numeric(f, B)
    BY FS_Subset, FS_Union DEF Numeric
  <2>2. V \ {x} = U /\ x \in V /\ B \ {x} = A /\ x \in B
    BY <1>2
  <2>3. Eq(U)
    BY <1>2
  <2> HIDE DEF V, A, B
  <2>4. /\ SumFunctionOnSet(f, V) = f[x] + SumFunctionOnSet(f, U)
        /\ SumFunctionOnSet(f, B) = f[x] + SumFunctionOnSet(f, A)
    BY <2>1, <2>2, SumRemove
  <2>5. SumFunctionOnSet(f, U) \in Int /\ SumFunctionOnSet(f, A) \in Int /\ f[x] \in Int
    BY <2>1, SumInt DEF Numeric
  <2>6. SumFunctionOnSet(f, B) = SumFunctionOnSet(f, S) + SumFunctionOnSet(f, V)
    BY <1>0, <2>3, <2>4, <2>5 DEF A
  <2> QED
    BY <2>6 DEF V, B
<1>3. T \in P
  <2> HIDE DEF P
  <2> QED BY <1>1, <1>2, FiniteInduction DEF Numeric
<1> QED
  BY <1>3

(* Counting the elements of I by their images.                             *)
LEMMA SumFibres ==
  ASSUME NEW I, IsFiniteSet(I), NEW S, IsFiniteSet(S), NEW t
  PROVE  SumFunctionOnSet([x \in S |-> Cardinality({i \in I : t[i] = x})], S)
           = Cardinality({i \in I : t[i] \in S})
<1> DEFINE f == [x \in S |-> Cardinality({i \in I : t[i] = x})]
           Within(T) == {i \in I : t[i] \in T}
           Eq(T) == SumFunctionOnSet(f, T) = Cardinality(Within(T))
           P == {T \in SUBSET S : Eq(T)}
<1>0. ASSUME NEW T PROVE IsFiniteSet(Within(T)) /\ Cardinality(Within(T)) \in Nat
  BY FS_Subset, FS_CardinalityType
<1>1. {} \in P
  <2>1. Within({}) = {}
    OBVIOUS
  <2>2. Eq({})
    BY <2>1, SumEmpty, FS_EmptySet
  <2> QED
    BY <2>2
<1>2. ASSUME NEW T \in SUBSET S, NEW x \in S, T \in P, x \notin T
      PROVE  T \cup {x} \in P
  <2> DEFINE U == T \cup {x}
  <2>1. f[x] = Cardinality(Within({x}))
    <3>1. Within({x}) = {i \in I : t[i] = x}
      OBVIOUS
    <3> QED BY <3>1
  <2>2. Within(U) = Within(T) \cup Within({x}) /\ Within(T) \cap Within({x}) = {}
    BY <1>2
  <2>3. Cardinality(Within(U)) = Cardinality(Within(T)) + f[x]
    <3>1. Cardinality(Within(T) \cap Within({x})) = 0
      BY <2>2, FS_EmptySet
    <3>2. /\ IsFiniteSet(Within(T)) /\ IsFiniteSet(Within({x}))
          /\ Cardinality(Within(T)) \in Nat /\ Cardinality(Within({x})) \in Nat
      BY <1>0
    <3> HIDE DEF Within, f
    <3>3. Cardinality(Within(T) \cup Within({x}))
            = Cardinality(Within(T)) + Cardinality(Within({x}))
                - Cardinality(Within(T) \cap Within({x}))
      BY <3>2, FS_Union
    <3>4. Cardinality(Within(U)) = Cardinality(Within(T) \cup Within({x}))
      BY <2>2
    <3> HIDE DEF U
    <3> QED BY <2>1, <3>1, <3>2, <3>3, <3>4
  <2>4. Numeric(f, U)
    <3>1. \A y \in S : f[y] \in Int
      BY FS_Subset, FS_CardinalityType
    <3>2. IsFiniteSet(U)
      BY FS_Subset
    <3> QED BY <3>1, <3>2 DEF Numeric
  <2>5. U \ {x} = T /\ x \in U
    BY <1>2
  <2>6. Eq(T)
    BY <1>2
  <2> HIDE DEF U, f, Within
  <2>7. SumFunctionOnSet(f, U) = f[x] + SumFunctionOnSet(f, T)
    BY <2>4, <2>5, SumRemove
  <2>8. f[x] \in Int
    BY <1>0, <2>1
  <2>9. Eq(U)
    BY <1>0, <2>3, <2>6, <2>7, <2>8
  <2> QED
    BY <2>9 DEF U
<1>3. S \in P
  <2> HIDE DEF P
  <2> QED BY <1>1, <1>2, FiniteInduction
<1> QED
  BY <1>3

(* The sum over a single element.                                          *)
LEMMA SumSingle ==
  ASSUME NEW f, NEW x, f[x] \in Int
  PROVE  SumFunctionOnSet(f, {x}) = f[x]
<1>1. Numeric(f, {x})
  BY FS_Singleton DEF Numeric
<1>2. {x} \ {x} = {} /\ x \in {x}
  OBVIOUS
<1>3. SumFunctionOnSet(f, {x}) = f[x] + SumFunctionOnSet(f, {x} \ {x})
  BY <1>1, <1>2, SumRemove
<1> QED
  BY <1>2, <1>3, SumEmpty

(* Zeros can be left out of a sum.                                         *)
LEMMA SumSupport ==
  ASSUME NEW S, NEW f, Numeric(f, S), NEW T, T \subseteq S, \A x \in S \ T : f[x] = 0
  PROVE  SumFunctionOnSet(f, S) = SumFunctionOnSet(f, T)
<1> DEFINE U == S \ T
<1>1. Numeric(f, T) /\ Numeric(f, U) /\ IsFiniteSet(U)
  BY FS_Subset DEF Numeric
<1>2. T \cap U = {} /\ T \cup U = S /\ \A x \in U : f[x] = 0
  OBVIOUS
<1> HIDE DEF U
<1>3. SumFunctionOnSet(f, T \cup U) = SumFunctionOnSet(f, T) + SumFunctionOnSet(f, U)
  BY <1>1, <1>2, SumUnion
<1>4. SumFunctionOnSet(f, U) = 0
  BY <1>1, <1>2, SumZero
<1>5. SumFunctionOnSet(f, T) \in Int
  BY <1>1, SumInt
<1>6. SumFunctionOnSet(f, S) = SumFunctionOnSet(f, T \cup U)
  BY <1>2, Zenon
<1> QED
  BY <1>3, <1>4, <1>5, <1>6

(* The sum of the opposites.                                               *)
LEMMA SumNegate ==
  ASSUME NEW S, NEW f, NEW g, Numeric(f, S), \A x \in S : g[x] = - f[x]
  PROVE  Numeric(g, S) /\ SumFunctionOnSet(g, S) = - SumFunctionOnSet(f, S)
<1> DEFINE z == [x \in S |-> 0]
<1>1. Numeric(g, S) /\ IsFiniteSet(S)
  BY DEF Numeric
<1>2. \A x \in S : z[x] = 0 /\ z[x] = f[x] + g[x]
  BY DEF Numeric
<1> HIDE DEF z
<1>3. SumFunctionOnSet(z, S) = SumFunctionOnSet(f, S) + SumFunctionOnSet(g, S)
  BY <1>1, <1>2, SumAdd
<1>4. SumFunctionOnSet(z, S) = 0
  BY <1>1, <1>2, SumZero
<1>5. SumFunctionOnSet(f, S) \in Int /\ SumFunctionOnSet(g, S) \in Int
  BY <1>1, SumInt
<1> QED
  BY <1>1, <1>3, <1>4, <1>5

(* A sum taken by parts: t says which part an element is in.               *)
LEMMA SumPartition ==
  ASSUME NEW I, NEW f, Numeric(f, I), NEW K, IsFiniteSet(K), NEW t
  PROVE  SumFunctionOnSet([k \in K |-> SumFunctionOnSet(f, {i \in I : t[i] = k})], K)
           = SumFunctionOnSet(f, {i \in I : t[i] \in K})
<1> DEFINE Part(k) == {i \in I : t[i] = k}
           g == [k \in K |-> SumFunctionOnSet(f, Part(k))]
           Within(T) == {i \in I : t[i] \in T}
           Eq(T) == SumFunctionOnSet(g, T) = SumFunctionOnSet(f, Within(T))
           P == {T \in SUBSET K : Eq(T)}
<1>0. /\ \A k : Numeric(f, Part(k))
      /\ \A T : Numeric(f, Within(T))
  BY FS_Subset DEF Numeric
<1>1. {} \in P
  <2>1. Within({}) = {}
    OBVIOUS
  <2>2. Eq({})
    BY <2>1, SumEmpty
  <2> QED
    BY <2>2
<1>2. ASSUME NEW T \in SUBSET K, NEW x \in K, T \in P, x \notin T
      PROVE  T \cup {x} \in P
  <2> DEFINE U == T \cup {x}
  <2>1. Within(U) = Within(T) \cup Part(x) /\ Within(T) \cap Part(x) = {}
    BY <1>2
  <2>2. \A k \in K : g[k] = SumFunctionOnSet(f, Part(k))
    OBVIOUS
  <2>3. U \ {x} = T /\ x \in U /\ U \subseteq K
    BY <1>2
  <2>4. Eq(T)
    BY <1>2
  <2> HIDE DEF U, g, Within, Part
  <2>5. \A k \in K : g[k] \in Int
    BY <1>0, <2>2, SumInt
  <2>6. Numeric(g, U)
    BY <2>3, <2>5, FS_Subset DEF Numeric
  <2>7. SumFunctionOnSet(g, U) = g[x] + SumFunctionOnSet(g, T)
    BY <2>3, <2>6, SumRemove
  <2>8. SumFunctionOnSet(f, Within(T) \cup Part(x))
          = SumFunctionOnSet(f, Within(T)) + SumFunctionOnSet(f, Part(x))
    BY <1>0, <2>1, SumUnion
  <2>9. SumFunctionOnSet(f, Within(T)) \in Int /\ g[x] \in Int
    BY <1>0, <2>5, SumInt
  <2>10. Eq(U)
    BY <2>1, <2>2, <2>4, <2>7, <2>8, <2>9
  <2> QED
    BY <2>10 DEF U
<1>3. K \in P
  <2> HIDE DEF P
  <2> QED BY <1>1, <1>2, FiniteInduction
<1> QED
  BY <1>3

(* A sum does not depend on the names of the elements: t renames them, and *)
(* s takes the names back.                                                 *)
LEMMA SumRename ==
  ASSUME NEW I, NEW f, Numeric(f, I), NEW K, NEW g, IsFiniteSet(K), NEW s, NEW t,
         \A i \in I : t[i] \in K /\ s[t[i]] = i,
         \A k \in K : s[k] \in I /\ t[s[k]] = k /\ g[k] = f[s[k]]
  PROVE  SumFunctionOnSet(g, K) = SumFunctionOnSet(f, I)
<1> DEFINE Part(k) == {i \in I : t[i] = k}
           h == [k \in K |-> SumFunctionOnSet(f, Part(k))]
<1>1. {i \in I : t[i] \in K} = I
  OBVIOUS
<1>2. SumFunctionOnSet(h, K) = SumFunctionOnSet(f, I)
  <2>1. SumFunctionOnSet(h, K) = SumFunctionOnSet(f, {i \in I : t[i] \in K})
    BY SumPartition
  <2> QED
    BY <1>1, <2>1
<1>3. \A k \in K : h[k] = g[k] /\ g[k] \in Int
  <2> TAKE k \in K
  <2>1. Part(k) = {s[k]} /\ f[s[k]] \in Int /\ g[k] = f[s[k]]
    BY DEF Numeric
  <2>2. SumFunctionOnSet(f, {s[k]}) = f[s[k]]
    BY <2>1, SumSingle
  <2> QED
    BY <2>1, <2>2
<1> HIDE DEF h
<1>4. Numeric(g, K)
  BY <1>3 DEF Numeric
<1>5. SumFunctionOnSet(h, K) = SumFunctionOnSet(g, K)
  BY <1>3, <1>4, SumEqual
<1> QED
  BY <1>2, <1>5
-----------------------------------------------------------------------------
(* Folds over sequences: the elements are folded in by their numbers       *)

(* The last number of a part of an interval lies in it.                    *)
LEMMA MaxOfPart ==
  ASSUME NEW n \in Nat, NEW s \in SUBSET (1 .. n), s # {}
  PROVE  Max(s) \in s
<1>1. IsFiniteSet(s) /\ s \subseteq Int
  <2>1. IsFiniteSet(1 .. n)
    BY FS_Interval
  <2>2. s \subseteq Int /\ s \subseteq 1 .. n
    OBVIOUS
  <2>3. IsFiniteSet(s)
    BY <2>1, <2>2, FS_Subset
  <2> QED
    BY <2>2, <2>3
<1>2. \E m \in s : \A x \in s : x <= m
  BY <1>1, FiniteMaximum
<1>3. \E m \in s : \A x \in s : m >= x
  BY <1>1, <1>2
<1> QED
  BY <1>3 DEF Max

(* The numbers up to i without the last.                                   *)
LEMMA MaxOfPrefix ==
  ASSUME NEW i \in Nat, i > 0
  PROVE  Max(1 .. i) = i /\ (1 .. i) \ {i} = 1 .. i - 1 /\ 1 .. i # {}
<1>1. 1 .. i # {} /\ i \in 1 .. i /\ (1 .. i) \ {i} = 1 .. i - 1
  OBVIOUS
<1>2. \A m \in 1 .. i : (\A x \in 1 .. i : m >= x) => m = i
  OBVIOUS
<1>3. \E m \in 1 .. i : \A x \in 1 .. i : m >= x
  <2>1. \A x \in 1 .. i : i >= x
    OBVIOUS
  <2> QED
    BY <1>1, <2>1
<1>4. Max(1 .. i) = i
  BY <1>2, <1>3 DEF Max
<1> QED
  BY <1>1, <1>4

(* g is the fold over the parts of 1 .. n whose steps are F.               *)
LeftFold(g, F, b, n, B) ==
  /\ g \in [SUBSET (1 .. n) -> B] /\ g[{}] = b
  /\ \A t \in SUBSET (1 .. n) : t # {} =>
       Max(t) \in t /\ g[t] = F[Max(t)][g[t \ {Max(t)}]]

(* There is one.                                                           *)
LEMMA LeftFoldExists ==
  ASSUME NEW n \in Nat, NEW B, NEW b \in B, NEW F \in [1 .. n -> [B -> B]]
  PROVE  \E g : LeftFold(g, F, b, n, B)
<1> DEFINE D == 1 .. n
           c == [s \in SUBSET D |-> Max(s)]
<1>1. IsFiniteSet(D)
  BY FS_Interval
<1>2. \A s \in SUBSET D : s # {} => c[s] \in s
  BY MaxOfPart
<1>3. FoldSteps(F, D, B) /\ FoldPicks(c, D)
  BY <1>2 DEF FoldSteps, FoldPicks
<1>4. PICK g : IsFold(g, F, b, c, D, B)
  <2> HIDE DEF D, c
  <2> QED BY <1>1, <1>3, FoldExists, Zenon
<1>5. g \in [SUBSET D -> B] /\ g[{}] = b
  BY <1>4 DEF IsFold, FoldEquation
<1>6. ASSUME NEW t \in SUBSET D, t # {}
      PROVE  Max(t) \in t /\ g[t] = F[Max(t)][g[t \ {Max(t)}]]
  <2>1. c[t] = Max(t) /\ Max(t) \in t
    BY <1>2, <1>6
  <2>2. g[t] = F[c[t]][g[t \ {c[t]}]]
    BY <1>4, <1>6 DEF IsFold, FoldEquation
  <2> QED
    BY <2>1, <2>2
<1> QED
  BY <1>5, <1>6 DEF LeftFold

(* h is computed from b by the steps F, one for each number, as long as    *)
(* the values are in B.                                                    *)
LeftFolds(h, F, b, n, B) ==
  /\ h[{}] = b
  /\ \A t \in SUBSET (1 .. n) : t # {} /\ h[t \ {Max(t)}] \in B =>
       h[t] = F[Max(t)][h[t \ {Max(t)}]]

(* The states p that the steps F lead through, from b.                     *)
Runs(p, F, b, n, B) ==
  /\ p \in [0 .. n -> B] /\ p[0] = b
  /\ \A i \in 1 .. n : p[i] = F[i][p[i - 1]]

(* Then its values on the prefixes are the states the loop goes through.   *)
LEMMA FoldChain ==
  ASSUME NEW n \in Nat, NEW B, NEW b \in B, NEW F \in [1 .. n -> [B -> B]],
         NEW h, LeftFolds(h, F, b, n, B)
  PROVE  \E p : Runs(p, F, b, n, B) /\ p[n] = h[1 .. n]
<1> DEFINE p == [i \in 0 .. n |-> h[1 .. i]]
           P == {i \in Nat : i <= n => /\ h[1 .. i] \in B
                                       /\ i > 0 => h[1 .. i] = F[i][h[1 .. i - 1]]}
<1>1. 1 .. 0 = {} /\ h[1 .. 0] = b
  BY DEF LeftFolds
<1>2. 0 \in P
  BY <1>1
<1>3. ASSUME NEW i \in Nat, i \in P PROVE i + 1 \in P
  <2> SUFFICES ASSUME i + 1 <= n
               PROVE  h[1 .. i + 1] \in B /\ h[1 .. i + 1] = F[i + 1][h[1 .. (i + 1) - 1]]
    OBVIOUS
  <2>1. Max(1 .. i + 1) = i + 1 /\ (1 .. i + 1) \ {i + 1} = 1 .. (i + 1) - 1 /\ 1 .. i + 1 # {}
    <3>1. i + 1 \in Nat /\ i + 1 > 0
      OBVIOUS
    <3> QED BY <3>1, MaxOfPrefix
  <2>2. (i + 1) - 1 = i /\ 1 .. i + 1 \in SUBSET (1 .. n) /\ i + 1 \in 1 .. n
    OBVIOUS
  <2>3. h[1 .. i] \in B
    BY <1>3
  <2>4. h[1 .. i + 1] = F[i + 1][h[1 .. i]]
    BY <2>1, <2>2, <2>3 DEF LeftFolds
  <2> QED
    BY <2>2, <2>3, <2>4
<1>4. Nat \subseteq P
  <2> HIDE DEF P
  <2> QED BY <1>2, <1>3, NaturalInduction
<1>5. \A i \in 0 .. n : h[1 .. i] \in B
  BY <1>4
<1>6. \A i \in 1 .. n : p[i] = F[i][p[i - 1]]
  BY <1>4
<1>7. p \in [0 .. n -> B] /\ p[0] = b /\ p[n] = h[1 .. n]
  BY <1>1, <1>5
<1> QED
  <2>1. Runs(p, F, b, n, B)
    BY <1>6, <1>7 DEF Runs
  <2> QED BY <1>7, <2>1

(* A finite set that R orders totally can be enumerated in that order.     *)
LEMMA SortedExists ==
  ASSUME NEW S, IsFiniteSet(S), NEW R,
         \A x, y \in S : x = y \/ <<x, y>> \in R \/ <<y, x>> \in R,
         \A x, y, z \in S : <<x, y>> \in R /\ <<y, z>> \in R => <<x, z>> \in R
  PROVE  \E f \in [1 .. Cardinality(S) -> S] :
           /\ \A i, j \in 1 .. Cardinality(S) : i # j => f[i] # f[j]
           /\ \A i, j \in 1 .. Cardinality(S) : i < j => <<f[i], f[j]>> \in R
<1> DEFINE Sorts(f, T) ==
             /\ f \in [1 .. Cardinality(T) -> T]
             /\ \A i, j \in 1 .. Cardinality(T) : i # j => f[i] # f[j]
             /\ \A i, j \in 1 .. Cardinality(T) : i < j => <<f[i], f[j]>> \in R
           Bad == {T \in SUBSET S : \A f : ~Sorts(f, T)}
<1> SUFFICES ASSUME Bad # {} PROVE FALSE
  OBVIOUS
<1>1. \A T \in Bad : IsFiniteSet(T)
  BY FS_Subset
<1>2. PICK T \in Bad : \A y \in Bad : y \subseteq T => y = T
  <2> HIDE DEF Bad
  <2> QED BY <1>1, MinimalSet
<1>3. T \in SUBSET S /\ IsFiniteSet(T)
  BY <1>1, <1>2
<1>4. T # {}
  <2> SUFFICES ASSUME T = {} PROVE FALSE
    OBVIOUS
  <2>1. Cardinality(T) = 0
    BY FS_EmptySet
  <2>2. Sorts([i \in 1 .. 0 |-> i], T)
    BY <2>1
  <2> QED
    BY <1>2, <2>2
<1>5. PICK m \in T : \A x \in T : x = m \/ <<x, m>> \in R
  <2>1. /\ \A x, y \in T : x = y \/ <<x, y>> \in R \/ <<y, x>> \in R
        /\ \A x, y, z \in T : <<x, y>> \in R /\ <<y, z>> \in R => <<x, z>> \in R
    BY <1>3
  <2> QED
    BY <1>3, <1>4, <2>1, FiniteOrderLast
<1> DEFINE U == T \ {m}
           n == Cardinality(U)
<1>6. n \in Nat /\ Cardinality(T) = n + 1 /\ U \subseteq T /\ U # T
  <2>1. IsFiniteSet(U) /\ Cardinality(U) = Cardinality(T) - 1
    BY <1>3, FS_RemoveElement
  <2>2. Cardinality(U) \in Nat /\ Cardinality(T) \in Nat
    BY <1>3, <2>1, FS_CardinalityType
  <2> QED
    BY <2>1, <2>2
<1>7. PICK f : Sorts(f, U)
  BY <1>2, <1>6
<1> DEFINE g == [i \in 1 .. n + 1 |-> IF i = n + 1 THEN m ELSE f[i]]
<1>8. /\ f \in [1 .. n -> U]
      /\ \A i, j \in 1 .. n : i # j => f[i] # f[j]
      /\ \A i, j \in 1 .. n : i < j => <<f[i], f[j]>> \in R
  BY <1>7
<1>9. ASSUME NEW i \in 1 .. n + 1
      PROVE  \/ i = n + 1 /\ g[i] = m
             \/ i \in 1 .. n /\ g[i] = f[i] /\ f[i] \in U /\ f[i] \in T /\ f[i] # m
  <2>1. n \in Nat
    BY <1>6
  <2>2. i = n + 1 \/ (i \in 1 .. n /\ i # n + 1)
    <3> HIDE DEF n
    <3> QED BY <2>1
  <2> QED
    BY <1>8, <2>2
<1> HIDE DEF n, Bad
<1>10. g \in [1 .. n + 1 -> T]
  BY <1>9, <1>5
<1> HIDE DEF g, U
<1>11. \A i, j \in 1 .. n + 1 : i # j => g[i] # g[j]
  BY <1>8, <1>9
<1>12. \A i, j \in 1 .. n + 1 : i < j => <<g[i], g[j]>> \in R
  <2> SUFFICES ASSUME NEW i \in 1 .. n + 1, NEW j \in 1 .. n + 1, i < j
               PROVE  <<g[i], g[j]>> \in R
    OBVIOUS
  <2>1. i \in 1 .. n
    BY <1>6
  <2>2. g[i] = f[i] /\ f[i] \in T /\ f[i] # m
    BY <1>9, <2>1, <1>6
  <2> QED
    BY <1>5, <1>8, <1>9, <2>1, <2>2
<1>13. Sorts(g, T)
  BY <1>6, <1>10, <1>11, <1>12
<1> QED
  BY <1>2, <1>13 DEF Bad

(* Such an enumeration leaves nothing out.                                 *)
LEMMA EnumerationComplete ==
  ASSUME NEW S, IsFiniteSet(S), NEW f \in [1 .. Cardinality(S) -> S],
         \A i, j \in 1 .. Cardinality(S) : i # j => f[i] # f[j]
  PROVE  \A x \in S : \E i \in 1 .. Cardinality(S) : f[i] = x
<1> DEFINE D == 1 .. Cardinality(S)
<1>1. Cardinality(S) \in Nat
  BY FS_CardinalityType
<1>2. f \in Injection(D, S)
  BY DEF Injection, IsInjective
<1>3. Cardinality(D) = Cardinality(S)
  BY <1>1, FS_Interval
<1>4. f \in Surjection(D, S)
  BY <1>2, <1>3, FS_Injection
<1> QED
  BY <1>4 DEF Surjection
=============================================================================
