------------------------ MODULE ChainDatabase_proofs ------------------------
(***************************************************************************)
(* Proofs about ChainDatabase.                                             *)
(*                                                                         *)
(* A handler is a composition of loops, each a fold of one elementary step *)
(* over a record of the node's state.  So the argument is in three layers: *)
(*                                                                         *)
(* 1. Runs.  A fold that computes a handler is a sequence of records, each *)
(*    of which comes from the one before by one round (RestoreRun,         *)
(*    ApplyRun, ..., from FoldTheorems).                                   *)
(* 2. Closed sets.  Each round is one of three elementary steps: the undo  *)
(*    log loses its oldest states (Trims), a block is applied (Applied) or *)
(*    popped (Popped).  A set of records that none of these leaves is left *)
(*    by no handler (PushResult, RewindStays), whatever path it takes      *)
(*    through the switch between forks and the recovery from a bad one.    *)
(*    The properties are about such sets: Good for the undo log, Keeping   *)
(*    for the transactions, Matching for the block log.                    *)
(* 3. The invariants of the node.  Inv needs no assumption on the blocks;  *)
(*    LogInv is about the log and needs Honest, because putting an old     *)
(*    branch back stores its blocks under the id of another block and so   *)
(*    leaves Matching.  The replay of open() is treated stage by stage:    *)
(*    Replaying relates the record after each round to the log on disk.    *)
(***************************************************************************)
EXTENDS ChainDatabase, FoldTheorems, TLAPS

-----------------------------------------------------------------------------
(* The path from genesis to a block                                        *)

(* A path, as far as number n: the recursive definition has a solution on  *)
(* the blocks up to that number.                                           *)
Paths(f, n) ==
  /\ f \in [{b \in BlockOrGenesis : num[b] <= n} -> Seq(Block)]
  /\ f[Genesis] = <<>>
  /\ \A b \in Block : num[b] <= n => f[b] = Append(f[previous[b]], b)

(* What the assumptions on the blocks say of their numbers.                *)
LEMMA BlockFacts ==
  /\ BlockOrGenesis = Block \cup {Genesis}
  /\ Genesis \notin Block /\ NoBlock \notin Block /\ NoBlock # Genesis
  /\ num[Genesis] = 0
  /\ \A b \in BlockOrGenesis : num[b] \in Nat
  /\ \A b \in Block : /\ previous[b] \in BlockOrGenesis
                      /\ num[b] = num[previous[b]] + 1
                      /\ num[b] > 0
BY BlockAssumption DEF BlockOrGenesis

(* There is a solution up to every number.                                 *)
LEMMA PathsExist ==
  ASSUME NEW n \in Nat
  PROVE  \E f : Paths(f, n)
<1> DEFINE P == {m \in Nat : \E f : Paths(f, m)}
<1>1. 0 \in P
  <2> DEFINE f == [b \in {b \in BlockOrGenesis : num[b] <= 0} |-> <<>>]
  <2>1. f \in [{b \in BlockOrGenesis : num[b] <= 0} -> Seq(Block)]
    OBVIOUS
  <2>2. f[Genesis] = <<>> /\ \A b \in Block : ~(num[b] <= 0)
    BY BlockFacts
  <2>3. Paths(f, 0)
    BY <2>1, <2>2 DEF Paths
  <2> QED
    BY <2>3
<1>2. ASSUME NEW m \in Nat, m \in P PROVE m + 1 \in P
  <2>1. PICK f : Paths(f, m)
    BY <1>2
  <2> DEFINE D == {b \in BlockOrGenesis : num[b] <= m + 1}
             g == [b \in D |-> IF num[b] <= m THEN f[b] ELSE Append(f[previous[b]], b)]
  <2>2. \A b \in D : num[b] > m => /\ b \in Block /\ previous[b] \in BlockOrGenesis
                                   /\ num[previous[b]] <= m /\ previous[b] \in D
    BY BlockFacts
  <2>3. \A b \in D : num[b] <= m => f[b] \in Seq(Block)
    BY <2>1 DEF Paths
  <2>4. \A b \in D : num[b] > m => f[previous[b]] \in Seq(Block)
    BY <2>1, <2>2 DEF Paths
  <2>5. g \in [D -> Seq(Block)]
    <3> SUFFICES ASSUME NEW b \in D PROVE g[b] \in Seq(Block)
      BY Zenon
    <3>1. CASE num[b] <= m
      BY <2>3, <3>1
    <3>2. CASE ~(num[b] <= m)
      <4>1. num[b] > m
        BY <3>2, BlockFacts
      <4>2. f[previous[b]] \in Seq(Block) /\ b \in Block
        BY <2>2, <2>4, <4>1
      <4> QED
        BY <3>2, <4>2
    <3> QED
      BY <3>1, <3>2
  <2>6. g[Genesis] = <<>>
    BY <2>1, BlockFacts DEF Paths
  <2>7. ASSUME NEW b \in Block, num[b] <= m + 1
        PROVE  g[b] = Append(g[previous[b]], b)
    <3>1. b \in D /\ previous[b] \in D /\ num[previous[b]] <= m
      BY <2>7, BlockFacts
    <3>2. g[previous[b]] = f[previous[b]]
      BY <3>1
    <3>3. CASE num[b] <= m
      <4>1. g[b] = f[b] /\ f[b] = Append(f[previous[b]], b)
        BY <2>1, <3>1, <3>3 DEF Paths
      <4> QED
        BY <3>2, <4>1
    <3>4. CASE ~(num[b] <= m)
      BY <3>1, <3>2, <3>4
    <3> QED
      BY <3>3, <3>4
  <2>8. Paths(g, m + 1)
    <3> HIDE DEF g
    <3> QED BY <2>5, <2>6, <2>7 DEF Paths
  <2> QED
    BY <2>8
<1> QED
  <2> HIDE DEF P
  <2>1. n \in P
    BY <1>1, <1>2, NaturalInduction
  <2> QED
    BY <2>1 DEF P

(* Two solutions agree where both are defined.                             *)
LEMMA PathsAgree ==
  ASSUME NEW m \in Nat, NEW n \in Nat, NEW f, NEW g, Paths(f, m), Paths(g, n),
         NEW b \in BlockOrGenesis, num[b] <= m, num[b] <= n
  PROVE  f[b] = g[b]
<1> DEFINE P == {k \in Nat : \A a \in BlockOrGenesis :
                    num[a] = k /\ k <= m /\ k <= n => f[a] = g[a]}
<1>1. 0 \in P
  BY BlockFacts DEF Paths
<1>2. ASSUME NEW k \in Nat, k \in P PROVE k + 1 \in P
  <2> SUFFICES ASSUME NEW a \in BlockOrGenesis, num[a] = k + 1, k + 1 <= m, k + 1 <= n
               PROVE  f[a] = g[a]
    OBVIOUS
  <2>1. a \in Block /\ previous[a] \in BlockOrGenesis /\ num[previous[a]] = k
    BY BlockFacts
  <2>2. f[previous[a]] = g[previous[a]]
    BY <1>2, <2>1
  <2>3. f[a] = Append(f[previous[a]], a) /\ g[a] = Append(g[previous[a]], a)
    BY <2>1 DEF Paths
  <2> QED
    BY <2>2, <2>3
<1>3. Nat \subseteq P
  <2> HIDE DEF P
  <2> QED BY <1>1, <1>2, NaturalInduction
<1> QED
  BY <1>3, BlockFacts

(* The recursive definition of Path has a solution.                        *)
LEMMA PathExists ==
  \E p : /\ p = [b \in BlockOrGenesis |->
                   IF b = Genesis THEN <<>> ELSE Append(p[previous[b]], b)]
         /\ \A b \in BlockOrGenesis : p[b] \in Seq(Block)
<1> DEFINE G(n) == CHOOSE f : Paths(f, n)
           p == [b \in BlockOrGenesis |-> G(num[b])[b]]
<1>1. \A n \in Nat : Paths(G(n), n)
  BY PathsExist
<1> HIDE DEF G
<1>2. p[Genesis] = <<>>
  BY <1>1, BlockFacts DEF Paths
<1>3. ASSUME NEW b \in Block PROVE p[b] = Append(p[previous[b]], b)
  <2> DEFINE a == previous[b]
             m == num[a]
             n == num[b]
  <2>1. a \in BlockOrGenesis /\ b \in BlockOrGenesis /\ m \in Nat /\ n \in Nat /\ m <= n
    BY BlockFacts
  <2>2. Paths(G(m), m) /\ Paths(G(n), n)
    BY <1>1, <2>1
  <2>3. G(n)[a] = G(m)[a]
    <3> HIDE DEF a, m, n
    <3>1. num[a] <= m /\ num[a] <= n
      BY <2>1 DEF m
    <3> QED BY <2>1, <2>2, <3>1, PathsAgree
  <2>4. G(n)[b] = Append(G(n)[a], b)
    <3>1. num[b] <= n
      BY <2>1
    <3> QED BY <2>2, <3>1 DEF Paths
  <2>5. p[b] = G(n)[b] /\ p[a] = G(m)[a]
    BY <2>1
  <2> QED
    BY <2>3, <2>4, <2>5
<1>4. ASSUME NEW b \in BlockOrGenesis PROVE p[b] \in Seq(Block)
  <2>1. num[b] \in Nat /\ num[b] <= num[b]
    BY BlockFacts
  <2>2. Paths(G(num[b]), num[b])
    BY <1>1, <2>1
  <2> QED
    BY <2>1, <2>2 DEF Paths
<1>5. p = [b \in BlockOrGenesis |->
             IF b = Genesis THEN <<>> ELSE Append(p[previous[b]], b)]
  <2>1. ASSUME NEW b \in BlockOrGenesis
        PROVE  p[b] = IF b = Genesis THEN <<>> ELSE Append(p[previous[b]], b)
    <3> HIDE DEF p
    <3>1. b = Genesis \/ b \in Block
      BY BlockFacts
    <3> QED
      BY <1>2, <1>3, <3>1, BlockFacts
  <2>2. p = [b \in BlockOrGenesis |-> p[b]]
    BY Zenon
  <2> QED
    <3> HIDE DEF p
    <3> QED BY <2>1, <2>2, Zenon
<1> QED
  BY <1>4, <1>5

(* What Path is.                                                           *)
LEMMA PathFacts ==
  /\ Path[Genesis] = <<>>
  /\ \A b \in Block : Path[b] = Append(Path[previous[b]], b)
  /\ \A b \in BlockOrGenesis : Path[b] \in Seq(Block)
<1> DEFINE Is(p) == p = [b \in BlockOrGenesis |->
                   IF b = Genesis THEN <<>> ELSE Append(p[previous[b]], b)]
<1>1. \E p : Is(p)
  BY PathExists
<1>2. Path = CHOOSE p : Is(p)
  BY DEF Path
<1>3. Is(Path)
  BY <1>1, <1>2
<1>4. /\ Path[Genesis] = <<>>
      /\ \A b \in Block : Path[b] = Append(Path[previous[b]], b)
  BY <1>3, BlockFacts
<1> DEFINE P == {k \in Nat : \A a \in BlockOrGenesis : num[a] = k => Path[a] \in Seq(Block)}
<1> HIDE DEF Is
<1>5. 0 \in P
  <2> SUFFICES ASSUME NEW a \in BlockOrGenesis, num[a] = 0 PROVE Path[a] \in Seq(Block)
    OBVIOUS
  <2>1. a = Genesis
    BY BlockFacts
  <2>2. <<>> \in Seq(Block)
    OBVIOUS
  <2> QED
    BY <1>4, <2>1, <2>2
<1>6. ASSUME NEW k \in Nat, k \in P PROVE k + 1 \in P
  <2> SUFFICES ASSUME NEW a \in BlockOrGenesis, num[a] = k + 1
               PROVE  Path[a] \in Seq(Block)
    OBVIOUS
  <2>1. a \in Block /\ previous[a] \in BlockOrGenesis /\ num[previous[a]] = k
    BY BlockFacts
  <2>2. Path[previous[a]] \in Seq(Block)
    BY <1>6, <2>1
  <2>3. Append(Path[previous[a]], a) \in Seq(Block)
    BY <2>1, <2>2
  <2> QED
    BY <1>4, <2>1, <2>3
<1>7. Nat \subseteq P
  <2> HIDE DEF P
  <2> QED BY <1>5, <1>6, NaturalInduction
<1> QED
  BY <1>4, <1>7, BlockFacts

(* Induction along the tree.                                               *)
LEMMA BlockInduction ==
  ASSUME NEW P, Genesis \in P, \A b \in Block : previous[b] \in P => b \in P
  PROVE  BlockOrGenesis \subseteq P
<1> DEFINE N == {k \in Nat : \A a \in BlockOrGenesis : num[a] = k => a \in P}
<1>1. 0 \in N
  BY BlockFacts
<1>2. ASSUME NEW k \in Nat, k \in N PROVE k + 1 \in N
  BY <1>2, BlockFacts
<1>3. Nat \subseteq N
  <2> HIDE DEF N
  <2> QED BY <1>1, <1>2, NaturalInduction
<1> QED
  BY <1>3, BlockFacts

(* The elements of an extended sequence.                                   *)
LEMMA ToSetAppend ==
  ASSUME NEW S, NEW q \in Seq(S), NEW x
  PROVE  ToSet(Append(q, x)) = ToSet(q) \cup {x}
<1>1. DOMAIN Append(q, x) = 1 .. Len(q) + 1 /\ DOMAIN q = 1 .. Len(q) /\ Len(q) \in Nat
  OBVIOUS
<1>2. ASSUME NEW y \in ToSet(Append(q, x)) PROVE y \in ToSet(q) \cup {x}
  BY <1>1 DEF ToSet
<1>3. ASSUME NEW y \in ToSet(q) PROVE y \in ToSet(Append(q, x))
  <2>1. PICK i \in DOMAIN q : y = q[i]
    BY DEF ToSet
  <2>2. i \in DOMAIN Append(q, x) /\ Append(q, x)[i] = y
    BY <1>1, <2>1
  <2> QED
    BY <2>2 DEF ToSet
<1>4. x \in ToSet(Append(q, x))
  <2>1. Len(q) + 1 \in DOMAIN Append(q, x) /\ Append(q, x)[Len(q) + 1] = x
    BY <1>1
  <2> QED
    BY <2>1 DEF ToSet
<1> QED
  BY <1>2, <1>3, <1>4

(* The block with number n on the path to h has that number, and they are  *)
(* linked.                                                                 *)
PathShape(h) ==
  /\ Len(Path[h]) = num[h]
  /\ \A n \in 1 .. num[h] : Path[h][n] \in Block /\ num[Path[h][n]] = n
  /\ \A n \in 2 .. num[h] : previous[Path[h][n]] = Path[h][n - 1]

(* The path to a block is the path to its parent and the block.            *)
LEMMA PathStep ==
  ASSUME NEW b \in Block
  PROVE  /\ Len(Path[b]) = Len(Path[previous[b]]) + 1
         /\ Path[b][Len(Path[previous[b]]) + 1] = b
         /\ \A n \in 1 .. Len(Path[previous[b]]) : Path[b][n] = Path[previous[b]][n]
         /\ ToSet(Path[b]) = ToSet(Path[previous[b]]) \cup {b}
<1> DEFINE q == Path[previous[b]]
<1>1. q \in Seq(Block) /\ Path[b] = Append(q, b)
  BY PathFacts, BlockFacts
<1> HIDE DEF q
<1>2. ToSet(Path[b]) = ToSet(q) \cup {b}
  BY <1>1, ToSetAppend
<1>3. Len(Append(q, b)) = Len(q) + 1 /\ Append(q, b)[Len(q) + 1] = b
      /\ \A n \in 1 .. Len(q) : Append(q, b)[n] = q[n]
  BY <1>1
<1> QED
  BY <1>1, <1>2, <1>3 DEF q

(* The paths are like that, by induction along the tree.                   *)
LEMMA PathShapes ==
  ASSUME NEW h \in BlockOrGenesis
  PROVE  PathShape(h)
<1> DEFINE P == {b \in BlockOrGenesis : PathShape(b)}
<1>1. Genesis \in P
  <2>1. Len(<<>>) = 0
    OBVIOUS
  <2> QED BY <2>1, PathFacts, BlockFacts DEF PathShape
<1>2. ASSUME NEW b \in Block, previous[b] \in P PROVE b \in P
  <2> DEFINE a == previous[b]
             m == num[a]
  <2>1. /\ a \in BlockOrGenesis /\ m \in Nat /\ num[b] = m + 1 /\ b \in BlockOrGenesis
        /\ (m = 0 => a = Genesis)
    BY BlockFacts
  <2>2. Len(Path[a]) = m /\ PathShape(a)
    BY <1>2 DEF PathShape
  <2>3. /\ Len(Path[b]) = m + 1 /\ Path[b][m + 1] = b
        /\ \A n \in 1 .. m : Path[b][n] = Path[a][n]
    BY <2>2, PathStep
  <2>4. \A n \in 1 .. m + 1 : Path[b][n] \in Block /\ num[Path[b][n]] = n
    <3> SUFFICES ASSUME NEW n \in 1 .. m + 1
                 PROVE  Path[b][n] \in Block /\ num[Path[b][n]] = n
      OBVIOUS
    <3>1. CASE n = m + 1
      BY <2>1, <2>3, <3>1
    <3>2. CASE n # m + 1
      <4>1. n \in 1 .. m
        BY <2>1, <3>2
      <4> QED BY <2>2, <2>3, <4>1 DEF PathShape
    <3> QED BY <3>1, <3>2
  <2>5. \A n \in 2 .. m + 1 : previous[Path[b][n]] = Path[b][n - 1]
    <3> SUFFICES ASSUME NEW n \in 2 .. m + 1
                 PROVE  previous[Path[b][n]] = Path[b][n - 1]
      OBVIOUS
    <3>1. CASE n = m + 1
      <4>1. m > 0 /\ n - 1 = m /\ m \in 1 .. m /\ a \in Block
        BY <2>1, <3>1, BlockFacts
      <4>2. Path[a][m] = a
        <5>1. num[a] = num[previous[a]] + 1 /\ Len(Path[previous[a]]) + 1 = m
          BY <2>2, <4>1, PathStep, BlockFacts
        <5> QED BY <4>1, <5>1, PathStep
      <4> QED BY <2>3, <3>1, <4>1, <4>2
    <3>2. CASE n # m + 1
      <4>1. n \in 1 .. m /\ n - 1 \in 1 .. m /\ n \in 2 .. m
        BY <2>1, <3>2
      <4>2. previous[Path[a][n]] = Path[a][n - 1]
        BY <2>2, <4>1 DEF PathShape
      <4> QED BY <2>3, <4>1, <4>2
    <3> QED BY <3>1, <3>2
  <2> HIDE DEF m
  <2> QED BY <2>1, <2>3, <2>4, <2>5 DEF PathShape
<1> QED
  <2>1. BlockOrGenesis \subseteq P
    <3> HIDE DEF P
    <3> QED BY <1>1, <1>2, BlockInduction
  <2> QED BY <2>1

(* The path of the fork database is the same.                              *)
LEMMA ForkPath == fork_db!Path = Path
BY DEF Path, fork_db!Path, fork_db!BlockOrGenesis, BlockOrGenesis

(* The end of the path to h is h.                                          *)
LEMMA PathEnd ==
  ASSUME NEW h \in Block
  PROVE  /\ num[h] \in 1 .. num[h]
         /\ Path[h][num[h]] = h
         /\ \A n \in 1 .. num[previous[h]] : Path[h][n] = Path[previous[h]][n]
<1>1. PathShape(previous[h])
  BY PathShapes, BlockFacts
<1> QED
  BY <1>1, PathStep, BlockFacts DEF PathShape

(* Two paths that have a block in common agree up to it.                   *)
LEMMA PathAncestor ==
  ASSUME NEW h \in BlockOrGenesis, NEW k \in 1 .. num[h]
  PROVE  \A n \in 1 .. k : Path[Path[h][k]][n] = Path[h][n]
<1> DEFINE P == {b \in BlockOrGenesis : \A j \in 1 .. num[b] : \A n \in 1 .. j :
                     Path[Path[b][j]][n] = Path[b][n]}
<1>1. Genesis \in P
  BY BlockFacts
<1>2. ASSUME NEW b \in Block, previous[b] \in P PROVE b \in P
  <2> SUFFICES ASSUME NEW j \in 1 .. num[b], NEW n \in 1 .. j
               PROVE  Path[Path[b][j]][n] = Path[b][n]
    BY BlockFacts
  <2>1. CASE j = num[b]
    BY <2>1, PathEnd
  <2>2. CASE j # num[b]
    <3>1. j \in 1 .. num[previous[b]] /\ n \in 1 .. num[previous[b]]
      BY <2>2, BlockFacts
    <3>2. Path[b][j] = Path[previous[b]][j] /\ Path[b][n] = Path[previous[b]][n]
      BY <3>1, PathEnd
    <3> QED
      BY <1>2, <3>1, <3>2
  <2> QED
    BY <2>1, <2>2
<1>3. BlockOrGenesis \subseteq P
  <2> HIDE DEF P
  <2> QED BY <1>1, <1>2, BlockInduction
<1> QED
  BY <1>3

-----------------------------------------------------------------------------
(* The record a handler works on                                           *)

Write == [id : Block, data : Block]

NodeState ==
  [head : BlockOrGenesis, undo : Seq(BlockOrGenesis), undo_max : Nat,
   fork : fork_db!ForkDB, pending : Seq(Tx), popped : Seq(Tx),
   log : block_db!BlockLog, writes : Seq(Write), flushed : BlockOrGenesis,
   gap : BOOLEAN, ok : BOOLEAN]

(* The operations of the fork database keep its type.                      *)
LEMMA ForkTypes ==
  ASSUME NEW f \in fork_db!ForkDB
  PROVE  /\ f.index \in SUBSET Block /\ f.head \in Block \cup {NoBlock}
         /\ f.linked \in SUBSET Block /\ f.max_size \in Nat
         /\ fork_db!Expire(f) \in fork_db!ForkDB
         /\ fork_db!Expire(f).index = f.index /\ fork_db!Expire(f).head = f.head
         /\ fork_db!Expire(f).max_size = f.max_size
         /\ \A b \in Block :
              /\ fork_db!start_block(f, b) \in fork_db!ForkDB
              /\ fork_db!set_head(f, b) \in fork_db!ForkDB
              /\ fork_db!remove(f, b) \in fork_db!ForkDB
         /\ \A h \in Block : [f EXCEPT !.head = h] \in fork_db!ForkDB
         /\ \A i \in SUBSET Block : [f EXCEPT !.index = i] \in fork_db!ForkDB
<1> USE DEF fork_db!ForkDB
<1>1. /\ f.index \in SUBSET Block /\ f.head \in Block \cup {NoBlock}
      /\ f.linked \in SUBSET Block /\ f.max_size \in Nat
  OBVIOUS
<1>2. /\ fork_db!Expire(f) \in fork_db!ForkDB
      /\ fork_db!Expire(f).index = f.index /\ fork_db!Expire(f).head = f.head
      /\ fork_db!Expire(f).max_size = f.max_size
  BY DEF fork_db!Expire
<1>3. ASSUME NEW b \in Block
      PROVE  /\ fork_db!start_block(f, b) \in fork_db!ForkDB
             /\ fork_db!set_head(f, b) \in fork_db!ForkDB
             /\ fork_db!remove(f, b) \in fork_db!ForkDB
  BY DEF fork_db!start_block, fork_db!set_head, fork_db!remove
<1>4. \A h \in Block : [f EXCEPT !.head = h] \in fork_db!ForkDB
  OBVIOUS
<1>5. \A i \in SUBSET Block : [f EXCEPT !.index = i] \in fork_db!ForkDB
  OBVIOUS
<1> QED
  BY <1>1, <1>2, <1>3, <1>4, <1>5

(* What pushing a block into the fork database does.                       *)
LEMMA ForkPush ==
  ASSUME NEW f \in fork_db!ForkDB, NEW b \in Block
  PROVE  LET g == fork_db!push_block(f, b)
         IN  /\ g \in fork_db!ForkDB /\ g.max_size = f.max_size
             /\ g.head \in {f.head, b} /\ g.head \in Block
             /\ f.head = NoBlock => g.head = b
             /\ f.head # NoBlock /\ num[b] > num[f.head] => g.head = b
             /\ g.index \subseteq f.index \cup {b}
             /\ b \in g.index
<1> DEFINE in == [f EXCEPT !.index = @ \cup {b},
                      !.linked = IF fork_db!Links(f, b) THEN @ \cup {b} ELSE @]
           g == fork_db!push_block(f, b)
           n == num[b] - fork_db!Smaller(f.max_size, num[b])
           k == [in EXCEPT !.head = b]
<1> USE DEF fork_db!ForkDB
<1>1. /\ in \in fork_db!ForkDB /\ in.max_size = f.max_size /\ in.head = f.head
      /\ in.index = f.index \cup {b}
  OBVIOUS
<1>2. num[b] >= n
  BY BlockFacts DEF fork_db!Smaller, BlockOrGenesis
<1> HIDE DEF in
<1>3. /\ k \in fork_db!ForkDB /\ k.max_size = f.max_size /\ k.head = b
      /\ k.index = f.index \cup {b}
  BY <1>1
<1> HIDE DEF n, k
<1>4. LET v == fork_db!Prune(k, n)
      IN  /\ v \in fork_db!ForkDB /\ v.max_size = f.max_size /\ v.head = b
          /\ v.index \subseteq f.index \cup {b} /\ b \in v.index
  BY <1>2, <1>3 DEF fork_db!Prune
<1>5. g = IF f.head = NoBlock THEN k
          ELSE IF num[b] > num[f.head] THEN fork_db!Prune(k, n) ELSE in
  BY DEF fork_db!push_block, in, n, k
<1> HIDE DEF g
<1> SUFFICES /\ g \in fork_db!ForkDB /\ g.max_size = f.max_size
             /\ g.head \in {f.head, b} /\ g.head \in Block
             /\ f.head = NoBlock => g.head = b
             /\ f.head # NoBlock /\ num[b] > num[f.head] => g.head = b
             /\ g.index \subseteq f.index \cup {b}
             /\ b \in g.index
  BY DEF g
<1>6. CASE f.head = NoBlock
  BY <1>3, <1>5, <1>6
<1>7. CASE f.head # NoBlock /\ num[b] > num[f.head]
  BY <1>4, <1>5, <1>7
<1>8. CASE f.head # NoBlock /\ ~(num[b] > num[f.head])
  BY <1>1, <1>5, <1>8
<1> QED
  BY <1>6, <1>7, <1>8

(* What a new size does.                                                   *)
LEMMA ForkSize ==
  ASSUME NEW f \in fork_db!ForkDB, NEW n \in Nat
  PROVE  LET g == fork_db!set_max_size(f, n)
         IN  /\ g \in fork_db!ForkDB /\ g.max_size = n
             /\ g.head = f.head /\ g.linked = f.linked
             /\ g.index \subseteq f.index
             /\ f.head \in f.index => f.head \in g.index
<1> DEFINE v == [f EXCEPT !.max_size = n]
           k == fork_db!Larger(0, num[f.head] - n)
           g == fork_db!set_max_size(f, n)
<1> USE DEF fork_db!ForkDB
<1>1. /\ v \in fork_db!ForkDB /\ v.max_size = n /\ v.head = f.head
      /\ v.linked = f.linked /\ v.index = f.index
  OBVIOUS
<1>2. f.head \in Block => num[f.head] >= k
  BY BlockFacts DEF fork_db!Larger, BlockOrGenesis
<1>3. g = IF f.head = NoBlock THEN v ELSE fork_db!Prune(v, k)
  BY DEF fork_db!set_max_size
<1> HIDE DEF v, k, g
<1>4. LET r == fork_db!Prune(v, k)
      IN  /\ r \in fork_db!ForkDB /\ r.max_size = n /\ r.head = f.head
          /\ r.linked = f.linked /\ r.index = {b \in f.index : num[b] >= k}
  BY <1>1 DEF fork_db!Prune
<1> QED
  BY <1>1, <1>2, <1>3, <1>4 DEF g

(* What is left of a sequence is an end of it.                             *)
LEMMA LatestSuffix ==
  ASSUME NEW S, NEW q \in Seq(S), NEW n \in Int
  PROVE  /\ Latest(q, n) \in Seq(S)
         /\ Len(Latest(q, n)) <= Len(q)
         /\ \A i \in 1 .. Len(Latest(q, n)) :
              Latest(q, n)[i] = q[i + (Len(q) - Len(Latest(q, n)))]
<1>1. Len(q) \in Nat
  OBVIOUS
<1>2. CASE n <= 0
  <2>1. Latest(q, n) = <<>>
    BY <1>2 DEF Latest
  <2>2. <<>> \in Seq(S) /\ Len(<<>>) = 0 /\ 1 .. 0 = {}
    OBVIOUS
  <2> QED BY <1>1, <2>1, <2>2
<1>3. CASE ~(n <= 0) /\ Len(q) > n
  <2> DEFINE d == Len(q) - n + 1
  <2>1. Latest(q, n) = SubSeq(q, d, Len(q)) /\ d \in 1 .. Len(q)
    BY <1>1, <1>3 DEF Latest
  <2>2. SubSeq(q, d, Len(q)) \in Seq(S) /\ Len(SubSeq(q, d, Len(q))) = Len(q) - d + 1
        /\ \A i \in 1 .. Len(q) - d + 1 : SubSeq(q, d, Len(q))[i] = q[d + i - 1]
    <3> HIDE DEF d
    <3> QED BY <1>1, <2>1
  <2>3. Len(q) - d + 1 = n
    BY <1>1
  <2>4. \A i \in 1 .. n : d + i - 1 = i + (Len(q) - n)
    BY <1>1
  <2> HIDE DEF d
  <2> QED BY <1>1, <1>3, <2>1, <2>2, <2>3, <2>4
<1>4. CASE ~(n <= 0) /\ ~(Len(q) > n)
  <2>1. Latest(q, n) = q
    BY <1>4 DEF Latest
  <2> QED BY <1>1, <2>1
<1> QED
  BY <1>2, <1>3, <1>4

(* A sequence is what is left of itself.                                   *)
LEMMA LatestAll ==
  ASSUME NEW S, NEW q \in Seq(S)
  PROVE  q = Latest(q, Len(q))
<1>1. Len(q) \in Nat
  OBVIOUS
<1>2. CASE Len(q) = 0
  <2>1. q = <<>>
    BY <1>2
  <2> QED BY <1>1, <1>2, <2>1 DEF Latest
<1>3. CASE Len(q) > 0
  BY <1>1, <1>3 DEF Latest
<1> QED BY <1>1, <1>2, <1>3

(* All of the record is as before, but for the undo log, the sizes, the    *)
(* fork database and the exception.                                        *)
Frame(s, t) ==
  /\ t.head = s.head /\ t.popped = s.popped /\ t.pending = s.pending
  /\ t.log = s.log /\ t.writes = s.writes /\ t.flushed = s.flushed
  /\ t.gap = s.gap

(* The oldest undo states may be gone.                                     *)
Trims(s, t) == Frame(s, t) /\ \E n \in Int : t.undo = Latest(s.undo, n)

(* A block has been applied.                                               *)
Applied(s, id, b, t) ==
  /\ BlockApplies(s, b)
  /\ t.head = b
  /\ \E n \in Int : t.undo = Append(Latest(s.undo, n), s.head)
  /\ t.log = block_db!store(s.log, id, b)
  /\ t.writes = Append(s.writes, [id |-> id, data |-> b])
  /\ t.fork = fork_db!set_max_size(s.fork, num[b] - lib[s.head] + 1)
  /\ t.popped = s.popped /\ t.pending = s.pending /\ t.flushed = s.flushed
  /\ t.gap = s.gap

(* A block has been popped.                                                *)
Popped(s, t) ==
  /\ s.undo # <<>> /\ s.head \in Block
  /\ t.head = Last(s.undo)
  /\ t.undo = Front(s.undo)
  /\ t.popped = transactions[s.head] \o s.popped
  /\ t.pending = s.pending /\ t.log = s.log /\ t.writes = s.writes
  /\ t.flushed = s.flushed /\ t.gap = s.gap

(* The types of the fields, for the leaves that need no more.              *)
LEMMA NodeTypes ==
  ASSUME NEW s \in NodeState
  PROVE  /\ s.head \in BlockOrGenesis /\ s.undo \in Seq(BlockOrGenesis)
         /\ s.undo_max \in Nat /\ s.fork \in fork_db!ForkDB
         /\ s.pending \in Seq(Tx) /\ s.popped \in Seq(Tx)
         /\ s.log \in block_db!BlockLog /\ s.writes \in Seq(Write)
         /\ s.flushed \in BlockOrGenesis /\ s.gap \in BOOLEAN /\ s.ok \in BOOLEAN
BY DEF NodeState

(* The frame without a change of the undo log.                             *)
LEMMA FrameTrims ==
  ASSUME NEW s \in NodeState, NEW t, Frame(s, t), t.undo = s.undo
  PROVE  Trims(s, t)
<1>1. s.undo \in Seq(BlockOrGenesis)
  BY NodeTypes
<1>2. Len(s.undo) \in Int /\ s.undo = Latest(s.undo, Len(s.undo))
  BY <1>1, LatestAll
<1> QED
  BY <1>2 DEF Trims

(* A change of the fork database and of the exception only.                *)
LEMMA SetFork ==
  ASSUME NEW s \in NodeState, NEW f \in fork_db!ForkDB
  PROVE  LET t == [s EXCEPT !.fork = f]
         IN  t \in NodeState /\ Trims(s, t) /\ t.undo = s.undo /\ t.fork = f /\ t.ok = s.ok
<1>1. LET t == [s EXCEPT !.fork = f]
      IN  t \in NodeState /\ Frame(s, t) /\ t.undo = s.undo /\ t.fork = f /\ t.ok = s.ok
  BY DEF NodeState, Frame
<1> QED
  BY <1>1, FrameTrims

(* An exception that is raised or caught.                                  *)
LEMMA SetOk ==
  ASSUME NEW s \in NodeState, NEW o \in BOOLEAN
  PROVE  LET t == [s EXCEPT !.ok = o]
         IN  t \in NodeState /\ Trims(s, t) /\ t.undo = s.undo /\ t.fork = s.fork /\ t.ok = o
<1>1. LET t == [s EXCEPT !.ok = o]
      IN  t \in NodeState /\ Frame(s, t) /\ t.undo = s.undo /\ t.fork = s.fork /\ t.ok = o
  BY DEF NodeState, Frame
<1> QED
  BY <1>1, FrameTrims

(* An exception and a change of the fork database.                         *)
LEMMA SetOkFork ==
  ASSUME NEW s \in NodeState, NEW f \in fork_db!ForkDB, NEW o \in BOOLEAN
  PROVE  LET t == [s EXCEPT !.ok = o, !.fork = f]
         IN  t \in NodeState /\ Trims(s, t) /\ t.undo = s.undo /\ t.fork = f /\ t.ok = o
<1>1. LET t == [s EXCEPT !.ok = o, !.fork = f]
      IN  t \in NodeState /\ Frame(s, t) /\ t.undo = s.undo /\ t.fork = f /\ t.ok = o
  BY DEF NodeState, Frame
<1> QED
  BY <1>1, FrameTrims

(* The slot a store writes.                                                *)
LEMMA StoreTyped ==
  ASSUME NEW l \in block_db!BlockLog, NEW id \in Block, NEW b \in Block
  PROVE  /\ block_db!store(l, id, b) \in block_db!BlockLog
         /\ num[id] \in 1 .. MaxNum
         /\ block_db!store(l, id, b)[num[id]] = [id |-> id, data |-> b]
         /\ \A n \in 1 .. MaxNum : n # num[id] => block_db!store(l, id, b)[n] = l[n]
<1>1. num[id] \in 1 .. MaxNum
  BY ChainAssumption
<1>2. [id |-> id, data |-> b] \in block_db!Slot
  BY DEF block_db!Slot
<1> QED
  BY <1>1, <1>2 DEF block_db!store, block_db!BlockLog

(* The size of the histories.                                              *)
LEMMA SizeTyped ==
  ASSUME NEW h, NEW b \in Block, previous[b] = h
  PROVE  num[b] - lib[h] + 1 \in Nat
BY BlockFacts, ChainAssumption

(* The three ways in which apply_block ends.                               *)
LEMMA ApplyCases ==
  ASSUME NEW s \in NodeState, NEW id \in Block, NEW b \in Block
  PROVE  LET t == apply_block(s, id, b)
         IN  /\ t \in NodeState
             /\ \/ ~s.ok /\ t = s
                \/ s.ok /\ ~BlockApplies(s, b) /\ ~t.ok /\ Trims(s, t) /\ t.fork = s.fork
                \/ s.ok /\ t.ok /\ Applied(s, id, b, t)
<1> DEFINE t == apply_block(s, id, b)
           v == [s EXCEPT !.undo = Latest(@, s.undo_max)]
<1> SUFFICES /\ t \in NodeState
             /\ \/ ~s.ok /\ t = s
                \/ s.ok /\ ~BlockApplies(s, b) /\ ~t.ok /\ Trims(s, t) /\ t.fork = s.fork
                \/ s.ok /\ t.ok /\ Applied(s, id, b, t)
  OBVIOUS
<1>1. Latest(s.undo, s.undo_max) \in Seq(BlockOrGenesis) /\ s.undo_max \in Int
  BY NodeTypes, LatestSuffix
<1>2. v \in NodeState /\ Trims(s, v) /\ v.fork = s.fork /\ v.head = s.head
      /\ v.undo = Latest(s.undo, s.undo_max) /\ v.ok = s.ok
  BY <1>1 DEF NodeState, Trims, Frame
<1>3. CASE ~s.ok
  BY <1>3 DEF apply_block
<1>4. CASE s.ok /\ ~BlockApplies(s, b)
  <2> DEFINE no == FALSE
  <2>1. t = [v EXCEPT !.ok = no]
    BY <1>4 DEF apply_block
  <2>2. no \in BOOLEAN /\ ~no
    OBVIOUS
  <2> HIDE DEF no, t, v
  <2>3. t \in NodeState /\ Frame(v, t) /\ t.undo = v.undo /\ t.fork = v.fork /\ t.ok = no
    BY <1>2, <2>1, <2>2, SetOk DEF Trims
  <2>4. Trims(s, t)
    BY <1>1, <1>2, <2>3 DEF Trims, Frame
  <2> QED BY <1>2, <1>4, <2>2, <2>3, <2>4
<1>5. CASE s.ok /\ BlockApplies(s, b)
  <2> DEFINE n == num[b] - lib[s.head] + 1
             r == SetMaxSizes(v, b)
  <2>1. previous[b] = s.head /\ n \in Nat
    BY <1>5, SizeTyped DEF BlockApplies
  <2>2. fork_db!set_max_size(s.fork, n) \in fork_db!ForkDB
    <3> HIDE DEF n
    <3> QED BY <2>1, ForkSize, NodeTypes
  <2>3. r = [v EXCEPT !.undo_max = n, !.fork = fork_db!set_max_size(@, n)]
    BY <1>2 DEF SetMaxSizes
  <2> DEFINE f == fork_db!set_max_size(s.fork, n)
             l == block_db!store(s.log, id, b)
             wr == [id |-> id, data |-> b]
  <2>4. l \in block_db!BlockLog /\ wr \in Write
    BY StoreTyped, NodeTypes DEF Write
  <2>5. t = [r EXCEPT !.undo = Append(@, s.head), !.head = b,
                      !.log = block_db!store(@, id, b),
                      !.writes = Append(@, wr)]
    BY <1>5 DEF apply_block
  <2> HIDE DEF n, r, t, wr
  <2>6. /\ r \in NodeState /\ Frame(s, r) /\ r.undo = v.undo /\ r.fork = f /\ r.ok = s.ok
    BY <1>2, <2>1, <2>2, <2>3 DEF NodeState, Frame, Trims
  <2> HIDE DEF v, f
  <2>7. Append(r.undo, s.head) \in Seq(BlockOrGenesis) /\ Append(r.writes, wr) \in Seq(Write)
    BY <2>4, <2>6, NodeTypes
  <2>8. block_db!store(r.log, id, b) \in block_db!BlockLog /\ b \in BlockOrGenesis
    BY <2>4, <2>6, BlockFacts DEF Frame
  <2>9. /\ t \in NodeState
        /\ t.head = b /\ t.undo = Append(r.undo, s.head)
        /\ t.log = block_db!store(r.log, id, b)
        /\ t.writes = Append(r.writes, wr)
        /\ t.fork = r.fork /\ t.popped = r.popped /\ t.pending = r.pending
        /\ t.flushed = r.flushed /\ t.gap = r.gap /\ t.ok = r.ok
    BY <2>5, <2>6, <2>7, <2>8 DEF NodeState
  <2>10. Applied(s, id, b, t)
    BY <1>1, <1>2, <1>5, <2>6, <2>9 DEF Applied, Frame, f, n, wr
  <2> QED BY <1>5, <2>6, <2>9, <2>10
<1> QED
  BY <1>3, <1>4, <1>5, NodeTypes

(* The beginning of a sequence.                                            *)
LEMMA SubSeqPrefix ==
  ASSUME NEW S, NEW q \in Seq(S), NEW n \in Nat, n <= Len(q)
  PROVE  /\ SubSeq(q, 1, n) \in Seq(S) /\ Len(SubSeq(q, 1, n)) = n
         /\ \A i \in 1 .. n : SubSeq(q, 1, n)[i] = q[i]
<1>1. CASE n = 0
  BY <1>1
<1>2. CASE n > 0
  BY <1>2
<1> QED BY <1>1, <1>2

(* The last element of a sequence and what comes before it.                *)
LEMMA FrontLast ==
  ASSUME NEW S, NEW q \in Seq(S), q # <<>>
  PROVE  /\ Len(q) \in Nat \ {0} /\ Last(q) = q[Len(q)] /\ Last(q) \in S
         /\ Front(q) \in Seq(S) /\ Len(Front(q)) = Len(q) - 1
         /\ \A i \in 1 .. Len(q) - 1 : Front(q)[i] = q[i]
<1>1. Len(q) \in Nat \ {0}
  OBVIOUS
<1>2. Last(q) = q[Len(q)] /\ q[Len(q)] \in S
  BY <1>1 DEF Last
<1>3. Front(q) = SubSeq(q, 1, Len(q) - 1)
  BY DEF Front
<1>4. /\ SubSeq(q, 1, Len(q) - 1) \in Seq(S) /\ Len(SubSeq(q, 1, Len(q) - 1)) = Len(q) - 1
      /\ \A i \in 1 .. Len(q) - 1 : SubSeq(q, 1, Len(q) - 1)[i] = q[i]
  <2> DEFINE n == Len(q) - 1
  <2>1. n \in Nat /\ n <= Len(q)
    BY <1>1
  <2> HIDE DEF n
  <2>2. /\ SubSeq(q, 1, n) \in Seq(S) /\ Len(SubSeq(q, 1, n)) = n
        /\ \A i \in 1 .. n : SubSeq(q, 1, n)[i] = q[i]
    BY <2>1, SubSeqPrefix
  <2> QED BY <2>2 DEF n
<1> QED
  BY <1>1, <1>2, <1>3, <1>4

(* The three ways in which pop_block ends.                                 *)
LEMMA PopCases ==
  ASSUME NEW s \in NodeState, NEW held \in SUBSET Block
  PROVE  LET t == pop_block(s, held)
         IN  /\ t \in NodeState
             /\ \/ ~s.ok /\ t = s
                \/ s.ok /\ ~t.ok /\ Trims(s, t)
                \/ s.ok /\ t.ok /\ Popped(s, t)
<1> DEFINE t == pop_block(s, held)
           can == CanFetchHead(s) /\ fork_db!CanPop(s.fork, held)
           f == fork_db!pop_block(s.fork)
           no == FALSE
<1> SUFFICES /\ t \in NodeState
             /\ \/ ~s.ok /\ t = s
                \/ s.ok /\ ~t.ok /\ Trims(s, t)
                \/ s.ok /\ t.ok /\ Popped(s, t)
  OBVIOUS
<1>1. no \in BOOLEAN /\ ~no
  OBVIOUS
<1>2. t = IF ~s.ok THEN s
          ELSE IF ~can THEN [s EXCEPT !.ok = no]
          ELSE IF s.undo = <<>> THEN [s EXCEPT !.ok = no, !.fork = fork_db!pop_block(@)]
          ELSE [s EXCEPT !.fork = fork_db!pop_block(@), !.head = Last(s.undo),
                         !.undo = Front(@), !.popped = transactions[s.head] \o @]
  BY DEF pop_block
<1>3. can => f \in fork_db!ForkDB /\ s.head \in Block
  <2> SUFFICES ASSUME can PROVE f \in fork_db!ForkDB /\ s.head \in Block
    OBVIOUS
  <2>1. s.head \in Block
    BY NodeTypes, BlockFacts DEF CanFetchHead
  <2>2. s.fork \in fork_db!ForkDB /\ s.fork.index \in SUBSET Block /\ s.fork.linked \in SUBSET Block
    BY NodeTypes, ForkTypes
  <2>3. previous[s.fork.head] \in Block
    BY <2>2 DEF fork_db!CanPop
  <2>4. [s.fork EXCEPT !.head = previous[s.fork.head]] \in fork_db!ForkDB
    BY <2>2, <2>3, ForkTypes
  <2> QED BY <2>1, <2>4 DEF fork_db!pop_block
<1> HIDE DEF t, can, no
<1>4. CASE ~s.ok
  BY <1>2, <1>4
<1>5. CASE s.ok /\ ~can
  <2>1. t = [s EXCEPT !.ok = no]
    BY <1>2, <1>5
  <2>2. t \in NodeState /\ Trims(s, t) /\ t.ok = no
    BY <1>1, <2>1, SetOk
  <2> QED BY <1>1, <1>5, <2>2
<1>6. CASE s.ok /\ can /\ s.undo = <<>>
  <2>1. t = [s EXCEPT !.ok = no, !.fork = f]
    BY <1>2, <1>6
  <2>2. t \in NodeState /\ Trims(s, t) /\ t.ok = no
    <3>1. f \in fork_db!ForkDB
      BY <1>3, <1>6
    <3> HIDE DEF f
    <3>2. t \in NodeState /\ Frame(s, t) /\ t.undo = s.undo /\ t.ok = no
      BY <1>1, <2>1, <3>1 DEF NodeState, Frame
    <3> QED BY <3>2, FrameTrims
  <2> QED BY <1>1, <1>6, <2>2
<1>7. CASE s.ok /\ can /\ s.undo # <<>>
  <2> DEFINE q == transactions[s.head] \o s.popped
  <2>1. t = [s EXCEPT !.fork = f, !.head = Last(s.undo), !.undo = Front(s.undo), !.popped = q]
    BY <1>2, <1>7
  <2>2. Last(s.undo) \in BlockOrGenesis /\ Front(s.undo) \in Seq(BlockOrGenesis)
    BY <1>7, NodeTypes, FrontLast
  <2>3. q \in Seq(Tx)
    BY <1>3, <1>7, NodeTypes, ChainAssumption
  <2> HIDE DEF f, q
  <2>4. /\ t \in NodeState /\ t.head = Last(s.undo) /\ t.undo = Front(s.undo) /\ t.popped = q
        /\ t.pending = s.pending /\ t.log = s.log /\ t.writes = s.writes
        /\ t.flushed = s.flushed /\ t.gap = s.gap /\ t.ok = s.ok
    BY <1>3, <1>7, <2>1, <2>2, <2>3 DEF NodeState
  <2>5. Popped(s, t)
    BY <1>3, <1>7, <2>4 DEF Popped, q
  <2> QED BY <1>7, <2>4, <2>5
<1> QED
  BY <1>4, <1>5, <1>6, <1>7

-----------------------------------------------------------------------------
(* Loops                                                                   *)

(* The natural number n counts as many rounds as the integer k.            *)
Counts(n, k) == 1 .. n = 1 .. k

(* The states that the restorer leads through.                             *)
RestoreRun(p, s, q, B) ==
  /\ p \in [0 .. Len(s.popped \o q) -> B] /\ p[0] = [s EXCEPT !.popped = <<>>]
  /\ \A i \in 1 .. Len(s.popped \o q) : p[i] = restore_one(p[i - 1], (s.popped \o q)[i])

(* The loop of the restorer.                                               *)
LEMMA RestoreFold ==
  ASSUME NEW B, NEW s, NEW q \in Seq(Tx), s.popped \o q \in Seq(Tx),
         [s EXCEPT !.popped = <<>>] \in B,
         \A a \in B, tx \in Tx : restore_one(a, tx) \in B
  PROVE  \E p : RestoreRun(p, s, q, B) /\ p[Len(s.popped \o q)] = restore(s, q)
<1> DEFINE N == Len(s.popped \o q)
           D == 1 .. N
           b == [s EXCEPT !.popped = <<>>]
           F == [i \in D |-> [a \in B |-> restore_one(a, (s.popped \o q)[i])]]
           Folds(g) == g = [t \in SUBSET D |-> IF t = {} THEN b
                              ELSE restore_one(g[t \ {Max(t)}], (s.popped \o q)[Max(t)])]
<1>1. N \in Nat /\ DOMAIN (s.popped \o q) = D /\ \A i \in D : (s.popped \o q)[i] \in Tx
  OBVIOUS
<1>2. F \in [D -> [B -> B]]
  BY <1>1
<1> HIDE DEF N, b
<1>3. PICK g : LeftFold(g, F, b, N, B)
  <2>1. b \in B
    BY DEF b
  <2> HIDE DEF F
  <2> QED BY <1>1, <1>2, <2>1, LeftFoldExists, Zenon
<1>4. g \in [SUBSET D -> B] /\ g[{}] = b
  BY <1>3 DEF LeftFold
<1>5. ASSUME NEW t \in SUBSET D, t # {}
      PROVE  Max(t) \in t /\ g[t] = restore_one(g[t \ {Max(t)}], (s.popped \o q)[Max(t)])
  <2>1. Max(t) \in t /\ g[t] = F[Max(t)][g[t \ {Max(t)}]]
    BY <1>3, <1>5 DEF LeftFold
  <2>2. g[t \ {Max(t)}] \in B /\ Max(t) \in D
    BY <1>4, <2>1
  <2> QED
    BY <2>1, <2>2
<1> HIDE DEF F, D
<1> DEFINE h == CHOOSE h : Folds(h)
<1>6. Folds([t \in SUBSET D |-> g[t]])
  BY <1>4, <1>5
<1>7. Folds(h)
  BY <1>6
<1>8. restore(s, q) = h[D]
  BY <1>1 DEF restore, FoldLeft, MapThenFoldSet, b
<1> HIDE DEF h
<1>9. LeftFolds(h, F, b, N, B)
  <2>1. h[{}] = b
    BY <1>7
  <2>2. ASSUME NEW t \in SUBSET D, t # {}, h[t \ {Max(t)}] \in B
        PROVE  h[t] = F[Max(t)][h[t \ {Max(t)}]]
    <3>1. Max(t) \in D
      BY <1>5, <2>2
    <3>2. h[t] = restore_one(h[t \ {Max(t)}], (s.popped \o q)[Max(t)])
      BY <1>7, <2>2
    <3> QED
      BY <2>2, <3>1, <3>2 DEF F
  <2> QED
    BY <2>1, <2>2 DEF LeftFolds, D
<1>10. b \in B
  BY DEF b
<1>11. PICK p : Runs(p, F, b, N, B) /\ p[N] = h[1 .. N]
  <2>1. F \in [1 .. N -> [B -> B]] /\ N \in Nat
    BY <1>1, <1>2 DEF D
  <2> QED BY <1>9, <1>10, <2>1, FoldChain
<1>12. \A i \in 1 .. N : p[i] = restore_one(p[i - 1], (s.popped \o q)[i])
  <2>1. \A i \in 1 .. N : p[i - 1] \in B
    BY <1>1, <1>11 DEF Runs
  <2> QED
    BY <1>11, <2>1 DEF F, D, Runs
<1> QED
  BY <1>8, <1>11, <1>12 DEF D, N, b, Runs, RestoreRun

(* The states that applying a branch leads through.                        *)
ApplyRun(p, s, q, B) ==
  /\ p \in [0 .. Len(q) -> B] /\ p[0] = s
  /\ \A i \in 1 .. Len(q) : p[i] = apply_block(p[i - 1], q[i], q[i])

(* The loop that applies a branch.                                         *)
LEMMA ApplyFold ==
  ASSUME NEW B, NEW s \in B, NEW q \in Seq(Block),
         \A a \in B, b \in Block : apply_block(a, b, b) \in B
  PROVE  \E p : ApplyRun(p, s, q, B) /\ p[Len(q)] = apply_blocks(s, q)
<1> DEFINE N == Len(q)
           D == 1 .. N
           b == s
           F == [i \in D |-> [a \in B |-> apply_block(a, q[i], q[i])]]
           Folds(g) == g = [t \in SUBSET D |-> IF t = {} THEN b
                              ELSE apply_block(g[t \ {Max(t)}], q[Max(t)], q[Max(t)])]
<1>1. N \in Nat /\ DOMAIN q = D /\ \A i \in D : q[i] \in Block
  OBVIOUS
<1>2. F \in [D -> [B -> B]]
  BY <1>1
<1> HIDE DEF N, b
<1>3. PICK g : LeftFold(g, F, b, N, B)
  <2>1. b \in B
    BY DEF b
  <2> HIDE DEF F
  <2> QED BY <1>1, <1>2, <2>1, LeftFoldExists, Zenon
<1>4. g \in [SUBSET D -> B] /\ g[{}] = b
  BY <1>3 DEF LeftFold
<1>5. ASSUME NEW t \in SUBSET D, t # {}
      PROVE  Max(t) \in t /\ g[t] = apply_block(g[t \ {Max(t)}], q[Max(t)], q[Max(t)])
  <2>1. Max(t) \in t /\ g[t] = F[Max(t)][g[t \ {Max(t)}]]
    BY <1>3, <1>5 DEF LeftFold
  <2>2. g[t \ {Max(t)}] \in B /\ Max(t) \in D
    BY <1>4, <2>1
  <2> QED
    BY <2>1, <2>2
<1> HIDE DEF F, D
<1> DEFINE h == CHOOSE h : Folds(h)
<1>6. Folds([t \in SUBSET D |-> g[t]])
  BY <1>4, <1>5
<1>7. Folds(h)
  BY <1>6
<1>8. apply_blocks(s, q) = h[D]
  BY <1>1 DEF apply_blocks, FoldLeft, MapThenFoldSet, b
<1> HIDE DEF h
<1>9. LeftFolds(h, F, b, N, B)
  <2>1. h[{}] = b
    BY <1>7
  <2>2. ASSUME NEW t \in SUBSET D, t # {}, h[t \ {Max(t)}] \in B
        PROVE  h[t] = F[Max(t)][h[t \ {Max(t)}]]
    <3>1. Max(t) \in D
      BY <1>5, <2>2
    <3>2. h[t] = apply_block(h[t \ {Max(t)}], q[Max(t)], q[Max(t)])
      BY <1>7, <2>2
    <3> QED
      BY <2>2, <3>1, <3>2 DEF F
  <2> QED
    BY <2>1, <2>2 DEF LeftFolds, D
<1>10. b \in B
  BY DEF b
<1>11. PICK p : Runs(p, F, b, N, B) /\ p[N] = h[1 .. N]
  <2>1. F \in [1 .. N -> [B -> B]] /\ N \in Nat
    BY <1>1, <1>2 DEF D
  <2> QED BY <1>9, <1>10, <2>1, FoldChain
<1>12. \A i \in 1 .. N : p[i] = apply_block(p[i - 1], q[i], q[i])
  <2>1. \A i \in 1 .. N : p[i - 1] \in B
    BY <1>1, <1>11 DEF Runs
  <2> QED
    BY <1>11, <2>1 DEF F, D, Runs
<1> QED
  BY <1>8, <1>11, <1>12 DEF D, N, b, Runs, ApplyRun

(* The states that popping leads through.                                  *)
PopRun(p, s, n, held, B) ==
  /\ p \in [0 .. n -> B] /\ p[0] = s
  /\ \A i \in 1 .. n : p[i] = pop_block(p[i - 1], held)

(* The loop that pops a branch.                                            *)
LEMMA PopFold ==
  ASSUME NEW B, NEW s \in B, NEW k, NEW n \in Nat, Counts(n, k), NEW held,
         \A a \in B : pop_block(a, held) \in B
  PROVE  \E p : PopRun(p, s, n, held, B) /\ p[n] = pop_blocks(s, k, held)
<1> DEFINE N == n
           D == 1 .. N
           b == s
           F == [i \in D |-> [a \in B |-> pop_block(a, held)]]
           Folds(g) == g = [t \in SUBSET D |-> IF t = {} THEN b
                              ELSE pop_block(g[t \ {Max(t)}], held)]
<1>1. N \in Nat /\ DOMAIN [i \in 1 .. k |-> i] = D
  BY DEF Counts
<1>2. F \in [D -> [B -> B]]
  BY <1>1
<1> HIDE DEF N, b
<1>3. PICK g : LeftFold(g, F, b, N, B)
  <2>1. b \in B
    BY DEF b
  <2> HIDE DEF F
  <2> QED BY <1>1, <1>2, <2>1, LeftFoldExists, Zenon
<1>4. g \in [SUBSET D -> B] /\ g[{}] = b
  BY <1>3 DEF LeftFold
<1>5. ASSUME NEW t \in SUBSET D, t # {}
      PROVE  Max(t) \in t /\ g[t] = pop_block(g[t \ {Max(t)}], held)
  <2>1. Max(t) \in t /\ g[t] = F[Max(t)][g[t \ {Max(t)}]]
    BY <1>3, <1>5 DEF LeftFold
  <2>2. g[t \ {Max(t)}] \in B /\ Max(t) \in D
    BY <1>4, <2>1
  <2> QED
    BY <2>1, <2>2
<1> HIDE DEF F, D
<1> DEFINE h == CHOOSE h : Folds(h)
<1>6. Folds([t \in SUBSET D |-> g[t]])
  BY <1>4, <1>5
<1>7. Folds(h)
  BY <1>6
<1>8. pop_blocks(s, k, held) = h[D]
  BY <1>1 DEF pop_blocks, FoldLeft, MapThenFoldSet, b
<1> HIDE DEF h
<1>9. LeftFolds(h, F, b, N, B)
  <2>1. h[{}] = b
    BY <1>7
  <2>2. ASSUME NEW t \in SUBSET D, t # {}, h[t \ {Max(t)}] \in B
        PROVE  h[t] = F[Max(t)][h[t \ {Max(t)}]]
    <3>1. Max(t) \in D
      BY <1>5, <2>2
    <3>2. h[t] = pop_block(h[t \ {Max(t)}], held)
      BY <1>7, <2>2
    <3> QED
      BY <2>2, <3>1, <3>2 DEF F
  <2> QED
    BY <2>1, <2>2 DEF LeftFolds, D
<1>10. b \in B
  BY DEF b
<1>11. PICK p : Runs(p, F, b, N, B) /\ p[N] = h[1 .. N]
  <2>1. F \in [1 .. N -> [B -> B]] /\ N \in Nat
    BY <1>1, <1>2 DEF D
  <2> QED BY <1>9, <1>10, <2>1, FoldChain
<1>12. \A i \in 1 .. N : p[i] = pop_block(p[i - 1], held)
  <2>1. \A i \in 1 .. N : p[i - 1] \in B
    BY <1>1, <1>11 DEF Runs
  <2> QED
    BY <1>11, <2>1 DEF F, D, Runs
<1> QED
  BY <1>8, <1>11, <1>12 DEF D, N, b, Runs, PopRun

(* The states that putting a branch back leads through.                    *)
ReturnRun(p, s, id, old, B) ==
  /\ p \in [0 .. Len(old) -> B] /\ p[0] = s
  /\ \A i \in 1 .. Len(old) : p[i] = apply_block(p[i - 1], id, old[i])

(* The loop that puts the old branch back.                                 *)
LEMMA ReturnFold ==
  ASSUME NEW B, NEW s \in B, NEW id, NEW old \in Seq(Block),
         \A a \in B, b \in Block : apply_block(a, id, b) \in B
  PROVE  \E p : ReturnRun(p, s, id, old, B) /\ p[Len(old)] = put_back(s, id, old)
<1> DEFINE N == Len(old)
           D == 1 .. N
           b == s
           F == [i \in D |-> [a \in B |-> apply_block(a, id, old[i])]]
           Folds(g) == g = [t \in SUBSET D |-> IF t = {} THEN b
                              ELSE apply_block(g[t \ {Max(t)}], id, old[Max(t)])]
<1>1. N \in Nat /\ DOMAIN old = D /\ \A i \in D : old[i] \in Block
  OBVIOUS
<1>2. F \in [D -> [B -> B]]
  BY <1>1
<1> HIDE DEF N, b
<1>3. PICK g : LeftFold(g, F, b, N, B)
  <2>1. b \in B
    BY DEF b
  <2> HIDE DEF F
  <2> QED BY <1>1, <1>2, <2>1, LeftFoldExists, Zenon
<1>4. g \in [SUBSET D -> B] /\ g[{}] = b
  BY <1>3 DEF LeftFold
<1>5. ASSUME NEW t \in SUBSET D, t # {}
      PROVE  Max(t) \in t /\ g[t] = apply_block(g[t \ {Max(t)}], id, old[Max(t)])
  <2>1. Max(t) \in t /\ g[t] = F[Max(t)][g[t \ {Max(t)}]]
    BY <1>3, <1>5 DEF LeftFold
  <2>2. g[t \ {Max(t)}] \in B /\ Max(t) \in D
    BY <1>4, <2>1
  <2> QED
    BY <2>1, <2>2
<1> HIDE DEF F, D
<1> DEFINE h == CHOOSE h : Folds(h)
<1>6. Folds([t \in SUBSET D |-> g[t]])
  BY <1>4, <1>5
<1>7. Folds(h)
  BY <1>6
<1>8. put_back(s, id, old) = h[D]
  BY <1>1 DEF put_back, FoldLeft, MapThenFoldSet, b
<1> HIDE DEF h
<1>9. LeftFolds(h, F, b, N, B)
  <2>1. h[{}] = b
    BY <1>7
  <2>2. ASSUME NEW t \in SUBSET D, t # {}, h[t \ {Max(t)}] \in B
        PROVE  h[t] = F[Max(t)][h[t \ {Max(t)}]]
    <3>1. Max(t) \in D
      BY <1>5, <2>2
    <3>2. h[t] = apply_block(h[t \ {Max(t)}], id, old[Max(t)])
      BY <1>7, <2>2
    <3> QED
      BY <2>2, <3>1, <3>2 DEF F
  <2> QED
    BY <2>1, <2>2 DEF LeftFolds, D
<1>10. b \in B
  BY DEF b
<1>11. PICK p : Runs(p, F, b, N, B) /\ p[N] = h[1 .. N]
  <2>1. F \in [1 .. N -> [B -> B]] /\ N \in Nat
    BY <1>1, <1>2 DEF D
  <2> QED BY <1>9, <1>10, <2>1, FoldChain
<1>12. \A i \in 1 .. N : p[i] = apply_block(p[i - 1], id, old[i])
  <2>1. \A i \in 1 .. N : p[i - 1] \in B
    BY <1>1, <1>11 DEF Runs
  <2> QED
    BY <1>11, <2>1 DEF F, D, Runs
<1> QED
  BY <1>8, <1>11, <1>12 DEF D, N, b, Runs, ReturnRun

(* The states that close leads through.                                    *)
RewindRun(p, s, n, B) ==
  /\ p \in [0 .. n -> B] /\ p[0] = s
  /\ \A i \in 1 .. n : p[i] = rewind_one(p[i - 1])

(* The loop of close.                                                      *)
LEMMA RewindFold ==
  ASSUME NEW B, NEW s \in B, NEW n \in Nat, Counts(n, num[s.head] - lib[s.head]),
         \A a \in B : rewind_one(a) \in B
  PROVE  \E p : RewindRun(p, s, n, B) /\ p[n] = rewind(s)
<1> DEFINE N == n
           D == 1 .. N
           b == s
           F == [i \in D |-> [a \in B |-> rewind_one(a)]]
           Folds(g) == g = [t \in SUBSET D |-> IF t = {} THEN b
                              ELSE rewind_one(g[t \ {Max(t)}])]
<1>1. N \in Nat /\ DOMAIN [i \in 1 .. num[s.head] - lib[s.head] |-> i] = D
  BY DEF Counts
<1>2. F \in [D -> [B -> B]]
  BY <1>1
<1> HIDE DEF N, b
<1>3. PICK g : LeftFold(g, F, b, N, B)
  <2>1. b \in B
    BY DEF b
  <2> HIDE DEF F
  <2> QED BY <1>1, <1>2, <2>1, LeftFoldExists, Zenon
<1>4. g \in [SUBSET D -> B] /\ g[{}] = b
  BY <1>3 DEF LeftFold
<1>5. ASSUME NEW t \in SUBSET D, t # {}
      PROVE  Max(t) \in t /\ g[t] = rewind_one(g[t \ {Max(t)}])
  <2>1. Max(t) \in t /\ g[t] = F[Max(t)][g[t \ {Max(t)}]]
    BY <1>3, <1>5 DEF LeftFold
  <2>2. g[t \ {Max(t)}] \in B /\ Max(t) \in D
    BY <1>4, <2>1
  <2> QED
    BY <2>1, <2>2
<1> HIDE DEF F, D
<1> DEFINE h == CHOOSE h : Folds(h)
<1>6. Folds([t \in SUBSET D |-> g[t]])
  BY <1>4, <1>5
<1>7. Folds(h)
  BY <1>6
<1>8. rewind(s) = h[D]
  BY <1>1 DEF rewind, FoldLeft, MapThenFoldSet, b
<1> HIDE DEF h
<1>9. LeftFolds(h, F, b, N, B)
  <2>1. h[{}] = b
    BY <1>7
  <2>2. ASSUME NEW t \in SUBSET D, t # {}, h[t \ {Max(t)}] \in B
        PROVE  h[t] = F[Max(t)][h[t \ {Max(t)}]]
    <3>1. Max(t) \in D
      BY <1>5, <2>2
    <3>2. h[t] = rewind_one(h[t \ {Max(t)}])
      BY <1>7, <2>2
    <3> QED
      BY <2>2, <3>1, <3>2 DEF F
  <2> QED
    BY <2>1, <2>2 DEF LeftFolds, D
<1>10. b \in B
  BY DEF b
<1>11. PICK p : Runs(p, F, b, N, B) /\ p[N] = h[1 .. N]
  <2>1. F \in [1 .. N -> [B -> B]] /\ N \in Nat
    BY <1>1, <1>2 DEF D
  <2> QED BY <1>9, <1>10, <2>1, FoldChain
<1>12. \A i \in 1 .. N : p[i] = rewind_one(p[i - 1])
  <2>1. \A i \in 1 .. N : p[i - 1] \in B
    BY <1>1, <1>11 DEF Runs
  <2> QED
    BY <1>11, <2>1 DEF F, D, Runs
<1> QED
  BY <1>8, <1>11, <1>12 DEF D, N, b, Runs, RewindRun

(* The states that the replay leads through.                               *)
ReindexRun(p, direct, s, q, n, B) ==
  /\ p \in [0 .. n -> B] /\ p[0] = s
  /\ \A i \in 1 .. n : p[i] = reindex_one(direct, p[i - 1], q[i])

(* The loop of the replay.                                                 *)
LEMMA ReindexFold ==
  ASSUME NEW B, NEW direct, NEW s \in B, NEW first \in Int, NEW last \in Int,
         NEW n \in Nat, Counts(n, last - first + 1),
         NEW q, q = [k \in 1 .. last - first + 1 |-> first + k - 1],
         \A a \in B, i \in Int : reindex_one(direct, a, i) \in B
  PROVE  \E p : ReindexRun(p, direct, s, q, n, B) /\ p[n] = reindex_range(direct, s, first, last)
<1> DEFINE N == n
           D == 1 .. N
           b == s
           F == [i \in D |-> [a \in B |-> reindex_one(direct, a, q[i])]]
           Folds(g) == g = [t \in SUBSET D |-> IF t = {} THEN b
                              ELSE reindex_one(direct, g[t \ {Max(t)}], q[Max(t)])]
<1>0. N \in Nat
  OBVIOUS
<1>1. DOMAIN q = D /\ \A i \in D : q[i] \in Int
  BY DEF Counts
<1>2. F \in [D -> [B -> B]]
  BY <1>1
<1> HIDE DEF N, b
<1>3. PICK g : LeftFold(g, F, b, N, B)
  <2>1. b \in B
    BY DEF b
  <2> HIDE DEF F
  <2> QED BY <1>0, <1>2, <2>1, LeftFoldExists, Zenon
<1>4. g \in [SUBSET D -> B] /\ g[{}] = b
  BY <1>3 DEF LeftFold
<1>5. ASSUME NEW t \in SUBSET D, t # {}
      PROVE  Max(t) \in t /\ g[t] = reindex_one(direct, g[t \ {Max(t)}], q[Max(t)])
  <2>1. Max(t) \in t /\ g[t] = F[Max(t)][g[t \ {Max(t)}]]
    BY <1>3, <1>5 DEF LeftFold
  <2>2. g[t \ {Max(t)}] \in B /\ Max(t) \in D
    BY <1>4, <2>1
  <2> QED
    BY <2>1, <2>2
<1> HIDE DEF F, D
<1> DEFINE h == CHOOSE h : Folds(h)
<1>6. Folds([t \in SUBSET D |-> g[t]])
  BY <1>4, <1>5
<1>7. Folds(h)
  BY <1>6
<1>8. reindex_range(direct, s, first, last) = h[D]
  BY <1>1 DEF reindex_range, Counts, FoldLeft, MapThenFoldSet, b
<1> HIDE DEF h
<1>9. LeftFolds(h, F, b, N, B)
  <2>1. h[{}] = b
    BY <1>7
  <2>2. ASSUME NEW t \in SUBSET D, t # {}, h[t \ {Max(t)}] \in B
        PROVE  h[t] = F[Max(t)][h[t \ {Max(t)}]]
    <3>1. Max(t) \in D
      BY <1>5, <2>2
    <3>2. h[t] = reindex_one(direct, h[t \ {Max(t)}], q[Max(t)])
      BY <1>7, <2>2
    <3> QED
      BY <2>2, <3>1, <3>2 DEF F
  <2> QED
    BY <2>1, <2>2 DEF LeftFolds, D
<1>10. b \in B
  BY DEF b
<1>11. PICK p : Runs(p, F, b, N, B) /\ p[N] = h[1 .. N]
  <2>1. F \in [1 .. N -> [B -> B]] /\ N \in Nat
    BY <1>0, <1>2 DEF D
  <2> QED BY ONLY <1>9, <1>10, <2>1, FoldChain
<1>12. \A i \in 1 .. N : p[i] = reindex_one(direct, p[i - 1], q[i])
  <2>1. \A i \in 1 .. N : p[i - 1] \in B
    BY <1>0, <1>11 DEF Runs
  <2> QED
    BY <1>11, <2>1 DEF F, D, Runs
<1> QED
  BY <1>8, <1>11, <1>12 DEF D, N, b, Runs, ReindexRun

(* The states that the stores leads through.                               *)
StoreRun(p, s, q, B) ==
  /\ p \in [0 .. Len(q) -> B] /\ p[0] = s
  /\ \A i \in 1 .. Len(q) : p[i] = block_db!store(p[i - 1], q[i].id, q[i].data)

(* The stores that reach the disk.                                         *)
LEMMA StoreFold ==
  ASSUME NEW B, NEW s \in B, NEW W, NEW q \in Seq(W),
         \A a \in B, w \in W : block_db!store(a, w.id, w.data) \in B
  PROVE  \E p : StoreRun(p, s, q, B) /\ p[Len(q)] = store_all(s, q)
<1> DEFINE N == Len(q)
           D == 1 .. N
           b == s
           F == [i \in D |-> [a \in B |-> block_db!store(a, q[i].id, q[i].data)]]
           Folds(g) == g = [t \in SUBSET D |-> IF t = {} THEN b
                              ELSE block_db!store(g[t \ {Max(t)}], q[Max(t)].id, q[Max(t)].data)]
<1>1. N \in Nat /\ DOMAIN q = D /\ \A i \in D : q[i] \in W
  OBVIOUS
<1>2. F \in [D -> [B -> B]]
  BY <1>1
<1> HIDE DEF N, b
<1>3. PICK g : LeftFold(g, F, b, N, B)
  <2>1. b \in B
    BY DEF b
  <2> HIDE DEF F
  <2> QED BY <1>1, <1>2, <2>1, LeftFoldExists, Zenon
<1>4. g \in [SUBSET D -> B] /\ g[{}] = b
  BY <1>3 DEF LeftFold
<1>5. ASSUME NEW t \in SUBSET D, t # {}
      PROVE  Max(t) \in t /\ g[t] = block_db!store(g[t \ {Max(t)}], q[Max(t)].id, q[Max(t)].data)
  <2>1. Max(t) \in t /\ g[t] = F[Max(t)][g[t \ {Max(t)}]]
    BY <1>3, <1>5 DEF LeftFold
  <2>2. g[t \ {Max(t)}] \in B /\ Max(t) \in D
    BY <1>4, <2>1
  <2> QED
    BY <2>1, <2>2
<1> HIDE DEF F, D
<1> DEFINE h == CHOOSE h : Folds(h)
<1>6. Folds([t \in SUBSET D |-> g[t]])
  BY <1>4, <1>5
<1>7. Folds(h)
  BY <1>6
<1>8. store_all(s, q) = h[D]
  BY <1>1 DEF store_all, FoldLeft, MapThenFoldSet, b
<1> HIDE DEF h
<1>9. LeftFolds(h, F, b, N, B)
  <2>1. h[{}] = b
    BY <1>7
  <2>2. ASSUME NEW t \in SUBSET D, t # {}, h[t \ {Max(t)}] \in B
        PROVE  h[t] = F[Max(t)][h[t \ {Max(t)}]]
    <3>1. Max(t) \in D
      BY <1>5, <2>2
    <3>2. h[t] = block_db!store(h[t \ {Max(t)}], q[Max(t)].id, q[Max(t)].data)
      BY <1>7, <2>2
    <3> QED
      BY <2>2, <3>1, <3>2 DEF F
  <2> QED
    BY <2>1, <2>2 DEF LeftFolds, D
<1>10. b \in B
  BY DEF b
<1>11. PICK p : Runs(p, F, b, N, B) /\ p[N] = h[1 .. N]
  <2>1. F \in [1 .. N -> [B -> B]] /\ N \in Nat
    BY <1>1, <1>2 DEF D
  <2> HIDE DEF D
  <2> QED BY ONLY <1>9, <1>10, <2>1, FoldChain
<1>12. \A i \in 1 .. N : p[i] = block_db!store(p[i - 1], q[i].id, q[i].data)
  <2>1. \A i \in 1 .. N : p[i - 1] \in B
    BY <1>1, <1>11 DEF Runs
  <2> QED
    BY <1>11, <2>1 DEF F, D, Runs
<1> QED
  BY <1>8, <1>11, <1>12 DEF D, N, b, Runs, StoreRun

-----------------------------------------------------------------------------
(* The undo log                                                            *)

(* The undo states u lead from h down block by block.                      *)
Leads(u, h) ==
  /\ Len(u) > 0 => h \in Block /\ u[Len(u)] = previous[h]
  /\ \A k \in 1 .. Len(u) - 1 : u[k + 1] \in Block /\ u[k] = previous[u[k + 1]]

(* An empty undo log is in order.                                          *)
LEMMA LeadsEmpty ==
  ASSUME NEW h
  PROVE  Leads(<<>>, h)
BY DEF Leads

(* So is one that has lost its oldest states.                              *)
LEMMA LeadsLatest ==
  ASSUME NEW u \in Seq(BlockOrGenesis), NEW h, Leads(u, h), NEW n \in Int
  PROVE  Leads(Latest(u, n), h)
<1> DEFINE v == Latest(u, n)
           d == Len(u) - Len(v)
<1>1. v \in Seq(BlockOrGenesis) /\ Len(v) <= Len(u)
      /\ \A i \in 1 .. Len(v) : v[i] = u[i + d]
  BY LatestSuffix
<1>2. Len(v) \in Nat /\ Len(u) \in Nat /\ d \in Nat
  BY <1>1
<1> HIDE DEF v
<1>3. Len(v) > 0 => h \in Block /\ v[Len(v)] = previous[h]
  <2> SUFFICES ASSUME Len(v) > 0 PROVE h \in Block /\ v[Len(v)] = previous[h]
    OBVIOUS
  <2>1. Len(v) \in 1 .. Len(v) /\ Len(v) + d = Len(u) /\ Len(u) > 0
    BY <1>1, <1>2
  <2> QED BY <1>1, <2>1 DEF Leads
<1>4. ASSUME NEW k \in 1 .. Len(v) - 1
      PROVE  v[k + 1] \in Block /\ v[k] = previous[v[k + 1]]
  <2>1. /\ k \in 1 .. Len(v) /\ k + 1 \in 1 .. Len(v) /\ k + d \in 1 .. Len(u) - 1
        /\ (k + 1) + d = (k + d) + 1
    BY <1>1, <1>2
  <2>2. u[(k + d) + 1] \in Block /\ u[k + d] = previous[u[(k + d) + 1]]
    <3> HIDE DEF d
    <3> QED BY <2>1 DEF Leads
  <2>3. v[k] = u[k + d] /\ v[k + 1] = u[(k + d) + 1]
    BY <1>1, <2>1
  <2> QED BY <2>2, <2>3
<1> QED
  BY <1>3, <1>4 DEF Leads, v

(* So is one to which the parent of the new head is added.                 *)
LEMMA LeadsAppend ==
  ASSUME NEW u \in Seq(BlockOrGenesis), NEW b \in Block, Leads(u, previous[b])
  PROVE  Leads(Append(u, previous[b]), b)
<1> DEFINE v == Append(u, previous[b])
<1>1. Len(v) = Len(u) + 1 /\ Len(u) \in Nat /\ v[Len(v)] = previous[b]
      /\ \A i \in 1 .. Len(u) : v[i] = u[i]
  OBVIOUS
<1> HIDE DEF v
<1>2. ASSUME NEW k \in 1 .. Len(v) - 1
      PROVE  v[k + 1] \in Block /\ v[k] = previous[v[k + 1]]
  <2>1. CASE k = Len(u)
    <3>1. Len(u) > 0 /\ k + 1 = Len(v) /\ k \in 1 .. Len(u)
      BY <1>1, <2>1
    <3> QED BY <1>1, <2>1, <3>1 DEF Leads
  <2>2. CASE k # Len(u)
    <3>1. k \in 1 .. Len(u) - 1 /\ k \in 1 .. Len(u) /\ k + 1 \in 1 .. Len(u)
      BY <1>1, <2>2
    <3> QED BY <1>1, <3>1 DEF Leads
  <2> QED BY <2>1, <2>2
<1> QED
  BY <1>1, <1>2 DEF Leads, v

(* The last state leads to the parent of the head, and the others on from  *)
(* there.                                                                  *)
LEMMA LeadsFront ==
  ASSUME NEW u \in Seq(BlockOrGenesis), NEW h, Leads(u, h), u # <<>>
  PROVE  h \in Block /\ Last(u) = previous[h] /\ Leads(Front(u), Last(u))
<1> DEFINE v == Front(u)
<1>1. Len(u) \in Nat \ {0} /\ Last(u) = u[Len(u)] /\ Len(v) = Len(u) - 1
      /\ \A i \in 1 .. Len(u) - 1 : v[i] = u[i]
  BY FrontLast
<1>2. h \in Block /\ Last(u) = previous[h]
  BY <1>1 DEF Leads
<1> HIDE DEF v
<1>3. Len(v) > 0 => Last(u) \in Block /\ v[Len(v)] = previous[Last(u)]
  <2> SUFFICES ASSUME Len(v) > 0 PROVE Last(u) \in Block /\ v[Len(v)] = previous[Last(u)]
    OBVIOUS
  <2>1. Len(v) \in 1 .. Len(u) - 1 /\ Len(v) + 1 = Len(u)
    BY <1>1
  <2>2. u[Len(v) + 1] \in Block /\ u[Len(v)] = previous[u[Len(v) + 1]]
    BY <2>1 DEF Leads
  <2> QED BY <1>1, <2>1, <2>2
<1>4. \A k \in 1 .. Len(v) - 1 : v[k + 1] \in Block /\ v[k] = previous[v[k + 1]]
  <2> SUFFICES ASSUME NEW k \in 1 .. Len(v) - 1
               PROVE  v[k + 1] \in Block /\ v[k] = previous[v[k + 1]]
    OBVIOUS
  <2>1. k \in 1 .. Len(u) - 1 /\ k + 1 \in 1 .. Len(u) - 1
    BY <1>1
  <2> QED BY <1>1, <2>1 DEF Leads
<1> QED
  BY <1>2, <1>3, <1>4 DEF Leads, v

(* Two sequences in a row.                                                 *)
LEMMA Concat ==
  ASSUME NEW S, NEW a \in Seq(S), NEW b \in Seq(S)
  PROVE  /\ a \o b \in Seq(S) /\ Len(a \o b) = Len(a) + Len(b)
         /\ \A i \in 1 .. Len(a) : (a \o b)[i] = a[i]
         /\ \A i \in 1 .. Len(b) : (a \o b)[i + Len(a)] = b[i]
<1>1. a \o b \in Seq(S) /\ Len(a \o b) = Len(a) + Len(b)
  OBVIOUS
<1>2. \A i \in 1 .. Len(a) : (a \o b)[i] = a[i]
  OBVIOUS
<1>3. \A i \in 1 .. Len(b) : (a \o b)[i + Len(a)] = b[i]
  OBVIOUS
<1> QED
  BY <1>1, <1>2, <1>3

(* One element in front of a sequence.                                     *)
LEMMA ConsFacts ==
  ASSUME NEW S, NEW x \in S, NEW q \in Seq(S)
  PROVE  /\ (<<x>> \o q)[1] = x
         /\ \A n \in 1 .. Len(q) : (<<x>> \o q)[n + 1] = q[n]
<1> SUFFICES ASSUME NEW g \in Seq(S), g = <<x>>
             PROVE  /\ (g \o q)[1] = x
                    /\ \A n \in 1 .. Len(q) : (g \o q)[n + 1] = q[n]
  <2>1. <<x>> \in Seq(S)
    OBVIOUS
  <2> QED BY <2>1
<1>1. Len(g) = 1 /\ g[1] = x
  OBVIOUS
<1> QED
  BY ONLY <1>1, g \in Seq(S), q \in Seq(S), Concat

(* The block with number n on the path to h, genesis for 0.                *)
At(h, n) == (<<Genesis>> \o Path[h])[n + 1]

(* The blocks of the chain by number, genesis included.                    *)
LEMMA AtFacts ==
  ASSUME NEW h \in BlockOrGenesis
  PROVE  /\ At(h, 0) = Genesis
         /\ \A n \in 1 .. num[h] : At(h, n) = Path[h][n]
         /\ \A n \in 1 .. num[h] : At(h, n) \in Block /\ previous[At(h, n)] = At(h, n - 1)
         /\ At(h, num[h]) = h
<1> DEFINE q == Path[h]
<1>1. q \in Seq(Block) /\ Len(q) = num[h] /\ num[h] \in Nat /\ PathShape(h)
  BY PathFacts, PathShapes, BlockFacts DEF PathShape
<1>2. /\ (<<Genesis>> \o q)[1] = Genesis
      /\ \A n \in 1 .. num[h] : (<<Genesis>> \o q)[n + 1] = q[n]
  <2>1. q \in Seq(BlockOrGenesis) /\ Genesis \in BlockOrGenesis
    BY <1>1, BlockFacts
  <2> HIDE DEF q
  <2> QED BY <1>1, <2>1, ConsFacts
<1>3. At(h, 0) = Genesis /\ \A n \in 1 .. num[h] : At(h, n) = Path[h][n]
  <2>1. At(h, 0) = (<<Genesis>> \o Path[h])[0 + 1] /\ 0 + 1 = 1
    BY DEF At
  <2>2. \A n \in 1 .. num[h] : At(h, n) = (<<Genesis>> \o Path[h])[n + 1]
    BY DEF At
  <2> QED BY <1>2, <2>1, <2>2
<1>4. ASSUME NEW n \in 1 .. num[h]
      PROVE  At(h, n) \in Block /\ previous[At(h, n)] = At(h, n - 1)
  <2>1. At(h, n) = Path[h][n] /\ Path[h][n] \in Block /\ num[Path[h][n]] = n
    BY <1>1, <1>3 DEF PathShape
  <2>2. CASE n = 1
    <3>1. previous[Path[h][n]] = Genesis
      BY <2>1, <2>2, BlockFacts
    <3> QED BY <1>3, <2>1, <2>2, <3>1
  <2>3. CASE n # 1
    <3>1. n \in 2 .. num[h] /\ n - 1 \in 1 .. num[h]
      BY <1>1, <2>3
    <3>2. previous[Path[h][n]] = Path[h][n - 1]
      BY <1>1, <3>1 DEF PathShape
    <3> QED BY <1>3, <2>1, <3>1, <3>2
  <2> QED BY <2>2, <2>3
<1>5. At(h, num[h]) = h
  <2>1. CASE h = Genesis
    BY <1>3, <2>1, BlockFacts
  <2>2. CASE h \in Block
    BY <1>3, <2>2, PathEnd
  <2> QED BY <2>1, <2>2, BlockFacts
<1> QED
  BY <1>3, <1>4, <1>5

(* The undo states are the blocks of the path, from the parent of h down.  *)
LEMMA LeadsPath ==
  ASSUME NEW u \in Seq(BlockOrGenesis), NEW h \in BlockOrGenesis, Leads(u, h)
  PROVE  /\ Len(u) <= num[h]
         /\ \A k \in 1 .. Len(u) : u[k] = At(h, num[h] - Len(u) + k - 1)
<1> DEFINE P == {j \in Nat : j < Len(u) =>
                   /\ num[h] - 1 - j >= 0
                   /\ u[Len(u) - j] = At(h, num[h] - 1 - j)}
<1>1. Len(u) \in Nat /\ num[h] \in Nat
  BY BlockFacts
<1>2. 0 \in P
  <2> SUFFICES ASSUME 0 < Len(u)
               PROVE  num[h] - 1 - 0 >= 0 /\ u[Len(u) - 0] = At(h, num[h] - 1 - 0)
    OBVIOUS
  <2>1. h \in Block /\ u[Len(u)] = previous[h]
    BY DEF Leads
  <2>2. num[h] > 0 /\ num[h] \in 1 .. num[h]
    BY <2>1, BlockFacts
  <2>3. previous[h] = At(h, num[h] - 1)
    BY <2>2, AtFacts
  <2>4. Len(u) - 0 = Len(u) /\ num[h] - 1 - 0 = num[h] - 1
    BY <1>1
  <2> QED BY <1>1, <2>1, <2>2, <2>3, <2>4
<1>3. ASSUME NEW j \in Nat, j \in P PROVE j + 1 \in P
  <2> SUFFICES ASSUME j + 1 < Len(u)
               PROVE  /\ num[h] - 1 - (j + 1) >= 0
                      /\ u[Len(u) - (j + 1)] = At(h, num[h] - 1 - (j + 1))
    OBVIOUS
  <2> DEFINE k == Len(u) - (j + 1)
             m == num[h] - 1 - j
  <2>1. k \in 1 .. Len(u) - 1 /\ Len(u) - j = k + 1 /\ num[h] - 1 - (j + 1) = m - 1
    BY <1>1
  <2>2. m \in Nat /\ u[k + 1] = At(h, m) /\ m <= num[h]
    BY <1>1, <1>3, <2>1
  <2>3. u[k + 1] \in Block /\ u[k] = previous[u[k + 1]]
    BY <2>1 DEF Leads
  <2> HIDE DEF k, m
  <2>4. m \in 1 .. num[h]
    BY <2>2, <2>3, <1>1, AtFacts, BlockFacts
  <2>5. previous[At(h, m)] = At(h, m - 1)
    BY <2>4, AtFacts
  <2>6. u[k] = At(h, m - 1) /\ m - 1 >= 0
    BY <2>2, <2>3, <2>4, <2>5
  <2> QED BY <2>1, <2>6 DEF k
<1>4. Nat \subseteq P
  <2> HIDE DEF P
  <2> QED BY <1>2, <1>3, NaturalInduction
<1>5. Len(u) <= num[h]
  <2>1. CASE Len(u) = 0
    BY <1>1, <2>1
  <2>2. CASE Len(u) > 0
    <3>1. Len(u) - 1 \in Nat /\ Len(u) - 1 < Len(u)
      BY <1>1, <2>2
    <3>2. num[h] - 1 - (Len(u) - 1) >= 0
      BY <1>4, <3>1
    <3> QED BY <1>1, <3>2
  <2> QED BY <1>1, <2>1, <2>2
<1>6. ASSUME NEW k \in 1 .. Len(u) PROVE u[k] = At(h, num[h] - Len(u) + k - 1)
  <2> DEFINE j == Len(u) - k
  <2>1. j \in Nat /\ j < Len(u) /\ Len(u) - j = k /\ num[h] - 1 - j = num[h] - Len(u) + k - 1
    BY <1>1
  <2>2. u[Len(u) - j] = At(h, num[h] - 1 - j)
    <3> HIDE DEF j
    <3> QED BY <1>4, <2>1
  <2> HIDE DEF j
  <2> QED BY <2>1, <2>2
<1> QED
  BY <1>5, <1>6

-----------------------------------------------------------------------------
(* What the handlers keep                                                  *)

(* The records whose undo log leads down the chain.                        *)
Good == {s \in NodeState : Leads(s.undo, s.head)}

(* A set of records that the elementary steps do not leave: an undo state  *)
(* dropped, a block applied and stored under its own id, a block popped.   *)
Closed(B) ==
  /\ B \subseteq Good
  /\ \A s \in B, t \in Good : Trims(s, t) => t \in B
  /\ \A s \in B, t \in Good, b \in Block : Applied(s, b, b, t) => t \in B
  /\ \A s \in B, t \in Good : Popped(s, t) => t \in B

(* Nor does a block that is stored under any id.                           *)
Returns(B) ==
  \A s \in B, t \in Good, id \in Block, b \in Block : Applied(s, id, b, t) => t \in B

(* The elementary steps keep the undo log in order.                        *)
LEMMA GoodTrims ==
  ASSUME NEW s \in Good, NEW t \in NodeState, Trims(s, t)
  PROVE  t \in Good
<1>1. s.undo \in Seq(BlockOrGenesis) /\ Leads(s.undo, s.head)
  BY NodeTypes DEF Good
<1>2. PICK n \in Int : t.undo = Latest(s.undo, n)
  BY DEF Trims
<1>3. t.head = s.head
  BY DEF Trims, Frame
<1> QED
  BY <1>1, <1>2, <1>3, LeadsLatest DEF Good

(* Applying a block.                                                       *)
LEMMA GoodApplied ==
  ASSUME NEW s \in Good, NEW t \in NodeState, NEW id, NEW b \in Block, Applied(s, id, b, t)
  PROVE  t \in Good
<1>1. s.undo \in Seq(BlockOrGenesis) /\ Leads(s.undo, s.head)
  BY NodeTypes DEF Good
<1>2. PICK n \in Int : t.undo = Append(Latest(s.undo, n), s.head)
  BY DEF Applied
<1>3. t.head = b /\ previous[b] = s.head
  BY DEF Applied, BlockApplies
<1>4. Leads(Latest(s.undo, n), s.head) /\ Latest(s.undo, n) \in Seq(BlockOrGenesis)
  BY <1>1, LeadsLatest, LatestSuffix
<1>5. Leads(Append(Latest(s.undo, n), previous[b]), b)
  BY <1>3, <1>4, LeadsAppend
<1> QED
  BY <1>2, <1>3, <1>5 DEF Good

(* Popping one.                                                            *)
LEMMA GoodPopped ==
  ASSUME NEW s \in Good, NEW t \in NodeState, Popped(s, t)
  PROVE  t \in Good /\ t.head = previous[s.head] /\ s.head \in Block
<1>1. s.undo \in Seq(BlockOrGenesis) /\ Leads(s.undo, s.head)
  BY NodeTypes DEF Good
<1>2. s.undo # <<>> /\ t.undo = Front(s.undo) /\ t.head = Last(s.undo)
  BY DEF Popped
<1> QED
  BY <1>1, <1>2, LeadsFront DEF Good

(* So the records in order are such a set.                                 *)
LEMMA GoodClosed == Closed(Good) /\ Returns(Good)
BY GoodTrims, GoodApplied, GoodPopped DEF Closed, Returns

(* apply_block, when it stores a block under its own id.                   *)
LEMMA ApplyClosed ==
  ASSUME NEW B, Closed(B), NEW s \in B, NEW b \in Block
  PROVE  apply_block(s, b, b) \in B
<1> DEFINE t == apply_block(s, b, b)
<1>1. s \in Good /\ s \in NodeState
  BY DEF Closed, Good
<1>2. /\ t \in NodeState
      /\ \/ t = s
         \/ Trims(s, t)
         \/ Applied(s, b, b, t)
  BY <1>1, ApplyCases
<1> HIDE DEF t
<1>3. CASE t = s
  BY <1>3 DEF t
<1>4. CASE Trims(s, t)
  BY <1>1, <1>2, <1>4, GoodTrims DEF Closed, t
<1>5. CASE Applied(s, b, b, t)
  BY <1>1, <1>2, <1>5, GoodApplied DEF Closed, t
<1> QED
  BY <1>2, <1>3, <1>4, <1>5

(* apply_block, under any id.                                              *)
LEMMA ApplyReturns ==
  ASSUME NEW B, Closed(B), Returns(B), NEW s \in B, NEW id \in Block, NEW b \in Block
  PROVE  apply_block(s, id, b) \in B
<1> DEFINE t == apply_block(s, id, b)
<1>1. s \in Good /\ s \in NodeState
  BY DEF Closed, Good
<1>2. /\ t \in NodeState
      /\ \/ t = s
         \/ Trims(s, t)
         \/ Applied(s, id, b, t)
  BY <1>1, ApplyCases
<1> HIDE DEF t
<1>3. CASE t = s
  BY <1>3 DEF t
<1>4. CASE Trims(s, t)
  BY <1>1, <1>2, <1>4, GoodTrims DEF Closed, t
<1>5. CASE Applied(s, id, b, t)
  BY <1>1, <1>2, <1>5, GoodApplied DEF Returns, t
<1> QED
  BY <1>2, <1>3, <1>4, <1>5

(* pop_block.                                                              *)
LEMMA PopClosed ==
  ASSUME NEW B, Closed(B), NEW s \in B, NEW held \in SUBSET Block
  PROVE  pop_block(s, held) \in B
<1> DEFINE t == pop_block(s, held)
<1>1. s \in Good /\ s \in NodeState
  BY DEF Closed, Good
<1>2. /\ t \in NodeState
      /\ \/ t = s
         \/ Trims(s, t)
         \/ Popped(s, t)
  BY <1>1, PopCases
<1> HIDE DEF t
<1>3. CASE t = s
  BY <1>3 DEF t
<1>4. CASE Trims(s, t)
  BY <1>1, <1>2, <1>4, GoodTrims DEF Closed, t
<1>5. CASE Popped(s, t)
  BY <1>1, <1>2, <1>5, GoodPopped DEF Closed, t
<1> QED
  BY <1>2, <1>3, <1>4, <1>5

(* A loop that counts to k has n rounds, none if k is negative.            *)
LEMMA Rounds ==
  ASSUME NEW k \in Int
  PROVE  \E n \in Nat : Counts(n, k)
<1> USE DEF Counts
<1>1. CASE k >= 0
  BY <1>1
<1>2. CASE k < 0
  <2>1. 1 .. 0 = 1 .. k
    BY <1>2
  <2> QED BY <2>1
<1> QED BY <1>1, <1>2

(* The new branch of a switch.                                             *)
LEMMA ApplyBlocksClosed ==
  ASSUME NEW B, Closed(B), NEW s \in B, NEW q \in Seq(Block)
  PROVE  apply_blocks(s, q) \in B
<1>1. \A a \in B, b \in Block : apply_block(a, b, b) \in B
  BY ApplyClosed
<1>2. PICK p : ApplyRun(p, s, q, B) /\ p[Len(q)] = apply_blocks(s, q)
  BY <1>1, ApplyFold
<1> QED
  BY <1>2 DEF ApplyRun

(* The old branch of a switch, popped.                                     *)
LEMMA PopBlocksClosed ==
  ASSUME NEW B, Closed(B), NEW s \in B, NEW k \in Int, NEW held \in SUBSET Block
  PROVE  pop_blocks(s, k, held) \in B
<1>1. \A a \in B : pop_block(a, held) \in B
  BY PopClosed
<1>2. PICK n \in Nat : Counts(n, k)
  BY Rounds
<1>3. PICK p : PopRun(p, s, n, held, B) /\ p[n] = pop_blocks(s, k, held)
  BY <1>1, <1>2, PopFold
<1> QED
  BY <1>3 DEF PopRun

(* A change of the fork database or of the exception stays in the set.     *)
LEMMA SetClosed ==
  ASSUME NEW B, Closed(B), NEW s \in B
  PROVE  /\ \A f \in fork_db!ForkDB : [s EXCEPT !.fork = f] \in B
         /\ \A o \in BOOLEAN : [s EXCEPT !.ok = o] \in B
         /\ \A o \in BOOLEAN, f \in fork_db!ForkDB : [s EXCEPT !.ok = o, !.fork = f] \in B
<1>1. s \in Good /\ s \in NodeState
  BY DEF Closed, Good
<1>2. ASSUME NEW t \in NodeState, Trims(s, t) PROVE t \in B
  BY <1>1, <1>2, GoodTrims DEF Closed
<1>3. ASSUME NEW f \in fork_db!ForkDB PROVE [s EXCEPT !.fork = f] \in B
  BY <1>1, <1>2, SetFork
<1>4. ASSUME NEW o \in BOOLEAN PROVE [s EXCEPT !.ok = o] \in B
  BY <1>1, <1>2, SetOk
<1>5. ASSUME NEW o \in BOOLEAN, NEW f \in fork_db!ForkDB
      PROVE  [s EXCEPT !.ok = o, !.fork = f] \in B
  BY <1>1, <1>2, SetOkFork
<1> QED
  BY <1>3, <1>4, <1>5

(* The branch of a from number n on.                                       *)
LEMMA BranchFacts ==
  ASSUME NEW a \in Block, NEW n \in 1 .. num[a]
  PROVE  LET q == fork_db!BranchFrom(a, n)
         IN  /\ q \in Seq(Block) /\ Len(q) = num[a] - n + 1 /\ q # <<>>
             /\ \A k \in 1 .. Len(q) : q[k] = Path[a][n + k - 1]
             /\ Last(q) = a /\ ToSet(q) \in SUBSET Block
<1> DEFINE q == fork_db!BranchFrom(a, n)
           r == Path[a]
           m == num[a]
<1>1. q = SubSeq(r, n, m)
  BY ForkPath DEF fork_db!BranchFrom
<1>2. r \in Seq(Block) /\ Len(r) = m /\ m \in Nat /\ m > 0 /\ r[m] = a
  BY PathFacts, PathShapes, PathEnd, BlockFacts DEF PathShape
<1> SUFFICES /\ q \in Seq(Block) /\ Len(q) = m - n + 1 /\ q # <<>>
             /\ \A k \in 1 .. Len(q) : q[k] = r[n + k - 1]
             /\ Last(q) = a /\ ToSet(q) \in SUBSET Block
  OBVIOUS
<1>3. n \in 1 .. m
  OBVIOUS
<1> HIDE DEF q, r, m
<1>4. /\ q \in Seq(Block) /\ Len(q) = m - n + 1
      /\ \A k \in 1 .. Len(q) : q[k] = r[n + k - 1]
  BY <1>1, <1>2, <1>3
<1>5. Len(q) \in 1 .. Len(q) /\ n + Len(q) - 1 = m
  BY <1>2, <1>3, <1>4
<1>6. q # <<>>
  BY <1>4, <1>5
<1>7. Last(q) = a
  BY <1>2, <1>4, <1>5, <1>6, FrontLast
<1>8. ToSet(q) \in SUBSET Block
  BY <1>4 DEF ToSet
<1> QED
  BY <1>4, <1>6, <1>7, <1>8

(* Two branches always join: their first blocks build on genesis.          *)
LEMMA JoinFacts ==
  ASSUME NEW a \in Block, NEW b \in Block
  PROVE  LET n == fork_db!JoinNumber(a, b)
         IN  /\ n \in 1 .. num[a] /\ n \in 1 .. num[b]
             /\ previous[Path[a][n]] = previous[Path[b][n]]
<1> DEFINE M == fork_db!Smaller(num[a], num[b])
           T == {n \in 1 .. M : previous[Path[a][n]] = previous[Path[b][n]]}
           Joins(n) == /\ previous[Path[a][n]] = previous[Path[b][n]]
                       /\ \A k \in n + 1 .. M : previous[Path[a][k]] # previous[Path[b][k]]
<1>1. M \in Nat /\ M >= 1 /\ M <= num[a] /\ M <= num[b] /\ num[a] \in Nat /\ num[b] \in Nat
  BY BlockFacts DEF fork_db!Smaller
<1>2. fork_db!JoinNumber(a, b) = CHOOSE n \in 1 .. M : Joins(n)
  BY ForkPath DEF fork_db!JoinNumber
<1>3. 1 \in T
  <2>1. \A c \in Block : previous[Path[c][1]] = Genesis
    <3> SUFFICES ASSUME NEW c \in Block PROVE previous[Path[c][1]] = Genesis
      OBVIOUS
    <3>1. 1 \in 1 .. num[c] /\ PathShape(c)
      BY PathShapes, BlockFacts
    <3>2. Path[c][1] \in Block /\ num[Path[c][1]] = 1
      BY <3>1 DEF PathShape
    <3> QED BY <3>2, BlockFacts
  <2> QED BY <1>1, <2>1
<1>4. PICK n \in T : \A k \in T : k <= n
  <2>1. IsFiniteSet(T)
    <3>1. IsFiniteSet(1 .. M) /\ T \subseteq 1 .. M
      BY <1>1, FS_Interval
    <3> QED BY <3>1, FS_Subset
  <2>2. T # {} /\ T \subseteq Int
    BY <1>3
  <2> HIDE DEF T
  <2> QED BY <2>1, <2>2, FiniteMaximum
<1>5. Joins(n) /\ n \in 1 .. M
  BY <1>1, <1>4
<1> HIDE DEF Joins, M, T
<1>6. LET m == CHOOSE m \in 1 .. M : Joins(m) IN m \in 1 .. M /\ Joins(m)
  BY <1>5
<1>7. fork_db!JoinNumber(a, b) \in 1 .. M /\ Joins(fork_db!JoinNumber(a, b))
  BY <1>2, <1>6
<1>8. 1 .. M \subseteq 1 .. num[a] /\ 1 .. M \subseteq 1 .. num[b]
  BY <1>1
<1> QED
  BY <1>7, <1>8 DEF Joins

(* The old branch put back, which stores its blocks under the id of the    *)
(* block that was pushed.                                                  *)
LEMMA ReturnToClosed ==
  ASSUME NEW B, Closed(B), Returns(B), NEW s \in B, NEW id \in Block,
         NEW old \in Seq(Block), old # <<>>, NEW held \in SUBSET Block
  PROVE  return_to(s, id, old, held) \in B
<1> DEFINE yes == TRUE
           f == fork_db!set_head(s.fork, Last(old))
           u == [s EXCEPT !.ok = TRUE, !.fork = fork_db!set_head(@, Last(old))]
           k == num[s.head] - num[old[1]] + 1
           r == pop_blocks(u, k, held)
<1>1. s \in NodeState /\ s.fork \in fork_db!ForkDB /\ s.head \in BlockOrGenesis
  BY NodeTypes DEF Closed, Good
<1>2. f \in fork_db!ForkDB /\ yes \in BOOLEAN
  BY <1>1, FrontLast, ForkTypes
<1>3. u \in B
  <2>1. u = [s EXCEPT !.ok = yes, !.fork = f]
    OBVIOUS
  <2> HIDE DEF u, yes, f
  <2> QED BY <1>2, <2>1, SetClosed
<1>4. k \in Int
  <2>1. Len(old) > 0 /\ old[1] \in Block
    OBVIOUS
  <2> QED BY <1>1, <2>1, BlockFacts
<1>5. r \in B
  <2> HIDE DEF u, k
  <2> QED BY <1>3, <1>4, PopBlocksClosed
<1>6. \A a \in B, b \in Block : apply_block(a, id, b) \in B
  BY ApplyReturns
<1>7. return_to(s, id, old, held) = put_back(r, id, old)
  BY DEF return_to
<1> HIDE DEF r
<1>8. PICK p : ReturnRun(p, r, id, old, B) /\ p[Len(old)] = put_back(r, id, old)
  BY <1>5, <1>6, ReturnFold
<1> QED
  BY <1>7, <1>8 DEF ReturnRun

(* The blocks that were not applied leave the fork database.               *)
LEMMA ForgetClosed ==
  ASSUME NEW B, Closed(B), NEW s \in B, NEW blocks
  PROVE  forget(s, blocks) \in B
<1> DEFINE i == {b \in s.fork.index : b \notin blocks \/ num[b] <= num[s.head]}
           f == [s.fork EXCEPT !.index = i]
<1>1. s \in NodeState /\ s.fork \in fork_db!ForkDB
  BY NodeTypes DEF Closed, Good
<1>2. i \in SUBSET Block
  BY <1>1, ForkTypes
<1>3. f \in fork_db!ForkDB
  <2> HIDE DEF i
  <2> QED BY <1>1, <1>2, ForkTypes
<1>4. forget(s, blocks) = [s EXCEPT !.fork = f]
  BY <1>1 DEF forget, NodeState
<1> HIDE DEF f
<1>5. \A g \in fork_db!ForkDB : [s EXCEPT !.fork = g] \in B
  BY SetClosed
<1> QED
  BY <1>3, <1>4, <1>5

(* The end of a switch: the old branch is put back only after a failure.   *)
LEMMA EndSwitchClosed ==
  ASSUME NEW B, Closed(B), NEW s \in B, NEW id \in Block,
         NEW new \in Seq(Block), NEW old \in Seq(Block), old # <<>>,
         Returns(B) \/ s.ok \/ s.head \in ToSet(old)
  PROVE  end_switch(s, id, new, old) \in B
<1> DEFINE no == FALSE
           held == ToSet(new) \cup ToSet(old)
           r == return_to(forget(s, ToSet(new)), id, old, held)
<1>1. CASE s.ok \/ s.head \in ToSet(old)
  BY <1>1 DEF end_switch
<1>2. CASE ~(s.ok \/ s.head \in ToSet(old))
  <2>1. end_switch(s, id, new, old) = [r EXCEPT !.ok = no]
    BY <1>2 DEF end_switch
  <2>2. held \in SUBSET Block /\ no \in BOOLEAN
    BY DEF ToSet
  <2>3. r \in B
    <3> HIDE DEF held
    <3> QED BY <1>2, <2>2, ForgetClosed, ReturnToClosed
  <2> HIDE DEF r, no
  <2>4. \A o \in BOOLEAN : [r EXCEPT !.ok = o] \in B
    BY <2>3, SetClosed
  <2> QED BY <2>1, <2>2, <2>4
<1> QED
  BY <1>1, <1>2

-----------------------------------------------------------------------------
(* A switch when every block applies                                       *)

(* Whether a block applies depends on the head only.                       *)
LEMMA HonestApplies ==
  ASSUME Honest, NEW s \in NodeState, NEW b \in Block, previous[b] = s.head
  PROVE  BlockApplies(s, b)
<1> DEFINE r == Started(previous[b], EmptyLog)
<1>1. BlockApplies(r, b)
  BY DEF Honest
<1>2. r.head = s.head
  BY DEF Started
<1>3. ASSUME NEW q, NEW tx
      PROVE  Applicable([r EXCEPT !.pending = q], tx) = Applicable([s EXCEPT !.pending = q], tx)
  <2> DEFINE u == [r EXCEPT !.pending = q]
             v == [s EXCEPT !.pending = q]
  <2>1. u.pending = q /\ u.head = s.head
    BY <1>2 DEF Started
  <2>2. v.pending = q /\ v.head = s.head
    BY DEF NodeState
  <2> HIDE DEF u, v
  <2>3. Applicable(u, tx) <=> Applicable(v, tx)
    BY <2>1, <2>2 DEF Applicable, is_known_transaction
  <2>4. Applicable(u, tx) \in BOOLEAN /\ Applicable(v, tx) \in BOOLEAN
    BY DEF Applicable
  <2>5. Applicable(u, tx) = Applicable(v, tx)
    BY <2>3, <2>4
  <2> QED BY <2>5 DEF u, v
<1> HIDE DEF r
<1> QED
  BY <1>1, <1>2, <1>3 DEF BlockApplies

(* Popping a branch: the head goes down block by block, until a pop fails. *)
LEMMA PopBranch ==
  ASSUME NEW s \in Good, s.ok, s.head \in Block, NEW m \in 0 .. num[s.head],
         NEW held \in SUBSET Block
  PROVE  LET t == pop_blocks(s, m, held)
         IN  /\ t \in Good /\ t.log = s.log
             /\ t.ok => t.head = At(s.head, num[s.head] - m)
             /\ ~t.ok => \E k \in num[s.head] - m + 1 .. num[s.head] : t.head = Path[s.head][k]
<1> DEFINE h == s.head
           N == num[h]
<1>1. N \in Nat /\ h \in BlockOrGenesis /\ h \in Block /\ m \in Nat /\ m <= N
  BY BlockFacts
<1>2. \A a \in Good : pop_block(a, held) \in Good
  BY GoodClosed, PopClosed
<1>3. Counts(m, m)
  BY DEF Counts
<1>4. PICK p : PopRun(p, s, m, held, Good) /\ p[m] = pop_blocks(s, m, held)
  BY <1>1, <1>2, <1>3, PopFold
<1> DEFINE Q(t, i) == /\ t \in Good /\ t.log = s.log
                      /\ t.ok => t.head = At(h, N - i)
                      /\ ~t.ok => \E k \in N - i + 1 .. N : t.head = Path[h][k]
           P == {i \in Nat : i <= m => Q(p[i], i)}
<1>5. 0 \in P
  <2>1. p[0] = s /\ N - 0 = N
    BY <1>1, <1>4 DEF PopRun
  <2>2. At(h, N) = h
    BY <1>1, AtFacts
  <2> QED BY <2>1, <2>2
<1>6. ASSUME NEW i \in Nat, i \in P PROVE i + 1 \in P
  <2> SUFFICES ASSUME i + 1 <= m PROVE Q(p[i + 1], i + 1)
    OBVIOUS
  <2> DEFINE a == p[i]
             t == p[i + 1]
  <2>1. i <= m /\ i + 1 \in 1 .. m /\ (i + 1) - 1 = i /\ N - i \in 1 .. N /\ N - (i + 1) = (N - i) - 1
    BY <1>1
  <2>2. Q(a, i)
    BY <1>6, <2>1
  <2>3. t = pop_block(a, held)
    BY <1>4, <2>1 DEF PopRun
  <2>4. a \in NodeState /\ t \in Good
    BY <1>2, <2>2, <2>3 DEF Good
  <2>5. \/ ~a.ok /\ t = a
        \/ a.ok /\ ~t.ok /\ Trims(a, t)
        \/ a.ok /\ t.ok /\ Popped(a, t)
    BY <2>3, <2>4, PopCases
  <2> HIDE DEF a, t
  <2> SUFFICES Q(t, i + 1)
    BY DEF t
  <2>6. CASE ~a.ok /\ t = a
    <3>1. PICK k \in N - i + 1 .. N : a.head = Path[h][k]
      BY <2>2, <2>6
    <3>2. k \in N - (i + 1) + 1 .. N
      BY <1>1, <2>1
    <3> QED BY <2>2, <2>6, <3>1, <3>2
  <2>7. CASE a.ok /\ ~t.ok /\ Trims(a, t)
    <3>1. t.head = a.head /\ t.log = s.log
      BY <2>2, <2>7 DEF Trims, Frame
    <3>2. a.head = Path[h][N - i]
      BY <1>1, <2>1, <2>2, <2>7, AtFacts
    <3>3. N - i \in N - (i + 1) + 1 .. N
      BY <1>1, <2>1
    <3> QED BY <2>4, <2>7, <3>1, <3>2, <3>3
  <2>8. CASE a.ok /\ t.ok /\ Popped(a, t)
    <3>1. t.head = previous[a.head]
      BY <2>2, <2>4, <2>8, GoodPopped DEF Good
    <3>2. previous[At(h, N - i)] = At(h, (N - i) - 1)
      BY <1>1, <2>1, AtFacts
    <3>3. t.log = s.log
      BY <2>2, <2>8 DEF Popped
    <3> QED BY <2>1, <2>2, <2>4, <2>8, <3>1, <3>2, <3>3
  <2> QED BY <2>5, <2>6, <2>7, <2>8
<1>7. Nat \subseteq P
  <2> HIDE DEF P
  <2> QED BY <1>5, <1>6, NaturalInduction
<1>8. Q(p[m], m)
  BY <1>1, <1>7
<1> QED
  BY <1>4, <1>8

(* Applying a branch: the head goes up block by block.                     *)
LEMMA ApplyBranch ==
  ASSUME Honest, NEW s \in Good, NEW a \in Block, NEW n \in 1 .. num[a],
         s.ok => s.head = At(a, n - 1)
  PROVE  LET t == apply_blocks(s, fork_db!BranchFrom(a, n))
         IN  /\ t \in Good
             /\ s.ok => t.ok /\ t.head = a
             /\ ~s.ok => t = s
<1> DEFINE q == fork_db!BranchFrom(a, n)
           N == num[a]
           m == Len(q)
<1>1. N \in Nat /\ a \in BlockOrGenesis /\ n \in 1 .. N
  BY BlockFacts
<1>2. q \in Seq(Block) /\ m = N - n + 1 /\ \A k \in 1 .. m : q[k] = Path[a][n + k - 1]
  BY BranchFacts
<1>3. \A x \in Good, b \in Block : apply_block(x, b, b) \in Good
  BY GoodClosed, ApplyClosed
<1> HIDE DEF q
<1>4. PICK p : ApplyRun(p, s, q, Good) /\ p[m] = apply_blocks(s, q)
  BY <1>2, <1>3, ApplyFold
<1> DEFINE Q(t, i) == /\ t \in Good
                      /\ s.ok => t.ok /\ t.head = At(a, n - 1 + i)
                      /\ ~s.ok => t = s
           P == {i \in Nat : i <= m => Q(p[i], i)}
<1>5. 0 \in P
  <2>1. p[0] = s /\ n - 1 + 0 = n - 1
    BY <1>1, <1>4 DEF ApplyRun
  <2> QED BY <2>1
<1>6. ASSUME NEW i \in Nat, i \in P PROVE i + 1 \in P
  <2> SUFFICES ASSUME i + 1 <= m PROVE Q(p[i + 1], i + 1)
    OBVIOUS
  <2> DEFINE x == p[i]
             t == p[i + 1]
             b == q[i + 1]
             k == n + i
  <2>1. /\ i <= m /\ i + 1 \in 1 .. m /\ (i + 1) - 1 = i /\ k \in 1 .. N
        /\ n + (i + 1) - 1 = k /\ n - 1 + i = k - 1 /\ n - 1 + (i + 1) = k
    BY <1>1, <1>2
  <2>2. Q(x, i)
    BY <1>6, <2>1
  <2>3. t = apply_block(x, b, b)
    BY <1>4, <2>1 DEF ApplyRun
  <2>4. b = At(a, k) /\ b \in Block /\ previous[b] = At(a, k - 1)
    <3>1. b = Path[a][k]
      BY <1>2, <2>1
    <3> HIDE DEF k, b
    <3> QED BY <1>1, <2>1, <3>1, AtFacts
  <2>5. x \in NodeState /\ t \in Good
    BY <1>3, <2>2, <2>3, <2>4 DEF Good
  <2>6. \/ ~x.ok /\ t = x
        \/ x.ok /\ ~BlockApplies(x, b)
        \/ x.ok /\ t.ok /\ Applied(x, b, b, t)
    BY <2>3, <2>4, <2>5, ApplyCases
  <2> HIDE DEF x, t, b, k
  <2> SUFFICES Q(t, i + 1)
    BY DEF t
  <2>7. CASE ~s.ok
    <3>1. x = s
      BY <2>2, <2>7
    <3>2. t = s
      BY <2>6, <2>7, <3>1
    <3> QED BY <2>5, <2>7, <3>2
  <2>8. CASE s.ok
    <3>1. x.ok /\ x.head = previous[b]
      BY <2>1, <2>2, <2>4, <2>8
    <3>2. BlockApplies(x, b)
      BY <2>4, <2>5, <3>1, HonestApplies
    <3>3. t.ok /\ t.head = b
      BY <2>6, <3>1, <3>2 DEF Applied
    <3> QED BY <2>1, <2>4, <2>5, <2>8, <3>3
  <2> QED BY <2>7, <2>8
<1>7. Nat \subseteq P
  <2> HIDE DEF P
  <2> QED BY <1>5, <1>6, NaturalInduction
<1>8. Q(p[m], m)
  <2>1. m \in Nat /\ m <= m
    BY <1>2
  <2> QED BY <1>7, <2>1
<1>9. n - 1 + m = N /\ At(a, N) = a
  BY <1>1, <1>2, AtFacts
<1> QED
  BY <1>4, <1>8, <1>9 DEF q

(* A switch ends on the tip of the new branch, or on the old one.          *)
LEMMA HonestSwitch ==
  ASSUME Honest, NEW s \in Good, s.ok, s.head \in Block, NEW a \in Block,
         NEW n \in 1 .. num[a], n \in 1 .. num[s.head],
         previous[Path[a][n]] = previous[Path[s.head][n]],
         NEW held \in SUBSET Block
  PROVE  LET old == fork_db!BranchFrom(s.head, n)
             t == apply_blocks(pop_blocks(s, Len(old), held), fork_db!BranchFrom(a, n))
         IN  /\ t \in Good
             /\ t.ok => t.head = a
             /\ ~t.ok => t.head \in ToSet(old) /\ t.log = s.log
<1> DEFINE h == s.head
           N == num[h]
           old == fork_db!BranchFrom(h, n)
           m == Len(old)
           r == pop_blocks(s, m, held)
           t == apply_blocks(r, fork_db!BranchFrom(a, n))
<1>1. /\ N \in Nat /\ num[a] \in Nat /\ h \in BlockOrGenesis /\ a \in BlockOrGenesis
      /\ h \in Block /\ n \in 1 .. N
  BY BlockFacts
<1>2. old \in Seq(Block) /\ m = N - n + 1 /\ \A k \in 1 .. m : old[k] = Path[h][n + k - 1]
  BY <1>1, BranchFacts
<1> HIDE DEF old
<1>3. m \in 0 .. N /\ N - m = n - 1
  BY <1>1, <1>2
<1>4. /\ r \in Good /\ r.log = s.log
      /\ r.ok => r.head = At(h, N - m)
      /\ ~r.ok => \E k \in N - m + 1 .. N : r.head = Path[h][k]
  <2> HIDE DEF m
  <2> QED BY <1>1, <1>3, PopBranch
<1>5. At(h, n - 1) = At(a, n - 1)
  BY <1>1, AtFacts
<1> HIDE DEF r, m
<1>6. /\ t \in Good
      /\ r.ok => t.ok /\ t.head = a
      /\ ~r.ok => t = r
  BY <1>3, <1>4, <1>5, ApplyBranch
<1>7. ~r.ok => r.head \in ToSet(old)
  <2> SUFFICES ASSUME NEW k \in N - m + 1 .. N, r.head = Path[h][k]
               PROVE  r.head \in ToSet(old)
    BY <1>4
  <2>1. k - n + 1 \in 1 .. m /\ n + (k - n + 1) - 1 = k
    BY <1>1, <1>2, <1>3
  <2>2. old[k - n + 1] = r.head /\ DOMAIN old = 1 .. m
    BY <1>2, <2>1 DEF m
  <2> QED BY <2>1, <2>2 DEF ToSet
<1> HIDE DEF t
<1>8. /\ t \in Good
      /\ t.ok => t.head = a
      /\ ~t.ok => t.head \in ToSet(old) /\ t.log = s.log
  BY <1>4, <1>6, <1>7
<1> QED
  BY <1>8 DEF t, r, m, old

-----------------------------------------------------------------------------
(* push_block keeps what the elementary steps keep                         *)

(* A switch.  It fails half-way only if some block does not apply.         *)
LEMMA SwitchClosed ==
  ASSUME NEW B, Closed(B), Returns(B) \/ Honest, NEW s \in B, s.ok,
         NEW id \in Block, NEW a \in Block
  PROVE  switch_from(s, id, a, fork_db!JoinNumber(a, s.head)) \in B
<1> DEFINE n == fork_db!JoinNumber(a, s.head)
           new == fork_db!BranchFrom(a, n)
           old == fork_db!BranchFrom(s.head, n)
           held == ToSet(new) \cup ToSet(old)
           no == FALSE
           r == pop_blocks(s, Len(old), held)
           t == apply_blocks(r, new)
<1>1. no \in BOOLEAN /\ s \in Good /\ s \in NodeState /\ s.fork.index \in SUBSET Block
  BY NodeTypes, ForkTypes DEF Closed, Good
<1>2. [s EXCEPT !.ok = no] \in B
  <2> HIDE DEF no
  <2> QED BY <1>1, SetClosed
<1>3. CASE ~fork_db!HasTips(s.fork, a, s.head)
  BY <1>2, <1>3 DEF switch_from
<1>4. CASE fork_db!HasTips(s.fork, a, s.head)
  <2>1. s.head \in Block
    BY <1>1, <1>4 DEF fork_db!HasTips
  <2>2. n \in 1 .. num[a] /\ n \in 1 .. num[s.head]
        /\ previous[Path[a][n]] = previous[Path[s.head][n]]
    BY <2>1, JoinFacts
  <2>3. switch_from(s, id, a, n) = switch_forks(s, id, new, old)
    BY <1>4 DEF switch_from
  <2> HIDE DEF n
  <2>4. new \in Seq(Block) /\ old \in Seq(Block) /\ old # <<>>
        /\ ToSet(new) \in SUBSET Block /\ ToSet(old) \in SUBSET Block
    BY <2>1, <2>2, BranchFacts
  <2>5. switch_forks(s, id, new, old) \in {[s EXCEPT !.ok = no], end_switch(t, id, new, old)}
    BY DEF switch_forks
  <2>6. held \in SUBSET Block /\ Len(old) \in Int
    BY <2>4
  <2>7. t.ok \/ t.head \in ToSet(old) \/ Returns(B)
    <3>1. CASE Returns(B)
      BY <3>1
    <3>2. CASE Honest
      <4> HIDE DEF held
      <4> QED BY <1>1, <2>1, <2>2, <2>6, <3>2, HonestSwitch
    <3> QED BY <3>1, <3>2
  <2> HIDE DEF new, old, held
  <2>8. t \in B
    BY <2>4, <2>6, PopBlocksClosed, ApplyBlocksClosed
  <2> HIDE DEF t, r
  <2>9. end_switch(t, id, new, old) \in B
    BY <2>4, <2>7, <2>8, EndSwitchClosed
  <2> QED BY <1>2, <2>3, <2>5, <2>9 DEF n
<1> QED
  BY <1>3, <1>4

(* A block leaves the fork database.                                       *)
LEMMA RemoveFailedClosed ==
  ASSUME NEW B, Closed(B), NEW s \in B, NEW b \in Block
  PROVE  remove_failed(s, b) \in B /\ remove_popped(s, b) \in B
<1> DEFINE f == fork_db!remove(s.fork, b)
<1>1. s \in NodeState /\ s.fork \in fork_db!ForkDB
  BY NodeTypes DEF Closed, Good
<1>2. f \in fork_db!ForkDB
  BY <1>1, ForkTypes
<1>3. /\ remove_failed(s, b) \in {s, [s EXCEPT !.fork = f]}
      /\ remove_popped(s, b) \in {s, [s EXCEPT !.fork = f]}
  BY DEF remove_failed, remove_popped
<1> HIDE DEF f
<1>4. \A g \in fork_db!ForkDB : [s EXCEPT !.fork = g] \in B
  BY SetClosed
<1> QED
  BY <1>2, <1>3, <1>4

(* What is done with a block that the fork database has taken in.          *)
LEMMA FollowClosed ==
  ASSUME NEW B, Closed(B), Returns(B) \/ Honest, NEW s \in B, s.ok,
         s.fork.head \in Block, NEW b \in Block
  PROVE  follow(s, b) \in B
<1> DEFINE a == s.fork.head
<1>1. remove_failed(apply_block(s, b, b), b) \in B
  BY ApplyClosed, RemoveFailedClosed
<1>2. switch_from(s, b, a, fork_db!JoinNumber(a, s.head)) \in B
  <2> HIDE DEF a
  <2>1. a \in Block
    BY DEF a
  <2> QED BY <2>1, SwitchClosed
<1>3. follow(s, b) \in {remove_failed(apply_block(s, b, b), b),
                        switch_from(s, b, a, fork_db!JoinNumber(a, s.head)), s}
  BY DEF follow
<1> QED
  BY <1>1, <1>2, <1>3

(* _push_block.                                                            *)
LEMMA InnerPushClosed ==
  ASSUME NEW B, Closed(B), Returns(B) \/ Honest, NEW s \in B, s.ok, NEW b \in Block
  PROVE  _push_block(s, b) \in B
<1> DEFINE f == fork_db!push_block(s.fork, b)
           u == [s EXCEPT !.fork = f]
           no == FALSE
<1>1. s \in NodeState /\ s.fork \in fork_db!ForkDB /\ no \in BOOLEAN
  BY NodeTypes DEF Closed, Good
<1>2. f \in fork_db!ForkDB /\ f.head \in Block
  BY <1>1, ForkPush
<1>3. _push_block(s, b) \in {follow(u, b), [s EXCEPT !.ok = no]}
  BY DEF _push_block
<1> HIDE DEF f, no
<1>4. [s EXCEPT !.ok = no] \in B
  BY <1>1, SetClosed
<1>5. u \in B /\ u.ok /\ u.fork = f
  <2>1. \A g \in fork_db!ForkDB : [s EXCEPT !.fork = g] \in B
    BY SetClosed
  <2>2. u \in B
    BY <1>2, <2>1
  <2>3. u.fork = f /\ u.ok = s.ok
    BY <1>1, <1>2, SetFork
  <2> QED BY <2>2, <2>3
<1> HIDE DEF u
<1>6. follow(u, b) \in B
  BY <1>2, <1>5, FollowClosed
<1> QED
  BY <1>3, <1>4, <1>6

-----------------------------------------------------------------------------
(* Transactions                                                            *)

(* The fields that pushing a transaction leaves alone.                     *)
SameChain(s, t) ==
  /\ t.head = s.head /\ t.log = s.log /\ t.writes = s.writes
  /\ t.flushed = s.flushed /\ t.gap = s.gap /\ t.ok = s.ok /\ t.fork = s.fork

(* The two ways in which _push_transaction ends.                           *)
LEMMA PushTxCases ==
  ASSUME NEW s \in NodeState, NEW tx \in Tx
  PROVE  LET t == _push_transaction(s, tx)
         IN  /\ t \in NodeState /\ SameChain(s, t) /\ t.popped = s.popped
             /\ \E n \in Int : t.undo = Latest(s.undo, n)
             /\ t.pending = IF Applicable(s, tx) THEN Append(s.pending, tx) ELSE s.pending
<1> DEFINE t == _push_transaction(s, tx)
<1>1. depth[tx] \in Nat /\ s.undo_max \in Nat /\ s.undo \in Seq(BlockOrGenesis) /\ s.pending \in Seq(Tx)
  BY NodeTypes, ChainAssumption
<1> SUFFICES /\ t \in NodeState /\ SameChain(s, t) /\ t.popped = s.popped
             /\ \E n \in Int : t.undo = Latest(s.undo, n)
             /\ t.pending = IF Applicable(s, tx) THEN Append(s.pending, tx) ELSE s.pending
  OBVIOUS
<1>2. CASE Applicable(s, tx)
  <2> DEFINE n == s.undo_max - depth[tx]
             u == Latest(s.undo, n)
             p == Append(s.pending, tx)
  <2>1. n \in Int /\ p \in Seq(Tx)
    BY <1>1
  <2>2. u \in Seq(BlockOrGenesis)
    <3> HIDE DEF n
    <3> QED BY <1>1, <2>1, LatestSuffix
  <2>3. t = [s EXCEPT !.undo = u, !.pending = p]
    BY <1>2 DEF _push_transaction
  <2>4. u = Latest(s.undo, n)
    OBVIOUS
  <2> HIDE DEF u, p, t, n
  <2>5. t \in NodeState /\ SameChain(s, t) /\ t.popped = s.popped /\ t.undo = u /\ t.pending = p
    BY <2>1, <2>2, <2>3 DEF NodeState, SameChain
  <2> QED BY <1>2, <2>1, <2>4, <2>5 DEF p
<1>3. CASE ~Applicable(s, tx)
  <2> DEFINE n == s.undo_max - 1
             u == Latest(s.undo, n)
  <2>1. n \in Int
    BY <1>1
  <2>2. u \in Seq(BlockOrGenesis)
    <3> HIDE DEF n
    <3> QED BY <1>1, <2>1, LatestSuffix
  <2>3. t = [s EXCEPT !.undo = u]
    BY <1>3 DEF _push_transaction
  <2>4. u = Latest(s.undo, n)
    OBVIOUS
  <2> HIDE DEF u, t, n
  <2>5. t \in NodeState /\ SameChain(s, t) /\ t.popped = s.popped /\ t.undo = u /\ t.pending = s.pending
    BY <2>2, <2>3 DEF NodeState, SameChain
  <2> QED BY <1>3, <2>1, <2>4, <2>5
<1> QED
  BY <1>2, <1>3

(* No transaction twice.                                                   *)
Fresh(pend, h) ==
  /\ \A i, j \in DOMAIN pend : pend[i] = pend[j] => i = j
  /\ \A tx \in ToSet(pend) \cap Included(h) : num[h] > expiration[tx]

(* A transaction that applies is neither pending nor in the chain.         *)
LEMMA FreshAppend ==
  ASSUME NEW s \in NodeState, NEW tx \in Tx, Applicable(s, tx), Fresh(s.pending, s.head)
  PROVE  Fresh(Append(s.pending, tx), s.head)
<1> DEFINE q == s.pending
           h == s.head
           r == Append(q, tx)
<1>1. q \in Seq(Tx) /\ num[h] \in Nat /\ expiration[tx] \in Nat
  BY NodeTypes, BlockFacts, ChainAssumption
<1>2. tx \notin ToSet(q) /\ (tx \in Included(h) => ~(num[h] <= expiration[tx]))
  BY DEF Applicable, is_known_transaction
<1> HIDE DEF q, h
<1>3. Len(q) \in Nat /\ DOMAIN q = 1 .. Len(q) /\ DOMAIN r = 1 .. Len(q) + 1
      /\ r[Len(q) + 1] = tx /\ \A i \in 1 .. Len(q) : r[i] = q[i]
  BY <1>1
<1>4. ToSet(r) = ToSet(q) \cup {tx}
  BY <1>1, ToSetAppend
<1> HIDE DEF r
<1>5. \A i \in 1 .. Len(q) : r[i] # tx
  BY <1>2, <1>3 DEF ToSet
<1>6. ASSUME NEW i \in DOMAIN r, NEW j \in DOMAIN r, r[i] = r[j] PROVE i = j
  <2>1. CASE i = Len(q) + 1 \/ j = Len(q) + 1
    BY <1>3, <1>5, <1>6, <2>1
  <2>2. CASE i \in 1 .. Len(q) /\ j \in 1 .. Len(q)
    BY <1>3, <1>6, <2>2 DEF Fresh, q
  <2> QED BY <1>3, <2>1, <2>2
<1>7. ASSUME NEW x \in ToSet(r) \cap Included(h) PROVE num[h] > expiration[x]
  <2>1. CASE x = tx
    BY <1>1, <1>2, <1>7, <2>1
  <2>2. CASE x # tx
    BY <1>4, <1>7, <2>2 DEF Fresh, q, h
  <2> QED BY <2>1, <2>2
<1> QED
  BY <1>6, <1>7 DEF Fresh, r, q, h

(* The restorer leaves a transaction out only if the chain has it or it    *)
(* cannot be applied any more.                                             *)
Lives(h, tx) ==
  num[h] < expiration[tx] /\ ref_block[tx] \in ToSet(Path[h]) \cup {Genesis}

(* The records between the rounds of the restorer.                         *)
Restoring(s) ==
  {t \in Good : /\ SameChain(s, t) /\ t.popped = <<>>
                /\ Len(t.undo) <= Len(s.undo)
                /\ Fresh(t.pending, t.head)}

(* One round of the restorer: what lives on the new chain is pending again *)
(* or in it.                                                               *)
LEMMA RestoreOne ==
  ASSUME NEW s \in NodeState, NEW a \in Restoring(s), NEW tx \in Tx
  PROVE  LET t == restore_one(a, tx)
         IN  /\ t \in Restoring(s)
             /\ ToSet(a.pending) \subseteq ToSet(t.pending)
             /\ Lives(s.head, tx) => tx \in ToSet(t.pending) \cup Included(s.head)
<1> DEFINE t == restore_one(a, tx)
<1>1. /\ a \in Good /\ a \in NodeState /\ SameChain(s, a) /\ a.popped = <<>>
      /\ a.head = s.head /\ Len(a.undo) <= Len(s.undo) /\ Fresh(a.pending, a.head)
  BY DEF Restoring, Good, SameChain
<1>2. /\ a.undo \in Seq(BlockOrGenesis) /\ a.pending \in Seq(Tx) /\ s.undo \in Seq(BlockOrGenesis)
      /\ Leads(a.undo, a.head)
  BY <1>1, NodeTypes DEF Good
<1> SUFFICES /\ t \in Restoring(s)
             /\ ToSet(a.pending) \subseteq ToSet(t.pending)
             /\ Lives(s.head, tx) => tx \in ToSet(t.pending) \cup Included(s.head)
  OBVIOUS
<1>3. CASE is_known_transaction(a, tx)
  <2>1. t = a
    BY <1>3 DEF restore_one
  <2>2. tx \in ToSet(a.pending) \cup Included(s.head)
    BY <1>1, <1>3 DEF is_known_transaction
  <2> QED BY <2>1, <2>2
<1>4. CASE ~is_known_transaction(a, tx)
  <2>1. t = _push_transaction(a, tx)
    BY <1>4 DEF restore_one
  <2>2. /\ t \in NodeState /\ SameChain(a, t) /\ t.popped = a.popped
        /\ \E n \in Int : t.undo = Latest(a.undo, n)
        /\ t.pending = IF Applicable(a, tx) THEN Append(a.pending, tx) ELSE a.pending
    BY <1>1, <2>1, PushTxCases
  <2> HIDE DEF t
  <2>3. PICK n \in Int : t.undo = Latest(a.undo, n)
    BY <2>2
  <2>4. t.head = a.head /\ SameChain(s, t)
    BY <1>1, <2>2 DEF SameChain
  <2>5. Leads(t.undo, t.head) /\ Len(t.undo) <= Len(a.undo) /\ Len(t.undo) \in Nat
    BY <1>2, <2>3, <2>4, LeadsLatest, LatestSuffix
  <2>6. Len(t.undo) <= Len(s.undo)
    BY <1>1, <1>2, <2>5
  <2>7. Fresh(t.pending, t.head)
    BY <1>1, <2>2, <2>4, FreshAppend
  <2>8. t \in Restoring(s)
    BY <1>1, <2>2, <2>4, <2>5, <2>6, <2>7 DEF Restoring, Good
  <2>9. CASE Applicable(a, tx)
    <3>1. ToSet(t.pending) = ToSet(a.pending) \cup {tx}
      BY <1>2, <2>2, <2>9, ToSetAppend
    <3> QED BY <2>8, <3>1
  <2>10. CASE ~Applicable(a, tx)
    <3>1. ~Lives(s.head, tx)
      BY <1>1, <1>4, <2>10 DEF Applicable, Lives
    <3> QED BY <2>2, <2>8, <2>10, <3>1
  <2> QED BY <2>9, <2>10
<1> QED
  BY <1>3, <1>4

(* The elements of two sequences in a row.                                 *)
LEMMA ToSetConcat ==
  ASSUME NEW S, NEW a \in Seq(S), NEW b \in Seq(S)
  PROVE  ToSet(a \o b) = ToSet(a) \cup ToSet(b)
<1> DEFINE c == a \o b
<1>1. c \in Seq(S) /\ Len(c) = Len(a) + Len(b) /\ Len(a) \in Nat /\ Len(b) \in Nat
      /\ (\A i \in 1 .. Len(a) : c[i] = a[i])
      /\ (\A i \in 1 .. Len(b) : c[i + Len(a)] = b[i])
  BY Concat
<1> HIDE DEF c
<1>2. DOMAIN a = 1 .. Len(a) /\ DOMAIN b = 1 .. Len(b) /\ DOMAIN c = 1 .. Len(c)
  BY <1>1
<1>3. ASSUME NEW i \in 1 .. Len(c) PROVE c[i] \in ToSet(a) \cup ToSet(b)
  <2>1. CASE i \in 1 .. Len(a)
    BY <1>1, <1>2, <2>1 DEF ToSet
  <2>2. CASE i \notin 1 .. Len(a)
    <3>1. i - Len(a) \in 1 .. Len(b) /\ (i - Len(a)) + Len(a) = i
      BY <1>1, <2>2
    <3>2. c[i] = b[i - Len(a)]
      BY <1>1, <3>1
    <3> QED BY <1>2, <3>1, <3>2 DEF ToSet
  <2> QED BY <2>1, <2>2
<1>4. ASSUME NEW i \in 1 .. Len(a) PROVE a[i] \in ToSet(c)
  <2>1. i \in 1 .. Len(c)
    BY <1>1
  <2> QED BY <1>1, <1>2, <2>1 DEF ToSet
<1>5. ASSUME NEW i \in 1 .. Len(b) PROVE b[i] \in ToSet(c)
  <2>1. i + Len(a) \in 1 .. Len(c)
    BY <1>1
  <2> QED BY <1>1, <1>2, <2>1 DEF ToSet
<1>6. ToSet(c) \subseteq ToSet(a) \cup ToSet(b)
  BY <1>2, <1>3 DEF ToSet
<1>7. ToSet(a) \subseteq ToSet(c) /\ ToSet(b) \subseteq ToSet(c)
  BY <1>2, <1>4, <1>5 DEF ToSet
<1> QED
  BY <1>6, <1>7 DEF c

(* What the restorer achieves.                                             *)
LEMMA RestoreResult ==
  ASSUME NEW s \in Good, s.pending = <<>>, NEW q \in Seq(Tx)
  PROVE  LET t == restore(s, q)
         IN  /\ t \in Restoring(s)
             /\ \A tx \in ToSet(s.popped) \cup ToSet(q) :
                  Lives(s.head, tx) => tx \in ToSet(t.pending) \cup Included(s.head)
<1> DEFINE b == [s EXCEPT !.popped = <<>>]
           w == s.popped \o q
           m == Len(w)
           B == Restoring(s)
           h == s.head
<1>1. s \in NodeState /\ Leads(s.undo, s.head) /\ s.popped \in Seq(Tx) /\ s.undo \in Seq(BlockOrGenesis)
  BY NodeTypes DEF Good
<1>2. w \in Seq(Tx) /\ ToSet(w) = ToSet(s.popped) \cup ToSet(q)
  BY <1>1, ToSetConcat
<1>3. b \in B
  <2>1. b \in NodeState /\ SameChain(s, b) /\ b.undo = s.undo /\ b.pending = <<>> /\ b.popped = <<>>
    BY <1>1 DEF NodeState, SameChain
  <2>2. Fresh(<<>>, b.head)
    BY DEF Fresh, ToSet
  <2>3. b.head = s.head /\ Len(b.undo) <= Len(s.undo)
    BY <1>1, <2>1 DEF SameChain
  <2> HIDE DEF b
  <2> QED BY <1>1, <2>1, <2>2, <2>3 DEF Restoring, Good
<1>4. \A a \in B, tx \in Tx : restore_one(a, tx) \in B
  BY <1>1, RestoreOne
<1>5. PICK p : RestoreRun(p, s, q, B) /\ p[m] = restore(s, q)
  <2> HIDE DEF B
  <2> QED BY <1>2, <1>3, <1>4, RestoreFold
<1> HIDE DEF w
<1>6. /\ m \in Nat /\ \A i \in 0 .. m : p[i] \in B
      /\ \A i \in 1 .. m : p[i] = restore_one(p[i - 1], w[i])
  <2> HIDE DEF B
  <2> QED BY <1>2, <1>5 DEF RestoreRun, w
<1> HIDE DEF m, B
<1> DEFINE Held(t, i) == \A k \in 1 .. i : Lives(h, w[k]) => w[k] \in ToSet(t.pending) \cup Included(h)
           P == {i \in Nat : i <= m => Held(p[i], i)}
<1>7. 0 \in P
  OBVIOUS
<1>8. ASSUME NEW i \in Nat, i \in P PROVE i + 1 \in P
  <2> SUFFICES ASSUME i + 1 <= m PROVE Held(p[i + 1], i + 1)
    OBVIOUS
  <2> DEFINE a == p[i]
             t == p[i + 1]
             tx == w[i + 1]
  <2>1. i <= m /\ i \in 0 .. m /\ i + 1 \in 1 .. m /\ (i + 1) - 1 = i
    BY <1>6
  <2>2. a \in B /\ Held(a, i)
    BY <1>6, <1>8, <2>1
  <2>3. tx \in Tx
    BY <1>2, <2>1 DEF m
  <2>4. t = restore_one(a, tx)
    BY <1>6, <2>1
  <2> HIDE DEF a, tx
  <2>5. /\ ToSet(a.pending) \subseteq ToSet(t.pending)
        /\ Lives(h, tx) => tx \in ToSet(t.pending) \cup Included(h)
    BY <1>1, <2>2, <2>3, <2>4, RestoreOne DEF B
  <2> HIDE DEF t
  <2>6. ASSUME NEW k \in 1 .. i + 1, Lives(h, w[k])
        PROVE  w[k] \in ToSet(t.pending) \cup Included(h)
    <3>1. CASE k = i + 1
      BY <2>5, <2>6, <3>1 DEF tx
    <3>2. CASE k # i + 1
      <4>1. k \in 1 .. i
        BY <3>2
      <4> QED BY <2>2, <2>5, <2>6, <4>1
    <3> QED BY <3>1, <3>2
  <2> QED BY <2>6 DEF t
<1>9. Nat \subseteq P
  <2> HIDE DEF P
  <2> QED BY <1>7, <1>8, NaturalInduction
<1>10. Held(p[m], m) /\ p[m] \in B
  BY <1>6, <1>9
<1>11. ASSUME NEW tx \in ToSet(w), Lives(h, tx)
       PROVE  tx \in ToSet(p[m].pending) \cup Included(h)
  <2>1. PICK k \in DOMAIN w : tx = w[k]
    BY DEF ToSet
  <2>2. k \in 1 .. m
    BY <1>2 DEF m
  <2> QED BY <1>10, <1>11, <2>1, <2>2
<1> QED
  BY <1>2, <1>5, <1>10, <1>11 DEF B

-----------------------------------------------------------------------------
(* push_block                                                              *)

(* The part of push_block between taking the pending transactions off and  *)
(* putting them back.                                                      *)
Inner(s, b) == _push_block([s EXCEPT !.pending = <<>>], b)

(* What push_block ends in, when the inner part has ended in r.            *)
Pushed(s, r, t) ==
  /\ t.head = r.head /\ t.log = r.log /\ t.writes = r.writes
  /\ t.flushed = r.flushed /\ t.gap = r.gap /\ t.ok = r.ok
  /\ t.fork = fork_db!Expire(r.fork)
  /\ t.popped = <<>> /\ Fresh(t.pending, t.head) /\ Len(t.undo) <= Len(r.undo)
  /\ \A tx \in ToSet(r.popped) \cup ToSet(s.pending) :
       Lives(t.head, tx) => tx \in ToSet(t.pending) \cup Included(t.head)

(* push_block is the inner part and the restorer.                          *)
LEMMA PushResult ==
  ASSUME NEW B, Closed(B), Returns(B) \/ Honest, \A r \in B : r.pending = <<>>,
         NEW s \in NodeState, s.ok, [s EXCEPT !.pending = <<>>] \in B, NEW b \in Block
  PROVE  /\ Inner(s, b) \in B
         /\ push_block(s, b) \in Good
         /\ Pushed(s, Inner(s, b), push_block(s, b))
<1> DEFINE u == [s EXCEPT !.pending = <<>>]
           r == Inner(s, b)
           v == restore(r, s.pending)
           t == push_block(s, b)
           f == fork_db!Expire(v.fork)
<1>1. u.ok /\ s.pending \in Seq(Tx)
  BY DEF NodeState
<1>2. r \in B
  <2> HIDE DEF u
  <2>1. u \in B
    BY DEF u
  <2>2. _push_block(u, b) \in B
    BY <1>1, <2>1, InnerPushClosed
  <2> QED BY <2>2 DEF Inner, u
<1>3. t = [v EXCEPT !.fork = fork_db!Expire(@)]
  BY DEF push_block, Inner
<1>4. r \in Good /\ r.pending = <<>>
  BY <1>2 DEF Closed
<1> HIDE DEF r
<1>5. /\ v \in Restoring(r)
      /\ \A tx \in ToSet(r.popped) \cup ToSet(s.pending) :
           Lives(r.head, tx) => tx \in ToSet(v.pending) \cup Included(r.head)
  BY <1>1, <1>4, RestoreResult
<1> HIDE DEF v, t
<1>6. /\ v \in Good /\ v \in NodeState /\ SameChain(r, v) /\ v.popped = <<>>
      /\ Len(v.undo) <= Len(r.undo) /\ Fresh(v.pending, v.head)
  BY <1>5 DEF Restoring, Good
<1>7. f \in fork_db!ForkDB
  BY <1>6, NodeTypes, ForkTypes
<1>8. t = [v EXCEPT !.fork = f]
  BY <1>3
<1> HIDE DEF f
<1>9. /\ t \in NodeState /\ t.head = v.head /\ t.undo = v.undo /\ t.fork = f
      /\ t.pending = v.pending /\ t.popped = v.popped /\ t.log = v.log
      /\ t.writes = v.writes /\ t.flushed = v.flushed /\ t.gap = v.gap /\ t.ok = v.ok
  BY <1>6, <1>7, <1>8 DEF NodeState
<1>10. t \in Good
  BY <1>6, <1>9 DEF Good
<1>11. Pushed(s, r, t)
  BY <1>5, <1>6, <1>9 DEF Pushed, SameChain, f
<1> QED
  BY <1>2, <1>10, <1>11 DEF r, t

(* The records without pending transactions.                               *)
Emptied == {s \in Good : s.pending = <<>>}

(* The records without pending transactions.                               *)
LEMMA EmptiedClosed ==
  /\ Closed(Emptied) /\ Returns(Emptied) /\ \A s \in Emptied : s.pending = <<>>
  /\ \A s \in Good : [s EXCEPT !.pending = <<>>] \in Emptied
<1>1. Closed(Emptied) /\ Returns(Emptied)
  BY DEF Closed, Returns, Emptied, Trims, Frame, Applied, Popped
<1>2. ASSUME NEW s \in Good PROVE [s EXCEPT !.pending = <<>>] \in Emptied
  <2> DEFINE e == <<>>
             u == [s EXCEPT !.pending = e]
  <2>1. s \in NodeState /\ Leads(s.undo, s.head) /\ e \in Seq(Tx) /\ e = <<>>
    BY DEF Good
  <2> HIDE DEF e
  <2>2. u \in NodeState /\ u.undo = s.undo /\ u.head = s.head /\ u.pending = e
    BY <2>1 DEF NodeState
  <2> HIDE DEF u
  <2>3. u \in Emptied
    BY <2>1, <2>2 DEF Good, Emptied
  <2> QED BY <2>3 DEF u, e
<1> QED
  BY <1>1, <1>2 DEF Emptied

(* push_block leaves a record of which the undo log leads down the chain   *)
(* and the pending transactions are fresh.                                 *)
LEMMA PushGood ==
  ASSUME NEW s \in Good, s.ok, NEW b \in Block
  PROVE  /\ push_block(s, b) \in Good /\ Pushed(s, Inner(s, b), push_block(s, b))
         /\ Inner(s, b) \in Emptied
<1>1. s \in NodeState /\ [s EXCEPT !.pending = <<>>] \in Emptied
  BY EmptiedClosed DEF Good
<1> QED
  BY <1>1, EmptiedClosed, PushResult

(* The transactions of a chain with one more block.                        *)
LEMMA IncludedStep ==
  ASSUME NEW b \in Block
  PROVE  Included(b) = Included(previous[b]) \cup ToSet(transactions[b])
<1>1. ToSet(Path[b]) = ToSet(Path[previous[b]]) \cup {b}
  BY PathStep
<1> QED
  BY <1>1 DEF Included

(* Every transaction of T is in the chain or waits for the restorer.       *)
Keeping(T) == {s \in Emptied : T \subseteq Included(s.head) \cup ToSet(s.popped)}

(* The records that hold the transactions T in the chain or among the      *)
(* popped ones.                                                            *)
LEMMA KeepingClosed ==
  ASSUME NEW T
  PROVE  Closed(Keeping(T)) /\ Returns(Keeping(T)) /\ \A s \in Keeping(T) : s.pending = <<>>
<1>1. Keeping(T) \subseteq Good /\ \A s \in Keeping(T) : s.pending = <<>>
  BY DEF Keeping, Emptied
<1>2. ASSUME NEW s \in Keeping(T), NEW t \in Good, Trims(s, t) PROVE t \in Keeping(T)
  BY <1>2 DEF Keeping, Emptied, Trims, Frame
<1>3. ASSUME NEW s \in Keeping(T), NEW t \in Good, NEW id \in Block, NEW b \in Block, Applied(s, id, b, t)
      PROVE  t \in Keeping(T)
  <2>1. previous[b] = s.head /\ t.head = b /\ t.popped = s.popped /\ t.pending = s.pending
    BY <1>3 DEF Applied, BlockApplies
  <2>2. Included(s.head) \subseteq Included(t.head)
    BY <2>1, IncludedStep
  <2> QED BY <2>1, <2>2 DEF Keeping, Emptied
<1>4. ASSUME NEW s \in Keeping(T), NEW t \in Good, Popped(s, t) PROVE t \in Keeping(T)
  <2>1. s \in Good /\ s \in NodeState /\ t \in NodeState
    BY DEF Keeping, Emptied, Good
  <2>2. t.head = previous[s.head] /\ s.head \in Block
    BY <1>4, <2>1, GoodPopped
  <2>3. t.popped = transactions[s.head] \o s.popped /\ t.pending = s.pending
    BY <1>4 DEF Popped
  <2>4. transactions[s.head] \in Seq(Tx) /\ s.popped \in Seq(Tx)
    BY <2>1, <2>2, NodeTypes, ChainAssumption
  <2>5. ToSet(t.popped) = ToSet(transactions[s.head]) \cup ToSet(s.popped)
    BY <2>3, <2>4, ToSetConcat
  <2>6. Included(s.head) = Included(t.head) \cup ToSet(transactions[s.head])
    BY <2>2, IncludedStep
  <2> QED BY <2>3, <2>5, <2>6 DEF Keeping, Emptied
<1> QED
  BY <1>1, <1>2, <1>3, <1>4 DEF Closed, Returns

(* push_block loses no transaction.                                        *)
LEMMA PushKeeps ==
  ASSUME NEW s \in Good, s.ok, NEW b \in Block
  PROVE  LET t == push_block(s, b)
         IN  \A tx \in ToSet(s.pending) \cup Included(s.head) :
               Lives(t.head, tx) => tx \in ToSet(t.pending) \cup Included(t.head)
<1> DEFINE t == push_block(s, b)
           r == Inner(s, b)
           T == Included(s.head)
<1>1. [s EXCEPT !.pending = <<>>] \in Keeping(T) /\ s \in NodeState
  <2> DEFINE u == [s EXCEPT !.pending = <<>>]
  <2>1. u \in Emptied /\ s \in NodeState
    BY EmptiedClosed DEF Good
  <2>2. u.head = s.head
    BY <2>1 DEF NodeState
  <2> HIDE DEF u
  <2>3. u \in Keeping(T)
    BY <2>1, <2>2 DEF Keeping
  <2> QED BY <2>1, <2>3 DEF u
<1>2. r \in Keeping(T) /\ Pushed(s, r, t)
  <2> HIDE DEF T
  <2> QED BY <1>1, KeepingClosed, PushResult
<1> HIDE DEF r, t
<1>3. T \subseteq Included(t.head) \cup ToSet(r.popped)
  BY <1>2 DEF Keeping, Pushed
<1>4. \A tx \in ToSet(s.pending) \cup Included(s.head) :
        Lives(t.head, tx) => tx \in ToSet(t.pending) \cup Included(t.head)
  BY <1>2, <1>3 DEF Pushed
<1> QED
  BY <1>4 DEF t

-----------------------------------------------------------------------------
(* Opening                                                                 *)

(* A process that has just started.                                        *)
LEMMA StartedTyped ==
  ASSUME NEW h \in BlockOrGenesis, NEW l \in block_db!BlockLog
  PROVE  LET t == Started(h, l)
         IN  /\ t \in NodeState /\ t.head = h /\ t.undo = <<>> /\ t.pending = <<>>
             /\ t.popped = <<>> /\ t.log = l /\ t.writes = <<>> /\ t.flushed = h
             /\ ~t.gap /\ t.ok /\ t.undo_max = 256
             /\ t.fork = [index |-> {}, head |-> NoBlock, linked |-> {}, max_size |-> 1024]
<1> DEFINE f == [index |-> {}, head |-> NoBlock, linked |-> {}, max_size |-> 1024]
           e == <<>>
           n == 256
           no == FALSE
           yes == TRUE
           t == Started(h, l)
<1>1. f \in fork_db!ForkDB
  BY DEF fork_db!ForkDB
<1>2. n \in Nat /\ e \in Seq(BlockOrGenesis) /\ e \in Seq(Tx) /\ e \in Seq(Write)
      /\ no \in BOOLEAN /\ yes \in BOOLEAN /\ ~no /\ yes
  OBVIOUS
<1>3. t = [head |-> h, undo |-> e, undo_max |-> n, fork |-> f, pending |-> e, popped |-> e,
           log |-> l, writes |-> e, flushed |-> h, gap |-> no, ok |-> yes]
  BY DEF Started
<1> SUFFICES /\ t \in NodeState /\ t.head = h /\ t.undo = e /\ t.pending = e
             /\ t.popped = e /\ t.log = l /\ t.writes = e /\ t.flushed = h
             /\ ~t.gap /\ t.ok /\ t.undo_max = n /\ t.fork = f
  OBVIOUS
<1> HIDE DEF f, e, n, no, yes, t
<1> QED
  BY <1>1, <1>2, <1>3 DEF NodeState

(* The log: what is read of it, cut off, and repaired.                     *)
LEMMA LogTyped ==
  ASSUME NEW l \in block_db!BlockLog
  PROVE  /\ \A i \in Int : cutoff_blocks(l, i) \in block_db!BlockLog
         /\ block_db!last_index_entry(l) \in block_db!BlockLog
         /\ \A i \in Int : block_db!fetch_by_number(l, i) \in Block \cup {NoBlock}
         /\ \A i \in Int : block_db!Readable(l, i) =>
              /\ i \in 1 .. MaxNum
              /\ l[i].data \in Block /\ block_db!fetch_by_number(l, i) = l[i].data
<1> USE DEF block_db!BlockLog, block_db!Slot
<1>1. NoSlot \in block_db!Slot
  OBVIOUS
<1>2. \A i \in Int : cutoff_blocks(l, i) \in block_db!BlockLog
  BY <1>1 DEF cutoff_blocks
<1>3. block_db!last_index_entry(l) \in block_db!BlockLog
  BY <1>1 DEF block_db!last_index_entry
<1>4. ASSUME NEW i \in Int, block_db!Readable(l, i)
      PROVE  /\ i \in 1 .. MaxNum
             /\ l[i].data \in Block /\ block_db!fetch_by_number(l, i) = l[i].data
  BY <1>4 DEF block_db!Readable, block_db!fetch_by_number
<1>5. \A i \in Int : block_db!fetch_by_number(l, i) \in Block \cup {NoBlock}
  BY <1>4 DEF block_db!fetch_by_number
<1> QED
  BY <1>2, <1>3, <1>4, <1>5

(* What a block without undo log does.                                     *)
Bare(s, b, t) ==
  /\ t.undo = s.undo /\ t.pending = s.pending /\ t.popped = s.popped
  /\ t.log = s.log /\ t.writes = s.writes /\ t.flushed = s.flushed /\ t.gap = s.gap
  /\ t.fork.head = s.fork.head /\ t.fork.index \subseteq s.fork.index
  /\ IF BlockApplies(s, b) THEN t.ok = s.ok /\ t.head = b ELSE ~t.ok /\ t.head = s.head

(* apply_block of the first stages of a replay.                            *)
LEMMA BareCases ==
  ASSUME NEW s \in NodeState, NEW b \in Block
  PROVE  apply_without_undo(s, b) \in NodeState /\ Bare(s, b, apply_without_undo(s, b))
<1> DEFINE t == apply_without_undo(s, b)
<1>0. s.fork \in fork_db!ForkDB /\ b \in BlockOrGenesis
  BY NodeTypes, BlockFacts
<1>1. CASE BlockApplies(s, b)
  <2> DEFINE n == num[b] - lib[s.head] + 1
             f == fork_db!set_max_size(s.fork, n)
  <2>1. n \in Nat
    BY <1>1, SizeTyped DEF BlockApplies
  <2>2. f \in fork_db!ForkDB /\ f.head = s.fork.head /\ f.index \subseteq s.fork.index
    <3> HIDE DEF n
    <3> QED BY <1>0, <2>1, ForkSize
  <2>3. t = [[s EXCEPT !.undo_max = n, !.fork = f] EXCEPT !.head = b]
    BY <1>1 DEF apply_without_undo, SetMaxSizes
  <2> HIDE DEF n, f, t
  <2>4. t \in NodeState /\ t.undo = s.undo /\ t.pending = s.pending /\ t.popped = s.popped
        /\ t.log = s.log /\ t.writes = s.writes /\ t.flushed = s.flushed /\ t.gap = s.gap
        /\ t.fork = f /\ t.ok = s.ok /\ t.head = b
    BY <1>0, <2>1, <2>2, <2>3 DEF NodeState
  <2>5. Bare(s, b, t)
    BY <1>1, <2>2, <2>4 DEF Bare
  <2> QED BY <2>4, <2>5 DEF t
<1>2. CASE ~BlockApplies(s, b)
  <2> DEFINE no == FALSE
  <2>1. no \in BOOLEAN /\ ~no
    OBVIOUS
  <2>2. t = [s EXCEPT !.ok = no]
    BY <1>2 DEF apply_without_undo
  <2> HIDE DEF no, t
  <2>3. t \in NodeState /\ t.undo = s.undo /\ t.pending = s.pending /\ t.popped = s.popped
        /\ t.log = s.log /\ t.writes = s.writes /\ t.flushed = s.flushed /\ t.gap = s.gap
        /\ t.fork = s.fork /\ t.ok = no /\ t.head = s.head
    BY <2>1, <2>2 DEF NodeState
  <2>4. Bare(s, b, t)
    BY <1>2, <2>1, <2>3 DEF Bare
  <2> QED BY <2>3, <2>4 DEF t
<1> QED
  BY <1>1, <1>2

(* What a gap in the log does.                                             *)
Cut(s, i, t) ==
  /\ t.undo = s.undo /\ t.pending = s.pending /\ t.popped = s.popped
  /\ t.log = cutoff_blocks(s.log, i) /\ t.writes = s.writes /\ t.flushed = s.flushed
  /\ t.gap /\ t.fork = s.fork /\ t.ok = s.ok /\ t.head = s.head

(* A replay that stops at a gap.                                           *)
LEMMA CutCases ==
  ASSUME NEW s \in NodeState, NEW i \in Int
  PROVE  LET t == [s EXCEPT !.gap = TRUE, !.log = cutoff_blocks(@, i)]
         IN  t \in NodeState /\ Cut(s, i, t)
<1> DEFINE yes == TRUE
           l == cutoff_blocks(s.log, i)
           t == [s EXCEPT !.gap = yes, !.log = l]
<1>1. l \in block_db!BlockLog /\ yes \in BOOLEAN /\ yes
  BY LogTyped, NodeTypes
<1>2. t = [s EXCEPT !.gap = TRUE, !.log = cutoff_blocks(@, i)]
  OBVIOUS
<1>3. l = cutoff_blocks(s.log, i)
  OBVIOUS
<1> HIDE DEF yes, l
<1>4. t \in NodeState /\ t.undo = s.undo /\ t.pending = s.pending /\ t.popped = s.popped
      /\ t.log = l /\ t.writes = s.writes /\ t.flushed = s.flushed
      /\ t.gap /\ t.fork = s.fork /\ t.ok = s.ok /\ t.head = s.head
  BY <1>1 DEF NodeState
<1> HIDE DEF t
<1>5. t \in NodeState /\ Cut(s, i, t)
  BY <1>3, <1>4 DEF Cut
<1> QED
  BY <1>2, <1>5

(* The ways in which a round of the replay ends.                           *)
LEMMA ReindexCases ==
  ASSUME NEW s \in NodeState, NEW i \in Int, NEW direct \in BOOLEAN
  PROVE  LET t == reindex_one(direct, s, i)
             b == s.log[i].data
         IN  \/ (~s.ok \/ s.gap) /\ t = s
             \/ /\ s.ok /\ ~s.gap /\ ~block_db!Readable(s.log, i)
                /\ t \in NodeState /\ Cut(s, i, t)
             \/ /\ s.ok /\ ~s.gap /\ block_db!Readable(s.log, i) /\ b \in Block /\ direct
                /\ t \in NodeState /\ Bare(s, b, t)
             \/ /\ s.ok /\ ~s.gap /\ block_db!Readable(s.log, i) /\ b \in Block /\ ~direct
                /\ t = push_block(s, b)
<1> DEFINE t == reindex_one(direct, s, i)
           b == s.log[i].data
<1>0. s.log \in block_db!BlockLog
  BY NodeTypes
<1>1. CASE ~s.ok \/ s.gap
  BY <1>1 DEF reindex_one
<1>2. CASE s.ok /\ ~s.gap /\ ~block_db!Readable(s.log, i)
  BY <1>2, CutCases DEF reindex_one
<1>3. CASE s.ok /\ ~s.gap /\ block_db!Readable(s.log, i)
  <2>1. b \in Block /\ block_db!fetch_by_number(s.log, i) = b
    BY <1>0, <1>3, LogTyped
  <2> HIDE DEF b
  <2>2. CASE direct
    <3>1. t = apply_without_undo(s, b)
      BY <1>3, <2>1, <2>2 DEF reindex_one
    <3> QED BY <1>3, <2>1, <2>2, <3>1, BareCases DEF b
  <2>3. CASE ~direct
    <3>1. t = push_block(s, b)
      BY <1>3, <2>1, <2>3 DEF reindex_one
    <3> QED BY <1>3, <2>1, <2>3, <3>1 DEF b
  <2> QED BY <2>2, <2>3
<1> QED
  BY <1>1, <1>2, <1>3

(* The records of the replay: with the undo log disabled, and enabled.     *)
Direct ==
  {s \in NodeState : s.undo = <<>> /\ s.pending = <<>> /\ s.popped = <<>>}
Steady == {s \in Good : s.popped = <<>> /\ Fresh(s.pending, s.head)}

(* A record without undo states is in order.                               *)
LEMMA DirectSteady == Direct \subseteq Steady
<1> SUFFICES ASSUME NEW s \in Direct PROVE s \in Steady
  OBVIOUS
<1>1. Leads(<<>>, s.head)
  BY LeadsEmpty
<1>2. Fresh(<<>>, s.head)
  BY DEF Fresh, ToSet
<1> QED
  BY <1>1, <1>2 DEF Direct, Steady, Good

(* A round of the replay stays in these sets.                              *)
LEMMA DirectOne ==
  ASSUME NEW s \in Direct, NEW i \in Int
  PROVE  reindex_one(TRUE, s, i) \in Direct
<1> DEFINE t == reindex_one(TRUE, s, i)
<1>1. s \in NodeState
  BY DEF Direct
<1>2. \/ t = s
      \/ t \in NodeState /\ Cut(s, i, t)
      \/ t \in NodeState /\ Bare(s, s.log[i].data, t)
  BY <1>1, ReindexCases
<1> HIDE DEF t
<1>3. t \in Direct
  BY <1>2 DEF Direct, Cut, Bare
<1> QED
  BY <1>3 DEF t

(* One round of the last stage of a replay.                                *)
LEMMA SteadyOne ==
  ASSUME NEW s \in Steady, NEW i \in Int
  PROVE  reindex_one(FALSE, s, i) \in Steady
<1> DEFINE t == reindex_one(FALSE, s, i)
           b == s.log[i].data
<1>1. s \in NodeState /\ s \in Good
  BY DEF Steady, Good
<1>2. \/ t = s
      \/ t \in NodeState /\ Cut(s, i, t)
      \/ s.ok /\ b \in Block /\ t = push_block(s, b)
  BY <1>1, ReindexCases
<1> HIDE DEF t, b
<1> SUFFICES t \in Steady
  BY DEF t
<1>3. CASE t \in NodeState /\ Cut(s, i, t)
  BY <1>3 DEF Steady, Good, Cut
<1>4. CASE s.ok /\ b \in Block /\ t = push_block(s, b)
  <2>1. t \in Good /\ Pushed(s, Inner(s, b), t)
    BY <1>1, <1>4, PushGood
  <2> QED BY <2>1 DEF Steady, Pushed
<1> QED
  BY <1>2, <1>3, <1>4

(* The rounds of a replay lead through the sets R, one after the other.    *)
Stages(direct, R, first, n) ==
  \A i \in 1 .. n : \A a \in R[i - 1] : reindex_one(direct, a, first + i - 1) \in R[i]

(* So does a replay: the induction over its rounds, once for all its       *)
(* stages.                                                                 *)
LEMMA ReindexStages ==
  ASSUME NEW B, NEW direct, NEW first \in Int, NEW last \in Int,
         \A a \in B, i \in Int : reindex_one(direct, a, i) \in B,
         NEW n \in Nat, Counts(n, last - first + 1),
         NEW R, Stages(direct, R, first, n), NEW s \in B, s \in R[0]
  PROVE  reindex_range(direct, s, first, last) \in R[n]
<1> DEFINE q == [k \in 1 .. last - first + 1 |-> first + k - 1]
<1>1. \A i \in 1 .. n : q[i] = first + i - 1
  BY DEF Counts
<1>2. q = [k \in 1 .. last - first + 1 |-> first + k - 1]
  OBVIOUS
<1> HIDE DEF q
<1>3. PICK p : ReindexRun(p, direct, s, q, n, B) /\ p[n] = reindex_range(direct, s, first, last)
  <2>1. /\ s \in B /\ first \in Int /\ last \in Int /\ n \in Nat /\ Counts(n, last - first + 1)
        /\ \A a \in B, i \in Int : reindex_one(direct, a, i) \in B
    OBVIOUS
  <2> QED BY ONLY <1>2, <2>1, ReindexFold
<1>4. p[0] = s /\ \A i \in 1 .. n : p[i] = reindex_one(direct, p[i - 1], first + i - 1)
  BY <1>1, <1>3 DEF ReindexRun
<1> DEFINE P == {i \in Nat : i <= n => p[i] \in R[i]}
<1>5. 0 \in P
  BY <1>4
<1>6. ASSUME NEW i \in Nat, i \in P PROVE i + 1 \in P
  <2> SUFFICES ASSUME i + 1 <= n PROVE p[i + 1] \in R[i + 1]
    OBVIOUS
  <2>1. i + 1 \in 1 .. n /\ (i + 1) - 1 = i /\ i <= n
    OBVIOUS
  <2>2. p[i] \in R[i]
    BY <1>6, <2>1
  <2>3. p[i + 1] = reindex_one(direct, p[(i + 1) - 1], first + (i + 1) - 1)
    BY <1>4, <2>1
  <2>4. \A a \in R[(i + 1) - 1] : reindex_one(direct, a, first + (i + 1) - 1) \in R[i + 1]
    BY <2>1 DEF Stages
  <2>5. p[(i + 1) - 1] \in R[(i + 1) - 1]
    BY <2>1, <2>2
  <2> QED BY <2>3, <2>4, <2>5
<1>7. Nat \subseteq P
  <2> HIDE DEF P
  <2> QED BY <1>5, <1>6, NaturalInduction
<1> QED
  BY <1>3, <1>7

(* A replay stays in a set that its rounds do not leave.                   *)
LEMMA ReindexClosed ==
  ASSUME NEW B, NEW direct, NEW first \in Int, NEW last \in Int,
         \A a \in B, i \in Int : reindex_one(direct, a, i) \in B, NEW s \in B
  PROVE  reindex_range(direct, s, first, last) \in B
<1> DEFINE k == last - first + 1
<1>1. k \in Int
  OBVIOUS
<1>2. PICK n \in Nat : Counts(n, k)
  <2> HIDE DEF k
  <2> QED BY <1>1, Rounds
<1> DEFINE R == [i \in 0 .. n |-> B]
<1>3. Stages(direct, R, first, n) /\ s \in R[0] /\ R[n] = B
  <2>1. \A i \in 1 .. n : R[i] = B /\ R[i - 1] = B /\ first + i - 1 \in Int
    OBVIOUS
  <2>2. R[0] = B /\ R[n] = B
    OBVIOUS
  <2> HIDE DEF R
  <2> QED BY <2>1, <2>2 DEF Stages
<1> HIDE DEF R
<1> QED
  BY <1>2, <1>3, ReindexStages

(* The stages of reindex.                                                  *)
LEMMA DirectStage ==
  ASSUME NEW s \in Direct, NEW until \in Int
  PROVE  /\ reindex_direct(s, until) \in Direct
         /\ flush_after(s, until) \in Direct
         /\ start_fork_db(s) \in Direct
<1>0. s \in NodeState /\ num[s.head] \in Nat /\ s.head \in BlockOrGenesis
      /\ s.log \in block_db!BlockLog /\ s.fork \in fork_db!ForkDB
  BY NodeTypes, BlockFacts DEF Direct
<1>1. reindex_direct(s, until) \in Direct
  <2>1. \A a \in Direct, i \in Int : reindex_one(TRUE, a, i) \in Direct
    BY DirectOne
  <2> DEFINE first == num[s.head] + 1
  <2>2. first \in Int
    BY <1>0
  <2>3. reindex_range(TRUE, s, first, until) \in Direct
    <3> HIDE DEF first
    <3> QED BY <2>1, <2>2, ReindexClosed
  <2> QED BY <2>3 DEF reindex_direct
<1>2. flush_after(s, until) \in Direct
  <2> DEFINE h == s.head
             t == [s EXCEPT !.flushed = h]
  <2>1. t \in Direct
    <3> HIDE DEF h
    <3>1. h \in BlockOrGenesis
      BY <1>0 DEF h
    <3>2. t \in NodeState /\ t.undo = s.undo /\ t.pending = s.pending /\ t.popped = s.popped
      BY <1>0, <3>1 DEF NodeState
    <3> QED BY <3>2 DEF Direct
  <2> QED BY <2>1 DEF flush_after
<1>3. start_fork_db(s) \in Direct
  <2> DEFINE b == block_db!fetch_by_number(s.log, num[s.head])
             f == fork_db!start_block(s.fork, b)
             no == FALSE
  <2>1. no \in BOOLEAN /\ (b = NoBlock \/ b \in Block)
    BY <1>0, LogTyped
  <2>2. b # NoBlock => f \in fork_db!ForkDB
    <3> HIDE DEF b
    <3> QED BY <1>0, <2>1, ForkTypes
  <2>3. start_fork_db(s) = IF ~s.ok \/ s.head = Genesis THEN s
                           ELSE IF b = NoBlock THEN [s EXCEPT !.ok = no]
                           ELSE [s EXCEPT !.fork = f]
    BY DEF start_fork_db
  <2> HIDE DEF b, f, no
  <2>4. LET t == [s EXCEPT !.ok = no]
        IN  t \in NodeState /\ t.undo = s.undo /\ t.pending = s.pending /\ t.popped = s.popped
    BY <1>0, <2>1 DEF NodeState
  <2>5. b # NoBlock =>
          LET t == [s EXCEPT !.fork = f]
          IN  t \in NodeState /\ t.undo = s.undo /\ t.pending = s.pending /\ t.popped = s.popped
    BY <1>0, <2>2 DEF NodeState
  <2> QED BY <2>3, <2>4, <2>5 DEF Direct
<1> QED
  BY <1>1, <1>2, <1>3

(* A replay leaves the undo log and the pending transactions in order.     *)
LEMMA ReindexSteady ==
  ASSUME NEW s \in Direct, NEW last \in Int
  PROVE  reindex(s, last) \in Steady
<1> DEFINE m == last - 2 * MaxUndoHistory
           n == last - MaxUndoHistory
           a == start_fork_db(reindex_direct(flush_after(reindex_direct(s, m), m), n))
           no == FALSE
           b == [a EXCEPT !.gap = no]
           first == num[a.head] + 1
<1>1. m \in Int /\ n \in Int /\ no \in BOOLEAN
  BY ChainAssumption
<1>2. a \in Direct
  <2> HIDE DEF m, n
  <2>1. \A x \in Direct, u \in Int : /\ reindex_direct(x, u) \in Direct
                                     /\ flush_after(x, u) \in Direct
                                     /\ start_fork_db(x) \in Direct
    BY DirectStage
  <2>2. reindex_direct(s, m) \in Direct
    BY <1>1, <2>1
  <2>3. flush_after(reindex_direct(s, m), m) \in Direct
    BY <1>1, <2>1, <2>2
  <2>4. reindex_direct(flush_after(reindex_direct(s, m), m), n) \in Direct
    BY <1>1, <2>1, <2>3
  <2> QED BY <1>1, <2>1, <2>4
<1>3. reindex(s, last) \in {s, reindex_pushed(a, last)}
  BY DEF reindex
<1> HIDE DEF a, no
<1>4. b \in Steady /\ first \in Int
  <2>1. a \in NodeState /\ num[a.head] \in Nat
    BY <1>2, NodeTypes, BlockFacts DEF Direct
  <2>2. b \in NodeState /\ b.undo = a.undo /\ b.pending = a.pending /\ b.popped = a.popped
    BY <1>1, <2>1 DEF NodeState
  <2>3. b \in Direct
    <3> HIDE DEF b
    <3> QED BY <1>2, <2>2 DEF Direct
  <2> QED BY <2>1, <2>3, DirectSteady
<1>5. reindex_pushed(a, last) = reindex_range(FALSE, b, first, last)
  BY DEF reindex_pushed, no
<1>6. reindex_range(FALSE, b, first, last) \in Steady
  <2>1. \A x \in Steady, i \in Int : reindex_one(FALSE, x, i) \in Steady
    BY SteadyOne
  <2> HIDE DEF b, first
  <2> QED BY <1>4, <2>1, ReindexClosed
<1> QED
  BY <1>3, <1>5, <1>6, DirectSteady

-----------------------------------------------------------------------------
(* Closing                                                                 *)

(* A set that popping does not leave.                                      *)
PopsStay(B) ==
  /\ B \subseteq Good
  /\ \A s \in B, t \in Good : Trims(s, t) \/ Popped(s, t) => t \in B

(* One round of close().                                                   *)
LEMMA RewindOneStays ==
  ASSUME NEW B, PopsStay(B), NEW s \in B
  PROVE  rewind_one(s) \in B
<1> DEFINE r == pop_block(s, {})
           f == fork_db!remove(r.fork, s.head)
           t == rewind_one(s)
<1>1. s \in Good /\ s \in NodeState /\ {} \in SUBSET Block
  BY DEF PopsStay, Good
<1>2. /\ r \in NodeState
      /\ \/ ~s.ok /\ r = s
         \/ s.ok /\ ~r.ok /\ Trims(s, r)
         \/ s.ok /\ r.ok /\ Popped(s, r)
  BY <1>1, PopCases
<1>3. t = IF r.ok THEN [r EXCEPT !.fork = f] ELSE r
  BY DEF rewind_one, remove_popped
<1> HIDE DEF r
<1>4. r \in B /\ r \in Good
  <2>1. Trims(s, r) => r \in Good
    BY <1>1, <1>2, GoodTrims
  <2>2. Popped(s, r) => r \in Good
    BY <1>1, <1>2, GoodPopped
  <2> QED BY <1>1, <1>2, <2>1, <2>2 DEF PopsStay
<1>5. CASE ~r.ok
  BY <1>3, <1>4, <1>5
<1>6. CASE r.ok
  <2>1. s.head \in Block
    BY <1>2, <1>6 DEF Popped
  <2>2. f \in fork_db!ForkDB
    BY <1>2, <2>1, NodeTypes, ForkTypes
  <2> HIDE DEF f
  <2>3. [r EXCEPT !.fork = f] \in NodeState /\ Trims(r, [r EXCEPT !.fork = f])
    BY <1>2, <2>2, SetFork
  <2>4. [r EXCEPT !.fork = f] \in B
    BY <1>4, <2>3, GoodTrims DEF PopsStay
  <2> QED BY <1>3, <1>6, <2>4
<1> QED
  BY <1>5, <1>6

(* All rounds of close().                                                  *)
LEMMA RewindStays ==
  ASSUME NEW B, PopsStay(B), NEW s \in B
  PROVE  rewind(s) \in B
<1> DEFINE k == num[s.head] - lib[s.head]
<1>1. s \in NodeState
  BY DEF PopsStay, Good
<1>2. k \in Int
  BY <1>1, NodeTypes, BlockFacts, ChainAssumption
<1>3. PICK n \in Nat : Counts(n, k)
  <2> HIDE DEF k
  <2> QED BY <1>2, Rounds
<1>4. \A a \in B : rewind_one(a) \in B
  BY RewindOneStays
<1>5. PICK p : RewindRun(p, s, n, B) /\ p[n] = rewind(s)
  BY <1>3, <1>4, RewindFold
<1> QED
  BY <1>5 DEF RewindRun

-----------------------------------------------------------------------------
(* The invariant of the node                                               *)

(* The state is well-typed, the undo log leads down the chain of the head  *)
(* and no transaction is pending twice.                                    *)
Inv == TypeOK /\ Leads(undo, head) /\ Fresh(pending, head)

(* The record with which a handler begins.                                 *)
LEMMA RunningFacts ==
  ASSUME Inv
  PROVE  /\ Running \in NodeState /\ Running \in Good /\ Running \in Steady /\ Running.ok
         /\ Running.head = head /\ Running.undo = undo /\ Running.fork = fork
         /\ Running.pending = pending /\ Running.log = log /\ Running.popped = <<>>
         /\ Running.writes = <<>> /\ ~Running.gap /\ Running.flushed = head
<1> DEFINE s == Started(head, log)
           r == Running
<1>1. /\ head \in BlockOrGenesis /\ undo \in Seq(BlockOrGenesis) /\ undo_max \in Nat
      /\ fork \in fork_db!ForkDB /\ pending \in Seq(Tx) /\ log \in block_db!BlockLog
  BY DEF Inv, TypeOK
<1>2. /\ s \in NodeState /\ s.head = head /\ s.popped = <<>> /\ s.log = log
      /\ s.writes = <<>> /\ ~s.gap /\ s.ok /\ s.flushed = head
  BY <1>1, StartedTyped
<1>3. r = [s EXCEPT !.undo = undo, !.undo_max = undo_max, !.fork = fork, !.pending = pending]
  BY DEF Running
<1> HIDE DEF s, r
<1>4. /\ r \in NodeState /\ r.head = s.head /\ r.undo = undo /\ r.fork = fork
      /\ r.pending = pending /\ r.log = s.log /\ r.popped = s.popped
      /\ r.writes = s.writes /\ r.gap = s.gap /\ r.ok = s.ok /\ r.flushed = s.flushed
  BY <1>1, <1>2, <1>3 DEF NodeState
<1>5. r \in Good /\ r \in Steady
  BY <1>2, <1>4 DEF Good, Steady, Inv
<1> QED
  BY <1>2, <1>4, <1>5 DEF r

(* A handler that ends in such a record.                                   *)
LEMMA Becomes ==
  ASSUME NEW s \in Steady, Become(s), flushed' \in BlockOrGenesis,
         status' \in {"open", "closed", "failed"}
  PROVE  Inv'
<1>1. s \in NodeState /\ Leads(s.undo, s.head) /\ Fresh(s.pending, s.head)
  BY DEF Steady, Good
<1>2. TypeOK'
  BY <1>1, NodeTypes DEF TypeOK, Become
<1>3. Leads(undo, head)' /\ Fresh(pending, head)'
  BY <1>1 DEF Leads, Fresh, Included, Become
<1> QED
  BY <1>2, <1>3 DEF Inv

(* A process that has ended.                                               *)
LEMMA Stopped ==
  ASSUME NEW l \in block_db!BlockLog, NEW h \in BlockOrGenesis, Stop(l, h)
  PROVE  Inv'
<1>1. Started(h, l) \in Direct
  BY StartedTyped DEF Direct
<1>2. Started(h, l) \in Steady
  BY <1>1, DirectSteady
<1> QED
  BY <1>2, Becomes DEF Stop

(* The stores of a crash.                                                  *)
LEMMA ReachTyped ==
  ASSUME NEW l \in block_db!BlockLog, NEW w \in Seq(Write), w # <<>>, NEW torn \in BOOLEAN
  PROVE  reach_disk(l, w, torn) \in block_db!BlockLog
<1> DEFINE k == store_all(l, w)
           n == num[Last(w).id]
<1>1. k \in block_db!BlockLog
  <2>1. \A a \in block_db!BlockLog, x \in Write : block_db!store(a, x.id, x.data) \in block_db!BlockLog
    BY StoreTyped DEF Write
  <2>2. PICK p : StoreRun(p, l, w, block_db!BlockLog) /\ p[Len(w)] = store_all(l, w)
    BY <2>1, StoreFold
  <2> QED BY <2>2 DEF StoreRun
<1>2. reach_disk(l, w, torn) \in {k, [k EXCEPT ![n] = NoSlot]}
  BY DEF reach_disk
<1> HIDE DEF k, n
<1>3. [k EXCEPT ![n] = NoSlot] \in block_db!BlockLog
  BY <1>1 DEF block_db!BlockLog, block_db!Slot
<1> QED
  BY <1>1, <1>2, <1>3

(* Pushing a transaction.                                                  *)
LEMMA PushTxSteady ==
  ASSUME NEW s \in Steady, NEW tx \in Tx
  PROVE  LET t == _push_transaction(s, tx)
         IN  t \in Steady /\ t.head = s.head /\ ToSet(s.pending) \subseteq ToSet(t.pending)
<1> DEFINE t == _push_transaction(s, tx)
<1>1. s \in NodeState /\ s \in Good /\ Leads(s.undo, s.head) /\ s.popped = <<>>
      /\ Fresh(s.pending, s.head) /\ s.undo \in Seq(BlockOrGenesis) /\ s.pending \in Seq(Tx)
  BY NodeTypes DEF Steady, Good
<1>2. /\ t \in NodeState /\ SameChain(s, t) /\ t.popped = s.popped
      /\ \E n \in Int : t.undo = Latest(s.undo, n)
      /\ t.pending = IF Applicable(s, tx) THEN Append(s.pending, tx) ELSE s.pending
  BY <1>1, PushTxCases
<1> HIDE DEF t
<1>3. Leads(t.undo, t.head) /\ t.head = s.head
  BY <1>1, <1>2, LeadsLatest DEF SameChain
<1>4. Fresh(t.pending, t.head)
  BY <1>1, <1>2, <1>3, FreshAppend
<1>5. ToSet(s.pending) \subseteq ToSet(t.pending)
  BY <1>1, <1>2, ToSetAppend
<1>6. t \in Steady
  BY <1>1, <1>2, <1>3, <1>4 DEF Steady, Good
<1> QED
  BY <1>3, <1>5, <1>6 DEF t

(* The record with which generate_block pushes its block.                  *)
LEMMA RebuiltGood ==
  ASSUME Inv
  PROVE  LET rebuilt == restore([Running EXCEPT !.pending = <<>>], pending)
             s == [Running EXCEPT !.undo = rebuilt.undo]
         IN  /\ s \in Good /\ s.ok /\ s.head = head /\ s.pending = pending /\ s.log = log
             /\ s.writes = <<>> /\ s.undo \in Seq(BlockOrGenesis) /\ Len(s.undo) <= Len(undo)
             /\ s.fork = fork
<1> DEFINE e == <<>>
           a == [Running EXCEPT !.pending = e]
           r == restore(a, pending)
           u == r.undo
           s == [Running EXCEPT !.undo = u]
<1>1. Running \in NodeState /\ Running \in Good /\ Running.ok /\ e \in Seq(Tx) /\ e = <<>>
  BY RunningFacts
<1>2. /\ Running.head = head /\ Running.pending = pending /\ Running.log = log
      /\ Running.fork = fork /\ Running.writes = <<>> /\ Running.undo = undo
  BY RunningFacts
<1> HIDE DEF e
<1>3. a \in NodeState /\ a.undo = undo /\ a.head = head /\ a.pending = e
  BY <1>1, <1>2 DEF NodeState
<1>4. a \in Good
  <2> HIDE DEF a
  <2> QED BY <1>3 DEF Good, Inv
<1>5. pending \in Seq(Tx)
  BY DEF Inv, TypeOK
<1>6. r \in Restoring(a)
  <2> HIDE DEF a
  <2> QED BY <1>1, <1>3, <1>4, <1>5, RestoreResult
<1> HIDE DEF a, r
<1>7. u \in Seq(BlockOrGenesis) /\ Leads(u, head) /\ Len(u) <= Len(undo)
  BY <1>3, <1>6, NodeTypes DEF Restoring, Good, SameChain
<1> SUFFICES /\ s \in Good /\ s.ok /\ s.head = head /\ s.pending = pending /\ s.log = log
             /\ s.writes = <<>> /\ s.undo \in Seq(BlockOrGenesis) /\ Len(s.undo) <= Len(undo)
             /\ s.fork = fork
  BY DEF r, a, e
<1> HIDE DEF u
<1>8. /\ s \in NodeState /\ s.ok = Running.ok /\ s.head = Running.head /\ s.pending = Running.pending
      /\ s.log = Running.log /\ s.writes = Running.writes /\ s.undo = u /\ s.fork = Running.fork
  <2> DEFINE x == Running
  <2> HIDE DEF x
  <2>1. x \in NodeState
    BY <1>1 DEF x
  <2>2. LET y == [x EXCEPT !.undo = u]
        IN  /\ y \in NodeState /\ y.ok = x.ok /\ y.head = x.head /\ y.pending = x.pending
            /\ y.log = x.log /\ y.writes = x.writes /\ y.undo = u /\ y.fork = x.fork
    BY <1>7, <2>1 DEF NodeState
  <2> QED BY <2>2 DEF x
<1> HIDE DEF s
<1>9. s \in Good
  BY <1>2, <1>7, <1>8 DEF Good
<1> QED
  BY <1>1, <1>2, <1>7, <1>8, <1>9

(* The number of the last block of the log.                                *)
LEMMA LastNumTyped ==
  ASSUME NEW l
  PROVE  /\ block_db!LastNum(l) \in Int /\ block_db!LastNum(l) >= 0
         /\ \A n \in 1 .. MaxNum : block_db!Readable(l, n) => n <= block_db!LastNum(l)
         /\ block_db!LastNum(l) > 0 =>
              block_db!LastNum(l) \in 1 .. MaxNum /\ block_db!Readable(l, block_db!LastNum(l))
<1> DEFINE S == {n \in 1 .. MaxNum : block_db!Readable(l, n)}
           k == block_db!LastNum(l)
<1>0. MaxNum \in Nat
  BY ChainAssumption
<1>1. k = IF S = {} THEN 0 ELSE CHOOSE n \in S : \A m \in S : m <= n
  BY DEF block_db!LastNum
<1>2. CASE S = {}
  BY <1>1, <1>2
<1>3. CASE S # {}
  <2>1. S \subseteq 1 .. MaxNum /\ S \subseteq Int
    OBVIOUS
  <2>2. IsFiniteSet(S) /\ S \subseteq Int
    <3>1. IsFiniteSet(1 .. MaxNum)
      BY <1>0, FS_Interval
    <3> HIDE DEF S
    <3> QED BY <2>1, <3>1, FS_Subset
  <2>3. \E n \in S : \A m \in S : m <= n
    <3> HIDE DEF S
    <3> QED BY <1>3, <2>2, FiniteMaximum
  <2>4. k \in S /\ \A m \in S : m <= k
    <3> HIDE DEF S, k
    <3> QED BY <1>1, <1>3, <2>3
  <2> QED BY <1>0, <2>4
<1> QED
  BY <1>2, <1>3

(* What a handler of a running node does to the transactions.              *)
KeepStep ==
  \A tx \in ToSet(pending) \cup Included(head) :
    /\ status = "open" /\ status' = "open"
    /\ num[head'] < expiration[tx]
    /\ ref_block[tx] \in ToSet(Path[head']) \cup {Genesis}
    => tx \in ToSet(pending') \cup Included(head')

(* A block that is pushed onto a record with the transactions and the head *)
(* of the node.                                                            *)
LEMMA PushStep ==
  ASSUME Inv, NEW s \in Good, s.ok, s.head = head, s.pending = pending, NEW b \in Block,
         Become(push_block(s, b)), UNCHANGED <<flushed, status>>
  PROVE  Inv' /\ KeepStep
<1> DEFINE t == push_block(s, b)
<1>1. t \in Good /\ Pushed(s, Inner(s, b), t)
  BY PushGood
<1>2. \A tx \in ToSet(s.pending) \cup Included(s.head) :
        Lives(t.head, tx) => tx \in ToSet(t.pending) \cup Included(t.head)
  BY PushKeeps
<1> HIDE DEF t
<1>3. Become(t)
  BY DEF t
<1>4. t \in Steady
  BY <1>1 DEF Pushed, Steady
<1>5. Inv'
  BY <1>3, <1>4, Becomes DEF Inv, TypeOK
<1>6. KeepStep
  BY <1>2, <1>3 DEF KeepStep, Become, Lives
<1> QED
  BY <1>5, <1>6

(* Every step keeps the invariant and the transactions.                    *)
LEMMA StepKeeps ==
  ASSUME Inv, Next
  PROVE  Inv' /\ KeepStep
<1>0. /\ head \in BlockOrGenesis /\ log \in block_db!BlockLog /\ flushed \in BlockOrGenesis
      /\ status \in {"open", "closed", "failed"}
  BY DEF Inv, TypeOK
<1>1. ASSUME NEW b \in Block, PushBlock(b) PROVE Inv' /\ KeepStep
  <2> DEFINE s == Running
  <2>1. s \in Good /\ s.ok /\ s.head = head /\ s.pending = pending
    BY RunningFacts
  <2>2. Become(push_block(s, b)) /\ UNCHANGED <<flushed, status>>
    BY <1>1 DEF PushBlock
  <2> HIDE DEF s
  <2> QED BY <2>1, <2>2, PushStep
<1>2. ASSUME NEW tx \in Tx, PushTransaction(tx) PROVE Inv' /\ KeepStep
  <2> DEFINE s == Running
             t == _push_transaction(s, tx)
  <2>1. s \in Steady /\ s.head = head /\ s.pending = pending
    BY RunningFacts
  <2>2. t \in Steady /\ t.head = s.head /\ ToSet(s.pending) \subseteq ToSet(t.pending)
    <3> HIDE DEF s
    <3> QED BY <2>1, PushTxSteady
  <2>3. Become(t) /\ UNCHANGED <<flushed, status>>
    BY <1>2 DEF PushTransaction
  <2> HIDE DEF s, t
  <2>4. Inv'
    BY <1>0, <2>2, <2>3, Becomes
  <2>5. KeepStep
    BY <2>1, <2>2, <2>3 DEF KeepStep, Become
  <2> QED BY <2>4, <2>5
<1>3. ASSUME NEW b \in Block, GenerateBlock(b) PROVE Inv' /\ KeepStep
  <2> DEFINE rebuilt == restore([Running EXCEPT !.pending = <<>>], pending)
             s == [Running EXCEPT !.undo = rebuilt.undo]
  <2>1. s \in Good /\ s.ok /\ s.head = head /\ s.pending = pending
    BY RebuiltGood
  <2>2. Become(push_block(s, b)) /\ UNCHANGED <<flushed, status>>
    BY <1>3 DEF GenerateBlock
  <2> HIDE DEF s
  <2> QED BY <2>1, <2>2, PushStep
<1>4. ASSUME NEW l \in block_db!BlockLog, NEW h \in BlockOrGenesis, Stop(l, h)
      PROVE  Inv' /\ KeepStep
  BY <1>4, Stopped DEF Stop, KeepStep
<1>5. CASE Close
  <2> DEFINE s == [Running EXCEPT !.pending = <<>>]
             h == rewind(s).head
  <2>1. s \in Good
    BY RunningFacts, EmptiedClosed DEF Emptied
  <2>2. PopsStay(Good)
    BY GoodClosed DEF Closed, PopsStay
  <2>3. rewind(s) \in Good
    <3> HIDE DEF s
    <3> QED BY <2>1, <2>2, RewindStays
  <2>4. h \in BlockOrGenesis /\ Stop(log, h)
    BY <1>5, <2>3, NodeTypes DEF Good, Close
  <2> HIDE DEF h
  <2> QED BY <1>0, <1>4, <2>4
<1>6. CASE Crash
  BY <1>0, <1>4, <1>6 DEF Crash
<1>7. ASSUME NEW b \in Block, CrashInPush(b) PROVE Inv' /\ KeepStep
  <2> DEFINE w == push_block(Running, b).writes
  <2>1. w \in Seq(Write)
    <3>1. push_block(Running, b) \in Good
      BY RunningFacts, PushGood
    <3> QED BY <3>1, NodeTypes DEF Good
  <2>2. PICK k \in 1 .. Len(w), torn \in BOOLEAN :
          Stop(reach_disk(log, SubSeq(w, 1, k), torn), flushed)
    BY <1>7 DEF CrashInPush
  <2> HIDE DEF w
  <2> DEFINE v == SubSeq(w, 1, k)
             l == reach_disk(log, v, torn)
  <2>3. k \in Nat /\ k <= Len(w) /\ k > 0
    BY <2>1, <2>2
  <2>4. v \in Seq(Write) /\ Len(v) = k
    BY <2>1, <2>3, SubSeqPrefix
  <2> HIDE DEF v
  <2>5. v # <<>>
    BY <2>3, <2>4
  <2>6. l \in block_db!BlockLog
    BY <1>0, <2>2, <2>4, <2>5, ReachTyped
  <2>7. Stop(l, flushed)
    BY <2>2 DEF v
  <2> HIDE DEF l
  <2> QED BY <1>0, <1>4, <2>6, <2>7
<1>8. ASSUME NEW wipe \in BOOLEAN, Open(wipe) PROVE Inv' /\ KeepStep
  <2> DEFINE h == IF wipe THEN Genesis ELSE flushed
             l == block_db!last_index_entry(log)
             s == Started(h, l)
             no == FALSE
  <2>1. status # "open" /\ \E t \in {reindex(s, block_db!LastNum(l)), [s EXCEPT !.ok = no]} : Opened(t)
    BY <1>8 DEF Open
  <2>2. h \in BlockOrGenesis /\ l \in block_db!BlockLog /\ no \in BOOLEAN
    BY <1>0, LogTyped, BlockFacts
  <2>3. block_db!LastNum(l) \in Int
    <3> HIDE DEF l
    <3> QED BY LastNumTyped
  <2> HIDE DEF h, l, no
  <2>4. s \in Direct /\ s \in NodeState
    BY <2>2, StartedTyped DEF Direct
  <2>5. reindex(s, block_db!LastNum(l)) \in Steady
    <3> HIDE DEF s
    <3> QED BY <2>3, <2>4, ReindexSteady
  <2>6. [s EXCEPT !.ok = no] \in Steady
    <3> HIDE DEF s
    <3> DEFINE u == [s EXCEPT !.ok = no]
    <3>1. u \in NodeState /\ u.undo = s.undo /\ u.pending = s.pending /\ u.popped = s.popped
      BY <2>2, <2>4 DEF NodeState
    <3> HIDE DEF u
    <3>2. u \in Direct
      BY <2>4, <3>1 DEF Direct
    <3> QED BY <3>2, DirectSteady DEF u
  <2>7. PICK t \in Steady : Opened(t)
    <3> HIDE DEF s
    <3> QED BY <2>1, <2>5, <2>6
  <2>8. t \in NodeState /\ t.flushed \in BlockOrGenesis /\ t.log \in block_db!BlockLog
    BY NodeTypes DEF Steady, Good
  <2>9. Started(t.flushed, t.log) \in Steady
    BY <2>8, StartedTyped, DirectSteady DEF Direct
  <2> DEFINE r == IF t.ok THEN t ELSE Started(t.flushed, t.log)
  <2>10. r \in Steady /\ Become(r) /\ flushed' \in BlockOrGenesis
         /\ status' \in {"open", "closed", "failed"}
    BY <2>7, <2>8, <2>9 DEF Opened
  <2> HIDE DEF r
  <2>11. Inv'
    BY <2>10, Becomes
  <2> QED BY <2>1, <2>11 DEF KeepStep
<1>9. CASE Resync
  <2>1. EmptyLog \in block_db!BlockLog
    BY DEF EmptyLog, block_db!BlockLog, block_db!Slot
  <2>2. Stop(EmptyLog, Genesis)
    BY <1>9 DEF Resync
  <2> QED BY <1>4, <2>1, <2>2, BlockFacts
<1> QED
  BY <1>1, <1>2, <1>3, <1>5, <1>6, <1>7, <1>8, <1>9 DEF Next

(* The invariant holds initially.                                          *)
LEMMA InitInv == Init => Inv
<1> SUFFICES ASSUME Init PROVE Inv
  OBVIOUS
<1> DEFINE s == Started(Genesis, EmptyLog)
<1>1. EmptyLog \in block_db!BlockLog /\ Genesis \in BlockOrGenesis
  BY BlockFacts DEF EmptyLog, block_db!BlockLog, block_db!Slot
<1>2. s \in Direct /\ s \in NodeState
  BY <1>1, StartedTyped DEF Direct
<1>3. s \in Steady
  BY <1>2, DirectSteady
<1>4. head = s.head /\ undo = s.undo /\ undo_max = s.undo_max
      /\ fork = s.fork /\ pending = s.pending /\ log = s.log
      /\ flushed = Genesis /\ status = "open"
  BY DEF Init
<1> HIDE DEF s
<1>5. TypeOK
  BY <1>1, <1>2, <1>4, NodeTypes DEF TypeOK
<1>6. Leads(undo, head) /\ Fresh(pending, head)
  BY <1>3, <1>4 DEF Steady, Good
<1> QED
  BY <1>5, <1>6 DEF Inv

(* It is inductive.                                                        *)
LEMMA NextInv == Inv /\ [Next]_vars => Inv'
<1> SUFFICES ASSUME Inv, [Next]_vars PROVE Inv'
  OBVIOUS
<1>1. CASE Next
  BY <1>1, StepKeeps
<1>2. CASE UNCHANGED vars
  BY <1>2 DEF vars, Inv, TypeOK, Leads, Fresh, Included
<1> QED
  BY <1>1, <1>2

(* So it holds of every state.                                             *)
LEMMA Invariance == Spec => []Inv
BY InitInv, NextInv, PTL DEF Spec

(***************************************************************************)
(* Type correctness: whatever blocks and transactions arrive, and wherever *)
(* the process crashes, the object store, the undo log, the fork database  *)
(* and the block log keep the shape their declarations give them.          *)
(***************************************************************************)
THEOREM TypeCorrect == Spec => []TypeOK
<1>1. Inv => TypeOK
  BY DEF Inv
<1> QED
  BY <1>1, Invariance, PTL

(***************************************************************************)
(* The undo states lead back down the current chain block by block: after  *)
(* every push, fork switch, failed switch, replay or crash, pop_block      *)
(* lands on the parent of the head.                                        *)
(***************************************************************************)
THEOREM UndoAlongChain == Spec => []UndoMatchesChain
<1>1. Inv => UndoMatchesChain
  <2> SUFFICES ASSUME Inv PROVE UndoMatchesChain
    OBVIOUS
  <2>1. /\ undo \in Seq(BlockOrGenesis) /\ head \in BlockOrGenesis /\ Leads(undo, head)
        /\ Len(Path[head]) = num[head] /\ num[head] \in Nat /\ Len(undo) \in Nat
    BY PathShapes, BlockFacts DEF Inv, TypeOK, PathShape
  <2>2. /\ Len(undo) <= num[head]
        /\ \A k \in 1 .. Len(undo) : undo[k] = At(head, num[head] - Len(undo) + k - 1)
    BY <2>1, LeadsPath
  <2>3. ASSUME NEW k \in 1 .. Len(undo)
        PROVE  undo[k] = (<<Genesis>> \o Path[head])[Len(Path[head]) - Len(undo) + k]
    <3> DEFINE j == num[head] - Len(undo) + k - 1
    <3>1. j + 1 = Len(Path[head]) - Len(undo) + k
      BY <2>1
    <3>2. undo[k] = (<<Genesis>> \o Path[head])[j + 1]
      BY <2>2 DEF At
    <3> HIDE DEF j
    <3> QED BY <3>1, <3>2
  <2> QED BY <2>2, <2>3 DEF UndoMatchesChain
<1> QED
  BY <1>1, Invariance, PTL

(***************************************************************************)
(* No transaction is pending twice, or pending and in the chain, after any *)
(* mixture of pushes, switches and restores.                               *)
(***************************************************************************)
THEOREM PendingOnce == Spec => []PendingFresh
<1>1. Inv => PendingFresh
  BY DEF Inv, Fresh, PendingFresh
<1> QED
  BY <1>1, Invariance, PTL

(***************************************************************************)
(* No handler loses a transaction: one that was pending or in a block of   *)
(* the chain is still one or the other afterwards, unless it has expired   *)
(* or refers to a block that is no longer in the chain.                    *)
(***************************************************************************)
THEOREM TransactionsKept == Spec => NoTransactionLost
<1>1. Inv /\ [Next]_vars => [KeepStep]_vars
  BY StepKeeps
<1> QED
  BY <1>1, Invariance, PTL DEF Spec, NoTransactionLost, KeepStep

-----------------------------------------------------------------------------
(* The block log, when every block applies on the chain it builds on       *)

(* The log l holds the chain of h.                                         *)
Matched(l, h) ==
  \A n \in 1 .. num[h] : block_db!Readable(l, n) /\ l[n].data = Path[h][n]

(* A block that can be read is stored under its number.                    *)
Numbered(l) == \A n \in 1 .. MaxNum : block_db!Readable(l, n) => num[l[n].data] = n

(* The object store on disk is the state of a block fl of the chain of h,  *)
(* and the undo log u does not reach below it.                             *)
Anchored(fl, h, u) ==
  /\ fl = Genesis \/ (num[fl] \in 1 .. num[h] /\ Path[h][num[fl]] = fl)
  /\ Len(u) <= num[h] - num[fl]

(* The stores of blocks above fl under their own id.                       *)
Above(fl) == {w \in Write : w.id = w.data /\ num[w.id] > num[fl]}

(* The records in which all this holds.                                    *)
Matching(fl) ==
  {s \in Emptied : /\ Matched(s.log, s.head) /\ Numbered(s.log)
                   /\ Anchored(fl, s.head, s.undo)
                   /\ s.writes \in Seq(Above(fl))}

(* A store of a block under its own id.                                    *)
LEMMA StoreReads ==
  ASSUME NEW l \in block_db!BlockLog, NEW b \in Block
  PROVE  LET k == block_db!store(l, b, b)
         IN  /\ block_db!Readable(k, num[b]) /\ k[num[b]].data = b /\ num[b] \in 1 .. MaxNum
             /\ \A n \in Int : n # num[b] =>
                  /\ block_db!Readable(k, n) <=> block_db!Readable(l, n)
                  /\ block_db!Readable(l, n) => k[n].data = l[n].data
             /\ Numbered(l) => Numbered(k)
<1> DEFINE k == block_db!store(l, b, b)
           w == [id |-> b, data |-> b]
<1>1. /\ k \in block_db!BlockLog /\ num[b] \in 1 .. MaxNum /\ k[num[b]] = w
      /\ \A n \in 1 .. MaxNum : n # num[b] => k[n] = l[n]
  BY StoreTyped
<1>2. w # NoSlot
  BY ChainAssumption
<1>3. w.id = b /\ w.data = b
  OBVIOUS
<1> HIDE DEF k, w
<1>4. block_db!Readable(k, num[b]) /\ k[num[b]].data = b
  BY <1>1, <1>2, <1>3 DEF block_db!Readable
<1>5. ASSUME NEW n \in Int, n # num[b]
      PROVE  /\ block_db!Readable(k, n) <=> block_db!Readable(l, n)
             /\ block_db!Readable(l, n) => k[n].data = l[n].data
  BY <1>1, <1>5 DEF block_db!Readable
<1>6. Numbered(l) => Numbered(k)
  BY <1>4, <1>5 DEF Numbered
<1> QED
  BY <1>1, <1>4, <1>5, <1>6 DEF k

(* The log of a chain with one block more, and with one less.              *)
LEMMA MatchedStep ==
  ASSUME NEW l \in block_db!BlockLog, NEW b \in Block
  PROVE  /\ Matched(l, previous[b]) => Matched(block_db!store(l, b, b), b)
         /\ Matched(l, previous[b]) /\ block_db!Readable(l, num[b]) /\ l[num[b]].data = b
              => Matched(l, b)
         /\ Matched(l, b) => Matched(l, previous[b])
<1> DEFINE a == previous[b]
           k == block_db!store(l, b, b)
<1>1. /\ num[a] \in Nat /\ num[b] = num[a] + 1 /\ Path[b][num[b]] = b
      /\ \A n \in 1 .. num[a] : Path[b][n] = Path[a][n]
  BY PathEnd, BlockFacts
<1>2. \A n \in 1 .. num[b] : n = num[b] \/ (n \in 1 .. num[a] /\ n # num[b] /\ n \in Int)
  BY <1>1
<1>3. 1 .. num[a] \subseteq 1 .. num[b]
  BY <1>1
<1>4. /\ block_db!Readable(k, num[b]) /\ k[num[b]].data = b
      /\ \A n \in Int : n # num[b] =>
           /\ block_db!Readable(k, n) <=> block_db!Readable(l, n)
           /\ block_db!Readable(l, n) => k[n].data = l[n].data
  BY StoreReads
<1> HIDE DEF a, k
<1>5. Matched(l, a) => Matched(k, b)
  <2> SUFFICES ASSUME Matched(l, a), NEW n \in 1 .. num[b]
               PROVE  block_db!Readable(k, n) /\ k[n].data = Path[b][n]
    BY DEF Matched
  <2>1. CASE n = num[b]
    BY <1>1, <1>4, <2>1
  <2>2. CASE n \in 1 .. num[a] /\ n # num[b] /\ n \in Int
    BY <1>1, <1>4, <2>2 DEF Matched
  <2> QED BY <1>2, <2>1, <2>2
<1>6. Matched(l, a) /\ block_db!Readable(l, num[b]) /\ l[num[b]].data = b => Matched(l, b)
  BY <1>1, <1>2 DEF Matched
<1>7. Matched(l, b) => Matched(l, a)
  BY <1>1, <1>3 DEF Matched
<1> QED
  BY <1>5, <1>6, <1>7 DEF a, k

(* The anchor of a chain with one block more, and with one less.           *)
LEMMA AnchoredStep ==
  ASSUME NEW fl \in BlockOrGenesis, NEW b \in Block, NEW u, NEW v,
         Len(u) \in Nat, Len(v) \in Nat
  PROVE  /\ Anchored(fl, previous[b], u) /\ Len(v) <= Len(u) + 1 => Anchored(fl, b, v)
         /\ Anchored(fl, b, u) /\ Len(v) = Len(u) - 1 => Anchored(fl, previous[b], v)
<1> DEFINE a == previous[b]
<1>1. /\ num[a] \in Nat /\ num[b] = num[a] + 1 /\ num[fl] \in Nat
      /\ \A n \in 1 .. num[a] : Path[b][n] = Path[a][n]
  BY PathEnd, BlockFacts
<1> HIDE DEF a
<1>2. Anchored(fl, a, u) /\ Len(v) <= Len(u) + 1 => Anchored(fl, b, v)
  <2> SUFFICES ASSUME Anchored(fl, a, u), Len(v) <= Len(u) + 1 PROVE Anchored(fl, b, v)
    OBVIOUS
  <2>1. Len(v) <= num[b] - num[fl]
    BY <1>1 DEF Anchored
  <2>2. num[fl] \in 1 .. num[a] => num[fl] \in 1 .. num[b]
    BY <1>1
  <2> QED BY <1>1, <2>1, <2>2 DEF Anchored
<1>3. Anchored(fl, b, u) /\ Len(v) = Len(u) - 1 => Anchored(fl, a, v)
  <2> SUFFICES ASSUME Anchored(fl, b, u), Len(v) = Len(u) - 1 PROVE Anchored(fl, a, v)
    OBVIOUS
  <2>1. Len(v) <= num[a] - num[fl] /\ num[fl] <= num[a]
    BY <1>1 DEF Anchored
  <2>2. num[fl] \in 1 .. num[b] => num[fl] \in 1 .. num[a]
    BY <1>1, <2>1
  <2> QED BY <1>1, <2>1, <2>2 DEF Anchored
<1> QED
  BY <1>2, <1>3 DEF a

(* The elementary steps keep them.                                         *)
LEMMA MatchingClosed ==
  ASSUME NEW fl \in BlockOrGenesis
  PROVE  Closed(Matching(fl)) /\ \A s \in Matching(fl) : s.pending = <<>>
<1> DEFINE B == Matching(fl)
<1>1. B \subseteq Good /\ \A s \in B : s.pending = <<>>
  BY DEF Matching, Emptied
<1>0. ASSUME NEW s \in B
      PROVE  /\ s \in NodeState /\ s.undo \in Seq(BlockOrGenesis) /\ Len(s.undo) \in Nat
             /\ s.log \in block_db!BlockLog /\ s.head \in BlockOrGenesis
             /\ Matched(s.log, s.head) /\ Numbered(s.log) /\ Anchored(fl, s.head, s.undo)
             /\ s.writes \in Seq(Above(fl)) /\ num[s.head] \in Nat /\ num[fl] \in Nat
  <2>1. s \in NodeState
    BY DEF Matching, Emptied, Good
  <2>2. /\ s.undo \in Seq(BlockOrGenesis) /\ s.log \in block_db!BlockLog /\ s.head \in BlockOrGenesis
    BY <2>1, NodeTypes
  <2>3. Len(s.undo) \in Nat /\ num[s.head] \in Nat /\ num[fl] \in Nat
    BY <2>2, BlockFacts
  <2> QED BY <2>1, <2>2, <2>3 DEF Matching
<1>2. ASSUME NEW s \in B, NEW t \in Good, Trims(s, t) PROVE t \in B
  <2>1. PICK n \in Int : t.undo = Latest(s.undo, n)
    BY <1>2 DEF Trims
  <2>2. Len(t.undo) <= Len(s.undo) /\ Len(t.undo) \in Nat
    BY <1>0, <2>1, LatestSuffix
  <2>3. t.head = s.head /\ t.log = s.log /\ t.writes = s.writes /\ t.pending = s.pending
    BY <1>2 DEF Trims, Frame
  <2>4. Anchored(fl, t.head, t.undo)
    <3>1. Len(t.undo) <= num[t.head] - num[fl]
      BY <1>0, <2>2, <2>3 DEF Anchored
    <3> QED BY <1>0, <2>3, <3>1 DEF Anchored
  <2> QED BY <1>0, <1>1, <2>3, <2>4 DEF Matching, Emptied
<1>3. ASSUME NEW s \in B, NEW t \in Good, NEW b \in Block, Applied(s, b, b, t) PROVE t \in B
  <2> DEFINE w == [id |-> b, data |-> b]
  <2>1. /\ previous[b] = s.head /\ t.head = b /\ t.log = block_db!store(s.log, b, b)
        /\ t.writes = Append(s.writes, w) /\ t.pending = s.pending
    BY <1>3 DEF Applied, BlockApplies
  <2>2. PICK n \in Int : t.undo = Append(Latest(s.undo, n), s.head)
    BY <1>3 DEF Applied
  <2>3. Len(t.undo) <= Len(s.undo) + 1 /\ Len(t.undo) \in Nat
    <3>1. Latest(s.undo, n) \in Seq(BlockOrGenesis) /\ Len(Latest(s.undo, n)) <= Len(s.undo)
      BY <1>0, LatestSuffix
    <3>2. Len(t.undo) = Len(Latest(s.undo, n)) + 1 /\ Len(Latest(s.undo, n)) \in Nat
      BY <1>0, <2>2, <3>1
    <3> QED BY <1>0, <3>1, <3>2
  <2>4. Matched(t.log, t.head) /\ Numbered(t.log)
    BY <1>0, <2>1, MatchedStep, StoreReads
  <2>5. Anchored(fl, t.head, t.undo)
    BY <1>0, <2>1, <2>3, AnchoredStep
  <2>6. num[b] > num[fl]
    <3>1. num[b] = num[s.head] + 1
      BY <2>1, BlockFacts
    <3>2. num[s.head] >= num[fl]
      BY <1>0 DEF Anchored
    <3> QED BY <1>0, <3>1, <3>2
  <2>7. w \in Above(fl)
    BY <2>6 DEF Above, Write
  <2>8. t.writes \in Seq(Above(fl))
    <3> HIDE DEF w
    <3> QED BY <1>0, <2>1, <2>7
  <2> QED BY <1>1, <2>1, <2>4, <2>5, <2>8 DEF Matching, Emptied
<1>4. ASSUME NEW s \in B, NEW t \in Good, Popped(s, t) PROVE t \in B
  <2>1. t.head = previous[s.head] /\ s.head \in Block
    BY <1>0, <1>1, <1>4, GoodPopped DEF Good
  <2>2. /\ s.undo # <<>> /\ t.undo = Front(s.undo) /\ t.log = s.log /\ t.writes = s.writes
        /\ t.pending = s.pending
    BY <1>4 DEF Popped
  <2>3. Len(t.undo) = Len(s.undo) - 1 /\ Len(t.undo) \in Nat
    <3>1. t.undo \in Seq(BlockOrGenesis)
      BY NodeTypes DEF Good
    <3>2. Len(Front(s.undo)) = Len(s.undo) - 1
      BY <1>0, <2>2, FrontLast
    <3> QED BY <2>2, <3>1, <3>2
  <2>4. Matched(t.log, t.head)
    BY <1>0, <2>1, <2>2, MatchedStep
  <2>5. Anchored(fl, t.head, t.undo)
    BY <1>0, <2>1, <2>3, AnchoredStep
  <2> QED BY <1>0, <1>1, <2>2, <2>4, <2>5 DEF Matching, Emptied
<1> QED
  BY <1>1, <1>2, <1>3, <1>4 DEF Closed

(* The log l of which what lies behind a gap may have been cut off.        *)
Stem(l, k) ==
  \A n \in 1 .. MaxNum :
    k[n] = l[n] \/ (k[n] = NoSlot /\ \E i \in 1 .. n : ~block_db!Readable(l, i))

(* What can be read of it can be read of l; and if all up to n can be read *)
(* and n + 1 cannot, the same holds of l.                                  *)
LEMMA StemFacts ==
  ASSUME NEW l \in block_db!BlockLog, NEW k \in block_db!BlockLog, Stem(l, k)
  PROVE  /\ \A n \in Int : block_db!Readable(k, n) => block_db!Readable(l, n) /\ k[n] = l[n]
         /\ Numbered(l) => Numbered(k)
         /\ \A m \in Nat : (\A n \in 1 .. m : block_db!Readable(k, n)) /\ ~block_db!Readable(k, m + 1)
              => ~block_db!Readable(l, m + 1)
<1>1. ASSUME NEW n \in Int, block_db!Readable(k, n)
      PROVE  block_db!Readable(l, n) /\ k[n] = l[n]
  BY <1>1 DEF block_db!Readable, Stem
<1>2. Numbered(l) => Numbered(k)
  BY <1>1 DEF Numbered
<1>3. ASSUME NEW m \in Nat, \A n \in 1 .. m : block_db!Readable(k, n),
             ~block_db!Readable(k, m + 1), block_db!Readable(l, m + 1)
      PROVE  FALSE
  <2>1. m + 1 \in 1 .. MaxNum /\ k[m + 1] # l[m + 1]
    BY <1>3 DEF block_db!Readable
  <2>2. PICK i \in 1 .. m + 1 : ~block_db!Readable(l, i)
    BY <2>1 DEF Stem
  <2>3. i \in 1 .. m
    BY <1>3, <2>2
  <2> QED BY <1>1, <1>3, <2>2, <2>3
<1> QED
  BY <1>1, <1>2, <1>3

(* Cutting it off at the first gap.                                        *)
LEMMA StemCut ==
  ASSUME NEW l \in block_db!BlockLog, NEW k \in block_db!BlockLog, Stem(l, k),
         NEW m \in Nat, \A n \in 1 .. m : block_db!Readable(k, n), ~block_db!Readable(k, m + 1)
  PROVE  LET c == cutoff_blocks(k, m + 1)
         IN  /\ Stem(l, c) /\ ~block_db!Readable(c, m + 1)
             /\ \A n \in 1 .. m : block_db!Readable(c, n) /\ c[n] = k[n]
<1> DEFINE c == cutoff_blocks(k, m + 1)
<1>0. ~block_db!Readable(l, m + 1)
  BY StemFacts
<1>1. \A n \in 1 .. MaxNum : c[n] = IF n < m + 1 THEN k[n] ELSE NoSlot
  BY DEF cutoff_blocks
<1> HIDE DEF c
<1>2. ASSUME NEW n \in 1 .. MaxNum
      PROVE  c[n] = l[n] \/ (c[n] = NoSlot /\ \E i \in 1 .. n : ~block_db!Readable(l, i))
  <2>1. CASE n < m + 1
    BY <1>1, <2>1 DEF Stem
  <2>2. CASE ~(n < m + 1)
    <3>1. m + 1 \in 1 .. n
      BY <2>2
    <3> QED BY <1>0, <1>1, <2>2, <3>1
  <2> QED BY <2>1, <2>2
<1>3. ~block_db!Readable(c, m + 1)
  BY <1>1 DEF block_db!Readable
<1>4. ASSUME NEW n \in 1 .. m PROVE block_db!Readable(c, n) /\ c[n] = k[n]
  <2>1. block_db!Readable(k, n) /\ n < m + 1
    OBVIOUS
  <2>2. n \in 1 .. MaxNum
    BY <2>1 DEF block_db!Readable
  <2>3. c[n] = k[n]
    BY <1>1, <2>1, <2>2
  <2> QED BY <2>1, <2>3 DEF block_db!Readable
<1> QED
  BY <1>2, <1>3, <1>4 DEF Stem, c

(* The records of a replay of the log l.                                   *)
Replaying(l, s) ==
  /\ Stem(l, s.log) /\ Matched(s.log, s.head)
  /\ Anchored(s.flushed, s.head, s.undo)
  /\ s.gap => ~block_db!Readable(s.log, num[s.head] + 1)
  /\ ~s.ok => Torn(s.log)

(* A block that does not build on the one before it.                       *)
LEMMA TornAt ==
  ASSUME NEW l \in block_db!BlockLog, NEW h \in BlockOrGenesis, Matched(l, h), Numbered(l),
         block_db!Readable(l, num[h] + 1)
  PROVE  LET b == l[num[h] + 1].data
         IN  /\ b \in Block /\ num[b] = num[h] + 1
             /\ previous[b] # h => Torn(l) /\ h \in Block /\ previous[b] # Genesis
<1> DEFINE m == num[h]
           b == l[m + 1].data
<1>1. m \in Nat /\ m + 1 \in Int /\ m + 1 \in 1 .. MaxNum
  BY BlockFacts DEF block_db!Readable
<1>2. b \in Block /\ num[b] = m + 1
  BY <1>1, LogTyped DEF Numbered
<1>3. ASSUME previous[b] # h PROVE Torn(l) /\ h \in Block /\ previous[b] # Genesis
  <2>1. previous[b] \in BlockOrGenesis /\ num[previous[b]] = m
    BY <1>1, <1>2, BlockFacts
  <2>2. h \in Block /\ previous[b] # Genesis
    <3>1. CASE m = 0
      BY <1>3, <2>1, <3>1, BlockFacts
    <3>2. CASE m # 0
      BY <2>1, <3>2, BlockFacts
    <3> QED BY <3>1, <3>2
  <2>3. m \in 1 .. m /\ Path[h][m] = h
    BY <2>2, PathEnd
  <2>4. block_db!Readable(l, m) /\ l[m].data = h
    BY <2>3 DEF Matched
  <2>5. m + 1 \in 2 .. MaxNum /\ (m + 1) - 1 = m
    BY <1>1, <2>3
  <2> QED BY <1>3, <2>2, <2>4, <2>5 DEF Torn
<1> QED
  BY <1>2, <1>3

(* A gap ends a replay where it is.                                        *)
LEMMA CutReplays ==
  ASSUME NEW l \in block_db!BlockLog, NEW s \in NodeState, Replaying(l, s), s.ok,
         NEW t \in NodeState, Cut(s, num[s.head] + 1, t),
         ~block_db!Readable(s.log, num[s.head] + 1)
  PROVE  Replaying(l, t) /\ t.gap
<1> DEFINE m == num[s.head]
           c == cutoff_blocks(s.log, m + 1)
<1>1. m \in Nat /\ s.log \in block_db!BlockLog
  BY NodeTypes, BlockFacts
<1>2. \A n \in 1 .. m : block_db!Readable(s.log, n) /\ s.log[n].data = Path[s.head][n]
  BY DEF Replaying, Matched
<1>3. /\ Stem(l, c) /\ ~block_db!Readable(c, m + 1)
      /\ \A n \in 1 .. m : block_db!Readable(c, n) /\ c[n] = s.log[n]
  <2> HIDE DEF m
  <2>1. Stem(l, s.log) /\ ~block_db!Readable(s.log, m + 1)
    BY DEF Replaying, m
  <2> QED BY <1>1, <1>2, <2>1, StemCut
<1>4. /\ t.undo = s.undo /\ t.log = c /\ t.flushed = s.flushed /\ t.gap
      /\ t.ok = s.ok /\ t.head = s.head
  BY DEF Cut
<1> HIDE DEF c
<1>5. Matched(t.log, t.head)
  BY <1>2, <1>3, <1>4 DEF Matched
<1>6. Anchored(t.flushed, t.head, t.undo)
  BY <1>4 DEF Replaying
<1> QED
  BY <1>3, <1>4, <1>5, <1>6 DEF Replaying

(* The fork database before it is used.                                    *)
Unforked(s) == s.fork.head = NoBlock /\ s.fork.index = {}

(* A round of the replay without undo log: it goes up one block, or stops  *)
(* at a gap or at a block that does not link.                              *)
LEMMA DirectReplays ==
  ASSUME Honest, NEW l \in block_db!BlockLog, Numbered(l), NEW i \in Int,
         NEW s \in Direct, Replaying(l, s), Unforked(s),
         s.ok /\ ~s.gap => i = num[s.head] + 1
  PROVE  LET t == reindex_one(TRUE, s, i)
         IN  /\ t \in Direct /\ Replaying(l, t) /\ Unforked(t)
             /\ t.ok /\ ~t.gap => s.ok /\ ~s.gap /\ num[t.head] = num[s.head] + 1
<1> DEFINE t == reindex_one(TRUE, s, i)
           b == s.log[i].data
<1>0. s \in NodeState /\ s.log \in block_db!BlockLog /\ s.head \in BlockOrGenesis
      /\ s.flushed \in BlockOrGenesis
  BY NodeTypes DEF Direct
<1>1. \/ (~s.ok \/ s.gap) /\ t = s
      \/ s.ok /\ ~s.gap /\ ~block_db!Readable(s.log, i) /\ t \in NodeState /\ Cut(s, i, t)
      \/ s.ok /\ ~s.gap /\ block_db!Readable(s.log, i) /\ t \in NodeState /\ Bare(s, b, t)
  BY <1>0, ReindexCases
<1>2. t \in Direct
  BY DirectOne
<1> HIDE DEF t, b
<1> SUFFICES /\ Replaying(l, t) /\ Unforked(t)
             /\ t.ok /\ ~t.gap => s.ok /\ ~s.gap /\ num[t.head] = num[s.head] + 1
  BY <1>2 DEF t
<1>3. CASE (~s.ok \/ s.gap) /\ t = s
  BY <1>3
<1>4. CASE s.ok /\ ~s.gap /\ ~block_db!Readable(s.log, i) /\ t \in NodeState /\ Cut(s, i, t)
  <2>1. Replaying(l, t) /\ t.gap
    BY <1>0, <1>4, CutReplays
  <2>2. Unforked(t)
    BY <1>4 DEF Unforked, Cut
  <2> QED BY <2>1, <2>2
<1>5. CASE s.ok /\ ~s.gap /\ block_db!Readable(s.log, i) /\ t \in NodeState /\ Bare(s, b, t)
  <2>1. i = num[s.head] + 1 /\ b = s.log[num[s.head] + 1].data
    BY <1>5 DEF b
  <2>2. Matched(s.log, s.head) /\ Numbered(s.log) /\ Anchored(s.flushed, s.head, s.undo)
        /\ Stem(l, s.log)
    BY <1>0, StemFacts DEF Replaying
  <2>3. /\ b \in Block /\ num[b] = i
        /\ previous[b] # s.head => Torn(s.log)
    BY <1>0, <1>5, <2>1, <2>2, TornAt
  <2>4. BlockApplies(s, b) <=> previous[b] = s.head
    BY <1>0, <2>3, HonestApplies DEF BlockApplies
  <2>5. /\ t.undo = s.undo /\ t.log = s.log /\ t.flushed = s.flushed /\ t.gap = s.gap
        /\ t.fork.head = s.fork.head /\ t.fork.index \subseteq s.fork.index
        /\ IF BlockApplies(s, b) THEN t.ok = s.ok /\ t.head = b ELSE ~t.ok /\ t.head = s.head
    BY <1>5 DEF Bare
  <2>6. Unforked(t)
    BY <2>5 DEF Unforked
  <2>7. CASE previous[b] = s.head
    <3>1. t.head = b /\ t.ok
      BY <1>5, <2>4, <2>5, <2>7
    <3>2. Matched(t.log, t.head)
      BY <1>0, <1>5, <2>2, <2>3, <2>5, <2>7, <3>1, MatchedStep DEF b
    <3>3. Anchored(t.flushed, t.head, t.undo)
      <4>1. s.undo \in Seq(BlockOrGenesis)
        BY <1>0, NodeTypes
      <4>2. Len(s.undo) \in Nat /\ Len(s.undo) <= Len(s.undo) + 1
        BY <4>1
      <4> QED BY <1>0, <2>2, <2>3, <2>5, <2>7, <3>1, <4>2, AnchoredStep
    <3> QED BY <1>5, <2>1, <2>2, <2>3, <2>5, <2>6, <3>1, <3>2, <3>3 DEF Replaying
  <2>8. CASE previous[b] # s.head
    <3>1. t.head = s.head /\ ~t.ok
      BY <2>4, <2>5, <2>8
    <3> QED BY <1>5, <2>2, <2>3, <2>5, <2>6, <2>8, <3>1 DEF Replaying
  <2> QED BY <2>7, <2>8
<1> QED
  BY <1>1, <1>3, <1>4, <1>5

(* The fork database holds a part of the chain of the head, to its end.    *)
Rooted(s) ==
  /\ s.fork.index \subseteq ToSet(Path[s.head])
  /\ IF s.head = Genesis THEN s.fork.head = NoBlock
     ELSE s.fork.head = s.head /\ s.head \in s.fork.index

(* The successor of the head is taken in and applied.                      *)
LEMMA Advances ==
  ASSUME Honest, NEW s \in Good, s.ok, Rooted(s), NEW b \in Block, previous[b] = s.head
  PROVE  LET t == _push_block(s, b)
         IN  /\ t \in Good /\ t.ok /\ t.head = b /\ t.log = block_db!store(s.log, b, b)
             /\ Len(t.undo) <= Len(s.undo) + 1 /\ t.flushed = s.flushed /\ t.gap = s.gap
             /\ Rooted(t)
<1> DEFINE t == _push_block(s, b)
           f == fork_db!push_block(s.fork, b)
           u == [s EXCEPT !.fork = f]
           v == apply_block(u, b, b)
<1>0. s \in NodeState /\ s.fork \in fork_db!ForkDB /\ s.head \in BlockOrGenesis
      /\ s.fork.max_size \in Nat /\ num[s.head] \in Nat /\ num[b] = num[s.head] + 1
      /\ s.undo \in Seq(BlockOrGenesis)
  BY NodeTypes, ForkTypes, BlockFacts DEF Good
<1>1. fork_db!CanPush(s.fork, b)
  <2>1. CASE s.head = Genesis
    BY <2>1 DEF Rooted, fork_db!CanPush, fork_db!TooOld, fork_db!Links
  <2>2. CASE s.head # Genesis
    <3>1. s.fork.head = s.head /\ s.head \in s.fork.index
      BY <2>2 DEF Rooted
    <3>2. ~(num[b] <= fork_db!Larger(0, num[s.head] - s.fork.max_size))
      BY <1>0 DEF fork_db!Larger
    <3> QED BY <3>1, <3>2 DEF fork_db!CanPush, fork_db!TooOld, fork_db!Links
  <2> QED BY <2>1, <2>2
<1>2. f \in fork_db!ForkDB /\ f.head = b /\ f.index \subseteq s.fork.index \cup {b} /\ b \in f.index
  <2>1. s.fork.head = NoBlock \/ num[b] > num[s.fork.head]
    BY <1>0 DEF Rooted
  <2> QED BY <1>0, <2>1, ForkPush
<1>3. t = follow(u, b)
  BY <1>1 DEF _push_block
<1> HIDE DEF f
<1>4. /\ u \in NodeState /\ Trims(s, u) /\ u.undo = s.undo /\ u.fork = f /\ u.ok = s.ok
      /\ u.head = s.head /\ u.log = s.log /\ u.flushed = s.flushed /\ u.gap = s.gap
  <2>1. u \in NodeState /\ Trims(s, u) /\ u.undo = s.undo /\ u.fork = f /\ u.ok = s.ok
    BY <1>0, <1>2, SetFork
  <2> HIDE DEF u
  <2> QED BY <2>1 DEF Trims, Frame
<1> HIDE DEF u
<1>5. t = remove_failed(v, b)
  BY <1>2, <1>3, <1>4 DEF follow
<1>6. BlockApplies(u, b)
  BY <1>4, HonestApplies
<1>7. v \in NodeState /\ v.ok /\ Applied(u, b, b, v)
  BY <1>4, <1>6, ApplyCases
<1> HIDE DEF v
<1>8. t = v
  BY <1>5, <1>7 DEF remove_failed
<1>9. u \in Good /\ v \in Good
  BY <1>4, <1>7, GoodTrims, GoodApplied
<1> DEFINE n == num[b] - lib[u.head] + 1
<1>10. /\ v.head = b /\ v.log = block_db!store(s.log, b, b) /\ v.flushed = s.flushed
       /\ v.gap = s.gap /\ v.fork = fork_db!set_max_size(f, n)
  BY <1>4, <1>7 DEF Applied
<1>11. Len(v.undo) <= Len(s.undo) + 1
  <2>1. PICK k \in Int : v.undo = Append(Latest(s.undo, k), s.head)
    BY <1>4, <1>7 DEF Applied
  <2>2. Latest(s.undo, k) \in Seq(BlockOrGenesis) /\ Len(Latest(s.undo, k)) <= Len(s.undo)
    BY <1>0, LatestSuffix
  <2>3. Len(v.undo) = Len(Latest(s.undo, k)) + 1 /\ Len(Latest(s.undo, k)) \in Nat /\ Len(s.undo) \in Nat
    BY <1>0, <2>1, <2>2
  <2> QED BY <2>2, <2>3
<1>12. Rooted(v)
  <2>1. n \in Nat
    BY <1>4, SizeTyped
  <2> HIDE DEF n
  <2>2. v.fork.head = b /\ v.fork.index \subseteq f.index /\ b \in v.fork.index
    BY <1>2, <1>10, <2>1, ForkSize
  <2>3. ToSet(Path[b]) = ToSet(Path[s.head]) \cup {b}
    BY PathStep
  <2>4. v.fork.index \subseteq ToSet(Path[b]) /\ b # Genesis
    BY <1>2, <2>2, <2>3, BlockFacts DEF Rooted
  <2> QED BY <1>10, <2>2, <2>4 DEF Rooted
<1> HIDE DEF t
<1>13. /\ t \in Good /\ t.ok /\ t.head = b /\ t.log = block_db!store(s.log, b, b)
       /\ Len(t.undo) <= Len(s.undo) + 1 /\ t.flushed = s.flushed /\ t.gap = s.gap
       /\ Rooted(t)
  BY <1>7, <1>8, <1>9, <1>10, <1>11, <1>12
<1> QED
  BY <1>13 DEF t

(* A block as high as the successor that builds on another block is        *)
(* refused.                                                                *)
LEMMA Refuses ==
  ASSUME NEW s \in Good, s.head \in Block, Rooted(s), NEW b \in Block,
         previous[b] # s.head, num[b] = num[s.head] + 1, previous[b] # Genesis
  PROVE  _push_block(s, b) = [s EXCEPT !.ok = FALSE]
<1>1. s.fork.head = s.head /\ s.fork.head # NoBlock /\ s.fork.index \subseteq ToSet(Path[s.head])
  BY BlockFacts DEF Rooted
<1>2. num[previous[b]] = num[s.head] /\ num[s.head] \in Nat /\ s.head \in BlockOrGenesis
  BY BlockFacts
<1>3. previous[b] \notin ToSet(Path[s.head])
  <2> SUFFICES ASSUME previous[b] \in ToSet(Path[s.head]) PROVE FALSE
    OBVIOUS
  <2>1. PICK k \in DOMAIN Path[s.head] : previous[b] = Path[s.head][k]
    BY DEF ToSet
  <2>2. Path[s.head] \in Seq(Block) /\ Len(Path[s.head]) = num[s.head] /\ PathShape(s.head)
    BY <1>2, PathFacts, PathShapes DEF PathShape
  <2>3. k \in 1 .. num[s.head]
    BY <2>1, <2>2
  <2>4. num[Path[s.head][k]] = k
    BY <2>2, <2>3 DEF PathShape
  <2>5. k = num[s.head]
    BY <1>2, <2>1, <2>4
  <2> QED BY <2>1, <2>5, PathEnd
<1>4. ~fork_db!CanPush(s.fork, b)
  BY <1>1, <1>3 DEF fork_db!CanPush, fork_db!Links
<1> QED
  BY <1>4 DEF _push_block

(* A round of the replay with undo log.                                    *)
LEMMA PushReplays ==
  ASSUME Honest, NEW l \in block_db!BlockLog, Numbered(l), NEW i \in Int,
         NEW s \in Steady, Replaying(l, s), s.ok => Rooted(s),
         s.ok /\ ~s.gap => i = num[s.head] + 1
  PROVE  LET t == reindex_one(FALSE, s, i)
         IN  /\ t \in Steady /\ Replaying(l, t) /\ (t.ok => Rooted(t))
             /\ t.ok /\ ~t.gap => s.ok /\ ~s.gap /\ num[t.head] = num[s.head] + 1
<1> DEFINE t == reindex_one(FALSE, s, i)
           b == s.log[i].data
<1>0. s \in NodeState /\ s.log \in block_db!BlockLog /\ s.head \in BlockOrGenesis
      /\ s.flushed \in BlockOrGenesis /\ s \in Good /\ s.undo \in Seq(BlockOrGenesis)
  BY NodeTypes DEF Steady, Good
<1>1. \/ (~s.ok \/ s.gap) /\ t = s
      \/ s.ok /\ ~s.gap /\ ~block_db!Readable(s.log, i) /\ t \in NodeState /\ Cut(s, i, t)
      \/ s.ok /\ ~s.gap /\ block_db!Readable(s.log, i) /\ b \in Block /\ t = push_block(s, b)
  BY <1>0, ReindexCases
<1>2. t \in Steady
  BY SteadyOne
<1> HIDE DEF t, b
<1> SUFFICES /\ Replaying(l, t) /\ (t.ok => Rooted(t))
             /\ t.ok /\ ~t.gap => s.ok /\ ~s.gap /\ num[t.head] = num[s.head] + 1
  BY <1>2 DEF t
<1>3. CASE (~s.ok \/ s.gap) /\ t = s
  BY <1>3
<1>4. CASE s.ok /\ ~s.gap /\ ~block_db!Readable(s.log, i) /\ t \in NodeState /\ Cut(s, i, t)
  <2>1. Replaying(l, t) /\ t.gap
    BY <1>0, <1>4, CutReplays
  <2>2. Rooted(t)
    BY <1>4 DEF Rooted, Cut
  <2> QED BY <2>1, <2>2
<1>5. CASE s.ok /\ ~s.gap /\ block_db!Readable(s.log, i) /\ b \in Block /\ t = push_block(s, b)
  <2> DEFINE e == <<>>
             u == [s EXCEPT !.pending = e]
             r == Inner(s, b)
  <2>1. i = num[s.head] + 1 /\ b = s.log[num[s.head] + 1].data
    BY <1>5 DEF b
  <2>2. Matched(s.log, s.head) /\ Numbered(s.log) /\ Anchored(s.flushed, s.head, s.undo)
        /\ Stem(l, s.log)
    BY <1>0, StemFacts DEF Replaying
  <2>3. /\ b \in Block /\ num[b] = num[s.head] + 1
        /\ previous[b] # s.head => Torn(s.log) /\ s.head \in Block /\ previous[b] # Genesis
    BY <1>0, <1>5, <2>1, <2>2, TornAt
  <2>4. u \in Good
    BY <1>0, EmptiedClosed DEF Emptied
  <2>5. /\ u.head = s.head /\ u.undo = s.undo /\ u.fork = s.fork /\ u.log = s.log
        /\ u.flushed = s.flushed /\ u.gap = s.gap /\ u.ok = s.ok
    <3>1. e \in Seq(Tx)
      OBVIOUS
    <3> HIDE DEF e
    <3> QED BY <1>0, <3>1 DEF NodeState
  <2>6. Rooted(u) /\ u.ok
    BY <1>5, <2>5 DEF Rooted
  <2>7. r = _push_block(u, b)
    BY DEF Inner
  <2>8. Pushed(s, r, t) /\ r \in NodeState
    BY <1>0, <1>5, PushGood DEF Emptied, Good
  <2> HIDE DEF u, r
  <2>9. /\ t.head = r.head /\ t.log = r.log /\ t.flushed = r.flushed /\ t.gap = r.gap
        /\ t.ok = r.ok /\ t.fork.head = r.fork.head /\ t.fork.index = r.fork.index
        /\ Len(t.undo) <= Len(r.undo)
    BY <2>8, NodeTypes, ForkTypes DEF Pushed
  <2>10. t.undo \in Seq(BlockOrGenesis) /\ r.undo \in Seq(BlockOrGenesis)
    BY <1>2, <2>8, NodeTypes DEF Steady, Good
  <2>11. Len(t.undo) \in Nat /\ Len(r.undo) \in Nat /\ Len(s.undo) \in Nat
    BY <1>0, <2>10
  <2>12. CASE previous[b] = s.head
    <3>1. /\ r.ok /\ r.head = b /\ r.log = block_db!store(s.log, b, b)
          /\ Len(r.undo) <= Len(s.undo) + 1 /\ r.flushed = s.flushed /\ r.gap = s.gap
          /\ Rooted(r)
      BY <2>3, <2>4, <2>5, <2>6, <2>7, <2>12, Advances
    <3>2. block_db!store(s.log, b, b) = s.log
      <4>1. s.log[num[b]] = [id |-> b, data |-> b]
        <5>1. num[b] = i /\ i \in 1 .. MaxNum /\ s.log[i] # NoSlot /\ s.log[i].id = b /\ s.log[i].data = b
          BY <1>5, <2>1, <2>3 DEF block_db!Readable, b
        <5>2. s.log[i] \in [id : Block, data : Block]
          BY <1>0, <5>1 DEF block_db!BlockLog, block_db!Slot
        <5> QED BY <5>1, <5>2
      <4> QED BY <1>0, <4>1 DEF block_db!store, block_db!BlockLog
    <3>3. t.head = b /\ t.log = s.log /\ t.flushed = s.flushed /\ t.ok /\ ~t.gap
          /\ Len(t.undo) <= Len(s.undo) + 1
      BY <1>5, <2>9, <2>11, <3>1, <3>2
    <3>4. Matched(t.log, t.head)
      BY <1>0, <1>5, <2>1, <2>2, <2>3, <2>12, <3>3, MatchedStep DEF b
    <3>5. Anchored(t.flushed, t.head, t.undo)
      BY <1>0, <2>2, <2>3, <2>11, <2>12, <3>3, AnchoredStep
    <3>6. Rooted(t)
      BY <2>9, <3>1 DEF Rooted
    <3> QED BY <1>5, <2>2, <2>3, <3>3, <3>4, <3>5, <3>6 DEF Replaying
  <2>13. CASE previous[b] # s.head
    <3>1. r = [u EXCEPT !.ok = FALSE]
      BY <2>3, <2>4, <2>5, <2>6, <2>7, <2>13, Refuses
    <3>2. /\ r.head = u.head /\ r.log = u.log /\ r.flushed = u.flushed /\ r.gap = u.gap
          /\ r.undo = u.undo /\ ~r.ok
      <4> DEFINE no == FALSE
      <4>1. no \in BOOLEAN /\ ~no /\ r = [u EXCEPT !.ok = no] /\ u \in NodeState
        BY <2>4, <3>1 DEF Good
      <4> HIDE DEF no
      <4> QED BY <4>1 DEF NodeState
    <3>3. t.head = s.head /\ t.log = s.log /\ t.flushed = s.flushed /\ ~t.ok /\ ~t.gap
          /\ Len(t.undo) <= Len(s.undo)
      BY <1>5, <2>5, <2>9, <3>2
    <3>4. Anchored(t.flushed, t.head, t.undo)
      <4>1. num[s.head] \in Nat /\ num[s.flushed] \in Nat
        BY <1>0, BlockFacts
      <4>2. Len(t.undo) <= num[t.head] - num[t.flushed]
        BY <2>2, <2>11, <3>3, <4>1 DEF Anchored
      <4> QED BY <2>2, <3>3, <4>2 DEF Anchored
    <3> QED BY <2>2, <2>3, <2>13, <3>3, <3>4 DEF Replaying
  <2> QED BY <2>12, <2>13
<1> QED
  BY <1>1, <1>3, <1>4, <1>5

(* A stage of the replay without undo log.                                 *)
LEMMA DirectRange ==
  ASSUME Honest, NEW l \in block_db!BlockLog, Numbered(l), NEW until \in Int,
         NEW s \in Direct, Replaying(l, s), Unforked(s)
  PROVE  LET t == reindex_direct(s, until)
         IN  t \in Direct /\ Replaying(l, t) /\ Unforked(t)
<1> DEFINE m == num[s.head]
           first == m + 1
           k == until - first + 1
<1>1. m \in Nat /\ first \in Int /\ k \in Int
  BY NodeTypes, BlockFacts DEF Direct
<1>2. PICK n \in Nat : Counts(n, k)
  <2> HIDE DEF k
  <2> QED BY <1>1, Rounds
<1> DEFINE Q(x, i) == /\ x \in Direct /\ Replaying(l, x) /\ Unforked(x)
                      /\ (x.ok /\ ~x.gap => num[x.head] = m + i)
           R == [i \in 0 .. n |-> {x \in Direct : Q(x, i)}]
<1>3. \A i \in 0 .. n : \A x : x \in R[i] <=> Q(x, i)
  OBVIOUS
<1> HIDE DEF R
<1>4. Stages(TRUE, R, first, n)
  <2> SUFFICES ASSUME NEW i \in 1 .. n, NEW a \in R[i - 1]
               PROVE  reindex_one(TRUE, a, first + i - 1) \in R[i]
    BY DEF Stages
  <2> DEFINE j == first + i - 1
             t == reindex_one(TRUE, a, j)
  <2>1. i \in Int /\ i - 1 \in 0 .. n /\ i \in 0 .. n /\ j = m + i /\ j \in Int
        /\ j = (m + (i - 1)) + 1
    BY <1>1
  <2>2. Q(a, i - 1)
    BY <1>3, <2>1
  <2> HIDE DEF j
  <2>3. a.ok /\ ~a.gap => j = num[a.head] + 1
    BY <2>1, <2>2
  <2>4. /\ t \in Direct /\ Replaying(l, t) /\ Unforked(t)
        /\ t.ok /\ ~t.gap => a.ok /\ ~a.gap /\ num[t.head] = num[a.head] + 1
    BY <2>1, <2>2, <2>3, DirectReplays
  <2> HIDE DEF t
  <2>5. t.ok /\ ~t.gap => num[t.head] = m + i
    BY <2>1, <2>3, <2>4
  <2>6. Q(t, i)
    BY <2>4, <2>5
  <2> HIDE DEF Q
  <2> QED BY <1>3, <2>1, <2>6 DEF t, j
<1>5. s \in R[0]
  <2>1. Q(s, 0) /\ 0 \in 0 .. n
    BY <1>1
  <2> HIDE DEF Q
  <2> QED BY <1>3, <2>1
<1>6. reindex_range(TRUE, s, first, until) \in R[n]
  <2>1. \A a \in Direct, i \in Int : reindex_one(TRUE, a, i) \in Direct
    BY DirectOne
  <2> HIDE DEF first
  <2> QED BY <1>1, <1>2, <1>4, <1>5, <2>1, ReindexStages
<1>7. LET t == reindex_range(TRUE, s, first, until)
      IN  t \in Direct /\ Replaying(l, t) /\ Unforked(t)
  <2>1. n \in 0 .. n
    OBVIOUS
  <2> QED BY <1>3, <1>6, <2>1
<1> QED
  BY <1>7 DEF reindex_direct

(* The last stage: the replay comes to the last block, or to a gap.        *)
LEMMA PushedRange ==
  ASSUME Honest, NEW l \in block_db!BlockLog, Numbered(l), NEW last \in Int,
         NEW s \in Steady, Replaying(l, s), s.ok => Rooted(s), num[s.head] <= last
  PROVE  LET t == reindex_range(FALSE, s, num[s.head] + 1, last)
         IN  /\ t \in Steady /\ Replaying(l, t)
             /\ t.ok => num[t.head] = last \/ ~block_db!Readable(t.log, num[t.head] + 1)
<1> DEFINE m == num[s.head]
           first == m + 1
           n == last - m
<1>1. m \in Nat /\ first \in Int /\ n \in Nat /\ m + n = last
  BY NodeTypes, BlockFacts DEF Steady, Good
<1>2. Counts(n, last - first + 1)
  BY <1>1 DEF Counts
<1> HIDE DEF n
<1> DEFINE Q(x, i) == /\ x \in Steady /\ Replaying(l, x) /\ (x.ok => Rooted(x))
                      /\ (x.ok /\ ~x.gap => num[x.head] = m + i)
           R == [i \in 0 .. n |-> {x \in Steady : Q(x, i)}]
<1>3. \A i \in 0 .. n : \A x : x \in R[i] <=> Q(x, i)
  OBVIOUS
<1> HIDE DEF R
<1>4. Stages(FALSE, R, first, n)
  <2> SUFFICES ASSUME NEW i \in 1 .. n, NEW a \in R[i - 1]
               PROVE  reindex_one(FALSE, a, first + i - 1) \in R[i]
    BY DEF Stages
  <2> DEFINE j == first + i - 1
             t == reindex_one(FALSE, a, j)
  <2>1. i \in Int /\ i - 1 \in 0 .. n /\ i \in 0 .. n /\ j = m + i /\ j \in Int
        /\ j = (m + (i - 1)) + 1
    BY <1>1
  <2>2. Q(a, i - 1)
    BY <1>3, <2>1
  <2> HIDE DEF j
  <2>3. a.ok /\ ~a.gap => j = num[a.head] + 1
    BY <2>1, <2>2
  <2>4. /\ t \in Steady /\ Replaying(l, t) /\ (t.ok => Rooted(t))
        /\ t.ok /\ ~t.gap => a.ok /\ ~a.gap /\ num[t.head] = num[a.head] + 1
    BY <2>1, <2>2, <2>3, PushReplays
  <2> HIDE DEF t
  <2>5. t.ok /\ ~t.gap => num[t.head] = m + i
    BY <2>1, <2>3, <2>4
  <2>6. Q(t, i)
    BY <2>4, <2>5
  <2> HIDE DEF Q
  <2> QED BY <1>3, <2>1, <2>6 DEF t, j
<1>5. s \in R[0]
  <2>1. Q(s, 0) /\ 0 \in 0 .. n
    BY <1>1
  <2> HIDE DEF Q
  <2> QED BY <1>3, <2>1
<1> DEFINE t == reindex_range(FALSE, s, first, last)
<1>6. t \in R[n]
  <2>1. \A a \in Steady, i \in Int : reindex_one(FALSE, a, i) \in Steady
    BY SteadyOne
  <2> HIDE DEF first
  <2> QED BY <1>1, <1>2, <1>4, <1>5, <2>1, ReindexStages
<1>7. Q(t, n)
  <2>1. n \in 0 .. n
    BY <1>1
  <2> QED BY <1>3, <1>6, <2>1
<1> HIDE DEF t
<1>8. t.ok => num[t.head] = last \/ ~block_db!Readable(t.log, num[t.head] + 1)
  BY <1>1, <1>7 DEF Replaying
<1> QED
  BY <1>7, <1>8 DEF t

(* Half-way the object store is flushed; at the end of the stages without  *)
(* undo log the fork database starts with the head.                        *)
LEMMA BetweenStages ==
  ASSUME NEW l \in block_db!BlockLog, NEW until \in Int,
         NEW s \in Direct, Replaying(l, s), Unforked(s)
  PROVE  /\ LET t == flush_after(s, until)
            IN  t \in Direct /\ Replaying(l, t) /\ Unforked(t)
         /\ LET t == [start_fork_db(s) EXCEPT !.gap = FALSE]
            IN  /\ t \in Steady /\ Replaying(l, t) /\ (t.ok => Rooted(t))
                /\ t.head = s.head /\ start_fork_db(s).head = s.head
<1>0. /\ s \in NodeState /\ s.head \in BlockOrGenesis /\ s.log \in block_db!BlockLog
      /\ s.fork \in fork_db!ForkDB /\ s.undo = <<>> /\ num[s.head] \in Nat
  BY NodeTypes, BlockFacts DEF Direct
<1>1. LET t == flush_after(s, until)
      IN  t \in Direct /\ Replaying(l, t) /\ Unforked(t)
  <2> DEFINE h == s.head
             t == [s EXCEPT !.flushed = h]
  <2>1. h \in BlockOrGenesis /\ h = s.head
    BY <1>0
  <2> HIDE DEF h
  <2>2. t \in NodeState /\ t.undo = s.undo /\ t.pending = s.pending /\ t.popped = s.popped
        /\ t.head = s.head /\ t.log = s.log /\ t.fork = s.fork /\ t.gap = s.gap /\ t.ok = s.ok
        /\ t.flushed = h
    BY <1>0, <2>1 DEF NodeState
  <2> HIDE DEF t
  <2>3. Anchored(t.flushed, t.head, t.undo)
    <3>1. h = Genesis \/ (num[h] \in 1 .. num[h] /\ Path[h][num[h]] = h)
      BY <2>1, PathEnd, BlockFacts
    <3>2. Len(t.undo) <= num[t.head] - num[h]
      BY <1>0, <2>1, <2>2
    <3> QED BY <2>1, <2>2, <3>1, <3>2 DEF Anchored
  <2>4. t \in Direct /\ Replaying(l, t) /\ Unforked(t)
    BY <2>2, <2>3 DEF Direct, Replaying, Unforked
  <2>5. flush_after(s, until) \in {s, t}
    BY DEF flush_after, t, h
  <2> QED BY <2>4, <2>5
<1>2. LET t == [start_fork_db(s) EXCEPT !.gap = FALSE]
      IN  /\ t \in Steady /\ Replaying(l, t) /\ (t.ok => Rooted(t))
          /\ t.head = s.head /\ start_fork_db(s).head = s.head
  <2> DEFINE no == FALSE
             f == fork_db!start_block(s.fork, s.head)
             r == start_fork_db(s)
             t == [r EXCEPT !.gap = no]
             Same(x) == /\ x \in NodeState /\ x.undo = s.undo /\ x.pending = s.pending
                        /\ x.popped = s.popped /\ x.head = s.head /\ x.log = s.log
                        /\ x.ok = s.ok /\ x.flushed = s.flushed
  <2>1. no \in BOOLEAN /\ ~no
    OBVIOUS
  <2>2. Same(r) /\ (r.ok => Rooted(r))
    <3>1. CASE ~s.ok \/ s.head = Genesis
      <4>1. r = s
        BY <3>1 DEF start_fork_db
      <4>2. r.ok => Rooted(r)
        BY <3>1, <4>1 DEF Rooted, Unforked
      <4> QED BY <1>0, <4>1, <4>2
    <3>2. CASE s.ok /\ s.head # Genesis
      <4>1. s.head \in Block
        BY <1>0, <3>2, BlockFacts
      <4>2. num[s.head] \in 1 .. num[s.head] /\ Path[s.head][num[s.head]] = s.head
        BY <4>1, PathEnd
      <4>3. block_db!fetch_by_number(s.log, num[s.head]) = s.head
        BY <4>2 DEF Replaying, Matched, block_db!fetch_by_number
      <4>4. s.head # NoBlock
        BY <4>1, BlockFacts
      <4>5. r = [s EXCEPT !.fork = f]
        BY <3>2, <4>3, <4>4 DEF start_fork_db
      <4>6. f \in fork_db!ForkDB /\ f.head = s.head /\ f.index = {s.head}
        <5>1. f \in fork_db!ForkDB
          BY <1>0, <4>1, ForkTypes
        <5> QED BY <1>0, <5>1 DEF fork_db!start_block, fork_db!ForkDB, Unforked
      <4> HIDE DEF f, r
      <4>7. Same(r) /\ r.fork = f
        BY <1>0, <4>5, <4>6 DEF NodeState
      <4>8. s.head \in ToSet(Path[s.head])
        BY <4>1, PathStep
      <4> QED BY <3>2, <4>6, <4>7, <4>8 DEF Rooted
    <3> QED BY <3>1, <3>2
  <2> HIDE DEF r, no
  <2>3. Same(t) /\ t.fork = r.fork /\ t.gap = no
    BY <2>1, <2>2 DEF NodeState
  <2>4. t.ok => Rooted(t)
    <3> HIDE DEF t
    <3> QED BY <2>2, <2>3 DEF Rooted
  <2>5. Replaying(l, t) /\ t \in Steady /\ t.head = s.head /\ r.head = s.head
    <3> HIDE DEF t
    <3>1. t \in Direct
      BY <2>3 DEF Direct
    <3> QED BY <2>1, <2>2, <2>3, <3>1, DirectSteady DEF Replaying
  <2> QED BY <2>4, <2>5 DEF t, r, no
<1> QED
  BY <1>1, <1>2

(* A replay from a block h of which the log holds the chain.               *)
LEMMA ReplayEnds ==
  ASSUME Honest, NEW l \in block_db!BlockLog, Numbered(l),
         NEW h \in BlockOrGenesis, Matched(l, h)
  PROVE  LET t == reindex(Started(h, l), block_db!LastNum(l))
         IN  /\ t \in Steady /\ Replaying(l, t)
             /\ t.ok => ~block_db!Readable(t.log, num[t.head] + 1)
<1> DEFINE s == Started(h, l)
           last == block_db!LastNum(l)
           m == last - 2 * MaxUndoHistory
           n == last - MaxUndoHistory
           a == reindex_direct(s, m)
           b == flush_after(a, m)
           c == reindex_direct(b, n)
           d == start_fork_db(c)
           e == [d EXCEPT !.gap = FALSE]
           t == reindex(s, last)
           z == reindex_range(FALSE, e, num[d.head] + 1, last)
<1>1. /\ s \in NodeState /\ s.head = h /\ s.undo = <<>> /\ s.pending = <<>>
      /\ s.popped = <<>> /\ s.log = l /\ s.flushed = h /\ ~s.gap /\ s.ok
  BY StartedTyped
<1>2. /\ last \in Int /\ last >= 0
      /\ \A k \in 1 .. MaxNum : block_db!Readable(l, k) => k <= last
  BY LastNumTyped
<1>3. m \in Int /\ n \in Int /\ num[h] \in Nat
  BY <1>2, ChainAssumption, BlockFacts
<1>4. t = IF last <= num[s.head] THEN s ELSE z
  BY DEF reindex, reindex_pushed
<1>5. Unforked(s)
  BY DEF Unforked, Started
<1> HIDE DEF s, last, m, n, t
<1>6. s \in Direct /\ s \in Steady
  BY <1>1, DirectSteady DEF Direct
<1>7. Replaying(l, s)
  <2>1. Stem(l, l)
    BY DEF Stem
  <2>2. Anchored(h, h, s.undo)
    <3>1. h = Genesis \/ (num[h] \in 1 .. num[h] /\ Path[h][num[h]] = h)
      BY PathEnd, BlockFacts
    <3>2. Len(s.undo) <= num[h] - num[h]
      BY <1>1, <1>3
    <3> QED BY <3>1, <3>2 DEF Anchored
  <2> QED BY <1>1, <2>1, <2>2 DEF Replaying
<1>8. a \in Direct /\ Replaying(l, a) /\ Unforked(a)
  BY <1>3, <1>5, <1>6, <1>7, DirectRange
<1> HIDE DEF a
<1>9. b \in Direct /\ Replaying(l, b) /\ Unforked(b)
  BY <1>3, <1>8, BetweenStages
<1> HIDE DEF b
<1>10. c \in Direct /\ Replaying(l, c) /\ Unforked(c)
  BY <1>3, <1>9, DirectRange
<1> HIDE DEF c
<1>11. e \in Steady /\ Replaying(l, e) /\ (e.ok => Rooted(e)) /\ e.head = c.head /\ d.head = c.head
  BY <1>3, <1>10, BetweenStages
<1> HIDE DEF d, e
<1>12. ASSUME NEW x \in Steady, Replaying(l, x)
       PROVE  /\ num[x.head] \in Nat /\ num[x.head] <= last
              /\ num[x.head] = last => ~block_db!Readable(x.log, num[x.head] + 1)
  <2>1. x.log \in block_db!BlockLog /\ x.head \in BlockOrGenesis /\ Stem(l, x.log)
    BY <1>12, NodeTypes DEF Steady, Good, Replaying
  <2>2. num[x.head] \in Nat
    BY <2>1, BlockFacts
  <2>3. \A k \in Int : block_db!Readable(x.log, k) => block_db!Readable(l, k) /\ k \in 1 .. MaxNum
    BY <2>1, StemFacts, LogTyped
  <2>4. num[x.head] <= last
    <3>1. CASE num[x.head] = 0
      BY <1>2, <3>1
    <3>2. CASE num[x.head] # 0
      <4>1. num[x.head] \in 1 .. num[x.head] /\ num[x.head] \in Int
        BY <2>2, <3>2
      <4>2. block_db!Readable(x.log, num[x.head])
        BY <1>12, <4>1 DEF Replaying, Matched
      <4> QED BY <1>2, <2>3, <4>1, <4>2
    <3> QED BY <3>1, <3>2
  <2>5. ASSUME num[x.head] = last PROVE ~block_db!Readable(x.log, num[x.head] + 1)
    <3>1. last + 1 \in Int /\ ~(last + 1 <= last)
      BY <1>2
    <3> QED BY <1>2, <2>3, <2>5, <3>1
  <2> QED BY <2>2, <2>4, <2>5
<1>13. CASE last <= num[s.head]
  <2>1. t = s
    BY <1>4, <1>13
  <2>2. num[s.head] = last
    BY <1>2, <1>6, <1>7, <1>12, <1>13
  <2> QED BY <1>6, <1>7, <1>12, <2>1, <2>2 DEF t, s, last
<1>14. CASE ~(last <= num[s.head])
  <2>1. t = reindex_range(FALSE, e, num[e.head] + 1, last)
    BY <1>4, <1>11, <1>14
  <2>2. num[e.head] <= last
    BY <1>11, <1>12
  <2>3. /\ t \in Steady /\ Replaying(l, t)
        /\ t.ok => num[t.head] = last \/ ~block_db!Readable(t.log, num[t.head] + 1)
    BY <1>2, <1>11, <2>1, <2>2, PushedRange
  <2>4. t.ok => ~block_db!Readable(t.log, num[t.head] + 1)
    BY <1>12, <2>3
  <2> QED BY <2>3, <2>4 DEF t, s, last
<1> QED
  BY <1>13, <1>14

(* The repaired log is read as the log.                                    *)
LEMMA RepairedReads ==
  ASSUME NEW l \in block_db!BlockLog
  PROVE  LET k == block_db!last_index_entry(l)
         IN  /\ \A n \in Int : /\ block_db!Readable(k, n) <=> block_db!Readable(l, n)
                               /\ block_db!Readable(k, n) => k[n] = l[n]
             /\ Numbered(l) => Numbered(k)
             /\ \A h \in BlockOrGenesis : Matched(l, h) => Matched(k, h)
<1> DEFINE k == block_db!last_index_entry(l)
           m == block_db!LastNum(l)
<1>1. \A n \in 1 .. MaxNum : k[n] = IF n <= m THEN l[n] ELSE NoSlot
  BY DEF block_db!last_index_entry
<1>2. \A n \in 1 .. MaxNum : block_db!Readable(l, n) => n <= m
  BY LastNumTyped
<1> HIDE DEF k, m
<1>3. ASSUME NEW n \in Int
      PROVE  /\ block_db!Readable(k, n) <=> block_db!Readable(l, n)
             /\ block_db!Readable(k, n) => k[n] = l[n]
  <2>1. CASE n \in 1 .. MaxNum
    BY <1>1, <1>2, <2>1 DEF block_db!Readable
  <2>2. CASE n \notin 1 .. MaxNum
    BY <2>2 DEF block_db!Readable
  <2> QED BY <2>1, <2>2
<1>4. Numbered(l) => Numbered(k)
  BY <1>3 DEF Numbered
<1>5. \A h \in BlockOrGenesis : Matched(l, h) => Matched(k, h)
  <2> SUFFICES ASSUME NEW h \in BlockOrGenesis, Matched(l, h), NEW n \in 1 .. num[h]
               PROVE  block_db!Readable(k, n) /\ k[n].data = Path[h][n]
    BY DEF Matched
  <2>1. n \in Int /\ block_db!Readable(l, n) /\ l[n].data = Path[h][n]
    BY DEF Matched
  <2> QED BY <1>3, <2>1
<1> QED
  BY <1>3, <1>4, <1>5 DEF k

(* The last block before the first gap.                                    *)
LEMMA WholeIs ==
  ASSUME NEW l, NEW m \in Nat, \A n \in 1 .. m : block_db!Readable(l, n),
         ~block_db!Readable(l, m + 1)
  PROVE  Whole(l) = m
<1> DEFINE Is(n) == (\A k \in 1 .. n : block_db!Readable(l, k)) /\ ~block_db!Readable(l, n + 1)
<1>0. MaxNum \in Nat
  BY ChainAssumption
<1>1. m \in 0 .. MaxNum
  <2>1. CASE m = 0
    BY <1>0, <2>1
  <2>2. CASE m # 0
    <3>1. block_db!Readable(l, m)
      BY <2>2
    <3> QED BY <1>0, <3>1 DEF block_db!Readable
  <2> QED BY <2>1, <2>2
<1>2. Is(m)
  OBVIOUS
<1>3. ASSUME NEW n \in 0 .. MaxNum, Is(n) PROVE n = m
  <2>1. CASE n < m
    <3>1. n + 1 \in 1 .. m
      BY <2>1
    <3> QED BY <1>3, <3>1
  <2>2. CASE m < n
    <3>1. m + 1 \in 1 .. n
      BY <2>2
    <3> QED BY <1>3, <3>1
  <2> QED BY <2>1, <2>2
<1>4. Whole(l) = CHOOSE n \in 0 .. MaxNum : Is(n)
  BY DEF Whole
<1> HIDE DEF Is
<1> QED
  BY <1>1, <1>2, <1>3, <1>4

-----------------------------------------------------------------------------
(* The invariant of the node and its log                                   *)

(* In every status the log holds the chain of the head, and with it that   *)
(* of the object store on disk, below which the undo log does not reach;   *)
(* a node that could not open has a torn log.                              *)
LogInv ==
  /\ Inv
  /\ Matched(log, head) /\ Numbered(log)
  /\ Anchored(flushed, head, undo)
  /\ status = "failed" => Torn(log)

(* A replay ends on the last block before the first gap in the log.        *)
ResumeStep ==
  status # "open" /\ status' = "open" =>
    head' = IF Whole(log) = 0 THEN Genesis ELSE log[Whole(log)].data

(* The log holds the chain of the object store on disk.                    *)
LEMMA MatchedOnDisk ==
  ASSUME NEW l, NEW h \in BlockOrGenesis, NEW fl \in BlockOrGenesis, NEW u,
         Matched(l, h), Anchored(fl, h, u)
  PROVE  Matched(l, fl)
<1>1. CASE fl = Genesis
  BY <1>1, BlockFacts DEF Matched
<1>2. CASE num[fl] \in 1 .. num[h] /\ Path[h][num[fl]] = fl
  <2> SUFFICES ASSUME NEW n \in 1 .. num[fl]
               PROVE  block_db!Readable(l, n) /\ l[n].data = Path[fl][n]
    BY DEF Matched
  <2>1. Path[fl][n] = Path[h][n]
    BY <1>2, PathAncestor
  <2>2. n \in 1 .. num[h]
    BY <1>2, BlockFacts
  <2> QED BY <2>1, <2>2 DEF Matched
<1> QED
  BY <1>1, <1>2 DEF Anchored

(* A process that has ended, with a log that holds the chain of the object *)
(* store.                                                                  *)
LEMMA StoppedLog ==
  ASSUME NEW l \in block_db!BlockLog, NEW h \in BlockOrGenesis, Stop(l, h),
         Matched(l, h), Numbered(l)
  PROVE  LogInv' /\ ResumeStep
<1>1. Inv'
  BY Stopped
<1>2. head' = h /\ undo' = <<>> /\ log' = l /\ flushed' = h /\ status' = "closed"
  <2>1. Started(h, l).head = h /\ Started(h, l).undo = <<>> /\ Started(h, l).log = l
    BY StartedTyped
  <2> QED BY <2>1 DEF Stop, Become
<1>3. Anchored(h, h, <<>>)
  <2>1. h = Genesis \/ (num[h] \in 1 .. num[h] /\ Path[h][num[h]] = h)
    BY PathEnd, BlockFacts
  <2>2. Len(<<>>) <= num[h] - num[h]
    BY BlockFacts
  <2> QED BY <2>1, <2>2 DEF Anchored
<1>4. Matched(log', head') /\ Numbered(log') /\ Anchored(flushed', head', undo')
  BY <1>2, <1>3
<1> QED
  BY <1>1, <1>2, <1>4 DEF LogInv, Matched, Numbered, Anchored, ResumeStep

(* The record with which a handler begins, without the pending ones.       *)
LEMMA MatchingStart ==
  ASSUME LogInv, NEW s \in Good, s.head = head, s.log = log, s.writes = <<>>,
         Len(s.undo) <= Len(undo)
  PROVE  [s EXCEPT !.pending = <<>>] \in Matching(flushed)
<1> DEFINE e == <<>>
           u == [s EXCEPT !.pending = e]
<1>0. s \in NodeState /\ s.undo \in Seq(BlockOrGenesis) /\ undo \in Seq(BlockOrGenesis)
      /\ head \in BlockOrGenesis /\ flushed \in BlockOrGenesis /\ e \in Seq(Tx)
  BY NodeTypes DEF Good, LogInv, Inv, TypeOK
<1>1. u \in Emptied
  BY EmptiedClosed
<1>2. u.head = s.head /\ u.undo = s.undo /\ u.log = s.log /\ u.writes = s.writes
  <2> HIDE DEF e
  <2> QED BY <1>0 DEF NodeState
<1> HIDE DEF u
<1>3. Anchored(flushed, u.head, u.undo)
  <2>1. Len(s.undo) \in Nat /\ Len(undo) \in Nat /\ num[head] \in Nat /\ num[flushed] \in Nat
    BY <1>0, BlockFacts
  <2>2. Len(s.undo) <= num[head] - num[flushed]
    BY <2>1 DEF LogInv, Anchored
  <2> QED BY <1>2, <2>2 DEF LogInv, Anchored
<1>4. u.writes \in Seq(Above(flushed))
  BY <1>2
<1>5. u \in Matching(flushed)
  BY <1>1, <1>2, <1>3, <1>4 DEF Matching, LogInv
<1> QED
  BY <1>5 DEF u, e

(* A block that is pushed onto a record with the head and the log of the   *)
(* node: what it ends in, and what it has stored.                          *)
LEMMA PushLog ==
  ASSUME Honest, LogInv, NEW s \in Good, s.ok, s.head = head, s.log = log, s.writes = <<>>,
         Len(s.undo) <= Len(undo), NEW b \in Block
  PROVE  LET t == push_block(s, b)
         IN  /\ t \in Good /\ Matched(t.log, t.head) /\ Numbered(t.log)
             /\ Anchored(flushed, t.head, t.undo) /\ t.writes \in Seq(Above(flushed))
<1> DEFINE t == push_block(s, b)
           r == Inner(s, b)
           B == Matching(flushed)
<1>1. flushed \in BlockOrGenesis /\ s \in NodeState
  BY DEF LogInv, Inv, TypeOK, Good
<1>2. [s EXCEPT !.pending = <<>>] \in B
  BY MatchingStart
<1>3. r \in B /\ t \in Good /\ Pushed(s, r, t)
  <2>1. Closed(B) /\ \A x \in B : x.pending = <<>>
    BY <1>1, MatchingClosed
  <2> HIDE DEF B
  <2> QED BY <1>1, <1>2, <2>1, PushResult
<1> HIDE DEF r, t
<1>4. /\ r \in Good /\ Matched(r.log, r.head) /\ Numbered(r.log)
      /\ Anchored(flushed, r.head, r.undo) /\ r.writes \in Seq(Above(flushed))
  BY <1>3 DEF Matching, Emptied
<1>5. t.head = r.head /\ t.log = r.log /\ t.writes = r.writes /\ Len(t.undo) <= Len(r.undo)
  BY <1>3 DEF Pushed
<1>6. /\ t.undo \in Seq(BlockOrGenesis) /\ r.undo \in Seq(BlockOrGenesis)
      /\ r.head \in BlockOrGenesis
  BY <1>3, <1>4, NodeTypes DEF Good
<1>7. Anchored(flushed, t.head, t.undo)
  <2>1. Len(t.undo) \in Nat /\ Len(r.undo) \in Nat /\ num[r.head] \in Nat /\ num[flushed] \in Nat
    BY <1>1, <1>6, BlockFacts
  <2>2. Len(t.undo) <= num[r.head] - num[flushed]
    BY <1>4, <1>5, <2>1 DEF Anchored
  <2> QED BY <1>4, <1>5, <2>2 DEF Anchored
<1>8. /\ t \in Good /\ Matched(t.log, t.head) /\ Numbered(t.log)
      /\ Anchored(flushed, t.head, t.undo) /\ t.writes \in Seq(Above(flushed))
  BY <1>3, <1>4, <1>5, <1>7
<1> QED
  BY <1>8 DEF t

(* The stores that reach the disk leave the chain of the object store      *)
(* alone.                                                                  *)
LEMMA ReachLog ==
  ASSUME NEW l \in block_db!BlockLog, NEW fl \in BlockOrGenesis, Matched(l, fl), Numbered(l),
         NEW w \in Seq(Above(fl)), w # <<>>, NEW torn \in BOOLEAN
  PROVE  LET k == reach_disk(l, w, torn)
         IN  k \in block_db!BlockLog /\ Matched(k, fl) /\ Numbered(k)
<1> DEFINE B == {k \in block_db!BlockLog : Matched(k, fl) /\ Numbered(k)}
           k == store_all(l, w)
           n == num[Last(w).id]
           c == [k EXCEPT ![n] = NoSlot]
<1>0. num[fl] \in Nat /\ 1 .. num[fl] \subseteq Int
  BY BlockFacts
<1>1. ASSUME NEW a \in B, NEW x \in Above(fl) PROVE block_db!store(a, x.id, x.data) \in B
  <2> DEFINE b == x.id
             r == block_db!store(a, b, b)
  <2>1. b \in Block /\ x.data = b /\ num[b] > num[fl] /\ num[b] \in Nat
    BY BlockFacts DEF Above, Write
  <2> HIDE DEF b
  <2>2. r \in block_db!BlockLog
    BY <2>1, StoreTyped
  <2>3. /\ \A m \in Int : m # num[b] =>
             /\ block_db!Readable(r, m) <=> block_db!Readable(a, m)
             /\ block_db!Readable(a, m) => r[m].data = a[m].data
        /\ Numbered(r)
    BY <2>1, StoreReads
  <2> HIDE DEF r
  <2>4. Matched(r, fl)
    <3> SUFFICES ASSUME NEW m \in 1 .. num[fl]
                 PROVE  block_db!Readable(r, m) /\ r[m].data = Path[fl][m]
      BY DEF Matched
    <3>1. m \in Int /\ m # num[b]
      BY <1>0, <2>1
    <3> QED BY <2>3, <3>1 DEF Matched
  <2>5. r \in B
    BY <2>2, <2>3, <2>4
  <2> QED BY <2>1, <2>5 DEF r, b
<1>2. k \in B
  <2>1. l \in B
    OBVIOUS
  <2> HIDE DEF B
  <2>2. PICK p : StoreRun(p, l, w, B) /\ p[Len(w)] = store_all(l, w)
    BY <1>1, <2>1, StoreFold
  <2> QED BY <2>2 DEF StoreRun
<1>3. Last(w) \in Above(fl) /\ n > num[fl] /\ n \in 1 .. MaxNum
  <2>1. Last(w) \in Above(fl)
    BY FrontLast
  <2> QED BY <2>1, ChainAssumption DEF Above, Write
<1>4. reach_disk(l, w, torn) \in {k, c}
  BY DEF reach_disk
<1> HIDE DEF k, n
<1>5. c \in B
  <2>1. c \in block_db!BlockLog
    BY <1>2 DEF block_db!BlockLog, block_db!Slot
  <2>2. \A m \in 1 .. MaxNum : IF m = n THEN c[m] = NoSlot ELSE c[m] = k[m]
    BY <1>2 DEF block_db!BlockLog
  <2> HIDE DEF c
  <2>3. Numbered(c)
    BY <1>2, <2>2 DEF Numbered, block_db!Readable
  <2>4. Matched(c, fl)
    <3> SUFFICES ASSUME NEW m \in 1 .. num[fl]
                 PROVE  block_db!Readable(c, m) /\ c[m].data = Path[fl][m]
      BY DEF Matched
    <3>1. block_db!Readable(k, m) /\ k[m].data = Path[fl][m] /\ m # n
      BY <1>0, <1>2, <1>3 DEF Matched
    <3>2. m \in 1 .. MaxNum
      BY <3>1 DEF block_db!Readable
    <3> QED BY <2>2, <3>1, <3>2 DEF block_db!Readable
  <2> QED BY <2>1, <2>3, <2>4
<1> QED
  BY <1>2, <1>4, <1>5

(* A handler of a running node that ends in t.                             *)
LEMMA BecomesLog ==
  ASSUME NEW t, Become(t), UNCHANGED <<flushed, status>>, status = "open", Inv',
         Matched(t.log, t.head), Numbered(t.log), Anchored(flushed, t.head, t.undo)
  PROVE  LogInv' /\ ResumeStep
<1>1. Matched(log', head') /\ Numbered(log') /\ Anchored(flushed', head', undo')
  BY DEF Become
<1> QED
  BY <1>1 DEF LogInv, Matched, Numbered, Anchored, ResumeStep

(* Opening.                                                                *)
LEMMA OpenLog ==
  ASSUME Honest, LogInv, NEW wipe \in BOOLEAN, Open(wipe), Inv'
  PROVE  LogInv' /\ ResumeStep
<1> DEFINE h == IF wipe THEN Genesis ELSE flushed
           l == block_db!last_index_entry(log)
           s == Started(h, l)
           last == block_db!last_id(log)
           n == block_db!LastNum(log)
<1>0. /\ head \in BlockOrGenesis /\ log \in block_db!BlockLog /\ flushed \in BlockOrGenesis
      /\ Matched(log, head) /\ Numbered(log) /\ Anchored(flushed, head, undo) /\ status # "open"
  BY DEF LogInv, Inv, TypeOK, Open
<1>1. h \in BlockOrGenesis /\ Matched(log, h) /\ num[h] \in Nat
  <2>1. Matched(log, flushed)
    BY <1>0, MatchedOnDisk
  <2>2. Matched(log, Genesis)
    BY BlockFacts DEF Matched
  <2> QED BY <1>0, <2>1, <2>2, BlockFacts
<1>2. /\ l \in block_db!BlockLog /\ Numbered(l) /\ Matched(l, h)
      /\ \A k \in Int : /\ block_db!Readable(l, k) <=> block_db!Readable(log, k)
                        /\ block_db!Readable(l, k) => l[k] = log[k]
  BY <1>0, <1>1, LogTyped, RepairedReads
<1>3. PICK matches \in IdOrder(last, h) :
        Opened(IF matches THEN reindex(s, block_db!LastNum(l)) ELSE [s EXCEPT !.ok = FALSE])
  <2> DEFINE Go(x, y) ==
        \E matches \in IdOrder(last, x) :
          Opened(IF matches THEN reindex(Started(x, y), block_db!LastNum(y))
                 ELSE [Started(x, y) EXCEPT !.ok = FALSE])
  <2>1. \E x \in {h}, y \in {l} : Go(x, y)
    BY Zenon DEF Open
  <2> HIDE DEF Go, h, l
  <2>2. Go(h, l)
    BY <2>1
  <2> QED BY <2>2 DEF Go
<1> HIDE DEF h, l
<1>4. IdOrder(last, h) = {TRUE}
  <2>1. /\ n \in Int /\ n >= 0
        /\ \A k \in 1 .. MaxNum : block_db!Readable(log, k) => k <= n
        /\ n > 0 => n \in 1 .. MaxNum /\ block_db!Readable(log, n)
    BY LastNumTyped
  <2>2. last = IF n = 0 THEN NoBlock ELSE log[n].id
    BY DEF block_db!last_id
  <2> HIDE DEF n, last
  <2>3. CASE n = 0
    BY <2>2, <2>3 DEF IdOrder
  <2>4. CASE n > 0
    <3>1. last = log[n].data /\ num[last] = n
      BY <1>0, <2>1, <2>2, <2>4 DEF block_db!Readable, Numbered
    <3>2. CASE num[h] = 0
      BY <2>1, <2>4, <3>1, <3>2 DEF IdOrder
    <3>3. CASE num[h] # 0
      <4>1. num[h] \in 1 .. num[h] /\ h \in Block
        BY <1>1, <3>3, BlockFacts
      <4>2. block_db!Readable(log, num[h]) /\ log[num[h]].data = h
        BY <1>1, <4>1, PathEnd DEF Matched
      <4>3. num[h] \in 1 .. MaxNum
        BY <4>2 DEF block_db!Readable
      <4>4. num[h] <= n
        BY <2>1, <4>2, <4>3
      <4>5. num[h] = n => last = h
        BY <3>1, <4>2
      <4>6. num[last] > num[h] \/ last = h
        BY <1>1, <2>1, <3>1, <4>4, <4>5
      <4> QED BY <4>6 DEF IdOrder
    <3> QED BY <3>2, <3>3
  <2>5. n = 0 \/ n > 0
    BY <2>1
  <2> QED BY <2>3, <2>4, <2>5, Zenon
<1> DEFINE t == reindex(s, block_db!LastNum(l))
<1>5. Opened(t)
  BY <1>3, <1>4
<1>6. /\ t \in Steady /\ Replaying(l, t)
      /\ t.ok => ~block_db!Readable(t.log, num[t.head] + 1)
  BY <1>1, <1>2, ReplayEnds
<1> HIDE DEF t
<1>7. /\ t.head \in BlockOrGenesis /\ t.flushed \in BlockOrGenesis /\ t.log \in block_db!BlockLog
      /\ num[t.head] \in Nat
  BY <1>6, NodeTypes, BlockFacts DEF Steady, Good
<1>8. /\ Stem(l, t.log) /\ Matched(t.log, t.head) /\ Anchored(t.flushed, t.head, t.undo)
      /\ Numbered(t.log) /\ (~t.ok => Torn(t.log))
  BY <1>2, <1>6, <1>7, StemFacts DEF Replaying
<1>9. CASE ~t.ok
  <2> DEFINE r == Started(t.flushed, t.log)
  <2>1. r.head = t.flushed /\ r.undo = <<>> /\ r.log = t.log
    BY <1>7, StartedTyped
  <2>2. head' = t.flushed /\ undo' = <<>> /\ log' = t.log /\ flushed' = t.flushed
        /\ status' = "failed"
    BY <1>5, <1>9, <2>1 DEF Opened, Become
  <2>3. Matched(t.log, t.flushed)
    BY <1>7, <1>8, MatchedOnDisk
  <2>4. Anchored(t.flushed, t.flushed, <<>>)
    <3>1. t.flushed = Genesis \/ (/\ num[t.flushed] \in 1 .. num[t.flushed]
                                  /\ Path[t.flushed][num[t.flushed]] = t.flushed)
      BY <1>7, PathEnd, BlockFacts
    <3>2. Len(<<>>) <= num[t.flushed] - num[t.flushed]
      BY <1>7, BlockFacts
    <3> QED BY <3>1, <3>2 DEF Anchored
  <2>5. /\ Matched(log', head') /\ Numbered(log') /\ Anchored(flushed', head', undo')
        /\ Torn(log')
    BY <1>8, <1>9, <2>2, <2>3, <2>4
  <2> QED BY <2>2, <2>5 DEF LogInv, Matched, Numbered, Anchored, Torn, ResumeStep
<1>10. CASE t.ok
  <2>1. head' = t.head /\ undo' = t.undo /\ log' = t.log /\ flushed' = t.flushed
        /\ status' = "open"
    BY <1>5, <1>10 DEF Opened, Become
  <2>2. Matched(log', head') /\ Numbered(log') /\ Anchored(flushed', head', undo')
    BY <1>8, <2>1
  <2> DEFINE m == num[t.head]
  <2>3. \A k \in 1 .. m : block_db!Readable(t.log, k) /\ t.log[k].data = Path[t.head][k]
    BY <1>8 DEF Matched
  <2>4. ~block_db!Readable(t.log, m + 1)
    BY <1>6, <1>10
  <2>5. /\ \A k \in Int : block_db!Readable(t.log, k) => block_db!Readable(l, k) /\ t.log[k] = l[k]
        /\ ~block_db!Readable(l, m + 1)
    BY <1>2, <1>7, <1>8, <2>3, <2>4, StemFacts
  <2>6. /\ \A k \in 1 .. m : block_db!Readable(log, k) /\ log[k].data = Path[t.head][k]
        /\ ~block_db!Readable(log, m + 1)
    BY <1>2, <1>7, <2>3, <2>5
  <2>7. Whole(log) = m
    BY <1>7, <2>6, WholeIs
  <2>8. t.head = IF m = 0 THEN Genesis ELSE log[m].data
    <3>1. CASE m = 0
      BY <1>7, <3>1, BlockFacts
    <3>2. CASE m # 0
      <4>1. t.head \in Block
        BY <1>7, <3>2, BlockFacts
      <4>2. m \in 1 .. m /\ Path[t.head][m] = t.head
        BY <4>1, PathEnd
      <4> QED BY <2>6, <3>2, <4>2
    <3> QED BY <3>1, <3>2
  <2>9. ResumeStep
    BY <2>1, <2>7, <2>8 DEF ResumeStep
  <2> QED BY <2>1, <2>2, <2>9 DEF LogInv, Matched, Numbered, Anchored
<1> QED
  BY <1>9, <1>10

(* Closing: what is popped leaves the log alone.                           *)
LEMMA CloseLog ==
  ASSUME LogInv, Close
  PROVE  LogInv' /\ ResumeStep
<1> DEFINE s == [Running EXCEPT !.pending = <<>>]
           B == {x \in Matching(flushed) : x.log = log}
           h == rewind(s).head
<1>0. flushed \in BlockOrGenesis /\ log \in block_db!BlockLog
  BY DEF LogInv, Inv, TypeOK
<1>1. Running \in Good /\ Running.log = log /\ s.log = log /\ s \in Matching(flushed)
  <2>1. /\ Running \in Good /\ Running.head = head /\ Running.log = log
        /\ Running.writes = <<>> /\ Running.undo = undo /\ undo \in Seq(BlockOrGenesis)
        /\ Running \in NodeState
    BY RunningFacts DEF LogInv, Inv, TypeOK
  <2>2. Len(Running.undo) <= Len(undo)
    BY <2>1
  <2>3. s \in Matching(flushed)
    BY <2>1, <2>2, MatchingStart
  <2>4. s.log = Running.log
    <3> DEFINE r == Running
               e == <<>>
    <3>1. r \in NodeState
      BY <2>1
    <3> HIDE DEF r
    <3>2. [r EXCEPT !.pending = e].log = r.log
      BY <3>1 DEF NodeState
    <3> QED BY <3>2 DEF r
  <2> QED BY <2>1, <2>3, <2>4
<1>2. PopsStay(B)
  <2> DEFINE M == Matching(flushed)
  <2>1. Closed(M)
    BY <1>0, MatchingClosed
  <2> HIDE DEF M
  <2>2. {x \in M : x.log = log} \subseteq Good
    BY <2>1 DEF Closed
  <2>3. ASSUME NEW x \in {y \in M : y.log = log}, NEW t \in Good, Trims(x, t) \/ Popped(x, t)
        PROVE  t \in {y \in M : y.log = log}
    <3>1. t \in M
      BY <2>1, <2>3 DEF Closed
    <3>2. t.log = log
      BY <2>3 DEF Trims, Frame, Popped
    <3> QED BY <3>1, <3>2
  <2> QED BY <2>2, <2>3 DEF PopsStay, M
<1>3. rewind(s) \in B
  <2>1. s \in B
    BY <1>1
  <2> HIDE DEF s, B
  <2> QED BY <1>2, <2>1, RewindStays
<1>4. rewind(s) \in Matching(flushed) /\ rewind(s).log = log
  BY <1>3
<1>5. h \in BlockOrGenesis /\ Matched(log, h) /\ Numbered(log)
  <2> DEFINE t == rewind(s)
  <2>1. t \in Matching(flushed) /\ t.log = log
    BY <1>4
  <2> HIDE DEF t
  <2>2. t.head \in BlockOrGenesis /\ Matched(log, t.head) /\ Numbered(log)
    BY <2>1, NodeTypes DEF Matching, Emptied, Good
  <2> QED BY <2>2 DEF t
<1>6. Stop(log, h)
  BY DEF Close
<1> HIDE DEF h
<1> QED
  BY <1>0, <1>5, <1>6, StoppedLog

(* A crash in the middle of a push.                                        *)
LEMMA CrashInPushLog ==
  ASSUME Honest, LogInv, NEW b \in Block, CrashInPush(b)
  PROVE  LogInv' /\ ResumeStep
<1> DEFINE w == push_block(Running, b).writes
<1>0. /\ flushed \in BlockOrGenesis /\ head \in BlockOrGenesis /\ log \in block_db!BlockLog
      /\ Matched(log, head) /\ Numbered(log) /\ Anchored(flushed, head, undo)
  BY DEF LogInv, Inv, TypeOK
<1>1. w \in Seq(Above(flushed))
  <2> DEFINE s == Running
  <2>1. /\ s \in Good /\ s.ok /\ s.head = head /\ s.log = log
        /\ s.writes = <<>> /\ s.undo = undo /\ undo \in Seq(BlockOrGenesis)
    BY RunningFacts DEF LogInv, Inv, TypeOK
  <2> HIDE DEF s
  <2>2. Len(s.undo) <= Len(undo)
    BY <2>1
  <2>3. push_block(s, b).writes \in Seq(Above(flushed))
    BY <2>1, <2>2, PushLog
  <2> QED BY <2>3 DEF s
<1>2. PICK k \in 1 .. Len(w), torn \in BOOLEAN :
        Stop(reach_disk(log, SubSeq(w, 1, k), torn), flushed)
  BY DEF CrashInPush
<1> HIDE DEF w
<1> DEFINE v == SubSeq(w, 1, k)
           l == reach_disk(log, v, torn)
<1>3. k \in Nat /\ k <= Len(w) /\ k > 0
  BY <1>1, <1>2
<1>4. v \in Seq(Above(flushed)) /\ Len(v) = k
  BY <1>1, <1>3, SubSeqPrefix
<1> HIDE DEF v
<1>5. v # <<>>
  BY <1>3, <1>4
<1>6. Matched(log, flushed)
  BY <1>0, MatchedOnDisk
<1>7. l \in block_db!BlockLog /\ Matched(l, flushed) /\ Numbered(l)
  BY <1>0, <1>2, <1>4, <1>5, <1>6, ReachLog
<1>8. Stop(l, flushed)
  BY <1>2 DEF v
<1> HIDE DEF l
<1> QED
  BY <1>0, <1>7, <1>8, StoppedLog

(* An empty log holds the chain of genesis.                                *)
LEMMA EmptyMatches ==
  EmptyLog \in block_db!BlockLog /\ Matched(EmptyLog, Genesis) /\ Numbered(EmptyLog)
<1>1. EmptyLog \in block_db!BlockLog
  BY DEF EmptyLog, block_db!BlockLog, block_db!Slot
<1>2. Matched(EmptyLog, Genesis)
  BY BlockFacts DEF Matched
<1>3. Numbered(EmptyLog)
  BY DEF Numbered, EmptyLog, block_db!Readable
<1> QED
  BY <1>1, <1>2, <1>3

(* Every step keeps the log, and a replay ends where the log does.         *)
LEMMA StepLog ==
  ASSUME Honest, LogInv, Next
  PROVE  LogInv' /\ ResumeStep
<1>0. /\ flushed \in BlockOrGenesis /\ head \in BlockOrGenesis /\ log \in block_db!BlockLog
      /\ undo \in Seq(BlockOrGenesis)
      /\ Matched(log, head) /\ Numbered(log) /\ Anchored(flushed, head, undo)
  BY DEF LogInv, Inv, TypeOK
<1>1. Inv'
  BY StepKeeps DEF LogInv
<1>2. ASSUME NEW b \in Block, PushBlock(b) PROVE LogInv' /\ ResumeStep
  <2> DEFINE s == Running
             t == push_block(s, b)
  <2>1. /\ s \in Good /\ s.ok /\ s.head = head /\ s.log = log
        /\ s.writes = <<>> /\ s.undo = undo
    BY RunningFacts DEF LogInv
  <2>2. Become(t) /\ UNCHANGED <<flushed, status>> /\ status = "open"
    BY <1>2 DEF PushBlock
  <2> HIDE DEF s
  <2>3. Len(s.undo) <= Len(undo)
    BY <1>0, <2>1
  <2>4. Matched(t.log, t.head) /\ Numbered(t.log) /\ Anchored(flushed, t.head, t.undo)
    BY <2>1, <2>3, PushLog
  <2> HIDE DEF t
  <2> QED BY <1>1, <2>2, <2>4, BecomesLog
<1>3. ASSUME NEW tx \in Tx, PushTransaction(tx) PROVE LogInv' /\ ResumeStep
  <2> DEFINE s == Running
             t == _push_transaction(s, tx)
  <2>1. s \in NodeState /\ s.head = head /\ s.log = log /\ s.undo = undo
    BY RunningFacts DEF LogInv
  <2>2. Become(t) /\ UNCHANGED <<flushed, status>> /\ status = "open"
    BY <1>3 DEF PushTransaction
  <2> HIDE DEF s
  <2>3. SameChain(s, t) /\ \E n \in Int : t.undo = Latest(s.undo, n)
    BY <2>1, PushTxCases
  <2> HIDE DEF t
  <2>4. t.head = head /\ t.log = log
    BY <2>1, <2>3 DEF SameChain
  <2>5. t.undo \in Seq(BlockOrGenesis) /\ Len(t.undo) <= Len(undo)
    BY <1>0, <2>1, <2>3, LatestSuffix
  <2>6. Anchored(flushed, t.head, t.undo)
    <3>1. Len(t.undo) \in Nat /\ Len(undo) \in Nat /\ num[head] \in Nat /\ num[flushed] \in Nat
      BY <1>0, <2>5, BlockFacts
    <3>2. Len(t.undo) <= num[head] - num[flushed]
      BY <1>0, <2>5, <3>1 DEF Anchored
    <3> QED BY <1>0, <2>4, <3>2 DEF Anchored
  <2>7. Matched(t.log, t.head) /\ Numbered(t.log)
    BY <1>0, <2>4
  <2> QED BY <1>1, <2>2, <2>6, <2>7, BecomesLog
<1>4. ASSUME NEW b \in Block, GenerateBlock(b) PROVE LogInv' /\ ResumeStep
  <2> DEFINE rebuilt == restore([Running EXCEPT !.pending = <<>>], pending)
             s == [Running EXCEPT !.undo = rebuilt.undo]
             t == push_block(s, b)
  <2>1. /\ s \in Good /\ s.ok /\ s.head = head /\ s.log = log
        /\ s.writes = <<>> /\ Len(s.undo) <= Len(undo)
    BY RebuiltGood DEF LogInv
  <2>2. Become(t) /\ UNCHANGED <<flushed, status>> /\ status = "open"
    BY <1>4 DEF GenerateBlock
  <2> HIDE DEF s
  <2>3. Matched(t.log, t.head) /\ Numbered(t.log) /\ Anchored(flushed, t.head, t.undo)
    BY <2>1, PushLog
  <2> HIDE DEF t
  <2> QED BY <1>1, <2>2, <2>3, BecomesLog
<1>5. CASE Close
  BY <1>5, CloseLog
<1>6. CASE Crash
  <2>1. Matched(log, flushed) /\ Stop(log, flushed)
    BY <1>0, <1>6, MatchedOnDisk DEF Crash
  <2> QED BY <1>0, <2>1, StoppedLog
<1>7. ASSUME NEW b \in Block, CrashInPush(b) PROVE LogInv' /\ ResumeStep
  BY <1>7, CrashInPushLog
<1>8. ASSUME NEW wipe \in BOOLEAN, Open(wipe) PROVE LogInv' /\ ResumeStep
  BY <1>1, <1>8, OpenLog
<1>9. CASE Resync
  <2>1. Stop(EmptyLog, Genesis) /\ Genesis \in BlockOrGenesis
    BY <1>9, BlockFacts DEF Resync
  <2> QED BY <2>1, EmptyMatches, StoppedLog
<1> QED
  BY <1>2, <1>3, <1>4, <1>5, <1>6, <1>7, <1>8, <1>9 DEF Next

(* The invariant holds initially.                                          *)
LEMMA InitLog == Init => LogInv
<1> SUFFICES ASSUME Init PROVE LogInv
  OBVIOUS
<1>1. /\ head = Genesis /\ undo = <<>> /\ log = EmptyLog /\ flushed = Genesis
      /\ status = "open"
  <2>1. EmptyLog \in block_db!BlockLog /\ Genesis \in BlockOrGenesis
    BY EmptyMatches, BlockFacts
  <2>2. /\ Started(Genesis, EmptyLog).head = Genesis /\ Started(Genesis, EmptyLog).undo = <<>>
        /\ Started(Genesis, EmptyLog).log = EmptyLog
    BY <2>1, StartedTyped
  <2> QED BY <2>2 DEF Init
<1>2. Anchored(Genesis, Genesis, <<>>)
  BY BlockFacts DEF Anchored
<1>3. Matched(log, head) /\ Numbered(log) /\ Anchored(flushed, head, undo)
  BY <1>1, <1>2, EmptyMatches
<1> QED
  BY <1>1, <1>3, InitInv DEF LogInv

(* It is inductive.                                                        *)
LEMMA NextLog ==
  ASSUME Honest
  PROVE  LogInv /\ [Next]_vars => LogInv'
<1> SUFFICES ASSUME LogInv, [Next]_vars PROVE LogInv'
  OBVIOUS
<1>1. CASE Next
  BY <1>1, StepLog
<1>2. CASE UNCHANGED vars
  <2>1. Inv'
    BY <1>2, NextInv DEF LogInv
  <2> QED BY <1>2, <2>1 DEF vars, LogInv, Matched, Numbered, Anchored, Torn
<1> QED
  BY <1>1, <1>2

(* So it holds of every state.                                             *)
LEMMA LogInvariance ==
  ASSUME Honest
  PROVE  Spec => []LogInv
<1>1. LogInv /\ [Next]_vars => LogInv'
  BY NextLog
<1> QED
  BY <1>1, InitLog, PTL DEF Spec

(***************************************************************************)
(* "After push block is successful the block is appended to the chain      *)
(* database on disk" (database.cpp:584): where every block applies on the  *)
(* chain it builds on, the log of a running node holds the chain of its    *)
(* head, after every switch, replay and crash.                             *)
(***************************************************************************)
THEOREM LogHoldsChain ==
  ASSUME Honest
  PROVE  Spec => []LogMatchesChain
<1>1. LogInv => LogMatchesChain
  <2> SUFFICES ASSUME LogInv, NEW n \in 1 .. num[head]
               PROVE  block_db!fetch_by_number(log, n) = Path[head][n]
    BY DEF LogMatchesChain
  <2>1. block_db!Readable(log, n) /\ log[n].data = Path[head][n]
    BY DEF LogInv, Matched
  <2> QED BY <2>1 DEF block_db!fetch_by_number
<1>2. Spec => []LogInv
  BY LogInvariance
<1> QED
  BY <1>1, <1>2, PTL

(***************************************************************************)
(* open() throws only on a log in which a crash has left blocks of two     *)
(* branches one after the other: after every other crash or close the node *)
(* starts again.                                                           *)
(***************************************************************************)
THEOREM OpenFailsOnlyTorn ==
  ASSUME Honest
  PROVE  Spec => []OpenFailsOnlyWhenTorn
<1>1. LogInv => OpenFailsOnlyWhenTorn
  BY DEF LogInv, OpenFailsOnlyWhenTorn
<1>2. Spec => []LogInv
  BY LogInvariance
<1> QED
  BY <1>1, <1>2, PTL

(***************************************************************************)
(* open() ends on the last block before the first gap in the log, wherever *)
(* the object store on disk was and however the log divides into the       *)
(* stages of reindex.                                                      *)
(***************************************************************************)
THEOREM ReplayResumesAtGap ==
  ASSUME Honest
  PROVE  Spec => ReplayResumes
<1>1. LogInv /\ [Next]_vars => [ResumeStep]_vars
  BY StepLog
<1>2. Spec => []LogInv
  BY LogInvariance
<1> QED
  BY <1>1, <1>2, PTL DEF Spec, ReplayResumes, ResumeStep
=====
