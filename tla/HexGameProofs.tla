---------------------------- MODULE HexGameProofs ----------------------------
(***************************************************************************)
(* Theorems about one game at the referee, for every side length and every *)
(* family of proposals.  First what the operators of HexBoard return: the  *)
(* extracted and the thinned move list, and that growing and thinning a    *)
(* matrix keeps it in range and symmetric.                                 *)
(***************************************************************************)
EXTENDS HexGame, FiniteSetTheorems, SequenceTheorems, TLAPS

Own(p, moves) == extractPlayerMovesFromAllMoves(p, moves)
ToMoveOf(moves) == IF Len(moves) % 2 = 0 THEN "A" ELSE "B"

(* The moves of one player: a list of the right length over the same cells *)
(* (extractPlayerMovesFromAllMoves starts at 0 or 1 and steps by two).     *)
LEMMA OwnIsSeq ==
    ASSUME NEW V, NEW moves \in Seq(V), NEW p \in Player
    PROVE  /\ Own(p, moves) \in Seq(V)
           /\ Len(Own(p, moves)) = (Len(moves) + 1 - FirstIndex(p)) \div 2
           /\ Len(Own(p, moves)) \in Nat
           /\ \A i \in 1..Len(Own(p, moves)) :
                 /\ 2 * i - 1 + FirstIndex(p) \in 1..Len(moves)
                 /\ Own(p, moves)[i] = moves[2 * i - 1 + FirstIndex(p)]
  <1> DEFINE n == (Len(moves) + 1 - FirstIndex(p)) \div 2
  <1>1. FirstIndex(p) \in {0, 1} /\ Len(moves) \in Nat
    BY DEF FirstIndex
  <1>2. n \in Nat
    BY <1>1
  <1>3. \A i \in 1..n : 2 * i - 1 + FirstIndex(p) \in 1..Len(moves)
    BY <1>1
  <1>4. Own(p, moves) = [i \in 1..n |-> moves[2 * i - 1 + FirstIndex(p)]]
    BY DEF Own, extractPlayerMovesFromAllMoves
  <1> HIDE DEF n
  <1>5. \A i \in 1..n : moves[2 * i - 1 + FirstIndex(p)] \in V
    BY <1>3
  <1>6. Own(p, moves) \in Seq(V) /\ Len(Own(p, moves)) = n
    BY <1>2, <1>4, <1>5
  <1> QED
    BY <1>2, <1>3, <1>4, <1>6 DEF n

(* Halving the length of a list that grows by one: which half grows.       *)
LEMMA Halves ==
    ASSUME NEW n \in Nat
    PROVE  /\ n % 2 = 0 => /\ (n + 2) \div 2 = (n + 1) \div 2 + 1
                           /\ 2 * ((n + 1) \div 2) = n
                           /\ (n + 1) \div 2 = n \div 2
           /\ n % 2 # 0 => /\ n % 2 = 1
                           /\ (n + 2) \div 2 = (n + 1) \div 2
                           /\ 2 * (n \div 2) = n - 1
                           /\ (n + 1) \div 2 = n \div 2 + 1
  OBVIOUS

LEMMA TurnZero == \A n \in Nat : n \div 2 = 0 => n \in {0, 1}
  OBVIOUS

(* The number and the letter of a turn tell the lengths of the list apart. *)
LEMMA TurnsDiffer ==
    ASSUME NEW n \in Nat, NEW m \in Nat, n \div 2 = m \div 2, n % 2 = m % 2
    PROVE  n = m
  OBVIOUS

(* A move goes to the list of the player whose turn it is and to no other. *)
LEMMA OwnAppend ==
    ASSUME NEW V, NEW moves \in Seq(V), NEW v \in V, NEW p \in Player
    PROVE  Own(p, Append(moves, v)) =
             IF p = ToMoveOf(moves) THEN Append(Own(p, moves), v) ELSE Own(p, moves)
  <1> DEFINE longer == Append(moves, v)
             n == Len(Own(p, moves))
  <1>1. longer \in Seq(V) /\ Len(longer) = Len(moves) + 1 /\ Len(moves) \in Nat
    OBVIOUS
  <1>2. \A i \in 1..Len(moves) : longer[i] = moves[i]
    OBVIOUS
  <1>3. longer[Len(moves) + 1] = v
    OBVIOUS
  <1>4. /\ n = (Len(moves) + 1 - FirstIndex(p)) \div 2 /\ n \in Nat
        /\ Own(p, moves) \in Seq(V)
        /\ \A i \in 1..n : /\ 2 * i - 1 + FirstIndex(p) \in 1..Len(moves)
                           /\ Own(p, moves)[i] = moves[2 * i - 1 + FirstIndex(p)]
    BY OwnIsSeq
  <1>5. /\ Len(Own(p, longer)) = (Len(moves) + 2 - FirstIndex(p)) \div 2
        /\ Own(p, longer) \in Seq(V)
        /\ \A i \in 1..Len(Own(p, longer)) :
              Own(p, longer)[i] = longer[2 * i - 1 + FirstIndex(p)]
    <2> HIDE DEF longer
    <2>1. /\ Len(Own(p, longer)) = (Len(longer) + 1 - FirstIndex(p)) \div 2
          /\ Own(p, longer) \in Seq(V)
          /\ \A i \in 1..Len(Own(p, longer)) :
                Own(p, longer)[i] = longer[2 * i - 1 + FirstIndex(p)]
      BY <1>1, OwnIsSeq
    <2>2. Len(longer) + 1 - FirstIndex(p) = Len(moves) + 2 - FirstIndex(p)
      BY <1>1 DEF FirstIndex
    <2> QED BY <2>1, <2>2
  <1> HIDE DEF longer, n
  <1>6. FirstIndex(p) = IF p = "B" THEN 1 ELSE 0
    BY DEF FirstIndex
  <1> DEFINE m == Len(moves)
  <1>h. /\ m % 2 = 0 => /\ (m + 2) \div 2 = (m + 1) \div 2 + 1
                       /\ 2 * ((m + 1) \div 2) = m
                       /\ (m + 1) \div 2 = m \div 2
        /\ m % 2 # 0 => /\ m % 2 = 1
                       /\ (m + 2) \div 2 = (m + 1) \div 2
                       /\ 2 * (m \div 2) = m - 1
                       /\ (m + 1) \div 2 = m \div 2 + 1
    BY <1>1, Halves
  <1>n. /\ p = "A" => n = (m + 1) \div 2 /\ Len(Own(p, longer)) = (m + 2) \div 2
        /\ p = "B" => n = m \div 2 /\ Len(Own(p, longer)) = (m + 1) \div 2
    <2>1. p = "A" => m + 1 - FirstIndex(p) = m + 1 /\ m + 2 - FirstIndex(p) = m + 2
      BY <1>1, <1>6
    <2>2. p = "B" => m + 1 - FirstIndex(p) = m /\ m + 2 - FirstIndex(p) = m + 1
      BY <1>1, <1>6
    <2> QED BY <1>4, <1>5, <2>1, <2>2
  <1> HIDE DEF m
  <1>7. CASE p = ToMoveOf(moves)
    <2>1. Len(moves) % 2 = FirstIndex(p)
      BY <1>1, <1>6, <1>7 DEF ToMoveOf, Player
    <2>2. Len(Own(p, longer)) = n + 1 /\ 2 * (n + 1) - 1 + FirstIndex(p) = Len(moves) + 1
      <3>1. CASE p = "A"
        <4>1. FirstIndex(p) = 0 /\ n \in Nat /\ m \in Nat /\ m = Len(moves)
          BY <1>1, <1>4, <1>6, <3>1 DEF m
        <4>2. m % 2 = 0
          BY <2>1, <4>1, <3>1, <1>h
        <4> QED BY <1>h, <1>n, <3>1, <4>1, <4>2
      <3>2. CASE p = "B"
        <4>1. FirstIndex(p) = 1 /\ n \in Nat /\ m \in Nat /\ m = Len(moves)
          BY <1>1, <1>4, <1>6, <3>2 DEF m
        <4>2. m % 2 # 0
          BY <2>1, <4>1, <3>2, <1>h
        <4> QED BY <1>h, <1>n, <3>2, <4>1, <4>2
      <3> QED BY <3>1, <3>2 DEF Player
    <2>3. Own(p, longer)[n + 1] = v
      <3>1. n + 1 \in 1..Len(Own(p, longer)) /\ 2 * (n + 1) - 1 + FirstIndex(p) = m + 1
        BY <1>4, <2>2 DEF m
      <3> QED BY <1>3, <1>5, <3>1 DEF m
    <2>4. \A i \in 1..n : Own(p, longer)[i] = Own(p, moves)[i]
      <3>1. \A i \in 1..n : i \in 1..Len(Own(p, longer))
        BY <1>4, <2>2
      <3> QED BY <1>2, <1>4, <1>5, <3>1
    <2>5. Append(Own(p, moves), v) \in Seq(V) /\ Len(Append(Own(p, moves), v)) = n + 1
      BY <1>4 DEF n
    <2>6. \A i \in 1..n+1 : Own(p, longer)[i] = Append(Own(p, moves), v)[i]
      BY <1>4, <2>3, <2>4 DEF n
    <2> QED
      BY <1>5, <1>7, <2>2, <2>5, <2>6 DEF longer
  <1>8. CASE p # ToMoveOf(moves)
    <2>1. Len(moves) % 2 # FirstIndex(p)
      BY <1>1, <1>6, <1>8 DEF ToMoveOf, Player
    <2>2. Len(Own(p, longer)) = n
      <3>1. CASE p = "A"
        <4>1. FirstIndex(p) = 0 /\ n \in Nat /\ m \in Nat /\ m = Len(moves)
          BY <1>1, <1>4, <1>6, <3>1 DEF m
        <4>2. m % 2 # 0
          BY <2>1, <4>1, <3>1, <1>h
        <4> QED BY <1>h, <1>n, <3>1, <4>1, <4>2
      <3>2. CASE p = "B"
        <4>1. FirstIndex(p) = 1 /\ n \in Nat /\ m \in Nat /\ m = Len(moves)
          BY <1>1, <1>4, <1>6, <3>2 DEF m
        <4>2. m % 2 = 0
          BY <2>1, <4>1, <3>2, <1>h
        <4> QED BY <1>h, <1>n, <3>2, <4>1, <4>2
      <3> QED BY <3>1, <3>2 DEF Player
    <2>3. \A i \in 1..n : Own(p, longer)[i] = Own(p, moves)[i]
      BY <1>2, <1>4, <1>5, <2>2
    <2>4. Own(p, longer) = Own(p, moves)
      <3>1. \A s, t \in Seq(V) : Len(s) = Len(t) /\ (\A i \in 1..Len(t) : s[i] = t[i]) => s = t
        OBVIOUS
      <3> QED BY <1>4, <1>5, <2>2, <2>3, <3>1 DEF n
    <2> QED
      BY <1>8, <2>4 DEF longer
  <1> QED
    BY <1>7, <1>8

-----------------------------------------------------------------------------
(* The kept indices, in order: each lands inside the smaller list, and every *)
(* place of the smaller list has one.                                        *)
LEMMA RankRange ==
    ASSUME NEW n \in Nat, NEW K \in SUBSET (0..n-1)
    PROVE  /\ IsFiniteSet(K) /\ Cardinality(K) \in 0..n
           /\ \A i \in K : Rank(K, i) \in 0..Cardinality(K)-1
  <1>1. IsFiniteSet(0..n-1) /\ Cardinality(0..n-1) = n
    BY FS_Interval
  <1>2. IsFiniteSet(K) /\ Cardinality(K) <= n /\ Cardinality(K) \in Nat
    BY <1>1, FS_Subset, FS_CardinalityType
  <1>3. ASSUME NEW i \in K
        PROVE  Rank(K, i) \in 0..Cardinality(K)-1
    <2> DEFINE below == {k \in K : k < i}
    <2>1. below \in SUBSET K /\ i \notin below
      OBVIOUS
    <2>2. IsFiniteSet(below) /\ Cardinality(below) <= Cardinality(K) /\ below # K
      BY <1>2, <2>1, FS_Subset
    <2>3. Cardinality(below) # Cardinality(K) /\ Cardinality(below) \in Nat
      BY <1>2, <2>1, <2>2, FS_Subset, FS_CardinalityType
    <2> QED
      BY <1>2, <2>2, <2>3 DEF Rank
  <1> QED
    BY <1>2, <1>3

LEMMA RankOrder ==
    ASSUME NEW n \in Nat, NEW K \in SUBSET (0..n-1), NEW i \in K, NEW j \in K, i < j
    PROVE  Rank(K, i) < Rank(K, j)
  <1> DEFINE lower == {k \in K : k < i}
             upper == {k \in K : k < j}
  <1>0. K \in SUBSET Int
    OBVIOUS
  <1>1. lower \in SUBSET upper /\ i \in upper /\ i \notin lower
    <2>1. \A k \in K : k < i => k < j
      BY <1>0
    <2>2. ~ (i < i)
      BY <1>0
    <2> QED BY <2>1, <2>2
  <1>2. IsFiniteSet(upper)
    BY RankRange, FS_Subset
  <1>3. /\ IsFiniteSet(lower) /\ Cardinality(lower) <= Cardinality(upper)
        /\ Cardinality(upper) = Cardinality(lower) => upper = lower
    <2> HIDE DEF lower, upper
    <2> QED BY <1>1, <1>2, FS_Subset
  <1>4. Cardinality(lower) \in Nat /\ Cardinality(upper) \in Nat
    BY <1>2, <1>3, FS_CardinalityType
  <1>5. upper # lower
    BY <1>1
  <1> QED
    BY <1>3, <1>4, <1>5 DEF Rank

LEMMA RankOnto ==
    ASSUME NEW n \in Nat, NEW K \in SUBSET (0..n-1), NEW r \in 0..Cardinality(K)-1
    PROVE  \E i \in K : Rank(K, i) = r
  <1> DEFINE places == 0..Cardinality(K)-1
             f == [i \in K |-> Rank(K, i)]
  <1>1. IsFiniteSet(K) /\ Cardinality(K) \in Nat /\ \A i \in K : Rank(K, i) \in places
    BY RankRange
  <1>2. IsFiniteSet(places) /\ Cardinality(places) = Cardinality(K)
    BY <1>1, FS_Interval
  <1>3. \A i, j \in K : i # j => f[i] # f[j]
    <2> SUFFICES ASSUME NEW i \in K, NEW j \in K, i < j
                 PROVE  f[i] # f[j]
      OBVIOUS
    <2>1. Rank(K, i) < Rank(K, j)
      BY RankOrder
    <2> QED BY <1>1, <2>1
  <1>4. f \in [K -> places]
    BY <1>1
  <1> HIDE DEF f, places
  <1>5. f \in Injection(K, places)
    BY <1>3, <1>4 DEF Injection, IsInjective
  <1>6. f \in Surjection(K, places)
    BY <1>1, <1>2, <1>5, FS_Injection
  <1> QED
    BY <1>6 DEF Surjection, f, places

(* A thinned move list is a shorter list of the same tiles, whatever        *)
(* indices are removed.                                                     *)
LEMMA RemoveVertsType ==
    ASSUME NEW V, NEW s \in Seq(V), NEW indices
    PROVE  /\ removeVerts_moveList(s, indices) \in Seq(V)
           /\ \A j \in DOMAIN removeVerts_moveList(s, indices) :
                 \E i \in DOMAIN s : removeVerts_moveList(s, indices)[j] = s[i]
  <1> DEFINE K == Kept(Len(s), indices)
             at(j) == CHOOSE i \in K : Rank(K, i) = j - 1
             out == [j \in 1..Cardinality(K) |-> s[1 + at(j)]]
  <1>1. Len(s) \in Nat /\ K \in SUBSET (0..Len(s)-1)
    BY DEF Kept
  <1>2. Cardinality(K) \in Nat
    BY <1>1, RankRange
  <1>3. ASSUME NEW j \in 1..Cardinality(K)
        PROVE  1 + at(j) \in DOMAIN s /\ s[1 + at(j)] \in V
    <2>1. j - 1 \in 0..Cardinality(K)-1
      BY <1>2
    <2>2. \E i \in K : Rank(K, i) = j - 1
      BY <1>1, <2>1, RankOnto
    <2>3. at(j) \in K
      BY <2>2
    <2> QED BY <1>1, <2>3
  <1>4. out \in Seq(V)
    <2> DEFINE e(j) == s[1 + at(j)]
    <2>1. \A j \in 1..Cardinality(K) : e(j) \in V
      BY <1>3
    <2> HIDE DEF e, at, K
    <2>2. [j \in 1..Cardinality(K) |-> e(j)] \in Seq(V)
      BY <1>2, <2>1
    <2> QED BY <2>2 DEF e
  <1>5. removeVerts_moveList(s, indices) = out
    BY DEF removeVerts_moveList
  <1>6. \A j \in DOMAIN out : 1 + at(j) \in DOMAIN s /\ out[j] = s[1 + at(j)]
    BY <1>3
  <1> QED
    BY <1>4, <1>5, <1>6

-----------------------------------------------------------------------------
(* Matrices *)

(* removeRows gives a matrix of the kept size, no larger than before, and   *)
(* keeps it symmetric; the hidden points stay when they are not removed.    *)
LEMMA RemoveRowsMatrix ==
    ASSUME NEW n \in Nat, NEW s \in Matrix(n), NEW indices
    PROVE  /\ removeRows(s, indices).size \in 0..n
           /\ removeRows(s, indices) \in Matrix(removeRows(s, indices).size)
           /\ isSymmetric(s) => isSymmetric(removeRows(s, indices))
           /\ (n >= 2 /\ indices \cap {Near, Far} = {}) => removeRows(s, indices).size >= 2
  <1> DEFINE K == Kept(n, indices)
             out == removeRows(s, indices)
             kept == s.ones \cap (K \X K)
  <1>1. s.size = n /\ s.ones \in SUBSET ((0..n-1) \X (0..n-1))
    BY DEF Matrix
  <1>2. K \in SUBSET (0..n-1)
    BY DEF Kept
  <1>3. /\ IsFiniteSet(K) /\ Cardinality(K) \in 0..n
        /\ \A i \in K : Rank(K, i) \in 0..Cardinality(K)-1
    BY <1>2, RankRange
  <1>4. /\ out.size = Cardinality(K)
        /\ out.ones = {<<Rank(K, e[1]), Rank(K, e[2])>> : e \in kept}
        /\ out = [size |-> out.size, ones |-> out.ones]
    BY <1>1 DEF removeRows
  <1> HIDE DEF out, K
  <1>5. out.ones \in SUBSET ((0..out.size-1) \X (0..out.size-1))
    BY <1>3, <1>4
  <1>6. out \in Matrix(out.size)
    BY <1>4, <1>5 DEF Matrix
  <1>7. ASSUME isSymmetric(s)
        PROVE  isSymmetric(out)
    <2> SUFFICES ASSUME NEW d \in out.ones
                 PROVE  <<d[2], d[1]>> \in out.ones
      BY DEF isSymmetric
    <2>1. PICK e \in kept : d = <<Rank(K, e[1]), Rank(K, e[2])>>
      BY <1>4
    <2>2. <<e[2], e[1]>> \in kept
      BY <1>7, <2>1 DEF isSymmetric
    <2>3. <<Rank(K, e[2]), Rank(K, e[1])>> \in out.ones
      BY <1>4, <2>2
    <2> QED BY <2>1, <2>3
  <1>8. ASSUME n >= 2, indices \cap {Near, Far} = {}
        PROVE  out.size >= 2
    <2>1. {0, 1} \in SUBSET K
      BY <1>8 DEF K, Kept, Near, Far
    <2>2. Cardinality({0, 1}) = 2
      <3>1. IsFiniteSet({0}) /\ Cardinality({0}) = 1
        BY FS_Singleton, Zenon
      <3>2. Cardinality({0} \cup {1}) = 1 + 1
        <4>1. 1 \notin {0}
          OBVIOUS
        <4> QED BY <3>1, <4>1, FS_AddElement
      <3>3. {0} \cup {1} = {0, 1}
        OBVIOUS
      <3> QED BY <3>2, <3>3
    <2>3. Cardinality({0, 1}) <= Cardinality(K)
      BY <1>3, <2>1, FS_Subset
    <2> QED BY <1>3, <1>4, <2>2, <2>3
  <1> QED
    BY <1>3, <1>4, <1>6, <1>7, <1>8 DEF out

(* Thinning a symmetric matrix gives a symmetric matrix that is no larger   *)
(* and still has both hidden points, although the indices are removed       *)
(* twice: EvalWinCondition's panic is never reached.                        *)
LEMMA ThinAdjacencyMatKeeps ==
    ASSUME NEW n \in Nat, n >= 2, NEW mat \in Matrix(n), isSymmetric(mat),
           NEW indices, indices \cap {Near, Far} = {}
    PROVE  /\ isSymmetric(ThinAdjacencyMat(mat, indices))
           /\ ThinAdjacencyMat(mat, indices).size \in 2..n
  <1> DEFINE once == removeRows(mat, indices)
             m == once.size
             turned == transpose(once)
  <1>1. m \in 2..n /\ once \in Matrix(m) /\ isSymmetric(once)
    BY RemoveRowsMatrix
  <1>2. turned \in Matrix(m) /\ isSymmetric(turned)
    <2>2. turned = [size |-> m, ones |-> {<<e[2], e[1]>> : e \in once.ones}]
      BY DEF transpose
    <2>3. once.ones \in SUBSET ((0..m-1) \X (0..m-1))
      BY <1>1 DEF Matrix
    <2>4. turned \in Matrix(m)
      <3>1. {<<e[2], e[1]>> : e \in once.ones} \in SUBSET ((0..m-1) \X (0..m-1))
        BY <2>3
      <3> QED BY <2>2, <3>1 DEF Matrix
    <2>5. isSymmetric(turned)
      <3> SUFFICES ASSUME NEW e \in once.ones
                   PROVE  <<e[1], e[2]>> \in turned.ones
        BY <2>2 DEF isSymmetric
      <3>1. <<e[2], e[1]>> \in once.ones
        BY <1>1 DEF isSymmetric
      <3> QED BY <2>2, <3>1
    <2> QED BY <2>4, <2>5
  <1>3. /\ removeRows(turned, indices).size \in 0..m
        /\ removeRows(turned, indices).size >= 2
        /\ isSymmetric(removeRows(turned, indices))
    <2> HIDE DEF turned, m
    <2> QED BY <1>1, <1>2, RemoveRowsMatrix
  <1> QED
    BY <1>1, <1>3 DEF ThinAdjacencyMat

(* IncorporateNewVert gives a symmetric matrix with a row for each of the   *)
(* player's moves and the two hidden points.                                *)
LEMMA IncorporateNewVertMatrix ==
    ASSUME NEW V, NEW moves \in Seq(V), NEW p \in Player, NEW v \in Vertex,
           NEW graph, isSymmetric(graph),
           Len(Own(p, moves)) >= 1
    PROVE  LET new == IncorporateNewVert(p, moves, graph, v)
           IN  /\ new \in Matrix(Len(Own(p, moves)) + 2)
               /\ new.size = Len(Own(p, moves)) + 2
               /\ isSymmetric(new)
  <1> DEFINE own == Own(p, moves)
             n == Len(own)
             index == 0..n+1
             copied == graph.ones \cap (index \X index)
             tileEdges == NeighbourEdges(own, v)
             hiddenEdges == HiddenEdges(p, own, v)
             new == IncorporateNewVert(p, moves, graph, v)
  <1>1. n \in Nat /\ n >= 1
    BY OwnIsSeq
  <1>2. new = [size |-> n + 2, ones |-> copied \cup tileEdges \cup hiddenEdges]
    BY DEF IncorporateNewVert, Own
  <1> HIDE DEF own, n
  <1>3. tileEdges \in SUBSET (index \X index)
    <2>1. CASE \E u \in getAdjacentVertices(v) : containsVert(own, u)
      <3>1. tileEdges = UNION {Both(k, n) : k \in 2..n+1}
        BY <2>1 DEF NeighbourEdges, n
      <3>2. \A k \in 2..n+1 : Both(k, n) \in SUBSET (index \X index)
        BY <1>1 DEF Both
      <3> QED BY <3>1, <3>2
    <2>2. CASE ~ \E u \in getAdjacentVertices(v) : containsVert(own, u)
      BY <2>2 DEF NeighbourEdges
    <2> QED BY <2>1, <2>2
  <1>4. hiddenEdges \in SUBSET (index \X index)
    <2>1. Both(Near, n + 1) \in SUBSET (index \X index) /\ Both(Far, n + 1) \in SUBSET (index \X index)
      BY <1>1 DEF Both, Near, Far
    <2> QED BY <2>1 DEF HiddenEdges, n
  <1>5. \A d \in tileEdges : <<d[2], d[1]>> \in tileEdges
    BY DEF NeighbourEdges, Both
  <1>6. \A d \in hiddenEdges : <<d[2], d[1]>> \in hiddenEdges
    BY DEF HiddenEdges, Both
  <1>7. \A d \in copied : <<d[2], d[1]>> \in copied
    BY DEF isSymmetric
  <1> HIDE DEF copied, tileEdges, hiddenEdges
  <1>8. copied \in SUBSET (index \X index)
    BY DEF copied
  <1>9. index = 0..(n + 2)-1
    BY <1>1
  <1> HIDE DEF index, new
  <1>10. new \in Matrix(n + 2)
    <2>1. copied \cup tileEdges \cup hiddenEdges \in SUBSET (index \X index)
      BY <1>3, <1>4, <1>8
    <2> QED BY <1>2, <1>9, <2>1 DEF Matrix
  <1>11. isSymmetric(new)
    <2>1. new.ones = copied \cup tileEdges \cup hiddenEdges
      BY <1>2
    <2> QED BY <1>5, <1>6, <1>7, <2>1 DEF isSymmetric
  <1> QED
    BY <1>2, <1>10, <1>11 DEF own, n, new

(* No cell is its own neighbour. *)
LEMMA NotOwnNeighbour ==
    ASSUME NEW v \in Vertex
    PROVE  v \notin getAdjacentVertices(v)
  BY SideLenAssumption DEF Vertex, getAdjacentVertices

(* Neighbours' edges are written only between tiles, and only when one of   *)
(* the other tiles is a neighbour; with the very first tile, whose row would *)
(* be the far hidden point's, there is none.                                *)
LEMMA NeighbourEdgesOfTiles ==
    ASSUME NEW own \in Seq(Vertex), NEW v \in Vertex, Len(own) >= 1, own[Len(own)] = v
    PROVE  LET held == \E i \in 1..Len(own)-1 : own[i] \in getAdjacentVertices(v)
           IN  /\ \A e \in NeighbourEdges(own, v) : e[1] >= 2 /\ e[2] >= 2
               /\ held <=> NeighbourEdges(own, v) # {}
  <1> DEFINE n == Len(own)
             near == \E u \in getAdjacentVertices(v) : containsVert(own, u)
             held == \E i \in 1..n-1 : own[i] \in getAdjacentVertices(v)
  <1>1. n \in Nat /\ n >= 1 /\ DOMAIN own = 1..n /\ own[n] = v
    OBVIOUS
  <1>2. near <=> held
    <2>1. near <=> \E i \in 1..n : own[i] \in getAdjacentVertices(v)
      BY <1>1 DEF containsVert
    <2> HIDE DEF n
    <2> QED BY <1>1, <2>1, NotOwnNeighbour
  <1>3. NeighbourEdges(own, v) = IF near THEN UNION {Both(k, n) : k \in 2..n+1} ELSE {}
    BY DEF NeighbourEdges
  <1> HIDE DEF n, near
  <1>4. held => n >= 2
    BY <1>1
  <1>5. ASSUME held
        PROVE  /\ \A e \in NeighbourEdges(own, v) : e[1] >= 2 /\ e[2] >= 2
               /\ NeighbourEdges(own, v) # {}
    <2>1. NeighbourEdges(own, v) = UNION {Both(k, n) : k \in 2..n+1}
      BY <1>2, <1>3, <1>5
    <2>2. ASSUME NEW k \in 2..n+1
          PROVE  Both(k, n) # {} /\ \A e \in Both(k, n) : e[1] >= 2 /\ e[2] >= 2
      <3>1. k >= 2 /\ n >= 2
        BY <1>4, <1>5
      <3> QED BY <3>1 DEF Both
    <2>3. 2 \in 2..n+1
      BY <1>1
    <2> QED BY <2>1, <2>2, <2>3
  <1>6. ~held => NeighbourEdges(own, v) = {}
    BY <1>2, <1>3
  <1> QED BY <1>5, <1>6 DEF n

(* Whether a matrix links two tiles at all. *)
TileEdge(graph) == \E e \in graph.ones : e[1] >= 2 /\ e[2] >= 2

(* What a new tile changes: the hidden points' edges of the other tiles stay *)
(* as they are, its own are those of its column, and two tiles are linked   *)
(* only if some were or the new one has a neighbour.                        *)
NewEdges(p, own, v, graph, new) ==
    LET n == Len(own)
        axis == IF p = "A" THEN v.X ELSE v.Y
    IN  /\ \A h \in {Near, Far} : \A i \in 1..n-1 :
             <<h, i + 1>> \in new.ones <=> <<h, i + 1>> \in graph.ones
        /\ <<Near, n + 1>> \in new.ones <=> axis = 1
        /\ <<Far, n + 1>> \in new.ones <=> axis = SideLenGameboard - 1 /\ axis # 1
        /\ TileEdge(new) <=>
             \/ TileEdge(graph)
             \/ \E i \in 1..n-1 : own[i] \in getAdjacentVertices(v)

LEMMA IncorporateNewVertEdges ==
    ASSUME NEW moves \in Seq(Vertex), NEW p \in Player, NEW v \in Vertex,
           Len(Own(p, moves)) >= 1, Own(p, moves)[Len(Own(p, moves))] = v,
           NEW graph \in Matrix(Len(Own(p, moves)) + 1)
    PROVE  NewEdges(p, Own(p, moves), v, graph, IncorporateNewVert(p, moves, graph, v))
  <1> DEFINE own == Own(p, moves)
             n == Len(own)
             axis == IF p = "A" THEN v.X ELSE v.Y
             index == 0..n+1
             held == \E i \in 1..n-1 : own[i] \in getAdjacentVertices(v)
             tileEdges == NeighbourEdges(own, v)
             hiddenEdges == HiddenEdges(p, own, v)
             new == IncorporateNewVert(p, moves, graph, v)
  <1>1. own \in Seq(Vertex) /\ n \in Nat /\ n >= 1
    BY OwnIsSeq
  <1>2. graph.ones \in SUBSET ((0..n) \X (0..n))
    BY DEF Matrix
  <1>3. new.ones = graph.ones \cup tileEdges \cup hiddenEdges
    <2>1. new.ones = (graph.ones \cap (index \X index)) \cup tileEdges \cup hiddenEdges
      BY DEF IncorporateNewVert, Own
    <2>2. 0..n \subseteq index
      BY <1>1
    <2> HIDE DEF index, n
    <2> QED BY <1>2, <2>1, <2>2
  <1>4. /\ \A e \in tileEdges : e[1] >= 2 /\ e[2] >= 2
        /\ held <=> tileEdges # {}
    <2> HIDE DEF own
    <2> QED BY <1>1, NeighbourEdgesOfTiles DEF own
  <1>5. hiddenEdges = IF axis = 1 THEN Both(Near, n + 1)
                      ELSE IF axis = SideLenGameboard - 1 THEN Both(Far, n + 1) ELSE {}
    BY DEF HiddenEdges
  <1> HIDE DEF n, own, new, tileEdges, hiddenEdges, axis, held
  <1>6. \A h \in {Near, Far}, i \in 1..n : <<h, i + 1>> \notin tileEdges
    BY <1>4 DEF Near, Far
  <1>7. \A h \in {Near, Far} : <<h, n + 1>> \notin graph.ones
    BY <1>1, <1>2
  <1>8. \A h \in {Near, Far}, i \in 1..n-1 : <<h, i + 1>> \notin hiddenEdges
    BY <1>1, <1>5 DEF Both, Near, Far
  <1>9. /\ <<Near, n + 1>> \in hiddenEdges <=> axis = 1
        /\ <<Far, n + 1>> \in hiddenEdges <=> axis = SideLenGameboard - 1 /\ axis # 1
    BY <1>1, <1>5 DEF Both, Near, Far
  <1>10. \A e \in hiddenEdges : ~(e[1] >= 2 /\ e[2] >= 2)
    BY <1>5 DEF Both, Near, Far
  <1>11. n \in 1..n /\ \A i \in 1..n-1 : i \in 1..n
    BY <1>1
  <1>12. TileEdge(new) <=> TileEdge(graph) \/ held
    BY <1>3, <1>4, <1>10 DEF TileEdge
  <1>13. \A h \in {Near, Far} : \A i \in 1..n-1 :
            <<h, i + 1>> \in new.ones <=> <<h, i + 1>> \in graph.ones
    BY <1>3, <1>6, <1>8, <1>11
  <1>14. /\ <<Near, n + 1>> \in new.ones <=> axis = 1
         /\ <<Far, n + 1>> \in new.ones <=> axis = SideLenGameboard - 1 /\ axis # 1
    BY <1>3, <1>6, <1>7, <1>9, <1>11
  <1> QED BY <1>12, <1>13, <1>14 DEF NewEdges, own, n, new, axis, held

-----------------------------------------------------------------------------
(* The game *)

(* TypeOK and IndicesInBounds are not inductive: that a pass of the loop   *)
(* leaves a matrix with both hidden points, and does not panic, needs the  *)
(* matrices to be symmetric.                                               *)
Symmetric == \A p \in Player : isSymmetric(adj[p])

IInv == TypeOK /\ IndicesInBounds /\ Symmetric /\ NoPanic

-----------------------------------------------------------------------------
(* Flipping for B changes no length: OwnMoves has one tile for each tile   *)
(* of the player's list, at the flipped cell.                              *)
LEMMA OwnMovesFlip ==
    ASSUME NEW moves \in Seq(Vertex), NEW p \in Player
    PROVE  /\ OwnMoves(p, moves) \in Seq(Vertex)
           /\ Len(OwnMoves(p, moves)) = Len(Own(p, moves))
           /\ \A i \in 1..Len(Own(p, moves)) :
                OwnMoves(p, moves)[i] =
                    IF p = "B" THEN [X |-> Own(p, moves)[i].Y, Y |-> Own(p, moves)[i].X]
                    ELSE Own(p, moves)[i]
  <1> DEFINE flipped == flipPlayerB(moves)
  <1>1. CASE p # "B"
    BY <1>1, OwnIsSeq DEF OwnMoves, Own
  <1>2. CASE p = "B"
    <2>1. Len(moves) \in Nat /\ DOMAIN moves = 1..Len(moves)
      OBVIOUS
    <2>2. \A i \in 1..Len(moves) : [X |-> moves[i].Y, Y |-> moves[i].X] \in Vertex
      <3>1. \A u \in Vertex : [X |-> u.Y, Y |-> u.X] \in Vertex
        BY DEF Vertex
      <3>2. \A i \in 1..Len(moves) : moves[i] \in Vertex
        OBVIOUS
      <3> QED BY <3>1, <3>2
    <2>3. flipped = [i \in 1..Len(moves) |-> [X |-> moves[i].Y, Y |-> moves[i].X]]
      BY <2>1 DEF flipPlayerB
    <2>4. /\ flipped \in Seq(Vertex) /\ Len(flipped) = Len(moves)
          /\ \A i \in 1..Len(moves) : flipped[i] = [X |-> moves[i].Y, Y |-> moves[i].X]
      BY <2>1, <2>2, <2>3
    <2> HIDE DEF flipped
    <2>5. /\ Own(p, flipped) \in Seq(Vertex)
          /\ Len(Own(p, flipped)) = (Len(flipped) + 1 - FirstIndex(p)) \div 2
          /\ \A i \in 1..Len(Own(p, flipped)) :
                Own(p, flipped)[i] = flipped[2 * i - 1 + FirstIndex(p)]
      BY <2>4, OwnIsSeq
    <2>6. /\ Len(Own(p, moves)) = (Len(moves) + 1 - FirstIndex(p)) \div 2
          /\ \A i \in 1..Len(Own(p, moves)) :
                /\ 2 * i - 1 + FirstIndex(p) \in 1..Len(moves)
                /\ Own(p, moves)[i] = moves[2 * i - 1 + FirstIndex(p)]
      BY OwnIsSeq
    <2>7. Len(Own(p, flipped)) = Len(Own(p, moves))
      BY <2>4, <2>5, <2>6
    <2>8. \A i \in 1..Len(Own(p, moves)) :
             Own(p, flipped)[i] = [X |-> Own(p, moves)[i].Y, Y |-> Own(p, moves)[i].X]
      BY <2>4, <2>5, <2>6, <2>7
    <2>9. OwnMoves(p, moves) = Own(p, flipped)
      BY <1>2 DEF OwnMoves, Own, flipped
    <2> QED
      BY <1>2, <2>5, <2>7, <2>8, <2>9
  <1> QED
    BY <1>1, <1>2

(* What a proposal that passes checkMoveValidity gives: a cell of the board. *)
LEMMA AcceptedCell ==
    ASSUME NEW c, NEW moves, checkMoveValidity(c, moves)
    PROVE  Proposed(c) \in Vertex
  BY DEF checkMoveValidity

LEMMA ArrivingType ==
    ASSUME TypeOK
    PROVE  Arriving \subseteq Candidate
  BY ProposalsAssumption DEF Arriving, TypeOK

-----------------------------------------------------------------------------
LEMMA InitIInv == Init => IInv
  <1> SUFFICES ASSUME Init PROVE IInv
    OBVIOUS
  <1>1. Empty \in Matrix(2) /\ Empty.size = 2 /\ isSymmetric(Empty)
    BY DEF Empty, Matrix, isSymmetric
  <1>2. \A p \in Player : adj[p] = Empty
    BY DEF Init
  <1>3. TypeOK
    BY <1>1, <1>2 DEF Init, TypeOK, Player
  <1>4. IndicesInBounds
    <2> SUFFICES ASSUME NEW p \in Player
                 PROVE  Len(OwnMoves(p, <<>>)) = 0
      BY <1>1, <1>2 DEF Init, IndicesInBounds
    <2>1. <<>> \in Seq(Vertex) /\ Len(<<>>) = 0
      OBVIOUS
    <2>2. Len(Own(p, <<>>)) = (0 + 1 - FirstIndex(p)) \div 2
      BY <2>1, OwnIsSeq
    <2>3. Len(Own(p, <<>>)) = 0
      BY <2>2 DEF FirstIndex
    <2> QED BY <2>1, <2>3, OwnMovesFlip
  <1> QED
    BY <1>1, <1>2, <1>3, <1>4 DEF Init, IInv, Symmetric, NoPanic

LEMMA AcceptIInv ==
    ASSUME IInv, NEW c \in Candidate, Accept(c)
    PROVE  IInv'
  <1> DEFINE p == ToMove(allMoveList)
             v == Proposed(c)
             moves == Append(allMoveList, v)
             new == IncorporateNewVert(p, moves, adj[p], v)
  <1>1. v \in Vertex /\ allMoveList \in Seq(Vertex) /\ p \in Player
    BY AcceptedCell DEF Accept, IInv, TypeOK, ToMove, Player
  <1>2. moves \in Seq(Vertex)
    BY <1>1
  <1>3. /\ Own(p, moves) = Append(Own(p, allMoveList), v)
        /\ \A q \in Player : q # p => Own(q, moves) = Own(q, allMoveList)
    BY <1>1, OwnAppend DEF ToMove, ToMoveOf
  <1>4. Len(Own(p, moves)) = Len(Own(p, allMoveList)) + 1 /\ Len(Own(p, allMoveList)) \in Nat
    BY <1>1, <1>3, OwnIsSeq
  <1>5. isSymmetric(adj[p])
    BY <1>1 DEF IInv, Symmetric
  <1>6. /\ new \in Matrix(Len(Own(p, moves)) + 2)
        /\ new.size = Len(Own(p, moves)) + 2
        /\ isSymmetric(new)
    <2> HIDE DEF p, v, moves
    <2> QED BY <1>1, <1>2, <1>4, <1>5, IncorporateNewVertMatrix
  <1>7. /\ allMoveList' = moves /\ mover' = p /\ declared' = declared
        /\ accepted' = accepted \cup {c}
        /\ adj' = [adj EXCEPT ![p] = new]
        /\ \/ UNCHANGED <<pc, numRows, thinnedMoveList>> /\ pc = "idle"
           \/ /\ pc' = "thin" /\ numRows' = Len(OwnMoves(p, moves)) + 2
              /\ thinnedMoveList' = OwnMoves(p, moves)
    BY DEF Accept, loopVars
  <1>8. OwnMoves(p, moves) \in Seq(Vertex) /\ Len(OwnMoves(p, moves)) = Len(Own(p, moves))
    BY <1>1, <1>2, OwnMovesFlip
  <1> HIDE DEF p, v, moves, new
  <1>9. \A q \in Player : adj'[q] = IF q = p THEN new ELSE adj[q]
    BY <1>1, <1>7 DEF IInv, TypeOK
  <1>10. TypeOK'
    <2>1. \A q \in Player : adj'[q] \in Matrix(adj'[q].size) /\ adj'[q].size \in Nat
      BY <1>4, <1>6, <1>9 DEF IInv, TypeOK
    <2>2. DOMAIN adj' = Player
      BY <1>7 DEF IInv, TypeOK
    <2>3. pc' \in {"idle", "thin", "panic"} /\ numRows' \in Nat /\ thinnedMoveList' \in Seq(Vertex)
      BY <1>4, <1>7, <1>8 DEF IInv, TypeOK
    <2> QED
      BY <1>1, <1>2, <1>7, <2>1, <2>2, <2>3 DEF IInv, TypeOK
  <1>11. IndicesInBounds'
    <2>1. \A q \in Player : Len(OwnMoves(q, moves)) = Len(Own(q, moves))
      BY <1>2, OwnMovesFlip
    <2>2. \A q \in Player : Len(OwnMoves(q, allMoveList)) = Len(Own(q, allMoveList))
      BY <1>1, OwnMovesFlip
    <2>3. \A q \in Player : adj'[q].size = Len(OwnMoves(q, allMoveList')) + 2
      BY <1>3, <1>6, <1>7, <1>9, <2>1, <2>2 DEF IInv, IndicesInBounds
    <2>4. pc' = "thin" => numRows' \in 2..adj'[mover'].size
      BY <1>1, <1>4, <1>6, <1>7, <1>8, <1>9
    <2> QED BY <2>3, <2>4 DEF IndicesInBounds
  <1>12. Symmetric' /\ NoPanic'
    BY <1>6, <1>7, <1>9 DEF IInv, Symmetric, NoPanic
  <1> QED
    BY <1>10, <1>11, <1>12 DEF IInv

LEMMA ThinAgainIInv ==
    ASSUME IInv, ThinAgain
    PROVE  IInv'
  <1> DEFINE n == adj[mover].size
  <1>1. /\ mover \in Player /\ n \in Nat /\ adj[mover] \in Matrix(n) /\ isSymmetric(adj[mover])
        /\ n >= 2 /\ numRows \in Nat
    BY DEF IInv, TypeOK, Symmetric, ThinAgain, IndicesInBounds
  <1>2. Low \cap {Near, Far} = {}
    BY <1>1 DEF Low, lowDegreeNodes, Near, Far
  <1>3. isSymmetric(Thinned) /\ Thinned.size \in 2..n
    <2> HIDE DEF n
    <2> QED BY <1>1, <1>2, ThinAdjacencyMatKeeps DEF Thinned
  <1>4. /\ numRows' = Thinned.size
        /\ thinnedMoveList' = removeVerts_moveList(thinnedMoveList, Low)
        /\ pc' \in {"thin", "idle"}
        /\ UNCHANGED <<allMoveList, adj, mover, declared, accepted>>
    BY <1>3 DEF ThinAgain
  <1>5. thinnedMoveList' \in Seq(Vertex)
    BY <1>4, RemoveVertsType DEF IInv, TypeOK
  <1>6. TypeOK'
    BY <1>1, <1>3, <1>4, <1>5 DEF IInv, TypeOK
  <1>7. IndicesInBounds'
    BY <1>3, <1>4 DEF IInv, IndicesInBounds, OwnMoves
  <1>8. Symmetric' /\ NoPanic'
    BY <1>4 DEF IInv, Symmetric, NoPanic
  <1> QED
    BY <1>6, <1>7, <1>8 DEF IInv

LEMMA NextIInv == IInv /\ [Next]_vars => IInv'
  <1> SUFFICES ASSUME IInv, [Next]_vars PROVE IInv'
    OBVIOUS
  <1>1. ASSUME NEW c \in Arriving, Reject(c)
        PROVE  IInv'
    BY <1>1 DEF Reject, vars, IInv, TypeOK, IndicesInBounds, Symmetric, NoPanic, OwnMoves
  <1>2. ASSUME NEW c \in Arriving, Accept(c)
        PROVE  IInv'
    BY <1>2, AcceptIInv, ArrivingType DEF IInv
  <1>3. CASE DeclareWin
    BY <1>3 DEF DeclareWin, loopVars, IInv, TypeOK, IndicesInBounds, Symmetric, NoPanic, OwnMoves
  <1>4. CASE ThinAgain
    BY <1>4, ThinAgainIInv
  <1>5. CASE UNCHANGED vars
    BY <1>5 DEF vars, IInv, TypeOK, IndicesInBounds, Symmetric, NoPanic, OwnMoves
  <1> QED
    BY <1>1, <1>2, <1>3, <1>4, <1>5 DEF Next, handleNewMoveEvent, EvalWinCondition

(* The inductive invariant holds in every state of every game.             *)
THEOREM Inductive == Spec => []IInv
  <1> QED
    BY InitIInv, NextIInv, PTL DEF Spec

(* Every state is well typed: the tiles of the loop's thinned list are     *)
(* tiles of the board although it is thinned with foreign indices.         *)
THEOREM TypeCorrect == Spec => []TypeOK
  <1>1. IInv => TypeOK
    BY DEF IInv
  <1> QED
    BY <1>1, Inductive, PTL

(* No evaluation panics (the matrix stays symmetric), on any board.        *)
THEOREM NeverPanics == Spec => []NoPanic
  <1>1. IInv => NoPanic
    BY DEF IInv
  <1> QED
    BY <1>1, Inductive, PTL

(* No pass of the loop, and no copy into a grown matrix, reads outside it. *)
THEOREM InBounds == Spec => []IndicesInBounds
  <1>1. IInv => IndicesInBounds
    BY DEF IInv
  <1> QED
    BY <1>1, Inductive, PTL

-----------------------------------------------------------------------------
(* The referee plays the board game *)

(* The cells of a player are cells of moves made. *)
LEMMA CellsAreMoves ==
    ASSUME allMoveList \in Seq(Vertex), NEW p \in Player
    PROVE  /\ Cells(p) = {Own(p, allMoveList)[i] : i \in 1..Len(Own(p, allMoveList))}
           /\ \A c \in Cells(p) : c \in Vertex /\ containsVert(allMoveList, c)
  <1>1. /\ Own(p, allMoveList) \in Seq(Vertex)
        /\ \A i \in 1..Len(Own(p, allMoveList)) :
              /\ 2 * i - 1 + FirstIndex(p) \in 1..Len(allMoveList)
              /\ Own(p, allMoveList)[i] = allMoveList[2 * i - 1 + FirstIndex(p)]
    BY OwnIsSeq
  <1>2. Cells(p) = {Own(p, allMoveList)[i] : i \in 1..Len(Own(p, allMoveList))}
    BY <1>1 DEF Cells, Own
  <1>3. DOMAIN allMoveList = 1..Len(allMoveList)
    OBVIOUS
  <1> QED
    BY <1>1, <1>2, <1>3 DEF containsVert

(* A move adds its cell to the player to move and leaves the other's cells. *)
LEMMA CellsAfterMove ==
    ASSUME allMoveList \in Seq(Vertex), NEW v \in Vertex,
           allMoveList' = Append(allMoveList, v), NEW p \in Player
    PROVE  Cells(p)' = IF p = ToMove(allMoveList) THEN Cells(p) \cup {v} ELSE Cells(p)
  <1> DEFINE old == Own(p, allMoveList)
             moves == Append(allMoveList, v)
             new == Own(p, moves)
  <1>1. new = IF p = ToMove(allMoveList) THEN Append(old, v) ELSE old
    BY OwnAppend DEF ToMove, ToMoveOf
  <1>2. old \in Seq(Vertex) /\ Len(old) \in Nat
    BY OwnIsSeq
  <1>3. moves \in Seq(Vertex)
    OBVIOUS
  <1>4. new \in Seq(Vertex)
    <2> HIDE DEF moves
    <2> QED BY <1>3, OwnIsSeq
  <1>5. Cells(p)' = {new[i] : i \in 1..Len(new)}
    <2>1. Cells(p)' = {new[i] : i \in DOMAIN new}
      BY DEF Cells, Own
    <2> QED BY <1>4, <2>1
  <1>6. Cells(p) = {old[i] : i \in 1..Len(old)}
    BY CellsAreMoves
  <1> HIDE DEF old, new
  <1>7. CASE p = ToMove(allMoveList)
    <2>1. Len(new) = Len(old) + 1 /\ new[Len(old) + 1] = v
      BY <1>1, <1>2, <1>7
    <2>2. \A i \in 1..Len(old) : new[i] = old[i]
      BY <1>1, <1>2, <1>7
    <2>3. 1..Len(new) = 1..Len(old) \cup {Len(old) + 1}
      BY <1>2, <2>1
    <2> QED BY <1>5, <1>6, <1>7, <2>1, <2>2, <2>3
  <1>8. CASE p # ToMove(allMoveList)
    BY <1>1, <1>5, <1>6, <1>8
  <1> QED
    BY <1>7, <1>8

LEMMA AcceptPlays ==
    ASSUME IInv, NEW c \in Candidate, Accept(c)
    PROVE  Rules!Next
  <1> DEFINE p == ToMove(allMoveList)
             v == Proposed(c)
             tiles == [q \in Player |-> Cells(q)]
  <1>1. v \in Vertex /\ allMoveList \in Seq(Vertex) /\ p \in Player
    BY AcceptedCell DEF Accept, IInv, TypeOK, ToMove, Player
  <1>2. allMoveList' = Append(allMoveList, v)
    BY DEF Accept
  <1>3. \A q \in Player : Cells(q)' = IF q = p THEN Cells(q) \cup {v} ELSE Cells(q)
    BY <1>1, <1>2, CellsAfterMove
  <1>4. Len(allMoveList') = Len(allMoveList) + 1 /\ Len(allMoveList) \in Nat
    BY <1>1, <1>2
  <1>5. ToMove(allMoveList)' = Rules!Other(p)
    BY <1>4 DEF ToMove, Rules!Other
  <1>6. tiles' = [tiles EXCEPT ![p] = @ \cup {v}]
    BY <1>1, <1>3
  <1>7. CASE ~containsVert(allMoveList, v)
    <2>1. \A q \in Player : v \notin tiles[q]
      BY <1>1, <1>7, CellsAreMoves
    <2>2. Rules!Place(p, v)
      BY <1>5, <1>6, <2>1 DEF Rules!Place, Rules!Player, Player
    <2>3. v \in Rules!Cell /\ p \in Rules!Player
      BY <1>1 DEF Rules!Cell, Rules!Player, Vertex, Player
    <2> QED BY <2>2, <2>3 DEF Rules!Next
  <1>8. CASE containsVert(allMoveList, v)
    <2>1. c.turn.number = 0 /\ c.turn = expectedNextTurn(allMoveList)
      BY <1>8 DEF Accept, checkMoveValidity
    <2>2. Len(allMoveList) \div 2 = 0
      BY <2>1 DEF expectedNextTurn
    <2>3. Len(allMoveList) # 0
      BY <1>1, <1>8 DEF containsVert
    <2>4. Len(allMoveList) = 1
      BY <1>4, <2>2, <2>3, TurnZero
    <2>5. p = "B" /\ allMoveList[1] = v
      BY <1>1, <1>8, <2>4 DEF ToMove, containsVert
    <2>6. Len(Own("B", allMoveList)) = 0 /\ Len(Own("A", allMoveList)) = 1
      <3>1. /\ Len(Own("B", allMoveList)) = (1 + 1 - FirstIndex("B")) \div 2
            /\ Len(Own("A", allMoveList)) = (1 + 1 - FirstIndex("A")) \div 2
        BY <1>1, <2>4, OwnIsSeq DEF Player
      <3> QED BY <3>1 DEF FirstIndex
    <2>7. Own("A", allMoveList)[1] = v
      <3>1. Own("A", allMoveList)[1] = allMoveList[2 * 1 - 1 + FirstIndex("A")]
        BY <1>1, <2>6, OwnIsSeq DEF Player
      <3> QED BY <2>5, <3>1 DEF FirstIndex
    <2>8. Cells("B") = {} /\ Cells("A") = {v}
      BY <1>1, <2>6, <2>7, CellsAreMoves DEF Player
    <2>9. tiles["B"] = {} /\ tiles["A"] = {v}
      BY <2>8 DEF Player
    <2>10. tiles' = [tiles EXCEPT !["B"] = tiles["A"]]
      BY <1>6, <2>5, <2>9
    <2>11. Rules!TakeOpening
      BY <1>5, <2>5, <2>9, <2>10 DEF Rules!TakeOpening, Rules!Other, Rules!Player, Player
    <2> QED BY <2>11 DEF Rules!Next
  <1> QED
    BY <1>7, <1>8

(* For every board and every family of proposals, the moves that the        *)
(* referee accepts play the board game of HexRules.                         *)
THEOREM RefereePlaysByTheRules == Spec => PlaysByTheRules
  <1>1. Init => Rules!Init
    <2> SUFFICES ASSUME Init PROVE Rules!Init
      OBVIOUS
    <2>1. allMoveList = <<>> /\ <<>> \in Seq(Vertex) /\ Len(<<>>) = 0
      BY DEF Init
    <2>2. \A p \in Player : Len(Own(p, allMoveList)) = 0
      <3>1. \A p \in Player : Len(Own(p, allMoveList)) = (0 + 1 - FirstIndex(p)) \div 2
        BY <2>1, OwnIsSeq
      <3> QED BY <3>1 DEF FirstIndex
    <2>3. \A p \in Player : Cells(p) = {}
      BY <2>1, <2>2, CellsAreMoves
    <2>4. ToMove(allMoveList) = "A"
      BY <2>1 DEF ToMove
    <2> QED BY <2>3, <2>4 DEF Rules!Init, Rules!Player, Player
  <1>2. IInv /\ [Next]_vars => [Rules!Next]_(Rules!vars)
    <2> SUFFICES ASSUME IInv, [Next]_vars
                 PROVE  Rules!Next \/ UNCHANGED allMoveList
      BY DEF Rules!vars, Cells, ToMove
    <2>1. ASSUME NEW c \in Arriving, Accept(c)
          PROVE  Rules!Next
      BY <2>1, AcceptPlays, ArrivingType DEF IInv
    <2> QED
      BY <2>1 DEF Next, handleNewMoveEvent, EvalWinCondition, Reject, DeclareWin, ThinAgain, vars
  <1> QED
    BY <1>1, <1>2, Inductive, PTL DEF Spec, PlaysByTheRules, Rules!Spec

-----------------------------------------------------------------------------
(* A replayed proposal is rejected *)

Turn(n) == [number |-> n \div 2, side |-> IF n % 2 = 0 THEN "a" ELSE "b"]

(* ReplayRejected counts; inductively, every accepted proposal names a turn *)
(* that has passed, so the next one accepted is new.                        *)
ReplayInv ==
    /\ TypeOK
    /\ IsFiniteSet(accepted)
    /\ \A c \in accepted : \E n \in 0..Len(allMoveList)-1 : c.turn = Turn(n)
    /\ ReplayRejected

LEMMA AcceptReplayInv ==
    ASSUME ReplayInv, NEW c, Accept(c), TypeOK'
    PROVE  ReplayInv'
  <1> DEFINE len == Len(allMoveList)
  <1>1. /\ len \in Nat /\ Len(allMoveList') = len + 1
        /\ accepted' = accepted \cup {c}
    BY DEF ReplayInv, TypeOK, Accept
  <1>2. c.turn = Turn(len)
    BY DEF Accept, checkMoveValidity, expectedNextTurn, Turn
  <1> HIDE DEF len
  <1>3. c \notin accepted
    <2> SUFFICES ASSUME NEW n \in 0..len-1, Turn(len) = Turn(n)
                 PROVE  FALSE
      BY <1>2 DEF ReplayInv, len
    <2>1. n \in Nat /\ n # len
      BY <1>1
    <2>2. n \div 2 = len \div 2
      BY DEF Turn
    <2>3. n % 2 = 0 <=> len % 2 = 0
      BY DEF Turn
    <2>4. n % 2 \in {0, 1} /\ len % 2 \in {0, 1}
      BY <1>1, <2>1
    <2> QED BY <1>1, <2>1, <2>2, <2>3, <2>4, TurnsDiffer
  <1>4. IsFiniteSet(accepted') /\ Cardinality(accepted') = Cardinality(accepted) + 1
    BY <1>1, <1>3, FS_AddElement DEF ReplayInv
  <1>5. \A d \in accepted' : \E n \in 0..Len(allMoveList')-1 : d.turn = Turn(n)
    BY <1>1, <1>2 DEF ReplayInv, len
  <1> QED
    BY <1>1, <1>4, <1>5 DEF ReplayInv, ReplayRejected, len

(* A proposal delivered twice never becomes two moves.                      *)
THEOREM ReplaysRejected == Spec => []ReplayRejected
  <1>1. Init /\ TypeOK => ReplayInv
    BY FS_EmptySet DEF Init, ReplayInv, ReplayRejected
  <1>2. ReplayInv /\ TypeOK' /\ [Next]_vars => ReplayInv'
    <2> SUFFICES ASSUME ReplayInv, TypeOK', [Next]_vars
                 PROVE  ReplayInv'
      OBVIOUS
    <2>1. ASSUME NEW c \in Arriving, Accept(c)
          PROVE  ReplayInv'
      BY <2>1, AcceptReplayInv
    <2>2. CASE UNCHANGED <<allMoveList, accepted>>
      BY <2>2 DEF ReplayInv, ReplayRejected
    <2> QED
      BY <2>1, <2>2 DEF Next, handleNewMoveEvent, EvalWinCondition, Reject, DeclareWin, ThinAgain, vars
  <1>3. ReplayInv => ReplayRejected
    BY DEF ReplayInv
  <1> QED
    BY <1>1, <1>2, <1>3, TypeCorrect, PTL DEF Spec

-----------------------------------------------------------------------------
(* The quick checks never turn down a player who has joined the edges *)

(* Tiles that join the edges fill every column: otherwise the tiles before  *)
(* an empty column hold the near edge, are closed under touching (a touch   *)
(* changes the column by at most one) and do not reach the far edge.        *)
LEMMA JoinedFillsColumns ==
    ASSUME NEW p \in Player, NEW T \in SUBSET Vertex, Rules!Joined(p, T),
           NEW k \in 1..SideLenGameboard
    PROVE  \E c \in T : Rules!Column(p, c) = k
  <1> SUFFICES ASSUME \A c \in T : Rules!Column(p, c) # k
               PROVE  FALSE
    OBVIOUS
  <1> DEFINE C == {c \in T : Rules!Column(p, c) < k}
  <1>1. \A c \in T : Rules!Column(p, c) \in 1..SideLenGameboard
    BY DEF Vertex, Rules!Column
  <1>2. SideLenGameboard \in Nat
    BY SideLenAssumption
  <1>3. \A c \in T : Rules!Column(p, c) = 1 => c \in C
    BY <1>1, <1>2
  <1>4. \A c \in C, d \in T : Rules!Touch(c, d) => d \in C
    <2> SUFFICES ASSUME NEW c \in C, NEW d \in T, Rules!Touch(c, d)
                 PROVE  Rules!Column(p, d) < k
      OBVIOUS
    <2>1. Rules!Column(p, d) <= Rules!Column(p, c) + 1
      BY <1>2 DEF Rules!Touch, Rules!Column, Vertex
    <2> QED BY <1>1, <1>2, <2>1
  <1>5. C \in SUBSET T
    OBVIOUS
  <1> HIDE DEF C
  <1>6. PICK c \in C : Rules!Column(p, c) = SideLenGameboard
    BY <1>3, <1>4, <1>5 DEF Rules!Joined
  <1> QED
    BY <1>1, <1>2, <1>6 DEF C

(* A player with a tile in every column has made at least one move for each. *)
LEMMA ColumnsNeedMoves ==
    ASSUME allMoveList \in Seq(Vertex), NEW p \in Player,
           \A k \in 1..SideLenGameboard : \E c \in Cells(p) : Rules!Column(p, c) = k
    PROVE  Len(Own(p, allMoveList)) >= SideLenGameboard
  <1> DEFINE own == Own(p, allMoveList)
             n == Len(own)
             columns == 1..SideLenGameboard
             f == [i \in 1..n |-> Rules!Column(p, own[i])]
  <1>1. own \in Seq(Vertex) /\ n \in Nat
    BY OwnIsSeq
  <1>2. SideLenGameboard \in Nat
    BY SideLenAssumption
  <1>3. IsFiniteSet(1..n) /\ Cardinality(1..n) = n /\ Cardinality(columns) = SideLenGameboard
    <2> HIDE DEF own, n
    <2>1. IsFiniteSet(1..n) /\ Cardinality(1..n) = IF 1 > n THEN 0 ELSE n - 1 + 1
      BY <1>1, FS_Interval
    <2>2. Cardinality(columns) = IF 1 > SideLenGameboard THEN 0 ELSE SideLenGameboard - 1 + 1
      BY <1>2, FS_Interval
    <2> QED BY <1>1, <1>2, <2>1, <2>2
  <1>4. f \in [1..n -> columns]
    <2>1. \A i \in 1..n : own[i] \in Vertex
      BY <1>1
    <2>2. \A v \in Vertex : Rules!Column(p, v) \in columns
      BY DEF Vertex, Rules!Column
    <2> QED BY <2>1, <2>2
  <1>5. \A k \in columns : \E i \in 1..n : f[i] = k
    BY CellsAreMoves
  <1> HIDE DEF f, n, own, columns
  <1>6. f \in Surjection(1..n, columns)
    BY <1>4, <1>5 DEF Surjection
  <1>7. Cardinality(columns) <= Cardinality(1..n)
    BY <1>3, <1>6, FS_Surjection
  <1> QED
    BY <1>3, <1>7 DEF n, own

LEMMA QuickChecksPass == TypeOK => QuickRejectSound
  <1> SUFFICES ASSUME TypeOK, NEW p \in Player, Rules!Joined(p, Cells(p))
               PROVE  EnoughToWin(p, allMoveList)
    BY DEF QuickRejectSound
  <1>1. allMoveList \in Seq(Vertex)
    BY DEF TypeOK
  <1>2. Cells(p) \in SUBSET Vertex
    BY <1>1, CellsAreMoves
  <1>3. \A k \in 1..SideLenGameboard : \E c \in Cells(p) : Rules!Column(p, c) = k
    BY <1>2, JoinedFillsColumns
  <1>4. Len(Own(p, allMoveList)) >= SideLenGameboard
    BY <1>1, <1>3, ColumnsNeedMoves
  <1>5. Len(allMoveList) >= 2 * SideLenGameboard - 1
    <2>1. /\ Len(Own(p, allMoveList)) = (Len(allMoveList) + 1 - FirstIndex(p)) \div 2
          /\ Len(allMoveList) \in Nat /\ FirstIndex(p) \in {0, 1}
      BY <1>1, OwnIsSeq DEF FirstIndex
    <2> QED BY <1>4, <2>1, SideLenAssumption
  <1>6. checkCondition2(OwnMoves(p, allMoveList))
    <2> SUFFICES ASSUME NEW k \in 1..SideLenGameboard
                 PROVE  \E i \in DOMAIN OwnMoves(p, allMoveList) : OwnMoves(p, allMoveList)[i].X = k
      BY DEF checkCondition2
    <2>1. PICK c \in Cells(p) : Rules!Column(p, c) = k
      BY <1>3
    <2>2. PICK i \in 1..Len(Own(p, allMoveList)) : c = Own(p, allMoveList)[i]
      BY <1>1, <2>1, CellsAreMoves
    <2>3. /\ DOMAIN OwnMoves(p, allMoveList) = 1..Len(Own(p, allMoveList))
          /\ OwnMoves(p, allMoveList)[i] = IF p = "B" THEN [X |-> c.Y, Y |-> c.X] ELSE c
      BY <1>1, <2>2, OwnMovesFlip
    <2> QED BY <2>1, <2>2, <2>3 DEF Rules!Column, Player
  <1> QED
    BY <1>5, <1>6 DEF EnoughToWin

(* Whoever has joined the edges passes the quick checks, on any board.      *)
THEOREM QuickRejectsSound == Spec => []QuickRejectSound
  <1> QED
    BY QuickChecksPass, TypeCorrect, PTL

-----------------------------------------------------------------------------
(* What the matrices link *)

(* getAdjacentVertices gives the cells that touch a cell, and touching goes *)
(* both ways.                                                               *)
LEMMA AdjacentTouch ==
    ASSUME NEW u \in Vertex, NEW v \in Vertex
    PROVE  /\ u \in getAdjacentVertices(v) <=> Rules!Touch(v, u)
           /\ Rules!Touch(v, u) <=> Rules!Touch(u, v)
           /\ ~Rules!Touch(v, v)
  <1>1. /\ u.X \in Int /\ u.Y \in Int /\ v.X \in Int /\ v.Y \in Int
        /\ u = [X |-> u.X, Y |-> u.Y]
    BY SideLenAssumption DEF Vertex
  <1>2. u \in getAdjacentVertices(v) <=>
            \/ u.X = v.X - 1 /\ u.Y \in {v.Y, v.Y + 1}
            \/ u.X = v.X     /\ u.Y \in {v.Y - 1, v.Y + 1}
            \/ u.X = v.X + 1 /\ u.Y \in {v.Y - 1, v.Y}
    <2>1. \A x, y : u = [X |-> x, Y |-> y] <=> u.X = x /\ u.Y = y
      BY <1>1
    <2> QED BY <2>1 DEF getAdjacentVertices
  <1> QED BY <1>1, <1>2 DEF Rules!Touch

(* The column of a tile in the flipped list is its row for B. *)
LEMMA FlippedColumn ==
    ASSUME NEW moves \in Seq(Vertex), NEW p \in Player, NEW i \in 1..Len(Own(p, moves))
    PROVE  /\ i \in 1..Len(OwnMoves(p, moves))
           /\ OwnMoves(p, moves)[i].X = IF p = "B" THEN Own(p, moves)[i].Y ELSE Own(p, moves)[i].X
           /\ OwnMoves(p, moves)[i].X = Rules!Column(p, Own(p, moves)[i])
  <1>1. /\ Len(OwnMoves(p, moves)) = Len(Own(p, moves))
        /\ OwnMoves(p, moves)[i] = IF p = "B" THEN [X |-> Own(p, moves)[i].Y, Y |-> Own(p, moves)[i].X]
                                   ELSE Own(p, moves)[i]
    BY OwnMovesFlip
  <1>2. CASE p = "B"
    BY <1>1, <1>2 DEF Rules!Column
  <1>3. CASE p # "B"
    BY <1>1, <1>3 DEF Rules!Column, Player
  <1> QED BY <1>2, <1>3

Linked(p) == \E c, d \in Cells(p) : Rules!Touch(c, d)

(* The far column of HiddenEdgesByColumn, as the condition in the code has  *)
(* it: the witness that every step keeps.                                   *)
HiddenEdgesAsCoded ==
    \A p \in Player : \A i \in 1..Len(OwnMoves(p, allMoveList)) :
        LET column == OwnMoves(p, allMoveList)[i].X
        IN  /\ <<Near, i + 1>> \in adj[p].ones <=> column = 1
            /\ <<Far, i + 1>> \in adj[p].ones <=> column = SideLenGameboard - 1 /\ column # 1

MatrixInv == HiddenEdgesAsCoded /\ TileEdgeIffTouch

LEMMA AcceptMatrixInv ==
    ASSUME IInv, MatrixInv, NEW c \in Candidate, Accept(c)
    PROVE  MatrixInv'
  <1> DEFINE p == ToMove(allMoveList)
             v == Proposed(c)
             moves == Append(allMoveList, v)
             old == Own(p, allMoveList)
             n == Len(old) + 1
             new == IncorporateNewVert(p, moves, adj[p], v)
             axis == IF p = "A" THEN v.X ELSE v.Y
  <1>1. v \in Vertex /\ allMoveList \in Seq(Vertex) /\ p \in Player /\ moves \in Seq(Vertex)
    BY AcceptedCell DEF Accept, IInv, TypeOK, ToMove, Player
  <1>2. /\ Own(p, moves) = Append(old, v)
        /\ \A q \in Player : q # p => Own(q, moves) = Own(q, allMoveList)
    BY <1>1, OwnAppend DEF ToMove, ToMoveOf
  <1>3. /\ old \in Seq(Vertex) /\ n \in Nat /\ n >= 1
        /\ Len(Own(p, moves)) = n /\ Own(p, moves)[n] = v
        /\ \A i \in 1..n-1 : Own(p, moves)[i] = old[i]
    <2>1. old \in Seq(Vertex)
      BY <1>1, OwnIsSeq
    <2> HIDE DEF old, moves
    <2> QED BY <1>1, <1>2, <2>1
  <1>4. /\ allMoveList' = moves
        /\ \A q \in Player : adj'[q] = IF q = p THEN new ELSE adj[q]
    BY <1>1 DEF Accept, IInv, TypeOK
  <1>5. adj[p] \in Matrix(n + 1)
    <2>1. adj[p].size = Len(old) + 2
      BY <1>1, OwnMovesFlip DEF IInv, IndicesInBounds
    <2> QED BY <1>1, <1>3, <2>1 DEF IInv, TypeOK
  <1>6. /\ \A h \in {Near, Far} : \A i \in 1..n-1 :
                <<h, i + 1>> \in new.ones <=> <<h, i + 1>> \in adj[p].ones
        /\ <<Near, n + 1>> \in new.ones <=> axis = 1
        /\ <<Far, n + 1>> \in new.ones <=> axis = SideLenGameboard - 1 /\ axis # 1
        /\ TileEdge(new) <=>
                \/ TileEdge(adj[p])
                \/ \E i \in 1..n-1 : old[i] \in getAdjacentVertices(v)
    <2> HIDE DEF p, v, moves, old, n
    <2>1. /\ Len(Own(p, moves)) >= 1 /\ Own(p, moves)[Len(Own(p, moves))] = v
          /\ adj[p] \in Matrix(Len(Own(p, moves)) + 1)
      BY <1>3, <1>5
    <2> DEFINE own == Own(p, moves)
               m == Len(own)
    <2>2. /\ \A h \in {Near, Far} : \A i \in 1..m-1 :
                <<h, i + 1>> \in new.ones <=> <<h, i + 1>> \in adj[p].ones
          /\ <<Near, m + 1>> \in new.ones <=> axis = 1
          /\ <<Far, m + 1>> \in new.ones <=> axis = SideLenGameboard - 1 /\ axis # 1
          /\ TileEdge(new) <=>
                \/ TileEdge(adj[p])
                \/ \E i \in 1..m-1 : own[i] \in getAdjacentVertices(v)
      <3>1. NewEdges(p, Own(p, moves), v, adj[p], IncorporateNewVert(p, moves, adj[p], v))
        BY <1>1, <2>1, IncorporateNewVertEdges
      <3> QED BY <3>1 DEF NewEdges
    <2>3. m = n /\ \A i \in 1..n-1 : own[i] = old[i]
      BY <1>3
    <2> HIDE DEF own, m, new, axis
    <2> QED BY <2>2, <2>3
  <1>7. Cells(p) = {old[i] : i \in 1..n-1}
    BY <1>1, <1>3, CellsAreMoves
  <1>8. \A q \in Player : Cells(q)' = IF q = p THEN Cells(q) \cup {v} ELSE Cells(q)
    BY <1>1, <1>4, CellsAfterMove
  <1>9. \A q \in Player : \A d \in Cells(q) : d \in Vertex
    BY <1>1, CellsAreMoves
  <1> HIDE DEF p, v, moves, old, n, new, axis
  <1>10. HiddenEdgesAsCoded'
    <2> SUFFICES ASSUME NEW q \in Player, NEW i \in 1..Len(OwnMoves(q, moves))
                 PROVE  LET column == OwnMoves(q, moves)[i].X
                        IN  /\ <<Near, i + 1>> \in adj'[q].ones <=> column = 1
                            /\ <<Far, i + 1>> \in adj'[q].ones <=>
                                    column = SideLenGameboard - 1 /\ column # 1
      BY <1>4 DEF HiddenEdgesAsCoded, OwnMoves
    <2>1. i \in 1..Len(Own(q, moves))
      BY <1>1, OwnMovesFlip
    <2>2. OwnMoves(q, moves)[i].X = IF q = "B" THEN Own(q, moves)[i].Y ELSE Own(q, moves)[i].X
      BY <1>1, <2>1, FlippedColumn
    <2>3. \A j \in 1..Len(Own(q, allMoveList)) :
            /\ j \in 1..Len(OwnMoves(q, allMoveList))
            /\ OwnMoves(q, allMoveList)[j].X =
                    IF q = "B" THEN Own(q, allMoveList)[j].Y ELSE Own(q, allMoveList)[j].X
      BY <1>1, FlippedColumn
    <2>4. CASE i \in 1..Len(Own(q, allMoveList)) /\ Own(q, moves)[i] = Own(q, allMoveList)[i]
      <3>1. OwnMoves(q, moves)[i].X = OwnMoves(q, allMoveList)[i].X
        BY <2>2, <2>3, <2>4
      <3>2. \A h \in {Near, Far} : <<h, i + 1>> \in adj'[q].ones <=> <<h, i + 1>> \in adj[q].ones
        <4>1. q = p => i \in 1..n-1
          BY <1>3, <2>4 DEF n, old
        <4> QED BY <1>4, <1>6, <4>1
      <3> QED BY <2>3, <2>4, <3>1, <3>2 DEF MatrixInv, HiddenEdgesAsCoded
    <2>5. CASE q = p /\ i = n
      BY <1>1, <1>3, <1>4, <1>6, <2>2, <2>5 DEF axis, Player
    <2>6. \/ q = p /\ i = n
          \/ i \in 1..Len(Own(q, allMoveList)) /\ Own(q, moves)[i] = Own(q, allMoveList)[i]
      <3>1. CASE q = p
        BY <1>3, <2>1, <3>1 DEF n, old
      <3>2. CASE q # p
        BY <1>2, <2>1, <3>2
      <3> QED BY <3>1, <3>2
    <2> QED BY <2>4, <2>5, <2>6
  <1>11. \A q \in Player : TileEdge(adj'[q]) <=> Linked(q)'
    <2> SUFFICES ASSUME NEW q \in Player PROVE TileEdge(adj'[q]) <=> Linked(q)'
      OBVIOUS
    <2>1. TileEdge(adj[q]) <=> Linked(q)
      BY DEF MatrixInv, TileEdgeIffTouch, TileEdge, Linked
    <2>2. CASE q # p
      BY <1>4, <1>8, <2>1, <2>2 DEF Linked
    <2>3. CASE q = p
      <3>1. \A d \in Cells(q) : /\ d \in getAdjacentVertices(v) <=> Rules!Touch(v, d)
                                /\ Rules!Touch(v, d) <=> Rules!Touch(d, v)
        BY <1>1, <1>9, AdjacentTouch
      <3>2. (\E i \in 1..n-1 : old[i] \in getAdjacentVertices(v)) <=> \E d \in Cells(q) : Rules!Touch(v, d)
        BY <1>7, <2>3, <3>1
      <3>3. ~Rules!Touch(v, v)
        BY <1>1, AdjacentTouch
      <3>4. Linked(q)' <=> \E d, e \in Cells(q) \cup {v} : Rules!Touch(d, e)
        <4>1. Cells(q)' = Cells(q) \cup {v}
          BY <1>8, <2>3
        <4> QED BY <4>1 DEF Linked, Rules!Touch
      <3>5. Linked(q)' <=> Linked(q) \/ \E d \in Cells(q) : Rules!Touch(v, d)
        BY <3>1, <3>3, <3>4 DEF Linked
      <3> QED BY <1>4, <1>6, <2>1, <2>3, <3>2, <3>5
    <2> QED BY <2>2, <2>3
  <1>12. TileEdgeIffTouch'
    BY <1>11 DEF TileEdgeIffTouch, TileEdge, Linked
  <1> QED BY <1>10, <1>12 DEF MatrixInv

LEMMA InitMatrixInv == Init => MatrixInv
  <1> SUFFICES ASSUME Init PROVE MatrixInv
    OBVIOUS
  <1>1. allMoveList = <<>> /\ <<>> \in Seq(Vertex) /\ Len(<<>>) = 0
    BY DEF Init
  <1>2. \A p \in Player : Len(Own(p, allMoveList)) = 0
    <2>1. \A p \in Player : Len(Own(p, allMoveList)) = (0 + 1 - FirstIndex(p)) \div 2
      BY <1>1, OwnIsSeq
    <2> QED BY <2>1 DEF FirstIndex
  <1>3. \A p \in Player : Cells(p) = {} /\ Len(OwnMoves(p, allMoveList)) = 0
    <2>1. \A p \in Player : Cells(p) = {Own(p, allMoveList)[i] : i \in 1..Len(Own(p, allMoveList))}
      BY <1>1, CellsAreMoves
    <2>2. \A p \in Player : Len(OwnMoves(p, allMoveList)) = Len(Own(p, allMoveList))
      BY <1>1, OwnMovesFlip
    <2> QED BY <1>2, <2>1, <2>2
  <1>4. \A p \in Player : adj[p].ones = {}
    BY DEF Init, Empty
  <1> QED
    BY <1>3, <1>4 DEF MatrixInv, HiddenEdgesAsCoded, TileEdgeIffTouch

LEMMA NextMatrixInv == IInv /\ MatrixInv /\ [Next]_vars => MatrixInv'
  <1> SUFFICES ASSUME IInv, MatrixInv, [Next]_vars PROVE MatrixInv'
    OBVIOUS
  <1>1. ASSUME NEW c \in Arriving, Accept(c)
        PROVE  MatrixInv'
    BY <1>1, AcceptMatrixInv, ArrivingType DEF IInv
  <1>2. CASE UNCHANGED <<allMoveList, adj>>
    BY <1>2 DEF MatrixInv, HiddenEdgesAsCoded, TileEdgeIffTouch, OwnMoves, Cells
  <1> QED
    BY <1>1, <1>2 DEF Next, handleNewMoveEvent, EvalWinCondition, Reject, DeclareWin, ThinAgain, vars

THEOREM MatrixCorrect == Spec => []MatrixInv
  <1> QED
    BY InitMatrixInv, NextMatrixInv, Inductive, PTL DEF Spec

(* On any board, each hidden point is linked to a player's tiles of one     *)
(* column and to no other tile, the same column for both players.           *)
THEOREM HiddenPointsLinked == Spec => []HiddenEdgesByColumn
  <1>1. MatrixInv => HiddenEdgesByColumn
    BY DEF MatrixInv, HiddenEdgesAsCoded, HiddenEdgesByColumn
  <1> QED
    BY <1>1, MatrixCorrect, PTL

(* On any board, a matrix links tiles exactly when two of them touch.      *)
THEOREM TilesLinkedIffTouch == Spec => []TileEdgeIffTouch
  <1>1. MatrixInv => TileEdgeIffTouch
    BY DEF MatrixInv
  <1> QED
    BY <1>1, MatrixCorrect, PTL

-----------------------------------------------------------------------------
(* Whoever is declared the winner has a tile in every column *)

(* Thinning with foreign indices drops tiles; it never invents one.        *)
SpanInv ==
    /\ DeclaredSpansBoard
    /\ pc = "thin" =>
         /\ checkCondition2(thinnedMoveList)
         /\ \A i \in DOMAIN thinnedMoveList :
               \E c \in Cells(mover) : Rules!Column(mover, c) = thinnedMoveList[i].X

LEMMA AcceptSpanInv ==
    ASSUME IInv, SpanInv, NEW c \in Candidate, Accept(c)
    PROVE  SpanInv'
  <1> DEFINE p == ToMove(allMoveList)
             v == Proposed(c)
             moves == Append(allMoveList, v)
  <1>1. v \in Vertex /\ allMoveList \in Seq(Vertex) /\ p \in Player /\ moves \in Seq(Vertex)
    BY AcceptedCell DEF Accept, IInv, TypeOK, ToMove, Player
  <1>2. /\ allMoveList' = moves /\ mover' = p /\ declared' = declared
        /\ \/ pc' = "idle"
           \/ /\ pc' = "thin" /\ EnoughToWin(p, moves)
              /\ thinnedMoveList' = OwnMoves(p, moves)
    BY DEF Accept
  <1>3. \A q \in Player : Cells(q)' = IF q = p THEN Cells(q) \cup {v} ELSE Cells(q)
    BY <1>1, <1>2, CellsAfterMove
  <1>4. DeclaredSpansBoard'
    BY <1>2, <1>3 DEF SpanInv, DeclaredSpansBoard, IInv, TypeOK, Rules!Column
  <1> HIDE DEF p, v, moves
  <1>5. /\ DOMAIN OwnMoves(p, moves) = 1..Len(Own(p, moves))
        /\ \A i \in 1..Len(Own(p, moves)) :
              OwnMoves(p, moves)[i].X = Rules!Column(p, Own(p, moves)[i])
    BY <1>1, OwnMovesFlip, FlippedColumn
  <1>6. CASE pc' = "thin"
    <2>1. checkCondition2(thinnedMoveList)'
      BY <1>2, <1>6 DEF EnoughToWin, checkCondition2
    <2>2. ASSUME NEW i \in DOMAIN thinnedMoveList'
          PROVE  \E d \in Cells(mover)' : Rules!Column(mover', d) = thinnedMoveList'[i].X
      <3>1. /\ mover' = p /\ allMoveList' = moves /\ thinnedMoveList' = OwnMoves(p, moves)
            /\ i \in 1..Len(Own(p, moves))
        BY <1>2, <1>5, <1>6, <2>2
      <3>2. Own(p, moves) \in Seq(Vertex)
        BY <1>1, OwnIsSeq
      <3>3. Own(p, moves)[i] \in Cells(mover)'
        BY <3>1, <3>2 DEF Cells, Own
      <3> QED BY <1>5, <3>1, <3>3
    <2> QED BY <1>4, <2>1, <2>2 DEF SpanInv, Rules!Column
  <1> QED
    BY <1>2, <1>4, <1>6 DEF SpanInv

LEMMA ThinAgainSpanInv ==
    ASSUME IInv, SpanInv, ThinAgain
    PROVE  SpanInv'
  <1>1. /\ UNCHANGED <<allMoveList, mover, declared>>
        /\ pc' = "thin" => checkCondition2(thinnedMoveList)'
        /\ pc' = "thin" => thinnedMoveList' = removeVerts_moveList(thinnedMoveList, Low)
    BY DEF ThinAgain, checkCondition2
  <1>2. \A d \in Player : Cells(d)' = Cells(d)
    BY <1>1 DEF Cells
  <1>3. mover \in Player
    BY DEF IInv, TypeOK
  <1>4. DeclaredSpansBoard'
    BY <1>1, <1>2 DEF SpanInv, DeclaredSpansBoard, IInv, TypeOK, Rules!Column
  <1>5. ASSUME pc' = "thin", NEW i \in DOMAIN thinnedMoveList'
        PROVE  \E d \in Cells(mover)' : Rules!Column(mover, d) = thinnedMoveList'[i].X
    <2>1. PICK j \in DOMAIN thinnedMoveList : thinnedMoveList'[i] = thinnedMoveList[j]
      BY <1>1, <1>5, RemoveVertsType DEF IInv, TypeOK
    <2> QED BY <1>2, <1>3, <2>1 DEF SpanInv, ThinAgain
  <1> QED
    BY <1>1, <1>4, <1>5 DEF SpanInv, Rules!Column

LEMMA NextSpanInv == IInv /\ SpanInv /\ [Next]_vars => SpanInv'
  <1> SUFFICES ASSUME IInv, SpanInv, [Next]_vars PROVE SpanInv'
    OBVIOUS
  <1>1. ASSUME NEW c \in Arriving, Accept(c)
        PROVE  SpanInv'
    BY <1>1, AcceptSpanInv, ArrivingType DEF IInv
  <1>2. CASE DeclareWin
    <2>1. /\ UNCHANGED <<allMoveList, mover>> /\ pc' = "idle" /\ pc = "thin"
          /\ declared' = declared \cup {mover}
      BY <1>2 DEF DeclareWin
    <2>2. \A k \in 1..SideLenGameboard : \E d \in Cells(mover) : Rules!Column(mover, d) = k
      BY <2>1 DEF SpanInv, checkCondition2
    <2> QED BY <2>1, <2>2 DEF SpanInv, DeclaredSpansBoard, Cells, Rules!Column
  <1>3. CASE ThinAgain
    BY <1>3, ThinAgainSpanInv
  <1>4. CASE UNCHANGED vars
    BY <1>4 DEF vars, SpanInv, DeclaredSpansBoard, Cells, Rules!Column, checkCondition2
  <1>5. ASSUME NEW c \in Arriving, Reject(c)
        PROVE  SpanInv'
    BY <1>4, <1>5 DEF Reject
  <1> QED
    BY <1>1, <1>2, <1>3, <1>4, <1>5 DEF Next, handleNewMoveEvent, EvalWinCondition

(* On any board, only a player with a tile in every column is declared the *)
(* winner, however the matrix was thinned.                                 *)
THEOREM WinnersSpanBoard == Spec => []DeclaredSpansBoard
  <1>1. Init => SpanInv
    BY DEF Init, SpanInv, DeclaredSpansBoard
  <1>2. SpanInv => DeclaredSpansBoard
    BY DEF SpanInv
  <1> QED
    BY <1>1, <1>2, NextSpanInv, Inductive, PTL DEF Spec
=============================================================================
