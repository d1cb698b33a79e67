---------------------------- MODULE TallyProofs ----------------------------
(***************************************************************************)
(* A tally is a sum: it is zero over nothing, and grows or shrinks by f[n] *)
(* when n joins or leaves.                                                 *)
(***************************************************************************)
EXTENDS Tally, TLAPS, FiniteSetTheorems

(* x is the sum of f over S, which counts finitely many pieces.            *)
IsTally(S, f, x) == IsFiniteSet(Pieces(S, f)) /\ x = Tally(S, f)

(* The pieces of one element.                                              *)
LEMMA PiecesOfOne ==
  ASSUME NEW n, NEW k \in Nat
  PROVE  IsFiniteSet({n} \X (1..k)) /\ Cardinality({n} \X (1..k)) = k
  <1>1. IsFiniteSet({n}) /\ Cardinality({n}) = 1
    BY FS_Singleton
  <1>2. IsFiniteSet(1..k) /\ Cardinality(1..k) = k
    <2>1. 1 \in Int /\ k \in Int /\ (1 > k => k = 0)
      OBVIOUS
    <2> QED
      BY <2>1, FS_Interval
  <1>3. Cardinality({n}) * Cardinality(1..k) = k
    BY <1>1, <1>2
  <1> QED
    BY <1>1, <1>2, <1>3, FS_Product

LEMMA TallyType == ASSUME NEW S, NEW f, NEW x, IsTally(S, f, x) PROVE x \in Nat
  BY FS_CardinalityType DEF IsTally, Tally

(* Nothing is tallied over nothing.                                        *)
LEMMA TallyOfNone == ASSUME NEW f PROVE IsTally({}, f, 0)
  <1>1. Pieces({}, f) = {}
    BY DEF Pieces
  <1> QED
    BY <1>1, FS_EmptySet DEF IsTally, Tally

(* A tally looks at f over S only.                                         *)
LEMMA TallyOfSame ==
  ASSUME NEW S, NEW f, NEW g, \A n \in S : f[n] = g[n], NEW x, IsTally(S, f, x)
  PROVE  IsTally(S, g, x)
  <1>1. Pieces(S, f) = Pieces(S, g)
    BY DEF Pieces
  <1> QED
    BY <1>1 DEF IsTally, Tally

LEMMA TallyOfMore ==
  ASSUME NEW S, NEW f, NEW x, IsTally(S, f, x), NEW n, n \notin S, f[n] \in Nat
  PROVE  IsTally(S \cup {n}, f, x + f[n])
  <1> DEFINE P == Pieces(S, f)
             Q == {n} \X (1..f[n])
  <1>1. Pieces(S \cup {n}, f) = P \cup Q
    BY DEF Pieces
  <1>2. P \cap Q = {}
    BY DEF Pieces
  <1>3. IsFiniteSet(P) /\ Cardinality(P) = x /\ x \in Nat
    BY FS_CardinalityType DEF IsTally, Tally
  <1>4. IsFiniteSet(Q) /\ Cardinality(Q) = f[n]
    BY PiecesOfOne
  <1>5. Cardinality(P \cap Q) = 0
    BY <1>2, FS_EmptySet
  <1> HIDE DEF P, Q
  <1>6. IsFiniteSet(P \cup Q)
        /\ Cardinality(P \cup Q) = Cardinality(P) + Cardinality(Q) - Cardinality(P \cap Q)
    BY <1>3, <1>4, FS_Union
  <1>7. Cardinality(P \cup Q) = x + f[n]
    BY <1>3, <1>4, <1>5, <1>6
  <1>8. IsFiniteSet(Pieces(S \cup {n}, f)) /\ x + f[n] = Cardinality(Pieces(S \cup {n}, f))
    BY <1>1, <1>6, <1>7
  <1> QED
    BY <1>8 DEF IsTally, Tally

LEMMA TallyOfLess ==
  ASSUME NEW S, NEW f, NEW x, IsTally(S, f, x), NEW n \in S, f[n] \in Nat
  PROVE  IsTally(S \ {n}, f, x - f[n])
  <1> DEFINE R == S \ {n}
             y == Tally(R, f)
  <1>1. Pieces(R, f) \subseteq Pieces(S, f)
    BY DEF Pieces
  <1>2. IsTally(R, f, y) /\ y \in Nat
    BY <1>1, FS_Subset, FS_CardinalityType DEF IsTally, Tally
  <1>3. n \notin R /\ R \cup {n} = S
    OBVIOUS
  <1> HIDE DEF R, y
  <1>4. IsTally(R \cup {n}, f, y + f[n])
    BY <1>2, <1>3, TallyOfMore
  <1>5. x = y + f[n]
    BY <1>3, <1>4 DEF IsTally
  <1> QED
    BY <1>2, <1>5 DEF R
=============================================================================
