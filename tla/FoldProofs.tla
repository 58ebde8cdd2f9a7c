------------------------------ MODULE FoldProofs -------------------------------
(****************************************************************************)
(* What the folds of the community modules compute.  The induction theorems *)
(* of the library take a predicate as a parameter; here a predicate is the  *)
(* set of the values it holds for, and a fold is given by a function on     *)
(* pairs, so that everything below can be cited by name.                    *)
(****************************************************************************)
EXTENDS Integers, SequencesExt, FiniteSetsExt, FiniteSetTheorems, SequenceTheorems,
        WellFoundedInduction, TLAPS

-----------------------------------------------------------------------------
(* Induction *)

LEMMA SubsetsWellFounded ==
  ASSUME NEW S, IsFiniteSet(S)
  PROVE  IsWellFoundedOn(StrictSubsetOrdering(S), SUBSET S)
<1>1. IsWellFoundedOn(StrictSubsetOrdering(S), FiniteSubsetsOf(S))
  BY FS_StrictSubsetOrderingWellFounded
<1>2. FiniteSubsetsOf(S) = SUBSET S
  BY FS_FiniteSubsetsOfFinite
<1> QED
  BY <1>1, <1>2

LEMMA SubsetInduction ==
  ASSUME NEW S, IsFiniteSet(S), NEW G,
         \A T \in SUBSET S : (\A U \in SUBSET T : U # T => U \in G) => T \in G
  PROVE  S \in G
<1> DEFINE Out == {T \in SUBSET S : T \notin G}
<1> SUFFICES ASSUME Out # {} PROVE FALSE
  OBVIOUS
<1>1. Out \subseteq SUBSET S
  OBVIOUS
<1>2. IsWellFoundedOn(StrictSubsetOrdering(S), SUBSET S)
  BY SubsetsWellFounded
<1>3. PICK T \in Out : \A U \in Out : <<U, T>> \notin StrictSubsetOrdering(S)
  <2> HIDE DEF Out
  <2> QED
    BY <1>1, <1>2, WFMin
<1>4. \A U \in SUBSET T : U # T => U \in G
  BY <1>3 DEF StrictSubsetOrdering
<1> QED
  BY <1>3, <1>4

LEMMA LeastElement ==
  ASSUME NEW T, T \subseteq Nat, T # {}
  PROVE  \E n \in T : \A m \in T : n <= m
<1>1. PICK top : top \in T
  OBVIOUS
<1> DEFINE Cuts == {0..(m - 1) : m \in {k \in T : k <= top}}
<1>2. Cuts \subseteq SUBSET (0..top) /\ Cuts # {}
  BY <1>1
<1>3. IsWellFoundedOn(StrictSubsetOrdering(0..top), SUBSET (0..top))
  <2>1. top \in Nat /\ IsFiniteSet(0..top)
    BY <1>1, FS_Interval
  <2> QED
    BY <2>1, SubsetsWellFounded
<1>4. PICK s \in Cuts : \A t \in Cuts : <<t, s>> \notin StrictSubsetOrdering(0..top)
  <2> HIDE DEF Cuts
  <2> QED
    BY <1>2, <1>3, WFMin
<1>5. PICK n \in T : n <= top /\ s = 0..(n - 1)
  BY <1>4
<1>6. ASSUME NEW m \in T, m < n PROVE FALSE
  <2>1. m \in Nat /\ n \in Nat /\ top \in Nat
    BY <1>1
  <2>2. 0..(m - 1) \in Cuts
    BY <1>5, <1>6, <2>1
  <2>3. 0..(m - 1) \subseteq 0..(n - 1) /\ m \in 0..(n - 1) /\ m \notin 0..(m - 1)
    BY <1>6, <2>1
  <2>4. 0..(m - 1) \subseteq 0..top /\ 0..(n - 1) \subseteq 0..top
    BY <1>5, <1>6, <2>1
  <2> HIDE DEF Cuts
  <2> QED
    BY <1>4, <1>5, <2>2, <2>3, <2>4 DEF StrictSubsetOrdering
<1> QED
  BY <1>6

LEMMA Induction ==
  ASSUME NEW T, 0 \in T, \A n \in Nat : n \in T => n + 1 \in T
  PROVE  \A n \in Nat : n \in T
<1> DEFINE Out == {n \in Nat : n \notin T}
<1> SUFFICES ASSUME Out # {} PROVE FALSE
  OBVIOUS
<1>1. PICK n \in Out : \A m \in Out : n <= m
  <2>1. Out \subseteq Nat
    OBVIOUS
  <2> HIDE DEF Out
  <2> QED
    BY <2>1, LeastElement
<1>2. n \in Nat /\ n \notin T /\ n # 0
  BY <1>1
<1>3. n - 1 \in Nat /\ n - 1 < n
  BY <1>2
<1>4. n - 1 \in T
  BY <1>1, <1>3
<1> QED
  BY <1>2, <1>3, <1>4

-----------------------------------------------------------------------------
(* The table of a fold: its result on each subset, by an element at a time. *)

Choice(c, S) == \A s \in SUBSET S : s # {} => c[s] \in s

FoldStep(it, base, c, step, s) ==
  IF s = {} THEN base ELSE step[<<c[s], it[s \ {c[s]}]>>]

Tabled(S, A, base, c, step) ==
  IsFiniteSet(S) /\ base \in A /\ Choice(c, S) /\ step \in [S \X A -> A]

Table(it, S, A, base, c, step) ==
  it \in [SUBSET S -> A] /\ \A s \in SUBSET S : it[s] = FoldStep(it, base, c, step, s)

LEMMA TableExists ==
  ASSUME NEW S, NEW A, NEW base, NEW c, NEW step, Tabled(S, A, base, c, step)
  PROVE  \E it : Table(it, S, A, base, c, step)
<1> USE DEF Tabled
<1> DEFINE Upto(it, k) ==
      \A s \in SUBSET S : Cardinality(s) <= k => it[s] = FoldStep(it, base, c, step, s)
<1> DEFINE T == {k \in Nat : \E it \in [SUBSET S -> A] : Upto(it, k)}
<1>1. \A s \in SUBSET S : IsFiniteSet(s) /\ Cardinality(s) \in Nat
  BY FS_Subset, FS_CardinalityType
<1>2. 0 \in T
  <2>1. [s \in SUBSET S |-> base] \in [SUBSET S -> A]
    OBVIOUS
  <2>2. \A s \in SUBSET S : Cardinality(s) <= 0 => s = {}
    BY <1>1, FS_EmptySet
  <2>3. Upto([s \in SUBSET S |-> base], 0)
    BY <2>2 DEF FoldStep
  <2> QED
    BY <2>1, <2>3
<1>3. ASSUME NEW k \in Nat, k \in T PROVE k + 1 \in T
  <2>1. PICK it \in [SUBSET S -> A] : Upto(it, k)
    BY <1>3
  <2> DEFINE jt == [s \in SUBSET S |-> IF Cardinality(s) <= k THEN it[s]
                                       ELSE FoldStep(it, base, c, step, s)]
  <2>2. \A s \in SUBSET S : s # {} => s \ {c[s]} \in SUBSET S /\ <<c[s], it[s \ {c[s]}]>> \in S \X A
    BY DEF Choice
  <2>3. jt \in [SUBSET S -> A]
    BY <2>2 DEF FoldStep
  <2>4. \A s \in SUBSET S : s # {} => Cardinality(s \ {c[s]}) = Cardinality(s) - 1
    BY <1>1, FS_RemoveElement DEF Choice
  <2>5. ASSUME NEW s \in SUBSET S, Cardinality(s) <= k + 1
        PROVE  jt[s] = FoldStep(jt, base, c, step, s)
    <3>1. jt[s] = FoldStep(it, base, c, step, s)
      BY <2>1
    <3>2. s # {} => jt[s \ {c[s]}] = it[s \ {c[s]}]
      BY <1>1, <2>2, <2>4, <2>5
    <3> HIDE DEF jt
    <3> QED
      BY <3>1, <3>2 DEF FoldStep
  <2>6. Upto(jt, k + 1)
    BY <2>5
  <2> HIDE DEF jt, Upto
  <2> QED
    BY <2>3, <2>6
<1>4. Cardinality(S) \in T
  <2>1. \A n \in Nat : n \in T
    <3> HIDE DEF T
    <3> QED
      BY <1>2, <1>3, Induction
  <2> QED
    BY <1>1, <2>1
<1>5. PICK it \in [SUBSET S -> A] : Upto(it, Cardinality(S))
  BY <1>4
<1>6. \A s \in SUBSET S : Cardinality(s) <= Cardinality(S)
  BY FS_Subset
<1> QED
  BY <1>5, <1>6 DEF Table

(* Two tables that go on alike where they agree are the same.               *)
Alike(S, c, it, jt) ==
  /\ IsFiniteSet(S) /\ Choice(c, S) /\ it[{}] = jt[{}]
  /\ \A s \in SUBSET S : s # {} /\ it[s \ {c[s]}] = jt[s \ {c[s]}] => it[s] = jt[s]

LEMMA SameTable ==
  ASSUME NEW S, NEW c, NEW it, NEW jt, Alike(S, c, it, jt)
  PROVE  it[S] = jt[S]
<1> USE DEF Alike
<1> DEFINE G == {s \in SUBSET S : it[s] = jt[s]}
<1>1. ASSUME NEW T \in SUBSET S, \A U \in SUBSET T : U # T => U \in G
      PROVE  T \in G
  <2>1. CASE T = {}
    BY <2>1
  <2>2. CASE T # {}
    <3>1. c[T] \in T /\ T \ {c[T]} \in SUBSET T /\ T \ {c[T]} # T
      BY <2>2 DEF Choice
    <3>2. T \ {c[T]} \in G
      BY <1>1, <3>1
    <3> QED
      BY <2>2, <3>2
  <2> QED
    BY <2>1, <2>2
<1>2. S \in G
  <2> HIDE DEF G
  <2> QED
    BY <1>1, SubsetInduction
<1> QED
  BY <1>2

-----------------------------------------------------------------------------
(* A fold over a sequence, from the left, of a function g on pairs. *)

Fold(g, base, seq) == FoldLeft(LAMBDA a, e : g[<<a, e>>], base, seq)

Folds(A, E, g, base, seq) == base \in A /\ g \in [A \X E -> A] /\ seq \in Seq(E)

MaxOf(seq) == [s \in SUBSET DOMAIN seq |-> Max(s)]

LEMMA MaxIn ==
  ASSUME NEW n \in Nat, NEW s \in SUBSET (1..n), s # {}
  PROVE  Max(s) \in s /\ \A y \in s : y <= Max(s)
<1> DEFINE T == {k \in Nat : \E y \in s : k = n - y}
<1>1. \A y \in s : y \in Nat /\ n - y \in Nat
  OBVIOUS
<1>2. PICK k \in T : \A m \in T : k <= m
  <2>1. T \subseteq Nat /\ T # {}
    BY <1>1
  <2> HIDE DEF T
  <2> QED
    BY <2>1, LeastElement
<1>3. PICK x \in s : k = n - x
  BY <1>2
<1>4. \A y \in s : y <= x
  BY <1>1, <1>2, <1>3
<1> QED
  BY <1>4 DEF Max

LEMMA MaxChooses ==
  ASSUME NEW E, NEW seq \in Seq(E)
  PROVE  /\ IsFiniteSet(DOMAIN seq) /\ Choice(MaxOf(seq), DOMAIN seq)
         /\ \A s \in SUBSET DOMAIN seq : s # {} => MaxOf(seq)[s] = Max(s) /\ Max(s) \in DOMAIN seq
<1>1. DOMAIN seq = 1..Len(seq) /\ Len(seq) \in Nat
  OBVIOUS
<1>2. IsFiniteSet(1..Len(seq))
  BY <1>1, FS_Interval
<1>3. \A s \in SUBSET DOMAIN seq : s # {} => Max(s) \in s
  BY <1>1, MaxIn
<1> QED
  BY <1>1, <1>2, <1>3 DEF Choice, MaxOf

(* The results on the beginnings of the sequence.                           *)
FoldTable(it, A, g, base, seq) ==
  /\ it \in [SUBSET DOMAIN seq -> A]
  /\ it[{}] = base
  /\ \A s \in SUBSET DOMAIN seq : s # {} => it[s] = g[<<it[s \ {Max(s)}], seq[Max(s)]>>]

LEMMA FoldTableExists ==
  ASSUME NEW A, NEW E, NEW g, NEW base, NEW seq, Folds(A, E, g, base, seq)
  PROVE  \E it : FoldTable(it, A, g, base, seq) /\ Fold(g, base, seq) = it[DOMAIN seq]
<1> DEFINE D == DOMAIN seq
<1> DEFINE step == [x \in D \X A |-> g[<<x[2], seq[x[1]]>>]]
<1>1. base \in A /\ g \in [A \X E -> A] /\ seq \in Seq(E) /\ step \in [D \X A -> A]
  BY DEF Folds
<1>2. IsFiniteSet(D) /\ Choice(MaxOf(seq), D)
      /\ \A s \in SUBSET D : s # {} => MaxOf(seq)[s] = Max(s) /\ Max(s) \in D
  BY <1>1, MaxChooses
<1>3. PICK it : Table(it, D, A, base, MaxOf(seq), step)
  <2>1. Tabled(D, A, base, MaxOf(seq), step)
    BY <1>1, <1>2 DEF Tabled
  <2> HIDE DEF D, step
  <2> QED
    BY <2>1, TableExists
<1>4. FoldTable(it, A, g, base, seq)
  BY <1>1, <1>2, <1>3 DEF FoldTable, FoldStep, Table
<1> DEFINE Rec(jt) ==
      jt = [s \in SUBSET D |-> IF s = {} THEN base ELSE g[<<jt[s \ {Max(s)}], seq[Max(s)]>>]]
<1>5. Rec(it)
  BY <1>4 DEF FoldTable
<1>6. PICK jt : Rec(jt) /\ Fold(g, base, seq) = jt[D]
  BY <1>5 DEF Fold, FoldLeft, MapThenFoldSet
<1>7. Alike(D, MaxOf(seq), it, jt)
  <2>1. jt[{}] = base /\ \A s \in SUBSET D : s # {} => jt[s] = g[<<jt[s \ {Max(s)}], seq[Max(s)]>>]
    BY <1>6
  <2>2. it[{}] = base /\ \A s \in SUBSET D : s # {} => it[s] = g[<<it[s \ {Max(s)}], seq[Max(s)]>>]
    BY <1>4 DEF FoldTable
  <2> HIDE DEF D, Rec
  <2> QED
    BY <1>2, <2>1, <2>2 DEF Alike
<1>8. it[D] = jt[D]
  BY <1>7, SameTable
<1> QED
  BY <1>4, <1>6, <1>8

LEMMA FoldType ==
  ASSUME NEW A, NEW E, NEW g, NEW base, NEW seq, Folds(A, E, g, base, seq)
  PROVE  Fold(g, base, seq) \in A
<1>1. PICK it : FoldTable(it, A, g, base, seq) /\ Fold(g, base, seq) = it[DOMAIN seq]
  BY FoldTableExists
<1> QED
  BY <1>1 DEF FoldTable

LEMMA FoldEmpty ==
  ASSUME NEW A, NEW E, NEW g, NEW base, Folds(A, E, g, base, <<>>)
  PROVE  Fold(g, base, <<>>) = base
<1>1. PICK it : FoldTable(it, A, g, base, <<>>) /\ Fold(g, base, <<>>) = it[DOMAIN <<>>]
  BY FoldTableExists
<1>2. DOMAIN <<>> = {}
  OBVIOUS
<1> QED
  BY <1>1, <1>2 DEF FoldTable

LEMMA FoldAppend ==
  ASSUME NEW A, NEW E, NEW g, NEW base, NEW seq, Folds(A, E, g, base, seq), NEW e \in E
  PROVE  Fold(g, base, Append(seq, e)) = g[<<Fold(g, base, seq), e>>]
<1> DEFINE n == Len(seq)
<1> DEFINE longer == Append(seq, e)
<1>0. seq \in Seq(E)
  BY DEF Folds
<1>1. PICK it : FoldTable(it, A, g, base, seq) /\ Fold(g, base, seq) = it[DOMAIN seq]
  BY FoldTableExists
<1>2. Folds(A, E, g, base, longer)
  <2>1. longer \in Seq(E)
    BY <1>0
  <2> QED
    BY <2>1 DEF Folds
<1>3. PICK jt : FoldTable(jt, A, g, base, longer) /\ Fold(g, base, longer) = jt[DOMAIN longer]
  <2> HIDE DEF longer
  <2> QED
    BY <1>2, FoldTableExists
<1>4. /\ n \in Nat /\ DOMAIN seq = 1..n /\ DOMAIN longer = 1..(n + 1)
      /\ longer[n + 1] = e /\ \A i \in 1..n : longer[i] = seq[i]
  BY <1>0
<1>5. Alike(DOMAIN seq, MaxOf(seq), it, jt)
  <2>1. IsFiniteSet(DOMAIN seq) /\ Choice(MaxOf(seq), DOMAIN seq)
        /\ \A s \in SUBSET DOMAIN seq : s # {} => MaxOf(seq)[s] = Max(s) /\ Max(s) \in DOMAIN seq
    BY <1>0, MaxChooses
  <2>2. it[{}] = jt[{}]
    BY <1>1, <1>3 DEF FoldTable
  <2>3. SUBSET DOMAIN seq \subseteq SUBSET DOMAIN longer
    BY <1>4
  <2>4. ASSUME NEW s \in SUBSET DOMAIN seq, s # {}, it[s \ {Max(s)}] = jt[s \ {Max(s)}]
        PROVE  it[s] = jt[s]
    <3>1. s \in SUBSET DOMAIN longer /\ Max(s) \in DOMAIN seq /\ longer[Max(s)] = seq[Max(s)]
      BY <1>4, <2>1, <2>3, <2>4
    <3> HIDE DEF longer
    <3> QED
      BY <1>1, <1>3, <2>4, <3>1 DEF FoldTable
  <2> QED
    BY <2>1, <2>2, <2>4 DEF Alike
<1>6. Max(1..(n + 1)) = n + 1
  <2>1. 1..(n + 1) # {} /\ n + 1 \in Nat /\ n + 1 \in 1..(n + 1)
    BY <1>4
  <2>2. Max(1..(n + 1)) \in 1..(n + 1) /\ n + 1 <= Max(1..(n + 1))
    BY <2>1, MaxIn
  <2> QED
    BY <1>4, <2>2
<1>7. (1..(n + 1)) \ {n + 1} = 1..n /\ 1..(n + 1) # {}
  BY <1>4
<1>8. jt[1..(n + 1)] = g[<<jt[1..n], e>>]
  <2> HIDE DEF longer
  <2> QED
    BY <1>3, <1>4, <1>6, <1>7 DEF FoldTable
<1>9. it[DOMAIN seq] = jt[DOMAIN seq]
  <2> HIDE DEF longer
  <2> QED
    BY <1>5, SameTable
<1> QED
  BY <1>1, <1>3, <1>4, <1>8, <1>9

(* A table that goes on like the fold ends like it.                         *)
GoesOn(jt, A, g, base, seq) ==
  /\ jt[{}] = base
  /\ \A s \in SUBSET DOMAIN seq :
       s # {} /\ Max(s) \in DOMAIN seq /\ jt[s \ {Max(s)}] \in A
         => jt[s] = g[<<jt[s \ {Max(s)}], seq[Max(s)]>>]

LEMMA FoldIs ==
  ASSUME NEW A, NEW E, NEW g, NEW base, NEW seq, Folds(A, E, g, base, seq),
         NEW jt, GoesOn(jt, A, g, base, seq)
  PROVE  jt[DOMAIN seq] = Fold(g, base, seq)
<1>1. PICK it : FoldTable(it, A, g, base, seq) /\ Fold(g, base, seq) = it[DOMAIN seq]
  BY FoldTableExists
<1>2. IsFiniteSet(DOMAIN seq) /\ Choice(MaxOf(seq), DOMAIN seq)
      /\ \A s \in SUBSET DOMAIN seq : s # {} => MaxOf(seq)[s] = Max(s) /\ Max(s) \in DOMAIN seq
  BY MaxChooses DEF Folds
<1>3. ASSUME NEW s \in SUBSET DOMAIN seq, s # {}, it[s \ {Max(s)}] = jt[s \ {Max(s)}]
      PROVE  it[s] = jt[s]
  <2>1. s \ {Max(s)} \in SUBSET DOMAIN seq /\ Max(s) \in DOMAIN seq
    BY <1>2, <1>3
  <2>2. it[s \ {Max(s)}] \in A
    BY <1>1, <2>1 DEF FoldTable
  <2> QED
    BY <1>1, <1>3, <2>1, <2>2 DEF FoldTable, GoesOn
<1>4. Alike(DOMAIN seq, MaxOf(seq), it, jt)
  BY <1>1, <1>2, <1>3 DEF FoldTable, GoesOn, Alike
<1> QED
  BY <1>1, <1>4, SameTable

(* Two functions that agree on what a fold meets fold alike. *)
LEMMA FoldSame ==
  ASSUME NEW A, NEW E, NEW g, NEW B, NEW F, NEW h, NEW base, NEW seq,
         Folds(A, E, g, base, seq), Folds(B, F, h, base, seq), A \subseteq B, E \subseteq F,
         \A a \in A, e \in E : h[<<a, e>>] = g[<<a, e>>]
  PROVE  Fold(h, base, seq) = Fold(g, base, seq)
<1>1. PICK jt : FoldTable(jt, B, h, base, seq) /\ Fold(h, base, seq) = jt[DOMAIN seq]
  BY FoldTableExists
<1>2. \A s \in SUBSET DOMAIN seq : s # {} /\ Max(s) \in DOMAIN seq => seq[Max(s)] \in E
  BY DEF Folds
<1>3. GoesOn(jt, A, g, base, seq)
  BY <1>1, <1>2 DEF GoesOn, FoldTable
<1> QED
  BY <1>1, <1>3, FoldIs

-----------------------------------------------------------------------------
(* The sum of a function over a finite set. *)

SumOver(f, S) == MapThenSumSet(LAMBDA x : f[x], S)

Sums(f, S) == IsFiniteSet(S) /\ \A x \in S : f[x] \in Nat

Picked(s) == CHOOSE x \in s : TRUE
AnyOf(S) == [s \in SUBSET S |-> Picked(s)]

SumTable(it, f, S) ==
  /\ it \in [SUBSET S -> Nat] /\ it[{}] = 0
  /\ \A s \in SUBSET S : s # {} => it[s] = f[Picked(s)] + it[s \ {Picked(s)}]

LEMMA AnyChooses == ASSUME NEW S PROVE Choice(AnyOf(S), S)
BY DEF Choice, AnyOf, Picked

LEMMA SumTableExists ==
  ASSUME NEW f, NEW S, Sums(f, S)
  PROVE  \E it : SumTable(it, f, S) /\ SumOver(f, S) = it[S]
<1> DEFINE step == [x \in S \X Nat |-> f[x[1]] + x[2]]
<1>1. PICK it : Table(it, S, Nat, 0, AnyOf(S), step)
  <2>1. Tabled(S, Nat, 0, AnyOf(S), step)
    BY AnyChooses DEF Tabled, Sums
  <2> HIDE DEF step
  <2> QED
    BY <2>1, TableExists
<1>2. SumTable(it, f, S)
  <2>1. \A s \in SUBSET S : s # {} => AnyOf(S)[s] = Picked(s) /\ Picked(s) \in S
    BY DEF AnyOf, Picked
  <2> QED
    BY <1>1, <2>1 DEF Table, FoldStep, SumTable
<1> DEFINE Rec(jt) == jt = [s \in SUBSET S |-> IF s = {} THEN 0 ELSE f[Picked(s)] + jt[s \ {Picked(s)}]]
<1>3. Rec(it)
  BY <1>2 DEF SumTable
<1>4. PICK jt : Rec(jt) /\ SumOver(f, S) = jt[S]
  BY <1>3 DEF SumOver, MapThenSumSet, MapThenFoldSet, Picked
<1>5. Alike(S, AnyOf(S), it, jt)
  <2>1. jt[{}] = 0 /\ \A s \in SUBSET S : s # {} => jt[s] = f[Picked(s)] + jt[s \ {Picked(s)}]
    BY <1>4
  <2>2. it[{}] = 0 /\ \A s \in SUBSET S : s # {} => it[s] = f[Picked(s)] + it[s \ {Picked(s)}]
    BY <1>2 DEF SumTable
  <2>3. \A s \in SUBSET S : AnyOf(S)[s] = Picked(s)
    BY DEF AnyOf
  <2> HIDE DEF Rec
  <2> QED
    BY <2>1, <2>2, <2>3, AnyChooses DEF Alike, Sums
<1> QED
  BY <1>2, <1>4, <1>5, SameTable

LEMMA SumEmpty == ASSUME NEW f PROVE SumOver(f, {}) = 0
<1>1. Sums(f, {})
  BY FS_EmptySet DEF Sums
<1>2. PICK it : SumTable(it, f, {}) /\ SumOver(f, {}) = it[{}]
  BY <1>1, SumTableExists
<1> QED
  BY <1>2 DEF SumTable

LEMMA SumType == ASSUME NEW f, NEW S, Sums(f, S) PROVE SumOver(f, S) \in Nat
<1>1. PICK it : SumTable(it, f, S) /\ SumOver(f, S) = it[S]
  BY SumTableExists
<1> QED
  BY <1>1 DEF SumTable

LEMMA SumSubset == ASSUME NEW f, NEW S, Sums(f, S), NEW T \in SUBSET S PROVE Sums(f, T)
BY FS_Subset DEF Sums

(* A table that goes on like the sum ends like it, on a smaller set too.    *)
LEMMA SumIs ==
  ASSUME NEW f, NEW S, Sums(f, S), NEW T \in SUBSET S, NEW jt, jt[{}] = 0,
         \A s \in SUBSET T : s # {} /\ Picked(s) \in T /\ jt[s \ {Picked(s)}] \in Nat
                               => jt[s] = f[Picked(s)] + jt[s \ {Picked(s)}]
  PROVE  jt[T] = SumOver(f, T)
<1>1. Sums(f, T)
  BY SumSubset
<1>2. PICK it : SumTable(it, f, T) /\ SumOver(f, T) = it[T]
  BY <1>1, SumTableExists
<1>3. \A s \in SUBSET T : s # {} => AnyOf(T)[s] = Picked(s) /\ Picked(s) \in T
  BY DEF AnyOf, Picked
<1>4. ASSUME NEW s \in SUBSET T, s # {}, it[s \ {Picked(s)}] = jt[s \ {Picked(s)}]
      PROVE  it[s] = jt[s]
  <2>1. s \ {Picked(s)} \in SUBSET T /\ it[s \ {Picked(s)}] \in Nat
    BY <1>2 DEF SumTable
  <2> QED
    BY <1>2, <1>3, <1>4, <2>1 DEF SumTable
<1>5. Alike(T, AnyOf(T), it, jt)
  BY <1>1, <1>2, <1>3, <1>4, AnyChooses DEF Alike, Sums, SumTable
<1> QED
  BY <1>2, <1>5, SameTable

LEMMA SumAny ==
  ASSUME NEW f, NEW S, Sums(f, S), S # {}
  PROVE  SumOver(f, S) = f[Picked(S)] + SumOver(f, S \ {Picked(S)})
<1>1. PICK it : SumTable(it, f, S) /\ SumOver(f, S) = it[S]
  BY SumTableExists
<1> DEFINE T == S \ {Picked(S)}
<1>2. T \in SUBSET S
  OBVIOUS
<1>3. it[{}] = 0
      /\ \A s \in SUBSET T : s # {} => it[s] = f[Picked(s)] + it[s \ {Picked(s)}]
  BY <1>1, <1>2 DEF SumTable
<1>4. it[T] = SumOver(f, T)
  <2> HIDE DEF T
  <2> QED
    BY <1>2, <1>3, SumIs
<1> QED
  BY <1>1, <1>4 DEF SumTable

LEMMA SumRemove ==
  ASSUME NEW f, NEW S, Sums(f, S), NEW x \in S
  PROVE  SumOver(f, S) = f[x] + SumOver(f, S \ {x})
<1> DEFINE G == {T \in SUBSET S : \A y \in T : SumOver(f, T) = f[y] + SumOver(f, T \ {y})}
<1>1. ASSUME NEW T \in SUBSET S, \A U \in SUBSET T : U # T => U \in G
      PROVE  T \in G
  <2> SUFFICES ASSUME NEW y \in T
               PROVE  SumOver(f, T) = f[y] + SumOver(f, T \ {y})
    OBVIOUS
  <2> DEFINE a == Picked(T)
  <2>1. a \in T
    BY DEF Picked
  <2>2. Sums(f, T) /\ Sums(f, T \ {a}) /\ Sums(f, T \ {y}) /\ Sums(f, (T \ {a}) \ {y})
    BY SumSubset
  <2>3. SumOver(f, T) = f[a] + SumOver(f, T \ {a})
    BY <2>1, <2>2, SumAny
  <2>4. CASE y = a
    BY <2>3, <2>4
  <2>5. CASE y # a
    <3>1. T \ {a} \in G /\ T \ {y} \in G
      <4>1. T \ {a} \in SUBSET T /\ T \ {a} # T /\ T \ {y} \in SUBSET T /\ T \ {y} # T
        BY <2>1
      <4> HIDE DEF a, G
      <4> QED
        BY <1>1, <4>1
    <3>2. SumOver(f, T \ {a}) = f[y] + SumOver(f, (T \ {a}) \ {y})
      BY <2>5, <3>1
    <3>3. SumOver(f, T \ {y}) = f[a] + SumOver(f, (T \ {y}) \ {a})
      BY <2>1, <2>5, <3>1
    <3>4. (T \ {y}) \ {a} = (T \ {a}) \ {y}
      OBVIOUS
    <3>5. f[a] \in Nat /\ f[y] \in Nat /\ SumOver(f, (T \ {a}) \ {y}) \in Nat
      BY <2>1, <2>2, SumType DEF Sums
    <3> DEFINE rest == SumOver(f, (T \ {a}) \ {y})
    <3>6. SumOver(f, T) = f[a] + (f[y] + rest) /\ SumOver(f, T \ {y}) = f[a] + rest
      <4> HIDE DEF a, G
      <4> QED
        BY <2>3, <3>2, <3>3, <3>4
    <3>7. \A i, j, k \in Nat : i + (j + k) = j + (i + k)
      OBVIOUS
    <3> HIDE DEF a, G, rest
    <3> QED
      BY <3>5, <3>6, <3>7 DEF rest
  <2> QED
    BY <2>4, <2>5
<1>2. S \in G
  <2> HIDE DEF G
  <2> QED
    BY <1>1, SubsetInduction DEF Sums
<1> QED
  BY <1>2

LEMMA SumAdd ==
  ASSUME NEW f, NEW S, NEW x, x \notin S, Sums(f, S \cup {x})
  PROVE  SumOver(f, S \cup {x}) = f[x] + SumOver(f, S)
<1>1. x \in S \cup {x} /\ (S \cup {x}) \ {x} = S
  OBVIOUS
<1> QED
  BY <1>1, SumRemove

(* Sums of functions that agree.                                            *)
LEMMA SumSame ==
  ASSUME NEW f, NEW g, NEW S, Sums(f, S), \A x \in S : g[x] = f[x]
  PROVE  SumOver(g, S) = SumOver(f, S)
<1>1. Sums(g, S)
  BY DEF Sums
<1>2. PICK it : SumTable(it, g, S) /\ SumOver(g, S) = it[S]
  BY <1>1, SumTableExists
<1>3. it[{}] = 0
      /\ \A s \in SUBSET S : s # {} /\ Picked(s) \in S => it[s] = f[Picked(s)] + it[s \ {Picked(s)}]
  BY <1>2 DEF SumTable
<1>4. it[S] = SumOver(f, S)
  BY <1>3, SumIs
<1> QED
  BY <1>2, <1>4

LEMMA SumMonotone ==
  ASSUME NEW f, NEW S, Sums(f, S), NEW T \in SUBSET S
  PROVE  SumOver(f, T) <= SumOver(f, S)
<1> DEFINE G == {U \in SUBSET S : \A V \in SUBSET U : SumOver(f, V) <= SumOver(f, U)}
<1>1. ASSUME NEW U \in SUBSET S, \A W \in SUBSET U : W # U => W \in G
      PROVE  U \in G
  <2> SUFFICES ASSUME NEW V \in SUBSET U PROVE SumOver(f, V) <= SumOver(f, U)
    OBVIOUS
  <2>1. Sums(f, U) /\ Sums(f, V)
    BY SumSubset
  <2>2. SumOver(f, U) \in Nat /\ SumOver(f, V) \in Nat
    BY <2>1, SumType
  <2>3. CASE V = U
    BY <2>2, <2>3
  <2>4. CASE V # U
    <3> DEFINE W(x) == U \ {x}
    <3>1. PICK x \in U : x \notin V
      BY <2>4
    <3>2. W(x) \in SUBSET U /\ W(x) # U /\ V \in SUBSET W(x)
      BY <3>1
    <3>3. W(x) \in G
      <4> HIDE DEF W, G
      <4> QED
        BY <1>1, <3>2
    <3>4. SumOver(f, V) <= SumOver(f, W(x))
      BY <3>2, <3>3
    <3>5. SumOver(f, U) = f[x] + SumOver(f, W(x))
      BY <2>1, SumRemove
    <3>6. SumOver(f, W(x)) \in Nat /\ f[x] \in Nat
      <4>1. Sums(f, W(x))
        BY <3>2, SumSubset
      <4> HIDE DEF W
      <4> QED
        BY <4>1, SumType DEF Sums
    <3> HIDE DEF W, G
    <3> QED
      BY <2>2, <3>4, <3>5, <3>6
  <2> QED
    BY <2>3, <2>4
<1>2. S \in G
  <2> HIDE DEF G
  <2> QED
    BY <1>1, SubsetInduction DEF Sums
<1> QED
  BY <1>2
=============================================================================
