--------------------------- MODULE Payments_proofs ---------------------------
(* What the sums and the selection of Payments are, for any coins, amounts *)
(* and caps.  A sum over a set is a recursive function that takes out one   *)
(* element after the other; the proofs follow it by induction on the finite *)
(* subsets of a set, as a least set for which a fact fails.                 *)
EXTENDS Payments, FiniteSetTheorems, TLAPS

\* A set of subsets of S that holds each one as soon as it holds its proper
\* subsets is all of them.
LEMMA SubsetInduction ==
  ASSUME NEW S, IsFiniteSet(S), NEW G,
         \A T \in SUBSET S : (\A U \in SUBSET T : U # T => U \in G) => T \in G
  PROVE  \A T \in SUBSET S : T \in G
<1> DEFINE Bad == {T \in SUBSET S : T \notin G}
<1> SUFFICES ASSUME Bad # {} PROVE FALSE
  OBVIOUS
<1>1. Bad \subseteq FiniteSubsetsOf(S)
  BY FS_Subset DEF FiniteSubsetsOf
<1>2. PICK T \in Bad : \A U \in Bad : <<U, T>> \notin StrictSubsetOrdering(S)
  <2> HIDE DEF Bad
  <2>1. IsWellFoundedOn(StrictSubsetOrdering(S), FiniteSubsetsOf(S))
    BY FS_StrictSubsetOrderingWellFounded
  <2>2. QED
    BY <1>1, <2>1, WFMin
<1>3. \A U \in SUBSET T : U # T => U \in G
  BY <1>2 DEF StrictSubsetOrdering
<1>4. QED
  BY <1>3

-----------------------------------------------------------------------------
(* Sums. *)

\* The recursive function behind MapThenSumSet, and its value.
Pick(s) == CHOOSE x \in s : TRUE
Step(A, f, s) == IF s = {} THEN 0 ELSE A[Pick(s)] + f[s \ {Pick(s)}]
Sums(A, f, S) == f = [s \in SUBSET S |-> Step(A, f, s)]
SumOf(A, S) == (CHOOSE f : Sums(A, f, S))[S]

LEMMA TotalIsSum == ASSUME NEW S PROVE Total(S) = SumOf(Amount, S)
BY DEF Total, MapThenSumSet, MapThenFoldSet, SumOf, Sums, Step, Pick

LEMMA PickOK == ASSUME NEW s, s # {} PROVE Pick(s) \in s /\ s \ {Pick(s)} \in SUBSET s /\ s \ {Pick(s)} # s
<1>1. Pick(s) \in s
  BY DEF Pick
<1>2. QED
  BY <1>1

\* It is defined on every finite set, in one way.
LEMMA SumsAgree ==
  ASSUME NEW A, NEW S, NEW T, NEW f, NEW g, IsFiniteSet(S), Sums(A, f, S), Sums(A, g, T)
  PROVE  \A s \in SUBSET (S \cap T) : f[s] = g[s]
<1> DEFINE G == {s \in SUBSET (S \cap T) : f[s] = g[s]}
<1>1. IsFiniteSet(S \cap T)
  BY FS_Intersection
<1>2. ASSUME NEW s \in SUBSET (S \cap T), \A U \in SUBSET s : U # s => U \in G
      PROVE  s \in G
  <2>1. f[s] = Step(A, f, s)
    BY DEF Sums
  <2>2. g[s] = Step(A, g, s)
    BY DEF Sums
  <2>3. CASE s = {}
    BY <2>1, <2>2, <2>3 DEF Step
  <2>4. CASE s # {}
    <3>1. f[s \ {Pick(s)}] = g[s \ {Pick(s)}]
      BY <1>2, <2>4, PickOK
    <3>2. QED
      BY <2>1, <2>2, <2>4, <3>1 DEF Step
  <2>5. QED
    BY <2>3, <2>4
<1> HIDE DEF G
<1>3. \A s \in SUBSET (S \cap T) : s \in G
  BY <1>1, <1>2, SubsetInduction
<1>4. QED
  BY <1>3 DEF G

LEMMA SumsExist == ASSUME NEW A, NEW S, IsFiniteSet(S) PROVE \E f : Sums(A, f, S)
<1> DEFINE G == {T \in SUBSET S : \E f : Sums(A, f, T)}
<1>1. ASSUME NEW T \in SUBSET S, \A U \in SUBSET T : U # T => U \in G
      PROVE  T \in G
  <2> DEFINE F == [s \in SUBSET T |-> IF s = {} THEN 0 ELSE A[Pick(s)] + SumOf(A, s \ {Pick(s)})]
  <2>1. \A U \in SUBSET T : U # T => Sums(A, CHOOSE f : Sums(A, f, U), U)
    BY <1>1
  <2>2. ASSUME NEW U \in SUBSET T, U # T PROVE F[U] = SumOf(A, U)
    <3> DEFINE g == CHOOSE f : Sums(A, f, U)
    <3>1. Sums(A, g, U)
      BY <2>1, <2>2
    <3>2. g[U] = Step(A, g, U)
      BY <3>1 DEF Sums
    <3>3. SumOf(A, U) = g[U]
      BY DEF SumOf
    <3>4. CASE U = {}
      BY <3>2, <3>3, <3>4 DEF Step
    <3>5. CASE U # {}
      <4> DEFINE V == U \ {Pick(U)}
                 h == CHOOSE f : Sums(A, f, V)
      <4>1. V \in SUBSET U /\ V \in SUBSET T /\ V # T
        BY <3>5, PickOK
      <4>2. Sums(A, h, V) /\ SumOf(A, V) = h[V]
        BY <2>1, <4>1 DEF SumOf
      <4>3. IsFiniteSet(U)
        BY FS_Subset
      <4>4. g[V] = h[V]
        <5> HIDE DEF g, h, V
        <5>1. V \in SUBSET (U \cap V)
          BY <4>1
        <5>2. QED
          BY <3>1, <4>2, <4>3, <5>1, SumsAgree
      <4>5. QED
        BY <3>2, <3>3, <3>5, <4>2, <4>4 DEF Step
    <3>6. QED
      BY <3>4, <3>5
  <2>3. ASSUME NEW s \in SUBSET T PROVE F[s] = Step(A, F, s)
    <3>1. CASE s = {}
      BY <3>1 DEF Step
    <3>2. CASE s # {}
      <4>1. s \ {Pick(s)} \in SUBSET T /\ s \ {Pick(s)} # T
        BY <3>2, PickOK
      <4>2. F[s \ {Pick(s)}] = SumOf(A, s \ {Pick(s)})
        BY <2>2, <4>1
      <4>3. QED
        BY <3>2, <4>2 DEF Step
    <3>3. QED
      BY <3>1, <3>2
  <2>4. F = [s \in SUBSET T |-> F[s]]
    OBVIOUS
  <2> HIDE DEF F
  <2>5. Sums(A, F, T)
    BY <2>3, <2>4 DEF Sums
  <2>6. QED
    BY <2>5
<1> HIDE DEF G
<1>2. \A T \in SUBSET S : T \in G
  BY <1>1, SubsetInduction
<1>3. QED
  BY <1>2 DEF G

LEMMA SumUnfolds ==
  ASSUME NEW A, NEW S, IsFiniteSet(S)
  PROVE  SumOf(A, S) = IF S = {} THEN 0 ELSE A[Pick(S)] + SumOf(A, S \ {Pick(S)})
<1> DEFINE f == CHOOSE g : Sums(A, g, S)
<1>1. Sums(A, f, S) /\ SumOf(A, S) = f[S]
  BY SumsExist DEF SumOf
<1>2. f[S] = Step(A, f, S)
  BY <1>1 DEF Sums
<1>3. CASE S = {}
  BY <1>1, <1>2, <1>3 DEF Step
<1>4. CASE S # {}
  <2> DEFINE V == S \ {Pick(S)}
             h == CHOOSE g : Sums(A, g, V)
  <2>1. V \in SUBSET (S \cap V) /\ IsFiniteSet(V)
    BY <1>4, PickOK, FS_Subset
  <2>2. Sums(A, h, V) /\ SumOf(A, V) = h[V]
    BY <2>1, SumsExist DEF SumOf
  <2>3. f[V] = h[V]
    <3> HIDE DEF f, h, V
    <3>1. QED
      BY <1>1, <2>1, <2>2, SumsAgree
  <2>4. QED
    BY <1>1, <1>2, <1>4, <2>2, <2>3 DEF Step
<1>5. QED
  BY <1>3, <1>4

\* A sum of naturals is one.
LEMMA SumNat ==
  ASSUME NEW D, NEW A \in [D -> Nat], NEW S \in SUBSET D, IsFiniteSet(S)
  PROVE  SumOf(A, S) \in Nat
<1> DEFINE G == {T \in SUBSET S : SumOf(A, T) \in Nat}
<1>1. ASSUME NEW T \in SUBSET S, \A U \in SUBSET T : U # T => U \in G
      PROVE  T \in G
  <2>1. SumOf(A, T) = IF T = {} THEN 0 ELSE A[Pick(T)] + SumOf(A, T \ {Pick(T)})
    BY FS_Subset, SumUnfolds
  <2>2. CASE T = {}
    BY <2>1, <2>2
  <2>3. CASE T # {}
    <3>1. SumOf(A, T \ {Pick(T)}) \in Nat /\ A[Pick(T)] \in Nat
      BY <1>1, <2>3, PickOK
    <3>2. QED
      BY <2>1, <2>3, <3>1
  <2>4. QED
    BY <2>2, <2>3
<1> HIDE DEF G
<1>2. \A T \in SUBSET S : T \in G
  BY <1>1, SubsetInduction
<1>3. QED
  BY <1>2 DEF G

\* The order of its terms does not matter.
LEMMA SumRemove ==
  ASSUME NEW D, NEW A \in [D -> Nat], NEW S \in SUBSET D, IsFiniteSet(S), NEW c \in S
  PROVE  SumOf(A, S) = A[c] + SumOf(A, S \ {c})
<1> DEFINE G == {T \in SUBSET S : \A d \in T : SumOf(A, T) = A[d] + SumOf(A, T \ {d})}
<1>1. ASSUME NEW T \in SUBSET S, \A U \in SUBSET T : U # T => U \in G,
             NEW d \in T
      PROVE  SumOf(A, T) = A[d] + SumOf(A, T \ {d})
  <2> DEFINE p == Pick(T)
             V == T \ {p}
             W == T \ {d}
             X == V \ {d}
  <2>1. p \in T /\ V \in SUBSET T /\ V # T /\ W \in SUBSET T /\ W # T
    BY PickOK
  <2>2. SumOf(A, T) = A[p] + SumOf(A, V)
    BY FS_Subset, SumUnfolds
  <2>3. CASE p = d
    BY <2>2, <2>3
  <2>4. CASE p # d
    <3>1. d \in V /\ p \in W /\ W \ {p} = X
      BY <2>1, <2>4
    <3>2. SumOf(A, V) = A[d] + SumOf(A, X)
      BY <1>1, <2>1, <3>1
    <3>3. SumOf(A, W) = A[p] + SumOf(A, X)
      BY <1>1, <2>1, <3>1
    <3>4. A[p] \in Nat /\ A[d] \in Nat
      BY <2>1
    <3>5. SumOf(A, X) \in Nat
      <4>1. X \in SUBSET D /\ IsFiniteSet(X)
        BY FS_Subset
      <4>2. QED
        BY <4>1, SumNat
    <3> HIDE DEF p, V, W, X
    <3>6. QED
      BY <2>2, <3>2, <3>3, <3>4, <3>5 DEF W
  <2>5. QED
    BY <2>3, <2>4
<1>2. \A T \in SUBSET S : (\A U \in SUBSET T : U # T => U \in G) => T \in G
  BY <1>1
<1> HIDE DEF G
<1>3. \A T \in SUBSET S : T \in G
  BY <1>2, SubsetInduction
<1>4. QED
  BY <1>3 DEF G

\* Two sets that have nothing in common are summed one after the other.
LEMMA SumUnion ==
  ASSUME NEW D, NEW A \in [D -> Nat], NEW S \in SUBSET D, IsFiniteSet(S),
         NEW T \in SUBSET D, IsFiniteSet(T), S \cap T = {}
  PROVE  SumOf(A, S \cup T) = SumOf(A, S) + SumOf(A, T)
<1> DEFINE G == {U \in SUBSET S : SumOf(A, U \cup T) = SumOf(A, U) + SumOf(A, T)}
<1>1. ASSUME NEW U \in SUBSET S, \A V \in SUBSET U : V # U => V \in G
      PROVE  U \in G
  <2>1. U \cup T \in SUBSET D /\ IsFiniteSet(U) /\ IsFiniteSet(U \cup T) /\ SumOf(A, T) \in Nat
    BY FS_Subset, FS_Union, SumNat
  <2>2. CASE U = {}
    <3>1. U \cup T = T
      BY <2>2
    <3>2. SumOf(A, U) = 0
      BY <2>1, <2>2, SumUnfolds
    <3>3. QED
      BY <2>1, <3>1, <3>2
  <2>3. CASE U # {}
    <3> DEFINE c == Pick(U)
               V == U \ {c}
    <3>1. c \in U /\ c \in U \cup T /\ V \in SUBSET U /\ V # U /\ V \in SUBSET D /\ A[c] \in Nat
      BY <2>3, PickOK
    <3>2. (U \cup T) \ {c} = V \cup T
      BY <3>1
    <3>3. SumOf(A, U) = A[c] + SumOf(A, V)
      BY <2>1, <3>1, SumRemove
    <3>4. SumOf(A, U \cup T) = A[c] + SumOf(A, V \cup T)
      BY <2>1, <3>1, <3>2, SumRemove
    <3>5. SumOf(A, V \cup T) = SumOf(A, V) + SumOf(A, T)
      BY <1>1, <3>1
    <3>6. SumOf(A, V) \in Nat
      BY <2>1, <3>1, FS_Subset, SumNat
    <3> HIDE DEF c, V
    <3>7. QED
      BY <2>1, <3>1, <3>3, <3>4, <3>5, <3>6
  <2>4. QED
    BY <2>2, <2>3
<1> HIDE DEF G
<1>2. \A U \in SUBSET S : U \in G
  BY <1>1, SubsetInduction
<1>3. QED
  BY <1>2 DEF G

LEMMA SumMonotone ==
  ASSUME NEW D, NEW A \in [D -> Nat], NEW S \in SUBSET D, IsFiniteSet(S), NEW T \in SUBSET S
  PROVE  SumOf(A, T) <= SumOf(A, S)
<1>1. /\ T \in SUBSET D /\ IsFiniteSet(T) /\ S \ T \in SUBSET D /\ IsFiniteSet(S \ T)
      /\ T \cap (S \ T) = {} /\ T \cup (S \ T) = S
  BY FS_Subset
<1>2. SumOf(A, S) = SumOf(A, T) + SumOf(A, S \ T)
  BY <1>1, SumUnion
<1>3. SumOf(A, T) \in Nat /\ SumOf(A, S \ T) \in Nat
  BY <1>1, SumNat
<1>4. QED
  BY <1>2, <1>3

LEMMA EmptyCardinality == ASSUME NEW S, IsFiniteSet(S) PROVE Cardinality(S) = 0 <=> S = {}
BY FS_EmptySet

\* As many terms or more, none of them smaller, give as much or more.
LEMMA SumExchange ==
  ASSUME NEW D, NEW A \in [D -> Nat], NEW S \in SUBSET D, IsFiniteSet(S),
         NEW T \in SUBSET D, IsFiniteSet(T), Cardinality(S) <= Cardinality(T),
         \A s \in S, t \in T : A[s] <= A[t]
  PROVE  SumOf(A, S) <= SumOf(A, T)
<1> DEFINE G == {U \in SUBSET S :
                  \A V \in SUBSET T : Cardinality(U) <= Cardinality(V) => SumOf(A, U) <= SumOf(A, V)}
<1>1. ASSUME NEW U \in SUBSET S, \A X \in SUBSET U : X # U => X \in G,
             NEW V \in SUBSET T, Cardinality(U) <= Cardinality(V)
      PROVE  SumOf(A, U) <= SumOf(A, V)
  <2>1. U \in SUBSET D /\ V \in SUBSET D /\ IsFiniteSet(U) /\ IsFiniteSet(V)
    BY FS_Subset
  <2>2. SumOf(A, V) \in Nat /\ Cardinality(U) \in Nat /\ Cardinality(V) \in Nat
    <3>1. SumOf(A, V) \in Nat
      BY <2>1, SumNat
    <3>2. Cardinality(U) \in Nat /\ Cardinality(V) \in Nat
      BY <2>1, FS_CardinalityType
    <3>3. QED
      BY <3>1, <3>2
  <2>3. CASE U = {}
    <3>1. SumOf(A, U) = 0
      BY <2>1, <2>3, SumUnfolds
    <3>2. QED
      BY <2>2, <3>1
  <2>4. CASE U # {}
    <3>1. PICK s \in U : TRUE
      BY <2>4
    <3>2. (Cardinality(U) = 0 <=> U = {}) /\ (Cardinality(V) = 0 <=> V = {})
      BY <2>1, EmptyCardinality
    <3>3. V # {}
      BY <1>1, <2>2, <2>4, <3>2
    <3>4. PICK t \in V : TRUE
      BY <3>3
    <3>5. Cardinality(U \ {s}) = Cardinality(U) - 1 /\ Cardinality(V \ {t}) = Cardinality(V) - 1
      BY <2>1, FS_RemoveElement
    <3>6. Cardinality(U \ {s}) <= Cardinality(V \ {t})
      BY <1>1, <2>2, <3>5
    <3>7. SumOf(A, U \ {s}) <= SumOf(A, V \ {t})
      BY <1>1, <3>6
    <3>8. SumOf(A, U) = A[s] + SumOf(A, U \ {s}) /\ SumOf(A, V) = A[t] + SumOf(A, V \ {t})
      BY <2>1, SumRemove
    <3>9. SumOf(A, U \ {s}) \in Nat /\ SumOf(A, V \ {t}) \in Nat
      BY <2>1, FS_Subset, SumNat
    <3>10. A[s] \in Nat /\ A[t] \in Nat /\ A[s] <= A[t]
      BY <2>1
    <3>11. QED
      BY <3>7, <3>8, <3>9, <3>10
  <2>5. QED
    BY <2>3, <2>4
<1>2. \A U \in SUBSET S : (\A X \in SUBSET U : X # U => X \in G) => U \in G
  BY <1>1
<1> HIDE DEF G
<1>3. S \in G
  BY <1>2, SubsetInduction
<1>4. QED
  BY <1>3 DEF G

-----------------------------------------------------------------------------
(* plan_sweep. *)

\* Highest amount first is a total order.
LEMMA BeforeOrder ==
  /\ \A c \in Coin : ~Before(c, c)
  /\ \A c, d \in Coin : c # d => Before(c, d) \/ Before(d, c)
  /\ \A c, d, e \in Coin : Before(c, d) /\ Before(d, e) => Before(c, e)
<1>1. \A c \in Coin : c \in Nat /\ Amount[c] \in Nat
  BY PaymentsAssumption
<1>2. QED
  BY <1>1 DEF Before

\* What is selected comes before what is not, and is as many coins as the cap
\* allows unless it is all of them.
LEMMA SelectedOK ==
  ASSUME NEW S \in SUBSET Coin, IsFiniteSet(S), NEW cap \in Nat
  PROVE  /\ Selected(S, cap) \subseteq S
         /\ \A c \in Selected(S, cap), d \in S \ Selected(S, cap) : Before(c, d)
         /\ Selected(S, cap) # S => Cardinality(Selected(S, cap)) >= cap
<1> DEFINE sel == Selected(S, cap)
           Ahead(c) == {d \in S : Before(d, c)}
<1>1. sel = {c \in S : Cardinality(Ahead(c)) < cap}
  BY DEF Selected
<1>2. \A c \in S : Ahead(c) \in SUBSET S /\ IsFiniteSet(Ahead(c)) /\ Cardinality(Ahead(c)) \in Nat
  <2> SUFFICES ASSUME NEW c \in S
               PROVE  Ahead(c) \in SUBSET S /\ IsFiniteSet(Ahead(c)) /\ Cardinality(Ahead(c)) \in Nat
    OBVIOUS
  <2>1. Ahead(c) \in SUBSET S
    OBVIOUS
  <2>2. IsFiniteSet(Ahead(c))
    BY <2>1, FS_Subset
  <2>3. QED
    BY <2>1, <2>2, FS_CardinalityType
<1>3. ASSUME NEW c \in S, NEW d \in S, Before(d, c) PROVE Ahead(d) \in SUBSET Ahead(c) /\ Ahead(d) # Ahead(c)
  BY <1>3, BeforeOrder
<1>4. ASSUME NEW c \in sel, NEW d \in S \ sel PROVE Before(c, d)
  <2>1. c \in S /\ d \in S /\ c # d
    BY <1>1
  <2>2. Cardinality(Ahead(c)) < cap /\ ~(Cardinality(Ahead(d)) < cap)
    BY <1>1
  <2>3. ASSUME Before(d, c) PROVE FALSE
    <3>1. Ahead(d) \in SUBSET Ahead(c)
      BY <1>3, <2>1, <2>3
    <3>2. Cardinality(Ahead(d)) <= Cardinality(Ahead(c))
      BY <1>2, <2>1, <3>1, FS_Subset
    <3>3. QED
      BY <1>2, <2>1, <2>2, <3>2
  <2>4. QED
    BY <2>1, <2>3, BeforeOrder
<1>5. ASSUME sel # S PROVE Cardinality(sel) >= cap
  <2> DEFINE Left == {Ahead(d) : d \in S \ sel}
  <2>1. Left # {}
    <3>1. sel \subseteq S
      BY <1>1
    <3>2. PICK d \in S : d \notin sel
      BY <1>5, <3>1
    <3>3. Ahead(d) \in Left
      BY <3>2
    <3>4. QED
      BY <3>3
  <2>2. Left \subseteq FiniteSubsetsOf(S)
    BY <1>2 DEF FiniteSubsetsOf
  <2>3. PICK T \in Left : \A U \in Left : <<U, T>> \notin StrictSubsetOrdering(S)
    <3> HIDE DEF Left
    <3>1. IsWellFoundedOn(StrictSubsetOrdering(S), FiniteSubsetsOf(S))
      BY FS_StrictSubsetOrderingWellFounded
    <3>2. QED
      BY <2>1, <2>2, <3>1, WFMin
  <2>4. PICK d \in S \ sel : T = Ahead(d)
    OBVIOUS
  <2>5. Ahead(d) \subseteq sel
    <3> SUFFICES ASSUME NEW e \in Ahead(d), e \notin sel PROVE FALSE
      OBVIOUS
    <3>1. e \in S /\ Before(e, d) /\ Ahead(e) \in Left
      OBVIOUS
    <3>2. Ahead(e) \in SUBSET Ahead(d) /\ Ahead(e) # Ahead(d)
      BY <1>3, <3>1
    <3>3. <<Ahead(e), Ahead(d)>> \in StrictSubsetOrdering(S)
      BY <1>2, <3>1, <3>2 DEF StrictSubsetOrdering
    <3>4. QED
      BY <2>3, <2>4, <3>1, <3>3
  <2>6. sel \in SUBSET S /\ IsFiniteSet(sel) /\ Cardinality(sel) \in Nat
    <3>1. sel \in SUBSET S
      BY <1>1
    <3> HIDE DEF sel
    <3>2. IsFiniteSet(sel)
      BY <3>1, FS_Subset
    <3>3. QED
      BY <3>1, <3>2, FS_CardinalityType
  <2>7. Cardinality(Ahead(d)) <= Cardinality(sel)
    <3> HIDE DEF sel
    <3>1. Ahead(d) \in SUBSET sel
      BY <2>5
    <3>2. QED
      BY <2>6, <3>1, FS_Subset
  <2>8. Cardinality(Ahead(d)) \in Nat /\ ~(Cardinality(Ahead(d)) < cap)
    BY <1>1, <1>2
  <2> HIDE DEF Ahead, sel
  <2>9. QED
    BY <2>6, <2>7, <2>8
<1>6. QED
  BY <1>1, <1>4, <1>5

\* No other coins, as many as the cap allows at most, are worth more.
THEOREM SelectedIsMost ==
  ASSUME NEW S \in SUBSET Coin, IsFiniteSet(S), NEW cap \in Nat,
         NEW T \in SUBSET S, Cardinality(T) <= cap
  PROVE  Total(T) <= Total(Selected(S, cap))
<1> DEFINE sel == Selected(S, cap)
           In == T \cap sel
           Instead == T \ sel
           Rest == sel \ T
<1>1. /\ sel \subseteq S
      /\ \A c \in sel, d \in S \ sel : Before(c, d)
      /\ sel # S => Cardinality(sel) >= cap
  BY SelectedOK
<1> HIDE DEF sel
<1>2. Amount \in [Coin -> Nat]
  BY PaymentsAssumption
<1>3. /\ IsFiniteSet(T) /\ IsFiniteSet(sel) /\ IsFiniteSet(In) /\ IsFiniteSet(Instead) /\ IsFiniteSet(Rest)
      /\ T \in SUBSET Coin /\ sel \in SUBSET Coin /\ In \in SUBSET Coin
      /\ Instead \in SUBSET Coin /\ Rest \in SUBSET Coin
  <2>1. T \in SUBSET S /\ sel \in SUBSET S /\ In \in SUBSET S /\ Instead \in SUBSET S /\ Rest \in SUBSET S
    BY <1>1
  <2>2. QED
    BY <2>1, FS_Subset
<1>4. Cardinality(Instead) <= Cardinality(Rest)
  <2>1. /\ Cardinality(Instead) = Cardinality(T) - Cardinality(T \cap sel)
        /\ Cardinality(Rest) = Cardinality(sel) - Cardinality(sel \cap T)
    BY <1>3, FS_Difference
  <2>2. T \cap sel = sel \cap T
    OBVIOUS
  <2>3. /\ Cardinality(T) \in Nat /\ Cardinality(sel) \in Nat /\ Cardinality(T \cap sel) \in Nat
        /\ Cardinality(Rest) \in Nat
    BY <1>3, FS_CardinalityType
  <2>4. CASE sel = S
    <3>1. Instead = {}
      BY <2>4
    <3>2. Cardinality(Instead) = 0
      BY <3>1, FS_EmptySet
    <3> HIDE DEF Rest
    <3>3. QED
      BY <2>3, <3>2
  <2>5. CASE sel # S
    <3>1. Cardinality(T) <= Cardinality(sel)
      BY <1>1, <2>3, <2>5
    <3> HIDE DEF Instead, Rest
    <3>2. QED
      BY <2>1, <2>2, <2>3, <3>1
  <2>6. QED
    BY <2>4, <2>5
<1>5. \A c \in Instead, d \in Rest : Amount[c] <= Amount[d]
  <2> SUFFICES ASSUME NEW c \in Instead, NEW d \in Rest PROVE Amount[c] <= Amount[d]
    OBVIOUS
  <2>1. Before(d, c) /\ Amount[c] \in Nat /\ Amount[d] \in Nat
    BY <1>1, <1>2, <1>3
  <2>2. QED
    BY <2>1 DEF Before
<1>6. SumOf(Amount, Instead) <= SumOf(Amount, Rest)
  <2> HIDE DEF Instead, Rest
  <2>1. QED
    BY <1>2, <1>3, <1>4, <1>5, SumExchange
<1>7. SumOf(Amount, T) = SumOf(Amount, In) + SumOf(Amount, Instead)
  <2>1. T = In \cup Instead /\ In \cap Instead = {}
    OBVIOUS
  <2> HIDE DEF In, Instead
  <2>2. QED
    BY <1>2, <1>3, <2>1, SumUnion
<1>8. SumOf(Amount, sel) = SumOf(Amount, In) + SumOf(Amount, Rest)
  <2>1. sel = In \cup Rest /\ In \cap Rest = {}
    OBVIOUS
  <2> HIDE DEF In, Rest
  <2>2. QED
    BY <1>2, <1>3, <2>1, SumUnion
<1>9. /\ SumOf(Amount, In) \in Nat /\ SumOf(Amount, Instead) \in Nat /\ SumOf(Amount, Rest) \in Nat
  <2> HIDE DEF In, Instead, Rest
  <2>1. QED
    BY <1>2, <1>3, SumNat
<1>10. SumOf(Amount, T) <= SumOf(Amount, sel)
  <2> HIDE DEF In, Instead, Rest
  <2>1. QED
    BY <1>6, <1>7, <1>8, <1>9
<1>11. QED
  BY <1>10, TotalIsSum DEF sel

-----------------------------------------------------------------------------
(* Bundles. *)

LEMMA TotalNat == ASSUME NEW S \in SUBSET Coin, IsFiniteSet(S) PROVE Total(S) \in Nat
<1>1. Amount \in [Coin -> Nat]
  BY PaymentsAssumption
<1>2. QED
  BY <1>1, SumNat, TotalIsSum

LEMMA TotalMonotone ==
  ASSUME NEW S \in SUBSET Coin, IsFiniteSet(S), NEW T \in SUBSET S
  PROVE  Total(T) <= Total(S)
<1>1. Amount \in [Coin -> Nat]
  BY PaymentsAssumption
<1>2. QED
  BY <1>1, SumMonotone, TotalIsSum

\* Two numbers of one width that differ by a multiple of it are the same.
LEMMA OneResidue ==
  ASSUME NEW m \in Nat, NEW k \in Int, NEW c \in 0..(m - 1), NEW d \in 0..(m - 1), d = m * k + c
  PROVE  d = c
<1>1. k <= 0
  <2>1. k >= 1 => m * k >= m
    OBVIOUS
  <2>2. QED
    BY <2>1
<1>2. k >= 0
  <2>1. k <= 0 - 1 => m * k <= 0 - m
    OBVIOUS
  <2>2. QED
    BY <2>1
<1>3. QED
  BY <1>1, <1>2

LEMMA WrapIs ==
  ASSUME NEW n \in Int
  PROVE  Wrap(n) \in 0..MaxU64 /\ \E k \in Int : n = (MaxU64 + 1) * k + Wrap(n)
<1> DEFINE m == MaxU64 + 1
<1>1. m \in Nat /\ m > 0
  BY PaymentsAssumption
<1>2. \A a \in Int, b \in Nat :
        b > 0 => a % b \in 0..(b - 1) /\ a = b * (a \div b) + (a % b) /\ a \div b \in Int
  OBVIOUS
<1>3. n % m \in 0..(m - 1) /\ n = m * (n \div m) + (n % m) /\ n \div m \in Int
  BY <1>1, <1>2
<1>4. m - 1 = MaxU64 /\ Wrap(n) = n % m
  BY PaymentsAssumption DEF Wrap
<1>5. Wrap(n) \in 0..MaxU64 /\ \E k \in Int : n = m * k + Wrap(n)
  <2> HIDE DEF m
  <2>1. QED
    BY <1>3, <1>4
<1>6. QED
  BY <1>5

\* The subtraction undoes what the sum did: the change is what is due, if that
\* is a u64.
LEMMA ChangeIs ==
  ASSUME NEW total \in Nat, NEW needed \in Nat
  PROVE  /\ Change(total, needed) \in 0..MaxU64
         /\ total - needed \in 0..MaxU64 => Change(total, needed) = total - needed
<1> DEFINE m == MaxU64 + 1
           w == Wrap(total)
<1>1. PICK k \in Int : total = m * k + w /\ w \in 0..MaxU64
  BY WrapIs
<1>2. w - needed \in Int
  BY <1>1, PaymentsAssumption
<1>3. PICK j \in Int : /\ w - needed = m * j + Change(total, needed)
                       /\ Change(total, needed) \in 0..MaxU64
  BY <1>2, WrapIs DEF Change
<1>4. m \in Nat /\ k + j \in Int /\ MaxU64 = m - 1
  BY PaymentsAssumption
<1>5. total - needed = m * (k + j) + Change(total, needed)
  <2>1. total - needed = (m * k) + (m * j) + Change(total, needed)
    BY <1>1, <1>3, <1>4
  <2>2. \A x, y, z \in Int : x * (y + z) = (x * y) + (x * z)
    OBVIOUS
  <2>3. QED
    BY <2>1, <2>2, <1>4
<1>6. QED
  <2> HIDE DEF m, w
  <2>1. QED
    BY <1>3, <1>4, <1>5, OneResidue

\* What a selection funds: it gives back what is due if that is a u64, and less
\* if it is not.
LEMMA FundedOK ==
  ASSUME NEW S \in SUBSET Coin, NEW value \in Nat, NEW fee \in Nat, NEW b \in Funded(S, value, fee)
  PROVE  /\ b.in \in Nat /\ b.in <= Total(S) /\ b.back \in 0..MaxU64
         /\ b.pay = value /\ b.fee = fee
         /\ b.in - value - fee \in 0..MaxU64 => b.back = b.in - value - fee
         /\ b.in - value - fee \in Nat
<1>1. PICK s \in Covering(S, value + fee) :
        b = [in |-> Total(s), pay |-> value, back |-> Change(Total(s), value + fee), fee |-> fee]
  BY DEF Funded, SelectFor, Bundle
<1>2. s \in SUBSET S /\ Total(s) >= value + fee
  BY <1>1 DEF Covering
<1>3. IsFiniteSet(S) /\ IsFiniteSet(s)
  BY <1>2, PaymentsAssumption, FS_Subset
<1>4. Total(s) \in Nat /\ Total(s) <= Total(S)
  BY <1>2, <1>3, TotalNat, TotalMonotone
<1>5. /\ Change(Total(s), value + fee) \in 0..MaxU64
      /\ Total(s) - (value + fee) \in 0..MaxU64
           => Change(Total(s), value + fee) = Total(s) - (value + fee)
  <2>1. value + fee \in Nat
    OBVIOUS
  <2>2. \A t, n \in Nat : /\ Change(t, n) \in 0..MaxU64
                          /\ t - n \in 0..MaxU64 => Change(t, n) = t - n
    BY ChangeIs
  <2>3. QED
    BY <1>4, <2>1, <2>2
<1>6. Total(s) - value - fee = Total(s) - (value + fee) /\ Total(s) - value - fee \in Nat
  BY <1>2, <1>4
<1>7. QED
  BY <1>1, <1>4, <1>5, <1>6
=============================================================================
