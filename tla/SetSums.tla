--------------------------------- MODULE SetSums ---------------------------------
(***************************************************************************)
(* Sums over finite sets, as the folds of the community modules compute    *)
(* them: a recursive function over the subsets of the set, which takes one *)
(* element after another.  What holds of such a function is shown from a   *)
(* least counterexample, because an induction over sets would take a       *)
(* predicate as its parameter.                                             *)
(*                                                                         *)
(* Balances, refunds and postings are such sums in Journal and             *)
(* EverydayEntry.                                                          *)
(***************************************************************************)
EXTENDS Integers, FiniteSets, FiniteSetTheorems, WellFoundedInduction, TLAPS

\* The element a fold takes next, and what it leaves.
First(s) == CHOOSE x \in s : TRUE
Others(s) == s \ {First(s)}

\* g holds the sum of F over each subset of S.
Tallies(g, F, S) ==
    g = [s \in SUBSET S |-> IF s = {} THEN 0 ELSE F[First(s)] + g[Others(s)]]

Sums(g, F, S) ==
    /\ IsFiniteSet(S) /\ \A x \in S : F[x] \in Int
    /\ g \in [SUBSET S -> Int] /\ Tallies(g, F, S)

\* A set that is not empty has more elements than the fold leaves.
LEMMA OthersAreFewer ==
  ASSUME NEW s, s # {}
  PROVE  First(s) \in s /\ Others(s) \subseteq s /\ Others(s) # s /\ First(s) \notin Others(s)
BY DEF First, Others

\* Every non-empty set of naturals has a least element.
LEMMA NatLeast ==
  ASSUME NEW T, T \subseteq Nat, T # {}
  PROVE  \E x \in T : \A y \in T : x <= y
<1>1. IsWellFoundedOn(OpToRel(<, Nat), Nat)
  BY NatLessThanWellFounded
<1>2. PICK x \in T : \A y \in T : ~(<<y, x>> \in OpToRel(<, Nat))
  BY <1>1, WFMin
<1>3. \A y \in T : ~(y < x)
  BY <1>2 DEF OpToRel
<1>4. \A y \in T : y \in Nat
  OBVIOUS
<1>5. \A y \in T : x <= y
  BY <1>3, <1>4
<1> QED BY <1>5

\* Of a collection of subsets of a finite set, some has no proper subset in the collection.
LEMMA SmallestSubset ==
  ASSUME NEW S, IsFiniteSet(S), NEW B, B \subseteq SUBSET S, B # {}
  PROVE  \E T \in B : \A U \in B : U \subseteq T => U = T
<1>1. IsWellFoundedOn(StrictSubsetOrdering(S), FiniteSubsetsOf(S))
  BY FS_StrictSubsetOrderingWellFounded
<1>2. B \subseteq FiniteSubsetsOf(S)
  BY FS_Subset DEF FiniteSubsetsOf
<1>3. PICK T \in B : \A U \in B : ~(<<U, T>> \in StrictSubsetOrdering(S))
  BY <1>1, <1>2, WFMin
<1>4. ASSUME NEW U \in B, U \subseteq T PROVE U = T
  BY <1>3, <1>4 DEF StrictSubsetOrdering
<1> QED BY <1>4

\* Two tallies of functions that agree on T agree on T.
LEMMA TalliesAgree ==
  ASSUME NEW A, NEW B, NEW F, NEW G, NEW g, NEW h, Tallies(g, F, A), Tallies(h, G, B),
         NEW T \in SUBSET (A \cap B), IsFiniteSet(T), \A x \in T : F[x] = G[x]
  PROVE  g[T] = h[T]
<1> DEFINE Bad == {s \in SUBSET T : g[s] # h[s]}
<1>1. SUFFICES ASSUME Bad # {} PROVE FALSE
  OBVIOUS
<1>2. PICK s \in Bad : \A U \in Bad : U \subseteq s => U = s
  <2>1. Bad \subseteq SUBSET T
    OBVIOUS
  <2> HIDE DEF Bad
  <2> QED BY <1>1, <2>1, SmallestSubset
<1>3. s \in SUBSET A /\ s \in SUBSET B /\ s \in SUBSET T
  OBVIOUS
<1>4. /\ g[s] = IF s = {} THEN 0 ELSE F[First(s)] + g[Others(s)]
      /\ h[s] = IF s = {} THEN 0 ELSE G[First(s)] + h[Others(s)]
  BY <1>3 DEF Tallies
<1>5. s # {}
  BY <1>2, <1>4
<1>6. g[Others(s)] = h[Others(s)] /\ F[First(s)] = G[First(s)]
  BY <1>2, <1>3, <1>5, OthersAreFewer
<1> QED BY <1>2, <1>4, <1>5, <1>6

\* A function on a finite set has a tally, which is of integers.
LEMMA TallyExists ==
  ASSUME NEW S, IsFiniteSet(S), NEW F, \A x \in S : F[x] \in Int
  PROVE  \E g \in [SUBSET S -> Int] : Tallies(g, F, S)
<1> DEFINE Has(T) == \E g \in [SUBSET T -> Int] : Tallies(g, F, T)
           Bad == {T \in SUBSET S : ~Has(T)}
<1>1. SUFFICES ASSUME Bad # {} PROVE FALSE
  OBVIOUS
<1>2. PICK T \in Bad : \A U \in Bad : U \subseteq T => U = T
  <2>1. Bad \subseteq SUBSET S
    OBVIOUS
  <2> HIDE DEF Bad
  <2> QED BY <1>1, <2>1, SmallestSubset
<1>3. T \in SUBSET S /\ ~Has(T)
  BY <1>2
<1>4. \A U \in SUBSET T : U # T => Has(U)
  BY <1>2, <1>3
<1> DEFINE part(U) == CHOOSE h : h \in [SUBSET U -> Int] /\ Tallies(h, F, U)
<1>5. ASSUME NEW U \in SUBSET T, U # T
      PROVE  part(U) \in [SUBSET U -> Int] /\ Tallies(part(U), F, U)
  BY <1>4, <1>5
<1> DEFINE whole == [s \in SUBSET T |-> IF s = {} THEN 0
                                        ELSE F[First(s)] + part(Others(s))[Others(s)]]
<1> HIDE DEF part
<1>6. ASSUME NEW s \in SUBSET T, s # {}
      PROVE  /\ Others(s) \in SUBSET T /\ Others(s) # T /\ First(s) \in S
             /\ part(Others(s))[Others(s)] \in Int
  <2>1. Others(s) \in SUBSET T /\ Others(s) # T /\ First(s) \in S
    BY <1>3, <1>6, OthersAreFewer
  <2>2. part(Others(s)) \in [SUBSET Others(s) -> Int]
    BY <1>5, <2>1
  <2> QED BY <2>1, <2>2
<1>7. whole \in [SUBSET T -> Int]
  BY <1>6
<1>8. ASSUME NEW s \in SUBSET T, s # {}
      PROVE  part(Others(s))[Others(s)] = whole[Others(s)]
  <2> DEFINE u == Others(s)
  <2>1. u \in SUBSET T /\ u # T /\ Tallies(part(u), F, u)
    BY <1>5, <1>6, <1>8
  <2> HIDE DEF u
  <2>2. part(u)[u] = IF u = {} THEN 0 ELSE F[First(u)] + part(u)[Others(u)]
    BY <2>1 DEF Tallies
  <2>3. whole[u] = IF u = {} THEN 0 ELSE F[First(u)] + part(Others(u))[Others(u)]
    BY <2>1
  <2>4. ASSUME u # {} PROVE part(u)[Others(u)] = part(Others(u))[Others(u)]
    <3>1. Others(u) \in SUBSET T /\ Others(u) # T /\ Others(u) \subseteq u
      BY <1>6, <2>1, <2>4, OthersAreFewer
    <3>2. Tallies(part(Others(u)), F, Others(u))
      BY <1>5, <3>1
    <3>3. IsFiniteSet(Others(u))
      BY <1>3, <3>1, FS_Subset
    <3>4. Others(u) \in SUBSET (u \cap Others(u))
      BY <3>1
    <3> QED BY <2>1, <3>2, <3>3, <3>4, TalliesAgree
  <2>5. part(u)[u] = whole[u]
    BY <2>2, <2>3, <2>4
  <2> QED BY <2>5 DEF u
<1>9. Tallies(whole, F, T)
  <2>1. whole = [s \in SUBSET T |-> IF s = {} THEN 0 ELSE F[First(s)] + whole[Others(s)]]
    BY <1>8
  <2> QED BY <2>1 DEF Tallies
<1> QED BY <1>3, <1>7, <1>9

\* A sum does not depend on the order in which its elements are taken.
LEMMA TallyRemoves ==
  ASSUME NEW S, NEW F, NEW g, Sums(g, F, S), NEW T \in SUBSET S, NEW x \in T
  PROVE  g[T] = F[x] + g[T \ {x}]
<1>0. /\ IsFiniteSet(S) /\ \A y \in S : F[y] \in Int
      /\ g \in [SUBSET S -> Int] /\ Tallies(g, F, S)
  BY DEF Sums
<1> DEFINE Bad == {s \in SUBSET S : \E y \in s : g[s] # F[y] + g[s \ {y}]}
<1>1. SUFFICES ASSUME Bad # {} PROVE FALSE
  OBVIOUS
<1>2. PICK s \in Bad : \A U \in Bad : U \subseteq s => U = s
  <2>1. Bad \subseteq SUBSET S
    OBVIOUS
  <2> HIDE DEF Bad
  <2> QED BY <1>0, <1>1, <2>1, SmallestSubset
<1>3. PICK y \in s : g[s] # F[y] + g[s \ {y}]
  BY <1>2
<1>4. s \in SUBSET S /\ \A U \in SUBSET s : U # s => \A z \in U : g[U] = F[z] + g[U \ {z}]
  BY <1>2
<1> HIDE DEF Bad
<1> DEFINE f == First(s)
<1>5. f \in s /\ Others(s) = s \ {f}
  BY <1>3 DEF First, Others
<1>6. g[s] = F[f] + g[s \ {f}]
  BY <1>0, <1>3, <1>4, <1>5 DEF Tallies
<1> HIDE DEF f
<1>7. f # y
  BY <1>3, <1>6
<1>8. g[s \ {f}] = F[y] + g[(s \ {f}) \ {y}]
  <2>1. s \ {f} \in SUBSET s /\ s \ {f} # s /\ y \in s \ {f}
    BY <1>5, <1>7
  <2> QED BY <1>4, <2>1
<1>9. g[s \ {y}] = F[f] + g[(s \ {y}) \ {f}]
  <2>1. s \ {y} \in SUBSET s /\ s \ {y} # s /\ f \in s \ {y}
    BY <1>5, <1>7
  <2> QED BY <1>4, <2>1
<1>10. (s \ {f}) \ {y} = (s \ {y}) \ {f}
  OBVIOUS
<1>11. PICK rest \in Int : rest = g[(s \ {f}) \ {y}]
  <2>1. (s \ {f}) \ {y} \in SUBSET S
    BY <1>4
  <2> QED BY <1>0, <2>1
<1>12. PICK m \in Int, n \in Int : m = F[f] /\ n = F[y]
  BY <1>0, <1>4, <1>5
<1>13. g[s] = m + (n + rest) /\ g[s \ {y}] = m + rest
  BY <1>6, <1>8, <1>9, <1>10, <1>11, <1>12
<1> QED BY <1>3, <1>12, <1>13

-----------------------------------------------------------------------------
(* The sum *)

Summable(F, S) == IsFiniteSet(S) /\ \A x \in S : F[x] \in Int
Total(F, S) == (CHOOSE g : Tallies(g, F, S))[S]

\* Whatever tallies F over S ends in its total.
LEMMA TotalIs ==
  ASSUME NEW F, NEW S, Summable(F, S), NEW g, Tallies(g, F, S)
  PROVE  g[S] = Total(F, S)
<1>1. PICK h : h = (CHOOSE k : Tallies(k, F, S)) /\ Tallies(h, F, S)
  OBVIOUS
<1>2. S \in SUBSET (S \cap S) /\ IsFiniteSet(S)
  BY DEF Summable
<1>3. g[S] = h[S]
  BY <1>1, <1>2, TalliesAgree
<1> QED BY <1>1, <1>3 DEF Total

\* A tally of S and what it says of S.
LEMMA TotalTallied ==
  ASSUME NEW F, NEW S, Summable(F, S)
  PROVE  \E g : Sums(g, F, S) /\ g[S] = Total(F, S)
<1>1. PICK g \in [SUBSET S -> Int] : Tallies(g, F, S)
  BY TallyExists DEF Summable
<1> QED BY <1>1, TotalIs DEF Sums, Summable

\* The sum of numbers is a number.
LEMMA TotalIsInt ==
  ASSUME NEW F, NEW S, Summable(F, S)
  PROVE  Total(F, S) \in Int
<1>1. PICK g : Sums(g, F, S) /\ g[S] = Total(F, S)
  BY TotalTallied
<1> QED BY <1>1 DEF Sums

\* The sum over no elements.
LEMMA TotalOfNone ==
  ASSUME NEW F, NEW S, S = {}
  PROVE  Summable(F, S) /\ Total(F, S) = 0
<1>1. Summable(F, S)
  BY FS_EmptySet DEF Summable
<1>2. PICK g : Sums(g, F, S) /\ g[S] = Total(F, S)
  BY <1>1, TotalTallied
<1> QED BY <1>1, <1>2 DEF Sums, Tallies

\* Only what F is on the set matters.
LEMMA TotalAgrees ==
  ASSUME NEW F, NEW G, NEW S, Summable(F, S), \A x \in S : F[x] = G[x]
  PROVE  Summable(G, S) /\ Total(F, S) = Total(G, S)
<1>1. Summable(G, S)
  BY DEF Summable
<1>2. PICK g : Sums(g, F, S) /\ g[S] = Total(F, S)
  BY TotalTallied
<1>3. PICK h : Sums(h, G, S) /\ h[S] = Total(G, S)
  BY <1>1, TotalTallied
<1>4. S \in SUBSET (S \cap S) /\ IsFiniteSet(S) /\ Tallies(g, F, S) /\ Tallies(h, G, S)
  BY <1>2, <1>3 DEF Summable, Sums
<1>5. g[S] = h[S]
  BY <1>4, TalliesAgree
<1> QED BY <1>1, <1>2, <1>3, <1>5

\* Part of a set can be summed.
LEMMA SummablePart ==
  ASSUME NEW F, NEW S, Summable(F, S), NEW T \in SUBSET S
  PROVE  Summable(F, T)
BY FS_Subset DEF Summable

\* One element more, or one less.
LEMMA TotalAdds ==
  ASSUME NEW F, NEW S, Summable(F, S), NEW x, x \notin S, F[x] \in Int, NEW T, T = S \cup {x}
  PROVE  Summable(F, T) /\ Total(F, T) = Total(F, S) + F[x]
<1>1. Summable(F, T)
  BY FS_AddElement DEF Summable
<1>2. PICK g : Sums(g, F, T) /\ g[T] = Total(F, T)
  BY <1>1, TotalTallied
<1>3. PICK h : Sums(h, F, S) /\ h[S] = Total(F, S)
  BY TotalTallied
<1>4. x \in T /\ T \in SUBSET T /\ T \ {x} = S
  OBVIOUS
<1>5. g[T] = F[x] + g[S]
  BY <1>2, <1>4, TallyRemoves
<1>6. g[S] = h[S]
  <2>1. S \in SUBSET (T \cap S) /\ IsFiniteSet(S) /\ Tallies(g, F, T) /\ Tallies(h, F, S)
    BY <1>2, <1>3 DEF Summable, Sums
  <2> QED BY <2>1, TalliesAgree
<1>7. PICK m \in Int, n \in Int : m = F[x] /\ n = Total(F, S)
  BY TotalIsInt
<1>8. g[T] = m + n
  BY <1>3, <1>5, <1>6, <1>7
<1> QED BY <1>1, <1>2, <1>7, <1>8

\* The same, from the larger set.
LEMMA TotalRemoves ==
  ASSUME NEW F, NEW S, Summable(F, S), NEW x \in S, NEW T, T = S \ {x}
  PROVE  Summable(F, T) /\ Total(F, S) = Total(F, T) + F[x]
<1>1. Summable(F, T) /\ F[x] \in Int
  BY SummablePart DEF Summable
<1>2. x \notin T /\ S = T \cup {x}
  OBVIOUS
<1> QED BY <1>1, <1>2, TotalAdds

\* The first element and the others.
LEMMA TotalSplits ==
  ASSUME NEW F, NEW S, Summable(F, S), S # {}
  PROVE  /\ First(S) \in S /\ Others(S) \in SUBSET S /\ Others(S) # S /\ F[First(S)] \in Int
         /\ Summable(F, Others(S)) /\ Total(F, S) = Total(F, Others(S)) + F[First(S)]
<1>1. First(S) \in S /\ Others(S) \in SUBSET S /\ Others(S) # S
  BY OthersAreFewer
<1>2. Others(S) = S \ {First(S)}
  BY DEF Others
<1>3. Summable(F, Others(S)) /\ Total(F, S) = Total(F, Others(S)) + F[First(S)]
  BY <1>1, <1>2, TotalRemoves
<1> QED BY <1>1, <1>3 DEF Summable

\* The sum of sums.
LEMMA TotalTogether ==
  ASSUME NEW F, NEW G, NEW H, NEW S, Summable(F, S), Summable(G, S),
         \A x \in S : H[x] = F[x] + G[x]
  PROVE  Summable(H, S) /\ Total(H, S) = Total(F, S) + Total(G, S)
<1>0. Summable(H, S)
  BY DEF Summable
<1> DEFINE Bad == {T \in SUBSET S : Total(H, T) # Total(F, T) + Total(G, T)}
<1>1. SUFFICES ASSUME Bad # {} PROVE FALSE
  BY <1>0
<1>2. PICK T \in Bad : \A U \in Bad : U \subseteq T => U = T
  <2>1. Bad \subseteq SUBSET S /\ IsFiniteSet(S)
    BY DEF Summable
  <2> HIDE DEF Bad
  <2> QED BY <1>1, <2>1, SmallestSubset
<1>3. /\ T \in SUBSET S /\ Total(H, T) # Total(F, T) + Total(G, T)
      /\ \A U \in SUBSET T : U # T => Total(H, U) = Total(F, U) + Total(G, U)
  BY <1>2
<1> HIDE DEF Bad
<1>4. Summable(F, T) /\ Summable(G, T) /\ Summable(H, T)
  BY <1>0, <1>3, SummablePart
<1>5. T # {}
  <2>1. ASSUME T = {} PROVE Total(H, T) = 0 /\ Total(F, T) = 0 /\ Total(G, T) = 0
    BY <2>1, TotalOfNone
  <2> QED BY <1>3, <2>1
<1>6. PICK x, R : x = First(T) /\ R = Others(T)
  OBVIOUS
<1>7. /\ x \in T /\ R \in SUBSET T /\ R # T
      /\ Summable(F, R) /\ Total(F, T) = Total(F, R) + F[x]
      /\ Summable(G, R) /\ Total(G, T) = Total(G, R) + G[x]
      /\ Summable(H, R) /\ Total(H, T) = Total(H, R) + H[x]
  BY <1>4, <1>5, <1>6, TotalSplits
<1>8. PICK m \in Int, n \in Int, p \in Int, q \in Int :
        m = Total(F, R) /\ n = Total(G, R) /\ p = F[x] /\ q = G[x]
  BY <1>4, <1>7, TotalIsInt DEF Summable
<1>9. Total(H, R) = m + n /\ H[x] = p + q
  BY <1>3, <1>7, <1>8
<1> QED BY <1>3, <1>7, <1>8, <1>9

\* The sum of nothing but zeros.
LEMMA TotalOfZeros ==
  ASSUME NEW F, NEW S, IsFiniteSet(S), \A x \in S : F[x] = 0
  PROVE  Summable(F, S) /\ Total(F, S) = 0
<1>0. Summable(F, S)
  BY DEF Summable
<1> DEFINE Bad == {T \in SUBSET S : Total(F, T) # 0}
<1>1. SUFFICES ASSUME Bad # {} PROVE FALSE
  BY <1>0
<1>2. PICK T \in Bad : \A U \in Bad : U \subseteq T => U = T
  <2>1. Bad \subseteq SUBSET S
    OBVIOUS
  <2> HIDE DEF Bad
  <2> QED BY <1>1, <2>1, SmallestSubset
<1>3. /\ T \in SUBSET S /\ Total(F, T) # 0
      /\ \A U \in SUBSET T : U # T => Total(F, U) = 0
  BY <1>2
<1> HIDE DEF Bad
<1>4. T # {}
  BY <1>3, TotalOfNone
<1>5. Summable(F, T)
  BY <1>0, <1>3, SummablePart
<1>6. PICK x, R : x = First(T) /\ R = Others(T)
  OBVIOUS
<1>7. x \in T /\ R \in SUBSET T /\ R # T /\ Total(F, T) = Total(F, R) + F[x]
  BY <1>4, <1>5, <1>6, TotalSplits
<1>8. Total(F, R) = 0 /\ F[x] = 0
  BY <1>3, <1>7
<1> QED BY <1>3, <1>7, <1>8

\* The sum of the opposites.
LEMMA TotalNegated ==
  ASSUME NEW F, NEW G, NEW S, Summable(F, S), \A x \in S : G[x] = -F[x]
  PROVE  Summable(G, S) /\ Total(G, S) = -Total(F, S)
<1>1. Summable(G, S) /\ IsFiniteSet(S)
  BY DEF Summable
<1>2. PICK Z : Z = [x \in S |-> 0]
  OBVIOUS
<1>3. \A x \in S : Z[x] = 0 /\ Z[x] = F[x] + G[x]
  BY <1>2 DEF Summable
<1>4. Total(Z, S) = 0
  BY <1>1, <1>3, TotalOfZeros
<1>5. Total(Z, S) = Total(F, S) + Total(G, S)
  BY <1>1, <1>3, TotalTogether
<1>6. PICK m \in Int, n \in Int : m = Total(F, S) /\ n = Total(G, S)
  BY <1>1, TotalIsInt
<1>7. m + n = 0
  BY <1>4, <1>5, <1>6
<1>8. n = -m
  BY <1>7
<1> QED BY <1>1, <1>6, <1>8

\* The sum of what is zero but for one element.
LEMMA TotalOfOne ==
  ASSUME NEW F, NEW S, IsFiniteSet(S), NEW x \in S, F[x] \in Int, \A y \in S \ {x} : F[y] = 0
  PROVE  Summable(F, S) /\ Total(F, S) = F[x]
<1>1. Summable(F, S)
  BY DEF Summable
<1>2. PICK T : T = S \ {x}
  OBVIOUS
<1>3. Total(F, S) = Total(F, T) + F[x]
  BY <1>1, <1>2, TotalRemoves
<1>4. Total(F, T) = 0
  BY <1>2, FS_RemoveElement, TotalOfZeros
<1> QED BY <1>1, <1>3, <1>4

\* The sum of naturals is a natural.
LEMMA TotalOfNaturals ==
  ASSUME NEW F, NEW S, IsFiniteSet(S), \A x \in S : F[x] \in Nat
  PROVE  Summable(F, S) /\ Total(F, S) \in Nat
<1>0. Summable(F, S)
  BY DEF Summable
<1> DEFINE Bad == {T \in SUBSET S : Total(F, T) \notin Nat}
<1>1. SUFFICES ASSUME Bad # {} PROVE FALSE
  BY <1>0
<1>2. PICK T \in Bad : \A U \in Bad : U \subseteq T => U = T
  <2>1. Bad \subseteq SUBSET S
    OBVIOUS
  <2> HIDE DEF Bad
  <2> QED BY <1>1, <2>1, SmallestSubset
<1>3. /\ T \in SUBSET S /\ Total(F, T) \notin Nat
      /\ \A U \in SUBSET T : U # T => Total(F, U) \in Nat
  BY <1>2
<1> HIDE DEF Bad
<1>4. T # {}
  BY <1>3, TotalOfNone
<1>5. Summable(F, T)
  BY <1>0, <1>3, SummablePart
<1>6. PICK x, R : x = First(T) /\ R = Others(T)
  OBVIOUS
<1>7. x \in T /\ R \in SUBSET T /\ R # T /\ Total(F, T) = Total(F, R) + F[x]
  BY <1>4, <1>5, <1>6, TotalSplits
<1>8. PICK m \in Nat, n \in Nat : m = Total(F, R) /\ n = F[x]
  BY <1>3, <1>7
<1> QED BY <1>3, <1>7, <1>8
================================================================================
