------------------------------ MODULE SumTheorems ------------------------------
(***************************************************************************)
(* Sums over finite sets.  MapThenSumSet is defined by recursion over the  *)
(* subsets of its set; what is true of it is proved here by looking at a   *)
(* smallest set of which it is not.                                        *)
(***************************************************************************)
EXTENDS Integers, FiniteSetsExt, FiniteSetTheorems, TLAPS

\* The element a sum takes next, and the function of all subsets it is defined by.
Pick(s) == CHOOSE x \in s : TRUE
AddsUp(val, S, g) ==
  g = [s \in SUBSET S |-> IF s = {} THEN 0 ELSE val[Pick(s)] + g[s \ {Pick(s)}]]
Partial(val, S) == CHOOSE g : AddsUp(val, S, g)

\* The sum of val over S.
Sum(val, S) == Partial(val, S)[S]

\* A set of finite sets has a smallest one.
LEMMA SmallestSet ==
  ASSUME NEW S, IsFiniteSet(S), NEW B, B \subseteq SUBSET S, B # {}
  PROVE  \E T \in B : \A U \in B : U \subseteq T => U = T
<1> DEFINE R == StrictSubsetOrdering(S)
<1>1. IsWellFoundedOn(R, SUBSET S)
  BY FS_StrictSubsetOrderingWellFounded, FS_FiniteSubsetsOfFinite
<1> HIDE DEF R
<1>2. PICK T \in B : \A U \in B : ~ (<<U, T>> \in R)
  BY <1>1, WFMin
<1>3. ASSUME NEW U \in B, U \subseteq T, U # T PROVE FALSE
  <2>1. <<U, T>> \in (SUBSET S) \X (SUBSET S)
    OBVIOUS
  <2>2. <<U, T>> \in R
    BY <2>1, <1>3 DEF R, StrictSubsetOrdering
  <2> QED
    BY <1>2, <2>2
<1> QED
  BY <1>2, <1>3

\* Two such functions agree where both are defined.
LEMMA AddsUpOnce ==
  ASSUME NEW val, NEW S, IsFiniteSet(S), NEW S2, NEW g, NEW h,
         AddsUp(val, S, g), AddsUp(val, S2, h), NEW T, T \subseteq S, T \subseteq S2
  PROVE  g[T] = h[T]
<1> DEFINE B == {U \in SUBSET S : U \subseteq S2 /\ g[U] # h[U]}
<1> SUFFICES ASSUME B # {} PROVE FALSE
  OBVIOUS
<1>0. B \subseteq SUBSET S
  OBVIOUS
<1> HIDE DEF B
<1>1. PICK U \in B : \A V \in B : V \subseteq U => V = U
  BY <1>0, SmallestSet
<1> USE DEF B
<1>2. CASE U = {}
  BY <1>1, <1>2 DEF AddsUp
<1>3. CASE U # {}
  <2> DEFINE V == U \ {Pick(U)}
  <2>1. Pick(U) \in U
    BY <1>3 DEF Pick
  <2>2. V \in SUBSET S /\ V \subseteq S2 /\ V \subseteq U /\ V # U
    BY <2>1
  <2>3. g[V] = h[V]
    BY <1>1, <2>2
  <2>4. g[U] = val[Pick(U)] + g[V] /\ h[U] = val[Pick(U)] + h[V]
    BY <1>3 DEF AddsUp
  <2> QED
    BY <2>3, <2>4
<1> QED
  BY <1>2, <1>3

\* There is such a function for every finite set.
LEMMA PartialAddsUp ==
  ASSUME NEW val, NEW S, IsFiniteSet(S) PROVE AddsUp(val, S, Partial(val, S))
<1> DEFINE B == {U \in SUBSET S : ~ \E g : AddsUp(val, U, g)}
<1>0. B \subseteq SUBSET S
  OBVIOUS
<1> HIDE DEF B
<1>1. ASSUME B # {} PROVE FALSE
  <2>1. PICK U \in B : \A V \in B : V \subseteq U => V = U
    BY <1>0, <1>1, SmallestSet
  <2> USE DEF B
  <2> DEFINE P(s) == Partial(val, s)
  <2>2. ASSUME NEW V \in SUBSET U, V # U PROVE AddsUp(val, V, P(V))
    <3>1. \E g : AddsUp(val, V, g)
      BY <2>1, <2>2
    <3> QED
      BY <3>1 DEF Partial
  <2> DEFINE g == [s \in SUBSET U |-> IF s = {} THEN 0
                     ELSE val[Pick(s)] + P(s \ {Pick(s)})[s \ {Pick(s)}]]
  <2>3. ASSUME NEW s \in SUBSET U, s # {}
        PROVE  g[s] = val[Pick(s)] + g[s \ {Pick(s)}]
    <3> DEFINE t == s \ {Pick(s)}
    <3>1. Pick(s) \in s
      BY <2>3 DEF Pick
    <3>2. t \in SUBSET U /\ t # U /\ IsFiniteSet(t)
      BY <3>1, FS_Subset
    <3>3. AddsUp(val, t, P(t))
      BY <3>2, <2>2
    <3>4. CASE t = {}
      <4>1. P(t)[t] = 0 /\ g[t] = 0
        BY <3>3, <3>4 DEF AddsUp
      <4> QED
        BY <2>3, <4>1
    <3>5. CASE t # {}
      <4> DEFINE u == t \ {Pick(t)}
      <4>1. Pick(t) \in t
        BY <3>5 DEF Pick
      <4>2. u \in SUBSET U /\ u # U /\ u \subseteq t
        BY <4>1, <3>2
      <4>3. AddsUp(val, u, P(u))
        BY <4>2, <2>2
      <4>4. P(t)[u] = P(u)[u]
        BY <3>2, <3>3, <4>2, <4>3, AddsUpOnce
      <4>5. P(t)[t] = val[Pick(t)] + P(t)[u]
        BY <3>3, <3>5 DEF AddsUp
      <4>6. g[t] = val[Pick(t)] + P(u)[u]
        BY <3>2, <3>5
      <4> QED
        BY <2>3, <4>4, <4>5, <4>6
    <3> QED
      BY <3>4, <3>5
  <2>4. g = [s \in SUBSET U |-> IF s = {} THEN 0 ELSE val[Pick(s)] + g[s \ {Pick(s)}]]
    <3> DEFINE h == [s \in SUBSET U |-> IF s = {} THEN 0 ELSE val[Pick(s)] + g[s \ {Pick(s)}]]
    <3>1. \A s \in SUBSET U : g[s] = h[s]
      BY <2>3
    <3>2. DOMAIN g = SUBSET U /\ DOMAIN h = SUBSET U /\ g = [s \in DOMAIN g |-> g[s]]
          /\ h = [s \in DOMAIN h |-> h[s]]
      OBVIOUS
    <3> HIDE DEF g, h
    <3>3. g = h
      BY <3>1, <3>2
    <3> QED
      BY <3>3 DEF h
  <2> HIDE DEF g
  <2>5. AddsUp(val, U, g)
    BY <2>4 DEF AddsUp
  <2> QED
    BY <2>1, <2>5
<1>2. \E g : AddsUp(val, S, g)
  BY <1>1 DEF B
<1> QED
  BY <1>2 DEF Partial

-----------------------------------------------------------------------------
(* What a sum is. *)

LEMMA SumEmpty == ASSUME NEW val PROVE Sum(val, {}) = 0
<1>1. AddsUp(val, {}, Partial(val, {}))
  BY FS_EmptySet, PartialAddsUp
<1> QED
  BY <1>1 DEF Sum, AddsUp

LEMMA SumPick ==
  ASSUME NEW val, NEW S, IsFiniteSet(S), S # {}
  PROVE  Pick(S) \in S /\ Sum(val, S) = val[Pick(S)] + Sum(val, S \ {Pick(S)})
<1> DEFINE V == S \ {Pick(S)}
<1>1. Pick(S) \in S
  BY DEF Pick
<1>2. IsFiniteSet(V)
  BY FS_Subset
<1>3. AddsUp(val, S, Partial(val, S)) /\ AddsUp(val, V, Partial(val, V))
  BY <1>2, PartialAddsUp
<1>4. V \subseteq S /\ V \subseteq V
  OBVIOUS
<1> HIDE DEF V
<1>5. Partial(val, S)[V] = Partial(val, V)[V]
  BY <1>3, <1>4, AddsUpOnce
<1>6. Partial(val, S)[S] = val[Pick(S)] + Partial(val, S)[V]
  BY <1>3 DEF AddsUp, V
<1> QED
  BY <1>1, <1>5, <1>6 DEF Sum, V

LEMMA SumInt ==
  ASSUME NEW val, NEW S, IsFiniteSet(S), \A x \in S : val[x] \in Int
  PROVE  Sum(val, S) \in Int
<1> DEFINE B == {U \in SUBSET S : Sum(val, U) \notin Int}
<1>0. B \subseteq SUBSET S
  OBVIOUS
<1> SUFFICES ASSUME B # {} PROVE FALSE
  OBVIOUS
<1> HIDE DEF B
<1>1. PICK U \in B : \A V \in B : V \subseteq U => V = U
  BY <1>0, SmallestSet
<1> USE DEF B
<1>2. CASE U = {}
  BY <1>1, <1>2, SumEmpty
<1>3. CASE U # {}
  <2>1. IsFiniteSet(U)
    BY FS_Subset
  <2>2. Pick(U) \in U /\ Sum(val, U) = val[Pick(U)] + Sum(val, U \ {Pick(U)})
    BY <1>3, <2>1, SumPick
  <2>3. Sum(val, U \ {Pick(U)}) \in Int
    BY <1>1, <2>2
  <2> QED
    BY <2>2, <2>3
<1> QED
  BY <1>2, <1>3

\* Any element may be taken first.
LEMMA SumTake ==
  ASSUME NEW val, NEW S, IsFiniteSet(S), \A x \in S : val[x] \in Int, NEW e \in S
  PROVE  Sum(val, S) = val[e] + Sum(val, S \ {e})
<1> DEFINE Wrong(U, y) == Sum(val, U) # val[y] + Sum(val, U \ {y})
           B == {U \in SUBSET S : \E y \in U : Wrong(U, y)}
<1>0. B \subseteq SUBSET S
  OBVIOUS
<1> SUFFICES ASSUME B # {} PROVE FALSE
  OBVIOUS
<1> HIDE DEF B
<1>1. PICK U \in B : \A V \in B : V \subseteq U => V = U
  BY <1>0, SmallestSet
<1>2. U \in SUBSET S /\ IsFiniteSet(U)
  BY FS_Subset DEF B
<1>3. PICK y \in U : Wrong(U, y)
  BY DEF B
<1> DEFINE x == Pick(U)
<1>4. x \in U /\ Sum(val, U) = val[x] + Sum(val, U \ {x})
  BY <1>2, <1>3, SumPick
<1>5. x # y
  BY <1>3, <1>4
<1>6. ASSUME NEW V \in SUBSET U, V # U, NEW z \in V
      PROVE  Sum(val, V) = val[z] + Sum(val, V \ {z})
  BY <1>1, <1>2, <1>6 DEF B
<1>7. Sum(val, U \ {x}) = val[y] + Sum(val, (U \ {x}) \ {y})
  BY <1>4, <1>5, <1>6
<1>8. Sum(val, U \ {y}) = val[x] + Sum(val, (U \ {y}) \ {x})
  BY <1>4, <1>5, <1>6
<1> DEFINE rest == Sum(val, (U \ {y}) \ {x})
<1>9. (U \ {x}) \ {y} = (U \ {y}) \ {x}
  OBVIOUS
<1>10. rest \in Int
  BY <1>2, FS_Subset, SumInt
<1>11. val[x] \in Int /\ val[y] \in Int
  BY <1>2, <1>4
<1>12. Sum(val, U) = val[x] + (val[y] + rest) /\ Sum(val, U \ {y}) = val[x] + rest
  BY <1>4, <1>7, <1>8, <1>9
<1> HIDE DEF rest, x
<1>13. Sum(val, U) = val[y] + Sum(val, U \ {y})
  BY <1>10, <1>11, <1>12
<1> QED
  BY <1>3, <1>13

\* One more element.
LEMMA SumAdd ==
  ASSUME NEW val, NEW S, IsFiniteSet(S), NEW e, e \notin S, val[e] \in Int,
         \A x \in S : val[x] \in Int
  PROVE  Sum(val, S \cup {e}) = Sum(val, S) + val[e]
<1>1. IsFiniteSet(S \cup {e}) /\ (S \cup {e}) \ {e} = S
  BY FS_AddElement
<1>2. Sum(val, S \cup {e}) = val[e] + Sum(val, S)
  BY <1>1, SumTake
<1>3. Sum(val, S) \in Int
  BY SumInt
<1> QED
  BY <1>2, <1>3

\* Only the values at the elements matter.
LEMMA SumSame ==
  ASSUME NEW val, NEW w, NEW S, IsFiniteSet(S), \A x \in S : val[x] = w[x]
  PROVE  Sum(val, S) = Sum(w, S)
<1> DEFINE B == {U \in SUBSET S : Sum(val, U) # Sum(w, U)}
<1>0. B \subseteq SUBSET S
  OBVIOUS
<1> SUFFICES ASSUME B # {} PROVE FALSE
  OBVIOUS
<1> HIDE DEF B
<1>1. PICK U \in B : \A V \in B : V \subseteq U => V = U
  BY <1>0, SmallestSet
<1> USE DEF B
<1>2. CASE U = {}
  BY <1>1, <1>2, SumEmpty
<1>3. CASE U # {}
  <2>1. IsFiniteSet(U)
    BY FS_Subset
  <2>2. /\ Pick(U) \in U
        /\ Sum(val, U) = val[Pick(U)] + Sum(val, U \ {Pick(U)})
        /\ Sum(w, U) = w[Pick(U)] + Sum(w, U \ {Pick(U)})
    BY <1>3, <2>1, SumPick
  <2>3. Sum(val, U \ {Pick(U)}) = Sum(w, U \ {Pick(U)})
    BY <1>1, <2>2
  <2> QED
    BY <2>2, <2>3
<1> QED
  BY <1>2, <1>3

\* One value changes.
LEMMA SumChange ==
  ASSUME NEW val, NEW w, NEW S, IsFiniteSet(S), NEW e \in S,
         \A x \in S : val[x] \in Int, \A x \in S : w[x] \in Int,
         \A x \in S \ {e} : w[x] = val[x]
  PROVE  Sum(w, S) = Sum(val, S) + w[e] - val[e]
<1>1. IsFiniteSet(S \ {e})
  BY FS_Subset
<1>2. Sum(w, S \ {e}) = Sum(val, S \ {e}) /\ Sum(val, S \ {e}) \in Int
  BY <1>1, SumSame, SumInt
<1>3. Sum(w, S) = w[e] + Sum(w, S \ {e}) /\ Sum(val, S) = val[e] + Sum(val, S \ {e})
  BY SumTake
<1> QED
  BY <1>2, <1>3

\* Sums of natural numbers.
LEMMA SumNat ==
  ASSUME NEW val, NEW S, IsFiniteSet(S), \A x \in S : val[x] \in Nat
  PROVE  Sum(val, S) \in Nat
<1> DEFINE B == {U \in SUBSET S : Sum(val, U) \notin Nat}
<1>0. B \subseteq SUBSET S
  OBVIOUS
<1> SUFFICES ASSUME B # {} PROVE FALSE
  OBVIOUS
<1> HIDE DEF B
<1>1. PICK U \in B : \A V \in B : V \subseteq U => V = U
  BY <1>0, SmallestSet
<1> USE DEF B
<1>2. CASE U = {}
  BY <1>1, <1>2, SumEmpty
<1>3. CASE U # {}
  <2>1. IsFiniteSet(U)
    BY FS_Subset
  <2>2. Pick(U) \in U /\ Sum(val, U) = val[Pick(U)] + Sum(val, U \ {Pick(U)})
    BY <1>3, <2>1, SumPick
  <2>3. Sum(val, U \ {Pick(U)}) \in Nat
    BY <1>1, <2>2
  <2> QED
    BY <2>2, <2>3
<1> QED
  BY <1>2, <1>3

\* No part is above the whole.
LEMMA PartOfSum ==
  ASSUME NEW val, NEW S, IsFiniteSet(S), \A x \in S : val[x] \in Nat, NEW e \in S
  PROVE  val[e] <= Sum(val, S)
<1>1. IsFiniteSet(S \ {e})
  BY FS_Subset
<1>2. Sum(val, S \ {e}) \in Nat
  BY <1>1, SumNat
<1>3. Sum(val, S) = val[e] + Sum(val, S \ {e})
  BY SumTake
<1> QED
  BY <1>2, <1>3

LEMMA SumOfNothing ==
  ASSUME NEW val, NEW S, IsFiniteSet(S), \A x \in S : val[x] = 0
  PROVE  Sum(val, S) = 0
<1> DEFINE B == {U \in SUBSET S : Sum(val, U) # 0}
<1>0. B \subseteq SUBSET S
  OBVIOUS
<1> SUFFICES ASSUME B # {} PROVE FALSE
  OBVIOUS
<1> HIDE DEF B
<1>1. PICK U \in B : \A V \in B : V \subseteq U => V = U
  BY <1>0, SmallestSet
<1> USE DEF B
<1>2. CASE U = {}
  BY <1>1, <1>2, SumEmpty
<1>3. CASE U # {}
  <2>1. IsFiniteSet(U)
    BY FS_Subset
  <2>2. Pick(U) \in U /\ Sum(val, U) = val[Pick(U)] + Sum(val, U \ {Pick(U)})
    BY <1>3, <2>1, SumPick
  <2>3. Sum(val, U \ {Pick(U)}) = 0
    BY <1>1, <2>2
  <2> QED
    BY <2>2, <2>3
<1> QED
  BY <1>2, <1>3
=============================================================================
