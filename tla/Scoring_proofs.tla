--------------------------- MODULE Scoring_proofs ---------------------------
(***************************************************************************)
(* Theorems about Scoring: what rounding a fraction and summing weights    *)
(* do, and from it what every rubric and every score can be relied on for, *)
(* whatever the description and the candidate.                             *)
(***************************************************************************)
EXTENDS Scoring, FiniteSetTheorems, WellFoundedInduction, TLAPS

-----------------------------------------------------------------------------
(***************************************************************************)
(* Sums over finite sets.  The library adds the values up in an order that *)
(* CHOOSE picks; each fact is proved for a smallest set it could fail for. *)
(***************************************************************************)

(* A set of subsets of a finite set has one that is in it but ceases to be *)
(* when any one element is removed.                                        *)
LEMMA MinimalSet ==
    ASSUME NEW S, IsFiniteSet(S), NEW U \in SUBSET (SUBSET S), U # {}
    PROVE  \E T \in U : \A x \in T : T \ {x} \notin U
<1>1. \A T \in U : IsFiniteSet(T) /\ Cardinality(T) \in Nat
  BY FS_Subset, FS_CardinalityType
<1> DEFINE sizes == {n \in Nat : \E T \in U : Cardinality(T) = n}
<1>2. sizes # {} /\ sizes \subseteq Nat
  BY <1>1
<1> HIDE DEF sizes
<1>3. \E m \in sizes : \A n \in sizes : ~ (<<n, m>> \in OpToRel(<, Nat))
  BY <1>2, NatLessThanWellFounded, WFMin
<1>4. PICK m \in sizes : \A n \in sizes : ~ (<<n, m>> \in OpToRel(<, Nat))
  BY <1>3
<1>5. PICK T \in U : Cardinality(T) = m
  BY DEF sizes
<1>6. ASSUME NEW x \in T, T \ {x} \in U PROVE FALSE
  <2>1. Cardinality(T \ {x}) = Cardinality(T) - 1
    BY <1>1, FS_RemoveElement
  <2>2. Cardinality(T \ {x}) \in Nat /\ Cardinality(T \ {x}) \in sizes
    BY <1>1, <1>6 DEF sizes
  <2>3. m \in Nat /\ Cardinality(T \ {x}) < m
    BY <1>1, <1>5, <2>1
  <2>. QED BY <1>4, <2>2, <2>3 DEF OpToRel
<1>. QED BY <1>6

Some(s) == CHOOSE x \in s : TRUE

SumsUp(g, f, S) ==
    g = [s \in SUBSET S |->
            IF s = {} THEN 0 ELSE f[Some(s)] + g[s \ {Some(s)}]]

LEMMA SomeIn == \A s : s # {} => Some(s) \in s
  BY Zenon DEF Some

LEMMA SumsUpValue ==
    ASSUME NEW f, NEW S, NEW g, SumsUp(g, f, S), NEW s \in SUBSET S
    PROVE  /\ s = {} => g[s] = 0
           /\ s # {} => g[s] = f[Some(s)] + g[s \ {Some(s)}]
<1>1. g[s] = IF s = {} THEN 0 ELSE f[Some(s)] + g[s \ {Some(s)}]
  BY DEF SumsUp
<1>. QED BY <1>1

LEMMA SumsUpNone ==
    ASSUME NEW f, NEW S, NEW g, SumsUp(g, f, S)
    PROVE  g[{}] = 0
<1>1. {} \in SUBSET S
  OBVIOUS
<1>. QED BY <1>1 DEF SumsUp

LEMMA SumsUpUnique ==
    ASSUME NEW f, NEW S, NEW T, NEW g, NEW h, SumsUp(g, f, S), SumsUp(h, f, T),
           IsFiniteSet(S), NEW s \in SUBSET S, s \in SUBSET T
    PROVE  g[s] = h[s]
<1> DEFINE bad == {r \in SUBSET S : r \in SUBSET T /\ g[r] # h[r]}
<1>1. SUFFICES ASSUME bad # {} PROVE FALSE
  OBVIOUS
<1>2. PICK r \in bad : \A x \in r : r \ {x} \notin bad
  BY <1>1, MinimalSet
<1>3. r # {}
  <2>2. g[{}] = 0
    BY SumsUpNone
  <2>3. h[{}] = 0
    BY SumsUpNone
  <2>. QED BY <1>2, <2>2, <2>3
<1>4. PICK x : x = Some(r)
  OBVIOUS
<1>5. x \in r
  BY <1>3, <1>4, SomeIn
<1>6. g[r \ {x}] = h[r \ {x}]
  BY <1>2, <1>5
<1>7. g[r] = f[x] + g[r \ {x}]
  BY <1>3, <1>4, SumsUpValue
<1>8. h[r] = f[x] + h[r \ {x}]
  BY <1>3, <1>4, SumsUpValue
<1>. QED BY <1>2, <1>6, <1>7, <1>8

LEMMA SumsUpExists ==
    ASSUME NEW f, NEW S, IsFiniteSet(S)
    PROVE  \E g : SumsUp(g, f, S)
<1> DEFINE bad == {r \in SUBSET S : ~ \E g : SumsUp(g, f, r)}
<1>1. SUFFICES ASSUME bad # {} PROVE FALSE
  <2>1. S \in SUBSET S
    OBVIOUS
  <2>. QED BY <2>1
<1>2. PICK r \in bad : \A x \in r : r \ {x} \notin bad
  BY <1>1, MinimalSet
<1> DEFINE H(t) == CHOOSE h : SumsUp(h, f, t)
<1>3. ASSUME NEW t \in SUBSET r, t # r PROVE SumsUp(H(t), f, t)
  <2>1. PICK x \in r : x \notin t
    BY <1>3
  <2>2. r \ {x} \in SUBSET S /\ r \ {x} \notin bad /\ t \in SUBSET (r \ {x})
    BY <1>2, <2>1
  <2>3. PICK h : SumsUp(h, f, r \ {x})
    BY <2>2
  <2>4. SumsUp([s \in SUBSET t |-> h[s]], f, t)
    <3> DEFINE k == [s \in SUBSET t |-> h[s]]
    <3>1. ASSUME NEW s \in SUBSET t
          PROVE  k[s] = IF s = {} THEN 0
                        ELSE f[Some(s)] + k[s \ {Some(s)}]
      <4>1. s \in SUBSET (r \ {x})
        BY <2>2
      <4>2. h[s] = IF s = {} THEN 0
                   ELSE f[Some(s)] + h[s \ {Some(s)}]
        BY <2>3, <4>1 DEF SumsUp
      <4>3. \A y : k[s \ {y}] = h[s \ {y}]
        OBVIOUS
      <4>. QED BY <4>2, <4>3
    <3>. QED BY <3>1, Zenon DEF SumsUp
  <2>. QED BY <2>4, Zenon
<1> HIDE DEF H
<1> DEFINE g == [s \in SUBSET r |->
                    IF s = {} THEN 0
                    ELSE f[Some(s)] + H(s \ {Some(s)})[s \ {Some(s)}]]
<1>4. ASSUME NEW t \in SUBSET r, t # r PROVE g[t] = H(t)[t]
  <2>1. SumsUp(H(t), f, t)
    BY <1>3, <1>4
  <2>2. CASE t = {}
    <3>1. H(t)[{}] = 0
      BY <2>1, SumsUpNone
    <3>2. g[t] = 0
      BY <2>2
    <3>. QED BY <2>2, <3>1, <3>2
  <2>3. CASE t # {}
    <3>1. PICK y : y = Some(t)
      OBVIOUS
    <3>2. y \in t /\ t \ {y} \in SUBSET r /\ t \ {y} # r
      BY <2>3, <3>1, SomeIn
    <3>3. H(t)[t] = f[y] + H(t)[t \ {y}]
      BY <2>1, <2>3, <3>1, SumsUpValue
    <3>4. SumsUp(H(t \ {y}), f, t \ {y})
      BY <1>3, <3>2
    <3>5. IsFiniteSet(t)
      BY FS_Subset
    <3>6. H(t)[t \ {y}] = H(t \ {y})[t \ {y}]
      BY <2>1, <3>4, <3>5, SumsUpUnique
    <3>7. g[t] = f[y] + H(t \ {y})[t \ {y}]
      BY <2>3, <3>1
    <3>. QED BY <3>3, <3>6, <3>7
  <2>. QED BY <2>2, <2>3
<1>5. ASSUME NEW s \in SUBSET r
      PROVE  g[s] = IF s = {} THEN 0
                    ELSE f[Some(s)] + g[s \ {Some(s)}]
  <2>1. CASE s = {}
    BY <2>1
  <2>2. CASE s # {}
    <3>1. PICK x : x = Some(s)
      OBVIOUS
    <3>2. x \in s /\ s \ {x} \in SUBSET r /\ s \ {x} # r
      BY <2>2, <3>1, SomeIn
    <3>3. g[s \ {x}] = H(s \ {x})[s \ {x}]
      BY <1>4, <3>2
    <3>4. g[s] = f[x] + H(s \ {x})[s \ {x}]
      BY <2>2, <3>1
    <3>5. g[s] = f[x] + g[s \ {x}]
      BY <3>3, <3>4
    <3> HIDE DEF g
    <3>. QED BY <2>2, <3>1, <3>5
  <2>. QED BY <2>1, <2>2
<1>6. g = [s \in SUBSET r |-> g[s]]
  OBVIOUS
<1> HIDE DEF g
<1>7. SumsUp(g, f, r)
  BY <1>5, <1>6, Zenon DEF SumsUp
<1>. QED BY <1>2, <1>7

SumOf(f, S) == SumFunctionOnSet(f, S)

LEMMA SumIs ==
    ASSUME NEW f, NEW S, IsFiniteSet(S)
    PROVE  \E g : SumsUp(g, f, S) /\ SumOf(f, S) = g[S]
<1> DEFINE g == CHOOSE iter : iter = [s \in SUBSET S |->
                    IF s = {} THEN 0
                    ELSE f[Some(s)] + iter[s \ {Some(s)}]]
<1>1. \E iter : iter = [s \in SUBSET S |->
                    IF s = {} THEN 0
                    ELSE f[Some(s)] + iter[s \ {Some(s)}]]
  <2>1. PICK h : SumsUp(h, f, S)
    BY SumsUpExists
  <2>. QED BY <2>1, Zenon DEF SumsUp
<1>2. SumsUp(g, f, S)
  <2>1. g = [s \in SUBSET S |->
                    IF s = {} THEN 0
                    ELSE f[Some(s)] + g[s \ {Some(s)}]]
    BY <1>1, Zenon
  <2>. QED BY <2>1, Zenon DEF SumsUp
<1>3. SumOf(f, S) = g[S]
  BY Zenon DEF SumOf, SumFunctionOnSet, FoldFunctionOnSet, MapThenFoldSet, Some
<1>. QED BY <1>2, <1>3

LEMMA SumNone == \A f : SumOf(f, {}) = 0
<1>1. ASSUME NEW f PROVE SumOf(f, {}) = 0
  <2>1. PICK g : SumsUp(g, f, {}) /\ SumOf(f, {}) = g[{}]
    BY FS_EmptySet, SumIs
  <2>. QED BY <2>1, SumsUpValue
<1>. QED BY <1>1

LEMMA SumStep ==
    ASSUME NEW f, NEW S, IsFiniteSet(S), S # {}
    PROVE  \E x \in S : SumOf(f, S) = f[x] + SumOf(f, S \ {x})
<1>1. PICK g : SumsUp(g, f, S) /\ SumOf(f, S) = g[S]
  BY SumIs
<1>2. PICK x : x = Some(S)
  OBVIOUS
<1>3. x \in S /\ IsFiniteSet(S \ {x})
  BY <1>2, SomeIn, FS_Subset
<1>4. PICK h : SumsUp(h, f, S \ {x}) /\ SumOf(f, S \ {x}) = h[S \ {x}]
  BY <1>3, SumIs
<1>5. g[S \ {x}] = h[S \ {x}]
  BY <1>1, <1>4, SumsUpUnique
<1>6. g[S] = f[x] + g[S \ {x}]
  BY <1>1, <1>2, SumsUpValue
<1>. QED BY <1>1, <1>3, <1>4, <1>5, <1>6

Whole(f, S) == \A x \in S : f[x] \in Int

LEMMA SumInt ==
    ASSUME NEW S, IsFiniteSet(S), NEW f, Whole(f, S)
    PROVE  SumOf(f, S) \in Int
<1> DEFINE bad == {T \in SUBSET S : SumOf(f, T) \notin Int}
<1>1. SUFFICES ASSUME bad # {} PROVE FALSE
  <2>1. S \in SUBSET S
    OBVIOUS
  <2>. QED BY <2>1
<1>2. PICK T \in bad : \A x \in T : T \ {x} \notin bad
  BY <1>1, MinimalSet
<1>3. IsFiniteSet(T) /\ T # {}
  <2>1. T # {}
    BY <1>2, SumNone
  <2>. QED BY <2>1, FS_Subset
<1>4. PICK x \in T : SumOf(f, T) = f[x] + SumOf(f, T \ {x})
  BY <1>3, SumStep
<1>5. SumOf(f, T \ {x}) \in Int /\ f[x] \in Int
  BY <1>2 DEF Whole
<1>. QED BY <1>2, <1>4, <1>5

(* Any element can be taken out of a sum.                                  *)
LEMMA SumTake ==
    ASSUME NEW S, IsFiniteSet(S), NEW f, Whole(f, S), NEW e \in S
    PROVE  SumOf(f, S) = f[e] + SumOf(f, S \ {e})
<1> DEFINE bad == {T \in SUBSET S : \E x \in T : SumOf(f, T) # f[x] + SumOf(f, T \ {x})}
<1>1. SUFFICES ASSUME bad # {} PROVE FALSE
  <2>1. S \in SUBSET S
    OBVIOUS
  <2>. QED BY <2>1
<1>2. PICK T \in bad : \A x \in T : T \ {x} \notin bad
  BY <1>1, MinimalSet
<1>3. PICK x \in T : SumOf(f, T) # f[x] + SumOf(f, T \ {x})
  BY <1>2
<1>4. IsFiniteSet(T) /\ T # {}
  BY FS_Subset
<1>5. PICK c \in T : SumOf(f, T) = f[c] + SumOf(f, T \ {c})
  BY <1>4, SumStep
<1>6. c # x
  BY <1>3, <1>5
<1>7. T \ {c} \in SUBSET S /\ T \ {c} \notin bad /\ x \in T \ {c}
  BY <1>2, <1>6
<1>8. SumOf(f, T \ {c}) = f[x] + SumOf(f, (T \ {c}) \ {x})
  BY <1>7
<1>9. T \ {x} \in SUBSET S /\ T \ {x} \notin bad /\ c \in T \ {x}
  BY <1>2, <1>6
<1>10. SumOf(f, T \ {x}) = f[c] + SumOf(f, (T \ {x}) \ {c})
  BY <1>9
<1>11. SumOf(f, (T \ {c}) \ {x}) = SumOf(f, (T \ {x}) \ {c})
  <2>1. (T \ {c}) \ {x} = (T \ {x}) \ {c}
    OBVIOUS
  <2>. QED BY <2>1
<1>12. f[x] \in Int /\ f[c] \in Int /\ SumOf(f, (T \ {x}) \ {c}) \in Int
  <2>1. IsFiniteSet((T \ {x}) \ {c}) /\ Whole(f, (T \ {x}) \ {c})
    BY FS_Subset DEF Whole
  <2>. QED BY <2>1, SumInt DEF Whole
<1>. QED BY <1>3, <1>5, <1>8, <1>10, <1>11, <1>12

LEMMA SumSame ==
    ASSUME NEW S, IsFiniteSet(S), NEW f, NEW g, \A x \in S : f[x] = g[x]
    PROVE  SumOf(f, S) = SumOf(g, S)
<1>1. PICK a : SumsUp(a, f, S) /\ SumOf(f, S) = a[S]
  BY SumIs
<1>2. PICK b : SumsUp(b, g, S) /\ SumOf(g, S) = b[S]
  BY SumIs
<1> DEFINE bad == {T \in SUBSET S : a[T] # b[T]}
<1>3. SUFFICES ASSUME bad # {} PROVE FALSE
  BY <1>1, <1>2
<1>4. PICK T \in bad : \A x \in T : T \ {x} \notin bad
  BY <1>3, MinimalSet
<1>5. T # {}
  BY <1>1, <1>2, <1>4, SumsUpValue
<1>6. PICK x : x = Some(T)
  OBVIOUS
<1>7. x \in T /\ a[T \ {x}] = b[T \ {x}]
  BY <1>4, <1>5, <1>6, SomeIn
<1>8. a[T] = f[x] + a[T \ {x}]
  BY <1>1, <1>5, <1>6, SumsUpValue
<1>9. b[T] = g[x] + b[T \ {x}]
  BY <1>2, <1>5, <1>6, SumsUpValue
<1>. QED BY <1>4, <1>7, <1>8, <1>9

LEMMA SumUnion ==
    ASSUME NEW S, NEW T, IsFiniteSet(S), IsFiniteSet(T), S \cap T = {}, NEW f,
           Whole(f, S), Whole(f, T)
    PROVE  SumOf(f, S \cup T) = SumOf(f, S) + SumOf(f, T)
<1> DEFINE bad == {R \in SUBSET T : SumOf(f, S \cup R) # SumOf(f, S) + SumOf(f, R)}
<1>1. SUFFICES ASSUME bad # {} PROVE FALSE
  <2>1. T \in SUBSET T
    OBVIOUS
  <2>. QED BY <2>1
<1>2. PICK R \in bad : \A x \in R : R \ {x} \notin bad
  BY <1>1, MinimalSet
<1>3. SumOf(f, S) \in Int
  BY SumInt
<1>4. CASE R = {}
  BY <1>2, <1>3, <1>4, SumNone
<1>5. CASE R # {}
  <2>1. PICK x \in R : x \notin S
    BY <1>5
  <2>2. SumOf(f, S \cup (R \ {x})) = SumOf(f, S) + SumOf(f, R \ {x})
    BY <1>2, <2>1
  <2>3. IsFiniteSet(R) /\ IsFiniteSet(R \ {x}) /\ IsFiniteSet(S \cup R)
    BY FS_Subset, FS_Union
  <2>4. Whole(f, R) /\ Whole(f, R \ {x}) /\ Whole(f, S \cup R)
    BY DEF Whole
  <2>5. SumOf(f, R) = f[x] + SumOf(f, R \ {x})
    BY <2>3, <2>4, SumTake
  <2>6. SumOf(f, S \cup R) = f[x] + SumOf(f, (S \cup R) \ {x})
    BY <2>3, <2>4, SumTake
  <2>7. (S \cup R) \ {x} = S \cup (R \ {x})
    BY <2>1
  <2>8. f[x] \in Int /\ SumOf(f, R \ {x}) \in Int
    BY <2>3, <2>4, SumInt DEF Whole
  <2>. QED BY <1>2, <1>3, <2>2, <2>5, <2>6, <2>7, <2>8
<1>. QED BY <1>4, <1>5

LEMMA SumPositive ==
    ASSUME NEW S, IsFiniteSet(S), NEW f, \A x \in S : f[x] \in Nat
    PROVE  /\ SumOf(f, S) \in Nat
           /\ (\E x \in S : f[x] > 0) => SumOf(f, S) > 0
<1>1. ASSUME NEW T \in SUBSET S PROVE SumOf(f, T) \in Nat
  <2> DEFINE bad == {R \in SUBSET S : SumOf(f, R) \notin Nat}
  <2>1. SUFFICES ASSUME bad # {} PROVE FALSE
    OBVIOUS
  <2>2. PICK R \in bad : \A x \in R : R \ {x} \notin bad
    BY <2>1, MinimalSet
  <2>3. IsFiniteSet(R) /\ R # {}
    <3>1. R # {}
      BY <2>2, SumNone
    <3>. QED BY <3>1, FS_Subset
  <2>4. PICK x \in R : SumOf(f, R) = f[x] + SumOf(f, R \ {x})
    BY <2>3, SumStep
  <2>. QED BY <2>2, <2>4
<1>2. ASSUME NEW x \in S, f[x] > 0 PROVE SumOf(f, S) > 0
  <2>1. SumOf(f, S) = f[x] + SumOf(f, S \ {x})
    BY SumTake DEF Whole
  <2>2. SumOf(f, S \ {x}) \in Nat
    BY <1>1
  <2>. QED BY <1>2, <2>1, <2>2
<1>. QED BY <1>1, <1>2

LEMMA SumLess ==
    ASSUME NEW S, IsFiniteSet(S), NEW f, \A x \in S : f[x] \in Nat, NEW T \in SUBSET S
    PROVE  SumOf(f, T) <= SumOf(f, S)
<1>1. IsFiniteSet(T) /\ IsFiniteSet(S \ T) /\ S = T \cup (S \ T)
  BY FS_Subset
<1>2. Whole(f, T) /\ Whole(f, S \ T)
  BY DEF Whole
<1>3. SumOf(f, T \cup (S \ T)) = SumOf(f, T) + SumOf(f, S \ T)
  BY <1>1, <1>2, SumUnion
<1>4. SumOf(f, T) \in Nat /\ SumOf(f, S \ T) \in Nat
  BY <1>1, SumPositive
<1>5. SumOf(f, S) = SumOf(f, T \cup (S \ T))
  BY <1>1
<1>. QED BY <1>3, <1>4, <1>5

(* The sum of n equal values is their product.                             *)
LEMMA SumEqual ==
    ASSUME NEW S, IsFiniteSet(S), NEW v \in Int, NEW f, \A x \in S : f[x] = v
    PROVE  SumOf(f, S) = Cardinality(S) * v
<1> DEFINE bad == {T \in SUBSET S : SumOf(f, T) # Cardinality(T) * v}
<1>1. SUFFICES ASSUME bad # {} PROVE FALSE
  <2>1. S \in SUBSET S
    OBVIOUS
  <2>. QED BY <2>1
<1>2. PICK T \in bad : \A x \in T : T \ {x} \notin bad
  BY <1>1, MinimalSet
<1>3. IsFiniteSet(T) /\ Cardinality(T) \in Nat
  BY FS_Subset, FS_CardinalityType
<1>4. T # {}
  BY <1>2, FS_EmptySet, SumNone
<1>5. PICK x \in T : SumOf(f, T) = f[x] + SumOf(f, T \ {x})
  BY <1>3, <1>4, SumStep
<1>6. SumOf(f, T \ {x}) = Cardinality(T \ {x}) * v
  BY <1>2
<1>7. Cardinality(T \ {x}) = Cardinality(T) - 1
  BY <1>3, FS_RemoveElement
<1>8. (Cardinality(T) - 1) * v = Cardinality(T) * v - v
  BY <1>3
<1>. QED BY <1>2, <1>3, <1>5, <1>6, <1>7, <1>8

-----------------------------------------------------------------------------
(***************************************************************************)
(* Rounding.                                                               *)
(***************************************************************************)

(* r is a nearest integer to num / den.                                    *)
Nearest(r, num, den) ==
    r \in Int /\ 2 * (den * r) - den <= 2 * num /\ 2 * num <= 2 * (den * r) + den

LEMMA HalfUpNearest ==
    ASSUME NEW num \in Int, NEW den \in Int, den > 0
    PROVE  Nearest(HalfUp(num, den), num, den)
<1> DEFINE q == (2 * num + den) \div (2 * den)
           m == (2 * num + den) % (2 * den)
<1>1. 2 * num + den \in Int /\ 2 * den \in Int /\ 2 * den > 0
  OBVIOUS
<1>2. /\ q \in Int /\ m \in Int /\ 0 <= m /\ m < 2 * den
      /\ 2 * num + den = (2 * den) * q + m
  BY <1>1
<1>3. HalfUp(num, den) = q
  BY DEF HalfUp
<1> HIDE DEF q, m
<1>4. (2 * den) * q = 2 * (den * q)
  BY <1>2
<1>5. den * q \in Int
  BY <1>2
<1>. QED BY <1>2, <1>3, <1>4, <1>5 DEF Nearest

(* A tie is halfway between two integers: the smaller is the quotient.     *)
LEMMA TieIsHalfway ==
    ASSUME NEW num \in Int, NEW den \in Int, den > 0, IsTie(num, den)
    PROVE  num \div den \in Int /\ 2 * num = 2 * (den * (num \div den)) + den
<1> DEFINE k == num \div den
           m == num % den
           j == (2 * num) \div den
           i == j \div 2
<1>1. k \in Int /\ m \in Int /\ 0 <= m /\ m < den /\ num = den * k + m
  OBVIOUS
<1>2. (2 * num) % den = 0 /\ j % 2 = 1
  BY DEF IsTie
<1>3. j \in Int /\ 2 * num = den * j
  <2>1. 2 * num \in Int
    OBVIOUS
  <2>2. j \in Int /\ 2 * num = den * j + ((2 * num) % den)
    BY <2>1
  <2>3. den * j \in Int
    BY <2>2
  <2>. QED BY <1>2, <2>2, <2>3
<1>4. i \in Int /\ j = 2 * i + 1
  BY <1>2, <1>3
<1> HIDE DEF k, m, j, i
<1>5. den * j = 2 * (den * k) + 2 * m
  <2>1. den * k \in Int
    BY <1>1
  <2>. QED BY <1>1, <1>3, <2>1
<1>6. den * (j - 2 * k) = 2 * m
  <2>1. den * (j - 2 * k) = den * j - 2 * (den * k)
    BY <1>1, <1>3
  <2>2. den * j \in Int /\ den * k \in Int
    BY <1>1, <1>3
  <2>. QED BY <1>1, <1>5, <2>1, <2>2
<1>7. j - 2 * k = 1
  <2> DEFINE t == j - 2 * k
  <2>1. t \in Int /\ t = 2 * (i - k) + 1
    BY <1>1, <1>3, <1>4
  <2>2. den * t = 2 * m
    BY <1>6
  <2> HIDE DEF t
  <2>3. ~(t < 0)
    <3>1. SUFFICES ASSUME t <= -1 PROVE FALSE
      BY <2>1
    <3>2. den * t <= den * (-1)
      BY <2>1, <3>1
    <3>. QED BY <1>1, <2>2, <3>2
  <2>4. ~(t >= 2)
    <3>1. SUFFICES ASSUME t >= 2 PROVE FALSE
      OBVIOUS
    <3>2. den * t >= den * 2
      BY <2>1, <3>1
    <3>. QED BY <1>1, <2>2, <3>2
  <2>5. t = 1
    BY <1>1, <1>4, <2>1, <2>3, <2>4
  <2>. QED BY <2>5 DEF t
<1>8. 2 * m = den
  BY <1>6, <1>7
<1>9. den * k \in Int
  BY <1>1
<1>. QED BY <1>1, <1>8, <1>9 DEF k

LEMMA HalfEvenNearest ==
    ASSUME NEW num \in Int, NEW den \in Int, den > 0
    PROVE  Nearest(HalfEven(num, den), num, den)
<1>1. CASE ~IsTie(num, den)
  BY <1>1, HalfUpNearest DEF HalfEven
<1>2. CASE IsTie(num, den)
  <2> DEFINE k == num \div den
  <2>1. k \in Int /\ 2 * num = 2 * (den * k) + den
    BY <1>2, TieIsHalfway
  <2>2. HalfEven(num, den) = k + (k % 2)
    BY <1>2 DEF HalfEven
  <2> HIDE DEF k
  <2>3. k % 2 \in {0, 1} /\ den * k \in Int /\ den * (k + 1) = den * k + den
    BY <2>1
  <2>4. CASE k % 2 = 0
    BY <2>1, <2>2, <2>3, <2>4 DEF Nearest
  <2>5. CASE k % 2 = 1
    <3>1. HalfEven(num, den) = k + 1
      BY <2>2, <2>5
    <3>. QED BY <2>1, <2>3, <3>1 DEF Nearest
  <2>. QED BY <2>3, <2>4, <2>5
<1>. QED BY <1>1, <1>2

(* The two roundings differ by one, and at ties only.                      *)
LEMMA RoundingsDiffer ==
    ASSUME NEW num \in Int, NEW den \in Int, den > 0
    PROVE  \/ HalfUp(num, den) = HalfEven(num, den)
           \/ IsTie(num, den) /\ HalfUp(num, den) = HalfEven(num, den) + 1
<1>1. CASE ~IsTie(num, den)
  BY <1>1 DEF HalfEven
<1>2. CASE IsTie(num, den)
  <2> DEFINE k == num \div den
             q == (2 * num + den) \div (2 * den)
             m == (2 * num + den) % (2 * den)
  <2>1. k \in Int /\ 2 * num = 2 * (den * k) + den
    BY <1>2, TieIsHalfway
  <2>2. HalfEven(num, den) = k + (k % 2) /\ HalfUp(num, den) = q
    BY <1>2 DEF HalfEven, HalfUp
  <2>3. 2 * num + den \in Int /\ 2 * den \in Int /\ 2 * den > 0
    OBVIOUS
  <2>4. /\ q \in Int /\ m \in Int /\ 0 <= m /\ m < 2 * den
        /\ 2 * num + den = (2 * den) * q + m
    BY <2>3
  <2> HIDE DEF k, q, m
  <2>5. (2 * den) * q = 2 * (den * q) /\ den * q \in Int /\ den * k \in Int
    BY <2>1, <2>4
  <2>6. ~(q <= k)
    <3>1. SUFFICES ASSUME q <= k PROVE FALSE
      OBVIOUS
    <3>2. den * q <= den * k
      BY <2>1, <2>4, <3>1
    <3>. QED BY <2>1, <2>4, <2>5, <3>2
  <2>7. ~(q >= k + 2)
    <3>1. SUFFICES ASSUME q >= k + 2 PROVE FALSE
      OBVIOUS
    <3>2. den * q >= den * (k + 2) /\ den * (k + 2) = den * k + 2 * den
      BY <2>1, <2>4, <3>1
    <3>. QED BY <2>1, <2>4, <2>5, <3>2
  <2>8. q = k + 1
    BY <2>1, <2>4, <2>6, <2>7
  <2>9. k % 2 \in {0, 1}
    BY <2>1
  <2>. QED BY <1>2, <2>1, <2>2, <2>8, <2>9
<1>. QED BY <1>1, <1>2

(* A smaller fraction is not rounded to more.                              *)
LEMMA NearestGrows ==
    ASSUME NEW den \in Int, den > 0, NEW a \in Int, NEW b \in Int, a < b,
           NEW r, NEW s, Nearest(r, a, den), Nearest(s, b, den)
    PROVE  r <= s
<1>1. r \in Int /\ s \in Int
  BY DEF Nearest
<1>2. SUFFICES ASSUME r >= s + 1 PROVE FALSE
  BY <1>1
<1>3. den * r >= den * (s + 1) /\ den * (s + 1) = den * s + den
  BY <1>1, <1>2
<1>4. den * r \in Int /\ den * s \in Int
  BY <1>1
<1>5. 2 * (den * r) - den <= 2 * a /\ 2 * b <= 2 * (den * s) + den
  BY DEF Nearest
<1>. QED BY <1>3, <1>4, <1>5

(* Rounding stays on the same side of every integer.                       *)
LEMMA NearestBounds ==
    ASSUME NEW den \in Int, den > 0, NEW num \in Int, NEW k \in Int,
           NEW r, Nearest(r, num, den)
    PROVE  /\ den * k <= num => k <= r
           /\ num <= den * k => r <= k
<1>1. r \in Int /\ den * r \in Int /\ den * k \in Int
  BY DEF Nearest
<1>2. 2 * (den * r) - den <= 2 * num /\ 2 * num <= 2 * (den * r) + den
  BY DEF Nearest
<1>3. ASSUME den * k <= num, r < k PROVE FALSE
  <2>1. den * (r + 1) <= den * k /\ den * (r + 1) = den * r + den
    BY <1>1, <1>3
  <2>. QED BY <1>1, <1>2, <1>3, <2>1
<1>4. ASSUME num <= den * k, k < r PROVE FALSE
  <2>1. den * (k + 1) <= den * r /\ den * (k + 1) = den * k + den
    BY <1>1, <1>4
  <2>. QED BY <1>1, <1>2, <1>4, <2>1
<1>. QED BY <1>1, <1>3, <1>4

LEMMA HalfEvenGrows ==
    ASSUME NEW den \in Int, den > 0, NEW a \in Int, NEW b \in Int, a <= b
    PROVE  HalfEven(a, den) <= HalfEven(b, den)
<1>1. Nearest(HalfEven(a, den), a, den) /\ Nearest(HalfEven(b, den), b, den)
  BY HalfEvenNearest
<1>2. CASE a = b
  BY <1>1, <1>2 DEF Nearest
<1>3. CASE a < b
  BY <1>1, <1>3, NearestGrows
<1>. QED BY <1>2, <1>3

-----------------------------------------------------------------------------
(***************************************************************************)
(* The rubric.                                                             *)
(***************************************************************************)

(* Whatever the shares, the first weight makes the total 100.              *)
LEMMA BalancedSum ==
    ASSUME NEW n \in Nat, n > 0, NEW shares \in [1..n -> Int]
    PROVE  LET ws == Balanced(shares)
           IN  /\ ws \in [1..n -> Int]
               /\ Total(ws) = 100
               /\ ws[1] = shares[1] + 100 - Total(shares)
               /\ \A i \in 1..n : i # 1 => ws[i] = shares[i]
<1> DEFINE drift == 100 - Total(shares)
           ws == [shares EXCEPT ![1] = @ + 100 - Total(shares)]
           rest == (1..n) \ {1}
<1>1. IsFiniteSet(1..n) /\ IsFiniteSet(rest) /\ 1 \in 1..n
  BY FS_Interval, FS_Subset
<1>2. Balanced(shares) = ws
  <2>1. shares # <<>>
    <3>1. DOMAIN shares = 1..n /\ DOMAIN <<>> = {}
      OBVIOUS
    <3>. QED BY <1>1, <3>1
  <2>. QED BY <2>1 DEF Balanced
<1>3. Total(shares) = SumOf(shares, 1..n)
  BY DEF Total, SumFunction, SumOf
<1>4. Total(shares) \in Int
  BY <1>1, <1>3, SumInt DEF Whole
<1>5. /\ ws \in [1..n -> Int]
      /\ ws[1] = shares[1] + 100 - Total(shares)
      /\ \A i \in rest : ws[i] = shares[i]
  BY <1>1, <1>4
<1> HIDE DEF ws
<1>6. Total(ws) = SumOf(ws, 1..n)
  BY <1>5 DEF Total, SumFunction, SumOf
<1>7. SumOf(ws, 1..n) = ws[1] + SumOf(ws, rest)
  BY <1>1, <1>5, SumTake DEF Whole
<1>8. SumOf(shares, 1..n) = shares[1] + SumOf(shares, rest)
  BY <1>1, SumTake DEF Whole
<1>9. SumOf(ws, rest) = SumOf(shares, rest)
  BY <1>1, <1>5, SumSame
<1>10. SumOf(shares, rest) \in Int /\ shares[1] \in Int
  BY <1>1, SumInt DEF Whole
<1>11. Total(ws) = 100
  BY <1>3, <1>5, <1>6, <1>7, <1>8, <1>9, <1>10
<1>. QED BY <1>2, <1>5, <1>11

Stepped(f, m, k, a, b) == \A i \in 1..(m + k) : f[i] = IF i <= m THEN a ELSE b

LEMMA TwoValues ==
    ASSUME NEW m \in Nat, NEW k \in Nat, NEW a \in Int, NEW b \in Int, NEW f,
           Stepped(f, m, k, a, b)
    PROVE  SumOf(f, 1..(m + k)) = m * a + k * b
<1>1. /\ IsFiniteSet(1..m) /\ Cardinality(1..m) = m
      /\ IsFiniteSet((m + 1)..(m + k)) /\ Cardinality((m + 1)..(m + k)) = k
  <2>1. /\ IsFiniteSet(1..m)
        /\ Cardinality(1..m) = IF 1 > m THEN 0 ELSE m - 1 + 1
    BY FS_Interval
  <2>2. m + 1 \in Int /\ m + k \in Int
    OBVIOUS
  <2>3. /\ IsFiniteSet((m + 1)..(m + k))
        /\ Cardinality((m + 1)..(m + k)) =
              IF m + 1 > m + k THEN 0 ELSE (m + k) - (m + 1) + 1
    BY <2>2, FS_Interval
  <2>. QED BY <2>1, <2>3
<1>2. 1..(m + k) = (1..m) \cup ((m + 1)..(m + k)) /\ (1..m) \cap ((m + 1)..(m + k)) = {}
  OBVIOUS
<1>3. (\A i \in 1..m : f[i] = a) /\ (\A i \in (m + 1)..(m + k) : f[i] = b)
  BY DEF Stepped
<1>4. SumOf(f, 1..m) = m * a
  <2>1. SumOf(f, 1..m) = Cardinality(1..m) * a
    BY <1>1, <1>3, SumEqual
  <2>. QED BY <1>1, <2>1
<1>5. SumOf(f, (m + 1)..(m + k)) = k * b
  <2>1. SumOf(f, (m + 1)..(m + k)) = Cardinality((m + 1)..(m + k)) * b
    BY <1>1, <1>3, SumEqual
  <2>. QED BY <1>1, <2>1
<1>6. Whole(f, 1..m) /\ Whole(f, (m + 1)..(m + k))
  BY <1>3 DEF Whole
<1>7. SumOf(f, (1..m) \cup ((m + 1)..(m + k))) = SumOf(f, 1..m) + SumOf(f, (m + 1)..(m + k))
  BY <1>1, <1>2, <1>6, SumUnion
<1>. QED BY <1>2, <1>4, <1>5, <1>7

(* The criteria of a description: m must-haves, then k others.             *)
Described(ts, m, k) ==
    /\ m \in Nat /\ k \in Nat /\ m + k > 0
    /\ ts = [i \in 1..(m + k) |-> ts[i]]
    /\ \A i \in 1..(m + k) : ts[i] = "Must-have" <=> i <= m

LEMMA RawIs ==
    ASSUME NEW ts, NEW m, NEW k, Described(ts, m, k)
    PROVE  Raw(ts) = 3 * m + k /\ Raw(ts) \in Int /\ Raw(ts) > 0
<1> DEFINE f == [i \in DOMAIN ts |-> Bucket(ts[i])]
<1>1. m \in Nat /\ k \in Nat /\ m + k > 0 /\ DOMAIN ts = 1..(m + k)
  BY DEF Described
<1>2. \A i \in 1..(m + k) : f[i] = IF i <= m THEN 3 ELSE 1
  BY <1>1 DEF Described, Bucket
<1>3. DOMAIN f = 1..(m + k)
  BY <1>1
<1>4. Raw(ts) = SumOf(f, 1..(m + k))
  BY <1>3 DEF Raw, Total, SumFunction, SumOf
<1> HIDE DEF f
<1>5. SumOf(f, 1..(m + k)) = m * 3 + k * 1
  <2>1. 3 \in Int /\ 1 \in Int
    OBVIOUS
  <2>2. Stepped(f, m, k, 3, 1)
    BY <1>2 DEF Stepped
  <2>. QED BY <1>1, <2>1, <2>2, TwoValues
<1>. QED BY <1>1, <1>4, <1>5

(* Shares of which every must-have has one, and every other another.       *)
Shares(ts, a, b) == [i \in DOMAIN ts |-> IF ts[i] = "Must-have" THEN a ELSE b]

LEMMA WeightsAreShares ==
    ASSUME NEW ts, NEW m, NEW k, Described(ts, m, k)
    PROVE  \E a, b \in Int :
              /\ Nearest(a, 300, 3 * m + k) /\ Nearest(b, 100, 3 * m + k)
              /\ Weights(ts) = Balanced(Shares(ts, a, b))
<1>1. Raw(ts) = 3 * m + k /\ Raw(ts) \in Int /\ Raw(ts) > 0
  BY RawIs
<1> DEFINE a == HalfEven(100 * 3, Raw(ts))
           b == HalfEven(100 * 1, Raw(ts))
<1>2. Nearest(a, 100 * 3, Raw(ts)) /\ Nearest(b, 100 * 1, Raw(ts))
  BY <1>1, HalfEvenNearest
<1>3. Nearest(a, 300, 3 * m + k) /\ Nearest(b, 100, 3 * m + k)
  BY <1>1, <1>2
<1>4. [i \in DOMAIN ts |-> HalfEven(100 * Bucket(ts[i]), Raw(ts))] = Shares(ts, a, b)
  BY Zenon DEF Shares, Bucket
<1>5. a \in Int /\ b \in Int
  BY <1>3 DEF Nearest
<1>6. Weights(ts) = Balanced(Shares(ts, a, b))
  BY <1>4 DEF Weights
<1> HIDE DEF a, b
<1>. QED BY <1>3, <1>5, <1>6

LEMMA PortWeightsAreShares ==
    ASSUME NEW ts, NEW m, NEW k, Described(ts, m, k)
    PROVE  \E a, b \in Int :
              /\ Nearest(a, 300, 3 * m + k) /\ Nearest(b, 100, 3 * m + k)
              /\ PortWeights(ts) = Balanced(Shares(ts, a, b))
<1>1. Raw(ts) = 3 * m + k /\ Raw(ts) \in Int /\ Raw(ts) > 0
  BY RawIs
<1> DEFINE a == HalfUp(100 * 3, Raw(ts))
           b == HalfUp(100 * 1, Raw(ts))
<1>2. Nearest(a, 100 * 3, Raw(ts)) /\ Nearest(b, 100 * 1, Raw(ts))
  BY <1>1, HalfUpNearest
<1>3. Nearest(a, 300, 3 * m + k) /\ Nearest(b, 100, 3 * m + k)
  BY <1>1, <1>2
<1>4. [i \in DOMAIN ts |-> HalfUp(100 * Bucket(ts[i]), Raw(ts))] = Shares(ts, a, b)
  BY Zenon DEF Shares, Bucket
<1>5. a \in Int /\ b \in Int
  BY <1>3 DEF Nearest
<1>6. PortWeights(ts) = Balanced(Shares(ts, a, b))
  BY <1>4 DEF PortWeights
<1> HIDE DEF a, b
<1>. QED BY <1>3, <1>5, <1>6

(* Up to 13 criteria, whichever way ties go, what the first share gains or *)
(* loses in the balancing leaves it positive and, if it is a must-have's,  *)
(* the others' at most equal to it.                                        *)
LEMMA UpTo13 ==
    ASSUME NEW m \in 0..13, NEW k \in 0..13, m + k \in 1..13, NEW a \in Int, NEW b \in Int,
           Nearest(a, 300, 3 * m + k), Nearest(b, 100, 3 * m + k)
    PROVE  /\ a > 0 /\ b > 0 /\ a >= b
           /\ m > 0 => /\ a + 100 - (m * a + k * b) >= b
                       /\ a + 100 - (m * a + k * b) > 0
           /\ m = 0 => b + 100 - (m * a + k * b) > 0
<1>1. /\ 2 * ((3 * m + k) * a) - (3 * m + k) <= 600 /\ 600 <= 2 * ((3 * m + k) * a) + (3 * m + k)
      /\ 2 * ((3 * m + k) * b) - (3 * m + k) <= 200 /\ 200 <= 2 * ((3 * m + k) * b) + (3 * m + k)
  BY DEF Nearest
<1>2. \/ m = 0 \/ m = 1 \/ m = 2 \/ m = 3 \/ m = 4 \/ m = 5 \/ m = 6
      \/ m = 7 \/ m = 8 \/ m = 9 \/ m = 10 \/ m = 11 \/ m = 12 \/ m = 13
  OBVIOUS
<1>3. \/ k = 0 \/ k = 1 \/ k = 2 \/ k = 3 \/ k = 4 \/ k = 5 \/ k = 6
      \/ k = 7 \/ k = 8 \/ k = 9 \/ k = 10 \/ k = 11 \/ k = 12 \/ k = 13
  OBVIOUS
<1>. QED BY <1>1, <1>2, <1>3, SMTT(60)

Honest(ws, ts) ==
    /\ Total(ws) = 100
    /\ \A i \in DOMAIN ws : ws[i] > 0
    /\ \A i \in Must(ts), j \in DOMAIN ws \ Must(ts) : ws[i] >= ws[j]

LEMMA BalancedShares ==
    ASSUME NEW ts, NEW m, NEW k, Described(ts, m, k), NEW a \in Int, NEW b \in Int,
           NEW ws, ws = Balanced(Shares(ts, a, b))
    PROVE  /\ ws \in [1..(m + k) -> Int] /\ Total(ws) = 100
           /\ (m + k <= 13 /\ Nearest(a, 300, 3 * m + k) /\ Nearest(b, 100, 3 * m + k))
                => Honest(ws, ts)
<1> DEFINE n == m + k
           shares == Shares(ts, a, b)
<1>1. m \in Nat /\ k \in Nat /\ n \in Nat /\ n > 0 /\ 1 \in 1..n /\ DOMAIN ts = 1..n
  BY DEF Described
<1>2. shares \in [1..n -> Int] /\ \A i \in 1..n : shares[i] = IF i <= m THEN a ELSE b
  BY <1>1 DEF Shares, Described
<1> HIDE DEF shares
<1>3. /\ ws \in [1..n -> Int]
      /\ Total(ws) = 100
      /\ ws[1] = shares[1] + 100 - Total(shares)
      /\ \A i \in 1..n : i # 1 => ws[i] = shares[i]
  BY <1>1, <1>2, BalancedSum DEF shares
<1>4. Total(shares) = m * a + k * b
  <2>1. SumOf(shares, 1..n) = m * a + k * b
    <3>1. Stepped(shares, m, k, a, b)
      BY <1>2 DEF Stepped
    <3>. QED BY <1>1, <3>1, TwoValues
  <2>. QED BY <1>2, <2>1 DEF Total, SumFunction, SumOf
<1>5. ASSUME n <= 13, Nearest(a, 300, 3 * m + k), Nearest(b, 100, 3 * m + k)
      PROVE  Honest(ws, ts)
  <2>1. m \in 0..13 /\ k \in 0..13 /\ m + k \in 1..13
    BY <1>1, <1>5
  <2>2. /\ a > 0 /\ b > 0 /\ a >= b
        /\ m > 0 => /\ a + 100 - (m * a + k * b) >= b
                    /\ a + 100 - (m * a + k * b) > 0
        /\ m = 0 => b + 100 - (m * a + k * b) > 0
    BY <1>5, <2>1, UpTo13
  <2>3. ws[1] > 0 /\ (m > 0 => ws[1] >= b)
    BY <1>1, <1>2, <1>3, <1>4, <2>2
  <2>4. \A i \in 1..n : i # 1 => ws[i] = IF i <= m THEN a ELSE b
    BY <1>2, <1>3
  <2>5. \A i \in 1..n : ws[i] > 0
    BY <1>1, <2>2, <2>3, <2>4
  <2>6. Must(ts) = {i \in 1..n : i <= m}
    BY <1>1 DEF Must, Described
  <2>7. ASSUME NEW i \in 1..n, i <= m, NEW j \in 1..n, ~(j <= m)
        PROVE  ws[i] >= ws[j]
    <3>1. j # 1 /\ m > 0
      BY <1>1, <2>7
    <3>. QED BY <1>1, <2>2, <2>3, <2>4, <2>7, <3>1
  <2>8. DOMAIN ws = 1..n
    BY <1>3
  <2>. QED BY <1>3, <2>5, <2>6, <2>7, <2>8 DEF Honest
<1>. QED BY <1>3, <1>5

-----------------------------------------------------------------------------
(***************************************************************************)
(* The score of a candidate, whatever the rubric weighs.                   *)
(***************************************************************************)
LEMMA WeightParts ==
    ASSUME NEW ts, NEW ws, IsFiniteSet(DOMAIN ts), \A i \in DOMAIN ts : ws[i] \in Nat,
           NEW tag, NEW hits \in SUBSET (DOMAIN ts)
    PROVE  /\ Weight(ts, ws, tag, hits) \in Nat /\ Weight(ts, ws, tag, DOMAIN ts) \in Nat
           /\ Weight(ts, ws, tag, hits) <= Weight(ts, ws, tag, DOMAIN ts)
<1> DEFINE A == {i \in hits : ts[i] = tag}
           B == {i \in DOMAIN ts : ts[i] = tag}
<1>1. IsFiniteSet(A) /\ IsFiniteSet(B) /\ A \in SUBSET B
  BY FS_Subset
<1>2. (\A i \in A : ws[i] \in Nat) /\ (\A i \in B : ws[i] \in Nat)
  OBVIOUS
<1>3. Weight(ts, ws, tag, hits) = SumOf(ws, A) /\ Weight(ts, ws, tag, DOMAIN ts) = SumOf(ws, B)
  BY DEF Weight, SumOf
<1> HIDE DEF A, B
<1>4. SumOf(ws, A) \in Nat /\ SumOf(ws, B) \in Nat
  BY <1>1, <1>2, SumPositive
<1>5. SumOf(ws, A) <= SumOf(ws, B)
  BY <1>1, <1>2, SumLess
<1>. QED BY <1>3, <1>4, <1>5

LEMMA WeightInt ==
    ASSUME NEW ts, NEW ws, IsFiniteSet(DOMAIN ts), \A i \in DOMAIN ts : ws[i] \in Int,
           NEW tag, NEW hits \in SUBSET (DOMAIN ts)
    PROVE  Weight(ts, ws, tag, hits) \in Int
<1> DEFINE A == {i \in hits : ts[i] = tag}
<1>1. IsFiniteSet(A) /\ Whole(ws, A)
  BY FS_Subset DEF Whole
<1>. QED BY <1>1, SumInt DEF Weight, SumOf

(* What one more hit adds is its own weight, or nothing.                   *)
LEMMA WeightOneMore ==
    ASSUME NEW ts, NEW ws, IsFiniteSet(DOMAIN ts), \A i \in DOMAIN ts : ws[i] \in Int,
           NEW tag, NEW hits \in SUBSET (DOMAIN ts), NEW e \in DOMAIN ts, e \notin hits,
           ws[e] >= 0
    PROVE  Weight(ts, ws, tag, hits) <= Weight(ts, ws, tag, hits \cup {e})
<1> DEFINE A == {i \in hits : ts[i] = tag}
           B == {i \in hits \cup {e} : ts[i] = tag}
<1>1. /\ Weight(ts, ws, tag, hits) = SumOf(ws, A)
      /\ Weight(ts, ws, tag, hits \cup {e}) = SumOf(ws, B)
  BY DEF Weight, SumOf
<1>2. IsFiniteSet(B) /\ IsFiniteSet(A) /\ Whole(ws, B) /\ Whole(ws, A)
  BY FS_Subset DEF Whole
<1>3. SumOf(ws, A) \in Int
  BY <1>2, SumInt
<1>4. CASE ts[e] = tag
  <2>1. e \in B /\ B \ {e} = A
    BY <1>4
  <2> HIDE DEF A, B
  <2>2. SumOf(ws, B) = ws[e] + SumOf(ws, B \ {e})
    BY <1>2, <2>1, SumTake
  <2>. QED BY <1>1, <1>3, <2>1, <2>2
<1>5. CASE ts[e] # tag
  <2>1. A = B
    BY <1>5
  <2>. QED BY <1>1, <1>3, <2>1
<1>. QED BY <1>4, <1>5

Points(mustHit, totalMust, niceHit, totalNice) ==
    (30 * totalMust + 65 * mustHit) * totalNice + 5 * niceHit * totalMust

LEMMA PointsBounds ==
    ASSUME NEW M \in Nat, M > 0, NEW N \in Nat, N > 0,
           NEW h \in Nat, h <= M, NEW g \in Nat, g <= N
    PROVE  LET p == Points(h, M, g, N)
           IN  /\ p \in Int /\ M * N \in Int /\ M * N > 0
               /\ (M * N) * 30 <= p /\ p <= (M * N) * 100
               /\ h = M => (M * N) * 95 <= p
               /\ h = 0 => p <= (M * N) * 35
<1> DEFINE d == M * N
           q == h * N
           r == g * M
<1>1. d \in Int /\ q \in Int /\ r \in Int
  OBVIOUS
<1>2. d > 0
  OBVIOUS
<1>3. 0 <= q /\ q <= d
  OBVIOUS
<1>4. 0 <= r /\ r <= d
  <2>1. g * M <= N * M /\ N * M = M * N /\ 0 <= g * M
    OBVIOUS
  <2>. QED BY <2>1
<1>5. Points(h, M, g, N) = 30 * d + 65 * q + 5 * r
  <2>1. (30 * M + 65 * h) * N = 30 * (M * N) + 65 * (h * N)
    OBVIOUS
  <2>2. 5 * g * M = 5 * (g * M)
    OBVIOUS
  <2>. QED BY <2>1, <2>2 DEF Points
<1>6. (h = M => q = d) /\ (h = 0 => q = 0)
  OBVIOUS
<1> HIDE DEF d, q, r
<1>7. /\ Points(h, M, g, N) \in Int
      /\ d * 30 <= Points(h, M, g, N) /\ Points(h, M, g, N) <= d * 100
      /\ h = M => d * 95 <= Points(h, M, g, N)
      /\ h = 0 => Points(h, M, g, N) <= d * 35
  BY <1>1, <1>2, <1>3, <1>4, <1>5, <1>6
<1>. QED BY <1>1, <1>2, <1>7 DEF d

LEMMA PointsGrow ==
    ASSUME NEW M \in Nat, NEW N \in Nat, NEW h \in Int, NEW h2 \in Int, h <= h2,
           NEW g \in Int, NEW g2 \in Int, g <= g2
    PROVE  Points(h, M, g, N) <= Points(h2, M, g2, N)
<1>1. h * N <= h2 * N /\ g * M <= g2 * M
  OBVIOUS
<1>2. Points(h, M, g, N) = 30 * (M * N) + 65 * (h * N) + 5 * (g * M)
  <2>1. (30 * M + 65 * h) * N = 30 * (M * N) + 65 * (h * N) /\ 5 * g * M = 5 * (g * M)
    OBVIOUS
  <2>. QED BY <2>1 DEF Points
<1>3. Points(h2, M, g2, N) = 30 * (M * N) + 65 * (h2 * N) + 5 * (g2 * M)
  <2>1. (30 * M + 65 * h2) * N = 30 * (M * N) + 65 * (h2 * N) /\ 5 * g2 * M = 5 * (g2 * M)
    OBVIOUS
  <2>. QED BY <2>1 DEF Points
<1>4. M * N \in Int /\ h * N \in Int /\ h2 * N \in Int /\ g * M \in Int /\ g2 * M \in Int
  OBVIOUS
<1>. QED BY <1>1, <1>2, <1>3, <1>4

TotalOf(ts, ws, tag) == OrOne(Weight(ts, ws, tag, DOMAIN ts))

ScorePoints(ts, ws, hits) ==
    Points(Weight(ts, ws, "Must-have", hits), TotalOf(ts, ws, "Must-have"),
           Weight(ts, ws, "Nice-to-have", hits), TotalOf(ts, ws, "Nice-to-have"))

ScoreDen(ts, ws) == TotalOf(ts, ws, "Must-have") * TotalOf(ts, ws, "Nice-to-have")

LEMMA DeriveScoreIs ==
    \A ts, ws, hits : DeriveScore(ts, ws, hits) = Screening(ScorePoints(ts, ws, hits), ScoreDen(ts, ws))
BY Zenon DEF DeriveScore, ScorePoints, ScoreDen, Points, TotalOf

(* The readings of a score are those of one number, however it came about. *)
LEMMA ScreeningReads ==
    ASSUME NEW num \in Int, NEW den \in Int, den # 0
    PROVE  LET r == Screening(num, den)
           IN  /\ r.score \in Int /\ r.score <= 99
               /\ r.compareVerdict = Verdict(r.score)
               /\ r.shortlisted = (r.score >= 80)
<1>1. PICK rounded : rounded = IF den > 0 THEN HalfEven(num, den) ELSE HalfEven(-num, -den)
  OBVIOUS
<1>2. rounded \in Int
  <2>1. CASE den > 0
    BY <1>1, <2>1, HalfEvenNearest DEF Nearest
  <2>2. CASE ~(den > 0)
    <3>1. -num \in Int /\ -den \in Int /\ -den > 0
      BY <2>2
    <3>2. HalfEven(-num, -den) \in Int
      BY <3>1, HalfEvenNearest DEF Nearest
    <3>. QED BY <1>1, <2>2, <3>2
  <2>. QED BY <2>1, <2>2
<1>3. PICK score : score = IF rounded > 99 THEN 99 ELSE rounded
  OBVIOUS
<1>4. Screening(num, den) = [score |-> score, compareVerdict |-> Verdict(score), shortlisted |-> score >= 80]
  BY <1>1, <1>3, Zenon DEF Screening
<1>5. score \in Int /\ score <= 99
  BY <1>2, <1>3
<1>. QED BY <1>4, <1>5

LEMMA ScreeningScore ==
    ASSUME NEW num \in Int, NEW den \in Int, den > 0
    PROVE  LET r == Screening(num, den)
           IN  /\ den * 30 <= num => r.score >= 30
               /\ den * 95 <= num => r.score >= 95
               /\ num <= den * 35 => r.score <= 35
<1>1. PICK rounded : rounded = HalfEven(num, den)
  OBVIOUS
<1>2. Nearest(rounded, num, den)
  BY <1>1, HalfEvenNearest
<1>3. rounded \in Int
  BY <1>2 DEF Nearest
<1>4. den * 30 <= num => 30 <= rounded
  BY <1>2, NearestBounds
<1>5. den * 95 <= num => 95 <= rounded
  BY <1>2, NearestBounds
<1>6. num <= den * 35 => rounded <= 35
  BY <1>2, NearestBounds
<1>7. Screening(num, den).score = IF rounded > 99 THEN 99 ELSE rounded
  BY <1>1 DEF Screening
<1>. QED BY <1>3, <1>4, <1>5, <1>6, <1>7

LEMMA ScreeningGrows ==
    ASSUME NEW a \in Int, NEW b \in Int, a <= b, NEW den \in Int, den > 0
    PROVE  Screening(a, den).score <= Screening(b, den).score
<1>1. PICK r, s : r = HalfEven(a, den) /\ s = HalfEven(b, den)
  OBVIOUS
<1>2. r \in Int /\ s \in Int
  BY <1>1, HalfEvenNearest DEF Nearest
<1>3. r <= s
  BY <1>1, HalfEvenGrows
<1>4. /\ Screening(a, den).score = IF r > 99 THEN 99 ELSE r
      /\ Screening(b, den).score = IF s > 99 THEN 99 ELSE s
  BY <1>1 DEF Screening
<1>. QED BY <1>2, <1>3, <1>4

(* Weights that are whole numbers, for the criteria of a finite rubric.    *)
Weighed(ts, ws) == IsFiniteSet(DOMAIN ts) /\ \A i \in DOMAIN ts : ws[i] \in Int

LEMMA ScoreReads ==
    ASSUME NEW ts, NEW ws, Weighed(ts, ws), NEW hits \in SUBSET (DOMAIN ts)
    PROVE  LET r == DeriveScore(ts, ws, hits)
           IN  /\ r.score \in Int /\ r.score <= 99
               /\ r.compareVerdict = Verdict(r.score)
               /\ r.shortlisted = (r.score >= 80)
<1>1. PICK M, N, h, g :
        /\ M = TotalOf(ts, ws, "Must-have") /\ N = TotalOf(ts, ws, "Nice-to-have")
        /\ h = Weight(ts, ws, "Must-have", hits) /\ g = Weight(ts, ws, "Nice-to-have", hits)
  OBVIOUS
<1>2. \A tag : Weight(ts, ws, tag, hits) \in Int /\ Weight(ts, ws, tag, DOMAIN ts) \in Int
  <2>1. DOMAIN ts \in SUBSET (DOMAIN ts)
    OBVIOUS
  <2>. QED BY <2>1, WeightInt DEF Weighed
<1>3. M \in Int /\ M # 0 /\ N \in Int /\ N # 0 /\ h \in Int /\ g \in Int
  BY <1>1, <1>2 DEF TotalOf, OrOne
<1>4. PICK p, d : p = Points(h, M, g, N) /\ d = M * N
  OBVIOUS
<1>5. p \in Int /\ d \in Int /\ d # 0
  BY <1>3, <1>4 DEF Points
<1>6. DeriveScore(ts, ws, hits) = Screening(p, d)
  BY <1>1, <1>4, DeriveScoreIs DEF ScorePoints, ScoreDen
<1>. QED BY <1>5, <1>6, ScreeningReads

(* The evidence is part of what can be evidenced, of both tags.            *)
PartsOf(ts, ws, hits) ==
    \A tag \in {"Must-have", "Nice-to-have"} :
        /\ TotalOf(ts, ws, tag) \in Nat /\ TotalOf(ts, ws, tag) > 0
        /\ Weight(ts, ws, tag, hits) \in Nat
        /\ Weight(ts, ws, tag, hits) <= TotalOf(ts, ws, tag)

LEMMA PartsOfNat ==
    ASSUME NEW ts, NEW ws, Weighed(ts, ws), \A i \in DOMAIN ts : ws[i] >= 0,
           NEW hits \in SUBSET (DOMAIN ts)
    PROVE  PartsOf(ts, ws, hits)
<1>1. ASSUME NEW tag
      PROVE  /\ Weight(ts, ws, tag, hits) \in Nat /\ Weight(ts, ws, tag, DOMAIN ts) \in Nat
             /\ Weight(ts, ws, tag, hits) <= Weight(ts, ws, tag, DOMAIN ts)
  <2>1. \A i \in DOMAIN ts : ws[i] \in Nat
    BY DEF Weighed
  <2>. QED BY <2>1, WeightParts DEF Weighed
<1>. QED BY <1>1 DEF PartsOf, TotalOf, OrOne

(* Then the score is between 30 and 99, and the must-haves decide it.      *)
LEMMA ScoreBounds ==
    ASSUME NEW ts, NEW ws, NEW hits \in SUBSET (DOMAIN ts), PartsOf(ts, ws, hits)
    PROVE  LET r == DeriveScore(ts, ws, hits)
           IN  /\ r.score >= 30
               /\ Weight(ts, ws, "Must-have", hits) = TotalOf(ts, ws, "Must-have") => r.score >= 95
               /\ Weight(ts, ws, "Must-have", hits) = 0 => r.score <= 35
<1>1. PICK M, N, h, g :
        /\ M = TotalOf(ts, ws, "Must-have") /\ N = TotalOf(ts, ws, "Nice-to-have")
        /\ h = Weight(ts, ws, "Must-have", hits) /\ g = Weight(ts, ws, "Nice-to-have", hits)
  OBVIOUS
<1>2. /\ M \in Nat /\ M > 0 /\ h \in Nat /\ h <= M
      /\ N \in Nat /\ N > 0 /\ g \in Nat /\ g <= N
  BY <1>1 DEF PartsOf
<1>3. PICK p, d : p = Points(h, M, g, N) /\ d = M * N
  OBVIOUS
<1>4. /\ p \in Int /\ d \in Int /\ d > 0
      /\ d * 30 <= p
      /\ h = M => d * 95 <= p
      /\ h = 0 => p <= d * 35
  BY <1>2, <1>3, PointsBounds
<1>5. DeriveScore(ts, ws, hits) = Screening(p, d)
  BY <1>1, <1>3, DeriveScoreIs DEF ScorePoints, ScoreDen
<1>6. PICK r : r = Screening(p, d)
  OBVIOUS
<1>7. /\ d * 30 <= p => r.score >= 30
      /\ d * 95 <= p => r.score >= 95
      /\ p <= d * 35 => r.score <= 35
  BY <1>4, <1>6, ScreeningScore
<1>. QED BY <1>1, <1>4, <1>5, <1>6, <1>7

(* One more hit that weighs no less than nothing lowers no score.          *)
LEMMA ScoreGrows ==
    ASSUME NEW ts, NEW ws, Weighed(ts, ws), NEW hits \in SUBSET (DOMAIN ts),
           NEW e \in DOMAIN ts, e \notin hits, ws[e] >= 0,
           Weight(ts, ws, "Must-have", DOMAIN ts) >= 0,
           Weight(ts, ws, "Nice-to-have", DOMAIN ts) >= 0
    PROVE  DeriveScore(ts, ws, hits).score <= DeriveScore(ts, ws, hits \cup {e}).score
<1>1. PICK more : more = hits \cup {e}
  OBVIOUS
<1>2. PICK M, N, h, g, h2, g2 :
        /\ M = TotalOf(ts, ws, "Must-have") /\ N = TotalOf(ts, ws, "Nice-to-have")
        /\ h = Weight(ts, ws, "Must-have", hits) /\ g = Weight(ts, ws, "Nice-to-have", hits)
        /\ h2 = Weight(ts, ws, "Must-have", more) /\ g2 = Weight(ts, ws, "Nice-to-have", more)
  OBVIOUS
<1>3. \A tag : /\ Weight(ts, ws, tag, hits) \in Int /\ Weight(ts, ws, tag, more) \in Int
                /\ Weight(ts, ws, tag, DOMAIN ts) \in Int
                /\ Weight(ts, ws, tag, hits) <= Weight(ts, ws, tag, more)
  <2>1. DOMAIN ts \in SUBSET (DOMAIN ts) /\ more \in SUBSET (DOMAIN ts)
    BY <1>1
  <2>2. \A tag : /\ Weight(ts, ws, tag, hits) \in Int /\ Weight(ts, ws, tag, more) \in Int
                  /\ Weight(ts, ws, tag, DOMAIN ts) \in Int
    BY <2>1, WeightInt DEF Weighed
  <2>3. \A tag : Weight(ts, ws, tag, hits) <= Weight(ts, ws, tag, more)
    BY <1>1, WeightOneMore DEF Weighed
  <2>. QED BY <2>2, <2>3
<1>4. M \in Nat /\ M > 0 /\ N \in Nat /\ N > 0
  BY <1>2, <1>3 DEF TotalOf, OrOne
<1>5. h \in Int /\ h2 \in Int /\ g \in Int /\ g2 \in Int /\ h <= h2 /\ g <= g2
  BY <1>2, <1>3
<1>6. PICK p, p2, d : p = Points(h, M, g, N) /\ p2 = Points(h2, M, g2, N) /\ d = M * N
  OBVIOUS
<1>7. p \in Int /\ p2 \in Int /\ d \in Int /\ d > 0
  <2>1. p \in Int /\ p2 \in Int /\ d \in Int
    BY <1>4, <1>5, <1>6 DEF Points
  <2>2. d > 0
    BY <1>4, <1>6
  <2>. QED BY <2>1, <2>2
<1>8. p <= p2
  BY <1>4, <1>5, <1>6, PointsGrow
<1>9. DeriveScore(ts, ws, hits) = Screening(p, d) /\ DeriveScore(ts, ws, more) = Screening(p2, d)
  BY <1>2, <1>6, DeriveScoreIs DEF ScorePoints, ScoreDen
<1>. QED BY <1>1, <1>7, <1>8, <1>9, ScreeningGrows

-----------------------------------------------------------------------------
(***************************************************************************)
(* The inductive invariant: a rubric is the one of its description, and    *)
(* the screening the one of the evidence.                                  *)
(***************************************************************************)
RubricOf(ts, m, k) ==
    /\ Described(ts, m, k) /\ m + k <= MaxCriteria
    /\ rubric = Weights(ts) /\ port = PortWeights(ts)

ScoringInv ==
    /\ \/ tags = <<>> /\ rubric = <<>> /\ port = <<>>
       \/ \E m, k \in Nat : RubricOf(tags, m, k)
    /\ evidenced \subseteq DOMAIN tags
    /\ result = DeriveScore(tags, rubric, evidenced)

Bucketed(must, nice, disqual) ==
    [i \in 1..(must + nice + disqual) |->
        IF i <= must THEN Tags[1] ELSE IF i <= must + nice THEN Tags[2] ELSE Tags[3]]

LEMMA GeneratedDescribed ==
    ASSUME NEW must \in Nat, NEW nice \in Nat, NEW disqual \in Nat, must + nice + disqual > 0,
           NEW ts, ts = Bucketed(must, nice, disqual)
    PROVE  Described(ts, must, nice + disqual)
<1>1. must + nice + disqual = must + (nice + disqual) /\ nice + disqual \in Nat
  OBVIOUS
<1>2. Tags[1] = "Must-have" /\ Tags[2] # "Must-have" /\ Tags[3] # "Must-have"
  BY DEF Tags
<1>3. /\ ts = [i \in 1..(must + (nice + disqual)) |-> ts[i]]
      /\ \A i \in 1..(must + (nice + disqual)) : ts[i] = "Must-have" <=> i <= must
  BY <1>1, <1>2 DEF Bucketed
<1>. QED BY <1>1, <1>3 DEF Described

LEMMA ScoringInvInit == ScoringInit => ScoringInv
BY DEF ScoringInit, ScoringInv

LEMMA ScoringInvNext == ScoringInv /\ [ScoringNext]_scoringVars => ScoringInv'
<1> SUFFICES ASSUME ScoringInv, [ScoringNext]_scoringVars PROVE ScoringInv'
  OBVIOUS
<1>1. ASSUME NEW must \in 0..MaxCriteria, NEW nice \in 0..MaxCriteria, NEW disqual \in 0..MaxCriteria,
             must + nice + disqual <= MaxCriteria, GenerateRubric(must, nice, disqual)
      PROVE  ScoringInv'
  <2>1. MaxCriteria \in Nat
    BY ScoringAssumption
  <2>2. PICK ts : ts = tags'
    OBVIOUS
  <2>3. must + nice + disqual > 0 /\ ts = Bucketed(must, nice, disqual)
    BY <1>1, <2>2 DEF GenerateRubric, Bucketed
  <2>4. Described(ts, must, nice + disqual)
    <3>1. must \in Nat /\ nice \in Nat /\ disqual \in Nat
      BY <2>1
    <3>. QED BY <2>3, <3>1, GeneratedDescribed
  <2>5. /\ rubric' = Weights(ts) /\ port' = PortWeights(ts)
        /\ evidenced' = {} /\ result' = DeriveScore(ts, rubric', {})
    BY <1>1, <2>2 DEF GenerateRubric
  <2>6. RubricOf(tags, must, nice + disqual)' /\ nice + disqual \in Nat /\ must \in Nat
    BY <1>1, <2>1, <2>2, <2>4, <2>5 DEF RubricOf
  <2>. QED BY <2>2, <2>5, <2>6 DEF ScoringInv
<1>2. ASSUME NEW i \in DOMAIN tags, ScreenWithOneMore(i)
      PROVE  ScoringInv'
  BY <1>2 DEF ScreenWithOneMore, ScoringInv, RubricOf
<1>3. CASE UNCHANGED scoringVars
  BY <1>3 DEF scoringVars, ScoringInv, RubricOf
<1>. QED BY <1>1, <1>2, <1>3 DEF ScoringNext

(* The rubric is always the one of the skills that were found, and the     *)
(* screening the one of the evidence.                                      *)
THEOREM ScoringCorrect == ScoringSpec => []ScoringInv
<1>. QED BY ScoringInvInit, ScoringInvNext, PTL DEF ScoringSpec

LEMMA RubricWhole ==
    ASSUME ScoringInv
    PROVE  /\ \/ tags = <<>> /\ rubric = <<>> /\ port = <<>>
              \/ \E n \in Nat : /\ n > 0 /\ n <= MaxCriteria /\ DOMAIN tags = 1..n
                                /\ \A ws \in {rubric, port} :
                                      /\ ws \in [1..n -> Int] /\ Total(ws) = 100
                                      /\ n <= 13 => Honest(ws, tags)
           /\ IsFiniteSet(DOMAIN tags)
<1>1. CASE tags = <<>> /\ rubric = <<>> /\ port = <<>>
  <2>1. DOMAIN tags = {}
    BY <1>1
  <2>. QED BY <1>1, <2>1, FS_EmptySet
<1>2. ASSUME NEW m \in Nat, NEW k \in Nat, RubricOf(tags, m, k)
      PROVE  /\ \E n \in Nat : /\ n > 0 /\ n <= MaxCriteria /\ DOMAIN tags = 1..n
                               /\ \A ws \in {rubric, port} :
                                      /\ ws \in [1..n -> Int] /\ Total(ws) = 100
                                      /\ n <= 13 => Honest(ws, tags)
             /\ IsFiniteSet(DOMAIN tags)
  <2>1. Described(tags, m, k) /\ m + k <= MaxCriteria /\ m + k \in Nat
        /\ rubric = Weights(tags) /\ port = PortWeights(tags)
    BY <1>2 DEF RubricOf
  <2>2. m + k > 0 /\ DOMAIN tags = 1..(m + k)
    BY <2>1 DEF Described
  <2>3. rubric \in [1..(m + k) -> Int] /\ Total(rubric) = 100 /\ (m + k <= 13 => Honest(rubric, tags))
    <3>1. PICK a, b \in Int : /\ Nearest(a, 300, 3 * m + k) /\ Nearest(b, 100, 3 * m + k)
                              /\ rubric = Balanced(Shares(tags, a, b))
      BY <2>1, WeightsAreShares
    <3>. QED BY <2>1, <3>1, BalancedShares
  <2>4. port \in [1..(m + k) -> Int] /\ Total(port) = 100 /\ (m + k <= 13 => Honest(port, tags))
    <3>1. PICK a, b \in Int : /\ Nearest(a, 300, 3 * m + k) /\ Nearest(b, 100, 3 * m + k)
                              /\ port = Balanced(Shares(tags, a, b))
      BY <2>1, PortWeightsAreShares
    <3>. QED BY <2>1, <3>1, BalancedShares
  <2>5. IsFiniteSet(DOMAIN tags)
    <3>1. IsFiniteSet(1..(m + k))
      BY <2>1, FS_Interval
    <3>. QED BY <2>2, <3>1
  <2>. QED BY <2>1, <2>2, <2>3, <2>4, <2>5
<1>. QED BY <1>1, <1>2 DEF ScoringInv

(* The weights of every rubric add up to 100, however many criteria it has.*)
THEOREM WeightsAlwaysTotal ==
    ScoringSpec => [](\A ws \in {rubric, port} : ws # <<>> => Total(ws) = 100)
<1>1. ScoringInv => \A ws \in {rubric, port} : ws # <<>> => Total(ws) = 100
  BY RubricWhole
<1>. QED BY <1>1, ScoringCorrect, PTL

(* With up to 13 criteria every weight is positive and none is above a     *)
(* must-have's; 13 must-haves and one other already break that.            *)
THEOREM WeightsHonestUpTo13 == ScoringSpec => []HonestUpTo13
<1>1. ScoringInv => HonestUpTo13
  <2> SUFFICES ASSUME ScoringInv, Len(tags) <= 13 PROVE WeightsHonest
    BY DEF HonestUpTo13
  <2>1. CASE rubric = <<>> /\ port = <<>>
    BY <2>1 DEF WeightsHonest
  <2>2. CASE \E n \in Nat : /\ n > 0 /\ n <= MaxCriteria /\ DOMAIN tags = 1..n
                            /\ \A ws \in {rubric, port} :
                                  /\ ws \in [1..n -> Int] /\ Total(ws) = 100
                                  /\ n <= 13 => Honest(ws, tags)
    <3>1. PICK n \in Nat : /\ DOMAIN tags = 1..n
                           /\ \A ws \in {rubric, port} : n <= 13 => Honest(ws, tags)
      BY <2>2
    <3>2. Len(tags) = n
      BY <3>1
    <3>. QED BY <3>1, <3>2 DEF Honest, WeightsHonest
  <2>. QED BY <2>1, <2>2, RubricWhole
<1>. QED BY <1>1, ScoringCorrect, PTL

(* But for the first criterion, the weight is the rounded share.           *)
LEMMA SharesKept ==
    ASSUME NEW ts, NEW m, NEW k, Described(ts, m, k), NEW i \in DOMAIN ts \ {1}
    PROVE  /\ Weights(ts)[i] = HalfEven(100 * Bucket(ts[i]), Raw(ts))
           /\ PortWeights(ts)[i] = HalfUp(100 * Bucket(ts[i]), Raw(ts))
<1> DEFINE even == [j \in DOMAIN ts |-> HalfEven(100 * Bucket(ts[j]), Raw(ts))]
           up == [j \in DOMAIN ts |-> HalfUp(100 * Bucket(ts[j]), Raw(ts))]
<1>1. m + k \in Nat /\ m + k > 0 /\ DOMAIN ts = 1..(m + k)
  BY DEF Described
<1>2. Raw(ts) \in Int /\ Raw(ts) > 0
  BY RawIs
<1>3. ASSUME NEW j \in DOMAIN ts
      PROVE  even[j] \in Int /\ up[j] \in Int
  <2>1. 100 * Bucket(ts[j]) \in Int
    BY DEF Bucket
  <2>. QED BY <1>2, <1>3, <2>1, HalfEvenNearest, HalfUpNearest DEF Nearest
<1>4. even \in [1..(m + k) -> Int] /\ up \in [1..(m + k) -> Int]
  BY <1>1, <1>3
<1>5. Weights(ts) = Balanced(even) /\ PortWeights(ts) = Balanced(up)
  BY DEF Weights, PortWeights
<1>6. even[i] = HalfEven(100 * Bucket(ts[i]), Raw(ts)) /\ up[i] = HalfUp(100 * Bucket(ts[i]), Raw(ts))
  OBVIOUS
<1>7. i \in 1..(m + k) /\ i # 1
  BY <1>1
<1> HIDE DEF even, up
<1>8. ASSUME NEW shares \in [1..(m + k) -> Int]
      PROVE  Balanced(shares)[i] = shares[i]
  <2>1. PICK n \in Nat : n = m + k /\ n > 0
    BY <1>1
  <2>2. shares \in [1..n -> Int] /\ i \in 1..n
    BY <1>7, <2>1
  <2>. QED BY <1>7, <2>1, <2>2, BalancedSum
<1>9. Balanced(even)[i] = even[i] /\ Balanced(up)[i] = up[i]
  BY <1>4, <1>8
<1>. QED BY <1>5, <1>6, <1>9

(* A rubric of every length is the same on the server and in the browser   *)
(* if no share is a tie; if one is, every weight but the first, which      *)
(* takes up the drift, is the same or, being a tie itself, one more in the *)
(* browser.                                                                *)
THEOREM RubricsAlwaysAgree == ScoringSpec => []RubricsAgree
<1>1. ScoringInv => RubricsAgree
  <2> SUFFICES ASSUME ScoringInv PROVE RubricsAgree
    OBVIOUS
  <2>1. CASE rubric = <<>> /\ port = <<>>
    BY <2>1 DEF RubricsAgree
  <2>2. CASE \E m, k \in Nat : RubricOf(tags, m, k)
    <3>1. PICK m, k \in Nat : RubricOf(tags, m, k)
      BY <2>2
    <3>2. Described(tags, m, k) /\ rubric = Weights(tags) /\ port = PortWeights(tags)
      BY <3>1 DEF RubricOf
    <3>3. CASE \A i \in DOMAIN tags : ~TiedShare(i)
      <4>1. [i \in DOMAIN tags |-> HalfEven(100 * Bucket(tags[i]), Raw(tags))]
              = [i \in DOMAIN tags |-> HalfUp(100 * Bucket(tags[i]), Raw(tags))]
        BY <3>3, Zenon DEF HalfEven, TiedShare
      <4>. QED BY <3>2, <4>1 DEF Weights, PortWeights, RubricsAgree
    <3>4. CASE \E i \in DOMAIN tags : TiedShare(i)
      <4>1. ASSUME NEW i \in DOMAIN tags \ {1}
            PROVE  port[i] = rubric[i] \/ (TiedShare(i) /\ port[i] = rubric[i] + 1)
        <5> DEFINE num == 100 * Bucket(tags[i])
        <5>1. num \in Int /\ Raw(tags) \in Int /\ Raw(tags) > 0
          BY <3>2, RawIs DEF Bucket
        <5>2. rubric[i] = HalfEven(num, Raw(tags)) /\ port[i] = HalfUp(num, Raw(tags))
          BY <3>2, <4>1, SharesKept
        <5>. QED BY <5>1, <5>2, RoundingsDiffer DEF TiedShare
      <4>. QED BY <3>4, <4>1 DEF RubricsAgree
    <3>. QED BY <3>3, <3>4
  <2>. QED BY <2>1, <2>2 DEF ScoringInv
<1>. QED BY <1>1, ScoringCorrect, PTL

LEMMA RubricWeighed ==
    ASSUME ScoringInv
    PROVE  Weighed(tags, rubric) /\ DOMAIN rubric = DOMAIN tags
<1>1. IsFiniteSet(DOMAIN tags)
  BY RubricWhole
<1>2. CASE tags = <<>> /\ rubric = <<>>
  <2>1. DOMAIN tags = {}
    BY <1>2
  <2>. QED BY <1>1, <1>2, <2>1 DEF Weighed
<1>3. CASE tags # <<>>
  <2>1. PICK n \in Nat : DOMAIN tags = 1..n /\ rubric \in [1..n -> Int]
    BY <1>3, RubricWhole
  <2>2. DOMAIN rubric = 1..n /\ \A i \in 1..n : rubric[i] \in Int
    BY <2>1
  <2>. QED BY <1>1, <2>1, <2>2 DEF Weighed
<1>. QED BY <1>2, <1>3 DEF ScoringInv, RubricOf, Described

(* Where there is a must-have, one of them takes the drift: the others     *)
(* keep their share.                                                       *)
LEMMA OthersKeepShare ==
    ASSUME ScoringInv, Must(tags) # {}
    PROVE  \A i \in DOMAIN tags : i \notin Must(tags) => rubric[i] \in Nat
<1>1. PICK m, k \in Nat : RubricOf(tags, m, k)
  <2>1. tags # <<>>
    <3>1. DOMAIN <<>> = {}
      OBVIOUS
    <3>. QED BY <3>1 DEF Must
  <2>. QED BY <2>1 DEF ScoringInv
<1>2. Described(tags, m, k) /\ rubric = Weights(tags)
  BY <1>1 DEF RubricOf
<1>3. PICK a, b \in Int : /\ Nearest(b, 100, 3 * m + k)
                          /\ rubric = Balanced(Shares(tags, a, b))
  BY <1>2, WeightsAreShares
<1>4. m + k > 0 /\ m + k \in Nat /\ DOMAIN tags = 1..(m + k)
  BY <1>2 DEF Described
<1>5. b >= 0
  <2> DEFINE d == 3 * m + k
  <2>1. d \in Int /\ d > 0
    BY <1>4
  <2>2. Nearest(b, 100, d)
    BY <1>3
  <2> HIDE DEF d
  <2>3. d * 0 <= 100 /\ 0 \in Int /\ 100 \in Int
    BY <2>1
  <2>. QED BY <2>1, <2>2, <2>3, NearestBounds
<1>6. PICK shares : shares = Shares(tags, a, b)
  OBVIOUS
<1>7. shares \in [1..(m + k) -> Int]
  BY <1>4, <1>6 DEF Shares
<1>8. \A i \in 1..(m + k) : i # 1 => rubric[i] = shares[i]
  BY <1>3, <1>4, <1>6, <1>7, BalancedSum
<1>9. ASSUME NEW i \in DOMAIN tags, i \notin Must(tags)
      PROVE  rubric[i] \in Nat
  <2>1. tags[i] # "Must-have"
    BY <1>9 DEF Must
  <2>2. i # 1
    <3>1. PICK e \in DOMAIN tags : tags[e] = "Must-have"
      BY DEF Must
    <3>2. e <= m /\ ~(i <= m) /\ e \in 1..(m + k)
      BY <1>2, <1>4, <1>9, <2>1, <3>1 DEF Described
    <3>. QED BY <3>2
  <2>3. shares[i] = b
    BY <1>6, <2>1 DEF Shares
  <2>. QED BY <1>4, <1>5, <1>8, <2>2, <2>3
<1>. QED BY <1>9

(* So all of the must-haves are all there is to gain of them, and none of  *)
(* them nothing, next to a part of the nice-to-haves.                      *)
LEMMA MustHits ==
    ASSUME ScoringInv, AllWeigh("Must-have") > 0
    PROVE  LET M == TotalOf(tags, rubric, "Must-have")
               h == Weight(tags, rubric, "Must-have", evidenced)
           IN  /\ Must(tags) \subseteq evidenced => h = M /\ PartsOf(tags, rubric, evidenced)
               /\ Must(tags) \cap evidenced = {} => h = 0 /\ PartsOf(tags, rubric, evidenced)
<1>1. Weighed(tags, rubric) /\ evidenced \in SUBSET (DOMAIN tags)
  BY RubricWeighed DEF ScoringInv
<1> DEFINE M == TotalOf(tags, rubric, "Must-have")
           h == Weight(tags, rubric, "Must-have", evidenced)
           nice == {i \in DOMAIN tags : tags[i] = "Nice-to-have"}
           g == Weight(tags, rubric, "Nice-to-have", evidenced)
<1>2. SumOf(rubric, Must(tags)) = AllWeigh("Must-have")
  BY DEF AllWeigh, Weight, SumOf, Must
<1>3. AllWeigh("Must-have") \in Int /\ M = AllWeigh("Must-have")
  <2>1. AllWeigh("Must-have") \in Int
    BY <1>1, WeightInt DEF Weighed, AllWeigh
  <2>2. M = OrOne(AllWeigh("Must-have"))
    BY DEF TotalOf, AllWeigh
  <2>. QED BY <2>1, <2>2 DEF OrOne
<1>4. Must(tags) # {}
  BY <1>2, SumNone
<1>5. /\ TotalOf(tags, rubric, "Nice-to-have") \in Nat /\ TotalOf(tags, rubric, "Nice-to-have") > 0
      /\ g \in Nat /\ g <= TotalOf(tags, rubric, "Nice-to-have")
  <2> DEFINE some == {i \in evidenced : tags[i] = "Nice-to-have"}
  <2>1. IsFiniteSet(nice) /\ some \in SUBSET nice
    BY <1>1, FS_Subset DEF Weighed
  <2>2. \A i \in nice : rubric[i] \in Nat
    BY <1>4, OthersKeepShare DEF Must
  <2>3. g = SumOf(rubric, some) /\ Weight(tags, rubric, "Nice-to-have", DOMAIN tags) = SumOf(rubric, nice)
    BY DEF Weight, SumOf
  <2> HIDE DEF some, nice, g
  <2>4. IsFiniteSet(some) /\ \A i \in some : rubric[i] \in Nat
    BY <2>1, <2>2, FS_Subset
  <2>5. SumOf(rubric, some) \in Nat /\ SumOf(rubric, nice) \in Nat
    BY <2>1, <2>2, <2>4, SumPositive
  <2>6. SumOf(rubric, some) <= SumOf(rubric, nice)
    BY <2>1, <2>2, SumLess
  <2>. QED BY <2>3, <2>5, <2>6 DEF TotalOf, OrOne
<1> HIDE DEF M, g
<1>6. ASSUME Must(tags) \subseteq evidenced PROVE h = M
  <2>1. {i \in evidenced : tags[i] = "Must-have"} = Must(tags)
    BY <1>1, <1>6 DEF Must
  <2>2. h = SumOf(rubric, Must(tags))
    BY <2>1 DEF Weight, SumOf
  <2>. QED BY <1>2, <1>3, <2>2
<1>7. ASSUME Must(tags) \cap evidenced = {} PROVE h = 0
  <2>1. {i \in evidenced : tags[i] = "Must-have"} = {}
    BY <1>1, <1>7 DEF Must
  <2>. QED BY <2>1, SumNone DEF Weight, SumOf
<1>8. ASSUME h = M \/ h = 0 PROVE PartsOf(tags, rubric, evidenced)
  <2> HIDE DEF h
  <2>1. M \in Nat /\ M > 0 /\ h \in Nat /\ h <= M
    BY <1>3, <1>8
  <2>. QED BY <1>5, <2>1 DEF PartsOf, M, h, g
<1>. QED BY <1>6, <1>7, <1>8 DEF M

LEMMA VerdictsFit ==
    ASSUME NEW score \in Int
    PROVE  /\ score >= 80 <=> ScoreBand(score) = "strong"
           /\ Verdict(score) = "Advance" <=> score >= 80
           /\ Verdict(score) = "Pass" <=> score < 55
           /\ Verdict(score) = "Pass" <=> ScoreBand(score) = "weak"
<1>1. score >= 80 \/ score \in 55..79 \/ score < 55
  OBVIOUS
<1>2. CASE score >= 80
  BY <1>2 DEF Verdict, ScoreBand
<1>3. CASE score \in 55..79
  BY <1>3 DEF Verdict, ScoreBand
<1>4. CASE score < 55
  BY <1>4 DEF Verdict, ScoreBand
<1>. QED BY <1>1, <1>2, <1>3, <1>4

(* Under every rubric, of whatever length, the readings of the score       *)
(* agree, it is in its range if no weight is negative, and the must-haves  *)
(* decide if together they weigh anything.                                 *)
THEOREM VerdictsAlwaysAgree == ScoringSpec => []VerdictsAgree
<1>1. ScoringInv => VerdictsAgree
  <2> SUFFICES ASSUME ScoringInv PROVE VerdictsAgree
    OBVIOUS
  <2>1. /\ Weighed(tags, rubric) /\ DOMAIN rubric = DOMAIN tags
        /\ evidenced \in SUBSET (DOMAIN tags)
        /\ result = DeriveScore(tags, rubric, evidenced)
    BY RubricWeighed DEF ScoringInv
  <2>2. /\ result.score \in Int /\ result.score <= 99
        /\ result.compareVerdict = Verdict(result.score)
        /\ result.shortlisted = (result.score >= 80)
    BY <2>1, ScoreReads
  <2>3. /\ result.score >= 80 <=> ScoreBand(result.score) = "strong"
        /\ Verdict(result.score) = "Advance" <=> result.score >= 80
        /\ Verdict(result.score) = "Pass" <=> result.score < 55
        /\ Verdict(result.score) = "Pass" <=> ScoreBand(result.score) = "weak"
    BY <2>2, VerdictsFit
  <2>4. ASSUME \A i \in DOMAIN rubric : rubric[i] >= 0
        PROVE  result.score \in 30..99
    <3>1. PartsOf(tags, rubric, evidenced)
      BY <2>1, <2>4, PartsOfNat
    <3>2. result.score >= 30
      BY <2>1, <3>1, ScoreBounds
    <3>. QED BY <2>2, <3>2
  <2>5. ASSUME AllWeigh("Must-have") > 0
        PROVE  /\ Must(tags) \subseteq evidenced => result.compareVerdict = "Advance"
               /\ Must(tags) \cap evidenced = {} => result.compareVerdict = "Pass"
    <3>1. ASSUME Must(tags) \subseteq evidenced
          PROVE  result.compareVerdict = "Advance"
      <4>1. /\ PartsOf(tags, rubric, evidenced)
            /\ Weight(tags, rubric, "Must-have", evidenced) = TotalOf(tags, rubric, "Must-have")
        BY <2>5, <3>1, MustHits
      <4>2. result.score >= 95
        BY <2>1, <4>1, ScoreBounds
      <4>. QED BY <2>2, <2>3, <4>2
    <3>2. ASSUME Must(tags) \cap evidenced = {}
          PROVE  result.compareVerdict = "Pass"
      <4>1. /\ PartsOf(tags, rubric, evidenced)
            /\ Weight(tags, rubric, "Must-have", evidenced) = 0
        BY <2>5, <3>2, MustHits
      <4>2. result.score <= 35
        BY <2>1, <4>1, ScoreBounds
      <4>. QED BY <2>2, <2>3, <4>2
    <3>. QED BY <3>1, <3>2
  <2>. QED BY <2>2, <2>3, <2>4, <2>5 DEF VerdictsAgree
<1>. QED BY <1>1, ScoringCorrect, PTL

SkillCounts ==
    /\ tags' = tags
    /\ AllWeigh("Must-have") >= 0 /\ AllWeigh("Nice-to-have") >= 0
    /\ \A i \in evidenced' \ evidenced : rubric[i] >= 0

LEMMA OneMoreStep ==
    ASSUME ScoringInv, [ScoringNext]_scoringVars, SkillCounts
    PROVE  result'.score >= result.score
<1>1. /\ Weighed(tags, rubric) /\ evidenced \in SUBSET (DOMAIN tags)
      /\ result = DeriveScore(tags, rubric, evidenced)
  BY RubricWeighed DEF ScoringInv
<1>2. result.score \in Int
  BY <1>1, ScoreReads
<1>3. ASSUME NEW i \in DOMAIN tags, ScreenWithOneMore(i)
      PROVE  result'.score >= result.score
  <2>1. /\ i \notin evidenced /\ rubric[i] >= 0
        /\ result' = DeriveScore(tags, rubric, evidenced \cup {i})
    BY <1>3 DEF ScreenWithOneMore, SkillCounts
  <2>2. /\ Weight(tags, rubric, "Must-have", DOMAIN tags) >= 0
        /\ Weight(tags, rubric, "Nice-to-have", DOMAIN tags) >= 0
    BY DEF SkillCounts, AllWeigh
  <2>3. DeriveScore(tags, rubric, evidenced).score <= DeriveScore(tags, rubric, evidenced \cup {i}).score
    BY <1>1, <2>1, <2>2, ScoreGrows
  <2>4. DeriveScore(tags, rubric, evidenced \cup {i}).score \in Int
    BY <1>1, ScoreReads
  <2>. QED BY <1>1, <1>2, <2>1, <2>3, <2>4
<1>4. ASSUME NEW must \in 0..MaxCriteria, NEW nice \in 0..MaxCriteria, NEW disqual \in 0..MaxCriteria,
             GenerateRubric(must, nice, disqual)
      PROVE  FALSE
  <2>1. tags = <<>> /\ must + nice + disqual > 0 /\ DOMAIN tags' = 1..(must + nice + disqual)
    BY <1>4 DEF GenerateRubric
  <2>2. must \in Int /\ nice \in Int /\ disqual \in Int
    BY ScoringAssumption
  <2>3. 1 \in DOMAIN tags' /\ DOMAIN tags = {}
    BY <2>1, <2>2
  <2>. QED BY <2>3 DEF SkillCounts
<1>5. CASE UNCHANGED scoringVars
  BY <1>2, <1>5 DEF scoringVars
<1>. QED BY <1>3, <1>4, <1>5 DEF ScoringNext

(* Under every rubric, of whatever length, a further skill lowers no score *)
(* unless the balancing made its weight, or a total, negative.             *)
THEOREM SkillsHelp == ScoringSpec => SkillsNeverHurt
<1>1. ScoringInv /\ [ScoringNext]_scoringVars
        => [SkillCounts => result'.score >= result.score]_scoringVars
  BY OneMoreStep
<1>2. [SkillCounts => result'.score >= result.score]_scoringVars
        <=> [( /\ tags' = tags
               /\ AllWeigh("Must-have") >= 0 /\ AllWeigh("Nice-to-have") >= 0
               /\ \A i \in evidenced' \ evidenced : rubric[i] >= 0 )
                 => result'.score >= result.score]_scoringVars
  BY Zenon DEF SkillCounts
<1>. QED BY <1>1, <1>2, ScoringCorrect, PTL DEF ScoringSpec, SkillsNeverHurt

=============================================================================
