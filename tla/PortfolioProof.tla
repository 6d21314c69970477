--------------------------- MODULE PortfolioProof ---------------------------
(***************************************************************************)
(* Portfolio, for every value of its constants: the tables stay well        *)
(* formed; what a summary says of the 24 hour change and of its health is    *)
(* true of the rows it was read from, whatever is published or patched       *)
(* between its statements; the retry it offers is one; a history is that of  *)
(* one instant; and the totals of the summary and of the allocation agree.   *)
(***************************************************************************)
EXTENDS Portfolio, FiniteSetTheorems, WellFoundedInduction, TLAPS

------------------------------------------------------------------------------
(* Finite sets *)

LEMMA ImageFinite ==
  ASSUME NEW S, IsFiniteSet(S), NEW f
  PROVE  IsFiniteSet({f[x] : x \in S})
<1> DEFINE T == {f[x] : x \in S}
           g == [x \in S |-> f[x]]
<1>1. g \in Surjection(S, T)
  BY DEF Surjection
<1> QED BY <1>1, FS_Surjection

(* Of every nonempty finite set of rows one comes first in the order that   *)
(* TopRow looks at: a smallest set without one has no element to remove.    *)
LEMMA SomeTop ==
  ASSUME NEW S, IsFiniteSet(S), S # {}, S \subseteq Int,
         NEW key, \A s \in S : key[s] \in Int
  PROVE  \E s \in S : \A t \in S : key[t] < key[s] \/ (key[t] = key[s] /\ t <= s)
<1> DEFINE Top(T) == \E s \in T : \A t \in T : key[t] < key[s] \/ (key[t] = key[s] /\ t <= s)
           Bad == {T \in FiniteSubsetsOf(S) : T # {} /\ ~ Top(T)}
<1>1. SUFFICES ASSUME ~ Top(S) PROVE FALSE
  OBVIOUS
<1>2. S \in Bad
  BY <1>1 DEF FiniteSubsetsOf
<1>3. PICK T \in Bad : \A U \in Bad : ~ (<<U, T>> \in StrictSubsetOrdering(S))
  <2>1. Bad \subseteq FiniteSubsetsOf(S) /\ Bad # {}
    BY <1>2
  <2> HIDE DEF Bad
  <2> QED BY <2>1, FS_StrictSubsetOrderingWellFounded, WFMin
<1>4. T \subseteq S /\ IsFiniteSet(T) /\ T # {} /\ ~ Top(T)
  BY <1>3 DEF FiniteSubsetsOf
<1>5. PICK x \in T : TRUE
  BY <1>4
<1>6. T \ {x} # {}
  <2>1. SUFFICES ASSUME T = {x} PROVE Top(T)
    BY <1>4, <1>5
  <2> QED BY <2>1, <1>4, <1>5
<1>7. Top(T \ {x})
  <2>1. <<T \ {x}, T>> \in StrictSubsetOrdering(S)
    BY <1>4, <1>5 DEF StrictSubsetOrdering
  <2>2. T \ {x} \notin Bad
    BY <1>3, <2>1
  <2>3. T \ {x} \in FiniteSubsetsOf(S)
    BY <1>4, FS_Subset DEF FiniteSubsetsOf
  <2> QED BY <1>6, <2>2, <2>3
<1>8. PICK s \in T \ {x} : \A t \in T \ {x} : key[t] < key[s] \/ (key[t] = key[s] /\ t <= s)
  BY <1>7
<1>9. CASE key[s] < key[x] \/ (key[s] = key[x] /\ s <= x)
  <2>1. \A t \in T : key[t] < key[x] \/ (key[t] = key[x] /\ t <= x)
    BY <1>4, <1>5, <1>8, <1>9
  <2> QED BY <1>4, <1>5, <2>1
<1>10. CASE ~ (key[s] < key[x] \/ (key[s] = key[x] /\ s <= x))
  <2>1. \A t \in T : key[t] < key[s] \/ (key[t] = key[s] /\ t <= s)
    BY <1>4, <1>5, <1>8, <1>10
  <2> QED BY <1>4, <1>8, <2>1
<1> QED BY <1>9, <1>10

(* The least of a finite set of dates is one of them.                       *)
LEMMA MinLeast ==
  ASSUME NEW S, IsFiniteSet(S), S # {}, S \subseteq Int
  PROVE  Min(S) \in S /\ \A x \in S : Min(S) <= x
<1> DEFINE key == [x \in S |-> 0 - x]
<1>1. \A s \in S : key[s] \in Int
  OBVIOUS
<1>2. PICK s \in S : \A t \in S : key[t] < key[s] \/ (key[t] = key[s] /\ t <= s)
  <2> HIDE DEF key
  <2> QED BY <1>1, SomeTop
<1>3. \A t \in S : s <= t
  BY <1>2
<1> QED BY <1>3 DEF Min

(* So is the greatest.                                                      *)
LEMMA MaxGreatest ==
  ASSUME NEW S, IsFiniteSet(S), S # {}, S \subseteq Int
  PROVE  Max(S) \in S /\ \A x \in S : x <= Max(S)
<1> DEFINE key == [x \in S |-> x]
<1>1. \A s \in S : key[s] \in Int
  OBVIOUS
<1>2. PICK s \in S : \A t \in S : key[t] < key[s] \/ (key[t] = key[s] /\ t <= s)
  <2> HIDE DEF key
  <2> QED BY <1>1, SomeTop
<1>3. \A t \in S : t <= s
  BY <1>2
<1> QED BY <1>3 DEF Max

(* Induction over the subsets of a finite set, with the sets that have the  *)
(* property as a set: a smallest one without it has an element to remove.   *)
LEMMA SubsetInduction ==
  ASSUME NEW S, IsFiniteSet(S), NEW Good, {} \in Good,
         \A T \in SUBSET S : \A x \in T : T \ {x} \in Good => T \in Good
  PROVE  \A T \in SUBSET S : T \in Good
<1> DEFINE Bad == FiniteSubsetsOf(S) \ Good
<1>1. SUFFICES ASSUME NEW V \in SUBSET S, V \notin Good PROVE FALSE
  OBVIOUS
<1>2. V \in Bad
  BY <1>1, FS_Subset DEF FiniteSubsetsOf
<1>3. PICK T \in Bad : \A U \in Bad : ~ (<<U, T>> \in StrictSubsetOrdering(S))
  <2>1. Bad \subseteq FiniteSubsetsOf(S) /\ Bad # {}
    BY <1>2
  <2> HIDE DEF Bad
  <2> QED BY <2>1, FS_StrictSubsetOrderingWellFounded, WFMin
<1>4. T \in SUBSET S /\ T \notin Good
  BY <1>3 DEF FiniteSubsetsOf
<1>5. PICK x \in T : TRUE
  BY <1>4
<1>6. <<T \ {x}, T>> \in StrictSubsetOrdering(S)
  BY <1>4, <1>5 DEF StrictSubsetOrdering
<1>7. T \ {x} \in FiniteSubsetsOf(S)
  BY <1>4, FS_Subset DEF FiniteSubsetsOf
<1>8. T \ {x} \in Good
  BY <1>3, <1>6, <1>7
<1> QED BY <1>4, <1>5, <1>8

(* An order-free sum over the subsets of a set: any element may come last.  *)
IsSum(g, f, S) ==
  /\ IsFiniteSet(S) /\ \A x \in S : f[x] \in Int
  /\ g \in [SUBSET S -> Int] /\ g[{}] = 0
  /\ \A T \in SUBSET S : \A x \in T : g[T] = f[x] + g[T \ {x}]

(* What the fold over a set solves: the elements are taken in one order.    *)
AddsUp(h, f, S) ==
  h = [T \in SUBSET S |->
         IF T = {} THEN 0
         ELSE f[CHOOSE x \in T : TRUE] + h[T \ {CHOOSE x \in T : TRUE}]]

(* There is one.                                                            *)
LEMMA SumExists ==
  ASSUME NEW S, IsFiniteSet(S), NEW f, \A x \in S : f[x] \in Int
  PROVE  \E g : IsSum(g, f, S)
<1> DEFINE Bad == {T \in FiniteSubsetsOf(S) : ~ \E g : IsSum(g, f, T)}
<1>1. SUFFICES ASSUME S \in Bad PROVE FALSE
  BY DEF FiniteSubsetsOf
<1>2. PICK T \in Bad : \A U \in Bad : ~ (<<U, T>> \in StrictSubsetOrdering(S))
  <2>1. Bad \subseteq FiniteSubsetsOf(S) /\ Bad # {}
    BY <1>1
  <2> HIDE DEF Bad
  <2> QED BY <2>1, FS_StrictSubsetOrderingWellFounded, WFMin
<1>3. T \subseteq S /\ IsFiniteSet(T) /\ ~ \E g : IsSum(g, f, T)
  BY <1>2 DEF FiniteSubsetsOf
<1>4. T # {}
  <2>1. SUFFICES ASSUME T = {} PROVE \E g : IsSum(g, f, T)
    BY <1>3
  <2> DEFINE z == [U \in SUBSET T |-> 0]
  <2>2. IsSum(z, f, T)
    BY <1>3, <2>1 DEF IsSum
  <2> QED BY <2>2
<1>5. PICK x \in T : TRUE
  BY <1>4
<1>6. PICK g : IsSum(g, f, T \ {x})
  <2>1. <<T \ {x}, T>> \in StrictSubsetOrdering(S)
    BY <1>3, <1>5 DEF StrictSubsetOrdering
  <2>2. T \ {x} \notin Bad
    BY <1>2, <2>1
  <2>3. T \ {x} \in FiniteSubsetsOf(S)
    BY <1>3, FS_Subset DEF FiniteSubsetsOf
  <2> QED BY <2>2, <2>3
<1> DEFINE h == [U \in SUBSET T |-> IF x \in U THEN f[x] + g[U \ {x}] ELSE g[U]]
<1>7. /\ g[{}] = 0 /\ f[x] \in Int
      /\ \A U \in SUBSET T : U \ {x} \in SUBSET (T \ {x}) /\ g[U \ {x}] \in Int
      /\ \A U \in SUBSET T : x \notin U => U \in SUBSET (T \ {x}) /\ g[U] \in Int
  BY <1>3, <1>5, <1>6 DEF IsSum
<1>8. h \in [SUBSET T -> Int] /\ h[{}] = 0
  BY <1>7
<1>9. ASSUME NEW U \in SUBSET T, NEW y \in U
      PROVE  h[U] = f[y] + h[U \ {y}]
  <2>1. h[U] = (IF x \in U THEN f[x] + g[U \ {x}] ELSE g[U])
        /\ h[U \ {y}] = (IF x \in U \ {y} THEN f[x] + g[(U \ {y}) \ {x}] ELSE g[U \ {y}])
    OBVIOUS
  <2>2. CASE y = x
    BY <2>1, <2>2, <1>9
  <2>3. CASE y # x /\ x \in U
    <3>1. (U \ {x}) \ {y} = (U \ {y}) \ {x}
      OBVIOUS
    <3>2. g[U \ {x}] = f[y] + g[(U \ {x}) \ {y}]
      BY <1>6, <1>7, <1>9, <2>3 DEF IsSum
    <3>3. f[y] \in Int /\ g[(U \ {y}) \ {x}] \in Int
      BY <1>3, <1>7, <1>9
    <3>4. h[U] = f[x] + (f[y] + g[(U \ {y}) \ {x}])
      BY <2>1, <2>3, <3>1, <3>2
    <3>5. h[U \ {y}] = f[x] + g[(U \ {y}) \ {x}]
      BY <2>1, <2>3
    <3> HIDE DEF h
    <3> QED BY <1>7, <3>3, <3>4, <3>5
  <2>4. CASE x \notin U
    <3>1. U \in SUBSET (T \ {x})
      BY <1>7, <2>4
    <3>2. g[U] = f[y] + g[U \ {y}]
      BY <1>6, <1>9, <3>1 DEF IsSum
    <3> QED BY <2>1, <2>4, <3>2
  <2> QED BY <2>2, <2>3, <2>4
<1>10. IsSum(h, f, T)
  <2> HIDE DEF h
  <2> QED BY <1>3, <1>8, <1>9 DEF IsSum
<1> HIDE DEF h
<1> QED BY <1>3, <1>10

(* A function that adds up the elements in any one order is that sum.       *)
LEMMA SumUnique ==
  ASSUME NEW S, NEW f, NEW g, IsSum(g, f, S), NEW h, AddsUp(h, f, S)
  PROVE  h = g
<1> DEFINE Bad == {T \in FiniteSubsetsOf(S) : h[T] # g[T]}
<1>0. IsFiniteSet(S)
  BY DEF IsSum
<1>1. SUFFICES ASSUME NEW V \in SUBSET S, h[V] # g[V] PROVE FALSE
  <2>1. DOMAIN h = SUBSET S /\ DOMAIN g = SUBSET S /\ h = [T \in SUBSET S |-> h[T]]
        /\ g = [T \in SUBSET S |-> g[T]]
    BY DEF IsSum, AddsUp
  <2> QED BY <2>1
<1>2. V \in Bad
  BY <1>0, <1>1, FS_Subset DEF FiniteSubsetsOf
<1>3. PICK T \in Bad : \A U \in Bad : ~ (<<U, T>> \in StrictSubsetOrdering(S))
  <2>1. Bad \subseteq FiniteSubsetsOf(S) /\ Bad # {}
    BY <1>2
  <2> HIDE DEF Bad
  <2> QED BY <1>0, <2>1, FS_StrictSubsetOrderingWellFounded, WFMin
<1>4. T \subseteq S /\ IsFiniteSet(T) /\ h[T] # g[T]
  BY <1>3 DEF FiniteSubsetsOf
<1>5. h[{}] = 0 /\ g[{}] = 0
  BY DEF IsSum, AddsUp
<1> DEFINE x == CHOOSE y \in T : TRUE
<1>6. T # {} /\ x \in T
  BY <1>4, <1>5
<1>7. h[T] = f[x] + h[T \ {x}]
  BY <1>4, <1>6 DEF AddsUp
<1>8. h[T \ {x}] = g[T \ {x}]
  <2> HIDE DEF x
  <2>1. <<T \ {x}, T>> \in StrictSubsetOrdering(S)
    BY <1>4, <1>6 DEF StrictSubsetOrdering
  <2>2. T \ {x} \notin Bad
    BY <1>3, <2>1
  <2>3. T \ {x} \in FiniteSubsetsOf(S)
    BY <1>4, FS_Subset DEF FiniteSubsetsOf
  <2> QED BY <2>2, <2>3
<1>9. g[T] = f[x] + g[T \ {x}]
  <2> HIDE DEF x
  <2> QED BY <1>4, <1>6 DEF IsSum
<1> QED BY <1>4, <1>7, <1>8, <1>9

(* The sum of a function is that sum of its domain.                         *)
LEMMA SumIs ==
  ASSUME NEW f, NEW g, IsSum(g, f, DOMAIN f)
  PROVE  SumFunction(f) = g[DOMAIN f]
<1> DEFINE S == DOMAIN f
           c == CHOOSE h : AddsUp(h, f, S)
<1>1. AddsUp(g, f, S)
  <2>1. g = [T \in SUBSET S |-> g[T]] /\ g[{}] = 0
    BY DEF IsSum
  <2>2. ASSUME NEW T \in SUBSET S, T # {}
        PROVE  g[T] = f[CHOOSE x \in T : TRUE] + g[T \ {CHOOSE x \in T : TRUE}]
    <3> DEFINE x == CHOOSE x \in T : TRUE
    <3>1. x \in T
      BY <2>2
    <3> HIDE DEF x
    <3>2. g[T] = f[x] + g[T \ {x}]
      BY <3>1 DEF IsSum
    <3> QED BY <3>2 DEF x
  <2> QED BY <2>1, <2>2 DEF AddsUp
<1>2. AddsUp(c, f, S)
  BY <1>1
<1>3. SumFunction(f) = c[S]
  BY DEF SumFunction, SumFunctionOnSet, FoldFunctionOnSet, MapThenFoldSet, AddsUp
<1>4. c = g
  <2> HIDE DEF c
  <2> QED BY <1>2, SumUnique
<1> QED BY <1>3, <1>4

(* A sum of part of a function.                                             *)
LEMMA SumPart ==
  ASSUME NEW S, NEW f, NEW g, IsSum(g, f, S), NEW T \in SUBSET S
  PROVE  SumFunction([x \in T |-> f[x]]) = g[T] /\ g[T] \in Int
<1> DEFINE p == [x \in T |-> f[x]]
           h == [U \in SUBSET T |-> g[U]]
<1>1. IsFiniteSet(T) /\ DOMAIN p = T /\ \A x \in T : p[x] \in Int
  BY FS_Subset DEF IsSum
<1>2. h \in [SUBSET T -> Int] /\ h[{}] = 0
  BY DEF IsSum
<1>3. \A U \in SUBSET T : \A x \in U : h[U] = p[x] + h[U \ {x}]
  BY DEF IsSum
<1>4. IsSum(h, p, DOMAIN p)
  <2> HIDE DEF h, p
  <2> QED BY <1>1, <1>2, <1>3 DEF IsSum
<1>5. h[T] = g[T] /\ g[T] \in Int
  BY DEF IsSum
<1> HIDE DEF h, p
<1>6. SumFunction(p) = h[T]
  BY <1>1, <1>4, SumIs
<1> QED BY <1>5, <1>6 DEF p

(* The sum of two parts.                                                    *)
LEMMA SumParts ==
  ASSUME NEW S, NEW f, NEW g, IsSum(g, f, S)
  PROVE  \A A, B \in SUBSET S : A \cap B = {} => g[A \cup B] = g[A] + g[B]
<1> SUFFICES ASSUME NEW A \in SUBSET S, NEW B \in SUBSET S, A \cap B = {}
             PROVE  g[A \cup B] = g[A] + g[B]
  OBVIOUS
<1> DEFINE Good == {T \in SUBSET A : g[T \cup B] = g[T] + g[B]}
<1>1. /\ g[{}] = 0 /\ IsFiniteSet(S)
      /\ \A T \in SUBSET S : g[T] \in Int
      /\ \A x \in S : f[x] \in Int
  BY DEF IsSum
<1>2. {} \in Good
  BY <1>1
<1>3. ASSUME NEW T \in SUBSET A, NEW x \in T, T \ {x} \in Good
      PROVE  T \in Good
  <2>1. g[(T \ {x}) \cup B] = g[T \ {x}] + g[B]
    BY <1>3
  <2>2. g[T] = f[x] + g[T \ {x}]
    BY <1>3 DEF IsSum
  <2>3. g[T \cup B] = f[x] + g[(T \cup B) \ {x}]
    BY <1>3 DEF IsSum
  <2>4. (T \cup B) \ {x} = (T \ {x}) \cup B
    BY <1>3
  <2>5. f[x] \in Int /\ g[B] \in Int /\ g[T \ {x}] \in Int
    BY <1>1, <1>3
  <2>6. PICK a, c, d : a = f[x] /\ c = g[T \ {x}] /\ d = g[B]
    OBVIOUS
  <2>7. g[T \cup B] = a + (c + d) /\ g[T] = a + c
    BY <2>1, <2>2, <2>3, <2>4, <2>6
  <2>8. a \in Int /\ c \in Int /\ d \in Int
    BY <2>5, <2>6
  <2>9. g[T \cup B] = g[T] + g[B]
    BY <2>6, <2>7, <2>8
  <2> QED BY <2>9
<1>4. IsFiniteSet(A)
  BY <1>1, FS_Subset
<1> HIDE DEF Good
<1>5. A \in Good
  BY <1>2, <1>3, <1>4, SubsetInduction
<1> QED BY <1>5 DEF Good

(* What a sum is: a number, nothing without terms.                          *)
LEMMA SumInt ==
  ASSUME NEW f, IsFiniteSet(DOMAIN f), \A x \in DOMAIN f : f[x] \in Int
  PROVE  SumFunction(f) \in Int /\ (DOMAIN f = {} => SumFunction(f) = 0)
<1>1. PICK g : IsSum(g, f, DOMAIN f)
  BY SumExists
<1>2. SumFunction(f) = g[DOMAIN f]
  BY <1>1, SumIs
<1> QED BY <1>1, <1>2 DEF IsSum

(* A sum is that of a part and of the rest.                                 *)
LEMMA SumSplit ==
  ASSUME NEW f, IsFiniteSet(DOMAIN f), \A x \in DOMAIN f : f[x] \in Int,
         NEW T \in SUBSET DOMAIN f
  PROVE  SumFunction(f) = SumFunction([x \in T |-> f[x]])
                            + SumFunction([x \in DOMAIN f \ T |-> f[x]])
<1> DEFINE S == DOMAIN f
<1>1. PICK g : IsSum(g, f, S)
  BY SumExists
<1>2. SumFunction(f) = g[S]
  BY <1>1, SumIs
<1>3. g[T] = SumFunction([x \in T |-> f[x]])
  BY <1>1, SumPart
<1>4. g[S \ T] = SumFunction([x \in S \ T |-> f[x]])
  <2>1. S \ T \in SUBSET S
    OBVIOUS
  <2> QED BY <1>1, <2>1, SumPart
<1>5. g[T \cup (S \ T)] = g[T] + g[S \ T]
  <2>1. S \ T \in SUBSET S /\ T \cap (S \ T) = {}
    OBVIOUS
  <2> QED BY <1>1, <2>1, SumParts
<1>6. T \cup (S \ T) = S
  OBVIOUS
<1> QED BY <1>2, <1>3, <1>4, <1>5, <1>6

(* Terms that are zero add nothing.                                         *)
LEMMA SumZero ==
  ASSUME NEW f, IsFiniteSet(DOMAIN f), \A x \in DOMAIN f : f[x] = 0
  PROVE  SumFunction(f) = 0
<1> DEFINE S == DOMAIN f
           zero == [T \in SUBSET S |-> 0]
<1>1. IsSum(zero, f, S) /\ zero[S] = 0
  BY DEF IsSum
<1> HIDE DEF zero
<1> QED BY <1>1, SumIs

LEMMA SumMore ==
  ASSUME NEW f, NEW h, IsFiniteSet(DOMAIN h), DOMAIN f \subseteq DOMAIN h,
         \A x \in DOMAIN f : f[x] \in Int /\ h[x] = f[x],
         \A x \in DOMAIN h \ DOMAIN f : h[x] = 0,
         f = [x \in DOMAIN f |-> f[x]]
  PROVE  SumFunction(h) = SumFunction(f)
<1> DEFINE rest == [x \in DOMAIN h \ DOMAIN f |-> h[x]]
<1>1. [x \in DOMAIN f |-> h[x]] = f
  OBVIOUS
<1>2. SumFunction(h) = SumFunction([x \in DOMAIN f |-> h[x]]) + SumFunction(rest)
  <2>1. \A x \in DOMAIN h : h[x] \in Int
    OBVIOUS
  <2> QED BY <2>1, SumSplit
<1>3. SumFunction(rest) = 0
  <2>1. IsFiniteSet(DOMAIN rest) /\ \A x \in DOMAIN rest : rest[x] = 0
    BY FS_Difference
  <2> HIDE DEF rest
  <2> QED BY <2>1, SumZero
<1>4. SumFunction(f) \in Int
  BY FS_Subset, SumInt
<1> HIDE DEF rest
<1> QED BY <1>1, <1>2, <1>3, <1>4

(* Terms may be renamed.                                                    *)
LEMMA SumRenamed ==
  ASSUME NEW f, IsFiniteSet(DOMAIN f), NEW h, IsFiniteSet(DOMAIN h),
         \A y \in DOMAIN h : h[y] \in Int,
         NEW b, \A x \in DOMAIN f : b[x] \in DOMAIN h /\ f[x] = h[b[x]],
         \A x, y \in DOMAIN f : b[x] = b[y] => x = y,
         \A y \in DOMAIN h : \E x \in DOMAIN f : b[x] = y
  PROVE  SumFunction(f) = SumFunction(h)
<1> DEFINE S == DOMAIN f
           To(T) == {b[x] : x \in T}
<1>1. PICK k : IsSum(k, h, DOMAIN h)
  BY SumExists
<1>2. PICK g : IsSum(g, f, S)
  BY SumExists
<1> DEFINE Good == {T \in SUBSET S : g[T] = k[To(T)]}
<1>3. {} \in Good
  <2>1. To({}) = {}
    OBVIOUS
  <2> HIDE DEF To
  <2> QED BY <1>1, <1>2, <2>1 DEF IsSum
<1>4. ASSUME NEW T \in SUBSET S, NEW x \in T, T \ {x} \in Good
      PROVE  T \in Good
  <2>1. g[T] = f[x] + g[T \ {x}]
    BY <1>2, <1>4 DEF IsSum
  <2>2. To(T) \in SUBSET DOMAIN h /\ b[x] \in To(T) /\ To(T) \ {b[x]} = To(T \ {x})
    BY <1>4
  <2>3. g[T \ {x}] = k[To(T \ {x})]
    BY <1>4
  <2> HIDE DEF To
  <2>4. \A U \in SUBSET DOMAIN h : \A y \in U : k[U] = h[y] + k[U \ {y}]
    BY <1>1 DEF IsSum
  <2>5. k[To(T)] = h[b[x]] + k[To(T) \ {b[x]}]
    BY <2>2, <2>4
  <2>6. f[x] = h[b[x]]
    BY <1>4
  <2>7. g[T] = k[To(T)]
    BY <2>1, <2>2, <2>3, <2>5, <2>6
  <2> QED BY <2>7
<1> HIDE DEF Good
<1>5. S \in Good
  <2>1. \A T \in SUBSET S : \A x \in T : T \ {x} \in Good => T \in Good
    BY <1>4
  <2>2. \A T \in SUBSET S : T \in Good
    BY <1>3, <2>1, SubsetInduction
  <2> QED BY <2>2
<1>6. To(S) = DOMAIN h
  OBVIOUS
<1> QED BY <1>1, <1>2, <1>5, <1>6, SumIs DEF Good

(* A sum of sums over disjoint parts.                                       *)
LEMMA SumOfSums ==
  ASSUME NEW f, IsFiniteSet(DOMAIN f), \A x \in DOMAIN f : f[x] \in Int,
         NEW W, IsFiniteSet(W), NEW G,
         \A w \in W : G[w] \subseteq DOMAIN f,
         \A v, w \in W : v = w \/ G[v] \cap G[w] = {},
         \A x \in DOMAIN f : \E w \in W : x \in G[w]
  PROVE  SumFunction(f) = SumFunction([w \in W |-> SumFunction([x \in G[w] |-> f[x]])])
<1> DEFINE S == DOMAIN f
           each == [w \in W |-> SumFunction([x \in G[w] |-> f[x]])]
           All(V) == UNION {G[w] : w \in V}
<1>1. PICK g : IsSum(g, f, S)
  BY SumExists
<1>2. \A w \in W : each[w] = g[G[w]] /\ each[w] \in Int
  <2>1. \A w \in W : SumFunction([x \in G[w] |-> f[x]]) = g[G[w]] /\ g[G[w]] \in Int
    BY <1>1, SumPart
  <2> QED BY <2>1
<1>3. DOMAIN each = W
  OBVIOUS
<1> HIDE DEF each
<1>4. PICK k : IsSum(k, each, W)
  BY <1>2, SumExists
<1> DEFINE Good == {V \in SUBSET W : k[V] = g[All(V)]}
<1>5. {} \in Good
  <2>1. All({}) = {}
    OBVIOUS
  <2> QED BY <1>1, <1>4, <2>1 DEF IsSum
<1>6. ASSUME NEW V \in SUBSET W, NEW w \in V, V \ {w} \in Good
      PROVE  V \in Good
  <2>1. k[V] = each[w] + k[V \ {w}]
    BY <1>4, <1>6 DEF IsSum
  <2>2. k[V \ {w}] = g[All(V \ {w})]
    BY <1>6
  <2>3. All(V \ {w}) \in SUBSET S /\ G[w] \in SUBSET S /\ All(V \ {w}) \cap G[w] = {}
        /\ All(V) = G[w] \cup All(V \ {w})
    BY <1>6
  <2> HIDE DEF All
  <2>4. g[G[w] \cup All(V \ {w})] = g[G[w]] + g[All(V \ {w})]
    <3>1. G[w] \cap All(V \ {w}) = {}
      BY <2>3
    <3>2. \A A, B \in SUBSET S : A \cap B = {} => g[A \cup B] = g[A] + g[B]
      BY <1>1, SumParts
    <3> QED BY <2>3, <3>1, <3>2
  <2> QED BY <1>2, <1>6, <2>1, <2>2, <2>3, <2>4
<1> HIDE DEF Good
<1>7. W \in Good
  <2>1. \A V \in SUBSET W : \A w \in V : V \ {w} \in Good => V \in Good
    BY <1>6
  <2>2. \A V \in SUBSET W : V \in Good
    BY <1>5, <2>1, SubsetInduction
  <2> QED BY <2>2
<1>8. All(W) = S
  OBVIOUS
<1>9. k[W] = SumFunction(each)
  BY <1>3, <1>4, SumIs
<1>10. g[S] = SumFunction(f)
  BY <1>1, SumIs
<1>11. k[W] = g[All(W)]
  BY <1>7 DEF Good
<1> HIDE DEF All
<1> QED BY <1>8, <1>9, <1>10, <1>11 DEF each

------------------------------------------------------------------------------
(* The locals of a request *)

LEMMA WithHas ==
  ASSUME NEW f, NEW g
  PROVE  /\ DOMAIN With(f, g) = DOMAIN f \cup DOMAIN g
         /\ \A k \in DOMAIN f : With(f, g)[k] = f[k]
         /\ \A k \in DOMAIN g \ DOMAIN f : With(f, g)[k] = g[k]
BY DEF With

(* A step keeps what it names and leaves the rest as it was.                *)
LEMMA ThenHas ==
  ASSUME NEW p, NEW locals, Then(p, locals), "pc" \notin DOMAIN locals
  PROVE  /\ UNCHANGED <<world, offer>>
         /\ DOMAIN req' = {"pc"} \cup DOMAIN locals \cup DOMAIN req
         /\ req'.pc = p
         /\ \A k \in DOMAIN locals : req'[k] = locals[k]
         /\ \A k \in DOMAIN req : k = "pc" \/ k \in DOMAIN locals \/ req'[k] = req[k]
<1> DEFINE f == [pc |-> p]
           g == With(locals, req)
<1>1. UNCHANGED <<world, offer>>
  BY DEF Then
<1>8. req' = With(f, g)
  BY DEF Then
<1>2. DOMAIN f = {"pc"} /\ f["pc"] = p
  OBVIOUS
<1>3. /\ DOMAIN g = DOMAIN locals \cup DOMAIN req
      /\ \A k \in DOMAIN locals : g[k] = locals[k]
      /\ \A k \in DOMAIN req \ DOMAIN locals : g[k] = req[k]
  BY WithHas
<1>4. /\ DOMAIN req' = {"pc"} \cup DOMAIN g
      /\ req'["pc"] = p
      /\ \A k \in DOMAIN g \ {"pc"} : req'[k] = g[k]
  <2>1. /\ DOMAIN With(f, g) = DOMAIN f \cup DOMAIN g
        /\ \A k \in DOMAIN f : With(f, g)[k] = f[k]
        /\ \A k \in DOMAIN g \ DOMAIN f : With(f, g)[k] = g[k]
    BY WithHas
  <2> HIDE DEF f, g
  <2> QED BY <1>8, <1>2, <2>1
<1>5. DOMAIN req' = {"pc"} \cup DOMAIN locals \cup DOMAIN req
  <2> HIDE DEF f, g
  <2> QED BY <1>3, <1>4
<1>6. \A k \in DOMAIN locals : req'[k] = locals[k]
  <2> HIDE DEF f, g
  <2> QED BY <1>3, <1>4
<1>7. \A k \in DOMAIN req : k = "pc" \/ k \in DOMAIN locals \/ req'[k] = req[k]
  <2> HIDE DEF f, g
  <2> QED BY <1>3, <1>4
<1> QED BY <1>1, <1>4, <1>5, <1>6, <1>7

------------------------------------------------------------------------------
(* The inductive invariant *)

(* The tables are well formed, and so is what is known of the addresses.    *)
Wf ==
  /\ WellFormed(wallets, runs, snaps, legacy, manual, lastId, now)
  /\ now \in 0 .. MaxNow /\ changes \in 0 .. MaxChanges
  /\ AddressRows(wallets, runs, snaps, patches, now)

(* What no step does to the tables: an id is given once, a snapshot never   *)
(* changes, nor does a run that has ended; only the merge of the user takes *)
(* rows away, and an address changes only by a PATCH committed at the time. *)
RowsStay ==
  /\ lastId <= lastId' /\ (gone => gone')
  /\ \A s \in DOMAIN snaps' : s <= lastId => s \in DOMAIN snaps /\ snaps'[s] = snaps[s]
  /\ \A r \in DOMAIN runs' : r <= lastId =>
       /\ r \in DOMAIN runs
       /\ runs'[r].user = runs[r].user /\ runs'[r].created = runs[r].created
       /\ runs[r].status \notin ActiveStatuses => runs'[r] = runs[r]
  /\ ~ gone' => DOMAIN snaps \subseteq DOMAIN snaps' /\ DOMAIN runs \subseteq DOMAIN runs'
  /\ \A w \in DOMAIN wallets' : w \in DOMAIN wallets /\ wallets'[w].user = wallets[w].user
  /\ \A w \in DOMAIN wallets' :
       /\ patches[w] \subseteq patches'[w]
       /\ wallets'[w].address # wallets[w].address => \E p \in patches'[w] : p.commit = now

(* Every chain of the snapshots is complete; every holding has a price.     *)
AllDone(S) ==
  \A s \in S \cap DOMAIN snaps : \A part \in snaps[s].parts : part.status = "success"
AllPriced(S) ==
  \A s \in S \cap DOMAIN snaps :
    \A b \in BalancesOf({s}) : b[2].amount # 0 => b[2].price # Null

(* A job that may be offered for a retry.                                   *)
Retryable(j) == j \in Nat /\ (~ gone => OwnRun(j) /\ FailedChains(j) # {})

(* What a summary knows once each of its statements was executed.           *)
WalletsKnown ==
  /\ {"wallets", "rows"} \subseteq DOMAIN req
  /\ IsFiniteSet(req.wallets)
  /\ \A w \in req.wallets : w \in DOMAIN wallets => wallets[w].user = Me

(* A snapshot is of the address its wallet has, or the address was changed  *)
(* since the snapshot was observed, or while its run was created.           *)
Races(w, s) == Raced(patches[w], CreatedAt(s))
Explained(w, s) ==
  \/ snaps[s].key = wallets[w].address
  \/ Races(w, s)
  \/ \E p \in patches[w] : Observed(s) <= p.commit

LatestKnown ==
  /\ "latest" \in DOMAIN req /\ DOMAIN req.latest \subseteq req.wallets
  /\ \A w \in DOMAIN req.latest :
       LET s == req.latest[w]
       IN  /\ s \in 1 .. lastId
           /\ s \in DOMAIN snaps =>
                snaps[s].wallet = w /\ snaps[s].status \in ReadStatuses /\ Explained(w, s)

MetaKnown == "meta" \in DOMAIN req /\ \A s \in DOMAIN req.meta : req.meta[s].at \in Int

LegacyKnown == "legacy" \in DOMAIN req /\ \A w \in DOMAIN req.legacy : req.legacy[w].at \in Int

LegacyAssetsKnown ==
  /\ "legacyAssets" \in DOMAIN req
  /\ \A w \in DOMAIN req.legacy : IsFiniteSet(req.legacyAssets[w])

ManualKnown ==
  /\ "manual" \in DOMAIN req /\ ~ Missing
  /\ \A w \in req.wallets : IsFiniteSet(req.manual[w])

ExchangeKnown ==
  /\ "ex" \in DOMAIN req /\ IsFiniteSet(req.ex.assets)
  /\ req.ex.status = "success" \/ req.ex.assets = {}
  /\ req.ex.asOf = Null \/ req.ex.asOf \in Int

RefreshKnown == "refreshing" \in DOMAIN req /\ req.refreshing \in BOOLEAN

IssuesKnown ==
  /\ "issues" \in DOMAIN req
  /\ req.issues = {} => AllDone(Chosen)
  /\ \A x \in req.issues : x[2].status = "failed" => Retryable(x[2].run)

FreshKnown ==
  /\ ~ req.refreshing
  /\ req.ex.status \in {"not_configured", "success"}
  /\ \A a \in req.ex.assets : a.price # Null
  /\ AllDone(Chosen) /\ AllPriced(Chosen)
  /\ \A w \in req.wallets : LET info == Info(req, w)
                            IN  /\ info.source # "none"
                                /\ info.at # Null => req.at - info.at <= Stale

HealthKnown(h) ==
  /\ h.retry = Null \/ Retryable(h.retry)
  /\ h.state = "fresh" => FreshKnown

EndKnown ==
  /\ {"health", "at"} \subseteq DOMAIN req
  /\ HealthKnown(req.health)
  /\ DOMAIN req.latest = req.wallets
  /\ req.health.issues = {} => AllDone(Chosen)
  /\ req.health.quality.state = "complete" => AllPriced(Chosen)
  /\ req.at \in Int
  /\ \A s \in Chosen \cap DOMAIN snaps : Observed(s) <= req.at

CurrentKnown ==
  /\ AllDone(Chosen) /\ AllPriced(Chosen)
  /\ \A s \in Chosen \cap DOMAIN snaps : req.at - Observed(s) <= Fresh

BaseKnown ==
  /\ "base" \in DOMAIN req /\ DOMAIN req.base = req.wallets
  /\ \A w \in req.wallets :
       LET s == req.base[w]
           e == req.latest[w]
       IN  /\ s \in 1 .. lastId
           /\ s \in DOMAIN snaps =>
                /\ snaps[s].wallet = w /\ snaps[s].status = "success"
                /\ Observed(s) \in Cutoff - Fresh .. Cutoff
                /\ e \in DOMAIN snaps =>
                     snaps[s].key = snaps[e].key \/ Races(w, s) \/ Races(w, e)

CompleteKnown ==
  /\ CurrentKnown /\ BaseKnown
  /\ DOMAIN req.latest = req.wallets
  /\ \A s \in Chosen \cap DOMAIN snaps : Observed(s) <= req.at
  /\ req.at \in Int
  /\ AllDone(BaseSnaps) /\ AllPriced(BaseSnaps)

DoneKnown ==
  /\ "at" \in DOMAIN req
  /\ HealthKnown(req.answer.health)
  /\ req.answer.change.status = "complete" => CompleteKnown

(* They add up, statement by statement.                                     *)
Picked == WalletsKnown /\ LatestKnown
Measured == Picked /\ MetaKnown
Detailed == Measured /\ "assets" \in DOMAIN req
Completed == Detailed /\ LegacyKnown
Filled == Completed /\ LegacyAssetsKnown
Valued == Filled /\ ManualKnown
Gathered == Valued /\ ExchangeKnown /\ RefreshKnown
Judged == Gathered /\ EndKnown
Contrasted == Judged /\ CurrentKnown /\ BaseKnown

SummaryInv ==
  /\ At("summary", "latest") => WalletsKnown
  /\ At("summary", "meta") => Picked
  /\ At("summary", "assets") => Measured
  /\ At("summary", "legacy") => Detailed
  /\ At("summary", "legacyAssets") => Completed
  /\ At("summary", "manual") => Filled
  /\ At("summary", "exchange") => Valued
  /\ At("summary", "refresh") => Valued /\ ExchangeKnown
  /\ At("summary", "issues") => Gathered
  /\ At("summary", "prices") => Gathered /\ IssuesKnown
  /\ At("summary", "current") => Judged
  /\ At("summary", "baseline") => Judged /\ CurrentKnown
  /\ At("summary", "baseIssues") => Contrasted
  /\ At("summary", "basePrices") =>
       Contrasted /\ "broken" \in DOMAIN req /\ (~ req.broken => AllDone(BaseSnaps))
  /\ Done("summary") => Gathered /\ DoneKnown

(* Where a request may be, and what a refresh or a retry knows.             *)
PcInv ==
  /\ {"op", "pc"} \subseteq DOMAIN req
  /\ req.op = "none" <=> req.pc = "idle"
  /\ req.pc \in InfoSteps => req.op \in {"summary", "allocation", "detail"}
  /\ req.pc = "done" => "answer" \in DOMAIN req

RefreshInv ==
  req.op = "refresh" /\ req.pc \in {"check", "post"} =>
    /\ {"scope", "target"} \subseteq DOMAIN req
    /\ req.scope \in {"all", "wallet", "group"}
    /\ req.scope = "group" => req.target \in DOMAIN GroupOwner
    /\ req.pc = "post" =>
         /\ req.scope = "wallet" /\ req.target \in DOMAIN wallets =>
              wallets[req.target].user = Me
         /\ req.scope = "group" => GroupOwner[req.target] = Me

RetryInv ==
  /\ offer = Null \/ Retryable(offer)
  /\ req.op = "retry" =>
       /\ "job" \in DOMAIN req /\ req.job \in Nat
       /\ req.pc \in {"chains", "post"} /\ ~ gone => OwnRun(req.job)
       /\ req.pc = "done" /\ req.job = offer /\ ~ gone =>
            /\ req.answer.code # 404
            /\ "why" \in DOMAIN req.answer =>
                 req.answer.why = "not ready" /\ req.answer.status \in ActiveStatuses

PInv == Wf /\ PcInv /\ SummaryInv /\ RefreshInv /\ RetryInv

------------------------------------------------------------------------------
(* The tables *)

(* Of a world without change every row stays.                               *)
LEMMA WorldStays ==
  ASSUME UNCHANGED world, Wf
  PROVE  Wf' /\ RowsStay
<1>1. Wf'
  BY DEF world, tables, Wf
<1>2. RowsStay
  BY DEF world, tables, Wf, WellFormed, RunRows, SnapRows, RowsStay
<1> QED BY <1>1, <1>2

LEMMA InitWf == Init0 => Wf
<1> SUFFICES ASSUME Init0 PROVE Wf
  OBVIOUS
<1>1. PICK d \in Databases :
        /\ wallets = d.wallets /\ runs = d.runs /\ snaps = d.snaps /\ legacy = d.legacy
        /\ manual = d.manual /\ lastId = d.lastId /\ now = d.now /\ patches = d.patches
  BY DEF Init0
<1>2. WellFormed(wallets, runs, snaps, legacy, manual, lastId, now) /\ now \in 0 .. MaxNow
  BY <1>1, PortfolioAssumption
<1>3. changes \in 0 .. MaxChanges
  BY PortfolioAssumption DEF Init0
<1>4. AddressRows(wallets, runs, snaps, patches, now)
  BY <1>1, PortfolioAssumption
<1> QED BY <1>2, <1>3, <1>4 DEF Wf

(* What is known of the addresses outlives every step that changes none.    *)
LEMMA AddressesStay ==
  ASSUME Wf, UNCHANGED patches, now' \in Int, now <= now',
         \A w \in DOMAIN wallets' :
           /\ w \in DOMAIN wallets /\ wallets'[w].address = wallets[w].address
           /\ wallets'[w].addrAt = wallets[w].addrAt,
         \A s \in DOMAIN snaps' :
           /\ s \in DOMAIN snaps /\ snaps'[s] = snaps[s]
           /\ snaps[s].wallet \in DOMAIN wallets'
           /\ runs'[snaps[s].run].created = runs[snaps[s].run].created
  PROVE  AddressRows(wallets', runs', snaps', patches', now')
<1>1. AddressRows(wallets, runs, snaps, patches, now) /\ now \in Int
  BY PortfolioAssumption DEF Wf
<1>2. DOMAIN wallets' \subseteq DOMAIN patches'
  BY <1>1 DEF AddressRows
<1>3. ASSUME NEW w \in DOMAIN wallets'
      PROVE  /\ \A p \in patches[w] : p.stamp \in Int /\ p.commit \in Int /\ p.commit <= now'
             /\ patches[w] # {} =>
                  \E q \in patches[w] : /\ q.stamp = wallets'[w].addrAt
                                       /\ \A p \in patches[w] : p.commit <= q.commit
  BY <1>1 DEF AddressRows
<1>4. ASSUME NEW s \in DOMAIN snaps', NEW w, w = snaps'[s].wallet,
             runs'[snaps'[s].run].created >= wallets'[w].addrAt,
             ~ Raced(patches'[w], runs'[snaps'[s].run].created)
      PROVE  snaps'[s].key = wallets'[w].address
  BY <1>1, <1>4 DEF AddressRows
<1> QED BY <1>2, <1>3, <1>4 DEF AddressRows

(* A run created for a scope of its user.                                   *)
LEMMA InsertedRun ==
  ASSUME Wf, NEW u \in Users, NEW scope, NEW target,
         scope = "wallet" /\ target \in DOMAIN wallets => wallets[target].user = u,
         scope = "group" => target \in DOMAIN GroupOwner /\ GroupOwner[target] = u,
         scope = "failed_chains" => target \in DOMAIN runs /\ runs[target].user = u,
         InsertRun(u, scope, target), changes' \in 0 .. MaxChanges,
         UNCHANGED <<wallets, snaps, legacy, manual, now, patches, gone>>
  PROVE  Wf' /\ RowsStay
<1> DEFINE row == [user |-> u, scope |-> scope, target |-> target, status |-> "running",
                   created |-> now, finished |-> Null]
<1>1. WellFormed(wallets, runs, snaps, legacy, manual, lastId, now)
  BY DEF Wf
<1>2. lastId \in Nat /\ now \in Int /\ lastId' = lastId + 1 /\ lastId' \notin DOMAIN runs
  BY <1>1, PortfolioAssumption DEF WellFormed, RunRows, Wf, InsertRun
<1>3. /\ DOMAIN runs' = DOMAIN runs \cup {lastId'}
      /\ runs'[lastId'] = row
      /\ \A r \in DOMAIN runs : runs'[r] = runs[r]
  <2>1. runs' = Assign(runs, lastId', row)
    BY DEF InsertRun
  <2> HIDE DEF row
  <2>2. /\ DOMAIN Assign(runs, lastId', row) = DOMAIN runs \cup {lastId'}
        /\ Assign(runs, lastId', row)[lastId'] = row
        /\ \A k \in DOMAIN runs : k # lastId' => Assign(runs, lastId', row)[k] = runs[k]
    BY DEF Assign
  <2> QED BY <2>1, <2>2, <1>2
<1>4. RunRows(wallets', runs', lastId', now')
  <2>1. RunRows(wallets, runs, lastId, now)
    BY <1>1 DEF WellFormed
  <2>2. DOMAIN runs' \subseteq 1 .. lastId'
    BY <2>1, <1>2, <1>3 DEF RunRows
  <2>3. ASSUME NEW r \in DOMAIN runs'
        PROVE  /\ DOMAIN runs'[r] = {"user", "scope", "target", "status", "created", "finished"}
               /\ runs'[r].user \in Users /\ runs'[r].status \in Statuses
               /\ runs'[r].created \in Int /\ runs'[r].created <= now
               /\ Dated(runs'[r].finished, now)
               /\ runs'[r].status \in ActiveStatuses => runs'[r].finished = Null
               /\ runs'[r].finished # Null => runs'[r].created <= runs'[r].finished
               /\ runs'[r].scope = "wallet" /\ runs'[r].target \in DOMAIN wallets =>
                    wallets[runs'[r].target].user = runs'[r].user
               /\ runs'[r].scope = "group" =>
                    /\ runs'[r].target \in DOMAIN GroupOwner
                    /\ GroupOwner[runs'[r].target] = runs'[r].user
               /\ runs'[r].scope = "failed_chains" =>
                    /\ runs'[r].target \in DOMAIN runs'
                    /\ runs'[runs'[r].target].user = runs'[r].user
    <3>1. CASE r \in DOMAIN runs
      BY <3>1, <1>3, <2>1 DEF RunRows
    <3>2. CASE r = lastId'
      <4>1. runs'[r] = row
        BY <3>2, <1>3
      <4>2. DOMAIN row = {"user", "scope", "target", "status", "created", "finished"}
            /\ row.user = u /\ row.status = "running" /\ row.created = now /\ row.finished = Null
            /\ row.scope = scope /\ row.target = target
        OBVIOUS
      <4> HIDE DEF row
      <4> QED BY <4>1, <4>2, <1>2, <1>3 DEF Statuses, ActiveStatuses, Dated
    <3> QED BY <3>1, <3>2, <1>3
  <2> QED BY <2>2, <2>3 DEF RunRows
<1>5. SnapRows(wallets', runs', snaps', lastId', now')
  <2>1. SnapRows(wallets, runs, snaps, lastId, now)
    BY <1>1 DEF WellFormed
  <2>2. DOMAIN snaps' \subseteq 1 .. lastId'
    BY <2>1, <1>2 DEF SnapRows
  <2>3. \A s \in DOMAIN snaps : snaps[s].run \in DOMAIN runs
    BY <2>1 DEF SnapRows
  <2>4. \A s \in DOMAIN snaps : runs'[snaps[s].run] = runs[snaps[s].run]
    BY <2>3, <1>3
  <2> QED BY <2>1, <2>2, <2>3, <2>4, <1>3 DEF SnapRows
<1>6. Wf'
  <2>1. \A s \in DOMAIN snaps : snaps[s].wallet \in DOMAIN wallets /\ snaps[s].run \in DOMAIN runs
    BY <1>1 DEF WellFormed, SnapRows
  <2>2. AddressRows(wallets', runs', snaps', patches', now')
    BY <1>2, <1>3, <2>1, AddressesStay
  <2> QED BY <1>1, <1>2, <1>4, <1>5, <2>2 DEF WellFormed, Wf
<1>7. RowsStay
  <2>1. \A r \in DOMAIN runs' : r <= lastId => r \in DOMAIN runs
    BY <1>1, <1>2, <1>3 DEF WellFormed, RunRows
  <2> QED BY <1>2, <1>3, <2>1 DEF RowsStay
<1> QED BY <1>6, <1>7

LEMMA PublishWf ==
  ASSUME Wf, NEW r \in DOMAIN runs, NEW w \in DOMAIN wallets, Publish(r, w)
  PROVE  Wf' /\ RowsStay
<1>1. WellFormed(wallets, runs, snaps, legacy, manual, lastId, now)
  BY DEF Wf
<1>2. PICK c \in Contents, key \in AddressesSeen(r, w) :
        snaps' = Assign(snaps, lastId',
                        [wallet |-> w, run |-> r, finished |-> now, key |-> key,
                         status |-> c.status, total |-> c.total, parts |-> c.parts])
  BY DEF Publish
<1> DEFINE row == [wallet |-> w, run |-> r, finished |-> now, key |-> key,
                   status |-> c.status, total |-> c.total, parts |-> c.parts]
<1>3. /\ lastId' = lastId + 1 /\ runs[r].status \in ActiveStatuses /\ w \in WalletsOfRun(r)
      /\ changes' = changes + 1 /\ changes < MaxChanges
      /\ UNCHANGED <<wallets, runs, legacy, manual, now, patches, gone>>
  BY DEF Publish, Change
<1>4. lastId \in Nat /\ now \in Int /\ lastId' \notin DOMAIN snaps
  BY <1>1, <1>3, PortfolioAssumption DEF WellFormed, SnapRows, Wf
<1>5. /\ DOMAIN snaps' = DOMAIN snaps \cup {lastId'}
      /\ snaps'[lastId'] = row
      /\ \A s \in DOMAIN snaps : snaps'[s] = snaps[s]
  <2> HIDE DEF row
  <2>1. snaps' = Assign(snaps, lastId', row)
    BY <1>2 DEF row
  <2> QED BY <2>1, <1>4 DEF Assign
<1>6. /\ row.wallet = w /\ row.run = r /\ row.finished = now /\ row.key = key
      /\ row.status = c.status /\ row.total = c.total /\ row.parts = c.parts
  OBVIOUS
<1> HIDE DEF row
<1>7. SnapRows(wallets', runs', snaps', lastId', now')
  <2>1. SnapRows(wallets, runs, snaps, lastId, now)
    BY <1>1 DEF WellFormed
  <2>2. DOMAIN snaps' \subseteq 1 .. lastId'
    BY <2>1, <1>3, <1>4, <1>5 DEF SnapRows
  <2>3. runs[r].user = wallets[w].user
    BY <1>3 DEF WalletsOfRun, ActiveOf
  <2>4. runs[r].status # "success" /\ now # Null
    BY <1>3, <1>4, PortfolioAssumption DEF ActiveStatuses
  <2>5. Collected(c) => Collected(row)
    BY <1>6 DEF Collected
  <2>6. Collected(c)
    BY PortfolioAssumption
  <2>7. ASSUME NEW s \in DOMAIN snaps'
        PROVE  /\ snaps'[s].wallet \in DOMAIN wallets /\ snaps'[s].run \in DOMAIN runs
               /\ runs[snaps'[s].run].user = wallets[snaps'[s].wallet].user
               /\ Collected(snaps'[s]) /\ Dated(snaps'[s].finished, now)
               /\ snaps'[s].finished # Null =>
                    runs[snaps'[s].run].created <= snaps'[s].finished
               /\ snaps'[s].status \in ReadStatuses =>
                    snaps'[s].finished # Null \/ runs[snaps'[s].run].finished # Null
               /\ runs[snaps'[s].run].status = "success" => snaps'[s].status = "success"
    <3>1. CASE s \in DOMAIN snaps
      BY <3>1, <1>5, <2>1 DEF SnapRows
    <3>2. CASE s = lastId'
      <4>1. runs[r].created <= now
        BY <1>1 DEF WellFormed, RunRows
      <4> QED BY <3>2, <4>1, <1>4, <1>5, <1>6, <2>3, <2>4, <2>5, <2>6 DEF Dated
    <3> QED BY <3>1, <3>2, <1>5
  <2> QED BY <2>2, <2>7, <1>3 DEF SnapRows
<1>8. RunRows(wallets', runs', lastId', now')
  BY <1>1, <1>3, <1>4 DEF WellFormed, RunRows
<1>9. changes' \in 0 .. MaxChanges
  BY <1>3, PortfolioAssumption DEF Wf
<1>a. AddressRows(wallets', runs', snaps', patches', now')
  <2>1. AddressRows(wallets, runs, snaps, patches, now)
    BY DEF Wf
  <2>2. ASSUME NEW s \in DOMAIN snaps', NEW v, v = snaps'[s].wallet,
               runs[snaps'[s].run].created >= wallets[v].addrAt,
               ~ Raced(patches[v], runs[snaps'[s].run].created)
        PROVE  snaps'[s].key = wallets[v].address
    <3>1. CASE s \in DOMAIN snaps
      BY <2>1, <2>2, <3>1, <1>5 DEF AddressRows
    <3>2. CASE s = lastId'
      <4>1. /\ v = w /\ runs[r].created >= wallets[w].addrAt
            /\ ~ Raced(patches[w], runs[r].created) /\ snaps'[s].key = key
        BY <2>2, <3>2, <1>5, <1>6
      <4>2. runs[r].created \in Int /\ wallets[w].addrAt \in Int
        BY <1>1 DEF WellFormed, RunRows, WalletRows
      <4>3. \A p \in patches[w] : p.commit < runs[r].created
        BY <2>1, <4>1, <4>2 DEF AddressRows, Raced
      <4>4. \A p \in patches[w] : ~ (p.commit >= runs[r].created)
        BY <2>1, <4>2, <4>3 DEF AddressRows
      <4> QED BY <4>1, <4>4 DEF AddressesSeen
    <3> QED BY <3>1, <3>2, <1>5
  <2> QED BY <2>1, <2>2, <1>3 DEF AddressRows
<1>10. Wf'
  BY <1>1, <1>3, <1>4, <1>7, <1>8, <1>9, <1>a DEF WellFormed, Wf
<1>11. RowsStay
  <2>1. \A s \in DOMAIN snaps' : s <= lastId => s \in DOMAIN snaps
    BY <1>3, <1>4, <1>5
  <2> QED BY <1>3, <1>4, <1>5, <2>1 DEF RowsStay
<1> QED BY <1>10, <1>11

LEMMA EndRunWf ==
  ASSUME Wf, NEW r \in DOMAIN runs, EndRun(r)
  PROVE  Wf' /\ RowsStay
<1>1. WellFormed(wallets, runs, snaps, legacy, manual, lastId, now)
  BY DEF Wf
<1>2. /\ changes' = changes + 1 /\ changes < MaxChanges /\ runs[r].status \in ActiveStatuses
      /\ UNCHANGED <<lastId, wallets, snaps, legacy, manual, now, patches, gone>>
  BY DEF EndRun, Change
<1> DEFINE status == IF StatusesOf(r) = {"success"} THEN "success"
                     ELSE IF StatusesOf(r) \subseteq {"failed"} THEN "failed"
                     ELSE "partial_success"
           change == [finished |-> now, status |-> status]
<1>3. /\ DOMAIN runs' = DOMAIN runs
      /\ \A x \in DOMAIN runs : x # r => runs'[x] = runs[x]
      /\ runs'[r] = With(change, runs[r])
  <2>1. runs' = Assign(runs, r, With(change, runs[r]))
    BY DEF EndRun
  <2> HIDE DEF change
  <2> QED BY <2>1 DEF Assign
<1>4. RunRows(wallets, runs, lastId, now) /\ now \in Int
  BY <1>1, PortfolioAssumption DEF WellFormed, Wf
<1>5. /\ DOMAIN runs'[r] = DOMAIN runs[r]
      /\ runs'[r].user = runs[r].user /\ runs'[r].scope = runs[r].scope
      /\ runs'[r].target = runs[r].target /\ runs'[r].created = runs[r].created
      /\ runs'[r].finished = now
      /\ runs'[r].status = status
  <2>1. DOMAIN change = {"finished", "status"} /\ change.finished = now /\ change.status = status
    OBVIOUS
  <2> HIDE DEF change, status
  <2> QED BY <1>3, <1>4, <2>1 DEF With, RunRows
<1>6. RunRows(wallets', runs', lastId', now')
  <2>1. \A x \in DOMAIN runs' : runs'[x].user = runs[x].user
    BY <1>3, <1>5
  <2>2. runs'[r].status \in Statuses /\ runs'[r].status \notin ActiveStatuses
    BY <1>5 DEF Statuses, ActiveStatuses
  <2>3. \A x \in DOMAIN runs' :
          /\ DOMAIN runs'[x] = DOMAIN runs[x] /\ runs'[x].scope = runs[x].scope /\ runs'[x].target = runs[x].target
          /\ runs'[x].created = runs[x].created
    BY <1>3, <1>5
  <2>4. \A x \in DOMAIN runs' :
          /\ runs'[x].status \in Statuses
          /\ Dated(runs'[x].finished, now)
          /\ runs'[x].status \in ActiveStatuses => runs'[x].finished = Null
          /\ runs'[x].finished # Null => runs'[x].created <= runs'[x].finished
    BY <1>3, <1>4, <1>5, <2>2 DEF RunRows, Dated
  <2> QED BY <1>2, <1>3, <1>4, <2>1, <2>3, <2>4 DEF RunRows
<1>7. SnapRows(wallets', runs', snaps', lastId', now')
  <2>1. SnapRows(wallets, runs, snaps, lastId, now)
    BY <1>1 DEF WellFormed
  <2>2. ASSUME NEW s \in DOMAIN snaps
        PROVE  /\ runs'[snaps[s].run].user = runs[snaps[s].run].user
               /\ runs'[snaps[s].run].created = runs[snaps[s].run].created
               /\ snaps[s].status \in ReadStatuses =>
                    snaps[s].finished # Null \/ runs'[snaps[s].run].finished # Null
               /\ runs'[snaps[s].run].status = "success" => snaps[s].status = "success"
    <3>1. CASE snaps[s].run = r
      <4>1. snaps[s].status \in StatusesOf(r)
        BY <3>1 DEF StatusesOf
      <4>2. now # Null
        BY <1>4, PortfolioAssumption
      <4> QED BY <3>1, <4>1, <4>2, <1>5
    <3>2. CASE snaps[s].run # r
      BY <3>2, <1>3, <2>1 DEF SnapRows
    <3> QED BY <3>1, <3>2
  <2> QED BY <1>2, <1>3, <2>1, <2>2 DEF SnapRows
<1>8. changes' \in 0 .. MaxChanges
  BY <1>2, PortfolioAssumption DEF Wf
<1>9. Wf'
  <2>1. \A s \in DOMAIN snaps : snaps[s].wallet \in DOMAIN wallets /\ snaps[s].run \in DOMAIN runs
    BY <1>1 DEF WellFormed, SnapRows
  <2>2. \A x \in DOMAIN runs : runs'[x].created = runs[x].created
    BY <1>3, <1>5
  <2>3. AddressRows(wallets', runs', snaps', patches', now')
    BY <1>2, <1>4, <2>1, <2>2, AddressesStay
  <2> QED BY <1>1, <1>2, <1>6, <1>7, <1>8, <2>3 DEF WellFormed, Wf
<1>10. RowsStay
  <2>1. \A x \in DOMAIN runs' : runs'[x].user = runs[x].user /\ runs'[x].created = runs[x].created
    BY <1>3, <1>5
  <2>2. \A x \in DOMAIN runs' : runs[x].status \notin ActiveStatuses => runs'[x] = runs[x]
    BY <1>2, <1>3
  <2>3. lastId \in Nat
    BY <1>1 DEF WellFormed
  <2> QED BY <1>2, <1>3, <2>1, <2>2, <2>3 DEF RowsStay
<1> QED BY <1>9, <1>10

(* A change of wallets that keeps their owners.                             *)
LEMMA WalletsChanged ==
  ASSUME Wf, DOMAIN wallets' = DOMAIN wallets,
         \A w \in DOMAIN wallets : wallets'[w].user = wallets[w].user,
         WalletRows(wallets', now), UNCHANGED <<runs, snaps, legacy, manual, lastId, now>>
  PROVE  WellFormed(wallets', runs', snaps', legacy', manual', lastId', now')
<1>1. WellFormed(wallets, runs, snaps, legacy, manual, lastId, now)
  BY DEF Wf
<1>2. RunRows(wallets', runs', lastId', now')
  BY <1>1 DEF WellFormed, RunRows
<1>3. SnapRows(wallets', runs', snaps', lastId', now')
  BY <1>1 DEF WellFormed, SnapRows
<1>4. OtherRows(wallets', legacy', manual', now')
  BY <1>1 DEF WellFormed, OtherRows
<1> QED BY <1>1, <1>2, <1>3, <1>4 DEF WellFormed

LEMMA PatchAddressWf ==
  ASSUME Wf, NEW w \in DOMAIN wallets, NEW a, PatchAddress(w, a)
  PROVE  Wf' /\ RowsStay
<1>1. PICK stamp \in now - MaxOpen .. now :
        /\ wallets' = Assign(wallets, w, With([address |-> a, addrAt |-> stamp], wallets[w]))
        /\ patches' = [patches EXCEPT ![w] =
             @ \cup {[from |-> wallets[w].address, stamp |-> stamp, commit |-> now]}]
  BY DEF PatchAddress
<1>2. /\ changes' = changes + 1 /\ changes < MaxChanges
      /\ UNCHANGED <<lastId, runs, snaps, legacy, manual, now, gone>>
  BY DEF PatchAddress, Change
<1>3. /\ WalletRows(wallets, now) /\ now \in Int /\ lastId \in Nat
      /\ stamp \in Int /\ stamp <= now
  BY PortfolioAssumption DEF Wf, WellFormed
<1> DEFINE change == [address |-> a, addrAt |-> stamp]
           patch == [from |-> wallets[w].address, stamp |-> stamp, commit |-> now]
<1>4. /\ DOMAIN wallets' = DOMAIN wallets
      /\ \A v \in DOMAIN wallets : v # w => wallets'[v] = wallets[v]
      /\ wallets'[w] = With(change, wallets[w])
  <2>1. wallets' = Assign(wallets, w, With(change, wallets[w]))
    BY <1>1
  <2> HIDE DEF change
  <2> QED BY <2>1 DEF Assign
<1>5. /\ DOMAIN wallets'[w] = DOMAIN wallets[w]
      /\ wallets'[w].user = wallets[w].user /\ wallets'[w].group = wallets[w].group
      /\ wallets'[w].addrAt = stamp
  <2>1. DOMAIN change = {"address", "addrAt"} /\ change.addrAt = stamp
    OBVIOUS
  <2> HIDE DEF change
  <2> QED BY <1>3, <1>4, <2>1 DEF With, WalletRows
<1>6. \A v \in DOMAIN wallets : wallets'[v].user = wallets[v].user
  BY <1>4, <1>5
<1>7. WalletRows(wallets', now)
  BY <1>3, <1>4, <1>5 DEF WalletRows
<1>8. WellFormed(wallets', runs', snaps', legacy', manual', lastId', now')
  BY <1>2, <1>4, <1>6, <1>7, WalletsChanged
<1>9. patch.stamp = stamp /\ patch.commit = now
  OBVIOUS
<1>10. /\ DOMAIN patches' = DOMAIN patches
       /\ patches'[w] = patches[w] \cup {patch}
       /\ \A v \in DOMAIN wallets : v # w => patches'[v] = patches[v]
  <2>1. w \in DOMAIN patches /\ DOMAIN wallets \subseteq DOMAIN patches
    BY DEF Wf, AddressRows
  <2>2. patches' = [patches EXCEPT ![w] = @ \cup {patch}]
    BY <1>1
  <2> HIDE DEF patch
  <2> QED BY <2>1, <2>2
<1> HIDE DEF change, patch
<1>11. AddressRows(wallets', runs', snaps', patches', now')
  <2>1. AddressRows(wallets, runs, snaps, patches, now)
    BY DEF Wf
  <2>2. /\ \A p \in patches'[w] : p.stamp \in Int /\ p.commit \in Int /\ p.commit <= now
        /\ \E q \in patches'[w] : /\ q.stamp = wallets'[w].addrAt
                                 /\ \A p \in patches'[w] : p.commit <= q.commit
    BY <2>1, <1>3, <1>5, <1>9, <1>10 DEF AddressRows
  <2>3. ASSUME NEW s \in DOMAIN snaps, snaps[s].wallet = w,
               runs[snaps[s].run].created >= wallets'[w].addrAt
        PROVE  Raced(patches'[w], runs[snaps[s].run].created)
    <3>1. runs[snaps[s].run].created \in Int /\ runs[snaps[s].run].created <= now
      BY DEF Wf, WellFormed, SnapRows, RunRows
    <3> QED BY <2>3, <3>1, <1>3, <1>5, <1>9, <1>10 DEF Raced
  <2>4. \A s \in DOMAIN snaps : snaps[s].wallet \in DOMAIN wallets
    BY DEF Wf, WellFormed, SnapRows
  <2>5. \A v \in DOMAIN wallets \ {w} :
          /\ \A p \in patches'[v] : p.stamp \in Int /\ p.commit \in Int /\ p.commit <= now
          /\ patches'[v] # {} =>
               \E q \in patches'[v] : /\ q.stamp = wallets'[v].addrAt
                                    /\ \A p \in patches'[v] : p.commit <= q.commit
    BY <2>1, <1>4, <1>10 DEF AddressRows
  <2>6. ASSUME NEW s \in DOMAIN snaps, NEW v, v = snaps[s].wallet, v # w,
               runs[snaps[s].run].created >= wallets'[v].addrAt,
               ~ Raced(patches'[v], runs[snaps[s].run].created)
        PROVE  snaps[s].key = wallets'[v].address
    BY <2>1, <2>4, <2>6, <1>4, <1>10 DEF AddressRows
  <2>7. DOMAIN wallets' \subseteq DOMAIN patches'
    BY <2>1, <1>4, <1>10 DEF AddressRows
  <2> QED BY <2>2, <2>3, <2>5, <2>6, <2>7, <1>2, <1>4 DEF AddressRows
<1>12. changes' \in 0 .. MaxChanges
  BY <1>2, PortfolioAssumption DEF Wf
<1>13. Wf'
  BY <1>2, <1>8, <1>11, <1>12 DEF Wf
<1>14. RowsStay
  <2>1. ASSUME NEW v \in DOMAIN wallets
        PROVE  /\ patches[v] \subseteq patches'[v]
               /\ wallets'[v].address # wallets[v].address => \E p \in patches'[v] : p.commit = now
    BY <1>4, <1>9, <1>10
  <2> QED BY <2>1, <1>2, <1>3, <1>4, <1>6 DEF RowsStay
<1> QED BY <1>13, <1>14

LEMMA DeactivateWf ==
  ASSUME Wf, NEW w \in DOMAIN wallets, Deactivate(w)
  PROVE  Wf' /\ RowsStay
<1>1. /\ changes' = changes + 1 /\ changes < MaxChanges
      /\ UNCHANGED <<lastId, runs, snaps, legacy, manual, now, patches, gone>>
  BY DEF Deactivate, Change
<1>2. WalletRows(wallets, now) /\ now \in Int /\ lastId \in Nat
  BY PortfolioAssumption DEF Wf, WellFormed
<1> DEFINE change == [active |-> FALSE]
<1>3. /\ DOMAIN wallets' = DOMAIN wallets
      /\ \A v \in DOMAIN wallets : v # w => wallets'[v] = wallets[v]
      /\ wallets'[w] = With(change, wallets[w])
  <2>1. wallets' = Assign(wallets, w, With(change, wallets[w]))
    BY DEF Deactivate
  <2> HIDE DEF change
  <2> QED BY <2>1 DEF Assign
<1>4. /\ DOMAIN wallets'[w] = DOMAIN wallets[w]
      /\ wallets'[w].user = wallets[w].user /\ wallets'[w].group = wallets[w].group
      /\ wallets'[w].addrAt = wallets[w].addrAt /\ wallets'[w].address = wallets[w].address
  <2>1. DOMAIN change = {"active"}
    OBVIOUS
  <2> HIDE DEF change
  <2> QED BY <1>2, <1>3, <2>1 DEF With, WalletRows
<1>5. \A v \in DOMAIN wallets :
        /\ wallets'[v].user = wallets[v].user /\ wallets'[v].addrAt = wallets[v].addrAt
        /\ wallets'[v].address = wallets[v].address
  BY <1>3, <1>4
<1>6. WalletRows(wallets', now)
  BY <1>2, <1>3, <1>4 DEF WalletRows
<1>7. WellFormed(wallets', runs', snaps', legacy', manual', lastId', now')
  BY <1>1, <1>3, <1>5, <1>6, WalletsChanged
<1>8. changes' \in 0 .. MaxChanges
  BY <1>1, PortfolioAssumption DEF Wf
<1>9. Wf'
  <2>1. \A s \in DOMAIN snaps : snaps[s].wallet \in DOMAIN wallets
    BY DEF Wf, WellFormed, SnapRows
  <2>2. AddressRows(wallets', runs', snaps', patches', now')
    BY <1>1, <1>2, <1>3, <1>5, <2>1, AddressesStay
  <2> QED BY <1>1, <1>7, <1>8, <2>2 DEF Wf
<1>10. RowsStay
  BY <1>1, <1>2, <1>3, <1>5 DEF RowsStay
<1> QED BY <1>9, <1>10

LEMMA WriteManualWf ==
  ASSUME Wf, NEW w \in DOMAIN wallets, NEW b \in Books, WriteManual(w, b)
  PROVE  Wf' /\ RowsStay
<1>1. /\ changes' = changes + 1 /\ changes < MaxChanges
      /\ UNCHANGED <<lastId, wallets, runs, snaps, legacy, now, patches, gone>>
      /\ manual' = Assign(manual, w, b)
  BY DEF WriteManual, Change
<1>2. WellFormed(wallets, runs, snaps, legacy, manual, lastId, now)
  BY DEF Wf
<1>3. OtherRows(wallets', legacy', manual', now')
  BY <1>1, <1>2, PortfolioAssumption DEF WellFormed, OtherRows, Assign
<1>4. changes' \in 0 .. MaxChanges
  BY <1>1, PortfolioAssumption DEF Wf
<1>5. Wf'
  <2>1. AddressRows(wallets', runs', snaps', patches', now')
    BY <1>1 DEF Wf
  <2> QED BY <1>1, <1>2, <1>3, <1>4, <2>1 DEF Wf, WellFormed
<1>6. RowsStay
  BY <1>1, <1>2 DEF RowsStay, WellFormed
<1> QED BY <1>5, <1>6

(* The merge takes whole rows away, with every row that refers to them.     *)
LEMMA DeleteUserWf ==
  ASSUME Wf, DeleteUser
  PROVE  Wf' /\ RowsStay
<1> DEFINE mine == {w \in DOMAIN wallets : wallets[w].user = Me}
<1>1. /\ changes' = changes + 1 /\ changes < MaxChanges /\ gone' = TRUE
      /\ UNCHANGED <<now, lastId, patches>>
  BY DEF DeleteUser, Change
<1>2. WellFormed(wallets, runs, snaps, legacy, manual, lastId, now)
  BY DEF Wf
<1>3. /\ DOMAIN wallets' = DOMAIN wallets \ mine
      /\ \A w \in DOMAIN wallets' : wallets'[w] = wallets[w]
  BY DEF DeleteUser, Keep
<1>4. /\ DOMAIN runs' = {r \in DOMAIN runs : runs[r].user # Me}
      /\ \A r \in DOMAIN runs' : runs'[r] = runs[r]
  BY DEF DeleteUser, Keep
<1>5. /\ DOMAIN snaps' = {s \in DOMAIN snaps : snaps[s].wallet \notin mine}
      /\ \A s \in DOMAIN snaps' : snaps'[s] = snaps[s]
  BY DEF DeleteUser, Keep
<1>6. /\ DOMAIN legacy' = {l \in DOMAIN legacy : legacy[l].wallet \notin mine}
      /\ \A l \in DOMAIN legacy' : legacy'[l] = legacy[l]
  BY DEF DeleteUser, Keep
<1>7. /\ DOMAIN manual' = DOMAIN manual \ mine
      /\ \A w \in DOMAIN manual' : manual'[w] = manual[w]
  BY DEF DeleteUser, Keep
<1>8. WalletRows(wallets', now')
  BY <1>1, <1>2, <1>3, FS_Subset DEF WellFormed, WalletRows
<1>9. RunRows(wallets', runs', lastId', now')
  <2>1. RunRows(wallets, runs, lastId, now)
    BY <1>2 DEF WellFormed
  <2>2. DOMAIN runs' \subseteq 1 .. lastId'
    BY <2>1, <1>1, <1>4 DEF RunRows
  <2>3. ASSUME NEW r \in DOMAIN runs', runs[r].scope = "failed_chains"
        PROVE  runs[r].target \in DOMAIN runs' /\ runs'[runs[r].target].user = runs[r].user
    BY <2>1, <2>3, <1>4 DEF RunRows
  <2> QED BY <2>1, <2>2, <2>3, <1>1, <1>3, <1>4 DEF RunRows
<1>10. SnapRows(wallets', runs', snaps', lastId', now')
  <2>1. SnapRows(wallets, runs, snaps, lastId, now)
    BY <1>2 DEF WellFormed
  <2>2. DOMAIN snaps' \subseteq 1 .. lastId'
    BY <2>1, <1>1, <1>5 DEF SnapRows
  <2>3. ASSUME NEW s \in DOMAIN snaps'
        PROVE  snaps[s].wallet \in DOMAIN wallets' /\ snaps[s].run \in DOMAIN runs'
    BY <2>1, <1>3, <1>4, <1>5 DEF SnapRows
  <2> QED BY <2>1, <2>2, <2>3, <1>1, <1>3, <1>4, <1>5 DEF SnapRows
<1>11. OtherRows(wallets', legacy', manual', now')
  <2>1. OtherRows(wallets, legacy, manual, now)
    BY <1>2 DEF WellFormed
  <2>2. IsFiniteSet(DOMAIN legacy')
    BY <2>1, <1>6, FS_Subset DEF OtherRows
  <2> QED BY <2>1, <2>2, <1>1, <1>3, <1>6, <1>7 DEF OtherRows
<1>12. changes' \in 0 .. MaxChanges
  BY <1>1, PortfolioAssumption DEF Wf
<1>13. Wf'
  <2>1. \A s \in DOMAIN snaps : snaps[s].run \in DOMAIN runs /\ snaps[s].wallet \in DOMAIN wallets
    BY <1>2 DEF WellFormed, SnapRows
  <2>2. \A s \in DOMAIN snaps' : snaps[s].run \in DOMAIN runs' /\ snaps[s].wallet \in DOMAIN wallets'
    BY <1>5, <1>10 DEF SnapRows
  <2>3. AddressRows(wallets', runs', snaps', patches', now')
    BY <1>1, <1>3, <1>4, <1>5, <2>2, PortfolioAssumption, AddressesStay DEF Wf
  <2> QED BY <1>1, <1>2, <1>3, <1>8, <1>9, <1>10, <1>11, <1>12, <2>3 DEF Wf, WellFormed
<1>14. RowsStay
  <2>1. lastId \in Nat
    BY <1>2 DEF WellFormed
  <2>2. \A w \in DOMAIN wallets' : patches'[w] = patches[w]
    BY <1>1
  <2> QED BY <2>1, <2>2, <1>1, <1>3, <1>4, <1>5 DEF RowsStay
<1> QED BY <1>13, <1>14

LEMMA TickWf ==
  ASSUME Wf, Tick
  PROVE  Wf' /\ RowsStay
<1>1. /\ now' = now + 1 /\ now < MaxNow
      /\ UNCHANGED <<wallets, runs, snaps, legacy, manual, lastId, changes, patches, gone>>
  BY DEF Tick, tables
<1>2. WellFormed(wallets, runs, snaps, legacy, manual, lastId, now) /\ now \in Int
  BY PortfolioAssumption DEF Wf
<1>3. ASSUME NEW x, Dated(x, now) PROVE Dated(x, now')
  BY <1>1, <1>2, <1>3 DEF Dated
<1>4. WalletRows(wallets', now')
  BY <1>1, <1>2 DEF WellFormed, WalletRows
<1>5. RunRows(wallets', runs', lastId', now')
  BY <1>1, <1>2, <1>3 DEF WellFormed, RunRows
<1>6. SnapRows(wallets', runs', snaps', lastId', now')
  BY <1>1, <1>2, <1>3 DEF WellFormed, SnapRows
<1>7. OtherRows(wallets', legacy', manual', now')
  BY <1>1, <1>2 DEF WellFormed, OtherRows
<1>8. Wf'
  <2>1. \A s \in DOMAIN snaps : snaps[s].wallet \in DOMAIN wallets
    BY <1>2 DEF WellFormed, SnapRows
  <2>2. AddressRows(wallets', runs', snaps', patches', now')
    BY <1>1, <1>2, <2>1, AddressesStay
  <2> QED BY <1>1, <1>2, <1>4, <1>5, <1>6, <1>7, <2>2, PortfolioAssumption DEF Wf, WellFormed
<1>9. RowsStay
  BY <1>1, <1>2 DEF RowsStay, WellFormed
<1> QED BY <1>8, <1>9

LEMMA StartRunWf ==
  ASSUME Wf, NEW u \in Users, StartRun(u)
  PROVE  Wf' /\ RowsStay
<1>1. /\ InsertRun(u, "all", Null)
      /\ changes' = changes + 1 /\ changes < MaxChanges
      /\ UNCHANGED <<wallets, snaps, legacy, manual, now, patches, gone>>
  BY DEF StartRun, Change
<1>2. changes' \in 0 .. MaxChanges
  BY <1>1, PortfolioAssumption DEF Wf
<1> QED BY <1>1, <1>2, InsertedRun

LEMMA EnvironmentWf ==
  ASSUME Wf, Environment
  PROVE  Wf' /\ RowsStay /\ UNCHANGED <<req, offer>>
<1>1. CASE \E u \in Users : StartRun(u)
  BY <1>1, StartRunWf DEF StartRun, Change
<1>2. CASE \E r \in DOMAIN runs, w \in DOMAIN wallets : Publish(r, w)
  BY <1>2, PublishWf DEF Publish, Change
<1>3. CASE \E r \in DOMAIN runs : EndRun(r)
  BY <1>3, EndRunWf DEF EndRun, Change
<1>4. CASE \E w \in DOMAIN wallets, a \in Addresses : PatchAddress(w, a)
  BY <1>4, PatchAddressWf DEF PatchAddress, Change
<1>5. CASE \E w \in DOMAIN wallets : Deactivate(w)
  BY <1>5, DeactivateWf DEF Deactivate, Change
<1>6. CASE \E w \in DOMAIN wallets, b \in Books : WriteManual(w, b)
  BY <1>6, WriteManualWf DEF WriteManual, Change
<1>7. CASE DeleteUser
  BY <1>7, DeleteUserWf DEF DeleteUser, Change
<1>8. CASE Tick
  BY <1>8, TickWf DEF Tick
<1> QED BY <1>1, <1>2, <1>3, <1>4, <1>5, <1>6, <1>7, <1>8 DEF Environment

------------------------------------------------------------------------------
(* What a request knows it goes on knowing while the rows stay              *)

Same(K) == \A k \in K : k \in DOMAIN req /\ k \in DOMAIN req' /\ req'[k] = req[k]

(* A snapshot once read is never changed, nor is the date of one that can   *)
(* be read: it has a time of its own or its run has ended.                  *)
LEMMA SnapStays ==
  ASSUME Wf, Wf', RowsStay, NEW s \in DOMAIN snaps', s <= lastId
  PROVE  /\ s \in DOMAIN snaps /\ snaps'[s] = snaps[s]
         /\ CreatedAt(s)' = CreatedAt(s)
         /\ snaps[s].status \in ReadStatuses => Observed(s)' = Observed(s)
         /\ BalancesOf({s})' = BalancesOf({s})
<1>1. s \in DOMAIN snaps /\ snaps'[s] = snaps[s]
  BY DEF RowsStay
<1> DEFINE r == snaps[s].run
<1>2. /\ r \in DOMAIN runs /\ r \in DOMAIN runs' /\ r <= lastId
      /\ snaps[s].status \in ReadStatuses =>
           snaps[s].finished # Null \/ runs[r].finished # Null
      /\ runs[r].status \in ActiveStatuses => runs[r].finished = Null
  BY <1>1 DEF Wf, WellFormed, SnapRows, RunRows
<1>3. /\ runs'[r].created = runs[r].created
      /\ runs[r].finished # Null => runs'[r] = runs[r]
  BY <1>2 DEF RowsStay
<1>4. CreatedAt(s)' = CreatedAt(s)
  BY <1>1, <1>3 DEF CreatedAt
<1>5. ASSUME snaps[s].status \in ReadStatuses PROVE Observed(s)' = Observed(s)
  BY <1>1, <1>2, <1>3, <1>5 DEF Observed, Coalesce
<1>6. PartsOf({s})' = PartsOf({s})
  BY <1>1 DEF PartsOf
<1>7. BalancesOf({s})' = BalancesOf({s})
  BY <1>6 DEF BalancesOf
<1> QED BY <1>1, <1>4, <1>5, <1>7

LEMMA AllStay ==
  ASSUME Wf, Wf', RowsStay, NEW S, S \subseteq 1 .. lastId
  PROVE  /\ AllDone(S) => AllDone(S)'
         /\ AllPriced(S) => AllPriced(S)'
<1>1. lastId \in Nat
  BY DEF Wf, WellFormed
<1>2. ASSUME NEW s \in S \cap DOMAIN snaps'
      PROVE  /\ s \in DOMAIN snaps /\ snaps'[s] = snaps[s]
             /\ BalancesOf({s})' = BalancesOf({s})
  <2>1. s <= lastId
    BY <1>1
  <2> QED BY <2>1, SnapStays
<1>3. AllDone(S) => AllDone(S)'
  BY <1>2 DEF AllDone
<1>4. AllPriced(S) => AllPriced(S)'
  BY <1>2 DEF AllPriced
<1> QED BY <1>3, <1>4

(* The rows of unfinished chains among snapshots ss, and the chains of a run *)
(* that failed.                                                             *)
PartsAmong(ss, S) == UNION {{<<s, p>> : p \in ss[s].parts} : s \in S \cap DOMAIN ss}
UnfinishedAmong(ss, S) ==
  {<<x[1], [chain |-> x[2].chain, status |-> x[2].status, run |-> ss[x[1]].run]>>
     : x \in {y \in PartsAmong(ss, S) : y[2].status # "success"}}
FailedAmong(ss, j) ==
  {x[2].chain : x \in {y \in UnfinishedAmong(ss, {s \in DOMAIN ss : ss[s].run = j}) :
                         y[2].status = "failed"}}

LEMMA PartAmong ==
  ASSUME NEW ss, NEW S, NEW x
  PROVE  x \in PartsAmong(ss, S) <=>
           \E s \in S \cap DOMAIN ss : \E p \in ss[s].parts : x = <<s, p>>
BY DEF PartsAmong

LEMMA OneUnfinished ==
  ASSUME NEW ss, NEW S, NEW x
  PROVE  x \in UnfinishedAmong(ss, S) <=>
           \E s \in S \cap DOMAIN ss : \E p \in ss[s].parts :
             /\ p.status # "success"
             /\ x = <<s, [chain |-> p.chain, status |-> p.status, run |-> ss[s].run]>>
<1> DEFINE Row(y) == <<y[1], [chain |-> y[2].chain, status |-> y[2].status,
                              run |-> ss[y[1]].run]>>
<1>1. x \in UnfinishedAmong(ss, S) <=>
        \E y \in PartsAmong(ss, S) : y[2].status # "success" /\ x = Row(y)
  BY DEF UnfinishedAmong
<1>2. ASSUME NEW y \in PartsAmong(ss, S), y[2].status # "success", x = Row(y)
      PROVE  \E s \in S \cap DOMAIN ss : \E p \in ss[s].parts :
               /\ p.status # "success"
               /\ x = <<s, [chain |-> p.chain, status |-> p.status, run |-> ss[s].run]>>
  <2>1. PICK s \in S \cap DOMAIN ss : \E p \in ss[s].parts : y = <<s, p>>
    BY <1>2, PartAmong
  <2>2. PICK p \in ss[s].parts : y = <<s, p>>
    BY <2>1
  <2>3. y[1] = s /\ y[2] = p
    BY <2>2
  <2> QED BY <1>2, <2>3
<1>3. ASSUME NEW s \in S \cap DOMAIN ss, NEW p \in ss[s].parts, p.status # "success",
             x = <<s, [chain |-> p.chain, status |-> p.status, run |-> ss[s].run]>>
      PROVE  \E y \in PartsAmong(ss, S) : y[2].status # "success" /\ x = Row(y)
  <2> DEFINE y == <<s, p>>
  <2>1. y \in PartsAmong(ss, S)
    BY PartAmong
  <2>2. y[1] = s /\ y[2] = p
    OBVIOUS
  <2>3. x = Row(y)
    BY <1>3, <2>2
  <2> HIDE DEF y, Row
  <2> QED BY <1>3, <2>1, <2>2, <2>3
<1> QED
  <2> HIDE DEF Row
  <2> QED BY <1>1, <1>2, <1>3

LEMMA FailedChain ==
  ASSUME NEW ss, NEW j
  PROVE  FailedAmong(ss, j) # {} <=>
           \E s \in DOMAIN ss :
             ss[s].run = j /\ \E p \in ss[s].parts : p.status = "failed"
<1> DEFINE S == {t \in DOMAIN ss : ss[t].run = j}
<1>1. FailedAmong(ss, j) # {} <=> \E x \in UnfinishedAmong(ss, S) : x[2].status = "failed"
  BY DEF FailedAmong
<1>2. ASSUME NEW x \in UnfinishedAmong(ss, S), x[2].status = "failed"
      PROVE  \E s \in S : \E p \in ss[s].parts : p.status = "failed"
  <2>1. PICK s \in S \cap DOMAIN ss : \E p \in ss[s].parts :
          /\ p.status # "success"
          /\ x = <<s, [chain |-> p.chain, status |-> p.status, run |-> ss[s].run]>>
    BY OneUnfinished
  <2>2. PICK p \in ss[s].parts :
          x = <<s, [chain |-> p.chain, status |-> p.status, run |-> ss[s].run]>>
    BY <2>1
  <2>3. x[2].status = p.status
    BY <2>2
  <2> QED BY <1>2, <2>3
<1>3. ASSUME NEW s \in S, NEW p \in ss[s].parts, p.status = "failed"
      PROVE  \E x \in UnfinishedAmong(ss, S) : x[2].status = "failed"
  <2> DEFINE x == <<s, [chain |-> p.chain, status |-> p.status, run |-> ss[s].run]>>
  <2>1. x \in UnfinishedAmong(ss, S)
    BY <1>3, OneUnfinished
  <2>2. x[2].status = p.status
    OBVIOUS
  <2> HIDE DEF x
  <2> QED BY <1>3, <2>1, <2>2
<1> QED BY <1>1, <1>2, <1>3

LEMMA RetryableStays ==
  ASSUME Wf, Wf', RowsStay, NEW j, Retryable(j)
  PROVE  Retryable(j)'
<1> SUFFICES ASSUME ~ gone' PROVE (OwnRun(j) /\ FailedChains(j) # {})'
  BY DEF Retryable
<1>1. ~ gone /\ lastId \in Nat /\ j \in Nat
  BY DEF RowsStay, Wf, WellFormed, Retryable
<1>2. OwnRun(j) /\ FailedChains(j) # {}
  BY <1>1 DEF Retryable
<1>3. OwnRun(j)'
  BY <1>1, <1>2 DEF RowsStay, OwnRun, Wf, WellFormed, RunRows
<1>4. PICK s \in DOMAIN snaps :
        snaps[s].run = j /\ \E p \in snaps[s].parts : p.status = "failed"
  <2>1. FailedChains(j) = FailedAmong(snaps, j)
    BY DEF FailedChains, Unfinished, PartsOf, FailedAmong, UnfinishedAmong, PartsAmong
  <2> QED BY <1>2, <2>1, FailedChain
<1>5. s \in DOMAIN snaps' /\ snaps'[s] = snaps[s]
  BY <1>4 DEF RowsStay, Wf, WellFormed, SnapRows
<1>6. PICK p \in snaps'[s].parts : p.status = "failed"
  BY <1>4, <1>5
<1>7. FailedChains(j)' # {}
  <2>1. FailedChains(j)' = FailedAmong(snaps', j)
    BY DEF FailedChains, Unfinished, PartsOf, FailedAmong, UnfinishedAmong, PartsAmong
  <2>2. snaps'[s].run = j
    BY <1>4, <1>5
  <2> QED BY <1>5, <1>6, <2>1, <2>2, FailedChain
<1> QED BY <1>3, <1>7

LEMMA WalletsStay ==
  ASSUME RowsStay, WalletsKnown, Same({"wallets", "rows"})
  PROVE  WalletsKnown'
BY DEF RowsStay, WalletsKnown, Same

LEMMA ObservedInt ==
  ASSUME Wf, NEW s \in DOMAIN snaps
  PROVE  Observed(s) \in Int /\ Observed(s) <= now /\ now \in Int
<1>1. /\ snaps[s].run \in DOMAIN runs
      /\ Dated(snaps[s].finished, now) /\ Dated(runs[snaps[s].run].finished, now)
      /\ runs[snaps[s].run].created \in Int /\ runs[snaps[s].run].created <= now
      /\ now \in Int
  BY PortfolioAssumption DEF Wf, WellFormed, SnapRows, RunRows
<1> QED BY <1>1 DEF Observed, Coalesce, Dated

(* A snapshot that raced a PATCH raced it for good ...                      *)
LEMMA RacesStay ==
  ASSUME Wf, Wf', RowsStay, NEW w \in DOMAIN wallets', NEW s \in DOMAIN snaps', s <= lastId,
         Races(w, s)
  PROVE  Races(w, s)'
<1>1. CreatedAt(s)' = CreatedAt(s)
  BY SnapStays
<1>2. patches[w] \subseteq patches'[w]
  BY DEF RowsStay
<1> QED BY <1>1, <1>2 DEF Races, Raced

(* ... and a change of address after a statement read the snapshot is later *)
(* than what the snapshot saw.                                              *)
LEMMA ExplainedStays ==
  ASSUME Wf, Wf', RowsStay, NEW w, NEW s \in DOMAIN snaps', s <= lastId,
         snaps[s].wallet = w, snaps[s].status \in ReadStatuses, Explained(w, s)
  PROVE  Explained(w, s)'
<1>1. /\ s \in DOMAIN snaps /\ snaps'[s] = snaps[s] /\ Observed(s)' = Observed(s)
  BY SnapStays
<1>2. w \in DOMAIN wallets'
  BY <1>1 DEF Wf, WellFormed, SnapRows
<1>3. patches[w] \subseteq patches'[w]
  BY <1>2 DEF RowsStay
<1>4. Observed(s) <= now
  BY <1>1, ObservedInt
<1>5. CASE snaps[s].key = wallets[w].address
  BY <1>1, <1>2, <1>4, <1>5 DEF RowsStay, Explained
<1>6. CASE Races(w, s)
  BY <1>2, <1>6, RacesStay DEF Explained
<1>7. CASE \E p \in patches[w] : Observed(s) <= p.commit
  BY <1>1, <1>3, <1>7 DEF Explained
<1> QED BY <1>5, <1>6, <1>7 DEF Explained

LEMMA LatestStay ==
  ASSUME Wf, Wf', RowsStay, LatestKnown, Same({"wallets", "latest"})
  PROVE  LatestKnown' /\ Chosen' = Chosen /\ Chosen \subseteq 1 .. lastId
<1>1. req'.wallets = req.wallets /\ req'.latest = req.latest /\ "latest" \in DOMAIN req'
  BY DEF Same
<1>2. lastId \in Nat /\ lastId' \in Nat /\ lastId <= lastId'
  BY DEF Wf, WellFormed, RowsStay
<1>3. ASSUME NEW w \in DOMAIN req.latest, NEW s, s = req.latest[w]
      PROVE  /\ s \in 1 .. lastId'
             /\ s \in DOMAIN snaps' => /\ snaps'[s].wallet = w
                                      /\ snaps'[s].status \in ReadStatuses
                                      /\ Explained(w, s)'
  <2>1. s \in 1 .. lastId /\ s <= lastId /\ s \in 1 .. lastId'
    BY <1>2, <1>3 DEF LatestKnown
  <2>2. ASSUME s \in DOMAIN snaps'
        PROVE  /\ snaps'[s].wallet = w /\ snaps'[s].status \in ReadStatuses
               /\ Explained(w, s)'
    <3>1. s \in DOMAIN snaps /\ snaps'[s] = snaps[s]
      BY <2>1, <2>2 DEF RowsStay
    <3>2. snaps[s].wallet = w /\ snaps[s].status \in ReadStatuses /\ Explained(w, s)
      BY <1>3, <3>1 DEF LatestKnown
    <3> QED BY <2>1, <2>2, <3>1, <3>2, ExplainedStays
  <2> QED BY <2>1, <2>2
<1>4. LatestKnown'
  BY <1>1, <1>3 DEF LatestKnown
<1>5. Chosen' = Chosen /\ Chosen \subseteq 1 .. lastId
  BY <1>1 DEF Chosen, LatestKnown
<1> QED BY <1>4, <1>5

LEMMA MetaStays == MetaKnown /\ Same({"meta"}) => MetaKnown'
BY DEF MetaKnown, Same

LEMMA LegacyStays == LegacyKnown /\ Same({"legacy"}) => LegacyKnown'
BY DEF LegacyKnown, Same

LEMMA LegacyAssetsStay ==
  LegacyAssetsKnown /\ Same({"legacy", "legacyAssets"}) => LegacyAssetsKnown'
BY DEF LegacyAssetsKnown, Same

LEMMA ManualStays ==
  ManualKnown /\ Same({"wallets", "latest", "meta", "manual"}) => ManualKnown'
BY DEF ManualKnown, Missing, Chosen, Same

LEMMA ExchangeStays == ExchangeKnown /\ Same({"ex"}) => ExchangeKnown'
BY DEF ExchangeKnown, Same

LEMMA IssuesStay ==
  ASSUME Wf, Wf', RowsStay, LatestKnown, IssuesKnown, Same({"wallets", "latest", "issues"})
  PROVE  IssuesKnown'
<1>1. Chosen' = Chosen /\ Chosen \subseteq 1 .. lastId
  BY LatestStay DEF Same
<1>2. "issues" \in DOMAIN req' /\ req'.issues = req.issues
  BY DEF Same
<1>3. req.issues = {} => AllDone(Chosen)'
  BY <1>1, AllStay DEF IssuesKnown, AllDone
<1>4. \A x \in req.issues : x[2].status = "failed" => Retryable(x[2].run)'
  BY RetryableStays DEF IssuesKnown
<1> QED BY <1>2, <1>3, <1>4 DEF IssuesKnown

InfoLocals == {"wallets", "rows", "latest", "meta", "assets", "legacy", "legacyAssets", "manual"}
SummaryLocals == InfoLocals \cup {"ex", "refreshing", "at"}

(* Where the value of a wallet comes from, by cases.                        *)
LEMMA InfoOf ==
  ASSUME NEW r, NEW w
  PROVE  /\ w \in DOMAIN r.latest =>
              /\ Info(r, w).source = "latest_snapshot" /\ Info(r, w).snap = r.latest[w]
              /\ Info(r, w).at = r.meta[r.latest[w]].at
         /\ w \notin DOMAIN r.latest /\ w \in DOMAIN r.legacy =>
              /\ Info(r, w).source = "latest_snapshot" /\ Info(r, w).snap = Null
              /\ Info(r, w).at = r.legacy[w].at /\ Info(r, w).assets = r.legacyAssets[w]
         /\ w \notin DOMAIN r.latest /\ w \notin DOMAIN r.legacy =>
              /\ Info(r, w).snap = Null /\ Info(r, w).at = Null
              /\ r.rows[w].kind = "manual" /\ r.manual[w] # {} =>
                   Info(r, w).source = "manual" /\ Info(r, w).assets = r.manual[w]
              /\ ~ (r.rows[w].kind = "manual" /\ r.manual[w] # {}) =>
                   Info(r, w).source = "none" /\ Info(r, w).assets = {}
BY DEF Info

LEMMA InfoSame ==
  ASSUME NEW r, NEW q, NEW w,
         \A k \in InfoLocals : r[k] = q[k]
  PROVE  Info(r, w) = Info(q, w)
<1>1. /\ r.latest = q.latest /\ r.meta = q.meta /\ r.assets = q.assets /\ r.rows = q.rows
      /\ r.legacy = q.legacy /\ r.legacyAssets = q.legacyAssets /\ r.manual = q.manual
  BY DEF InfoLocals
<1> QED BY <1>1 DEF Info

LEMMA FreshStays ==
  ASSUME Wf, Wf', RowsStay, LatestKnown, FreshKnown, Same(SummaryLocals)
  PROVE  FreshKnown'
<1>1. Chosen' = Chosen /\ Chosen \subseteq 1 .. lastId
  BY LatestStay DEF Same, SummaryLocals, InfoLocals
<1>2. /\ req'.refreshing = req.refreshing /\ req'.ex = req.ex /\ req'.at = req.at
      /\ req'.wallets = req.wallets
  BY DEF Same, SummaryLocals, InfoLocals
<1>3. (AllDone(Chosen) /\ AllPriced(Chosen))'
  BY <1>1, AllStay DEF FreshKnown, AllDone, AllPriced
<1>4. ASSUME NEW w \in req.wallets
      PROVE  Info(req', w) = Info(req, w)
  <2>1. \A k \in InfoLocals : req'[k] = req[k]
    BY DEF Same, SummaryLocals
  <2> QED BY <2>1, InfoSame
<1>5. \A w \in req.wallets : /\ Info(req', w).source # "none"
                             /\ Info(req', w).at # Null => req'.at - Info(req', w).at <= Stale
  BY <1>2, <1>4 DEF FreshKnown
<1> QED BY <1>2, <1>3, <1>5 DEF FreshKnown

LEMMA HealthStays ==
  ASSUME Wf, Wf', RowsStay, LatestKnown, Same(SummaryLocals), NEW h, HealthKnown(h)
  PROVE  HealthKnown(h)'
BY RetryableStays, FreshStays DEF HealthKnown

LEMMA EndStays ==
  ASSUME Wf, Wf', RowsStay, LatestKnown, EndKnown, Same(SummaryLocals \cup {"health"})
  PROVE  EndKnown'
<1>1. Chosen' = Chosen /\ Chosen \subseteq 1 .. lastId /\ LatestKnown'
  BY LatestStay DEF Same, SummaryLocals, InfoLocals
<1>2. /\ {"health", "at"} \subseteq DOMAIN req'
      /\ req'.health = req.health /\ req'.at = req.at
      /\ req'.wallets = req.wallets /\ req'.latest = req.latest
  BY DEF Same, SummaryLocals, InfoLocals
<1>3. Same(SummaryLocals)
  BY DEF Same
<1>4. HealthKnown(req.health)'
  <2>1. PICK h : h = req.health
    OBVIOUS
  <2>2. HealthKnown(h)
    BY <2>1 DEF EndKnown, HealthKnown
  <2>3. HealthKnown(h)'
    BY <1>3, <2>2, HealthStays
  <2> QED BY <1>2, <2>1, <2>3 DEF HealthKnown, Retryable, OwnRun, FailedChains
<1>5. AllDone(Chosen) => AllDone(Chosen)'
  BY <1>1, AllStay DEF AllDone
<1>6. AllPriced(Chosen) => AllPriced(Chosen)'
  BY <1>1, AllStay DEF AllPriced
<1>7. ASSUME NEW s \in Chosen \cap DOMAIN snaps'
      PROVE  Observed(s)' <= req.at
  <2>0. s \in 1 .. lastId /\ lastId \in Nat
    BY <1>1 DEF Wf, WellFormed
  <2>1. s \in DOMAIN snaps /\ s <= lastId
    BY <2>0 DEF RowsStay
  <2>2. snaps[s].status \in ReadStatuses
    BY <2>1 DEF LatestKnown, Chosen
  <2>3. Observed(s)' = Observed(s)
    BY <2>1, <2>2, SnapStays
  <2> QED BY <2>1, <2>3 DEF EndKnown
<1> QED BY <1>1, <1>2, <1>4, <1>5, <1>6, <1>7 DEF EndKnown

LEMMA CurrentStays ==
  ASSUME Wf, Wf', RowsStay, LatestKnown, CurrentKnown, Same({"wallets", "latest", "at"})
  PROVE  CurrentKnown'
<1>1. Chosen' = Chosen /\ Chosen \subseteq 1 .. lastId
  BY LatestStay DEF Same
<1>2. req'.at = req.at
  BY DEF Same
<1>3. AllDone(Chosen)' /\ AllPriced(Chosen)'
  BY <1>1, AllStay DEF CurrentKnown, AllDone, AllPriced
<1>4. ASSUME NEW s \in Chosen \cap DOMAIN snaps'
      PROVE  req.at - Observed(s)' <= Fresh
  <2>0. s \in 1 .. lastId /\ lastId \in Nat
    BY <1>1 DEF Wf, WellFormed
  <2>1. s \in DOMAIN snaps /\ s <= lastId
    BY <2>0 DEF RowsStay
  <2>2. snaps[s].status \in ReadStatuses
    BY <2>1 DEF LatestKnown, Chosen
  <2>3. Observed(s)' = Observed(s)
    BY <2>1, <2>2, SnapStays
  <2> QED BY <2>1, <2>3 DEF CurrentKnown
<1> QED BY <1>1, <1>2, <1>3, <1>4 DEF CurrentKnown

(* A baseline stays one: the addresses of both rows never change.           *)
LEMMA BaseStays ==
  ASSUME Wf, Wf', RowsStay, LatestKnown, DOMAIN req.latest = req.wallets, BaseKnown,
         Same({"wallets", "latest", "at", "base"})
  PROVE  BaseKnown' /\ BaseSnaps' = BaseSnaps /\ BaseSnaps \subseteq 1 .. lastId
<1>1. /\ req'.wallets = req.wallets /\ req'.latest = req.latest /\ req'.at = req.at
      /\ req'.base = req.base /\ "base" \in DOMAIN req'
  BY DEF Same
<1>2. lastId \in Nat /\ lastId' \in Nat /\ lastId <= lastId'
  BY DEF Wf, WellFormed, RowsStay
<1>3. ASSUME NEW w \in req.wallets, NEW s, s = req.base[w], NEW e, e = req.latest[w]
      PROVE  /\ s \in 1 .. lastId'
             /\ s \in DOMAIN snaps' =>
                  /\ snaps'[s].wallet = w /\ snaps'[s].status = "success"
                  /\ Observed(s)' \in Cutoff - Fresh .. Cutoff
                  /\ e \in DOMAIN snaps' =>
                       \/ snaps'[s].key = snaps'[e].key
                       \/ Races(w, s)' \/ Races(w, e)'
  <2>1. s \in 1 .. lastId /\ s \in 1 .. lastId'
    BY <1>2, <1>3 DEF BaseKnown
  <2>2. SUFFICES ASSUME s \in DOMAIN snaps'
                 PROVE  /\ snaps'[s].wallet = w /\ snaps'[s].status = "success"
                        /\ Observed(s)' \in Cutoff - Fresh .. Cutoff
                        /\ e \in DOMAIN snaps' =>
                             \/ snaps'[s].key = snaps'[e].key
                             \/ Races(w, s)' \/ Races(w, e)'
    BY <2>1
  <2>3. s \in DOMAIN snaps /\ snaps'[s] = snaps[s]
    BY <2>1, <2>2 DEF RowsStay
  <2>4. snaps[s].wallet = w /\ snaps[s].status = "success"
        /\ Observed(s) \in Cutoff - Fresh .. Cutoff
    BY <1>3, <2>3 DEF BaseKnown
  <2>5. CreatedAt(s)' = CreatedAt(s) /\ Observed(s)' = Observed(s)
    <3>1. s <= lastId
      BY <2>1
    <3> QED BY <3>1, <2>2, <2>4, SnapStays DEF ReadStatuses
  <2>6. ASSUME e \in DOMAIN snaps'
        PROVE  snaps'[s].key = snaps'[e].key \/ Races(w, s)' \/ Races(w, e)'
    <3>1. e \in 1 .. lastId /\ e <= lastId /\ s <= lastId
      BY <1>2, <1>3, <2>1 DEF LatestKnown
    <3>2. e \in DOMAIN snaps /\ snaps'[e] = snaps[e]
      BY <2>6, <3>1 DEF RowsStay
    <3>3. snaps[s].key = snaps[e].key \/ Races(w, s) \/ Races(w, e)
      BY <1>3, <2>3, <3>2 DEF BaseKnown
    <3>4. w \in DOMAIN wallets'
      BY <2>2, <2>3, <2>4 DEF Wf, WellFormed, SnapRows
    <3> QED BY <2>2, <2>3, <2>6, <3>1, <3>2, <3>3, <3>4, RacesStay
  <2> QED BY <2>2, <2>3, <2>4, <2>5, <2>6
<1>4. Cutoff' = Cutoff
  BY <1>1 DEF Cutoff
<1>5. BaseKnown'
  BY <1>1, <1>3, <1>4 DEF BaseKnown
<1>6. BaseSnaps' = BaseSnaps /\ BaseSnaps \subseteq 1 .. lastId
  BY <1>1 DEF BaseSnaps, BaseKnown
<1> QED BY <1>5, <1>6

LEMMA CompleteStays ==
  ASSUME Wf, Wf', RowsStay, LatestKnown, CompleteKnown,
         Same({"wallets", "latest", "at", "base"})
  PROVE  CompleteKnown'
<1>1. /\ Chosen' = Chosen /\ Chosen \subseteq 1 .. lastId
      /\ req'.at = req.at /\ req'.latest = req.latest /\ req'.wallets = req.wallets
  BY LatestStay DEF Same
<1>2. CurrentKnown'
  BY CurrentStays DEF CompleteKnown, Same
<1>3. BaseKnown' /\ BaseSnaps' = BaseSnaps /\ BaseSnaps \subseteq 1 .. lastId
  BY BaseStays DEF CompleteKnown
<1>4. AllDone(BaseSnaps)' /\ AllPriced(BaseSnaps)'
  BY <1>3, AllStay DEF CompleteKnown, AllDone, AllPriced
<1>5. ASSUME NEW s \in Chosen \cap DOMAIN snaps'
      PROVE  Observed(s)' <= req.at
  <2>0. s \in 1 .. lastId /\ lastId \in Nat
    BY <1>1 DEF Wf, WellFormed
  <2>1. s \in DOMAIN snaps /\ s <= lastId
    BY <2>0 DEF RowsStay
  <2>2. snaps[s].status \in ReadStatuses
    BY <2>1 DEF LatestKnown, Chosen
  <2>3. Observed(s)' = Observed(s)
    BY <2>1, <2>2, SnapStays
  <2> QED BY <2>1, <2>3 DEF CompleteKnown
<1> QED BY <1>1, <1>2, <1>3, <1>4, <1>5 DEF CompleteKnown

LEMMA PickedStays ==
  ASSUME Wf, Wf', RowsStay, Picked, Same({"wallets", "rows", "latest"})
  PROVE  Picked'
BY WalletsStay, LatestStay DEF Picked, Same

LEMMA MeasuredStays ==
  ASSUME Wf, Wf', RowsStay, Measured, Same({"wallets", "rows", "latest", "meta"})
  PROVE  Measured'
BY PickedStays, MetaStays DEF Measured, Same

LEMMA DetailedStays ==
  ASSUME Wf, Wf', RowsStay, Detailed,
         Same({"wallets", "rows", "latest", "meta", "assets"})
  PROVE  Detailed'
BY MeasuredStays DEF Detailed, Same

LEMMA CompletedStays ==
  ASSUME Wf, Wf', RowsStay, Completed,
         Same({"wallets", "rows", "latest", "meta", "assets", "legacy"})
  PROVE  Completed'
BY DetailedStays, LegacyStays DEF Completed, Same

LEMMA FilledStays ==
  ASSUME Wf, Wf', RowsStay, Filled,
         Same({"wallets", "rows", "latest", "meta", "assets", "legacy", "legacyAssets"})
  PROVE  Filled'
BY CompletedStays, LegacyAssetsStay DEF Filled, Same

LEMMA ValuedStays ==
  ASSUME Wf, Wf', RowsStay, Valued, Same(InfoLocals)
  PROVE  Valued'
<1>1. Filled'
  BY FilledStays DEF Valued, Same, InfoLocals
<1>2. ManualKnown'
  BY ManualStays DEF Valued, Same, InfoLocals
<1> QED BY <1>1, <1>2 DEF Valued

LEMMA GatheredStays ==
  ASSUME Wf, Wf', RowsStay, Gathered, Same(InfoLocals \cup {"ex", "refreshing"})
  PROVE  Gathered'
<1>1. Valued'
  BY ValuedStays DEF Gathered, Same
<1>2. ExchangeKnown'
  BY ExchangeStays DEF Gathered, Same
<1>3. RefreshKnown'
  BY DEF Gathered, RefreshKnown, Same
<1> QED BY <1>1, <1>2, <1>3 DEF Gathered

LEMMA JudgedStays ==
  ASSUME Wf, Wf', RowsStay, Judged, Same(SummaryLocals \cup {"health"})
  PROVE  Judged'
<1>1. Gathered'
  BY GatheredStays DEF Judged, Same, SummaryLocals
<1>2. EndKnown'
  BY EndStays DEF Judged, Gathered, Valued, Filled, Completed, Detailed, Measured, Picked
<1> QED BY <1>1, <1>2 DEF Judged

LEMMA ContrastedStays ==
  ASSUME Wf, Wf', RowsStay, Contrasted, Same(SummaryLocals \cup {"health", "base"})
  PROVE  Contrasted'
<1>1. Judged'
  BY JudgedStays DEF Contrasted, Same
<1>2. LatestKnown /\ DOMAIN req.latest = req.wallets
  BY DEF Contrasted, Judged, EndKnown, Gathered, Valued, Filled, Completed, Detailed, Measured,
         Picked
<1>3. CurrentKnown'
  BY <1>2, CurrentStays DEF Contrasted, Same, SummaryLocals, InfoLocals
<1>4. BaseKnown'
  BY <1>2, BaseStays DEF Contrasted, Same, SummaryLocals, InfoLocals
<1> QED BY <1>1, <1>3, <1>4 DEF Contrasted

(* The locals that knowledge speaks of are there.                           *)
LEMMA GatheredHas ==
  Gathered => InfoLocals \cup {"ex", "refreshing"} \subseteq DOMAIN req
BY DEF Gathered, Valued, Filled, Completed, Detailed, Measured, Picked, WalletsKnown,
       LatestKnown, MetaKnown, LegacyKnown, LegacyAssetsKnown, ManualKnown, ExchangeKnown,
       RefreshKnown, InfoLocals

LEMMA JudgedHas == Judged => SummaryLocals \cup {"health"} \subseteq DOMAIN req
BY GatheredHas DEF Judged, EndKnown, SummaryLocals

LEMMA GatheredPicked == Gathered => Picked /\ LatestKnown /\ WalletsKnown
BY DEF Gathered, Valued, Filled, Completed, Detailed, Measured, Picked

(* Whatever happens to the tables between two statements.                   *)
LEMMA SummaryStays ==
  ASSUME Wf, Wf', RowsStay, SummaryInv, UNCHANGED req
  PROVE  SummaryInv'
<1>1. ASSUME NEW K, K \subseteq DOMAIN req PROVE Same(K)
  BY <1>1 DEF Same
<1>2. ASSUME At("summary", "latest") PROVE WalletsKnown'
  BY <1>1, <1>2, WalletsStay DEF SummaryInv, WalletsKnown
<1>3. ASSUME At("summary", "meta") PROVE Picked'
  BY <1>1, <1>3, PickedStays DEF SummaryInv, Picked, WalletsKnown, LatestKnown
<1>4. ASSUME At("summary", "assets") PROVE Measured'
  BY <1>1, <1>4, MeasuredStays
  DEF SummaryInv, Measured, Picked, WalletsKnown, LatestKnown, MetaKnown
<1>5. ASSUME At("summary", "legacy") PROVE Detailed'
  BY <1>1, <1>5, DetailedStays
  DEF SummaryInv, Detailed, Measured, Picked, WalletsKnown, LatestKnown, MetaKnown
<1>6. ASSUME At("summary", "legacyAssets") PROVE Completed'
  BY <1>1, <1>6, CompletedStays
  DEF SummaryInv, Completed, Detailed, Measured, Picked, WalletsKnown, LatestKnown, MetaKnown,
      LegacyKnown
<1>7. ASSUME At("summary", "manual") PROVE Filled'
  BY <1>1, <1>7, FilledStays
  DEF SummaryInv, Filled, Completed, Detailed, Measured, Picked, WalletsKnown, LatestKnown,
      MetaKnown, LegacyKnown, LegacyAssetsKnown
<1>8. ASSUME Valued PROVE Valued'
  <2>1. InfoLocals \subseteq DOMAIN req
    BY <1>8 DEF Valued, Filled, Completed, Detailed, Measured, Picked, WalletsKnown,
         LatestKnown, MetaKnown, LegacyKnown, LegacyAssetsKnown, ManualKnown, InfoLocals
  <2> QED BY <1>1, <1>8, <2>1, ValuedStays
<1>9. ASSUME ExchangeKnown PROVE ExchangeKnown'
  BY <1>9 DEF ExchangeKnown
<1>10. ASSUME Gathered PROVE Gathered'
  BY <1>1, <1>10, GatheredHas, GatheredStays
<1>11. ASSUME Gathered, IssuesKnown PROVE IssuesKnown'
  <2>1. Same({"wallets", "latest", "issues"})
    BY <1>1, <1>11, GatheredHas DEF IssuesKnown, InfoLocals
  <2> QED BY <1>11, <2>1, GatheredPicked, IssuesStay
<1>12. ASSUME Judged PROVE Judged'
  BY <1>1, <1>12, JudgedHas, JudgedStays
<1>13. ASSUME Judged, CurrentKnown PROVE CurrentKnown'
  <2>1. Same({"wallets", "latest", "at"})
    BY <1>1, <1>13, JudgedHas DEF SummaryLocals, InfoLocals
  <2>2. LatestKnown
    BY <1>13, GatheredPicked DEF Judged
  <2> QED BY <1>13, <2>1, <2>2, CurrentStays
<1>14. ASSUME Contrasted PROVE Contrasted'
  <2>1. SummaryLocals \cup {"health", "base"} \subseteq DOMAIN req
    BY <1>14, JudgedHas DEF Contrasted, BaseKnown
  <2> QED BY <1>1, <1>14, <2>1, ContrastedStays
<1>15. ASSUME Contrasted, AllDone(BaseSnaps) PROVE AllDone(BaseSnaps)'
  <2>1. BaseSnaps' = BaseSnaps /\ BaseSnaps \subseteq 1 .. lastId
    BY <1>15 DEF BaseSnaps, Contrasted, BaseKnown
  <2> QED BY <1>15, <2>1, AllStay DEF AllDone
<1>16. ASSUME Done("summary"), Gathered, DoneKnown PROVE DoneKnown'
  <2>1. Same(SummaryLocals)
    BY <1>1, <1>16, GatheredHas DEF DoneKnown, SummaryLocals
  <2>2. PICK h : h = req.answer.health
    OBVIOUS
  <2>3. HealthKnown(h)
    BY <1>16, <2>2 DEF DoneKnown, HealthKnown
  <2>4. HealthKnown(h)'
    BY <1>16, <2>1, <2>3, GatheredPicked, HealthStays
  <2>5. HealthKnown(req.answer.health)'
    BY <2>2, <2>4 DEF HealthKnown, Retryable, OwnRun, FailedChains
  <2>6. ASSUME req.answer.change.status = "complete" PROVE CompleteKnown'
    <3>1. CompleteKnown
      BY <1>16, <2>6 DEF DoneKnown
    <3>2. Same({"wallets", "latest", "at", "base"})
      BY <1>1, <2>1, <3>1 DEF CompleteKnown, BaseKnown, Same, SummaryLocals, InfoLocals
    <3> QED BY <1>16, <3>1, <3>2, GatheredPicked, CompleteStays
  <2> QED BY <1>16, <2>5, <2>6 DEF DoneKnown
<1>17. /\ \A pc \in {"latest", "meta", "assets", "legacy", "legacyAssets", "manual", "exchange",
                     "refresh", "issues", "prices", "current", "baseline", "baseIssues",
                     "basePrices"} : At("summary", pc)' <=> At("summary", pc)
       /\ Done("summary")' <=> Done("summary")
  BY DEF At, Done
<1> QED
  BY <1>2, <1>3, <1>4, <1>5, <1>6, <1>7, <1>8, <1>9, <1>10, <1>11, <1>12, <1>13, <1>14,
     <1>15, <1>16, <1>17 DEF SummaryInv

------------------------------------------------------------------------------
(* Balances, qualities and dates                                            *)

LEMMA UnionFinite ==
  ASSUME NEW S, IsFiniteSet(S), NEW f, \A x \in S : IsFiniteSet(f[x])
  PROVE  IsFiniteSet(UNION {f[x] : x \in S})
BY ImageFinite, FS_UNION

LEMMA OneBalance ==
  ASSUME NEW S, NEW x
  PROVE  x \in BalancesOf(S) <=>
           \E s \in S \cap DOMAIN snaps : \E p \in snaps[s].parts : \E b \in p.balances :
             x = <<<<"snapshot", s>>, b>>
<1>1. ASSUME NEW s \in S \cap DOMAIN snaps, NEW p \in snaps[s].parts, NEW b \in p.balances,
             x = <<<<"snapshot", s>>, b>>
      PROVE  x \in BalancesOf(S)
  <2> DEFINE y == <<s, p>>
  <2>1. y \in PartsOf(S)
    BY DEF PartsOf
  <2>2. y[1] = s /\ y[2] = p
    OBVIOUS
  <2>3. x \in {<<<<"snapshot", y[1]>>, c>> : c \in y[2].balances}
    BY <1>1, <2>2
  <2> HIDE DEF y
  <2> QED BY <2>1, <2>3 DEF BalancesOf
<1>2. ASSUME x \in BalancesOf(S)
      PROVE  \E s \in S \cap DOMAIN snaps : \E p \in snaps[s].parts : \E b \in p.balances :
               x = <<<<"snapshot", s>>, b>>
  <2>1. PICK y \in PartsOf(S) : x \in {<<<<"snapshot", y[1]>>, c>> : c \in y[2].balances}
    BY <1>2 DEF BalancesOf
  <2>2. PICK s \in S \cap DOMAIN snaps : \E p \in snaps[s].parts : y = <<s, p>>
    BY DEF PartsOf
  <2>3. PICK p \in snaps[s].parts : y = <<s, p>>
    BY <2>2
  <2>4. y[1] = s /\ y[2] = p
    BY <2>3
  <2> QED BY <2>1, <2>4
<1> QED BY <1>1, <1>2

LEMMA BalancesFinite ==
  ASSUME Wf, NEW S, IsFiniteSet(S)
  PROVE  IsFiniteSet(BalancesOf(S))
<1> DEFINE T == S \cap DOMAIN snaps
           Parts == [s \in T |-> {<<s, p>> : p \in snaps[s].parts}]
           Balances == [y \in PartsOf(S) |-> {<<<<"snapshot", y[1]>>, b>> : b \in y[2].balances}]
<1>1. IsFiniteSet(T)
  BY FS_Subset
<1>2. ASSUME NEW s \in T
      PROVE  IsFiniteSet(Parts[s])
  <2>1. IsFiniteSet(snaps[s].parts)
    BY DEF Wf, WellFormed, SnapRows, Collected
  <2> DEFINE f == [p \in snaps[s].parts |-> <<s, p>>]
  <2>2. IsFiniteSet({f[p] : p \in snaps[s].parts})
    <3> HIDE DEF f
    <3> QED BY <2>1, ImageFinite
  <2>3. {f[p] : p \in snaps[s].parts} = {<<s, p>> : p \in snaps[s].parts}
    OBVIOUS
  <2> QED BY <2>2, <2>3
<1>3. IsFiniteSet(PartsOf(S))
  <2>1. IsFiniteSet(UNION {Parts[s] : s \in T})
    <3> HIDE DEF T, Parts
    <3> QED BY <1>1, <1>2, UnionFinite
  <2>2. UNION {Parts[s] : s \in T} = PartsOf(S)
    BY DEF PartsOf
  <2> QED BY <2>1, <2>2
<1>4. ASSUME NEW y \in PartsOf(S)
      PROVE  IsFiniteSet(Balances[y])
  <2>1. IsFiniteSet(y[2].balances)
    <3>1. PICK s \in S \cap DOMAIN snaps : \E p \in snaps[s].parts : y = <<s, p>>
      BY DEF PartsOf
    <3>2. PICK p \in snaps[s].parts : y = <<s, p>>
      BY <3>1
    <3>3. Collected(snaps[s])
      BY <3>1 DEF Wf, WellFormed, SnapRows
    <3>4. IsFiniteSet(p.balances)
      BY <3>3 DEF Collected, BalanceRows
    <3> QED BY <3>2, <3>4
  <2> DEFINE f == [b \in y[2].balances |-> <<<<"snapshot", y[1]>>, b>>]
  <2>2. IsFiniteSet({f[b] : b \in y[2].balances})
    <3> HIDE DEF f
    <3> QED BY <2>1, ImageFinite
  <2>3. {f[b] : b \in y[2].balances} = {<<<<"snapshot", y[1]>>, b>> : b \in y[2].balances}
    OBVIOUS
  <2> QED BY <2>2, <2>3
<1>5. IsFiniteSet(UNION {Balances[y] : y \in PartsOf(S)})
  <2> HIDE DEF Balances
  <2> QED BY <1>3, <1>4, UnionFinite
<1>6. UNION {Balances[y] : y \in PartsOf(S)} = BalancesOf(S)
  BY DEF BalancesOf
<1> QED BY <1>5, <1>6

Relevant(B) == {x \in B : x[2].amount # 0}

(* A quality tells whether a balance that counts has no price.              *)
LEMMA QualityCounts ==
  ASSUME NEW B, IsFiniteSet(B)
  PROVE  LET q == PriceQuality(B)
         IN  /\ q.priced \in Nat /\ q.total \in Nat /\ q.priced <= q.total
             /\ q.total = 0 <=> Relevant(B) = {}
             /\ q.priced < q.total <=> \E x \in Relevant(B) : x[2].price = Null
             /\ q.sources = {Normalized(x[2].source) : x \in Relevant(B)}
             /\ q.state = QualityState(q.sources, q.priced, q.total)
<1> DEFINE R == Relevant(B)
           P == {x \in R : x[2].price # Null}
           q == PriceQuality(B)
<1>1. q.priced = Cardinality(P) /\ q.total = Cardinality(R)
      /\ q.sources = {Normalized(x[2].source) : x \in R}
      /\ q.state = QualityState(q.sources, q.priced, q.total)
  BY DEF PriceQuality, Relevant
<1>2. IsFiniteSet(R) /\ IsFiniteSet(P) /\ P \subseteq R
  BY FS_Subset DEF Relevant
<1>3. Cardinality(P) \in Nat /\ Cardinality(R) \in Nat /\ Cardinality(P) <= Cardinality(R)
  BY <1>2, FS_CardinalityType, FS_Subset
<1>4. Cardinality(P) = Cardinality(R) <=> P = R
  BY <1>2, FS_Subset
<1>5. Cardinality(R) = 0 <=> R = {}
  BY <1>2, FS_EmptySet
<1>6. P # R <=> \E x \in R : x[2].price = Null
  OBVIOUS
<1> QED
  <2> HIDE DEF R, P, q
  <2>1. q.priced < q.total <=> \E x \in R : x[2].price = Null
    BY <1>1, <1>3, <1>4, <1>6
  <2> QED BY <1>1, <1>3, <1>5, <2>1 DEF R, q

Flawed(x) == x[2].price = Null \/ Normalized(x[2].source) = "static_dev"

LEMMA QualityBad ==
  ASSUME NEW B, IsFiniteSet(B)
  PROVE  /\ PriceQuality(B).state \in {"estimated", "incomplete"} <=>
              \E x \in Relevant(B) : Flawed(x)
         /\ PriceQuality(B).state = "complete" => \A x \in Relevant(B) : x[2].price # Null
<1> DEFINE q == PriceQuality(B)
<1>1. /\ q.total = 0 <=> Relevant(B) = {}
      /\ q.priced < q.total <=> \E x \in Relevant(B) : x[2].price = Null
      /\ q.sources = {Normalized(x[2].source) : x \in Relevant(B)}
      /\ q.state = QualityState(q.sources, q.priced, q.total)
  BY QualityCounts
<1>2. "static_dev" \in q.sources <=>
        \E x \in Relevant(B) : Normalized(x[2].source) = "static_dev"
  <2> HIDE DEF q
  <2> QED BY <1>1
<1> QED
  <2> HIDE DEF q
  <2> QED BY <1>1, <1>2 DEF q, QualityState, Flawed

LEMMA OldestDate ==
  ASSUME NEW D, IsFiniteSet(D), D \subseteq Int
  PROVE  /\ D = {} => MinOrNull(D) = Null
         /\ D # {} => MinOrNull(D) \in D /\ \A x \in D : MinOrNull(D) <= x
BY MinLeast DEF MinOrNull

LEMMA StaleOf ==
  ASSUME NEW at, at = Null \/ at \in Int, NEW t \in Int
  PROVE  Freshness(at, t) = "stale" <=> at # Null /\ t - at > Stale
BY PortfolioAssumption DEF Freshness

LEMMA NoIssues ==
  ASSUME NEW R
  PROVE  ChainIssues(R) = {} <=> R = {}
<1>1. ASSUME NEW x \in R PROVE ChainIssues(R) # {}
  <2>1. x[2].chain \in {y[2].chain : y \in R}
    OBVIOUS
  <2> DEFINE Entry(c) ==
               LET of == {y \in R : y[2].chain = c}
               IN  [chain |-> c, wallets |-> Cardinality({y[1] : y \in of}),
                    status |-> IF \E y \in of : y[2].status = "failed" THEN "failed"
                               ELSE (CHOOSE y \in of : TRUE)[2].status]
  <2>2. ChainIssues(R) = {Entry(c) : c \in {y[2].chain : y \in R}}
    BY DEF ChainIssues
  <2> HIDE DEF Entry
  <2> QED BY <2>1, <2>2
<1>2. R = {} => ChainIssues(R) = {}
  BY DEF ChainIssues
<1> QED BY <1>1, <1>2

LEMMA RetryableRow ==
  ASSUME NEW R, RetryableJob(R) # Null
  PROVE  \E x \in R : x[2].status = "failed" /\ x[2].run = RetryableJob(R)
<1> DEFINE jobs == {x[2].run : x \in {y \in R : y[2].status = "failed"}}
<1>1. Cardinality(jobs) = 1 /\ RetryableJob(R) = CHOOSE r \in jobs : TRUE
  <2>1. RetryableJob(R) = IF Cardinality(jobs) = 1 THEN CHOOSE r \in jobs : TRUE ELSE Null
    BY DEF RetryableJob
  <2> HIDE DEF jobs
  <2> QED BY <2>1
<1>2. jobs # {}
  <2> HIDE DEF jobs
  <2> QED BY <1>1, FS_EmptySet
<1>3. RetryableJob(R) \in jobs
  <2> HIDE DEF jobs
  <2> QED BY <1>1, <1>2
<1> QED BY <1>3

LEMMA DatesFinite ==
  ASSUME NEW infos, IsFiniteSet(DOMAIN infos),
         \A w \in DOMAIN infos : infos[w].at = Null \/ infos[w].at \in Int
  PROVE  LET dates == {infos[w].at : w \in DOMAIN infos} \ {Null}
         IN  IsFiniteSet(dates) /\ dates \subseteq Int
<1> DEFINE W == DOMAIN infos
           dates == {infos[w].at : w \in W} \ {Null}
           f == [w \in W |-> infos[w].at]
           T == {f[w] : w \in W}
<1>1. IsFiniteSet(T)
  <2> HIDE DEF f
  <2> QED BY ImageFinite
<1>2. dates \subseteq T /\ dates \subseteq Int
  OBVIOUS
<1>3. IsFiniteSet(dates) /\ dates \subseteq Int
  <2> HIDE DEF dates, T
  <2> QED BY <1>1, <1>2, FS_Subset
<1> QED BY <1>3

LEMMA SourcedFinite ==
  ASSUME NEW info, IsFiniteSet(info.assets)
  PROVE  IsFiniteSet(Sourced(info))
<1> DEFINE A == info.assets
           Out(x) == <<x[1], [x[2] EXCEPT !.source = IF info.source = "manual"
                                                   THEN "manual" ELSE Null]>>
           f == [x \in A |-> Out(x)]
<1>1. IsFiniteSet({f[x] : x \in A})
  <2> HIDE DEF f
  <2> QED BY ImageFinite
<1>2. {f[x] : x \in A} = {Out(x) : x \in A}
  <2> HIDE DEF Out
  <2> QED OBVIOUS
<1>3. Sourced(info) = {Out(x) : x \in A}
  BY DEF Sourced
<1> HIDE DEF Out, f, A
<1> QED BY <1>1, <1>2, <1>3

(* The balances a health counts: of snapshots, and of wallets without one.  *)
LEMMA RestFinite ==
  ASSUME NEW infos, IsFiniteSet(DOMAIN infos), NEW balances, IsFiniteSet(balances),
         \A w \in DOMAIN infos : infos[w].snap = Null => IsFiniteSet(infos[w].assets)
  PROVE  IsFiniteSet(balances \cup
           UNION {Sourced(infos[w]) : w \in {v \in DOMAIN infos : infos[v].snap = Null}})
<1> DEFINE unread == {w \in DOMAIN infos : infos[w].snap = Null}
           Rest == UNION {Sourced(infos[w]) : w \in unread}
           g == [w \in unread |-> Sourced(infos[w])]
<1>1. IsFiniteSet(unread)
  BY FS_Subset
<1>2. ASSUME NEW w \in unread PROVE IsFiniteSet(g[w])
  BY SourcedFinite
<1>3. IsFiniteSet(UNION {g[w] : w \in unread})
  <2> HIDE DEF g, unread
  <2> QED BY <1>1, <1>2, UnionFinite
<1>4. UNION {g[w] : w \in unread} = Rest
  OBVIOUS
<1>5. IsFiniteSet(Rest)
  <2> HIDE DEF Rest, unread
  <2> QED BY <1>3, <1>4
<1>6. IsFiniteSet(balances \cup Rest)
  <2> HIDE DEF Rest, unread
  <2> QED BY <1>5, FS_Union
<1> QED BY <1>6

(* What the health of a set of wallets says of them.                        *)
HealthInput(infos, balances) ==
  /\ IsFiniteSet(DOMAIN infos) /\ IsFiniteSet(balances)
  /\ \A w \in DOMAIN infos : infos[w].at = Null \/ infos[w].at \in Int
  /\ \A w \in DOMAIN infos : infos[w].snap = Null => IsFiniteSet(infos[w].assets)

HealthSays(h, infos, refreshing, issues, balances, t) ==
  /\ h.retry = RetryableJob(issues) /\ h.issues = ChainIssues(issues)
  /\ h.refreshing = refreshing
  /\ h.asOf = Null \/ h.asOf \in Int
  /\ \A w \in DOMAIN infos :
       infos[w].at # Null => h.asOf # Null /\ h.asOf <= infos[w].at
  /\ h.freshness = Freshness(h.asOf, t)
  /\ h.quality.priced \in Nat /\ h.quality.total \in Nat
  /\ h.quality.state = "complete" \/ h.quality.priced >= h.quality.total =>
       \A x \in Relevant(balances) : x[2].price # Null
  /\ h.state # "partial" =>
       /\ issues = {}
       /\ \A x \in Relevant(balances) : x[2].price # Null
       /\ ~ refreshing => \A w \in DOMAIN infos : infos[w].source # "none"
  /\ h.state = "fresh" => ~ refreshing /\ h.freshness # "stale"

LEMMA HealthOf ==
  ASSUME NEW infos, NEW balances, HealthInput(infos, balances),
         NEW refreshing \in BOOLEAN, NEW issues, NEW t \in Int,
         NEW h, h = DataHealth(infos, refreshing, issues, balances, t)
  PROVE  HealthSays(h, infos, refreshing, issues, balances, t)
<1> USE DEF HealthInput
<1> DEFINE W == DOMAIN infos
           dates == {infos[w].at : w \in W} \ {Null}
           unread == {w \in W : infos[w].snap = Null}
           Rest == UNION {Sourced(infos[w]) : w \in unread}
           B == balances \cup Rest
           missing == {w \in W : infos[w].source = "none"}
<1>1. /\ h.retry = RetryableJob(issues) /\ h.issues = ChainIssues(issues)
      /\ h.refreshing = refreshing /\ h.asOf = MinOrNull(dates)
      /\ h.freshness = Freshness(MinOrNull(dates), t)
      /\ h.quality = PriceQuality(B)
      /\ h.state = HealthState(issues, PriceQuality(B).state, refreshing, missing # {},
                               Freshness(MinOrNull(dates), t))
  BY DEF DataHealth
<1>2. IsFiniteSet(dates) /\ dates \subseteq Int
  BY DatesFinite
<1>3. ASSUME NEW w \in W, infos[w].at # Null
      PROVE  MinOrNull(dates) # Null /\ MinOrNull(dates) <= infos[w].at
  <2>1. infos[w].at \in dates
    BY <1>3
  <2> HIDE DEF dates
  <2> QED BY <1>2, <2>1, OldestDate, PortfolioAssumption
<1>4. MinOrNull(dates) = Null \/ MinOrNull(dates) \in Int
  <2> HIDE DEF dates
  <2> QED BY <1>2, OldestDate
<1>5. IsFiniteSet(B)
  BY RestFinite
<1>6. /\ PriceQuality(B).priced \in Nat /\ PriceQuality(B).total \in Nat
      /\ PriceQuality(B).priced < PriceQuality(B).total <=>
           \E x \in Relevant(B) : x[2].price = Null
  <2> HIDE DEF B
  <2> QED BY <1>5, QualityCounts
<1>7. /\ PriceQuality(B).state \in {"estimated", "incomplete"} <=>
           \E x \in Relevant(B) : Flawed(x)
      /\ PriceQuality(B).state = "complete" => \A x \in Relevant(B) : x[2].price # Null
  <2> HIDE DEF B
  <2> QED BY <1>5, QualityBad
<1>8. Relevant(balances) \subseteq Relevant(B)
  BY DEF Relevant
<1>9. h.quality.state = "complete" \/ h.quality.priced >= h.quality.total =>
        \A x \in Relevant(balances) : x[2].price # Null
  <2> HIDE DEF B
  <2> QED BY <1>1, <1>6, <1>7, <1>8
<1>10. h.state # "partial" =>
         /\ issues = {}
         /\ \A x \in Relevant(balances) : x[2].price # Null
         /\ ~ refreshing => missing = {}
  <2> HIDE DEF B, missing, dates
  <2> QED BY <1>1, <1>7, <1>8 DEF HealthState, Flawed
<1>11. h.state = "fresh" => ~ refreshing /\ h.freshness # "stale"
  <2> HIDE DEF B, missing, dates
  <2> QED BY <1>1 DEF HealthState
<1>12. missing = {} => \A w \in DOMAIN infos : infos[w].source # "none"
  OBVIOUS
<1> QED
  <2> HIDE DEF B, missing, dates
  <2> QED BY <1>1, <1>3, <1>4, <1>6, <1>9, <1>10, <1>11, <1>12 DEF HealthSays

HealthFields == {"state", "freshness", "asOf", "total", "missing", "refreshing", "retry",
                 "issues", "quality"}

(* The merge with the exchange only makes a health worse.                   *)
MergeInput(h, ex, t) ==
  /\ DOMAIN h = HealthFields /\ h.refreshing \in BOOLEAN
  /\ h.asOf = Null \/ h.asOf \in Int
  /\ t \in Int /\ h.freshness = Freshness(h.asOf, t)
  /\ h.quality.priced \in Nat /\ h.quality.total \in Nat
  /\ h.state = "fresh" => ~ h.refreshing /\ h.freshness # "stale"
  /\ ex.asOf = Null \/ ex.asOf \in Int
  /\ ex.status = "success" \/ ex.assets = {}

MergeSays(m, h, ex, t) ==
  /\ m.retry = h.retry /\ m.issues = h.issues
  /\ ex.assets = {} /\ m.quality.state = "complete" =>
       h.quality.state = "complete" \/ h.quality.priced >= h.quality.total
  /\ m.state = "fresh" =>
       /\ h.state # "partial" /\ ~ h.refreshing
       /\ ex.status \in {"not_configured", "success"}
       /\ \A a \in ex.assets : a.price # Null
       /\ h.asOf # Null => t - h.asOf <= Stale

LEMMA MergedHealth ==
  ASSUME NEW h, NEW ex, NEW t, MergeInput(h, ex, t), NEW m, m = MergeExchange(h, ex, t)
  PROVE  MergeSays(m, h, ex, t)
<1>0. /\ DOMAIN h = HealthFields /\ h.refreshing \in BOOLEAN
      /\ h.asOf = Null \/ h.asOf \in Int
      /\ t \in Int /\ h.freshness = Freshness(h.asOf, t)
      /\ h.quality.priced \in Nat /\ h.quality.total \in Nat
      /\ h.state = "fresh" => ~ h.refreshing /\ h.freshness # "stale"
      /\ ex.asOf = Null \/ ex.asOf \in Int
      /\ ex.status = "success" \/ ex.assets = {}
  BY DEF MergeInput
<1> USE <1>0 DEF MergeSays
<1>1. CASE ex.status = "not_configured"
  <2>1. m = h /\ ex.assets = {}
    BY <1>1 DEF MergeExchange, Configured
  <2>2. h.state = "fresh" /\ h.asOf # Null => t - h.asOf <= Stale
    BY StaleOf, PortfolioAssumption
  <2> QED BY <1>1, <2>1, <2>2
<1>2. CASE ex.status \notin {"not_configured", "success"}
  <2>1. m = [h EXCEPT !.state = "partial"]
    BY <1>2 DEF MergeExchange, Configured
  <2>2. m.state = "partial" /\ m.retry = h.retry /\ m.issues = h.issues /\ m.quality = h.quality
    BY <2>1 DEF HealthFields
  <2> QED BY <2>2
<1>3. CASE ex.status = "success"
  <2> DEFINE dates == {h.asOf, ex.asOf} \ {Null}
             asOf == MinOrNull(dates)
             freshness == Freshness(asOf, t)
             quality == MergedQuality(h.quality, ex)
             state == MergedState(h, ex, freshness, t)
  <2>1. m = [h EXCEPT !.asOf = asOf, !.freshness = freshness,
                      !.quality = quality, !.state = state]
    BY <1>3 DEF MergeExchange, Configured
  <2>2. m.retry = h.retry /\ m.issues = h.issues /\ m.quality = quality /\ m.state = state
    <3> HIDE DEF asOf, freshness, quality, state
    <3> QED BY <2>1 DEF HealthFields
  <2>3. IsFiniteSet(dates) /\ dates \subseteq Int
    <3>1. IsFiniteSet({h.asOf, ex.asOf})
      <4>1. {h.asOf, ex.asOf} = {h.asOf} \cup {ex.asOf}
        OBVIOUS
      <4>2. IsFiniteSet({h.asOf})
        BY FS_Singleton
      <4> QED BY <4>1, <4>2, FS_AddElement
    <3> QED BY <3>1, FS_Subset
  <2>4. asOf = Null \/ asOf \in Int
    <3> HIDE DEF dates
    <3> QED BY <2>3, OldestDate
  <2>5. h.asOf # Null => asOf # Null /\ asOf <= h.asOf
    <3>1. h.asOf # Null => h.asOf \in dates
      OBVIOUS
    <3> HIDE DEF dates
    <3> QED BY <2>3, <3>1, OldestDate, PortfolioAssumption
  <2>6. ASSUME state = "fresh"
        PROVE  /\ h.state # "partial" /\ ~ h.refreshing
               /\ \A a \in ex.assets : a.price # Null
               /\ h.asOf # Null => t - h.asOf <= Stale
    <3>1. /\ h.state # "partial" /\ ~ h.refreshing /\ freshness # "stale"
          /\ ExchangeState(ex, t) # "partial"
      BY <2>6 DEF MergedState
    <3>2. \A a \in ex.assets : a.price # Null
      BY <3>1 DEF ExchangeState
    <3>3. asOf = Null \/ t - asOf <= Stale
      <4> HIDE DEF asOf
      <4> QED BY <3>1, <2>4, StaleOf, PortfolioAssumption
    <3>4. h.asOf # Null => t - h.asOf <= Stale
      <4> HIDE DEF asOf
      <4> QED BY <3>3, <2>4, <2>5, PortfolioAssumption
    <3> QED BY <3>1, <3>2, <3>4
  <2>7. ASSUME ex.assets = {}, quality.state = "complete"
        PROVE  h.quality.priced >= h.quality.total
    <3> DEFINE P == {a \in ex.assets : a.price # Null}
    <3>1. Cardinality(P) = 0 /\ Cardinality(ex.assets) = 0
      BY <2>7, FS_EmptySet
    <3>2. PICK sources : quality.state = QualityState(sources, h.quality.priced + Cardinality(P),
                                           h.quality.total + Cardinality(ex.assets))
      BY DEF MergedQuality
    <3> HIDE DEF quality, P
    <3> QED BY <2>7, <3>1, <3>2 DEF QualityState
  <2> HIDE DEF state, quality
  <2> QED BY <1>3, <2>2, <2>6, <2>7
<1> QED BY <1>1, <1>2, <1>3

LEMMA HealthHas ==
  ASSUME NEW infos, NEW refreshing, NEW issues, NEW balances, NEW t
  PROVE  DOMAIN DataHealth(infos, refreshing, issues, balances, t) = HealthFields
BY DEF DataHealth, HealthFields

(* The snapshots that the values of a request come from are those it chose. *)
LEMMA SnapsChosen ==
  ASSUME Wf, Picked, DOMAIN req.latest \subseteq req.wallets
  PROVE  SnapsIn(Infos(req)) = Chosen
<1>1. DOMAIN Infos(req) = req.wallets /\ \A w \in req.wallets : Infos(req)[w] = Info(req, w)
  BY DEF Infos
<1>2. SnapsIn(Infos(req)) = {Info(req, w).snap : w \in req.wallets} \ {Null}
  BY <1>1 DEF SnapsIn
<1>3. \A w \in DOMAIN req.latest : Info(req, w).snap = req.latest[w] /\ req.latest[w] # Null
  <2>1. \A w \in DOMAIN req.latest : req.latest[w] \in Int
    BY DEF Picked, LatestKnown, Wf, WellFormed
  <2> QED BY <2>1, InfoOf, PortfolioAssumption
<1>4. \A w \in req.wallets \ DOMAIN req.latest : Info(req, w).snap = Null
  BY InfoOf
<1> QED BY <1>2, <1>3, <1>4 DEF Chosen

LEMMA ChosenFinite ==
  ASSUME Picked
  PROVE  IsFiniteSet(Chosen)
<1>1. IsFiniteSet(DOMAIN req.latest)
  BY FS_Subset DEF Picked, WalletsKnown, LatestKnown
<1>2. IsFiniteSet({req.latest[w] : w \in DOMAIN req.latest})
  BY <1>1, ImageFinite
<1> QED BY <1>2 DEF Chosen

(* The values of a request are such as a health can be computed from.       *)
LEMMA InfosFit ==
  ASSUME Wf, Valued
  PROVE  /\ IsFiniteSet(DOMAIN Infos(req)) /\ DOMAIN Infos(req) = req.wallets
         /\ \A w \in req.wallets :
              /\ Infos(req)[w] = Info(req, w)
              /\ Infos(req)[w].at = Null \/ Infos(req)[w].at \in Int
              /\ Infos(req)[w].snap = Null => IsFiniteSet(Infos(req)[w].assets)
<1> USE DEF Valued, Filled, Completed, Detailed, Measured, Picked
<1>1. IsFiniteSet(req.wallets)
  BY DEF WalletsKnown
<1>2. DOMAIN Infos(req) = req.wallets /\ \A w \in req.wallets : Infos(req)[w] = Info(req, w)
  BY DEF Infos
<1>3. ASSUME NEW w \in req.wallets
      PROVE  /\ Info(req, w).at = Null \/ Info(req, w).at \in Int
             /\ Info(req, w).snap = Null => IsFiniteSet(Info(req, w).assets)
  <2>1. CASE w \in DOMAIN req.latest
    <3>1. req.latest[w] \in DOMAIN req.meta
      BY <2>1 DEF ManualKnown, Missing, Chosen
    <3>2. Info(req, w).at \in Int
      BY <2>1, <3>1, InfoOf DEF MetaKnown
    <3>3. Info(req, w).snap # Null
      <4>1. req.latest[w] \in Int
        BY <2>1 DEF LatestKnown, Wf, WellFormed
      <4> QED BY <2>1, <4>1, InfoOf, PortfolioAssumption
    <3> QED BY <3>2, <3>3
  <2>2. CASE w \notin DOMAIN req.latest /\ w \in DOMAIN req.legacy
    BY <2>2, InfoOf DEF LegacyKnown, LegacyAssetsKnown
  <2>3. CASE w \notin DOMAIN req.latest /\ w \notin DOMAIN req.legacy
    <3>1. Info(req, w).at = Null
          /\ (Info(req, w).assets = req.manual[w] \/ Info(req, w).assets = {})
      BY <2>3, InfoOf
    <3>2. IsFiniteSet(req.manual[w]) /\ IsFiniteSet({})
      BY FS_EmptySet DEF ManualKnown
    <3> QED BY <3>1, <3>2
  <2> QED BY <2>1, <2>2, <2>3
<1> QED BY <1>1, <1>2, <1>3

------------------------------------------------------------------------------
(* The statements of a summary                                              *)

LEMMA StepTaken ==
  ASSUME Wf, PcInv, NEW p, NEW locals, Then(p, locals),
         "pc" \notin DOMAIN locals, "op" \notin DOMAIN locals
  PROVE  /\ Wf' /\ RowsStay /\ UNCHANGED <<world, offer>>
         /\ UNCHANGED <<wallets, runs, snaps, legacy, manual, lastId, now, patches, gone>>
         /\ {"op", "pc"} \subseteq DOMAIN req'
         /\ req'.pc = p /\ req'.op = req.op
         /\ \A k \in DOMAIN locals : k \in DOMAIN req' /\ req'[k] = locals[k]
         /\ \A K \in SUBSET DOMAIN req :
              "pc" \notin K /\ K \cap DOMAIN locals = {} => Same(K)
<1>1. /\ UNCHANGED <<world, offer>>
      /\ DOMAIN req' = {"pc"} \cup DOMAIN locals \cup DOMAIN req
      /\ req'.pc = p
      /\ \A k \in DOMAIN locals : req'[k] = locals[k]
      /\ \A k \in DOMAIN req : k = "pc" \/ k \in DOMAIN locals \/ req'[k] = req[k]
  BY ThenHas
<1>2. Wf' /\ RowsStay
  BY <1>1, WorldStays
<1>3. UNCHANGED <<wallets, runs, snaps, legacy, manual, lastId, now, patches, gone>>
  BY <1>1 DEF world, tables
<1>4. {"op", "pc"} \subseteq DOMAIN req' /\ req'.op = req.op
  BY <1>1 DEF PcInv
<1>5. ASSUME NEW K \in SUBSET DOMAIN req, "pc" \notin K, K \cap DOMAIN locals = {}
      PROVE  Same(K)
  BY <1>1, <1>5 DEF Same
<1> QED BY <1>1, <1>2, <1>3, <1>4, <1>5

(* Requests of other kinds do not concern a summary.                        *)
LEMMA OtherOp == req'.op # "summary" => SummaryInv'
BY DEF SummaryInv, At, Done

LEMMA SnapsFinite ==
  ASSUME Wf, NEW S, S \subseteq DOMAIN snaps
  PROVE  IsFiniteSet(S) /\ S \subseteq Int
<1>1. DOMAIN snaps \subseteq 1 .. lastId /\ lastId \in Nat
  BY DEF Wf, WellFormed, SnapRows
<1>2. IsFiniteSet(1 .. lastId)
  BY <1>1, FS_Interval
<1>3. S \in SUBSET (1 .. lastId)
  BY <1>1
<1>4. IsFiniteSet(S)
  BY <1>2, <1>3, FS_Subset
<1> QED BY <1>1, <1>4

LEMMA CreatedTop ==
  ASSUME Wf, NEW S, S \subseteq DOMAIN snaps, S # {}
  PROVE  TopRow(S, CreatedAt) \in S
<1> DEFINE key == [s \in S |-> CreatedAt(s)]
<1>1. IsFiniteSet(S) /\ S \subseteq Int
  BY SnapsFinite
<1>2. \A s \in S : key[s] \in Int
  BY DEF CreatedAt, Wf, WellFormed, SnapRows, RunRows
<1>3. PICK s \in S : \A t \in S : key[t] < key[s] \/ (key[t] = key[s] /\ t <= s)
  <2> HIDE DEF key
  <2> QED BY <1>1, <1>2, SomeTop
<1>4. \A t \in S : CreatedAt(t) < CreatedAt(s) \/ (CreatedAt(t) = CreatedAt(s) /\ t <= s)
  BY <1>3
<1> QED BY <1>4 DEF TopRow

LEMMA ObservedTop ==
  ASSUME Wf, NEW S, S \subseteq DOMAIN snaps, S # {}
  PROVE  TopRow(S, Observed) \in S
<1> DEFINE key == [s \in S |-> Observed(s)]
<1>1. IsFiniteSet(S) /\ S \subseteq Int
  BY SnapsFinite
<1>2. \A s \in S : key[s] \in Int
  BY ObservedInt
<1>3. PICK s \in S : \A t \in S : key[t] < key[s] \/ (key[t] = key[s] /\ t <= s)
  <2> HIDE DEF key
  <2> QED BY <1>1, <1>2, SomeTop
<1>4. \A t \in S : Observed(t) < Observed(s) \/ (Observed(t) = Observed(s) /\ t <= s)
  BY <1>3
<1> QED BY <1>4 DEF TopRow

(* The snapshots chosen for wallets of the user.                            *)
LEMMA LatestAre ==
  ASSUME Wf, NEW W
  PROVE  /\ DOMAIN LatestSnapshots(W) \subseteq W
         /\ \A w \in DOMAIN LatestSnapshots(W) :
              LET s == LatestSnapshots(W)[w]
              IN  /\ s \in DOMAIN snaps /\ snaps[s].wallet = w
                  /\ snaps[s].status \in ReadStatuses /\ CurrentRevision(s)
<1> DEFINE Readable(w) == {s \in SnapsOf(w, ReadStatuses) : CurrentRevision(s)}
<1>1. /\ DOMAIN LatestSnapshots(W) = {w \in W : Readable(w) # {}}
      /\ \A w \in W : Readable(w) # {} =>
           LatestSnapshots(W)[w] = TopRow(Readable(w), CreatedAt)
  BY DEF LatestSnapshots
<1>2. ASSUME NEW w \in W, Readable(w) # {}
      PROVE  TopRow(Readable(w), CreatedAt) \in Readable(w)
  <2>1. Readable(w) \subseteq DOMAIN snaps
    BY DEF SnapsOf
  <2> HIDE DEF Readable
  <2> QED BY <1>2, <2>1, CreatedTop
<1>3. \A w \in W : \A s \in Readable(w) :
        /\ s \in DOMAIN snaps /\ snaps[s].wallet = w /\ snaps[s].status \in ReadStatuses
        /\ CurrentRevision(s)
  BY DEF SnapsOf
<1> HIDE DEF Readable
<1> QED BY <1>1, <1>2, <1>3

LEMMA LegacyAre ==
  ASSUME Wf, NEW W, NEW w \in DOMAIN LatestLegacy(W)
  PROVE  LET x == LatestLegacy(W)[w]
         IN  /\ x.at \in Int /\ w \in W
             /\ x.id \in DOMAIN legacy /\ legacy[x.id].wallet = w
             /\ x.total = legacy[x.id].total
<1> DEFINE Rows == {l \in DOMAIN legacy : /\ legacy[l].wallet = w
                                          /\ w \in DOMAIN wallets
                                          /\ legacy[l].at >= wallets[w].addrAt}
           top == CHOOSE s \in Rows : \A t \in Rows :
                    legacy[t].at < legacy[s].at \/ (legacy[t].at = legacy[s].at /\ t <= s)
           key == [l \in Rows |-> legacy[l].at]
<1>1. /\ Rows # {} /\ w \in W
      /\ LatestLegacy(W)[w] = [id |-> top, total |-> legacy[top].total, at |-> legacy[top].at]
  BY DEF LatestLegacy, TopRow
<1>2. IsFiniteSet(Rows) /\ Rows \subseteq Int
  BY FS_Subset DEF Wf, WellFormed, OtherRows
<1>3. \A l \in Rows : legacy[l].at \in Int
  BY DEF Wf, WellFormed, OtherRows
<1>4. PICK s \in Rows : \A t \in Rows : key[t] < key[s] \/ (key[t] = key[s] /\ t <= s)
  <2>1. \A l \in Rows : key[l] \in Int
    BY <1>3
  <2> HIDE DEF key, Rows
  <2> QED BY <1>1, <1>2, <2>1, SomeTop
<1>5. \A t \in Rows :
        legacy[t].at < legacy[s].at \/ (legacy[t].at = legacy[s].at /\ t <= s)
  BY <1>4
<1>6. top \in Rows
  <2> HIDE DEF Rows
  <2> QED BY <1>5
<1>7. top \in DOMAIN legacy /\ legacy[top].wallet = w
  <2> HIDE DEF top
  <2> QED BY <1>6
<1> HIDE DEF top, Rows
<1> QED BY <1>1, <1>3, <1>6, <1>7

LEMMA LegacyBalancesFinite ==
  ASSUME Wf, NEW l
  PROVE  IsFiniteSet(LegacyBalances(l))
<1>1. CASE l \notin DOMAIN legacy
  BY <1>1, FS_EmptySet DEF LegacyBalances
<1>2. CASE l \in DOMAIN legacy
  <2> DEFINE A == legacy[l].balances
             Out(b) == <<<<"legacy", l>>, [b EXCEPT !.price = IF b.amount = 0 THEN Null
                                              ELSE b.value \div b.amount,
                                    !.source = Null]>>
             f == [b \in A |-> Out(b)]
  <2>1. IsFiniteSet(A)
    BY <1>2 DEF Wf, WellFormed, OtherRows, Written, BalanceRows
  <2>2. IsFiniteSet({f[b] : b \in A})
    <3> HIDE DEF f, A
    <3> QED BY <2>1, ImageFinite
  <2>3. {f[b] : b \in A} = {Out(b) : b \in A}
    <3> HIDE DEF Out
    <3> QED OBVIOUS
  <2>4. LegacyBalances(l) = {Out(b) : b \in A}
    BY <1>2 DEF LegacyBalances
  <2> HIDE DEF Out, f, A
  <2> QED BY <2>2, <2>3, <2>4
<1> QED BY <1>1, <1>2

LEMMA ManualBalancesFinite ==
  ASSUME Wf, NEW w
  PROVE  IsFiniteSet(ManualBalances(w))
<1>1. CASE w \notin DOMAIN manual
  BY <1>1, FS_EmptySet DEF ManualBalances
<1>2. CASE w \in DOMAIN manual
  <2> DEFINE A == manual[w]
             Out(b) == <<<<"manual", w>>, [b EXCEPT !.value = ManualValue(b)]>>
             f == [b \in A |-> Out(b)]
  <2>1. IsFiniteSet(A)
    BY <1>2 DEF Wf, WellFormed, OtherRows, Written, BalanceRows
  <2>2. IsFiniteSet({f[b] : b \in A})
    <3> HIDE DEF f, A
    <3> QED BY <2>1, ImageFinite
  <2>3. {f[b] : b \in A} = {Out(b) : b \in A}
    <3> HIDE DEF Out
    <3> QED OBVIOUS
  <2>4. ManualBalances(w) = {Out(b) : b \in A}
    BY <1>2 DEF ManualBalances
  <2> HIDE DEF Out, f, A
  <2> QED BY <2>2, <2>3, <2>4
<1> QED BY <1>1, <1>2

(* A row of the current revision is one of the wallet's address, unless it  *)
(* raced.                                                                   *)
LEMMA OfItsAddress ==
  ASSUME Wf, NEW s \in DOMAIN snaps, CurrentRevision(s), NEW w, w = snaps[s].wallet
  PROVE  Races(w, s) \/ snaps[s].key = wallets[w].address
BY DEF Wf, AddressRows, CurrentRevision, Races, CreatedAt

(* The wallets, then what build_wallet_balance_info reads of them.          *)
LEMMA WalletsRead ==
  ASSUME Wf, PcInv, SummaryWallets
  PROVE  SummaryInv'
<1> DEFINE W == CanonicalWallets(Me)
           locals == [wallets |-> W, rows |-> Keep(wallets, W)]
<1>1. Then("latest", locals) /\ req.op = "summary"
  BY DEF SummaryWallets, ReadWallets, At
<1>2. DOMAIN locals = {"wallets", "rows"} /\ locals.wallets = W
  OBVIOUS
<1>3. W \subseteq DOMAIN wallets /\ \A w \in W : wallets[w].user = Me
  BY DEF CanonicalWallets, ActiveOf
<1>4. IsFiniteSet(W)
  BY <1>3, FS_Subset DEF Wf, WellFormed, WalletRows
<1> HIDE DEF W, locals
<1>5. /\ req'.pc = "latest" /\ wallets' = wallets /\ req'.wallets = W
      /\ {"wallets", "rows"} \subseteq DOMAIN req'
  BY <1>1, <1>2, StepTaken
<1>6. WalletsKnown'
  BY <1>3, <1>4, <1>5 DEF WalletsKnown
<1> QED BY <1>5, <1>6 DEF SummaryInv, At, Done

LEMMA LatestRead ==
  ASSUME Wf, PcInv, SummaryInv, req.op = "summary", ReadLatest
  PROVE  SummaryInv'
<1> DEFINE latest == LatestSnapshots(req.wallets)
           locals == [latest |-> latest]
<1>1. Then("meta", locals) /\ At("summary", "latest")
  BY DEF ReadLatest, At
<1>2. DOMAIN locals = {"latest"} /\ locals.latest = latest
  OBVIOUS
<1>3. WalletsKnown
  BY <1>1 DEF SummaryInv
<1> HIDE DEF latest, locals
<1>4. /\ Wf' /\ RowsStay /\ req'.pc = "meta" /\ req'.latest = latest
      /\ "latest" \in DOMAIN req' /\ snaps' = snaps /\ lastId' = lastId
      /\ Same({"wallets", "rows"})
  BY <1>1, <1>2, <1>3, StepTaken DEF WalletsKnown
<1>5. WalletsKnown'
  BY <1>3, <1>4, WalletsStay
<1>6. /\ DOMAIN latest \subseteq req.wallets
      /\ \A w \in DOMAIN latest :
           LET s == latest[w]
           IN  s \in DOMAIN snaps /\ snaps[s].wallet = w /\ snaps[s].status \in ReadStatuses
               /\ CurrentRevision(s)
  BY LatestAre DEF latest
<1>a. ASSUME NEW w \in DOMAIN latest, NEW s, s = latest[w]
      PROVE  Explained(w, s)'
  <2>1. s \in DOMAIN snaps /\ snaps[s].wallet = w /\ CurrentRevision(s)
    BY <1>6, <1>a
  <2>2. Explained(w, s)
    BY <2>1, OfItsAddress DEF Explained
  <2> QED BY <1>4, <1>6, <1>a, <2>1, <2>2, ExplainedStays DEF Wf, WellFormed, SnapRows
<1>7. DOMAIN snaps \subseteq 1 .. lastId /\ req'.wallets = req.wallets
  BY <1>4 DEF Wf, WellFormed, SnapRows, Same
<1>8. LatestKnown'
  BY <1>4, <1>6, <1>7, <1>a DEF LatestKnown
<1> QED BY <1>4, <1>5, <1>8 DEF SummaryInv, At, Done, Picked

LEMMA MetaRead ==
  ASSUME Wf, PcInv, SummaryInv, req.op = "summary", ReadMeta
  PROVE  SummaryInv'
<1> DEFINE meta == [s \in Chosen \cap DOMAIN snaps |->
                      [total |-> snaps[s].total, at |-> Observed(s)]]
           locals == [meta |-> meta]
<1>1. Then("assets", locals) /\ At("summary", "meta")
  BY DEF ReadMeta, At
<1>2. DOMAIN locals = {"meta"} /\ locals.meta = meta
  OBVIOUS
<1>3. Picked
  BY <1>1 DEF SummaryInv
<1>4. \A s \in DOMAIN meta : meta[s].at \in Int
  BY ObservedInt
<1> HIDE DEF meta, locals
<1>5. /\ Wf' /\ RowsStay /\ req'.pc = "assets" /\ req'.meta = meta
      /\ "meta" \in DOMAIN req' /\ Same({"wallets", "rows", "latest"})
  BY <1>1, <1>2, <1>3, StepTaken DEF WalletsKnown, LatestKnown, Picked
<1>6. Picked' /\ MetaKnown'
  BY <1>3, <1>4, <1>5, PickedStays DEF MetaKnown
<1> QED BY <1>5, <1>6 DEF SummaryInv, At, Done, Measured

LEMMA AssetsRead ==
  ASSUME Wf, PcInv, SummaryInv, req.op = "summary", ReadAssets
  PROVE  SummaryInv'
<1> DEFINE locals == [assets |-> [s \in Chosen |-> BalancesOf({s})]]
<1>1. Then("legacy", locals) /\ At("summary", "assets")
  BY DEF ReadAssets, At
<1>2. DOMAIN locals = {"assets"}
  OBVIOUS
<1>3. Measured
  BY <1>1 DEF SummaryInv
<1> HIDE DEF locals
<1>4. /\ Wf' /\ RowsStay /\ req'.pc = "legacy" /\ "assets" \in DOMAIN req'
      /\ Same({"wallets", "rows", "latest", "meta"})
  BY <1>1, <1>2, <1>3, StepTaken DEF WalletsKnown, LatestKnown, Picked, Measured, MetaKnown
<1>5. Measured'
  BY <1>3, <1>4, MeasuredStays
<1> QED BY <1>4, <1>5 DEF SummaryInv, At, Done, Detailed

LEMMA LegacyRead ==
  ASSUME Wf, PcInv, SummaryInv, req.op = "summary", ReadLegacy
  PROVE  SummaryInv'
<1> DEFINE old == LatestLegacy(req.wallets \ DOMAIN req.latest)
           locals == [legacy |-> old]
<1>1. Then("legacyAssets", locals) /\ At("summary", "legacy")
  BY DEF ReadLegacy, At
<1>2. DOMAIN locals = {"legacy"} /\ locals.legacy = old
  OBVIOUS
<1>3. Detailed
  BY <1>1 DEF SummaryInv
<1>4. \A w \in DOMAIN old : old[w].at \in Int
  BY LegacyAre
<1> HIDE DEF old, locals
<1>5. /\ Wf' /\ RowsStay /\ req'.pc = "legacyAssets" /\ req'.legacy = old
      /\ "legacy" \in DOMAIN req' /\ Same({"wallets", "rows", "latest", "meta", "assets"})
  BY <1>1, <1>2, <1>3, StepTaken
  DEF WalletsKnown, LatestKnown, Picked, Measured, MetaKnown, Detailed
<1>6. Detailed' /\ LegacyKnown'
  BY <1>3, <1>4, <1>5, DetailedStays DEF LegacyKnown
<1> QED BY <1>5, <1>6 DEF SummaryInv, At, Done, Completed

LEMMA LegacyAssetsRead ==
  ASSUME Wf, PcInv, SummaryInv, req.op = "summary", ReadLegacyAssets
  PROVE  SummaryInv'
<1> DEFINE assets == [w \in DOMAIN req.legacy |-> LegacyBalances(req.legacy[w].id)]
           locals == [legacyAssets |-> assets]
<1>1. Then("manual", locals) /\ At("summary", "legacyAssets")
  BY DEF ReadLegacyAssets, At
<1>2. DOMAIN locals = {"legacyAssets"} /\ locals.legacyAssets = assets
  OBVIOUS
<1>3. Completed
  BY <1>1 DEF SummaryInv
<1>4. \A w \in DOMAIN req.legacy : IsFiniteSet(assets[w])
  BY LegacyBalancesFinite
<1> HIDE DEF assets, locals
<1>5. /\ Wf' /\ RowsStay /\ req'.pc = "manual" /\ req'.legacyAssets = assets
      /\ "legacyAssets" \in DOMAIN req'
      /\ Same({"wallets", "rows", "latest", "meta", "assets", "legacy"})
  BY <1>1, <1>2, <1>3, StepTaken
  DEF WalletsKnown, LatestKnown, Picked, Measured, MetaKnown, Detailed, Completed, LegacyKnown
<1>6. Completed' /\ LegacyAssetsKnown'
  BY <1>3, <1>4, <1>5, CompletedStays DEF LegacyAssetsKnown, Same
<1> QED BY <1>5, <1>6 DEF SummaryInv, At, Done, Filled

LEMMA ManualRead ==
  ASSUME Wf, PcInv, SummaryInv, At("summary", "manual"), ReadManual("exchange")
  PROVE  SummaryInv'
<1>1. CASE Missing
  <2> DEFINE locals == [answer |-> [code |-> 500]]
  <2>1. Then("done", locals)
    BY <1>1 DEF ReadManual, Fail
  <2>2. DOMAIN locals = {"answer"} /\ locals.answer.code = 500
    OBVIOUS
  <2> HIDE DEF locals
  <2>3. req'.pc = "done" /\ req'.answer.code = 500
    BY <2>1, <2>2, StepTaken
  <2> QED BY <2>3 DEF SummaryInv, At, Done
<1>2. CASE ~ Missing
  <2> DEFINE books == [w \in req.wallets |-> ManualBalances(w)]
             locals == [manual |-> books]
  <2>1. Then("exchange", locals)
    BY <1>2 DEF ReadManual
  <2>2. DOMAIN locals = {"manual"} /\ locals.manual = books
    OBVIOUS
  <2>3. Filled
    BY DEF SummaryInv
  <2>4. \A w \in req.wallets : IsFiniteSet(books[w])
    BY ManualBalancesFinite
  <2> HIDE DEF books, locals
  <2>5. /\ Wf' /\ RowsStay /\ req'.pc = "exchange" /\ req'.manual = books
        /\ "manual" \in DOMAIN req'
        /\ Same({"wallets", "rows", "latest", "meta", "assets", "legacy", "legacyAssets"})
    BY <2>1, <2>2, <2>3, StepTaken
    DEF WalletsKnown, LatestKnown, Picked, Measured, MetaKnown, Detailed, Completed,
        LegacyKnown, Filled, LegacyAssetsKnown
  <2>6. Filled'
    BY <2>3, <2>5, FilledStays
  <2>7. ManualKnown'
    BY <1>2, <2>4, <2>5 DEF ManualKnown, Missing, Chosen, Same
  <2> QED BY <2>5, <2>6, <2>7 DEF SummaryInv, At, Done, Valued
<1> QED BY <1>1, <1>2

LEMMA ValuedHas == Valued => InfoLocals \subseteq DOMAIN req
BY DEF Valued, Filled, Completed, Detailed, Measured, Picked, WalletsKnown, LatestKnown,
       MetaKnown, LegacyKnown, LegacyAssetsKnown, ManualKnown, InfoLocals

LEMMA ExchangeRead ==
  ASSUME Wf, PcInv, SummaryInv, SummaryExchange
  PROVE  SummaryInv'
<1>1. At("summary", "exchange") /\ Valued
  BY DEF SummaryExchange, SummaryInv
<1>2. PICK x \in Exchanges :
        Then("refresh", [ex |-> [status |-> x.status, assets |-> x.assets,
                                 asOf |-> IF x.age = Null THEN Null ELSE now - x.age]])
  BY DEF SummaryExchange, AskExchange
<1> DEFINE ex == [status |-> x.status, assets |-> x.assets,
                  asOf |-> IF x.age = Null THEN Null ELSE now - x.age]
           locals == [ex |-> ex]
<1>3. Then("refresh", locals) /\ DOMAIN locals = {"ex"} /\ locals.ex = ex
  BY <1>2
<1>4. /\ IsFiniteSet(ex.assets) /\ (ex.status = "success" \/ ex.assets = {})
      /\ ex.asOf = Null \/ ex.asOf \in Int
  <2>1. now \in Int
    BY PortfolioAssumption DEF Wf
  <2> QED BY <2>1, ExchangesAssumption
<1> HIDE DEF ex, locals
<1>5. /\ Wf' /\ RowsStay /\ req'.pc = "refresh" /\ req'.ex = ex /\ "ex" \in DOMAIN req'
  BY <1>3, StepTaken
<1>6. Same(InfoLocals)
  BY <1>1, <1>3, ValuedHas, StepTaken DEF InfoLocals
<1>7. Valued' /\ ExchangeKnown'
  BY <1>1, <1>4, <1>5, <1>6, ValuedStays DEF ExchangeKnown
<1> QED BY <1>5, <1>7 DEF SummaryInv, At, Done

LEMMA RefreshRead ==
  ASSUME Wf, PcInv, SummaryInv, SummaryRefresh
  PROVE  SummaryInv'
<1> DEFINE locals == [refreshing |-> Refreshing(Me)]
<1>1. /\ Then("issues", locals) /\ At("summary", "refresh")
      /\ DOMAIN locals = {"refreshing"} /\ locals.refreshing \in BOOLEAN
  BY DEF SummaryRefresh, Refreshing
<1>2. Valued /\ ExchangeKnown
  BY <1>1 DEF SummaryInv
<1> HIDE DEF locals
<1>3. Wf' /\ RowsStay /\ req'.pc = "issues" /\ RefreshKnown'
  BY <1>1, StepTaken DEF RefreshKnown
<1>4. Same(InfoLocals) /\ Same({"ex"})
  BY <1>1, <1>2, ValuedHas, StepTaken DEF InfoLocals, ExchangeKnown
<1>5. Valued' /\ ExchangeKnown'
  BY <1>2, <1>3, <1>4, ValuedStays, ExchangeStays
<1> QED BY <1>3, <1>5 DEF SummaryInv, At, Done, Gathered

LEMMA IssuesRead ==
  ASSUME Wf, PcInv, SummaryInv, req.op = "summary", SummaryIssues
  PROVE  SummaryInv'
<1> DEFINE issues == Unfinished(SnapsIn(Infos(req)))
           locals == [issues |-> issues]
<1>1. /\ Then("prices", locals) /\ At("summary", "issues")
      /\ DOMAIN locals = {"issues"} /\ locals.issues = issues
  BY DEF SummaryIssues, At
<1>2. Gathered
  BY <1>1 DEF SummaryInv
<1>3. issues = UnfinishedAmong(snaps, Chosen)
  <2>1. SnapsIn(Infos(req)) = Chosen
    BY <1>2, GatheredPicked, SnapsChosen DEF LatestKnown
  <2> QED BY <2>1 DEF Unfinished, PartsOf, UnfinishedAmong, PartsAmong
<1> HIDE DEF issues, locals
<1>4. /\ Wf' /\ RowsStay /\ req'.pc = "prices" /\ req'.issues = issues
      /\ "issues" \in DOMAIN req' /\ UNCHANGED <<snaps, runs, gone>>
  BY <1>1, StepTaken
<1>5. Same(InfoLocals \cup {"ex", "refreshing"})
  BY <1>1, <1>2, GatheredHas, StepTaken DEF InfoLocals
<1>6. Gathered'
  BY <1>2, <1>4, <1>5, GatheredStays
<1>7. issues = {} => AllDone(Chosen)
  <2>1. ASSUME NEW s \in Chosen \cap DOMAIN snaps, NEW p \in snaps[s].parts, p.status # "success"
        PROVE  issues # {}
    <3> DEFINE x == <<s, [chain |-> p.chain, status |-> p.status, run |-> snaps[s].run]>>
    <3>1. x \in UnfinishedAmong(snaps, Chosen)
      BY <2>1, OneUnfinished
    <3> QED BY <1>3, <3>1
  <2> QED BY <2>1 DEF AllDone
<1>8. ASSUME NEW x \in issues, x[2].status = "failed"
      PROVE  Retryable(x[2].run)
  <2>1. PICK s \in Chosen \cap DOMAIN snaps : \E p \in snaps[s].parts :
          /\ p.status # "success"
          /\ x = <<s, [chain |-> p.chain, status |-> p.status, run |-> snaps[s].run]>>
    BY <1>3, OneUnfinished
  <2>2. PICK p \in snaps[s].parts :
          x = <<s, [chain |-> p.chain, status |-> p.status, run |-> snaps[s].run]>>
    BY <2>1
  <2>3. x[2].status = p.status /\ x[2].run = snaps[s].run
    BY <2>2
  <2>4. FailedChains(snaps[s].run) # {}
    <3>1. FailedChains(snaps[s].run) = FailedAmong(snaps, snaps[s].run)
      BY DEF FailedChains, Unfinished, PartsOf, FailedAmong, UnfinishedAmong, PartsAmong
    <3> QED BY <1>8, <2>3, <3>1, FailedChain
  <2>5. /\ snaps[s].run \in DOMAIN runs /\ snaps[s].run \in Nat
        /\ snaps[s].wallet \in DOMAIN wallets
        /\ runs[snaps[s].run].user = wallets[snaps[s].wallet].user
    BY DEF Wf, WellFormed, SnapRows, RunRows
  <2>6. snaps[s].wallet \in req.wallets
    BY <1>2, GatheredPicked DEF LatestKnown, Chosen
  <2>7. OwnRun(snaps[s].run)
    BY <1>2, <2>5, <2>6, GatheredPicked DEF WalletsKnown, OwnRun
  <2> QED BY <2>3, <2>4, <2>5, <2>7 DEF Retryable
<1>9. Chosen' = Chosen
  BY <1>5 DEF Chosen, Same, InfoLocals
<1>10. IssuesKnown'
  <2>1. issues = {} => AllDone(Chosen)'
    BY <1>4, <1>7, <1>9 DEF AllDone
  <2>2. ASSUME NEW x \in issues, x[2].status = "failed" PROVE Retryable(x[2].run)'
    <3>1. Retryable(x[2].run)
      BY <1>8, <2>2
    <3> QED BY <1>4, <3>1, RetryableStays
  <2> QED BY <1>4, <2>1, <2>2 DEF IssuesKnown
<1> QED BY <1>4, <1>6, <1>10 DEF SummaryInv, At, Done

(* A priced set of balances, snapshot by snapshot.                          *)
LEMMA PricedEach ==
  ASSUME NEW S
  PROVE  (\A x \in Relevant(BalancesOf(S)) : x[2].price # Null) <=> AllPriced(S)
<1>1. \A x : x \in BalancesOf(S) <=> \E s \in S \cap DOMAIN snaps : x \in BalancesOf({s})
  <2> SUFFICES ASSUME NEW x
               PROVE  x \in BalancesOf(S) <=>
                        \E s \in S \cap DOMAIN snaps : x \in BalancesOf({s})
    OBVIOUS
  <2>1. ASSUME NEW s \in S \cap DOMAIN snaps
        PROVE  x \in BalancesOf({s}) <=>
                 \E p \in snaps[s].parts : \E b \in p.balances : x = <<<<"snapshot", s>>, b>>
    <3>1. {s} \cap DOMAIN snaps = {s}
      OBVIOUS
    <3> QED BY <3>1, OneBalance
  <2> QED BY <2>1, OneBalance
<1> QED BY <1>1 DEF Relevant, AllPriced

(* The health of a summary, and what it says about its rows.                *)
HealthFacts(h) ==
  /\ h.retry = Null \/ Retryable(h.retry)
  /\ h.issues = {} => AllDone(Chosen)
  /\ req.ex.assets = {} /\ h.quality.state = "complete" => AllPriced(Chosen)
  /\ h.state = "fresh" =>
       /\ ~ req.refreshing /\ req.ex.status \in {"not_configured", "success"}
       /\ \A a \in req.ex.assets : a.price # Null
       /\ AllDone(Chosen) /\ AllPriced(Chosen)
       /\ \A w \in req.wallets :
            LET info == Info(req, w)
            IN  info.source # "none" /\ (info.at # Null => now - info.at <= Stale)

LEMMA HealthRead ==
  ASSUME Wf, PcInv, Gathered, IssuesKnown, At("summary", "prices"),
         NEW own, own = DataHealth(Infos(req), req.refreshing, req.issues,
                                   BalancesOf(SnapsIn(Infos(req))), now),
         NEW h, h = MergeExchange(own, req.ex, now)
  PROVE  HealthFacts(h)
<1> DEFINE infos == Infos(req)
           balances == BalancesOf(Chosen)
<1>1. /\ Valued /\ Picked /\ ExchangeKnown /\ DOMAIN req.latest \subseteq req.wallets
      /\ req.refreshing \in BOOLEAN
  BY GatheredPicked DEF Gathered, LatestKnown, RefreshKnown
<1>2. SnapsIn(infos) = Chosen /\ IsFiniteSet(balances)
  BY <1>1, SnapsChosen, ChosenFinite, BalancesFinite
<1>3. own = DataHealth(infos, req.refreshing, req.issues, balances, now)
  BY <1>2
<1>4. /\ IsFiniteSet(DOMAIN infos) /\ DOMAIN infos = req.wallets
      /\ \A w \in req.wallets :
           /\ infos[w] = Info(req, w)
           /\ infos[w].at = Null \/ infos[w].at \in Int
           /\ infos[w].snap = Null => IsFiniteSet(infos[w].assets)
  BY <1>1, InfosFit
<1>5. now \in Int
  BY PortfolioAssumption DEF Wf
<1> HIDE DEF infos, balances
<1>6. /\ own.retry = RetryableJob(req.issues) /\ own.issues = ChainIssues(req.issues)
      /\ own.refreshing = req.refreshing
      /\ own.asOf = Null \/ own.asOf \in Int
      /\ \A w \in DOMAIN infos :
           infos[w].at # Null => own.asOf # Null /\ own.asOf <= infos[w].at
      /\ own.freshness = Freshness(own.asOf, now)
      /\ own.quality.priced \in Nat /\ own.quality.total \in Nat
      /\ own.quality.state = "complete" \/ own.quality.priced >= own.quality.total =>
           \A x \in Relevant(balances) : x[2].price # Null
      /\ own.state # "partial" =>
           /\ req.issues = {}
           /\ \A x \in Relevant(balances) : x[2].price # Null
           /\ ~ req.refreshing => \A w \in DOMAIN infos : infos[w].source # "none"
      /\ own.state = "fresh" => ~ req.refreshing /\ own.freshness # "stale"
  <2>1. HealthInput(infos, balances)
    BY <1>2, <1>4 DEF HealthInput
  <2>2. HealthSays(own, infos, req.refreshing, req.issues, balances, now)
    BY <1>1, <1>3, <1>5, <2>1, HealthOf
  <2> QED BY <2>2 DEF HealthSays
<1>7. DOMAIN own = HealthFields
  BY <1>3, HealthHas
<1>8. /\ h.retry = own.retry /\ h.issues = own.issues
      /\ req.ex.assets = {} /\ h.quality.state = "complete" =>
           own.quality.state = "complete" \/ own.quality.priced >= own.quality.total
      /\ h.state = "fresh" =>
           /\ own.state # "partial" /\ ~ own.refreshing
           /\ req.ex.status \in {"not_configured", "success"}
           /\ \A a \in req.ex.assets : a.price # Null
           /\ own.asOf # Null => now - own.asOf <= Stale
  <2>1. /\ req.ex.asOf = Null \/ req.ex.asOf \in Int
        /\ req.ex.status = "success" \/ req.ex.assets = {}
    BY <1>1 DEF ExchangeKnown
  <2>2. MergeInput(own, req.ex, now)
    BY <1>1, <1>5, <1>6, <1>7, <2>1 DEF MergeInput
  <2>3. MergeSays(h, own, req.ex, now)
    BY <2>2, MergedHealth
  <2> QED BY <2>3 DEF MergeSays
<1>9. (\A x \in Relevant(balances) : x[2].price # Null) <=> AllPriced(Chosen)
  BY PricedEach DEF balances
<1>10. h.retry = Null \/ Retryable(h.retry)
  <2>1. SUFFICES ASSUME RetryableJob(req.issues) # Null
                 PROVE  Retryable(RetryableJob(req.issues))
    BY <1>6, <1>8
  <2>2. PICK x \in req.issues :
          x[2].status = "failed" /\ x[2].run = RetryableJob(req.issues)
    BY <2>1, RetryableRow
  <2> QED BY <2>2 DEF IssuesKnown
<1>11. h.issues = {} => AllDone(Chosen)
  BY <1>6, <1>8, NoIssues DEF IssuesKnown
<1>12. ASSUME h.state = "fresh", NEW w \in req.wallets
       PROVE  /\ Info(req, w).source # "none"
              /\ Info(req, w).at # Null => now - Info(req, w).at <= Stale
  <2>1. infos[w] = Info(req, w) /\ w \in DOMAIN infos
    BY <1>4
  <2>2. Info(req, w).source # "none"
    BY <1>6, <1>8, <1>12, <2>1
  <2>3. ASSUME Info(req, w).at # Null PROVE now - Info(req, w).at <= Stale
    <3>1. own.asOf # Null /\ own.asOf <= Info(req, w).at /\ Info(req, w).at \in Int
      BY <1>4, <1>6, <2>1, <2>3
    <3>2. now - own.asOf <= Stale
      BY <1>8, <1>12, <3>1
    <3> QED BY <1>5, <1>6, <3>1, <3>2, PortfolioAssumption
  <2> QED BY <2>2, <2>3
<1>13. h.state = "fresh" => AllDone(Chosen) /\ AllPriced(Chosen)
  BY <1>6, <1>8, <1>9 DEF IssuesKnown
<1>14. req.ex.assets = {} /\ h.quality.state = "complete" => AllPriced(Chosen)
  BY <1>6, <1>8, <1>9
<1> QED
  <2>1. h.state = "fresh" => ~ req.refreshing
    BY <1>6, <1>8
  <2> QED BY <1>8, <1>10, <1>11, <1>12, <1>13, <1>14, <2>1 DEF HealthFacts


(* It is known of the answer, in whichever way it is given.                 *)
LEMMA HealthTold ==
  ASSUME Wf, Wf', RowsStay, Gathered, NEW h, HealthFacts(h), UNCHANGED world,
         Same(InfoLocals \cup {"ex", "refreshing"}), req'.at = now
  PROVE  HealthKnown(h)'
<1>1. LatestKnown /\ Same({"wallets", "latest"})
  BY GatheredPicked DEF Same, InfoLocals
<1>2. Chosen' = Chosen /\ Chosen \subseteq 1 .. lastId
  BY <1>1, LatestStay
<1>3. h.retry = Null \/ Retryable(h.retry)'
  <2>1. PICK j : j = h.retry
    OBVIOUS
  <2>2. j = Null \/ Retryable(j)'
    BY <2>1, RetryableStays DEF HealthFacts
  <2> QED BY <2>1, <2>2
<1>4. ASSUME h.state = "fresh" PROVE FreshKnown'
  <2>1. /\ req'.refreshing = req.refreshing /\ req'.ex = req.ex
        /\ req'.wallets = req.wallets
    BY DEF Same, InfoLocals
  <2>2. (AllDone(Chosen) /\ AllPriced(Chosen))'
    BY <1>2, <1>4, AllStay DEF HealthFacts, AllDone, AllPriced
  <2>3. \A w : Info(req', w) = Info(req, w)
    <3>1. \A k \in InfoLocals : req'[k] = req[k]
      BY DEF Same
    <3> QED BY <3>1, InfoSame
  <2> QED BY <1>4, <2>1, <2>2, <2>3 DEF HealthFacts, FreshKnown
<1> QED BY <1>3, <1>4 DEF HealthKnown

LEMMA AnswerKnown ==
  ASSUME req'.pc = "done", Gathered', "at" \in DOMAIN req',
         NEW h, HealthKnown(h)', req'.answer.health = h,
         req'.answer.change.status = "complete" => CompleteKnown'
  PROVE  SummaryInv'
<1>1. HealthKnown(req.answer.health)'
  BY DEF HealthKnown, Retryable, OwnRun, FailedChains
<1>2. DoneKnown'
  BY <1>1 DEF DoneKnown
<1> QED BY <1>2 DEF SummaryInv, At, Done

LEMMA PricesRead ==
  ASSUME Wf, PcInv, SummaryInv, SummaryPrices
  PROVE  SummaryInv'
<1>1. At("summary", "prices") /\ Gathered /\ IssuesKnown
  BY DEF SummaryPrices, SummaryInv
<1>2. PICK own : own = DataHealth(Infos(req), req.refreshing, req.issues,
                                  BalancesOf(SnapsIn(Infos(req))), now)
  OBVIOUS
<1>3. PICK h : h = MergeExchange(own, req.ex, now)
  OBVIOUS
<1>4. PICK none : none = NoCounterpart(Infos(req), req.ex)
  OBVIOUS
<1>5. PICK total : total = SummaryTotal(req)
  OBVIOUS
<1>6. IF none # {}
        THEN Then("done", With([at |-> now], Answered(total, h,
                                                      Result("unavailable", none))))
        ELSE Then("current", [health |-> h, at |-> now])
  BY <1>2, <1>3, <1>4, <1>5 DEF SummaryPrices
<1>7. HealthFacts(h)
  BY <1>1, <1>2, <1>3, HealthRead
<1>8. now \in Int
  BY PortfolioAssumption DEF Wf
<1>9. CASE none # {}
  <2> DEFINE locals == With([at |-> now], Answered(total, h, Result("unavailable", none)))
  <2>1. Then("done", locals)
    BY <1>6, <1>9
  <2>2. /\ DOMAIN locals = {"at", "answer"} /\ locals.at = now
        /\ locals.answer.health = h /\ locals.answer.change.status = "unavailable"
    BY DEF With, Answered, Result
  <2> HIDE DEF locals
  <2>3. /\ Wf' /\ RowsStay /\ UNCHANGED world /\ req'.pc = "done" /\ req'.at = now
        /\ "at" \in DOMAIN req' /\ req'.answer = locals.answer
    BY <2>1, <2>2, StepTaken
  <2>4. Same(InfoLocals \cup {"ex", "refreshing"})
    BY <1>1, <2>1, <2>2, GatheredHas, StepTaken DEF InfoLocals
  <2>5. Gathered' /\ HealthKnown(h)'
    BY <1>1, <1>7, <2>3, <2>4, GatheredStays, HealthTold
  <2> QED BY <2>2, <2>3, <2>5, AnswerKnown
<1>10. CASE none = {}
  <2> DEFINE locals == [health |-> h, at |-> now]
  <2>1. Then("current", locals)
    BY <1>6, <1>10
  <2>2. DOMAIN locals = {"health", "at"} /\ locals.health = h /\ locals.at = now
    OBVIOUS
  <2> HIDE DEF locals
  <2>3. /\ Wf' /\ RowsStay /\ UNCHANGED <<world, snaps, runs>> /\ req'.pc = "current"
        /\ req'.at = now /\ req'.health = h /\ {"health", "at"} \subseteq DOMAIN req'
    BY <2>1, <2>2, StepTaken
  <2>4. Same(InfoLocals \cup {"ex", "refreshing"})
    BY <1>1, <2>1, <2>2, GatheredHas, StepTaken DEF InfoLocals
  <2>5. Gathered' /\ HealthKnown(h)'
    BY <1>1, <1>7, <2>3, <2>4, GatheredStays, HealthTold
  <2>6. HealthKnown(req.health)'
    BY <2>3, <2>5 DEF HealthKnown, Retryable, OwnRun, FailedChains
  <2>7. req.ex.assets = {} /\ \A w \in req.wallets : Info(req, w).snap # Null
    <3>1. req.ex.assets = {} /\ ~ \E w \in DOMAIN Infos(req) : Infos(req)[w].snap = Null
      BY <1>4, <1>10 DEF NoCounterpart
    <3> QED BY <3>1 DEF Infos
  <2>8. DOMAIN req.latest = req.wallets
    <3>1. DOMAIN req.latest \subseteq req.wallets
      BY <1>1, GatheredPicked DEF LatestKnown
    <3>2. \A w \in req.wallets : w \notin DOMAIN req.latest => Info(req, w).snap = Null
      BY InfoOf
    <3> QED BY <2>7, <3>1, <3>2
  <2>9. /\ req'.latest = req.latest /\ req'.wallets = req.wallets /\ Chosen' = Chosen
    BY <2>4 DEF Same, InfoLocals, Chosen
  <2>10. /\ h.issues = {} => AllDone(Chosen)'
         /\ h.quality.state = "complete" => AllPriced(Chosen)'
    BY <1>7, <2>3, <2>7, <2>9 DEF HealthFacts, AllDone, AllPriced, BalancesOf, PartsOf
  <2>11. \A s \in Chosen \cap DOMAIN snaps : Observed(s)' <= now
    BY <2>3, ObservedInt DEF Observed
  <2>12. EndKnown'
    BY <1>8, <2>3, <2>6, <2>8, <2>9, <2>10, <2>11 DEF EndKnown
  <2> QED BY <2>3, <2>5, <2>12 DEF SummaryInv, At, Done, Judged
<1> QED BY <1>9, <1>10

(* What the health and the dates of the current values show.                *)
LEMMA NoReasons ==
  ASSUME Wf, Judged, NEW rows, rows = Chosen \cap DOMAIN snaps,
         CurrentReasons(rows, {Observed(s) : s \in rows}) = {}
  PROVE  CurrentKnown
<1> DEFINE times == {Observed(s) : s \in rows}
<1>1. /\ req.health.issues = {} /\ req.health.quality.state = "complete"
      /\ times # {} => ~ (req.at - Min(times) > Fresh)
  <2>1. /\ "current_chain_issues" \notin CurrentReasons(rows, times)
        /\ "current_price_quality" \notin CurrentReasons(rows, times)
        /\ "current_observation_skew" \notin CurrentReasons(rows, times)
    OBVIOUS
  <2>2. req.health.issues = {}
    BY <2>1 DEF CurrentReasons
  <2>3. req.health.quality.state = "complete"
    BY <2>1 DEF CurrentReasons
  <2>4. times # {} => ~ (req.at - Min(times) > Fresh)
    <3> HIDE DEF times
    <3> QED BY <2>1 DEF CurrentReasons
  <2> QED BY <2>2, <2>3, <2>4
<1>2. AllDone(Chosen) /\ AllPriced(Chosen) /\ req.at \in Int
  BY <1>1 DEF Judged, EndKnown
<1>3. ASSUME NEW s \in rows PROVE req.at - Observed(s) <= Fresh
  <2> DEFINE f == [r \in rows |-> Observed(r)]
  <2>1. IsFiniteSet(rows)
    BY SnapsFinite
  <2>2. IsFiniteSet({f[r] : r \in rows})
    <3> HIDE DEF f
    <3> QED BY <2>1, ImageFinite
  <2>3. times = {f[r] : r \in rows}
    OBVIOUS
  <2>4. times \subseteq Int /\ Observed(s) \in times
    BY ObservedInt
  <2> HIDE DEF times, f
  <2>5. Min(times) \in Int /\ Min(times) <= Observed(s) /\ Observed(s) \in Int
    BY <2>2, <2>3, <2>4, MinLeast
  <2> QED BY <1>1, <1>2, <2>4, <2>5, PortfolioAssumption
<1> QED BY <1>2, <1>3 DEF CurrentKnown

LEMMA SkippedHas == DOMAIN NoLocals = {}
BY DEF NoLocals

(* A summary that ends with the health it has.                              *)
LEMMA JudgedAnswer ==
  ASSUME Wf, PcInv, Judged, NEW total, NEW change,
         Then("done", Answered(total, req.health, change)),
         change.status = "complete" => CompleteKnown
  PROVE  SummaryInv'
<1> DEFINE locals == Answered(total, req.health, change)
<1>1. /\ Then("done", locals) /\ DOMAIN locals = {"answer"}
      /\ locals.answer.health = req.health /\ locals.answer.change = change
  BY DEF Answered
<1> HIDE DEF locals
<1>2. /\ Wf' /\ RowsStay /\ req'.pc = "done" /\ req'.answer = locals.answer
      /\ \A K \in SUBSET DOMAIN req :
           "pc" \notin K /\ "answer" \notin K => Same(K)
  BY <1>1, StepTaken
<1>3. Same(SummaryLocals)
  BY <1>2, JudgedHas DEF SummaryLocals, InfoLocals
<1>4. Gathered'
  BY <1>2, <1>3, GatheredStays DEF Judged, Same, SummaryLocals
<1>5. "at" \in DOMAIN req'
  BY <1>3 DEF Same, SummaryLocals
<1>6. LatestKnown
  BY GatheredPicked DEF Judged
<1>7. PICK h : h = req.health
  OBVIOUS
<1>8. HealthKnown(h)
  BY <1>7 DEF Judged, EndKnown, HealthKnown
<1>9. HealthKnown(h)'
  BY <1>2, <1>3, <1>6, <1>8, HealthStays
<1>10. ASSUME change.status = "complete" PROVE CompleteKnown'
  <2>1. CompleteKnown
    BY <1>10
  <2>2. Same({"wallets", "latest", "at", "base"})
    BY <1>2, <2>1, JudgedHas DEF CompleteKnown, BaseKnown, SummaryLocals, InfoLocals
  <2> QED BY <1>2, <1>6, <2>1, <2>2, CompleteStays
<1>11. req'.answer.health = h /\ req'.answer.change = change
  BY <1>1, <1>2, <1>7
<1> QED BY <1>2, <1>4, <1>5, <1>9, <1>10, <1>11, AnswerKnown

LEMMA CurrentRead ==
  ASSUME Wf, PcInv, SummaryInv, SummaryCurrent
  PROVE  SummaryInv'
<1>1. At("summary", "current") /\ Judged
  BY DEF SummaryCurrent, SummaryInv
<1>2. SnapsIn(Infos(req)) = Chosen
  BY <1>1, GatheredPicked, SnapsChosen DEF Judged, LatestKnown
<1>3. PICK rows : rows = Chosen \cap DOMAIN snaps
  OBVIOUS
<1>4. PICK reasons : reasons = CurrentReasons(rows, {Observed(s) : s \in rows})
  OBVIOUS
<1>5. PICK total : total = SummaryTotal(req)
  OBVIOUS
<1>6. IF reasons # {}
        THEN Then("done", Answered(total, req.health, Result("incomplete", reasons)))
        ELSE Then("baseline", NoLocals)
  BY <1>2, <1>3, <1>4, <1>5 DEF SummaryCurrent
<1>7. CASE reasons # {}
  <2>1. PICK change : change = Result("incomplete", reasons)
    OBVIOUS
  <2>2. change.status # "complete"
    BY <2>1 DEF Result
  <2> QED BY <1>1, <1>6, <1>7, <2>1, <2>2, JudgedAnswer
<1>8. CASE reasons = {}
  <2>1. CurrentKnown
    BY <1>1, <1>3, <1>4, <1>8, NoReasons
  <2>2. Then("baseline", NoLocals)
    BY <1>6, <1>8
  <2>3. /\ Wf' /\ RowsStay /\ req'.pc = "baseline"
        /\ \A K \in SUBSET DOMAIN req : "pc" \notin K => Same(K)
    BY <2>2, SkippedHas, StepTaken
  <2>4. Same(SummaryLocals \cup {"health"})
    BY <1>1, <2>3, JudgedHas DEF SummaryLocals, InfoLocals
  <2>5. Judged'
    BY <1>1, <2>3, <2>4, JudgedStays
  <2>6. CurrentKnown'
    BY <1>1, <2>1, <2>3, <2>4, CurrentStays, GatheredPicked
    DEF Judged, Same, SummaryLocals, InfoLocals
  <2> QED BY <2>3, <2>5, <2>6 DEF SummaryInv, At, Done
<1> QED BY <1>7, <1>8

(* A baseline that did not race is of the address the wallet has had ever   *)
(* since the row was observed.                                              *)
LEMMA BaselineFits ==
  ASSUME Wf, NEW w, NEW s \in Baselines(w)
  PROVE  /\ s \in DOMAIN snaps /\ s \in 1 .. lastId
         /\ snaps[s].wallet = w /\ snaps[s].status = "success"
         /\ Observed(s) \in Cutoff - Fresh .. Cutoff
         /\ \/ Races(w, s)
            \/ /\ snaps[s].key = wallets[w].address
               /\ \A p \in patches[w] : ~ (Observed(s) <= p.commit)
<1>1. /\ s \in DOMAIN snaps /\ snaps[s].wallet = w /\ snaps[s].status = "success"
      /\ Observed(s) \in Cutoff - Fresh .. Cutoff
      /\ w \in DOMAIN wallets /\ CurrentRevision(s) /\ CreatedAt(s) >= wallets[w].addrAt
  BY DEF Baselines, SnapsOf, CurrentRevision, CreatedAt
<1>2. s \in 1 .. lastId /\ snaps[s].run \in DOMAIN runs
  BY <1>1 DEF Wf, WellFormed, SnapRows
<1>3. /\ CreatedAt(s) \in Int /\ wallets[w].addrAt \in Int /\ Observed(s) \in Int
      /\ CreatedAt(s) <= Observed(s)
  BY <1>1, <1>2
  DEF CreatedAt, Observed, Coalesce, Wf, WellFormed, RunRows, WalletRows, SnapRows, Dated
<1>4. ASSUME ~ Races(w, s), NEW p \in patches[w]
      PROVE  ~ (Observed(s) <= p.commit)
  <2>1. PICK q \in patches[w] : /\ q.stamp = wallets[w].addrAt
                                /\ \A x \in patches[w] : x.commit <= q.commit
    BY <1>1, <1>4 DEF Wf, AddressRows
  <2>2. p.commit \in Int /\ q.commit \in Int /\ p.commit <= q.commit
    BY <1>1, <2>1 DEF Wf, AddressRows
  <2>3. ~ (CreatedAt(s) <= q.commit)
    BY <1>1, <1>3, <1>4, <2>1 DEF Races, Raced
  <2> QED BY <1>3, <2>2, <2>3
<1> QED BY <1>1, <1>2, <1>4, OfItsAddress

(* Whatever the latest value of a wallet is, it is of the address of such a *)
(* baseline: a change between them would lie before the baseline, a day     *)
(* earlier.                                                                 *)
LEMMA BaselineCompares ==
  ASSUME Wf, LatestKnown, CurrentKnown, req.at \in Int,
         NEW w \in DOMAIN req.latest, NEW s \in Baselines(w),
         NEW e, e = req.latest[w], e \in DOMAIN snaps
  PROVE  snaps[s].key = snaps[e].key \/ Races(w, s) \/ Races(w, e)
<1>1. Explained(w, e)
  BY DEF LatestKnown
<1>2. CASE \E p \in patches[w] : Observed(e) <= p.commit
  <2>1. PICK p \in patches[w] : Observed(e) <= p.commit
    BY <1>2
  <2>2. s \in DOMAIN snaps /\ snaps[s].wallet = w /\ Observed(s) \in Cutoff - Fresh .. Cutoff
    BY BaselineFits
  <2>3. Observed(e) \in Int /\ Observed(s) \in Int
    BY <2>2, ObservedInt
  <2>4. p.commit \in Int
    BY <2>1, <2>2 DEF Wf, WellFormed, SnapRows, AddressRows
  <2>5. req.at - Observed(e) <= Fresh
    BY DEF CurrentKnown, Chosen
  <2>6. Observed(s) <= p.commit
    BY <2>1, <2>2, <2>3, <2>4, <2>5, PortfolioAssumption DEF Cutoff
  <2> QED BY <2>1, <2>6, BaselineFits
<1> QED BY <1>1, <1>2, BaselineFits DEF Explained

LEMMA BaselineRead ==
  ASSUME Wf, PcInv, SummaryInv, SummaryBaseline
  PROVE  SummaryInv'
<1>1. At("summary", "baseline") /\ Judged /\ CurrentKnown
  BY DEF SummaryBaseline, SummaryInv
<1>2. PICK found : found = {w \in req.wallets : Baselines(w) # {}}
  OBVIOUS
<1>3. PICK reason : reason = IF \E w \in req.wallets : req.rows[w].addrAt > Cutoff
                               THEN "wallet_address_changed" ELSE "baseline_missing"
  OBVIOUS
<1>4. PICK base : base = [w \in found |-> TopRow(Baselines(w), Observed)]
  OBVIOUS
<1>5. PICK starts : starts = [w \in found |->
                                LET s == TopRow(Baselines(w), Observed)
                                IN  [total |-> snaps[s].total, at |-> Observed(s)]]
  OBVIOUS
<1>6. PICK total : total = SummaryTotal(req)
  OBVIOUS
<1>7. IF found # req.wallets
        THEN Then("done", Answered(total, req.health, Result("unavailable", {reason})))
        ELSE Then("baseIssues", [base |-> base, starts |-> starts])
  BY <1>2, <1>3, <1>4, <1>5, <1>6 DEF SummaryBaseline
<1>8. CASE found # req.wallets
  <2>1. PICK change : change = Result("unavailable", {reason})
    OBVIOUS
  <2>2. change.status # "complete"
    BY <2>1 DEF Result
  <2> QED BY <1>1, <1>7, <1>8, <2>1, <2>2, JudgedAnswer
<1>9. CASE found = req.wallets
  <2> DEFINE locals == [base |-> base, starts |-> starts]
  <2>1. /\ Then("baseIssues", locals) /\ DOMAIN locals = {"base", "starts"}
        /\ locals.base = base
    BY <1>7, <1>9
  <2> HIDE DEF locals
  <2>2. /\ Wf' /\ RowsStay /\ req'.pc = "baseIssues" /\ req'.base = base
        /\ "base" \in DOMAIN req'
        /\ UNCHANGED <<snaps, runs, patches, lastId>>
        /\ \A K \in SUBSET DOMAIN req :
             "pc" \notin K /\ "base" \notin K /\ "starts" \notin K => Same(K)
    BY <2>1, StepTaken
  <2>3. Same(SummaryLocals \cup {"health"})
    BY <1>1, <2>2, JudgedHas DEF SummaryLocals, InfoLocals
  <2>4. Judged' /\ CurrentKnown'
    <3>1. Same({"wallets", "latest", "at"}) /\ LatestKnown
      BY <1>1, <2>3, GatheredPicked DEF Judged, Same, SummaryLocals, InfoLocals
    <3> QED BY <1>1, <2>2, <2>3, <3>1, JudgedStays, CurrentStays
  <2>5. ASSUME NEW w \in req.wallets
        PROVE  /\ base[w] \in DOMAIN snaps /\ base[w] \in 1 .. lastId
               /\ snaps[base[w]].wallet = w /\ snaps[base[w]].status = "success"
               /\ Observed(base[w]) \in Cutoff - Fresh .. Cutoff
               /\ req.latest[w] \in DOMAIN snaps =>
                    \/ snaps[base[w]].key = snaps[req.latest[w]].key
                    \/ Races(w, base[w]) \/ Races(w, req.latest[w])
    <3>1. Baselines(w) # {} /\ base[w] = TopRow(Baselines(w), Observed)
      BY <1>2, <1>4, <1>9
    <3>2. Baselines(w) \subseteq DOMAIN snaps
      BY DEF Baselines, SnapsOf
    <3>3. base[w] \in Baselines(w)
      BY <3>1, <3>2, ObservedTop
    <3>4. LatestKnown /\ DOMAIN req.latest = req.wallets /\ req.at \in Int
      BY <1>1, GatheredPicked DEF Judged, EndKnown
    <3>5. PICK s \in Baselines(w) : s = base[w]
      BY <3>3
    <3>6. PICK e : e = req.latest[w]
      OBVIOUS
    <3>7. e \in DOMAIN snaps => snaps[s].key = snaps[e].key \/ Races(w, s) \/ Races(w, e)
      BY <1>1, <3>4, <3>6, BaselineCompares
    <3> QED BY <3>5, <3>6, <3>7, BaselineFits
  <2>6. /\ req'.wallets = req.wallets /\ req'.latest = req.latest /\ Cutoff' = Cutoff
    BY <2>3 DEF Same, SummaryLocals, InfoLocals, Cutoff
  <2>7. /\ \A s : Observed(s)' = Observed(s)
        /\ \A w, s : Races(w, s)' <=> Races(w, s)
    BY <2>2 DEF Observed, CreatedAt, Races
  <2>8. DOMAIN base = req.wallets
    BY <1>4, <1>9
  <2>9. BaseKnown'
    BY <2>2, <2>5, <2>6, <2>7, <2>8 DEF BaseKnown
  <2> QED BY <2>2, <2>4, <2>9 DEF SummaryInv, At, Done, Contrasted
<1> QED BY <1>8, <1>9

LEMMA BaseIssuesRead ==
  ASSUME Wf, PcInv, SummaryInv, SummaryBaseIssues
  PROVE  SummaryInv'
<1>1. At("summary", "baseIssues") /\ Contrasted
  BY DEF SummaryBaseIssues, SummaryInv
<1> DEFINE locals == [broken |-> Unfinished(BaseSnaps) # {}]
<1>2. /\ Then("basePrices", locals) /\ DOMAIN locals = {"broken"}
      /\ locals.broken <=> Unfinished(BaseSnaps) # {}
  BY DEF SummaryBaseIssues
<1> HIDE DEF locals
<1>3. /\ Wf' /\ RowsStay /\ req'.pc = "basePrices" /\ "broken" \in DOMAIN req'
      /\ req'.broken = locals.broken /\ UNCHANGED snaps
      /\ \A K \in SUBSET DOMAIN req : "pc" \notin K /\ "broken" \notin K => Same(K)
  BY <1>2, StepTaken
<1>4. Same(SummaryLocals \cup {"health", "base"})
  BY <1>1, <1>3, JudgedHas DEF Contrasted, BaseKnown, SummaryLocals, InfoLocals
<1>5. Contrasted'
  BY <1>1, <1>3, <1>4, ContrastedStays
<1>6. Unfinished(BaseSnaps) = {} => AllDone(BaseSnaps)
  <2>1. Unfinished(BaseSnaps) = UnfinishedAmong(snaps, BaseSnaps)
    BY DEF Unfinished, PartsOf, UnfinishedAmong, PartsAmong
  <2>2. ASSUME NEW s \in BaseSnaps \cap DOMAIN snaps, NEW p \in snaps[s].parts,
               p.status # "success"
        PROVE  UnfinishedAmong(snaps, BaseSnaps) # {}
    <3> DEFINE x == <<s, [chain |-> p.chain, status |-> p.status, run |-> snaps[s].run]>>
    <3>1. x \in UnfinishedAmong(snaps, BaseSnaps)
      BY <2>2, OneUnfinished
    <3> QED BY <3>1
  <2> QED BY <2>1, <2>2 DEF AllDone
<1>7. BaseSnaps' = BaseSnaps
  BY <1>4 DEF BaseSnaps, Same
<1>8. ~ req'.broken => AllDone(BaseSnaps)'
  BY <1>2, <1>3, <1>6, <1>7 DEF AllDone
<1> QED BY <1>3, <1>5, <1>8 DEF SummaryInv, At, Done

LEMMA BasePricesRead ==
  ASSUME Wf, PcInv, SummaryInv, SummaryBasePrices
  PROVE  SummaryInv'
<1>1. /\ At("summary", "basePrices") /\ Contrasted
      /\ ~ req.broken => AllDone(BaseSnaps)
  BY DEF SummaryBasePrices, SummaryInv
<1>2. PICK reasons : reasons =
        (IF req.broken THEN {"baseline_chain_issues"} ELSE {})
          \cup (IF PriceQuality(BalancesOf(BaseSnaps)).state # "complete"
                  THEN {"baseline_price_quality"} ELSE {})
          \cup (IF Span({req.starts[w].at : w \in req.wallets}) > Fresh
                  THEN {"baseline_observation_skew"} ELSE {})
  OBVIOUS
<1>3. PICK start : start = SumFunction([w \in req.wallets |-> req.starts[w].total])
  OBVIOUS
<1>4. PICK change : change = IF reasons # {} THEN Result("incomplete", reasons)
                             ELSE IF start = 0 THEN Result("unavailable", {"baseline_zero"})
                             ELSE Result("complete", {})
  OBVIOUS
<1>5. PICK total : total = SummaryTotal(req)
  OBVIOUS
<1>6. Then("done", Answered(total, req.health, change))
  BY <1>2, <1>3, <1>4, <1>5 DEF SummaryBasePrices
<1>7. ASSUME change.status = "complete" PROVE CompleteKnown
  <2>1. reasons = {}
    BY <1>4, <1>7 DEF Result
  <2>2. ~ req.broken /\ PriceQuality(BalancesOf(BaseSnaps)).state = "complete"
    BY <1>2, <2>1
  <2>3. IsFiniteSet(BalancesOf(BaseSnaps))
    <3>1. IsFiniteSet(DOMAIN req.base)
      BY <1>1, GatheredPicked DEF Contrasted, Judged, WalletsKnown, BaseKnown
    <3>2. IsFiniteSet({req.base[w] : w \in DOMAIN req.base})
      BY <3>1, ImageFinite
    <3> QED BY <3>2, BalancesFinite DEF BaseSnaps
  <2>4. AllPriced(BaseSnaps)
    BY <2>2, <2>3, QualityBad, PricedEach
  <2> QED BY <1>1, <2>2, <2>4 DEF CompleteKnown, Contrasted, Judged, EndKnown
<1> QED BY <1>1, <1>6, <1>7, JudgedAnswer DEF Contrasted

------------------------------------------------------------------------------
(* Every step keeps the invariant                                           *)

OfferInv == offer = Null \/ Retryable(offer)

LEMMA OfferStays ==
  ASSUME Wf, Wf', RowsStay, OfferInv, UNCHANGED offer
  PROVE  OfferInv'
<1>1. PICK j : j = offer
  OBVIOUS
<1>2. j = Null \/ Retryable(j)'
  BY <1>1, RetryableStays DEF OfferInv
<1> QED BY <1>1, <1>2 DEF OfferInv, Retryable, OwnRun, FailedChains

LEMMA Others ==
  ASSUME Wf', PcInv', OfferInv', SummaryInv', req'.op \notin {"refresh", "retry"}
  PROVE  PInv'
BY DEF PInv, OfferInv, RefreshInv, RetryInv

(* A statement of a request: what it is to be shown of each.                *)
LEMMA Stepped ==
  ASSUME PInv, req.op # "none", NEW p, p # "idle", NEW locals, Then(p, locals),
         "pc" \notin DOMAIN locals, "op" \notin DOMAIN locals,
         p \in InfoSteps => req.op \in {"summary", "allocation", "detail"},
         p = "done" => "answer" \in DOMAIN locals
  PROVE  /\ Wf' /\ RowsStay /\ PcInv' /\ OfferInv'
         /\ req'.op = req.op /\ req'.pc = p
         /\ req.op \notin {"summary", "refresh", "retry"} => PInv'
         /\ req.op = "summary" /\ SummaryInv' => PInv'
<1>1. Wf /\ PcInv /\ OfferInv
  BY DEF PInv, RetryInv, OfferInv
<1>2. /\ Wf' /\ RowsStay /\ UNCHANGED offer
      /\ {"op", "pc"} \subseteq DOMAIN req' /\ req'.pc = p /\ req'.op = req.op
      /\ \A k \in DOMAIN locals : k \in DOMAIN req'
  BY <1>1, StepTaken
<1>3. PcInv'
  BY <1>2 DEF PcInv
<1>4. OfferInv'
  BY <1>1, <1>2, OfferStays
<1> QED BY <1>2, <1>3, <1>4, Others, OtherOp

LEMMA Replied ==
  ASSUME PInv, req.op # "none", NEW answer, Then("done", [answer |-> answer])
  PROVE  /\ Wf' /\ RowsStay /\ PcInv' /\ OfferInv'
         /\ req'.op = req.op /\ req'.pc = "done"
         /\ req.op \notin {"summary", "refresh", "retry"} => PInv'
         /\ req.op = "summary" /\ SummaryInv' => PInv'
BY Stepped DEF InfoSteps

LEMMA Started ==
  ASSUME PInv, NEW op, NEW p, NEW locals, Start(op, p, locals), op # "none",
         "pc" \notin DOMAIN locals, "op" \notin DOMAIN locals, "answer" \notin DOMAIN locals,
         p \notin {"idle", "done"},
         p \in InfoSteps => op \in {"summary", "allocation", "detail"},
         op = "summary" => p = "wallets"
  PROVE  /\ Wf' /\ PcInv' /\ OfferInv' /\ SummaryInv' /\ UNCHANGED world
         /\ req'.op = op /\ req'.pc = IF gone THEN "done" ELSE p
         /\ \A k \in DOMAIN locals : k \in DOMAIN req' /\ req'[k] = locals[k]
         /\ op \notin {"refresh", "retry"} => PInv'
<1>0. PICK f : f = IF gone THEN [op |-> op, pc |-> "done", answer |-> [code |-> 401]]
                   ELSE [op |-> op, pc |-> p]
  OBVIOUS
<1>1. Wf /\ PcInv /\ OfferInv
  BY DEF PInv, RetryInv, OfferInv
<1>2. req' = With(f, locals) /\ UNCHANGED <<world, offer>>
  BY <1>0 DEF Start
<1>3. Wf' /\ RowsStay
  BY <1>1, <1>2, WorldStays
<1>4. OfferInv'
  BY <1>1, <1>2, <1>3, OfferStays
<1>5. /\ DOMAIN f = IF gone THEN {"op", "pc", "answer"} ELSE {"op", "pc"}
      /\ f.op = op /\ f.pc = IF gone THEN "done" ELSE p
      /\ gone => f.answer.code = 401
  BY <1>0
<1>6. /\ DOMAIN req' = DOMAIN f \cup DOMAIN locals
      /\ \A k \in DOMAIN f : req'[k] = f[k]
      /\ \A k \in DOMAIN locals \ DOMAIN f : req'[k] = locals[k]
  <2>1. PICK w : w = With(f, locals)
    OBVIOUS
  <2>2. /\ DOMAIN w = DOMAIN f \cup DOMAIN locals
        /\ \A k \in DOMAIN f : w[k] = f[k]
        /\ \A k \in DOMAIN locals \ DOMAIN f : w[k] = locals[k]
    BY <2>1 DEF With
  <2>3. req' = w
    BY <1>2, <2>1
  <2> QED BY <2>2, <2>3
<1>7. /\ req'.op = op /\ req'.pc = IF gone THEN "done" ELSE p
      /\ {"op", "pc"} \subseteq DOMAIN req'
      /\ gone => "answer" \in DOMAIN req' /\ req'.answer.code = 401
  BY <1>5, <1>6
<1>8. \A k \in DOMAIN locals : k \in DOMAIN req' /\ req'[k] = locals[k]
  BY <1>5, <1>6
<1>9. PcInv'
  BY <1>7 DEF PcInv, InfoSteps
<1>10. SummaryInv'
  BY <1>7 DEF SummaryInv, At, Done
<1> QED BY <1>2, <1>3, <1>4, <1>7, <1>8, <1>9, <1>10, Others

(* Whatever happens to the tables beside a request.                         *)
LEMMA BesideInv ==
  ASSUME PInv, Wf', RowsStay, UNCHANGED <<req, offer>>
  PROVE  PInv'
<1>1. Wf /\ PcInv /\ OfferInv /\ SummaryInv /\ RefreshInv /\ RetryInv
  BY DEF PInv, RetryInv, OfferInv
<1>2. Wf' /\ RowsStay /\ UNCHANGED <<req, offer>>
  OBVIOUS
<1>3. OfferInv' /\ SummaryInv' /\ PcInv'
  BY <1>1, <1>2, OfferStays, SummaryStays DEF PcInv
<1>4. RefreshInv'
  BY <1>1, <1>2 DEF RefreshInv, RowsStay
<1>5. RetryInv'
  <2>1. ASSUME OwnRun(req.job), ~ gone' PROVE OwnRun(req.job)'
    <3>1. /\ req.job \in DOMAIN runs /\ req.job \in DOMAIN runs'
          /\ runs[req.job].user = Me /\ req.job <= lastId
      BY <1>1, <1>2, <2>1 DEF OwnRun, RowsStay, Wf, WellFormed, RunRows
    <3> QED BY <1>2, <3>1 DEF OwnRun, RowsStay
  <2>2. ~ gone' => ~ gone
    BY <1>2 DEF RowsStay
  <2> QED BY <1>1, <1>2, <1>3, <2>1, <2>2 DEF RetryInv, OfferInv
<1> QED BY <1>2, <1>3, <1>4, <1>5 DEF PInv

LEMMA InfoInv ==
  ASSUME PInv, InfoStep
  PROVE  PInv' /\ req'.op = req.op
<1>1. Wf /\ PcInv /\ SummaryInv
  BY DEF PInv
<1>2. req.pc \in InfoSteps /\ req.op \in {"summary", "allocation", "detail"}
  BY <1>1 DEF InfoStep, ReadLatest, ReadMeta, ReadAssets, ReadLegacy, ReadLegacyAssets,
              InfoSteps, PcInv
<1>3. CASE ReadLatest
  <2>1. Then("meta", [latest |-> LatestSnapshots(req.wallets)])
    BY <1>3 DEF ReadLatest
  <2>2. req.op = "summary" => SummaryInv'
    BY <1>1, <1>3, LatestRead
  <2> QED BY <1>2, <2>1, <2>2, Stepped
<1>4. CASE ReadMeta
  <2>1. PICK meta : Then("assets", [meta |-> meta])
    BY <1>4 DEF ReadMeta
  <2>2. req.op = "summary" => SummaryInv'
    BY <1>1, <1>4, MetaRead
  <2> QED BY <1>2, <2>1, <2>2, Stepped
<1>5. CASE ReadAssets
  <2>1. PICK assets : Then("legacy", [assets |-> assets])
    BY <1>5 DEF ReadAssets
  <2>2. req.op = "summary" => SummaryInv'
    BY <1>1, <1>5, AssetsRead
  <2> QED BY <1>2, <2>1, <2>2, Stepped
<1>6. CASE ReadLegacy
  <2>1. PICK old : Then("legacyAssets", [legacy |-> old])
    BY <1>6 DEF ReadLegacy
  <2>2. req.op = "summary" => SummaryInv'
    BY <1>1, <1>6, LegacyRead
  <2> QED BY <1>2, <2>1, <2>2, Stepped
<1>7. CASE ReadLegacyAssets
  <2>1. PICK assets : Then("manual", [legacyAssets |-> assets])
    BY <1>7 DEF ReadLegacyAssets
  <2>2. req.op = "summary" => SummaryInv'
    BY <1>1, <1>7, LegacyAssetsRead
  <2> QED BY <1>2, <2>1, <2>2, Stepped
<1>8. CASE req.pc = "manual" /\ ReadManual(AfterInfo[req.op])
  <2>1. AfterInfo[req.op] \in {"exchange", "balances", "issues"}
        /\ (req.op = "summary" => AfterInfo[req.op] = "exchange")
    BY <1>2 DEF AfterInfo
  <2>2. req.op = "summary" => SummaryInv'
    BY <1>1, <1>8, <2>1, ManualRead DEF At
  <2>3. CASE Missing
    <3>1. Then("done", [answer |-> [code |-> 500]])
      BY <1>8, <2>3 DEF ReadManual, Fail
    <3> QED BY <1>2, <2>2, <3>1, Stepped DEF InfoSteps
  <2>4. CASE ~ Missing
    <3>1. PICK books : Then(AfterInfo[req.op], [manual |-> books])
      BY <1>8, <2>4 DEF ReadManual
    <3> QED BY <1>2, <2>1, <2>2, <3>1, Stepped
  <2> QED BY <2>3, <2>4
<1> QED BY <1>3, <1>4, <1>5, <1>6, <1>7, <1>8 DEF InfoStep

(* The statements of a summary, the last of which answers it.               *)
LEMMA SummaryStepInv ==
  ASSUME PInv, SummaryStep
  PROVE  PInv' /\ req'.op \in {"summary", "detail"}
<1>1. Wf /\ PcInv /\ SummaryInv
  BY DEF PInv
<1>2. CASE StartSummary
  <2>1. Start("summary", "wallets", NoLocals)
    BY <1>2 DEF StartSummary
  <2> QED BY <2>1, SkippedHas, Started DEF InfoSteps
<1>3. CASE SummaryWallets
  <2>1. PICK W, rows : Then("latest", [wallets |-> W, rows |-> rows])
    BY <1>3 DEF SummaryWallets, ReadWallets
  <2>2. req.op = "summary" /\ SummaryInv'
    BY <1>1, <1>3, WalletsRead DEF SummaryWallets, At
  <2> QED BY <2>1, <2>2, Stepped
<1>4. CASE SummaryExchange
  <2>1. PICK ex : Then("refresh", [ex |-> ex])
    BY <1>4 DEF SummaryExchange, AskExchange
  <2>2. req.op = "summary" /\ SummaryInv'
    BY <1>1, <1>4, ExchangeRead DEF SummaryExchange, At
  <2> QED BY <2>1, <2>2, Stepped DEF InfoSteps
<1>5. CASE SummaryRefresh
  <2>1. PICK refreshing : Then("issues", [refreshing |-> refreshing])
    BY <1>5 DEF SummaryRefresh
  <2>2. req.op = "summary" /\ SummaryInv'
    BY <1>1, <1>5, RefreshRead DEF SummaryRefresh, At
  <2> QED BY <2>1, <2>2, Stepped DEF InfoSteps
<1>6. CASE SummaryIssues
  <2>1. PICK issues : Then("prices", [issues |-> issues])
    BY <1>6 DEF SummaryIssues
  <2>2. req.op \in {"summary", "detail"} /\ (req.op = "summary" => SummaryInv')
    BY <1>1, <1>6, IssuesRead DEF SummaryIssues
  <2> QED BY <2>1, <2>2, Stepped DEF InfoSteps
<1>7. CASE SummaryPrices
  <2>1. req.op = "summary" /\ SummaryInv'
    BY <1>1, <1>7, PricesRead DEF SummaryPrices, At
  <2>2. \/ \E total, health, change :
             Then("done", With([at |-> now], Answered(total, health, change)))
        \/ \E health : Then("current", [health |-> health, at |-> now])
    BY <1>7 DEF SummaryPrices
  <2>3. ASSUME NEW total, NEW health, NEW change,
               Then("done", With([at |-> now], Answered(total, health, change)))
        PROVE  PInv' /\ req'.op \in {"summary", "detail"}
    <3> DEFINE locals == With([at |-> now], Answered(total, health, change))
    <3>1. DOMAIN locals = {"at", "answer"}
      BY DEF With, Answered
    <3> HIDE DEF locals
    <3>2. Then("done", locals)
      BY <2>3 DEF locals
    <3> QED BY <2>1, <3>1, <3>2, Stepped DEF InfoSteps
  <2>4. ASSUME NEW health, Then("current", [health |-> health, at |-> now])
        PROVE  PInv' /\ req'.op \in {"summary", "detail"}
    BY <2>1, <2>4, Stepped DEF InfoSteps
  <2> QED BY <2>2, <2>3, <2>4
<1>8. CASE SummaryCurrent
  <2>1. req.op = "summary" /\ SummaryInv'
    BY <1>1, <1>8, CurrentRead DEF SummaryCurrent, At
  <2>2. (\E answer : Then("done", [answer |-> answer])) \/ Then("baseline", NoLocals)
    BY <1>8 DEF SummaryCurrent, Answered
  <2>3. ASSUME Then("baseline", NoLocals) PROVE PInv' /\ req'.op \in {"summary", "detail"}
    BY <2>1, <2>3, SkippedHas, Stepped DEF InfoSteps
  <2> QED BY <2>1, <2>2, <2>3, Replied
<1>9. CASE SummaryBaseline
  <2>1. req.op = "summary" /\ SummaryInv'
    BY <1>1, <1>9, BaselineRead DEF SummaryBaseline, At
  <2>2. \/ \E answer : Then("done", [answer |-> answer])
        \/ \E base, starts : Then("baseIssues", [base |-> base, starts |-> starts])
    BY <1>9 DEF SummaryBaseline, Answered
  <2>3. ASSUME NEW base, NEW starts, Then("baseIssues", [base |-> base, starts |-> starts])
        PROVE  PInv' /\ req'.op \in {"summary", "detail"}
    BY <2>1, <2>3, Stepped DEF InfoSteps
  <2> QED BY <2>1, <2>2, <2>3, Replied
<1>10. CASE SummaryBaseIssues
  <2>1. req.op = "summary" /\ SummaryInv'
    BY <1>1, <1>10, BaseIssuesRead DEF SummaryBaseIssues, At
  <2>2. PICK broken : Then("basePrices", [broken |-> broken])
    BY <1>10 DEF SummaryBaseIssues
  <2> QED BY <2>1, <2>2, Stepped DEF InfoSteps
<1>11. CASE SummaryBasePrices
  <2>1. req.op = "summary" /\ SummaryInv'
    BY <1>1, <1>11, BasePricesRead DEF SummaryBasePrices, At
  <2>2. PICK total : total = SummaryTotal(req)
    OBVIOUS
  <2>3. PICK start : start = SumFunction([w \in req.wallets |-> req.starts[w].total])
    OBVIOUS
  <2>4. PICK change : Then("done", Answered(total, req.health, change))
    BY <1>11, <2>2, <2>3 DEF SummaryBasePrices
  <2> QED BY <2>1, <2>4, Stepped DEF InfoSteps, Answered
<1> QED BY <1>2, <1>3, <1>4, <1>5, <1>6, <1>7, <1>8, <1>9, <1>10, <1>11 DEF SummaryStep

(* The statements of the other readers leave nothing behind but an answer.  *)
LEMMA AllocationInv ==
  ASSUME PInv, AllocationStep
  PROVE  PInv' /\ req'.op = "allocation"
<1>1. CASE \E scope \in Scopes : StartAllocation(scope)
  <2>1. PICK p \in {"wallets", "groups"}, scope \in Scopes :
          Start("allocation", p, [scope |-> scope, ex |-> NotAsked])
    BY <1>1 DEF StartAllocation
  <2> QED BY <2>1, Started DEF InfoSteps
<1>2. ASSUME AllocationGroups \/ AllocationWallets \/ AllocationExchange
               \/ AllocationBalances \/ AllocationOld
      PROVE  PInv' /\ req'.op = "allocation"
  <2>1. req.op = "allocation"
    BY <1>2 DEF AllocationGroups, AllocationWallets, AllocationExchange,
                AllocationBalances, AllocationOld, At
  <2>2. CASE AllocationGroups
    <3>1. Then("wallets", NoLocals) \/ Then("done", [answer |-> [code |-> 404]])
      BY <2>2 DEF AllocationGroups, Fail
    <3> QED BY <2>1, <3>1, SkippedHas, Stepped DEF InfoSteps
  <2>3. CASE AllocationWallets
    <3>1. \E p \in {"exchange", "latest"} : \E W, rows :
            Then(p, [wallets |-> W, rows |-> rows])
      BY <2>3 DEF AllocationWallets, ReadWallets
    <3> QED BY <2>1, <3>1, Stepped
  <2>4. CASE AllocationExchange
    <3>1. PICK ex : Then("latest", [ex |-> ex])
      BY <2>4 DEF AllocationExchange, AskExchange
    <3> QED BY <2>1, <3>1, Stepped
  <2>5. CASE AllocationBalances
    <3>1. PICK balances : Then("oldBalances", [balances |-> balances])
      BY <2>5 DEF AllocationBalances
    <3> QED BY <2>1, <3>1, Stepped DEF InfoSteps
  <2>6. CASE AllocationOld
    <3>1. PICK answer : Then("done", [answer |-> answer])
      BY <2>6 DEF AllocationOld
    <3> QED BY <2>1, <3>1, Stepped DEF InfoSteps
  <2> QED BY <1>2, <2>2, <2>3, <2>4, <2>5, <2>6
<1> QED BY <1>1, <1>2 DEF AllocationStep

LEMMA DetailInv ==
  ASSUME PInv, DetailStep
  PROVE  PInv' /\ req'.op = "detail"
<1>1. CASE \E w \in DOMAIN wallets : StartDetail(w)
  <2>1. PICK w : Start("detail", "wallets", [wallet |-> w, ex |-> NotAsked])
    BY <1>1 DEF StartDetail
  <2> QED BY <2>1, Started DEF InfoSteps
<1>2. CASE DetailWallet
  <2>1. req.op = "detail"
    BY <1>2 DEF DetailWallet, At
  <2>2. \/ \E W, rows : Then("latest", [wallets |-> W, rows |-> rows])
        \/ Then("done", [answer |-> [code |-> 404]])
    BY <1>2 DEF DetailWallet, ReadWallets, Fail
  <2>3. ASSUME NEW W, NEW rows, Then("latest", [wallets |-> W, rows |-> rows])
        PROVE  PInv' /\ req'.op = "detail"
    BY <2>1, <2>3, Stepped
  <2> QED BY <2>1, <2>2, <2>3, Replied
<1>3. CASE DetailPrices
  <2>1. req.op = "detail" /\ \E balances : Then("refresh", [balances |-> balances])
    BY <1>3 DEF DetailPrices, At
  <2> QED BY <2>1, Stepped DEF InfoSteps
<1>4. CASE DetailRefresh
  <2>1. req.op = "detail" /\ \E answer : Then("done", [answer |-> answer])
    BY <1>4 DEF DetailRefresh, At, Answered
  <2> QED BY <2>1, Stepped DEF InfoSteps
<1> QED BY <1>1, <1>2, <1>3, <1>4 DEF DetailStep

LEMMA HistoryInv ==
  ASSUME PInv, HistoryStep
  PROVE  PInv' /\ req'.op = "history"
<1>1. CASE \E q \in Queries : StartHistory(q)
  <2>1. PICK p \in {"ownWallet", "ownGroup", "wallets"}, q \in Queries :
          Start("history", p, [query |-> q])
    BY <1>1 DEF StartHistory
  <2> QED BY <2>1, Started DEF InfoSteps
<1>2. ASSUME \/ HistoryOwnWallet \/ HistoryOwnGroup \/ HistoryScope \/ HistoryRows
             \/ HistoryFirst \/ HistoryOld \/ HistorySeeds \/ HistoryOldSeeds
      PROVE  PInv' /\ req'.op = "history"
  <2>1. req.op = "history"
    BY <1>2 DEF HistoryOwnWallet, HistoryOwnGroup, HistoryScope, HistoryRows,
                HistoryFirst, HistoryOld, HistorySeeds, HistoryOldSeeds, At
  <2>2. CASE HistoryOwnWallet \/ HistoryOwnGroup
    <3>1. Then("wallets", NoLocals) \/ Then("done", [answer |-> [code |-> 404]])
      BY <2>2 DEF HistoryOwnWallet, HistoryOwnGroup, Fail
    <3> QED BY <2>1, <3>1, SkippedHas, Stepped DEF InfoSteps
  <2>3. CASE HistoryScope
    <3>1. \/ Then("done", [answer |-> NoPoints])
          \/ \E W, since : Then("rows", [wallets |-> W, since |-> since])
      BY <2>3 DEF HistoryScope
    <3>2. ASSUME NEW W, NEW since, Then("rows", [wallets |-> W, since |-> since])
          PROVE  PInv' /\ req'.op = "history"
      BY <2>1, <3>2, Stepped DEF InfoSteps
    <3> QED BY <2>1, <3>1, <3>2, Replied
  <2>4. CASE HistoryRows
    <3>1. PICK rows, expected : Then("first", [rows |-> rows, expected |-> expected])
      BY <2>4 DEF HistoryRows
    <3> QED BY <2>1, <3>1, Stepped DEF InfoSteps
  <2>5. CASE HistoryFirst
    <3>1. PICK first : Then("old", [first |-> first])
      BY <2>5 DEF HistoryFirst
    <3> QED BY <2>1, <3>1, Stepped DEF InfoSteps
  <2>6. CASE HistoryOld
    <3>1. \/ \E answer : Then("done", [answer |-> answer])
          \/ \E rows : Then("seeds", [rows |-> rows])
      BY <2>6 DEF HistoryOld
    <3>2. ASSUME NEW rows, Then("seeds", [rows |-> rows]) PROVE PInv' /\ req'.op = "history"
      BY <2>1, <3>2, Stepped DEF InfoSteps
    <3> QED BY <2>1, <3>1, <3>2, Replied
  <2>7. CASE HistorySeeds
    <3>1. PICK seeds : Then("oldSeeds", [seeds |-> seeds])
      BY <2>7 DEF HistorySeeds
    <3> QED BY <2>1, <3>1, Stepped DEF InfoSteps
  <2>8. CASE HistoryOldSeeds
    <3>1. PICK answer : Then("done", [answer |-> answer])
      BY <2>8 DEF HistoryOldSeeds
    <3> QED BY <2>1, <3>1, Stepped DEF InfoSteps
  <2> QED BY <1>2, <2>2, <2>3, <2>4, <2>5, <2>6, <2>7, <2>8
<1> QED BY <1>1, <1>2 DEF HistoryStep

(* A POST to the service ends a refresh or a retry; what it may create is a *)
(* run over what is the user's own.                                         *)
LEMMA Posted ==
  ASSUME PInv, req.op \in {"refresh", "retry"}, NEW scope, NEW target, Post(scope, target),
         scope = "wallet" /\ target \in DOMAIN wallets => wallets[target].user = Me,
         scope = "group" => target \in DOMAIN GroupOwner /\ GroupOwner[target] = Me,
         scope = "failed_chains" /\ ~ gone => OwnRun(target)
  PROVE  /\ Wf' /\ RowsStay /\ PcInv' /\ OfferInv' /\ SummaryInv'
         /\ req'.op = req.op /\ req'.pc = "done"
         /\ "job" \in DOMAIN req => "job" \in DOMAIN req' /\ req'.job = req.job
         /\ "why" \notin DOMAIN req'.answer
         /\ req.op = "retry" => req'.answer.code # 404
<1>1. Wf /\ PcInv /\ OfferInv /\ {"op", "pc"} \subseteq DOMAIN req
  BY DEF PInv, RetryInv, OfferInv, PcInv
<1>2. ASSUME NEW answer, Then("done", [answer |-> answer]), "why" \notin DOMAIN answer,
             req.op = "retry" => answer.code # 404
      PROVE  /\ Wf' /\ RowsStay /\ PcInv' /\ OfferInv' /\ SummaryInv'
             /\ req'.op = req.op /\ req'.pc = "done"
             /\ "job" \in DOMAIN req => "job" \in DOMAIN req' /\ req'.job = req.job
             /\ "why" \notin DOMAIN req'.answer
             /\ req.op = "retry" => req'.answer.code # 404
  <2>1. /\ Wf' /\ RowsStay /\ PcInv' /\ OfferInv' /\ req'.op = req.op /\ req'.pc = "done"
    BY <1>2, Replied
  <2>2. SummaryInv'
    BY <2>1, OtherOp
  <2> DEFINE locals == [answer |-> answer]
  <2>3. Then("done", locals) /\ DOMAIN locals = {"answer"} /\ locals.answer = answer
    BY <1>2
  <2> HIDE DEF locals
  <2>4. req'.answer = answer /\ ("job" \in DOMAIN req => Same({"job"}))
    BY <1>1, <2>3, StepTaken
  <2> QED BY <1>2, <2>1, <2>2, <2>4 DEF Same
<1>3. CASE \E r \in ActiveRun(Me, scope, target) : Then("done", Accepted(r, TRUE))
  <2>1. PICK r : Then("done", Accepted(r, TRUE))
    BY <1>3
  <2>2. PICK answer : answer = [code |-> 202, job |-> r, reused |-> TRUE,
                                counted |-> "already_running"]
    OBVIOUS
  <2>3. Then("done", [answer |-> answer]) /\ "why" \notin DOMAIN answer /\ answer.code = 202
    BY <2>1, <2>2 DEF Accepted
  <2> QED BY <1>2, <2>3
<1>4. CASE \E f \in Failures : Then("done", Rejected(Refused(req.op, f)))
  <2>1. PICK f : Then("done", Rejected(Refused(req.op, f)))
    BY <1>4
  <2>2. PICK answer : answer = [code |-> Refused(req.op, f),
                                counted |-> Outcome(Refused(req.op, f))]
    OBVIOUS
  <2>3. Then("done", [answer |-> answer]) /\ "why" \notin DOMAIN answer
        /\ answer.code = Refused(req.op, f)
    BY <2>1, <2>2 DEF Rejected
  <2>4. req.op = "retry" => Refused(req.op, f) # 404
    BY DEF Refused
  <2> QED BY <1>2, <2>3, <2>4
<1>5. CASE /\ ~ gone /\ changes < MaxChanges /\ changes' = changes + 1
           /\ InsertRun(Me, scope, target)
           /\ \E outcome \in {Accepted(lastId', FALSE), Rejected(502)} :
                req' = With([pc |-> "done"], With(outcome, req))
           /\ UNCHANGED <<wallets, snaps, legacy, manual, now, patches, gone, offer>>
  <2>1. Wf' /\ RowsStay
    <3>1. changes' \in 0 .. MaxChanges /\ Me \in Users
      BY <1>1, <1>5, PortfolioAssumption DEF Wf
    <3> QED BY <1>1, <1>5, <3>1, InsertedRun DEF OwnRun
  <2>2. OfferInv'
    BY <1>1, <1>5, <2>1, OfferStays
  <2>3. PICK outcome \in {Accepted(lastId', FALSE), Rejected(502)} :
          req' = With([pc |-> "done"], With(outcome, req))
    BY <1>5
  <2>4. /\ DOMAIN outcome = {"answer"} /\ "why" \notin DOMAIN outcome.answer
        /\ outcome.answer.code \in {202, 502}
    BY <2>3 DEF Accepted, Rejected
  <2>5. /\ DOMAIN req' = {"pc", "answer"} \cup DOMAIN req /\ req'.pc = "done"
        /\ req'.answer = outcome.answer
        /\ \A k \in DOMAIN req \ {"pc", "answer"} : req'[k] = req[k]
    <3>1. PICK f : f = With(outcome, req)
      OBVIOUS
    <3>2. /\ DOMAIN f = {"answer"} \cup DOMAIN req /\ f.answer = outcome.answer
          /\ \A k \in DOMAIN req \ {"answer"} : f[k] = req[k]
      BY <2>4, <3>1 DEF With
    <3>3. req' = With([pc |-> "done"], f)
      BY <2>3, <3>1
    <3>4. /\ DOMAIN req' = {"pc"} \cup DOMAIN f /\ req'.pc = "done"
          /\ \A k \in DOMAIN f \ {"pc"} : req'[k] = f[k]
      BY <3>3 DEF With
    <3> QED BY <3>2, <3>4
  <2>6. req'.op = req.op
    BY <1>1, <2>5
  <2>7. SummaryInv' /\ PcInv'
    BY <1>1, <2>5, <2>6, OtherOp DEF PcInv, InfoSteps
  <2> QED BY <2>1, <2>2, <2>4, <2>5, <2>6, <2>7
<1> QED BY <1>3, <1>4, <1>5 DEF Post

LEMMA RefreshStepInv ==
  ASSUME PInv, (\E t \in Targets : StartRefresh(t)) \/ RefreshCheck \/ RefreshPost
  PROVE  PInv' /\ req'.op = "refresh"
<1>1. CASE \E t \in Targets : StartRefresh(t)
  <2>1. PICK t \in Targets : StartRefresh(t)
    BY <1>1
  <2>2. PICK p : p = IF t.scope = "all" THEN "post" ELSE "check"
    OBVIOUS
  <2> DEFINE locals == [scope |-> t.scope, target |-> t.target]
  <2>3. /\ Start("refresh", p, locals) /\ DOMAIN locals = {"scope", "target"}
        /\ locals.scope = t.scope /\ locals.target = t.target
    BY <2>1, <2>2 DEF StartRefresh
  <2> HIDE DEF locals
  <2>4. /\ Wf' /\ PcInv' /\ OfferInv' /\ SummaryInv' /\ req'.op = "refresh"
        /\ req'.pc = (IF gone THEN "done" ELSE p)
        /\ {"scope", "target"} \subseteq DOMAIN req'
        /\ req'.scope = t.scope /\ req'.target = t.target
    BY <2>2, <2>3, Started DEF InfoSteps
  <2>5. RefreshInv'
    BY <2>2, <2>4, TargetsAssumption DEF RefreshInv
  <2> QED BY <2>4, <2>5 DEF PInv, RetryInv, OfferInv
<1>2. CASE RefreshCheck
  <2>1. At("refresh", "check") /\ Wf /\ PcInv /\ RefreshInv
    BY <1>2 DEF RefreshCheck, PInv
  <2>2. \/ \E answer : Then("done", [answer |-> answer])
        \/ OwnedTarget(req.scope, req.target) /\ Then("post", NoLocals)
    BY <1>2 DEF RefreshCheck, Fail
  <2>3. ASSUME NEW answer, Then("done", [answer |-> answer]) PROVE PInv' /\ req'.op = "refresh"
    <3>1. /\ Wf' /\ PcInv' /\ OfferInv' /\ req'.op = "refresh" /\ req'.pc = "done"
      BY <2>1, <2>3, Replied DEF At
    <3> QED BY <3>1, OtherOp DEF PInv, RetryInv, RefreshInv, OfferInv
  <2>4. ASSUME OwnedTarget(req.scope, req.target), Then("post", NoLocals)
        PROVE  PInv' /\ req'.op = "refresh"
    <3>1. /\ Wf' /\ PcInv' /\ OfferInv' /\ req'.op = "refresh" /\ req'.pc = "post"
      BY <2>1, <2>4, SkippedHas, Stepped DEF At, InfoSteps
    <3>2. UNCHANGED wallets /\ Same({"scope", "target"})
      BY <2>1, <2>4, SkippedHas, StepTaken DEF RefreshInv, At
    <3>3. RefreshInv'
      BY <2>1, <2>4, <3>1, <3>2 DEF RefreshInv, OwnedTarget, OwnWallet, Same, At
    <3> QED BY <3>1, <3>3, OtherOp DEF PInv, RetryInv, OfferInv
  <2> QED BY <2>2, <2>3, <2>4
<1>3. CASE RefreshPost
  <2>1. At("refresh", "post") /\ RefreshInv /\ Post(req.scope, req.target)
    BY <1>3 DEF RefreshPost, PInv
  <2>2. /\ Wf' /\ PcInv' /\ OfferInv' /\ SummaryInv' /\ req'.op = "refresh"
        /\ req'.pc = "done"
    BY <2>1, Posted DEF At, RefreshInv
  <2> QED BY <2>2 DEF PInv, RetryInv, RefreshInv, OfferInv
<1> QED BY <1>1, <1>2, <1>3

(* A run with a failed chain did not end in success.                        *)
LEMMA OfferedRun ==
  ASSUME Wf, NEW j, Retryable(j), ~ gone
  PROVE  /\ OwnRun(j) /\ FailedChains(j) # {} /\ runs[j].status \in Statuses \ {"success"}
<1>1. OwnRun(j) /\ FailedChains(j) # {} /\ j \in DOMAIN runs
  BY DEF Retryable, OwnRun
<1>2. FailedChains(j) = FailedAmong(snaps, j)
  BY DEF FailedChains, Unfinished, PartsOf, FailedAmong, UnfinishedAmong, PartsAmong
<1>3. PICK s \in DOMAIN snaps : snaps[s].run = j /\ \E p \in snaps[s].parts : p.status = "failed"
  BY <1>1, <1>2, FailedChain
<1>4. runs[j].status # "success"
  BY <1>3 DEF Wf, WellFormed, SnapRows, Collected
<1>5. runs[j].status \in Statuses
  BY <1>1 DEF Wf, WellFormed, RunRows
<1> QED BY <1>1, <1>4, <1>5

LEMMA RetryStepInv ==
  ASSUME PInv, RetryLoad \/ RetryChains \/ RetryPost
  PROVE  PInv' /\ req'.op = "retry"
<1>1. /\ Wf /\ PcInv /\ RetryInv /\ OfferInv /\ req.op = "retry"
      /\ "job" \in DOMAIN req /\ req.job \in Nat
  BY DEF PInv, RetryInv, OfferInv, RetryLoad, RetryChains, RetryPost, At
<1>2. req.job = offer => Retryable(req.job)
  BY <1>1, PortfolioAssumption DEF OfferInv
<1>3. ASSUME NEW answer, Then("done", [answer |-> answer]),
             req.job = offer /\ ~ gone =>
               /\ answer.code # 404
               /\ "why" \in DOMAIN answer =>
                    answer.why = "not ready" /\ answer.status \in ActiveStatuses
      PROVE  PInv' /\ req'.op = "retry"
  <2>1. /\ Wf' /\ PcInv' /\ OfferInv' /\ req'.op = "retry" /\ req'.pc = "done"
    BY <1>1, <1>3, Replied
  <2> DEFINE locals == [answer |-> answer]
  <2>2. Then("done", locals) /\ DOMAIN locals = {"answer"} /\ locals.answer = answer
    BY <1>3
  <2> HIDE DEF locals
  <2>3. req'.answer = answer /\ Same({"job"}) /\ UNCHANGED <<world, gone, offer>>
    BY <1>1, <2>2, StepTaken
  <2>4. RetryInv'
    BY <1>1, <1>3, <2>1, <2>3 DEF RetryInv, OfferInv, Same
  <2> QED BY <2>1, <2>4, OtherOp DEF PInv, RefreshInv
<1>4. ASSUME NEW p \in {"chains", "post"}, Then(p, NoLocals), ~ gone => OwnRun(req.job)
      PROVE  PInv' /\ req'.op = "retry"
  <2>1. /\ Wf' /\ PcInv' /\ OfferInv' /\ req'.op = "retry" /\ req'.pc = p
    BY <1>1, <1>4, SkippedHas, Stepped DEF InfoSteps
  <2>2. Same({"job"}) /\ UNCHANGED <<runs, gone, offer>>
    BY <1>1, <1>4, SkippedHas, StepTaken
  <2>3. RetryInv'
    BY <1>1, <1>4, <2>1, <2>2 DEF RetryInv, OfferInv, Same, OwnRun
  <2> QED BY <2>1, <2>3, OtherOp DEF PInv, RefreshInv
<1>5. CASE RetryLoad
  <2>1. CASE ~ OwnRun(req.job)
    <3>1. PICK answer : answer = [code |-> 404]
      OBVIOUS
    <3>2. Then("done", [answer |-> answer])
      BY <1>5, <2>1, <3>1 DEF RetryLoad, Fail
    <3>3. ~ (req.job = offer /\ ~ gone)
      BY <1>1, <1>2, <2>1, OfferedRun
    <3> QED BY <1>3, <3>2, <3>3
  <2>2. CASE OwnRun(req.job) /\ runs[req.job].status \notin {"partial_success", "failed"}
    <3>1. PICK answer : answer = [code |-> 409, why |-> "not ready",
                                  status |-> runs[req.job].status]
      OBVIOUS
    <3>2. Then("done", [answer |-> answer])
      BY <1>5, <2>2, <3>1 DEF RetryLoad
    <3>3. req.job = offer /\ ~ gone => runs[req.job].status \in ActiveStatuses
      BY <1>1, <1>2, <2>2, OfferedRun DEF Statuses, ActiveStatuses
    <3>4. answer.why = "not ready" /\ answer.status = runs[req.job].status
      BY <3>1
    <3>5. req.job = offer /\ ~ gone =>
            /\ answer.code # 404
            /\ "why" \in DOMAIN answer =>
                 answer.why = "not ready" /\ answer.status \in ActiveStatuses
      <4>1. req.job = offer /\ ~ gone => answer.status \in ActiveStatuses
        BY <3>3, <3>4, Zenon
      <4>2. answer.code # 404
        <5>1. answer.code = 409
          BY <3>1
        <5>2. 409 # 404
          OBVIOUS
        <5> QED BY <5>1, <5>2, Z3
      <4> QED BY <3>4, <4>1, <4>2, Zenon
    <3> QED BY <1>3, <3>2, <3>5
  <2>3. CASE OwnRun(req.job) /\ runs[req.job].status \in {"partial_success", "failed"}
    BY <1>4, <1>5, <2>3 DEF RetryLoad
  <2> QED BY <2>1, <2>2, <2>3
<1>6. CASE RetryChains
  <2>1. At("retry", "chains") /\ (~ gone => OwnRun(req.job))
    BY <1>1, <1>6 DEF RetryChains, RetryInv, At
  <2>2. CASE FailedChains(req.job) = {}
    <3>1. PICK answer : answer = [code |-> 409, why |-> "no failed chains"]
      OBVIOUS
    <3>2. Then("done", [answer |-> answer])
      BY <1>6, <2>2, <3>1 DEF RetryChains
    <3>3. ~ (req.job = offer /\ ~ gone)
      BY <1>1, <1>2, <2>2, OfferedRun
    <3> QED BY <1>3, <3>2, <3>3
  <2>3. CASE FailedChains(req.job) # {}
    BY <1>4, <1>6, <2>1, <2>3 DEF RetryChains
  <2> QED BY <2>2, <2>3
<1>7. CASE RetryPost
  <2>1. /\ At("retry", "post") /\ (~ gone => OwnRun(req.job))
        /\ Post("failed_chains", req.job)
    BY <1>1, <1>7 DEF RetryPost, RetryInv, At
  <2>2. /\ Wf' /\ PcInv' /\ OfferInv' /\ SummaryInv' /\ req'.op = "retry" /\ req'.pc = "done"
        /\ "job" \in DOMAIN req' /\ req'.job = req.job
        /\ "why" \notin DOMAIN req'.answer /\ req'.answer.code # 404
    BY <1>1, <2>1, Posted
  <2>3. RetryInv'
    BY <1>1, <2>2 DEF RetryInv, OfferInv
  <2> QED BY <2>2, <2>3 DEF PInv, RefreshInv
<1> QED BY <1>5, <1>6, <1>7

LEMMA JobInv ==
  ASSUME PInv, JobStep
  PROVE  PInv' /\ req'.op \in {"refresh", "job", "retry"}
<1>1. CASE \E op \in {"job", "retry"}, job \in DOMAIN runs : StartJob(op, job)
  <2>1. PICK op \in {"job", "retry"}, job \in DOMAIN runs : StartJob(op, job)
    BY <1>1
  <2> DEFINE locals == [job |-> job]
  <2>2. Start(op, "load", locals) /\ DOMAIN locals = {"job"} /\ locals.job = job
    BY <2>1 DEF StartJob
  <2> HIDE DEF locals
  <2>3. /\ Wf' /\ PcInv' /\ OfferInv' /\ SummaryInv' /\ UNCHANGED world
        /\ req'.op = op /\ req'.pc = (IF gone THEN "done" ELSE "load")
        /\ "job" \in DOMAIN req' /\ req'.job = job
    BY <2>2, Started DEF InfoSteps
  <2>4. job \in Nat /\ gone' = gone
    BY <2>3 DEF world, PInv, Wf, WellFormed, RunRows
  <2>5. RetryInv'
    BY <2>3, <2>4 DEF RetryInv, OfferInv
  <2> QED BY <2>3, <2>5 DEF PInv, RefreshInv
<1>2. CASE JobLoad
  <2>1. req.op = "job"
    BY <1>2 DEF JobLoad, At
  <2>2. \/ \E status : Then("chains", [status |-> status])
        \/ \E answer : Then("done", [answer |-> answer])
    BY <1>2 DEF JobLoad, Fail
  <2>3. ASSUME NEW status, Then("chains", [status |-> status])
        PROVE  PInv' /\ req'.op \in {"refresh", "job", "retry"}
    BY <2>1, <2>3, Stepped DEF InfoSteps
  <2> QED BY <2>1, <2>2, <2>3, Replied
<1>3. CASE JobChains
  <2>1. req.op = "job" /\ \E answer : Then("done", [answer |-> answer])
    BY <1>3 DEF JobChains, At
  <2> QED BY <2>1, Replied
<1> QED BY <1>1, <1>2, <1>3, RefreshStepInv, RetryStepInv DEF JobStep

LEMMA FinishInv ==
  ASSUME PInv, Finish
  PROVE  PInv'
<1>1. /\ Wf /\ SummaryInv /\ req.pc = "done" /\ UNCHANGED world
      /\ req' = [op |-> "none", pc |-> "idle"]
      /\ offer' = IF req.op = "summary" /\ req.answer.code = 200
                    THEN req.answer.health.retry ELSE Null
  BY DEF Finish, PInv
<1>2. Wf' /\ RowsStay
  BY <1>1, WorldStays
<1>3. OfferInv'
  <2>1. CASE req.op = "summary" /\ req.answer.code = 200
    <3>1. HealthKnown(req.answer.health)
      BY <1>1, <2>1 DEF SummaryInv, Done, At, DoneKnown
    <3>2. PICK j : j = offer'
      OBVIOUS
    <3>3. j = Null \/ Retryable(j)
      BY <1>1, <2>1, <3>1, <3>2 DEF HealthKnown
    <3>4. j = Null \/ Retryable(j)'
      BY <1>1, <1>2, <3>3, RetryableStays
    <3> QED BY <3>2, <3>4 DEF OfferInv, Retryable, OwnRun, FailedChains
  <2>2. CASE ~ (req.op = "summary" /\ req.answer.code = 200)
    BY <1>1, <2>2 DEF OfferInv
  <2> QED BY <2>1, <2>2
<1>4. req'.op = "none" /\ req'.pc = "idle" /\ DOMAIN req' = {"op", "pc"}
  BY <1>1
<1>5. PcInv' /\ SummaryInv'
  BY <1>4, OtherOp DEF PcInv, InfoSteps
<1> QED BY <1>2, <1>3, <1>4, <1>5, Others

LEMMA InitInv == PInit => PInv
<1> SUFFICES ASSUME PInit PROVE PInv
  OBVIOUS
<1>1. Wf
  BY InitWf DEF PInit
<1>2. req = [op |-> "none", pc |-> "idle"] /\ offer = Null
  BY DEF PInit, Init0
<1>3. req.op = "none" /\ req.pc = "idle" /\ DOMAIN req = {"op", "pc"}
  BY <1>2
<1> QED BY <1>1, <1>2, <1>3
        DEF PInv, PcInv, InfoSteps, SummaryInv, At, Done, RefreshInv, RetryInv

LEMMA NextInv == PInv /\ [PNext]_pVars => PInv'
<1> SUFFICES ASSUME PInv, [PNext]_pVars PROVE PInv'
  OBVIOUS
<1>1. Wf
  BY DEF PInv
<1>2. CASE Environment
  BY <1>1, <1>2, EnvironmentWf, BesideInv
<1>3. CASE UNCHANGED pVars
  <2>1. UNCHANGED <<world, req, offer>>
    BY <1>3 DEF pVars
  <2> QED BY <1>1, <2>1, WorldStays, BesideInv
<1> QED BY <1>2, <1>3, InfoInv, SummaryStepInv, AllocationInv, DetailInv, HistoryInv, JobInv,
           FinishInv DEF PNext

(* The invariant holds throughout, for every database, every content of a   *)
(* collection and every bound on the changes.                               *)
THEOREM PortfolioInductive == PSpec => []PInv
BY InitInv, NextInv, PTL DEF PSpec
------------------------------------------------------------------------------
(* The health of a set of wallets and of each of them                       *)

OwnSnaps(info) == {info.snap} \ {Null}
OwnBalances(info) == IF info.snap # Null THEN BalancesOf(OwnSnaps(info)) ELSE Sourced(info)

Lacking(info) ==
  \/ Unfinished(OwnSnaps(info)) # {}
  \/ \E x \in Relevant(OwnBalances(info)) : Flawed(x)
  \/ info.source = "none"

Aged(info, t) == info.at # Null /\ t - info.at > Stale

(* What a health is computed from, of one wallet.                           *)
InfoFits(info) ==
  /\ info.at = Null \/ info.at \in Int
  /\ info.snap = Null => IsFiniteSet(info.assets)

(* A wallet by itself.                                                      *)
LEMMA OwnState ==
  ASSUME Wf, NEW info, InfoFits(info), NEW t \in Int
  PROVE  DetailHealth(info, FALSE, Unfinished(OwnSnaps(info)),
                      BalancesOf(OwnSnaps(info)), t).state
           = IF Lacking(info) THEN "partial" ELSE IF Aged(info, t) THEN "stale" ELSE "fresh"
<1> DEFINE B == OwnBalances(info)
           issues == Unfinished(OwnSnaps(info))
           bad == PriceQuality(B).state \in {"estimated", "incomplete"}
           none == info.source = "none"
           freshness == Freshness(info.at, t)
<1>1. DetailHealth(info, FALSE, issues, BalancesOf(OwnSnaps(info)), t).state
        = HealthState(issues, PriceQuality(B).state, FALSE, none, freshness)
  BY DEF DetailHealth, OwnBalances
<1>2. IsFiniteSet(B)
  <2>1. IsFiniteSet(OwnSnaps(info))
    <3>1. IsFiniteSet({info.snap})
      BY FS_Singleton
    <3>2. OwnSnaps(info) \in SUBSET {info.snap}
      BY DEF OwnSnaps
    <3> QED BY <3>1, <3>2, FS_Subset
  <2>2. IsFiniteSet(BalancesOf(OwnSnaps(info)))
    BY <2>1, BalancesFinite
  <2>3. info.snap = Null => IsFiniteSet(Sourced(info))
    BY SourcedFinite DEF InfoFits
  <2> QED BY <2>2, <2>3 DEF OwnBalances
<1>3. bad <=> \E x \in Relevant(B) : Flawed(x)
  <2> HIDE DEF B
  <2> QED BY <1>2, QualityBad
<1>4. freshness = "stale" <=> Aged(info, t)
  BY StaleOf DEF InfoFits, Aged
<1>5. HealthState(issues, PriceQuality(B).state, FALSE, none, freshness)
        = IF issues # {} \/ bad \/ none THEN "partial"
          ELSE IF freshness = "stale" THEN "stale" ELSE "fresh"
  <2> HIDE DEF B, issues, none, freshness
  <2> QED BY DEF HealthState
<1>6. Lacking(info) <=> issues # {} \/ bad \/ none
  <2> HIDE DEF bad
  <2> QED BY <1>3 DEF Lacking
<1> HIDE DEF B, bad, none, freshness
<1> QED BY <1>1, <1>4, <1>5, <1>6

(* Their rows and balances, one wallet at a time.                           *)
LEMMA RowsOfEach ==
  ASSUME NEW infos
  PROVE  /\ Unfinished(SnapsIn(infos)) # {} <=>
              \E w \in DOMAIN infos : Unfinished(OwnSnaps(infos[w])) # {}
         /\ \A x : x \in BalancesOf(SnapsIn(infos)) <=>
              \E w \in DOMAIN infos : x \in BalancesOf(OwnSnaps(infos[w]))
<1> DEFINE S == SnapsIn(infos)
           Own(w) == OwnSnaps(infos[w])
<1>1. \A s : s \in S <=> \E w \in DOMAIN infos : s \in Own(w)
  BY DEF SnapsIn, OwnSnaps
<1>2. ASSUME NEW T, NEW x
      PROVE  x \in Unfinished(T) <=>
               \E s \in T \cap DOMAIN snaps : \E p \in snaps[s].parts :
                 /\ p.status # "success"
                 /\ x = <<s, [chain |-> p.chain, status |-> p.status, run |-> snaps[s].run]>>
  <2>1. Unfinished(T) = UnfinishedAmong(snaps, T)
    BY DEF Unfinished, UnfinishedAmong, PartsOf, PartsAmong
  <2> QED BY <2>1, OneUnfinished
<1>3. \A x : x \in Unfinished(S) <=> \E w \in DOMAIN infos : x \in Unfinished(Own(w))
  <2> HIDE DEF S, Own
  <2> QED BY <1>1, <1>2
<1>4. \A x : x \in BalancesOf(S) <=> \E w \in DOMAIN infos : x \in BalancesOf(Own(w))
  <2> HIDE DEF S, Own
  <2> QED BY <1>1, OneBalance
<1> QED BY <1>3, <1>4

(* All of them together.                                                    *)
LEMMA WholeState ==
  ASSUME Wf, NEW infos, IsFiniteSet(DOMAIN infos), IsFiniteSet(BalancesOf(SnapsIn(infos))),
         \A w \in DOMAIN infos : InfoFits(infos[w]), NEW t \in Int
  PROVE  DataHealth(infos, FALSE, Unfinished(SnapsIn(infos)),
                    BalancesOf(SnapsIn(infos)), t).state
           = IF \E w \in DOMAIN infos : Lacking(infos[w]) THEN "partial"
             ELSE IF \E w \in DOMAIN infos : Aged(infos[w], t) THEN "stale" ELSE "fresh"
<1> DEFINE W == DOMAIN infos
           S == SnapsIn(infos)
           dates == {infos[w].at : w \in W} \ {Null}
           unread == {w \in W : infos[w].snap = Null}
           Rest == UNION {Sourced(infos[w]) : w \in unread}
           B == BalancesOf(S) \cup Rest
           missing == {w \in W : infos[w].source = "none"}
           issues == Unfinished(S)
           bad == PriceQuality(B).state \in {"estimated", "incomplete"}
           freshness == Freshness(MinOrNull(dates), t)
<1>1. DataHealth(infos, FALSE, issues, BalancesOf(S), t).state
        = HealthState(issues, PriceQuality(B).state, FALSE, missing # {}, freshness)
  BY DEF DataHealth
<1>2. IsFiniteSet(B)
  BY RestFinite DEF InfoFits
<1>3. bad <=> \E x \in Relevant(B) : Flawed(x)
  <2> HIDE DEF B
  <2> QED BY <1>2, QualityBad
<1>4. \A x : x \in B <=> \E w \in W : x \in OwnBalances(infos[w])
  <2>1. ASSUME NEW x \in BalancesOf(S)
        PROVE  \E w \in W : x \in OwnBalances(infos[w])
    <3>1. PICK w \in W : x \in BalancesOf(OwnSnaps(infos[w]))
      BY RowsOfEach
    <3>2. infos[w].snap # Null
      BY <3>1, OneBalance DEF OwnSnaps
    <3> QED BY <3>1, <3>2 DEF OwnBalances
  <2>2. ASSUME NEW x \in Rest
        PROVE  \E w \in W : x \in OwnBalances(infos[w])
    BY DEF OwnBalances
  <2>3. ASSUME NEW x, NEW w \in W, x \in OwnBalances(infos[w])
        PROVE  x \in B
    <3>1. CASE infos[w].snap # Null
      <4>1. x \in BalancesOf(OwnSnaps(infos[w]))
        BY <2>3, <3>1 DEF OwnBalances
      <4> QED BY <4>1, RowsOfEach
    <3>2. CASE infos[w].snap = Null
      BY <2>3, <3>2 DEF OwnBalances
    <3> QED BY <3>1, <3>2
  <2> HIDE DEF S, Rest
  <2> QED BY <2>1, <2>2, <2>3
<1>5. bad <=> \E w \in W : \E x \in Relevant(OwnBalances(infos[w])) : Flawed(x)
  <2> HIDE DEF B, bad
  <2> QED BY <1>3, <1>4 DEF Relevant
<1>6. issues # {} <=> \E w \in W : Unfinished(OwnSnaps(infos[w])) # {}
  BY RowsOfEach
<1>7. missing # {} <=> \E w \in W : infos[w].source = "none"
  OBVIOUS
<1>8. freshness = "stale" <=> \E w \in W : Aged(infos[w], t)
  <2>1. IsFiniteSet(dates) /\ dates \subseteq Int
    BY DatesFinite DEF InfoFits
  <2>2. freshness = "stale" <=> \E d \in dates : t - d > Stale
    <3>1. /\ dates = {} => MinOrNull(dates) = Null
          /\ dates # {} => MinOrNull(dates) \in dates /\ \A d \in dates : MinOrNull(dates) <= d
      <4> HIDE DEF dates
      <4> QED BY <2>1, OldestDate
    <3>2. MinOrNull(dates) = Null \/ MinOrNull(dates) \in Int
      <4> HIDE DEF dates
      <4> QED BY <2>1, <3>1
    <3>3. freshness = "stale" <=> MinOrNull(dates) # Null /\ t - MinOrNull(dates) > Stale
      <4> HIDE DEF dates
      <4> QED BY <3>2, StaleOf
    <3>4. CASE dates = {}
      <4> HIDE DEF dates, freshness
      <4> QED BY <3>1, <3>3, <3>4
    <3>5. CASE dates # {}
      <4>1. MinOrNull(dates) \in dates /\ \A d \in dates : MinOrNull(dates) <= d
        BY <3>1, <3>5
      <4>2. PICK m : m = MinOrNull(dates)
        OBVIOUS
      <4>3. m # Null
        BY <2>1, <4>1, <4>2, PortfolioAssumption
      <4>4. freshness = "stale" <=> t - m > Stale
        <5> HIDE DEF dates, freshness
        <5> QED BY <3>3, <4>2, <4>3
      <4>5. m \in dates /\ m \in Int /\ \A d \in dates : m <= d /\ d \in Int
        <5> HIDE DEF dates
        <5> QED BY <2>1, <4>1, <4>2
      <4>6. t - m > Stale <=> \E d \in dates : t - d > Stale
        <5> HIDE DEF dates
        <5> QED BY <4>5, PortfolioAssumption
      <4> HIDE DEF dates, freshness
      <4> QED BY <4>4, <4>6
    <3> QED BY <3>4, <3>5
  <2>3. (\E d \in dates : t - d > Stale) <=> \E w \in W : Aged(infos[w], t)
    BY DEF Aged
  <2> HIDE DEF dates, freshness
  <2> QED BY <2>2, <2>3
<1>9. HealthState(issues, PriceQuality(B).state, FALSE, missing # {}, freshness)
        = IF issues # {} \/ bad \/ missing # {} THEN "partial"
          ELSE IF freshness = "stale" THEN "stale" ELSE "fresh"
  <2> HIDE DEF B, issues, freshness, missing
  <2> QED BY DEF HealthState
<1>10. issues # {} \/ bad \/ missing # {} <=> \E w \in W : Lacking(infos[w])
  <2> HIDE DEF bad, issues, missing
  <2> QED BY <1>5, <1>6, <1>7 DEF Lacking
<1> HIDE DEF B, bad, missing, freshness
<1> QED BY <1>1, <1>8, <1>9, <1>10

(* The values the wallets would be shown with now are such values.          *)
LEMMA ViewFits ==
  ASSUME Wf, NEW W, W \subseteq DOMAIN wallets
  PROVE  LET infos == Infos(ViewNow(W))
         IN  /\ DOMAIN infos = W /\ IsFiniteSet(W)
             /\ \A w \in W : InfoFits(infos[w])
             /\ IsFiniteSet(BalancesOf(SnapsIn(infos)))
<1> DEFINE view == ViewNow(W)
           infos == Infos(view)
           latest == LatestSnapshots(W)
           old == LatestLegacy(W \ DOMAIN latest)
           S == {latest[w] : w \in DOMAIN latest}
<1>1. /\ view.wallets = W /\ view.latest = latest /\ view.legacy = old
      /\ view.meta = [s \in S |-> [total |-> snaps[s].total, at |-> Observed(s)]]
      /\ view.legacyAssets = [w \in DOMAIN old |-> LegacyBalances(old[w].id)]
      /\ view.manual = [w \in W |-> ManualBalances(w)]
  BY DEF ViewNow
<1>2. DOMAIN infos = W /\ \A w \in W : infos[w] = Info(view, w)
  <2> HIDE DEF view
  <2> QED BY <1>1 DEF Infos
<1>3. IsFiniteSet(W)
  BY FS_Subset DEF Wf, WellFormed, WalletRows
<1>4. ASSUME NEW w \in W
      PROVE  InfoFits(Info(view, w)) /\ (Info(view, w).snap # Null => Info(view, w).snap \in DOMAIN snaps)
  <2>1. CASE w \in DOMAIN latest
    <3>1. latest[w] \in DOMAIN snaps /\ latest[w] \in S
      BY <2>1, LatestAre
    <3>2. latest[w] # Null
      BY <3>1, SnapsFinite, PortfolioAssumption
    <3>3. Info(view, w).at = Observed(latest[w]) /\ Info(view, w).snap = latest[w]
      <4>1. view.meta[latest[w]].at = Observed(latest[w])
        <5> HIDE DEF view, latest, S
        <5> QED BY <1>1, <3>1
      <4> HIDE DEF view, latest
      <4> QED BY <1>1, <2>1, <4>1, InfoOf
    <3>4. Observed(latest[w]) \in Int
      BY <3>1, ObservedInt
    <3> HIDE DEF view, latest
    <3> QED BY <3>1, <3>2, <3>3, <3>4 DEF InfoFits
  <2>2. CASE w \notin DOMAIN latest /\ w \in DOMAIN old
    <3>1. Info(view, w).at = old[w].at /\ Info(view, w).snap = Null
          /\ Info(view, w).assets = LegacyBalances(old[w].id)
      <4> HIDE DEF view, latest, old
      <4> QED BY <1>1, <2>2, InfoOf
    <3>2. old[w].at \in Int
      BY <2>2, LegacyAre
    <3>3. IsFiniteSet(LegacyBalances(old[w].id))
      BY LegacyBalancesFinite
    <3> HIDE DEF view, old
    <3> QED BY <3>1, <3>2, <3>3 DEF InfoFits
  <2>3. CASE w \notin DOMAIN latest /\ w \notin DOMAIN old
    <3>1. /\ Info(view, w).at = Null /\ Info(view, w).snap = Null
          /\ Info(view, w).assets = ManualBalances(w) \/ Info(view, w).assets = {}
      <4> HIDE DEF view, latest, old
      <4> QED BY <1>1, <2>3, InfoOf
    <3>2. IsFiniteSet(ManualBalances(w)) /\ IsFiniteSet({})
      BY ManualBalancesFinite, FS_EmptySet
    <3> HIDE DEF view
    <3> QED BY <3>1, <3>2 DEF InfoFits
  <2> QED BY <2>1, <2>2, <2>3
<1>5. SnapsIn(infos) \subseteq DOMAIN snaps
  <2> HIDE DEF infos, view
  <2> QED BY <1>2, <1>4 DEF SnapsIn
<1>6. IsFiniteSet(BalancesOf(SnapsIn(infos)))
  <2> HIDE DEF infos
  <2> QED BY <1>5, SnapsFinite, BalancesFinite
<1>7. \A w \in W : InfoFits(infos[w])
  <2> HIDE DEF infos, view
  <2> QED BY <1>2, <1>4
<1> QED BY <1>2, <1>3, <1>6, <1>7

------------------------------------------------------------------------------
(* What follows from it                                                     *)

(* The tables stay well formed, whoever writes them, and a refresh or a     *)
(* retry creates runs over the user's own wallets, groups and runs only.    *)
THEOREM PortfolioTypes == PSpec => []PTypeOK
<1>1. PInv => PTypeOK
  <2> SUFFICES ASSUME PInv PROVE PTypeOK
    OBVIOUS
  <2>1. /\ WalletRows(wallets, now) /\ RunRows(wallets, runs, lastId, now)
        /\ SnapRows(wallets, runs, snaps, lastId, now) /\ OtherRows(wallets, legacy, manual, now)
        /\ now \in 0 .. MaxNow /\ changes \in 0 .. MaxChanges
        /\ req.op = "none" <=> req.pc = "idle"
        /\ offer = Null \/ offer \in Nat
    BY DEF PInv, Wf, WellFormed, PcInv, RetryInv, Retryable
  <2>2. /\ \A w \in DOMAIN wallets : wallets[w].user \in Users /\ wallets[w].addrAt <= now
        /\ \A r \in DOMAIN runs : runs[r].user \in Users /\ runs[r].status \in Statuses
        /\ \A s \in DOMAIN snaps : /\ snaps[s].wallet \in DOMAIN wallets
                                   /\ snaps[s].run \in DOMAIN runs
        /\ \A l \in DOMAIN legacy : legacy[l].wallet \in DOMAIN wallets
        /\ DOMAIN manual \subseteq DOMAIN wallets
    BY <2>1 DEF WalletRows, RunRows, SnapRows, OtherRows
  <2>3. ASSUME NEW r \in DOMAIN runs
        PROVE  LET u == runs[r].user
                   t == runs[r].target
               IN  /\ runs[r].scope = "wallet" /\ t \in DOMAIN wallets => wallets[t].user = u
                   /\ runs[r].scope = "group" => GroupOwner[t] = u
                   /\ runs[r].scope = "failed_chains" => runs[t].user = u
    BY <2>1 DEF RunRows
  <2> QED BY <2>1, <2>2, <2>3 DEF PTypeOK
<1> QED BY <1>1, PortfolioInductive, PTL

(* A change that is called complete compares like with like, however the    *)
(* tables move between the fourteen statements behind it.                   *)
THEOREM CompleteChangesCompare == PSpec => []CompleteIsComparable
<1>1. PInv => CompleteIsComparable
  <2> SUFFICES ASSUME PInv, Done("summary"), req.answer.change.status = "complete"
               PROVE  /\ DOMAIN req.base = req.wallets /\ DOMAIN req.latest = req.wallets
                      /\ \A w \in req.wallets :
                           LET s == req.base[w]
                               e == req.latest[w]
                           IN  s \in DOMAIN snaps /\ e \in DOMAIN snaps =>
                                 /\ \/ snaps[s].key = snaps[e].key
                                    \/ \E x \in {s, e} : Raced(patches[w], CreatedAt(x))
                                 /\ \A x \in {s, e} :
                                      /\ \A part \in snaps[x].parts : part.status = "success"
                                      /\ \A b \in BalancesOf({x}) :
                                           b[2].amount # 0 => b[2].price # Null
                                 /\ req.at - Observed(e) <= Fresh
                                 /\ Observed(e) - Observed(s) \in Day - Fresh .. Day + Fresh
    BY DEF CompleteIsComparable
  <2>1. Wf /\ Gathered /\ CompleteKnown
    BY DEF PInv, SummaryInv, DoneKnown
  <2>2. DOMAIN req.base = req.wallets /\ DOMAIN req.latest = req.wallets
    BY <2>1 DEF CompleteKnown, BaseKnown
  <2>3. ASSUME NEW w \in req.wallets, NEW s, s = req.base[w], NEW e, e = req.latest[w],
               s \in DOMAIN snaps, e \in DOMAIN snaps
        PROVE  /\ \/ snaps[s].key = snaps[e].key
                  \/ \E x \in {s, e} : Raced(patches[w], CreatedAt(x))
               /\ \A x \in {s, e} :
                    /\ \A part \in snaps[x].parts : part.status = "success"
                    /\ \A b \in BalancesOf({x}) : b[2].amount # 0 => b[2].price # Null
               /\ req.at - Observed(e) <= Fresh
               /\ Observed(e) - Observed(s) \in Day - Fresh .. Day + Fresh
    <3>1. s \in BaseSnaps \cap DOMAIN snaps /\ e \in Chosen \cap DOMAIN snaps
      BY <2>2, <2>3 DEF BaseSnaps, Chosen
    <3>2. /\ AllDone(Chosen) /\ AllPriced(Chosen) /\ AllDone(BaseSnaps) /\ AllPriced(BaseSnaps)
          /\ req.at - Observed(e) <= Fresh /\ Observed(e) <= req.at /\ req.at \in Int
      BY <2>1, <3>1 DEF CompleteKnown, CurrentKnown
    <3>3. /\ Observed(s) \in Cutoff - Fresh .. Cutoff
          /\ snaps[s].key = snaps[e].key \/ Races(w, s) \/ Races(w, e)
      BY <2>1, <2>3 DEF CompleteKnown, BaseKnown
    <3>4. \A x \in {s, e} :
            /\ \A part \in snaps[x].parts : part.status = "success"
            /\ \A b \in BalancesOf({x}) : b[2].amount # 0 => b[2].price # Null
      BY <3>1, <3>2 DEF AllDone, AllPriced
    <3>5. Observed(e) - Observed(s) \in Day - Fresh .. Day + Fresh
      <4>1. Observed(s) \in Int /\ Observed(e) \in Int
        BY <2>1, <2>3, ObservedInt
      <4> QED BY <3>2, <3>3, <4>1, PortfolioAssumption DEF Cutoff
    <3>6. \/ snaps[s].key = snaps[e].key
          \/ \E x \in {s, e} : Raced(patches[w], CreatedAt(x))
      BY <3>3 DEF Races
    <3> QED BY <3>2, <3>4, <3>5, <3>6
  <2> QED BY <2>2, <2>3
<1> QED BY <1>1, PortfolioInductive, PTL

(* A summary shown as fresh has no gap in it.                               *)
THEOREM FreshSummariesAreWhole == PSpec => []FreshHasNoGap
<1>1. PInv => FreshHasNoGap
  <2> SUFFICES ASSUME PInv, Done("summary"), req.answer.health.state = "fresh"
               PROVE  FreshHasNoGap
    BY DEF FreshHasNoGap
  <2>1. Wf /\ Gathered /\ FreshKnown /\ Picked
    BY GatheredPicked DEF PInv, SummaryInv, DoneKnown, HealthKnown
  <2>2. SnapsIn(Infos(req)) = Chosen
    BY <2>1, SnapsChosen DEF Picked, LatestKnown
  <2>3. ASSUME NEW w \in req.wallets, NEW info, info = Info(req, w)
        PROVE  /\ info.source # "none"
               /\ info.snap \in DOMAIN snaps =>
                    /\ \A part \in snaps[info.snap].parts : part.status = "success"
                    /\ \A b \in BalancesOf({info.snap}) :
                         b[2].amount # 0 => b[2].price # Null
               /\ info.at # Null => req.at - info.at <= Stale
    <3>1. info.source # "none" /\ (info.at # Null => req.at - info.at <= Stale)
      BY <2>1, <2>3 DEF FreshKnown
    <3>2. ASSUME info.snap \in DOMAIN snaps PROVE info.snap \in Chosen \cap DOMAIN snaps
      <4>1. info.snap # Null
        BY <2>1, <3>2, PortfolioAssumption DEF Wf, WellFormed, SnapRows
      <4>2. w \in DOMAIN req.latest /\ info.snap = req.latest[w]
        BY <2>3, <4>1, InfoOf
      <4> QED BY <3>2, <4>2 DEF Chosen
    <3> QED BY <2>1, <3>1, <3>2 DEF FreshKnown, AllDone, AllPriced
  <2>4. /\ ~ req.refreshing
        /\ req.ex.status \in {"not_configured", "success"}
        /\ \A a \in req.ex.assets : a.price # Null
    BY <2>1 DEF FreshKnown
  <2> QED BY <2>3, <2>4 DEF FreshHasNoGap
<1> QED BY <1>1, PortfolioInductive, PTL

(* What a summary offers for a retry the retry endpoint takes.              *)
THEOREM OffersAreTaken == PSpec => []RetryOfferHolds
<1>1. PInv => RetryOfferHolds
  <2> SUFFICES ASSUME RetryInv PROVE RetryOfferHolds
    BY DEF PInv
  <2>1. req.op = "retry" /\ req.pc = "done" /\ req.job = offer /\ ~ gone =>
          /\ req.answer.code # 404
          /\ "why" \in DOMAIN req.answer =>
               req.answer.why = "not ready" /\ req.answer.status \in ActiveStatuses
    BY Zenon DEF RetryInv
  <2> QED BY <2>1, Zenon DEF RetryOfferHolds, At
<1> QED BY <1>1, PortfolioInductive, PTL

(* The health of a portfolio is that of the worst of its wallets: it cannot *)
(* be told fresh while the page of one of them says stale or partial.       *)
THEOREM HealthIsWorst == PSpec => []HealthIsWorstOfWallets
<1>1. PInv => HealthIsWorstOfWallets
  <2> DEFINE W == CanonicalWallets(Me)
             infos == Infos(ViewNow(W))
             Own(w) == LET S == SnapsIn([v \in {w} |-> infos[v]])
                       IN  DetailHealth(infos[w], FALSE, Unfinished(S), BalancesOf(S), now).state
             own == {Own(w) : w \in W}
             S == SnapsIn(infos)
             whole == DataHealth(infos, FALSE, Unfinished(S), BalancesOf(S), now).state
  <2> SUFFICES ASSUME Wf
               PROVE  whole = IF "partial" \in own THEN "partial"
                              ELSE IF "stale" \in own THEN "stale" ELSE "fresh"
    BY DEF PInv, HealthIsWorstOfWallets
  <2>1. now \in Int
    BY PortfolioAssumption DEF Wf
  <2>2. /\ DOMAIN infos = W /\ IsFiniteSet(W)
        /\ \A w \in W : InfoFits(infos[w])
        /\ IsFiniteSet(BalancesOf(S))
    <3>1. W \subseteq DOMAIN wallets
      BY DEF CanonicalWallets, ActiveOf
    <3> HIDE DEF W
    <3> QED BY <3>1, ViewFits
  <2>3. ASSUME NEW w \in W
        PROVE  Own(w) = IF Lacking(infos[w]) THEN "partial"
                        ELSE IF Aged(infos[w], now) THEN "stale" ELSE "fresh"
    <3>1. SnapsIn([v \in {w} |-> infos[v]]) = OwnSnaps(infos[w])
      <4> HIDE DEF infos
      <4> QED BY DEF SnapsIn, OwnSnaps
    <3>2. DetailHealth(infos[w], FALSE, Unfinished(OwnSnaps(infos[w])),
                       BalancesOf(OwnSnaps(infos[w])), now).state
            = IF Lacking(infos[w]) THEN "partial"
              ELSE IF Aged(infos[w], now) THEN "stale" ELSE "fresh"
      <4> HIDE DEF infos, W
      <4> QED BY <2>1, <2>2, OwnState
    <3> HIDE DEF infos
    <3> QED BY <3>1, <3>2
  <2>4. whole = IF \E w \in W : Lacking(infos[w]) THEN "partial"
                ELSE IF \E w \in W : Aged(infos[w], now) THEN "stale" ELSE "fresh"
    <3> HIDE DEF infos, W
    <3> QED BY <2>1, <2>2, WholeState
  <2>5. "partial" \in own <=> \E w \in W : Lacking(infos[w])
    <3> HIDE DEF infos, W, Own
    <3> QED BY <2>3
  <2>6. ~ (\E w \in W : Lacking(infos[w])) =>
          ("stale" \in own <=> \E w \in W : Aged(infos[w], now))
    <3> HIDE DEF infos, W, Own
    <3> QED BY <2>3
  <2> HIDE DEF infos, W, own, whole
  <2> QED BY <2>4, <2>5, <2>6
<1> QED BY <1>1, PortfolioInductive, PTL

------------------------------------------------------------------------------
(* What the balances of a wallet add up to                                  *)

(* Finitely many balances, each of a value.                                 *)
Countable(A) == IsFiniteSet(A) /\ \A x \in A : x[2].value \in Int

LEMMA TotalInt ==
  ASSUME NEW B, BalanceRows(B)
  PROVE  Total(B) \in Int
<1> DEFINE f == [b \in B |-> b.value]
<1>1. IsFiniteSet(DOMAIN f) /\ \A b \in DOMAIN f : f[b] \in Int
  BY DEF BalanceRows, Balance
<1> HIDE DEF f
<1>2. SumFunction(f) \in Int
  BY <1>1, SumInt
<1> QED BY <1>2 DEF Total, f

LEMMA CollectedRows ==
  ASSUME NEW c, Collected(c)
  PROVE  BalanceRows(UNION {p.balances : p \in c.parts}) /\ c.total \in Int
<1> DEFINE f == [p \in c.parts |-> p.balances]
           B == UNION {p.balances : p \in c.parts}
<1>1. IsFiniteSet(UNION {f[p] : p \in c.parts})
  <2>1. \A p \in c.parts : IsFiniteSet(f[p])
    BY DEF Collected, BalanceRows
  <2> HIDE DEF f
  <2> QED BY <2>1, UnionFinite DEF Collected
<1>2. UNION {f[p] : p \in c.parts} = B
  OBVIOUS
<1>3. \A b \in B : Balance(b)
  BY DEF Collected, BalanceRows
<1>4. BalanceRows(B)
  BY <1>1, <1>2, <1>3 DEF BalanceRows
<1>5. c.total = Total(B)
  BY DEF Collected
<1> HIDE DEF B
<1>6. c.total \in Int
  BY <1>4, <1>5, TotalInt
<1> QED BY <1>4, <1>6 DEF B

(* Rows under another name have the same values.                            *)
LEMMA RenamedWorth ==
  ASSUME NEW B, BalanceRows(B), NEW out,
         \A b \in B : out[b][2].value = b.value,
         \A b, c \in B : out[b] = out[c] => b = c
  PROVE  LET A == {out[b] : b \in B} IN Countable(A) /\ SumValues(A) = Total(B)
<1> DEFINE A == {out[b] : b \in B}
           f == [b \in B |-> b.value]
           h == [x \in A |-> x[2].value]
<1>1. IsFiniteSet(B) /\ \A b \in B : b.value \in Int
  BY DEF BalanceRows, Balance
<1>2. IsFiniteSet(A)
  BY <1>1, ImageFinite
<1>3. \A x \in A : x[2].value \in Int
  BY <1>1
<1>4. /\ DOMAIN f = B /\ DOMAIN h = A
      /\ \A b \in B : out[b] \in A /\ f[b] = h[out[b]]
      /\ \A x \in A : h[x] \in Int /\ \E b \in B : out[b] = x
  BY <1>1
<1> HIDE DEF f, h, A
<1>5. SumFunction(f) = SumFunction(h)
  BY <1>1, <1>2, <1>4, SumRenamed
<1>6. Total(B) = SumFunction(f) /\ SumValues(A) = SumFunction(h)
  BY DEF Total, SumValues, f, h
<1> QED BY <1>2, <1>3, <1>5, <1>6 DEF Countable, A

(* A snapshot's balances add up to its total.                               *)
LEMMA SnapWorth ==
  ASSUME Wf, NEW s \in DOMAIN snaps
  PROVE  /\ Countable(BalancesOf({s})) /\ SumValues(BalancesOf({s})) = snaps[s].total
         /\ snaps[s].total \in Int
<1> DEFINE B == UNION {p.balances : p \in snaps[s].parts}
           out == [b \in B |-> <<<<"snapshot", s>>, b>>]
<1>1. Collected(snaps[s])
  BY DEF Wf, WellFormed, SnapRows
<1>2. BalanceRows(B) /\ snaps[s].total \in Int
  BY <1>1, CollectedRows
<1>3. snaps[s].total = Total(B)
  BY <1>1 DEF Collected
<1>4. BalancesOf({s}) = {out[b] : b \in B}
  <2>1. \A x : x \in BalancesOf({s}) <=>
           \E p \in snaps[s].parts : \E b \in p.balances : x = <<<<"snapshot", s>>, b>>
    BY OneBalance
  <2>2. \A x : x \in {out[b] : b \in B} <=> \E b \in B : x = <<<<"snapshot", s>>, b>>
    OBVIOUS
  <2>3. \A b : b \in B <=> \E p \in snaps[s].parts : b \in p.balances
    OBVIOUS
  <2> HIDE DEF B, out
  <2>4. \A x : x \in BalancesOf({s}) <=> x \in {out[b] : b \in B}
    BY <2>1, <2>2, <2>3
  <2> QED BY <2>4
<1>5. /\ \A b \in B : out[b][2].value = b.value
      /\ \A b, c \in B : out[b] = out[c] => b = c
  OBVIOUS
<1> HIDE DEF B, out
<1>6. Countable({out[b] : b \in B}) /\ SumValues({out[b] : b \in B}) = Total(B)
  BY <1>2, <1>5, RenamedWorth
<1> QED BY <1>2, <1>3, <1>4, <1>6

(* So do those of a legacy snapshot, which have neither price nor source.   *)
LEMMA LegacyWorth ==
  ASSUME Wf, NEW l \in DOMAIN legacy
  PROVE  /\ Countable(LegacyBalances(l)) /\ SumValues(LegacyBalances(l)) = legacy[l].total
         /\ legacy[l].total \in Int
<1> DEFINE B == legacy[l].balances
           Price(b) == IF b.amount = 0 THEN Null ELSE b.value \div b.amount
           out == [b \in B |-> <<<<"legacy", l>>, [b EXCEPT !.price = Price(b), !.source = Null]>>]
<1>1. /\ BalanceRows(B) /\ legacy[l].total = Total(B)
      /\ \A b \in B : b.price = Null /\ b.source = Null
  BY DEF Wf, WellFormed, OtherRows
<1>2. legacy[l].total \in Int
  BY <1>1, TotalInt
<1>3. LegacyBalances(l) = {out[b] : b \in B}
  BY DEF LegacyBalances
<1>4. \A b \in B : b = [asset |-> b.asset, amount |-> b.amount, value |-> b.value,
                        price |-> Null, source |-> Null]
  BY <1>1 DEF BalanceRows, Balance
<1>5. \A b \in B : /\ out[b][2].value = b.value /\ out[b][2].asset = b.asset
                   /\ out[b][2].amount = b.amount
  <2> TAKE b \in B
  <2>1. PICK p : p = Price(b)
    OBVIOUS
  <2>2. out[b][2] = [b EXCEPT !.price = p, !.source = Null]
    BY <2>1
  <2>3. DOMAIN b = {"asset", "amount", "value", "price", "source"}
    BY <1>4
  <2> HIDE DEF out
  <2> QED BY <2>2, <2>3
<1>6. \A b, c \in B : out[b] = out[c] => b = c
  <2> HIDE DEF out, B
  <2>1. ASSUME NEW b \in B, NEW c \in B, out[b] = out[c]
        PROVE  b = c
    <3>1. b.value = c.value /\ b.asset = c.asset /\ b.amount = c.amount
      BY <1>5, <2>1
    <3>2. b = [asset |-> b.asset, amount |-> b.amount, value |-> b.value,
               price |-> Null, source |-> Null]
      BY <1>4
    <3>3. c = [asset |-> c.asset, amount |-> c.amount, value |-> c.value,
               price |-> Null, source |-> Null]
      BY <1>4
    <3> QED BY <3>1, <3>2, <3>3
  <2> QED BY <2>1
<1> HIDE DEF B, out
<1>7. Countable({out[b] : b \in B}) /\ SumValues({out[b] : b \in B}) = Total(B)
  BY <1>1, <1>5, <1>6, RenamedWorth
<1> QED BY <1>1, <1>2, <1>3, <1>7

(* What the user wrote has values too.                                      *)
LEMMA ManualWorth ==
  ASSUME Wf, NEW w
  PROVE  Countable(ManualBalances(w))
<1>1. IsFiniteSet(ManualBalances(w))
  BY ManualBalancesFinite
<1>2. ASSUME NEW x \in ManualBalances(w)
      PROVE  x[2].value \in Int
  <2>1. w \in DOMAIN manual
    BY <1>2 DEF ManualBalances
  <2>2. PICK b \in manual[w] : x = <<<<"manual", w>>, [b EXCEPT !.value = ManualValue(b)]>>
    BY <1>2, <2>1 DEF ManualBalances
  <2>3. /\ b.amount \in Int /\ (b.price = Null \/ b.price \in Int)
        /\ "value" \in DOMAIN b
    <3>1. Written(manual[w])
      BY <2>1 DEF Wf, WellFormed, OtherRows
    <3>2. b = [asset |-> b.asset, amount |-> b.amount, value |-> b.value,
               price |-> b.price, source |-> b.source]
      BY <3>1 DEF Written, BalanceRows, Balance
    <3> QED BY <3>1, <3>2 DEF Written
  <2>4. ManualValue(b) \in Int
    BY <2>3 DEF ManualValue
  <2> QED BY <2>2, <2>3, <2>4
<1> QED BY <1>1, <1>2 DEF Countable

------------------------------------------------------------------------------
(* Rows of the two tables *)

(* Rows have a time and a value, and no two of a table have one id.         *)
AreRows(R) ==
  /\ IsFiniteSet(R)
  /\ \A x \in R : x.at \in Int /\ x.total \in Int /\ x.new \in Int /\ x.id \in Int
  /\ \A x, y \in R : x.new = y.new /\ x.id = y.id => x = y

LEMMA SomeRows ==
  ASSUME NEW R, AreRows(R), NEW S \in SUBSET R
  PROVE  AreRows(S)
BY FS_Subset DEF AreRows

IsLast(x, R) == x \in R /\ \A y \in R \ {x} : Later(x, y)

(* The order of rows is total.                                              *)
LEMMA OneIsLater ==
  ASSUME NEW R, AreRows(R), NEW x \in R, NEW y \in R, x # y
  PROVE  /\ Later(x, y) \/ Later(y, x)
         /\ ~ (Later(x, y) /\ Later(y, x))
         /\ \A z \in R : Later(x, y) /\ Later(y, z) => Later(x, z)
<1>1. /\ x.at \in Int /\ x.new \in Int /\ x.id \in Int
      /\ y.at \in Int /\ y.new \in Int /\ y.id \in Int
      /\ ~ (x.new = y.new /\ x.id = y.id)
  BY DEF AreRows
<1>2. \A z \in R : z.at \in Int /\ z.new \in Int /\ z.id \in Int
  BY DEF AreRows
<1>3. Later(x, y) \/ Later(y, x)
  BY <1>1 DEF Later
<1>4. ~ (Later(x, y) /\ Later(y, x))
  BY <1>1 DEF Later
<1>5. \A z \in R : Later(x, y) /\ Later(y, z) => Later(x, z)
  BY <1>1, <1>2 DEF Later
<1> QED BY <1>3, <1>4, <1>5

(* One of a finite set of rows is the last.                                 *)
LEMMA LastExists ==
  ASSUME NEW R, AreRows(R), R # {}
  PROVE  \E x \in R : IsLast(x, R)
<1> DEFINE Good == {T \in SUBSET R : T = {} \/ \E x \in T : IsLast(x, T)}
<1>1. {} \in Good
  OBVIOUS
<1>2. ASSUME NEW T \in SUBSET R, NEW x \in T, T \ {x} \in Good
      PROVE  T \in Good
  <2>1. CASE T \ {x} = {}
    <3>1. IsLast(x, T)
      BY <1>2, <2>1 DEF IsLast
    <3> QED BY <1>2, <3>1
  <2>2. CASE T \ {x} # {}
    <3>1. PICK y \in T \ {x} : IsLast(y, T \ {x})
      BY <1>2, <2>2
    <3>2. x \in R /\ y \in R /\ x # y
      BY <1>2
    <3>3. CASE Later(x, y)
      <4>1. \A z \in T \ {x} : Later(x, z)
        BY <1>2, <3>1, <3>2, <3>3, OneIsLater DEF IsLast
      <4> QED BY <1>2, <4>1 DEF IsLast
    <3>4. CASE Later(y, x)
      <4>1. \A z \in T \ {y} : Later(y, z)
        BY <3>1, <3>4 DEF IsLast
      <4> QED BY <1>2, <3>1, <4>1 DEF IsLast
    <3> QED BY <3>2, <3>3, <3>4, OneIsLater
  <2> QED BY <2>1, <2>2
<1>3. IsFiniteSet(R)
  BY DEF AreRows
<1> HIDE DEF Good
<1>4. R \in Good
  <2>1. \A T \in SUBSET R : \A x \in T : T \ {x} \in Good => T \in Good
    BY <1>2
  <2>2. \A T \in SUBSET R : T \in Good
    BY <1>1, <1>3, <2>1, SubsetInduction
  <2> QED BY <2>2
<1> QED BY <1>4 DEF Good

LEMMA LastIs ==
  ASSUME NEW R, AreRows(R), NEW x, IsLast(x, R)
  PROVE  LastOf(R) = x
<1>1. \A y : IsLast(y, R) => y = x
  BY OneIsLater DEF IsLast
<1> QED BY <1>1 DEF IsLast, LastOf

LEMMA LastIsLast ==
  ASSUME NEW R, AreRows(R), R # {}
  PROVE  IsLast(LastOf(R), R)
BY LastExists, LastIs

------------------------------------------------------------------------------
(* Values carried forward *)

(* The rows of the wallet that a value at t is looked for among; those      *)
(* before the window where t is Null.                                       *)
UpTo(E, since, t) == {x \in E : IF t = Null THEN x.at < since ELSE x.at <= t}
OfWallet(R, w) == {x \in R : x.wallet = w}

(* What the loop makes of its rows: h is the balances at each time.         *)
Carries(h, R, seeds) ==
  h = [t \in {x.at : x \in R} \cup {Null} |->
         IF t = Null THEN [w \in DOMAIN seeds |-> seeds[w].total]
         ELSE LET before == {u \in {x.at : x \in R} : u < t}
                  prior == h[IF before = {} THEN Null ELSE Max(before)]
                  here == Seeds({x \in R : x.at = t})
              IN  With([w \in DOMAIN here |-> here[w].total], prior)]

LEMMA CarriedBy ==
  ASSUME NEW R, NEW seeds, NEW h, Carries(h, R, seeds),
         \A g : Carries(g, R, seeds) => g = h
  PROVE  Carried(R, seeds) = {<<t, SumFunction(h[t])>> : t \in {x.at : x \in R}}
<1> DEFINE c == CHOOSE g : Carries(g, R, seeds)
<1>1. Carried(R, seeds) = {<<t, SumFunction(c[t])>> : t \in {x.at : x \in R}}
  BY DEF Carried, Carries
<1>2. Carries(c, R, seeds)
  OBVIOUS
<1> HIDE DEF c
<1>3. c = h
  BY <1>2
<1> QED BY <1>1, <1>3

(* At most one function does: it differs from another at no first time.     *)
LEMMA CarriesOne ==
  ASSUME NEW R, IsFiniteSet(R), \A x \in R : x.at \in Int, NEW seeds,
         NEW g, Carries(g, R, seeds), NEW h, Carries(h, R, seeds)
  PROVE  g = h
<1> DEFINE times == {x.at : x \in R}
           Prior(t) == LET before == {u \in times : u < t}
                       IN  IF before = {} THEN Null ELSE Max(before)
           Here(t) == LET here == Seeds({x \in R : x.at = t})
                      IN  [w \in DOMAIN here |-> here[w].total]
           bad == {t \in times : g[t] # h[t]}
<1>1. IsFiniteSet(times) /\ times \subseteq Int
  <2> DEFINE f == [x \in R |-> x.at]
  <2>1. {f[x] : x \in R} = times
    OBVIOUS
  <2>2. IsFiniteSet({f[x] : x \in R})
    <3> HIDE DEF f
    <3> QED BY ImageFinite
  <2> QED BY <2>1, <2>2
<1>2. \A t \in times : t # Null
  BY <1>1, PortfolioAssumption
<1>3. /\ DOMAIN g = times \cup {Null} /\ DOMAIN h = times \cup {Null}
      /\ g[Null] = h[Null]
      /\ g = [t \in DOMAIN g |-> g[t]] /\ h = [t \in DOMAIN h |-> h[t]]
  BY DEF Carries
<1>4. \A t \in times : g[t] = With(Here(t), g[Prior(t)]) /\ h[t] = With(Here(t), h[Prior(t)])
  BY <1>2 DEF Carries
<1>5. \A t \in times : Prior(t) = Null \/ (Prior(t) \in times /\ Prior(t) < t)
  <2> SUFFICES ASSUME NEW t \in times, {u \in times : u < t} # {}
               PROVE  Max({u \in times : u < t}) \in {u \in times : u < t}
    OBVIOUS
  <2>1. IsFiniteSet({u \in times : u < t}) /\ {u \in times : u < t} \subseteq Int
    BY <1>1, FS_Subset
  <2> HIDE DEF times
  <2> QED BY <2>1, MaxGreatest
<1> HIDE DEF Here, Prior, times
<1>6. bad = {}
  <2> SUFFICES ASSUME bad # {} PROVE FALSE
    OBVIOUS
  <2>1. IsFiniteSet(bad) /\ bad \subseteq Int
    BY <1>1, FS_Subset
  <2>2. PICK t \in bad : \A u \in bad : t <= u
    <3> HIDE DEF bad
    <3> QED BY <2>1, MinLeast
  <2>3. t \in times /\ t \in Int
    BY <1>1
  <2>4. g[Prior(t)] = h[Prior(t)]
    <3>1. CASE Prior(t) = Null
      BY <1>3, <3>1
    <3>2. CASE Prior(t) \in times /\ Prior(t) < t
      <4>1. Prior(t) \notin bad
        BY <1>1, <2>1, <2>2, <2>3, <3>2
      <4> QED BY <3>2, <4>1
    <3> QED BY <1>5, <2>3, <3>1, <3>2
  <2> QED BY <1>4, <2>3, <2>4
<1> QED BY <1>3, <1>6

(* The values at t, wallet by wallet.                                       *)
ValuesAt(E, since, t) ==
  [w \in {x.wallet : x \in UpTo(E, since, t)} |-> LastOf(OfWallet(UpTo(E, since, t), w)).total]

(* A row of t is later than all of before; without one the value stays.     *)
LEMMA CarriedOn ==
  ASSUME NEW E, AreRows(E), NEW since \in Int, NEW t \in Int, t >= since,
         NEW p, p = Null \/ (p \in Int /\ since <= p /\ p < t),
         \A x \in E : since <= x.at /\ x.at < t => p # Null /\ x.at <= p,
         NEW here, here = Seeds({x \in E : x.at = t})
  PROVE  ValuesAt(E, since, t) = With([w \in DOMAIN here |-> here[w].total],
                                      ValuesAt(E, since, p))
<1> DEFINE H == {x \in E : x.at = t}
           A == UpTo(E, since, t)
           B == UpTo(E, since, p)
           ws(R) == {x.wallet : x \in R}
<1>1. t # Null /\ \A x \in E : x.at \in Int
  BY PortfolioAssumption DEF AreRows
<1>2. A = B \cup H /\ B \subseteq E /\ H \subseteq E /\ A \subseteq E
  BY <1>1, PortfolioAssumption DEF UpTo
<1>3. \A x \in B : x.at < t
  BY <1>1, PortfolioAssumption DEF UpTo
<1>4. DOMAIN here = ws(H) /\ \A w \in ws(H) : here[w] = LastOf(OfWallet(H, w))
  BY DEF Seeds, OfWallet
<1>5. ASSUME NEW w \in ws(H)
      PROVE  LastOf(OfWallet(A, w)) = LastOf(OfWallet(H, w))
  <2>1. AreRows(OfWallet(H, w)) /\ AreRows(OfWallet(A, w)) /\ OfWallet(H, w) # {}
    BY <1>2, SomeRows DEF OfWallet
  <2>2. PICK x : x = LastOf(OfWallet(H, w))
    OBVIOUS
  <2>3. IsLast(x, OfWallet(H, w))
    BY <2>1, <2>2, LastIsLast
  <2>4. x.at = t /\ x \in OfWallet(A, w)
    BY <1>2, <2>3 DEF IsLast, OfWallet
  <2>5. \A y \in B : Later(x, y)
    BY <1>1, <1>2, <1>3, <2>4 DEF Later
  <2>6. IsLast(x, OfWallet(A, w))
    BY <1>2, <2>3, <2>4, <2>5 DEF IsLast, OfWallet
  <2> QED BY <2>1, <2>2, <2>6, LastIs
<1>6. ASSUME NEW w \in ws(A), w \notin ws(H)
      PROVE  w \in ws(B) /\ OfWallet(A, w) = OfWallet(B, w)
  BY <1>2, <1>6 DEF OfWallet
<1>7. ws(A) = ws(B) \cup ws(H)
  BY <1>2
<1> DEFINE new == [w \in DOMAIN here |-> here[w].total]
           old == ValuesAt(E, since, p)
<1>8. DOMAIN new = ws(H) /\ \A w \in ws(H) : new[w] = LastOf(OfWallet(A, w)).total
  BY <1>4, <1>5
<1>9. DOMAIN old = ws(B) /\ \A w \in ws(B) : old[w] = LastOf(OfWallet(B, w)).total
  BY DEF ValuesAt
<1>10. ValuesAt(E, since, t) = [w \in ws(A) |-> LastOf(OfWallet(A, w)).total]
  BY DEF ValuesAt
<1> HIDE DEF new, old, A, B, H, ws
<1>11. With(new, old) = [w \in ws(A) |-> IF w \in ws(H) THEN new[w] ELSE old[w]]
  BY <1>7, <1>8, <1>9 DEF With
<1>12. \A w \in ws(A) : (IF w \in ws(H) THEN new[w] ELSE old[w])
                          = LastOf(OfWallet(A, w)).total
  BY <1>6, <1>8, <1>9
<1>13. ValuesAt(E, since, t) = With(new, old)
  BY <1>10, <1>11, <1>12
<1> QED BY <1>13 DEF new, old

(* The seeds are the values before the window.                              *)
Seeded(E, since, seeds) ==
  /\ DOMAIN seeds = {x.wallet : x \in UpTo(E, since, Null)}
  /\ \A w \in DOMAIN seeds :
       seeds[w].total = LastOf(OfWallet(UpTo(E, since, Null), w)).total

LEMMA CarriedIs ==
  ASSUME NEW E, AreRows(E), NEW since \in Int, NEW W, IsFiniteSet(W),
         \A x \in E : x.wallet \in W,
         NEW seeds, Seeded(E, since, seeds)
  PROVE  Carried({x \in E : x.at >= since}, seeds)
           = {<<t, SumFunction([w \in W |-> ValueAt(E, w, t)])>> :
                t \in {x.at : x \in {y \in E : y.at >= since}}}
<1> DEFINE R == {x \in E : x.at >= since}
           times == {x.at : x \in R}
           h == [t \in times \cup {Null} |-> ValuesAt(E, since, t)]
<1>1. IsFiniteSet(R) /\ \A x \in R : x.at \in Int /\ x.at >= since
  BY FS_Subset DEF AreRows
<1>2. IsFiniteSet(times) /\ \A t \in times : t \in Int /\ t >= since
  <2> DEFINE f == [x \in R |-> x.at]
  <2>1. {f[x] : x \in R} = times
    OBVIOUS
  <2>2. IsFiniteSet({f[x] : x \in R})
    <3> HIDE DEF f, R
    <3> QED BY <1>1, ImageFinite
  <2> HIDE DEF f, R
  <2> QED BY <1>1, <2>1, <2>2
<1>3. h[Null] = [w \in DOMAIN seeds |-> seeds[w].total]
  BY DEF ValuesAt, Seeded
<1>4. ASSUME NEW t \in times,
             NEW before, before = {u \in times : u < t},
             NEW p, p = IF before = {} THEN Null ELSE Max(before),
             NEW here, here = Seeds({x \in R : x.at = t})
      PROVE  h[t] = With([w \in DOMAIN here |-> here[w].total], h[p])
  <2>1. before = {} \/ (p \in before /\ \A u \in before : u <= p)
    <3>1. IsFiniteSet(before) /\ before \subseteq Int
      BY <1>2, <1>4, FS_Subset
    <3> QED BY <1>4, <3>1, MaxGreatest
  <2>2. p = Null \/ (p \in Int /\ since <= p /\ p < t)
    BY <1>2, <1>4, <2>1
  <2>3. \A x \in E : since <= x.at /\ x.at < t => p # Null /\ x.at <= p
    <3>1. \A x \in E : since <= x.at /\ x.at < t => x.at \in before
      BY <1>4 DEF AreRows
    <3>2. before # {} => p # Null
      BY <1>2, <1>4, <2>1, PortfolioAssumption
    <3> QED BY <2>1, <3>1, <3>2
  <2>4. here = Seeds({x \in E : x.at = t})
    <3>1. {x \in R : x.at = t} = {x \in E : x.at = t}
      BY <1>2, <1>4
    <3> QED BY <1>4, <3>1
  <2>5. t \in Int /\ t >= since
    BY <1>2
  <2>6. ValuesAt(E, since, t) = With([w \in DOMAIN here |-> here[w].total],
                                     ValuesAt(E, since, p))
    BY <2>2, <2>3, <2>4, <2>5, CarriedOn
  <2>7. h[t] = ValuesAt(E, since, t) /\ h[p] = ValuesAt(E, since, p)
    <3>1. p \in times \cup {Null}
      BY <1>4, <2>1
    <3> QED BY <3>1
  <2> QED BY <2>6, <2>7
<1>5. \A t \in times : t # Null
  BY <1>2, PortfolioAssumption
<1>6. ASSUME NEW t \in times
      PROVE  h[t] = LET before == {u \in times : u < t}
                        prior == h[IF before = {} THEN Null ELSE Max(before)]
                        here == Seeds({x \in R : x.at = t})
                    IN  With([w \in DOMAIN here |-> here[w].total], prior)
  <2> HIDE DEF h
  <2> QED BY <1>4
<1>7. Carries(h, R, seeds)
  <2>1. h = [t \in times \cup {Null} |-> h[t]]
    OBVIOUS
  <2> HIDE DEF h
  <2> QED BY <1>3, <1>5, <1>6, <2>1 DEF Carries
<1>8. Carried(R, seeds) = {<<t, SumFunction(h[t])>> : t \in times}
  <2>1. \A g : Carries(g, R, seeds) => g = h
    <3> HIDE DEF h, R
    <3> QED BY <1>1, <1>7, CarriesOne
  <2> HIDE DEF h, R
  <2> QED BY <1>7, <2>1, CarriedBy
<1>9. ASSUME NEW t \in times
      PROVE  SumFunction(h[t]) = SumFunction([w \in W |-> ValueAt(E, w, t)])
  <2> DEFINE V == ValuesAt(E, since, t)
             all == [w \in W |-> ValueAt(E, w, t)]
  <2>1. \A w \in W : OfWallet(UpTo(E, since, t), w) = {x \in E : x.wallet = w /\ x.at <= t}
    BY <1>5 DEF OfWallet, UpTo
  <2>2. DOMAIN V = {x.wallet : x \in UpTo(E, since, t)}
    BY DEF ValuesAt
  <2>3. DOMAIN V \subseteq DOMAIN all
    BY <2>2 DEF UpTo
  <2>4. \A w \in W : w \in DOMAIN V <=> {x \in E : x.wallet = w /\ x.at <= t} # {}
    BY <1>5, <2>2 DEF UpTo
  <2>5. \A w \in DOMAIN V : V[w] = all[w] /\ V[w] \in Int
    <3> SUFFICES ASSUME NEW w \in DOMAIN V PROVE V[w] = all[w] /\ V[w] \in Int
      OBVIOUS
    <3> DEFINE S == {x \in E : x.wallet = w /\ x.at <= t}
    <3>1. w \in W /\ S # {}
      BY <2>3, <2>4
    <3>2. V[w] = LastOf(S).total
      BY <2>1, <2>2, <3>1 DEF ValuesAt
    <3>3. all[w] = LastOf(S).total
      BY <3>1 DEF ValueAt
    <3>4. AreRows(S)
      BY SomeRows
    <3> HIDE DEF S
    <3>5. LastOf(S) \in S
      BY <3>1, <3>4, LastIsLast DEF IsLast
    <3> QED BY <3>2, <3>3, <3>4, <3>5 DEF AreRows
  <2>6. \A w \in DOMAIN all \ DOMAIN V : all[w] = 0
    BY <2>4 DEF ValueAt
  <2>7. V = [w \in DOMAIN V |-> V[w]] /\ IsFiniteSet(DOMAIN all)
    BY DEF ValuesAt
  <2>8. SumFunction(all) = SumFunction(V)
    <3> HIDE DEF V, all
    <3> QED BY <2>3, <2>5, <2>6, <2>7, SumMore
  <2> QED BY <2>8
<1> QED BY <1>8, <1>9

------------------------------------------------------------------------------
(* A history of one instant                                                 *)

(* What a history knows of its query, and of the wallets and the window.    *)
Asked == "query" \in DOMAIN req /\ req.query \in Queries /\ "expected" \notin DOMAIN req
Ranged ==
  /\ {"query", "wallets", "since"} \subseteq DOMAIN req /\ req.query \in Queries
  /\ IsFiniteSet(req.wallets) /\ req.since \in Int /\ req.since <= now

(* Its first statement found the new rows N at the time t: newer ones are   *)
(* of that time at least, the legacy rows are of the past, and what has     *)
(* been read since is what one reading would have given.                    *)
ReadAt(N, t) ==
  LET O == OldRows(req.wallets)
      E == Eligible(N, O)
  IN  /\ {"rows", "expected"} \subseteq DOMAIN req
      /\ N \subseteq NewRows(req.wallets) /\ t \in Int /\ req.since <= t /\ t <= now
      /\ \A x \in NewRows(req.wallets) \ N : t <= x.at
      /\ \A x \in O : x.at < t
      /\ req.expected = Reference(req.query, req.wallets, E, req.since)
      /\ req.pc \in {"first", "old"} => req.rows = {x \in N : x.at >= req.since}
      /\ req.pc \in {"old", "seeds", "oldSeeds"} =>
           "first" \in DOMAIN req /\ \A x \in O : Kept(x, req.first) <=> x \in E
      /\ req.pc \in {"seeds", "oldSeeds"} =>
           req.query.wallet = Null /\ req.rows = {x \in E : x.at >= req.since}
      /\ req.pc = "oldSeeds" =>
           "seeds" \in DOMAIN req /\ req.seeds = Seeds({x \in N : x.at < req.since})

ReadPcs == {"first", "old", "seeds", "oldSeeds"}

PointsInv ==
  req.op = "history" /\ ~ gone =>
    /\ req.pc \in {"ownWallet", "ownGroup", "wallets"} => Asked
    /\ req.pc = "rows" => Asked /\ Ranged
    /\ req.pc \in ReadPcs => Ranged /\ \E N, t : ReadAt(N, t)
    /\ req.pc = "done" /\ "expected" \in DOMAIN req => req.answer.points = req.expected

(* The rows of both tables, which two statements never confuse.             *)
LEMMA TableRows ==
  ASSUME Wf, NEW W
  PROVE  /\ AreRows(NewRows(W) \cup OldRows(W))
         /\ \A x \in NewRows(W) : x.new = 1 /\ x.wallet \in W
         /\ \A x \in OldRows(W) : x.new = 0 /\ x.wallet \in W /\ x.at < now
<1> DEFINE S == UNION {SnapsOf(w, HistoryStatuses) : w \in W}
           L == {m \in DOMAIN legacy : legacy[m].wallet \in W}
           f == [s \in S |-> NewRow(s)]
           g == [l \in L |-> OldRow(l)]
<1>1. S \subseteq DOMAIN snaps /\ IsFiniteSet(S) /\ S \subseteq Int
  <2>1. S \subseteq DOMAIN snaps
    BY DEF SnapsOf
  <2> QED BY <2>1, SnapsFinite
<1>2. L \subseteq DOMAIN legacy /\ IsFiniteSet(L) /\ L \subseteq Int
  BY FS_Subset DEF Wf, WellFormed, OtherRows
<1>3. NewRows(W) = {f[s] : s \in S} /\ OldRows(W) = {g[l] : l \in L}
  BY DEF NewRows, OldRows
<1>4. IsFiniteSet(NewRows(W)) /\ IsFiniteSet(OldRows(W))
  <2> HIDE DEF f, g, S, L
  <2> QED BY <1>1, <1>2, <1>3, ImageFinite
<1>5. ASSUME NEW x \in NewRows(W)
      PROVE  /\ x.at \in Int /\ x.total \in Int /\ x.new = 1 /\ x.id \in S
             /\ x = NewRow(x.id) /\ x.wallet \in W
  <2>1. PICK s \in S : x = NewRow(s)
    BY DEF NewRows
  <2>2. x.at = Observed(s) /\ x.total = snaps[s].total /\ x.new = 1 /\ x.id = s
        /\ x.wallet = snaps[s].wallet
    BY <2>1 DEF NewRow
  <2>3. snaps[s].total \in Int /\ snaps[s].wallet \in W
    BY <1>1, SnapWorth DEF SnapsOf
  <2> QED BY <1>1, <2>1, <2>2, <2>3, ObservedInt
<1>6. ASSUME NEW x \in OldRows(W)
      PROVE  /\ x.at \in Int /\ x.total \in Int /\ x.new = 0 /\ x.id \in L
             /\ x = OldRow(x.id) /\ x.wallet \in W /\ x.at < now
  <2>1. PICK l \in L : x = OldRow(l)
    BY DEF OldRows
  <2>2. x.at = legacy[l].at /\ x.total = legacy[l].total /\ x.new = 0 /\ x.id = l
        /\ x.wallet = legacy[l].wallet
    BY <2>1 DEF OldRow
  <2>3. legacy[l].total \in Int /\ legacy[l].at \in Int /\ legacy[l].at < now
    BY <1>2, LegacyWorth DEF Wf, WellFormed, OtherRows
  <2> QED BY <1>2, <2>1, <2>2, <2>3
<1> HIDE DEF S, L, f, g
<1>7. AreRows(NewRows(W) \cup OldRows(W))
  <2>1. IsFiniteSet(NewRows(W) \cup OldRows(W))
    BY <1>4, FS_Union
  <2>2. \A x, y \in NewRows(W) \cup OldRows(W) : x.new = y.new /\ x.id = y.id => x = y
    BY <1>5, <1>6
  <2> QED BY <1>1, <1>2, <1>5, <1>6, <2>1, <2>2 DEF AreRows
<1> QED BY <1>5, <1>6, <1>7

(* What joins the tables beside a request is of now; nothing leaves them    *)
(* but with the user.                                                       *)
LEMMA RowsJoin ==
  ASSUME Wf, Environment, ~ gone'
  PROVE  /\ legacy' = legacy
         /\ \A s \in DOMAIN snaps' \ DOMAIN snaps : snaps'[s].finished = now
<1>1. CASE \E r \in DOMAIN runs, w \in DOMAIN wallets : Publish(r, w)
  <2>1. PICK c, r, w, key :
          /\ snaps' = Assign(snaps, lastId',
                             [wallet |-> w, run |-> r, finished |-> now, key |-> key,
                              status |-> c.status, total |-> c.total, parts |-> c.parts])
          /\ legacy' = legacy
    BY <1>1 DEF Publish
  <2>2. PICK row : row = [wallet |-> w, run |-> r, finished |-> now, key |-> key,
                          status |-> c.status, total |-> c.total, parts |-> c.parts]
    OBVIOUS
  <2>3. snaps' = Assign(snaps, lastId', row) /\ row.finished = now
    BY <2>1, <2>2
  <2> QED BY <2>1, <2>3 DEF Assign
<1>2. CASE \/ \E u \in Users : StartRun(u)
           \/ \E r \in DOMAIN runs : EndRun(r)
           \/ \E w \in DOMAIN wallets, a \in Addresses : PatchAddress(w, a)
           \/ \E w \in DOMAIN wallets : Deactivate(w)
           \/ \E w \in DOMAIN wallets, b \in Books : WriteManual(w, b)
           \/ Tick
  BY <1>2 DEF StartRun, EndRun, PatchAddress, Deactivate, WriteManual, Tick, tables
<1>3. CASE DeleteUser
  BY <1>3 DEF DeleteUser
<1> QED BY <1>1, <1>2, <1>3 DEF Environment

LEMMA RowsGrow ==
  ASSUME Wf, Wf', RowsStay, Environment, ~ gone', NEW W
  PROVE  /\ OldRows(W)' = OldRows(W) /\ NewRows(W) \subseteq NewRows(W)'
         /\ \A x \in NewRows(W)' \ NewRows(W) : x.at = now
<1>1. legacy' = legacy /\ \A s \in DOMAIN snaps' \ DOMAIN snaps : snaps'[s].finished = now
  BY RowsJoin
<1>2. OldRows(W)' = OldRows(W)
  BY <1>1 DEF OldRows, OldRow
<1>3. /\ DOMAIN snaps \subseteq DOMAIN snaps' /\ \A s \in DOMAIN snaps : s <= lastId
      /\ now # Null /\ now \in Int
  BY PortfolioAssumption DEF RowsStay, Wf, WellFormed, SnapRows
<1>4. ASSUME NEW s \in DOMAIN snaps, snaps[s].status = "success"
      PROVE  snaps'[s] = snaps[s] /\ NewRow(s)' = NewRow(s)
  BY <1>3, <1>4, SnapStays DEF NewRow, ReadStatuses
<1>5. \A R : NewRows(R) = {NewRow(s) : s \in {t \in DOMAIN snaps :
                            snaps[t].wallet \in R /\ snaps[t].status = "success"}}
  BY DEF NewRows, SnapsOf, HistoryStatuses
<1>6. NewRows(W)' = {NewRow(s)' : s \in {t \in DOMAIN snaps' :
                       snaps'[t].wallet \in W /\ snaps'[t].status = "success"}}
  BY DEF NewRows, SnapsOf, HistoryStatuses
<1>7. NewRows(W) \subseteq NewRows(W)'
  BY <1>3, <1>4, <1>5, <1>6
<1>8. ASSUME NEW x \in NewRows(W)' \ NewRows(W) PROVE x.at = now
  <2>1. PICK s \in DOMAIN snaps' : /\ x = NewRow(s)'
                                   /\ snaps'[s].wallet \in W /\ snaps'[s].status = "success"
    BY <1>6
  <2>2. x.at = Observed(s)'
    BY <2>1 DEF NewRow
  <2>3. s \in DOMAIN snaps => FALSE
    <3>1. SUFFICES ASSUME s \in DOMAIN snaps PROVE FALSE
      OBVIOUS
    <3>2. snaps'[s] = snaps[s]
      BY <1>3, <3>1, SnapStays
    <3> QED BY <1>4, <1>5, <1>8, <2>1, <3>1, <3>2
  <2>4. snaps'[s].finished = now
    BY <1>1, <2>3
  <2> QED BY <1>3, <2>2, <2>4 DEF Observed, Coalesce
<1> QED BY <1>2, <1>7, <1>8

(* Beside a history the tables may change: what it knows it goes on knowing. *)
LEMMA BesidePoints ==
  ASSUME PInv, PointsInv, Wf', RowsStay, Environment, UNCHANGED req
  PROVE  PointsInv'
<1> SUFFICES ASSUME req.op = "history", ~ gone' PROVE PointsInv'
  BY DEF PointsInv
<1>1. Wf /\ ~ gone
  BY DEF PInv, RowsStay
<1>2. now <= now' /\ now' \in Int /\ now \in Int
  <2>1. now' = now \/ now' = now + 1
    BY DEF Environment, StartRun, Publish, EndRun, PatchAddress, Deactivate, WriteManual,
           DeleteUser, Change, Tick
  <2> QED BY <1>1, <2>1, PortfolioAssumption DEF Wf
<1>3. Asked => Asked'
  BY DEF Asked
<1>4. Ranged => Ranged'
  BY <1>2 DEF Ranged
<1>5. ASSUME NEW N, NEW t, Ranged, ReadAt(N, t) PROVE ReadAt(N, t)'
  <2>1. /\ OldRows(req.wallets)' = OldRows(req.wallets)
        /\ NewRows(req.wallets) \subseteq NewRows(req.wallets)'
        /\ \A x \in NewRows(req.wallets)' \ NewRows(req.wallets) : x.at = now
    <3>1. PICK W : W = req.wallets
      OBVIOUS
    <3>2. /\ OldRows(W)' = OldRows(W) /\ NewRows(W) \subseteq NewRows(W)'
          /\ \A x \in NewRows(W)' \ NewRows(W) : x.at = now
      BY <1>1, RowsGrow
    <3>3. OldRows(W)' = OldRows(req.wallets)' /\ NewRows(W)' = NewRows(req.wallets)'
      <4>1. req'.wallets = W
        BY <3>1
      <4>2. OldRows(req.wallets)' = {OldRow(l)' : l \in {m \in DOMAIN legacy' :
                                                       legacy'[m].wallet \in req'.wallets}}
        BY DEF OldRows
      <4>3. NewRows(req.wallets)' =
              {NewRow(s)' : s \in UNION {SnapsOf(w, HistoryStatuses)' : w \in req'.wallets}}
        BY DEF NewRows
      <4> QED BY <4>1, <4>2, <4>3, Zenon DEF OldRows, NewRows
    <3> QED BY <3>1, <3>2, <3>3
  <2>2. \A x \in NewRows(req.wallets)' \ N : t <= x.at
    BY <1>2, <1>5, <2>1 DEF ReadAt
  <2> QED BY <1>2, <1>5, <2>1, <2>2 DEF ReadAt
<1> QED BY <1>1, <1>3, <1>4, <1>5 DEF PointsInv

(* A statement of a history leaves the tables, the query and its scope.     *)
LEMMA HistoryKeeps ==
  ASSUME Wf, PcInv, Ranged, NEW p, NEW locals, Then(p, locals),
         DOMAIN locals \cap {"op", "pc", "query", "wallets", "since"} = {}
  PROVE  /\ Ranged' /\ Same({"query", "wallets", "since"})
         /\ NewRows(req.wallets)' = NewRows(req.wallets)
         /\ OldRows(req.wallets)' = OldRows(req.wallets)
         /\ req'.pc = p /\ gone' = gone /\ now' = now
<1>1. /\ UNCHANGED <<wallets, runs, snaps, legacy, now, gone>> /\ req'.pc = p
      /\ Same({"query", "wallets", "since"})
  BY StepTaken DEF Ranged
<1>2. NewRows(req.wallets)' = NewRows(req.wallets)
  BY <1>1 DEF NewRows, SnapsOf, NewRow, Observed, Same
<1>3. OldRows(req.wallets)' = OldRows(req.wallets)
  BY <1>1 DEF OldRows, OldRow, Same
<1>4. Ranged'
  BY <1>1 DEF Ranged, Same
<1> QED BY <1>1, <1>2, <1>3, <1>4

LEMMA HistoryRowsRead ==
  ASSUME Wf, PcInv, PointsInv, ~ gone, HistoryRows
  PROVE  PointsInv'
<1>1. PICK N, O, t : N = NewRows(req.wallets) /\ O = OldRows(req.wallets) /\ t = now
  OBVIOUS
<1> DEFINE rows == {x \in N : x.at >= req.since}
           expected == Reference(req.query, req.wallets, Eligible(N, O), req.since)
           locals == [rows |-> rows, expected |-> expected]
<1>2. At("history", "rows") /\ Ranged /\ Then("first", locals)
  BY <1>1 DEF HistoryRows, PointsInv, At
<1>3. DOMAIN locals = {"rows", "expected"} /\ locals.rows = rows /\ locals.expected = expected
  OBVIOUS
<1> HIDE DEF locals
<1>4. /\ Ranged' /\ Same({"query", "wallets", "since"})
      /\ NewRows(req.wallets)' = N /\ OldRows(req.wallets)' = O
      /\ req'.pc = "first" /\ gone' = gone /\ now' = now
  BY <1>1, <1>2, <1>3, HistoryKeeps
<1>5. {"rows", "expected"} \subseteq DOMAIN req' /\ req'.rows = rows /\ req'.expected = expected
  BY <1>2, <1>3, StepTaken
<1>6. \A x \in O : x.at < t
  BY <1>1, TableRows
<1>7. t \in Int /\ req.since <= t
  BY <1>1, <1>2, PortfolioAssumption DEF Wf, Ranged
<1>8. req'.query = req.query /\ req'.wallets = req.wallets /\ req'.since = req.since
  BY <1>4 DEF Same
<1> HIDE DEF rows, expected
<1>9. ReadAt(N, t)'
  BY <1>1, <1>4, <1>5, <1>6, <1>7, <1>8 DEF ReadAt, rows, expected
<1> QED BY <1>4, <1>9 DEF PointsInv, ReadPcs

(* A legacy row is kept if it is older than every new row of its wallet;    *)
(* the new rows that were not there at first decide nothing.                *)
LEMMA KeptEligible ==
  ASSUME Wf, NEW N, NEW t, ReadAt(N, t), NEW x \in OldRows(req.wallets)
  PROVE  Kept(x, FirstNew(req.wallets)) <=> x \in Eligible(N, OldRows(req.wallets))
<1> DEFINE R == NewRows(req.wallets)
           O == OldRows(req.wallets)
           first == FirstNew(req.wallets)
           Of == {y \in R : y.wallet = x.wallet}
           dates == {y.at : y \in Of}
<1>1. /\ IsFiniteSet(R \cup O) /\ \A y \in R \cup O : y.at \in Int
      /\ \A y \in R : y.new = 1 /\ x.new = 0
  BY TableRows DEF AreRows
<1>2. x \in Eligible(N, O) <=> ~ \E y \in N : y.wallet = x.wallet /\ y.at <= x.at
  BY <1>1 DEF Eligible, ReadAt
<1>3. (\E y \in N : y.wallet = x.wallet /\ y.at <= x.at) <=> \E y \in Of : y.at <= x.at
  <2>1. t \in Int /\ x.at < t /\ N \subseteq R /\ \A y \in R \ N : t <= y.at
    BY DEF ReadAt
  <2> HIDE DEF R
  <2> QED BY <1>1, <2>1
<1>4. /\ DOMAIN first = {y.wallet : y \in R}
      /\ x.wallet \in DOMAIN first => first[x.wallet] = Min(dates)
  BY DEF FirstNew
<1>5. IsFiniteSet(dates) /\ dates \subseteq Int
  <2> DEFINE f == [y \in Of |-> y.at]
  <2>1. {f[y] : y \in Of} = dates
    OBVIOUS
  <2>2. IsFiniteSet(Of)
    BY <1>1, FS_Subset
  <2>3. IsFiniteSet({f[y] : y \in Of})
    <3> HIDE DEF f, Of
    <3> QED BY <2>2, ImageFinite
  <2> QED BY <1>1, <2>1, <2>3
<1>6. x.wallet \in DOMAIN first <=> dates # {}
  BY <1>4
<1>7. dates # {} => Min(dates) \in dates /\ \A d \in dates : Min(dates) <= d
  <2> HIDE DEF dates
  <2> QED BY <1>5, MinLeast
<1>8. Kept(x, first) <=> dates = {} \/ x.at < Min(dates)
  <2> HIDE DEF first, dates
  <2> QED BY <1>4, <1>6 DEF Kept
<1>9. (dates = {} \/ x.at < Min(dates)) <=> ~ \E y \in Of : y.at <= x.at
  <2>1. x.at \in Int
    BY <1>1
  <2>2. (\E y \in Of : y.at <= x.at) <=> \E d \in dates : d <= x.at
    OBVIOUS
  <2> HIDE DEF dates, Of
  <2>3. ASSUME dates # {}
        PROVE  x.at < Min(dates) <=> ~ \E d \in dates : d <= x.at
    <3>1. PICK m : m = Min(dates)
      OBVIOUS
    <3>2. m \in dates /\ m \in Int /\ \A d \in dates : d \in Int /\ m <= d
      BY <1>5, <1>7, <2>3, <3>1
    <3>3. x.at < m <=> ~ \E d \in dates : d <= x.at
      BY <2>1, <3>2
    <3> QED BY <3>1, <3>3
  <2> QED BY <2>2, <2>3
<1> QED BY <1>2, <1>3, <1>8, <1>9

(* What every statement after the first has in common.                      *)
LEMMA ReadOn ==
  ASSUME Wf, PcInv, Ranged, NEW N, NEW t, ReadAt(N, t), NEW p, NEW locals, Then(p, locals),
         DOMAIN locals \cap {"op", "pc", "query", "wallets", "since", "expected"} = {}
  PROVE  /\ Ranged' /\ req'.pc = p /\ gone' = gone /\ now' = now
         /\ NewRows(req.wallets)' = NewRows(req.wallets)
         /\ OldRows(req.wallets)' = OldRows(req.wallets)
         /\ req'.query = req.query /\ req'.wallets = req.wallets /\ req'.since = req.since
         /\ "expected" \in DOMAIN req' /\ req'.expected = req.expected
         /\ \A k \in DOMAIN locals : k \in DOMAIN req' /\ req'[k] = locals[k]
         /\ \A k \in DOMAIN req \ (DOMAIN locals \cup {"pc"}) :
              k \in DOMAIN req' /\ req'[k] = req[k]
<1>1. /\ Ranged' /\ Same({"query", "wallets", "since"}) /\ req'.pc = p
      /\ gone' = gone /\ now' = now
      /\ NewRows(req.wallets)' = NewRows(req.wallets)
      /\ OldRows(req.wallets)' = OldRows(req.wallets)
  BY HistoryKeeps
<1>2. /\ \A k \in DOMAIN locals : k \in DOMAIN req' /\ req'[k] = locals[k]
      /\ \A k \in DOMAIN req \ (DOMAIN locals \cup {"pc"}) :
           k \in DOMAIN req' /\ req'[k] = req[k]
  BY ThenHas
<1>3. "expected" \in DOMAIN req
  BY DEF ReadAt
<1> QED BY <1>1, <1>2, <1>3 DEF Same

LEMMA HistoryFirstRead ==
  ASSUME Wf, PcInv, PointsInv, ~ gone, HistoryFirst
  PROVE  PointsInv'
<1>1. At("history", "first") /\ Ranged /\ \E N, t : ReadAt(N, t)
  BY DEF HistoryFirst, PointsInv, ReadPcs, At
<1>2. PICK N, t : ReadAt(N, t)
  BY <1>1
<1>3. PICK O, first : O = OldRows(req.wallets) /\ first = FirstNew(req.wallets)
  OBVIOUS
<1> DEFINE locals == [first |-> first]
<1>4. Then("old", locals) /\ DOMAIN locals = {"first"} /\ locals.first = first
  BY <1>3 DEF HistoryFirst
<1> HIDE DEF locals
<1>5. /\ Ranged' /\ req'.pc = "old" /\ gone' = gone /\ now' = now
      /\ NewRows(req.wallets)' = NewRows(req.wallets) /\ OldRows(req.wallets)' = O
      /\ req'.query = req.query /\ req'.wallets = req.wallets /\ req'.since = req.since
      /\ {"rows", "first", "expected"} \subseteq DOMAIN req'
      /\ req'.expected = req.expected /\ req'.rows = req.rows /\ req'.first = first
  <2>1. "rows" \in DOMAIN req
    BY <1>2 DEF ReadAt
  <2> QED BY <1>1, <1>2, <1>3, <1>4, <2>1, ReadOn
<1>6. \A x \in O : Kept(x, first) <=> x \in Eligible(N, O)
  BY <1>2, <1>3, KeptEligible
<1>7. ReadAt(N, t)'
  BY <1>1, <1>2, <1>3, <1>5, <1>6 DEF ReadAt, At
<1> QED BY <1>5, <1>7 DEF PointsInv, ReadPcs

LEMMA HistoryOldRead ==
  ASSUME Wf, PcInv, PointsInv, ~ gone, HistoryOld
  PROVE  PointsInv'
<1>1. At("history", "old") /\ Ranged /\ \E N, t : ReadAt(N, t)
  BY DEF HistoryOld, PointsInv, ReadPcs, At
<1>2. PICK N, t : ReadAt(N, t)
  BY <1>1
<1>3. PICK O, E, since : /\ O = OldRows(req.wallets) /\ E = Eligible(N, O)
                         /\ since = req.since
  OBVIOUS
<1>4. PICK all : all = req.rows \cup {x \in O : x.at >= since /\ Kept(x, req.first)}
  OBVIOUS
<1>5. all = {x \in E : x.at >= since}
  <2>1. /\ req.rows = {x \in N : x.at >= since}
        /\ \A x \in O : Kept(x, req.first) <=> x \in E
    BY <1>1, <1>2, <1>3 DEF ReadAt, At
  <2>2. N \subseteq E /\ E \subseteq N \cup O
    BY <1>3 DEF Eligible
  <2> QED BY <1>4, <2>1, <2>2
<1>6. req.expected = Reference(req.query, req.wallets, E, since)
  BY <1>2, <1>3 DEF ReadAt
<1>7. CASE req.query.wallet # Null
  <2>1. PICK points : points = {Point(x) : x \in all}
    OBVIOUS
  <2> DEFINE locals == [answer |-> [code |-> 200, points |-> points]]
  <2>2. /\ Then("done", locals) /\ DOMAIN locals = {"answer"}
        /\ locals.answer.points = points
    BY <1>3, <1>4, <1>7, <2>1 DEF HistoryOld
  <2> HIDE DEF locals
  <2>3. /\ req'.pc = "done" /\ gone' = gone /\ req'.expected = req.expected
        /\ req'.answer = locals.answer
    BY <1>1, <1>2, <2>2, ReadOn
  <2>4. req.expected = points
    BY <1>5, <1>6, <1>7, <2>1 DEF Reference
  <2> QED BY <2>2, <2>3, <2>4 DEF PointsInv, ReadPcs
<1>8. CASE req.query.wallet = Null
  <2> DEFINE locals == [rows |-> all]
  <2>1. Then("seeds", locals) /\ DOMAIN locals = {"rows"} /\ locals.rows = all
    BY <1>3, <1>4, <1>8 DEF HistoryOld
  <2> HIDE DEF locals
  <2>2. /\ Ranged' /\ req'.pc = "seeds" /\ gone' = gone /\ now' = now
        /\ NewRows(req.wallets)' = NewRows(req.wallets) /\ OldRows(req.wallets)' = O
        /\ req'.query = req.query /\ req'.wallets = req.wallets /\ req'.since = since
        /\ {"rows", "first", "expected"} \subseteq DOMAIN req'
        /\ req'.expected = req.expected /\ req'.rows = all /\ req'.first = req.first
    <3>1. "first" \in DOMAIN req
      BY <1>1, <1>2 DEF ReadAt, At
    <3> QED BY <1>1, <1>2, <1>3, <2>1, <3>1, ReadOn
  <2>3. ReadAt(N, t)'
    BY <1>1, <1>2, <1>3, <1>5, <1>6, <1>8, <2>2 DEF ReadAt, At
  <2> QED BY <2>2, <2>3 DEF PointsInv, ReadPcs
<1> QED BY <1>7, <1>8

LEMMA HistorySeedsRead ==
  ASSUME Wf, PcInv, PointsInv, ~ gone, HistorySeeds
  PROVE  PointsInv'
<1>1. At("history", "seeds") /\ Ranged /\ \E N, t : ReadAt(N, t)
  BY DEF HistorySeeds, PointsInv, ReadPcs, At
<1>2. PICK N, t : ReadAt(N, t)
  BY <1>1
<1>3. PICK O, E, since : /\ O = OldRows(req.wallets) /\ E = Eligible(N, O)
                         /\ since = req.since
  OBVIOUS
<1>4. PICK seeds : seeds = Seeds({x \in N : x.at < since})
  OBVIOUS
<1> DEFINE locals == [seeds |-> seeds]
<1>5. Then("oldSeeds", locals) /\ DOMAIN locals = {"seeds"} /\ locals.seeds = seeds
  <2>1. {x \in NewRows(req.wallets) : x.at < since} = {x \in N : x.at < since}
    <3>1. /\ N \subseteq NewRows(req.wallets) /\ t \in Int /\ since <= t /\ since \in Int
          /\ \A x \in NewRows(req.wallets) \ N : t <= x.at
      BY <1>1, <1>2, <1>3 DEF ReadAt, Ranged
    <3>2. \A x \in NewRows(req.wallets) : x.at \in Int
      BY TableRows DEF AreRows
    <3> QED BY <3>1, <3>2
  <2> QED BY <1>3, <1>4, <2>1 DEF HistorySeeds
<1> HIDE DEF locals
<1>6. /\ Ranged' /\ req'.pc = "oldSeeds" /\ gone' = gone /\ now' = now
      /\ NewRows(req.wallets)' = NewRows(req.wallets) /\ OldRows(req.wallets)' = O
      /\ req'.query = req.query /\ req'.wallets = req.wallets /\ req'.since = since
      /\ {"rows", "first", "expected", "seeds"} \subseteq DOMAIN req'
      /\ req'.expected = req.expected /\ req'.rows = req.rows /\ req'.first = req.first
      /\ req'.seeds = seeds
  <2>1. {"rows", "first"} \subseteq DOMAIN req
    BY <1>1, <1>2 DEF ReadAt, At
  <2> QED BY <1>1, <1>2, <1>3, <1>5, <2>1, ReadOn
<1>7. ReadAt(N, t)'
  BY <1>1, <1>2, <1>3, <1>4, <1>6 DEF ReadAt, At
<1> QED BY <1>6, <1>7 DEF PointsInv, ReadPcs

(* The legacy seeds a that are laid over the new ones b.                     *)
Wins(a, b) == {v \in DOMAIN a : v \notin DOMAIN b \/ a[v].at > b[v].at}
Overlaid(a, b, c) ==
  /\ DOMAIN c = Wins(a, b) \cup DOMAIN b
  /\ \A w \in Wins(a, b) : c[w] = a[w]
  /\ \A w \in DOMAIN b \ Wins(a, b) : c[w] = b[w]

LEMMA OverlaidBy ==
  ASSUME NEW a, NEW b, NEW front, NEW c, c = With(front, b),
         DOMAIN front = Wins(a, b), \A w \in DOMAIN front : front[w] = a[w]
  PROVE  Overlaid(a, b, c)
<1>1. /\ DOMAIN c = DOMAIN front \cup DOMAIN b
      /\ \A w \in DOMAIN front : c[w] = front[w]
      /\ \A w \in DOMAIN b \ DOMAIN front : c[w] = b[w]
  BY DEF With
<1> QED BY <1>1 DEF Overlaid

LEMMA OverlaidSeeds ==
  ASSUME NEW a, NEW b, NEW c
  PROVE  c = With([w \in Wins(a, b) |-> a[w]], b) => Overlaid(a, b, c)
<1>1. PICK front : front = [w \in Wins(a, b) |-> a[w]]
  OBVIOUS
<1>2. DOMAIN front = Wins(a, b) /\ \A w \in DOMAIN front : front[w] = a[w]
  BY <1>1
<1>3. c = With(front, b) => Overlaid(a, b, c)
  BY <1>2, OverlaidBy
<1> QED BY <1>1, <1>3

Before(R, since) == {x \in R : x.at < since}

(* The legacy seed of a wallet wins only where there is no new one: it is   *)
(* older than every new row, so both together are the last rows there are.  *)
LEMMA SeedsTogether ==
  ASSUME Wf, Ranged, NEW N, NEW t, ReadAt(N, t),
         NEW O, O = OldRows(req.wallets), NEW E, E = Eligible(N, O), NEW since \in Int,
         NEW old, old = Seeds(Before(O \cap E, since)), NEW new, new = Seeds(Before(N, since)),
         NEW seeds, Overlaid(old, new, seeds)
  PROVE  Seeded(E, since, seeds)
<1> USE DEF Before
<1> DEFINE A == {x \in O \cap E : x.at < since}
           B == {x \in N : x.at < since}
           U == UpTo(E, since, Null)
           ws(R) == {x.wallet : x \in R}
<1>1. AreRows(N \cup O) /\ \A x \in N : x.new = 1
  <2>1. /\ AreRows(NewRows(req.wallets) \cup OldRows(req.wallets))
        /\ \A x \in NewRows(req.wallets) : x.new = 1
        /\ N \subseteq NewRows(req.wallets)
    BY TableRows DEF ReadAt
  <2> QED BY <2>1, SomeRows
<1>2. U = A \cup B /\ A \subseteq N \cup O /\ B \subseteq N \cup O
  BY DEF UpTo, Eligible
<1>3. \A x \in A, y \in B : x.wallet = y.wallet => x.at < y.at
  <2>1. \A x \in A : x.at \in Int /\ (x \in N \/ ~ \E y \in N : y.wallet = x.wallet /\ y.at <= x.at)
    BY <1>1 DEF Eligible, AreRows
  <2>2. \A x \in A : x.new = 0
    BY TableRows
  <2>3. \A y \in B : y \in N /\ y.at \in Int
    BY <1>1 DEF AreRows
  <2> QED BY <1>1, <2>1, <2>2, <2>3
<1>4. /\ DOMAIN old = ws(A) /\ DOMAIN new = ws(B)
      /\ \A w \in ws(A) : old[w] = LastOf(OfWallet(A, w))
      /\ \A w \in ws(B) : new[w] = LastOf(OfWallet(B, w))
  BY DEF Seeds, OfWallet
<1> HIDE DEF A, B, U
<1>5. ASSUME NEW R \in {A, B}, NEW w \in ws(R)
      PROVE  /\ AreRows(OfWallet(R, w)) /\ IsLast(LastOf(OfWallet(R, w)), OfWallet(R, w))
  <2>1. OfWallet(R, w) \in SUBSET (N \cup O) /\ OfWallet(R, w) # {}
    BY <1>2, <1>5 DEF OfWallet
  <2> QED BY <1>1, <2>1, SomeRows, LastIsLast
<1>6. ASSUME NEW w \in ws(B)
      PROVE  new[w] = LastOf(OfWallet(U, w)) /\ ~ (w \in ws(A) /\ old[w].at > new[w].at)
  <2>1. PICK y : y = LastOf(OfWallet(B, w))
    OBVIOUS
  <2>2. IsLast(y, OfWallet(B, w)) /\ y \in B /\ y.wallet = w
    BY <1>5, <2>1 DEF IsLast, OfWallet
  <2>3. \A x \in OfWallet(A, w) : x.at < y.at /\ Later(y, x)
    <3>1. \A x \in OfWallet(A, w) : x.at < y.at
      BY <1>3, <2>2 DEF OfWallet
    <3>2. y.at \in Int /\ \A x \in A : x.at \in Int
      BY <1>1, <1>2, <2>2 DEF AreRows
    <3> QED BY <3>1, <3>2 DEF Later, OfWallet
  <2>4. IsLast(y, OfWallet(U, w))
    BY <1>2, <2>2, <2>3 DEF IsLast, OfWallet
  <2>5. AreRows(OfWallet(U, w))
    BY <1>1, <1>2, SomeRows DEF OfWallet
  <2>6. LastOf(OfWallet(U, w)) = y
    BY <2>4, <2>5, LastIs
  <2>7. ASSUME w \in ws(A) PROVE ~ (old[w].at > new[w].at)
    <3>1. old[w] \in OfWallet(A, w)
      BY <1>4, <1>5, <2>7 DEF IsLast
    <3>2. old[w].at < y.at /\ old[w].at \in Int /\ y.at \in Int
      BY <1>1, <1>2, <2>2, <2>3, <3>1 DEF AreRows, OfWallet
    <3> QED BY <1>4, <2>1, <3>2
  <2> QED BY <1>4, <2>1, <2>6, <2>7
<1>7. ASSUME NEW w \in ws(A), w \notin ws(B)
      PROVE  old[w] = LastOf(OfWallet(U, w))
  <2>1. OfWallet(U, w) = OfWallet(A, w)
    BY <1>2, <1>7 DEF OfWallet
  <2> QED BY <1>4, <2>1
<1>8. ws(U) = ws(A) \cup ws(B)
  BY <1>2
<1>9. Wins(old, new) = ws(A) \ ws(B)
  <2> HIDE DEF ws
  <2> QED BY <1>4, <1>6 DEF Wins
<1>10. /\ DOMAIN seeds = Wins(old, new) \cup DOMAIN new
       /\ \A w \in Wins(old, new) : seeds[w] = old[w]
       /\ \A w \in DOMAIN new \ Wins(old, new) : seeds[w] = new[w]
  BY DEF Overlaid
<1> HIDE DEF ws
<1>11. DOMAIN seeds = ws(U) /\ \A w \in ws(U) : seeds[w] = LastOf(OfWallet(U, w))
  BY <1>4, <1>6, <1>7, <1>8, <1>9, <1>10
<1> QED BY <1>11 DEF Seeded, ws, U

LEMMA HistoryOldSeedsRead ==
  ASSUME Wf, PcInv, PointsInv, ~ gone, HistoryOldSeeds
  PROVE  PointsInv'
<1>1. At("history", "oldSeeds") /\ Ranged /\ \E N, t : ReadAt(N, t)
  BY DEF HistoryOldSeeds, PointsInv, ReadPcs, At
<1>2. PICK N, t : ReadAt(N, t)
  BY <1>1
<1>3. PICK O, E, since, W : /\ O = OldRows(req.wallets) /\ E = Eligible(N, O)
                            /\ since = req.since /\ W = req.wallets
  OBVIOUS
<1>4. PICK old, new : /\ old = Seeds({x \in O : x.at < since /\ Kept(x, req.first)})
                      /\ new = req.seeds
  OBVIOUS
<1>5. PICK seeds : seeds = With([w \in Wins(old, new) |-> old[w]], new)
  OBVIOUS
<1>6. PICK points : points = Carried(req.rows, seeds)
  OBVIOUS
<1>7. req'.pc = "done" /\ req'.expected = req.expected /\ req'.answer.points = points
  <2> DEFINE locals == [answer |-> [code |-> 200, points |-> points]]
  <2>1. /\ Then("done", locals) /\ DOMAIN locals = {"answer"}
        /\ locals.answer.points = points
    BY <1>3, <1>4, <1>5, <1>6, Zenon DEF HistoryOldSeeds, Wins
  <2> HIDE DEF locals
  <2> QED BY <1>1, <1>2, <2>1, ReadOn
<1>8. Overlaid(old, new, seeds)
  BY <1>5, OverlaidSeeds
<1>9. since \in Int /\ IsFiniteSet(W)
  BY <1>1, <1>3 DEF Ranged
<1>10. /\ old = Seeds(Before(O \cap E, since)) /\ new = Seeds(Before(N, since))
       /\ req.rows = {x \in E : x.at >= since}
       /\ req.query.wallet = Null /\ req.expected = Reference(req.query, W, E, since)
  <2>1. \A x \in O : Kept(x, req.first) <=> x \in E
    BY <1>1, <1>2, <1>3 DEF ReadAt, At
  <2>2. {x \in O : x.at < since /\ Kept(x, req.first)} = Before(O \cap E, since)
    BY <2>1 DEF Before
  <2> QED BY <1>1, <1>2, <1>3, <1>4, <2>2 DEF ReadAt, At, Before
<1>11. Seeded(E, since, seeds)
  BY <1>1, <1>2, <1>3, <1>8, <1>9, <1>10, SeedsTogether
<1>12. AreRows(E) /\ \A x \in E : x.wallet \in W
  <2>1. /\ AreRows(NewRows(W) \cup O)
        /\ \A x \in NewRows(W) : x.wallet \in W
        /\ \A x \in OldRows(W) : x.wallet \in W
    BY <1>3, TableRows
  <2>2. E \subseteq NewRows(W) \cup O
    BY <1>2, <1>3 DEF Eligible, ReadAt
  <2> QED BY <1>3, <2>1, <2>2, SomeRows
<1>13. points = {<<u, SumFunction([w \in W |-> ValueAt(E, w, u)])>> :
                   u \in {x.at : x \in {y \in E : y.at >= since}}}
  <2>1. Carried({x \in E : x.at >= since}, seeds)
          = {<<u, SumFunction([w \in W |-> ValueAt(E, w, u)])>> :
               u \in {x.at : x \in {y \in E : y.at >= since}}}
    BY <1>9, <1>11, <1>12, CarriedIs
  <2> QED BY <1>6, <1>10, <2>1
<1>14. req.expected = points
  BY <1>10, <1>13 DEF Reference
<1> QED BY <1>7, <1>14 DEF PointsInv, ReadPcs

LEMMA RequestEnds ==
  ASSUME NEW answer, Then("done", [answer |-> answer])
  PROVE  req'.pc = "done" /\ DOMAIN req' = {"pc", "answer"} \cup DOMAIN req
<1> DEFINE locals == [answer |-> answer]
<1>1. Then("done", locals) /\ DOMAIN locals = {"answer"}
  OBVIOUS
<1> HIDE DEF locals
<1> QED BY <1>1, ThenHas

(* Before its first statement a history knows its query and its wallets.    *)
LEMMA HistoryStarts ==
  ASSUME PInv, PointsInv, \E q \in Queries : StartHistory(q)
  PROVE  PointsInv'
<1>1. PICK p \in {"ownWallet", "ownGroup", "wallets"}, q \in Queries :
        Start("history", p, [query |-> q])
  BY DEF StartHistory
<1>2. PICK f : f = IF gone THEN [op |-> "history", pc |-> "done", answer |-> [code |-> 401]]
                   ELSE [op |-> "history", pc |-> p]
  OBVIOUS
<1>3. PICK l : l = [query |-> q]
  OBVIOUS
<1>4. DOMAIN l = {"query"} /\ l.query = q
  BY <1>3
<1>5. req' = With(f, l) /\ UNCHANGED <<world, offer>>
  BY <1>1, <1>2, <1>3 DEF Start
<1>6. gone' = gone
  BY <1>5 DEF world, tables
<1>7. CASE gone
  BY <1>6, <1>7 DEF PointsInv
<1>8. CASE ~ gone
  <2>1. DOMAIN f = {"op", "pc"} /\ f.pc = p
    BY <1>2, <1>8
  <2>2. /\ DOMAIN req' = DOMAIN f \cup DOMAIN l
        /\ \A k \in DOMAIN f : req'[k] = f[k]
        /\ \A k \in DOMAIN l \ DOMAIN f : req'[k] = l[k]
    <3>1. PICK w : w = With(f, l)
      OBVIOUS
    <3>2. /\ DOMAIN w = DOMAIN f \cup DOMAIN l
          /\ \A k \in DOMAIN f : w[k] = f[k]
          /\ \A k \in DOMAIN l \ DOMAIN f : w[k] = l[k]
      BY <3>1 DEF With
    <3>3. req' = w
      BY <1>5, <3>1
    <3> QED BY <3>2, <3>3
  <2>3. req'.pc = p /\ "query" \in DOMAIN req' /\ req'.query = q /\ "expected" \notin DOMAIN req'
    BY <1>4, <2>1, <2>2
  <2> QED BY <1>1, <2>3 DEF PointsInv, Asked, ReadPcs
<1> QED BY <1>7, <1>8

LEMMA HistoryAsks ==
  ASSUME Wf, PcInv, PointsInv, ~ gone, HistoryOwnWallet \/ HistoryOwnGroup
  PROVE  PointsInv'
<1>1. /\ req.op = "history" /\ Asked
      /\ Then("wallets", NoLocals) \/ Then("done", [answer |-> [code |-> 404]])
  BY DEF HistoryOwnWallet, HistoryOwnGroup, Fail, At, PointsInv
<1>2. CASE Then("wallets", NoLocals)
  <2>1. PICK l : l = NoLocals
    OBVIOUS
  <2>2. Then("wallets", l) /\ DOMAIN l = {}
    BY <1>2, <2>1, SkippedHas
  <2>3. /\ req'.pc = "wallets" /\ DOMAIN req' = {"pc"} \cup DOMAIN req
        /\ \A k \in DOMAIN req : k = "pc" \/ req'[k] = req[k]
    BY <2>2, ThenHas
  <2> QED BY <1>1, <2>3 DEF PointsInv, ReadPcs, Asked
<1>3. CASE Then("done", [answer |-> [code |-> 404]])
  <2>1. req'.pc = "done" /\ DOMAIN req' = {"pc", "answer"} \cup DOMAIN req
    BY <1>3, RequestEnds
  <2> QED BY <1>1, <2>1 DEF PointsInv, ReadPcs, Asked
<1> QED BY <1>1, <1>2, <1>3

LEMMA HistoryScoped ==
  ASSUME Wf, PcInv, PointsInv, ~ gone, HistoryScope
  PROVE  PointsInv'
<1>1. Asked
  BY DEF HistoryScope, At, PointsInv
<1>2. PICK W, since : W = HistoryWallets(req.query) /\ since = now - req.query.days
  OBVIOUS
<1>3. \/ Then("done", [answer |-> NoPoints])
      \/ Then("rows", [wallets |-> W, since |-> since])
  BY <1>2 DEF HistoryScope
<1>4. CASE Then("done", [answer |-> NoPoints])
  <2>1. req'.pc = "done" /\ DOMAIN req' = {"pc", "answer"} \cup DOMAIN req
    BY <1>4, RequestEnds
  <2> QED BY <1>1, <2>1 DEF PointsInv, ReadPcs, Asked
<1>5. CASE Then("rows", [wallets |-> W, since |-> since])
  <2> DEFINE locals == [wallets |-> W, since |-> since]
  <2>1. /\ DOMAIN locals = {"wallets", "since"} /\ locals.wallets = W /\ locals.since = since
        /\ Then("rows", locals)
    BY <1>5
  <2> HIDE DEF locals
  <2>2. /\ req'.pc = "rows" /\ DOMAIN req' = {"pc", "wallets", "since"} \cup DOMAIN req
        /\ req'.wallets = W /\ req'.since = since
        /\ "query" \in DOMAIN req => req'.query = req.query
        /\ UNCHANGED <<world, offer>>
    BY <2>1, ThenHas
  <2>3. now' = now
    BY <2>2 DEF world, tables
  <2>4. IsFiniteSet(W)
    <3>1. W \subseteq DOMAIN wallets
      BY <1>2 DEF HistoryWallets, ActiveOf
    <3> QED BY <3>1, FS_Subset DEF Wf, WellFormed, WalletRows
  <2>5. since \in Int /\ since <= now
    <3>1. now \in Int /\ req.query.days \in Nat
      BY <1>1, QueriesAssumption, PortfolioAssumption DEF Wf, Asked
    <3> QED BY <1>2, <3>1
  <2> QED BY <1>1, <2>2, <2>3, <2>4, <2>5 DEF PointsInv, ReadPcs, Asked, Ranged
<1> QED BY <1>3, <1>4, <1>5

LEMMA PointsStart == PInit => PointsInv
<1> SUFFICES ASSUME PInit PROVE PointsInv
  OBVIOUS
<1>1. req = [op |-> "none", pc |-> "idle"]
  BY DEF PInit, Init0
<1>2. req.op = "none"
  BY <1>1
<1> QED BY <1>2 DEF PointsInv

LEMMA PointsNext == PInv /\ PointsInv /\ [PNext]_pVars => PointsInv'
<1> SUFFICES ASSUME PInv, PointsInv, [PNext]_pVars PROVE PointsInv'
  OBVIOUS
<1>1. Wf /\ PcInv
  BY DEF PInv
<1>2. CASE Environment
  <2>1. Wf' /\ RowsStay /\ UNCHANGED req
    BY <1>1, <1>2, EnvironmentWf
  <2> QED BY <1>2, <2>1, BesidePoints
<1>3. CASE UNCHANGED pVars
  <2>1. UNCHANGED <<wallets, runs, snaps, legacy, now, gone, req>>
    BY <1>3 DEF pVars, world, tables
  <2>2. UNCHANGED <<runs, snaps, legacy>> /\ req'.wallets = req.wallets
    BY <2>1
  <2>3. /\ NewRows(req.wallets)' = NewRows(req.wallets)
        /\ OldRows(req.wallets)' = OldRows(req.wallets)
    BY <2>2 DEF NewRows, NewRow, Observed, SnapsOf, OldRows, OldRow
  <2>4. ASSUME NEW N, NEW t, ReadAt(N, t) PROVE ReadAt(N, t)'
    <3>1. req' = req /\ now' = now
      BY <2>1
    <3> QED BY <2>3, <2>4, <3>1 DEF ReadAt
  <2>5. (Asked => Asked') /\ (Ranged => Ranged')
    BY <2>1 DEF Asked, Ranged
  <2>6. req' = req /\ gone' = gone
    BY <2>1
  <2>7. (\E N, t : ReadAt(N, t)) => \E N, t : ReadAt(N, t)'
    BY <2>4
  <2> QED BY <2>5, <2>6, <2>7 DEF PointsInv
<1>4. CASE HistoryStep
  <2>1. CASE \E q \in Queries : StartHistory(q)
    BY <2>1, HistoryStarts
  <2>2. ASSUME \/ HistoryOwnWallet \/ HistoryOwnGroup \/ HistoryScope \/ HistoryRows
               \/ HistoryFirst \/ HistoryOld \/ HistorySeeds \/ HistoryOldSeeds
        PROVE  PointsInv'
    <3>1. CASE gone
      <4>1. UNCHANGED world
        BY <2>2 DEF HistoryOwnWallet, HistoryOwnGroup, HistoryScope, HistoryRows,
                    HistoryFirst, HistoryOld, HistorySeeds, HistoryOldSeeds, Fail, Then
      <4> QED BY <3>1, <4>1 DEF PointsInv, world, tables
    <3>2. CASE ~ gone
      BY <1>1, <2>2, <3>2, HistoryAsks, HistoryScoped, HistoryRowsRead, HistoryFirstRead,
         HistoryOldRead, HistorySeedsRead, HistoryOldSeedsRead
    <3> QED BY <3>1, <3>2
  <2> QED BY <1>4, <2>1, <2>2 DEF HistoryStep
<1>5. CASE InfoStep
  <2>1. req'.op = req.op
    BY <1>5, InfoInv
  <2>2. req.pc \in InfoSteps
    BY <1>5 DEF InfoStep, ReadLatest, ReadMeta, ReadAssets, ReadLegacy, ReadLegacyAssets,
                InfoSteps
  <2>3. req.op # "history"
    BY <1>1, <2>2 DEF PcInv
  <2> QED BY <2>1, <2>3 DEF PointsInv
<1>6. CASE SummaryStep \/ AllocationStep \/ DetailStep \/ JobStep
  <2>1. req'.op # "history"
    BY <1>6, SummaryStepInv, AllocationInv, DetailInv, JobInv
  <2> QED BY <2>1 DEF PointsInv
<1>7. CASE Finish
  <2>1. req' = [op |-> "none", pc |-> "idle"]
    BY <1>7 DEF Finish
  <2>2. req'.op = "none"
    BY <2>1
  <2> QED BY <2>2 DEF PointsInv
<1> QED BY <1>2, <1>3, <1>4, <1>5, <1>6, <1>7 DEF PNext

(* A history answer is the history of one instant, for every database and   *)
(* whatever is published, patched or written while its five statements run. *)
THEOREM HistoriesAreOfOneInstant == PSpec => []HistoryOfOneInstant
<1>1. PInit => PInv /\ PointsInv
  BY InitInv, PointsStart
<1>2. PInv /\ PointsInv /\ [PNext]_pVars => (PInv /\ PointsInv)'
  BY NextInv, PointsNext
<1>3. PInv /\ PointsInv => HistoryOfOneInstant
  BY DEF PInv, PcInv, PointsInv, HistoryOfOneInstant, Done, At
<1> QED BY <1>1, <1>2, <1>3, PTL DEF PSpec

------------------------------------------------------------------------------
(* What one wallet shows now                                                *)

(* The rows a wallet is shown with: of one snapshot, of one legacy snapshot, *)
(* what the user wrote, or none.                                            *)
FromSnap(w, info) ==
  /\ info.snap \in DOMAIN snaps /\ snaps[info.snap].wallet = w /\ info.old = Null
  /\ info.assets = BalancesOf({info.snap}) /\ info.balance = snaps[info.snap].total
  /\ info.source = "latest_snapshot"
FromLegacy(w, info) ==
  /\ info.snap = Null /\ info.old \in DOMAIN legacy /\ legacy[info.old].wallet = w
  /\ info.assets = LegacyBalances(info.old) /\ info.balance = legacy[info.old].total
  /\ info.source = "latest_snapshot"
FromBook(w, info) ==
  /\ info.snap = Null /\ info.old = Null /\ info.source = "manual"
  /\ info.assets = ManualBalances(w) /\ info.balance = SumValues(info.assets)
FromNothing(w, info) ==
  /\ info.snap = Null /\ info.old = Null /\ info.source = "none"
  /\ info.assets = {} /\ info.balance = 0

Shows(w, info) ==
  FromSnap(w, info) \/ FromLegacy(w, info) \/ FromBook(w, info) \/ FromNothing(w, info)

(* The wallet a balance is of.                                              *)
OwnerOf(x) ==
  IF x[1][1] = "snapshot" THEN snaps[x[1][2]].wallet
  ELSE IF x[1][1] = "legacy" THEN legacy[x[1][2]].wallet ELSE x[1][2]

LEMMA BalanceOwner ==
  ASSUME NEW x
  PROVE  /\ \A s : x \in BalancesOf({s}) =>
              s \in DOMAIN snaps /\ x[1] = <<"snapshot", s>> /\ OwnerOf(x) = snaps[s].wallet
         /\ \A l : x \in LegacyBalances(l) =>
              l \in DOMAIN legacy /\ x[1] = <<"legacy", l>> /\ OwnerOf(x) = legacy[l].wallet
         /\ \A w : x \in ManualBalances(w) => x[1] = <<"manual", w>> /\ OwnerOf(x) = w
<1>1. ASSUME NEW s, x \in BalancesOf({s})
      PROVE  s \in DOMAIN snaps /\ x[1] = <<"snapshot", s>> /\ OwnerOf(x) = snaps[s].wallet
  <2>1. PICK p, b : s \in DOMAIN snaps /\ x = <<<<"snapshot", s>>, b>>
    BY <1>1, OneBalance
  <2>2. x[1] = <<"snapshot", s>>
    BY <2>1
  <2>3. x[1][1] = "snapshot" /\ x[1][2] = s
    BY <2>2
  <2> QED BY <2>1, <2>2, <2>3 DEF OwnerOf
<1>2. ASSUME NEW l, x \in LegacyBalances(l)
      PROVE  l \in DOMAIN legacy /\ x[1] = <<"legacy", l>> /\ OwnerOf(x) = legacy[l].wallet
  <2>1. l \in DOMAIN legacy
    BY <1>2 DEF LegacyBalances
  <2>2. x[1] = <<"legacy", l>>
    <3>1. \E c : x = <<<<"legacy", l>>, c>>
      BY <1>2, <2>1, Zenon DEF LegacyBalances
    <3> QED BY <3>1
  <2>3. x[1][1] = "legacy" /\ x[1][2] = l
    BY <2>2
  <2> QED BY <2>1, <2>2, <2>3 DEF OwnerOf
<1>3. ASSUME NEW w, x \in ManualBalances(w)
      PROVE  x[1] = <<"manual", w>> /\ OwnerOf(x) = w
  <2>1. w \in DOMAIN manual
    BY <1>3 DEF ManualBalances
  <2>2. x[1] = <<"manual", w>>
    BY <1>3, <2>1 DEF ManualBalances
  <2>3. x[1][1] = "manual" /\ x[1][2] = w
    BY <2>2
  <2> QED BY <2>2, <2>3 DEF OwnerOf
<1> QED BY <1>1, <1>2, <1>3

(* A wallet is worth what its balances add up to.                           *)
LEMMA ShownWorth ==
  ASSUME Wf, NEW w, NEW info, Shows(w, info)
  PROVE  /\ Countable(info.assets) /\ info.balance = SumValues(info.assets)
         /\ info.balance \in Int
         /\ \A x \in info.assets : OwnerOf(x) = w
<1>1. CASE FromSnap(w, info)
  BY <1>1, SnapWorth, BalanceOwner DEF FromSnap
<1>2. CASE FromLegacy(w, info)
  BY <1>2, LegacyWorth, BalanceOwner DEF FromLegacy
<1>3. \A A : Countable(A) => SumValues(A) \in Int
  <2> SUFFICES ASSUME NEW A, Countable(A) PROVE SumValues(A) \in Int
    OBVIOUS
  <2> DEFINE f == [x \in A |-> x[2].value]
  <2>1. IsFiniteSet(DOMAIN f) /\ \A x \in DOMAIN f : f[x] \in Int
    BY DEF Countable
  <2> HIDE DEF f
  <2>2. SumFunction(f) \in Int
    BY <2>1, SumInt
  <2> QED BY <2>2 DEF SumValues, f
<1>4. CASE FromBook(w, info)
  BY <1>3, <1>4, ManualWorth, BalanceOwner DEF FromBook
<1>5. CASE FromNothing(w, info)
  <2> DEFINE f == [x \in {} |-> x[2].value]
  <2>1. IsFiniteSet(DOMAIN f) /\ DOMAIN f = {} /\ \A x \in DOMAIN f : f[x] \in Int
    BY FS_EmptySet
  <2> HIDE DEF f
  <2>2. SumFunction(f) = 0
    BY <2>1, SumInt
  <2>3. SumValues({}) = 0
    BY <2>2 DEF SumValues, f
  <2> QED BY <1>5, <2>3, FS_EmptySet DEF FromNothing, Countable
<1> QED BY <1>1, <1>2, <1>4, <1>5 DEF Shows

(* What is read of a wallet does not depend on what else is asked for.      *)
LEMMA LatestOne ==
  ASSUME NEW W, NEW w \in W
  PROVE  /\ w \in DOMAIN LatestSnapshots(W) <=> w \in DOMAIN LatestSnapshots({w})
         /\ w \in DOMAIN LatestSnapshots(W) =>
              LatestSnapshots(W)[w] = LatestSnapshots({w})[w]
<1> DEFINE R == {s \in SnapsOf(w, ReadStatuses) : CurrentRevision(s)}
           top == TopRow(R, CreatedAt)
<1>1. ASSUME NEW V, w \in V
      PROVE  /\ w \in DOMAIN LatestSnapshots(V) <=> R # {}
             /\ R # {} => LatestSnapshots(V)[w] = top
  BY <1>1 DEF LatestSnapshots
<1>2. w \in {w}
  OBVIOUS
<1> HIDE DEF R, top
<1> QED BY <1>1, <1>2

LEMMA LegacyOne ==
  ASSUME NEW U, NEW V, NEW w \in U, w \in V
  PROVE  /\ w \in DOMAIN LatestLegacy(U) <=> w \in DOMAIN LatestLegacy(V)
         /\ w \in DOMAIN LatestLegacy(U) => LatestLegacy(U)[w] = LatestLegacy(V)[w]
<1> DEFINE R == {l \in DOMAIN legacy : /\ legacy[l].wallet = w
                                       /\ w \in DOMAIN wallets
                                       /\ legacy[l].at >= wallets[w].addrAt}
           Taken(l) == legacy[l].at
           top == TopRow(R, Taken)
           row == [id |-> top, total |-> legacy[top].total, at |-> legacy[top].at]
<1>1. ASSUME NEW W, w \in W
      PROVE  /\ w \in DOMAIN LatestLegacy(W) <=> R # {}
             /\ R # {} => LatestLegacy(W)[w] = row
  BY <1>1 DEF LatestLegacy
<1> HIDE DEF R, row
<1> QED BY <1>1

OwnInfo(w) == Info(ViewNow({w}), w)

LEMMA ViewShows ==
  ASSUME Wf, NEW W, W \subseteq DOMAIN wallets, NEW w \in W
  PROVE  Shows(w, Info(ViewNow(W), w)) /\ Info(ViewNow(W), w) = OwnInfo(w)
<1> DEFINE latest(V) == LatestSnapshots(V)
           old(V) == LatestLegacy(V \ DOMAIN latest(V))
<1>1. ASSUME NEW V, w \in V, V \subseteq DOMAIN wallets
      PROVE  /\ w \in DOMAIN latest(V) =>
                  Info(ViewNow(V), w) =
                    [source |-> "latest_snapshot", balance |-> snaps[latest(V)[w]].total,
                     at |-> Observed(latest(V)[w]), assets |-> BalancesOf({latest(V)[w]}),
                     snap |-> latest(V)[w], old |-> Null]
             /\ w \notin DOMAIN latest(V) /\ w \in DOMAIN old(V) =>
                  Info(ViewNow(V), w) =
                    [source |-> "latest_snapshot", balance |-> old(V)[w].total,
                     at |-> old(V)[w].at, assets |-> LegacyBalances(old(V)[w].id),
                     snap |-> Null, old |-> old(V)[w].id]
             /\ w \notin DOMAIN latest(V) /\ w \notin DOMAIN old(V) =>
                  Info(ViewNow(V), w) =
                    IF wallets[w].kind = "manual" /\ ManualBalances(w) # {}
                      THEN [source |-> "manual", balance |-> SumValues(ManualBalances(w)),
                            at |-> Null, assets |-> ManualBalances(w),
                            snap |-> Null, old |-> Null]
                      ELSE [source |-> "none", balance |-> 0, at |-> Null, assets |-> {},
                            snap |-> Null, old |-> Null]
  <2> DEFINE view == ViewNow(V)
             S == {latest(V)[v] : v \in DOMAIN latest(V)}
  <2>1. /\ view.latest = latest(V) /\ view.legacy = old(V) /\ view.rows = Keep(wallets, V)
        /\ view.meta = [s \in S |-> [total |-> snaps[s].total, at |-> Observed(s)]]
        /\ view.assets = [s \in S |-> BalancesOf({s})]
        /\ view.legacyAssets = [v \in DOMAIN old(V) |-> LegacyBalances(old(V)[v].id)]
        /\ view.manual = [v \in V |-> ManualBalances(v)]
    BY DEF ViewNow
  <2>2. view.rows[w] = wallets[w]
    <3> HIDE DEF view
    <3> QED BY <1>1, <2>1 DEF Keep
  <2> HIDE DEF view
  <2>3. CASE w \in DOMAIN latest(V)
    <3>1. latest(V)[w] \in S
      BY <2>3
    <3>2. /\ view.meta[latest(V)[w]].total = snaps[latest(V)[w]].total
          /\ view.meta[latest(V)[w]].at = Observed(latest(V)[w])
          /\ view.assets[latest(V)[w]] = BalancesOf({latest(V)[w]})
      <4> HIDE DEF S, latest
      <4> QED BY <2>1, <3>1
    <3>3. Info(view, w) =
            [source |-> "latest_snapshot", balance |-> view.meta[latest(V)[w]].total,
             at |-> view.meta[latest(V)[w]].at, assets |-> view.assets[latest(V)[w]],
             snap |-> latest(V)[w], old |-> Null]
      <4> HIDE DEF latest, old
      <4> QED BY <2>1, <2>3 DEF Info
    <3> HIDE DEF latest, old
    <3> QED BY <2>3, <3>2, <3>3 DEF view
  <2>4. CASE w \notin DOMAIN latest(V) /\ w \in DOMAIN old(V)
    <3>1. view.legacyAssets[w] = LegacyBalances(old(V)[w].id)
      <4> HIDE DEF old
      <4> QED BY <2>1, <2>4
    <3>2. Info(view, w) =
            [source |-> "latest_snapshot", balance |-> old(V)[w].total,
             at |-> old(V)[w].at, assets |-> view.legacyAssets[w],
             snap |-> Null, old |-> old(V)[w].id]
      <4> HIDE DEF latest, old
      <4> QED BY <2>1, <2>4 DEF Info
    <3> HIDE DEF latest, old
    <3> QED BY <2>4, <3>1, <3>2 DEF view
  <2>5. CASE w \notin DOMAIN latest(V) /\ w \notin DOMAIN old(V)
    <3>1. view.manual[w] = ManualBalances(w)
      BY <1>1, <2>1
    <3>2. Info(view, w) =
            IF wallets[w].kind = "manual" /\ ManualBalances(w) # {}
              THEN [source |-> "manual", balance |-> SumValues(ManualBalances(w)),
                    at |-> Null, assets |-> ManualBalances(w), snap |-> Null, old |-> Null]
              ELSE [source |-> "none", balance |-> 0, at |-> Null, assets |-> {},
                    snap |-> Null, old |-> Null]
      <4> HIDE DEF latest, old
      <4> QED BY <2>1, <2>2, <2>5, <3>1 DEF Info
    <3> HIDE DEF latest, old
    <3> QED BY <2>5, <3>2 DEF view
  <2> HIDE DEF latest, old
  <2> QED BY <2>3, <2>4, <2>5 DEF view
<1>2. /\ w \in DOMAIN latest(W) <=> w \in DOMAIN latest({w})
      /\ w \in DOMAIN latest(W) => latest(W)[w] = latest({w})[w]
  BY LatestOne
<1>3. w \notin DOMAIN latest(W) =>
        /\ w \in DOMAIN old(W) <=> w \in DOMAIN old({w})
        /\ w \in DOMAIN old(W) => old(W)[w] = old({w})[w]
  <2> SUFFICES ASSUME w \notin DOMAIN latest(W)
               PROVE  /\ w \in DOMAIN old(W) <=> w \in DOMAIN old({w})
                      /\ w \in DOMAIN old(W) => old(W)[w] = old({w})[w]
    OBVIOUS
  <2>1. w \in W \ DOMAIN latest(W) /\ w \in {w} \ DOMAIN latest({w})
    BY <1>2
  <2> HIDE DEF latest
  <2> QED BY <2>1, LegacyOne
<1>4. w \in DOMAIN latest(W) =>
        latest(W)[w] \in DOMAIN snaps /\ snaps[latest(W)[w]].wallet = w
  BY LatestAre
<1>5. w \in DOMAIN old(W) =>
        /\ old(W)[w].id \in DOMAIN legacy /\ legacy[old(W)[w].id].wallet = w
        /\ old(W)[w].total = legacy[old(W)[w].id].total
  BY LegacyAre
<1> HIDE DEF latest, old
<1>6. Shows(w, Info(ViewNow(W), w))
  <2>1. PICK info : info = Info(ViewNow(W), w)
    OBVIOUS
  <2>2. CASE w \in DOMAIN latest(W)
    <3>1. PICK s : s = latest(W)[w]
      OBVIOUS
    <3>2. info = [source |-> "latest_snapshot", balance |-> snaps[s].total,
                  at |-> Observed(s), assets |-> BalancesOf({s}), snap |-> s, old |-> Null]
      BY <1>1, <2>1, <2>2, <3>1
    <3>3. FromSnap(w, info)
      BY <1>4, <2>2, <3>1, <3>2 DEF FromSnap
    <3> QED BY <2>1, <3>3 DEF Shows
  <2>3. CASE w \notin DOMAIN latest(W) /\ w \in DOMAIN old(W)
    <3>1. PICK x : x = old(W)[w]
      OBVIOUS
    <3>2. info = [source |-> "latest_snapshot", balance |-> x.total, at |-> x.at,
                  assets |-> LegacyBalances(x.id), snap |-> Null, old |-> x.id]
      BY <1>1, <2>1, <2>3, <3>1
    <3>3. FromLegacy(w, info)
      BY <1>5, <2>3, <3>1, <3>2 DEF FromLegacy
    <3> QED BY <2>1, <3>3 DEF Shows
  <2>4. CASE w \notin DOMAIN latest(W) /\ w \notin DOMAIN old(W)
    <3>1. info = IF wallets[w].kind = "manual" /\ ManualBalances(w) # {}
                   THEN [source |-> "manual", balance |-> SumValues(ManualBalances(w)),
                         at |-> Null, assets |-> ManualBalances(w), snap |-> Null,
                         old |-> Null]
                   ELSE [source |-> "none", balance |-> 0, at |-> Null, assets |-> {},
                         snap |-> Null, old |-> Null]
      BY <1>1, <2>1, <2>4
    <3>2. FromBook(w, info) \/ FromNothing(w, info)
      BY <3>1 DEF FromBook, FromNothing
    <3> QED BY <2>1, <3>2 DEF Shows
  <2> QED BY <2>2, <2>3, <2>4
<1>7. Info(ViewNow(W), w) = Info(ViewNow({w}), w)
  <2>1. w \in {w} /\ {w} \subseteq DOMAIN wallets
    OBVIOUS
  <2>2. CASE w \in DOMAIN latest(W)
    BY <1>1, <1>2, <2>1, <2>2
  <2>3. CASE w \notin DOMAIN latest(W) /\ w \in DOMAIN old(W)
    <3>1. old(W)[w] = old({w})[w] /\ w \notin DOMAIN latest({w}) /\ w \in DOMAIN old({w})
      BY <1>2, <1>3, <2>3
    <3> QED BY <1>1, <2>1, <2>3, <3>1
  <2>4. CASE w \notin DOMAIN latest(W) /\ w \notin DOMAIN old(W)
    <3>1. w \notin DOMAIN latest({w}) /\ w \notin DOMAIN old({w})
      BY <1>2, <1>3, <2>4
    <3> QED BY <1>1, <2>1, <2>4, <3>1
  <2> QED BY <2>2, <2>3, <2>4
<1> QED BY <1>6, <1>7 DEF OwnInfo

(* Balances under another name and another word for the same source are     *)
(* priced as well.                                                          *)
LEMMA SameQuality ==
  ASSUME NEW B, IsFiniteSet(B), NEW f,
         \A x \in B : /\ f[x][2].amount = x[2].amount /\ f[x][2].price = x[2].price
                      /\ Normalized(f[x][2].source) = Normalized(x[2].source),
         \A x, y \in B : f[x] = f[y] => x = y
  PROVE  PriceQuality({f[x] : x \in B}) = PriceQuality(B)
<1> DEFINE C == {f[x] : x \in B}
           Priced(S) == {x \in S : x[2].price # Null}
           sources(S) == {Normalized(x[2].source) : x \in S}
<1>1. ASSUME NEW R \in SUBSET B
      PROVE  Cardinality({f[x] : x \in R}) = Cardinality(R)
  <2> DEFINE T == {f[x] : x \in R}
             g == [x \in R |-> f[x]]
  <2>1. IsFiniteSet(R)
    BY FS_Subset
  <2>2. g \in Surjection(R, T) /\ g \in Injection(R, T)
    BY DEF Surjection, Injection, IsInjective
  <2> HIDE DEF g, T
  <2> QED BY <2>1, <2>2, FS_Surjection DEF T
<1>2. /\ Relevant(C) = {f[x] : x \in Relevant(B)}
      /\ Priced(Relevant(C)) = {f[x] : x \in Priced(Relevant(B))}
  BY DEF Relevant
<1>3. sources(Relevant(C)) = sources(Relevant(B))
  <2>1. PICK R : R = Relevant(B) /\ R \subseteq B
    BY DEF Relevant
  <2>2. sources(Relevant(C)) = {Normalized(y[2].source) : y \in {f[x] : x \in R}}
    BY <1>2, <2>1
  <2>3. \A n : n \in {Normalized(y[2].source) : y \in {f[x] : x \in R}}
               <=> \E x \in R : n = Normalized(f[x][2].source)
    OBVIOUS
  <2>4. \A n : n \in {Normalized(x[2].source) : x \in R}
               <=> \E x \in R : n = Normalized(x[2].source)
    OBVIOUS
  <2>5. \A x \in R : Normalized(f[x][2].source) = Normalized(x[2].source)
    BY <2>1
  <2>6. sources(Relevant(B)) = {Normalized(x[2].source) : x \in R}
    BY <2>1
  <2>7. \A n : n \in sources(Relevant(C)) <=> n \in sources(Relevant(B))
    <3> HIDE DEF C, sources
    <3> QED BY <2>2, <2>3, <2>4, <2>5, <2>6
  <2> HIDE DEF C, sources
  <2> QED BY <2>7
<1>4. /\ Cardinality(Relevant(C)) = Cardinality(Relevant(B))
      /\ Cardinality(Priced(Relevant(C))) = Cardinality(Priced(Relevant(B)))
  <2>1. Relevant(B) \in SUBSET B /\ Priced(Relevant(B)) \in SUBSET B
    BY DEF Relevant
  <2> HIDE DEF C
  <2> QED BY <1>1, <1>2, <2>1
<1>5. \A S : PriceQuality(S) =
        [state |-> QualityState(sources(Relevant(S)), Cardinality(Priced(Relevant(S))),
                                Cardinality(Relevant(S))),
         sources |-> sources(Relevant(S)), priced |-> Cardinality(Priced(Relevant(S))),
         total |-> Cardinality(Relevant(S))]
  BY DEF PriceQuality, Relevant
<1> HIDE DEF C, Priced, sources
<1> QED BY <1>3, <1>4, <1>5 DEF C

(* The balances of a wallet by the table they are from.                     *)
LEMMA ShownParts ==
  ASSUME Wf, NEW w, NEW info, Shows(w, info)
  PROVE  /\ \A x : x \in BalancesOf(OwnSnaps(info)) <=>
                     x \in info.assets /\ x[1][1] = "snapshot"
         /\ \A x : info.old # Null /\ x \in LegacyBalances(info.old) <=>
                     x \in info.assets /\ x[1][1] = "legacy"
         /\ \A x : info.snap = Null /\ info.old = Null /\ x \in info.assets <=>
                     x \in info.assets /\ x[1][1] = "manual"
         /\ \A x \in info.assets : x[1][1] \in {"snapshot", "legacy", "manual"}
<1>0. BalancesOf({}) = {}
  BY OneBalance
<1>1. CASE FromSnap(w, info)
  <2>1. info.snap # Null /\ OwnSnaps(info) = {info.snap} /\ info.old = Null
    BY <1>1, SnapsFinite, PortfolioAssumption DEF FromSnap, OwnSnaps
  <2>2. \A x \in info.assets : x[1] = <<"snapshot", info.snap>>
    BY <1>1, BalanceOwner DEF FromSnap
  <2>3. \A x \in info.assets : x[1][1] = "snapshot"
    BY <2>2
  <2> QED BY <1>1, <2>1, <2>3 DEF FromSnap
<1>2. CASE FromLegacy(w, info)
  <2>1. info.old # Null /\ info.snap = Null /\ OwnSnaps(info) = {}
    <3>1. info.old \in DOMAIN legacy /\ info.snap = Null
      BY <1>2 DEF FromLegacy
    <3>2. DOMAIN legacy \subseteq Int
      BY DEF Wf, WellFormed, OtherRows
    <3> QED BY <3>1, <3>2, PortfolioAssumption DEF OwnSnaps
  <2>2. \A x \in info.assets : x[1] = <<"legacy", info.old>>
    BY <1>2, BalanceOwner DEF FromLegacy
  <2>3. \A x \in info.assets : x[1][1] = "legacy"
    BY <2>2
  <2> QED BY <1>0, <1>2, <2>1, <2>3 DEF FromLegacy
<1>3. CASE FromBook(w, info)
  <2>1. info.old = Null /\ info.snap = Null /\ OwnSnaps(info) = {}
    BY <1>3 DEF FromBook, OwnSnaps
  <2>2. \A x \in info.assets : x[1] = <<"manual", w>>
    BY <1>3, BalanceOwner DEF FromBook
  <2>3. \A x \in info.assets : x[1][1] = "manual"
    BY <2>2
  <2> QED BY <1>0, <2>1, <2>3
<1>4. CASE FromNothing(w, info)
  BY <1>0, <1>4 DEF FromNothing, OwnSnaps
<1> QED BY <1>1, <1>2, <1>3, <1>4 DEF Shows

(* The legacy table's balances have no source.                              *)
LEMMA LegacySource ==
  ASSUME Wf, NEW l, NEW x \in LegacyBalances(l)
  PROVE  \E b : /\ x = <<<<"legacy", l>>, b>> /\ b = [b EXCEPT !.source = Null]
                /\ "source" \in DOMAIN b /\ b.source = Null
<1>1. l \in DOMAIN legacy
  BY DEF LegacyBalances
<1>2. PICK c \in legacy[l].balances :
        x = <<<<"legacy", l>>, [c EXCEPT !.price = IF c.amount = 0 THEN Null
                                                   ELSE c.value \div c.amount,
                                         !.source = Null]>>
  BY <1>1, Zenon DEF LegacyBalances
<1>3. PICK p : p = IF c.amount = 0 THEN Null ELSE c.value \div c.amount
  OBVIOUS
<1>4. PICK b : b = [c EXCEPT !.price = p, !.source = Null]
  OBVIOUS
<1>5. x = <<<<"legacy", l>>, b>>
  BY <1>2, <1>3, <1>4
<1>6. c = [asset |-> c.asset, amount |-> c.amount, value |-> c.value,
           price |-> c.price, source |-> c.source]
  BY <1>1 DEF Wf, WellFormed, OtherRows, BalanceRows, Balance
<1>7. b = [asset |-> c.asset, amount |-> c.amount, value |-> c.value,
           price |-> p, source |-> Null]
  BY <1>4, <1>6
<1>8. b = [b EXCEPT !.source = Null] /\ "source" \in DOMAIN b /\ b.source = Null
  BY <1>7
<1> QED BY <1>5, <1>8

------------------------------------------------------------------------------
(* The shares of an allocation                                              *)

Held(W) == UNION {OwnInfo(w).assets : w \in W}

(* How a balance becomes a share, how the health counts it, and how the     *)
(* allocation observes it.                                                  *)
ShareOf(x) ==
  IF x[1][1] = "snapshot" THEN Share("snapshot", x, x[2].asset)
  ELSE IF x[1][1] = "legacy" THEN Share("legacy", x, Typed(x[2].asset))
  ELSE Share("manual", x, AsManual(x[2].asset))
CountedAs(x) == IF x[1][1] = "manual" THEN <<x[1], [x[2] EXCEPT !.source = "manual"]>> ELSE x
Relabelled(y) ==
  IF y[1][1] = "legacy" THEN <<y[1], [y[2] EXCEPT !.source = "unknown"]>> ELSE y

Counted(infos) ==
  BalancesOf(SnapsIn(infos))
    \cup UNION {Sourced(infos[w]) : w \in {v \in DOMAIN infos : infos[v].snap = Null}}

LEMMA OwnInfos ==
  ASSUME Wf, NEW W, W \subseteq DOMAIN wallets
  PROVE  /\ DOMAIN Infos(ViewNow(W)) = W
         /\ \A w \in W : Infos(ViewNow(W))[w] = OwnInfo(w) /\ Shows(w, OwnInfo(w))
<1> DEFINE view == ViewNow(W)
<1>1. view.wallets = W
  BY DEF ViewNow
<1>2. \A w \in W : Shows(w, Info(view, w)) /\ Info(view, w) = OwnInfo(w)
  BY ViewShows
<1> HIDE DEF view
<1>3. DOMAIN Infos(view) = W /\ \A w \in W : Infos(view)[w] = Info(view, w)
  BY <1>1 DEF Infos
<1> QED BY <1>2, <1>3 DEF view

(* The statements of the allocation find every balance that is shown once,  *)
(* by its table.                                                            *)
LEMMA HeldParts ==
  ASSUME Wf, NEW W, W \subseteq DOMAIN wallets, NEW infos,
         DOMAIN infos = W, \A w \in W : infos[w] = OwnInfo(w) /\ Shows(w, OwnInfo(w))
  PROVE  /\ \A x : x \in BalancesOf(SnapsIn(infos)) <=> x \in Held(W) /\ x[1][1] = "snapshot"
         /\ \A x : x \in OldBalances({infos[w].old : w \in W} \ {Null}) <=>
                     x \in Held(W) /\ x[1][1] = "legacy"
         /\ \A x : x \in UNION {infos[w].assets :
                               w \in {v \in W : infos[v].snap = Null /\ infos[v].old = Null}}
                     <=> x \in Held(W) /\ x[1][1] = "manual"
         /\ \A x \in Held(W) : x[1][1] \in {"snapshot", "legacy", "manual"}
<1>1. \A x : x \in Held(W) <=> \E w \in W : x \in OwnInfo(w).assets
  BY DEF Held
<1>2. ASSUME NEW x
      PROVE  x \in BalancesOf(SnapsIn(infos)) <=> x \in Held(W) /\ x[1][1] = "snapshot"
  <2>1. x \in BalancesOf(SnapsIn(infos)) <=>
          \E w \in W : x \in BalancesOf(OwnSnaps(infos[w]))
    BY RowsOfEach
  <2>2. \A w \in W : x \in BalancesOf(OwnSnaps(infos[w])) <=>
                       x \in OwnInfo(w).assets /\ x[1][1] = "snapshot"
    BY ShownParts
  <2> QED BY <1>1, <2>1, <2>2
<1>3. ASSUME NEW x
      PROVE  x \in OldBalances({infos[w].old : w \in W} \ {Null}) <=>
               x \in Held(W) /\ x[1][1] = "legacy"
  <2>1. x \in OldBalances({infos[w].old : w \in W} \ {Null}) <=>
          \E w \in W : infos[w].old # Null /\ x \in LegacyBalances(infos[w].old)
    BY DEF OldBalances
  <2>2. \A w \in W : infos[w].old # Null /\ x \in LegacyBalances(infos[w].old) <=>
                       x \in OwnInfo(w).assets /\ x[1][1] = "legacy"
    BY ShownParts
  <2> QED BY <1>1, <2>1, <2>2
<1>4. ASSUME NEW x
      PROVE  x \in UNION {infos[w].assets :
                          w \in {v \in W : infos[v].snap = Null /\ infos[v].old = Null}}
               <=> x \in Held(W) /\ x[1][1] = "manual"
  <2>1. \A w \in W : infos[w].snap = Null /\ infos[w].old = Null /\ x \in infos[w].assets <=>
                       x \in OwnInfo(w).assets /\ x[1][1] = "manual"
    BY ShownParts
  <2> QED BY <1>1, <2>1
<1>5. \A x \in Held(W) : x[1][1] \in {"snapshot", "legacy", "manual"}
  BY <1>1, ShownParts
<1> QED BY <1>2, <1>3, <1>4, <1>5

LEMMA SharesAre ==
  ASSUME Wf, NEW W, W \subseteq DOMAIN wallets
  PROVE  SharesNow(ViewNow(W)) = {ShareOf(x) : x \in Held(W)}
<1> DEFINE view == ViewNow(W)
           infos == Infos(view)
           B == BalancesOf(SnapsIn(infos))
           O == OldBalances({infos[w].old : w \in W} \ {Null})
           M == UNION {infos[w].assets :
                       w \in {v \in W : infos[v].snap = Null /\ infos[v].old = Null}}
           kinds == {ShareOf(x) : x \in Held(W)}
<1>1. view.wallets = W /\ view.ex = NotAsked
  BY DEF ViewNow
<1>2. DOMAIN infos = W /\ \A w \in W : infos[w] = OwnInfo(w) /\ Shows(w, OwnInfo(w))
  BY OwnInfos
<1>3. /\ \A x : x \in B <=> x \in Held(W) /\ x[1][1] = "snapshot"
      /\ \A x : x \in O <=> x \in Held(W) /\ x[1][1] = "legacy"
      /\ \A x : x \in M <=> x \in Held(W) /\ x[1][1] = "manual"
      /\ \A x \in Held(W) : x[1][1] \in {"snapshot", "legacy", "manual"}
  <2> HIDE DEF infos
  <2> QED BY <1>2, HeldParts
<1>4. ExchangeShares(NotAsked) = {}
  BY DEF ExchangeShares, NotAsked
<1>5. SharesNow(view) = SnapShares(B) \cup OldShares(O) \cup BookShares(M)
  <2> HIDE DEF view
  <2> QED BY <1>1, <1>4 DEF SharesNow, AllShares
<1>6. /\ \A x \in B : Share("snapshot", x, x[2].asset) = ShareOf(x)
      /\ \A x \in O : Share("legacy", x, Typed(x[2].asset)) = ShareOf(x)
      /\ \A x \in M : Share("manual", x, AsManual(x[2].asset)) = ShareOf(x)
  <2> HIDE DEF B, O, M
  <2> QED BY <1>3 DEF ShareOf
<1>7. \A y : y \in SnapShares(B) \cup OldShares(O) \cup BookShares(M) <=>
             \E x \in Held(W) : y = ShareOf(x)
  <2> HIDE DEF B, O, M
  <2>1. \A y : y \in SnapShares(B) <=> \E x \in B : y = ShareOf(x)
    BY <1>6 DEF SnapShares
  <2>2. \A y : y \in OldShares(O) <=> \E x \in O : y = ShareOf(x)
    BY <1>6 DEF OldShares
  <2>3. \A y : y \in BookShares(M) <=> \E x \in M : y = ShareOf(x)
    BY <1>6 DEF BookShares
  <2>4. \A x : x \in Held(W) <=> x \in B \/ x \in O \/ x \in M
    BY <1>3
  <2> QED BY <2>1, <2>2, <2>3, <2>4
<1> HIDE DEF B, O, M, view
<1>8. \A y : y \in SharesNow(view) <=> y \in {ShareOf(x) : x \in Held(W)}
  BY <1>5, <1>7
<1> QED BY <1>8 DEF view

(* What the health counts is the same balances.                             *)
LEMMA CountedAre ==
  ASSUME Wf, NEW W, W \subseteq DOMAIN wallets
  PROVE  Counted(Infos(ViewNow(W))) = {CountedAs(x) : x \in Held(W)}
<1> DEFINE infos == Infos(ViewNow(W))
           unread == {v \in DOMAIN infos : infos[v].snap = Null}
<1>1. DOMAIN infos = W /\ \A w \in W : infos[w] = OwnInfo(w) /\ Shows(w, OwnInfo(w))
  BY OwnInfos
<1> HIDE DEF infos
<1>2. \A x : x \in BalancesOf(SnapsIn(infos)) <=> x \in Held(W) /\ x[1][1] = "snapshot"
  BY <1>1, HeldParts
<1>3. ASSUME NEW w \in W, OwnInfo(w).snap = Null
      PROVE  Sourced(OwnInfo(w)) = {CountedAs(x) : x \in OwnInfo(w).assets}
  <2>1. PICK info : info = OwnInfo(w) /\ Shows(w, info)
    BY <1>1
  <2>2. CASE FromLegacy(w, info)
    <3>1. ASSUME NEW x \in info.assets
          PROVE  <<x[1], [x[2] EXCEPT !.source = Null]>> = x /\ CountedAs(x) = x
      <4>1. x[1] = <<"legacy", info.old>>
        BY <2>2, <3>1, BalanceOwner DEF FromLegacy
      <4>2. x[1][1] = "legacy"
        BY <4>1
      <4>3. PICK b : /\ x = <<<<"legacy", info.old>>, b>>
                     /\ b = [b EXCEPT !.source = Null]
        BY <2>2, <3>1, LegacySource DEF FromLegacy
      <4> QED BY <4>2, <4>3 DEF CountedAs
    <3>2. info.source # "manual"
      BY <2>2 DEF FromLegacy
    <3> QED BY <2>1, <3>1, <3>2 DEF Sourced
  <2>3. CASE FromBook(w, info)
    <3>1. ASSUME NEW x \in info.assets
          PROVE  <<x[1], [x[2] EXCEPT !.source = "manual"]>> = CountedAs(x)
      <4>1. x[1] = <<"manual", w>>
        BY <2>3, <3>1, BalanceOwner DEF FromBook
      <4>2. x[1][1] = "manual"
        BY <4>1
      <4> QED BY <4>2 DEF CountedAs
    <3>2. info.source = "manual"
      BY <2>3 DEF FromBook
    <3> QED BY <2>1, <3>1, <3>2 DEF Sourced
  <2>4. CASE FromNothing(w, info)
    BY <2>1, <2>4 DEF FromNothing, Sourced
  <2>5. ~ FromSnap(w, info)
    BY <1>3, <2>1, SnapsFinite, PortfolioAssumption DEF FromSnap
  <2> QED BY <2>1, <2>2, <2>3, <2>4, <2>5 DEF Shows
<1>4. ASSUME NEW w \in W, OwnInfo(w).snap # Null
      PROVE  \A x \in OwnInfo(w).assets : x[1][1] = "snapshot"
  <2>1. PICK info : info = OwnInfo(w) /\ Shows(w, info)
    BY <1>1
  <2>2. FromSnap(w, info)
    BY <1>4, <2>1 DEF Shows, FromLegacy, FromBook, FromNothing
  <2>3. ASSUME NEW x \in info.assets PROVE x[1][1] = "snapshot"
    <3>1. x[1] = <<"snapshot", info.snap>>
      BY <2>2, <2>3, BalanceOwner DEF FromSnap
    <3> QED BY <3>1
  <2> QED BY <2>1, <2>3
<1>5. ASSUME NEW w \in W, OwnInfo(w).snap = Null
      PROVE  \A x \in OwnInfo(w).assets : x[1][1] # "snapshot"
  <2>1. PICK info : info = OwnInfo(w) /\ Shows(w, info)
    BY <1>1
  <2>2. OwnSnaps(info) = {}
    BY <1>5, <2>1 DEF OwnSnaps
  <2>3. BalancesOf({}) = {}
    BY OneBalance
  <2> QED BY <2>1, <2>2, <2>3, ShownParts
<1>6. \A x : x[1][1] = "snapshot" => CountedAs(x) = x
  BY DEF CountedAs
<1>7. \A y : y \in Counted(infos) <=>
        y \in BalancesOf(SnapsIn(infos)) \/ \E w \in W : OwnInfo(w).snap = Null /\ y \in Sourced(OwnInfo(w))
  BY <1>1 DEF Counted
<1>8. \A x : x \in Held(W) <=> \E w \in W : x \in OwnInfo(w).assets
  BY DEF Held
<1>9. ASSUME NEW y \in Counted(infos) PROVE \E x \in Held(W) : y = CountedAs(x)
  BY <1>2, <1>3, <1>6, <1>7, <1>8, <1>9
<1>10. ASSUME NEW x \in Held(W) PROVE CountedAs(x) \in Counted(infos)
  <2>1. PICK w \in W : x \in OwnInfo(w).assets
    BY <1>8, <1>10
  <2>2. CASE OwnInfo(w).snap = Null
    BY <1>3, <1>7, <2>1, <2>2
  <2>3. CASE OwnInfo(w).snap # Null
    BY <1>2, <1>4, <1>6, <1>7, <1>10, <2>1, <2>3
  <2> QED BY <2>2, <2>3
<1>11. \A y : y \in Counted(infos) <=> y \in {CountedAs(x) : x \in Held(W)}
  BY <1>9, <1>10
<1> QED BY <1>11 DEF infos

LEMMA HeldCountable ==
  ASSUME Wf, NEW W, W \subseteq DOMAIN wallets
  PROVE  Countable(Held(W)) /\ IsFiniteSet(W)
<1> DEFINE f == [w \in W |-> OwnInfo(w).assets]
<1>1. \A w \in W : Countable(OwnInfo(w).assets)
  BY OwnInfos, ShownWorth
<1>2. IsFiniteSet(W)
  BY FS_Subset DEF Wf, WellFormed, WalletRows
<1>3. \A w \in W : IsFiniteSet(f[w])
  BY <1>1 DEF Countable
<1>4. UNION {f[w] : w \in W} = Held(W)
  BY DEF Held
<1> HIDE DEF f
<1>5. IsFiniteSet(Held(W))
  BY <1>2, <1>3, <1>4, UnionFinite
<1> QED BY <1>1, <1>2, <1>5 DEF Countable, Held

(* An allocation's total is what the balances add up to.                    *)
LEMMA SharesWorth ==
  ASSUME Wf, NEW W, W \subseteq DOMAIN wallets
  PROVE  ValueOf(SharesNow(ViewNow(W))) = SumValues(Held(W))
<1> DEFINE H == Held(W)
           S == {ShareOf(x) : x \in H}
           f == [x \in H |-> x[2].value]
           h == [s \in S |-> s[3]]
           b == [x \in H |-> ShareOf(x)]
<1>1. IsFiniteSet(H) /\ \A x \in H : x[2].value \in Int
  BY HeldCountable DEF Countable
<1>2. \A x : ShareOf(x)[1][2] = x /\ ShareOf(x)[3] = x[2].value
  BY DEF ShareOf, Share
<1>3. IsFiniteSet({b[x] : x \in H})
  <2> HIDE DEF b, H
  <2> QED BY <1>1, ImageFinite
<1>4. {b[x] : x \in H} = S
  OBVIOUS
<1>5. /\ DOMAIN f = H /\ DOMAIN h = S
      /\ \A x \in H : b[x] = ShareOf(x) /\ f[x] = x[2].value /\ ShareOf(x) \in S
      /\ \A s \in S : h[s] = s[3] /\ \E x \in H : s = ShareOf(x)
  <2> HIDE DEF H
  <2> QED OBVIOUS
<1>6. SumFunction(f) = SumFunction(h)
  <2> HIDE DEF f, h, b, H, S
  <2>1. IsFiniteSet(DOMAIN f) /\ IsFiniteSet(DOMAIN h)
    BY <1>1, <1>3, <1>4, <1>5
  <2>2. ASSUME NEW s \in DOMAIN h
        PROVE  h[s] \in Int /\ \E x \in DOMAIN f : b[x] = s
    <3>1. PICK x \in H : s = ShareOf(x)
      BY <1>5
    <3>2. s[3] = x[2].value /\ x[2].value \in Int
      BY <1>1, <1>2, <3>1
    <3>3. h[s] = s[3] /\ b[x] = s /\ x \in DOMAIN f
      BY <1>5, <3>1
    <3> QED BY <3>2, <3>3
  <2>3. \A x \in DOMAIN f : b[x] \in DOMAIN h /\ f[x] = h[b[x]]
    BY <1>2, <1>5
  <2>4. ASSUME NEW x \in DOMAIN f, NEW y \in DOMAIN f, b[x] = b[y]
        PROVE  x = y
    <3>1. PICK c, d : c = ShareOf(x) /\ d = ShareOf(y)
      OBVIOUS
    <3>2. c = d
      BY <1>5, <2>4, <3>1
    <3>3. c[1][2] = x /\ d[1][2] = y
      BY <1>2, <3>1
    <3> QED BY <3>2, <3>3
  <2> QED BY <2>1, <2>2, <2>3, <2>4, SumRenamed
<1> HIDE DEF f, h, b, H, S
<1>7. SumValues(H) = SumFunction(f) /\ ValueOf(S) = SumFunction(h)
  BY DEF SumValues, ValueOf, f, h
<1>8. SharesNow(ViewNow(W)) = S
  BY SharesAre DEF S, H
<1> QED BY <1>6, <1>7, <1>8 DEF H

(* So is a summary's, wallet by wallet.                                     *)
LEMMA HeldWorth ==
  ASSUME Wf, NEW W, W \subseteq DOMAIN wallets
  PROVE  SumValues(Held(W)) = SumFunction([w \in W |-> OwnInfo(w).balance])
<1> DEFINE H == Held(W)
           f == [x \in H |-> x[2].value]
           G == [w \in W |-> OwnInfo(w).assets]
<1>1. /\ IsFiniteSet(H) /\ IsFiniteSet(W) /\ \A x \in H : x[2].value \in Int
  BY HeldCountable DEF Countable
<1>2. \A w \in W : /\ OwnInfo(w).balance = SumValues(OwnInfo(w).assets)
                   /\ \A x \in OwnInfo(w).assets : OwnerOf(x) = w
  BY OwnInfos, ShownWorth
<1>3. \A w \in W : G[w] = OwnInfo(w).assets
  OBVIOUS
<1>4. \A w \in W : G[w] \subseteq H
  BY DEF Held
<1>5. \A x \in H : \E w \in W : x \in G[w]
  BY DEF Held
<1> HIDE DEF G, H
<1>6. \A v, w \in W : v = w \/ G[v] \cap G[w] = {}
  BY <1>2, <1>3
<1>7. DOMAIN f = H /\ \A x \in H : f[x] = x[2].value
  OBVIOUS
<1> HIDE DEF f
<1>8. SumFunction(f) = SumFunction([w \in W |-> SumFunction([x \in G[w] |-> f[x]])])
  BY <1>1, <1>4, <1>5, <1>6, <1>7, SumOfSums
<1>9. ASSUME NEW w \in W
      PROVE  SumFunction([x \in G[w] |-> f[x]]) = OwnInfo(w).balance
  <2>1. [x \in G[w] |-> f[x]] = [x \in G[w] |-> x[2].value]
    BY <1>4, <1>7
  <2> QED BY <1>2, <1>3, <2>1 DEF SumValues
<1>10. [w \in W |-> SumFunction([x \in G[w] |-> f[x]])] = [w \in W |-> OwnInfo(w).balance]
  BY <1>9
<1>11. SumValues(H) = SumFunction(f)
  BY DEF SumValues, f
<1> QED BY <1>8, <1>10, <1>11 DEF H

LEMMA NothingAdded == ExchangeTotal(NotAsked) = 0
<1> DEFINE f == [a \in {} |-> a.value]
<1>1. IsFiniteSet(DOMAIN f) /\ DOMAIN f = {} /\ \A a \in DOMAIN f : f[a] \in Int
  BY FS_EmptySet
<1> HIDE DEF f
<1>2. SumFunction(f) = 0
  BY <1>1, SumInt
<1>3. NotAsked.assets = {}
  BY DEF NotAsked
<1> QED BY <1>2, <1>3 DEF ExchangeTotal, f

LEMMA TotalsOfNow ==
  ASSUME Wf, NEW W, W \subseteq DOMAIN wallets
  PROVE  /\ AllocationTotal(ViewNow(W)) = SumFunction([w \in W |-> OwnInfo(w).balance])
         /\ SummaryTotal(ViewNow(W)) = SumFunction([w \in W |-> OwnInfo(w).balance])
         /\ \A w \in W : OwnInfo(w).balance \in Int
<1> DEFINE view == ViewNow(W)
           bal == [w \in W |-> OwnInfo(w).balance]
<1>1. AllocationTotal(view) = SumFunction(bal)
  BY SharesWorth, HeldWorth DEF AllocationTotal
<1>2. view.wallets = W /\ view.ex = NotAsked
  BY DEF ViewNow
<1>3. \A w \in W : Info(view, w) = OwnInfo(w)
  BY ViewShows
<1>4. \A w \in W : OwnInfo(w).balance \in Int
  BY OwnInfos, ShownWorth
<1>5. [w \in W |-> Info(view, w).balance] = bal
  <2> HIDE DEF view
  <2> QED BY <1>3
<1>6. SumFunction(bal) \in Int
  <2>1. IsFiniteSet(DOMAIN bal) /\ \A w \in DOMAIN bal : bal[w] \in Int
    BY <1>4, HeldCountable
  <2> HIDE DEF bal
  <2> QED BY <2>1, SumInt
<1>7. SummaryTotal(view) = SumFunction(bal) + 0
  <2> HIDE DEF view, bal
  <2> QED BY <1>2, <1>5, NothingAdded DEF SummaryTotal
<1> HIDE DEF view, bal
<1>8. SummaryTotal(view) = SumFunction(bal)
  BY <1>6, <1>7
<1> QED BY <1>1, <1>4, <1>8 DEF view, bal

(* Both judge the same prices.                                              *)
LEMMA QualitiesOfNow ==
  ASSUME Wf, NEW W, W \subseteq DOMAIN wallets, SharesNow(ViewNow(W)) # {},
         NEW refreshing, NEW issues, NEW t
  PROVE  LET infos == Infos(ViewNow(W))
         IN  AllocationQuality(SharesNow(ViewNow(W))) =
               DataHealth(infos, refreshing, issues, BalancesOf(SnapsIn(infos)), t).quality
<1> DEFINE infos == Infos(ViewNow(W))
           C == Counted(infos)
           S == SharesNow(ViewNow(W))
           f == [y \in C |-> Relabelled(y)]
<1>1. DataHealth(infos, refreshing, issues, BalancesOf(SnapsIn(infos)), t).quality = PriceQuality(C)
  <2> HIDE DEF infos
  <2> QED BY DEF DataHealth, Counted
<1>2. AllocationQuality(S) = PriceQuality({Observation(s) : s \in S})
  <2> HIDE DEF S
  <2>1. S # {}
    BY DEF S
  <2> QED BY <2>1 DEF AllocationQuality
<1>3. S = {ShareOf(x) : x \in Held(W)} /\ C = {CountedAs(x) : x \in Held(W)}
  BY SharesAre, CountedAre
<1> HIDE DEF infos, C, S
<1>4. \A x \in Held(W) : x[1][1] \in {"snapshot", "legacy", "manual"}
  <2>1. /\ DOMAIN Infos(ViewNow(W)) = W
        /\ \A w \in W : Infos(ViewNow(W))[w] = OwnInfo(w) /\ Shows(w, OwnInfo(w))
    BY OwnInfos
  <2> QED BY <2>1, HeldParts
<1>5. ASSUME NEW x \in Held(W)
      PROVE  Observation(ShareOf(x)) = Relabelled(CountedAs(x))
  <2>1. ShareOf(x)[1][2] = x /\ ShareOf(x)[1][1] = x[1][1]
    BY <1>4 DEF ShareOf, Share
  <2>2. CASE x[1][1] = "snapshot"
    BY <2>1, <2>2 DEF Observation, Relabelled, CountedAs
  <2>3. CASE x[1][1] = "legacy"
    BY <2>1, <2>3 DEF Observation, Relabelled, CountedAs
  <2>4. CASE x[1][1] = "manual"
    BY <2>1, <2>4 DEF Observation, Relabelled, CountedAs
  <2> QED BY <1>4, <2>2, <2>3, <2>4
<1>6. {Observation(s) : s \in S} = {f[y] : y \in C}
  <2>1. \A z : z \in {Observation(s) : s \in S} <=> \E x \in Held(W) : z = Relabelled(CountedAs(x))
    BY <1>3, <1>5
  <2>2. \A z : z \in {f[y] : y \in C} <=> \E x \in Held(W) : z = Relabelled(CountedAs(x))
    BY <1>3
  <2>3. \A z : z \in {Observation(s) : s \in S} <=> z \in {f[y] : y \in C}
    BY <2>1, <2>2
  <2> QED BY <2>3
<1>7. \A y \in C : y[1][1] = "legacy" =>
        \E l, b : y = <<<<"legacy", l>>, b>> /\ "source" \in DOMAIN b /\ b.source = Null
                  /\ b = [b EXCEPT !.source = Null]
  <2> SUFFICES ASSUME NEW y \in C, y[1][1] = "legacy"
               PROVE  \E l, b : /\ y = <<<<"legacy", l>>, b>> /\ "source" \in DOMAIN b
                                /\ b.source = Null /\ b = [b EXCEPT !.source = Null]
    OBVIOUS
  <2>1. PICK x \in Held(W) : y = CountedAs(x)
    BY <1>3
  <2>2. y = x
    <3>1. x[1][1] # "manual"
      BY <2>1 DEF CountedAs
    <3> QED BY <2>1, <3>1 DEF CountedAs
  <2>3. PICK w \in W : x \in OwnInfo(w).assets /\ Shows(w, OwnInfo(w))
    BY OwnInfos DEF Held
  <2>4. x \in LegacyBalances(OwnInfo(w).old)
    BY <2>2, <2>3, ShownParts
  <2> QED BY <2>2, <2>4, LegacySource
<1>8. \A y \in C : /\ f[y][2].amount = y[2].amount /\ f[y][2].price = y[2].price
                   /\ Normalized(f[y][2].source) = Normalized(y[2].source)
  <2> TAKE y \in C
  <2>1. CASE y[1][1] = "legacy"
    <3>1. PICK l, b : /\ y = <<<<"legacy", l>>, b>> /\ "source" \in DOMAIN b
                      /\ b.source = Null
      BY <1>7, <2>1
    <3>2. PICK c : c = [b EXCEPT !.source = "unknown"]
      OBVIOUS
    <3>3. f[y] = <<<<"legacy", l>>, c>>
      BY <2>1, <3>1, <3>2 DEF Relabelled
    <3>4. c.amount = b.amount /\ c.price = b.price /\ c.source = "unknown"
      BY <3>1, <3>2
    <3>5. Normalized("unknown") = Normalized(Null)
      BY AllocationAssumption DEF Normalized, Sources
    <3> QED BY <3>1, <3>3, <3>4, <3>5
  <2>2. CASE y[1][1] # "legacy"
    BY <2>2 DEF Relabelled
  <2> QED BY <2>1, <2>2
<1>9. \A y, z \in C : f[y] = f[z] => y = z
  <2> SUFFICES ASSUME NEW y \in C, NEW z \in C, f[y] = f[z] PROVE y = z
    OBVIOUS
  <2>1. f[y][1] = y[1] /\ f[z][1] = z[1]
    BY DEF Relabelled
  <2>2. CASE y[1][1] = "legacy"
    <3>1. z[1][1] = "legacy" /\ z[1] = y[1]
      BY <2>1, <2>2
    <3>2. PICK l, b : /\ y = <<<<"legacy", l>>, b>> /\ "source" \in DOMAIN b
                      /\ b.source = Null /\ b = [b EXCEPT !.source = Null]
      BY <1>7, <2>2
    <3>3. PICK m, c : /\ z = <<<<"legacy", m>>, c>> /\ "source" \in DOMAIN c
                      /\ c.source = Null /\ c = [c EXCEPT !.source = Null]
      BY <1>7, <3>1
    <3>4. [b EXCEPT !.source = "unknown"] = [c EXCEPT !.source = "unknown"]
      BY <2>2, <3>1, <3>2, <3>3 DEF Relabelled
    <3>5. b = c
      <4>1. PICK d : d = [b EXCEPT !.source = "unknown"]
        OBVIOUS
      <4>2. [d EXCEPT !.source = Null] = [b EXCEPT !.source = Null]
        BY <4>1
      <4>3. [d EXCEPT !.source = Null] = [c EXCEPT !.source = Null]
        BY <3>4, <4>1
      <4> QED BY <3>2, <3>3, <4>2, <4>3
    <3> QED BY <3>1, <3>2, <3>3, <3>5
  <2>3. CASE y[1][1] # "legacy"
    BY <2>1, <2>3 DEF Relabelled
  <2> QED BY <2>2, <2>3
<1>10. IsFiniteSet(C)
  <2> DEFINE g == [x \in Held(W) |-> CountedAs(x)]
  <2>1. IsFiniteSet(Held(W))
    BY HeldCountable DEF Countable
  <2>2. IsFiniteSet({g[x] : x \in Held(W)})
    <3> HIDE DEF g
    <3> QED BY <2>1, ImageFinite
  <2> QED BY <1>3, <2>2
<1> HIDE DEF f
<1>11. PriceQuality({f[y] : y \in C}) = PriceQuality(C)
  BY <1>8, <1>9, <1>10, SameQuality
<1> QED BY <1>1, <1>2, <1>6, <1>11 DEF infos, C, S

ScopeOf(groups, ungrouped) ==
  ScopeWallets([mode |-> "selection", groups |-> groups, ungrouped |-> ungrouped])
OwnGroups == {h \in DOMAIN GroupOwner : GroupOwner[h] = Me}

(* The selections share the wallets out: each is in its group or in none.   *)
LEMMA ScopesPart ==
  ASSUME Wf
  PROVE  LET C == CanonicalWallets(Me)
         IN  /\ C \subseteq DOMAIN wallets /\ IsFiniteSet(OwnGroups)
             /\ ScopeOf({}, TRUE) = {w \in C : wallets[w].group = Null}
             /\ \A g : ScopeOf({g}, FALSE) =
                         {w \in C : wallets[w].group # Null /\ wallets[w].group = g}
             /\ \A w \in C : wallets[w].group # Null => wallets[w].group \in OwnGroups
<1> DEFINE C == CanonicalWallets(Me)
<1>1. C \subseteq DOMAIN wallets /\ \A w \in C : wallets[w].user = Me
  BY DEF CanonicalWallets, ActiveOf
<1>2. \A w \in C : wallets[w].group # Null => wallets[w].group \in OwnGroups
  BY <1>1 DEF OwnGroups, Wf, WellFormed, WalletRows
<1>3. IsFiniteSet(OwnGroups)
  BY PortfolioAssumption, FS_Subset DEF OwnGroups
<1>4. \A groups, ungrouped :
        ScopeOf(groups, ungrouped) = {w \in C : InScope(w, groups, ungrouped)}
  BY DEF ScopeOf, ScopeWallets
<1> HIDE DEF C
<1>5. ScopeOf({}, TRUE) = {w \in C : wallets[w].group = Null}
  BY <1>4 DEF InScope
<1>6. \A g : ScopeOf({g}, FALSE) =
               {w \in C : wallets[w].group # Null /\ wallets[w].group = g}
  BY <1>4 DEF InScope
<1> QED BY <1>1, <1>2, <1>3, <1>5, <1>6 DEF C

(* So their totals add up to the whole.                                     *)
LEMMA ScopesShare ==
  ASSUME Wf
  PROVE  SummaryTotal(ViewNow(CanonicalWallets(Me))) =
           AllocationTotal(ViewNow(ScopeOf({}, TRUE)))
             + SumFunction([g \in OwnGroups |-> AllocationTotal(ViewNow(ScopeOf({g}, FALSE)))])
<1> DEFINE C == CanonicalWallets(Me)
           U == ScopeOf({}, TRUE)
           G == [g \in OwnGroups |-> ScopeOf({g}, FALSE)]
           bal == [w \in C |-> OwnInfo(w).balance]
           rest == [w \in C \ U |-> bal[w]]
           each == [g \in OwnGroups |-> AllocationTotal(ViewNow(ScopeOf({g}, FALSE)))]
<1>1. /\ C \subseteq DOMAIN wallets /\ IsFiniteSet(OwnGroups)
      /\ U = {w \in C : wallets[w].group = Null}
      /\ \A g : ScopeOf({g}, FALSE) =
                  {w \in C : wallets[w].group # Null /\ wallets[w].group = g}
      /\ \A w \in C : wallets[w].group # Null => wallets[w].group \in OwnGroups
  BY ScopesPart
<1>2. IsFiniteSet(C) /\ \A w \in C : OwnInfo(w).balance \in Int
  BY <1>1, HeldCountable, TotalsOfNow
<1>3. \A g \in OwnGroups : G[g] = ScopeOf({g}, FALSE)
  OBVIOUS
<1>4. /\ DOMAIN bal = C /\ \A w \in C : bal[w] = OwnInfo(w).balance
      /\ DOMAIN rest = C \ U /\ \A w \in C \ U : rest[w] = OwnInfo(w).balance
  OBVIOUS
<1>5. SummaryTotal(ViewNow(C)) = SumFunction(bal)
  BY <1>1, TotalsOfNow
<1>6. AllocationTotal(ViewNow(U)) = SumFunction([w \in U |-> OwnInfo(w).balance])
  <2> HIDE DEF U, C
  <2>1. U \subseteq DOMAIN wallets
    BY <1>1
  <2> QED BY <2>1, TotalsOfNow
<1> HIDE DEF C, U, G, bal
<1>7. SumFunction(bal) = SumFunction([w \in U |-> bal[w]]) + SumFunction(rest)
  <2>1. IsFiniteSet(DOMAIN bal) /\ (\A w \in DOMAIN bal : bal[w] \in Int)
        /\ U \in SUBSET DOMAIN bal
    BY <1>1, <1>2, <1>4
  <2>2. SumFunction(bal) = SumFunction([w \in U |-> bal[w]])
                             + SumFunction([w \in DOMAIN bal \ U |-> bal[w]])
    BY <2>1, SumSplit
  <2> QED BY <1>4, <2>2
<1>8. [w \in U |-> bal[w]] = [w \in U |-> OwnInfo(w).balance]
  BY <1>1, <1>4
<1> HIDE DEF rest
<1>9. SumFunction(rest) = SumFunction([g \in OwnGroups |->
                                        SumFunction([w \in G[g] |-> rest[w]])])
  <2>1. IsFiniteSet(DOMAIN rest)
    BY <1>2, <1>4, FS_Difference
  <2>2. \A w \in DOMAIN rest : rest[w] \in Int
    BY <1>2, <1>4
  <2>3. ASSUME NEW g \in OwnGroups, NEW w
        PROVE  w \in G[g] <=> w \in DOMAIN rest /\ wallets[w].group = g
    <3>1. G[g] = {v \in C : wallets[v].group # Null /\ wallets[v].group = g}
      BY <1>1, <1>3
    <3>2. w \in DOMAIN rest <=> w \in C /\ wallets[w].group # Null
      BY <1>1, <1>4
    <3> QED BY <3>1, <3>2
  <2>4. \A w \in DOMAIN rest : wallets[w].group \in OwnGroups
    BY <1>1, <1>4
  <2>5. \A g \in OwnGroups : G[g] \subseteq DOMAIN rest
    BY <2>3
  <2>6. \A g, h \in OwnGroups : g = h \/ G[g] \cap G[h] = {}
    BY <2>3
  <2>7. \A w \in DOMAIN rest : \E g \in OwnGroups : w \in G[g]
    BY <2>3, <2>4
  <2> QED BY <1>1, <2>1, <2>2, <2>5, <2>6, <2>7, SumOfSums
<1>10. ASSUME NEW g \in OwnGroups
       PROVE  SumFunction([w \in G[g] |-> rest[w]]) = each[g]
  <2>1. PICK V : V = ScopeOf({g}, FALSE)
    OBVIOUS
  <2>2. G[g] = V /\ V \subseteq C \ U
    BY <1>1, <1>3, <2>1
  <2>3. [w \in G[g] |-> rest[w]] = [w \in V |-> OwnInfo(w).balance]
    BY <1>4, <2>2
  <2>4. V \subseteq DOMAIN wallets
    BY <1>1, <2>2
  <2>5. AllocationTotal(ViewNow(V)) = SumFunction([w \in V |-> OwnInfo(w).balance])
    BY <2>4, TotalsOfNow
  <2>6. each[g] = AllocationTotal(ViewNow(V))
    BY <2>1
  <2> QED BY <2>3, <2>5, <2>6
<1>11. [g \in OwnGroups |-> SumFunction([w \in G[g] |-> rest[w]])] = each
  <2>1. \A g \in OwnGroups : SumFunction([w \in G[g] |-> rest[w]]) = each[g]
    BY <1>10
  <2>2. DOMAIN each = OwnGroups /\ each = [g \in OwnGroups |-> each[g]]
    OBVIOUS
  <2> HIDE DEF each
  <2> QED BY <2>1, <2>2
<1> HIDE DEF each
<1>12. SummaryTotal(ViewNow(C)) = AllocationTotal(ViewNow(U)) + SumFunction(each)
  BY <1>5, <1>6, <1>7, <1>8, <1>9, <1>11
<1> QED BY <1>12 DEF C, U, each

(* What the user is shown of an allocation, and the remainder, are all of   *)
(* it.                                                                      *)
LEMMA SharedByKey ==
  ASSUME NEW S, IsFiniteSet(S), \A s \in S : s[3] \in Int, NEW top \in SUBSET KeysOf(S)
  PROVE  /\ ValueOf(S) = SumFunction([k \in KeysOf(S) \ top |-> KeyValue(S, k)])
                           + SumFunction([k \in top |-> KeyValue(S, k)])
         /\ IsFiniteSet(KeysOf(S))
<1> DEFINE K == KeysOf(S)
           f == [s \in S |-> s[3]]
           G == [k \in K |-> {s \in S : s[2] = k}]
           each == [k \in K |-> KeyValue(S, k)]
<1>1. IsFiniteSet(K)
  <2> DEFINE g == [s \in S |-> s[2]]
  <2>1. IsFiniteSet({g[s] : s \in S})
    <3> HIDE DEF g
    <3> QED BY ImageFinite
  <2>2. {g[s] : s \in S} = K
    BY DEF KeysOf
  <2> QED BY <2>1, <2>2
<1>2. /\ \A k \in K : G[k] \subseteq S /\ G[k] = {s \in S : s[2] = k}
      /\ \A s \in S : s[2] \in K
  BY DEF KeysOf
<1>3. DOMAIN f = S /\ \A s \in S : f[s] = s[3]
  OBVIOUS
<1>4. DOMAIN each = K /\ \A k \in K : each[k] = KeyValue(S, k)
  OBVIOUS
<1> HIDE DEF K, f, G, each
<1>5. SumFunction(f) = SumFunction([k \in K |-> SumFunction([s \in G[k] |-> f[s]])])
  <2>1. \A k, j \in K : k = j \/ G[k] \cap G[j] = {}
    BY <1>2
  <2>2. \A s \in S : \E k \in K : s \in G[k]
    BY <1>2
  <2> QED BY <1>1, <1>2, <1>3, <2>1, <2>2, SumOfSums
<1>6. ASSUME NEW k \in K
      PROVE  SumFunction([s \in G[k] |-> f[s]]) = each[k] /\ each[k] \in Int
  <2>1. PICK T : T = {s \in S : s[2] = k}
    OBVIOUS
  <2>2. G[k] = T /\ T \subseteq S
    BY <1>2, <2>1
  <2> DEFINE p == [s \in T |-> s[3]]
  <2>3. [s \in G[k] |-> f[s]] = p
    BY <1>3, <2>2
  <2>4. each[k] = SumFunction(p)
    BY <1>4, <2>1 DEF KeyValue, ValueOf
  <2>5. IsFiniteSet(DOMAIN p) /\ \A s \in DOMAIN p : p[s] \in Int
    BY <2>2, FS_Subset
  <2> HIDE DEF p
  <2>6. SumFunction(p) \in Int
    BY <2>5, SumInt
  <2> QED BY <2>3, <2>4, <2>6
<1>7. [k \in K |-> SumFunction([s \in G[k] |-> f[s]])] = each
  <2>1. each = [k \in K |-> each[k]]
    BY DEF each
  <2> QED BY <1>6, <2>1
<1>8. SumFunction(each) = SumFunction([k \in top |-> each[k]])
                            + SumFunction([k \in K \ top |-> each[k]])
  <2>1. top \in SUBSET K
    BY DEF K
  <2>2. IsFiniteSet(DOMAIN each) /\ \A k \in DOMAIN each : each[k] \in Int
    BY <1>1, <1>4, <1>6
  <2>3. SumFunction(each) = SumFunction([k \in top |-> each[k]])
                              + SumFunction([k \in DOMAIN each \ top |-> each[k]])
    BY <1>4, <2>1, <2>2, SumSplit
  <2> QED BY <1>4, <2>3
<1>9. /\ [k \in top |-> each[k]] = [k \in top |-> KeyValue(S, k)]
      /\ [k \in K \ top |-> each[k]] = [k \in K \ top |-> KeyValue(S, k)]
  BY <1>4 DEF K
<1>10. SumFunction([k \in top |-> each[k]]) \in Int
       /\ SumFunction([k \in K \ top |-> each[k]]) \in Int
  <2>1. ASSUME NEW T, T \subseteq K PROVE SumFunction([k \in T |-> each[k]]) \in Int
    <3> DEFINE p == [k \in T |-> each[k]]
    <3>1. IsFiniteSet(DOMAIN p) /\ \A k \in DOMAIN p : p[k] \in Int
      BY <1>1, <1>6, <2>1, FS_Subset
    <3> HIDE DEF p
    <3>2. SumFunction(p) \in Int
      BY <3>1, SumInt
    <3> QED BY <3>2 DEF p
  <2>2. top \subseteq K /\ K \ top \subseteq K
    BY DEF K
  <2> QED BY <2>1, <2>2
<1>11. SumFunction(f) = ValueOf(S)
  BY DEF ValueOf, f
<1>12. PICK a, b : a = SumFunction([k \in top |-> each[k]])
                   /\ b = SumFunction([k \in K \ top |-> each[k]])
  OBVIOUS
<1>13. ValueOf(S) = b + a
  <2>1. ValueOf(S) = SumFunction(each)
    BY <1>5, <1>7, <1>11, Zenon
  <2>2. SumFunction(each) = a + b /\ a \in Int /\ b \in Int
    BY <1>8, <1>10, <1>12, Zenon
  <2> QED BY <2>1, <2>2
<1>14. b = SumFunction([k \in K \ top |-> KeyValue(S, k)])
       /\ a = SumFunction([k \in top |-> KeyValue(S, k)])
  BY <1>9, <1>12
<1> QED BY <1>1, <1>13, <1>14 DEF K

(* Shares of countable balances have values.                                *)
Weighed(S) == IsFiniteSet(S) /\ \A s \in S : s[3] \in Int

LEMMA SharesWeighed ==
  ASSUME NEW B, Countable(B)
  PROVE  Weighed(SnapShares(B)) /\ Weighed(OldShares(B)) /\ Weighed(BookShares(B))
<1>1. ASSUME NEW f, \A x \in B : f[x][3] = x[2].value
      PROVE  Weighed({f[x] : x \in B})
  BY <1>1, ImageFinite DEF Countable, Weighed
<1>2. Weighed(SnapShares(B))
  <2> DEFINE f == [x \in B |-> Share("snapshot", x, x[2].asset)]
  <2>1. \A x \in B : f[x][3] = x[2].value
    BY DEF Share
  <2>2. SnapShares(B) = {f[x] : x \in B}
    BY DEF SnapShares
  <2> HIDE DEF f
  <2> QED BY <1>1, <2>1, <2>2
<1>3. Weighed(OldShares(B))
  <2> DEFINE f == [x \in B |-> Share("legacy", x, Typed(x[2].asset))]
  <2>1. \A x \in B : f[x][3] = x[2].value
    BY DEF Share
  <2>2. OldShares(B) = {f[x] : x \in B}
    BY DEF OldShares
  <2> HIDE DEF f
  <2> QED BY <1>1, <2>1, <2>2
<1>4. Weighed(BookShares(B))
  <2> DEFINE f == [x \in B |-> Share("manual", x, AsManual(x[2].asset))]
  <2>1. \A x \in B : f[x][3] = x[2].value
    BY DEF Share
  <2>2. BookShares(B) = {f[x] : x \in B}
    BY DEF BookShares
  <2> HIDE DEF f
  <2> QED BY <1>1, <2>1, <2>2
<1> QED BY <1>2, <1>3, <1>4

LEMMA UnionCountable ==
  ASSUME NEW S, IsFiniteSet(S), NEW f, \A x \in S : Countable(f[x])
  PROVE  Countable(UNION {f[x] : x \in S})
<1>1. IsFiniteSet(UNION {f[x] : x \in S})
  BY UnionFinite DEF Countable
<1> QED BY <1>1 DEF Countable

(* Nothing being asked, the totals and qualities agree.                     *)
LEMMA TotalsOfAll ==
  ASSUME Wf, req.pc = "idle"
  PROVE  TotalsAgree
<1> DEFINE C == CanonicalWallets(Me)
           all == ViewNow(C)
           Part(groups, ungrouped) == AllocationTotal(ViewNow(ScopeOf(groups, ungrouped)))
           infos == Infos(all)
           S == SnapsIn(infos)
           quality == DataHealth(infos, FALSE, Unfinished(S), BalancesOf(S), now).quality
<1>1. C \subseteq DOMAIN wallets
  BY ScopesPart
<1>2. AllocationTotal(all) = SummaryTotal(all)
  <2> HIDE DEF C
  <2> QED BY <1>1, TotalsOfNow
<1>3. SharesNow(all) # {} => AllocationQuality(SharesNow(all)) = quality
  <2> HIDE DEF C
  <2>1. PICK issues, t : issues = Unfinished(S) /\ t = now
    OBVIOUS
  <2> QED BY <1>1, <2>1, QualitiesOfNow
<1>4. SummaryTotal(all) = Part({}, TRUE) + SumFunction([g \in OwnGroups |-> Part({g}, FALSE)])
  BY ScopesShare
<1>5. ~ Done("allocation")
  BY DEF Done, At
<1> QED BY <1>2, <1>3, <1>4, <1>5 DEF TotalsAgree, ScopeOf, OwnGroups

------------------------------------------------------------------------------
(* What an allocation knows                                                 *)

ExWeighed ==
  "ex" \in DOMAIN req /\ IsFiniteSet(req.ex.assets) /\ \A a \in req.ex.assets : a.value \in Int
Scoped == "wallets" \in DOMAIN req /\ IsFiniteSet(req.wallets)
NewChosen ==
  "latest" \in DOMAIN req /\ \A w \in DOMAIN req.latest : req.latest[w] # Null
OldChosen ==
  "legacy" \in DOMAIN req /\ \A w \in DOMAIN req.legacy : req.legacy[w].id # Null
BooksRead ==
  Scoped /\ "manual" \in DOMAIN req /\ \A w \in req.wallets : Countable(req.manual[w])
BalancesRead == "balances" \in DOMAIN req /\ Countable(req.balances)
Shared ==
  req.answer.code = 200 =>
    /\ req.answer.total = req.answer.other + SumFunction(req.answer.items)
    /\ Cardinality(DOMAIN req.answer.items) <= Visible

(* What it has read when it gets to a statement, and what it answers.       *)
SharesInv ==
  req.op = "allocation" =>
    /\ req.pc # "done" => ExWeighed
    /\ req.pc \in InfoSteps \cup {"exchange", "balances", "oldBalances"} => Scoped
    /\ req.pc \in (InfoSteps \ {"latest"}) \cup {"balances", "oldBalances"} => NewChosen
    /\ req.pc \in {"legacyAssets", "manual", "balances", "oldBalances"} => OldChosen
    /\ req.pc \in {"balances", "oldBalances"} => BooksRead
    /\ req.pc = "oldBalances" => BalancesRead
    /\ req.pc = "done" => Shared

LEMMA PiecesStay ==
  /\ ExWeighed /\ Same({"ex"}) => ExWeighed'
  /\ Scoped /\ Same({"wallets"}) => Scoped'
  /\ NewChosen /\ Same({"latest"}) => NewChosen'
  /\ OldChosen /\ Same({"legacy"}) => OldChosen'
  /\ BooksRead /\ Same({"wallets"}) /\ Same({"manual"}) => BooksRead'
<1>1. ExWeighed /\ Same({"ex"}) => ExWeighed'
  BY DEF ExWeighed, Same
<1>2. Scoped /\ Same({"wallets"}) => Scoped'
  BY DEF Scoped, Same
<1>3. NewChosen /\ Same({"latest"}) => NewChosen'
  BY DEF NewChosen, Same
<1>4. OldChosen /\ Same({"legacy"}) => OldChosen'
  BY DEF OldChosen, Same
<1>5. BooksRead /\ Same({"wallets"}) /\ Same({"manual"}) => BooksRead'
  BY DEF BooksRead, Scoped, Same
<1> QED BY <1>1, <1>2, <1>3, <1>4, <1>5

(* A statement keeps what it does not read anew.                            *)
LEMMA PiecesKept ==
  ASSUME Wf, PcInv, NEW p, NEW locals, Then(p, locals),
         "pc" \notin DOMAIN locals, "op" \notin DOMAIN locals
  PROVE  /\ req'.pc = p /\ req'.op = req.op
         /\ \A k \in DOMAIN locals : k \in DOMAIN req' /\ req'[k] = locals[k]
         /\ ExWeighed /\ "ex" \notin DOMAIN locals => ExWeighed'
         /\ Scoped /\ "wallets" \notin DOMAIN locals => Scoped' /\ req'.wallets = req.wallets
         /\ NewChosen /\ "latest" \notin DOMAIN locals => NewChosen'
         /\ OldChosen /\ "legacy" \notin DOMAIN locals => OldChosen'
         /\ BooksRead /\ "wallets" \notin DOMAIN locals /\ "manual" \notin DOMAIN locals
              => BooksRead'
<1>1. /\ req'.pc = p /\ req'.op = req.op
      /\ \A k \in DOMAIN locals : k \in DOMAIN req' /\ req'[k] = locals[k]
      /\ \A K \in SUBSET DOMAIN req :
           "pc" \notin K /\ K \cap DOMAIN locals = {} => Same(K)
  BY StepTaken
<1>2. \A k \in {"ex", "wallets", "latest", "legacy", "manual"} :
        k \in DOMAIN req /\ k \notin DOMAIN locals => Same({k})
  BY <1>1
<1>3. ExWeighed /\ "ex" \notin DOMAIN locals => ExWeighed'
  BY <1>2, PiecesStay DEF ExWeighed
<1>4. Scoped /\ "wallets" \notin DOMAIN locals => Scoped' /\ req'.wallets = req.wallets
  BY <1>2, PiecesStay DEF Scoped, Same
<1>5. NewChosen /\ "latest" \notin DOMAIN locals => NewChosen'
  BY <1>2, PiecesStay DEF NewChosen
<1>6. OldChosen /\ "legacy" \notin DOMAIN locals => OldChosen'
  BY <1>2, PiecesStay DEF OldChosen
<1>7. BooksRead /\ "wallets" \notin DOMAIN locals /\ "manual" \notin DOMAIN locals
        => BooksRead'
  BY <1>2, PiecesStay DEF BooksRead, Scoped
<1> QED BY <1>1, <1>3, <1>4, <1>5, <1>6, <1>7

(* build_wallet_balance_info chooses rows that exist and reads books that   *)
(* have values.                                                             *)
LEMMA SharesInfo ==
  ASSUME PInv, SharesInv, InfoStep
  PROVE  SharesInv'
<1>1. Wf /\ PcInv /\ req'.op = req.op
  BY InfoInv DEF PInv
<1> SUFFICES ASSUME req.op = "allocation" PROVE SharesInv'
  BY <1>1 DEF SharesInv
<1>2. Null \notin Int
  BY PortfolioAssumption
<1>3. CASE ReadLatest
  <2> DEFINE latest == LatestSnapshots(req.wallets)
             locals == [latest |-> latest]
  <2>1. Then("meta", locals) /\ req.pc = "latest"
    BY <1>3 DEF ReadLatest
  <2>2. DOMAIN locals = {"latest"} /\ locals.latest = latest
    OBVIOUS
  <2>3. \A w \in DOMAIN latest : latest[w] # Null
    <3>1. \A w \in DOMAIN latest : latest[w] \in DOMAIN snaps
      BY <1>1, LatestAre
    <3>2. DOMAIN snaps \subseteq Int
      BY <1>1, SnapsFinite
    <3> QED BY <1>2, <3>1, <3>2
  <2>4. ExWeighed /\ Scoped
    BY <2>1 DEF SharesInv, InfoSteps
  <2> HIDE DEF latest, locals
  <2>5. req'.pc = "meta" /\ ExWeighed' /\ Scoped' /\ "latest" \in DOMAIN req'
        /\ req'.latest = latest
    BY <1>1, <2>1, <2>2, <2>4, PiecesKept
  <2>6. NewChosen'
    BY <2>3, <2>5 DEF NewChosen
  <2> QED BY <2>5, <2>6 DEF SharesInv, InfoSteps
<1>4. CASE ReadMeta
  <2>1. PICK meta : Then("assets", [meta |-> meta])
    BY <1>4 DEF ReadMeta
  <2>2. ExWeighed /\ Scoped /\ NewChosen
    BY <1>4 DEF SharesInv, InfoSteps, ReadMeta
  <2>3. req'.pc = "assets" /\ ExWeighed' /\ Scoped' /\ NewChosen'
    BY <1>1, <2>1, <2>2, PiecesKept
  <2> QED BY <2>3 DEF SharesInv, InfoSteps
<1>5. CASE ReadAssets
  <2>1. PICK assets : Then("legacy", [assets |-> assets])
    BY <1>5 DEF ReadAssets
  <2>2. ExWeighed /\ Scoped /\ NewChosen
    BY <1>5 DEF SharesInv, InfoSteps, ReadAssets
  <2>3. req'.pc = "legacy" /\ ExWeighed' /\ Scoped' /\ NewChosen'
    BY <1>1, <2>1, <2>2, PiecesKept
  <2> QED BY <2>3 DEF SharesInv, InfoSteps
<1>6. CASE ReadLegacy
  <2> DEFINE old == LatestLegacy(req.wallets \ DOMAIN req.latest)
             locals == [legacy |-> old]
  <2>1. Then("legacyAssets", locals) /\ req.pc = "legacy"
    BY <1>6 DEF ReadLegacy
  <2>2. DOMAIN locals = {"legacy"} /\ locals.legacy = old
    OBVIOUS
  <2>3. \A w \in DOMAIN old : old[w].id # Null
    <3>1. \A w \in DOMAIN old : old[w].id \in DOMAIN legacy
      BY <1>1, LegacyAre
    <3>2. DOMAIN legacy \subseteq Int
      BY <1>1 DEF Wf, WellFormed, OtherRows
    <3> QED BY <1>2, <3>1, <3>2
  <2>4. ExWeighed /\ Scoped /\ NewChosen
    BY <2>1 DEF SharesInv, InfoSteps
  <2> HIDE DEF old, locals
  <2>5. req'.pc = "legacyAssets" /\ ExWeighed' /\ Scoped' /\ NewChosen'
        /\ "legacy" \in DOMAIN req' /\ req'.legacy = old
    BY <1>1, <2>1, <2>2, <2>4, PiecesKept
  <2>6. OldChosen'
    BY <2>3, <2>5 DEF OldChosen
  <2> QED BY <2>5, <2>6 DEF SharesInv, InfoSteps
<1>7. CASE ReadLegacyAssets
  <2>1. PICK assets : Then("manual", [legacyAssets |-> assets])
    BY <1>7 DEF ReadLegacyAssets
  <2>2. ExWeighed /\ Scoped /\ NewChosen /\ OldChosen
    BY <1>7 DEF SharesInv, InfoSteps, ReadLegacyAssets
  <2>3. req'.pc = "manual" /\ ExWeighed' /\ Scoped' /\ NewChosen' /\ OldChosen'
    BY <1>1, <2>1, <2>2, PiecesKept
  <2> QED BY <2>3 DEF SharesInv, InfoSteps
<1>8. CASE req.pc = "manual" /\ ReadManual(AfterInfo[req.op])
  <2>1. CASE Missing
    <3>1. Then("done", [answer |-> [code |-> 500]])
      BY <1>8, <2>1 DEF ReadManual, Fail
    <3>2. req'.pc = "done" /\ req'.answer.code = 500
      BY <1>1, <3>1, PiecesKept
    <3> QED BY <3>2 DEF SharesInv, InfoSteps, Shared
  <2>2. CASE ~ Missing
    <3> DEFINE books == [w \in req.wallets |-> ManualBalances(w)]
               locals == [manual |-> books]
    <3>1. AfterInfo[req.op] = "balances"
      BY DEF AfterInfo
    <3>2. Then("balances", locals)
      BY <1>8, <2>2, <3>1 DEF ReadManual
    <3>3. DOMAIN locals = {"manual"} /\ locals.manual = books
      OBVIOUS
    <3>4. \A w \in req.wallets : Countable(books[w])
      BY <1>1, ManualWorth
    <3>5. ExWeighed /\ Scoped /\ NewChosen /\ OldChosen
      BY <1>8 DEF SharesInv, InfoSteps
    <3> HIDE DEF books, locals
    <3>6. /\ req'.pc = "balances" /\ ExWeighed' /\ Scoped' /\ NewChosen' /\ OldChosen'
          /\ "manual" \in DOMAIN req' /\ req'.manual = books /\ req'.wallets = req.wallets
      BY <1>1, <3>2, <3>3, <3>5, PiecesKept
    <3>7. BooksRead'
      BY <3>4, <3>6 DEF BooksRead
    <3> QED BY <3>6, <3>7 DEF SharesInv, InfoSteps
  <2> QED BY <2>1, <2>2
<1> QED BY <1>3, <1>4, <1>5, <1>6, <1>7, <1>8 DEF InfoStep

(* Balances of snapshots have values.                                       *)
LEMMA BalancesCountable ==
  ASSUME Wf, NEW S, IsFiniteSet(S)
  PROVE  Countable(BalancesOf(S))
<1>1. IsFiniteSet(BalancesOf(S))
  BY BalancesFinite
<1>2. ASSUME NEW x \in BalancesOf(S)
      PROVE  x[2].value \in Int
  <2>1. PICK s \in S \cap DOMAIN snaps : \E p \in snaps[s].parts : \E b \in p.balances :
          x = <<<<"snapshot", s>>, b>>
    BY OneBalance
  <2>2. PICK p \in snaps[s].parts : \E b \in p.balances : x = <<<<"snapshot", s>>, b>>
    BY <2>1
  <2>3. PICK b \in p.balances : x = <<<<"snapshot", s>>, b>>
    BY <2>2
  <2>4. Collected(snaps[s])
    BY <2>1 DEF Wf, WellFormed, SnapRows
  <2>5. Balance(b)
    BY <2>4 DEF Collected, BalanceRows
  <2> QED BY <2>3, <2>5 DEF Balance
<1> QED BY <1>1, <1>2 DEF Countable

LEMMA OldCountable ==
  ASSUME Wf, NEW ids, IsFiniteSet(ids)
  PROVE  Countable(OldBalances(ids))
<1> DEFINE f == [l \in ids |-> LegacyBalances(l)]
<1>1. ASSUME NEW l \in ids
      PROVE  Countable(f[l])
  <2>1. CASE l \in DOMAIN legacy
    BY <2>1, LegacyWorth
  <2>2. CASE l \notin DOMAIN legacy
    BY <2>2, FS_EmptySet DEF LegacyBalances, Countable
  <2> QED BY <2>1, <2>2
<1>2. OldBalances(ids) = UNION {f[l] : l \in ids}
  BY DEF OldBalances
<1> HIDE DEF f
<1> QED BY <1>1, <1>2, UnionCountable

(* Everything an allocation adds up has a value, whatever has changed in    *)
(* the tables since it chose its rows.                                      *)
LEMMA AllWeighed ==
  ASSUME Wf, ExWeighed, Scoped, NewChosen, OldChosen, BooksRead, BalancesRead
  PROVE  LET infos == Infos(req)
             ids == {infos[w].old : w \in req.wallets} \ {Null}
         IN  Weighed(AllShares(req, req.balances, OldBalances(ids)))
<1> DEFINE infos == Infos(req)
           ids == {infos[w].old : w \in req.wallets} \ {Null}
           unread == {w \in req.wallets : infos[w].snap = Null /\ infos[w].old = Null}
           held == [w \in unread |-> infos[w].assets]
           book == UNION {infos[w].assets : w \in unread}
<1>1. IsFiniteSet(ids)
  <2> DEFINE f == [w \in req.wallets |-> infos[w].old]
  <2>1. IsFiniteSet({f[w] : w \in req.wallets})
    <3> HIDE DEF f
    <3> QED BY ImageFinite DEF Scoped
  <2>2. {f[w] : w \in req.wallets} = {infos[w].old : w \in req.wallets}
    <3> HIDE DEF infos
    <3> QED OBVIOUS
  <2> HIDE DEF f, infos
  <2>3. ids \subseteq {f[w] : w \in req.wallets}
    BY <2>2
  <2> QED BY <2>1, <2>3, FS_Subset
<1>2. \A w \in req.wallets : infos[w] = Info(req, w)
  BY DEF Infos
<1> HIDE DEF infos
<1>3. ASSUME NEW w \in unread
      PROVE  Countable(held[w])
  <2>1. Info(req, w).snap = Null /\ Info(req, w).old = Null /\ w \in req.wallets
    BY <1>2
  <2>2. w \notin DOMAIN req.latest
    BY <2>1, InfoOf DEF NewChosen
  <2>3. w \notin DOMAIN req.legacy
    BY <2>1, <2>2 DEF OldChosen, Info
  <2>4. Info(req, w).assets \in {req.manual[w], {}}
    BY <2>2, <2>3, InfoOf
  <2>5. Countable(Info(req, w).assets)
    BY <2>1, <2>4, FS_EmptySet DEF BooksRead, Countable
  <2>6. held[w] = Info(req, w).assets
    BY <1>2
  <2> QED BY <2>5, <2>6
<1>4. Countable(book)
  <2>1. IsFiniteSet(unread)
    BY FS_Subset DEF Scoped
  <2>2. book = UNION {held[w] : w \in unread}
    OBVIOUS
  <2> HIDE DEF held, unread, book
  <2> QED BY <1>3, <2>1, <2>2, UnionCountable
<1>5. Countable(OldBalances(ids)) /\ Countable(req.balances)
  <2> HIDE DEF ids
  <2> QED BY <1>1, OldCountable DEF BalancesRead
<1>6. Weighed(ExchangeShares(req.ex))
  <2> DEFINE A == req.ex.assets
             f == [a \in A |-> ExchangeShare(a)]
  <2>1. {f[a] : a \in A} = {ExchangeShare(a) : a \in A}
    OBVIOUS
  <2>2. IsFiniteSet({f[a] : a \in A})
    <3>1. IsFiniteSet(A)
      BY DEF ExWeighed
    <3> HIDE DEF f, A
    <3> QED BY <3>1, ImageFinite
  <2>3. \A a \in A : ExchangeShare(a)[3] \in Int
    BY DEF ExWeighed, ExchangeShare
  <2> HIDE DEF f
  <2>4. Weighed({ExchangeShare(a) : a \in A})
    BY <2>1, <2>2, <2>3 DEF Weighed
  <2>5. Weighed({})
    BY FS_EmptySet DEF Weighed
  <2> QED BY <2>4, <2>5 DEF ExchangeShares
<1>7. Weighed(SnapShares(req.balances)) /\ Weighed(OldShares(OldBalances(ids)))
      /\ Weighed(BookShares(book))
  <2> HIDE DEF ids, book
  <2> QED BY <1>4, <1>5, SharesWeighed
<1>8. \A A, B : Weighed(A) /\ Weighed(B) => Weighed(A \cup B)
  BY FS_Union DEF Weighed
<1>9. AllShares(req, req.balances, OldBalances(ids)) =
        SnapShares(req.balances) \cup OldShares(OldBalances(ids))
          \cup ExchangeShares(req.ex) \cup BookShares(book)
  BY DEF AllShares, infos
<1> HIDE DEF ids, book
<1>10. Weighed(AllShares(req, req.balances, OldBalances(ids)))
  BY <1>6, <1>7, <1>8, <1>9
<1> QED BY <1>10 DEF ids, infos

(* The answer of an allocation: nothing is lost to the remainder, and no    *)
(* more is shown than there is room for.                                    *)
LEMMA SharesAnswered ==
  ASSUME PInv, SharesInv, AllocationOld
  PROVE  SharesInv'
<1> DEFINE infos == Infos(req)
           ids == {infos[w].old : w \in req.wallets} \ {Null}
           S == AllShares(req, req.balances, OldBalances(ids))
           K == KeysOf(S)
           answer(top) == [code |-> 200, total |-> ValueOf(S),
                           quality |-> AllocationQuality(S),
                           items |-> [k \in top |-> KeyValue(S, k)],
                           other |-> SumFunction([k \in K \ top |-> KeyValue(S, k)])]
<1>1. Wf /\ PcInv /\ req.op = "allocation" /\ req.pc = "oldBalances"
  BY DEF PInv, AllocationOld, At
<1>2. ExWeighed /\ Scoped /\ NewChosen /\ OldChosen /\ BooksRead /\ BalancesRead
  BY <1>1 DEF SharesInv
<1>3. IsFiniteSet(S) /\ \A s \in S : s[3] \in Int
  BY <1>1, <1>2, AllWeighed DEF Weighed
<1>4. PICK top \in kSubset(Min({Visible, Cardinality(K)}), K) :
        Then("done", [answer |-> answer(top)])
  BY DEF AllocationOld
<1> HIDE DEF S
<1>5. top \in SUBSET K /\ Cardinality(top) = Min({Visible, Cardinality(K)})
  BY <1>4 DEF kSubset
<1>6. /\ ValueOf(S) = SumFunction([k \in K \ top |-> KeyValue(S, k)])
                        + SumFunction([k \in top |-> KeyValue(S, k)])
      /\ IsFiniteSet(K)
  BY <1>3, <1>5, SharedByKey
<1>7. Cardinality(top) <= Visible
  <2>1. PICK c : c = Cardinality(K)
    OBVIOUS
  <2>2. Visible \in Int /\ c \in Int
    BY <1>6, <2>1, FS_CardinalityType, AllocationAssumption
  <2>3. IsFiniteSet({Visible, c})
    <3>1. IsFiniteSet({Visible} \cup {c})
      BY FS_Singleton, FS_Union
    <3>2. {Visible, c} = {Visible} \cup {c}
      OBVIOUS
    <3> QED BY <3>1, <3>2
  <2>4. Min({Visible, c}) <= Visible
    BY <2>2, <2>3, MinLeast
  <2>5. Cardinality(top) = Min({Visible, c})
    BY <1>5, <2>1
  <2> QED BY <2>4, <2>5
<1>8. PICK a : a = answer(top)
  OBVIOUS
<1>9. /\ a.total = a.other + SumFunction(a.items)
      /\ DOMAIN a.items = top
  BY <1>6, <1>8
<1>10. Then("done", [answer |-> a])
  BY <1>4, <1>8
<1>11. req'.pc = "done" /\ req'.answer = a
  BY <1>1, <1>10, PiecesKept
<1>12. Shared'
  BY <1>7, <1>9, <1>11 DEF Shared
<1> QED BY <1>11, <1>12 DEF SharesInv, InfoSteps

LEMMA SharesStarted ==
  ASSUME PInv, NEW scope \in Scopes, StartAllocation(scope)
  PROVE  SharesInv'
<1>1. PICK p \in {"wallets", "groups"} :
        Start("allocation", p, [scope |-> scope, ex |-> NotAsked])
  BY DEF StartAllocation
<1>2. /\ req'.op = "allocation" /\ req'.pc = IF gone THEN "done" ELSE p
      /\ "ex" \in DOMAIN req' /\ req'.ex = NotAsked
  BY <1>1, Started DEF InfoSteps
<1>3. ExWeighed'
  BY <1>2, FS_EmptySet DEF ExWeighed, NotAsked
<1>4. gone => req'.answer.code = 401
  <2> SUFFICES ASSUME gone PROVE req'.answer.code = 401
    OBVIOUS
  <2>1. PICK f : f = [op |-> "allocation", pc |-> "done", answer |-> [code |-> 401]]
    OBVIOUS
  <2>2. PICK locals : locals = [scope |-> scope, ex |-> NotAsked]
    OBVIOUS
  <2>3. req' = With(f, locals)
    BY <1>1, <2>1, <2>2 DEF Start
  <2>4. "answer" \in DOMAIN f /\ f.answer.code = 401
    BY <2>1
  <2>5. PICK w : w = With(f, locals)
    OBVIOUS
  <2>6. w["answer"] = f["answer"]
    BY <2>4, <2>5 DEF With
  <2> QED BY <2>3, <2>4, <2>5, <2>6
<1>5. gone => Shared'
  BY <1>4 DEF Shared
<1> QED BY <1>2, <1>3, <1>5 DEF SharesInv, InfoSteps

LEMMA SharesAllocation ==
  ASSUME PInv, SharesInv, AllocationStep
  PROVE  SharesInv'
<1>1. Wf /\ PcInv
  BY DEF PInv
<1>2. CASE \E scope \in Scopes : StartAllocation(scope)
  BY <1>2, SharesStarted
<1>3. CASE AllocationGroups
  <2>1. ExWeighed
    BY <1>3 DEF AllocationGroups, At, SharesInv
  <2>2. CASE Then("wallets", NoLocals)
    <3>1. req'.pc = "wallets" /\ ExWeighed'
      BY <1>1, <2>1, <2>2, SkippedHas, PiecesKept
    <3> QED BY <3>1 DEF SharesInv, InfoSteps
  <2>3. CASE Then("done", [answer |-> [code |-> 404]])
    <3>1. req'.pc = "done" /\ req'.answer.code = 404
      BY <1>1, <2>3, PiecesKept
    <3> QED BY <3>1 DEF SharesInv, InfoSteps, Shared
  <2> QED BY <1>3, <2>2, <2>3 DEF AllocationGroups, Fail
<1>4. CASE AllocationWallets
  <2> DEFINE W == ScopeWallets(req.scope)
             locals == [wallets |-> W, rows |-> Keep(wallets, W)]
  <2>1. PICK p \in {"exchange", "latest"} : Then(p, locals)
    BY <1>4 DEF AllocationWallets, ReadWallets
  <2>2. DOMAIN locals = {"wallets", "rows"} /\ locals.wallets = W
    OBVIOUS
  <2>3. IsFiniteSet(W)
    <3>1. W \subseteq DOMAIN wallets
      BY DEF ScopeWallets, CanonicalWallets, ActiveOf
    <3> HIDE DEF W
    <3> QED BY <1>1, <3>1, FS_Subset DEF Wf, WellFormed, WalletRows
  <2>4. ExWeighed
    BY <1>4 DEF AllocationWallets, At, SharesInv
  <2> HIDE DEF W, locals
  <2>5. /\ req'.pc = p /\ ExWeighed'
        /\ "wallets" \in DOMAIN req' /\ req'.wallets = W
    BY <1>1, <2>1, <2>2, <2>4, PiecesKept
  <2>6. Scoped'
    BY <2>3, <2>5 DEF Scoped
  <2> QED BY <2>5, <2>6 DEF SharesInv, InfoSteps
<1>5. CASE AllocationExchange
  <2>1. PICK x \in Exchanges :
          Then("latest", [ex |-> [status |-> x.status, assets |-> x.assets,
                                  asOf |-> IF x.age = Null THEN Null ELSE now - x.age]])
    BY <1>5 DEF AllocationExchange, AskExchange
  <2>2. PICK ex : ex = [status |-> x.status, assets |-> x.assets,
                        asOf |-> IF x.age = Null THEN Null ELSE now - x.age]
    OBVIOUS
  <2>3. Then("latest", [ex |-> ex]) /\ ex.assets = x.assets
    BY <2>1, <2>2
  <2>4. Scoped
    BY <1>5 DEF AllocationExchange, At, SharesInv
  <2>5. req'.pc = "latest" /\ Scoped' /\ "ex" \in DOMAIN req' /\ req'.ex = ex
    BY <1>1, <2>3, <2>4, PiecesKept
  <2>6. ExWeighed'
    BY <2>3, <2>5, ExchangesAssumption DEF ExWeighed
  <2> QED BY <2>5, <2>6 DEF SharesInv, InfoSteps
<1>6. CASE AllocationBalances
  <2> DEFINE S == SnapsIn(Infos(req))
             locals == [balances |-> BalancesOf(S)]
  <2>1. Then("oldBalances", locals)
    BY <1>6 DEF AllocationBalances
  <2>2. DOMAIN locals = {"balances"} /\ locals.balances = BalancesOf(S)
    OBVIOUS
  <2>3. ExWeighed /\ Scoped /\ NewChosen /\ OldChosen /\ BooksRead
    BY <1>6 DEF AllocationBalances, At, SharesInv
  <2>4. IsFiniteSet(S)
    <3> DEFINE f == [w \in req.wallets |-> Infos(req)[w].snap]
    <3>1. IsFiniteSet({f[w] : w \in req.wallets})
      <4> HIDE DEF f
      <4> QED BY <2>3, ImageFinite DEF Scoped
    <3>2. S \subseteq {f[w] : w \in req.wallets}
      BY DEF SnapsIn, Infos
    <3> QED BY <3>1, <3>2, FS_Subset
  <2>5. Countable(BalancesOf(S))
    <3> HIDE DEF S
    <3> QED BY <1>1, <2>4, BalancesCountable
  <2> HIDE DEF S, locals
  <2>6. /\ req'.pc = "oldBalances" /\ ExWeighed' /\ Scoped' /\ NewChosen' /\ OldChosen'
        /\ BooksRead' /\ "balances" \in DOMAIN req' /\ req'.balances = BalancesOf(S)
    BY <1>1, <2>1, <2>2, <2>3, PiecesKept
  <2>7. BalancesRead'
    BY <2>5, <2>6 DEF BalancesRead
  <2> QED BY <2>6, <2>7 DEF SharesInv, InfoSteps
<1>7. CASE AllocationOld
  BY <1>7, SharesAnswered
<1> QED BY <1>2, <1>3, <1>4, <1>5, <1>6, <1>7 DEF AllocationStep

LEMMA SharesStart == PInit => SharesInv
<1> SUFFICES ASSUME PInit PROVE SharesInv
  OBVIOUS
<1>1. req = [op |-> "none", pc |-> "idle"]
  BY DEF PInit, Init0
<1>2. req.op = "none"
  BY <1>1
<1> QED BY <1>2 DEF SharesInv

LEMMA SharesNext == PInv /\ SharesInv /\ [PNext]_pVars => SharesInv'
<1> SUFFICES ASSUME PInv, SharesInv, [PNext]_pVars PROVE SharesInv'
  OBVIOUS
<1>1. CASE UNCHANGED req
  BY <1>1 DEF SharesInv, ExWeighed, Scoped, NewChosen, OldChosen, BooksRead, BalancesRead,
              Shared
<1>2. CASE Environment
  <2>1. UNCHANGED req
    BY <1>2, EnvironmentWf DEF PInv
  <2> QED BY <1>1, <2>1
<1>3. CASE UNCHANGED pVars
  BY <1>1, <1>3 DEF pVars
<1>4. CASE SummaryStep \/ DetailStep \/ HistoryStep \/ JobStep
  <2>1. req'.op # "allocation"
    BY <1>4, SummaryStepInv, DetailInv, HistoryInv, JobInv
  <2> QED BY <2>1 DEF SharesInv
<1>5. CASE Finish
  <2>1. req' = [op |-> "none", pc |-> "idle"]
    BY <1>5 DEF Finish
  <2>2. req'.op = "none"
    BY <2>1
  <2> QED BY <2>2 DEF SharesInv
<1> QED BY <1>2, <1>3, <1>4, <1>5, SharesInfo, SharesAllocation DEF PNext

(* The summary and the allocation agree on the total and on the quality of  *)
(* its prices, the selections share it out and an answer loses nothing to   *)
(* its remainder: for every database, every scope and exchange, and any     *)
(* number of wallets, groups and balances.                                  *)
THEOREM TotalsDoAgree == PSpec => []TotalsAgree
<1>1. PInit => PInv /\ SharesInv
  BY InitInv, SharesStart
<1>2. PInv /\ SharesInv /\ [PNext]_pVars => (PInv /\ SharesInv)'
  BY NextInv, SharesNext
<1>3. PInv /\ SharesInv => TotalsAgree
  <2> SUFFICES ASSUME PInv, SharesInv PROVE TotalsAgree
    OBVIOUS
  <2>1. CASE req.pc = "idle"
    BY <2>1, TotalsOfAll DEF PInv
  <2>2. CASE req.pc # "idle"
    <3>1. Done("allocation") => Shared
      BY DEF Done, At, SharesInv
    <3> QED BY <2>2, <3>1 DEF TotalsAgree, Shared, Done, At
  <2> QED BY <2>1, <2>2
<1> QED BY <1>1, <1>2, <1>3, PTL DEF PSpec

==============================================================================
