---------------------------- MODULE StoreProofs ----------------------------
(***************************************************************************)
(* Lemmas for the proofs of several modules: about sums over finite sets,  *)
(* and about the operators of Store.                                       *)
(*                                                                         *)
(* SumFunctionOnSet(f, S) of the community module Functions adds f[x] for  *)
(* all x in S; balances, values of coins and selections are such sums.  It *)
(* is defined by recursion over the subsets of S.  What it yields is       *)
(* proved here by least counterexamples: if a set of finite sets is not    *)
(* empty, one of them has the least cardinality.                           *)
(***************************************************************************)
EXTENDS Store, Functions, FiniteSetTheorems, WellFoundedInduction, TLAPS

\* A set of natural numbers that is not empty has a least element.
LEMMA LeastNat ==
  ASSUME NEW T, T \subseteq Nat, T # {}
  PROVE  \E x \in T : \A y \in T : x <= y
<1>1. IsWellFoundedOn(OpToRel(<, Nat), Nat)
  BY NatLessThanWellFounded
<1>2. PICK x \in T : \A y \in T : ~ (<<y, x>> \in OpToRel(<, Nat))
  BY <1>1, WFMin
<1>3. ASSUME NEW y \in T PROVE x <= y
  <2>1. x \in Nat /\ y \in Nat
    OBVIOUS
  <2>2. ~(<<y, x>> \in {r \in Nat \X Nat : r[1] < r[2]})
    BY <1>2 DEF OpToRel
  <2> QED BY <2>1, <2>2
<1> QED BY <1>3

\* A set of finite sets that is not empty has a member of least cardinality.
LEMMA LeastSet ==
  ASSUME NEW F, F # {}, \A T \in F : IsFiniteSet(T)
  PROVE  \E T \in F : \A R \in F : Cardinality(T) <= Cardinality(R)
<1> DEFINE C == {Cardinality(T) : T \in F}
<1>1. C \subseteq Nat /\ C # {}
  BY FS_CardinalityType
<1>2. PICK c \in C : \A d \in C : c <= d
  BY <1>1, LeastNat
<1> QED BY <1>2

\* What is left of a finite set without one element is smaller.
LEMMA SmallerWithout ==
  ASSUME NEW T, IsFiniteSet(T), NEW x \in T
  PROVE  /\ IsFiniteSet(T \ {x})
         /\ Cardinality(T) \in Nat /\ Cardinality(T \ {x}) \in Nat
         /\ Cardinality(T \ {x}) = Cardinality(T) - 1
         /\ Cardinality(T \ {x}) < Cardinality(T)
<1>1. IsFiniteSet(T \ {x}) /\ Cardinality(T \ {x}) = Cardinality(T) - 1
  BY FS_RemoveElement
<1>2. Cardinality(T) \in Nat /\ Cardinality(T \ {x}) \in Nat
  BY <1>1, FS_CardinalityType
<1> QED BY <1>1, <1>2

-----------------------------------------------------------------------------
(* The recursion. *)

Pick(T) == CHOOSE x \in T : TRUE

\* it is the table of the sums of f over the members of D, a set of sets.
IsTable(f, D, it) ==
  it = [T \in D |-> IF T = {} THEN 0 ELSE f[Pick(T)] + it[T \ {Pick(T)}]]

\* Two tables agree where their functions do.
LEMMA TablesAgree ==
  ASSUME NEW f, NEW g, NEW D, NEW E, NEW it, NEW jt,
         IsTable(f, D, it), IsTable(g, E, jt),
         NEW S, IsFiniteSet(S), SUBSET S \subseteq D, SUBSET S \subseteq E,
         \A x \in S : f[x] = g[x]
  PROVE  it[S] = jt[S]
<1> DEFINE Bad == {T \in SUBSET S : it[T] # jt[T]}
<1> SUFFICES ASSUME Bad # {} PROVE FALSE
  OBVIOUS
<1>1. \A T \in SUBSET S : IsFiniteSet(T)
  BY FS_Subset
<1>2. PICK T \in Bad : \A R \in Bad : Cardinality(T) <= Cardinality(R)
  BY <1>1, LeastSet
<1>3. T \subseteq S /\ T \in D /\ T \in E /\ it[T] # jt[T] /\ IsFiniteSet(T)
  BY <1>1
<1>4. it[T] = IF T = {} THEN 0 ELSE f[Pick(T)] + it[T \ {Pick(T)}]
  BY <1>3 DEF IsTable
<1>5. jt[T] = IF T = {} THEN 0 ELSE g[Pick(T)] + jt[T \ {Pick(T)}]
  BY <1>3 DEF IsTable
<1>6. T # {}
  BY <1>3, <1>4, <1>5
<1>7. Pick(T) \in T
  BY <1>6 DEF Pick
<1>8. T \ {Pick(T)} \notin Bad
  <2>1. /\ Cardinality(T) \in Nat /\ Cardinality(T \ {Pick(T)}) \in Nat
        /\ Cardinality(T \ {Pick(T)}) < Cardinality(T)
    BY <1>3, <1>7, SmallerWithout
  <2>2. ~(Cardinality(T) <= Cardinality(T \ {Pick(T)}))
    BY <2>1
  <2> HIDE DEF Bad
  <2> QED BY <1>2, <2>2
<1>9. it[T \ {Pick(T)}] = jt[T \ {Pick(T)}] /\ f[Pick(T)] = g[Pick(T)]
  BY <1>3, <1>7, <1>8
<1> QED BY <1>3, <1>4, <1>5, <1>6, <1>9

\* For a finite set there is a table.
LEMMA TableExists ==
  ASSUME NEW f, NEW S, IsFiniteSet(S)
  PROVE  \E it : IsTable(f, SUBSET S, it)
<1> DEFINE Small(k) == {T \in SUBSET S : Cardinality(T) <= k}
           Bad == {k \in Nat : ~\E it : IsTable(f, Small(k), it)}
<1>1. \A T \in SUBSET S : IsFiniteSet(T) /\ Cardinality(T) \in Nat
  BY FS_Subset, FS_CardinalityType
<1>2. Bad = {}
  <2> SUFFICES ASSUME Bad # {} PROVE FALSE
    OBVIOUS
  <2>1. PICK k \in Bad : \A j \in Bad : k <= j
    BY LeastNat
  <2>2. CASE k = 0
    <3>1. \A T \in Small(0) : T = {}
      BY <1>1, FS_EmptySet
    <3> DEFINE it == [T \in Small(0) |-> 0]
    <3>2. IsTable(f, Small(0), it)
      BY <3>1 DEF IsTable
    <3> QED BY <2>1, <2>2, <3>2
  <2>3. CASE k # 0
    <3>1. k \in Nat /\ k - 1 \in Nat /\ k - 1 \notin Bad
      <4>1. k \in Nat
        OBVIOUS
      <4>2. k - 1 \in Nat /\ ~(k <= k - 1)
        BY <2>3, <4>1
      <4> HIDE DEF Bad
      <4> QED BY <2>1, <4>1, <4>2
    <3>2. PICK it : IsTable(f, Small(k - 1), it)
      BY <3>1
    <3> DEFINE jt == [T \in Small(k) |-> IF T = {} THEN 0
                                         ELSE f[Pick(T)] + it[T \ {Pick(T)}]]
    <3>3. \A T \in Small(k - 1) : T \in Small(k) /\ jt[T] = it[T]
      <4> TAKE T \in Small(k - 1)
      <4>1. T \in Small(k)
        BY <1>1, <3>1
      <4>2. it[T] = IF T = {} THEN 0 ELSE f[Pick(T)] + it[T \ {Pick(T)}]
        BY <3>2 DEF IsTable
      <4> QED BY <4>1, <4>2
    <3>4. ASSUME NEW T \in Small(k), T # {} PROVE T \ {Pick(T)} \in Small(k - 1)
      <4>1. Pick(T) \in T
        BY <3>4 DEF Pick
      <4> QED BY <1>1, <3>1, <4>1, SmallerWithout
    <3>5. jt = [T \in Small(k) |-> IF T = {} THEN 0
                                   ELSE f[Pick(T)] + jt[T \ {Pick(T)}]]
      BY <3>3, <3>4
    <3> HIDE DEF jt
    <3>6. IsTable(f, Small(k), jt)
      BY <3>5 DEF IsTable
    <3> QED BY <2>1, <3>6
  <2> QED BY <2>2, <2>3
<1>3. Cardinality(S) \in Nat /\ Small(Cardinality(S)) = SUBSET S
  <2>1. \A T \in SUBSET S : Cardinality(T) <= Cardinality(S)
    BY FS_Subset
  <2> QED BY <1>1, <2>1
<1>4. Cardinality(S) \notin Bad
  BY <1>2
<1> QED BY <1>3, <1>4

\* The sum is an entry of a table.
LEMMA SumIsEntry ==
  ASSUME NEW f, NEW S, IsFiniteSet(S)
  PROVE  \E it : IsTable(f, SUBSET S, it) /\ SumFunctionOnSet(f, S) = it[S]
<1>1. \E it : IsTable(f, SUBSET S, it)
  BY TableExists
<1> DEFINE it == CHOOSE jt : IsTable(f, SUBSET S, jt)
<1>2. IsTable(f, SUBSET S, it)
  BY <1>1
<1>3. SumFunctionOnSet(f, S) = it[S]
  BY DEF SumFunctionOnSet, FoldFunctionOnSet, MapThenFoldSet, IsTable, Pick
<1> QED BY <1>2, <1>3

-----------------------------------------------------------------------------
(* Laws of sums. *)

\* The sum over no elements.
LEMMA SumEmpty == ASSUME NEW f PROVE SumFunctionOnSet(f, {}) = 0
<1>1. PICK it : IsTable(f, SUBSET {}, it) /\ SumFunctionOnSet(f, {}) = it[{}]
  BY SumIsEntry, FS_EmptySet
<1> QED BY <1>1 DEF IsTable

\* A sum depends on the values at the elements of the set, and on nothing else.
LEMMA SumSame ==
  ASSUME NEW f, NEW g, NEW S, IsFiniteSet(S), \A x \in S : f[x] = g[x]
  PROVE  SumFunctionOnSet(f, S) = SumFunctionOnSet(g, S)
<1>1. PICK it : IsTable(f, SUBSET S, it) /\ SumFunctionOnSet(f, S) = it[S]
  BY SumIsEntry
<1>2. PICK jt : IsTable(g, SUBSET S, jt) /\ SumFunctionOnSet(g, S) = jt[S]
  BY SumIsEntry
<1> QED BY <1>1, <1>2, TablesAgree

\* One step of the recursion.
LEMMA SumPick ==
  ASSUME NEW f, NEW S, IsFiniteSet(S), S # {}
  PROVE  /\ Pick(S) \in S
         /\ SumFunctionOnSet(f, S) = f[Pick(S)] + SumFunctionOnSet(f, S \ {Pick(S)})
<1> DEFINE R == S \ {Pick(S)}
<1>1. Pick(S) \in S
  BY DEF Pick
<1>2. IsFiniteSet(R)
  BY FS_Subset
<1>3. PICK it : IsTable(f, SUBSET S, it) /\ SumFunctionOnSet(f, S) = it[S]
  BY SumIsEntry
<1>4. PICK jt : IsTable(f, SUBSET R, jt) /\ SumFunctionOnSet(f, R) = jt[R]
  BY <1>2, SumIsEntry
<1>5. it[R] = jt[R]
  BY <1>2, <1>3, <1>4, TablesAgree
<1>6. it[S] = f[Pick(S)] + it[R]
  BY <1>3 DEF IsTable
<1> QED BY <1>1, <1>3, <1>4, <1>5, <1>6

\* A sum of integers is an integer.
LEMMA SumTyped ==
  ASSUME NEW f, NEW S, IsFiniteSet(S), \A x \in S : f[x] \in Int
  PROVE  SumFunctionOnSet(f, S) \in Int
<1> DEFINE Bad == {T \in SUBSET S : SumFunctionOnSet(f, T) \notin Int}
<1> SUFFICES ASSUME Bad # {} PROVE FALSE
  OBVIOUS
<1>1. \A T \in SUBSET S : IsFiniteSet(T)
  BY FS_Subset
<1>2. PICK T \in Bad : \A R \in Bad : Cardinality(T) <= Cardinality(R)
  BY <1>1, LeastSet
<1>3. IsFiniteSet(T) /\ T \subseteq S /\ SumFunctionOnSet(f, T) \notin Int
  BY <1>1
<1>4. T # {}
  BY <1>3, SumEmpty
<1>5. /\ Pick(T) \in T
      /\ SumFunctionOnSet(f, T) = f[Pick(T)] + SumFunctionOnSet(f, T \ {Pick(T)})
  BY <1>3, <1>4, SumPick
<1>6. T \ {Pick(T)} \notin Bad
  <2>1. ~(Cardinality(T) <= Cardinality(T \ {Pick(T)}))
    BY <1>3, <1>5, SmallerWithout
  <2> HIDE DEF Bad
  <2> QED BY <1>2, <2>1
<1>7. SumFunctionOnSet(f, T \ {Pick(T)}) \in Int
  BY <1>3, <1>6
<1> QED BY <1>3, <1>5, <1>7

\* A sum is its part without one element and the value at that element,
\* whichever element is taken.
LEMMA SumRemove ==
  ASSUME NEW f, NEW S, IsFiniteSet(S), \A x \in S : f[x] \in Int, NEW e \in S
  PROVE  SumFunctionOnSet(f, S) = f[e] + SumFunctionOnSet(f, S \ {e})
<1> DEFINE Wrong(T, y) == SumFunctionOnSet(f, T) # f[y] + SumFunctionOnSet(f, T \ {y})
           Bad == {T \in SUBSET S : \E y \in T : Wrong(T, y)}
<1> SUFFICES ASSUME Bad # {} PROVE FALSE
  OBVIOUS
<1>1. \A T \in SUBSET S : IsFiniteSet(T)
  BY FS_Subset
<1>2. PICK T \in Bad : \A R \in Bad : Cardinality(T) <= Cardinality(R)
  BY <1>1, LeastSet
<1>3. PICK y \in T : Wrong(T, y)
  OBVIOUS
<1> DEFINE x == Pick(T)
<1>4. IsFiniteSet(T) /\ T \subseteq S /\ T # {}
  BY <1>1
<1>5. x \in T /\ SumFunctionOnSet(f, T) = f[x] + SumFunctionOnSet(f, T \ {x})
  BY <1>4, SumPick
<1> HIDE DEF x
<1>6. x # y
  BY <1>3, <1>5
<1>7. ASSUME NEW z \in T, NEW u \in T, u # z
      PROVE  SumFunctionOnSet(f, T \ {z}) = f[u] + SumFunctionOnSet(f, T \ {z, u})
  <2>1. ~(Cardinality(T) <= Cardinality(T \ {z}))
    BY <1>4, SmallerWithout
  <2>2. T \ {z} \notin Bad
    <3> HIDE DEF Bad
    <3> QED BY <1>2, <2>1
  <2>3. T \ {z} \subseteq S /\ u \in T \ {z} /\ (T \ {z}) \ {u} = T \ {z, u}
    BY <1>4, <1>7
  <2> QED BY <2>2, <2>3
<1>8. SumFunctionOnSet(f, T \ {x}) = f[y] + SumFunctionOnSet(f, T \ {x, y})
  BY <1>5, <1>6, <1>7
<1>9. SumFunctionOnSet(f, T \ {y}) = f[x] + SumFunctionOnSet(f, T \ {x, y})
  <2>1. T \ {y, x} = T \ {x, y}
    OBVIOUS
  <2> QED BY <1>5, <1>6, <1>7, <2>1
<1>10. /\ SumFunctionOnSet(f, T \ {x, y}) \in Int
       /\ f[x] \in Int /\ f[y] \in Int
  <2>1. T \ {x, y} \subseteq S
    BY <1>4
  <2> QED BY <1>1, <1>4, <1>5, <2>1, SumTyped
<1> QED BY <1>3, <1>5, <1>8, <1>9, <1>10

\* The same, read from the smaller set.
LEMMA SumAdd ==
  ASSUME NEW f, NEW S, IsFiniteSet(S), \A x \in S : f[x] \in Int,
         NEW e, e \notin S, f[e] \in Int
  PROVE  SumFunctionOnSet(f, S \cup {e}) = SumFunctionOnSet(f, S) + f[e]
<1>1. IsFiniteSet(S \cup {e}) /\ (S \cup {e}) \ {e} = S
  BY FS_AddElement
<1>2. SumFunctionOnSet(f, S \cup {e}) = f[e] + SumFunctionOnSet(f, S)
  BY <1>1, SumRemove
<1>3. SumFunctionOnSet(f, S) \in Int
  BY SumTyped
<1> QED BY <1>2, <1>3

\* A sum of zeros is zero.
LEMMA SumOfZeros ==
  ASSUME NEW f, NEW S, IsFiniteSet(S), \A x \in S : f[x] = 0
  PROVE  SumFunctionOnSet(f, S) = 0
<1> DEFINE Bad == {T \in SUBSET S : SumFunctionOnSet(f, T) # 0}
<1> SUFFICES ASSUME Bad # {} PROVE FALSE
  OBVIOUS
<1>1. \A T \in SUBSET S : IsFiniteSet(T)
  BY FS_Subset
<1>2. PICK T \in Bad : \A R \in Bad : Cardinality(T) <= Cardinality(R)
  BY <1>1, LeastSet
<1>3. IsFiniteSet(T) /\ T \subseteq S /\ SumFunctionOnSet(f, T) # 0
  BY <1>1
<1>4. T # {}
  BY <1>3, SumEmpty
<1>5. /\ Pick(T) \in T
      /\ SumFunctionOnSet(f, T) = f[Pick(T)] + SumFunctionOnSet(f, T \ {Pick(T)})
  BY <1>3, <1>4, SumPick
<1>6. T \ {Pick(T)} \notin Bad
  <2>1. ~(Cardinality(T) <= Cardinality(T \ {Pick(T)}))
    BY <1>3, <1>5, SmallerWithout
  <2> HIDE DEF Bad
  <2> QED BY <1>2, <2>1
<1>7. SumFunctionOnSet(f, T \ {Pick(T)}) = 0
  BY <1>3, <1>6
<1> QED BY <1>3, <1>5, <1>7

\* The sum over one element.
LEMMA SumSingle ==
  ASSUME NEW f, NEW e, f[e] \in Int
  PROVE  SumFunctionOnSet(f, {e}) = f[e]
<1>1. SumFunctionOnSet(f, {} \cup {e}) = SumFunctionOnSet(f, {}) + f[e]
  BY FS_EmptySet, SumAdd
<1> QED BY <1>1, SumEmpty

\* The sums over a part and over the rest make up the sum.
LEMMA SumSplit ==
  ASSUME NEW f, NEW S, IsFiniteSet(S), \A x \in S : f[x] \in Int,
         NEW R, R \subseteq S
  PROVE  SumFunctionOnSet(f, S) = SumFunctionOnSet(f, R) + SumFunctionOnSet(f, S \ R)
<1> DEFINE Good(T) ==
             SumFunctionOnSet(f, S) = SumFunctionOnSet(f, T) + SumFunctionOnSet(f, S \ T)
           Bad == {T \in SUBSET S : ~Good(T)}
<1> SUFFICES ASSUME Bad # {} PROVE FALSE
  OBVIOUS
<1>1. \A T \in SUBSET S : IsFiniteSet(T) /\ IsFiniteSet(S \ T)
  BY FS_Subset
<1>2. PICK T \in Bad : \A Q \in Bad : Cardinality(T) <= Cardinality(Q)
  BY <1>1, LeastSet
<1>3. IsFiniteSet(T) /\ T \subseteq S /\ ~Good(T)
  BY <1>1
<1>4. T # {}
  <2>1. S \ {} = S /\ SumFunctionOnSet(f, S) \in Int
    BY SumTyped
  <2>2. Good({})
    BY <2>1, SumEmpty
  <2> QED BY <1>3, <2>2
<1>5. PICK e : e \in T
  BY <1>4
<1> DEFINE Q == T \ {e}
<1>6. Good(Q)
  <2>1. ~(Cardinality(T) <= Cardinality(Q))
    BY <1>3, <1>5, SmallerWithout
  <2>2. Q \notin Bad
    <3> HIDE DEF Bad, Q
    <3> QED BY <1>2, <2>1
  <2> QED BY <1>3, <2>2
<1>7. SumFunctionOnSet(f, T) = f[e] + SumFunctionOnSet(f, Q)
  BY <1>3, <1>5, SumRemove
<1>8. SumFunctionOnSet(f, S \ Q) = f[e] + SumFunctionOnSet(f, S \ T)
  <2>1. (S \ Q) \ {e} = S \ T /\ e \in S \ Q /\ IsFiniteSet(S \ Q)
    BY <1>1, <1>3, <1>5
  <2> HIDE DEF Q
  <2> QED BY <2>1, SumRemove
<1>9. /\ SumFunctionOnSet(f, Q) \in Int /\ SumFunctionOnSet(f, S \ T) \in Int
      /\ f[e] \in Int
  BY <1>1, <1>3, <1>5, SumTyped
<1> QED BY <1>3, <1>6, <1>7, <1>8, <1>9

\* A larger function has a larger sum.
LEMMA SumMonotone ==
  ASSUME NEW f, NEW g, NEW S, IsFiniteSet(S),
         \A x \in S : f[x] \in Int /\ g[x] \in Int /\ f[x] <= g[x]
  PROVE  SumFunctionOnSet(f, S) <= SumFunctionOnSet(g, S)
<1> DEFINE Good(T) == SumFunctionOnSet(f, T) <= SumFunctionOnSet(g, T)
           Bad == {T \in SUBSET S : ~Good(T)}
<1> SUFFICES ASSUME Bad # {} PROVE FALSE
  OBVIOUS
<1>1. \A T \in SUBSET S : IsFiniteSet(T)
  BY FS_Subset
<1>2. PICK T \in Bad : \A Q \in Bad : Cardinality(T) <= Cardinality(Q)
  BY <1>1, LeastSet
<1>3. IsFiniteSet(T) /\ T \subseteq S /\ ~Good(T)
  BY <1>1
<1>4. T # {}
  BY <1>3, SumEmpty
<1>5. PICK e : e \in T
  BY <1>4
<1>6. Good(T \ {e})
  <2>1. ~(Cardinality(T) <= Cardinality(T \ {e}))
    BY <1>3, <1>5, SmallerWithout
  <2>2. T \ {e} \notin Bad
    <3> HIDE DEF Bad
    <3> QED BY <1>2, <2>1
  <2> QED BY <1>3, <2>2
<1>7. /\ SumFunctionOnSet(f, T) = f[e] + SumFunctionOnSet(f, T \ {e})
      /\ SumFunctionOnSet(g, T) = g[e] + SumFunctionOnSet(g, T \ {e})
  BY <1>3, <1>5, SumRemove
<1>8. /\ SumFunctionOnSet(f, T \ {e}) \in Int /\ SumFunctionOnSet(g, T \ {e}) \in Int
      /\ f[e] \in Int /\ g[e] \in Int /\ f[e] <= g[e]
  BY <1>1, <1>3, <1>5, SumTyped
<1> QED BY <1>3, <1>6, <1>7, <1>8

\* Where nothing is negative, neither is a sum, and the sum over a part is not
\* larger than the whole.
LEMMA SumOfPart ==
  ASSUME NEW f, NEW S, IsFiniteSet(S), \A x \in S : f[x] \in Int /\ f[x] >= 0,
         NEW R, R \subseteq S
  PROVE  /\ 0 <= SumFunctionOnSet(f, R)
         /\ SumFunctionOnSet(f, R) <= SumFunctionOnSet(f, S)
<1> DEFINE zero == [x \in S |-> 0]
<1>1. ASSUME NEW T \in SUBSET S
      PROVE  /\ SumFunctionOnSet(f, T) \in Int
             /\ SumFunctionOnSet(f, T) >= 0
  <2>1. IsFiniteSet(T)
    BY FS_Subset
  <2>2. SumFunctionOnSet(f, T) \in Int
    BY <2>1, SumTyped
  <2> DEFINE Bad == {Q \in SUBSET T : ~(SumFunctionOnSet(f, Q) >= 0)}
  <2> SUFFICES ASSUME Bad # {} PROVE FALSE
    BY <2>2
  <2>3. \A Q \in SUBSET T : IsFiniteSet(Q)
    BY <2>1, FS_Subset
  <2>4. PICK Q \in Bad : \A P \in Bad : Cardinality(Q) <= Cardinality(P)
    BY <2>3, LeastSet
  <2>5. IsFiniteSet(Q) /\ Q \subseteq T /\ ~(SumFunctionOnSet(f, Q) >= 0)
    BY <2>3
  <2>6. PICK e : e \in Q
    BY <2>5, SumEmpty
  <2>7. SumFunctionOnSet(f, Q \ {e}) >= 0
    <3>1. ~(Cardinality(Q) <= Cardinality(Q \ {e}))
      BY <2>5, <2>6, SmallerWithout
    <3>2. Q \ {e} \notin Bad
      <4> HIDE DEF Bad
      <4> QED BY <2>4, <3>1
    <3> QED BY <2>5, <3>2
  <2>8. SumFunctionOnSet(f, Q) = f[e] + SumFunctionOnSet(f, Q \ {e})
    BY <2>5, <2>6, SumRemove
  <2>9. SumFunctionOnSet(f, Q \ {e}) \in Int /\ f[e] \in Int /\ f[e] >= 0
    BY <2>3, <2>5, <2>6, SumTyped
  <2> QED BY <2>5, <2>7, <2>8, <2>9
<1>2. SumFunctionOnSet(f, S) = SumFunctionOnSet(f, R) + SumFunctionOnSet(f, S \ R)
  BY SumSplit
<1> QED BY <1>1, <1>2

\* A sum over the images of the elements, when no two have the same image.
LEMMA SumOfImages ==
  ASSUME NEW f, NEW g, NEW h, NEW S, IsFiniteSet(S),
         \A x \in S : g[x] \in Int /\ g[x] = f[h[x]],
         \A x, y \in S : h[x] = h[y] => x = y
  PROVE  SumFunctionOnSet(g, S) = SumFunctionOnSet(f, {h[x] : x \in S})
<1> DEFINE Img(T) == {h[x] : x \in T}
           Good(T) == SumFunctionOnSet(g, T) = SumFunctionOnSet(f, Img(T))
           Bad == {T \in SUBSET S : ~Good(T)}
<1> SUFFICES ASSUME Bad # {} PROVE FALSE
  OBVIOUS
<1>1. \A T \in SUBSET S : IsFiniteSet(T)
  BY FS_Subset
<1>2. PICK T \in Bad : \A Q \in Bad : Cardinality(T) <= Cardinality(Q)
  BY <1>1, LeastSet
<1>3. IsFiniteSet(T) /\ T \subseteq S /\ ~Good(T)
  BY <1>1
<1>4. PICK e : e \in T
  <2>1. Img({}) = {}
    OBVIOUS
  <2> QED BY <1>3, <2>1, SumEmpty
<1>5. Good(T \ {e})
  <2>1. ~(Cardinality(T) <= Cardinality(T \ {e}))
    BY <1>3, <1>4, SmallerWithout
  <2>2. T \ {e} \notin Bad
    <3> HIDE DEF Bad
    <3> QED BY <1>2, <2>1
  <2> QED BY <1>3, <2>2
<1>6. SumFunctionOnSet(g, T) = g[e] + SumFunctionOnSet(g, T \ {e})
  BY <1>3, <1>4, SumRemove
<1>7. IsFiniteSet(Img(T)) /\ h[e] \in Img(T) /\ Img(T) \ {h[e]} = Img(T \ {e})
  <2>1. IsFiniteSet(Img(T))
    <3> DEFINE im == [x \in T |-> h[x]]
    <3>1. im \in Surjection(T, Img(T))
      BY DEF Surjection
    <3> HIDE DEF im, Img
    <3> QED BY <1>3, <3>1, FS_Surjection
  <2>2. h[e] \in Img(T)
    BY <1>4
  <2>3. ASSUME NEW x \in T, h[x] = h[e] PROVE x = e
    BY <1>3, <1>4, <2>3
  <2> QED BY <1>4, <2>1, <2>2, <2>3
<1>8. \A y \in Img(T) : f[y] \in Int
  BY <1>3
<1>9. SumFunctionOnSet(f, Img(T)) = f[h[e]] + SumFunctionOnSet(f, Img(T \ {e}))
  <2> HIDE DEF Img
  <2>1. SumFunctionOnSet(f, Img(T)) = f[h[e]] + SumFunctionOnSet(f, Img(T) \ {h[e]})
    BY <1>7, <1>8, SumRemove
  <2> QED BY <1>7, <2>1
<1> QED BY <1>3, <1>4, <1>5, <1>6, <1>9

-----------------------------------------------------------------------------
(* The operators of Store. *)

\* saveUTXO keeps the bucket well formed, adds its own outpoint and removes
\* none.
LEMMA SaveUtxoKeeps ==
  ASSUME StoreTypeOK, NEW u \in UtxoRecords, SaveUtxo(u)
  PROVE  /\ DOMAIN dbUtxos' = DOMAIN dbUtxos \cup {Outpoint(u)}
         /\ IsFiniteSet(DOMAIN dbUtxos')
         /\ DOMAIN dbUtxos' \subseteq Outpoints
         /\ dbUtxos' \in [DOMAIN dbUtxos' -> UtxoRecords]
         /\ \A o \in DOMAIN dbUtxos' : Outpoint(dbUtxos'[o]) = o
<1>1. DOMAIN dbUtxos' = DOMAIN dbUtxos \cup {Outpoint(u)}
  BY DEF SaveUtxo
<1>2. IsFiniteSet(DOMAIN dbUtxos')
  BY <1>1, FS_AddElement DEF StoreTypeOK
<1>3. Outpoint(u) \in Outpoints
  BY DEF Outpoint, Outpoints, UtxoRecords
<1>4. dbUtxos' \in [DOMAIN dbUtxos' -> UtxoRecords]
  BY <1>1 DEF SaveUtxo, StoreTypeOK
<1>5. ASSUME NEW o \in DOMAIN dbUtxos' PROVE Outpoint(dbUtxos'[o]) = o
  BY <1>1 DEF SaveUtxo, StoreTypeOK
<1> QED BY <1>1, <1>2, <1>3, <1>4, <1>5 DEF StoreTypeOK

\* LoadWallet lists records of the database and nothing else.
LEMMA LoadWalletLists ==
  ASSUME StoreTypeOK, LoadWallet
  PROVE  /\ memUtxos' \in Seq(UtxoRecords)
         /\ \A i \in DOMAIN memUtxos' : memUtxos'[i] \in Range(dbUtxos)
         /\ memBalance' = dbBalance /\ memScanned' = dbScanned
<1> DEFINE n == Cardinality(DOMAIN dbUtxos)
<1>1. n \in Nat
  BY FS_CardinalityType DEF StoreTypeOK
<1>2. memUtxos' \in [1 .. n -> Range(dbUtxos)]
  BY DEF LoadWallet, CursorOrders, Bijection, Injection
<1>3. Range(dbUtxos) \subseteq UtxoRecords
  BY DEF StoreTypeOK, Range
<1> QED BY <1>1, <1>2, <1>3 DEF LoadWallet

\* What LoadWallet lists is saved.
LEMMA LoadWalletSaved ==
  ASSUME StoreTypeOK, LoadWallet
  PROVE  \A i \in DOMAIN memUtxos' : Outpoint(memUtxos'[i]) \in DOMAIN dbUtxos
<1>1. ASSUME NEW u \in Range(dbUtxos) PROVE Outpoint(u) \in DOMAIN dbUtxos
  BY DEF StoreTypeOK, Range
<1> QED BY <1>1, LoadWalletLists

\* The value of the unspent coins is a number, and a new coin adds its own.
LEMMA UnspentOfAppend ==
  ASSUME NEW s \in Seq(UtxoRecords), NEW u \in UtxoRecords, ~u.spent
  PROVE  /\ UnspentValue(s) \in Int
         /\ UnspentValue(Append(s, u)) = UnspentValue(s) + u.value
<1> DEFINE n == Len(s)
           t == Append(s, u)
           S == {j \in DOMAIN s : ~s[j].spent}
           T == {j \in DOMAIN t : ~t[j].spent}
           f == [i \in S |-> s[i].value]
           g == [i \in T |-> t[i].value]
<1>1. /\ n \in Nat /\ DOMAIN s = 1 .. n /\ DOMAIN t = (1 .. n) \cup {n + 1}
      /\ t[n + 1] = u /\ \A j \in 1 .. n : t[j] = s[j] /\ s[j] \in UtxoRecords
  OBVIOUS
<1>2. T = S \cup {n + 1} /\ n + 1 \notin S
  BY <1>1
<1>3. IsFiniteSet(S)
  <2>1. S \in SUBSET (1 .. n)
    BY <1>1
  <2>2. IsFiniteSet(1 .. n)
    BY <1>1, FS_Interval
  <2> QED BY <2>1, <2>2, FS_Subset
<1>4. \A j \in S : f[j] \in Int /\ g[j] = f[j]
  BY <1>1, <1>2 DEF UtxoRecords
<1>5. g[n + 1] = u.value /\ u.value \in Int
  BY <1>1, <1>2 DEF UtxoRecords
<1>6. UnspentValue(s) = SumFunctionOnSet(f, S) /\ UnspentValue(t) = SumFunctionOnSet(g, T)
  BY DEF UnspentValue, SumFunction
<1> HIDE DEF f, g, S, T, n, t
<1>7. SumFunctionOnSet(f, S) \in Int
  BY <1>3, <1>4, SumTyped
<1>8. SumFunctionOnSet(g, S) = SumFunctionOnSet(f, S)
  BY <1>3, <1>4, SumSame
<1>9. SumFunctionOnSet(g, T) = SumFunctionOnSet(g, S) + g[n + 1]
  BY <1>2, <1>3, <1>4, <1>5, SumAdd
<1> QED BY <1>5, <1>6, <1>7, <1>8, <1>9 DEF t

\* The value of the unspent coins of any list is a number.
LEMMA UnspentTyped ==
  ASSUME NEW s \in Seq(UtxoRecords)
  PROVE  UnspentValue(s) \in Int
<1>1. [txid |-> 0, vout |-> 0, value |-> 0, spent |-> FALSE] \in UtxoRecords
  BY DEF UtxoRecords
<1> QED BY <1>1, UnspentOfAppend
=============================================================================
