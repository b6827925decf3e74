---------------------------- MODULE SumTheorems ----------------------------
(***************************************************************************)
(* What SumFunctionOnSet of the community module Functions computes on a   *)
(* finite set: the sums the reconciliation of fiat wallets is made of.     *)
(*                                                                         *)
(* The community definition is recursive over the subsets of the set it    *)
(* adds up.  The facts below are proved without an induction theorem over  *)
(* predicates: a property that fails of some subset fails of a minimal     *)
(* one, and a minimal one is impossible.  Minimal subsets come from the    *)
(* well-foundedness of < on the numbers, read as a set of pairs.           *)
(***************************************************************************)
EXTENDS Functions, FiniteSetTheorems, WellFoundedInduction, TLAPS

-----------------------------------------------------------------------------
(* Least numbers and minimal subsets *)

Smaller == {pair \in Nat \X Nat : pair[1] < pair[2]}

\* < on the natural numbers, as a set of pairs, has no infinite descent.
LEMMA SmallerIsWellFounded == IsWellFoundedOn(Smaller, Nat)
    BY NatLessThanWellFounded DEF OpToRel, Smaller

\* A set of natural numbers that is not empty has a least element.
LEMMA SmallestNumber ==
    ASSUME NEW T \in SUBSET Nat, T # {}
    PROVE  \E n \in T : \A m \in T : n <= m
    <1>1. PICK n \in T : \A m \in T : ~(<<m, n>> \in Smaller)
        BY SmallerIsWellFounded, WFMin
    <1>2. \A m \in T : m < n => <<m, n>> \in Smaller
        BY DEF Smaller
    <1>3. \A m \in T : ~(m < n)
        BY <1>1, <1>2
    <1>4. n \in Nat /\ \A m \in T : m \in Nat
        OBVIOUS
    <1>5. \A m \in T : n <= m
        BY <1>3, <1>4
    <1> QED BY <1>5

\* Among some subsets of a finite set, one contains no other of them.
LEMMA MinimalSubset ==
    ASSUME NEW S, IsFiniteSet(S), NEW C \in SUBSET (SUBSET S), C # {}
    PROVE  \E c \in C : \A d \in C : d \subseteq c => d = c
    <1> DEFINE sizes == {Cardinality(c) : c \in C}
    <1>1. \A c \in C : IsFiniteSet(c) /\ Cardinality(c) \in Nat
        BY FS_Subset, FS_CardinalityType
    <1>2. sizes \in SUBSET Nat /\ sizes # {}
        BY <1>1
    <1> HIDE DEF sizes
    <1>3. PICK n \in sizes : \A m \in sizes : n <= m
        BY <1>2, SmallestNumber
    <1>4. PICK c \in C : Cardinality(c) = n
        BY <1>3 DEF sizes
    <1>5. ASSUME NEW d \in C, d \subseteq c, d # c
          PROVE  FALSE
        <2>1. n <= Cardinality(d)
            BY <1>3, <1>5 DEF sizes
        <2>2. IsFiniteSet(c) /\ Cardinality(c) \in Nat /\ Cardinality(d) \in Nat
            BY <1>1, <1>5
        <2>3. Cardinality(d) < Cardinality(c)
            BY <1>5, <2>2, FS_Subset
        <2> QED BY <1>4, <2>1, <2>2, <2>3
    <1> QED BY <1>5

-----------------------------------------------------------------------------
(* The recursion the community definition solves *)

\* The sum of f over s, from the sums g of the smaller sets.
OneMore(f, g, s) ==
    IF s = {} THEN 0
    ELSE f[CHOOSE x \in s : TRUE] + g[s \ {CHOOSE x \in s : TRUE}]

Solves(g, f, S) == g = [s \in SUBSET S |-> OneMore(f, g, s)]

Sums(f, S) == CHOOSE g : Solves(g, f, S)

\* SumFunctionOnSet looks its set up in the solution of that recursion.
LEMMA SumIsLookedUp ==
    ASSUME NEW f, NEW S
    PROVE  SumFunctionOnSet(f, S) = Sums(f, S)[S]
    BY DEF SumFunctionOnSet, FoldFunctionOnSet, MapThenFoldSet, Sums, Solves, OneMore

\* A solution over S and one over a subset of S agree where both are defined.
LEMMA SolutionsAgree ==
    ASSUME NEW f, NEW S, IsFiniteSet(S), NEW T \in SUBSET S,
           NEW g, Solves(g, f, S), NEW h, Solves(h, f, T)
    PROVE  \A s \in SUBSET T : g[s] = h[s]
    <1> DEFINE C == {s \in SUBSET T : g[s] # h[s]}
    <1> SUFFICES ASSUME C # {} PROVE FALSE
        OBVIOUS
    <1>1. IsFiniteSet(T) /\ C \in SUBSET (SUBSET T)
        BY FS_Subset
    <1> HIDE DEF C
    <1>2. PICK c \in C : \A d \in C : d \subseteq c => d = c
        BY <1>1, MinimalSubset
    <1> USE DEF C
    <1>3. g[c] = OneMore(f, g, c) /\ h[c] = OneMore(f, h, c)
        BY DEF Solves
    <1>4. c # {}
        BY <1>3 DEF OneMore
    <1>5. PICK x \in c : x = CHOOSE y \in c : TRUE
        BY <1>4
    <1>6. g[c \ {x}] = h[c \ {x}]
        BY <1>2, <1>5
    <1> QED BY <1>3, <1>4, <1>5, <1>6 DEF OneMore

\* The recursion has a solution over every finite set.
LEMMA SolutionExists ==
    ASSUME NEW f, NEW S, IsFiniteSet(S)
    PROVE  Solves(Sums(f, S), f, S)
    <1> DEFINE C == {s \in SUBSET S : ~Solves(Sums(f, s), f, s)}
    <1> SUFFICES ASSUME C # {} PROVE FALSE
        OBVIOUS
    <1>0. C \in SUBSET (SUBSET S)
        OBVIOUS
    <1> HIDE DEF C
    <1>1. PICK c \in C : \A d \in C : d \subseteq c => d = c
        BY <1>0, MinimalSubset
    <1> USE DEF C
    <1>2. \A d \in SUBSET c : d # c => Solves(Sums(f, d), f, d)
        BY <1>1
    <1> DEFINE below == [s \in SUBSET c |-> Sums(f, s)[s]]
               h == [s \in SUBSET c |-> IF s = c THEN OneMore(f, below, c) ELSE below[s]]
    <1>3. ASSUME NEW s \in SUBSET c, s # c
          PROVE  below[s] = OneMore(f, below, s)
        <2>1. Solves(Sums(f, s), f, s)
            BY <1>2, <1>3
        <2>2. below[s] = OneMore(f, Sums(f, s), s)
            BY <2>1 DEF Solves
        <2>3. CASE s = {}
            BY <2>2, <2>3 DEF OneMore
        <2>4. CASE s # {}
            <3>1. PICK x \in s : x = CHOOSE y \in s : TRUE
                BY <2>4
            <3>2. PICK d \in SUBSET s : d = s \ {x}
                OBVIOUS
            <3>3. d # c /\ d \in SUBSET c
                BY <3>1, <3>2
            <3>4. Solves(Sums(f, d), f, d)
                BY <1>2, <3>3
            <3>5. IsFiniteSet(s)
                BY FS_Subset
            <3>6. Sums(f, s)[d] = Sums(f, d)[d]
                BY <2>1, <3>4, <3>5, SolutionsAgree
            <3>7. below[d] = Sums(f, d)[d]
                BY <3>3
            <3> HIDE DEF below
            <3> QED BY <2>2, <2>4, <3>1, <3>2, <3>6, <3>7 DEF OneMore
        <2> QED BY <2>3, <2>4
    <1>4. \A s \in SUBSET c : OneMore(f, h, s) = OneMore(f, below, s)
        <2>1. \A s \in SUBSET c : s # c => h[s] = below[s]
            OBVIOUS
        <2>2. \A s \in SUBSET c : s # {} =>
                  /\ (CHOOSE x \in s : TRUE) \in s
                  /\ s \ {CHOOSE x \in s : TRUE} \in SUBSET c
                  /\ s \ {CHOOSE x \in s : TRUE} # c
            OBVIOUS
        <2> HIDE DEF h, below
        <2> QED BY <2>1, <2>2 DEF OneMore
    <1>5. \A s \in SUBSET c : h[s] = OneMore(f, h, s)
        BY <1>3, <1>4
    <1>6. Solves(h, f, c)
        <2>1. h = [s \in SUBSET c |-> h[s]]
            OBVIOUS
        <2> HIDE DEF h
        <2> QED BY <1>5, <2>1 DEF Solves
    <1>7. Solves(Sums(f, c), f, c)
        BY <1>6 DEF Sums
    <1> QED BY <1>7

-----------------------------------------------------------------------------
(* Sums *)

\* Nothing adds up to zero, and a sum is one element and the sum of the others.
LEMMA SumStep ==
    ASSUME NEW f, NEW S, IsFiniteSet(S)
    PROVE  /\ S = {} => SumFunctionOnSet(f, S) = 0
           /\ S # {} =>
                 \E x \in S : SumFunctionOnSet(f, S) = f[x] + SumFunctionOnSet(f, S \ {x})
    <1>1. Solves(Sums(f, S), f, S)
        BY SolutionExists
    <1>2. SumFunctionOnSet(f, S) = OneMore(f, Sums(f, S), S)
        BY <1>1, SumIsLookedUp DEF Solves
    <1>3. ASSUME S # {}
          PROVE  \E x \in S : SumFunctionOnSet(f, S) = f[x] + SumFunctionOnSet(f, S \ {x})
        <2>1. PICK x \in S : x = CHOOSE y \in S : TRUE
            BY <1>3
        <2>2. PICK T \in SUBSET S : T = S \ {x}
            OBVIOUS
        <2>3. IsFiniteSet(T)
            BY FS_Subset
        <2>4. Solves(Sums(f, T), f, T)
            BY <2>3, SolutionExists
        <2>5. Sums(f, S)[T] = Sums(f, T)[T]
            BY <1>1, <2>4, SolutionsAgree
        <2>6. SumFunctionOnSet(f, T) = Sums(f, T)[T]
            BY SumIsLookedUp
        <2> QED BY <1>2, <1>3, <2>1, <2>2, <2>5, <2>6 DEF OneMore
    <1> QED BY <1>2, <1>3 DEF OneMore

\* A sum of integers is an integer.
LEMMA SumIsInt ==
    ASSUME NEW f, NEW S, IsFiniteSet(S), \A x \in S : f[x] \in Int
    PROVE  SumFunctionOnSet(f, S) \in Int
    <1> DEFINE C == {s \in SUBSET S : SumFunctionOnSet(f, s) \notin Int}
    <1> SUFFICES ASSUME C # {} PROVE FALSE
        OBVIOUS
    <1>0. C \in SUBSET (SUBSET S)
        OBVIOUS
    <1> HIDE DEF C
    <1>1. PICK c \in C : \A d \in C : d \subseteq c => d = c
        BY <1>0, MinimalSubset
    <1> USE DEF C
    <1>2. IsFiniteSet(c)
        BY FS_Subset
    <1>3. c # {}
        BY <1>2, SumStep
    <1>4. PICK x \in c : SumFunctionOnSet(f, c) = f[x] + SumFunctionOnSet(f, c \ {x})
        BY <1>2, <1>3, SumStep
    <1>5. SumFunctionOnSet(f, c \ {x}) \in Int
        BY <1>1
    <1> QED BY <1>4, <1>5

\* Any element can be the one taken out of a sum.
LEMMA SumWithout ==
    ASSUME NEW f, NEW S, IsFiniteSet(S), \A x \in S : f[x] \in Int, NEW y \in S
    PROVE  SumFunctionOnSet(f, S) = f[y] + SumFunctionOnSet(f, S \ {y})
    <1> DEFINE Sum(s) == SumFunctionOnSet(f, s)
               C == {s \in SUBSET S : \E z \in s : Sum(s) # f[z] + Sum(s \ {z})}
    <1> SUFFICES ASSUME C # {} PROVE FALSE
        OBVIOUS
    <1>0. C \in SUBSET (SUBSET S)
        OBVIOUS
    <1> HIDE DEF C
    <1>1. PICK c \in C : \A d \in C : d \subseteq c => d = c
        BY <1>0, MinimalSubset
    <1> USE DEF C
    <1>2. PICK z \in c : Sum(c) # f[z] + Sum(c \ {z})
        OBVIOUS
    <1>3. \A s \in SUBSET S : IsFiniteSet(s) /\ Sum(s) \in Int
        BY FS_Subset, SumIsInt
    <1>4. PICK x \in c : Sum(c) = f[x] + Sum(c \ {x})
        BY <1>3, SumStep
    <1>5. x # z
        BY <1>2, <1>4
    <1>6. \A d \in SUBSET c : d # c => \A u \in d : Sum(d) = f[u] + Sum(d \ {u})
        BY <1>1
    <1>7. /\ Sum(c \ {x}) = f[z] + Sum((c \ {x}) \ {z})
          /\ Sum(c \ {z}) = f[x] + Sum((c \ {z}) \ {x})
        <2>1. c \ {x} # c /\ z \in c \ {x} /\ c \ {z} # c /\ x \in c \ {z}
            BY <1>5
        <2> HIDE DEF Sum
        <2> QED BY <1>6, <2>1
    <1>8. PICK rest \in SUBSET S : rest = (c \ {x}) \ {z} /\ rest = (c \ {z}) \ {x}
        OBVIOUS
    <1>9. f[x] \in Int /\ f[z] \in Int /\ Sum(rest) \in Int
        BY <1>3
    <1> HIDE DEF Sum, C
    <1>10. Sum(c \ {x}) = f[z] + Sum(rest) /\ Sum(c \ {z}) = f[x] + Sum(rest)
        BY <1>7, <1>8
    <1>11. f[x] + (f[z] + Sum(rest)) = f[z] + (f[x] + Sum(rest))
        BY <1>9
    <1> QED BY <1>2, <1>4, <1>10, <1>11

\* Zeros add up to zero.
LEMMA SumOfZeros ==
    ASSUME NEW f, NEW S, IsFiniteSet(S), \A x \in S : f[x] = 0
    PROVE  SumFunctionOnSet(f, S) = 0
    <1> DEFINE C == {s \in SUBSET S : SumFunctionOnSet(f, s) # 0}
    <1> SUFFICES ASSUME C # {} PROVE FALSE
        OBVIOUS
    <1>0. C \in SUBSET (SUBSET S)
        OBVIOUS
    <1> HIDE DEF C
    <1>1. PICK c \in C : \A d \in C : d \subseteq c => d = c
        BY <1>0, MinimalSubset
    <1> USE DEF C
    <1>2. IsFiniteSet(c)
        BY FS_Subset
    <1>3. c # {}
        BY <1>2, SumStep
    <1>4. PICK x \in c : SumFunctionOnSet(f, c) = f[x] + SumFunctionOnSet(f, c \ {x})
        BY <1>2, <1>3, SumStep
    <1>5. SumFunctionOnSet(f, c \ {x}) = 0
        BY <1>1
    <1> QED BY <1>4, <1>5

\* Functions that agree on a set have one sum over it.
LEMMA SumAgrees ==
    ASSUME NEW f, NEW g, NEW S, IsFiniteSet(S),
           \A x \in S : f[x] \in Int /\ g[x] = f[x]
    PROVE  SumFunctionOnSet(g, S) = SumFunctionOnSet(f, S)
    <1> DEFINE C == {s \in SUBSET S : SumFunctionOnSet(g, s) # SumFunctionOnSet(f, s)}
    <1> SUFFICES ASSUME C # {} PROVE FALSE
        OBVIOUS
    <1>0. C \in SUBSET (SUBSET S)
        OBVIOUS
    <1> HIDE DEF C
    <1>1. PICK c \in C : \A d \in C : d \subseteq c => d = c
        BY <1>0, MinimalSubset
    <1> USE DEF C
    <1>2. IsFiniteSet(c)
        BY FS_Subset
    <1>3. c # {}
        BY <1>2, SumStep
    <1>4. PICK x \in c : SumFunctionOnSet(f, c) = f[x] + SumFunctionOnSet(f, c \ {x})
        BY <1>2, <1>3, SumStep
    <1>5. SumFunctionOnSet(g, c) = g[x] + SumFunctionOnSet(g, c \ {x})
        BY <1>2, SumWithout
    <1>6. SumFunctionOnSet(g, c \ {x}) = SumFunctionOnSet(f, c \ {x})
        BY <1>1
    <1> QED BY <1>4, <1>5, <1>6

\* One more element adds its value to the sum.
LEMMA SumAdded ==
    ASSUME NEW f, NEW S, IsFiniteSet(S), NEW y, y \notin S,
           \A x \in S \cup {y} : f[x] \in Int
    PROVE  SumFunctionOnSet(f, S \cup {y}) = SumFunctionOnSet(f, S) + f[y]
    <1>1. IsFiniteSet(S \cup {y})
        BY FS_AddElement
    <1>2. SumFunctionOnSet(f, S \cup {y}) = f[y] + SumFunctionOnSet(f, (S \cup {y}) \ {y})
        <2>1. PICK T : T = S \cup {y}
            OBVIOUS
        <2>2. SumFunctionOnSet(f, T) = f[y] + SumFunctionOnSet(f, T \ {y})
            BY <1>1, <2>1, SumWithout
        <2> QED BY <2>1, <2>2
    <1>3. (S \cup {y}) \ {y} = S
        OBVIOUS
    <1>4. SumFunctionOnSet(f, S \cup {y}) = f[y] + SumFunctionOnSet(f, S)
        BY <1>2, <1>3, Zenon
    <1>5. SumFunctionOnSet(f, S) \in Int /\ f[y] \in Int
        BY SumIsInt
    <1> QED BY <1>4, <1>5

\* Changing the value of one element changes the sum by as much.
LEMMA SumChanged ==
    ASSUME NEW f, NEW g, NEW S, IsFiniteSet(S), NEW y \in S,
           \A x \in S : f[x] \in Int /\ g[x] \in Int,
           \A x \in S \ {y} : g[x] = f[x]
    PROVE  SumFunctionOnSet(g, S) = SumFunctionOnSet(f, S) + g[y] - f[y]
    <1>1. IsFiniteSet(S \ {y})
        BY FS_Subset
    <1>2. SumFunctionOnSet(g, S) = g[y] + SumFunctionOnSet(g, S \ {y})
        BY SumWithout
    <1>3. SumFunctionOnSet(f, S) = f[y] + SumFunctionOnSet(f, S \ {y})
        BY SumWithout
    <1>4. SumFunctionOnSet(g, S \ {y}) = SumFunctionOnSet(f, S \ {y})
        BY <1>1, SumAgrees
    <1>5. SumFunctionOnSet(f, S \ {y}) \in Int
        BY <1>1, SumIsInt
    <1> QED BY <1>2, <1>3, <1>4, <1>5

\* The differences of a sequence of totals that starts at zero add up to the
\* last total.
LEMMA SumTelescopes ==
    ASSUME NEW N \in Nat, NEW f, NEW total,
           \A n \in 1..N : f[n] \in Int,
           \A n \in 0..N : total[n] \in Int,
           total[0] = 0,
           \A n \in 1..N : total[n] = total[n - 1] + f[n]
    PROVE  SumFunctionOnSet(f, 1..N) = total[N]
    <1> DEFINE T == {n \in 0..N : SumFunctionOnSet(f, 1..n) # total[n]}
    <1> SUFFICES ASSUME T # {} PROVE FALSE
        OBVIOUS
    <1>1. T \in SUBSET Nat
        OBVIOUS
    <1>2. PICK n \in T : \A m \in T : n <= m
        BY <1>1, SmallestNumber
    <1>3. \A m \in 0..N : IsFiniteSet(1..m)
        BY FS_Interval
    <1>4. n # 0
        <2>1. 1..0 = {}
            OBVIOUS
        <2> QED BY <1>3, <2>1, SumStep
    <1>5. n \in 1..N /\ n - 1 \in 0..N /\ n - 1 < n
        BY <1>4
    <1>6. SumFunctionOnSet(f, 1..(n - 1)) = total[n - 1]
        BY <1>2, <1>5
    <1>7. 1..n = (1..(n - 1)) \cup {n} /\ n \notin 1..(n - 1)
        BY <1>5
    <1>8. SumFunctionOnSet(f, 1..n) = SumFunctionOnSet(f, 1..(n - 1)) + f[n]
        <2>1. IsFiniteSet(1..(n - 1))
            BY <1>3, <1>5
        <2>2. \A m \in (1..(n - 1)) \cup {n} : f[m] \in Int
            BY <1>5
        <2>3. PICK s : s = 1..(n - 1)
            OBVIOUS
        <2> HIDE DEF T
        <2>4. SumFunctionOnSet(f, s \cup {n}) = SumFunctionOnSet(f, s) + f[n]
            BY <1>7, <2>1, <2>2, <2>3, SumAdded
        <2> QED BY <1>7, <2>3, <2>4
    <1> QED BY <1>5, <1>6, <1>8

=============================================================================
