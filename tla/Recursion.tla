------------------------------- MODULE Recursion -------------------------------
(* What a recursive function computes.  The recursion of the models goes    *)
(* from an argument to one other of a smaller rank, so it can be written as *)
(* tables: the rank of each argument, the next argument, and what is made   *)
(* of the value there.  Then induction is a fact about a set of numbers.    *)
EXTENDS Integers, WellFoundedInduction, TLAPS

Less == {ss \in Nat \X Nat : ss[1] < ss[2]}

LEMMA LessWellFounded == IsWellFoundedOn(Less, Nat)
    BY NatLessThanWellFounded DEF OpToRel, Less

(* Induction over the natural numbers, for a set.                           *)
LEMMA SetInduction ==
    ASSUME NEW T, 0 \in T, \A n \in Nat : n \in T => n + 1 \in T
    PROVE  Nat \subseteq T
<1> DEFINE Bad == Nat \ T
<1> SUFFICES ASSUME Bad # {} PROVE FALSE
    OBVIOUS
<1>1. PICK x \in Bad : \A y \in Bad : <<y, x>> \notin Less
    <2>1. Bad \subseteq Nat
        OBVIOUS
    <2> HIDE DEF Bad
    <2> QED
        BY <2>1, LessWellFounded, WFMin
<1>2. x \in Nat /\ x # 0
    OBVIOUS
<1>3. x - 1 \in Nat /\ x - 1 < x
    BY <1>2
<1>4. x - 1 \in T
    BY <1>1, <1>2, <1>3 DEF Less
<1>5. (x - 1) + 1 \in T
    BY <1>3, <1>4
<1> QED
    BY <1>2, <1>5

(* The tables compute f on D, as far as its values are known to be in S.    *)
Computes(f, D, S, rank, next, base, step) ==
    \A d \in D :
        /\ rank[d] = 0 => f[d] = base[d]
        /\ rank[d] # 0 /\ f[next[d]] \in S => f[d] = step[d][f[next[d]]]

(* The tables lead from every argument of D down to one of rank 0, and from *)
(* values in S to values in S.                                              *)
Tables(D, S, max, rank, next, base, step) ==
    /\ max \in Nat
    /\ rank \in [D -> 0 .. max]
    /\ base \in [D -> S]
    /\ step \in [D -> [S -> S]]
    /\ \A d \in D : rank[d] # 0 => next[d] \in D /\ rank[next[d]] < rank[d]

(* There is a function that the tables compute.                             *)
LEMMA FunctionExists ==
    ASSUME NEW D, NEW S, NEW max, NEW rank, NEW next, NEW base, NEW step,
           Tables(D, S, max, rank, next, base, step)
    PROVE  \E f \in [D -> S] : Computes(f, D, S, rank, next, base, step)
<1> DEFINE Up(n) == {d \in D : rank[d] <= n}
           Good(n) == \E f \in [Up(n) -> S] :
                         Computes(f, Up(n), S, rank, next, base, step)
           T == {n \in Nat : Good(n)}
<1>0. /\ max \in Nat /\ rank \in [D -> 0 .. max]
      /\ base \in [D -> S] /\ step \in [D -> [S -> S]]
      /\ \A d \in D : rank[d] \in Nat /\ rank[d] <= max
      /\ \A d \in D : rank[d] # 0 => next[d] \in D /\ rank[next[d]] < rank[d]
    BY DEF Tables
<1>1. Good(0)
    <2> DEFINE f == [d \in Up(0) |-> base[d]]
    <2>1. f \in [Up(0) -> S]
        BY <1>0
    <2>2. Computes(f, Up(0), S, rank, next, base, step)
        BY <1>0 DEF Computes
    <2> QED
        BY <2>1, <2>2
<1>2. ASSUME NEW n \in Nat, Good(n)
      PROVE  Good(n + 1)
    <2>1. PICK f \in [Up(n) -> S] :
             Computes(f, Up(n), S, rank, next, base, step)
        BY <1>2
    <2> DEFINE g == [d \in Up(n + 1) |->
                        IF rank[d] = 0 THEN base[d] ELSE step[d][f[next[d]]]]
    <2>2. \A d \in Up(n + 1) : rank[d] # 0 => next[d] \in Up(n)
        BY <1>0
    <2>3. \A d \in Up(n + 1) : rank[d] # 0 => f[next[d]] \in S
        BY <2>1, <2>2
    <2>4. g \in [Up(n + 1) -> S]
        BY <1>0, <2>3
    <2>5. Up(n) \subseteq Up(n + 1)
        BY <1>0
    <2>6. \A d \in Up(n) : g[d] = f[d]
        BY <2>1, <2>3, <2>5 DEF Computes
    <2>7. \A d \in Up(n + 1) :
             /\ rank[d] = 0 => g[d] = base[d]
             /\ rank[d] # 0 => g[d] = step[d][g[next[d]]]
        BY <2>2, <2>6
    <2>8. Computes(g, Up(n + 1), S, rank, next, base, step)
        <3> HIDE DEF g, Up
        <3> QED
            BY <2>7 DEF Computes
    <2> HIDE DEF g, Up
    <2> QED
        BY <2>4, <2>8
<1>3. Good(max)
    <2> HIDE DEF Good
    <2>1. 0 \in T
        BY <1>1
    <2>2. \A n \in Nat : n \in T => n + 1 \in T
        BY <1>2
    <2> HIDE DEF T
    <2>3. Nat \subseteq T
        BY <2>1, <2>2, SetInduction
    <2> QED
        BY <1>0, <2>3 DEF T
<1>4. Up(max) = D
    BY <1>0
<1> QED
    BY <1>3, <1>4

(* The values are in S ...                                                  *)
LEMMA FunctionTyped ==
    ASSUME NEW D, NEW S, NEW max, NEW rank, NEW next, NEW base, NEW step,
           Tables(D, S, max, rank, next, base, step),
           NEW f, Computes(f, D, S, rank, next, base, step)
    PROVE  \A d \in D : f[d] \in S
<1> DEFINE Good(n) == \A d \in D : rank[d] <= n => f[d] \in S
           T == {n \in Nat : Good(n)}
<1>0. /\ max \in Nat /\ base \in [D -> S] /\ step \in [D -> [S -> S]]
      /\ \A d \in D : rank[d] \in Nat /\ rank[d] <= max
      /\ \A d \in D : rank[d] # 0 => next[d] \in D /\ rank[next[d]] < rank[d]
    BY DEF Tables
<1>1. Good(0)
    BY <1>0 DEF Computes
<1>2. ASSUME NEW n \in Nat, Good(n)
      PROVE  Good(n + 1)
    <2>1. ASSUME NEW d \in D, rank[d] <= n + 1
          PROVE  f[d] \in S
        <3>1. CASE rank[d] = 0
            BY <1>0, <3>1 DEF Computes
        <3>2. CASE rank[d] # 0
            <4>1. next[d] \in D /\ rank[next[d]] <= n
                BY <1>0, <2>1, <3>2
            <4>2. f[next[d]] \in S
                BY <1>2, <4>1
            <4>3. f[d] = step[d][f[next[d]]]
                BY <3>2, <4>2 DEF Computes
            <4> QED
                BY <1>0, <4>2, <4>3
        <3> QED
            BY <3>1, <3>2
    <2> QED
        BY <2>1
<1>3. Good(max)
    <2> HIDE DEF Good
    <2>1. 0 \in T
        BY <1>1
    <2>2. \A n \in Nat : n \in T => n + 1 \in T
        BY <1>2
    <2> HIDE DEF T
    <2>3. Nat \subseteq T
        BY <2>1, <2>2, SetInduction
    <2> QED
        BY <1>0, <2>3 DEF T
<1> QED
    BY <1>0, <1>3

(* ... and two functions the tables compute are one.                        *)
LEMMA FunctionUnique ==
    ASSUME NEW D, NEW S, NEW max, NEW rank, NEW next, NEW base, NEW step,
           Tables(D, S, max, rank, next, base, step),
           NEW f, NEW g,
           Computes(f, D, S, rank, next, base, step),
           Computes(g, D, S, rank, next, base, step)
    PROVE  \A d \in D : f[d] = g[d]
<1> DEFINE Same(n) == \A d \in D : rank[d] <= n => f[d] = g[d]
           T == {n \in Nat : Same(n)}
<1>0. /\ max \in Nat
      /\ \A d \in D : rank[d] \in Nat /\ rank[d] <= max
      /\ \A d \in D : rank[d] # 0 => next[d] \in D /\ rank[next[d]] < rank[d]
    BY DEF Tables
<1>t. \A d \in D : f[d] \in S /\ g[d] \in S
    <2>1. \A d \in D : f[d] \in S
        BY FunctionTyped
    <2>2. \A d \in D : g[d] \in S
        BY FunctionTyped
    <2> QED
        BY <2>1, <2>2
<1>1. Same(0)
    BY <1>0 DEF Computes
<1>2. ASSUME NEW n \in Nat, Same(n)
      PROVE  Same(n + 1)
    <2>1. ASSUME NEW d \in D, rank[d] <= n + 1
          PROVE  f[d] = g[d]
        <3>1. CASE rank[d] = 0
            BY <3>1 DEF Computes
        <3>2. CASE rank[d] # 0
            <4>1. next[d] \in D /\ rank[next[d]] <= n
                BY <1>0, <1>2, <2>1, <3>2
            <4>2. f[next[d]] = g[next[d]]
                BY <1>2, <4>1
            <4> QED
                BY <1>t, <3>2, <4>1, <4>2 DEF Computes
        <3> QED
            BY <3>1, <3>2
    <2> QED
        BY <2>1
<1>3. Same(max)
    <2> HIDE DEF Same
    <2>1. 0 \in T
        BY <1>1
    <2>2. \A n \in Nat : n \in T => n + 1 \in T
        BY <1>2
    <2> HIDE DEF T
    <2>3. Nat \subseteq T
        BY <2>1, <2>2, SetInduction
    <2> QED
        BY <1>0, <2>3 DEF T
<1> QED
    BY <1>0, <1>3
=============================================================================
