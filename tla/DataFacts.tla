------------------------------ MODULE DataFacts ------------------------------
(***************************************************************************)
(* Facts about numbers and sets that the proofs of several components      *)
(* need.  The induction theorems of the library take an operator; these    *)
(* say the same of sets, from the well-foundedness of < alone.             *)
(***************************************************************************)
EXTENDS Integers, Filtering, FiniteSetTheorems, NaturalsInduction, WellFoundedInduction, TLAPS

\* A nonempty set of naturals has a least element.
LEMMA LeastElement ==
    ASSUME NEW T, T \subseteq Nat, T # {}
    PROVE  \E x \in T : \A y \in T : x <= y
  <1> DEFINE R == OpToRel(<, Nat)
  <1>1. IsWellFoundedOn(R, Nat)  BY NatLessThanWellFounded
  <1>2. \A x, y \in Nat : y < x => <<y, x>> \in R  BY DEF OpToRel
  <1> HIDE DEF R
  <1>3. PICK x \in T : \A y \in T : ~ (<<y, x>> \in R)  BY <1>1, WFMin
  <1>4. ASSUME NEW y \in T PROVE x <= y
    <2>1. ~(y < x)  BY <1>2, <1>3
    <2>2. x \in Nat /\ y \in Nat  OBVIOUS
    <2> QED  BY <2>1, <2>2
  <1> QED  BY <1>4

\* Induction: a set of naturals closed under successor has all of them.
LEMMA NatSets ==
    ASSUME NEW S, 0 \in S, \A n \in Nat : n \in S => n + 1 \in S
    PROVE  Nat \subseteq S
  <1> DEFINE T == Nat \ S
  <1>1. SUFFICES ASSUME T # {} PROVE FALSE
    OBVIOUS
  <1>2. T \subseteq Nat  OBVIOUS
  <1> HIDE DEF T
  <1>3. PICK x \in T : \A y \in T : x <= y  BY <1>1, <1>2, LeastElement
  <1>4. x \in Nat /\ x \notin S /\ x # 0  BY DEF T
  <1>5. x - 1 \in Nat /\ ~(x <= x - 1) /\ (x - 1) + 1 = x  BY <1>4
  <1>6. x - 1 \in S  BY <1>3, <1>5 DEF T
  <1> QED  BY <1>4, <1>5, <1>6

\* A nonempty set of naturals with a bound has a greatest element.
LEMMA GreatestElement ==
    ASSUME NEW T, NEW b \in Nat, T \subseteq 0..b, T # {}
    PROVE  \E x \in T : \A y \in T : y <= x
  <1> DEFINE D == {n \in Nat : n <= b /\ b - n \in T}
  <1>1. PICK t \in T : TRUE  OBVIOUS
  <1>2. t \in 0..b  OBVIOUS
  <1>3. b - t \in Nat /\ b - t <= b /\ b - (b - t) = t  BY <1>2
  <1>4. D \subseteq Nat /\ D # {}  BY <1>3
  <1> HIDE DEF D
  <1>5. PICK n \in D : \A m \in D : n <= m  BY <1>4, LeastElement
  <1>6. b - n \in T /\ n \in Nat  BY DEF D
  <1>7. ASSUME NEW y \in T PROVE y <= b - n
    <2>1. y \in 0..b  OBVIOUS
    <2>2. b - y \in Nat /\ b - y <= b /\ b - (b - y) = y  BY <2>1
    <2>3. b - y \in D  BY <2>2 DEF D
    <2> QED  BY <2>1, <2>3, <1>5, <1>6
  <1> QED  BY <1>6, <1>7
-----------------------------------------------------------------------------
(* The loops of Filtering. *)

\* f is a loop that starts at a and takes the step g[i] at i.
Iterates(f, a, g, n) == f[0] = a /\ \A i \in 1..n : f[i] = g[i][f[i - 1]]

LEMMA Iterated ==
    ASSUME NEW X, NEW a \in X, NEW n \in Nat, NEW g \in [1..n -> [X -> X]]
    PROVE  \E f \in [0..n -> X] : Iterates(f, a, g, n)
  <1> DEFINE Q(m, f) == f[0] = a /\ \A i \in 1..m : f[i] = g[i][f[i - 1]]
             S == {m \in Nat : m <= n => \E f \in [0..m -> X] : Q(m, f)}
  <1>1. 0 \in S
    <2> DEFINE f == [i \in 0..0 |-> a]
    <2>1. f \in [0..0 -> X] /\ Q(0, f)  OBVIOUS
    <2> QED  BY <2>1
  <1>2. ASSUME NEW m \in Nat, m \in S PROVE m + 1 \in S
    <2> SUFFICES ASSUME m + 1 <= n PROVE \E f \in [0..(m + 1) -> X] : Q(m + 1, f)  OBVIOUS
    <2>1. m <= n  OBVIOUS
    <2>2. PICK f \in [0..m -> X] : Q(m, f)  BY <1>2, <2>1
    <2> DEFINE v == g[m + 1][f[m]]
               e == [i \in 0..(m + 1) |-> IF i = m + 1 THEN v ELSE f[i]]
    <2>3. v \in X
      <3>1. m + 1 \in 1..n /\ f[m] \in X  OBVIOUS
      <3>2. g[m + 1] \in [X -> X]  BY <3>1
      <3> QED  BY <3>1, <3>2
    <2>4. \A i \in 0..m : i \in 0..(m + 1) /\ i # m + 1 /\ e[i] = f[i]  OBVIOUS
    <2>5. e[m + 1] = v /\ m + 1 \in 0..(m + 1)  OBVIOUS
    <2>6. e \in [0..(m + 1) -> X]
      <3> HIDE DEF v
      <3>1. \A i \in 0..(m + 1) : i # m + 1 => i \in 0..m  OBVIOUS
      <3> QED  BY <2>3, <3>1
    <2>7. ASSUME NEW i \in 1..(m + 1) PROVE e[i] = g[i][e[i - 1]]
      <3>1. CASE i = m + 1
        <4>1. i - 1 = m /\ m \in 0..m  BY <3>1
        <4> HIDE DEF e
        <4> QED  BY <2>4, <2>5, <3>1, <4>1
      <3>2. CASE i # m + 1
        <4>1. i \in 1..m /\ i \in 0..m /\ i - 1 \in 0..m  BY <3>2
        <4>2. f[i] = g[i][f[i - 1]]  BY <2>2, <4>1
        <4> HIDE DEF e
        <4> QED  BY <2>4, <4>1, <4>2
      <3> QED  BY <3>1, <3>2
    <2>8. e[0] = a  BY <2>2, <2>4
    <2> HIDE DEF e
    <2> QED  BY <2>6, <2>7, <2>8
  <1> HIDE DEF S
  <1>3. Nat \subseteq S  BY <1>1, <1>2, NatSets
  <1>4. n \in S  BY <1>3
  <1> QED  BY <1>4 DEF S, Iterates

\* f is the loop of the filter: its value after each element of s.
FiltersInto(f, s, S) ==
    /\ f[0] = <<>> /\ Kept(s, S) = f[Len(s)]
    /\ \A i \in 1..Len(s) : f[i] = IF s[i] \in S THEN Append(f[i - 1], s[i]) ELSE f[i - 1]

LEMMA KeptSteps ==
    ASSUME NEW T, NEW s \in Seq(T), NEW S
    PROVE  \E f \in [0..Len(s) -> Seq(T)] : FiltersInto(f, s, S)
  <1> DEFINE n == Len(s)
             body(f) == [i \in 0..n |-> IF i = 0 THEN <<>>
                            ELSE IF s[i] \in S THEN Append(f[i - 1], s[i]) ELSE f[i - 1]]
             g == [i \in 1..n |-> [x \in Seq(T) |-> IF s[i] \in S THEN Append(x, s[i]) ELSE x]]
  <1>0. n \in Nat /\ \A i \in 1..n : s[i] \in T  OBVIOUS
  <1>1. g \in [1..n -> [Seq(T) -> Seq(T)]]
    <2>1. ASSUME NEW i \in 1..n, NEW x \in Seq(T)
          PROVE  (IF s[i] \in S THEN Append(x, s[i]) ELSE x) \in Seq(T)
      BY <1>0
    <2> QED  BY <2>1
  <1>2. <<>> \in Seq(T)  OBVIOUS
  <1>3. PICK f \in [0..n -> Seq(T)] : f[0] = <<>> /\ \A i \in 1..n : f[i] = g[i][f[i - 1]]
    <2> DEFINE X == Seq(T)
               a == <<>>
    <2>1. g \in [1..n -> [X -> X]]  BY <1>0, <1>1, <1>2
    <2>2. a \in X /\ n \in Nat  BY <1>0, <1>1, <1>2
    <2> HIDE DEF g, n, X, a
    <2>3. \E f \in [0..n -> X] : Iterates(f, a, g, n)  BY <2>1, <2>2, Iterated
    <2> QED  BY <2>3 DEF X, a, Iterates
  <1>4. \A i \in 1..n : f[i] = IF s[i] \in S THEN Append(f[i - 1], s[i]) ELSE f[i - 1]
    <2> TAKE i \in 1..n
    <2>1. i - 1 \in 0..n  BY <1>0
    <2>2. f[i - 1] \in Seq(T)  BY <2>1
    <2> QED  BY <1>3, <2>2
  <1>5. f = body(f)
    <2>1. \A i \in 0..n : i # 0 => i \in 1..n  BY <1>0
    <2> QED  BY <1>3, <1>4, <2>1
  <1> DEFINE k == CHOOSE k : k = body(k)
  <1>6. k = body(k)
    <2> HIDE DEF body
    <2> QED  BY <1>5
  <1>7. Kept(s, S) = k[n]  BY DEF Kept
  <1> HIDE DEF k
  <1> DEFINE A == {m \in Nat : m <= n => k[m] = f[m]}
  <1>8. 0 \in A
    <2>1. 0 \in 0..n  BY <1>0
    <2> QED  BY <1>3, <1>6, <2>1
  <1>9. ASSUME NEW m \in Nat, m \in A PROVE m + 1 \in A
    <2> SUFFICES ASSUME m + 1 <= n PROVE k[m + 1] = f[m + 1]  OBVIOUS
    <2>1. m + 1 \in 1..n /\ m + 1 \in 0..n /\ m <= n /\ (m + 1) - 1 = m /\ m + 1 # 0
      BY <1>0
    <2>2. k[m] = f[m]  BY <1>9, <2>1
    <2>3. k[m + 1] = IF s[m + 1] \in S THEN Append(k[m], s[m + 1]) ELSE k[m]
      BY <1>6, <2>1
    <2> QED  BY <1>4, <2>1, <2>2, <2>3
  <1> HIDE DEF A
  <1>10. n \in A  BY <1>0, <1>8, <1>9, NatSets
  <1>11. k[n] = f[n]  BY <1>0, <1>10 DEF A
  <1> QED  BY <1>3, <1>4, <1>7, <1>11 DEF FiltersInto

\* A filter keeps what is in the set and nothing else, and makes no duplicate.
LEMMA KeptFacts ==
    ASSUME NEW T, NEW s \in Seq(T), NEW S
    PROVE  /\ Kept(s, S) \in Seq(T)
           /\ \A j \in 1..Len(Kept(s, S)) : Kept(s, S)[j] \in S
                                           /\ \E i \in 1..Len(s) : Kept(s, S)[j] = s[i]
           /\ \A i \in 1..Len(s) : s[i] \in S => \E j \in 1..Len(Kept(s, S)) : Kept(s, S)[j] = s[i]
           /\ (\A i, k \in 1..Len(s) : s[i] = s[k] => i = k)
                 => \A i, k \in 1..Len(Kept(s, S)) : Kept(s, S)[i] = Kept(s, S)[k] => i = k
  <1> DEFINE n == Len(s)
  <1>0. PICK f \in [0..n -> Seq(T)] : FiltersInto(f, s, S)  BY KeptSteps
  <1>1. /\ f[0] = <<>> /\ Kept(s, S) = f[n]
        /\ \A i \in 1..n : f[i] = IF s[i] \in S THEN Append(f[i - 1], s[i]) ELSE f[i - 1]
    BY <1>0 DEF FiltersInto
  <1>2. n \in Nat /\ \A i \in 1..n : s[i] \in T  OBVIOUS
  <1> DEFINE From(m, q) == \A j \in 1..Len(q) : q[j] \in S /\ \E i \in 1..m : q[j] = s[i]
             Has(m, q)  == \A i \in 1..m : s[i] \in S => \E j \in 1..Len(q) : q[j] = s[i]
             Inj(q)     == \A i, k \in 1..Len(q) : q[i] = q[k] => i = k
             Good(m, q) == From(m, q) /\ Has(m, q) /\ (Inj(s) => Inj(q))
             A == {m \in Nat : m <= n => Good(m, f[m])}
  <1>3. 0 \in A
    <2>1. Len(f[0]) = 0  BY <1>1
    <2> QED  BY <2>1
  <1>4. ASSUME NEW m \in Nat, m \in A PROVE m + 1 \in A
    <2> SUFFICES ASSUME m + 1 <= n PROVE Good(m + 1, f[m + 1])  OBVIOUS
    <2>1. m <= n /\ m + 1 \in 1..n /\ m \in 0..n /\ (m + 1) - 1 = m  BY <1>2
    <2>2. Good(m, f[m])  BY <1>4, <2>1
    <2> DEFINE q == f[m]
               x == s[m + 1]
    <2>3. q \in Seq(T) /\ x \in T /\ Len(q) \in Nat  BY <1>1, <1>2, <2>1
    <2>4. f[m + 1] = IF x \in S THEN Append(q, x) ELSE q  BY <1>1, <2>1
    <2>m. \A i \in 1..(m + 1) : i = m + 1 \/ i \in 1..m  OBVIOUS
    <2>l. \A i \in 1..m : i \in 1..(m + 1) /\ i \in 1..n /\ i # m + 1  BY <2>1
    <2>g. From(m, q) /\ Has(m, q) /\ (Inj(s) => Inj(q))  BY <2>2
    <2> HIDE DEF q, x
    <2>5. CASE x \notin S
      <3>1. f[m + 1] = q  BY <2>4, <2>5
      <3>2. From(m + 1, q)
        <4> SUFFICES ASSUME NEW j \in 1..Len(q)
                     PROVE  q[j] \in S /\ \E i \in 1..(m + 1) : q[j] = s[i]
          OBVIOUS
        <4> QED  BY <2>g, <2>l
      <3>3. Has(m + 1, q)
        <4> SUFFICES ASSUME NEW i \in 1..(m + 1), s[i] \in S
                     PROVE  \E j \in 1..Len(q) : q[j] = s[i]
          OBVIOUS
        <4>1. i \in 1..m  BY <2>5, <2>m DEF x
        <4> QED  BY <2>g, <4>1
      <3> QED  BY <2>g, <3>1, <3>2, <3>3
    <2>6. CASE x \in S
      <3> DEFINE p == Append(q, x)
      <3>1. f[m + 1] = p  BY <2>4, <2>6
      <3>2. /\ Len(p) = Len(q) + 1 /\ p[Len(q) + 1] = x
            /\ \A j \in 1..Len(q) : p[j] = q[j]
        BY <2>3
      <3> HIDE DEF p
      <3>n. \A j \in 1..Len(p) : j = Len(q) + 1 \/ j \in 1..Len(q)  BY <2>3, <3>2
      <3>o. Len(q) + 1 \in 1..Len(p) /\ \A j \in 1..Len(q) : j \in 1..Len(p) /\ j # Len(q) + 1
        BY <2>3, <3>2
      <3>3. From(m + 1, p)
        <4> SUFFICES ASSUME NEW j \in 1..Len(p)
                     PROVE  p[j] \in S /\ \E i \in 1..(m + 1) : p[j] = s[i]
          OBVIOUS
        <4>1. CASE j = Len(q) + 1
          <5>1. p[j] = s[m + 1] /\ m + 1 \in 1..(m + 1)  BY <3>2, <4>1 DEF x
          <5> QED  BY <2>6, <5>1 DEF x
        <4>2. CASE j \in 1..Len(q)
          <5>1. p[j] = q[j]  BY <3>2, <4>2
          <5>2. PICK i \in 1..m : q[j] = s[i]  BY <2>g, <4>2
          <5>3. q[j] \in S  BY <2>g, <4>2
          <5> QED  BY <2>l, <5>1, <5>2, <5>3
        <4> QED  BY <3>n, <4>1, <4>2
      <3>4. Has(m + 1, p)
        <4> SUFFICES ASSUME NEW i \in 1..(m + 1), s[i] \in S
                     PROVE  \E j \in 1..Len(p) : p[j] = s[i]
          OBVIOUS
        <4>1. CASE i = m + 1  BY <3>2, <3>o, <4>1 DEF x
        <4>2. CASE i # m + 1
          <5>1. i \in 1..m  BY <2>m, <4>2
          <5>2. PICK j \in 1..Len(q) : q[j] = s[i]  BY <2>g, <5>1
          <5> QED  BY <3>2, <3>o, <5>2
        <4> QED  BY <4>1, <4>2
      <3>5. Inj(s) => Inj(p)
        <4> SUFFICES ASSUME Inj(s), NEW i \in 1..Len(p), NEW k \in 1..Len(p), p[i] = p[k]
                     PROVE  i = k
          OBVIOUS
        <4>1. \A j \in 1..Len(q) : q[j] # x
          <5> SUFFICES ASSUME NEW j \in 1..Len(q), q[j] = x PROVE FALSE  OBVIOUS
          <5>1. PICK u \in 1..m : q[j] = s[u]  BY <2>g
          <5>2. s[u] = s[m + 1] /\ u \in 1..n /\ m + 1 \in 1..n /\ u # m + 1
            BY <2>1, <2>l, <5>1 DEF x
          <5> QED  BY <5>2
        <4>2. Inj(q)  BY <2>g
        <4>3. CASE i = Len(q) + 1 /\ k \in 1..Len(q)  BY <3>2, <4>1, <4>3
        <4>4. CASE k = Len(q) + 1 /\ i \in 1..Len(q)  BY <3>2, <4>1, <4>4
        <4>5. CASE i \in 1..Len(q) /\ k \in 1..Len(q)  BY <3>2, <4>2, <4>5
        <4> QED  BY <3>n, <4>3, <4>4, <4>5
      <3> HIDE DEF From, Has, Inj
      <3> QED  BY <3>1, <3>3, <3>4, <3>5
    <2> QED  BY <2>5, <2>6
  <1> HIDE DEF A
  <1>5. n \in A  BY <1>2, <1>3, <1>4, NatSets
  <1> USE DEF A
  <1>6. Good(n, f[n])  BY <1>2, <1>5
  <1>7. f[n] \in Seq(T)  BY <1>1, <1>2
  <1>8. From(n, f[n]) /\ Has(n, f[n]) /\ (Inj(s) => Inj(f[n]))  BY <1>6
  <1>9. Kept(s, S) = f[n]  BY <1>1
  <1> DEFINE q == f[n]
  <1>10. q \in Seq(T) /\ From(n, q) /\ Has(n, q) /\ (Inj(s) => Inj(q))  BY <1>7, <1>8
  <1> HIDE DEF q
  <1> QED  BY <1>10, <1>9 DEF q

\* f is the loop of the sum.
SumsInto(f, s) ==
    f[0] = 0 /\ SumOf(s) = f[Len(s)] /\ \A i \in 1..Len(s) : f[i] = f[i - 1] + s[i]

LEMMA SumSteps ==
    ASSUME NEW s \in Seq(Nat)
    PROVE  \E f \in [0..Len(s) -> Nat] : SumsInto(f, s)
  <1> DEFINE n == Len(s)
             body(f) == [i \in 0..n |-> IF i = 0 THEN 0 ELSE f[i - 1] + s[i]]
             g == [i \in 1..n |-> [x \in Nat |-> x + s[i]]]
  <1>0. n \in Nat /\ \A i \in 1..n : s[i] \in Nat  OBVIOUS
  <1>1. g \in [1..n -> [Nat -> Nat]]
    <2>1. \A i \in 1..n, x \in Nat : x + s[i] \in Nat  BY <1>0
    <2> QED  BY <2>1
  <1>3. PICK f \in [0..n -> Nat] : f[0] = 0 /\ \A i \in 1..n : f[i] = g[i][f[i - 1]]
    <2> DEFINE X == Nat
               a == 0
    <2>1. g \in [1..n -> [X -> X]]  BY <1>1
    <2>2. a \in X /\ n \in Nat  BY <1>0
    <2> HIDE DEF g, n, X, a
    <2>3. \E f \in [0..n -> X] : Iterates(f, a, g, n)  BY <2>1, <2>2, Iterated
    <2> QED  BY <2>3 DEF X, a, Iterates
  <1>4. \A i \in 1..n : f[i] = f[i - 1] + s[i]
    <2> TAKE i \in 1..n
    <2>1. i - 1 \in 0..n  BY <1>0
    <2>2. f[i - 1] \in Nat  BY <2>1
    <2> QED  BY <1>3, <2>2
  <1>5. f = body(f)
    <2>1. \A i \in 0..n : i # 0 => i \in 1..n  BY <1>0
    <2> QED  BY <1>3, <1>4, <2>1
  <1> DEFINE k == CHOOSE k : k = body(k)
  <1>6. k = body(k)
    <2> HIDE DEF body
    <2> QED  BY <1>5
  <1>7. SumOf(s) = k[n]  BY DEF SumOf
  <1> HIDE DEF k
  <1> DEFINE A == {m \in Nat : m <= n => k[m] = f[m]}
  <1>8. 0 \in A
    <2>1. 0 \in 0..n  BY <1>0
    <2> QED  BY <1>3, <1>6, <2>1
  <1>9. ASSUME NEW m \in Nat, m \in A PROVE m + 1 \in A
    <2> SUFFICES ASSUME m + 1 <= n PROVE k[m + 1] = f[m + 1]  OBVIOUS
    <2>1. m + 1 \in 1..n /\ m + 1 \in 0..n /\ m <= n /\ (m + 1) - 1 = m /\ m + 1 # 0
      BY <1>0
    <2>2. k[m] = f[m]  BY <1>9, <2>1
    <2>3. k[m + 1] = k[m] + s[m + 1]  BY <1>6, <2>1
    <2> QED  BY <1>4, <2>1, <2>2, <2>3
  <1> HIDE DEF A
  <1>10. n \in A  BY <1>0, <1>8, <1>9, NatSets
  <1>11. k[n] = f[n]  BY <1>0, <1>10 DEF A
  <1> QED  BY <1>3, <1>4, <1>7, <1>11 DEF SumsInto

LEMMA SumType == ASSUME NEW s \in Seq(Nat) PROVE SumOf(s) \in Nat
  <1>1. PICK f \in [0..Len(s) -> Nat] : SumsInto(f, s)  BY SumSteps
  <1>2. Len(s) \in 0..Len(s)  OBVIOUS
  <1> QED  BY <1>1, <1>2 DEF SumsInto

\* Nothing adds up to nothing.
LEMMA SumOfZeros ==
    ASSUME NEW s \in Seq(Nat), \A i \in 1..Len(s) : s[i] = 0
    PROVE  SumOf(s) = 0
  <1> DEFINE n == Len(s)
  <1>1. PICK f \in [0..n -> Nat] : SumsInto(f, s)  BY SumSteps
  <1>0. n \in Nat  OBVIOUS
  <1> DEFINE A == {m \in Nat : m <= n => f[m] = 0}
  <1>2. 0 \in A  BY <1>1 DEF SumsInto
  <1>3. ASSUME NEW m \in Nat, m \in A PROVE m + 1 \in A
    <2> SUFFICES ASSUME m + 1 <= n PROVE f[m + 1] = 0  OBVIOUS
    <2>1. m <= n /\ m + 1 \in 1..n /\ (m + 1) - 1 = m  BY <1>0
    <2>2. f[m] = 0  BY <1>3, <2>1
    <2>3. f[m + 1] = f[m] + s[m + 1]  BY <1>1, <2>1 DEF SumsInto
    <2> QED  BY <2>1, <2>2, <2>3
  <1> HIDE DEF A
  <1>4. n \in A  BY <1>0, <1>2, <1>3, NatSets
  <1> QED  BY <1>0, <1>1, <1>4 DEF SumsInto, A

\* One element more is that much more in the sum.
LEMMA SumGrows ==
    ASSUME NEW s \in Seq(Nat), NEW t \in Seq(Nat), Len(t) = Len(s),
           NEW k \in 1..Len(s), NEW d \in Nat, t[k] = s[k] + d,
           \A i \in 1..Len(s) : i # k => t[i] = s[i]
    PROVE  SumOf(t) = SumOf(s) + d
  <1> DEFINE n == Len(s)
  <1>k. n \in Nat /\ k \in Nat /\ k <= n /\ 1 <= k
    <2>1. n \in Nat  OBVIOUS
    <2> HIDE DEF n
    <2> QED  BY <2>1 DEF n
  <1>v. \A i \in 1..n : s[i] \in Nat /\ t[i] \in Nat  OBVIOUS
  <1>0. n \in Nat /\ k \in Nat /\ k <= n /\ 1 <= k
        /\ \A i \in 1..n : s[i] \in Nat /\ t[i] \in Nat
    BY <1>k, <1>v
  <1>1. PICK f \in [0..n -> Nat] : SumsInto(f, s)  BY SumSteps
  <1>2. PICK e \in [0..n -> Nat] : SumsInto(e, t)  BY SumSteps
  <1> DEFINE A == {m \in Nat : m <= n => e[m] = IF m < k THEN f[m] ELSE f[m] + d}
  <1>3. 0 \in A  BY <1>0, <1>1, <1>2 DEF SumsInto
  <1>4. ASSUME NEW m \in Nat, m \in A PROVE m + 1 \in A
    <2> SUFFICES ASSUME m + 1 <= n
                 PROVE  e[m + 1] = IF m + 1 < k THEN f[m + 1] ELSE f[m + 1] + d
      OBVIOUS
    <2>1. m <= n /\ m + 1 \in 1..n /\ (m + 1) - 1 = m /\ m \in 0..n  BY <1>0
    <2>2. e[m] = IF m < k THEN f[m] ELSE f[m] + d  BY <1>4, <2>1
    <2>3. f[m + 1] = f[m] + s[m + 1] /\ e[m + 1] = e[m] + t[m + 1]
      BY <1>1, <1>2, <2>1 DEF SumsInto
    <2>4. f[m] \in Nat /\ s[m + 1] \in Nat  BY <1>0, <2>1
    <2>5. CASE m + 1 < k
      <3>1. t[m + 1] = s[m + 1] /\ m < k  BY <1>0, <2>1, <2>5
      <3> QED  BY <2>2, <2>3, <2>5, <3>1
    <2>6. CASE m + 1 = k
      <3>1. m < k /\ ~(m + 1 < k)  BY <1>0, <2>6
      <3>2. e[m] = f[m] /\ t[m + 1] = s[m + 1] + d  BY <2>2, <2>6, <3>1
      <3>3. e[m + 1] = f[m] + (s[m + 1] + d) /\ f[m + 1] = f[m] + s[m + 1]  BY <2>3, <3>2
      <3>4. f[m] + (s[m + 1] + d) = (f[m] + s[m + 1]) + d  BY <2>4
      <3> QED  BY <3>1, <3>3, <3>4
    <2>7. CASE k < m + 1
      <3>1. t[m + 1] = s[m + 1] /\ ~(m < k) /\ ~(m + 1 < k)  BY <1>0, <2>1, <2>7
      <3> QED  BY <2>2, <2>3, <2>4, <3>1
    <2> QED  BY <1>0, <2>5, <2>6, <2>7
  <1> HIDE DEF A
  <1>5. n \in A  BY <1>0, <1>3, <1>4, NatSets
  <1>6. e[n] = f[n] + d  BY <1>0, <1>5 DEF A
  <1> QED  BY <1>1, <1>2, <1>6 DEF SumsInto
=============================================================================
