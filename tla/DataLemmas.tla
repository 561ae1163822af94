------------------------------- MODULE DataLemmas -------------------------------
(***************************************************************************)
(* Facts about the data the models are built from: sequences and the sets  *)
(* of what is in them, and functions defined by recursion on the natural   *)
(* numbers.                                                                *)
(***************************************************************************)
EXTENDS
  Integers, SequencesExt, Selection,
  FiniteSetTheorems, SequenceTheorems, WellFoundedInduction, TLAPS

-------------------------------------------------------------------------------
(***************************************************************************)
(* Sequences without repetitions, and the sets of what is in them          *)
(***************************************************************************)
LEMMA AppendToConcat ==
  ASSUME NEW S, NEW s \in Seq(S), NEW t \in Seq(S), NEW x \in S
  PROVE  s \o Append(t, x) = Append(s \o t, x)
<1>1. <<x>> \in Seq(S) /\ s \o t \in Seq(S)
  OBVIOUS
<1>2. Append(t, x) = t \o <<x>>
  BY AppendIsConcat
<1>3. Append(s \o t, x) = (s \o t) \o <<x>>
  BY <1>1, AppendIsConcat
<1>4. (s \o t) \o <<x>> = s \o (t \o <<x>>)
  BY <1>1, ConcatAssociative
<1> QED BY <1>2, <1>3, <1>4, Zenon

LEMMA ConcatToOne ==
  ASSUME NEW S, NEW x \in S, NEW t \in Seq(S)
  PROVE  /\ <<x>> \o t # <<>>
         /\ Head(<<x>> \o t) = x
         /\ Tail(<<x>> \o t) = t
<1> DEFINE u == <<x>> \o t
<1>1. /\ u \in Seq(S) /\ Len(u) = Len(t) + 1 /\ u[1] = x
      /\ \A i \in 1..Len(t) : u[i + 1] = t[i]
  OBVIOUS
<1>2. Len(t) \in Nat
  OBVIOUS
<1> HIDE DEF u
<1>3. u # <<>> /\ Head(u) = x
  BY <1>1, <1>2
<1>4. Tail(u) \in Seq(S) /\ Len(Tail(u)) = Len(t) /\ \A i \in 1..Len(t) : Tail(u)[i] = u[i + 1]
  BY <1>1, <1>2, <1>3
<1>5. Tail(u) = t
  BY <1>1, <1>4, SeqEqual
<1> QED BY <1>3, <1>5 DEF u

LEMMA AppendNew ==
  ASSUME NEW S, NEW s \in Seq(S), NEW x \in S
  PROVE  /\ Append(s, x) \in Seq(S)
         /\ ToSet(Append(s, x)) = ToSet(s) \cup {x}
         /\ IsInjective(s) /\ x \notin ToSet(s) => IsInjective(Append(s, x))
<1> DEFINE t == Append(s, x)
<1>1. t \in Seq(S) /\ Len(t) = Len(s) + 1 /\ t[Len(s) + 1] = x
      /\ \A i \in 1..Len(s) : t[i] = s[i]
  OBVIOUS
<1>2. DOMAIN s = 1..Len(s) /\ DOMAIN t = 1..(Len(s) + 1) /\ Len(s) \in Nat
  BY <1>1
<1>3. ToSet(t) = ToSet(s) \cup {x}
  <2>1. ASSUME NEW y \in ToSet(s)
        PROVE  y \in ToSet(t)
    BY <1>1, <1>2, <2>1 DEF ToSet
  <2>2. x \in ToSet(t)
    BY <1>1, <1>2 DEF ToSet
  <2>3. ASSUME NEW y \in ToSet(t), y # x
        PROVE  y \in ToSet(s)
    BY <1>1, <1>2, <2>3 DEF ToSet
  <2> QED BY <2>1, <2>2, <2>3
<1>4. ASSUME IsInjective(s), x \notin ToSet(s)
      PROVE  IsInjective(t)
  BY <1>1, <1>2, <1>4 DEF IsInjective, ToSet
<1> QED BY <1>1, <1>3, <1>4

LEMMA TakeHead ==
  ASSUME NEW S, NEW s \in Seq(S), s # <<>>
  PROVE  /\ Head(s) \in S /\ Tail(s) \in Seq(S)
         /\ ToSet(s) = {Head(s)} \cup ToSet(Tail(s))
         /\ IsInjective(s) => IsInjective(Tail(s)) /\ Head(s) \notin ToSet(Tail(s))
<1> DEFINE t == Tail(s)
<1>1. Head(s) = s[1] /\ t \in Seq(S) /\ Len(s) \in Nat \ {0} /\ Len(t) = Len(s) - 1
      /\ \A i \in 1..Len(t) : t[i] = s[i + 1]
  OBVIOUS
<1>2. DOMAIN s = 1..Len(s) /\ DOMAIN t = 1..(Len(s) - 1)
  BY <1>1
<1>3. ToSet(s) = {Head(s)} \cup ToSet(t)
  <2>1. ASSUME NEW y \in ToSet(t)
        PROVE  y \in ToSet(s)
    BY <1>1, <1>2, <2>1 DEF ToSet
  <2>2. Head(s) \in ToSet(s)
    BY <1>1, <1>2 DEF ToSet
  <2>3. ASSUME NEW y \in ToSet(s), y # Head(s)
        PROVE  y \in ToSet(t)
    <3>1. PICK i \in 2..Len(s) : y = s[i]
      BY <1>1, <1>2, <2>3 DEF ToSet
    <3>2. i - 1 \in DOMAIN t /\ t[i - 1] = y
      BY <1>1, <1>2, <3>1
    <3> QED BY <3>2 DEF ToSet
  <2> QED BY <2>1, <2>2, <2>3
<1>4. ASSUME IsInjective(s)
      PROVE  IsInjective(t) /\ Head(s) \notin ToSet(t)
  BY <1>1, <1>2, <1>4 DEF IsInjective, ToSet
<1> QED BY <1>1, <1>3, <1>4

LEMMA LengthOfDistinct ==
  ASSUME NEW S, NEW s \in Seq(S), IsInjective(s)
  PROVE  Len(s) = Cardinality(ToSet(s))
<1>1. Len(s) \in Nat /\ DOMAIN s = 1..Len(s)
  OBVIOUS
<1>2. s \in [1..Len(s) -> ToSet(s)]
  BY <1>1 DEF ToSet
<1>3. s \in Surjection(1..Len(s), ToSet(s)) /\ s \in Injection(1..Len(s), ToSet(s))
  BY <1>1, <1>2 DEF Surjection, Injection, ToSet
<1>4. IsFiniteSet(1..Len(s)) /\ Cardinality(1..Len(s)) = Len(s)
  BY <1>1, FS_Interval
<1> QED BY <1>3, <1>4, FS_Surjection

\* list(observers) has every observer once.
LEMMA ListOfSet ==
  ASSUME NEW S, IsFiniteSet(S), NEW s \in SetToSeqs(S)
  PROVE  s \in Seq(S) /\ IsInjective(s) /\ ToSet(s) = S
<1> DEFINE n == Cardinality(S)
<1>1. n \in Nat /\ s \in [1..n -> S] /\ IsInjective(s)
  BY FS_CardinalityType DEF SetToSeqs, IsInjective
<1>2. s \in Seq(S)
  BY <1>1
<1>3. IsFiniteSet(1..n) /\ Cardinality(1..n) = n
  BY <1>1, FS_Interval
<1>4. s \in Injection(1..n, S)
  BY <1>1 DEF Injection
<1>5. s \in Surjection(1..n, S)
  BY <1>3, <1>4, FS_Injection
<1>6. ToSet(s) = S
  BY <1>1, <1>5 DEF Surjection, ToSet
<1> QED BY <1>1, <1>2, <1>6

-------------------------------------------------------------------------------
(***************************************************************************)
(* Induction and recursion                                                 *)
(***************************************************************************)
\* A set of natural numbers with an element has a least one.
LEMMA LeastNat ==
  ASSUME NEW T, T \subseteq Nat, T # {}
  PROVE  \E x \in T : \A y \in T : x <= y
<1> DEFINE R == {ss \in Nat \X Nat : ss[1] < ss[2]}
<1>1. IsWellFoundedOn(R, Nat)
  BY NatLessThanWellFounded DEF OpToRel
<1>2. \A a, b \in Nat : a < b => <<a, b>> \in R
  OBVIOUS
<1> HIDE DEF R
<1>3. \E x \in T : \A y \in T : ~ (<<y, x>> \in R)
  BY <1>1, WFMin
<1>4. PICK x \in T : \A y \in T : ~ (<<y, x>> \in R)
  BY <1>3
<1>5. ASSUME NEW y \in T
      PROVE  x <= y
  <2>1. x \in Nat /\ y \in Nat /\ ~ (<<y, x>> \in R)
    BY <1>4
  <2>2. ~ (y < x)
    BY <1>2, <2>1, Zenon
  <2> QED BY <2>1, <2>2
<1> QED
  BY <1>5

\* What holds of 0 and passes from n to n + 1 holds of every natural number.
LEMMA InductionOnNat ==
  ASSUME NEW S, 0 \in S, \A n \in Nat : n \in S => n + 1 \in S
  PROVE  Nat \subseteq S
<1> DEFINE T == {n \in Nat : n \notin S}
<1>1. SUFFICES ASSUME T # {} PROVE FALSE
  OBVIOUS
<1>2. PICK x \in T : \A y \in T : x <= y
  BY <1>1, LeastNat
<1>3. x # 0 /\ x - 1 \in Nat /\ x - 1 \notin T
  BY <1>2
<1> QED BY <1>2, <1>3

\* f and g are equal at 0, and equal at i whenever they are at i - 1.
InStep(f, g, N) ==
  /\ f[0] = g[0]
  /\ \A i \in 1..N : f[i - 1] = g[i - 1] => f[i] = g[i]

LEMMA InStepAgree ==
  ASSUME NEW N \in Nat, NEW f, NEW g, InStep(f, g, N)
  PROVE  \A i \in 0..N : f[i] = g[i]
<1> DEFINE S == {n \in Nat : n <= N => f[n] = g[n]}
<1>1. 0 \in S
  BY DEF InStep
<1>2. ASSUME NEW n \in Nat, n \in S
      PROVE  n + 1 \in S
  BY <1>2 DEF InStep
<1>3. Nat \subseteq S
  <2> HIDE DEF S
  <2> QED BY <1>1, <1>2, InductionOnNat
<1> QED BY <1>3

\* f starts with base and is step[i] of its last value at each i up to N.
Recurs(f, base, step, N) == f[0] = base /\ \A i \in 1..N : f[i] = step[i][f[i - 1]]

\* Recursion on a counter, with a value from T at each step, defines a function.
LEMMA RecursionDefines ==
  ASSUME NEW N \in Nat, NEW T, NEW base \in T, NEW step \in [1..N -> [T -> T]]
  PROVE  \E f \in [0..N -> T] : Recurs(f, base, step, N)
<1> DEFINE Upto(n, f) == f[0] = base /\ \A i \in 1..n : f[i] = step[i][f[i - 1]]
           S == {n \in Nat : n <= N => \E f \in [0..n -> T] : Upto(n, f)}
<1>1. 0 \in S
  <2> DEFINE f == [i \in 0..0 |-> base]
  <2>1. f \in [0..0 -> T] /\ Upto(0, f)
    OBVIOUS
  <2> QED BY <2>1
<1>2. ASSUME NEW n \in Nat, n \in S
      PROVE  n + 1 \in S
  <2> SUFFICES ASSUME n + 1 <= N
               PROVE  \E f \in [0..(n + 1) -> T] : Upto(n + 1, f)
    OBVIOUS
  <2>1. PICK g \in [0..n -> T] : Upto(n, g)
    BY <1>2
  <2> DEFINE f == [i \in 0..(n + 1) |-> IF i = n + 1 THEN step[n + 1][g[n]] ELSE g[i]]
  <2>2. f \in [0..(n + 1) -> T]
    OBVIOUS
  <2>3. f[0] = base
    BY <2>1
  <2>4. ASSUME NEW i \in 1..(n + 1)
        PROVE  f[i] = step[i][f[i - 1]]
    BY <2>1
  <2> QED BY <2>2, <2>3, <2>4
<1>3. Nat \subseteq S
  <2> HIDE DEF S
  <2> QED BY <1>1, <1>2, InductionOnNat
<1>4. PICK f \in [0..N -> T] : Upto(N, f)
  BY <1>3
<1>5. Recurs(f, base, step, N)
  BY <1>4 DEF Recurs
<1> QED BY <1>5

-------------------------------------------------------------------------------
(***************************************************************************)
(* Only(s, S), the members of S in a sequence                              *)
(***************************************************************************)
\* upto[i] has the members of S among the first i of s.
Picks(upto, s, S) ==
  /\ upto[0] = <<>>
  /\ \A i \in 1..Len(s) :
       upto[i] = IF s[i] \in S THEN Append(upto[i - 1], s[i]) ELSE upto[i - 1]

LEMMA OnlyIs ==
  ASSUME NEW T, NEW s \in Seq(T), NEW S
  PROVE  \E upto \in [0..Len(s) -> Seq(T)] : Picks(upto, s, S) /\ Only(s, S) = upto[Len(s)]
<1> DEFINE N == Len(s)
           step == [i \in 1..N |-> [q \in Seq(T) |-> IF s[i] \in S THEN Append(q, s[i]) ELSE q]]
<1>1. N \in Nat /\ <<>> \in Seq(T) /\ \A i \in 1..N : s[i] \in T
  OBVIOUS
<1>2. step \in [1..N -> [Seq(T) -> Seq(T)]]
  BY <1>1
<1>3. PICK t \in [0..N -> Seq(T)] : Recurs(t, <<>>, step, N)
  <2> HIDE DEF N, step
  <2> QED BY <1>1, <1>2, RecursionDefines
<1>4. Picks(t, s, S)
  <2>1. ASSUME NEW i \in 1..N
        PROVE  t[i] = IF s[i] \in S THEN Append(t[i - 1], s[i]) ELSE t[i - 1]
    <3>1. t[i - 1] \in Seq(T)
      BY <1>1
    <3>2. t[i] = step[i][t[i - 1]]
      BY <1>3 DEF Recurs
    <3> QED BY <3>1, <3>2
  <2> QED BY <1>3, <2>1 DEF Recurs, Picks
<1> DEFINE u == CHOOSE x : x = [i \in 0..N |->
                  IF i = 0 THEN <<>>
                  ELSE IF s[i] \in S THEN Append(x[i - 1], s[i]) ELSE x[i - 1]]
<1>5. t = [i \in 0..N |-> IF i = 0 THEN <<>>
                          ELSE IF s[i] \in S THEN Append(t[i - 1], s[i]) ELSE t[i - 1]]
  <2>1. t[0] = <<>> /\ \A i \in 1..N : t[i] = IF s[i] \in S THEN Append(t[i - 1], s[i]) ELSE t[i - 1]
    BY <1>4 DEF Picks
  <2>2. t = [i \in 0..N |-> t[i]]
    OBVIOUS
  <2>3. \A i \in 0..N : i = 0 \/ i \in 1..N
    BY <1>1
  <2>4. \A i \in 0..N : t[i] = IF i = 0 THEN <<>>
                              ELSE IF s[i] \in S THEN Append(t[i - 1], s[i]) ELSE t[i - 1]
    BY <2>1, <2>3, Zenon
  <2> HIDE DEF step, N
  <2> QED BY <2>2, <2>4, Zenon
<1>6. u = [i \in 0..N |-> IF i = 0 THEN <<>>
                          ELSE IF s[i] \in S THEN Append(u[i - 1], s[i]) ELSE u[i - 1]]
  BY <1>5, Zenon
<1>7. Only(s, S) = u[N]
  BY Zenon DEF Only
<1> HIDE DEF u, step
<1>8. Picks(u, s, S)
  <2>1. 0 \in 0..N /\ \A i \in 1..N : i \in 0..N /\ i # 0
    BY <1>1
  <2>2. \A i \in 0..N : u[i] = IF i = 0 THEN <<>>
                              ELSE IF s[i] \in S THEN Append(u[i - 1], s[i]) ELSE u[i - 1]
    <3> HIDE DEF N
    <3> QED BY <1>6, Zenon
  <2>3. u[0] = <<>> /\ \A i \in 1..N : u[i] = IF s[i] \in S THEN Append(u[i - 1], s[i]) ELSE u[i - 1]
    <3> HIDE DEF N
    <3> QED BY <2>1, <2>2, Zenon
  <2> QED BY <2>3, Zenon DEF Picks
<1>9. InStep(u, t, N)
  BY <1>4, <1>8 DEF InStep, Picks
<1>10. \A i \in 0..N : u[i] = t[i]
  <2>1. N \in Nat
    BY <1>1
  <2> HIDE DEF N
  <2> QED BY <1>9, <2>1, InStepAgree
<1>11. Only(s, S) = t[N]
  BY <1>1, <1>7, <1>10
<1> QED BY <1>4, <1>11

LEMMA OnlyOfAppend ==
  ASSUME NEW T, NEW s \in Seq(T), NEW x \in T, NEW S
  PROVE  Only(Append(s, x), S) = IF x \in S THEN Append(Only(s, S), x) ELSE Only(s, S)
<1> DEFINE N == Len(s)
           new == Append(s, x)
<1>1. /\ N \in Nat /\ new \in Seq(T) /\ Len(new) = N + 1 /\ new[N + 1] = x
      /\ \A i \in 1..N : new[i] = s[i]
  OBVIOUS
<1>2. PICK f \in [0..N -> Seq(T)] : Picks(f, s, S) /\ Only(s, S) = f[N]
  BY OnlyIs
<1>3. PICK g \in [0..Len(new) -> Seq(T)] : Picks(g, new, S) /\ Only(new, S) = g[Len(new)]
  <2> HIDE DEF new
  <2> QED BY <1>1, OnlyIs
<1> HIDE DEF new
<1>4. InStep(g, f, N)
  <2>1. \A i \in 1..N : i \in 1..Len(new) /\ new[i] = s[i]
    BY <1>1
  <2>2. g[0] = f[0]
    BY <1>2, <1>3, Zenon DEF Picks
  <2>3. ASSUME NEW i \in 1..N, g[i - 1] = f[i - 1]
        PROVE  g[i] = f[i]
    <3>1. g[i] = IF new[i] \in S THEN Append(g[i - 1], new[i]) ELSE g[i - 1]
      BY <1>3, <2>1, Zenon DEF Picks
    <3>2. f[i] = IF s[i] \in S THEN Append(f[i - 1], s[i]) ELSE f[i - 1]
      BY <1>2, Zenon DEF Picks
    <3>3. new[i] = s[i]
      BY <2>1
    <3> QED BY <2>3, <3>1, <3>2, <3>3
  <2> QED BY <2>2, <2>3, Zenon DEF InStep
<1>5. g[N] = f[N]
  <2>1. N \in Nat
    BY <1>1
  <2>2. \A i \in 0..N : g[i] = f[i]
    <3> HIDE DEF N
    <3> QED BY <1>4, <2>1, InStepAgree
  <2> QED BY <2>1, <2>2
<1>6. g[N + 1] = IF x \in S THEN Append(g[N], x) ELSE g[N]
  BY <1>1, <1>3 DEF Picks
<1> QED BY <1>1, <1>2, <1>3, <1>5, <1>6 DEF new

LEMMA OnlyOfTail ==
  ASSUME NEW T, NEW s \in Seq(T), s # <<>>, NEW S
  PROVE  /\ Head(s) \in S => /\ Only(s, S) # <<>>
                             /\ Head(Only(s, S)) = Head(s)
                             /\ Tail(Only(s, S)) = Only(Tail(s), S)
         /\ Head(s) \notin S => Only(s, S) = Only(Tail(s), S)
<1> DEFINE h == Head(s)
           t == Tail(s)
           N == Len(t)
           base == IF h \in S THEN <<h>> ELSE <<>>
<1>1. /\ N \in Nat /\ t \in Seq(T) /\ Len(s) = N + 1 /\ s[1] = h /\ h \in T
      /\ \A i \in 1..N : t[i] = s[i + 1]
  OBVIOUS
<1>2. PICK f \in [0..Len(s) -> Seq(T)] : Picks(f, s, S) /\ Only(s, S) = f[Len(s)]
  BY OnlyIs
<1>3. PICK g \in [0..N -> Seq(T)] : Picks(g, t, S) /\ Only(t, S) = g[N]
  <2> HIDE DEF t
  <2> QED BY <1>1, OnlyIs
<1> HIDE DEF t, h, N
<1> DEFINE F == [i \in 0..N |-> f[i + 1]]
           G == [i \in 0..N |-> base \o g[i]]
<1>4. base \in Seq(T) /\ base \o <<>> = base
  BY <1>1
<1>5. F[0] = G[0]
  <2>1. 1 \in 1..Len(s) /\ 0 \in 0..N /\ 1 - 1 = 0 /\ 0 + 1 = 1
    BY <1>1
  <2>2. f[0] = <<>> /\ g[0] = <<>>
    BY <1>2, <1>3, Zenon DEF Picks
  <2>3. f[1] = IF s[1] \in S THEN Append(f[0], s[1]) ELSE f[0]
    BY <1>2, <2>1 DEF Picks
  <2>4. f[1] = base
    BY <1>1, <2>2, <2>3
  <2>5. F[0] = f[1] /\ G[0] = base \o g[0]
    <3> HIDE DEF base
    <3> QED BY <2>1
  <2> HIDE DEF base, F, G
  <2> QED BY <1>4, <2>2, <2>4, <2>5
<1>6. ASSUME NEW i \in 1..N, F[i - 1] = G[i - 1]
      PROVE  F[i] = G[i]
  <2>0. /\ i \in 0..N /\ i - 1 \in 0..N /\ i + 1 \in 1..Len(s) /\ (i + 1) - 1 = i /\ (i - 1) + 1 = i
        /\ Len(t) = N
    BY <1>1 DEF N
  <2>1. g[i - 1] \in Seq(T) /\ t[i] \in T /\ s[i + 1] = t[i]
    <3>1. g[i - 1] \in Seq(T)
      BY <2>0, Zenon
    <3>2. t[i] \in T /\ s[i + 1] = t[i]
      BY <1>1, <2>0
    <3> QED BY <3>1, <3>2
  <2>2. f[i] = base \o g[i - 1]
    <3>1. F[i - 1] = f[(i - 1) + 1] /\ G[i - 1] = base \o g[i - 1]
      <4> HIDE DEF base
      <4> QED BY <2>0, Zenon
    <3> HIDE DEF base, F, G
    <3> QED BY <1>6, <2>0, <3>1
  <2>3. f[i + 1] = IF t[i] \in S THEN Append(f[i], t[i]) ELSE f[i]
    <3>1. f[i + 1] = IF s[i + 1] \in S THEN Append(f[(i + 1) - 1], s[i + 1]) ELSE f[(i + 1) - 1]
      BY <1>2, <2>0, Zenon DEF Picks
    <3> QED BY <2>0, <2>1, <3>1
  <2>4. g[i] = IF t[i] \in S THEN Append(g[i - 1], t[i]) ELSE g[i - 1]
    BY <1>3, <2>0, Zenon DEF Picks
  <2>5. base \o Append(g[i - 1], t[i]) = Append(base \o g[i - 1], t[i])
    <3> HIDE DEF base
    <3>1. base \in Seq(T) /\ g[i - 1] \in Seq(T) /\ t[i] \in T
      BY <1>4, <2>1, Zenon
    <3> DEFINE u == g[i - 1]
               x == t[i]
    <3>2. base \in Seq(T) /\ u \in Seq(T) /\ x \in T
      BY <3>1
    <3>3. base \o Append(u, x) = Append(base \o u, x)
      <4> HIDE DEF u, x
      <4> QED BY <3>2, AppendToConcat
    <3> QED BY <3>3
  <2>6. f[i + 1] = base \o g[i]
    <3> HIDE DEF base
    <3> QED BY <2>2, <2>3, <2>4, <2>5
  <2>7. F[i] = f[i + 1] /\ G[i] = base \o g[i]
    <3> HIDE DEF base
    <3> QED BY <2>0, Zenon
  <2> HIDE DEF F, G, base
  <2> QED BY <2>6, <2>7
<1>7. \A i \in 0..N : F[i] = G[i]
  <2>1. InStep(F, G, N)
    <3> HIDE DEF F, G
    <3> QED BY <1>5, <1>6 DEF InStep
  <2>2. N \in Nat
    BY <1>1
  <2> HIDE DEF F, G
  <2> QED BY <2>1, <2>2, InStepAgree
<1>8. Only(s, S) = base \o Only(t, S) /\ Only(t, S) \in Seq(T)
  <2>1. F[N] = f[N + 1] /\ G[N] = base \o g[N] /\ F[N] = G[N]
    BY <1>1, <1>7
  <2> HIDE DEF F, G, base
  <2> QED BY <1>1, <1>2, <1>3, <2>1
<1>9. CASE h \in S
  <2>1. Only(s, S) = <<h>> \o Only(t, S)
    BY <1>8, <1>9
  <2> QED BY <1>1, <1>8, <1>9, <2>1, ConcatToOne DEF h, t
<1>10. CASE h \notin S
  <2>1. Only(s, S) = <<>> \o Only(t, S)
    BY <1>8, <1>10
  <2>2. Only(s, S) = Only(t, S)
    BY <1>8, <2>1
  <2> QED BY <1>10, <2>2 DEF h, t
<1> QED BY <1>9, <1>10

LEMMA OnlyWithin ==
  ASSUME NEW T, NEW s \in Seq(T), NEW S
  PROVE  /\ Only(s, S) \in Seq(T) /\ Len(Only(s, S)) <= Len(s)
         /\ ToSet(Only(s, S)) \subseteq ToSet(s) \cap S
<1>1. PICK f \in [0..Len(s) -> Seq(T)] : Picks(f, s, S) /\ Only(s, S) = f[Len(s)]
  BY OnlyIs
<1> DEFINE N == Len(s)
           Within(q, n) == Len(q) <= n /\ ToSet(q) \subseteq ToSet(s) \cap S
           Good == {n \in Nat : n <= N => Within(f[n], n)}
<1>2. N \in Nat /\ \A i \in 1..N : s[i] \in T /\ s[i] \in ToSet(s)
  BY DEF ToSet
<1>3. 0 \in Good
  BY <1>1 DEF Picks, ToSet
<1>4. ASSUME NEW n \in Nat, n \in Good
      PROVE  n + 1 \in Good
  <2> SUFFICES ASSUME n + 1 <= N
               PROVE  Within(f[n + 1], n + 1)
    OBVIOUS
  <2>1. Within(f[n], n) /\ f[n] \in Seq(T)
    BY <1>2, <1>4
  <2>2. s[n + 1] \in T /\ s[n + 1] \in ToSet(s)
    BY <1>2
  <2>3. f[n + 1] = IF s[n + 1] \in S THEN Append(f[n], s[n + 1]) ELSE f[n]
    BY <1>1, <1>2 DEF Picks
  <2>4. CASE s[n + 1] \in S
    <3>1. ToSet(Append(f[n], s[n + 1])) = ToSet(f[n]) \cup {s[n + 1]}
      BY <2>1, <2>2, AppendNew
    <3>2. Len(Append(f[n], s[n + 1])) = Len(f[n]) + 1
      BY <2>1
    <3>3. Len(f[n + 1]) <= n + 1
      BY <2>1, <2>3, <2>4, <3>2
    <3>4. ToSet(f[n + 1]) \subseteq ToSet(s) \cap S
      BY <2>1, <2>2, <2>3, <2>4, <3>1
    <3> QED BY <3>3, <3>4
  <2>5. CASE s[n + 1] \notin S
    BY <2>1, <2>3, <2>5
  <2> QED BY <2>4, <2>5
<1>5. Nat \subseteq Good
  <2> HIDE DEF Good
  <2> QED BY <1>3, <1>4, InductionOnNat
<1>6. Within(f[N], N)
  BY <1>2, <1>5
<1> QED BY <1>1, <1>2, <1>6

-------------------------------------------------------------------------------
(***************************************************************************)
(* Sequences one after another                                             *)
(***************************************************************************)
\* f[i] is what the first i sequences of s make one after the other.
Concats(f, s) == f[0] = <<>> /\ \A i \in 1..Len(s) : f[i] = f[i - 1] \o s[i]

LEMMA FlattenIs ==
  ASSUME NEW T, NEW s \in Seq(Seq(T))
  PROVE  \E f \in [0..Len(s) -> Seq(T)] : Concats(f, s) /\ FlattenSeq(s) = f[Len(s)]
<1> DEFINE N == Len(s)
           step == [i \in 1..N |-> [q \in Seq(T) |-> q \o s[i]]]
<1>1. N \in Nat /\ <<>> \in Seq(T) /\ \A i \in 1..N : s[i] \in Seq(T)
  OBVIOUS
<1>2. step \in [1..N -> [Seq(T) -> Seq(T)]]
  BY <1>1
<1>3. PICK t \in [0..N -> Seq(T)] : Recurs(t, <<>>, step, N)
  <2> HIDE DEF N, step
  <2> QED BY <1>1, <1>2, RecursionDefines
<1>4. Concats(t, s)
  <2>1. ASSUME NEW i \in 1..N
        PROVE  t[i] = t[i - 1] \o s[i]
    <3>1. t[i - 1] \in Seq(T)
      <4>1. i - 1 \in 0..N
        BY <1>1
      <4> HIDE DEF N
      <4> QED BY <4>1
    <3>2. t[i] = step[i][t[i - 1]]
      BY <1>3 DEF Recurs
    <3> QED BY <3>1, <3>2
  <2> QED BY <1>3, <2>1 DEF Recurs, Concats
<1>5. CASE N = 0
  <2>1. s = <<>> /\ FlattenSeq(s) = s
    BY <1>5 DEF FlattenSeq
  <2> QED BY <1>4, <1>5, <2>1 DEF Concats
<1>6. CASE N # 0
  <2> DEFINE u == CHOOSE x : x = [i \in 1..N |-> IF i = 1 THEN s[i] ELSE x[i - 1] \o s[i]]
             v == [i \in 1..N |-> t[i]]
  <2>1. N \in Nat \ {0} /\ 1 \in 1..N /\ N \in 1..N
    BY <1>1, <1>6
  <2>2. t[1] = s[1]
    <3>1. t[1] = t[1 - 1] \o s[1] /\ t[0] = <<>>
      BY <1>4, <2>1, Zenon DEF Concats
    <3>2. 1 - 1 = 0
      OBVIOUS
    <3>3. t[1] = <<>> \o s[1]
      BY <3>1, <3>2
    <3>4. s[1] \in Seq(T)
      BY <1>1, <2>1
    <3> DEFINE x == s[1]
    <3>5. <<>> \o x = x
      <4>1. x \in Seq(T)
        BY <3>4
      <4> HIDE DEF x
      <4> QED BY <4>1
    <3> QED BY <3>3, <3>5, Zenon DEF x
  <2>3. v = [i \in 1..N |-> IF i = 1 THEN s[i] ELSE v[i - 1] \o s[i]]
    <3>1. ASSUME NEW i \in 1..N
          PROVE  v[i] = IF i = 1 THEN s[i] ELSE v[i - 1] \o s[i]
      <4>1. CASE i = 1
        BY <2>1, <2>2, <4>1
      <4>2. CASE i # 1
        <5>1. i - 1 \in 1..N
          BY <2>1, <4>2
        <5>2. t[i] = t[i - 1] \o s[i]
          BY <1>4 DEF Concats
        <5> QED BY <4>2, <5>1, <5>2
      <4> QED BY <4>1, <4>2
    <3>2. v = [i \in 1..N |-> v[i]]
      OBVIOUS
    <3> HIDE DEF v, N
    <3> QED BY <3>1, <3>2, Zenon
  <2>4. u = [i \in 1..N |-> IF i = 1 THEN s[i] ELSE u[i - 1] \o s[i]]
    <3> HIDE DEF v, N
    <3> QED BY <2>3, Zenon
  <2>5. FlattenSeq(s) = u[N]
    BY <1>6, Zenon DEF FlattenSeq
  <2> HIDE DEF u
  <2> DEFINE w == [i \in 0..N |-> IF i = 0 THEN <<>> ELSE u[i]]
  <2>6. InStep(w, t, N)
    <3>1. 0 \in 0..N /\ w[0] = <<>> /\ t[0] = <<>>
      BY <1>1, <1>4 DEF Concats
    <3>2. ASSUME NEW i \in 1..N, w[i - 1] = t[i - 1]
          PROVE  w[i] = t[i]
      <4>1. i \in 0..N /\ i # 0 /\ w[i] = u[i]
        BY <2>1
      <4>2. CASE i = 1
        <5>1. u[i] = s[i]
          BY <2>4, <4>2
        <5> QED BY <2>2, <4>1, <4>2, <5>1
      <4>3. CASE i # 1
        <5>1. i - 1 \in 0..N /\ i - 1 # 0 /\ w[i - 1] = u[i - 1]
          BY <2>1, <4>3
        <5>2. u[i] = u[i - 1] \o s[i]
          BY <2>4, <4>3
        <5>3. t[i] = t[i - 1] \o s[i]
          BY <1>4 DEF Concats
        <5> HIDE DEF w
        <5> QED BY <3>2, <4>1, <5>1, <5>2, <5>3
      <4> QED BY <4>2, <4>3
    <3> HIDE DEF w
    <3> QED BY <3>1, <3>2, Zenon DEF InStep
  <2>7. w[N] = t[N] /\ w[N] = u[N]
    <3>1. N \in Nat /\ N \in 0..N /\ w[N] = u[N]
      BY <2>1
    <3>2. \A i \in 0..N : w[i] = t[i]
      <4>1. N \in Nat
        BY <1>1
      <4> HIDE DEF w, N
      <4> QED BY <2>6, <4>1, InStepAgree
    <3> QED BY <3>1, <3>2
  <2> QED BY <1>4, <2>5, <2>7
<1> QED BY <1>5, <1>6

LEMMA FlattenPrefix ==
  ASSUME NEW T, NEW s \in Seq(Seq(T)), NEW f \in [0..Len(s) -> Seq(T)], Concats(f, s),
         NEW k \in 0..Len(s)
  PROVE  FlattenSeq(SubSeq(s, 1, k)) = f[k]
<1> DEFINE r == SubSeq(s, 1, k)
<1>1. r \in Seq(Seq(T)) /\ Len(r) = k /\ k \in Nat /\ \A i \in 1..k : r[i] = s[i]
  OBVIOUS
<1> HIDE DEF r
<1>2. PICK g \in [0..Len(r) -> Seq(T)] : Concats(g, r) /\ FlattenSeq(r) = g[Len(r)]
  BY <1>1, FlattenIs
<1>3. InStep(g, f, k)
  <2>1. g[0] = f[0]
    BY <1>2 DEF Concats
  <2>2. ASSUME NEW i \in 1..k, g[i - 1] = f[i - 1]
        PROVE  g[i] = f[i]
    <3>1. g[i] = g[i - 1] \o r[i]
      BY <1>1, <1>2 DEF Concats
    <3>2. i \in 1..Len(s)
      OBVIOUS
    <3>3. f[i] = f[i - 1] \o s[i]
      BY <3>2 DEF Concats
    <3>4. r[i] = s[i]
      BY <1>1
    <3> QED BY <2>2, <3>1, <3>3, <3>4
  <2> QED BY <2>1, <2>2, Zenon DEF InStep
<1>4. \A i \in 0..k : g[i] = f[i]
  <2>1. k \in Nat
    BY <1>1
  <2> QED BY <1>3, <2>1, InStepAgree, Zenon
<1>5. k \in 0..k
  BY <1>1
<1> QED BY <1>1, <1>2, <1>4, <1>5 DEF r

\* a is the beginning of b.
Begins(a, b) == Len(a) <= Len(b) /\ \A i \in 1..Len(a) : b[i] = a[i]

LEMMA ConcatsGrow ==
  ASSUME NEW T, NEW s \in Seq(Seq(T)), NEW f \in [0..Len(s) -> Seq(T)], Concats(f, s),
         NEW k \in 0..Len(s), NEW j \in k..Len(s)
  PROVE  Begins(f[k], f[j])
<1> DEFINE N == Len(s)
           S == {n \in Nat : k + n <= N => Begins(f[k], f[k + n])}
<1>1. N \in Nat /\ k \in Nat /\ k <= N
  OBVIOUS
<1>2. \A n \in 0..N : f[n] \in Seq(T)
  OBVIOUS
<1>3. 0 \in S
  <2>1. Begins(f[k], f[k])
    BY <1>1, <1>2 DEF Begins
  <2>2. k + 0 = k
    BY <1>1
  <2> QED BY <2>1, <2>2
<1>4. ASSUME NEW n \in Nat, n \in S
      PROVE  n + 1 \in S
  <2> SUFFICES ASSUME k + (n + 1) <= N
               PROVE  Begins(f[k], f[k + (n + 1)])
    OBVIOUS
  <2> DEFINE m == k + n
  <2>1. m \in 0..N /\ m + 1 \in 1..N /\ (m + 1) - 1 = m /\ k + (n + 1) = m + 1
    BY <1>1
  <2>2. Begins(f[k], f[m])
    BY <1>1, <1>4, <2>1
  <2>3. f[m + 1] = f[m] \o s[m + 1]
    <3>1. f[m + 1] = f[(m + 1) - 1] \o s[m + 1]
      BY <2>1, Zenon DEF Concats
    <3> QED BY <2>1, <3>1
  <2>4. s[m + 1] \in Seq(T) /\ f[m] \in Seq(T) /\ f[k] \in Seq(T)
    BY <1>1, <1>2, <2>1
  <2>5. Begins(f[k], f[m + 1])
    <3> DEFINE a == f[k]
               b == f[m]
               c == s[m + 1]
    <3>1. a \in Seq(T) /\ b \in Seq(T) /\ c \in Seq(T) /\ Begins(a, b)
      BY <2>2, <2>4
    <3>2. Begins(a, b \o c)
      <4> HIDE DEF a, b, c
      <4> QED BY <3>1 DEF Begins
    <3> QED BY <2>3, <3>2
  <2> QED BY <2>1, <2>5
<1>5. Nat \subseteq S
  <2> HIDE DEF S
  <2> QED BY <1>3, <1>4, InductionOnNat
<1>6. j - k \in Nat /\ k + (j - k) = j /\ j <= N
  BY <1>1
<1> QED BY <1>5, <1>6

LEMMA FlattenLayout ==
  ASSUME NEW T, NEW s \in Seq(Seq(T)), NEW k \in 1..Len(s)
  PROVE  LET before == FlattenSeq(SubSeq(s, 1, k - 1))
             upto   == FlattenSeq(SubSeq(s, 1, k))
             all    == FlattenSeq(s)
         IN  /\ before \in Seq(T) /\ upto \in Seq(T) /\ all \in Seq(T)
             /\ Len(upto) = Len(before) + Len(s[k]) /\ Len(upto) <= Len(all)
             /\ \A i \in 1..Len(s[k]) : all[Len(before) + i] = s[k][i]
<1>1. PICK f \in [0..Len(s) -> Seq(T)] : Concats(f, s) /\ FlattenSeq(s) = f[Len(s)]
  BY FlattenIs
<1> DEFINE a == f[k - 1]
           b == f[k]
           c == f[Len(s)]
           d == s[k]
<1>2. k - 1 \in 0..Len(s) /\ k \in 0..Len(s) /\ Len(s) \in k..Len(s) /\ Len(s) \in 0..Len(s)
  OBVIOUS
<1>3. FlattenSeq(SubSeq(s, 1, k - 1)) = a /\ FlattenSeq(SubSeq(s, 1, k)) = b
  BY <1>1, <1>2, FlattenPrefix
<1>4. a \in Seq(T) /\ b \in Seq(T) /\ c \in Seq(T) /\ d \in Seq(T)
  <2>1. a \in Seq(T) /\ b \in Seq(T) /\ c \in Seq(T)
    BY <1>2, Zenon
  <2>2. d \in Seq(T)
    OBVIOUS
  <2> QED BY <2>1, <2>2
<1>5. b = a \o d
  BY <1>1 DEF Concats
<1>6. Begins(b, c)
  BY <1>1, <1>2, ConcatsGrow
<1>7. /\ Len(b) = Len(a) + Len(d) /\ Len(b) <= Len(c)
      /\ \A i \in 1..Len(d) : c[Len(a) + i] = d[i]
  <2> HIDE DEF a, b, c, d
  <2>1. Len(b) = Len(a) + Len(d) /\ Len(a) \in Nat /\ Len(d) \in Nat
    BY <1>4, <1>5
  <2>2. Len(b) <= Len(c)
    BY <1>6 DEF Begins
  <2>3. ASSUME NEW i \in 1..Len(d)
        PROVE  c[Len(a) + i] = d[i]
    <3>1. Len(a) + i \in 1..Len(b)
      BY <2>1
    <3>2. c[Len(a) + i] = b[Len(a) + i]
      BY <1>6, <3>1 DEF Begins
    <3>3. (a \o d)[Len(a) + i] = d[i]
      BY <1>4
    <3> QED BY <1>5, <3>2, <3>3
  <2> QED BY <2>1, <2>2, <2>3
<1> QED BY <1>1, <1>3, <1>4, <1>7, Zenon

LEMMA FunctionIsSeq ==
  ASSUME NEW T, NEW n \in Nat, NEW f \in [1..n -> T]
  PROVE  f \in Seq(T) /\ Len(f) = n
OBVIOUS

\* c is a followed by b.
Chained(c, a, b) ==
  /\ Len(c) = Len(a) + Len(b)
  /\ \A i \in 1..Len(a) : c[i] = a[i]
  /\ \A i \in 1..Len(b) : c[Len(a) + i] = b[i]

LEMMA ConcatChains ==
  ASSUME NEW T, NEW a \in Seq(T), NEW b \in Seq(T)
  PROVE  a \o b \in Seq(T) /\ Chained(a \o b, a, b)
BY DEF Chained
===============================================================================
