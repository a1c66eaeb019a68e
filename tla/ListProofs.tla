----------------------------- MODULE ListProofs -----------------------------
(***************************************************************************)
(* What the sequence operators of the models return, for sequences of any  *)
(* length.  The library's induction theorems take an operator as a         *)
(* parameter; the same arguments go through here with a set in its place,  *)
(* from the fact that a set of numbers has a least one.                    *)
(***************************************************************************)
EXTENDS Lists, FiniteSets, FiniteSetsExt, FiniteSetTheorems, WellFoundedInduction, SequenceTheorems, TLAPS

\* Every non-empty set of natural numbers has a least element: the intervals up to
\* its members are finite sets, ordered well by inclusion.
LEMMA LeastNumber ==
    ASSUME NEW S \in SUBSET Nat, S # {}
    PROVE  \E n \in S : \A m \in S : n <= m
<1> DEFINE R == StrictSubsetOrdering(Nat)
           T == {0 .. k : k \in S}
<1>1. T \subseteq FiniteSubsetsOf(Nat)
    <2>1. \A k \in S : IsFiniteSet(0 .. k) BY FS_Interval
    <2>2. \A k \in S : 0 .. k \subseteq Nat OBVIOUS
    <2> QED BY <2>1, <2>2 DEF FiniteSubsetsOf
<1>2. PICK x \in T : \A y \in T : ~(<<y, x>> \in R)
    <2>1. IsWellFoundedOn(R, FiniteSubsetsOf(Nat)) BY FS_StrictSubsetOrderingWellFounded
    <2>2. T # {} OBVIOUS
    <2> HIDE DEF R, T
    <2> QED BY <1>1, <2>1, <2>2, WFMin
<1>3. PICK n \in S : x = 0 .. n OBVIOUS
<1>4. ASSUME NEW m \in S, m < n PROVE FALSE
    <2>1. 0 .. m \in T /\ 0 .. m \subseteq 0 .. n /\ 0 .. m # 0 .. n BY <1>4
    <2>2. <<0 .. m, 0 .. n>> \in R BY <2>1 DEF StrictSubsetOrdering
    <2> QED BY <1>2, <1>3, <2>1, <2>2
<1> QED BY <1>3, <1>4

\* Induction over the natural numbers, for a property given as a set.
LEMMA NaturalsClosed ==
    ASSUME NEW S, 0 \in S, \A n \in Nat : n \in S => n + 1 \in S
    PROVE  Nat \subseteq S
<1> SUFFICES ASSUME Nat \ S # {} PROVE FALSE OBVIOUS
<1>1. PICK n \in Nat \ S : \A m \in Nat \ S : n <= m BY LeastNumber
<1>2. n # 0 /\ n - 1 \in Nat /\ n - 1 \in S BY <1>1
<1>3. n \in S BY <1>2
<1> QED BY <1>1, <1>3

\* The same for the numbers up to n.
LEMMA IntervalClosed ==
    ASSUME NEW n \in Nat, NEW S, 0 \in S, \A i \in 1 .. n : i - 1 \in S => i \in S
    PROVE  0 .. n \subseteq S
<1> DEFINE T == {i \in Nat : i <= n => i \in S}
<1>1. 0 \in T OBVIOUS
<1>2. \A i \in Nat : i \in T => i + 1 \in T
    <2> SUFFICES ASSUME NEW i \in Nat, i \in T, i + 1 <= n PROVE i + 1 \in S OBVIOUS
    <2>1. i \in S /\ i + 1 \in 1 .. n /\ (i + 1) - 1 = i OBVIOUS
    <2> QED BY <2>1
<1> HIDE DEF T
<1>3. Nat \subseteq T BY <1>1, <1>2, NaturalsClosed
<1> QED BY <1>3 DEF T

\* f is the values a loop over 1 .. n takes: step gives each from the one before.
IsLoop(f, n, init, step) == f = [i \in 0 .. n |-> IF i = 0 THEN init ELSE step[<<f[i - 1], i>>]]

\* There are such values.
LEMMA LoopExists ==
    ASSUME NEW n \in Nat, NEW D, NEW init \in D, NEW step \in [D \X (1 .. n) -> D]
    PROVE  \E f \in [0 .. n -> D] : IsLoop(f, n, init, step)
<1> DEFINE Loop(f, k) == /\ f = [i \in 0 .. k |-> IF i = 0 THEN init ELSE step[<<f[i - 1], i>>]]
                         /\ \A i \in 0 .. k : f[i] \in D
           S == {k \in Nat : \E f : Loop(f, k)}
<1>1. 0 \in S
    <2> DEFINE f == [i \in 0 .. 0 |-> init]
    <2>1. f = [i \in 0 .. 0 |-> IF i = 0 THEN init ELSE step[<<f[i - 1], i>>]] OBVIOUS
    <2>2. Loop(f, 0) BY <2>1
    <2> QED BY <2>2
<1>2. ASSUME NEW k \in 1 .. n, k - 1 \in S PROVE k \in S
    <2>1. PICK f : Loop(f, k - 1) BY <1>2
    <2> DEFINE x == step[<<f[k - 1], k>>]
               g == [i \in 0 .. k |-> IF i = k THEN x ELSE f[i]]
    <2>2. f = [i \in 0 .. k - 1 |-> IF i = 0 THEN init ELSE step[<<f[i - 1], i>>]] /\ \A i \in 0 .. k - 1 : f[i] \in D
        BY <2>1
    <2>3. k \in Nat /\ k # 0 /\ k - 1 \in 0 .. k - 1 /\ x \in D BY <2>2
    <2> HIDE DEF x
    <2>4. \A i \in 0 .. k : g[i] = IF i = k THEN x ELSE f[i] OBVIOUS
    <2>5. ASSUME NEW i \in 0 .. k PROVE g[i] = (IF i = 0 THEN init ELSE step[<<g[i - 1], i>>]) /\ g[i] \in D
        <3>1. CASE i = k
            <4>1. k - 1 \in 0 .. k /\ k - 1 # k BY <2>3
            <4>2. g[k - 1] = f[k - 1] BY <2>4, <4>1
            <4> HIDE DEF g
            <4> QED BY <2>3, <2>4, <3>1, <4>2 DEF x
        <3>2. CASE i # k
            <4>1. i \in 0 .. k - 1 BY <2>3, <3>2
            <4>2. g[i] = f[i] BY <2>4, <3>2
            <4>3. i # 0 => i - 1 \in 0 .. k /\ i - 1 # k BY <4>1
            <4>4. i # 0 => g[i - 1] = f[i - 1] BY <2>4, <4>3
            <4> HIDE DEF g
            <4> QED BY <2>2, <4>1, <4>2, <4>4
        <3> QED BY <3>1, <3>2
    <2>6. g = [i \in 0 .. k |-> IF i = 0 THEN init ELSE step[<<g[i - 1], i>>]]
        <3>1. g = [i \in 0 .. k |-> g[i]] OBVIOUS
        <3> HIDE DEF g
        <3> QED BY <2>5, <3>1
    <2> HIDE DEF g
    <2>7. Loop(g, k) BY <2>5, <2>6
    <2> HIDE DEF Loop
    <2> QED BY <2>3, <2>7
<1>3. n \in S
    <2> HIDE DEF S
    <2>1. 0 .. n \subseteq S BY <1>1, <1>2, IntervalClosed
    <2> QED BY <2>1
<1>4. PICK f : Loop(f, n) BY <1>3
<1>5. f \in [0 .. n -> D] BY <1>4
<1> QED BY <1>4, <1>5 DEF IsLoop

\* Min of a set of natural numbers is one of them, and none is less.
LEMMA MinIsLeast ==
    ASSUME NEW S \in SUBSET Nat, S # {}
    PROVE  Min(S) \in S /\ \A m \in S : Min(S) <= m
<1>1. \E n \in S : \A m \in S : n <= m BY LeastNumber
<1> QED BY <1>1 DEF Min

\* Max of a set of numbers that has a bound is one of them, and none is greater.
LEMMA MaxIsGreatest ==
    ASSUME NEW n \in Nat, NEW S \in SUBSET (0 .. n), S # {}
    PROVE  Max(S) \in S /\ \A m \in S : Max(S) >= m
<1> DEFINE T == {n - m : m \in S}
<1>1. T \in SUBSET Nat /\ T # {}
    <2>1. \A m \in S : n - m \in Nat OBVIOUS
    <2> QED BY <2>1
<1>2. PICK k \in T : \A l \in T : k <= l BY <1>1, LeastNumber
<1>3. PICK m \in S : k = n - m BY <1>2
<1>4. \A l \in S : m >= l
    <2> SUFFICES ASSUME NEW l \in S PROVE m >= l OBVIOUS
    <2>1. n - l \in T /\ n - m <= n - l BY <1>2, <1>3
    <2> QED BY <2>1
<1> QED BY <1>4 DEF Max

\* A sequence is empty exactly when it has no elements, and holds what is in its range.
LEMMA RangeOfNone ==
    ASSUME NEW S, NEW s \in Seq(S)
    PROVE  /\ s = <<>> <=> Range(s) = {}
           /\ s # <<>> => s[1] \in Range(s)
           /\ Range(s) \subseteq S
           /\ \A i \in DOMAIN s : s[i] \in Range(s)
<1>1. DOMAIN s = 1 .. Len(s) /\ Len(s) \in Nat BY LenProperties
<1>2. s = <<>> <=> Len(s) = 0 BY EmptySeq, <1>1
<1>3. \A i \in DOMAIN s : s[i] \in Range(s) /\ s[i] \in S BY <1>1 DEF Range
<1>4. s # <<>> => 1 \in DOMAIN s BY <1>1, <1>2
<1>5. s = <<>> => Range(s) = {} BY <1>1, <1>2 DEF Range
<1>6. Range(s) \subseteq S BY <1>3 DEF Range
<1> QED BY <1>3, <1>4, <1>5, <1>6

-----------------------------------------------------------------------------
(* FlattenSeq joins the sequences one after another.                       *)

Joins(ss, f, n) == f = [i \in 1 .. n |-> IF i = 1 THEN ss[i] ELSE f[i - 1] \o ss[i]]

\* There is a function that joins them: of the first k, for every k.
LEMMA JoinExists ==
    ASSUME NEW S, NEW ss \in Seq(Seq(S))
    PROVE  \E f : Joins(ss, f, Len(ss))
<1> DEFINE G == {k \in Nat : \E f : Joins(ss, f, k)}
<1>1. 0 \in G
    <2>1. [i \in 1 .. 0 |-> <<>>] = [i \in 1 .. 0 |-> IF i = 1 THEN ss[i] ELSE [j \in 1 .. 0 |-> <<>>][i - 1] \o ss[i]]
        OBVIOUS
    <2> QED BY <2>1 DEF Joins
<1>2. ASSUME NEW k \in Nat, k \in G PROVE k + 1 \in G
    <2>1. PICK f : Joins(ss, f, k) BY <1>2
    <2> DEFINE g == [i \in 1 .. k + 1 |-> IF i \in 1 .. k THEN f[i]
                                          ELSE IF i = 1 THEN ss[i] ELSE f[k] \o ss[i]]
    <2>2. ASSUME NEW i \in 1 .. k + 1 PROVE g[i] = IF i = 1 THEN ss[i] ELSE g[i - 1] \o ss[i]
        <3>1. CASE i \in 1 .. k
            <4>1. f[i] = IF i = 1 THEN ss[i] ELSE f[i - 1] \o ss[i] BY <2>1, <3>1 DEF Joins
            <4>2. i # 1 => i - 1 \in 1 .. k BY <3>1
            <4> QED BY <3>1, <4>1, <4>2
        <3>2. CASE i = k + 1
            <4>1. i # 1 => k \in 1 .. k /\ i - 1 = k BY <3>2
            <4>2. i \notin 1 .. k BY <3>2
            <4> QED BY <3>2, <4>1, <4>2
        <3> QED BY <3>1, <3>2
    <2>3. g = [i \in 1 .. k + 1 |-> IF i = 1 THEN ss[i] ELSE g[i - 1] \o ss[i]]
        <3>1. [i \in 1 .. k + 1 |-> g[i]] = [i \in 1 .. k + 1 |-> IF i = 1 THEN ss[i] ELSE g[i - 1] \o ss[i]]
            <4> HIDE DEF g
            <4> QED BY <2>2
        <3>2. g = [i \in 1 .. k + 1 |-> g[i]] OBVIOUS
        <3> HIDE DEF g
        <3> QED BY <3>1, <3>2
    <2>4. Joins(ss, g, k + 1)
        <3> HIDE DEF g
        <3> QED BY <2>3 DEF Joins
    <2> QED BY <2>4
<1>3. Nat \subseteq G
    <2> HIDE DEF G
    <2> QED BY <1>1, <1>2, NaturalsClosed
<1>4. Len(ss) \in Nat BY LenProperties
<1> QED BY <1>3, <1>4

\* What such a function returns.
JoinOf(S, ss, f, n) == f[n] \in Seq(S) /\ Range(f[n]) = UNION {Range(ss[i]) : i \in 1 .. n}

LEMMA JoinValues ==
    ASSUME NEW S, NEW ss \in Seq(Seq(S)), NEW f, Joins(ss, f, Len(ss))
    PROVE  \A n \in 1 .. Len(ss) : JoinOf(S, ss, f, n)
<1> USE DEF JoinOf
<1> DEFINE A(n) == JoinOf(S, ss, f, n)
           G == {n \in Nat : n \in 1 .. Len(ss) => A(n)}
<1>0. Len(ss) \in Nat /\ \A i \in 1 .. Len(ss) : ss[i] \in Seq(S) BY LenProperties
<1>1. 0 \in G OBVIOUS
<1>2. ASSUME NEW n \in Nat, n \in G PROVE n + 1 \in G
    <2> SUFFICES ASSUME n + 1 \in 1 .. Len(ss) PROVE A(n + 1) OBVIOUS
    <2>0. \A i \in 1 .. Len(ss) : f[i] = IF i = 1 THEN ss[i] ELSE f[i - 1] \o ss[i] BY DEF Joins
    <2>1. f[n + 1] = IF n = 0 THEN ss[n + 1] ELSE f[n] \o ss[n + 1]
        <3>1. (n + 1) - 1 = n /\ (n + 1 = 1 <=> n = 0) OBVIOUS
        <3> QED BY <2>0, <3>1
    <2>2. ss[n + 1] \in Seq(S) BY <1>0
    <2>3. CASE n = 0
        <3>1. f[n + 1] = ss[n + 1] BY <2>1, <2>3
        <3>2. 1 .. n + 1 = {n + 1} BY <2>3
        <3>3. UNION {Range(ss[i]) : i \in 1 .. n + 1} = Range(ss[n + 1]) BY <3>2
        <3> QED BY <2>2, <3>1, <3>3
    <2>4. CASE n # 0
        <3>1. f[n] \in Seq(S) /\ Range(f[n]) = UNION {Range(ss[i]) : i \in 1 .. n} BY <1>0, <1>2, <2>4
        <3>2. f[n + 1] = f[n] \o ss[n + 1] BY <2>1, <2>4
        <3>3. f[n + 1] \in Seq(S) BY <2>2, <3>1, <3>2, ConcatProperties
        <3>4. Range(f[n + 1]) = Range(f[n]) \cup Range(ss[n + 1]) BY <2>2, <3>1, <3>2, RangeConcatenation
        <3>5. 1 .. n + 1 = (1 .. n) \cup {n + 1} OBVIOUS
        <3> QED BY <3>1, <3>3, <3>4, <3>5
    <2> QED BY <2>3, <2>4
<1>3. Nat \subseteq G
    <2> HIDE DEF G
    <2> QED BY <1>1, <1>2, NaturalsClosed
<1>4. \A n \in 1 .. Len(ss) : n \in G
    <2>1. 1 .. Len(ss) \subseteq Nat BY <1>0
    <2> HIDE DEF G
    <2> QED BY <1>3, <2>1
<1> QED BY <1>4

\* FlattenSeq of sequences over S is one, of all that is in them.
LEMMA FlattenLemma ==
    ASSUME NEW S, NEW ss \in Seq(Seq(S))
    PROVE  /\ FlattenSeq(ss) \in Seq(S)
           /\ Range(FlattenSeq(ss)) = UNION {Range(ss[i]) : i \in 1 .. Len(ss)}
<1>0. Len(ss) \in Nat /\ (Len(ss) = 0 => ss = <<>>) BY LenProperties, EmptySeq
<1>1. CASE Len(ss) = 0
    <2>1. FlattenSeq(ss) = <<>> BY <1>0, <1>1 DEF FlattenSeq
    <2>2. Range(<<>>) = {} BY DEF Range
    <2> QED BY <1>1, <2>1, <2>2
<1>2. CASE Len(ss) # 0
    <2> DEFINE f == CHOOSE f : f = [i \in 1 .. Len(ss) |-> IF i = 1 THEN ss[i] ELSE f[i - 1] \o ss[i]]
    <2>1. FlattenSeq(ss) = f[Len(ss)] BY <1>2 DEF FlattenSeq
    <2>2. Joins(ss, f, Len(ss))
        <3>1. \E g : g = [i \in 1 .. Len(ss) |-> IF i = 1 THEN ss[i] ELSE g[i - 1] \o ss[i]] BY JoinExists DEF Joins
        <3> QED BY <3>1 DEF Joins
    <2>3. Len(ss) \in 1 .. Len(ss) BY <1>0, <1>2
    <2> HIDE DEF f
    <2>4. JoinOf(S, ss, f, Len(ss)) BY <2>2, <2>3, JoinValues
    <2> QED BY <2>1, <2>4 DEF JoinOf
<1> QED BY <1>1, <1>2

\* Those(s, T) is a sequence of the elements of s that are in T.
LEMMA ThoseLemma ==
    ASSUME NEW S, NEW s \in Seq(S), NEW T
    PROVE  /\ Those(s, T) \in Seq(S)
           /\ Range(Those(s, T)) = Range(s) \cap T
<1> DEFINE ss == [i \in DOMAIN s |-> IF s[i] \in T THEN <<s[i]>> ELSE <<>>]
<1>0. Len(s) \in Nat /\ DOMAIN s = 1 .. Len(s) /\ \A i \in DOMAIN s : s[i] \in S BY LenProperties
<1>1. ss \in Seq(Seq(S)) /\ Len(ss) = Len(s)
    <2>1. \A i \in DOMAIN s : (IF s[i] \in T THEN <<s[i]>> ELSE <<>>) \in Seq(S) BY <1>0
    <2> QED BY <1>0, <2>1
<1>2. \A i \in DOMAIN s : Range(ss[i]) = {s[i]} \cap T
    <2>1. \A x : Range(<<x>>) = {x} BY DEF Range
    <2>2. Range(<<>>) = {} BY DEF Range
    <2> QED BY <2>1, <2>2
<1>3. UNION {Range(ss[i]) : i \in 1 .. Len(ss)} = Range(s) \cap T
    <2> HIDE DEF ss
    <2> QED BY <1>0, <1>1, <1>2 DEF Range
<1>4. Those(s, T) = FlattenSeq(ss) BY DEF Those
<1> HIDE DEF ss
<1> QED BY <1>1, <1>3, <1>4, FlattenLemma

-----------------------------------------------------------------------------
(* The same for one more element, and with it whatever holds of all lists. *)

\* Induction over sequences, for a property given as a set.
LEMMA SequencesClosed ==
    ASSUME NEW S, NEW P, <<>> \in P, \A s \in Seq(S), x \in S : s \in P => Append(s, x) \in P
    PROVE  Seq(S) \subseteq P
<1> DEFINE G == {n \in Nat : \A s \in Seq(S) : Len(s) = n => s \in P}
<1>1. 0 \in G BY EmptySeq
<1>2. ASSUME NEW n \in Nat, n \in G PROVE n + 1 \in G
    <2> SUFFICES ASSUME NEW s \in Seq(S), Len(s) = n + 1 PROVE s \in P OBVIOUS
    <2>1. s # <<>> BY EmptySeq
    <2>2. PICK t \in Seq(S), x \in S : s = Append(t, x) BY <2>1, SequenceEmptyOrAppend
    <2>3. Len(t) \in Nat /\ Len(s) = Len(t) + 1 BY <2>2, AppendProperties, LenProperties
    <2>4. t \in P BY <1>2, <2>3
    <2> QED BY <2>2, <2>4
<1>3. Nat \subseteq G
    <2> HIDE DEF G
    <2> QED BY <1>1, <1>2, NaturalsClosed
<1> QED BY <1>3, LenProperties

\* Functions that join sequences agree on those they share.
LEMMA JoinsAgree ==
    ASSUME NEW ss, NEW tt, NEW f, NEW g, NEW n \in Nat, NEW m \in Nat, n <= m,
           \A i \in 1 .. n : ss[i] = tt[i], Joins(ss, f, n), Joins(tt, g, m)
    PROVE  \A i \in 1 .. n : f[i] = g[i]
<1> DEFINE G == {k \in Nat : k \in 1 .. n => f[k] = g[k]}
<1>1. 0 \in G OBVIOUS
<1>2. ASSUME NEW k \in Nat, k \in G PROVE k + 1 \in G
    <2> SUFFICES ASSUME k + 1 \in 1 .. n PROVE f[k + 1] = g[k + 1] OBVIOUS
    <2>0. k + 1 \in 1 .. m OBVIOUS
    <2>1. f[k + 1] = IF k + 1 = 1 THEN ss[k + 1] ELSE f[(k + 1) - 1] \o ss[k + 1] BY DEF Joins
    <2>2. g[k + 1] = IF k + 1 = 1 THEN tt[k + 1] ELSE g[(k + 1) - 1] \o tt[k + 1] BY <2>0 DEF Joins
    <2>3. k + 1 # 1 => f[(k + 1) - 1] = g[(k + 1) - 1] BY <1>2
    <2>4. ss[k + 1] = tt[k + 1] OBVIOUS
    <2> QED BY <2>1, <2>2, <2>3, <2>4
<1>3. Nat \subseteq G
    <2> HIDE DEF G
    <2> QED BY <1>1, <1>2, NaturalsClosed
<1> QED BY <1>3

\* The function that FlattenSeq takes the last value of.
LEMMA FlattenJoins ==
    ASSUME NEW S, NEW ss \in Seq(Seq(S)), Len(ss) # 0
    PROVE  \E f : Joins(ss, f, Len(ss)) /\ FlattenSeq(ss) = f[Len(ss)]
<1> DEFINE f == CHOOSE f : f = [i \in 1 .. Len(ss) |-> IF i = 1 THEN ss[i] ELSE f[i - 1] \o ss[i]]
<1>1. FlattenSeq(ss) = f[Len(ss)] BY DEF FlattenSeq
<1>2. Joins(ss, f, Len(ss))
    <2>1. \E g : g = [i \in 1 .. Len(ss) |-> IF i = 1 THEN ss[i] ELSE g[i - 1] \o ss[i]] BY JoinExists DEF Joins
    <2> QED BY <2>1 DEF Joins
<1> HIDE DEF f
<1> QED BY <1>1, <1>2

\* One more sequence is joined at the end.
LEMMA FlattenStep ==
    ASSUME NEW S, NEW ss \in Seq(Seq(S)), NEW x \in Seq(S)
    PROVE  FlattenSeq(Append(ss, x)) = FlattenSeq(ss) \o x
<1> DEFINE tt == Append(ss, x)
           n == Len(ss)
           m == Len(tt)
<1>1. /\ tt \in Seq(Seq(S)) /\ n \in Nat /\ m = n + 1
      /\ \A i \in 1 .. n : ss[i] = tt[i]
      /\ tt[m] = x
    BY AppendProperties, LenProperties
<1>0. n = Len(ss) /\ m = Len(tt) OBVIOUS
<1> HIDE DEF tt, n, m
<1>2. PICK g : Joins(tt, g, m) /\ FlattenSeq(tt) = g[m]
    <2>1. Len(tt) # 0 BY <1>0, <1>1
    <2> QED BY <1>0, <1>1, <2>1, FlattenJoins
<1>3. g[m] = IF n = 0 THEN tt[m] ELSE g[n] \o tt[m]
    <2>1. m \in 1 .. m /\ (m = 1 <=> n = 0) /\ m - 1 = n BY <1>1
    <2>2. g = [i \in 1 .. m |-> IF i = 1 THEN tt[i] ELSE g[i - 1] \o tt[i]] BY <1>2 DEF Joins
    <2>3. g[m] = IF m = 1 THEN tt[m] ELSE g[m - 1] \o tt[m] BY <2>1, <2>2
    <2> QED BY <2>1, <2>3
<1>4. CASE n = 0
    <2>1. FlattenSeq(ss) = <<>> BY <1>0, <1>4, EmptySeq DEF FlattenSeq
    <2> QED BY <1>1, <1>2, <1>3, <1>4, <2>1, ConcatEmptySeq DEF tt
<1>5. CASE n # 0
    <2>1. PICK f : Joins(ss, f, n) /\ FlattenSeq(ss) = f[n] BY <1>0, <1>5, FlattenJoins
    <2>2. f[n] = g[n]
        <3>1. n \in Nat /\ m \in Nat /\ n <= m BY <1>1
        <3>2. Joins(ss, f, n) /\ Joins(tt, g, m) /\ \A i \in 1 .. n : ss[i] = tt[i] BY <1>1, <1>2, <2>1
        <3>3. \A i \in 1 .. n : f[i] = g[i] BY <3>1, <3>2, JoinsAgree
        <3>4. n \in 1 .. n BY <1>1, <1>5
        <3> QED BY <3>3, <3>4
    <2> QED BY <1>1, <1>2, <1>3, <1>5, <2>1, <2>2 DEF tt
<1> QED BY <1>4, <1>5

\* One more element is in the range.
LEMMA AppendRange ==
    ASSUME NEW S, NEW s \in Seq(S), NEW x \in S
    PROVE  Range(Append(s, x)) = Range(s) \cup {x}
<1> DEFINE one == <<x>>
<1>1. one \in Seq(S) /\ Range(one) = {x} BY DEF Range
<1>2. Append(s, x) = s \o one BY AppendIsConcat
<1> HIDE DEF one
<1>3. Range(s \o one) = Range(s) \cup Range(one) BY <1>1, RangeConcatenation
<1> QED BY <1>1, <1>2, <1>3

\* Nothing is kept of nothing.
LEMMA ThoseNone ==
    ASSUME NEW T
    PROVE  Those(<<>>, T) = <<>>
<1> DEFINE e == <<>>
<1>1. e \in Seq(Int) /\ Range(e) = {} BY DEF Range
<1> HIDE DEF e
<1>2. Those(e, T) \in Seq(Int) /\ Range(Those(e, T)) = {} BY <1>1, ThoseLemma
<1>3. Those(e, T) = <<>> BY <1>2, RangeOfNone
<1> QED BY <1>3 DEF e

\* What Those keeps of one more element.
LEMMA ThoseStep ==
    ASSUME NEW S, NEW s \in Seq(S), NEW x \in S, NEW T
    PROVE  Those(Append(s, x), T) = IF x \in T THEN Append(Those(s, T), x) ELSE Those(s, T)
<1> DEFINE of(r) == [i \in DOMAIN r |-> IF r[i] \in T THEN <<r[i]>> ELSE <<>>]
           one == IF x \in T THEN <<x>> ELSE <<>>
<1>0. /\ Len(s) \in Nat /\ DOMAIN s = 1 .. Len(s)
      /\ Append(s, x) \in Seq(S) /\ Len(Append(s, x)) = Len(s) + 1
      /\ \A i \in 1 .. Len(s) : Append(s, x)[i] = s[i]
      /\ Append(s, x)[Len(s) + 1] = x
    BY LenProperties, AppendProperties
<1>1. \A r \in Seq(S) : of(r) \in Seq(Seq(S)) /\ Len(of(r)) = Len(r)
    <2> SUFFICES ASSUME NEW r \in Seq(S) PROVE of(r) \in Seq(Seq(S)) /\ Len(of(r)) = Len(r) OBVIOUS
    <2>1. Len(r) \in Nat /\ DOMAIN r = 1 .. Len(r) /\ \A i \in DOMAIN r : r[i] \in S BY LenProperties
    <2>2. \A i \in DOMAIN r : (IF r[i] \in T THEN <<r[i]>> ELSE <<>>) \in Seq(S) BY <2>1
    <2> QED BY <2>1, <2>2
<1>2. one \in Seq(S) OBVIOUS
<1>3. of(Append(s, x)) = Append(of(s), one)
    <2>1. of(Append(s, x)) \in Seq(Seq(S)) /\ Len(of(Append(s, x))) = Len(s) + 1 BY <1>0, <1>1
    <2>2. /\ Append(of(s), one) \in Seq(Seq(S)) /\ Len(Append(of(s), one)) = Len(s) + 1
          /\ \A i \in 1 .. Len(s) : Append(of(s), one)[i] = of(s)[i]
          /\ Append(of(s), one)[Len(s) + 1] = one
        <3> HIDE DEF of, one
        <3> QED BY <1>1, <1>2, AppendProperties
    <2>3. \A i \in 1 .. Len(s) + 1 : of(Append(s, x))[i] = Append(of(s), one)[i]
        <3>1. \A i \in 1 .. Len(s) : of(Append(s, x))[i] = of(s)[i] BY <1>0
        <3>2. of(Append(s, x))[Len(s) + 1] = one BY <1>0
        <3> HIDE DEF of, one
        <3> QED BY <1>0, <2>2, <3>1, <3>2
    <2> HIDE DEF of, one
    <2> QED BY <2>1, <2>2, <2>3, SeqEqual
<1>4. Those(Append(s, x), T) = FlattenSeq(of(s)) \o one
    <2>1. Those(Append(s, x), T) = FlattenSeq(of(Append(s, x))) BY DEF Those
    <2> HIDE DEF of, one
    <2> QED BY <1>1, <1>2, <1>3, <2>1, FlattenStep
<1>5. Those(s, T) = FlattenSeq(of(s)) BY DEF Those
<1>6. Those(s, T) \in Seq(S) BY ThoseLemma
<1>7. Those(s, T) \o <<x>> = Append(Those(s, T), x) BY <1>6, AppendIsConcat
<1> HIDE DEF of
<1> QED BY <1>4, <1>5, <1>6, <1>7, ConcatEmptySeq

\* A sequence mapped element by element: [F(x) for x in s], F given as a function.
LEMMA MappedLemma ==
    ASSUME NEW S, NEW T, NEW s \in Seq(S), NEW f \in [DOMAIN s -> T]
    PROVE  /\ f \in Seq(T)
           /\ Range(f) = {f[i] : i \in DOMAIN s}
<1>1. Len(s) \in Nat /\ DOMAIN s = 1 .. Len(s) BY LenProperties
<1> QED BY <1>1, SeqDef DEF Range

\* The elements of s, each as m has it.
Mapped(s, m) == [i \in DOMAIN s |-> m[s[i]]]

\* They are values of m, as many.
LEMMA MappedValues ==
    ASSUME NEW S, NEW m, NEW s \in Seq(S)
    PROVE  Mapped(s, m) \in Seq({m[y] : y \in S}) /\ Len(Mapped(s, m)) = Len(s)
<1> DEFINE R == {m[y] : y \in S}
<1>1. \A y \in S : m[y] \in R OBVIOUS
<1> HIDE DEF R
<1>2. Len(s) \in Nat /\ DOMAIN s = 1 .. Len(s) /\ \A i \in DOMAIN s : s[i] \in S BY LenProperties
<1>3. \A i \in DOMAIN s : m[s[i]] \in R BY <1>1, <1>2
<1>4. Mapped(s, m) \in Seq(R) /\ Len(Mapped(s, m)) = Len(s) BY <1>2, <1>3 DEF Mapped
<1> QED BY <1>4 DEF R

\* One more is added where it was.
LEMMA MappedStep ==
    ASSUME NEW S, NEW m, NEW s \in Seq(S), NEW x \in S
    PROVE  Mapped(Append(s, x), m) = Append(Mapped(s, m), m[x])
<1> DEFINE R == {m[y] : y \in S}
<1>0. \A y \in S : m[y] \in R OBVIOUS
<1>1. \A r \in Seq(S) : Mapped(r, m) \in Seq(R) /\ Len(Mapped(r, m)) = Len(r) BY MappedValues
<1> HIDE DEF R
<1>2. /\ Len(s) \in Nat /\ DOMAIN s = 1 .. Len(s) /\ m[x] \in R
      /\ Append(s, x) \in Seq(S) /\ Len(Append(s, x)) = Len(s) + 1
      /\ DOMAIN Append(s, x) = 1 .. Len(s) + 1
      /\ \A i \in 1 .. Len(s) : Append(s, x)[i] = s[i]
      /\ Append(s, x)[Len(s) + 1] = x
    BY <1>0, LenProperties, AppendProperties
<1>3. /\ Append(Mapped(s, m), m[x]) \in Seq(R) /\ Len(Append(Mapped(s, m), m[x])) = Len(s) + 1
      /\ \A i \in 1 .. Len(s) : Append(Mapped(s, m), m[x])[i] = Mapped(s, m)[i]
      /\ Append(Mapped(s, m), m[x])[Len(s) + 1] = m[x]
    BY <1>1, <1>2, AppendProperties
<1>4. \A i \in 1 .. Len(s) + 1 : Mapped(Append(s, x), m)[i] = Append(Mapped(s, m), m[x])[i]
    <2> SUFFICES ASSUME NEW i \in 1 .. Len(s) + 1 PROVE Mapped(Append(s, x), m)[i] = Append(Mapped(s, m), m[x])[i] OBVIOUS
    <2>1. Mapped(Append(s, x), m)[i] = m[Append(s, x)[i]] BY <1>2 DEF Mapped
    <2>2. i \in 1 .. Len(s) => Mapped(s, m)[i] = m[s[i]] BY <1>2 DEF Mapped
    <2> QED BY <1>2, <1>3, <2>1, <2>2
<1>5. Mapped(Append(s, x), m) \in Seq(R) /\ Len(Mapped(Append(s, x), m)) = Len(s) + 1 BY <1>1, <1>2
<1>6. Mapped(Append(s, x), m) = Append(Mapped(s, m), m[x]) BY <1>3, <1>4, <1>5, SeqEqual
<1> QED BY <1>6

\* Those keeps all there are, if all are wanted.
LEMMA ThoseAll ==
    ASSUME NEW S, NEW s \in Seq(S), NEW T, Range(s) \subseteq T
    PROVE  Those(s, T) = s
<1> DEFINE P == {r \in Seq(S) : Range(r) \subseteq T => Those(r, T) = r}
<1>1. <<>> \in P BY EmptySeq, ThoseNone
<1>2. ASSUME NEW r \in Seq(S), NEW x \in S, r \in P PROVE Append(r, x) \in P
    <2>1. Append(r, x) \in Seq(S) BY AppendProperties
    <2>2. Range(Append(r, x)) = Range(r) \cup {x} BY AppendRange
    <2>3. ASSUME Range(Append(r, x)) \subseteq T PROVE Those(Append(r, x), T) = Append(r, x)
        <3>1. Range(r) \subseteq T /\ x \in T BY <2>2, <2>3
        <3>2. Those(r, T) = r BY <1>2, <3>1
        <3> QED BY <3>1, <3>2, ThoseStep
    <2> QED BY <2>1, <2>3
<1>3. Seq(S) \subseteq P
    <2> HIDE DEF P
    <2> QED BY <1>1, <1>2, SequencesClosed
<1> QED BY <1>3

\* Of the elements of s, m takes those in T to U and no others.
TakesTo(m, s, T, U) == \A x \in Range(s) : x \in T <=> m[x] \in U

\* Those of a mapped sequence are those mapped, if what is wanted is mapped to what is.
LEMMA ThoseMapped ==
    ASSUME NEW S, NEW m, NEW s \in Seq(S), NEW T, NEW U,
           TakesTo(m, s, T, U)
    PROVE  Those(Mapped(s, m), U) = Mapped(Those(s, T), m)
<1> DEFINE P == {r \in Seq(S) : TakesTo(m, r, T, U) => Those(Mapped(r, m), U) = Mapped(Those(r, T), m)}
<1>1. <<>> \in P
    <2>1. Mapped(<<>>, m) = <<>> BY DEF Mapped
    <2> QED BY <2>1, EmptySeq, ThoseNone
<1>2. ASSUME NEW r \in Seq(S), NEW x \in S, r \in P, TakesTo(m, Append(r, x), T, U)
      PROVE  Those(Mapped(Append(r, x), m), U) = Mapped(Those(Append(r, x), T), m)
    <2>0. TakesTo(m, r, T, U) /\ (x \in T <=> m[x] \in U)
        <3>1. Range(Append(r, x)) = Range(r) \cup {x} BY AppendRange
        <3> QED BY <1>2, <3>1 DEF TakesTo
    <2> DEFINE R == {m[y] : y \in S}
    <2>1. Mapped(r, m) \in Seq(R) /\ m[x] \in R /\ Those(r, T) \in Seq(S) BY MappedValues, ThoseLemma
    <2> HIDE DEF R
    <2>2. Mapped(Append(r, x), m) = Append(Mapped(r, m), m[x]) BY MappedStep
    <2>3. Those(Append(Mapped(r, m), m[x]), U) = IF x \in T THEN Append(Those(Mapped(r, m), U), m[x]) ELSE Those(Mapped(r, m), U)
        <3>1. \A t \in Seq(R), y \in R : Those(Append(t, y), U) = IF y \in U THEN Append(Those(t, U), y) ELSE Those(t, U)
            BY ThoseStep
        <3> QED BY <2>0, <2>1, <3>1
    <2>4. Those(Append(r, x), T) = IF x \in T THEN Append(Those(r, T), x) ELSE Those(r, T) BY ThoseStep
    <2>5. Mapped(Append(Those(r, T), x), m) = Append(Mapped(Those(r, T), m), m[x])
        <3> DEFINE t == Those(r, T)
        <3>1. t \in Seq(S) BY <2>1
        <3> HIDE DEF t
        <3>2. Mapped(Append(t, x), m) = Append(Mapped(t, m), m[x]) BY <3>1, MappedStep
        <3> QED BY <3>2 DEF t
    <2>6. Those(Mapped(r, m), U) = Mapped(Those(r, T), m) BY <1>2, <2>0
    <2> QED BY <2>2, <2>3, <2>4, <2>5, <2>6
<1>3. \A r \in Seq(S), x \in S : r \in P => Append(r, x) \in P
    <2>1. \A r \in Seq(S), x \in S : Append(r, x) \in Seq(S) BY AppendProperties
    <2> QED BY <1>2, <2>1
<1>4. Seq(S) \subseteq P
    <2> HIDE DEF P
    <2> QED BY <1>1, <1>3, SequencesClosed
<1> QED BY <1>4

-----------------------------------------------------------------------------
(* Counting and ranking.                                                   *)

\* Those kept of those kept.
LEMMA ThoseOfThose ==
    ASSUME NEW S, NEW s \in Seq(S), NEW T, NEW U
    PROVE  Those(Those(s, T), U) = Those(s, T \cap U)
<1> DEFINE P == {r \in Seq(S) : Those(Those(r, T), U) = Those(r, T \cap U)}
<1>1. <<>> \in P BY EmptySeq, ThoseNone
<1>2. ASSUME NEW r \in Seq(S), NEW x \in S, r \in P PROVE Append(r, x) \in P
    <2>1. Append(r, x) \in Seq(S) /\ Those(r, T) \in Seq(S) BY AppendProperties, ThoseLemma
    <2>2. Those(Append(r, x), T) = IF x \in T THEN Append(Those(r, T), x) ELSE Those(r, T) BY ThoseStep
    <2>3. Those(Append(r, x), T \cap U) = IF x \in T \cap U THEN Append(Those(r, T \cap U), x) ELSE Those(r, T \cap U)
        BY ThoseStep
    <2>4. Those(Append(Those(r, T), x), U) = IF x \in U THEN Append(Those(Those(r, T), U), x) ELSE Those(Those(r, T), U)
        BY <2>1, ThoseStep
    <2>5. Those(Those(r, T), U) = Those(r, T \cap U) BY <1>2
    <2>6. Those(Those(Append(r, x), T), U) = Those(Append(r, x), T \cap U)
        <3>1. x \in T \cap U <=> x \in T /\ x \in U OBVIOUS
        <3>2. CASE x \notin T BY <2>2, <2>3, <2>5, <3>1, <3>2
        <3>3. CASE x \in T /\ x \notin U BY <2>2, <2>3, <2>4, <2>5, <3>1, <3>3
        <3>4. CASE x \in T /\ x \in U BY <2>2, <2>3, <2>4, <2>5, <3>1, <3>4
        <3> QED BY <3>2, <3>3, <3>4
    <2> QED BY <2>1, <2>6
<1>3. Seq(S) \subseteq P
    <2> HIDE DEF P
    <2> QED BY <1>1, <1>2, SequencesClosed
<1> QED BY <1>3

\* Those(s, T) is as long as there are places of s where an element of T is.
LEMMA ThoseCount ==
    ASSUME NEW S, NEW s \in Seq(S), NEW T
    PROVE  /\ IsFiniteSet({i \in DOMAIN s : s[i] \in T})
           /\ Len(Those(s, T)) = Cardinality({i \in DOMAIN s : s[i] \in T})
<1> DEFINE places(r) == {i \in DOMAIN r : r[i] \in T}
           P == {r \in Seq(S) : IsFiniteSet(places(r)) /\ Len(Those(r, T)) = Cardinality(places(r))}
<1>1. <<>> \in P
    <2>1. places(<<>>) = {} OBVIOUS
    <2>2. Len(<<>>) = 0 OBVIOUS
    <2>3. <<>> \in Seq(S) /\ Those(<<>>, T) = <<>> BY EmptySeq, ThoseNone
    <2>4. IsFiniteSet({}) /\ Cardinality({}) = 0 BY FS_EmptySet
    <2> HIDE DEF places
    <2> QED BY <2>1, <2>2, <2>3, <2>4
<1>2. ASSUME NEW r \in Seq(S), NEW x \in S, r \in P PROVE Append(r, x) \in P
    <2>0. /\ Len(r) \in Nat /\ DOMAIN r = 1 .. Len(r)
          /\ Append(r, x) \in Seq(S) /\ DOMAIN Append(r, x) = 1 .. Len(r) + 1
          /\ \A i \in 1 .. Len(r) : Append(r, x)[i] = r[i]
          /\ Append(r, x)[Len(r) + 1] = x
        BY LenProperties, AppendProperties
    <2>1. places(Append(r, x)) = IF x \in T THEN places(r) \cup {Len(r) + 1} ELSE places(r)
        <3>1. places(r) = {i \in 1 .. Len(r) : Append(r, x)[i] \in T} BY <2>0
        <3>2. places(Append(r, x)) = {i \in 1 .. Len(r) + 1 : Append(r, x)[i] \in T} BY <2>0
        <3>3. Len(r) + 1 \in places(Append(r, x)) <=> x \in T BY <2>0, <3>2
        <3>4. places(Append(r, x)) = places(r) \cup ({Len(r) + 1} \cap places(Append(r, x)))
            BY <2>0, <3>1, <3>2
        <3> HIDE DEF places
        <3> QED BY <3>3, <3>4
    <2>2. Len(r) + 1 \notin places(r) BY <2>0
    <2>3. IsFiniteSet(places(r)) /\ Len(Those(r, T)) = Cardinality(places(r)) BY <1>2
    <2>4. Those(r, T) \in Seq(S) BY ThoseLemma
    <2>5. Len(Append(Those(r, T), x)) = Len(Those(r, T)) + 1 BY <2>4, AppendProperties
    <2>6. Those(Append(r, x), T) = IF x \in T THEN Append(Those(r, T), x) ELSE Those(r, T) BY ThoseStep
    <2>7. IsFiniteSet(places(Append(r, x))) /\ Len(Those(Append(r, x), T)) = Cardinality(places(Append(r, x)))
        <3> HIDE DEF places
        <3>1. /\ IsFiniteSet(places(r) \cup {Len(r) + 1})
              /\ Cardinality(places(r) \cup {Len(r) + 1}) = Cardinality(places(r)) + 1
            BY <2>2, <2>3, FS_AddElement
        <3> QED BY <2>1, <2>3, <2>5, <2>6, <3>1
    <2> QED BY <2>0, <2>7
<1>3. Seq(S) \subseteq P
    <2> HIDE DEF P
    <2> QED BY <1>1, <1>2, SequencesClosed
<1> QED BY <1>3

\* The members of S that come before i, in the order R.
Earlier(R, S, i) == {j \in S : <<j, i>> \in R}

\* In a strict order of S, each number under that of its members is that of the members
\* before one and only one of them; one before another has fewer.
LEMMA PlacesRanked ==
    ASSUME NEW S, IsFiniteSet(S), NEW R,
           \A i \in S : <<i, i>> \notin R,
           \A i, j, k \in S : <<i, j>> \in R /\ <<j, k>> \in R => <<i, k>> \in R,
           \A i, j \in S : i = j \/ <<i, j>> \in R \/ <<j, i>> \in R
    PROVE  /\ \A i \in S : Cardinality(Earlier(R, S, i)) \in 0 .. Cardinality(S) - 1
           /\ \A i, j \in S : <<i, j>> \in R => Cardinality(Earlier(R, S, i)) < Cardinality(Earlier(R, S, j))
           /\ \A k \in 1 .. Cardinality(S) : \E i \in S : Cardinality(Earlier(R, S, i)) = k - 1
<1> DEFINE E(i) == Earlier(R, S, i)
           n == Cardinality(S)
<1>0. n \in Nat BY FS_CardinalityType
<1>1. \A i \in S : IsFiniteSet(E(i)) /\ Cardinality(E(i)) \in 0 .. n - 1
    <2> SUFFICES ASSUME NEW i \in S PROVE IsFiniteSet(E(i)) /\ Cardinality(E(i)) \in 0 .. n - 1 OBVIOUS
    <2>1. E(i) \in SUBSET S /\ E(i) # S BY DEF Earlier
    <2> HIDE DEF E
    <2>2. IsFiniteSet(E(i)) /\ Cardinality(E(i)) <= n /\ Cardinality(E(i)) # n BY <1>0, <2>1, FS_Subset
    <2>3. Cardinality(E(i)) \in Nat BY <2>2, FS_CardinalityType
    <2> QED BY <1>0, <2>2, <2>3
<1>2. \A i, j \in S : <<i, j>> \in R => Cardinality(E(i)) < Cardinality(E(j))
    <2> SUFFICES ASSUME NEW i \in S, NEW j \in S, <<i, j>> \in R
                 PROVE  Cardinality(E(i)) < Cardinality(E(j)) OBVIOUS
    <2>1. E(i) \in SUBSET E(j) BY DEF Earlier
    <2>2. i \in E(j) /\ i \notin E(i) BY DEF Earlier
    <2> HIDE DEF E
    <2>3. Cardinality(E(i)) <= Cardinality(E(j)) /\ Cardinality(E(i)) # Cardinality(E(j)) BY <1>1, <2>1, <2>2, FS_Subset
    <2> QED BY <1>1, <2>3
<1>3. \A k \in 1 .. n : \E i \in S : Cardinality(E(i)) = k - 1
    <2> DEFINE f == [i \in S |-> Cardinality(E(i)) + 1]
    <2> HIDE DEF E
    <2>1. f \in [S -> 1 .. n]
        <3>1. \A i \in S : Cardinality(E(i)) + 1 \in 1 .. n BY <1>0, <1>1
        <3> QED BY <3>1
    <2>2. \A i, j \in S : f[i] = f[j] => i = j
        <3> SUFFICES ASSUME NEW i \in S, NEW j \in S, f[i] = f[j] PROVE i = j OBVIOUS
        <3>1. Cardinality(E(i)) \in Nat /\ Cardinality(E(j)) \in Nat /\ Cardinality(E(i)) + 1 = Cardinality(E(j)) + 1
            BY <1>1
        <3>2. ~(<<i, j>> \in R) /\ ~(<<j, i>> \in R)
            <4>1. ~(Cardinality(E(i)) < Cardinality(E(j))) /\ ~(Cardinality(E(j)) < Cardinality(E(i))) BY <3>1
            <4> QED BY <1>2, <4>1
        <3> QED BY <3>2
    <2>3. \A k \in 1 .. n : \E i \in S : f[i] = k
        <3>0. DOMAIN f = S OBVIOUS
        <3> HIDE DEF f
        <3>1. f \in Injection(S, 1 .. n) BY <2>1, <2>2, <3>0 DEF Injection, IsInjective
        <3>2. f \in Surjection(S, 1 .. n) BY <1>0, <3>1, FS_Injection, FS_Interval
        <3> QED BY <3>2 DEF Surjection
    <2>4. \A i \in S : f[i] = Cardinality(E(i)) + 1 OBVIOUS
    <2> HIDE DEF f
    <2> SUFFICES ASSUME NEW k \in 1 .. n PROVE \E i \in S : Cardinality(E(i)) = k - 1 OBVIOUS
    <2>5. PICK i \in S : f[i] = k BY <2>3
    <2>6. Cardinality(E(i)) \in Nat /\ Cardinality(E(i)) + 1 = k BY <1>1, <2>4, <2>5
    <2> QED BY <2>6
<1> QED BY <1>1, <1>2, <1>3

\* The members of S that come after i.
Following(R, S, i) == {j \in S : <<i, j>> \in R}

\* The members of S before and after one are all the others.
LEMMA PlacesSplit ==
    ASSUME NEW S, IsFiniteSet(S), NEW R,
           \A i \in S : <<i, i>> \notin R,
           \A i, j, k \in S : <<i, j>> \in R /\ <<j, k>> \in R => <<i, k>> \in R,
           \A i, j \in S : i = j \/ <<i, j>> \in R \/ <<j, i>> \in R,
           NEW i \in S
    PROVE  /\ IsFiniteSet(Following(R, S, i)) /\ IsFiniteSet(Earlier(R, S, i))
           /\ Cardinality(Following(R, S, i)) \in Nat /\ Cardinality(Earlier(R, S, i)) \in Nat
           /\ Cardinality(Earlier(R, S, i)) + 1 + Cardinality(Following(R, S, i)) = Cardinality(S)
<1> DEFINE E == Earlier(R, S, i)
           L == Following(R, S, i)
<1>1. E \in SUBSET S /\ L \in SUBSET S BY DEF Earlier, Following
<1>2. IsFiniteSet(E) /\ IsFiniteSet(L)
    <2> HIDE DEF E, L
    <2> QED BY <1>1, FS_Subset
<1>3. i \notin E /\ i \notin L BY DEF Earlier, Following
<1>4. E \cap L = {} BY DEF Earlier, Following
<1>5. S = (E \cup {i}) \cup L BY DEF Earlier, Following
<1> HIDE DEF E, L
<1>6. Cardinality(E) \in Nat /\ Cardinality(L) \in Nat BY <1>2, FS_CardinalityType
<1>7. IsFiniteSet(E \cup {i}) /\ Cardinality(E \cup {i}) = Cardinality(E) + 1 BY <1>2, <1>3, FS_AddElement
<1>8. (E \cup {i}) \cap L = {} BY <1>3, <1>4
<1>9. Cardinality((E \cup {i}) \cup L) = Cardinality(E \cup {i}) + Cardinality(L)
    <2>1. Cardinality((E \cup {i}) \cup L) = Cardinality(E \cup {i}) + Cardinality(L) - Cardinality((E \cup {i}) \cap L)
        BY <1>2, <1>7, FS_Union
    <2>2. Cardinality((E \cup {i}) \cap L) = 0 BY <1>8, FS_EmptySet
    <2> QED BY <1>6, <1>7, <2>1, <2>2
<1> QED BY <1>2, <1>5, <1>6, <1>7, <1>9 DEF E, L

\* The member of S that has k - 1 before it.
InPlace(R, S, k) == CHOOSE i \in S : Cardinality(Earlier(R, S, i)) = k - 1

\* The members of S by number: each one once, and in order.
LEMMA RankedLemma ==
    ASSUME NEW S, IsFiniteSet(S), NEW R,
           \A i \in S : <<i, i>> \notin R,
           \A i, j, k \in S : <<i, j>> \in R /\ <<j, k>> \in R => <<i, k>> \in R,
           \A i, j \in S : i = j \/ <<i, j>> \in R \/ <<j, i>> \in R
    PROVE  /\ Cardinality(S) \in Nat
           /\ \A k \in 1 .. Cardinality(S) :
                InPlace(R, S, k) \in S /\ Cardinality(Earlier(R, S, InPlace(R, S, k))) = k - 1
           /\ \A i \in S : /\ Cardinality(Earlier(R, S, i)) + 1 \in 1 .. Cardinality(S)
                           /\ InPlace(R, S, Cardinality(Earlier(R, S, i)) + 1) = i
           /\ \A k, l \in 1 .. Cardinality(S) : k < l => <<InPlace(R, S, k), InPlace(R, S, l)>> \in R
<1> DEFINE n == Cardinality(S)
           c(i) == Cardinality(Earlier(R, S, i))
<1>1. n \in Nat BY FS_CardinalityType
<1>2. /\ \A i \in S : c(i) \in 0 .. n - 1
      /\ \A i, j \in S : <<i, j>> \in R => c(i) < c(j)
      /\ \A k \in 1 .. n : \E i \in S : c(i) = k - 1
    BY PlacesRanked
<1>3. \A k \in 1 .. n : InPlace(R, S, k) \in S /\ c(InPlace(R, S, k)) = k - 1 BY <1>2 DEF InPlace
<1> HIDE DEF c, n
<1>4. \A i, j \in S : c(i) = c(j) => i = j
    <2> SUFFICES ASSUME NEW i \in S, NEW j \in S, c(i) = c(j) PROVE i = j OBVIOUS
    <2>1. c(i) \in Int /\ c(j) \in Int BY <1>1, <1>2
    <2>2. ~(c(i) < c(j)) /\ ~(c(j) < c(i)) BY <2>1
    <2> QED BY <1>2, <2>2
<1>5. \A i \in S : c(i) + 1 \in 1 .. n /\ InPlace(R, S, c(i) + 1) = i
    <2> SUFFICES ASSUME NEW i \in S PROVE c(i) + 1 \in 1 .. n /\ InPlace(R, S, c(i) + 1) = i OBVIOUS
    <2>1. c(i) \in 0 .. n - 1 BY <1>2
    <2>2. c(i) + 1 \in 1 .. n /\ (c(i) + 1) - 1 = c(i) BY <1>1, <2>1
    <2> QED BY <1>3, <1>4, <2>2
<1>6. \A k, l \in 1 .. n : k < l => <<InPlace(R, S, k), InPlace(R, S, l)>> \in R
    <2> SUFFICES ASSUME NEW k \in 1 .. n, NEW l \in 1 .. n, k < l
                 PROVE  <<InPlace(R, S, k), InPlace(R, S, l)>> \in R OBVIOUS
    <2> DEFINE i == InPlace(R, S, k)
               j == InPlace(R, S, l)
    <2>1. i \in S /\ j \in S /\ c(i) = k - 1 /\ c(j) = l - 1 BY <1>3
    <2> HIDE DEF i, j
    <2>2. i # j /\ ~(c(j) < c(i)) BY <1>1, <2>1
    <2>3. <<i, j>> \in R BY <1>2, <2>1, <2>2
    <2> QED BY <2>3 DEF i, j
<1> QED BY <1>1, <1>3, <1>5, <1>6 DEF c, n

\* Sorted returns the numbers of a set, each once, from the least.
LEMMA SortedLemma ==
    ASSUME NEW S \in SUBSET Int, IsFiniteSet(S)
    PROVE  /\ Cardinality(S) \in Nat /\ Sorted(S) \in Seq(S) /\ Len(Sorted(S)) = Cardinality(S)
           /\ Range(Sorted(S)) = S
           /\ \A k, l \in 1 .. Cardinality(S) : k < l => Sorted(S)[k] < Sorted(S)[l]
<1> DEFINE R == {p \in S \X S : p[1] < p[2]}
           n == Cardinality(S)
           s == Sorted(S)
<1>1. \A i, j \in S : <<i, j>> \in R <=> i < j OBVIOUS
<1>2. \A i \in S : Earlier(R, S, i) = {j \in S : j < i} BY <1>1 DEF Earlier
<1> HIDE DEF R
<1>3. /\ \A i \in S : <<i, i>> \notin R
      /\ \A i, j, k \in S : <<i, j>> \in R /\ <<j, k>> \in R => <<i, k>> \in R
      /\ \A i, j \in S : i = j \/ <<i, j>> \in R \/ <<j, i>> \in R
    <2>1. \A i \in S : i \in Int OBVIOUS
    <2> QED BY <1>1, <2>1
<1>4. /\ n \in Nat
      /\ \A k \in 1 .. n : InPlace(R, S, k) \in S
      /\ \A i \in S : \E k \in 1 .. n : InPlace(R, S, k) = i
      /\ \A k, l \in 1 .. n : k < l => <<InPlace(R, S, k), InPlace(R, S, l)>> \in R
    <2>1. /\ n \in Nat
          /\ \A k \in 1 .. n : InPlace(R, S, k) \in S /\ Cardinality(Earlier(R, S, InPlace(R, S, k))) = k - 1
          /\ \A i \in S : /\ Cardinality(Earlier(R, S, i)) + 1 \in 1 .. n
                          /\ InPlace(R, S, Cardinality(Earlier(R, S, i)) + 1) = i
          /\ \A k, l \in 1 .. n : k < l => <<InPlace(R, S, k), InPlace(R, S, l)>> \in R
        BY <1>3, RankedLemma
    <2> HIDE DEF n
    <2> QED BY <2>1
<1>5. s = [k \in 1 .. n |-> InPlace(R, S, k)]
    <2> DEFINE nth(k) == CHOOSE x \in S : Cardinality({y \in S : y < x}) = k - 1
    <2>1. \A k : InPlace(R, S, k) = nth(k) BY <1>2 DEF InPlace
    <2>2. s = [k \in 1 .. n |-> nth(k)] BY DEF Sorted
    <2> HIDE DEF nth, s
    <2> QED BY <2>1, <2>2
<1> HIDE DEF s, n
<1>6. s \in Seq(S) /\ Len(s) = n BY <1>4, <1>5
<1>7. Range(s) = S BY <1>4, <1>5 DEF Range
<1>8. \A k, l \in 1 .. n : k < l => s[k] < s[l]
    <2> SUFFICES ASSUME NEW k \in 1 .. n, NEW l \in 1 .. n, k < l PROVE s[k] < s[l] OBVIOUS
    <2>1. s[k] = InPlace(R, S, k) /\ s[l] = InPlace(R, S, l) BY <1>5
    <2>2. InPlace(R, S, k) \in S /\ InPlace(R, S, l) \in S /\ <<InPlace(R, S, k), InPlace(R, S, l)>> \in R BY <1>4
    <2> QED BY <1>1, <2>1, <2>2
<1> QED BY <1>4, <1>6, <1>7, <1>8 DEF s, n

\* The only such list: numbers that are listed in order are as Sorted lists them.
LEMMA SortedAsListed ==
    ASSUME NEW n \in Nat, NEW m \in [1 .. n -> Int], \A k, l \in 1 .. n : k < l => m[k] < m[l]
    PROVE  Sorted(Range(m)) = m
<1> DEFINE S == Range(m)
<1>1. S \in SUBSET Int /\ S = {m[k] : k \in 1 .. n} BY DEF Range
<1>2. \A k \in 0 .. n : LET first == {m[j] : j \in 1 .. k} IN IsFiniteSet(first) /\ Cardinality(first) = k
    <2> SUFFICES ASSUME NEW k \in 0 .. n
                 PROVE  LET first == {m[j] : j \in 1 .. k} IN IsFiniteSet(first) /\ Cardinality(first) = k OBVIOUS
    <2> DEFINE first == {m[j] : j \in 1 .. k}
               f == [j \in 1 .. k |-> m[j]]
    <2>1. \A i, j \in 1 .. k : f[i] = f[j] => i = j
        <3> SUFFICES ASSUME NEW i \in 1 .. k, NEW j \in 1 .. k, f[i] = f[j] PROVE i = j OBVIOUS
        <3>1. i \in 1 .. n /\ j \in 1 .. n /\ m[i] = m[j] /\ m[i] \in Int OBVIOUS
        <3>2. ~(i < j) /\ ~(j < i) BY <3>1
        <3> QED BY <3>1, <3>2
    <2>2. f \in [1 .. k -> first] /\ (\A x \in first : \E j \in 1 .. k : f[j] = x) /\ DOMAIN f = 1 .. k OBVIOUS
    <2> HIDE DEF f, first
    <2>3. f \in Bijection(1 .. k, first) BY <2>1, <2>2 DEF Bijection, Injection, Surjection, IsInjective
    <2>4. IsFiniteSet(1 .. k) /\ Cardinality(1 .. k) = k BY FS_Interval
    <2>5. IsFiniteSet(first) /\ Cardinality(first) = k BY <2>3, <2>4, FS_Bijection DEF ExistsBijection
    <2> QED BY <2>5 DEF first
<1>3. IsFiniteSet(S) /\ Cardinality(S) = n
    <2>1. n \in 0 .. n OBVIOUS
    <2> HIDE DEF S
    <2> QED BY <1>1, <1>2, <2>1
<1>4. \A k \in 1 .. n : Cardinality({y \in S : y < m[k]}) = k - 1
    <2> SUFFICES ASSUME NEW k \in 1 .. n PROVE Cardinality({y \in S : y < m[k]}) = k - 1 OBVIOUS
    <2>1. \A j \in 1 .. n : m[j] \in Int /\ (m[j] < m[k] <=> j < k)
        <3> SUFFICES ASSUME NEW j \in 1 .. n PROVE m[j] \in Int /\ (m[j] < m[k] <=> j < k) OBVIOUS
        <3>1. m[j] \in Int /\ m[k] \in Int /\ (k < j => m[k] < m[j]) /\ (j < k => m[j] < m[k]) OBVIOUS
        <3>2. k = j \/ k < j \/ j < k OBVIOUS
        <3> QED BY <3>1, <3>2
    <2>2. {y \in S : y < m[k]} = {m[j] : j \in 1 .. k - 1}
        <3>1. \A j : j \in 1 .. n /\ j < k <=> j \in 1 .. k - 1 OBVIOUS
        <3> HIDE DEF S
        <3> QED BY <1>1, <2>1, <3>1
    <2>3. k - 1 \in 0 .. n OBVIOUS
    <2> QED BY <1>2, <2>2, <2>3
<1> DEFINE c(x) == Cardinality({y \in S : y < x})
<1>5. \A k \in 1 .. n : (CHOOSE x \in S : c(x) = k - 1) = m[k]
    <2> SUFFICES ASSUME NEW k \in 1 .. n PROVE (CHOOSE x \in S : c(x) = k - 1) = m[k] OBVIOUS
    <2>1. m[k] \in S /\ c(m[k]) = k - 1 BY <1>1, <1>4
    <2>2. \A x \in S : c(x) = k - 1 => x = m[k]
        <3> SUFFICES ASSUME NEW x \in S, c(x) = k - 1 PROVE x = m[k] OBVIOUS
        <3>1. PICK j \in 1 .. n : x = m[j] BY <1>1
        <3>2. c(m[j]) = j - 1 BY <1>4
        <3>3. j - 1 = k - 1 BY <3>1, <3>2
        <3>4. j = k BY <3>3
        <3> QED BY <3>1, <3>4
    <2> HIDE DEF c, S
    <2> QED BY <2>1, <2>2
<1>6. Sorted(S) = [k \in 1 .. n |-> CHOOSE x \in S : c(x) = k - 1] BY <1>3 DEF Sorted
<1>7. m = [k \in 1 .. n |-> m[k]] OBVIOUS
<1> HIDE DEF S, c
<1>8. Sorted(S) = m BY <1>5, <1>6, <1>7
<1> QED BY <1>8 DEF S

\* A longer sequence, and those of two, three and four.
LEMMA Longer ==
    ASSUME NEW S, NEW s \in Seq(S), NEW k \in S, NEW t, t = Append(s, k)
    PROVE  t \in Seq(S) /\ Len(t) = Len(s) + 1 /\ (\A i \in 1 .. Len(s) : t[i] = s[i]) /\ t[Len(s) + 1] = k
<1>1. Append(s, k) \in Seq(S) /\ Len(Append(s, k)) = Len(s) + 1 BY AppendProperties
<1>2. \A i \in 1 .. Len(s) : Append(s, k)[i] = s[i] BY AppendProperties
<1>3. Append(s, k)[Len(s) + 1] = k BY AppendProperties
<1> QED BY <1>1, <1>2, <1>3

LEMMA SecondAdded ==
    ASSUME NEW S, NEW s \in Seq(S), NEW k \in S, Len(s) = 1
    PROVE  Append(s, k) = <<s[1], k>>
<1> DEFINE t == Append(s, k)
<1>0. t = Append(s, k) OBVIOUS
<1> HIDE DEF t
<1>1. t \in Seq(S) /\ Len(t) = Len(s) + 1 /\ (\A i \in 1 .. Len(s) : t[i] = s[i]) /\ t[Len(s) + 1] = k BY <1>0, Longer
<1>2. Len(t) = 2 /\ t[1] = s[1] /\ t[2] = k BY <1>1
<1>3. t = <<s[1], k>> BY <1>1, <1>2
<1> QED BY <1>3 DEF t

LEMMA ThirdAdded ==
    ASSUME NEW S, NEW s \in Seq(S), NEW k \in S, Len(s) = 2
    PROVE  Append(s, k) = <<s[1], s[2], k>>
<1> DEFINE t == Append(s, k)
<1>0. t = Append(s, k) OBVIOUS
<1> HIDE DEF t
<1>1. t \in Seq(S) /\ Len(t) = Len(s) + 1 /\ (\A i \in 1 .. Len(s) : t[i] = s[i]) /\ t[Len(s) + 1] = k BY <1>0, Longer
<1>2. Len(t) = 3 /\ t[1] = s[1] /\ t[2] = s[2] /\ t[3] = k BY <1>1
<1>3. t = <<s[1], s[2], k>> BY <1>1, <1>2
<1> QED BY <1>3 DEF t

LEMMA FourthAdded ==
    ASSUME NEW S, NEW s \in Seq(S), NEW k \in S, Len(s) = 3
    PROVE  Append(s, k) = <<s[1], s[2], s[3], k>>
<1> DEFINE t == Append(s, k)
<1>0. t = Append(s, k) OBVIOUS
<1> HIDE DEF t
<1>1. t \in Seq(S) /\ Len(t) = Len(s) + 1 /\ (\A i \in 1 .. Len(s) : t[i] = s[i]) /\ t[Len(s) + 1] = k BY <1>0, Longer
<1>2. Len(t) = 4 /\ t[1] = s[1] /\ t[2] = s[2] /\ t[3] = s[3] /\ t[4] = k BY <1>1
<1>3. t = <<s[1], s[2], s[3], k>> BY <1>1, <1>2
<1> QED BY <1>3 DEF t

LEMMA Appended ==
    /\ \A a, k : Append(<<a>>, k) = <<a, k>>
    /\ \A a, b, k : Append(<<a, b>>, k) = <<a, b, k>>
    /\ \A a, b, c, k : Append(<<a, b, c>>, k) = <<a, b, c, k>>
<1>1. ASSUME NEW a, NEW k PROVE Append(<<a>>, k) = <<a, k>>
    <2>1. <<a>> \in Seq({a, k}) /\ k \in {a, k} /\ Len(<<a>>) = 1 /\ <<a>>[1] = a OBVIOUS
    <2>2. Append(<<a>>, k) = << <<a>>[1], k>> BY <2>1, SecondAdded
    <2> QED BY <2>1, <2>2
<1>2. ASSUME NEW a, NEW b, NEW k PROVE Append(<<a, b>>, k) = <<a, b, k>>
    <2>1. <<a, b>> \in Seq({a, b, k}) /\ k \in {a, b, k} /\ Len(<<a, b>>) = 2 /\ <<a, b>>[1] = a /\ <<a, b>>[2] = b OBVIOUS
    <2>2. Append(<<a, b>>, k) = << <<a, b>>[1], <<a, b>>[2], k>> BY <2>1, ThirdAdded
    <2> QED BY <2>1, <2>2
<1>3. ASSUME NEW a, NEW b, NEW c, NEW k PROVE Append(<<a, b, c>>, k) = <<a, b, c, k>>
    <2> DEFINE s == <<a, b, c>>
    <2>1. s \in Seq({a, b, c, k}) /\ k \in {a, b, c, k} /\ Len(s) = 3 /\ s[1] = a /\ s[2] = b /\ s[3] = c OBVIOUS
    <2>2. Append(s, k) = <<s[1], s[2], s[3], k>> BY <2>1, FourthAdded
    <2> QED BY <2>1, <2>2
<1> QED BY <1>1, <1>2, <1>3

\* A sequence is a prefix of one that goes on from it.
LEMMA PrefixOf ==
    ASSUME NEW S, NEW s \in Seq(S), NEW t \in Seq(S), Len(s) <= Len(t), \A i \in 1 .. Len(s) : s[i] = t[i]
    PROVE  IsPrefix(s, t)
<1> DEFINE n == Len(s)
           u == SubSeq(s, 1, n)
           v == SubSeq(t, 1, n)
<1>1. u \in Seq(S) /\ Len(u) = n /\ \A i \in 1 .. n : u[i] = s[i] BY SubSeqProperties, LenProperties
<1>2. v \in Seq(S) /\ Len(v) = n /\ \A i \in 1 .. n : v[i] = t[i] BY SubSeqProperties, LenProperties
<1> HIDE DEF u, v
<1>3. u = v BY <1>1, <1>2
<1> QED BY <1>3 DEF IsPrefix, u, v

LEMMA TwoOfThree == \A g, n, x : IsPrefix(<<g, n>>, <<g, n, x>>)
<1> SUFFICES ASSUME NEW g, NEW n, NEW x PROVE IsPrefix(<<g, n>>, <<g, n, x>>) OBVIOUS
<1> DEFINE s == <<g, n>>
           t == <<g, n, x>>
<1>1. s \in Seq({g, n, x}) /\ t \in Seq({g, n, x}) OBVIOUS
<1>2. Len(s) = 2 /\ Len(t) = 3 /\ s[1] = t[1] /\ s[2] = t[2] OBVIOUS
<1> HIDE DEF s, t
<1>3. Len(s) <= Len(t) /\ \A i \in 1 .. Len(s) : s[i] = t[i] BY <1>2
<1>4. IsPrefix(s, t) BY <1>1, <1>3, PrefixOf
<1> QED BY <1>4 DEF s, t

LEMMA TwoOfFour == \A g, n, x, y : IsPrefix(<<g, n>>, <<g, n, x, y>>)
<1> SUFFICES ASSUME NEW g, NEW n, NEW x, NEW y PROVE IsPrefix(<<g, n>>, <<g, n, x, y>>) OBVIOUS
<1> DEFINE s == <<g, n>>
           t == <<g, n, x, y>>
<1>1. s \in Seq({g, n, x, y}) /\ t \in Seq({g, n, x, y}) OBVIOUS
<1>2. Len(s) = 2 /\ Len(t) = 4 /\ s[1] = t[1] /\ s[2] = t[2] OBVIOUS
<1> HIDE DEF s, t
<1>3. Len(s) <= Len(t) /\ \A i \in 1 .. Len(s) : s[i] = t[i] BY <1>2
<1>4. IsPrefix(s, t) BY <1>1, <1>3, PrefixOf
<1> QED BY <1>4 DEF s, t
=============================================================================
