--------------------------- MODULE Converters_proofs ---------------------------
(***************************************************************************)
(* Proofs about Converters, for any sources, limits and number of runs.    *)
(* What FlattenSeq, TokensOf, Kept and Pack compute; what each action does *)
(* to a run, its thread, its process and the files; the invariant Base of  *)
(* all runs, and the invariants of a run that nobody disturbs; and, from   *)
(* them, that no report is lost, no half-written video and no unlocked     *)
(* copy are left behind, and that success means that the files are there.  *)
(***************************************************************************)
EXTENDS Converters, FiniteSetTheorems, SequenceTheorems, WellFoundedInduction, TLAPS

-----------------------------------------------------------------------------
(* Numbers and sequences.                                                  *)

\* Every set of numbers has a least one.
USE DEF told

LEMMA LeastOf == ASSUME NEW T, T \subseteq Nat, T # {} PROVE \E x \in T : \A y \in T : x <= y
<1>1. PICK x \in T : \A y \in T : <<y, x>> \notin OpToRel(<, Nat)
  BY NatLessThanWellFounded, WFMin
<1>2. \A y \in T : ~(y < x)
  BY <1>1 DEF OpToRel
<1> QED BY <1>2

\* What holds of 0, and of each number if of the one before, holds up to n.
LEMMA UpTo ==
    ASSUME NEW n \in Nat, NEW P, 0 \in P, \A i \in 1..n : i - 1 \in P => i \in P
    PROVE  \A i \in 0..n : i \in P
<1> DEFINE Bad == {i \in 0..n : i \notin P}
<1>1. SUFFICES ASSUME NEW i \in Bad, \A k \in Bad : i <= k PROVE FALSE
  <2>1. Bad \subseteq Nat
    OBVIOUS
  <2>2. Bad # {} => \E x \in Bad : \A y \in Bad : x <= y
    <3> HIDE DEF Bad
    <3> QED BY <2>1, LeastOf
  <2> QED BY <2>2
<1>2. i \in 1..n /\ i \notin P
  OBVIOUS
<1>3. i - 1 \in 0..n /\ ~(i <= i - 1)
  BY <1>2
<1>4. i - 1 \in P
  BY <1>1, <1>3
<1> QED BY <1>2, <1>4

\* A recursive definition on 0..n has a function that follows it.
Follows(f, base, step, n) == f[0] = base /\ \A i \in 1..n : f[i] = step[f[i - 1], i]

LEMMA Recursion ==
    ASSUME NEW S, NEW base \in S, NEW n \in Nat, NEW step \in [S \X (1..n) -> S]
    PROVE  \E f \in [0..n -> S] : Follows(f, base, step, n)
<1> DEFINE P == {m \in 0..n : \E f \in [0..m -> S] : Follows(f, base, step, m)}
<1>1. 0 \in P
  <2> DEFINE f == [i \in 0..0 |-> base]
  <2>1. f \in [0..0 -> S] /\ f[0] = base /\ 1..0 = {}
    OBVIOUS
  <2>2. Follows(f, base, step, 0)
    BY <2>1 DEF Follows
  <2> HIDE DEF f
  <2> QED BY <2>1, <2>2
<1>2. ASSUME NEW m \in 1..n, m - 1 \in P PROVE m \in P
  <2>1. PICK g \in [0..(m - 1) -> S] : Follows(g, base, step, m - 1)
    BY <1>2
  <2> DEFINE f == [i \in 0..m |-> IF i = m THEN step[g[m - 1], m] ELSE g[i]]
  <2>2. g[m - 1] \in S /\ step[g[m - 1], m] \in S
    <3>1. m - 1 \in 0..(m - 1)
      OBVIOUS
    <3> QED BY <3>1
  <2>3. f \in [0..m -> S]
    <3>1. \A i \in 0..m : i = m \/ i \in 0..(m - 1)
      OBVIOUS
    <3> QED BY <2>2, <3>1
  <2>4. f[0] = base
    <3>1. 0 \in 0..m /\ 0 # m
      OBVIOUS
    <3> QED BY <2>1, <3>1 DEF Follows
  <2>5. ASSUME NEW i \in 1..m PROVE f[i] = step[f[i - 1], i]
    <3>1. i \in 0..m /\ i - 1 \in 0..m /\ i - 1 # m
      OBVIOUS
    <3>2. f[i - 1] = g[i - 1]
      BY <3>1
    <3>3. CASE i = m
      BY <3>1, <3>2, <3>3
    <3>4. CASE i # m
      <4>1. i \in 1..(m - 1) /\ f[i] = g[i]
        BY <3>1, <3>4
      <4> QED BY <2>1, <3>2, <4>1 DEF Follows
    <3> QED BY <3>3, <3>4
  <2> HIDE DEF f
  <2>6. Follows(f, base, step, m)
    BY <2>4, <2>5 DEF Follows
  <2> QED BY <2>3, <2>6
<1>3. \A m \in 0..n : m \in P
  <2> HIDE DEF P
  <2> QED BY <1>1, <1>2, UpTo
<1>4. n \in P
  BY <1>3
<1> QED BY <1>4

\* What FlattenSeq computes.
LEMMA FlattenIs ==
    ASSUME NEW T, NEW ss \in Seq(Seq(T))
    PROVE  \E f \in [0..Len(ss) -> Seq(T)] :
              /\ f[0] = <<>> /\ \A i \in 1..Len(ss) : f[i] = f[i - 1] \o ss[i]
              /\ FlattenSeq(ss) = f[Len(ss)]
<1> DEFINE n == Len(ss)
           step == [x \in Seq(T) \X (1..n) |-> x[1] \o ss[x[2]]]
<1>1. n \in Nat /\ \A i \in 1..n : ss[i] \in Seq(T)
  OBVIOUS
<1>2. step \in [Seq(T) \X (1..n) -> Seq(T)]
  BY <1>1
<1>3. <<>> \in Seq(T)
  OBVIOUS
<1>4. PICK f \in [0..n -> Seq(T)] : Follows(f, <<>>, step, n)
  <2> HIDE DEF n, step
  <2> QED BY <1>1, <1>2, <1>3, Recursion
<1>5. f[0] = <<>>
  BY <1>4 DEF Follows
<1>6. ASSUME NEW i \in 1..n PROVE f[i] = f[i - 1] \o ss[i]
  <2>1. i - 1 \in 0..n
    BY <1>1
  <2>2. <<f[i - 1], i>> \in Seq(T) \X (1..n)
    BY <2>1
  <2>3. f[i] = step[<<f[i - 1], i>>]
    BY <1>4 DEF Follows
  <2> QED BY <2>2, <2>3
<1>7. CASE n = 0
  <2>1. ss = <<>> /\ FlattenSeq(ss) = ss
    BY <1>7 DEF FlattenSeq
  <2> QED BY <1>5, <1>6, <1>7, <2>1
<1>8. CASE n # 0
  <2> DEFINE Is(h) == h = [i \in 1..n |-> IF i = 1 THEN ss[i] ELSE h[i - 1] \o ss[i]]
             g == [i \in 1..n |-> f[i]]
             h == CHOOSE h : Is(h)
  <2>1. Is(g)
    <3>1. ASSUME NEW i \in 1..n PROVE g[i] = IF i = 1 THEN ss[i] ELSE g[i - 1] \o ss[i]
      <4>1. CASE i = 1
        <5>1. f[i] = f[0] \o ss[i]
          <6>1. f[i] = f[i - 1] \o ss[i]
            BY <1>6
          <6>2. i - 1 = 0
            BY <4>1
          <6> QED BY <6>1, <6>2
        <5> QED BY <1>1, <1>5, <4>1, <5>1
      <4>2. CASE i # 1
        <5>1. i - 1 \in 1..n
          BY <4>2
        <5>2. g[i] = f[i] /\ g[i - 1] = f[i - 1]
          BY <5>1
        <5> QED BY <1>6, <4>2, <5>2
      <4> QED BY <4>1, <4>2
    <3> QED BY <3>1
  <2>2. Is(h)
    <3> HIDE DEF g
    <3> QED BY <2>1
  <2>3. FlattenSeq(ss) = h[n]
    BY <1>8 DEF FlattenSeq
  <2> DEFINE P == {i \in 0..n : i = 0 \/ h[i] = f[i]}
  <2> HIDE DEF h
  <2>4. \A i \in 0..n : i \in P
    <3>1. 0 \in P
      BY <1>1
    <3>2. ASSUME NEW i \in 1..n, i - 1 \in P PROVE i \in P
      <4>1. CASE i = 1
        <5>1. f[i] = f[i - 1] \o ss[i] /\ i - 1 = 0 /\ h[i] = ss[i]
          <6>1. f[i] = f[i - 1] \o ss[i]
            BY <1>6
          <6>2. i - 1 = 0
            BY <4>1
          <6>3. h[i] = ss[i]
            BY <2>2, <4>1
          <6> QED BY <6>1, <6>2, <6>3
        <5>2. f[i] = <<>> \o ss[i] /\ ss[i] \in Seq(T)
          BY <1>1, <1>5, <5>1
        <5>3. h[i] = f[i]
          BY <5>1, <5>2
        <5> QED BY <5>3
      <4>2. CASE i # 1
        <5>1. h[i] = h[i - 1] \o ss[i]
          BY <2>2, <4>2
        <5>2. h[i - 1] = f[i - 1]
          <6>1. i - 1 # 0
            BY <4>2
          <6> QED BY <3>2, <6>1
        <5>3. h[i] = f[i]
          BY <1>6, <5>1, <5>2
        <5> QED BY <5>3
      <4> QED BY <4>1, <4>2
    <3> HIDE DEF P
    <3> QED BY <1>1, <3>1, <3>2, UpTo
  <2>5. h[n] = f[n]
    BY <1>1, <1>8, <2>4
  <2> QED BY <1>5, <1>6, <2>3, <2>5
<1> QED BY <1>7, <1>8

LEMMA FlattenNone == FlattenSeq(<<>>) = <<>>
  BY DEF FlattenSeq

LEMMA FlattenAppend ==
    ASSUME NEW T, NEW ss \in Seq(Seq(T)), NEW s \in Seq(T)
    PROVE  /\ FlattenSeq(ss) \in Seq(T)
           /\ FlattenSeq(Append(ss, s)) = FlattenSeq(ss) \o s
<1> DEFINE n == Len(ss) tt == Append(ss, s)
<1>1. /\ n \in Nat /\ tt \in Seq(Seq(T)) /\ Len(tt) = n + 1 /\ tt[n + 1] = s
      /\ \A i \in 1..n : tt[i] = ss[i]
  OBVIOUS
<1>2. PICK f \in [0..n -> Seq(T)] : /\ f[0] = <<>> /\ \A i \in 1..n : f[i] = f[i - 1] \o ss[i]
                                    /\ FlattenSeq(ss) = f[n]
  BY FlattenIs
<1> HIDE DEF tt
<1>3. PICK g \in [0..(n + 1) -> Seq(T)] : /\ g[0] = <<>> /\ \A i \in 1..(n + 1) : g[i] = g[i - 1] \o tt[i]
                                          /\ FlattenSeq(tt) = g[n + 1]
  <2>1. \E g \in [0..Len(tt) -> Seq(T)] :
           /\ g[0] = <<>> /\ \A i \in 1..Len(tt) : g[i] = g[i - 1] \o tt[i]
           /\ FlattenSeq(tt) = g[Len(tt)]
    BY <1>1, FlattenIs
  <2> HIDE DEF n
  <2> QED BY <1>1, <2>1
<1> DEFINE P == {i \in 0..n : g[i] = f[i]}
<1>4. n \in P
  <2>1. 0 \in P
    BY <1>1, <1>2, <1>3
  <2>2. ASSUME NEW i \in 1..n, i - 1 \in P PROVE i \in P
    <3>1. i \in 1..(n + 1)
      BY <1>1
    <3>2. g[i] = g[i - 1] \o tt[i] /\ f[i] = f[i - 1] \o ss[i] /\ tt[i] = ss[i] /\ g[i - 1] = f[i - 1]
      BY <1>1, <1>2, <1>3, <2>2, <3>1
    <3>3. i \in 0..n /\ g[i] = f[i]
      BY <3>2
    <3> QED BY <3>3
  <2> HIDE DEF P
  <2>3. \A i \in 0..n : i \in P
    <3> HIDE DEF n
    <3> QED BY <1>1, <2>1, <2>2, UpTo
  <2> QED BY <1>1, <2>3
<1>5. n + 1 \in 1..(n + 1) /\ (n + 1) - 1 = n
  BY <1>1
<1>6. FlattenSeq(tt) = g[n] \o s
  BY <1>1, <1>3, <1>5
<1>7. f[n] \in Seq(T) /\ g[n] = f[n]
  BY <1>1, <1>2, <1>4
<1> QED BY <1>2, <1>6, <1>7 DEF tt

-----------------------------------------------------------------------------
(* The tokens of a chunk.                                                  *)

LEMMA TokensIs ==
    ASSUME NEW T, \A p \in T : Count(p) \in Nat, NEW s \in Seq(T)
    PROVE  \E f \in [0..Len(s) -> Nat] :
              /\ f[0] = 0 /\ \A i \in 1..Len(s) : f[i] = f[i - 1] + Count(s[i])
              /\ TokensOf(s) = f[Len(s)]
<1> DEFINE n == Len(s)
           step == [x \in Nat \X (1..n) |-> x[1] + Count(s[x[2]])]
           Is(h) == h = [i \in 0..n |-> IF i = 0 THEN 0 ELSE h[i - 1] + Count(s[i])]
           h == CHOOSE h : Is(h)
<1>1. n \in Nat /\ \A i \in 1..n : Count(s[i]) \in Nat
  OBVIOUS
<1>2. step \in [Nat \X (1..n) -> Nat]
  <2>1. \A x \in Nat \X (1..n) : x[1] + Count(s[x[2]]) \in Nat
    BY <1>1
  <2> QED BY <2>1
<1>3. PICK f \in [0..n -> Nat] : Follows(f, 0, step, n)
  <2> HIDE DEF n, step
  <2> QED BY <1>1, <1>2, Recursion
<1>4. f[0] = 0 /\ \A i \in 1..n : f[i] = f[i - 1] + Count(s[i])
  <2>1. ASSUME NEW i \in 1..n PROVE f[i] = f[i - 1] + Count(s[i])
    <3>1. i - 1 \in 0..n
      BY <1>1
    <3>2. <<f[i - 1], i>> \in Nat \X (1..n)
      BY <3>1
    <3>3. f[i] = step[<<f[i - 1], i>>]
      BY <1>3 DEF Follows
    <3> QED BY <3>2, <3>3
  <2> QED BY <1>3, <2>1 DEF Follows
<1>5. Is(f)
  <2>1. f = [i \in 0..n |-> f[i]]
    OBVIOUS
  <2>2. \A i \in 0..n : i = 0 \/ i \in 1..n
    OBVIOUS
  <2>3. \A i \in 0..n : f[i] = IF i = 0 THEN 0 ELSE f[i - 1] + Count(s[i])
    BY <1>4, <2>2
  <2> QED BY <2>1, <2>3
<1>6. Is(h) /\ TokensOf(s) = h[n]
  <2>1. \E g : Is(g)
    BY <1>5
  <2>2. Is(h)
    BY <2>1
  <2> QED BY <2>2 DEF TokensOf
<1> HIDE DEF h
<1>7. n \in {i \in 0..n : h[i] = f[i]}
  <2> DEFINE P == {i \in 0..n : h[i] = f[i]}
  <2>1. 0 \in P
    <3>1. 0 \in 0..n
      BY <1>1
    <3>2. h[0] = 0
      BY <1>6, <3>1
    <3> QED BY <1>4, <3>1, <3>2
  <2>2. ASSUME NEW i \in 1..n, i - 1 \in P PROVE i \in P
    <3>1. i \in 0..n /\ i # 0 /\ h[i - 1] = f[i - 1]
      BY <2>2
    <3>2. h[i] = h[i - 1] + Count(s[i])
      BY <1>6, <3>1
    <3>3. h[i] = f[i]
      BY <1>4, <3>1, <3>2
    <3> QED BY <3>1, <3>3
  <2> HIDE DEF P
  <2>3. \A i \in 0..n : i \in P
    <3> HIDE DEF n
    <3> QED BY <1>1, <2>1, <2>2, UpTo
  <2>4. n \in P
    BY <1>1, <2>3
  <2> QED BY <2>4 DEF P
<1> QED BY <1>1, <1>4, <1>6, <1>7

LEMMA TokensAppend ==
    ASSUME NEW T, \A p \in T : Count(p) \in Nat, NEW s \in Seq(T), NEW x \in T
    PROVE  /\ TokensOf(<<>>) = 0
           /\ TokensOf(s) \in Nat
           /\ TokensOf(Append(s, x)) = TokensOf(s) + Count(x)
<1> DEFINE n == Len(s) t == Append(s, x)
<1>1. n \in Nat /\ t \in Seq(T) /\ Len(t) = n + 1 /\ t[n + 1] = x /\ \A i \in 1..n : t[i] = s[i]
  OBVIOUS
<1>2. PICK f \in [0..n -> Nat] : /\ f[0] = 0 /\ \A i \in 1..n : f[i] = f[i - 1] + Count(s[i])
                                 /\ TokensOf(s) = f[n]
  BY TokensIs
<1> HIDE DEF t
<1>3. PICK g \in [0..Len(t) -> Nat] : /\ g[0] = 0 /\ \A i \in 1..Len(t) : g[i] = g[i - 1] + Count(t[i])
                                      /\ TokensOf(t) = g[Len(t)]
  BY <1>1, TokensIs
<1>4. n \in {i \in 0..n : g[i] = f[i]}
  <2> DEFINE P == {i \in 0..n : g[i] = f[i]}
  <2>1. 0 \in P
    BY <1>1, <1>2, <1>3
  <2>2. ASSUME NEW i \in 1..n, i - 1 \in P PROVE i \in P
    <3>1. i \in 1..(n + 1) /\ i \in 0..n
      BY <1>1
    <3>2. g[i] = g[i - 1] + Count(t[i]) /\ f[i] = f[i - 1] + Count(s[i]) /\ t[i] = s[i] /\ g[i - 1] = f[i - 1]
      BY <1>1, <1>2, <1>3, <2>2, <3>1
    <3>3. g[i] = f[i]
      BY <3>2
    <3> QED BY <3>1, <3>3
  <2> HIDE DEF P
  <2>3. \A i \in 0..n : i \in P
    <3> HIDE DEF n
    <3> QED BY <1>1, <2>1, <2>2, UpTo
  <2>4. n \in P
    BY <1>1, <2>3
  <2> QED BY <2>4 DEF P
<1>5. n + 1 \in 1..(n + 1) /\ (n + 1) - 1 = n
  BY <1>1
<1>6. TokensOf(t) = g[n] + Count(x)
  BY <1>1, <1>3, <1>5
<1>7. TokensOf(<<>>) = 0
  <2>1. <<>> \in Seq(T) /\ Len(<<>>) = 0
    OBVIOUS
  <2>2. PICK e \in [0..Len(<<>>) -> Nat] : e[0] = 0 /\ TokensOf(<<>>) = e[Len(<<>>)]
    BY <2>1, TokensIs
  <2> QED BY <2>1, <2>2
<1>8. f[n] \in Nat
  BY <1>1
<1> QED BY <1>2, <1>4, <1>6, <1>7, <1>8 DEF t

-----------------------------------------------------------------------------
(* What is kept of a list.                                                 *)

LEMMA KeptIs ==
    ASSUME NEW T, NEW s \in Seq(T), NEW S
    PROVE  Kept(s, S) \in Seq(T)
<1> DEFINE n == Len(s)
           Next1(v, i) == IF s[i] \in S THEN Append(v, s[i]) ELSE v
           step == [x \in Seq(T) \X (1..n) |-> Next1(x[1], x[2])]
           Is(h) == h = [i \in 0..n |-> IF i = 0 THEN <<>> ELSE IF s[i] \in S THEN Append(h[i - 1], s[i]) ELSE h[i - 1]]
           h == CHOOSE h : Is(h)
<1>1. n \in Nat /\ \A i \in 1..n : s[i] \in T
  OBVIOUS
<1>2. step \in [Seq(T) \X (1..n) -> Seq(T)]
  <2>1. \A x \in Seq(T) \X (1..n) : Next1(x[1], x[2]) \in Seq(T)
    BY <1>1
  <2> QED BY <2>1
<1>3. PICK f \in [0..n -> Seq(T)] : Follows(f, <<>>, step, n)
  <2>1. <<>> \in Seq(T)
    OBVIOUS
  <2> HIDE DEF n, step
  <2> QED BY <1>1, <1>2, <2>1, Recursion
<1>4. f[0] = <<>> /\ \A i \in 1..n : f[i] = Next1(f[i - 1], i)
  <2>1. ASSUME NEW i \in 1..n PROVE f[i] = Next1(f[i - 1], i)
    <3>1. i - 1 \in 0..n
      BY <1>1
    <3>2. <<f[i - 1], i>> \in Seq(T) \X (1..n)
      BY <3>1
    <3>3. f[i] = step[<<f[i - 1], i>>]
      BY <1>3 DEF Follows
    <3> HIDE DEF Next1
    <3> QED BY <3>2, <3>3
  <2> QED BY <1>3, <2>1 DEF Follows
<1>5. Is(f)
  <2>1. f = [i \in 0..n |-> f[i]]
    OBVIOUS
  <2>2. \A i \in 0..n : i = 0 \/ i \in 1..n
    OBVIOUS
  <2>3. \A i \in 0..n : f[i] = IF i = 0 THEN <<>> ELSE Next1(f[i - 1], i)
    BY <1>4, <2>2
  <2> QED BY <2>1, <2>3
<1>6. Is(h) /\ Kept(s, S) = h[n]
  <2>1. \E g : Is(g)
    BY <1>5
  <2>2. Is(h)
    BY <2>1
  <2> QED BY <2>2 DEF Kept
<1> HIDE DEF h
<1>7. n \in {i \in 0..n : h[i] \in Seq(T)}
  <2> DEFINE P == {i \in 0..n : h[i] \in Seq(T)}
  <2>1. 0 \in P
    <3>1. 0 \in 0..n
      BY <1>1
    <3>2. h[0] = <<>>
      BY <1>6, <3>1
    <3>3. <<>> \in Seq(T)
      OBVIOUS
    <3> QED BY <3>1, <3>2, <3>3
  <2>2. ASSUME NEW i \in 1..n, i - 1 \in P PROVE i \in P
    <3>1. i \in 0..n /\ i # 0 /\ h[i - 1] \in Seq(T)
      BY <2>2
    <3>2. h[i] = Next1(h[i - 1], i)
      BY <1>6, <3>1
    <3>3. h[i] \in Seq(T)
      BY <1>1, <3>1, <3>2
    <3> QED BY <3>1, <3>3
  <2> HIDE DEF P
  <2>3. \A i \in 0..n : i \in P
    <3> HIDE DEF n
    <3> QED BY <1>1, <2>1, <2>2, UpTo
  <2>4. n \in P
    BY <1>1, <2>3
  <2> QED BY <2>4 DEF P
<1> QED BY <1>6, <1>7

-----------------------------------------------------------------------------
(* The chunks of the packager.                                             *)

Chunking(T) == [groups : Seq(Seq(T)), current : Seq(T), running : Nat]

LEMMA ClosedType ==
    ASSUME NEW T, NEW c \in Chunking(T)
    PROVE  /\ Closed(c) \in Chunking(T)
           /\ Closed(c).current = <<>>
           /\ Closed(c).groups = IF c.current = <<>> THEN c.groups ELSE Append(c.groups, c.current)
           /\ Closed(c).running = IF c.current = <<>> THEN c.running ELSE 0
  BY DEF Chunking, Closed

LEMMA AddedType ==
    ASSUME NEW T, \A p \in T : Count(p) \in Nat, NEW c \in Chunking(T), NEW x \in T
    PROVE  Added(c, x) \in Chunking(T)
<1> DEFINE d == Closed(c)
           room == IF c.running + Count(x) > Limit THEN d ELSE c
<1>1. d \in Chunking(T) /\ room \in Chunking(T) /\ Count(x) \in Nat
  BY ClosedType
<1>2. Added(c, x) = IF Count(x) > Limit
                    THEN [groups |-> Append(d.groups, <<x>>), current |-> <<>>, running |-> 0]
                    ELSE [groups |-> room.groups, current |-> Append(room.current, x), running |-> room.running + Count(x)]
  BY DEF Added
<1> HIDE DEF d, room
<1>3. Append(d.groups, <<x>>) \in Seq(Seq(T))
  <2>1. d.groups \in Seq(Seq(T)) /\ <<x>> \in Seq(T)
    BY <1>1 DEF Chunking
  <2> QED BY <2>1
<1>4. room.groups \in Seq(Seq(T)) /\ Append(room.current, x) \in Seq(T) /\ room.running + Count(x) \in Nat
  BY <1>1 DEF Chunking
<1>5. <<>> \in Seq(T)
  OBVIOUS
<1> QED BY <1>2, <1>3, <1>4, <1>5 DEF Chunking

Fits(g) == Len(g) = 1 \/ TokensOf(g) <= Limit

\* c is what has become of s.
Packs(c, s) ==
    /\ FlattenSeq(c.groups) \o c.current = s
    /\ c.running = TokensOf(c.current) /\ c.running <= Limit
    /\ \A j \in 1..Len(c.groups) : Fits(c.groups[j])

LEMMA ClosedPacks ==
    ASSUME NEW T, \A p \in T : Count(p) \in Nat, Limit \in Nat,
           NEW c \in Chunking(T), NEW s, Packs(c, s)
    PROVE  Packs(Closed(c), s) /\ FlattenSeq(Closed(c).groups) = s /\ Closed(c).running = 0
<1> DEFINE d == Closed(c)
<1>1. /\ d \in Chunking(T) /\ d.current = <<>>
      /\ d.groups = IF c.current = <<>> THEN c.groups ELSE Append(c.groups, c.current)
      /\ d.running = IF c.current = <<>> THEN c.running ELSE 0
  BY ClosedType
<1>2. /\ c.groups \in Seq(Seq(T)) /\ c.current \in Seq(T) /\ c.running \in Nat
      /\ FlattenSeq(c.groups) \o c.current = s
      /\ c.running = TokensOf(c.current) /\ c.running <= Limit
      /\ \A j \in 1..Len(c.groups) : Fits(c.groups[j])
  BY DEF Packs, Chunking
<1> HIDE DEF d
<1>3. FlattenSeq(c.groups) \in Seq(T) /\ FlattenSeq(Append(c.groups, c.current)) = FlattenSeq(c.groups) \o c.current
  BY <1>2, FlattenAppend
<1>4. TokensOf(<<>>) = 0
  <2>1. CASE T = {}
    BY <1>2, <2>1, TokensIs
  <2>2. CASE T # {}
    <3>1. PICK x \in T : TRUE
      BY <2>2
    <3> QED BY <1>2, <3>1, TokensAppend
  <2> QED BY <2>1, <2>2
<1>5. d.running = 0
  BY <1>1, <1>2, <1>4
<1>6. FlattenSeq(d.groups) = s
  <2>1. CASE c.current = <<>>
    BY <1>1, <1>2, <1>3, <2>1
  <2>2. CASE c.current # <<>>
    BY <1>1, <1>2, <1>3, <2>2
  <2> QED BY <2>1, <2>2
<1>7. FlattenSeq(d.groups) \in Seq(T)
  <2>1. \A a, b \in Seq(T) : a \o b \in Seq(T)
    OBVIOUS
  <2>2. FlattenSeq(c.groups) \o c.current \in Seq(T)
    BY <1>2, <1>3, <2>1, Zenon
  <2> QED BY <1>2, <1>6, <2>2, Zenon
<1>8. FlattenSeq(d.groups) \o d.current = s
  BY <1>1, <1>6, <1>7
<1>9. \A j \in 1..Len(d.groups) : Fits(d.groups[j])
  <2>1. CASE c.current = <<>>
    BY <1>1, <1>2, <2>1
  <2>2. CASE c.current # <<>>
    <3>1. Fits(c.current)
      BY <1>2 DEF Fits
    <3>2. d.groups = Append(c.groups, c.current)
      BY <1>1, <2>2
    <3>3. \A j \in 1..Len(d.groups) : d.groups[j] = c.current \/ (j \in 1..Len(c.groups) /\ d.groups[j] = c.groups[j])
      BY <1>2, <3>2
    <3> QED BY <1>2, <3>1, <3>3
  <2> QED BY <2>1, <2>2
<1> QED BY <1>1, <1>4, <1>5, <1>6, <1>8, <1>9 DEF Packs, d

LEMMA AddedPacks ==
    ASSUME NEW T, \A p \in T : Count(p) \in Nat, Limit \in Nat,
           NEW c \in Chunking(T), NEW s, Packs(c, s), NEW x \in T
    PROVE  Packs(Added(c, x), Append(s, x))
<1> DEFINE d == Closed(c) e == Added(c, x)
<1>1. /\ d \in Chunking(T) /\ Packs(d, s) /\ FlattenSeq(d.groups) = s /\ d.running = 0 /\ d.current = <<>>
  BY ClosedType, ClosedPacks
<1>2. Count(x) \in Nat
  OBVIOUS
<1>3. CASE Count(x) > Limit
  <2>1. e = [groups |-> Append(d.groups, <<x>>), current |-> <<>>, running |-> 0]
    BY <1>3 DEF Added
  <2> HIDE DEF d, e
  <2>2. e.groups = Append(d.groups, <<x>>) /\ e.current = <<>> /\ e.running = 0
    BY <1>1, <2>1 DEF Chunking
  <2>3. d.groups \in Seq(Seq(T)) /\ <<x>> \in Seq(T) /\ Fits(<<x>>)
    BY <1>1 DEF Chunking, Fits
  <2>4. s \in Seq(T) /\ FlattenSeq(e.groups) = s \o <<x>>
    BY <1>1, <2>2, <2>3, FlattenAppend
  <2>5. FlattenSeq(e.groups) \o e.current = Append(s, x)
    BY <2>2, <2>4
  <2>6. \A j \in 1..Len(e.groups) : Fits(e.groups[j])
    <3>1. \A j \in 1..Len(e.groups) : e.groups[j] = <<x>> \/ (j \in 1..Len(d.groups) /\ e.groups[j] = d.groups[j])
      BY <2>2, <2>3
    <3>2. \A j \in 1..Len(d.groups) : Fits(d.groups[j])
      BY <1>1 DEF Packs
    <3> QED BY <2>3, <3>1, <3>2
  <2>7. e.running = TokensOf(e.current) /\ e.running <= Limit
    BY <1>1, <2>2 DEF Packs
  <2>8. Packs(e, Append(s, x))
    BY <2>5, <2>6, <2>7 DEF Packs
  <2> QED BY <2>8 DEF e
<1>4. CASE ~(Count(x) > Limit)
  <2> DEFINE room == IF c.running + Count(x) > Limit THEN d ELSE c
  <2>1. e = [groups |-> room.groups, current |-> Append(room.current, x), running |-> room.running + Count(x)]
    BY <1>4 DEF Added
  <2> HIDE DEF d, e
  <2>2. room \in Chunking(T) /\ Packs(room, s) /\ room.running + Count(x) <= Limit
    <3>1. CASE c.running + Count(x) > Limit
      BY <1>1, <1>2, <1>4, <3>1
    <3>2. CASE ~(c.running + Count(x) > Limit)
      <4>1. c.running \in Nat
        BY DEF Chunking
      <4> QED BY <1>2, <3>2, <4>1
    <3> QED BY <3>1, <3>2
  <2> HIDE DEF room
  <2>3. /\ e.groups = room.groups /\ e.current = Append(room.current, x) /\ e.running = room.running + Count(x)
        /\ room.groups \in Seq(Seq(T)) /\ room.current \in Seq(T)
    BY <2>1, <2>2 DEF Chunking
  <2>4. FlattenSeq(room.groups) \in Seq(T) /\ FlattenSeq(room.groups) \o room.current = s
    BY <2>2, <2>3, FlattenAppend DEF Packs
  <2>5. FlattenSeq(e.groups) \o e.current = Append(s, x)
    <3> DEFINE g == FlattenSeq(room.groups)
    <3> HIDE DEF g
    <3>1. \A y \in Seq(T) : g \in Seq(T) => g \o Append(y, x) = Append(g \o y, x)
      OBVIOUS
    <3> QED BY <2>3, <2>4, <3>1 DEF g
  <2>6. e.running = TokensOf(e.current) /\ e.running <= Limit
    BY <2>2, <2>3, TokensAppend DEF Packs
  <2>7. Packs(e, Append(s, x))
    BY <2>2, <2>3, <2>5, <2>6 DEF Packs
  <2> QED BY <2>7 DEF e
<1> QED BY <1>3, <1>4

LEMMA PackFacts ==
    ASSUME NEW T, \A p \in T : Count(p) \in Nat, Limit \in Nat, NEW s \in Seq(T)
    PROVE  /\ Pack(s) \in Seq(Seq(T))
           /\ FlattenSeq(Pack(s)) = s
           /\ \A j \in 1..Len(Pack(s)) : Limit = 0 \/ Fits(Pack(s)[j])
<1>1. CASE Limit = 0 \/ s = <<>>
  <2>1. Pack(s) = <<s>> /\ <<s>> = Append(<<>>, s) /\ <<>> \in Seq(Seq(T)) /\ <<s>> \in Seq(Seq(T))
    BY <1>1 DEF Pack
  <2>2. FlattenSeq(<<s>>) = <<>> \o s
    BY <2>1, FlattenNone, FlattenAppend
  <2>3. s = <<>> => TokensOf(s) = 0
    <3>1. SUFFICES ASSUME s = <<>> PROVE TokensOf(s) = 0
      OBVIOUS
    <3>2. PICK f \in [0..Len(s) -> Nat] : f[0] = 0 /\ TokensOf(s) = f[Len(s)]
      BY TokensIs
    <3>3. Len(s) = 0
      BY <3>1
    <3> QED BY <3>2, <3>3
  <2>4. \A j \in 1..Len(<<s>>) : <<s>>[j] = s
    OBVIOUS
  <2>5. Limit = 0 \/ Fits(s)
    BY <1>1, <2>3 DEF Fits
  <2> QED BY <2>1, <2>2, <2>4, <2>5
<1>2. CASE ~(Limit = 0 \/ s = <<>>)
  <2> DEFINE n == Len(s)
             start == [groups |-> <<>>, current |-> <<>>, running |-> 0]
             step == [y \in Chunking(T) \X (1..n) |-> Added(y[1], s[y[2]])]
             Is(h) == h = [i \in 0..n |-> IF i = 0 THEN start ELSE Added(h[i - 1], s[i])]
             h == CHOOSE h : Is(h)
  <2>1. n \in Nat /\ \A i \in 1..n : s[i] \in T
    OBVIOUS
  <2>2. start \in Chunking(T)
    BY DEF Chunking
  <2>3. step \in [Chunking(T) \X (1..n) -> Chunking(T)]
    <3>1. \A y \in Chunking(T) \X (1..n) : Added(y[1], s[y[2]]) \in Chunking(T)
      BY <2>1, AddedType
    <3> QED BY <3>1
  <2>4. PICK f \in [0..n -> Chunking(T)] : Follows(f, start, step, n)
    <3> HIDE DEF n, step, start
    <3> QED BY <2>1, <2>2, <2>3, Recursion
  <2>5. f[0] = start /\ \A i \in 1..n : f[i] = Added(f[i - 1], s[i])
    <3>1. ASSUME NEW i \in 1..n PROVE f[i] = Added(f[i - 1], s[i])
      <4>1. i - 1 \in 0..n
        BY <2>1
      <4>2. <<f[i - 1], i>> \in Chunking(T) \X (1..n)
        BY <4>1
      <4>3. f[i] = step[<<f[i - 1], i>>]
        BY <2>4 DEF Follows
      <4> QED BY <4>2, <4>3
    <3> QED BY <2>4, <3>1 DEF Follows
  <2>6. Is(f)
    <3>1. f = [i \in 0..n |-> f[i]]
      OBVIOUS
    <3>2. \A i \in 0..n : i = 0 \/ i \in 1..n
      OBVIOUS
    <3> HIDE DEF start
    <3>3. \A i \in 0..n : f[i] = IF i = 0 THEN start ELSE Added(f[i - 1], s[i])
      BY <2>5, <3>2
    <3> QED BY <3>1, <3>3
  <2>7. Is(h) /\ Pack(s) = Closed(h[n]).groups
    <3>1. \E g : Is(g)
      BY <2>6
    <3>2. Is(h)
      BY <3>1
    <3> QED BY <1>2, <3>2 DEF Pack
  <2> HIDE DEF h
  <2>8. n \in {i \in 0..n : h[i] \in Chunking(T) /\ Packs(h[i], SubSeq(s, 1, i))}
    <3> DEFINE P == {i \in 0..n : h[i] \in Chunking(T) /\ Packs(h[i], SubSeq(s, 1, i))}
    <3>1. 0 \in P
      <4>1. 0 \in 0..n
        BY <2>1
      <4>2. h[0] = start
        BY <2>7, <4>1
      <4>3. SubSeq(s, 1, 0) = <<>>
        OBVIOUS
      <4>4. TokensOf(<<>>) = 0
        <5>1. s[1] \in T
          BY <1>2
        <5> QED BY <5>1, TokensAppend
      <4>5. Packs(start, <<>>)
        BY <4>4, FlattenNone DEF Packs
      <4> HIDE DEF start
      <4>6. Packs(h[0], SubSeq(s, 1, 0)) /\ h[0] \in Chunking(T)
        BY <2>2, <4>2, <4>3, <4>5
      <4> QED BY <4>1, <4>6
    <3>2. ASSUME NEW i \in 1..n, i - 1 \in P PROVE i \in P
      <4>1. i \in 0..n /\ i # 0 /\ h[i - 1] \in Chunking(T) /\ Packs(h[i - 1], SubSeq(s, 1, i - 1))
        BY <3>2
      <4>2. h[i] = Added(h[i - 1], s[i])
        BY <2>7, <4>1
      <4>3. s[i] \in T
        BY <2>1
      <4>4. h[i] \in Chunking(T)
        BY <4>1, <4>2, <4>3, AddedType
      <4>5. Packs(h[i], Append(SubSeq(s, 1, i - 1), s[i]))
        BY <4>1, <4>2, <4>3, AddedPacks
      <4>6. Append(SubSeq(s, 1, i - 1), s[i]) = SubSeq(s, 1, i)
        BY <2>1
      <4> QED BY <4>1, <4>4, <4>5, <4>6
    <3> HIDE DEF P
    <3>3. \A i \in 0..n : i \in P
      <4> HIDE DEF n
      <4> QED BY <2>1, <3>1, <3>2, UpTo
    <3>4. n \in P
      BY <2>1, <3>3
    <3> QED BY <3>4 DEF P
  <2>9. SubSeq(s, 1, n) = s
    OBVIOUS
  <2>10. h[n] \in Chunking(T) /\ Packs(h[n], s)
    BY <2>8, <2>9
  <2>11. Closed(h[n]) \in Chunking(T) /\ Packs(Closed(h[n]), s) /\ FlattenSeq(Closed(h[n]).groups) = s
    BY <2>10, ClosedType, ClosedPacks
  <2> QED BY <2>7, <2>11 DEF Packs, Chunking
<1> QED BY <1>1, <1>2

-----------------------------------------------------------------------------
(* What the parts of a document are together.                              *)

\* The first m of a family of sequences, and one more.
LEMMA FlattenMore ==
    ASSUME NEW T, NEW m \in Nat, NEW f, \A k \in 1..(m + 1) : f[k] \in Seq(T)
    PROVE  /\ FlattenSeq([k \in 1..m |-> f[k]]) \in Seq(T)
           /\ FlattenSeq([k \in 1..(m + 1) |-> f[k]]) = FlattenSeq([k \in 1..m |-> f[k]]) \o f[m + 1]
<1>1. [k \in 1..m |-> f[k]] \in Seq(Seq(T)) /\ f[m + 1] \in Seq(T)
  OBVIOUS
<1>2. Append([k \in 1..m |-> f[k]], f[m + 1]) = [k \in 1..(m + 1) |-> f[k]]
  OBVIOUS
<1> QED BY <1>1, <1>2, FlattenAppend

\* The family's sequences follow each other in s, each up to its bound.
LEMMA FlattenCover ==
    ASSUME NEW T, NEW s \in Seq(T), NEW m \in Nat,
           NEW b \in [0..m -> 0..Len(s)], b[0] = 0, b[m] = Len(s),
           \A k \in 1..m : b[k - 1] <= b[k]
    PROVE  FlattenSeq([k \in 1..m |-> SubSeq(s, b[k - 1] + 1, b[k])]) = s
<1> DEFINE f == [k \in 1..m |-> SubSeq(s, b[k - 1] + 1, b[k])]
           P == {i \in 0..m : FlattenSeq([k \in 1..i |-> f[k]]) = SubSeq(s, 1, b[i])}
<1>1. ASSUME NEW k \in 1..m PROVE f[k] \in Seq(T)
  <2>1. k - 1 \in 0..m /\ k \in 0..m
    OBVIOUS
  <2>2. b[k - 1] \in 0..Len(s) /\ b[k] \in 0..Len(s)
    BY <2>1
  <2>3. \A x, y \in 0..Len(s) : SubSeq(s, x + 1, y) \in Seq(T)
    OBVIOUS
  <2> QED BY <2>2, <2>3
<1>2. 0 \in P
  <2>1. [k \in 1..0 |-> f[k]] = <<>>
    OBVIOUS
  <2>2. SubSeq(s, 1, 0) = <<>>
    OBVIOUS
  <2>3. 0 \in 0..m
    OBVIOUS
  <2> HIDE DEF f
  <2> QED BY <2>1, <2>2, <2>3, FlattenNone
<1>3. ASSUME NEW i \in 1..m, i - 1 \in P PROVE i \in P
  <2>1. i - 1 \in Nat /\ (i - 1) + 1 = i /\ \A k \in 1..i : k \in 1..m
    OBVIOUS
  <2>2. FlattenSeq([k \in 1..i |-> f[k]]) = FlattenSeq([k \in 1..(i - 1) |-> f[k]]) \o f[i]
    <3>1. \A k \in 1..((i - 1) + 1) : f[k] \in Seq(T)
      BY <1>1, <2>1
    <3> HIDE DEF f
    <3>2. FlattenSeq([k \in 1..((i - 1) + 1) |-> f[k]]) = FlattenSeq([k \in 1..(i - 1) |-> f[k]]) \o f[(i - 1) + 1]
      BY <2>1, <3>1, FlattenMore
    <3> QED BY <2>1, <3>2
  <2>3. FlattenSeq([k \in 1..(i - 1) |-> f[k]]) = SubSeq(s, 1, b[i - 1])
    BY <1>3
  <2>4. f[i] = SubSeq(s, b[i - 1] + 1, b[i])
    OBVIOUS
  <2>5. b[i - 1] \in 0..Len(s) /\ b[i] \in 0..Len(s) /\ b[i - 1] <= b[i]
    <3>1. i - 1 \in 0..m /\ i \in 0..m
      OBVIOUS
    <3> QED BY <3>1
  <2>6. \A x, y \in 0..Len(s) : x <= y => SubSeq(s, 1, x) \o SubSeq(s, x + 1, y) = SubSeq(s, 1, y)
    <3> SUFFICES ASSUME NEW x \in 0..Len(s), NEW y \in 0..Len(s), x <= y
                 PROVE  SubSeq(s, 1, x) \o SubSeq(s, x + 1, y) = SubSeq(s, 1, y)
      OBVIOUS
    <3>1. 1 \in 1..(Len(s) + 1) /\ x \in (1 - 1)..Len(s) /\ y \in x..Len(s)
      OBVIOUS
    <3> QED BY <3>1, ConcatAdjacentSubSeq
  <2>7. SubSeq(s, 1, b[i - 1]) \o SubSeq(s, b[i - 1] + 1, b[i]) = SubSeq(s, 1, b[i])
    BY <2>5, <2>6
  <2>8. i \in 0..m
    OBVIOUS
  <2> HIDE DEF f
  <2> QED BY <2>2, <2>3, <2>4, <2>7, <2>8
<1>4. m \in P
  <2> HIDE DEF P
  <2>1. \A i \in 0..m : i \in P
    BY <1>2, <1>3, UpTo
  <2> QED BY <2>1
<1>5. SubSeq(s, 1, Len(s)) = s
  OBVIOUS
<1>6. f = [k \in 1..m |-> f[k]]
  OBVIOUS
<1>7. FlattenSeq(f) = s
  <2> HIDE DEF f
  <2> QED BY <1>4, <1>5, <1>6
<1> QED BY <1>7

\* The parts of a split.
LEMMA PartsCover ==
    ASSUME NEW T, NEW s \in Seq(T), Len(s) = Pages, Pages \in Nat \ {0}, PerPart \in Nat \ {0}
    PROVE  /\ PartCount \in Nat \ {0}
           /\ FlattenSeq([k \in 1..PartCount |-> SubSeq(s, Chunk(k)[1], Chunk(k)[2])]) = s
<1> DEFINE m == PartCount
           b == [k \in 0..m |-> IF k * PerPart < Pages THEN k * PerPart ELSE Pages]
<1>1. m \in Nat /\ m * PerPart >= Pages /\ (m - 1) * PerPart < Pages
  <2> DEFINE x == Pages + PerPart - 1
  <2>1. x \in Nat /\ x \div PerPart \in Nat
    OBVIOUS
  <2>2. PerPart * (x \div PerPart) <= x /\ x < PerPart * (x \div PerPart) + PerPart
    BY Z3
  <2>3. m = x \div PerPart
    BY DEF PartCount
  <2> HIDE DEF x
  <2>4. m \in Nat /\ PerPart * m <= x /\ x < PerPart * m + PerPart
    BY <2>1, <2>2, <2>3
  <2> HIDE DEF m
  <2>5. m * PerPart = PerPart * m /\ (m - 1) * PerPart = PerPart * m - PerPart
    BY <2>4
  <2> QED BY <2>4, <2>5 DEF x
<1>2. m # 0
  <2> HIDE DEF m
  <2> QED BY <1>1
<1> HIDE DEF m
<1>3. \A k \in 0..(m - 1) : k * PerPart < Pages
  <2> SUFFICES ASSUME NEW k \in 0..(m - 1) PROVE k * PerPart < Pages
    OBVIOUS
  <2>1. k * PerPart <= (m - 1) * PerPart
    BY <1>1
  <2>2. k * PerPart \in Nat /\ (m - 1) * PerPart \in Int
    BY <1>1
  <2> QED BY <1>1, <2>1, <2>2
<1>4. \A k \in 0..m : k * PerPart \in Nat
  BY <1>1
<1>5. b \in [0..m -> 0..Len(s)] /\ b[0] = 0 /\ b[m] = Len(s)
  <2>1. b[0] = 0
    BY <1>1
  <2>2. b[m] = Len(s)
    BY <1>1, <1>4
  <2> QED BY <1>4, <2>1, <2>2
<1>6. ASSUME NEW k \in 1..m
      PROVE  b[k - 1] <= b[k] /\ Chunk(k)[1] = b[k - 1] + 1 /\ Chunk(k)[2] = b[k]
  <2>1. k - 1 \in 0..(m - 1) /\ k - 1 \in 0..m /\ k \in 0..m
    BY <1>1
  <2>2. b[k - 1] = (k - 1) * PerPart
    BY <1>3, <2>1
  <2>3. (k - 1) * PerPart <= k * PerPart /\ (k - 1) * PerPart \in Nat /\ k * PerPart \in Nat
    BY <1>4, <2>1
  <2>4. b[k] = IF k * PerPart < Pages THEN k * PerPart ELSE Pages
    BY <2>1
  <2>5. (k - 1) * PerPart < Pages
    BY <1>3, <2>1
  <2> QED BY <2>2, <2>3, <2>4, <2>5 DEF Chunk
<1> HIDE DEF b
<1>7. FlattenSeq([k \in 1..m |-> SubSeq(s, b[k - 1] + 1, b[k])]) = s
  BY <1>1, <1>5, <1>6, FlattenCover
<1>8. [k \in 1..m |-> SubSeq(s, b[k - 1] + 1, b[k])] = [k \in 1..m |-> SubSeq(s, Chunk(k)[1], Chunk(k)[2])]
  BY <1>6
<1> QED BY <1>1, <1>2, <1>7, <1>8 DEF m

\* The pages one by one.
LEMMA PagesCover ==
    ASSUME NEW T, NEW s \in Seq(T)
    PROVE  FlattenSeq([k \in 1..Len(s) |-> <<s[k]>>]) = s
<1> DEFINE b == [k \in 0..Len(s) |-> k]
<1>1. b \in [0..Len(s) -> 0..Len(s)] /\ b[0] = 0 /\ b[Len(s)] = Len(s) /\ \A k \in 1..Len(s) : b[k - 1] <= b[k]
  OBVIOUS
<1>2. \A k \in 1..Len(s) : SubSeq(s, b[k - 1] + 1, b[k]) = <<s[k]>>
  <2> SUFFICES ASSUME NEW k \in 1..Len(s) PROVE SubSeq(s, b[k - 1] + 1, b[k]) = <<s[k]>>
    OBVIOUS
  <2>1. b[k - 1] + 1 = k /\ b[k] = k
    OBVIOUS
  <2>2. SubSeq(s, k, k) = <<s[k]>>
    <3>1. SubSeq(s, k, k) \in Seq(T) /\ Len(SubSeq(s, k, k)) = 1 /\ SubSeq(s, k, k)[1] = s[k]
      OBVIOUS
    <3>2. <<s[k]>> \in Seq(T) /\ Len(<<s[k]>>) = 1
      OBVIOUS
    <3> DEFINE u == SubSeq(s, k, k)
    <3> HIDE DEF u
    <3>3. \A i \in 1..Len(u) : u[i] = <<s[k]>>[i]
      BY <3>1 DEF u
    <3> QED BY <3>1, <3>2, <3>3, SeqEqual DEF u
  <2> QED BY <2>1, <2>2
<1> HIDE DEF b
<1>3. FlattenSeq([k \in 1..Len(s) |-> SubSeq(s, b[k - 1] + 1, b[k])]) = s
  <2>1. Len(s) \in Nat
    OBVIOUS
  <2> QED BY <1>1, <2>1, FlattenCover
<1>4. [k \in 1..Len(s) |-> SubSeq(s, b[k - 1] + 1, b[k])] = [k \in 1..Len(s) |-> <<s[k]>>]
  BY <1>2
<1> QED BY <1>3, <1>4

-----------------------------------------------------------------------------
(* The types.                                                              *)

Places    == {"idle", "reading", "probed", "writing", "filling", "encoding", "ended", "failed"}
RunPlaces == {"none", "running", "done", "failed", "abandoned"}
Coders(c) == /\ DOMAIN c = Runs
             /\ \A r \in Runs : /\ DOMAIN c[r] = {"at", "lines", "noise", "out", "err"}
                                /\ c[r].at \in {"none", "on", "wedged", "ok", "bad"}
                                /\ c[r].lines \in Nat /\ c[r].noise \in Nat
                                /\ c[r].out \in 0..Pipe /\ c[r].err \in 0..Pipe
Hands(h)  == /\ DOMAIN h = Runs
             /\ \A r \in Runs : /\ DOMAIN h[r] = {"at", "n", "got", "timed", "unheard"}
                                /\ h[r].at \in Places /\ h[r].n \in Nat \ {0}

Files(d) == \A q \in DOMAIN d : d[q].by \in 0..MaxRuns /\ d[q].whole \in BOOLEAN

Typed ==
    /\ suite \in DOMAIN Suites
    /\ form \in [op : Suites[suite], files : Seq(SourcesOf(suite))]
    /\ Files(disk)
    /\ run \in [Runs -> [op : Ops, ins : Seq(Sources), at : RunPlaces, k : Nat]]
    /\ Hands(hand) /\ Coders(coder)
    /\ updates \in [Runs -> Nat] /\ shown \in [Runs -> Nat] /\ made \in [Runs -> Nat]
    /\ mixed \subseteq Runs /\ edits \in 0..MaxEdits[suite]

LEMMA SuiteFacts ==
    /\ DOMAIN Suites = {"image", "document", "media", "pdf", "packager"}
    /\ Suites["image"] = {"convert", "densities", "drawable"} /\ Suites["document"] = {"translate"}
    /\ Suites["media"] = {"mp4", "audio", "thumbnails"}
    /\ Suites["pdf"] = {"merge", "split", "rotate", "images", "docx"} /\ Suites["packager"] = {"pack"}
    /\ \A s \in DOMAIN Suites : Suites[s] \subseteq Ops /\ SourcesOf(s) \subseteq Sources
    /\ \A s \in DOMAIN Suites : \A op \in Suites[s] : Readable[op] \subseteq SourcesOf(s)
<1>1. \A s \in DOMAIN Suites : Suites[s] \subseteq Ops
  BY DEF Ops
<1>2. \A s \in DOMAIN Suites : \A op \in Suites[s] : Readable[op] \subseteq SourcesOf(s)
  BY DEF SourcesOf
<1>3. \A s \in DOMAIN Suites : SourcesOf(s) \subseteq Sources
  BY <1>1 DEF SourcesOf, Sources
<1> QED BY <1>1, <1>2, <1>3 DEF Suites

LEMMA RunsAre == Runs = 1..MaxRuns /\ MaxRuns \in Nat /\ Pipe \in Nat \ {0} /\ Lines \in Nat /\ Noise \in Nat /\ Pages \in Nat \ {0}
  BY ConvertersAssumption DEF Runs

LEMMA InitTyped == Init => Typed
<1> SUFFICES ASSUME Init PROVE Typed
  OBVIOUS
<1>1. suite \in DOMAIN Suites
  BY DEF Init
<1>2. form \in [op : Suites[suite], files : Seq(SourcesOf(suite))]
  <2>1. PICK op \in Suites[suite], files \in Starts[suite] : ToSet(files) \subseteq Readable[op] /\ form = [op |-> op, files |-> files]
    BY DEF Init
  <2>2. files \in Seq(Sources) /\ ToSet(files) \subseteq SourcesOf(suite)
    BY <1>1, <2>1, SuiteFacts, ConvertersAssumption
  <2>3. files \in Seq(SourcesOf(suite))
    <3>1. \A i \in 1..Len(files) : files[i] \in SourcesOf(suite)
      BY <2>2 DEF ToSet
    <3> QED BY <2>2, <3>1
  <2> QED BY <2>1, <2>3
<1>3. \A q \in DOMAIN disk : disk[q].by \in 0..MaxRuns /\ disk[q].whole \in BOOLEAN
  <2> SUFFICES ASSUME NEW q \in DOMAIN disk PROVE disk[q].by \in 0..MaxRuns /\ disk[q].whole \in BOOLEAN
    OBVIOUS
  <2>1. disk[q] = Whole(0, PagesOf(q))
    BY DEF Init
  <2>2. disk[q].by = 0 /\ disk[q].whole = TRUE
    BY <2>1 DEF Whole
  <2>3. 0 \in 0..MaxRuns
    BY RunsAre
  <2> QED BY <2>2, <2>3
<1>4. run \in [Runs -> [op : Ops, ins : Seq(Sources), at : RunPlaces, k : Nat]]
  <2>1. NoRun \in [op : Ops, ins : Seq(Sources), at : RunPlaces, k : Nat]
    BY SuiteFacts DEF NoRun, RunPlaces
  <2> QED BY <2>1 DEF Init
<1>5. Hands(hand)
  BY DEF Init, NoHand, Places, Hands
<1>6. Coders(coder)
  BY RunsAre DEF Init, NoCoder, Coders
<1>7. updates \in [Runs -> Nat] /\ shown \in [Runs -> Nat] /\ made \in [Runs -> Nat] /\ mixed \subseteq Runs /\ edits \in 0..MaxEdits[suite]
  BY <1>1, ConvertersAssumption DEF Init
<1> QED BY <1>1, <1>2, <1>3, <1>4, <1>5, <1>6, <1>7 DEF Typed, Files

\* What the steps do to the files.
LEMMA PutFacts ==
    ASSUME NEW p, NEW c
    PROVE  /\ DOMAIN Put(p, c) = DOMAIN disk \cup {p} /\ Put(p, c)[p] = c
           /\ \A q \in DOMAIN disk : q # p => Put(p, c)[q] = disk[q]
  BY DEF Put

LEMMA WithoutFacts ==
    ASSUME NEW p
    PROVE  DOMAIN Without(p) = DOMAIN disk \ {p} /\ \A q \in DOMAIN Without(p) : Without(p)[q] = disk[q]
  BY DEF Without, Restrict

LEMMA FilledFacts ==
    ASSUME NEW r
    PROVE  /\ DOMAIN Filled(r) = DOMAIN disk
           /\ \A q \in DOMAIN disk : q # Now(r).to => Filled(r)[q] = disk[q]
           /\ Now(r).to \in DOMAIN disk =>
                 Filled(r)[Now(r).to] = IF disk[Now(r).to].by = r THEN Whole(r, Now(r).pieces) ELSE Partial(r)
<1> DEFINE t == Now(r).to
           c == IF disk[t].by = r THEN Whole(r, Now(r).pieces) ELSE Partial(r)
<1>1. CASE t \notin DOMAIN disk
  BY <1>1 DEF Filled
<1>2. CASE t \in DOMAIN disk
  <2>1. Filled(r) = Put(t, c)
    BY <1>2 DEF Filled
  <2> HIDE DEF t, c
  <2>2. DOMAIN Put(t, c) = DOMAIN disk /\ Put(t, c)[t] = c /\ \A q \in DOMAIN disk : q # t => Put(t, c)[q] = disk[q]
    <3>1. DOMAIN disk \cup {t} = DOMAIN disk
      BY <1>2
    <3> QED BY <3>1, PutFacts
  <2> QED BY <2>1, <2>2 DEF t, c
<1> QED BY <1>1, <1>2

LEMMA TidiedFacts ==
    ASSUME NEW r, NEW d
    PROVE  /\ DOMAIN Tidied(r, d) = IF Docx2(r) THEN DOMAIN d \ {Scratch(Ins(r)[1])} ELSE DOMAIN d
           /\ \A q \in DOMAIN Tidied(r, d) : Tidied(r, d)[q] = d[q]
  BY DEF Tidied, Restrict

LEMMA DiscardedFacts ==
    ASSUME NEW r
    PROVE  /\ DOMAIN Discarded(r) = IF run[r].op = "thumbnails" THEN DOMAIN disk ELSE DOMAIN disk \ {Now(r).to}
           /\ \A q \in DOMAIN Discarded(r) : Discarded(r)[q] = disk[q]
  BY WithoutFacts DEF Discarded

\* Nothing goes wrong with what only loses files.
LEMMA FewerFiles ==
    ASSUME NEW d, Files(d), NEW r, NEW p
    PROVE  Files(Tidied(r, d)) /\ (d = disk => Files(Without(p)) /\ Files(Discarded(r)))
<1>1. Files(Tidied(r, d))
  BY DEF Files, Tidied, Restrict
<1>2. d = disk => Files(Without(p))
  BY DEF Files, Without, Restrict
<1>3. d = disk => Files(Discarded(r))
  BY DEF Files, Discarded, Without, Restrict
<1> QED BY <1>1, <1>2, <1>3

LEMMA PartialWhole ==
    ASSUME NEW r, NEW x
    PROVE  /\ Partial(r).by = r /\ Partial(r).whole = FALSE /\ Partial(r).pieces = <<>>
           /\ Whole(r, x).by = r /\ Whole(r, x).whole = TRUE /\ Whole(r, x).pieces = x
  BY DEF Partial, Whole

LEMMA FilledFiles == ASSUME Files(disk), NEW r \in Runs PROVE Files(Filled(r))
<1>1. r \in 0..MaxRuns
  BY RunsAre
<1> SUFFICES ASSUME NEW q \in DOMAIN disk PROVE Filled(r)[q].by \in 0..MaxRuns /\ Filled(r)[q].whole \in BOOLEAN
  BY FilledFacts DEF Files
<1>2. CASE q # Now(r).to
  BY <1>2, FilledFacts DEF Files
<1>3. CASE q = Now(r).to
  <2>1. Filled(r)[q] = Whole(r, Now(r).pieces) \/ Filled(r)[q] = Partial(r)
    BY <1>3, FilledFacts
  <2>2. /\ Whole(r, Now(r).pieces).by = r /\ Whole(r, Now(r).pieces).whole = TRUE
        /\ Partial(r).by = r /\ Partial(r).whole = FALSE
    BY PartialWhole
  <2> QED BY <1>1, <2>1, <2>2
<1> QED BY <1>2, <1>3

LEMMA PutFiles == ASSUME Files(disk), NEW r \in Runs, NEW p PROVE Files(Put(p, Partial(r)))
<1>1. r \in 0..MaxRuns
  BY RunsAre
<1> SUFFICES ASSUME NEW q \in DOMAIN disk \cup {p}
             PROVE  Put(p, Partial(r))[q].by \in 0..MaxRuns /\ Put(p, Partial(r))[q].whole \in BOOLEAN
  BY PutFacts DEF Files
<1>2. CASE q # p
  <2>1. q \in DOMAIN disk /\ Put(p, Partial(r))[q] = disk[q]
    BY <1>2 DEF Put
  <2> QED BY <2>1 DEF Files
<1>3. CASE q = p
  <2>1. Put(p, Partial(r))[q] = Partial(r)
    BY <1>3, PutFacts
  <2>2. Partial(r).by = r /\ Partial(r).whole = FALSE
    BY PartialWhole
  <2> QED BY <1>1, <2>1, <2>2
<1> QED BY <1>2, <1>3

LEMMA HandTyped ==
    ASSUME Hands(hand), NEW r \in Runs, NEW place \in Places
    PROVE  Hands([hand EXCEPT ![r].at = place])
  BY DEF Hands

LEMMA OneCoder ==
    ASSUME Coders(coder), NEW r \in Runs, NEW c,
           DOMAIN c = Runs, \A q \in Runs \ {r} : c[q] = coder[q],
           DOMAIN c[r] = DOMAIN coder[r], c[r].at = coder[r].at,
           c[r].lines \in Nat, c[r].noise \in Nat, c[r].out \in 0..Pipe, c[r].err \in 0..Pipe
    PROVE  Coders(c)
  BY DEF Coders

\* What the steps of a process and of its two readers do to it.
LEMMA ProgressCoder ==
    ASSUME Coders(coder), NEW r \in Runs, Progress(r)
    PROVE  /\ Coders(coder')
           /\ DOMAIN coder' = Runs /\ \A q \in Runs \ {r} : coder'[q] = coder[q]
           /\ DOMAIN coder'[r] = DOMAIN coder[r] /\ coder'[r].at = coder[r].at
           /\ coder'[r].lines = coder[r].lines - 1 /\ coder'[r].noise = coder[r].noise
           /\ coder'[r].out = coder[r].out + 1 /\ coder'[r].err = coder[r].err
<1>1. coder' = [coder EXCEPT ![r].lines = @ - 1, ![r].out = @ + 1]
  BY DEF Progress
<1>2. DOMAIN coder = Runs /\ DOMAIN coder[r] = {"at", "lines", "noise", "out", "err"}
  BY DEF Coders
<1>3. DOMAIN coder' = Runs
  BY <1>1, <1>2
<1>4. \A q \in Runs \ {r} : coder'[q] = coder[q]
  BY <1>1, <1>2
<1>5. DOMAIN coder'[r] = DOMAIN coder[r]
  BY <1>1, <1>2
<1>6. coder'[r].at = coder[r].at
  BY <1>1, <1>2
<1>7. coder'[r].lines = coder[r].lines - 1
  BY <1>1, <1>2
<1>8. coder'[r].noise = coder[r].noise
  BY <1>1, <1>2
<1>9. coder'[r].out = coder[r].out + 1
  BY <1>1, <1>2
<1>10. coder'[r].err = coder[r].err
  BY <1>1, <1>2
<1>11. coder[r].lines > 0 /\ coder[r].out < Pipe
  BY DEF Progress
<1>12. /\ coder[r].lines \in Nat /\ coder[r].noise \in Nat
       /\ coder[r].out \in 0..Pipe /\ coder[r].err \in 0..Pipe /\ Pipe \in Nat
  BY RunsAre DEF Coders
<1>13. /\ coder'[r].lines \in Nat /\ coder'[r].noise \in Nat
       /\ coder'[r].out \in 0..Pipe /\ coder'[r].err \in 0..Pipe
  BY <1>7, <1>8, <1>9, <1>10, <1>11, <1>12
<1>14. Coders(coder')
  BY <1>3, <1>4, <1>5, <1>6, <1>13, OneCoder
<1> QED BY <1>3, <1>4, <1>5, <1>6, <1>7, <1>8, <1>9, <1>10, <1>14

LEMMA ComplainCoder ==
    ASSUME Coders(coder), NEW r \in Runs, Complain(r)
    PROVE  /\ Coders(coder')
           /\ DOMAIN coder' = Runs /\ \A q \in Runs \ {r} : coder'[q] = coder[q]
           /\ DOMAIN coder'[r] = DOMAIN coder[r] /\ coder'[r].at = coder[r].at
           /\ coder'[r].lines = coder[r].lines /\ coder'[r].noise = coder[r].noise - 1
           /\ coder'[r].out = coder[r].out /\ coder'[r].err = coder[r].err + 1
<1>1. coder' = [coder EXCEPT ![r].noise = @ - 1, ![r].err = @ + 1]
  BY DEF Complain
<1>2. DOMAIN coder = Runs /\ DOMAIN coder[r] = {"at", "lines", "noise", "out", "err"}
  BY DEF Coders
<1>3. DOMAIN coder' = Runs
  BY <1>1, <1>2
<1>4. \A q \in Runs \ {r} : coder'[q] = coder[q]
  BY <1>1, <1>2
<1>5. DOMAIN coder'[r] = DOMAIN coder[r]
  BY <1>1, <1>2
<1>6. coder'[r].at = coder[r].at
  BY <1>1, <1>2
<1>7. coder'[r].lines = coder[r].lines
  BY <1>1, <1>2
<1>8. coder'[r].noise = coder[r].noise - 1
  BY <1>1, <1>2
<1>9. coder'[r].out = coder[r].out
  BY <1>1, <1>2
<1>10. coder'[r].err = coder[r].err + 1
  BY <1>1, <1>2
<1>11. coder[r].noise > 0 /\ coder[r].err < Pipe
  BY DEF Complain
<1>12. /\ coder[r].lines \in Nat /\ coder[r].noise \in Nat
       /\ coder[r].out \in 0..Pipe /\ coder[r].err \in 0..Pipe /\ Pipe \in Nat
  BY RunsAre DEF Coders
<1>13. /\ coder'[r].lines \in Nat /\ coder'[r].noise \in Nat
       /\ coder'[r].out \in 0..Pipe /\ coder'[r].err \in 0..Pipe
  BY <1>7, <1>8, <1>9, <1>10, <1>11, <1>12
<1>14. Coders(coder')
  BY <1>3, <1>4, <1>5, <1>6, <1>13, OneCoder
<1> QED BY <1>3, <1>4, <1>5, <1>6, <1>7, <1>8, <1>9, <1>10, <1>14

LEMMA DrainCoder ==
    ASSUME Coders(coder), NEW r \in Runs, Drain(r)
    PROVE  /\ Coders(coder')
           /\ DOMAIN coder' = Runs /\ \A q \in Runs \ {r} : coder'[q] = coder[q]
           /\ DOMAIN coder'[r] = DOMAIN coder[r] /\ coder'[r].at = coder[r].at
           /\ coder'[r].lines = coder[r].lines /\ coder'[r].noise = coder[r].noise
           /\ coder'[r].out = coder[r].out /\ coder'[r].err = coder[r].err - 1
<1>1. coder' = [coder EXCEPT ![r].err = @ - 1]
  BY DEF Drain
<1>2. DOMAIN coder = Runs /\ DOMAIN coder[r] = {"at", "lines", "noise", "out", "err"}
  BY DEF Coders
<1>3. DOMAIN coder' = Runs
  BY <1>1, <1>2
<1>4. \A q \in Runs \ {r} : coder'[q] = coder[q]
  BY <1>1, <1>2
<1>5. DOMAIN coder'[r] = DOMAIN coder[r]
  BY <1>1, <1>2
<1>6. coder'[r].at = coder[r].at
  BY <1>1, <1>2
<1>7. coder'[r].lines = coder[r].lines
  BY <1>1, <1>2
<1>8. coder'[r].noise = coder[r].noise
  BY <1>1, <1>2
<1>9. coder'[r].out = coder[r].out
  BY <1>1, <1>2
<1>10. coder'[r].err = coder[r].err - 1
  BY <1>1, <1>2
<1>11. coder[r].err > 0
  BY DEF Drain
<1>12. /\ coder[r].lines \in Nat /\ coder[r].noise \in Nat
       /\ coder[r].out \in 0..Pipe /\ coder[r].err \in 0..Pipe /\ Pipe \in Nat
  BY RunsAre DEF Coders
<1>13. /\ coder'[r].lines \in Nat /\ coder'[r].noise \in Nat
       /\ coder'[r].out \in 0..Pipe /\ coder'[r].err \in 0..Pipe
  BY <1>7, <1>8, <1>9, <1>10, <1>11, <1>12
<1>14. Coders(coder')
  BY <1>3, <1>4, <1>5, <1>6, <1>13, OneCoder
<1> QED BY <1>3, <1>4, <1>5, <1>6, <1>7, <1>8, <1>9, <1>10, <1>14

LEMMA PumpCoder ==
    ASSUME Coders(coder), NEW r \in Runs, Pump(r)
    PROVE  /\ Coders(coder')
           /\ DOMAIN coder' = Runs /\ \A q \in Runs \ {r} : coder'[q] = coder[q]
           /\ DOMAIN coder'[r] = DOMAIN coder[r] /\ coder'[r].at = coder[r].at
           /\ coder'[r].lines = coder[r].lines /\ coder'[r].noise = coder[r].noise
           /\ coder'[r].out = coder[r].out - 1 /\ coder'[r].err = coder[r].err
<1>1. coder' = [coder EXCEPT ![r].out = @ - 1]
  BY DEF Pump
<1>2. DOMAIN coder = Runs /\ DOMAIN coder[r] = {"at", "lines", "noise", "out", "err"}
  BY DEF Coders
<1>3. DOMAIN coder' = Runs
  BY <1>1, <1>2
<1>4. \A q \in Runs \ {r} : coder'[q] = coder[q]
  BY <1>1, <1>2
<1>5. DOMAIN coder'[r] = DOMAIN coder[r]
  BY <1>1, <1>2
<1>6. coder'[r].at = coder[r].at
  BY <1>1, <1>2
<1>7. coder'[r].lines = coder[r].lines
  BY <1>1, <1>2
<1>8. coder'[r].noise = coder[r].noise
  BY <1>1, <1>2
<1>9. coder'[r].out = coder[r].out - 1
  BY <1>1, <1>2
<1>10. coder'[r].err = coder[r].err
  BY <1>1, <1>2
<1>11. coder[r].out > 0
  BY DEF Pump
<1>12. /\ coder[r].lines \in Nat /\ coder[r].noise \in Nat
       /\ coder[r].out \in 0..Pipe /\ coder[r].err \in 0..Pipe /\ Pipe \in Nat
  BY RunsAre DEF Coders
<1>13. /\ coder'[r].lines \in Nat /\ coder'[r].noise \in Nat
       /\ coder'[r].out \in 0..Pipe /\ coder'[r].err \in 0..Pipe
  BY <1>7, <1>8, <1>9, <1>10, <1>11, <1>12
<1>14. Coders(coder')
  BY <1>3, <1>4, <1>5, <1>6, <1>13, OneCoder
<1> QED BY <1>3, <1>4, <1>5, <1>6, <1>7, <1>8, <1>9, <1>10, <1>14

LEMMA FreshCoder ==
    ASSUME Coders(coder), NEW r \in Runs, coder' = [coder EXCEPT ![r] = NoCoder]
    PROVE  Coders(coder') /\ coder'[r].at = "none" /\ \A q \in Runs \ {r} : coder'[q] = coder[q]
<1>1. /\ DOMAIN NoCoder = {"at", "lines", "noise", "out", "err"} /\ NoCoder.at = "none"
      /\ NoCoder.lines = 0 /\ NoCoder.noise = 0 /\ NoCoder.out = 0 /\ NoCoder.err = 0
  BY DEF NoCoder
<1>2. 0 \in 0..Pipe /\ 0 \in Nat
  BY RunsAre
<1>3. \A q \in Runs : coder'[q] = IF q = r THEN NoCoder ELSE coder[q]
  BY DEF Coders
<1> QED BY <1>1, <1>2, <1>3 DEF Coders

\* The steps.
Panel == \/ \E p \in SourcesOf(suite) : AddFiles(p)
         \/ \E i \in DOMAIN form.files : RemoveFile(i) \/ Move(i)
         \/ \E op \in Suites[suite] : ChangeOperation(op)
Deletes == \E p \in SourcesOf(suite) : UserDeletes(p)

LEMMA NextIs ==
    Next <=> Panel \/ Deletes \/ \E r \in Runs : Begin(r) \/ Abandon(r) \/ Break(r) \/ PumpLate(r) \/ Loop(r) \/ Thread(r) \/ Encoding(r)
  BY DEF Next, Panel, Deletes

\* The changes of the list.
LEMMA FormTyped ==
    ASSUME Typed, Panel
    PROVE  form' \in [op : Suites[suite], files : Seq(SourcesOf(suite))]
<1> DEFINE S == SourcesOf(suite)
<1>1. form \in [op : Suites[suite], files : Seq(S)] /\ form.files \in Seq(S) /\ form.op \in Suites[suite]
  BY DEF Typed
<1> HIDE DEF S
<1>2. ASSUME NEW p \in SourcesOf(suite), AddFiles(p) PROVE form' \in [op : Suites[suite], files : Seq(S)]
  <2>1. form' = [form EXCEPT !.files = Append(@, p)] /\ Append(form.files, p) \in Seq(S)
    BY <1>1, <1>2 DEF AddFiles, S
  <2> QED BY <1>1, <2>1 DEF S
<1>3. ASSUME NEW i \in DOMAIN form.files, RemoveFile(i) PROVE form' \in [op : Suites[suite], files : Seq(S)]
  <2>1. form' = [form EXCEPT !.files = RemoveAt(@, i)]
    BY <1>3 DEF RemoveFile
  <2>2. RemoveAt(form.files, i) \in Seq(S)
    <3>1. i \in 1..Len(form.files)
      BY <1>1
    <3>2. SubSeq(form.files, 1, i - 1) \in Seq(S) /\ SubSeq(form.files, i + 1, Len(form.files)) \in Seq(S)
      BY <1>1, <3>1
    <3> QED BY <3>2 DEF RemoveAt
  <2> QED BY <1>1, <2>1, <2>2 DEF S
<1>4. ASSUME NEW i \in DOMAIN form.files, Move(i) PROVE form' \in [op : Suites[suite], files : Seq(S)]
  <2> DEFINE files == [form.files EXCEPT ![i] = form.files[i + 1], ![i + 1] = form.files[i]]
  <2>1. form' = [form EXCEPT !.files = files]
    BY <1>1, <1>4 DEF Move
  <2>2. i + 1 \in DOMAIN form.files /\ i \in DOMAIN form.files
    BY <1>4 DEF Move
  <2>3. files \in Seq(S)
    BY <1>1, <2>2
  <2> HIDE DEF files
  <2> QED BY <1>1, <2>1, <2>3 DEF S
<1>5. ASSUME NEW op \in Suites[suite], ChangeOperation(op) PROVE form' \in [op : Suites[suite], files : Seq(S)]
  <2>1. form' = [op |-> op, files |-> IF Single(op) /\ form.files # <<>> THEN <<form.files[1]>> ELSE Kept(form.files, Readable[op])]
    BY <1>5 DEF ChangeOperation
  <2>2. Kept(form.files, Readable[op]) \in Seq(S)
    BY <1>1, KeptIs
  <2>3. form.files # <<>> => <<form.files[1]>> \in Seq(S)
    BY <1>1
  <2> QED BY <2>1, <2>2, <2>3 DEF S
<1> QED BY <1>2, <1>3, <1>4, <1>5 DEF Panel, S

\* What probing a clip leaves in the hand.
LEMMA ProbeHand ==
    ASSUME Hands(hand), NEW r \in Runs, Probe(r)
    PROVE  /\ DOMAIN hand' = Runs /\ \A q \in Runs \ {r} : hand'[q] = hand[q]
           /\ DOMAIN hand'[r] = {"at", "n", "got", "timed", "unheard"}
           /\ hand'[r].n = hand[r].n /\ hand'[r].got = hand[r].got
           /\ \/ hand'[r].at = "probed" /\ hand'[r].unheard = hand[r].unheard
              \/ hand'[r].at = "probed" /\ hand'[r].unheard = hand[r].unheard \cup {run[r].k} /\ run[r].op # "audio"
              \/ hand'[r].at = "ended" /\ hand'[r].unheard = hand[r].unheard \cup {run[r].k} /\ run[r].op = "audio"
<1>1. DOMAIN hand = Runs /\ DOMAIN hand[r] = {"at", "n", "got", "timed", "unheard"}
  BY DEF Hands
<1>2. CASE Hand(r, "probed")
  BY <1>1, <1>2 DEF Hand
<1>3. ASSUME NEW facts,
             hand' = [hand EXCEPT ![r].timed = "length" \in facts,
                        ![r].unheard = IF "sound" \in facts THEN @ ELSE @ \cup {run[r].k},
                        ![r].at = IF run[r].op = "audio" /\ "sound" \notin facts THEN "ended" ELSE "probed"]
      PROVE  /\ DOMAIN hand' = Runs /\ \A q \in Runs \ {r} : hand'[q] = hand[q]
             /\ DOMAIN hand'[r] = {"at", "n", "got", "timed", "unheard"}
             /\ hand'[r].n = hand[r].n /\ hand'[r].got = hand[r].got
             /\ hand'[r].at = IF run[r].op = "audio" /\ "sound" \notin facts THEN "ended" ELSE "probed"
             /\ hand'[r].unheard = IF "sound" \in facts THEN hand[r].unheard ELSE hand[r].unheard \cup {run[r].k}
  BY <1>1, <1>3
<1>4. CASE ~Hand(r, "probed")
  <2>1. PICK facts \in Facts(Clip(r)) :
           hand' = [hand EXCEPT ![r].timed = "length" \in facts,
                      ![r].unheard = IF "sound" \in facts THEN @ ELSE @ \cup {run[r].k},
                      ![r].at = IF run[r].op = "audio" /\ "sound" \notin facts THEN "ended" ELSE "probed"]
    BY <1>4 DEF Probe
  <2> QED BY <1>3, <2>1
<1> QED BY <1>2, <1>4

LEMMA TypedNext ==
    ASSUME Typed, Next
    PROVE  Typed'
<1> USE DEF Typed
<1>3. edits > 0 /\ edits' = edits - 1 => edits' \in 0..MaxEdits[suite]
  <2>1. MaxEdits[suite] \in Nat
    BY ConvertersAssumption
  <2> QED BY <2>1
<1>4. ASSUME Panel PROVE Typed'
  <2>1. form' \in [op : Suites[suite], files : Seq(SourcesOf(suite))]
    BY <1>4, FormTyped DEF Panel
  <2>2. UNCHANGED <<suite, disk, run, work, shown, made, mixed>> /\ edits > 0 /\ edits' = edits - 1
    BY <1>4 DEF Panel, AddFiles, RemoveFile, Move, ChangeOperation, EditList, Edit
  <2> QED BY <1>3, <2>1, <2>2 DEF work
<1>5. ASSUME NEW p, UserDeletes(p) PROVE Typed'
  <2>1. Files(disk')
    <3>1. disk' = Without(p)
      BY <1>5 DEF UserDeletes
    <3> QED BY <3>1, FewerFiles
  <2> QED BY <1>3, <1>5, <2>1 DEF UserDeletes, Edit, work
<1>6. ASSUME NEW r \in Runs, Begin(r) PROVE Typed'
  <2>1. /\ run' = [run EXCEPT ![r] = [op |-> form.op, ins |-> form.files, k |-> 1,
                  at |-> IF suite = "packager" \/ ToSet(form.files) \subseteq DOMAIN disk THEN "running" ELSE "failed"]]
        /\ mixed' \subseteq Runs
    BY <1>6 DEF Begin
  <2>2. form.op \in Ops /\ form.files \in Seq(Sources)
    <3>1. form.op \in Suites[suite] /\ form.files \in Seq(SourcesOf(suite))
      OBVIOUS
    <3>2. Suites[suite] \subseteq Ops /\ SourcesOf(suite) \subseteq Sources
      BY SuiteFacts
    <3>3. form.files \in Seq(Sources)
      BY <3>1, <3>2
    <3> QED BY <3>1, <3>2, <3>3
  <2>3. run' \in [Runs -> [op : Ops, ins : Seq(Sources), at : RunPlaces, k : Nat]]
    BY <2>1, <2>2 DEF RunPlaces
  <2> QED BY <1>6, <2>1, <2>3 DEF Begin, work
<1>7. ASSUME NEW r \in Runs, NEW place \in RunPlaces, Goto(r, place)
      PROVE  run' \in [Runs -> [op : Ops, ins : Seq(Sources), at : RunPlaces, k : Nat]]
  BY <1>7 DEF Goto
<1>8. ASSUME NEW r \in Runs, NEW place \in Places, Hand(r, place) PROVE Hands(hand')
  BY <1>8, HandTyped DEF Hand
<1>9. ASSUME NEW r \in Runs, Abandon(r) PROVE Typed'
  <2>1. run' \in [Runs -> [op : Ops, ins : Seq(Sources), at : RunPlaces, k : Nat]] /\ updates' \in [Runs -> Nat]
    BY <1>7, <1>9 DEF Abandon, RunPlaces
  <2> QED BY <1>9, <2>1 DEF Abandon
<1>10. ASSUME NEW r \in Runs, Call(r) \/ ReadFails(r) PROVE Typed'
  <2>1. Hands(hand')
    BY <1>8, <1>10, HandTyped DEF Call, ReadFails, Places
  <2> QED BY <1>10, <2>1 DEF Call, ReadFails
<1>11. ASSUME NEW r \in Runs, Relay(r) PROVE Typed'
  <2>1. updates' \in [Runs -> Nat] /\ shown' \in [Runs -> Nat]
    BY <1>11 DEF Relay
  <2> QED BY <1>11, <2>1 DEF Relay
<1>12. ASSUME NEW r \in Runs, Advance(r) PROVE Typed'
  <2>1. run' \in [Runs -> [op : Ops, ins : Seq(Sources), at : RunPlaces, k : Nat]]
    <3>1. run' = [run EXCEPT ![r].k = @ + 1]
      BY <1>12 DEF Advance
    <3>2. run[r] \in [op : Ops, ins : Seq(Sources), at : RunPlaces, k : Nat] /\ run[r].k + 1 \in Nat
      OBVIOUS
    <3>3. [run[r] EXCEPT !.k = @ + 1] \in [op : Ops, ins : Seq(Sources), at : RunPlaces, k : Nat]
      BY <3>2
    <3> QED BY <3>1, <3>2, <3>3
  <2>3. updates' \in [Runs -> Nat]
    BY <1>12 DEF Advance
  <2>2. Hands(hand')
    BY <1>12 DEF Advance, Hands, Places
  <2> QED BY <1>12, <2>1, <2>2, <2>3 DEF Advance
<1>13. ASSUME NEW r \in Runs, Fail(r) \/ Finish(r) PROVE Typed'
  <2>1. run' \in [Runs -> [op : Ops, ins : Seq(Sources), at : RunPlaces, k : Nat]]
    BY <1>7, <1>13 DEF Fail, Finish, RunPlaces
  <2> QED BY <1>13, <2>1 DEF Fail, Finish, work
<1>14. ASSUME NEW r \in Runs, Read(r) PROVE Typed'
  <2>1. Hands(hand')
    BY <1>14 DEF Read, Hands, Places
  <2> QED BY <1>14, <2>1 DEF Read
<1>15. ASSUME NEW r \in Runs, Truncate(r) \/ WriteFails(r) PROVE Typed'
  <2>1. Hands(hand')
    BY <1>8, <1>15 DEF Truncate, WriteFails, Places
  <2>2. Files(disk')
    <3>1. CASE Truncate(r)
      BY <3>1, PutFiles DEF Truncate
    <3>2. CASE WriteFails(r)
      <4>1. disk' = Tidied(r, disk)
        BY <3>2 DEF WriteFails
      <4> QED BY <4>1, FewerFiles
    <3> QED BY <1>15, <3>1, <3>2
  <2> QED BY <1>15, <2>1, <2>2 DEF Truncate, WriteFails
<1>16. ASSUME NEW r \in Runs, Close(r) PROVE Typed'
  <2>1. Hands(hand')
    BY <1>16 DEF Close, Hands, Places
  <2>2. Files(disk')
    <3>1. disk' = Filled(r) \/ disk' = Tidied(r, Filled(r))
      BY <1>16 DEF Close
    <3>2. Files(Filled(r))
      BY FilledFiles
    <3>4. Files(Tidied(r, Filled(r)))
      BY <3>2, FewerFiles
    <3> QED BY <3>1, <3>2, <3>4
  <2> QED BY <1>16, <2>1, <2>2 DEF Close
<1>17. ASSUME NEW r \in Runs, NEW place \in {"on", "wedged", "ok", "bad"}, Coder(r, place) PROVE Coders(coder')
  BY <1>17 DEF Coder, Coders
<1>18. ASSUME NEW r \in Runs, Spawn(r) PROVE Typed'
  <2>1. Hands(hand')
    <3>1. ASSUME hand' = [hand EXCEPT ![r].at = "encoding", ![r].got = @ \o Taken(r)] PROVE Hands(hand')
      BY <3>1 DEF Hands, Places
    <3>2. hand' = [hand EXCEPT ![r].at = "encoding", ![r].got = @ \o Taken(r)] \/ Hand(r, "encoding") \/ Hand(r, "failed")
      BY <1>18 DEF Spawn
    <3> QED BY <1>8, <3>1, <3>2 DEF Places
  <2>2. Files(disk')
    BY <1>18, PutFiles DEF Spawn
  <2>3. Coders(coder')
    <3> DEFINE new == [coder EXCEPT ![r] = [at |-> "on", lines |-> Lines, noise |-> Noise, out |-> 0, err |-> 0]]
    <3>1. Coders(new)
      BY RunsAre DEF Coders
    <3>2. coder' = coder \/ Coder(r, "bad") \/ coder' = new
      BY <1>18 DEF Spawn
    <3> HIDE DEF new
    <3> QED BY <1>17, <3>1, <3>2
  <2> QED BY <1>18, <2>1, <2>2, <2>3 DEF Spawn
<1>19. ASSUME NEW r \in Runs, Progress(r) \/ Complain(r) \/ Drain(r) PROVE Typed'
  <2>1. Coders(coder')
    BY <1>19, ProgressCoder, ComplainCoder, DrainCoder
  <2> QED BY <1>19, <2>1 DEF Progress, Complain, Drain
<1>20. ASSUME NEW r \in Runs, Complete(r) PROVE Typed'
  <2>1. Coders(coder') /\ Files(disk')
    BY <1>17, <1>20, FilledFiles DEF Complete
  <2> QED BY <1>20, <2>1 DEF Complete
<1>21. ASSUME NEW r \in Runs, Break(r) PROVE Typed'
  <2>1. Coders(coder')
    BY <1>17, <1>21 DEF Break
  <2> QED BY <1>21, <2>1 DEF Break
<1>22. ASSUME NEW r \in Runs, Pump(r) PROVE Typed'
  <2>1. Coders(coder')
    BY <1>22, PumpCoder
  <2>2. updates' \in [Runs -> Nat] /\ made' \in [Runs -> Nat]
    <3>1. \/ updates' = updates /\ made' = made
          \/ updates' = [updates EXCEPT ![r] = @ + 1] /\ made' = [made EXCEPT ![r] = @ + 1]
      BY <1>22 DEF Pump
    <3>2. updates \in [Runs -> Nat] /\ made \in [Runs -> Nat]
      OBVIOUS
    <3> HIDE DEF Typed
    <3>3. [updates EXCEPT ![r] = @ + 1] \in [Runs -> Nat] /\ [made EXCEPT ![r] = @ + 1] \in [Runs -> Nat]
      BY <3>2
    <3> QED BY <3>1, <3>2, <3>3
  <2> QED BY <1>22, <2>1, <2>2 DEF Pump
<1>23. ASSUME NEW r \in Runs, PumpLate(r) \/ Wait(r) PROVE Typed'
  <2>1. Hands(hand')
    BY <1>8, <1>23 DEF PumpLate, Wait, Places
  <2>2. Files(disk')
    <3>1. disk' = disk \/ disk' = Discarded(r)
      BY <1>23 DEF PumpLate, Wait
    <3>3. Files(Discarded(r))
      BY FewerFiles
    <3> QED BY <3>1, <3>3
  <2>3. Coders(coder')
    <3>1. coder' = [coder EXCEPT ![r] = NoCoder]
      BY <1>23 DEF PumpLate, Wait
    <3> QED BY <3>1, FreshCoder
  <2> QED BY <1>23, <2>1, <2>2, <2>3 DEF PumpLate, Wait
<1>24. ASSUME NEW r \in Runs, Loop(r) PROVE Typed'
  BY <1>10, <1>11, <1>12, <1>13, <1>24 DEF Loop
<1>27. ASSUME NEW r \in Runs, Probe(r) PROVE Typed'
  <2>1. Hands(hand')
    <3>1. /\ DOMAIN hand' = Runs /\ \A q \in Runs \ {r} : hand'[q] = hand[q]
          /\ DOMAIN hand'[r] = {"at", "n", "got", "timed", "unheard"}
          /\ hand'[r].n = hand[r].n /\ hand'[r].at \in {"probed", "ended"} /\ Hands(hand)
      BY <1>27, ProbeHand
    <3> QED BY <3>1 DEF Hands, Places
  <2> QED BY <1>27, <2>1 DEF Probe
<1>25. ASSUME NEW r \in Runs, Thread(r) PROVE Typed'
  BY <1>10, <1>14, <1>15, <1>16, <1>18, <1>25, <1>27 DEF Thread
<1>26. ASSUME NEW r \in Runs, Encoding(r) PROVE Typed'
  BY <1>19, <1>20, <1>22, <1>23, <1>26 DEF Encoding
<1> QED BY NextIs, <1>4, <1>5, <1>6, <1>9, <1>21, <1>23, <1>24, <1>25, <1>26 DEF Deletes

-----------------------------------------------------------------------------
(* What a step writes.                                                     *)

\* What the sources of a suite, and what is written of them, consist of.
Texts == (SourcesOf(suite) \cup {Heading}) \X Nat

LEMMA PartCountNat == PartCount \in Nat
<1>1. Pages + PerPart - 1 \in Nat /\ PerPart \in Nat \ {0}
  BY ConvertersAssumption
<1> QED BY <1>1 DEF PartCount

LEMMA StepsNat ==
    ASSUME NEW op \in Ops, NEW ins \in Seq(Sources)
    PROVE  Steps(op, ins) \in Nat
<1>1. Len(ins) \in Nat /\ Pages \in Nat
  BY ConvertersAssumption
<1> QED BY <1>1, PartCountNat DEF Steps

LEMMA OpsAre ==
    Ops = {"convert", "densities", "drawable", "translate", "mp4", "audio", "thumbnails",
           "merge", "split", "rotate", "images", "docx", "pack"}
<1>1. \A op : op \in Ops <=> \E t \in DOMAIN Suites : op \in Suites[t]
  BY DEF Ops
<1> QED BY <1>1, SuiteFacts

LEMMA PackDomain ==
    ASSUME NEW T, \A p \in T : Count(p) \in Nat, NEW got \in Seq(T)
    PROVE  DOMAIN Pack(got) = 1..Len(Pack(got)) /\ Len(Pack(got)) \in Nat
<1>1. Pack(got) \in Seq(Seq(T))
  BY PackFacts, ConvertersAssumption
<1> QED BY <1>1

\* The writes of a step are a sequence.
IsList(s) == Len(s) \in Nat /\ DOMAIN s = 1..Len(s) /\ (s # <<>> => 1 \in DOMAIN s)

LEMMA Lists ==
    /\ IsList(<<>>)
    /\ \A a : IsList(<<a>>) /\ Len(<<a>>) = 1
    /\ \A m \in Nat : \A f : IsList([i \in 1..m |-> f[i]]) /\ Len([i \in 1..m |-> f[i]]) = m
<1>1. IsList(<<>>)
  BY DEF IsList
<1>2. \A a : IsList(<<a>>) /\ Len(<<a>>) = 1
  BY DEF IsList
<1>3. ASSUME NEW m \in Nat, NEW f PROVE IsList([i \in 1..m |-> f[i]]) /\ Len([i \in 1..m |-> f[i]]) = m
  <2> DEFINE s == [i \in 1..m |-> f[i]]
  <2>1. DOMAIN s = 1..m /\ Len(s) = m
    OBVIOUS
  <2>2. s # <<>> => m # 0
    <3>1. m = 0 => s = <<>>
      OBVIOUS
    <3> QED BY <3>1
  <2> QED BY <2>1, <2>2 DEF IsList
<1> QED BY <1>1, <1>2, <1>3

LEMMA TargetsList ==
    ASSUME NEW op \in Ops, NEW ins, NEW k, NEW got,
           op = "pack" => DOMAIN Pack(got) = 1..Len(Pack(got)) /\ Len(Pack(got)) \in Nat
    PROVE  IsList(Targets(op, ins, k, got))
<1>1. CASE op = "convert"
  BY <1>1, Lists DEF Targets, Convert
<1>2. CASE op = "densities"
  <2> DEFINE f == [d \in 1..2 |-> Write(Output(Stem(ins[k]), "drawable", d), LastOf(got))]
  <2>1. f = [d \in 1..2 |-> f[d]]
    OBVIOUS
  <2>2. Targets(op, ins, k, got) = f
    BY <1>2 DEF Targets, Densities
  <2> HIDE DEF f
  <2> QED BY <2>1, <2>2, Lists
<1>3. CASE op = "drawable"
  BY <1>3, Lists DEF Targets, Drawable
<1>4. CASE op = "translate"
  BY <1>4, Lists DEF Targets, Translate
<1>5. CASE op = "mp4"
  BY <1>5, Lists DEF Targets, ToMp4
<1>6. CASE op = "audio"
  BY <1>6, Lists DEF Targets, ExtractAudio
<1>7. CASE op = "thumbnails"
  BY <1>7, Lists DEF Targets, Thumbnails
<1>8. CASE op = "merge"
  BY <1>8, Lists DEF Targets, Merge
<1>9. CASE op = "split"
  BY <1>9, Lists DEF Targets, Split
<1>10. CASE op = "rotate"
  BY <1>10, Lists DEF Targets, Rotate
<1>11. CASE op = "images"
  BY <1>11, Lists DEF Targets, ExtractImages
<1>12. CASE op = "docx"
  BY <1>12, Lists DEF Targets, ToDocx
<1>13. CASE op = "pack"
  <2> DEFINE f == [i \in DOMAIN Pack(got) |-> Write(Output("context", "txt", i), Headed(Pack(got)[i]))]
  <2>1. f = [i \in 1..Len(Pack(got)) |-> f[i]] /\ Len(Pack(got)) \in Nat
    BY <1>13
  <2>2. Targets(op, ins, k, got) = <<>> \/ Targets(op, ins, k, got) = f
    BY <1>13 DEF Targets, WriteChunks
  <2> HIDE DEF f
  <2> QED BY <2>1, <2>2, Lists
<1> QED BY <1>1, <1>2, <1>3, <1>4, <1>5, <1>6, <1>7, <1>8, <1>9, <1>10, <1>11, <1>12, <1>13, OpsAre

-----------------------------------------------------------------------------
(* Which thread works for whom.                                            *)

\* A run, its thread and its process.
Own(r) ==
    /\ run[r].at # "none" =>
          /\ run[r].op \in Suites[suite] /\ Valid(run[r].op, Ins(r))
          /\ run[r].k \in 1..(Steps(run[r].op, Ins(r)) + 1)
    /\ run[r].at = "none" => run[r] = NoRun /\ hand[r] = NoHand /\ updates[r] = 0 /\ shown[r] = 0 /\ made[r] = 0
    /\ hand[r].unheard \subseteq 1..run[r].k
    /\ hand[r].at \in {"idle", "reading"} => run[r].k \notin hand[r].unheard
    /\ Works(r) \/ hand[r].at = "ended" => run[r].k <= Steps(run[r].op, Ins(r))
    /\ run[r].at = "done" => hand[r].at = "idle" /\ run[r].k = Steps(run[r].op, Ins(r)) + 1
    /\ run[r].at = "failed" => hand[r].at \in {"idle", "failed"}
    /\ coder[r].at = "none" <=> hand[r].at # "encoding"
    /\ hand[r].at \in {"probed", "encoding"} => suite = "media"
    /\ hand[r].at \in {"writing", "filling"} => suite # "media"
    /\ hand[r].at \in {"writing", "filling", "probed", "encoding"} => hand[r].n \in DOMAIN Due(r)
    /\ hand[r].at \in {"idle", "reading", "probed", "encoding"} => hand[r].n = 1

\* A step of a run leaves the others alone, one of the panel all of them.
Acts(r) == Begin(r) \/ Abandon(r) \/ Break(r) \/ PumpLate(r) \/ Loop(r) \/ Thread(r) \/ Encoding(r)
Same(q) == /\ run'[q] = run[q] /\ hand'[q] = hand[q] /\ coder'[q] = coder[q]
           /\ updates'[q] = updates[q] /\ shown'[q] = shown[q] /\ made'[q] = made[q]

LEMMA Others ==
    ASSUME Typed, NEW r \in Runs, Acts(r), NEW q \in Runs, q # r
    PROVE  Same(q) /\ suite' = suite
<1> USE DEF Typed, Same
<1>1. DOMAIN hand = Runs /\ DOMAIN coder = Runs /\ DOMAIN run = Runs /\ DOMAIN updates = Runs /\ DOMAIN shown = Runs /\ DOMAIN made = Runs
  BY DEF Hands, Coders
<1>2. CASE Begin(r) \/ Abandon(r)
  BY <1>1, <1>2 DEF Begin, Abandon, Goto, work
<1>3. CASE Break(r) \/ PumpLate(r)
  BY <1>1, <1>3 DEF Break, PumpLate, Coder, Hand
<1>4. CASE Loop(r)
  <2>1. CASE Call(r)
    BY <1>1, <2>1 DEF Call
  <2>2. CASE Relay(r)
    BY <1>1, <2>2 DEF Relay
  <2>3. CASE Advance(r)
    BY <1>1, <2>3 DEF Advance
  <2>4. CASE Fail(r) \/ Finish(r)
    BY <1>1, <2>4 DEF Fail, Finish, Goto, work
  <2> QED BY <1>4, <2>1, <2>2, <2>3, <2>4 DEF Loop
<1>5. CASE Thread(r)
  <2>1. CASE Read(r)
    BY <1>1, <2>1 DEF Read
  <2>2. CASE ReadFails(r) \/ Truncate(r) \/ WriteFails(r)
    BY <1>1, <2>2 DEF ReadFails, Truncate, WriteFails, Hand
  <2>3. CASE Close(r)
    BY <1>1, <2>3 DEF Close
  <2>4. CASE Spawn(r)
    BY <1>1, <2>4 DEF Spawn, Hand, Coder
  <2>5. CASE Probe(r)
    BY <1>1, <2>5, ProbeHand DEF Probe
  <2> QED BY <1>5, <2>1, <2>2, <2>3, <2>4, <2>5 DEF Thread
<1>6. CASE Encoding(r)
  <2>1. CASE Progress(r) \/ Complain(r) \/ Drain(r)
    BY <2>1, ProgressCoder, ComplainCoder, DrainCoder DEF Progress, Complain, Drain
  <2>2. CASE Complete(r)
    BY <1>1, <2>2 DEF Complete, Coder
  <2>3. CASE Pump(r)
    BY <1>1, <2>3, PumpCoder DEF Pump
  <2>4. CASE Wait(r)
    BY <1>1, <2>4 DEF Wait, Hand
  <2> QED BY <1>6, <2>1, <2>2, <2>3, <2>4 DEF Encoding
<1> QED BY <1>2, <1>3, <1>4, <1>5, <1>6 DEF Acts

LEMMA PanelSame ==
    ASSUME Panel \/ Deletes
    PROVE  UNCHANGED <<suite, run, hand, coder, updates, shown, made, mixed>>
  BY DEF Panel, Deletes, AddFiles, RemoveFile, Move, ChangeOperation, UserDeletes, work

\* What an action does to the run and the thread it is about.
Place(r, x) ==
    hand'[r].at = x /\ hand'[r].n = hand[r].n /\ hand'[r].got = hand[r].got /\ hand'[r].unheard = hand[r].unheard
Course(r, x) == run'[r].at = x /\ run'[r].op = run[r].op /\ run'[r].ins = run[r].ins /\ run'[r].k = run[r].k

LEMMA HandPlace == ASSUME Typed, NEW r \in Runs, NEW x, hand' = [hand EXCEPT ![r].at = x] PROVE Place(r, x)
  BY DEF Typed, Hands, Place

LEMMA GotoCourse == ASSUME Typed, NEW r \in Runs, NEW x, Goto(r, x) PROVE Course(r, x)
<1>1. DOMAIN run = Runs /\ run[r] \in [op : Ops, ins : Seq(Sources), at : RunPlaces, k : Nat]
  BY DEF Typed
<1>2. DOMAIN run[r] = {"op", "ins", "at", "k"}
  BY <1>1
<1> QED BY <1>1, <1>2 DEF Goto, Course

LEMMA CoderPlace ==
    ASSUME Typed, NEW r \in Runs, NEW x, Coder(r, x)
    PROVE  /\ coder'[r].at = x /\ coder'[r].lines = coder[r].lines /\ coder'[r].noise = coder[r].noise
           /\ coder'[r].out = coder[r].out /\ coder'[r].err = coder[r].err
  BY DEF Typed, Coders, Coder

-----------------------------------------------------------------------------
(* What an action of a run does to its own fields.                         *)

LEMMA BeginDoes ==
    ASSUME Typed, NEW r \in Runs, Begin(r)
    PROVE  /\ run[r].at = "none" /\ Valid(form.op, form.files) /\ Running = {}
           /\ \A q \in Runs : q < r => run[q].at # "none"
           /\ run'[r].op = form.op /\ run'[r].ins = form.files /\ run'[r].k = 1
           /\ run'[r].at \in {"running", "failed"}
           /\ UNCHANGED <<suite, disk, hand, coder, updates, shown, made>>
           /\ mixed' = IF \E q \in Runs : Works(q) THEN mixed \cup {r} ELSE mixed
<1>1. run' = [run EXCEPT ![r] =
                 [op |-> form.op, ins |-> form.files, k |-> 1,
                  at |-> IF suite = "packager" \/ ToSet(form.files) \subseteq DOMAIN disk THEN "running" ELSE "failed"]]
  BY DEF Begin
<1>2. DOMAIN run = Runs
  BY DEF Typed
<1>3. run'[r] = [op |-> form.op, ins |-> form.files, k |-> 1,
                 at |-> IF suite = "packager" \/ ToSet(form.files) \subseteq DOMAIN disk THEN "running" ELSE "failed"]
  BY <1>1, <1>2
<1> QED BY <1>3 DEF Begin, work

LEMMA AbandonDoes ==
    ASSUME Typed, NEW r \in Runs, Abandon(r)
    PROVE  /\ run[r].at = "running" /\ Course(r, "abandoned") /\ updates'[r] = 0
           /\ UNCHANGED <<suite, disk, hand, coder, shown, made, mixed>>
<1>1. DOMAIN updates = Runs
  BY DEF Typed
<1> QED BY <1>1, GotoCourse DEF Abandon

LEMMA BreakDoes ==
    ASSUME Typed, NEW r \in Runs, Break(r)
    PROVE  /\ coder[r].at = "on" /\ coder'[r].at \in {"bad", "wedged"}
           /\ UNCHANGED <<suite, disk, run, hand, updates, shown, made, mixed>>
  BY CoderPlace DEF Break

LEMMA PumpLateDoes ==
    ASSUME Typed, NEW r \in Runs, PumpLate(r)
    PROVE  /\ hand[r].at = "encoding" /\ run[r].at = "abandoned" /\ Place(r, "failed") /\ coder'[r].at = "none"
           /\ disk' = Discarded(r)
           /\ UNCHANGED <<suite, run, updates, shown, made, mixed>>
  BY HandPlace, FreshCoder DEF PumpLate, Typed, Hand

LEMMA CallDoes ==
    ASSUME Typed, NEW r \in Runs, Call(r)
    PROVE  /\ run[r].at = "running" /\ hand[r].at = "idle" /\ Place(r, "reading")
           /\ run[r].k <= Steps(run[r].op, Ins(r))
           /\ UNCHANGED <<suite, disk, run, coder, updates, shown, made, mixed>>
  BY HandPlace DEF Call, InRun

LEMMA RelayDoes ==
    ASSUME Typed, NEW r \in Runs, Relay(r)
    PROVE  /\ run[r].at = "running" /\ updates[r] > 0 /\ updates'[r] = updates[r] - 1 /\ shown'[r] = shown[r] + 1
           /\ UNCHANGED <<suite, disk, run, hand, coder, made, mixed>>
  BY DEF Relay, Typed

LEMMA AdvanceDoes ==
    ASSUME Typed, NEW r \in Runs, Advance(r)
    PROVE  /\ run[r].at = "running" /\ hand[r].at = "ended" /\ updates[r] = 0 /\ updates'[r] = 0
           /\ run'[r].at = run[r].at /\ run'[r].op = run[r].op /\ run'[r].ins = run[r].ins /\ run'[r].k = run[r].k + 1
           /\ hand'[r].at = "idle" /\ hand'[r].n = 1 /\ hand'[r].got = hand[r].got /\ hand'[r].unheard = hand[r].unheard
           /\ UNCHANGED <<suite, disk, coder, shown, made, mixed>>
<1>1. DOMAIN run = Runs /\ run[r] \in [op : Ops, ins : Seq(Sources), at : RunPlaces, k : Nat] /\ DOMAIN updates = Runs
  BY DEF Typed
<1>2. DOMAIN run[r] = {"op", "ins", "at", "k"}
  BY <1>1
<1>3. run'[r].at = run[r].at /\ run'[r].op = run[r].op /\ run'[r].ins = run[r].ins /\ run'[r].k = run[r].k + 1
  BY <1>1, <1>2 DEF Advance
<1>4. DOMAIN hand = Runs /\ DOMAIN hand[r] = {"at", "n", "got", "timed", "unheard"}
  BY DEF Typed, Hands
<1>5. hand'[r].at = "idle" /\ hand'[r].n = 1 /\ hand'[r].got = hand[r].got /\ hand'[r].unheard = hand[r].unheard
  BY <1>4 DEF Advance
<1> QED BY <1>1, <1>3, <1>5 DEF Advance, InRun, Relayed

LEMMA EndDoes ==
    ASSUME Typed, NEW r \in Runs, Fail(r) \/ Finish(r)
    PROVE  /\ run[r].at = "running"
           /\ \/ Fail(r) /\ hand[r].at = "failed" /\ updates[r] = 0 /\ Course(r, "failed")
              \/ Finish(r) /\ hand[r].at = "idle" /\ run[r].k > Steps(run[r].op, Ins(r)) /\ (Course(r, "done") \/ Course(r, "failed"))
           /\ UNCHANGED <<suite, disk, hand, coder, updates, shown, made, mixed>>
  BY GotoCourse DEF Fail, Finish, InRun, Relayed, work

\* What the thread holds after it has read.
Gained(r) == IF Opened(r) = <<>> THEN hand[r].got ELSE hand[r].got \o disk[Opened(r)[1]].pieces
DueThen(r) == Targets(run[r].op, Ins(r), run[r].k, Gained(r))

LEMMA ReadDoes ==
    ASSUME Typed, NEW r \in Runs, Read(r)
    PROVE  /\ hand[r].at = "reading" /\ suite # "media" /\ hand'[r].n = hand[r].n /\ hand'[r].got = Gained(r)
           /\ hand'[r].unheard = hand[r].unheard
           /\ \A p \in ToSet(Opened(r)) : Legible(p)
           /\ hand'[r].at = IF DueThen(r) = <<>> THEN "ended" ELSE "writing"
           /\ UNCHANGED <<suite, disk, run, coder, updates, shown, made, mixed>>
<1>1. DOMAIN hand = Runs /\ DOMAIN hand[r] = {"at", "n", "got", "timed", "unheard"}
  BY DEF Typed, Hands
<1>2. hand' = [hand EXCEPT ![r].got = Gained(r),
                 ![r].at = IF DueThen(r) = <<>> THEN "ended" ELSE "writing"]
  BY DEF Read, Gained, DueThen
<1> QED BY <1>1, <1>2 DEF Read

LEMMA ReadFailsDoes ==
    ASSUME Typed, NEW r \in Runs, ReadFails(r)
    PROVE  /\ hand[r].at = "reading" /\ suite # "media" /\ Opened(r) # <<>>
           /\ Place(r, IF suite = "packager" THEN "ended" ELSE "failed")
           /\ UNCHANGED <<suite, disk, run, coder, updates, shown, made, mixed>>
  BY HandPlace DEF ReadFails, Hand

LEMMA TruncateDoes ==
    ASSUME Typed, NEW r \in Runs, Truncate(r)
    PROVE  /\ hand[r].at = "writing" /\ Place(r, "filling") /\ disk' = Put(Now(r).to, Partial(r))
           /\ UNCHANGED <<suite, run, coder, updates, shown, made, mixed>>
  BY HandPlace DEF Truncate, Hand

LEMMA CloseDoes ==
    ASSUME Typed, NEW r \in Runs, Close(r)
    PROVE  /\ hand[r].at = "filling" /\ hand'[r].n = hand[r].n + 1 /\ hand'[r].got = hand[r].got
           /\ hand'[r].unheard = hand[r].unheard
           /\ hand'[r].at = IF hand[r].n = Len(Due(r)) THEN "ended" ELSE "writing"
           /\ disk' = IF hand[r].n = Len(Due(r)) THEN Tidied(r, Filled(r)) ELSE Filled(r)
           /\ UNCHANGED <<suite, run, coder, updates, shown, made, mixed>>
<1>1. DOMAIN hand = Runs /\ DOMAIN hand[r] = {"at", "n", "got", "timed", "unheard"}
  BY DEF Typed, Hands
<1> QED BY <1>1 DEF Close

LEMMA WriteFailsDoes ==
    ASSUME Typed, NEW r \in Runs, WriteFails(r)
    PROVE  /\ hand[r].at = "filling" /\ Place(r, "failed") /\ disk' = Tidied(r, disk)
           /\ UNCHANGED <<suite, run, coder, updates, shown, made, mixed>>
  BY HandPlace DEF WriteFails, Hand

LEMMA ProbeDoes ==
    ASSUME Typed, NEW r \in Runs, Probe(r)
    PROVE  /\ hand[r].at = "reading" /\ suite = "media"
           /\ hand'[r].n = hand[r].n /\ hand'[r].got = hand[r].got
           /\ \/ hand'[r].at = "probed" /\ hand'[r].unheard = hand[r].unheard
              \/ hand'[r].at = "probed" /\ hand'[r].unheard = hand[r].unheard \cup {run[r].k} /\ run[r].op # "audio"
              \/ hand'[r].at = "ended" /\ hand'[r].unheard = hand[r].unheard \cup {run[r].k} /\ run[r].op = "audio"
           /\ UNCHANGED <<suite, disk, run, coder, updates, shown, made, mixed>>
<1>1. /\ hand[r].at = "reading" /\ suite = "media" /\ Hands(hand)
      /\ UNCHANGED <<suite, disk, run, coder, updates, shown, made, mixed>>
  BY DEF Probe, Typed
<1> QED BY <1>1, ProbeHand

\* What the thread holds of the clips, this one included.
Taking(r) == hand[r].got \o Taken(r)

LEMMA SpawnDoes ==
    ASSUME Typed, NEW r \in Runs, Spawn(r)
    PROVE  /\ hand[r].at = "probed"
           /\ \/ Place(r, "encoding") /\ coder'[r].at = "bad" /\ disk' = disk
              \/ /\ hand'[r].at = "encoding" /\ hand'[r].n = hand[r].n /\ hand'[r].got = Taking(r)
                 /\ hand'[r].unheard = hand[r].unheard
                 /\ Legible(Clip(r)) /\ Now(r).to # Clip(r)
                 /\ coder'[r].at = "on" /\ disk' = Put(Now(r).to, Partial(r))
              \/ Place(r, "failed") /\ disk' = disk /\ coder' = coder
           /\ UNCHANGED <<suite, run, updates, shown, made, mixed>>
<1>1. DOMAIN coder = Runs
  BY DEF Typed, Coders
<1>2. ASSUME Hand(r, "encoding") PROVE Place(r, "encoding")
  BY <1>2, HandPlace DEF Hand
<1>3. ASSUME Hand(r, "failed") PROVE Place(r, "failed")
  BY <1>3, HandPlace DEF Hand
<1>4. ASSUME coder' = [coder EXCEPT ![r] = [at |-> "on", lines |-> Lines, noise |-> Noise, out |-> 0, err |-> 0]]
      PROVE  coder'[r].at = "on"
  BY <1>1, <1>4
<1>5. ASSUME Coder(r, "bad") PROVE coder'[r].at = "bad"
  BY <1>5, CoderPlace
<1>6. hand[r].at = "probed" /\ UNCHANGED <<suite, run, updates, shown, made, mixed>>
  BY DEF Spawn
<1>7. ASSUME hand' = [hand EXCEPT ![r].at = "encoding", ![r].got = @ \o Taken(r)]
      PROVE  /\ hand'[r].at = "encoding" /\ hand'[r].n = hand[r].n /\ hand'[r].got = Taking(r)
             /\ hand'[r].unheard = hand[r].unheard
  <2>1. DOMAIN hand = Runs /\ DOMAIN hand[r] = {"at", "n", "got", "timed", "unheard"}
    BY DEF Typed, Hands
  <2> QED BY <1>7, <2>1 DEF Taking
<1>8. \/ Hand(r, "encoding") /\ Coder(r, "bad") /\ disk' = disk
      \/ /\ hand' = [hand EXCEPT ![r].at = "encoding", ![r].got = @ \o Taken(r)]
         /\ Legible(Clip(r)) /\ Now(r).to # Clip(r)
         /\ coder' = [coder EXCEPT ![r] = [at |-> "on", lines |-> Lines, noise |-> Noise, out |-> 0, err |-> 0]]
         /\ disk' = Put(Now(r).to, Partial(r))
      \/ Hand(r, "failed") /\ disk' = disk /\ coder' = coder
  BY DEF Spawn
<1> QED BY <1>2, <1>3, <1>4, <1>5, <1>6, <1>7, <1>8

\* A process at work; the thread waits.
LEMMA EncodingDoes ==
    ASSUME Typed, NEW r \in Runs, Progress(r) \/ Complain(r) \/ Drain(r) \/ Pump(r)
    PROVE  /\ coder'[r].at = coder[r].at /\ (coder[r].at = "on" \/ hand[r].at = "encoding")
           /\ \/ updates' = updates /\ made' = made
              \/ /\ hand[r].at = "encoding" /\ run[r].at = "running"
                 /\ updates'[r] = updates[r] + 1 /\ made'[r] = made[r] + 1
           /\ UNCHANGED <<suite, disk, run, hand, shown, mixed>>
<1>1. DOMAIN updates = Runs /\ DOMAIN made = Runs /\ Coders(coder)
  BY DEF Typed
<1>2. CASE Progress(r) \/ Complain(r) \/ Drain(r)
  <2>1. coder'[r].at = coder[r].at
    BY <1>1, <1>2, ProgressCoder, ComplainCoder, DrainCoder
  <2> QED BY <1>2, <2>1 DEF Progress, Complain, Drain
<1>3. CASE Pump(r)
  <2>1. coder'[r].at = coder[r].at
    BY <1>1, <1>3, PumpCoder
  <2>2. /\ hand[r].at = "encoding" /\ UNCHANGED <<suite, disk, run, hand, shown, mixed>>
        /\ \/ updates' = updates /\ made' = made
           \/ /\ run[r].at = "running"
              /\ updates' = [updates EXCEPT ![r] = @ + 1] /\ made' = [made EXCEPT ![r] = @ + 1]
    BY <1>3 DEF Pump
  <2> QED BY <1>1, <2>1, <2>2
<1> QED BY <1>2, <1>3

LEMMA CompleteDoes ==
    ASSUME Typed, NEW r \in Runs, Complete(r)
    PROVE  /\ coder[r].at = "on" /\ coder'[r].at = "ok"
           /\ disk' = Filled(r)
           /\ UNCHANGED <<suite, run, hand, updates, shown, made, mixed>>
  BY CoderPlace DEF Complete

LEMMA WaitDoes ==
    ASSUME Typed, NEW r \in Runs, Wait(r)
    PROVE  /\ hand[r].at = "encoding" /\ coder[r].at \in {"ok", "bad"}
           /\ Place(r, IF coder[r].at = "ok" THEN "ended" ELSE "failed") /\ coder'[r].at = "none"
           /\ disk' = IF coder[r].at = "ok" THEN disk ELSE Discarded(r)
           /\ UNCHANGED <<suite, run, updates, shown, made, mixed>>
  BY HandPlace, FreshCoder DEF Wait, Typed, Hand

\* Its actions, one by one.
LEMMA ActsAre ==
    ASSUME NEW r, Acts(r)
    PROVE  \/ Begin(r) \/ Abandon(r) \/ Break(r) \/ PumpLate(r)
           \/ Call(r) \/ Relay(r) \/ Advance(r) \/ (Fail(r) \/ Finish(r))
           \/ Read(r) \/ ReadFails(r) \/ Truncate(r) \/ Close(r) \/ WriteFails(r) \/ Probe(r) \/ Spawn(r)
           \/ (Progress(r) \/ Complain(r) \/ Drain(r) \/ Pump(r)) \/ Complete(r) \/ Wait(r)
  BY DEF Acts, Loop, Thread, Encoding

-----------------------------------------------------------------------------
(* What the writes of a step are.                                          *)

LEMMA TargetsPlaces ==
    ASSUME NEW op \in Ops, NEW ins, NEW k, NEW got, NEW n \in DOMAIN Targets(op, ins, k, got)
    PROVE  \/ Targets(op, ins, k, got)[n].to[1] = "output"
           \/ op = "docx" /\ Targets(op, ins, k, got)[n].to = Scratch(ins[1])
<1> DEFINE w == Targets(op, ins, k, got)
<1> USE DEF Write, Output
<1>1. CASE op = "convert"
  BY <1>1 DEF Targets, Convert
<1>2. CASE op = "densities"
  BY <1>2 DEF Targets, Densities
<1>3. CASE op = "drawable"
  BY <1>3 DEF Targets, Drawable
<1>4. CASE op = "translate"
  BY <1>4 DEF Targets, Translate
<1>5. CASE op = "mp4"
  BY <1>5 DEF Targets, ToMp4
<1>6. CASE op = "audio"
  BY <1>6 DEF Targets, ExtractAudio
<1>7. CASE op = "thumbnails"
  BY <1>7 DEF Targets, Thumbnails
<1>8. CASE op = "merge"
  BY <1>8 DEF Targets, Merge
<1>9. CASE op = "split"
  BY <1>9 DEF Targets, Split
<1>10. CASE op = "rotate"
  BY <1>10 DEF Targets, Rotate
<1>11. CASE op = "images"
  BY <1>11 DEF Targets, ExtractImages
<1>12. CASE op = "docx"
  BY <1>12 DEF Targets, ToDocx
<1>13. CASE op = "pack"
  BY <1>13 DEF Targets, WriteChunks
<1> QED BY <1>1, <1>2, <1>3, <1>4, <1>5, <1>6, <1>7, <1>8, <1>9, <1>10, <1>11, <1>12, <1>13, OpsAre

\* Those of a suite that writes one source at a time.
LEMMA TargetsLast ==
    ASSUME NEW op \in Suites["image"] \cup Suites["document"] \cup Suites["media"],
           NEW ins, NEW k, NEW got, NEW n \in DOMAIN Targets(op, ins, k, got)
    PROVE  Targets(op, ins, k, got)[n].pieces = LastOf(got)
<1> USE DEF Write
<1>1. CASE op = "convert"
  BY <1>1 DEF Targets, Convert
<1>2. CASE op = "densities"
  BY <1>2 DEF Targets, Densities
<1>3. CASE op = "drawable"
  BY <1>3 DEF Targets, Drawable
<1>4. CASE op = "translate"
  BY <1>4 DEF Targets, Translate
<1>5. CASE op = "mp4"
  BY <1>5 DEF Targets, ToMp4
<1>6. CASE op = "audio"
  BY <1>6 DEF Targets, ExtractAudio
<1>7. CASE op = "thumbnails"
  BY <1>7 DEF Targets, Thumbnails
<1> QED BY <1>1, <1>2, <1>3, <1>4, <1>5, <1>6, <1>7, SuiteFacts

LEMMA TextCount == \A p \in (SourcesOf("packager") \cup {Heading}) \X Nat : Count(p) \in Nat
<1>1. SourcesOf("packager") = Readable["pack"]
  BY SuiteFacts DEF SourcesOf
<1>2. Toc \in Nat /\ \A p \in Readable["pack"] : Tokens[p] \in Nat
  BY ConvertersAssumption
<1> QED BY <1>1, <1>2 DEF Count

\* The texts of a chunk, behind its table of contents if there is one.
LEMMA HeadedFacts ==
    ASSUME NEW T, \A m \in Nat : <<Heading, m>> \in T, NEW group \in Seq(T)
    PROVE  Headed(group) \in Seq(T) /\ Body(Headed(group)) = group
<1> DEFINE head == <<Heading, Len(group)>>
<1>1. Len(group) \in Nat /\ head \in T
  OBVIOUS
<1> HIDE DEF head
<1>2. <<head>> \o group \in Seq(T) /\ Tail(<<head>> \o group) = group
  BY <1>1
<1>3. Headed(group) = IF Toc = 0 THEN group ELSE <<head>> \o group
  BY DEF Headed, head
<1> QED BY <1>2, <1>3 DEF Body

LEMMA MutedTexts ==
    ASSUME NEW S, NEW s \in Seq(S \X Nat)
    PROVE  Muted(s) \in Seq(S \X Nat) /\ Len(Muted(s)) = Len(s)
<1> DEFINE n == Len(s)
           f == [i \in 1..n |-> IF s[i][1] \in Silent THEN s[i] ELSE <<s[i][1], 0>>]
<1>1. n \in Nat /\ DOMAIN s = 1..n /\ \A i \in 1..n : s[i] \in S \X Nat
  OBVIOUS
<1>2. Muted(s) = f
  BY <1>1 DEF Muted
<1>3. \A i \in 1..n : f[i] \in S \X Nat
  BY <1>1
<1> HIDE DEF n
<1>4. f \in [1..n -> S \X Nat]
  BY <1>3
<1>5. f \in Seq(S \X Nat) /\ Len(f) = n
  BY <1>1, <1>4
<1> QED BY <1>2, <1>5 DEF n

LEMMA TargetsPack ==
    ASSUME NEW T, \A p \in T : Count(p) \in Nat, \A m \in Nat : <<Heading, m>> \in T,
           NEW got \in Seq(T), NEW ins, NEW k,
           NEW n \in DOMAIN Targets("pack", ins, k, got)
    PROVE  Targets("pack", ins, k, got)[n].pieces \in Seq(T)
<1>1. Pack(got) \in Seq(Seq(T))
  BY PackFacts, ConvertersAssumption
<1>4. Targets("pack", ins, k, got) = WriteChunks(ins, k, got)
  BY DEF Targets
<1>2. \/ Targets("pack", ins, k, got) = [i \in DOMAIN Pack(got) |-> Write(Output("context", "txt", i), Headed(Pack(got)[i]))]
      \/ Targets("pack", ins, k, got) = <<>>
  BY <1>4 DEF WriteChunks
<1>3. n \in DOMAIN Pack(got) /\ Targets("pack", ins, k, got)[n] = Write(Output("context", "txt", n), Headed(Pack(got)[n]))
  BY <1>2
<1>5. Headed(Pack(got)[n]) \in Seq(T)
  <2>1. Pack(got)[n] \in Seq(T)
    BY <1>1, <1>3
  <2> QED BY <2>1, HeadedFacts
<1> QED BY <1>3, <1>5 DEF Write

LEMMA OneSuite ==
    ASSUME suite \in DOMAIN Suites, NEW op \in Suites[suite], suite # "pdf"
    PROVE  /\ suite = "packager" => op = "pack"
           /\ suite # "packager" => op \in Suites["image"] \cup Suites["document"] \cup Suites["media"]
  BY SuiteFacts

LEMMA TextsWritten ==
    ASSUME suite \in DOMAIN Suites, suite # "pdf", NEW op \in Suites[suite], NEW ins, NEW k, NEW got \in Seq(Texts),
           NEW n \in DOMAIN Targets(op, ins, k, got)
    PROVE  /\ Targets(op, ins, k, got)[n].pieces \in Seq(Texts)
           /\ suite # "packager" /\ got # <<>> => Targets(op, ins, k, got)[n].pieces # <<>>
<1>1. CASE suite = "packager"
  <2>1. (\A p \in Texts : Count(p) \in Nat) /\ \A m \in Nat : <<Heading, m>> \in Texts
    BY <1>1, TextCount DEF Texts
  <2> HIDE DEF Texts
  <2> QED BY <1>1, <2>1, TargetsPack, OneSuite
<1>2. CASE suite # "packager"
  <2>1. Targets(op, ins, k, got)[n].pieces = LastOf(got)
    BY <1>2, TargetsLast, OneSuite
  <2>2. got # <<>> => got[Len(got)] \in Texts
    OBVIOUS
  <2> QED BY <1>2, <2>1, <2>2 DEF LastOf
<1> QED BY <1>1, <1>2

LEMMA DueList ==
    ASSUME Typed, NEW op \in Suites[suite], NEW ins, NEW k, NEW got, suite # "pdf" => got \in Seq(Texts)
    PROVE  IsList(Targets(op, ins, k, got))
<1>1. op \in Ops
  BY SuiteFacts DEF Typed
<1>2. op = "pack" => suite = "packager"
  BY SuiteFacts DEF Typed
<1>3. suite = "packager" => \A p \in Texts : Count(p) \in Nat
  BY TextCount DEF Texts
<1> HIDE DEF Texts
<1>4. op = "pack" => DOMAIN Pack(got) = 1..Len(Pack(got)) /\ Len(Pack(got)) \in Nat
  BY <1>2, <1>3, PackDomain
<1> QED BY <1>1, <1>4, TargetsList

-----------------------------------------------------------------------------
(* What an action does to the files.                                       *)

Writing(r) == hand[r].at \in {"writing", "filling", "probed", "encoding"}

\* It has what it is to write.
Laden(r) == hand[r].at \in {"writing", "filling"} \/ coder[r].at \in {"on", "ok"}

\* A file is as before, or the one its thread is writing.
LEMMA DiskEffect ==
    ASSUME Typed, NEW r \in Runs, Own(r), Acts(r), NEW x \in DOMAIN disk'
    PROVE  \/ x \in DOMAIN disk /\ disk'[x] = disk[x]
           \/ x = Now(r).to /\ Writing(r) /\ (disk'[x] = Partial(r) \/ (Laden(r) /\ disk'[x] = Whole(r, Now(r).pieces)))
<1> DEFINE G == \/ x \in DOMAIN disk /\ disk'[x] = disk[x]
                \/ x = Now(r).to /\ Writing(r) /\ (disk'[x] = Partial(r) \/ (Laden(r) /\ disk'[x] = Whole(r, Now(r).pieces)))
<1> SUFFICES G
  OBVIOUS
<1>1. ASSUME disk' = Put(Now(r).to, Partial(r)), Writing(r) PROVE G
  <2>1. disk' = [f \in DOMAIN disk \cup {Now(r).to} |-> IF f = Now(r).to THEN Partial(r) ELSE disk[f]]
    BY <1>1 DEF Put
  <2> QED BY <1>1, <2>1
<1>2. ASSUME disk' = Filled(r), Writing(r), Laden(r) PROVE G
  BY <1>2, FilledFacts
<1>3. ASSUME disk' = Tidied(r, Filled(r)), Writing(r), Laden(r) PROVE G
  <2>1. x \in DOMAIN Filled(r) /\ disk'[x] = Filled(r)[x]
    BY <1>3, TidiedFacts
  <2> QED BY <1>3, <2>1, FilledFacts
<1>4. ASSUME disk' = disk \/ disk' = Tidied(r, disk) \/ disk' = Discarded(r) PROVE G
  <2>1. CASE disk' = disk
    BY <2>1
  <2>2. CASE disk' = Tidied(r, disk)
    BY <2>2, TidiedFacts
  <2>3. CASE disk' = Discarded(r)
    BY <2>3, DiscardedFacts
  <2> QED BY <1>4, <2>1, <2>2, <2>3
<1> HIDE DEF G
<1>5. CASE Begin(r) \/ Abandon(r) \/ Break(r) \/ PumpLate(r)
  BY <1>4, <1>5, BeginDoes, AbandonDoes, BreakDoes, PumpLateDoes
<1>6. CASE Call(r) \/ Relay(r) \/ Advance(r) \/ (Fail(r) \/ Finish(r))
  BY <1>4, <1>6, CallDoes, RelayDoes, AdvanceDoes, EndDoes
<1>7. CASE Read(r) \/ ReadFails(r) \/ Probe(r) \/ WriteFails(r) \/ Wait(r) \/ (Progress(r) \/ Complain(r) \/ Drain(r) \/ Pump(r))
  BY <1>4, <1>7, ReadDoes, ReadFailsDoes, ProbeDoes, WriteFailsDoes, WaitDoes, EncodingDoes
<1>8. CASE Truncate(r) \/ Close(r)
  BY <1>1, <1>2, <1>3, <1>8, TruncateDoes, CloseDoes DEF Writing, Laden
<1>9. CASE Spawn(r)
  BY <1>1, <1>4, <1>9, SpawnDoes DEF Writing
<1>10. CASE Complete(r)
  <2>1. coder[r].at = "on" /\ disk' = Filled(r)
    BY <1>10, CompleteDoes
  <2>2. Writing(r) /\ Laden(r)
    BY <2>1 DEF Own, Writing, Laden
  <2> QED BY <1>2, <2>1, <2>2
<1> QED BY <1>5, <1>6, <1>7, <1>8, <1>9, <1>10, ActsAre

\* A file goes if it is the one the thread is writing, or the unlocked copy.
LEMMA DiskLoss ==
    ASSUME Typed, NEW r \in Runs, Own(r), Acts(r), NEW x \in DOMAIN disk, x \notin DOMAIN disk'
    PROVE  \/ x = Now(r).to /\ hand[r].at = "encoding" /\ hand'[r].at = "failed"
           \/ Docx2(r) /\ x = Scratch(Ins(r)[1]) /\ hand[r].at = "filling" /\ hand'[r].at # "filling"
<1> DEFINE G == \/ x = Now(r).to /\ hand[r].at = "encoding" /\ hand'[r].at = "failed"
                \/ Docx2(r) /\ x = Scratch(Ins(r)[1]) /\ hand[r].at = "filling" /\ hand'[r].at # "filling"
<1> SUFFICES G
  OBVIOUS
<1>1. disk' # disk /\ disk' # Put(Now(r).to, Partial(r)) /\ disk' # Filled(r)
  <2>1. DOMAIN Put(Now(r).to, Partial(r)) = DOMAIN disk \cup {Now(r).to}
    BY PutFacts
  <2>2. DOMAIN Filled(r) = DOMAIN disk
    BY FilledFacts
  <2>3. x \notin DOMAIN disk' /\ x \in DOMAIN disk
    OBVIOUS
  <2> QED BY <2>1, <2>2, <2>3
<1>2. ASSUME disk' = Tidied(r, disk) \/ disk' = Tidied(r, Filled(r)) PROVE Docx2(r) /\ x = Scratch(Ins(r)[1])
  <2>1. /\ DOMAIN Tidied(r, disk) = IF Docx2(r) THEN DOMAIN disk \ {Scratch(Ins(r)[1])} ELSE DOMAIN disk
        /\ DOMAIN Tidied(r, Filled(r)) = IF Docx2(r) THEN DOMAIN Filled(r) \ {Scratch(Ins(r)[1])} ELSE DOMAIN Filled(r)
        /\ DOMAIN Filled(r) = DOMAIN disk
    BY TidiedFacts, FilledFacts
  <2>2. x \notin DOMAIN disk' /\ x \in DOMAIN disk
    OBVIOUS
  <2> QED BY <1>2, <2>1, <2>2
<1>3. ASSUME disk' = Discarded(r) PROVE x = Now(r).to
  BY <1>3, DiscardedFacts
<1> HIDE DEF G
<1>5. CASE Begin(r) \/ Abandon(r) \/ Break(r) \/ Call(r) \/ Relay(r) \/ Advance(r) \/ (Fail(r) \/ Finish(r))
  BY <1>1, <1>5, BeginDoes, AbandonDoes, BreakDoes, CallDoes, RelayDoes, AdvanceDoes, EndDoes
<1>6. CASE PumpLate(r)
  BY <1>3, <1>6, PumpLateDoes DEF Place, G
<1>7. CASE Read(r) \/ ReadFails(r) \/ Probe(r) \/ (Progress(r) \/ Complain(r) \/ Drain(r) \/ Pump(r)) \/ Truncate(r) \/ Spawn(r) \/ Complete(r)
  BY <1>1, <1>7, ReadDoes, ReadFailsDoes, ProbeDoes, EncodingDoes, TruncateDoes, SpawnDoes, CompleteDoes
<1>8. CASE Close(r)
  BY <1>1, <1>2, <1>8, CloseDoes DEF G
<1>9. CASE WriteFails(r)
  BY <1>2, <1>9, WriteFailsDoes DEF Place, G
<1>10. CASE Wait(r)
  BY <1>1, <1>3, <1>10, WaitDoes DEF Place, G
<1> QED BY <1>5, <1>6, <1>7, <1>8, <1>9, <1>10, ActsAre

-----------------------------------------------------------------------------
(* A run keeps its thread and its process in step.                         *)

LEMMA Acting ==
    ASSUME Typed, NEW r \in Runs, Own(r), Acts(r)
    PROVE  /\ suite' = suite /\ run'[r].at # "none"
           /\ Begin(r) \/ (run[r].at # "none" /\ run'[r].op = run[r].op /\ run'[r].ins = run[r].ins /\ mixed' = mixed)
           /\ run'[r].at = "running" => run[r].at = "running" \/ Begin(r)
           /\ Works(r)' => Works(r) \/ run[r].at = "running"
<1> USE DEF Own, Works, Place, Course, NoHand
<1>1. CASE Begin(r)
  BY <1>1, BeginDoes
<1>2. CASE Abandon(r)
  BY <1>2, AbandonDoes
<1>3. CASE Break(r)
  BY <1>3, BreakDoes
<1>4. CASE PumpLate(r)
  BY <1>4, PumpLateDoes
<1>5. CASE Call(r)
  BY <1>5, CallDoes
<1>6. CASE Relay(r)
  BY <1>6, RelayDoes
<1>7. CASE Advance(r)
  BY <1>7, AdvanceDoes
<1>8. CASE Fail(r) \/ Finish(r)
  BY <1>8, EndDoes
<1>9. CASE Read(r)
  BY <1>9, ReadDoes
<1>10. CASE ReadFails(r)
  BY <1>10, ReadFailsDoes
<1>11. CASE Truncate(r)
  BY <1>11, TruncateDoes
<1>12. CASE Close(r)
  BY <1>12, CloseDoes
<1>13. CASE WriteFails(r)
  BY <1>13, WriteFailsDoes
<1>14. CASE Probe(r) \/ Spawn(r)
  BY <1>14, ProbeDoes, SpawnDoes
<1>15. CASE Progress(r) \/ Complain(r) \/ Drain(r) \/ Pump(r)
  BY <1>15, EncodingDoes
<1>16. CASE Complete(r)
  BY <1>16, CompleteDoes
<1>17. CASE Wait(r)
  BY <1>17, WaitDoes
<1> QED BY <1>1, <1>2, <1>3, <1>4, <1>5, <1>6, <1>7, <1>8, <1>9, <1>10, <1>11, <1>12, <1>13, <1>14, <1>15, <1>16, <1>17, ActsAre

\* What a thread has read of texts are texts.
TextedRun(r) == suite # "pdf" => /\ hand[r].got \in Seq(Texts)
                                 /\ suite # "packager" /\ Laden(r) => hand[r].got # <<>>
TextedFiles == suite # "pdf" => \A q \in DOMAIN disk : /\ disk[q].pieces \in Seq(Texts)
                                                       /\ suite # "packager" /\ disk[q].whole => disk[q].pieces # <<>>

LEMMA OpensOne ==
    ASSUME Typed, NEW r \in Runs, Own(r), run[r].at # "none", suite \notin {"pdf", "packager"}, run[r].k <= Steps(run[r].op, Ins(r))
    PROVE  /\ Opened(r) = <<Ins(r)[run[r].k]>> /\ run[r].k \in DOMAIN Ins(r)
           /\ run[r].op \in Suites["image"] \cup Suites["document"] \cup Suites["media"]
<1>1. run[r].op \in Suites["image"] \cup Suites["document"] \cup Suites["media"]
  BY SuiteFacts DEF Own, Typed
<1>2. run[r].op \notin {"merge", "pack", "split", "rotate", "images", "docx"}
  BY <1>1, SuiteFacts
<1>3. Steps(run[r].op, Ins(r)) = Len(Ins(r))
  BY <1>2 DEF Steps
<1>4. run[r].k \in Nat \ {0} /\ Ins(r) \in Seq(Sources)
  <2>1. run[r] \in [op : Ops, ins : Seq(Sources), at : RunPlaces, k : Nat]
    BY DEF Typed
  <2>2. run[r].k # 0
    BY DEF Own
  <2> QED BY <2>1, <2>2 DEF Ins
<1>5. run[r].k \in 1..Len(Ins(r))
  BY <1>3, <1>4
<1> QED BY <1>1, <1>2, <1>4, <1>5 DEF Opened, Opens

LEMMA GainedTexts ==
    ASSUME Typed, NEW r \in Runs, Own(r), TextedRun(r), TextedFiles, Read(r), suite # "pdf"
    PROVE  Gained(r) \in Seq(Texts) /\ (suite # "packager" => Gained(r) # <<>>)
<1>1. /\ hand[r].at = "reading" /\ \A p \in ToSet(Opened(r)) : Legible(p)
  BY ReadDoes
<1>2. run[r].at # "none" /\ run[r].k <= Steps(run[r].op, Ins(r))
  BY <1>1 DEF Own, Works, NoHand
<1>3. hand[r].got \in Seq(Texts)
  BY DEF TextedRun
<1>4. ASSUME Opened(r) # <<>>
      PROVE  disk[Opened(r)[1]].pieces \in Seq(Texts) /\ (suite # "packager" => disk[Opened(r)[1]].pieces # <<>>)
  <2>1. Opened(r)[1] \in ToSet(Opened(r))
    <3>1. \E x : Opened(r) = <<x>>
      BY <1>4 DEF Opened, Opens
    <3> QED BY <3>1 DEF ToSet
  <2>2. Opened(r)[1] \in DOMAIN disk /\ disk[Opened(r)[1]].whole
    BY <1>1, <2>1 DEF Legible
  <2> QED BY <2>2 DEF TextedFiles
<1>5. suite # "packager" => Opened(r) # <<>>
  <2>1. \A x : <<x>> # <<>>
    OBVIOUS
  <2> QED BY <1>2, <2>1, OpensOne
<1>6. CASE Opened(r) = <<>>
  BY <1>3, <1>5, <1>6 DEF Gained
<1>7. CASE Opened(r) # <<>>
  <2> DEFINE a == hand[r].got
             b == disk[Opened(r)[1]].pieces
  <2>1. a \in Seq(Texts) /\ b \in Seq(Texts) /\ (suite # "packager" => b # <<>>) /\ Gained(r) = a \o b
    BY <1>3, <1>4, <1>7 DEF Gained
  <2> HIDE DEF a, b
  <2>2. a \o b \in Seq(Texts) /\ (b # <<>> => a \o b # <<>>)
    BY <2>1
  <2> QED BY <2>1, <2>2
<1> QED BY <1>6, <1>7

\* What an encode takes of its clip.
LEMMA TakingTexts ==
    ASSUME Typed, NEW r \in Runs, TextedRun(r), TextedFiles, suite = "media", Legible(Clip(r))
    PROVE  Taking(r) \in Seq(Texts) /\ Taking(r) # <<>>
<1> DEFINE a == hand[r].got
           b == disk[Clip(r)].pieces
<1>1. a \in Seq(Texts) /\ b \in Seq(Texts) /\ b # <<>>
  BY DEF TextedRun, TextedFiles, Legible
<1>2. Muted(b) \in Seq(Texts) /\ Muted(b) # <<>>
  <2>1. \A s \in Seq(Texts) : Muted(s) \in Seq(Texts) /\ Len(Muted(s)) = Len(s)
    BY MutedTexts DEF Texts
  <2> HIDE DEF b, Texts
  <2>2. Len(b) # 0 /\ Len(<<>>) = 0
    BY <1>1
  <2> QED BY <1>1, <2>1, <2>2
<1>3. Taken(r) = b \/ Taken(r) = Muted(b)
  BY DEF Taken
<1>4. Taken(r) \in Seq(Texts) /\ Taken(r) # <<>>
  BY <1>1, <1>2, <1>3
<1> QED BY <1>1, <1>4 DEF Taking

\* Each clip goes to one place, whatever has been taken from the clips.
LEMMA MediaOne ==
    ASSUME NEW op \in Suites["media"], NEW ins, NEW k, NEW got
    PROVE  /\ DOMAIN Targets(op, ins, k, got) = {1} /\ Len(Targets(op, ins, k, got)) = 1
           /\ \A more : Targets(op, ins, k, more)[1].to = Targets(op, ins, k, got)[1].to
<1> USE DEF Write
<1>1. CASE op = "mp4"
  BY <1>1 DEF Targets, ToMp4
<1>2. CASE op = "audio"
  BY <1>2 DEF Targets, ExtractAudio
<1>3. CASE op = "thumbnails"
  BY <1>3 DEF Targets, Thumbnails
<1> QED BY <1>1, <1>2, <1>3, SuiteFacts

LEMMA DueSame ==
    ASSUME NEW r, run'[r].op = run[r].op, run'[r].ins = run[r].ins, run'[r].k = run[r].k, hand'[r].got = hand[r].got,
           hand'[r].unheard = hand[r].unheard
    PROVE  /\ Ins(r)' = Ins(r) /\ Due(r)' = Due(r)
           /\ hand'[r].n = hand[r].n => Now(r)' = Now(r)
  BY DEF Ins, Skipped, Due, Now

\* The clip that is encoded goes where it was to go.
LEMMA DueSpawned ==
    ASSUME Typed, NEW r \in Runs, Own(r), Spawn(r)
    PROVE  /\ Ins(r)' = Ins(r) /\ hand[r].n = 1 /\ hand'[r].n = 1
           /\ DOMAIN Due(r) = {1} /\ DOMAIN Due(r)' = {1} /\ Now(r)'.to = Now(r).to
<1>1. /\ hand[r].at = "probed" /\ run' = run /\ hand'[r].n = hand[r].n /\ hand'[r].unheard = hand[r].unheard
  BY SpawnDoes DEF Place
<1>2. suite = "media" /\ hand[r].n = 1 /\ 1 \in DOMAIN Due(r) /\ run[r].op \in Suites["media"]
  BY <1>1 DEF Own, NoHand
<1>3. ~Skipped(r) /\ ~Skipped(r)'
  BY <1>1, <1>2 DEF Due, Skipped
<1>4. /\ Due(r) = Targets(run[r].op, Ins(r), run[r].k, hand[r].got)
      /\ Due(r)' = Targets(run[r].op, Ins(r), run[r].k, hand'[r].got)
  BY <1>1, <1>3 DEF Due, Ins
<1> QED BY <1>1, <1>2, <1>4, MediaOne DEF Now, Ins

LEMMA OwnTypes ==
    ASSUME Typed, NEW r \in Runs
    PROVE  /\ run[r].op \in Ops /\ Ins(r) \in Seq(Sources) /\ run[r].at \in RunPlaces /\ run[r].k \in Nat
           /\ hand[r].at \in Places /\ hand[r].n \in Nat \ {0} /\ Steps(run[r].op, Ins(r)) \in Nat
           /\ updates[r] \in Nat /\ shown[r] \in Nat /\ made[r] \in Nat
<1>1. run[r] \in [op : Ops, ins : Seq(Sources), at : RunPlaces, k : Nat]
  BY DEF Typed
<1> QED BY <1>1, StepsNat DEF Typed, Hands, Ins

LEMMA OwnNext ==
    ASSUME Typed, NEW r \in Runs, Own(r), TextedRun(r), TextedFiles, Acts(r)
    PROVE  Own(r)'
<1> USE DEF Own, Works, Place, Course, NoHand
<1>0. run'[r].at # "none" /\ suite' = suite
  BY Acting
<1>1. CASE Begin(r)
  <2>1. form.op \in Suites[suite] /\ form.files \in Seq(Sources)
    <3>1. form.op \in Suites[suite] /\ form.files \in Seq(SourcesOf(suite)) /\ SourcesOf(suite) \subseteq Sources
      BY SuiteFacts DEF Typed
    <3> QED BY <3>1
  <2>2. Steps(form.op, form.files) \in Nat
    BY <2>1, StepsNat, SuiteFacts DEF Typed
  <2>3. Ins(r)' = form.files /\ 1 \in 1..(Steps(form.op, form.files) + 1)
    BY <1>1, <2>2, BeginDoes DEF Ins
  <2> QED BY <1>0, <1>1, <2>1, <2>3, BeginDoes
<1>2. CASE Abandon(r)
  <2>1. Ins(r)' = Ins(r) /\ Due(r)' = Due(r)
    BY <1>2, AbandonDoes, DueSame
  <2> QED BY <1>0, <1>2, <2>1, AbandonDoes
<1>3. CASE Break(r)
  <2>1. Ins(r)' = Ins(r) /\ Due(r)' = Due(r)
    BY <1>3, BreakDoes, DueSame
  <2> QED BY <1>0, <1>3, <2>1, BreakDoes
<1>4. CASE PumpLate(r)
  <2>1. Ins(r)' = Ins(r) /\ Due(r)' = Due(r)
    BY <1>4, PumpLateDoes, DueSame
  <2> QED BY <1>0, <1>4, <2>1, PumpLateDoes
<1>5. CASE Call(r)
  <2>1. Ins(r)' = Ins(r) /\ Due(r)' = Due(r)
    BY <1>5, CallDoes, DueSame
  <2> QED BY <1>0, <1>5, <2>1, CallDoes
<1>6. CASE Relay(r)
  <2>1. Ins(r)' = Ins(r) /\ Due(r)' = Due(r)
    BY <1>6, RelayDoes, DueSame
  <2> QED BY <1>0, <1>6, <2>1, RelayDoes
<1>7. CASE Advance(r)
  <2>1. Ins(r)' = Ins(r)
    BY <1>7, AdvanceDoes DEF Ins
  <2>2. run[r].k <= Steps(run[r].op, Ins(r)) /\ run[r].k \in Nat /\ Steps(run[r].op, Ins(r)) \in Nat /\ run[r].k # 0
    BY <1>7, AdvanceDoes, OwnTypes
  <2>3. run[r].k + 1 \in 1..(Steps(run[r].op, Ins(r)) + 1)
    BY <2>2
  <2> QED BY <1>0, <1>7, <2>1, <2>3, AdvanceDoes
<1>8. CASE Fail(r) \/ Finish(r)
  <2>1. Ins(r)' = Ins(r) /\ Due(r)' = Due(r)
    BY <1>8, EndDoes, DueSame
  <2>2. run[r].k > Steps(run[r].op, Ins(r)) => run[r].k = Steps(run[r].op, Ins(r)) + 1
    <3>1. run[r].k \in 1..(Steps(run[r].op, Ins(r)) + 1) /\ Steps(run[r].op, Ins(r)) \in Nat
      BY <1>8, EndDoes, OwnTypes
    <3> QED BY <3>1
  <2> QED BY <1>0, <1>8, <2>1, <2>2, EndDoes
<1>9. CASE Read(r)
  <2>0. run[r].op # "audio"
    <3>1. run[r].op \in Suites[suite] /\ suite # "media" /\ suite \in DOMAIN Suites
      BY <1>9, ReadDoes DEF Typed
    <3> QED BY <3>1, SuiteFacts
  <2>1. Ins(r)' = Ins(r) /\ Due(r)' = DueThen(r)
    BY <1>9, <2>0, ReadDoes DEF Ins, Due, DueThen, Skipped
  <2>2. run[r].op \in Suites[suite]
    BY <1>9, ReadDoes
  <2>3. IsList(DueThen(r))
    BY <1>9, <2>2, GainedTexts, DueList DEF DueThen
  <2>4. hand[r].n = 1
    BY <1>9, ReadDoes
  <2> QED BY <1>0, <1>9, <2>1, <2>3, <2>4, ReadDoes DEF IsList
<1>10. CASE ReadFails(r)
  <2>1. Ins(r)' = Ins(r) /\ Due(r)' = Due(r)
    BY <1>10, ReadFailsDoes, DueSame
  <2> QED BY <1>0, <1>10, <2>1, ReadFailsDoes
<1>11. CASE Truncate(r)
  <2>1. Ins(r)' = Ins(r) /\ Due(r)' = Due(r)
    BY <1>11, TruncateDoes, DueSame
  <2> QED BY <1>0, <1>11, <2>1, TruncateDoes
<1>12. CASE Close(r)
  <2>1. Ins(r)' = Ins(r) /\ Due(r)' = Due(r)
    BY <1>12, CloseDoes, DueSame
  <2>2. run[r].op \in Suites[suite]
    BY <1>12, CloseDoes
  <2>3. IsList(Due(r)) /\ hand[r].n \in DOMAIN Due(r)
    BY <1>12, <2>2, CloseDoes, DueList DEF TextedRun, Due
  <2>4. hand[r].n # Len(Due(r)) => hand[r].n + 1 \in DOMAIN Due(r)
    BY <2>3 DEF IsList
  <2> QED BY <1>0, <1>12, <2>1, <2>4, CloseDoes
<1>13. CASE WriteFails(r)
  <2>1. Ins(r)' = Ins(r) /\ Due(r)' = Due(r)
    BY <1>13, WriteFailsDoes, DueSame
  <2> QED BY <1>0, <1>13, <2>1, WriteFailsDoes
<1>14. CASE Spawn(r)
  BY <1>0, <1>14, SpawnDoes, DueSpawned
<1>18. CASE Probe(r)
  <2>1. /\ hand[r].at = "reading" /\ hand'[r].n = hand[r].n /\ hand'[r].got = hand[r].got /\ run' = run /\ suite = "media"
        /\ \/ hand'[r].at = "probed" /\ hand'[r].unheard = hand[r].unheard
           \/ hand'[r].at = "probed" /\ hand'[r].unheard = hand[r].unheard \cup {run[r].k} /\ run[r].op # "audio"
           \/ hand'[r].at = "ended" /\ hand'[r].unheard = hand[r].unheard \cup {run[r].k} /\ run[r].op = "audio"
        /\ UNCHANGED <<suite, coder, updates, shown, made>>
    BY <1>18, ProbeDoes
  <2>2. run[r].op \in Suites["media"] /\ run[r].k \notin hand[r].unheard /\ run[r].k \in 1..run[r].k /\ Ins(r)' = Ins(r)
    <3>1. run[r].k \in Nat
      BY OwnTypes
    <3> QED BY <2>1, <3>1 DEF Ins
  <2>3. hand'[r].unheard \subseteq 1..run[r].k
    BY <2>1, <2>2
  <2>4. hand'[r].at = "probed" => Due(r)' = Targets(run[r].op, Ins(r), run[r].k, hand[r].got)
    BY <2>1, <2>2 DEF Due, Skipped, Ins
  <2>5. hand'[r].at = "probed" => 1 \in DOMAIN Due(r)'
    BY <2>2, <2>4, MediaOne
  <2> QED BY <1>0, <2>1, <2>2, <2>3, <2>5
<1>15. CASE Progress(r) \/ Complain(r) \/ Drain(r) \/ Pump(r)
  <2>1. Ins(r)' = Ins(r) /\ Due(r)' = Due(r) /\ UNCHANGED <<run, hand, shown>> /\ coder'[r].at = coder[r].at
    BY <1>15, EncodingDoes, DueSame
  <2> QED BY <1>0, <2>1
<1>16. CASE Complete(r)
  <2>1. Ins(r)' = Ins(r) /\ Due(r)' = Due(r)
    BY <1>16, CompleteDoes, DueSame
  <2> QED BY <1>0, <1>16, <2>1, CompleteDoes
<1>17. CASE Wait(r)
  <2>1. Ins(r)' = Ins(r) /\ Due(r)' = Due(r)
    BY <1>17, WaitDoes, DueSame
  <2> QED BY <1>0, <1>17, <2>1, WaitDoes
<1> QED BY <1>1, <1>2, <1>3, <1>4, <1>5, <1>6, <1>7, <1>8, <1>9, <1>10, <1>11, <1>12, <1>13, <1>14, <1>15, <1>16, <1>17, <1>18, ActsAre

\* What is written of texts are texts.
LEMMA NowTexts ==
    ASSUME Typed, NEW r \in Runs, Own(r), TextedRun(r), Writing(r), suite # "pdf"
    PROVE  Now(r).pieces \in Seq(Texts) /\ (suite # "packager" /\ Laden(r) => Now(r).pieces # <<>>)
<1>1. run[r].op \in Suites[suite] /\ hand[r].n \in DOMAIN Due(r)
  BY DEF Own, Writing, NoHand
<1>2. hand[r].n \in DOMAIN Targets(run[r].op, Ins(r), run[r].k, hand[r].got) /\ Now(r) = Targets(run[r].op, Ins(r), run[r].k, hand[r].got)[hand[r].n]
  BY <1>1 DEF Due, Now
<1> QED BY <1>1, <1>2, TextsWritten DEF TextedRun, Typed

LEMMA TextedFilesNext ==
    ASSUME Typed, NEW r \in Runs, Own(r), TextedRun(r), TextedFiles, Acts(r)
    PROVE  TextedFiles'
<1>0. suite' = suite
  BY Acting
<1> SUFFICES ASSUME suite # "pdf", NEW x \in DOMAIN disk'
             PROVE  disk'[x].pieces \in Seq(Texts) /\ (suite # "packager" /\ disk'[x].whole => disk'[x].pieces # <<>>)
  BY <1>0 DEF TextedFiles, Texts
<1>1. CASE x \in DOMAIN disk /\ disk'[x] = disk[x]
  BY <1>1 DEF TextedFiles
<1>2. CASE Writing(r) /\ disk'[x] = Partial(r)
  <2>1. disk'[x].pieces = <<>> /\ disk'[x].whole = FALSE
    BY <1>2 DEF Partial
  <2> QED BY <2>1
<1>3. CASE Writing(r) /\ Laden(r) /\ disk'[x] = Whole(r, Now(r).pieces)
  <2>1. disk'[x].pieces = Now(r).pieces
    BY <1>3 DEF Whole
  <2> QED BY <1>3, <2>1, NowTexts
<1> QED BY <1>1, <1>2, <1>3, DiskEffect

LEMMA TextedRunNext ==
    ASSUME Typed, NEW r \in Runs, Own(r), TextedRun(r), TextedFiles, Acts(r)
    PROVE  TextedRun(r)'
<1>0. suite' = suite
  BY Acting
<1> SUFFICES ASSUME suite # "pdf"
             PROVE  hand'[r].got \in Seq(Texts) /\ (suite # "packager" /\ Laden(r)' => hand'[r].got # <<>>)
  BY <1>0 DEF TextedRun, Texts
<1>1. CASE Read(r)
  BY <1>1, ReadDoes, GainedTexts
<1>2. ASSUME hand'[r].got = hand[r].got, Laden(r)' => Laden(r)
      PROVE  hand'[r].got \in Seq(Texts) /\ (suite # "packager" /\ Laden(r)' => hand'[r].got # <<>>)
  BY <1>2 DEF TextedRun
<1>4. ASSUME Spawn(r), hand'[r].got = Taking(r), Legible(Clip(r))
      PROVE  hand'[r].got \in Seq(Texts) /\ (suite # "packager" /\ Laden(r)' => hand'[r].got # <<>>)
  <2>1. suite = "media"
    BY <1>4, SpawnDoes DEF Own
  <2> QED BY <1>4, <2>1, TakingTexts
<1>3. (hand'[r].got = hand[r].got /\ (Laden(r)' => Laden(r))) \/ Read(r) \/ (Spawn(r) /\ hand'[r].got = Taking(r) /\ Legible(Clip(r)))
  <2> USE DEF Laden, Place
  <2>1. CASE Begin(r) \/ Abandon(r) \/ Break(r) \/ PumpLate(r)
    BY <2>1, BeginDoes, AbandonDoes, BreakDoes, PumpLateDoes
  <2>2. CASE Call(r) \/ Relay(r) \/ Advance(r) \/ (Fail(r) \/ Finish(r))
    BY <2>2, CallDoes, RelayDoes, AdvanceDoes, EndDoes
  <2>3. CASE ReadFails(r) \/ Truncate(r) \/ Close(r) \/ WriteFails(r) \/ Probe(r)
    BY <2>3, ReadFailsDoes, TruncateDoes, CloseDoes, WriteFailsDoes, ProbeDoes
  <2>4. CASE Spawn(r)
    BY <2>4, SpawnDoes
  <2>5. CASE (Progress(r) \/ Complain(r) \/ Drain(r) \/ Pump(r)) \/ Complete(r) \/ Wait(r)
    BY <2>5, EncodingDoes, CompleteDoes, WaitDoes
  <2> QED BY <2>1, <2>2, <2>3, <2>4, <2>5, ActsAre
<1> QED BY <1>1, <1>2, <1>3, <1>4

-----------------------------------------------------------------------------
(* How the runs come one after the other, and whose the files are.         *)

Order ==
    \A r \in Runs :
        /\ run[r].at # "none" => \A q \in Runs : q < r => run[q].at # "none"
        /\ run[r].at # "none" /\ r \notin mixed => \A q \in Runs : q < r => ~Works(q)
        /\ run[r].at = "running" => \A q \in Runs : q > r => run[q].at = "none"

Contents ==
    \A q \in DOMAIN disk :
        /\ disk[q].by = 0 => disk[q] = Whole(0, PagesOf(q)) /\ q \in SourcesOf(suite)
        /\ disk[q].by # 0 => q[1] \in {"output", "temp"} /\ run[disk[q].by].at # "none"

Base == /\ Typed /\ Order /\ Contents /\ TextedFiles
        /\ \A r \in Runs : Own(r) /\ TextedRun(r)

LEMMA OrderNext ==
    ASSUME Typed, Order, NEW r \in Runs, \A q \in Runs : Own(q), Acts(r)
    PROVE  Order'
<1>0. \A q \in Runs \ {r} : run'[q] = run[q] /\ hand'[q] = hand[q]
  BY Others DEF Same
<1>1. \A q \in Runs \ {r} : (run'[q].at = run[q].at) /\ (Works(q)' <=> Works(q))
  BY <1>0 DEF Works
<1>2. \A q \in Runs : q \in Nat
  BY RunsAre
<1>3. Own(r)
  OBVIOUS
<1>4. run'[r].at # "none"
  BY <1>3, Acting
<1> SUFFICES ASSUME NEW s \in Runs, run'[s].at # "none"
             PROVE  /\ \A q \in Runs : q < s => run'[q].at # "none"
                    /\ s \notin mixed' => \A q \in Runs : q < s => ~Works(q)'
                    /\ run'[s].at = "running" => \A q \in Runs : q > s => run'[q].at = "none"
  BY DEF Order
<1>5. CASE Begin(r)
  <2>1. /\ run[r].at = "none" /\ Running = {} /\ \A q \in Runs : q < r => run[q].at # "none"
        /\ hand' = hand /\ mixed' = IF \E q \in Runs : Works(q) THEN mixed \cup {r} ELSE mixed
    BY <1>5, BeginDoes
  <2>2. \A q \in Runs : (Works(q)' <=> Works(q)) /\ run[q].at # "running"
    BY <2>1 DEF Works, Running
  <2>3. s # r => run[s].at # "none" /\ s < r /\ run'[s].at # "running"
    <3>1. ASSUME s # r PROVE run[s].at # "none" /\ run'[s].at = run[s].at
      BY <1>1, <3>1
    <3>2. ASSUME s > r PROVE FALSE
      <4>1. s # r
        BY <1>2, <3>2
      <4>2. run[r].at # "none"
        BY <3>1, <3>2, <4>1 DEF Order
      <4> QED BY <2>1, <4>2
    <3> QED BY <1>2, <2>2, <3>1, <3>2
  <2>4. \A q \in Runs : q > r => run[q].at = "none"
    <3> SUFFICES ASSUME NEW q \in Runs, q > r, run[q].at # "none" PROVE FALSE
      OBVIOUS
    <3> QED BY <2>1 DEF Order
  <2>5. CASE s = r
    <3>1. \A q \in Runs : q < s => run'[q].at # "none"
      BY <1>1, <1>2, <2>1, <2>5
    <3>2. s \notin mixed' => \A q \in Runs : q < s => ~Works(q)'
      BY <2>1, <2>2, <2>5
    <3>3. \A q \in Runs : q > s => run'[q].at = "none"
      BY <1>1, <1>2, <2>4, <2>5
    <3> QED BY <3>1, <3>2, <3>3
  <2>6. CASE s # r
    <3>1. \A q \in Runs : q < s => run'[q].at # "none"
      BY <1>1, <1>2, <2>3, <2>6 DEF Order
    <3>2. s \notin mixed' => \A q \in Runs : q < s => ~Works(q)'
      <4>1. s \notin mixed' => s \notin mixed
        BY <2>1
      <4> QED BY <2>2, <2>3, <2>6, <4>1 DEF Order
    <3> QED BY <2>3, <2>6, <3>1, <3>2
  <2> QED BY <2>5, <2>6
<1>6. CASE ~Begin(r)
  <2>1. /\ run[r].at # "none" /\ mixed' = mixed /\ (run'[r].at = "running" => run[r].at = "running")
        /\ Works(r)' => Works(r) \/ run[r].at = "running"
    BY <1>3, <1>6, Acting
  <2>2. run[s].at # "none" /\ (run'[s].at = "running" => run[s].at = "running")
    BY <1>1, <2>1
  <2>3. \A q \in Runs : q < s => run'[q].at # "none"
    BY <1>1, <1>4, <2>2 DEF Order
  <2>4. run'[s].at = "running" => \A q \in Runs : q > s => run'[q].at = "none"
    <3> SUFFICES ASSUME run[s].at = "running", NEW q \in Runs, q > s, run'[q].at # "none" PROVE FALSE
      BY <2>2
    <3>1. run[q].at # "none"
      BY <1>1, <2>1
    <3> QED BY <3>1 DEF Order
  <2>5. s \notin mixed => \A q \in Runs : q < s => ~Works(q)'
    <3> SUFFICES ASSUME s \notin mixed, NEW q \in Runs, q < s, Works(q)' PROVE FALSE
      OBVIOUS
    <3>1. ~Works(q)
      BY <2>2 DEF Order
    <3>2. q = r /\ run[r].at = "running"
      BY <1>1, <2>1, <3>1
    <3>3. run[s].at = "none"
      BY <1>2, <3>2 DEF Order
    <3> QED BY <2>2, <3>3
  <2> QED BY <2>1, <2>3, <2>4, <2>5
<1> QED BY <1>5, <1>6

LEMMA NowPlace ==
    ASSUME Typed, NEW r \in Runs, Own(r), Writing(r)
    PROVE  /\ run[r].at # "none" /\ run[r].op \in Suites[suite] /\ run[r].op \in Ops
           /\ hand[r].n \in DOMAIN Due(r) /\ run[r].k \in 1..Steps(run[r].op, Ins(r))
           /\ Now(r).to[1] = "output" \/ (run[r].op = "docx" /\ Now(r).to = Scratch(Ins(r)[1]))
<1>1. /\ run[r].at # "none" /\ run[r].op \in Suites[suite] /\ hand[r].n \in DOMAIN Due(r) /\ Works(r)
      /\ run[r].k \in 1..(Steps(run[r].op, Ins(r)) + 1) /\ run[r].k <= Steps(run[r].op, Ins(r))
  BY DEF Own, Writing, NoHand, Works
<1>2. run[r].op \in Ops /\ Steps(run[r].op, Ins(r)) \in Nat
  BY OwnTypes
<1>3. run[r].k \in 1..Steps(run[r].op, Ins(r))
  BY <1>1, <1>2
<1>4. hand[r].n \in DOMAIN Targets(run[r].op, Ins(r), run[r].k, hand[r].got) /\ Now(r) = Targets(run[r].op, Ins(r), run[r].k, hand[r].got)[hand[r].n]
  BY <1>1 DEF Due, Now
<1> QED BY <1>1, <1>2, <1>3, <1>4, TargetsPlaces

LEMMA ContentsNext ==
    ASSUME Typed, Contents, NEW r \in Runs, Own(r), Acts(r)
    PROVE  Contents'
<1>0. suite' = suite /\ run'[r].at # "none" /\ \A q \in Runs : run[q].at # "none" => run'[q].at # "none"
  <2>1. \A q \in Runs \ {r} : run'[q] = run[q]
    BY Others DEF Same
  <2> QED BY <2>1, Acting
<1> SUFFICES ASSUME NEW x \in DOMAIN disk'
             PROVE  /\ disk'[x].by = 0 => disk'[x] = Whole(0, PagesOf(x)) /\ x \in SourcesOf(suite)
                    /\ disk'[x].by # 0 => x[1] \in {"output", "temp"} /\ run'[disk'[x].by].at # "none"
  BY <1>0 DEF Contents
<1>1. CASE x \in DOMAIN disk /\ disk'[x] = disk[x]
  <2>1. disk[x].by # 0 => disk[x].by \in Runs
    <3>1. disk[x].by \in 0..MaxRuns /\ MaxRuns \in Nat
      BY <1>1, RunsAre DEF Typed, Files
    <3> QED BY <3>1 DEF Runs
  <2> QED BY <1>0, <1>1, <2>1 DEF Contents
<1>2. CASE x = Now(r).to /\ Writing(r) /\ (disk'[x] = Partial(r) \/ (Laden(r) /\ disk'[x] = Whole(r, Now(r).pieces)))
  <2>1. disk'[x].by = r /\ r # 0
    <3>1. Partial(r).by = r /\ Whole(r, Now(r).pieces).by = r
      BY DEF Partial, Whole
    <3> QED BY <1>2, <3>1, RunsAre
  <2>2. x[1] \in {"output", "temp"}
    BY <1>2, NowPlace DEF Scratch
  <2> QED BY <1>0, <2>1, <2>2
<1> QED BY <1>1, <1>2, DiskEffect

\* The pages of a source.
LEMMA PagesLength ==
    ASSUME NEW p
    PROVE  /\ Len(PagesOf(p)) = IF p \in Readable["rotate"] THEN Pages ELSE 1
           /\ PagesOf(p) \in Seq({p} \X Nat) /\ PagesOf(p) # <<>>
           /\ Len(PagesOf(p)) \in Nat \ {0}
           /\ DOMAIN PagesOf(p) = 1..Len(PagesOf(p)) /\ \A i \in DOMAIN PagesOf(p) : PagesOf(p)[i] = <<p, i>>
<1> DEFINE n == IF p \in Readable["rotate"] THEN Pages ELSE 1
<1>1. n \in Nat \ {0}
  BY RunsAre
<1>2. PagesOf(p) = [i \in 1..n |-> <<p, i>>]
  BY DEF PagesOf
<1> HIDE DEF n
<1>3. [i \in 1..n |-> <<p, i>>] \in Seq({p} \X Nat) /\ Len([i \in 1..n |-> <<p, i>>]) = n
  BY <1>1
<1>4. PagesOf(p) \in Seq({p} \X Nat) /\ Len(PagesOf(p)) = n
  BY <1>2, <1>3
<1>5. PagesOf(p) # <<>>
  BY <1>1, <1>4
<1>6. DOMAIN PagesOf(p) = 1..n /\ \A i \in DOMAIN PagesOf(p) : PagesOf(p)[i] = <<p, i>>
  BY <1>1, <1>2
<1> QED BY <1>1, <1>4, <1>5, <1>6 DEF n

LEMMA InitBase == Init => Base
<1> SUFFICES ASSUME Init PROVE Base
  OBVIOUS
<1>1. Typed
  BY InitTyped
<1>2. \A r \in Runs : run[r] = NoRun /\ hand[r] = NoHand /\ coder[r] = NoCoder /\ updates[r] = 0 /\ shown[r] = 0 /\ made[r] = 0
  BY DEF Init
<1>3. disk = [p \in SourcesOf(suite) |-> Whole(0, PagesOf(p))]
  BY DEF Init
<1>4. Order
  BY <1>2 DEF Order, NoRun
<1>5. Contents
  BY <1>3 DEF Contents, Whole
<1>6. \A r \in Runs : Own(r)
  BY <1>2 DEF Own, NoRun, NoHand, NoCoder, Works
<1>7. \A r \in Runs : TextedRun(r)
  <2>1. NoHand.got = <<>> /\ NoHand.at = "idle" /\ NoCoder.at = "none" /\ <<>> \in Seq(Texts)
    BY DEF NoHand, NoCoder
  <2> QED BY <1>2, <2>1 DEF TextedRun, Laden
<1>8. TextedFiles
  <2> SUFFICES ASSUME NEW p \in SourcesOf(suite) PROVE disk[p].pieces \in Seq(Texts) /\ disk[p].pieces # <<>>
    BY <1>3 DEF TextedFiles
  <2>1. disk[p].pieces = PagesOf(p)
    BY <1>3 DEF Whole
  <2>2. PagesOf(p) \in Seq({p} \X Nat) /\ PagesOf(p) # <<>>
    BY PagesLength
  <2>3. {p} \X Nat \subseteq Texts
    BY DEF Texts
  <2>4. PagesOf(p) \in Seq(Texts)
    <3> HIDE DEF Texts
    <3> QED BY <2>2, <2>3
  <2> QED BY <2>1, <2>2, <2>4
<1> QED BY <1>1, <1>4, <1>5, <1>6, <1>7, <1>8 DEF Base

LEMMA OwnFrame ==
    ASSUME NEW q, Same(q), suite' = suite, Own(q), TextedRun(q)
    PROVE  Own(q)' /\ TextedRun(q)'
<1>1. /\ run'[q] = run[q] /\ hand'[q] = hand[q] /\ coder'[q] = coder[q]
      /\ updates'[q] = updates[q] /\ shown'[q] = shown[q] /\ made'[q] = made[q]
  BY DEF Same
<1>2. Ins(q)' = Ins(q) /\ Due(q)' = Due(q)
  BY <1>1, DueSame
<1>3. Own(q)'
  BY <1>1, <1>2 DEF Own, Works
<1>4. TextedRun(q)'
  BY <1>1 DEF TextedRun, Texts, Laden
<1> QED BY <1>3, <1>4

\* If the runs and their threads stay as they are, what is said of them stays.
LEMMA RestFrame ==
    ASSUME Base, UNCHANGED <<suite, run, hand, coder, updates, shown, made, mixed>>
    PROVE  Order' /\ \A q \in Runs : Own(q)' /\ TextedRun(q)'
<1>1. \A q \in Runs : Same(q)
  BY DEF Same
<1>2. Order'
  BY DEF Base, Order, Works
<1> QED BY <1>1, <1>2, OwnFrame DEF Base

LEMMA BaseNext ==
    ASSUME Base, Next
    PROVE  Base'
<1>1. Typed'
  BY TypedNext DEF Base
<1>2. CASE Panel
  <2>1. UNCHANGED <<suite, run, hand, coder, updates, shown, made, mixed>> /\ disk' = disk
    BY <1>2 DEF Panel, AddFiles, RemoveFile, Move, ChangeOperation, work
  <2>2. Contents' /\ TextedFiles'
    BY <2>1 DEF Base, Contents, TextedFiles, Texts
  <2> QED BY <1>1, <2>1, <2>2, RestFrame DEF Base
<1>3. ASSUME NEW p, UserDeletes(p) PROVE Base'
  <2>1. UNCHANGED <<suite, run, hand, coder, updates, shown, made, mixed>> /\ disk' = Without(p)
    BY <1>3 DEF UserDeletes, work
  <2>2. \A x \in DOMAIN disk' : x \in DOMAIN disk /\ disk'[x] = disk[x]
    BY <2>1, WithoutFacts
  <2>3. Contents' /\ TextedFiles'
    BY <2>1, <2>2 DEF Base, Contents, TextedFiles, Texts
  <2> QED BY <1>1, <2>1, <2>3, RestFrame DEF Base
<1>4. ASSUME NEW r \in Runs, Acts(r) PROVE Base'
  <2>1. Typed /\ Order /\ Contents /\ TextedFiles /\ Own(r) /\ TextedRun(r) /\ \A q \in Runs : Own(q)
    BY DEF Base
  <2>2. Order' /\ Contents' /\ TextedFiles' /\ Own(r)' /\ TextedRun(r)'
    BY <1>4, <2>1, OrderNext, ContentsNext, TextedFilesNext, OwnNext, TextedRunNext
  <2>3. ASSUME NEW q \in Runs, q # r PROVE Own(q)' /\ TextedRun(q)'
    <3>1. Same(q) /\ suite' = suite
      BY <1>4, <2>1, <2>3, Others
    <3> QED BY <3>1, OwnFrame DEF Base
  <2> QED BY <1>1, <2>2, <2>3 DEF Base
<1> QED BY <1>2, <1>3, <1>4, NextIs DEF Deletes, Acts

LEMMA BaseStutters ==
    ASSUME Base, UNCHANGED vars
    PROVE  Base'
<1>1. UNCHANGED <<suite, form, disk, run, hand, coder, updates, shown, made, mixed, edits>>
  BY DEF vars, work
<1>2. Typed'
  BY <1>1 DEF Base, Typed
<1>3. Contents' /\ TextedFiles'
  BY <1>1 DEF Base, Contents, TextedFiles, Texts
<1> QED BY <1>1, <1>2, <1>3, RestFrame DEF Base

\* Each run is in step with its thread and its process, the runs come one after
\* the other, and a file is a source as it was or the work of a run that began;
\* what the other proofs start from.
THEOREM BaseHolds == Spec => []Base
<1>1. Init => Base
  BY InitBase
<1>2. Base /\ [Next]_vars => Base'
  BY BaseNext, BaseStutters
<1> QED BY <1>1, <1>2, PTL DEF Spec

-----------------------------------------------------------------------------
(* Types.                                                                  *)

LEMMA BaseTypes == Base => TypeOK
<1> SUFFICES ASSUME Base PROVE TypeOK
  OBVIOUS
<1>1. Typed
  BY DEF Base
<1>2. form.op \in Suites[suite] /\ form.files \in Seq(Sources)
  <2>1. form.op \in Suites[suite] /\ form.files \in Seq(SourcesOf(suite)) /\ SourcesOf(suite) \subseteq Sources
    BY <1>1, SuiteFacts DEF Typed
  <2> QED BY <2>1
<1>3. ASSUME NEW r \in Runs
      PROVE  /\ run[r].k \in 0..(Steps(run[r].op, Ins(r)) + 1)
             /\ hand[r].at \in {"writing", "filling"} => hand[r].n \in DOMAIN Due(r)
             /\ coder[r].at \in {"none", "on", "wedged", "ok", "bad"} /\ coder[r].out \in 0..Pipe /\ coder[r].err \in 0..Pipe
  <2>1. Own(r) /\ Steps(run[r].op, Ins(r)) \in Nat
    BY <1>1, OwnTypes DEF Base
  <2>2. run[r].at = "none" => run[r].k = 0
    BY <2>1 DEF Own, NoRun
  <2>3. run[r].k \in 0..(Steps(run[r].op, Ins(r)) + 1)
    BY <2>1, <2>2 DEF Own
  <2> QED BY <1>1, <2>1, <2>3 DEF Own, Typed, Coders
<1>4. \A p \in DOMAIN disk : disk[p].by \in 0..MaxRuns /\ disk[p].whole \in BOOLEAN
  BY <1>1 DEF Typed, Files
<1>5. ASSUME NEW r \in Runs
      PROVE  /\ run[r].op \in Ops /\ run[r].ins \in Seq(Sources)
             /\ run[r].at \in {"none", "running", "done", "failed", "abandoned"}
             /\ hand[r].at \in {"idle", "reading", "probed", "writing", "filling", "encoding", "ended", "failed"}
  BY <1>1, OwnTypes DEF Ins, RunPlaces, Places
<1> QED BY <1>1, <1>2, <1>3, <1>4, <1>5 DEF TypeOK, Typed

\* The types hold: a step the thread is in is one of the run's, the file it
\* writes one of the step's, and a pipe holds no more than it can.
THEOREM TypesHold == Spec => []TypeOK
  BY BaseHolds, BaseTypes, PTL

-----------------------------------------------------------------------------
(* No report is lost.                                                      *)

\* What a wanted run has reported has been shown, or waits to be; none waits
\* between the steps.
CountedRun(r) ==
    /\ run[r].at = "running" => shown[r] + updates[r] = made[r]
    /\ run[r].at = "running" /\ hand[r].at \in {"idle", "reading", "probed"} => updates[r] = 0
    /\ run[r].at \in {"done", "failed"} => shown[r] = made[r]

LEMMA CountedNext ==
    ASSUME Typed, NEW r \in Runs, Own(r), CountedRun(r), Acts(r)
    PROVE  CountedRun(r)'
<1> USE DEF CountedRun, Place, Course
<1>1. updates[r] \in Nat /\ shown[r] \in Nat /\ made[r] \in Nat
  BY OwnTypes
<1>2. CASE Begin(r)
  <2>1. updates[r] = 0 /\ shown[r] = 0 /\ made[r] = 0 /\ UNCHANGED <<updates, shown, made>>
    BY <1>2, BeginDoes DEF Own
  <2> QED BY <2>1
<1>3. CASE Abandon(r) \/ Break(r) \/ PumpLate(r)
  BY <1>3, AbandonDoes, BreakDoes, PumpLateDoes
<1>4. CASE Call(r) \/ Relay(r) \/ Advance(r)
  BY <1>1, <1>4, CallDoes, RelayDoes, AdvanceDoes
<1>5. CASE Fail(r) \/ Finish(r)
  BY <1>1, <1>5, EndDoes
<1>6. CASE Read(r) \/ ReadFails(r) \/ Probe(r) \/ Spawn(r)
  BY <1>6, ReadDoes, ReadFailsDoes, ProbeDoes, SpawnDoes
<1>7. CASE Truncate(r) \/ Close(r) \/ WriteFails(r)
  BY <1>7, TruncateDoes, CloseDoes, WriteFailsDoes
<1>8. CASE Progress(r) \/ Complain(r) \/ Drain(r) \/ Pump(r)
  <2>1. (coder[r].at = "on" => hand[r].at = "encoding") /\ UNCHANGED <<run, hand, shown>>
    BY <1>8, EncodingDoes DEF Own
  <2>2. hand[r].at = "encoding"
    BY <1>8, <2>1, EncodingDoes
  <2> QED BY <1>1, <1>8, <2>1, <2>2, EncodingDoes
<1>9. CASE Complete(r) \/ Wait(r)
  BY <1>9, CompleteDoes, WaitDoes
<1> QED BY <1>2, <1>3, <1>4, <1>5, <1>6, <1>7, <1>8, <1>9, ActsAre

LEMMA CountedFrame ==
    ASSUME NEW q, Same(q), CountedRun(q)
    PROVE  CountedRun(q)'
  BY DEF Same, CountedRun

Counted == \A r \in Runs : CountedRun(r)

\* NoReportLost, for any number of clips and lines: while the run is wanted, what
\* has been shown and what waits are together the reports made; a step is not
\* over, and a run neither done nor failed, before the last has been shown.
THEOREM NothingLost == Spec => []NoReportLost
<1>1. Init => Counted
  <2> SUFFICES ASSUME Init, NEW r \in Runs PROVE CountedRun(r)
    BY DEF Counted
  <2>1. run[r] = NoRun
    BY DEF Init
  <2>2. hand[r] = NoHand /\ updates[r] = 0 /\ shown[r] = 0 /\ made[r] = 0
    BY DEF Init
  <2> QED BY <2>1, <2>2 DEF CountedRun, NoRun
<1>2. ASSUME Base, Counted, Next PROVE Counted'
  <2>1. CASE Panel \/ Deletes
    <3>1. UNCHANGED <<suite, run, hand, coder, updates, shown, made>>
      BY <2>1, PanelSame
    <3>2. \A r \in Runs : Same(r)
      BY <3>1 DEF Same
    <3> QED BY <1>2, <3>1, <3>2, CountedFrame DEF Counted
  <2>2. ASSUME NEW r \in Runs, Acts(r) PROVE Counted'
    <3>1. Typed /\ Own(r) /\ CountedRun(r)
      BY <1>2 DEF Base, Counted
    <3>2. CountedRun(r)'
      BY <2>2, <3>1, CountedNext
    <3>3. ASSUME NEW q \in Runs, q # r PROVE CountedRun(q)'
      <4>1. Same(q) /\ suite' = suite
        BY <2>2, <3>1, <3>3, Others
      <4> QED BY <1>2, <4>1, CountedFrame DEF Counted
    <3> QED BY <3>2, <3>3 DEF Counted
  <2> QED BY <1>2, <2>1, <2>2, NextIs DEF Acts
<1>3. ASSUME Counted, UNCHANGED vars PROVE Counted'
  BY <1>3 DEF vars, work, Counted, CountedRun
<1>4. Base /\ Counted => NoReportLost
  BY DEF Counted, CountedRun, NoReportLost
<1> QED BY <1>1, <1>2, <1>3, <1>4, BaseHolds, PTL DEF Spec

-----------------------------------------------------------------------------
(* No half-written video is left behind.                                   *)

\* The file of a process is its own, and whole when it has ended well.
Coded(r) == coder[r].at \in {"on", "ok"} /\ Now(r).to \in DOMAIN disk =>
                disk[Now(r).to].by = r /\ (coder[r].at = "ok" => disk[Now(r).to].whole)
Excused(q) == disk[q].whole \/ q[3] = "frames" \/ \E r \in Runs : hand[r].at = "encoding" /\ Now(r).to = q
Video == suite = "media" /\ mixed = {} =>
            /\ \A r \in Runs : Coded(r)
            /\ \A q \in DOMAIN disk : Excused(q)

LEMMA OneWorks ==
    ASSUME Typed, Order, \A q \in Runs : Own(q), mixed = {}, NEW r \in Runs, NEW q \in Runs, Works(r), Works(q)
    PROVE  r = q
<1>1. r \in Nat /\ q \in Nat
  BY RunsAre
<1>2. run[r].at # "none" /\ run[q].at # "none"
  BY DEF Own, Works, NoHand
<1>3. ~(q < r) /\ ~(r < q)
  BY <1>2 DEF Order
<1> QED BY <1>1, <1>3

LEMMA MixedGrows == ASSUME Typed, NEW r \in Runs, Own(r), Acts(r), mixed' = {} PROVE mixed = {}
<1>1. CASE Begin(r)
  <2>1. mixed' = mixed \/ mixed' = mixed \cup {r}
    BY <1>1, BeginDoes
  <2> QED BY <2>1
<1>2. CASE ~Begin(r)
  BY <1>2, Acting
<1> QED BY <1>1, <1>2

\* While a process runs, its thread waits, but for its last step.
LEMMA EncodingStays ==
    ASSUME Typed, NEW r \in Runs, Own(r), Acts(r), hand[r].at = "encoding"
    PROVE  \/ Wait(r) \/ PumpLate(r)
           \/ hand'[r].at = "encoding" /\ Now(r)' = Now(r) /\ (disk' = disk \/ Complete(r))
<1>1. run[r].at \notin {"none", "done", "failed"}
  BY DEF Own, NoHand
<1>2. ~Begin(r) /\ ~Call(r) /\ ~Advance(r) /\ ~Fail(r) /\ ~Finish(r) /\ ~Read(r) /\ ~ReadFails(r) /\ ~Truncate(r) /\ ~Close(r) /\ ~WriteFails(r) /\ ~Probe(r) /\ ~Spawn(r)
  BY <1>1 DEF Begin, Call, Advance, Fail, Finish, InRun, Read, ReadFails, Truncate, Close, WriteFails, Probe, Spawn
<1>3. CASE Abandon(r)
  BY <1>3, AbandonDoes, DueSame DEF Course
<1>4. CASE Break(r) \/ Relay(r)
  BY <1>4, BreakDoes, RelayDoes, DueSame
<1>5. CASE Progress(r) \/ Complain(r) \/ Drain(r) \/ Pump(r)
  BY <1>5, EncodingDoes, DueSame
<1>6. CASE Complete(r)
  BY <1>6, CompleteDoes, DueSame
<1> QED BY <1>2, <1>3, <1>4, <1>5, <1>6, ActsAre

LEMMA Frames ==
    ASSUME Typed, NEW r \in Runs, Own(r), Writing(r), run[r].op = "thumbnails"
    PROVE  Now(r).to[3] = "frames"
<1>1. hand[r].n \in DOMAIN Due(r)
  BY DEF Own, Writing
<1>2. Due(r) = <<Write(Output(Stem(Ins(r)[run[r].k]), "frames", 0), LastOf(hand[r].got))>>
  BY DEF Due, Skipped, Targets, Thumbnails
<1>3. Now(r) = Write(Output(Stem(Ins(r)[run[r].k]), "frames", 0), LastOf(hand[r].got))
  BY <1>1, <1>2 DEF Now
<1> QED BY <1>3 DEF Write, Output

\* Of what a process makes, its end leaves what is whole.
LEMMA EndLeaves ==
    ASSUME Typed, NEW r \in Runs, Own(r), Coded(r), Wait(r) \/ PumpLate(r), NEW x \in DOMAIN disk'
    PROVE  /\ x \in DOMAIN disk /\ disk'[x] = disk[x] /\ hand[r].at = "encoding" /\ coder'[r].at = "none"
           /\ x = Now(r).to => disk'[x].whole \/ x[3] = "frames"
<1>1. hand[r].at = "encoding" /\ coder'[r].at = "none" /\ (disk' = Discarded(r) \/ (coder[r].at = "ok" /\ disk' = disk))
  BY WaitDoes, PumpLateDoes
<1>2. Writing(r)
  BY <1>1 DEF Writing
<1>3. CASE disk' = disk /\ coder[r].at = "ok"
  BY <1>1, <1>3 DEF Coded
<1>4. CASE disk' = Discarded(r)
  <2>1. /\ DOMAIN Discarded(r) = IF run[r].op = "thumbnails" THEN DOMAIN disk ELSE DOMAIN disk \ {Now(r).to}
        /\ Discarded(r)[x] = disk[x]
    BY <1>4, DiscardedFacts
  <2>2. run[r].op = "thumbnails" => Now(r).to[3] = "frames"
    BY <1>2, Frames
  <2> QED BY <1>1, <1>4, <2>1, <2>2
<1> QED BY <1>1, <1>3, <1>4

LEMMA VideoNext ==
    ASSUME Base, Video, NEW r \in Runs, Acts(r)
    PROVE  Video'
<1>1. Typed /\ Order /\ Own(r) /\ \A q \in Runs : Own(q)
  BY DEF Base
<1>2. suite' = suite
  BY <1>1, Acting
<1> SUFFICES ASSUME suite = "media", mixed' = {} PROVE (\A q \in Runs : Coded(q)') /\ \A x \in DOMAIN disk' : Excused(x)'
  BY <1>2 DEF Video
<1>3. mixed = {} /\ (\A q \in Runs : Coded(q)) /\ \A x \in DOMAIN disk : Excused(x)
  BY <1>1, MixedGrows DEF Video
<1>4. ASSUME NEW q \in Runs, q # r
      PROVE  /\ hand'[q] = hand[q] /\ coder'[q] = coder[q] /\ Now(q)' = Now(q)
             /\ Works(r) => hand[q].at # "encoding" /\ coder[q].at = "none" /\ coder'[q].at = "none"
  <2>1. Same(q)
    BY <1>1, <1>4, Others
  <2>2. Now(q)' = Now(q)
    BY <2>1, DueSame DEF Same
  <2>3. Works(r) => hand[q].at # "encoding"
    BY <1>1, <1>3, <1>4, OneWorks DEF Works
  <2> QED BY <1>1, <2>1, <2>2, <2>3 DEF Own, Same
<1>5. ~Truncate(r) /\ ~Close(r) /\ ~WriteFails(r)
  BY <1>1 DEF Own, Truncate, Close, WriteFails
<1>6. CASE Wait(r) \/ PumpLate(r)
  <2>1. Works(r) /\ coder'[r].at = "none"
    BY <1>1, <1>6, WaitDoes, PumpLateDoes DEF Works
  <2>2. \A q \in Runs : Coded(q)'
    BY <1>4, <2>1 DEF Coded
  <2>3. ASSUME NEW x \in DOMAIN disk' PROVE Excused(x)'
    <3>1. /\ x \in DOMAIN disk /\ disk'[x] = disk[x]
          /\ x = Now(r).to => disk'[x].whole \/ x[3] = "frames"
      BY <1>1, <1>3, <1>6, <2>3, EndLeaves
    <3>2. disk[x].whole \/ x[3] = "frames" \/ x = Now(r).to
      BY <1>3, <1>4, <2>1, <3>1 DEF Excused
    <3> QED BY <3>1, <3>2 DEF Excused
  <2> QED BY <2>2, <2>3
<1>7. CASE Complete(r)
  <2>1. /\ coder[r].at = "on" /\ coder'[r].at = "ok" /\ disk' = Filled(r) /\ hand' = hand /\ run' = run
    BY <1>1, <1>7, CompleteDoes
  <2>2. hand[r].at = "encoding" /\ Works(r) /\ Now(r)' = Now(r)
    BY <1>1, <2>1, DueSame DEF Own, Works
  <2>3. /\ DOMAIN disk' = DOMAIN disk
        /\ \A x \in DOMAIN disk : x # Now(r).to => disk'[x] = disk[x]
        /\ Now(r).to \in DOMAIN disk => disk'[Now(r).to] = IF disk[Now(r).to].by = r THEN Whole(r, Now(r).pieces) ELSE Partial(r)
    BY <2>1, FilledFacts
  <2>4. Now(r).to \in DOMAIN disk => disk'[Now(r).to].by = r /\ disk'[Now(r).to].whole
    <3>1. Now(r).to \in DOMAIN disk => disk'[Now(r).to] = Whole(r, Now(r).pieces)
      BY <1>3, <2>1, <2>3 DEF Coded
    <3> QED BY <3>1 DEF Whole
  <2>5. \A q \in Runs : Coded(q)'
    BY <1>4, <2>2, <2>3, <2>4 DEF Coded
  <2>6. ASSUME NEW x \in DOMAIN disk' PROVE Excused(x)'
    <3>1. x # Now(r).to => disk'[x] = disk[x] /\ x \in DOMAIN disk
      BY <2>3, <2>6
    <3>2. x # Now(r).to => disk[x].whole \/ x[3] = "frames"
      BY <1>3, <1>4, <2>2, <3>1 DEF Excused
    <3> QED BY <2>3, <2>4, <2>6, <3>1, <3>2 DEF Excused
  <2> QED BY <2>5, <2>6
<1>8. CASE Spawn(r)
  <2>1. hand[r].at = "probed" /\ Works(r) /\ coder[r].at = "none"
    BY <1>1, <1>8, SpawnDoes DEF Own, Works
  <2>2. Now(r)'.to = Now(r).to
    BY <1>1, <1>8, DueSpawned
  <2>3. \A x \in DOMAIN disk : disk[x].whole \/ x[3] = "frames"
    BY <1>3, <1>4, <2>1 DEF Excused
  <2>4. CASE coder'[r].at = "on" /\ hand'[r].at = "encoding" /\ disk' = Put(Now(r).to, Partial(r))
    <3>1. disk' = [f \in DOMAIN disk \cup {Now(r).to} |-> IF f = Now(r).to THEN Partial(r) ELSE disk[f]]
      BY <2>4 DEF Put
    <3>2. disk'[Now(r).to].by = r
      BY <3>1 DEF Partial
    <3>3. \A q \in Runs : Coded(q)'
      BY <1>4, <2>1, <2>2, <2>4, <3>2 DEF Coded
    <3>4. ASSUME NEW x \in DOMAIN disk' PROVE Excused(x)'
      <4>1. x # Now(r).to => x \in DOMAIN disk /\ disk'[x] = disk[x]
        BY <3>1, <3>4
      <4> QED BY <2>2, <2>3, <2>4, <4>1 DEF Excused
    <3> QED BY <3>3, <3>4
  <2>5. CASE disk' = disk /\ coder'[r].at \in {"bad", "none"}
    BY <1>4, <2>1, <2>3, <2>5 DEF Coded, Excused
  <2> QED BY <1>1, <1>8, <2>1, <2>4, <2>5, SpawnDoes DEF Place
<1>9. CASE ~Wait(r) /\ ~PumpLate(r) /\ ~Complete(r) /\ ~Spawn(r)
  <2>1. disk' = disk
    <3>1. CASE Begin(r) \/ Abandon(r) \/ Break(r)
      BY <1>1, <3>1, BeginDoes, AbandonDoes, BreakDoes
    <3>2. CASE Call(r) \/ Relay(r) \/ Advance(r) \/ (Fail(r) \/ Finish(r))
      BY <1>1, <3>2, CallDoes, RelayDoes, AdvanceDoes, EndDoes
    <3>3. CASE Read(r) \/ ReadFails(r) \/ Probe(r) \/ (Progress(r) \/ Complain(r) \/ Drain(r) \/ Pump(r))
      BY <1>1, <3>3, ReadDoes, ReadFailsDoes, ProbeDoes, EncodingDoes
    <3> QED BY <1>5, <1>9, <3>1, <3>2, <3>3, ActsAre
  <2>2. hand[r].at = "encoding" => hand'[r].at = "encoding" /\ Now(r)' = Now(r)
    BY <1>1, <1>9, EncodingStays
  <2>3. coder'[r].at \in {"on", "ok"} => coder[r].at = coder'[r].at /\ hand[r].at = "encoding"
    <3>1. CASE Begin(r) \/ Abandon(r) \/ Break(r)
      BY <1>1, <3>1, BeginDoes, AbandonDoes, BreakDoes DEF Own
    <3>2. CASE Call(r) \/ Relay(r) \/ Advance(r) \/ (Fail(r) \/ Finish(r))
      BY <1>1, <3>2, CallDoes, RelayDoes, AdvanceDoes, EndDoes DEF Own
    <3>3. CASE Read(r) \/ ReadFails(r) \/ Probe(r) \/ (Progress(r) \/ Complain(r) \/ Drain(r) \/ Pump(r))
      BY <1>1, <3>3, ReadDoes, ReadFailsDoes, ProbeDoes, EncodingDoes DEF Own
    <3> QED BY <1>5, <1>9, <3>1, <3>2, <3>3, ActsAre
  <2>4. \A q \in Runs : Coded(q)'
    <3>1. Coded(r)'
      BY <1>3, <2>1, <2>2, <2>3 DEF Coded
    <3> QED BY <1>3, <1>4, <2>1, <3>1 DEF Coded
  <2>5. ASSUME NEW x \in DOMAIN disk' PROVE Excused(x)'
    <3>1. Excused(x)
      BY <1>3, <2>1, <2>5
    <3>2. ASSUME NEW q \in Runs, hand[q].at = "encoding", Now(q).to = x PROVE hand'[q].at = "encoding" /\ Now(q)'.to = x
      BY <1>4, <2>2, <3>2
    <3> QED BY <2>1, <3>1, <3>2 DEF Excused
  <2> QED BY <2>4, <2>5
<1> QED BY <1>6, <1>7, <1>8, <1>9

\* NoTruncatedVideo, for any clips: if runs do not overlap at most one thread
\* works, so that the file a process writes is its own until it ends.
THEOREM NoneTruncated == Spec => []NoTruncatedVideo
<1>1. Init => Video
  <2> SUFFICES ASSUME Init PROVE Video
    OBVIOUS
  <2>1. \A r \in Runs : coder[r].at = "none"
    BY DEF Init, NoCoder
  <2>2. \A x \in DOMAIN disk : disk[x].whole
    BY DEF Init, Whole
  <2> QED BY <2>1, <2>2 DEF Video, Coded, Excused
<1>2. ASSUME Base, Video, Next PROVE Video'
  <2>1. CASE Panel \/ Deletes
    <3>1. UNCHANGED <<suite, run, hand, coder, mixed>>
      BY <2>1, PanelSame
    <3>2. \A x \in DOMAIN disk' : x \in DOMAIN disk /\ disk'[x] = disk[x]
      <4>1. CASE Panel
        <5>1. disk' = disk
          BY <4>1 DEF Panel, AddFiles, RemoveFile, Move, ChangeOperation
        <5> QED BY <5>1
      <4>2. CASE Deletes
        <5>1. \E p : disk' = Without(p)
          BY <4>2 DEF Deletes, UserDeletes
        <5> QED BY <5>1, WithoutFacts
      <4> QED BY <2>1, <4>1, <4>2
    <3>3. \A r \in Runs : Now(r)' = Now(r)
      BY <3>1, DueSame
    <3>4. \A r \in Runs : Coded(r) => Coded(r)'
      BY <3>1, <3>2, <3>3 DEF Coded
    <3>5. \A x \in DOMAIN disk' : Excused(x) => Excused(x)'
      BY <3>1, <3>2, <3>3 DEF Excused
    <3> QED BY <1>2, <3>1, <3>2, <3>4, <3>5 DEF Video
  <2> QED BY <1>2, <2>1, VideoNext, NextIs DEF Acts
<1>3. ASSUME Video, UNCHANGED vars PROVE Video'
  BY <1>3 DEF vars, work, Video, Coded, Excused, Now, Due, Skipped, Ins
<1>4. Video => NoTruncatedVideo
  BY DEF Video, NoTruncatedVideo, Excused
<1> QED BY <1>1, <1>2, <1>3, <1>4, BaseHolds, PTL DEF Spec

-----------------------------------------------------------------------------
(* What a run would read and write if nobody disturbed it.                 *)

Each == {"convert", "densities", "drawable", "translate", "mp4", "audio", "thumbnails"}

\* What it has read after j steps; what its step j ought to write from, a clip
\* losing the sound that probe has not found; and what it writes.
Ideal(op, ins, j) ==
    IF op \in Each THEN PagesOf(ins[j])
    ELSE IF op = "merge" THEN FlattenSeq([k \in 1..(IF j < Len(ins) THEN j ELSE Len(ins)) |-> PagesOf(ins[k])])
    ELSE IF j = 0 THEN <<>>
    ELSE IF op = "docx" /\ j > 1 THEN PagesOf(ins[1]) \o PagesOf(ins[1])
    ELSE PagesOf(ins[1])
Ought(r, j) ==
    IF run[r].op = "pack" THEN hand[r].got
    ELSE IF run[r].op = "mp4" /\ j \in hand[r].unheard THEN Muted(PagesOf(Ins(r)[j]))
    ELSE Ideal(run[r].op, Ins(r), j)
Asked(r, j) ==
    IF run[r].op = "audio" /\ j \in hand[r].unheard THEN <<>> ELSE Targets(run[r].op, Ins(r), j, Ought(r, j))

LEMMA EachIs ==
    /\ Each = Suites["image"] \cup Suites["document"] \cup Suites["media"]
    /\ \A op \in Ops : op \in Each \/ op \in Suites["pdf"] \/ op = "pack"
    /\ \A s \in DOMAIN Suites : \A op \in Suites[s] : /\ op \in Each <=> s \in {"image", "document", "media"}
                                                     /\ op = "pack" <=> s = "packager"
  BY SuiteFacts, OpsAre DEF Each

LEMMA OnePage ==
    ASSUME NEW s \in {"image", "document", "media"}, NEW p \in SourcesOf(s)
    PROVE  Len(PagesOf(p)) = 1 /\ PagesOf(p) = <<<<p, 1>>>> /\ LastOf(PagesOf(p)) = PagesOf(p)
<1>1. p \notin Readable["rotate"]
  BY ConvertersAssumption
<1>2. PagesOf(p) = [i \in 1..1 |-> <<p, i>>]
  BY <1>1 DEF PagesOf
<1>3. PagesOf(p) = <<<<p, 1>>>>
  BY <1>2
<1> QED BY <1>3 DEF LastOf

\* Where a step writes does not depend on what it has read.
LEMMA TargetsTo ==
    ASSUME NEW op \in Ops, op # "pack", NEW ins, NEW k, NEW g, NEW h
    PROVE  /\ DOMAIN Targets(op, ins, k, g) = DOMAIN Targets(op, ins, k, h)
           /\ \A n \in DOMAIN Targets(op, ins, k, g) : Targets(op, ins, k, g)[n].to = Targets(op, ins, k, h)[n].to
<1> USE DEF Write, Output
<1>1. CASE op = "convert"
  BY <1>1 DEF Targets, Convert
<1>2. CASE op = "densities"
  BY <1>2 DEF Targets, Densities
<1>3. CASE op = "drawable"
  BY <1>3 DEF Targets, Drawable
<1>4. CASE op = "translate"
  BY <1>4 DEF Targets, Translate
<1>5. CASE op = "mp4"
  BY <1>5 DEF Targets, ToMp4
<1>6. CASE op = "audio"
  BY <1>6 DEF Targets, ExtractAudio
<1>7. CASE op = "thumbnails"
  BY <1>7 DEF Targets, Thumbnails
<1>8. CASE op = "merge"
  BY <1>8 DEF Targets, Merge
<1>9. CASE op = "split"
  BY <1>9 DEF Targets, Split
<1>10. CASE op = "rotate"
  BY <1>10 DEF Targets, Rotate
<1>11. CASE op = "images"
  BY <1>11 DEF Targets, ExtractImages
<1>12. CASE op = "docx"
  BY <1>12 DEF Targets, ToDocx
<1> QED BY <1>1, <1>2, <1>3, <1>4, <1>5, <1>6, <1>7, <1>8, <1>9, <1>10, <1>11, <1>12, OpsAre

\* A source that no run has written to yields its pages.
LEMMA ReadsPages ==
    ASSUME Base, NEW p, Untouched(p), Legible(p)
    PROVE  disk[p].pieces = PagesOf(p)
<1>1. p \in DOMAIN disk
  BY DEF Legible
<1>2. disk[p].by = 0
  BY <1>1 DEF Untouched, Base, Contents
<1>3. disk[p] = Whole(0, PagesOf(p))
  BY <1>1, <1>2 DEF Base, Contents
<1> QED BY <1>3 DEF Whole

LEMMA InsAre ==
    ASSUME Typed, NEW r \in Runs, Own(r), run[r].at # "none"
    PROVE  /\ Ins(r) \in Seq(Sources) /\ Len(Ins(r)) \in Nat /\ DOMAIN Ins(r) = 1..Len(Ins(r))
           /\ run[r].op \in Suites[suite] /\ suite \in DOMAIN Suites /\ run[r].op \in Ops
           /\ \A i \in DOMAIN Ins(r) : Ins(r)[i] \in Readable[run[r].op] /\ Ins(r)[i] \in SourcesOf(suite)
           /\ run[r].op \in Suites["pdf"] \ {"merge"} => Len(Ins(r)) = 1 /\ 1 \in DOMAIN Ins(r)
           /\ run[r].op = "merge" => Len(Ins(r)) >= 2
           /\ run[r].k \in Nat \ {0} /\ run[r].k \in 1..(Steps(run[r].op, Ins(r)) + 1) /\ Steps(run[r].op, Ins(r)) \in Nat
<1>1. Ins(r) \in Seq(Sources) /\ run[r].op \in Suites[suite] /\ Valid(run[r].op, Ins(r))
      /\ run[r].k \in 1..(Steps(run[r].op, Ins(r)) + 1) /\ run[r].k \in Nat /\ Steps(run[r].op, Ins(r)) \in Nat /\ run[r].op \in Ops
  BY OwnTypes DEF Own
<1>2. Len(Ins(r)) \in Nat /\ DOMAIN Ins(r) = 1..Len(Ins(r))
  BY <1>1
<1>3. \A i \in DOMAIN Ins(r) : Ins(r)[i] \in Readable[run[r].op]
  <2>1. ToSet(Ins(r)) \subseteq Readable[run[r].op]
    BY <1>1 DEF Valid, Takes
  <2> QED BY <2>1 DEF ToSet
<1>4. suite \in DOMAIN Suites /\ Readable[run[r].op] \subseteq SourcesOf(suite)
  BY <1>1, SuiteFacts DEF Typed
<1>5. run[r].k # 0
  BY <1>1
<1> QED BY <1>1, <1>2, <1>3, <1>4, <1>5 DEF Valid, Single

\* The pages of the sources of a run.
LEMMA InsPages ==
    ASSUME Typed, NEW r \in Runs, Own(r), run[r].at # "none", NEW i \in DOMAIN Ins(r)
    PROVE  /\ PagesOf(Ins(r)[i]) \in Seq(Sources \X Nat)
           /\ run[r].op \in Suites["pdf"] => Len(PagesOf(Ins(r)[i])) = Pages
           /\ run[r].op \in Each => Len(PagesOf(Ins(r)[i])) = 1 /\ LastOf(PagesOf(Ins(r)[i])) = PagesOf(Ins(r)[i])
<1> DEFINE p == Ins(r)[i]
<1>1. p \in Readable[run[r].op] /\ p \in SourcesOf(suite) /\ p \in Sources /\ run[r].op \in Suites[suite] /\ suite \in DOMAIN Suites
  BY InsAre
<1> HIDE DEF p
<1>2. PagesOf(p) \in Seq({p} \X Nat) /\ Len(PagesOf(p)) = IF p \in Readable["rotate"] THEN Pages ELSE 1
  BY PagesLength
<1>3. PagesOf(p) \in Seq(Sources \X Nat)
  <2>1. {p} \X Nat \subseteq Sources \X Nat
    BY <1>1
  <2> QED BY <1>2, <2>1
<1>4. run[r].op \in Suites["pdf"] => p \in Readable["rotate"]
  BY <1>1, ConvertersAssumption
<1>5. run[r].op \in Each => suite \in {"image", "document", "media"}
  BY <1>1, SuiteFacts DEF Each
<1>6. run[r].op \in Each => Len(PagesOf(p)) = 1 /\ LastOf(PagesOf(p)) = PagesOf(p)
  BY <1>1, <1>5, OnePage
<1> QED BY <1>2, <1>3, <1>4, <1>6 DEF p

\* What a step of a suite that converts one source at a time ought to write from.
LEMMA OughtOne ==
    ASSUME Typed, NEW r \in Runs, Own(r), run[r].at # "none", run[r].op \in Each, NEW j \in DOMAIN Ins(r)
    PROVE  /\ Ought(r, j) = IF run[r].op = "mp4" /\ j \in hand[r].unheard THEN Muted(PagesOf(Ins(r)[j])) ELSE PagesOf(Ins(r)[j])
           /\ Ought(r, j) \in Seq(Sources \X Nat) /\ Len(Ought(r, j)) = 1 /\ LastOf(Ought(r, j)) = Ought(r, j)
<1> DEFINE g == PagesOf(Ins(r)[j])
<1>1. g \in Seq(Sources \X Nat) /\ Len(g) = 1 /\ LastOf(g) = g
  BY InsPages
<1>2. Ought(r, j) = IF run[r].op = "mp4" /\ j \in hand[r].unheard THEN Muted(g) ELSE g
  BY DEF Ought, Ideal, Each
<1> HIDE DEF g
<1>3. Muted(g) \in Seq(Sources \X Nat) /\ Len(Muted(g)) = 1
  BY <1>1, MutedTexts
<1>4. \A s \in Seq(Sources \X Nat) : Len(s) = 1 => LastOf(s) = s
  <2> SUFFICES ASSUME NEW s \in Seq(Sources \X Nat), Len(s) = 1 PROVE LastOf(s) = s
    OBVIOUS
  <2>1. s = <<s[1]>>
    OBVIOUS
  <2> QED BY <2>1 DEF LastOf
<1> QED BY <1>1, <1>2, <1>3, <1>4 DEF g

\* What one more step reads.
LEMMA IdealMore ==
    ASSUME Typed, NEW r \in Runs, Own(r), run[r].at # "none", run[r].k <= Steps(run[r].op, Ins(r)), run[r].op \in Suites["pdf"]
    PROVE  /\ Ideal(run[r].op, Ins(r), 0) = <<>>
           /\ Opened(r) = <<>> => Ideal(run[r].op, Ins(r), run[r].k) = Ideal(run[r].op, Ins(r), run[r].k - 1)
           /\ Opened(r) # <<>> => /\ Opened(r)[1] = Ins(r)[IF run[r].op = "merge" THEN run[r].k ELSE 1]
                                        \/ (run[r].op = "docx" /\ run[r].k = 2 /\ Ins(r)[1] \in Locked /\ Opened(r)[1] = Scratch(Ins(r)[1]))
                                  /\ (IF run[r].op = "merge" THEN run[r].k ELSE 1) \in DOMAIN Ins(r)
                                  /\ Ideal(run[r].op, Ins(r), run[r].k) = Ideal(run[r].op, Ins(r), run[r].k - 1)
                                       \o PagesOf(Ins(r)[IF run[r].op = "merge" THEN run[r].k ELSE 1])
<1> DEFINE op == run[r].op
           ins == Ins(r)
           k == run[r].k
           T == Sources \X Nat
<1>0. op \in {"merge", "split", "rotate", "images", "docx"} /\ op \notin Each
  BY SuiteFacts DEF Each
<1>1. /\ ins \in Seq(Sources) /\ Len(ins) \in Nat /\ DOMAIN ins = 1..Len(ins) /\ k \in Nat \ {0}
      /\ op # "merge" => 1 \in DOMAIN ins
  BY <1>0, InsAre
<1>2. \A i \in DOMAIN ins : PagesOf(ins[i]) \in Seq(T)
  BY InsPages
<1>3. k <= Steps(op, ins) /\ Opened(r) = Opens(op, ins, k)
  BY DEF Opened
<1> HIDE DEF op, ins, k, T
<1> DEFINE i == IF op = "merge" THEN k ELSE 1
           R == /\ Ideal(op, ins, 0) = <<>>
                /\ Opened(r) = <<>> => Ideal(op, ins, k) = Ideal(op, ins, k - 1)
                /\ Opened(r) # <<>> => /\ \/ Opened(r)[1] = ins[i]
                                          \/ op = "docx" /\ k = 2 /\ ins[1] \in Locked /\ Opened(r)[1] = Scratch(ins[1])
                                       /\ i \in DOMAIN ins
                                       /\ Ideal(op, ins, k) = Ideal(op, ins, k - 1) \o PagesOf(ins[i])
<1> SUFFICES R
  BY DEF op, ins, k
<1>4. CASE op = "merge"
  <2> DEFINE f == [n \in 1..Len(ins) |-> PagesOf(ins[n])]
             F(m) == FlattenSeq([n \in 1..m |-> f[n]])
  <2>1. \A m \in 0..Len(ins) : F(m) = FlattenSeq([n \in 1..m |-> PagesOf(ins[n])])
    <3> SUFFICES ASSUME NEW m \in 0..Len(ins) PROVE [n \in 1..m |-> f[n]] = [n \in 1..m |-> PagesOf(ins[n])]
      OBVIOUS
    <3> QED BY <1>1
  <2>2. \A m \in 0..Len(ins) : Ideal(op, ins, m) = F(m)
    <3>1. \A m \in 0..Len(ins) : m <= Len(ins) /\ m \in Nat
      BY <1>1
    <3>2. \A m \in 0..Len(ins) : (IF m < Len(ins) THEN m ELSE Len(ins)) = m
      <4> SUFFICES ASSUME NEW m \in 0..Len(ins), ~(m < Len(ins)) PROVE m = Len(ins)
        OBVIOUS
      <4>1. m \in Nat /\ m <= Len(ins) /\ Len(ins) \in Nat
        BY <1>1, <3>1
      <4> QED BY <4>1
    <3> QED BY <1>0, <1>4, <2>1, <3>2 DEF Ideal
  <2>3. Ideal(op, ins, Len(ins) + 1) = F(Len(ins))
    <3>1. ~(Len(ins) + 1 < Len(ins)) /\ Len(ins) \in 0..Len(ins)
      BY <1>1
    <3>2. (IF Len(ins) + 1 < Len(ins) THEN Len(ins) + 1 ELSE Len(ins)) = Len(ins)
      BY <3>1
    <3> QED BY <1>0, <1>4, <2>1, <3>1, <3>2 DEF Ideal
  <2>4. F(0) = <<>>
    <3>1. [n \in 1..0 |-> f[n]] = <<>>
      OBVIOUS
    <3> QED BY <3>1, FlattenNone
  <2>5. Steps(op, ins) = Len(ins) + 1 /\ Opens(op, ins, k) = IF k <= Len(ins) THEN <<ins[k]>> ELSE <<>>
    BY <1>4 DEF Steps, Opens
  <2>6. 0 \in 0..Len(ins)
    BY <1>1
  <2>7. CASE k <= Len(ins)
    <3>1. k \in DOMAIN ins /\ k - 1 \in Nat /\ (k - 1) + 1 = k /\ k \in 0..Len(ins) /\ k - 1 \in 0..Len(ins)
      BY <1>1, <2>7
    <3>2. \A n \in 1..((k - 1) + 1) : f[n] \in Seq(T)
      BY <1>1, <1>2, <2>7
    <3>3. f[k] = PagesOf(ins[k])
      BY <1>1, <3>1
    <3> HIDE DEF f
    <3>4. F((k - 1) + 1) = F(k - 1) \o f[(k - 1) + 1]
      BY <3>1, <3>2, FlattenMore
    <3>5. Ideal(op, ins, k) = Ideal(op, ins, k - 1) \o PagesOf(ins[k])
      BY <2>2, <3>1, <3>3, <3>4
    <3>6. Opened(r) = <<ins[k]>> /\ Opened(r) # <<>> /\ Opened(r)[1] = ins[k]
      BY <1>3, <2>5, <2>7
    <3>7. Ideal(op, ins, 0) = <<>>
      BY <2>2, <2>4, <2>6
    <3> QED BY <1>4, <3>1, <3>5, <3>6, <3>7
  <2>8. CASE ~(k <= Len(ins))
    <3>1. k = Len(ins) + 1 /\ k - 1 = Len(ins) /\ Len(ins) \in 0..Len(ins)
      BY <1>1, <1>3, <2>5, <2>8
    <3>2. Opened(r) = <<>>
      BY <1>3, <2>5, <2>8
    <3> QED BY <2>2, <2>3, <2>4, <2>6, <3>1, <3>2
  <2> QED BY <2>7, <2>8
<1>5. CASE op # "merge"
  <2>0. Ideal(op, ins, 0) = <<>> /\ 1 \in DOMAIN ins
    BY <1>0, <1>1, <1>5 DEF Ideal
  <2>1. CASE k = 1
    <3>1. k - 1 = 0 /\ Ideal(op, ins, k) = PagesOf(ins[1])
      BY <1>0, <1>5, <2>1 DEF Ideal
    <3>2. <<>> \o PagesOf(ins[1]) = PagesOf(ins[1])
      BY <1>2, <2>0
    <3>3. Opened(r) = <<ins[1]>> /\ Opened(r) # <<>> /\ Opened(r)[1] = ins[1]
      BY <1>0, <1>1, <1>3, <1>5, <2>1 DEF Opens
    <3> QED BY <1>5, <2>0, <3>1, <3>2, <3>3
  <2>2. CASE k # 1 /\ op # "docx"
    <3>1. k > 1 /\ k - 1 # 0 /\ k # 0
      BY <1>1, <2>2
    <3>2. Ideal(op, ins, k) = PagesOf(ins[1]) /\ Ideal(op, ins, k - 1) = PagesOf(ins[1])
      BY <1>0, <1>5, <2>2, <3>1 DEF Ideal
    <3>3. Opened(r) = <<>>
      BY <1>0, <1>3, <1>5, <2>2 DEF Opens
    <3> QED BY <2>0, <3>2, <3>3
  <2>3. CASE k # 1 /\ op = "docx"
    <3>1. k = 2 /\ k - 1 = 1
      BY <1>1, <1>3, <2>3 DEF Steps
    <3>2. Ideal(op, ins, k) = PagesOf(ins[1]) \o PagesOf(ins[1]) /\ Ideal(op, ins, k - 1) = PagesOf(ins[1])
      BY <1>0, <2>3, <3>1 DEF Ideal
    <3>3. Opened(r) = IF ins[1] \in Locked THEN <<Scratch(ins[1])>> ELSE <<ins[1]>>
      BY <1>3, <2>3, <3>1 DEF Opens
    <3>4. Opened(r) # <<>> /\ Opened(r)[1] = IF ins[1] \in Locked THEN Scratch(ins[1]) ELSE ins[1]
      BY <3>3
    <3> QED BY <2>0, <2>3, <3>1, <3>2, <3>4
  <2> QED BY <2>1, <2>2, <2>3
<1> QED BY <1>4, <1>5

-----------------------------------------------------------------------------
(* What a run that nobody disturbs has read and written.                   *)

Seen(r) == IF hand[r].at \in {"idle", "reading"} THEN run[r].k - 1 ELSE run[r].k
Clean(r, j) == run[r].op = "pack" \/ IF run[r].op \in Each THEN Untouched(Ins(r)[j]) ELSE Pristine(r)

LearnedRun(r) ==
    run[r].at # "none" /\ hand[r].at # "failed" =>
        /\ suite = "pdf" /\ Pristine(r) /\ (run[r].op = "docx" => Plain(r))
              => hand[r].got = Ideal(run[r].op, Ins(r), Seen(r))
        /\ run[r].op \in Each /\ Laden(r) /\ Untouched(Ins(r)[run[r].k])
              => LastOf(hand[r].got) = Ought(r, run[r].k)

\* The writes that are done, that a file is still its own, and that it is one.
Wrote(r, j, n) ==
    /\ j \in 1..Steps(run[r].op, Ins(r)) /\ n \in DOMAIN Asked(r, j)
    /\ \/ j < run[r].k
       \/ j = run[r].k /\ (hand[r].at = "ended" \/ (hand[r].at \in {"writing", "filling"} /\ n < hand[r].n))
Holds(r, q) == (q \in DOMAIN disk => disk[q].by = r) /\ (q[1] = "output" => q \in DOMAIN disk)
Made(r, q) ==
    /\ disk[q] = Whole(r, disk[q].pieces)
    /\ \E j, n \in Nat : /\ Wrote(r, j, n) /\ q = Asked(r, j)[n].to
                         /\ Clean(r, j) => disk[q].pieces = Asked(r, j)[n].pieces

WrittenRun(r) ==
    run[r].at # "none" /\ Plain(r) =>
        /\ hand[r].at # "failed" =>
              /\ \A q \in DOMAIN disk : disk[q].by = r =>
                    (hand[r].at \in {"filling", "encoding"} /\ q = Now(r).to) \/ Made(r, q)
              /\ \A j, n \in Nat : Wrote(r, j, n) => Holds(r, Asked(r, j)[n].to)
        /\ hand[r].at = "filling" \/ coder[r].at \in {"on", "ok"} => Holds(r, Now(r).to)
        /\ coder[r].at = "ok" => disk[Now(r).to] = Whole(r, Now(r).pieces)

-----------------------------------------------------------------------------
(* What comes of no overlap.                                               *)

LEMMA FilesBack ==
    ASSUME Base, Panel \/ Deletes
    PROVE  /\ \A x \in DOMAIN disk' : x \in DOMAIN disk /\ disk'[x] = disk[x]
           /\ \A x \in DOMAIN disk : x[1] = "output" => x \in DOMAIN disk'
<1>1. CASE Panel
  <2>1. disk' = disk
    BY <1>1 DEF Panel, AddFiles, RemoveFile, Move, ChangeOperation
  <2> QED BY <2>1
<1>2. CASE Deletes
  <2>1. \E p : disk' = Without(p) /\ p[1] # "output"
    BY <1>2 DEF Deletes, UserDeletes
  <2> QED BY <2>1, WithoutFacts
<1> QED BY <1>1, <1>2

\* A source that no run has written to by now had not been before.
LEMMA UntouchedBack ==
    ASSUME Base, Next, NEW p, Untouched(p)'
    PROVE  Untouched(p)
<1> SUFFICES ASSUME p[1] \in {"output", "temp"} PROVE Legible(p) /\ disk[p].by = 0
  BY DEF Untouched
<1>1. p \in DOMAIN disk' /\ disk'[p].whole /\ disk'[p].by = 0
  BY DEF Untouched, Legible
<1>2. CASE p \in DOMAIN disk /\ disk'[p] = disk[p]
  BY <1>1, <1>2 DEF Legible
<1>3. ASSUME NEW r \in Runs, disk'[p] = Partial(r) \/ disk'[p] = Whole(r, Now(r).pieces) PROVE FALSE
  <2>1. disk'[p].by = r
    BY <1>3 DEF Partial, Whole
  <2> QED BY <1>1, <2>1, RunsAre
<1>4. ASSUME NEW r \in Runs, Acts(r) PROVE Legible(p) /\ disk[p].by = 0
  <2>1. Typed /\ Own(r)
    BY DEF Base
  <2> QED BY <1>1, <1>2, <1>3, <1>4, <2>1, DiskEffect
<1> QED BY <1>1, <1>2, <1>4, NextIs, FilesBack DEF Acts

\* Beside a run whose threads nobody disturbs no other acts.
LEMMA PlainAlone ==
    ASSUME Base, NEW r \in Runs, NEW s \in Runs, Acts(s), run[r].at # "none", Plain(r)'
    PROVE  Plain(r) /\ s = r
<1>1. Typed /\ Order /\ Own(s) /\ Own(r)
  BY DEF Base
<1>2. \A q \in Runs : q \in Nat
  BY RunsAre
<1>3. \A q \in Runs : run'[q].at = "none" => run[q].at = "none"
  <2>1. \A q \in Runs \ {s} : run'[q] = run[q]
    BY <1>1, Others DEF Same
  <2> QED BY <1>1, <2>1, Acting
<1>4. r \notin mixed
  <2>1. CASE Begin(s)
    <3>1. mixed' = mixed \/ mixed' = mixed \cup {s}
      BY <1>1, <2>1, BeginDoes
    <3> QED BY <3>1 DEF Plain
  <2>2. CASE ~Begin(s)
    BY <1>1, <2>2, Acting DEF Plain
  <2> QED BY <2>1, <2>2
<1>5. Plain(r)
  BY <1>3, <1>4 DEF Plain
<1>6. s = r
  <2> SUFFICES ASSUME s # r PROVE FALSE
    OBVIOUS
  <2>1. CASE s > r
    <3>1. run'[s].at = "none"
      BY <2>1 DEF Plain
    <3> QED BY <1>1, <3>1, Acting
  <2>2. CASE s < r
    <3>1. ~Works(s) /\ run[s].at # "running" /\ run[s].at # "none"
      BY <1>1, <1>4, <2>2 DEF Order
    <3>2. hand[s].at # "encoding" /\ coder[s].at = "none"
      BY <1>1, <3>1 DEF Own, Works
    <3>3. ~Begin(s) /\ ~Abandon(s) /\ ~Call(s) /\ ~Relay(s) /\ ~Advance(s) /\ ~Fail(s) /\ ~Finish(s)
      BY <3>1 DEF Begin, Abandon, Call, Relay, Advance, Fail, Finish, InRun
    <3>4. ~Read(s) /\ ~ReadFails(s) /\ ~Truncate(s) /\ ~Close(s) /\ ~WriteFails(s) /\ ~Probe(s) /\ ~Spawn(s)
      BY <3>1 DEF Works, Read, ReadFails, Truncate, Close, WriteFails, Probe, Spawn
    <3>5. ~Break(s) /\ ~PumpLate(s) /\ ~Progress(s) /\ ~Complain(s) /\ ~Drain(s) /\ ~Pump(s) /\ ~Complete(s) /\ ~Wait(s)
      BY <3>2 DEF Break, PumpLate, Progress, Complain, Drain, Pump, Complete, Wait
    <3> QED BY <3>3, <3>4, <3>5, ActsAre
  <2>3. s \in Nat /\ r \in Nat
    BY <1>2
  <2> QED BY <2>1, <2>2, <2>3
<1> QED BY <1>5, <1>6

LEMMA PlainPanel ==
    ASSUME Panel \/ Deletes, NEW r
    PROVE  Plain(r)' <=> Plain(r)
<1>1. UNCHANGED <<run, mixed>>
  BY PanelSame
<1> QED BY <1>1 DEF Plain

LEMMA CleanBack ==
    ASSUME Base, Next, NEW r, run'[r].op = run[r].op, run'[r].ins = run[r].ins
    PROVE  (Pristine(r)' => Pristine(r)) /\ \A j : Clean(r, j)' => Clean(r, j)
<1>1. Ins(r)' = Ins(r)
  BY DEF Ins
<1>2. Pristine(r)' => Pristine(r)
  BY <1>1, UntouchedBack DEF Pristine
<1>3. ASSUME NEW j PROVE Untouched(Ins(r)[j])' => Untouched(Ins(r)[j])
  BY <1>1, UntouchedBack
<1> QED BY <1>1, <1>2, <1>3 DEF Clean

-----------------------------------------------------------------------------
(* What a thread is to write, and what it ought to.                        *)

LEMMA DueAsked ==
    ASSUME Base, NEW r \in Runs, run[r].at # "none"
    PROVE  /\ DOMAIN Due(r) = DOMAIN Asked(r, run[r].k)
           /\ \A n \in DOMAIN Due(r) : Due(r)[n].to = Asked(r, run[r].k)[n].to
           /\ run[r].op = "pack" => Due(r) = Asked(r, run[r].k)
  BY TargetsTo, OwnTypes DEF Due, Skipped, Asked, Ought, Base

LEMMA DueRight ==
    ASSUME Base, NEW r \in Runs, LearnedRun(r), Writing(r), Laden(r), Plain(r), Clean(r, run[r].k), NEW n \in DOMAIN Due(r)
    PROVE  Due(r)[n].pieces = Asked(r, run[r].k)[n].pieces
<1>1. Typed /\ Own(r)
  BY DEF Base
<1>2. run[r].at # "none" /\ run[r].op \in Suites[suite] /\ run[r].op \in Ops /\ hand[r].at # "failed" /\ suite \in DOMAIN Suites
  BY <1>1, NowPlace DEF Writing, Typed
<1>3. n \in DOMAIN Asked(r, run[r].k)
  BY <1>2, DueAsked
<1>4. CASE run[r].op = "pack"
  BY <1>2, <1>4, DueAsked
<1>5. CASE run[r].op \in Each
  <2>1. Untouched(Ins(r)[run[r].k]) /\ run[r].op # "pack"
    BY <1>5 DEF Clean, Each
  <2>2. LastOf(hand[r].got) = Ought(r, run[r].k)
    BY <1>2, <1>5, <2>1 DEF LearnedRun
  <2>3. run[r].k \in DOMAIN Ins(r)
    <3>1. suite \notin {"pdf", "packager"}
      BY <1>2, <1>5, SuiteFacts DEF Each
    <3>2. run[r].k <= Steps(run[r].op, Ins(r))
      BY <1>1 DEF Own, Writing, Works
    <3> QED BY <1>1, <1>2, <3>1, <3>2, OpensOne
  <2>4. LastOf(Ought(r, run[r].k)) = Ought(r, run[r].k)
    BY <1>1, <1>2, <1>5, <2>3, OughtOne
  <2>5. ~Skipped(r)
    BY DEF Due
  <2>6. Asked(r, run[r].k) = Targets(run[r].op, Ins(r), run[r].k, Ought(r, run[r].k))
    BY <2>5 DEF Asked, Skipped
  <2>7. run[r].op \in Suites["image"] \cup Suites["document"] \cup Suites["media"]
    BY <1>5, EachIs
  <2>8. Due(r)[n].pieces = LastOf(hand[r].got) /\ Asked(r, run[r].k)[n].pieces = LastOf(Ought(r, run[r].k))
    BY <1>3, <2>5, <2>6, <2>7, TargetsLast DEF Due
  <2> QED BY <2>2, <2>4, <2>8
<1>6. CASE run[r].op \in Suites["pdf"]
  <2>1. run[r].op \notin Each /\ run[r].op # "pack" /\ suite = "pdf"
    BY <1>2, <1>6, SuiteFacts DEF Each
  <2>2. hand[r].got = Ideal(run[r].op, Ins(r), run[r].k)
    BY <1>2, <2>1 DEF LearnedRun, Clean, Seen, Writing
  <2>3. run[r].op # "audio" /\ run[r].op # "mp4"
    BY <1>6, SuiteFacts
  <2> QED BY <2>1, <2>2, <2>3 DEF Due, Skipped, Asked, Ought
<1> QED BY <1>2, <1>4, <1>5, <1>6, EachIs

-----------------------------------------------------------------------------
(* What is read.                                                           *)

LEMMA IdealZero ==
    ASSUME NEW op \in Suites["pdf"], NEW ins \in Seq(Sources)
    PROVE  Ideal(op, ins, 0) = <<>>
<1>1. op \in {"merge", "split", "rotate", "images", "docx"} /\ op \notin Each
  BY SuiteFacts DEF Each
<1>2. CASE op = "merge"
  <2>1. (IF 0 < Len(ins) THEN 0 ELSE Len(ins)) = 0
    <3>1. Len(ins) \in Nat
      OBVIOUS
    <3> QED BY <3>1
  <2>2. [k \in 1..0 |-> PagesOf(ins[k])] = <<>>
    OBVIOUS
  <2>3. FlattenSeq([k \in 1..(IF 0 < Len(ins) THEN 0 ELSE Len(ins)) |-> PagesOf(ins[k])]) = <<>>
    BY <2>1, <2>2, FlattenNone
  <2> QED BY <1>1, <1>2, <2>3 DEF Ideal
<1>3. CASE op # "merge"
  BY <1>1, <1>3 DEF Ideal
<1> QED BY <1>2, <1>3

\* Only a read, or the start of a process, changes what has been read or brings the
\* thread to its writes; only a probe changes what is known of the clips.
LEMMA StepsOn ==
    ASSUME Typed, NEW r \in Runs, Own(r), Acts(r), ~Begin(r), ~Read(r)
    PROVE  /\ hand'[r].got = hand[r].got \/ (Spawn(r) /\ suite = "media")
           /\ hand'[r].unheard = hand[r].unheard \/ (Probe(r) /\ suite = "media")
           /\ Laden(r)' => /\ run'[r].k = run[r].k /\ hand'[r].unheard = hand[r].unheard
                            /\ \/ Laden(r) /\ hand'[r].got = hand[r].got
                               \/ Spawn(r) /\ hand'[r].got = Taking(r) /\ Legible(Clip(r))
           /\ hand'[r].at # "failed" =>
                 hand[r].at # "failed" /\ (ReadFails(r) \/ (Probe(r) /\ suite = "media") \/ Seen(r)' = Seen(r))
<1> USE DEF Place, Course, Laden, Seen, Own
<1>1. run[r].k \in Nat
  BY OwnTypes
<1>2. CASE Abandon(r)
  BY <1>2, AbandonDoes
<1>3. CASE Break(r)
  BY <1>3, BreakDoes
<1>4. CASE PumpLate(r)
  BY <1>4, PumpLateDoes
<1>5. CASE Call(r)
  BY <1>5, CallDoes
<1>6. CASE Relay(r)
  BY <1>6, RelayDoes
<1>7. CASE Advance(r)
  <2>1. (run[r].k + 1) - 1 = run[r].k
    BY <1>1
  <2> QED BY <1>7, <2>1, AdvanceDoes
<1>8. CASE Fail(r) \/ Finish(r)
  BY <1>8, EndDoes
<1>9. CASE ReadFails(r)
  BY <1>9, ReadFailsDoes
<1>10. CASE Truncate(r)
  BY <1>10, TruncateDoes
<1>11. CASE Close(r)
  BY <1>11, CloseDoes
<1>12. CASE WriteFails(r)
  BY <1>12, WriteFailsDoes
<1>13. CASE Spawn(r)
  BY <1>13, SpawnDoes
<1>17. CASE Probe(r)
  BY <1>17, ProbeDoes
<1>14. CASE Progress(r) \/ Complain(r) \/ Drain(r) \/ Pump(r)
  BY <1>14, EncodingDoes
<1>15. CASE Complete(r)
  BY <1>15, CompleteDoes
<1>16. CASE Wait(r)
  BY <1>16, WaitDoes
<1> QED BY <1>2, <1>3, <1>4, <1>5, <1>6, <1>7, <1>8, <1>9, <1>10, <1>11, <1>12, <1>13, <1>14, <1>15, <1>16, <1>17, ActsAre

\* The unlocked copy a document's second step opens is the one its first wrote.
LEMMA UnlockedCopy ==
    ASSUME Base, NEW r \in Runs, WrittenRun(r), Plain(r), Pristine(r), run[r].at # "none", run[r].op = "docx",
           hand[r].at = "reading", run[r].k = 2, Ins(r)[1] \in Locked, Legible(Scratch(Ins(r)[1]))
    PROVE  disk[Scratch(Ins(r)[1])].pieces = PagesOf(Ins(r)[1])
<1> DEFINE q == Scratch(Ins(r)[1])
           w == Write(q, PagesOf(Ins(r)[1]))
<1>1. q \in DOMAIN disk
  BY DEF Legible
<1>2. Asked(r, 1) = <<w>>
  <2>1. Ideal("docx", Ins(r), 1) = PagesOf(Ins(r)[1])
    BY DEF Ideal, Each
  <2>2. Asked(r, 1) = ToDocx(Ins(r), 1, PagesOf(Ins(r)[1]))
    BY <2>1 DEF Asked, Ought, Targets
  <2> QED BY <2>2 DEF ToDocx
<1>3. 1 \in 1..Steps(run[r].op, Ins(r)) /\ 1 < run[r].k
  BY DEF Steps
<1>4. Wrote(r, 1, 1) /\ Asked(r, 1)[1] = w
  BY <1>2, <1>3 DEF Wrote
<1>5. Holds(r, q)
  <2>1. Holds(r, Asked(r, 1)[1].to)
    BY <1>4 DEF WrittenRun
  <2>2. w.to = q
    BY DEF Write
  <2> HIDE DEF w, q
  <2> QED BY <1>4, <2>1, <2>2
<1>6. Made(r, q)
  <2>1. disk[q].by = r
    BY <1>1, <1>5 DEF Holds
  <2> HIDE DEF q
  <2> QED BY <1>1, <2>1 DEF WrittenRun
<1>7. PICK j \in Nat, n \in Nat : Wrote(r, j, n) /\ q = Asked(r, j)[n].to /\ (Clean(r, j) => disk[q].pieces = Asked(r, j)[n].pieces)
  <2> HIDE DEF q
  <2> QED BY <1>6 DEF Made
<1>8. j = 1
  <2>1. j \in 1..Steps(run[r].op, Ins(r)) /\ j < 2
    BY <1>7 DEF Wrote
  <2> QED BY <2>1
<1>9. n = 1
  <2>1. n \in DOMAIN Asked(r, 1)
    BY <1>7, <1>8 DEF Wrote
  <2> HIDE DEF w
  <2> QED BY <1>2, <2>1
<1>10. Clean(r, j)
  BY DEF Clean, Each
<1>11. disk[q].pieces = w.pieces
  <2> HIDE DEF q, w
  <2> QED BY <1>4, <1>7, <1>8, <1>9, <1>10
<1> QED BY <1>11 DEF Write

LEMMA LastOfMore ==
    ASSUME NEW T, NEW a \in Seq(T), NEW b \in Seq(T), Len(b) = 1
    PROVE  LastOf(a \o b) = LastOf(b)
<1>1. Len(a) \in Nat /\ Len(a \o b) = Len(a) + 1
  <2>1. Len(a \o b) = Len(a) + Len(b) /\ Len(a) \in Nat
    BY ConcatProperties
  <2> QED BY <2>1
<1>2. (a \o b)[Len(a) + 1] = b[1]
  BY <1>1
<1> QED BY <1>1, <1>2 DEF LastOf

LEMMA LearnedReads ==
    ASSUME Base, NEW r \in Runs, LearnedRun(r), WrittenRun(r), Read(r)
    PROVE  /\ suite = "pdf" /\ Pristine(r) /\ (run[r].op = "docx" => Plain(r))
                 => Gained(r) = Ideal(run[r].op, Ins(r), run[r].k)
           /\ run[r].op \in Each /\ Untouched(Ins(r)[run[r].k]) => LastOf(Gained(r)) = PagesOf(Ins(r)[run[r].k])
<1>1. Typed /\ Own(r) /\ TextedRun(r)
  BY DEF Base
<1>2. hand[r].at = "reading" /\ \A p \in ToSet(Opened(r)) : Legible(p)
  BY <1>1, ReadDoes
<1>3. run[r].at # "none" /\ run[r].k <= Steps(run[r].op, Ins(r)) /\ suite \in DOMAIN Suites /\ run[r].op \in Suites[suite]
  BY <1>1, <1>2 DEF Own, Works, NoHand, Typed
<1>4. ASSUME Opened(r) # <<>> PROVE Legible(Opened(r)[1])
  <2>1. \E x : Opened(r) = <<x>>
    BY <1>4 DEF Opened, Opens
  <2>2. Opened(r)[1] \in ToSet(Opened(r))
    BY <2>1 DEF ToSet
  <2> QED BY <1>2, <2>2
<1>5. ASSUME suite = "pdf", Pristine(r), run[r].op = "docx" => Plain(r)
      PROVE  Gained(r) = Ideal(run[r].op, Ins(r), run[r].k)
  <2>1. run[r].op \in Suites["pdf"]
    BY <1>3, <1>5
  <2>2. hand[r].got = Ideal(run[r].op, Ins(r), run[r].k - 1)
    BY <1>2, <1>3, <1>5 DEF LearnedRun, Seen
  <2>3. CASE Opened(r) = <<>>
    BY <1>1, <1>3, <2>1, <2>2, <2>3, IdealMore DEF Gained
  <2>4. CASE Opened(r) # <<>>
    <3> DEFINE i == IF run[r].op = "merge" THEN run[r].k ELSE 1
    <3>1. /\ \/ Opened(r)[1] = Ins(r)[i]
             \/ run[r].op = "docx" /\ run[r].k = 2 /\ Ins(r)[1] \in Locked /\ Opened(r)[1] = Scratch(Ins(r)[1])
          /\ i \in DOMAIN Ins(r)
          /\ Ideal(run[r].op, Ins(r), run[r].k) = Ideal(run[r].op, Ins(r), run[r].k - 1) \o PagesOf(Ins(r)[i])
      BY <1>1, <1>3, <2>1, <2>4, IdealMore
    <3>2. disk[Opened(r)[1]].pieces = PagesOf(Ins(r)[i])
      <4>1. CASE Opened(r)[1] = Ins(r)[i]
        <5>1. Untouched(Ins(r)[i])
          BY <1>5, <3>1 DEF Pristine
        <5>2. Legible(Ins(r)[i])
          BY <1>4, <2>4, <4>1
        <5> HIDE DEF i
        <5> QED BY <4>1, <5>1, <5>2, ReadsPages
      <4>2. CASE run[r].op = "docx" /\ run[r].k = 2 /\ Ins(r)[1] \in Locked /\ Opened(r)[1] = Scratch(Ins(r)[1])
        <5>1. Legible(Scratch(Ins(r)[1])) /\ Plain(r)
          BY <1>4, <1>5, <2>4, <4>2
        <5>2. disk[Scratch(Ins(r)[1])].pieces = PagesOf(Ins(r)[1])
          BY <1>2, <1>3, <1>5, <4>2, <5>1, UnlockedCopy
        <5> QED BY <4>2, <5>2
      <4> QED BY <3>1, <4>1, <4>2
    <3>3. Gained(r) = hand[r].got \o disk[Opened(r)[1]].pieces
      BY <2>4 DEF Gained
    <3> QED BY <2>2, <3>1, <3>2, <3>3
  <2> QED BY <2>3, <2>4
<1>6. ASSUME run[r].op \in Each, Untouched(Ins(r)[run[r].k])
      PROVE  LastOf(Gained(r)) = PagesOf(Ins(r)[run[r].k])
  <2>1. suite \notin {"pdf", "packager"}
    BY <1>3, <1>6, SuiteFacts DEF Each
  <2>2. Opened(r) = <<Ins(r)[run[r].k]>> /\ run[r].k \in DOMAIN Ins(r)
    BY <1>1, <1>3, <2>1, OpensOne
  <2>3. Opened(r) # <<>> /\ Opened(r)[1] = Ins(r)[run[r].k]
    BY <2>2
  <2>4. disk[Ins(r)[run[r].k]].pieces = PagesOf(Ins(r)[run[r].k])
    <3>1. Legible(Ins(r)[run[r].k])
      BY <1>4, <2>3
    <3> QED BY <1>6, <3>1, ReadsPages
  <2> DEFINE a == hand[r].got
             b == PagesOf(Ins(r)[run[r].k])
             T == (Sources \cup {Heading}) \X Nat
  <2>5. Gained(r) = a \o b
    BY <2>3, <2>4 DEF Gained
  <2>6. b \in Seq(Sources \X Nat) /\ Len(b) = 1 /\ LastOf(b) = b
    BY <1>1, <1>3, <1>6, <2>2, InsPages
  <2>7. a \in Seq(T) /\ b \in Seq(T)
    <3>1. a \in Seq(Texts)
      BY <1>1, <2>1 DEF TextedRun
    <3>2. Texts \subseteq T /\ Sources \X Nat \subseteq T
      BY <1>3, SuiteFacts DEF Texts
    <3> HIDE DEF a, b, T
    <3> QED BY <2>6, <3>1, <3>2
  <2> HIDE DEF a, b
  <2>8. LastOf(a \o b) = LastOf(b)
    BY <2>6, <2>7, LastOfMore
  <2> QED BY <2>5, <2>6, <2>8 DEF b
<1> QED BY <1>5, <1>6

LEMMA LearnedTakes ==
    ASSUME Base, NEW r \in Runs, Spawn(r), Legible(Clip(r)), Untouched(Ins(r)[run[r].k])
    PROVE  LastOf(Taking(r)) = Ought(r, run[r].k)
<1>1. Typed /\ Own(r) /\ TextedRun(r)
  BY DEF Base
<1>2. hand[r].at = "probed" /\ suite = "media" /\ run[r].at # "none" /\ run[r].op \in Suites["media"]
  <2>1. hand[r].at = "probed"
    BY <1>1, SpawnDoes
  <2> QED BY <1>1, <2>1 DEF Own, NoHand
<1>3. run[r].op \in Each /\ run[r].k <= Steps(run[r].op, Ins(r))
  BY <1>1, <1>2, EachIs DEF Own, Works
<1>4. Opened(r) = <<Ins(r)[run[r].k]>> /\ run[r].k \in DOMAIN Ins(r)
  BY <1>1, <1>2, <1>3, OpensOne
<1>5. Clip(r) = Ins(r)[run[r].k]
  BY <1>4 DEF Clip
<1>6. disk[Clip(r)].pieces = PagesOf(Ins(r)[run[r].k])
  BY <1>5, ReadsPages
<1> DEFINE a == hand[r].got
           b == Ought(r, run[r].k)
           T == (Sources \cup {Heading}) \X Nat
<1>7. b \in Seq(Sources \X Nat) /\ Len(b) = 1 /\ LastOf(b) = b /\ Taken(r) = b
  BY <1>1, <1>2, <1>3, <1>4, <1>6, OughtOne DEF Taken
<1>8. Taking(r) = a \o b
  BY <1>7 DEF Taking
<1>9. a \in Seq(T) /\ b \in Seq(T)
  <2>1. a \in Seq(Texts)
    BY <1>1, <1>2 DEF TextedRun
  <2>2. Texts \subseteq T /\ Sources \X Nat \subseteq T
    BY <1>2, SuiteFacts DEF Texts
  <2> HIDE DEF a, b, T
  <2> QED BY <1>7, <2>1, <2>2
<1> HIDE DEF a, b
<1> QED BY <1>7, <1>8, <1>9, LastOfMore DEF b

LEMMA LearnedNext ==
    ASSUME Base, NEW r \in Runs, LearnedRun(r), WrittenRun(r), Acts(r)
    PROVE  LearnedRun(r)'
<1>1. Typed /\ Own(r) /\ Next
  BY NextIs DEF Base, Acts
<1>2. suite' = suite
  BY <1>1, Acting
<1>3. CASE Begin(r)
  <2>1. hand'[r] = NoHand /\ run'[r].k = 1 /\ run'[r].op = form.op /\ Ins(r)' = form.files
    BY <1>1, <1>3, BeginDoes DEF Own, Ins
  <2>2. form.op \in Suites[suite] /\ form.files \in Seq(Sources)
    <3>1. form.op \in Suites[suite] /\ form.files \in Seq(SourcesOf(suite)) /\ SourcesOf(suite) \subseteq Sources
      BY <1>1, SuiteFacts DEF Typed
    <3> QED BY <3>1
  <2>3. Seen(r)' = 0 /\ ~Laden(r)' /\ hand'[r].got = <<>>
    BY <1>1, <1>3, <2>1, BeginDoes DEF Seen, Laden, NoHand, Own
  <2>4. suite = "pdf" => Ideal(form.op, form.files, 0) = <<>>
    BY <2>2, IdealZero
  <2> QED BY <1>2, <2>1, <2>3, <2>4 DEF LearnedRun
<1>4. CASE ~Begin(r)
  <2>1. run[r].at # "none" /\ run'[r].op = run[r].op /\ run'[r].ins = run[r].ins /\ Ins(r)' = Ins(r)
    BY <1>1, <1>4, Acting DEF Ins
  <2>2. /\ Pristine(r)' => Pristine(r)
        /\ \A p : Untouched(p)' => Untouched(p)
        /\ Plain(r)' => Plain(r)
    BY <1>1, <2>1, CleanBack, UntouchedBack, PlainAlone
  <2>3. CASE Read(r)
    <3>1. /\ hand'[r].got = Gained(r) /\ run' = run
          /\ hand[r].at = "reading" /\ hand'[r].at \in {"ended", "writing"} /\ suite # "media"
      BY <1>1, <2>3, ReadDoes
    <3>2. Seen(r)' = run[r].k
      BY <3>1 DEF Seen
    <3>3. /\ suite = "pdf" /\ Pristine(r)' /\ (run'[r].op = "docx" => Plain(r)') => hand'[r].got = Ideal(run'[r].op, Ins(r)', Seen(r)')
          /\ run'[r].op \in Each /\ Untouched(Ins(r)[run[r].k])' => LastOf(hand'[r].got) = PagesOf(Ins(r)[run[r].k])
      BY <2>1, <2>2, <2>3, <3>1, <3>2, LearnedReads
    <3>4. run[r].op \in Each => Ought(r, run[r].k)' = PagesOf(Ins(r)[run[r].k])
      <4>1. run[r].op # "mp4"
        <5>1. suite \in DOMAIN Suites /\ run[r].op \in Suites[suite]
          BY <1>1, <2>1 DEF Own, Typed
        <5> QED BY <3>1, <5>1, SuiteFacts
      <4>2. run'[r].k = run[r].k
        BY <3>1
      <4> QED BY <2>1, <4>1, <4>2 DEF Ought, Ideal, Each
    <3> QED BY <1>2, <2>1, <3>1, <3>3, <3>4 DEF LearnedRun
  <2>4. CASE ~Read(r)
    <3>1. /\ suite = "pdf" => hand'[r].got = hand[r].got
          /\ Laden(r)' => /\ run'[r].k = run[r].k /\ hand'[r].unheard = hand[r].unheard
                           /\ \/ Laden(r) /\ hand'[r].got = hand[r].got
                              \/ Spawn(r) /\ hand'[r].got = Taking(r) /\ Legible(Clip(r))
          /\ hand'[r].at # "failed" => hand[r].at # "failed" /\ (suite = "pdf" => ReadFails(r) \/ Seen(r)' = Seen(r))
      BY <1>1, <1>4, <2>4, StepsOn
    <3>2. ReadFails(r) /\ hand'[r].at # "failed" => suite # "pdf"
      BY <1>1, ReadFailsDoes DEF Place
    <3>3. ASSUME hand'[r].at # "failed", suite = "pdf", Pristine(r)', run'[r].op = "docx" => Plain(r)'
          PROVE  hand'[r].got = Ideal(run'[r].op, Ins(r)', Seen(r)')
      BY <2>1, <2>2, <3>1, <3>2, <3>3 DEF LearnedRun
    <3>4. ASSUME hand'[r].at # "failed", run'[r].op \in Each, Laden(r)', Untouched(Ins(r)[run[r].k])'
          PROVE  LastOf(hand'[r].got) = Ought(r, run[r].k)'
      <4>1. Ought(r, run[r].k)' = Ought(r, run[r].k)
        BY <2>1, <3>1, <3>4 DEF Ought, Each
      <4>2. Untouched(Ins(r)[run[r].k])
        <5>1. \A p : p = Ins(r)[run[r].k] /\ Untouched(p)' => Untouched(p)
          BY <2>2
        <5>2. run'[r].k = run[r].k
          BY <3>1, <3>4
        <5> QED BY <2>1, <3>4, <5>1, <5>2 DEF Untouched, Legible
      <4>3. CASE Laden(r) /\ hand'[r].got = hand[r].got
        BY <2>1, <3>1, <3>4, <4>1, <4>2, <4>3 DEF LearnedRun
      <4>4. CASE Spawn(r) /\ hand'[r].got = Taking(r) /\ Legible(Clip(r))
        BY <4>1, <4>2, <4>4, LearnedTakes
      <4> QED BY <3>1, <3>4, <4>3, <4>4
    <3> QED BY <1>2, <2>1, <3>1, <3>3, <3>4 DEF LearnedRun
  <2> QED BY <2>3, <2>4
<1> QED BY <1>3, <1>4

-----------------------------------------------------------------------------
(* What is written.                                                        *)

LEMMA AskedList ==
    ASSUME Base, NEW r \in Runs, run[r].at # "none"
    PROVE  /\ IsList(Due(r)) /\ \A n \in DOMAIN Asked(r, run[r].k) : n \in Nat \ {0}
           /\ DOMAIN Due(r) = DOMAIN Asked(r, run[r].k)
<1>1. run[r].op \in Suites[suite] /\ Typed
  BY DEF Base, Own
<1>2. IsList(Due(r))
  BY <1>1, DueList DEF Base, TextedRun, Due, IsList
<1> QED BY <1>2, DueAsked DEF IsList

\* The packager has no target before its last step, and then nothing to read.
LEMMA PackAsks ==
    ASSUME Base, NEW r \in Runs, run[r].op = "pack"
    PROVE  /\ \A j : j <= Len(Ins(r)) => Asked(r, j) = <<>>
           /\ Opened(r) # <<>> => run[r].k <= Len(Ins(r))
           /\ Opened(r) = <<>> => Gained(r) = hand[r].got
<1>1. \A j : j <= Len(Ins(r)) => Asked(r, j) = <<>>
  BY DEF Asked, Ought, Targets, WriteChunks
<1>2. Opened(r) # <<>> => run[r].k <= Len(Ins(r))
  BY DEF Opened, Opens
<1> QED BY <1>1, <1>2 DEF Gained

LEMMA AskedStays ==
    ASSUME Base, NEW r \in Runs, Acts(r), ~Begin(r)
    PROVE  /\ \A j \in Nat : j < run[r].k \/ (j = run[r].k /\ hand'[r].unheard = hand[r].unheard) => Asked(r, j)' = Asked(r, j)
           /\ Steps(run[r].op, Ins(r))' = Steps(run[r].op, Ins(r))
<1>1. Typed /\ Own(r)
  BY DEF Base
<1>2. run'[r].op = run[r].op /\ Ins(r)' = Ins(r) /\ run[r].at # "none"
  BY <1>1, Acting DEF Ins
<1>3. Steps(run[r].op, Ins(r))' = Steps(run[r].op, Ins(r))
  BY <1>2
<1>4. CASE run[r].op # "pack"
  <2>1. hand'[r].unheard = hand[r].unheard \/ hand'[r].unheard = hand[r].unheard \cup {run[r].k}
    <3>1. Read(r) => hand'[r].unheard = hand[r].unheard
      BY <1>1, ReadDoes
    <3>2. Probe(r) => hand'[r].unheard = hand[r].unheard \/ hand'[r].unheard = hand[r].unheard \cup {run[r].k}
      BY <1>1, ProbeDoes
    <3> QED BY <1>1, <3>1, <3>2, StepsOn
  <2>2. ASSUME NEW j \in Nat, j < run[r].k \/ (j = run[r].k /\ hand'[r].unheard = hand[r].unheard)
        PROVE  Asked(r, j)' = Asked(r, j)
    <3>1. run[r].k \in Nat
      BY <1>1, OwnTypes
    <3>2. j \in hand'[r].unheard <=> j \in hand[r].unheard
      BY <2>1, <2>2, <3>1
    <3> QED BY <1>2, <1>4, <3>2 DEF Asked, Ought
  <2> QED BY <1>3, <2>2
<1>5. CASE run[r].op = "pack" /\ ~Read(r)
  <2>1. hand'[r].got = hand[r].got
    <3>1. suite # "media"
      BY <1>1, <1>2, <1>5, SuiteFacts DEF Own
    <3> QED BY <1>1, <1>5, <3>1, StepsOn
  <2>2. ASSUME NEW j \in Nat PROVE Asked(r, j)' = Asked(r, j)
    BY <1>2, <1>5, <2>1 DEF Asked, Ought
  <2> QED BY <1>3, <2>2
<1>6. CASE run[r].op = "pack" /\ Read(r)
  <2>1. hand'[r].got = Gained(r)
    BY <1>1, <1>6, ReadDoes
  <2>2. CASE Opened(r) = <<>>
    <3>1. hand'[r].got = hand[r].got
      BY <1>6, <2>1, <2>2, PackAsks
    <3> QED BY <1>2, <1>3, <1>6, <3>1 DEF Asked, Ought
  <2>3. CASE Opened(r) # <<>>
    <3>1. run[r].k <= Len(Ins(r)) /\ run[r].k \in Nat /\ Len(Ins(r)) \in Nat
      BY <1>1, <1>2, <1>6, <2>3, PackAsks, InsAre
    <3>2. \A j \in Nat : j < run[r].k \/ j = run[r].k => j <= Len(Ins(r))
      BY <3>1
    <3>3. \A j \in Nat : j < run[r].k \/ j = run[r].k => Asked(r, j) = <<>>
      BY <1>6, <3>2, PackAsks
    <3>4. \A j \in Nat : j < run[r].k \/ j = run[r].k => Asked(r, j)' = <<>>
      <4> SUFFICES ASSUME NEW j \in Nat, j <= Len(Ins(r)) PROVE Asked(r, j)' = <<>>
        BY <3>2
      <4>1. Asked(r, j)' = WriteChunks(Ins(r), j, hand'[r].got)
        BY <1>2, <1>6 DEF Asked, Ought, Targets
      <4> QED BY <4>1 DEF WriteChunks
    <3> QED BY <1>3, <1>6, <3>3, <3>4
  <2> QED BY <2>2, <2>3
<1> QED BY <1>4, <1>5, <1>6

\* The file that a step finishes is the one it is at.
Finishes(r) == Close(r) \/ (Wait(r) /\ hand'[r].at = "ended")

LEMMA WroteNext ==
    ASSUME Base, NEW r \in Runs, Acts(r), ~Begin(r), hand'[r].at # "failed", NEW j \in Nat, NEW n \in Nat
    PROVE  /\ Wrote(r, j, n)' <=> Wrote(r, j, n) \/ (Finishes(r) /\ j = run[r].k /\ n = hand[r].n)
           /\ Wrote(r, j, n)' => Asked(r, j)' = Asked(r, j)
<1>1. Typed /\ Own(r)
  BY DEF Base
<1>2. run'[r].op = run[r].op /\ Ins(r)' = Ins(r) /\ run[r].at # "none"
  BY <1>1, Acting DEF Ins
<1>3. /\ Steps(run[r].op, Ins(r))' = Steps(run[r].op, Ins(r)) /\ run[r].k \in Nat
      /\ j < run[r].k \/ (j = run[r].k /\ hand'[r].unheard = hand[r].unheard) => Asked(r, j)' = Asked(r, j)
      /\ \A m \in DOMAIN Asked(r, run[r].k) : m \in Nat \ {0}
      /\ IsList(Due(r)) /\ DOMAIN Due(r) = DOMAIN Asked(r, run[r].k)
      /\ hand[r].n \in Nat
  BY <1>1, <1>2, AskedStays, AskedList, OwnTypes
<1> DEFINE S == Steps(run[r].op, Ins(r))
           k == run[r].k
           In(m) == hand[r].at = "ended" \/ (hand[r].at \in {"writing", "filling"} /\ m < hand[r].n)
           Then(m) == hand'[r].at = "ended" \/ (hand'[r].at \in {"writing", "filling"} /\ m < hand'[r].n)
           W == j \in 1..S /\ n \in DOMAIN Asked(r, j) /\ (j < k \/ (j = k /\ In(n)))
<1>4. Wrote(r, j, n) <=> W
  BY DEF Wrote
<1>5. Wrote(r, j, n)' <=> j \in 1..S /\ n \in DOMAIN Asked(r, j)' /\ (j < run'[r].k \/ (j = run'[r].k /\ Then(n)))
  BY <1>3 DEF Wrote
<1> SUFFICES /\ Wrote(r, j, n)' <=> W \/ (Finishes(r) /\ j = k /\ n = hand[r].n)
             /\ Wrote(r, j, n)' => Asked(r, j)' = Asked(r, j)
  BY <1>4
<1> HIDE DEF S, In, Then
<1>6. ASSUME run'[r].k = k, hand'[r].unheard = hand[r].unheard, ~Finishes(r), n \in DOMAIN Asked(r, k) => (Then(n) <=> In(n))
      PROVE  /\ Wrote(r, j, n)' <=> W \/ (Finishes(r) /\ j = k /\ n = hand[r].n)
             /\ Wrote(r, j, n)' => Asked(r, j)' = Asked(r, j)
  BY <1>3, <1>5, <1>6
<1>7. ASSUME run'[r].k = k, hand'[r].unheard = hand[r].unheard, Finishes(r), n \in DOMAIN Asked(r, k) => (Then(n) <=> In(n) \/ n = hand[r].n),
             k \in 1..S, hand[r].n \in DOMAIN Asked(r, k)
      PROVE  /\ Wrote(r, j, n)' <=> W \/ (Finishes(r) /\ j = k /\ n = hand[r].n)
             /\ Wrote(r, j, n)' => Asked(r, j)' = Asked(r, j)
  BY <1>3, <1>5, <1>7
<1>8. ASSUME hand'[r].at = hand[r].at \/ (hand[r].at = "writing" /\ hand'[r].at = "filling")
                \/ (hand[r].at \in {"idle", "probed"} /\ hand'[r].at \in {"reading", "encoding"}),
             hand'[r].n = hand[r].n, run'[r].k = k, hand'[r].at # "ended" \/ hand[r].at = "ended"
      PROVE  n \in DOMAIN Asked(r, k) => (Then(n) <=> In(n))
  BY <1>8 DEF In, Then
<1>9. CASE Abandon(r) \/ Break(r) \/ Call(r) \/ Relay(r) \/ (Fail(r) \/ Finish(r))
  <2>1. ~Finishes(r)
    <3>1. hand'[r].at # "ended" \/ hand[r].at = "ended"
      BY <1>1, <1>9, AbandonDoes, BreakDoes, CallDoes, RelayDoes, EndDoes DEF Place
    <3>2. Close(r) => hand'[r].at \in {"ended", "writing"} /\ hand[r].at = "filling"
      BY <1>1, CloseDoes
    <3>3. Wait(r) => hand[r].at = "encoding"
      BY <1>1, WaitDoes
    <3>4. hand'[r].at = hand[r].at \/ hand'[r].at = "reading"
      BY <1>1, <1>9, AbandonDoes, BreakDoes, CallDoes, RelayDoes, EndDoes DEF Place
    <3> QED BY <3>1, <3>2, <3>3, <3>4 DEF Finishes
  <2>2. /\ hand'[r].at = hand[r].at \/ (hand[r].at = "idle" /\ hand'[r].at = "reading")
        /\ hand'[r].n = hand[r].n /\ hand'[r].unheard = hand[r].unheard /\ run'[r].k = k
    BY <1>1, <1>9, AbandonDoes, BreakDoes, CallDoes, RelayDoes, EndDoes DEF Place, Course
  <2> QED BY <1>6, <1>8, <2>1, <2>2
<1>10. CASE Advance(r)
  <2>1. hand[r].at = "ended" /\ hand'[r].at = "idle" /\ run'[r].k = k + 1 /\ hand'[r].unheard = hand[r].unheard
    BY <1>1, <1>10, AdvanceDoes
  <2>2. ~Finishes(r)
    BY <1>1, <2>1, CloseDoes DEF Finishes
  <2>3. ~Then(n) /\ In(n)
    BY <2>1 DEF Then, In
  <2>4. j < k + 1 <=> j < k \/ j = k
    BY <1>3
  <2> QED BY <1>3, <1>5, <2>1, <2>2, <2>3, <2>4
<1>11. CASE Read(r)
  <2>1. /\ hand[r].at = "reading" /\ hand'[r].n = hand[r].n /\ run'[r].k = k /\ hand'[r].unheard = hand[r].unheard
        /\ hand'[r].at = IF DueThen(r) = <<>> THEN "ended" ELSE "writing"
        /\ run[r].op # "audio"
    <3>1. Read(r) => suite # "media"
      BY <1>1, ReadDoes
    <3>2. suite \in DOMAIN Suites /\ run[r].op \in Suites[suite]
      BY <1>1, <1>2 DEF Own, Typed
    <3>3. run[r].op # "audio"
      BY <1>11, <3>1, <3>2, SuiteFacts
    <3> QED BY <1>1, <1>11, <3>3, ReadDoes
  <2>2. ~Finishes(r) /\ hand[r].n = 1 /\ ~In(n)
    <3>1. ~Close(r) /\ ~Wait(r)
      BY <2>1 DEF Close, Wait
    <3> QED BY <1>1, <2>1, <3>1 DEF Finishes, Own, In
  <2>3. n \in DOMAIN Asked(r, k) => ~(n < 1) /\ DueThen(r) # <<>>
    <3>1. n \in DOMAIN Asked(r, k) => n # 0
      BY <1>3
    <3>2. DueThen(r) = <<>> => DOMAIN Asked(r, k) = {}
      <4>2. CASE run[r].op # "pack"
        <5>1. DOMAIN Asked(r, k) = DOMAIN DueThen(r)
          BY <1>1, <2>1, <4>2, TargetsTo, OwnTypes DEF Asked, DueThen
        <5> QED BY <5>1
      <4>3. CASE run[r].op = "pack"
        <5>1. k <= Len(Ins(r)) => Asked(r, k) = <<>>
          BY <4>3, PackAsks
        <5>2. Opened(r) = <<>> => DueThen(r) = Asked(r, k)
          <6>1. Opened(r) = <<>> => Gained(r) = hand[r].got
            BY <4>3, PackAsks
          <6> QED BY <4>3, <6>1 DEF DueThen, Asked, Ought
        <5>3. Opened(r) # <<>> => k <= Len(Ins(r))
          BY <4>3, PackAsks
        <5> QED BY <5>1, <5>2, <5>3
      <4> QED BY <4>2, <4>3
    <3> QED BY <3>1, <3>2
  <2>4. n \in DOMAIN Asked(r, k) => ~Then(n)
    BY <2>1, <2>2, <2>3 DEF Then
  <2> QED BY <1>6, <2>1, <2>2, <2>4
<1>12. CASE ReadFails(r)
  <2>1. hand[r].at = "reading" /\ hand'[r].n = hand[r].n /\ run'[r].k = k /\ hand'[r].unheard = hand[r].unheard /\ Opened(r) # <<>> /\ suite = "packager"
    BY <1>1, <1>12, ReadFailsDoes DEF Place
  <2>2. ~Finishes(r)
    <3>1. ~Close(r) /\ ~Wait(r)
      BY <2>1 DEF Close, Wait
    <3> QED BY <3>1 DEF Finishes
  <2>3. Asked(r, k) = <<>>
    <3>1. run[r].op = "pack"
      BY <1>1, <1>2, <2>1, SuiteFacts DEF Own
    <3> QED BY <2>1, <3>1, PackAsks
  <2>4. n \notin DOMAIN Asked(r, k)
    BY <2>3
  <2> QED BY <1>6, <2>1, <2>2, <2>4
<1>13. CASE Truncate(r)
  <2>1. hand[r].at = "writing" /\ hand'[r].at = "filling" /\ hand'[r].n = hand[r].n /\ hand'[r].unheard = hand[r].unheard /\ run'[r].k = k
    BY <1>1, <1>13, TruncateDoes DEF Place
  <2>2. ~Finishes(r)
    BY <2>1 DEF Finishes, Close
  <2> QED BY <1>6, <1>8, <2>1, <2>2
<1>14. CASE Close(r)
  <2>1. /\ hand[r].at = "filling" /\ hand'[r].n = hand[r].n + 1 /\ run'[r].k = k /\ hand'[r].unheard = hand[r].unheard
        /\ hand'[r].at = IF hand[r].n = Len(Due(r)) THEN "ended" ELSE "writing"
    BY <1>1, <1>14, CloseDoes
  <2>2. Finishes(r) /\ hand[r].n \in DOMAIN Due(r) /\ k \in 1..S
    <3>1. Writing(r)
      BY <2>1 DEF Writing
    <3> QED BY <1>1, <1>14, <3>1, NowPlace DEF Finishes, S
  <2>3. n \in DOMAIN Due(r) => (Then(n) <=> In(n) \/ n = hand[r].n)
    <3>1. DOMAIN Due(r) = 1..Len(Due(r)) /\ Len(Due(r)) \in Nat
      BY <1>3 DEF IsList
    <3>2. n \in DOMAIN Due(r) => n <= Len(Due(r))
      BY <3>1
    <3>3. n < hand[r].n + 1 <=> n < hand[r].n \/ n = hand[r].n
      BY <1>3
    <3>4. n \in DOMAIN Due(r) /\ hand[r].n = Len(Due(r)) => n < hand[r].n + 1
      BY <1>3, <3>1, <3>2
    <3> QED BY <2>1, <3>3, <3>4 DEF In, Then
  <2> QED BY <1>3, <1>7, <2>1, <2>2, <2>3
<1>15. CASE WriteFails(r)
  BY <1>1, <1>15, WriteFailsDoes DEF Place
<1>16. CASE Spawn(r)
  <2>1. hand[r].at = "probed" /\ hand'[r].at = "encoding" /\ hand'[r].n = hand[r].n /\ hand'[r].unheard = hand[r].unheard /\ run'[r].k = k
    BY <1>1, <1>16, SpawnDoes DEF Place
  <2>2. ~Finishes(r)
    BY <2>1 DEF Finishes, Close
  <2> QED BY <1>6, <1>8, <2>1, <2>2
<1>17. CASE (Progress(r) \/ Complain(r) \/ Drain(r) \/ Pump(r)) \/ Complete(r)
  <2>1. hand' = hand /\ run' = run /\ hand[r].at = "encoding"
    <3>1. (Progress(r) \/ Complain(r) \/ Complete(r)) => coder[r].at = "on"
      BY DEF Progress, Complain, Complete
    <3>2. Drain(r) \/ Pump(r) => hand[r].at = "encoding"
      BY DEF Drain, Pump
    <3> QED BY <1>1, <1>17, <3>1, <3>2, EncodingDoes, CompleteDoes DEF Own
  <2>2. ~Finishes(r)
    BY <2>1 DEF Finishes, Close
  <2> QED BY <1>6, <1>8, <2>1, <2>2
<1>18. CASE Wait(r)
  <2>1. hand[r].at = "encoding" /\ hand'[r].at = "ended" /\ run'[r].k = k /\ hand'[r].n = hand[r].n /\ hand'[r].unheard = hand[r].unheard
    BY <1>1, <1>18, WaitDoes DEF Place
  <2>2. Finishes(r) /\ hand[r].n \in DOMAIN Due(r) /\ k \in 1..S
    <3>1. Writing(r)
      BY <2>1 DEF Writing
    <3> QED BY <1>1, <1>18, <2>1, <3>1, NowPlace DEF Finishes, S
  <2>3. n \in DOMAIN Due(r) => Then(n) /\ n = hand[r].n
    <3>1. hand[r].n = 1 /\ run[r].op \in Suites["media"]
      BY <1>1, <1>2, <2>1 DEF Own
    <3>2. n \in DOMAIN Due(r) => n = 1
      BY <3>1, MediaOne DEF Due
    <3> QED BY <2>1, <3>1, <3>2 DEF Then
  <2> QED BY <1>3, <1>7, <2>1, <2>2, <2>3
<1>20. CASE Probe(r)
  <2>1. /\ hand[r].at = "reading" /\ hand'[r].n = hand[r].n /\ run'[r].k = k /\ run'[r].op = run[r].op
        /\ \/ hand'[r].at = "probed"
           \/ hand'[r].at = "ended" /\ run[r].op = "audio" /\ k \in hand'[r].unheard
    BY <1>1, <1>20, ProbeDoes
  <2>2. ~Finishes(r) /\ ~In(n)
    <3>1. ~Close(r) /\ ~Wait(r)
      BY <2>1 DEF Close, Wait
    <3> QED BY <2>1, <3>1 DEF Finishes, In
  <2>3. j = k => ~(n \in DOMAIN Asked(r, j)' /\ Then(n))
    <3>1. CASE hand'[r].at = "probed"
      BY <3>1 DEF Then
    <3>2. CASE run[r].op = "audio" /\ k \in hand'[r].unheard
      <4>1. j = k => Asked(r, j)' = <<>>
        BY <1>2, <3>2 DEF Asked
      <4> QED BY <4>1
    <3> QED BY <2>1, <3>1, <3>2
  <2> QED BY <1>3, <1>5, <2>1, <2>2, <2>3
<1>19. CASE PumpLate(r)
  BY <1>1, <1>19, PumpLateDoes DEF Place
<1> QED BY <1>9, <1>10, <1>11, <1>12, <1>13, <1>14, <1>15, <1>16, <1>17, <1>18, <1>19, <1>20, ActsAre

-----------------------------------------------------------------------------
(* A thread that nobody disturbs leaves its files as they should be.       *)

LEMMA Changes ==
    ASSUME Base, NEW r \in Runs, Acts(r), ~Begin(r), hand'[r].at # "failed"
    PROVE  /\ \/ /\ hand'[r].at \in {"filling", "encoding"} /\ Writing(r) /\ ~Finishes(r)
                 /\ Now(r)'.to = Now(r).to /\ (coder'[r].at = "ok" => Now(r)' = Now(r))
              \/ hand[r].at \notin {"filling", "encoding"} /\ disk' = disk /\ hand'[r].at \notin {"filling", "encoding"}
              \/ Finishes(r) /\ hand[r].at \in {"filling", "encoding"} /\ hand'[r].at \notin {"filling", "encoding"}
           /\ hand'[r].at = "filling" \/ coder'[r].at \in {"on", "ok"} =>
                 (hand[r].at = "filling" \/ coder[r].at \in {"on", "ok"}) \/ disk' = Put(Now(r).to, Partial(r))
           /\ coder'[r].at = "ok" => \/ coder[r].at = "ok" /\ disk' = disk
                                     \/ coder[r].at = "on" /\ disk' = Filled(r)
<1>1. Typed /\ Own(r)
  BY DEF Base
<1>2. run'[r].op = run[r].op /\ Ins(r)' = Ins(r) /\ run[r].at # "none" /\ run'[r].ins = run[r].ins
  BY <1>1, Acting DEF Ins
<1> DEFINE A == \/ /\ hand'[r].at \in {"filling", "encoding"} /\ Writing(r) /\ ~Finishes(r)
                   /\ Now(r)'.to = Now(r).to /\ (coder'[r].at = "ok" => Now(r)' = Now(r))
                \/ hand[r].at \notin {"filling", "encoding"} /\ disk' = disk /\ hand'[r].at \notin {"filling", "encoding"}
                \/ Finishes(r) /\ hand[r].at \in {"filling", "encoding"} /\ hand'[r].at \notin {"filling", "encoding"}
           B == hand'[r].at = "filling" \/ coder'[r].at \in {"on", "ok"} =>
                 (hand[r].at = "filling" \/ coder[r].at \in {"on", "ok"}) \/ disk' = Put(Now(r).to, Partial(r))
           C == coder'[r].at = "ok" => \/ coder[r].at = "ok" /\ disk' = disk
                                       \/ coder[r].at = "on" /\ disk' = Filled(r)
<1> SUFFICES A /\ B /\ C
  OBVIOUS
<1>3. hand[r].at \in {"filling", "encoding"} => Writing(r)
  BY DEF Writing
<1>4. ASSUME hand'[r].at = hand[r].at, hand'[r].n = hand[r].n, hand'[r].got = hand[r].got, hand'[r].unheard = hand[r].unheard,
             run'[r].k = run[r].k, disk' = disk, ~Finishes(r)
      PROVE  A
  <2>1. Now(r)' = Now(r)
    BY <1>2, <1>4, DueSame
  <2> QED BY <1>3, <1>4, <2>1
<1>5. CASE Abandon(r) \/ Break(r) \/ Relay(r) \/ (Fail(r) \/ Finish(r)) \/ (Progress(r) \/ Complain(r) \/ Drain(r) \/ Pump(r))
  <2>1. /\ hand' = hand /\ disk' = disk /\ run'[r].k = run[r].k
        /\ coder'[r].at = coder[r].at \/ coder'[r].at \in {"bad", "wedged"}
    BY <1>1, <1>5, AbandonDoes, BreakDoes, RelayDoes, EndDoes, EncodingDoes DEF Course
  <2>2. ~Finishes(r)
    BY <1>1, <2>1, CloseDoes, WaitDoes DEF Finishes
  <2>3. A
    BY <1>4, <2>1, <2>2
  <2> QED BY <2>1, <2>3
<1>6. CASE Call(r) \/ Advance(r) \/ Read(r) \/ ReadFails(r) \/ Probe(r)
  <2>1. /\ hand[r].at \in {"idle", "reading", "ended"} /\ disk' = disk /\ coder' = coder
        /\ hand'[r].at \in {"reading", "idle", "ended", "writing", "probed", "failed"}
    BY <1>1, <1>6, CallDoes, AdvanceDoes, ReadDoes, ReadFailsDoes, ProbeDoes DEF Place
  <2> QED BY <2>1
<1>7. CASE Truncate(r)
  <2>1. hand[r].at = "writing" /\ Place(r, "filling") /\ disk' = Put(Now(r).to, Partial(r)) /\ run' = run /\ coder' = coder
    BY <1>1, <1>7, TruncateDoes
  <2>2. Now(r)' = Now(r)
    BY <2>1, DueSame DEF Place
  <2>3. ~Finishes(r) /\ Writing(r)
    BY <2>1 DEF Finishes, Close, Wait, Writing
  <2>4. coder[r].at = "none"
    BY <1>1, <2>1 DEF Own
  <2> QED BY <2>1, <2>2, <2>3, <2>4 DEF Place
<1>8. CASE Spawn(r)
  <2>1. hand[r].at = "probed" /\ run' = run /\ coder[r].at = "none"
    BY <1>1, <1>8, SpawnDoes DEF Own
  <2>2. ~Finishes(r) /\ Writing(r)
    BY <2>1 DEF Finishes, Close, Wait, Writing
  <2>3. /\ hand'[r].at = "encoding"
        /\ \/ coder'[r].at = "bad" /\ disk' = disk
           \/ coder'[r].at = "on" /\ disk' = Put(Now(r).to, Partial(r))
    BY <1>1, <1>8, SpawnDoes DEF Place
  <2>4. Now(r)'.to = Now(r).to
    BY <1>1, <1>8, DueSpawned
  <2> QED BY <2>1, <2>2, <2>3, <2>4
<1>9. CASE Close(r)
  <2>1. /\ hand[r].at = "filling" /\ coder' = coder /\ hand'[r].at \in {"ended", "writing"} /\ coder[r].at = "none"
    BY <1>1, <1>9, CloseDoes DEF Own
  <2> QED BY <1>9, <2>1 DEF Finishes
<1>10. CASE WriteFails(r) \/ PumpLate(r)
  BY <1>1, <1>10, WriteFailsDoes, PumpLateDoes DEF Place
<1>11. CASE Complete(r)
  <2>1. coder[r].at = "on" /\ disk' = Filled(r) /\ hand' = hand /\ run' = run /\ hand[r].at = "encoding"
    BY <1>1, <1>11, CompleteDoes DEF Own
  <2>2. ~Finishes(r)
    BY <1>1, <2>1, CloseDoes, WaitDoes DEF Finishes
  <2>3. Now(r)' = Now(r)
    BY <2>1, DueSame
  <2> QED BY <1>3, <2>1, <2>2, <2>3
<1>12. CASE Wait(r)
  <2>1. hand[r].at = "encoding" /\ hand'[r].at = "ended" /\ coder'[r].at = "none"
    BY <1>1, <1>12, WaitDoes DEF Place
  <2> QED BY <1>12, <2>1 DEF Finishes
<1> QED BY <1>5, <1>6, <1>7, <1>8, <1>9, <1>10, <1>11, <1>12, ActsAre

LEMMA HoldsStays ==
    ASSUME Base, NEW r \in Runs, Acts(r), hand'[r].at # "failed", NEW q, Holds(r, q)
    PROVE  Holds(r, q)'
<1>1. Typed /\ Own(r)
  BY DEF Base
<1>2. ASSUME q \in DOMAIN disk' PROVE disk'[q].by = r
  <2>1. Partial(r).by = r /\ Whole(r, Now(r).pieces).by = r
    BY DEF Partial, Whole
  <2> QED BY <1>1, <1>2, <2>1, DiskEffect DEF Holds
<1>3. ASSUME q[1] = "output" PROVE q \in DOMAIN disk'
  <2>1. q \in DOMAIN disk
    BY <1>3 DEF Holds
  <2>2. Scratch(Ins(r)[1])[1] = "temp"
    BY DEF Scratch
  <2> QED BY <1>1, <1>3, <2>1, <2>2, DiskLoss
<1> QED BY <1>2, <1>3 DEF Holds

LEMMA MadeStays ==
    ASSUME Base, NEW r \in Runs, Acts(r), ~Begin(r), hand'[r].at # "failed", NEW q, Made(r, q), disk'[q] = disk[q]
    PROVE  Made(r, q)'
<1>1. PICK j \in Nat, n \in Nat : /\ Wrote(r, j, n) /\ q = Asked(r, j)[n].to
                                  /\ Clean(r, j) => disk[q].pieces = Asked(r, j)[n].pieces
  BY DEF Made
<1>2. Wrote(r, j, n)' /\ Asked(r, j)' = Asked(r, j)
  BY <1>1, WroteNext
<1>3. Clean(r, j)' => Clean(r, j)
  <2>1. Typed /\ Own(r)
    BY DEF Base
  <2>2. run'[r].op = run[r].op /\ run'[r].ins = run[r].ins /\ Next
    BY <2>1, Acting, NextIs DEF Acts
  <2> QED BY <2>2, CleanBack
<1>4. disk'[q] = Whole(r, disk'[q].pieces)
  BY DEF Made
<1> QED BY <1>1, <1>2, <1>3, <1>4 DEF Made

\* The file just finished is one of those written.
LEMMA MadeNow ==
    ASSUME Base, NEW r \in Runs, LearnedRun(r), WrittenRun(r), Plain(r), Acts(r), ~Begin(r),
           hand'[r].at # "failed", hand[r].at \in {"filling", "encoding"}, Finishes(r),
           NEW x \in DOMAIN disk', x = Now(r).to
    PROVE  Made(r, x)'
<1>1. Typed /\ Own(r) /\ Writing(r)
  BY DEF Base, Writing
<1>0. Laden(r)
  <2>1. Close(r) => hand[r].at = "filling"
    BY <1>1, CloseDoes
  <2>2. Wait(r) /\ hand'[r].at = "ended" => coder[r].at = "ok"
    BY <1>1, WaitDoes DEF Place
  <2> QED BY <2>1, <2>2 DEF Finishes, Laden
<1>2. /\ run[r].at # "none" /\ hand[r].n \in DOMAIN Due(r) /\ run[r].k \in Nat /\ hand[r].n \in Nat
  BY <1>1, NowPlace, OwnTypes
<1>3. disk'[x] = Whole(r, Now(r).pieces)
  <2>1. CASE Close(r)
    <3>1. disk' = Tidied(r, Filled(r)) \/ disk' = Filled(r)
      BY <1>1, <2>1, CloseDoes
    <3>2. x \in DOMAIN Filled(r) /\ disk'[x] = Filled(r)[x]
      <4>1. \A d : /\ DOMAIN Tidied(r, d) \subseteq DOMAIN d
                   /\ \A q \in DOMAIN Tidied(r, d) : Tidied(r, d)[q] = d[q]
        <5> TAKE d
        <5>1. DOMAIN Tidied(r, d) = IF Docx2(r) THEN DOMAIN d \ {Scratch(Ins(r)[1])} ELSE DOMAIN d
          BY TidiedFacts
        <5>2. \A q \in DOMAIN Tidied(r, d) : Tidied(r, d)[q] = d[q]
          BY DEF Tidied, Restrict
        <5> QED BY <5>1, <5>2
      <4> QED BY <3>1, <4>1
    <3>3. x \in DOMAIN disk
      BY <3>2, FilledFacts
    <3>4. Holds(r, Now(r).to)
      BY <1>1, <1>2, <2>1, CloseDoes DEF WrittenRun
    <3> QED BY <3>2, <3>3, <3>4, FilledFacts DEF Holds
  <2>2. CASE Wait(r)
    <3>1. coder[r].at = "ok" /\ disk' = disk
      BY <1>1, <2>2, WaitDoes DEF Place
    <3> QED BY <1>2, <3>1 DEF WrittenRun
  <2> QED BY <2>1, <2>2 DEF Finishes
<1> SUFFICES ASSUME NEW j, j = run[r].k, NEW n, n = hand[r].n, NEW p, p = Now(r).pieces PROVE Made(r, x)'
  OBVIOUS
<1>4. j \in Nat /\ n \in Nat
  BY <1>2
<1>5. Wrote(r, j, n)' /\ Asked(r, j)' = Asked(r, j)
  BY <1>4, WroteNext
<1>6. x = Asked(r, j)[n].to
  BY <1>2, DueAsked DEF Now
<1>7. Clean(r, j)' => p = Asked(r, j)[n].pieces
  <2>1. run'[r].op = run[r].op /\ run'[r].ins = run[r].ins /\ Next
    BY <1>1, <1>2, Acting, NextIs DEF Acts, Begin
  <2>2. Clean(r, j)' => Clean(r, j)
    BY <2>1, CleanBack
  <2>3. ASSUME Clean(r, j) PROVE p = Asked(r, j)[n].pieces
    BY <1>0, <1>1, <1>2, <2>3, DueRight DEF Now
  <2> QED BY <2>2, <2>3
<1>8. disk'[x] = Whole(r, p) /\ Whole(r, p).pieces = p
  BY <1>3 DEF Whole
<1> QED BY <1>4, <1>5, <1>6, <1>7, <1>8 DEF Made

LEMMA WrittenBegins ==
    ASSUME Base, NEW r \in Runs, Begin(r)
    PROVE  LearnedRun(r)' /\ WrittenRun(r)'
<1>1. Typed /\ Own(r) /\ Contents
  BY DEF Base
<1>2. run[r].at = "none" /\ run'[r].k = 1 /\ UNCHANGED <<suite, disk, hand, coder>>
  BY <1>1, BeginDoes
<1>3. hand[r] = NoHand /\ hand[r].at = "idle" /\ coder[r].at = "none" /\ hand[r].got = <<>>
  BY <1>1, <1>2 DEF Own, NoHand
<1>4. \A q \in DOMAIN disk' : disk'[q].by # r
  BY <1>1, <1>2, RunsAre DEF Contents
<1>5. \A j, n \in Nat : ~Wrote(r, j, n)'
  BY <1>2, <1>3 DEF Wrote
<1>6. WrittenRun(r)'
  BY <1>2, <1>3, <1>4, <1>5 DEF WrittenRun
<1>7. ASSUME suite = "pdf" PROVE hand[r].got = Ideal(run'[r].op, run'[r].ins, 0)
  <2>1. run'[r].op = form.op /\ run'[r].ins = form.files
    BY <1>1, BeginDoes
  <2>2. form.op \in Suites["pdf"] /\ form.files \in Seq(Sources)
    <3>1. form.op \in Suites[suite] /\ form.files \in Seq(SourcesOf(suite)) /\ suite \in DOMAIN Suites
      BY <1>1 DEF Typed
    <3> QED BY <1>7, <3>1, SuiteFacts
  <2> QED BY <1>3, <2>1, <2>2, IdealZero
<1>8. Seen(r)' = 0 /\ ~Laden(r)'
  BY <1>2, <1>3 DEF Seen, Laden
<1>9. LearnedRun(r)'
  BY <1>2, <1>7, <1>8 DEF LearnedRun, Ins
<1> QED BY <1>6, <1>9

LEMMA WrittenNext ==
    ASSUME Base, NEW r \in Runs, LearnedRun(r), WrittenRun(r), Acts(r)
    PROVE  WrittenRun(r)'
<1>1. Typed /\ Own(r) /\ Own(r)'
  BY BaseNext, NextIs DEF Base, Acts
<1>2. CASE Begin(r)
  BY <1>2, WrittenBegins
<1>3. CASE ~Begin(r) /\ hand'[r].at = "failed"
  <2>1. coder'[r].at = "none"
    BY <1>1, <1>3 DEF Own
  <2> QED BY <1>3, <2>1 DEF WrittenRun
<1>4. ASSUME ~Begin(r), hand'[r].at # "failed", Plain(r)'
      PROVE  /\ \A q \in DOMAIN disk' : disk'[q].by = r =>
                   (hand'[r].at \in {"filling", "encoding"} /\ q = Now(r).to') \/ Made(r, q)'
             /\ \A j, n \in Nat : Wrote(r, j, n)' => Holds(r, Asked(r, j)[n].to)'
             /\ hand'[r].at = "filling" \/ coder'[r].at \in {"on", "ok"} => Holds(r, Now(r).to)'
             /\ coder'[r].at = "ok" => disk'[Now(r).to'] = Whole(r, Now(r).pieces')
  <2>1. run[r].at # "none"
    BY <1>1, <1>4, Acting
  <2>2. Plain(r)
    BY <1>4, <2>1, PlainAlone
  <2>3. hand[r].at # "failed"
    <3>1. Read(r) => hand[r].at = "reading"
      BY <1>1, ReadDoes
    <3> QED BY <1>1, <1>4, <3>1, StepsOn
  <2>4. /\ \A q \in DOMAIN disk : disk[q].by = r =>
              (hand[r].at \in {"filling", "encoding"} /\ q = Now(r).to) \/ Made(r, q)
        /\ \A j, n \in Nat : Wrote(r, j, n) => Holds(r, Asked(r, j)[n].to)
        /\ hand[r].at = "filling" \/ coder[r].at \in {"on", "ok"} => Holds(r, Now(r).to)
        /\ coder[r].at = "ok" => disk[Now(r).to] = Whole(r, Now(r).pieces)
    BY <2>1, <2>2, <2>3 DEF WrittenRun
  <2>5. \A q : Holds(r, q) => Holds(r, q)'
    BY <1>4, HoldsStays
  <2>6. ASSUME NEW q \in DOMAIN disk', disk'[q].by = r
        PROVE  (hand'[r].at \in {"filling", "encoding"} /\ q = Now(r).to') \/ Made(r, q)'
    <3>1. CASE q = Now(r).to /\ hand'[r].at \in {"filling", "encoding"} /\ Now(r)'.to = Now(r).to
      BY <3>1
    <3>2. CASE q = Now(r).to /\ Finishes(r) /\ hand[r].at \in {"filling", "encoding"}
      BY <1>4, <2>2, <2>6, <3>2, MadeNow
    <3>3. CASE q \in DOMAIN disk /\ disk'[q] = disk[q] /\ Made(r, q)
      BY <1>4, <3>3, MadeStays
    <3>4. q \in DOMAIN disk /\ disk'[q] = disk[q] /\ ~Made(r, q) => q = Now(r).to /\ hand[r].at \in {"filling", "encoding"}
      BY <2>4, <2>6
    <3>5. disk' = disk => q \in DOMAIN disk /\ disk'[q] = disk[q]
      BY <2>6
    <3>6. (q \in DOMAIN disk /\ disk'[q] = disk[q]) \/ q = Now(r).to
      BY <1>1, <2>6, DiskEffect
    <3> HIDE <2>5
    <3> QED BY <1>4, <3>1, <3>2, <3>3, <3>4, <3>5, <3>6, Changes
  <2>7. ASSUME NEW j \in Nat, NEW n \in Nat, Wrote(r, j, n)'
        PROVE  Holds(r, Asked(r, j)[n].to)'
    <3>1. /\ Wrote(r, j, n) \/ (Finishes(r) /\ j = run[r].k /\ n = hand[r].n)
          /\ Asked(r, j)' = Asked(r, j)
      BY <1>4, <2>7, WroteNext
    <3>2. Holds(r, Asked(r, j)[n].to)
      <4>1. CASE Wrote(r, j, n)
        BY <2>4, <4>1
      <4>2. CASE Finishes(r) /\ j = run[r].k /\ n = hand[r].n
        <5>1. (hand[r].at = "filling" \/ (hand[r].at = "encoding" /\ coder[r].at = "ok")) /\ Writing(r)
          <6>1. Close(r) => hand[r].at = "filling"
            BY <1>1, CloseDoes
          <6>2. Wait(r) /\ hand'[r].at = "ended" => hand[r].at = "encoding" /\ coder[r].at = "ok"
            BY <1>1, WaitDoes DEF Place
          <6> QED BY <4>2, <6>1, <6>2 DEF Finishes, Writing
        <5>2. hand[r].n \in DOMAIN Due(r)
          BY <1>1, <5>1, NowPlace
        <5>3. Now(r).to = Asked(r, j)[n].to
          BY <2>1, <4>2, <5>2, DueAsked DEF Now
        <5> QED BY <2>4, <5>1, <5>3
      <4> QED BY <3>1, <4>1, <4>2
    <3>3. \A x : x = Asked(r, j)[n].to => Holds(r, x)'
      BY <2>5, <3>2
    <3> QED BY <3>1, <3>3 DEF Holds
  <2>8. ASSUME hand'[r].at = "filling" \/ coder'[r].at \in {"on", "ok"}
        PROVE  Holds(r, Now(r).to)'
    <3>1. hand'[r].at \in {"filling", "encoding"}
      BY <1>1, <2>8 DEF Own
    <3>2. Now(r)'.to = Now(r).to
      BY <1>4, <3>1, Changes
    <3>3. ASSUME NEW x, x = Now(r).to PROVE Holds(r, x)'
      <4>1. CASE hand[r].at = "filling" \/ coder[r].at \in {"on", "ok"}
        BY <2>4, <2>5, <3>3, <4>1
      <4>2. CASE disk' = Put(x, Partial(r))
        <5>1. x \in DOMAIN disk' /\ disk'[x] = Partial(r)
          BY <4>2 DEF Put
        <5> QED BY <5>1 DEF Holds, Partial
      <4> QED BY <1>4, <2>8, <3>3, <4>1, <4>2, Changes
    <3> QED BY <3>2, <3>3 DEF Holds
  <2>9. ASSUME coder'[r].at = "ok" PROVE disk'[Now(r).to'] = Whole(r, Now(r).pieces')
    <3>1. hand'[r].at \in {"filling", "encoding"}
      BY <1>1, <2>9 DEF Own
    <3>2. Now(r)' = Now(r) /\ Writing(r)
      BY <1>4, <2>9, <3>1, Changes
    <3>3. CASE coder[r].at = "ok" /\ disk' = disk
      BY <2>4, <3>2, <3>3
    <3>4. CASE coder[r].at = "on" /\ disk' = Filled(r)
      <4>1. Holds(r, Now(r).to)
        BY <2>4, <3>4
      <4>2. Now(r).to \in DOMAIN disk
        <5>1. suite = "media"
          BY <1>1, <3>4 DEF Own
        <5>2. run[r].op # "docx"
          BY <1>1, <3>2, <5>1, NowPlace, SuiteFacts
        <5> QED BY <1>1, <3>2, <4>1, <5>2, NowPlace DEF Holds
      <4>3. disk[Now(r).to].by = r
        BY <4>1, <4>2 DEF Holds
      <4>4. Filled(r)[Now(r).to] = Whole(r, Now(r).pieces)
        BY <4>2, <4>3, FilledFacts
      <4> QED BY <3>2, <3>4, <4>4
    <3> QED BY <1>4, <2>9, <3>3, <3>4, Changes
  <2> QED BY <2>6, <2>7, <2>8, <2>9
<1>5. CASE ~Begin(r) /\ hand'[r].at # "failed"
  BY <1>4, <1>5 DEF WrittenRun
<1> QED BY <1>2, <1>3, <1>5

-----------------------------------------------------------------------------
(* What a run has learned and written lasts.                               *)

LEMMA LearnedLasts ==
    ASSUME NEW r, run'[r] = run[r], hand'[r] = hand[r], coder'[r] = coder[r], suite' = suite, LearnedRun(r),
           \A p : Untouched(p)' => Untouched(p), Pristine(r)' => Pristine(r),
           run[r].op = "docx" /\ Plain(r)' => Plain(r)
    PROVE  LearnedRun(r)'
<1>1. Seen(r)' = Seen(r) /\ (Laden(r)' <=> Laden(r)) /\ Ins(r)' = Ins(r) /\ Ought(r, run[r].k)' = Ought(r, run[r].k)
  BY DEF Seen, Laden, Ins, Ought
<1>2. \A p : p = Ins(r)[run[r].k] /\ Untouched(p)' => Untouched(p)
  OBVIOUS
<1>3. Untouched(Ins(r)[run[r].k])' => Untouched(Ins(r)[run[r].k])
  BY <1>1, <1>2 DEF Untouched, Legible
<1> QED BY <1>1, <1>3 DEF LearnedRun

LEMMA QuietFrame ==
    ASSUME Base, NEW r \in Runs, NEW s \in Runs, s # r, Acts(s), LearnedRun(r)
    PROVE  LearnedRun(r)' /\ WrittenRun(r)'
<1>1. Typed
  BY DEF Base
<1>2. Same(r) /\ suite' = suite
  BY <1>1, Others
<1>3. run[r].at # "none" => ~Plain(r)'
  BY PlainAlone
<1>4. Next
  BY NextIs DEF Acts
<1>5. \A p : Untouched(p)' => Untouched(p)
  BY <1>4, UntouchedBack
<1>6. Pristine(r)' => Pristine(r)
  BY <1>2, <1>4, CleanBack DEF Same
<1>7. WrittenRun(r)'
  BY <1>2, <1>3 DEF WrittenRun, Same
<1>8. run'[r] = run[r] /\ hand'[r] = hand[r] /\ coder'[r] = coder[r]
  BY <1>2 DEF Same
<1>9. LearnedRun(r)'
  <2>1. CASE run[r].at = "none"
    BY <1>8, <2>1 DEF LearnedRun
  <2>2. CASE run[r].at # "none"
    <3>1. run[r].op = "docx" /\ Plain(r)' => Plain(r)
      BY <1>3, <2>2
    <3> QED BY <1>2, <1>5, <1>6, <1>8, <3>1, LearnedLasts
  <2> QED BY <2>1, <2>2
<1> QED BY <1>7, <1>9

LEMMA WrittenLasts ==
    ASSUME Base, NEW r \in Runs, WrittenRun(r), UNCHANGED <<suite, run, hand, coder, mixed>>,
           \A x \in DOMAIN disk' : x \in DOMAIN disk /\ disk'[x] = disk[x],
           \A x \in DOMAIN disk : x[1] = "output" => x \in DOMAIN disk',
           \A j : Clean(r, j)' => Clean(r, j)
    PROVE  WrittenRun(r)'
<1>1. Typed /\ Own(r)
  BY DEF Base
<1>2. Now(r)' = Now(r) /\ (Plain(r)' <=> Plain(r))
  BY DueSame DEF Plain
<1>3. \A j, n : (Wrote(r, j, n)' <=> Wrote(r, j, n)) /\ Asked(r, j)' = Asked(r, j)
  BY DEF Wrote, Asked, Ought, Ins
<1>4. \A q : Holds(r, q) => Holds(r, q)'
  BY DEF Holds
<1>5. \A q \in DOMAIN disk' : Made(r, q) => Made(r, q)'
  BY <1>3 DEF Made
<1> SUFFICES ASSUME run[r].at # "none", Plain(r)
             PROVE  /\ hand[r].at # "failed" =>
                          /\ \A q \in DOMAIN disk' : disk'[q].by = r =>
                                (hand[r].at \in {"filling", "encoding"} /\ q = Now(r).to) \/ Made(r, q)'
                          /\ \A j, n \in Nat : Wrote(r, j, n)' => Holds(r, Asked(r, j)[n].to)'
                    /\ hand[r].at = "filling" \/ coder[r].at \in {"on", "ok"} => Holds(r, Now(r).to)'
                    /\ coder[r].at = "ok" => disk'[Now(r).to] = Whole(r, Now(r).pieces)
  BY <1>2 DEF WrittenRun
<1>6. /\ hand[r].at # "failed" =>
            /\ \A q \in DOMAIN disk : disk[q].by = r =>
                  (hand[r].at \in {"filling", "encoding"} /\ q = Now(r).to) \/ Made(r, q)
            /\ \A j, n \in Nat : Wrote(r, j, n) => Holds(r, Asked(r, j)[n].to)
      /\ hand[r].at = "filling" \/ coder[r].at \in {"on", "ok"} => Holds(r, Now(r).to)
      /\ coder[r].at = "ok" => disk[Now(r).to] = Whole(r, Now(r).pieces)
  BY DEF WrittenRun
<1>7. ASSUME hand[r].at # "failed"
      PROVE  /\ \A q \in DOMAIN disk' : disk'[q].by = r =>
                   (hand[r].at \in {"filling", "encoding"} /\ q = Now(r).to) \/ Made(r, q)'
             /\ \A j, n \in Nat : Wrote(r, j, n)' => Holds(r, Asked(r, j)[n].to)'
  <2>1. ASSUME NEW q \in DOMAIN disk', disk'[q].by = r
        PROVE  (hand[r].at \in {"filling", "encoding"} /\ q = Now(r).to) \/ Made(r, q)'
    <3>1. q \in DOMAIN disk /\ disk[q].by = r
      BY <2>1
    <3> QED BY <1>5, <1>6, <1>7, <2>1, <3>1
  <2>2. ASSUME NEW j \in Nat, NEW n \in Nat, Wrote(r, j, n)'
        PROVE  Holds(r, Asked(r, j)[n].to)'
    <3>1. Holds(r, Asked(r, j)[n].to) /\ Asked(r, j)' = Asked(r, j)
      BY <1>3, <1>6, <1>7, <2>2
    <3>2. \A q : q = Asked(r, j)[n].to => Holds(r, q)'
      BY <1>4, <3>1
    <3> QED BY <3>1, <3>2 DEF Holds
  <2> QED BY <2>1, <2>2
<1>8. ASSUME hand[r].at = "filling" \/ coder[r].at \in {"on", "ok"} PROVE Holds(r, Now(r).to)'
  <2>1. \A q : q = Now(r).to => Holds(r, q)'
    BY <1>4, <1>6, <1>8
  <2> QED BY <1>2, <2>1 DEF Holds
<1>9. ASSUME coder[r].at = "ok" PROVE disk'[Now(r).to] = Whole(r, Now(r).pieces)
  <2>1. hand[r].at = "encoding" /\ suite = "media"
    BY <1>1, <1>9 DEF Own
  <2>2. Writing(r)
    BY <2>1 DEF Writing
  <2>3. Now(r).to[1] = "output"
    BY <1>1, <2>1, <2>2, NowPlace, SuiteFacts
  <2>4. Now(r).to \in DOMAIN disk
    BY <1>6, <1>9, <2>3 DEF Holds
  <2> QED BY <1>6, <1>9, <2>3, <2>4
<1> QED BY <1>7, <1>8, <1>9

QuietRun(r) == LearnedRun(r) /\ WrittenRun(r)

LEMMA QuietNext ==
    ASSUME Base, \A r \in Runs : QuietRun(r), Next
    PROVE  \A r \in Runs : QuietRun(r)'
<1> TAKE r \in Runs
<1>1. QuietRun(r)
  OBVIOUS
<1>2. CASE Panel \/ Deletes
  <2>1. UNCHANGED <<suite, run, hand, coder, mixed>>
    BY <1>2, PanelSame
  <2>2. \A p : Untouched(p)' => Untouched(p)
    BY UntouchedBack
  <2>3. (Pristine(r)' => Pristine(r)) /\ \A j : Clean(r, j)' => Clean(r, j)
    BY <2>1, CleanBack
  <2>4. Plain(r)' => Plain(r)
    BY <1>2, PlainPanel
  <2>5. LearnedRun(r)'
    BY <1>1, <2>1, <2>2, <2>3, <2>4, LearnedLasts DEF QuietRun
  <2>6. WrittenRun(r)'
    BY <1>1, <1>2, <2>1, <2>3, FilesBack, WrittenLasts DEF QuietRun
  <2> QED BY <2>5, <2>6 DEF QuietRun
<1>3. ASSUME NEW s \in Runs, Acts(s) PROVE QuietRun(r)'
  <2>1. CASE s = r
    BY <1>1, <1>3, <2>1, LearnedNext, WrittenNext DEF QuietRun
  <2>2. CASE s # r
    BY <1>1, <1>3, <2>2, QuietFrame DEF QuietRun
  <2> QED BY <2>1, <2>2
<1> QED BY <1>2, <1>3, NextIs DEF Acts

LEMMA QuietStutters ==
    ASSUME Base, \A r \in Runs : QuietRun(r), UNCHANGED vars
    PROVE  \A r \in Runs : QuietRun(r)'
<1> TAKE r \in Runs
<1>1. UNCHANGED <<suite, run, hand, coder, mixed, disk>>
  BY DEF vars, work
<1>2. /\ \A p : Untouched(p)' <=> Untouched(p)
      /\ (Pristine(r)' <=> Pristine(r)) /\ (Plain(r)' <=> Plain(r)) /\ Ins(r)' = Ins(r)
  BY <1>1 DEF Untouched, Legible, Pristine, Plain, Ins
<1>3. \A j : Clean(r, j)' => Clean(r, j)
  BY <1>1 DEF Clean, Untouched, Legible, Pristine, Ins
<1>4. LearnedRun(r)'
  <2>1. run'[r] = run[r] /\ hand'[r] = hand[r] /\ coder'[r] = coder[r] /\ suite' = suite /\ LearnedRun(r)
    BY <1>1 DEF QuietRun
  <2>2. \A p : Untouched(p)' => Untouched(p)
    BY <1>2
  <2>3. (Pristine(r)' => Pristine(r)) /\ (run[r].op = "docx" /\ Plain(r)' => Plain(r))
    BY <1>2
  <2> QED BY <2>1, <2>2, <2>3, LearnedLasts
<1>5. WrittenRun(r)'
  BY <1>1, <1>3, WrittenLasts DEF QuietRun
<1> QED BY <1>4, <1>5 DEF QuietRun

\* What a run has read, and what it has written if no other thread got in its way,
\* is what it ought to; the invariant behind DoneAsAsked.
THEOREM QuietHolds == Spec => [](Base /\ \A r \in Runs : QuietRun(r))
<1> DEFINE Q == \A r \in Runs : QuietRun(r)
<1>1. Init => Base /\ Q
  <2> SUFFICES ASSUME Init, NEW r \in Runs PROVE QuietRun(r)
    BY InitBase
  <2>1. run[r].at = "none"
    BY DEF Init, NoRun
  <2> QED BY <2>1 DEF QuietRun, LearnedRun, WrittenRun
<1>2. Base /\ Q /\ [Next]_vars => (Base /\ Q)'
  <2>1. ASSUME Base, Q, Next PROVE (Base /\ Q)'
    <3>1. Q'
      BY <2>1, QuietNext
    <3> QED BY <2>1, <3>1, BaseNext
  <2>2. ASSUME Base, Q, UNCHANGED vars PROVE (Base /\ Q)'
    <3>1. Q'
      BY <2>2, QuietStutters
    <3> QED BY <2>2, <3>1, BaseStutters
  <2> QED BY <2>1, <2>2
<1> HIDE DEF Q
<1>3. Spec => [](Base /\ Q)
  BY <1>1, <1>2, PTL DEF Spec
<1> QED BY <1>3 DEF Q

-----------------------------------------------------------------------------
(* What a run that reports success has written.                            *)

LEMMA DoneFacts ==
    ASSUME Base, NEW r \in Runs, QuietRun(r), run[r].at = "done", Plain(r)
    PROVE  /\ \A q \in DOMAIN disk : disk[q].by = r =>
                 /\ disk[q].whole /\ disk[q] = Whole(r, disk[q].pieces)
                 /\ \E j \in 1..Steps(run[r].op, Ins(r)) : \E n \in DOMAIN Asked(r, j) :
                       q = Asked(r, j)[n].to /\ (Clean(r, j) => disk[q].pieces = Asked(r, j)[n].pieces)
           /\ \A j \in 1..Steps(run[r].op, Ins(r)) : \A n \in Nat \cap DOMAIN Asked(r, j) :
                 Asked(r, j)[n].to[1] = "output" => Asked(r, j)[n].to \in DOMAIN disk /\ disk[Asked(r, j)[n].to].by = r
<1>1. Typed /\ Own(r) /\ WrittenRun(r)
  BY DEF Base, QuietRun
<1>2. hand[r].at = "idle" /\ run[r].k = Steps(run[r].op, Ins(r)) + 1 /\ Steps(run[r].op, Ins(r)) \in Nat
  BY <1>1, OwnTypes DEF Own
<1>3. \A j, n \in Nat : Wrote(r, j, n) <=> j \in 1..Steps(run[r].op, Ins(r)) /\ n \in DOMAIN Asked(r, j)
  BY <1>2 DEF Wrote
<1>4. ASSUME NEW q \in DOMAIN disk, disk[q].by = r PROVE Made(r, q)
  BY <1>1, <1>2, <1>4 DEF WrittenRun
<1>5. ASSUME NEW j \in Nat, NEW n \in Nat, Wrote(r, j, n) PROVE Holds(r, Asked(r, j)[n].to)
  BY <1>1, <1>2, <1>5 DEF WrittenRun
<1>6. ASSUME NEW q \in DOMAIN disk, disk[q].by = r
      PROVE  /\ disk[q].whole /\ disk[q] = Whole(r, disk[q].pieces)
             /\ \E j \in 1..Steps(run[r].op, Ins(r)) : \E n \in DOMAIN Asked(r, j) :
                   q = Asked(r, j)[n].to /\ (Clean(r, j) => disk[q].pieces = Asked(r, j)[n].pieces)
  <2>1. disk[q] = Whole(r, disk[q].pieces)
    BY <1>4, <1>6 DEF Made
  <2>2. disk[q].whole
    BY <2>1 DEF Whole
  <2>3. PICK j \in Nat, n \in Nat : /\ Wrote(r, j, n) /\ q = Asked(r, j)[n].to
                                    /\ Clean(r, j) => disk[q].pieces = Asked(r, j)[n].pieces
    BY <1>4, <1>6 DEF Made
  <2>4. j \in 1..Steps(run[r].op, Ins(r)) /\ n \in DOMAIN Asked(r, j)
    BY <1>3, <2>3
  <2> QED BY <2>1, <2>2, <2>3, <2>4
<1>7. ASSUME NEW j \in 1..Steps(run[r].op, Ins(r)), NEW n \in Nat \cap DOMAIN Asked(r, j), Asked(r, j)[n].to[1] = "output"
      PROVE  Asked(r, j)[n].to \in DOMAIN disk /\ disk[Asked(r, j)[n].to].by = r
  <2>1. j \in Nat /\ n \in Nat
    BY <1>2
  <2> QED BY <1>3, <1>5, <1>7, <2>1 DEF Holds
<1> QED BY <1>6, <1>7

\* The files of a family, one for each number up to m.
LEMMA Family ==
    ASSUME NEW r, NEW s, NEW kind, NEW m \in Nat, NEW f,
           \A n \in 1..m : /\ Output(s, kind, n) \in DOMAIN disk /\ disk[Output(s, kind, n)].by = r
                           /\ disk[Output(s, kind, n)].pieces = f[n],
           \A q \in DOMAIN disk : disk[q].by = r /\ q[3] = kind => \E n \in 1..m : q = Output(s, kind, n)
    PROVE  /\ Together(r, s, kind) = FlattenSeq([n \in 1..m |-> f[n]])
           /\ Cardinality(Mine(r, kind)) = m
<1> DEFINE F == [n \in 1..m |-> Output(s, kind, n)]
<1>1. \A n : Output(s, kind, n)[3] = kind /\ Output(s, kind, n)[4] = n
  BY DEF Output
<1>2. \A q \in Mine(r, kind) : \E n \in 1..m : q = Output(s, kind, n)
  BY DEF Mine
<1>3. \A n \in 1..m : Output(s, kind, n) \in Mine(r, kind)
  BY <1>1 DEF Mine
<1>4. ExistsBijection(1..m, Mine(r, kind))
  <2>1. F \in [1..m -> Mine(r, kind)] /\ DOMAIN F = 1..m
    BY <1>3
  <2>2. \A a, b \in 1..m : F[a] = F[b] => a = b
    BY <1>1
  <2>3. \A q \in Mine(r, kind) : \E n \in 1..m : F[n] = q
    BY <1>2
  <2> HIDE DEF F
  <2> QED BY <2>1, <2>2, <2>3 DEF ExistsBijection, Bijection, Injection, Surjection, IsInjective
<1> HIDE DEF F
<1>5. Cardinality(Mine(r, kind)) = m
  BY <1>4, FS_CountingElements
<1>6. [n \in 1..m |-> disk[Output(s, kind, n)].pieces] = [n \in 1..m |-> f[n]]
  OBVIOUS
<1>7. Together(r, s, kind) = FlattenSeq([n \in 1..m |-> f[n]])
  BY <1>5, <1>6 DEF Together
<1> QED BY <1>5, <1>7

\* What each source has become, in the suites that convert one at a time.
LEMMA EachDone ==
    ASSUME Base, NEW r \in Runs, QuietRun(r), run[r].at = "done", Plain(r), run[r].op \in Each
    PROVE  EachCopied(r)
<1>1. Typed /\ Own(r)
  BY DEF Base
<1>2. /\ Ins(r) \in Seq(Sources) /\ Len(Ins(r)) \in Nat /\ DOMAIN Ins(r) = 1..Len(Ins(r))
      /\ run[r].op \in Ops /\ suite \in DOMAIN Suites
  BY <1>1, InsAre
<1>3. Steps(run[r].op, Ins(r)) = Len(Ins(r)) /\ run[r].op # "pack"
  BY DEF Steps, Each
<1>4. \A j : Asked(r, j) = IF run[r].op = "audio" /\ j \in hand[r].unheard THEN <<>>
                          ELSE Targets(run[r].op, Ins(r), j, Ought(r, j))
  BY DEF Asked
<1>5. \A j : Clean(r, j) <=> Untouched(Ins(r)[j])
  BY <1>3 DEF Clean
<1>6. \A j : \A n \in DOMAIN Asked(r, j) :
        Asked(r, j)[n].pieces = LastOf(Ought(r, j)) /\ Stem(Asked(r, j)[n].to) = Stem(Ins(r)[j])
  <2> TAKE j
  <2> TAKE n \in DOMAIN Asked(r, j)
  <2>1. Asked(r, j)[n].pieces = LastOf(Ought(r, j))
    BY <1>4, EachIs, TargetsLast
  <2>2. Stem(Asked(r, j)[n].to) = Stem(Ins(r)[j])
    <3> DEFINE got == Ought(r, j)
               stem == Stem(Ins(r)[j])
    <3>0. Asked(r, j) = Targets(run[r].op, Ins(r), j, got)
      BY <1>4
    <3> HIDE DEF got
    <3>1. \A kind, d : Stem(Output(stem, kind, d)) = stem
      BY DEF Stem, Output
    <3>2. \A kind, p : \A m \in DOMAIN <<Write(Output(stem, kind, 0), p)>> : Stem(<<Write(Output(stem, kind, 0), p)>>[m].to) = stem
      BY <3>1 DEF Write
    <3>3. CASE run[r].op = "densities"
      BY <3>0, <3>1, <3>3 DEF Targets, Densities, Write
    <3>4. CASE run[r].op = "convert"
      BY <3>0, <3>2, <3>4 DEF Targets, Convert
    <3>5. CASE run[r].op = "drawable"
      BY <3>0, <3>2, <3>5 DEF Targets, Drawable
    <3>6. CASE run[r].op = "translate"
      BY <3>0, <3>2, <3>6 DEF Targets, Translate
    <3>7. CASE run[r].op = "mp4"
      BY <3>0, <3>2, <3>7 DEF Targets, ToMp4
    <3>8. CASE run[r].op = "audio"
      BY <3>0, <3>2, <3>8 DEF Targets, ExtractAudio
    <3>9. CASE run[r].op = "thumbnails"
      BY <3>0, <3>2, <3>9 DEF Targets, Thumbnails
    <3> QED BY <3>3, <3>4, <3>5, <3>6, <3>7, <3>8, <3>9 DEF Each
  <2> QED BY <2>1, <2>2
<1> SUFFICES ASSUME NEW k \in Alone(r), Untouched(Ins(r)[k])
             PROVE  /\ (run[r].op = "audio" /\ k \in hand[r].unheard) \/ NamedAfter(r, Ins(r)[k]) # {}
                    /\ \A q \in NamedAfter(r, Ins(r)[k]) : disk[q].pieces = Ought(r, k)
  <2>1. \A k \in DOMAIN Ins(r) : Ought(r, k) = IF run[r].op = "mp4" /\ k \in hand[r].unheard THEN Muted(PagesOf(Ins(r)[k])) ELSE PagesOf(Ins(r)[k])
    BY <1>1, OughtOne
  <2> QED BY <2>1 DEF EachCopied, Alone
<1>7. k \in DOMAIN Ins(r) /\ \A j \in DOMAIN Ins(r) : Stem(Ins(r)[j]) = Stem(Ins(r)[k]) => j = k
  BY DEF Alone
<1>8. LastOf(Ought(r, k)) = Ought(r, k)
  BY <1>1, <1>7, OughtOne
<1>9. ASSUME NEW q \in NamedAfter(r, Ins(r)[k]) PROVE disk[q].pieces = Ought(r, k)
  <2>1. q \in DOMAIN disk /\ disk[q].by = r /\ Stem(q) = Stem(Ins(r)[k])
    BY DEF NamedAfter
  <2>2. PICK j \in 1..Len(Ins(r)) : \E n \in DOMAIN Asked(r, j) :
            q = Asked(r, j)[n].to /\ (Clean(r, j) => disk[q].pieces = Asked(r, j)[n].pieces)
    BY <1>3, <2>1, DoneFacts
  <2>3. PICK n \in DOMAIN Asked(r, j) : q = Asked(r, j)[n].to /\ (Clean(r, j) => disk[q].pieces = Asked(r, j)[n].pieces)
    BY <2>2
  <2>4. j = k
    BY <1>2, <1>6, <1>7, <2>1, <2>3
  <2> QED BY <1>5, <1>6, <1>8, <2>3, <2>4
<1>10. ASSUME ~(run[r].op = "audio" /\ k \in hand[r].unheard) PROVE NamedAfter(r, Ins(r)[k]) # {}
  <2>1. 1 \in DOMAIN Asked(r, k) /\ Asked(r, k)[1].to[1] = "output"
    <3> DEFINE got == Ought(r, k)
               stem == Stem(Ins(r)[k])
    <3>0. Asked(r, k) = Targets(run[r].op, Ins(r), k, got)
      BY <1>4, <1>10
    <3> HIDE DEF got
    <3>1. \A kind, p : 1 \in DOMAIN <<Write(Output(stem, kind, 0), p)>> /\ <<Write(Output(stem, kind, 0), p)>>[1].to[1] = "output"
      BY DEF Write, Output
    <3>3. CASE run[r].op = "densities"
      BY <3>0, <3>3 DEF Targets, Densities, Write, Output
    <3>4. CASE run[r].op = "convert"
      BY <3>0, <3>1, <3>4 DEF Targets, Convert
    <3>5. CASE run[r].op = "drawable"
      BY <3>0, <3>1, <3>5 DEF Targets, Drawable
    <3>6. CASE run[r].op = "translate"
      BY <3>0, <3>1, <3>6 DEF Targets, Translate
    <3>7. CASE run[r].op = "mp4"
      BY <3>0, <3>1, <3>7 DEF Targets, ToMp4
    <3>8. CASE run[r].op = "audio"
      BY <1>10, <3>0, <3>1, <3>8 DEF Targets, ExtractAudio
    <3>9. CASE run[r].op = "thumbnails"
      BY <3>0, <3>1, <3>9 DEF Targets, Thumbnails
    <3> QED BY <3>3, <3>4, <3>5, <3>6, <3>7, <3>8, <3>9 DEF Each
  <2>2. Asked(r, k)[1].to \in DOMAIN disk /\ disk[Asked(r, k)[1].to].by = r
    BY <1>2, <1>3, <1>7, <2>1, DoneFacts
  <2>3. Stem(Asked(r, k)[1].to) = Stem(Ins(r)[k])
    BY <1>6, <2>1
  <2> QED BY <2>2, <2>3 DEF NamedAfter
<1> QED BY <1>9, <1>10

\* The operations on one document.
LEMMA OneDocument ==
    ASSUME Base, NEW r \in Runs, run[r].at # "none", run[r].op \in Suites["pdf"] \ {"merge"}
    PROVE  /\ DOMAIN Ins(r) = {1} /\ (Pristine(r) <=> Untouched(Ins(r)[1])) /\ \A j : Clean(r, j) <=> Pristine(r)
           /\ \A j \in Nat \ {0} : Asked(r, j) = Targets(run[r].op, Ins(r), j,
                 IF run[r].op = "docx" /\ j > 1 THEN PagesOf(Ins(r)[1]) \o PagesOf(Ins(r)[1]) ELSE PagesOf(Ins(r)[1]))
           /\ PagesOf(Ins(r)[1]) \in Seq(Sources \X Nat) /\ Len(PagesOf(Ins(r)[1])) = Pages /\ Pages \in Nat \ {0}
           /\ Ins(r)[1] \in Sources
<1>1. Typed /\ Own(r)
  BY DEF Base
<1>2. Len(Ins(r)) = 1 /\ DOMAIN Ins(r) = 1..Len(Ins(r)) /\ Ins(r) \in Seq(Sources)
  BY <1>1, InsAre
<1>3. DOMAIN Ins(r) = {1} /\ Ins(r)[1] \in Sources
  BY <1>2
<1>4. run[r].op \notin Each /\ run[r].op # "pack" /\ run[r].op # "merge" /\ run[r].op # "audio" /\ run[r].op # "mp4"
  BY SuiteFacts DEF Each
<1>5. (Pristine(r) <=> Untouched(Ins(r)[1])) /\ \A j : Clean(r, j) <=> Pristine(r)
  BY <1>3, <1>4 DEF Pristine, Clean
<1>6. \A j \in Nat \ {0} : Asked(r, j) = Targets(run[r].op, Ins(r), j,
           IF run[r].op = "docx" /\ j > 1 THEN PagesOf(Ins(r)[1]) \o PagesOf(Ins(r)[1]) ELSE PagesOf(Ins(r)[1]))
  BY <1>4 DEF Asked, Ought, Ideal
<1>7. PagesOf(Ins(r)[1]) \in Seq(Sources \X Nat) /\ Len(PagesOf(Ins(r)[1])) = Pages
  BY <1>1, <1>3, InsPages
<1> QED BY <1>3, <1>5, <1>6, <1>7, RunsAre

\* Of a sequence that repeats itself, the second half.
LEMMA Twice ==
    ASSUME NEW T, NEW s \in Seq(T)
    PROVE  SubSeq(s \o s, Len(s \o s) - Len(s) + 1, Len(s \o s)) = s
<1>1. Len(s) \in Nat /\ DOMAIN s = 1..Len(s)
  OBVIOUS
<1>2. s \o s \in Seq(T) /\ Len(s \o s) = Len(s) + Len(s)
  BY ConcatProperties
<1>3. \A i \in 1..Len(s) : (s \o s)[Len(s) + i] = s[i]
  <2> TAKE i \in 1..Len(s)
  <2>1. Len(s) + i \in 1..(Len(s) + Len(s)) /\ Len(s) + i > Len(s) /\ Len(s) + i - Len(s) = i
    BY <1>1
  <2> QED BY <1>1, <2>1
<1> DEFINE n == Len(s)
           d == s \o s
           e == SubSeq(d, n + n - n + 1, n + n)
<1>4. n \in Nat /\ n + n - n + 1 = n + 1 /\ d \in Seq(T) /\ Len(d) = n + n /\ \A i \in 1..n : d[n + i] = s[i]
  BY <1>1, <1>2, <1>3
<1> HIDE DEF n, d
<1>5. SubSeq(d, n + 1, n + n) = [i \in 1..n |-> d[n + i]]
  <2>1. SubSeq(d, n + 1, n + n) = [i \in 1..(n + n - (n + 1) + 1) |-> d[i + (n + 1) - 1]]
    BY <1>4
  <2>2. n + n - (n + 1) + 1 = n /\ \A i \in 1..n : i + (n + 1) - 1 = n + i
    BY <1>4
  <2> QED BY <2>1, <2>2
<1>6. [i \in 1..n |-> d[n + i]] = [i \in 1..n |-> s[i]]
  BY <1>4
<1>7. s = [i \in 1..n |-> s[i]]
  BY <1>1 DEF n
<1> QED BY <1>2, <1>4, <1>5, <1>6, <1>7 DEF n, d

\* A document of its own from each.
LEMMA DocumentDone ==
    ASSUME Base, NEW r \in Runs, QuietRun(r), run[r].at = "done", Plain(r), run[r].op \in {"rotate", "docx"}
    PROVE  EachCopied(r)
<1> DEFINE p == Ins(r)[1]
           g == PagesOf(p)
<1>1. run[r].op \in Suites["pdf"] \ {"merge"}
  BY SuiteFacts
<1>2. /\ DOMAIN Ins(r) = {1} /\ (Pristine(r) <=> Untouched(p)) /\ \A j : Clean(r, j) <=> Pristine(r)
      /\ \A j \in Nat \ {0} : Asked(r, j) = Targets(run[r].op, Ins(r), j,
                 IF run[r].op = "docx" /\ j > 1 THEN g \o g ELSE g)
      /\ g \in Seq(Sources \X Nat) /\ Len(g) = Pages /\ Pages \in Nat \ {0}
  BY <1>1, OneDocument
<1> HIDE DEF g
<1>3. \A kind, x : <<Write(Output(Stem(p), kind, 0), x)>>[1].pieces = x /\ <<Write(Output(Stem(p), kind, 0), x)>>[1].to[1] = "output"
                   /\ Stem(<<Write(Output(Stem(p), kind, 0), x)>>[1].to) = Stem(p)
                   /\ DOMAIN <<Write(Output(Stem(p), kind, 0), x)>> = {1}
  BY DEF Write, Output, Stem
<1>4. ASSUME NEW j \in 1..Steps(run[r].op, Ins(r)), NEW n \in DOMAIN Asked(r, j)
      PROVE  Asked(r, j)[n].pieces = g
  <2>1. j \in Nat \ {0} /\ n \in DOMAIN Targets(run[r].op, Ins(r), j, IF run[r].op = "docx" /\ j > 1 THEN g \o g ELSE g)
    <3>1. j \in Nat \ {0}
      BY <1>2 DEF Steps
    <3> QED BY <1>2, <3>1
  <2>2. CASE run[r].op = "rotate"
    <3>1. Asked(r, j) = Rotate(Ins(r), j, g)
      BY <1>2, <2>1, <2>2 DEF Targets
    <3>2. j > Pages
      BY <3>1 DEF Rotate
    <3>3. Asked(r, j) = <<Write(Output(Stem(p), "rotated", 0), g)>>
      BY <3>1, <3>2 DEF Rotate
    <3>4. n = 1
      BY <1>3, <3>3
    <3> QED BY <1>3, <3>3, <3>4
  <2>3. CASE run[r].op = "docx" /\ j = 2
    <3>1. Asked(r, j) = ToDocx(Ins(r), j, g \o g)
      BY <1>2, <2>1, <2>3 DEF Targets
    <3>2. Asked(r, j) = <<Write(Output(Stem(p), "docx", 0), SubSeq(g \o g, Len(g \o g) - Pages + 1, Len(g \o g)))>>
      BY <2>3, <3>1 DEF ToDocx
    <3>3. SubSeq(g \o g, Len(g \o g) - Pages + 1, Len(g \o g)) = g
      BY <1>2, Twice
    <3>4. Asked(r, j) = <<Write(Output(Stem(p), "docx", 0), g)>>
      BY <3>2, <3>3
    <3>5. n = 1
      BY <1>3, <3>4
    <3> QED BY <1>3, <3>4, <3>5
  <2>4. CASE run[r].op = "docx" /\ j # 2
    <3>1. j = 1
      BY <2>4 DEF Steps
    <3>2. Asked(r, j) = ToDocx(Ins(r), j, g)
      BY <1>2, <2>4, <3>1 DEF Targets
    <3>3. Asked(r, j) = <<Write(Scratch(p), g)>>
      BY <2>4, <3>2 DEF ToDocx
    <3>4. n = 1
      BY <3>3
    <3> QED BY <3>3, <3>4 DEF Write
  <2> QED BY <2>2, <2>3, <2>4
<1>5. \E j \in 1..Steps(run[r].op, Ins(r)) : 1 \in DOMAIN Asked(r, j) /\ Asked(r, j)[1].to[1] = "output" /\ Stem(Asked(r, j)[1].to) = Stem(p)
  <2>1. CASE run[r].op = "rotate"
    <3>1. Pages + 1 \in 1..Steps(run[r].op, Ins(r)) /\ Pages + 1 \in Nat \ {0} /\ Pages + 1 > Pages
      BY <1>2, <2>1 DEF Steps
    <3>2. Asked(r, Pages + 1) = <<Write(Output(Stem(p), "rotated", 0), g)>>
      BY <1>2, <2>1, <3>1 DEF Targets, Rotate
    <3> QED BY <1>3, <3>1, <3>2
  <2>2. CASE run[r].op = "docx"
    <3>1. 2 \in 1..Steps(run[r].op, Ins(r))
      BY <2>2 DEF Steps
    <3>2. Asked(r, 2) = <<Write(Output(Stem(p), "docx", 0), SubSeq(g \o g, Len(g \o g) - Pages + 1, Len(g \o g)))>>
      BY <1>2, <2>2 DEF Targets, ToDocx
    <3> QED BY <1>3, <3>1, <3>2
  <2> QED BY <2>1, <2>2
<1> SUFFICES ASSUME Untouched(p)
             PROVE  NamedAfter(r, p) # {} /\ \A q \in NamedAfter(r, p) : disk[q].pieces = g
  <2>1. Alone(r) \subseteq {1}
    BY <1>2 DEF Alone
  <2>2. ASSUME NEW k \in Alone(r), Untouched(Ins(r)[k])
        PROVE  NamedAfter(r, Ins(r)[k]) # {} /\ \A q \in NamedAfter(r, Ins(r)[k]) : disk[q].pieces = PagesOf(Ins(r)[k])
    BY <2>1, <2>2 DEF g
  <2> QED BY <2>2 DEF EachCopied
<1>6. ASSUME NEW q \in NamedAfter(r, p) PROVE disk[q].pieces = g
  <2>1. q \in DOMAIN disk /\ disk[q].by = r
    BY DEF NamedAfter
  <2>2. PICK j \in 1..Steps(run[r].op, Ins(r)) : \E n \in DOMAIN Asked(r, j) :
            q = Asked(r, j)[n].to /\ (Clean(r, j) => disk[q].pieces = Asked(r, j)[n].pieces)
    BY <2>1, DoneFacts
  <2> QED BY <1>2, <1>4, <2>2
<1>7. NamedAfter(r, p) # {}
  <2>1. PICK j \in 1..Steps(run[r].op, Ins(r)) : 1 \in DOMAIN Asked(r, j) /\ Asked(r, j)[1].to[1] = "output" /\ Stem(Asked(r, j)[1].to) = Stem(p)
    BY <1>5
  <2>2. Asked(r, j)[1].to \in DOMAIN disk /\ disk[Asked(r, j)[1].to].by = r
    BY <2>1, DoneFacts
  <2> QED BY <2>1, <2>2 DEF NamedAfter
<1> QED BY <1>6, <1>7

\* The document that is merged.
LEMMA MergeDone ==
    ASSUME Base, NEW r \in Runs, QuietRun(r), run[r].at = "done", Plain(r), run[r].op = "merge", Pristine(r)
    PROVE  Merged(r)
<1>1. Typed /\ Own(r)
  BY DEF Base
<1>2. Len(Ins(r)) \in Nat /\ DOMAIN Ins(r) = 1..Len(Ins(r))
  BY <1>1, InsAre
<1> DEFINE m == Len(Ins(r))
           all == FlattenSeq([k \in 1..m |-> PagesOf(Ins(r)[k])])
<1>3. Steps(run[r].op, Ins(r)) = m + 1 /\ \A j : Clean(r, j)
  BY DEF Steps, Clean, Each
<1>4. Ideal("merge", Ins(r), m + 1) = all
  <2>1. ~(m + 1 < m)
    BY <1>2
  <2> QED BY <2>1 DEF Ideal, Each
<1>5. \A j : Asked(r, j) = Merge(Ins(r), j, Ideal("merge", Ins(r), j))
  BY DEF Asked, Ought, Targets
<1>6. Asked(r, m + 1) = <<Write(Output("merged", "pdf", 0), all)>>
  <2>1. m + 1 > Len(Ins(r))
    BY <1>2
  <2> QED BY <1>4, <1>5, <2>1 DEF Merge
<1> HIDE DEF all
<1> DEFINE q == Output("merged", "pdf", 0)
<1>7. /\ 1 \in DOMAIN Asked(r, m + 1) /\ Asked(r, m + 1)[1].to = q /\ q[1] = "output"
      /\ \A n \in DOMAIN Asked(r, m + 1) : Asked(r, m + 1)[n].pieces = all
  BY <1>6 DEF Write, Output
<1>8. m + 1 \in 1..(m + 1)
  BY <1>2
<1>9. q \in DOMAIN disk /\ disk[q].by = r
  BY <1>3, <1>7, <1>8, DoneFacts
<1>10. PICK j \in 1..(m + 1) : \E n \in DOMAIN Asked(r, j) : disk[q].pieces = Asked(r, j)[n].pieces
  <2> HIDE DEF q
  <2> QED BY <1>3, <1>9, DoneFacts
<1>11. j = m + 1
  <2>1. j > Len(Ins(r))
    BY <1>5, <1>10 DEF Merge
  <2> QED BY <1>2, <2>1
<1>12. disk[q].pieces = all /\ disk[q] = Whole(r, disk[q].pieces)
  <2> HIDE DEF q
  <2> QED BY <1>7, <1>9, <1>10, <1>11, DoneFacts
<1> QED BY <1>2, <1>12 DEF Merged, all

\* The parts of a split.
LEMMA SplitDone ==
    ASSUME Base, NEW r \in Runs, QuietRun(r), run[r].at = "done", Plain(r), run[r].op = "split", Pristine(r)
    PROVE  Parted(r, "part")
<1> DEFINE p == Ins(r)[1]
           g == PagesOf(p)
           s == Stem(p)
           Part(k) == SubSeq(g, Chunk(k)[1], Chunk(k)[2])
<1>1. run[r].op \in Suites["pdf"] \ {"merge"}
  BY SuiteFacts
<1>2. /\ \A j : Clean(r, j)
      /\ \A j \in Nat \ {0} : Asked(r, j) = Targets("split", Ins(r), j, g)
      /\ g \in Seq(Sources \X Nat) /\ Len(g) = Pages /\ Pages \in Nat \ {0}
  BY <1>1, OneDocument
<1>3. Steps(run[r].op, Ins(r)) = PartCount /\ PartCount \in Nat
  BY PartCountNat DEF Steps
<1> HIDE DEF g
<1>4. ASSUME NEW j \in 1..PartCount
      PROVE  /\ 1 \in DOMAIN Asked(r, j) /\ Asked(r, j)[1].to = Output(s, "part", j)
             /\ \A n \in DOMAIN Asked(r, j) : n = 1 /\ Asked(r, j)[n].pieces = Part(j)
  <2>1. j \in Nat \ {0}
    BY <1>3
  <2>2. Asked(r, j) = <<Write(Output(s, "part", j), Part(j))>>
    BY <1>2, <2>1 DEF Targets, Split
  <2> HIDE DEF s, Part
  <2> QED BY <2>2 DEF Write
<1> HIDE DEF s, Part
<1>5. ASSUME NEW q \in DOMAIN disk, disk[q].by = r
      PROVE  \E j \in 1..PartCount : q = Output(s, "part", j) /\ disk[q].pieces = Part(j)
  <2>1. PICK j \in 1..PartCount : \E n \in DOMAIN Asked(r, j) : q = Asked(r, j)[n].to /\ disk[q].pieces = Asked(r, j)[n].pieces
    BY <1>2, <1>3, <1>5, DoneFacts
  <2> QED BY <1>4, <2>1
<1>6. ASSUME NEW j \in 1..PartCount
      PROVE  Output(s, "part", j) \in DOMAIN disk /\ disk[Output(s, "part", j)].by = r
  <2>1. Asked(r, j)[1].to[1] = "output"
    BY <1>4 DEF Output
  <2> QED BY <1>3, <1>4, <2>1, DoneFacts
<1>7. \A a, b : Output(s, "part", a) = Output(s, "part", b) => a = b
  BY DEF Output
<1>8. \A j \in 1..PartCount : disk[Output(s, "part", j)].pieces = Part(j)
  BY <1>5, <1>6, <1>7
<1> DEFINE f == [k \in 1..PartCount |-> Part(k)]
<1>9. /\ \A n \in 1..PartCount : /\ Output(s, "part", n) \in DOMAIN disk /\ disk[Output(s, "part", n)].by = r
                                 /\ disk[Output(s, "part", n)].pieces = f[n]
      /\ \A q \in DOMAIN disk : disk[q].by = r /\ q[3] = "part" => \E n \in 1..PartCount : q = Output(s, "part", n)
      /\ [n \in 1..PartCount |-> f[n]] = f
  BY <1>5, <1>6, <1>8
<1>10. FlattenSeq(f) = g
  BY <1>2, PartsCover, ConvertersAssumption DEF Part
<1> HIDE DEF f
<1>11. Together(r, s, "part") = FlattenSeq([n \in 1..PartCount |-> f[n]])
  BY <1>3, <1>9, Family
<1> QED BY <1>9, <1>10, <1>11 DEF Parted, g, s

\* The images of the pages.
LEMMA ImagesDone ==
    ASSUME Base, NEW r \in Runs, QuietRun(r), run[r].at = "done", Plain(r), run[r].op = "images", Pristine(r)
    PROVE  Parted(r, "images")
<1> DEFINE p == Ins(r)[1]
           g == PagesOf(p)
           s == Stem(p)
<1>1. run[r].op \in Suites["pdf"] \ {"merge"}
  BY SuiteFacts
<1>2. /\ \A j : Clean(r, j)
      /\ \A j \in Nat \ {0} : Asked(r, j) = Targets("images", Ins(r), j, g)
      /\ g \in Seq(Sources \X Nat) /\ Len(g) = Pages /\ Pages \in Nat \ {0}
  BY <1>1, OneDocument
<1>3. Steps(run[r].op, Ins(r)) = Pages + 1
  BY DEF Steps
<1> HIDE DEF g
<1>4. ASSUME NEW j \in 1..Pages
      PROVE  /\ 1 \in DOMAIN Asked(r, j) /\ Asked(r, j)[1].to = Output(s, "images", j)
             /\ \A n \in DOMAIN Asked(r, j) : n = 1 /\ Asked(r, j)[n].pieces = <<g[j]>>
  <2>1. j \in Nat \ {0} /\ ~(j > Pages)
    BY <1>2
  <2>2. Asked(r, j) = <<Write(Output(s, "images", j), <<g[j]>>)>>
    BY <1>2, <2>1 DEF Targets, ExtractImages
  <2> HIDE DEF s
  <2> QED BY <2>2 DEF Write
<1>5. ASSUME NEW j \in 1..(Pages + 1), Asked(r, j) # <<>> PROVE j \in 1..Pages
  <2>1. j \in Nat \ {0}
    BY <1>2
  <2>2. ~(j > Pages)
    BY <1>2, <1>5, <2>1 DEF Targets, ExtractImages
  <2> QED BY <1>2, <2>2
<1> HIDE DEF s
<1>6. ASSUME NEW q \in DOMAIN disk, disk[q].by = r
      PROVE  \E j \in 1..Pages : q = Output(s, "images", j) /\ disk[q].pieces = <<g[j]>>
  <2>1. PICK j \in 1..(Pages + 1) : \E n \in DOMAIN Asked(r, j) : q = Asked(r, j)[n].to /\ disk[q].pieces = Asked(r, j)[n].pieces
    BY <1>2, <1>3, <1>6, DoneFacts
  <2>2. Asked(r, j) # <<>>
    BY <2>1
  <2>3. j \in 1..Pages
    BY <1>5, <2>2
  <2> QED BY <1>4, <2>1, <2>3
<1>7. ASSUME NEW j \in 1..Pages
      PROVE  Output(s, "images", j) \in DOMAIN disk /\ disk[Output(s, "images", j)].by = r
  <2>1. Asked(r, j)[1].to[1] = "output"
    BY <1>4 DEF Output
  <2>2. j \in 1..(Pages + 1)
    BY <1>2
  <2> QED BY <1>3, <1>4, <2>1, <2>2, DoneFacts
<1>8. \A a, b : Output(s, "images", a) = Output(s, "images", b) => a = b
  BY DEF Output
<1>9. \A j \in 1..Pages : disk[Output(s, "images", j)].pieces = <<g[j]>>
  BY <1>6, <1>7, <1>8
<1> DEFINE f == [k \in 1..Pages |-> <<g[k]>>]
<1>10. /\ \A n \in 1..Pages : /\ Output(s, "images", n) \in DOMAIN disk /\ disk[Output(s, "images", n)].by = r
                              /\ disk[Output(s, "images", n)].pieces = f[n]
       /\ \A q \in DOMAIN disk : disk[q].by = r /\ q[3] = "images" => \E n \in 1..Pages : q = Output(s, "images", n)
       /\ [n \in 1..Pages |-> f[n]] = f
  BY <1>6, <1>7, <1>9
<1>11. FlattenSeq(f) = g
  BY <1>2, PagesCover
<1> HIDE DEF f
<1>12. Together(r, s, "images") = FlattenSeq([n \in 1..Pages |-> f[n]])
  BY <1>2, <1>10, Family
<1> QED BY <1>10, <1>11, <1>12 DEF Parted, g, s

\* The chunks of the packager.
LEMMA PackDone ==
    ASSUME Base, NEW r \in Runs, QuietRun(r), run[r].at = "done", Plain(r), run[r].op = "pack"
    PROVE  Chunked(r)
<1> DEFINE got == hand[r].got
           f == Pack(got)
           m == Len(f)
           k == Len(Ins(r)) + 1
<1>1. Typed /\ Own(r) /\ TextedRun(r)
  BY DEF Base
<1>2. Len(Ins(r)) \in Nat /\ suite = "packager"
  <2>1. suite = "packager"
    <3>1. suite \in DOMAIN Suites /\ run[r].op \in Suites[suite]
      BY <1>1, InsAre
    <3>2. run[r].op = "pack" <=> suite = "packager"
      BY <3>1, SuiteFacts
    <3> QED BY <3>2
  <2> QED BY <1>1, <2>1, InsAre
<1>3. got \in Seq(Texts) /\ (\A t \in Texts : Count(t) \in Nat) /\ Limit \in Nat
  BY <1>1, <1>2, TextCount, ConvertersAssumption DEF TextedRun, Texts
<1>4. f \in Seq(Seq(Texts)) /\ FlattenSeq(f) = got /\ \A j \in 1..Len(f) : Limit = 0 \/ Fits(f[j])
  BY <1>3, PackFacts
<1>5. m \in Nat /\ DOMAIN f = 1..m /\ f = [n \in 1..m |-> f[n]]
  <2> HIDE DEF f
  <2> QED BY <1>4
<1>6. Steps(run[r].op, Ins(r)) = k /\ k \in 1..k /\ \A j : Clean(r, j)
  BY <1>2 DEF Steps, Clean
<1>7. /\ \A j \in 1..k : Asked(r, j) # <<>> => j = k
      /\ DOMAIN Asked(r, k) = 1..m
      /\ \A n \in 1..m : Asked(r, k)[n].to = Output("context", "txt", n) /\ Asked(r, k)[n].pieces = Headed(f[n])
  <2>1. \A j : Asked(r, j) = WriteChunks(Ins(r), j, got)
    BY DEF Asked, Ought, Targets
  <2>2. \A j \in 1..k : Asked(r, j) # <<>> => j = k
    <3> TAKE j \in 1..k
    <3>1. j \in Nat /\ (j <= Len(Ins(r)) \/ j = k)
      BY <1>2
    <3> QED BY <2>1, <3>1 DEF WriteChunks
  <2>3. Asked(r, k) = [n \in DOMAIN f |-> Write(Output("context", "txt", n), Headed(f[n]))]
    <3>1. ~(k <= Len(Ins(r)))
      BY <1>2
    <3> QED BY <2>1, <3>1 DEF WriteChunks
  <2> HIDE DEF f, k
  <2> QED BY <1>5, <2>2, <2>3 DEF Write
<1> HIDE DEF f, k, m, got
<1>8. ASSUME NEW q \in DOMAIN disk, disk[q].by = r
      PROVE  \E n \in 1..m : q = Output("context", "txt", n) /\ disk[q].pieces = Headed(f[n])
  <2>1. PICK j \in 1..k : \E n \in DOMAIN Asked(r, j) : q = Asked(r, j)[n].to /\ disk[q].pieces = Asked(r, j)[n].pieces
    BY <1>6, <1>8, DoneFacts
  <2>2. Asked(r, j) # <<>>
    BY <2>1
  <2> QED BY <1>7, <2>1, <2>2
<1>9. ASSUME NEW n \in 1..m
      PROVE  Output("context", "txt", n) \in DOMAIN disk /\ disk[Output("context", "txt", n)].by = r
  <2>1. Asked(r, k)[n].to[1] = "output" /\ n \in Nat \cap DOMAIN Asked(r, k)
    BY <1>5, <1>7 DEF Output
  <2>2. \A i \in Nat \cap DOMAIN Asked(r, k) :
           Asked(r, k)[i].to[1] = "output" => Asked(r, k)[i].to \in DOMAIN disk /\ disk[Asked(r, k)[i].to].by = r
    <3>1. k \in 1..Steps(run[r].op, Ins(r))
      BY <1>6
    <3> QED BY <3>1, DoneFacts
  <2>3. Asked(r, k)[n].to \in DOMAIN disk /\ disk[Asked(r, k)[n].to].by = r
    BY <2>1, <2>2
  <2> QED BY <1>7, <2>3
<1>10. \A a, b : Output("context", "txt", a) = Output("context", "txt", b) => a = b
  BY DEF Output
<1> DEFINE F == [n \in 1..m |-> Headed(f[n])]
<1>11. /\ \A n \in 1..m : /\ Output("context", "txt", n) \in DOMAIN disk /\ disk[Output("context", "txt", n)].by = r
                          /\ disk[Output("context", "txt", n)].pieces = F[n]
       /\ \A q \in DOMAIN disk : disk[q].by = r /\ q[3] = "txt" => \E n \in 1..m : q = Output("context", "txt", n)
  BY <1>8, <1>9, <1>10
<1>12. Cardinality(Mine(r, "txt")) = m
  <2>1. /\ m \in Nat
        /\ \A n \in 1..m : /\ Output("context", "txt", n) \in DOMAIN disk /\ disk[Output("context", "txt", n)].by = r
                          /\ disk[Output("context", "txt", n)].pieces = F[n]
        /\ \A q \in DOMAIN disk : disk[q].by = r /\ q[3] = "txt" => \E n \in 1..m : q = Output("context", "txt", n)
    BY <1>5, <1>11
  <2> HIDE DEF F
  <2>2. /\ Together(r, "context", "txt") = FlattenSeq([n \in 1..m |-> F[n]])
        /\ Cardinality(Mine(r, "txt")) = m
    BY <2>1, Family
  <2> QED BY <2>2
<1>13. \A n \in 1..m : Body(disk[Output("context", "txt", n)].pieces) = f[n]
  <2> TAKE n \in 1..m
  <2>1. f[n] \in Seq(Texts)
    BY <1>4, <1>5
  <2>2. \A i \in Nat : <<Heading, i>> \in Texts
    BY DEF Texts
  <2>3. Body(Headed(f[n])) = f[n]
    BY <2>1, <2>2, HeadedFacts
  <2> QED BY <1>11, <2>3
<1>14. Chunks(r) = f
  <2>1. Chunks(r) = [n \in 1..m |-> f[n]]
    BY <1>12, <1>13 DEF Chunks
  <2> QED BY <1>5, <2>1
<1>15. \A n \in DOMAIN f : Limit = 0 \/ Len(f[n]) = 1 \/ TokensOf(f[n]) <= Limit
  BY <1>4, <1>5 DEF Fits, m
<1> QED BY <1>4, <1>14, <1>15 DEF Chunked, got

\* DoneAsAsked, for any sources and lists, whatever is done to the list meanwhile and
\* whatever probe says, any length of document and limit of a chunk's texts: of a
\* run that nobody disturbed each file is one that a step of it asked for, and
\* holds what the step ought to have read.
THEOREM DoneIsAsAsked == Spec => []DoneAsAsked
<1>1. Base /\ (\A r \in Runs : QuietRun(r)) => DoneAsAsked
  <2> SUFFICES ASSUME Base, \A r \in Runs : QuietRun(r), NEW r \in Runs, run[r].at = "done", Plain(r)
               PROVE  /\ \A q \in DOMAIN disk : disk[q].by = r => disk[q].whole
                      /\ run[r].op \in Copied => EachCopied(r)
                      /\ run[r].op = "merge" /\ Pristine(r) => Merged(r)
                      /\ run[r].op = "split" /\ Pristine(r) => Parted(r, "part")
                      /\ run[r].op = "images" /\ Pristine(r) => Parted(r, "images")
                      /\ run[r].op = "pack" => Chunked(r)
    BY DEF DoneAsAsked
  <2>1. QuietRun(r)
    OBVIOUS
  <2>2. \A q \in DOMAIN disk : disk[q].by = r => disk[q].whole
    BY <2>1, DoneFacts
  <2>3. run[r].op \in Copied => run[r].op \in Each \/ run[r].op \in {"rotate", "docx"}
    BY DEF Copied, Each
  <2>4. run[r].op \in Copied => EachCopied(r)
    BY <2>1, <2>3, EachDone, DocumentDone
  <2> QED BY <2>1, <2>2, <2>4, MergeDone, SplitDone, ImagesDone, PackDone
<1> QED BY <1>1, QuietHolds, PTL

-----------------------------------------------------------------------------
(* No unlocked copy lingers.                                               *)

\* The converter has come to its end, one way or the other.
Converted(r) == \/ hand[r].at = "failed" /\ Len(hand[r].got) = 2 * Pages
                \/ run[r].k = 2 /\ hand[r].at = "ended"
                \/ run[r].k = 3
Unlocks(r)  == run[r].op = "docx" /\ Ins(r)[1] \in Locked /\ Plain(r) /\ Pristine(r)
TidyRun(r)  == Unlocks(r) /\ Converted(r) => Scratch(Ins(r)[1]) \notin DOMAIN disk

\* How much is read of a document that is to be converted.
LEMMA ReadOf ==
    ASSUME Base, NEW r \in Runs, LearnedRun(r), Unlocks(r)
    PROVE  /\ run[r].at # "none" /\ suite = "pdf" /\ Pages \in Nat \ {0} /\ run[r].k \in 1..3
           /\ Works(r) \/ hand[r].at = "ended" => run[r].k \in {1, 2}
           /\ hand[r].at # "failed" => Len(hand[r].got) = IF Seen(r) = 0 THEN 0 ELSE IF Seen(r) = 1 THEN Pages ELSE 2 * Pages
<1>1. Typed /\ Own(r)
  BY DEF Base
<1>2. run[r].at # "none"
  BY <1>1 DEF Own, NoRun, Unlocks
<1>3. suite = "pdf"
  BY <1>1, <1>2, SuiteFacts DEF Own, Unlocks, Typed
<1>4. Steps(run[r].op, Ins(r)) = 2
  BY DEF Steps, Unlocks
<1>5. run[r].k \in 1..3 /\ (Works(r) \/ hand[r].at = "ended" => run[r].k \in {1, 2})
  BY <1>1, <1>2, <1>4 DEF Own
<1>6. run[r].op \in Suites["pdf"] \ {"merge"}
  BY SuiteFacts DEF Unlocks
<1>7. PagesOf(Ins(r)[1]) \in Seq(Sources \X Nat) /\ Len(PagesOf(Ins(r)[1])) = Pages /\ Pages \in Nat \ {0}
  BY <1>2, <1>6, OneDocument
<1>8. Seen(r) \in Nat
  BY <1>5 DEF Seen
<1>9. ASSUME hand[r].at # "failed"
      PROVE  Len(hand[r].got) = IF Seen(r) = 0 THEN 0 ELSE IF Seen(r) = 1 THEN Pages ELSE 2 * Pages
  <2>1. hand[r].got = Ideal("docx", Ins(r), Seen(r))
    BY <1>2, <1>3, <1>9 DEF LearnedRun, Unlocks
  <2> DEFINE g == PagesOf(Ins(r)[1])
  <2>2. \A j \in Nat : Ideal("docx", Ins(r), j) = IF j = 0 THEN <<>> ELSE IF j > 1 THEN g \o g ELSE g
    BY DEF Ideal, Each
  <2> HIDE DEF g
  <2>3. Len(g) = Pages /\ g \in Seq(Sources \X Nat)
    BY <1>7 DEF g
  <2>4. Len(g \o g) = 2 * Pages
    <3>1. Len(g \o g) = Len(g) + Len(g)
      BY <2>3, ConcatProperties
    <3> QED BY <1>7, <2>3, <3>1
  <2>5. CASE Seen(r) = 0
    BY <2>1, <2>2, <2>5
  <2>6. CASE Seen(r) = 1
    BY <2>1, <2>2, <2>3, <2>6
  <2>7. CASE Seen(r) # 0 /\ Seen(r) # 1
    <3>1. Seen(r) > 1
      BY <1>8, <2>7
    <3>2. hand[r].got = g \o g
      BY <1>8, <2>1, <2>2, <2>7, <3>1
    <3> QED BY <2>4, <2>7, <3>2
  <2> QED BY <2>5, <2>6, <2>7
<1> QED BY <1>2, <1>3, <1>5, <1>7, <1>9

LEMMA TidyNext ==
    ASSUME Base, NEW r \in Runs, LearnedRun(r), TidyRun(r), Acts(r), ~Begin(r), Unlocks(r), Converted(r)'
    PROVE  Scratch(Ins(r)[1]) \notin DOMAIN disk'
<1>1. Typed /\ Own(r)
  BY DEF Base
<1>2. /\ run[r].at # "none" /\ suite = "pdf" /\ Pages \in Nat \ {0} /\ run[r].k \in 1..3
      /\ Works(r) \/ hand[r].at = "ended" => run[r].k \in {1, 2}
      /\ hand[r].at # "failed" => Len(hand[r].got) = IF Seen(r) = 0 THEN 0 ELSE IF Seen(r) = 1 THEN Pages ELSE 2 * Pages
  BY ReadOf
<1>3. run[r].op = "docx" /\ Ins(r)[1] \in Locked
  BY DEF Unlocks
<1>4. \/ hand'[r].at = "failed" /\ Len(hand'[r].got) = 2 * Pages
      \/ run'[r].k = 2 /\ hand'[r].at = "ended"
      \/ run'[r].k = 3
  BY DEF Converted
<1>5. hand[r].at \notin {"probed", "encoding"} /\ coder[r].at = "none"
  BY <1>1, <1>2 DEF Own
<1>6. ASSUME Converted(r), disk' = disk PROVE Scratch(Ins(r)[1]) \notin DOMAIN disk'
  BY <1>6 DEF TidyRun
<1>7. CASE Abandon(r) \/ Break(r) \/ Relay(r) \/ (Fail(r) \/ Finish(r)) \/ (Progress(r) \/ Complain(r) \/ Drain(r) \/ Pump(r))
  <2>1. hand' = hand /\ disk' = disk /\ run'[r].k = run[r].k
    BY <1>1, <1>7, AbandonDoes, BreakDoes, RelayDoes, EndDoes, EncodingDoes DEF Course
  <2> QED BY <1>4, <1>6, <2>1 DEF Converted
<1>8. CASE Call(r)
  <2>1. Place(r, "reading") /\ run' = run /\ run[r].k <= 2
    BY <1>1, <1>3, <1>8, CallDoes DEF Steps
  <2> QED BY <1>4, <2>1 DEF Place
<1>9. CASE Advance(r)
  <2>1. hand[r].at = "ended" /\ hand'[r].at = "idle" /\ run'[r].k = run[r].k + 1 /\ disk' = disk
    BY <1>1, <1>9, AdvanceDoes
  <2>2. run[r].k = 2
    BY <1>2, <1>4, <2>1
  <2> QED BY <1>6, <2>1, <2>2 DEF Converted
<1>10. CASE Read(r)
  <2>1. hand[r].at = "reading" /\ hand'[r].at \in {"ended", "writing"} /\ run' = run /\ (hand'[r].at = "ended" => DueThen(r) = <<>>)
    BY <1>1, <1>2, <1>10, ReadDoes
  <2>2. run[r].k = 2 => DueThen(r) # <<>>
    BY <1>3 DEF DueThen, Targets, ToDocx
  <2>3. run[r].k \in {1, 2}
    BY <1>2, <2>1 DEF Works
  <2> QED BY <1>4, <2>1, <2>2, <2>3
<1>11. CASE ReadFails(r)
  <2>1. hand[r].at = "reading" /\ Place(r, "failed") /\ run' = run
    BY <1>1, <1>2, <1>11, ReadFailsDoes
  <2>2. run[r].k \in {1, 2} /\ Seen(r) = run[r].k - 1
    BY <1>2, <2>1 DEF Works, Seen
  <2>3. Len(hand[r].got) # 2 * Pages
    <3>1. Seen(r) \in {0, 1}
      BY <2>2
    <3>2. Len(hand[r].got) \in {0, Pages}
      BY <1>2, <2>1, <3>1
    <3> QED BY <1>2, <3>2
  <2> QED BY <1>4, <2>1, <2>2, <2>3 DEF Place
<1>12. CASE Truncate(r)
  <2>1. hand[r].at = "writing" /\ Place(r, "filling") /\ run' = run
    BY <1>1, <1>12, TruncateDoes
  <2> QED BY <1>2, <1>4, <2>1 DEF Place, Works
<1>13. CASE Close(r)
  <2>1. /\ hand[r].at = "filling" /\ run' = run
        /\ hand'[r].at = IF hand[r].n = Len(Due(r)) THEN "ended" ELSE "writing"
        /\ disk' = IF hand[r].n = Len(Due(r)) THEN Tidied(r, Filled(r)) ELSE Filled(r)
    BY <1>1, <1>13, CloseDoes
  <2>2. run[r].k \in {1, 2}
    BY <1>2, <2>1 DEF Works
  <2>3. hand'[r].at = "ended" /\ run[r].k = 2
    BY <1>4, <2>1, <2>2
  <2>4. Docx2(r) /\ disk' = Tidied(r, Filled(r))
    BY <1>3, <2>1, <2>3 DEF Docx2
  <2> QED BY <2>4 DEF Tidied, Restrict
<1>14. CASE WriteFails(r)
  <2>1. hand[r].at = "filling" /\ Place(r, "failed") /\ run' = run /\ disk' = Tidied(r, disk)
    BY <1>1, <1>14, WriteFailsDoes
  <2>2. run[r].k \in {1, 2} /\ Seen(r) = run[r].k
    BY <1>2, <2>1 DEF Works, Seen
  <2>3. run[r].k = 2
    <3>1. Len(hand[r].got) = 2 * Pages
      BY <1>4, <2>1, <2>2 DEF Place
    <3>2. run[r].k = 1 => Len(hand[r].got) = Pages
      BY <1>2, <2>1, <2>2
    <3> QED BY <1>2, <2>2, <3>1, <3>2
  <2>4. Docx2(r)
    BY <1>3, <2>3 DEF Docx2
  <2> QED BY <2>1, <2>4 DEF Tidied, Restrict
<1>16. CASE Probe(r)
  BY <1>1, <1>2, <1>16, ProbeDoes
<1>15. CASE Spawn(r) \/ Complete(r) \/ Wait(r) \/ PumpLate(r)
  BY <1>1, <1>5, <1>15, SpawnDoes, CompleteDoes, WaitDoes, PumpLateDoes
<1> QED BY <1>7, <1>8, <1>9, <1>10, <1>11, <1>12, <1>13, <1>14, <1>15, <1>16, ActsAre

LEMMA TidyStep ==
    ASSUME Base, NEW r \in Runs, LearnedRun(r), TidyRun(r), Next
    PROVE  TidyRun(r)'
<1> SUFFICES ASSUME Unlocks(r)', Converted(r)' PROVE Scratch(Ins(r)[1])' \notin DOMAIN disk'
  BY DEF TidyRun
<1>1. Typed /\ Own(r)
  BY DEF Base
<1>2. ASSUME Panel \/ Deletes PROVE Scratch(Ins(r)[1])' \notin DOMAIN disk'
  <2>1. UNCHANGED <<suite, run, hand, coder, mixed>>
    BY <1>2, PanelSame
  <2>2. Pristine(r) /\ Plain(r) /\ Ins(r)' = Ins(r)
    BY <1>2, <2>1, CleanBack, PlainPanel DEF Unlocks, Ins
  <2>3. Unlocks(r) /\ Converted(r)
    BY <2>1, <2>2 DEF Unlocks, Converted
  <2>4. Scratch(Ins(r)[1])' = Scratch(Ins(r)[1])
    BY <2>2 DEF Scratch, Stem
  <2> QED BY <1>2, <2>3, <2>4, FilesBack DEF TidyRun
<1>3. ASSUME NEW s \in Runs, Acts(s) PROVE Scratch(Ins(r)[1])' \notin DOMAIN disk'
  <2>1. CASE run[r].at = "none"
    <3>1. CASE s = r
      <4>1. Begin(r)
        BY <1>1, <1>3, <2>1, <3>1, Acting
      <4>2. run'[r].k = 1 /\ hand' = hand /\ hand[r].at = "idle"
        BY <1>1, <2>1, <4>1, BeginDoes DEF Own, NoHand
      <4> QED BY <4>2 DEF Converted
    <3>2. CASE s # r
      <4>1. run'[r] = NoRun
        BY <1>1, <1>3, <2>1, <3>2, Others DEF Own, Same
      <4> QED BY <4>1 DEF Unlocks, NoRun
    <3> QED BY <3>1, <3>2
  <2>2. CASE run[r].at # "none"
    <3>1. Plain(r) /\ s = r
      BY <1>3, <2>2, PlainAlone DEF Unlocks
    <3>2. ~Begin(r)
      BY <1>1, <2>2, BeginDoes
    <3>3. run'[r].op = run[r].op /\ run'[r].ins = run[r].ins /\ Ins(r)' = Ins(r)
      BY <1>1, <1>3, <3>1, <3>2, Acting DEF Ins
    <3>4. Unlocks(r)
      BY <3>1, <3>3, CleanBack DEF Unlocks
    <3>5. Scratch(Ins(r)[1])' = Scratch(Ins(r)[1])
      BY <3>3 DEF Scratch, Stem
    <3> QED BY <1>3, <3>1, <3>2, <3>4, <3>5, TidyNext
  <2> QED BY <2>1, <2>2
<1> QED BY <1>2, <1>3, NextIs DEF Acts

\* NoUnlockedCopy, for a document of any length: when the converter has come to its
\* end, in whichever way, it has removed the copy, and nobody writes it again.
THEOREM NoneUnlocked == Spec => []NoUnlockedCopy
<1> DEFINE Q == \A r \in Runs : QuietRun(r)
           D == \A r \in Runs : TidyRun(r)
<1>1. Init => D
  <2> SUFFICES ASSUME Init, NEW r \in Runs PROVE TidyRun(r)
    OBVIOUS
  <2>1. run[r].op = "convert"
    BY DEF Init, NoRun
  <2> QED BY <2>1 DEF TidyRun, Unlocks
<1>2. Base /\ Q /\ D /\ [Next]_vars => D'
  <2>1. ASSUME Base, Q, D, Next PROVE D'
    <3> SUFFICES ASSUME NEW r \in Runs PROVE TidyRun(r)'
      OBVIOUS
    <3>1. LearnedRun(r) /\ TidyRun(r)
      BY <2>1 DEF QuietRun
    <3> QED BY <2>1, <3>1, TidyStep
  <2>2. ASSUME D, UNCHANGED vars PROVE D'
    <3> SUFFICES ASSUME NEW r \in Runs PROVE TidyRun(r)'
      OBVIOUS
    <3>1. UNCHANGED <<run, hand, mixed, disk>>
      BY <2>2 DEF vars, work
    <3>2. TidyRun(r)
      BY <2>2
    <3> QED BY <3>1, <3>2 DEF TidyRun, Unlocks, Converted, Plain, Pristine, Untouched, Legible, Ins, Scratch, Stem
  <2> QED BY <2>1, <2>2
<1>3. Base /\ Q /\ D => NoUnlockedCopy
  <2> SUFFICES ASSUME Base, Q, D, NEW r \in Runs, Unlocks(r), ~Works(r), Len(hand[r].got) = 2 * Pages
               PROVE  Scratch(Ins(r)[1]) \notin DOMAIN disk
    BY DEF NoUnlockedCopy, Unlocks
  <2>1. TidyRun(r) /\ LearnedRun(r) /\ Typed
    BY DEF QuietRun, Base
  <2>2. /\ Pages \in Nat \ {0} /\ run[r].k \in 1..3
        /\ hand[r].at = "ended" => run[r].k \in {1, 2}
        /\ hand[r].at # "failed" => Len(hand[r].got) = IF Seen(r) = 0 THEN 0 ELSE IF Seen(r) = 1 THEN Pages ELSE 2 * Pages
    BY <2>1, ReadOf
  <2>3. hand[r].at \in {"idle", "ended", "failed"}
    BY <2>1, OwnTypes DEF Works, Places
  <2>4. hand[r].at # "failed" => Seen(r) # 0 /\ Seen(r) # 1
    BY <2>2
  <2>5. Converted(r)
    BY <2>2, <2>3, <2>4 DEF Converted, Seen
  <2> QED BY <2>1, <2>5 DEF TidyRun
<1> HIDE DEF Q, D
<1>4. Spec => [](Base /\ Q)
  BY QuietHolds DEF Q
<1> QED BY <1>1, <1>2, <1>3, <1>4, PTL DEF Spec

================================================================================
