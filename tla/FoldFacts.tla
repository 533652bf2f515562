----------------------------- MODULE FoldFacts -----------------------------
(***************************************************************************)
(* What FoldLeft of the community modules returns, for any body of the     *)
(* loop, and induction over numbers and sequences.  The induction theorems *)
(* of the library take the statement as a parameter; here it is a set, and *)
(* the body is a constant that a module substitutes by INSTANCE.           *)
(***************************************************************************)
EXTENDS Integers, Sequences, SequencesExt, WellFoundedInduction, TLAPS

CONSTANT body(_, _, _)      \* what the loop depends on, the result so far and
                            \* the next element

Looped(env, first, s) == FoldLeft(LAMBDA result, e : body(env, result, e), first, s)

-----------------------------------------------------------------------------
(* Induction.                                                              *)

\* A set of natural numbers that is not empty has a least element.
LEMMA LeastOfNaturals ==
    ASSUME NEW T \in SUBSET Nat, T # {}
    PROVE  \E n \in T : \A m \in T : n <= m
<1> DEFINE Less == {pair \in Nat \X Nat : pair[1] < pair[2]}
<1>1. IsWellFoundedOn(Less, Nat)
  BY NatLessThanWellFounded DEF OpToRel
<1>2. \E n \in T : \A m \in T : ~(<<m, n>> \in Less)
  <2> HIDE DEF Less
  <2> QED
    BY <1>1, WFMin
<1>3. PICK n \in T : \A m \in T : ~(<<m, n>> \in Less)
  BY <1>2
<1>4. ASSUME NEW m \in T PROVE n <= m
  <2>1. ~(<<m, n>> \in Nat \X Nat /\ m < n)
    BY <1>3
  <2> QED
    BY <2>1
<1> QED
  BY <1>4

\* Induction: a set with 0 and the successor of each of its numbers has all.
LEMMA NumberInduction ==
    ASSUME NEW P, 0 \in P, \A n \in Nat : n \in P => n + 1 \in P
    PROVE  Nat \subseteq P
<1> SUFFICES ASSUME Nat \ P # {} PROVE FALSE
  OBVIOUS
<1>1. PICK n \in Nat \ P : \A m \in Nat \ P : n <= m
  <2> Nat \ P \in SUBSET Nat
    OBVIOUS
  <2> QED
    BY LeastOfNaturals
<1>2. n - 1 \in Nat
  BY <1>1
<1>3. n - 1 \in P
  BY <1>1, <1>2
<1> QED
  BY <1>1, <1>2, <1>3

\* Induction over a sequence, from its first element to its last.
LEMMA SequenceInduction ==
    ASSUME NEW S, NEW P, <<>> \in P,
           \A s \in Seq(S), e \in S : s \in P => Append(s, e) \in P
    PROVE  Seq(S) \subseteq P
<1> DEFINE Q == {n \in Nat : \A s \in Seq(S) : Len(s) = n => s \in P}
<1>1. 0 \in Q
  <2> SUFFICES ASSUME NEW s \in Seq(S), Len(s) = 0 PROVE s \in P
    OBVIOUS
  <2>1. s = <<>>
    OBVIOUS
  <2> QED
    BY <2>1
<1>2. ASSUME NEW n \in Nat, n \in Q PROVE n + 1 \in Q
  <2> SUFFICES ASSUME NEW s \in Seq(S), Len(s) = n + 1 PROVE s \in P
    OBVIOUS
  <2> DEFINE front == SubSeq(s, 1, n)
  <2>1. front \in Seq(S) /\ Len(front) = n /\ s[n + 1] \in S
    OBVIOUS
  <2>2. s = Append(front, s[n + 1])
    OBVIOUS
  <2>3. front \in P
    BY <1>2, <2>1
  <2> HIDE DEF front
  <2> QED
    BY <2>1, <2>2, <2>3
<1> HIDE DEF Q
<1>3. Nat \subseteq Q
  BY <1>1, <1>2, NumberInduction
<1> QED
  BY <1>3 DEF Q

-----------------------------------------------------------------------------
(* The recursive function behind FoldLeft.                                 *)

\* The largest of some of the first n + 1 numbers, and what is left without it.
LEMMA MaxOfInterval ==
    ASSUME NEW n \in Nat, NEW x \in SUBSET (1 .. n + 1), x # {}
    PROVE  /\ Max(x) \in x
           /\ n + 1 \in x => Max(x) = n + 1
           /\ x \ {Max(x)} \in SUBSET (1 .. n)
<1> DEFINE Gaps == {n + 1 - y : y \in x}
<1>1. PICK gap \in Gaps : \A k \in Gaps : gap <= k
  <2>1. PICK y \in x : TRUE
    OBVIOUS
  <2>2. n + 1 - y \in Gaps
    OBVIOUS
  <2>3. Gaps \in SUBSET Nat
    OBVIOUS
  <2> HIDE DEF Gaps
  <2> QED
    BY <2>2, <2>3, LeastOfNaturals
<1>2. PICK y \in x : gap = n + 1 - y
  OBVIOUS
<1>3. ASSUME NEW z \in x PROVE y >= z
  <2>1. gap <= n + 1 - z
    BY <1>1
  <2> QED
    BY <2>1, <1>2
<1> DEFINE m == Max(x)
<1>4. m \in x /\ \A z \in x : m >= z
  BY <1>3 DEF Max
<1>5. ASSUME n + 1 \in x PROVE m = n + 1
  <2>1. m \in 1 .. n + 1 /\ m >= n + 1
    BY <1>4, <1>5
  <2> HIDE DEF m
  <2> QED
    BY <2>1
<1>6. ASSUME NEW z \in x \ {m} PROVE z \in 1 .. n
  <2>1. z \in 1 .. n + 1 /\ m \in 1 .. n + 1 /\ m >= z /\ z # m
    BY <1>4
  <2> HIDE DEF m
  <2> QED
    BY <2>1
<1> QED
  BY <1>4, <1>5, <1>6

Step(f, env, first, s, x) ==
    IF x = {} THEN first ELSE body(env, f[x \ {Max(x)}], s[Max(x)])

Loops(f, env, first, s, n) == f = [x \in SUBSET (1 .. n) |-> Step(f, env, first, s, x)]

\* There is such a function for every length.
LEMMA LoopsExists ==
    ASSUME NEW env, NEW first, NEW s, NEW n \in Nat
    PROVE  \E f : Loops(f, env, first, s, n)
<1> DEFINE P == {k \in Nat : \E f : Loops(f, env, first, s, k)}
<1>1. 0 \in P
  <2> DEFINE f == [x \in SUBSET (1 .. 0) |-> first]
  <2>1. SUBSET (1 .. 0) = {{}}
    OBVIOUS
  <2>2. Loops(f, env, first, s, 0)
    BY <2>1 DEF Loops, Step
  <2> QED
    BY <2>2
<1>2. ASSUME NEW k \in Nat, k \in P PROVE k + 1 \in P
  <2>1. PICK f : Loops(f, env, first, s, k)
    BY <1>2
  <2> DEFINE D == SUBSET (1 .. k + 1)
             g == [x \in D |-> Step(f, env, first, s, x)]
  <2>2. ASSUME NEW x \in SUBSET (1 .. k) PROVE g[x] = f[x]
    <3>1. x \in SUBSET (1 .. k + 1)
      OBVIOUS
    <3> QED
      BY <3>1, <2>1 DEF Loops
  <2>3. ASSUME NEW x \in D PROVE Step(f, env, first, s, x) = Step(g, env, first, s, x)
    <3>1. CASE x = {}
      BY <3>1 DEF Step
    <3>2. CASE x # {}
      <4> HIDE DEF g
      <4>1. x \ {Max(x)} \in SUBSET (1 .. k)
        BY <3>2, MaxOfInterval
      <4> QED
        BY <4>1, <2>2, <3>2 DEF Step
    <3> QED
      BY <3>1, <3>2
  <2>4. g = [x \in D |-> Step(f, env, first, s, x)]
    OBVIOUS
  <2>5. g = [x \in D |-> Step(g, env, first, s, x)]
    <3> HIDE DEF g, D
    <3> QED
      BY <2>3, <2>4
  <2>6. Loops(g, env, first, s, k + 1)
    <3> HIDE DEF g
    <3> QED
      BY <2>5 DEF Loops
  <2> QED
    BY <2>6
<1> HIDE DEF P
<1>3. Nat \subseteq P
  BY <1>1, <1>2, NumberInduction
<1> QED
  BY <1>3 DEF P

\* And FoldLeft applies one.
LEMMA LoopedIs ==
    ASSUME NEW env, NEW first, NEW S, NEW s \in Seq(S)
    PROVE  \E f : /\ Loops(f, env, first, s, Len(s))
                  /\ Looped(env, first, s) = f[1 .. Len(s)]
<1> DEFINE iter == CHOOSE f : Loops(f, env, first, s, Len(s))
<1>1. Loops(iter, env, first, s, Len(s))
  <2>1. \E f : Loops(f, env, first, s, Len(s))
    <3> Len(s) \in Nat
      OBVIOUS
    <3> QED
      BY LoopsExists
  <2> HIDE DEF Loops
  <2> QED
    BY <2>1
<1>2. DOMAIN s = 1 .. Len(s)
  OBVIOUS
<1>3. Looped(env, first, s) = iter[DOMAIN s]
  BY <1>2 DEF Looped, FoldLeft, MapThenFoldSet, Loops, Step
<1> QED
  BY <1>1, <1>2, <1>3

\* The function on the first k numbers is the result after k elements.
LEMMA LoopsStep ==
    ASSUME NEW f, NEW env, NEW first, NEW s, NEW n \in Nat, Loops(f, env, first, s, n)
    PROVE  /\ f[1 .. 0] = first
           /\ \A k \in 0 .. n - 1 : f[1 .. k + 1] = body(env, f[1 .. k], s[k + 1])
<1>1. f[1 .. 0] = first
  <2>1. 1 .. 0 \in SUBSET (1 .. n) /\ 1 .. 0 = {}
    OBVIOUS
  <2>2. f[1 .. 0] = Step(f, env, first, s, 1 .. 0)
    BY <2>1 DEF Loops
  <2> QED
    BY <2>1, <2>2 DEF Step
<1>2. ASSUME NEW k \in 0 .. n - 1
      PROVE  f[1 .. k + 1] = body(env, f[1 .. k], s[k + 1])
  <2> DEFINE x == 1 .. k + 1
  <2>1. /\ x \in SUBSET (1 .. k + 1) /\ x \in SUBSET (1 .. n)
        /\ x # {} /\ k + 1 \in x /\ k \in Nat
    <3>1. k \in Nat /\ k + 1 \in x
      OBVIOUS
    <3>2. x \in SUBSET (1 .. k + 1) /\ x \in SUBSET (1 .. n)
      OBVIOUS
    <3> HIDE DEF x
    <3> QED
      BY <3>1, <3>2
  <2>2. Max(x) = k + 1
    <3> HIDE DEF x
    <3> QED
      BY <2>1, MaxOfInterval
  <2>3. x \ {Max(x)} = 1 .. k
    BY <2>2
  <2>4. f[x] = Step(f, env, first, s, x)
    BY <2>1 DEF Loops
  <2> HIDE DEF x
  <2>5. f[x] = body(env, f[1 .. k], s[k + 1])
    BY <2>1, <2>2, <2>3, <2>4 DEF Step
  <2> QED
    BY <2>5 DEF x
<1> QED
  BY <1>1, <1>2

-----------------------------------------------------------------------------
(* What FoldLeft returns.                                                  *)

\* A loop over nothing returns what it starts with.
LEMMA LoopedEmpty ==
    ASSUME NEW env, NEW first
    PROVE  Looped(env, first, <<>>) = first
<1>1. <<>> \in Seq({}) /\ Len(<<>>) = 0
  OBVIOUS
<1>2. PICK f : Loops(f, env, first, <<>>, 0) /\ Looped(env, first, <<>>) = f[1 .. 0]
  <2> HIDE DEF Looped, Loops
  <2> QED
    BY <1>1, LoopedIs
<1> QED
  BY <1>2, LoopsStep

\* One element more runs the body once more, on the result so far.
LEMMA LoopedAppend ==
    ASSUME NEW env, NEW first, NEW S, NEW s \in Seq(S), NEW e \in S
    PROVE  Looped(env, first, Append(s, e)) = body(env, Looped(env, first, s), e)
<1> DEFINE t == Append(s, e)
           n == Len(s)
<1>1. /\ t \in Seq(S) /\ Len(t) = n + 1 /\ n \in Nat /\ t[n + 1] = e
      /\ \A i \in 1 .. n : t[i] = s[i]
  OBVIOUS
<1>2. PICK f : Loops(f, env, first, s, n) /\ Looped(env, first, s) = f[1 .. n]
  BY LoopedIs
<1>3. PICK g : Loops(g, env, first, t, n + 1) /\ Looped(env, first, t) = g[1 .. n + 1]
  <2> HIDE DEF t
  <2> QED
    BY <1>1, LoopedIs
<1> HIDE DEF n, t
<1> DEFINE P == {k \in Nat : k <= n => g[1 .. k] = f[1 .. k]}
<1>4. 0 \in P
  BY <1>1, <1>2, <1>3, LoopsStep
<1>5. ASSUME NEW k \in Nat, k \in P PROVE k + 1 \in P
  <2> SUFFICES ASSUME k + 1 <= n PROVE g[1 .. k + 1] = f[1 .. k + 1]
    OBVIOUS
  <2>1. k \in 0 .. n - 1 /\ k \in 0 .. (n + 1) - 1 /\ n + 1 \in Nat /\ k + 1 \in 1 .. n
    BY <1>1
  <2>2. g[1 .. k + 1] = body(env, g[1 .. k], t[k + 1])
    BY <2>1, <1>3, LoopsStep
  <2>3. f[1 .. k + 1] = body(env, f[1 .. k], s[k + 1])
    BY <2>1, <1>1, <1>2, LoopsStep
  <2> QED
    BY <2>1, <2>2, <2>3, <1>1, <1>5
<1> HIDE DEF P
<1>6. n \in P
  BY <1>1, <1>4, <1>5, NumberInduction
<1>7. g[1 .. n] = f[1 .. n]
  BY <1>1, <1>6 DEF P
<1>8. g[1 .. n + 1] = body(env, g[1 .. n], t[n + 1])
  <2> n \in 0 .. (n + 1) - 1 /\ n + 1 \in Nat
    BY <1>1
  <2> QED
    BY <1>3, LoopsStep
<1> QED
  BY <1>1, <1>2, <1>3, <1>7, <1>8 DEF t

=============================================================================
