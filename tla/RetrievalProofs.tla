-------------------------- MODULE RetrievalProofs ---------------------------
(* Theorems about Retrieval, for elements, candidates and tables of any    *)
(* number and size, and any setting: what MCChatTurn evaluates within      *)
(* small bounds holds of every input.                                      *)
(*                                                                         *)
(* The operators are recursive functions and folds.  Upwards, which a      *)
(* naturals' least element gives, replaces induction: by it the functions  *)
(* exist, and by it what a step keeps holds after every step.              *)
EXTENDS Retrieval, FiniteSetTheorems, WellFoundedInduction, TLAPS
-----------------------------------------------------------------------------
(* Induction: a set of naturals that is not empty has a least element.     *)

LEMMA LeastNat ==
    ASSUME NEW T, T \subseteq Nat, T # {}
    PROVE  \E x \in T : \A y \in T : x <= y
<1> DEFINE R == OpToRel(<, Nat)
<1>1. IsWellFoundedOn(R, Nat)
  BY NatLessThanWellFounded DEF OpToRel
<1> HIDE DEF R
<1>2. PICK x \in T : \A y \in T : ~ (<<y, x>> \in R)
  BY <1>1, WFMin
<1>3. \A y \in T : ~(y < x)
  BY <1>2 DEF R, OpToRel
<1>4. QED BY <1>3

\* What holds of a natural when it holds of those below it holds of all of them.
LEMMA Upwards ==
    ASSUME NEW n \in Nat, NEW S,
           \A k \in 0 .. n : (\A j \in 0 .. k - 1 : j \in S) => k \in S
    PROVE  0 .. n \subseteq S
<1> DEFINE T == (0 .. n) \ S
<1>1. SUFFICES ASSUME T # {} PROVE FALSE
  OBVIOUS
<1>2. T \subseteq Nat
  OBVIOUS
<1> HIDE DEF T
<1>3. PICK k \in T : \A y \in T : k <= y
  BY <1>1, <1>2, LeastNat
<1>4. k \in 0 .. n /\ k \notin S
  BY DEF T
<1>5. \A j \in 0 .. k - 1 : j \in S
  <2>1. SUFFICES ASSUME NEW j \in 0 .. k - 1 PROVE j \in S
    OBVIOUS
  <2>2. j \in 0 .. n /\ ~(k <= j)
    BY <1>4
  <2>3. QED BY <1>3, <2>2 DEF T
<1>6. QED BY <1>4, <1>5

-----------------------------------------------------------------------------
(* chunk_document: the windows of an element. *)

Window(n) == [from : 0 .. n, to : 0 .. n]

\* The windows of an element of n tokens from `start` on, by recursion.
After(n, target, stride, g, start) ==
    IF start >= n THEN <<>>
    ELSE IF start + target >= n THEN <<[from |-> start, to |-> n]>>
    ELSE <<[from |-> start, to |-> start + target]>> \o g[start + stride]

\* The windows are those of the recursion from position 0, whose stride is positive.
LEMMA WindowsUnfold ==
    ASSUME NEW n \in Nat, NEW target \in Nat \ {0}, NEW overlap \in Nat
    PROVE  LET stride == target - Least(overlap, target - 1)
           IN  /\ stride \in 1 .. target
               /\ \E after :
                     /\ after = [start \in 0 .. n |-> After(n, target, stride, after, start)]
                     /\ Windows(n, target, overlap) = after[0]
<1> DEFINE stride == target - Least(overlap, target - 1)
<1>1. stride \in 1 .. target
  BY DEF Least
<1> DEFINE Body(g, start) == After(n, target, stride, g, start)
           From(k) == \E g : g = [start \in n - k .. n |-> Body(g, start)]
           Defined == {k \in 0 .. n : From(k)}
<1>2. ASSUME NEW k \in 0 .. n, \A j \in 0 .. k - 1 : j \in Defined
      PROVE  k \in Defined
  <2>1. CASE k = 0
    <3> DEFINE g == [start \in n - k .. n |-> <<>>]
    <3>1. \A start \in n - k .. n : Body(g, start) = <<>>
      BY <2>1 DEF After
    <3>2. g = [start \in n - k .. n |-> Body(g, start)]
      BY <3>1
    <3>3. QED BY <3>2
  <2>2. CASE k # 0
    <3>1. From(k - 1)
      <4>1. k - 1 \in 0 .. k - 1
        BY <2>2
      <4> HIDE DEF From
      <4>2. QED BY <1>2, <4>1
    <3>2. PICK g : g = [start \in n - (k - 1) .. n |-> Body(g, start)]
      BY <3>1
    <3> DEFINE h == [start \in n - k .. n |-> Body(g, start)]
    <3>3. \A start \in n - (k - 1) .. n : h[start] = g[start]
      <4> HIDE DEF Body
      <4>1. \A start \in n - (k - 1) .. n : start \in n - k .. n
        OBVIOUS
      <4>2. QED BY <3>2, <4>1
    <3>4. \A start \in n - k .. n : Body(h, start) = Body(g, start)
      <4> HIDE DEF h, stride
      <4>1. \A start \in n - k .. n :
               start + target < n => start + stride \in n - (k - 1) .. n
        BY <1>1
      <4>2. QED BY <3>3, <4>1 DEF After
    <3> HIDE DEF Body
    <3>5. h = [start \in n - k .. n |-> Body(h, start)]
      BY <3>4
    <3>6. QED BY <3>5
  <2>3. QED BY <2>1, <2>2
<1>3. n \in Defined
  <2>1. n \in 0 .. n
    OBVIOUS
  <2> HIDE DEF Defined
  <2>2. QED BY <1>2, <2>1, Upwards
<1>4. n - n = 0
  OBVIOUS
<1>5. PICK built : built = [start \in 0 .. n |-> Body(built, start)]
  <2> HIDE DEF Body
  <2>1. QED BY <1>3, <1>4
<1> DEFINE after == CHOOSE g : g = [start \in 0 .. n |-> Body(g, start)]
<1>6. after = [start \in 0 .. n |-> Body(after, start)]
  BY <1>5
<1>7. Windows(n, target, overlap) = after[0]
  BY DEF Windows, After
<1> HIDE DEF after
<1>8. QED BY <1>1, <1>6, <1>7

\* What is said of the windows from `start` on.
Covered(w, n, target, stride, start) ==
    /\ w \in Seq(Window(n))
    /\ start < n => w # <<>> /\ w[1].from = start
                    /\ w[1].to = (IF start + target >= n THEN n ELSE start + target)
    /\ UNION {w[i].from + 1 .. w[i].to : i \in DOMAIN w} = start + 1 .. n
    /\ \A i \in DOMAIN w :
          /\ w[i].to - w[i].from \in 1 .. target
          /\ i > 1 => /\ w[i].from = w[i - 1].to - (target - stride)
                      /\ w[i].to > w[i - 1].to

\* A window before windows that cover what follows its stride.
LEMMA OneMore ==
    ASSUME NEW n \in Nat, NEW target \in Nat \ {0}, NEW stride \in 1 .. target,
           NEW start \in 0 .. n, start + target < n, NEW v,
           Covered(v, n, target, stride, start + stride)
    PROVE  Covered(<<[from |-> start, to |-> start + target]>> \o v, n, target, stride, start)
<1> DEFINE a == [from |-> start, to |-> start + target]
           w == <<a>> \o v
<1>1. a \in Window(n) /\ a.from = start /\ a.to = start + target
  BY DEF Window
<1> HIDE DEF a
<1>2. v \in Seq(Window(n)) /\ Len(v) \in Nat /\ DOMAIN v = 1 .. Len(v)
  BY DEF Covered
<1>3. /\ w \in Seq(Window(n)) /\ Len(w) = Len(v) + 1 /\ DOMAIN w = 1 .. Len(v) + 1
      /\ w[1] = a
      /\ \A i \in 2 .. Len(v) + 1 : i - 1 \in DOMAIN v /\ w[i] = v[i - 1]
  BY <1>1, <1>2
<1> HIDE DEF w
<1>4. \A i \in DOMAIN v : i + 1 \in DOMAIN w /\ w[i + 1] = v[i]
  BY <1>2, <1>3
<1>5. /\ v # <<>> /\ v[1].from = start + stride
      /\ v[1].to > start + target
  BY DEF Covered
<1>6. UNION {w[i].from + 1 .. w[i].to : i \in DOMAIN w} = start + 1 .. n
  <2>1. UNION {v[i].from + 1 .. v[i].to : i \in DOMAIN v} = start + stride + 1 .. n
    BY DEF Covered
  <2>2. UNION {w[i].from + 1 .. w[i].to : i \in DOMAIN w}
           = (start + 1 .. start + target) \cup UNION {v[i].from + 1 .. v[i].to : i \in DOMAIN v}
    <3>1. ASSUME NEW i \in DOMAIN w
          PROVE  w[i].from + 1 .. w[i].to \subseteq
                    (start + 1 .. start + target)
                       \cup UNION {v[j].from + 1 .. v[j].to : j \in DOMAIN v}
      <4>1. CASE i = 1
        BY <1>1, <1>3, <4>1
      <4>2. CASE i # 1
        <5>1. i - 1 \in DOMAIN v /\ w[i] = v[i - 1]
          BY <1>2, <1>3, <4>2
        <5>2. QED BY <5>1
      <4>3. QED BY <4>1, <4>2
    <3>2. ASSUME NEW j \in DOMAIN v
          PROVE  v[j].from + 1 .. v[j].to \subseteq
                    UNION {w[i].from + 1 .. w[i].to : i \in DOMAIN w}
      BY <1>4
    <3>3. start + 1 .. start + target \subseteq
             UNION {w[i].from + 1 .. w[i].to : i \in DOMAIN w}
      <4>1. 1 \in DOMAIN w
        BY <1>2, <1>3
      <4>2. QED BY <1>1, <1>3, <4>1
    <3>4. QED BY <3>1, <3>2, <3>3
  <2>3. QED BY <2>1, <2>2
<1>7. ASSUME NEW i \in DOMAIN w
      PROVE  /\ w[i].to - w[i].from \in 1 .. target
             /\ i > 1 => /\ w[i].from = w[i - 1].to - (target - stride)
                         /\ w[i].to > w[i - 1].to
  <2>1. CASE i = 1
    BY <1>1, <1>3, <2>1
  <2>2. CASE i = 2
    <3>1. 1 \in DOMAIN v /\ w[2] = v[1] /\ w[1] = a
      BY <1>2, <1>3, <2>2
    <3>2. v[1].to - v[1].from \in 1 .. target
      BY <3>1 DEF Covered
    <3>3. QED BY <1>1, <1>5, <2>2, <3>1, <3>2
  <2>3. CASE i > 2
    <3>1. /\ i - 1 \in DOMAIN v /\ w[i] = v[i - 1]
          /\ i - 2 \in DOMAIN v /\ w[i - 1] = v[i - 2] /\ i - 1 > 1 /\ (i - 1) - 1 = i - 2
      BY <1>2, <1>3, <2>3
    <3>2. /\ v[i - 1].to - v[i - 1].from \in 1 .. target
          /\ v[i - 1].from = v[i - 2].to - (target - stride)
          /\ v[i - 1].to > v[i - 2].to
      BY <3>1 DEF Covered
    <3>3. QED BY <3>1, <3>2
  <2>4. QED BY <1>2, <1>3, <2>1, <2>2, <2>3
<1>8. w # <<>> /\ w[1].from = start /\ w[1].to = start + target
  BY <1>1, <1>2, <1>3
<1>9. Covered(w, n, target, stride, start)
  BY <1>3, <1>6, <1>7, <1>8 DEF Covered
<1>10. QED BY <1>9 DEF w, a

\* However long an element is and whatever is configured, its windows cover it,
\* overlap as configured, are short enough, and none is inside the one before it.
THEOREM EveryTokenIsInAWindow ==
    ASSUME NEW n \in Nat, NEW target \in Nat \ {0}, NEW overlap \in Nat
    PROVE  WindowsCover(n, target, overlap)
<1> DEFINE stride == target - Least(overlap, target - 1)
<1>1. stride \in 1 .. target /\ target - stride = Least(overlap, target - 1)
  BY DEF Least
<1>2. PICK after :
        /\ after = [start \in 0 .. n |-> After(n, target, stride, after, start)]
        /\ Windows(n, target, overlap) = after[0]
  BY WindowsUnfold
<1> HIDE DEF stride
<1> DEFINE Good == {k \in 0 .. n : Covered(after[n - k], n, target, stride, n - k)}
<1>3. ASSUME NEW k \in 0 .. n, \A j \in 0 .. k - 1 : j \in Good
      PROVE  k \in Good
  <2> DEFINE start == n - k
  <2>1. start \in 0 .. n
    OBVIOUS
  <2>2. after[start] = After(n, target, stride, after, start)
    BY <1>2, <2>1
  <2>3. CASE start >= n
    <3>1. after[start] = <<>>
      BY <2>2, <2>3 DEF After
    <3>2. Covered(<<>>, n, target, stride, start)
      BY <2>1, <2>3 DEF Covered
    <3>3. QED BY <3>1, <3>2
  <2>4. CASE start < n /\ start + target >= n
    <3> DEFINE a == [from |-> start, to |-> n]
    <3>1. after[start] = <<a>>
      BY <2>1, <2>2, <2>4 DEF After
    <3>2. a \in Window(n) /\ a.from = start /\ a.to = n
      BY <2>1 DEF Window
    <3> HIDE DEF a
    <3>3. /\ <<a>> \in Seq(Window(n)) /\ <<a>> # <<>> /\ DOMAIN <<a>> = {1}
          /\ <<a>>[1] = a
      BY <3>2
    <3> HIDE DEF start
    <3> DEFINE w == <<a>>
    <3>4. w \in Seq(Window(n)) /\ w # <<>> /\ DOMAIN w = {1} /\ w[1] = a
      BY <3>3
    <3> HIDE DEF w
    <3>5. UNION {w[i].from + 1 .. w[i].to : i \in DOMAIN w} = start + 1 .. n
      BY <3>2, <3>4
    <3>6. \A i \in DOMAIN w : i = 1 /\ w[i].to - w[i].from \in 1 .. target
      BY <2>1, <2>4, <3>2, <3>4
    <3>7. Covered(w, n, target, stride, start)
      BY <2>1, <2>4, <3>2, <3>4, <3>5, <3>6 DEF Covered
    <3>8. QED BY <3>1, <3>7 DEF start, w
  <2>5. CASE start + target < n
    <3>1. after[start] = <<[from |-> start, to |-> start + target]>> \o after[start + stride]
      BY <1>1, <2>1, <2>2, <2>5 DEF After
    <3>2. k - stride \in 0 .. k - 1 /\ start + stride = n - (k - stride)
      BY <1>1, <2>5
    <3>3. Covered(after[n - (k - stride)], n, target, stride, n - (k - stride))
      BY <1>3, <3>2
    <3>4. Covered(after[start + stride], n, target, stride, start + stride)
      BY <3>2, <3>3
    <3> HIDE DEF start
    <3>5. Covered(after[start], n, target, stride, start)
      BY <1>1, <2>1, <2>5, <3>1, <3>4, OneMore
    <3>6. QED BY <3>5 DEF start
  <2>6. QED BY <2>1, <2>3, <2>4, <2>5
<1>4. n \in Good
  <2>1. n \in 0 .. n
    OBVIOUS
  <2> HIDE DEF Good
  <2>2. QED BY <1>3, <2>1, Upwards
<1>5. Covered(after[0], n, target, stride, 0)
  <2>1. n - n = 0
    OBVIOUS
  <2>2. QED BY <1>4, <2>1
<1>6. QED BY <1>1, <1>2, <1>5 DEF WindowsCover, Covered

-----------------------------------------------------------------------------
(* Folds, unfolded.  FoldLeft is a function of the subsets of the positions; *)
(* only its values on the prefixes matter.                                  *)

\* A fold over 1 .. n takes n first, being the greatest.
LEMMA LastIsMax ==
    ASSUME NEW n \in Nat, NEW s \in SUBSET (1 .. n), n \in s
    PROVE  Max(s) = n
<1>1. \A y \in s : y \in Nat /\ n >= y
  OBVIOUS
<1>2. \A x \in s : x >= n => x = n
  BY <1>1
<1>3. QED BY <1>1, <1>2 DEF Max

LEMMA MaxIsIn ==
    ASSUME NEW n \in Nat, NEW s \in SUBSET (1 .. n), s # {}
    PROVE  Max(s) \in s
<1> DEFINE T == {k \in 0 .. n : n - k \in s}
<1>1. \A x \in s : n - x \in T /\ x \in Nat
  OBVIOUS
<1>2. T \subseteq Nat /\ \A k \in T : n - k \in s
  OBVIOUS
<1> HIDE DEF T
<1>3. PICK k \in T : \A l \in T : k <= l
  BY <1>1, <1>2, LeastNat
<1>4. \A y \in s : n - k >= y
  BY <1>1, <1>2, <1>3
<1>5. QED BY <1>2, <1>4 DEF Max

\* A step that is a function can be iterated along a sequence.
Steps(A, n) == [1 .. n -> [A -> A]]
Iterates(g, A, base, n, F) ==
    /\ g \in [SUBSET (1 .. n) -> A]
    /\ \A s \in SUBSET (1 .. n) :
          g[s] = IF s = {} THEN base ELSE F[Max(s)][g[s \ {Max(s)}]]

\* The recursion of a fold over the sets of indices defines a function.
LEMMA Iteration ==
    ASSUME NEW A, NEW base \in A, NEW n \in Nat, NEW F \in Steps(A, n)
    PROVE  \E g : Iterates(g, A, base, n, F)
<1> DEFINE Body(g, s) == IF s = {} THEN base ELSE F[Max(s)][g[s \ {Max(s)}]]
           Upto(k) == \E g \in [SUBSET (1 .. k) -> A] :
                         \A s \in SUBSET (1 .. k) : g[s] = Body(g, s)
           Defined == {k \in 0 .. n : Upto(k)}
<1>1. ASSUME NEW k \in 0 .. n, \A j \in 0 .. k - 1 : j \in Defined
      PROVE  k \in Defined
  <2>1. CASE k = 0
    <3> DEFINE g == [s \in SUBSET (1 .. k) |-> base]
    <3>1. \A s \in SUBSET (1 .. k) : s = {}
      BY <2>1
    <3>2. g \in [SUBSET (1 .. k) -> A] /\ \A s \in SUBSET (1 .. k) : g[s] = Body(g, s)
      BY <3>1
    <3>3. QED BY <3>2
  <2>2. CASE k # 0
    <3>1. Upto(k - 1)
      <4>1. k - 1 \in 0 .. k - 1
        BY <2>2
      <4> HIDE DEF Upto
      <4>2. QED BY <1>1, <4>1
    <3>2. PICK g \in [SUBSET (1 .. k - 1) -> A] :
            \A s \in SUBSET (1 .. k - 1) : g[s] = Body(g, s)
      BY <3>1
    <3> DEFINE h == [s \in SUBSET (1 .. k) |->
                       IF k \in s THEN F[k][g[s \ {k}]] ELSE g[s]]
    <3>3. \A s \in SUBSET (1 .. k) : /\ s \ {k} \in SUBSET (1 .. k - 1)
                                     /\ k \notin s => s \in SUBSET (1 .. k - 1)
      BY <2>2
    <3>4. \A s \in SUBSET (1 .. k) : k \in s => Max(s) = k
      BY LastIsMax
    <3>5. \A s \in SUBSET (1 .. k) : s # {} => Max(s) \in s
      <4>1. k \in Nat
        OBVIOUS
      <4>2. QED BY <4>1, MaxIsIn
    <3>6. h \in [SUBSET (1 .. k) -> A]
      <4>1. \A s \in SUBSET (1 .. k) : k \in s => F[k][g[s \ {k}]] \in A
        BY <2>2, <3>3 DEF Steps
      <4>2. \A s \in SUBSET (1 .. k) : k \notin s => g[s] \in A
        BY <3>3
      <4>3. QED BY <4>1, <4>2
    <3>7. ASSUME NEW s \in SUBSET (1 .. k) PROVE h[s] = Body(h, s)
      <4>1. CASE k \in s
        <5>1. h[s] = F[k][g[s \ {k}]]
          BY <4>1
        <5>2. s \ {k} \in SUBSET (1 .. k) /\ k \notin s \ {k}
          OBVIOUS
        <5>3. h[s \ {k}] = g[s \ {k}]
          BY <5>2
        <5> HIDE DEF h
        <5>4. QED BY <3>4, <4>1, <5>1, <5>3
      <4>2. CASE k \notin s /\ s # {}
        <5>1. h[s] = g[s] /\ g[s] = F[Max(s)][g[s \ {Max(s)}]]
          BY <3>2, <3>3, <4>2
        <5>2. s \ {Max(s)} \in SUBSET (1 .. k) /\ k \notin s \ {Max(s)}
          BY <4>2
        <5>3. h[s \ {Max(s)}] = g[s \ {Max(s)}]
          BY <5>2
        <5> HIDE DEF h
        <5>4. QED BY <4>2, <5>1, <5>3
      <4>3. CASE s = {}
        BY <3>2, <3>3, <4>3
      <4>4. QED BY <4>1, <4>2, <4>3
    <3> HIDE DEF h, Body
    <3>8. Upto(k)
      BY <3>6, <3>7
    <3>9. QED BY <3>8
  <2>3. QED BY <2>1, <2>2
<1>2. n \in Defined
  <2>1. n \in 0 .. n
    OBVIOUS
  <2> HIDE DEF Defined
  <2>2. QED BY <1>1, <2>1, Upwards
<1>3. PICK g \in [SUBSET (1 .. n) -> A] : \A s \in SUBSET (1 .. n) : g[s] = Body(g, s)
  BY <1>2
<1>4. QED BY <1>3 DEF Iterates

\* Total, unfolded along the sequence.
LEMMA TotalUnfold ==
    ASSUME NEW counts \in Seq(Int)
    PROVE  \E sum : /\ sum[0] = 0
                    /\ \A k \in 1 .. Len(counts) : sum[k] = sum[k - 1] + counts[k]
                    /\ Total(counts) = sum[Len(counts)]
                    /\ \A k \in 0 .. Len(counts) : sum[k] \in Int
<1> DEFINE n == Len(counts)
           S == DOMAIN counts
           Body(g, s) == IF s = {} THEN 0 ELSE g[s \ {Max(s)}] + counts[Max(s)]
           F == [k \in 1 .. n |-> [a \in Int |-> a + counts[k]]]
<1>1. n \in Nat /\ S = 1 .. n /\ \A k \in 1 .. n : counts[k] \in Int
  OBVIOUS
<1> DEFINE iter == CHOOSE h : h = [s \in SUBSET S |-> Body(h, s)]
<1>2. Total(counts) = iter[S]
  BY DEF Total, FoldLeft, MapThenFoldSet
<1> HIDE DEF n, S
<1>3. F \in Steps(Int, n)
  BY <1>1 DEF Steps
<1>4. PICK g \in [SUBSET (1 .. n) -> Int] : g = [s \in SUBSET (1 .. n) |-> Body(g, s)]
  <2>1. PICK g : Iterates(g, Int, 0, n, F)
    <3> HIDE DEF F
    <3>1. 0 \in Int
      OBVIOUS
    <3>2. QED BY <1>1, <1>3, <3>1, Iteration
  <2>2. ASSUME NEW s \in SUBSET (1 .. n) PROVE g[s] = Body(g, s)
    <3>1. CASE s = {}
      BY <2>1, <3>1 DEF Iterates
    <3>2. CASE s # {}
      <4>1. Max(s) \in 1 .. n
        BY <1>1, <3>2, MaxIsIn
      <4>2. g[s \ {Max(s)}] \in Int
        BY <2>1 DEF Iterates
      <4>3. F[Max(s)][g[s \ {Max(s)}]] = g[s \ {Max(s)}] + counts[Max(s)]
        BY <4>1, <4>2
      <4> HIDE DEF F
      <4>4. QED BY <2>1, <3>2, <4>3 DEF Iterates
    <3>3. QED BY <3>1, <3>2
  <2> HIDE DEF Body
  <2>3. QED BY <2>1, <2>2 DEF Iterates
<1>5. iter = [s \in SUBSET (1 .. n) |-> Body(iter, s)]
  <2>1. \E h : h = [s \in SUBSET S |-> Body(h, s)]
    BY <1>1, <1>4
  <2>2. iter = [s \in SUBSET S |-> Body(iter, s)]
    BY <2>1
  <2> HIDE DEF iter, Body
  <2>3. QED BY <1>1, <2>2
<1> HIDE DEF iter
<1> DEFINE sum == [k \in 0 .. n |-> iter[1 .. k]]
<1>6. sum[0] = 0
  <2>1. 1 .. 0 = {}
    OBVIOUS
  <2>2. QED BY <1>1, <1>5, <2>1
<1>7. ASSUME NEW k \in 1 .. n PROVE sum[k] = sum[k - 1] + counts[k]
  <2>1. 1 .. k \in SUBSET (1 .. n) /\ (1 .. k) \ {k} = 1 .. k - 1 /\ k \in 1 .. k
    BY <1>1
  <2>2. Max(1 .. k) = k
    BY <1>1, LastIsMax
  <2>3. k \in 0 .. n /\ k - 1 \in 0 .. n
    BY <1>1
  <2>4. iter[1 .. k] = iter[1 .. k - 1] + counts[k]
    BY <1>5, <2>1, <2>2
  <2>5. QED BY <2>3, <2>4
<1>8. Total(counts) = sum[n]
  BY <1>1, <1>2
<1>9. \A k \in 0 .. n : sum[k] \in Int
  <2> DEFINE I == {k \in 0 .. n : sum[k] \in Int}
  <2> HIDE DEF sum
  <2>1. ASSUME NEW k \in 0 .. n, \A j \in 0 .. k - 1 : j \in I
        PROVE  k \in I
    <3>1. CASE k = 0
      BY <1>6, <3>1
    <3>2. CASE k # 0
      <4>1. k - 1 \in 0 .. k - 1 /\ k \in 1 .. n
        BY <1>1, <3>2
      <4>2. sum[k - 1] \in Int
        BY <2>1, <4>1
      <4>3. sum[k] \in Int
        BY <1>1, <1>7, <4>1, <4>2
      <4>4. QED BY <4>3
    <3>3. QED BY <3>1, <3>2
  <2> HIDE DEF I
  <2>2. 0 .. n \subseteq I
    BY <1>1, <2>1, Upwards
  <2>3. QED BY <2>2 DEF I
<1> HIDE DEF sum
<1>10. QED BY <1>6, <1>7, <1>8, <1>9 DEF n

LEMMA TotalOfNone == Total(<<>>) = 0
<1>1. <<>> \in Seq(Int) /\ Len(<<>>) = 0
  OBVIOUS
<1>2. QED BY <1>1, TotalUnfold

\* The sum of what is appended to.
LEMMA TotalAppend ==
    ASSUME NEW counts \in Seq(Int), NEW x \in Int
    PROVE  Total(counts) \in Int /\ Total(Append(counts, x)) = Total(counts) + x
<1> DEFINE n == Len(counts)
           more == Append(counts, x)
<1>1. /\ n \in Nat /\ more \in Seq(Int) /\ Len(more) = n + 1 /\ more[n + 1] = x
      /\ \A k \in 1 .. n : more[k] = counts[k]
  OBVIOUS
<1> HIDE DEF more
<1>2. PICK s : /\ s[0] = 0
               /\ \A k \in 1 .. n : s[k] = s[k - 1] + counts[k]
               /\ Total(counts) = s[n]
               /\ \A k \in 0 .. n : s[k] \in Int
  BY TotalUnfold
<1>3. PICK t : /\ t[0] = 0
               /\ \A k \in 1 .. Len(more) : t[k] = t[k - 1] + more[k]
               /\ Total(more) = t[Len(more)]
               /\ \A k \in 0 .. Len(more) : t[k] \in Int
  BY <1>1, TotalUnfold
<1> HIDE DEF n
<1> DEFINE Same == {k \in 0 .. n : s[k] = t[k]}
<1>4. ASSUME NEW k \in 0 .. n, \A j \in 0 .. k - 1 : j \in Same
      PROVE  k \in Same
  <2>1. CASE k = 0
    BY <1>2, <1>3, <2>1
  <2>2. CASE k # 0
    <3>1. k - 1 \in 0 .. k - 1 /\ k \in 1 .. n /\ k \in 1 .. Len(more)
      BY <1>1, <2>2
    <3>2. s[k - 1] = t[k - 1]
      BY <1>4, <3>1
    <3>3. s[k] = t[k]
      BY <1>1, <1>2, <1>3, <3>1, <3>2
    <3>4. QED BY <3>3
  <2>3. QED BY <2>1, <2>2
<1>5. s[n] = t[n]
  <2>1. n \in 0 .. n
    BY <1>1
  <2> HIDE DEF Same
  <2>2. n \in Same
    BY <1>1, <1>4, <2>1, Upwards
  <2>3. QED BY <2>2 DEF Same
<1>6. Total(more) = t[n] + x
  BY <1>1, <1>3
<1>7. s[n] \in Int
  BY <1>1, <1>2
<1>8. QED BY <1>2, <1>3, <1>5, <1>6, <1>7 DEF more

-----------------------------------------------------------------------------
(* DocumentRetrievalService.retrieve: the evidence of a question. *)

Candidates(hashes, pages) ==
    [hash : hashes, page : pages, size : Nat, relevant : BOOLEAN]

\* One candidate of the fold.
Taken(chosen, c, topK, maxCharacters) ==
    IF Fits(chosen, c, topK, maxCharacters) THEN Append(chosen, c) ELSE chosen

\* Evidence is chosen by taking or passing over one candidate after the other.
LEMMA EvidenceUnfold ==
    ASSUME NEW C, NEW candidates \in Seq(C), NEW topK, NEW maxCharacters
    PROVE  \E r : /\ r[0] = <<>>
                  /\ \A k \in 1 .. Len(candidates) :
                        r[k] = Taken(r[k - 1], candidates[k], topK, maxCharacters)
                  /\ Evidence(candidates, topK, maxCharacters) = r[Len(candidates)]
<1> DEFINE n == Len(candidates)
           S == DOMAIN candidates
           Body(g, s) == IF s = {} THEN <<>>
                         ELSE Taken(g[s \ {Max(s)}], candidates[Max(s)], topK, maxCharacters)
           F == [k \in 1 .. n |-> [a \in Seq(C) |-> Taken(a, candidates[k], topK, maxCharacters)]]
<1>1. n \in Nat /\ S = 1 .. n /\ \A k \in 1 .. n : candidates[k] \in C
  OBVIOUS
<1> DEFINE iter == CHOOSE h : h = [s \in SUBSET S |-> Body(h, s)]
<1>2. Evidence(candidates, topK, maxCharacters) = iter[S]
  BY DEF Evidence, FoldLeft, MapThenFoldSet, Taken
<1> HIDE DEF n, S
<1>3. F \in Steps(Seq(C), n)
  <2>1. \A a \in Seq(C), k \in 1 .. n :
           Taken(a, candidates[k], topK, maxCharacters) \in Seq(C)
    BY <1>1 DEF Taken
  <2>2. QED BY <2>1 DEF Steps
<1>4. PICK built : built = [s \in SUBSET (1 .. n) |-> Body(built, s)]
  <2>1. PICK g : Iterates(g, Seq(C), <<>>, n, F)
    <3> HIDE DEF F
    <3>1. <<>> \in Seq(C)
      OBVIOUS
    <3>2. QED BY <1>1, <1>3, <3>1, Iteration
  <2>2. ASSUME NEW s \in SUBSET (1 .. n) PROVE g[s] = Body(g, s)
    <3>1. CASE s = {}
      BY <2>1, <3>1 DEF Iterates
    <3>2. CASE s # {}
      <4>1. Max(s) \in 1 .. n
        BY <1>1, <3>2, MaxIsIn
      <4>2. g[s \ {Max(s)}] \in Seq(C)
        BY <2>1 DEF Iterates
      <4>3. F[Max(s)][g[s \ {Max(s)}]]
               = Taken(g[s \ {Max(s)}], candidates[Max(s)], topK, maxCharacters)
        BY <4>1, <4>2
      <4> HIDE DEF F
      <4>4. QED BY <2>1, <3>2, <4>3 DEF Iterates
    <3>3. QED BY <3>1, <3>2
  <2> HIDE DEF Body
  <2>3. QED BY <2>1, <2>2 DEF Iterates
<1>5. iter = [s \in SUBSET (1 .. n) |-> Body(iter, s)]
  <2>1. \E h : h = [s \in SUBSET S |-> Body(h, s)]
    BY <1>1, <1>4
  <2>2. iter = [s \in SUBSET S |-> Body(iter, s)]
    BY <2>1
  <2> HIDE DEF iter, Body
  <2>3. QED BY <1>1, <2>2
<1> HIDE DEF iter
<1> DEFINE r == [k \in 0 .. n |-> iter[1 .. k]]
<1>6. r[0] = <<>>
  <2>1. 1 .. 0 = {}
    OBVIOUS
  <2>2. QED BY <1>1, <1>5, <2>1
<1>7. ASSUME NEW k \in 1 .. n
      PROVE  r[k] = Taken(r[k - 1], candidates[k], topK, maxCharacters)
  <2>1. 1 .. k \in SUBSET (1 .. n) /\ (1 .. k) \ {k} = 1 .. k - 1 /\ k \in 1 .. k
    BY <1>1
  <2>2. Max(1 .. k) = k
    BY <1>1, LastIsMax
  <2>3. k \in 0 .. n /\ k - 1 \in 0 .. n
    BY <1>1
  <2>4. iter[1 .. k] = Taken(iter[1 .. k - 1], candidates[k], topK, maxCharacters)
    BY <1>5, <2>1, <2>2
  <2>5. QED BY <2>3, <2>4
<1>8. Evidence(candidates, topK, maxCharacters) = r[n]
  BY <1>1, <1>2
<1> HIDE DEF r
<1>9. QED BY <1>6, <1>7, <1>8 DEF n

OnPage(s, page) == {i \in DOMAIN s : s[i].page = page}
Hashes(s) == {c.hash : c \in ToSet(s)}

LEMMA Appended ==
    ASSUME NEW C, NEW s \in Seq(C), NEW c \in C
    PROVE  /\ Append(s, c) \in Seq(C) /\ Len(s) \in Nat /\ Len(Append(s, c)) = Len(s) + 1
           /\ DOMAIN s = 1 .. Len(s) /\ DOMAIN Append(s, c) = DOMAIN s \cup {Len(s) + 1}
           /\ \A i \in DOMAIN s : Append(s, c)[i] = s[i]
           /\ Append(s, c)[Len(s) + 1] = c /\ Len(s) + 1 \notin DOMAIN s
           /\ ToSet(Append(s, c)) = ToSet(s) \cup {c}
<1>1. /\ Append(s, c) \in Seq(C) /\ Len(s) \in Nat /\ Len(Append(s, c)) = Len(s) + 1
      /\ DOMAIN s = 1 .. Len(s) /\ DOMAIN Append(s, c) = 1 .. Len(s) + 1
      /\ \A i \in DOMAIN s : Append(s, c)[i] = s[i]
      /\ Append(s, c)[Len(s) + 1] = c
  OBVIOUS
<1>2. 1 .. Len(s) + 1 = (1 .. Len(s)) \cup {Len(s) + 1} /\ Len(s) + 1 \notin 1 .. Len(s)
  BY <1>1
<1> DEFINE t == Append(s, c)
<1>3. DOMAIN t = DOMAIN s \cup {Len(s) + 1}
  BY <1>1, <1>2
<1>4. ToSet(t) = ToSet(s) \cup {c}
  <2>1. (\A i \in DOMAIN s : t[i] = s[i]) /\ t[Len(s) + 1] = c
    BY <1>1
  <2> HIDE DEF t
  <2>2. QED BY <1>3, <2>1 DEF ToSet
<1>5. QED BY <1>1, <1>2, <1>3, <1>4

\* A candidate that is taken adds its size.
LEMMA CharactersAppend ==
    ASSUME NEW hashes, NEW pages, NEW s \in Seq(Candidates(hashes, pages)),
           NEW c \in Candidates(hashes, pages)
    PROVE  /\ Characters(s) \in Int /\ c.size \in Nat
           /\ Characters(Append(s, c)) = Characters(s) + c.size
<1> DEFINE C == Candidates(hashes, pages)
           sizes(t) == [i \in DOMAIN t |-> t[i].size]
           t == Append(s, c)
<1>1. c.size \in Nat /\ \A i \in DOMAIN s : s[i].size \in Nat
  <2>1. \A i \in DOMAIN s : s[i] \in C
    OBVIOUS
  <2>2. QED BY <2>1 DEF Candidates
<1> HIDE DEF C
<1>2. /\ Len(s) \in Nat /\ DOMAIN s = 1 .. Len(s) /\ DOMAIN t = 1 .. Len(s) + 1
      /\ \A i \in DOMAIN s : t[i] = s[i]
      /\ t[Len(s) + 1] = c
  BY DEF C
<1> HIDE DEF t
<1>3. sizes(s) \in Seq(Int) /\ Len(sizes(s)) = Len(s)
  BY <1>1, <1>2
<1>4. sizes(t) = Append(sizes(s), c.size)
  <2> DEFINE a == sizes(s)
             b == Append(a, c.size)
  <2>1. /\ DOMAIN b = 1 .. Len(s) + 1
        /\ \A i \in 1 .. Len(s) : b[i] = a[i]
        /\ b[Len(s) + 1] = c.size
        /\ b = [i \in 1 .. Len(s) + 1 |-> b[i]]
    <3>1. a \in Seq(Int) /\ Len(a) = Len(s)
      BY <1>3
    <3> HIDE DEF a
    <3>2. QED BY <1>1, <1>2, <3>1
  <2>2. \A i \in 1 .. Len(s) : a[i] = s[i].size
    BY <1>2
  <2> HIDE DEF a, b
  <2>3. \A i \in 1 .. Len(s) + 1 : b[i] = t[i].size
    <3>1. \A i \in 1 .. Len(s) + 1 : i \in 1 .. Len(s) \/ i = Len(s) + 1
      BY <1>2
    <3>2. QED BY <1>2, <2>1, <2>2, <3>1
  <2>4. sizes(t) = b
    BY <1>2, <2>1, <2>3
  <2>5. QED BY <2>4 DEF b, a
<1>5. Characters(s) = Total(sizes(s)) /\ Characters(t) = Total(sizes(t))
  BY DEF Characters
<1> HIDE DEF sizes
<1>6. QED BY <1>1, <1>3, <1>4, <1>5, TotalAppend DEF t

\* A candidate that is taken is one more of its page and none of another.
LEMMA OnPageAppend ==
    ASSUME NEW C, NEW s \in Seq(C), NEW c \in C, NEW page
    PROVE  /\ IsFiniteSet(OnPage(s, page)) /\ Cardinality(OnPage(s, page)) \in Nat
           /\ Cardinality(OnPage(Append(s, c), page))
                 = IF c.page = page THEN Cardinality(OnPage(s, page)) + 1
                   ELSE Cardinality(OnPage(s, page))
<1> DEFINE t == Append(s, c)
           l == Len(s) + 1
<1>1. /\ DOMAIN s = 1 .. Len(s) /\ Len(s) \in Nat
      /\ DOMAIN t = DOMAIN s \cup {l} /\ l \notin DOMAIN s
      /\ \A i \in DOMAIN s : t[i] = s[i]
      /\ t[l] = c
  BY Appended
<1>2. IsFiniteSet(OnPage(s, page)) /\ Cardinality(OnPage(s, page)) \in Nat
  <2>1. IsFiniteSet(1 .. Len(s))
    BY <1>1, FS_Interval
  <2>2. OnPage(s, page) \in SUBSET (1 .. Len(s))
    BY <1>1 DEF OnPage
  <2>3. IsFiniteSet(OnPage(s, page))
    BY <2>1, <2>2, FS_Subset
  <2>4. QED BY <2>3, FS_CardinalityType
<1> HIDE DEF t, l
<1>3. l \notin OnPage(s, page)
  BY <1>1 DEF OnPage
<1>4. CASE c.page = page
  <2>1. OnPage(t, page) = OnPage(s, page) \cup {l}
    BY <1>1, <1>4 DEF OnPage
  <2>2. QED BY <1>2, <1>3, <1>4, <2>1, FS_AddElement DEF t
<1>5. CASE c.page # page
  <2>1. OnPage(t, page) = OnPage(s, page)
    BY <1>1, <1>5 DEF OnPage
  <2>2. QED BY <1>2, <1>5, <2>1 DEF t
<1>6. QED BY <1>4, <1>5

\* What does not fit will not fit later either.
LEMMA StillUnfit ==
    ASSUME NEW hashes, NEW pages, NEW s \in Seq(Candidates(hashes, pages)),
           NEW c \in Candidates(hashes, pages), NEW d \in Candidates(hashes, pages),
           NEW topK \in Nat, NEW maxCharacters \in Nat,
           Fits(Append(s, c), d, topK, maxCharacters)
    PROVE  Fits(s, d, topK, maxCharacters)
<1> DEFINE t == Append(s, c)
<1>1. /\ Len(s) \in Nat /\ Len(t) = Len(s) + 1 /\ ToSet(t) = ToSet(s) \cup {c}
  BY Appended
<1>2. /\ Characters(s) \in Int /\ c.size \in Nat /\ d.size \in Nat
      /\ Characters(t) = Characters(s) + c.size
  BY CharactersAppend
<1>3. /\ Cardinality(OnPage(s, d.page)) \in Nat
      /\ Cardinality(OnPage(t, d.page)) \in {Cardinality(OnPage(s, d.page)),
                                             Cardinality(OnPage(s, d.page)) + 1}
  BY OnPageAppend
<1> HIDE DEF t
<1>4. Fits(t, d, topK, maxCharacters)
  BY DEF t
<1>5. /\ d.relevant /\ Len(t) < topK /\ (\A e \in ToSet(t) : e.hash # d.hash)
      /\ Cardinality(OnPage(t, d.page)) < 2
      /\ Characters(t) + d.size <= maxCharacters
  BY <1>4 DEF Fits, OnPage
<1>6. /\ d.relevant /\ Len(s) < topK /\ (\A e \in ToSet(s) : e.hash # d.hash)
      /\ Cardinality(OnPage(s, d.page)) < 2
      /\ Characters(s) + d.size <= maxCharacters
  BY <1>1, <1>2, <1>3, <1>5
<1>7. QED BY <1>6 DEF Fits, OnPage

\* What is said of the evidence after k candidates.
Chosen(s, candidates, k, topK, maxCharacters) ==
    /\ Len(s) <= topK
    /\ Characters(s) <= maxCharacters
    /\ IsFiniteSet(Hashes(s)) /\ Cardinality(Hashes(s)) = Len(s)
    /\ \A page : Cardinality(OnPage(s, page)) <= 2
    /\ \E at \in [DOMAIN s -> 1 .. k] :
          /\ \A i, j \in DOMAIN s : i < j => at[i] < at[j]
          /\ \A i \in DOMAIN s : s[i] = candidates[at[i]]
    /\ \A j \in 1 .. k : ~Fits(s, candidates[j], topK, maxCharacters)

\* Before the first candidate nothing is chosen and nothing passed over.
LEMMA NoneIsChosen ==
    ASSUME NEW s, DOMAIN s = {}, Len(s) = 0, Characters(s) = 0,
           NEW candidates, NEW topK \in Nat, NEW maxCharacters \in Nat
    PROVE  Chosen(s, candidates, 0, topK, maxCharacters)
<1>1. Hashes(s) = {} /\ \A page : OnPage(s, page) = {}
  BY DEF Hashes, OnPage, ToSet
<1>2. IsFiniteSet({}) /\ Cardinality({}) = 0
  BY FS_EmptySet
<1>3. \E at \in [DOMAIN s -> 1 .. 0] :
         /\ \A i, j \in DOMAIN s : i < j => at[i] < at[j]
         /\ \A i \in DOMAIN s : s[i] = candidates[at[i]]
  <2>1. [i \in DOMAIN s |-> 0] \in [DOMAIN s -> 1 .. 0]
    OBVIOUS
  <2>2. QED BY <2>1
<1>4. \A page : Cardinality(OnPage(s, page)) <= 2
  BY <1>1, <1>2
<1>5. Len(s) <= topK /\ Characters(s) <= maxCharacters
  OBVIOUS
<1>6. IsFiniteSet(Hashes(s)) /\ Cardinality(Hashes(s)) = Len(s)
  BY <1>1, <1>2
<1>7. \A j \in 1 .. 0 : ~Fits(s, candidates[j], topK, maxCharacters)
  OBVIOUS
<1>8. QED BY <1>3, <1>4, <1>5, <1>6, <1>7 DEF Chosen

\* Taking a candidate that fits, or passing over one that does not, keeps the
\* bounds and the order, and makes nothing fit that was passed over.
LEMMA TakenIsChosen ==
    ASSUME NEW hashes, NEW pages, NEW candidates \in Seq(Candidates(hashes, pages)),
           NEW topK \in Nat, NEW maxCharacters \in Nat, NEW k \in 1 .. Len(candidates),
           NEW s \in Seq(Candidates(hashes, pages)),
           Chosen(s, candidates, k - 1, topK, maxCharacters)
    PROVE  Chosen(Taken(s, candidates[k], topK, maxCharacters), candidates, k, topK, maxCharacters)
<1> DEFINE C == Candidates(hashes, pages)
           c == candidates[k]
           t == Append(s, c)
<1>1. c \in C /\ k \in Nat /\ k >= 1 /\ \A j \in 1 .. k : candidates[j] \in C
  OBVIOUS
<1>2. PICK at \in [DOMAIN s -> 1 .. k - 1] :
        /\ \A i, j \in DOMAIN s : i < j => at[i] < at[j]
        /\ \A i \in DOMAIN s : s[i] = candidates[at[i]]
  BY DEF Chosen
<1>3. \A j \in 1 .. k : j = k \/ j \in 1 .. k - 1
  BY <1>1
<1>4. CASE ~Fits(s, c, topK, maxCharacters)
  <2>1. at \in [DOMAIN s -> 1 .. k]
    BY <1>1, <1>2
  <2>2. \A j \in 1 .. k : ~Fits(s, candidates[j], topK, maxCharacters)
    BY <1>3, <1>4 DEF Chosen
  <2>3. Chosen(s, candidates, k, topK, maxCharacters)
    BY <1>2, <2>1, <2>2 DEF Chosen
  <2>4. QED BY <1>4, <2>3 DEF Taken
<1>5. CASE Fits(s, c, topK, maxCharacters)
  <2>1. /\ Len(s) \in Nat /\ Len(t) = Len(s) + 1
        /\ DOMAIN s = 1 .. Len(s) /\ DOMAIN t = DOMAIN s \cup {Len(s) + 1}
        /\ \A i \in DOMAIN s : t[i] = s[i]
        /\ t[Len(s) + 1] = c /\ Len(s) + 1 \notin DOMAIN s
        /\ ToSet(t) = ToSet(s) \cup {c}
    BY <1>1, Appended
  <2>2. /\ Len(s) < topK /\ (\A d \in ToSet(s) : d.hash # c.hash)
        /\ Cardinality(OnPage(s, c.page)) < 2
        /\ Characters(s) + c.size <= maxCharacters
    BY <1>5 DEF Fits, OnPage
  <2> HIDE DEF t
  <2>3. Len(t) <= topK
    BY <2>1, <2>2
  <2>4. Characters(t) <= maxCharacters
    BY <1>1, <2>2, CharactersAppend DEF t
  <2>5. IsFiniteSet(Hashes(t)) /\ Cardinality(Hashes(t)) = Len(t)
    <3>1. Hashes(t) = Hashes(s) \cup {c.hash} /\ c.hash \notin Hashes(s)
      BY <2>1, <2>2 DEF Hashes
    <3>2. IsFiniteSet(Hashes(s)) /\ Cardinality(Hashes(s)) = Len(s)
      BY DEF Chosen
    <3>3. /\ IsFiniteSet(Hashes(s) \cup {c.hash})
          /\ Cardinality(Hashes(s) \cup {c.hash}) = Cardinality(Hashes(s)) + 1
      BY <3>1, <3>2, FS_AddElement
    <3>4. QED BY <2>1, <3>1, <3>2, <3>3
  <2>6. ASSUME NEW page PROVE Cardinality(OnPage(t, page)) <= 2
    <3>1. Cardinality(OnPage(s, page)) <= 2
      BY DEF Chosen
    <3>2. /\ Cardinality(OnPage(s, page)) \in Nat
          /\ Cardinality(OnPage(t, page))
                = IF c.page = page THEN Cardinality(OnPage(s, page)) + 1
                  ELSE Cardinality(OnPage(s, page))
      BY <1>1, OnPageAppend DEF t
    <3>3. QED BY <2>2, <3>1, <3>2
  <2>7. \E now \in [DOMAIN t -> 1 .. k] :
           /\ \A i, j \in DOMAIN t : i < j => now[i] < now[j]
           /\ \A i \in DOMAIN t : t[i] = candidates[now[i]]
    <3> DEFINE now == [i \in DOMAIN t |-> IF i \in DOMAIN s THEN at[i] ELSE k]
    <3>1. now \in [DOMAIN t -> 1 .. k]
      BY <1>1, <1>2
    <3>2. \A i \in DOMAIN s : now[i] = at[i] /\ at[i] \in 1 .. k - 1
      BY <1>2, <2>1
    <3>3. now[Len(s) + 1] = k
      BY <2>1
    <3> HIDE DEF now
    <3>4. ASSUME NEW i \in DOMAIN t, NEW j \in DOMAIN t, i < j
          PROVE  now[i] < now[j]
      <4>1. i \in DOMAIN s
        BY <2>1, <3>4
      <4>2. CASE j \in DOMAIN s
        BY <1>2, <3>2, <3>4, <4>1, <4>2
      <4>3. CASE j = Len(s) + 1
        BY <1>1, <3>2, <3>3, <4>1, <4>3
      <4>4. QED BY <2>1, <4>2, <4>3
    <3>5. ASSUME NEW i \in DOMAIN t PROVE t[i] = candidates[now[i]]
      BY <1>2, <2>1, <3>2, <3>3
    <3>6. QED BY <3>1, <3>4, <3>5
  <2>8. ASSUME NEW j \in 1 .. k PROVE ~Fits(t, candidates[j], topK, maxCharacters)
    <3>1. CASE j = k
      BY <2>1, <3>1 DEF Fits
    <3>2. CASE j \in 1 .. k - 1
      <4>1. ~Fits(s, candidates[j], topK, maxCharacters)
        BY <3>2 DEF Chosen
      <4>2. QED BY <1>1, <4>1, StillUnfit DEF t
    <3>3. QED BY <1>3, <3>1, <3>2
  <2>9. Chosen(t, candidates, k, topK, maxCharacters)
    BY <2>3, <2>4, <2>5, <2>6, <2>7, <2>8 DEF Chosen
  <2>10. QED BY <1>5, <2>9 DEF Taken, t
<1>6. QED BY <1>4, <1>5

\* Whatever the candidates are, the evidence keeps their order and every bound, and
\* none is left out that would still fit.
THEOREM EvidenceIsWhatFits ==
    ASSUME NEW hashes, NEW pages, NEW candidates \in Seq(Candidates(hashes, pages)),
           NEW topK \in Nat, NEW maxCharacters \in Nat
    PROVE  EvidenceIsMaximal(candidates, topK, maxCharacters)
<1> DEFINE C == Candidates(hashes, pages)
           n == Len(candidates)
<1>1. PICK r : /\ r[0] = <<>>
               /\ \A k \in 1 .. n : r[k] = Taken(r[k - 1], candidates[k], topK, maxCharacters)
               /\ Evidence(candidates, topK, maxCharacters) = r[n]
  BY EvidenceUnfold
<1>2. n \in Nat /\ DOMAIN candidates = 1 .. n /\ \A k \in 1 .. n : candidates[k] \in C
  OBVIOUS
<1> DEFINE Good == {k \in 0 .. n : r[k] \in Seq(C)
                                   /\ Chosen(r[k], candidates, k, topK, maxCharacters)}
<1>3. ASSUME NEW k \in 0 .. n, \A j \in 0 .. k - 1 : j \in Good
      PROVE  k \in Good
  <2>1. CASE k = 0
    <3>1. r[k] = <<>> /\ <<>> \in Seq(C) /\ DOMAIN <<>> = {} /\ Len(<<>>) = 0
      BY <1>1, <2>1
    <3>2. Characters(r[k]) = 0
      <4>1. [i \in DOMAIN <<>> |-> <<>>[i].size] = <<>>
        OBVIOUS
      <4>2. QED BY <3>1, <4>1, TotalOfNone DEF Characters
    <3>3. Chosen(r[k], candidates, k, topK, maxCharacters)
      BY <2>1, <3>1, <3>2, NoneIsChosen
    <3>4. QED BY <3>1, <3>3
  <2>2. CASE k # 0
    <3>1. k - 1 \in 0 .. k - 1 /\ k \in 1 .. n
      BY <1>2, <2>2
    <3>2. r[k - 1] \in Seq(C) /\ Chosen(r[k - 1], candidates, k - 1, topK, maxCharacters)
      BY <1>3, <3>1
    <3>3. r[k] = Taken(r[k - 1], candidates[k], topK, maxCharacters)
      BY <1>1, <3>1
    <3>4. r[k] \in Seq(C)
      BY <1>2, <3>1, <3>2, <3>3 DEF Taken
    <3>5. Chosen(r[k], candidates, k, topK, maxCharacters)
      BY <3>1, <3>2, <3>3, TakenIsChosen
    <3>6. QED BY <3>4, <3>5
  <2>3. QED BY <2>1, <2>2
<1> DEFINE chosen == Evidence(candidates, topK, maxCharacters)
<1>4. chosen \in Seq(C) /\ Chosen(chosen, candidates, n, topK, maxCharacters)
  <2>1. n \in 0 .. n
    BY <1>2
  <2> HIDE DEF Good
  <2>2. n \in Good
    BY <1>2, <1>3, <2>1, Upwards
  <2>3. QED BY <1>1, <2>2 DEF Good
<1> HIDE DEF chosen
<1>5. \A c \in ToSet(candidates) : \E j \in 1 .. n : c = candidates[j]
  BY <1>2 DEF ToSet
<1>6. EvidenceIsMaximal(candidates, topK, maxCharacters) =
        /\ Len(chosen) <= topK
        /\ Characters(chosen) <= maxCharacters
        /\ Cardinality(Hashes(chosen)) = Len(chosen)
        /\ \A page \in {c.page : c \in ToSet(chosen)} : Cardinality(OnPage(chosen, page)) <= 2
        /\ \E at \in [DOMAIN chosen -> DOMAIN candidates] :
             /\ \A i, j \in DOMAIN chosen : i < j => at[i] < at[j]
             /\ \A i \in DOMAIN chosen : chosen[i] = candidates[at[i]]
        /\ \A c \in ToSet(candidates) : ~Fits(chosen, c, topK, maxCharacters)
  BY DEF EvidenceIsMaximal, chosen, Hashes, OnPage
<1>7. QED BY <1>2, <1>4, <1>5, <1>6 DEF Chosen

-----------------------------------------------------------------------------
(* AllowedSchemaRetriever.retrieve: the schema of a question. *)

\* Recursion over the positions of a sequence.
Recurses(h, A, base, n, F) ==
    /\ h[0] = base
    /\ \A k \in 1 .. n : h[k] = F[k][h[k - 1]]
    /\ \A k \in 0 .. n : h[k] \in A

\* Steps from a first value define a function on 0 .. n.
LEMMA Recursion ==
    ASSUME NEW A, NEW base \in A, NEW n \in Nat, NEW F \in Steps(A, n)
    PROVE  \E h : Recurses(h, A, base, n, F)
<1>1. PICK g : Iterates(g, A, base, n, F)
  BY Iteration
<1> DEFINE h == [k \in 0 .. n |-> g[1 .. k]]
<1>2. \A k \in 0 .. n : 1 .. k \in SUBSET (1 .. n)
  OBVIOUS
<1>3. ASSUME NEW k \in 0 .. n
      PROVE  h[k] \in A /\ h[k] = IF k = 0 THEN base ELSE F[k][h[k - 1]]
  <2>1. h[k] = g[1 .. k] /\ h[k] \in A
    BY <1>1, <1>2 DEF Iterates
  <2>2. CASE k = 0
    <3>1. 1 .. k = {}
      BY <2>2
    <3>2. QED BY <1>1, <1>2, <2>1, <2>2, <3>1 DEF Iterates
  <2>3. CASE k # 0
    <3>1. (1 .. k) \ {k} = 1 .. k - 1 /\ k \in 1 .. k /\ k - 1 \in 0 .. n /\ 1 .. k # {}
      BY <2>3
    <3>2. Max(1 .. k) = k
      BY <3>1, LastIsMax
    <3>3. h[k - 1] = g[1 .. k - 1]
      BY <3>1
    <3> HIDE DEF h
    <3>4. QED BY <1>1, <1>2, <2>1, <2>3, <3>1, <3>2, <3>3 DEF Iterates
  <2>4. QED BY <2>2, <2>3
<1> HIDE DEF h
<1>4. Recurses(h, A, base, n, F)
  <2>1. 0 \in 0 .. n /\ \A k \in 1 .. n : k \in 0 .. n /\ k # 0
    OBVIOUS
  <2>2. QED BY <1>3, <2>1 DEF Recurses
<1>5. QED BY <1>4

LEMMA Concatenated ==
    ASSUME NEW T, NEW s \in Seq(T), NEW t \in Seq(T)
    PROVE  s \o t \in Seq(T) /\ ToSet(s \o t) = ToSet(s) \cup ToSet(t)
<1> DEFINE w == s \o t
<1>1. /\ w \in Seq(T) /\ Len(s) \in Nat /\ Len(t) \in Nat
      /\ DOMAIN s = 1 .. Len(s) /\ DOMAIN t = 1 .. Len(t)
      /\ DOMAIN w = 1 .. Len(s) + Len(t)
      /\ \A i \in 1 .. Len(s) : w[i] = s[i]
      /\ \A i \in 1 .. Len(t) : w[Len(s) + i] = t[i]
  OBVIOUS
<1> HIDE DEF w
<1>2. \A i \in DOMAIN s : i \in DOMAIN w /\ w[i] = s[i]
  BY <1>1
<1>3. \A i \in DOMAIN t : Len(s) + i \in DOMAIN w /\ w[Len(s) + i] = t[i]
  BY <1>1
<1>4. ASSUME NEW i \in DOMAIN w
      PROVE  (\E j \in DOMAIN s : w[i] = s[j]) \/ (\E j \in DOMAIN t : w[i] = t[j])
  <2>1. CASE i \in DOMAIN s
    BY <1>2, <2>1
  <2>2. CASE i \notin DOMAIN s
    <3>1. i - Len(s) \in DOMAIN t /\ Len(s) + (i - Len(s)) = i
      BY <1>1, <2>2
    <3>2. QED BY <1>3, <3>1
  <2>3. QED BY <2>1, <2>2
<1>5. ToSet(w) = ToSet(s) \cup ToSet(t)
  BY <1>2, <1>3, <1>4 DEF ToSet
<1>6. QED BY <1>1, <1>5 DEF w

\* What a concatenation of sequences holds is in one of them.
LEMMA Flattened ==
    ASSUME NEW T, NEW seqs \in Seq(Seq(T))
    PROVE  /\ FlattenSeq(seqs) \in Seq(T)
           /\ \A x \in ToSet(FlattenSeq(seqs)) : \E i \in DOMAIN seqs : x \in ToSet(seqs[i])
<1> DEFINE n == Len(seqs)
<1>1. n \in Nat /\ DOMAIN seqs = 1 .. n /\ \A i \in 1 .. n : seqs[i] \in Seq(T)
  OBVIOUS
<1>2. CASE n = 0
  <2>1. FlattenSeq(seqs) = seqs /\ seqs = <<>>
    BY <1>2 DEF FlattenSeq
  <2>2. QED BY <2>1 DEF ToSet
<1>3. CASE n # 0
  <2> DEFINE Body(g, i) == IF i = 1 THEN seqs[i] ELSE g[i - 1] \o seqs[i]
             flatten == CHOOSE g : g = [i \in 1 .. n |-> Body(g, i)]
             F == [k \in 1 .. n |-> [a \in Seq(T) |-> a \o seqs[k]]]
  <2>1. FlattenSeq(seqs) = flatten[n]
    BY <1>3 DEF FlattenSeq
  <2> HIDE DEF n
  <2>2. F \in Steps(Seq(T), n)
    BY <1>1, Concatenated DEF Steps
  <2>3. PICK h : Recurses(h, Seq(T), <<>>, n, F)
    <3>1. <<>> \in Seq(T)
      OBVIOUS
    <3> HIDE DEF F
    <3>2. QED BY <1>1, <2>2, <3>1, Recursion
  <2>4. ASSUME NEW k \in 1 .. n PROVE h[k] = h[k - 1] \o seqs[k] /\ h[k - 1] \in Seq(T)
    <3>1. k \in 0 .. n /\ k # 0 /\ k - 1 \in 0 .. n
      BY <1>1
    <3>2. h[k - 1] \in Seq(T)
      BY <2>3, <3>1 DEF Recurses
    <3>3. F[k][h[k - 1]] = h[k - 1] \o seqs[k]
      BY <3>2
    <3>4. h[k] = F[k][h[k - 1]]
      <4> HIDE DEF F
      <4>1. QED BY <2>3 DEF Recurses
    <3>5. QED BY <3>2, <3>3, <3>4
  <2>5. h[0] = <<>>
    BY <2>3 DEF Recurses
  <2> DEFINE g == [i \in 1 .. n |-> h[i]]
  <2>6. g = [i \in 1 .. n |-> Body(g, i)]
    <3>1. ASSUME NEW i \in 1 .. n PROVE g[i] = Body(g, i)
      <4>1. CASE i = 1
        <5>1. 1 \in 1 .. n /\ seqs[1] \in Seq(T) /\ 1 - 1 = 0
          BY <1>1, <4>1
        <5>2. h[1] = h[0] \o seqs[1]
          BY <2>4, <5>1
        <5>3. h[1] = seqs[1]
          BY <2>5, <5>1, <5>2
        <5>4. QED BY <4>1, <5>3
      <4>2. CASE i # 1
        <5>1. i - 1 \in 1 .. n
          BY <1>1, <4>2
        <5>2. g[i - 1] = h[i - 1] /\ g[i] = h[i]
          BY <5>1
        <5> HIDE DEF g
        <5>3. QED BY <2>4, <4>2, <5>2
      <4>3. QED BY <4>1, <4>2
    <3> HIDE DEF Body
    <3>2. QED BY <3>1
  <2>7. flatten = [i \in 1 .. n |-> Body(flatten, i)]
    <3> HIDE DEF Body, g
    <3>1. QED BY <2>6
  <2> HIDE DEF flatten, F, g
  <2> DEFINE Good == {i \in 0 .. n : i # 0 =>
                        /\ flatten[i] \in Seq(T)
                        /\ \A x \in ToSet(flatten[i]) : \E j \in DOMAIN seqs : x \in ToSet(seqs[j])}
  <2>8. ASSUME NEW i \in 0 .. n, \A j \in 0 .. i - 1 : j \in Good
        PROVE  i \in Good
    <3>1. CASE i = 0
      BY <3>1
    <3>2. CASE i = 1
      <4>1. 1 \in 1 .. n /\ flatten[1] = seqs[1]
        BY <1>1, <2>7, <3>2
      <4>2. QED BY <1>1, <3>2, <4>1
    <3>3. CASE i # 0 /\ i # 1
      <4>1. i \in 1 .. n /\ i - 1 \in 0 .. i - 1 /\ i - 1 # 0
        BY <1>1, <3>3
      <4>2. flatten[i] = flatten[i - 1] \o seqs[i]
        BY <2>7, <3>3, <4>1
      <4>3. i - 1 \in Good
        BY <2>8, <4>1
      <4>4. /\ flatten[i - 1] \in Seq(T)
            /\ \A x \in ToSet(flatten[i - 1]) : \E j \in DOMAIN seqs : x \in ToSet(seqs[j])
        BY <4>1, <4>3
      <4>5. /\ flatten[i] \in Seq(T)
            /\ ToSet(flatten[i]) = ToSet(flatten[i - 1]) \cup ToSet(seqs[i])
        BY <1>1, <4>1, <4>2, <4>4, Concatenated
      <4>6. QED BY <1>1, <4>1, <4>4, <4>5
    <3>4. QED BY <3>1, <3>2, <3>3
  <2>9. n \in Good
    <3>1. n \in 0 .. n
      BY <1>1
    <3> HIDE DEF Good
    <3>2. QED BY <1>1, <2>8, <3>1, Upwards
  <2>10. n # 0
    BY <1>3
  <2>11. QED BY <2>1, <2>9, <2>10
<1>4. QED BY <1>2, <1>3

Best(ranked, maxTables) == SubSeq(ranked, 1, Least(Len(ranked), maxTables))
Wanted(best, references) == FlattenSeq([i \in DOMAIN best |-> references[best[i]]])

\* One reference of the fold.
Added(chosen, t, allowed, maxTables) ==
    IF Len(chosen) < maxTables /\ t \in allowed /\ t \notin ToSet(chosen)
    THEN Append(chosen, t) ELSE chosen

Follows(r, best, wanted, allowed, maxTables) ==
    /\ r[0] = best
    /\ \A k \in 1 .. Len(wanted) : r[k] = Added(r[k - 1], wanted[k], allowed, maxTables)

\* Tables are the best ones and what is added of the tables they refer to.
LEMMA TablesUnfold ==
    ASSUME NEW U, NEW ranked, NEW allowed, NEW references, NEW maxTables,
           Best(ranked, maxTables) \in Seq(U),
           Wanted(Best(ranked, maxTables), references) \in Seq(U)
    PROVE  LET best == Best(ranked, maxTables)
               wanted == Wanted(best, references)
           IN  \E r : /\ Follows(r, best, wanted, allowed, maxTables)
                      /\ Tables(ranked, allowed, references, maxTables) = r[Len(wanted)]
<1> DEFINE best == Best(ranked, maxTables)
           wanted == Wanted(best, references)
           n == Len(wanted)
           S == DOMAIN wanted
           Body(g, s) == IF s = {} THEN best
                         ELSE Added(g[s \ {Max(s)}], wanted[Max(s)], allowed, maxTables)
           F == [k \in 1 .. n |-> [a \in Seq(U) |-> Added(a, wanted[k], allowed, maxTables)]]
           iter == CHOOSE h : h = [s \in SUBSET S |-> Body(h, s)]
<1>1. Tables(ranked, allowed, references, maxTables) = iter[S]
  BY DEF Tables, FoldLeft, MapThenFoldSet, Added, Best, Wanted
<1>2. best \in Seq(U) /\ wanted \in Seq(U)
  OBVIOUS
<1> HIDE DEF best, wanted
<1>3. n \in Nat /\ S = 1 .. n /\ \A k \in 1 .. n : wanted[k] \in U
  BY <1>2
<1> HIDE DEF n, S
<1>4. F \in Steps(Seq(U), n)
  <2>1. \A a \in Seq(U), k \in 1 .. n : Added(a, wanted[k], allowed, maxTables) \in Seq(U)
    BY <1>3 DEF Added
  <2>2. QED BY <2>1 DEF Steps
<1>5. PICK built : built = [s \in SUBSET (1 .. n) |-> Body(built, s)]
  <2>1. PICK g : Iterates(g, Seq(U), best, n, F)
    <3> HIDE DEF F
    <3>1. QED BY <1>2, <1>3, <1>4, Iteration
  <2>2. ASSUME NEW s \in SUBSET (1 .. n) PROVE g[s] = Body(g, s)
    <3>1. CASE s = {}
      BY <2>1, <3>1 DEF Iterates
    <3>2. CASE s # {}
      <4>1. Max(s) \in 1 .. n
        BY <1>3, <3>2, MaxIsIn
      <4>2. g[s \ {Max(s)}] \in Seq(U)
        BY <2>1 DEF Iterates
      <4>3. F[Max(s)][g[s \ {Max(s)}]]
               = Added(g[s \ {Max(s)}], wanted[Max(s)], allowed, maxTables)
        BY <4>1, <4>2
      <4> HIDE DEF F
      <4>4. QED BY <2>1, <3>2, <4>3 DEF Iterates
    <3>3. QED BY <3>1, <3>2
  <2> HIDE DEF Body
  <2>3. QED BY <2>1, <2>2 DEF Iterates
<1>6. iter = [s \in SUBSET (1 .. n) |-> Body(iter, s)]
  <2>1. \E h : h = [s \in SUBSET S |-> Body(h, s)]
    BY <1>3, <1>5
  <2>2. iter = [s \in SUBSET S |-> Body(iter, s)]
    BY <2>1
  <2> HIDE DEF iter, Body
  <2>3. QED BY <1>3, <2>2
<1> HIDE DEF iter
<1> DEFINE r == [k \in 0 .. n |-> iter[1 .. k]]
<1>7. r[0] = best
  <2>1. 1 .. 0 = {}
    OBVIOUS
  <2>2. QED BY <1>3, <1>6, <2>1
<1>8. ASSUME NEW k \in 1 .. n
      PROVE  r[k] = Added(r[k - 1], wanted[k], allowed, maxTables)
  <2>1. 1 .. k \in SUBSET (1 .. n) /\ (1 .. k) \ {k} = 1 .. k - 1 /\ k \in 1 .. k
    BY <1>3
  <2>2. Max(1 .. k) = k
    BY <1>3, LastIsMax
  <2>3. k \in 0 .. n /\ k - 1 \in 0 .. n
    BY <1>3
  <2>4. iter[1 .. k] = Added(iter[1 .. k - 1], wanted[k], allowed, maxTables)
    BY <1>6, <2>1, <2>2
  <2>5. QED BY <2>3, <2>4
<1>9. Tables(ranked, allowed, references, maxTables) = r[n]
  BY <1>1, <1>3
<1> HIDE DEF r
<1>10. Follows(r, best, wanted, allowed, maxTables)
  BY <1>7, <1>8 DEF Follows, n
<1>11. QED BY <1>9, <1>10 DEF n, wanted, best

Once(s) == IsFiniteSet(ToSet(s)) /\ Cardinality(ToSet(s)) = Len(s)

\* The best tables are allowed, ranked, not too many and each once.
LEMMA BestTables ==
    ASSUME NEW allowed, NEW ranked \in Seq(allowed), NEW maxTables \in Nat,
           \A i, j \in DOMAIN ranked : ranked[i] = ranked[j] => i = j
    PROVE  LET best == Best(ranked, maxTables)
           IN  /\ best \in Seq(allowed) /\ Len(best) <= maxTables
               /\ ToSet(best) \subseteq ToSet(ranked)
               /\ Once(best)
<1> DEFINE best == Best(ranked, maxTables)
           l == Least(Len(ranked), maxTables)
<1>1. l \in Nat /\ l <= Len(ranked) /\ l <= maxTables /\ Len(ranked) \in Nat
      /\ DOMAIN ranked = 1 .. Len(ranked)
  BY DEF Least
<1> HIDE DEF l
<1>2. /\ best \in Seq(allowed) /\ Len(best) = l /\ DOMAIN best = 1 .. l
      /\ \A i \in 1 .. l : best[i] = ranked[i]
  BY <1>1 DEF Best, l
<1> HIDE DEF best
<1>3. ToSet(best) \subseteq ToSet(ranked)
  BY <1>1, <1>2 DEF ToSet
<1> DEFINE First(k) == {best[i] : i \in 1 .. k}
           Good == {k \in 0 .. l : IsFiniteSet(First(k)) /\ Cardinality(First(k)) = k}
<1>4. ASSUME NEW k \in 0 .. l, \A j \in 0 .. k - 1 : j \in Good
      PROVE  k \in Good
  <2>1. CASE k = 0
    <3>1. First(k) = {}
      BY <2>1
    <3>2. IsFiniteSet({}) /\ Cardinality({}) = 0
      BY FS_EmptySet
    <3> HIDE DEF First
    <3>3. IsFiniteSet(First(k)) /\ Cardinality(First(k)) = k
      BY <2>1, <3>1, <3>2
    <3>4. QED BY <3>3
  <2>2. CASE k # 0
    <3>1. k - 1 \in 0 .. k - 1 /\ k \in 1 .. l /\ k - 1 \in Nat
      BY <1>1, <2>2
    <3>2. IsFiniteSet(First(k - 1)) /\ Cardinality(First(k - 1)) = k - 1
      BY <1>4, <3>1
    <3>3. First(k) = First(k - 1) \cup {best[k]}
      <4>1. \A i \in 1 .. k : i = k \/ i \in 1 .. k - 1
        BY <3>1
      <4>2. \A i \in 1 .. k - 1 : i \in 1 .. k
        BY <3>1
      <4>3. k \in 1 .. k
        BY <3>1
      <4>4. QED BY <4>1, <4>2, <4>3
    <3>4. best[k] \notin First(k - 1)
      <4>1. ASSUME NEW i \in 1 .. k - 1 PROVE best[i] # best[k]
        <5>1. /\ i \in 1 .. l /\ i # k
              /\ i \in DOMAIN ranked /\ k \in DOMAIN ranked
          BY <1>1, <3>1
        <5>2. QED BY <1>2, <3>1, <5>1
      <4>2. QED BY <4>1
    <3> HIDE DEF First
    <3>5. /\ IsFiniteSet(First(k - 1) \cup {best[k]})
          /\ Cardinality(First(k - 1) \cup {best[k]}) = Cardinality(First(k - 1)) + 1
      BY <3>2, <3>4, FS_AddElement
    <3>6. IsFiniteSet(First(k))
      BY <3>3, <3>5
    <3>7. Cardinality(First(k)) = k
      <4>1. Cardinality(First(k)) = (k - 1) + 1
        BY <3>2, <3>3, <3>5
      <4>2. QED BY <3>1, <4>1
    <3>8. QED BY <3>6, <3>7
  <2>3. QED BY <2>1, <2>2
<1>5. IsFiniteSet(First(l)) /\ Cardinality(First(l)) = l
  <2>1. l \in 0 .. l
    BY <1>1
  <2> HIDE DEF Good
  <2>2. l \in Good
    BY <1>1, <1>4, <2>1, Upwards
  <2> HIDE DEF First
  <2>3. QED BY <2>2 DEF Good
<1>6. ToSet(best) = First(l)
  BY <1>2 DEF ToSet
<1> HIDE DEF First
<1>7. QED BY <1>1, <1>2, <1>3, <1>5, <1>6 DEF best, Once

\* What is said of the tables after some of the references.
Selected(s, best, wanted, allowed, maxTables) ==
    /\ s \in Seq(allowed) /\ Len(s) <= maxTables /\ Once(s)
    /\ IsPrefix(best, s)
    /\ ToSet(s) \subseteq ToSet(best) \cup ToSet(wanted)

\* A table that is added is allowed, wanted, new and not one too many.
LEMMA AddedIsSelected ==
    ASSUME NEW allowed, NEW maxTables \in Nat, NEW best \in Seq(allowed), NEW wanted, NEW s,
           NEW t \in ToSet(wanted), Selected(s, best, wanted, allowed, maxTables)
    PROVE  Selected(Added(s, t, allowed, maxTables), best, wanted, allowed, maxTables)
<1>1. CASE Len(s) < maxTables /\ t \in allowed /\ t \notin ToSet(s)
  <2> DEFINE u == Append(s, t)
  <2>1. s \in Seq(allowed) /\ Once(s) /\ IsPrefix(best, s)
    BY DEF Selected
  <2>2. /\ u \in Seq(allowed) /\ Len(s) \in Nat /\ Len(u) = Len(s) + 1
        /\ DOMAIN s = 1 .. Len(s)
        /\ \A i \in DOMAIN s : u[i] = s[i]
        /\ ToSet(u) = ToSet(s) \cup {t}
    BY <1>1, <2>1, Appended
  <2> HIDE DEF u
  <2>3. Once(u)
    <3>1. IsFiniteSet(ToSet(s)) /\ Cardinality(ToSet(s)) = Len(s)
      BY <2>1 DEF Once
    <3>2. /\ IsFiniteSet(ToSet(s) \cup {t})
          /\ Cardinality(ToSet(s) \cup {t}) = Cardinality(ToSet(s)) + 1
      BY <1>1, <3>1, FS_AddElement
    <3>3. QED BY <2>2, <3>1, <3>2 DEF Once
  <2>4. IsPrefix(best, u)
    <3>1. Len(best) \in Nat /\ Len(best) <= Len(s)
      BY <2>1 DEF IsPrefix
    <3>2. SubSeq(u, 1, Len(best)) = SubSeq(s, 1, Len(best))
      BY <2>1, <2>2, <3>1
    <3>3. QED BY <2>1, <2>2, <3>1, <3>2 DEF IsPrefix
  <2>5. Len(u) <= maxTables /\ ToSet(u) \subseteq ToSet(best) \cup ToSet(wanted)
    BY <1>1, <2>2 DEF Selected
  <2>6. Selected(u, best, wanted, allowed, maxTables)
    BY <2>2, <2>3, <2>4, <2>5 DEF Selected
  <2>7. QED BY <1>1, <2>6 DEF Added, u
<1>2. CASE ~(Len(s) < maxTables /\ t \in allowed /\ t \notin ToSet(s))
  BY <1>2 DEF Added
<1>3. QED BY <1>1, <1>2

\* What is chosen of the tables keeps to all of that.
LEMMA TablesSelected ==
    ASSUME NEW allowed, NEW ranked \in Seq(allowed), NEW T,
           NEW references \in [allowed -> Seq(T)], NEW maxTables \in Nat,
           \A i, j \in DOMAIN ranked : ranked[i] = ranked[j] => i = j
    PROVE  LET best == Best(ranked, maxTables)
               wanted == Wanted(best, references)
           IN  /\ Selected(Tables(ranked, allowed, references, maxTables), best, wanted,
                           allowed, maxTables)
               /\ \A t \in ToSet(wanted) : \E u \in ToSet(best) : t \in ToSet(references[u])
<1> DEFINE best == Best(ranked, maxTables)
           wanted == Wanted(best, references)
           seqs == [i \in DOMAIN best |-> references[best[i]]]
           U == allowed \cup T
<1>1. /\ best \in Seq(allowed) /\ Len(best) <= maxTables /\ Once(best)
  BY BestTables
<1> HIDE DEF best
<1>2. /\ Len(best) \in Nat /\ DOMAIN best = 1 .. Len(best)
      /\ \A i \in DOMAIN best : best[i] \in allowed
  BY <1>1
<1>3. seqs \in Seq(Seq(T)) /\ DOMAIN seqs = DOMAIN best
      /\ \A i \in DOMAIN best : seqs[i] = references[best[i]]
  <2>1. \A i \in 1 .. Len(best) : references[best[i]] \in Seq(T)
    BY <1>2
  <2>2. seqs \in [1 .. Len(best) -> Seq(T)]
    BY <1>2, <2>1
  <2>3. QED BY <1>2, <2>2
<1>4. wanted = FlattenSeq(seqs)
  BY DEF Wanted
<1> HIDE DEF wanted, seqs
<1>5. /\ wanted \in Seq(T)
      /\ \A t \in ToSet(wanted) : \E i \in DOMAIN best : t \in ToSet(references[best[i]])
  <2>1. /\ wanted \in Seq(T)
        /\ \A t \in ToSet(wanted) : \E i \in DOMAIN seqs : t \in ToSet(seqs[i])
    BY <1>3, <1>4, Flattened
  <2>2. QED BY <1>3, <2>1
<1>6. best \in Seq(U) /\ wanted \in Seq(U)
  <2>1. /\ \A i \in DOMAIN best : best[i] \in U
        /\ \A i \in DOMAIN wanted : wanted[i] \in U
    BY <1>1, <1>5
  <2> HIDE DEF U
  <2>2. QED BY <1>1, <1>5, <2>1
<1> HIDE DEF U
<1>7. PICK r : /\ Follows(r, best, wanted, allowed, maxTables)
               /\ Tables(ranked, allowed, references, maxTables) = r[Len(wanted)]
  BY <1>6, TablesUnfold DEF wanted, best
<1> DEFINE n == Len(wanted)
           Good == {k \in 0 .. n : Selected(r[k], best, wanted, allowed, maxTables)}
<1>8. n \in Nat /\ DOMAIN wanted = 1 .. n
  BY <1>5
<1>9. ASSUME NEW k \in 0 .. n, \A j \in 0 .. k - 1 : j \in Good
      PROVE  k \in Good
  <2>1. CASE k = 0
    <3>1. IsPrefix(best, best)
      BY <1>2 DEF IsPrefix
    <3>2. Selected(best, best, wanted, allowed, maxTables)
      BY <1>1, <3>1 DEF Selected
    <3>3. QED BY <1>7, <2>1, <3>2 DEF Follows
  <2>2. CASE k # 0
    <3>1. k - 1 \in 0 .. k - 1 /\ k \in 1 .. n
      BY <1>8, <2>2
    <3>2. Selected(r[k - 1], best, wanted, allowed, maxTables)
      BY <1>9, <3>1
    <3>3. wanted[k] \in ToSet(wanted)
      BY <1>8, <3>1 DEF ToSet
    <3>4. Selected(Added(r[k - 1], wanted[k], allowed, maxTables), best, wanted, allowed, maxTables)
      BY <1>1, <3>2, <3>3, AddedIsSelected
    <3>5. r[k] = Added(r[k - 1], wanted[k], allowed, maxTables)
      BY <1>7, <3>1 DEF Follows
    <3>6. QED BY <3>4, <3>5
  <2>3. QED BY <2>1, <2>2
<1>10. Selected(r[n], best, wanted, allowed, maxTables)
  <2>1. n \in 0 .. n
    BY <1>8
  <2> HIDE DEF Good
  <2>2. n \in Good
    BY <1>8, <1>9, <2>1, Upwards
  <2>3. QED BY <2>2 DEF Good
<1>11. \A t \in ToSet(wanted) : \E u \in ToSet(best) : t \in ToSet(references[u])
  BY <1>5 DEF ToSet
<1>12. QED BY <1>7, <1>10, <1>11 DEF wanted, best

\* The columns shown of the tables, by recursion over these.
LEMMA ColumnsBounded ==
    ASSUME NEW allowed, NEW chosen \in Seq(allowed), NEW readable \in [allowed -> Nat],
           NEW maxColumns \in Nat
    PROVE  LET columns == Columns(chosen, readable, maxColumns)
           IN  /\ Total(columns) <= maxColumns
               /\ DOMAIN columns = DOMAIN chosen
               /\ \A i \in DOMAIN columns : columns[i] \in 0 .. readable[chosen[i]]
<1> DEFINE n == Len(chosen)
           ShowMore(before, i) == Append(before, Least(readable[chosen[i]], maxColumns - Total(before)))
           Body(g, i) == IF i = 0 THEN <<>> ELSE ShowMore(g[i - 1], i)
           shown == CHOOSE g : g = [i \in 0 .. n |-> Body(g, i)]
           F == [i \in 1 .. n |-> [before \in Seq(Int) |-> ShowMore(before, i)]]
<1>1. Columns(chosen, readable, maxColumns) = shown[n]
  BY DEF Columns
<1>2. n \in Nat /\ DOMAIN chosen = 1 .. n /\ \A i \in 1 .. n : readable[chosen[i]] \in Nat
  OBVIOUS
<1> HIDE DEF n
<1>3. \A before \in Seq(Int), i \in 1 .. n : ShowMore(before, i) \in Seq(Int)
  <2>1. SUFFICES ASSUME NEW before \in Seq(Int), NEW i \in 1 .. n
                 PROVE  ShowMore(before, i) \in Seq(Int)
    OBVIOUS
  <2>2. Least(readable[chosen[i]], maxColumns - Total(before)) \in Int
    BY <1>2, TotalAppend DEF Least
  <2>3. QED BY <2>2
<1>4. F \in Steps(Seq(Int), n)
  <2> HIDE DEF ShowMore
  <2>1. QED BY <1>3 DEF Steps
<1>5. PICK h : Recurses(h, Seq(Int), <<>>, n, F)
  <2>1. <<>> \in Seq(Int)
    OBVIOUS
  <2> HIDE DEF F
  <2>2. QED BY <1>2, <1>4, <2>1, Recursion
<1> HIDE DEF ShowMore
<1>6. ASSUME NEW k \in 1 .. n PROVE h[k] = ShowMore(h[k - 1], k)
  <2>1. h[k - 1] \in Seq(Int)
    <3>1. k - 1 \in 0 .. n
      BY <1>2
    <3>2. QED BY <1>5, <3>1 DEF Recurses
  <2>2. F[k][h[k - 1]] = ShowMore(h[k - 1], k)
    BY <2>1
  <2> HIDE DEF F
  <2>3. QED BY <1>5, <2>2 DEF Recurses
<1> DEFINE g == [i \in 0 .. n |-> h[i]]
<1>7. g = [i \in 0 .. n |-> Body(g, i)]
  <2>1. ASSUME NEW i \in 0 .. n PROVE g[i] = Body(g, i)
    <3>1. CASE i = 0
      BY <1>5, <3>1 DEF Recurses
    <3>2. CASE i # 0
      <4>1. i \in 1 .. n /\ i - 1 \in 0 .. n
        BY <1>2, <3>2
      <4>2. g[i] = h[i] /\ g[i - 1] = h[i - 1]
        BY <4>1
      <4> HIDE DEF g
      <4>3. QED BY <1>6, <3>2, <4>1, <4>2
    <3>3. QED BY <3>1, <3>2
  <2> HIDE DEF Body
  <2>2. QED BY <2>1
<1>8. shown = [i \in 0 .. n |-> Body(shown, i)]
  <2> HIDE DEF Body, g
  <2>1. QED BY <1>7
<1> HIDE DEF shown, g, F
<1> DEFINE Good == {k \in 0 .. n : /\ shown[k] \in Seq(Int) /\ Len(shown[k]) = k
                                   /\ Total(shown[k]) \in 0 .. maxColumns
                                   /\ \A i \in 1 .. k : shown[k][i] \in 0 .. readable[chosen[i]]}
<1>9. ASSUME NEW k \in 0 .. n, \A j \in 0 .. k - 1 : j \in Good
      PROVE  k \in Good
  <2>1. CASE k = 0
    <3>1. shown[k] = <<>>
      BY <1>8, <2>1
    <3>2. <<>> \in Seq(Int) /\ Len(<<>>) = 0 /\ Total(<<>>) = 0 /\ 0 \in 0 .. maxColumns
      BY TotalOfNone
    <3> DEFINE none == shown[k]
    <3>3. none \in Seq(Int) /\ Len(none) = 0 /\ Total(none) \in 0 .. maxColumns
      BY <3>1, <3>2
    <3> HIDE DEF none
    <3>4. \A i \in 1 .. k : none[i] \in 0 .. readable[chosen[i]]
      BY <2>1
    <3>5. QED BY <2>1, <3>3, <3>4 DEF none
  <2>2. CASE k # 0
    <3> DEFINE before == shown[k - 1]
               c == Least(readable[chosen[k]], maxColumns - Total(before))
    <3>1. k - 1 \in 0 .. k - 1 /\ k \in 1 .. n /\ k \in Nat
      BY <1>2, <2>2
    <3>2. /\ before \in Seq(Int) /\ Len(before) = k - 1
          /\ Total(before) \in 0 .. maxColumns
          /\ \A i \in 1 .. k - 1 : before[i] \in 0 .. readable[chosen[i]]
      BY <1>9, <3>1
    <3>3. shown[k] = Append(before, c)
      BY <1>8, <2>2 DEF ShowMore
    <3> HIDE DEF before
    <3>4. readable[chosen[k]] \in Nat
      BY <1>2, <3>1
    <3>5. c \in 0 .. readable[chosen[k]] /\ c <= maxColumns - Total(before) /\ c \in Int
      BY <3>2, <3>4 DEF Least
    <3> HIDE DEF c
    <3>6. shown[k] \in Seq(Int) /\ Len(shown[k]) = k
      BY <3>2, <3>3, <3>5
    <3>7. Total(shown[k]) \in 0 .. maxColumns
      <4>1. Total(shown[k]) = Total(before) + c
        BY <3>2, <3>3, <3>5, TotalAppend
      <4>2. QED BY <3>2, <3>5, <4>1
    <3>8. ASSUME NEW i \in 1 .. k PROVE shown[k][i] \in 0 .. readable[chosen[i]]
      <4>1. CASE i = k
        BY <3>1, <3>2, <3>3, <3>5, <4>1
      <4>2. CASE i # k
        <5>1. i \in 1 .. k - 1
          BY <3>1, <4>2
        <5>2. Append(before, c)[i] = before[i]
          BY <3>2, <3>5, <5>1
        <5>3. QED BY <3>2, <3>3, <5>1, <5>2
      <4>3. QED BY <4>1, <4>2
    <3>9. QED BY <3>6, <3>7, <3>8
  <2>3. QED BY <2>1, <2>2
<1>10. /\ shown[n] \in Seq(Int) /\ Len(shown[n]) = n
       /\ Total(shown[n]) \in 0 .. maxColumns
       /\ \A i \in 1 .. n : shown[n][i] \in 0 .. readable[chosen[i]]
  <2>1. n \in 0 .. n
    BY <1>2
  <2> HIDE DEF Good
  <2>2. n \in Good
    BY <1>2, <1>9, <2>1, Upwards
  <2>3. QED BY <2>2 DEF Good
<1>11. DOMAIN shown[n] = 1 .. n
  BY <1>10
<1>12. QED BY <1>1, <1>2, <1>10, <1>11

\* Whatever is ranked, refers to what and is readable, the schema that a question
\* gets has visible tables only, the best first and each once, and no more tables
\* and columns than it may.
THEOREM SchemaIsWhatMayBeShown ==
    ASSUME NEW allowed, NEW ranked \in Seq(allowed), NEW T,
           NEW references \in [allowed -> Seq(T)], NEW readable \in [allowed -> Nat],
           NEW maxTables \in Nat, NEW maxColumns \in Nat,
           \A i, j \in DOMAIN ranked : ranked[i] = ranked[j] => i = j
    PROVE  SchemaIsBounded(ranked, allowed, references, readable, maxTables, maxColumns)
<1> DEFINE best == Best(ranked, maxTables)
           wanted == Wanted(best, references)
           chosen == Tables(ranked, allowed, references, maxTables)
           columns == Columns(chosen, readable, maxColumns)
<1>1. /\ Selected(chosen, best, wanted, allowed, maxTables)
      /\ \A t \in ToSet(wanted) : \E u \in ToSet(best) : t \in ToSet(references[u])
  BY TablesSelected
<1>2. ToSet(best) \subseteq ToSet(ranked)
  BY BestTables
<1>3. chosen \in Seq(allowed)
  BY <1>1 DEF Selected
<1>4. /\ Total(columns) <= maxColumns
      /\ \A i \in DOMAIN columns : columns[i] \in 0 .. readable[chosen[i]]
  <2> HIDE DEF chosen
  <2>1. QED BY <1>3, ColumnsBounded
<1>5. SchemaIsBounded(ranked, allowed, references, readable, maxTables, maxColumns) =
        /\ ToSet(chosen) \subseteq allowed
        /\ Cardinality(ToSet(chosen)) = Len(chosen)
        /\ Len(chosen) <= maxTables
        /\ IsPrefix(best, chosen)
        /\ \A t \in ToSet(chosen) \ ToSet(ranked) :
             \E u \in ToSet(ranked) : t \in ToSet(references[u])
        /\ Total(columns) <= maxColumns
        /\ \A i \in DOMAIN columns : columns[i] \in 0 .. readable[chosen[i]]
  BY DEF SchemaIsBounded, Best
<1> HIDE DEF best, wanted, chosen, columns
<1>6. /\ Len(chosen) <= maxTables /\ IsPrefix(best, chosen)
      /\ Cardinality(ToSet(chosen)) = Len(chosen)
      /\ ToSet(chosen) \subseteq ToSet(best) \cup ToSet(wanted)
  BY <1>1 DEF Selected, Once
<1>7. ToSet(chosen) \subseteq allowed
  BY <1>3 DEF ToSet
<1>8. \A t \in ToSet(chosen) \ ToSet(ranked) :
         \E u \in ToSet(ranked) : t \in ToSet(references[u])
  BY <1>1, <1>2, <1>6
<1>9. QED BY <1>4, <1>5, <1>6, <1>7, <1>8
=============================================================================
