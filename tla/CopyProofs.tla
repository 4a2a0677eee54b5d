----------------------------- MODULE CopyProofs -----------------------------
(***************************************************************************)
(* For every value of the constants: what the PC offers is what stays of   *)
(* the chosen folders, and what it refuses it refuses for a reason; and    *)
(* nothing is stored outside the receive folder or over what is there, and *)
(* what fails there fails for a reason, while both users work in their     *)
(* folders.                                                                *)
(***************************************************************************)
EXTENDS Copy, SequenceTheorems, FiniteSetTheorems, WellFoundedInduction, TLAPS

-----------------------------------------------------------------------------
(* Counting. *)

\* A set of numbers that is not empty has a least one.
LEMMA LeastNumber ==
    ASSUME NEW T \in SUBSET Nat, T # {}
    PROVE  \E n \in T : \A m \in T : n <= m
<1>1. IsWellFoundedOn(OpToRel(<, Nat), Nat)
  BY NatLessThanWellFounded
<1>2. PICK n \in T : \A m \in T : ~(<<m, n>> \in OpToRel(<, Nat))
  BY <1>1, WFMin
<1>3. \A m \in T : ~(m < n)
  BY <1>2, Zenon DEF OpToRel
<1> QED BY <1>3

\* What holds of lo, and of k + 1 if of k, holds up to n.
LEMMA CountUp ==
    ASSUME NEW lo \in Nat, NEW n \in Nat, NEW T, lo \in T,
           \A k \in lo .. n - 1 : k \in T => k + 1 \in T
    PROVE  lo .. n \subseteq T
<1> DEFINE rest == (lo .. n) \ T
<1> SUFFICES ASSUME rest # {} PROVE FALSE
  OBVIOUS
<1>1. rest \in SUBSET Nat
  OBVIOUS
<1>2. PICK m \in rest : \A k \in rest : m <= k
  BY <1>1, LeastNumber
<1>3. m \in lo .. n /\ m \notin T /\ m # lo
  BY <1>2
<1>4. m - 1 \in lo .. n - 1 /\ ~(m <= m - 1) /\ (m - 1) + 1 = m
  BY <1>3
<1>5. m - 1 \in T
  BY <1>2, <1>4
<1> QED BY <1>3, <1>4, <1>5

\* Whether f is what base and step define over lo .. n.
IsDefined(f, S, base, lo, n, step) ==
    /\ f \in [lo .. n -> S]
    /\ f[lo] = base
    /\ \A k \in lo + 1 .. n : f[k] = step[<<f[k - 1], k>>]

Defines(S, base, lo, n, step) ==
    /\ lo \in Nat /\ n \in Nat /\ lo <= n
    /\ base \in S
    /\ step \in [S \X (lo .. n) -> S]

\* A function may be defined by recursion over lo .. n.
LEMMA Recursion ==
    ASSUME NEW S, NEW base, NEW lo, NEW n, NEW step, Defines(S, base, lo, n, step)
    PROVE  \E f : IsDefined(f, S, base, lo, n, step)
<1> DEFINE T == {m \in lo .. n : \E f : IsDefined(f, S, base, lo, m, step)}
<1>0. /\ lo \in Nat /\ n \in Nat /\ lo <= n
      /\ base \in S
      /\ step \in [S \X (lo .. n) -> S]
  BY DEF Defines
<1>1. lo \in T
  <2> DEFINE f == [k \in lo .. lo |-> base]
  <2>1. lo \in lo .. lo /\ lo \in lo .. n /\ lo + 1 .. lo = {}
    BY <1>0
  <2>2. f \in [lo .. lo -> S] /\ f[lo] = base
    BY <1>0, <2>1
  <2> HIDE DEF f
  <2>3. IsDefined(f, S, base, lo, lo, step)
    BY <2>1, <2>2 DEF IsDefined
  <2> QED BY <2>1, <2>3
<1>2. ASSUME NEW m \in lo .. n - 1, m \in T PROVE m + 1 \in T
  <2>1. PICK f : IsDefined(f, S, base, lo, m, step)
    BY <1>2
  <2> DEFINE x == step[<<f[m], m + 1>>]
             g == [k \in lo .. m + 1 |-> IF k = m + 1 THEN x ELSE f[k]]
  <2>2. m \in lo .. m /\ m + 1 \in lo .. n /\ m \in Nat
    BY <1>0
  <2>3. f \in [lo .. m -> S]
    BY <2>1 DEF IsDefined
  <2>4. x \in S
    BY <1>0, <2>2, <2>3
  <2> HIDE DEF x
  <2>5. /\ g \in [lo .. m + 1 -> S]
        /\ g[m + 1] = x /\ \A k \in lo .. m : g[k] = f[k]
    BY <2>2, <2>3, <2>4, <1>0
  <2> HIDE DEF g
  <2>6. ASSUME NEW k \in lo + 1 .. m + 1 PROVE g[k] = step[<<g[k - 1], k>>]
    <3>1. CASE k = m + 1
      <4>1. k - 1 = m /\ g[k - 1] = f[m]
        BY <2>2, <2>5, <3>1
      <4> QED BY <2>5, <3>1, <4>1 DEF x
    <3>2. CASE k # m + 1
      <4>1. k \in lo + 1 .. m /\ k \in lo .. m /\ k - 1 \in lo .. m
        BY <1>0, <2>2, <3>2
      <4> QED BY <2>1, <2>5, <4>1 DEF IsDefined
    <3> QED BY <3>1, <3>2
  <2>7. g[lo] = base
    BY <1>0, <2>1, <2>2, <2>5 DEF IsDefined
  <2>8. IsDefined(g, S, base, lo, m + 1, step)
    BY <2>5, <2>6, <2>7 DEF IsDefined
  <2> QED BY <2>2, <2>8
<1>3. lo .. n \subseteq T
  <2> HIDE DEF T
  <2> QED BY <1>0, <1>1, <1>2, CountUp
<1>4. n \in T
  BY <1>0, <1>3
<1> QED BY <1>4

-----------------------------------------------------------------------------
(* The words of a path. *)

\* The words that SafeRelativePath::new leaves out.
Skipped == {"", "."}

\* How Normalized goes through a path.
LEMMA NormalizedSteps ==
    ASSUME NEW p \in Seq(STRING)
    PROVE  \E taken \in [0 .. Len(p) -> Seq(STRING)] :
              /\ Normalized(p) = taken[Len(p)]
              /\ taken[0] = <<>>
              /\ \A n \in 1 .. Len(p) :
                    taken[n] = IF p[n] \in Skipped THEN taken[n - 1]
                               ELSE Append(taken[n - 1], p[n])
<1> DEFINE Words == Seq(STRING)
           none == <<>>
           Eq(t) == t = [n \in 0 .. Len(p) |->
                           IF n = 0 THEN none
                           ELSE IF p[n] \in Skipped THEN t[n - 1]
                           ELSE Append(t[n - 1], p[n])]
           taken == CHOOSE t : Eq(t)
<1>1. Len(p) \in Nat /\ 0 \in Nat /\ 0 <= Len(p)
  BY LenProperties
<1>2. none \in Words
  BY EmptySeq
<1>3. \A w \in Words, n \in 1 .. Len(p) : Append(w, p[n]) \in Words
  BY ElementOfSeq, AppendProperties
<1>4. Normalized(p) = taken[Len(p)]
  BY DEF Normalized, Skipped
<1> HIDE DEF none, Words
<1>5. \E t : Eq(t)
  <2> DEFINE step == [x \in Words \X (0 .. Len(p)) |->
                      IF x[2] = 0 \/ p[x[2]] \in Skipped THEN x[1] ELSE Append(x[1], p[x[2]])]
  <2>1. \A n \in 0 .. Len(p) : n # 0 => n \in 1 .. Len(p)
    BY <1>1
  <2>2. step \in [Words \X (0 .. Len(p)) -> Words]
    BY <1>3, <2>1
  <2>3. ASSUME NEW w \in Words, NEW n \in 1 .. Len(p)
        PROVE  step[<<w, n>>] = IF p[n] \in Skipped THEN w ELSE Append(w, p[n])
    <3>1. <<w, n>> \in Words \X (0 .. Len(p)) /\ <<w, n>>[1] = w /\ <<w, n>>[2] = n /\ n # 0
      BY <1>1
    <3> QED BY <3>1
  <2> HIDE DEF step
  <2>4. Defines(Words, none, 0, Len(p), step)
    BY <1>1, <1>2, <2>2 DEF Defines
  <2>5. PICK f : IsDefined(f, Words, none, 0, Len(p), step)
    BY <2>4, Recursion
  <2>6. /\ f \in [0 .. Len(p) -> Words] /\ f[0] = none
        /\ \A n \in 1 .. Len(p) : f[n] = step[<<f[n - 1], n>>]
    BY <2>5 DEF IsDefined
  <2>7. ASSUME NEW n \in 0 .. Len(p)
        PROVE  f[n] = IF n = 0 THEN none
                      ELSE IF p[n] \in Skipped THEN f[n - 1] ELSE Append(f[n - 1], p[n])
    <3>1. CASE n = 0
      BY <2>6, <3>1
    <3>2. CASE n # 0
      <4>1. n \in 1 .. Len(p) /\ f[n - 1] \in Words
        BY <1>1, <2>6, <3>2
      <4> QED BY <2>3, <2>6, <3>2, <4>1
    <3> QED BY <3>1, <3>2
  <2>8. f = [n \in 0 .. Len(p) |-> f[n]]
    BY <2>6
  <2>9. Eq(f)
    BY <2>7, <2>8
  <2> QED BY <2>9
<1>6. Eq(taken)
  <2> HIDE DEF Eq
  <2> QED BY <1>5
<1> HIDE DEF taken
<1>7. /\ DOMAIN taken = 0 .. Len(p)
      /\ taken = [n \in 0 .. Len(p) |-> taken[n]]
      /\ \A n \in 0 .. Len(p) :
            taken[n] = IF n = 0 THEN none
                       ELSE IF p[n] \in Skipped THEN taken[n - 1] ELSE Append(taken[n - 1], p[n])
  <2>1. DOMAIN taken = 0 .. Len(p)
    BY <1>6
  <2>2. taken = [n \in 0 .. Len(p) |-> taken[n]]
    BY <1>6, <2>1
  <2> QED BY <1>6, <2>1, <2>2
<1>8. taken[0] = none
  BY <1>1, <1>7
<1>9. ASSUME NEW n \in 1 .. Len(p)
      PROVE  taken[n] = IF p[n] \in Skipped THEN taken[n - 1] ELSE Append(taken[n - 1], p[n])
  BY <1>1, <1>7
<1>10. \A n \in 0 .. Len(p) : taken[n] \in Words
  <2> DEFINE T == {n \in 0 .. Len(p) : taken[n] \in Words}
  <2>1. 0 \in T
    BY <1>1, <1>2, <1>8
  <2>2. ASSUME NEW n \in 0 .. Len(p) - 1, n \in T PROVE n + 1 \in T
    <3>1. n + 1 \in 1 .. Len(p) /\ n + 1 \in 0 .. Len(p) /\ (n + 1) - 1 = n
      BY <1>1
    <3> QED BY <1>3, <1>9, <2>2, <3>1
  <2> HIDE DEF T
  <2>3. 0 .. Len(p) \subseteq T
    BY <1>1, <2>1, <2>2, CountUp
  <2> QED BY <2>3 DEF T
<1>11. taken \in [0 .. Len(p) -> Words]
  BY <1>7, <1>10
<1> QED BY <1>4, <1>8, <1>9, <1>11 DEF Words, none

\* The words of a normal form.
LEMMA NormalizedWords ==
    ASSUME NEW p \in Seq(STRING)
    PROVE  /\ Normalized(p) \in Seq(STRING)
           /\ \A k \in 1 .. Len(Normalized(p)) :
                 Normalized(p)[k] \notin Skipped /\ Normalized(p)[k] \in Range(p)
<1>1. PICK taken \in [0 .. Len(p) -> Seq(STRING)] :
         /\ Normalized(p) = taken[Len(p)]
         /\ taken[0] = <<>>
         /\ \A n \in 1 .. Len(p) :
               taken[n] = IF p[n] \in Skipped THEN taken[n - 1] ELSE Append(taken[n - 1], p[n])
  BY NormalizedSteps
<1>2. Len(p) \in Nat /\ 0 \in Nat /\ 0 <= Len(p) /\ DOMAIN p = 1 .. Len(p)
  BY LenProperties
<1> DEFINE Good(s) == \A k \in 1 .. Len(s) : s[k] \notin Skipped /\ s[k] \in Range(p)
           T == {n \in 0 .. Len(p) : Good(taken[n])}
<1>3. 0 \in T
  <2>1. Len(taken[0]) = 0
    BY <1>1, EmptySeq
  <2>2. 1 .. Len(taken[0]) = {}
    BY <2>1
  <2> QED BY <1>2, <2>2
<1>4. ASSUME NEW n \in 0 .. Len(p) - 1, n \in T PROVE n + 1 \in T
  <2>1. n + 1 \in 1 .. Len(p) /\ n \in 0 .. Len(p) /\ (n + 1) - 1 = n /\ n + 1 \in 0 .. Len(p)
    BY <1>2
  <2>2. CASE p[n + 1] \in Skipped
    BY <1>1, <1>4, <2>1, <2>2
  <2>3. CASE p[n + 1] \notin Skipped
    <3> DEFINE s == taken[n]
               w == p[n + 1]
    <3>1. s \in Seq(STRING) /\ w \in STRING /\ taken[n + 1] = Append(s, w)
      BY <1>1, <2>1, <2>3, ElementOfSeq
    <3>2. w \in Range(p) /\ w \notin Skipped /\ Good(s)
      BY <1>2, <1>4, <2>1, <2>3 DEF Range
    <3> HIDE DEF s, w
    <3>3. /\ Len(s) \in Nat /\ Len(Append(s, w)) = Len(s) + 1
          /\ \A k \in 1 .. Len(s) : Append(s, w)[k] = s[k]
          /\ Append(s, w)[Len(s) + 1] = w
      <4> DEFINE longer == Append(s, w)
      <4>1. Len(s) \in Nat /\ Len(longer) = Len(s) + 1
        BY <3>1, AppendProperties, LenProperties
      <4>2. \A k \in 1 .. Len(s) : longer[k] = s[k]
        BY <3>1, AppendProperties
      <4>3. longer[Len(s) + 1] = w
        BY <3>1, AppendProperties
      <4> QED BY <4>1, <4>2, <4>3
    <3>4. \A k \in 1 .. Len(s) + 1 : k \in 1 .. Len(s) \/ k = Len(s) + 1
      BY <3>3
    <3>5. Good(Append(s, w))
      BY <3>2, <3>3, <3>4
    <3> HIDE DEF Good
    <3> QED BY <2>1, <3>1, <3>5
  <2> QED BY <2>2, <2>3
<1> HIDE DEF T
<1>5. 0 .. Len(p) \subseteq T
  BY <1>2, <1>3, <1>4, CountUp
<1>6. Len(p) \in T
  BY <1>2, <1>5
<1> QED BY <1>1, <1>2, <1>6 DEF T

\* A path without "" and "." is its own normal form.
LEMMA NormalizedSame ==
    ASSUME NEW p \in Seq(STRING), \A k \in 1 .. Len(p) : p[k] \notin Skipped
    PROVE  Normalized(p) = p
<1>1. PICK taken \in [0 .. Len(p) -> Seq(STRING)] :
         /\ Normalized(p) = taken[Len(p)]
         /\ taken[0] = <<>>
         /\ \A n \in 1 .. Len(p) :
               taken[n] = IF p[n] \in Skipped THEN taken[n - 1] ELSE Append(taken[n - 1], p[n])
  BY NormalizedSteps
<1>2. Len(p) \in Nat /\ 0 \in Nat /\ 0 <= Len(p) /\ DOMAIN p = 1 .. Len(p)
  BY LenProperties
<1> DEFINE T == {n \in 0 .. Len(p) : Len(taken[n]) = n /\ \A k \in 1 .. n : taken[n][k] = p[k]}
<1>3. 0 \in T
  <2>1. Len(taken[0]) = 0
    BY <1>1, EmptySeq
  <2>2. 1 .. 0 = {} /\ 0 \in 0 .. Len(p)
    BY <1>2
  <2> QED BY <2>1, <2>2
<1>4. ASSUME NEW n \in 0 .. Len(p) - 1, n \in T PROVE n + 1 \in T
  <2>1. n + 1 \in 1 .. Len(p) /\ n \in 0 .. Len(p) /\ (n + 1) - 1 = n /\ n + 1 \in 0 .. Len(p)
    BY <1>2
  <2> DEFINE s == taken[n]
             w == p[n + 1]
  <2>2. s \in Seq(STRING) /\ w \in STRING /\ taken[n + 1] = Append(s, w)
    BY <1>1, <2>1, ElementOfSeq
  <2>3. Len(s) = n /\ \A k \in 1 .. n : s[k] = p[k]
    BY <1>4
  <2> HIDE DEF s
  <2>4. /\ Len(Append(s, w)) = n + 1
        /\ \A k \in 1 .. n : Append(s, w)[k] = s[k]
        /\ Append(s, w)[n + 1] = w
    BY <2>2, <2>3, AppendProperties
  <2>5. \A k \in 1 .. n + 1 : k \in 1 .. n \/ k = n + 1
    BY <2>1
  <2>6. \A k \in 1 .. n + 1 : taken[n + 1][k] = p[k]
    BY <2>2, <2>3, <2>4, <2>5
  <2> QED BY <2>1, <2>2, <2>4, <2>6
<1>5. 0 .. Len(p) \subseteq T
  <2> HIDE DEF T
  <2> QED BY <1>2, <1>3, <1>4, CountUp
<1>6. Len(p) \in T
  BY <1>2, <1>5
<1>7. taken[Len(p)] \in Seq(STRING)
  BY <1>1, <1>2
<1> QED BY <1>1, <1>6, <1>7, SeqEqual

-----------------------------------------------------------------------------
(* Where a path leads. *)

\* A sequence of one.
LEMMA Singleton ==
    ASSUME NEW S, NEW x \in S
    PROVE  <<x>> \in Seq(S) /\ <<x>> # <<>>
  OBVIOUS

\* Where the operating system may get to.
Place == Seq(STRING) \cup {Above}

\* One name leads from a place in the tree to a place in the tree.
LEMMA StepType ==
    ASSUME NEW here \in Place, NEW w \in STRING
    PROVE  Step(here, w) \in Place
<1> SUFFICES ASSUME here \in Seq(STRING) PROVE Step(here, w) \in Place
  BY DEF Place, Step
<1>1. Above \in Place
  BY DEF Place
<1>2. Append(here, w) \in Place
  BY AppendProperties DEF Place
<1>3. here # <<>> => Front(here) \in Place
  <2>1. here # <<>> => Len(here) \in Nat /\ Len(here) - 1 \in 0 .. Len(here)
    BY LenProperties, EmptySeq
  <2>2. \A n \in 0 .. Len(here) : SubSeq(here, 1, n) \in Seq(STRING)
    <3> SUFFICES ASSUME NEW n \in 0 .. Len(here) PROVE SubSeq(here, 1, n) \in Seq(STRING)
      OBVIOUS
    <3>1. Len(here) \in Nat /\ \A k \in 1 .. Len(here) : here[k] \in STRING
      BY LenProperties, ElementOfSeq
    <3>2. 1 \in Int /\ n \in Int /\ \A k \in 1 .. n : here[k] \in STRING
      BY <3>1
    <3> QED BY <3>2, SubSeqProperties
  <2> QED BY <2>1, <2>2 DEF Front, Place
<1> QED BY <1>1, <1>2, <1>3 DEF Step

\* How Reached goes through a path.
LEMMA ReachedSteps ==
    ASSUME NEW p \in Seq(STRING)
    PROVE  \E at \in [0 .. Len(p) -> Place] :
              /\ Reached(p) = at[Len(p)]
              /\ at[0] = <<>>
              /\ \A n \in 1 .. Len(p) : at[n] = Step(at[n - 1], p[n])
<1> DEFINE Words == Place
           none == <<>>
           Eq(t) == t = [n \in 0 .. Len(p) |-> IF n = 0 THEN none ELSE Step(t[n - 1], p[n])]
           at == CHOOSE t : Eq(t)
<1>1. Len(p) \in Nat /\ 0 \in Nat /\ 0 <= Len(p)
  BY LenProperties
<1>2. none \in Words
  BY EmptySeq DEF Place
<1>3. \A w \in Words, n \in 1 .. Len(p) : Step(w, p[n]) \in Words
  BY ElementOfSeq, StepType
<1>4. Reached(p) = at[Len(p)]
  BY DEF Reached
<1> HIDE DEF none, Words
<1>5. \E t : Eq(t)
  <2> DEFINE step == [x \in Words \X (0 .. Len(p)) |->
                      IF x[2] = 0 THEN x[1] ELSE Step(x[1], p[x[2]])]
  <2>1. \A n \in 0 .. Len(p) : n # 0 => n \in 1 .. Len(p)
    BY <1>1
  <2>2. step \in [Words \X (0 .. Len(p)) -> Words]
    BY <1>3, <2>1
  <2>3. ASSUME NEW w \in Words, NEW n \in 1 .. Len(p)
        PROVE  step[<<w, n>>] = Step(w, p[n])
    <3>1. <<w, n>> \in Words \X (0 .. Len(p)) /\ <<w, n>>[1] = w /\ <<w, n>>[2] = n /\ n # 0
      BY <1>1
    <3> QED BY <3>1
  <2> HIDE DEF step
  <2>4. Defines(Words, none, 0, Len(p), step)
    BY <1>1, <1>2, <2>2 DEF Defines
  <2>5. PICK f : IsDefined(f, Words, none, 0, Len(p), step)
    BY <2>4, Recursion
  <2>6. /\ f \in [0 .. Len(p) -> Words] /\ f[0] = none
        /\ \A n \in 1 .. Len(p) : f[n] = step[<<f[n - 1], n>>]
    BY <2>5 DEF IsDefined
  <2>7. ASSUME NEW n \in 0 .. Len(p)
        PROVE  f[n] = IF n = 0 THEN none ELSE Step(f[n - 1], p[n])
    <3>1. CASE n = 0
      BY <2>6, <3>1
    <3>2. CASE n # 0
      <4>1. n \in 1 .. Len(p) /\ f[n - 1] \in Words
        BY <1>1, <2>6, <3>2
      <4> QED BY <2>3, <2>6, <3>2, <4>1
    <3> QED BY <3>1, <3>2
  <2>8. f = [n \in 0 .. Len(p) |-> f[n]]
    BY <2>6
  <2>9. Eq(f)
    BY <2>7, <2>8
  <2> QED BY <2>9
<1>6. Eq(at)
  <2> HIDE DEF Eq
  <2> QED BY <1>5
<1> HIDE DEF at
<1>7. /\ DOMAIN at = 0 .. Len(p)
      /\ at = [n \in 0 .. Len(p) |-> at[n]]
      /\ \A n \in 0 .. Len(p) : at[n] = IF n = 0 THEN none ELSE Step(at[n - 1], p[n])
  <2>1. DOMAIN at = 0 .. Len(p)
    BY <1>6
  <2>2. at = [n \in 0 .. Len(p) |-> at[n]]
    BY <1>6, <2>1
  <2> QED BY <1>6, <2>1, <2>2
<1>8. at[0] = none
  BY <1>1, <1>7
<1>9. ASSUME NEW n \in 1 .. Len(p)
      PROVE  at[n] = Step(at[n - 1], p[n])
  BY <1>1, <1>7
<1>10. \A n \in 0 .. Len(p) : at[n] \in Words
  <2> DEFINE T == {n \in 0 .. Len(p) : at[n] \in Words}
  <2>1. 0 \in T
    BY <1>1, <1>2, <1>8
  <2>2. ASSUME NEW n \in 0 .. Len(p) - 1, n \in T PROVE n + 1 \in T
    <3>1. n + 1 \in 1 .. Len(p) /\ n + 1 \in 0 .. Len(p) /\ (n + 1) - 1 = n
      BY <1>1
    <3> QED BY <1>3, <1>9, <2>2, <3>1
  <2> HIDE DEF T
  <2>3. 0 .. Len(p) \subseteq T
    BY <1>1, <2>1, <2>2, CountUp
  <2> QED BY <2>3 DEF T
<1>11. at \in [0 .. Len(p) -> Words]
  BY <1>7, <1>10
<1> QED BY <1>4, <1>8, <1>9, <1>11 DEF Words, none

\* A path without ".." leads where its normal form leads.
LEMMA ReachedIsNormal ==
    ASSUME NEW p \in Seq(STRING), ".." \notin Range(p)
    PROVE  Reached(p) = Normalized(p)
<1>1. PICK taken \in [0 .. Len(p) -> Seq(STRING)] :
         /\ Normalized(p) = taken[Len(p)]
         /\ taken[0] = <<>>
         /\ \A n \in 1 .. Len(p) :
               taken[n] = IF p[n] \in Skipped THEN taken[n - 1] ELSE Append(taken[n - 1], p[n])
  BY NormalizedSteps
<1>2. PICK at \in [0 .. Len(p) -> Place] :
         /\ Reached(p) = at[Len(p)]
         /\ at[0] = <<>>
         /\ \A n \in 1 .. Len(p) : at[n] = Step(at[n - 1], p[n])
  BY ReachedSteps
<1>3. Len(p) \in Nat /\ 0 \in Nat /\ 0 <= Len(p) /\ DOMAIN p = 1 .. Len(p)
  BY LenProperties
<1> DEFINE Low(s) == \A k \in 1 .. Len(s) : s[k] # ".."
           T == {n \in 0 .. Len(p) : at[n] = taken[n] /\ Low(taken[n])}
<1>4. 0 \in T
  <2>1. Len(taken[0]) = 0
    BY <1>1, EmptySeq
  <2>2. 1 .. Len(taken[0]) = {}
    BY <2>1
  <2>3. at[0] = taken[0] /\ 0 \in 0 .. Len(p)
    BY <1>1, <1>2, <1>3
  <2> QED BY <2>2, <2>3
<1>5. ASSUME NEW n \in 0 .. Len(p) - 1, n \in T PROVE n + 1 \in T
  <2>1. n + 1 \in 1 .. Len(p) /\ n \in 0 .. Len(p) /\ (n + 1) - 1 = n /\ n + 1 \in 0 .. Len(p)
    BY <1>3
  <2> DEFINE s == taken[n]
             w == p[n + 1]
  <2>2. /\ s \in Seq(STRING) /\ w \in STRING /\ at[n + 1] = Step(s, w)
        /\ taken[n + 1] = IF w \in Skipped THEN s ELSE Append(s, w)
    <3>1. w \in STRING
      BY <2>1, ElementOfSeq
    <3> QED BY <1>1, <1>2, <1>5, <2>1, <3>1
  <2>3. Low(s)
    BY <1>5
  <2>4. w # ".."
    BY <1>3, <2>1 DEF Range
  <2> HIDE DEF s, w
  <2>5. s # Above
    <3>1. Len(Above) = 1 /\ Above[1] = ".."
      BY DEF Above
    <3>2. 1 \in 1 .. 1
      OBVIOUS
    <3> QED BY <2>3, <3>1, <3>2
  <2>6. Step(s, w) = IF w \in Skipped THEN s ELSE Append(s, w)
    BY <2>4, <2>5 DEF Step, Skipped
  <2>7. Low(Append(s, w))
    <3>3. /\ Len(s) \in Nat /\ Len(Append(s, w)) = Len(s) + 1
          /\ \A k \in 1 .. Len(s) : Append(s, w)[k] = s[k]
          /\ Append(s, w)[Len(s) + 1] = w
      BY <2>2, AppendProperties, LenProperties
    <3>4. \A k \in 1 .. Len(s) + 1 : k \in 1 .. Len(s) \/ k = Len(s) + 1
      BY <3>3
    <3> QED BY <2>3, <2>4, <3>3, <3>4
  <2> HIDE DEF Low
  <2> QED BY <2>1, <2>2, <2>3, <2>6, <2>7
<1> HIDE DEF T
<1>6. 0 .. Len(p) \subseteq T
  BY <1>3, <1>4, <1>5, CountUp
<1>7. Len(p) \in T
  BY <1>3, <1>6
<1> QED BY <1>1, <1>2, <1>7 DEF T

\* A path that is taken leads to something beneath the root.
LEMMA AcceptedIsBeneath ==
    ASSUME NEW raw \in Seq(STRING), Accepted(raw)
    PROVE  IsBeneath(raw)
<1> DEFINE way == Normalized(raw)
<1>1. ".." \notin Range(raw) /\ way # <<>>
  BY DEF Accepted
<1>2. way \in Seq(STRING) /\ \A k \in 1 .. Len(way) : way[k] \notin Skipped /\ way[k] \in Range(raw)
  BY NormalizedWords
<1>3. Reached(raw) = way
  BY <1>1, ReachedIsNormal
<1> HIDE DEF way
<1>4. Normalized(way) = way
  BY <1>2, NormalizedSame
<1>5. Len(way) \in Nat /\ Len(way) >= 1 /\ DOMAIN way = 1 .. Len(way)
  BY <1>1, <1>2, EmptySeq, LenProperties
<1>6. way # Above
  <2>1. Len(Above) = 1 /\ Above[1] = ".." /\ 1 \in 1 .. 1
    BY DEF Above
  <2> QED BY <1>1, <1>2, <2>1
<1>7. ".." \notin Range(way)
  BY <1>1, <1>2, <1>5 DEF Range
<1>8. way[1] # ""
  <2>1. 1 \in 1 .. Len(way)
    BY <1>5
  <2>2. way[1] \notin Skipped
    BY <1>2, <2>1
  <2> QED BY <2>2 DEF Skipped
<1>9. Accepted(way)
  BY <1>1, <1>4, <1>7, <1>8 DEF Accepted, IsAbsolute
<1> QED BY <1>1, <1>3, <1>4, <1>6, <1>9 DEF IsBeneath, way

-----------------------------------------------------------------------------
(* The names of a path, and their words. *)

Name == DOMAIN Rank

\* How the words of a path are put together.
LEMMA EncodedSteps ==
    ASSUME NEW p \in Seq(Name), p # <<>>
    PROVE  \E flat \in [1 .. Len(p) -> Seq(STRING)] :
              /\ C!Encoded(p) = flat[Len(p)]
              /\ flat[1] = p[1]
              /\ \A n \in 2 .. Len(p) : flat[n] = flat[n - 1] \o p[n]
<1> DEFINE Words == Seq(STRING)
           Eq(t) == t = [n \in 1 .. Len(p) |-> IF n = 1 THEN p[n] ELSE t[n - 1] \o p[n]]
           flat == CHOOSE t : Eq(t)
<1>1. Len(p) \in Nat /\ Len(p) # 0 /\ 1 \in Nat /\ 1 <= Len(p) /\ 1 \in 1 .. Len(p)
  BY LenProperties, EmptySeq
<1>2. \A n \in 1 .. Len(p) : p[n] \in Words
  <2> SUFFICES ASSUME NEW n \in 1 .. Len(p) PROVE p[n] \in Words
    OBVIOUS
  <2>1. p[n] \in Name
    BY ElementOfSeq
  <2> QED BY <2>1, CopyAssumption DEF Name
<1>3. \A w \in Words, n \in 1 .. Len(p) : w \o p[n] \in Words
  BY <1>2, ConcatProperties
<1>4. C!Encoded(p) = flat[Len(p)]
  BY <1>1 DEF C!Encoded, C!FlattenSeq
<1> HIDE DEF Words
<1>5. \E t : Eq(t)
  <2> DEFINE step == [x \in Words \X (1 .. Len(p)) |-> x[1] \o p[x[2]]]
  <2>2. step \in [Words \X (1 .. Len(p)) -> Words]
    BY <1>3
  <2>3. ASSUME NEW w \in Words, NEW n \in 1 .. Len(p)
        PROVE  step[<<w, n>>] = w \o p[n]
    <3>1. <<w, n>> \in Words \X (1 .. Len(p)) /\ <<w, n>>[1] = w /\ <<w, n>>[2] = n
      OBVIOUS
    <3> QED BY <3>1
  <2> HIDE DEF step
  <2>4. Defines(Words, p[1], 1, Len(p), step)
    BY <1>1, <1>2, <2>2 DEF Defines
  <2>5. PICK f : IsDefined(f, Words, p[1], 1, Len(p), step)
    BY <2>4, Recursion
  <2>6. /\ f \in [1 .. Len(p) -> Words] /\ f[1] = p[1]
        /\ \A n \in 1 + 1 .. Len(p) : f[n] = step[<<f[n - 1], n>>]
    BY <2>5 DEF IsDefined
  <2>7. ASSUME NEW n \in 1 .. Len(p)
        PROVE  f[n] = IF n = 1 THEN p[n] ELSE f[n - 1] \o p[n]
    <3>1. CASE n = 1
      BY <2>6, <3>1
    <3>2. CASE n # 1
      <4>1. n \in 1 + 1 .. Len(p) /\ f[n - 1] \in Words
        BY <1>1, <2>6, <3>2
      <4> QED BY <2>3, <2>6, <3>2, <4>1
    <3> QED BY <3>1, <3>2
  <2>8. f = [n \in 1 .. Len(p) |-> f[n]]
    BY <2>6
  <2>9. Eq(f)
    BY <2>7, <2>8
  <2> QED BY <2>9
<1>6. Eq(flat)
  <2> HIDE DEF Eq
  <2> QED BY <1>5
<1> HIDE DEF flat
<1>7. /\ DOMAIN flat = 1 .. Len(p)
      /\ flat = [n \in 1 .. Len(p) |-> flat[n]]
      /\ \A n \in 1 .. Len(p) : flat[n] = IF n = 1 THEN p[n] ELSE flat[n - 1] \o p[n]
  <2>1. DOMAIN flat = 1 .. Len(p)
    BY <1>6
  <2>2. flat = [n \in 1 .. Len(p) |-> flat[n]]
    BY <1>6, <2>1
  <2> QED BY <1>6, <2>1, <2>2
<1>8. flat[1] = p[1]
  BY <1>1, <1>7
<1>9. ASSUME NEW n \in 2 .. Len(p)
      PROVE  flat[n] = flat[n - 1] \o p[n]
  <2>1. n \in 1 .. Len(p) /\ n # 1
    BY <1>1
  <2> QED BY <1>7, <2>1
<1>10. \A n \in 1 .. Len(p) : flat[n] \in Words
  <2> DEFINE T == {n \in 1 .. Len(p) : flat[n] \in Words}
  <2>1. 1 \in T
    BY <1>1, <1>2, <1>8
  <2>2. ASSUME NEW n \in 1 .. Len(p) - 1, n \in T PROVE n + 1 \in T
    <3>1. n + 1 \in 1 .. Len(p) /\ n + 1 \in 2 .. Len(p) /\ (n + 1) - 1 = n
      BY <1>1
    <3> QED BY <1>3, <1>9, <2>2, <3>1
  <2> HIDE DEF T
  <2>3. 1 .. Len(p) \subseteq T
    BY <1>1, <2>1, <2>2, CountUp
  <2> QED BY <2>3 DEF T
<1>11. flat \in [1 .. Len(p) -> Words]
  BY <1>7, <1>10
<1> QED BY <1>4, <1>8, <1>9, <1>11 DEF Words

\* What a path is on the wire.
LEMMA EncodedType ==
    ASSUME NEW p \in Seq(Name), p # <<>>
    PROVE  C!Encoded(p) \in Seq(STRING)
<1>1. Len(p) \in 1 .. Len(p)
  BY LenProperties, EmptySeq
<1>2. PICK flat \in [1 .. Len(p) -> Seq(STRING)] : C!Encoded(p) = flat[Len(p)]
  BY EncodedSteps
<1> QED BY <1>1, <1>2

\* A path without backslashes keeps its words.
LEMMA EncodedSame ==
    ASSUME NEW p \in Seq(Name), p # <<>>, \A k \in 1 .. Len(p) : Len(p[k]) = 1
    PROVE  /\ C!Encoded(p) \in Seq(STRING) /\ Len(C!Encoded(p)) = Len(p)
           /\ \A k \in 1 .. Len(p) : <<C!Encoded(p)[k]>> = p[k]
<1>1. PICK flat \in [1 .. Len(p) -> Seq(STRING)] :
              /\ C!Encoded(p) = flat[Len(p)]
              /\ flat[1] = p[1]
              /\ \A n \in 2 .. Len(p) : flat[n] = flat[n - 1] \o p[n]
  BY EncodedSteps
<1>2. Len(p) \in Nat /\ Len(p) # 0 /\ 1 \in Nat /\ 1 <= Len(p) /\ 1 \in 1 .. Len(p)
  BY LenProperties, EmptySeq
<1>3. \A n \in 1 .. Len(p) : p[n] \in Seq(STRING)
  <2> SUFFICES ASSUME NEW n \in 1 .. Len(p) PROVE p[n] \in Seq(STRING)
    OBVIOUS
  <2>1. p[n] \in Name
    BY ElementOfSeq
  <2> QED BY <2>1, CopyAssumption DEF Name
<1> DEFINE T == {n \in 1 .. Len(p) : /\ Len(flat[n]) = n
                                     /\ \A k \in 1 .. n : flat[n][k] = p[k][1]}
<1>4. 1 \in T
  <2>1. Len(flat[1]) = 1 /\ flat[1][1] = p[1][1]
    BY <1>1, <1>2
  <2>2. \A k \in 1 .. 1 : k = 1
    OBVIOUS
  <2> QED BY <1>2, <2>1, <2>2
<1>5. ASSUME NEW n \in 1 .. Len(p) - 1, n \in T PROVE n + 1 \in T
  <2>1. n + 1 \in 1 .. Len(p) /\ n + 1 \in 2 .. Len(p) /\ (n + 1) - 1 = n /\ n \in 1 .. Len(p)
    BY <1>2
  <2> DEFINE s == flat[n]
             w == p[n + 1]
  <2>2. /\ s \in Seq(STRING) /\ w \in Seq(STRING) /\ Len(w) = 1 /\ Len(s) = n
        /\ flat[n + 1] = s \o w
        /\ \A k \in 1 .. n : s[k] = p[k][1]
    BY <1>1, <1>3, <1>5, <2>1
  <2>3. w[1] = p[n + 1][1]
    OBVIOUS
  <2> HIDE DEF s, w
  <2>4. /\ Len(s \o w) = n + 1
        /\ \A k \in 1 .. n + 1 : (s \o w)[k] = IF k <= n THEN s[k] ELSE w[k - n]
    <3>1. s \in Seq(STRING) /\ w \in Seq(STRING) /\ Len(s) + Len(w) = n + 1 /\ Len(s) = n
      BY <2>2
    <3>2. /\ Len(s \o w) = Len(s) + Len(w)
          /\ \A k \in 1 .. Len(s) + Len(w) :
                (s \o w)[k] = IF k <= Len(s) THEN s[k] ELSE w[k - Len(s)]
      BY <3>1, ConcatProperties
    <3> QED BY <3>1, <3>2
  <2>5. \A k \in 1 .. n + 1 : IF k <= n THEN k \in 1 .. n ELSE k = n + 1 /\ k - n = 1
    BY <2>1
  <2>6. \A k \in 1 .. n + 1 : (s \o w)[k] = p[k][1]
    BY <2>2, <2>3, <2>4, <2>5
  <2> QED BY <2>1, <2>2, <2>4, <2>6
<1>6. 1 .. Len(p) \subseteq T
  <2> HIDE DEF T
  <2> QED BY <1>2, <1>4, <1>5, CountUp
<1>7. Len(p) \in T /\ Len(p) \in 1 .. Len(p)
  BY <1>2, <1>6
<1> DEFINE e == C!Encoded(p)
<1>8. e \in Seq(STRING) /\ Len(e) = Len(p) /\ \A k \in 1 .. Len(p) : e[k] = p[k][1]
  BY <1>1, <1>7
<1> HIDE DEF e
<1>9. ASSUME NEW k \in 1 .. Len(p) PROVE <<e[k]>> = p[k]
  <2>1. p[k] \in Seq(STRING) /\ Len(p[k]) = 1
    BY <1>3
  <2>2. e[k] \in STRING /\ e[k] = p[k][1]
    BY <1>8, ElementOfSeq
  <2>3. <<e[k]>> \in Seq(STRING) /\ Len(<<e[k]>>) = 1 /\ <<e[k]>>[1] = e[k]
    BY <2>2, Singleton
  <2>4. \A j \in 1 .. 1 : j = 1
    OBVIOUS
  <2> QED BY <2>1, <2>2, <2>3, <2>4, SeqEqual
<1> QED BY <1>8, <1>9 DEF e

-----------------------------------------------------------------------------
(* Paths on the PC. *)

\* The first n names of a path.
LEMMA PcFirst ==
    ASSUME NEW p \in Seq(Name), NEW n \in 0 .. Len(p)
    PROVE  /\ SubSeq(p, 1, n) \in Seq(Name) /\ Len(SubSeq(p, 1, n)) = n
           /\ \A k \in 1 .. n : SubSeq(p, 1, n)[k] = p[k]
<1>1. Len(p) \in Nat
  BY LenProperties
<1>2. \A k \in 1 .. Len(p) : p[k] \in Name
  BY ElementOfSeq
<1>3. 1 \in Int /\ n \in Int /\ n \in Nat /\ \A k \in 1 .. n : p[k] \in Name
  BY <1>1, <1>2
<1>4. /\ SubSeq(p, 1, n) \in Seq(Name)
      /\ Len(SubSeq(p, 1, n)) = IF 1 <= n THEN n - 1 + 1 ELSE 0
      /\ \A k \in 1 .. n - 1 + 1 : SubSeq(p, 1, n)[k] = p[1 + k - 1]
  BY <1>3, SubSeqProperties
<1>5. n - 1 + 1 = n /\ \A k \in 1 .. n : 1 + k - 1 = k
  BY <1>3
<1> QED BY <1>3, <1>4, <1>5

\* A path is a prefix if its names are the first ones.
LEMMA PcPrefix ==
    ASSUME NEW p \in Seq(Name), NEW q \in Seq(Name)
    PROVE  /\ Len(p) \in Nat /\ Len(q) \in Nat
           /\ C!IsPrefix(p, q) <=> /\ Len(p) <= Len(q)
                                   /\ \A k \in 1 .. Len(p) : p[k] = q[k]
<1>1. Len(p) \in Nat /\ Len(q) \in Nat
  BY LenProperties
<1> SUFFICES ASSUME Len(p) <= Len(q)
             PROVE  SubSeq(p, 1, Len(p)) = SubSeq(q, 1, Len(p)) <=>
                       \A k \in 1 .. Len(p) : p[k] = q[k]
  BY <1>1 DEF C!IsPrefix
<1>3. /\ SubSeq(p, 1, Len(p)) \in Seq(Name) /\ Len(SubSeq(p, 1, Len(p))) = Len(p)
      /\ \A k \in 1 .. Len(p) : SubSeq(p, 1, Len(p))[k] = p[k]
  BY <1>1, PcFirst
<1>4. /\ SubSeq(q, 1, Len(p)) \in Seq(Name) /\ Len(SubSeq(q, 1, Len(p))) = Len(p)
      /\ \A k \in 1 .. Len(p) : SubSeq(q, 1, Len(p))[k] = q[k]
  BY <1>1, PcFirst
<1> DEFINE x == SubSeq(p, 1, Len(p))
           y == SubSeq(q, 1, Len(p))
<1>5. /\ x \in Seq(Name) /\ Len(x) = Len(p) /\ \A k \in 1 .. Len(p) : x[k] = p[k]
      /\ y \in Seq(Name) /\ Len(y) = Len(p) /\ \A k \in 1 .. Len(p) : y[k] = q[k]
  BY <1>3, <1>4
<1> HIDE DEF x, y
<1>6. x = y <=> \A k \in 1 .. Len(p) : p[k] = q[k]
  BY <1>5, SeqEqual
<1> QED BY <1>6 DEF x, y

\* Prefixes of prefixes.
LEMMA PrefixOfPrefix ==
    ASSUME NEW p \in Seq(Name), NEW q \in Seq(Name), NEW r \in Seq(Name),
           C!IsPrefix(p, q), C!IsPrefix(q, r)
    PROVE  C!IsPrefix(p, r)
<1>1. /\ Len(p) \in Nat /\ Len(q) \in Nat /\ Len(r) \in Nat
      /\ Len(p) <= Len(q) /\ \A k \in 1 .. Len(p) : p[k] = q[k]
      /\ Len(q) <= Len(r) /\ \A k \in 1 .. Len(q) : q[k] = r[k]
  BY PcPrefix
<1>2. Len(p) <= Len(r) /\ \A k \in 1 .. Len(p) : p[k] = r[k]
  BY <1>1
<1> QED BY <1>2, PcPrefix

\* Every path is a prefix of itself.
LEMMA PrefixOfItself ==
    ASSUME NEW p \in Seq(Name)
    PROVE  C!IsPrefix(p, p)
  BY PcPrefix

\* The folder of a path, and its name.
LEMMA FrontIs ==
    ASSUME NEW p \in Seq(Name), p # <<>>
    PROVE  /\ Len(p) \in Nat /\ Len(p) >= 1
           /\ C!Front(p) \in Seq(Name) /\ Len(C!Front(p)) = Len(p) - 1
           /\ \A k \in 1 .. Len(p) - 1 : C!Front(p)[k] = p[k]
           /\ C!Last(p) = p[Len(p)] /\ C!Last(p) \in Name
           /\ C!IsPrefix(C!Front(p), p)
<1>1. Len(p) \in Nat /\ Len(p) >= 1
  BY LenProperties, EmptySeq
<1>2. \A k \in 1 .. Len(p) : p[k] \in Name
  BY ElementOfSeq
<1>3. Len(p) - 1 \in 0 .. Len(p)
  BY <1>1
<1> DEFINE f == SubSeq(p, 1, Len(p) - 1)
<1>4. f \in Seq(Name) /\ Len(f) = Len(p) - 1 /\ \A k \in 1 .. Len(p) - 1 : f[k] = p[k]
  BY <1>3, PcFirst
<1>5. C!Front(p) = f /\ C!Last(p) = p[Len(p)]
  BY DEF C!Front, C!Last
<1> HIDE DEF f
<1>6. C!IsPrefix(f, p)
  BY <1>1, <1>4, PcPrefix
<1>7. p[Len(p)] \in Name
  BY <1>1, <1>2
<1> QED BY <1>1, <1>4, <1>5, <1>6, <1>7

\* What is beneath a child is beneath its folder, and what is above it is above
\* its folder.
LEMMA AroundChild ==
    ASSUME NEW c \in Seq(Name), c # <<>>, NEW q \in Seq(Name)
    PROVE  /\ C!IsPrefix(c, q) => C!IsPrefix(C!Front(c), q)
           /\ C!IsPrefix(q, c) => q = c \/ C!IsPrefix(q, C!Front(c))
           /\ q # <<>> /\ C!Front(q) = C!Front(c) /\ C!IsPrefix(q, c) => q = c
<1> DEFINE f == C!Front(c)
<1>1. /\ Len(c) \in Nat /\ Len(c) >= 1 /\ f \in Seq(Name) /\ Len(f) = Len(c) - 1
      /\ \A k \in 1 .. Len(c) - 1 : f[k] = c[k]
      /\ C!IsPrefix(f, c)
  BY FrontIs
<1> HIDE DEF f
<1>2. C!IsPrefix(c, q) => C!IsPrefix(f, q)
  BY <1>1, PrefixOfPrefix
<1>3. ASSUME C!IsPrefix(q, c) PROVE q = c \/ C!IsPrefix(q, f)
  <2>1. Len(q) \in Nat /\ Len(q) <= Len(c) /\ \A k \in 1 .. Len(q) : q[k] = c[k]
    BY <1>3, PcPrefix
  <2>2. CASE Len(q) = Len(c)
    BY <2>1, <2>2, SeqEqual
  <2>3. CASE Len(q) # Len(c)
    <3>1. Len(q) <= Len(f) /\ \A k \in 1 .. Len(q) : q[k] = f[k]
      BY <1>1, <2>1, <2>3
    <3> QED BY <1>1, <3>1, PcPrefix
  <2> QED BY <2>2, <2>3
<1>4. ASSUME q # <<>>, C!Front(q) = f, C!IsPrefix(q, c) PROVE q = c
  <2>1. Len(f) = Len(q) - 1 /\ Len(q) \in Nat
    BY <1>4, FrontIs
  <2>2. Len(q) = Len(c) /\ \A k \in 1 .. Len(q) : q[k] = c[k]
    BY <1>1, <1>4, <2>1, PcPrefix
  <2> QED BY <2>2, SeqEqual
<1> QED BY <1>2, <1>3, <1>4 DEF f

\* What is beneath d, and not d, is beneath a child of d.
LEMMA NextName ==
    ASSUME NEW d \in Seq(Name), NEW q \in Seq(Name), C!IsPrefix(d, q), d # q
    PROVE  /\ Len(d) \in Nat /\ Len(q) \in Nat /\ Len(d) + 1 \in 1 .. Len(q)
           /\ SubSeq(q, 1, Len(d)) = d
           /\ SubSeq(q, 1, Len(d) + 1) \in Seq(Name) /\ SubSeq(q, 1, Len(d) + 1) # <<>>
           /\ C!Front(SubSeq(q, 1, Len(d) + 1)) = d
           /\ C!IsPrefix(SubSeq(q, 1, Len(d) + 1), q)
<1>1. /\ Len(d) \in Nat /\ Len(q) \in Nat /\ Len(d) <= Len(q)
      /\ \A k \in 1 .. Len(d) : d[k] = q[k]
  BY PcPrefix
<1>2. Len(d) # Len(q)
  BY <1>1, SeqEqual
<1>3. Len(d) + 1 \in 1 .. Len(q)
  BY <1>1, <1>2
<1> DEFINE c == SubSeq(q, 1, Len(d) + 1)
           b == SubSeq(q, 1, Len(d))
<1>6. /\ c \in Seq(Name) /\ Len(c) = Len(d) + 1 /\ \A k \in 1 .. Len(d) + 1 : c[k] = q[k]
      /\ b \in Seq(Name) /\ Len(b) = Len(d) /\ \A k \in 1 .. Len(d) : b[k] = q[k]
  <2>1. Len(d) \in 0 .. Len(q) /\ Len(d) + 1 \in 0 .. Len(q)
    BY <1>1, <1>3
  <2> QED BY <2>1, PcFirst
<1> HIDE DEF c, b
<1>7. b = d
  BY <1>1, <1>6, SeqEqual
<1>8. c # <<>> /\ C!IsPrefix(c, q)
  <2>1. c # <<>>
    BY <1>1, <1>6, EmptySeq
  <2> QED BY <1>1, <1>3, <1>6, <2>1, PcPrefix
<1>9. C!Front(c) = d
  <2>1. /\ C!Front(c) \in Seq(Name) /\ Len(C!Front(c)) = Len(d)
        /\ \A k \in 1 .. Len(d) : C!Front(c)[k] = c[k]
    <3>1. Len(c) - 1 = Len(d)
      BY <1>1, <1>6
    <3> QED BY <1>6, <1>8, <3>1, FrontIs
  <2>2. \A k \in 1 .. Len(d) : C!Front(c)[k] = d[k]
    BY <1>1, <1>6, <2>1
  <2> QED BY <2>1, <2>2, SeqEqual
<1> QED BY <1>1, <1>3, <1>6, <1>7, <1>8, <1>9 DEF b, c

\* The path at which a file beneath input i is offered.
Below(i, p) == SubSeq(p, Len(i), Len(p))

\* Its names are those from the last one of the input on.
LEMMA BelowIs ==
    ASSUME NEW i \in Seq(Name), NEW p \in Seq(Name), i # <<>>, C!IsPrefix(i, p)
    PROVE  /\ Len(i) \in Nat /\ Len(p) \in Nat /\ 1 <= Len(i) /\ Len(i) <= Len(p)
           /\ Below(i, p) \in Seq(Name) /\ Below(i, p) # <<>>
           /\ Len(Below(i, p)) = Len(p) - Len(i) + 1
           /\ \A k \in 1 .. Len(p) - Len(i) + 1 : Below(i, p)[k] = p[Len(i) + k - 1]
<1>1. Len(i) \in Nat /\ Len(p) \in Nat /\ Len(i) <= Len(p)
  BY PcPrefix
<1>2. 1 <= Len(i)
  BY <1>1, EmptySeq
<1>3. \A k \in 1 .. Len(p) : p[k] \in Name
  BY ElementOfSeq
<1>4. Len(i) \in Int /\ Len(p) \in Int /\ \A k \in Len(i) .. Len(p) : p[k] \in Name
  BY <1>1, <1>2, <1>3
<1> DEFINE b == SubSeq(p, Len(i), Len(p))
<1>5. /\ b \in Seq(Name) /\ Len(b) = Len(p) - Len(i) + 1
      /\ \A k \in 1 .. Len(p) - Len(i) + 1 : b[k] = p[Len(i) + k - 1]
  BY <1>1, <1>4, SubSeqProperties
<1> HIDE DEF b
<1>6. b # <<>>
  BY <1>1, <1>5, EmptySeq
<1> QED BY <1>1, <1>2, <1>5, <1>6 DEF b, Below

\* The path of a child.
LEMMA BelowChild ==
    ASSUME NEW i \in Seq(Name), i # <<>>, NEW c \in Seq(Name), c # <<>>, C!IsPrefix(i, C!Front(c))
    PROVE  C!IsPrefix(i, c) /\ Append(Below(i, C!Front(c)), C!Last(c)) = Below(i, c)
<1> DEFINE f == C!Front(c)
           w == C!Last(c)
<1>1. /\ Len(c) \in Nat /\ Len(c) >= 1 /\ f \in Seq(Name) /\ Len(f) = Len(c) - 1
      /\ \A k \in 1 .. Len(c) - 1 : f[k] = c[k]
      /\ C!IsPrefix(f, c) /\ w = c[Len(c)] /\ w \in Name
  BY FrontIs
<1>2. C!IsPrefix(i, f)
  OBVIOUS
<1> HIDE DEF f, w
<1>3. C!IsPrefix(i, c)
  BY <1>1, <1>2, PrefixOfPrefix
<1> DEFINE x == Below(i, f)
           y == Below(i, c)
<1>4. /\ Len(i) \in Nat /\ 1 <= Len(i) /\ Len(i) <= Len(f)
      /\ x \in Seq(Name) /\ Len(x) = Len(f) - Len(i) + 1
      /\ \A k \in 1 .. Len(f) - Len(i) + 1 : x[k] = f[Len(i) + k - 1]
  BY <1>1, <1>2, BelowIs
<1>5. /\ y \in Seq(Name) /\ Len(y) = Len(c) - Len(i) + 1
      /\ \A k \in 1 .. Len(c) - Len(i) + 1 : y[k] = c[Len(i) + k - 1]
  BY <1>1, <1>3, BelowIs
<1> HIDE DEF x, y
<1>6. /\ Append(x, w) \in Seq(Name) /\ Len(Append(x, w)) = Len(x) + 1
      /\ \A k \in 1 .. Len(x) : Append(x, w)[k] = x[k]
      /\ Append(x, w)[Len(x) + 1] = w
  <2>1. x \in Seq(Name) /\ w \in Name
    BY <1>1, <1>4
  <2> QED BY <2>1, AppendProperties
<1>7. Len(x) = Len(c) - Len(i) /\ Len(y) = Len(x) + 1
  BY <1>1, <1>4, <1>5
<1>8. ASSUME NEW k \in 1 .. Len(x) + 1 PROVE Append(x, w)[k] = y[k]
  <2>1. y[k] = c[Len(i) + k - 1]
    BY <1>1, <1>4, <1>5, <1>7
  <2>2. CASE k = Len(x) + 1
    <3>1. Len(i) + k - 1 = Len(c)
      BY <1>1, <1>4, <1>7, <2>2
    <3> QED BY <1>1, <1>6, <2>1, <2>2, <3>1
  <2>3. CASE k # Len(x) + 1
    <3>1. k \in 1 .. Len(x) /\ Len(i) + k - 1 \in 1 .. Len(c) - 1 /\ k \in 1 .. Len(f) - Len(i) + 1
      <4>1. /\ Len(c) \in Nat /\ Len(i) \in Nat /\ Len(i) >= 1 /\ Len(x) = Len(c) - Len(i)
            /\ Len(f) = Len(c) - 1 /\ Len(i) <= Len(f)
        BY <1>1, <1>4, <1>7
      <4>2. k \in 1 .. Len(x)
        BY <2>3, <4>1
      <4> QED BY <4>1, <4>2
    <3> QED BY <1>1, <1>4, <1>6, <2>1, <3>1
  <2> QED BY <2>2, <2>3
<1>9. Append(x, w) = y
  BY <1>5, <1>6, <1>7, <1>8, SeqEqual
<1> QED BY <1>3, <1>9 DEF x, y, f, w

\* A file has one path for an input, and so has the input itself.
LEMMA BelowTells ==
    ASSUME NEW i \in Seq(Name), i # <<>>, NEW p \in Seq(Name), NEW q \in Seq(Name),
           C!IsPrefix(i, p), C!IsPrefix(i, q), Below(i, p) = Below(i, q)
    PROVE  p = q
<1> DEFINE x == Below(i, p)
<1>1. /\ Len(i) \in Nat /\ Len(p) \in Nat /\ 1 <= Len(i) /\ Len(i) <= Len(p)
      /\ Len(x) = Len(p) - Len(i) + 1
      /\ \A k \in 1 .. Len(p) - Len(i) + 1 : x[k] = p[Len(i) + k - 1]
  BY BelowIs
<1>2. /\ Len(q) \in Nat /\ Len(i) <= Len(q)
      /\ Len(x) = Len(q) - Len(i) + 1
      /\ \A k \in 1 .. Len(q) - Len(i) + 1 : x[k] = q[Len(i) + k - 1]
  <2>1. x = Below(i, q)
    OBVIOUS
  <2> HIDE DEF x
  <2> QED BY <2>1, BelowIs
<1> HIDE DEF x
<1>3. Len(p) = Len(q)
  BY <1>1, <1>2
<1>4. (\A k \in 1 .. Len(i) : i[k] = p[k]) /\ \A k \in 1 .. Len(i) : i[k] = q[k]
  BY PcPrefix
<1>5. ASSUME NEW k \in 1 .. Len(p) PROVE p[k] = q[k]
  <2>1. CASE k <= Len(i)
    BY <1>1, <1>4, <2>1
  <2>2. CASE ~(k <= Len(i))
    <3>1. PICK j \in 1 .. Len(p) - Len(i) + 1 : Len(i) + j - 1 = k
      <4>1. k - Len(i) + 1 \in 1 .. Len(p) - Len(i) + 1 /\ Len(i) + (k - Len(i) + 1) - 1 = k
        BY <1>1, <2>2
      <4> QED BY <4>1
    <3>2. x[j] = p[Len(i) + j - 1] /\ x[j] = q[Len(i) + j - 1]
      BY <1>1, <1>2, <1>3
    <3> QED BY <3>1, <3>2
  <2> QED BY <2>1, <2>2
<1> QED BY <1>3, <1>5, SeqEqual

\* The whole way to what is in the tree is there.
LEMMA WayThere ==
    ASSUME C!IsDisk(pcTree), NEW q \in DOMAIN pcTree, NEW n \in 0 .. Len(q)
    PROVE  /\ SubSeq(q, 1, n) \in DOMAIN pcTree
           /\ n # Len(q) => pcTree[SubSeq(q, 1, n)] = "dir"
<1>1. q \in Seq(Name) /\ Len(q) \in Nat
  BY LenProperties DEF C!IsDisk, Name
<1> DEFINE There(m) == /\ SubSeq(q, 1, m) \in DOMAIN pcTree
                       /\ m # Len(q) => pcTree[SubSeq(q, 1, m)] = "dir"
           T == {m \in 0 .. Len(q) : There(Len(q) - m)}
<1>4. 0 \in T
  <2>1. SubSeq(q, 1, Len(q)) = q
    BY <1>1, SubSeqFull
  <2>2. Len(q) - 0 = Len(q) /\ 0 \in 0 .. Len(q)
    BY <1>1
  <2> QED BY <2>1, <2>2
<1>5. ASSUME NEW m \in 0 .. Len(q) - 1, m \in T PROVE m + 1 \in T
  <2> DEFINE l == Len(q) - m
             c == SubSeq(q, 1, l)
             f == SubSeq(q, 1, l - 1)
  <2>1. /\ l \in 1 .. Len(q) /\ l - 1 \in 0 .. Len(q) /\ l - 1 # Len(q)
        /\ Len(q) - (m + 1) = l - 1 /\ l \in 0 .. Len(q) /\ l \in Nat
    BY <1>1
  <2>9. There(l)
    BY <1>5
  <2> HIDE DEF l
  <2>2. /\ c \in DOMAIN pcTree /\ c \in Seq(Name) /\ Len(c) = l
        /\ \A k \in 1 .. l : c[k] = q[k]
    BY <1>1, <2>1, <2>9, PcFirst
  <2>3. f \in Seq(Name) /\ Len(f) = l - 1 /\ \A k \in 1 .. l - 1 : f[k] = q[k]
    BY <1>1, <2>1, PcFirst
  <2> HIDE DEF c, f
  <2>4. c # <<>>
    <3>1. Len(c) # 0
      BY <2>1, <2>2
    <3> QED BY <3>1, EmptySeq
  <2>5. C!Front(c) = f
    <3>1. /\ C!Front(c) \in Seq(Name) /\ Len(C!Front(c)) = l - 1
          /\ \A k \in 1 .. l - 1 : C!Front(c)[k] = c[k]
      BY <2>2, <2>4, FrontIs
    <3>2. \A k \in 1 .. l - 1 : k \in 1 .. l
      BY <2>1
    <3>3. \A k \in 1 .. l - 1 : C!Front(c)[k] = f[k]
      BY <2>2, <2>3, <3>1, <3>2
    <3> QED BY <2>3, <3>1, <3>3, SeqEqual
  <2>6. f \in DOMAIN pcTree /\ pcTree[f] = "dir"
    BY <2>2, <2>4, <2>5 DEF C!IsDisk
  <2>7. There(l - 1)
    BY <2>6 DEF f
  <2>8. m + 1 \in 0 .. Len(q)
    BY <1>1
  <2> HIDE DEF There
  <2> QED BY <2>1, <2>7, <2>8
<1>6. 0 .. Len(q) \subseteq T
  <2>1. 0 \in Nat /\ Len(q) \in Nat
    BY <1>1
  <2> HIDE DEF T
  <2> QED BY <1>4, <1>5, <2>1, CountUp
<1>7. There(n)
  <2>1. Len(q) - n \in 0 .. Len(q) /\ Len(q) - (Len(q) - n) = n
    BY <1>1
  <2>2. Len(q) - n \in T
    BY <1>6, <2>1
  <2> HIDE DEF There
  <2> QED BY <2>1, <2>2
<1> QED BY <1>7

-----------------------------------------------------------------------------
(* The walk through the chosen folders. *)

Kind == {"dir", "file", "link", "other"}
Entry == [at : Seq(Name), path : Seq(Name), kind : Kind]
Source == [at : Seq(Name), path : Seq(Name)]

PcTypes ==
    /\ C!IsDisk(pcTree)
    /\ chosen \in Seq(Seq(Name))
    /\ next \in 1 .. Len(chosen) + 1
    /\ todo \in Seq(Entry)
    /\ sources \in Seq(Source)
    /\ pcAt \in {"collect", "offer", "sent", "taken", "failed"}
    /\ touched \subseteq Seq(Name)
    /\ pcEdits \in 0 .. MaxPcEdits
    /\ pcAt \in {"offer", "sent", "taken"} => todo = <<>> /\ next = Len(chosen) + 1

\* What is at p is beneath input j, and path is where it is offered.
From(j, p, path) ==
    /\ chosen[j] # <<>>
    /\ C!IsPrefix(chosen[j], p)
    /\ path = Below(chosen[j], p)

\* What is listed is beneath the input that was taken last, and is what is there
\* unless somebody was there; no entry is beneath another.
Todo ==
    /\ \A k \in DOMAIN todo :
          /\ next > 1
          /\ From(next - 1, todo[k].at, todo[k].path)
          /\ C!Stays(todo[k].at) =>
                todo[k].at \in DOMAIN pcTree /\ pcTree[todo[k].at] = todo[k].kind
    /\ \A k, m \in DOMAIN todo : k # m => ~C!IsPrefix(todo[k].at, todo[m].at)

\* Every file that was added is beneath an input, is there unless somebody was
\* there, and is not added again.
Added ==
    /\ \A k \in DOMAIN sources :
          /\ \E j \in 1 .. next - 1 :
                /\ From(j, sources[k].at, sources[k].path)
                /\ j = next - 1 =>
                      \A m \in DOMAIN todo : ~C!IsPrefix(todo[m].at, sources[k].at)
          /\ C!Stays(sources[k].at) =>
                sources[k].at \in DOMAIN pcTree /\ pcTree[sources[k].at] = "file"
    /\ \A k, m \in DOMAIN sources : sources[k].path = sources[m].path => k = m

\* The file at p was added for input j.
IsAdded(j, p) ==
    \E k \in DOMAIN sources : sources[k].at = p /\ sources[k].path = Below(chosen[j], p)

\* Every file that is beneath an input, and was not touched, is added or will be.
Complete ==
    \A j \in 1 .. next - 1 : \A p \in DOMAIN pcTree :
        pcTree[p] = "file" /\ C!IsPrefix(chosen[j], p) /\ C!Stays(p) =>
            \/ IsAdded(j, p)
            \/ j = next - 1 /\ \E k \in DOMAIN todo : C!IsPrefix(todo[k].at, p)

\* The offer, unless another peer made it.
Offered ==
    /\ pcAt \in {"sent", "taken"} => wanted \in Seq(Seq(STRING))
    /\ pcAt = "sent" =>
          \/ chosen = <<>> /\ Len(wanted) <= 1
          \/ /\ Len(wanted) = Len(sources)
             /\ \A k \in DOMAIN sources : wanted[k] = C!Encoded(sources[k].path)
    /\ pcAt = "taken" =>
          \/ Len(wanted) <= 1
          \/ /\ Len(wanted) = Len(sources)
             /\ \A k \in DOMAIN sources : wanted[k] = Normalized(C!Encoded(sources[k].path))

Reasons == pcAt = "failed" /\ touched = {} /\ unread = {} => C!Faulty

PcInv == PcTypes /\ Todo /\ Added /\ Complete /\ Offered /\ Reasons

\* Where nothing happens at the PC, the invariant stays.
LEMMA PcUnchanged ==
    ASSUME PcInv, UNCHANGED pcVars
    PROVE  PcInv'
<1> USE DEF pcVars
<1>1. /\ \A p : C!Stays(p)' <=> C!Stays(p)
      /\ \A j, p, path : From(j, p, path)' <=> From(j, p, path)
      /\ \A j, p : IsAdded(j, p)' <=> IsAdded(j, p)
      /\ C!Faulty' <=> C!Faulty
      /\ \A p : C!Encoded(p)' = C!Encoded(p)
      /\ \A p : Normalized(p)' = Normalized(p)
      /\ \A p, q : C!IsPrefix(p, q)' <=> C!IsPrefix(p, q)
      /\ C!IsDisk(pcTree)' <=> C!IsDisk(pcTree)
  BY DEF C!Stays, From, IsAdded, C!Faulty, C!Beneath, C!Expected, C!IsDisk, Below,
         C!Encoded, Normalized, C!TotalFits, C!FewEnough, C!FitsFrame
<1>2. PcTypes'
  BY <1>1 DEF PcInv, PcTypes
<1>3. Todo'
  BY <1>1 DEF PcInv, Todo
<1>4. Added'
  BY <1>1 DEF PcInv, Added
<1>5. Complete'
  BY <1>1 DEF PcInv, Complete
<1>6. Offered'
  BY <1>1 DEF PcInv, Offered
<1>7. Reasons'
  BY <1>1 DEF PcInv, Reasons
<1> QED BY <1>2, <1>3, <1>4, <1>5, <1>6, <1>7 DEF PcInv

\* What fails changes nothing else, but tells what could not be read.
LEMMA FailsInv ==
    ASSUME PcInv, C!Fails, touched = {} /\ unread' = {} => C!Faulty
    PROVE  PcInv'
<1> USE DEF C!Fails
<1>1. /\ \A p : C!Stays(p)' <=> C!Stays(p)
      /\ \A j, p, path : From(j, p, path)' <=> From(j, p, path)
      /\ \A j, p : IsAdded(j, p)' <=> IsAdded(j, p)
      /\ C!Faulty' <=> C!Faulty
      /\ \A p, q : C!IsPrefix(p, q)' <=> C!IsPrefix(p, q)
      /\ C!IsDisk(pcTree)' <=> C!IsDisk(pcTree)
  BY DEF C!Stays, From, IsAdded, C!Faulty, C!Beneath, C!Expected, C!IsDisk, Below,
         C!Encoded, C!TotalFits, C!FewEnough, C!FitsFrame
<1>2. PcTypes'
  BY <1>1 DEF PcInv, PcTypes
<1>3. Todo'
  BY <1>1 DEF PcInv, Todo
<1>4. Added'
  BY <1>1 DEF PcInv, Added
<1>5. Complete'
  BY <1>1 DEF PcInv, Complete
<1>6. Offered'
  BY <1>1 DEF PcInv, Offered
<1>7. Reasons'
  BY <1>1 DEF PcInv, Reasons
<1> QED BY <1>2, <1>3, <1>4, <1>5, <1>6, <1>7 DEF PcInv

\* What is first in the list.
LEMMA HeadIs ==
    ASSUME PcTypes, todo # <<>>
    PROVE  /\ 1 \in DOMAIN todo /\ Head(todo) = todo[1]
           /\ todo[1] \in Entry /\ DOMAIN todo = 1 .. Len(todo) /\ Len(todo) \in Nat
           /\ Tail(todo) \in Seq(Entry) /\ Len(Tail(todo)) = Len(todo) - 1
           /\ \A k \in 1 .. Len(Tail(todo)) : Tail(todo)[k] = todo[k + 1]
<1>1. todo \in Seq(Entry)
  BY DEF PcTypes
<1>2. Len(todo) \in Nat /\ Len(todo) # 0 /\ DOMAIN todo = 1 .. Len(todo)
  BY <1>1, LenProperties, EmptySeq
<1>3. 1 \in DOMAIN todo /\ todo[1] \in Entry
  BY <1>1, <1>2, ElementOfSeq
<1>4. /\ Tail(todo) \in Seq(Entry) /\ Len(Tail(todo)) = Len(todo) - 1
      /\ \A k \in 1 .. Len(Tail(todo)) : Tail(todo)[k] = todo[k + 1]
  BY <1>1, HeadTailProperties
<1> QED BY <1>2, <1>3, <1>4

\* The inputs that have been taken.
LEMMA Inputs ==
    ASSUME PcTypes
    PROVE  /\ Len(chosen) \in Nat /\ next \in Nat /\ next - 1 \in 0 .. Len(chosen)
           /\ DOMAIN chosen = 1 .. Len(chosen)
           /\ \A j \in 1 .. Len(chosen) : chosen[j] \in Seq(Name) /\ chosen[j] \in C!Range(chosen)
           /\ \A j \in 1 .. next - 1 : j \in 1 .. Len(chosen) /\ j \in DOMAIN chosen
<1>1. chosen \in Seq(Seq(Name)) /\ next \in 1 .. Len(chosen) + 1
  BY DEF PcTypes
<1>2. Len(chosen) \in Nat /\ DOMAIN chosen = 1 .. Len(chosen)
  BY <1>1, LenProperties
<1>3. \A j \in 1 .. Len(chosen) : chosen[j] \in Seq(Name) /\ chosen[j] \in C!Range(chosen)
  BY <1>1, <1>2, ElementOfSeq DEF C!Range
<1> QED BY <1>1, <1>2, <1>3

\* The files that were added.
LEMMA SourcesAre ==
    ASSUME PcTypes
    PROVE  /\ Len(sources) \in Nat /\ DOMAIN sources = 1 .. Len(sources)
           /\ \A k \in DOMAIN sources : sources[k] \in Source
<1>1. sources \in Seq(Source)
  BY DEF PcTypes
<1> QED BY <1>1, LenProperties, ElementOfSeq

\* A path in the tree is one of names.
LEMMA TreePaths ==
    ASSUME PcTypes
    PROVE  DOMAIN pcTree \subseteq Seq(Name) /\ \A p \in DOMAIN pcTree : pcTree[p] \in Kind
  BY DEF PcTypes, C!IsDisk, Name, Kind

\* A file that stays is expected.
LEMMA IsExpected ==
    ASSUME NEW j, NEW p \in DOMAIN pcTree, NEW path, From(j, p, path),
           pcTree[p] = "file", C!Stays(p)
    PROVE  [at |-> p, path |-> path] \in C!Expected(chosen[j])
<1>1. p \in C!Beneath(chosen[j], {"file"})
  BY DEF C!Beneath, From
<1> QED BY <1>1 DEF C!Expected, From, Below

\* As long as nobody does anything, every file that was added is expected.
LEMMA SourceExpected ==
    ASSUME PcInv, touched = {}, NEW k \in DOMAIN sources
    PROVE  \E j \in 1 .. next - 1 :
              /\ From(j, sources[k].at, sources[k].path)
              /\ j = next - 1 => \A m \in DOMAIN todo : ~C!IsPrefix(todo[m].at, sources[k].at)
              /\ chosen[j] \in C!Range(chosen)
              /\ [at |-> sources[k].at, path |-> sources[k].path] \in C!Expected(chosen[j])
              /\ sources[k] = [at |-> sources[k].at, path |-> sources[k].path]
<1>1. PICK j \in 1 .. next - 1 :
                /\ From(j, sources[k].at, sources[k].path)
                /\ j = next - 1 =>
                      \A m \in DOMAIN todo : ~C!IsPrefix(todo[m].at, sources[k].at)
  BY DEF PcInv, Added
<1>2. \A p : C!Stays(p)
  BY DEF C!Stays
<1>3. sources[k].at \in DOMAIN pcTree /\ pcTree[sources[k].at] = "file"
  BY <1>2 DEF PcInv, Added
<1>4. chosen[j] \in C!Range(chosen)
  BY Inputs DEF PcInv
<1>5. sources[k] = [at |-> sources[k].at, path |-> sources[k].path]
  BY SourcesAre DEF PcInv, Source
<1>6. [at |-> sources[k].at, path |-> sources[k].path] \in C!Expected(chosen[j])
  BY <1>1, <1>2, <1>3, IsExpected
<1> QED BY <1>1, <1>4, <1>5, <1>6

\* What is listed is there, as long as nobody does anything.
LEMMA HeadThere ==
    ASSUME PcInv, todo # <<>>
    PROVE  /\ next > 1 /\ next - 1 \in 1 .. next - 1
           /\ From(next - 1, todo[1].at, todo[1].path)
           /\ chosen[next - 1] \in C!Range(chosen)
           /\ todo[1].at \in Seq(Name) /\ todo[1].path \in Seq(Name)
           /\ chosen[next - 1] \in Seq(Name)
           /\ touched = {} => todo[1].at \in DOMAIN pcTree /\ pcTree[todo[1].at] = todo[1].kind
<1>1. PcTypes /\ Todo
  BY DEF PcInv
<1>2. 1 \in DOMAIN todo /\ todo[1] \in Entry
  BY <1>1, HeadIs
<1>3. next > 1 /\ From(next - 1, todo[1].at, todo[1].path)
  BY <1>1, <1>2 DEF Todo
<1>4. touched = {} => todo[1].at \in DOMAIN pcTree /\ pcTree[todo[1].at] = todo[1].kind
  BY <1>1, <1>2 DEF Todo, C!Stays
<1>5. next - 1 \in 1 .. next - 1
  BY <1>1, <1>3, Inputs
<1>6. chosen[next - 1] \in C!Range(chosen) /\ chosen[next - 1] \in Seq(Name)
  BY <1>1, <1>5, Inputs
<1> QED BY <1>2, <1>3, <1>4, <1>5, <1>6 DEF Entry

\* It is the selection that is at fault,
LEMMA FailInv ==
    ASSUME PcInv, C!Fail, touched = {} => C!Faulty
    PROVE  PcInv'
  BY FailsInv DEF C!Fail

\* or the disk.
LEMMA CannotReadInv ==
    ASSUME PcInv, NEW p, C!CannotRead(p)
    PROVE  PcInv'
<1>1. C!Fails /\ unread' # {}
  BY DEF C!CannotRead
<1> QED BY <1>1, FailsInv

\* The next input.
LEMMA TakeInputInv ==
    ASSUME PcInv, C!TakeInput
    PROVE  PcInv'
<1> DEFINE p == chosen[next]
           e == [at |-> p, path |-> <<C!Last(p)>>, kind |-> pcTree[p]]
<1>0. PcTypes /\ Todo /\ Added /\ Complete /\ Offered /\ Reasons
  BY DEF PcInv
<1>1. pcAt = "collect" /\ todo = <<>> /\ next <= Len(chosen)
  BY DEF C!TakeInput
<1>2. next \in 1 .. Len(chosen) /\ p \in Seq(Name) /\ p \in C!Range(chosen)
  BY <1>0, <1>1, Inputs
<1>3. CASE p \notin DOMAIN pcTree \/ p = <<>>
  <2>1. C!Fail
    BY <1>3 DEF C!TakeInput
  <2>2. C!Faulty
    BY <1>2, <1>3 DEF C!Faulty
  <2> QED BY <2>1, <2>2, FailInv
<1>5. CASE C!CannotRead(p)
  BY <1>5, CannotReadInv
<1>4. CASE ~(p \notin DOMAIN pcTree \/ p = <<>>) /\ ~C!CannotRead(p)
  <2>1. /\ todo' = <<e>> /\ next' = next + 1 /\ p \in DOMAIN pcTree /\ p # <<>>
        /\ UNCHANGED <<pcTree, chosen, sources, pcAt, wanted, touched, unread, pcEdits>>
    BY <1>4 DEF C!TakeInput
  <2>2. /\ Len(p) \in Nat /\ Len(p) >= 1 /\ C!Last(p) = p[Len(p)] /\ C!Last(p) \in Name
    BY <1>2, <2>1, FrontIs
  <2>3. C!IsPrefix(p, p) /\ <<C!Last(p)>> = Below(p, p)
    <3>1. C!IsPrefix(p, p)
      BY <1>2, PrefixOfItself
    <3>2. /\ Below(p, p) \in Seq(Name) /\ Len(Below(p, p)) = Len(p) - Len(p) + 1
          /\ \A k \in 1 .. Len(p) - Len(p) + 1 : Below(p, p)[k] = p[Len(p) + k - 1]
      BY <1>2, <2>1, <3>1, BelowIs
    <3> DEFINE b == Below(p, p)
               w == C!Last(p)
    <3>3. b \in Seq(Name) /\ Len(b) = 1 /\ b[1] = w
      <4>1. Len(p) - Len(p) + 1 = 1 /\ Len(p) + 1 - 1 = Len(p) /\ 1 \in 1 .. 1
        BY <2>2
      <4> QED BY <2>2, <3>2, <4>1
    <3> HIDE DEF b
    <3>4. <<w>> \in Seq(Name) /\ Len(<<w>>) = 1 /\ <<w>>[1] = w
      BY <2>2, Singleton
    <3> HIDE DEF w
    <3>5. \A k \in 1 .. 1 : k = 1
      OBVIOUS
    <3>6. <<w>> = b
      BY <3>3, <3>4, <3>5, SeqEqual
    <3> QED BY <3>1, <3>6 DEF w, b
  <2>4. e \in Entry /\ <<e>> \in Seq(Entry) /\ DOMAIN <<e>> = {1} /\ <<e>>[1] = e
    <3>1. <<C!Last(p)>> \in Seq(Name)
      BY <2>2, Singleton
    <3>2. pcTree[p] \in Kind
      BY <1>0, <2>1, TreePaths
    <3>3. e \in Entry
      BY <1>2, <3>1, <3>2 DEF Entry
    <3> HIDE DEF e
    <3> QED BY <3>3, Singleton
  <2>5. e.at = p /\ e.path = Below(p, p) /\ e.kind = pcTree[p]
    BY <2>3
  <2> HIDE DEF e
  <2>6. next' - 1 = next /\ next \in Nat
    BY <1>0, <2>1, Inputs
  <2>7. PcTypes'
    <3>1. C!IsDisk(pcTree)'
      BY <1>0, <2>1 DEF PcTypes, C!IsDisk
    <3>2. next' \in 1 .. Len(chosen') + 1
      BY <1>0, <1>2, <2>1, Inputs
    <3> QED BY <1>0, <1>1, <2>1, <2>4, <3>1, <3>2 DEF PcTypes
  <2>8. Todo'
    <3>1. chosen'[next' - 1] = p /\ next' > 1
      BY <1>2, <2>1, <2>6
    <3>2. ASSUME NEW k \in DOMAIN todo' PROVE k = 1 /\ todo'[k] = e
      BY <2>1, <2>4, <3>2
    <3>3. ASSUME NEW k \in DOMAIN todo'
          PROVE  From(next - 1, todo[k].at, todo[k].path)'
      BY <2>1, <2>3, <2>5, <3>1, <3>2 DEF From, Below
    <3>4. ASSUME NEW k \in DOMAIN todo'
          PROVE  todo'[k].at \in DOMAIN pcTree' /\ pcTree'[todo'[k].at] = todo'[k].kind
      BY <2>1, <2>5, <3>2
    <3> QED BY <3>1, <3>2, <3>3, <3>4 DEF Todo
  <2>9. Added'
    <3>1. ASSUME NEW k \in DOMAIN sources
          PROVE  \E j \in 1 .. next' - 1 : From(j, sources[k].at, sources[k].path)' /\ j # next' - 1
      <4>1. PICK j \in 1 .. next - 1 : From(j, sources[k].at, sources[k].path)
        BY <1>0 DEF Added
      <4>2. j \in 1 .. next' - 1 /\ j # next' - 1
        BY <2>6, <1>2
      <4>3. From(j, sources[k].at, sources[k].path)'
        BY <2>1, <4>1 DEF From, Below
      <4> QED BY <4>2, <4>3
    <3>2. ASSUME NEW k \in DOMAIN sources, C!Stays(sources[k].at)'
          PROVE  sources[k].at \in DOMAIN pcTree /\ pcTree[sources[k].at] = "file"
      BY <1>0, <2>1, <3>2 DEF Added, C!Stays
    <3> QED BY <1>0, <2>1, <3>1, <3>2 DEF Added
  <2>10. Complete'
    <3> SUFFICES ASSUME NEW j \in 1 .. next' - 1, NEW q \in DOMAIN pcTree,
                        pcTree[q] = "file", C!IsPrefix(chosen[j], q), C!Stays(q)
                 PROVE  IsAdded(j, q)'
                        \/ (j = next' - 1 /\ \E k \in DOMAIN todo' : C!IsPrefix(todo'[k].at, q))
      BY <2>1 DEF Complete, C!Stays
    <3>1. CASE j = next
      <4>1. C!IsPrefix(e.at, q)
        BY <2>5, <3>1
      <4> QED BY <2>1, <2>4, <2>6, <3>1, <4>1
    <3>2. CASE j # next
      <4>1. j \in 1 .. next - 1
        BY <2>6, <3>2
      <4>2. IsAdded(j, q)
        <5>1. DOMAIN todo = {}
          BY <1>1
        <5> QED BY <1>0, <4>1, <5>1 DEF Complete
      <4> QED BY <2>1, <4>2 DEF IsAdded, Below
    <3> QED BY <3>1, <3>2
  <2>11. Offered' /\ Reasons'
    BY <1>1, <2>1 DEF Offered, Reasons
  <2> QED BY <2>7, <2>8, <2>9, <2>10, <2>11 DEF PcInv
<1> QED BY <1>3, <1>4, <1>5

\* A link, or what is no file and no folder.
LEMMA RefuseEntryInv ==
    ASSUME PcInv, C!RefuseEntry
    PROVE  PcInv'
<1>1. C!Fail /\ todo # <<>> /\ Head(todo).kind \in {"link", "other"}
  BY DEF C!RefuseEntry, C!Visiting
<1>2. Head(todo) = todo[1]
  BY <1>1, HeadIs DEF PcInv
<1>3. ASSUME touched = {} PROVE C!Faulty
  <2>1. /\ From(next - 1, todo[1].at, todo[1].path) /\ chosen[next - 1] \in C!Range(chosen)
        /\ todo[1].at \in DOMAIN pcTree /\ pcTree[todo[1].at] = todo[1].kind
    BY <1>1, <1>3, HeadThere
  <2>2. todo[1].at \in C!Beneath(chosen[next - 1], {"link", "other"})
    BY <1>1, <1>2, <2>1 DEF C!Beneath, From
  <2> QED BY <2>1, <2>2 DEF C!Faulty
<1> QED BY <1>1, <1>3, FailInv

\* A file is added, or not: then it was added before, or somebody was there.
LEMMA AddSourceInv ==
    ASSUME PcInv, C!AddSource
    PROVE  PcInv'
<1> DEFINE e == todo[1]
           s == [at |-> e.at, path |-> e.path]
<1>0. PcTypes /\ Todo /\ Added /\ Complete /\ Offered /\ Reasons
  BY DEF PcInv
<1>1. /\ pcAt = "collect" /\ todo # <<>> /\ Head(todo).kind = "file"
      /\ 1 \in DOMAIN todo /\ Head(todo) = e /\ e \in Entry /\ e.kind = "file"
  <2>1. pcAt = "collect" /\ todo # <<>> /\ Head(todo).kind = "file"
    BY DEF C!AddSource, C!Visiting
  <2> QED BY <1>0, <2>1, HeadIs
<1>2. /\ next > 1 /\ next - 1 \in 1 .. next - 1 /\ From(next - 1, e.at, e.path)
      /\ chosen[next - 1] \in C!Range(chosen) /\ chosen[next - 1] \in Seq(Name)
      /\ e.at \in Seq(Name) /\ e.path \in Seq(Name)
      /\ touched = {} => e.at \in DOMAIN pcTree /\ pcTree[e.at] = e.kind
  BY <1>1, HeadThere
<1>3. CASE C!Taken(e.path) \/ e.at \notin DOMAIN pcTree \/ pcTree[e.at] # "file"
  <2>1. C!Fail
    BY <1>1, <1>3 DEF C!AddSource
  <2>2. ASSUME touched = {} PROVE C!Faulty
    <3>1. e.at \in DOMAIN pcTree /\ pcTree[e.at] = "file" /\ C!Taken(e.path) /\ C!Stays(e.at)
      BY <1>1, <1>2, <1>3, <2>2 DEF C!Stays
    <3>2. PICK k \in DOMAIN sources : sources[k].path = e.path
      BY <3>1 DEF C!Taken
    <3>3. PICK j \in 1 .. next - 1 :
              /\ From(j, sources[k].at, sources[k].path)
              /\ j = next - 1 => \A m \in DOMAIN todo : ~C!IsPrefix(todo[m].at, sources[k].at)
              /\ [at |-> sources[k].at, path |-> sources[k].path] \in C!Expected(chosen[j])
      BY <2>2, SourceExpected
    <3>4. s \in C!Expected(chosen[next - 1])
      BY <1>2, <3>1, IsExpected
    <3>5. j # next - 1
      <4> SUFFICES ASSUME j = next - 1 PROVE FALSE
        OBVIOUS
      <4>1. /\ chosen[j] \in Seq(Name) /\ chosen[j] # <<>> /\ sources[k].at \in Seq(Name)
            /\ C!IsPrefix(chosen[j], sources[k].at) /\ C!IsPrefix(chosen[j], e.at)
            /\ Below(chosen[j], sources[k].at) = Below(chosen[j], e.at)
        BY <1>0, <1>2, <3>2, <3>3, SourcesAre DEF From, Source
      <4>2. sources[k].at = e.at
        BY <1>2, <4>1, BelowTells
      <4>3. C!IsPrefix(e.at, e.at)
        BY <1>2, PrefixOfItself
      <4> QED BY <1>1, <3>3, <4>2, <4>3
    <3>6. j \in DOMAIN chosen /\ next - 1 \in DOMAIN chosen
      BY <1>0, <1>2, <3>3, Inputs
    <3>7. s.path = e.path
      OBVIOUS
    <3> DEFINE t == [at |-> sources[k].at, path |-> sources[k].path]
    <3>8. t.path = e.path /\ t \in C!Expected(chosen[j])
      BY <3>2, <3>3
    <3> HIDE DEF s, t
    <3> QED BY <3>4, <3>5, <3>6, <3>7, <3>8 DEF C!Faulty
  <2> QED BY <2>1, <2>2, FailInv
<1>5. CASE C!CannotRead(e.at)
  BY <1>5, CannotReadInv
<1>4. CASE /\ ~(C!Taken(e.path) \/ e.at \notin DOMAIN pcTree \/ pcTree[e.at] # "file")
           /\ ~C!CannotRead(e.at)
  <2>1. /\ sources' = Append(sources, s) /\ todo' = Tail(todo)
        /\ e.at \in DOMAIN pcTree /\ pcTree[e.at] = "file" /\ ~C!Taken(e.path)
        /\ UNCHANGED <<pcTree, chosen, next, pcAt, wanted, touched, unread, pcEdits>>
    BY <1>1, <1>4 DEF C!AddSource
  <2>2. s \in Source /\ s.at = e.at /\ s.path = e.path
    BY <1>2 DEF Source
  <2> DEFINE n == Len(sources)
  <2>3. /\ n \in Nat /\ DOMAIN sources = 1 .. n /\ sources' \in Seq(Source)
        /\ DOMAIN sources' = 1 .. n + 1 /\ sources'[n + 1] = s
        /\ \A k \in 1 .. n : sources'[k] = sources[k]
    <3>1. sources \in Seq(Source)
      BY <1>0 DEF PcTypes
    <3> HIDE DEF s
    <3>2. /\ Append(sources, s) \in Seq(Source) /\ Len(Append(sources, s)) = n + 1
          /\ \A k \in 1 .. n : Append(sources, s)[k] = sources[k]
          /\ Append(sources, s)[n + 1] = s
      BY <2>2, <3>1, AppendProperties
    <3> QED BY <2>1, <3>1, <3>2, LenProperties
  <2>4. /\ todo' \in Seq(Entry) /\ DOMAIN todo' = 1 .. Len(todo) - 1 /\ Len(todo) \in Nat
        /\ \A k \in DOMAIN todo' : todo'[k] = todo[k + 1] /\ k + 1 \in DOMAIN todo /\ k + 1 # 1
    BY <1>0, <1>1, <2>1, HeadIs, LenProperties
  <2>5. \A k \in DOMAIN sources' : k \in 1 .. n \/ (k = n + 1 /\ sources'[k] = s)
    BY <2>3
  <2> HIDE DEF n, s
  <2>6. \A j, q, path : From(j, q, path)' <=> From(j, q, path)
    BY <2>1 DEF From, Below
  <2>7. \A q : C!Stays(q)' <=> C!Stays(q)
    BY <2>1 DEF C!Stays
  <2>8. PcTypes'
    <3>1. C!IsDisk(pcTree)'
      BY <1>0, <2>1 DEF PcTypes, C!IsDisk
    <3> QED BY <1>0, <1>1, <2>1, <2>3, <2>4, <3>1 DEF PcTypes
  <2>9. Todo'
    BY <1>0, <2>1, <2>4, <2>6, <2>7 DEF Todo
  <2>10. Added'
    <3>1. ASSUME NEW k \in DOMAIN sources'
          PROVE  /\ \E j \in 1 .. next - 1 :
                      /\ From(j, sources'[k].at, sources'[k].path)
                      /\ j = next - 1 =>
                            \A m \in DOMAIN todo' : ~C!IsPrefix(todo'[m].at, sources'[k].at)
                 /\ C!Stays(sources'[k].at) =>
                      sources'[k].at \in DOMAIN pcTree /\ pcTree[sources'[k].at] = "file"
      <4>1. CASE k \in 1 .. n
        <5>1. sources'[k] = sources[k] /\ k \in DOMAIN sources
          BY <2>3, <4>1
        <5>2. PICK j \in 1 .. next - 1 :
                      /\ From(j, sources[k].at, sources[k].path)
                      /\ j = next - 1 =>
                            \A m \in DOMAIN todo : ~C!IsPrefix(todo[m].at, sources[k].at)
          BY <1>0, <5>1 DEF Added
        <5>3. j = next - 1 => \A m \in DOMAIN todo' : ~C!IsPrefix(todo'[m].at, sources[k].at)
          BY <2>4, <5>2
        <5>4. C!Stays(sources[k].at) =>
                      sources[k].at \in DOMAIN pcTree /\ pcTree[sources[k].at] = "file"
          BY <1>0, <5>1 DEF Added
        <5> QED BY <5>1, <5>2, <5>3, <5>4
      <4>2. CASE k = n + 1 /\ sources'[k] = s
        <5>1. \A m \in DOMAIN todo' : ~C!IsPrefix(todo'[m].at, e.at)
          BY <1>0, <1>1, <2>4 DEF Todo
        <5> QED BY <1>2, <2>1, <2>2, <4>2, <5>1
      <4> QED BY <2>5, <4>1, <4>2
    <3>2. ASSUME NEW k \in DOMAIN sources', NEW m \in DOMAIN sources',
                 sources'[k].path = sources'[m].path
          PROVE  k = m
      <4>1. \A i \in DOMAIN sources : sources[i].path # e.path
        BY <2>1 DEF C!Taken
      <4>2. \A i \in 1 .. n : sources'[i].path # s.path
        BY <2>2, <2>3, <4>1
      <4>3. CASE k \in 1 .. n /\ m \in 1 .. n
        BY <1>0, <2>3, <3>2, <4>3 DEF Added
      <4> QED BY <2>5, <3>2, <4>2, <4>3
    <3> QED BY <2>1, <2>6, <2>7, <3>1, <3>2 DEF Added
  <2>11. Complete'
    <3> SUFFICES ASSUME NEW j \in 1 .. next - 1, NEW q \in DOMAIN pcTree,
                        pcTree[q] = "file", C!IsPrefix(chosen[j], q), C!Stays(q)
                 PROVE  IsAdded(j, q)'
                        \/ (j = next - 1 /\ \E k \in DOMAIN todo' : C!IsPrefix(todo'[k].at, q))
      BY <2>1, <2>7 DEF Complete
    <3>1. CASE IsAdded(j, q)
      <4>1. PICK k \in DOMAIN sources : sources[k].at = q /\ sources[k].path = Below(chosen[j], q)
        BY <3>1 DEF IsAdded
      <4>2. k \in DOMAIN sources' /\ sources'[k] = sources[k]
        BY <2>3
      <4> QED BY <2>1, <4>1, <4>2 DEF IsAdded, Below
    <3>2. CASE j = next - 1 /\ \E k \in DOMAIN todo : C!IsPrefix(todo[k].at, q)
      <4>1. PICK k \in DOMAIN todo : C!IsPrefix(todo[k].at, q)
        BY <3>2
      <4>2. CASE k = 1
        <5>1. q \in Seq(Name)
          BY <1>0, TreePaths
        <5>2. q = e.at
          <6> SUFFICES ASSUME e.at # q PROVE FALSE
            OBVIOUS
          <6>1. Len(e.at) \in 0 .. Len(q) /\ Len(e.at) # Len(q) /\ SubSeq(q, 1, Len(e.at)) = e.at
            <7>1. Len(e.at) \in Nat /\ Len(q) \in Nat /\ Len(e.at) + 1 \in 1 .. Len(q)
                  /\ SubSeq(q, 1, Len(e.at)) = e.at
              BY <1>2, <4>1, <4>2, <5>1, NextName
            <7> QED BY <7>1
          <6>2. pcTree[e.at] = "dir"
            BY <1>0, <6>1, WayThere DEF PcTypes
          <6> QED BY <2>1, <6>2
        <5>3. n + 1 \in DOMAIN sources' /\ sources'[n + 1] = s
          BY <2>3
        <5> QED BY <1>2, <2>1, <2>2, <3>2, <5>2, <5>3 DEF IsAdded, From, Below
      <4>3. CASE k # 1
        <5>1. k - 1 \in DOMAIN todo' /\ todo'[k - 1] = todo[k]
          BY <1>0, <1>1, <2>1, <4>3, HeadIs, LenProperties
        <5> QED BY <3>2, <4>1, <5>1
      <4> QED BY <4>2, <4>3
    <3> QED BY <1>0, <3>1, <3>2 DEF Complete
  <2>12. Offered' /\ Reasons'
    BY <1>1, <2>1 DEF Offered, Reasons
  <2> QED BY <2>8, <2>9, <2>10, <2>11, <2>12 DEF PcInv
<1> QED BY <1>3, <1>4, <1>5

\* The sequences that have each element of a set once.
LEMMA EachOnce ==
    ASSUME NEW S, IsFiniteSet(S), NEW s \in C!SetToSeqs(S)
    PROVE  /\ s \in [1 .. C!Cardinality(S) -> S] /\ C!Range(s) = S
           /\ \A j, k \in DOMAIN s : s[j] = s[k] => j = k
<1> DEFINE N == C!Cardinality(S)
<1>1. s \in [1 .. N -> S] /\ \A j, k \in 1 .. N : j # k => s[j] # s[k]
  BY DEF C!SetToSeqs
<1>2. N = Cardinality(S)
  BY DEF C!Cardinality, Cardinality
<1>3. N \in Nat
  BY <1>2, FS_CardinalityType
<1> HIDE DEF N
<1>4. Cardinality(1 .. N) = N
  BY <1>3, FS_Interval
<1>5. s \in Injection(1 .. N, S)
  BY <1>1 DEF Injection, IsInjective
<1>6. s \in Surjection(1 .. N, S)
  BY <1>2, <1>4, <1>5, FS_Injection
<1>7. C!Range(s) = S
  BY <1>1, <1>6 DEF Surjection, C!Range
<1>8. DOMAIN s = 1 .. N
  BY <1>1
<1> QED BY <1>1, <1>7, <1>8 DEF N

\* The children of a folder.
LEMMA ChildrenAre ==
    ASSUME PcTypes, NEW d
    PROVE  /\ IsFiniteSet(C!Children(d)) /\ C!Cardinality(C!Children(d)) \in Nat
           /\ C!Children(d) = {q \in DOMAIN pcTree : q # <<>> /\ C!Front(q) = d}
<1>1. IsFiniteSet(DOMAIN pcTree)
  BY DEF PcTypes, C!IsDisk, C!IsFiniteSet, IsFiniteSet
<1>2. C!Children(d) \subseteq DOMAIN pcTree
  BY DEF C!Children
<1>3. IsFiniteSet(C!Children(d))
  BY <1>1, <1>2, FS_Subset
<1>4. Cardinality(C!Children(d)) \in Nat
  BY <1>3, FS_CardinalityType
<1>5. C!Cardinality(C!Children(d)) = Cardinality(C!Children(d))
  BY DEF C!Cardinality, Cardinality
<1> QED BY <1>3, <1>4, <1>5 DEF C!Children

\* What is listed in a folder: its children, each one once.
LEMMA ListingIs ==
    ASSUME PcTypes, NEW e \in Entry, NEW listed \in C!Listings(e)
    PROVE  /\ Len(listed) \in Nat /\ DOMAIN listed = 1 .. Len(listed)
           /\ \A k \in DOMAIN listed :
                 /\ listed[k].at \in DOMAIN pcTree /\ listed[k].at # <<>>
                 /\ C!Front(listed[k].at) = e.at
                 /\ listed[k].path = Append(e.path, C!Last(listed[k].at))
                 /\ listed[k].kind = pcTree[listed[k].at]
                 /\ listed[k] = [at |-> listed[k].at, path |-> listed[k].path,
                                 kind |-> listed[k].kind]
           /\ \A k, m \in DOMAIN listed : listed[k].at = listed[m].at => k = m
           /\ \A q \in DOMAIN pcTree : q # <<>> /\ C!Front(q) = e.at =>
                 \E k \in DOMAIN listed : listed[k].at = q
<1> DEFINE S == C!Children(e.at)
           N == C!Cardinality(S)
           One(s, k) == [at |-> s[k], path |-> Append(e.path, C!Last(s[k])), kind |-> pcTree[s[k]]]
<1>1. PICK s \in C!ByName(e.at) : listed = [k \in DOMAIN s |-> One(s, k)]
  BY DEF C!Listings
<1>2. /\ s \in [1 .. N -> S] /\ C!Range(s) = S
      /\ \A k, m \in DOMAIN s : s[k] = s[m] => k = m
  BY <1>1, ChildrenAre, EachOnce DEF C!ByName
<1>3. N \in Nat /\ S = {q \in DOMAIN pcTree : q # <<>> /\ C!Front(q) = e.at}
  BY ChildrenAre
<1> HIDE DEF S, N
<1>4. /\ DOMAIN s = 1 .. N /\ DOMAIN listed = 1 .. N
      /\ \A k \in 1 .. N : listed[k] = One(s, k) /\ s[k] \in S
  BY <1>1, <1>2
<1>5. \A k \in 1 .. N : /\ listed[k].at = s[k] /\ listed[k].kind = pcTree[s[k]]
                        /\ listed[k].path = Append(e.path, C!Last(s[k]))
                        /\ listed[k] = [at |-> listed[k].at, path |-> listed[k].path,
                                        kind |-> listed[k].kind]
  BY <1>4
<1> HIDE DEF One
<1>6. Len(listed) = N
  <2>1. listed \in [1 .. N -> {listed[k] : k \in 1 .. N}]
    <3>1. listed = [k \in 1 .. N |-> listed[k]]
      BY <1>1, <1>4
    <3> QED BY <3>1, <1>4
  <2>2. listed \in Seq({listed[k] : k \in 1 .. N})
    BY <1>3, <2>1, SeqDef
  <2>3. Len(listed) \in Nat /\ 1 .. Len(listed) = 1 .. N
    BY <1>4, <2>2, LenProperties
  <2> QED BY <1>3, <2>3
<1>7. ASSUME NEW k \in 1 .. N, NEW m \in 1 .. N, s[k] = s[m] PROVE k = m
  BY <1>2, <1>4, <1>7
<1>8. \A q \in S : \E k \in 1 .. N : s[k] = q
  BY <1>2, <1>4 DEF C!Range
<1> QED BY <1>3, <1>4, <1>5, <1>6, <1>7, <1>8

\* What is listed comes before what is left, and takes the place of the folder.
LEMMA EnterDirectoryInv ==
    ASSUME PcInv, C!EnterDirectory
    PROVE  PcInv'
<1> DEFINE e == todo[1]
           i == chosen[next - 1]
<1>0. PcTypes /\ Todo /\ Added /\ Complete /\ Offered /\ Reasons
  BY DEF PcInv
<1>1. /\ pcAt = "collect" /\ todo # <<>> /\ 1 \in DOMAIN todo /\ Head(todo) = e
      /\ e \in Entry /\ e.kind = "dir"
  <2>1. pcAt = "collect" /\ todo # <<>> /\ Head(todo).kind = "dir"
    BY DEF C!EnterDirectory, C!Visiting
  <2> QED BY <1>0, <2>1, HeadIs
<1>2. /\ next > 1 /\ next - 1 \in 1 .. next - 1 /\ From(next - 1, e.at, e.path)
      /\ i \in Seq(Name) /\ e.at \in Seq(Name) /\ e.path \in Seq(Name)
      /\ touched = {} => e.at \in DOMAIN pcTree /\ pcTree[e.at] = e.kind
  BY <1>1, HeadThere
<1>3. CASE e.at \notin DOMAIN pcTree \/ pcTree[e.at] # "dir"
  <2>1. C!Fail
    BY <1>1, <1>3 DEF C!EnterDirectory
  <2>2. touched # {}
    BY <1>1, <1>2, <1>3
  <2> QED BY <2>1, <2>2, FailInv
<1>5. CASE C!CannotRead(e.at)
  BY <1>5, CannotReadInv
<1>4. CASE ~(e.at \notin DOMAIN pcTree \/ pcTree[e.at] # "dir") /\ ~C!CannotRead(e.at)
  <2>1. /\ e.at \in DOMAIN pcTree /\ pcTree[e.at] = "dir"
        /\ \E listed \in C!Listings(e) : todo' = listed \o Tail(todo)
        /\ UNCHANGED <<pcTree, chosen, next, sources, pcAt, wanted, touched, unread, pcEdits>>
    BY <1>1, <1>4 DEF C!EnterDirectory, C!Descend
  <2>2. PICK listed \in C!Listings(e) : todo' = listed \o Tail(todo)
    BY <2>1
  <2> DEFINE n == Len(listed)
             rest == Tail(todo)
  <2>3. /\ n \in Nat /\ DOMAIN listed = 1 .. n
        /\ \A k \in 1 .. n :
              /\ listed[k].at \in DOMAIN pcTree /\ listed[k].at # <<>>
              /\ C!Front(listed[k].at) = e.at
              /\ listed[k].path = Append(e.path, C!Last(listed[k].at))
              /\ listed[k].kind = pcTree[listed[k].at]
              /\ listed[k] = [at |-> listed[k].at, path |-> listed[k].path,
                              kind |-> listed[k].kind]
        /\ \A k, m \in 1 .. n : listed[k].at = listed[m].at => k = m
        /\ \A q \in DOMAIN pcTree : q # <<>> /\ C!Front(q) = e.at =>
              \E k \in 1 .. n : listed[k].at = q
    BY <1>0, <1>1, ListingIs
  <2>4. ASSUME NEW k \in 1 .. n
        PROVE  /\ listed[k].at \in Seq(Name) /\ listed[k].at # <<>> /\ listed[k] \in Entry
               /\ From(next - 1, listed[k].at, listed[k].path)
    <3> DEFINE c == listed[k].at
    <3>1. c \in Seq(Name) /\ c # <<>> /\ C!Front(c) = e.at /\ pcTree[c] \in Kind
      BY <1>0, <2>3, TreePaths
    <3>2. i # <<>> /\ C!IsPrefix(i, e.at) /\ e.path = Below(i, e.at)
      BY <1>2 DEF From
    <3>3. listed[k].path = Append(Below(i, e.at), C!Last(c)) /\ listed[k].kind \in Kind
      BY <2>3, <3>1, <3>2
    <3>4. C!IsPrefix(i, c) /\ listed[k].path = Below(i, c)
      <4> HIDE DEF c
      <4> QED BY <1>2, <3>1, <3>2, <3>3, BelowChild
    <3>5. listed[k].path \in Seq(Name)
      BY <1>2, <3>1, <3>2, <3>4, BelowIs
    <3>6. listed[k] \in Entry
      <4>1. listed[k] = [at |-> listed[k].at, path |-> listed[k].path, kind |-> listed[k].kind]
        BY <2>3
      <4> QED BY <3>1, <3>3, <3>5, <4>1 DEF Entry
    <3> QED BY <3>1, <3>2, <3>4, <3>6 DEF From
  <2>5. /\ rest \in Seq(Entry) /\ Len(rest) = Len(todo) - 1 /\ Len(todo) \in Nat
        /\ \A k \in 1 .. Len(rest) :
              rest[k] = todo[k + 1] /\ k + 1 \in DOMAIN todo /\ k + 1 # 1
    BY <1>0, <1>1, HeadIs
  <2>6. listed \in Seq(Entry)
    <3>1. listed = [k \in 1 .. n |-> listed[k]]
      BY <2>3 DEF C!Listings
    <3>2. listed \in [1 .. n -> Entry]
      BY <2>4, <3>1
    <3> QED BY <2>3, <3>2, SeqDef
  <2> HIDE DEF n, rest
  <2>7. /\ todo' \in Seq(Entry) /\ Len(rest) \in Nat /\ DOMAIN todo' = 1 .. n + Len(rest)
        /\ \A k \in 1 .. n : todo'[k] = listed[k]
        /\ \A k \in 1 .. Len(rest) : todo'[n + k] = rest[k]
    <3>1. Len(listed) = n /\ todo' = listed \o rest
      BY <2>2 DEF n, rest
    <3>2. /\ todo' \in Seq(Entry) /\ Len(todo') = n + Len(rest)
          /\ \A k \in 1 .. n + Len(rest) :
                todo'[k] = IF k <= n THEN listed[k] ELSE rest[k - n]
      BY <2>5, <2>6, <3>1, ConcatProperties
    <3>3. Len(rest) \in Nat /\ DOMAIN todo' = 1 .. n + Len(rest)
      BY <2>5, <3>2, LenProperties
    <3>4. \A k \in 1 .. n : todo'[k] = listed[k]
      BY <2>3, <3>2, <3>3
    <3>5. ASSUME NEW k \in 1 .. Len(rest) PROVE todo'[n + k] = rest[k]
      <4>1. n + k \in 1 .. n + Len(rest) /\ ~(n + k <= n) /\ (n + k) - n = k
        BY <2>3, <3>3
      <4>2. todo'[n + k] = rest[(n + k) - n]
        BY <3>2, <4>1
      <4> QED BY <4>1, <4>2
    <3> QED BY <3>2, <3>3, <3>4, <3>5
  \* An entry of the new list is a child, or was in the list before.
  <2>8. ASSUME NEW k \in DOMAIN todo'
        PROVE  \/ k \in 1 .. n /\ todo'[k] = listed[k]
               \/ \E m \in DOMAIN todo : m # 1 /\ todo'[k] = todo[m] /\ m = k - n + 1
    <3>1. CASE k <= n
      BY <2>3, <2>7, <3>1
    <3>2. CASE ~(k <= n)
      <4>1. k - n \in 1 .. Len(rest) /\ n + (k - n) = k
        BY <2>3, <2>7, <3>2
      <4>2. todo'[k] = rest[k - n]
        BY <2>7, <4>1
      <4>3. rest[k - n] = todo[k - n + 1] /\ k - n + 1 \in DOMAIN todo /\ k - n + 1 # 1
        BY <2>5, <4>1
      <4> QED BY <4>2, <4>3
    <3> QED BY <3>1, <3>2
  \* What is beneath an entry of the new list is beneath one of the list before.
  <2>9. ASSUME NEW k \in DOMAIN todo', NEW q \in Seq(Name), C!IsPrefix(todo'[k].at, q)
        PROVE  \E m \in DOMAIN todo : C!IsPrefix(todo[m].at, q)
    <3>1. CASE k \in 1 .. n /\ todo'[k] = listed[k]
      <4>1. C!IsPrefix(C!Front(listed[k].at), q)
        BY <2>4, <2>9, <3>1, AroundChild
      <4> QED BY <1>1, <2>3, <3>1, <4>1
    <3>2. CASE \E m \in DOMAIN todo : todo'[k] = todo[m]
      BY <2>9, <3>2
    <3> QED BY <2>8, <3>1, <3>2
  <2>10. \A k \in DOMAIN todo : todo[k].at \in Seq(Name)
    <3>1. \A k \in DOMAIN todo : todo[k] \in Entry
      BY <1>0, ElementOfSeq, LenProperties DEF PcTypes
    <3> QED BY <3>1 DEF Entry
  <2>11. \A j, q, path : From(j, q, path)' <=> From(j, q, path)
    BY <2>1 DEF From, Below
  <2>12. \A q : C!Stays(q)' <=> C!Stays(q)
    BY <2>1 DEF C!Stays
  <2>13. PcTypes'
    <3>1. C!IsDisk(pcTree)'
      BY <1>0, <2>1 DEF PcTypes, C!IsDisk
    <3> QED BY <1>0, <1>1, <2>1, <2>7, <3>1 DEF PcTypes
  <2>14. Todo'
    <3>1. ASSUME NEW k \in DOMAIN todo'
          PROVE  /\ From(next - 1, todo'[k].at, todo'[k].path)
                 /\ C!Stays(todo'[k].at) =>
                      todo'[k].at \in DOMAIN pcTree /\ pcTree[todo'[k].at] = todo'[k].kind
      <4>1. CASE k \in 1 .. n /\ todo'[k] = listed[k]
        BY <2>3, <2>4, <4>1
      <4>2. CASE \E m \in DOMAIN todo : todo'[k] = todo[m]
        BY <1>0, <4>2 DEF Todo
      <4> QED BY <2>8, <4>1, <4>2
    <3>2. ASSUME NEW k \in DOMAIN todo', NEW m \in DOMAIN todo', k # m,
                 C!IsPrefix(todo'[k].at, todo'[m].at)
          PROVE  FALSE
      <4>1. CASE k \in 1 .. n /\ todo'[k] = listed[k] /\ m \in 1 .. n /\ todo'[m] = listed[m]
        <5>1. listed[k].at = listed[m].at
          BY <2>3, <2>4, <3>2, <4>1, AroundChild
        <5> QED BY <2>3, <3>2, <4>1, <5>1
      <4>2. ASSUME k \in 1 .. n, todo'[k] = listed[k], NEW l \in DOMAIN todo, l # 1,
                   todo'[m] = todo[l]
            PROVE  FALSE
        <5>1. C!IsPrefix(C!Front(listed[k].at), todo[l].at)
          BY <2>4, <2>10, <3>2, <4>2, AroundChild
        <5> QED BY <1>0, <1>1, <2>3, <4>2, <5>1 DEF Todo
      <4>3. ASSUME m \in 1 .. n, todo'[m] = listed[m], NEW l \in DOMAIN todo, l # 1,
                   todo'[k] = todo[l]
            PROVE  FALSE
        <5>1. todo[l].at = listed[m].at \/ C!IsPrefix(todo[l].at, e.at)
          BY <2>3, <2>4, <2>10, <3>2, <4>3, AroundChild
        <5>2. C!IsPrefix(e.at, listed[m].at)
          BY <2>3, <2>4, <4>3, FrontIs
        <5> QED BY <1>0, <1>1, <4>3, <5>1, <5>2 DEF Todo
      <4>4. ASSUME NEW l \in DOMAIN todo, todo'[k] = todo[l], l = k - n + 1,
                   NEW o \in DOMAIN todo, todo'[m] = todo[o], o = m - n + 1
            PROVE  FALSE
        <5>1. k \in Nat /\ m \in Nat
          BY <2>3, <2>7
        <5>2. l # o
          BY <2>3, <3>2, <4>4, <5>1
        <5> QED BY <1>0, <3>2, <4>4, <5>2 DEF Todo
      <4> QED BY <2>8, <4>1, <4>2, <4>3, <4>4
    <3> QED BY <1>2, <2>1, <2>11, <2>12, <3>1, <3>2 DEF Todo
  <2>15. Added'
    <3>1. ASSUME NEW k \in DOMAIN sources
          PROVE  \E j \in 1 .. next - 1 :
                      /\ From(j, sources[k].at, sources[k].path)
                      /\ j = next - 1 =>
                            \A m \in DOMAIN todo' : ~C!IsPrefix(todo'[m].at, sources[k].at)
      <4>1. PICK j \in 1 .. next - 1 :
                      /\ From(j, sources[k].at, sources[k].path)
                      /\ j = next - 1 =>
                            \A m \in DOMAIN todo : ~C!IsPrefix(todo[m].at, sources[k].at)
        BY <1>0 DEF Added
      <4>2. sources[k].at \in Seq(Name)
        BY <1>0, SourcesAre DEF Source
      <4> QED BY <2>9, <4>1, <4>2
    <3>2. /\ \A k \in DOMAIN sources : C!Stays(sources[k].at) =>
                 sources[k].at \in DOMAIN pcTree /\ pcTree[sources[k].at] = "file"
          /\ \A k, m \in DOMAIN sources : sources[k].path = sources[m].path => k = m
      BY <1>0 DEF Added
    <3> QED BY <2>1, <2>11, <2>12, <3>1, <3>2 DEF Added
  <2>16. Complete'
    <3> SUFFICES ASSUME NEW j \in 1 .. next - 1, NEW q \in DOMAIN pcTree,
                        pcTree[q] = "file", C!IsPrefix(chosen[j], q), C!Stays(q)
                 PROVE  IsAdded(j, q)'
                        \/ (j = next - 1 /\ \E k \in DOMAIN todo' : C!IsPrefix(todo'[k].at, q))
      BY <2>1, <2>12 DEF Complete
    <3>1. CASE IsAdded(j, q)
      BY <2>1, <3>1 DEF IsAdded, Below
    <3>2. CASE j = next - 1 /\ \E k \in DOMAIN todo : C!IsPrefix(todo[k].at, q)
      <4>1. PICK k \in DOMAIN todo : C!IsPrefix(todo[k].at, q)
        BY <3>2
      <4>2. CASE k = 1
        <5>1. q \in Seq(Name) /\ e.at # q
          BY <1>0, <2>1, TreePaths
        <5> DEFINE c == SubSeq(q, 1, Len(e.at) + 1)
        <5>2. /\ Len(e.at) + 1 \in 0 .. Len(q) /\ c # <<>> /\ C!Front(c) = e.at /\ C!IsPrefix(c, q)
          <6>1. /\ Len(q) \in Nat /\ Len(e.at) + 1 \in 1 .. Len(q) /\ c # <<>>
                /\ C!Front(c) = e.at /\ C!IsPrefix(c, q)
            BY <1>2, <4>1, <4>2, <5>1, NextName
          <6> QED BY <6>1
        <5>3. c \in DOMAIN pcTree
          BY <1>0, <5>2, WayThere DEF PcTypes
        <5> HIDE DEF c
        <5>4. PICK m \in 1 .. n : listed[m].at = c
          BY <2>3, <5>2, <5>3
        <5>5. m \in DOMAIN todo' /\ todo'[m].at = c
          BY <2>3, <2>7, <5>4
        <5> QED BY <3>2, <5>2, <5>5
      <4>3. CASE k # 1
        <5>1. k - 1 \in 1 .. Len(rest)
          <6>1. k \in 1 .. Len(todo)
            BY <1>0, <1>1, HeadIs
          <6> QED BY <2>5, <4>3, <6>1
        <5>2. todo'[n + (k - 1)] = todo[k] /\ n + (k - 1) \in DOMAIN todo'
          <6>1. n \in Nat /\ Len(rest) \in Nat
            BY <2>3, <2>7
          <6>2. k \in Nat
            BY <1>0, <1>1, HeadIs
          <6>5. (k - 1) + 1 = k /\ n + (k - 1) \in 1 .. n + Len(rest)
            BY <5>1, <6>1, <6>2
          <6>3. rest[k - 1] = todo[(k - 1) + 1]
            BY <2>5, <5>1
          <6>4. todo'[n + (k - 1)] = rest[k - 1]
            BY <2>7, <5>1
          <6> QED BY <2>7, <6>3, <6>4, <6>5
        <5> QED BY <3>2, <4>1, <5>2
      <4> QED BY <4>2, <4>3
    <3> QED BY <1>0, <3>1, <3>2 DEF Complete
  <2>17. Offered' /\ Reasons'
    BY <1>1, <2>1 DEF Offered, Reasons
  <2> QED BY <2>13, <2>14, <2>15, <2>16, <2>17 DEF PcInv
<1> QED BY <1>3, <1>4, <1>5

\* The same files, each one once, in whatever order.
LEMMA PermutedIs ==
    ASSUME PcTypes, Added, NEW s \in C!SetToSeqs(C!Range(sources))
    PROVE  /\ s \in Seq(Source)
           /\ \A k \in DOMAIN s : \E m \in DOMAIN sources : s[k] = sources[m]
           /\ \A m \in DOMAIN sources : \E k \in DOMAIN s : s[k] = sources[m]
           /\ \A j, k \in DOMAIN s : s[j].path = s[k].path => j = k
<1> DEFINE S == C!Range(sources)
           N == C!Cardinality(S)
<1>2. /\ Len(sources) \in Nat /\ DOMAIN sources = 1 .. Len(sources)
      /\ \A k \in DOMAIN sources : sources[k] \in Source
  BY SourcesAre
<1>3. S = {sources[k] : k \in DOMAIN sources} /\ S \subseteq Source
  BY <1>2 DEF C!Range
<1>4. N \in Nat /\ IsFiniteSet(S)
  <2>1. IsFiniteSet(1 .. Len(sources))
    BY <1>2, FS_Interval
  <2>2. sources \in Surjection(1 .. Len(sources), S)
    <3>1. sources = [k \in 1 .. Len(sources) |-> sources[k]]
      <4>1. sources \in Seq(Source)
        BY DEF PcTypes
      <4> QED BY <1>2, <4>1
    <3>2. sources \in [1 .. Len(sources) -> S]
      BY <1>2, <1>3, <3>1
    <3> QED BY <1>2, <1>3, <3>2 DEF Surjection
  <2>3. IsFiniteSet(S)
    BY <2>1, <2>2, FS_Surjection
  <2>4. Cardinality(S) \in Nat
    BY <2>3, FS_CardinalityType
  <2>5. N = Cardinality(S)
    BY DEF C!Cardinality, Cardinality
  <2> QED BY <2>3, <2>4, <2>5
<1>0. /\ s \in [1 .. N -> S] /\ C!Range(s) = S
      /\ \A j, k \in DOMAIN s : s[j] = s[k] => j = k
  BY <1>4, EachOnce
<1> HIDE DEF S, N
<1>5. s \in Seq(Source)
  <2>1. s \in [1 .. N -> Source]
    BY <1>0, <1>3
  <2> QED BY <1>4, <2>1, SeqDef
<1>6. DOMAIN s = 1 .. N /\ \A k \in DOMAIN s : s[k] \in Source
  BY <1>0, <1>3
<1>7. ASSUME NEW j \in DOMAIN s, NEW k \in DOMAIN s, s[j].path = s[k].path PROVE j = k
  <2>1. PICK l \in DOMAIN sources : s[j] = sources[l]
    BY <1>0, <1>3
  <2>2. PICK m \in DOMAIN sources : s[k] = sources[m]
    BY <1>0, <1>3
  <2>3. s[j] = s[k]
    BY <1>7, <2>1, <2>2 DEF Added
  <2> QED BY <1>0, <2>3
<1>8. C!Range(s) = {s[k] : k \in DOMAIN s}
  BY DEF C!Range
<1>9. \A k \in DOMAIN s : \E m \in DOMAIN sources : s[k] = sources[m]
  BY <1>0, <1>3
<1>10. \A m \in DOMAIN sources : \E k \in DOMAIN s : s[k] = sources[m]
  BY <1>0, <1>3, <1>8
<1>11. \A j, k \in DOMAIN s : s[j].path = s[k].path => j = k
  BY <1>7
<1> QED BY <1>5, <1>9, <1>10, <1>11

\* Every input has been walked through.
LEMMA CollectedInv ==
    ASSUME PcInv, C!Collected
    PROVE  PcInv'
<1>0. PcTypes /\ Todo /\ Added /\ Complete /\ Offered /\ Reasons
  BY DEF PcInv
<1>1. pcAt = "collect" /\ todo = <<>> /\ next > Len(chosen)
  BY DEF C!Collected
<1>2. DOMAIN todo = {} /\ next = Len(chosen) + 1
  BY <1>0, <1>1, Inputs DEF PcTypes
<1>3. CASE sources = <<>>
  <2>1. C!Fail
    BY <1>3 DEF C!Collected
  <2>2. C!Faulty
    <3> SUFFICES ASSUME NEW i \in C!Range(chosen), NEW x \in C!Expected(i)
                 PROVE  FALSE
      BY DEF C!Faulty
    <3>1. PICK j \in DOMAIN chosen : i = chosen[j]
      BY DEF C!Range
    <3>2. PICK p \in C!Beneath(i, {"file"}) : C!Stays(p)
      BY DEF C!Expected
    <3>3. p \in DOMAIN pcTree /\ pcTree[p] = "file" /\ C!IsPrefix(chosen[j], p)
      BY <3>1, <3>2 DEF C!Beneath
    <3>4. j \in 1 .. next - 1
      BY <1>0, <1>2, <3>1, Inputs
    <3>5. IsAdded(j, p)
      BY <1>0, <1>2, <3>2, <3>3, <3>4 DEF Complete
    <3> QED BY <1>3, <3>5 DEF IsAdded
  <2> QED BY <2>1, <2>2, FailInv
<1>4. CASE sources # <<>>
  <2>1. /\ pcAt' = "offer"
        /\ sources' \in C!SetToSeqs(C!Range(sources))
        /\ UNCHANGED <<pcTree, chosen, next, todo, wanted, touched, unread, pcEdits>>
    BY <1>4 DEF C!Collected
  <2>2. /\ sources' \in Seq(Source)
        /\ \A k \in DOMAIN sources' : \E m \in DOMAIN sources : sources'[k] = sources[m]
        /\ \A m \in DOMAIN sources : \E k \in DOMAIN sources' : sources'[k] = sources[m]
        /\ \A j, k \in DOMAIN sources' : sources'[j].path = sources'[k].path => j = k
    BY <1>0, <2>1, PermutedIs
  <2>3. \A j, q, path : From(j, q, path)' <=> From(j, q, path)
    BY <2>1 DEF From, Below
  <2>4. \A q : C!Stays(q)' <=> C!Stays(q)
    BY <2>1 DEF C!Stays
  <2>5. PcTypes'
    <3>1. C!IsDisk(pcTree)'
      BY <1>0, <2>1 DEF PcTypes, C!IsDisk
    <3> QED BY <1>0, <1>1, <1>2, <2>1, <2>2, <3>1 DEF PcTypes
  <2>6. Todo'
    BY <1>2, <2>1 DEF Todo
  <2>7. Added'
    <3>1. ASSUME NEW k \in DOMAIN sources'
          PROVE  /\ \E j \in 1 .. next - 1 : From(j, sources'[k].at, sources'[k].path)
                 /\ C!Stays(sources'[k].at) =>
                       sources'[k].at \in DOMAIN pcTree /\ pcTree[sources'[k].at] = "file"
      <4>1. PICK m \in DOMAIN sources : sources'[k] = sources[m]
        BY <2>2
      <4> QED BY <1>0, <4>1 DEF Added
    <3> QED BY <1>2, <2>1, <2>2, <2>3, <2>4, <3>1 DEF Added
  <2>8. Complete'
    <3> SUFFICES ASSUME NEW j \in 1 .. next - 1, NEW q \in DOMAIN pcTree,
                        pcTree[q] = "file", C!IsPrefix(chosen[j], q), C!Stays(q)
                 PROVE  IsAdded(j, q)'
      BY <2>1, <2>4 DEF Complete
    <3>1. IsAdded(j, q)
      BY <1>0, <1>2 DEF Complete
    <3>2. PICK m \in DOMAIN sources : sources[m].at = q /\ sources[m].path = Below(chosen[j], q)
      BY <3>1 DEF IsAdded
    <3>3. PICK k \in DOMAIN sources' : sources'[k] = sources[m]
      BY <2>2
    <3> QED BY <2>1, <3>2, <3>3 DEF IsAdded, Below
  <2>9. Offered' /\ Reasons'
    BY <2>1 DEF Offered, Reasons
  <2> QED BY <2>5, <2>6, <2>7, <2>8, <2>9 DEF PcInv
<1> QED BY <1>3, <1>4

\* The offer can be sent, or the selection is at fault.
LEMMA EncodeOfferInv ==
    ASSUME PcInv, C!EncodeOffer
    PROVE  PcInv'
<1>0. PcTypes /\ Todo /\ Added /\ Complete /\ Offered /\ Reasons
  BY DEF PcInv
<1>1. pcAt = "offer"
  BY DEF C!EncodeOffer
<1>2. CASE ~C!CanBeSent
  <2>1. C!Fail
    BY <1>2 DEF C!EncodeOffer
  <2>2. ASSUME touched = {} PROVE C!Faulty
    <3>1. PICK k \in DOMAIN sources : C!Range(sources[k].path) \cap Unsendable # {}
      BY <1>2 DEF C!CanBeSent
    <3>2. PICK j \in 1 .. next - 1 :
              /\ chosen[j] \in C!Range(chosen)
              /\ [at |-> sources[k].at, path |-> sources[k].path] \in C!Expected(chosen[j])
      BY <2>2, SourceExpected
    <3>3. [at |-> sources[k].at, path |-> sources[k].path].path = sources[k].path
      OBVIOUS
    <3> QED BY <3>1, <3>2, <3>3 DEF C!Faulty
  <2> QED BY <2>1, <2>2, FailInv
<1>4. CASE ~(C!TotalFits /\ C!FewEnough /\ C!FitsFrame)
  <2>1. C!Fail /\ C!Faulty
    BY <1>4 DEF C!EncodeOffer, C!Faulty
  <2> QED BY <2>1, FailInv
<1>3. CASE C!TotalFits /\ C!FewEnough /\ C!CanBeSent /\ C!FitsFrame
  <2>1. /\ pcAt' = "sent"
        /\ wanted' = [k \in DOMAIN sources |-> C!Encoded(sources[k].path)]
        /\ UNCHANGED <<pcTree, chosen, next, todo, sources, touched, unread, pcEdits>>
    BY <1>3 DEF C!EncodeOffer
  <2>2. \A k \in DOMAIN sources : sources[k].path \in Seq(Name) /\ sources[k].path # <<>>
    <3> SUFFICES ASSUME NEW k \in DOMAIN sources
                 PROVE  sources[k].path \in Seq(Name) /\ sources[k].path # <<>>
      OBVIOUS
    <3>1. sources[k].path \in Seq(Name) /\ sources[k].at \in Seq(Name)
      BY <1>0, SourcesAre DEF Source
    <3>2. PICK j \in 1 .. next - 1 : From(j, sources[k].at, sources[k].path)
      BY <1>0 DEF Added
    <3>3. chosen[j] \in Seq(Name)
      BY <1>0, Inputs
    <3>4. sources[k].path # <<>>
      BY <3>1, <3>2, <3>3, BelowIs DEF From
    <3> QED BY <3>1, <3>4
  <2>3. /\ Len(sources) \in Nat /\ DOMAIN sources = 1 .. Len(sources)
        /\ wanted' \in Seq(Seq(STRING))
    <3>1. Len(sources) \in Nat /\ DOMAIN sources = 1 .. Len(sources)
      BY <1>0, SourcesAre
    <3>2. \A k \in DOMAIN sources : C!Encoded(sources[k].path) \in Seq(STRING)
      BY <2>2, EncodedType
    <3>3. wanted' \in [1 .. Len(sources) -> Seq(STRING)]
      BY <2>1, <3>1, <3>2
    <3> QED BY <3>1, <3>3, SeqDef
  <2>4. Len(wanted') = Len(sources)
    <3> DEFINE m == Len(wanted')
               n == Len(sources)
    <3>1. m \in Nat /\ DOMAIN wanted' = 1 .. m
      BY <2>3, LenProperties
    <3>2. DOMAIN wanted' = 1 .. n /\ n \in Nat
      BY <2>1, <2>3
    <3>3. 1 .. m = 1 .. n /\ m \in Nat /\ n \in Nat
      BY <3>1, <3>2
    <3> HIDE DEF m, n
    <3>4. m = n
      BY <3>3
    <3> QED BY <3>4 DEF m, n
  <2>5. \A p : C!Encoded(p)' = C!Encoded(p)
    BY DEF C!Encoded
  <2>6. PcTypes'
    <3>1. C!IsDisk(pcTree)'
      BY <1>0, <2>1 DEF PcTypes, C!IsDisk
    <3> QED BY <1>0, <1>1, <2>1, <3>1 DEF PcTypes
  <2>7. Todo'
    <3>1. \A q : C!Stays(q)' <=> C!Stays(q)
      BY <2>1 DEF C!Stays
    <3>2. \A j, q, path : From(j, q, path)' <=> From(j, q, path)
      BY <2>1 DEF From, Below
    <3> QED BY <1>0, <2>1, <3>1, <3>2 DEF Todo
  <2>8. Added'
    <3>1. \A q : C!Stays(q)' <=> C!Stays(q)
      BY <2>1 DEF C!Stays
    <3>2. \A j, q, path : From(j, q, path)' <=> From(j, q, path)
      BY <2>1 DEF From, Below
    <3> QED BY <1>0, <2>1, <3>1, <3>2 DEF Added
  <2>9. Complete'
    <3>1. \A q : C!Stays(q)' <=> C!Stays(q)
      BY <2>1 DEF C!Stays
    <3>2. \A j, q : IsAdded(j, q)' <=> IsAdded(j, q)
      BY <2>1 DEF IsAdded, Below
    <3> QED BY <1>0, <2>1, <3>1, <3>2 DEF Complete
  <2>10. Offered'
    BY <2>1, <2>3, <2>4, <2>5 DEF Offered
  <2>11. Reasons'
    BY <2>1 DEF Reasons
  <2> QED BY <2>6, <2>7, <2>8, <2>9, <2>10, <2>11 DEF PcInv
<1> QED BY <1>2, <1>3, <1>4

\* The Deck takes the paths, or the selection is at fault.
LEMMA DecodeOfferInv ==
    ASSUME PcInv, C!DecodeOffer
    PROVE  PcInv'
<1>0. PcTypes /\ Todo /\ Added /\ Complete /\ Offered /\ Reasons
  BY DEF PcInv
<1>1. pcAt = "sent"
  BY DEF C!DecodeOffer
<1>2. CASE \E k \in DOMAIN wanted : ~C!Accepted(wanted[k])
  <2>1. C!Fail
    BY <1>2 DEF C!DecodeOffer
  <2>2. ASSUME touched = {} PROVE C!Faulty
    <3>1. CASE chosen = <<>> /\ Len(wanted) <= 1
      <4>1. C!Range(chosen) = {}
        BY <3>1 DEF C!Range
      <4> QED BY <4>1 DEF C!Faulty
    <3>2. CASE ~(chosen = <<>> /\ Len(wanted) <= 1)
      <4>1. /\ wanted \in Seq(Seq(STRING)) /\ Len(wanted) = Len(sources)
            /\ \A k \in DOMAIN sources : wanted[k] = C!Encoded(sources[k].path)
        BY <1>0, <1>1, <3>2 DEF Offered
      <4>2. DOMAIN wanted = DOMAIN sources
        BY <1>0, <4>1, SourcesAre, LenProperties
      <4>3. PICK k \in DOMAIN sources : ~C!Accepted(C!Encoded(sources[k].path))
        BY <1>2, <4>1, <4>2
      <4>4. PICK j \in 1 .. next - 1 :
                /\ chosen[j] \in C!Range(chosen)
                /\ [at |-> sources[k].at, path |-> sources[k].path] \in C!Expected(chosen[j])
        BY <2>2, SourceExpected
      <4>5. [at |-> sources[k].at, path |-> sources[k].path].path = sources[k].path
        OBVIOUS
      <4> QED BY <4>3, <4>4, <4>5 DEF C!Faulty
    <3> QED BY <3>1, <3>2
  <2> QED BY <2>1, <2>2, FailInv
<1>4. CASE Len(wanted) > MaxFiles
  <2>1. C!Fail
    BY <1>4 DEF C!DecodeOffer
  <2>2. C!Faulty
    <3>1. CASE chosen = <<>> /\ Len(wanted) <= 1
      <4>1. C!Range(chosen) = {}
        BY <3>1 DEF C!Range
      <4> QED BY <4>1 DEF C!Faulty
    <3>2. CASE ~(chosen = <<>> /\ Len(wanted) <= 1)
      <4>1. wanted \in Seq(Seq(STRING)) /\ Len(wanted) = Len(sources)
        BY <1>0, <1>1, <3>2 DEF Offered
      <4>2. Len(wanted) \in Nat /\ MaxFiles \in Nat
        BY <4>1, LenProperties, CopyAssumption
      <4>3. ~C!FewEnough
        BY <1>4, <4>1, <4>2 DEF C!FewEnough
      <4> QED BY <4>3 DEF C!Faulty
    <3> QED BY <3>1, <3>2
  <2> QED BY <2>1, <2>2, FailInv
<1>3. CASE ~(Len(wanted) > MaxFiles \/ \E k \in DOMAIN wanted : ~C!Accepted(wanted[k]))
  <2>1. /\ pcAt' = "taken"
        /\ wanted' = [k \in DOMAIN wanted |-> Normalized(wanted[k])]
        /\ UNCHANGED <<pcTree, chosen, next, todo, sources, touched, unread, pcEdits>>
    BY <1>3 DEF C!DecodeOffer, C!Normalized, Normalized
  <2>2. wanted \in Seq(Seq(STRING))
    BY <1>0, <1>1 DEF Offered
  <2> DEFINE n == Len(wanted)
             m == Len(wanted')
  <2>3. n \in Nat /\ DOMAIN wanted = 1 .. n /\ \A k \in 1 .. n : wanted[k] \in Seq(STRING)
    BY <2>2, LenProperties, ElementOfSeq
  <2>4. wanted' \in Seq(Seq(STRING))
    <3>1. \A k \in 1 .. n : Normalized(wanted[k]) \in Seq(STRING)
      BY <2>3, NormalizedWords
    <3>2. wanted' \in [1 .. n -> Seq(STRING)]
      BY <2>1, <2>3, <3>1
    <3> HIDE DEF n
    <3> QED BY <2>3, <3>2, SeqDef
  <2>5. m = n
    <3>1. m \in Nat /\ DOMAIN wanted' = 1 .. m
      BY <2>4, LenProperties
    <3>2. 1 .. m = 1 .. n /\ m \in Nat /\ n \in Nat
      BY <2>1, <2>3, <3>1
    <3> HIDE DEF m, n
    <3> QED BY <3>2
  <2>6. \A q : C!Stays(q)' <=> C!Stays(q)
    BY <2>1 DEF C!Stays
  <2>7. \A j, q, path : From(j, q, path)' <=> From(j, q, path)
    BY <2>1 DEF From, Below
  <2>8. PcTypes'
    <3>1. C!IsDisk(pcTree)'
      BY <1>0, <2>1 DEF PcTypes, C!IsDisk
    <3> QED BY <1>0, <1>1, <2>1, <3>1 DEF PcTypes
  <2>9. Todo'
    BY <1>0, <2>1, <2>6, <2>7 DEF Todo
  <2>10. Added'
    BY <1>0, <2>1, <2>6, <2>7 DEF Added
  <2>11. Complete'
    <3>1. \A j, q : IsAdded(j, q)' <=> IsAdded(j, q)
      BY <2>1 DEF IsAdded, Below
    <3> QED BY <1>0, <2>1, <2>6, <3>1 DEF Complete
  <2>12. Offered'
    <3>1. CASE chosen = <<>> /\ Len(wanted) <= 1
      <4>1. Len(wanted') <= 1
        BY <2>5, <3>1
      <4> QED BY <2>1, <2>4, <4>1 DEF Offered
    <3>2. CASE ~(chosen = <<>> /\ Len(wanted) <= 1)
      <4>1. /\ Len(wanted) = Len(sources)
            /\ \A k \in DOMAIN sources : wanted[k] = C!Encoded(sources[k].path)
        BY <1>0, <1>1, <3>2 DEF Offered
      <4>2. DOMAIN wanted = DOMAIN sources
        BY <1>0, <2>3, <4>1, SourcesAre
      <4>3. \A k \in DOMAIN sources : wanted'[k] = Normalized(C!Encoded(sources[k].path))
        BY <2>1, <4>1, <4>2
      <4>4. \A p : C!Encoded(p)' = C!Encoded(p) /\ Normalized(p)' = Normalized(p)
        BY DEF C!Encoded, Normalized
      <4> QED BY <2>1, <2>4, <2>5, <4>1, <4>3, <4>4 DEF Offered
    <3> QED BY <3>1, <3>2
  <2>13. Reasons'
    BY <2>1 DEF Reasons
  <2> QED BY <2>8, <2>9, <2>10, <2>11, <2>12, <2>13 DEF PcInv
<1> QED BY <1>2, <1>3, <1>4

\* What happens at p and beneath it is of no file that stays.
LEMMA EditInv ==
    ASSUME PcInv, NEW p \in Seq(Name), C!Edit(p), C!IsDisk(pcTree)',
           \A q \in Seq(Name) : ~C!IsPrefix(p, q) =>
               /\ q \in DOMAIN pcTree' <=> q \in DOMAIN pcTree
               /\ q \in DOMAIN pcTree => pcTree'[q] = pcTree[q]
    PROVE  PcInv'
<1>0. PcTypes /\ Todo /\ Added /\ Complete /\ Offered /\ Reasons
  BY DEF PcInv
<1>1. /\ pcEdits < MaxPcEdits /\ pcEdits' = pcEdits + 1 /\ touched' = touched \cup {p}
      /\ UNCHANGED <<chosen, next, todo, sources, pcAt, wanted, unread>>
  BY DEF C!Edit
<1>2. \A q : (\A t \in touched' : ~C!IsPrefix(t, q)) => C!Stays(q) /\ ~C!IsPrefix(p, q)
  BY <1>1 DEF C!Stays
<1>3. \A j, q, path : From(j, q, path)' <=> From(j, q, path)
  BY <1>1 DEF From, Below
<1>4. PcTypes'
  <2>1. touched' \subseteq Seq(Name)
    BY <1>0, <1>1 DEF PcTypes
  <2>2. pcEdits' \in 0 .. MaxPcEdits
    <3>1. MaxPcEdits \in Nat
      BY CopyAssumption
    <3> QED BY <1>0, <1>1, <3>1 DEF PcTypes
  <2> QED BY <1>0, <1>1, <2>1, <2>2 DEF PcTypes
<1>5. Todo'
  <2>1. ASSUME NEW k \in DOMAIN todo, \A t \in touched' : ~C!IsPrefix(t, todo[k].at)
        PROVE  todo[k].at \in DOMAIN pcTree' /\ pcTree'[todo[k].at] = todo[k].kind
    <3>1. C!Stays(todo[k].at) /\ ~C!IsPrefix(p, todo[k].at)
      BY <1>2, <2>1
    <3>2. todo[k].at \in DOMAIN pcTree /\ pcTree[todo[k].at] = todo[k].kind
      BY <1>0, <3>1 DEF Todo
    <3> QED BY <1>0, <3>1, <3>2, TreePaths
  <2> QED BY <1>0, <1>1, <1>3, <2>1 DEF Todo, C!Stays
<1>6. Added'
  <2>1. ASSUME NEW k \in DOMAIN sources, \A t \in touched' : ~C!IsPrefix(t, sources[k].at)
        PROVE  sources[k].at \in DOMAIN pcTree' /\ pcTree'[sources[k].at] = "file"
    <3>1. C!Stays(sources[k].at) /\ ~C!IsPrefix(p, sources[k].at)
      BY <1>2, <2>1
    <3>2. sources[k].at \in DOMAIN pcTree /\ pcTree[sources[k].at] = "file"
      BY <1>0, <3>1 DEF Added
    <3> QED BY <1>0, <3>1, <3>2, TreePaths
  <2> QED BY <1>0, <1>1, <1>3, <2>1 DEF Added, C!Stays
<1>7. Complete'
  <2> SUFFICES ASSUME NEW j \in 1 .. next - 1, NEW q \in DOMAIN pcTree',
                      pcTree'[q] = "file", C!IsPrefix(chosen[j], q),
                      \A t \in touched' : ~C!IsPrefix(t, q)
               PROVE  IsAdded(j, q)'
                      \/ (j = next - 1 /\ \E k \in DOMAIN todo : C!IsPrefix(todo[k].at, q))
    BY <1>1 DEF Complete, C!Stays
  <2>1. C!Stays(q) /\ ~C!IsPrefix(p, q)
    BY <1>2
  <2>2. q \in Seq(Name)
    BY DEF C!IsDisk, Name
  <2>3. q \in DOMAIN pcTree /\ pcTree[q] = "file"
    BY <2>1, <2>2
  <2>4. IsAdded(j, q) \/ (j = next - 1 /\ \E k \in DOMAIN todo : C!IsPrefix(todo[k].at, q))
    BY <1>0, <2>1, <2>3 DEF Complete
  <2>5. IsAdded(j, q) => IsAdded(j, q)'
    BY <1>1 DEF IsAdded, Below
  <2> QED BY <2>4, <2>5
<1>8. Offered' /\ Reasons'
  <2>1. \A q : C!Encoded(q)' = C!Encoded(q) /\ Normalized(q)' = Normalized(q)
    BY DEF C!Encoded, Normalized
  <2>2. touched' # {}
    BY <1>1
  <2> QED BY <1>0, <1>1, <2>1, <2>2 DEF Offered, Reasons
<1> QED BY <1>4, <1>5, <1>6, <1>7, <1>8 DEF PcInv

\* What is new is in a folder.
LEMMA CreateInv ==
    ASSUME PcInv, NEW d \in DOMAIN pcTree, NEW n \in Fresh, NEW kind \in {"dir", "file"},
           pcTree[d] = "dir", C!Create(Append(d, n), kind)
    PROVE  PcInv'
<1> DEFINE p == Append(d, n)
<1>0. PcTypes /\ C!IsDisk(pcTree)
  BY DEF PcInv, PcTypes
<1>1. /\ C!Edit(p) /\ p \notin DOMAIN pcTree
      /\ pcTree' = [q \in DOMAIN pcTree \cup {p} |-> IF q = p THEN kind ELSE pcTree[q]]
  BY DEF C!Create
<1>2. d \in Seq(Name) /\ n \in Name
  BY <1>0, TreePaths, CopyAssumption DEF Name
<1>3. p \in Seq(Name) /\ p # <<>> /\ Len(p) = Len(d) + 1 /\ \A k \in 1 .. Len(d) : p[k] = d[k]
  <2>1. p \in Seq(Name) /\ Len(p) = Len(d) + 1 /\ \A k \in 1 .. Len(d) : p[k] = d[k]
    BY <1>2, AppendProperties
  <2>2. Len(d) \in Nat
    BY <1>2, LenProperties
  <2> HIDE DEF p
  <2>3. p # <<>>
    BY <2>1, <2>2, EmptySeq
  <2> QED BY <2>1, <2>3
<1> HIDE DEF p
<1>4. C!Front(p) = d
  <2>1. /\ Len(p) \in Nat /\ C!Front(p) \in Seq(Name) /\ Len(C!Front(p)) = Len(p) - 1
        /\ \A k \in 1 .. Len(p) - 1 : C!Front(p)[k] = p[k]
    BY <1>3, FrontIs
  <2>2. Len(d) \in Nat /\ Len(C!Front(p)) = Len(d) /\ \A k \in 1 .. Len(d) : C!Front(p)[k] = d[k]
    BY <1>2, <1>3, <2>1, LenProperties
  <2> QED BY <1>2, <2>1, <2>2, SeqEqual
<1>5. C!IsDisk(pcTree)'
  <2>1. DOMAIN pcTree' = DOMAIN pcTree \cup {p}
    BY <1>1
  <2>2. C!IsFiniteSet(DOMAIN pcTree')
    <3>1. IsFiniteSet(DOMAIN pcTree)
      BY <1>0 DEF C!IsDisk, C!IsFiniteSet, IsFiniteSet
    <3>2. IsFiniteSet(DOMAIN pcTree')
      BY <2>1, <3>1, FS_AddElement
    <3> QED BY <3>2 DEF C!IsFiniteSet, IsFiniteSet
  <2>3. ASSUME NEW q \in DOMAIN pcTree'
        PROVE  /\ q \in Seq(Name) /\ pcTree'[q] \in Kind
               /\ q # <<>> => C!Front(q) \in DOMAIN pcTree' /\ pcTree'[C!Front(q)] = "dir"
    <3>1. CASE q = p
      <4>1. d # p /\ pcTree'[d] = "dir" /\ d \in DOMAIN pcTree' /\ pcTree'[q] = kind
        BY <1>1, <3>1
      <4> QED BY <1>3, <1>4, <3>1, <4>1 DEF Kind
    <3>2. CASE q # p
      <4>1. q \in DOMAIN pcTree /\ pcTree'[q] = pcTree[q]
        BY <1>1, <2>1, <3>2
      <4>2. /\ q \in Seq(Name) /\ pcTree[q] \in Kind
            /\ q # <<>> => C!Front(q) \in DOMAIN pcTree /\ pcTree[C!Front(q)] = "dir"
        BY <1>0, <4>1 DEF C!IsDisk, Name, Kind
      <4>3. ASSUME q # <<>> PROVE C!Front(q) \in DOMAIN pcTree' /\ pcTree'[C!Front(q)] = "dir"
        BY <1>1, <4>2, <4>3
      <4> QED BY <4>1, <4>2, <4>3
    <3> QED BY <3>1, <3>2
  <2> QED BY <2>2, <2>3 DEF C!IsDisk, Name, Kind
<1>6. ASSUME NEW q \in Seq(Name), ~C!IsPrefix(p, q)
      PROVE  /\ q \in DOMAIN pcTree' <=> q \in DOMAIN pcTree
             /\ q \in DOMAIN pcTree => pcTree'[q] = pcTree[q]
  <2>1. q # p
    BY <1>3, <1>6, PrefixOfItself
  <2> QED BY <1>1, <2>1
<1> QED BY <1>1, <1>3, <1>5, <1>6, EditInv

\* With what is deleted goes what is beneath it.
LEMMA DeleteInv ==
    ASSUME PcInv, NEW p \in DOMAIN pcTree, C!Delete(p)
    PROVE  PcInv'
<1>0. PcTypes /\ C!IsDisk(pcTree)
  BY DEF PcInv, PcTypes
<1>1. /\ C!Edit(p)
      /\ pcTree' = [q \in {q \in DOMAIN pcTree : ~C!IsPrefix(p, q)} |-> pcTree[q]]
  BY DEF C!Delete
<1>2. p \in Seq(Name)
  BY <1>0, TreePaths
<1>3. /\ DOMAIN pcTree' = {q \in DOMAIN pcTree : ~C!IsPrefix(p, q)}
      /\ \A q \in DOMAIN pcTree' : pcTree'[q] = pcTree[q]
  BY <1>1
<1>4. C!IsDisk(pcTree)'
  <2>1. C!IsFiniteSet(DOMAIN pcTree')
    <3>1. IsFiniteSet(DOMAIN pcTree)
      BY <1>0 DEF C!IsDisk, C!IsFiniteSet, IsFiniteSet
    <3>2. IsFiniteSet(DOMAIN pcTree')
      <4>1. DOMAIN pcTree' \subseteq DOMAIN pcTree
        BY <1>3
      <4> QED BY <3>1, <4>1, FS_Subset
    <3> QED BY <3>2 DEF C!IsFiniteSet, IsFiniteSet
  <2>2. ASSUME NEW q \in DOMAIN pcTree'
        PROVE  /\ q \in Seq(Name) /\ pcTree'[q] \in Kind
               /\ q # <<>> => C!Front(q) \in DOMAIN pcTree' /\ pcTree'[C!Front(q)] = "dir"
    <3>1. q \in DOMAIN pcTree /\ ~C!IsPrefix(p, q) /\ pcTree'[q] = pcTree[q]
      BY <1>3
    <3>2. /\ q \in Seq(Name) /\ pcTree[q] \in Kind
          /\ q # <<>> => C!Front(q) \in DOMAIN pcTree /\ pcTree[C!Front(q)] = "dir"
      BY <1>0, <3>1 DEF C!IsDisk, Name, Kind
    <3>3. ASSUME q # <<>> PROVE C!Front(q) \in DOMAIN pcTree' /\ pcTree'[C!Front(q)] = "dir"
      <4>1. C!Front(q) \in Seq(Name) /\ C!IsPrefix(C!Front(q), q)
        BY <3>2, <3>3, FrontIs
      <4>2. ~C!IsPrefix(p, C!Front(q))
        BY <1>2, <3>1, <3>2, <4>1, PrefixOfPrefix
      <4> QED BY <1>3, <3>2, <3>3, <4>2
    <3> QED BY <3>1, <3>2, <3>3
  <2> QED BY <2>1, <2>2 DEF C!IsDisk, Name, Kind
<1>5. ASSUME NEW q \in Seq(Name), ~C!IsPrefix(p, q)
      PROVE  /\ q \in DOMAIN pcTree' <=> q \in DOMAIN pcTree
             /\ q \in DOMAIN pcTree => pcTree'[q] = pcTree[q]
  BY <1>3, <1>5
<1> QED BY <1>1, <1>2, <1>4, <1>5, EditInv

\* A step at the PC keeps the invariant.
LEMMA PcStepInv ==
    ASSUME PcInv, C!Next
    PROVE  PcInv'
<1>1. CASE C!Finished
  BY <1>1, PcUnchanged DEF C!Finished, C!vars, pcVars
<1>2. CASE C!Walk
  BY <1>2, TakeInputInv, RefuseEntryInv, EnterDirectoryInv, AddSourceInv, CollectedInv,
     EncodeOfferInv, DecodeOfferInv DEF C!Walk
<1>3. CASE \E d \in DOMAIN pcTree, n \in Fresh, kind \in {"dir", "file"} :
             pcTree[d] = "dir" /\ C!Create(Append(d, n), kind)
  BY <1>3, CreateInv
<1>4. CASE \E p \in DOMAIN pcTree \ {<<>>} : C!Delete(p)
  BY <1>4, DeleteInv
<1> QED BY <1>1, <1>2, <1>3, <1>4 DEF C!Next

\* Before any input is taken there is nothing to do and nothing done.
LEMMA NoInputs ==
    ASSUME PcInv, chosen = <<>>
    PROVE  todo = <<>> /\ next = 1 /\ sources = <<>>
<1>1. PcTypes /\ Todo /\ Added
  BY DEF PcInv
<1>2. next = 1
  <2>1. Len(chosen) = 0
    BY EmptySeq
  <2> QED BY <1>1, <2>1 DEF PcTypes
<1>3. \A s, T : s \in Seq(T) /\ DOMAIN s = {} => s = <<>>
  <2> SUFFICES ASSUME NEW T, NEW s \in Seq(T), DOMAIN s = {} PROVE s = <<>>
    OBVIOUS
  <2> DEFINE l == Len(s)
  <2>1. l \in Nat /\ 1 .. l = {}
    BY LenProperties
  <2> HIDE DEF l
  <2>2. l = 0
    BY <2>1
  <2> QED BY <2>2, EmptySeq DEF l
<1>4. todo = <<>>
  <2>1. DOMAIN todo = {}
    BY <1>1, <1>2 DEF Todo
  <2> QED BY <1>1, <1>3, <2>1 DEF PcTypes
<1>5. sources = <<>>
  <2>1. DOMAIN sources = {}
    BY <1>1, <1>2 DEF Added
  <2> QED BY <1>1, <1>3, <2>1 DEF PcTypes
<1> QED BY <1>2, <1>4, <1>5

\* Nothing is a tree.
LEMMA NoTreeIs == C!IsDisk(NoTree)
<1>1. /\ DOMAIN NoTree = {<<>>} /\ NoTree[<<>>] = "dir"
  BY DEF NoTree
<1>2. C!IsFiniteSet(DOMAIN NoTree)
  <2>1. IsFiniteSet(DOMAIN NoTree)
    BY <1>1, FS_Singleton
  <2> QED BY <2>1 DEF C!IsFiniteSet, IsFiniteSet
<1>3. <<>> \in Seq(DOMAIN Rank)
  BY EmptySeq
<1> QED BY <1>1, <1>2, <1>3 DEF C!IsDisk

\* Where no input was chosen the invariant says little.
LEMMA NothingChosen ==
    ASSUME C!IsDisk(pcTree)', chosen' = <<>>, next' = 1, todo' = <<>>, sources' = <<>>,
           touched' = {}, pcEdits' \in 0 .. MaxPcEdits,
           pcAt' \in {"sent", "taken"}, wanted' \in Seq(Seq(STRING)), Len(wanted') <= 1
    PROVE  PcInv'
<1>1. DOMAIN todo' = {} /\ DOMAIN sources' = {} /\ Len(chosen') = 0
  BY EmptySeq
<1>2. PcTypes'
  <2>1. chosen' \in Seq(Seq(Name)) /\ todo' \in Seq(Entry) /\ sources' \in Seq(Source)
    BY EmptySeq
  <2> QED BY <1>1, <2>1 DEF PcTypes
<1>3. Todo' /\ Added'
  BY <1>1 DEF Todo, Added
<1>4. Complete'
  BY DEF Complete
<1>5. Offered'
  BY DEF Offered
<1>6. Reasons'
  BY DEF Reasons
<1> QED BY <1>2, <1>3, <1>4, <1>5, <1>6 DEF PcInv

\* Any peer's offer: nothing was chosen.
LEMMA OfferAnythingInv ==
    ASSUME PcInv, OfferAnything
    PROVE  PcInv'
<1>1. /\ chosen = <<>> /\ touched = {} /\ pcAt' = "sent" /\ pcTree' = NoTree
      /\ pcEdits' = MaxPcEdits /\ UNCHANGED <<chosen, next, todo, sources, touched>>
  BY DEF OfferAnything
<1>2. todo = <<>> /\ next = 1 /\ sources = <<>>
  BY <1>1, NoInputs
<1>3. wanted' \in Seq(Seq(STRING)) /\ Len(wanted') <= 1
  <2>1. PICK raw \in RawPaths : wanted' = <<raw>>
    BY DEF OfferAnything
  <2>2. raw \in Seq(STRING)
    BY CopyAssumption
  <2> QED BY <2>1, <2>2
<1>4. pcEdits' \in 0 .. MaxPcEdits
  <2>1. MaxPcEdits \in Nat
    BY CopyAssumption
  <2> QED BY <1>1, <2>1
<1>5. C!IsDisk(pcTree)'
  <2>1. C!IsDisk(pcTree)' <=> C!IsDisk(pcTree')
    BY DEF C!IsDisk
  <2> QED BY <1>1, <2>1, NoTreeIs
<1>6. /\ chosen' = <<>> /\ next' = 1 /\ todo' = <<>> /\ sources' = <<>> /\ touched' = {}
  BY <1>1, <1>2
<1>7. pcAt' \in {"sent", "taken"}
  BY <1>1
<1> QED BY <1>3, <1>4, <1>5, <1>6, <1>7, NothingChosen

\* What is handed over is forgotten.
LEMMA HandOverForgets ==
    ASSUME HandOver
    PROVE  PcInv'
<1>1. /\ pcTree' = NoTree /\ chosen' = <<>> /\ next' = 1 /\ todo' = <<>>
      /\ sources' = <<>> /\ wanted' = <<>> /\ touched' = {} /\ pcEdits' = 0
      /\ pcAt' \in {"sent", "taken"}
  BY DEF HandOver
<1>2. C!IsDisk(pcTree)'
  <2>1. C!IsDisk(pcTree)' <=> C!IsDisk(pcTree')
    BY DEF C!IsDisk
  <2> QED BY <1>1, <2>1, NoTreeIs
<1>3. pcEdits' \in 0 .. MaxPcEdits
  <2>1. MaxPcEdits \in Nat
    BY CopyAssumption
  <2> QED BY <1>1, <2>1
<1>4. wanted' \in Seq(Seq(STRING)) /\ Len(wanted') <= 1
  <2> DEFINE Words == Seq(STRING)
  <2> HIDE DEF Words
  <2>1. wanted' \in Seq(Words) /\ Len(wanted') = 0
    BY <1>1, EmptySeq
  <2> QED BY <2>1 DEF Words
<1> QED BY <1>1, <1>2, <1>3, <1>4, NothingChosen

\* At first nothing has been done.
LEMMA PcInitInv ==
    ASSUME C!Init
    PROVE  PcInv
<1>1. /\ pcTree \in PcTrees /\ chosen \in Selections /\ next = 1 /\ todo = <<>>
      /\ sources = <<>> /\ pcAt = "collect" /\ touched = {} /\ pcEdits = 0
  BY DEF C!Init
<1>2. DOMAIN todo = {} /\ DOMAIN sources = {}
  BY <1>1
<1>3. PcTypes
  <2>1. C!IsDisk(pcTree) /\ chosen \in Seq(Seq(Name))
    BY <1>1, CopyAssumption DEF Name
  <2>2. Len(chosen) \in Nat
    BY <2>1, LenProperties
  <2>3. MaxPcEdits \in Nat
    BY CopyAssumption
  <2>4. todo \in Seq(Entry) /\ sources \in Seq(Source)
    BY <1>1, EmptySeq
  <2>5. next \in 1 .. Len(chosen) + 1 /\ pcEdits \in 0 .. MaxPcEdits
    BY <1>1, <2>2, <2>3
  <2> QED BY <1>1, <2>1, <2>4, <2>5 DEF PcTypes
<1>4. Todo /\ Added
  BY <1>2 DEF Todo, Added
<1>5. Complete
  BY <1>1 DEF Complete
<1>6. Offered /\ Reasons
  BY <1>1 DEF Offered, Reasons
<1> QED BY <1>3, <1>4, <1>5, <1>6 DEF PcInv

\* What is known of the walk holds in every state that is reached.
THEOREM PcInvariance == Spec => []PcInv
<1>1. Init => PcInv
  BY PcInitInv DEF Init
<1>2. PcInv /\ [Next]_vars => PcInv'
  <2> SUFFICES ASSUME PcInv, [Next]_vars PROVE PcInv'
    OBVIOUS
  <2>1. CASE Pc(C!Next)
    BY <2>1, PcStepInv DEF Pc
  <2>2. CASE OfferAnything
    BY <2>2, OfferAnythingInv
  <2>3. CASE HandOver
    BY <2>3, HandOverForgets
  <2>4. CASE Deck(D!Next)
    BY <2>4, PcUnchanged DEF Deck
  <2>5. CASE UNCHANGED vars
    BY <2>5, PcUnchanged DEF vars
  <2> QED BY <2>1, <2>2, <2>3, <2>4, <2>5 DEF Next
<1> QED BY <1>1, <1>2, PTL DEF Spec

-----------------------------------------------------------------------------
(* What the PC promises. *)

\* The offer is what stays of the files beneath the inputs.
THEOREM OfferIsTheTreeTheorem == Spec => []OfferIsTheTree
<1>1. PcInv => OfferIsTheTree
  <2> SUFFICES ASSUME PcInv, pcAt \in {"offer", "sent", "taken"}
               PROVE  {s \in C!Range(sources) : C!Stays(s.at)}
                         = UNION {C!Expected(i) : i \in C!Range(chosen)}
    BY DEF OfferIsTheTree, C!OfferIsTheTree
  <2>0. PcTypes /\ Added /\ Complete /\ DOMAIN todo = {} /\ next - 1 = Len(chosen)
    <3>1. todo = <<>> /\ next = Len(chosen) + 1 /\ Len(chosen) \in Nat
      BY Inputs DEF PcInv, PcTypes
    <3> QED BY <3>1 DEF PcInv
  <2>1. ASSUME NEW s \in C!Range(sources), C!Stays(s.at)
        PROVE  \E i \in C!Range(chosen) : s \in C!Expected(i)
    <3>1. PICK k \in DOMAIN sources : s = sources[k]
      BY DEF C!Range
    <3>2. PICK j \in 1 .. next - 1 : From(j, sources[k].at, sources[k].path)
      BY <2>0 DEF Added
    <3>3. sources[k].at \in DOMAIN pcTree /\ pcTree[sources[k].at] = "file"
      BY <2>0, <2>1, <3>1 DEF Added
    <3>4. [at |-> sources[k].at, path |-> sources[k].path] \in C!Expected(chosen[j])
      BY <2>1, <3>1, <3>2, <3>3, IsExpected
    <3>5. sources[k] = [at |-> sources[k].at, path |-> sources[k].path]
      BY <2>0, SourcesAre DEF Source
    <3>6. chosen[j] \in C!Range(chosen)
      BY <2>0, Inputs
    <3> QED BY <3>1, <3>4, <3>5, <3>6
  <2>2. ASSUME NEW i \in C!Range(chosen), NEW s \in C!Expected(i)
        PROVE  s \in C!Range(sources) /\ C!Stays(s.at)
    <3>1. PICK p \in C!Beneath(i, {"file"}) :
              C!Stays(p) /\ s = [at |-> p, path |-> SubSeq(p, Len(i), Len(p))]
      BY <2>2 DEF C!Expected
    <3>2. PICK j \in DOMAIN chosen : i = chosen[j]
      BY <2>2 DEF C!Range
    <3>3. p \in DOMAIN pcTree /\ pcTree[p] = "file" /\ C!IsPrefix(chosen[j], p)
      BY <3>1, <3>2 DEF C!Beneath
    <3>4. j \in 1 .. next - 1
      BY <2>0, <3>2, Inputs
    <3>5. IsAdded(j, p)
      BY <2>0, <3>1, <3>3, <3>4 DEF Complete
    <3>6. PICK k \in DOMAIN sources : sources[k].at = p /\ sources[k].path = Below(i, p)
      BY <3>2, <3>5 DEF IsAdded
    <3>7. sources[k] = [at |-> sources[k].at, path |-> sources[k].path]
      BY <2>0, SourcesAre DEF Source
    <3>8. s = sources[k]
      BY <3>1, <3>6, <3>7 DEF Below
    <3> QED BY <3>1, <3>8 DEF C!Range
  <2> QED BY <2>1, <2>2
<1> QED BY <1>1, PcInvariance, PTL

\* A selection in which nobody works, and all of which can be read, fails only
\* for one of the reasons named, those of a limit among them.
THEOREM RefusedForAReasonTheorem == Spec => []RefusedForAReason
<1>1. PcInv => RefusedForAReason
  BY DEF PcInv, Reasons, RefusedForAReason, C!RefusedForAReason
<1> QED BY <1>1, PcInvariance, PTL

\* Names without a backslash come out at the Deck as they were.
LEMMA PlainPath ==
    ASSUME NEW p \in Seq(Name), p # <<>>, \A k \in 1 .. Len(p) : Len(p[k]) = 1
    PROVE  Normalized(C!Encoded(p)) = C!Encoded(p)
<1> DEFINE e == C!Encoded(p)
<1>1. /\ e \in Seq(STRING) /\ Len(e) = Len(p)
      /\ \A k \in 1 .. Len(p) : <<e[k]>> = p[k]
  BY EncodedSame
<1> HIDE DEF e
<1>2. ASSUME NEW k \in 1 .. Len(e) PROVE e[k] \notin Skipped
  <2>1. p[k] \in Name /\ Len(p[k]) = 1 /\ p[k] = <<e[k]>>
    BY <1>1, ElementOfSeq
  <2>2. p[k][1] \notin {"", ".", ".."}
    BY <2>1, CopyAssumption DEF Name
  <2>3. p[k][1] = e[k]
    BY <2>1
  <2> QED BY <2>2, <2>3 DEF Skipped
<1>3. Normalized(e) = e
  BY <1>1, <1>2, NormalizedSame
<1> QED BY <1>3 DEF e

\* Where no name has a backslash, every file is offered by a path of its own.
THEOREM NoTwoAlikeTheorem == Spec => []NoTwoAlike
<1>1. PcInv => NoTwoAlike
  <2> SUFFICES ASSUME PcInv, pcAt = "taken", ~C!Backslashed,
                      NEW j \in DOMAIN wanted, NEW k \in DOMAIN wanted, wanted[j] = wanted[k]
               PROVE  j = k
    BY DEF NoTwoAlike, C!NoTwoAlike, C!IsInjective
  <2>0. PcTypes /\ Added /\ wanted \in Seq(Seq(STRING))
    BY DEF PcInv, Offered
  <2>1. Len(wanted) \in Nat /\ DOMAIN wanted = 1 .. Len(wanted)
    BY <2>0, LenProperties
  <2>2. CASE Len(wanted) <= 1
    BY <2>1, <2>2
  <2>3. CASE ~(Len(wanted) <= 1)
    <3>1. /\ Len(wanted) = Len(sources)
          /\ \A m \in DOMAIN sources : wanted[m] = Normalized(C!Encoded(sources[m].path))
      BY <2>3 DEF PcInv, Offered
    <3>2. j \in DOMAIN sources /\ k \in DOMAIN sources
      BY <2>0, <2>1, <3>1, SourcesAre
    <3>3. ASSUME NEW m \in DOMAIN sources
          PROVE  /\ sources[m].path \in Seq(Name) /\ sources[m].path # <<>>
                 /\ \A n \in 1 .. Len(sources[m].path) : Len(sources[m].path[n]) = 1
      <4> DEFINE p == sources[m].path
      <4>1. p \in Seq(Name) /\ sources[m].at \in Seq(Name)
        BY <2>0, SourcesAre DEF Source
      <4>2. PICK i \in 1 .. next - 1 : From(i, sources[m].at, p)
        BY <2>0 DEF Added
      <4>3. p # <<>>
        <5>1. chosen[i] \in Seq(Name)
          BY <2>0, Inputs
        <5> QED BY <4>1, <4>2, <5>1, BelowIs DEF From
      <4>4. ASSUME NEW n \in 1 .. Len(p) PROVE Len(p[n]) = 1
        <5>1. p[n] \in Name /\ n \in DOMAIN p
          BY <4>1, ElementOfSeq, LenProperties
        <5>2. ~(Len(p[n]) > 1)
          <6>1. sources[m] \in C!Range(sources) /\ p[n] \in C!Range(p)
            BY <5>1 DEF C!Range
          <6> QED BY <6>1 DEF C!Backslashed
        <5> DEFINE w == p[n]
        <5>3. w \in Seq(STRING) /\ w # <<>>
          BY <5>1, CopyAssumption DEF Name
        <5> HIDE DEF w
        <5>4. Len(w) \in Nat /\ Len(w) # 0
          BY <5>3, LenProperties, EmptySeq
        <5>5. ~(Len(w) > 1)
          BY <5>2 DEF w
        <5> DEFINE l == Len(w)
        <5> HIDE DEF l
        <5>6. l \in Nat /\ l # 0 /\ ~(l > 1)
          BY <5>4, <5>5 DEF l
        <5>7. l = 1
          BY <5>6
        <5> QED BY <5>7 DEF w, l
      <4> QED BY <4>1, <4>3, <4>4
    <3> DEFINE p == sources[j].path
               q == sources[k].path
               e == C!Encoded(p)
    <3>4. C!Encoded(q) = e
      BY <3>1, <3>2, <3>3, PlainPath
    <3>5. /\ p \in Seq(Name) /\ Len(e) = Len(p) /\ \A n \in 1 .. Len(p) : <<e[n]>> = p[n]
      BY <3>2, <3>3, EncodedSame
    <3>6. /\ q \in Seq(Name) /\ Len(e) = Len(q) /\ \A n \in 1 .. Len(q) : <<e[n]>> = q[n]
      BY <3>2, <3>3, <3>4, EncodedSame
    <3> HIDE DEF p, q, e
    <3>7. p = q
      BY <3>5, <3>6, SeqEqual
    <3> QED BY <2>0, <3>2, <3>7 DEF Added, p, q
  <2> QED BY <2>2, <2>3
<1> QED BY <1>1, PcInvariance, PTL

-----------------------------------------------------------------------------
(* The receive folder. *)

\* What is assumed of the constants of the Deck.
LEMMA DeckConstants ==
    /\ \A o \in Offers :
          /\ o \in Seq(Seq(STRING)) /\ o # <<>> /\ <<>> \notin Range(o)
          /\ \A p \in Range(o) : Variants[Last(p)] \in Seq(STRING)
    /\ \A t \in DeckTrees : D!IsTree(t)
    /\ Partials \in STRING
    /\ Spots \subseteq Seq(STRING)
    /\ MaxDeckEdits \in Nat /\ MaxFaults \in Nat
  BY CopyAssumption

\* The first n folders on the way to file e.
Folder(e, n) == SubSeq(offer[e], 1, n)

\* The folder of the partial files comes before those of the first file.
Extra(e) == IF e = 1 THEN 1 ELSE 0

\* Folder n on the way to file e has been ensured.
Ready(e, n) ==
    \/ deckAt = "rename"
    \/ deckAt = "plan" /\ e < entry
    \/ deckAt = "plan" /\ e = entry /\ n + Extra(e) <= depth

PartialsReady ==
    \/ deckAt = "rename"
    \/ deckAt = "plan" /\ entry > 1
    \/ deckAt = "plan" /\ depth > 0

\* File e has a destination, and nothing there yet.
Pending(e) == deckAt = "plan" \/ (deckAt = "rename" /\ e >= entry)

\* There is a folder at p: IsDir of Destinations, for any tree.
DirIn(t, p) == p \in DOMAIN t /\ t[p].kind = "dir"

Shape ==
    /\ plan \in Seq(Seq(STRING))
    /\ deckAt = "plan" => Len(plan) = entry - 1
    /\ deckAt = "rename" => Len(plan) = Len(offer) /\ depth = 0
    /\ deckAt \in {"off", "listening"} => plan = <<>> /\ entry = 1 /\ depth = 0
    /\ \A e \in DOMAIN plan : plan[e] \in D!Range(D!Candidates(e))
    /\ \A e, f \in DOMAIN plan : plan[e] = plan[f] => e = f
    /\ depth <= Len(D!Folders(entry))

\* A link that is at p was put there after a folder had been found there.
LateLink(p) == p \in DOMAIN deckTree /\ deckTree[p].kind = "link" => p \in relinked

\* A folder that has been ensured may be gone, or have become a late link.
OnlyLateLinks ==
    /\ outside \subseteq relinked
    /\ deckAt # "off" => LateLink(<<>>)
    /\ PartialsReady => LateLink(<<Partials>>)
    /\ \A e \in DOMAIN offer : \A n \in 1 .. Len(offer[e]) - 1 :
          Ready(e, n) => LateLink(Folder(e, n))

\* What is at a destination that was found free is what Path::exists does not
\* see, a folder, or what the user has put there since.
Vacant ==
    \A e \in DOMAIN plan :
        Pending(e) /\ plan[e] \in DOMAIN deckTree =>
            deckTree[plan[e]].kind \in {"dangling", "dir"} \/ plan[e] \in late

\* As long as the user does nothing, folders that have been ensured stay, and
\* only the folders of the offer get in the way of its files.
Intact ==
    deckEdits = 0 =>
        /\ deckAt # "off" => DirIn(deckTree, <<>>)
        /\ PartialsReady => DirIn(deckTree, <<Partials>>)
        /\ \A e \in DOMAIN offer : \A n \in 1 .. Len(offer[e]) - 1 :
              Ready(e, n) => DirIn(deckTree, Folder(e, n))
        /\ \A e \in DOMAIN plan :
              Pending(e) /\ DirIn(deckTree, plan[e]) =>
                  \E f \in DOMAIN offer : D!IsStrictPrefix(plan[e], offer[f])

DeckInv == D!TypeOK /\ Shape /\ OnlyLateLinks /\ Vacant /\ Intact

Inv ==
    /\ handed => DeckInv
    /\ ~handed => /\ deckAt = "off" /\ entry = 1 /\ depth = 0 /\ plan = <<>>
                  /\ outside = {} /\ relinked = {} /\ late = {}
                  /\ deckEdits = 0 /\ faults = 0

-----------------------------------------------------------------------------
(* Paths. *)

\* The first n names of a path.
LEMMA FirstNames ==
    ASSUME NEW p \in Seq(STRING), NEW n \in 0 .. Len(p)
    PROVE  /\ Len(p) \in Nat
           /\ SubSeq(p, 1, n) \in Seq(STRING)
           /\ Len(SubSeq(p, 1, n)) = n
           /\ \A k \in 1 .. n : SubSeq(p, 1, n)[k] = p[k]
<1>1. Len(p) \in Nat /\ DOMAIN p = 1 .. Len(p)
  BY LenProperties
<1>2. 1 \in Int /\ n \in Int /\ \A k \in 1 .. n : p[k] \in STRING
  BY <1>1, ElementOfSeq
<1> QED BY <1>1, <1>2, SubSeqProperties

\* Two paths are equal if their names are.
LEMMA SamePath ==
    ASSUME NEW p \in Seq(STRING), NEW q \in Seq(STRING), Len(p) = Len(q),
           \A k \in 1 .. Len(p) : p[k] = q[k]
    PROVE  p = q
  BY SeqEqual, LenProperties

\* A strict prefix of a path is its first names, some but not all of them.
LEMMA StrictPrefix ==
    ASSUME NEW p \in Seq(STRING), NEW q \in Seq(STRING)
    PROVE  D!IsStrictPrefix(p, q) <=> Len(p) < Len(q) /\ p = SubSeq(q, 1, Len(p))
<1>1. Len(p) \in Nat /\ Len(q) \in Nat
  BY LenProperties
<1>2. SubSeq(p, 1, Len(p)) = p
  BY <1>1, FirstNames, SamePath
<1>3. SubSeq(q, 1, Len(q)) = q
  BY <1>1, FirstNames, SamePath
<1> QED BY <1>1, <1>2, <1>3 DEF D!IsStrictPrefix, D!IsPrefix

\* The first names of the first names.
LEMMA FirstOfFirst ==
    ASSUME NEW p \in Seq(STRING), NEW n \in 0 .. Len(p), NEW m \in 0 .. n
    PROVE  SubSeq(SubSeq(p, 1, n), 1, m) = SubSeq(p, 1, m)
<1>1. /\ Len(p) \in Nat /\ m \in 0 .. Len(p)
      /\ SubSeq(p, 1, n) \in Seq(STRING) /\ Len(SubSeq(p, 1, n)) = n
      /\ \A k \in 1 .. n : SubSeq(p, 1, n)[k] = p[k]
  BY FirstNames
<1>2. /\ SubSeq(p, 1, m) \in Seq(STRING) /\ Len(SubSeq(p, 1, m)) = m
      /\ \A k \in 1 .. m : SubSeq(p, 1, m)[k] = p[k]
  BY <1>1, FirstNames
<1> DEFINE q == SubSeq(p, 1, n)
           r == SubSeq(p, 1, m)
<1>3. q \in Seq(STRING) /\ m \in 0 .. Len(q)
  BY <1>1
<1>4. /\ SubSeq(q, 1, m) \in Seq(STRING) /\ Len(SubSeq(q, 1, m)) = m
      /\ \A k \in 1 .. m : SubSeq(q, 1, m)[k] = q[k]
  BY <1>3, FirstNames
<1>5. \A k \in 1 .. m : q[k] = p[k] /\ r[k] = p[k]
  BY <1>1, <1>2
<1> HIDE DEF q, r
<1>6. SubSeq(q, 1, m) = r
  BY <1>2, <1>4, <1>5, SamePath DEF r
<1> QED BY <1>6 DEF q, r

\* The folder of a path.
LEMMA ParentIs ==
    ASSUME NEW p \in Seq(STRING), p # <<>>
    PROVE  /\ Len(p) \in Nat /\ Len(p) >= 1
           /\ D!Parent(p) = SubSeq(p, 1, Len(p) - 1)
           /\ D!Parent(p) \in Seq(STRING) /\ Len(D!Parent(p)) = Len(p) - 1
<1>1. Len(p) \in Nat /\ Len(p) # 0
  BY LenProperties, EmptySeq
<1>2. D!Parent(p) = SubSeq(p, 1, Len(p) - 1)
  BY DEF D!Parent, D!Front
<1>3. Len(p) - 1 \in 0 .. Len(p) /\ Len(p) >= 1
  BY <1>1
<1>4. SubSeq(p, 1, Len(p) - 1) \in Seq(STRING) /\ Len(SubSeq(p, 1, Len(p) - 1)) = Len(p) - 1
  BY <1>3, FirstNames
<1> QED BY <1>1, <1>2, <1>3, <1>4

\* The folder of a name in a folder.
LEMMA ParentOfName ==
    ASSUME NEW p \in Seq(STRING), NEW v \in STRING
    PROVE  /\ Append(p, v) \in Seq(STRING) /\ Append(p, v) # <<>>
           /\ Len(Append(p, v)) = Len(p) + 1 /\ Len(p) \in Nat
           /\ D!Parent(Append(p, v)) = p
<1> DEFINE q == Append(p, v)
<1>1. Len(p) \in Nat /\ q \in Seq(STRING) /\ Len(q) = Len(p) + 1
  BY AppendProperties, LenProperties
<1>6. \A k \in 1 .. Len(p) : q[k] = p[k]
  BY AppendProperties
<1> HIDE DEF q
<1>2. q # <<>>
  BY <1>1, EmptySeq
<1>3. Len(q) - 1 = Len(p) /\ Len(p) \in 0 .. Len(q)
  BY <1>1
<1>7. /\ D!Parent(q) = SubSeq(q, 1, Len(p)) /\ D!Parent(q) \in Seq(STRING)
      /\ Len(D!Parent(q)) = Len(p)
  BY <1>1, <1>2, <1>3, ParentIs
<1>4. \A k \in 1 .. Len(p) : D!Parent(q)[k] = p[k]
  BY <1>1, <1>3, <1>6, <1>7, FirstNames
<1>5. D!Parent(q) = p
  BY <1>1, <1>4, <1>7, SamePath
<1> QED BY <1>1, <1>2, <1>5 DEF q

\* What is in what was removed was removed.
LEMMA PrefixOfParent ==
    ASSUME NEW p \in Seq(STRING), NEW q \in Seq(STRING), q # <<>>,
           D!IsPrefix(p, D!Parent(q))
    PROVE  D!IsPrefix(p, q)
<1>1. /\ Len(q) \in Nat /\ Len(q) >= 1 /\ Len(p) \in Nat
      /\ D!Parent(q) = SubSeq(q, 1, Len(q) - 1) /\ Len(D!Parent(q)) = Len(q) - 1
  BY ParentIs, LenProperties
<1>2. /\ Len(p) <= Len(q) - 1
      /\ SubSeq(p, 1, Len(p)) = SubSeq(D!Parent(q), 1, Len(p))
  BY <1>1 DEF D!IsPrefix
<1>3. SubSeq(D!Parent(q), 1, Len(p)) = SubSeq(q, 1, Len(p))
  BY <1>1, <1>2, FirstOfFirst
<1> QED BY <1>1, <1>2, <1>3 DEF D!IsPrefix

-----------------------------------------------------------------------------
(* Trees. *)

\* Something new, or in the place of what is not a folder.
LEMMA GrowsTree ==
    ASSUME D!IsTree(deckTree), NEW p \in Seq(STRING), NEW node \in D!Node,
           p # D!Root => DirIn(deckTree, D!Parent(p)), ~DirIn(deckTree, p),
           deckTree' = D!Grow(p, node)
    PROVE  /\ D!IsTree(deckTree')
           /\ DOMAIN deckTree' = DOMAIN deckTree \cup {p}
           /\ deckTree'[p] = node
           /\ \A q \in DOMAIN deckTree : q # p => deckTree'[q] = deckTree[q]
           /\ \A q : DirIn(deckTree, q) => DirIn(deckTree', q)
<1>1. /\ DOMAIN deckTree' = DOMAIN deckTree \cup {p}
      /\ deckTree'[p] = node
      /\ \A q \in DOMAIN deckTree : q # p => deckTree'[q] = deckTree[q]
  BY DEF D!Grow
<1>2. \A q : DirIn(deckTree, q) => DirIn(deckTree', q)
  BY <1>1 DEF D!IsDir, DirIn
<1>3. ASSUME NEW q \in DOMAIN deckTree', q # D!Root
      PROVE  DirIn(deckTree, D!Parent(q))
  <2>1. q # p => q \in DOMAIN deckTree
    BY <1>1
  <2> QED BY <1>3, <2>1 DEF D!IsTree, D!IsDir, DirIn
<1>4. \A q \in DOMAIN deckTree' : q \in Seq(STRING) /\ deckTree'[q] \in D!Node
  BY <1>1 DEF D!IsTree
<1>5. \A q \in DOMAIN deckTree' : q # D!Root =>
         D!Parent(q) \in DOMAIN deckTree' /\ deckTree'[D!Parent(q)].kind = "dir"
  BY <1>2, <1>3 DEF D!IsDir, DirIn
<1>6. D!IsTree(deckTree')
  BY <1>4, <1>5 DEF D!IsTree
<1> QED BY <1>1, <1>2, <1>6

\* Something goes, with everything in it.
LEMMA ShrinksTree ==
    ASSUME D!IsTree(deckTree), NEW p \in Seq(STRING),
           deckTree' = [q \in {q \in DOMAIN deckTree : ~D!IsPrefix(p, q)} |-> deckTree[q]]
    PROVE  /\ D!IsTree(deckTree')
           /\ DOMAIN deckTree' \subseteq DOMAIN deckTree
           /\ \A q \in DOMAIN deckTree' : deckTree'[q] = deckTree[q]
<1>1. /\ DOMAIN deckTree' = {q \in DOMAIN deckTree : ~D!IsPrefix(p, q)}
      /\ \A q \in DOMAIN deckTree' : deckTree'[q] = deckTree[q]
  OBVIOUS
<1>2. ASSUME NEW q \in DOMAIN deckTree', q # D!Root
      PROVE  D!Parent(q) \in DOMAIN deckTree' /\ deckTree'[D!Parent(q)].kind = "dir"
  <2>1. q \in DOMAIN deckTree /\ q \in Seq(STRING) /\ q # <<>>
    BY <1>1, <1>2 DEF D!IsTree, D!Root
  <2>2. ~D!IsPrefix(p, D!Parent(q))
    BY <1>1, <2>1, PrefixOfParent
  <2>3. D!Parent(q) \in DOMAIN deckTree /\ deckTree[D!Parent(q)].kind = "dir"
    BY <1>2, <2>1 DEF D!IsTree
  <2> QED BY <1>1, <2>2, <2>3
<1> QED BY <1>1, <1>2 DEF D!IsTree

\* Nothing is beneath what is not a folder.
LEMMA NothingBeneath ==
    ASSUME D!IsTree(deckTree), NEW q \in DOMAIN deckTree, deckTree[q].kind # "dir",
           NEW p \in DOMAIN deckTree, p # <<>>, D!IsPrefix(q, D!Parent(p))
    PROVE  FALSE
<1>1. p \in Seq(STRING) /\ q \in Seq(STRING)
  BY DEF D!IsTree
<1>2. /\ Len(p) \in Nat /\ Len(p) >= 1 /\ Len(q) \in Nat
      /\ D!IsPrefix(q, p) /\ Len(q) <= Len(p) - 1
  <2>1. Len(p) \in Nat /\ Len(p) >= 1 /\ Len(D!Parent(p)) = Len(p) - 1
    BY <1>1, ParentIs
  <2>2. D!IsPrefix(q, p) /\ Len(q) \in Nat /\ Len(q) <= Len(D!Parent(p))
    BY <1>1, PrefixOfParent, LenProperties DEF D!IsPrefix
  <2> QED BY <2>1, <2>2
<1>3. q = SubSeq(p, 1, Len(q))
  <2>1. SubSeq(q, 1, Len(q)) = q
    BY <1>1, <1>2, FirstNames, SamePath
  <2> QED BY <1>2, <2>1 DEF D!IsPrefix
<1>4. SubSeq(p, 1, Len(p)) = p
  BY <1>1, <1>2, FirstNames, SamePath
<1> DEFINE T == {n \in Nat : Len(q) < n /\ n <= Len(p) /\ SubSeq(p, 1, n) \in DOMAIN deckTree}
<1>5. T \in SUBSET Nat /\ Len(p) \in T
  <2>1. Len(p) \in Nat /\ Len(q) < Len(p) /\ Len(p) <= Len(p)
    BY <1>2
  <2>2. SubSeq(p, 1, Len(p)) \in DOMAIN deckTree
    BY <1>4
  <2>3. Len(p) \in T
    BY <2>1, <2>2
  <2> QED BY <2>3
<1>6. PICK n \in T : \A m \in T : n <= m
  <2> HIDE DEF T
  <2> QED BY <1>5, LeastNumber
<1>7. /\ n \in Nat /\ Len(q) < n /\ n <= Len(p) /\ n - 1 \in 0 .. n
      /\ n \in 0 .. Len(p) /\ SubSeq(p, 1, n) \in DOMAIN deckTree
  BY <1>2, <1>6
<1>8. SubSeq(p, 1, n) \in Seq(STRING) /\ Len(SubSeq(p, 1, n)) = n
  BY <1>1, <1>7, FirstNames
<1>9. SubSeq(p, 1, n) # <<>>
  <2>1. n # 0
    BY <1>2, <1>7
  <2> QED BY <1>8, <2>1, EmptySeq
<1>10. D!Parent(SubSeq(p, 1, n)) = SubSeq(p, 1, n - 1)
  <2>1. D!Parent(SubSeq(p, 1, n)) = SubSeq(SubSeq(p, 1, n), 1, n - 1)
    BY <1>8, <1>9, ParentIs
  <2> QED BY <1>1, <1>7, <2>1, FirstOfFirst
<1>11. SubSeq(p, 1, n - 1) \in DOMAIN deckTree /\ deckTree[SubSeq(p, 1, n - 1)].kind = "dir"
  BY <1>7, <1>9, <1>10 DEF D!IsTree, D!Root
<1>12. CASE Len(q) = n - 1
  BY <1>3, <1>11, <1>12
<1>13. CASE Len(q) # n - 1
  <2>1. n - 1 \in Nat /\ Len(q) < n - 1 /\ n - 1 <= Len(p) /\ ~(n <= n - 1)
    BY <1>2, <1>7, <1>13
  <2>2. n - 1 \in T
    BY <1>11, <2>1
  <2> QED BY <1>6, <2>1, <2>2
<1> QED BY <1>12, <1>13

-----------------------------------------------------------------------------
(* The offer, the folders on the way to a file, and its names. *)

\* The paths of an offer.
LEMMA OfferPaths ==
    ASSUME offer \in Offers
    PROVE  /\ Len(offer) \in Nat /\ Len(offer) >= 1 /\ DOMAIN offer = 1 .. Len(offer)
           /\ \A e \in DOMAIN offer :
                 /\ offer[e] \in Seq(STRING) /\ offer[e] # <<>>
                 /\ offer[e] \in D!Range(offer)
                 /\ Variants[D!Last(offer[e])] \in Seq(STRING)
                 /\ Len(offer[e]) \in Nat /\ Len(offer[e]) >= 1
<1>1. offer \in Seq(Seq(STRING)) /\ offer # <<>>
  BY DeckConstants
<1>2. Len(offer) \in Nat /\ Len(offer) >= 1 /\ DOMAIN offer = 1 .. Len(offer)
  BY <1>1, LenProperties, EmptySeq
<1>3. ASSUME NEW e \in DOMAIN offer
      PROVE  /\ offer[e] \in Seq(STRING) /\ offer[e] # <<>>
             /\ offer[e] \in D!Range(offer)
             /\ Variants[D!Last(offer[e])] \in Seq(STRING)
  <2>1. offer[e] \in Range(offer) /\ offer[e] \in D!Range(offer)
    BY DEF Range, D!Range
  <2>2. offer[e] \in Seq(STRING)
    BY <1>1, <1>2, ElementOfSeq
  <2> QED BY <2>1, <2>2, DeckConstants DEF Last, D!Last
<1> QED BY <1>2, <1>3, ParentIs

\* The folder of the partial files has a path.
LEMMA PartialsPath == <<Partials>> \in Seq(STRING) /\ <<Partials>> # <<>>
<1>1. Partials \in STRING
  BY DeckConstants
<1> QED BY <1>1, Singleton

\* The folders on the way to file e.
LEMMA FoldersAre ==
    ASSUME offer \in Offers, NEW e \in DOMAIN offer
    PROVE  /\ Len(D!Folders(e)) = Len(offer[e]) - 1 + Extra(e)
           /\ DOMAIN D!Folders(e) = 1 .. Len(D!Folders(e))
           /\ \A k \in 1 .. Len(D!Folders(e)) :
                 D!Folders(e)[k] = IF e = 1 /\ k = 1 THEN <<Partials>>
                                   ELSE Folder(e, k - Extra(e))
<1> DEFINE first == IF e = 1 THEN <<<<Partials>>>> ELSE <<>>
           way == [k \in 1 .. Len(offer[e]) - 1 |-> SubSeq(offer[e], 1, k)]
<1>1. Len(offer[e]) \in Nat /\ Len(offer[e]) >= 1 /\ offer[e] \in Seq(STRING)
  BY OfferPaths
<1>2. way \in Seq(Seq(STRING)) /\ Len(way) = Len(offer[e]) - 1
  <2>1. \A k \in 1 .. Len(offer[e]) - 1 : SubSeq(offer[e], 1, k) \in Seq(STRING)
    BY <1>1, FirstNames
  <2>2. way \in [1 .. Len(offer[e]) - 1 -> Seq(STRING)] /\ Len(offer[e]) - 1 \in Nat
    BY <1>1, <2>1
  <2> HIDE DEF way
  <2> QED BY <2>2, SeqDef, LenProperties
<1>3. first \in Seq(Seq(STRING)) /\ Len(first) = Extra(e)
  <2>2. <<<<Partials>>>> \in Seq(Seq(STRING)) /\ Len(<<<<Partials>>>>) = 1
    BY PartialsPath
  <2>3. <<>> \in Seq(Seq(STRING)) /\ Len(<<>>) = 0
    BY EmptySeq
  <2>4. CASE e = 1
    BY <2>2, <2>4 DEF Extra
  <2>5. CASE e # 1
    BY <2>3, <2>5 DEF Extra
  <2> QED BY <2>4, <2>5
<1>4. e = 1 => first[1] = <<Partials>>
  OBVIOUS
<1>5. \A k \in 1 .. Len(offer[e]) - 1 : way[k] = Folder(e, k)
  BY DEF Folder
<1>6. D!Folders(e) = first \o way
  BY DEF D!Folders, D!Parent
<1> HIDE DEF first, way
<1>7. /\ first \o way \in Seq(Seq(STRING))
      /\ Len(first \o way) = Len(first) + Len(way)
      /\ \A k \in 1 .. Len(first) + Len(way) :
            (first \o way)[k] = IF k <= Len(first) THEN first[k] ELSE way[k - Len(first)]
  BY <1>2, <1>3, ConcatProperties
<1>8. Extra(e) \in {0, 1} /\ (Extra(e) = 1 <=> e = 1)
  BY DEF Extra
<1>9. Len(D!Folders(e)) = Len(offer[e]) - 1 + Extra(e)
  BY <1>1, <1>2, <1>3, <1>6, <1>7, <1>8
<1>10. ASSUME NEW k \in 1 .. Len(D!Folders(e))
       PROVE  D!Folders(e)[k] = IF e = 1 /\ k = 1 THEN <<Partials>>
                                ELSE Folder(e, k - Extra(e))
  <2>1. D!Folders(e)[k] = IF k <= Extra(e) THEN first[k] ELSE way[k - Extra(e)]
    BY <1>1, <1>2, <1>3, <1>6, <1>7, <1>8, <1>9
  <2>2. k <= Extra(e) <=> e = 1 /\ k = 1
    BY <1>1, <1>8, <1>9
  <2>3. k > Extra(e) => k - Extra(e) \in 1 .. Len(offer[e]) - 1
    BY <1>1, <1>8, <1>9
  <2> QED BY <1>1, <1>4, <1>5, <1>8, <1>9, <2>1, <2>2, <2>3
<1>11. DOMAIN D!Folders(e) = 1 .. Len(D!Folders(e))
  BY <1>6, <1>7, LenProperties
<1> QED BY <1>9, <1>10, <1>11

\* The names file e may get are in its folder.
LEMMA CandidatesAre ==
    ASSUME offer \in Offers, NEW e \in DOMAIN offer, NEW d \in D!Range(D!Candidates(e))
    PROVE  /\ d \in Seq(STRING) /\ d # <<>>
           /\ D!Parent(d) = D!Parent(offer[e]) /\ Len(d) = Len(offer[e])
<1> DEFINE variants == Variants[D!Last(offer[e])]
<1>1. PICK k \in DOMAIN variants : d = Append(D!Parent(offer[e]), variants[k])
  BY DEF D!Range, D!Candidates
<1>2. variants[k] \in STRING
  BY OfferPaths, <1>1, ElementOfSeq, LenProperties
<1>3. offer[e] \in Seq(STRING) /\ offer[e] # <<>>
  BY OfferPaths
<1>4. D!Parent(offer[e]) \in Seq(STRING) /\ Len(D!Parent(offer[e])) = Len(offer[e]) - 1
      /\ Len(offer[e]) \in Nat
  BY <1>3, ParentIs
<1> DEFINE v == variants[k]
           folder == D!Parent(offer[e])
<1>5. d = Append(folder, v) /\ v \in STRING /\ folder \in Seq(STRING)
  BY <1>1, <1>2, <1>4
<1> HIDE DEF v, folder
<1>6. d \in Seq(STRING) /\ d # <<>> /\ Len(d) = Len(folder) + 1 /\ D!Parent(d) = folder
  BY <1>5, ParentOfName
<1> QED BY <1>4, <1>6 DEF folder

\* Folder n on the way to file e.
LEMMA FolderIs ==
    ASSUME offer \in Offers, NEW e \in DOMAIN offer, NEW n \in 1 .. Len(offer[e]) - 1
    PROVE  /\ Folder(e, n) \in Seq(STRING) /\ Folder(e, n) # <<>>
           /\ D!Parent(Folder(e, n)) = IF n = 1 THEN <<>> ELSE Folder(e, n - 1)
           /\ D!IsStrictPrefix(Folder(e, n), offer[e])
           /\ n + Extra(e) \in 1 .. Len(D!Folders(e))
<1>1. /\ Len(offer[e]) \in Nat /\ offer[e] \in Seq(STRING)
      /\ n \in 0 .. Len(offer[e]) /\ n - 1 \in 0 .. n /\ n - 1 \in 0 .. Len(offer[e])
  BY OfferPaths
<1>2. Folder(e, n) \in Seq(STRING) /\ Len(Folder(e, n)) = n
  BY <1>1, FirstNames DEF Folder
<1>3. Folder(e, n) # <<>>
  BY <1>2, EmptySeq
<1>4. D!Parent(Folder(e, n)) = Folder(e, n - 1)
  <2>1. D!Parent(Folder(e, n)) = SubSeq(Folder(e, n), 1, n - 1)
    BY <1>2, <1>3, ParentIs
  <2>2. SubSeq(Folder(e, n), 1, n - 1) = SubSeq(offer[e], 1, n - 1)
    BY <1>1, FirstOfFirst DEF Folder
  <2> QED BY <2>1, <2>2 DEF Folder
<1>5. n = 1 => Folder(e, n - 1) = <<>>
  <2>1. Folder(e, n - 1) \in Seq(STRING) /\ Len(Folder(e, n - 1)) = n - 1
    BY <1>1, FirstNames DEF Folder
  <2> QED BY <2>1, EmptySeq
<1>6. D!IsStrictPrefix(Folder(e, n), offer[e])
  <2>1. /\ Len(Folder(e, n)) < Len(offer[e])
        /\ Folder(e, n) = SubSeq(offer[e], 1, Len(Folder(e, n)))
    BY <1>1, <1>2 DEF Folder
  <2> QED BY <1>1, <1>2, <2>1, StrictPrefix
<1>7. n + Extra(e) \in 1 .. Len(D!Folders(e))
  BY <1>1, FoldersAre DEF Extra
<1> QED BY <1>2, <1>3, <1>4, <1>5, <1>6, <1>7

\* No folder on the way is the receive folder, and all of them are where a file is.
LEMMA FirstAndLast ==
    ASSUME offer \in Offers, NEW e \in DOMAIN offer
    PROVE  /\ Folder(e, 0) = <<>>
           /\ Len(offer[e]) - 1 \in 0 .. Len(offer[e]) - 1
           /\ D!Parent(offer[e]) = Folder(e, Len(offer[e]) - 1)
<1>1. offer[e] \in Seq(STRING) /\ offer[e] # <<>> /\ Len(offer[e]) \in Nat /\ Len(offer[e]) >= 1
  BY OfferPaths
<1>2. Folder(e, 0) \in Seq(STRING) /\ Len(Folder(e, 0)) = 0
  BY <1>1, FirstNames DEF Folder
<1> QED BY <1>1, <1>2, EmptySeq, ParentIs DEF Folder

\* What is on the way to a folder is the receive folder or a folder on the way.
LEMMA PrefixOfFolder ==
    ASSUME offer \in Offers, NEW e \in DOMAIN offer, NEW m \in 0 .. Len(offer[e]) - 1,
           NEW q \in Seq(STRING), D!IsPrefix(q, Folder(e, m))
    PROVE  q = <<>> \/ \E n \in 1 .. m : q = Folder(e, n)
<1>1. offer[e] \in Seq(STRING) /\ Len(offer[e]) \in Nat /\ m \in 0 .. Len(offer[e])
  BY OfferPaths
<1>2. Folder(e, m) \in Seq(STRING) /\ Len(Folder(e, m)) = m
  BY <1>1, FirstNames DEF Folder
<1>3. /\ Len(q) \in Nat /\ Len(q) <= m /\ Len(q) \in 0 .. m
      /\ SubSeq(q, 1, Len(q)) = SubSeq(Folder(e, m), 1, Len(q))
  BY <1>2, LenProperties DEF D!IsPrefix
<1>4. SubSeq(q, 1, Len(q)) = q
  BY <1>3, FirstNames, SamePath
<1>5. SubSeq(Folder(e, m), 1, Len(q)) = Folder(e, Len(q))
  BY <1>1, <1>3, FirstOfFirst DEF Folder
<1>6. Len(q) # 0 => Len(q) \in 1 .. m
  BY <1>3
<1> QED BY <1>3, <1>4, <1>5, <1>6, EmptySeq

\* The folder of the partial files is in the receive folder.
LEMMA PrefixOfPartials ==
    ASSUME NEW q \in Seq(STRING), D!IsPrefix(q, <<Partials>>)
    PROVE  q \in {<<>>, <<Partials>>}
<1> DEFINE partials == <<Partials>>
<1>1. /\ Len(partials) = 1 /\ Len(q) \in Nat /\ Len(q) <= 1
      /\ SubSeq(q, 1, Len(q)) = SubSeq(partials, 1, Len(q))
  BY LenProperties DEF D!IsPrefix
<1>7. partials \in Seq(STRING)
  BY PartialsPath
<1> HIDE DEF partials
<1>2. SubSeq(q, 1, Len(q)) = q
  BY <1>1, FirstNames, SamePath
<1>3. SubSeq(partials, 1, 1) = partials
  <2>1. /\ SubSeq(partials, 1, 1) \in Seq(STRING) /\ Len(SubSeq(partials, 1, 1)) = 1
        /\ \A k \in 1 .. 1 : SubSeq(partials, 1, 1)[k] = partials[k]
    BY <1>1, <1>7, FirstNames
  <2> QED BY <1>1, <1>7, <2>1, SamePath
<1>4. Len(q) = 0 \/ Len(q) = 1
  BY <1>1
<1>5. CASE Len(q) = 0
  <2>1. q = <<>>
    BY <1>5, EmptySeq
  <2> QED BY <2>1
<1>6. CASE Len(q) = 1
  BY <1>1, <1>2, <1>3, <1>6 DEF partials
<1> QED BY <1>4, <1>5, <1>6

-----------------------------------------------------------------------------
(* The steps of the receiver. *)

\* The offer stays, and so do its folders and names.
LEMMA OfferStays ==
    ASSUME UNCHANGED offer
    PROVE  /\ \A e : D!Folders(e)' = D!Folders(e)
           /\ \A e : D!Range(D!Candidates(e))' = D!Range(D!Candidates(e))
           /\ \A e, n : Folder(e, n)' = Folder(e, n)
<1>1. \A e : D!Folders(e)' = D!Folders(e)
  BY DEF D!Folders, D!Parent, D!Front
<1>2. \A e : D!Range(D!Candidates(e))' = D!Range(D!Candidates(e))
  BY DEF D!Candidates, D!Parent, D!Front, D!Last, D!Range
<1>3. \A e, n : Folder(e, n)' = Folder(e, n)
  BY DEF Folder
<1> QED BY <1>1, <1>2, <1>3

\* Numbers that are compared.
LEMMA Numbers ==
    ASSUME D!TypeOK, Shape
    PROVE  /\ entry \in Nat /\ entry >= 1 /\ entry <= Len(offer)
           /\ depth \in Nat /\ deckEdits \in Nat /\ faults \in Nat
           /\ Len(plan) \in Nat /\ DOMAIN plan = 1 .. Len(plan)
           /\ offer \in Offers /\ entry \in DOMAIN offer
<1>1. offer \in Offers /\ entry \in DOMAIN offer
  BY DEF D!TypeOK
<1>2. Len(offer[entry]) \in Nat /\ DOMAIN offer = 1 .. Len(offer) /\ Len(offer) \in Nat
  BY <1>1, OfferPaths
<1> QED BY <1>1, <1>2, LenProperties, DeckConstants DEF D!TypeOK, Shape

\* What follows from the place of the receiver and its plan, when it starts.
LEMMA NothingPlanned ==
    ASSUME offer \in Offers, plan = <<>>, entry = 1, depth = 0
    PROVE  /\ plan \in Seq(Seq(STRING)) /\ Len(plan) = 0 /\ DOMAIN plan = {}
           /\ entry \in DOMAIN offer /\ depth \in 0 .. Len(offer[entry])
           /\ Len(plan) <= Len(offer) /\ depth <= Len(D!Folders(entry))
           /\ Len(plan) = entry - 1
           /\ \A e \in DOMAIN offer : \A n \in 1 .. Len(offer[e]) - 1 :
                 ~(e < entry \/ (e = entry /\ n + Extra(e) <= depth))
<1>1. plan \in Seq(Seq(STRING)) /\ Len(plan) = 0 /\ DOMAIN plan = {}
  BY EmptySeq
<1>2. /\ Len(offer) \in Nat /\ Len(offer) >= 1 /\ DOMAIN offer = 1 .. Len(offer)
      /\ 1 \in DOMAIN offer
      /\ \A e \in DOMAIN offer : Len(offer[e]) \in Nat /\ Len(offer[e]) >= 1
  BY OfferPaths
<1>3. Len(D!Folders(1)) = Len(offer[1])
  BY <1>2, FoldersAre DEF Extra
<1>4. \A e : Extra(e) \in {0, 1}
  BY DEF Extra
<1> QED BY <1>1, <1>2, <1>3, <1>4

\* No attempt is under way: the last one has ended, or none has begun.
Idle ==
    /\ offer \in Offers /\ D!IsTree(deckTree) /\ outside \subseteq relinked
    /\ deckAt \in {"off", "listening"} /\ plan = <<>> /\ entry = 1 /\ depth = 0
    /\ deckEdits \in 0 .. MaxDeckEdits /\ faults \in 0 .. MaxFaults
    /\ deckAt # "off" => LateLink(<<>>)
    /\ deckAt # "off" /\ deckEdits = 0 => DirIn(deckTree, <<>>)

\* Then there is nothing to keep but the receive folder.
LEMMA IdleInv == Idle => DeckInv
<1> SUFFICES ASSUME Idle PROVE DeckInv
  OBVIOUS
<1> USE DEF Idle
<1>1. D!TypeOK
  BY NothingPlanned DEF D!TypeOK
<1>2. Shape
  BY NothingPlanned DEF Shape
<1>3. /\ \A e, n : ~Ready(e, n)
      /\ ~PartialsReady /\ \A e : ~Pending(e)
  BY DEF Ready, PartialsReady, Pending
<1>4. DOMAIN plan = {}
  BY NothingPlanned
<1>5. OnlyLateLinks /\ Vacant /\ Intact
  BY <1>3, <1>4 DEF OnlyLateLinks, Vacant, Intact
<1> QED BY <1>1, <1>2, <1>5 DEF DeckInv

\* The receiver forgets the offer.
LEMMA ForgetsInv == Idle' => DeckInv'
  BY IdleInv, PTL

\* prepare_root.
LEMMA ListenInv ==
    ASSUME DeckInv, D!Listen
    PROVE  DeckInv'
<1> USE DEF D!Listen
<1>1. D!IsTree(deckTree) /\ deckAt = "off" /\ Shape /\ D!TypeOK
  BY DEF DeckInv, D!TypeOK
<1>2. D!IsTree(deckTree') /\ DirIn(deckTree', <<>>)
  <2>1. CASE <<>> \in DOMAIN deckTree
    BY <1>1, <2>1 DEF D!Root, D!IsDir, DirIn
  <2>2. CASE <<>> \notin DOMAIN deckTree
    <3>1. <<>> \in Seq(STRING) /\ D!Dir \in D!Node
      BY EmptySeq DEF D!Dir, D!Node
    <3>2. ~DirIn(deckTree, <<>>) /\ deckTree' = D!Grow(<<>>, D!Dir)
      BY <2>2 DEF D!IsDir, DirIn, D!Root
    <3>3. D!IsTree(deckTree') /\ deckTree'[<<>>] = D!Dir /\ <<>> \in DOMAIN deckTree'
      BY <1>1, <3>1, <3>2, GrowsTree DEF D!Root
    <3> QED BY <3>3 DEF D!IsDir, DirIn, D!Dir
  <2> QED BY <2>1, <2>2
<1>3. Idle'
  BY <1>1, <1>2 DEF Idle, Shape, D!TypeOK, LateLink, DirIn
<1> QED BY <1>3, ForgetsInv

\* The attempt ends, with an error or because the connection does.
LEMMA LeavesInv ==
    ASSUME DeckInv, deckAt # "off", deckAt' \in {"off", "listening"},
           entry' = 1, depth' = 0, plan' = <<>>, faults' \in 0 .. MaxFaults,
           outside' \subseteq relinked, UNCHANGED <<deckTree, offer, relinked, deckEdits>>
    PROVE  DeckInv'
<1>1. Idle'
  BY DEF DeckInv, D!TypeOK, OnlyLateLinks, LateLink, Intact, Idle, D!IsDir, DirIn
<1> QED BY <1>1, ForgetsInv

\* An offer arrives.
LEMMA ReceiveOfferInv ==
    ASSUME DeckInv, D!ReceiveOffer
    PROVE  DeckInv'
<1> USE DEF D!ReceiveOffer, DeckInv
<1>1. plan = <<>> /\ entry = 1 /\ depth = 0 /\ offer \in Offers
      /\ D!Folders(entry)' = D!Folders(entry)
  BY OfferStays DEF Shape, D!TypeOK
<1>2. D!TypeOK'
  BY DEF D!TypeOK
<1>3. Shape'
  BY <1>1, NothingPlanned DEF Shape
<1>4. /\ \A e \in DOMAIN offer : \A n \in 1 .. Len(offer[e]) - 1 : ~Ready(e, n)'
      /\ ~PartialsReady' /\ DOMAIN plan' = {}
  BY <1>1, NothingPlanned DEF Ready, PartialsReady, Extra
<1>5. OnlyLateLinks' /\ Vacant' /\ Intact'
  BY <1>4 DEF OnlyLateLinks, LateLink, D!Root, Vacant, Intact, D!IsDir, DirIn
<1> QED BY <1>2, <1>3, <1>5

\* The folder that is ensured next is the one of the partial files, or the next
\* on the way to the file.
LEMMA NextFolder ==
    ASSUME DeckInv, deckAt = "plan", depth < Len(D!Folders(entry)),
           NEW folder, folder = D!Folders(entry)[depth + 1]
    PROVE  /\ folder \in Seq(STRING) /\ folder # <<>>
           /\ \/ /\ folder = <<Partials>> /\ entry = 1 /\ depth = 0
                 /\ D!Parent(folder) = <<>>
              \/ \E n \in 1 .. Len(offer[entry]) - 1 :
                    /\ folder = Folder(entry, n) /\ n + Extra(entry) = depth + 1
                    /\ D!Parent(folder) = IF n = 1 THEN <<>> ELSE Folder(entry, n - 1)
                    /\ n # 1 => Ready(entry, n - 1)
<1>1. /\ offer \in Offers /\ entry \in DOMAIN offer /\ depth \in Nat
      /\ Len(offer[entry]) \in Nat /\ Extra(entry) \in {0, 1}
      /\ (Extra(entry) = 1 <=> entry = 1)
  BY Numbers, OfferPaths DEF DeckInv, Extra
<1>2. /\ Len(D!Folders(entry)) = Len(offer[entry]) - 1 + Extra(entry)
      /\ depth + 1 \in 1 .. Len(D!Folders(entry))
      /\ folder = IF entry = 1 /\ depth + 1 = 1 THEN <<Partials>>
                  ELSE Folder(entry, depth + 1 - Extra(entry))
  BY <1>1, FoldersAre
<1>3. CASE entry = 1 /\ depth = 0
  <2>1. folder = <<Partials>>
    BY <1>2, <1>3
  <2>2. Partials \in STRING /\ <<>> \in Seq(STRING) /\ <<Partials>> = Append(<<>>, Partials)
    BY DeckConstants, EmptySeq
  <2>3. D!Parent(<<Partials>>) = <<>>
    BY <2>2, ParentOfName
  <2> QED BY <1>3, <2>1, <2>3, PartialsPath
<1>4. CASE ~(entry = 1 /\ depth = 0)
  <2> DEFINE n == depth + 1 - Extra(entry)
  <2>1. /\ n \in 1 .. Len(offer[entry]) - 1 /\ n + Extra(entry) = depth + 1
        /\ folder = Folder(entry, n)
    BY <1>1, <1>2, <1>4
  <2>2. n - 1 + Extra(entry) <= depth
    BY <1>1
  <2> HIDE DEF n
  <2>3. Ready(entry, n - 1)
    BY <2>2 DEF Ready
  <2> QED BY <1>1, <2>1, <2>3, FolderIs
<1> QED BY <1>3, <1>4

\* What is above it has been ensured.
LEMMA WayToFolder ==
    ASSUME DeckInv, deckAt = "plan", depth < Len(D!Folders(entry)),
           NEW folder, folder = D!Folders(entry)[depth + 1]
    PROVE  \E m \in 0 .. Len(offer[entry]) - 1 :
              /\ D!Parent(folder) = Folder(entry, m)
              /\ \A n \in 1 .. m : Ready(entry, n)
<1>1. /\ offer \in Offers /\ entry \in DOMAIN offer /\ depth \in Nat
      /\ Len(offer[entry]) \in Nat /\ Len(offer[entry]) >= 1
      /\ Folder(entry, 0) = <<>> /\ Extra(entry) \in {0, 1}
  BY Numbers, OfferPaths, FirstAndLast DEF DeckInv, Extra
<1>2. CASE D!Parent(folder) = <<>>
  <2>1. 0 \in 0 .. Len(offer[entry]) - 1 /\ 1 .. 0 = {}
    BY <1>1
  <2> QED BY <1>1, <1>2, <2>1
<1>3. CASE D!Parent(folder) # <<>>
  <2>1. PICK n \in 1 .. Len(offer[entry]) - 1 :
            n + Extra(entry) = depth + 1 /\ D!Parent(folder) = Folder(entry, n - 1)
    BY <1>3, NextFolder
  <2>2. n - 1 \in 0 .. Len(offer[entry]) - 1 /\ \A k \in 1 .. n - 1 : k + Extra(entry) <= depth
    BY <1>1, <2>1
  <2>3. \A k \in 1 .. n - 1 : Ready(entry, k)
    BY <2>2 DEF Ready
  <2> QED BY <2>1, <2>2, <2>3
<1> QED BY <1>2, <1>3

\* The links on a way that has been ensured are late, and due to the user.
LEMMA LinksOnTheWay ==
    ASSUME DeckInv, deckAt # "off", NEW e \in DOMAIN offer,
           NEW m \in 0 .. Len(offer[e]) - 1, \A n \in 1 .. m : Ready(e, n)
    PROVE  /\ D!LinksInto(Folder(e, m)) \subseteq relinked
           /\ deckEdits = 0 => D!LinksInto(Folder(e, m)) = {}
<1>1. /\ offer \in Offers /\ D!IsTree(deckTree) /\ OnlyLateLinks /\ Intact
      /\ Len(offer[e]) \in Nat
  BY OfferPaths DEF DeckInv, D!TypeOK
<1>2. ASSUME NEW q \in D!LinksInto(Folder(e, m))
      PROVE  q \in relinked /\ deckEdits # 0
  <2>1. /\ q \in DOMAIN deckTree /\ deckTree[q].kind = "link" /\ q \in Seq(STRING)
        /\ D!IsPrefix(q, Folder(e, m))
    BY <1>1 DEF D!LinksInto, D!IsTree
  <2>2. q = <<>> \/ \E n \in 1 .. m : q = Folder(e, n)
    BY <1>1, <2>1, PrefixOfFolder
  <2>3. \A n \in 1 .. m : n \in 1 .. Len(offer[e]) - 1
    BY <1>1
  <2>4. LateLink(q)
    BY <1>1, <2>2, <2>3 DEF OnlyLateLinks
  <2>5. deckEdits = 0 => DirIn(deckTree, q)
    BY <1>1, <2>2, <2>3 DEF Intact
  <2> QED BY <2>1, <2>4, <2>5 DEF LateLink, DirIn
<1> QED BY <1>2

\* And those on the way to the partial files.
LEMMA LinksToPartials ==
    ASSUME DeckInv, deckAt # "off", PartialsReady
    PROVE  D!LinksInto(<<Partials>>) \subseteq relinked
<1>1. D!IsTree(deckTree) /\ OnlyLateLinks
  BY DEF DeckInv, D!TypeOK
<1>2. ASSUME NEW q \in D!LinksInto(<<Partials>>)
      PROVE  q \in relinked
  <2>1. /\ q \in DOMAIN deckTree /\ deckTree[q].kind = "link" /\ q \in Seq(STRING)
        /\ D!IsPrefix(q, <<Partials>>)
    BY <1>1 DEF D!LinksInto, D!IsTree
  <2>2. q \in {<<>>, <<Partials>>}
    BY <2>1, PrefixOfPartials
  <2> QED BY <1>1, <2>1, <2>2 DEF OnlyLateLinks, LateLink
<1> QED BY <1>2

\* A folder is ensured.
LEMMA EnsureFolderInv ==
    ASSUME DeckInv, D!EnsureFolder
    PROVE  DeckInv'
<1> DEFINE folder == D!Folders(entry)[depth + 1]
           links == D!LinksInto(D!Parent(folder))
<1>1. /\ deckAt = "plan" /\ depth < Len(D!Folders(entry)) /\ depth' = depth + 1
      /\ UNCHANGED <<deckAt, offer, entry, plan, relinked, late, deckEdits, faults>>
      /\ \/ /\ D!IsOrCanBeFolder(folder) /\ UNCHANGED outside
            /\ deckTree' = IF folder \in DOMAIN deckTree THEN deckTree
                           ELSE D!Grow(folder, D!Dir)
         \/ links # {} /\ outside' \in {outside, outside \cup links} /\ UNCHANGED deckTree
  BY DEF D!EnsureFolder
<1>2. /\ D!TypeOK /\ Shape /\ OnlyLateLinks /\ Vacant /\ Intact /\ D!IsTree(deckTree)
      /\ offer \in Offers /\ entry \in DOMAIN offer /\ entry \in Nat /\ entry >= 1
      /\ depth \in Nat /\ outside \subseteq relinked
  BY Numbers DEF DeckInv, D!TypeOK, OnlyLateLinks
<1> HIDE DEF folder, links
<1>3. folder \in Seq(STRING) /\ folder # <<>>
  BY <1>1, NextFolder DEF folder
<1>13. links \subseteq relinked /\ (deckEdits = 0 => links = {})
  <2>1. PICK m \in 0 .. Len(offer[entry]) - 1 :
            D!Parent(folder) = Folder(entry, m) /\ \A n \in 1 .. m : Ready(entry, n)
    BY <1>1, WayToFolder DEF folder
  <2> QED BY <1>1, <1>2, <2>1, LinksOnTheWay DEF links
<1>4. /\ D!IsTree(deckTree') /\ outside' \subseteq relinked
      /\ folder \in DOMAIN deckTree' => deckTree'[folder].kind = "dir"
      /\ deckEdits = 0 => DirIn(deckTree', folder)
      /\ \A q \in DOMAIN deckTree' : q \in DOMAIN deckTree \/ q = folder
      /\ \A q \in DOMAIN deckTree : q \in DOMAIN deckTree' /\ deckTree'[q] = deckTree[q]
  <2>1. CASE D!IsOrCanBeFolder(folder) /\ folder \in DOMAIN deckTree /\ UNCHANGED deckTree
             /\ UNCHANGED outside
    BY <1>1, <1>2, <2>1 DEF D!IsOrCanBeFolder, D!IsDir, DirIn
  <2>2. CASE D!IsOrCanBeFolder(folder) /\ folder \notin DOMAIN deckTree
             /\ deckTree' = D!Grow(folder, D!Dir) /\ UNCHANGED outside
    <3>1. DirIn(deckTree, D!Parent(folder)) /\ ~DirIn(deckTree, folder) /\ D!Dir \in D!Node
      BY <1>1, <2>2 DEF D!IsOrCanBeFolder, D!IsDir, DirIn, D!Dir, D!Node
    <3>3. /\ D!IsTree(deckTree') /\ deckTree'[folder] = D!Dir
          /\ DOMAIN deckTree' = DOMAIN deckTree \cup {folder}
          /\ \A q \in DOMAIN deckTree : q # folder => deckTree'[q] = deckTree[q]
      BY <1>2, <1>3, <2>2, <3>1, GrowsTree
    <3> QED BY <1>2, <2>2, <3>3 DEF DirIn, D!Dir
  <2>3. CASE links # {} /\ outside' \in {outside, outside \cup links} /\ UNCHANGED deckTree
    <3>1. deckEdits # 0 /\ outside' \subseteq relinked
      BY <1>2, <1>13, <2>3
    <3>2. folder \notin DOMAIN deckTree
      <4>1. PICK q \in DOMAIN deckTree :
                D!IsPrefix(q, D!Parent(folder)) /\ deckTree[q].kind = "link"
        BY <2>3 DEF links, D!LinksInto
      <4> QED BY <1>2, <1>3, <4>1, NothingBeneath
    <3> QED BY <1>2, <2>3, <3>1, <3>2
  <2> QED BY <1>1, <2>1, <2>2, <2>3
<1>5. \A q : DirIn(deckTree', q) => DirIn(deckTree, q) \/ q = folder
  BY <1>4 DEF D!IsDir, DirIn
<1>6. /\ \A e : D!Folders(e)' = D!Folders(e)
      /\ \A e : D!Range(D!Candidates(e))' = D!Range(D!Candidates(e))
      /\ \A e, n : Folder(e, n)' = Folder(e, n)
  BY <1>1, OfferStays
<1>7. D!TypeOK'
  <2>1. depth' \in 0 .. Len(offer[entry])
    BY <1>1, <1>2, FoldersAre, OfferPaths DEF Extra
  <2> QED BY <1>1, <1>2, <1>4, <2>1 DEF D!TypeOK
<1>8. Shape'
  BY <1>1, <1>2, <1>6 DEF Shape
<1>9. \A e \in DOMAIN offer : \A n \in 1 .. Len(offer[e]) - 1 :
         Ready(e, n)' => Ready(e, n) \/ Folder(e, n) = folder
  <2> SUFFICES ASSUME NEW e \in DOMAIN offer, NEW n \in 1 .. Len(offer[e]) - 1,
                      Ready(e, n)', ~Ready(e, n)
               PROVE  Folder(e, n) = folder
    OBVIOUS
  <2>1. e = entry /\ n + Extra(e) = depth + 1
    BY <1>1, <1>2 DEF Ready, Extra
  <2>2. \/ entry = 1 /\ depth = 0
        \/ \E m \in 1 .. Len(offer[entry]) - 1 :
              folder = Folder(entry, m) /\ m + Extra(entry) = depth + 1
    BY <1>1, NextFolder DEF folder
  <2>3. ~(entry = 1 /\ depth = 0)
    BY <2>1 DEF Extra
  <2> QED BY <1>2, <2>1, <2>2, <2>3 DEF Extra
<1>10. OnlyLateLinks'
  <2>1. \A q : LateLink(q) \/ q = folder =>
            (q \in DOMAIN deckTree' /\ deckTree'[q].kind = "link" => q \in relinked)
    BY <1>4 DEF LateLink
  <2>2. LateLink(<<>>) /\ (PartialsReady => LateLink(<<Partials>>))
    BY <1>1, <1>2 DEF OnlyLateLinks
  <2>3. PartialsReady' => PartialsReady \/ folder = <<Partials>>
    BY <1>1, <1>2, NextFolder DEF folder, PartialsReady, Extra
  <2>4. ASSUME NEW e \in DOMAIN offer, NEW n \in 1 .. Len(offer[e]) - 1, Ready(e, n)'
        PROVE  LateLink(Folder(e, n)) \/ Folder(e, n) = folder
    BY <1>2, <1>9, <2>4 DEF OnlyLateLinks
  <2> QED BY <1>1, <1>4, <1>6, <2>1, <2>2, <2>3, <2>4 DEF OnlyLateLinks, LateLink
<1>11. Vacant'
  <2> SUFFICES ASSUME NEW e \in DOMAIN plan, Pending(e)', plan[e] \in DOMAIN deckTree'
               PROVE  deckTree'[plan[e]].kind \in {"dangling", "dir"} \/ plan[e] \in late
    BY <1>1 DEF Vacant
  <2>1. Pending(e)
    BY <1>1 DEF Pending
  <2>2. CASE plan[e] = folder
    BY <1>4, <2>2 DEF D!IsDir, DirIn
  <2>3. CASE plan[e] # folder
    BY <1>2, <1>4, <2>1, <2>3 DEF Vacant
  <2> QED BY <2>2, <2>3
<1>12. Intact'
  <2> SUFFICES ASSUME deckEdits' = 0
               PROVE  /\ DirIn(deckTree', <<>>) /\ DirIn(deckTree', <<Partials>>)
                      /\ \A e \in DOMAIN offer : \A n \in 1 .. Len(offer[e]) - 1 :
                            Ready(e, n)' => DirIn(deckTree', Folder(e, n))
                      /\ \A e \in DOMAIN plan : DirIn(deckTree', plan[e]) =>
                            \E f \in DOMAIN offer : D!IsStrictPrefix(plan[e], offer[f])
    <3>1. \A d, p : D!IsStrictPrefix(d, p)' <=> D!IsStrictPrefix(d, p)
      BY DEF D!IsStrictPrefix, D!IsPrefix
    <3> QED BY <1>1, <1>6, <3>1 DEF Intact
  <2>1. deckEdits = 0
    BY <1>1
  <2>6. \A q : DirIn(deckTree, q) => DirIn(deckTree', q)
    BY <1>4 DEF DirIn
  <2>2. DirIn(deckTree', <<>>)
    BY <1>1, <1>2, <2>1, <2>6 DEF Intact
  <2>3. DirIn(deckTree', <<Partials>>)
    <3>1. PartialsReady \/ folder = <<Partials>>
      BY <1>1, <1>2, NextFolder DEF folder, PartialsReady, Extra
    <3> QED BY <1>2, <1>4, <2>1, <2>6, <3>1 DEF Intact
  <2>4. ASSUME NEW e \in DOMAIN offer, NEW n \in 1 .. Len(offer[e]) - 1, Ready(e, n)'
        PROVE  DirIn(deckTree', Folder(e, n))
    BY <1>2, <1>4, <1>9, <2>1, <2>4, <2>6 DEF Intact
  <2>5. ASSUME NEW e \in DOMAIN plan, DirIn(deckTree', plan[e])
        PROVE  \E f \in DOMAIN offer : D!IsStrictPrefix(plan[e], offer[f])
    <3>1. CASE DirIn(deckTree, plan[e])
      BY <1>1, <1>2, <2>1, <3>1 DEF Intact, Pending
    <3>2. CASE plan[e] = folder
      <4>1. ~(entry = 1 /\ depth = 0)
        BY <1>1, <1>2, LenProperties DEF Shape
      <4>2. PICK n \in 1 .. Len(offer[entry]) - 1 : folder = Folder(entry, n)
        BY <1>1, <4>1, NextFolder DEF folder
      <4> QED BY <1>2, <3>2, <4>2, FolderIs
    <3> QED BY <1>5, <2>5, <3>1, <3>2
  <2> QED BY <2>2, <2>3, <2>4, <2>5
<1> QED BY <1>7, <1>8, <1>10, <1>11, <1>12 DEF DeckInv

\* A file gets a destination.
LEMMA ChooseDestinationInv ==
    ASSUME DeckInv, D!ChooseDestination
    PROVE  DeckInv'
<1>1. /\ deckAt = "plan" /\ depth = Len(D!Folders(entry)) /\ depth' = 0
      /\ IF entry = Len(offer) THEN deckAt' = "rename" /\ entry' = 1
                               ELSE deckAt' = "plan" /\ entry' = entry + 1
      /\ UNCHANGED <<deckTree, offer, outside, relinked, late, deckEdits, faults>>
  BY DEF D!ChooseDestination
<1>2. PICK d \in D!Range(D!Candidates(entry)) : D!IsFree(d) /\ plan' = Append(plan, d)
  BY DEF D!ChooseDestination, D!Range
<1>3. /\ D!TypeOK /\ Shape /\ OnlyLateLinks /\ Vacant /\ Intact /\ D!IsTree(deckTree)
      /\ offer \in Offers /\ entry \in DOMAIN offer /\ entry \in Nat /\ entry >= 1
      /\ DOMAIN plan = 1 .. Len(plan) /\ Len(plan) = entry - 1
      /\ plan \in Seq(Seq(STRING))
  BY <1>1, Numbers DEF DeckInv, D!TypeOK, Shape
<1>4. d \in Seq(STRING)
  BY <1>3, CandidatesAre
<1>5. /\ plan' \in Seq(Seq(STRING)) /\ Len(plan') = entry /\ DOMAIN plan' = 1 .. entry
      /\ plan'[entry] = d /\ \A e \in DOMAIN plan : plan'[e] = plan[e]
      /\ \A e \in DOMAIN plan' : e = entry \/ e \in DOMAIN plan
  BY <1>2, <1>3, <1>4, AppendProperties, LenProperties
<1>6. /\ \A e : D!Folders(e)' = D!Folders(e)
      /\ \A e : D!Range(D!Candidates(e))' = D!Range(D!Candidates(e))
      /\ \A e, n : Folder(e, n)' = Folder(e, n)
  BY <1>1, OfferStays
<1>7. /\ Len(offer) \in Nat /\ DOMAIN offer = 1 .. Len(offer)
      /\ entry' \in DOMAIN offer /\ entry' >= 1
      /\ \A e \in DOMAIN offer :
            Len(offer[e]) \in Nat /\ Len(D!Folders(e)) \in Nat /\ Extra(e) \in {0, 1}
  <2>1. /\ Len(offer) \in Nat /\ DOMAIN offer = 1 .. Len(offer)
        /\ \A e \in DOMAIN offer : Len(offer[e]) \in Nat /\ Len(offer[e]) >= 1
    BY <1>3, OfferPaths
  <2> QED BY <1>1, <1>3, <2>1, FoldersAre DEF Extra
<1>8. D!TypeOK'
  BY <1>1, <1>3, <1>5, <1>7 DEF D!TypeOK
<1>9. Shape'
  <2>1. \A e \in DOMAIN plan' : plan'[e] \in D!Range(D!Candidates(e))
    BY <1>2, <1>3, <1>5 DEF Shape
  <2>2. \A e, f \in DOMAIN plan' : plan'[e] = plan'[f] => e = f
    <3>1. \A e \in DOMAIN plan : plan[e] # d
      BY <1>2 DEF D!IsFree, D!Range
    <3>2. \A e, f \in DOMAIN plan : plan[e] = plan[f] => e = f
      BY <1>3 DEF Shape
    <3> QED BY <1>5, <3>1, <3>2
  <2>3. depth' <= Len(D!Folders(entry'))
    BY <1>1, <1>7
  <2> QED BY <1>1, <1>3, <1>5, <1>6, <1>7, <2>1, <2>2, <2>3 DEF Shape
<1>10. \A e \in DOMAIN offer : \A n \in 1 .. Len(offer[e]) - 1 :
          Ready(e, n)' => Ready(e, n)
  <2> SUFFICES ASSUME NEW e \in DOMAIN offer, NEW n \in 1 .. Len(offer[e]) - 1,
                      Ready(e, n)'
               PROVE  Ready(e, n)
    OBVIOUS
  <2>1. e <= entry
    <3>1. CASE entry = Len(offer)
      BY <1>7, <3>1
    <3>2. CASE entry # Len(offer)
      <4>1. e < entry + 1 \/ n + Extra(e) <= 0
        BY <1>1, <3>2 DEF Ready
      <4>2. n >= 1 /\ n \in Int /\ Extra(e) >= 0 /\ Extra(e) \in Int
        BY <1>7
      <4>3. e < entry + 1
        BY <4>1, <4>2
      <4>4. e \in Int /\ entry \in Int
        BY <1>3, <1>7
      <4> QED BY <4>3, <4>4
    <3> QED BY <3>1, <3>2
  <2>2. e = entry => n + Extra(e) <= depth
    BY <1>1, <1>3, FolderIs, <1>7
  <2> QED BY <1>1, <1>3, <1>7, <2>1, <2>2 DEF Ready
<1>15. PartialsReady
  <2>1. entry = 1 => depth > 0
    BY <1>1, <1>3, FoldersAre, OfferPaths DEF Extra
  <2> QED BY <1>1, <1>3, <2>1 DEF PartialsReady
<1>11. OnlyLateLinks'
  BY <1>1, <1>3, <1>6, <1>10, <1>15 DEF OnlyLateLinks, LateLink
<1>12. d \in DOMAIN deckTree => deckTree[d].kind = "dangling"
  BY <1>2 DEF D!IsFree, D!Exists
<1>13. Vacant'
  <2> SUFFICES ASSUME NEW e \in DOMAIN plan', plan'[e] \in DOMAIN deckTree
               PROVE  deckTree[plan'[e]].kind \in {"dangling", "dir"} \/ plan'[e] \in late
    BY <1>1 DEF Vacant
  <2>1. CASE e = entry
    BY <1>5, <1>12, <2>1
  <2>2. CASE e # entry
    <3>1. e \in DOMAIN plan /\ plan'[e] = plan[e]
      BY <1>5, <2>2
    <3> QED BY <1>1, <1>3, <3>1 DEF Vacant, Pending
  <2> QED BY <2>1, <2>2
<1>14. Intact'
  <2> SUFFICES ASSUME deckEdits = 0
               PROVE  /\ DirIn(deckTree, <<>>) /\ DirIn(deckTree, <<Partials>>)
                      /\ \A e \in DOMAIN offer : \A n \in 1 .. Len(offer[e]) - 1 :
                            Ready(e, n)' => DirIn(deckTree, Folder(e, n))
                      /\ \A e \in DOMAIN plan' : DirIn(deckTree, plan'[e]) =>
                            \E f \in DOMAIN offer : D!IsStrictPrefix(plan'[e], offer[f])
    <3>1. \A c, p : D!IsStrictPrefix(c, p)' <=> D!IsStrictPrefix(c, p)
      BY DEF D!IsStrictPrefix, D!IsPrefix
    <3> QED BY <1>1, <1>6, <3>1 DEF Intact
  <2>1. DirIn(deckTree, <<>>)
    BY <1>1, <1>3 DEF Intact
  <2>2. DirIn(deckTree, <<Partials>>)
    <3>1. entry = 1 => depth > 0
      BY <1>1, <1>3, FoldersAre, OfferPaths DEF Extra
    <3> QED BY <1>1, <1>3, <3>1 DEF Intact, PartialsReady
  <2>3. ASSUME NEW e \in DOMAIN offer, NEW n \in 1 .. Len(offer[e]) - 1, Ready(e, n)'
        PROVE  DirIn(deckTree, Folder(e, n))
    BY <1>3, <1>10, <2>3 DEF Intact
  <2>4. ASSUME NEW e \in DOMAIN plan', DirIn(deckTree, plan'[e])
        PROVE  \E f \in DOMAIN offer : D!IsStrictPrefix(plan'[e], offer[f])
    <3>1. e # entry
      BY <1>5, <1>12, <2>4 DEF DirIn
    <3>2. e \in DOMAIN plan /\ plan'[e] = plan[e]
      BY <1>5, <3>1
    <3> QED BY <1>1, <1>3, <2>4, <3>2 DEF Intact, Pending
  <2> QED BY <2>1, <2>2, <2>3, <2>4
<1> QED BY <1>8, <1>9, <1>11, <1>13, <1>14 DEF DeckInv

\* A destination is beneath the receive folder, and the links on the way to it
\* and to the partial files are late.
LEMMA WayToDestination ==
    ASSUME DeckInv, deckAt = "rename"
    PROVE  /\ entry \in DOMAIN plan /\ D!Destination \in Seq(STRING)
           /\ D!Destination # <<>> /\ D!Destination \in D!Range(D!Candidates(entry))
           /\ D!LinksInto(D!Parent(D!Destination)) \subseteq relinked
           /\ deckEdits = 0 => D!LinksInto(D!Parent(D!Destination)) = {}
           /\ D!LinksInto(<<Partials>>) \subseteq relinked
<1>1. /\ D!TypeOK /\ Shape /\ offer \in Offers
      /\ entry \in DOMAIN offer /\ entry \in DOMAIN plan
  BY Numbers, OfferPaths DEF DeckInv, D!TypeOK, Shape
<1>2. D!Destination \in D!Range(D!Candidates(entry))
  BY <1>1 DEF Shape, D!Destination
<1>3. /\ D!Destination \in Seq(STRING) /\ D!Destination # <<>>
      /\ D!Parent(D!Destination) = D!Parent(offer[entry])
  BY <1>1, <1>2, CandidatesAre
<1> DEFINE m == Len(offer[entry]) - 1
<1>4. m \in 0 .. Len(offer[entry]) - 1 /\ D!Parent(D!Destination) = Folder(entry, m)
  BY <1>1, <1>3, FirstAndLast
<1>5. (\A n \in 1 .. m : Ready(entry, n)) /\ PartialsReady
  BY DEF Ready, PartialsReady
<1> HIDE DEF m
<1>6. /\ D!LinksInto(Folder(entry, m)) \subseteq relinked
      /\ deckEdits = 0 => D!LinksInto(Folder(entry, m)) = {}
  BY <1>1, <1>4, <1>5, LinksOnTheWay
<1>7. D!LinksInto(<<Partials>>) \subseteq relinked
  BY <1>5, LinksToPartials
<1> QED BY <1>1, <1>2, <1>3, <1>4, <1>6, <1>7

\* A file is stored.
LEMMA RenameInv ==
    ASSUME DeckInv, D!Rename
    PROVE  DeckInv'
<1> DEFINE to == D!Destination
           file == [kind |-> "file", by |-> entry]
<1>1. /\ deckAt = "rename" /\ to \in Seq(STRING) /\ to # <<>>
      /\ entry \in DOMAIN plan /\ to = plan[entry]
      /\ D!LinksInto(D!Parent(to)) \cup D!LinksInto(<<Partials>>) \subseteq relinked
  BY WayToDestination DEF D!Rename, D!Destination
<1>2. /\ \/ UNCHANGED deckTree
         \/ deckTree' = D!Grow(to, file) /\ D!CanName
      /\ outside' = outside \cup D!LinksInto(<<Partials>>) \cup D!LinksInto(D!Parent(to))
      /\ IF entry = Len(offer) THEN deckAt' = "confirm" /\ UNCHANGED entry
                               ELSE deckAt' = "rename" /\ entry' = entry + 1
      /\ UNCHANGED <<offer, depth, plan, relinked, late, deckEdits, faults>>
  BY DEF D!Rename
<1>3. /\ D!TypeOK /\ Shape /\ OnlyLateLinks /\ Vacant /\ Intact /\ D!IsTree(deckTree)
      /\ offer \in Offers /\ entry \in DOMAIN offer /\ entry \in Nat /\ depth = 0
      /\ Len(offer) \in Nat /\ DOMAIN offer = 1 .. Len(offer)
  BY <1>1, Numbers, OfferPaths DEF DeckInv, D!TypeOK, Shape
<1>4. /\ D!IsTree(deckTree')
      /\ \A q \in DOMAIN deckTree' :
            \/ q = to /\ deckTree'[q].kind = "file"
            \/ q \in DOMAIN deckTree /\ deckTree'[q] = deckTree[q]
      /\ \A q : DirIn(deckTree, q) => DirIn(deckTree', q)
  <2>1. CASE UNCHANGED deckTree
    BY <1>3, <2>1 DEF DirIn
  <2>2. CASE deckTree' = D!Grow(to, file) /\ D!CanName
    <3>1. DirIn(deckTree, D!Parent(to)) /\ ~DirIn(deckTree, to)
      BY <2>2 DEF D!CanName, D!IsDir, DirIn
    <3>2. file \in D!Node /\ file.kind = "file" /\ deckTree' = D!Grow(to, file)
      BY <1>3, <2>2 DEF D!Node
    <3> HIDE DEF to, file
    <3>3. /\ D!IsTree(deckTree') /\ DOMAIN deckTree' = DOMAIN deckTree \cup {to}
          /\ deckTree'[to].kind = "file"
          /\ \A q \in DOMAIN deckTree : q # to => deckTree'[q] = deckTree[q]
          /\ \A q : DirIn(deckTree, q) => DirIn(deckTree', q)
      BY <1>1, <1>3, <3>1, <3>2, GrowsTree
    <3> QED BY <3>3
  <2> QED BY <1>2, <2>1, <2>2
<1> HIDE DEF to, file
<1>5. /\ \A e : D!Folders(e)' = D!Folders(e)
      /\ \A e : D!Range(D!Candidates(e))' = D!Range(D!Candidates(e))
      /\ \A e, n : Folder(e, n)' = Folder(e, n)
  BY <1>2, OfferStays
<1>6. entry' \in DOMAIN offer
  BY <1>2, <1>3
<1>7. D!TypeOK'
  BY <1>2, <1>3, <1>4, <1>6, OfferPaths DEF D!TypeOK
<1>8. Shape'
  <2>1. 0 <= Len(D!Folders(entry'))
    BY <1>3, <1>6, FoldersAre, OfferPaths DEF Extra
  <2>2. deckAt' \in {"confirm", "rename"} /\ Len(plan) = Len(offer)
    BY <1>1, <1>2, <1>3 DEF Shape
  <2>3. UNCHANGED plan /\ depth' = 0 /\ UNCHANGED offer
    BY <1>2, <1>3
  <2>4. depth' <= Len(D!Folders(entry)')
    <3>1. D!Folders(entry)' = D!Folders(entry')
      BY <2>3 DEF D!Folders, D!Parent, D!Front
    <3> QED BY <2>1, <2>3, <3>1
  <2> QED BY <1>3, <1>5, <2>2, <2>3, <2>4 DEF Shape
<1>9. /\ \A e, n : Ready(e, n)' => Ready(e, n)
      /\ PartialsReady' => PartialsReady
      /\ \A e \in DOMAIN plan : Pending(e)' => Pending(e) /\ e # entry
  <2>1. \A e \in DOMAIN plan : e \in Nat
    BY <1>3, Numbers
  <2> QED BY <1>1, <1>2, <1>3, <2>1 DEF Ready, PartialsReady, Pending
<1>10. OnlyLateLinks'
  <2>1. outside' \subseteq relinked
    BY <1>1, <1>2, <1>3 DEF OnlyLateLinks
  <2>2. \A q : LateLink(q) =>
           (q \in DOMAIN deckTree' /\ deckTree'[q].kind = "link" => q \in relinked)
    BY <1>4 DEF LateLink
  <2>3. LateLink(<<>>) /\ (PartialsReady' => LateLink(<<Partials>>))
    BY <1>1, <1>3, <1>9 DEF OnlyLateLinks
  <2>4. ASSUME NEW e \in DOMAIN offer, NEW n \in 1 .. Len(offer[e]) - 1, Ready(e, n)'
        PROVE  LateLink(Folder(e, n))
    BY <1>3, <1>9, <2>4 DEF OnlyLateLinks
  <2> QED BY <1>2, <1>5, <2>1, <2>2, <2>3, <2>4 DEF OnlyLateLinks, LateLink
<1>11. Vacant'
  <2> SUFFICES ASSUME NEW e \in DOMAIN plan, Pending(e)', plan[e] \in DOMAIN deckTree'
               PROVE  deckTree'[plan[e]].kind \in {"dangling", "dir"} \/ plan[e] \in late
    BY <1>2 DEF Vacant
  <2>1. plan[e] # to
    BY <1>1, <1>3, <1>9 DEF Shape
  <2> QED BY <1>3, <1>4, <1>9, <2>1 DEF Vacant
<1>12. Intact'
  <2> SUFFICES ASSUME deckEdits = 0
               PROVE  /\ DirIn(deckTree', <<>>)
                      /\ PartialsReady' => DirIn(deckTree', <<Partials>>)
                      /\ \A e \in DOMAIN offer : \A n \in 1 .. Len(offer[e]) - 1 :
                            Ready(e, n)' => DirIn(deckTree', Folder(e, n))
                      /\ \A e \in DOMAIN plan : Pending(e)' /\ DirIn(deckTree', plan[e]) =>
                            \E f \in DOMAIN offer : D!IsStrictPrefix(plan[e], offer[f])
    <3>1. \A c, p : D!IsStrictPrefix(c, p)' <=> D!IsStrictPrefix(c, p)
      BY DEF D!IsStrictPrefix, D!IsPrefix
    <3> QED BY <1>2, <1>5, <3>1 DEF Intact
  <2>1. DirIn(deckTree', <<>>) /\ (PartialsReady' => DirIn(deckTree', <<Partials>>))
    BY <1>1, <1>3, <1>4, <1>9 DEF Intact
  <2>2. \A e \in DOMAIN offer : \A n \in 1 .. Len(offer[e]) - 1 :
           Ready(e, n)' => DirIn(deckTree', Folder(e, n))
    BY <1>3, <1>4, <1>9 DEF Intact
  <2>3. \A e \in DOMAIN plan : DirIn(deckTree', plan[e]) => DirIn(deckTree, plan[e])
    BY <1>4 DEF DirIn
  <2> QED BY <1>3, <1>9, <2>1, <2>2, <2>3 DEF Intact
<1> QED BY <1>7, <1>8, <1>10, <1>11, <1>12 DEF DeckInv

\* The PC learns that everything is stored.
LEMMA ConfirmInv ==
    ASSUME DeckInv, D!Confirm
    PROVE  DeckInv'
<1> USE DEF D!Confirm
<1>1. D!TypeOK'
  BY DEF DeckInv, D!TypeOK
<1>2. Shape'
  BY OfferStays DEF DeckInv, Shape
<1>3. ~PartialsReady' /\ \A e : ~Pending(e)' /\ \A n : ~Ready(e, n)'
  BY DEF PartialsReady, Pending, Ready
<1>4. OnlyLateLinks' /\ Vacant' /\ Intact'
  BY <1>3 DEF DeckInv, OnlyLateLinks, LateLink, Vacant, Intact, DirIn
<1> QED BY <1>1, <1>2, <1>4 DEF DeckInv

-----------------------------------------------------------------------------
(* The steps of the user. *)

\* What the user does leaves the receiver where it is.
LEMMA EditLeaves ==
    ASSUME DeckInv, D!Edit, D!IsTree(deckTree')
    PROVE  /\ D!TypeOK' /\ Shape' /\ Intact'
           /\ \A e, n : Folder(e, n)' = Folder(e, n) /\ (Ready(e, n)' <=> Ready(e, n))
           /\ \A e : Pending(e)' <=> Pending(e)
<1> USE DEF D!Edit
<1>1. deckEdits \in Nat /\ deckEdits' \in 0 .. MaxDeckEdits /\ deckEdits' # 0
  BY DeckConstants DEF DeckInv, D!TypeOK
<1>2. D!TypeOK'
  BY <1>1 DEF DeckInv, D!TypeOK
<1>3. Shape'
  BY OfferStays DEF DeckInv, Shape
<1>4. Intact'
  BY <1>1 DEF Intact
<1>5. \A e, n : Folder(e, n)' = Folder(e, n) /\ (Ready(e, n)' <=> Ready(e, n))
  BY OfferStays DEF Ready
<1>6. \A e : Pending(e)' <=> Pending(e)
  BY DEF Pending
<1> QED BY <1>2, <1>3, <1>4, <1>5, <1>6

\* The folders that are ready are among those that have been ensured.
LEMMA EnsuredAre ==
    ASSUME DeckInv
    PROVE  /\ deckAt # "off" => <<>> \in D!Ensured
           /\ PartialsReady => <<Partials>> \in D!Ensured
           /\ \A e \in DOMAIN offer : \A n \in 1 .. Len(offer[e]) - 1 :
                 Ready(e, n) => Folder(e, n) \in D!Ensured
<1>1. /\ offer \in Offers /\ entry \in Nat /\ entry >= 1 /\ DOMAIN offer = 1 .. Len(offer)
      /\ 1 \in DOMAIN offer /\ Len(offer) \in Nat /\ depth \in Nat
      /\ \A e \in DOMAIN offer : Len(offer[e]) \in Nat /\ Len(offer[e]) >= 1
  BY Numbers, OfferPaths DEF DeckInv
<1>2. deckAt # "off" => <<>> \in D!Ensured
  BY DEF D!Ensured, D!Root
<1>3. ASSUME deckAt \in {"plan", "rename"}, NEW e \in DOMAIN offer,
             NEW k \in 1 .. Len(D!Folders(e)),
             deckAt = "plan" => e < entry \/ (e = entry /\ k <= depth)
      PROVE  D!Folders(e)[k] \in D!Ensured
  <2>1. k \in DOMAIN D!Folders(e) /\ e \in Nat
    BY <1>1, FoldersAre
  <2>2. (deckAt = "plan" => e <= entry) /\ (deckAt = "plan" /\ e = entry => k <= depth)
    BY <1>1, <1>3, <2>1
  <2> QED BY <1>3, <2>1, <2>2 DEF D!Ensured
<1>4. PartialsReady => <<Partials>> \in D!Ensured
  <2>1. 1 \in 1 .. Len(D!Folders(1)) /\ D!Folders(1)[1] = <<Partials>>
    BY <1>1, FoldersAre DEF Extra
  <2>2. PartialsReady => /\ deckAt \in {"plan", "rename"}
                         /\ deckAt = "plan" => 1 < entry \/ (1 = entry /\ 1 <= depth)
    BY <1>1 DEF PartialsReady
  <2> QED BY <1>1, <1>3, <2>1, <2>2
<1>5. ASSUME NEW e \in DOMAIN offer, NEW n \in 1 .. Len(offer[e]) - 1, Ready(e, n)
      PROVE  Folder(e, n) \in D!Ensured
  <2>1. n + Extra(e) \in 1 .. Len(D!Folders(e))
    BY <1>1, FolderIs
  <2>2. D!Folders(e)[n + Extra(e)] = Folder(e, n)
    BY <1>1, <2>1, FoldersAre DEF Extra
  <2>3. /\ deckAt \in {"plan", "rename"}
        /\ deckAt = "plan" => e < entry \/ (e = entry /\ n + Extra(e) <= depth)
    BY <1>5 DEF Ready
  <2> QED BY <1>3, <2>1, <2>2, <2>3
<1> QED BY <1>2, <1>4, <1>5

\* Something is put in the way.
LEMMA PutInv ==
    ASSUME DeckInv, NEW p \in Spots, NEW kind \in {"dir", "file", "link", "dangling"},
           D!Put(p, kind)
    PROVE  DeckInv'
<1> DEFINE node == [kind |-> kind, by |-> 0]
<1>1. /\ D!Edit /\ p \notin DOMAIN deckTree
      /\ p # D!Root => DirIn(deckTree, D!Parent(p))
      /\ deckTree' = D!Grow(p, node)
      /\ relinked \subseteq relinked'
      /\ kind = "link" /\ p \in D!Ensured => p \in relinked'
      /\ late' = late \cup ({p} \cap D!Range(plan))
      /\ UNCHANGED <<deckAt, offer, entry, depth, plan, outside>>
  BY DEF D!Put, D!Edit, D!IsDir, DirIn
<1>2. /\ OnlyLateLinks /\ Vacant /\ Shape /\ D!IsTree(deckTree) /\ offer \in Offers
  BY DEF DeckInv, D!TypeOK
<1>3. p \in Seq(STRING)
  BY DeckConstants
<1>4. /\ D!IsTree(deckTree') /\ DOMAIN deckTree' = DOMAIN deckTree \cup {p}
      /\ deckTree'[p].kind = kind
      /\ \A q \in DOMAIN deckTree : deckTree'[q] = deckTree[q]
  <2>1. ~DirIn(deckTree, p) /\ node \in D!Node /\ node.kind = kind
    BY <1>1 DEF DirIn, D!Node
  <2> HIDE DEF node
  <2> QED BY <1>1, <1>2, <1>3, <2>1, GrowsTree
<1> HIDE DEF node
<1>5. /\ D!TypeOK' /\ Shape' /\ Intact'
      /\ \A e, n : Folder(e, n)' = Folder(e, n) /\ (Ready(e, n)' <=> Ready(e, n))
      /\ \A e : Pending(e)' <=> Pending(e)
  BY <1>1, <1>4, EditLeaves
<1>6. OnlyLateLinks'
  <2>1. ASSUME NEW q, LateLink(q), q \in D!Ensured, q \in DOMAIN deckTree',
               deckTree'[q].kind = "link"
        PROVE  q \in relinked'
    <3>1. CASE q = p
      BY <1>1, <1>4, <2>1, <3>1
    <3>2. CASE q # p
      BY <1>1, <1>4, <2>1, <3>2 DEF LateLink
    <3> QED BY <3>1, <3>2
  <2>2. deckAt # "off" => LateLink(<<>>)'
    BY <1>2, <2>1, EnsuredAre DEF OnlyLateLinks, LateLink
  <2>3. PartialsReady => LateLink(<<Partials>>)'
    BY <1>2, <2>1, EnsuredAre DEF OnlyLateLinks, LateLink
  <2>4. ASSUME NEW e \in DOMAIN offer, NEW n \in 1 .. Len(offer[e]) - 1, Ready(e, n)
        PROVE  Folder(e, n) \in DOMAIN deckTree' /\ deckTree'[Folder(e, n)].kind = "link"
                  => Folder(e, n) \in relinked'
    BY <1>2, <2>1, <2>4, EnsuredAre DEF OnlyLateLinks, LateLink
  <2>5. outside' \subseteq relinked'
    BY <1>1, <1>2 DEF OnlyLateLinks
  <2>6. PartialsReady' <=> PartialsReady
    BY <1>1 DEF PartialsReady
  <2> QED BY <1>1, <1>5, <2>2, <2>3, <2>4, <2>5, <2>6 DEF OnlyLateLinks, LateLink
<1>7. Vacant'
  <2> SUFFICES ASSUME NEW e \in DOMAIN plan, Pending(e), plan[e] \in DOMAIN deckTree'
               PROVE  deckTree'[plan[e]].kind \in {"dangling", "dir"} \/ plan[e] \in late'
    BY <1>1, <1>5 DEF Vacant
  <2>1. CASE plan[e] = p
    BY <1>1, <2>1 DEF D!Range
  <2>2. CASE plan[e] # p
    BY <1>1, <1>2, <1>4, <2>2 DEF Vacant
  <2> QED BY <2>1, <2>2
<1> QED BY <1>5, <1>6, <1>7 DEF DeckInv

\* Something is removed.
LEMMA TakeAwayInv ==
    ASSUME DeckInv, NEW p \in Spots \cup {D!Root, <<Partials>>}, D!TakeAway(p)
    PROVE  DeckInv'
<1>1. /\ D!Edit /\ UNCHANGED <<deckAt, offer, entry, depth, plan, outside, relinked, late>>
      /\ deckTree' = [q \in {q \in DOMAIN deckTree : ~D!IsPrefix(p, q)} |-> deckTree[q]]
  BY DEF D!TakeAway, D!Edit
<1>2. /\ OnlyLateLinks /\ Vacant /\ D!IsTree(deckTree)
  BY DEF DeckInv, D!TypeOK
<1>3. p \in Seq(STRING)
  BY DeckConstants, PartialsPath, EmptySeq DEF D!Root
<1>4. /\ D!IsTree(deckTree') /\ DOMAIN deckTree' \subseteq DOMAIN deckTree
      /\ \A q \in DOMAIN deckTree' : deckTree'[q] = deckTree[q]
  BY <1>1, <1>2, <1>3, ShrinksTree
<1>5. /\ D!TypeOK' /\ Shape' /\ Intact'
      /\ \A e, n : Folder(e, n)' = Folder(e, n) /\ (Ready(e, n)' <=> Ready(e, n))
      /\ \A e : Pending(e)' <=> Pending(e)
  BY <1>1, <1>4, EditLeaves
<1>6. PartialsReady' <=> PartialsReady
  BY <1>1 DEF PartialsReady
<1>7. OnlyLateLinks'
  BY <1>1, <1>2, <1>4, <1>5, <1>6 DEF OnlyLateLinks, LateLink
<1>8. Vacant'
  BY <1>1, <1>2, <1>4, <1>5 DEF Vacant
<1> QED BY <1>5, <1>7, <1>8 DEF DeckInv

-----------------------------------------------------------------------------
(* All of them. *)

\* Every step at the Deck keeps the invariant.
LEMMA DeckStepInv ==
    ASSUME DeckInv, D!Next
    PROVE  DeckInv'
<1>1. CASE D!Listen
  BY <1>1, ListenInv
<1>2. CASE D!ReceiveOffer
  BY <1>2, ReceiveOfferInv
<1>3. CASE D!EnsureFolder
  BY <1>3, EnsureFolderInv
<1>4. CASE D!ChooseDestination
  BY <1>4, ChooseDestinationInv
<1>5. CASE D!Refuse
  <2>1. faults \in 0 .. MaxFaults /\ outside \subseteq relinked
    BY DEF DeckInv, D!TypeOK, OnlyLateLinks
  <2> QED BY <1>5, <2>1, LeavesInv DEF D!Refuse, D!Leave
<1>6. CASE D!Rename
  BY <1>6, RenameInv
<1>7. CASE D!RenameFails
  <2>1. faults \in 0 .. MaxFaults /\ outside \subseteq relinked
    BY DEF DeckInv, D!TypeOK, OnlyLateLinks
  <2>2. outside' \subseteq relinked
    BY <1>7, <2>1, WayToDestination DEF D!RenameFails
  <2> QED BY <1>7, <2>1, <2>2, LeavesInv DEF D!RenameFails, D!Leave
<1>8. CASE D!Confirm
  BY <1>8, ConfirmInv
<1>9. CASE D!CutOff
  <2>1. faults' \in 0 .. MaxFaults /\ outside \subseteq relinked
    BY <1>9, DeckConstants DEF D!CutOff, DeckInv, D!TypeOK, OnlyLateLinks
  <2> QED BY <1>9, <2>1, LeavesInv DEF D!CutOff, D!Leave
<1>10. CASE \E p \in Spots, kind \in {"dir", "file", "link", "dangling"} : D!Put(p, kind)
  BY <1>10, PutInv
<1>11. CASE \E p \in Spots \cup {D!Root, <<Partials>>} : D!TakeAway(p)
  BY <1>11, TakeAwayInv
<1> QED BY <1>1, <1>2, <1>3, <1>4, <1>5, <1>6, <1>7, <1>8, <1>9, <1>10, <1>11
        DEF D!Next, D!Step

\* Where nothing happens at the Deck, the invariant stays.
LEMMA DeckUnchanged ==
    ASSUME Inv, UNCHANGED <<handed, deckVars>>
    PROVE  Inv'
<1> USE DEF deckVars
<1>1. /\ \A e, n : Folder(e, n)' = Folder(e, n) /\ (Ready(e, n)' <=> Ready(e, n))
      /\ \A e : Pending(e)' <=> Pending(e)
      /\ PartialsReady' <=> PartialsReady
  BY OfferStays DEF Ready, Pending, PartialsReady
<1>2. \A c, p : D!IsStrictPrefix(c, p)' <=> D!IsStrictPrefix(c, p)
  BY DEF D!IsStrictPrefix, D!IsPrefix
<1>3. ASSUME DeckInv PROVE DeckInv'
  <2>1. D!TypeOK'
    BY <1>3 DEF DeckInv, D!TypeOK
  <2>2. Shape'
    BY <1>3, OfferStays DEF DeckInv, Shape
  <2>3. OnlyLateLinks'
    BY <1>1, <1>3 DEF DeckInv, OnlyLateLinks, LateLink
  <2>4. Vacant'
    BY <1>1, <1>3 DEF DeckInv, Vacant
  <2>5. Intact'
    BY <1>1, <1>2, <1>3 DEF DeckInv, Intact, DirIn
  <2> QED BY <2>1, <2>2, <2>3, <2>4, <2>5 DEF DeckInv
<1> QED BY <1>3 DEF Inv

\* The Deck is looked at from the moment the PC sends the offer.
LEMMA HandOverInv ==
    ASSUME Inv, HandOver
    PROVE  Inv'
<1>1. handed' /\ Idle'
  BY DeckConstants DEF HandOver, Inv, Idle
<1> QED BY <1>1, ForgetsInv DEF Inv, HandOver

\* Inv is an invariant, for every offer, every folder and everything its user
\* does in it: the links on the way of an offer are those that he puts there after
\* ensure_real_directory has been there, or prepare_root.
THEOREM Invariance == Spec => []Inv
<1>1. Init => Inv
  BY DEF Init, DeckUnseen, Inv
<1>2. Inv /\ [Next]_vars => Inv'
  <2> SUFFICES ASSUME Inv, [Next]_vars PROVE Inv'
    OBVIOUS
  <2>1. CASE Pc(C!Next)
    BY <2>1, DeckUnchanged DEF Pc
  <2>2. CASE OfferAnything
    BY <2>2, DeckUnchanged DEF OfferAnything
  <2>3. CASE HandOver
    BY <2>3, HandOverInv
  <2>4. CASE Deck(D!Next)
    BY <2>4, DeckStepInv DEF Deck, Inv
  <2>5. CASE UNCHANGED vars
    BY <2>5, DeckUnchanged DEF vars, deckVars
  <2> QED BY <2>1, <2>2, <2>3, <2>4, <2>5 DEF Next
<1> QED BY <1>1, <1>2, PTL DEF Spec

\* The receive folder stays a tree, and the receiver's variables have their types.
THEOREM DeckTypeCorrect == Spec => [](handed => D!TypeOK)
<1>1. Inv => (handed => D!TypeOK)
  BY DEF Inv, DeckInv
<1> QED BY <1>1, Invariance, PTL

\* Whatever is in the receive folder, and whatever its user does there: nothing
\* is made or stored through a link but through one that took the place of a
\* folder after it had been found to be real.
THEOREM StoredInside == Spec => []D!StaysInside
<1>1. Inv => D!StaysInside
  BY DEF Inv, DeckInv, OnlyLateLinks, D!StaysInside
<1> QED BY <1>1, Invariance, PTL

-----------------------------------------------------------------------------
(* What a step may do. *)

\* A step of the receiver replaces nothing but dangling links and what the user
\* has put at a destination after it was found free.
LEMMA KeepsBothAt ==
    ASSUME DeckInv, D!Next
    PROVE  D!KeepsBothStep
<1>1. deckEdits \in Nat /\ Vacant /\ Shape
  BY DEF DeckInv, D!TypeOK
<1>2. CASE D!Rename
  <2> SUFFICES ASSUME deckTree' # deckTree PROVE D!KeepsBothStep
    BY DEF D!KeepsBothStep
  <2>1. /\ deckAt = "rename" /\ entry \in DOMAIN plan
        /\ entry >= entry /\ ~D!IsDir(plan[entry])
        /\ deckTree' = D!Grow(plan[entry], [kind |-> "file", by |-> entry])
    BY <1>2, WayToDestination, Numbers DEF D!Rename, D!CanName, DeckInv, D!Destination
  <2>2. \A q \in DOMAIN deckTree : q # plan[entry] =>
            q \in DOMAIN deckTree' /\ deckTree'[q] = deckTree[q]
    BY <2>1 DEF D!Grow
  <2>3. plan[entry] \in DOMAIN deckTree =>
            deckTree[plan[entry]].kind = "dangling" \/ plan[entry] \in late
    BY <1>1, <2>1 DEF Vacant, Pending, D!IsDir
  <2> QED BY <2>2, <2>3 DEF D!KeepsBothStep
<1>3. CASE D!EnsureFolder
  BY <1>3 DEF D!EnsureFolder, D!Grow, D!KeepsBothStep
<1>4. CASE D!Listen
  BY <1>4 DEF D!Listen, D!Grow, D!KeepsBothStep
<1>5. CASE D!Edit
  BY <1>1, <1>5 DEF D!Edit, D!KeepsBothStep
<1>6. CASE UNCHANGED deckTree
  BY <1>6 DEF D!KeepsBothStep
<1>7. \/ D!Rename \/ D!EnsureFolder \/ D!Listen \/ D!Edit \/ UNCHANGED deckTree
  BY DEF D!Next, D!Step, D!ReceiveOffer, D!ChooseDestination, D!Refuse, D!RenameFails,
         D!Confirm, D!CutOff, D!Put, D!TakeAway
<1> QED BY <1>2, <1>3, <1>4, <1>5, <1>6, <1>7

\* KeepsBoth: the receiver replaces nothing but what it cannot see.
THEOREM KeepsBothTheorem == Spec => KeepsBoth
<1>1. Inv /\ [Next]_vars => [handed => D!KeepsBothStep]_vars
  <2> SUFFICES ASSUME Inv, Next, handed PROVE D!KeepsBothStep
    OBVIOUS
  <2> QED BY KeepsBothAt DEF Next, Pc, OfferAnything, HandOver, Deck, Inv
<1> QED BY <1>1, Invariance, PTL DEF Spec, KeepsBoth

\* A file cannot be planned: something is where a folder has to be, or no name is
\* left.
LEMMA RefuseForAReason ==
    ASSUME DeckInv, D!Refuse, deckEdits = 0
    PROVE  D!Blocked \/ D!NamesUsedUp
<1> DEFINE folder == D!Folders(entry)[depth + 1]
<1>1. deckAt = "plan" /\ Intact /\ D!TypeOK /\ Shape
  BY DEF D!Refuse, DeckInv
<1>2. CASE depth < Len(D!Folders(entry))
  <2>1. ~D!IsOrCanBeFolder(folder)
    BY <1>2 DEF D!Refuse
  <2>2. folder \in D!Range(D!Folders(entry)) /\ entry \in DOMAIN offer
    <3>1. depth + 1 \in DOMAIN D!Folders(entry)
      BY <1>1, <1>2, Numbers, LenProperties DEF D!Range
    <3> QED BY <1>1, <3>1, Numbers DEF D!Range
  <2>3. DirIn(deckTree, D!Parent(folder))
    <3> HIDE DEF folder
    <3>1. D!Parent(folder) = <<>> \/ \E n \in 1 .. Len(offer[entry]) - 1 :
             D!Parent(folder) = Folder(entry, n) /\ Ready(entry, n)
      BY <1>1, <1>2, NextFolder DEF folder
    <3> QED BY <1>1, <2>2, <3>1 DEF Intact
  <2>4. folder \in DOMAIN deckTree /\ ~D!IsDir(folder)
    BY <2>1, <2>3 DEF D!IsOrCanBeFolder, D!IsDir, DirIn
  <2> QED BY <2>2, <2>4 DEF D!Blocked
<1>3. CASE ~(depth < Len(D!Folders(entry)))
  <2>1. /\ offer \in Offers /\ entry \in DOMAIN offer /\ depth \in Nat
        /\ Len(offer[entry]) \in Nat /\ Extra(entry) \in {0, 1}
        /\ Len(D!Folders(entry)) = Len(offer[entry]) - 1 + Extra(entry)
    BY <1>1, Numbers, OfferPaths, FoldersAre DEF Extra
  <2> DEFINE m == Len(offer[entry]) - 1
  <2>2. m \in 0 .. Len(offer[entry]) - 1 /\ D!Parent(offer[entry]) = Folder(entry, m)
    BY <2>1, FirstAndLast
  <2>3. \A n \in 1 .. m : Ready(entry, n)
    BY <1>1, <1>3, <2>1 DEF Ready
  <2> HIDE DEF m
  <2>4. D!LinksInto(Folder(entry, m)) = {}
    BY <1>1, <2>1, <2>2, <2>3, LinksOnTheWay
  <2>5. \A d \in D!Range(D!Candidates(entry)) : D!Parent(d) = Folder(entry, m)
    BY <2>1, <2>2, CandidatesAre
  <2> QED BY <1>1, <1>3, <2>4, <2>5 DEF D!Refuse, D!MayBeTaken, D!NamesUsedUp
<1> QED BY <1>2, <1>3

\* A file cannot be stored: its destination is a folder of the offer by now.
LEMMA RenameFailsForAReason ==
    ASSUME DeckInv, D!RenameFails, deckEdits = 0
    PROVE  D!NameIsFolder
<1>1. /\ deckAt = "rename" /\ ~(D!CanOpen /\ D!CanName) /\ Intact /\ Shape
      /\ offer \in Offers /\ entry \in DOMAIN offer /\ entry \in Nat
  BY Numbers DEF D!RenameFails, DeckInv
<1>2. /\ D!Destination \in D!Range(D!Candidates(entry))
      /\ entry \in DOMAIN plan /\ D!Destination = plan[entry]
  BY <1>1, WayToDestination DEF D!Destination
<1>3. DirIn(deckTree, <<Partials>>)
  BY <1>1 DEF Intact, PartialsReady
<1>4. DirIn(deckTree, D!Parent(D!Destination))
  <2>1. /\ D!Parent(D!Destination) = D!Parent(offer[entry])
        /\ offer[entry] \in Seq(STRING) /\ offer[entry] # <<>>
    BY <1>1, <1>2, CandidatesAre, OfferPaths
  <2>2. /\ Len(offer[entry]) \in Nat /\ Len(offer[entry]) >= 1
        /\ D!Parent(offer[entry]) = Folder(entry, Len(offer[entry]) - 1)
        /\ D!Parent(offer[entry]) \in Seq(STRING)
        /\ Len(D!Parent(offer[entry])) = Len(offer[entry]) - 1
    BY <2>1, ParentIs DEF Folder
  <2>3. CASE Len(offer[entry]) = 1
    <3>1. D!Parent(offer[entry]) = <<>>
      BY <2>2, <2>3, EmptySeq
    <3> QED BY <1>1, <2>1, <3>1 DEF Intact
  <2>4. CASE Len(offer[entry]) # 1
    <3>1. \A k \in Nat : k >= 1 /\ k # 1 => k - 1 \in 1 .. k - 1
      OBVIOUS
    <3>2. Len(offer[entry]) - 1 \in 1 .. Len(offer[entry]) - 1
      BY <2>2, <2>4, <3>1
    <3> QED BY <1>1, <2>1, <2>2, <3>2 DEF Intact, Ready
  <2> QED BY <2>3, <2>4
<1>5. DirIn(deckTree, plan[entry])
  BY <1>1, <1>2, <1>3, <1>4 DEF D!CanOpen, D!CanName, D!IsDir, DirIn
<1>6. \E f \in DOMAIN offer : D!IsStrictPrefix(plan[entry], offer[f])
  BY <1>1, <1>2, <1>5 DEF Intact, Pending
<1> QED BY <1>1, <1>2, <1>6 DEF D!NameIsFolder

\* An attempt that fails on its own fails for a reason.
LEMMA FailsForAReasonAt ==
    ASSUME DeckInv, D!Next
    PROVE  D!FailsForAReasonStep
<1> SUFFICES ASSUME D!Fails, deckEdits = 0
             PROVE  D!Blocked \/ D!NameIsFolder \/ D!NamesUsedUp
  <2>1. deckEdits \in Nat
    BY DEF DeckInv, D!TypeOK
  <2> QED BY <2>1 DEF D!FailsForAReasonStep
<1>1. deckAt \in {"plan", "rename"} /\ deckAt' = "listening" /\ UNCHANGED faults
  BY DEF D!Fails
<1>2. faults' # faults + 1 /\ deckAt' # deckAt
  BY <1>1 DEF DeckInv, D!TypeOK
<1>3. D!Refuse \/ D!RenameFails
  BY <1>1, <1>2 DEF D!Next, D!Step, D!Listen, D!ReceiveOffer, D!EnsureFolder,
     D!ChooseDestination, D!Rename, D!Confirm, D!CutOff, D!Put, D!TakeAway, D!Edit
<1> QED BY <1>3, RefuseForAReason, RenameFailsForAReason

\* FailsForAReason: what is not blocked is stored, or was disturbed.
THEOREM FailsForAReasonTheorem == Spec => FailsForAReason
<1>1. Inv /\ [Next]_vars => [handed => D!FailsForAReasonStep]_vars
  <2> SUFFICES ASSUME Inv, Next, handed PROVE D!FailsForAReasonStep
    OBVIOUS
  <2> QED BY FailsForAReasonAt DEF Next, Pc, OfferAnything, HandOver, Deck, Inv
<1> QED BY <1>1, Invariance, PTL DEF Spec, FailsForAReason

-----------------------------------------------------------------------------
(* Both machines. *)

\* The variables of both machines have their types, the trees are trees, and
\* what was listed and not touched is what is there.
THEOREM TypeCorrect == Spec => []TypeOK
<1>1. PcInv => C!TypeOK
  BY DEF PcInv, PcTypes, Todo, C!TypeOK
<1> QED BY <1>1, PcInvariance, DeckTypeCorrect, PTL DEF TypeOK

\* Whatever path a peer sends, one that is taken leads beneath the root; and
\* whatever is in the receive folder, the links that are followed are those that
\* its user put where a folder had been found to be real.
THEOREM StaysInsideTheorem == Spec => []StaysInside
<1>1. PcInv /\ D!StaysInside => StaysInside
  <2> SUFFICES ASSUME PcInv, pcAt = "sent", NEW raw \in Range(wanted), Accepted(raw)
               PROVE  IsBeneath(raw)
    BY DEF StaysInside
  <2>1. wanted \in Seq(Seq(STRING))
    BY DEF PcInv, Offered
  <2>2. raw \in Seq(STRING)
    BY <2>1, ElementOfSeq DEF Range
  <2> QED BY <2>2, AcceptedIsBeneath
<1> QED BY <1>1, PcInvariance, StoredInside, PTL
=============================================================================
