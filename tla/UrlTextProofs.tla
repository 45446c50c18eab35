---------------------------- MODULE UrlTextProofs ----------------------------
(***************************************************************************)
(* Proofs about the text of URLs: TextInv is an invariant of UrlText, and  *)
(* every property of the component follows from it.  Most of the work is   *)
(* about NormalizePath, for paths of any length: what path.Clean, decoding *)
(* and escaping do to a path, and that two parses bring it to a form that  *)
(* more parses leave alone.                                                *)
(***************************************************************************)
EXTENDS UrlText, FiniteSetTheorems, WellFoundedInduction, SequenceTheorems, TLAPS

-----------------------------------------------------------------------------
(***************************************************************************)
(* Induction over the naturals, without an operator as a parameter: what   *)
(* is closed under succession has no least counterexample.  The library's  *)
(* well-foundedness of the strict subsets of finite sets gives every set of*)
(* naturals its least element.  Clean is then a fold from the left.        *)
(***************************************************************************)

\* A set of naturals that is not empty has a least element.
LEMMA Least ==
    ASSUME NEW T \in SUBSET Nat, T # {}
    PROVE  \E n \in T : \A m \in T : n <= m
  <1> DEFINE Below(n) == 0 .. n
             Sets == {Below(n) : n \in T}
             R == StrictSubsetOrdering(Nat)
  <1>1. IsWellFoundedOn(R, FiniteSubsetsOf(Nat))
    BY FS_StrictSubsetOrderingWellFounded
  <1>2. Sets \subseteq FiniteSubsetsOf(Nat) /\ Sets # {}
    <2>1. \A n \in T : IsFiniteSet(Below(n)) /\ Below(n) \subseteq Nat
      <3> TAKE n \in T
      <3>1. n \in Int /\ 0 \in Int /\ Below(n) \subseteq Nat
        OBVIOUS
      <3> QED BY <3>1, FS_Interval
    <2>2. \A X \in Sets : X \in FiniteSubsetsOf(Nat)
      BY <2>1 DEF FiniteSubsetsOf
    <2> QED BY <2>2
  <1>3. \E X \in Sets : \A Y \in Sets : <<Y, X>> \notin R
    <2> HIDE DEF R, Sets
    <2> QED BY <1>1, <1>2, WFMin
  <1>4. PICK n \in T : \A m \in T : <<Below(m), Below(n)>> \notin R
    BY <1>3
  <1>5. \A m \in T : ~(m < n)
    <2> SUFFICES ASSUME NEW m \in T, m < n PROVE FALSE
      OBVIOUS
    <2>1. Below(m) \subseteq Below(n) /\ Below(m) # Below(n) /\ Below(m) \subseteq Nat /\ Below(n) \subseteq Nat
      OBVIOUS
    <2> QED BY <2>1, <1>4 DEF StrictSubsetOrdering
  <1> QED BY <1>5

\* What holds of zero, and of the successor of what it holds of, holds of all naturals.
LEMMA Induction ==
    ASSUME NEW T, 0 \in T, \A n \in Nat : n \in T => n + 1 \in T
    PROVE  \A n \in Nat : n \in T
  <1> SUFFICES ASSUME Nat \ T # {} PROVE FALSE
    OBVIOUS
  <1>1. Nat \ T \in SUBSET Nat
    OBVIOUS
  <1>2. PICK n \in Nat \ T : \A m \in Nat \ T : n <= m
    BY <1>1, Least
  <1>3. n # 0 /\ n - 1 \in Nat /\ n - 1 + 1 = n /\ ~(n <= n - 1)
    OBVIOUS
  <1> QED BY <1>2, <1>3

\* The segments that paths are made of
Kind == DOMAIN Unescape

\* All of them
LEMMA Kinds ==
    Kind = {"", ".", "..", "1", "+", "a", "a b", "a!", "a%20b", "a%21", "a%2F", "%2E%2E"}
  BY DEF Kind, Unescape

\* The segments that path.Clean takes away.
Special == {"", ".", ".."}

\* Once they are, those of K are in S.
CleansTo(K, S) == K \subseteq S \cup Special

\* A segment is dropped, takes the segment before it away, or is kept.
LEMMA StepCases ==
    ASSUME NEW c, NEW s
    PROVE  \/ s \in Special /\ CleanStep(c, s) = c
           \/ s \in Special /\ c # <<>> /\ CleanStep(c, s) = Front(c)
           \/ s \notin Special /\ CleanStep(c, s) = Append(c, s)
  BY Zenon DEF Special, CleanStep

\* What Front leaves of a sequence
LEMMA FrontType ==
    ASSUME NEW S, NEW c \in Seq(S), c # <<>>
    PROVE  Front(c) \in Seq(S)
  <1>1. Len(c) - 1 \in Int /\ 1 \in Int /\ \A i \in 1 .. Len(c) - 1 : c[i] \in S
    BY ElementOfSeq, LenProperties
  <1> QED BY <1>1, SubSeqProperties DEF Front

\* What a step of path.Clean leaves is made of the segments that are not cleaned away.
LEMMA StepType ==
    ASSUME NEW S, NEW c \in Seq(S), NEW s, s \in Special \/ s \in S
    PROVE  CleanStep(c, s) \in Seq(S)
  BY StepCases, FrontType

\* How Clean gets to its result.
Cleaning(f, p, S) ==
    /\ f \in [0 .. Len(p) -> Seq(S)]
    /\ f[0] = <<>>
    /\ \A i \in 1 .. Len(p) : f[i] = CleanStep(f[i - 1], p[i])

\* So is what any number of steps leave.
LEMMA CleaningTyped ==
    ASSUME NEW S, NEW K, CleansTo(K, S), NEW p \in Seq(K), NEW d,
           d[0] = <<>>, \A i \in 1 .. Len(p) : d[i] = CleanStep(d[i - 1], p[i])
    PROVE  \A i \in 0 .. Len(p) : d[i] \in Seq(S)
  <1> DEFINE T == {n \in Nat : n <= Len(p) => d[n] \in Seq(S)}
  <1>1. 0 \in T
    BY EmptySeq
  <1>2. \A n \in Nat : n \in T => n + 1 \in T
    <2> SUFFICES ASSUME NEW n \in Nat, n + 1 <= Len(p), d[n] \in Seq(S)
                 PROVE  d[n + 1] \in Seq(S)
      <3> QED BY LenProperties
    <2>1. n + 1 \in 1 .. Len(p) /\ n + 1 - 1 = n
      BY LenProperties
    <2>2. d[n + 1] = CleanStep(d[n], p[n + 1])
      BY <2>1
    <2>3. p[n + 1] \in Special \/ p[n + 1] \in S
      BY <2>1, ElementOfSeq DEF CleansTo
    <2> QED BY <2>2, <2>3, StepType
  <1>3. \A n \in Nat : n \in T
    <2> HIDE DEF T
    <2> QED BY <1>1, <1>2, Induction
  <1> QED BY <1>3, LenProperties

\* A recursive function over 0 .. n satisfies its own equation, one argument at a time.
LEMMA RecursiveEquation ==
    ASSUME NEW n \in Nat, NEW p, NEW d,
           d = [i \in 0 .. n |-> IF i = 0 THEN <<>> ELSE CleanStep(d[i - 1], p[i])]
    PROVE  /\ DOMAIN d = 0 .. n
           /\ d = [i \in DOMAIN d |-> d[i]]
           /\ d[0] = <<>>
           /\ \A i \in 1 .. n : d[i] = CleanStep(d[i - 1], p[i])
  <1> DEFINE e(i) == IF i = 0 THEN <<>> ELSE CleanStep(d[i - 1], p[i])
  <1>1. PICK g : g = [i \in 0 .. n |-> e(i)]
    OBVIOUS
  <1>2. d = g
    BY <1>1
  <1> HIDE DEF e
  <1>3. \A i \in 0 .. n : g[i] = e(i)
    BY <1>1
  <1>4. DOMAIN g = 0 .. n
    BY <1>1
  <1>5. 0 \in 0 .. n /\ \A i \in 1 .. n : i \in 0 .. n /\ i # 0
    OBVIOUS
  <1> QED BY <1>2, <1>3, <1>4, <1>5, Zenon DEF e

\* There is a function that records the steps of path.Clean.
LEMMA CleaningExists ==
    ASSUME NEW S, NEW K, CleansTo(K, S), NEW p \in Seq(K)
    PROVE  \E f : Cleaning(f, p, S)
  <1> DEFINE Upto(f, n) == /\ f \in [0 .. n -> Seq(S)]
                           /\ f[0] = <<>>
                           /\ \A i \in 1 .. n : f[i] = CleanStep(f[i - 1], p[i])
             T == {n \in Nat : n <= Len(p) => \E f : Upto(f, n)}
  <1>1. 0 \in T
    <2>1. Upto([i \in {0} |-> <<>>], 0)
      OBVIOUS
    <2> QED BY <2>1
  <1>2. \A n \in Nat : n \in T => n + 1 \in T
    <2>0. SUFFICES ASSUME NEW n \in Nat, n + 1 <= Len(p), \E f : Upto(f, n)
                   PROVE  \E f : Upto(f, n + 1)
      <3> HIDE DEF Upto
      <3> QED BY LenProperties
    <2>1. n \in Nat /\ n <= Len(p) /\ n + 1 \in 1 .. Len(p)
      BY <2>0, LenProperties
    <2>2. PICK f : Upto(f, n)
      BY <2>0
    <2> DEFINE g == [i \in 0 .. n + 1 |-> IF i <= n THEN f[i] ELSE CleanStep(f[n], p[n + 1])]
    <2>3. f[n] \in Seq(S) /\ (p[n + 1] \in Special \/ p[n + 1] \in S)
      BY <2>1, <2>2, ElementOfSeq DEF CleansTo
    <2>4. g \in [0 .. n + 1 -> Seq(S)]
      <3>1. CleanStep(f[n], p[n + 1]) \in Seq(S)
        BY <2>3, StepType
      <3>2. \A i \in 0 .. n + 1 : i <= n => f[i] \in Seq(S)
        BY <2>1, <2>2
      <3> QED BY <3>1, <3>2
    <2>5. g[0] = <<>>
      BY <2>1, <2>2
    <2>6. \A i \in 1 .. n + 1 : g[i] = CleanStep(g[i - 1], p[i])
      <3> TAKE i \in 1 .. n + 1
      <3>1. CASE i <= n
        <4>1. i \in 1 .. n /\ i \in 0 .. n + 1 /\ i - 1 \in 0 .. n + 1 /\ i - 1 <= n
          BY <3>1, <2>1
        <4>2. g[i] = f[i] /\ g[i - 1] = f[i - 1]
          BY <4>1, <3>1
        <4> HIDE DEF g
        <4> QED BY <4>1, <4>2, <2>2
      <3>2. CASE i = n + 1
        <4>1. g[n + 1] = CleanStep(f[n], p[n + 1]) /\ g[n] = f[n] /\ n + 1 - 1 = n
          BY <2>1
        <4> HIDE DEF g
        <4> QED BY <4>1, <3>2
      <3> QED BY <3>1, <3>2, <2>1
    <2>7. Upto(g, n + 1)
      BY <2>4, <2>5, <2>6
    <2> QED BY <2>7
  <1>3. Len(p) \in T
    <2> HIDE DEF T
    <2> QED BY <1>1, <1>2, Induction, LenProperties
  <1>5. PICK f : Upto(f, Len(p))
    BY <1>3, LenProperties
  <1>6. Cleaning(f, p, S)
    BY <1>5 DEF Cleaning
  <1> QED BY <1>6

\* Clean is the last value of such a function.
LEMMA CleanIsCleaning ==
    ASSUME NEW S, NEW K, CleansTo(K, S), NEW p \in Seq(K)
    PROVE  \E f : Cleaning(f, p, S) /\ Clean(p) = f[Len(p)]
  <1> DEFINE Def(f) == f = [i \in 0 .. Len(p) |-> IF i = 0 THEN <<>> ELSE CleanStep(f[i - 1], p[i])]
  <1>1. \E f : Def(f)
    <2>1. PICK f : Cleaning(f, p, S)
      BY CleaningExists
    <2>2. Len(p) \in Nat
      BY LenProperties
    <2> DEFINE g == [i \in 0 .. Len(p) |-> IF i = 0 THEN <<>> ELSE CleanStep(f[i - 1], p[i])]
    <2>3. \A i \in 0 .. Len(p) : f[i] = g[i]
      <3> TAKE i \in 0 .. Len(p)
      <3>1. CASE i = 0
        BY <3>1, <2>1, <2>2 DEF Cleaning
      <3>2. CASE i # 0
        <4>1. i \in 1 .. Len(p)
          BY <3>2, <2>2
        <4>2. f[i] = CleanStep(f[i - 1], p[i])
          BY <4>1, <2>1 DEF Cleaning
        <4> QED BY <3>2, <4>2
      <3> QED BY <3>1, <3>2
    <2>4. DOMAIN f = 0 .. Len(p) /\ DOMAIN g = 0 .. Len(p) /\ f = [i \in DOMAIN f |-> f[i]]
      BY <2>1 DEF Cleaning
    <2>5. f = g
      <3> HIDE DEF g
      <3>1. g = [i \in DOMAIN g |-> g[i]]
        BY DEF g
      <3> QED BY <2>3, <2>4, <3>1
    <2> QED BY <2>5
  <1>2. Clean(p) = (CHOOSE d : Def(d))[Len(p)]
    BY DEF Clean
  <1> HIDE DEF Def
  <1>3. PICK d : Def(d) /\ Clean(p) = d[Len(p)]
    BY <1>1, <1>2
  <1>4. /\ DOMAIN d = 0 .. Len(p)
        /\ d = [i \in DOMAIN d |-> d[i]]
        /\ d[0] = <<>>
        /\ \A i \in 1 .. Len(p) : d[i] = CleanStep(d[i - 1], p[i])
    <2>1. d = [i \in 0 .. Len(p) |-> IF i = 0 THEN <<>> ELSE CleanStep(d[i - 1], p[i])]
      BY <1>3 DEF Def
    <2>2. Len(p) \in Nat
      BY LenProperties
    <2> QED BY <2>1, <2>2, RecursiveEquation
  <1>5. \A i \in 0 .. Len(p) : d[i] \in Seq(S)
    BY <1>4, CleaningTyped
  <1>6. Cleaning(d, p, S)
    BY <1>4, <1>5 DEF Cleaning
  <1> QED BY <1>3, <1>6

\* The steps on a prefix of a path are the first steps on the path.
LEMMA CleaningsAgree ==
    ASSUME NEW S, NEW K, NEW p \in Seq(K), NEW q \in Seq(K), NEW f, NEW g,
           Cleaning(f, p, S), Cleaning(g, q, S),
           Len(p) <= Len(q), \A i \in 1 .. Len(p) : p[i] = q[i]
    PROVE  f[Len(p)] = g[Len(p)]
  <1> DEFINE T == {n \in Nat : n <= Len(p) => f[n] = g[n]}
  <1>0. Len(p) \in Nat /\ Len(q) \in Nat
    BY LenProperties
  <1>1. 0 \in T
    BY DEF Cleaning
  <1>2. \A n \in Nat : n \in T => n + 1 \in T
    <2> SUFFICES ASSUME NEW n \in Nat, n + 1 <= Len(p), f[n] = g[n]
                 PROVE  f[n + 1] = g[n + 1]
      BY <1>0
    <2>1. n + 1 \in 1 .. Len(p) /\ n + 1 \in 1 .. Len(q) /\ n + 1 - 1 = n
      BY <1>0
    <2>2. f[n + 1] = CleanStep(f[n], p[n + 1]) /\ g[n + 1] = CleanStep(g[n], q[n + 1])
      BY <2>1 DEF Cleaning
    <2> QED BY <2>1, <2>2
  <1>3. \A n \in Nat : n \in T
    <2> HIDE DEF T
    <2> QED BY <1>1, <1>2, Induction
  <1> QED BY <1>0, <1>3

\* The segments of a cleaned path
LEMMA CleanType ==
    ASSUME NEW S, NEW K, CleansTo(K, S), NEW p \in Seq(K)
    PROVE  Clean(p) \in Seq(S)
  <1>1. PICK f : Cleaning(f, p, S) /\ Clean(p) = f[Len(p)]
    BY CleanIsCleaning
  <1>2. Len(p) \in 0 .. Len(p)
    BY LenProperties
  <1> QED BY <1>1, <1>2 DEF Cleaning

\* The empty path is clean.
LEMMA CleanEmpty == Clean(<<>>) = <<>>
  <1>1. CleansTo({}, {}) /\ <<>> \in Seq({}) /\ Len(<<>>) = 0
    BY EmptySeq DEF CleansTo
  <1>2. PICK f : Cleaning(f, <<>>, {}) /\ Clean(<<>>) = f[Len(<<>>)]
    BY <1>1, CleanIsCleaning
  <1> QED BY <1>1, <1>2 DEF Cleaning

\* Clean is a fold from the left.
LEMMA CleanAppend ==
    ASSUME NEW S, NEW K, CleansTo(K, S), NEW p \in Seq(K), NEW s \in K
    PROVE  Clean(Append(p, s)) = CleanStep(Clean(p), s)
  <1> DEFINE q == Append(p, s)
             n == Len(p)
  <1>1. /\ q \in Seq(K) /\ Len(q) = n + 1 /\ n \in Nat /\ q[n + 1] = s
        /\ \A i \in 1 .. n : q[i] = p[i]
    BY AppendProperties, LenProperties
  <1> HIDE DEF q
  <1>2. PICK f : Cleaning(f, p, S) /\ Clean(p) = f[Len(p)]
    BY CleanIsCleaning
  <1>3. PICK g : Cleaning(g, q, S) /\ Clean(q) = g[Len(q)]
    BY <1>1, CleanIsCleaning
  <1>5. f[n] = g[n]
    <2>1. Len(p) <= Len(q) /\ \A i \in 1 .. Len(p) : p[i] = q[i]
      BY <1>1
    <2> QED BY <2>1, <1>1, <1>2, <1>3, CleaningsAgree
  <1>6. n + 1 \in 1 .. Len(q) /\ n + 1 - 1 = n
    BY <1>1
  <1>7. g[n + 1] = CleanStep(g[n], s)
    BY <1>1, <1>3, <1>6 DEF Cleaning
  <1> QED BY <1>1, <1>2, <1>3, <1>5, <1>7 DEF q

\* What has nothing to clean away stays as it is.
LEMMA CleanIdentity ==
    ASSUME NEW K, K \cap Special = {}, NEW p \in Seq(K)
    PROVE  Clean(p) = p
  <1> DEFINE T == {n \in Nat : n <= Len(p) => Clean(SubSeq(p, 1, n)) = SubSeq(p, 1, n)}
  <1>0. CleansTo(K, K)
    BY DEF CleansTo
  <1>1. 0 \in T
    <2>1. SubSeq(p, 1, 0) = <<>>
      <3>1. 1 \in Int /\ 0 \in Int /\ 0 < 1
        OBVIOUS
      <3> QED BY <3>1, SubSeqEmpty
    <2> QED BY <2>1, CleanEmpty
  <1>2. \A n \in Nat : n \in T => n + 1 \in T
    <2> DEFINE q(n) == SubSeq(p, 1, n)
    <2> SUFFICES ASSUME NEW n \in Nat, n + 1 <= Len(p), Clean(q(n)) = q(n)
                 PROVE  Clean(q(n + 1)) = q(n + 1)
      BY LenProperties
    <2>1. n + 1 \in 1 .. Len(p)
      BY LenProperties
    <2>2. p[n + 1] \in K /\ p[n + 1] \notin Special /\ q(n) \in Seq(K)
      BY <2>1, ElementOfSeq, SubSeqProperties
    <2>3. q(n + 1) = Append(q(n), p[n + 1])
      OBVIOUS
    <2> HIDE DEF q
    <2>4. Clean(Append(q(n), p[n + 1])) = CleanStep(Clean(q(n)), p[n + 1])
      BY <2>2, <1>0, CleanAppend
    <2> QED BY <2>2, <2>3, <2>4, StepCases
  <1>3. \A n \in Nat : n \in T
    <2> HIDE DEF T
    <2> QED BY <1>1, <1>2, Induction
  <1>4. Clean(SubSeq(p, 1, Len(p))) = SubSeq(p, 1, Len(p))
    BY <1>3, LenProperties
  <1> QED BY <1>4, SubSeqFull

-----------------------------------------------------------------------------
(***************************************************************************)
(* Decoding a path: FlattenSeq, from its recursive function.               *)
(***************************************************************************)

\* The segments that decoding leaves
Decoded == {"", ".", "..", "1", "+", "a", "a b", "a!"}

\* The step of FlattenSeq
Joined(a, b) == a \o b

\* The concatenation of two sequences
LEMMA JoinedType ==
    ASSUME NEW S, NEW a \in Seq(S), NEW b \in Seq(S)
    PROVE  Joined(a, b) \in Seq(S)
  BY ConcatProperties DEF Joined

\* How FlattenSeq gets to its result.
Flattening(f, ss, S) ==
    /\ f \in [1 .. Len(ss) -> Seq(S)]
    /\ f[1] = ss[1]
    /\ \A i \in 2 .. Len(ss) : f[i] = Joined(f[i - 1], ss[i])

\* There is a function that records the steps of FlattenSeq.
LEMMA FlatteningExists ==
    ASSUME NEW S, NEW ss \in Seq(Seq(S)), ss # <<>>
    PROVE  \E f : Flattening(f, ss, S)
  <1> DEFINE Upto(f, n) == /\ f \in [1 .. n -> Seq(S)]
                           /\ f[1] = ss[1]
                           /\ \A i \in 2 .. n : f[i] = Joined(f[i - 1], ss[i])
             T == {n \in Nat : n \in 1 .. Len(ss) => \E f : Upto(f, n)}
  <1>0. Len(ss) \in Nat \ {0}
    BY LenProperties, EmptySeq
  <1>1. 0 \in T
    OBVIOUS
  <1>2. \A n \in Nat : n \in T => n + 1 \in T
    <2> DEFINE P(n) == \E f : Upto(f, n)
    <2>0. SUFFICES ASSUME NEW n \in Nat, n + 1 \in 1 .. Len(ss), n \in 1 .. Len(ss) => P(n)
                   PROVE  P(n + 1)
      <3>1. \A n \in Nat : n \in T <=> (n \in 1 .. Len(ss) => P(n))
        <4> HIDE DEF Upto
        <4> QED OBVIOUS
      <3> HIDE DEF P, T
      <3> QED BY <1>0, <3>1
    <2>1. ss[n + 1] \in Seq(S)
      BY <2>0, ElementOfSeq
    <2>2. CASE n = 0
      <3>1. Upto([i \in {1} |-> ss[1]], 1)
        BY <2>1, <2>2
      <3>2. n + 1 = 1
        BY <2>2
      <3> HIDE DEF Upto
      <3> QED BY <3>1, <3>2
    <2>3. CASE n # 0
      <3>1. n \in 1 .. Len(ss) /\ n \in 1 .. n
        BY <2>3, <2>0, <1>0
      <3>2. PICK f : Upto(f, n)
        BY <3>1, <2>0
      <3>3. f[n] \in Seq(S)
        BY <3>1, <3>2
      <3>4. PICK t \in Seq(S) : t = Joined(f[n], ss[n + 1])
        BY <2>1, <3>3, JoinedType
      <3> DEFINE g == [i \in 1 .. n + 1 |-> IF i <= n THEN f[i] ELSE t]
      <3>5. g \in [1 .. n + 1 -> Seq(S)]
        <4>1. \A i \in 1 .. n + 1 : i <= n => f[i] \in Seq(S)
          BY <3>2
        <4> QED BY <4>1
      <3>6. g[1] = ss[1]
        BY <3>1, <3>2
      <3>7. \A i \in 2 .. n + 1 : g[i] = Joined(g[i - 1], ss[i])
        <4> TAKE i \in 2 .. n + 1
        <4>1. CASE i <= n
          <5>1. i \in 2 .. n /\ i \in 1 .. n + 1 /\ i - 1 \in 1 .. n + 1 /\ i - 1 <= n
            BY <4>1
          <5>2. g[i] = f[i] /\ g[i - 1] = f[i - 1]
            BY <5>1, <4>1
          <5> HIDE DEF g
          <5> QED BY <5>1, <5>2, <3>2
        <4>2. CASE i = n + 1
          <5>1. n + 1 \in 1 .. n + 1 /\ n \in 1 .. n + 1 /\ ~(n + 1 <= n) /\ n <= n /\ n + 1 - 1 = n
            BY <3>1
          <5>2. g[n + 1] = t /\ g[n] = f[n]
            BY <5>1
          <5> HIDE DEF g
          <5>3. g[n + 1] = Joined(g[n], ss[n + 1])
            BY <5>2, <3>4
          <5> QED BY <5>1, <5>3, <4>2
        <4> QED BY <4>1, <4>2
      <3>8. Upto(g, n + 1)
        <4> HIDE DEF g
        <4> QED BY <3>5, <3>6, <3>7
      <3> QED BY <3>8
    <2> QED BY <2>2, <2>3
  <1>3. Len(ss) \in T
    <2> HIDE DEF T
    <2> QED BY <1>0, <1>1, <1>2, Induction
  <1>4. \E f : Upto(f, Len(ss))
    <2> HIDE DEF Upto
    <2> QED BY <1>0, <1>3
  <1> QED BY <1>4 DEF Flattening

\* The recursive function of FlattenSeq satisfies its own equation.
LEMMA FlatteningEquation ==
    ASSUME NEW n \in Nat \ {0}, NEW ss, NEW d,
           d = [i \in 1 .. n |-> IF i = 1 THEN ss[i] ELSE Joined(d[i - 1], ss[i])]
    PROVE  /\ DOMAIN d = 1 .. n
           /\ d = [i \in DOMAIN d |-> d[i]]
           /\ d[1] = ss[1]
           /\ \A i \in 2 .. n : d[i] = Joined(d[i - 1], ss[i])
  <1> DEFINE e(i) == IF i = 1 THEN ss[i] ELSE Joined(d[i - 1], ss[i])
  <1>1. PICK g : g = [i \in 1 .. n |-> e(i)]
    OBVIOUS
  <1>2. d = g
    BY <1>1
  <1> HIDE DEF e
  <1>3. \A i \in 1 .. n : g[i] = e(i)
    BY <1>1
  <1>4. DOMAIN g = 1 .. n
    BY <1>1
  <1>5. 1 \in 1 .. n /\ \A i \in 2 .. n : i \in 1 .. n /\ i # 1
    OBVIOUS
  <1> QED BY <1>2, <1>3, <1>4, <1>5, Zenon DEF e

\* Its values are sequences of the same elements.
LEMMA FlatteningTyped ==
    ASSUME NEW S, NEW ss \in Seq(Seq(S)), ss # <<>>, NEW d,
           d[1] = ss[1], \A i \in 2 .. Len(ss) : d[i] = Joined(d[i - 1], ss[i])
    PROVE  \A i \in 1 .. Len(ss) : d[i] \in Seq(S)
  <1> DEFINE T == {n \in Nat : n \in 1 .. Len(ss) => d[n] \in Seq(S)}
  <1>0. Len(ss) \in Nat \ {0}
    BY LenProperties, EmptySeq
  <1>1. 0 \in T
    OBVIOUS
  <1>2. \A n \in Nat : n \in T => n + 1 \in T
    <2> SUFFICES ASSUME NEW n \in Nat, n + 1 \in 1 .. Len(ss), n \in 1 .. Len(ss) => d[n] \in Seq(S)
                 PROVE  d[n + 1] \in Seq(S)
      BY <1>0
    <2>1. ss[n + 1] \in Seq(S)
      BY ElementOfSeq
    <2>2. CASE n = 0
      BY <2>1, <2>2
    <2>3. CASE n # 0
      <3>1. n \in 1 .. Len(ss) /\ n + 1 \in 2 .. Len(ss) /\ n + 1 - 1 = n
        BY <2>3, <1>0
      <3>2. d[n + 1] = Joined(d[n + 1 - 1], ss[n + 1])
        BY <3>1
      <3>3. Joined(d[n], ss[n + 1]) \in Seq(S)
        BY <3>1, <2>1, JoinedType
      <3> QED BY <3>1, <3>2, <3>3
    <2> QED BY <2>2, <2>3
  <1>3. \A n \in Nat : n \in T
    <2> HIDE DEF T
    <2> QED BY <1>1, <1>2, Induction
  <1> QED BY <1>3, <1>0

\* FlattenSeq is the last value of such a function.
LEMMA FlattenIsFlattening ==
    ASSUME NEW S, NEW ss \in Seq(Seq(S)), ss # <<>>
    PROVE  \E f : Flattening(f, ss, S) /\ FlattenSeq(ss) = f[Len(ss)]
  <1> DEFINE Def(f) == f = [i \in 1 .. Len(ss) |-> IF i = 1 THEN ss[i] ELSE Joined(f[i - 1], ss[i])]
  <1>0. Len(ss) \in Nat \ {0}
    BY LenProperties, EmptySeq
  <1>1. \E f : Def(f)
    <2>1. PICK f : Flattening(f, ss, S)
      BY FlatteningExists
    <2> DEFINE g == [i \in 1 .. Len(ss) |-> IF i = 1 THEN ss[i] ELSE Joined(f[i - 1], ss[i])]
    <2>3. \A i \in 1 .. Len(ss) : f[i] = g[i]
      <3> TAKE i \in 1 .. Len(ss)
      <3>1. CASE i = 1
        BY <3>1, <2>1, <1>0 DEF Flattening
      <3>2. CASE i # 1
        <4>1. i \in 2 .. Len(ss)
          BY <3>2, <1>0
        <4>2. f[i] = Joined(f[i - 1], ss[i])
          BY <4>1, <2>1 DEF Flattening
        <4> QED BY <3>2, <4>2
      <3> QED BY <3>1, <3>2
    <2>4. DOMAIN f = 1 .. Len(ss) /\ DOMAIN g = 1 .. Len(ss) /\ f = [i \in DOMAIN f |-> f[i]]
      BY <2>1 DEF Flattening
    <2>5. f = g
      <3> HIDE DEF g
      <3>1. g = [i \in DOMAIN g |-> g[i]]
        BY DEF g
      <3> QED BY <2>3, <2>4, <3>1
    <2> QED BY <2>5
  <1>2. FlattenSeq(ss) = (CHOOSE d : Def(d))[Len(ss)]
    BY <1>0 DEF FlattenSeq, Joined
  <1> HIDE DEF Def
  <1>3. PICK d : Def(d) /\ FlattenSeq(ss) = d[Len(ss)]
    BY <1>1, <1>2
  <1>4. /\ DOMAIN d = 1 .. Len(ss)
        /\ d = [i \in DOMAIN d |-> d[i]]
        /\ d[1] = ss[1]
        /\ \A i \in 2 .. Len(ss) : d[i] = Joined(d[i - 1], ss[i])
    <2>1. d = [i \in 1 .. Len(ss) |-> IF i = 1 THEN ss[i] ELSE Joined(d[i - 1], ss[i])]
      BY <1>3 DEF Def
    <2> QED BY <2>1, <1>0, FlatteningEquation
  <1>5. \A i \in 1 .. Len(ss) : d[i] \in Seq(S)
    BY <1>4, FlatteningTyped
  <1>6. Flattening(d, ss, S)
    BY <1>4, <1>5 DEF Flattening
  <1> QED BY <1>3, <1>6

\* The steps on a prefix are the first steps on the whole.
LEMMA FlatteningsAgree ==
    ASSUME NEW S, NEW ss \in Seq(Seq(S)), NEW tt \in Seq(Seq(S)), NEW f, NEW g, ss # <<>>,
           Flattening(f, ss, S), Flattening(g, tt, S),
           Len(ss) <= Len(tt), \A i \in 1 .. Len(ss) : ss[i] = tt[i]
    PROVE  f[Len(ss)] = g[Len(ss)]
  <1> DEFINE T == {n \in Nat : n \in 1 .. Len(ss) => f[n] = g[n]}
  <1>0. Len(ss) \in Nat \ {0} /\ Len(tt) \in Nat
    BY LenProperties, EmptySeq
  <1>1. 0 \in T
    OBVIOUS
  <1>2. \A n \in Nat : n \in T => n + 1 \in T
    <2> SUFFICES ASSUME NEW n \in Nat, n + 1 \in 1 .. Len(ss), n \in 1 .. Len(ss) => f[n] = g[n]
                 PROVE  f[n + 1] = g[n + 1]
      BY <1>0
    <2>1. ss[n + 1] = tt[n + 1]
      OBVIOUS
    <2>2. CASE n = 0
      BY <2>1, <2>2 DEF Flattening
    <2>3. CASE n # 0
      <3>1. /\ n \in 1 .. Len(ss) /\ n + 1 \in 2 .. Len(ss) /\ n + 1 \in 2 .. Len(tt)
            /\ n + 1 - 1 = n
        BY <2>3, <1>0
      <3>2. f[n + 1] = Joined(f[n + 1 - 1], ss[n + 1])
        BY <3>1 DEF Flattening
      <3>3. g[n + 1] = Joined(g[n + 1 - 1], tt[n + 1])
        BY <3>1 DEF Flattening
      <3> QED BY <3>1, <3>2, <3>3, <2>1
    <2> QED BY <2>2, <2>3
  <1>3. \A n \in Nat : n \in T
    <2> HIDE DEF T
    <2> QED BY <1>1, <1>2, Induction
  <1> QED BY <1>0, <1>3

\* FlattenSeq is a fold from the left.
LEMMA FlattenAppend ==
    ASSUME NEW S, NEW ss \in Seq(Seq(S)), NEW t \in Seq(S)
    PROVE  /\ FlattenSeq(ss) \in Seq(S)
           /\ FlattenSeq(Append(ss, t)) = FlattenSeq(ss) \o t
  <1> DEFINE tt == Append(ss, t)
             n == Len(ss)
  <1>1. /\ tt \in Seq(Seq(S)) /\ tt # <<>> /\ Len(tt) = n + 1 /\ n \in Nat /\ tt[n + 1] = t
        /\ \A i \in 1 .. n : tt[i] = ss[i]
    BY AppendProperties, LenProperties
  <1> HIDE DEF tt
  <1>2. PICK g : Flattening(g, tt, S) /\ FlattenSeq(tt) = g[Len(tt)]
    BY <1>1, FlattenIsFlattening
  <1>3. CASE ss = <<>>
    <2>1. FlattenSeq(ss) = <<>> /\ n = 0
      BY <1>3, EmptySeq DEF FlattenSeq
    <2>2. FlattenSeq(tt) = t
      BY <2>1, <1>1, <1>2 DEF Flattening
    <2> QED BY <2>1, <2>2, EmptySeq, ConcatEmptySeq DEF tt
  <1>4. CASE ss # <<>>
    <2>1. PICK f : Flattening(f, ss, S) /\ FlattenSeq(ss) = f[Len(ss)]
      BY <1>4, FlattenIsFlattening
    <2>2. Len(ss) <= Len(tt) /\ \A i \in 1 .. Len(ss) : ss[i] = tt[i]
      BY <1>1
    <2>3. f[n] = g[n]
      BY <2>1, <2>2, <1>1, <1>2, <1>4, FlatteningsAgree
    <2>4. n + 1 \in 2 .. Len(tt) /\ n + 1 - 1 = n /\ n \in 1 .. n
      BY <1>1, <1>4, EmptySeq
    <2>5. g[n + 1] = Joined(g[n], t)
      <3>1. g[n + 1] = Joined(g[n + 1 - 1], tt[n + 1])
        BY <2>4, <1>2 DEF Flattening
      <3> QED BY <3>1, <2>4, <1>1
    <2>6. FlattenSeq(ss) \in Seq(S)
      BY <2>1, <2>4 DEF Flattening
    <2> QED BY <2>1, <2>3, <2>5, <2>6, <1>1, <1>2 DEF tt, Joined
  <1> QED BY <1>3, <1>4

-----------------------------------------------------------------------------
(***************************************************************************)
(* What the segments decode to, and which paths end in a slash.            *)
(***************************************************************************)

\* The segments that decoding changes
LEMMA UnescapeValues ==
    /\ Unescape["a%20b"] = <<"a b">>
    /\ Unescape["a%21"] = <<"a!">>
    /\ Unescape["a%2F"] = <<"a", "">>
    /\ Unescape["%2E%2E"] = <<"..">>
    /\ \A s \in Decoded : Unescape[s] = <<s>>
  <1>1. \A s \in {"", ".", "..", "1", "+", "a", "a b", "a!", "a%20b", "a%21", "a%2F", "%2E%2E"} :
           Unescape[s] = CASE s = "a%20b"  -> <<"a b">>
          [] s = "a%21"   -> <<"a!">>
          [] s = "a%2F"   -> <<"a", "">>
          [] s = "%2E%2E" -> <<"..">>
          [] OTHER        -> <<s>>
     BY DEF Unescape
  <1>2. \A s \in Decoded : Unescape[s] = <<s>>
     BY <1>1, Zenon DEF Decoded
  <1>3. Unescape["a%20b"] = <<"a b">>
     BY <1>1, Zenon
  <1>4. Unescape["a%21"] = <<"a!">>
     BY <1>1, Zenon
  <1>5. Unescape["a%2F"] = <<"a", "">>
     BY <1>1, Zenon
  <1>6. Unescape["%2E%2E"] = <<"..">>
     BY <1>1, Zenon
  <1> QED BY <1>2, <1>3, <1>4, <1>5, <1>6

\* The segments after which a path ends in a slash, once it is decoded.
Slashed == {"", "a%2F"}

\* Sequences of one element and of two
LEMMA ShortSequences ==
    ASSUME NEW S, NEW s \in S, NEW t \in S
    PROVE  /\ <<s>> \in Seq(S) /\ <<s>> # <<>> /\ Last(<<s>>) = s
           /\ <<s, t>> \in Seq(S) /\ <<s, t>> # <<>> /\ Last(<<s, t>>) = t
  BY DEF Last

\* What a segment decodes to, and when that ends in a slash
LEMMA UnescapeType ==
    ASSUME NEW s \in Kind
    PROVE  /\ Unescape[s] \in Seq(Decoded)
           /\ Unescape[s] # <<>>
           /\ Last(Unescape[s]) = "" <=> s \in Slashed
  <1>1. CASE s \in Decoded
    <2>1. Unescape[s] = <<s>>
      BY <1>1, UnescapeValues
    <2>2. <<s>> \in Seq(Decoded) /\ <<s>> # <<>> /\ Last(<<s>>) = s
      BY <1>1, ShortSequences
    <2>3. s # "a%2F"
      BY <1>1 DEF Decoded
    <2> QED BY <2>1, <2>2, <2>3 DEF Slashed
  <1>2. CASE s \in {"a%20b", "a%21", "%2E%2E"}
    <2>1. PICK t \in {"a b", "a!", ".."} : Unescape[s] = <<t>>
      BY <1>2, UnescapeValues
    <2>2. t \in Decoded /\ t # ""
      BY DEF Decoded
    <2>3. <<t>> \in Seq(Decoded) /\ <<t>> # <<>> /\ Last(<<t>>) = t
      BY <2>2, ShortSequences
    <2>4. s \notin Slashed
      BY <1>2 DEF Slashed
    <2> QED BY <2>1, <2>2, <2>3, <2>4
  <1>3. CASE s = "a%2F"
    <2>1. PICK t \in Decoded, u \in Decoded : t = "a" /\ u = ""
      BY DEF Decoded
    <2>2. <<t, u>> \in Seq(Decoded) /\ <<t, u>> # <<>> /\ Last(<<t, u>>) = u
      BY ShortSequences
    <2>3. Unescape[s] = <<t, u>>
      BY <2>1, <1>3, UnescapeValues
    <2> QED BY <2>1, <2>2, <2>3, <1>3 DEF Slashed
  <1> QED BY <1>1, <1>2, <1>3, Kinds DEF Decoded

\* A path is decoded segment by segment.
LEMMA UnescapedAppend ==
    ASSUME NEW p \in Seq(Kind), NEW s \in Kind
    PROVE  /\ Unescaped(p) \in Seq(Decoded)
           /\ Unescaped(Append(p, s)) = Unescaped(p) \o Unescape[s]
  <1> DEFINE q == Append(p, s)
             ss == [i \in DOMAIN p |-> Unescape[p[i]]]
             tt == [i \in DOMAIN q |-> Unescape[q[i]]]
             n == Len(p)
  <1>1. /\ q \in Seq(Kind) /\ Len(q) = n + 1 /\ n \in Nat /\ q[n + 1] = s
        /\ \A i \in 1 .. n : q[i] = p[i]
        /\ DOMAIN p = 1 .. n /\ DOMAIN q = 1 .. n + 1
    BY AppendProperties, LenProperties
  <1> HIDE DEF q
  <1>2. \A i \in 1 .. n : p[i] \in Kind
    BY ElementOfSeq
  <1>3. ss \in Seq(Seq(Decoded)) /\ Len(ss) = n
    <2>1. \A i \in 1 .. n : Unescape[p[i]] \in Seq(Decoded)
      BY <1>2, UnescapeType
    <2> QED BY <1>1, <2>1
  <1>4. Unescape[s] \in Seq(Decoded)
    BY UnescapeType
  <1>5. tt = Append(ss, Unescape[s])
    <2>1. \A i \in 1 .. n + 1 : tt[i] = IF i <= n THEN ss[i] ELSE Unescape[s]
      BY <1>1
    <2>2. DOMAIN tt = 1 .. n + 1 /\ tt = [i \in DOMAIN tt |-> tt[i]]
      BY <1>1
    <2> HIDE DEF ss, tt
    <2> QED BY <1>1, <1>3, <1>4, <2>1, <2>2
  <1>6. FlattenSeq(ss) \in Seq(Decoded) /\ FlattenSeq(tt) = FlattenSeq(ss) \o Unescape[s]
    <2> HIDE DEF ss, tt
    <2> QED BY <1>3, <1>4, <1>5, FlattenAppend
  <1>7. Unescaped(p) = FlattenSeq(ss) /\ Unescaped(q) = FlattenSeq(tt)
    BY DEF Unescaped
  <1> HIDE DEF ss, tt
  <1> QED BY <1>6, <1>7 DEF q

\* Whether a path ends in a slash once it is decoded (net/url, URL.Path)
LEMMA TrailingSlash ==
    ASSUME NEW p \in Seq(Kind), p # <<>>
    PROVE  HadTrailingSlash(p) <=> p[Len(p)] \in Slashed
  <1>1. PICK q \in Seq(Kind), s \in Kind : p = Append(q, s)
    BY SequenceEmptyOrAppend
  <1>2. p[Len(p)] = s
    BY <1>1, AppendProperties
  <1> DEFINE u == Unescaped(q)
             v == Unescape[s]
  <1>3. u \in Seq(Decoded) /\ v \in Seq(Decoded) /\ v # <<>> /\ Unescaped(p) = u \o v
    BY <1>1, UnescapedAppend, UnescapeType
  <1>4. Last(u \o v) = Last(v)
    <2> HIDE DEF u, v
    <2>1. Len(v) \in Nat \ {0} /\ Len(u) \in Nat
      BY <1>3, LenProperties, EmptySeq
    <2>2. Len(u \o v) = Len(u) + Len(v) /\ (u \o v)[Len(u) + Len(v)] = v[Len(v)]
      BY <2>1, <1>3, ConcatProperties
    <2> QED BY <2>2 DEF Last
  <1>5. Last(v) = "" <=> s \in Slashed
    BY UnescapeType
  <1> QED BY <1>2, <1>3, <1>4, <1>5 DEF HadTrailingSlash

-----------------------------------------------------------------------------
(***************************************************************************)
(* NormalizePath: after two parses a path is as it stays.                  *)
(***************************************************************************)

\* The segments of a legal encoding, and those that a normalised path is made of.
Legal == Kind \ {"a b"}

\* The segments that stay as they are, however often the text is parsed
Settled == {"1", "+", "a", "a%20b", "a%21", "a%2F", "%2E%2E"}

\* Segment by segment.
EscapeAll(p) == [i \in DOMAIN p |-> PathEscape(p[i])]

\* The segments of S are escaped to segments of T.
EscapesTo(S, T) == \A s \in S : PathEscape(s) \in T

\* Escaping keeps the length of a path.
LEMMA EscapeAllType ==
    ASSUME NEW S, NEW T, NEW p \in Seq(S), EscapesTo(S, T)
    PROVE  /\ EscapeAll(p) \in Seq(T)
           /\ Len(EscapeAll(p)) = Len(p)
           /\ \A i \in 1 .. Len(p) : EscapeAll(p)[i] = PathEscape(p[i])
  <1>1. DOMAIN p = 1 .. Len(p) /\ Len(p) \in Nat
    BY LenProperties
  <1>2. \A i \in 1 .. Len(p) : PathEscape(p[i]) \in T
    BY ElementOfSeq DEF EscapesTo
  <1> QED BY <1>1, <1>2 DEF EscapeAll

\* What these sets of segments have to do with each other
LEMMA SettledKinds ==
    /\ Settled \subseteq Legal /\ Legal \subseteq Kind /\ "" \in Legal
    /\ Settled \cap Special = {}
    /\ "" \in Special /\ "" \in Slashed
    /\ CleansTo(Legal, Legal \ Special)
    /\ \A s \in Settled : PathEscape(s) = s
    /\ EscapesTo(Settled, Settled)
    /\ EscapesTo(Legal \ Special, Settled)
    /\ EscapesTo(Decoded, Legal)
  <1>1. Settled \subseteq Legal /\ Legal \subseteq Kind /\ "" \in Legal /\ Settled \cap Special = {}
    BY Kinds DEF Settled, Legal, Special
  <1>2. "" \in Special /\ "" \in Slashed
    BY DEF Special, Slashed
  <1>3. CleansTo(Legal, Legal \ Special)
    BY DEF CleansTo
  <1>4. \A s \in Settled : PathEscape(s) = s
    BY DEF Settled, PathEscape
  <1>5. EscapesTo(Legal \ Special, Settled) /\ EscapesTo(Settled, Settled)
    BY Kinds DEF EscapesTo, Settled, Legal, Special, PathEscape
  <1>6. EscapesTo(Decoded, Legal)
    BY Kinds DEF EscapesTo, Decoded, Legal, PathEscape
  <1> QED BY <1>1, <1>2, <1>3, <1>4, <1>5, <1>6

\* The segments of a decoded path
LEMMA UnescapedType ==
    ASSUME NEW p \in Seq(Kind)
    PROVE  Unescaped(p) \in Seq(Decoded)
  <1>1. "" \in Kind
    BY Kinds
  <1> QED BY <1>1, UnescapedAppend

\* A legal encoding is printed as it stands (net/url, EscapedPath).
LEMMA LegalStays ==
    ASSUME NEW p \in Seq(Legal)
    PROVE  EscapedPath(p) = p
  <1>1. "a b" \notin Range(p)
    <2>1. DOMAIN p = 1 .. Len(p)
      BY LenProperties
    <2>2. \A i \in 1 .. Len(p) : p[i] # "a b"
      <3>1. \A i \in 1 .. Len(p) : p[i] \in Legal
        BY ElementOfSeq
      <3> QED BY <3>1 DEF Legal
    <2> QED BY <2>1, <2>2 DEF Range
  <1> QED BY <1>1 DEF EscapedPath

\* What is printed is a legal encoding.
LEMMA EscapedType ==
    ASSUME NEW p \in Seq(Kind)
    PROVE  EscapedPath(p) \in Seq(Legal)
  <1>1. CASE "a b" \notin Range(p)
    <2>1. DOMAIN p = 1 .. Len(p) /\ Len(p) \in Nat /\ p = [i \in 1 .. Len(p) |-> p[i]]
      BY LenProperties
    <2>2. \A i \in 1 .. Len(p) : p[i] \in Legal
      <3>1. \A i \in 1 .. Len(p) : p[i] \in Kind
        BY ElementOfSeq
      <3>2. \A i \in 1 .. Len(p) : p[i] # "a b"
        BY <1>1, <2>1 DEF Range
      <3> QED BY <3>1, <3>2 DEF Legal
    <2>3. p \in Seq(Legal)
      BY <2>1, <2>2
    <2> QED BY <2>3, <1>1 DEF EscapedPath
  <1>2. CASE "a b" \in Range(p)
    <2>1. EscapedPath(p) = EscapeAll(Unescaped(p))
      BY <1>2 DEF EscapedPath, EscapeAll
    <2>2. EscapesTo(Decoded, Legal)
      BY SettledKinds
    <2> QED BY <2>1, <2>2, UnescapedType, EscapeAllType
  <1> QED BY <1>1, <1>2

\* The segments of the result, before the trailing slash comes back
Body(p) == EscapeAll(Clean(EscapedPath(p)))

\* The body of a path is settled.
LEMMA BodyType ==
    ASSUME NEW p \in Seq(Kind)
    PROVE  /\ Body(p) \in Seq(Settled)
           /\ Clean(EscapedPath(p)) = <<>> <=> Body(p) = <<>>
  <1> DEFINE c == Clean(EscapedPath(p))
  <1>1. c \in Seq(Legal \ Special)
    BY EscapedType, SettledKinds, CleanType
  <1>2. EscapeAll(c) \in Seq(Settled) /\ Len(EscapeAll(c)) = Len(c)
    <2>1. EscapesTo(Legal \ Special, Settled)
      BY SettledKinds
    <2> HIDE DEF c
    <2> QED BY <1>1, <2>1, EscapeAllType
  <1>3. c = <<>> <=> EscapeAll(c) = <<>>
    <2> HIDE DEF c
    <2> QED BY <1>1, <1>2, EmptySeq
  <1> QED BY <1>2, <1>3 DEF Body

\* NormalizePath is the body and, after a path that ends in a slash, a slash.
LEMMA NormalizeForm ==
    ASSUME NEW p \in Seq(Kind), p # <<>>
    PROVE  NormalizePath(p) = IF Body(p) = <<>> THEN <<"">>
                              ELSE IF p[Len(p)] \in Slashed THEN Append(Body(p), "") ELSE Body(p)
  <1>1. Clean(EscapedPath(p)) = <<>> <=> Body(p) = <<>>
    BY BodyType
  <1>2. HadTrailingSlash(p) <=> p[Len(p)] \in Slashed
    BY TrailingSlash
  <1> QED BY <1>1, <1>2, Zenon DEF NormalizePath, Body, EscapeAll, Rooted

\* The body of a settled path is the path.
LEMMA SettledBody ==
    ASSUME NEW e \in Seq(Settled)
    PROVE  Body(e) = e /\ Body(Append(e, "")) = e
  <1>1. e \in Seq(Legal)
    BY SettledKinds, SeqMonotonic
  <1>2. EscapedPath(e) = e /\ Clean(e) = e
    BY <1>1, LegalStays, SettledKinds, CleanIdentity
  <1>3. EscapeAll(e) = e
    <2>1. EscapeAll(e) \in Seq(Settled) /\ Len(EscapeAll(e)) = Len(e)
        /\ \A i \in 1 .. Len(e) : EscapeAll(e)[i] = PathEscape(e[i])
      <3>1. EscapesTo(Settled, Settled)
        BY SettledKinds
      <3> QED BY <3>1, EscapeAllType
    <2>2. \A i \in 1 .. Len(e) : EscapeAll(e)[i] = e[i]
      BY <2>1, ElementOfSeq, SettledKinds
    <2> QED BY <2>1, <2>2, SeqEqual
  <1>4. Append(e, "") \in Seq(Legal)
    BY <1>1, SettledKinds, AppendProperties
  <1>5. EscapedPath(Append(e, "")) = Append(e, "")
    BY <1>4, LegalStays
  <1>6. Clean(Append(e, "")) = e
    <2>1. Clean(Append(e, "")) = CleanStep(Clean(e), "")
      <3>1. "" \in Legal /\ CleansTo(Legal, Legal \ Special)
        BY SettledKinds
      <3> QED BY <3>1, <1>1, CleanAppend
    <2>2. CleanStep(e, "") = e
      BY Zenon DEF CleanStep
    <2> QED BY <2>1, <2>2, <1>2
  <1> QED BY <1>2, <1>3, <1>5, <1>6 DEF Body

\* The last element after Append
LEMMA AppendLast ==
    ASSUME NEW S, NEW q \in Seq(S), NEW s \in S
    PROVE  /\ Append(q, s) \in Seq(S) /\ Append(q, s) # <<>>
           /\ Append(q, s)[Len(Append(q, s))] = s
  <1>1. /\ Append(q, s) \in Seq(S) /\ Append(q, s) # <<>>
        /\ Len(Append(q, s)) = Len(q) + 1 /\ Append(q, s)[Len(q) + 1] = s
    BY AppendProperties
  <1> QED BY <1>1

\* A path that is settled comes out as it goes in, but for a slash after "a%2F".
LEMMA NormalizeSettled ==
    ASSUME NEW e \in Seq(Settled), e # <<>>
    PROVE  /\ NormalizePath(Append(e, "")) = Append(e, "")
           /\ NormalizePath(e) = IF e[Len(e)] \in Slashed THEN Append(e, "") ELSE e
  <1>1. e \in Seq(Kind) /\ Append(e, "") \in Seq(Kind)
    BY SettledKinds, SeqMonotonic, AppendProperties
  <1>2. Append(e, "") # <<>> /\ Append(e, "")[Len(Append(e, ""))] = ""
    <2>1. "" \in Kind
      BY SettledKinds
    <2> QED BY <2>1, <1>1, AppendLast
  <1> QED BY <1>1, <1>2, SettledBody, NormalizeForm, SettledKinds

\* The paths without segments
LEMMA NormalizeRoot ==
    /\ NormalizePath(<<>>) = <<>>
    /\ <<"">> \in Seq(Kind) /\ NormalizePath(<<"">>) = <<"">>
  <1>1. NormalizePath(<<>>) = <<>>
    BY DEF NormalizePath
  <1>2. <<>> \in Seq(Settled) /\ Append(<<>>, "") = <<"">> /\ <<"">> # <<>>
    BY EmptySeq
  <1>3. Body(<<"">>) = <<>>
    BY <1>2, SettledBody
  <1>4. <<"">> \in Seq(Kind)
    <2>1. "" \in Kind
      BY SettledKinds
    <2> QED BY <2>1, ShortSequences
  <1> QED BY <1>1, <1>2, <1>3, <1>4, NormalizeForm

\* Two parses bring every path to its last form.
LEMMA PathsSettle ==
    ASSUME NEW p \in Seq(Kind)
    PROVE  /\ NormalizePath(p) \in Seq(Kind)
           /\ Stable(NormalizePath(NormalizePath(p)))
  <1>1. CASE p = <<>>
    BY <1>1, NormalizeRoot DEF Stable
  <1>2. CASE p # <<>> /\ Body(p) = <<>>
    <2>1. NormalizePath(p) = <<"">>
      BY <1>2, NormalizeForm
    <2> QED BY <2>1, NormalizeRoot DEF Stable
  <1>3. CASE p # <<>> /\ Body(p) # <<>>
    <2> DEFINE e == Body(p)
    <2>1. e \in Seq(Settled) /\ e # <<>>
      BY <1>3, BodyType
    <2>2. NormalizePath(p) \in {e, Append(e, "")}
      BY <1>3, NormalizeForm
    <2> HIDE DEF e
    <2>3. e \in Seq(Kind) /\ Append(e, "") \in Seq(Kind)
      BY <2>1, SettledKinds, SeqMonotonic, AppendProperties
    <2>4. NormalizePath(Append(e, "")) = Append(e, "") /\ NormalizePath(e) \in {e, Append(e, "")}
      BY <2>1, NormalizeSettled
    <2> QED BY <2>2, <2>3, <2>4 DEF Stable
  <1> QED BY <1>1, <1>2, <1>3

-----------------------------------------------------------------------------
(***************************************************************************)
(* ParseURL of a text.                                                     *)
(***************************************************************************)

\* What a parse does to the parts of a text (common/url/url.go, ParseURL)
LEMMA ParseFields ==
    ASSUME NEW t \in Text
    PROVE  LET u == ParseURL(t) IN
           /\ u \in Text
           /\ u.path = NormalizePath(t.path)
           /\ u.scheme = t.scheme /\ u.port = t.port /\ u.query = t.query
           /\ u.fragment.percent = t.fragment.percent
           /\ u.fragment.depth = IF t.fragment.depth = 0 THEN 0 ELSE t.fragment.depth - 1
           /\ u = t <=> Stable(t.path) /\ t.fragment.depth = 0
  <1> DEFINE u == ParseURL(t)
             f == t.fragment
             d == IF f.depth = 0 THEN 0 ELSE f.depth - 1
             g == [percent |-> f.percent, depth |-> d]
             p == NormalizePath(t.path)
  <1>1. /\ t.scheme \in {"gemini", "gopher"} /\ t.port \in {"default", "other"}
        /\ t.path \in Seq(Kind) /\ t.query \in BOOLEAN /\ f \in Fragment
        /\ t = [scheme |-> t.scheme, port |-> t.port, path |-> t.path, query |-> t.query, fragment |-> f]
    BY DEF Text, Kind
  <1>2. f.percent \in BOOLEAN /\ f.depth \in 0 .. MaxDepth /\ f = [percent |-> f.percent, depth |-> f.depth]
    BY <1>1 DEF Fragment
  <1>3. MaxDepth \in Nat
    BY TextAssumption
  <1>4. d \in 0 .. MaxDepth /\ (d = f.depth <=> f.depth = 0)
    BY <1>2, <1>3
  <1>5. g \in Fragment /\ (g = f <=> f.depth = 0)
    BY <1>2, <1>4 DEF Fragment
  <1>6. p \in Seq(Kind)
    BY <1>1, PathsSettle
  <1>7. u = [scheme |-> t.scheme, port |-> t.port, path |-> p, query |-> t.query, fragment |-> g]
    <2>1. u = [t EXCEPT !.path = p, !.fragment = g]
      <3>1. u = [t EXCEPT !.path = p, !.fragment.depth = d]
        BY DEF ParseURL
      <3>2. [t EXCEPT !.path = p, !.fragment.depth = d]
               = [t EXCEPT !.path = p, !.fragment = [t.fragment EXCEPT !.depth = d]]
        OBVIOUS
      <3>3. [f EXCEPT !.depth = d] = g
        <4> HIDE DEF d
        <4> QED BY <1>2
      <3> QED BY <3>1, <3>2, <3>3
    <2> HIDE DEF p, g, u
    <2> QED BY <2>1, <1>1
  <1> HIDE DEF p, g, u, d
  <1>8. u \in Text
    BY <1>1, <1>5, <1>6, <1>7 DEF Text, Kind
  <1>9. u = t <=> p = t.path /\ g = f
    BY <1>1, <1>7
  <1>10. g.percent = f.percent /\ g.depth = d
    BY DEF g
  <1> QED BY <1>7, <1>8, <1>9, <1>5, <1>10 DEF Stable, p, d, u

-----------------------------------------------------------------------------
(***************************************************************************)
(* The links that pages, menus and seed files hold, and their rows.        *)
(***************************************************************************)

\* The paths of links
LEMMA ShortPathType ==
    ASSUME NEW p \in ShortPath
    PROVE  p \in Seq(Kind) /\ Rooted(p) \in Seq(Kind)
  <1>1. PICK n \in 0 .. MaxSegments : p \in [1 .. n -> Segment]
    BY DEF ShortPath
  <1>2. n \in Nat /\ Segment \subseteq Kind
    BY TextAssumption DEF Kind
  <1>3. p \in Seq(Kind)
    BY <1>1, <1>2
  <1> QED BY <1>3, NormalizeRoot DEF Rooted

\* A link is a text.
LEMMA LinkType ==
    ASSUME NEW scheme \in {"gemini", "gopher"}, NEW port \in {"default", "other"}, NEW p \in Seq(Kind),
           NEW query \in BOOLEAN, NEW fragment \in Fragment
    PROVE  Link(scheme, port, p, query, fragment) \in Text
  BY DEF Link, Text, Kind

\* What the inputs are
LEMMA InputsType ==
    ASSUME Inputs
    PROVE  /\ link \in Text
           /\ via \in {"page", "menu", "seed"}
           /\ target # NoTarget => /\ target \in Target /\ rule = NoPath
                                   /\ link.scheme = "gemini" /\ link.fragment = Plain
  <1>1. Plain \in Fragment
    BY TextAssumption DEF Plain, Fragment
  <1>2. link \in PageLink => link \in Text
    <2> DEFINE Bare   == {Link("gemini", "default", p, FALSE, Plain) :
                             p \in {q \in ShortPath : "a b" \notin Range(q)}}
               Tagged == {Link("gemini", port, <<"a">>, q, f) :
                            port \in {"default", "other"}, q \in BOOLEAN, f \in Fragment}
    <2>0. PageLink = Bare \cup Tagged
      BY DEF PageLink
    <2>1. link \in Bare => link \in Text
      <3> SUFFICES ASSUME link \in Bare PROVE link \in Text
        OBVIOUS
      <3>1. PICK p \in ShortPath : link = Link("gemini", "default", p, FALSE, Plain)
        OBVIOUS
      <3> QED BY <3>1, <1>1, ShortPathType, LinkType
    <2>2. link \in Tagged => link \in Text
      <3> SUFFICES ASSUME link \in Tagged PROVE link \in Text
        OBVIOUS
      <3>1. PICK port \in {"default", "other"}, q \in BOOLEAN, f \in Fragment :
               link = Link("gemini", port, <<"a">>, q, f)
        OBVIOUS
      <3>2. <<"a">> \in Seq(Kind)
        <4>1. "a" \in Kind
          BY Kinds
        <4> QED BY <4>1, ShortSequences
      <3> QED BY <3>1, <3>2, LinkType
    <2> HIDE DEF Bare, Tagged
    <2> QED BY <2>0, <2>1, <2>2
  <1>3. selector \in Selector /\ link = MenuLink(selector) => link \in Text
    <2> SUFFICES ASSUME selector \in Selector, link = MenuLink(selector) PROVE link \in Text
      OBVIOUS
    <2>1. PICK type \in {"1", "+"}, p \in ShortPath, q \in BOOLEAN :
             link = Link("gopher", "default", <<type>> \o Rooted(p), q, Plain)
      BY DEF MenuLink, Selector
    <2>2. type \in Kind
      BY Kinds
    <2>3. <<type>> \in Seq(Kind) /\ Rooted(p) \in Seq(Kind)
      BY <2>2, ShortSequences, ShortPathType
    <2>4. <<type>> \o Rooted(p) \in Seq(Kind)
      BY <2>3, ConcatProperties
    <2> QED BY <2>1, <2>4, <1>1, LinkType
  <1>4. link \in SeedLink => link \in Text
    <2>1. CASE link \in {Link("gemini", "default", p, FALSE, Plain) : p \in ShortPath}
      <3>1. PICK p \in ShortPath : link = Link("gemini", "default", p, FALSE, Plain)
        BY <2>1
      <3> QED BY <3>1, <1>1, ShortPathType, LinkType
    <2>2. CASE link \in {Link("gemini", "default", <<"a b">>, FALSE, f) : f \in Fragment}
      <3>1. PICK f \in Fragment : link = Link("gemini", "default", <<"a b">>, FALSE, f)
        BY <2>2
      <3>2. <<"a b">> \in Seq(Kind)
        <4>1. "a b" \in Kind
          BY Kinds
        <4> QED BY <4>1, ShortSequences
      <3> QED BY <3>1, <3>2, LinkType
    <2> QED BY <2>1, <2>2 DEF SeedLink
  <1> QED BY <1>2, <1>3, <1>4 DEF Inputs

\* How often a fragment is encoded after k parses
Left(k) == IF link.fragment.depth <= k THEN 0 ELSE link.fragment.depth - k

\* The parts of the row of a link
LEMMA RowFields ==
    ASSUME Inputs
    PROVE  /\ Row \in Text
           /\ Row.path = IF via = "seed" THEN NormalizePath(link.path) ELSE LinkPath
           /\ Row.scheme = link.scheme /\ Row.port = link.port /\ Row.query = link.query
           /\ Row.fragment.percent = link.fragment.percent
           /\ Row.fragment.depth = Left(Hops)
  <1> DEFINE full == ParseURL(link)
  <1>1. link \in Text
    BY InputsType
  <1>2. full \in Text
    BY <1>1, ParseFields
  <1>3. link.fragment.depth \in Nat
    BY <1>1, TextAssumption DEF Text, Fragment
  <1>4. CASE via = "seed"
    <2>1. Row = full /\ Hops = 1
      BY <1>4 DEF Row, Hops
    <2>2. full.fragment.depth = Left(1)
      <3> HIDE DEF full
      <3>1. full.fragment.depth = IF link.fragment.depth = 0 THEN 0 ELSE link.fragment.depth - 1
        BY <1>1, ParseFields DEF full
      <3> QED BY <3>1, <1>3 DEF Left
    <2> QED BY <2>1, <2>2, <1>1, <1>4, ParseFields
  <1>5. CASE via # "seed"
    <2>1. Row = ParseURL(full) /\ Hops = 2
      BY <1>5 DEF Row, Hops
    <2>2. ParseURL(full).fragment.depth = Left(2)
      <3> HIDE DEF full
      <3>1. full.fragment.depth = IF link.fragment.depth = 0 THEN 0 ELSE link.fragment.depth - 1
        BY <1>1, ParseFields DEF full
      <3>2. ParseURL(full).fragment.depth = IF full.fragment.depth = 0 THEN 0 ELSE full.fragment.depth - 1
        BY <1>2, ParseFields
      <3> QED BY <3>1, <3>2, <1>3 DEF Left
    <2>3. ParseURL(full).path = NormalizePath(full.path) /\ full.path = NormalizePath(link.path)
      BY <1>1, <1>2, ParseFields
    <2> QED BY <2>1, <2>2, <2>3, <1>1, <1>2, <1>5, ParseFields DEF LinkPath
  <1> QED BY <1>4, <1>5

-----------------------------------------------------------------------------
(***************************************************************************)
(* Rows and the texts that are parsed from them.                           *)
(***************************************************************************)

\* What text t of a row or of a snapshot has kept of the link after k parses
Kept(t, k) ==
    /\ t.fragment.percent = link.fragment.percent
    /\ t.fragment.depth = Left(k)

\* A parse takes one level of encoding away.
LEMMA LeftLess ==
    ASSUME Inputs, NEW k \in Nat, NEW t \in Text, Kept(t, k)
    PROVE  Kept(ParseURL(t), k + 1)
  <1>1. link.fragment.depth \in Nat
    BY InputsType, TextAssumption DEF Text, Fragment
  <1>2. t.fragment.depth = Left(k) /\ t.fragment.percent = link.fragment.percent
    BY DEF Kept
  <1>3. /\ ParseURL(t).fragment.percent = t.fragment.percent
        /\ ParseURL(t).fragment.depth = IF t.fragment.depth = 0 THEN 0 ELSE t.fragment.depth - 1
    BY ParseFields
  <1> QED BY <1>1, <1>2, <1>3 DEF Kept, Left

\* A fragment that is not encoded stays so.
LEMMA PlainKept ==
    ASSUME link.fragment = Plain, NEW k \in Nat, NEW t, t.fragment = Plain
    PROVE  Kept(t, k)
  BY DEF Kept, Left, Plain

\* Rows, and the two texts that become their snapshots
LEMMA RowFacts ==
    ASSUME TextInv, NEW t \in urls \cup marked
    PROVE  /\ t \in Text /\ Kept(t, Hops)
           /\ ParseURL(t) \in Text /\ Kept(ParseURL(t), Hops + 1)
           /\ ParseURL(ParseURL(t)) \in Text /\ Kept(ParseURL(ParseURL(t)), Hops + 2)
           /\ Stable(ParseURL(t).path) /\ ParseURL(ParseURL(t)).path = ParseURL(t).path
           /\ ParseURL(t) # t => Leftover
           /\ ParseURL(ParseURL(t)) # t => Leftover
  <1> DEFINE u == ParseURL(t)
             v == ParseURL(u)
  <1>1. t \in Text /\ Inputs
    BY DEF TextInv, TextTypeOK
  <1>2. Hops \in Nat /\ Hops + 1 \in Nat /\ Hops + 1 + 1 = Hops + 2
    BY DEF Hops
  <1>3. Kept(t, Hops)
    <2>1. CASE target = NoTarget
      <3>1. t = Row
        BY <2>1 DEF TextInv, RowsInv
      <3> QED BY <3>1, <1>1, RowFields DEF Kept
    <2>2. CASE target # NoTarget
      <3>1. t.fragment = Plain /\ link.fragment = Plain
        BY <2>2, <1>1, InputsType DEF TextInv, RowsInv
      <3> QED BY <3>1, <1>2, PlainKept
    <2> QED BY <2>1, <2>2
  <1>4. u \in Text /\ Kept(u, Hops + 1)
    BY <1>1, <1>2, <1>3, LeftLess, ParseFields
  <1>5. v \in Text /\ Kept(v, Hops + 2)
    <2> HIDE DEF u
    <2>1. Kept(v, Hops + 1 + 1) /\ v \in Text
      BY <1>1, <1>2, <1>4, LeftLess, ParseFields
    <2> QED BY <2>1, <1>2
  <1>6. Stable(u.path) /\ v.path = u.path
    <2>1. Stable(t.path) \/ t.path = NormalizePath(link.path)
      BY DEF TextInv, RowsInv
    <2>2. link.path \in Seq(Kind)
      BY <1>1, InputsType DEF Text, Kind
    <2>3. u.path = NormalizePath(t.path)
      BY <1>1, ParseFields
    <2>4. Stable(u.path)
      BY <2>1, <2>2, <2>3, PathsSettle DEF Stable
    <2> HIDE DEF u
    <2>5. v.path = NormalizePath(u.path)
      BY <1>4, ParseFields
    <2> QED BY <2>4, <2>5 DEF Stable
  <1>7. Stable(t.path) /\ t.fragment.depth = 0 => u = t /\ v = t
    BY <1>1, ParseFields
  <1>8. ~Stable(t.path) \/ t.fragment.depth # 0 => Leftover
    <2>1. ~Stable(t.path) => Leftover
      BY DEF TextInv, RowsInv, Leftover
    <2>2. link.fragment.depth \in Nat
      BY <1>1, InputsType, TextAssumption DEF Text, Fragment
    <2>3. t.fragment.depth # 0 => Leftover
      BY <1>2, <1>3, <2>2 DEF Kept, Left, Leftover
    <2> QED BY <2>1, <2>3
  <1> QED BY <1>1, <1>3, <1>4, <1>5, <1>6, <1>7, <1>8

\* TextInv holds initially.
LEMMA TextInit == Init => TextInv
  <1> SUFFICES ASSUME Init PROVE TextInv
    OBVIOUS
  <1>1. Inputs /\ TextTypeOK
    BY InputsType DEF Init, TextTypeOK
  <1>2. RowsInv /\ SnapshotsInv /\ RowsLeaveInv /\ LookupInv
    BY DEF Init, RowsInv, SnapshotsInv, RowsLeaveInv, LookupInv
  <1> QED BY <1>1, <1>2 DEF TextInv

\* What never changes
LEMMA InputsStay ==
    ASSUME UNCHANGED given
    PROVE  /\ Inputs' = Inputs /\ Row' = Row /\ Hops' = Hops /\ Leftover' = Leftover
           /\ LinkPath' = LinkPath /\ TextIsFinal' = TextIsFinal
           /\ link' = link /\ via' = via /\ rule' = rule /\ target' = target
  BY DEF given, Inputs, Row, Hops, Leftover, LinkPath, TextIsFinal

-----------------------------------------------------------------------------
(***************************************************************************)
(* TextInv is inductive: Start, CheckLink, InsertLink, Claim.              *)
(***************************************************************************)

\* A new row of the link, or of a redirect from a page
NewRow(t) ==
    /\ t \in Text
    /\ Stable(t.path) \/ (via = "seed" /\ t.path = NormalizePath(link.path))
    /\ IF target = NoTarget THEN t = Row ELSE t.scheme = "gemini" /\ t.fragment = Plain

\* The row that InsertURL adds for the link
LEMMA LinkIsRow ==
    ASSUME Inputs, NEW t, t = IF via = "seed" THEN link ELSE ParseURL(link), Parses(t),
           via # "seed" => Parses(link)
    PROVE  NewRow(ParseURL(t)) /\ (link.fragment.percent => link.fragment.depth >= Hops)
  <1>1. link \in Text /\ link.path \in Seq(Kind)
    BY InputsType DEF Text, Kind
  <1>2. ParseURL(t) = Row
    BY DEF Row
  <1>3. Row \in Text
    BY RowFields
  <1>4. Stable(Row.path) \/ (via = "seed" /\ Row.path = NormalizePath(link.path))
    BY <1>1, RowFields, PathsSettle DEF LinkPath
  <1>5. target # NoTarget => Row.scheme = "gemini" /\ Row.fragment = Plain
    <2> SUFFICES ASSUME target # NoTarget
                 PROVE  Row.scheme = "gemini" /\ Row.fragment = Plain
      OBVIOUS
    <2>1. link.scheme = "gemini" /\ link.fragment = Plain
      BY InputsType
    <2>2. link.fragment.depth = 0 /\ link.fragment.percent = FALSE
      BY <2>1 DEF Plain
    <2>3. Hops \in {1, 2}
      BY DEF Hops
    <2>4. Left(Hops) = 0
      BY <2>2, <2>3 DEF Left
    <2>5. Row.scheme = "gemini" /\ Row.fragment.percent = FALSE /\ Row.fragment.depth = 0
      BY <2>1, <2>2, <2>4, RowFields
    <2>6. Row.fragment \in Fragment
      BY <1>3 DEF Text
    <2> QED BY <2>5, <2>6 DEF Fragment, Plain
  <1>6. link.fragment.percent => link.fragment.depth >= Hops
    <2>1. link.fragment.depth \in Nat
      BY <1>1, TextAssumption DEF Text, Fragment
    <2>2. CASE via = "seed"
      BY <2>1, <2>2 DEF Hops, Parses
    <2>3. CASE via # "seed"
      <3> DEFINE u == ParseURL(link)
      <3>1. Parses(link) /\ Parses(u)
        BY <2>3
      <3>2. /\ u.fragment.percent = link.fragment.percent
            /\ u.fragment.depth = IF link.fragment.depth = 0 THEN 0 ELSE link.fragment.depth - 1
        BY <1>1, ParseFields
      <3> HIDE DEF u
      <3> QED BY <2>1, <2>3, <3>1, <3>2 DEF Hops, Parses
    <2> QED BY <2>2, <2>3
  <1> QED BY <1>2, <1>3, <1>4, <1>5, <1>6 DEF NewRow

\* Start keeps TextInv (the seed file, or the page with the link).
LEMMA StartKeeps ==
    ASSUME TextInv, Start
    PROVE  TextInv'
  <1>1. /\ UNCHANGED <<given, marked, job, snapshots, request, lost>> /\ UNCHANGED given
        /\ status = "down" /\ status' = "up" /\ UNCHANGED <<checked, overtaken>>
    BY DEF Start, lookup
  <1>2. marked = {} /\ marked' = {} /\ job = NoText /\ job' = NoText
    BY <1>1 DEF TextInv, RowsLeaveInv, TextTypeOK
  <1>5. LookupInv'
    BY <1>1 DEF TextInv, LookupInv
  <1>3. CASE via = "seed"
    <2>1. Parses(link) /\ urls' = urls \cup {ParseURL(link)}
      BY <1>2, <1>3 DEF Start, InsertURL
    <2>2. NewRow(ParseURL(link)) /\ (link.fragment.percent => link.fragment.depth >= Hops)
      BY <1>3, <2>1, LinkIsRow DEF TextInv
    <2> DEFINE t == ParseURL(link)
    <2> HIDE DEF t
    <2>3. TextTypeOK'
      BY <1>1, <1>2, <2>1, <2>2, InputsStay DEF TextInv, TextTypeOK, NewRow, t
    <2>4. RowsInv'
      BY <1>1, <1>2, <2>1, <2>2, InputsStay DEF TextInv, RowsInv, NewRow, t
    <2>5. SnapshotsInv' /\ RowsLeaveInv'
      BY <1>1, <1>2, <1>3, InputsStay DEF TextInv, SnapshotsInv, RowsLeaveInv
    <2> QED BY <1>1, <1>5, <2>3, <2>4, <2>5, InputsStay DEF TextInv
  <1>4. CASE via # "seed"
    <2>1. urls' = urls
      BY <1>4 DEF Start
    <2>2. TextTypeOK' /\ RowsInv' /\ SnapshotsInv' /\ RowsLeaveInv'
      BY <1>1, <1>2, <2>1, InputsStay DEF TextInv, TextTypeOK, RowsInv, SnapshotsInv, RowsLeaveInv
    <2> QED BY <1>1, <1>5, <2>2, InputsStay DEF TextInv
  <1> QED BY <1>3, <1>4

\* A link whose text is settled and that has a snapshot is passed on by the lookup only if
\* there is a row.
LEMMA RowFound ==
    ASSUME TextInv, CheckLink, target = NoTarget, snapshots # {}, TextIsFinal
    PROVE  urls \cup marked # {}
  <1> SUFFICES ASSUME urls \cup marked = {} PROVE FALSE
    OBVIOUS
  <1> DEFINE full == ParseURL(link)
  <1>1. via # "seed" /\ ~HaveWeVisited(full)
    BY DEF CheckLink
  <1>3. link \in Text /\ Inputs
    BY InputsType DEF TextInv
  <1>4. link.fragment.depth \in Nat /\ link.fragment.depth <= 1
    BY <1>3, TextAssumption DEF Text, Fragment, TextIsFinal
  <1>5. full \in Text /\ Stable(full.path)
    BY <1>3, ParseFields DEF TextIsFinal
  <1>6. full.fragment.depth = 0
    <2> HIDE DEF full
    <2>1. full.fragment.depth = IF link.fragment.depth = 0 THEN 0 ELSE link.fragment.depth - 1
      BY <1>3, ParseFields DEF full
    <2> QED BY <2>1, <1>4
  <1>7. ParseURL(full) = full
    <2> HIDE DEF full
    <2> QED BY <1>5, <1>6, ParseFields
  <1>8. Row = full
    BY <1>1, <1>7 DEF Row
  <1>9. full \in snapshots
    <2> HIDE DEF full
    <2> QED BY <1>7, <1>8 DEF TextInv, SnapshotsInv
  <1> QED BY <1>1, <1>9 DEF HaveWeVisited

\* CheckLink keeps TextInv (common/worker.go, storeLinks and haveWeVisitedURL).
LEMMA CheckLinkKeeps ==
    ASSUME TextInv, CheckLink
    PROVE  TextInv'
  <1> DEFINE full == ParseURL(link)
  <1>1. /\ UNCHANGED given /\ UNCHANGED <<urls, marked, job, snapshots, request, lost, status>>
        /\ via # "seed" /\ Parses(link) /\ status # "down"
        /\ checked' = full /\ overtaken' = FALSE
    BY DEF CheckLink
  <1>2. full \in Text
    BY InputsType, ParseFields DEF TextInv
  <1>3. TextTypeOK' /\ RowsInv' /\ SnapshotsInv' /\ RowsLeaveInv'
    <2> HIDE DEF full
    <2> QED BY <1>1, <1>2, InputsStay DEF TextInv, TextTypeOK, RowsInv, SnapshotsInv, RowsLeaveInv
  <1>4. LookupInv'
    <2>1. target' = NoTarget /\ snapshots' # {} /\ TextIsFinal' => urls' \cup marked' # {}
      BY <1>1, InputsStay, RowFound
    <2>2. via' # "seed" /\ status' # "down" /\ Parses(link)' /\ checked' = ParseURL(link)'
      BY <1>1, InputsStay DEF Parses, ParseURL
    <2> QED BY <2>1, <2>2 DEF LookupInv
  <1> QED BY <1>1, <1>3, <1>4, InputsStay DEF TextInv

\* InsertLink keeps TextInv (db/db.go, InsertURL).
LEMMA InsertLinkKeeps ==
    ASSUME TextInv, InsertLink
    PROVE  TextInv'
  <1> DEFINE full == ParseURL(link)
  <1>1. /\ UNCHANGED given /\ UNCHANGED <<marked, job, snapshots, request, status>>
        /\ via # "seed" /\ Parses(link) /\ status # "down" /\ checked = full
        /\ checked' = NoText /\ overtaken' = FALSE
    BY DEF InsertLink, TextInv, LookupInv
  <1>5. LookupInv'
    BY <1>1 DEF LookupInv
  <1>2. CASE Parses(full)
    <2>1. urls' = urls \cup ({ParseURL(full)} \ marked) /\ lost' = lost
      BY <1>1, <1>2 DEF InsertLink, InsertURL
    <2>2. NewRow(ParseURL(full)) /\ (link.fragment.percent => link.fragment.depth >= Hops)
      BY <1>1, <1>2, LinkIsRow DEF TextInv
    <2> DEFINE t == ParseURL(full)
    <2> HIDE DEF t
    <2>3. TextTypeOK'
      BY <1>1, <2>1, <2>2, InputsStay DEF TextInv, TextTypeOK, NewRow, t
    <2>4. RowsInv'
      BY <1>1, <2>1, <2>2, InputsStay DEF TextInv, RowsInv, NewRow, t
    <2>5. SnapshotsInv'
      BY <1>1, InputsStay DEF TextInv, SnapshotsInv
    <2>6. RowsLeaveInv'
      BY <1>1, InputsStay DEF TextInv, RowsLeaveInv
    <2> QED BY <1>1, <1>5, <2>3, <2>4, <2>5, <2>6, InputsStay DEF TextInv
  <1>3. CASE ~Parses(full)
    <2>1. urls' = urls /\ lost' = TRUE
      BY <1>1, <1>3 DEF InsertLink
    <2>2. TextTypeOK' /\ RowsInv' /\ SnapshotsInv' /\ RowsLeaveInv'
      BY <1>1, <2>1, InputsStay DEF TextInv, TextTypeOK, RowsInv, SnapshotsInv, RowsLeaveInv
    <2> QED BY <1>1, <1>5, <2>2, InputsStay DEF TextInv
  <1> QED BY <1>2, <1>3

\* Claim keeps TextInv (the scheduler marks the row and hands it out).
LEMMA ClaimKeeps ==
    ASSUME TextInv, Claim
    PROVE  TextInv'
  <1>1. /\ UNCHANGED given /\ UNCHANGED <<snapshots, request, lost>>
        /\ status = "up" /\ job = NoText /\ UNCHANGED <<checked, overtaken>>
    BY DEF Claim, lookup
  <1>2. PICK t \in urls :
          /\ urls' = urls \ {t} /\ marked' = marked \cup {t}
          /\ IF Parses(t) THEN job' = t /\ UNCHANGED status ELSE status' = "hung" /\ UNCHANGED job
    BY DEF Claim
  <1>3. t \in Text /\ NoText \notin marked /\ t # NoText
    BY TextAssumption DEF TextInv, TextTypeOK
  <1>4. urls' \cup marked' = urls \cup marked
    BY <1>2
  <1>5. TextTypeOK'
    BY <1>1, <1>2, <1>3, InputsStay DEF TextInv, TextTypeOK
  <1>6. RowsInv'
    BY <1>1, <1>2, <1>4, InputsStay DEF TextInv, RowsInv
  <1>7. SnapshotsInv'
    BY <1>1, InputsStay DEF TextInv, SnapshotsInv
  <1>8. RowsLeaveInv'
    <2>1. status' # "down"
      BY <1>1, <1>2
    <2>2. status' = "up" /\ marked' \ {job'} # {} => Leftover'
      BY <1>1, <1>2, <1>3, InputsStay DEF TextInv, RowsLeaveInv
    <2> QED BY <1>1, <1>4, <2>1, <2>2, InputsStay DEF TextInv, RowsLeaveInv
  <1>9. LookupInv'
    <2>1. status' # "down"
      BY <1>1, <1>2
    <2>2. Parses(link)' = Parses(link) /\ ParseURL(link)' = ParseURL(link)
      BY <1>1, InputsStay DEF Parses, ParseURL
    <2> QED BY <1>1, <1>4, <2>1, <2>2, InputsStay DEF TextInv, LookupInv
  <1> QED BY <1>1, <1>5, <1>6, <1>7, <1>8, <1>9, InputsStay DEF TextInv

-----------------------------------------------------------------------------
(***************************************************************************)
(* TextInv is inductive: the row of a redirect.                            *)
(***************************************************************************)

\* A path stays a path when it gets a leading slash or is cleaned.
LEMMA RootedType ==
    ASSUME NEW p \in Seq(Kind)
    PROVE  Rooted(p) \in Seq(Kind) /\ Clean(p) \in Seq(Kind)
  <1>1. CleansTo(Kind, Kind)
    BY DEF CleansTo
  <1> QED BY <1>1, NormalizeRoot, CleanType DEF Rooted

\* The targets of redirects are paths.
LEMMA TargetType ==
    ASSUME NEW to \in Target
    PROVE  to.path \in Seq(Kind) /\ to.kind \in {"url", "absolute", "relative"}
  <1>1. "" \in Kind /\ "a" \in Kind /\ ".." \in Kind /\ "a!" \in Kind
    BY Kinds
  <1>2. <<"">> \in Seq(Kind) /\ <<"a">> \in Seq(Kind) /\ <<"a", "">> \in Seq(Kind) /\ <<"..", "a!">> \in Seq(Kind)
    BY <1>1, ShortSequences
  <1>3. to.path \in {<<"">>, <<"a">>, <<"a", "">>, <<"..", "a!">>} /\ to.kind \in {"url", "absolute", "relative"}
    BY DEF Target
  <1> QED BY <1>2, <1>3

\* The text of the target of a redirect, before it is parsed and after
LEMMA DerivedText ==
    ASSUME NEW t \in Text, NEW to \in Target
    PROVE  LET p == DerivedPath(t, to)
               u == DeriveAbsoluteURL(t, to) IN
           /\ p \in Seq(Kind)
           /\ u \in Text /\ u.path = NormalizePath(p)
           /\ u.scheme = t.scheme /\ u.fragment = Plain
  <1> DEFINE p == DerivedPath(t, to)
             raw == [t EXCEPT !.path = p, !.query = FALSE, !.fragment = Plain]
  <1>1. t.path \in Seq(Kind) /\ to.path \in Seq(Kind) /\ t.path \o to.path \in Seq(Kind)
    BY TargetType, ConcatProperties DEF Text, Kind
  <1>2. /\ Rooted(Clean(to.path)) \in Seq(Kind)
        /\ Rooted(Clean(t.path \o to.path)) \in Seq(Kind)
    BY <1>1, RootedType
  <1>3. /\ to.kind = "url" => p = to.path
        /\ to.kind = "absolute" => p = Rooted(Clean(to.path))
        /\ to.kind = "relative" => p = Rooted(Clean(t.path \o to.path))
    BY Zenon DEF DerivedPath
  <1>4. p \in Seq(Kind)
    BY <1>1, <1>2, <1>3, TargetType
  <1>5. /\ raw.path = p /\ raw.scheme = t.scheme /\ raw.fragment = Plain
        /\ raw \in Text
    <2> HIDE DEF p
    <2>1. Plain \in Fragment
      BY TextAssumption DEF Plain, Fragment
    <2> QED BY <1>4, <2>1 DEF Text, Kind
  <1>6. DeriveAbsoluteURL(t, to) = ParseURL(raw)
    BY DEF DeriveAbsoluteURL
  <1> HIDE DEF raw, p
  <1>7. ParseURL(raw).fragment = Plain
    <2>1. raw.fragment.percent = FALSE /\ raw.fragment.depth = 0
      BY <1>5 DEF Plain
    <2>2. ParseURL(raw) = raw \/ ParseURL(raw).fragment = raw.fragment
      <3>1. ParseURL(raw).fragment \in Fragment
        BY <1>5, ParseFields DEF Text
      <3>2. ParseURL(raw).fragment.percent = FALSE /\ ParseURL(raw).fragment.depth = 0
        BY <1>5, <2>1, ParseFields
      <3> QED BY <3>1, <3>2, <1>5 DEF Fragment, Plain
    <2> QED BY <2>2, <1>5
  <1> QED BY <1>4, <1>5, <1>6, <1>7, ParseFields DEF p

\* The row that saveRedirectURL adds
LEMMA AddedIsRow ==
    ASSUME Inputs, NEW t \in Text, t.scheme = "gemini"
    PROVE  /\ target = NoTarget => Added(t) = {}
           /\ \A r \in Added(t) : NewRow(r)
           /\ Added(t) \cap marked = {}
  <1>1. CASE target = NoTarget
    BY <1>1 DEF Added
  <1>2. CASE target # NoTarget
    <2> DEFINE u == DeriveAbsoluteURL(t, target)
               p == DerivedPath(t, target)
    <2>1. target \in Target
      BY <1>2, InputsType
    <2>2. p \in Seq(Kind) /\ u \in Text /\ u.path = NormalizePath(p) /\ u.scheme = "gemini" /\ u.fragment = Plain
      BY <2>1, DerivedText
    <2>3. Added(t) \subseteq {ParseURL(u)} \ marked
      BY <1>2 DEF Added
    <2> HIDE DEF u, p
    <2>4. ParseURL(u) \in Text /\ Stable(ParseURL(u).path) /\ ParseURL(u).scheme = "gemini"
      BY <2>2, ParseFields, PathsSettle
    <2>5. ParseURL(u).fragment = Plain
      <3>1. u.fragment.percent = FALSE /\ u.fragment.depth = 0
        BY <2>2 DEF Plain
      <3>2. ParseURL(u).fragment.percent = FALSE /\ ParseURL(u).fragment.depth = 0
        BY <2>2, <3>1, ParseFields
      <3> QED BY <3>2, <2>4 DEF Text, Fragment, Plain
    <2>6. NewRow(ParseURL(u))
      BY <1>2, <2>4, <2>5 DEF NewRow
    <2> QED BY <2>3, <2>6, <1>2
  <1> QED BY <1>1, <1>2

-----------------------------------------------------------------------------
(***************************************************************************)
(* TextInv is inductive: the visits, and the invariant itself.             *)
(***************************************************************************)

\* The text of a request
LEMMA RequestType ==
    ASSUME NEW t \in Text
    PROVE  Request(t) \in Text
  <1>1. Plain \in Fragment
    BY TextAssumption DEF Plain, Fragment
  <1>2. CASE t.scheme = "gemini"
    <2> DEFINE u == ParseURL(t)
    <2>1. u \in Text /\ Request(t) = StringNoDefaultPort(u)
      BY <1>2, ParseFields DEF Request
    <2> HIDE DEF u
    <2>2. StringNoDefaultPort(u) \in Text
      BY <1>1, <2>1 DEF StringNoDefaultPort, Text
    <2> QED BY <2>1, <2>2
  <1>3. CASE t.scheme # "gemini"
    <2> DEFINE p == ConstructPayloadFromPath(Unescaped(t.path))
    <2>1. t.path \in Seq(Kind) /\ Decoded \subseteq Kind
      BY Kinds DEF Text, Kind, Decoded
    <2>2. Unescaped(t.path) \in Seq(Kind)
      BY <2>1, UnescapedType, SeqMonotonic
    <2>3. p \in Seq(Kind)
      <3>1. Len(Unescaped(t.path)) >= 2 => Tail(Unescaped(t.path)) \in Seq(Kind)
        BY <2>2, HeadTailProperties, EmptySeq
      <3>2. Rooted(Unescaped(t.path)) \in Seq(Kind)
        BY <2>2, RootedType
      <3> QED BY <3>1, <3>2 DEF ConstructPayloadFromPath
    <2>4. Request(t) = [t EXCEPT !.path = p, !.query = FALSE, !.fragment = Plain]
      BY <1>3 DEF Request
    <2> HIDE DEF p
    <2> QED BY <1>1, <2>3, <2>4 DEF Text, Kind
  <1> QED BY <1>2, <1>3

\* A transaction that stores a snapshot keeps TextInv: its row leaves, unless it was found
\* under another text, and the rows it adds are new rows.
LEMMA TransactionKeeps ==
    ASSUME TextInv, NEW t, NEW added,
           job # NoText, status = "up", UNCHANGED given, UNCHANGED <<lost, status>>,
           Parses(ParseURL(job)), t \in {ParseURL(job), ParseURL(ParseURL(job))},
           \A r \in added : NewRow(r), added \cap marked = {}, target = NoTarget => added = {},
           snapshots' = snapshots \cup {t}, DeleteURL(t, added), job' = NoText, Overtake,
           request' \in Text \cup {NoText}
    PROVE  TextInv'
  <1>1. job \in marked /\ NoText \notin marked
    BY TextAssumption DEF TextInv, TextTypeOK
  <1>2. urls' = (urls \cup added) \ {t} /\ marked' = marked \ {t}
    BY DEF DeleteURL
  <1>3. job \in Text /\ t \in Text /\ Stable(t.path) /\ (t # job => Leftover)
    BY <1>1, RowFacts
  <1>4. Inputs' /\ link' = link /\ via' = via /\ target' = target /\ Row' = Row /\ Hops' = Hops
    BY InputsStay DEF TextInv
  <1>5. link.fragment.depth \in Nat /\ Hops \in Nat
    BY InputsType, TextAssumption DEF TextInv, Text, Fragment, Hops
  <1>6. TextTypeOK'
    BY <1>1, <1>2, <1>3, <1>4 DEF TextInv, TextTypeOK, NewRow, Overtake
  <1>7. RowsInv'
    BY <1>1, <1>2, <1>4 DEF TextInv, RowsInv, NewRow
  <1>8. SnapshotsInv'
    <2>1. target = NoTarget => t \in {ParseURL(Row), ParseURL(ParseURL(Row))}
      BY <1>1 DEF TextInv, RowsInv
    <2>2. target # NoTarget => t.fragment = Plain
      <3> SUFFICES ASSUME target # NoTarget PROVE t.fragment = Plain
        OBVIOUS
      <3>1. link.fragment = Plain
        BY InputsType DEF TextInv
      <3>2. link.fragment.depth = 0 /\ link.fragment.percent = FALSE
        BY <3>1 DEF Plain
      <3>3. Left(Hops + 1) = 0 /\ Left(Hops + 2) = 0
        BY <3>2, <1>5 DEF Left
      <3>4. t.fragment.percent = FALSE /\ t.fragment.depth = 0
        <4>1. Kept(t, Hops + 1) \/ Kept(t, Hops + 2)
          BY <1>1, RowFacts
        <4> QED BY <4>1, <3>2, <3>3 DEF Kept
      <3> QED BY <3>4, <1>3 DEF Text, Fragment, Plain
    <2>3. link.fragment.percent => link.fragment.depth > Hops
      <3>1. Kept(ParseURL(job), Hops + 1)
        BY <1>1, RowFacts
      <3>2. link.fragment.percent => ParseURL(job).fragment.depth # 0
        BY <3>1 DEF Parses, Kept
      <3>3. link.fragment.percent => Left(Hops + 1) # 0
        BY <3>1, <3>2 DEF Kept
      <3> QED BY <1>5, <3>3 DEF Left
    <2> QED BY <1>3, <1>4, <2>1, <2>2, <2>3 DEF TextInv, SnapshotsInv
  <1>9. RowsLeaveInv'
    <2>1. Leftover' = Leftover
      BY InputsStay
    <2>2. marked' \ {job'} # {} => Leftover
      BY <1>1, <1>2, <1>3 DEF TextInv, RowsLeaveInv
    <2> QED BY <2>1, <2>2 DEF RowsLeaveInv
  <1>10. LookupInv'
    <2>1. checked' = checked /\ (checked # NoText => overtaken')
      BY DEF Overtake
    <2>2. Parses(link)' = Parses(link) /\ ParseURL(link)' = ParseURL(link)
      BY <1>4 DEF Parses, ParseURL
    <2> QED BY <2>1, <2>2, <1>4 DEF TextInv, LookupInv
  <1> QED BY <1>4, <1>6, <1>7, <1>8, <1>9, <1>10 DEF TextInv

\* Refuse keeps TextInv (a URL that a list or robots.txt blocks).
LEMMA RefuseKeeps ==
    ASSUME TextInv, Refuse
    PROVE  TextInv'
  <1> DEFINE t == ParseURL(job)
  <1>1. /\ job # NoText /\ status = "up" /\ UNCHANGED given /\ UNCHANGED <<lost, status>>
        /\ Parses(t) /\ snapshots' = snapshots \cup {t} /\ DeleteURL(t, {}) /\ job' = NoText
        /\ request' = request /\ Overtake
    BY DEF Refuse, RobotMatch
  <1>2. request' \in Text \cup {NoText}
    BY <1>1 DEF TextInv, TextTypeOK
  <1> HIDE DEF t
  <1>3. t = ParseURL(job)
    BY DEF t
  <1>4. \A r \in {} : NewRow(r)
    OBVIOUS
  <1> QED BY <1>1, <1>2, <1>3, <1>4, TransactionKeeps

\* Fail keeps TextInv (a host that does not answer).
LEMMA FailKeeps ==
    ASSUME TextInv, Fail
    PROVE  TextInv'
  <1>1. /\ UNCHANGED given /\ UNCHANGED <<urls, marked, snapshots, request, lost, status>>
        /\ UNCHANGED <<checked, overtaken>>
        /\ job # NoText /\ job' = NoText /\ ~Parses(ParseURL(job))
    BY DEF Fail, lookup
  <1>2. Inputs' /\ Leftover' = Leftover /\ Row' = Row /\ Hops' = Hops /\ link' = link
    BY <1>1, InputsStay DEF TextInv
  <1>3. Leftover
    <2>1. job \in marked
      BY <1>1 DEF TextInv, TextTypeOK
    <2>2. ParseURL(job) # job
      BY <1>1 DEF TextInv, RowsInv
    <2> QED BY <2>1, <2>2, RowFacts
  <1>4. TextTypeOK' /\ RowsInv'
    BY <1>1, <1>2, InputsStay DEF TextInv, TextTypeOK, RowsInv
  <1>5. SnapshotsInv' /\ RowsLeaveInv'
    BY <1>1, <1>2, <1>3, InputsStay DEF TextInv, SnapshotsInv, RowsLeaveInv
  <1>6. LookupInv'
    <2>1. Parses(link)' = Parses(link) /\ ParseURL(link)' = ParseURL(link)
      BY <1>2 DEF Parses, ParseURL
    <2> QED BY <1>1, <2>1, InputsStay DEF TextInv, LookupInv
  <1> QED BY <1>2, <1>4, <1>5, <1>6 DEF TextInv

\* Visit keeps TextInv (a page that is fetched).
LEMMA VisitKeeps ==
    ASSUME TextInv, Visit
    PROVE  TextInv'
  <1> DEFINE t == ParseURL(ParseURL(job))
             added == IF Parses(t) THEN Added(t) ELSE {}
  <1>1. /\ job # NoText /\ status = "up" /\ UNCHANGED given /\ UNCHANGED <<lost, status>>
        /\ Parses(ParseURL(job)) /\ snapshots' = snapshots \cup {t} /\ DeleteURL(t, added)
        /\ job' = NoText /\ Overtake /\ request' = IF Parses(t) THEN Request(t) ELSE request
    BY DEF Visit
  <1>2. job \in marked /\ job \in Text /\ t \in Text /\ ParseURL(job) \in Text
    <2>1. job \in marked
      BY <1>1 DEF TextInv, TextTypeOK
    <2> QED BY <2>1, RowFacts
  <1>3. t = ParseURL(ParseURL(job))
    OBVIOUS
  <1>4. target # NoTarget => t.scheme = "gemini"
    <2>1. target # NoTarget => job.scheme = "gemini"
      BY <1>2 DEF TextInv, RowsInv
    <2> QED BY <2>1, <1>2, ParseFields
  <1> HIDE DEF t
  <1>5. /\ \A r \in added : NewRow(r)
        /\ added \cap marked = {} /\ (target = NoTarget => added = {})
    <2>1. CASE target = NoTarget
      BY <2>1 DEF Added
    <2>2. CASE target # NoTarget
      BY <2>2, <1>2, <1>4, AddedIsRow DEF TextInv
    <2> QED BY <2>1, <2>2
  <1>6. request' \in Text \cup {NoText}
    BY <1>1, <1>2, RequestType DEF TextInv, TextTypeOK
  <1> HIDE DEF added
  <1> QED BY <1>1, <1>3, <1>5, <1>6, TransactionKeeps

\* Database.Shutdown, after which every row is due
LEMMA UnmarkKeeps ==
    ASSUME TextInv, Unmark, UNCHANGED given, UNCHANGED <<snapshots, request, lost>>, job' = NoText
    PROVE  TextInv'
  <1>1. /\ urls' = urls \cup marked /\ marked' = {} /\ status' = "down"
        /\ checked' = NoText /\ overtaken' = FALSE
    BY DEF Unmark
  <1>2. TextTypeOK' /\ RowsInv'
    BY <1>1, InputsStay DEF TextInv, TextTypeOK, RowsInv
  <1>3. SnapshotsInv' /\ RowsLeaveInv' /\ LookupInv'
    BY <1>1, InputsStay DEF TextInv, SnapshotsInv, RowsLeaveInv, LookupInv
  <1> QED BY <1>2, <1>3, InputsStay DEF TextInv

\* Every step keeps TextInv.
LEMMA TextNext ==
    ASSUME TextInv, [Next]_vars
    PROVE  TextInv'
  <1>1. CASE Start
    BY <1>1, StartKeeps
  <1>2. CASE CheckLink
    BY <1>2, CheckLinkKeeps
  <1>10. CASE InsertLink
    BY <1>10, InsertLinkKeeps
  <1>3. CASE Claim
    BY <1>3, ClaimKeeps
  <1>4. CASE Refuse
    BY <1>4, RefuseKeeps
  <1>5. CASE Fail
    BY <1>5, FailKeeps
  <1>6. CASE Visit
    BY <1>6, VisitKeeps
  <1>7. CASE ScanFails
    BY <1>7, UnmarkKeeps DEF ScanFails
  <1>8. CASE Shutdown
    BY <1>8, UnmarkKeeps DEF Shutdown
  <1>9. CASE UNCHANGED vars
    <2>1. UNCHANGED given /\ UNCHANGED vars
      BY <1>9 DEF vars, given
    <2>2. TextTypeOK' /\ RowsInv' /\ SnapshotsInv' /\ RowsLeaveInv'
      BY <2>1, InputsStay DEF TextInv, TextTypeOK, RowsInv, SnapshotsInv, RowsLeaveInv, vars
    <2>3. LookupInv'
      <3>1. Parses(link)' = Parses(link) /\ ParseURL(link)' = ParseURL(link)
        BY <2>1, InputsStay DEF Parses, ParseURL
      <3> QED BY <2>1, <3>1, InputsStay DEF TextInv, LookupInv, vars
    <2> QED BY <2>1, <2>2, <2>3, InputsStay DEF TextInv
  <1> QED BY <1>1, <1>2, <1>3, <1>4, <1>5, <1>6, <1>7, <1>8, <1>9, <1>10 DEF Next

\* TextInv is an invariant: rows, snapshots and requests are texts of the link or of the
\* redirect, each as often parsed as the way it took through common/worker.go and db/db.go.
THEOREM TextInvariance == Spec => []TextInv
  <1>1. Init => TextInv
    BY TextInit
  <1>2. TextInv /\ [Next]_vars => TextInv'
    BY TextNext
  <1> QED BY <1>1, <1>2, PTL DEF Spec

-----------------------------------------------------------------------------
(***************************************************************************)
(* The invariants that follow: one path for a page, the fates of fragments.*)
(***************************************************************************)

\* One page has one path (common/url/url.go, ParseURL).
LEMMA OnePathHolds ==
    ASSUME TextInv
    PROVE  OnePath
  <1> SUFFICES ASSUME NEW t \in urls \cup marked \cup snapshots, via # "seed" \/ t \in snapshots
               PROVE  Stable(t.path) /\ (target = NoTarget => t.path = LinkPath)
    BY DEF OnePath
  <1>1. Inputs /\ link.path \in Seq(Kind)
    BY InputsType DEF TextInv, Text, Kind
  <1>2. Stable(LinkPath)
    BY <1>1, PathsSettle DEF LinkPath
  <1>3. /\ Row \in Text
        /\ Row.path = IF via = "seed" THEN NormalizePath(link.path) ELSE LinkPath
    BY <1>1, RowFields
  <1>4. CASE t \notin snapshots
    <2>1. Stable(t.path) /\ (target = NoTarget => t = Row)
      BY <1>4 DEF TextInv, RowsInv
    <2> QED BY <2>1, <1>3, <1>4
  <1>5. CASE t \in snapshots
    <2> DEFINE u == ParseURL(Row)
    <2>1. Stable(t.path) /\ (target = NoTarget => t \in {u, ParseURL(u)})
      BY <1>5 DEF TextInv, SnapshotsInv
    <2>2. u \in Text /\ u.path = NormalizePath(Row.path)
      BY <1>3, ParseFields
    <2>3. u.path = LinkPath
      BY <1>2, <1>3, <2>2 DEF LinkPath, Stable
    <2> HIDE DEF u
    <2>4. ParseURL(u).path = LinkPath
      BY <1>2, <2>2, <2>3, ParseFields DEF Stable
    <2> QED BY <2>1, <2>3, <2>4
  <1> QED BY <1>4, <1>5

\* Rows, snapshots and requests of a page spell its path alike, however often common/url/url.go,
\* ParseURL, has parsed the text.
THEOREM PagesHaveOnePath == Spec => []OnePath
  BY TextInvariance, OnePathHolds, PTL

\* What the fragment of a snapshot has kept
LEMMA SnapshotFragment ==
    ASSUME TextInv, NEW t \in snapshots, link.fragment.depth <= Hops
    PROVE  t.fragment = Plain
  <1>1. t \in Text /\ Inputs /\ link \in Text
    BY InputsType DEF TextInv, TextTypeOK
  <1>2. link.fragment.depth \in Nat /\ Hops \in Nat /\ link.fragment.percent \in BOOLEAN
    BY <1>1, TextAssumption DEF Text, Fragment, Hops
  <1>3. CASE target # NoTarget
    BY <1>3 DEF TextInv, SnapshotsInv
  <1>4. CASE target = NoTarget
    <2> DEFINE u == ParseURL(Row)
               v == ParseURL(u)
    <2>1. t \in {u, v}
      BY <1>4 DEF TextInv, SnapshotsInv
    <2>2. Row \in Text /\ Kept(Row, Hops)
      BY <1>1, RowFields DEF Kept
    <2>3. u \in Text /\ Kept(u, Hops + 1)
      BY <2>2, <1>1, <1>2, LeftLess, ParseFields
    <2> HIDE DEF u
    <2>4. Kept(v, Hops + 1 + 1)
      BY <2>3, <1>1, <1>2, LeftLess
    <2>5. Left(Hops + 1) = 0 /\ Left(Hops + 1 + 1) = 0
      BY <1>2 DEF Left
    <2>6. t.fragment.depth = 0 /\ t.fragment.percent = link.fragment.percent
      BY <2>1, <2>3, <2>4, <2>5 DEF Kept
    <2>7. link.fragment.percent = FALSE
      BY <1>2 DEF TextInv, SnapshotsInv
    <2> QED BY <2>6, <2>7, <1>1 DEF Text, Fragment, Plain
  <1> QED BY <1>3, <1>4

\* The three fates of a percent sign that TextInv says nothing about
Decoding ==
    /\ lost => link.fragment.percent /\ link.fragment.depth = 1
    /\ status = "hung" => link.fragment.percent /\ link.fragment.depth = Hops
    /\ (\E t \in snapshots : ~Parses(t)) => link.fragment.percent /\ link.fragment.depth = Hops + 2

\* Given TextInv, FragmentFates is about percent signs only.
LEMMA FatesDecided ==
    ASSUME TextInv
    PROVE  FragmentFates <=> Decoding
  <1>1. status = "up" /\ job = NoText /\ marked # {} => Leftover
    <2>1. NoText \notin marked
      BY TextAssumption DEF TextInv, TextTypeOK
    <2> QED BY <2>1 DEF TextInv, RowsLeaveInv
  <1>2. \A t \in snapshots : link.fragment.depth <= Hops => t.fragment = Plain
    BY SnapshotFragment
  <1> QED BY <1>1, <1>2 DEF FragmentFates, Decoding

\* Every step keeps the fates of percent signs.
LEMMA DecodingStays ==
    ASSUME TextInv, Decoding, [Next]_vars
    PROVE  Decoding'
  <1> DEFINE f == link.fragment
  <1>1. link \in Text /\ Inputs
    BY InputsType DEF TextInv
  <1>2. f.depth \in Nat /\ f.percent \in BOOLEAN /\ Hops \in {1, 2}
    BY <1>1, TextAssumption DEF Text, Fragment, Hops
  <1>3. UNCHANGED given
    BY DEF Next, Start, CheckLink, InsertLink, Claim, Refuse, Fail, Visit, ScanFails, Shutdown, vars, given
  <1>4. link' = link /\ Hops' = Hops
    BY <1>3, InputsStay
  <1>5. CASE InsertLink /\ lost' # lost
    <2> DEFINE u == ParseURL(link)
    <2>1. Parses(link) /\ ~Parses(u)
      BY <1>5 DEF InsertLink, TextInv, LookupInv
    <2>2. /\ u.fragment.percent = f.percent
          /\ u.fragment.depth = IF f.depth = 0 THEN 0 ELSE f.depth - 1
      BY <1>1, ParseFields
    <2> HIDE DEF u
    <2>3. f.percent /\ f.depth = 1
      BY <2>1, <2>2, <1>2 DEF Parses
    <2>4. UNCHANGED <<status, snapshots>>
      BY <1>5 DEF InsertLink
    <2> QED BY <2>3, <2>4, <1>4 DEF Decoding
  <1>6. CASE Claim /\ status' # status
    <2>1. PICK t \in urls : ~Parses(t)
      BY <1>6 DEF Claim
    <2>2. Kept(t, Hops)
      BY RowFacts
    <2>3. f.percent /\ Left(Hops) = 0
      BY <2>1, <2>2 DEF Parses, Kept
    <2>4. f.depth >= Hops
      BY <2>3 DEF TextInv, RowsInv
    <2>5. f.depth = Hops
      BY <2>3, <2>4, <1>2 DEF Left
    <2>6. UNCHANGED <<lost, snapshots>>
      BY <1>6 DEF Claim
    <2> QED BY <2>3, <2>5, <2>6, <1>4 DEF Decoding
  <1>7. CASE Refuse
    <2>1. Parses(ParseURL(job)) /\ snapshots' = snapshots \cup {ParseURL(job)} /\ UNCHANGED <<lost, status>>
      BY <1>7 DEF Refuse, RobotMatch
    <2> QED BY <2>1, <1>4 DEF Decoding
  <1>8. CASE Visit
    <2> DEFINE u == ParseURL(job)
               t == ParseURL(u)
    <2>1. job # NoText /\ Parses(u) /\ snapshots' = snapshots \cup {t} /\ UNCHANGED <<lost, status>>
      BY <1>8 DEF Visit
    <2>2. job \in marked
      BY <2>1 DEF TextInv, TextTypeOK
    <2>3. Kept(u, Hops + 1) /\ Kept(t, Hops + 2)
      BY <2>2, RowFacts
    <2> HIDE DEF u, t
    <2>4. ~Parses(t) => f.percent /\ f.depth = Hops + 2
      <3> SUFFICES ASSUME ~Parses(t) PROVE f.percent /\ f.depth = Hops + 2
        OBVIOUS
      <3>1. f.percent /\ Left(Hops + 2) = 0
        BY <2>3 DEF Parses, Kept
      <3>2. Left(Hops + 1) # 0
        BY <2>1, <2>3, <3>1 DEF Parses, Kept
      <3> QED BY <3>1, <3>2, <1>2 DEF Left
    <2> QED BY <2>1, <2>4, <1>4 DEF Decoding
  <1>9. CASE UNCHANGED <<lost, snapshots>> /\ status' \in {status, "up", "down"}
    BY <1>9, <1>4 DEF Decoding
  <1>10. ASSUME \/ Start \/ Fail \/ ScanFails \/ Shutdown \/ UNCHANGED vars
                \/ CheckLink
                \/ InsertLink /\ lost' = lost
                \/ Claim /\ status' = status
         PROVE  UNCHANGED <<lost, snapshots>> /\ status' \in {status, "up", "down"}
    BY <1>10 DEF Start, Fail, ScanFails, Shutdown, Unmark, vars, CheckLink, InsertLink, Claim
  <1> QED BY <1>5, <1>6, <1>7, <1>8, <1>9, <1>10 DEF Next

\* What becomes of a link with an encoded fragment (common/url/url.go, ParseURL, at every hop)
THEOREM FatesOfFragments == Spec => []FragmentFates
  <1>1. Init => TextInv
    BY TextInit
  <1>2. Init => Decoding
    BY DEF Init, Decoding
  <1>3. TextInv /\ [Next]_vars => TextInv'
    BY TextNext
  <1>4. TextInv /\ Decoding /\ [Next]_vars => Decoding'
    BY DecodingStays
  <1>5. TextInv /\ Decoding => FragmentFates
    BY FatesDecided
  <1> QED BY <1>1, <1>2, <1>3, <1>4, <1>5, PTL DEF Spec

-----------------------------------------------------------------------------
(***************************************************************************)
(* Action properties: rows, requests, robots.txt.                          *)
(***************************************************************************)

\* A page whose snapshot is recent is queued again only by a link that was looked up before
\* the visit was committed and inserted after it (common/worker.go, storeLinks and
\* haveWeVisitedURL), unless its text in the archive is another one.
THEOREM RecentPagesAreNotQueued == Spec => NotQueuedAgain
  <1> DEFINE A == InsertLink /\ urls' # urls /\ target = NoTarget /\ snapshots # {} =>
                     overtaken \/ ~TextIsFinal
  <1>1. TextInv /\ [Next]_vars => [A]_vars
    <2> SUFFICES ASSUME TextInv, InsertLink, target = NoTarget, snapshots # {},
                        ~overtaken, TextIsFinal
                 PROVE  urls' = urls
      OBVIOUS
    <2>1. checked # NoText /\ via # "seed" /\ checked = ParseURL(link)
      BY DEF InsertLink, TextInv, LookupInv
    <2>2. urls \cup marked # {}
      BY <2>1 DEF TextInv, LookupInv
    <2>3. \A t \in urls \cup marked : t = Row
      BY DEF TextInv, RowsInv
    <2>4. Row \in urls \cup marked
      BY <2>2, <2>3
    <2>5. ParseURL(checked) = Row
      BY <2>1 DEF Row
    <2>6. urls' \in {urls, urls \cup ({Row} \ marked)}
      BY <2>5 DEF InsertLink, InsertURL
    <2> QED BY <2>4, <2>6
  <1>2. [][A]_vars => NotQueuedAgain
    BY PTL DEF NotQueuedAgain
  <1> HIDE DEF A
  <1> QED BY <1>1, <1>2, TextInvariance, PTL DEF Spec

\* The transaction of a visit: the job has been parsed once or twice more.
LEMMA Transactions ==
    ASSUME TextInv, [Next]_vars, snapshots' # snapshots
    PROVE  \E t \in {ParseURL(job), ParseURL(ParseURL(job))}, added \in SUBSET Text :
              /\ job \in marked
              /\ DeleteURL(t, added)
  <1>1. (Refuse \/ Visit) /\ job # NoText
    BY DEF Next, Start, CheckLink, InsertLink, Claim, Refuse, Fail, Visit, ScanFails, Shutdown, vars
  <1>2. job \in marked
    BY <1>1 DEF TextInv, TextTypeOK
  <1>3. CASE Refuse
    BY <1>2, <1>3 DEF Refuse
  <1>4. CASE Visit
    <2> DEFINE t == ParseURL(ParseURL(job))
               added == IF Parses(t) THEN Added(t) ELSE {}
    <2>1. DeleteURL(t, added)
      BY <1>4 DEF Visit
    <2>2. job \in Text /\ ParseURL(job) \in Text /\ t \in Text
      BY <1>2, RowFacts
    <2>3. added \subseteq Text
      <3> HIDE DEF t
      <3>1. target # NoTarget => t.scheme = "gemini"
        <4>1. target # NoTarget => job.scheme = "gemini"
          BY <1>2 DEF TextInv, RowsInv
        <4> QED BY <4>1, <2>2, ParseFields DEF t
      <3>2. \A r \in Added(t) : r \in Text
        BY <3>1, <2>2, AddedIsRow DEF TextInv, NewRow, Added
      <3> QED BY <3>2
    <2>4. t \in {ParseURL(job), ParseURL(ParseURL(job))} /\ added \in SUBSET Text
      BY <2>3
    <2> HIDE DEF t, added
    <2> QED BY <2>1, <2>4, <1>2
  <1> QED BY <1>1, <1>3, <1>4

\* A parse changes a text exactly when there is something left to decode or to normalise.
LEMMA SameText ==
    ASSUME TextInv, NEW t \in urls \cup marked
    PROVE  \A u \in {ParseURL(t), ParseURL(ParseURL(t))} :
              u = t <=> Stable(t.path) /\ t.fragment.depth = 0
  <1> DEFINE u == ParseURL(t)
             v == ParseURL(u)
  <1>1. t \in Text /\ u \in Text /\ v.path = u.path
    BY RowFacts
  <1>2. t.fragment.depth \in Nat
    BY <1>1, TextAssumption DEF Text, Fragment
  <1>3. u = t <=> Stable(t.path) /\ t.fragment.depth = 0
    BY <1>1, ParseFields
  <1>4. /\ u.path = NormalizePath(t.path)
        /\ u.fragment.depth = IF t.fragment.depth = 0 THEN 0 ELSE t.fragment.depth - 1
    BY <1>1, ParseFields
  <1>5. v = t => Stable(t.path) /\ t.fragment.depth = 0
    <2> SUFFICES ASSUME v = t PROVE Stable(t.path) /\ t.fragment.depth = 0
      OBVIOUS
    <2>1. Stable(t.path)
      BY <1>1, <1>4 DEF Stable
    <2> HIDE DEF u
    <2>2. v.fragment.depth = IF u.fragment.depth = 0 THEN 0 ELSE u.fragment.depth - 1
      BY <1>1, ParseFields
    <2>3. t.fragment.depth = 0
      BY <1>2, <1>4, <2>2
    <2> QED BY <2>1, <2>3
  <1>6. u = t => v = t
    OBVIOUS
  <1> QED BY <1>3, <1>5, <1>6

\* The row of a job leaves with its visit exactly when the text that was parsed for the visit
\* is the text of the row (common/worker.go, WorkOnUrl; db/db.go, DeleteURL).
THEOREM RowsLeaveWithVisits == Spec => RowLeavesWithVisit
  <1> DEFINE A == snapshots' # snapshots =>
                    (job \in urls' \cup marked' <=> job.fragment.depth > 0 \/ ~Stable(job.path))
  <1>1. TextInv /\ [Next]_vars => [A]_vars
    <2> SUFFICES ASSUME TextInv, [Next]_vars, snapshots' # snapshots
                 PROVE  job \in urls' \cup marked' <=> job.fragment.depth > 0 \/ ~Stable(job.path)
      OBVIOUS
    <2>1. PICK t \in {ParseURL(job), ParseURL(ParseURL(job))}, added \in SUBSET Text :
             job \in marked /\ DeleteURL(t, added)
      BY Transactions
    <2>2. job \in urls' \cup marked' <=> t # job
      BY <2>1 DEF DeleteURL
    <2>3. t = job <=> Stable(job.path) /\ job.fragment.depth = 0
      BY <2>1, SameText
    <2>4. job.fragment.depth \in Nat
      BY <2>1, RowFacts, TextAssumption DEF Text, Fragment
    <2> QED BY <2>2, <2>3, <2>4
  <1>2. [][A]_vars => RowLeavesWithVisit
    BY PTL DEF RowLeavesWithVisit
  <1> HIDE DEF A
  <1> QED BY <1>1, <1>2, TextInvariance, PTL DEF Spec

\* What is sent, and for which text
LEMMA Requests ==
    ASSUME TextInv, [Next]_vars, request' # request
    PROVE  LET t == ParseURL(ParseURL(job)) IN
           /\ Visit /\ job \in marked /\ job \in Text /\ t \in Text
           /\ t.scheme = job.scheme /\ t.port = job.port /\ t.query = job.query
           /\ Stable(t.path)
           /\ Parses(ParseURL(job)) /\ Parses(t) /\ ~RobotMatch(ParseURL(job))
           /\ request' = Request(t) /\ snapshots' = snapshots \cup {t}
           /\ DeleteURL(t, Added(t))
  <1>1. Visit
    BY DEF Next, Start, CheckLink, InsertLink, Claim, Refuse, Fail, ScanFails, Shutdown, vars
  <1> DEFINE u == ParseURL(job)
             t == ParseURL(u)
  <1>2. /\ job # NoText /\ Parses(u) /\ ~RobotMatch(u)
        /\ request' = IF Parses(t) THEN Request(t) ELSE request
        /\ snapshots' = snapshots \cup {t}
        /\ DeleteURL(t, IF Parses(t) THEN Added(t) ELSE {})
    BY <1>1 DEF Visit
  <1>3. job \in marked
    BY <1>2 DEF TextInv, TextTypeOK
  <1>4. job \in Text /\ u \in Text /\ t \in Text /\ Stable(u.path) /\ t.path = u.path
    BY <1>3, RowFacts
  <1>5. u.scheme = job.scheme /\ u.port = job.port /\ u.query = job.query
    BY <1>4, ParseFields
  <1> HIDE DEF u
  <1>6. t.scheme = u.scheme /\ t.port = u.port /\ t.query = u.query
    BY <1>4, ParseFields
  <1> HIDE DEF t
  <1>7. Parses(t)
    BY <1>2
  <1> QED BY <1>1, <1>2, <1>3, <1>4, <1>5, <1>6, <1>7 DEF t, u

\* A gemini request has the path of the snapshot it is for, and its query only goes to another
\* port than the default one (gemini/network.go, ConnectAndGetData).
THEOREM RequestsNamePages == Spec => RequestNamesPage
  <1> DEFINE A == request' # request /\ job.scheme = "gemini" =>
                     /\ \E t \in snapshots' : t.path = request'.path
                     /\ (request'.query <=> job.query /\ job.port = "other")
  <1>1. TextInv /\ [Next]_vars => [A]_vars
    <2> SUFFICES ASSUME TextInv, [Next]_vars, request' # request, job.scheme = "gemini"
                 PROVE  /\ \E t \in snapshots' : t.path = request'.path
                        /\ (request'.query <=> job.query /\ job.port = "other")
      OBVIOUS
    <2> DEFINE t == ParseURL(ParseURL(job))
    <2>1. /\ t \in Text /\ t.scheme = "gemini" /\ t.port = job.port /\ t.query = job.query
          /\ Stable(t.path) /\ request' = Request(t) /\ t \in snapshots'
      BY Requests
    <2> HIDE DEF t
    <2> DEFINE v == ParseURL(t)
    <2>2. v \in Text /\ v.path = t.path /\ v.port = job.port /\ v.query = job.query
      BY <2>1, ParseFields DEF Stable
    <2>3. request' = StringNoDefaultPort(v)
      BY <2>1 DEF Request
    <2> HIDE DEF v
    <2>4. v.port \in {"default", "other"} /\ v.query \in BOOLEAN
      BY <2>2 DEF Text
    <2>5. CASE v.port = "default"
      <3>1. request' = [v EXCEPT !.query = FALSE, !.fragment = Plain]
        BY <2>3, <2>5 DEF StringNoDefaultPort
      <3>2. request'.path = v.path /\ request'.query = FALSE
        BY <3>1, <2>2 DEF Text
      <3> QED BY <3>2, <2>1, <2>2, <2>5
    <2>6. CASE v.port # "default"
      <3>1. request' = v
        BY <2>3, <2>6 DEF StringNoDefaultPort
      <3> QED BY <3>1, <2>1, <2>2, <2>4, <2>6
    <2> QED BY <2>5, <2>6
  <1>2. [][A]_vars => RequestNamesPage
    BY PTL DEF RequestNamesPage
  <1> HIDE DEF A
  <1> QED BY <1>1, <1>2, TextInvariance, PTL DEF Spec

\* A rule that names the path of the page blocks it.
LEMMA SelfBlocked ==
    ASSUME NEW t \in Text, t.path # <<>>
    PROVE  Blocks(t.path, t)
  <1> DEFINE p == t.path
  <1>1. p \in Seq(Kind) /\ p # NoPath
    BY TextAssumption DEF Text, Kind
  <1>2. Len(p) \in Nat /\ Len(p) <= Len(p)
    BY <1>1, LenProperties
  <1>3. Begins(p[Len(p)], p[Len(p)])
    BY DEF Begins
  <1> QED BY <1>1, <1>2, <1>3, Zenon DEF Blocks

\* A rule that names the root blocks every page that has a path.
LEMMA RootBlocked ==
    ASSUME NEW t \in Text, t.path # <<>>
    PROVE  Blocks(<<"">>, t)
  <1> DEFINE p == t.path
  <1>1. p \in Seq(Kind) /\ <<"">> # NoPath
    BY NormalizeRoot, TextAssumption DEF Text, Kind
  <1>2. Len(p) \in Nat /\ Len(p) # 0
    BY <1>1, LenProperties, EmptySeq
  <1>3. Len(<<"">>) = 1 /\ 1 <= Len(p) /\ \A i \in 1 .. 1 - 1 : <<"">>[i] = p[i]
    BY <1>2
  <1>4. Begins(<<"">>[1], p[1])
    BY DEF Begins
  <1> QED BY <1>1, <1>3, <1>4, Zenon DEF Blocks

\* A page that robots.txt disallows by its path or by "/" is not requested, if the rule is
\* spelled as the crawler spells paths (robotsMatch/robotsMatch.go, isURLblocked).
THEOREM DisallowedPagesAreNotRequested == Spec => DisallowedNotRequested
  <1> DEFINE A == request' # request /\ rule \in {link.path, <<"">>} =>
                     NormalizePath(rule) # rule \/ LinkPath = <<>>
  <1>1. TextInv /\ [Next]_vars => [A]_vars
    <2> SUFFICES ASSUME TextInv, [Next]_vars, request' # request, rule \in {link.path, <<"">>},
                        NormalizePath(rule) = rule, LinkPath # <<>>
                 PROVE  FALSE
      OBVIOUS
    <2> DEFINE t == ParseURL(ParseURL(job))
    <2>1. /\ job \in marked /\ t \in Text /\ Stable(t.path) /\ t.path = ParseURL(job).path
          /\ Parses(ParseURL(job)) /\ ~RobotMatch(ParseURL(job))
      BY Requests, RowFacts
    <2>2. ~Blocks(rule, t)
      BY <2>1 DEF RobotMatch
    <2>3. link.path \in Seq(Kind) /\ rule \in Seq(Kind) /\ rule # NoPath
      BY InputsType, NormalizeRoot, TextAssumption DEF TextInv, Text, Kind
    <2>4. target = NoTarget
      BY <2>3, InputsType DEF TextInv
    <2>5. t.path = LinkPath
      <3>1. job = Row
        BY <2>1, <2>4 DEF TextInv, RowsInv
      <3>2. Row.path = IF via = "seed" THEN NormalizePath(link.path) ELSE LinkPath
        BY RowFields DEF TextInv
      <3>3. ParseURL(job).path = NormalizePath(Row.path)
        BY <2>1, <3>1, RowFacts, ParseFields
      <3>4. Stable(LinkPath)
        BY <2>3, PathsSettle DEF LinkPath
      <3> QED BY <2>1, <3>2, <3>3, <3>4 DEF LinkPath, Stable
    <2> HIDE DEF t
    <2>6. rule # LinkPath /\ rule # <<"">>
      BY <2>1, <2>2, <2>3, <2>5, SelfBlocked, RootBlocked
    <2> QED BY <2>6 DEF LinkPath
  <1>2. [][A]_vars => DisallowedNotRequested
    BY PTL DEF DisallowedNotRequested
  <1> HIDE DEF A
  <1> QED BY <1>1, <1>2, TextInvariance, PTL DEF Spec

-----------------------------------------------------------------------------
(***************************************************************************)
(* Redirects: the path of the target, as the crawler derives it and as the *)
(* page means it.                                                          *)
(***************************************************************************)

\* A path that has been parsed has no blank in it, and path.Clean does not see the slash that
\* a second parse may add to it.
LEMMA ParsedPath ==
    ASSUME NEW p \in Seq(Kind)
    PROVE  /\ NormalizePath(p) \in Seq(Legal)
           /\ Clean(NormalizePath(NormalizePath(p))) = Clean(NormalizePath(p))
  <1>1. "" \in Legal
    BY SettledKinds
  <1>2. <<"">> \in Seq(Legal) /\ <<>> \in Seq(Legal)
    BY <1>1, ShortSequences, EmptySeq
  <1>3. CASE p = <<>>
    BY <1>2, <1>3, NormalizeRoot
  <1>4. CASE p # <<>> /\ Body(p) = <<>>
    <2>1. NormalizePath(p) = <<"">>
      BY <1>4, NormalizeForm
    <2> QED BY <1>2, <2>1, NormalizeRoot
  <1>5. CASE p # <<>> /\ Body(p) # <<>>
    <2> DEFINE e == Body(p)
    <2>1. e \in Seq(Settled) /\ e # <<>>
      BY <1>5, BodyType
    <2>2. NormalizePath(p) \in {e, Append(e, "")}
      BY <1>5, NormalizeForm
    <2> HIDE DEF e
    <2>3. e \in Seq(Legal) /\ Append(e, "") \in Seq(Legal)
      BY <2>1, <1>1, SettledKinds, SeqMonotonic, AppendProperties
    <2>4. NormalizePath(Append(e, "")) = Append(e, "") /\ NormalizePath(e) \in {e, Append(e, "")}
      BY <2>1, NormalizeSettled
    <2>5. Clean(Append(e, "")) = Clean(e)
      <3>1. Clean(Append(e, "")) = CleanStep(Clean(e), "")
        <4>1. CleansTo(Legal, Legal \ Special)
          BY SettledKinds
        <4> QED BY <2>3, <1>1, <4>1, CleanAppend
      <3>2. CleanStep(Clean(e), "") = Clean(e)
        BY Zenon DEF CleanStep
      <3> QED BY <3>1, <3>2
    <2> QED BY <2>2, <2>3, <2>4, <2>5
  <1> QED BY <1>3, <1>4, <1>5

\* The last segments of the targets
End == {"", "a", "a!"}

\* None of them ends in a slash, before or after it is escaped, but the empty one.
LEMMA EndCases ==
    ASSUME NEW s \in End
    PROVE  /\ s \in Legal /\ s \in Kind
           /\ s = "" \/ (s \notin Special /\ s \notin Slashed /\ PathEscape(s) \notin Slashed)
  BY Kinds DEF End, Legal, Special, Slashed, PathEscape

\* A path, and the same with a slash after it
UpToSlash(n) == {n, Append(n, "")}

\* The path of the target is r with segment s after it; the crawler derives it from q, which
\* path.Clean takes for the same, and may clean it before it parses it twice.
LEMMA Landing ==
    ASSUME NEW q \in Seq(Legal), NEW r \in Seq(Legal), Clean(q) = Clean(r), NEW s \in End,
           NEW d \in {Append(q, s), Rooted(Clean(Append(q, s)))}
    PROVE  NormalizePath(Append(r, s)) \in UpToSlash(NormalizePath(NormalizePath(d)))
  <1> DEFINE x == Append(q, s)
             y == Append(r, s)
             c == Clean(x)
             e == EscapeAll(c)
  <1>1. s \in Legal /\ s \in Kind /\ CleansTo(Legal, Legal \ Special) /\ Legal \subseteq Kind
    BY EndCases, SettledKinds
  <1>2. /\ x \in Seq(Legal) /\ x # <<>> /\ x[Len(x)] = s
        /\ y \in Seq(Legal) /\ y # <<>> /\ y[Len(y)] = s
    BY <1>1, AppendLast
  <1>3. x \in Seq(Kind) /\ y \in Seq(Kind)
    BY <1>1, <1>2, SeqMonotonic
  <1>4. c = CleanStep(Clean(q), s) /\ Clean(y) = c
    BY <1>1, CleanAppend
  <1>5. c \in Seq(Legal \ Special) /\ Clean(q) \in Seq(Legal \ Special)
    BY <1>1, <1>2, CleanType
  <1>6. Body(x) = e /\ Body(y) = e
    <2>1. EscapedPath(x) = x /\ EscapedPath(y) = y
      BY <1>2, LegalStays
    <2> QED BY <2>1, <1>4 DEF Body
  <1>7. e \in Seq(Settled) /\ (c = <<>> <=> e = <<>>)
    <2>1. EscapedPath(x) = x
      BY <1>2, LegalStays
    <2> QED BY <1>3, <1>6, <2>1, BodyType
  <1>8. c \in Seq(Kind) /\ Body(c) = e
    <2> HIDE DEF c
    <2>1. c \in Seq(Legal)
      BY <1>5, SeqMonotonic
    <2>2. EscapedPath(c) = c /\ Clean(c) = c
      BY <1>5, <2>1, LegalStays, CleanIdentity
    <2> QED BY <1>1, <2>1, <2>2, SeqMonotonic DEF Body
  <1>9. d \in {x, IF c = <<>> THEN <<"">> ELSE c}
    BY DEF Rooted
  <1> HIDE DEF x, y, c, e
  <1>10. NormalizePath(y) = IF e = <<>> THEN <<"">> ELSE IF s \in Slashed THEN Append(e, "") ELSE e
    BY <1>2, <1>3, <1>6, NormalizeForm
  <1>11. CASE e = <<>>
    <2>1. NormalizePath(d) = <<"">>
      BY <1>2, <1>3, <1>6, <1>7, <1>9, <1>11, NormalizeForm, NormalizeRoot
    <2> QED BY <1>10, <1>11, <2>1, NormalizeRoot DEF y, UpToSlash
  <1>12. CASE e # <<>> /\ s = ""
    <2>1. NormalizePath(d) \in {e, Append(e, "")}
      BY <1>2, <1>3, <1>6, <1>7, <1>8, <1>9, <1>12, NormalizeForm
    <2>2. NormalizePath(NormalizePath(d)) \in {e, Append(e, "")}
      BY <2>1, <1>7, <1>12, NormalizeSettled
    <2>3. NormalizePath(y) = Append(e, "")
      BY <1>10, <1>12, SettledKinds
    <2> QED BY <2>2, <2>3 DEF y, UpToSlash
  <1>13. CASE e # <<>> /\ s # ""
    <2>1. s \notin Special /\ s \notin Slashed /\ PathEscape(s) \notin Slashed
      BY <1>13, EndCases
    <2>2. c = Append(Clean(q), s)
      BY <1>4, <2>1, Zenon DEF CleanStep, Special
    <2>3. c[Len(c)] = s /\ Len(c) \in Nat \ {0}
      <3>1. s \in Legal \ Special
        BY <1>1, <2>1
      <3> QED BY <1>5, <2>2, <3>1, AppendLast, AppendProperties
    <2>4. e[Len(e)] = PathEscape(s)
      <3>1. EscapesTo(Legal \ Special, Settled)
        BY SettledKinds
      <3>2. Len(e) = Len(c) /\ \A i \in 1 .. Len(c) : e[i] = PathEscape(c[i])
        BY <1>5, <3>1, EscapeAllType DEF e
      <3> QED BY <2>3, <3>2
    <2>5. NormalizePath(d) = e
      BY <1>2, <1>3, <1>6, <1>7, <1>8, <1>9, <1>13, <2>1, <2>3, NormalizeForm
    <2>6. NormalizePath(e) = e
      BY <1>7, <1>13, <2>1, <2>4, NormalizeSettled
    <2> QED BY <1>10, <1>13, <2>1, <2>5, <2>6 DEF y, UpToSlash
  <1> QED BY <1>11, <1>12, <1>13

\* A path of two segments
LEMMA TwoSegments ==
    ASSUME NEW S, NEW s \in S, NEW t \in S
    PROVE  <<s, t>> = Append(<<s>>, t)
  OBVIOUS

\* The four targets end in such a segment, and have at most one in front of it.
Beginning == {<<>>, <<"a">>, <<"..">>}

\* A target is one of these with one of those after it.
LEMMA TargetEnds ==
    ASSUME NEW to \in Target
    PROVE  \E front \in Beginning, s \in End :
              /\ front \in Seq(Legal) /\ to.path = Append(front, s)
              /\ \A p \in Seq(Legal) : p \o to.path = Append(p \o front, s)
  <1>1. to.path \in {<<"">>, <<"a">>, <<"a", "">>, <<"..", "a!">>}
    BY DEF Target
  <1>2. "" \in Legal /\ "a" \in Legal /\ ".." \in Legal /\ "a!" \in Legal
    BY Kinds DEF Legal
  <1>3. <<>> \in Seq(Legal) /\ <<"a">> \in Seq(Legal) /\ <<"..">> \in Seq(Legal)
    BY <1>2, ShortSequences, EmptySeq
  <1>4. \E front \in Beginning, s \in End : to.path = Append(front, s)
    <2>1. <<"">> = Append(<<>>, "") /\ <<"a">> = Append(<<>>, "a")
      OBVIOUS
    <2>2. <<"a", "">> = Append(<<"a">>, "") /\ <<"..", "a!">> = Append(<<"..">>, "a!")
      BY <1>2, TwoSegments
    <2>3. "" \in End /\ "a" \in End /\ "a!" \in End
      BY DEF End
    <2> QED BY <1>1, <2>1, <2>2, <2>3 DEF Beginning
  <1>5. PICK front \in Beginning, s \in End : to.path = Append(front, s)
    BY <1>4
  <1>6. front \in Seq(Legal) /\ s \in Legal
    BY <1>3, EndCases DEF Beginning
  <1>7. \A p \in Seq(Legal) : p \o Append(front, s) = Append(p \o front, s)
    BY <1>6
  <1> QED BY <1>5, <1>6, <1>7

-----------------------------------------------------------------------------
(***************************************************************************)
(* Redirects are followed.                                                 *)
(***************************************************************************)

\* What path.Clean takes for the same, it takes for the same with more below.
LEMMA CleanBelow ==
    ASSUME NEW p \in Seq(Legal), NEW q \in Seq(Legal), Clean(p) = Clean(q),
           NEW front \in Beginning
    PROVE  p \o front \in Seq(Legal) /\ q \o front \in Seq(Legal) /\ Clean(p \o front) = Clean(q \o front)
  <1>1. CASE front = <<>>
    BY <1>1, ConcatEmptySeq
  <1>2. CASE front # <<>>
    <2>1. PICK s \in {"a", ".."} : front = <<s>>
      BY <1>2 DEF Beginning
    <2>2. s \in Legal /\ CleansTo(Legal, Legal \ Special)
      BY SettledKinds, Kinds DEF Legal
    <2>3. p \o front = Append(p, s) /\ q \o front = Append(q, s)
      BY <2>1, <2>2, AppendIsConcat
    <2>4. Append(p, s) \in Seq(Legal) /\ Append(q, s) \in Seq(Legal)
      BY <2>2, AppendProperties
    <2>5. Clean(Append(p, s)) = CleanStep(Clean(p), s) /\ Clean(Append(q, s)) = CleanStep(Clean(q), s)
      BY <2>2, CleanAppend
    <2> QED BY <2>3, <2>4, <2>5
  <1> QED BY <1>1, <1>2

\* Where the path of the target is, twice parsed
LEMMA LandsOnTarget ==
    ASSUME TextInv, job \in marked, target \in Target
    PROVE  LET t      == ParseURL(ParseURL(job))
               landed == NormalizePath(NormalizePath(DerivedPath(t, target)))
           IN  TargetPath(job.path) \in {landed, Append(landed, "")}
  <1> DEFINE t == ParseURL(ParseURL(job))
             p == job.path
             q == t.path
             d == DerivedPath(t, target)
             landed == NormalizePath(NormalizePath(d))
  <1>1. job \in Text /\ t.path = ParseURL(job).path
    BY RowFacts
  <1>2. q = NormalizePath(p) /\ p \in Seq(Kind)
    BY <1>1, ParseFields DEF Text, Kind
  <1>3. PICK r \in Seq(Kind) : p = NormalizePath(r)
    <2>1. Stable(p) \/ p = NormalizePath(link.path)
      BY DEF TextInv, RowsInv
    <2>2. link.path \in Seq(Kind)
      BY InputsType DEF TextInv, Text, Kind
    <2> QED BY <1>2, <2>1, <2>2 DEF Stable
  <1>4. p \in Seq(Legal) /\ q \in Seq(Legal) /\ Clean(q) = Clean(p)
    <2> HIDE DEF p, q
    <2>1. p \in Seq(Legal) /\ Clean(q) = Clean(p)
      BY <1>2, <1>3, ParsedPath
    <2>2. q \in Seq(Legal)
      BY <1>2, ParsedPath
    <2> QED BY <2>1, <2>2
  <1>5. PICK front \in Beginning, s \in End :
           /\ front \in Seq(Legal) /\ target.path = Append(front, s)
           /\ \A x \in Seq(Legal) : x \o target.path = Append(x \o front, s)
    BY TargetEnds
  <1>7. /\ target.kind = "url" => d = target.path
        /\ target.kind = "absolute" => d = Rooted(Clean(target.path))
        /\ target.kind = "relative" => d = Rooted(Clean(q \o target.path))
    BY Zenon DEF DerivedPath
  <1>8. /\ target.kind # "relative" => TargetPath(p) = NormalizePath(target.path)
        /\ target.kind = "relative" => TargetPath(p) = NormalizePath(p \o target.path)
    BY DEF TargetPath
  <1>9. target.kind \in {"url", "absolute", "relative"}
    BY TargetType
  <1> HIDE DEF p, q, d
  <1>6. ASSUME NEW x \in Seq(Legal), NEW y \in Seq(Legal), Clean(x) = Clean(y),
               d \in {Append(x, s), Rooted(Clean(Append(x, s)))}
        PROVE  NormalizePath(Append(y, s)) \in UpToSlash(landed)
    <2>1. s \in End
      BY <1>5
    <2> QED BY ONLY <2>1, <1>6, Landing
  <1>10. ASSUME target.kind # "relative"  PROVE TargetPath(p) \in UpToSlash(landed)
    <2>1. d \in {Append(front, s), Rooted(Clean(Append(front, s)))}
      BY <1>5, <1>7, <1>9, <1>10
    <2>2. NormalizePath(Append(front, s)) \in UpToSlash(landed)
      BY <1>5, <1>6, <2>1
    <2>3. target.path = Append(front, s)
      BY <1>5
    <2> QED BY <1>8, <1>10, <2>2, <2>3
  <1>11. ASSUME target.kind = "relative"  PROVE TargetPath(p) \in UpToSlash(landed)
    <2> DEFINE x == q \o front
               y == p \o front
    <2>1. x \in Seq(Legal) /\ y \in Seq(Legal) /\ Clean(x) = Clean(y)
      BY <1>4, CleanBelow
    <2>2. q \o target.path = Append(x, s) /\ p \o target.path = Append(y, s)
      BY <1>4, <1>5
    <2> HIDE DEF x, y
    <2>3. d \in {Append(x, s), Rooted(Clean(Append(x, s)))}
      BY <1>7, <1>11, <2>2
    <2>4. NormalizePath(Append(y, s)) \in UpToSlash(landed)
      BY <1>6, <2>1, <2>3
    <2> QED BY <1>8, <1>11, <2>2, <2>4
  <1>12. TargetPath(p) \in UpToSlash(landed)
    BY <1>10, <1>11
  <1> QED BY <1>12 DEF UpToSlash, p, d

\* A redirect leads to a row or a snapshot of its target, or of the target without its trailing
\* slash (common/worker.go, saveRedirectURL; common/url/url.go, DeriveAbsoluteURL).
THEOREM RedirectsAreFollowed == Spec => RedirectFollowed
  <1> DEFINE A == request' # request /\ target # NoTarget =>
                     \E t \in urls' \cup marked' \cup snapshots' :
                        \/ t.path = TargetPath(job.path)
                        \/ t.path \o <<"">> = TargetPath(job.path)
  <1>1. TextInv /\ [Next]_vars => [A]_vars
    <2> SUFFICES ASSUME TextInv, [Next]_vars, request' # request, target # NoTarget
                 PROVE  \E t \in urls' \cup marked' \cup snapshots' :
                           \/ t.path = TargetPath(job.path)
                           \/ t.path \o <<"">> = TargetPath(job.path)
      OBVIOUS
    <2> DEFINE t == ParseURL(ParseURL(job))
               u == DeriveAbsoluteURL(t, target)
               r == ParseURL(u)
               d == DerivedPath(t, target)
               landed == NormalizePath(NormalizePath(d))
    <2>1. target \in Target
      BY InputsType DEF TextInv
    <2>2. /\ job \in marked /\ t \in Text
          /\ snapshots' = snapshots \cup {t} /\ DeleteURL(t, Added(t))
      BY Requests
    <2>3. TargetPath(job.path) \in {landed, Append(landed, "")}
      BY <2>1, <2>2, LandsOnTarget
    <2>4. d \in Seq(Kind) /\ u \in Text /\ u.path = NormalizePath(d)
      BY <2>1, <2>2, DerivedText
    <2>5. Added(t) = IF HaveWeVisited(u) THEN {} ELSE {r} \ marked
      BY DEF Added
    <2> HIDE DEF t, u, d
    <2>6. r \in Text /\ r.path = landed
      BY <2>4, ParseFields
    <2>7. urls' = (urls \cup Added(t)) \ {t} /\ marked' = marked \ {t}
      BY <2>2 DEF DeleteURL
    <2>8. PICK v \in urls' \cup marked' \cup snapshots' : v.path = landed
      <3>1. CASE HaveWeVisited(u)
        <4>1. u \in snapshots
          BY <3>1 DEF HaveWeVisited
        <4>2. u.path = landed
          BY <2>4, <4>1 DEF TextInv, SnapshotsInv, Stable
        <4> QED BY <2>2, <4>1, <4>2
      <3>2. CASE ~HaveWeVisited(u)
        <4> HIDE DEF r
        <4> QED BY <2>2, <2>5, <2>6, <2>7, <3>2
      <3> QED BY <3>1, <3>2
    <2>9. landed \in Seq(Kind) /\ "" \in Kind
      BY <2>4, PathsSettle, SettledKinds
    <2> HIDE DEF landed
    <2>10. landed \o <<"">> = Append(landed, "")
      BY <2>9, AppendIsConcat
    <2> QED BY <2>3, <2>8, <2>10
  <1>2. [][A]_vars => RedirectFollowed
    BY PTL DEF RedirectFollowed
  <1> HIDE DEF A
  <1> QED BY <1>1, <1>2, TextInvariance, PTL DEF Spec

-----------------------------------------------------------------------------
(***************************************************************************)
(* Decoding what was escaped.                                              *)
(***************************************************************************)

\* The segments of a selector that a menu and a request spell alike, and those that
\* stand for them in a row.
Simple == {"1", "+", "a", "a b", "a!"}

\* What they are escaped to
Sent == {"1", "+", "a", "a%20b", "a%21"}

\* How that is decoded
Decode(s) == IF s = "a%20b" THEN "a b" ELSE IF s = "a%21" THEN "a!" ELSE s

\* The same, for every segment of a path
DecodeAll(p) == [i \in DOMAIN p |-> Decode(p[i])]

\* Escaping and decoding are inverse to each other on these segments.
LEMMA SimpleKinds ==
    /\ Simple \subseteq Decoded /\ Simple \subseteq Kind /\ Sent \subseteq Settled /\ Sent \subseteq Kind
    /\ Decoded \subseteq Kind /\ "" \in Decoded
    /\ Simple \cap Special = {} /\ Sent \cap Special = {}
    /\ Simple \cap Slashed = {} /\ Sent \cap Slashed = {}
    /\ EscapesTo(Simple, Sent) /\ EscapesTo(Sent, Sent)
    /\ \A s \in Sent : Decode(s) \in Simple
    /\ \A s \in Simple : Decode(PathEscape(s)) = s
    /\ PathEscape("") = ""
  <1>1. Simple \subseteq Decoded /\ Simple \subseteq Kind /\ Sent \subseteq Settled /\ Sent \subseteq Kind
    BY Kinds DEF Simple, Sent, Decoded, Settled
  <1>2. Simple \cap Special = {} /\ Sent \cap Special = {} /\ Simple \cap Slashed = {} /\ Sent \cap Slashed = {}
    BY DEF Simple, Sent, Special, Slashed
  <1>3. EscapesTo(Simple, Sent) /\ EscapesTo(Sent, Sent)
    BY DEF Simple, Sent, EscapesTo, PathEscape
  <1>4. (\A s \in Sent : Decode(s) \in Simple) /\ \A s \in Simple : Decode(PathEscape(s)) = s
    BY DEF Simple, Sent, Decode, PathEscape
  <1>5. Decoded \subseteq Kind /\ "" \in Decoded /\ PathEscape("") = ""
    BY Kinds DEF Decoded, PathEscape
  <1> QED BY <1>1, <1>2, <1>3, <1>4, <1>5

\* Each of them decodes to one segment.
LEMMA SentDecoded == \A s \in Sent : Unescape[s] = <<Decode(s)>>
  <1>1. "1" \in Decoded /\ "+" \in Decoded /\ "a" \in Decoded
    BY DEF Decoded
  <1>2. /\ Unescape["1"] = <<"1">> /\ Unescape["+"] = <<"+">> /\ Unescape["a"] = <<"a">>
        /\ Unescape["a%20b"] = <<"a b">> /\ Unescape["a%21"] = <<"a!">>
    BY <1>1, UnescapeValues
  <1>3. /\ Decode("1") = "1" /\ Decode("+") = "+" /\ Decode("a") = "a"
        /\ Decode("a%20b") = "a b" /\ Decode("a%21") = "a!"
    BY DEF Decode
  <1> QED BY <1>2, <1>3 DEF Sent

\* The empty path decodes to itself.
LEMMA UnescapedNone == Unescaped(<<>>) = <<>>
  <1>1. [i \in DOMAIN <<>> |-> Unescape[<<>>[i]]] = <<>>
    OBVIOUS
  <1>2. FlattenSeq(<<>>) = <<>>
    BY DEF FlattenSeq
  <1> QED BY <1>1, <1>2 DEF Unescaped

\* A path each of whose segments decodes to one
DecodesTo(s, c) == Unescape[s] = <<c>>

\* The same of two paths
OneByOne(q, r) ==
    /\ Len(q) = Len(r)
    /\ \A i \in 1 .. Len(q) : DecodesTo(q[i], r[i])

\* A path of such segments is decoded one by one.
LEMMA UnescapedEach ==
    ASSUME NEW q \in Seq(Kind), NEW r \in Seq(Decoded), OneByOne(q, r)
    PROVE  Unescaped(q) = r
  <1> DEFINE T == {n \in Nat : \A p \in Seq(Kind), d \in Seq(Decoded) :
                                  Len(p) = n /\ OneByOne(p, d) => Unescaped(p) = d}
  <1>1. 0 \in T
    <2> SUFFICES ASSUME NEW p \in Seq(Kind), NEW d \in Seq(Decoded), Len(p) = 0, OneByOne(p, d)
                 PROVE  Unescaped(p) = d
      OBVIOUS
    <2>1. p = <<>> /\ d = <<>>
      BY EmptySeq DEF OneByOne
    <2> QED BY <2>1, UnescapedNone
  <1>2. \A n \in Nat : n \in T => n + 1 \in T
    <2> SUFFICES ASSUME NEW n \in Nat, n \in T,
                        NEW p \in Seq(Kind), NEW d \in Seq(Decoded), Len(p) = n + 1, OneByOne(p, d)
                 PROVE  Unescaped(p) = d
      OBVIOUS
    <2>1. Len(d) = n + 1 /\ p # <<>> /\ d # <<>>
      BY EmptySeq DEF OneByOne
    <2>2. PICK p1 \in Seq(Kind), s \in Kind : p = Append(p1, s)
      BY <2>1, SequenceEmptyOrAppend
    <2>3. PICK d1 \in Seq(Decoded), c \in Decoded : d = Append(d1, c)
      BY <2>1, SequenceEmptyOrAppend
    <2>4. /\ Len(p1) = n /\ p[n + 1] = s /\ \A i \in 1 .. n : p[i] = p1[i]
          /\ Len(d1) = n /\ d[n + 1] = c /\ \A i \in 1 .. n : d[i] = d1[i]
      BY <2>1, <2>2, <2>3, AppendProperties, LenProperties
    <2>5. OneByOne(p1, d1) /\ Unescape[s] = <<c>>
      <3>1. \A i \in 1 .. n + 1 : DecodesTo(p[i], d[i])
        BY DEF OneByOne
      <3>2. n + 1 \in 1 .. n + 1 /\ \A i \in 1 .. n : i \in 1 .. n + 1
        OBVIOUS
      <3>3. \A i \in 1 .. n : DecodesTo(p1[i], d1[i])
        BY <2>4, <3>1, <3>2
      <3>4. DecodesTo(s, c)
        BY <2>4, <3>1, <3>2
      <3> QED BY <2>4, <3>3, <3>4 DEF OneByOne, DecodesTo
    <2>6. Unescaped(p1) = d1
      BY <2>4, <2>5
    <2>7. Unescaped(p) = d1 \o <<c>>
      BY <2>2, <2>5, <2>6, UnescapedAppend
    <2>8. d1 \o <<c>> = Append(d1, c)
      BY AppendIsConcat
    <2> QED BY <2>3, <2>7, <2>8
  <1> HIDE DEF T
  <1>3. Len(q) \in T
    BY <1>1, <1>2, Induction, LenProperties
  <1> QED BY <1>3 DEF T

\* That keeps the length of the path.
LEMMA DecodeAllType ==
    ASSUME NEW e \in Seq(Sent)
    PROVE  /\ DecodeAll(e) \in Seq(Simple) /\ Len(DecodeAll(e)) = Len(e)
           /\ \A i \in 1 .. Len(e) : DecodeAll(e)[i] = Decode(e[i])
  <1>1. DOMAIN e = 1 .. Len(e) /\ Len(e) \in Nat
    BY LenProperties
  <1>2. \A i \in 1 .. Len(e) : Decode(e[i]) \in Simple
    BY ElementOfSeq, SimpleKinds
  <1> QED BY <1>1, <1>2 DEF DecodeAll

\* A path that was escaped is decoded one by one, with a slash after it or without.
LEMMA SentText ==
    ASSUME NEW e \in Seq(Sent)
    PROVE  Unescaped(e) = DecodeAll(e) /\ Unescaped(Append(e, "")) = Append(DecodeAll(e), "")
  <1> DEFINE d == DecodeAll(e)
  <1>1. d \in Seq(Simple) /\ Len(d) = Len(e) /\ \A i \in 1 .. Len(e) : d[i] = Decode(e[i])
    BY DecodeAllType
  <1> HIDE DEF d
  <1>2. OneByOne(e, d)
    <2>1. \A i \in 1 .. Len(e) : Unescape[e[i]] = <<Decode(e[i])>>
      BY ElementOfSeq, SentDecoded
    <2> QED BY <1>1, <2>1 DEF OneByOne, DecodesTo
  <1>3. e \in Seq(Kind) /\ d \in Seq(Decoded)
    BY <1>1, SimpleKinds, SeqMonotonic
  <1>4. Unescaped(e) = d
    BY <1>2, <1>3, UnescapedEach
  <1>5. "" \in Kind /\ Unescape[""] = <<"">>
    BY SimpleKinds, UnescapeValues
  <1>6. Unescaped(Append(e, "")) = d \o <<"">>
    BY <1>3, <1>4, <1>5, UnescapedAppend
  <1>7. d \o <<"">> = Append(d, "")
    BY <1>3, SimpleKinds, AppendIsConcat
  <1> QED BY <1>4, <1>6, <1>7 DEF d

-----------------------------------------------------------------------------
(***************************************************************************)
(* Proper paths: those no segment of which is cleaned away.                *)
(***************************************************************************)

\* A path of one segment
LEMMA OneSegment ==
    ASSUME NEW S, NEW s \in S
    PROVE  <<>> \in Seq(S) /\ Append(<<>>, s) = <<s>> /\ <<>> \o <<s>> = <<s>> /\ Len(<<s>>) = 1 /\ <<s>>[1] = s
  OBVIOUS

\* Path p is q and segment s.
Ends(p, q, s) ==
    /\ p # <<>> /\ Len(q) \in Nat
    /\ Len(p) = Len(q) + 1 /\ DOMAIN p = 1 .. Len(q) + 1
    /\ p[Len(q) + 1] = s /\ \A i \in 1 .. Len(q) : p[i] = q[i]
    /\ \A i \in 1 .. Len(q) + 1 : i \in 1 .. Len(q) \/ i = Len(q) + 1
    /\ p = [i \in DOMAIN p |-> p[i]]

\* The naturals up to a successor
LEMMA Successor ==
    ASSUME NEW n \in Nat
    PROVE  \A i \in 1 .. n + 1 : i \in 1 .. n \/ i = n + 1
  OBVIOUS

\* Append adds an end.
LEMMA AppendEnds ==
    ASSUME NEW S, NEW q \in Seq(S), NEW s \in S
    PROVE  Ends(Append(q, s), q, s)
  <1> DEFINE p == Append(q, s)
  <1>1. /\ p \in Seq(S) /\ p # <<>> /\ Len(p) = Len(q) + 1
        /\ p[Len(q) + 1] = s /\ \A i \in 1 .. Len(q) : p[i] = q[i]
    BY AppendProperties
  <1> HIDE DEF p
  <1>2. Len(q) \in Nat /\ DOMAIN p = 1 .. Len(p) /\ p = [i \in 1 .. Len(p) |-> p[i]]
    BY <1>1, LenProperties
  <1>3. \A i \in 1 .. Len(q) + 1 : i \in 1 .. Len(q) \/ i = Len(q) + 1
    BY <1>2, Successor
  <1>4. Ends(p, q, s)
    BY <1>1, <1>2, <1>3, Zenon DEF Ends
  <1> QED BY <1>4 DEF p

\* No segment of such a path is cleaned away.
Proper(p) == \A i \in 1 .. Len(p) : p[i] \in Simple \/ (p[i] = "" /\ i = Len(p))

\* A slash may come after proper names.
LEMMA ProperSlash ==
    ASSUME NEW d \in Seq(Simple)
    PROVE  Append(d, "") # <<>> /\ Proper(Append(d, ""))
  <1> DEFINE p == Append(d, "")
  <1>1. d \in Seq(Kind) /\ "" \in Kind
    BY SimpleKinds, SeqMonotonic
  <1>2. Ends(p, d, "")
    BY <1>1, AppendEnds
  <1>3. \A i \in 1 .. Len(d) : d[i] \in Simple
    BY ElementOfSeq
  <1> HIDE DEF p
  <1>4. \A i \in 1 .. Len(p) : i \in 1 .. Len(d) \/ i = Len(p)
    BY <1>2, Zenon DEF Ends
  <1>5. \A i \in 1 .. Len(d) : p[i] \in Simple
    BY <1>2, <1>3 DEF Ends
  <1>6. p[Len(p)] = "" /\ p # <<>>
    BY <1>2, Zenon DEF Ends
  <1>7. Proper(p)
    BY <1>4, <1>5, <1>6, Zenon DEF Proper
  <1> QED BY <1>6, <1>7 DEF p

\* The root is proper.
LEMMA ProperRoot == <<"">> # <<>> /\ Proper(<<"">>)
  <1>1. "" \in Kind /\ <<>> \in Seq(Simple)
    BY SimpleKinds, EmptySeq
  <1>2. Append(<<>>, "") = <<"">>
    BY <1>1, OneSegment
  <1> QED BY <1>1, <1>2, ProperSlash

\* A slash at the end stays when the path is escaped.
LEMMA EscapeAllSlash ==
    ASSUME NEW r \in Seq(Kind), NEW e \in Seq(Kind), e = EscapeAll(r), Len(e) = Len(r)
    PROVE  EscapeAll(Append(r, "")) = Append(e, "")
  <1> DEFINE x == Append(r, "")
             y == Append(e, "")
             n == Len(r)
  <1>1. "" \in Kind /\ DOMAIN r = 1 .. n
    BY SimpleKinds, LenProperties
  <1>2. Ends(x, r, "") /\ Ends(y, e, "")
    BY <1>1, AppendEnds
  <1>3. \A i \in 1 .. n : e[i] = PathEscape(r[i])
    BY <1>1 DEF EscapeAll
  <1> HIDE DEF x, y
  <1>4. /\ DOMAIN x = 1 .. n + 1 /\ x[n + 1] = "" /\ \A i \in 1 .. n : x[i] = r[i]
        /\ \A i \in 1 .. n + 1 : i \in 1 .. n \/ i = n + 1
    BY <1>2, Zenon DEF Ends
  <1>5. /\ DOMAIN y = 1 .. n + 1 /\ y[n + 1] = "" /\ \A i \in 1 .. n : y[i] = e[i]
        /\ y = [i \in DOMAIN y |-> y[i]]
    <2>1. /\ DOMAIN y = 1 .. Len(e) + 1 /\ y[Len(e) + 1] = "" /\ \A i \in 1 .. Len(e) : y[i] = e[i]
          /\ y = [i \in DOMAIN y |-> y[i]]
      BY <1>2, Zenon DEF Ends
    <2> QED BY <2>1
  <1> HIDE DEF n
  <1>6. \A i \in 1 .. n + 1 : PathEscape(x[i]) = y[i]
    <2>1. \A i \in 1 .. n : PathEscape(x[i]) = y[i]
      BY <1>3, <1>4, <1>5
    <2>2. PathEscape(x[n + 1]) = y[n + 1]
      BY <1>4, <1>5, SimpleKinds
    <2> QED BY <1>4, <2>1, <2>2, Zenon
  <1>7. EscapeAll(x) = y
    BY <1>4, <1>5, <1>6 DEF EscapeAll
  <1> QED BY <1>7 DEF x, y
\* What comes out of two parses, decoded
LEMMA SentPath ==
    ASSUME NEW p \in Seq(Kind), p # <<>>, Body(p) \in Seq(Sent)
    PROVE  Unescaped(NormalizePath(NormalizePath(p))) =
              IF Body(p) = <<>> THEN <<"">>
              ELSE IF p[Len(p)] \in Slashed THEN Append(DecodeAll(Body(p)), "") ELSE DecodeAll(Body(p))
  <1> DEFINE e == Body(p)
             n == NormalizePath(p)
  <1>1. n = IF e = <<>> THEN <<"">> ELSE IF p[Len(p)] \in Slashed THEN Append(e, "") ELSE e
    BY NormalizeForm
  <1>2. e \in Seq(Sent) /\ e \in Seq(Settled)
    BY SimpleKinds, SeqMonotonic
  <1> HIDE DEF e, n
  <1>3. CASE e = <<>>
    <2>1. n = <<"">> /\ NormalizePath(n) = <<"">>
      BY <1>1, <1>3, NormalizeRoot
    <2>2. Unescaped(<<"">>) = <<"">>
      <3>1. "" \in Kind /\ Unescape[""] = <<"">>
        BY SimpleKinds, UnescapeValues
      <3>2. <<>> \in Seq(Kind) /\ Append(<<>>, "") = <<"">> /\ <<>> \o <<"">> = <<"">>
        BY <3>1, OneSegment
      <3> QED BY <3>1, <3>2, UnescapedAppend, UnescapedNone
    <2> QED BY <1>3, <2>1, <2>2 DEF e, n
  <1>4. CASE e # <<>>
    <2>1. Len(e) \in Nat \ {0} /\ e[Len(e)] \in Sent
      BY <1>2, <1>4, EmptySeq, LenProperties, ElementOfSeq
    <2>2. e[Len(e)] \notin Slashed
      BY <2>1, SimpleKinds
    <2>3. NormalizePath(n) = n
      BY <1>1, <1>2, <1>4, <2>2, NormalizeSettled
    <2>4. Unescaped(e) = DecodeAll(e) /\ Unescaped(Append(e, "")) = Append(DecodeAll(e), "")
      BY <1>2, SentText
    <2>5. NormalizePath(NormalizePath(p)) = n
      BY <2>3 DEF n
    <2> QED BY <1>1, <1>4, <2>4, <2>5 DEF e
  <1> QED BY <1>3, <1>4

\* The segments of what is not encoded, while it is cleaned
Partly == {"", ".", "..", "1", "+", "a", "a!", "a%20b", "a%21"}

\* What these sets have to do with each other
LEMMA PartlyKinds ==
    /\ Partly \subseteq Legal /\ CleansTo(Partly, Partly \ Special)
    /\ EscapesTo(Partly \ Special, Sent) /\ EscapesTo(Decoded, Partly)
    /\ Decoded \ {"a b"} \subseteq Partly
  <1>1. Partly \subseteq Legal /\ CleansTo(Partly, Partly \ Special)
    BY Kinds DEF Partly, Legal, CleansTo
  <1>2. EscapesTo(Partly \ Special, Sent)
    BY DEF Partly, Special, Sent, EscapesTo, PathEscape
  <1>3. EscapesTo(Decoded, Partly) /\ Decoded \ {"a b"} \subseteq Partly
    BY DEF Partly, Decoded, EscapesTo, PathEscape
  <1> QED BY <1>1, <1>2, <1>3

\* The body of a decoded path decodes one by one.
LEMMA DecodedBody ==
    ASSUME NEW p \in Seq(Decoded)
    PROVE  Body(p) \in Seq(Sent)
  <1>1. p \in Seq(Kind)
    BY SimpleKinds, SeqMonotonic
  <1>2. EscapedPath(p) \in Seq(Partly)
    <2>1. CASE "a b" \notin Range(p)
      <3>1. DOMAIN p = 1 .. Len(p) /\ Len(p) \in Nat /\ p = [i \in 1 .. Len(p) |-> p[i]]
        BY LenProperties
      <3>2. \A i \in 1 .. Len(p) : p[i] \in Partly
        <4>1. \A i \in 1 .. Len(p) : p[i] \in Decoded
          BY ElementOfSeq
        <4>2. \A i \in 1 .. Len(p) : p[i] # "a b"
          BY <2>1, <3>1 DEF Range
        <4> QED BY <4>1, <4>2, PartlyKinds
      <3>3. p \in Seq(Partly)
        BY <3>1, <3>2
      <3> QED BY <3>3, <2>1 DEF EscapedPath
    <2>2. CASE "a b" \in Range(p)
      <3>1. EscapedPath(p) = EscapeAll(Unescaped(p))
        BY <2>2 DEF EscapedPath, EscapeAll
      <3>2. Unescaped(p) \in Seq(Decoded) /\ EscapesTo(Decoded, Partly)
        BY <1>1, UnescapedType, PartlyKinds
      <3> QED BY <3>1, <3>2, EscapeAllType
    <2> QED BY <2>1, <2>2
  <1> DEFINE c == Clean(EscapedPath(p))
  <1>3. c \in Seq(Partly \ Special)
    BY <1>2, PartlyKinds, CleanType
  <1>4. EscapeAll(c) \in Seq(Sent)
    <2>1. EscapesTo(Partly \ Special, Sent)
      BY PartlyKinds
    <2> HIDE DEF c
    <2> QED BY <1>3, <2>1, EscapeAllType
  <1> QED BY <1>4 DEF Body

\* Whatever goes into two parses, what comes out is proper, once decoded.
LEMMA ProperComesOut ==
    ASSUME NEW p \in Seq(Decoded), p # <<>>
    PROVE  LET u == Unescaped(NormalizePath(NormalizePath(p)))
           IN  u # <<>> /\ u \in Seq(Decoded) /\ Proper(u)
  <1> DEFINE u == Unescaped(NormalizePath(NormalizePath(p)))
             d == DecodeAll(Body(p))
  <1>1. p \in Seq(Kind) /\ Body(p) \in Seq(Sent)
    BY SimpleKinds, SeqMonotonic, DecodedBody
  <1>2. d \in Seq(Simple) /\ Len(d) = Len(Body(p))
    BY <1>1, DecodeAllType
  <1>3. u = IF Body(p) = <<>> THEN <<"">> ELSE IF p[Len(p)] \in Slashed THEN Append(d, "") ELSE d
    BY <1>1, SentPath
  <1>4. Body(p) # <<>> => d # <<>>
    BY <1>1, <1>2, EmptySeq
  <1>5. u \in Seq(Decoded)
    BY <1>1, PathsSettle, UnescapedType
  <1> HIDE DEF u, d
  <1>6. Proper(d)
    BY <1>2, ElementOfSeq DEF Proper
  <1>7. u # <<>> /\ Proper(u)
    BY <1>2, <1>3, <1>4, <1>6, ProperRoot, ProperSlash
  <1> QED BY <1>5, <1>7 DEF u

\* What the names of a proper path become
LEMMA SimpleEscaped ==
    ASSUME NEW r \in Seq(Simple)
    PROVE  LET e == EscapeAll(r) IN
           /\ e \in Seq(Sent) /\ Len(e) = Len(r)
           /\ EscapeAll(e) = e /\ Clean(e) = e /\ Clean(r) = r /\ DecodeAll(e) = r
           /\ EscapeAll(Append(r, "")) = Append(e, "")
  <1> DEFINE e == EscapeAll(r)
  <1>1. EscapesTo(Simple, Sent) /\ EscapesTo(Sent, Sent)
    BY SimpleKinds
  <1>2. e \in Seq(Sent) /\ Len(e) = Len(r) /\ \A i \in 1 .. Len(r) : e[i] = PathEscape(r[i])
    BY <1>1, EscapeAllType
  <1>3. Clean(r) = r
    BY SimpleKinds, CleanIdentity
  <1>4. EscapeAll(Append(r, "")) = Append(e, "")
    <2>1. r \in Seq(Kind) /\ e \in Seq(Kind)
      BY <1>2, SimpleKinds, SeqMonotonic
    <2> QED BY <1>2, <2>1, EscapeAllSlash
  <1> HIDE DEF e
  <1>5. Clean(e) = e
    BY <1>2, SimpleKinds, CleanIdentity
  <1>6. EscapeAll(e) = e
    <2>1. e \in Seq(Settled)
      BY <1>2, SimpleKinds, SeqMonotonic
    <2>2. Body(e) = e /\ EscapedPath(e) = e
      BY <2>1, SettledBody, LegalStays, SettledKinds, SeqMonotonic
    <2> QED BY <1>5, <2>2 DEF Body
  <1>7. DecodeAll(e) = r
    <2>1. DecodeAll(e) \in Seq(Simple) /\ Len(DecodeAll(e)) = Len(r)
       /\ \A i \in 1 .. Len(r) : DecodeAll(e)[i] = Decode(e[i])
      BY <1>2, DecodeAllType
    <2>2. \A i \in 1 .. Len(r) : DecodeAll(e)[i] = r[i]
      BY <1>2, <2>1, ElementOfSeq, SimpleKinds
    <2> QED BY <2>1, <2>2, SeqEqual
  <1> QED BY <1>2, <1>3, <1>4, <1>5, <1>6, <1>7 DEF e

-----------------------------------------------------------------------------
(***************************************************************************)
(* A proper path comes out of two parses as it went in.                    *)
(***************************************************************************)

\* The last element of a sequence
LEMMA LastEntry ==
    ASSUME NEW S, NEW p \in Seq(S), p # <<>>
    PROVE  p[Len(p)] \in S /\ Len(p) \in 1 .. Len(p)
  <1>1. Len(p) \in 1 .. Len(p)
    BY EmptySeq, LenProperties
  <1> QED BY <1>1, ElementOfSeq

\* path.Clean does not see a slash at the end.
LEMMA CleanSlash ==
    ASSUME NEW p \in Seq(Kind)
    PROVE  Clean(Append(p, "")) = Clean(p)
  <1>1. CleansTo(Kind, Kind) /\ "" \in Kind
    BY SimpleKinds DEF CleansTo
  <1>2. Clean(Append(p, "")) = CleanStep(Clean(p), "")
    BY <1>1, CleanAppend
  <1>3. CleanStep(Clean(p), "") = Clean(p)
    BY Zenon DEF CleanStep
  <1> QED BY <1>2, <1>3

\* The body of a proper path, with a slash after it and without
LEMMA ProperBody ==
    ASSUME NEW r \in Seq(Simple), NEW p \in {r, Append(r, "")}
    PROVE  p \in Seq(Decoded) /\ Body(p) = EscapeAll(r)
  <1> DEFINE e == EscapeAll(r)
  <1>1. r \in Seq(Decoded) /\ Append(r, "") \in Seq(Decoded)
    BY SimpleKinds, SeqMonotonic, AppendProperties
  <1>2. p \in Seq(Decoded) /\ p \in Seq(Kind)
    <2>1. p \in Seq(Decoded)
      BY <1>1
    <2> QED BY <2>1, SimpleKinds, SeqMonotonic
  <1>3. Unescaped(p) = p
    <2>1. \A i \in 1 .. Len(p) : DecodesTo(p[i], p[i])
      BY <1>2, ElementOfSeq, UnescapeValues DEF DecodesTo
    <2>2. OneByOne(p, p)
      BY <2>1 DEF OneByOne
    <2> QED BY <1>2, <2>2, UnescapedEach
  <1>4. EscapedPath(p) \in {p, EscapeAll(p)}
    BY <1>3 DEF EscapedPath, EscapeAll
  <1>5. /\ e \in Seq(Sent) /\ EscapeAll(e) = e /\ Clean(e) = e /\ Clean(r) = r
        /\ EscapeAll(Append(r, "")) = Append(e, "")
    BY SimpleEscaped
  <1> HIDE DEF e
  <1>6. EscapedPath(p) \in {r, e, Append(r, ""), Append(e, "")}
    BY <1>4, <1>5 DEF e
  <1>7. Clean(Append(r, "")) = r /\ Clean(Append(e, "")) = e
    <2>1. r \in Seq(Kind) /\ e \in Seq(Kind)
      BY <1>5, SimpleKinds, SeqMonotonic
    <2> QED BY <1>5, <2>1, CleanSlash
  <1>8. Clean(EscapedPath(p)) \in {r, e}
    BY <1>5, <1>6, <1>7
  <1>9. Body(p) = e
    BY <1>5, <1>8 DEF Body, e
  <1> QED BY <1>2, <1>9 DEF e

\* A proper path that does not begin with a slash is proper names, and maybe a slash.
LEMMA ProperShape ==
    ASSUME NEW p \in Seq(Decoded), p # <<>>, Proper(p), p[1] \in Simple
    PROVE  \E r \in Seq(Simple) : r # <<>> /\ p \in {r, Append(r, "")}
  <1>1. Len(p) \in Nat \ {0} /\ DOMAIN p = 1 .. Len(p) /\ p = [i \in 1 .. Len(p) |-> p[i]]
    BY EmptySeq, LenProperties
  <1>2. CASE p[Len(p)] \in Simple
    <2>1. \A i \in 1 .. Len(p) : p[i] \in Simple
      BY <1>2 DEF Proper
    <2>2. p \in Seq(Simple)
      BY <1>1, <2>1
    <2> QED BY <2>2
  <1>3. CASE p[Len(p)] \notin Simple
    <2>1. PICK q \in Seq(Decoded), s \in Decoded : p = Append(q, s)
      BY SequenceEmptyOrAppend
    <2>2. Ends(p, q, s)
      BY <2>1, AppendEnds
    <2>3. Len(p) = Len(q) + 1 /\ p[Len(p)] = s /\ Len(q) \in Nat /\ \A i \in 1 .. Len(q) : p[i] = q[i]
      BY <2>2, Zenon DEF Ends
    <2>4. s = ""
      <3>1. Len(p) \in 1 .. Len(p)
        BY <1>1
      <3> QED BY <1>3, <2>3, <3>1 DEF Proper
    <2>5. \A i \in 1 .. Len(q) : q[i] \in Simple
      <3>1. \A i \in 1 .. Len(q) : i \in 1 .. Len(p) /\ i # Len(p)
        BY <2>3
      <3> QED BY <2>3, <3>1 DEF Proper
    <2>6. q = [i \in 1 .. Len(q) |-> q[i]]
      BY LenProperties
    <2>7. q \in Seq(Simple)
      BY <2>3, <2>5, <2>6
    <2>8. q # <<>>
      <3> SUFFICES ASSUME q = <<>> PROVE FALSE
        OBVIOUS
      <3>1. Len(q) = 0
        BY EmptySeq
      <3>2. p[1] = s
        BY <2>3, <3>1
      <3>3. "" \notin Simple
        BY DEF Simple
      <3> QED BY <2>4, <3>2, <3>3
    <2> QED BY <2>1, <2>4, <2>7, <2>8
  <1> QED BY <1>2, <1>3

\* Two parses and a decoding bring a proper path back.
LEMMA ProperReturns ==
    ASSUME NEW p \in Seq(Decoded), p # <<>>, Proper(p), p[1] \in Simple
    PROVE  Unescaped(NormalizePath(NormalizePath(p))) = p
  <1>1. PICK r \in Seq(Simple) : r # <<>> /\ p \in {r, Append(r, "")}
    BY ProperShape
  <1> DEFINE e == EscapeAll(r)
  <1>2. Body(p) = e
    BY <1>1, ProperBody
  <1>3. e \in Seq(Sent) /\ DecodeAll(e) = r /\ Len(e) = Len(r)
    BY SimpleEscaped
  <1>4. e # <<>>
    BY <1>1, <1>3, EmptySeq
  <1>5. p \in Seq(Kind)
    BY SimpleKinds, SeqMonotonic
  <1> HIDE DEF e
  <1>6. Unescaped(NormalizePath(NormalizePath(p))) = IF p[Len(p)] \in Slashed THEN Append(r, "") ELSE r
    BY <1>2, <1>3, <1>4, <1>5, SentPath
  <1>7. p = r => p[Len(p)] \notin Slashed
    <2>1. r[Len(r)] \in Simple
      BY <1>1, LastEntry
    <2> QED BY <2>1, SimpleKinds
  <1>8. p = Append(r, "") => p[Len(p)] \in Slashed
    <2>1. r \in Seq(Kind) /\ "" \in Kind
      BY SimpleKinds, SeqMonotonic
    <2>2. Append(r, "")[Len(Append(r, ""))] = ""
      BY <2>1, AppendLast
    <2> QED BY <2>2, SettledKinds
  <1> QED BY <1>1, <1>6, <1>7, <1>8

-----------------------------------------------------------------------------
(***************************************************************************)
(* The selector of a menu, and what is sent for it.                        *)
(***************************************************************************)

\* Both sides of SelectorIsSent, of the selector alone
Spelled(m) ==
    \A i \in 2 .. Len(m) :
       \/ m[i] \in {"1", "+", "a", "a b", "a!"}
       \/ m[i] = "" /\ i = Len(m)

\* Predecessors tell integers apart.
LEMMA SamePredecessor ==
    ASSUME NEW i \in Int, NEW n \in Int, i - 1 = n - 1
    PROVE  i = n
  OBVIOUS

\* The elements of the tail of a sequence
LEMMA TailEntries ==
    ASSUME NEW S, NEW p \in Seq(S), p # <<>>
    PROVE  /\ Tail(p) \in Seq(S) /\ Len(Tail(p)) = Len(p) - 1 /\ Len(p) \in Nat \ {0}
           /\ \A i \in 1 .. Len(p) - 1 : Tail(p)[i] = p[i + 1]
  BY HeadTailProperties, EmptySeq, LenProperties

\* The tail of a proper path is proper.
LEMMA ProperTail ==
    ASSUME NEW p \in Seq(Kind), p # <<>>, Proper(p)
    PROVE  Proper(Tail(p))
  <1>1. /\ Len(Tail(p)) = Len(p) - 1 /\ Len(p) \in Nat \ {0}
        /\ \A i \in 1 .. Len(p) - 1 : Tail(p)[i] = p[i + 1]
    BY TailEntries
  <1>2. \A i \in 1 .. Len(p) - 1 : i + 1 \in 1 .. Len(p) /\ (i + 1 = Len(p) <=> i = Len(p) - 1)
    BY <1>1
  <1> QED BY <1>1, <1>2 DEF Proper

\* A selector is spelled out exactly when it is proper.
LEMMA SpelledProper ==
    ASSUME NEW m \in Seq(Kind), m # <<>>, m[1] \in Simple
    PROVE  /\ Proper(Tail(m)) => Spelled(m)
           /\ Spelled(m) => Proper(m)
  <1>1. /\ Len(Tail(m)) = Len(m) - 1 /\ Len(m) \in Nat \ {0}
        /\ \A i \in 1 .. Len(m) - 1 : Tail(m)[i] = m[i + 1]
    BY TailEntries
  <1>2. ASSUME Proper(Tail(m)), NEW i \in 2 .. Len(m)
        PROVE  m[i] \in Simple \/ (m[i] = "" /\ i = Len(m))
    <2>1. i - 1 \in 1 .. Len(m) - 1 /\ i - 1 + 1 = i
      BY <1>1
    <2>2. Tail(m)[i - 1] = m[i]
      BY <1>1, <2>1
    <2>3. Tail(m)[i - 1] \in Simple \/ (Tail(m)[i - 1] = "" /\ i - 1 = Len(m) - 1)
      BY <1>1, <1>2, <2>1 DEF Proper
    <2>4. i - 1 = Len(m) - 1 => i = Len(m)
      <3>1. i \in Int /\ Len(m) \in Int
        BY <1>1
      <3> QED BY <3>1, SamePredecessor
    <2> QED BY <2>2, <2>3, <2>4
  <1>3. \A i \in 1 .. Len(m) : i = 1 \/ i \in 2 .. Len(m)
    BY <1>1
  <1>4. Spelled(m) <=> \A i \in 2 .. Len(m) : m[i] \in Simple \/ (m[i] = "" /\ i = Len(m))
    BY DEF Spelled, Simple
  <1>5. Spelled(m) => Proper(m)
    BY <1>3, <1>4 DEF Proper
  <1> QED BY <1>2, <1>4, <1>5

\* The selector that is sent is that of the menu exactly when the type is known and the
\* selector is spelled out.
LEMMA SelectorText ==
    ASSUME NEW m \in Seq(Kind), Len(m) >= 2, m[1] \in Simple
    PROVE  ConstructPayloadFromPath(Unescaped(NormalizePath(NormalizePath(m)))) = Tail(m)
              <=> m[1] \in ItemType /\ Spelled(m)
  <1> DEFINE u == Unescaped(NormalizePath(NormalizePath(m)))
             c == ConstructPayloadFromPath(u)
  <1>1. Len(<<>>) = 0 /\ Len(m) \in Nat /\ m # <<>>
    <2>1. Len(m) \in Nat
      BY LenProperties
    <2>2. Len(<<>>) = 0
      OBVIOUS
    <2> QED BY <2>1, <2>2
  <1>2. ConstructPayloadFromPath(m) = IF m[1] \in ItemType THEN Tail(m) ELSE m
    BY <1>1 DEF ConstructPayloadFromPath, Rooted
  <1>3. Tail(m) # m /\ Tail(m) # <<>>
    <2>1. Len(Tail(m)) = Len(m) - 1
      BY <1>1, TailEntries
    <2>2. Len(m) - 1 # Len(m) /\ Len(m) - 1 # 0
      BY <1>1
    <2>3. Len(Tail(m)) # Len(m) /\ Len(Tail(m)) # Len(<<>>)
      BY <1>1, <2>1, <2>2
    <2> QED BY <2>3, Zenon
  <1>4. m \in Seq(Decoded) /\ Proper(m) => u = m
    BY <1>1, ProperReturns
  <1>5. u \in Seq(Decoded)
    BY PathsSettle, UnescapedType
  <1> HIDE DEF u
  <1>6. ASSUME m[1] \in ItemType, Spelled(m) PROVE c = Tail(m)
    <2>1. Proper(m)
      BY <1>1, <1>6, SpelledProper
    <2>2. m \in Seq(Decoded)
      <3>1. \A i \in 1 .. Len(m) : m[i] \in Decoded
        BY <2>1, SimpleKinds DEF Proper
      <3>2. m = [i \in 1 .. Len(m) |-> m[i]]
        BY LenProperties
      <3> QED BY <1>1, <3>1, <3>2
    <2> QED BY <1>2, <1>4, <1>6, <2>1, <2>2
  <1>7. ASSUME c = Tail(m) PROVE m[1] \in ItemType /\ Spelled(m)
    <2>1. (c = Tail(u) /\ u # <<>>) \/ c = u \/ c = <<"">>
      <3>1. Len(u) >= 2 => u # <<>>
        BY <1>1
      <3> QED BY <3>1 DEF ConstructPayloadFromPath, Rooted
    <2>2. Tail(m) \in Seq(Decoded)
      <3>1. u # <<>> => Tail(u) \in Seq(Decoded)
        BY <1>5, TailEntries
      <3>2. "" \in Decoded
        BY SimpleKinds
      <3>3. <<"">> \in Seq(Decoded)
        BY <3>2, ShortSequences
      <3> QED BY <1>5, <1>7, <2>1, <3>1, <3>3
    <2>3. m \in Seq(Decoded)
      <3>1. /\ Len(Tail(m)) = Len(m) - 1
            /\ \A i \in 1 .. Len(m) - 1 : Tail(m)[i] = m[i + 1]
        BY <1>1, TailEntries
      <3>2. \A i \in 1 .. Len(m) - 1 : m[i + 1] \in Decoded
        BY <2>2, <3>1, ElementOfSeq
      <3>3. \A i \in 1 .. Len(m) : i = 1 \/ (i - 1 \in 1 .. Len(m) - 1 /\ i - 1 + 1 = i)
        BY <1>1
      <3>4. \A i \in 1 .. Len(m) : m[i] \in Decoded
        <4> TAKE i \in 1 .. Len(m)
        <4>1. CASE i = 1
          BY <4>1, SimpleKinds
        <4>2. CASE i # 1
          BY <3>2, <3>3, <4>2
        <4> QED BY <4>1, <4>2
      <3>5. m = [i \in 1 .. Len(m) |-> m[i]]
        BY LenProperties
      <3> QED BY <1>1, <3>4, <3>5
    <2>4. u # <<>> /\ Proper(u)
      BY <1>1, <2>3, ProperComesOut DEF u
    <2>5. Proper(c)
      <3>1. u \in Seq(Kind)
        BY <1>5, SimpleKinds, SeqMonotonic
      <3>2. Proper(Tail(u))
        BY <2>4, <3>1, ProperTail
      <3> QED BY <2>1, <2>4, <3>2, ProperRoot
    <2>6. Spelled(m) /\ Proper(m)
      BY <1>1, <1>7, <2>5, SpelledProper
    <2>7. u = m
      BY <1>4, <2>3, <2>6
    <2> QED BY <1>2, <1>3, <1>7, <2>6, <2>7
  <1> QED BY <1>6, <1>7 DEF u

-----------------------------------------------------------------------------
(***************************************************************************)
(* Selectors are sent as the menu names them.                              *)
(***************************************************************************)

\* The tail of a path in front of which a segment was put
LEMMA TypeCutOff ==
    ASSUME NEW s \in Kind, NEW b \in Seq(Kind)
    PROVE  Tail(<<s>> \o b) = b
  <1> DEFINE a == <<s>>
  <1>1. a \in Seq(Kind) /\ Len(a) = 1
    BY OneSegment
  <1> HIDE DEF a
  <1>2. /\ a \o b \in Seq(Kind) /\ Len(a \o b) = 1 + Len(b) /\ Len(b) \in Nat
        /\ \A i \in 1 .. Len(b) : (a \o b)[i + 1] = b[i]
    <2>1. /\ a \o b \in Seq(Kind) /\ Len(a \o b) = Len(a) + Len(b)
          /\ \A i \in 1 .. Len(a) + Len(b) :
                (a \o b)[i] = IF i <= Len(a) THEN a[i] ELSE b[i - Len(a)]
      BY <1>1, ConcatProperties
    <2>2. Len(b) \in Nat
      BY LenProperties
    <2>3. \A i \in 1 .. Len(b) : i + 1 \in 1 .. 1 + Len(b) /\ ~(i + 1 <= 1) /\ i + 1 - 1 = i
      BY <2>2
    <2> QED BY <1>1, <2>1, <2>2, <2>3
  <1>3. a \o b # <<>>
    <2>1. Len(a \o b) # 0
      BY <1>2
    <2> QED BY <2>1, EmptySeq, LenProperties
  <1>4. /\ Tail(a \o b) \in Seq(Kind) /\ Len(Tail(a \o b)) = Len(a \o b) - 1
        /\ \A i \in 1 .. Len(a \o b) - 1 : Tail(a \o b)[i] = (a \o b)[i + 1]
    BY <1>2, <1>3, TailEntries
  <1>5. Len(Tail(a \o b)) = Len(b) /\ \A i \in 1 .. Len(b) : Tail(a \o b)[i] = b[i]
    BY <1>2, <1>4
  <1>6. Tail(a \o b) = b
    BY <1>4, <1>5, SeqEqual
  <1> QED BY <1>6 DEF a

\* The links of a menu
LEMMA MenuLinks ==
    ASSUME Inputs, via = "menu"
    PROVE  /\ link.scheme = "gopher" /\ link.query \in BOOLEAN
           /\ link.path \in Seq(Kind) /\ Len(link.path) >= 2 /\ link.path[1] \in Simple
           /\ target = NoTarget
           /\ link.path[1] = selector.type /\ link.query = selector.query
           /\ selector.rooted => Tail(link.path) = selector.path
  <1>1. selector \in Selector /\ link = MenuLink(selector)
    BY DEF Inputs
  <1> DEFINE type == selector.type
             p == selector.path
             q == selector.query
  <1>2. /\ type \in {"1", "+"} /\ p \in ShortPath /\ q \in BOOLEAN
        /\ link = Link("gopher", "default", <<type>> \o Rooted(p), q, Plain)
        /\ selector.rooted => p # <<>>
    BY <1>1 DEF MenuLink, Selector
  <1> HIDE DEF type, p, q
  <1>3. link.scheme = "gopher" /\ link.query = q /\ link.path = <<type>> \o Rooted(p)
    BY <1>2 DEF Link
  <1>4. target = NoTarget
    BY <1>3 DEF Inputs
  <1>5. type \in Simple /\ type \in Kind
    BY <1>2, Kinds DEF Simple
  <1>6. Rooted(p) \in Seq(Kind)
    BY <1>2, ShortPathType
  <1>7. Len(Rooted(p)) >= 1
    <2>1. Rooted(p) # <<>>
      BY DEF Rooted
    <2> QED BY <1>6, <2>1, EmptySeq, LenProperties
  <1>8. <<type>> \in Seq(Kind) /\ Len(<<type>>) = 1 /\ <<type>>[1] = type
    BY <1>5, OneSegment
  <1> DEFINE a == <<type>>
             b == Rooted(p)
  <1> HIDE DEF a, b
  <1>9. Len(a \o b) = Len(a) + Len(b) /\ (1 <= Len(a) => (a \o b)[1] = a[1])
    <2>1. a \in Seq(Kind) /\ b \in Seq(Kind) /\ Len(a) \in Nat
      BY <1>6, <1>8, LenProperties DEF a, b
    <2> QED BY <2>1, ConcatProperties
  <1>10. Len(a \o b) >= 2 /\ (a \o b)[1] = type /\ a \o b \in Seq(Kind)
    <2>1. Len(a) = 1 /\ a[1] = type /\ Len(b) \in Nat /\ Len(b) >= 1 /\ a \in Seq(Kind) /\ b \in Seq(Kind)
      BY <1>6, <1>7, <1>8, LenProperties DEF a, b
    <2> QED BY <1>9, <2>1, ConcatProperties
  <1>11. link.path = a \o b
    BY <1>3 DEF a, b
  <1>12. selector.rooted => b = p
    BY <1>2 DEF b, Rooted
  <1>13. Tail(a \o b) = b
    BY <1>5, <1>6, TypeCutOff DEF a, b
  <1> QED BY <1>2, <1>3, <1>4, <1>5, <1>10, <1>11, <1>12, <1>13 DEF type, p, q

\* A selector of which no part is cleaned away or decoded
Literal(p) ==
    \A i \in DOMAIN p :
       \/ p[i] \in {"1", "+", "a", "a b", "a!"}
       \/ p[i] = "" /\ i = Len(p)

\* What is left of a selector in its link, and what is asked of it there
LEMMA SelectorSpelled ==
    ASSUME NEW m \in Seq(Kind), Len(m) >= 2
    PROVE  Spelled(m) <=> Literal(Tail(m))
  <1>1. m # <<>> /\ Len(m) \in Nat
    <2>1. Len(<<>>) = 0 /\ Len(m) \in Nat
      BY LenProperties
    <2> QED BY <2>1
  <1>2. /\ Tail(m) \in Seq(Kind) /\ Len(Tail(m)) = Len(m) - 1
        /\ \A i \in 1 .. Len(m) - 1 : Tail(m)[i] = m[i + 1]
    BY <1>1, TailEntries
  <1>3. DOMAIN Tail(m) = 1 .. Len(m) - 1
    BY <1>2, LenProperties
  <1>4. ASSUME Spelled(m), NEW i \in 1 .. Len(m) - 1
        PROVE  \/ Tail(m)[i] \in {"1", "+", "a", "a b", "a!"}
               \/ Tail(m)[i] = "" /\ i = Len(m) - 1
    <2>1. i + 1 \in 2 .. Len(m) /\ (i + 1 = Len(m) => i = Len(m) - 1)
      BY <1>1
    <2> QED BY <1>2, <1>4, <2>1 DEF Spelled
  <1>5. ASSUME \A i \in 1 .. Len(m) - 1 :
                  \/ Tail(m)[i] \in {"1", "+", "a", "a b", "a!"}
                  \/ Tail(m)[i] = "" /\ i = Len(m) - 1,
               NEW i \in 2 .. Len(m)
        PROVE  m[i] \in {"1", "+", "a", "a b", "a!"} \/ (m[i] = "" /\ i = Len(m))
    <2>1. i - 1 \in 1 .. Len(m) - 1 /\ i - 1 + 1 = i /\ (i - 1 = Len(m) - 1 => i = Len(m))
      BY <1>1
    <2>2. Tail(m)[i - 1] = m[i]
      BY <1>2, <2>1
    <2> QED BY <1>5, <2>1, <2>2
  <1> QED BY <1>2, <1>3, <1>4, <1>5 DEF Spelled, Literal

\* A gopher server is asked for the selector of its menu exactly when getGopherPageLinks does
\* not change the selector, the selector survives two parses, and the type of the item is one
\* that is cut off (gopher/network.go, constructPayloadFromPath).
THEOREM SelectorsAreSent == Spec => SelectorIsSent
  <1> DEFINE Said == /\ selector.rooted /\ ~selector.blanks /\ ~selector.hash /\ ~selector.query
                     /\ selector.type \in ItemType
                     /\ \A i \in DOMAIN selector.path :
                           \/ selector.path[i] \in {"1", "+", "a", "a b", "a!"}
                           \/ selector.path[i] = "" /\ i = Len(selector.path)
             A == request' # request /\ via = "menu" => (Spells(request', selector) <=> Said)
  <1>1. TextInv /\ [Next]_vars => [A]_vars
    <2> SUFFICES ASSUME TextInv, [Next]_vars, request' # request, via = "menu"
                 PROVE  Spells(request', selector) <=>
                           /\ selector.rooted /\ ~selector.blanks /\ ~selector.hash
                           /\ ~selector.query /\ selector.type \in ItemType
                           /\ Literal(selector.path)
      BY DEF Literal
    <2> DEFINE t == ParseURL(ParseURL(job))
               c == ConstructPayloadFromPath(Unescaped(t.path))
    <2>1. /\ job \in marked /\ job \in Text /\ t \in Text
          /\ t.scheme = job.scheme /\ request' = Request(t)
      BY Requests
    <2>2. /\ link.scheme = "gopher" /\ link.query \in BOOLEAN
          /\ link.path \in Seq(Kind) /\ Len(link.path) >= 2 /\ link.path[1] \in Simple
          /\ target = NoTarget
          /\ link.path[1] = selector.type /\ link.query = selector.query
          /\ selector.rooted => Tail(link.path) = selector.path
      BY MenuLinks DEF TextInv
    <2>3. job = Row /\ Row.scheme = "gopher"
      BY <2>1, <2>2, RowFields DEF TextInv, RowsInv
    <2>4. t.path = LinkPath
      <3>1. t.path = ParseURL(job).path /\ ParseURL(job).path = NormalizePath(job.path)
        BY <2>1, RowFacts, ParseFields
      <3>2. job.path = LinkPath
        BY <2>3, RowFields DEF TextInv
      <3>3. Stable(LinkPath)
        BY <2>2, PathsSettle DEF LinkPath
      <3> QED BY <3>1, <3>2, <3>3 DEF Stable
    <2>5. c = Tail(link.path) <=> link.path[1] \in ItemType /\ Spelled(link.path)
      BY <2>2, <2>4, SelectorText DEF LinkPath
    <2> HIDE DEF t
    <2>6. request' = [t EXCEPT !.path = c, !.query = FALSE, !.fragment = Plain]
      BY <2>1, <2>3 DEF Request
    <2> HIDE DEF c
    <2>7. request'.path = c /\ request'.query = FALSE
      BY <2>1, <2>6 DEF Text
    <2>8. CASE ~selector.rooted
      BY <2>8 DEF Spells
    <2>9. CASE selector.rooted
      <3>1. Spelled(link.path) <=> Literal(selector.path)
        BY <2>2, <2>9, SelectorSpelled
      <3>2. request'.path = selector.path <=> selector.type \in ItemType /\ Spelled(link.path)
        BY <2>2, <2>5, <2>7, <2>9
      <3>3. request'.query = selector.query <=> ~selector.query
        BY <2>2, <2>7
      <3> QED BY <2>9, <3>1, <3>2, <3>3 DEF Spells
    <2> QED BY <2>8, <2>9
  <1>2. [][A]_vars => SelectorIsSent
    BY PTL DEF SelectorIsSent
  <1> HIDE DEF A
  <1> QED BY <1>1, <1>2, TextInvariance, PTL DEF Spec
=============================================================================
