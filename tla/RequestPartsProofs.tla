------------------------- MODULE RequestPartsProofs -------------------------
(***************************************************************************)
(* Whatever the hosts, their spellings and the length of redirect chains:  *)
(* keys stay home, and none is dropped in silence.  Whatever the routes,   *)
(* and however long the values that name an object: the path that is       *)
(* asked for is the one that was meant.  Whatever the values and the       *)
(* answers, of any number of layers: what is configured stays, and nothing *)
(* is lost between a configuration, the API and the state.                 *)
(***************************************************************************)
EXTENDS RequestParts, TLAPS, SequenceTheorems, WellFoundedInduction

(***************************************************************************)
(* Induction, by least elements                                            *)
(***************************************************************************)

LEMMA LeastElement ==
    ASSUME NEW T \in SUBSET Nat, NEW t \in T
    PROVE  \E n \in T : \A m \in T : n <= m
<1>1. PICK n \in T : \A m \in T : ~(<<m, n>> \in OpToRel(<, Nat))
  BY NatLessThanWellFounded, WFMin
<1>2. \A m \in T : ~(m < n)
  BY <1>1 DEF OpToRel
<1> QED
  BY <1>2

LEMMA NumbersByInduction ==
    ASSUME NEW T, 0 \in T, \A n \in Nat : n \in T => n + 1 \in T
    PROVE  Nat \subseteq T
<1> SUFFICES ASSUME NEW x \in Nat, x \notin T PROVE FALSE
  OBVIOUS
<1> DEFINE U == Nat \ T
<1>1. PICK n \in U : \A m \in U : n <= m
  BY LeastElement
<1>2. n # 0 /\ n \in Nat
  BY <1>1
<1>3. n - 1 \in Nat /\ n - 1 \notin U
  BY <1>1, <1>2
<1>4. n \in T
  BY <1>2, <1>3
<1> QED
  BY <1>4

LEMMA SequencesByInduction ==
    ASSUME NEW C, NEW T, <<>> \in T,
           \A s \in Seq(C), c \in C : s \in T => Append(s, c) \in T
    PROVE  Seq(C) \subseteq T
<1> DEFINE U == {n \in Nat : \A s \in Seq(C) : Len(s) = n => s \in T}
<1>1. 0 \in U
  BY EmptySeq
<1>2. ASSUME NEW n \in Nat, n \in U PROVE n + 1 \in U
  <2> SUFFICES ASSUME NEW s \in Seq(C), Len(s) = n + 1 PROVE s \in T
    BY <1>2
  <2>1. s # <<>>
    BY EmptySeq
  <2>2. PICK t \in Seq(C), c \in C : s = Append(t, c)
    BY <2>1, SequenceEmptyOrAppend
  <2>3. Len(t) = n
    BY <2>2, AppendProperties, LenProperties
  <2> QED
    BY <1>2, <2>2, <2>3
<1> HIDE DEF U
<1>3. Nat \subseteq U
  BY <1>1, <1>2, NumbersByInduction
<1> QED
  BY <1>3, LenProperties DEF U

\* f has the values of a recursion that begins with e and goes on with step, up to n.
Runs(f, S, n, e, step) == f \in [0..n -> S] /\ f[0] = e /\ \A k \in 1..n : f[k] = step[<<k, f[k - 1]>>]

LEMMA RunExists ==
    ASSUME NEW S, NEW e \in S, NEW N \in Nat, NEW step \in [(1..N) \X S -> S]
    PROVE  \E f : Runs(f, S, N, e, step)
<1> DEFINE U == {n \in Nat : n <= N => \E f : Runs(f, S, n, e, step)}
<1>1. 0 \in U
  <2> DEFINE f == [k \in 0..0 |-> e]
  <2>1. Runs(f, S, 0, e, step)
    BY DEF Runs
  <2> QED
    BY <2>1
<1>2. ASSUME NEW n \in Nat, n \in U PROVE n + 1 \in U
  <2> SUFFICES ASSUME n + 1 <= N PROVE \E f : Runs(f, S, n + 1, e, step)
    OBVIOUS
  <2>1. PICK f : Runs(f, S, n, e, step)
    BY <1>2
  <2> DEFINE g == [k \in 0..(n + 1) |-> IF k = n + 1 THEN step[<<n + 1, f[n]>>] ELSE f[k]]
  <2>2. step[<<n + 1, f[n]>>] \in S
    BY <2>1 DEF Runs
  <2>3. g \in [0..(n + 1) -> S] /\ g[0] = e /\ \A k \in 0..n : g[k] = f[k]
    BY <2>1, <2>2 DEF Runs
  <2>4. g[n + 1] = step[<<n + 1, g[n]>>]
    <3>1. n \in 0..n /\ n + 1 \in 0..(n + 1)
      OBVIOUS
    <3>2. g[n] = f[n]
      BY <2>3, <3>1
    <3>3. g[n + 1] = step[<<n + 1, f[n]>>]
      BY <3>1
    <3> QED
      BY <3>2, <3>3
  <2> HIDE DEF g
  <2>5. ASSUME NEW k \in 1..(n + 1) PROVE g[k] = step[<<k, g[k - 1]>>]
    <3>1. CASE k = n + 1
      BY <2>4, <3>1
    <3>2. CASE k # n + 1
      <4>1. k \in 1..n /\ k \in 0..n /\ k - 1 \in 0..n
        BY <3>2
      <4> QED
        BY <2>1, <2>3, <4>1 DEF Runs
    <3> QED
      BY <3>1, <3>2
  <2>6. Runs(g, S, n + 1, e, step)
    BY <2>3, <2>5 DEF Runs
  <2> QED
    BY <2>6
<1> HIDE DEF U
<1>3. N \in U
  BY <1>1, <1>2, NumbersByInduction
<1> QED
  BY <1>3 DEF U

StepsAgree(S, N, step, other) == \A k \in 1..N, s \in S : step[<<k, s>>] = other[<<k, s>>]

\* A longer recursion begins like a shorter one.
LEMMA RunsAgree ==
    ASSUME NEW S, NEW e, NEW N \in Nat, NEW M \in Nat, N <= M, NEW step, NEW other, StepsAgree(S, N, step, other),
           NEW f, Runs(f, S, N, e, step), NEW g, Runs(g, S, M, e, other)
    PROVE  \A n \in 0..N : f[n] = g[n]
<1> DEFINE U == {n \in Nat : n <= N => f[n] = g[n]}
<1>1. 0 \in U
  BY DEF Runs
<1>2. ASSUME NEW n \in Nat, n \in U PROVE n + 1 \in U
  <2> SUFFICES ASSUME n + 1 <= N PROVE f[n + 1] = g[n + 1]
    OBVIOUS
  <2>1. f[n] = g[n] /\ n + 1 \in 1..N /\ n + 1 \in 1..M /\ n \in 0..N /\ (n + 1) - 1 = n
    BY <1>2
  <2>2. f[n + 1] = step[<<n + 1, f[n]>>] /\ g[n + 1] = other[<<n + 1, g[n]>>] /\ f[n] \in S
    BY <2>1 DEF Runs, StepsAgree
  <2> QED
    BY <2>1, <2>2 DEF StepsAgree
<1> HIDE DEF U
<1>3. Nat \subseteq U
  BY <1>1, <1>2, NumbersByInduction
<1> QED
  BY <1>3 DEF U

(***************************************************************************)
(* Joined                                                                  *)
(***************************************************************************)

JoinStep(C, parts, separator) ==
    [x \in (1..Len(parts)) \X Seq(C) |-> x[2] \o (IF x[1] = 1 THEN <<>> ELSE separator) \o parts[x[1]]]

LEMMA JoinedRuns ==
    ASSUME NEW C, NEW parts \in Seq(Seq(C)), NEW separator \in Seq(C)
    PROVE  \E f : /\ Runs(f, Seq(C), Len(parts), <<>>, JoinStep(C, parts, separator))
                  /\ Joined(parts, separator) = f[Len(parts)]
<1> DEFINE N == Len(parts)
           P(g) == g = [n \in 0..N |->
                           IF n = 0 THEN <<>> ELSE g[n - 1] \o (IF n = 1 THEN <<>> ELSE separator) \o parts[n]]
           c == CHOOSE g : P(g)
<1>0. N \in Nat /\ <<>> \in Seq(C) /\ \A n \in 1..N : parts[n] \in Seq(C)
  BY LenProperties, ElementOfSeq, EmptySeq
<1>1. JoinStep(C, parts, separator) \in [(1..N) \X Seq(C) -> Seq(C)]
  <2>1. ASSUME NEW n \in 1..N, NEW s \in Seq(C)
        PROVE  s \o (IF n = 1 THEN <<>> ELSE separator) \o parts[n] \in Seq(C)
    <3>1. (IF n = 1 THEN <<>> ELSE separator) \in Seq(C)
      BY <1>0
    <3>2. s \o (IF n = 1 THEN <<>> ELSE separator) \in Seq(C)
      BY <3>1, ConcatProperties
    <3> QED
      BY <3>2, <1>0, ConcatProperties
  <2> QED
    BY <2>1 DEF JoinStep
<1>2. PICK f : Runs(f, Seq(C), N, <<>>, JoinStep(C, parts, separator))
  BY <1>0, <1>1, RunExists
<1>3. ASSUME NEW n \in 1..N PROVE f[n] = f[n - 1] \o (IF n = 1 THEN <<>> ELSE separator) \o parts[n]
  <2>1. f[n] = JoinStep(C, parts, separator)[<<n, f[n - 1]>>]
    BY <1>2 DEF Runs
  <2>2. n - 1 \in 0..N
    BY <1>0
  <2>3. f[n - 1] \in Seq(C)
    BY <1>2, <2>2 DEF Runs
  <2>4. <<n, f[n - 1]>> \in (1..N) \X Seq(C)
    BY <2>3
  <2> QED
    BY <2>1, <2>4 DEF JoinStep
<1>4. P(f)
  <2>1. f \in [0..N -> Seq(C)] /\ f[0] = <<>>
    BY <1>2 DEF Runs
  <2>2. ASSUME NEW n \in 0..N
        PROVE  f[n] = IF n = 0 THEN <<>> ELSE f[n - 1] \o (IF n = 1 THEN <<>> ELSE separator) \o parts[n]
    <3>1. n = 0 \/ n \in 1..N
      BY <1>0
    <3> QED
      BY <1>3, <2>1, <3>1
  <2> QED
    BY <2>1, <2>2
<1>5. P(c)
  <2>1. \E g : P(g)
    BY <1>4
  <2> HIDE DEF P
  <2> QED
    BY <2>1
<1>6. Joined(parts, separator) = c[N]
  BY DEF Joined
<1> HIDE DEF c
<1>7. c[N] = f[N]
  <2> DEFINE U == {n \in Nat : n <= N => c[n] = f[n]}
  <2>1. 0 \in U
    BY <1>0, <1>2, <1>5 DEF Runs
  <2>2. ASSUME NEW n \in Nat, n \in U PROVE n + 1 \in U
    <3> SUFFICES ASSUME n + 1 <= N PROVE c[n + 1] = f[n + 1]
      OBVIOUS
    <3>1. c[n] = f[n]
      BY <1>0, <2>2
    <3>2. n + 1 \in 1..N /\ n + 1 \in 0..N /\ (n + 1) - 1 = n /\ n + 1 # 0
      BY <1>0
    <3>3. c[n + 1] = c[n] \o (IF n + 1 = 1 THEN <<>> ELSE separator) \o parts[n + 1]
      BY <1>5, <3>2
    <3> QED
      BY <1>3, <3>1, <3>2, <3>3
  <2> HIDE DEF U
  <2>3. Nat \subseteq U
    BY <2>1, <2>2, NumbersByInduction
  <2> QED
    BY <1>0, <2>3 DEF U
<1> QED
  BY <1>2, <1>6, <1>7

LEMMA JoinedIsText ==
    ASSUME NEW C, NEW parts \in Seq(Seq(C)), NEW separator \in Seq(C)
    PROVE  Joined(parts, separator) \in Seq(C)
<1>1. Len(parts) \in Nat
  BY LenProperties
<1> QED
  BY <1>1, JoinedRuns DEF Runs

LEMMA JoinedOfNone ==
    ASSUME NEW C, NEW separator \in Seq(C)
    PROVE  Joined(<<>>, separator) = <<>>
<1>1. <<>> \in Seq(Seq(C)) /\ Len(<<>>) = 0
  BY EmptySeq
<1>2. PICK f : Runs(f, Seq(C), 0, <<>>, JoinStep(C, <<>>, separator)) /\ Joined(<<>>, separator) = f[0]
  BY <1>1, JoinedRuns
<1> QED
  BY <1>2 DEF Runs

\* What is put before a further part.
Between(parts, separator) == IF parts = <<>> THEN <<>> ELSE separator

LEMMA JoinedAppend ==
    ASSUME NEW C, NEW parts \in Seq(Seq(C)), NEW separator \in Seq(C), NEW p \in Seq(C)
    PROVE  Joined(Append(parts, p), separator) =
               Joined(parts, separator) \o Between(parts, separator) \o p
<1> DEFINE N == Len(parts)
           longer == Append(parts, p)
<1>1. /\ N \in Nat /\ longer \in Seq(Seq(C)) /\ Len(longer) = N + 1 /\ longer[N + 1] = p
      /\ \A k \in 1..N : longer[k] = parts[k]
  BY LenProperties, AppendProperties
<1>2. N + 1 = 1 <=> parts = <<>>
  BY <1>1, EmptySeq
<1> HIDE DEF longer
<1>3. PICK f : Runs(f, Seq(C), N, <<>>, JoinStep(C, parts, separator)) /\ Joined(parts, separator) = f[N]
  BY JoinedRuns
<1>4. PICK g : /\ Runs(g, Seq(C), N + 1, <<>>, JoinStep(C, longer, separator))
               /\ Joined(longer, separator) = g[N + 1]
  BY <1>1, JoinedRuns
<1>5. ASSUME NEW k \in 1..N, NEW s \in Seq(C)
      PROVE  JoinStep(C, parts, separator)[<<k, s>>] = JoinStep(C, longer, separator)[<<k, s>>]
  <2>1. <<k, s>> \in (1..N) \X Seq(C) /\ <<k, s>> \in (1..Len(longer)) \X Seq(C)
    BY <1>1
  <2> QED
    BY <1>1, <2>1 DEF JoinStep
<1>6. f[N] = g[N]
  <2>1. N + 1 \in Nat /\ N <= N + 1 /\ N \in 0..N
    BY <1>1
  <2>2. \A k \in 1..N, s \in Seq(C) : JoinStep(C, parts, separator)[<<k, s>>] = JoinStep(C, longer, separator)[<<k, s>>]
    BY <1>5
  <2> DEFINE short == JoinStep(C, parts, separator)
             long == JoinStep(C, longer, separator)
             S == Seq(C)
             M == N + 1
             none == <<>>
  <2>3. /\ Runs(f, S, N, none, short) /\ Runs(g, S, M, none, long) /\ N \in Nat /\ M \in Nat /\ N <= M
        /\ StepsAgree(S, N, short, long)
    BY <1>1, <1>3, <1>4, <2>1, <2>2 DEF StepsAgree
  <2> HIDE DEF short, long, S, M, N, none
  <2>4. \A n \in 0..N : f[n] = g[n]
    BY <2>3, RunsAgree
  <2> USE DEF N
  <2> QED
    BY <2>1, <2>4
<1>7. g[N + 1] = JoinStep(C, longer, separator)[<<N + 1, g[N]>>] /\ g[N] \in Seq(C)
  <2>1. N \in 0..(N + 1) /\ N + 1 \in 1..(N + 1) /\ (N + 1) - 1 = N
    BY <1>1
  <2> QED
    <3>1. g \in [0..(N + 1) -> Seq(C)]
      BY <1>4 DEF Runs
    <3>2. \A k \in 1..(N + 1) : g[k] = JoinStep(C, longer, separator)[<<k, g[k - 1]>>]
      BY <1>4 DEF Runs
    <3> QED
      BY <2>1, <3>1, <3>2
<1>8. g[N + 1] = g[N] \o (IF N + 1 = 1 THEN <<>> ELSE separator) \o p
  <2>1. <<N + 1, g[N]>> \in (1..Len(longer)) \X Seq(C)
    BY <1>1, <1>7
  <2> QED
    BY <1>1, <1>7, <2>1 DEF JoinStep
<1> QED
  BY <1>2, <1>3, <1>4, <1>6, <1>8 DEF longer, Between


(***************************************************************************)
(* Split                                                                   *)
(***************************************************************************)

SomeParts(C) == Seq(Seq(C)) \ {<<>>}

\* One more character of a text.
Extended(parts, c) ==
    IF c = Slash THEN Append(parts, <<>>) ELSE [parts EXCEPT ![Len(parts)] = Append(@, c)]

SplitStep(C, text) == [x \in (1..Len(text)) \X SomeParts(C) |-> Extended(x[2], text[x[1]])]

LEMMA ExtendedIsParts ==
    ASSUME NEW C, NEW parts \in SomeParts(C), NEW c \in C
    PROVE  Extended(parts, c) \in SomeParts(C)
<1>1. parts \in Seq(Seq(C)) /\ Len(parts) \in Nat \ {0} /\ <<>> \in Seq(C)
  BY EmptySeq DEF SomeParts
<1>2. Append(parts, <<>>) \in SomeParts(C)
  BY <1>1, AppendProperties DEF SomeParts
<1>3. [parts EXCEPT ![Len(parts)] = Append(@, c)] \in SomeParts(C)
  <2>1. Len(parts) \in 1..Len(parts)
    BY <1>1
  <2>2. Append(parts[Len(parts)], c) \in Seq(C)
    BY <1>1, <2>1, ElementOfSeq, AppendProperties
  <2>3. /\ [parts EXCEPT ![Len(parts)] = Append(parts[Len(parts)], c)] \in Seq(Seq(C))
        /\ Len([parts EXCEPT ![Len(parts)] = Append(parts[Len(parts)], c)]) = Len(parts)
    BY <1>1, <2>1, <2>2, ExceptSeq
  <2>4. [parts EXCEPT ![Len(parts)] = Append(parts[Len(parts)], c)] # <<>>
    BY <1>1, <2>3, EmptySeq
  <2> QED
    BY <2>3, <2>4 DEF SomeParts
<1> QED
  BY <1>2, <1>3 DEF Extended

LEMMA NoPartIsParts == ASSUME NEW C PROVE << <<>> >> \in SomeParts(C)
<1>1. <<>> \in Seq(C) /\ <<>> \in Seq(Seq(C))
  BY EmptySeq
<1>2. Append(<<>>, <<>>) \in SomeParts(C)
  BY <1>1, AppendProperties DEF SomeParts
<1>3. Append(<<>>, <<>>) = << <<>> >>
  OBVIOUS
<1> QED
  BY <1>2, <1>3

LEMMA SplitRuns ==
    ASSUME NEW C, NEW text \in Seq(C)
    PROVE  \E f : /\ Runs(f, SomeParts(C), Len(text), << <<>> >>, SplitStep(C, text))
                  /\ Split(text) = f[Len(text)]
<1> DEFINE N == Len(text)
           none == << <<>> >>
           P(g) == g = [n \in 0..N |->
                           IF n = 0 THEN << <<>> >>
                           ELSE LET parts == g[n - 1] IN
                                IF text[n] = Slash THEN Append(parts, <<>>)
                                ELSE [parts EXCEPT ![Len(parts)] = Append(@, text[n])]]
           c == CHOOSE g : P(g)
<1>0. N \in Nat /\ none \in SomeParts(C) /\ \A n \in 1..N : text[n] \in C
  BY LenProperties, ElementOfSeq, NoPartIsParts
<1>1. SplitStep(C, text) \in [(1..N) \X SomeParts(C) -> SomeParts(C)]
  BY <1>0, ExtendedIsParts DEF SplitStep
<1>2. PICK f : Runs(f, SomeParts(C), N, none, SplitStep(C, text))
  <2> HIDE DEF none, N
  <2> QED
    BY <1>0, <1>1, RunExists
<1>3. ASSUME NEW n \in 1..N PROVE f[n] = Extended(f[n - 1], text[n])
  <2>1. f[n] = SplitStep(C, text)[<<n, f[n - 1]>>]
    BY <1>2 DEF Runs
  <2>2. n - 1 \in 0..N
    BY <1>0
  <2>3. f[n - 1] \in SomeParts(C)
    BY <1>2, <2>2 DEF Runs
  <2>4. <<n, f[n - 1]>> \in (1..N) \X SomeParts(C)
    BY <2>3
  <2> QED
    BY <2>1, <2>4 DEF SplitStep
<1>4. P(f)
  <2>1. f \in [0..N -> SomeParts(C)] /\ f[0] = << <<>> >>
    BY <1>2 DEF Runs
  <2>2. ASSUME NEW n \in 0..N PROVE f[n] = IF n = 0 THEN << <<>> >> ELSE Extended(f[n - 1], text[n])
    <3>1. n = 0 \/ n \in 1..N
      BY <1>0
    <3> QED
      BY <1>3, <2>1, <3>1
  <2>3. f = [n \in 0..N |-> IF n = 0 THEN << <<>> >> ELSE Extended(f[n - 1], text[n])]
    BY <2>1, <2>2
  <2> QED
    BY <2>3 DEF Extended
<1>5. P(c)
  <2>1. \E g : P(g)
    BY <1>4
  <2> HIDE DEF P
  <2> QED
    BY <2>1
<1>6. Split(text) = c[N]
  BY DEF Split
<1> HIDE DEF c
<1>7. c = [n \in 0..N |-> IF n = 0 THEN << <<>> >> ELSE Extended(c[n - 1], text[n])]
  BY <1>5 DEF Extended
<1> HIDE DEF P
<1>8. c[N] = f[N]
  <2> DEFINE U == {n \in Nat : n <= N => c[n] = f[n]}
  <2>1. 0 \in U
    BY <1>0, <1>2, <1>7 DEF Runs
  <2>2. ASSUME NEW n \in Nat, n \in U PROVE n + 1 \in U
    <3> SUFFICES ASSUME n + 1 <= N PROVE c[n + 1] = f[n + 1]
      OBVIOUS
    <3>1. c[n] = f[n]
      BY <1>0, <2>2
    <3>2. n + 1 \in 1..N /\ n + 1 \in 0..N /\ (n + 1) - 1 = n /\ n + 1 # 0
      BY <1>0
    <3>3. c[n + 1] = Extended(c[n], text[n + 1])
      BY <1>7, <3>2
    <3> QED
      BY <1>3, <3>1, <3>2, <3>3
  <2> HIDE DEF U
  <2>3. Nat \subseteq U
    BY <2>1, <2>2, NumbersByInduction
  <2> QED
    BY <1>0, <2>3 DEF U
<1> QED
  BY <1>2, <1>6, <1>8

LEMMA SplitIsParts ==
    ASSUME NEW C, NEW text \in Seq(C)
    PROVE  Split(text) \in SomeParts(C)
<1>1. Len(text) \in Nat
  BY LenProperties
<1> QED
  BY <1>1, SplitRuns DEF Runs

LEMMA SplitOfNone == Split(<<>>) = << <<>> >>
<1>1. <<>> \in Seq({}) /\ Len(<<>>) = 0
  BY EmptySeq
<1>2. PICK f : Runs(f, SomeParts({}), 0, << <<>> >>, SplitStep({}, <<>>)) /\ Split(<<>>) = f[0]
  BY <1>1, SplitRuns
<1> QED
  BY <1>2 DEF Runs

LEMMA SplitAppend ==
    ASSUME NEW C, NEW text \in Seq(C), NEW c \in C
    PROVE  Split(Append(text, c)) = Extended(Split(text), c)
<1> DEFINE N == Len(text)
           longer == Append(text, c)
<1>1. /\ N \in Nat /\ longer \in Seq(C) /\ Len(longer) = N + 1 /\ longer[N + 1] = c
      /\ \A k \in 1..N : longer[k] = text[k]
  BY LenProperties, AppendProperties
<1> HIDE DEF longer
<1>2. PICK f : Runs(f, SomeParts(C), N, << <<>> >>, SplitStep(C, text)) /\ Split(text) = f[N]
  BY SplitRuns
<1>3. PICK g : Runs(g, SomeParts(C), N + 1, << <<>> >>, SplitStep(C, longer)) /\ Split(longer) = g[N + 1]
  BY <1>1, SplitRuns
<1>4. ASSUME NEW k \in 1..N, NEW s \in SomeParts(C) PROVE SplitStep(C, text)[<<k, s>>] = SplitStep(C, longer)[<<k, s>>]
  <2>1. <<k, s>> \in (1..N) \X SomeParts(C) /\ <<k, s>> \in (1..Len(longer)) \X SomeParts(C)
    BY <1>1
  <2> QED
    BY <1>1, <2>1 DEF SplitStep
<1>5. f[N] = g[N]
  <2> DEFINE short == SplitStep(C, text)
             long == SplitStep(C, longer)
             S == SomeParts(C)
             M == N + 1
             none == << <<>> >>
  <2>1. /\ Runs(f, S, N, none, short) /\ Runs(g, S, M, none, long) /\ N \in Nat /\ M \in Nat /\ N <= M
        /\ StepsAgree(S, N, short, long)
    BY <1>1, <1>2, <1>3, <1>4 DEF StepsAgree
  <2> HIDE DEF short, long, S, M, N, none
  <2>2. \A n \in 0..N : f[n] = g[n]
    BY <2>1, RunsAgree
  <2> USE DEF N
  <2>3. N \in 0..N
    BY <1>1
  <2> QED
    BY <2>2, <2>3
<1>6. g[N + 1] = SplitStep(C, longer)[<<N + 1, g[N]>>] /\ g[N] \in SomeParts(C)
  <2>1. N \in 0..(N + 1) /\ N + 1 \in 1..(N + 1) /\ (N + 1) - 1 = N
    BY <1>1
  <2>2. g \in [0..(N + 1) -> SomeParts(C)] /\ \A k \in 1..(N + 1) : g[k] = SplitStep(C, longer)[<<k, g[k - 1]>>]
    BY <1>3 DEF Runs
  <2> QED
    BY <2>1, <2>2
<1>7. g[N + 1] = Extended(g[N], c)
  <2>1. <<N + 1, g[N]>> \in (1..Len(longer)) \X SomeParts(C)
    BY <1>1, <1>6
  <2> QED
    BY <1>1, <1>6, <2>1 DEF SplitStep
<1> QED
  BY <1>2, <1>3, <1>5, <1>7 DEF longer


(***************************************************************************)
(* Splitting what was joined                                               *)
(***************************************************************************)

Unsplit(text) == \A i \in DOMAIN text : text[i] # Slash

LEMMA ConcatAppend ==
    ASSUME NEW C, NEW s \in Seq(C), NEW t \in Seq(C), NEW c \in C
    PROVE  s \o Append(t, c) = Append(s \o t, c)
<1>1. /\ Append(t, c) = t \o <<c>> /\ s \o t \in Seq(C)
      /\ Append(s \o t, c) = (s \o t) \o <<c>>
  BY ConcatProperties, AppendIsConcat
<1>2. <<c>> \in Seq(C)
  OBVIOUS
<1> QED
  BY <1>1, <1>2, ConcatAssociative

LEMMA UnsplitAppend ==
    ASSUME NEW C, NEW t \in Seq(C), NEW c \in C
    PROVE  Unsplit(Append(t, c)) <=> Unsplit(t) /\ c # Slash
<1>1. /\ Append(t, c) \in Seq(C) /\ Len(t) \in Nat /\ Len(Append(t, c)) = Len(t) + 1
      /\ \A i \in 1..Len(t) : Append(t, c)[i] = t[i]
      /\ Append(t, c)[Len(t) + 1] = c
      /\ DOMAIN t = 1..Len(t) /\ DOMAIN Append(t, c) = 1..Len(Append(t, c))
  BY AppendProperties, LenProperties
<1> HIDE DEF Unsplit
<1>2. DOMAIN Append(t, c) = DOMAIN t \cup {Len(t) + 1}
  BY <1>1
<1> QED
  BY <1>1, <1>2 DEF Unsplit

\* The last part with what goes to it.
Continued(parts, p) == [parts EXCEPT ![Len(parts)] = @ \o p]

\* What has no slash goes to the last part.
LEMMA SplitOfMore ==
    ASSUME NEW C, NEW t \in Seq(C)
    PROVE  \A p \in Seq(C) : Unsplit(p) => Split(t \o p) = Continued(Split(t), p)
<1> DEFINE parts == Split(t)
           T == {p \in Seq(C) : Unsplit(p) => Split(t \o p) = [parts EXCEPT ![Len(parts)] = @ \o p]}
<1>1. parts \in Seq(Seq(C)) /\ Len(parts) \in 1..Len(parts) /\ parts[Len(parts)] \in Seq(C)
  <2>1. parts \in Seq(Seq(C)) /\ parts # <<>>
    BY SplitIsParts DEF SomeParts
  <2>2. Len(parts) \in 1..Len(parts)
    BY <2>1, EmptySeq
  <2> HIDE DEF parts
  <2> QED
    BY <2>1, <2>2, ElementOfSeq
<1> HIDE DEF parts
<1>2. <<>> \in T
  <2>1. t \o <<>> = t /\ parts[Len(parts)] \o <<>> = parts[Len(parts)] /\ <<>> \in Seq(C)
    BY <1>1, ConcatEmptySeq, EmptySeq
  <2>2. [parts EXCEPT ![Len(parts)] = parts[Len(parts)]] = parts
    BY <1>1
  <2> QED
    BY <2>1, <2>2 DEF parts
<1>3. ASSUME NEW p \in Seq(C), NEW c \in C, p \in T PROVE Append(p, c) \in T
  <2> SUFFICES ASSUME Unsplit(Append(p, c))
               PROVE  Split(t \o Append(p, c)) = [parts EXCEPT ![Len(parts)] = @ \o Append(p, c)]
    BY AppendProperties
  <2>1. Unsplit(p) /\ c # Slash
    BY UnsplitAppend
  <2> DEFINE before == [parts EXCEPT ![Len(parts)] = @ \o p]
  <2>2. Split(t \o p) = before
    BY <1>3, <2>1
  <2>3. t \o p \in Seq(C) /\ t \o Append(p, c) = Append(t \o p, c)
    BY ConcatProperties, ConcatAppend
  <2>4. Split(t \o Append(p, c)) = Extended(before, c)
    BY <2>2, <2>3, SplitAppend
  <2>5. Extended(before, c) = [before EXCEPT ![Len(before)] = Append(@, c)]
    BY <2>1 DEF Extended
  <2>6. parts[Len(parts)] \o p \in Seq(C)
    BY <1>1, ConcatProperties
  <2>7. Len(before) = Len(parts) /\ before[Len(parts)] = parts[Len(parts)] \o p
    BY <1>1, <2>6, ExceptSeq
  <2>8. Append(parts[Len(parts)] \o p, c) = parts[Len(parts)] \o Append(p, c)
    <3> DEFINE last == parts[Len(parts)]
    <3>1. last \in Seq(C)
      BY <1>1
    <3> HIDE DEF last
    <3>2. last \o Append(p, c) = Append(last \o p, c)
      BY <3>1, ConcatAppend
    <3> QED
      BY <3>2 DEF last
  <2>9. [before EXCEPT ![Len(parts)] = parts[Len(parts)] \o Append(p, c)]
            = [parts EXCEPT ![Len(parts)] = parts[Len(parts)] \o Append(p, c)]
    BY <1>1
  <2> QED
    BY <2>4, <2>5, <2>7, <2>8, <2>9
<1> HIDE DEF T
<1>4. Seq(C) \subseteq T
  BY <1>2, <1>3, SequencesByInduction
<1> QED
  BY <1>4 DEF T, parts, Continued

\* What has none follows a slash as a part of its own.
LEMMA SplitOfNextPart ==
    ASSUME NEW C, Slash \in C, NEW t \in Seq(C), NEW p \in Seq(C), Unsplit(p)
    PROVE  Split(t \o <<Slash>> \o p) = Append(Split(t), p)
<1> DEFINE parts == Split(t)
           more == Append(parts, <<>>)
<1>1. parts \in Seq(Seq(C)) /\ <<>> \in Seq(C)
  BY SplitIsParts, EmptySeq DEF SomeParts
<1>2. t \o <<Slash>> = Append(t, Slash) /\ Append(t, Slash) \in Seq(C)
  BY AppendIsConcat, AppendProperties
<1>3. Split(t \o <<Slash>>) = more
  BY <1>2, SplitAppend DEF Extended
<1> HIDE DEF parts
<1>4. /\ more \in Seq(Seq(C)) /\ Len(more) = Len(parts) + 1 /\ Len(parts) \in Nat
      /\ more[Len(parts) + 1] = <<>> /\ \A i \in 1..Len(parts) : more[i] = parts[i]
  <2> DEFINE S == Seq(C)
             none == <<>>
  <2>1. parts \in Seq(S) /\ none \in S /\ more = Append(parts, none)
    BY <1>1
  <2> HIDE DEF S, none, more
  <2>2. /\ more \in Seq(S) /\ Len(more) = Len(parts) + 1 /\ Len(parts) \in Nat
        /\ more[Len(parts) + 1] = none /\ \A i \in 1..Len(parts) : more[i] = parts[i]
    BY <2>1, AppendProperties, LenProperties
  <2> QED
    BY <2>2 DEF S, none
<1>5. Split(t \o <<Slash>> \o p) = [more EXCEPT ![Len(more)] = @ \o p]
  <2> DEFINE begun == t \o <<Slash>>
  <2>1. begun \in Seq(C) /\ Split(begun) = more
    BY <1>2, <1>3
  <2> HIDE DEF begun, more
  <2>2. Split(begun \o p) = Continued(Split(begun), p)
    BY <2>1, SplitOfMore
  <2> QED
    BY <2>1, <2>2 DEF begun, Continued
<1>6. <<>> \o p = p
  BY ConcatEmptySeq
<1>7. [more EXCEPT ![Len(parts) + 1] = p] = Append(parts, p)
  <2> DEFINE S == Seq(C)
             n == Len(parts) + 1
             changed == [more EXCEPT ![n] = p]
             whole == Append(parts, p)
  <2> HIDE DEF more
  <2>1. more \in Seq(S) /\ parts \in Seq(S) /\ p \in S /\ n \in 1..Len(more) /\ Len(parts) \in Nat
    BY <1>1, <1>4
  <2>2. /\ changed \in Seq(S) /\ Len(changed) = Len(more)
        /\ \A i \in 1..Len(more) : changed[i] = IF i = n THEN p ELSE more[i]
    <3> HIDE DEF S, n
    <3> QED
      BY <2>1, ExceptSeq
  <2>3. /\ whole \in Seq(S) /\ Len(whole) = Len(parts) + 1 /\ whole[Len(parts) + 1] = p
        /\ \A i \in 1..Len(parts) : whole[i] = parts[i]
    <3> HIDE DEF S
    <3> QED
      BY <2>1, AppendProperties
  <2> HIDE DEF changed, whole
  <2>4. ASSUME NEW i \in 1..Len(changed) PROVE changed[i] = whole[i]
    <3>1. i \in 1..Len(more) /\ Len(more) = Len(parts) + 1
      BY <1>4, <2>2
    <3>2. CASE i = n
      BY <2>2, <2>3, <3>1, <3>2
    <3>3. CASE i # n
      <4>1. i \in 1..Len(parts)
        BY <2>1, <3>1, <3>3
      <4> QED
        BY <1>4, <2>2, <2>3, <3>1, <3>3, <4>1
    <3> QED
      BY <3>2, <3>3
  <2>5. Len(changed) = Len(whole)
    BY <1>4, <2>2, <2>3
  <2>6. changed = whole
    <3> HIDE DEF S, n
    <3> QED
      BY <2>2, <2>3, <2>4, <2>5, SeqEqual
  <2> QED
    BY <2>6 DEF changed, whole
<1> HIDE DEF more
<1> QED
  BY <1>4, <1>5, <1>6, <1>7 DEF parts

LEMMA JoinAppend ==
    ASSUME NEW C, Slash \in C, NEW parts \in Seq(Seq(C)), NEW p \in Seq(C)
    PROVE  /\ Join(Append(parts, p)) = IF parts = <<>> THEN p ELSE Join(parts) \o <<Slash>> \o p
           /\ Join(parts) \in Seq(C)
<1>1. <<Slash>> \in Seq(C)
  OBVIOUS
<1>2. Join(parts) \in Seq(C)
  BY <1>1, JoinedIsText DEF Join
<1>3. Join(Append(parts, p)) = Join(parts) \o (IF parts = <<>> THEN <<>> ELSE <<Slash>>) \o p
  <2> DEFINE separator == <<Slash>>
  <2>1. separator \in Seq(C)
    BY <1>1
  <2> HIDE DEF separator
  <2>2. Joined(Append(parts, p), separator) = Joined(parts, separator) \o Between(parts, separator) \o p
    BY <2>1, JoinedAppend
  <2> QED
    BY <2>2 DEF separator, Join, Between
<1>4. ASSUME parts = <<>> PROVE Join(parts) \o <<>> \o p = p
  <2>1. Join(parts) = <<>>
    BY <1>1, <1>4, JoinedOfNone DEF Join
  <2> QED
    BY <2>1, ConcatEmptySeq, EmptySeq
<1> QED
  BY <1>2, <1>3, <1>4

LEMMA PartsAppend ==
    ASSUME NEW D, NEW parts \in Seq(D), NEW p \in D
    PROVE  /\ DOMAIN Append(parts, p) = DOMAIN parts \cup {Len(parts) + 1}
           /\ Len(parts) + 1 \notin DOMAIN parts
           /\ Append(parts, p)[Len(parts) + 1] = p
           /\ \A k \in DOMAIN parts : Append(parts, p)[k] = parts[k]
<1>1. /\ Append(parts, p) \in Seq(D) /\ Len(parts) \in Nat /\ Len(Append(parts, p)) = Len(parts) + 1
      /\ \A i \in 1..Len(parts) : Append(parts, p)[i] = parts[i]
      /\ Append(parts, p)[Len(parts) + 1] = p
      /\ DOMAIN parts = 1..Len(parts) /\ DOMAIN Append(parts, p) = 1..Len(Append(parts, p))
  BY AppendProperties, LenProperties
<1> QED
  BY <1>1

\* Split undoes Join for parts without slashes.
LEMMA SplitOfJoin ==
    ASSUME NEW C, Slash \in C
    PROVE  \A parts \in SomeParts(C) : (\A k \in DOMAIN parts : Unsplit(parts[k])) => Split(Join(parts)) = parts
<1> DEFINE T == {parts \in Seq(Seq(C)) :
                    parts # <<>> /\ (\A k \in DOMAIN parts : Unsplit(parts[k])) => Split(Join(parts)) = parts}
<1>1. <<>> \in T
  BY EmptySeq
<1>2. ASSUME NEW parts \in Seq(Seq(C)), NEW p \in Seq(C), parts \in T PROVE Append(parts, p) \in T
  <2> SUFFICES ASSUME \A k \in DOMAIN Append(parts, p) : Unsplit(Append(parts, p)[k])
               PROVE  Split(Join(Append(parts, p))) = Append(parts, p)
    BY AppendProperties
  <2>1. Unsplit(p) /\ \A k \in DOMAIN parts : Unsplit(parts[k])
    BY PartsAppend
  <2>2. CASE parts = <<>>
    <3>1. Join(Append(parts, p)) = p
      BY <2>2, JoinAppend
    <3>2. <<>> \in Seq(C) /\ <<>> \o p = p
      BY EmptySeq, ConcatEmptySeq
    <3> DEFINE none == <<>>
    <3>3. Split(none \o p) = Continued(Split(none), p)
      <4>1. none \in Seq(C)
        BY <3>2
      <4> HIDE DEF none
      <4> QED
        BY <2>1, <4>1, SplitOfMore
    <3>4. Split(p) = [<< <<>> >> EXCEPT ![1] = p]
      <4>1. Split(p) = [<< <<>> >> EXCEPT ![Len(<< <<>> >>)] = @ \o p]
        BY <3>2, <3>3, SplitOfNone DEF Continued
      <4>2. Len(<< <<>> >>) = 1 /\ << <<>> >>[1] = <<>>
        OBVIOUS
      <4> QED
        BY <3>2, <4>1, <4>2
    <3>5. [<< <<>> >> EXCEPT ![1] = p] = <<p>> /\ Append(parts, p) = <<p>>
      BY <2>2
    <3> QED
      BY <3>1, <3>2, <3>4, <3>5
  <2>3. CASE parts # <<>>
    <3>1. Split(Join(parts)) = parts
      BY <1>2, <2>1, <2>3
    <3>2. Join(parts) \in Seq(C) /\ Join(Append(parts, p)) = Join(parts) \o <<Slash>> \o p
      BY <2>3, JoinAppend
    <3> QED
      BY <2>1, <3>1, <3>2, SplitOfNextPart
  <2> QED
    BY <2>2, <2>3
<1> HIDE DEF T
<1>3. Seq(Seq(C)) \subseteq T
  BY <1>1, <1>2, SequencesByInduction
<1> QED
  BY <1>3 DEF T, SomeParts

\* Text that is added adds a part for every slash.
LEMMA SplitCounts ==
    ASSUME NEW C, NEW t \in Seq(C)
    PROVE  \A p \in Seq(C) : /\ Len(Split(t \o p)) >= Len(Split(t))
                             /\ Len(Split(t \o p)) = Len(Split(t)) => Unsplit(p)
<1> DEFINE T == {p \in Seq(C) : /\ Len(Split(t \o p)) >= Len(Split(t))
                                /\ Len(Split(t \o p)) = Len(Split(t)) => Unsplit(p)}
<1>0. \A s \in Seq(C) : Len(Split(s)) \in Nat
  BY SplitIsParts, LenProperties DEF SomeParts
<1>1. <<>> \in T
  <2>1. t \o <<>> = t /\ <<>> \in Seq(C) /\ Unsplit(<<>>)
    BY ConcatEmptySeq, EmptySeq DEF Unsplit
  <2> QED
    BY <1>0, <2>1
<1>2. ASSUME NEW p \in Seq(C), NEW c \in C, p \in T PROVE Append(p, c) \in T
  <2>1. t \o p \in Seq(C) /\ t \o Append(p, c) = Append(t \o p, c) /\ Append(p, c) \in Seq(C)
    BY ConcatProperties, ConcatAppend, AppendProperties
  <2> DEFINE parts == Split(t \o p)
             longer == Split(t \o Append(p, c))
  <2>2. longer = Extended(parts, c)
    BY <2>1, SplitAppend
  <2>3. parts \in Seq(Seq(C)) /\ parts # <<>> /\ <<>> \in Seq(C)
    BY <2>1, SplitIsParts, EmptySeq DEF SomeParts
  <2>4. Len(t) \in Nat /\ Len(parts) \in Nat /\ Len(Split(t)) \in Nat
    BY <1>0, <2>1, LenProperties
  <2>5. Len(parts) >= Len(Split(t)) /\ (Len(parts) = Len(Split(t)) => Unsplit(p))
    BY <1>2
  <2>6. Unsplit(Append(p, c)) <=> Unsplit(p) /\ c # Slash
    BY UnsplitAppend
  <2> HIDE DEF parts, longer
  <2>7. CASE c = Slash
    <3>1. Len(longer) = Len(parts) + 1
      BY <2>2, <2>3, <2>7, AppendProperties DEF Extended
    <3>2. Len(longer) >= Len(Split(t)) /\ Len(longer) # Len(Split(t))
      BY <2>4, <2>5, <3>1
    <3> QED
      BY <2>1, <3>2 DEF longer
  <2>8. CASE c # Slash
    <3>1. Len(parts) \in 1..Len(parts)
      BY <2>3, EmptySeq
    <3>2. Append(parts[Len(parts)], c) \in Seq(C)
      BY <2>3, <3>1, ElementOfSeq, AppendProperties
    <3>3. Len(longer) = Len(parts)
      BY <2>2, <2>3, <2>8, <3>1, <3>2, ExceptSeq DEF Extended
    <3> QED
      BY <2>1, <2>4, <2>5, <2>6, <2>8, <3>3 DEF longer
  <2> QED
    BY <2>7, <2>8
<1> HIDE DEF T
<1>3. Seq(C) \subseteq T
  BY <1>1, <1>2, SequencesByInduction
<1> QED
  BY <1>3 DEF T

\* Joined parts fall into at least as many, and into more if one of them has a slash.
LEMMA JoinCounts ==
    ASSUME NEW C, Slash \in C
    PROVE  \A parts \in SomeParts(C) :
               /\ Len(Split(Join(parts))) >= Len(parts)
               /\ Len(Split(Join(parts))) = Len(parts) => \A k \in DOMAIN parts : Unsplit(parts[k])
<1> DEFINE T == {parts \in Seq(Seq(C)) : parts # <<>> =>
                    /\ Len(Split(Join(parts))) >= Len(parts)
                    /\ Len(Split(Join(parts))) = Len(parts) => \A k \in DOMAIN parts : Unsplit(parts[k])}
<1>0. \A s \in Seq(C) : Len(Split(s)) \in Nat
  BY SplitIsParts, LenProperties DEF SomeParts
<1>1. <<>> \in T
  BY EmptySeq
<1>2. ASSUME NEW parts \in Seq(Seq(C)), NEW p \in Seq(C), parts \in T PROVE Append(parts, p) \in T
  <2>0. /\ Append(parts, p) \in Seq(Seq(C)) /\ Len(Append(parts, p)) = Len(parts) + 1 /\ Len(parts) \in Nat
        /\ Join(parts) \in Seq(C)
    BY AppendProperties, LenProperties, JoinAppend
  <2>1. (\A k \in DOMAIN Append(parts, p) : Unsplit(Append(parts, p)[k]))
            <=> Unsplit(p) /\ \A k \in DOMAIN parts : Unsplit(parts[k])
    BY PartsAppend
  <2>2. CASE parts = <<>>
    <3>1. Join(Append(parts, p)) = p
      BY <2>2, JoinAppend
    <3>4. Len(parts) = 0 /\ \A k \in DOMAIN parts : Unsplit(parts[k])
      BY <2>2, EmptySeq
    <3>2. <<>> \in Seq(C) /\ <<>> \o p = p /\ Len(Split(<<>>)) = 1
      BY EmptySeq, ConcatEmptySeq, SplitOfNone
    <3>3. Len(Split(p)) >= 1 /\ (Len(Split(p)) = 1 => Unsplit(p))
      BY <3>2, SplitCounts
    <3> QED
      BY <2>0, <2>1, <3>1, <3>3, <3>4
  <2>3. CASE parts # <<>>
    <3> DEFINE begun == Join(parts) \o <<Slash>>
    <3>1. Join(Append(parts, p)) = begun \o p
      BY <2>3, JoinAppend
    <3>2. begun = Append(Join(parts), Slash) /\ begun \in Seq(C)
      BY <2>0, AppendIsConcat, AppendProperties
    <3>3. Split(begun) = Append(Split(Join(parts)), <<>>)
      BY <2>0, <3>2, SplitAppend DEF Extended
    <3> HIDE DEF begun
    <3>4. Len(Split(begun)) = Len(Split(Join(parts))) + 1
      BY <2>0, <3>3, SplitIsParts, EmptySeq, AppendProperties DEF SomeParts
    <3>5. Len(Split(begun \o p)) >= Len(Split(begun)) /\ (Len(Split(begun \o p)) = Len(Split(begun)) => Unsplit(p))
      BY <3>2, SplitCounts
    <3>6. /\ Len(Split(Join(parts))) >= Len(parts)
          /\ Len(Split(Join(parts))) = Len(parts) => \A k \in DOMAIN parts : Unsplit(parts[k])
      BY <1>2, <2>3
    <3>7. Len(Split(Join(parts))) \in Nat /\ Len(Split(begun \o p)) \in Nat
      BY <1>0, <2>0, <3>2, ConcatProperties
    <3>8. /\ Len(Split(begun \o p)) >= Len(parts) + 1
          /\ Len(Split(begun \o p)) = Len(parts) + 1 => Unsplit(p) /\ \A k \in DOMAIN parts : Unsplit(parts[k])
      BY <2>0, <3>4, <3>5, <3>6, <3>7
    <3> QED
      BY <2>0, <2>1, <3>1, <3>8
  <2> QED
    BY <2>2, <2>3
<1> HIDE DEF T
<1>3. Seq(Seq(C)) \subseteq T
  BY <1>1, <1>2, SequencesByInduction
<1> QED
  BY <1>3 DEF T, SomeParts

(***************************************************************************)
(* Replacing                                                               *)
(***************************************************************************)

Maps(D, E) == [D -> E]

Mapped(f, s) == [i \in DOMAIN s |-> f[s[i]]]

LEMMA FunctionIsSequence ==
    ASSUME NEW D, NEW E, NEW s \in Seq(D), NEW f \in Maps(DOMAIN s, E)
    PROVE  f \in Seq(E) /\ Len(f) = Len(s) /\ DOMAIN f = DOMAIN s
<1>1. Len(s) \in Nat /\ DOMAIN s = 1..Len(s)
  BY LenProperties
<1>2. f \in [1..Len(s) -> E]
  BY <1>1 DEF Maps
<1>3. f \in Seq(E)
  <2>1. f \in UNION {[1..n -> E] : n \in Nat}
    BY <1>1, <1>2
  <2> QED
    BY <2>1, SeqDef
<1>4. DOMAIN f = 1..Len(f) /\ Len(f) \in Nat
  BY <1>3, LenProperties
<1>5. DOMAIN f = 1..Len(s)
  BY <1>2
<1>6. ASSUME NEW m \in Nat, NEW n \in Nat, 1..m = 1..n PROVE m = n
  <2>1. m > n => m \in 1..m /\ m \notin 1..n
    OBVIOUS
  <2>2. m < n => n \in 1..n /\ n \notin 1..m
    OBVIOUS
  <2> QED
    BY <1>6, <2>1, <2>2
<1> QED
  BY <1>1, <1>3, <1>4, <1>5, <1>6

LEMMA MappedIsSequence ==
    ASSUME NEW D, NEW E, NEW f \in Maps(D, E), NEW s \in Seq(D)
    PROVE  Mapped(f, s) \in Seq(E) /\ Len(Mapped(f, s)) = Len(s) /\ DOMAIN Mapped(f, s) = DOMAIN s
<1>1. \A i \in DOMAIN s : s[i] \in D
  BY LenProperties, ElementOfSeq
<1>2. Mapped(f, s) \in Maps(DOMAIN s, E)
  BY <1>1 DEF Mapped, Maps
<1> QED
  BY <1>2, FunctionIsSequence

LEMMA MappedAppend ==
    ASSUME NEW D, NEW E, NEW f \in Maps(D, E), NEW s \in Seq(D), NEW d \in D
    PROVE  Mapped(f, Append(s, d)) = Append(Mapped(f, s), f[d])
<1> DEFINE longer == Append(s, d)
           whole == Mapped(f, longer)
           last == f[d]
           other == Append(Mapped(f, s), last)
<1>1. /\ longer \in Seq(D) /\ Len(s) \in Nat /\ Len(longer) = Len(s) + 1 /\ longer[Len(s) + 1] = d
      /\ \A i \in 1..Len(s) : longer[i] = s[i]
  BY AppendProperties, LenProperties
<1> HIDE DEF longer
<1>2. DOMAIN s = 1..Len(s) /\ DOMAIN longer = 1..(Len(s) + 1)
  BY <1>1, LenProperties
<1>3. whole \in Seq(E) /\ Len(whole) = Len(s) + 1
  BY <1>1, MappedIsSequence
<1>4. Mapped(f, s) \in Seq(E) /\ Len(Mapped(f, s)) = Len(s) /\ last \in E
  <2>1. last \in E
    BY DEF Maps
  <2> HIDE DEF last
  <2> QED
    BY <2>1, MappedIsSequence
<1>5. \A i \in 1..Len(s) : Mapped(f, s)[i] = f[s[i]] /\ whole[i] = f[s[i]]
  BY <1>1, <1>2 DEF Mapped
<1>6. whole[Len(s) + 1] = last
  BY <1>1, <1>2 DEF Mapped
<1> HIDE DEF last, whole
<1>7. /\ other \in Seq(E) /\ Len(other) = Len(s) + 1 /\ other[Len(s) + 1] = last
      /\ \A i \in 1..Len(s) : other[i] = Mapped(f, s)[i]
  BY <1>4, AppendProperties
<1> HIDE DEF other
<1>8. ASSUME NEW i \in 1..Len(whole) PROVE whole[i] = other[i]
  <2>1. i = Len(s) + 1 \/ i \in 1..Len(s)
    BY <1>1, <1>3
  <2> QED
    BY <1>5, <1>6, <1>7, <2>1
<1>9. whole = other
  BY <1>3, <1>7, <1>8, SeqEqual
<1> QED
  BY <1>9 DEF whole, other, last, longer

LEMMA NothingIsMapped == ASSUME NEW f PROVE Mapped(f, <<>>) = <<>>
<1>1. DOMAIN <<>> = {}
  OBVIOUS
<1> QED
  BY <1>1 DEF Mapped

\* What takes the place of a character.
Pieces(C, hole, value) == [c \in C |-> IF c = hole THEN value ELSE <<c>>]

LEMMA PiecesAreTexts ==
    ASSUME NEW C, NEW hole, NEW value \in Seq(C)
    PROVE  /\ Pieces(C, hole, value) \in Maps(C, Seq(C))
           /\ \A c \in C : Pieces(C, hole, value)[c] \in Seq(C)
<1>1. \A c \in C : <<c>> \in Seq(C)
  OBVIOUS
<1> QED
  BY <1>1 DEF Pieces, Maps

LEMMA ReplacedIsJoined ==
    ASSUME NEW C, NEW hole, NEW value \in Seq(C), NEW text \in Seq(C)
    PROVE  Replaced(text, hole, value) = Joined(Mapped(Pieces(C, hole, value), text), <<>>)
<1>1. \A i \in DOMAIN text : text[i] \in C
  BY LenProperties, ElementOfSeq
<1>2. Mapped(Pieces(C, hole, value), text) = [i \in DOMAIN text |-> IF text[i] = hole THEN value ELSE <<text[i]>>]
  BY <1>1 DEF Mapped, Pieces
<1> QED
  BY <1>2 DEF Replaced

LEMMA ReplacedIsText ==
    ASSUME NEW C, NEW hole, NEW value \in Seq(C), NEW text \in Seq(C)
    PROVE  Replaced(text, hole, value) \in Seq(C)
<1> DEFINE f == Pieces(C, hole, value)
           S == Seq(C)
           none == <<>>
           pieces == Mapped(f, text)
<1>1. f \in Maps(C, S) /\ none \in Seq(C) /\ Replaced(text, hole, value) = Joined(pieces, none)
  BY PiecesAreTexts, ReplacedIsJoined, EmptySeq
<1>2. pieces \in Seq(S)
  <2> HIDE DEF f, S
  <2> QED
    BY <1>1, MappedIsSequence
<1> HIDE DEF f, none, pieces
<1> QED
  BY <1>1, <1>2, JoinedIsText

LEMMA ReplacedAppend ==
    ASSUME NEW C, NEW hole, NEW value \in Seq(C), NEW text \in Seq(C), NEW c \in C
    PROVE  Replaced(Append(text, c), hole, value) = Replaced(text, hole, value) \o Pieces(C, hole, value)[c]
<1> DEFINE f == Pieces(C, hole, value)
           S == Seq(C)
           none == <<>>
           longer == Append(text, c)
           pieces == Mapped(f, text)
           p == f[c]
<1>1. f \in Maps(C, S) /\ none \in S /\ p \in S
  BY PiecesAreTexts, EmptySeq
<1>2. longer \in Seq(C)
  BY AppendProperties
<1>3. Replaced(text, hole, value) = Joined(pieces, none)
  BY ReplacedIsJoined
<1>4. Replaced(longer, hole, value) = Joined(Mapped(f, longer), none)
  <2> HIDE DEF longer
  <2> QED
    BY <1>2, ReplacedIsJoined
<1>5. pieces \in Seq(S) /\ Mapped(f, longer) = Append(pieces, p)
  <2> HIDE DEF f, S
  <2> QED
    BY <1>1, MappedIsSequence, MappedAppend
<1> HIDE DEF pieces, longer, p, f
<1>6. Joined(Append(pieces, p), none) = Joined(pieces, none) \o Between(pieces, none) \o p
  <2> HIDE DEF none
  <2> QED
    BY <1>1, <1>5, JoinedAppend
<1>7. Between(pieces, none) = <<>>
  BY DEF Between
<1>8. Joined(pieces, none) \in Seq(C)
  <2> HIDE DEF none
  <2> QED
    BY <1>1, <1>5, JoinedIsText
<1>9. Joined(pieces, none) \o <<>> = Joined(pieces, none)
  <2> DEFINE t == Joined(pieces, none)
  <2>1. t \in Seq(C)
    BY <1>8
  <2> HIDE DEF t
  <2>2. t \o <<>> = t
    BY <2>1, ConcatEmptySeq
  <2> QED
    BY <2>2 DEF t
<1>10. Replaced(longer, hole, value) = Replaced(text, hole, value) \o p
  BY <1>3, <1>4, <1>5, <1>6, <1>7, <1>9
<1> QED
  BY <1>10 DEF longer, p, f

LEMMA NothingIsReplaced ==
    ASSUME NEW C, NEW hole, NEW value \in Seq(C)
    PROVE  Replaced(<<>>, hole, value) = <<>>
<1> DEFINE none == <<>>
           f == Pieces(C, hole, value)
<1>1. none \in Seq(C)
  BY EmptySeq
<1>2. Replaced(none, hole, value) = Joined(Mapped(f, none), <<>>)
  <2> HIDE DEF none
  <2> QED
    BY <1>1, ReplacedIsJoined
<1>3. Mapped(f, none) = none
  <2> HIDE DEF f
  <2> QED
    BY NothingIsMapped
<1>4. Joined(<<>>, none) = <<>>
  <2> HIDE DEF none
  <2> QED
    BY <1>1, JoinedOfNone
<1> QED
  BY <1>2, <1>3, <1>4

LEMMA ReplacedHole ==
    ASSUME NEW C, NEW hole \in C, NEW value \in Seq(C)
    PROVE  Replaced(<<hole>>, hole, value) = value
<1> DEFINE none == <<>>
<1>1. none \in Seq(C)
  BY EmptySeq
<1>2. Replaced(Append(none, hole), hole, value) = Replaced(none, hole, value) \o Pieces(C, hole, value)[hole]
  <2> HIDE DEF none
  <2> QED
    BY <1>1, ReplacedAppend
<1>3. Pieces(C, hole, value)[hole] = value /\ Append(none, hole) = <<hole>>
  BY DEF Pieces
<1>4. Replaced(none, hole, value) = <<>>
  BY NothingIsReplaced
<1>5. <<>> \o value = value
  BY ConcatEmptySeq
<1> QED
  BY <1>2, <1>3, <1>4, <1>5

\* Text without the hole stays.
LEMMA ReplacedElsewhere ==
    ASSUME NEW C, NEW hole, NEW value \in Seq(C)
    PROVE  \A t \in Seq(C) : (\A i \in DOMAIN t : t[i] # hole) => Replaced(t, hole, value) = t
<1> DEFINE T == {t \in Seq(C) : (\A i \in DOMAIN t : t[i] # hole) => Replaced(t, hole, value) = t}
<1>1. <<>> \in T
  BY NothingIsReplaced, EmptySeq
<1>2. ASSUME NEW t \in Seq(C), NEW c \in C, t \in T PROVE Append(t, c) \in T
  <2>1. Append(t, c) \in Seq(C)
    BY AppendProperties
  <2> SUFFICES ASSUME \A i \in DOMAIN Append(t, c) : Append(t, c)[i] # hole
               PROVE  Replaced(Append(t, c), hole, value) = Append(t, c)
    BY <2>1
  <2>2. /\ DOMAIN Append(t, c) = DOMAIN t \cup {Len(t) + 1}
        /\ Append(t, c)[Len(t) + 1] = c
        /\ \A i \in DOMAIN t : Append(t, c)[i] = t[i]
    BY PartsAppend
  <2>3. c # hole /\ \A i \in DOMAIN t : t[i] # hole
    BY <2>2
  <2>4. Replaced(t, hole, value) = t
    BY <1>2, <2>3
  <2>5. Pieces(C, hole, value)[c] = <<c>>
    BY <2>3 DEF Pieces
  <2>6. Replaced(Append(t, c), hole, value) = Replaced(t, hole, value) \o Pieces(C, hole, value)[c]
    BY ReplacedAppend
  <2> QED
    BY <2>4, <2>5, <2>6, AppendIsConcat
<1> HIDE DEF T
<1>3. Seq(C) \subseteq T
  BY <1>1, <1>2, SequencesByInduction
<1> QED
  BY <1>3 DEF T

Concat(s, t) == s \o t

LEMMA Associative ==
    ASSUME NEW C, NEW x \in Seq(C), NEW y \in Seq(C), NEW z \in Seq(C)
    PROVE  Concat(Concat(x, y), z) = Concat(x, Concat(y, z))
BY ConcatAssociative DEF Concat

LEMMA ReplacedConcat ==
    ASSUME NEW C, NEW hole, NEW value \in Seq(C)
    PROVE  \A t, p \in Seq(C) :
               Replaced(Concat(t, p), hole, value) = Concat(Replaced(t, hole, value), Replaced(p, hole, value))
<1> TAKE t \in Seq(C)
<1> DEFINE S == Seq(C)
           R(text) == Replaced(text, hole, value)
           T == {p \in S : R(t \o p) = R(t) \o R(p)}
<1>1. <<>> \in T
  <2>1. R(t) \in Seq(C)
    BY ReplacedIsText
  <2>2. t \o <<>> = t /\ <<>> \in Seq(C) /\ R(<<>>) = <<>>
    BY EmptySeq, ConcatEmptySeq, NothingIsReplaced
  <2> HIDE DEF R
  <2>3. R(t) \o <<>> = R(t)
    <3> DEFINE s == R(t)
    <3>1. s \in Seq(C)
      BY <2>1
    <3> HIDE DEF s
    <3>2. s \o <<>> = s
      BY <3>1, ConcatEmptySeq
    <3> QED
      BY <3>2 DEF s
  <2> QED
    BY <2>2, <2>3
<1>2. ASSUME NEW p \in Seq(C), NEW c \in C, p \in T PROVE Append(p, c) \in T
  <2> DEFINE piece == Pieces(C, hole, value)[c]
  <2>1. piece \in Seq(C) /\ R(t) \in Seq(C) /\ R(p) \in Seq(C) /\ t \o p \in Seq(C) /\ Append(p, c) \in Seq(C)
    BY PiecesAreTexts, ReplacedIsText, ConcatProperties, AppendProperties
  <2>2. t \o Append(p, c) = Append(t \o p, c)
    BY ConcatAppend
  <2>3. R(Append(p, c)) = R(p) \o piece
    BY ReplacedAppend
  <2>4. R(Append(t \o p, c)) = R(t \o p) \o piece
    <3> DEFINE q == t \o p
    <3>1. q \in Seq(C)
      BY <2>1
    <3> HIDE DEF q
    <3>2. R(Append(q, c)) = R(q) \o piece
      BY <3>1, ReplacedAppend
    <3> QED
      BY <3>2 DEF q
  <2> HIDE DEF piece, R
  <2>5. R(t \o p) = R(t) \o R(p)
    BY <1>2
  <2>6. (R(t) \o R(p)) \o piece = R(t) \o (R(p) \o piece)
    <3> DEFINE x == R(t)
               y == R(p)
    <3>1. x \in Seq(C) /\ y \in Seq(C) /\ piece \in Seq(C)
      BY <2>1
    <3> HIDE DEF x, y
    <3>2. Concat(Concat(x, y), piece) = Concat(x, Concat(y, piece))
      BY <3>1, Associative
    <3>3. (x \o y) \o piece = x \o (y \o piece)
      BY <3>2 DEF Concat
    <3> QED
      BY <3>3 DEF x, y
  <2>7. R(t \o Append(p, c)) = R(t) \o R(Append(p, c))
    <3> DEFINE whole == R(t \o Append(p, c))
               last == R(Append(p, c))
               first == R(t)
    <3>1. whole = (first \o R(p)) \o piece
      BY <2>2, <2>4, <2>5
    <3>2. whole = first \o (R(p) \o piece) /\ last = R(p) \o piece
      BY <2>3, <2>6, <3>1
    <3> HIDE DEF whole, last, first
    <3>3. whole = first \o last
      BY <3>2
    <3> QED
      BY <3>3 DEF whole, last, first
  <2> QED
    BY <2>1, <2>7
<1> HIDE DEF T
<1>3. Seq(C) \subseteq T
  BY <1>1, <1>2, SequencesByInduction
<1> QED
  BY <1>3 DEF T, Concat

\* A hole that is not a slash is replaced in each part.
LEMMA ReplacedJoin ==
    ASSUME NEW C, Slash \in C, NEW hole, hole # Slash, NEW value \in Seq(C)
    PROVE  \A parts \in Seq(Seq(C)) :
               Replaced(Join(parts), hole, value) = Join(Mapped([t \in Seq(C) |-> Replaced(t, hole, value)], parts))
<1>3. \A s, t \in Seq(C) :
          Replaced(Concat(s, t), hole, value) = Concat(Replaced(s, hole, value), Replaced(t, hole, value))
  BY ReplacedConcat
<1> DEFINE S == Seq(C)
           f == [t \in S |-> Replaced(t, hole, value)]
           T == {parts \in Seq(S) : Replaced(Join(parts), hole, value) = Join(Mapped(f, parts))}
           none == <<>>
<1>0. f \in Maps(S, S) /\ none \in S /\ none \in Seq(S)
  BY ReplacedIsText, EmptySeq DEF Maps
<1>1. none \in T
  <2>1. Join(none) = <<>>
    <3> DEFINE separator == <<Slash>>
    <3>1. separator \in Seq(C)
      OBVIOUS
    <3> HIDE DEF separator
    <3>2. Joined(<<>>, separator) = <<>>
      BY <3>1, JoinedOfNone
    <3> QED
      BY <3>2 DEF Join, separator
  <2>2. Mapped(f, none) = none
    <3> HIDE DEF f
    <3> QED
      BY NothingIsMapped
  <2> QED
    BY <1>0, <2>1, <2>2, NothingIsReplaced
<1>2. ASSUME NEW parts \in Seq(S), NEW p \in S, parts \in T PROVE Append(parts, p) \in T
  <2> DEFINE longer == Append(parts, p)
             q == f[p]
             mapped == Mapped(f, parts)
             R(text) == Replaced(text, hole, value)
  <2>1. longer \in Seq(S)
    BY AppendProperties
  <2>2. mapped \in Seq(S) /\ Mapped(f, longer) = Append(mapped, q) /\ Len(mapped) = Len(parts) /\ q \in S
    <3>1. q \in S
      BY <1>0 DEF Maps
    <3> HIDE DEF f, S
    <3>2. mapped \in Seq(S) /\ Len(mapped) = Len(parts)
      BY <1>0, MappedIsSequence
    <3>3. Mapped(f, longer) = Append(mapped, q)
      BY <1>0, MappedAppend
    <3> QED
      BY <3>1, <3>2, <3>3
  <2>3. mapped = <<>> <=> parts = <<>>
    <3> HIDE DEF mapped
    <3> QED
      BY <2>2, EmptySeq
  <2>4. q = R(p)
    OBVIOUS
  <2>5. R(Join(parts)) = Join(mapped)
    BY <1>2
  <2>6. /\ Join(longer) = IF parts = <<>> THEN p ELSE Join(parts) \o <<Slash>> \o p
        /\ Join(parts) \in Seq(C)
    BY JoinAppend
  <2> HIDE DEF mapped, q, f
  <2>7. /\ Join(Append(mapped, q)) = IF mapped = <<>> THEN q ELSE Join(mapped) \o <<Slash>> \o q
        /\ Join(mapped) \in Seq(C)
    BY <2>2, JoinAppend
  <2>8. CASE parts = <<>>
    BY <2>1, <2>2, <2>3, <2>4, <2>6, <2>7, <2>8
  <2>9. CASE parts # <<>>
    <3> DEFINE begun == Append(Join(parts), Slash)
               joined == Join(parts)
    <3>1. joined \in Seq(C) /\ begun \in Seq(C) /\ begun = joined \o <<Slash>>
      BY <2>6, AppendProperties, AppendIsConcat
    <3>2. Pieces(C, hole, value)[Slash] = <<Slash>>
      BY DEF Pieces
    <3>3. R(begun) = R(joined) \o <<Slash>>
      <4> HIDE DEF joined
      <4>1. Replaced(Append(joined, Slash), hole, value) = Replaced(joined, hole, value) \o Pieces(C, hole, value)[Slash]
        BY <3>1, ReplacedAppend
      <4> QED
        BY <3>2, <4>1 DEF joined
    <3> HIDE DEF begun, joined, longer
    <3>4. R(begun \o p) = R(begun) \o R(p)
      <4>1. p \in Seq(C) /\ value \in Seq(C)
        OBVIOUS
      <4>2. R(Concat(begun, p)) = Concat(R(begun), R(p))
        BY <1>3, <3>1, <4>1
      <4> QED
        BY <4>2 DEF Concat
    <3>5. Join(longer) = begun \o p
      BY <2>6, <2>9, <3>1 DEF joined
    <3>6. Join(Append(mapped, q)) = Join(mapped) \o <<Slash>> \o q
      BY <2>3, <2>7, <2>9
    <3>7. R(begun) = Join(mapped) \o <<Slash>>
      BY <2>5, <3>3 DEF joined
    <3>8. R(Join(longer)) = Join(Mapped(f, longer))
      BY <2>2, <2>4, <3>4, <3>5, <3>6, <3>7
    <3> QED
      BY <2>1, <3>8 DEF longer
  <2> QED
    BY <2>8, <2>9
<1> HIDE DEF T
<1>4. Seq(S) \subseteq T
  <2> HIDE DEF S
  <2> QED
    BY <1>1, <1>2, SequencesByInduction DEF none
<1> QED
  BY <1>4 DEF T


(***************************************************************************)
(* What the path is made of                                                *)
(***************************************************************************)

Words == Tokens \cup Names \cup {"/"} \cup UNION {{r.path[k] : k \in DOMAIN r.path} : r \in Routes}

Chars == [text : Words, form : {"plain", "hole", "escaped"}]

Filled == {c \in Chars : c.form # "hole"}

\* The text of a segment: that of its template until its parameter is put in.
Segment(r, attributes, open, k) ==
    LET template == Template(r)[k] IN
    IF template[1].form = "hole" /\ template[1].text \notin open
    THEN Escaped(attributes[template[1].text])
    ELSE template

Segments(r, attributes, open) == [k \in DOMAIN r.path |-> Segment(r, attributes, open, k)]

NamedParts(r, attributes) == [k \in DOMAIN r.parts |-> attributes[r.parts[k]]]

LEMMA WordsAreChars ==
    /\ \A w \in Words : Text(w) \in Filled /\ Hole(w) \in Chars
    /\ Slash \in Filled /\ Filled \subseteq Chars
BY DEF Text, Hole, Slash, Filled, Chars, Words

LEMMA RoutesAreSequences ==
    ASSUME NEW r \in Routes
    PROVE  /\ r.parts \in Seq(STRING) /\ r.parts # <<>> /\ r.path \in Seq(STRING) /\ r.path # <<>>
           /\ r.params \subseteq PartsOf(r) /\ PartsOf(r) \subseteq Words
           /\ \A k \in DOMAIN r.path : r.path[k] \in Words
<1>1. /\ r.parts \in Seq(STRING) /\ r.parts # <<>> /\ r.path \in Seq(STRING) /\ r.path # <<>>
      /\ r.params \subseteq PartsOf(r)
  BY RoutesAssumption
<1>2. PartsOf(r) \subseteq Names
  BY DEF Names
<1>3. \A k \in DOMAIN r.path : r.path[k] \in Words
  BY DEF Words
<1> QED
  BY <1>1, <1>2, <1>3 DEF Words

LEMMA ValuesAreTexts ==
    ASSUME NEW r \in Routes
    PROVE  Values(r) \subseteq Seq(Chars)
<1> SUFFICES ASSUME NEW v \in Values(r) PROVE v \in Seq(Chars)
  OBVIOUS
<1>1. {Text(t) : t \in Tokens} \cup {Hole(p) : p \in PartsOf(r)} \subseteq Chars
  BY WordsAreChars, RoutesAreSequences DEF Words
<1>2. MaxTokens[Len(r.parts)] \in Nat
  BY RoutesAssumption
<1>3. PICK n \in 0..MaxTokens[Len(r.parts)] : v \in [1..n -> {Text(t) : t \in Tokens} \cup {Hole(p) : p \in PartsOf(r)}]
  BY DEF Values
<1>4. n \in Nat /\ v \in [1..n -> Chars]
  BY <1>1, <1>2, <1>3
<1>5. v \in UNION {[1..m -> Chars] : m \in Nat}
  BY <1>4
<1> QED
  BY <1>5, SeqDef

LEMMA TemplateSegment ==
    ASSUME NEW r \in Routes, NEW k \in DOMAIN r.path
    PROVE  \E c \in Chars : /\ Template(r)[k] = <<c>>
                            /\ c # Slash
                            /\ c.form \in {"plain", "hole"}
                            /\ c.form = "hole" => c = Hole(c.text) /\ c.text \in r.params
<1> DEFINE holes == {p \in Names : r.path[k] = "{" \o p \o "}"}
           name == CHOOSE p \in holes : TRUE
<1>1. Template(r)[k] = IF holes = {} THEN <<Text(r.path[k])>> ELSE <<Hole(name)>>
  BY DEF Template
<1>2. /\ r.path[k] # "/" /\ r.path[k] \in Words
      /\ Template(r)[k][1].form = "hole" => Template(r)[k][1].text \in r.params
  BY RoutesAssumption, RoutesAreSequences
<1>3. holes # {} => name \in Words
  BY DEF Words
<1> HIDE DEF holes, name
<1>4. CASE holes = {}
  <2>1. Template(r)[k] = <<Text(r.path[k])>> /\ Text(r.path[k]) \in Chars
    BY <1>1, <1>2, <1>4, WordsAreChars
  <2>2. Text(r.path[k]) # Slash /\ Text(r.path[k]).form = "plain"
    BY <1>2 DEF Text, Slash
  <2> QED
    BY <2>1, <2>2
<1>5. CASE holes # {}
  <2>1. Template(r)[k] = <<Hole(name)>> /\ Hole(name) \in Chars
    BY <1>1, <1>3, <1>5, WordsAreChars
  <2>2. Hole(name) # Slash /\ Hole(name).form = "hole" /\ Hole(name).text = name
    BY DEF Hole, Slash, Text
  <2>3. Template(r)[k][1] = Hole(name)
    BY <2>1
  <2> QED
    BY <1>2, <2>1, <2>2, <2>3
<1> QED
  BY <1>4, <1>5

\* Escaping leaves neither a slash nor a hole.
LEMMA EscapedIsFilled ==
    ASSUME NEW v \in Seq(Chars)
    PROVE  Escaped(v) \in Seq(Filled) /\ Unsplit(Escaped(v))
<1>1. ASSUME NEW c \in Chars PROVE Escape(c) \in Filled /\ Escape(c) # Slash
  <2>1. CASE c.form = "hole" \/ c.text \in {"/", "%", " "}
    <3>1. Escape(c) = [c EXCEPT !.form = "escaped"]
      BY <2>1 DEF Escape
    <3>2. Escape(c) \in Chars /\ Escape(c).form = "escaped"
      BY <3>1 DEF Chars
    <3> QED
      BY <3>2 DEF Filled, Slash, Text
  <2>2. CASE ~(c.form = "hole" \/ c.text \in {"/", "%", " "})
    <3>1. Escape(c) = c
      BY <2>2 DEF Escape
    <3>2. Slash.text = "/"
      BY DEF Slash, Text
    <3>3. c # Slash
      BY <2>2, <3>2
    <3> QED
      BY <2>2, <3>1, <3>3 DEF Filled
  <2> QED
    BY <2>1, <2>2
<1>2. \A i \in DOMAIN v : v[i] \in Chars
  BY LenProperties, ElementOfSeq
<1>3. Escaped(v) \in Maps(DOMAIN v, Filled)
  BY <1>1, <1>2 DEF Escaped, Maps
<1>4. Escaped(v) \in Seq(Filled)
  BY <1>3, FunctionIsSequence
<1>5. Unsplit(Escaped(v))
  BY <1>1, <1>2 DEF Unsplit, Escaped
<1> QED
  BY <1>4, <1>5

LEMMA SegmentIsText ==
    ASSUME NEW r \in Routes, NEW attributes \in [PartsOf(r) -> Values(r)], NEW open, NEW k \in DOMAIN r.path
    PROVE  /\ Segment(r, attributes, open, k) \in Seq(Chars)
           /\ Unsplit(Segment(r, attributes, open, k))
           /\ open = {} => Segment(r, attributes, open, k) \in Seq(Filled)
<1>1. PICK c \in Chars : /\ Template(r)[k] = <<c>>
                         /\ c # Slash
                         /\ c.form \in {"plain", "hole"}
                         /\ c.form = "hole" => c = Hole(c.text) /\ c.text \in r.params
  BY TemplateSegment
<1>2. Template(r)[k][1] = c
  BY <1>1
<1>3. CASE c.form = "hole" /\ c.text \notin open
  <2>1. attributes[c.text] \in Seq(Chars)
    BY <1>1, <1>3, RoutesAreSequences, ValuesAreTexts
  <2>2. Segment(r, attributes, open, k) = Escaped(attributes[c.text])
    BY <1>2, <1>3 DEF Segment
  <2>3. Escaped(attributes[c.text]) \in Seq(Filled) /\ Unsplit(Escaped(attributes[c.text]))
    BY <2>1, EscapedIsFilled
  <2>4. Escaped(attributes[c.text]) \in Seq(Chars)
    BY <2>3, WordsAreChars, SeqMonotonic
  <2> QED
    BY <2>2, <2>3, <2>4
<1>4. CASE ~(c.form = "hole" /\ c.text \notin open)
  <2>1. Segment(r, attributes, open, k) = <<c>>
    BY <1>1, <1>2, <1>4 DEF Segment
  <2>2. <<c>> \in Seq(Chars) /\ Unsplit(<<c>>)
    BY <1>1 DEF Unsplit
  <2>3. open = {} => c \in Filled
    BY <1>4 DEF Filled
  <2> QED
    BY <2>1, <2>2, <2>3
<1> QED
  BY <1>3, <1>4

LEMMA SegmentsAreParts ==
    ASSUME NEW r \in Routes, NEW attributes \in [PartsOf(r) -> Values(r)], NEW open
    PROVE  /\ Segments(r, attributes, open) \in SomeParts(Chars)
           /\ Len(Segments(r, attributes, open)) = Len(r.path)
           /\ DOMAIN Segments(r, attributes, open) = DOMAIN r.path
           /\ Split(Join(Segments(r, attributes, open))) = Segments(r, attributes, open)
           /\ open = {} => Join(Segments(r, attributes, open)) \in Seq(Filled)
<1> DEFINE whole == Segments(r, attributes, open)
           S == Seq(Chars)
           F == Seq(Filled)
<1>1. r.path \in Seq(STRING) /\ r.path # <<>>
  BY RoutesAreSequences
<1>2. whole \in Maps(DOMAIN r.path, S) /\ (open = {} => whole \in Maps(DOMAIN r.path, F))
  BY SegmentIsText DEF Segments, Maps
<1>3. \A k \in DOMAIN r.path : Unsplit(whole[k])
  BY SegmentIsText DEF Segments
<1> HIDE DEF whole, S, F
<1>4. whole \in Seq(S) /\ Len(whole) = Len(r.path) /\ DOMAIN whole = DOMAIN r.path /\ (open = {} => whole \in Seq(F))
  BY <1>1, <1>2, FunctionIsSequence
<1>5. whole # <<>>
  <2>1. Len(r.path) # 0
    BY <1>1, EmptySeq
  <2> QED
    BY <1>4, <2>1, EmptySeq
<1>6. whole \in SomeParts(Chars)
  BY <1>4, <1>5 DEF SomeParts, S
<1>7. Split(Join(whole)) = whole
  BY <1>3, <1>4, <1>6, SplitOfJoin, WordsAreChars
<1>8. open = {} => Join(whole) \in Seq(Filled)
  <2> SUFFICES ASSUME open = {} PROVE Join(whole) \in Seq(Filled)
    OBVIOUS
  <2>1. whole \in Seq(Seq(Filled))
    BY <1>4 DEF F
  <2> DEFINE separator == <<Slash>>
  <2>2. separator \in Seq(Filled)
    BY WordsAreChars
  <2> HIDE DEF separator
  <2>3. Joined(whole, separator) \in Seq(Filled)
    BY <2>1, <2>2, JoinedIsText
  <2> QED
    BY <2>3 DEF Join, separator
<1> QED
  BY <1>4, <1>6, <1>7, <1>8 DEF whole

LEMMA TemplateIsOpen ==
    ASSUME NEW r \in Routes, NEW attributes
    PROVE  Template(r) = Segments(r, attributes, r.params)
<1>1. ASSUME NEW k \in DOMAIN r.path PROVE Segment(r, attributes, r.params, k) = Template(r)[k]
  <2>1. PICK c \in Chars : Template(r)[k] = <<c>> /\ (c.form = "hole" => c.text \in r.params)
    BY TemplateSegment
  <2>2. Template(r)[k][1] = c
    BY <2>1
  <2> QED
    BY <2>1, <2>2 DEF Segment
<1>2. Template(r) = [k \in DOMAIN r.path |-> Template(r)[k]]
  <2> DEFINE e(k) == LET holes == {p \in Names : r.path[k] = "{" \o p \o "}"} IN
                     IF holes = {} THEN <<Text(r.path[k])>> ELSE <<Hole(CHOOSE p \in holes : TRUE)>>
  <2>1. Template(r) = [k \in DOMAIN r.path |-> e(k)]
    BY DEF Template
  <2> HIDE DEF e
  <2> QED
    BY <2>1
<1> QED
  BY <1>1, <1>2 DEF Segments

\* A parameter is put into the segments that are its hole and into no other.
LEMMA OneIsPutIn ==
    ASSUME NEW r \in Routes, NEW attributes \in [PartsOf(r) -> Values(r)], NEW open, NEW p \in open, p \in r.params
    PROVE  Replaced(Join(Segments(r, attributes, open)), Hole(p), Escaped(attributes[p]))
               = Join(Segments(r, attributes, open \ {p}))
<1> DEFINE before == Segments(r, attributes, open)
           after == Segments(r, attributes, open \ {p})
           value == Escaped(attributes[p])
           hole == Hole(p)
           f == [t \in Seq(Chars) |-> Replaced(t, hole, value)]
<1>1. attributes[p] \in Seq(Chars)
  BY RoutesAreSequences, ValuesAreTexts
<1>2. value \in Seq(Chars)
  BY <1>1, EscapedIsFilled, WordsAreChars, SeqMonotonic
<1>3. hole # Slash /\ hole.form = "hole" /\ hole.text = p /\ Slash \in Chars
  BY WordsAreChars DEF Hole, Slash, Text
<1>4. before \in Seq(Seq(Chars)) /\ DOMAIN before = DOMAIN r.path /\ DOMAIN after = DOMAIN r.path
  BY SegmentsAreParts DEF SomeParts
<1> HIDE DEF value, hole
<1>5. ASSUME NEW k \in DOMAIN r.path
      PROVE  Replaced(Segment(r, attributes, open, k), hole, value) = Segment(r, attributes, open \ {p}, k)
  <2>1. PICK c \in Chars : /\ Template(r)[k] = <<c>>
                           /\ c.form \in {"plain", "hole"}
                           /\ c.form = "hole" => c = Hole(c.text) /\ c.text \in r.params
    BY TemplateSegment
  <2>2. Template(r)[k][1] = c
    BY <2>1
  <2>3. \A t \in Seq(Chars) : (\A i \in DOMAIN t : t[i] # hole) => Replaced(t, hole, value) = t
    BY <1>2, ReplacedElsewhere
  <2>4. CASE c.form = "hole" /\ c.text = p
    <3>1. Segment(r, attributes, open, k) = <<c>> /\ Segment(r, attributes, open \ {p}, k) = value
      BY <2>1, <2>2, <2>4 DEF Segment, value
    <3>2. c = hole
      BY <2>1, <2>4 DEF hole
    <3> QED
      BY <1>2, <2>1, <3>1, <3>2, ReplacedHole
  <2>5. CASE ~(c.form = "hole" /\ c.text = p)
    <3>1. Segment(r, attributes, open, k) = Segment(r, attributes, open \ {p}, k)
      BY <2>1, <2>2, <2>5 DEF Segment
    <3>2. CASE c.form = "hole" /\ c.text \notin open
      <4>1. attributes[c.text] \in Seq(Chars)
        BY <2>1, <3>2, RoutesAreSequences, ValuesAreTexts
      <4>2. Segment(r, attributes, open, k) = Escaped(attributes[c.text])
        BY <2>2, <3>2 DEF Segment
      <4>3. Escaped(attributes[c.text]) \in Seq(Filled)
        BY <4>1, EscapedIsFilled
      <4> DEFINE t == Escaped(attributes[c.text])
      <4>4. t \in Seq(Filled)
        BY <4>3
      <4> HIDE DEF t
      <4>5. \A i \in DOMAIN t : t[i] # hole
        BY <1>3, <4>4, LenProperties, ElementOfSeq DEF Filled
      <4>6. t \in Seq(Chars)
        BY <4>4, WordsAreChars, SeqMonotonic
      <4> QED
        BY <2>3, <3>1, <4>2, <4>5, <4>6 DEF t
    <3>3. CASE ~(c.form = "hole" /\ c.text \notin open)
      <4>1. Segment(r, attributes, open, k) = <<c>>
        BY <2>1, <2>2, <3>3 DEF Segment
      <4>2. <<c>> \in Seq(Chars) /\ \A i \in DOMAIN <<c>> : <<c>>[i] # hole
        BY <1>3, <2>5
      <4> QED
        BY <2>3, <3>1, <4>1, <4>2
    <3> QED
      BY <3>2, <3>3
  <2> QED
    BY <2>4, <2>5
<1>6. Mapped(f, before) = after
  <2>1. \A k \in DOMAIN r.path : f[before[k]] = after[k]
    <3>1. \A k \in DOMAIN r.path : before[k] \in Seq(Chars)
      BY SegmentIsText DEF Segments
    <3>2. \A k \in DOMAIN r.path : before[k] = Segment(r, attributes, open, k) /\ after[k] = Segment(r, attributes, open \ {p}, k)
      BY DEF Segments
    <3> QED
      BY <1>5, <3>1, <3>2
  <2>2. after = [k \in DOMAIN r.path |-> after[k]]
    BY DEF Segments
  <2> HIDE DEF f, before, after
  <2> QED
    BY <1>4, <2>1, <2>2 DEF Mapped
<1>7. Replaced(Join(before), hole, value) = Join(Mapped(f, before))
  <2> HIDE DEF before
  <2> QED
    BY <1>2, <1>3, <1>4, ReplacedJoin
<1> QED
  BY <1>6, <1>7 DEF hole, value

\* An identifier is split into the values it was made of, unless one of them has a slash.
LEMMA IdentifierSplits ==
    ASSUME NEW r \in Routes, NEW attributes \in [PartsOf(r) -> Values(r)]
    PROVE  LET parts == NamedParts(r, attributes) IN
           /\ Len(Split(Join(parts))) = Len(r.parts) => \A p \in PartsOf(r) : Unsplit(attributes[p])
           /\ (\A p \in PartsOf(r) : Unsplit(attributes[p])) => Split(Join(parts)) = parts
           /\ Len(parts) = Len(r.parts)
<1> DEFINE parts == NamedParts(r, attributes)
           S == Seq(Chars)
<1>1. r.parts \in Seq(STRING) /\ r.parts # <<>>
  BY RoutesAreSequences
<1>2. parts \in Maps(DOMAIN r.parts, S)
  BY ValuesAreTexts DEF NamedParts, Maps, PartsOf
<1>3. \A k \in DOMAIN r.parts : parts[k] = attributes[r.parts[k]]
  BY DEF NamedParts
<1> HIDE DEF parts, S
<1>4. parts \in Seq(S) /\ Len(parts) = Len(r.parts) /\ DOMAIN parts = DOMAIN r.parts
  BY <1>1, <1>2, FunctionIsSequence
<1>5. parts \in SomeParts(Chars)
  <2>1. parts # <<>>
    BY <1>1, <1>4, EmptySeq
  <2> QED
    BY <1>4, <2>1 DEF S, SomeParts
<1>6. Len(Split(Join(parts))) = Len(parts) => \A k \in DOMAIN parts : Unsplit(parts[k])
  BY <1>5, JoinCounts, WordsAreChars
<1>7. (\A k \in DOMAIN parts : Unsplit(parts[k])) => Split(Join(parts)) = parts
  BY <1>5, SplitOfJoin, WordsAreChars
<1>8. (\A k \in DOMAIN parts : Unsplit(parts[k])) <=> \A p \in PartsOf(r) : Unsplit(attributes[p])
  BY <1>3, <1>4 DEF PartsOf
<1> QED
  BY <1>4, <1>6, <1>7, <1>8 DEF parts

(***************************************************************************)
(* The invariant                                                           *)
(***************************************************************************)

PathTypes ==
    /\ route \in Routes
    /\ named \in [PartsOf(route) -> Values(route)]
    /\ imported \in BOOLEAN
    /\ pathPc \in {"given", "expanding", "asked", "refused"}

TemplateIsWhole == pathPc = "given" => path = Join(Template(route))

\* The attributes are the values that were meant; those of an import were accepted.
ValuesAreNamed ==
    pathPc \in {"expanding", "asked"} =>
        /\ values = named
        /\ imported => \A p \in PartsOf(route) : ImportAccepts(named[p], p)

PathIsFilledIn ==
    pathPc \in {"expanding", "asked"} =>
        /\ pending \subseteq route.params
        /\ path = Join(Segments(route, named, pending))
        /\ \A p \in route.params \ pending : Valid(named[p])

NothingIsPending == pathPc = "asked" => pending = {}

PathInv ==
    /\ PathTypes
    /\ TemplateIsWhole
    /\ ValuesAreNamed
    /\ PathIsFilledIn
    /\ NothingIsPending
    /\ ImportsAreFaithful

LEMMA InitPath == PathInit => PathInv
BY DEF PathInit, PathInv, PathTypes, TemplateIsWhole, ValuesAreNamed, PathIsFilledIn, NothingIsPending,
       ImportsAreFaithful

\* What is accepted of an import fits into a path.
LEMMA ImportedIsValid ==
    ASSUME PathTypes, NEW p \in route.params, NEW value, ImportAccepts(value, p)
    PROVE  Valid(value)
<1>1. p \notin route.free
  BY RoutesAssumption DEF PathTypes
<1>2. CASE p # "singleton_id"
  BY <1>1, <1>2 DEF ImportAccepts
<1>3. CASE p = "singleton_id"
  <2>1. value = <<Text("organization")>>
    BY <1>1, <1>3 DEF ImportAccepts
  <2>2. Text("organization") # Text(" ") /\ Text("organization") # Text(".")
    BY DEF Text
  <2>3. 1 \in DOMAIN value /\ value[1] = Text("organization")
    BY <2>1
  <2>4. value # <<Text(".")>> /\ value # <<Text("."), Text(".")>>
    <3>1. <<Text(".")>>[1] = Text(".") /\ <<Text("."), Text(".")>>[1] = Text(".")
      OBVIOUS
    <3> QED
      BY <2>2, <2>3, <3>1
  <2> QED
    BY <2>2, <2>3, <2>4 DEF Valid
<1> QED
  BY <1>2, <1>3

LEMMA BegunIsWhole ==
    ASSUME PathInv, pathPc = "given", UNCHANGED <<route, named, imported, path>>, Begin(named),
           imported => \A p \in PartsOf(route) : ImportAccepts(named[p], p)
    PROVE  PathInv'
<1>1. path' = Join(Segments(route, named, route.params))
  <2>1. Template(route) = Segments(route, named, route.params)
    BY TemplateIsOpen DEF PathInv, PathTypes
  <2> QED
    BY <2>1 DEF PathInv, TemplateIsWhole
<1>2. values' = named /\ pending' = route.params /\ pathPc' = "expanding"
  BY DEF Begin
<1>3. PathTypes' /\ TemplateIsWhole' /\ NothingIsPending' /\ ImportsAreFaithful'
  BY <1>2 DEF PathInv, PathTypes, TemplateIsWhole, NothingIsPending, ImportsAreFaithful
<1>4. ValuesAreNamed'
  BY <1>2 DEF ValuesAreNamed, ImportAccepts
<1>5. PathIsFilledIn'
  BY <1>1, <1>2 DEF PathIsFilledIn
<1> QED
  BY <1>3, <1>4, <1>5 DEF PathInv

LEMMA ImportFollows ==
    ASSUME PathInv, ImportState
    PROVE  PathInv'
<1> DEFINE parts == Split(ImportID)
<1>1. /\ pathPc = "given" /\ imported /\ Len(parts) = Len(route.parts)
      /\ \A k \in DOMAIN route.parts : ImportAccepts(parts[k], route.parts[k])
      /\ Begin([p \in PartsOf(route) |-> parts[CHOOSE k \in DOMAIN route.parts : route.parts[k] = p]])
      /\ UNCHANGED <<route, named, imported, path>>
  BY DEF ImportState, RightParts
<1>2. route \in Routes /\ named \in [PartsOf(route) -> Values(route)]
  BY DEF PathInv, PathTypes
<1>3. ImportID = Join(NamedParts(route, named))
  BY DEF ImportID, NamedParts
<1>4. parts = NamedParts(route, named)
  BY <1>1, <1>2, <1>3, IdentifierSplits
<1> HIDE DEF parts
<1>5. \A k \in DOMAIN route.parts : parts[k] = named[route.parts[k]]
  BY <1>4 DEF NamedParts
<1>6. [p \in PartsOf(route) |-> parts[CHOOSE k \in DOMAIN route.parts : route.parts[k] = p]] = named
  <2>1. ASSUME NEW p \in PartsOf(route)
        PROVE  parts[CHOOSE k \in DOMAIN route.parts : route.parts[k] = p] = named[p]
    <3>1. \E k \in DOMAIN route.parts : route.parts[k] = p
      BY DEF PartsOf
    <3> DEFINE n == CHOOSE k \in DOMAIN route.parts : route.parts[k] = p
    <3>2. n \in DOMAIN route.parts /\ route.parts[n] = p
      BY <3>1
    <3> QED
      BY <1>5, <3>2
  <2> QED
    BY <1>2, <2>1
<1>7. \A p \in PartsOf(route) : ImportAccepts(named[p], p)
  BY <1>1, <1>5 DEF PartsOf
<1> QED
  BY <1>1, <1>6, <1>7, BegunIsWhole

LEMMA RefusalIsFaithful ==
    ASSUME PathInv, RefuseValues
    PROVE  PathInv'
<1>1. pathPc = "given" /\ pathPc' = "refused" /\ UNCHANGED <<route, named, imported, values, pending, path>>
  BY DEF RefuseValues
<1>2. route \in Routes /\ named \in [PartsOf(route) -> Values(route)]
  BY DEF PathInv, PathTypes
<1>3. ASSUME imported, \A p \in PartsOf(route) : Unsplit(named[p])
      PROVE  \E p \in PartsOf(route) : ~ImportAccepts(named[p], p)
  <2> DEFINE parts == Split(ImportID)
  <2>1. ImportID = Join(NamedParts(route, named))
    BY DEF ImportID, NamedParts
  <2>2. parts = NamedParts(route, named) /\ Len(parts) = Len(route.parts)
    BY <1>2, <1>3, <2>1, IdentifierSplits
  <2>3. \E k \in DOMAIN route.parts : ~ImportAccepts(parts[k], route.parts[k])
    BY <1>3, <2>2 DEF RefuseValues, RightParts
  <2> HIDE DEF parts
  <2>4. \A k \in DOMAIN route.parts : parts[k] = named[route.parts[k]] /\ route.parts[k] \in PartsOf(route)
    BY <2>2 DEF NamedParts, PartsOf
  <2> QED
    BY <2>3, <2>4
<1>4. ImportsAreFaithful'
  BY <1>1, <1>3 DEF ImportsAreFaithful, Unsplit, ImportAccepts
<1> QED
  BY <1>1, <1>4 DEF PathInv, PathTypes, TemplateIsWhole, ValuesAreNamed, PathIsFilledIn, NothingIsPending

LEMMA ExpansionFillsIn ==
    ASSUME PathInv, NEW p \in pending, ExpandParameter(p)
    PROVE  PathInv'
<1>1. /\ pathPc = "expanding" /\ values = named /\ p \in route.params /\ pending \subseteq route.params
      /\ path = Join(Segments(route, named, pending))
      /\ route \in Routes /\ named \in [PartsOf(route) -> Values(route)]
      /\ UNCHANGED <<route, named, imported, values>>
  BY DEF ExpandParameter, PathInv, PathTypes, ValuesAreNamed, PathIsFilledIn
<1>2. CASE Valid(values[p])
  <2>1. path' = Replaced(path, Hole(p), Escaped(named[p])) /\ pending' = pending \ {p} /\ pathPc' = "expanding"
    BY <1>1, <1>2 DEF ExpandParameter
  <2>2. path' = Join(Segments(route, named, pending'))
    BY <1>1, <2>1, OneIsPutIn
  <2>3. PathIsFilledIn'
    BY <1>1, <1>2, <2>1, <2>2 DEF PathInv, PathIsFilledIn, Valid
  <2>4. ValuesAreNamed'
    BY <1>1, <2>1 DEF PathInv, ValuesAreNamed, ImportAccepts
  <2> QED
    BY <1>1, <2>1, <2>3, <2>4 DEF PathInv, PathTypes, TemplateIsWhole, NothingIsPending, ImportsAreFaithful
<1>3. CASE ~Valid(values[p])
  <2>1. pathPc' = "refused" /\ UNCHANGED <<path, pending>>
    BY <1>3 DEF ExpandParameter
  <2>2. ~imported
    <3> SUFFICES ASSUME imported PROVE FALSE
      OBVIOUS
    <3>1. ImportAccepts(named[p], p)
      BY <1>1, RoutesAreSequences DEF PathInv, ValuesAreNamed
    <3> QED
      BY <1>1, <1>3, <3>1, ImportedIsValid DEF PathInv
  <2> QED
    BY <1>1, <2>1, <2>2 DEF PathInv, PathTypes, TemplateIsWhole, ValuesAreNamed, PathIsFilledIn, NothingIsPending, ImportsAreFaithful
<1> QED
  BY <1>2, <1>3

LEMMA AskingIsWhole ==
    ASSUME PathInv, Ask
    PROVE  PathInv'
<1>1. /\ pathPc = "expanding" /\ pending = {} /\ UNCHANGED <<route, named, imported, values, pending, path>>
      /\ pathPc' = IF \E i \in DOMAIN path : path[i].form = "hole" THEN "refused" ELSE "asked"
  BY DEF Ask
<1>2. path \in Seq(Filled)
  BY <1>1, SegmentsAreParts DEF PathInv, PathTypes, PathIsFilledIn
<1>3. \A i \in DOMAIN path : path[i].form # "hole"
  BY <1>2, LenProperties, ElementOfSeq DEF Filled
<1>4. pathPc' = "asked"
  BY <1>1, <1>3
<1>5. ValuesAreNamed' /\ PathIsFilledIn'
  BY <1>1, <1>4 DEF PathInv, ValuesAreNamed, PathIsFilledIn, ImportAccepts, Valid
<1> QED
  BY <1>1, <1>4, <1>5 DEF PathInv, PathTypes, TemplateIsWhole, NothingIsPending, ImportsAreFaithful

LEMMA StepPath == PathInv /\ [PathNext]_pathVars => PathInv'
<1> SUFFICES ASSUME PathInv, [PathNext]_pathVars PROVE PathInv'
  OBVIOUS
<1>1. CASE Configure
  <2>1. /\ pathPc = "given" /\ ~imported /\ UNCHANGED <<route, named, imported, path>> /\ Begin(named)
    BY <1>1 DEF Configure
  <2> QED
    BY <2>1, BegunIsWhole
<1>2. CASE ImportState
  BY <1>2, ImportFollows
<1>3. CASE RefuseValues
  BY <1>3, RefusalIsFaithful
<1>4. CASE Ask
  BY <1>4, AskingIsWhole
<1>5. ASSUME NEW p \in pending, ExpandParameter(p) PROVE PathInv'
  BY <1>5, ExpansionFillsIn
<1>6. CASE UNCHANGED pathVars
  BY <1>6 DEF pathVars, PathInv, PathTypes, TemplateIsWhole, ValuesAreNamed, PathIsFilledIn, NothingIsPending,
              ImportsAreFaithful, ImportAccepts, Valid
<1> QED
  BY <1>1, <1>2, <1>3, <1>4, <1>5, <1>6 DEF PathNext

\* Escaping confuses no two of the characters values are made of.
LEMMA EscapeIsOneToOne ==
    ASSUME NEW r \in Routes,
           NEW a \in {Text(t) : t \in Tokens} \cup {Hole(p) : p \in PartsOf(r)},
           NEW b \in {Text(t) : t \in Tokens} \cup {Hole(p) : p \in PartsOf(r)},
           Escape(a) = Escape(b)
    PROVE  a = b
<1> DEFINE special == {"/", "%", " "}
<1>1. \A p \in PartsOf(r) : p \notin special
  BY RoutesAssumption
<1>2. \A w : Text(w).text = w /\ Hole(w).text = w
  BY DEF Text, Hole
<1>3. \A w : Escape(Text(w)).text = w /\ Escape(Hole(w)).text = w
  BY DEF Text, Hole, Escape
<1>4. \A w : Escape(Hole(w)).form = "escaped" /\ (w \notin special => Escape(Text(w)).form = "plain")
  BY DEF Text, Hole, Escape
<1> HIDE DEF special
<1>5. ASSUME NEW t, NEW u, a = Text(t), b = Text(u) PROVE a = b
  BY <1>3, <1>5
<1>6. ASSUME NEW p, NEW q, a = Hole(p), b = Hole(q) PROVE a = b
  BY <1>3, <1>6
<1>7. ASSUME NEW t, NEW p \in PartsOf(r), {a, b} = {Text(t), Hole(p)} PROVE FALSE
  <2>1. Escape(Text(t)) = Escape(Hole(p))
    BY <1>7
  <2>2. t = p
    BY <1>3, <2>1
  <2> QED
    BY <1>1, <1>4, <2>1, <2>2
<1>8. /\ (\E t \in Tokens : a = Text(t)) \/ (\E p \in PartsOf(r) : a = Hole(p))
      /\ (\E t \in Tokens : b = Text(t)) \/ (\E p \in PartsOf(r) : b = Hole(p))
  OBVIOUS
<1> QED
  BY <1>5, <1>6, <1>7, <1>8

LEMMA NamesOfInvariant == PathInv => PathsNameTheirObject
<1> SUFFICES ASSUME PathInv, pathPc = "asked" PROVE PathsNameTheirObject
  BY DEF PathsNameTheirObject
<1> DEFINE whole == Segments(route, named, {})
<1>1. route \in Routes /\ named \in [PartsOf(route) -> Values(route)]
  BY DEF PathInv, PathTypes
<1>2. path = Join(whole) /\ \A p \in route.params : Valid(named[p])
  BY DEF PathInv, PathIsFilledIn, NothingIsPending
<1>3. Split(path) = whole /\ Len(whole) = Len(route.path)
  BY <1>1, <1>2, SegmentsAreParts
<1>4. ASSUME NEW k \in DOMAIN route.path
      PROVE  LET segment == Template(route)[k] IN
             IF segment[1].form = "hole"
             THEN whole[k] = Escaped(named[segment[1].text]) /\ Valid(named[segment[1].text])
             ELSE whole[k] = segment
  <2>1. Template(route)[k][1].form = "hole" => Template(route)[k][1].text \in route.params
    BY <1>1, RoutesAssumption
  <2> QED
    BY <1>2, <2>1 DEF Segments, Segment
<1>5. \A a, b \in {Text(t) : t \in Tokens} \cup {Hole(p) : p \in PartsOf(route)} : Escape(a) = Escape(b) => a = b
  BY <1>1, EscapeIsOneToOne
<1> HIDE DEF whole
<1> QED
  BY <1>3, <1>4, <1>5 DEF PathsNameTheirObject

\* Whatever the values hold and in whatever order they are put in, a path that is asked for
\* names the object that was meant (ExpandPath, ValidatePathParameter).
THEOREM PathsNameTheirObjectAlways == PathSpec => []PathsNameTheirObject
BY InitPath, StepPath, NamesOfInvariant, PTL DEF PathSpec

\* An import identifier made of an object's values leads to these values or is refused, and
\* is refused only for a slash in a value or a value no path may have (ImportState).
THEOREM ImportsAreFaithfulAlways == PathSpec => []ImportsAreFaithful
<1>1. PathInv => ImportsAreFaithful
  BY DEF PathInv
<1> QED
  BY <1>1, InitPath, StepPath, PTL DEF PathSpec

(***************************************************************************)
(* The origin and the key                                                  *)
(***************************************************************************)

Inputs ==
    /\ attribute \in [Audiences -> {"null", "unknown", "blank", "attribute"}]
    /\ environment \in [Audiences -> {"blank", "environment"}]
    /\ baseURL \in URLs \cup {None}

OriginInv == Inputs /\ ClientsAreConfigured /\ RequestIsOfClient

LEMMA DefaultIsURL == DefaultURL \in URLs
BY HostsAssumption DEF DefaultURL, URLs

LEMMA EndpointIsURL == Inputs => Endpoint \in URLs
BY DefaultIsURL DEF Inputs, Endpoint

LEMMA InitConfigured == Init => OriginInv
BY DEF Init, OriginInv, Inputs, ClientsAreConfigured, RequestIsOfClient

\* A key that is in effect was given.
LEMMA KeysAreGiven ==
    ASSUME Inputs, Acceptable, NEW a \in Audiences, Key(a) # "blank"
    PROVE  Key(a) \in {"attribute", "environment"} /\ Key(a) \in {attribute[a], environment[a]}
<1>1. Key(a) = Setting(a)
  BY DEF Key
<1>2. attribute[a] # "unknown"
  BY DEF Acceptable
<1> QED
  BY <1>1, <1>2 DEF Setting, Inputs

\* Nothing that follows from the inputs changes.
LEMMA InputsStay ==
    ASSUME UNCHANGED inputVars
    PROVE  /\ Inputs' = Inputs
           /\ Endpoint' = Endpoint
           /\ Ignored' = Ignored
           /\ Acceptable' = Acceptable
           /\ \A a \in Audiences : Key(a)' = Key(a)
<1>1. attribute' = attribute /\ environment' = environment /\ baseURL' = baseURL
  BY DEF inputVars
<1>2. Inputs' = Inputs /\ Endpoint' = Endpoint
  BY <1>1 DEF Inputs, Endpoint
<1>3. \A a \in Audiences : Setting(a)' = Setting(a)
  BY <1>1 DEF Setting
<1>4. Ignored' = Ignored
  BY <1>1, <1>2 DEF Ignored, Setting
<1>5. \A a \in Audiences : Key(a)' = Key(a)
  BY <1>3, <1>4 DEF Key
<1>6. Acceptable' = Acceptable
  BY <1>1, <1>2, <1>5 DEF Acceptable
<1> QED
  BY <1>2, <1>4, <1>5, <1>6

LEMMA ClientsStay ==
    ASSUME ClientsAreConfigured, UNCHANGED <<inputVars, clients, warned>>, pc' = "configured" => pc = "configured"
    PROVE  ClientsAreConfigured'
<1>1. UNCHANGED inputVars
  OBVIOUS
<1> QED
  BY <1>1, InputsStay DEF ClientsAreConfigured

LEMMA StepConfigured == OriginInv /\ [Next]_vars => OriginInv'
<1> SUFFICES ASSUME OriginInv, [Next]_vars PROVE OriginInv'
  OBVIOUS
<1> USE DEF OriginInv
<1>1. CASE Accept
  <2>1. /\ UNCHANGED inputVars /\ Acceptable /\ warned' = Ignored /\ request' = request /\ pc = "new"
        /\ clients' = [a \in {b \in Audiences : Key(b) # "blank"} |-> Key(a)]
    BY <1>1 DEF Accept, Warning
  <2>2. ClientsAreConfigured'
    BY <2>1, InputsStay DEF ClientsAreConfigured
  <2>3. RequestIsOfClient'
    BY <2>1, InputsStay DEF RequestIsOfClient, ClientsAreConfigured
  <2> QED
    BY <2>1, <2>2, <2>3, InputsStay
<1>2. CASE Refuse
  BY <1>2, InputsStay, ClientsStay DEF Refuse, RequestIsOfClient
<1>3. CASE End
  BY <1>3, InputsStay, ClientsStay DEF End, RequestIsOfClient
<1>4. ASSUME NEW a \in Audiences, Send(a) PROVE OriginInv'
  BY <1>4, InputsStay, ClientsStay, EndpointIsURL DEF Send, RequestIsOfClient
<1>5. ASSUME NEW url \in URLs, FollowRedirect(url) PROVE OriginInv'
  BY <1>5, InputsStay, ClientsStay DEF FollowRedirect, RequestIsOfClient
<1>6. CASE UNCHANGED vars
  BY <1>6, InputsStay, ClientsStay DEF vars, RequestIsOfClient
<1> QED
  BY <1>1, <1>2, <1>3, <1>4, <1>5, <1>6 DEF Next

LEMMA HomeOfInvariant == OriginInv => KeysStayHome
<1> SUFFICES ASSUME OriginInv, request # None PROVE KeysStayHome
  BY DEF KeysStayHome
<1> DEFINE a == request.audience
<1>1. a \in Audiences /\ Acceptable /\ Key(a) # "blank" /\ request.key = Key(a)
      /\ request.url \in URLs /\ (request.url = Endpoint \/ sameAPIOrigin(request.url, Endpoint))
  BY DEF OriginInv, RequestIsOfClient, ClientsAreConfigured
<1>2. Inputs /\ Endpoint \in URLs /\ validAPIBaseURL(Endpoint)
  BY <1>1, EndpointIsURL DEF OriginInv, Acceptable
<1>3. request.url.scheme = "https" \/ \E h \in Loopback : Canonical[request.url.host] = Canonical[h]
  <2>1. request.url.scheme = Endpoint.scheme /\ Canonical[request.url.host] = Canonical[Endpoint.host]
    BY <1>1 DEF sameAPIOrigin
  <2>2. secureScheme(Endpoint)
    BY <1>2 DEF validAPIBaseURL
  <2> QED
    BY <2>1, <2>2 DEF secureScheme
<1>4. request.key \in {"attribute", "environment"} /\ request.key \in {attribute[a], environment[a]}
  BY <1>1, <1>2, KeysAreGiven
<1>5. ASSUME a = "project", request.key = "environment"
      PROVE  /\ request.url.scheme = "https" /\ effectivePort(request.url) = 443
             /\ Canonical[request.url.host] = Canonical[DefaultHost]
  <2>1. ~Ignored /\ Setting("project") = "environment"
    BY <1>1, <1>5 DEF Key
  <2>2. sameAPIOrigin(Endpoint, DefaultURL)
    BY <2>1 DEF Ignored
  <2>3. Endpoint.scheme = "https" /\ effectivePort(Endpoint) = 443 /\ Canonical[Endpoint.host] = Canonical[DefaultHost]
    BY <2>2 DEF sameAPIOrigin, effectivePort, DefaultURL
  <2> QED
    BY <2>3, <1>1 DEF sameAPIOrigin
<1> QED
  BY <1>1, <1>3, <1>4, <1>5 DEF KeysStayHome

LEMMA ReportedOfInvariant == OriginInv => KeysAreUsedOrReported
<1> SUFFICES ASSUME OriginInv, pc = "configured" PROVE KeysAreUsedOrReported
  BY DEF KeysAreUsedOrReported
<1>1. Acceptable /\ warned = Ignored /\ \A a \in Audiences : Key(a) # "blank" => a \in DOMAIN clients
  BY DEF OriginInv, ClientsAreConfigured
<1>2. DOMAIN clients # {}
  BY <1>1 DEF Acceptable
<1>3. ASSUME NEW a \in Audiences, Setting(a) # "blank" PROVE a \in DOMAIN clients \/ warned
  BY <1>1, <1>3 DEF Key, Ignored
<1> QED
  BY <1>2, <1>3 DEF KeysAreUsedOrReported

\* Keys go to the configured origin only, OPENAI_API_KEY to the default one only
\* (sameAPIOrigin, CheckRedirect and the origin test of Configure together).
THEOREM KeysStayHomeAlways == Spec => []KeysStayHome
BY InitConfigured, StepConfigured, HomeOfInvariant, PTL DEF Spec

\* No key that was given is dropped in silence by a Configure that succeeds.
THEOREM NoKeyIsDroppedInSilence == Spec => []KeysAreUsedOrReported
BY InitConfigured, StepConfigured, ReportedOfInvariant, PTL DEF Spec

(***************************************************************************)
(* Origin and path                                                         *)
(***************************************************************************)

TargetInv ==
    \/ target = "origin" /\ OriginInv
    \/ target = "path" /\ PathInv

TargetsAreKept ==
    /\ target = "origin" => KeysStayHome /\ KeysAreUsedOrReported
    /\ target = "path" => PathsNameTheirObject /\ ImportsAreFaithful

LEMMA InitTarget == TargetInit => TargetInv
BY InitConfigured, InitPath DEF TargetInit, TargetInv

LEMMA StepTarget == TargetInv /\ [TargetNext]_targetVars => TargetInv'
<1> SUFFICES ASSUME TargetInv, [TargetNext]_targetVars PROVE TargetInv'
  OBVIOUS
<1>1. CASE target = "origin"
  <2>1. OriginInv /\ [Next]_vars /\ target' = "origin"
    BY <1>1 DEF TargetInv, TargetNext, targetVars
  <2> QED
    BY <2>1, StepConfigured DEF TargetInv
<1>2. CASE target = "path"
  <2>1. PathInv /\ [PathNext]_pathVars /\ target' = "path"
    BY <1>2 DEF TargetInv, TargetNext, targetVars
  <2> QED
    BY <2>1, StepPath DEF TargetInv
<1> QED
  BY <1>1, <1>2 DEF TargetInv

LEMMA TargetsOfInvariant == TargetInv => TargetsAreKept
<1>1. PathInv => ImportsAreFaithful
  BY DEF PathInv
<1> QED
  BY <1>1, HomeOfInvariant, ReportedOfInvariant, NamesOfInvariant DEF TargetInv, TargetsAreKept

\* Where a request goes, as a whole: the key of the origin and the object of the path.
THEOREM TargetsAreKeptAlways == TargetSpec => []TargetsAreKept
BY InitTarget, StepTarget, TargetsOfInvariant, PTL DEF TargetSpec

(***************************************************************************)
(* Layers of values                                                        *)
(***************************************************************************)

Below(n) == IF n = 0 THEN {} ELSE Layered[n - 1]

LEMMA LayersAreNumbers == Layers + 1 \in Nat /\ Layers \in 0..Layers + 1 /\ Layers + 1 \in 0..Layers + 1
BY StructuredAssumption

LEMMA LayeredUnfolds ==
    \A n \in 0..Layers + 1 : Layered[n] = ValuesOver(Below(n))
<1> DEFINE Upto(f, m) == f = [n \in 0..m |-> ValuesOver(IF n = 0 THEN {} ELSE f[n - 1])]
           T == {m \in Nat : \E f : Upto(f, m)}
<1>1. 0 \in T
  <2> DEFINE f == [n \in 0..0 |-> ValuesOver({})]
  <2>1. f = [n \in 0..0 |-> ValuesOver(IF n = 0 THEN {} ELSE f[n - 1])]
    OBVIOUS
  <2> HIDE DEF f
  <2> QED
    BY <2>1
<1>2. ASSUME NEW m \in Nat, m \in T PROVE m + 1 \in T
  <2>1. PICK f : Upto(f, m)
    BY <1>2
  <2> DEFINE g == [n \in 0..m + 1 |-> ValuesOver(IF n = 0 THEN {} ELSE f[n - 1])]
  <2>2. \A n \in 0..m : g[n] = f[n]
    BY <2>1
  <2>3. \A n \in 0..m + 1 : n # 0 => n - 1 \in 0..m
    OBVIOUS
  <2>4. \A n \in 0..m + 1 : (IF n = 0 THEN {} ELSE f[n - 1]) = (IF n = 0 THEN {} ELSE g[n - 1])
    BY <2>2, <2>3
  <2>5. g = [n \in 0..m + 1 |-> ValuesOver(IF n = 0 THEN {} ELSE g[n - 1])]
    BY <2>4
  <2> HIDE DEF g
  <2>6. Upto(g, m + 1)
    BY <2>5
  <2> QED
    BY <2>6
<1>3. Layers + 1 \in T
  <2> HIDE DEF T
  <2> QED
    BY <1>1, <1>2, NumbersByInduction, LayersAreNumbers
<1>4. \E f : f = [n \in 0..Layers + 1 |-> ValuesOver(IF n = 0 THEN {} ELSE f[n - 1])]
  BY <1>3
<1>5. Layered = [n \in 0..Layers + 1 |-> ValuesOver(IF n = 0 THEN {} ELSE Layered[n - 1])]
  BY <1>4 DEF Layered
<1> QED
  BY <1>5 DEF Below

LEMMA KindsOfValue ==
    ASSUME NEW S, NEW v \in ValuesOver(S)
    PROVE  \/ v = Null
           \/ v = Unknown
           \/ DOMAIN v = {"string"} /\ v.string \in STRING
           \/ DOMAIN v = {"number"} /\ v.number \in STRING
           \/ DOMAIN v = {"dynamic"} /\ v.dynamic \in S /\ v = Dynamic(v.dynamic)
           \/ DOMAIN v = {"object"} /\ v.object \in [MemberNames -> S \cup {Missing}] /\ v = [object |-> v.object]
           \/ DOMAIN v = {"map"} /\ v.map \in [MemberNames -> S \cup {Missing}] /\ v = [map |-> v.map]
           \/ DOMAIN v = {"list"} /\ v.list \in Seq(S) /\ v = List(v.list)
           \/ DOMAIN v = {"tuple"} /\ v.tuple \in Seq(S) /\ v = Tuple(v.tuple)
           \/ DOMAIN v = {"array"} /\ v.array \in Seq(S) /\ v = Array(v.array)
<1> DEFINE M == [MemberNames -> S \cup {Missing}]
           Q == Seq(S)
<1>1. v \in {Null, Unknown} \cup [string : STRING] \cup [number : STRING] \cup [dynamic : S]
         \cup [object : M] \cup [map : M] \cup [list : Q] \cup [tuple : Q] \cup [array : Q]
  BY DEF ValuesOver
<1> HIDE DEF M, Q
<1>2. CASE v \in {Null, Unknown}
  BY <1>2
<1>3. CASE v \in [string : STRING]
  BY <1>3
<1>4. CASE v \in [number : STRING]
  BY <1>4
<1>5. CASE v \in [dynamic : S]
  BY <1>5 DEF Dynamic
<1>6. CASE v \in [object : M]
  BY <1>6 DEF M
<1>7. CASE v \in [map : M]
  BY <1>7 DEF M
<1>8. CASE v \in [list : Q]
  BY <1>8 DEF Q, List
<1>9. CASE v \in [tuple : Q]
  BY <1>9 DEF Q, Tuple
<1>10. CASE v \in [array : Q]
  BY <1>10 DEF Q, Array
<1> QED
  BY <1>1, <1>2, <1>3, <1>4, <1>5, <1>6, <1>7, <1>8, <1>9, <1>10

LEMMA NullHasNoKind ==
    /\ DOMAIN Null = {"null"} /\ DOMAIN Unknown = {"unknown"} /\ DOMAIN Missing = {"missing"}
    /\ Null # Unknown /\ Null # Missing /\ Unknown # Missing
BY DEF Null, Unknown, Missing

LEMMA MembersAreBelow ==
    ASSUME NEW S, NEW v \in ValuesOver(S)
    PROVE  MembersOf(v) \subseteq S
<1> USE DEF MembersOf, Is, NamesOf, Has
<1>1. CASE v = Null \/ v = Unknown
  BY <1>1, NullHasNoKind
<1>2. CASE DOMAIN v = {"string"} \/ DOMAIN v = {"number"}
  BY <1>2
<1>3. CASE DOMAIN v = {"dynamic"} /\ v.dynamic \in S
  BY <1>3
<1>4. CASE DOMAIN v = {"object"} /\ v.object \in [MemberNames -> S \cup {Missing}]
  BY <1>4
<1>5. CASE DOMAIN v = {"map"} /\ v.map \in [MemberNames -> S \cup {Missing}]
  BY <1>5
<1>6. CASE DOMAIN v = {"list"} /\ v.list \in Seq(S)
  BY <1>6, ElementOfSeq, LenProperties DEF Range
<1>7. CASE DOMAIN v = {"tuple"} /\ v.tuple \in Seq(S)
  BY <1>7, ElementOfSeq, LenProperties DEF Range
<1>8. CASE DOMAIN v = {"array"} /\ v.array \in Seq(S)
  BY <1>8, ElementOfSeq, LenProperties DEF Range
<1> QED
  BY <1>1, <1>2, <1>3, <1>4, <1>5, <1>6, <1>7, <1>8, KindsOfValue

LEMMA ValuesGrow ==
    ASSUME NEW S, NEW T, S \subseteq T
    PROVE  ValuesOver(S) \subseteq ValuesOver(T)
<1>1. Seq(S) \subseteq Seq(T)
  <2> SUFFICES ASSUME NEW s \in Seq(S) PROVE s \in Seq(T)
    OBVIOUS
  <2>1. s \in [1..Len(s) -> S] /\ Len(s) \in Nat
    BY LenProperties
  <2>2. s \in [1..Len(s) -> T]
    BY <2>1
  <2> QED
    BY <2>1, <2>2, SeqDef
<1>2. [MemberNames -> S \cup {Missing}] \subseteq [MemberNames -> T \cup {Missing}]
  OBVIOUS
<1> DEFINE A == [MemberNames -> S \cup {Missing}]
           B == [MemberNames -> T \cup {Missing}]
           C == Seq(S)
           D == Seq(T)
<1>3. A \subseteq B /\ C \subseteq D
  BY <1>1, <1>2
<1>4. ValuesOver(S) = {Null, Unknown} \cup [string : STRING] \cup [number : STRING] \cup [dynamic : S]
         \cup [object : A] \cup [map : A] \cup [list : C] \cup [tuple : C] \cup [array : C]
  BY DEF ValuesOver
<1>5. ValuesOver(T) = {Null, Unknown} \cup [string : STRING] \cup [number : STRING] \cup [dynamic : T]
         \cup [object : B] \cup [map : B] \cup [list : D] \cup [tuple : D] \cup [array : D]
  BY DEF ValuesOver
<1> HIDE DEF A, B, C, D
<1> QED
  BY <1>3, <1>4, <1>5

LEMMA LayersGrow ==
    \A n \in Nat : n <= Layers + 1 => Below(n) \subseteq Layered[n]
<1> DEFINE T == {n \in Nat : n <= Layers + 1 => Below(n) \subseteq Layered[n]}
<1>1. 0 \in T
  BY DEF Below
<1>2. ASSUME NEW n \in Nat, n \in T PROVE n + 1 \in T
  <2> SUFFICES ASSUME n + 1 <= Layers + 1 PROVE Below(n + 1) \subseteq Layered[n + 1]
    OBVIOUS
  <2>1. n \in 0..Layers + 1 /\ n + 1 \in 0..Layers + 1 /\ n <= Layers + 1
    BY LayersAreNumbers
  <2>2. Below(n + 1) = Layered[n]
    BY DEF Below
  <2>3. Below(n) \subseteq Below(n + 1)
    BY <1>2, <2>1, <2>2
  <2>4. Layered[n] = ValuesOver(Below(n)) /\ Layered[n + 1] = ValuesOver(Below(n + 1))
    BY <2>1, LayeredUnfolds
  <2> QED
    BY <2>2, <2>3, <2>4, ValuesGrow
<1> HIDE DEF T
<1>3. Nat \subseteq T
  BY <1>1, <1>2, NumbersByInduction
<1> QED
  BY <1>3 DEF T

LEMMA LayersNest ==
    \A n \in Nat : n <= Layers + 1 => Layered[n] \subseteq AllValues /\ Below(n) \subseteq AllValues
<1> DEFINE T == {n \in Nat : n <= Layers + 1 => Layered[Layers + 1 - n] \subseteq AllValues}
<1>1. 0 \in T
  <2>1. Layers + 1 - 0 = Layers + 1
    BY LayersAreNumbers
  <2> QED
    BY <2>1 DEF AllValues
<1>2. ASSUME NEW n \in Nat, n \in T PROVE n + 1 \in T
  <2> SUFFICES ASSUME n + 1 <= Layers + 1 PROVE Layered[Layers + 1 - (n + 1)] \subseteq AllValues
    OBVIOUS
  <2> DEFINE m == Layers + 1 - n
  <2>1. m \in Nat /\ m <= Layers + 1 /\ m # 0 /\ m - 1 = Layers + 1 - (n + 1) /\ n <= Layers + 1
    BY LayersAreNumbers
  <2>2. Layered[m] \subseteq AllValues
    BY <1>2, <2>1
  <2> HIDE DEF m
  <2>3. Below(m) = Layered[m - 1]
    BY <2>1 DEF Below
  <2>4. Below(m) \subseteq Layered[m]
    BY <2>1, LayersGrow
  <2> QED
    BY <2>1, <2>2, <2>3, <2>4
<1>3. Nat \subseteq T
  <2> HIDE DEF T
  <2> QED
    BY <1>1, <1>2, NumbersByInduction
<1>4. ASSUME NEW n \in Nat, n <= Layers + 1 PROVE Layered[n] \subseteq AllValues
  <2>1. Layers + 1 - n \in Nat /\ Layers + 1 - n <= Layers + 1 /\ Layers + 1 - (Layers + 1 - n) = n
    BY <1>4, LayersAreNumbers
  <2>2. Layers + 1 - n \in T
    BY <1>3, <2>1
  <2> QED
    BY <2>1, <2>2
<1> QED
  BY <1>4, LayersGrow

LEMMA MembersOfLayer ==
    ASSUME NEW n \in Nat, n <= Layers + 1, NEW v \in Layered[n]
    PROVE  v \in AllValues /\ v \in ValuesOver(Below(n)) /\ MembersOf(v) \subseteq Below(n)
<1>1. n \in 0..Layers + 1
  BY LayersAreNumbers
<1>2. v \in ValuesOver(Below(n))
  BY <1>1, LayeredUnfolds
<1> QED
  BY <1>2, MembersAreBelow, LayersNest

LEMMA AllValuesIsLayer ==
    /\ AllValues = Layered[Layers + 1] /\ AllValues = ValuesOver(Layered[Layers])
    /\ Layered[Layers] \subseteq AllValues /\ Layered[Layers] = Below(Layers + 1)
<1>1. Layers + 1 # 0 /\ Layers + 1 - 1 = Layers /\ Layers \in Nat /\ Layers <= Layers + 1
  BY StructuredAssumption
<1>2. Below(Layers + 1) = Layered[Layers]
  BY <1>1 DEF Below
<1> QED
  BY <1>1, <1>2, LayersAreNumbers, LayeredUnfolds, LayersNest DEF AllValues

LEMMA MembersAreValues ==
    ASSUME NEW v \in AllValues
    PROVE  MembersOf(v) \subseteq AllValues
BY AllValuesIsLayer, MembersAreBelow

\* What holds of a value when it holds of its members holds of every value.
LEMMA ValuesByInduction ==
    ASSUME NEW P, \A v \in AllValues : MembersOf(v) \subseteq P => v \in P
    PROVE  AllValues \subseteq P
<1> DEFINE T == {n \in Nat : n <= Layers + 2 => Below(n) \subseteq P}
<1>1. 0 \in T
  BY DEF Below
<1>2. ASSUME NEW n \in Nat, n \in T PROVE n + 1 \in T
  <2> SUFFICES ASSUME n + 1 <= Layers + 2, NEW v \in Below(n + 1) PROVE v \in P
    OBVIOUS
  <2>1. n <= Layers + 1 /\ n <= Layers + 2
    BY LayersAreNumbers
  <2>2. v \in Layered[n]
    BY DEF Below
  <2>3. v \in AllValues /\ MembersOf(v) \subseteq Below(n)
    BY <2>1, <2>2, MembersOfLayer
  <2> QED
    BY <1>2, <2>1, <2>3
<1>3. Layers + 2 \in T
  <2> HIDE DEF T
  <2>1. Nat \subseteq T
    BY <1>1, <1>2, NumbersByInduction
  <2> QED
    BY <2>1, StructuredAssumption
<1>4. Below(Layers + 2) = AllValues
  BY StructuredAssumption DEF Below, AllValues
<1> QED
  BY <1>3, <1>4, StructuredAssumption

LEMMA ObjectParts ==
    ASSUME NEW S, NEW v \in ValuesOver(S), Is("object", v)
    PROVE  /\ DOMAIN v = {"object"} /\ v = [object |-> v.object]
           /\ v.object \in [MemberNames -> S \cup {Missing}]
           /\ \A n \in NamesOf(v.object) : v.object[n] \in MembersOf(v) /\ v.object[n] \in S
<1>1. DOMAIN v = {"object"} /\ v.object \in [MemberNames -> S \cup {Missing}] /\ v = [object |-> v.object]
  BY KindsOfValue, NullHasNoKind DEF Is
<1>2. MembersOf(v) = {v.object[n] : n \in NamesOf(v.object)}
  BY <1>1 DEF MembersOf, Is
<1> QED
  BY <1>1, <1>2 DEF NamesOf, Has

LEMMA MapParts ==
    ASSUME NEW S, NEW v \in ValuesOver(S), Is("map", v)
    PROVE  /\ DOMAIN v = {"map"} /\ v = [map |-> v.map]
           /\ v.map \in [MemberNames -> S \cup {Missing}]
           /\ \A n \in NamesOf(v.map) : v.map[n] \in MembersOf(v) /\ v.map[n] \in S
<1>1. DOMAIN v = {"map"} /\ v.map \in [MemberNames -> S \cup {Missing}] /\ v = [map |-> v.map]
  BY KindsOfValue, NullHasNoKind DEF Is
<1>2. MembersOf(v) = {v.map[n] : n \in NamesOf(v.map)}
  BY <1>1 DEF MembersOf, Is
<1> QED
  BY <1>1, <1>2 DEF NamesOf, Has

LEMMA DynamicParts ==
    ASSUME NEW S, NEW v \in ValuesOver(S), Is("dynamic", v)
    PROVE  /\ DOMAIN v = {"dynamic"} /\ v = Dynamic(v.dynamic)
           /\ v.dynamic \in S /\ v.dynamic \in MembersOf(v)
<1>1. DOMAIN v = {"dynamic"} /\ v.dynamic \in S /\ v = Dynamic(v.dynamic)
  BY KindsOfValue, NullHasNoKind DEF Is
<1>2. MembersOf(v) = {v.dynamic}
  BY <1>1 DEF MembersOf, Is
<1> QED
  BY <1>1, <1>2

LEMMA ListParts ==
    ASSUME NEW S, NEW v \in ValuesOver(S), Is("list", v)
    PROVE  /\ DOMAIN v = {"list"} /\ v = List(v.list)
           /\ v.list \in Seq(S) /\ Len(v.list) \in Nat /\ DOMAIN v.list = 1..Len(v.list)
           /\ \A i \in DOMAIN v.list : v.list[i] \in MembersOf(v) /\ v.list[i] \in S
<1>1. DOMAIN v = {"list"} /\ v.list \in Seq(S) /\ v = List(v.list)
  BY KindsOfValue, NullHasNoKind DEF Is
<1>2. MembersOf(v) = Range(v.list)
  BY <1>1 DEF MembersOf, Is
<1>3. Len(v.list) \in Nat /\ DOMAIN v.list = 1..Len(v.list)
  BY <1>1, LenProperties
<1> QED
  BY <1>1, <1>2, <1>3, ElementOfSeq DEF Range

LEMMA TupleParts ==
    ASSUME NEW S, NEW v \in ValuesOver(S), Is("tuple", v)
    PROVE  /\ DOMAIN v = {"tuple"} /\ v = Tuple(v.tuple)
           /\ v.tuple \in Seq(S) /\ Len(v.tuple) \in Nat /\ DOMAIN v.tuple = 1..Len(v.tuple)
           /\ \A i \in DOMAIN v.tuple : v.tuple[i] \in MembersOf(v) /\ v.tuple[i] \in S
<1>1. DOMAIN v = {"tuple"} /\ v.tuple \in Seq(S) /\ v = Tuple(v.tuple)
  BY KindsOfValue, NullHasNoKind DEF Is
<1>2. MembersOf(v) = Range(v.tuple)
  BY <1>1 DEF MembersOf, Is
<1>3. Len(v.tuple) \in Nat /\ DOMAIN v.tuple = 1..Len(v.tuple)
  BY <1>1, LenProperties
<1> QED
  BY <1>1, <1>2, <1>3, ElementOfSeq DEF Range

LEMMA ArrayParts ==
    ASSUME NEW S, NEW v \in ValuesOver(S), Is("array", v)
    PROVE  /\ DOMAIN v = {"array"} /\ v = Array(v.array)
           /\ v.array \in Seq(S) /\ Len(v.array) \in Nat /\ DOMAIN v.array = 1..Len(v.array)
           /\ \A i \in DOMAIN v.array : v.array[i] \in MembersOf(v) /\ v.array[i] \in S
<1>1. DOMAIN v = {"array"} /\ v.array \in Seq(S) /\ v = Array(v.array)
  BY KindsOfValue, NullHasNoKind DEF Is
<1>2. MembersOf(v) = Range(v.array)
  BY <1>1 DEF MembersOf, Is
<1>3. Len(v.array) \in Nat /\ DOMAIN v.array = 1..Len(v.array)
  BY <1>1, LenProperties
<1> QED
  BY <1>1, <1>2, <1>3, ElementOfSeq DEF Range

LEMMA ScalarParts ==
    ASSUME NEW S, NEW v \in ValuesOver(S), IsScalar(v)
    PROVE  /\ DOMAIN v \in {{"string"}, {"number"}}
           /\ MembersOf(v) = {}
<1>1. DOMAIN v \in {{"string"}, {"number"}}
  BY KindsOfValue, NullHasNoKind DEF IsScalar, Is
<1> QED
  BY <1>1 DEF MembersOf, Is

LEMMA NullParts ==
    /\ MembersOf(Null) = {} /\ MembersOf(Unknown) = {}
    /\ \A n \in Nat : n <= Layers + 1 => Null \in Layered[n] /\ Unknown \in Layered[n] /\ Missing \notin Layered[n]
<1>1. MembersOf(Null) = {} /\ MembersOf(Unknown) = {}
  BY NullHasNoKind DEF MembersOf, Is
<1>2. ASSUME NEW S PROVE Null \in ValuesOver(S) /\ Unknown \in ValuesOver(S)
  BY DEF ValuesOver
<1>3. ASSUME NEW S PROVE Missing \notin ValuesOver(S)
  BY KindsOfValue, NullHasNoKind
<1>4. \A n \in Nat : n <= Layers + 1 => n \in 0..Layers + 1
  BY LayersAreNumbers
<1> QED
  BY <1>1, <1>2, <1>3, <1>4, LayeredUnfolds

\* Which of the kinds a value is of.
LEMMA KindOf ==
    ASSUME NEW S, NEW v \in ValuesOver(S)
    PROVE  v = Null \/ v = Unknown \/ IsScalar(v) \/ Is("dynamic", v) \/ Is("object", v) \/ Is("map", v)
           \/ Is("list", v) \/ Is("tuple", v) \/ Is("array", v)
BY KindsOfValue DEF IsScalar, Is

(***************************************************************************)
(* The recursive functions are what their definitions say                  *)
(***************************************************************************)

WithinFrom(f, v) == {v} \cup UNION {f[m] : m \in MembersOf(v)}

RequestBody(f, v, keepNull) ==
    CASE Is("dynamic", v) -> f[v.dynamic][TRUE]
      [] Is("object", v) ->
            LET kept == {n \in NamesOf(v.object) : Keeps(keepNull) \/ v.object[n] # Null} IN
            Object([n \in kept |-> f[v.object[n]][keepNull]])
      [] Is("map", v) -> Object([n \in NamesOf(v.map) |-> f[v.map[n]][keepNull]])
      [] Is("list", v) -> Array([i \in DOMAIN v.list |-> f[v.list[i]][TRUE]])
      [] Is("tuple", v) -> Array([i \in DOMAIN v.tuple |-> f[v.tuple[i]][TRUE]])
      [] OTHER -> v

RequestFrom(f, v) == [keepNull \in BOOLEAN |-> RequestBody(f, v, keepNull)]

HasTypeBody(f, json, type) ==
    \/ json = Null
    \/ Is("dynamic", type)
    \/ Is("string", type) /\ IsScalar(json)
    \/ Is("list", type) /\ Is("array", json) /\ \A i \in DOMAIN json.array : f[json.array[i]][type.list]
    \/ /\ Is("object", type) /\ Is("object", json)
       /\ \A n \in NamesOf(type.object) \cap NamesOf(json.object) : f[json.object[n]][type.object[n]]

HasTypeFrom(f, json) == [type \in Types |-> HasTypeBody(f, json, type)]

InferredFrom(f, json) ==
    CASE Is("object", json) -> Object([n \in NamesOf(json.object) |-> f[json.object[n]]])
      [] Is("array", json) -> Tuple([i \in DOMAIN json.array |-> f[json.array[i]]])
      [] OTHER -> json

AttributeBody(f, json, type) ==
    CASE json = Null -> Null
      [] json # Null /\ Is("dynamic", type) -> Dynamic(Inferred[json])
      [] Is("list", type) /\ Is("array", json) ->
            List([i \in DOMAIN json.array |-> f[json.array[i]][type.list]])
      [] Is("object", type) /\ Is("object", json) ->
            Object([n \in NamesOf(type.object) |->
                IF Has(json.object, n) THEN f[json.object[n]][type.object[n]] ELSE Null])
      [] OTHER -> AsText(json)

AttributeFrom(f, json) == [type \in Types |-> AttributeBody(f, json, type)]

MeansBody(f, value, json, type) ==
    \/ value = Null /\ json = Null
    \/ IsScalar(json) /\ value = (IF Is("string", type) THEN String(Wording(json)) ELSE json)
    \/ Is("dynamic", value) /\ f[value.dynamic][json][type]
    \/ /\ Is("object", value) /\ Is("object", type) /\ Is("object", json)
       /\ NamesOf(value.object) = NamesOf(type.object)
       /\ \A n \in NamesOf(type.object) :
              f[value.object[n]][IF Has(json.object, n) THEN json.object[n] ELSE Null][type.object[n]]
    \/ /\ Is("object", value) /\ Is("dynamic", type) /\ Is("object", json)
       /\ NamesOf(value.object) = NamesOf(json.object)
       /\ \A n \in NamesOf(json.object) : f[value.object[n]][json.object[n]][type]
    \/ /\ Is("map", value) /\ Is("object", json)
       /\ NamesOf(value.map) = NamesOf(json.object)
       /\ \A n \in NamesOf(json.object) : f[value.map[n]][json.object[n]][type]
    \/ /\ Is("list", value) /\ Is("array", json) /\ DOMAIN value.list = DOMAIN json.array
       /\ \A i \in DOMAIN json.array :
              f[value.list[i]][json.array[i]][IF Is("list", type) THEN type.list ELSE type]
    \/ /\ Is("tuple", value) /\ Is("array", json) /\ DOMAIN value.tuple = DOMAIN json.array
       /\ \A i \in DOMAIN json.array : f[value.tuple[i]][json.array[i]][type]

MeansFrom(f, value) == [json \in AllValues |-> [type \in Types |-> MeansBody(f, value, json, type)]]

LEMMA WithinSame ==
    ASSUME NEW v \in AllValues, NEW f, NEW g, \A m \in MembersOf(v) : f[m] = g[m]
    PROVE  WithinFrom(f, v) = WithinFrom(g, v)
BY DEF WithinFrom

\* What the request makes of each kind of value.
LEMMA RequestOfDynamic ==
    ASSUME NEW v \in AllValues, Is("dynamic", v), NEW f, NEW k
    PROVE  RequestBody(f, v, k) =
               f[v.dynamic][TRUE]
<1>1. DOMAIN v = {"dynamic"}
  BY AllValuesIsLayer, DynamicParts
<1> QED
  BY <1>1, NullHasNoKind DEF Is, IsScalar, RequestBody

LEMMA RequestOfObject ==
    ASSUME NEW v \in AllValues, Is("object", v), NEW f, NEW k
    PROVE  RequestBody(f, v, k) =
               Object([n \in {n \in NamesOf(v.object) : Keeps(k) \/ v.object[n] # Null} |-> f[v.object[n]][k]])
<1>1. DOMAIN v = {"object"}
  BY AllValuesIsLayer, ObjectParts
<1> QED
  BY <1>1, NullHasNoKind DEF Is, IsScalar, RequestBody

LEMMA RequestOfMap ==
    ASSUME NEW v \in AllValues, Is("map", v), NEW f, NEW k
    PROVE  RequestBody(f, v, k) =
               Object([n \in NamesOf(v.map) |-> f[v.map[n]][k]])
<1>1. DOMAIN v = {"map"}
  BY AllValuesIsLayer, MapParts
<1> QED
  BY <1>1, NullHasNoKind DEF Is, IsScalar, RequestBody

LEMMA RequestOfList ==
    ASSUME NEW v \in AllValues, Is("list", v), NEW f, NEW k
    PROVE  RequestBody(f, v, k) =
               Array([i \in DOMAIN v.list |-> f[v.list[i]][TRUE]])
<1>1. DOMAIN v = {"list"}
  BY AllValuesIsLayer, ListParts
<1> QED
  BY <1>1, NullHasNoKind DEF Is, IsScalar, RequestBody

LEMMA RequestOfTuple ==
    ASSUME NEW v \in AllValues, Is("tuple", v), NEW f, NEW k
    PROVE  RequestBody(f, v, k) =
               Array([i \in DOMAIN v.tuple |-> f[v.tuple[i]][TRUE]])
<1>1. DOMAIN v = {"tuple"}
  BY AllValuesIsLayer, TupleParts
<1> QED
  BY <1>1, NullHasNoKind DEF Is, IsScalar, RequestBody

LEMMA RequestOfOthers ==
    ASSUME NEW v \in AllValues, v = Null \/ v = Unknown \/ IsScalar(v) \/ Is("array", v), NEW f, NEW k
    PROVE  RequestBody(f, v, k) = v
<1>1. DOMAIN v \in {{"null"}, {"unknown"}, {"string"}, {"number"}, {"array"}}
  BY AllValuesIsLayer, ScalarParts, ArrayParts, NullHasNoKind
<1> QED
  BY <1>1, NullHasNoKind DEF Is, IsScalar, RequestBody

LEMMA RequestSame ==
    ASSUME NEW v \in AllValues, NEW f, NEW g, \A m \in MembersOf(v) : f[m] = g[m]
    PROVE  RequestFrom(f, v) = RequestFrom(g, v)
<1> SUFFICES ASSUME NEW k \in BOOLEAN PROVE RequestBody(f, v, k) = RequestBody(g, v, k)
  BY DEF RequestFrom
<1>1. v \in ValuesOver(Layered[Layers])
  BY AllValuesIsLayer
<1>2. CASE Is("dynamic", v)
  <2>1. RequestBody(f, v, k) = f[v.dynamic][TRUE]
    BY <1>2, RequestOfDynamic
  <2>2. RequestBody(g, v, k) = g[v.dynamic][TRUE]
    BY <1>2, RequestOfDynamic
  <2>3. f[v.dynamic] = g[v.dynamic]
    BY <1>1, <1>2, DynamicParts
  <2> QED
    BY <2>1, <2>2, <2>3
<1>3. CASE Is("object", v)
  <2> DEFINE kept == {n \in NamesOf(v.object) : Keeps(k) \/ v.object[n] # Null}
  <2>1. [n \in kept |-> f[v.object[n]][k]] = [n \in kept |-> g[v.object[n]][k]]
    BY <1>1, <1>3, ObjectParts
  <2>2. RequestBody(f, v, k) = Object([n \in kept |-> f[v.object[n]][k]])
    BY <1>3, RequestOfObject
  <2>3. RequestBody(g, v, k) = Object([n \in kept |-> g[v.object[n]][k]])
    BY <1>3, RequestOfObject
  <2> QED
    BY <2>1, <2>2, <2>3
<1>4. CASE Is("map", v)
  <2>1. [n \in NamesOf(v.map) |-> f[v.map[n]][k]] = [n \in NamesOf(v.map) |-> g[v.map[n]][k]]
    BY <1>1, <1>4, MapParts
  <2>2. RequestBody(f, v, k) = Object([n \in NamesOf(v.map) |-> f[v.map[n]][k]])
    BY <1>4, RequestOfMap
  <2>3. RequestBody(g, v, k) = Object([n \in NamesOf(v.map) |-> g[v.map[n]][k]])
    BY <1>4, RequestOfMap
  <2> QED
    BY <2>1, <2>2, <2>3
<1>5. CASE Is("list", v)
  <2>1. [i \in DOMAIN v.list |-> f[v.list[i]][TRUE]] = [i \in DOMAIN v.list |-> g[v.list[i]][TRUE]]
    BY <1>1, <1>5, ListParts
  <2>2. RequestBody(f, v, k) = Array([i \in DOMAIN v.list |-> f[v.list[i]][TRUE]])
    BY <1>5, RequestOfList
  <2>3. RequestBody(g, v, k) = Array([i \in DOMAIN v.list |-> g[v.list[i]][TRUE]])
    BY <1>5, RequestOfList
  <2> QED
    BY <2>1, <2>2, <2>3
<1>6. CASE Is("tuple", v)
  <2>1. [i \in DOMAIN v.tuple |-> f[v.tuple[i]][TRUE]] = [i \in DOMAIN v.tuple |-> g[v.tuple[i]][TRUE]]
    BY <1>1, <1>6, TupleParts
  <2>2. RequestBody(f, v, k) = Array([i \in DOMAIN v.tuple |-> f[v.tuple[i]][TRUE]])
    BY <1>6, RequestOfTuple
  <2>3. RequestBody(g, v, k) = Array([i \in DOMAIN v.tuple |-> g[v.tuple[i]][TRUE]])
    BY <1>6, RequestOfTuple
  <2> QED
    BY <2>1, <2>2, <2>3
<1>7. CASE v = Null \/ v = Unknown \/ IsScalar(v) \/ Is("array", v)
  BY <1>7, RequestOfOthers
<1> QED
  BY <1>1, <1>2, <1>3, <1>4, <1>5, <1>6, <1>7, KindOf

LeafTypes == {StringType, AnyType, List(StringType)}

LEMMA LeafTypesAre ==
    /\ DOMAIN StringType = {"string"} /\ DOMAIN AnyType = {"dynamic"} /\ DOMAIN List(StringType) = {"list"}
    /\ List(StringType).list = StringType /\ LeafTypes \subseteq Types
BY DEF StringType, AnyType, List, String, Dynamic, LeafTypes, Types

LEMMA NamedMember ==
    ASSUME NEW f, NEW n \in MemberNames
    PROVE  /\ n \in DOMAIN f => Named(f)[n] = f[n]
           /\ n \notin DOMAIN f => Named(f)[n] = Missing
BY DEF Named

LEMMA ObjectTypesAre ==
    ASSUME NEW t \in Types, t \notin LeafTypes
    PROVE  /\ DOMAIN t = {"object"}
           /\ \A n \in NamesOf(t.object) : t.object[n] \in LeafTypes
<1>1. CASE t = VerificationType
  <2> DEFINE f == [type |-> StringType, discovery_url |-> StringType, jwks |-> AnyType]
  <2>1. t = [object |-> Named(f)]
    BY <1>1 DEF VerificationType, Object
  <2>2. DOMAIN t = {"object"} /\ t.object = Named(f)
    BY <2>1
  <2>3. \A n \in DOMAIN f : f[n] \in LeafTypes
    BY DEF LeafTypes
  <2> HIDE DEF f
  <2> QED
    BY <2>2, <2>3, NamedMember DEF NamesOf, Has
<1>2. CASE t = PermissionsType
  <2> DEFINE f == [type |-> StringType, scopes |-> List(StringType)]
  <2>1. t = [object |-> Named(f)]
    BY <1>2 DEF PermissionsType, Object
  <2>2. DOMAIN t = {"object"} /\ t.object = Named(f)
    BY <2>1
  <2>3. \A n \in DOMAIN f : f[n] \in LeafTypes
    BY DEF LeafTypes
  <2> HIDE DEF f
  <2> QED
    BY <2>2, <2>3, NamedMember DEF NamesOf, Has
<1> QED
  BY <1>1, <1>2 DEF Types, LeafTypes

LEMMA TypesInTypes ==
    ASSUME NEW t \in Types
    PROVE  /\ Is("list", t) => t.list = StringType /\ t.list \in Types
           /\ Is("object", t) => \A n \in NamesOf(t.object) : t.object[n] \in Types
<1>1. CASE t \in LeafTypes
  BY <1>1, LeafTypesAre DEF LeafTypes, Is
<1>2. CASE t \notin LeafTypes
  BY <1>2, ObjectTypesAre, LeafTypesAre DEF Is
<1> QED
  BY <1>1, <1>2

LEMMA HasTypeSame ==
    ASSUME NEW v \in AllValues, NEW f, NEW g, \A m \in MembersOf(v) : f[m] = g[m]
    PROVE  HasTypeFrom(f, v) = HasTypeFrom(g, v)
<1> SUFFICES ASSUME NEW t \in Types PROVE HasTypeBody(f, v, t) = HasTypeBody(g, v, t)
  BY DEF HasTypeFrom
<1>1. v \in ValuesOver(Layered[Layers])
  BY AllValuesIsLayer
<1>2. ASSUME Is("array", v), NEW i \in DOMAIN v.array PROVE f[v.array[i]] = g[v.array[i]]
  BY <1>1, <1>2, ArrayParts
<1>3. ASSUME Is("object", v), NEW n \in NamesOf(v.object) PROVE f[v.object[n]] = g[v.object[n]]
  BY <1>1, <1>3, ObjectParts
<1>4. HasTypeBody(f, v, t) <=> HasTypeBody(g, v, t)
  BY <1>2, <1>3 DEF HasTypeBody
<1> QED
  BY <1>4 DEF HasTypeBody

LEMMA InferredSame ==
    ASSUME NEW v \in AllValues, NEW f, NEW g, \A m \in MembersOf(v) : f[m] = g[m]
    PROVE  InferredFrom(f, v) = InferredFrom(g, v)
<1>1. v \in ValuesOver(Layered[Layers])
  BY AllValuesIsLayer
<1>2. CASE Is("array", v)
  <2>1. [i \in DOMAIN v.array |-> f[v.array[i]]] = [i \in DOMAIN v.array |-> g[v.array[i]]]
    BY <1>1, <1>2, ArrayParts
  <2>2. ~Is("object", v)
    BY <1>1, <1>2, ArrayParts DEF Is
  <2> QED
    BY <1>2, <2>1, <2>2 DEF InferredFrom
<1>3. CASE Is("object", v)
  <2>1. [n \in NamesOf(v.object) |-> f[v.object[n]]] = [n \in NamesOf(v.object) |-> g[v.object[n]]]
    BY <1>1, <1>3, ObjectParts
  <2>2. ~Is("array", v)
    BY <1>1, <1>3, ObjectParts DEF Is
  <2> QED
    BY <1>3, <2>1, <2>2 DEF InferredFrom
<1> QED
  BY <1>2, <1>3 DEF InferredFrom

LEMMA AttributeCases ==
    ASSUME NEW v \in AllValues, NEW t \in Types, NEW f
    PROVE  /\ v = Null => AttributeBody(f, v, t) = Null
           /\ v # Null /\ Is("dynamic", t) => AttributeBody(f, v, t) = Dynamic(Inferred[v])
           /\ Is("list", t) /\ Is("array", v) => AttributeBody(f, v, t) =
                  List([i \in DOMAIN v.array |-> f[v.array[i]][t.list]])
           /\ Is("object", t) /\ Is("object", v) => AttributeBody(f, v, t) =
                  Object([n \in NamesOf(t.object) |->
                      IF Has(v.object, n) THEN f[v.object[n]][t.object[n]] ELSE Null])
           /\ v # Null /\ ~Is("dynamic", t) /\ ~(Is("list", t) /\ Is("array", v)) /\ ~(Is("object", t) /\ Is("object", v)) =>
                  AttributeBody(f, v, t) = AsText(v)
<1>1. ~(Is("dynamic", t) /\ Is("list", t)) /\ ~(Is("dynamic", t) /\ Is("object", t)) /\ ~(Is("list", t) /\ Is("object", t))
  <2>1. CASE t \in LeafTypes
    BY <2>1, LeafTypesAre DEF LeafTypes, Is
  <2>2. CASE t \notin LeafTypes
    BY <2>2, ObjectTypesAre DEF Is
  <2> QED
    BY <2>1, <2>2
<1>2. v = Null => ~Is("array", v) /\ ~Is("object", v)
  BY NullHasNoKind DEF Is
<1> QED
  BY <1>1, <1>2 DEF AttributeBody

LEMMA AttributeSame ==
    ASSUME NEW v \in AllValues, NEW f, NEW g, \A m \in MembersOf(v) : f[m] = g[m]
    PROVE  AttributeFrom(f, v) = AttributeFrom(g, v)
<1> SUFFICES ASSUME NEW t \in Types PROVE AttributeBody(f, v, t) = AttributeBody(g, v, t)
  BY DEF AttributeFrom
<1>1. v \in ValuesOver(Layered[Layers])
  BY AllValuesIsLayer
<1>2. CASE Is("list", t) /\ Is("array", v)
  <2>1. [i \in DOMAIN v.array |-> f[v.array[i]][t.list]] = [i \in DOMAIN v.array |-> g[v.array[i]][t.list]]
    BY <1>1, <1>2, ArrayParts
  <2>2. AttributeBody(f, v, t) = List([i \in DOMAIN v.array |-> f[v.array[i]][t.list]])
    BY <1>2, AttributeCases
  <2>3. AttributeBody(g, v, t) = List([i \in DOMAIN v.array |-> g[v.array[i]][t.list]])
    BY <1>2, AttributeCases
  <2> QED
    BY <2>1, <2>2, <2>3
<1>3. CASE Is("object", t) /\ Is("object", v)
  <2> DEFINE F == [n \in NamesOf(t.object) |-> IF Has(v.object, n) THEN f[v.object[n]][t.object[n]] ELSE Null]
             G == [n \in NamesOf(t.object) |-> IF Has(v.object, n) THEN g[v.object[n]][t.object[n]] ELSE Null]
  <2>1. \A n \in NamesOf(t.object) : Has(v.object, n) => f[v.object[n]] = g[v.object[n]]
    BY <1>1, <1>3, ObjectParts DEF NamesOf
  <2>2. F = G
    BY <2>1
  <2>3. AttributeBody(f, v, t) = Object(F)
    BY <1>3, AttributeCases
  <2>4. AttributeBody(g, v, t) = Object(G)
    BY <1>3, AttributeCases
  <2> QED
    BY <2>2, <2>3, <2>4
<1>4. CASE ~(Is("list", t) /\ Is("array", v)) /\ ~(Is("object", t) /\ Is("object", v))
  BY <1>4 DEF AttributeBody
<1> QED
  BY <1>2, <1>3, <1>4

LEMMA MeansSame ==
    ASSUME NEW v \in AllValues, NEW f, NEW g, \A m \in MembersOf(v) : f[m] = g[m]
    PROVE  MeansFrom(f, v) = MeansFrom(g, v)
<1> SUFFICES ASSUME NEW json \in AllValues, NEW t \in Types PROVE MeansBody(f, v, json, t) = MeansBody(g, v, json, t)
  BY DEF MeansFrom
<1>1. v \in ValuesOver(Layered[Layers])
  BY AllValuesIsLayer
<1>2. Is("dynamic", v) => f[v.dynamic] = g[v.dynamic]
  BY <1>1, DynamicParts
<1>3. ASSUME Is("object", v), NEW n \in NamesOf(v.object) PROVE f[v.object[n]] = g[v.object[n]]
  BY <1>1, <1>3, ObjectParts
<1>4. ASSUME Is("map", v), NEW n \in NamesOf(v.map) PROVE f[v.map[n]] = g[v.map[n]]
  BY <1>1, <1>4, MapParts
<1>5. ASSUME Is("list", v), NEW i \in DOMAIN v.list PROVE f[v.list[i]] = g[v.list[i]]
  BY <1>1, <1>5, ListParts
<1>6. ASSUME Is("tuple", v), NEW i \in DOMAIN v.tuple PROVE f[v.tuple[i]] = g[v.tuple[i]]
  BY <1>1, <1>6, TupleParts
<1>7. MeansBody(f, v, json, t) => MeansBody(g, v, json, t)
  BY <1>2, <1>3, <1>4, <1>5, <1>6 DEF MeansBody
<1>8. MeansBody(g, v, json, t) => MeansBody(f, v, json, t)
  BY <1>2, <1>3, <1>4, <1>5, <1>6 DEF MeansBody
<1> QED
  BY <1>7, <1>8 DEF MeansBody

LEMMA WithinUnfolds ==
    \A v \in AllValues : Within[v] = WithinFrom(Within, v)
<1> DEFINE T == {n \in Nat : n <= Layers + 2 => \E f : f = [v \in Below(n) |-> WithinFrom(f, v)]}
<1>1. 0 \in T
  <2> DEFINE f == [v \in {} |-> WithinFrom(Null, v)]
  <2>1. f = [v \in Below(0) |-> WithinFrom(f, v)]
    BY DEF Below
  <2> HIDE DEF f
  <2> QED
    BY <2>1
<1>2. ASSUME NEW n \in Nat, n \in T PROVE n + 1 \in T
  <2> SUFFICES ASSUME n + 1 <= Layers + 2 PROVE \E f : f = [v \in Below(n + 1) |-> WithinFrom(f, v)]
    OBVIOUS
  <2>1. n <= Layers + 1 /\ n <= Layers + 2
    BY LayersAreNumbers
  <2>2. PICK f : f = [v \in Below(n) |-> WithinFrom(f, v)]
    BY <1>2, <2>1
  <2> DEFINE g == [v \in Below(n + 1) |-> WithinFrom(f, v)]
  <2>3. Below(n + 1) = Layered[n]
    BY DEF Below
  <2>4. Below(n) \subseteq Below(n + 1)
    BY <2>1, <2>3, LayersGrow
  <2>5. \A m \in Below(n) : g[m] = f[m]
    BY <2>2, <2>4
  <2>6. ASSUME NEW v \in Below(n + 1) PROVE WithinFrom(f, v) = WithinFrom(g, v)
    <3>1. v \in AllValues /\ MembersOf(v) \subseteq Below(n)
      BY <2>1, <2>3, MembersOfLayer
    <3>2. \A m \in MembersOf(v) : f[m] = g[m]
      BY <2>5, <3>1
    <3> HIDE DEF g
    <3> QED
      BY <3>1, <3>2, WithinSame
  <2>7. g = [v \in Below(n + 1) |-> WithinFrom(g, v)]
    BY <2>6
  <2> HIDE DEF g
  <2> QED
    BY <2>7
<1>3. Layers + 2 \in T
  <2> HIDE DEF T
  <2>1. Nat \subseteq T
    BY <1>1, <1>2, NumbersByInduction
  <2> QED
    BY <2>1, StructuredAssumption
<1>4. Below(Layers + 2) = AllValues
  BY StructuredAssumption DEF Below, AllValues
<1>5. \E f : f = [v \in AllValues |-> WithinFrom(f, v)]
  BY <1>3, <1>4, StructuredAssumption
<1>6. Within = [v \in AllValues |-> WithinFrom(Within, v)]
  BY <1>5 DEF Within, WithinFrom
<1> QED
  BY <1>6

LEMMA RequestUnfolds ==
    \A v \in AllValues : StructuredRequestValue[v] = RequestFrom(StructuredRequestValue, v)
<1> DEFINE T == {n \in Nat : n <= Layers + 2 => \E f : f = [v \in Below(n) |-> RequestFrom(f, v)]}
<1>1. 0 \in T
  <2> DEFINE f == [v \in {} |-> RequestFrom(Null, v)]
  <2>1. f = [v \in Below(0) |-> RequestFrom(f, v)]
    BY DEF Below
  <2> HIDE DEF f
  <2> QED
    BY <2>1
<1>2. ASSUME NEW n \in Nat, n \in T PROVE n + 1 \in T
  <2> SUFFICES ASSUME n + 1 <= Layers + 2 PROVE \E f : f = [v \in Below(n + 1) |-> RequestFrom(f, v)]
    OBVIOUS
  <2>1. n <= Layers + 1 /\ n <= Layers + 2
    BY LayersAreNumbers
  <2>2. PICK f : f = [v \in Below(n) |-> RequestFrom(f, v)]
    BY <1>2, <2>1
  <2> DEFINE g == [v \in Below(n + 1) |-> RequestFrom(f, v)]
  <2>3. Below(n + 1) = Layered[n]
    BY DEF Below
  <2>4. Below(n) \subseteq Below(n + 1)
    BY <2>1, <2>3, LayersGrow
  <2>5. \A m \in Below(n) : g[m] = f[m]
    BY <2>2, <2>4
  <2>6. ASSUME NEW v \in Below(n + 1) PROVE RequestFrom(f, v) = RequestFrom(g, v)
    <3>1. v \in AllValues /\ MembersOf(v) \subseteq Below(n)
      BY <2>1, <2>3, MembersOfLayer
    <3>2. \A m \in MembersOf(v) : f[m] = g[m]
      BY <2>5, <3>1
    <3> HIDE DEF g
    <3> QED
      BY <3>1, <3>2, RequestSame
  <2>7. g = [v \in Below(n + 1) |-> RequestFrom(g, v)]
    BY <2>6
  <2> HIDE DEF g
  <2> QED
    BY <2>7
<1>3. Layers + 2 \in T
  <2> HIDE DEF T
  <2>1. Nat \subseteq T
    BY <1>1, <1>2, NumbersByInduction
  <2> QED
    BY <2>1, StructuredAssumption
<1>4. Below(Layers + 2) = AllValues
  BY StructuredAssumption DEF Below, AllValues
<1>5. \E f : f = [v \in AllValues |-> RequestFrom(f, v)]
  BY <1>3, <1>4, StructuredAssumption
<1>6. StructuredRequestValue = [v \in AllValues |-> RequestFrom(StructuredRequestValue, v)]
  BY <1>5 DEF StructuredRequestValue, RequestFrom, RequestBody
<1> QED
  BY <1>6

LEMMA HasTypeUnfolds ==
    \A v \in AllValues : HasType[v] = HasTypeFrom(HasType, v)
<1> DEFINE T == {n \in Nat : n <= Layers + 2 => \E f : f = [v \in Below(n) |-> HasTypeFrom(f, v)]}
<1>1. 0 \in T
  <2> DEFINE f == [v \in {} |-> HasTypeFrom(Null, v)]
  <2>1. f = [v \in Below(0) |-> HasTypeFrom(f, v)]
    BY DEF Below
  <2> HIDE DEF f
  <2> QED
    BY <2>1
<1>2. ASSUME NEW n \in Nat, n \in T PROVE n + 1 \in T
  <2> SUFFICES ASSUME n + 1 <= Layers + 2 PROVE \E f : f = [v \in Below(n + 1) |-> HasTypeFrom(f, v)]
    OBVIOUS
  <2>1. n <= Layers + 1 /\ n <= Layers + 2
    BY LayersAreNumbers
  <2>2. PICK f : f = [v \in Below(n) |-> HasTypeFrom(f, v)]
    BY <1>2, <2>1
  <2> DEFINE g == [v \in Below(n + 1) |-> HasTypeFrom(f, v)]
  <2>3. Below(n + 1) = Layered[n]
    BY DEF Below
  <2>4. Below(n) \subseteq Below(n + 1)
    BY <2>1, <2>3, LayersGrow
  <2>5. \A m \in Below(n) : g[m] = f[m]
    BY <2>2, <2>4
  <2>6. ASSUME NEW v \in Below(n + 1) PROVE HasTypeFrom(f, v) = HasTypeFrom(g, v)
    <3>1. v \in AllValues /\ MembersOf(v) \subseteq Below(n)
      BY <2>1, <2>3, MembersOfLayer
    <3>2. \A m \in MembersOf(v) : f[m] = g[m]
      BY <2>5, <3>1
    <3> HIDE DEF g
    <3> QED
      BY <3>1, <3>2, HasTypeSame
  <2>7. g = [v \in Below(n + 1) |-> HasTypeFrom(g, v)]
    BY <2>6
  <2> HIDE DEF g
  <2> QED
    BY <2>7
<1>3. Layers + 2 \in T
  <2> HIDE DEF T
  <2>1. Nat \subseteq T
    BY <1>1, <1>2, NumbersByInduction
  <2> QED
    BY <2>1, StructuredAssumption
<1>4. Below(Layers + 2) = AllValues
  BY StructuredAssumption DEF Below, AllValues
<1>5. \E f : f = [v \in AllValues |-> HasTypeFrom(f, v)]
  BY <1>3, <1>4, StructuredAssumption
<1>6. HasType = [v \in AllValues |-> HasTypeFrom(HasType, v)]
  BY <1>5 DEF HasType, HasTypeFrom, HasTypeBody
<1> QED
  BY <1>6

LEMMA InferredUnfolds ==
    \A v \in AllValues : Inferred[v] = InferredFrom(Inferred, v)
<1> DEFINE T == {n \in Nat : n <= Layers + 2 => \E f : f = [v \in Below(n) |-> InferredFrom(f, v)]}
<1>1. 0 \in T
  <2> DEFINE f == [v \in {} |-> InferredFrom(Null, v)]
  <2>1. f = [v \in Below(0) |-> InferredFrom(f, v)]
    BY DEF Below
  <2> HIDE DEF f
  <2> QED
    BY <2>1
<1>2. ASSUME NEW n \in Nat, n \in T PROVE n + 1 \in T
  <2> SUFFICES ASSUME n + 1 <= Layers + 2 PROVE \E f : f = [v \in Below(n + 1) |-> InferredFrom(f, v)]
    OBVIOUS
  <2>1. n <= Layers + 1 /\ n <= Layers + 2
    BY LayersAreNumbers
  <2>2. PICK f : f = [v \in Below(n) |-> InferredFrom(f, v)]
    BY <1>2, <2>1
  <2> DEFINE g == [v \in Below(n + 1) |-> InferredFrom(f, v)]
  <2>3. Below(n + 1) = Layered[n]
    BY DEF Below
  <2>4. Below(n) \subseteq Below(n + 1)
    BY <2>1, <2>3, LayersGrow
  <2>5. \A m \in Below(n) : g[m] = f[m]
    BY <2>2, <2>4
  <2>6. ASSUME NEW v \in Below(n + 1) PROVE InferredFrom(f, v) = InferredFrom(g, v)
    <3>1. v \in AllValues /\ MembersOf(v) \subseteq Below(n)
      BY <2>1, <2>3, MembersOfLayer
    <3>2. \A m \in MembersOf(v) : f[m] = g[m]
      BY <2>5, <3>1
    <3> HIDE DEF g
    <3> QED
      BY <3>1, <3>2, InferredSame
  <2>7. g = [v \in Below(n + 1) |-> InferredFrom(g, v)]
    BY <2>6
  <2> HIDE DEF g
  <2> QED
    BY <2>7
<1>3. Layers + 2 \in T
  <2> HIDE DEF T
  <2>1. Nat \subseteq T
    BY <1>1, <1>2, NumbersByInduction
  <2> QED
    BY <2>1, StructuredAssumption
<1>4. Below(Layers + 2) = AllValues
  BY StructuredAssumption DEF Below, AllValues
<1>5. \E f : f = [v \in AllValues |-> InferredFrom(f, v)]
  BY <1>3, <1>4, StructuredAssumption
<1>6. Inferred = [v \in AllValues |-> InferredFrom(Inferred, v)]
  BY <1>5 DEF Inferred, InferredFrom
<1> QED
  BY <1>6

LEMMA AttributeUnfolds ==
    \A v \in AllValues : JSONAttribute[v] = AttributeFrom(JSONAttribute, v)
<1> DEFINE T == {n \in Nat : n <= Layers + 2 => \E f : f = [v \in Below(n) |-> AttributeFrom(f, v)]}
<1>1. 0 \in T
  <2> DEFINE f == [v \in {} |-> AttributeFrom(Null, v)]
  <2>1. f = [v \in Below(0) |-> AttributeFrom(f, v)]
    BY DEF Below
  <2> HIDE DEF f
  <2> QED
    BY <2>1
<1>2. ASSUME NEW n \in Nat, n \in T PROVE n + 1 \in T
  <2> SUFFICES ASSUME n + 1 <= Layers + 2 PROVE \E f : f = [v \in Below(n + 1) |-> AttributeFrom(f, v)]
    OBVIOUS
  <2>1. n <= Layers + 1 /\ n <= Layers + 2
    BY LayersAreNumbers
  <2>2. PICK f : f = [v \in Below(n) |-> AttributeFrom(f, v)]
    BY <1>2, <2>1
  <2> DEFINE g == [v \in Below(n + 1) |-> AttributeFrom(f, v)]
  <2>3. Below(n + 1) = Layered[n]
    BY DEF Below
  <2>4. Below(n) \subseteq Below(n + 1)
    BY <2>1, <2>3, LayersGrow
  <2>5. \A m \in Below(n) : g[m] = f[m]
    BY <2>2, <2>4
  <2>6. ASSUME NEW v \in Below(n + 1) PROVE AttributeFrom(f, v) = AttributeFrom(g, v)
    <3>1. v \in AllValues /\ MembersOf(v) \subseteq Below(n)
      BY <2>1, <2>3, MembersOfLayer
    <3>2. \A m \in MembersOf(v) : f[m] = g[m]
      BY <2>5, <3>1
    <3> HIDE DEF g
    <3> QED
      BY <3>1, <3>2, AttributeSame
  <2>7. g = [v \in Below(n + 1) |-> AttributeFrom(g, v)]
    BY <2>6
  <2> HIDE DEF g
  <2> QED
    BY <2>7
<1>3. Layers + 2 \in T
  <2> HIDE DEF T
  <2>1. Nat \subseteq T
    BY <1>1, <1>2, NumbersByInduction
  <2> QED
    BY <2>1, StructuredAssumption
<1>4. Below(Layers + 2) = AllValues
  BY StructuredAssumption DEF Below, AllValues
<1>5. \E f : f = [v \in AllValues |-> AttributeFrom(f, v)]
  BY <1>3, <1>4, StructuredAssumption
<1>6. JSONAttribute = [v \in AllValues |-> AttributeFrom(JSONAttribute, v)]
  BY <1>5 DEF JSONAttribute, AttributeFrom, AttributeBody
<1> QED
  BY <1>6

LEMMA MeansUnfolds ==
    \A v \in AllValues : Means[v] = MeansFrom(Means, v)
<1> DEFINE T == {n \in Nat : n <= Layers + 2 => \E f : f = [v \in Below(n) |-> MeansFrom(f, v)]}
<1>1. 0 \in T
  <2> DEFINE f == [v \in {} |-> MeansFrom(Null, v)]
  <2>1. f = [v \in Below(0) |-> MeansFrom(f, v)]
    BY DEF Below
  <2> HIDE DEF f
  <2> QED
    BY <2>1
<1>2. ASSUME NEW n \in Nat, n \in T PROVE n + 1 \in T
  <2> SUFFICES ASSUME n + 1 <= Layers + 2 PROVE \E f : f = [v \in Below(n + 1) |-> MeansFrom(f, v)]
    OBVIOUS
  <2>1. n <= Layers + 1 /\ n <= Layers + 2
    BY LayersAreNumbers
  <2>2. PICK f : f = [v \in Below(n) |-> MeansFrom(f, v)]
    BY <1>2, <2>1
  <2> DEFINE g == [v \in Below(n + 1) |-> MeansFrom(f, v)]
  <2>3. Below(n + 1) = Layered[n]
    BY DEF Below
  <2>4. Below(n) \subseteq Below(n + 1)
    BY <2>1, <2>3, LayersGrow
  <2>5. \A m \in Below(n) : g[m] = f[m]
    BY <2>2, <2>4
  <2>6. ASSUME NEW v \in Below(n + 1) PROVE MeansFrom(f, v) = MeansFrom(g, v)
    <3>1. v \in AllValues /\ MembersOf(v) \subseteq Below(n)
      BY <2>1, <2>3, MembersOfLayer
    <3>2. \A m \in MembersOf(v) : f[m] = g[m]
      BY <2>5, <3>1
    <3> HIDE DEF g
    <3> QED
      BY <3>1, <3>2, MeansSame
  <2>7. g = [v \in Below(n + 1) |-> MeansFrom(g, v)]
    BY <2>6
  <2> HIDE DEF g
  <2> QED
    BY <2>7
<1>3. Layers + 2 \in T
  <2> HIDE DEF T
  <2>1. Nat \subseteq T
    BY <1>1, <1>2, NumbersByInduction
  <2> QED
    BY <2>1, StructuredAssumption
<1>4. Below(Layers + 2) = AllValues
  BY StructuredAssumption DEF Below, AllValues
<1>5. \E f : f = [v \in AllValues |-> MeansFrom(f, v)]
  BY <1>3, <1>4, StructuredAssumption
<1>6. Means = [v \in AllValues |-> MeansFrom(Means, v)]
  BY <1>5 DEF Means, MeansFrom, MeansBody
<1> QED
  BY <1>6

(***************************************************************************)
(* Requests, member by member                                              *)
(***************************************************************************)

Req(v, keepNull) == StructuredRequestValue[v][keepNull]

LEMMA RequestIs ==
    ASSUME NEW v \in AllValues, NEW k \in BOOLEAN
    PROVE  Req(v, k) = RequestBody(StructuredRequestValue, v, k)
BY RequestUnfolds DEF RequestFrom, Req

LEMMA ObjectIsValue ==
    ASSUME NEW S, NEW F \in [MemberNames -> S \cup {Missing}]
    PROVE  [object |-> F] \in ValuesOver(S)
<1> DEFINE M == [MemberNames -> S \cup {Missing}]
<1>1. F \in M
  OBVIOUS
<1>2. [object : M] \subseteq ValuesOver(S)
  BY DEF ValuesOver
<1> HIDE DEF M
<1> QED
  BY <1>1, <1>2

LEMMA ItemsAreValue ==
    ASSUME NEW S, NEW s \in Seq(S)
    PROVE  List(s) \in ValuesOver(S) /\ Tuple(s) \in ValuesOver(S) /\ Array(s) \in ValuesOver(S)
<1> DEFINE Q == Seq(S)
<1>1. s \in Q
  OBVIOUS
<1>2. [list : Q] \subseteq ValuesOver(S) /\ [tuple : Q] \subseteq ValuesOver(S) /\ [array : Q] \subseteq ValuesOver(S)
  BY DEF ValuesOver
<1> HIDE DEF Q
<1> QED
  BY <1>1, <1>2 DEF List, Tuple, Array

LEMMA DynamicIsValue ==
    ASSUME NEW S, NEW v \in S
    PROVE  Dynamic(v) \in ValuesOver(S) /\ Is("dynamic", Dynamic(v)) /\ Dynamic(v).dynamic = v
<1>1. [dynamic : S] \subseteq ValuesOver(S)
  BY DEF ValuesOver
<1> QED
  BY <1>1 DEF Dynamic, Is

LEMMA ItemsAreSequence ==
    ASSUME NEW S, NEW n \in Nat, NEW s \in [1..n -> S]
    PROVE  s \in Seq(S) /\ Len(s) = n /\ DOMAIN s = 1..n
<1>1. s \in Seq(S)
  BY SeqDef
<1>2. DOMAIN s = 1..Len(s) /\ Len(s) \in Nat
  BY <1>1, LenProperties
<1>3. Len(s) = n
  BY <1>2
<1> QED
  BY <1>1, <1>3

\* The object of the members that f gives.
LEMMA ObjectOf ==
    ASSUME NEW f, DOMAIN f \subseteq MemberNames
    PROVE  /\ Is("object", Object(f)) /\ Object(f) = [object |-> Object(f).object] /\ DOMAIN Object(f).object = MemberNames
           /\ Object(f).object = [n \in MemberNames |-> Object(f).object[n]]
           /\ \A n \in DOMAIN f : Object(f).object[n] = f[n]
           /\ \A n \in MemberNames : n \notin DOMAIN f => Object(f).object[n] = Missing
           /\ \A S : (\A n \in DOMAIN f : f[n] \in S) => Object(f).object \in [MemberNames -> S \cup {Missing}]
           /\ (\A n \in DOMAIN f : f[n] # Missing) => NamesOf(Object(f).object) = DOMAIN f
<1>1. Object(f).object = Named(f) /\ Is("object", Object(f)) /\ Object(f) = [object |-> Object(f).object]
  BY DEF Object, Is
<1>2. DOMAIN Named(f) = MemberNames /\ Named(f) = [n \in MemberNames |-> Named(f)[n]]
  BY DEF Named
<1>3. Object(f).object = [n \in MemberNames |-> Object(f).object[n]] /\ DOMAIN Object(f).object = MemberNames
  BY <1>1, <1>2
<1>4. /\ \A n \in DOMAIN f : Object(f).object[n] = f[n]
      /\ \A n \in MemberNames : n \notin DOMAIN f => Object(f).object[n] = Missing
  BY <1>1, NamedMember
<1>5. ASSUME NEW S, \A n \in DOMAIN f : f[n] \in S PROVE Object(f).object \in [MemberNames -> S \cup {Missing}]
  BY <1>3, <1>4, <1>5
<1>6. (\A n \in DOMAIN f : f[n] # Missing) => NamesOf(Object(f).object) = DOMAIN f
  BY <1>4 DEF NamesOf, Has
<1> QED
  BY <1>1, <1>3, <1>4, <1>5, <1>6

LEMMA KindsAreTold ==
    /\ \A s : Is("list", List(s)) /\ List(s).list = s /\ ~Is("object", List(s)) /\ ~Is("array", List(s)) /\ DOMAIN List(s) = {"list"}
    /\ \A s : Is("tuple", Tuple(s)) /\ Tuple(s).tuple = s /\ DOMAIN Tuple(s) = {"tuple"}
    /\ \A s : Is("array", Array(s)) /\ Array(s).array = s /\ DOMAIN Array(s) = {"array"}
BY DEF List, Tuple, Array, Is

LEMMA RequestOfLeaf ==
    ASSUME NEW v \in AllValues, NEW k \in BOOLEAN, v = Null \/ v = Unknown \/ IsScalar(v) \/ Is("array", v)
    PROVE  Req(v, k) = v
BY RequestIs, RequestOfOthers

LEMMA RequestOfDynamicValue ==
    ASSUME NEW v \in AllValues, NEW k \in BOOLEAN, Is("dynamic", v)
    PROVE  Req(v, k) = Req(v.dynamic, TRUE)
<1>1. Req(v, k) = RequestBody(StructuredRequestValue, v, k)
  BY RequestIs
<1>2. RequestBody(StructuredRequestValue, v, k) = StructuredRequestValue[v.dynamic][TRUE]
  BY RequestOfDynamic
<1> QED
  BY <1>1, <1>2 DEF Req

LEMMA RequestOfObjectValue ==
    ASSUME NEW v \in AllValues, NEW k \in BOOLEAN, Is("object", v)
    PROVE  LET r == Req(v, k)
               kept == {n \in NamesOf(v.object) : Keeps(k) \/ v.object[n] # Null}
           IN  /\ Is("object", r) /\ r = [object |-> r.object] /\ DOMAIN r.object = MemberNames
               /\ r.object = [n \in MemberNames |-> r.object[n]]
               /\ \A n \in kept : r.object[n] = Req(v.object[n], k)
               /\ \A n \in MemberNames : n \notin kept => r.object[n] = Missing
<1> DEFINE kept == {n \in NamesOf(v.object) : Keeps(k) \/ v.object[n] # Null}
           f == [n \in kept |-> StructuredRequestValue[v.object[n]][k]]
<1>1. Req(v, k) = Object(f)
  <2>1. Req(v, k) = RequestBody(StructuredRequestValue, v, k)
    BY RequestIs
  <2>2. RequestBody(StructuredRequestValue, v, k) = Object(f)
    BY RequestOfObject
  <2> QED
    BY <2>1, <2>2
<1>2. DOMAIN f \subseteq MemberNames
  BY DEF NamesOf
<1>3. DOMAIN f = kept /\ \A n \in kept : f[n] = Req(v.object[n], k)
  BY DEF Req
<1> HIDE DEF f, kept
<1>4. /\ Is("object", Object(f)) /\ Object(f) = [object |-> Object(f).object] /\ DOMAIN Object(f).object = MemberNames
      /\ Object(f).object = [n \in MemberNames |-> Object(f).object[n]]
      /\ \A n \in kept : Object(f).object[n] = Req(v.object[n], k)
      /\ \A n \in MemberNames : n \notin kept => Object(f).object[n] = Missing
  BY <1>2, <1>3, ObjectOf
<1> QED
  BY <1>1, <1>4 DEF kept

LEMMA RequestOfMapValue ==
    ASSUME NEW v \in AllValues, NEW k \in BOOLEAN, Is("map", v)
    PROVE  LET r == Req(v, k)
           IN  /\ Is("object", r) /\ r = [object |-> r.object] /\ DOMAIN r.object = MemberNames
               /\ r.object = [n \in MemberNames |-> r.object[n]]
               /\ \A n \in NamesOf(v.map) : r.object[n] = Req(v.map[n], k)
               /\ \A n \in MemberNames : n \notin NamesOf(v.map) => r.object[n] = Missing
<1> DEFINE f == [n \in NamesOf(v.map) |-> StructuredRequestValue[v.map[n]][k]]
<1>1. Req(v, k) = Object(f)
  <2>1. Req(v, k) = RequestBody(StructuredRequestValue, v, k)
    BY RequestIs
  <2>2. RequestBody(StructuredRequestValue, v, k) = Object(f)
    BY RequestOfMap
  <2> QED
    BY <2>1, <2>2
<1>2. DOMAIN f \subseteq MemberNames
  BY DEF NamesOf
<1>3. DOMAIN f = NamesOf(v.map) /\ \A n \in NamesOf(v.map) : f[n] = Req(v.map[n], k)
  BY DEF Req
<1> HIDE DEF f
<1>4. /\ Is("object", Object(f)) /\ Object(f) = [object |-> Object(f).object] /\ DOMAIN Object(f).object = MemberNames
      /\ Object(f).object = [n \in MemberNames |-> Object(f).object[n]]
      /\ \A n \in NamesOf(v.map) : Object(f).object[n] = Req(v.map[n], k)
      /\ \A n \in MemberNames : n \notin NamesOf(v.map) => Object(f).object[n] = Missing
  BY <1>2, <1>3, ObjectOf
<1> QED
  BY <1>1, <1>4

\* r is the request of a list or tuple of the items s.
ItemsRequested(r, s) ==
    /\ Is("array", r) /\ r = Array(r.array) /\ DOMAIN r.array = DOMAIN s
    /\ \A T : (\A i \in DOMAIN s : r.array[i] \in T) => r.array \in [DOMAIN s -> T]
    /\ \A i \in DOMAIN s : r.array[i] = Req(s[i], TRUE)

LEMMA RequestOfItems ==
    ASSUME NEW v \in AllValues, NEW k \in BOOLEAN, NEW s,
           (Is("list", v) /\ s = v.list) \/ (Is("tuple", v) /\ s = v.tuple)
    PROVE  ItemsRequested(Req(v, k), s)
<1> DEFINE f == [i \in DOMAIN s |-> StructuredRequestValue[s[i]][TRUE]]
<1>1. Req(v, k) = Array(f)
  <2>1. Req(v, k) = RequestBody(StructuredRequestValue, v, k)
    BY RequestIs
  <2>2. CASE Is("list", v) /\ s = v.list
    BY <2>1, <2>2, RequestOfList
  <2>3. CASE Is("tuple", v) /\ s = v.tuple
    BY <2>1, <2>3, RequestOfTuple
  <2> QED
    BY <2>2, <2>3
<1>2. DOMAIN f = DOMAIN s /\ f = [i \in DOMAIN s |-> f[i]] /\ \A i \in DOMAIN s : f[i] = Req(s[i], TRUE)
  BY DEF Req
<1> HIDE DEF f
<1>4. \A T : (\A i \in DOMAIN s : f[i] \in T) => f \in [DOMAIN s -> T]
  BY <1>2
<1>3. Array(f).array = f /\ Is("array", Array(f))
  BY KindsAreTold
<1> QED
  BY <1>1, <1>2, <1>3, <1>4 DEF ItemsRequested

(***************************************************************************)
(* What is within a value                                                  *)
(***************************************************************************)

LEMMA WithinIs ==
    ASSUME NEW v \in AllValues
    PROVE  /\ v \in Within[v]
           /\ \A m \in MembersOf(v) : Within[m] \subseteq Within[v]
           /\ \A w \in Within[v] : w = v \/ \E m \in MembersOf(v) : w \in Within[m]
BY WithinUnfolds DEF WithinFrom

\* Of the kinds that JSON has, and what Terraform has once all of it is known.
JSONKind(v) == v = Null \/ IsScalar(v) \/ Is("object", v) \/ Is("array", v)
PlainKind(v) == v # Unknown /\ ~Is("array", v)
Plain(v) == \A w \in Within[v] : PlainKind(w)

LEMMA JSONIs ==
    ASSUME NEW v \in AllValues
    PROVE  IsJSON(v) <=> JSONKind(v) /\ \A m \in MembersOf(v) : IsJSON(m)
BY WithinIs DEF IsJSON, JSONKind

LEMMA PlainIs ==
    ASSUME NEW v \in AllValues
    PROVE  Plain(v) <=> PlainKind(v) /\ \A m \in MembersOf(v) : Plain(m)
BY WithinIs DEF Plain

LEMMA MembersAre ==
    ASSUME NEW v \in AllValues
    PROVE  /\ Is("object", v) => MembersOf(v) = {v.object[n] : n \in NamesOf(v.object)}
           /\ Is("array", v) => MembersOf(v) = {v.array[i] : i \in DOMAIN v.array}
           /\ Is("list", v) => MembersOf(v) = {v.list[i] : i \in DOMAIN v.list}
           /\ Is("tuple", v) => MembersOf(v) = {v.tuple[i] : i \in DOMAIN v.tuple}
<1>1. v \in ValuesOver(Layered[Layers])
  BY AllValuesIsLayer
<1>2. Is("object", v) => DOMAIN v = {"object"}
  BY <1>1, ObjectParts
<1>3. Is("array", v) => DOMAIN v = {"array"}
  BY <1>1, ArrayParts
<1>4. Is("list", v) => DOMAIN v = {"list"}
  BY <1>1, ListParts
<1>5. Is("tuple", v) => DOMAIN v = {"tuple"}
  BY <1>1, TupleParts
<1> QED
  BY <1>2, <1>3, <1>4, <1>5 DEF MembersOf, Is, Range

LEMMA MembersOfMap ==
    ASSUME NEW v \in AllValues, Is("map", v)
    PROVE  MembersOf(v) = {v.map[n] : n \in NamesOf(v.map)}
<1>1. DOMAIN v = {"map"}
  BY AllValuesIsLayer, MapParts
<1> QED
  BY <1>1 DEF MembersOf, Is

\* An object or array of JSON is JSON.
LEMMA ObjectIsJSON ==
    ASSUME NEW n \in Nat, n <= Layers + 1, NEW r, r = [object |-> r.object], r.object = [x \in MemberNames |-> r.object[x]],
           \A x \in MemberNames : r.object[x] = Missing \/ (r.object[x] \in Below(n) /\ IsJSON(r.object[x]))
    PROVE  r \in Layered[n] /\ IsJSON(r)
<1>1. r.object \in [MemberNames -> Below(n) \cup {Missing}]
  OBVIOUS
<1>2. [object |-> r.object] \in ValuesOver(Below(n))
  BY <1>1, ObjectIsValue
<1>3. r \in Layered[n] /\ r \in AllValues
  BY <1>2, LayeredUnfolds, LayersAreNumbers, LayersNest
<1>4. Is("object", r)
  BY DEF Is
<1>5. \A m \in MembersOf(r) : IsJSON(m)
  BY <1>3, <1>4, MembersAre DEF NamesOf, Has
<1> QED
  BY <1>3, <1>4, <1>5, JSONIs DEF JSONKind

LEMMA ArrayIsJSON ==
    ASSUME NEW n \in Nat, n <= Layers + 1, NEW s, NEW len \in Nat, s \in [1..len -> Below(n)],
           \A i \in 1..len : IsJSON(s[i])
    PROVE  Array(s) \in Layered[n] /\ IsJSON(Array(s))
<1>1. s \in Seq(Below(n)) /\ DOMAIN s = 1..len
  BY ItemsAreSequence
<1>2. Array(s) \in ValuesOver(Below(n))
  BY <1>1, ItemsAreValue
<1>3. Array(s) \in Layered[n] /\ Array(s) \in AllValues
  BY <1>2, LayeredUnfolds, LayersAreNumbers, LayersNest
<1>4. Is("array", Array(s)) /\ Array(s).array = s
  BY KindsAreTold
<1>5. \A m \in MembersOf(Array(s)) : IsJSON(m)
  BY <1>1, <1>3, <1>4, MembersAre
<1> QED
  BY <1>3, <1>4, <1>5, JSONIs DEF JSONKind

LEMMA RequestInLayer ==
    ASSUME NEW n \in Nat, n <= Layers + 1, NEW v \in Layered[n], Plain(v), NEW k \in BOOLEAN,
           \A m \in MembersOf(v), b \in BOOLEAN : Req(m, b) \in Below(n) /\ IsJSON(Req(m, b))
    PROVE  Req(v, k) \in Layered[n] /\ IsJSON(Req(v, k))
<1>1. v \in AllValues /\ v \in ValuesOver(Below(n))
  BY MembersOfLayer
<1>2. PlainKind(v)
  BY <1>1, PlainIs
<1>3. Below(n) \subseteq Layered[n] /\ Layered[n] = ValuesOver(Below(n))
  BY LayersGrow, LayeredUnfolds, LayersAreNumbers
<1>4. CASE Is("dynamic", v)
  <2>1. v.dynamic \in MembersOf(v)
    BY <1>1, <1>4, DynamicParts
  <2>2. Req(v, k) = Req(v.dynamic, TRUE)
    BY <1>1, <1>4, RequestOfDynamicValue
  <2> QED
    BY <1>3, <2>1, <2>2
<1>5. CASE Is("object", v)
  <2> DEFINE r == Req(v, k)
             kept == {x \in NamesOf(v.object) : Keeps(k) \/ v.object[x] # Null}
  <2>1. /\ r = [object |-> r.object] /\ r.object = [x \in MemberNames |-> r.object[x]]
        /\ \A x \in kept : r.object[x] = Req(v.object[x], k)
        /\ \A x \in MemberNames : x \notin kept => r.object[x] = Missing
    BY <1>1, <1>5, RequestOfObjectValue
  <2>2. \A x \in kept : v.object[x] \in MembersOf(v)
    BY <1>1, <1>5, ObjectParts
  <2>3. \A x \in MemberNames : r.object[x] = Missing \/ (r.object[x] \in Below(n) /\ IsJSON(r.object[x]))
    BY <2>1, <2>2
  <2> HIDE DEF r, kept
  <2>4. r \in Layered[n] /\ IsJSON(r)
    BY <2>1, <2>3, ObjectIsJSON
  <2> QED
    BY <2>4 DEF r
<1>6. CASE Is("map", v)
  <2> DEFINE r == Req(v, k)
  <2>1. /\ r = [object |-> r.object] /\ r.object = [x \in MemberNames |-> r.object[x]]
        /\ \A x \in NamesOf(v.map) : r.object[x] = Req(v.map[x], k)
        /\ \A x \in MemberNames : x \notin NamesOf(v.map) => r.object[x] = Missing
    BY <1>1, <1>6, RequestOfMapValue
  <2>2. \A x \in NamesOf(v.map) : v.map[x] \in MembersOf(v)
    BY <1>1, <1>6, MapParts
  <2>3. \A x \in MemberNames : r.object[x] = Missing \/ (r.object[x] \in Below(n) /\ IsJSON(r.object[x]))
    BY <2>1, <2>2
  <2> HIDE DEF r
  <2>4. r \in Layered[n] /\ IsJSON(r)
    BY <2>1, <2>3, ObjectIsJSON
  <2> QED
    BY <2>4 DEF r
<1>7. ASSUME NEW s, (Is("list", v) /\ s = v.list) \/ (Is("tuple", v) /\ s = v.tuple)
      PROVE  Req(v, k) \in Layered[n] /\ IsJSON(Req(v, k))
  <2> DEFINE r == Req(v, k)
  <2>1. /\ r = Array(r.array) /\ \A U : (\A i \in DOMAIN s : r.array[i] \in U) => r.array \in [DOMAIN s -> U]
        /\ \A i \in DOMAIN s : r.array[i] = Req(s[i], TRUE)
    <3>1. ItemsRequested(Req(v, k), s)
      BY <1>1, <1>7, RequestOfItems
    <3> HIDE DEF r
    <3> QED
      BY <3>1 DEF r, ItemsRequested
  <2>2. Len(s) \in Nat /\ DOMAIN s = 1..Len(s) /\ \A i \in DOMAIN s : s[i] \in MembersOf(v)
    <3>1. CASE Is("list", v) /\ s = v.list
      BY <1>1, <3>1, ListParts
    <3>2. CASE Is("tuple", v) /\ s = v.tuple
      BY <1>1, <3>2, TupleParts
    <3> QED
      BY <1>7, <3>1, <3>2
  <2> HIDE DEF r
  <2>3. \A i \in DOMAIN s : r.array[i] \in Below(n) /\ IsJSON(r.array[i])
    BY <2>1, <2>2
  <2>4. r.array \in [1..Len(s) -> Below(n)]
    BY <2>1, <2>2, <2>3
  <2>5. Array(r.array) \in Layered[n] /\ IsJSON(Array(r.array))
    BY <2>2, <2>3, <2>4, ArrayIsJSON
  <2> QED
    BY <2>1, <2>5 DEF r
<1>8. CASE v = Null \/ IsScalar(v)
  <2>1. Req(v, k) = v /\ JSONKind(v)
    BY <1>1, <1>8, RequestOfLeaf DEF JSONKind
  <2>2. MembersOf(v) = {}
    BY <1>1, <1>8, NullParts, ScalarParts
  <2> QED
    BY <1>1, <2>1, <2>2, JSONIs
<1> QED
  BY <1>1, <1>2, <1>4, <1>5, <1>6, <1>7, <1>8, KindOf DEF PlainKind

\* What becomes of a value is JSON of no more layers.
LEMMA RequestStays ==
    \A n \in Nat : n <= Layers + 2 =>
        \A v \in Below(n), k \in BOOLEAN : Plain(v) => Req(v, k) \in Below(n) /\ IsJSON(Req(v, k))
<1> DEFINE T == {n \in Nat : n <= Layers + 2 =>
                    \A v \in Below(n), k \in BOOLEAN : Plain(v) => Req(v, k) \in Below(n) /\ IsJSON(Req(v, k))}
<1>1. 0 \in T
  BY DEF Below
<1>2. ASSUME NEW n \in Nat, n \in T PROVE n + 1 \in T
  <2> SUFFICES ASSUME n + 1 <= Layers + 2, NEW v \in Below(n + 1), NEW k \in BOOLEAN, Plain(v)
               PROVE  Req(v, k) \in Below(n + 1) /\ IsJSON(Req(v, k))
    OBVIOUS
  <2>1. n <= Layers + 1 /\ n <= Layers + 2
    BY LayersAreNumbers
  <2>2. Below(n + 1) = Layered[n]
    BY DEF Below
  <2>3. v \in AllValues /\ MembersOf(v) \subseteq Below(n)
    BY <2>1, <2>2, MembersOfLayer
  <2>4. \A m \in MembersOf(v) : Plain(m)
    BY <2>3, PlainIs
  <2>5. \A m \in MembersOf(v), b \in BOOLEAN : Req(m, b) \in Below(n) /\ IsJSON(Req(m, b))
    BY <1>2, <2>1, <2>3, <2>4
  <2> QED
    BY <2>1, <2>2, <2>5, RequestInLayer
<1>3. Nat \subseteq T
  <2> HIDE DEF T
  <2> QED
    BY <1>1, <1>2, NumbersByInduction
<1> QED
  BY <1>3

(***************************************************************************)
(* What answers are taken for                                              *)
(***************************************************************************)

LEMMA NoValueIsMissing ==
    \A v \in AllValues : v # Missing
<1>1. Layers + 1 \in Nat /\ Layers + 1 <= Layers + 1
  BY LayersAreNumbers
<1> QED
  BY <1>1, NullParts DEF AllValues

LEMMA ObjectIsPlain ==
    ASSUME NEW n \in Nat, n <= Layers + 1, NEW r, r = [object |-> r.object], r.object = [x \in MemberNames |-> r.object[x]],
           \A x \in MemberNames : r.object[x] = Missing \/ (r.object[x] \in Below(n) /\ Plain(r.object[x]))
    PROVE  r \in Layered[n] /\ Plain(r) /\ Is("object", r)
<1>1. r.object \in [MemberNames -> Below(n) \cup {Missing}]
  OBVIOUS
<1>2. [object |-> r.object] \in ValuesOver(Below(n))
  BY <1>1, ObjectIsValue
<1>3. r \in Layered[n] /\ r \in AllValues
  BY <1>2, LayeredUnfolds, LayersAreNumbers, LayersNest
<1>4. Is("object", r) /\ DOMAIN r = {"object"}
  BY DEF Is
<1>5. \A m \in MembersOf(r) : Plain(m)
  BY <1>3, <1>4, MembersAre DEF NamesOf, Has
<1>6. PlainKind(r)
  BY <1>4, NullHasNoKind DEF PlainKind, Is
<1> QED
  BY <1>3, <1>4, <1>5, <1>6, PlainIs

LEMMA ItemsArePlain ==
    ASSUME NEW n \in Nat, n <= Layers + 1, NEW s, NEW len \in Nat, s \in [1..len -> Below(n)],
           \A i \in 1..len : Plain(s[i])
    PROVE  /\ Tuple(s) \in Layered[n] /\ Plain(Tuple(s)) /\ List(s) \in Layered[n] /\ Plain(List(s))
<1>1. s \in Seq(Below(n)) /\ DOMAIN s = 1..len
  BY ItemsAreSequence
<1>2. Tuple(s) \in ValuesOver(Below(n)) /\ List(s) \in ValuesOver(Below(n))
  BY <1>1, ItemsAreValue
<1>3. Tuple(s) \in Layered[n] /\ Tuple(s) \in AllValues /\ List(s) \in Layered[n] /\ List(s) \in AllValues
  BY <1>2, LayeredUnfolds, LayersAreNumbers, LayersNest
<1>4. Is("tuple", Tuple(s)) /\ Tuple(s).tuple = s /\ Is("list", List(s)) /\ List(s).list = s
  BY KindsAreTold
<1>5. (\A m \in MembersOf(Tuple(s)) : Plain(m)) /\ (\A m \in MembersOf(List(s)) : Plain(m))
  BY <1>1, <1>3, <1>4, MembersAre
<1>6. PlainKind(Tuple(s)) /\ PlainKind(List(s))
  BY KindsAreTold, NullHasNoKind DEF PlainKind, Is
<1> QED
  BY <1>3, <1>5, <1>6, PlainIs

LEMMA InferredIs ==
    ASSUME NEW v \in AllValues
    PROVE  /\ Is("object", v) => Inferred[v] = Object([n \in NamesOf(v.object) |-> Inferred[v.object[n]]])
           /\ Is("array", v) => Inferred[v] = Tuple([i \in DOMAIN v.array |-> Inferred[v.array[i]]])
           /\ v = Null \/ IsScalar(v) => Inferred[v] = v
<1>1. Inferred[v] = InferredFrom(Inferred, v)
  BY InferredUnfolds
<1>2. Is("object", v) => ~Is("array", v)
  BY AllValuesIsLayer, ObjectParts DEF Is
<1>3. v = Null \/ IsScalar(v) => ~Is("array", v) /\ ~Is("object", v)
  BY AllValuesIsLayer, ScalarParts, NullHasNoKind DEF Is
<1> QED
  BY <1>1, <1>2, <1>3 DEF InferredFrom

\* The types inferred for an answer are those of a value that says the same.
InferredWell(n, j) == Inferred[j] \in Below(n) /\ Plain(Inferred[j]) /\ Req(Inferred[j], TRUE) = j

LEMMA InferredObject ==
    ASSUME NEW n \in Nat, n <= Layers + 1, NEW j \in Layered[n], Is("object", j),
           \A m \in MembersOf(j) : InferredWell(n, m)
    PROVE  Inferred[j] \in Layered[n] /\ Plain(Inferred[j]) /\ Req(Inferred[j], TRUE) = j
<1>1. j \in AllValues /\ j \in ValuesOver(Below(n)) /\ Below(n) \subseteq AllValues
  BY MembersOfLayer, LayersNest
<1>2. /\ j = [object |-> j.object] /\ j.object \in [MemberNames -> Below(n) \cup {Missing}]
      /\ \A x \in NamesOf(j.object) : j.object[x] \in MembersOf(j)
  BY <1>1, ObjectParts
<1>3. \A x \in MemberNames : x \notin NamesOf(j.object) <=> j.object[x] = Missing
  BY DEF NamesOf, Has
<1> DEFINE f == [x \in NamesOf(j.object) |-> Inferred[j.object[x]]]
           i == Object(f)
<1>4. Inferred[j] = i
  BY <1>1, InferredIs
<1>5. DOMAIN f = NamesOf(j.object) /\ \A x \in NamesOf(j.object) : f[x] = Inferred[j.object[x]]
  OBVIOUS
<1>6. DOMAIN f \subseteq MemberNames
  BY <1>5 DEF NamesOf
<1> HIDE DEF f
<1>7. /\ Is("object", i) /\ i = [object |-> i.object] /\ i.object = [x \in MemberNames |-> i.object[x]]
      /\ \A x \in NamesOf(j.object) : i.object[x] = Inferred[j.object[x]]
      /\ \A x \in MemberNames : x \notin NamesOf(j.object) => i.object[x] = Missing
  BY <1>5, <1>6, ObjectOf
<1> HIDE DEF i
<1>8. \A x \in NamesOf(j.object) : InferredWell(n, j.object[x])
  BY <1>2
<1>9. \A x \in MemberNames : i.object[x] = Missing \/ (i.object[x] \in Below(n) /\ Plain(i.object[x]))
  BY <1>7, <1>8 DEF InferredWell
<1>10. i \in Layered[n] /\ Plain(i)
  BY <1>7, <1>9, ObjectIsPlain
<1>11. i \in AllValues
  BY <1>10, LayersNest
<1>12. \A x \in NamesOf(j.object) : x \in NamesOf(i.object)
  BY <1>1, <1>7, <1>8, NoValueIsMissing DEF NamesOf, Has, InferredWell
<1>13. \A x \in NamesOf(i.object) : x \in NamesOf(j.object)
  BY <1>7 DEF NamesOf, Has
<1> DEFINE r == Req(i, TRUE)
           kept == {x \in NamesOf(i.object) : Keeps(TRUE) \/ i.object[x] # Null}
<1>14. kept = NamesOf(j.object)
  BY <1>12, <1>13 DEF Keeps
<1>15. /\ r = [object |-> r.object] /\ r.object = [x \in MemberNames |-> r.object[x]]
       /\ \A x \in kept : r.object[x] = Req(i.object[x], TRUE)
       /\ \A x \in MemberNames : x \notin kept => r.object[x] = Missing
  BY <1>7, <1>11, RequestOfObjectValue
<1> HIDE DEF r, kept
<1>16. ASSUME NEW x \in MemberNames PROVE r.object[x] = j.object[x]
  <2>1. CASE x \in NamesOf(j.object)
    <3>1. r.object[x] = Req(Inferred[j.object[x]], TRUE)
      BY <1>7, <1>14, <1>15, <2>1
    <3> QED
      BY <1>8, <2>1, <3>1 DEF InferredWell
  <2>2. CASE x \notin NamesOf(j.object)
    BY <1>3, <1>14, <1>15, <2>2
  <2> QED
    BY <2>1, <2>2
<1>17. r.object = j.object
  BY <1>2, <1>15, <1>16
<1>18. r = j
  BY <1>2, <1>15, <1>17
<1> QED
  BY <1>4, <1>10, <1>18 DEF r

LEMMA InferredArray ==
    ASSUME NEW n \in Nat, n <= Layers + 1, NEW j \in Layered[n], Is("array", j),
           \A m \in MembersOf(j) : InferredWell(n, m)
    PROVE  Inferred[j] \in Layered[n] /\ Plain(Inferred[j]) /\ Req(Inferred[j], TRUE) = j
<1>1. j \in AllValues /\ j \in ValuesOver(Below(n)) /\ Below(n) \subseteq AllValues
  BY MembersOfLayer, LayersNest
<1>2. /\ j = Array(j.array) /\ Len(j.array) \in Nat /\ DOMAIN j.array = 1..Len(j.array)
      /\ j.array \in Seq(Below(n)) /\ \A x \in DOMAIN j.array : j.array[x] \in MembersOf(j)
  BY <1>1, ArrayParts
<1>3. j.array \in [1..Len(j.array) -> Below(n)]
  BY <1>2, LenProperties
<1> DEFINE f == [x \in DOMAIN j.array |-> Inferred[j.array[x]]]
           i == Tuple(f)
           len == Len(j.array)
<1>4. Inferred[j] = i
  BY <1>1, InferredIs
<1>5. \A x \in 1..len : InferredWell(n, j.array[x])
  BY <1>2
<1>6. f \in [1..len -> Below(n)] /\ \A x \in 1..len : f[x] = Inferred[j.array[x]]
  BY <1>2, <1>5 DEF InferredWell
<1> HIDE DEF f, i
<1>7. i \in Layered[n] /\ Plain(i)
  <2>1. \A x \in 1..len : Plain(f[x])
    BY <1>5, <1>6 DEF InferredWell
  <2> QED
    BY <1>2, <1>6, <2>1, ItemsArePlain DEF i
<1>8. i \in AllValues
  BY <1>7, LayersNest
<1>9. Is("tuple", i) /\ i.tuple = f
  BY KindsAreTold DEF i
<1> DEFINE r == Req(i, TRUE)
<1>10. ItemsRequested(r, f)
  BY <1>8, <1>9, RequestOfItems
<1> HIDE DEF r
<1>11. DOMAIN f = 1..len
  BY <1>6
<1>12. \A x \in 1..len : r.array[x] = j.array[x]
  BY <1>5, <1>6, <1>10, <1>11 DEF ItemsRequested, InferredWell
<1>13. r.array \in [1..len -> Below(n)]
  <2>1. \A x \in 1..len : r.array[x] \in Below(n)
    BY <1>3, <1>12
  <2> QED
    BY <1>10, <1>11, <2>1 DEF ItemsRequested
<1>14. r.array = j.array
  BY <1>3, <1>12, <1>13
<1>15. r = j
  BY <1>2, <1>10, <1>14 DEF ItemsRequested
<1> QED
  BY <1>4, <1>7, <1>15 DEF r

LEMMA InferredStays ==
    \A n \in Nat : n <= Layers + 2 => \A j \in Below(n) : IsJSON(j) => InferredWell(n, j)
<1> DEFINE T == {n \in Nat : n <= Layers + 2 => \A j \in Below(n) : IsJSON(j) => InferredWell(n, j)}
<1>1. 0 \in T
  BY DEF Below
<1>2. ASSUME NEW n \in Nat, n \in T PROVE n + 1 \in T
  <2> SUFFICES ASSUME n + 1 <= Layers + 2, NEW j \in Below(n + 1), IsJSON(j) PROVE InferredWell(n + 1, j)
    OBVIOUS
  <2>1. n <= Layers + 1 /\ n <= Layers + 2
    BY LayersAreNumbers
  <2>2. Below(n + 1) = Layered[n]
    BY DEF Below
  <2>3. j \in AllValues /\ MembersOf(j) \subseteq Below(n)
    BY <2>1, <2>2, MembersOfLayer
  <2>4. JSONKind(j) /\ \A m \in MembersOf(j) : InferredWell(n, m)
    BY <1>2, <2>1, <2>3, JSONIs
  <2>5. CASE Is("object", j)
    BY <2>1, <2>2, <2>4, <2>5, InferredObject DEF InferredWell
  <2>6. CASE Is("array", j)
    BY <2>1, <2>2, <2>4, <2>6, InferredArray DEF InferredWell
  <2>7. CASE j = Null \/ IsScalar(j)
    <3>1. Inferred[j] = j /\ Req(j, TRUE) = j
      BY <2>3, <2>7, InferredIs, RequestOfLeaf
    <3>2. MembersOf(j) = {} /\ PlainKind(j)
      BY <2>3, <2>7, AllValuesIsLayer, NullParts, ScalarParts, NullHasNoKind DEF PlainKind, Is
    <3>3. Plain(j)
      BY <2>3, <3>2, PlainIs
    <3> QED
      BY <3>1, <3>3 DEF InferredWell
  <2> QED
    BY <2>4, <2>5, <2>6, <2>7 DEF JSONKind
<1>3. Nat \subseteq T
  <2> HIDE DEF T
  <2> QED
    BY <1>1, <1>2, NumbersByInduction
<1> QED
  BY <1>3

(***************************************************************************)
(* Requests say what they are made of                                      *)
(***************************************************************************)

LEMMA RequestIsValue ==
    ASSUME NEW v \in AllValues, Plain(v), NEW k \in BOOLEAN
    PROVE  Req(v, k) \in AllValues /\ IsJSON(Req(v, k)) /\ Req(v, k) # Missing
<1>1. Layers + 2 \in Nat /\ Layers + 2 <= Layers + 2 /\ Below(Layers + 2) = AllValues
  BY StructuredAssumption DEF Below, AllValues
<1> QED
  BY <1>1, RequestStays, NoValueIsMissing

LEMMA MeansIs ==
    ASSUME NEW v \in AllValues, NEW j \in AllValues, NEW t \in Types
    PROVE  Means[v][j][t] = MeansBody(Means, v, j, t)
<1>1. Means[v] = MeansFrom(Means, v)
  BY MeansUnfolds
<1>2. MeansFrom(Means, v)[j] = [type \in Types |-> MeansBody(Means, v, j, type)]
  BY DEF MeansFrom
<1>3. [type \in Types |-> MeansBody(Means, v, j, type)][t] = MeansBody(Means, v, j, t)
  OBVIOUS
<1> QED
  BY <1>1, <1>2, <1>3

LEMMA AnyTypeIs == AnyType \in Types /\ Is("dynamic", AnyType) /\ ~Is("list", AnyType) /\ ~Is("string", AnyType)
BY LeafTypesAre DEF LeafTypes, Is

LEMMA ObjectSaysItself ==
    ASSUME NEW v \in AllValues, Plain(v), Is("object", v),
           \A m \in MembersOf(v) : Plain(m) /\ Means[m][Req(m, TRUE)][AnyType]
    PROVE  Means[v][Req(v, TRUE)][AnyType]
<1> DEFINE r == Req(v, TRUE)
           kept == {n \in NamesOf(v.object) : Keeps(TRUE) \/ v.object[n] # Null}
<1>1. r \in AllValues
  BY RequestIsValue
<1>2. kept = NamesOf(v.object)
  BY DEF Keeps
<1>3. /\ Is("object", r)
      /\ \A n \in kept : r.object[n] = Req(v.object[n], TRUE)
      /\ \A n \in MemberNames : n \notin kept => r.object[n] = Missing
  BY RequestOfObjectValue
<1> HIDE DEF r, kept
<1>4. \A n \in NamesOf(v.object) : v.object[n] \in MembersOf(v)
  BY AllValuesIsLayer, ObjectParts
<1>5. \A n \in NamesOf(v.object) : v.object[n] \in AllValues /\ Plain(v.object[n]) /\ r.object[n] = Req(v.object[n], TRUE)
  BY <1>2, <1>3, <1>4, MembersAreValues
<1>6. \A n \in NamesOf(v.object) : r.object[n] # Missing /\ Means[v.object[n]][r.object[n]][AnyType]
  BY <1>4, <1>5, RequestIsValue
<1>7. NamesOf(v.object) = NamesOf(r.object)
  BY <1>2, <1>3, <1>6 DEF NamesOf, Has
<1>8. MeansBody(Means, v, r, AnyType)
  BY <1>3, <1>6, <1>7, AnyTypeIs DEF MeansBody
<1> QED
  BY <1>1, <1>8, MeansIs, AnyTypeIs DEF r

LEMMA MapSaysItself ==
    ASSUME NEW v \in AllValues, Plain(v), Is("map", v),
           \A m \in MembersOf(v) : Plain(m) /\ Means[m][Req(m, TRUE)][AnyType]
    PROVE  Means[v][Req(v, TRUE)][AnyType]
<1> DEFINE r == Req(v, TRUE)
<1>1. r \in AllValues
  BY RequestIsValue
<1>3. /\ Is("object", r)
      /\ \A n \in NamesOf(v.map) : r.object[n] = Req(v.map[n], TRUE)
      /\ \A n \in MemberNames : n \notin NamesOf(v.map) => r.object[n] = Missing
  BY RequestOfMapValue
<1> HIDE DEF r
<1>4. \A n \in NamesOf(v.map) : v.map[n] \in MembersOf(v)
  BY AllValuesIsLayer, MapParts
<1>5. \A n \in NamesOf(v.map) : v.map[n] \in AllValues /\ Plain(v.map[n]) /\ r.object[n] = Req(v.map[n], TRUE)
  BY <1>3, <1>4, MembersAreValues
<1>6. \A n \in NamesOf(v.map) : r.object[n] # Missing /\ Means[v.map[n]][r.object[n]][AnyType]
  BY <1>4, <1>5, RequestIsValue
<1>7. NamesOf(v.map) = NamesOf(r.object)
  BY <1>3, <1>6 DEF NamesOf, Has
<1>8. MeansBody(Means, v, r, AnyType)
  BY <1>3, <1>6, <1>7, AnyTypeIs DEF MeansBody
<1> QED
  BY <1>1, <1>8, MeansIs, AnyTypeIs DEF r

LEMMA ItemsSayThemselves ==
    ASSUME NEW v \in AllValues, Plain(v), NEW s,
           (Is("list", v) /\ s = v.list) \/ (Is("tuple", v) /\ s = v.tuple),
           \A m \in MembersOf(v) : Plain(m) /\ Means[m][Req(m, TRUE)][AnyType]
    PROVE  Means[v][Req(v, TRUE)][AnyType]
<1> DEFINE r == Req(v, TRUE)
<1>1. r \in AllValues
  BY RequestIsValue
<1>2. ItemsRequested(r, s)
  BY RequestOfItems
<1> HIDE DEF r
<1>3. \A i \in DOMAIN s : s[i] \in MembersOf(v)
  <2>1. CASE Is("list", v) /\ s = v.list
    BY <2>1, AllValuesIsLayer, ListParts
  <2>2. CASE Is("tuple", v) /\ s = v.tuple
    BY <2>2, AllValuesIsLayer, TupleParts
  <2> QED
    BY <2>1, <2>2
<1>4. /\ Is("array", r) /\ DOMAIN s = DOMAIN r.array
      /\ \A i \in DOMAIN r.array : Means[s[i]][r.array[i]][AnyType]
  BY <1>2, <1>3 DEF ItemsRequested
<1>5. MeansBody(Means, v, r, AnyType)
  BY <1>4, AnyTypeIs DEF MeansBody
<1> QED
  BY <1>1, <1>5, MeansIs, AnyTypeIs DEF r

LEMMA SaysItself ==
    \A v \in AllValues : Plain(v) => Means[v][Req(v, TRUE)][AnyType]
<1> DEFINE P == {v \in AllValues : Plain(v) => Means[v][Req(v, TRUE)][AnyType]}
<1>1. ASSUME NEW v \in AllValues, MembersOf(v) \subseteq P PROVE v \in P
  <2> SUFFICES ASSUME Plain(v) PROVE Means[v][Req(v, TRUE)][AnyType]
    OBVIOUS
  <2>1. PlainKind(v) /\ \A m \in MembersOf(v) : Plain(m) /\ Means[m][Req(m, TRUE)][AnyType]
    BY <1>1, PlainIs
  <2>2. CASE Is("object", v)
    BY <2>1, <2>2, ObjectSaysItself
  <2>3. CASE Is("map", v)
    BY <2>1, <2>3, MapSaysItself
  <2>4. CASE Is("list", v)
    BY <2>1, <2>4, ItemsSayThemselves
  <2>5. CASE Is("tuple", v)
    BY <2>1, <2>5, ItemsSayThemselves
  <2>6. CASE Is("dynamic", v)
    <3>1. v.dynamic \in MembersOf(v) /\ Req(v, TRUE) = Req(v.dynamic, TRUE)
      BY <2>6, AllValuesIsLayer, DynamicParts, RequestOfDynamicValue
    <3>2. Means[v.dynamic][Req(v, TRUE)][AnyType]
      BY <2>1, <3>1
    <3>3. Req(v, TRUE) \in AllValues
      BY RequestIsValue
    <3>4. MeansBody(Means, v, Req(v, TRUE), AnyType)
      BY <2>6, <3>2 DEF MeansBody
    <3> QED
      BY <3>3, <3>4, MeansIs, AnyTypeIs
  <2>7. CASE v = Null \/ IsScalar(v)
    <3>1. Req(v, TRUE) = v
      BY <2>7, RequestOfLeaf
    <3>2. MeansBody(Means, v, v, AnyType)
      BY <2>7, AnyTypeIs DEF MeansBody
    <3> QED
      BY <3>1, <3>2, MeansIs, AnyTypeIs
  <2> QED
    BY <2>1, <2>2, <2>3, <2>4, <2>5, <2>6, <2>7, AllValuesIsLayer, KindOf DEF PlainKind
<1>2. AllValues \subseteq P
  <2> HIDE DEF P
  <2> QED
    BY <1>1, ValuesByInduction
<1> QED
  BY <1>2

(***************************************************************************)
(* Members of declared objects, and attributes of any type                 *)
(***************************************************************************)

LEMMA HasTypeIs ==
    ASSUME NEW j \in AllValues, NEW t \in Types
    PROVE  HasType[j][t] = HasTypeBody(HasType, j, t)
<1>1. HasType[j] = HasTypeFrom(HasType, j)
  BY HasTypeUnfolds
<1>2. [type \in Types |-> HasTypeBody(HasType, j, type)][t] = HasTypeBody(HasType, j, t)
  OBVIOUS
<1> QED
  BY <1>1, <1>2 DEF HasTypeFrom

LEMMA AttributeIs ==
    ASSUME NEW j \in AllValues, NEW t \in Types
    PROVE  JSONAttribute[j][t] = AttributeBody(JSONAttribute, j, t)
<1>1. JSONAttribute[j] = AttributeFrom(JSONAttribute, j)
  BY AttributeUnfolds
<1>2. [type \in Types |-> AttributeBody(JSONAttribute, j, type)][t] = AttributeBody(JSONAttribute, j, t)
  OBVIOUS
<1> QED
  BY <1>1, <1>2 DEF AttributeFrom

LEMMA NullAttribute ==
    ASSUME NEW t, NEW f
    PROVE  AttributeBody(f, Null, t) = Null
<1>1. ~Is("array", Null) /\ ~Is("object", Null)
  BY NullHasNoKind DEF Is
<1> QED
  BY <1>1 DEF AttributeBody

\* Values that Terraform has where the schema declares a string, a list of strings or dynamic.
FitsLeaf(v, t) ==
    /\ v \in AllValues /\ Plain(v)
    /\ \/ v = Null
       \/ t = StringType /\ Is("string", v)
       \/ t = AnyType /\ Is("dynamic", v)
       \/ t = List(StringType) /\ Is("list", v) /\ \A i \in DOMAIN v.list : v.list[i] = Null \/ Is("string", v.list[i])

LEMMA LeafKinds ==
    /\ StringType \in Types /\ List(StringType) \in Types /\ AnyType \in Types
    /\ Is("string", StringType) /\ ~Is("list", StringType) /\ ~Is("object", StringType) /\ ~Is("dynamic", StringType)
    /\ Is("list", List(StringType)) /\ ~Is("string", List(StringType)) /\ ~Is("object", List(StringType)) /\ ~Is("dynamic", List(StringType))
    /\ Is("dynamic", AnyType) /\ ~Is("string", AnyType)
    /\ List(StringType).list = StringType
    /\ StringType # List(StringType) /\ StringType # AnyType /\ AnyType # List(StringType)
BY LeafTypesAre DEF LeafTypes, Is

LEMMA LeafTypesByKind ==
    ASSUME NEW j \in AllValues, IsJSON(j), NEW t \in LeafTypes, HasType[j][t]
    PROVE  \/ j = Null
           \/ t = StringType /\ IsScalar(j)
           \/ t = AnyType
           \/ t = List(StringType) /\ Is("array", j) /\ \A i \in DOMAIN j.array : HasType[j.array[i]][StringType]
<1>1. HasTypeBody(HasType, j, t)
  BY HasTypeIs, LeafTypesAre
<1>2. CASE t = StringType
  BY <1>1, <1>2, LeafKinds DEF HasTypeBody
<1>3. CASE t = List(StringType)
  BY <1>1, <1>3, LeafKinds DEF HasTypeBody
<1> QED
  BY <1>2, <1>3 DEF LeafTypes

LEMMA TextIs ==
    ASSUME NEW S, NEW v \in ValuesOver(S), IsScalar(v), NEW T
    PROVE  /\ Is("string", AsText(v)) /\ IsScalar(AsText(v)) /\ AsText(v) \in ValuesOver(T)
           /\ Is("string", v) => AsText(v) = v
           /\ AsText(v) = String(Wording(v))
<1>1. v \in [string : STRING] \/ v \in [number : STRING]
  BY KindsOfValue, NullHasNoKind DEF IsScalar, Is, ValuesOver
<1>2. CASE v \in [string : STRING]
  <2>1. DOMAIN v = {"string"}
    BY <1>2
  <2>2. AsText(v) = v
    BY <2>1 DEF AsText, Is
  <2>3. v \in ValuesOver(T)
    BY <1>2 DEF ValuesOver
  <2>4. v = [string |-> v.string]
    BY <1>2
  <2> QED
    BY <2>1, <2>2, <2>3, <2>4 DEF Is, IsScalar, Wording, String
<1>3. CASE v \in [number : STRING]
  <2>1. DOMAIN v = {"number"} /\ v.number \in STRING
    BY <1>3
  <2>2. AsText(v) = [string |-> v.number] /\ ~Is("string", v)
    BY <2>1 DEF AsText, Is, String
  <2>3. [string |-> v.number] \in [string : STRING]
    BY <2>1
  <2>4. [string |-> v.number] \in ValuesOver(T)
    BY <2>3 DEF ValuesOver
  <2> QED
    BY <2>2, <2>4 DEF Is, IsScalar, Wording, String
<1> QED
  BY <1>1, <1>2, <1>3

LEMMA TextOfNull == AsText(Null) = Null
BY NullHasNoKind DEF AsText, Is

\* The text of a value of the layers below n, of one that is no scalar too.
LEMMA TextBelow ==
    ASSUME NEW n \in Nat, n <= Layers + 2, NEW v \in Below(n), v = Null \/ IsScalar(v)
    PROVE  /\ AsText(v) \in Below(n) /\ AsText(v) \in AllValues /\ Plain(AsText(v))
           /\ AsText(v) = Null \/ (Is("string", AsText(v)) /\ IsScalar(AsText(v)))
           /\ \A k \in BOOLEAN : Req(AsText(v), k) = AsText(v)
<1>1. n # 0 /\ n - 1 \in Nat /\ n - 1 <= Layers + 1 /\ Below(n) = Layered[n - 1] /\ n - 1 \in 0..Layers + 1
  BY LayersAreNumbers DEF Below
<1>2. v \in ValuesOver(Below(n - 1))
  BY <1>1, MembersOfLayer
<1>3. AsText(v) \in ValuesOver(Below(n - 1)) /\ (AsText(v) = Null \/ (Is("string", AsText(v)) /\ IsScalar(AsText(v))))
  <2>1. CASE v = Null
    BY <1>2, <2>1, TextOfNull
  <2>2. CASE IsScalar(v)
    BY <1>2, <2>2, TextIs
  <2> QED
    BY <2>1, <2>2
<1>4. AsText(v) \in Below(n) /\ AsText(v) \in AllValues
  BY <1>1, <1>3, LayeredUnfolds, LayersNest
<1>5. PlainKind(AsText(v)) /\ MembersOf(AsText(v)) = {}
  BY <1>3, <1>4, AllValuesIsLayer, NullParts, ScalarParts, NullHasNoKind DEF PlainKind, Is
<1>6. Plain(AsText(v))
  BY <1>4, <1>5, PlainIs
<1> QED
  BY <1>3, <1>4, <1>6, RequestOfLeaf

\* What an answer says once its numbers are texts, where the schema declares strings.
Told(j, t) ==
    IF t = StringType THEN AsText(j)
    ELSE IF t = List(StringType) /\ Is("array", j) THEN Array([i \in DOMAIN j.array |-> AsText(j.array[i])])
    ELSE j

LEMMA ToldNull ==
    ASSUME NEW t
    PROVE  Told(Null, t) = Null
BY TextOfNull, NullHasNoKind DEF Told, Is

LEMMA ToldItems ==
    ASSUME NEW j, Is("array", j)
    PROVE  LET r == Told(j, List(StringType)) IN
           Is("array", r) /\ DOMAIN r.array = DOMAIN j.array /\ \A i \in DOMAIN j.array : r.array[i] = AsText(j.array[i])
<1> DEFINE f == [i \in DOMAIN j.array |-> AsText(j.array[i])]
<1>1. Told(j, List(StringType)) = Array(f)
  BY LeafKinds DEF Told
<1>2. DOMAIN f = DOMAIN j.array /\ \A i \in DOMAIN j.array : f[i] = AsText(j.array[i])
  OBVIOUS
<1> HIDE DEF f
<1> QED
  BY <1>1, <1>2, KindsAreTold

\* A value that is sent as what the answer says once told as text says what the answer says.
LEMMA LeafSaysTheAnswer ==
    ASSUME NEW t \in LeafTypes, NEW v, FitsLeaf(v, t), NEW k \in BOOLEAN,
           NEW j \in AllValues, IsJSON(j), HasType[j][t], Req(v, k) = Told(j, t)
    PROVE  Means[v][j][t]
<1>1. v \in AllValues /\ Plain(v) /\ t \in Types
  BY LeafTypesAre DEF FitsLeaf
<1>2. SUFFICES MeansBody(Means, v, j, t)
  BY <1>1, MeansIs
<1>3. v = Null => Req(v, k) = Null
  BY <1>1, RequestOfLeaf
<1>4. CASE t = StringType
  <2>1. v = Null \/ IsScalar(v)
    BY <1>4, LeafKinds DEF FitsLeaf, IsScalar
  <2>2. v = AsText(j)
    BY <1>1, <1>4, <2>1, RequestOfLeaf DEF Told
  <2>3. j = Null \/ IsScalar(j)
    BY <1>4, LeafTypesByKind, LeafKinds
  <2>4. IsScalar(j) => AsText(j) = String(Wording(j))
    BY AllValuesIsLayer, TextIs
  <2> QED
    BY <1>4, <2>2, <2>3, <2>4, TextOfNull, LeafKinds DEF MeansBody
<1>5. CASE t = AnyType
  <2>1. Req(v, k) = j
    BY <1>5, LeafKinds DEF Told
  <2>2. CASE v = Null
    BY <1>3, <2>1, <2>2 DEF MeansBody
  <2>3. CASE Is("dynamic", v)
    <3>1. v.dynamic \in MembersOf(v) /\ Req(v, k) = Req(v.dynamic, TRUE)
      BY <1>1, <2>3, AllValuesIsLayer, DynamicParts, RequestOfDynamicValue
    <3>2. v.dynamic \in AllValues /\ Plain(v.dynamic)
      BY <1>1, <3>1, MembersAreValues, PlainIs
    <3>3. Means[v.dynamic][j][t]
      BY <1>5, <2>1, <3>1, <3>2, SaysItself
    <3> QED
      BY <2>3, <3>3 DEF MeansBody
  <2> QED
    BY <1>5, <2>2, <2>3, LeafKinds DEF FitsLeaf
<1>6. CASE t = List(StringType)
  <2>1. CASE j = Null
    <3>1. Req(v, k) = Null
      BY <2>1, ToldNull
    <3>2. v = Null
      <4>1. SUFFICES ASSUME Is("list", v) PROVE FALSE
        BY <1>6, LeafKinds DEF FitsLeaf
      <4>2. Is("array", Null)
        BY <1>1, <3>1, <4>1, RequestOfItems DEF ItemsRequested
      <4> QED
        BY <4>2, NullHasNoKind DEF Is
    <3> QED
      BY <2>1, <3>2 DEF MeansBody
  <2>2. CASE Is("array", j) /\ \A i \in DOMAIN j.array : HasType[j.array[i]][StringType]
    <3> DEFINE r == Told(j, List(StringType))
    <3>1. Is("array", r) /\ DOMAIN r.array = DOMAIN j.array /\ \A i \in DOMAIN j.array : r.array[i] = AsText(j.array[i])
      BY <2>2, ToldItems
    <3>2. Req(v, k) = r
      BY <1>6
    <3> HIDE DEF r
    <3>3. Is("list", v) /\ \A i \in DOMAIN v.list : v.list[i] = Null \/ Is("string", v.list[i])
      <4>1. v # Null
        BY <1>3, <3>1, <3>2, NullHasNoKind DEF Is
      <4> QED
        BY <1>6, <4>1, LeafKinds DEF FitsLeaf
    <3>4. DOMAIN r.array = DOMAIN v.list /\ \A i \in DOMAIN v.list : r.array[i] = Req(v.list[i], TRUE)
      <4>1. ItemsRequested(Req(v, k), v.list)
        BY <1>1, <3>3, RequestOfItems
      <4> QED
        BY <3>2, <4>1 DEF ItemsRequested
    <3>5. ASSUME NEW i \in DOMAIN j.array PROVE Means[v.list[i]][j.array[i]][StringType]
      <4>1. v.list[i] \in AllValues
        BY <1>1, <3>1, <3>3, <3>4, AllValuesIsLayer, ListParts, MembersAreValues
      <4>2. Req(v.list[i], TRUE) = v.list[i]
        BY <3>1, <3>3, <3>4, <4>1, RequestOfLeaf DEF IsScalar
      <4>3. v.list[i] = AsText(j.array[i])
        BY <3>1, <3>4, <4>2
      <4>4. j.array[i] \in MembersOf(j)
        BY <2>2, AllValuesIsLayer, ArrayParts
      <4>5. j.array[i] \in AllValues /\ IsJSON(j.array[i])
        BY <4>4, MembersAreValues, JSONIs
      <4>6. j.array[i] = Null \/ IsScalar(j.array[i])
        <5>1. HasType[j.array[i]][StringType]
          BY <2>2
        <5> QED
          BY <4>5, <5>1, LeafTypesByKind, LeafKinds DEF LeafTypes
      <4>7. IsScalar(j.array[i]) => AsText(j.array[i]) = String(Wording(j.array[i]))
        BY <4>5, AllValuesIsLayer, TextIs
      <4>8. MeansBody(Means, v.list[i], j.array[i], StringType)
        BY <4>3, <4>6, <4>7, TextOfNull, LeafKinds DEF MeansBody
      <4> QED
        BY <4>1, <4>5, <4>8, MeansIs, LeafKinds
    <3> QED
      BY <1>6, <2>2, <3>1, <3>3, <3>4, <3>5, LeafKinds DEF MeansBody
  <2> QED
    BY <1>6, <2>1, <2>2, LeafTypesByKind, LeafKinds
<1> QED
  BY <1>4, <1>5, <1>6 DEF LeafTypes

\* What a value of the declared type is sent as is of that type, and has no numbers to tell.
LEMMA LeafRequestIsTold ==
    ASSUME NEW t \in LeafTypes, NEW v, FitsLeaf(v, t), NEW k \in BOOLEAN
    PROVE  HasType[Req(v, k)][t] /\ Told(Req(v, k), t) = Req(v, k)
<1> DEFINE r == Req(v, k)
<1>1. v \in AllValues /\ Plain(v) /\ t \in Types
  BY LeafTypesAre DEF FitsLeaf
<1>2. r \in AllValues /\ IsJSON(r)
  BY <1>1, RequestIsValue
<1>3. HasType[r][t] <=> HasTypeBody(HasType, r, t)
  BY <1>1, <1>2, HasTypeIs
<1>4. CASE v = Null
  <2>1. r = Null
    BY <1>1, <1>4, RequestOfLeaf
  <2> HIDE DEF r
  <2> QED
    BY <1>3, <2>1, ToldNull DEF HasTypeBody, r
<1>5. CASE t = StringType /\ Is("string", v)
  <2>1. IsScalar(v) /\ AsText(v) = v
    BY <1>1, <1>5, AllValuesIsLayer, TextIs DEF IsScalar
  <2>2. r = v
    BY <1>1, <2>1, RequestOfLeaf
  <2> HIDE DEF r
  <2> QED
    BY <1>3, <1>5, <2>1, <2>2, LeafKinds DEF HasTypeBody, Told, r
<1>6. CASE t = AnyType
  BY <1>3, <1>6, LeafKinds DEF HasTypeBody, Told
<1>7. CASE t = List(StringType) /\ Is("list", v) /\ \A i \in DOMAIN v.list : v.list[i] = Null \/ Is("string", v.list[i])
  <2>1. ItemsRequested(r, v.list)
    BY <1>1, <1>7, RequestOfItems
  <2> HIDE DEF r
  <2>2. ASSUME NEW i \in DOMAIN r.array
        PROVE  HasType[r.array[i]][StringType] /\ AsText(r.array[i]) = r.array[i]
    <3>1. v.list[i] \in AllValues /\ i \in DOMAIN v.list
      BY <1>1, <1>7, <2>1, AllValuesIsLayer, ListParts, MembersAreValues DEF ItemsRequested
    <3>2. v.list[i] = Null \/ (IsScalar(v.list[i]) /\ AsText(v.list[i]) = v.list[i])
      BY <1>7, <3>1, AllValuesIsLayer, TextIs DEF IsScalar
    <3>3. r.array[i] = v.list[i]
      BY <2>1, <3>1, <3>2, RequestOfLeaf DEF ItemsRequested
    <3>4. HasTypeBody(HasType, v.list[i], StringType)
      BY <3>2, LeafKinds DEF HasTypeBody
    <3> QED
      BY <3>1, <3>2, <3>3, <3>4, HasTypeIs, LeafKinds, TextOfNull
  <2>3. HasTypeBody(HasType, r, t)
    BY <1>7, <2>1, <2>2, LeafKinds DEF HasTypeBody, ItemsRequested
  <2> DEFINE q == Told(r, List(StringType))
             f == [i \in DOMAIN r.array |-> AsText(r.array[i])]
  <2>4. q = Array(f)
    BY <2>1, LeafKinds DEF Told, ItemsRequested
  <2>5. r.array \in [DOMAIN v.list -> {r.array[i] : i \in DOMAIN r.array}]
    BY <2>1 DEF ItemsRequested
  <2>6. f = r.array
    BY <2>1, <2>2, <2>5 DEF ItemsRequested
  <2>7. q = r
    BY <2>1, <2>4, <2>6 DEF ItemsRequested
  <2> QED
    BY <1>3, <1>7, <2>3, <2>7 DEF r
<1> QED
  BY <1>4, <1>5, <1>6, <1>7 DEF FitsLeaf

\* What an answer becomes is sent as that answer, numbers told as text.
LEMMA LeafAttribute ==
    ASSUME NEW n \in Nat, n <= Layers + 1, NEW j \in Below(n), IsJSON(j), NEW t \in LeafTypes, HasType[j][t]
    PROVE  LET a == JSONAttribute[j][t] IN
           a \in Layered[n] /\ FitsLeaf(a, t) /\ \A k \in BOOLEAN : Req(a, k) = Told(j, t)
<1> DEFINE a == JSONAttribute[j][t]
<1>1. Below(n) \subseteq Layered[n] /\ Layered[n] \subseteq AllValues /\ j \in AllValues /\ j \in Layered[n] /\ t \in Types
  BY LayersGrow, LayersNest, LeafTypesAre
<1>2. a = AttributeBody(JSONAttribute, j, t)
  BY <1>1, AttributeIs
<1>3. CASE j = Null \/ (t = StringType /\ IsScalar(j))
  <2>1. a = AsText(j)
    <3>1. CASE j = Null
      <4>1. AttributeBody(JSONAttribute, j, t) = Null
        BY <3>1, NullAttribute
      <4> QED
        BY <1>2, <3>1, <4>1, TextOfNull
    <3>2. CASE j # Null /\ t = StringType
      BY <1>1, <1>2, <3>2, AttributeCases, LeafKinds
    <3> QED
      BY <1>3, <3>1, <3>2
  <2>2. n <= Layers + 2
    BY LayersAreNumbers
  <2>3. /\ AsText(j) \in Below(n) /\ AsText(j) \in AllValues /\ Plain(AsText(j))
        /\ AsText(j) = Null \/ (Is("string", AsText(j)) /\ IsScalar(AsText(j)))
        /\ \A k \in BOOLEAN : Req(AsText(j), k) = AsText(j)
    BY <1>3, <2>2, TextBelow
  <2>4. AsText(j) = Told(j, t)
    BY <1>3, ToldNull, TextOfNull DEF Told
  <2>5. FitsLeaf(AsText(j), t)
    BY <1>3, <2>3, TextOfNull DEF FitsLeaf
  <2> QED
    BY <1>1, <2>1, <2>3, <2>4, <2>5
<1>4. CASE j # Null /\ t = AnyType
  <2>1. a = Dynamic(Inferred[j])
    BY <1>1, <1>2, <1>4, AttributeCases, LeafKinds
  <2>2. InferredWell(n, j)
    <3>1. n <= Layers + 2
      BY LayersAreNumbers
    <3> QED
      BY <3>1, InferredStays
  <2>3. Dynamic(Inferred[j]) \in ValuesOver(Below(n)) /\ Is("dynamic", Dynamic(Inferred[j])) /\ Dynamic(Inferred[j]).dynamic = Inferred[j]
    BY <2>2, DynamicIsValue DEF InferredWell
  <2>4. a \in Layered[n] /\ a \in AllValues /\ Is("dynamic", a) /\ a.dynamic = Inferred[j]
    BY <1>1, <2>1, <2>3, LayeredUnfolds, LayersAreNumbers
  <2> HIDE DEF a
  <2>5. DOMAIN a = {"dynamic"} /\ MembersOf(a) = {a.dynamic}
    <3>1. DOMAIN a = {"dynamic"}
      BY <2>4, AllValuesIsLayer, DynamicParts
    <3> QED
      BY <3>1 DEF MembersOf, Is
  <2>6. PlainKind(a)
    BY <2>5, NullHasNoKind DEF PlainKind, Is
  <2>7. Plain(a)
    BY <2>2, <2>4, <2>5, <2>6, PlainIs DEF InferredWell
  <2>8. \A k \in BOOLEAN : Req(a, k) = j
    BY <2>2, <2>4, RequestOfDynamicValue DEF InferredWell
  <2>9. FitsLeaf(a, t) /\ Told(j, t) = j
    BY <1>4, <2>4, <2>7, LeafKinds DEF FitsLeaf, Told
  <2> QED
    BY <2>4, <2>8, <2>9 DEF a
<1>5. CASE t = List(StringType) /\ Is("array", j) /\ \A i \in DOMAIN j.array : HasType[j.array[i]][StringType]
  <2>1. n # 0 /\ n - 1 \in Nat /\ n - 1 <= Layers + 1 /\ n - 1 <= Layers + 2 /\ j \in Layered[n - 1]
    BY LayersAreNumbers DEF Below
  <2>2. /\ j \in ValuesOver(Below(n - 1)) /\ Below(n - 1) \subseteq AllValues
    BY <2>1, MembersOfLayer, LayersNest
  <2>3. /\ j = Array(j.array) /\ Len(j.array) \in Nat /\ DOMAIN j.array = 1..Len(j.array)
        /\ \A i \in DOMAIN j.array : j.array[i] \in MembersOf(j) /\ j.array[i] \in Below(n - 1)
    BY <1>5, <2>2, ArrayParts
  <2> DEFINE s == [i \in DOMAIN j.array |-> AsText(j.array[i])]
             len == Len(j.array)
  <2>4. ASSUME NEW i \in DOMAIN j.array
        PROVE  LET w == j.array[i] IN
               /\ JSONAttribute[w][StringType] = AsText(w)
               /\ AsText(w) \in Below(n - 1) /\ AsText(w) \in AllValues /\ Plain(AsText(w))
               /\ AsText(w) = Null \/ Is("string", AsText(w))
               /\ Req(AsText(w), TRUE) = AsText(w)
    <3> DEFINE w == j.array[i]
    <3>1. w \in AllValues /\ w \in Below(n - 1)
      BY <2>2, <2>3
    <3>2. HasTypeBody(HasType, w, StringType)
      BY <1>5, <3>1, HasTypeIs, LeafKinds
    <3>3. w = Null \/ IsScalar(w)
      BY <3>2, LeafKinds DEF HasTypeBody
    <3> HIDE DEF w
    <3>4. AttributeBody(JSONAttribute, w, StringType) = AsText(w)
      <4>1. CASE w = Null
        <5>1. AttributeBody(JSONAttribute, w, StringType) = Null
          BY <4>1, NullAttribute
        <5> QED
          BY <4>1, <5>1, TextOfNull
      <4>2. w # Null => AttributeBody(JSONAttribute, w, StringType) = AsText(w)
        BY <3>1, AttributeCases, LeafKinds
      <4> QED
        BY <4>1, <4>2
    <3>5. JSONAttribute[w][StringType] = AsText(w)
      BY <3>1, <3>4, AttributeIs, LeafKinds
    <3>6. /\ AsText(w) \in Below(n - 1) /\ AsText(w) \in AllValues /\ Plain(AsText(w))
          /\ AsText(w) = Null \/ Is("string", AsText(w))
          /\ Req(AsText(w), TRUE) = AsText(w)
      BY <2>1, <3>1, <3>3, TextBelow
    <3> QED
      BY <3>5, <3>6 DEF w
  <2>5. s \in [1..len -> Below(n - 1)] /\ DOMAIN s = DOMAIN j.array /\ \A i \in DOMAIN s : s[i] = AsText(j.array[i])
    BY <2>3, <2>4
  <2>6. a = List([i \in DOMAIN j.array |-> JSONAttribute[j.array[i]][t.list]])
    BY <1>1, <1>2, <1>5, AttributeCases, LeafKinds
  <2>7. [i \in DOMAIN j.array |-> JSONAttribute[j.array[i]][t.list]] = s
    BY <1>5, <2>4, LeafKinds
  <2>8. Told(j, t) = Array(s)
    BY <1>5, LeafKinds DEF Told
  <2> HIDE DEF s
  <2>9. a = List(s)
    BY <2>6, <2>7
  <2>10. \A i \in 1..len : Plain(s[i])
    BY <2>3, <2>4, <2>5
  <2>11. List(s) \in Layered[n - 1] /\ Plain(List(s))
    BY <2>1, <2>3, <2>5, <2>10, ItemsArePlain
  <2>12. List(s) \in Layered[n] /\ List(s) \in AllValues
    <3>1. Below(n) = Layered[n - 1]
      BY <2>1 DEF Below
    <3> QED
      BY <1>1, <2>11, <3>1
  <2>13. Is("list", List(s)) /\ List(s).list = s
    BY KindsAreTold
  <2>14. FitsLeaf(List(s), t)
    BY <1>5, <2>4, <2>5, <2>11, <2>12, <2>13 DEF FitsLeaf
  <2>15. ASSUME NEW k \in BOOLEAN PROVE Req(List(s), k) = Array(s)
    <3> DEFINE r == Req(List(s), k)
    <3>1. ItemsRequested(r, s)
      BY <2>12, <2>13, RequestOfItems
    <3> HIDE DEF r
    <3>2. \A i \in DOMAIN s : r.array[i] = s[i]
      BY <2>4, <2>5, <3>1 DEF ItemsRequested
    <3>3. r.array \in [DOMAIN s -> Below(n - 1)]
      BY <2>3, <2>5, <3>1, <3>2 DEF ItemsRequested
    <3>4. r.array = s
      BY <2>3, <2>5, <3>2, <3>3
    <3> QED
      BY <3>1, <3>4 DEF r, ItemsRequested
  <2> QED
    BY <2>8, <2>9, <2>12, <2>14, <2>15
<1> QED
  BY <1>1, <1>3, <1>4, <1>5, LeafTypesByKind

\* Values that Terraform has where the schema declares an object.
FitsObject(v, t) ==
    v = Null \/ /\ v \in AllValues /\ Plain(v) /\ Is("object", v)
                /\ NamesOf(v.object) = NamesOf(t.object)
                /\ \A n \in NamesOf(t.object) : FitsLeaf(v.object[n], t.object[n])

Fits(v, t) == IF t \in LeafTypes THEN FitsLeaf(v, t) ELSE FitsObject(v, t)

MemberOrNull(j, n) == IF Has(j.object, n) THEN j.object[n] ELSE Null

LEMMA ObjectTypeKinds ==
    ASSUME NEW t \in Types, t \notin LeafTypes
    PROVE  /\ Is("object", t) /\ ~Is("string", t) /\ ~Is("list", t) /\ ~Is("dynamic", t)
           /\ \A n \in NamesOf(t.object) : t.object[n] \in LeafTypes /\ n \in MemberNames
BY ObjectTypesAre DEF Is, NamesOf

LEMMA ObjectAnswers ==
    ASSUME NEW j \in AllValues, NEW t \in Types, t \notin LeafTypes, HasType[j][t]
    PROVE  j = Null \/ /\ Is("object", j)
                       /\ \A n \in NamesOf(t.object) : Has(j.object, n) => HasType[j.object[n]][t.object[n]]
<1>1. HasTypeBody(HasType, j, t)
  BY HasTypeIs
<1>2. Is("object", t) /\ ~Is("string", t) /\ ~Is("list", t) /\ ~Is("dynamic", t)
  BY ObjectTypeKinds
<1> QED
  BY <1>1, <1>2 DEF HasTypeBody, NamesOf

LEMMA AttributeOfObject ==
    ASSUME NEW v \in AllValues, NEW t \in Types, Is("object", t), Is("object", v)
    PROVE  AttributeBody(JSONAttribute, v, t) =
               Object([n \in NamesOf(t.object) |->
                   IF Has(v.object, n) THEN JSONAttribute[v.object[n]][t.object[n]] ELSE Null])
BY AttributeCases

\* A member of an answer, or the null that stands for it, has the declared type.
LEMMA MemberOrNullIs ==
    ASSUME NEW j \in AllValues, IsJSON(j), Is("object", j),
           NEW t \in Types, t \notin LeafTypes, HasType[j][t], NEW n \in NamesOf(t.object)
    PROVE  /\ MemberOrNull(j, n) \in AllValues /\ IsJSON(MemberOrNull(j, n))
           /\ HasType[MemberOrNull(j, n)][t.object[n]]
<1>1. t.object[n] \in LeafTypes /\ t.object[n] \in Types /\ n \in MemberNames
  BY ObjectTypeKinds, LeafTypesAre
<1>2. CASE Has(j.object, n)
  <2>1. j.object[n] \in MembersOf(j)
    BY <1>1, <1>2, AllValuesIsLayer, ObjectParts DEF NamesOf
  <2>2. j.object[n] \in AllValues /\ IsJSON(j.object[n])
    BY <2>1, MembersAreValues, JSONIs
  <2>3. j # Null
    BY NullHasNoKind DEF Is
  <2> QED
    BY <1>2, <2>2, <2>3, ObjectAnswers DEF MemberOrNull
<1>3. CASE ~Has(j.object, n)
  <2>1. Null \in AllValues /\ MembersOf(Null) = {}
    BY NullParts, LayersAreNumbers DEF AllValues
  <2>2. IsJSON(Null)
    BY <2>1, JSONIs DEF JSONKind
  <2>3. HasTypeBody(HasType, Null, t.object[n])
    BY DEF HasTypeBody
  <2> QED
    BY <1>1, <1>3, <2>1, <2>2, <2>3, HasTypeIs DEF MemberOrNull
<1> QED
  BY <1>2, <1>3

\* The members of what an answer becomes are sent as that answer's, numbers told as text.
LEMMA ObjectAttribute ==
    ASSUME NEW j \in Layered[Layers], IsJSON(j), Is("object", j),
           NEW t \in Types, t \notin LeafTypes, HasType[j][t]
    PROVE  LET a == JSONAttribute[j][t] IN
           /\ a \in AllValues /\ Plain(a) /\ Is("object", a) /\ NamesOf(a.object) = NamesOf(t.object)
           /\ \A n \in NamesOf(t.object) :
                 /\ FitsLeaf(a.object[n], t.object[n])
                 /\ \A k \in BOOLEAN : Req(a.object[n], k) = Told(MemberOrNull(j, n), t.object[n])
                 /\ MemberOrNull(j, n) = Null => a.object[n] = Null
<1> DEFINE f == [n \in NamesOf(t.object) |->
                    IF Has(j.object, n) THEN JSONAttribute[j.object[n]][t.object[n]] ELSE Null]
           a == Object(f)
<1>1. Layers \in Nat /\ Layers <= Layers + 1 /\ Layers + 1 \in Nat /\ Layers + 1 <= Layers + 1 /\ Below(Layers + 1) = Layered[Layers]
  BY StructuredAssumption, AllValuesIsLayer
<1>2. j \in AllValues /\ j \in ValuesOver(Below(Layers)) /\ Layered[Layers] \subseteq AllValues
  BY <1>1, MembersOfLayer, AllValuesIsLayer
<1>3. JSONAttribute[j][t] = a
  <2>1. JSONAttribute[j][t] = AttributeBody(JSONAttribute, j, t)
    BY <1>2, AttributeIs
  <2>2. Is("object", t)
    BY ObjectTypeKinds
  <2>3. AttributeBody(JSONAttribute, j, t) = a
    BY <1>2, <2>2, AttributeOfObject
  <2> QED
    BY <2>1, <2>3
<1>4. ASSUME NEW n \in NamesOf(t.object)
      PROVE  /\ f[n] \in Layered[Layers] /\ FitsLeaf(f[n], t.object[n])
             /\ \A k \in BOOLEAN : Req(f[n], k) = Told(MemberOrNull(j, n), t.object[n])
             /\ MemberOrNull(j, n) = Null => f[n] = Null
  <2>1. t.object[n] \in LeafTypes /\ n \in MemberNames
    BY ObjectTypeKinds
  <2>2. CASE Has(j.object, n)
    <3>1. j.object[n] \in Below(Layers) /\ j.object[n] \in MembersOf(j)
      BY <1>2, <2>1, <2>2, ObjectParts DEF NamesOf
    <3>2. IsJSON(j.object[n])
      BY <1>2, <3>1, JSONIs
    <3>3. HasType[j.object[n]][t.object[n]]
      <4>1. j # Null
        BY NullHasNoKind DEF Is
      <4> QED
        BY <1>2, <2>2, <4>1, ObjectAnswers
    <3>4. f[n] = JSONAttribute[j.object[n]][t.object[n]]
      BY <2>2
    <3> HIDE DEF f
    <3>5. f[n] \in Layered[Layers] /\ FitsLeaf(f[n], t.object[n])
          /\ \A k \in BOOLEAN : Req(f[n], k) = Told(j.object[n], t.object[n])
      BY <1>1, <2>1, <3>1, <3>2, <3>3, <3>4, LeafAttribute
    <3>6. ASSUME j.object[n] = Null PROVE f[n] = Null
      <4>1. AttributeBody(JSONAttribute, j.object[n], t.object[n]) = Null
        BY <3>6, NullAttribute
      <4>2. j.object[n] \in AllValues /\ t.object[n] \in Types
        BY <1>2, <2>1, <3>1, MembersAreValues, LeafTypesAre
      <4> QED
        BY <3>4, <4>1, <4>2, AttributeIs
    <3> QED
      BY <2>2, <3>5, <3>6 DEF MemberOrNull
  <2>3. CASE ~Has(j.object, n)
    <3>1. f[n] = Null
      BY <2>3
    <3>2. Null \in Layered[Layers] /\ Null \in AllValues /\ MembersOf(Null) = {}
      BY <1>1, <1>2, NullParts
    <3>3. Plain(Null)
      BY <3>2, PlainIs, NullHasNoKind DEF PlainKind, Is
    <3>4. \A k \in BOOLEAN : Req(Null, k) = Null
      BY <3>2, RequestOfLeaf
    <3> HIDE DEF f
    <3> QED
      BY <2>3, <3>1, <3>2, <3>3, <3>4, ToldNull DEF FitsLeaf, MemberOrNull
  <2> QED
    BY <2>2, <2>3
<1>5. DOMAIN f = NamesOf(t.object) /\ DOMAIN f \subseteq MemberNames
  BY DEF NamesOf
<1> HIDE DEF f
<1>6. \A n \in DOMAIN f : f[n] # Missing
  BY <1>2, <1>4, <1>5, NoValueIsMissing
<1>7. /\ Is("object", a) /\ a = [object |-> a.object] /\ a.object = [n \in MemberNames |-> a.object[n]]
      /\ \A n \in NamesOf(t.object) : a.object[n] = f[n]
      /\ \A n \in MemberNames : n \notin NamesOf(t.object) => a.object[n] = Missing
      /\ NamesOf(a.object) = NamesOf(t.object)
  BY <1>5, <1>6, ObjectOf
<1> HIDE DEF a
<1>8. \A n \in MemberNames : a.object[n] = Missing \/ (a.object[n] \in Below(Layers + 1) /\ Plain(a.object[n]))
  BY <1>1, <1>4, <1>7 DEF FitsLeaf
<1>9. a \in AllValues /\ Plain(a)
  BY <1>1, <1>7, <1>8, ObjectIsPlain DEF AllValues
<1>10. \A n \in NamesOf(t.object) :
          /\ FitsLeaf(a.object[n], t.object[n])
          /\ \A k \in BOOLEAN : Req(a.object[n], k) = Told(MemberOrNull(j, n), t.object[n])
          /\ MemberOrNull(j, n) = Null => a.object[n] = Null
  BY <1>4, <1>7
<1> QED
  BY <1>3, <1>7, <1>9, <1>10

LEMMA AttributeFits ==
    ASSUME NEW j \in Layered[Layers], IsJSON(j), NEW t \in Types, HasType[j][t]
    PROVE  Fits(JSONAttribute[j][t], t)
<1>1. Layers + 1 \in Nat /\ Layers + 1 <= Layers + 1 /\ Below(Layers + 1) = Layered[Layers] /\ j \in AllValues
  BY LayersAreNumbers, AllValuesIsLayer
<1>2. CASE t \in LeafTypes
  BY <1>1, <1>2, LeafAttribute DEF Fits
<1>3. CASE t \notin LeafTypes /\ Is("object", j)
  BY <1>3, ObjectAttribute DEF Fits, FitsObject
<1>4. CASE t \notin LeafTypes /\ j = Null
  <2>1. AttributeBody(JSONAttribute, j, t) = Null
    BY <1>4, NullAttribute
  <2> QED
    BY <1>1, <1>4, <2>1, AttributeIs DEF Fits, FitsObject
<1> QED
  BY <1>1, <1>2, <1>3, <1>4, ObjectAnswers

LEMMA NullIsNoObject == ~Is("object", Null)
BY NullHasNoKind DEF Is

LEMMA RequestOfNull ==
    /\ Null \in AllValues /\ Plain(Null)
    /\ \A k \in BOOLEAN : Req(Null, k) = Null
<1>1. Null \in AllValues /\ MembersOf(Null) = {}
  BY NullParts, LayersAreNumbers DEF AllValues
<1>2. Plain(Null)
  BY <1>1, PlainIs, NullHasNoKind DEF PlainKind, Is
<1> QED
  BY <1>1, <1>2, RequestOfLeaf

\* Two values are the same object in a request only when they agree on every member.
LEMMA SameObjectsAgree ==
    ASSUME NEW v \in AllValues, Plain(v), Is("object", v), NEW a \in AllValues, Plain(a), Is("object", a),
           Req(v, FALSE) = Req(a, FALSE), NamesOf(v.object) = NamesOf(a.object),
           NEW n \in NamesOf(v.object)
    PROVE  Req(v.object[n], FALSE) = Req(a.object[n], FALSE)
<1> DEFINE kv == {x \in NamesOf(v.object) : Keeps(FALSE) \/ v.object[x] # Null}
           ka == {x \in NamesOf(a.object) : Keeps(FALSE) \/ a.object[x] # Null}
           r == Req(v, FALSE)
<1>1. /\ \A x \in kv : r.object[x] = Req(v.object[x], FALSE)
      /\ \A x \in MemberNames : x \notin kv => r.object[x] = Missing
  BY RequestOfObjectValue
<1> DEFINE q == Req(a, FALSE)
<1>2. /\ \A x \in ka : q.object[x] = Req(a.object[x], FALSE)
      /\ \A x \in MemberNames : x \notin ka => q.object[x] = Missing
  BY RequestOfObjectValue
<1>10. r = q
  OBVIOUS
<1>3. n \in MemberNames /\ (n \in kv <=> v.object[n] # Null) /\ (n \in ka <=> a.object[n] # Null)
  BY DEF NamesOf, Keeps
<1>4. v.object[n] \in MembersOf(v) /\ a.object[n] \in MembersOf(a)
  BY AllValuesIsLayer, ObjectParts
<1>5. v.object[n] \in AllValues /\ Plain(v.object[n]) /\ a.object[n] \in AllValues /\ Plain(a.object[n])
  BY <1>4, MembersAreValues, PlainIs
<1>6. Req(v.object[n], FALSE) # Missing /\ Req(a.object[n], FALSE) # Missing
  BY <1>5, RequestIsValue
<1> HIDE DEF r, q, kv, ka
<1>7. CASE v.object[n] # Null
  BY <1>1, <1>2, <1>3, <1>6, <1>7, <1>10
<1>8. CASE v.object[n] = Null /\ a.object[n] = Null
  BY <1>8
<1>9. CASE v.object[n] = Null /\ a.object[n] # Null
  BY <1>1, <1>2, <1>3, <1>6, <1>9, <1>10
<1> QED
  BY <1>7, <1>8, <1>9

\* A value that is the same request as what the answer becomes says what the answer says.
LEMMA SameRequestsMeanTheSame ==
    ASSUME NEW j \in Layered[Layers], IsJSON(j), NEW t \in Types, HasType[j][t],
           NEW v, Fits(v, t), Req(v, FALSE) = Req(JSONAttribute[j][t], FALSE)
    PROVE  Means[v][j][t]
<1> DEFINE a == JSONAttribute[j][t]
<1>1. Layers + 1 \in Nat /\ Layers + 1 <= Layers + 1 /\ Below(Layers + 1) = Layered[Layers] /\ j \in AllValues
  BY LayersAreNumbers, AllValuesIsLayer
<1>2. CASE t \in LeafTypes
  <2>1. FitsLeaf(v, t) /\ Req(v, FALSE) = Told(j, t)
    BY <1>1, <1>2, LeafAttribute DEF Fits
  <2> QED
    BY <1>1, <1>2, <2>1, LeafSaysTheAnswer
<1>3. CASE t \notin LeafTypes /\ j = Null
  <2>1. AttributeBody(JSONAttribute, j, t) = Null
    BY <1>3, NullAttribute
  <2>2. a = Null
    BY <1>1, <2>1, AttributeIs
  <2>3. Req(v, FALSE) = Null
    BY <2>2, RequestOfNull
  <2>4. FitsObject(v, t)
    BY <1>3 DEF Fits
  <2>5. v = Null
    <3>1. SUFFICES ASSUME v \in AllValues, Is("object", v) PROVE FALSE
      BY <2>4 DEF FitsObject
    <3>2. Is("object", Req(v, FALSE))
      BY <3>1, RequestOfObjectValue
    <3> QED
      BY <2>3, <3>2, NullIsNoObject
  <2>6. MeansBody(Means, v, j, t)
    BY <1>3, <2>5 DEF MeansBody
  <2> QED
    BY <1>1, <2>5, <2>6, MeansIs, RequestOfNull
<1>4. CASE t \notin LeafTypes /\ Is("object", j)
  <2>1. /\ a \in AllValues /\ Plain(a) /\ Is("object", a) /\ NamesOf(a.object) = NamesOf(t.object)
        /\ \A n \in NamesOf(t.object) :
              \A k \in BOOLEAN : Req(a.object[n], k) = Told(MemberOrNull(j, n), t.object[n])
    BY <1>4, ObjectAttribute
  <2> HIDE DEF a
  <2>2. v # Null
    <3>1. SUFFICES ASSUME v = Null PROVE FALSE
      OBVIOUS
    <3>2. Req(a, FALSE) = Null
      BY <3>1, RequestOfNull DEF a
    <3>3. Is("object", Req(a, FALSE))
      BY <2>1, RequestOfObjectValue
    <3> QED
      BY <3>2, <3>3, NullIsNoObject
  <2>3. /\ v \in AllValues /\ Plain(v) /\ Is("object", v) /\ NamesOf(v.object) = NamesOf(t.object)
        /\ \A n \in NamesOf(t.object) : FitsLeaf(v.object[n], t.object[n])
    BY <1>4, <2>2 DEF Fits, FitsObject
  <2>4. Req(v, FALSE) = Req(a, FALSE)
    BY DEF a
  <2>5. ASSUME NEW n \in NamesOf(t.object) PROVE Means[v.object[n]][MemberOrNull(j, n)][t.object[n]]
    <3>1. Req(v.object[n], FALSE) = Req(a.object[n], FALSE)
      BY <2>1, <2>3, <2>4, SameObjectsAgree
    <3>2. Req(v.object[n], FALSE) = Told(MemberOrNull(j, n), t.object[n])
      BY <2>1, <3>1
    <3>3. t.object[n] \in LeafTypes
      BY <1>4, ObjectTypeKinds
    <3>4. /\ MemberOrNull(j, n) \in AllValues /\ IsJSON(MemberOrNull(j, n))
          /\ HasType[MemberOrNull(j, n)][t.object[n]]
      BY <1>1, <1>4, MemberOrNullIs
    <3> QED
      BY <2>3, <3>2, <3>3, <3>4, LeafSaysTheAnswer
  <2>6. Is("object", t)
    BY <1>4, ObjectTypeKinds
  <2>7. MeansBody(Means, v, j, t)
    BY <1>4, <2>3, <2>5, <2>6 DEF MeansBody, MemberOrNull
  <2> QED
    BY <1>1, <2>3, <2>7, MeansIs
<1> QED
  BY <1>1, <1>2, <1>3, <1>4, ObjectAnswers

(***************************************************************************)
(* Bodies of what is planned                                               *)
(***************************************************************************)

Structured == {"scalar_matchers", "verification", "permissions"}

LEMMA DeclaredTypes ==
    /\ VerificationType \in Types /\ VerificationType \notin LeafTypes
    /\ NamesOf(VerificationType.object) = {"type", "discovery_url", "jwks"}
    /\ VerificationType.object["type"] = StringType /\ VerificationType.object["discovery_url"] = StringType
    /\ VerificationType.object["jwks"] = AnyType
    /\ PermissionsType \in Types /\ PermissionsType \notin LeafTypes
    /\ NamesOf(PermissionsType.object) = {"type", "scopes"}
    /\ PermissionsType.object["type"] = StringType /\ PermissionsType.object["scopes"] = List(StringType)
<1>1. VerificationType \in Types /\ PermissionsType \in Types
  BY DEF Types
<1>2. Is("object", VerificationType) /\ Is("object", PermissionsType)
  BY DEF VerificationType, PermissionsType, Object, Is
<1>3. VerificationType \notin LeafTypes /\ PermissionsType \notin LeafTypes
  BY <1>2, LeafKinds, LeafTypesAre DEF LeafTypes, Is
<1>4. \A t \in LeafTypes : t # Missing
  BY LeafTypesAre, NullHasNoKind DEF LeafTypes
<1>5. /\ NamesOf(VerificationType.object) = {"type", "discovery_url", "jwks"}
      /\ VerificationType.object["type"] = StringType /\ VerificationType.object["discovery_url"] = StringType
      /\ VerificationType.object["jwks"] = AnyType
  <2> DEFINE f == [type |-> StringType, discovery_url |-> StringType, jwks |-> AnyType]
  <2>1. VerificationType.object = Named(f)
    BY DEF VerificationType, Object
  <2>2. DOMAIN f = {"type", "discovery_url", "jwks"}
        /\ f["type"] = StringType /\ f["discovery_url"] = StringType /\ f["jwks"] = AnyType
    OBVIOUS
  <2> HIDE DEF f
  <2>3. /\ Named(f)["type"] = StringType /\ Named(f)["discovery_url"] = StringType /\ Named(f)["jwks"] = AnyType
        /\ \A n \in MemberNames : n \notin DOMAIN f => Named(f)[n] = Missing
    BY <2>2, NamedMember, StructuredAssumption
  <2>4. NamesOf(Named(f)) = {"type", "discovery_url", "jwks"}
    BY <1>4, <2>2, <2>3, StructuredAssumption DEF NamesOf, Has, LeafTypes
  <2> QED
    BY <2>1, <2>3, <2>4
<1>6. /\ NamesOf(PermissionsType.object) = {"type", "scopes"}
      /\ PermissionsType.object["type"] = StringType /\ PermissionsType.object["scopes"] = List(StringType)
  <2> DEFINE f == [type |-> StringType, scopes |-> List(StringType)]
  <2>1. PermissionsType.object = Named(f)
    BY DEF PermissionsType, Object
  <2>2. DOMAIN f = {"type", "scopes"} /\ f["type"] = StringType /\ f["scopes"] = List(StringType)
    OBVIOUS
  <2> HIDE DEF f
  <2>3. /\ Named(f)["type"] = StringType /\ Named(f)["scopes"] = List(StringType)
        /\ \A n \in MemberNames : n \notin DOMAIN f => Named(f)[n] = Missing
    BY <2>2, NamedMember, StructuredAssumption
  <2>4. NamesOf(Named(f)) = {"type", "scopes"}
    BY <1>4, <2>2, <2>3, StructuredAssumption DEF NamesOf, Has, LeafTypes
  <2> QED
    BY <2>1, <2>3, <2>4
<1> QED
  BY <1>1, <1>3, <1>5, <1>6

LEMMA TypesOfKinds ==
    /\ TypeOf("verification") = VerificationType /\ TypeOf("permissions") = PermissionsType
    /\ TypeOf("scalar_matchers") = AnyType
    /\ \A k \in Structured : TypeOf(k) \in Types
BY LeafKinds, DeclaredTypes DEF TypeOf, Structured

LEMMA StringValuesFit ==
    ASSUME NEW v \in AllValues, Plain(v), v \in StringValues
    PROVE  FitsLeaf(v, StringType)
<1>1. v # Unknown
  BY PlainIs DEF PlainKind
<1>2. v = Null \/ Is("string", v)
  BY <1>1 DEF StringValues, Is
<1> QED
  BY <1>2 DEF FitsLeaf

LEMMA DynamicValuesFit ==
    ASSUME NEW v \in AllValues, Plain(v), v \in DynamicValues
    PROVE  FitsLeaf(v, AnyType)
<1>1. v # Unknown
  BY PlainIs DEF PlainKind
<1>2. v = Null \/ Is("dynamic", v)
  BY <1>1 DEF DynamicValues, Is
<1> QED
  BY <1>2 DEF FitsLeaf

LEMMA ListValuesFit ==
    ASSUME NEW v \in AllValues, Plain(v), v \in ListValues
    PROVE  FitsLeaf(v, List(StringType))
<1>1. v # Unknown
  BY PlainIs DEF PlainKind
<1>2. CASE v = Null
  BY <1>2 DEF FitsLeaf
<1>3. CASE v \in [list : Seq(StringValues)]
  <2>1. Is("list", v) /\ v.list \in Seq(StringValues)
    BY <1>3 DEF Is
  <2>2. \A i \in DOMAIN v.list : v.list[i] \in StringValues /\ v.list[i] \in MembersOf(v)
    BY <2>1, AllValuesIsLayer, ListParts, ElementOfSeq
  <2>3. \A i \in DOMAIN v.list : FitsLeaf(v.list[i], StringType)
    BY <2>2, MembersAreValues, PlainIs, StringValuesFit
  <2>4. \A i \in DOMAIN v.list : v.list[i] = Null \/ Is("string", v.list[i])
    BY <2>3, LeafKinds DEF FitsLeaf
  <2> QED
    BY <2>1, <2>4 DEF FitsLeaf
<1> QED
  BY <1>1, <1>2, <1>3 DEF ListValues

\* Values of the type that the schema declares.
LEMMA SchemaFits ==
    ASSUME NEW k \in Structured, NEW v, HasSchema(v, k), FullyKnown(v)
    PROVE  v \in AllValues /\ v \in Layered[Layers] /\ Plain(v) /\ Fits(v, TypeOf(k))
<1>1. v \in Layered[Layers] /\ \A w \in Within[v] : ~Is("array", w)
  BY DEF HasSchema
<1>2. v \in AllValues /\ Plain(v)
  BY <1>1, AllValuesIsLayer DEF Plain, PlainKind, FullyKnown
<1>3. CASE k = "verification"
  <2>1. v = Null \/ /\ Is("object", v) /\ NamesOf(v.object) = NamesOf(VerificationType.object)
                    /\ {v.object["type"], v.object["discovery_url"]} \subseteq StringValues
                    /\ v.object["jwks"] \in DynamicValues
    BY <1>3 DEF HasSchema
  <2>2. Is("object", v) => \A n \in NamesOf(v.object) : v.object[n] \in AllValues /\ Plain(v.object[n])
    BY <1>2, AllValuesIsLayer, ObjectParts, MembersAreValues, PlainIs
  <2>3. FitsObject(v, VerificationType)
    BY <1>2, <2>1, <2>2, DeclaredTypes, StringValuesFit, DynamicValuesFit DEF FitsObject
  <2> QED
    BY <1>1, <1>2, <1>3, <2>3, TypesOfKinds, DeclaredTypes DEF Fits
<1>4. CASE k = "permissions"
  <2>1. v = Null \/ /\ Is("object", v) /\ NamesOf(v.object) = NamesOf(PermissionsType.object)
                    /\ v.object["type"] \in StringValues /\ v.object["scopes"] \in ListValues
    BY <1>4 DEF HasSchema
  <2>2. Is("object", v) => \A n \in NamesOf(v.object) : v.object[n] \in AllValues /\ Plain(v.object[n])
    BY <1>2, AllValuesIsLayer, ObjectParts, MembersAreValues, PlainIs
  <2>3. FitsObject(v, PermissionsType)
    BY <1>2, <2>1, <2>2, DeclaredTypes, StringValuesFit, ListValuesFit DEF FitsObject
  <2> QED
    BY <1>1, <1>2, <1>4, <2>3, TypesOfKinds, DeclaredTypes DEF Fits
<1>5. CASE k = "scalar_matchers"
  <2>1. Is("dynamic", v)
    BY <1>5 DEF HasSchema
  <2>2. AnyType \in LeafTypes
    BY DEF LeafTypes
  <2> QED
    BY <1>1, <1>2, <1>5, <2>1, <2>2, TypesOfKinds DEF Fits, FitsLeaf
<1> QED
  BY <1>3, <1>4, <1>5 DEF Structured

IsNamed(f) == f = [n \in MemberNames |-> f[n]]

MemberSent(b, t, n) ==
    IF n \in NamesOf(t.object) /\ MemberOrNull(b, n) # Null THEN MemberOrNull(b, n) ELSE Missing

\* An object attribute is sent without its null members, and with nothing else left out.
LEMMA AttributeRequest ==
    ASSUME NEW b \in Layered[Layers], IsJSON(b), Is("object", b),
           NEW t \in Types, t \notin LeafTypes, HasType[b][t],
           \A n \in NamesOf(t.object) : Told(MemberOrNull(b, n), t.object[n]) = MemberOrNull(b, n),
           NEW r, r = [object |-> r.object], IsNamed(r.object),
           \A n \in MemberNames : r.object[n] = MemberSent(b, t, n)
    PROVE  Req(JSONAttribute[b][t], FALSE) = r
<1> DEFINE a == JSONAttribute[b][t]
           q == Req(a, FALSE)
           kept == {n \in NamesOf(a.object) : Keeps(FALSE) \/ a.object[n] # Null}
<1>1. /\ a \in AllValues /\ Plain(a) /\ Is("object", a) /\ NamesOf(a.object) = NamesOf(t.object)
      /\ \A n \in NamesOf(t.object) :
            /\ \A k \in BOOLEAN : Req(a.object[n], k) = MemberOrNull(b, n)
            /\ MemberOrNull(b, n) = Null => a.object[n] = Null
  BY ObjectAttribute
<1> HIDE DEF a
<1>2. /\ q = [object |-> q.object] /\ q.object = [n \in MemberNames |-> q.object[n]]
      /\ \A n \in kept : q.object[n] = Req(a.object[n], FALSE)
      /\ \A n \in MemberNames : n \notin kept => q.object[n] = Missing
  BY <1>1, RequestOfObjectValue
<1>3. \A n \in MemberNames : n \in kept <=> n \in NamesOf(t.object) /\ MemberOrNull(b, n) # Null
  <2>1. \A n \in NamesOf(t.object) : a.object[n] = Null => MemberOrNull(b, n) = Null
    BY <1>1, RequestOfNull
  <2> QED
    BY <1>1, <2>1 DEF Keeps
<1> HIDE DEF q, kept
<1>4. \A n \in MemberNames : q.object[n] = r.object[n]
  <2>1. \A n \in kept : n \in NamesOf(t.object) => q.object[n] = MemberOrNull(b, n)
    BY <1>1, <1>2
  <2> QED
    BY <1>2, <1>3, <2>1 DEF MemberSent
<1>5. q.object = r.object
  BY <1>2, <1>4 DEF IsNamed
<1>6. q = r
  BY <1>2, <1>5
<1> QED
  BY <1>6 DEF q, a

LEMMA LeafRequestIsThere ==
    ASSUME NEW t \in LeafTypes, t # AnyType, NEW v, FitsLeaf(v, t), v # Null, NEW k \in BOOLEAN
    PROVE  Req(v, k) # Null
<1>1. v \in AllValues
  BY DEF FitsLeaf
<1>2. CASE Is("string", v)
  BY <1>1, <1>2, RequestOfLeaf DEF IsScalar
<1>3. CASE Is("list", v)
  <2>1. ItemsRequested(Req(v, k), v.list)
    BY <1>1, <1>3, RequestOfItems
  <2>2. Is("array", Req(v, k))
    BY <2>1 DEF ItemsRequested
  <2>3. ~Is("array", Null)
    BY NullHasNoKind DEF Is
  <2> QED
    BY <2>2, <2>3
<1> QED
  BY <1>2, <1>3 DEF FitsLeaf

\* What a request has of a declared object.
LEMMA RequestMembers ==
    ASSUME NEW t \in Types, t \notin LeafTypes, NEW v, FitsObject(v, t), v # Null
    PROVE  LET r == Req(v, FALSE) IN
           /\ v \in AllValues /\ r = [object |-> r.object] /\ r.object = [n \in MemberNames |-> r.object[n]]
           /\ \A n \in MemberNames : n \notin NamesOf(t.object) => r.object[n] = Missing
           /\ \A n \in NamesOf(t.object) : r.object[n] = Null => t.object[n] = AnyType
<1> DEFINE r == Req(v, FALSE)
           kept == {n \in NamesOf(v.object) : Keeps(FALSE) \/ v.object[n] # Null}
<1>1. /\ v \in AllValues /\ Is("object", v) /\ NamesOf(v.object) = NamesOf(t.object)
      /\ \A n \in NamesOf(t.object) : FitsLeaf(v.object[n], t.object[n])
  BY DEF FitsObject
<1>2. /\ r = [object |-> r.object] /\ r.object = [n \in MemberNames |-> r.object[n]]
      /\ \A n \in kept : r.object[n] = Req(v.object[n], FALSE)
      /\ \A n \in MemberNames : n \notin kept => r.object[n] = Missing
  BY <1>1, RequestOfObjectValue
<1>3. \A n \in MemberNames : n \in kept <=> n \in NamesOf(t.object) /\ v.object[n] # Null
  BY <1>1 DEF Keeps
<1> HIDE DEF r, kept
<1>4. ASSUME NEW n \in NamesOf(t.object), r.object[n] = Null PROVE t.object[n] = AnyType
  <2>1. t.object[n] \in LeafTypes /\ n \in MemberNames
    BY ObjectTypeKinds
  <2>2. n \in kept
    BY <1>2, <1>4, <2>1, NullHasNoKind
  <2>3. v.object[n] # Null /\ Req(v.object[n], FALSE) = Null /\ FitsLeaf(v.object[n], t.object[n])
    BY <1>1, <1>2, <1>3, <1>4, <2>1, <2>2
  <2> QED
    BY <2>1, <2>3, LeafRequestIsThere
<1>5. \A n \in MemberNames : n \notin NamesOf(t.object) => r.object[n] = Missing
  BY <1>2, <1>3
<1> QED
  BY <1>1, <1>2, <1>4, <1>5 DEF r

\* j is of the type, and has no numbers to tell.
SentFits(j, t) == HasType[j][t] /\ Told(j, t) = j

LEMMA RequestMembersFit ==
    ASSUME NEW t \in Types, t \notin LeafTypes, NEW v, FitsObject(v, t), v # Null, NEW n \in NamesOf(t.object)
    PROVE  LET r == Req(v, FALSE) IN r.object[n] = Missing \/ SentFits(r.object[n], t.object[n])
<1> DEFINE r == Req(v, FALSE)
           kept == {m \in NamesOf(v.object) : Keeps(FALSE) \/ v.object[m] # Null}
<1>1. v \in AllValues /\ Is("object", v) /\ NamesOf(v.object) = NamesOf(t.object) /\ FitsLeaf(v.object[n], t.object[n])
  BY DEF FitsObject
<1>2. /\ \A m \in kept : r.object[m] = Req(v.object[m], FALSE)
      /\ \A m \in MemberNames : m \notin kept => r.object[m] = Missing
  BY <1>1, RequestOfObjectValue
<1>3. t.object[n] \in LeafTypes /\ n \in MemberNames
  BY ObjectTypeKinds
<1>4. SentFits(Req(v.object[n], FALSE), t.object[n])
  BY <1>1, <1>3, LeafRequestIsTold DEF SentFits
<1> HIDE DEF r, kept
<1>5. r.object[n] = Req(v.object[n], FALSE) \/ r.object[n] = Missing
  BY <1>2, <1>3
<1> QED
  BY <1>4, <1>5 DEF r

\* What a structured attribute's body is, and what its answer is taken for.
BodyWell(p, k) ==
    LET b == StructuredBody(p, k) IN
    /\ b \in Layered[Layers] /\ IsJSON(b)
    /\ HasType[b][TypeOf(k)] /\ Req(JSONAttribute[b][TypeOf(k)], FALSE) = Req(p, FALSE)

LEMMA BodyOfPlanned ==
    ASSUME NEW k \in Structured, NEW p, HasSchema(p, k), p # Null, HasStructuredBody(p, k)
    PROVE  BodyWell(p, k)
<1> DEFINE r == Req(p, FALSE)
           b == StructuredBody(p, k)
           t == TypeOf(k)
<1>1. FullyKnown(p) /\ Is("object", r) /\ WellShaped(r.object, k)
  BY DEF HasStructuredBody, Validated, Convertible, Req
<1>2. p \in AllValues /\ p \in Layered[Layers] /\ Plain(p) /\ Fits(p, t)
  BY <1>1, SchemaFits
<1>3. Layers \in Nat /\ Layers <= Layers + 1 /\ Layers + 1 \in Nat /\ Layers + 1 <= Layers + 1
      /\ Layers + 1 <= Layers + 2 /\ Below(Layers + 1) = Layered[Layers]
  BY StructuredAssumption, AllValuesIsLayer
<1>4. r \in Layered[Layers] /\ IsJSON(r)
  BY <1>2, <1>3, RequestStays
<1>5. r \in AllValues /\ r \in ValuesOver(Below(Layers))
  BY <1>3, <1>4, MembersOfLayer
<1>6. r = [object |-> r.object] /\ r.object \in [MemberNames -> Below(Layers) \cup {Missing}]
  BY <1>1, <1>5, ObjectParts
<1>7. b = IF k = "verification" /\ HasKind(r.object, "discovery") /\ ~Has(r.object, "discovery_url")
          THEN [object |-> [r.object EXCEPT !["discovery_url"] = Null]]
          ELSE [object |-> r.object]
  BY DEF StructuredBody, Req
<1> HIDE DEF b, r
<1>8. CASE k = "scalar_matchers"
  <2>1. b = r
    BY <1>6, <1>7, <1>8
  <2>2. t = AnyType /\ AnyType \in LeafTypes
    BY <1>8, TypesOfKinds DEF LeafTypes
  <2>3. Told(b, AnyType) = b
    BY LeafKinds DEF Told
  <2>4. HasType[b][AnyType]
    BY <1>5, <2>1, HasTypeIs, LeafKinds DEF HasTypeBody
  <2>5. \A q \in BOOLEAN : Req(JSONAttribute[b][t], q) = b
    BY <1>3, <1>4, <2>1, <2>2, <2>3, <2>4, LeafAttribute
  <2> QED
    BY <1>4, <2>1, <2>2, <2>4, <2>5 DEF BodyWell, b, r
<1>9. ASSUME k \in {"verification", "permissions"}, t \in Types, t \notin LeafTypes,
             b \in Layered[Layers], IsJSON(b), Is("object", b),
             \A n \in NamesOf(t.object) : r.object[n] # Null,
             \A n \in NamesOf(t.object) : b.object[n] = r.object[n] \/ (b.object[n] = Null /\ r.object[n] = Missing)
      PROVE  BodyWell(p, k)
  <2>1. \A n \in MemberNames : n \notin NamesOf(t.object) => r.object[n] = Missing
    BY <1>2, <1>9, RequestMembers DEF Fits, r
  <2>2. IsNamed(r.object)
    BY <1>6 DEF IsNamed
  <2>3. \A n \in NamesOf(t.object) : n \in MemberNames
    BY DEF NamesOf
  <2>4. \A n \in MemberNames : r.object[n] = MemberSent(b, t, n)
    <3> SUFFICES ASSUME NEW n \in MemberNames PROVE r.object[n] = MemberSent(b, t, n)
      OBVIOUS
    <3>1. CASE n \notin NamesOf(t.object)
      BY <2>1, <3>1 DEF MemberSent
    <3>2. CASE n \in NamesOf(t.object)
      BY <1>9, <3>2, NullHasNoKind DEF MemberSent, MemberOrNull, Has
    <3> QED
      BY <3>1, <3>2
  <2>5. \A n \in NamesOf(t.object) : r.object[n] = Missing \/ SentFits(r.object[n], t.object[n])
    BY <1>2, <1>9, RequestMembersFit DEF Fits, r
  <2>6. ASSUME NEW n \in NamesOf(t.object)
        PROVE  /\ Has(b.object, n) => HasType[b.object[n]][t.object[n]]
               /\ Told(MemberOrNull(b, n), t.object[n]) = MemberOrNull(b, n)
    <3>1. t.object[n] \in Types
      BY <1>9, ObjectTypeKinds, LeafTypesAre
    <3>2. HasTypeBody(HasType, Null, t.object[n])
      BY DEF HasTypeBody
    <3>3. HasType[Null][t.object[n]]
      BY <3>1, <3>2, HasTypeIs, RequestOfNull
    <3>4. SentFits(Null, t.object[n])
      BY <3>3, ToldNull DEF SentFits
    <3>5. b.object[n] = Missing \/ SentFits(b.object[n], t.object[n])
      BY <1>9, <2>5, <3>4
    <3> QED
      BY <3>5, ToldNull DEF Has, MemberOrNull, SentFits
  <2>7. HasType[b][t]
    <3>1. b \in AllValues /\ Is("object", t)
      BY <1>9, AllValuesIsLayer, ObjectTypeKinds
    <3>2. HasTypeBody(HasType, b, t)
      BY <1>9, <2>6, <3>1 DEF HasTypeBody, NamesOf
    <3> QED
      BY <1>9, <3>1, <3>2, HasTypeIs
  <2>8. \A n \in NamesOf(t.object) : Told(MemberOrNull(b, n), t.object[n]) = MemberOrNull(b, n)
    BY <2>6
  <2>9. Req(JSONAttribute[b][t], FALSE) = r
    <3> HIDE DEF t
    <3> QED
      BY <1>6, <1>9, <2>2, <2>4, <2>7, <2>8, AttributeRequest
  <2> QED
    BY <1>9, <2>7, <2>9 DEF BodyWell, b, r
<1>10. CASE k = "permissions"
  <2>1. t = PermissionsType /\ t \in Types /\ t \notin LeafTypes
    BY <1>10, TypesOfKinds, DeclaredTypes
  <2>2. b = r
    BY <1>6, <1>7, <1>10
  <2>3. \A n \in NamesOf(t.object) : r.object[n] = Null => t.object[n] = AnyType
    BY <1>2, <2>1, RequestMembers DEF Fits, r
  <2>4. \A n \in NamesOf(t.object) : t.object[n] # AnyType
    BY <2>1, DeclaredTypes, LeafKinds
  <2> QED
    BY <1>1, <1>4, <1>9, <1>10, <2>1, <2>2, <2>3, <2>4
<1>11. CASE k = "verification"
  <2>1. t = VerificationType /\ t \in Types /\ t \notin LeafTypes
    BY <1>11, TypesOfKinds, DeclaredTypes
  <2>2. /\ \A n \in NamesOf(t.object) : r.object[n] = Null => t.object[n] = AnyType
    BY <1>2, <2>1, RequestMembers DEF Fits, r
  <2>3. \/ HasKind(r.object, "discovery") /\ ~Has(r.object, "jwks")
        \/ /\ HasKind(r.object, "uploaded_jwks") /\ ~Has(r.object, "discovery_url")
           /\ Has(r.object, "jwks") /\ Is("object", r.object["jwks"])
    BY <1>1, <1>11 DEF WellShaped
  <2>4. r.object["jwks"] # Null
    BY <2>3, NullIsNoObject, NullHasNoKind DEF Has
  <2>5. \A n \in NamesOf(t.object) : r.object[n] # Null
    <3>1. NamesOf(t.object) = {"type", "discovery_url", "jwks"} /\ t.object["type"] = StringType /\ t.object["discovery_url"] = StringType
          /\ StringType # AnyType
      BY <2>1, DeclaredTypes, LeafKinds
    <3> HIDE DEF t
    <3> QED
      BY <2>2, <2>4, <3>1
  <2>6. CASE ~(HasKind(r.object, "discovery") /\ ~Has(r.object, "discovery_url"))
    <3>1. b = r
      BY <1>6, <1>7, <2>6
    <3> QED
      BY <1>1, <1>4, <1>9, <1>11, <2>1, <2>5, <3>1
  <2>7. CASE HasKind(r.object, "discovery") /\ ~Has(r.object, "discovery_url")
    <3> DEFINE e == [r.object EXCEPT !["discovery_url"] = Null]
    <3>1. b = [object |-> e]
      BY <1>7, <1>11, <2>7
    <3>2. /\ e = [n \in MemberNames |-> e[n]] /\ e["discovery_url"] = Null
          /\ \A n \in MemberNames : n # "discovery_url" => e[n] = r.object[n]
      BY <1>6, StructuredAssumption
    <3> HIDE DEF e
    <3>3. b.object = e /\ b = [object |-> b.object] /\ Is("object", b)
      BY <3>1 DEF Is
    <3>4. Null \in Below(Layers) /\ IsJSON(Null)
      <4>1. r.object["type"] # Missing
        BY <2>7, NullHasNoKind DEF HasKind, String
      <4>2. r.object["type"] \in Below(Layers)
        BY <1>6, <4>1, StructuredAssumption
      <4>3. Layers # 0 /\ Layers - 1 \in Nat /\ Layers - 1 <= Layers + 1 /\ Below(Layers) = Layered[Layers - 1]
        BY <1>3, <4>2 DEF Below
      <4>4. Null \in Below(Layers)
        BY <4>3, NullParts
      <4>5. IsJSON(Null)
        BY RequestOfNull, NullParts, JSONIs DEF JSONKind
      <4> QED
        BY <4>4, <4>5
    <3>5. \A n \in MemberNames : r.object[n] = Missing \/ (r.object[n] \in Below(Layers) /\ IsJSON(r.object[n]))
      <4>1. \A n \in NamesOf(r.object) : r.object[n] \in MembersOf(r)
        BY <1>1, <1>5, ObjectParts
      <4>2. \A n \in NamesOf(r.object) : IsJSON(r.object[n])
        BY <1>4, <1>5, <4>1, JSONIs
      <4> QED
        BY <1>6, <4>2 DEF NamesOf, Has
    <3>6. \A n \in MemberNames : e[n] = Missing \/ (e[n] \in Below(Layers) /\ IsJSON(e[n]))
      BY <3>2, <3>4, <3>5
    <3>7. b \in Layered[Layers] /\ IsJSON(b)
      BY <1>3, <3>2, <3>3, <3>6, ObjectIsJSON
    <3>8. \A n \in NamesOf(t.object) : b.object[n] = r.object[n] \/ (b.object[n] = Null /\ r.object[n] = Missing)
      BY <2>7, <3>2, <3>3 DEF NamesOf, Has
    <3> QED
      BY <1>9, <1>11, <2>1, <2>5, <3>3, <3>7, <3>8
  <2> QED
    BY <2>6, <2>7
<1> QED
  BY <1>8, <1>10, <1>11 DEF Structured

(***************************************************************************)
(* From what is planned to what the state keeps                            *)
(***************************************************************************)

\* The JSON j stored for an attribute of kind k.
StoredWell(k, j) == k # "tiers" => j \in Layered[Layers] /\ IsJSON(j)

\* What Terraform plans once it knows all of it.
PlannedWell(k, p) == p = Unknown \/ (p # Null /\ HasSchema(p, k) /\ FullyKnown(p))

\* j is what the API stores when it is sent p.
SentAs(k, p, j) ==
    IF k = "tiers"
    THEN /\ HasStringOrListBody(p)
         /\ IF IsList(Inner(p)) THEN Is("array", j) /\ Range(j.array) = Range(ItemsOf(Inner(p)))
                                ELSE Is("string", Inner(p)) /\ j = Inner(p)
    ELSE HasStructuredBody(p, k) /\ j = StructuredBody(p, k)

ReadAs(k, j) == IF k = "tiers" THEN StringOrListReadable(j) ELSE Readable(j, TypeOf(k))
TakenAs(k, p, j) == IF k = "tiers" THEN UnorderedApplied(p, j) ELSE Applied(p, j, TypeOf(k))
SaysAs(k, v, j) == IF k = "tiers" THEN MeansSet(v, j) ELSE Means[v][j][TypeOf(k)]

\* A value that the state may have, and one that Terraform may hold when an answer arrives.
StateWell(k, v) == k # "tiers" => Fits(v, TypeOf(k))
HeldWell(k, v) == v = Unknown \/ StateWell(k, v)

LEMMA UnknownIsNotSent == ~Convertible(Unknown)
<1>1. Unknown \in AllValues
  BY NullParts, LayersAreNumbers DEF AllValues
<1> QED
  BY <1>1, WithinIs DEF Convertible, FullyKnown

LEMMA KindsAre ==
    \A k \in Kinds : k = "tiers" \/ k \in Structured
BY AttributesAssumption DEF Structured

LEMMA PlannedIsHeld ==
    ASSUME NEW k \in Kinds, NEW p, PlannedWell(k, p)
    PROVE  HeldWell(k, p)
BY KindsAre, SchemaFits DEF PlannedWell, HeldWell, StateWell

LEMMA FitsIsKnown ==
    ASSUME NEW t \in Types
    PROVE  ~Fits(Unknown, t) /\ Fits(Null, t)
<1>1. Unknown \in AllValues => ~Plain(Unknown)
  BY PlainIs DEF PlainKind
<1>2. ~Is("object", Unknown) /\ Unknown # Null
  BY NullHasNoKind DEF Is
<1> QED
  BY <1>1, <1>2, RequestOfNull DEF Fits, FitsLeaf, FitsObject

LEMMA StoredIsThere ==
    ASSUME NEW k \in Structured, NEW j, StoredWell(k, j)
    PROVE  k # "tiers" /\ j \in AllValues /\ j # Missing
<1>1. k # "tiers"
  BY DEF Structured
<1> QED
  BY <1>1, AllValuesIsLayer, NoValueIsMissing DEF StoredWell

\* Lists of strings in an order of the API's keep the order of the configuration.
LEMMA TiersStay ==
    ASSUME NEW p, HasSchema(p, "tiers"), NEW j, SentAs("tiers", p, j)
    PROVE  TakenAs("tiers", p, j) = p
<1>1. Is("dynamic", p) /\ p \in Layered[Layers]
  BY DEF HasSchema
<1>2. p = Dynamic(p.dynamic)
  BY <1>1, AllValuesIsLayer, DynamicParts
<1>3. Inner(p) = p.dynamic
  BY <1>1 DEF Inner
<1>4. CASE IsList(Inner(p))
  <2>1. SameMembership(p, j)
    BY <1>4 DEF SentAs, SameMembership
  <2> QED
    BY <2>1 DEF TakenAs, UnorderedApplied
<1>5. CASE ~IsList(Inner(p))
  <2>1. ~SameMembership(p, j)
    BY <1>5 DEF SameMembership
  <2>2. Is("string", j) /\ j = p.dynamic
    BY <1>3, <1>5 DEF SentAs
  <2>3. StringOrListAttribute(p, j) = Dynamic(j)
    BY <2>2 DEF StringOrListAttribute
  <2> QED
    BY <1>2, <2>1, <2>2, <2>3 DEF TakenAs, UnorderedApplied
<1> QED
  BY <1>4, <1>5

\* The answer to what was planned is what was planned.
LEMMA PlannedStays ==
    ASSUME NEW k \in Kinds, NEW p, PlannedWell(k, p), p # Unknown, NEW j, SentAs(k, p, j)
    PROVE  TakenAs(k, p, j) = p
<1>1. p # Null /\ HasSchema(p, k)
  BY DEF PlannedWell
<1>2. CASE k = "tiers"
  BY <1>1, <1>2, TiersStay
<1>3. CASE k \in Structured
  <2>1. k # "tiers"
    BY <1>3 DEF Structured
  <2>2. HasStructuredBody(p, k) /\ j = StructuredBody(p, k)
    BY <2>1 DEF SentAs
  <2>3. Req(JSONAttribute[j][TypeOf(k)], FALSE) = Req(p, FALSE) /\ StoredWell(k, j)
    BY <1>1, <1>3, <2>2, BodyOfPlanned DEF BodyWell, StoredWell
  <2>4. SameRequest(p, JSONAttribute[j][TypeOf(k)])
    BY <2>2, <2>3 DEF SameRequest, HasStructuredBody, Req
  <2>5. j # Missing
    BY <1>3, <2>3, StoredIsThere
  <2> QED
    BY <2>1, <2>4, <2>5 DEF TakenAs, Applied
<1> QED
  BY <1>2, <1>3, KindsAre

\* What was sent can be read back, and says what was planned.
LEMMA SentSaysTheSame ==
    ASSUME NEW k \in Structured, NEW p, PlannedWell(k, p), p # Unknown, NEW j, SentAs(k, p, j)
    PROVE  SaysAs(k, p, j)
<1>1. p # Null /\ HasSchema(p, k) /\ FullyKnown(p) /\ k # "tiers"
  BY DEF PlannedWell, Structured
<1>2. HasStructuredBody(p, k) /\ j = StructuredBody(p, k)
  BY <1>1 DEF SentAs
<1>3. /\ j \in Layered[Layers] /\ IsJSON(j) /\ HasType[j][TypeOf(k)]
      /\ Req(JSONAttribute[j][TypeOf(k)], FALSE) = Req(p, FALSE)
  BY <1>1, <1>2, BodyOfPlanned DEF BodyWell
<1>4. Fits(p, TypeOf(k)) /\ TypeOf(k) \in Types
  BY <1>1, SchemaFits, TypesOfKinds
<1>5. Means[p][j][TypeOf(k)]
  BY <1>3, <1>4, SameRequestsMeanTheSame
<1> QED
  BY <1>1, <1>5 DEF SaysAs

LEMMA TiersSayTheSame ==
    ASSUME NEW p, NEW j, ReadAs("tiers", j)
    PROVE  SaysAs("tiers", TakenAs("tiers", p, j), j)
<1>1. CASE SameMembership(p, j)
  <2>1. TakenAs("tiers", p, j) = p
    BY <1>1 DEF TakenAs, UnorderedApplied
  <2>2. MeansSet(p, j)
    BY <1>1 DEF SameMembership, MeansSet
  <2> QED
    BY <2>1, <2>2 DEF SaysAs
<1>2. CASE ~SameMembership(p, j)
  <2>1. TakenAs("tiers", p, j) = StringOrListAttribute(p, j)
    BY <1>2 DEF TakenAs, UnorderedApplied
  <2> DEFINE inner == IF Is("string", j) THEN j
                      ELSE IF Is("list", Inner(p)) THEN List(j.array) ELSE Tuple(j.array)
  <2>2. StringOrListAttribute(p, j) = Dynamic(inner)
    BY DEF StringOrListAttribute
  <2>3. ASSUME NEW v PROVE Inner(Dynamic(v)) = v
    BY DEF Inner, Dynamic, Is
  <2>4. (Is("string", inner) /\ inner = j) \/ (IsList(inner) /\ Is("array", j) /\ ItemsOf(inner) = j.array)
    <3>1. CASE Is("string", j)
      BY <3>1
    <3>2. CASE ~Is("string", j)
      <4>1. Is("array", j)
        BY <3>2 DEF ReadAs, StringOrListReadable
      <4> QED
        BY <3>2, <4>1, KindsAreTold DEF IsList, ItemsOf, Is
    <3> QED
      BY <3>1, <3>2
  <2> HIDE DEF inner
  <2>5. MeansSet(Dynamic(inner), j)
    BY <2>3, <2>4 DEF MeansSet
  <2> QED
    BY <2>1, <2>2, <2>5 DEF SaysAs
<1> QED
  BY <1>1, <1>2

\* What is taken from an answer says what the answer says.
LEMMA TakenSaysTheSame ==
    ASSUME NEW k \in Kinds, NEW v, HeldWell(k, v), NEW j, StoredWell(k, j), ReadAs(k, j)
    PROVE  StateWell(k, TakenAs(k, v, j)) /\ SaysAs(k, TakenAs(k, v, j), j)
<1>1. CASE k = "tiers"
  BY <1>1, TiersSayTheSame DEF StateWell
<1>2. CASE k \in Structured
  <2> DEFINE t == TypeOf(k)
             a == JSONAttribute[j][t]
  <2>1. k # "tiers" /\ t \in Types
    BY <1>2, TypesOfKinds DEF Structured
  <2>2. j \in Layered[Layers] /\ IsJSON(j) /\ j # Missing /\ HasType[j][t] /\ (v = Unknown \/ Fits(v, t))
    BY <1>2, <2>1, StoredIsThere DEF StoredWell, ReadAs, Readable, HeldWell, StateWell
  <2>3. Fits(a, t) /\ Means[a][j][t]
    BY <2>1, <2>2, AttributeFits, SameRequestsMeanTheSame
  <2>4. CASE SameRequest(v, a)
    <3>1. Fits(v, t) /\ Req(v, FALSE) = Req(a, FALSE)
      BY <2>2, <2>4, UnknownIsNotSent DEF SameRequest, Req
    <3>2. Means[v][j][t]
      BY <2>1, <2>2, <3>1, SameRequestsMeanTheSame
    <3>3. TakenAs(k, v, j) = v
      BY <2>1, <2>2, <2>4 DEF TakenAs, Applied
    <3> QED
      BY <2>1, <3>1, <3>2, <3>3 DEF StateWell, SaysAs
  <2>5. CASE ~SameRequest(v, a)
    <3>1. TakenAs(k, v, j) = a
      BY <2>1, <2>2, <2>5 DEF TakenAs, Applied
    <3> QED
      BY <2>1, <2>3, <3>1 DEF StateWell, SaysAs
  <2> QED
    BY <2>4, <2>5
<1> QED
  BY <1>1, <1>2, KindsAre

(***************************************************************************)
(* The steps                                                               *)
(***************************************************************************)

\* Inductive: what is planned is of the declared type and known; what is stored is what was
\* last sent, unless others changed it; what the state has is of the declared type.
BodyInv ==
    /\ kind \in Kinds /\ config \in Configs[kind]
    /\ remote = Absent \/ StoredWell(kind, remote)
    /\ bodyPc \in {"apply", "answer", "settled"} => PlannedWell(kind, planned)
    /\ bodyPc \in {"answer", "settled"} => StoredWell(kind, remote)
    /\ bodyPc \in {"answer", "settled"} /\ ~foreign /\ planned # Unknown => SentAs(kind, planned, remote)
    /\ bodyPc = "answer" /\ planned # Unknown => ~foreign
    /\ bodyPc = "settled" => StateWell(kind, state)
    /\ ConfiguredValuesStay
    /\ NothingIsLostInConversion

LEMMA BodyInvInitially == BodyInit => BodyInv
BY DEF BodyInit, BodyInv, ConfiguredValuesStay, NothingIsLostInConversion

LEMMA PlanKeepsBodyInv ==
    ASSUME BodyInv, Plan
    PROVE  BodyInv'
<1>1. PICK v \in Resolved[kind][config] :
          IF ConfigValidated /\ (v # Null \/ Computed)
          THEN bodyPc' = "apply" /\ planned' = IF v = Null THEN Unknown ELSE v
          ELSE bodyPc' = "refused" /\ UNCHANGED planned
  BY DEF Plan
<1>2. UNCHANGED <<kind, config, remote, state, foreign, current, steps>>
  BY DEF Plan
<1>3. HasSchema(v, kind) /\ FullyKnown(v)
  BY <1>1, AttributesAssumption DEF BodyInv
<1>4. bodyPc' = "refused" \/ (bodyPc' = "apply" /\ PlannedWell(kind, planned'))
  BY <1>1, <1>3 DEF PlannedWell
<1> QED
  BY <1>2, <1>4 DEF BodyInv, ConfiguredValuesStay, NothingIsLostInConversion

\* What the API stores is what it is sent.
LEMMA SentWell ==
    ASSUME NEW k \in Kinds, NEW p, PlannedWell(k, p), p # Unknown, NEW j,
           k = "tiers" => /\ HasStringOrListBody(p)
                          /\ LET b == StringOrListStringBody(p) IN
                             IF Is("array", b) THEN \E s : j = Array(s) /\ Range(s) = Range(b.array) ELSE j = b,
           k # "tiers" => HasStructuredBody(p, k) /\ j = StructuredBody(p, k)
    PROVE  SentAs(k, p, j) /\ StoredWell(k, j)
<1>1. p # Null /\ HasSchema(p, k)
  BY DEF PlannedWell
<1>2. CASE k \in Structured
  <2>1. k # "tiers"
    BY <1>2 DEF Structured
  <2> QED
    BY <1>1, <1>2, <2>1, BodyOfPlanned DEF SentAs, StoredWell, BodyWell
<1>3. CASE k = "tiers"
  <2> DEFINE inner == Inner(p)
  <2>1. Is("dynamic", p) /\ p \in Layered[Layers]
    BY <1>1, <1>3 DEF HasSchema
  <2>2. inner \in AllValues
    BY <2>1, AllValuesIsLayer, DynamicParts DEF Inner
  <2> HIDE DEF inner
  <2>3. StringOrListStringBody(p) = IF IsList(inner) THEN Array(ItemsOf(inner)) ELSE inner
    BY DEF StringOrListStringBody, inner
  <2>4. CASE IsList(inner)
    <3>1. StringOrListStringBody(p) = Array(ItemsOf(inner))
      BY <2>3, <2>4
    <3>2. PICK s : j = Array(s) /\ Range(s) = Range(ItemsOf(inner))
      BY <1>3, <3>1, KindsAreTold
    <3>3. Is("array", j) /\ Range(j.array) = Range(ItemsOf(inner))
      BY <3>2, KindsAreTold
    <3> QED
      BY <1>3, <2>4, <3>3 DEF SentAs, StoredWell, inner
  <2>5. CASE ~IsList(inner)
    <3>1. Is("string", inner)
      BY <1>3, <2>5 DEF HasStringOrListBody, inner
    <3>2. ~Is("array", inner)
      BY <2>2, <3>1, AllValuesIsLayer, ScalarParts DEF IsScalar, Is
    <3>3. j = inner
      BY <1>3, <2>3, <2>5, <3>2
    <3> QED
      BY <1>3, <2>5, <3>1, <3>3 DEF SentAs, StoredWell, inner
  <2> QED
    BY <2>4, <2>5
<1> QED
  BY <1>2, <1>3, KindsAre

LEMMA SendBodyKeepsBodyInv ==
    ASSUME BodyInv, SendBody
    PROVE  BodyInv'
<1>1. bodyPc = "apply" /\ PlannedWell(kind, planned) /\ kind \in Kinds
  BY DEF BodyInv, SendBody
<1>2. UNCHANGED <<kind, config, planned, state, current, steps>> /\ foreign' = (foreign /\ planned = Unknown)
  BY DEF SendBody
<1>3. CASE planned = Unknown /\ remote' = (IF remote = Absent THEN Default[kind] ELSE remote) /\ bodyPc' = "answer"
  <2>1. StoredWell(kind, remote')
    BY <1>1, <1>3, AttributesAssumption DEF BodyInv, StoredWell
  <2> QED
    BY <1>1, <1>2, <1>3, <2>1 DEF BodyInv, ConfiguredValuesStay, NothingIsLostInConversion
<1>4. CASE planned # Unknown /\ HasBody /\ remote' \in Stored(Body) /\ bodyPc' = "answer"
  <2>1. /\ kind = "tiers" => /\ HasStringOrListBody(planned)
                             /\ LET b == StringOrListStringBody(planned) IN
                                IF Is("array", b) THEN \E s : remote' = Array(s) /\ Range(s) = Range(b.array) ELSE remote' = b
        /\ kind # "tiers" => HasStructuredBody(planned, kind) /\ remote' = StructuredBody(planned, kind)
    BY <1>4 DEF HasBody, Body, Stored, IsTiers
  <2>2. SentAs(kind, planned, remote') /\ StoredWell(kind, remote')
    BY <1>1, <1>4, <2>1, SentWell
  <2> QED
    BY <1>1, <1>2, <1>4, <2>2 DEF BodyInv, ConfiguredValuesStay, NothingIsLostInConversion
<1>5. CASE bodyPc' = "refused" /\ UNCHANGED remote
  BY <1>1, <1>2, <1>5 DEF BodyInv, ConfiguredValuesStay, NothingIsLostInConversion
<1> QED
  BY <1>3, <1>4, <1>5 DEF SendBody

LEMMA ReadingIs ==
    /\ \A j : CanRead(j) <=> ReadAs(kind, j)
    /\ \A v, j : ReadInto(v, j) = TakenAs(kind, v, j)
BY DEF CanRead, ReadAs, ReadInto, TakenAs, IsTiers

\* An answer that leaves the attribute out.
LEMMA MissingIs ==
    ASSUME NEW k \in Kinds, ReadAs(k, Missing)
    PROVE  k \in Structured /\ \A v : TakenAs(k, v, Missing) = IfMissing(v)
<1>1. k # "tiers"
  BY NullHasNoKind DEF ReadAs, StringOrListReadable, Is
<1> QED
  BY <1>1, KindsAre DEF TakenAs, Applied

LEMMA TakeAnswerKeepsBodyInv ==
    ASSUME BodyInv, TakeAnswer
    PROVE  BodyInv'
<1>1. /\ bodyPc = "answer" /\ PlannedWell(kind, planned) /\ kind \in Kinds /\ StoredWell(kind, remote)
      /\ planned # Unknown => ~foreign /\ SentAs(kind, planned, remote)
  BY DEF BodyInv, TakeAnswer
<1>2. UNCHANGED <<kind, config, planned, remote, foreign, steps>>
  BY DEF TakeAnswer
<1>3. CASE bodyPc' = "refused"
  BY <1>1, <1>2, <1>3 DEF BodyInv, ConfiguredValuesStay, NothingIsLostInConversion
<1>4. ASSUME NEW json \in Answers, ReadAs(kind, json), bodyPc' = "settled",
             state' = TakenAs(kind, planned, json), current' = (json # Missing \/ planned # Unknown)
      PROVE  BodyInv'
  <2>1. StateWell(kind, state') /\ (current' => SaysAs(kind, state', remote)) /\ (planned # Unknown => state' = planned)
    <3>1. CASE json = Missing
      <4>1. kind \in Structured /\ state' = IfMissing(planned)
        BY <1>1, <1>4, <3>1, MissingIs
      <4>2. CASE planned = Unknown
        <5>1. state' = Null /\ ~current'
          BY <1>4, <3>1, <4>1, <4>2 DEF IfMissing
        <5> QED
          BY <4>1, <4>2, <5>1, FitsIsKnown, TypesOfKinds DEF StateWell
      <4>3. CASE planned # Unknown
        <5>1. state' = planned
          BY <4>1, <4>3 DEF IfMissing
        <5>2. SaysAs(kind, planned, remote)
          BY <1>1, <4>1, <4>3, SentSaysTheSame
        <5>3. HeldWell(kind, planned)
          BY <1>1, PlannedIsHeld
        <5> QED
          BY <4>3, <5>1, <5>2, <5>3 DEF HeldWell
      <4> QED
        BY <4>2, <4>3
    <3>2. CASE json = remote /\ json # Missing
      <4>1. StateWell(kind, state') /\ SaysAs(kind, state', remote)
        BY <1>1, <1>4, <3>2, PlannedIsHeld, TakenSaysTheSame
      <4>2. planned # Unknown => state' = planned
        BY <1>1, <1>4, <3>2, PlannedStays
      <4> QED
        BY <4>1, <4>2
    <3> QED
      BY <1>4, <3>1, <3>2 DEF Answers
  <2> QED
    BY <1>1, <1>2, <1>4, <2>1 DEF BodyInv, ConfiguredValuesStay, NothingIsLostInConversion, SaysAs, IsTiers
<1> QED
  <2>1. PICK json \in Answers :
           IF CanRead(json)
           THEN /\ state' = ReadInto(planned, json) /\ bodyPc' = "settled"
                /\ current' = (json # Missing \/ planned # Unknown)
           ELSE bodyPc' = "refused" /\ UNCHANGED <<state, current>>
    BY DEF TakeAnswer
  <2> QED
    BY <1>3, <1>4, <2>1, ReadingIs

LEMMA RefreshKeepsBodyInv ==
    ASSUME BodyInv, Refresh
    PROVE  BodyInv'
<1>1. /\ bodyPc = "settled" /\ PlannedWell(kind, planned) /\ kind \in Kinds
      /\ StoredWell(kind, remote) /\ StateWell(kind, state)
      /\ ~foreign /\ planned # Unknown => state = planned /\ SentAs(kind, planned, remote)
      /\ current => SaysAs(kind, state, remote)
  BY DEF BodyInv, Refresh, ConfiguredValuesStay, NothingIsLostInConversion, SaysAs, IsTiers
<1>2. UNCHANGED <<kind, bodyPc, config, planned, remote, foreign, steps>>
  BY DEF Refresh
<1>3. CASE UNCHANGED <<state, current>>
  BY <1>1, <1>2, <1>3 DEF BodyInv, ConfiguredValuesStay, NothingIsLostInConversion, IsTiers
<1>4. ASSUME NEW json \in Answers, ReadAs(kind, json),
             state' = TakenAs(kind, state, json), current' = (json # Missing \/ current)
      PROVE  BodyInv'
  <2>1. StateWell(kind, state') /\ (current' => SaysAs(kind, state', remote))
        /\ (~foreign /\ planned # Unknown => state' = planned)
    <3>1. CASE json = Missing
      <4>1. kind \in Structured /\ state' = IfMissing(state)
        BY <1>1, <1>4, <3>1, MissingIs
      <4>2. state # Unknown
        <5>1. kind # "tiers"
          BY <4>1 DEF Structured
        <5> QED
          BY <1>1, <4>1, <5>1, FitsIsKnown, TypesOfKinds DEF StateWell
      <4>3. state' = state
        BY <4>1, <4>2 DEF IfMissing
      <4>4. current' => current
        BY <1>4, <3>1
      <4> QED
        BY <1>1, <4>3, <4>4
    <3>2. CASE json = remote /\ json # Missing
      <4>1. StateWell(kind, state') /\ SaysAs(kind, state', remote)
        BY <1>1, <1>4, <3>2, TakenSaysTheSame DEF HeldWell
      <4>2. ~foreign /\ planned # Unknown => state' = planned
        BY <1>1, <1>4, <3>2, PlannedStays
      <4> QED
        BY <4>1, <4>2
    <3> QED
      BY <1>4, <3>1, <3>2 DEF Answers
  <2> QED
    BY <1>1, <1>2, <1>4, <2>1 DEF BodyInv, ConfiguredValuesStay, NothingIsLostInConversion, SaysAs, IsTiers
<1> QED
  <2>1. PICK json \in Answers :
           IF CanRead(json)
           THEN state' = ReadInto(state, json) /\ current' = (json # Missing \/ current)
           ELSE UNCHANGED <<state, current>>
    BY DEF Refresh
  <2> QED
    BY <1>3, <1>4, <2>1, ReadingIs

LEMMA OthersKeepBodyInv ==
    ASSUME BodyInv, Others
    PROVE  BodyInv'
<1>1. remote' \in Foreign[kind] /\ kind \in Kinds
  BY DEF BodyInv, Others
<1>2. StoredWell(kind, remote')
  BY <1>1, AttributesAssumption DEF StoredWell
<1> QED
  BY <1>2 DEF BodyInv, Others, ConfiguredValuesStay, NothingIsLostInConversion

LEMMA ReconfigureKeepsBodyInv ==
    ASSUME BodyInv, Reconfigure
    PROVE  BodyInv'
BY DEF BodyInv, Reconfigure, ConfiguredValuesStay, NothingIsLostInConversion

LEMMA BodyStepsKeepBodyInv ==
    ASSUME BodyInv, BodyNext
    PROVE  BodyInv'
BY PlanKeepsBodyInv, SendBodyKeepsBodyInv, TakeAnswerKeepsBodyInv, RefreshKeepsBodyInv,
   OthersKeepBodyInv, ReconfigureKeepsBodyInv DEF BodyNext

LEMMA BodyInvUnchanged ==
    ASSUME BodyInv, UNCHANGED bodyVars
    PROVE  BodyInv'
BY DEF BodyInv, bodyVars, ConfiguredValuesStay, NothingIsLostInConversion, IsTiers

\* What was planned is what Terraform finds after the answer and every refresh, in the types
\* of the configuration, until others change it (ApplyObjectResponseField,
\* ApplyDynamicResponseField, ApplyStringOrUnorderedListStringResponseField).
THEOREM ConfiguredValuesStayAlways == BodySpec => []ConfiguredValuesStay
<1>1. BodyInv /\ [BodyNext]_bodyVars => BodyInv'
  BY BodyStepsKeepBodyInv, BodyInvUnchanged
<1>2. BodyInv => ConfiguredValuesStay
  BY DEF BodyInv
<1> QED
  BY BodyInvInitially, <1>1, <1>2, PTL DEF BodySpec

\* What the state says is what the API answered, whatever was configured and whatever others
\* stored (StructuredRequestValue, jsonAttribute, inferJSONAttribute).
THEOREM NothingIsLostInConversionAlways == BodySpec => []NothingIsLostInConversion
<1>1. BodyInv /\ [BodyNext]_bodyVars => BodyInv'
  BY BodyStepsKeepBodyInv, BodyInvUnchanged
<1>2. BodyInv => NothingIsLostInConversion
  BY DEF BodyInv
<1> QED
  BY BodyInvInitially, <1>1, <1>2, PTL DEF BodySpec

(***************************************************************************)
(* All parts                                                               *)
(***************************************************************************)

PartsInv ==
    \/ TargetInv
    \/ target = "body" /\ BodyInv

PartsAreKept ==
    /\ target = "origin" => KeysStayHome /\ KeysAreUsedOrReported
    /\ target = "path" => PathsNameTheirObject /\ ImportsAreFaithful
    /\ target = "body" => ConfiguredValuesStay /\ NothingIsLostInConversion

\* A request as a whole: the key of its origin, the object of its path, the value of its body.
THEOREM PartsAreKeptAlways == PartsSpec => []PartsAreKept
<1>1. PartsInit => PartsInv
  BY InitTarget, BodyInvInitially DEF PartsInit, PartsInv
<1>2. PartsInv /\ [PartsNext]_partsVars => PartsInv'
  <2> SUFFICES ASSUME PartsInv, [PartsNext]_partsVars PROVE PartsInv'
    OBVIOUS
  <2>1. CASE TargetInv
    <3>1. target # "body"
      BY <2>1 DEF TargetInv
    <3>2. [TargetNext]_targetVars
      BY <3>1 DEF PartsNext, partsVars
    <3> QED
      BY <2>1, <3>2, StepTarget DEF PartsInv
  <2>2. CASE target = "body" /\ BodyInv
    <3>1. [BodyNext]_bodyVars /\ target' = "body"
      BY <2>2 DEF PartsNext, TargetNext, partsVars, targetVars
    <3> QED
      BY <2>2, <3>1, BodyStepsKeepBodyInv, BodyInvUnchanged DEF PartsInv
  <2> QED
    BY <2>1, <2>2 DEF PartsInv
<1>3. PartsInv => PartsAreKept
  <2>1. TargetInv => PartsAreKept
    BY TargetsOfInvariant DEF TargetInv, TargetsAreKept, PartsAreKept
  <2>2. target = "body" /\ BodyInv => PartsAreKept
    BY DEF BodyInv, PartsAreKept
  <2> QED
    BY <2>1, <2>2 DEF PartsInv
<1> QED
  BY <1>1, <1>2, <1>3, PTL DEF PartsSpec

=============================================================================
