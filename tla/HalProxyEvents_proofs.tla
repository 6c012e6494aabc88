------------------------ MODULE HalProxyEvents_proofs ------------------------
(***************************************************************************)
(* Proofs about HalProxyEvents, for any sub-HALs, queue size and number of *)
(* events.                                                                 *)
(*                                                                         *)
(* QueueInv needs to know what the writer has taken while the mutex is     *)
(* released: the front of the pending queue is still there, and its length *)
(* is the one that the writer noted (WriterInv).  WakeEventsHoldLock rests *)
(* on a count of the wakelock (CountInv): every outstanding wake-up event, *)
(* in a queue or being acknowledged, and every ScopedWakelock has its own  *)
(* reference.  For the refinement, every step is shown to move events from *)
(* one end of the two queues to the other without a change of their order. *)
(*                                                                         *)
(* Sums over sequences and flattened sequences need induction over data.   *)
(* It is done with sets in the place of predicates, from the minimal       *)
(* elements of a well-founded relation.                                    *)
(***************************************************************************)
EXTENDS HalProxyEvents, WellFoundedInduction, SequenceTheorems, FiniteSetTheorems, TLAPS

-----------------------------------------------------------------------------
(* Induction, sums and flattening *)

\* Induction over the naturals with a set in the place of the predicate: a
\* number outside T that no smaller one precedes cannot be.
LEMMA SetInduction ==
    ASSUME NEW T, 0 \in T, \A n \in Nat : n \in T => n + 1 \in T
    PROVE  Nat \subseteq T
<1> DEFINE Bad == Nat \ T
<1> SUFFICES ASSUME Bad # {} PROVE FALSE
  OBVIOUS
<1>1. \E x \in Bad : \A y \in Bad : ~(<<y, x>> \in OpToRel(<, Nat))
  <2>1. Bad \subseteq Nat
    OBVIOUS
  <2> HIDE DEF Bad
  <2> QED BY <2>1, WFMin, NatLessThanWellFounded
<1>2. PICK x \in Bad : \A y \in Bad : ~(<<y, x>> \in OpToRel(<, Nat))
  BY <1>1
<1>3. \A y \in Bad : ~(y < x)
  BY <1>2 DEF OpToRel
<1>4. x # 0 /\ x \in Nat
  OBVIOUS
<1>5. x - 1 \in T
  BY <1>3, <1>4
<1>6. (x - 1) + 1 = x
  BY <1>4
<1> QED BY <1>4, <1>5, <1>6

\* Induction over sequences, again with a set: they are built by Append.
LEMMA SeqInduction ==
    ASSUME NEW S, NEW T, <<>> \in T,
           \A s \in Seq(S), x \in S : s \in T => Append(s, x) \in T
    PROVE  \A s \in Seq(S) : s \in T
<1> DEFINE Good == {n \in Nat : \A s \in Seq(S) : Len(s) = n => s \in T}
<1>1. 0 \in Good
  BY EmptySeq
<1>2. ASSUME NEW n \in Nat, n \in Good PROVE n + 1 \in Good
  <2> SUFFICES ASSUME NEW s \in Seq(S), Len(s) = n + 1 PROVE s \in T
    OBVIOUS
  <2>1. PICK t \in Seq(S), x \in S : s = Append(t, x)
    BY SequenceEmptyOrAppend, EmptySeq
  <2>2. Len(t) = n
    BY <2>1
  <2> QED BY <1>2, <2>1, <2>2
<1> HIDE DEF Good
<1>3. Nat \subseteq Good
  BY <1>1, <1>2, SetInduction
<1> QED BY <1>3 DEF Good

\* f is the function that Total sums s with, up to its n-th term.
SumTo(s, n, f) == f = [i \in 0 .. n |-> IF i = 0 THEN 0 ELSE f[i - 1] + s[i]]

\* What the defining equation of a sum says of its values.
LEMMA SumFacts ==
    ASSUME NEW s, NEW n \in Nat, NEW f, SumTo(s, n, f)
    PROVE  /\ DOMAIN f = 0 .. n
           /\ f[0] = 0
           /\ \A i \in 1 .. n : f[i] = f[i - 1] + s[i]
<1>1. \A i \in 0 .. n : f[i] = IF i = 0 THEN 0 ELSE f[i - 1] + s[i]
  BY Zenon DEF SumTo
<1>2. DOMAIN f = 0 .. n
  BY Zenon DEF SumTo
<1> QED BY <1>1, <1>2

\* The recursive function of Total exists, for any number of terms.
LEMMA SumExists ==
    ASSUME NEW s PROVE \A n \in Nat : \E f : SumTo(s, n, f)
<1> DEFINE Good == {n \in Nat : \E f : SumTo(s, n, f)}
<1>1. 0 \in Good
  <2>1. SumTo(s, 0, [i \in 0 .. 0 |-> 0])
    BY DEF SumTo
  <2> QED BY <2>1
<1>2. ASSUME NEW n \in Nat, n \in Good PROVE n + 1 \in Good
  <2>1. PICK f : SumTo(s, n, f)
    BY <1>2
  <2> DEFINE g == [i \in 0 .. n + 1 |-> IF i = 0 THEN 0 ELSE f[i - 1] + s[i]]
  <2>2. ASSUME NEW i \in 0 .. n PROVE g[i] = f[i]
    BY <2>1, SumFacts
  <2>3. ASSUME NEW i \in 0 .. n + 1
        PROVE  g[i] = IF i = 0 THEN 0 ELSE g[i - 1] + s[i]
    <3>1. i # 0 => i - 1 \in 0 .. n
      OBVIOUS
    <3> QED BY <2>2, <3>1
  <2>4. SumTo(s, n + 1, g)
    <3>1. g = [i \in 0 .. n + 1 |-> g[i]]
      OBVIOUS
    <3> HIDE DEF g
    <3> QED BY <2>3, <3>1 DEF SumTo
  <2> QED BY <2>4
<1> HIDE DEF Good
<1>3. Nat \subseteq Good
  BY <1>1, <1>2, SetInduction
<1> QED BY <1>3 DEF Good

\* Its values depend on the terms before them only.
LEMMA SumUnique ==
    ASSUME NEW s, NEW t, NEW m \in Nat, NEW n \in Nat, m <= n, NEW f, NEW g,
           SumTo(s, m, f), SumTo(t, n, g), \A i \in 1 .. m : s[i] = t[i]
    PROVE  f[m] = g[m]
<1> DEFINE Good == {k \in Nat : k <= m => f[k] = g[k]}
<1>1. 0 \in Good
  BY SumFacts
<1>2. ASSUME NEW k \in Nat, k \in Good PROVE k + 1 \in Good
  <2> SUFFICES ASSUME k + 1 <= m PROVE f[k + 1] = g[k + 1]
    OBVIOUS
  <2>1. f[k + 1] = f[(k + 1) - 1] + s[k + 1]
    BY SumFacts
  <2>2. g[k + 1] = g[(k + 1) - 1] + t[k + 1]
    BY SumFacts
  <2> QED BY <1>2, <2>1, <2>2
<1> HIDE DEF Good
<1>3. Nat \subseteq Good
  BY <1>1, <1>2, SetInduction
<1> QED BY <1>3 DEF Good

\* Total is the last value of that function.
LEMMA TotalIs ==
    ASSUME NEW s, Len(s) \in Nat
    PROVE  \E f : SumTo(s, Len(s), f) /\ Total(s) = f[Len(s)]
<1> DEFINE f == CHOOSE g : SumTo(s, Len(s), g)
<1>1. Total(s) = f[Len(s)]
  BY DEF Total, SumTo
<1>2. SumTo(s, Len(s), f)
  BY SumExists
<1> QED BY <1>1, <1>2

\* Nothing adds up to 0.
LEMMA TotalEmpty == Total(<<>>) = 0
BY TotalIs, SumFacts

\* One more term.
LEMMA TotalAppend ==
    ASSUME NEW s \in Seq(Nat), NEW x \in Nat
    PROVE  Total(Append(s, x)) = Total(s) + x
<1> DEFINE t == Append(s, x)
<1>1. t \in Seq(Nat) /\ Len(t) = Len(s) + 1 /\ Len(s) \in Nat /\ Len(t) \in Nat
      /\ \A i \in 1 .. Len(s) : s[i] = t[i]
  BY AppendProperties
<1>2. PICK f : SumTo(s, Len(s), f) /\ Total(s) = f[Len(s)]
  BY <1>1, TotalIs
<1>3. PICK g : SumTo(t, Len(t), g) /\ Total(t) = g[Len(t)]
  BY <1>1, TotalIs
<1>4. t[Len(t)] = x
  BY <1>1, AppendProperties
<1> HIDE DEF t
<1>5. f[Len(s)] = g[Len(s)]
  <2>1. /\ Len(s) \in Nat /\ Len(t) \in Nat /\ Len(s) <= Len(t)
        /\ \A i \in 1 .. Len(s) : s[i] = t[i]
        /\ SumTo(s, Len(s), f) /\ SumTo(t, Len(t), g)
    BY <1>1, <1>2, <1>3
  <2> HIDE <1>1, <1>2, <1>3
  <2> QED BY ONLY <2>1, SumUnique
<1>6. g[Len(t)] = g[Len(t) - 1] + t[Len(t)]
  <2>1. \A i \in 1 .. Len(t) : g[i] = g[i - 1] + t[i]
    <3>1. Len(t) \in Nat /\ SumTo(t, Len(t), g)
      BY <1>1, <1>3
    <3> QED BY ONLY <3>1, SumFacts, Zenon
  <2> QED BY <1>1, <2>1
<1>7. Total(t) = Total(s) + x
  BY <1>1, <1>2, <1>3, <1>4, <1>5, <1>6
<1> QED BY <1>7 DEF t

\* A sum of naturals is one.
LEMMA TotalType == \A s \in Seq(Nat) : Total(s) \in Nat
<1> DEFINE Good == {s \in Seq(Nat) : Total(s) \in Nat}
<1>1. <<>> \in Good
  BY TotalEmpty
<1>2. ASSUME NEW s \in Seq(Nat), NEW x \in Nat, s \in Good PROVE Append(s, x) \in Good
  BY <1>2, TotalAppend
<1> HIDE DEF Good
<1>3. \A s \in Seq(Nat) : s \in Good
  BY <1>1, <1>2, SeqInduction
<1> QED BY <1>3 DEF Good

\* Append moves through a concatenation.
LEMMA AppendConcat ==
    ASSUME NEW S, NEW s \in Seq(S), NEW t \in Seq(S), NEW x \in S
    PROVE  s \o Append(t, x) = Append(s \o t, x)
OBVIOUS

\* The sum of two sequences in a row.
LEMMA TotalConcat ==
    ASSUME NEW s \in Seq(Nat)
    PROVE  \A t \in Seq(Nat) : Total(s \o t) = Total(s) + Total(t)
<1> DEFINE Good == {t \in Seq(Nat) : Total(s \o t) = Total(s) + Total(t)}
<1>1. <<>> \in Good
  BY TotalEmpty, TotalType, ConcatEmptySeq
<1>2. ASSUME NEW t \in Seq(Nat), NEW x \in Nat, t \in Good PROVE Append(t, x) \in Good
  <2>1. s \o Append(t, x) = Append(s \o t, x) /\ s \o t \in Seq(Nat)
    BY AppendConcat
  <2>2. Total(s) \in Nat /\ Total(t) \in Nat
    BY TotalType
  <2>3. Total(Append(s \o t, x)) = Total(s \o t) + x
    BY <2>1, TotalAppend
  <2>4. Total(Append(t, x)) = Total(t) + x
    BY TotalAppend
  <2>5. Total(s \o t) = Total(s) + Total(t)
    BY <1>2
  <2>6. Total(s \o Append(t, x)) = Total(s) + Total(Append(t, x))
    BY <2>1, <2>2, <2>3, <2>4, <2>5
  <2> QED BY <2>6
<1> HIDE DEF Good
<1>3. \A t \in Seq(Nat) : t \in Good
  BY <1>1, <1>2, SeqInduction
<1> QED BY <1>3 DEF Good


\* Zeros add up to 0.
LEMMA TotalZero == \A s \in Seq({0}) : Total(s) = 0
<1> DEFINE Good == {s \in Seq({0}) : Total(s) = 0}
<1>1. <<>> \in Good
  BY TotalEmpty
<1>2. ASSUME NEW s \in Seq({0}), NEW x \in {0}, s \in Good PROVE Append(s, x) \in Good
  <2>1. s \in Seq(Nat)
    BY SeqMonotonic
  <2>2. Total(Append(s, 0)) = Total(s) + 0
    BY <2>1, TotalAppend
  <2> QED BY <1>2, <2>2
<1> HIDE DEF Good
<1>3. \A s \in Seq({0}) : s \in Good
  BY <1>1, <1>2, SeqInduction
<1> QED BY <1>3 DEF Good

\* f is the function of FlattenSeq for ss, up to its n-th sequence.
FlatTo(ss, n, f) == f = [i \in 1 .. n |-> IF i = 1 THEN ss[i] ELSE f[i - 1] \o ss[i]]

\* What the defining equation of FlattenSeq says of its values.
LEMMA FlatFacts ==
    ASSUME NEW ss, NEW n \in Nat, NEW f, FlatTo(ss, n, f)
    PROVE  /\ DOMAIN f = 1 .. n
           /\ \A i \in 1 .. n : f[i] = IF i = 1 THEN ss[i] ELSE f[i - 1] \o ss[i]
BY Zenon DEF FlatTo

\* The recursive function of FlattenSeq exists.
LEMMA FlatExists ==
    ASSUME NEW ss PROVE \A n \in Nat : \E f : FlatTo(ss, n, f)
<1> DEFINE Good == {n \in Nat : \E f : FlatTo(ss, n, f)}
<1>1. 0 \in Good
  <2>1. FlatTo(ss, 0, [i \in 1 .. 0 |-> <<>>])
    BY DEF FlatTo
  <2> QED BY <2>1
<1>2. ASSUME NEW n \in Nat, n \in Good PROVE n + 1 \in Good
  <2>1. PICK f : FlatTo(ss, n, f)
    BY <1>2
  <2> DEFINE g == [i \in 1 .. n + 1 |-> IF i = 1 THEN ss[i] ELSE f[i - 1] \o ss[i]]
  <2>2. ASSUME NEW i \in 1 .. n PROVE g[i] = f[i]
    BY <2>1, FlatFacts
  <2>3. ASSUME NEW i \in 1 .. n + 1
        PROVE  g[i] = IF i = 1 THEN ss[i] ELSE g[i - 1] \o ss[i]
    <3>1. i # 1 => i - 1 \in 1 .. n
      OBVIOUS
    <3> QED BY <2>2, <3>1
  <2>4. FlatTo(ss, n + 1, g)
    <3>1. g = [i \in 1 .. n + 1 |-> g[i]]
      OBVIOUS
    <3> HIDE DEF g
    <3> QED BY <2>3, <3>1 DEF FlatTo
  <2> QED BY <2>4
<1> HIDE DEF Good
<1>3. Nat \subseteq Good
  BY <1>1, <1>2, SetInduction
<1> QED BY <1>3 DEF Good

\* Its values depend on the sequences before them only.
LEMMA FlatUnique ==
    ASSUME NEW ss, NEW tt, NEW m \in Nat, NEW n \in Nat, 0 < m, m <= n, NEW f, NEW g,
           FlatTo(ss, m, f), FlatTo(tt, n, g), \A i \in 1 .. m : ss[i] = tt[i]
    PROVE  f[m] = g[m]
<1> DEFINE Good == {k \in Nat : k \in 1 .. m => f[k] = g[k]}
<1>1. 0 \in Good
  OBVIOUS
<1>2. ASSUME NEW k \in Nat, k \in Good PROVE k + 1 \in Good
  <2> SUFFICES ASSUME k + 1 \in 1 .. m PROVE f[k + 1] = g[k + 1]
    OBVIOUS
  <2>1. f[k + 1] = IF k + 1 = 1 THEN ss[k + 1] ELSE f[(k + 1) - 1] \o ss[k + 1]
    BY FlatFacts
  <2>2. g[k + 1] = IF k + 1 = 1 THEN tt[k + 1] ELSE g[(k + 1) - 1] \o tt[k + 1]
    BY FlatFacts
  <2> QED BY <1>2, <2>1, <2>2
<1> HIDE DEF Good
<1>3. Nat \subseteq Good
  BY <1>1, <1>2, SetInduction
<1> QED BY <1>3 DEF Good

\* FlattenSeq is the last value of that function.
LEMMA FlattenIs ==
    ASSUME NEW ss, Len(ss) \in Nat \ {0}
    PROVE  \E f : FlatTo(ss, Len(ss), f) /\ FlattenSeq(ss) = f[Len(ss)]
<1> DEFINE f == CHOOSE g : FlatTo(ss, Len(ss), g)
<1>1. FlattenSeq(ss) = f[Len(ss)]
  BY DEF FlattenSeq, FlatTo
<1>2. FlatTo(ss, Len(ss), f)
  BY FlatExists
<1> QED BY <1>1, <1>2

\* No sequences.
LEMMA FlattenEmpty == FlattenSeq(<<>>) = <<>>
BY DEF FlattenSeq

\* One more sequence comes last.
LEMMA FlattenAppend ==
    ASSUME NEW S, NEW ss \in Seq(Seq(S)), NEW x \in Seq(S)
    PROVE  FlattenSeq(Append(ss, x)) = FlattenSeq(ss) \o x
<1> DEFINE tt == Append(ss, x)
<1>1. /\ tt \in Seq(Seq(S)) /\ Len(tt) = Len(ss) + 1 /\ Len(ss) \in Nat /\ Len(tt) \in Nat \ {0}
      /\ \A i \in 1 .. Len(ss) : ss[i] = tt[i]
      /\ tt[Len(tt)] = x
  BY AppendProperties
<1>2. PICK g : FlatTo(tt, Len(tt), g) /\ FlattenSeq(tt) = g[Len(tt)]
  BY <1>1, FlattenIs
<1> HIDE DEF tt
<1>3. g[Len(tt)] = IF Len(tt) = 1 THEN x ELSE g[Len(ss)] \o x
  <2>1. \A i \in 1 .. Len(tt) : g[i] = IF i = 1 THEN tt[i] ELSE g[i - 1] \o tt[i]
    BY <1>1, <1>2, FlatFacts
  <2>2. Len(tt) - 1 = Len(ss) /\ Len(tt) \in 1 .. Len(tt)
    BY <1>1
  <2>3. g[Len(tt)] = IF Len(tt) = 1 THEN tt[Len(tt)] ELSE g[Len(tt) - 1] \o tt[Len(tt)]
    BY <2>1, <2>2
  <2> QED BY <1>1, <2>2, <2>3
<1>4. CASE ss = <<>>
  <2>1. FlattenSeq(ss) = <<>>
    BY <1>4, FlattenEmpty
  <2>2. <<>> \o x = x
    BY ConcatEmptySeq
  <2>3. FlattenSeq(tt) = x
    BY <1>1, <1>2, <1>3, <1>4
  <2> QED BY <2>1, <2>2, <2>3 DEF tt
<1>5. CASE ss # <<>>
  <2>1. Len(ss) \in Nat \ {0}
    BY <1>5
  <2>2. PICK f : FlatTo(ss, Len(ss), f) /\ FlattenSeq(ss) = f[Len(ss)]
    BY <2>1, FlattenIs
  <2>3. f[Len(ss)] = g[Len(ss)]
    <3> DEFINE m == Len(ss)
               n == Len(tt)
    <3>1. m \in Nat /\ n \in Nat /\ 0 < m /\ m <= n
      BY <1>1, <2>1
    <3>2. FlatTo(ss, m, f) /\ FlatTo(tt, n, g) /\ \A i \in 1 .. m : ss[i] = tt[i]
      BY <1>1, <1>2, <2>2
    <3> HIDE DEF m, n
    <3>3. f[m] = g[m]
      BY ONLY <3>1, <3>2, FlatUnique
    <3> QED BY <3>3 DEF m
  <2>4. FlattenSeq(tt) = FlattenSeq(ss) \o x
    BY <1>1, <1>2, <1>3, <2>1, <2>2, <2>3
  <2> QED BY <2>4 DEF tt
<1> QED BY <1>4, <1>5

\* Sequences over S flatten to one over S.
LEMMA FlattenType ==
    ASSUME NEW S PROVE \A ss \in Seq(Seq(S)) : FlattenSeq(ss) \in Seq(S)
<1> DEFINE Good == {ss \in Seq(Seq(S)) : FlattenSeq(ss) \in Seq(S)}
<1>1. <<>> \in Good
  <2>1. <<>> \in Seq(Seq(S)) /\ <<>> \in Seq(S)
    OBVIOUS
  <2> QED BY <2>1, FlattenEmpty, Zenon
<1>2. ASSUME NEW ss \in Seq(Seq(S)), NEW x \in Seq(S), ss \in Good
      PROVE  Append(ss, x) \in Good
  <2>1. FlattenSeq(ss) \o x \in Seq(S)
    BY <1>2, ConcatProperties
  <2> QED BY <2>1, FlattenAppend, AppendProperties
<1> HIDE DEF Good
<1>3. \A ss \in Seq(Seq(S)) : ss \in Good
  BY <1>1, <1>2, SeqInduction
<1> QED BY <1>3 DEF Good

\* FlattenSeq of two sequences of sequences in a row.
LEMMA FlattenConcat ==
    ASSUME NEW S, NEW ss \in Seq(Seq(S))
    PROVE  \A tt \in Seq(Seq(S)) : FlattenSeq(ss \o tt) = FlattenSeq(ss) \o FlattenSeq(tt)
<1> DEFINE Good == {tt \in Seq(Seq(S)) :
                      FlattenSeq(ss \o tt) = FlattenSeq(ss) \o FlattenSeq(tt)}
<1>1. <<>> \in Good
  <2>1. ss \o <<>> = ss /\ FlattenSeq(ss) \o <<>> = FlattenSeq(ss)
    BY FlattenType, ConcatEmptySeq
  <2>2. <<>> \in Seq(Seq(S))
    OBVIOUS
  <2> QED BY <2>1, <2>2, FlattenEmpty, Zenon
<1>2. ASSUME NEW tt \in Seq(Seq(S)), NEW x \in Seq(S), tt \in Good
      PROVE  Append(tt, x) \in Good
  <2>1. ss \o Append(tt, x) = Append(ss \o tt, x) /\ ss \o tt \in Seq(Seq(S))
    BY AppendConcat, ConcatProperties
  <2>2. FlattenSeq(Append(ss \o tt, x)) = FlattenSeq(ss \o tt) \o x
    BY <2>1, FlattenAppend
  <2>3. FlattenSeq(ss) \in Seq(S) /\ FlattenSeq(tt) \in Seq(S)
    BY FlattenType
  <2>4. (FlattenSeq(ss) \o FlattenSeq(tt)) \o x = FlattenSeq(ss) \o (FlattenSeq(tt) \o x)
    BY <2>3, ConcatAssociative
  <2>5. FlattenSeq(Append(tt, x)) = FlattenSeq(tt) \o x
    BY FlattenAppend
  <2>6. FlattenSeq(ss \o tt) = FlattenSeq(ss) \o FlattenSeq(tt)
    BY <1>2
  <2>7. FlattenSeq(ss \o Append(tt, x)) = FlattenSeq(ss) \o FlattenSeq(Append(tt, x))
    BY <2>1, <2>2, <2>4, <2>5, <2>6, Zenon
  <2>8. Append(tt, x) \in Seq(Seq(S))
    BY AppendProperties
  <2> QED BY <2>7, <2>8
<1> HIDE DEF Good
<1>3. \A tt \in Seq(Seq(S)) : tt \in Good
  BY <1>1, <1>2, SeqInduction
<1> QED BY <1>3 DEF Good

\* One sequence flattens to itself.
LEMMA FlattenSingle ==
    ASSUME NEW S, NEW x \in Seq(S) PROVE FlattenSeq(<<x>>) = x
<1>1. <<x>> = Append(<<>>, x) /\ <<>> \in Seq(Seq(S))
  OBVIOUS
<1>2. FlattenSeq(Append(<<>>, x)) = FlattenSeq(<<>>) \o x
  BY <1>1, FlattenAppend
<1>3. FlattenSeq(<<>>) \o x = x
  BY FlattenEmpty, ConcatEmptySeq
<1> QED BY <1>1, <1>2, <1>3, Zenon

\* The first sequence comes first.
LEMMA FlattenFront ==
    ASSUME NEW S, NEW ss \in Seq(Seq(S)), ss # <<>>
    PROVE  FlattenSeq(ss) = Head(ss) \o FlattenSeq(Tail(ss))
<1>1. /\ Head(ss) \in Seq(S) /\ Tail(ss) \in Seq(Seq(S)) /\ <<Head(ss)>> \in Seq(Seq(S))
      /\ <<Head(ss)>> \o Tail(ss) = ss
  OBVIOUS
<1>2. FlattenSeq(<<Head(ss)>> \o Tail(ss)) = FlattenSeq(<<Head(ss)>>) \o FlattenSeq(Tail(ss))
  BY <1>1, FlattenConcat
<1>3. FlattenSeq(<<Head(ss)>>) = Head(ss)
  BY <1>1, FlattenSingle
<1> QED BY <1>1, <1>2, <1>3

\* Sequences of at most one element flatten to no more than their number.
LEMMA FlattenShort ==
    ASSUME NEW S, NEW C, C \subseteq Seq(S), \A x \in C : Len(x) <= 1
    PROVE  \A ss \in Seq(C) : Len(FlattenSeq(ss)) <= Len(ss)
<1> DEFINE Good == {ss \in Seq(C) : Len(FlattenSeq(ss)) <= Len(ss)}
<1>1. <<>> \in Good
  BY FlattenEmpty
<1>2. ASSUME NEW ss \in Seq(C), NEW x \in C, ss \in Good
      PROVE  Append(ss, x) \in Good
  <2>1. ss \in Seq(Seq(S)) /\ x \in Seq(S)
    BY SeqMonotonic
  <2>2. FlattenSeq(Append(ss, x)) = FlattenSeq(ss) \o x
    BY <2>1, FlattenAppend
  <2>3. Len(FlattenSeq(ss) \o x) = Len(FlattenSeq(ss)) + Len(x) /\ Len(FlattenSeq(ss)) \in Nat
    BY <2>1, FlattenType, ConcatProperties
  <2>4. Len(Append(ss, x)) = Len(ss) + 1 /\ Append(ss, x) \in Seq(C) /\ Len(ss) \in Nat
    BY AppendProperties
  <2>5. Len(x) \in Nat /\ Len(x) <= 1 /\ Len(FlattenSeq(ss)) <= Len(ss)
    BY <1>2, <2>1
  <2> QED BY <2>2, <2>3, <2>4, <2>5
<1> HIDE DEF Good
<1>3. \A ss \in Seq(C) : ss \in Good
  BY <1>1, <1>2, SeqInduction
<1> QED BY <1>3 DEF Good

-----------------------------------------------------------------------------
(* Counting wake-up events *)

\* One for each wake-up event, what Wakes sums up.
Marks(s) == [i \in DOMAIN s |-> IF s[i].wake THEN 1 ELSE 0]

\* One mark per event.
LEMMA MarksType ==
    ASSUME NEW S, NEW s \in Seq(S)
    PROVE  Marks(s) \in Seq(Nat) /\ Len(Marks(s)) = Len(s)
<1>1. DOMAIN s = 1 .. Len(s) /\ Len(s) \in Nat
  BY LenProperties
<1> QED BY <1>1 DEF Marks

\* The count of two sequences in a row.
LEMMA WakesConcat ==
    ASSUME NEW S, NEW s \in Seq(S), NEW t \in Seq(S)
    PROVE  Wakes(s \o t) = Wakes(s) + Wakes(t)
<1>1. Marks(s) \in Seq(Nat) /\ Marks(t) \in Seq(Nat) /\ Marks(s \o t) \in Seq(Nat)
  <2>1. s \o t \in Seq(S)
    BY ConcatProperties
  <2> QED BY <2>1, MarksType
<1>2. /\ Len(Marks(s)) = Len(s) /\ Len(Marks(t)) = Len(t)
      /\ Len(Marks(s \o t)) = Len(s) + Len(t)
  <2>1. s \o t \in Seq(S) /\ Len(s \o t) = Len(s) + Len(t)
    BY ConcatProperties
  <2>2. Len(Marks(s \o t)) = Len(s \o t)
    BY <2>1, MarksType
  <2> QED BY <2>1, <2>2, MarksType
<1>3. Marks(s \o t) = Marks(s) \o Marks(t)
  <2>1. Len(Marks(s) \o Marks(t)) = Len(s) + Len(t) /\ Marks(s) \o Marks(t) \in Seq(Nat)
    BY <1>1, <1>2, ConcatProperties
  <2>2. ASSUME NEW i \in 1 .. Len(s) + Len(t)
        PROVE  Marks(s \o t)[i] = (Marks(s) \o Marks(t))[i]
    <3>1. DOMAIN s = 1 .. Len(s) /\ DOMAIN t = 1 .. Len(t) /\ Len(s) \in Nat /\ Len(t) \in Nat
          /\ DOMAIN (s \o t) = 1 .. Len(s) + Len(t)
      BY LenProperties, ConcatProperties
    <3>2. (s \o t)[i] = IF i <= Len(s) THEN s[i] ELSE t[i - Len(s)]
      BY ConcatProperties
    <3>3. (Marks(s) \o Marks(t))[i]
            = IF i <= Len(s) THEN Marks(s)[i] ELSE Marks(t)[i - Len(s)]
      <4>1. \A j \in 1 .. Len(Marks(s)) + Len(Marks(t)) :
              (Marks(s) \o Marks(t))[j]
                = IF j <= Len(Marks(s)) THEN Marks(s)[j] ELSE Marks(t)[j - Len(Marks(s))]
        BY <1>1, ConcatProperties, Zenon
      <4> QED BY <1>2, <4>1
    <3>4. CASE i <= Len(s)
      BY <3>1, <3>2, <3>3, <3>4 DEF Marks
    <3>5. CASE ~(i <= Len(s))
      <4>1. i - Len(s) \in DOMAIN t
        BY <3>1, <3>5
      <4> QED BY <3>1, <3>2, <3>3, <3>5, <4>1 DEF Marks
    <3> QED BY <3>4, <3>5
  <2> QED BY <1>1, <1>2, <2>1, <2>2, SeqEqual
<1>4. Total(Marks(s) \o Marks(t)) = Total(Marks(s)) + Total(Marks(t))
  BY <1>1, TotalConcat
<1> QED BY <1>3, <1>4 DEF Wakes, Marks

\* It is a number.
LEMMA WakesType ==
    ASSUME NEW S, NEW s \in Seq(S) PROVE Wakes(s) \in Nat
<1>1. Total(Marks(s)) \in Nat
  BY MarksType, TotalType
<1> QED BY <1>1 DEF Wakes, Marks

\* There are none in an empty sequence,
LEMMA WakesEmpty == Wakes(<<>>) = 0
<1>1. Marks(<<>>) = <<>>
  BY DEF Marks
<1> QED BY <1>1, TotalEmpty DEF Wakes, Marks

\* and none where every event is plain.
LEMMA WakesNone ==
    ASSUME NEW S, NEW s \in Seq(S), \A i \in DOMAIN s : ~s[i].wake
    PROVE  Wakes(s) = 0
<1>1. DOMAIN s = 1 .. Len(s) /\ Len(s) \in Nat
  BY LenProperties
<1>2. Marks(s) \in Seq({0})
  BY <1>1 DEF Marks
<1> QED BY <1>2, TotalZero DEF Wakes, Marks

\* A sequence is what is before a point and what is after it.
LEMMA Cut ==
    ASSUME NEW S, NEW s \in Seq(S), NEW n \in 0 .. Len(s)
    PROVE  /\ SubSeq(s, 1, n) \in Seq(S) /\ SubSeq(s, n + 1, Len(s)) \in Seq(S)
           /\ Len(SubSeq(s, 1, n)) = n /\ Len(SubSeq(s, n + 1, Len(s))) = Len(s) - n
           /\ s = SubSeq(s, 1, n) \o SubSeq(s, n + 1, Len(s))
<1>1. Len(s) \in Nat /\ \A i \in 1 .. Len(s) : s[i] \in S
  BY LenProperties, ElementOfSeq
<1>2. SubSeq(s, 1, n) \in Seq(S) /\ Len(SubSeq(s, 1, n)) = n
  BY <1>1, SubSeqProperties
<1>3. SubSeq(s, n + 1, Len(s)) \in Seq(S) /\ Len(SubSeq(s, n + 1, Len(s))) = Len(s) - n
  BY <1>1, SubSeqProperties
<1>4. 1 \in 1 .. Len(s) + 1 /\ n \in 1 - 1 .. Len(s) /\ Len(s) \in n .. Len(s)
  BY <1>1
<1>5. SubSeq(s, 1, n) \o SubSeq(s, n + 1, Len(s)) = SubSeq(s, 1, Len(s))
  BY <1>4, ConcatAdjacentSubSeq
<1> QED BY <1>2, <1>3, <1>5, SubSeqFull

\* The two parts of a concatenation.
LEMMA ConcatParts ==
    ASSUME NEW S, NEW s \in Seq(S), NEW t \in Seq(S)
    PROVE  /\ SubSeq(s \o t, 1, Len(s)) = s
           /\ SubSeq(s \o t, Len(s) + 1, Len(s \o t)) = t
<1>1. Len(s) \in Nat /\ Len(t) \in Nat /\ Len(s \o t) = Len(s) + Len(t)
  BY LenProperties, ConcatProperties
<1>2. SubSeq(s \o t, 1, Len(s)) = s
  <2>1. CASE s = <<>>
    BY <1>1, <2>1, SubSeqEmpty, EmptySeq
  <2>2. CASE s # <<>>
    <3>1. 1 \in 1 .. Len(s) /\ Len(s) \in 1 .. Len(s)
      BY <1>1, <2>2, EmptySeq
    <3>2. SubSeq(s \o t, 1, Len(s)) = SubSeq(s, 1, Len(s))
      BY <3>1, SubSeqOfConcat1
    <3> QED BY <3>2, SubSeqFull
  <2> QED BY <2>1, <2>2
<1>3. SubSeq(s \o t, Len(s) + 1, Len(s \o t)) = t
  <2>1. CASE t = <<>>
    BY <1>1, <2>1, SubSeqEmpty, EmptySeq
  <2>2. CASE t # <<>>
    <3>1. /\ Len(s) + 1 \in Len(s) + 1 .. Len(s) + Len(t)
          /\ Len(s \o t) \in Len(s) + 1 .. Len(s) + Len(t)
          /\ (Len(s) + 1) - Len(s) = 1 /\ Len(s \o t) - Len(s) = Len(t)
      BY <1>1, <2>2, EmptySeq
    <3>2. SubSeq(s \o t, Len(s) + 1, Len(s \o t))
            = SubSeq(t, (Len(s) + 1) - Len(s), Len(s \o t) - Len(s))
      BY <3>1, SubSeqOfConcat2
    <3> QED BY <3>1, <3>2, SubSeqFull
  <2> QED BY <2>1, <2>2
<1> QED BY <1>2, <1>3

\* What is left of s \o t when n elements of s are gone, and those elements.
LEMMA CutConcat ==
    ASSUME NEW S, NEW s \in Seq(S), NEW t \in Seq(S), NEW n \in 0 .. Len(s)
    PROVE  /\ SubSeq(s \o t, n + 1, Len(s \o t)) = SubSeq(s, n + 1, Len(s)) \o t
           /\ SubSeq(s \o t, 1, n) = SubSeq(s, 1, n)
<1> DEFINE p == SubSeq(s, 1, n)
           q == SubSeq(s, n + 1, Len(s))
<1>1. p \in Seq(S) /\ q \in Seq(S) /\ Len(p) = n /\ s = p \o q
  <2>1. SubSeq(s, 1, n) \in Seq(S) /\ SubSeq(s, n + 1, Len(s)) \in Seq(S)
    BY Cut
  <2>2. Len(SubSeq(s, 1, n)) = n
    BY Cut
  <2>3. s = SubSeq(s, 1, n) \o SubSeq(s, n + 1, Len(s))
    BY Cut
  <2> QED BY <2>1, <2>2, <2>3, Zenon
<1> HIDE DEF p, q
<1>2. s \o t = p \o (q \o t)
  <2>1. p \in Seq(S) /\ q \in Seq(S) /\ t \in Seq(S)
    BY <1>1
  <2>2. (p \o q) \o t = p \o (q \o t)
    BY ONLY <2>1, ConcatAssociative, SMTT(30)
  <2> QED BY <1>1, <2>2
<1>3. q \o t \in Seq(S)
  BY <1>1, ConcatProperties
<1>4. /\ SubSeq(p \o (q \o t), 1, Len(p)) = p
      /\ SubSeq(p \o (q \o t), Len(p) + 1, Len(p \o (q \o t))) = q \o t
  BY <1>1, <1>3, ConcatParts
<1> QED BY <1>1, <1>2, <1>4 DEF p, q

\* The first event, counted on its own.
LEMMA WakesFront ==
    ASSUME NEW S, NEW s \in Seq(S), s # <<>>
    PROVE  Wakes(s) = (IF Head(s).wake THEN 1 ELSE 0) + Wakes(Tail(s))
<1>1. /\ <<Head(s)>> \in Seq(S) /\ Tail(s) \in Seq(S) /\ Head(s) \in S
      /\ <<Head(s)>> \o Tail(s) = s
  OBVIOUS
<1>2. Wakes(<<Head(s)>> \o Tail(s)) = Wakes(<<Head(s)>>) + Wakes(Tail(s))
  BY <1>1, WakesConcat
<1>3. Wakes(<<Head(s)>>) = IF Head(s).wake THEN 1 ELSE 0
  <2> DEFINE k == IF Head(s).wake THEN 1 ELSE 0
  <2>1. Marks(<<Head(s)>>) = Append(<<>>, k) /\ k \in Nat
    BY DEF Marks
  <2> HIDE DEF k
  <2>2. <<>> \in Seq(Nat)
    OBVIOUS
  <2>3. Total(Append(<<>>, k)) = Total(<<>>) + k
    BY <2>1, <2>2, TotalAppend
  <2>4. Total(Marks(<<Head(s)>>)) = k
    BY <2>1, <2>3, TotalEmpty
  <2>5. Wakes(<<Head(s)>>) = k
    BY <2>4 DEF Wakes, Marks
  <2> QED BY <2>5 DEF k
<1> QED BY <1>1, <1>2, <1>3

\* The first number, added on its own.
LEMMA TotalFront ==
    ASSUME NEW s \in Seq(Nat), s # <<>>
    PROVE  Total(s) = Head(s) + Total(Tail(s))
<1>1. /\ <<Head(s)>> \in Seq(Nat) /\ Tail(s) \in Seq(Nat) /\ Head(s) \in Nat
      /\ <<Head(s)>> \o Tail(s) = s
  OBVIOUS
<1>2. Total(<<Head(s)>> \o Tail(s)) = Total(<<Head(s)>>) + Total(Tail(s))
  BY <1>1, TotalConcat
<1>3. <<Head(s)>> = Append(<<>>, Head(s)) /\ <<>> \in Seq(Nat)
  OBVIOUS
<1>4. Total(Append(<<>>, Head(s))) = Total(<<>>) + Head(s)
  BY <1>1, <1>3, TotalAppend
<1>5. Total(<<Head(s)>>) = Head(s)
  BY <1>1, <1>3, <1>4, TotalEmpty
<1> QED BY <1>1, <1>2, <1>5

-----------------------------------------------------------------------------
(* The inductive invariant *)

\* A batch of the pending queue, and the events of several.
Batch == [events: Seq(Event), wakeups: Nat]
Evs(p) == [i \in DOMAIN p |-> p[i].events]

\* No batch in the pending queue is empty; while its mutex is released the
\* writer has the length of what it writes from the front of the queue.
PendingInv == \A i \in DOMAIN pending : pending[i].events # <<>>
WriterInv ==
    writer.at # "wait"
      => pending # <<>> /\ writer.n = Smaller(Len(front.events), QueueSize)

\* A thread without a wakelock has plain events only, and an idle thread has
\* no count.
PosterInv ==
    \A s \in SubHals :
      /\ poster[s].at = "idle" => ~poster[s].valid
      /\ poster[s].at = "ready" /\ ~poster[s].locked
           => \A i \in DOMAIN poster[s].batch : poster[s].batch[i] = "plain"

\* A count that is not 0 means the wakelock is held.
HeldInv == refCount > 0 => held

\* Inductive.
QueueIInv == TypeOK /\ SizeExact /\ PendingInv /\ WriterInv /\ PosterInv /\ HeldInv

\* The count pays for every outstanding event and every scoped wakelock.
CountInv == ~overReleased => refCount >= Outstanding + Cardinality(Counted)

-----------------------------------------------------------------------------
(* The pending queue and the batches, flattened *)

\* ... in one sequence.
AllOf(p) == FlattenSeq(Evs(p))

\* The events of the batches, batch by batch.
LEMMA EvsType ==
    ASSUME NEW p \in Seq(Batch)
    PROVE  /\ Evs(p) \in Seq(Seq(Event)) /\ Len(Evs(p)) = Len(p)
           /\ \A i \in 1 .. Len(p) : Evs(p)[i] = p[i].events
<1>1. DOMAIN p = 1 .. Len(p) /\ Len(p) \in Nat
  BY LenProperties
<1>2. ASSUME NEW i \in 1 .. Len(p) PROVE p[i].events \in Seq(Event)
  <2>1. p[i] \in Batch
    BY ElementOfSeq
  <2> QED BY <2>1 DEF Batch
<1> QED BY <1>1, <1>2 DEF Evs

\* All events of a queue of batches.
LEMMA AllType ==
    ASSUME NEW p \in Seq(Batch) PROVE AllOf(p) \in Seq(Event)
BY EvsType, FlattenType DEF AllOf

\* There are none in an empty queue.
LEMMA AllEmpty == AllOf(<<>>) = <<>>
<1>1. Evs(<<>>) = <<>>
  BY DEF Evs
<1> QED BY <1>1, FlattenEmpty DEF AllOf

\* A batch more.
LEMMA AllAppend ==
    ASSUME NEW p \in Seq(Batch), NEW b \in Batch
    PROVE  AllOf(Append(p, b)) = AllOf(p) \o b.events
<1>1. Append(p, b) \in Seq(Batch) /\ Len(Append(p, b)) = Len(p) + 1 /\ Len(p) \in Nat
  BY AppendProperties, LenProperties
<1>2. b.events \in Seq(Event)
  BY DEF Batch
<1>3. Evs(p) \in Seq(Seq(Event)) /\ Len(Evs(p)) = Len(p)
  BY EvsType
<1>4. /\ Evs(Append(p, b)) \in Seq(Seq(Event)) /\ Len(Evs(Append(p, b))) = Len(p) + 1
      /\ \A i \in 1 .. Len(p) + 1 : Evs(Append(p, b))[i] = Append(p, b)[i].events
  BY <1>1, EvsType
<1>5. Append(Evs(p), b.events) \in Seq(Seq(Event)) /\ Len(Append(Evs(p), b.events)) = Len(p) + 1
  BY <1>2, <1>3, AppendProperties
<1>6. ASSUME NEW i \in 1 .. Len(p) + 1
      PROVE  Evs(Append(p, b))[i] = Append(Evs(p), b.events)[i]
  <2>1. CASE i = Len(p) + 1
    <3>1. Append(p, b)[i] = b
      BY <2>1, AppendProperties
    <3>2. Append(Evs(p), b.events)[i] = b.events
      BY <1>2, <1>3, <2>1, AppendProperties
    <3> QED BY <1>4, <3>1, <3>2
  <2>2. CASE i # Len(p) + 1
    <3>1. i \in 1 .. Len(p)
      BY <1>1, <2>2
    <3>2. Append(p, b)[i] = p[i]
      BY <3>1, AppendProperties
    <3>3. Append(Evs(p), b.events)[i] = Evs(p)[i]
      BY <1>2, <1>3, <3>1, AppendProperties
    <3> QED BY <1>4, <3>1, <3>2, <3>3, EvsType
  <2> QED BY <2>1, <2>2
<1>7. Evs(Append(p, b)) = Append(Evs(p), b.events)
  BY <1>4, <1>5, <1>6, SeqEqual
<1> QED BY <1>2, <1>3, <1>7, FlattenAppend DEF AllOf

\* The first batch and the others.
LEMMA AllFront ==
    ASSUME NEW p \in Seq(Batch), p # <<>>
    PROVE  AllOf(p) = Head(p).events \o AllOf(Tail(p))
<1>1. Head(p) \in Batch /\ Tail(p) \in Seq(Batch) /\ Len(Tail(p)) = Len(p) - 1
      /\ Len(p) \in Nat \ {0} /\ Head(p) = p[1]
      /\ \A i \in 1 .. Len(Tail(p)) : Tail(p)[i] = p[i + 1]
  BY HeadTailProperties, EmptySeq, LenProperties
<1>2. Evs(p) \in Seq(Seq(Event)) /\ Len(Evs(p)) = Len(p) /\ Evs(p) # <<>>
  BY <1>1, EvsType, EmptySeq
<1>3. Head(Evs(p)) = Head(p).events
  BY <1>1, <1>2, EvsType
<1>4. /\ Tail(Evs(p)) \in Seq(Seq(Event)) /\ Len(Tail(Evs(p))) = Len(p) - 1
      /\ \A i \in 1 .. Len(p) - 1 : Tail(Evs(p))[i] = Evs(p)[i + 1]
  BY <1>2, HeadTailProperties
<1>5. /\ Evs(Tail(p)) \in Seq(Seq(Event)) /\ Len(Evs(Tail(p))) = Len(p) - 1
      /\ \A i \in 1 .. Len(p) - 1 : Evs(Tail(p))[i] = Tail(p)[i].events
  BY <1>1, EvsType
<1>6. ASSUME NEW i \in 1 .. Len(p) - 1 PROVE Tail(Evs(p))[i] = Evs(Tail(p))[i]
  <2>1. i + 1 \in 1 .. Len(p)
    BY <1>1
  <2>2. Evs(p)[i + 1] = p[i + 1].events
    BY <2>1, EvsType
  <2> QED BY <1>1, <1>4, <1>5, <2>2
<1>7. Tail(Evs(p)) = Evs(Tail(p))
  BY <1>4, <1>5, <1>6, SeqEqual
<1>8. FlattenSeq(Evs(p)) = Head(Evs(p)) \o FlattenSeq(Tail(Evs(p)))
  BY <1>2, FlattenFront
<1> QED BY <1>3, <1>7, <1>8 DEF AllOf

\* The first batch cut short.
LEMMA AllCut ==
    ASSUME NEW p \in Seq(Batch), p # <<>>, NEW b \in Batch
    PROVE  /\ [p EXCEPT ![1] = b] \in Seq(Batch) /\ Len([p EXCEPT ![1] = b]) = Len(p)
           /\ Head([p EXCEPT ![1] = b]) = b
           /\ \A i \in 2 .. Len(p) : [p EXCEPT ![1] = b][i] = p[i]
           /\ AllOf([p EXCEPT ![1] = b]) = b.events \o AllOf(Tail(p))
<1> DEFINE q == [p EXCEPT ![1] = b]
<1>1. Len(p) \in Nat \ {0} /\ DOMAIN p = 1 .. Len(p)
  BY EmptySeq, LenProperties
<1>2. /\ q \in Seq(Batch) /\ Len(q) = Len(p)
      /\ \A j \in 1 .. Len(p) : q[j] = IF j = 1 THEN b ELSE p[j]
  <2>1. 1 \in 1 .. Len(p)
    BY <1>1
  <2> QED BY <2>1, ExceptSeq
<1> HIDE DEF q
<1>3. q # <<>> /\ Head(q) = b
  BY <1>1, <1>2, EmptySeq
<1>4. /\ Tail(q) \in Seq(Batch) /\ Len(Tail(q)) = Len(p) - 1
      /\ \A i \in 1 .. Len(p) - 1 : Tail(q)[i] = q[i + 1]
  BY <1>2, <1>3, HeadTailProperties
<1>5. /\ Tail(p) \in Seq(Batch) /\ Len(Tail(p)) = Len(p) - 1
      /\ \A i \in 1 .. Len(p) - 1 : Tail(p)[i] = p[i + 1]
  BY HeadTailProperties
<1>6. \A i \in 1 .. Len(p) - 1 : Tail(q)[i] = Tail(p)[i]
  BY <1>1, <1>2, <1>4, <1>5
<1>7. Tail(q) = Tail(p)
  BY <1>4, <1>5, <1>6, SeqEqual
<1>8. AllOf(q) = Head(q).events \o AllOf(Tail(q))
  BY <1>2, <1>3, AllFront
<1>9. \A i \in 2 .. Len(p) : q[i] = p[i]
  BY <1>1, <1>2
<1> QED BY <1>2, <1>3, <1>7, <1>8, <1>9 DEF q

\* What processEvents makes of a batch: events with the numbers that follow,
\* no more than were posted, and wake-up ones only from a wake-up sensor.
LEMMA EventsFacts ==
    ASSUME NEW b \in Seq(Kinds), posted \in Nat, posted + Len(b) <= MaxEvents
    PROVE  /\ processEvents(b) \in Seq(Event) /\ Len(processEvents(b)) <= Len(b)
           /\ \A i \in 1 .. Len(processEvents(b)) : processEvents(b)[i].id = posted + i
           /\ (\A i \in DOMAIN b : b[i] = "plain") => Wakes(processEvents(b)) = 0
<1> DEFINE Short == {x \in Seq(Kinds) : Len(x) <= 1}
           pieces == [i \in DOMAIN b |-> IF b[i] = "still" THEN <<>> ELSE <<b[i]>>]
           kept == FlattenSeq(pieces)
           events == processEvents(b)
<1>1. DOMAIN b = 1 .. Len(b) /\ Len(b) \in Nat /\ \A i \in 1 .. Len(b) : b[i] \in Kinds
  BY LenProperties, ElementOfSeq
<1>2. \A i \in 1 .. Len(b) : pieces[i] \in Short
  BY <1>1
<1>3. pieces \in Seq(Short) /\ Len(pieces) = Len(b)
  <2>1. pieces = [i \in 1 .. Len(b) |-> pieces[i]]
    BY <1>1
  <2> HIDE DEF pieces, Short
  <2> QED BY <1>1, <1>2, <2>1
<1>4. kept \in Seq(Kinds) /\ Len(kept) <= Len(b)
  <2>1. Short \subseteq Seq(Kinds) /\ \A x \in Short : Len(x) <= 1
    OBVIOUS
  <2> HIDE DEF pieces, Short
  <2>2. pieces \in Seq(Seq(Kinds))
    BY <1>3, <2>1, SeqMonotonic
  <2>3. kept \in Seq(Kinds)
    BY <2>2, FlattenType
  <2>4. Len(kept) <= Len(pieces)
    BY <1>3, <2>1, FlattenShort
  <2> QED BY <1>3, <2>3, <2>4
<1>5. events = [i \in DOMAIN kept |-> [id |-> posted + i, wake |-> kept[i] = "wake"]]
  BY DEF processEvents
<1> HIDE DEF kept, events
<1>6. DOMAIN kept = 1 .. Len(kept) /\ Len(kept) \in Nat
  BY <1>4, LenProperties
<1>7. ASSUME NEW i \in 1 .. Len(kept)
      PROVE  events[i] = [id |-> posted + i, wake |-> kept[i] = "wake"] /\ events[i] \in Event
  <2>1. events[i] = [id |-> posted + i, wake |-> kept[i] = "wake"]
    BY <1>5, <1>6
  <2>2. posted + i \in 1 .. MaxEvents
    BY <1>1, <1>4, <1>6, EventsAssumption
  <2>3. (kept[i] = "wake") \in BOOLEAN
    OBVIOUS
  <2>4. [id |-> posted + i, wake |-> kept[i] = "wake"] \in Event
    BY <2>2, <2>3, Zenon DEF Event
  <2> QED BY <2>1, <2>4
<1>8. events \in Seq(Event) /\ Len(events) = Len(kept)
  <2>1. events = [i \in 1 .. Len(kept) |-> events[i]]
    BY <1>5, <1>6
  <2>2. \A i \in 1 .. Len(kept) : events[i] \in Event
    BY <1>7
  <2> QED BY <1>6, <2>1, <2>2
<1>9. ASSUME \A i \in DOMAIN b : b[i] = "plain" PROVE Wakes(events) = 0
  <2>1. ASSUME NEW i \in 1 .. Len(b) PROVE pieces[i] \in Seq({"plain"})
    <3>1. b[i] = "plain" /\ i \in DOMAIN b
      BY <1>1, <1>9
    <3>2. pieces[i] = <<"plain">>
      BY <3>1
    <3>3. <<"plain">> \in Seq({"plain"})
      OBVIOUS
    <3> HIDE DEF pieces
    <3> QED BY <3>2, <3>3
  <2>2. pieces = [i \in 1 .. Len(b) |-> pieces[i]]
    BY <1>1
  <2> HIDE DEF pieces
  <2>3. pieces \in Seq(Seq({"plain"}))
    BY <1>1, <2>1, <2>2
  <2>4. kept \in Seq({"plain"})
    BY <2>3, FlattenType DEF kept
  <2>5. \A i \in 1 .. Len(kept) : kept[i] = "plain"
    BY <2>4, ElementOfSeq
  <2>6. ASSUME NEW i \in DOMAIN events PROVE ~events[i].wake
    <3>1. i \in 1 .. Len(kept)
      BY <1>8, LenProperties
    <3>2. events[i] = [id |-> posted + i, wake |-> kept[i] = "wake"]
      BY <1>7, <3>1
    <3>3. events[i].wake = (kept[i] = "wake")
      BY <3>2
    <3> QED BY <2>5, <3>1, <3>3
  <2> QED BY <1>8, <2>6, WakesNone
<1>10. ASSUME NEW i \in 1 .. Len(events) PROVE events[i].id = posted + i
  <2>1. events[i] = [id |-> posted + i, wake |-> kept[i] = "wake"]
    BY <1>7, <1>8
  <2> QED BY <2>1
<1> QED BY <1>4, <1>8, <1>9, <1>10 DEF events

-----------------------------------------------------------------------------
(* How events move *)

\* What a thread posts, the part that it writes itself, and what it leaves to
\* the pending queue.
Posts(s) == processEvents(poster[s].batch)
Written(s) == SubSeq(Posts(s), 1, Direct(Posts(s)))
Left(s) == SubSeq(Posts(s), Direct(Posts(s)) + 1, Len(Posts(s)))

\* The events that the writer has taken from the front of the queue.
Taken == SubSeq(front.events, 1, writer.n)

\* The pending events, those of them that are not yet written, and the front.
LEMMA PendingFacts ==
    ASSUME QueueIInv
    PROVE  /\ AllPending = AllOf(pending) /\ AllPending \in Seq(Event)
           /\ FromPending \in Seq(Event)
           /\ pending = <<>> => FromPending = <<>> /\ AllPending = <<>>
           /\ pending # <<>> => front \in Batch
           /\ writer.at # "wait" =>
                /\ writer.n \in 1 .. Len(front.events) /\ writer.n \in 0 .. Len(AllPending)
                /\ Taken \in Seq(Event) /\ Len(Taken) = writer.n
                /\ AllPending = Taken \o SubSeq(AllPending, writer.n + 1, Len(AllPending))
<1>1. pending \in Seq(Batch)
  BY DEF QueueIInv, TypeOK, Batch
<1>2. AllPending = AllOf(pending)
  BY DEF AllPending, AllOf, Evs
<1>3. AllPending \in Seq(Event) /\ Len(AllPending) \in Nat
  BY <1>1, <1>2, AllType, LenProperties
<1>4. pending # <<>> => front \in Batch
  BY <1>1, HeadTailProperties DEF front
<1>5. ASSUME writer.at # "wait"
      PROVE  /\ writer.n \in 1 .. Len(front.events) /\ writer.n \in 0 .. Len(AllPending)
             /\ Taken \in Seq(Event) /\ Len(Taken) = writer.n
             /\ AllPending = Taken \o SubSeq(AllPending, writer.n + 1, Len(AllPending))
  <2>1. pending # <<>> /\ writer.n = Smaller(Len(front.events), QueueSize)
    BY <1>5 DEF QueueIInv, WriterInv
  <2>2. front.events \in Seq(Event)
    BY <1>4, <2>1 DEF Batch
  <2>3. front.events # <<>>
    <3>1. 1 \in DOMAIN pending /\ Head(pending) = pending[1]
      BY <1>1, <2>1, LenProperties, EmptySeq
    <3> QED BY <3>1 DEF QueueIInv, PendingInv, front
  <2>4. Len(front.events) \in Nat \ {0}
    BY <2>2, <2>3, EmptySeq
  <2>5. writer.n \in 1 .. Len(front.events)
    BY <2>1, <2>4, EventsAssumption DEF Smaller
  <2>6. Tail(pending) \in Seq(Batch) /\ AllPending = front.events \o AllOf(Tail(pending))
    BY <1>1, <1>2, <2>1, AllFront, HeadTailProperties DEF front
  <2>7. AllOf(Tail(pending)) \in Seq(Event)
    BY <2>6, AllType
  <2>8. Len(AllPending) = Len(front.events) + Len(AllOf(Tail(pending)))
        /\ Len(AllOf(Tail(pending))) \in Nat
    BY <2>2, <2>6, <2>7, ConcatProperties, LenProperties
  <2>9. writer.n \in 0 .. Len(AllPending) /\ writer.n \in 0 .. Len(front.events)
    BY <2>4, <2>5, <2>8
  <2>10. SubSeq(AllPending, 1, writer.n) = Taken
    BY <2>2, <2>6, <2>7, <2>9, CutConcat DEF Taken
  <2>11. Taken \in Seq(Event) /\ Len(Taken) = writer.n
    BY <2>2, <2>9, Cut DEF Taken
  <2>12. AllPending = SubSeq(AllPending, 1, writer.n)
                        \o SubSeq(AllPending, writer.n + 1, Len(AllPending))
    BY <1>3, <2>9, Cut
  <2> QED BY <2>5, <2>9, <2>10, <2>11, <2>12
<1>6. FromPending \in Seq(Event)
  <2>1. CASE writer.at = "written"
    <3>1. writer.n \in 0 .. Len(AllPending)
      BY <1>5, <2>1
    <3>2. SubSeq(AllPending, writer.n + 1, Len(AllPending)) \in Seq(Event)
      BY <1>3, <3>1, Cut
    <3> QED BY <2>1, <3>2 DEF FromPending
  <2>2. CASE writer.at # "written"
    BY <1>3, <2>2 DEF FromPending
  <2> QED BY <2>1, <2>2
<1>7. pending = <<>> => FromPending = <<>> /\ AllPending = <<>>
  <2> SUFFICES ASSUME pending = <<>> PROVE FromPending = <<>> /\ AllPending = <<>>
    OBVIOUS
  <2>1. AllPending = <<>>
    BY <1>2, AllEmpty
  <2>2. writer.at = "wait"
    BY DEF QueueIInv, WriterInv
  <2> QED BY <2>1, <2>2 DEF FromPending
<1> QED BY <1>2, <1>3, <1>4, <1>5, <1>6, <1>7

\* A batch on its way: what is written at once fits, nothing is written at
\* once behind pending events, and the rest is what is left.
LEMMA PostFacts ==
    ASSUME QueueIInv, NEW s \in SubHals, poster[s].at = "ready",
           posted + Len(poster[s].batch) <= MaxEvents
    PROVE  /\ Len(poster[s].batch) \in Nat
           /\ Posts(s) \in Seq(Event) /\ Len(Posts(s)) <= Len(poster[s].batch)
           /\ \A i \in 1 .. Len(Posts(s)) : Posts(s)[i].id = posted + i
           /\ ~poster[s].locked => Wakes(Posts(s)) = 0
           /\ Written(s) \in Seq(Event) /\ Left(s) \in Seq(Event)
           /\ Posts(s) = Written(s) \o Left(s)
           /\ Len(eventQueue) + Len(Written(s)) <= QueueSize
           /\ pending # <<>> => Written(s) = <<>>
<1>1. poster[s].batch \in Seq(Kinds)
  <2>1. poster[s].batch \in Batches \cup {<<>>}
    BY DEF QueueIInv, TypeOK
  <2>2. <<>> \in Seq(Kinds)
    OBVIOUS
  <2> QED BY <2>1, <2>2, EventsAssumption
<1>2. posted \in Nat /\ Len(poster[s].batch) \in Nat
  BY <1>1, LenProperties DEF QueueIInv, TypeOK
<1>3. /\ Posts(s) \in Seq(Event) /\ Len(Posts(s)) <= Len(poster[s].batch)
      /\ \A i \in 1 .. Len(Posts(s)) : Posts(s)[i].id = posted + i
      /\ (\A i \in DOMAIN poster[s].batch : poster[s].batch[i] = "plain")
            => Wakes(Posts(s)) = 0
  BY <1>1, <1>2, EventsFacts DEF Posts
<1>4. ~poster[s].locked => Wakes(Posts(s)) = 0
  BY <1>3 DEF QueueIInv, PosterInv
<1>5. Len(Posts(s)) \in Nat /\ Len(eventQueue) \in Nat /\ Len(eventQueue) <= QueueSize
  BY <1>3, LenProperties DEF QueueIInv, TypeOK
<1>6. Direct(Posts(s)) \in 0 .. Len(Posts(s)) /\ Len(eventQueue) + Direct(Posts(s)) <= QueueSize
  BY <1>5, EventsAssumption DEF Direct, Smaller
<1>7. /\ Written(s) \in Seq(Event) /\ Left(s) \in Seq(Event)
      /\ Posts(s) = Written(s) \o Left(s) /\ Len(Written(s)) = Direct(Posts(s))
  BY <1>3, <1>6, Cut DEF Written, Left
<1>8. pending # <<>> => Written(s) = <<>>
  <2>1. pending # <<>> => Len(Written(s)) = 0
    BY <1>7 DEF Direct
  <2> QED BY <1>7, <2>1, EmptySeq
<1> QED BY <1>2, <1>3, <1>4, <1>6, <1>7, <1>8

\* postEvents appends what is left to the pending events, or drops it.
LEMMA PostFlow ==
    ASSUME QueueIInv, NEW s \in SubHals, postEvents(s)
    PROVE  IF Queued(Left(s))
           THEN AllPending' = AllPending \o Left(s) /\ FromPending' = FromPending \o Left(s)
           ELSE AllPending' = AllPending /\ FromPending' = FromPending
<1>1. poster[s].at = "ready" /\ posted + Len(poster[s].batch) <= MaxEvents /\ writer' = writer
  BY DEF postEvents
<1>2. Left(s) \in Seq(Event) /\ Posts(s) \in Seq(Event)
  BY <1>1, PostFacts
<1>3. CASE Queued(Left(s))
  <2> DEFINE b == [events |-> Left(s), wakeups |-> Wakes(Posts(s))]
  <2>1. pending' = Append(pending, b)
    BY <1>3 DEF postEvents, Posts, Left
  <2>2. b \in Batch /\ b.events = Left(s)
    BY <1>2, WakesType DEF Batch
  <2> HIDE DEF b
  <2>3. pending \in Seq(Batch)
    BY DEF QueueIInv, TypeOK, Batch
  <2>4. AllPending' = AllOf(pending')
    BY DEF AllPending, AllOf, Evs
  <2>5. AllPending' = AllPending \o Left(s)
    BY <2>1, <2>2, <2>3, <2>4, AllAppend, PendingFacts
  <2>6. CASE writer.at = "written"
    <3>1. writer.n \in 0 .. Len(AllPending) /\ AllPending \in Seq(Event)
      BY <2>6, PendingFacts
    <3>2. SubSeq(AllPending \o Left(s), writer.n + 1, Len(AllPending \o Left(s)))
            = SubSeq(AllPending, writer.n + 1, Len(AllPending)) \o Left(s)
      BY <1>2, <3>1, CutConcat
    <3>3. FromPending' = SubSeq(AllPending', writer.n + 1, Len(AllPending'))
      BY <1>1, <2>6 DEF FromPending
    <3>4. FromPending = SubSeq(AllPending, writer.n + 1, Len(AllPending))
      BY <2>6 DEF FromPending
    <3> QED BY <1>3, <2>5, <3>2, <3>3, <3>4
  <2>7. CASE writer.at # "written"
    <3>1. FromPending' = AllPending' /\ FromPending = AllPending
      BY <1>1, <2>7 DEF FromPending
    <3> QED BY <1>3, <2>5, <3>1
  <2> QED BY <2>6, <2>7
<1>4. CASE ~Queued(Left(s))
  <2>1. pending' = pending
    BY <1>4 DEF postEvents, Posts, Left
  <2> QED BY <1>1, <1>4, <2>1 DEF FromPending, AllPending
<1> QED BY <1>3, <1>4

\* A write, like a drop, takes the events off the front of what is not yet
\* written.
LEMMA WriteFlow ==
    ASSUME QueueIInv, writer.at = "write", writer' = [writer EXCEPT !.at = "written"],
           pending' = pending
    PROVE  /\ Taken \in Seq(Event) /\ FromPending' \in Seq(Event)
           /\ FromPending = Taken \o FromPending' /\ AllPending' = AllPending
<1>1. /\ AllPending \in Seq(Event) /\ Taken \in Seq(Event) /\ writer.n \in 0 .. Len(AllPending)
      /\ AllPending = Taken \o SubSeq(AllPending, writer.n + 1, Len(AllPending))
  BY PendingFacts
<1>2. SubSeq(AllPending, writer.n + 1, Len(AllPending)) \in Seq(Event)
  BY <1>1, Cut
<1>3. AllPending' = AllPending
  BY DEF AllPending
<1>4. writer'.at = "written" /\ writer'.n = writer.n
  BY DEF QueueIInv, TypeOK
<1>5. FromPending' = SubSeq(AllPending, writer.n + 1, Len(AllPending))
  BY <1>3, <1>4 DEF FromPending
<1>6. FromPending = AllPending
  BY DEF FromPending
<1> QED BY <1>1, <1>2, <1>3, <1>5, <1>6

\* Then they leave the pending queue, whether their batch goes with them or
\* is cut short; no batch is left empty.
LEMMA PopFlow ==
    ASSUME QueueIInv, writerPops
    PROVE  /\ pending' \in Seq(Batch) /\ PendingInv'
           /\ AllPending = Taken \o AllPending' /\ AllPending' \in Seq(Event)
           /\ FromPending' = FromPending
<1>1. writer.at = "written" /\ writer' = WriterIdle
  BY DEF writerPops
<1>2. /\ AllPending = AllOf(pending) /\ AllPending \in Seq(Event) /\ Taken \in Seq(Event)
      /\ front \in Batch /\ pending # <<>>
      /\ writer.n = Smaller(Len(front.events), QueueSize)
      /\ writer.n \in 1 .. Len(front.events) /\ Len(Taken) = writer.n
  BY <1>1, PendingFacts DEF QueueIInv, WriterInv
<1>3. pending \in Seq(Batch)
  BY DEF QueueIInv, TypeOK, Batch
<1>4. /\ front.events \in Seq(Event) /\ Len(front.events) \in Nat
      /\ Tail(pending) \in Seq(Batch) /\ AllOf(Tail(pending)) \in Seq(Event)
      /\ AllPending = front.events \o AllOf(Tail(pending))
  BY <1>2, <1>3, AllFront, AllType, HeadTailProperties, LenProperties DEF front, Batch
<1>5. AllPending' = AllOf(pending')
  BY DEF AllPending, AllOf, Evs
<1>6. /\ pending' \in Seq(Batch) /\ PendingInv'
      /\ AllPending = Taken \o AllPending'
  <2>1. CASE Len(front.events) > QueueSize
    <3> DEFINE rest == SubSeq(front.events, QueueSize + 1, Len(front.events))
    <3>1. writer.n = QueueSize /\ QueueSize \in 0 .. Len(front.events)
      BY <1>2, <1>4, <2>1, EventsAssumption DEF Smaller
    <3>2. /\ rest \in Seq(Event) /\ Len(rest) = Len(front.events) - QueueSize
          /\ front.events = Taken \o rest
      BY <1>4, <3>1, Cut DEF Taken
    <3> DEFINE b == [front EXCEPT !.events = rest]
    <3>3. pending' = [pending EXCEPT ![1] = b]
      <4>1. pending[1] = front
        BY <1>2, <1>3 DEF front
      <4> QED BY <2>1, <4>1 DEF writerPops
    <3>4. b \in Batch /\ b.events = rest
      BY <1>2, <3>2 DEF Batch
    <3> HIDE DEF rest, b
    <3>5. /\ pending' \in Seq(Batch) /\ Len(pending') = Len(pending)
          /\ Head(pending').events = rest
          /\ \A i \in 2 .. Len(pending) : pending'[i] = pending[i]
          /\ AllOf(pending') = rest \o AllOf(Tail(pending))
      <4>1. pending \in Seq(Batch) /\ pending # <<>> /\ b \in Batch
        BY <1>2, <1>3, <3>4
      <4>2. /\ [pending EXCEPT ![1] = b] \in Seq(Batch)
            /\ Len([pending EXCEPT ![1] = b]) = Len(pending)
            /\ Head([pending EXCEPT ![1] = b]) = b
            /\ \A i \in 2 .. Len(pending) : [pending EXCEPT ![1] = b][i] = pending[i]
            /\ AllOf([pending EXCEPT ![1] = b]) = b.events \o AllOf(Tail(pending))
        BY ONLY <4>1, AllCut, Zenon
      <4> QED BY ONLY <3>3, <3>4, <4>2, Zenon
    <3>6. rest # <<>>
      BY <1>4, <2>1, <3>2, EventsAssumption, EmptySeq
    <3>7. PendingInv'
      <4> SUFFICES ASSUME NEW i \in DOMAIN pending' PROVE pending'[i].events # <<>>
        BY DEF PendingInv
      <4>1. /\ i \in 1 .. Len(pending) /\ i \in DOMAIN pending /\ Head(pending') = pending'[1]
            /\ Len(pending) \in Nat
        BY <1>2, <1>3, <3>5, LenProperties
      <4>2. CASE i = 1
        BY <3>5, <3>6, <4>1, <4>2
      <4>3. CASE i # 1
        <5>1. i \in 2 .. Len(pending)
          BY <4>1, <4>3
        <5> QED BY <3>5, <4>1, <5>1 DEF QueueIInv, PendingInv
      <4> QED BY <4>2, <4>3
    <3>8. (Taken \o rest) \o AllOf(Tail(pending)) = Taken \o (rest \o AllOf(Tail(pending)))
      <4>1. Taken \in Seq(Event) /\ rest \in Seq(Event) /\ AllOf(Tail(pending)) \in Seq(Event)
        BY <1>2, <1>4, <3>2
      <4> QED BY ONLY <4>1, ConcatAssociative
    <3> QED BY <1>4, <1>5, <3>2, <3>5, <3>7, <3>8
  <2>2. CASE ~(Len(front.events) > QueueSize)
    <3>1. writer.n = Len(front.events)
      BY <1>2, <1>4, <2>2, EventsAssumption DEF Smaller
    <3>2. Taken = front.events
      BY <1>4, <3>1, SubSeqFull DEF Taken
    <3>3. pending' = Tail(pending)
      BY <2>2 DEF writerPops
    <3>4. PendingInv'
      <4> SUFFICES ASSUME NEW i \in DOMAIN pending' PROVE pending'[i].events # <<>>
        BY DEF PendingInv
      <4>1. /\ pending'[i] = pending[i + 1] /\ i + 1 \in DOMAIN pending
        <5>1. i \in 1 .. Len(Tail(pending)) /\ Len(Tail(pending)) = Len(pending) - 1
              /\ Len(pending) \in Nat /\ DOMAIN pending = 1 .. Len(pending)
          BY <1>2, <1>3, <1>4, <3>3, LenProperties, HeadTailProperties
        <5>2. Tail(pending)[i] = pending[i + 1]
          BY <1>2, <1>3, <5>1, HeadTailProperties
        <5> QED BY <3>3, <5>1, <5>2
      <4> QED BY <4>1 DEF QueueIInv, PendingInv
    <3> QED BY <1>4, <1>5, <3>2, <3>3, <3>4
  <2> QED BY <2>1, <2>2
<1>7. AllPending' \in Seq(Event)
  BY <1>5, <1>6, AllType
<1>8. FromPending' = AllPending'
  BY <1>1 DEF FromPending, WriterIdle
<1>9. FromPending = SubSeq(AllPending, writer.n + 1, Len(AllPending))
  BY <1>1 DEF FromPending
<1>10. SubSeq(AllPending, writer.n + 1, Len(AllPending)) = AllPending'
  BY <1>2, <1>6, <1>7, ConcatParts
<1> QED BY <1>6, <1>7, <1>8, <1>9, <1>10

-----------------------------------------------------------------------------
(* The inductive step *)

\* What the reference count and the wakelock are after any change of them.
LEMMA LockStep ==
    ASSUME QueueIInv, NEW d \in Nat, NEW v,
           Increment(d) \/ Decrement(d, v) \/ UNCHANGED lock
    PROVE  refCount' \in Nat /\ held' \in BOOLEAN /\ expired' \in BOOLEAN /\ HeldInv'
<1>1. refCount \in Nat /\ held \in BOOLEAN /\ expired \in BOOLEAN /\ HeldInv
  BY DEF QueueIInv, TypeOK
<1>2. CASE Increment(d)
  <2>1. refCount' \in Nat /\ expired' = FALSE
    BY <1>1, <1>2 DEF Increment
  <2>2. held' = (held \/ refCount = 0)
    BY <1>2 DEF Increment
  <2>3. refCount > 0 \/ refCount = 0
    BY <1>1
  <2> QED BY <1>1, <2>1, <2>2, <2>3, Zenon DEF HeldInv
<1>3. CASE Decrement(d, v)
  <2>1. expired' = expired
    BY <1>3 DEF Decrement
  <2>2. CASE refCount = 0 \/ ~v
    BY <1>1, <1>3, <2>1, <2>2, Zenon DEF Decrement, HeldInv
  <2>3. CASE ~(refCount = 0 \/ ~v)
    <3>1. refCount' = IF d < refCount THEN refCount - d ELSE 0
      BY <1>3, <2>3, Zenon DEF Decrement
    <3>2. refCount' \in Nat /\ (refCount' > 0 => refCount > 0)
      BY <1>1, <3>1
    <3>3. held' = (held /\ refCount' > 0)
      BY <1>3, <2>3, Zenon DEF Decrement
    <3> QED BY <1>1, <2>1, <3>2, <3>3, Zenon DEF HeldInv
  <2> QED BY <2>2, <2>3
<1>4. CASE UNCHANGED lock
  BY <1>1, <1>4, Zenon DEF lock, HeldInv
<1> QED BY <1>2, <1>3, <1>4

\* What holds of the queues and the writer while neither changes.
LEMMA FrameQueues ==
    ASSUME QueueIInv, UNCHANGED <<pending, sizePending, writer>>
    PROVE  /\ SizeExact' /\ PendingInv' /\ WriterInv'
           /\ FromPending' = FromPending
BY DEF QueueIInv, SizeExact, PendingInv, WriterInv, AllPending, FromPending, front

\* A sub-HAL's thread that begins a batch.
LEMMA BeginStep ==
    ASSUME QueueIInv, NEW s \in SubHals, Begin(s)
    PROVE  QueueIInv'
<1>1. PICK b \in Batches :
        LET wakeup == \E i \in DOMAIN b : b[i] # "plain" IN
        /\ poster' = [poster EXCEPT ![s] =
                        [at |-> "ready", batch |-> b, locked |-> wakeup, valid |-> wakeup]]
        /\ IF wakeup THEN Increment(1) ELSE UNCHANGED lock
  BY DEF Begin
<1> DEFINE wakeup == \E i \in DOMAIN b : b[i] # "plain"
<1>2. wakeup \in BOOLEAN
  OBVIOUS
<1>3. poster' = [poster EXCEPT ![s] =
                   [at |-> "ready", batch |-> b, locked |-> wakeup, valid |-> wakeup]]
  BY <1>1
<1>4. Increment(1) \/ UNCHANGED lock
  BY <1>1
<1>5. ~wakeup => \A i \in DOMAIN b : b[i] = "plain"
  OBVIOUS
<1> HIDE DEF wakeup
<1>6. refCount' \in Nat /\ held' \in BOOLEAN /\ expired' \in BOOLEAN /\ HeldInv'
  BY <1>4, LockStep
<1>7. UNCHANGED <<queues, writer, waker, framework, posted, overReleased>>
  BY DEF Begin
<1>8. SizeExact' /\ PendingInv' /\ WriterInv'
  BY <1>7, FrameQueues DEF queues
<1>9. poster' \in [SubHals -> [at: {"idle", "ready", "posted"}, batch: Batches \cup {<<>>},
                               locked: BOOLEAN, valid: BOOLEAN]]
  <2>1. [at |-> "ready", batch |-> b, locked |-> wakeup, valid |-> wakeup]
          \in [at: {"idle", "ready", "posted"}, batch: Batches \cup {<<>>},
               locked: BOOLEAN, valid: BOOLEAN]
    BY <1>2, Zenon
  <2> QED BY <1>3, <2>1 DEF QueueIInv, TypeOK
<1>10. PosterInv'
  <2> SUFFICES ASSUME NEW r \in SubHals
               PROVE  /\ poster'[r].at = "idle" => ~poster'[r].valid
                      /\ poster'[r].at = "ready" /\ ~poster'[r].locked
                           => \A i \in DOMAIN poster'[r].batch : poster'[r].batch[i] = "plain"
    BY DEF PosterInv
  <2>1. CASE r = s
    <3>1. poster'[r] = [at |-> "ready", batch |-> b, locked |-> wakeup, valid |-> wakeup]
      BY <1>3, <2>1 DEF QueueIInv, TypeOK
    <3> QED BY <1>5, <3>1
  <2>2. CASE r # s
    <3>1. poster'[r] = poster[r]
      BY <1>3, <2>2 DEF QueueIInv, TypeOK
    <3> QED BY <3>1 DEF QueueIInv, PosterInv
  <2> QED BY <2>1, <2>2
<1>11. TypeOK'
  BY <1>6, <1>7, <1>9 DEF QueueIInv, TypeOK, queues, framework
<1> QED BY <1>6, <1>8, <1>10, <1>11 DEF QueueIInv

\* Its post: what is written at once fits, and the size of the pending queue
\* grows by what is queued.
LEMMA PostStep ==
    ASSUME QueueIInv, NEW s \in SubHals, postEvents(s)
    PROVE  QueueIInv'
<1>1. /\ poster[s].at = "ready" /\ posted + Len(poster[s].batch) <= MaxEvents
      /\ IF poster[s].locked THEN Increment(Wakes(Posts(s))) ELSE UNCHANGED lock
      /\ eventQueue' = eventQueue \o Written(s)
      /\ IF Queued(Left(s))
         THEN /\ pending' = Append(pending, [events |-> Left(s), wakeups |-> Wakes(Posts(s))])
              /\ sizePending' = sizePending + Len(Left(s))
         ELSE UNCHANGED <<pending, sizePending>>
      /\ posted' = posted + Len(poster[s].batch)
      /\ poster' = [poster EXCEPT ![s].at = "posted", ![s].batch = <<>>]
      /\ UNCHANGED <<writer, waker, framework, overReleased>>
  BY DEF postEvents, Posts, Written, Left
<1>2. /\ Len(poster[s].batch) \in Nat
      /\ Posts(s) \in Seq(Event) /\ Written(s) \in Seq(Event) /\ Left(s) \in Seq(Event)
      /\ Len(eventQueue) + Len(Written(s)) <= QueueSize
  BY <1>1, PostFacts
<1>3. Wakes(Posts(s)) \in Nat /\ Len(Left(s)) \in Nat
  BY <1>2, WakesType, LenProperties
<1>4. refCount' \in Nat /\ held' \in BOOLEAN /\ expired' \in BOOLEAN /\ HeldInv'
  <2>1. Increment(Wakes(Posts(s))) \/ UNCHANGED lock
    BY <1>1, Zenon
  <2> QED BY <1>3, <2>1, LockStep
<1>5. eventQueue' \in Seq(Event) /\ Len(eventQueue') <= QueueSize
  <2>1. eventQueue \in Seq(Event)
    BY DEF QueueIInv, TypeOK
  <2> QED BY <1>1, <1>2, <2>1, ConcatProperties
<1>6. /\ pending \in Seq(Batch) /\ AllPending \in Seq(Event)
      /\ sizePending = Len(AllPending) /\ sizePending \in 0 .. MaxPending
  BY PendingFacts DEF QueueIInv, TypeOK, SizeExact, Batch
<1>7. /\ pending' \in Seq(Batch) /\ sizePending' \in 0 .. MaxPending
      /\ SizeExact' /\ PendingInv' /\ WriterInv'
  <2>1. CASE Queued(Left(s))
    <3> DEFINE b == [events |-> Left(s), wakeups |-> Wakes(Posts(s))]
    <3>1. b \in Batch /\ b.events = Left(s) /\ Left(s) # <<>>
      BY <1>2, <1>3, <2>1 DEF Batch, Queued
    <3>2. pending' = Append(pending, b) /\ sizePending' = sizePending + Len(Left(s))
      BY <1>1, <2>1
    <3> HIDE DEF b
    <3>3. /\ pending' \in Seq(Batch) /\ Len(pending') = Len(pending) + 1
          /\ \A i \in 1 .. Len(pending) : pending'[i] = pending[i]
          /\ pending'[Len(pending) + 1] = b /\ Len(pending) \in Nat
      BY <1>6, <3>1, <3>2, AppendProperties, LenProperties
    <3>4. SizeExact'
      <4>1. AllPending' = AllPending \o Left(s)
        BY <2>1, PostFlow
      <4>2. Len(AllPending \o Left(s)) = Len(AllPending) + Len(Left(s))
        BY <1>2, <1>6, ConcatProperties
      <4> QED BY <1>6, <3>2, <4>1, <4>2 DEF SizeExact
    <3>5. PendingInv'
      <4> SUFFICES ASSUME NEW i \in DOMAIN pending' PROVE pending'[i].events # <<>>
        BY DEF PendingInv
      <4>1. i \in 1 .. Len(pending) + 1 /\ DOMAIN pending = 1 .. Len(pending)
        BY <1>6, <3>3, LenProperties
      <4>2. CASE i = Len(pending) + 1
        BY <3>1, <3>3, <4>2
      <4>3. CASE i # Len(pending) + 1
        <5>1. i \in 1 .. Len(pending)
          BY <3>3, <4>1, <4>3
        <5> QED BY <3>3, <4>1, <5>1 DEF QueueIInv, PendingInv
      <4> QED BY <4>2, <4>3
    <3>6. WriterInv'
      <4> SUFFICES ASSUME writer.at # "wait"
                   PROVE  pending' # <<>>
                          /\ writer.n = Smaller(Len(Head(pending').events), QueueSize)
        BY <1>1 DEF WriterInv, front
      <4>1. pending # <<>> /\ writer.n = Smaller(Len(Head(pending).events), QueueSize)
        BY DEF QueueIInv, WriterInv, front
      <4>2. pending' # <<>> /\ Head(pending') = Head(pending)
        BY <1>6, <3>1, <3>2, <4>1, HeadTailAppend, AppendProperties
      <4> QED BY <4>1, <4>2
    <3>7. sizePending' \in 0 .. MaxPending
      BY <1>3, <1>6, <2>1, <3>2, EventsAssumption DEF Queued
    <3> QED BY <3>3, <3>4, <3>5, <3>6, <3>7
  <2>2. CASE ~Queued(Left(s))
    <3>1. UNCHANGED <<pending, sizePending, writer>>
      BY <1>1, <2>2
    <3> QED BY <1>6, <3>1, FrameQueues
  <2> QED BY <2>1, <2>2
<1>8. /\ poster' \in [SubHals -> [at: {"idle", "ready", "posted"}, batch: Batches \cup {<<>>},
                                  locked: BOOLEAN, valid: BOOLEAN]]
      /\ \A r \in SubHals : poster'[r] = poster[r] \/ poster'[r].at = "posted"
  <2>1. poster' = [poster EXCEPT ![s] = [poster[s] EXCEPT !.at = "posted", !.batch = <<>>]]
    BY <1>1
  <2>2. poster \in [SubHals -> [at: {"idle", "ready", "posted"}, batch: Batches \cup {<<>>},
                                locked: BOOLEAN, valid: BOOLEAN]]
    BY DEF QueueIInv, TypeOK
  <2> QED BY <2>1, <2>2
<1>9. PosterInv'
  BY <1>8 DEF QueueIInv, PosterInv
<1>10. TypeOK'
  <2>1. posted' \in 0 .. MaxEvents
    <3>1. posted' = posted + Len(poster[s].batch) /\ posted \in Nat /\ MaxEvents \in Nat
      BY <1>1, EventsAssumption DEF QueueIInv, TypeOK
    <3>2. Len(poster[s].batch) \in Nat /\ posted + Len(poster[s].batch) <= MaxEvents
      BY <1>1, <1>2
    <3> QED BY ONLY <3>1, <3>2
  <2>2. pending' \in Seq([events: Seq(Event), wakeups: Nat])
    BY <1>7 DEF Batch
  <2> QED BY <1>1, <1>4, <1>5, <1>7, <1>8, <2>1, <2>2 DEF QueueIInv, TypeOK, framework
<1> QED BY <1>4, <1>7, <1>9, <1>10 DEF QueueIInv

\* Its end.
LEMMA EndStep ==
    ASSUME QueueIInv, NEW s \in SubHals, End(s)
    PROVE  QueueIInv'
<1>1. /\ IF poster[s].locked THEN Decrement(1, poster[s].valid) ELSE UNCHANGED lock
      /\ poster' = [poster EXCEPT ![s] = Idle]
      /\ UNCHANGED <<queues, writer, waker, framework, posted>>
      /\ overReleased' = (overReleased /\ ~Settled')
  BY DEF End
<1>2. refCount' \in Nat /\ held' \in BOOLEAN /\ expired' \in BOOLEAN /\ HeldInv'
  <2>1. Decrement(1, poster[s].valid) \/ UNCHANGED lock
    BY <1>1, Zenon
  <2> QED BY <2>1, LockStep
<1>3. SizeExact' /\ PendingInv' /\ WriterInv'
  BY <1>1, FrameQueues DEF queues
<1>4. poster' \in [SubHals -> [at: {"idle", "ready", "posted"}, batch: Batches \cup {<<>>},
                               locked: BOOLEAN, valid: BOOLEAN]]
  BY <1>1 DEF QueueIInv, TypeOK, Idle
<1>5. PosterInv'
  <2>1. \A r \in SubHals : poster'[r] = poster[r] \/ poster'[r] = Idle
    BY <1>1 DEF QueueIInv, TypeOK
  <2> QED BY <2>1 DEF QueueIInv, PosterInv, Idle
<1>6. overReleased' \in BOOLEAN
  BY <1>1, Zenon
<1>7. TypeOK'
  BY <1>1, <1>2, <1>4, <1>6 DEF QueueIInv, TypeOK, queues, framework
<1> QED BY <1>2, <1>3, <1>5, <1>7 DEF QueueIInv

\* The count that a failed write takes off.
LEMMA ReleasedType ==
    ASSUME QueueIInv, writer.at # "wait" PROVE Released \in Nat
<1>1. front.events \in Seq(Event) /\ writer.wakeups \in Nat
  BY PendingFacts DEF QueueIInv, WriterInv, TypeOK, Batch
<1>2. CASE Len(front.events) > QueueSize
  <2>1. QueueSize \in 0 .. Len(front.events)
    BY <1>1, <1>2, EventsAssumption, LenProperties
  <2>2. SubSeq(front.events, 1, QueueSize) \in Seq(Event)
    BY <1>1, <2>1, Cut
  <2>3. Wakes(SubSeq(front.events, 1, QueueSize)) \in Nat
    BY <2>2, WakesType
  <2> QED BY <1>2, <2>3 DEF Released
<1>3. CASE ~(Len(front.events) > QueueSize)
  BY <1>1, <1>3 DEF Released
<1> QED BY <1>2, <1>3

\* The pending-writes thread: what it has taken stays at the front of the
\* queue while the mutex is released, and the size shrinks by just that.
LEMMA WriterStep ==
    ASSUME QueueIInv, Writer
    PROVE  QueueIInv'
<1>1. CASE writerTake
  <2>1. /\ writer' = [at |-> "write", wakeups |-> front.wakeups,
                      n |-> Smaller(Len(front.events), QueueSize)]
        /\ pending # <<>>
        /\ UNCHANGED <<queues, lock, poster, waker, framework, posted, overReleased>>
    BY <1>1 DEF writerTake
  <2>2. front \in Batch
    BY <2>1, PendingFacts
  <2>3. Len(front.events) \in Nat /\ front.wakeups \in Nat
    BY <2>2, LenProperties DEF Batch
  <2>4. writer' \in [at: {"wait", "write", "written"}, n: 0 .. QueueSize, wakeups: Nat]
    BY <2>1, <2>3, EventsAssumption DEF Smaller
  <2>5. TypeOK'
    BY <2>1, <2>4 DEF QueueIInv, TypeOK, queues, lock, framework
  <2>6. SizeExact' /\ PendingInv' /\ PosterInv' /\ HeldInv'
    BY <2>1 DEF QueueIInv, SizeExact, AllPending, PendingInv, PosterInv, HeldInv, queues, lock
  <2>7. WriterInv'
    BY <2>1 DEF WriterInv, front, queues
  <2> QED BY <2>5, <2>6, <2>7 DEF QueueIInv
<1>2. CASE writerWrites
  <2>1. /\ writer.at = "write" /\ Len(eventQueue) + writer.n <= QueueSize
        /\ eventQueue' = eventQueue \o Taken
        /\ writer' = [writer EXCEPT !.at = "written"]
        /\ UNCHANGED <<pending, sizePending, lock, poster, waker, framework, posted,
                       overReleased>>
    BY <1>2 DEF writerWrites, Taken
  <2>2. Taken \in Seq(Event) /\ Len(Taken) = writer.n /\ eventQueue \in Seq(Event)
    BY <2>1, PendingFacts DEF QueueIInv, TypeOK
  <2>3. eventQueue' \in Seq(Event) /\ Len(eventQueue') <= QueueSize
    BY <2>1, <2>2, ConcatProperties
  <2>4. /\ writer' \in [at: {"wait", "write", "written"}, n: 0 .. QueueSize, wakeups: Nat]
        /\ writer'.n = writer.n
    BY <2>1 DEF QueueIInv, TypeOK
  <2>5. TypeOK'
    BY <2>1, <2>3, <2>4 DEF QueueIInv, TypeOK, lock, framework
  <2>6. SizeExact' /\ PendingInv' /\ PosterInv' /\ HeldInv'
    BY <2>1 DEF QueueIInv, SizeExact, AllPending, PendingInv, PosterInv, HeldInv, lock
  <2>7. WriterInv'
    BY <2>1, <2>4 DEF QueueIInv, WriterInv, front
  <2> QED BY <2>5, <2>6, <2>7 DEF QueueIInv
<1>3. CASE writerDrops
  <2>1. /\ writer.at = "write"
        /\ IF writer.wakeups > 0 THEN Decrement(Released, TRUE) ELSE UNCHANGED lock
        /\ writer' = [writer EXCEPT !.at = "written"]
        /\ UNCHANGED <<queues, poster, waker, framework, posted>>
    BY <1>3 DEF writerDrops
  <2>2. overReleased' \in BOOLEAN
    <3>1. overReleased' = (overReleased
                             \/ Released > Wakes(SubSeq(front.events, 1, writer.n)))
      BY <1>3 DEF writerDrops
    <3> QED BY <3>1, Zenon
  <2>3. Released \in Nat
    BY <2>1, ReleasedType
  <2>4. refCount' \in Nat /\ held' \in BOOLEAN /\ expired' \in BOOLEAN /\ HeldInv'
    <3>1. Decrement(Released, TRUE) \/ UNCHANGED lock
      BY <2>1, Zenon
    <3> QED BY <2>3, <3>1, LockStep
  <2>5. /\ writer' \in [at: {"wait", "write", "written"}, n: 0 .. QueueSize, wakeups: Nat]
        /\ writer'.n = writer.n
    BY <2>1 DEF QueueIInv, TypeOK
  <2>6. TypeOK'
    BY <2>1, <2>2, <2>4, <2>5 DEF QueueIInv, TypeOK, queues, framework
  <2>7. SizeExact' /\ PendingInv' /\ PosterInv'
    BY <2>1 DEF QueueIInv, SizeExact, AllPending, PendingInv, PosterInv, queues
  <2>8. WriterInv'
    BY <2>1, <2>5 DEF QueueIInv, WriterInv, front, queues
  <2> QED BY <2>4, <2>6, <2>7, <2>8 DEF QueueIInv
<1>4. CASE writerPops
  <2>1. /\ writer.at = "written" /\ sizePending' = sizePending - writer.n
        /\ writer' = WriterIdle
        /\ UNCHANGED <<eventQueue, lock, poster, waker, framework, posted, overReleased>>
    BY <1>4 DEF writerPops
  <2>2. /\ pending' \in Seq(Batch) /\ PendingInv'
        /\ AllPending = Taken \o AllPending' /\ AllPending' \in Seq(Event)
        /\ Taken \in Seq(Event) /\ Len(Taken) = writer.n
    BY <1>4, <2>1, PopFlow, PendingFacts
  <2>3. Len(AllPending) = writer.n + Len(AllPending') /\ Len(AllPending') \in Nat
        /\ writer.n \in Nat
    BY <2>2, ConcatProperties, LenProperties
  <2>4. SizeExact' /\ sizePending' \in 0 .. MaxPending
    <3>1. sizePending = Len(AllPending) /\ sizePending <= MaxPending
      BY DEF QueueIInv, SizeExact, TypeOK
    <3>2. sizePending' = Len(AllPending')
      BY <2>1, <2>3, <3>1
    <3>3. sizePending' \in 0 .. MaxPending
      BY <2>3, <3>1, <3>2, EventsAssumption
    <3> QED BY <3>2, <3>3 DEF SizeExact
  <2>5. WriterInv' /\ PosterInv' /\ HeldInv'
    BY <2>1 DEF QueueIInv, WriterInv, WriterIdle, PosterInv, HeldInv, lock
  <2>6. TypeOK'
    <3>1. pending' \in Seq([events: Seq(Event), wakeups: Nat])
      BY <2>2 DEF Batch
    <3>2. WriterIdle \in [at: {"wait", "write", "written"}, n: 0 .. QueueSize, wakeups: Nat]
      BY EventsAssumption DEF WriterIdle
    <3> QED BY <2>1, <2>4, <3>1, <3>2 DEF QueueIInv, TypeOK, lock, framework
  <2> QED BY <2>2, <2>4, <2>5, <2>6 DEF QueueIInv
<1> QED BY <1>1, <1>2, <1>3, <1>4 DEF Writer

\* The wakelock thread, the framework and time leave the event queues, but
\* for the framework's reads, alone.
LEMMA OtherStep ==
    ASSUME QueueIInv, Waker \/ ReadEvent \/ Acknowledge \/ Expire
    PROVE  QueueIInv'
<1>0. refCount \in Nat /\ wakeLockQueue \in Seq(Nat) /\ eventQueue \in Seq(Event)
      /\ unacked \in Nat
  BY DEF QueueIInv, TypeOK
<1>1. UNCHANGED <<pending, sizePending, writer, posted>>
  BY DEF Waker, wakerTimeout, wakerUnlocks, wakerReads, wakerGivesUp, ReadEvent, Acknowledge,
         Expire, queues
<1>2. SizeExact' /\ PendingInv' /\ WriterInv'
  BY <1>1, FrameQueues
<1>3. CASE wakerTimeout
  <2>0. overReleased' \in BOOLEAN
    BY <1>3, Zenon DEF wakerTimeout
  <2>1. /\ Decrement(refCount, TRUE)
        /\ poster' = [s \in SubHals |-> [poster[s] EXCEPT !.valid = FALSE]]
        /\ UNCHANGED <<eventQueue, waker, framework>>
    BY <1>3 DEF wakerTimeout, queues
  <2>2. refCount' \in Nat /\ held' \in BOOLEAN /\ expired' \in BOOLEAN /\ HeldInv'
    BY <1>0, <2>1, LockStep
  <2>3. poster' \in [SubHals -> [at: {"idle", "ready", "posted"}, batch: Batches \cup {<<>>},
                                 locked: BOOLEAN, valid: BOOLEAN]]
    <3> DEFINE Poster == [at: {"idle", "ready", "posted"}, batch: Batches \cup {<<>>},
                          locked: BOOLEAN, valid: BOOLEAN]
    <3>1. ASSUME NEW r \in Poster PROVE [r EXCEPT !.valid = FALSE] \in Poster
      OBVIOUS
    <3>2. \A s \in SubHals : poster[s] \in Poster
      BY DEF QueueIInv, TypeOK
    <3> HIDE DEF Poster
    <3>3. poster' \in [SubHals -> Poster]
      BY <2>1, <3>1, <3>2
    <3> QED BY <3>3 DEF Poster
  <2>4. \A s \in SubHals : /\ poster'[s].at = poster[s].at /\ poster'[s].batch = poster[s].batch
                           /\ poster'[s].locked = poster[s].locked /\ poster'[s].valid = FALSE
    BY <2>1 DEF QueueIInv, TypeOK
  <2>5. PosterInv'
    BY <2>4 DEF QueueIInv, PosterInv
  <2>6. TypeOK'
    BY <1>1, <2>0, <2>1, <2>2, <2>3 DEF QueueIInv, TypeOK, framework
  <2> QED BY <1>2, <2>2, <2>5, <2>6 DEF QueueIInv
<1>4. CASE wakerUnlocks \/ wakerGivesUp
  <2>1. /\ waker' \in {"wait", "read"}
        /\ UNCHANGED <<eventQueue, lock, poster, framework, overReleased>>
    BY <1>4 DEF wakerUnlocks, wakerGivesUp, queues
  <2>2. TypeOK' /\ PosterInv' /\ HeldInv'
    BY <1>1, <2>1 DEF QueueIInv, TypeOK, PosterInv, HeldInv, lock, framework
  <2> QED BY <1>2, <2>2 DEF QueueIInv
<1>5. CASE wakerReads
  <2>1. /\ wakeLockQueue # <<>> /\ Decrement(Head(wakeLockQueue), TRUE)
        /\ wakeLockQueue' = Tail(wakeLockQueue) /\ waker' = "wait"
        /\ UNCHANGED <<eventQueue, poster, unacked>>
    BY <1>5 DEF wakerReads, queues
  <2>2. Head(wakeLockQueue) \in Nat /\ Tail(wakeLockQueue) \in Seq(Nat)
    BY <1>0, <2>1, HeadTailProperties
  <2>3. refCount' \in Nat /\ held' \in BOOLEAN /\ expired' \in BOOLEAN /\ HeldInv'
    BY <2>1, <2>2, LockStep
  <2>4. overReleased' \in BOOLEAN
    BY <1>5, Zenon DEF wakerReads
  <2>5. TypeOK' /\ PosterInv'
    BY <1>1, <2>1, <2>2, <2>3, <2>4 DEF QueueIInv, TypeOK, PosterInv
  <2> QED BY <1>2, <2>3, <2>5 DEF QueueIInv
<1>6. CASE ReadEvent
  <2>1. /\ eventQueue # <<>> /\ eventQueue' = Tail(eventQueue)
        /\ unacked' = unacked + (IF Head(eventQueue).wake THEN 1 ELSE 0)
        /\ UNCHANGED <<lock, poster, waker, wakeLockQueue, overReleased>>
    BY <1>6 DEF ReadEvent
  <2>2. eventQueue' \in Seq(Event) /\ Len(eventQueue') <= QueueSize /\ unacked' \in Nat
    <3>1. Len(Tail(eventQueue)) = Len(eventQueue) - 1 /\ Tail(eventQueue) \in Seq(Event)
      BY <1>0, <2>1, HeadTailProperties
    <3>2. Len(eventQueue) \in Nat /\ Len(eventQueue) <= QueueSize
      BY <1>0, LenProperties DEF QueueIInv, TypeOK
    <3> QED BY <1>0, <2>1, <3>1, <3>2, EventsAssumption
  <2>3. TypeOK' /\ PosterInv' /\ HeldInv'
    BY <1>1, <2>1, <2>2 DEF QueueIInv, TypeOK, PosterInv, HeldInv, lock
  <2> QED BY <1>2, <2>3 DEF QueueIInv
<1>7. CASE Acknowledge
  <2>1. /\ wakeLockQueue' = Append(wakeLockQueue, unacked) /\ unacked' = 0
        /\ UNCHANGED <<eventQueue, lock, poster, waker, overReleased>>
    BY <1>7 DEF Acknowledge, queues
  <2>2. wakeLockQueue' \in Seq(Nat)
    BY <1>0, <2>1, AppendProperties
  <2>3. TypeOK' /\ PosterInv' /\ HeldInv'
    BY <1>1, <2>1, <2>2 DEF QueueIInv, TypeOK, PosterInv, HeldInv, lock
  <2> QED BY <1>2, <2>3 DEF QueueIInv
<1>8. CASE Expire
  <2>1. expired' = TRUE
        /\ UNCHANGED <<eventQueue, refCount, held, poster, waker, framework, overReleased>>
    BY <1>8 DEF Expire, queues
  <2>2. TypeOK' /\ PosterInv' /\ HeldInv'
    BY <1>1, <2>1 DEF QueueIInv, TypeOK, PosterInv, HeldInv, framework
  <2> QED BY <1>2, <2>2 DEF QueueIInv
<1> QED BY <1>3, <1>4, <1>5, <1>6, <1>7, <1>8 DEF Waker

\* Every step keeps the invariant.
LEMMA QueueStep == QueueIInv /\ [Next]_vars => QueueIInv'
<1> SUFFICES ASSUME QueueIInv, [Next]_vars PROVE QueueIInv'
  OBVIOUS
<1>1. ASSUME NEW s \in SubHals, Begin(s) \/ postEvents(s) \/ End(s) PROVE QueueIInv'
  BY <1>1, BeginStep, PostStep, EndStep
<1>2. CASE UNCHANGED vars
  <2>1. SizeExact' /\ PendingInv' /\ WriterInv'
    BY <1>2, FrameQueues DEF vars, queues
  <2>2. TypeOK' /\ PosterInv' /\ HeldInv'
    BY <1>2 DEF vars, queues, lock, framework, QueueIInv, TypeOK, PosterInv, HeldInv
  <2> QED BY <2>1, <2>2 DEF QueueIInv
<1> QED BY <1>1, <1>2, WriterStep, OtherStep DEF Next

\* It holds at the start: the queues are empty and every thread waits.
LEMMA QueueInit == Init => QueueIInv
<1> SUFFICES ASSUME Init PROVE QueueIInv
  OBVIOUS
<1>1. TypeOK
  <2>1. /\ <<>> \in Seq(Event) /\ <<>> \in Seq([events: Seq(Event), wakeups: Nat])
        /\ <<>> \in Seq(Nat) /\ Len(<<>>) = 0
    BY EmptySeq
  <2>2. Idle \in [at: {"idle", "ready", "posted"}, batch: Batches \cup {<<>>},
                  locked: BOOLEAN, valid: BOOLEAN]
    BY DEF Idle
  <2>3. WriterIdle \in [at: {"wait", "write", "written"}, n: 0 .. QueueSize, wakeups: Nat]
    BY EventsAssumption DEF WriterIdle
  <2>4. /\ eventQueue \in Seq(Event) /\ pending \in Seq([events: Seq(Event), wakeups: Nat])
        /\ wakeLockQueue \in Seq(Nat) /\ Len(eventQueue) = 0
    BY <2>1, Zenon DEF Init
  <2>5. poster \in [SubHals -> [at: {"idle", "ready", "posted"}, batch: Batches \cup {<<>>},
                                locked: BOOLEAN, valid: BOOLEAN]]
    BY <2>2, Zenon DEF Init
  <2>6. /\ writer \in [at: {"wait", "write", "written"}, n: 0 .. QueueSize, wakeups: Nat]
        /\ held \in BOOLEAN /\ expired \in BOOLEAN /\ overReleased \in BOOLEAN
        /\ waker \in {"wait", "read"}
    BY <2>3, Zenon DEF Init
  <2>7. refCount \in Nat /\ unacked \in Nat /\ sizePending \in 0 .. MaxPending
        /\ posted \in 0 .. MaxEvents /\ Len(eventQueue) <= QueueSize
    BY <2>4, EventsAssumption DEF Init
  <2> QED BY <2>4, <2>5, <2>6, <2>7, Zenon DEF TypeOK
<1>2. SizeExact
  <2>1. AllPending = AllOf(pending) /\ pending = <<>> /\ sizePending = 0
    BY DEF Init, AllPending, AllOf, Evs
  <2> QED BY <2>1, AllEmpty, EmptySeq DEF SizeExact
<1>3. PendingInv /\ WriterInv /\ PosterInv /\ HeldInv
  BY DEF Init, PendingInv, WriterInv, PosterInv, HeldInv, Idle, WriterIdle
<1> QED BY <1>1, <1>2, <1>3 DEF QueueIInv

\* Always: no interleaving of the posting threads with the writer, which
\* works on the front of the queue with the mutex released, makes the size
\* that guards kMaxSizePendingWriteEventsQueue differ from the number of
\* pending events, or a queue exceed its limit (604, 608, 611, 685-688).
THEOREM QueueSizeIsExact == Spec => []QueueInv
<1>1. QueueIInv => QueueInv
  BY DEF QueueIInv, QueueInv
<1> QED BY <1>1, QueueInit, QueueStep, PTL DEF Spec

-----------------------------------------------------------------------------
(* The count covers what is outstanding *)

\* What is outstanding, part by part, and the scoped wakelocks are counted by
\* naturals.
LEMMA CountTypes ==
    ASSUME QueueIInv
    PROVE  /\ Wakes(eventQueue) \in Nat /\ Wakes(FromPending) \in Nat /\ unacked \in Nat
           /\ Total(wakeLockQueue) \in Nat /\ Outstanding \in Nat /\ refCount \in Nat
           /\ IsFiniteSet(Counted) /\ Cardinality(Counted) \in Nat
<1>1. /\ eventQueue \in Seq(Event) /\ FromPending \in Seq(Event) /\ unacked \in Nat
      /\ wakeLockQueue \in Seq(Nat) /\ refCount \in Nat
  BY PendingFacts DEF QueueIInv, TypeOK
<1>2. /\ Wakes(eventQueue) \in Nat /\ Wakes(FromPending) \in Nat
      /\ Total(wakeLockQueue) \in Nat
  BY <1>1, WakesType, TotalType
<1>3. Counted \subseteq SubHals
  BY DEF Counted
<1>4. IsFiniteSet(Counted)
  BY <1>3, FS_Subset, EventsAssumption
<1>5. Cardinality(Counted) \in Nat
  BY <1>4, FS_CardinalityType
<1> QED BY <1>1, <1>2, <1>4, <1>5 DEF Outstanding

\* Steps that move no event leave what is outstanding alone.
LEMMA FrameOutstanding ==
    ASSUME QueueIInv, UNCHANGED <<queues, writer, framework>>
    PROVE  Outstanding' = Outstanding
<1>1. FromPending' = FromPending
  BY FrameQueues DEF queues
<1> QED BY <1>1 DEF Outstanding, queues, framework

\* A count that goes down goes down by no more than it is told to.
LEMMA DecrementBound ==
    ASSUME QueueIInv, NEW d \in Nat, NEW v, Decrement(d, v)
    PROVE  refCount' \in Nat /\ refCount' >= refCount - d
<1>1. refCount \in Nat
  BY DEF QueueIInv, TypeOK
<1>2. CASE refCount = 0 \/ ~v
  <2>1. refCount' = refCount
    BY <1>2, Zenon DEF Decrement
  <2> QED BY <1>1, <2>1
<1>3. CASE ~(refCount = 0 \/ ~v)
  <2>1. refCount' = IF d < refCount THEN refCount - d ELSE 0
    BY <1>3, Zenon DEF Decrement
  <2> QED BY <1>1, <2>1
<1> QED BY <1>2, <1>3

\* A scoped wakelock adds its count with itself.
LEMMA BeginCount ==
    ASSUME QueueIInv, CountInv, NEW s \in SubHals, Begin(s)
    PROVE  CountInv'
<1>1. PICK b \in Batches :
        LET wakeup == \E i \in DOMAIN b : b[i] # "plain" IN
        /\ poster' = [poster EXCEPT ![s] =
                        [at |-> "ready", batch |-> b, locked |-> wakeup, valid |-> wakeup]]
        /\ IF wakeup THEN Increment(1) ELSE UNCHANGED lock
  BY DEF Begin
<1> DEFINE wakeup == \E i \in DOMAIN b : b[i] # "plain"
<1>2. poster' = [poster EXCEPT ![s] =
                   [at |-> "ready", batch |-> b, locked |-> wakeup, valid |-> wakeup]]
  BY <1>1
<1>3. IF wakeup THEN Increment(1) ELSE UNCHANGED lock
  BY <1>1
<1> HIDE DEF wakeup
<1>4. s \notin Counted
  BY DEF Begin, QueueIInv, PosterInv, Counted
<1>5. /\ poster'[s].locked = wakeup /\ poster'[s].valid = wakeup
      /\ \A r \in SubHals : r # s => poster'[r] = poster[r]
  BY <1>2 DEF QueueIInv, TypeOK
<1>6. Outstanding' = Outstanding /\ overReleased' = overReleased
  BY FrameOutstanding DEF Begin
<1>7. CASE wakeup
  <2>1. Counted' = Counted \cup {s}
    BY <1>5, <1>7 DEF Counted
  <2>2. Cardinality(Counted') = Cardinality(Counted) + 1
    BY <1>4, <2>1, CountTypes, FS_AddElement
  <2>3. refCount' = refCount + 1
    BY <1>3, <1>7 DEF Increment
  <2> QED BY <1>6, <2>2, <2>3, CountTypes DEF CountInv
<1>8. CASE ~wakeup
  <2>1. Counted' = Counted
    BY <1>4, <1>5, <1>8 DEF Counted
  <2>2. refCount' = refCount
    BY <1>3, <1>8 DEF lock
  <2> QED BY <1>6, <2>1, <2>2 DEF CountInv
<1> QED BY <1>7, <1>8

\* A post adds the wake-up events of its batch, written, queued or dropped.
LEMMA PostCount ==
    ASSUME QueueIInv, CountInv, NEW s \in SubHals, postEvents(s)
    PROVE  CountInv'
<1>1. /\ poster[s].at = "ready" /\ posted + Len(poster[s].batch) <= MaxEvents
      /\ IF poster[s].locked THEN Increment(Wakes(Posts(s))) ELSE UNCHANGED lock
      /\ eventQueue' = eventQueue \o Written(s)
      /\ poster' = [poster EXCEPT ![s].at = "posted", ![s].batch = <<>>]
      /\ UNCHANGED <<wakeLockQueue, unacked, overReleased>>
  BY DEF postEvents, Posts, Written, framework
<1>2. /\ Posts(s) \in Seq(Event) /\ Written(s) \in Seq(Event) /\ Left(s) \in Seq(Event)
      /\ Posts(s) = Written(s) \o Left(s) /\ (~poster[s].locked => Wakes(Posts(s)) = 0)
  BY <1>1, PostFacts
<1>3. /\ Wakes(Posts(s)) \in Nat /\ Wakes(Written(s)) \in Nat /\ Wakes(Left(s)) \in Nat
      /\ Wakes(Posts(s)) = Wakes(Written(s)) + Wakes(Left(s))
  BY <1>2, WakesType, WakesConcat
<1>4. eventQueue \in Seq(Event) /\ FromPending \in Seq(Event)
  BY PendingFacts DEF QueueIInv, TypeOK
<1>5. Wakes(eventQueue') = Wakes(eventQueue) + Wakes(Written(s))
  BY <1>1, <1>2, <1>4, WakesConcat
<1>6. Wakes(FromPending') \in Nat /\ Wakes(FromPending') <= Wakes(FromPending) + Wakes(Left(s))
  <2>1. CASE Queued(Left(s))
    <3>1. FromPending' = FromPending \o Left(s)
      BY <2>1, PostFlow
    <3>2. Wakes(FromPending') = Wakes(FromPending) + Wakes(Left(s))
      BY <1>2, <1>4, <3>1, WakesConcat
    <3> QED BY <1>3, <3>2, CountTypes
  <2>2. CASE ~Queued(Left(s))
    <3>1. FromPending' = FromPending
      BY <2>2, PostFlow
    <3> QED BY <1>3, <3>1, CountTypes
  <2> QED BY <2>1, <2>2
<1>7. Outstanding' \in Nat /\ Outstanding' <= Outstanding + Wakes(Posts(s))
  <2>1. unacked' = unacked /\ Total(wakeLockQueue') = Total(wakeLockQueue)
    BY <1>1
  <2>2. /\ Wakes(eventQueue) \in Nat /\ Wakes(FromPending) \in Nat /\ unacked \in Nat
        /\ Total(wakeLockQueue) \in Nat
    BY CountTypes
  <2>3. /\ Outstanding = Wakes(eventQueue) + Wakes(FromPending) + unacked + Total(wakeLockQueue)
        /\ Outstanding' = Wakes(eventQueue') + Wakes(FromPending') + unacked'
                            + Total(wakeLockQueue')
    BY DEF Outstanding
  <2> QED BY ONLY <1>3, <1>5, <1>6, <2>1, <2>2, <2>3
<1>8. refCount' = refCount + Wakes(Posts(s))
  <2>1. CASE poster[s].locked
    BY <1>1, <2>1 DEF Increment
  <2>2. CASE ~poster[s].locked
    <3>1. refCount' = refCount
      BY <1>1, <2>2 DEF lock
    <3> QED BY <1>2, <2>2, <3>1, CountTypes
  <2> QED BY <2>1, <2>2
<1>9. Counted' = Counted
  <2>1. poster' = [poster EXCEPT ![s] = [poster[s] EXCEPT !.at = "posted", !.batch = <<>>]]
    BY <1>1
  <2>2. poster \in [SubHals -> [at: {"idle", "ready", "posted"}, batch: Batches \cup {<<>>},
                                locked: BOOLEAN, valid: BOOLEAN]]
    BY DEF QueueIInv, TypeOK
  <2>3. \A r \in SubHals : poster'[r].locked = poster[r].locked
                           /\ poster'[r].valid = poster[r].valid
    BY <2>1, <2>2
  <2> QED BY <2>3, Zenon DEF Counted
<1>10. overReleased' = overReleased
  BY <1>1
<1> QED BY <1>3, <1>7, <1>8, <1>9, <1>10, CountTypes DEF CountInv

\* Where the count should stand for nothing, any count will do.
LEMMA SettledCount ==
    ASSUME QueueIInv', Settled'
    PROVE  CountInv'
<1>1. Outstanding' = 0 /\ Cardinality(Counted') = 0
  BY FS_EmptySet DEF Settled
<1>2. refCount' \in Nat
  BY DEF QueueIInv, TypeOK
<1> QED BY <1>1, <1>2 DEF CountInv

\* A scoped wakelock takes its own count off, unless the timeout has.
LEMMA EndCount ==
    ASSUME QueueIInv, CountInv, NEW s \in SubHals, End(s)
    PROVE  CountInv'
<1>1. /\ IF poster[s].locked THEN Decrement(1, poster[s].valid) ELSE UNCHANGED lock
      /\ poster' = [poster EXCEPT ![s] = Idle]
      /\ UNCHANGED <<queues, writer, framework>>
  BY DEF End
<1>1a. CASE Settled'
  <2>1. QueueIInv'
    BY EndStep
  <2> QED BY <1>1a, <2>1, SettledCount
<1> SUFFICES ASSUME ~Settled' PROVE CountInv'
  BY <1>1a
<1>1b. overReleased' <=> overReleased
  BY DEF End
<1>2. Outstanding' = Outstanding
  BY <1>1, FrameOutstanding
<1>3. ~poster'[s].locked /\ \A r \in SubHals : r # s => poster'[r] = poster[r]
  BY <1>1 DEF QueueIInv, TypeOK, Idle
<1>4. Counted' = Counted \ {s}
  BY <1>3 DEF Counted
<1>5. CASE s \in Counted
  <2>1. Cardinality(Counted') = Cardinality(Counted) - 1
    BY <1>4, <1>5, CountTypes, FS_RemoveElement
  <2>2. Decrement(1, poster[s].valid)
    BY <1>1, <1>5 DEF Counted
  <2>3. refCount' \in Nat /\ refCount' >= refCount - 1
    BY <2>2, DecrementBound
  <2> QED BY <1>2, <1>1b, <2>1, <2>3, CountTypes DEF CountInv
<1>6. CASE s \notin Counted
  <2>1. Counted' = Counted
    BY <1>4, <1>6
  <2>2. refCount' = refCount
    <3>1. ~poster[s].locked \/ ~poster[s].valid
      BY <1>6 DEF Counted
    <3>2. CASE ~poster[s].locked
      BY <1>1, <3>2 DEF lock
    <3>3. CASE poster[s].locked /\ ~poster[s].valid
      BY <1>1, <3>3, Zenon DEF Decrement
    <3> QED BY <3>1, <3>2, <3>3
  <2> QED BY <1>2, <1>1b, <2>1, <2>2 DEF CountInv
<1> QED BY <1>5, <1>6

\* The writer moves events from the pending queue to the other one, or drops
\* them and takes them off the count; more than these it takes off only when
\* overReleased records it.
LEMMA WriterCount ==
    ASSUME QueueIInv, CountInv, Writer
    PROVE  CountInv'
<1>1. Counted' = Counted /\ UNCHANGED <<unacked, wakeLockQueue>>
  BY DEF Writer, writerTake, writerWrites, writerDrops, writerPops, Counted, framework
<1>2. CASE writerTake
  <2>1. /\ UNCHANGED <<eventQueue, pending, refCount, overReleased>>
        /\ writer.at = "wait" /\ writer'.at = "write"
    BY <1>2 DEF writerTake, queues, lock
  <2>2. FromPending' = FromPending
    BY <2>1 DEF FromPending, AllPending
  <2>3. Outstanding' = Outstanding
    BY <1>1, <2>1, <2>2 DEF Outstanding
  <2> QED BY <1>1, <2>1, <2>3 DEF CountInv
<1>3. CASE writerWrites
  <2>1. /\ writer.at = "write" /\ writer' = [writer EXCEPT !.at = "written"]
        /\ eventQueue' = eventQueue \o Taken
        /\ UNCHANGED <<pending, refCount, overReleased>>
    BY <1>3 DEF writerWrites, Taken, lock
  <2>2. /\ Taken \in Seq(Event) /\ FromPending' \in Seq(Event)
        /\ FromPending = Taken \o FromPending'
    BY <2>1, WriteFlow
  <2>3. eventQueue \in Seq(Event)
    BY DEF QueueIInv, TypeOK
  <2>4. /\ Wakes(FromPending) = Wakes(Taken) + Wakes(FromPending')
        /\ Wakes(eventQueue') = Wakes(eventQueue) + Wakes(Taken)
        /\ Wakes(Taken) \in Nat /\ Wakes(FromPending') \in Nat
    BY <2>1, <2>2, <2>3, WakesConcat, WakesType
  <2>5. Outstanding' = Outstanding
    BY <1>1, <2>4, CountTypes DEF Outstanding
  <2> QED BY <1>1, <2>1, <2>5 DEF CountInv
<1>4. CASE writerDrops
  <2>1. /\ writer.at = "write" /\ writer' = [writer EXCEPT !.at = "written"]
        /\ IF writer.wakeups > 0 THEN Decrement(Released, TRUE) ELSE UNCHANGED lock
        /\ overReleased' = (overReleased \/ Released > Wakes(Taken))
        /\ UNCHANGED <<pending, eventQueue>>
    BY <1>4 DEF writerDrops, Taken, queues
  <2>2. /\ Taken \in Seq(Event) /\ FromPending' \in Seq(Event)
        /\ FromPending = Taken \o FromPending'
    BY <2>1, WriteFlow
  <2>3. /\ Wakes(FromPending) = Wakes(Taken) + Wakes(FromPending')
        /\ Wakes(Taken) \in Nat /\ Wakes(FromPending') \in Nat
    BY <2>2, WakesConcat, WakesType
  <2>4. Outstanding = Wakes(Taken) + Outstanding' /\ Outstanding' \in Nat
    BY <1>1, <2>1, <2>3, CountTypes DEF Outstanding
  <2>5. Released \in Nat
    BY <2>1, ReleasedType
  <2>6. refCount' \in Nat /\ refCount' >= refCount - Released
    <3>1. CASE writer.wakeups > 0
      <4>1. Decrement(Released, TRUE)
        BY <2>1, <3>1
      <4> QED BY <2>5, <4>1, DecrementBound
    <3>2. CASE ~(writer.wakeups > 0)
      <4>1. refCount' = refCount
        BY <2>1, <3>2 DEF lock
      <4> QED BY <2>5, <4>1, CountTypes
    <3> QED BY <3>1, <3>2
  <2>7. ASSUME ~overReleased' PROVE refCount' >= Outstanding' + Cardinality(Counted')
    <3>1. ~overReleased /\ ~(Released > Wakes(Taken))
      BY <2>1, <2>7, Zenon
    <3>2. Released <= Wakes(Taken)
      BY <2>3, <2>5, <3>1
    <3>3. refCount >= Outstanding + Cardinality(Counted)
      BY <3>1 DEF CountInv
    <3> QED BY <1>1, <2>3, <2>4, <2>5, <2>6, <3>2, <3>3, CountTypes
  <2> QED BY <2>7 DEF CountInv
<1>5. CASE writerPops
  <2>1. UNCHANGED <<eventQueue, refCount, overReleased>>
    BY <1>5 DEF writerPops, lock
  <2>2. FromPending' = FromPending
    BY <1>5, PopFlow
  <2>3. Outstanding' = Outstanding
    BY <1>1, <2>1, <2>2 DEF Outstanding
  <2> QED BY <1>1, <2>1, <2>3 DEF CountInv
<1> QED BY <1>2, <1>3, <1>4, <1>5 DEF Writer

\* An event keeps its count while it is read and acknowledged, and gives it
\* back when the wakelock thread takes the acknowledgement.
LEMMA OtherCount ==
    ASSUME QueueIInv, CountInv, Waker \/ ReadEvent \/ Acknowledge \/ Expire
    PROVE  CountInv'
<1>1. UNCHANGED <<pending, sizePending, writer>>
  BY DEF Waker, wakerTimeout, wakerUnlocks, wakerReads, wakerGivesUp, ReadEvent, Acknowledge,
         Expire, queues
<1>2. FromPending' = FromPending
  BY <1>1, FrameQueues
<1>3. CASE wakerTimeout
  <2>1. /\ UNCHANGED <<eventQueue, wakeLockQueue, unacked>> /\ overReleased' = (Outstanding # 0)
        /\ poster' = [s \in SubHals |-> [poster[s] EXCEPT !.valid = FALSE]]
    BY <1>3 DEF wakerTimeout, queues, framework
  <2>2. Outstanding' = Outstanding
    BY <1>2, <2>1 DEF Outstanding
  <2>3. Counted' = {}
    BY <2>1 DEF Counted, QueueIInv, TypeOK
  <2>4. CASE Outstanding # 0
    BY <2>1, <2>4 DEF CountInv
  <2>5. CASE Outstanding = 0
    <3>1. QueueIInv'
      BY <1>3, OtherStep DEF Waker
    <3> QED BY <2>2, <2>3, <2>5, <3>1, SettledCount DEF Settled
  <2> QED BY <2>4, <2>5
<1>4. CASE wakerUnlocks \/ wakerGivesUp \/ Expire
  <2>1. UNCHANGED <<eventQueue, framework, refCount, poster, overReleased>>
    BY <1>4 DEF wakerUnlocks, wakerGivesUp, Expire, queues, lock
  <2>2. Outstanding' = Outstanding /\ Counted' = Counted
    BY <1>2, <2>1 DEF Outstanding, Counted, framework
  <2> QED BY <2>1, <2>2 DEF CountInv
<1>5. CASE wakerReads
  <2>1. /\ wakeLockQueue # <<>> /\ Decrement(Head(wakeLockQueue), TRUE)
        /\ wakeLockQueue' = Tail(wakeLockQueue)
        /\ UNCHANGED <<eventQueue, poster, unacked>>
    BY <1>5 DEF wakerReads, queues
  <2>1a. CASE Settled'
    <3>1. QueueIInv'
      BY <1>5, OtherStep DEF Waker
    <3> QED BY <2>1a, <3>1, SettledCount
  <2> SUFFICES ASSUME ~Settled' PROVE CountInv'
    BY <2>1a
  <2>1b. overReleased' <=> overReleased
    BY <1>5 DEF wakerReads
  <2>2. wakeLockQueue \in Seq(Nat)
    BY DEF QueueIInv, TypeOK
  <2>3. Head(wakeLockQueue) \in Nat /\ Tail(wakeLockQueue) \in Seq(Nat)
    BY <2>1, <2>2, HeadTailProperties
  <2>4. /\ Total(wakeLockQueue) = Head(wakeLockQueue) + Total(wakeLockQueue')
        /\ Total(wakeLockQueue') \in Nat
    BY <2>1, <2>2, <2>3, TotalFront, TotalType
  <2>5. Outstanding = Head(wakeLockQueue) + Outstanding' /\ Outstanding' \in Nat
    <3> DEFINE h == Head(wakeLockQueue)
               t == Total(wakeLockQueue')
    <3>1. /\ Outstanding = Wakes(eventQueue) + Wakes(FromPending) + unacked + (h + t)
          /\ Outstanding' = Wakes(eventQueue) + Wakes(FromPending) + unacked + t
      BY <1>2, <2>1, <2>4 DEF Outstanding
    <3>2. h \in Nat /\ t \in Nat /\ Wakes(eventQueue) \in Nat /\ Wakes(FromPending) \in Nat
          /\ unacked \in Nat
      BY <2>3, <2>4, CountTypes
    <3> HIDE DEF h, t
    <3>3. Outstanding = h + Outstanding' /\ Outstanding' \in Nat
      BY ONLY <3>1, <3>2
    <3> QED BY <3>3 DEF h
  <2>6. refCount' \in Nat /\ refCount' >= refCount - Head(wakeLockQueue)
    BY <2>1, <2>3, DecrementBound
  <2>7. Counted' = Counted
    BY <2>1 DEF Counted
  <2>8. ASSUME ~overReleased' PROVE refCount' >= Outstanding' + Cardinality(Counted')
    <3> DEFINE h == Head(wakeLockQueue)
    <3>1. refCount >= Outstanding + Cardinality(Counted)
      BY <2>8, <2>1b DEF CountInv
    <3>2. /\ Outstanding = h + Outstanding' /\ Outstanding' \in Nat /\ h \in Nat
          /\ refCount' \in Nat /\ refCount' >= refCount - h
          /\ refCount \in Nat /\ Cardinality(Counted) \in Nat
      BY <2>3, <2>5, <2>6, CountTypes
    <3> HIDE DEF h
    <3> QED BY <2>7, <3>1, <3>2
  <2> QED BY <2>8 DEF CountInv
<1>6. CASE ReadEvent
  <2>1. /\ eventQueue # <<>> /\ eventQueue' = Tail(eventQueue)
        /\ unacked' = unacked + (IF Head(eventQueue).wake THEN 1 ELSE 0)
        /\ UNCHANGED <<refCount, poster, wakeLockQueue, overReleased>>
    BY <1>6 DEF ReadEvent, lock
  <2>2. eventQueue \in Seq(Event) /\ Tail(eventQueue) \in Seq(Event)
    BY <2>1, HeadTailProperties DEF QueueIInv, TypeOK
  <2>3. /\ Wakes(eventQueue) = (IF Head(eventQueue).wake THEN 1 ELSE 0) + Wakes(eventQueue')
        /\ Wakes(eventQueue') \in Nat
    BY <2>1, <2>2, WakesFront, WakesType
  <2>4. Outstanding' = Outstanding
    BY <1>2, <2>1, <2>3, CountTypes DEF Outstanding
  <2>5. Counted' = Counted
    BY <2>1 DEF Counted
  <2> QED BY <2>1, <2>4, <2>5 DEF CountInv
<1>7. CASE Acknowledge
  <2>1. /\ wakeLockQueue' = Append(wakeLockQueue, unacked) /\ unacked' = 0
        /\ UNCHANGED <<eventQueue, refCount, poster, overReleased>>
    BY <1>7 DEF Acknowledge, queues, lock
  <2>2. wakeLockQueue \in Seq(Nat) /\ unacked \in Nat
    BY DEF QueueIInv, TypeOK
  <2>3. Total(wakeLockQueue') = Total(wakeLockQueue) + unacked
    BY <2>1, <2>2, TotalAppend
  <2>4. Outstanding' = Outstanding
    BY <1>2, <2>1, <2>3, CountTypes DEF Outstanding
  <2>5. Counted' = Counted
    BY <2>1 DEF Counted
  <2> QED BY <2>1, <2>4, <2>5 DEF CountInv
<1> QED BY <1>3, <1>4, <1>5, <1>6, <1>7 DEF Waker

\* Every step keeps the count.
LEMMA CountStep == QueueIInv /\ CountInv /\ [Next]_vars => CountInv'
<1> SUFFICES ASSUME QueueIInv, CountInv, [Next]_vars PROVE CountInv'
  OBVIOUS
<1>1. ASSUME NEW s \in SubHals, Begin(s) \/ postEvents(s) \/ End(s) PROVE CountInv'
  BY <1>1, BeginCount, PostCount, EndCount
<1>2. CASE UNCHANGED vars
  <2>1. Outstanding' = Outstanding
    BY <1>2, FrameOutstanding DEF vars
  <2> QED BY <1>2, <2>1 DEF vars, lock, CountInv, Counted
<1> QED BY <1>1, <1>2, WriterCount, OtherCount DEF Next

\* Nothing is outstanding at the start.
LEMMA CountInit == Init => CountInv
<1> SUFFICES ASSUME Init PROVE CountInv
  OBVIOUS
<1>1. FromPending = <<>> /\ eventQueue = <<>> /\ unacked = 0 /\ wakeLockQueue = <<>>
      /\ refCount = 0
  BY QueueInit, PendingFacts DEF Init
<1>2. Outstanding = 0
  BY <1>1, WakesEmpty, TotalEmpty DEF Outstanding
<1>3. Counted = {}
  BY DEF Init, Idle, Counted
<1> QED BY <1>1, <1>2, <1>3, FS_EmptySet DEF CountInv

\* Always, but after the timeout or the failed write of a split batch has cut
\* the count, until all that it stood for is over: the count covers every
\* wake-up event that the framework has not acknowledged, and the wakelock is
\* held for them (583-602, 636-638, 667-693, 699-704, 720-723).
THEOREM WakeEventsKeepDeviceAwake == Spec => []WakeEventsHoldLock
<1>1. QueueIInv /\ CountInv => WakeEventsHoldLock
  <2> SUFFICES ASSUME QueueIInv, CountInv, ~overReleased, Outstanding > 0
               PROVE  refCount >= Outstanding /\ held
    BY DEF WakeEventsHoldLock
  <2>1. refCount \in Nat /\ Outstanding \in Nat /\ Cardinality(Counted) \in Nat
    BY CountTypes
  <2>2. refCount >= Outstanding + Cardinality(Counted)
    BY DEF CountInv
  <2>3. refCount >= Outstanding /\ refCount > 0
    BY <2>1, <2>2
  <2>4. HeldInv
    BY DEF QueueIInv
  <2> QED BY <2>3, <2>4, Zenon DEF HeldInv
<1> QED BY <1>1, QueueInit, QueueStep, CountInit, CountStep, PTL DEF Spec

-----------------------------------------------------------------------------
(* The two queues are one channel *)

\* What EventChannel's channel stands for.
Both == eventQueue \o FromPending

\* It is a sequence of events.
LEMMA BothType ==
    ASSUME QueueIInv
    PROVE  /\ eventQueue \in Seq(Event) /\ FromPending \in Seq(Event) /\ Both \in Seq(Event)
           /\ Len(Both) = Len(eventQueue) + Len(FromPending)
           /\ Len(eventQueue) \in Nat /\ Len(FromPending) \in Nat
<1>1. eventQueue \in Seq(Event) /\ FromPending \in Seq(Event)
  BY PendingFacts DEF QueueIInv, TypeOK
<1> QED BY <1>1, ConcatProperties, LenProperties DEF Both

\* What a post adds to both queues, as one.
Accepted(s) == Written(s) \o (IF Queued(Left(s)) THEN Left(s) ELSE <<>>)

\* The accepted events are the first ones of the batch, in its order.
LEMMA AcceptedFacts ==
    ASSUME QueueIInv, NEW s \in SubHals, poster[s].at = "ready",
           posted + Len(poster[s].batch) <= MaxEvents
    PROVE  /\ Accepted(s) \in Seq(Event) /\ Len(Accepted(s)) \in Nat
           /\ Len(Accepted(s)) <= Len(poster[s].batch)
           /\ \A i \in 1 .. Len(Accepted(s)) : Accepted(s)[i].id = posted + i
<1>1. /\ Len(poster[s].batch) \in Nat
      /\ Posts(s) \in Seq(Event) /\ Len(Posts(s)) <= Len(poster[s].batch)
      /\ \A i \in 1 .. Len(Posts(s)) : Posts(s)[i].id = posted + i
      /\ Written(s) \in Seq(Event) /\ Left(s) \in Seq(Event)
      /\ Posts(s) = Written(s) \o Left(s)
  BY PostFacts
<1>2. /\ Len(Written(s)) \in Nat /\ Len(Left(s)) \in Nat
      /\ Len(Posts(s)) = Len(Written(s)) + Len(Left(s))
  BY <1>1, ConcatProperties, LenProperties
<1>3. CASE Queued(Left(s))
  <2>1. Accepted(s) = Posts(s)
    BY <1>1, <1>3 DEF Accepted
  <2> QED BY <1>1, <1>2, <2>1
<1>4. CASE ~Queued(Left(s))
  <2>1. Accepted(s) = Written(s)
    <3>1. Accepted(s) = Written(s) \o <<>>
      BY <1>4 DEF Accepted
    <3> QED BY <1>1, <3>1, ConcatEmptySeq
  <2>2. ASSUME NEW i \in 1 .. Len(Written(s)) PROVE Written(s)[i].id = posted + i
    <3>1. i \in 1 .. Len(Posts(s)) /\ i <= Len(Written(s))
          /\ i \in 1 .. Len(Written(s)) + Len(Left(s))
      BY <1>2
    <3>2. (Written(s) \o Left(s))[i] = Written(s)[i]
      BY <1>1, <3>1, ConcatProperties
    <3> QED BY <1>1, <3>1, <3>2
  <2> QED BY <1>1, <1>2, <2>1, <2>2
<1> QED BY <1>3, <1>4

\* Whichever queue they go to, they come last.
LEMMA PostBoth ==
    ASSUME QueueIInv, NEW s \in SubHals, postEvents(s)
    PROVE  Both' = Both \o Accepted(s)
<1> DEFINE x == IF Queued(Left(s)) THEN Left(s) ELSE <<>>
           w == Written(s)
           q == eventQueue
           f == FromPending
<1>1. /\ poster[s].at = "ready" /\ posted + Len(poster[s].batch) <= MaxEvents
      /\ eventQueue' = q \o w
  BY DEF postEvents, Posts, Written
<1>2. /\ w \in Seq(Event) /\ Left(s) \in Seq(Event) /\ (pending # <<>> => w = <<>>)
      /\ q \in Seq(Event) /\ f \in Seq(Event) /\ (pending = <<>> => f = <<>>)
  BY <1>1, PostFacts, BothType, PendingFacts
<1>3. x \in Seq(Event)
  <2>1. <<>> \in Seq(Event)
    BY EmptySeq
  <2> QED BY <1>2, <2>1
<1>4. FromPending' = f \o x
  <2>1. CASE Queued(Left(s))
    BY <2>1, PostFlow
  <2>2. CASE ~Queued(Left(s))
    <3>1. FromPending' = f /\ x = <<>>
      BY <2>2, PostFlow
    <3>2. f \o <<>> = f
      BY <1>2, ConcatEmptySeq
    <3> QED BY <3>1, <3>2
  <2> QED BY <2>1, <2>2
<1>5. Both' = (q \o w) \o (f \o x) /\ Both = q \o f /\ Accepted(s) = w \o x
  BY <1>1, <1>4 DEF Both, Accepted
<1> HIDE DEF x, w, q, f
<1>8. q \in Seq(Event) /\ w \in Seq(Event) /\ f \in Seq(Event) /\ x \in Seq(Event)
  BY <1>2, <1>3
<1>6. CASE pending # <<>>
  <2>1. w = <<>> /\ q \o <<>> = q /\ <<>> \o x = x
    BY <1>2, <1>3, <1>6, ConcatEmptySeq
  <2>2. (q \o f) \o x = q \o (f \o x)
    <3>1. q \in Seq(Event) /\ f \in Seq(Event) /\ x \in Seq(Event)
      BY <1>8
    <3> QED BY ONLY <3>1, ConcatAssociative
  <2> QED BY <1>5, <2>1, <2>2
<1>7. CASE pending = <<>>
  <2>1. f = <<>> /\ q \o <<>> = q /\ <<>> \o x = x
    BY <1>2, <1>3, <1>7, ConcatEmptySeq
  <2>2. (q \o w) \o x = q \o (w \o x)
    <3>1. q \in Seq(Event) /\ w \in Seq(Event) /\ x \in Seq(Event)
      BY <1>8
    <3> QED BY ONLY <3>1, ConcatAssociative
  <2> QED BY <1>5, <2>1, <2>2
<1> QED BY <1>6, <1>7

\* A post is a step of the channel.
LEMMA PostRefines ==
    ASSUME QueueIInv, NEW s \in SubHals, postEvents(s)
    PROVE  Channel!Post
<1>1. /\ poster[s].at = "ready" /\ posted + Len(poster[s].batch) <= MaxEvents
      /\ posted' = posted + Len(poster[s].batch)
  BY DEF postEvents
<1>2. posted \in Nat /\ Len(poster[s].batch) \in Nat
  BY <1>1, PostFacts DEF QueueIInv, TypeOK
<1> DEFINE n == Len(poster[s].batch)
           a == Accepted(s)
<1>3. posted' = posted + n /\ n \in Nat
  BY <1>1, <1>2
<1>4. /\ a \in Seq(Event) /\ Len(a) \in Nat /\ Len(a) <= n
      /\ \A i \in 1 .. Len(a) : a[i].id = posted + i
  BY <1>1, AcceptedFacts
<1>5. Both' = Both \o a /\ Both \in Seq(Event) /\ Len(Both) \in Nat
  BY PostBoth, BothType
<1> HIDE DEF n, a
<1>6. Len(Both') = Len(Both) + Len(a)
  BY <1>4, <1>5, ConcatProperties
<1>7. Channel!Extends(Both, Both')
  <2>1. SubSeq(Both \o a, 1, Len(Both)) = Both
    BY <1>4, <1>5, ConcatParts
  <2> QED BY <1>4, <1>5, <1>6, <2>1 DEF Channel!Extends
<1>8. ASSUME NEW i \in Len(Both) + 1 .. Len(Both')
      PROVE  Both'[i].id = posted + (i - Len(Both))
  <2>1. i \in 1 .. Len(Both) + Len(a) /\ ~(i <= Len(Both)) /\ i - Len(Both) \in 1 .. Len(a)
    BY <1>4, <1>5, <1>6
  <2>2. (Both \o a)[i] = a[i - Len(Both)]
    BY <1>4, <1>5, <2>1, ConcatProperties
  <2> QED BY <1>4, <1>5, <2>1, <2>2
<1>9. ASSUME NEW i \in Len(Both) + 1 .. Len(Both')
      PROVE  /\ Both'[i].id \in posted + 1 .. posted'
             /\ i > Len(Both) + 1 => Both'[i - 1].id < Both'[i].id
  <2>1. Both'[i].id = posted + (i - Len(Both))
    BY <1>8
  <2>2. i > Len(Both) + 1 => Both'[i - 1].id = posted + ((i - 1) - Len(Both))
    <3> SUFFICES ASSUME i > Len(Both) + 1
                 PROVE  Both'[i - 1].id = posted + ((i - 1) - Len(Both))
      OBVIOUS
    <3>1. i - 1 \in Len(Both) + 1 .. Len(Both')
      BY <1>4, <1>5, <1>6
    <3> QED BY <1>8, <3>1
  <2>3. i \in Nat /\ i <= Len(Both) + Len(a) /\ i >= Len(Both) + 1
    BY <1>4, <1>5, <1>6
  <2>4. /\ posted \in Nat /\ n \in Nat /\ posted' = posted + n /\ Len(a) \in Nat /\ Len(a) <= n
        /\ Len(Both) \in Nat
    BY <1>2, <1>3, <1>4, <1>5
  <2>5. Both'[i].id \in posted + 1 .. posted'
    BY ONLY <2>1, <2>3, <2>4
  <2>6. i > Len(Both) + 1 => Both'[i - 1].id < Both'[i].id
    BY ONLY <2>1, <2>2, <2>3, <2>4
  <2> QED BY <2>5, <2>6
<1>10. posted' >= posted
  BY <1>2, <1>3
<1> QED BY <1>7, <1>9, <1>10 DEF Channel!Post, Both

\* A read is one.
LEMMA ReadRefines ==
    ASSUME QueueIInv, ReadEvent
    PROVE  Channel!Read
<1>1. /\ eventQueue # <<>> /\ eventQueue' = Tail(eventQueue)
      /\ UNCHANGED <<pending, sizePending, writer, posted>>
  BY DEF ReadEvent
<1>2. FromPending' = FromPending
  BY <1>1, FrameQueues
<1> DEFINE q == eventQueue
           f == FromPending
<1>3. q \in Seq(Event) /\ f \in Seq(Event) /\ q # <<>>
  BY <1>1, BothType
<1>4. Both = q \o f /\ Both' = Tail(q) \o f
  BY <1>1, <1>2 DEF Both
<1> HIDE DEF q, f
<1>5. q \o f # <<>> /\ Tail(q \o f) = Tail(q) \o f
  <2>1. /\ Head(q) \in Event /\ Tail(q) \in Seq(Event) /\ <<Head(q)>> \in Seq(Event)
        /\ q = <<Head(q)>> \o Tail(q) /\ Len(<<Head(q)>>) = 1
    BY <1>3
  <2>2. q \o f = <<Head(q)>> \o (Tail(q) \o f) /\ Tail(q) \o f \in Seq(Event)
    BY <1>3, <2>1, ConcatAssociative, ConcatProperties
  <2>3. q \o f \in Seq(Event) /\ Len(q \o f) = 1 + Len(Tail(q) \o f)
        /\ Len(Tail(q) \o f) \in Nat
    BY <1>3, <2>1, <2>2, ConcatProperties, LenProperties
  <2>4. q \o f # <<>>
    BY <2>3, EmptySeq
  <2>5. Tail(q \o f) = SubSeq(q \o f, 2, Len(q \o f))
    BY <2>3, <2>4, TailIsSubSeq
  <2>6. SubSeq(<<Head(q)>> \o (Tail(q) \o f), 1 + 1, Len(<<Head(q)>> \o (Tail(q) \o f)))
          = Tail(q) \o f
    BY <2>1, <2>2, ConcatParts
  <2> QED BY <2>2, <2>4, <2>5, <2>6
<1> QED BY <1>1, <1>4, <1>5 DEF Channel!Read, Both

\* A failed write loses a run of at most QueueSize events, those at the front
\* of what is not yet written.
LEMMA DropRefines ==
    ASSUME QueueIInv, writerDrops
    PROVE  Channel!Lose
<1>1. /\ writer.at = "write" /\ writer' = [writer EXCEPT !.at = "written"]
      /\ UNCHANGED <<pending, eventQueue, posted>>
  BY DEF writerDrops, queues
<1> DEFINE q == eventQueue
           f == FromPending'
           t == Taken
           n == writer.n
<1>2. t \in Seq(Event) /\ f \in Seq(Event) /\ FromPending = t \o f
  BY <1>1, WriteFlow
<1>3. q \in Seq(Event) /\ Len(q) \in Nat /\ n \in 1 .. QueueSize /\ Len(t) = n
  BY <1>1, BothType, PendingFacts DEF QueueIInv, TypeOK
<1>4. Both = q \o (t \o f) /\ Both' = q \o f
  BY <1>1, <1>2 DEF Both
<1> HIDE DEF q, f, t, n
<1>5. t \o f \in Seq(Event) /\ q \o t \in Seq(Event)
      /\ Len(q \o t) = Len(q) + n /\ Len(t \o f) = n + Len(f) /\ Len(f) \in Nat
  BY <1>2, <1>3, ConcatProperties, LenProperties
<1>6. Len(q \o (t \o f)) = Len(q) + n + Len(f)
  <2>1. Len(q \o (t \o f)) = Len(q) + Len(t \o f)
    BY <1>3, <1>5, ConcatProperties
  <2>2. n \in Nat
    BY <1>3, EventsAssumption
  <2> QED BY <1>3, <1>5, <2>1, <2>2
<1>7. SubSeq(q \o (t \o f), 1, Len(q)) = q
  BY <1>3, <1>5, ConcatParts
<1>8. q \o (t \o f) = (q \o t) \o f
  <2>1. q \in Seq(Event) /\ t \in Seq(Event) /\ f \in Seq(Event)
    BY <1>2, <1>3
  <2> QED BY ONLY <2>1, ConcatAssociative
<1>9. SubSeq((q \o t) \o f, Len(q \o t) + 1, Len((q \o t) \o f)) = f
  BY <1>2, <1>5, ConcatParts
<1> DEFINE first == Len(q) + 1
<1>10. /\ first \in 1 .. Len(Both) /\ first + n <= Len(Both) + 1
       /\ first - 1 = Len(q) /\ first + n = Len(q \o t) + 1
  BY <1>3, <1>4, <1>5, <1>6, EventsAssumption
<1> HIDE DEF first
<1>11. Both' = SubSeq(Both, 1, first - 1) \o SubSeq(Both, first + n, Len(Both))
  BY <1>4, <1>7, <1>8, <1>9, <1>10
<1> QED BY <1>1, <1>3, <1>10, <1>11 DEF Channel!Lose, Both

\* Nothing else touches the channel; a write from one queue into the other
\* is invisible to it, and so is the pop that follows.
LEMMA Stutters ==
    ASSUME QueueIInv,
           \/ \E s \in SubHals : Begin(s) \/ End(s)
           \/ writerTake \/ writerWrites \/ writerPops
           \/ Waker \/ Acknowledge \/ Expire \/ UNCHANGED vars
    PROVE  Both' = Both /\ posted' = posted
<1>1. CASE \/ \E s \in SubHals : Begin(s) \/ End(s)
           \/ Waker \/ Acknowledge \/ Expire \/ UNCHANGED vars
  <2>1. UNCHANGED <<queues, writer, posted>>
    <3>1. ASSUME NEW s \in SubHals, Begin(s) \/ End(s) PROVE UNCHANGED <<queues, writer, posted>>
      BY <3>1, Zenon DEF Begin, End
    <3>2. Waker \/ Acknowledge \/ Expire \/ UNCHANGED vars => UNCHANGED <<queues, writer, posted>>
      BY DEF Waker, wakerTimeout, wakerUnlocks, wakerReads, wakerGivesUp, Acknowledge, Expire, vars
    <3> QED BY <1>1, <3>1, <3>2
  <2>2. FromPending' = FromPending
    BY <2>1, FrameQueues DEF queues
  <2> QED BY <2>1, <2>2 DEF Both, queues
<1>2. CASE writerTake
  <2>1. UNCHANGED <<queues, posted>> /\ writer.at = "wait" /\ writer'.at = "write"
    BY <1>2 DEF writerTake
  <2> QED BY <2>1 DEF Both, FromPending, AllPending, queues
<1>3. CASE writerWrites
  <2>1. /\ writer.at = "write" /\ writer' = [writer EXCEPT !.at = "written"]
        /\ eventQueue' = eventQueue \o Taken /\ UNCHANGED <<pending, posted>>
    BY <1>3 DEF writerWrites, Taken
  <2>2. /\ Taken \in Seq(Event) /\ FromPending' \in Seq(Event)
        /\ FromPending = Taken \o FromPending' /\ eventQueue \in Seq(Event)
    BY <2>1, WriteFlow, BothType
  <2>3. (eventQueue \o Taken) \o FromPending' = eventQueue \o (Taken \o FromPending')
    <3>1. eventQueue \in Seq(Event) /\ Taken \in Seq(Event) /\ FromPending' \in Seq(Event)
      BY <2>2
    <3> QED BY ONLY <3>1, ConcatAssociative
  <2> QED BY <2>1, <2>2, <2>3 DEF Both
<1>4. CASE writerPops
  <2>1. UNCHANGED <<eventQueue, posted>>
    BY <1>4 DEF writerPops
  <2>2. FromPending' = FromPending
    BY <1>4, PopFlow
  <2> QED BY <2>1, <2>2 DEF Both
<1> QED BY <1>1, <1>2, <1>3, <1>4

\* The two queues with their two writers implement EventChannel: nothing the
\* framework reads is reordered or repeated, everything was accepted when it
\* was posted, and at most one queue full is lost at a time (587-613,
\* 671-692).
THEOREM QueuesAreOneChannel == Spec => ImplementsChannel
<1>1. Init => Channel!ChannelInit
  <2> SUFFICES ASSUME Init PROVE eventQueue \o FromPending = <<>> /\ posted = 0
    BY DEF Channel!ChannelInit
  <2>1. FromPending = <<>> /\ eventQueue = <<>> /\ posted = 0
    BY QueueInit, PendingFacts DEF Init
  <2>2. <<>> \o <<>> = <<>>
    OBVIOUS
  <2> QED BY <2>1, <2>2
<1>2. QueueIInv /\ [Next]_vars
        => [Channel!ChannelNext]_<<eventQueue \o FromPending, posted>>
  <2> SUFFICES ASSUME QueueIInv, [Next]_vars
               PROVE  Channel!ChannelNext \/ (Both' = Both /\ posted' = posted)
    BY DEF Both
  <2>1. ASSUME NEW s \in SubHals, postEvents(s) PROVE Channel!ChannelNext
    BY <2>1, PostRefines DEF Channel!ChannelNext
  <2>2. CASE ReadEvent
    BY <2>2, ReadRefines DEF Channel!ChannelNext
  <2>3. CASE writerDrops
    BY <2>3, DropRefines DEF Channel!ChannelNext
  <2>4. CASE \/ \E s \in SubHals : Begin(s) \/ End(s)
             \/ writerTake \/ writerWrites \/ writerPops
             \/ Waker \/ Acknowledge \/ Expire \/ UNCHANGED vars
    BY <2>4, Stutters
  <2> QED BY <2>1, <2>2, <2>3, <2>4 DEF Next, Writer
<1> QED BY <1>1, <1>2, QueueInit, QueueStep, PTL DEF Spec, ImplementsChannel, Channel!ChannelSpec

=============================================================================
