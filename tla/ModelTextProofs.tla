--------------------------- MODULE ModelTextProofs ---------------------------
(***************************************************************************)
(* What ModelText promises for any projects, macros and texts.             *)
(***************************************************************************)
EXTENDS ModelText, SequenceTheorems, TLAPS

\* Joining texts, over the number of texts joined; ss is the context.
Join(ss, joined, k) == IF k = 1 THEN ss[1] ELSE joined \o ss[k]
Anything(c, k, acc) == TRUE
Joining == INSTANCE FoldInduction WITH Op <- Join, Holds <- Anything

\* FlattenSeq by its last text.
LEMMA FlattenExists ==
  ASSUME NEW ss, NEW n \in Nat, Len(ss) = n
  PROVE  \E f : f = [i \in 1..n |-> IF i = 1 THEN ss[i] ELSE f[i - 1] \o ss[i]]
<1> DEFINE g == Joining!Recursion(ss, << >>)
<1>1. \A k \in Nat : g[k + 1] = Join(ss, g[k], k + 1)
  BY Joining!RecursionRecurs DEF Joining!Recurs
<1> HIDE DEF g
<1> DEFINE f == [i \in 1..n |-> g[i]]
<1>2. ASSUME NEW i \in 1..n
      PROVE  f[i] = IF i = 1 THEN ss[i] ELSE f[i - 1] \o ss[i]
  <2>1. i - 1 \in Nat /\ (i - 1) + 1 = i /\ (i # 1 => i - 1 \in 1..n)
    OBVIOUS
  <2>2. g[i] = Join(ss, g[i - 1], i)
    BY <1>1, <2>1
  <2>3. CASE i = 1
    BY <2>2, <2>3 DEF Join
  <2>4. CASE i # 1
    BY <2>1, <2>2, <2>4 DEF Join
  <2> QED BY <2>3, <2>4
<1>3. f = [i \in 1..n |-> f[i]]
  OBVIOUS
<1> HIDE DEF f
<1>4. f = [i \in 1..n |-> IF i = 1 THEN ss[i] ELSE f[i - 1] \o ss[i]]
  BY <1>2, <1>3
<1> QED BY <1>4

\* Its values, text by text.
LEMMA FlattenSteps ==
  ASSUME NEW ss, Len(ss) \in Nat, Len(ss) # 0
  PROVE  \E f : /\ FlattenSeq(ss) = f[Len(ss)]
                /\ f = [i \in 1..Len(ss) |-> IF i = 1 THEN ss[i] ELSE f[i - 1] \o ss[i]]
<1> DEFINE f == CHOOSE f : f = [i \in 1..Len(ss) |-> IF i = 1 THEN ss[i] ELSE f[i - 1] \o ss[i]]
<1>1. f = [i \in 1..Len(ss) |-> IF i = 1 THEN ss[i] ELSE f[i - 1] \o ss[i]]
  BY FlattenExists
<1>2. FlattenSeq(ss) = f[Len(ss)]
  BY DEF FlattenSeq
<1> HIDE DEF f
<1> QED BY <1>1, <1>2

-----------------------------------------------------------------------------
\* A set of sequences that has the empty one, and with a sequence each that is one
\* element longer, has all.
LEMMA AppendInduction ==
  ASSUME NEW P, NEW X, << >> \in X,
         \A s \in Seq(P), x \in P : s \in X => Append(s, x) \in X
  PROVE  Seq(P) \subseteq X
<1> DEFINE N == { n \in Nat : \A s \in Seq(P) : Len(s) = n => s \in X }
<1>1. 0 \in N
  BY EmptySeq
<1>2. ASSUME NEW n \in N
      PROVE  n + 1 \in N
  <2> SUFFICES ASSUME NEW s \in Seq(P), Len(s) = n + 1 PROVE s \in X
    OBVIOUS
  <2>1. s # << >> /\ n \in Nat
    OBVIOUS
  <2>2. PICK r \in Seq(P), x \in P : s = Append(r, x)
    BY <2>1, SequenceEmptyOrAppend
  <2>3. Len(r) = n /\ r \in X
    BY <2>1, <2>2
  <2> HIDE DEF N
  <2> QED BY <2>2, <2>3
<1>3. Nat \subseteq N
  <2> HIDE DEF N
  <2> QED BY <1>1, <1>2, Joining!SetInduction
<1> QED BY <1>3

-----------------------------------------------------------------------------
(* Texts one after the other.                                               *)

\* None make the empty text.
LEMMA FlattenNone == FlattenSeq(<< >>) = << >>
BY EmptySeq DEF FlattenSeq

\* The last of some texts comes last.
LEMMA FlattenLast ==
  ASSUME NEW S, NEW ss \in Seq(Seq(S)), NEW t \in Seq(S)
  PROVE  FlattenSeq(Append(ss, t)) = IF ss = << >> THEN t ELSE FlattenSeq(ss) \o t
<1> DEFINE n == Len(ss)
           tt == Append(ss, t)
<1>1. n \in Nat /\ Len(tt) = n + 1 /\ tt[n + 1] = t /\ \A i \in 1..n : tt[i] = ss[i]
  OBVIOUS
<1>2. PICK g : /\ FlattenSeq(tt) = g[n + 1]
               /\ g = [i \in 1..(n + 1) |-> IF i = 1 THEN tt[i] ELSE g[i - 1] \o tt[i]]
  <2>1. Len(tt) \in Nat /\ Len(tt) # 0
    BY <1>1
  <2> HIDE DEF tt, n
  <2>2. PICK g : /\ FlattenSeq(tt) = g[Len(tt)]
                 /\ g = [i \in 1..Len(tt) |-> IF i = 1 THEN tt[i] ELSE g[i - 1] \o tt[i]]
    BY <2>1, FlattenSteps
  <2> QED BY <1>1, <2>2
<1>3. CASE ss = << >>
  <2>1. n = 0 /\ g[1] = tt[1]
    BY <1>1, <1>2, <1>3
  <2> QED BY <1>1, <1>2, <1>3, <2>1
<1>4. CASE ss # << >>
  <2>1. n \in Nat \ {0}
    BY <1>4
  <2>2. PICK h : /\ FlattenSeq(ss) = h[n]
                 /\ h = [i \in 1..n |-> IF i = 1 THEN ss[i] ELSE h[i - 1] \o ss[i]]
    BY <2>1, FlattenSteps
  <2> DEFINE N == { k \in Nat : k + 1 \in 1..n => g[k + 1] = h[k + 1] }
  <2> HIDE DEF tt, n
  <2>3. 0 \in N
    <3>1. 1 \in 1..n /\ 1 \in 1..(n + 1) /\ 0 + 1 = 1
      BY <1>1, <2>1
    <3>2. g[1] = tt[1] /\ h[1] = ss[1]
      BY <1>2, <2>2, <3>1
    <3> QED BY <1>1, <3>1, <3>2
  <2>4. ASSUME NEW k \in N
        PROVE  k + 1 \in N
    <3>1. SUFFICES ASSUME (k + 1) + 1 \in 1..n PROVE g[(k + 1) + 1] = h[(k + 1) + 1]
      OBVIOUS
    <3> DEFINE i == (k + 1) + 1
    <3>2. i \in 1..n /\ i \in 1..(n + 1) /\ i # 1 /\ i - 1 = k + 1 /\ k + 1 \in 1..n
      BY <1>1, <3>1
    <3> HIDE DEF i
    <3>3. g[i] = g[i - 1] \o tt[i] /\ h[i] = h[i - 1] \o ss[i]
      BY <1>2, <2>2, <3>2
    <3>4. g[i - 1] = h[i - 1]
      BY <3>2
    <3>5. g[i] = h[i]
      BY <1>1, <3>2, <3>3, <3>4
    <3> QED BY <3>5 DEF i
  <2>5. Nat \subseteq N
    <3> HIDE DEF N
    <3> QED BY <2>3, <2>4, Joining!SetInduction
  <2>6. g[n] = h[n]
    <3>1. n - 1 \in Nat /\ (n - 1) + 1 = n /\ n \in 1..n
      BY <2>1
    <3>2. n - 1 \in N
      BY <2>5, <3>1
    <3> QED BY <3>1, <3>2
  <2>7. n + 1 \in 1..(n + 1) /\ n + 1 # 1 /\ (n + 1) - 1 = n
    BY <2>1
  <2>8. g[n + 1] = g[n] \o tt[n + 1]
    BY <1>2, <2>7
  <2>9. FlattenSeq(tt) = FlattenSeq(ss) \o t
    BY <1>1, <1>2, <2>2, <2>6, <2>8
  <2> QED BY <1>4, <2>9 DEF tt
<1> QED BY <1>3, <1>4

\* What is made of texts is a text.
LEMMA FlattenType ==
  ASSUME NEW S, NEW ss \in Seq(Seq(S))
  PROVE  FlattenSeq(ss) \in Seq(S)
<1> DEFINE X == { tt \in Seq(Seq(S)) : FlattenSeq(tt) \in Seq(S) }
<1>1. << >> \in X
  BY FlattenNone, EmptySeq
<1>2. ASSUME NEW tt \in Seq(Seq(S)), NEW t \in Seq(S), tt \in X
      PROVE  Append(tt, t) \in X
  <2>1. Append(tt, t) \in Seq(Seq(S))
    BY AppendProperties
  <2>2. FlattenSeq(Append(tt, t)) = IF tt = << >> THEN t ELSE FlattenSeq(tt) \o t
    BY FlattenLast
  <2>3. FlattenSeq(Append(tt, t)) \in Seq(S)
    BY <1>2, <2>2, ConcatProperties
  <2> QED BY <2>1, <2>3
<1> HIDE DEF X
<1>3. Seq(Seq(S)) \subseteq X
  BY <1>1, <1>2, AppendInduction
<1> QED BY <1>3 DEF X

\* The same with no exception for the first.
LEMMA FlattenAppend ==
  ASSUME NEW S, NEW ss \in Seq(Seq(S)), NEW t \in Seq(S)
  PROVE  FlattenSeq(Append(ss, t)) = FlattenSeq(ss) \o t
<1>1. << >> \o t = t
  BY ConcatEmptySeq
<1> QED BY <1>1, FlattenLast, FlattenNone

\* Texts in two parts.
LEMMA FlattenConcat ==
  ASSUME NEW S, NEW ss \in Seq(Seq(S)), NEW tt \in Seq(Seq(S))
  PROVE  FlattenSeq(ss \o tt) = FlattenSeq(ss) \o FlattenSeq(tt)
<1> DEFINE X == { uu \in Seq(Seq(S)) : FlattenSeq(ss \o uu) = FlattenSeq(ss) \o FlattenSeq(uu) }
<1>1. << >> \in X
  BY FlattenNone, FlattenType, EmptySeq, ConcatEmptySeq
<1>2. ASSUME NEW uu \in Seq(Seq(S)), NEW u \in Seq(S), uu \in X
      PROVE  Append(uu, u) \in X
  <2>1. Append(uu, u) \in Seq(Seq(S)) /\ ss \o uu \in Seq(Seq(S))
    BY AppendProperties, ConcatProperties
  <2>2. ss \o Append(uu, u) = Append(ss \o uu, u)
    OBVIOUS
  <2>3. /\ FlattenSeq(Append(ss \o uu, u)) = FlattenSeq(ss \o uu) \o u
        /\ FlattenSeq(Append(uu, u)) = FlattenSeq(uu) \o u
    BY <2>1, FlattenAppend
  <2>4. FlattenSeq(ss) \in Seq(S) /\ FlattenSeq(uu) \in Seq(S)
    BY FlattenType
  <2>5. (FlattenSeq(ss) \o FlattenSeq(uu)) \o u = FlattenSeq(ss) \o (FlattenSeq(uu) \o u)
    BY <2>4, ConcatAssociative
  <2> QED BY <1>2, <2>1, <2>2, <2>3, <2>5
<1> HIDE DEF X
<1>3. Seq(Seq(S)) \subseteq X
  BY <1>1, <1>2, AppendInduction
<1> QED BY <1>3 DEF X

\* The pieces of two texts.
LEMMA ToSetConcat ==
  ASSUME NEW S, NEW s \in Seq(S), NEW t \in Seq(S)
  PROVE  ToSet(s \o t) = ToSet(s) \cup ToSet(t)
<1>1. ToSet(s \o t) \subseteq ToSet(s) \cup ToSet(t)
  BY DEF ToSet
<1>2. ToSet(s) \subseteq ToSet(s \o t)
  <2> SUFFICES ASSUME NEW i \in 1..Len(s) PROVE s[i] \in ToSet(s \o t)
    BY DEF ToSet
  <2>1. i \in DOMAIN (s \o t) /\ (s \o t)[i] = s[i]
    OBVIOUS
  <2> QED BY <2>1 DEF ToSet
<1>3. ToSet(t) \subseteq ToSet(s \o t)
  <2> SUFFICES ASSUME NEW i \in 1..Len(t) PROVE t[i] \in ToSet(s \o t)
    BY DEF ToSet
  <2>1. Len(s) + i \in DOMAIN (s \o t) /\ (s \o t)[Len(s) + i] = t[i]
    OBVIOUS
  <2> QED BY <2>1 DEF ToSet
<1> QED BY <1>1, <1>2, <1>3

\* The pieces of a text and one more.
LEMMA ToSetAppend ==
  ASSUME NEW S, NEW s \in Seq(S), NEW x \in S
  PROVE  ToSet(Append(s, x)) = ToSet(s) \cup {x}
<1>1. Append(s, x) = s \o << x >> /\ << x >> \in Seq(S)
  OBVIOUS
<1>2. ToSet(<< x >>) = {x}
  BY DEF ToSet
<1>3. ToSet(s \o << x >>) = ToSet(s) \cup ToSet(<< x >>)
  BY <1>1, ToSetConcat
<1> QED BY <1>1, <1>2, <1>3

\* A function of the numbers up to n is a sequence of what its values are.
LEMMA SequenceOf ==
  ASSUME NEW S, NEW f, NEW n \in Nat, f = [i \in 1..n |-> f[i]], \A i \in 1..n : f[i] \in S
  PROVE  f \in Seq(S) /\ Len(f) = n
OBVIOUS

\* What a text is when each piece of it becomes the text that stage has for it.
Images(s, stage) == [i \in DOMAIN s |-> stage[s[i]]]
Becomes(s, stage) == FlattenSeq(Images(s, stage))

\* The texts the pieces of a text become.
LEMMA ImagesAre ==
  ASSUME NEW P, NEW Q, NEW stage \in [P -> Seq(Q)], NEW s \in Seq(P)
  PROVE  Images(s, stage) \in Seq(Seq(Q))
<1> DEFINE n == Len(s)
           ss == [i \in 1..n |-> stage[s[i]]]
<1>1. n \in Nat /\ DOMAIN s = 1..n /\ \A i \in 1..n : s[i] \in P
  OBVIOUS
<1> HIDE DEF n
<1>2. ss \in [1..n -> Seq(Q)]
  BY <1>1
<1>3. ss \in Seq(Seq(Q)) /\ Len(ss) = n
  BY <1>1, <1>2, SeqDef
<1> QED BY <1>1, <1>3 DEF Images, n

\* There are as many as there are pieces.
LEMMA ImagesLen ==
  ASSUME NEW P, NEW s \in Seq(P), NEW stage
  PROVE  Len(Images(s, stage)) = Len(s)
<1>1. DOMAIN Images(s, stage) = 1..Len(s) /\ Len(s) \in Nat
  BY DEF Images
<1> QED BY <1>1, LenProperties

\* The empty text stays empty.
LEMMA BecomesNone ==
  ASSUME NEW stage
  PROVE  Becomes(<< >>, stage) = << >>
<1>1. Images(<< >>, stage) = << >>
  BY DEF Images
<1> QED BY <1>1, FlattenNone DEF Becomes

\* The last piece comes last.
LEMMA BecomesAppend ==
  ASSUME NEW P, NEW Q, NEW stage \in [P -> Seq(Q)], NEW s \in Seq(P), NEW x \in P
  PROVE  Becomes(Append(s, x), stage) = Becomes(s, stage) \o stage[x]
<1> DEFINE ss == Images(s, stage)
           tt == Images(Append(s, x), stage)
<1>1. /\ ss \in Seq(Seq(Q)) /\ Append(s, x) \in Seq(P) /\ tt \in Seq(Seq(Q))
      /\ Len(ss) = Len(s) /\ Len(tt) = Len(Append(s, x))
  <2>1. Append(s, x) \in Seq(P)
    BY AppendProperties
  <2>2. ss \in Seq(Seq(Q)) /\ tt \in Seq(Seq(Q))
    BY <2>1, ImagesAre
  <2>3. Len(ss) = Len(s) /\ Len(tt) = Len(Append(s, x))
    BY <2>1, ImagesLen
  <2> QED BY <2>1, <2>2, <2>3
<1>2. tt = Append(ss, stage[x])
  <2>1. DOMAIN s = 1..Len(s) /\ DOMAIN Append(s, x) = 1..(Len(s) + 1) /\ Len(s) \in Nat
    OBVIOUS
  <2>2. Len(ss) = Len(s) /\ Len(tt) = Len(s) + 1
    BY <1>1
  <2>3. stage[x] \in Seq(Q)
    OBVIOUS
  <2>4. Append(ss, stage[x]) \in Seq(Seq(Q)) /\ Len(Append(ss, stage[x])) = Len(s) + 1
    BY <1>1, <2>2, <2>3, AppendProperties
  <2>5. ASSUME NEW i \in 1..(Len(s) + 1) PROVE tt[i] = Append(ss, stage[x])[i]
    <3>1. CASE i \in 1..Len(s)
      BY <1>1, <2>1, <2>2, <2>3, <3>1 DEF Images
    <3>2. CASE i = Len(s) + 1
      BY <1>1, <2>1, <2>2, <2>3, <3>2 DEF Images
    <3>3. \A j \in 1..(Len(s) + 1) : j \in 1..Len(s) \/ j = Len(s) + 1
      BY <2>1
    <3> QED BY <3>1, <3>2, <3>3
  <2> HIDE DEF ss, tt
  <2> QED BY <1>1, <2>2, <2>4, <2>5, SeqEqual
<1> HIDE DEF ss, tt
<1>3. FlattenSeq(Append(ss, stage[x])) = FlattenSeq(ss) \o stage[x]
  BY <1>1, FlattenAppend
<1> QED BY <1>2, <1>3 DEF Becomes, ss, tt

\* What a text becomes is a text.
LEMMA BecomesType ==
  ASSUME NEW P, NEW Q, NEW stage \in [P -> Seq(Q)], NEW s \in Seq(P)
  PROVE  Becomes(s, stage) \in Seq(Q)
BY ImagesAre, FlattenType DEF Becomes

\* A text of one piece becomes what that piece becomes.
LEMMA BecomesOne ==
  ASSUME NEW P, NEW Q, NEW stage \in [P -> Seq(Q)], NEW x \in P
  PROVE  Becomes(<< x >>, stage) = stage[x]
<1>1. << x >> = Append(<< >>, x) /\ << >> \in Seq(P) /\ stage[x] \in Seq(Q)
  BY EmptySeq
<1>2. Becomes(<< x >>, stage) = Becomes(<< >>, stage) \o stage[x]
  BY <1>1, BecomesAppend
<1> QED BY <1>1, <1>2, BecomesNone, ConcatEmptySeq

\* The stages that agree on the pieces of a text make the same of it.
LEMMA BecomesAlike ==
  ASSUME NEW s, NEW f, NEW g, \A i \in DOMAIN s : f[s[i]] = g[s[i]]
  PROVE  Becomes(s, f) = Becomes(s, g)
BY DEF Becomes, Images

\* One text after another.
LEMMA BecomesConcat ==
  ASSUME NEW P, NEW Q, NEW stage \in [P -> Seq(Q)], NEW s \in Seq(P), NEW t \in Seq(P)
  PROVE  Becomes(s \o t, stage) = Becomes(s, stage) \o Becomes(t, stage)
<1> DEFINE X == { u \in Seq(P) : Becomes(s \o u, stage) = Becomes(s, stage) \o Becomes(u, stage) }
<1>1. << >> \in X
  <2>1. Becomes(s, stage) \in Seq(Q) /\ s \o << >> = s /\ Becomes(<< >>, stage) = << >>
    BY BecomesNone, BecomesType, ConcatEmptySeq
  <2> QED BY <2>1, EmptySeq, ConcatEmptySeq
<1>2. ASSUME NEW u \in Seq(P), NEW x \in P, u \in X
      PROVE  Append(u, x) \in X
  <2>1. Append(u, x) \in Seq(P) /\ s \o u \in Seq(P)
    BY AppendProperties, ConcatProperties
  <2>2. s \o Append(u, x) = Append(s \o u, x)
    OBVIOUS
  <2>3. /\ Becomes(Append(s \o u, x), stage) = Becomes(s \o u, stage) \o stage[x]
        /\ Becomes(Append(u, x), stage) = Becomes(u, stage) \o stage[x]
    BY <2>1, BecomesAppend
  <2>4. Becomes(s, stage) \in Seq(Q) /\ Becomes(u, stage) \in Seq(Q) /\ stage[x] \in Seq(Q)
    BY BecomesType
  <2>5. (Becomes(s, stage) \o Becomes(u, stage)) \o stage[x]
          = Becomes(s, stage) \o (Becomes(u, stage) \o stage[x])
    BY <2>4, ConcatAssociative
  <2> QED BY <1>2, <2>1, <2>2, <2>3, <2>5
<1> HIDE DEF X
<1>3. Seq(P) \subseteq X
  BY <1>1, <1>2, AppendInduction
<1> QED BY <1>3 DEF X

\* A stage does to joined texts what it does to each.
OnTexts(P, stage) == [t \in Seq(P) |-> Becomes(t, stage)]

\* Over joined texts, or over each.
LEMMA BecomesFlat ==
  ASSUME NEW P, NEW Q, NEW stage \in [P -> Seq(Q)], NEW ss \in Seq(Seq(P))
  PROVE  /\ OnTexts(P, stage) \in [Seq(P) -> Seq(Q)]
         /\ Becomes(FlattenSeq(ss), stage) = Becomes(ss, OnTexts(P, stage))
<1> DEFINE each == OnTexts(P, stage)
           X == { tt \in Seq(Seq(P)) : Becomes(FlattenSeq(tt), stage) = Becomes(tt, each) }
<1>1. each \in [Seq(P) -> Seq(Q)] /\ \A t \in Seq(P) : each[t] = Becomes(t, stage)
  BY BecomesType DEF OnTexts
<1> HIDE DEF each
<1>2. << >> \in X
  BY FlattenNone, BecomesNone, EmptySeq
<1>3. ASSUME NEW tt \in Seq(Seq(P)), NEW t \in Seq(P), tt \in X
      PROVE  Append(tt, t) \in X
  <2>1. Append(tt, t) \in Seq(Seq(P)) /\ FlattenSeq(tt) \in Seq(P)
    BY AppendProperties, FlattenType
  <2>2. FlattenSeq(Append(tt, t)) = FlattenSeq(tt) \o t
    BY FlattenAppend
  <2>3. Becomes(FlattenSeq(tt) \o t, stage) = Becomes(FlattenSeq(tt), stage) \o Becomes(t, stage)
    BY <2>1, BecomesConcat
  <2>4. Becomes(Append(tt, t), each) = Becomes(tt, each) \o each[t]
    BY <1>1, BecomesAppend
  <2> QED BY <1>1, <1>3, <2>1, <2>2, <2>3, <2>4
<1> HIDE DEF X
<1>4. Seq(Seq(P)) \subseteq X
  BY <1>2, <1>3, AppendInduction
<1> QED BY <1>1, <1>4 DEF X, each

\* Two stages one after the other are one.
Then(P, f, g) == [p \in P |-> Becomes(f[p], g)]

\* Over a whole text.
LEMMA BecomesTwice ==
  ASSUME NEW P, NEW f \in [P -> Seq(P)], NEW g \in [P -> Seq(P)], NEW s \in Seq(P)
  PROVE  Becomes(Becomes(s, f), g) = Becomes(s, Then(P, f, g))
<1>1. Images(s, f) \in Seq(Seq(P))
  BY ImagesAre
<1>2. Becomes(Becomes(s, f), g) = Becomes(Images(s, f), OnTexts(P, g))
  BY <1>1, BecomesFlat DEF Becomes
<1>3. Images(Images(s, f), OnTexts(P, g)) = Images(s, Then(P, f, g))
  BY DEF Images, OnTexts, Then
<1> QED BY <1>2, <1>3 DEF Becomes

\* Where the pieces of what a text becomes come from.
LEMMA BecomesFrom ==
  ASSUME NEW P, NEW Q, NEW stage \in [P -> Seq(Q)], NEW s \in Seq(P)
  PROVE  ToSet(Becomes(s, stage)) = UNION {ToSet(stage[x]) : x \in ToSet(s)}
<1> DEFINE X == { u \in Seq(P) : ToSet(Becomes(u, stage)) = UNION {ToSet(stage[x]) : x \in ToSet(u)} }
<1>1. << >> \in X
  BY BecomesNone, EmptySeq DEF ToSet
<1>2. ASSUME NEW u \in Seq(P), NEW y \in P, u \in X
      PROVE  Append(u, y) \in X
  <2>1. Append(u, y) \in Seq(P) /\ stage[y] \in Seq(Q) /\ Becomes(u, stage) \in Seq(Q)
    BY AppendProperties, BecomesType
  <2>2. Becomes(Append(u, y), stage) = Becomes(u, stage) \o stage[y]
    BY BecomesAppend
  <2>3. ToSet(Becomes(u, stage) \o stage[y]) = ToSet(Becomes(u, stage)) \cup ToSet(stage[y])
    BY <2>1, ToSetConcat
  <2>4. ToSet(Append(u, y)) = ToSet(u) \cup {y}
    BY ToSetAppend
  <2> QED BY <1>2, <2>1, <2>2, <2>3, <2>4
<1> HIDE DEF X
<1>3. Seq(P) \subseteq X
  BY <1>1, <1>2, AppendInduction
<1> QED BY <1>3 DEF X

\* Every piece becomes one piece.
Mapped(s, h) == [i \in DOMAIN s |-> h[s[i]]]

\* The text keeps its places.
LEMMA BecomesEach ==
  ASSUME NEW P, NEW f, NEW h, \A p \in P : f[p] = << h[p] >>, NEW s \in Seq(P)
  PROVE  Becomes(s, f) = Mapped(s, h)
<1> DEFINE Q == { h[p] : p \in P }
           g == [p \in P |-> << h[p] >>]
           X == { u \in Seq(P) : Becomes(u, g) = Mapped(u, h) }
<1>1. g \in [P -> Seq(Q)]
  <2>1. ASSUME NEW p \in P
        PROVE  << h[p] >> \in Seq(Q)
    <3>1. h[p] \in Q
      OBVIOUS
    <3> HIDE DEF Q
    <3> QED BY <3>1
  <2> QED BY <2>1
<1>2. << >> \in X
  <2>1. Mapped(<< >>, h) = << >>
    BY DEF Mapped
  <2> QED BY <2>1, BecomesNone, EmptySeq
<1>3. ASSUME NEW u \in Seq(P), NEW y \in P, u \in X
      PROVE  Append(u, y) \in X
  <2>1. Append(u, y) \in Seq(P) /\ g[y] = << h[y] >>
    BY AppendProperties
  <2>2. Becomes(Append(u, y), g) = Becomes(u, g) \o << h[y] >>
    <3> HIDE DEF g, Q
    <3> QED BY <1>1, <2>1, BecomesAppend
  <2> DEFINE v == [i \in DOMAIN u |-> h[u[i]]]
             w == [i \in DOMAIN Append(u, y) |-> h[Append(u, y)[i]]]
  <2>3. v \in Seq(Q) /\ Len(v) = Len(u) /\ Len(u) \in Nat
    <3>1. Len(u) \in Nat /\ DOMAIN u = 1..Len(u) /\ \A i \in 1..Len(u) : h[u[i]] \in Q
      OBVIOUS
    <3> HIDE DEF Q
    <3> QED BY <3>1, SequenceOf
  <2>4. w = v \o << h[y] >>
    <3> DEFINE n == Len(u)
    <3>1. /\ n \in Nat /\ DOMAIN Append(u, y) = 1..(n + 1)
          /\ Append(u, y)[n + 1] = y /\ \A i \in 1..n : Append(u, y)[i] = u[i]
      OBVIOUS
    <3>2. v \in Seq(Q) /\ Len(v) = n /\ \A i \in 1..n : v[i] = h[u[i]]
      BY <2>3
    <3>3. h[y] \in Q
      OBVIOUS
    <3> DEFINE x == v \o << h[y] >>
    <3> HIDE DEF Q, v, n
    <3>4. x \in Seq(Q) /\ Len(x) = n + 1 /\ x[n + 1] = h[y] /\ \A i \in 1..n : x[i] = v[i]
      BY <3>1, <3>2, <3>3
    <3>5. \A i \in 1..(n + 1) : i \in 1..n \/ i = n + 1
      BY <3>1
    <3>6. w = [i \in 1..(n + 1) |-> h[Append(u, y)[i]]]
      BY <3>1
    <3>7. x = [i \in 1..(n + 1) |-> x[i]]
      BY <3>1, <3>4
    <3> HIDE DEF w, x
    <3>8. \A i \in 1..(n + 1) : x[i] = h[Append(u, y)[i]]
      BY <3>1, <3>2, <3>4, <3>5
    <3> QED BY <3>6, <3>7, <3>8 DEF x
  <2> HIDE DEF g
  <2> QED BY <1>3, <2>1, <2>2, <2>4 DEF Mapped
<1>4. Becomes(s, g) = Mapped(s, h)
  <2> HIDE DEF X
  <2>1. Seq(P) \subseteq X
    BY <1>2, <1>3, AppendInduction
  <2> QED BY <2>1 DEF X
<1>5. Becomes(s, f) = Becomes(s, g)
  <2>1. \A i \in DOMAIN s : f[s[i]] = g[s[i]]
    OBVIOUS
  <2> HIDE DEF g
  <2> QED BY <2>1, BecomesAlike
<1> QED BY <1>4, <1>5

-----------------------------------------------------------------------------
\* What the project and the macros have published, and the text that is written.
Deployed ==
  /\ context # <<>> => \A x \in DOMAIN context.vars : context.vars[x] \in Authored
  /\ \A name \in DOMAIN macros :
       macros[name].params \in Seq(Names) /\ macros[name].body \in Seq(Bodies)
  /\ "{{" \notin DOMAIN macros
TextType == Deployed /\ sql \in Seq(Authored)

\* Type correctness: create_dbt_project and create_dbt_macro publish what was declared.
LEMMA TextTyped == TextSpec => []TextType
<1>1. TextInit => TextType
  BY EmptySeq DEF TextInit, TextType, Deployed
<1>2. ASSUME TextType, [TextNext]_textVars
      PROVE  TextType'
  <2>1. CASE \E p \in Projects : DeployProject(p)
    <3>1. PICK p \in Projects : DeployProject(p)
      BY <2>1
    <3>2. context'.vars = p.vars
      BY <3>1 DEF DeployProject
    <3> QED BY <1>2, <3>1, <3>2, TextAssumption DEF DeployProject, TextType, Deployed
  <2>2. CASE \E ms \in MacroSets : DeployMacros(ms)
    <3>1. PICK ms \in MacroSets : DeployMacros(ms)
      BY <2>2
    <3> DEFINE Of(name) == CHOOSE d \in ms : d.name = name
    <3>2. DOMAIN macros' = {m.name : m \in ms}
      BY <3>1 DEF DeployMacros
    <3>3. ASSUME NEW name \in DOMAIN macros'
          PROVE  /\ macros'[name].params \in Seq(Names) /\ macros'[name].body \in Seq(Bodies)
                 /\ name # "{{"
      <4>1. Of(name) \in ms /\ Of(name).name = name
        BY <3>2
      <4>2. macros'[name] = [params |-> Of(name).params, body |-> Of(name).body]
        BY <3>1 DEF DeployMacros
      <4> HIDE DEF Of
      <4>3. /\ Of(name).params \in Seq(Names) /\ Of(name).body \in Seq(Bodies)
            /\ Of(name).name # "{{"
        BY <4>1, TextAssumption
      <4>4. macros'[name].params = Of(name).params /\ macros'[name].body = Of(name).body
        BY <4>2
      <4>5. name # "{{"
        BY <4>1, <4>3
      <4>6. macros'[name].params \in Seq(Names) /\ macros'[name].body \in Seq(Bodies)
        BY <4>3, <4>4
      <4> QED BY <4>5, <4>6
    <3> QED BY <1>2, <3>1, <3>3 DEF DeployMacros, TextType, Deployed
  <2>3. CASE \E p \in Alphabet : Write(p)
    <3>1. PICK p \in Alphabet : Write(p)
      BY <2>3
    <3>2. p \in Authored
      BY TextAssumption
    <3>3. Append(sql, p) \in Seq(Authored)
      BY <1>2, <3>2, AppendProperties DEF TextType
    <3> QED BY <1>2, <3>1, <3>3 DEF Write, TextType, Deployed
  <2>4. CASE UNCHANGED textVars
    BY <1>2, <2>4 DEF textVars, TextType, Deployed
  <2> QED BY <1>2, <2>1, <2>2, <2>3, <2>4 DEF TextNext
<1> QED BY <1>1, <1>2, PTL DEF TextSpec

\* The pieces the stages make.
LEMMA MadePieces ==
  /\ \A kind \in Kinds \cup Made, of \in Names, args \in Seq(Arguments), braced \in BOOLEAN :
       Piece(kind, of, args, braced) \in Pieces
  /\ \A p \in Pieces, args \in Seq(Arguments) : [p EXCEPT !.args = args] \in Pieces
  /\ \A p \in Pieces, braced \in BOOLEAN : [p EXCEPT !.braced = braced] \in Pieces
  /\ \A p \in Pieces : Marked(p) \in Pieces
BY DEF Piece, Pieces, Marked

\* The pieces of a text.
LEMMA PiecesAre ==
  /\ Authored \subseteq Pieces /\ Bodies \subseteq Pieces /\ Arguments \subseteq Pieces
  /\ Error \in Pieces /\ Error.kind = "error" /\ ~Error.raw
  /\ \A p \in Pieces :
       /\ p.kind \in Kinds \cup Made /\ p.of \in Names /\ p.args \in Seq(Arguments)
       /\ p.braced \in BOOLEAN /\ p.raw \in BOOLEAN
<1>1. << >> \in Seq(Arguments)
  BY EmptySeq
<1>2. Arguments \subseteq Pieces
  BY <1>1 DEF Arguments, Pieces
<1>3. Error \in Pieces /\ Error.kind = "error" /\ ~Error.raw
  <2>1. "error" \in Made /\ Error = [kind |-> "error", of |-> "error", args |-> << >>,
                                   braced |-> FALSE, raw |-> FALSE]
    BY DEF Made, Error, Piece
  <2>2. Error \in Pieces
    <3>1. "error" \in Kinds \cup Made
      BY <2>1
    <3>2. "error" \in Names
      BY TextAssumption
    <3>3. FALSE \in BOOLEAN
      OBVIOUS
    <3> QED BY <1>1, <3>1, <3>2, <3>3, MadePieces DEF Error
  <2>3. Error.kind = "error" /\ Error.raw = FALSE
    BY <2>1
  <2> QED BY <2>2, <2>3
<1>4. Authored \subseteq Pieces /\ Bodies \subseteq Pieces
  BY DEF Authored, Bodies
<1> QED BY <1>2, <1>3, <1>4 DEF Pieces

\* Those with a name of their own.
LEMMA TheMade ==
  /\ \A of \in {"{{", "CURRENT_TIMESTAMP"} :
       LET call == Template("call", of, <<>>)
       IN  /\ call \in Pieces /\ call.kind = "call" /\ call.of = of
           /\ call.args = <<>> /\ call.braced = TRUE /\ call.raw = FALSE
  /\ Now \in Arguments /\ Now.kind = "text" /\ Now.braced = FALSE
  /\ /\ Plain("{{") \in Pieces /\ Plain("{{").kind = "text" /\ Plain("{{").args = <<>>
     /\ Plain("{{").braced = FALSE /\ Plain("{{").raw = FALSE
  /\ LET table == Piece("table", "this", <<>>, FALSE)
     IN  /\ table \in Pieces /\ table.kind = "table" /\ table.args = <<>>
         /\ table.braced = FALSE /\ table.raw = FALSE
<1>1. <<>> \in Seq(Arguments) /\ "call" \in Kinds \cup Made /\ "table" \in Kinds \cup Made
  BY EmptySeq DEF Kinds, Made
<1>2. /\ "{{" \in Names /\ "CURRENT_TIMESTAMP" \in Names /\ "this" \in Names
      /\ "CURRENT_TIMESTAMP()" \in Names
  BY TextAssumption
<1>3. ASSUME NEW of \in {"{{", "CURRENT_TIMESTAMP"}
      PROVE  /\ Template("call", of, <<>>) \in Pieces
             /\ Template("call", of, <<>>) = [kind |-> "call", of |-> of, args |-> <<>>,
                                              braced |-> TRUE, raw |-> FALSE]
  <2>1. of \in Names
    BY <1>2
  <2> QED BY <1>1, <2>1, MadePieces DEF Template, Piece
<1>4. Piece("table", "this", <<>>, FALSE) \in Pieces
  BY <1>1, <1>2, MadePieces
<1>5. Now = [kind |-> "text", of |-> "CURRENT_TIMESTAMP()", args |-> <<>>,
             braced |-> FALSE, raw |-> FALSE]
  BY DEF Now, Plain, Piece
<1>6. Now \in Arguments
  BY <1>2, <1>5 DEF Arguments, Kinds
<1>7. ASSUME NEW of \in {"{{", "CURRENT_TIMESTAMP"}
      PROVE  LET call == Template("call", of, <<>>)
             IN  /\ call \in Pieces /\ call.kind = "call" /\ call.of = of
                 /\ call.args = <<>> /\ call.braced = TRUE /\ call.raw = FALSE
  <2> DEFINE call == Template("call", of, <<>>)
  <2>1. call \in Pieces
    BY <1>3
  <2>2. call = [kind |-> "call", of |-> of, args |-> <<>>, braced |-> TRUE, raw |-> FALSE]
    BY <1>3
  <2> HIDE DEF call
  <2>3. /\ call.kind = "call" /\ call.of = of
        /\ call.args = <<>> /\ call.braced = TRUE /\ call.raw = FALSE
    BY <2>2
  <2> QED BY <2>1, <2>3 DEF call
<1>8. Now.kind = "text" /\ Now.braced = FALSE
  BY <1>5
<1>10. /\ Plain("{{") \in Pieces /\ Plain("{{").kind = "text" /\ Plain("{{").args = <<>>
       /\ Plain("{{").braced = FALSE /\ Plain("{{").raw = FALSE
  <2>1. "text" \in Kinds \cup Made
    BY DEF Kinds
  <2>2. Plain("{{") \in Pieces
    BY <1>1, <1>2, <2>1, MadePieces DEF Plain
  <2> DEFINE plain == Plain("{{")
  <2>3. plain = [kind |-> "text", of |-> "{{", args |-> <<>>, braced |-> FALSE, raw |-> FALSE]
    BY DEF Plain, Piece
  <2> HIDE DEF plain
  <2>4. /\ plain.kind = "text" /\ plain.args = <<>> /\ plain.braced = FALSE /\ plain.raw = FALSE
    BY <2>3
  <2> QED BY <2>2, <2>4 DEF plain
<1>9. LET table == Piece("table", "this", <<>>, FALSE)
      IN  /\ table \in Pieces /\ table.kind = "table" /\ table.args = <<>>
          /\ table.braced = FALSE /\ table.raw = FALSE
  <2> DEFINE table == Piece("table", "this", <<>>, FALSE)
  <2>1. table.kind = "table" /\ table.args = <<>> /\ table.braced = FALSE /\ table.raw = FALSE
    BY DEF Piece
  <2>2. table \in Pieces
    BY <1>4
  <2> HIDE DEF table
  <2>3. table \in Pieces /\ table.kind = "table" /\ table.args = <<>>
        /\ table.braced = FALSE /\ table.raw = FALSE
    BY <2>1, <2>2
  <2> QED BY <2>3 DEF table
<1> QED BY <1>6, <1>7, <1>8, <1>9, <1>10

-----------------------------------------------------------------------------
\* The stages, piece by piece; what is set aside stays as it is.
ThisStage == [p \in Pieces |-> IF p.raw THEN <<p>> ELSE This(p)]
ValuedStage == [p \in Pieces |-> IF p.raw THEN <<p>> ELSE <<Valued(p)>>]
BuiltStage == [p \in Pieces |-> IF p.raw THEN <<p>> ELSE <<Built(p)>>]
UnfoldedStage == [p \in Pieces |-> IF p.raw THEN <<p>> ELSE Unfolded(p)]
ResolvedStage == [p \in Pieces |-> IF p.raw THEN <<p>> ELSE Resolved(p)]

\* Each stage of the code is one of them.
LEMMA StagesAre ==
  ASSUME NEW s \in Seq(Pieces)
  PROVE  /\ ReplaceThis(s) = Becomes(s, ThisStage)
         /\ ExpandVars(s) = Becomes(s, ValuedStage)
         /\ ExpandBuiltins(s) = Becomes(s, BuiltStage)
         /\ Round(s) = Becomes(s, UnfoldedStage)
         /\ Each(s, Resolved) = Becomes(s, ResolvedStage)
<1>1. \A i \in DOMAIN s : s[i] \in Pieces
  OBVIOUS
<1>2. ReplaceThis(s) = Becomes(s, ThisStage)
  BY <1>1 DEF ReplaceThis, Each, Becomes, Images, ThisStage
<1>3. ExpandVars(s) = Becomes(s, ValuedStage)
  BY <1>1 DEF ExpandVars, Each, Becomes, Images, ValuedStage
<1>4. ExpandBuiltins(s) = Becomes(s, BuiltStage)
  BY <1>1 DEF ExpandBuiltins, Each, Becomes, Images, BuiltStage
<1>5. Round(s) = Becomes(s, UnfoldedStage)
  BY <1>1 DEF Round, Each, Becomes, Images, UnfoldedStage
<1>6. Each(s, Resolved) = Becomes(s, ResolvedStage)
  BY <1>1 DEF Each, Becomes, Images, ResolvedStage
<1> QED BY <1>2, <1>3, <1>4, <1>5, <1>6

\* A parameter stands somewhere in the list of parameters, or nowhere.
LEMMA PositionIs ==
  ASSUME NEW params \in Seq(Names), NEW p
  PROVE  /\ Position(params, p) \in 0..Len(params)
         /\ p.kind # "param" => Position(params, p) = 0
<1> DEFINE I == { i \in 1..Len(params) : p.kind = "param" /\ p.braced /\ params[i] = p.of }
<1>1. Position(params, p) = IF I # {} THEN Min(I) ELSE 0
  BY DEF Position, SelectInSeq
<1>2. Len(params) \in Nat
  OBVIOUS
<1>3. ASSUME I # {}
      PROVE  Min(I) \in I
  <2> DEFINE n == Len(params)
             J == { n + 1 - i : i \in I }
  <2> HIDE DEF n
  <2>1. \A i \in I : i \in 1..n
    BY DEF n
  <2> HIDE DEF I
  <2>2. n \in Nat /\ J \in SUBSET (1..n) /\ J # {}
    BY <1>2, <1>3, <2>1 DEF n
  <2>3. PICK j \in J : \A k \in J : j >= k
    <3> HIDE DEF J
    <3> QED BY <2>2, Joining!LargestIsLargest
  <2>4. PICK i \in I : j = n + 1 - i
    OBVIOUS
  <2>5. ASSUME NEW k \in I PROVE i <= k
    <3>1. n + 1 - k \in J
      OBVIOUS
    <3>2. n + 1 - i >= n + 1 - k
      BY <2>3, <2>4, <3>1
    <3> QED BY <2>1, <2>2, <3>2
  <2> QED BY <2>5 DEF Min
<1> QED BY <1>1, <1>2, <1>3

\* What a variable stands for, in an argument or by itself.
LEMMA ValueIs ==
  ASSUME Deployed, context # <<>>, NEW p \in Pieces
  PROVE  /\ ValueOf(p) \in Pieces /\ ~ValueOf(p).raw
         /\ p.of \in DOMAIN context.vars => ValueOf(p) # Error
         /\ ValueOf(p) # Error /\ ~ValueOf(p).braced => ValueOf(p) \in Arguments
<1>1. CASE p.of \notin DOMAIN context.vars
  BY <1>1, PiecesAre DEF ValueOf
<1>2. CASE p.of \in DOMAIN context.vars
  <2> DEFINE value == context.vars[p.of]
  <2>1. value \in Authored
    BY <1>2 DEF Deployed
  <2> HIDE DEF value
  <2>2. /\ value \in Pieces /\ value.kind \in Kinds /\ value.braced \in BOOLEAN
        /\ p.braced \in BOOLEAN
    BY <2>1, PiecesAre DEF Authored
  <2>3. CASE p.braced /\ value.braced
    <3>1. ValueOf(p) = Template("call", "{{", <<>>)
      BY <1>2, <2>3 DEF ValueOf, value
    <3>2. /\ ValueOf(p) \in Pieces /\ ValueOf(p).kind = "call" /\ ~ValueOf(p).raw
          /\ ValueOf(p).braced
      BY <3>1, TheMade
    <3> QED BY <2>3, <3>2, PiecesAre
  <2>4. CASE ~(p.braced /\ value.braced)
    <3>1. ValueOf(p) = [value EXCEPT !.braced = p.braced \/ value.braced]
      BY <1>2, <2>4 DEF ValueOf, value
    <3>2. (p.braced \/ value.braced) \in BOOLEAN
      OBVIOUS
    <3>3. ValueOf(p) \in Pieces
      BY <2>2, <3>1, <3>2, MadePieces
    <3>4. /\ ValueOf(p).kind = value.kind /\ ValueOf(p).braced = (p.braced \/ value.braced)
          /\ ValueOf(p).raw = value.raw
      BY <2>2, <3>1 DEF Pieces
    <3>5. ValueOf(p) # Error
      BY <2>2, <3>4, PiecesAre DEF Kinds
    <3>6. ASSUME ~ValueOf(p).braced
          PROVE  ValueOf(p) \in Arguments
      <4>1. ~value.braced /\ ~p.braced
        BY <2>2, <3>4, <3>6
      <4>2. value.kind \in Kinds \ {"config", "ref", "source", "call"} /\ value.args = <<>> /\ ~value.raw
        BY <2>1, <2>2, <4>1 DEF Authored
      <4>3. ValueOf(p) = [value EXCEPT !.braced = FALSE]
        BY <2>2, <3>1, <3>6, <4>1
      <4> QED BY <2>2, <4>2, <4>3 DEF Pieces, Arguments
    <3>7. ~ValueOf(p).raw
      BY <2>1, <3>4 DEF Authored
    <3> QED BY <3>3, <3>5, <3>6, <3>7
  <2> QED BY <2>3, <2>4
<1> QED BY <1>1, <1>2

\* Variables in the arguments of a call.
LEMMA FilledIs ==
  ASSUME Deployed, context # <<>>, NEW args \in Seq(Arguments)
  PROVE  /\ Filled(args) \in Seq(Pieces) /\ Len(Filled(args)) = Len(args)
         /\ DOMAIN Filled(args) = DOMAIN args
         /\ ~Fails(Filled(args)) /\ ~Nested(Filled(args)) =>
              /\ Filled(args) \in Seq(Arguments)
              /\ \A i \in DOMAIN args : ~Filled(args)[i].braced
<1>1. DOMAIN args = 1..Len(args) /\ Len(args) \in Nat /\ \A i \in DOMAIN args : args[i] \in Arguments
  OBVIOUS
<1>2. \A i \in DOMAIN args : args[i] \in Pieces
  BY <1>1, PiecesAre
<1>3. \A i \in DOMAIN args :
        Filled(args)[i] = IF args[i].kind = "var" THEN ValueOf(args[i]) ELSE args[i]
  BY DEF Filled
<1>4. DOMAIN Filled(args) = DOMAIN args
  BY DEF Filled
<1>5. \A i \in DOMAIN args : ValueOf(args[i]) \in Pieces
  BY <1>2, ValueIs
<1>6. \A i \in DOMAIN args : Filled(args)[i] \in Pieces
  BY <1>2, <1>3, <1>5
<1>7. Filled(args) = [i \in 1..Len(args) |-> Filled(args)[i]]
  BY <1>1, <1>4 DEF Filled
<1>8. Filled(args) \in Seq(Pieces) /\ Len(Filled(args)) = Len(args)
  BY <1>1, <1>6, <1>7, SequenceOf
<1>9. ASSUME ~Fails(Filled(args)), ~Nested(Filled(args))
      PROVE  /\ Filled(args) \in Seq(Arguments)
             /\ \A i \in DOMAIN args : ~Filled(args)[i].braced
  <2>0. \A i \in DOMAIN args : ~Filled(args)[i].braced
    BY <1>4, <1>9 DEF Nested
  <2>1. ASSUME NEW i \in DOMAIN args
        PROVE  Filled(args)[i] \in Arguments
    <3>1. CASE args[i].kind = "var"
      <4>1. Filled(args)[i] # Error
        BY <1>4, <1>9 DEF Fails, ToSet
      <4>2. Filled(args)[i] = ValueOf(args[i])
        BY <1>3, <3>1
      <4>3. ValueOf(args[i]) # Error /\ ~ValueOf(args[i]).braced /\ args[i] \in Pieces
        BY <1>2, <2>0, <4>1, <4>2
      <4>4. ValueOf(args[i]) \in Arguments
        BY <4>3, ValueIs
      <4> QED BY <4>2, <4>4
    <3>2. CASE args[i].kind # "var"
      BY <1>1, <1>3, <3>2
    <3> QED BY <3>1, <3>2
  <2> QED BY <1>1, <1>7, <2>0, <2>1, SequenceOf
<1> QED BY <1>4, <1>8, <1>9

\* Builtins in the arguments of a call.
LEMMA TimedIs ==
  ASSUME NEW args \in Seq(Arguments)
  PROVE  /\ Timed(args) \in Seq(Arguments) /\ Len(Timed(args)) = Len(args)
         /\ DOMAIN Timed(args) = DOMAIN args
         /\ \A i \in DOMAIN args :
              Timed(args)[i] = IF args[i].kind = "builtin" THEN Now ELSE args[i]
<1>1. DOMAIN args = 1..Len(args) /\ Len(args) \in Nat /\ \A i \in DOMAIN args : args[i] \in Arguments
  OBVIOUS
<1>2. /\ DOMAIN Timed(args) = DOMAIN args
      /\ \A i \in DOMAIN args : Timed(args)[i] = IF args[i].kind = "builtin" THEN Now ELSE args[i]
  BY DEF Timed
<1>3. Timed(args) = [i \in 1..Len(args) |-> Timed(args)[i]]
  BY <1>1, <1>2 DEF Timed
<1>4. \A i \in 1..Len(args) : Timed(args)[i] \in Arguments
  BY <1>1, <1>2, TheMade
<1>5. Timed(args) \in Seq(Arguments) /\ Len(Timed(args)) = Len(args)
  BY <1>1, <1>3, <1>4, SequenceOf
<1> QED BY <1>2, <1>5

\* What the stages make of a piece.
LEMMA ValuedIs ==
  ASSUME Deployed, context # <<>>, NEW p \in Pieces
  PROVE  Valued(p) \in Pieces /\ (~p.raw => ~Valued(p).raw)
<1>1. p.args \in Seq(Arguments)
  BY PiecesAre
<1>2. CASE p.kind = "var"
  BY <1>2, ValueIs DEF Valued
<1>3. CASE p.kind # "var"
  <2>1. CASE Fails(Filled(p.args))
    BY <1>3, <2>1, PiecesAre DEF Valued
  <2>2. CASE ~Fails(Filled(p.args)) /\ Nested(Filled(p.args))
    BY <1>3, <2>2, TheMade DEF Valued
  <2>3. CASE ~Fails(Filled(p.args)) /\ ~Nested(Filled(p.args))
    <3>1. Filled(p.args) \in Seq(Arguments)
      BY <1>1, <2>3, FilledIs
    <3>2. Valued(p) = [p EXCEPT !.args = Filled(p.args)]
      BY <1>3, <2>3 DEF Valued
    <3>3. Valued(p).raw = p.raw
      BY <3>2 DEF Pieces
    <3> QED BY <3>1, <3>2, <3>3, MadePieces
  <2> QED BY <2>1, <2>2, <2>3
<1> QED BY <1>2, <1>3

\* Builtins leave a piece a piece.
LEMMA BuiltIs ==
  ASSUME NEW p \in Pieces
  PROVE  Built(p) \in Pieces
<1>1. p.args \in Seq(Arguments)
  BY PiecesAre
<1>2. CASE p.kind # "builtin"
  <2>1. Built(p) = [p EXCEPT !.args = Timed(p.args)]
    BY <1>2 DEF Built
  <2>2. Timed(p.args) \in Seq(Arguments)
    BY <1>1, TimedIs
  <2> QED BY <2>1, <2>2, MadePieces
<1>3. CASE p.kind = "builtin"
  BY <1>3, TheMade, PiecesAre DEF Built
<1> QED BY <1>2, <1>3

\* So does the scanner, but for the braces.
LEMMA ScannedIs ==
  ASSUME NEW p \in Pieces
  PROVE  /\ Scanned(p) \in Pieces
         /\ Scanned(p).kind = "error" <=> p.kind = "error"
         /\ ~p.raw => ~Scanned(p).raw
         /\ p.kind = "call" /\ Nested(p.args) => Scanned(p) = Plain("{{")
         /\ ~(p.kind = "call" /\ Nested(p.args)) =>
              /\ Scanned(p).kind = p.kind /\ Scanned(p).of = p.of /\ Scanned(p).args = p.args
              /\ Scanned(p).raw = p.raw
              /\ Scanned(p).braced => p.braced
<1>1. CASE p.kind = "call" /\ Nested(p.args)
  BY <1>1, TheMade DEF Scanned
<1>2. CASE ~(p.kind = "call" /\ Nested(p.args))
  BY <1>2, MadePieces DEF Scanned, Pieces
<1> QED BY <1>1, <1>2

\* Braces and arguments alike, two calls are both of a macro, or neither is.
LEMMA CallsAlike ==
  ASSUME NEW c \in Pieces, NEW d \in Pieces, c.kind = d.kind, c.of = d.of, c.raw = d.raw,
         Len(c.args) = Len(d.args), \A i \in DOMAIN d.args : d.args[i].braced = c.args[i].braced
  PROVE  /\ Nested(c.args) <=> Nested(d.args)
         /\ IsCall(c) <=> IsCall(d)
<1>1. DOMAIN c.args = DOMAIN d.args
  <2>1. c.args \in Seq(Arguments) /\ d.args \in Seq(Arguments)
    BY PiecesAre
  <2> QED BY <2>1
<1>2. Nested(c.args) <=> Nested(d.args)
  BY <1>1 DEF Nested
<1> QED BY <1>2 DEF IsCall

\* An argument in the place of a parameter is an argument.
LEMMA PutIs ==
  ASSUME NEW params \in Seq(Names), NEW args \in Seq(Arguments), Len(args) = Len(params), NEW p
  PROVE  /\ Position(params, p) = 0 => Put(params, args, p) = p
         /\ Position(params, p) # 0 =>
              /\ Position(params, p) \in DOMAIN args
              /\ Put(params, args, p) = args[Position(params, p)]
              /\ Put(params, args, p) \in Arguments
<1>1. Position(params, p) \in 0..Len(params)
  BY PositionIs
<1>2. DOMAIN args = 1..Len(params) /\ Len(params) \in Nat
  OBVIOUS
<1>3. Position(params, p) # 0 => Position(params, p) \in DOMAIN args
  BY <1>1, <1>2
<1> QED BY <1>3 DEF Put

\* A call of the body that is handed arguments is the same call otherwise.
LEMMA HandedIs ==
  ASSUME NEW params \in Seq(Names), NEW args \in Seq(Arguments), Len(args) = Len(params),
         NEW p \in Pieces
  PROVE  LET q == Handed(params, args, p)
         IN  /\ q \in Pieces
             /\ q.kind = p.kind /\ q.of = p.of /\ q.braced = p.braced /\ q.raw = p.raw
             /\ Len(q.args) = Len(p.args) /\ DOMAIN q.args = DOMAIN p.args
             /\ \A j \in DOMAIN p.args : q.args[j] = Put(params, args, p.args[j])
             /\ p.args = <<>> => q = p
<1> DEFINE with == [j \in DOMAIN p.args |-> Put(params, args, p.args[j])]
           q == [p EXCEPT !.args = with]
<1>1. /\ p.args \in Seq(Arguments) /\ DOMAIN p.args = 1..Len(p.args) /\ Len(p.args) \in Nat
      /\ \A j \in DOMAIN p.args : p.args[j] \in Arguments
  <2>1. p.args \in Seq(Arguments)
    BY PiecesAre
  <2> QED BY <2>1
<1>2. \A j \in DOMAIN p.args : Put(params, args, p.args[j]) \in Arguments
  BY <1>1, PutIs
<1>3. /\ DOMAIN with = DOMAIN p.args /\ with = [j \in 1..Len(p.args) |-> with[j]]
      /\ \A j \in DOMAIN p.args : with[j] = Put(params, args, p.args[j])
  BY <1>1
<1> HIDE DEF with
<1>4. with \in Seq(Arguments) /\ Len(with) = Len(p.args)
  <2> DEFINE n == Len(p.args)
  <2>1. n \in Nat /\ with = [j \in 1..n |-> with[j]] /\ \A j \in 1..n : with[j] \in Arguments
    BY <1>1, <1>2, <1>3
  <2> HIDE DEF n
  <2>2. with \in Seq(Arguments) /\ Len(with) = n
    BY <2>1, SequenceOf
  <2> QED BY <2>2 DEF n
<1>5. Handed(params, args, p) = q
  BY DEF Handed, with
<1>6. /\ q \in Pieces /\ q.args = with
      /\ q.kind = p.kind /\ q.of = p.of /\ q.braced = p.braced /\ q.raw = p.raw
  BY <1>4, MadePieces DEF Pieces
<1>7. ASSUME p.args = <<>>
      PROVE  q = p
  <2>1. with = p.args
    BY <1>3, <1>7
  <2> QED BY <2>1 DEF Pieces
<1> HIDE DEF q
<1> QED BY <1>3, <1>4, <1>5, <1>6, <1>7

\* A macro's text with the arguments in it.
LEMMA SubstitutedIs ==
  ASSUME NEW macro, macro.params \in Seq(Names), macro.body \in Seq(Bodies),
         NEW args \in Seq(Arguments), Len(args) = Len(macro.params)
  PROVE  /\ Substituted(macro, args) \in Seq(Pieces)
         /\ DOMAIN Substituted(macro, args) = DOMAIN macro.body
         /\ \A i \in DOMAIN macro.body :
              LET n == Position(macro.params, macro.body[i])
              IN  /\ n = 0 => Substituted(macro, args)[i] = Handed(macro.params, args, macro.body[i])
                  /\ n # 0 => n \in DOMAIN args /\ Substituted(macro, args)[i] = args[n]
<1> DEFINE t == Substituted(macro, args)
           at(i) == Position(macro.params, macro.body[i])
           put(i) == Put(macro.params, args, macro.body[i])
<1>1. /\ DOMAIN t = DOMAIN macro.body
      /\ \A i \in DOMAIN macro.body : t[i] = Handed(macro.params, args, put(i))
  BY DEF Substituted
<1>2. t = [i \in DOMAIN macro.body |-> t[i]]
  BY DEF Substituted
<1>3. DOMAIN macro.body = 1..Len(macro.body) /\ Len(macro.body) \in Nat
  OBVIOUS
<1>4. \A i \in DOMAIN macro.body : /\ at(i) = 0 => put(i) = macro.body[i]
                                   /\ at(i) # 0 => /\ at(i) \in DOMAIN args /\ put(i) = args[at(i)]
                                                   /\ put(i) \in Arguments
  BY PutIs
<1>5. \A i \in DOMAIN macro.body : macro.body[i] \in Pieces
  BY PiecesAre
<1> HIDE DEF t, at, put
<1>6. \A i \in DOMAIN macro.body : put(i) \in Pieces
  BY <1>4, <1>5, PiecesAre
<1>7. \A i \in DOMAIN macro.body : Handed(macro.params, args, put(i)) \in Pieces
  BY <1>6, HandedIs
<1>8. ASSUME NEW i \in DOMAIN macro.body, at(i) # 0
      PROVE  t[i] = args[at(i)]
  <2>1. put(i) \in Pieces /\ put(i).args = <<>>
    BY <1>4, <1>6, <1>8 DEF Arguments
  <2> QED BY <1>1, <1>4, <1>8, <2>1, HandedIs
<1>9. \A i \in DOMAIN macro.body : t[i] \in Pieces
  BY <1>1, <1>7
<1>10. t \in Seq(Pieces)
  BY <1>2, <1>3, <1>9, SequenceOf
<1>11. ASSUME NEW i \in DOMAIN macro.body
       PROVE  /\ at(i) = 0 => t[i] = Handed(macro.params, args, macro.body[i])
              /\ at(i) # 0 => at(i) \in DOMAIN args /\ t[i] = args[at(i)]
  BY <1>1, <1>4, <1>8
<1> QED BY <1>1, <1>10, <1>11 DEF t, at

\* A call becomes its macro's text, or an error.
LEMMA ExpandedIs ==
  ASSUME Deployed, NEW p \in Pieces, IsCall(p)
  PROVE  /\ Expanded(p) \in Seq(Pieces)
         /\ Len(p.args) # Len(macros[p.of].params) => Expanded(p) = <<Error>>
         /\ Len(p.args) = Len(macros[p.of].params) => Expanded(p) = Substituted(macros[p.of], p.args)
<1>1. p.of \in DOMAIN macros /\ p.args \in Seq(Arguments)
  BY PiecesAre DEF IsCall
<1>2. macros[p.of].params \in Seq(Names) /\ macros[p.of].body \in Seq(Bodies)
  BY <1>1 DEF Deployed
<1>3. CASE Len(p.args) # Len(macros[p.of].params)
  BY <1>3, PiecesAre DEF Expanded
<1>4. CASE Len(p.args) = Len(macros[p.of].params)
  BY <1>1, <1>2, <1>4, SubstitutedIs DEF Expanded
<1> QED BY <1>3, <1>4

\* What is resolved is a text.
LEMMA ResolvedIs ==
  ASSUME NEW p \in Pieces
  PROVE  Resolved(p) \in Seq(Pieces)
<1>1. "table" \in Kinds \cup Made /\ "cte" \in Kinds \cup Made
  BY DEF Made
<1>2. p.of \in Names /\ p.args \in Seq(Arguments) /\ <<>> \in Seq(Arguments) /\ FALSE \in BOOLEAN
  BY PiecesAre, EmptySeq
<1>3. /\ Piece("cte", p.of, <<>>, FALSE) \in Pieces /\ Piece("table", p.of, <<>>, FALSE) \in Pieces
      /\ Piece("table", p.of, p.args, FALSE) \in Pieces
  BY <1>1, <1>2, MadePieces
<1>4. Reference(p) \in Seq(Pieces) /\ SourceTable(p) \in Seq(Pieces)
  <2> DEFINE a == Piece("cte", p.of, <<>>, FALSE)
             b == Piece("table", p.of, <<>>, FALSE)
             c == Piece("table", p.of, p.args, FALSE)
  <2>1. a \in Pieces /\ b \in Pieces /\ c \in Pieces /\ Error \in Pieces
    BY <1>3, PiecesAre
  <2>2. /\ Reference(p) = <<Error>> \/ Reference(p) = <<a>> \/ Reference(p) = <<b>>
        /\ SourceTable(p) = <<Error>> \/ SourceTable(p) = <<c>>
    BY DEF Reference, SourceTable
  <2> HIDE DEF a, b, c
  <2>3. \A x \in Pieces : <<x>> \in Seq(Pieces)
    OBVIOUS
  <2>4. /\ <<a>> \in Seq(Pieces) /\ <<b>> \in Seq(Pieces) /\ <<c>> \in Seq(Pieces)
        /\ <<Error>> \in Seq(Pieces)
    BY <2>1, <2>3
  <2>5. Reference(p) \in Seq(Pieces)
    BY <2>2, <2>4
  <2>6. SourceTable(p) \in Seq(Pieces)
    BY <2>2, <2>4
  <2> QED BY <2>5, <2>6
<1>5. Scanned(p) \in Pieces
  BY ScannedIs
<1> QED BY <1>4, <1>5, EmptySeq DEF Resolved

\* Each stage makes texts of pieces.
LEMMA StageTypes ==
  ASSUME Deployed
  PROVE  /\ ThisStage \in [Pieces -> Seq(Pieces)]
         /\ context # <<>> => ValuedStage \in [Pieces -> Seq(Pieces)]
         /\ BuiltStage \in [Pieces -> Seq(Pieces)]
         /\ UnfoldedStage \in [Pieces -> Seq(Pieces)]
         /\ ResolvedStage \in [Pieces -> Seq(Pieces)]
<1>1. \A x \in Pieces : <<x>> \in Seq(Pieces)
  OBVIOUS
<1>2. ThisStage \in [Pieces -> Seq(Pieces)]
  <2>1. \A p \in Pieces : This(p) \in Seq(Pieces)
    BY <1>1, TheMade DEF This
  <2> QED BY <1>1, <2>1 DEF ThisStage
<1>3. context # <<>> => ValuedStage \in [Pieces -> Seq(Pieces)]
  <2>1. context # <<>> => \A p \in Pieces : <<Valued(p)>> \in Seq(Pieces)
    BY <1>1, ValuedIs
  <2> QED BY <1>1, <2>1 DEF ValuedStage
<1>4. BuiltStage \in [Pieces -> Seq(Pieces)]
  <2>1. \A p \in Pieces : <<Built(p)>> \in Seq(Pieces)
    BY <1>1, BuiltIs
  <2> QED BY <1>1, <2>1 DEF BuiltStage
<1>5. UnfoldedStage \in [Pieces -> Seq(Pieces)]
  <2>1. \A p \in Pieces : <<Scanned(p)>> \in Seq(Pieces)
    BY <1>1, ScannedIs
  <2>2. \A p \in Pieces : Unfolded(p) \in Seq(Pieces)
    BY <2>1, ExpandedIs DEF Unfolded
  <2> QED BY <1>1, <2>2 DEF UnfoldedStage
<1>6. ResolvedStage \in [Pieces -> Seq(Pieces)]
  BY <1>1, ResolvedIs DEF ResolvedStage
<1> QED BY <1>2, <1>3, <1>4, <1>5, <1>6

-----------------------------------------------------------------------------
\* Blocks, over the pieces read; the context says which blocks they are.
CutOne(c, acc, p) == Cut(acc, p, c.opening, c.closing, c.body)
Cutting == INSTANCE FoldInduction WITH Op <- CutOne, Holds <- Anything

Start == [out |-> <<>>, held |-> <<>>]
Block(opening, closing, body) == [opening |-> opening, closing |-> closing, body |-> body]
ReadBy(c, s) == Cutting!Fold(c, Start, s)

\* InBlocks, with the pieces read one by one.
LEMMA BlocksAre ==
  ASSUME NEW s, NEW opening, NEW closing, NEW body
  PROVE  LET c == Block(opening, closing, body)
         IN  InBlocks(s, opening, closing, body) = ReadBy(c, s).out \o ReadBy(c, s).held
<1> DEFINE c == Block(opening, closing, body)
<1>1. c.opening = opening /\ c.closing = closing /\ c.body = body
  BY DEF Block
<1> HIDE DEF c
<1>2. FoldLeft(LAMBDA acc, p : Cut(acc, p, opening, closing, body), Start, s) = ReadBy(c, s)
  BY <1>1 DEF FoldLeft, MapThenFoldSet, ReadBy, Cutting!Fold, Cutting!Step, CutOne, Max, Cutting!Largest
<1> QED BY <1>2 DEF InBlocks, Start, c

\* The pieces that are out of their block.
LEMMA CutType ==
  ASSUME NEW S, NEW c, \A x \in S : c.body[x] \in Seq(S),
         NEW acc \in [out : Seq(S), held : Seq(S)], NEW p \in S
  PROVE  CutOne(c, acc, p) \in [out : Seq(S), held : Seq(S)]
<1> DEFINE body == [x \in S |-> c.body[x]]
           tail == Tail(acc.held)
<1>1. acc.out \in Seq(S) /\ acc.held \in Seq(S)
  OBVIOUS
<1>2. CASE acc.held = <<>> /\ IsTag(p, c.opening)
  <2>1. CutOne(c, acc, p) = [acc EXCEPT !.held = <<p>>]
    BY <1>2 DEF CutOne, Cut
  <2>2. <<p>> \in Seq(S)
    OBVIOUS
  <2> QED BY <2>1, <2>2
<1>3. CASE acc.held = <<>> /\ ~IsTag(p, c.opening)
  <2>1. CutOne(c, acc, p) = [acc EXCEPT !.out = Append(acc.out, p)]
    BY <1>3 DEF CutOne, Cut
  <2>2. Append(acc.out, p) \in Seq(S)
    BY <1>1, AppendProperties
  <2> QED BY <2>1, <2>2
<1>4. CASE acc.held # <<>> /\ IsTag(p, c.closing)
  <2>1. tail \in Seq(S)
    BY <1>1, <1>4
  <2> HIDE DEF tail
  <2>2. body \in [S -> Seq(S)]
    OBVIOUS
  <2>3. \A i \in DOMAIN tail : tail[i] \in S /\ body[tail[i]] = c.body[tail[i]]
    BY <2>1
  <2> HIDE DEF body
  <2>4. Becomes(tail, body) \in Seq(S)
    BY <2>1, <2>2, BecomesType
  <2>5. Becomes(tail, body) = Becomes(tail, c.body)
    BY <2>3, BecomesAlike
  <2>6. CutOne(c, acc, p) = [out |-> acc.out \o Becomes(tail, c.body), held |-> <<>>]
    BY <1>4 DEF CutOne, Cut, Becomes, Images, tail
  <2>7. acc.out \o Becomes(tail, c.body) \in Seq(S) /\ <<>> \in Seq(S)
    BY <1>1, <2>4, <2>5, ConcatProperties, EmptySeq
  <2> QED BY <2>6, <2>7
<1>5. CASE acc.held # <<>> /\ ~IsTag(p, c.closing)
  <2>1. CutOne(c, acc, p) = [acc EXCEPT !.held = Append(acc.held, p)]
    BY <1>5 DEF CutOne, Cut
  <2>2. Append(acc.held, p) \in Seq(S)
    BY <1>1, AppendProperties
  <2> QED BY <2>1, <2>2
<1> QED BY <1>2, <1>3, <1>4, <1>5

\* What is made of blocks is made of the pieces.
LEMMA InBlocksType ==
  ASSUME NEW S, NEW s \in Seq(S), NEW opening, NEW closing, NEW body,
         \A x \in S : body[x] \in Seq(S)
  PROVE  InBlocks(s, opening, closing, body) \in Seq(S)
<1> DEFINE c == Block(opening, closing, body)
           X == [out : Seq(S), held : Seq(S)]
           n == Len(s)
<1>1. c.body = body
  BY DEF Block
<1>2. InBlocks(s, opening, closing, body) = ReadBy(c, s).out \o ReadBy(c, s).held
  BY BlocksAre
<1>3. \A x \in S : c.body[x] \in Seq(S)
  BY <1>1
<1> HIDE DEF c
<1>4. Start \in X
  BY EmptySeq DEF Start
<1>5. n \in Nat /\ DOMAIN s = 1..n /\ \A k \in 1..n : s[k] \in S
  OBVIOUS
<1>6. ASSUME NEW k \in 1..n, NEW acc \in X
      PROVE  CutOne(c, acc, s[k]) \in X
  <2>1. s[k] \in S
    BY <1>5
  <2> QED BY <1>3, <2>1, CutType
<1> HIDE DEF X, n
<1>7. ReadBy(c, s) \in X
  BY <1>4, <1>5, <1>6, Cutting!FoldStays DEF ReadBy
<1> QED BY <1>2, <1>7, ConcatProperties DEF X

-----------------------------------------------------------------------------
\* A piece no later stage fails at; the same piece, but for arguments of that kind;
\* and a text of which a checked one has everything else.
Harmless(d) == d.kind # "error" /\ (d.raw \/ (~IsCall(d) /\ ~Fails(Resolved(d))))
Like(c, d) ==
  /\ c.kind = d.kind /\ c.of = d.of /\ ~c.raw /\ ~d.raw /\ c.kind # "error"
  /\ Len(c.args) = Len(d.args)
  /\ \A i \in DOMAIN d.args : /\ d.args[i] = c.args[i] \/ Harmless(d.args[i])
                              /\ d.args[i].braced = c.args[i].braced
Covers(s, t) == \A d \in ToSet(t) : Harmless(d) \/ \E c \in ToSet(s) : Like(c, d)

\* Resolution fails at what is not there.
LEMMA ResolvedFails ==
  ASSUME NEW p \in Pieces, p.kind # "error"
  PROVE  /\ Fails(Resolved(p)) <=> \/ p.kind = "ref" /\ p.of \notin DOMAIN Wired
                                   \/ p.kind = "source" /\ p.of \notin DOMAIN context.sources
         /\ \A x \in ToSet(Resolved(p)) : x = Error \/ x.kind # "error"
<1>1. Error.kind = "error" /\ Error \in ToSet(<<Error>>) /\ \A x : ToSet(<<x>>) = {x}
  BY PiecesAre DEF ToSet
<1> DEFINE a == Piece("cte", p.of, <<>>, FALSE)
           b == Piece("table", p.of, <<>>, FALSE)
           c == Piece("table", p.of, p.args, FALSE)
<1>2. a.kind = "cte" /\ b.kind = "table" /\ c.kind = "table"
  BY DEF Piece
<1>3. CASE p.kind = "config"
  BY <1>3 DEF Resolved, Fails, ToSet
<1>4. CASE p.kind = "ref"
  <2>1. Resolved(p) = Reference(p)
    BY <1>4 DEF Resolved
  <2>2. CASE p.of \notin DOMAIN Wired
    <3>1. Resolved(p) = <<Error>>
      BY <2>1, <2>2 DEF Reference
    <3> QED BY <1>1, <1>4, <2>2, <3>1 DEF Fails
  <2>3. CASE p.of \in DOMAIN Wired
    <3>1. Resolved(p) = <<a>> \/ Resolved(p) = <<b>>
      BY <2>1, <2>3 DEF Reference
    <3> HIDE DEF a, b
    <3>2. \A x \in ToSet(Resolved(p)) : x.kind # "error"
      BY <1>1, <1>2, <3>1
    <3> QED BY <1>1, <1>4, <2>3, <3>2 DEF Fails
  <2> QED BY <2>2, <2>3
<1>5. CASE p.kind = "source"
  <2>1. Resolved(p) = SourceTable(p)
    BY <1>5 DEF Resolved
  <2>2. CASE p.of \notin DOMAIN context.sources
    <3>1. Resolved(p) = <<Error>>
      BY <2>1, <2>2 DEF SourceTable
    <3> QED BY <1>1, <1>5, <2>2, <3>1 DEF Fails
  <2>3. CASE p.of \in DOMAIN context.sources
    <3>1. Resolved(p) = <<c>>
      BY <2>1, <2>3 DEF SourceTable
    <3> HIDE DEF c
    <3>2. \A x \in ToSet(Resolved(p)) : x.kind # "error"
      BY <1>1, <1>2, <3>1
    <3> QED BY <1>1, <1>5, <2>3, <3>2 DEF Fails
  <2> QED BY <2>2, <2>3
<1>6. CASE p.kind \notin {"config", "ref", "source"}
  <2>1. Resolved(p) = <<Scanned(p)>>
    BY <1>6 DEF Resolved
  <2>2. Scanned(p).kind # "error"
    BY ScannedIs
  <2>3. \A x \in ToSet(Resolved(p)) : x.kind # "error"
    BY <1>1, <2>1, <2>2
  <2> QED BY <1>1, <1>6, <2>3 DEF Fails
<1> QED BY <1>3, <1>4, <1>5, <1>6

\* Braces make no difference to that, nor do arguments but those of a macro.
LEMMA HarmlessAlike ==
  ASSUME NEW d \in Pieces, NEW e \in Pieces, d.kind = e.kind, d.of = e.of, d.raw = e.raw,
         d.kind = "call" /\ d.of \in DOMAIN macros => d.args = e.args, Harmless(d)
  PROVE  Harmless(e)
<1>1. e.kind # "error" /\ (IsCall(e) <=> IsCall(d))
  BY DEF Harmless, IsCall
<1>2. Fails(Resolved(e)) <=> Fails(Resolved(d))
  BY <1>1, ResolvedFails
<1> QED BY <1>1, <1>2 DEF Harmless

\* Text and templates that nobody knows.
LEMMA HarmlessKinds ==
  ASSUME Deployed, NEW d \in Pieces
  PROVE  /\ d.kind \notin {"error", "call", "ref", "source"} => Harmless(d)
         /\ d.kind = "call" /\ d.of \notin DOMAIN macros => Harmless(d)
         /\ d.kind # "error" /\ d.raw => Harmless(d)
BY ResolvedFails DEF Harmless, IsCall

\* What is written is like itself.
LEMMA AuthoredLike ==
  ASSUME NEW p \in Bodies \cup Arguments
  PROVE  Like(p, p) /\ p \in Pieces /\ p.kind \in Kinds /\ ~p.raw /\ p.kind # "error"
<1>1. p \in Pieces /\ p.kind \in Kinds /\ ~p.raw
  <2>1. "call" \in Kinds
    BY DEF Kinds
  <2> QED BY <2>1, PiecesAre DEF Bodies, Authored, Arguments
<1>2. p.kind # "error"
  BY <1>1 DEF Kinds
<1> QED BY <1>1, <1>2 DEF Like

\* So is a call of a body, handed what is alike.
LEMMA HandedLike ==
  ASSUME NEW p \in Bodies, NEW params \in Seq(Names),
         NEW a \in Seq(Arguments), Len(a) = Len(params),
         NEW b \in Seq(Arguments), Len(b) = Len(params),
         \A i \in DOMAIN b : (b[i] = a[i] \/ Harmless(b[i])) /\ b[i].braced = a[i].braced
  PROVE  Like(Handed(params, a, p), Handed(params, b, p))
<1> DEFINE c == Handed(params, a, p)
           d == Handed(params, b, p)
<1>1. p \in Pieces /\ p.kind # "error" /\ ~p.raw
  BY AuthoredLike
<1>2. /\ c.kind = p.kind /\ c.of = p.of /\ c.raw = p.raw
      /\ Len(c.args) = Len(p.args)
      /\ \A j \in DOMAIN p.args : c.args[j] = Put(params, a, p.args[j])
  BY <1>1, HandedIs
<1>3. /\ d.kind = p.kind /\ d.of = p.of /\ d.raw = p.raw
      /\ Len(d.args) = Len(p.args) /\ DOMAIN d.args = DOMAIN p.args
      /\ \A j \in DOMAIN p.args : d.args[j] = Put(params, b, p.args[j])
  BY <1>1, HandedIs
<1> HIDE DEF c, d
<1>4. ASSUME NEW j \in DOMAIN p.args
      PROVE  (d.args[j] = c.args[j] \/ Harmless(d.args[j])) /\ d.args[j].braced = c.args[j].braced
  <2> DEFINE n == Position(params, p.args[j])
  <2>1. /\ n = 0 => Put(params, a, p.args[j]) = p.args[j] /\ Put(params, b, p.args[j]) = p.args[j]
        /\ n # 0 => /\ n \in DOMAIN b
                    /\ Put(params, a, p.args[j]) = a[n] /\ Put(params, b, p.args[j]) = b[n]
    BY PutIs
  <2> HIDE DEF n
  <2> QED BY <1>2, <1>3, <2>1
<1>5. Like(c, d)
  BY <1>1, <1>2, <1>3, <1>4 DEF Like
<1> QED BY <1>5 DEF c, d

\* The pieces of a text after a round.
LEMMA RoundPieces ==
  ASSUME Deployed, NEW s \in Seq(Pieces)
  PROVE  /\ Round(s) \in Seq(Pieces)
         /\ ToSet(Round(s)) = UNION {ToSet(UnfoldedStage[x]) : x \in ToSet(s)}
<1> DEFINE stage == UnfoldedStage
<1>1. stage \in [Pieces -> Seq(Pieces)] /\ Round(s) = Becomes(s, stage)
  BY StageTypes, StagesAre
<1> HIDE DEF stage
<1>2. Becomes(s, stage) \in Seq(Pieces)
  BY <1>1, BecomesType
<1>3. ToSet(Becomes(s, stage)) = UNION {ToSet(stage[x]) : x \in ToSet(s)}
  BY <1>1, BecomesFrom
<1> QED BY <1>1, <1>2, <1>3 DEF stage

\* A round of expansion keeps to the text that was checked.
LEMMA RoundCovers ==
  ASSUME Deployed, NEW s \in Seq(Pieces), NEW t \in Seq(Pieces),
         Covers(s, t), ~Fails(Round(s))
  PROVE  Covers(Round(s), Round(t))
<1>2. /\ ToSet(Round(s)) = UNION {ToSet(UnfoldedStage[x]) : x \in ToSet(s)}
      /\ ToSet(Round(t)) = UNION {ToSet(UnfoldedStage[x]) : x \in ToSet(t)}
  BY RoundPieces
<1>3. ToSet(s) \subseteq Pieces /\ ToSet(t) \subseteq Pieces
  BY DEF ToSet
<1>4. \A x : ToSet(<<x>>) = {x}
  BY DEF ToSet
<1>5. SUFFICES ASSUME NEW d \in ToSet(t), NEW e \in ToSet(UnfoldedStage[d])
               PROVE  Harmless(e) \/ \E x \in ToSet(Round(s)) : Like(x, e)
  BY <1>2 DEF Covers
<1>6. d \in Pieces
  BY <1>3
<1>7. CASE Harmless(d)
  <2>1. CASE d.raw
    BY <1>4, <1>6, <1>7, <2>1 DEF UnfoldedStage
  <2>2. CASE ~d.raw
    <3>1. ~IsCall(d)
      BY <1>7, <2>2 DEF Harmless
    <3>2. e = Scanned(d)
      BY <1>4, <1>6, <2>2, <3>1 DEF UnfoldedStage, Unfolded
    <3>3. CASE d.kind = "call" /\ Nested(d.args)
      BY <1>6, <3>2, <3>3, TheMade, ScannedIs, HarmlessKinds
    <3>4. CASE ~(d.kind = "call" /\ Nested(d.args))
      BY <1>6, <1>7, <3>2, <3>4, ScannedIs, HarmlessAlike
    <3> QED BY <3>3, <3>4
  <2> QED BY <2>1, <2>2
<1>8. CASE \E c \in ToSet(s) : Like(c, d)
  <2>1. PICK c \in ToSet(s) : Like(c, d)
    BY <1>8
  <2>2. c \in Pieces /\ ~c.raw /\ ~d.raw /\ c.kind = d.kind /\ c.of = d.of
    BY <1>3, <2>1 DEF Like
  <2>3. ToSet(Unfolded(c)) \subseteq ToSet(Round(s))
    BY <1>2, <2>2 DEF UnfoldedStage
  <2>4. e \in ToSet(Unfolded(d))
    BY <1>6, <2>2 DEF UnfoldedStage
  <2>5. (Nested(c.args) <=> Nested(d.args)) /\ (IsCall(c) <=> IsCall(d))
    <3>1. Len(c.args) = Len(d.args) /\ \A i \in DOMAIN d.args : d.args[i].braced = c.args[i].braced
      BY <2>1 DEF Like
    <3>2. c.raw = d.raw
      BY <1>6, <2>2, PiecesAre
    <3> QED BY <1>6, <2>2, <3>1, <3>2, CallsAlike
  <2>6. CASE ~IsCall(d)
    <3>1. e = Scanned(d) /\ Scanned(c) \in ToSet(Round(s))
      BY <1>4, <2>3, <2>4, <2>5, <2>6 DEF Unfolded
    <3>2. CASE d.kind = "call" /\ Nested(d.args)
      BY <1>6, <3>1, <3>2, TheMade, ScannedIs, HarmlessKinds
    <3>3. CASE ~(d.kind = "call" /\ Nested(d.args))
      <4> DEFINE x == Scanned(c)
                 y == Scanned(d)
      <4>2. /\ x.kind = c.kind /\ x.of = c.of /\ x.args = c.args /\ x.raw = c.raw
            /\ y.kind = d.kind /\ y.of = d.of /\ y.args = d.args /\ y.raw = d.raw
        BY <1>6, <2>2, <2>5, <3>3, ScannedIs
      <4> HIDE DEF x, y
      <4>3. Like(x, y)
        BY <2>1, <4>2 DEF Like
      <4>1. Like(Scanned(c), Scanned(d))
        BY <4>3 DEF x, y
      <4> QED BY <3>1, <4>1
    <3> QED BY <3>2, <3>3
  <2>7. CASE IsCall(d)
    <3> DEFINE macro == macros[d.of]
    <3>1. e \in ToSet(Expanded(d)) /\ ToSet(Expanded(c)) \subseteq ToSet(Round(s))
      BY <2>3, <2>4, <2>5, <2>7 DEF Unfolded
    <3>2. macro.params \in Seq(Names) /\ macro.body \in Seq(Bodies)
      BY <2>7 DEF IsCall, Deployed
    <3>3. Len(c.args) = Len(d.args) /\ c.args \in Seq(Arguments) /\ d.args \in Seq(Arguments)
      BY <1>6, <2>1, <2>2, PiecesAre DEF Like
    <3>4. Len(c.args) = Len(macro.params)
      <4>1. ASSUME Len(c.args) # Len(macro.params) PROVE FALSE
        <5>1. Expanded(c) = <<Error>>
          BY <2>2, <2>5, <2>7, <4>1, ExpandedIs
        <5>2. Error \in ToSet(Round(s))
          BY <1>4, <3>1, <5>1
        <5> QED BY <5>2 DEF Fails
      <4> QED BY <4>1
    <3>5. Expanded(c) = Substituted(macro, c.args) /\ Expanded(d) = Substituted(macro, d.args)
      BY <1>6, <2>2, <2>5, <2>7, <3>3, <3>4, ExpandedIs
    <3> HIDE DEF macro
    <3>6. PICK i \in DOMAIN macro.body : e = Substituted(macro, d.args)[i]
      <4>1. DOMAIN Substituted(macro, d.args) = DOMAIN macro.body
        BY <3>2, <3>3, <3>4, SubstitutedIs
      <4> QED BY <3>1, <3>5, <4>1 DEF ToSet
    <3> DEFINE x == Substituted(macro, c.args)[i]
               n == Position(macro.params, macro.body[i])
    <3>7. x \in ToSet(Round(s))
      <4>1. DOMAIN Substituted(macro, c.args) = DOMAIN macro.body
        BY <3>2, <3>3, <3>4, SubstitutedIs
      <4> QED BY <3>1, <3>5, <4>1 DEF ToSet
    <3>8. /\ n = 0 => /\ x = Handed(macro.params, c.args, macro.body[i])
                      /\ e = Handed(macro.params, d.args, macro.body[i])
          /\ n # 0 => n \in DOMAIN c.args /\ x = c.args[n] /\ n \in DOMAIN d.args /\ e = d.args[n]
      BY <3>2, <3>3, <3>4, <3>6, SubstitutedIs
    <3> HIDE DEF x, n
    <3>9. CASE n = 0
      <4>1. macro.body[i] \in Bodies
        BY <3>2
      <4>2. \A j \in DOMAIN d.args : /\ d.args[j] = c.args[j] \/ Harmless(d.args[j])
                                     /\ d.args[j].braced = c.args[j].braced
        BY <2>1 DEF Like
      <4>3. Like(x, e)
        BY <3>2, <3>3, <3>4, <3>8, <3>9, <4>1, <4>2, HandedLike
      <4> QED BY <3>7, <4>3
    <3>10. CASE n # 0
      <4>1. d.args[n] = c.args[n] \/ Harmless(d.args[n])
        BY <2>1, <3>8, <3>10 DEF Like
      <4>2. c.args[n] \in Arguments
        BY <3>3, <3>8, <3>10
      <4>3. Like(c.args[n], c.args[n])
        BY <4>2, AuthoredLike
      <4> QED BY <3>7, <3>8, <3>10, <4>1, <4>3
    <3> QED BY <3>9, <3>10
  <2> QED BY <2>6, <2>7
<1> QED BY <1>7, <1>8 DEF Covers

\* An error stays in the text.
LEMMA ErrorStays ==
  ASSUME Deployed, NEW s \in Seq(Pieces), Fails(s)
  PROVE  Fails(Round(s))
<1>2. ToSet(Round(s)) = UNION {ToSet(UnfoldedStage[x]) : x \in ToSet(s)}
  BY RoundPieces
<1>3. UnfoldedStage[Error] = <<Error>>
  <2>1. Error \in Pieces /\ Error.kind = "error" /\ ~Error.raw /\ ~IsCall(Error)
    BY PiecesAre DEF IsCall
  <2>2. Scanned(Error) = Error
    <3>1. Error.braced = FALSE
      BY DEF Error, Piece
    <3>2. [Error EXCEPT !.braced = FALSE] = Error
      BY <2>1, <3>1 DEF Pieces
    <3> QED BY <2>1, <3>2 DEF Scanned
  <2> QED BY <2>1, <2>2 DEF UnfoldedStage, Unfolded
<1>4. Error \in ToSet(<<Error>>)
  BY DEF ToSet
<1> QED BY <1>2, <1>3, <1>4 DEF Fails

-----------------------------------------------------------------------------
\* The text after a number of rounds.
RoundOne(c, t, k) == Round(t)
Expanding == INSTANCE FoldInduction WITH Op <- RoundOne, Holds <- Anything

Upto(n) == [k \in 1..n |-> k]
After(s, n) == Expanding!Fold(0, s, Upto(n))

\* One round after another.
LEMMA AfterIs ==
  ASSUME NEW s
  PROVE  /\ After(s, 0) = s
         /\ \A n \in Nat : After(s, n + 1) = Round(After(s, n))
<1>1. After(s, 0) = s
  <2>1. DOMAIN Upto(0) = 1..0
    BY DEF Upto
  <2> QED BY <2>1, Expanding!FoldOfNone DEF After
<1>2. ASSUME NEW n \in Nat
      PROVE  After(s, n + 1) = Round(After(s, n))
  <2>1. /\ DOMAIN Upto(n + 1) = 1..(n + 1) /\ DOMAIN Upto(n) = 1..n
        /\ \A i \in 1..n : Upto(n)[i] = Upto(n + 1)[i]
    BY DEF Upto
  <2>2. Expanding!Fold(0, s, Upto(n + 1))
          = RoundOne(0, Expanding!Fold(0, s, Upto(n)), Upto(n + 1)[n + 1])
    BY <2>1, Expanding!FoldToLast
  <2> QED BY <2>2 DEF After, RoundOne
<1> QED BY <1>1, <1>2

\* It is a text.
LEMMA AfterType ==
  ASSUME Deployed, NEW s \in Seq(Pieces), NEW n \in Nat
  PROVE  After(s, n) \in Seq(Pieces)
<1> DEFINE S == { k \in Nat : After(s, k) \in Seq(Pieces) }
<1>1. 0 \in S
  BY AfterIs
<1>2. \A k \in Nat : k \in S => k + 1 \in S
  BY AfterIs, RoundPieces
<1> HIDE DEF S
<1>3. n \in S
  BY <1>1, <1>2, Joining!SetInduction
<1> QED BY <1>3 DEF S

\* The first round may be counted by itself.
LEMMA AfterFirst ==
  ASSUME NEW s, NEW n \in Nat
  PROVE  After(s, n + 1) = After(Round(s), n)
<1> DEFINE S == { k \in Nat : After(s, k + 1) = After(Round(s), k) }
<1>1. 0 \in S
  <2>1. After(s, 0 + 1) = Round(After(s, 0))
    BY AfterIs
  <2> QED BY <2>1, AfterIs
<1>2. ASSUME NEW k \in Nat, k \in S
      PROVE  k + 1 \in S
  <2>1. After(s, (k + 1) + 1) = Round(After(s, k + 1))
    BY AfterIs
  <2>2. After(Round(s), k + 1) = Round(After(Round(s), k))
    BY AfterIs
  <2> QED BY <1>2, <2>1, <2>2
<1> HIDE DEF S
<1>3. n \in S
  BY <1>1, <1>2, Joining!SetInduction
<1> QED BY <1>3 DEF S

\* expand_macros: the last round finds no call.
LEMMA RoundsAre ==
  ASSUME NEW s
  PROVE  LET n == MaxIterations - 1
         IN  /\ n \in Nat
             /\ Calls(After(s, n)) = {} => Rounds(s) = Round(After(s, n))
             /\ Calls(After(s, n)) # {} => Rounds(s) = <<Error>>
<1> DEFINE n == MaxIterations - 1
<1>1. n \in Nat
  <2>1. MaxIterations \in Nat \ {0}
    BY TextAssumption
  <2> QED BY <2>1
<1>2. Grown(s, n) = After(s, n)
  BY DEF Grown, FoldLeft, MapThenFoldSet, After, Upto, Expanding!Fold, Expanding!Step, RoundOne, Max,
         Expanding!Largest
<1> QED BY <1>1, <1>2 DEF Rounds

\* Rounds of expansion keep to the text that was checked, as far as it has no error.
LEMMA AfterCovers ==
  ASSUME Deployed, NEW s \in Seq(Pieces), NEW t \in Seq(Pieces), Covers(s, t),
         NEW n \in Nat, ~Fails(After(s, n))
  PROVE  Covers(After(s, n), After(t, n))
<1> DEFINE S == { k \in Nat : ~Fails(After(s, k)) => Covers(After(s, k), After(t, k)) }
<1>1. 0 \in S
  BY AfterIs
<1>2. ASSUME NEW k \in Nat, k \in S
      PROVE  k + 1 \in S
  <2>1. SUFFICES ASSUME ~Fails(After(s, k + 1))
                 PROVE  Covers(After(s, k + 1), After(t, k + 1))
    OBVIOUS
  <2>2. /\ After(s, k) \in Seq(Pieces) /\ After(t, k) \in Seq(Pieces)
        /\ After(s, k + 1) = Round(After(s, k)) /\ After(t, k + 1) = Round(After(t, k))
    BY AfterIs, AfterType
  <2>3. ~Fails(After(s, k))
    BY <2>1, <2>2, ErrorStays
  <2> QED BY <1>2, <2>1, <2>2, <2>3, RoundCovers
<1> HIDE DEF S
<1>3. n \in S
  BY <1>1, <1>2, Joining!SetInduction
<1> QED BY <1>3 DEF S

\* What has no call in a checked text has none in a text it covers.
LEMMA CallsCovered ==
  ASSUME NEW s \in Seq(Pieces), NEW t \in Seq(Pieces), Covers(s, t), Calls(s) = {}
  PROVE  Calls(t) = {}
<1>1. SUFFICES ASSUME NEW i \in DOMAIN t, IsCall(t[i]) PROVE FALSE
  BY DEF Calls
<1>2. t[i] \in ToSet(t) /\ ~Harmless(t[i])
  BY <1>1 DEF ToSet, Harmless, IsCall
<1>3. PICK c \in ToSet(s) : Like(c, t[i])
  BY <1>2 DEF Covers
<1>4. c \in Pieces /\ t[i] \in Pieces
  BY <1>3 DEF ToSet
<1>5. IsCall(c)
  <2>1. /\ c.kind = t[i].kind /\ c.of = t[i].of /\ c.raw = t[i].raw /\ Len(c.args) = Len(t[i].args)
        /\ \A j \in DOMAIN t[i].args : t[i].args[j].braced = c.args[j].braced
    BY <1>3, <1>4, PiecesAre DEF Like
  <2> QED BY <1>1, <1>4, <2>1, CallsAlike
<1> QED BY <1>3, <1>5 DEF Calls, ToSet

\* The expansion of a text whose check expanded what covers it: no error on the way.
LEMMA ExpansionCovered ==
  ASSUME Deployed, NEW s \in Seq(Pieces), NEW t \in Seq(Pieces), Covers(s, t),
         ~Fails(ExpandMacros(s)), ~TooLong(t)
  PROVE  /\ ExpandMacros(s) \in Seq(Pieces) /\ ExpandMacros(t) \in Seq(Pieces)
         /\ Covers(ExpandMacros(s), ExpandMacros(t))
         /\ DOMAIN macros # {} =>
              LET n == MaxIterations - 1
              IN  Calls(After(t, n)) = {} /\ ExpandMacros(t) = Round(After(t, n))
<1>0. ~TooLong(s)
  BY DEF ExpandMacros, Fails, ToSet
<1>1. CASE DOMAIN macros = {}
  BY <1>0, <1>1 DEF ExpandMacros
<1>2. CASE DOMAIN macros # {}
  <2> DEFINE n == MaxIterations - 1
  <2>1. /\ n \in Nat /\ ExpandMacros(s) = Rounds(s) /\ ExpandMacros(t) = Rounds(t)
        /\ Calls(After(s, n)) = {} => Rounds(s) = Round(After(s, n))
        /\ Calls(After(s, n)) # {} => Rounds(s) = <<Error>>
        /\ Calls(After(t, n)) = {} => Rounds(t) = Round(After(t, n))
    BY <1>0, <1>2, RoundsAre DEF ExpandMacros
  <2> HIDE DEF n
  <2>2. Fails(<<Error>>)
    BY DEF Fails, ToSet
  <2>3. Calls(After(s, n)) = {} /\ Rounds(s) = Round(After(s, n))
    BY <2>1, <2>2
  <2>4. After(s, n) \in Seq(Pieces) /\ After(t, n) \in Seq(Pieces)
    BY <2>1, AfterType
  <2>5. ~Fails(After(s, n))
    BY <2>1, <2>3, <2>4, ErrorStays
  <2>6. Covers(After(s, n), After(t, n))
    BY <2>1, <2>5, AfterCovers
  <2>7. Calls(After(t, n)) = {}
    BY <2>3, <2>4, <2>6, CallsCovered
  <2>8. Covers(Round(After(s, n)), Round(After(t, n)))
    BY <2>1, <2>3, <2>4, <2>6, RoundCovers
  <2>9. Round(After(s, n)) \in Seq(Pieces) /\ Round(After(t, n)) \in Seq(Pieces)
    BY <2>4, RoundPieces
  <2> QED BY <2>1, <2>3, <2>7, <2>8, <2>9 DEF n
<1> QED BY <1>1, <1>2

-----------------------------------------------------------------------------
\* What a variable, or a builtin, brings in is known by itself.
Safe(p) ==
  /\ p.kind = "var" =>
       /\ p.of \in DOMAIN context.vars
       /\ context.vars[p.of].kind # "call" /\ ~Fails(Resolved(context.vars[p.of]))
       /\ context.vars[p.of].kind = "builtin" => "CURRENT_TIMESTAMP" \notin DOMAIN macros
  /\ p.kind = "builtin" /\ p.braced => "CURRENT_TIMESTAMP" \notin DOMAIN macros

\* The value of a variable stops no later stage.
LEMMA ValueHarmless ==
  ASSUME Deployed, context # <<>>, NEW p \in Pieces, p.kind = "var", Safe(p)
  PROVE  /\ Harmless(ValueOf(p)) /\ ValueOf(p) \in Pieces /\ ValueOf(p) # Error
         /\ ValueOf(p).kind = "builtin" => "CURRENT_TIMESTAMP" \notin DOMAIN macros
         /\ ValueOf(p).kind = "call" => ValueOf(p).of \notin DOMAIN macros
<1> DEFINE value == context.vars[p.of]
<1>1. p.of \in DOMAIN context.vars
  BY DEF Safe
<1>2. value \in Authored
  BY <1>1 DEF Deployed
<1>3. /\ value.kind # "call" /\ ~Fails(Resolved(value))
      /\ value.kind = "builtin" => "CURRENT_TIMESTAMP" \notin DOMAIN macros
  BY DEF Safe
<1>4. ValueOf(p) = IF p.braced /\ value.braced THEN Template("call", "{{", <<>>)
                   ELSE [value EXCEPT !.braced = p.braced \/ value.braced]
  BY <1>1 DEF ValueOf
<1> HIDE DEF value
<1>5. value \in Pieces /\ value.kind \in Kinds /\ ~value.raw
  BY <1>2, PiecesAre DEF Authored
<1>6. ValueOf(p) \in Pieces /\ ValueOf(p) # Error
  BY <1>1, ValueIs
<1>7. Harmless(value)
  BY <1>3, <1>5 DEF Harmless, IsCall, Kinds
<1>8. CASE p.braced /\ value.braced
  <2>1. ValueOf(p).kind = "call" /\ ValueOf(p).of = "{{"
    BY <1>4, <1>8, TheMade
  <2>2. "{{" \notin DOMAIN macros
    BY DEF Deployed
  <2> QED BY <1>6, <2>1, <2>2, HarmlessKinds
<1>9. CASE ~(p.braced /\ value.braced)
  <2>1. ValueOf(p) = [value EXCEPT !.braced = p.braced \/ value.braced]
    BY <1>4, <1>9
  <2>2. ValueOf(p).kind = value.kind /\ ValueOf(p).of = value.of /\ ValueOf(p).raw = value.raw
    BY <1>5, <2>1 DEF Pieces
  <2> QED BY <1>3, <1>5, <1>6, <1>7, <2>2, HarmlessAlike
<1> QED BY <1>8, <1>9

\* Nor does what a builtin is replaced by.
LEMMA BuiltHarmless ==
  ASSUME Deployed, NEW p \in Pieces, Harmless(p), p.kind = "call" => p.of \notin DOMAIN macros,
         p.kind = "builtin" /\ p.braced => "CURRENT_TIMESTAMP" \notin DOMAIN macros
  PROVE  Harmless(Built(p)) /\ Built(p) \in Pieces
<1>1. Built(p) \in Pieces
  BY BuiltIs
<1>2. CASE p.kind # "builtin"
  <2>1. Built(p) = [p EXCEPT !.args = Timed(p.args)]
    BY <1>2 DEF Built
  <2>2. Built(p).kind = p.kind /\ Built(p).of = p.of /\ Built(p).raw = p.raw
    BY <2>1 DEF Pieces
  <2> QED BY <1>1, <2>2, HarmlessAlike
<1>3. CASE p.kind = "builtin" /\ p.braced
  <2>1. Built(p).kind = "call" /\ Built(p).of = "CURRENT_TIMESTAMP"
    BY <1>3, TheMade DEF Built
  <2> QED BY <1>1, <1>3, <2>1, HarmlessKinds
<1>4. CASE p.kind = "builtin" /\ ~p.braced
  <2>1. Built(p).kind = "text"
    BY <1>4, TheMade DEF Built
  <2> QED BY <1>1, <2>1, HarmlessKinds
<1> QED BY <1>2, <1>3, <1>4

\* The arguments of a call, variables and builtins replaced: there is no template among
\* them, or the call is one that nobody knows.
LEMMA ArgumentCovered ==
  ASSUME Deployed, context # <<>>, NEW args \in Seq(Arguments), \A i \in DOMAIN args : Safe(args[i])
  PROVE  /\ ~Fails(Filled(args))
         /\ ~Nested(Filled(args)) =>
              /\ Len(Timed(Filled(args))) = Len(args)
              /\ DOMAIN Timed(Filled(args)) = DOMAIN args
              /\ \A i \in DOMAIN args :
                   \/ Timed(Filled(args))[i] = args[i]
                   \/ Harmless(Timed(Filled(args))[i])
              /\ \A i \in DOMAIN args : ~Timed(Filled(args))[i].braced
<1>1. \A i \in DOMAIN args : args[i] \in Pieces /\ args[i] \in Arguments
  BY PiecesAre
<1>2. /\ DOMAIN Filled(args) = DOMAIN args /\ Len(Filled(args)) = Len(args)
      /\ \A i \in DOMAIN args :
           Filled(args)[i] = IF args[i].kind = "var" THEN ValueOf(args[i]) ELSE args[i]
  BY FilledIs DEF Filled
<1>3. \A i \in DOMAIN args : args[i].kind = "var" =>
        Harmless(ValueOf(args[i])) /\ ValueOf(args[i]) \in Pieces /\ ValueOf(args[i]) # Error
  BY <1>1, ValueHarmless
<1>4. \A i \in DOMAIN args : args[i] # Error
  BY <1>1, PiecesAre DEF Arguments, Kinds
<1>5. ~Fails(Filled(args))
  BY <1>2, <1>3, <1>4 DEF Fails, ToSet
<1>6. ASSUME ~Nested(Filled(args))
      PROVE  /\ Len(Timed(Filled(args))) = Len(args)
             /\ DOMAIN Timed(Filled(args)) = DOMAIN args
             /\ \A i \in DOMAIN args :
                  \/ Timed(Filled(args))[i] = args[i]
                  \/ Harmless(Timed(Filled(args))[i])
             /\ \A i \in DOMAIN args : ~Timed(Filled(args))[i].braced
  <2>0. Filled(args) \in Seq(Arguments) /\ \A i \in DOMAIN args : ~Filled(args)[i].braced
    BY <1>5, <1>6, FilledIs
  <2>1. /\ Len(Timed(Filled(args))) = Len(args)
        /\ DOMAIN Timed(Filled(args)) = DOMAIN args
        /\ \A i \in DOMAIN args : Timed(Filled(args))[i]
             = IF Filled(args)[i].kind = "builtin" THEN Now ELSE Filled(args)[i]
    BY <1>2, <2>0, TimedIs
  <2>2. Harmless(Now)
    BY TheMade, PiecesAre, HarmlessKinds
  <2>3. ASSUME NEW i \in DOMAIN args
        PROVE  Timed(Filled(args))[i] = args[i] \/ Harmless(Timed(Filled(args))[i])
    <3>1. CASE Filled(args)[i].kind = "builtin"
      BY <2>1, <2>2, <3>1
    <3>2. CASE Filled(args)[i].kind # "builtin"
      <4>1. Timed(Filled(args))[i] = Filled(args)[i]
        BY <2>1, <3>2
      <4> QED BY <1>2, <1>3, <4>1
    <3> QED BY <3>1, <3>2
  <2>4. \A i \in DOMAIN args : ~Timed(Filled(args))[i].braced
    BY <2>0, <2>1, TheMade
  <2> QED BY <2>1, <2>3, <2>4
<1> QED BY <1>5, <1>6

\* A piece, variables and builtins replaced.
LEMMA PieceCovered ==
  ASSUME Deployed, context # <<>>, NEW p \in Pieces, ~p.raw, p.kind # "error",
         Safe(p), \A i \in DOMAIN p.args : Safe(p.args[i]), ~Nested(p.args)
  PROVE  Harmless(Built(Valued(p))) \/ Like(p, Built(Valued(p)))
<1>1. p.args \in Seq(Arguments)
  BY PiecesAre
<1>2. CASE p.kind = "var"
  <2>1. Valued(p) = ValueOf(p)
    BY <1>2 DEF Valued
  <2> QED BY <1>2, <2>1, ValueHarmless, BuiltHarmless
<1>3. CASE p.kind # "var"
  <2>1. ~Fails(Filled(p.args))
    BY <1>1, ArgumentCovered
  <2>2. CASE Nested(Filled(p.args))
    <3>1. Valued(p) = Template("call", "{{", <<>>)
      BY <1>3, <2>1, <2>2 DEF Valued
    <3>2. Valued(p) \in Pieces /\ Valued(p).kind = "call" /\ Valued(p).of = "{{"
      BY <3>1, TheMade
    <3>3. Harmless(Valued(p))
      BY <3>2, HarmlessKinds DEF Deployed
    <3> QED BY <3>2, <3>3, BuiltHarmless DEF Deployed
  <2>3. CASE ~Nested(Filled(p.args))
    <3> DEFINE filled == Filled(p.args)
               q == [p EXCEPT !.args = filled]
    <3>1. Valued(p) = q
      BY <1>3, <2>1, <2>3 DEF Valued
    <3>2. filled \in Seq(Arguments)
      BY <1>1, <2>1, <2>3, FilledIs
    <3>3. /\ Len(Timed(filled)) = Len(p.args) /\ DOMAIN Timed(filled) = DOMAIN p.args
          /\ \A i \in DOMAIN p.args : /\ \/ Timed(filled)[i] = p.args[i]
                                         \/ Harmless(Timed(filled)[i])
                                      /\ ~Timed(filled)[i].braced
      BY <1>1, <2>3, ArgumentCovered
    <3>4. Timed(filled) \in Seq(Arguments)
      BY <3>2, TimedIs
    <3> HIDE DEF filled
    <3>5. q \in Pieces
      BY <3>2, MadePieces
    <3>6. /\ q.kind = p.kind /\ q.of = p.of /\ q.args = filled /\ q.braced = p.braced
          /\ q.raw = p.raw
      BY DEF Pieces
    <3> HIDE DEF q
    <3>7. CASE p.kind # "builtin"
      <4> DEFINE r == [q EXCEPT !.args = Timed(filled)]
      <4>1. Built(q) = r
        BY <3>6, <3>7 DEF Built
      <4>2. r.kind = q.kind /\ r.of = q.of /\ r.args = Timed(filled) /\ r.raw = q.raw
        BY <3>5 DEF Pieces
      <4> HIDE DEF r
      <4>3. /\ DOMAIN r.args = DOMAIN p.args
            /\ \A i \in DOMAIN p.args : r.args[i].braced = FALSE /\ p.args[i].braced = FALSE
        <5>1. \A i \in DOMAIN p.args : /\ Timed(filled)[i].braced \in BOOLEAN
                                       /\ p.args[i].braced \in BOOLEAN
          <6>1. \A i \in DOMAIN p.args : Timed(filled)[i] \in Arguments /\ p.args[i] \in Arguments
            BY <1>1, <3>3, <3>4
          <6> QED BY <6>1 DEF Arguments
        <5> QED BY <3>3, <4>2, <5>1 DEF Nested
      <4>4. Like(p, r)
        BY <3>3, <3>6, <4>2, <4>3 DEF Like
      <4> QED BY <3>1, <4>1, <4>4
    <3>8. CASE p.kind = "builtin"
      <4>1. Harmless(q)
        BY <3>5, <3>6, <3>8, HarmlessKinds
      <4>2. q.kind = "builtin" /\ q.braced => "CURRENT_TIMESTAMP" \notin DOMAIN macros
        BY <3>6, <3>8 DEF Safe
      <4>3. q.kind # "call"
        BY <3>6, <3>8
      <4> QED BY <3>1, <3>5, <4>1, <4>2, <4>3, BuiltHarmless
    <3> QED BY <3>7, <3>8
  <2> QED BY <2>2, <2>3
<1> QED BY <1>2, <1>3

\* Two stages for pieces are one.
LEMMA StagesThen ==
  ASSUME NEW f \in [Pieces -> Seq(Pieces)], NEW g \in [Pieces -> Seq(Pieces)]
  PROVE  /\ Then(Pieces, f, g) \in [Pieces -> Seq(Pieces)]
         /\ \A s \in Seq(Pieces) : Becomes(Becomes(s, f), g) = Becomes(s, Then(Pieces, f, g))
         /\ \A p \in Pieces : Then(Pieces, f, g)[p] = Becomes(f[p], g)
<1>1. \A p \in Pieces : Becomes(f[p], g) \in Seq(Pieces)
  BY BecomesType
<1>2. ASSUME NEW s \in Seq(Pieces)
      PROVE  Becomes(Becomes(s, f), g) = Becomes(s, Then(Pieces, f, g))
  BY BecomesTwice
<1> QED BY <1>1, <1>2 DEF Then

\* Three stages are one.
Replaced == Then(Pieces, Then(Pieces, ThisStage, ValuedStage), BuiltStage)

\* What they make of a text and of each piece.
LEMMA ReplacedIs ==
  ASSUME Deployed, context # <<>>
  PROVE  /\ Replaced \in [Pieces -> Seq(Pieces)]
         /\ \A s \in Seq(Pieces) :
              ExpandBuiltins(ExpandVars(ReplaceThis(s))) = Becomes(s, Replaced)
         /\ \A p \in Pieces : p.raw => Replaced[p] = <<p>>
         /\ \A p \in Pieces : ~p.raw /\ p.kind = "this" /\ p.braced =>
              Replaced[p] = <<Built(Valued(Piece("table", "this", <<>>, FALSE)))>>
         /\ \A p \in Pieces : ~p.raw /\ ~(p.kind = "this" /\ p.braced) =>
              Replaced[p] = <<Built(Valued(p))>>
<1> DEFINE first == Then(Pieces, ThisStage, ValuedStage)
<1>1. /\ ThisStage \in [Pieces -> Seq(Pieces)] /\ ValuedStage \in [Pieces -> Seq(Pieces)]
      /\ BuiltStage \in [Pieces -> Seq(Pieces)]
  BY StageTypes
<1>2. /\ first \in [Pieces -> Seq(Pieces)]
      /\ \A s \in Seq(Pieces) : Becomes(Becomes(s, ThisStage), ValuedStage) = Becomes(s, first)
      /\ \A p \in Pieces : first[p] = Becomes(ThisStage[p], ValuedStage)
  BY <1>1, StagesThen
<1> HIDE DEF first
<1>3. /\ Then(Pieces, first, BuiltStage) \in [Pieces -> Seq(Pieces)]
      /\ \A s \in Seq(Pieces) :
           Becomes(Becomes(s, first), BuiltStage) = Becomes(s, Then(Pieces, first, BuiltStage))
      /\ \A p \in Pieces : Then(Pieces, first, BuiltStage)[p] = Becomes(first[p], BuiltStage)
  BY <1>1, <1>2, StagesThen
<1>4. Replaced = Then(Pieces, first, BuiltStage)
  BY DEF Replaced, first
<1>5. ASSUME NEW s \in Seq(Pieces)
      PROVE  ExpandBuiltins(ExpandVars(ReplaceThis(s))) = Becomes(s, Replaced)
  <2>1. Becomes(s, ThisStage) \in Seq(Pieces)
    BY <1>1, BecomesType
  <2>2. Becomes(Becomes(s, ThisStage), ValuedStage) \in Seq(Pieces)
    BY <1>1, <2>1, BecomesType
  <2>3. ReplaceThis(s) = Becomes(s, ThisStage)
    BY StagesAre
  <2>4. ExpandVars(ReplaceThis(s)) = Becomes(Becomes(s, ThisStage), ValuedStage)
    BY <2>1, <2>3, StagesAre
  <2>5. ExpandBuiltins(ExpandVars(ReplaceThis(s)))
          = Becomes(Becomes(Becomes(s, ThisStage), ValuedStage), BuiltStage)
    BY <2>2, <2>4, StagesAre
  <2> QED BY <1>2, <1>3, <1>4, <2>5
<1>6. \A p \in Pieces : first[p] = Becomes(ThisStage[p], ValuedStage)
  BY <1>2
<1>7. \A p \in Pieces : Replaced[p] = Becomes(first[p], BuiltStage)
  BY <1>3, <1>4
<1>8. \A x \in Pieces : /\ Becomes(<<x>>, ValuedStage) = ValuedStage[x]
                        /\ Becomes(<<x>>, BuiltStage) = BuiltStage[x]
  BY <1>1, BecomesOne
<1>9. ASSUME NEW p \in Pieces, p.raw
      PROVE  Replaced[p] = <<p>>
  <2>1. ThisStage[p] = <<p>> /\ ValuedStage[p] = <<p>> /\ BuiltStage[p] = <<p>>
    BY <1>9 DEF ThisStage, ValuedStage, BuiltStage
  <2> QED BY <1>6, <1>7, <1>8, <2>1
<1>10. ASSUME NEW p \in Pieces, ~p.raw, NEW x \in Pieces, ThisStage[p] = <<x>>, ~x.raw
       PROVE  Replaced[p] = <<Built(Valued(x))>>
  <2>1. Valued(x) \in Pieces /\ ~Valued(x).raw /\ ValuedStage[x] = <<Valued(x)>>
    BY <1>10, ValuedIs DEF ValuedStage
  <2>2. Replaced[p] = BuiltStage[Valued(x)]
    BY <1>6, <1>7, <1>8, <1>10, <2>1
  <2> QED BY <2>1, <2>2 DEF BuiltStage
<1>11. ASSUME NEW p \in Pieces, ~p.raw, ~(p.kind = "this" /\ p.braced)
       PROVE  ThisStage[p] = <<p>>
  BY <1>11 DEF ThisStage, This
<1>12. ASSUME NEW p \in Pieces, ~p.raw, p.kind = "this" /\ p.braced
       PROVE  Replaced[p] = <<Built(Valued(Piece("table", "this", <<>>, FALSE)))>>
  <2> DEFINE x == Piece("table", "this", <<>>, FALSE)
  <2>1. ThisStage[p] = <<x>>
    BY <1>12 DEF ThisStage, This
  <2>2. x \in Pieces /\ x.kind = "table" /\ x.args = <<>> /\ ~x.raw
    BY TheMade
  <2> HIDE DEF x
  <2> QED BY <1>10, <1>12, <2>1, <2>2 DEF x
<1> QED BY <1>3, <1>4, <1>5, <1>9, <1>10, <1>11, <1>12

\* The blocks of a text hold its pieces, set aside or not.
LEMMA BlocksPieces ==
  ASSUME NEW s \in Seq(Authored), ~HasNul(s), NEW keep
  PROVE  IncrementalBlocks(ProtectRaw(s), keep) \in Seq(ToSet(s) \cup {Marked(x) : x \in ToSet(s)})
<1> DEFINE S == ToSet(s) \cup {Marked(x) : x \in ToSet(s)}
           raw == [p \in Pieces |-> <<Marked(p)>>]
           blocks == [p \in Pieces |-> IF keep THEN <<p>> ELSE <<>>]
<1>1. ToSet(s) \subseteq Pieces
  BY PiecesAre DEF ToSet
<1>2. \A x \in ToSet(s) : Marked(x) \in Pieces /\ Marked(Marked(x)) = Marked(x)
  BY <1>1, MadePieces DEF Marked, Pieces
<1>3. S \subseteq Pieces /\ \A x \in S : Marked(x) \in S
  BY <1>1, <1>2
<1>4. s \in Seq(S)
  <2>1. DOMAIN s = 1..Len(s) /\ Len(s) \in Nat /\ s = [i \in 1..Len(s) |-> s[i]]
    OBVIOUS
  <2>2. \A i \in 1..Len(s) : s[i] \in S
    BY <2>1 DEF ToSet
  <2> HIDE DEF S
  <2> QED BY <2>1, <2>2, SequenceOf
<1> HIDE DEF S
<1>5. \A x \in S : <<x>> \in Seq(S) /\ <<>> \in Seq(S)
  OBVIOUS
<1>6. \A x \in S : raw[x] \in Seq(S) /\ blocks[x] \in Seq(S)
  BY <1>3, <1>5
<1> HIDE DEF raw, blocks
<1>7. InBlocks(s, "raw", "endraw", raw) \in Seq(S)
  BY <1>4, <1>6, InBlocksType
<1>8. InBlocks(InBlocks(s, "raw", "endraw", raw), "if", "endif", blocks) \in Seq(S)
  BY <1>6, <1>7, InBlocksType
<1> QED BY <1>8 DEF IncrementalBlocks, ProtectRaw, raw, blocks, S

\* preprocess brings in nothing that was not in the text, but what is known by itself.
LEMMA PreprocessCovers ==
  ASSUME Deployed, context # <<>>, NEW s \in Seq(Authored), ~HasNul(s),
         \A p \in Uses(s) : Safe(p), NEW keep
  PROVE  Preprocess(s, keep) \in Seq(Pieces) /\ Covers(s, Preprocess(s, keep))
<1> DEFINE S == ToSet(s) \cup {Marked(x) : x \in ToSet(s)}
           t == IncrementalBlocks(ProtectRaw(s), keep)
<1>1. t \in Seq(S)
  BY BlocksPieces
<1>2. \A x \in ToSet(s) : x \in Authored /\ x \in Pieces /\ ~x.raw /\ x.kind \in Kinds
                          /\ ~Nested(x.args)
  <2>1. ASSUME NEW x \in Authored PROVE ~Nested(x.args)
    <3>1. CASE x.kind \notin {"source", "call"}
      BY <3>1 DEF Authored, Nested
    <3>2. CASE x.kind \in {"source", "call"}
      BY <3>2 DEF Authored, Nested
    <3> QED BY <3>1, <3>2
  <2> QED BY <2>1, PiecesAre DEF ToSet, Authored
<1>3. \A x \in ToSet(s) : /\ Marked(x) \in Pieces /\ Marked(x).raw /\ Marked(x).kind = x.kind
  BY <1>2, MadePieces DEF Marked, Pieces
<1>4. ToSet(t) \subseteq S /\ t \in Seq(Pieces)
  <2>1. S \subseteq Pieces
    BY <1>2, <1>3
  <2>2. Seq(S) \subseteq Seq(Pieces)
    BY <2>1
  <2> HIDE DEF S, t
  <2> QED BY <1>1, <2>2 DEF ToSet
<1>5. Preprocess(s, keep) = Becomes(t, Replaced) /\ Replaced \in [Pieces -> Seq(Pieces)]
  BY <1>4, ReplacedIs DEF Preprocess
<1> HIDE DEF t
<1>6. Becomes(t, Replaced) \in Seq(Pieces)
  BY <1>4, <1>5, BecomesType
<1>7. ToSet(Becomes(t, Replaced)) = UNION {ToSet(Replaced[x]) : x \in ToSet(t)}
  BY <1>4, <1>5, BecomesFrom
<1>8. \A x : ToSet(<<x>>) = {x}
  BY DEF ToSet
<1>9. ASSUME NEW x \in S, NEW d \in ToSet(Replaced[x])
      PROVE  Harmless(d) \/ \E c \in ToSet(s) : Like(c, d)
  <2>1. CASE x \in {Marked(y) : y \in ToSet(s)}
    <3>1. x \in Pieces /\ x.raw /\ x.kind # "error"
      BY <1>2, <1>3, <2>1 DEF Kinds
    <3>2. d = x
      BY <1>8, <1>9, <3>1, ReplacedIs
    <3> QED BY <3>1, <3>2, HarmlessKinds
  <2>2. CASE x \in ToSet(s)
    <3>1. x \in Pieces /\ ~x.raw /\ x.kind # "error"
      BY <1>2, <2>2 DEF Kinds
    <3>2. Safe(x) /\ \A i \in DOMAIN x.args : Safe(x.args[i])
      <4>1. PICK i \in DOMAIN s : s[i] = x
        BY <2>2 DEF ToSet
      <4>2. x \in Uses(s) /\ \A k \in DOMAIN x.args : x.args[k] \in Uses(s)
        BY <4>1 DEF Uses, ToSet
      <4> QED BY <4>2
    <3>3. CASE x.kind = "this" /\ x.braced
      <4> DEFINE y == Piece("table", "this", <<>>, FALSE)
      <4>1. y \in Pieces /\ y.kind = "table" /\ y.args = <<>> /\ ~y.raw
        BY TheMade
      <4>0. Replaced[x] = <<Built(Valued(y))>>
        BY <3>1, <3>3, ReplacedIs
      <4>2. d = Built(Valued(y))
        BY <1>8, <1>9, <4>0
      <4> HIDE DEF y
      <4>3. Safe(y) /\ (\A i \in DOMAIN y.args : Safe(y.args[i])) /\ ~Nested(y.args)
        BY <4>1 DEF Safe, Nested
      <4>4. Harmless(d) \/ Like(y, d)
        BY <4>1, <4>2, <4>3, PieceCovered
      <4>5. Like(y, d) => Harmless(d)
        <5>1. d \in Pieces
          BY <4>1, <4>2, ValuedIs, BuiltIs
        <5> QED BY <4>1, <5>1, HarmlessKinds DEF Like
      <4> QED BY <4>4, <4>5
    <3>4. CASE ~(x.kind = "this" /\ x.braced)
      <4>1. d = Built(Valued(x))
        BY <1>8, <1>9, <3>1, <3>4, ReplacedIs
      <4>2. Harmless(d) \/ Like(x, d)
        BY <1>2, <2>2, <3>1, <3>2, <4>1, PieceCovered
      <4> QED BY <2>2, <4>2
    <3> QED BY <3>3, <3>4
  <2> QED BY <2>1, <2>2
<1> QED BY <1>4, <1>5, <1>6, <1>7, <1>9 DEF Covers

\* What the hypotheses say of the pieces.
LEMMA AllSafe ==
  ASSUME NEW s \in Seq(Authored), VarsKnown(s), VarsResolve(s),
         "CURRENT_TIMESTAMP" \notin DOMAIN macros
  PROVE  \A p \in Uses(s) : Safe(p)
BY DEF VarsKnown, VarsResolve, Safe

\* What Created comes to, when nothing in the expanded text fails.
LEMMA CreatedIs ==
  ASSUME Deployed, NEW s, NEW t, t \in Seq(Pieces), NEW keep,
         t = ExpandMacros(Preprocess(s, keep)),
         \A d \in ToSet(t) : d.kind # "error" /\ (d.raw \/ ~Fails(Resolved(d)))
  PROVE  /\ Created(s, keep) = RestoreRaw(Becomes(t, ResolvedStage))
         /\ Becomes(t, ResolvedStage) \in Seq(Pieces)
         /\ \A x \in ToSet(Becomes(t, ResolvedStage)) : x.kind # "error"
<1> DEFINE resolved == Becomes(t, ResolvedStage)
<1>1. ResolvedStage \in [Pieces -> Seq(Pieces)] /\ Each(t, Resolved) = resolved
  BY StageTypes, StagesAre
<1>2. resolved \in Seq(Pieces)
  BY <1>1, BecomesType
<1>3. ToSet(resolved) = UNION {ToSet(ResolvedStage[x]) : x \in ToSet(t)}
  BY <1>1, BecomesFrom
<1>4. ToSet(t) \subseteq Pieces
  BY DEF ToSet
<1>5. \A x : ToSet(<<x>>) = {x}
  BY DEF ToSet
<1>6. ASSUME NEW d \in ToSet(t), NEW x \in ToSet(ResolvedStage[d])
      PROVE  x.kind # "error"
  <2>1. d \in Pieces /\ d.kind # "error" /\ (d.raw \/ ~Fails(Resolved(d)))
    BY <1>4
  <2>2. CASE d.raw
    BY <1>5, <1>6, <2>1, <2>2 DEF ResolvedStage
  <2>3. CASE ~d.raw
    <3>1. x \in ToSet(Resolved(d)) /\ ~Fails(Resolved(d))
      BY <1>6, <2>1, <2>3 DEF ResolvedStage
    <3> QED BY <2>1, <3>1, ResolvedFails DEF Fails
  <2> QED BY <2>2, <2>3
<1>7. \A x \in ToSet(resolved) : x.kind # "error"
  BY <1>3, <1>6
<1>8. ~Fails(resolved)
  BY <1>7, PiecesAre DEF Fails
<1> HIDE DEF resolved
<1>9. Created(s, keep) = RestoreRaw(resolved)
  BY <1>1, <1>8 DEF Created
<1> QED BY <1>2, <1>7, <1>9 DEF resolved

\* The text that was checked covers what is created from it: nothing fails.
LEMMA AcceptedCreates ==
  ASSUME Deployed, context # <<>>, NEW s \in Seq(Authored), Accepted(s),
         \A p \in Uses(s) : Safe(p), NEW keep, ~Refused(s, keep)
  PROVE  LET t == Preprocess(s, keep)
         IN  /\ t \in Seq(Pieces) /\ ExpandMacros(t) \in Seq(Pieces)
             /\ \A d \in ToSet(ExpandMacros(t)) : d.kind # "error" /\ (d.raw \/ ~Fails(Resolved(d)))
             /\ DOMAIN macros # {} =>
                  LET n == MaxIterations - 1
                  IN  Calls(After(t, n)) = {} /\ ExpandMacros(t) = Round(After(t, n))
<1> DEFINE t == Preprocess(s, keep)
<1>1. t \in Seq(Pieces) /\ Covers(s, t) /\ ~TooLong(t)
  BY PreprocessCovers DEF Refused
<1>2. s \in Seq(Pieces)
  <2>1. Seq(Authored) \subseteq Seq(Pieces)
    BY PiecesAre
  <2> QED BY <2>1
<1> HIDE DEF t
<1>3. ~Fails(ExpandMacros(s))
  BY DEF Accepted
<1>4. /\ ExpandMacros(s) \in Seq(Pieces) /\ ExpandMacros(t) \in Seq(Pieces)
      /\ Covers(ExpandMacros(s), ExpandMacros(t))
      /\ DOMAIN macros # {} =>
           LET n == MaxIterations - 1
           IN  Calls(After(t, n)) = {} /\ ExpandMacros(t) = Round(After(t, n))
  BY <1>1, <1>2, <1>3, ExpansionCovered
<1>5. ASSUME NEW d \in ToSet(ExpandMacros(t))
      PROVE  d.kind # "error" /\ (d.raw \/ ~Fails(Resolved(d)))
  <2>1. d \in Pieces
    BY <1>4 DEF ToSet
  <2>2. CASE Harmless(d)
    BY <2>2 DEF Harmless
  <2>3. CASE \E c \in ToSet(ExpandMacros(s)) : Like(c, d)
    <3>1. PICK c \in ToSet(ExpandMacros(s)) : Like(c, d)
      BY <2>3
    <3>2. Known(c)
      BY DEF Accepted, ToSet
    <3>3. d.kind = c.kind /\ d.of = c.of /\ d.kind # "error"
      BY <3>1 DEF Like
    <3>4. /\ d.kind = "ref" => d.of \in DOMAIN Wired
          /\ d.kind = "source" => d.of \in DOMAIN context.sources
      BY <3>2, <3>3 DEF Known
    <3> QED BY <2>1, <3>3, <3>4, ResolvedFails
  <2> QED BY <1>4, <2>2, <2>3 DEF Covers
<1> QED BY <1>1, <1>4, <1>5 DEF t

\* What Check accepts, Create can resolve (check_dbt_model in validate.rs against
\* create_dbt_model in handlers.rs), but for NUL and for what preprocessing makes too
\* long: whatever the text, the project and the macros, those that hand their parameters
\* on to other macros included, whose variables are declared, resolve and bring no
\* template into the arguments of a call, and with no macro named CURRENT_TIMESTAMP.
THEOREM AcceptedResolvesHolds == TextSpec => []AcceptedResolves
<1>1. TextType => AcceptedResolves
  <2> SUFFICES ASSUME TextType, context # <<>>, Accepted(sql), VarsKnown(sql), VarsResolve(sql),
                      "CURRENT_TIMESTAMP" \notin DOMAIN macros, NEW keep \in BOOLEAN,
                      ~Refused(sql, keep)
               PROVE  ~Fails(Created(sql, keep))
    BY DEF AcceptedResolves
  <2>1. Deployed /\ sql \in Seq(Authored)
    BY DEF TextType
  <2>2. \A p \in Uses(sql) : Safe(p)
    BY <2>1, AllSafe
  <2> DEFINE t == ExpandMacros(Preprocess(sql, keep))
             resolved == Becomes(t, ResolvedStage)
  <2>3. /\ t \in Seq(Pieces)
        /\ \A d \in ToSet(t) : d.kind # "error" /\ (d.raw \/ ~Fails(Resolved(d)))
    BY <2>1, <2>2, AcceptedCreates
  <2>4. /\ Created(sql, keep) = RestoreRaw(resolved) /\ resolved \in Seq(Pieces)
        /\ \A x \in ToSet(resolved) : x.kind # "error"
    BY <2>1, <2>3, CreatedIs
  <2> HIDE DEF t, resolved
  <2>5. ASSUME NEW i \in DOMAIN RestoreRaw(resolved)
        PROVE  RestoreRaw(resolved)[i] # Error
    <3>1. i \in DOMAIN resolved /\ RestoreRaw(resolved)[i] = [resolved[i] EXCEPT !.raw = FALSE]
      BY DEF RestoreRaw
    <3>2. resolved[i] \in Pieces /\ resolved[i].kind # "error"
      BY <2>4, <3>1 DEF ToSet
    <3>3. RestoreRaw(resolved)[i].kind # "error"
      BY <3>1, <3>2 DEF Pieces
    <3> QED BY <3>3, PiecesAre
  <2> QED BY <2>4, <2>5 DEF Fails, ToSet
<1> QED BY <1>1, TextTyped, PTL

-----------------------------------------------------------------------------
\* Positions of tags, one after another.
LEMMA EnteredNext ==
  ASSUME NEW O \in SUBSET Nat, NEW C \in SUBSET Nat, O \cap C = {}, NEW i \in Nat
  PROVE  LET j == i + 1
         IN  /\ j \in O => Entered(O, C, j + 1)
             /\ j \in C => ~Entered(O, C, j + 1) /\ Closed(C, i)
             /\ j \notin O /\ j \notin C => (Entered(O, C, j + 1) <=> Entered(O, C, j))
             /\ j \notin C /\ Entered(O, C, j) => Entered(O, C, j + 1)
             /\ j \notin C => (Closed(C, i) <=> Closed(C, j))
<1> DEFINE j == i + 1
<1>1. j \in Nat /\ \A k \in Nat : (k < j + 1 <=> k < j \/ k = j) /\ (i < k <=> j < k \/ k = j)
  OBVIOUS
<1>2. j \in O => Entered(O, C, j + 1)
  <2>1. j < j + 1 /\ \A k \in C : ~(j < k /\ k < j + 1)
    BY <1>1
  <2> QED BY <2>1 DEF Entered
<1>3. ASSUME j \in C
      PROVE  ~Entered(O, C, j + 1) /\ Closed(C, i)
  <2>1. i < j
    OBVIOUS
  <2>2. ASSUME NEW k \in O, k < j + 1
        PROVE  k < j /\ j < j + 1
    BY <1>1, <1>3, <2>2
  <2> QED BY <1>3, <2>1, <2>2 DEF Entered, Closed
<1>4. j \notin C => \A m \in O : (\A k \in C : ~(m < k /\ k < j + 1)) <=> (\A k \in C : ~(m < k /\ k < j))
  BY <1>1
<1>5. j \notin O => \A m \in O : m < j + 1 <=> m < j
  BY <1>1
<1>6. j \notin O /\ j \notin C => (Entered(O, C, j + 1) <=> Entered(O, C, j))
  <2> HIDE DEF j
  <2> QED BY <1>4, <1>5 DEF Entered
<1>7. j \notin C /\ Entered(O, C, j) => Entered(O, C, j + 1)
  <2>1. \A m \in O : m < j => m < j + 1
    BY <1>1
  <2> HIDE DEF j
  <2> QED BY <1>4, <2>1 DEF Entered
<1>8. j \notin C => (Closed(C, i) <=> Closed(C, j))
  <2> HIDE DEF j
  <2> QED BY <1>1 DEF Closed
<1> QED BY <1>2, <1>3, <1>6, <1>7, <1>8

\* Reading the pieces of a text one by one.
LEMMA ReadIs ==
  ASSUME NEW c, \A x \in Pieces : c.body[x] \in Seq(Pieces)
  PROVE  /\ ReadBy(c, <<>>) = Start
         /\ \A u \in Seq(Pieces) :
              /\ ReadBy(c, u) \in [out : Seq(Pieces), held : Seq(Pieces)]
              /\ \A x \in Pieces : ReadBy(c, Append(u, x)) = CutOne(c, ReadBy(c, u), x)
<1> DEFINE X == [out : Seq(Pieces), held : Seq(Pieces)]
<1>1. ReadBy(c, <<>>) = Start
  <2>1. DOMAIN <<>> = 1..0
    OBVIOUS
  <2> QED BY <2>1, Cutting!FoldOfNone DEF ReadBy
<1>2. ASSUME NEW u \in Seq(Pieces)
      PROVE  ReadBy(c, u) \in X
  <2> DEFINE n == Len(u)
  <2>1. Start \in X
    BY EmptySeq DEF Start
  <2>2. n \in Nat /\ DOMAIN u = 1..n /\ \A k \in 1..n : u[k] \in Pieces
    OBVIOUS
  <2>3. ASSUME NEW k \in 1..n, NEW acc \in X
        PROVE  CutOne(c, acc, u[k]) \in X
    <3>1. u[k] \in Pieces
      BY <2>2
    <3> QED BY <3>1, CutType
  <2> HIDE DEF X, n
  <2> QED BY <2>1, <2>2, <2>3, Cutting!FoldStays DEF ReadBy
<1>3. ASSUME NEW u \in Seq(Pieces), NEW x \in Pieces
      PROVE  ReadBy(c, Append(u, x)) = CutOne(c, ReadBy(c, u), x)
  <2> DEFINE n == Len(u)
             v == Append(u, x)
  <2>1. /\ n \in Nat /\ DOMAIN u = 1..n /\ DOMAIN v = 1..(n + 1)
        /\ v[n + 1] = x /\ \A k \in 1..n : u[k] = v[k]
    OBVIOUS
  <2> HIDE DEF n, v
  <2>2. Cutting!Fold(c, Start, v) = CutOne(c, Cutting!Fold(c, Start, u), v[n + 1])
    BY <2>1, Cutting!FoldToLast
  <2> QED BY <2>1, <2>2 DEF ReadBy, v
<1> QED BY <1>1, <1>2, <1>3

\* A text with holes: where its tags are, and what a block makes of each place.
Texts == {<<>>} \cup {<<p>> : p \in Pieces}
Opened(a, tag) == {i \in DOMAIN a : a[i] # <<>> /\ IsTag(a[i][1], tag)}
PlaceIn(O, C, i, outside, inside) ==
  IF Edge(O, C, i) THEN <<>> ELSE IF Within(O, C, i) THEN inside ELSE outside
PlaceOf(c, a, i) ==
  IF a[i] = <<>> THEN <<>>
  ELSE PlaceIn(Opened(a, c.opening), Opened(a, c.closing), i, a[i], c.body[a[i][1]])

Leading(a, i) == [k \in 1..i |-> a[k]]
Places(c, a, i) == [k \in 1..i |-> PlaceOf(c, a, k)]

\* What is held comes out in the end, as its block or as it is.
Rest(c, held, closed) ==
  IF held = <<>> THEN <<>> ELSE IF closed THEN Becomes(Tail(held), c.body) ELSE held
Accounted(c, O, C, i, acc, places) ==
  /\ places = acc.out \o Rest(c, acc.held, Closed(C, i))
  /\ acc.held # <<>> <=> Entered(O, C, i + 1)
ReadSoFar(c, a, i) ==
  Accounted(c, Opened(a, c.opening), Opened(a, c.closing), i,
            ReadBy(c, FlattenSeq(Leading(a, i))), FlattenSeq(Places(c, a, i)))

\* One more place.
LEMMA FrontNext ==
  ASSUME NEW S, NEW f, NEW i \in Nat, \A k \in 1..(i + 1) : f[k] \in Seq(S)
  PROVE  /\ [k \in 1..i |-> f[k]] \in Seq(Seq(S))
         /\ FlattenSeq([k \in 1..(i + 1) |-> f[k]]) = FlattenSeq([k \in 1..i |-> f[k]]) \o f[i + 1]
<1> DEFINE g == [k \in 1..i |-> f[k]]
           h == [k \in 1..(i + 1) |-> f[k]]
<1>1. g \in Seq(Seq(S)) /\ Len(g) = i
  OBVIOUS
<1>2. i + 1 \in 1..(i + 1) /\ f[i + 1] \in Seq(S)
  OBVIOUS
<1>3. h = Append(g, f[i + 1])
  <2>1. /\ Append(g, f[i + 1]) \in Seq(Seq(S)) /\ Len(Append(g, f[i + 1])) = i + 1
        /\ h \in Seq(Seq(S)) /\ Len(h) = i + 1
    BY <1>1, <1>2
  <2>2. ASSUME NEW k \in 1..(i + 1)
        PROVE  h[k] = Append(g, f[i + 1])[k]
    <3>1. k \in 1..i \/ k = i + 1
      OBVIOUS
    <3> QED BY <1>1, <1>2, <3>1
  <2> HIDE DEF g, h
  <2> QED BY <2>1, <2>2, SeqEqual
<1> HIDE DEF g, h
<1>4. FlattenSeq(Append(g, f[i + 1])) = FlattenSeq(g) \o f[i + 1]
  BY <1>1, <1>2, FlattenAppend
<1> QED BY <1>1, <1>3, <1>4 DEF g, h

\* A piece at the end of a text.
LEMMA LastPiece ==
  ASSUME NEW S, NEW u \in Seq(S), NEW x \in S
  PROVE  /\ Append(u, x) = u \o <<x>> /\ Append(u, x) \in Seq(S) /\ Append(u, x) # <<>>
         /\ <<x>> \in Seq(S) /\ Tail(<<x>>) = <<>> /\ <<x>> # <<>>
         /\ u # <<>> => Tail(u) \in Seq(S) /\ Tail(Append(u, x)) = Append(Tail(u), x)
<1>1. Append(u, x) = u \o <<x>> /\ Append(u, x) \in Seq(S) /\ Append(u, x) # <<>>
  OBVIOUS
<1>2. <<x>> \in Seq(S) /\ Tail(<<x>>) = <<>> /\ <<x>> # <<>>
  OBVIOUS
<1>3. ASSUME u # <<>>
      PROVE  Tail(u) \in Seq(S) /\ Tail(Append(u, x)) = Append(Tail(u), x)
  <2>1. Tail(u) \in Seq(S)
    BY <1>3
  <2>2. Tail(Append(u, x)) = Append(Tail(u), x)
    BY <1>3
  <2> QED BY <2>1, <2>2
<1> QED BY <1>1, <1>2, <1>3

\* The same for texts of pieces: three joined, and one more piece that becomes another text.
LEMMA PiecesJoined ==
  /\ \A u, v, w \in Seq(Pieces) : (u \o v) \o w = u \o (v \o w)
  /\ \A u \in Seq(Pieces) : u \o <<>> = u
BY ConcatAssociative, ConcatEmptySeq

\* The last piece of such a text becomes its own.
LEMMA BecomesLast ==
  ASSUME NEW body \in [Pieces -> Seq(Pieces)], NEW u \in Seq(Pieces), NEW x \in Pieces
  PROVE  /\ Becomes(Append(u, x), body) = Becomes(u, body) \o body[x]
         /\ Becomes(u, body) \in Seq(Pieces) /\ body[x] \in Seq(Pieces)
<1>1. Becomes(Append(u, x), body) = Becomes(u, body) \o body[x]
  BY BecomesAppend
<1>2. Becomes(u, body) \in Seq(Pieces)
  BY BecomesType
<1> QED BY <1>1, <1>2

\* Reading one more piece keeps the account: an opening tag holds the text back, a closing
\* one lets it out as a block.
LEMMA CutNext ==
  ASSUME NEW c, NEW body \in [Pieces -> Seq(Pieces)], c.body = body,
         NEW O \in SUBSET Nat, NEW C \in SUBSET Nat, O \cap C = {}, NEW i \in Nat,
         NEW acc \in [out : Seq(Pieces), held : Seq(Pieces)], NEW x \in Pieces,
         i + 1 \in O <=> IsTag(x, c.opening),
         i + 1 \in C <=> IsTag(x, c.closing),
         NEW before, Accounted(c, O, C, i, acc, before)
  PROVE  Accounted(c, O, C, i + 1, CutOne(c, acc, x),
                   before \o PlaceIn(O, C, i + 1, <<x>>, body[x]))
<1> DEFINE j == i + 1
           out == acc.out
           held == acc.held
           next == CutOne(c, acc, x)
           place == PlaceIn(O, C, j, <<x>>, body[x])
<1>1. out \in Seq(Pieces) /\ held \in Seq(Pieces) /\ acc = [out |-> out, held |-> held]
  OBVIOUS
<1>2. /\ j \in O => Entered(O, C, j + 1)
      /\ j \in C => ~Entered(O, C, j + 1) /\ Closed(C, i)
      /\ j \notin O /\ j \notin C => (Entered(O, C, j + 1) <=> Entered(O, C, j))
      /\ j \notin C /\ Entered(O, C, j) => Entered(O, C, j + 1)
      /\ j \notin C => (Closed(C, i) <=> Closed(C, j))
  BY EnteredNext
<1>3. ~(j \in O /\ j \in C) /\ j + 1 = i + 2
  OBVIOUS
<1>4. /\ j \in O <=> IsTag(x, c.opening)
      /\ j \in C <=> IsTag(x, c.closing)
      /\ held # <<>> <=> Entered(O, C, j)
  BY DEF Accounted
<1>5. next = IF held = <<>> THEN IF j \in O THEN [out |-> out, held |-> <<x>>]
                                 ELSE [out |-> Append(out, x), held |-> <<>>]
             ELSE IF j \in C THEN [out |-> out \o Becomes(Tail(held), body), held |-> <<>>]
             ELSE [out |-> out, held |-> Append(held, x)]
  <2>1. ASSUME held = <<>>, j \in O PROVE next = [out |-> out, held |-> <<x>>]
    BY <1>1, <1>4, <2>1 DEF CutOne, Cut
  <2>2. ASSUME held = <<>>, j \notin O PROVE next = [out |-> Append(out, x), held |-> <<>>]
    BY <1>1, <1>4, <2>2 DEF CutOne, Cut
  <2>3. ASSUME held # <<>>, j \in C
        PROVE  next = [out |-> out \o Becomes(Tail(held), body), held |-> <<>>]
    BY <1>4, <2>3 DEF CutOne, Cut, Becomes, Images
  <2>4. ASSUME held # <<>>, j \notin C PROVE next = [out |-> out, held |-> Append(held, x)]
    BY <1>1, <1>4, <2>4 DEF CutOne, Cut
  <2> HIDE DEF next, held, out, j
  <2> QED BY <2>1, <2>2, <2>3, <2>4
<1>6. place = IF Edge(O, C, j) THEN <<>> ELSE IF Within(O, C, j) THEN body[x] ELSE <<x>>
  BY DEF PlaceIn
<1>7. before = out \o Rest(c, held, Closed(C, i))
  BY DEF Accounted
<1>8. body[x] \in Seq(Pieces) /\ <<>> \in Seq(Pieces) /\ <<x>> \in Seq(Pieces)
  BY LastPiece, EmptySeq
<1> HIDE DEF j, out, held, next, place
<1>9. SUFFICES /\ before \o place = next.out \o Rest(c, next.held, Closed(C, j))
               /\ next.held # <<>> <=> Entered(O, C, j + 1)
  BY <1>3 DEF j, next, place, Accounted
<1>10. \A u \in Seq(Pieces) : u \o <<>> = u
  BY ConcatEmptySeq
<1>11. CASE held = <<>> /\ j \in O
  <2>1. next.out = out /\ next.held = <<x>> /\ <<x>> # <<>> /\ Tail(<<x>>) = <<>>
    BY <1>5, <1>11, LastPiece
  <2>2. before = out
    BY <1>1, <1>7, <1>10, <1>11 DEF Rest
  <2>3. Rest(c, next.held, Closed(C, j)) = IF Closed(C, j) THEN <<>> ELSE <<x>>
    BY <2>1, BecomesNone DEF Rest
  <2>4. place = IF Closed(C, j) THEN <<>> ELSE <<x>>
    BY <1>3, <1>4, <1>6, <1>11 DEF Edge, Within
  <2> QED BY <1>2, <1>11, <2>1, <2>2, <2>3, <2>4
<1>12. CASE held = <<>> /\ j \notin O
  <2>1. next.out = Append(out, x) /\ next.held = <<>>
    BY <1>5, <1>12
  <2>2. before = out
    BY <1>1, <1>7, <1>10, <1>12 DEF Rest
  <2>3. place = <<x>>
    BY <1>4, <1>6, <1>12 DEF Edge, Within
  <2>4. Append(out, x) = out \o <<x>> /\ Append(out, x) \in Seq(Pieces)
    BY <1>1, LastPiece
  <2>5. Rest(c, next.held, Closed(C, j)) = <<>>
    BY <2>1 DEF Rest
  <2>6. ~Entered(O, C, j + 1)
    BY <1>2, <1>4, <1>12
  <2> QED BY <1>10, <2>1, <2>2, <2>3, <2>4, <2>5, <2>6
<1>13. CASE held # <<>> /\ j \in C
  <2>1. next.out = out \o Becomes(Tail(held), body) /\ next.held = <<>>
    BY <1>5, <1>13
  <2>2. before = next.out
    BY <1>2, <1>7, <1>13, <2>1 DEF Rest
  <2>3. place = <<>>
    BY <1>4, <1>6, <1>13 DEF Edge
  <2>4. Rest(c, next.held, Closed(C, j)) = <<>>
    BY <2>1 DEF Rest
  <2> QED BY <1>2, <1>13, <2>1, <2>2, <2>3, <2>4
<1>14. CASE held # <<>> /\ j \notin C
  <2>1. /\ next.out = out /\ next.held = Append(held, x) /\ Append(held, x) # <<>>
        /\ Append(held, x) = held \o <<x>>
        /\ Tail(held) \in Seq(Pieces) /\ Tail(Append(held, x)) = Append(Tail(held), x)
    BY <1>1, <1>5, <1>14, LastPiece
  <2>2. place = IF Closed(C, j) THEN body[x] ELSE <<x>>
    BY <1>4, <1>6, <1>14 DEF Edge, Within
  <2>3. CASE Closed(C, j)
    <3> DEFINE tail == Tail(held)
    <3>1. before = out \o Becomes(tail, body)
      BY <1>2, <1>7, <1>14, <2>3 DEF Rest
    <3>2. Rest(c, next.held, Closed(C, j)) = Becomes(Append(tail, x), body)
      BY <2>1, <2>3 DEF Rest
    <3>3. tail \in Seq(Pieces)
      BY <2>1
    <3> HIDE DEF tail
    <3>4. Becomes(Append(tail, x), body) = Becomes(tail, body) \o body[x]
      BY <3>3, BecomesLast
    <3>5. Becomes(tail, body) \in Seq(Pieces)
      BY <3>3, BecomesLast
    <3>6. (out \o Becomes(tail, body)) \o body[x] = out \o (Becomes(tail, body) \o body[x])
      <4> DEFINE v == Becomes(tail, body)
                 w == body[x]
      <4>1. out \in Seq(Pieces) /\ v \in Seq(Pieces) /\ w \in Seq(Pieces)
        BY <1>1, <1>8, <3>5
      <4> HIDE DEF v, w
      <4>2. (out \o v) \o w = out \o (v \o w)
        BY <4>1, PiecesJoined
      <4> QED BY <4>2 DEF v, w
    <3> QED BY <1>2, <1>4, <1>14, <2>1, <2>2, <2>3, <3>1, <3>2, <3>4, <3>6
  <2>4. CASE ~Closed(C, j)
    <3>1. before = out \o held
      BY <1>2, <1>7, <1>14, <2>4 DEF Rest
    <3>2. Rest(c, next.held, Closed(C, j)) = held \o <<x>>
      BY <2>1, <2>4 DEF Rest
    <3>3. (out \o held) \o <<x>> = out \o (held \o <<x>>)
      BY <1>1, <1>8, PiecesJoined
    <3> QED BY <1>2, <1>4, <1>14, <2>1, <2>2, <2>4, <3>1, <3>2, <3>3
  <2> QED BY <2>3, <2>4
<1> QED BY <1>11, <1>12, <1>13, <1>14

\* So does one more place.
LEMMA ReadNext ==
  ASSUME NEW c, c.opening # c.closing, c.body \in [Pieces -> Seq(Pieces)],
         NEW n \in Nat, NEW a \in [1..n -> Texts],
         NEW i \in Nat, i + 1 \in 1..n, ReadSoFar(c, a, i)
  PROVE  ReadSoFar(c, a, i + 1)
<1> DEFINE j == i + 1
           O == Opened(a, c.opening)
           C == Opened(a, c.closing)
           place == PlaceOf(c, a, j)
           u == FlattenSeq(Leading(a, i))
           acc == ReadBy(c, u)
           before == FlattenSeq(Places(c, a, i))
<1>1. O \in SUBSET Nat /\ C \in SUBSET Nat /\ O \cap C = {}
  BY DEF Opened, IsTag
<1>2. /\ j \in O => Entered(O, C, j + 1)
      /\ j \in C => ~Entered(O, C, j + 1) /\ Closed(C, i)
      /\ j \notin O /\ j \notin C => (Entered(O, C, j + 1) <=> Entered(O, C, j))
      /\ j \notin C /\ Entered(O, C, j) => Entered(O, C, j + 1)
      /\ j \notin C => (Closed(C, i) <=> Closed(C, j))
  <2> HIDE DEF O, C
  <2> QED BY <1>1, EnteredNext
<1>3. \A k \in 1..n : a[k] \in Texts /\ a[k] \in Seq(Pieces)
  <2>1. \A x \in Pieces : <<x>> \in Seq(Pieces)
    OBVIOUS
  <2> QED BY <2>1, EmptySeq DEF Texts
<1>4. \A k \in 1..n : PlaceOf(c, a, k) \in Seq(Pieces)
  <2> SUFFICES ASSUME NEW k \in 1..n PROVE PlaceOf(c, a, k) \in Seq(Pieces)
    OBVIOUS
  <2>1. a[k] \in Seq(Pieces) /\ <<>> \in Seq(Pieces)
    BY <1>3, EmptySeq
  <2>2. a[k] # <<>> => c.body[a[k][1]] \in Seq(Pieces)
    BY <1>3 DEF Texts
  <2> QED BY <2>1, <2>2 DEF PlaceOf, PlaceIn
<1>5. \A k \in 1..j : k \in 1..n
  OBVIOUS
<1>6. u \in Seq(Pieces) /\ FlattenSeq(Leading(a, j)) = u \o a[j]
  <2>1. /\ [k \in 1..i |-> a[k]] \in Seq(Seq(Pieces))
        /\ FlattenSeq([k \in 1..(i + 1) |-> a[k]]) = FlattenSeq([k \in 1..i |-> a[k]]) \o a[i + 1]
    BY <1>3, <1>5, FrontNext
  <2>2. FlattenSeq([k \in 1..i |-> a[k]]) \in Seq(Pieces)
    BY <2>1, FlattenType
  <2> QED BY <2>1, <2>2 DEF Leading
<1>7. before \in Seq(Pieces) /\ FlattenSeq(Places(c, a, j)) = before \o place
  <2> DEFINE f == [k \in 1..n |-> PlaceOf(c, a, k)]
  <2>1. \A k \in 1..(i + 1) : f[k] \in Seq(Pieces) /\ f[k] = PlaceOf(c, a, k)
    BY <1>4, <1>5
  <2> HIDE DEF f
  <2>2. /\ [k \in 1..i |-> f[k]] \in Seq(Seq(Pieces))
        /\ FlattenSeq([k \in 1..(i + 1) |-> f[k]]) = FlattenSeq([k \in 1..i |-> f[k]]) \o f[i + 1]
    BY <2>1, FrontNext
  <2>3. FlattenSeq([k \in 1..i |-> f[k]]) \in Seq(Pieces)
    BY <2>2, FlattenType
  <2>4. [k \in 1..i |-> f[k]] = Places(c, a, i) /\ [k \in 1..(i + 1) |-> f[k]] = Places(c, a, j)
    BY <2>1 DEF Places
  <2>5. f[i + 1] = place
    BY <2>1
  <2> QED BY <2>2, <2>3, <2>4, <2>5
<1>8. \A x \in Pieces : c.body[x] \in Seq(Pieces)
  OBVIOUS
<1>9. acc \in [out : Seq(Pieces), held : Seq(Pieces)]
  BY <1>6, <1>8, ReadIs
<1>10. Accounted(c, O, C, i, acc, before)
  BY DEF ReadSoFar
<1> DEFINE next == ReadBy(c, FlattenSeq(Leading(a, j)))
<1>11. SUFFICES Accounted(c, O, C, j, next, before \o place)
  BY <1>7 DEF ReadSoFar
<1>12. /\ acc.out \in Seq(Pieces) /\ acc.held \in Seq(Pieces)
  BY <1>9
<1>13. j \in 1..n /\ DOMAIN a = 1..n
  OBVIOUS
<1>14. CASE a[j] = <<>>
  <2>1. j \notin O /\ j \notin C /\ place = <<>>
    BY <1>14 DEF Opened, PlaceOf
  <2>2. u \o <<>> = u /\ before \o <<>> = before
    BY <1>6, <1>7, ConcatEmptySeq
  <2>3. next = acc /\ before \o place = before
    BY <1>6, <1>14, <2>1, <2>2
  <2>4. j \notin C /\ (Closed(C, i) <=> Closed(C, j)) /\ (Entered(O, C, j + 1) <=> Entered(O, C, j))
    BY <1>2, <2>1
  <2>5. Rest(c, acc.held, Closed(C, i)) = Rest(c, next.held, Closed(C, j))
    BY <2>3, <2>4 DEF Rest
  <2> HIDE DEF O, C, acc, before, next, place
  <2> QED BY <1>10, <2>3, <2>4, <2>5 DEF Accounted
<1>15. CASE a[j] # <<>>
  <2>1. PICK x \in Pieces : a[j] = <<x>>
    BY <1>3, <1>13, <1>15 DEF Texts
  <2>2. a[j][1] = x /\ <<x>> # <<>> /\ <<x>> \in Seq(Pieces)
    BY <2>1
  <2>3. next = CutOne(c, acc, x)
    <3>1. u \o <<x>> = Append(u, x)
      BY <1>6, LastPiece
    <3>2. ReadBy(c, Append(u, x)) = CutOne(c, acc, x)
      BY <1>6, <1>8, ReadIs
    <3> QED BY <1>6, <2>1, <3>1, <3>2
  <2>4. (j \in O <=> IsTag(x, c.opening)) /\ (j \in C <=> IsTag(x, c.closing))
    BY <1>13, <1>15, <2>2 DEF Opened
  <2> DEFINE body == c.body
  <2>5. place = PlaceIn(O, C, j, <<x>>, body[x])
    BY <1>15, <2>1, <2>2 DEF PlaceOf
  <2>6. body \in [Pieces -> Seq(Pieces)] /\ c.body = body
    OBVIOUS
  <2>7. O \in SUBSET Nat /\ C \in SUBSET Nat /\ O \cap C = {} /\ i \in Nat
    BY <1>1
  <2>8. acc \in [out : Seq(Pieces), held : Seq(Pieces)] /\ x \in Pieces
    BY <1>9
  <2>9. (i + 1 \in O <=> IsTag(x, c.opening)) /\ (i + 1 \in C <=> IsTag(x, c.closing))
    BY <2>4
  <2> HIDE DEF O, C, acc, before, body, next, place
  <2>10. Accounted(c, O, C, i + 1, CutOne(c, acc, x),
                   before \o PlaceIn(O, C, i + 1, <<x>>, body[x]))
    BY <1>10, <2>6, <2>7, <2>8, <2>9, CutNext
  <2> QED BY <2>3, <2>5, <2>10
<1> QED BY <1>14, <1>15

\* Blocks by place: what the text becomes is what its places become, whatever tags have no
\* partner.
LEMMA BlocksPlaces ==
  ASSUME NEW c, c.opening # c.closing, c.body \in [Pieces -> Seq(Pieces)],
         NEW n \in Nat, NEW a \in [1..n -> Texts]
  PROVE  LET read == ReadBy(c, FlattenSeq(a))
         IN  read.out \o read.held = FlattenSeq(Places(c, a, n))
<1> DEFINE O == Opened(a, c.opening)
           C == Opened(a, c.closing)
           S == {i \in Nat : i <= n => ReadSoFar(c, a, i)}
           read == ReadBy(c, FlattenSeq(a))
<1>1. O \subseteq 1..n /\ C \subseteq 1..n
  BY DEF Opened
<1>2. \A x \in Pieces : c.body[x] \in Seq(Pieces)
  OBVIOUS
<1>3. 0 \in S
  <2>1. Leading(a, 0) = <<>> /\ Places(c, a, 0) = <<>>
    BY DEF Leading, Places
  <2>2. ReadBy(c, FlattenSeq(Leading(a, 0))) = Start /\ FlattenSeq(Places(c, a, 0)) = <<>>
    BY <1>2, <2>1, FlattenNone, ReadIs
  <2>3. ~Entered(O, C, 1) /\ 0 + 1 = 1
    <3> HIDE DEF O, C
    <3> QED BY <1>1 DEF Entered
  <2>4. Start.out = <<>> /\ Start.held = <<>> /\ <<>> \o <<>> = <<>>
    BY EmptySeq, ConcatEmptySeq DEF Start
  <2>5. Accounted(c, O, C, 0, Start, <<>>)
    BY <2>3, <2>4 DEF Accounted, Rest
  <2> QED BY <2>2, <2>5 DEF ReadSoFar
<1>4. \A i \in Nat : i \in S => i + 1 \in S
  <2> SUFFICES ASSUME NEW i \in S, i + 1 <= n PROVE ReadSoFar(c, a, i + 1)
    OBVIOUS
  <2>1. i \in Nat /\ i + 1 \in 1..n /\ ReadSoFar(c, a, i)
    OBVIOUS
  <2> QED BY <2>1, ReadNext
<1>5. ReadSoFar(c, a, n)
  <2> HIDE DEF S
  <2>1. n \in S
    BY <1>3, <1>4, Cutting!SetInduction
  <2> QED BY <2>1 DEF S
<1>6. Leading(a, n) = a
  BY DEF Leading
<1>7. ~Closed(C, n)
  <2> HIDE DEF C
  <2> QED BY <1>1 DEF Closed
<1>8. FlattenSeq(Places(c, a, n)) = read.out \o Rest(c, read.held, Closed(C, n))
  BY <1>5, <1>6 DEF ReadSoFar, Accounted
<1>9. Rest(c, read.held, Closed(C, n)) = read.held
  BY <1>7 DEF Rest
<1> QED BY <1>8, <1>9

-----------------------------------------------------------------------------
\* The places of a text, as Meaning has them.
TagsAt(s, tag) == {i \in DOMAIN s : IsTag(s[i], tag)}
RawAt(s, i) == Within(TagsAt(s, "raw"), TagsAt(s, "endraw"), i)
RawEdge(s, i) == Edge(TagsAt(s, "raw"), TagsAt(s, "endraw"), i)
OutOfRaw(s, tag) == {i \in TagsAt(s, tag) : ~RawAt(s, i)}
GoneAt(s, keep, i) ==
  \/ RawEdge(s, i)
  \/ Edge(OutOfRaw(s, "if"), OutOfRaw(s, "endif"), i)
  \/ ~keep /\ Within(OutOfRaw(s, "if"), OutOfRaw(s, "endif"), i)

\* What stands at a place after the raw regions, and after the blocks.
Protected(s) ==
  [i \in 1..Len(s) |-> IF RawEdge(s, i) THEN <<>> ELSE IF RawAt(s, i) THEN <<Marked(s[i])>> ELSE <<s[i]>>]
Blocked(s, keep) ==
  [i \in 1..Len(s) |->
     IF GoneAt(s, keep, i) THEN <<>> ELSE IF RawAt(s, i) THEN <<Marked(s[i])>> ELSE <<s[i]>>]

\* protect_raw_regions by place.
LEMMA ProtectRawPlaces ==
  ASSUME NEW s \in Seq(Authored), ~HasNul(s)
  PROVE  ProtectRaw(s) = FlattenSeq(Protected(s)) /\ Protected(s) \in [1..Len(s) -> Texts]
<1> DEFINE n == Len(s)
           body == [p \in Pieces |-> <<Marked(p)>>]
           c == Block("raw", "endraw", body)
           a == [i \in 1..n |-> <<s[i]>>]
<1>1. n \in Nat /\ DOMAIN s = 1..n /\ \A i \in 1..n : s[i] \in Authored /\ s[i] \in Pieces
  BY PiecesAre
<1>2. a \in [1..n -> Texts]
  BY <1>1 DEF Texts
<1>3. c.opening = "raw" /\ c.closing = "endraw" /\ c.body = body
  BY DEF Block
<1>4. body \in [Pieces -> Seq(Pieces)]
  <2>1. \A p \in Pieces : <<Marked(p)>> \in Seq(Pieces)
    BY MadePieces, LastPiece
  <2> QED BY <2>1
<1>5. FlattenSeq(a) = s
  <2>1. s \in Seq(Pieces)
    BY <1>1
  <2>2. PICK h \in [Pieces -> Pieces] : \A p \in Pieces : h[p] = p
    <3>1. [p \in Pieces |-> p] \in [Pieces -> Pieces]
      OBVIOUS
    <3> QED BY <3>1
  <2> DEFINE stage == [p \in Pieces |-> <<h[p]>>]
  <2>3. Becomes(s, stage) = Mapped(s, h)
    <3>1. stage \in [Pieces -> Seq(Pieces)] /\ \A p \in Pieces : stage[p] = <<h[p]>>
      BY <2>2, LastPiece
    <3> HIDE DEF stage
    <3> QED BY <2>1, <2>2, <3>1, BecomesEach
  <2>4. Mapped(s, h) = s
    BY <1>1, <2>1, <2>2 DEF Mapped
  <2>5. Images(s, stage) = a
    BY <1>1, <2>2 DEF Images
  <2> QED BY <2>3, <2>4, <2>5 DEF Becomes
<1>6. Opened(a, "raw") = TagsAt(s, "raw") /\ Opened(a, "endraw") = TagsAt(s, "endraw")
  BY <1>1 DEF Opened, TagsAt
<1>7. ASSUME NEW i \in 1..n
      PROVE  PlaceOf(c, a, i) = Protected(s)[i]
  <2>1. a[i] = <<s[i]>> /\ a[i] # <<>> /\ a[i][1] = s[i] /\ body[s[i]] = <<Marked(s[i])>>
    BY <1>1
  <2> HIDE DEF a, c, body
  <2> QED BY <1>3, <1>6, <2>1 DEF PlaceOf, PlaceIn, Protected, RawAt, RawEdge
<1>8. Places(c, a, n) = Protected(s)
  <2> HIDE DEF a, c
  <2> QED BY <1>7 DEF Places, Protected
<1>9. Protected(s) \in [1..Len(s) -> Texts]
  BY <1>1, MadePieces DEF Protected, Texts
<1>10. ReadBy(c, s).out \o ReadBy(c, s).held = FlattenSeq(Protected(s))
  <2> HIDE DEF a, c, body, n
  <2> QED BY <1>1, <1>2, <1>3, <1>4, <1>5, <1>8, BlocksPlaces
<1>11. ProtectRaw(s) = ReadBy(c, s).out \o ReadBy(c, s).held
  BY BlocksAre DEF ProtectRaw
<1> QED BY <1>9, <1>10, <1>11

\* handle_incremental_blocks by place, once the raw regions are set aside.
LEMMA IncrementalPlaces ==
  ASSUME NEW s \in Seq(Authored), ~HasNul(s), NEW keep
  PROVE  /\ IncrementalBlocks(ProtectRaw(s), keep) = FlattenSeq(Blocked(s, keep))
         /\ Blocked(s, keep) \in [1..Len(s) -> Texts]
<1> DEFINE n == Len(s)
           body == [p \in Pieces |-> IF keep THEN <<p>> ELSE <<>>]
           c == Block("if", "endif", body)
           a == Protected(s)
<1>1. n \in Nat /\ DOMAIN s = 1..n /\ \A i \in 1..n : s[i] \in Authored /\ s[i] \in Pieces /\ ~s[i].raw
  BY PiecesAre DEF Authored
<1>2. a \in [1..n -> Texts] /\ ProtectRaw(s) = FlattenSeq(a)
  BY ProtectRawPlaces
<1>3. c.opening = "if" /\ c.closing = "endif" /\ c.body = body
  BY DEF Block
<1>4. body \in [Pieces -> Seq(Pieces)]
  <2>1. \A p \in Pieces : <<p>> \in Seq(Pieces)
    BY LastPiece
  <2> QED BY <2>1, EmptySeq
<1>5. ASSUME NEW i \in 1..n
      PROVE  /\ RawEdge(s, i) => a[i] = <<>>
             /\ ~RawEdge(s, i) /\ RawAt(s, i) =>
                  a[i] = <<Marked(s[i])>> /\ a[i] # <<>> /\ a[i][1] = Marked(s[i])
             /\ ~RawEdge(s, i) /\ ~RawAt(s, i) => a[i] = <<s[i]>> /\ a[i] # <<>> /\ a[i][1] = s[i]
  BY DEF Protected
<1>6. \A tag \in {"if", "endif"} : Opened(a, tag) = OutOfRaw(s, tag)
  <2> SUFFICES ASSUME NEW tag \in {"if", "endif"}, NEW i \in 1..n
               PROVE  i \in Opened(a, tag) <=> i \in OutOfRaw(s, tag)
    BY <1>1, <1>2 DEF Opened, OutOfRaw, TagsAt
  <2>1. i \in Opened(a, tag) <=> a[i] # <<>> /\ IsTag(a[i][1], tag)
    BY <1>2 DEF Opened
  <2>2. i \in OutOfRaw(s, tag) <=> IsTag(s[i], tag) /\ ~RawAt(s, i)
    BY <1>1 DEF OutOfRaw, TagsAt
  <2>3. IsTag(s[i], tag) => ~RawEdge(s, i)
    BY DEF RawEdge, Edge, TagsAt, IsTag
  <2>4. ~IsTag(Marked(s[i]), tag)
    <3>1. Marked(s[i]).raw = TRUE
      BY <1>1 DEF Marked, Pieces
    <3> QED BY <3>1 DEF IsTag
  <2> HIDE DEF a
  <2> QED BY <1>5, <2>1, <2>2, <2>3, <2>4
<1>7. ASSUME NEW i \in 1..n
      PROVE  PlaceOf(c, a, i) = Blocked(s, keep)[i]
  <2>1. PlaceOf(c, a, i) =
          IF a[i] = <<>> THEN <<>>
          ELSE PlaceIn(OutOfRaw(s, "if"), OutOfRaw(s, "endif"), i, a[i], body[a[i][1]])
    <3> HIDE DEF a, c, body
    <3> QED BY <1>3, <1>6 DEF PlaceOf
  <2>2. Blocked(s, keep)[i] =
          IF GoneAt(s, keep, i) THEN <<>> ELSE IF RawAt(s, i) THEN <<Marked(s[i])>> ELSE <<s[i]>>
    BY DEF Blocked
  <2>3. Marked(s[i]) \in Pieces /\ s[i] \in Pieces
    BY <1>1, MadePieces
  <2>4. \A p \in Pieces : body[p] = IF keep THEN <<p>> ELSE <<>>
    OBVIOUS
  <2> HIDE DEF a, c, body
  <2> QED BY <1>5, <2>1, <2>2, <2>3, <2>4 DEF PlaceIn, GoneAt
<1>8. Places(c, a, n) = Blocked(s, keep)
  <2> HIDE DEF a, c
  <2> QED BY <1>7 DEF Places, Blocked
<1>9. Blocked(s, keep) \in [1..Len(s) -> Texts]
  BY <1>1, MadePieces DEF Blocked, Texts
<1>10. ReadBy(c, FlattenSeq(a)).out \o ReadBy(c, FlattenSeq(a)).held = FlattenSeq(Blocked(s, keep))
  <2> HIDE DEF a, c, body, n
  <2> QED BY <1>1, <1>2, <1>3, <1>4, <1>8, BlocksPlaces
<1>11. IncrementalBlocks(ProtectRaw(s), keep) = ReadBy(c, FlattenSeq(a)).out \o ReadBy(c, FlattenSeq(a)).held
  BY <1>2, BlocksAre DEF IncrementalBlocks
<1> QED BY <1>9, <1>10, <1>11

-----------------------------------------------------------------------------
\* What a piece becomes from the first round on, with a number of rounds left.
UnwoundOne(c, acc, k) ==
  [p \in Pieces |-> IF p.raw THEN <<p>> ELSE IF IsCall(p) THEN Becomes(Expanded(p), acc) ELSE Resolved(p)]
Unwinding == INSTANCE FoldInduction WITH Op <- UnwoundOne, Holds <- Anything

ErrorStage == [p \in Pieces |-> <<Error>>]
Unwound(k) == Unwinding!Recursion(0, ErrorStage)[k]

\* Its steps.
LEMMA UnwoundIs ==
  ASSUME Deployed
  PROVE  /\ Unwound(0) = ErrorStage
         /\ \A k \in Nat :
              /\ Unwound(k) \in [Pieces -> Seq(Pieces)]
              /\ \A p \in Pieces :
                   Unwound(k + 1)[p] = IF p.raw THEN <<p>>
                                       ELSE IF IsCall(p) THEN Becomes(Expanded(p), Unwound(k))
                                       ELSE Resolved(p)
<1>1. /\ Unwound(0) = ErrorStage
      /\ \A k \in Nat : Unwound(k + 1) = UnwoundOne(0, Unwound(k), k + 1)
  BY Unwinding!RecursionRecurs DEF Unwinding!Recurs, Unwound
<1> DEFINE S == {k \in Nat : Unwound(k) \in [Pieces -> Seq(Pieces)]}
<1>2. 0 \in S
  <2>1. <<Error>> \in Seq(Pieces)
    BY PiecesAre, LastPiece
  <2> QED BY <1>1, <2>1 DEF ErrorStage
<1>3. \A k \in Nat : k \in S => k + 1 \in S
  <2> SUFFICES ASSUME NEW k \in S PROVE Unwound(k + 1) \in [Pieces -> Seq(Pieces)]
    OBVIOUS
  <2> DEFINE acc == Unwound(k)
  <2>1. acc \in [Pieces -> Seq(Pieces)] /\ Unwound(k + 1) = UnwoundOne(0, acc, k + 1)
    BY <1>1
  <2> HIDE DEF acc
  <2>2. ASSUME NEW p \in Pieces
        PROVE  /\ <<p>> \in Seq(Pieces) /\ Resolved(p) \in Seq(Pieces)
               /\ IsCall(p) => Becomes(Expanded(p), acc) \in Seq(Pieces)
    <3>1. <<p>> \in Seq(Pieces)
      BY LastPiece
    <3>2. IsCall(p) => Expanded(p) \in Seq(Pieces)
      BY ExpandedIs
    <3>3. \A u \in Seq(Pieces) : Becomes(u, acc) \in Seq(Pieces)
      BY <2>1, BecomesType
    <3> QED BY <3>1, <3>2, <3>3, ResolvedIs
  <2> QED BY <2>1, <2>2 DEF UnwoundOne
<1>4. \A k \in Nat : Unwound(k) \in [Pieces -> Seq(Pieces)]
  <2> HIDE DEF S
  <2>1. \A k \in Nat : k \in S
    BY <1>2, <1>3, Cutting!SetInduction
  <2> QED BY <2>1 DEF S
<1> QED BY <1>1, <1>4 DEF UnwoundOne

\* What becomes of a piece that loses its braces is what becomes of it.
LEMMA ResolvedScanned ==
  ASSUME NEW p \in Pieces
  PROVE  Resolved(Scanned(p)) = Resolved(p)
<1> DEFINE q == Scanned(p)
<1>1. CASE p.kind = "call" /\ Nested(p.args)
  <2>1. q = Plain("{{")
    BY <1>1, ScannedIs
  <2>2. Resolved(p) = <<q>>
    BY <1>1 DEF Resolved
  <2>3. q \in Pieces /\ q.kind = "text" /\ q.braced = FALSE
    BY <2>1, TheMade
  <2> HIDE DEF q
  <2>4. Resolved(q) = <<[q EXCEPT !.braced = FALSE]>>
    BY <2>3 DEF Resolved, Scanned
  <2>5. [q EXCEPT !.braced = FALSE] = q
    BY <2>3 DEF Pieces
  <2> QED BY <2>2, <2>4, <2>5 DEF q
<1>2. CASE ~(p.kind = "call" /\ Nested(p.args))
  <2>1. q \in Pieces /\ q.kind = p.kind /\ q.of = p.of /\ q.args = p.args /\ q.raw = p.raw
    BY <1>2, ScannedIs
  <2>2. Scanned(q) = q
    <3>1. CASE p.kind \in {"config", "ref", "source", "call", "var", "builtin"}
      <4>1. q = p
        BY <1>2, <3>1 DEF Scanned
      <4> QED BY <4>1
    <3>2. CASE p.kind \notin {"config", "ref", "source", "call", "var", "builtin"}
      <4>1. q = [p EXCEPT !.braced = FALSE]
        BY <3>2 DEF Scanned
      <4>2. Scanned(q) = [q EXCEPT !.braced = FALSE]
        BY <2>1, <3>2 DEF Scanned
      <4> QED BY <4>1, <4>2 DEF Pieces
    <3> QED BY <3>1, <3>2
  <2> HIDE DEF q
  <2>3. Reference(q) = Reference(p) /\ SourceTable(q) = SourceTable(p)
    BY <2>1 DEF Reference, SourceTable
  <2>4. Resolved(q) =
          CASE p.kind = "config" -> <<>>
            [] p.kind = "ref" -> Reference(p)
            [] p.kind = "source" -> SourceTable(p)
            [] OTHER -> <<q>>
    BY <2>1, <2>2, <2>3 DEF Resolved
  <2>5. Resolved(p) =
          CASE p.kind = "config" -> <<>>
            [] p.kind = "ref" -> Reference(p)
            [] p.kind = "source" -> SourceTable(p)
            [] OTHER -> <<q>>
    BY DEF Resolved, q
  <2> QED BY <2>4, <2>5 DEF q
<1> QED BY <1>1, <1>2

\* A round and what follows it.
LEMMA UnwoundFirst ==
  ASSUME Deployed, NEW p \in Pieces
  PROVE  /\ \A k \in Nat : Becomes(UnfoldedStage[p], Unwound(k + 1)) = Unwound(k + 2)[p]
         /\ ~IsCall(p) => Becomes(UnfoldedStage[p], ResolvedStage) = Unwound(1)[p]
<1> DEFINE q == Scanned(p)
<1>1. /\ q \in Pieces /\ Resolved(q) = Resolved(p)
      /\ ~p.raw /\ ~IsCall(p) => ~q.raw /\ ~IsCall(q)
  <2>1. q \in Pieces /\ Resolved(q) = Resolved(p) /\ (~p.raw => ~q.raw)
    BY ScannedIs, ResolvedScanned
  <2>2. CASE p.kind = "call" /\ Nested(p.args)
    <3>1. q.kind = "text"
      BY <2>2, ScannedIs, TheMade
    <3> QED BY <2>1, <3>1 DEF IsCall
  <2>3. CASE ~(p.kind = "call" /\ Nested(p.args))
    <3>1. q.kind = p.kind /\ q.of = p.of /\ q.args = p.args /\ q.raw = p.raw
      BY <2>3, ScannedIs
    <3> QED BY <2>1, <3>1 DEF IsCall
  <2> QED BY <2>2, <2>3
<1>2. IsCall(p) => ~p.raw
  BY DEF IsCall
<1>3. UnfoldedStage[p] = IF p.raw THEN <<p>> ELSE IF IsCall(p) THEN Expanded(p) ELSE <<q>>
  BY DEF UnfoldedStage, Unfolded
<1> HIDE DEF q
<1>4. \A x \in Pieces, stage \in [Pieces -> Seq(Pieces)] : Becomes(<<x>>, stage) = stage[x]
  BY BecomesOne
<1>5. \A k \in Nat : Becomes(UnfoldedStage[p], Unwound(k + 1)) = Unwound(k + 2)[p]
  <2> SUFFICES ASSUME NEW k \in Nat
               PROVE  Becomes(UnfoldedStage[p], Unwound(k + 1)) = Unwound(k + 2)[p]
    OBVIOUS
  <2>1. k + 1 \in Nat /\ (k + 1) + 1 = k + 2
    OBVIOUS
  <2> DEFINE m == k + 1
  <2>2. /\ Unwound(m) \in [Pieces -> Seq(Pieces)]
        /\ \A x \in Pieces : Unwound(m)[x] = IF x.raw THEN <<x>>
                                             ELSE IF IsCall(x) THEN Becomes(Expanded(x), Unwound(k))
                                             ELSE Resolved(x)
        /\ Unwound(m + 1)[p] = IF p.raw THEN <<p>>
                               ELSE IF IsCall(p) THEN Becomes(Expanded(p), Unwound(m))
                               ELSE Resolved(p)
    <3>1. m \in Nat
      OBVIOUS
    <3>2. Unwound(m) \in [Pieces -> Seq(Pieces)]
      BY <3>1, UnwoundIs
    <3>3. \A x \in Pieces : Unwound(m)[x] = IF x.raw THEN <<x>>
                                             ELSE IF IsCall(x) THEN Becomes(Expanded(x), Unwound(k))
                                             ELSE Resolved(x)
      BY UnwoundIs
    <3>4. Unwound(m + 1)[p] = IF p.raw THEN <<p>>
                               ELSE IF IsCall(p) THEN Becomes(Expanded(p), Unwound(m))
                               ELSE Resolved(p)
      <4> HIDE DEF m
      <4> QED BY <3>1, UnwoundIs
    <3> QED BY <3>2, <3>3, <3>4
  <2>3. m + 1 = k + 2
    OBVIOUS
  <2> HIDE DEF m
  <2>4. SUFFICES Becomes(UnfoldedStage[p], Unwound(m)) = Unwound(m + 1)[p]
    BY <2>3 DEF m
  <2>5. Becomes(<<p>>, Unwound(m)) = Unwound(m)[p] /\ Becomes(<<q>>, Unwound(m)) = Unwound(m)[q]
    BY <1>1, <1>4, <2>2
  <2>6. CASE p.raw
    BY <1>3, <2>2, <2>5, <2>6
  <2>7. CASE ~p.raw /\ IsCall(p)
    BY <1>3, <2>2, <2>7
  <2>8. CASE ~p.raw /\ ~IsCall(p)
    BY <1>1, <1>3, <2>2, <2>5, <2>8
  <2> QED BY <2>6, <2>7, <2>8
<1>6. ASSUME ~IsCall(p)
      PROVE  Becomes(UnfoldedStage[p], ResolvedStage) = Unwound(1)[p]
  <2>1. Unwound(0 + 1)[p] = IF p.raw THEN <<p>> ELSE Resolved(p)
    BY <1>6, UnwoundIs
  <2>2. ResolvedStage \in [Pieces -> Seq(Pieces)]
    BY StageTypes
  <2>3. Becomes(<<p>>, ResolvedStage) = ResolvedStage[p] /\ Becomes(<<q>>, ResolvedStage) = ResolvedStage[q]
    BY <1>1, <1>4, <2>2
  <2>4. ResolvedStage[p] = (IF p.raw THEN <<p>> ELSE Resolved(p))
        /\ ResolvedStage[q] = (IF q.raw THEN <<q>> ELSE Resolved(q))
    BY <1>1 DEF ResolvedStage
  <2>5. 0 + 1 = 1
    OBVIOUS
  <2> QED BY <1>1, <1>3, <1>6, <2>1, <2>3, <2>4, <2>5
<1> QED BY <1>5, <1>6

\* expand_macros and resolve together, for a text whose calls the rounds have expanded.
LEMMA UnwoundText ==
  ASSUME Deployed, NEW s \in Seq(Pieces), NEW n \in Nat, Calls(After(s, n)) = {}
  PROVE  Becomes(Round(After(s, n)), ResolvedStage) = Becomes(s, Unwound(n + 1))
<1> DEFINE Holding(k) ==
             \A t \in Seq(Pieces) : Calls(After(t, k)) = {} =>
               Becomes(Round(After(t, k)), ResolvedStage) = Becomes(t, Unwound(k + 1))
           S == {k \in Nat : Holding(k)}
<1>1. /\ UnfoldedStage \in [Pieces -> Seq(Pieces)] /\ ResolvedStage \in [Pieces -> Seq(Pieces)]
      /\ \A k \in Nat : Unwound(k) \in [Pieces -> Seq(Pieces)]
  BY StageTypes, UnwoundIs
<1>2. \A t \in Seq(Pieces) : Round(t) = Becomes(t, UnfoldedStage) /\ Round(t) \in Seq(Pieces)
  BY StagesAre, RoundPieces
<1>3. Holding(0)
  <2> SUFFICES ASSUME NEW t \in Seq(Pieces), Calls(t) = {}
               PROVE  Becomes(Round(t), ResolvedStage) = Becomes(t, Unwound(1))
    <3>1. \A t \in Seq(Pieces) : After(t, 0) = t
      BY AfterIs
    <3>2. 0 + 1 = 1
      OBVIOUS
    <3> QED BY <3>1, <3>2
  <2> DEFINE both == Then(Pieces, UnfoldedStage, ResolvedStage)
  <2>1. /\ Becomes(Becomes(t, UnfoldedStage), ResolvedStage) = Becomes(t, both)
        /\ \A p \in Pieces : both[p] = Becomes(UnfoldedStage[p], ResolvedStage)
    BY <1>1, StagesThen
  <2> HIDE DEF both
  <2>2. \A i \in DOMAIN t : both[t[i]] = Unwound(1)[t[i]]
    <3> SUFFICES ASSUME NEW i \in DOMAIN t PROVE both[t[i]] = Unwound(1)[t[i]]
      OBVIOUS
    <3>1. t[i] \in Pieces /\ ~IsCall(t[i])
      BY DEF Calls
    <3> QED BY <2>1, <3>1, UnwoundFirst
  <2>3. Becomes(t, both) = Becomes(t, Unwound(1))
    BY <2>2, BecomesAlike
  <2> QED BY <1>2, <2>1, <2>3
<1>4. ASSUME NEW k \in Nat, Holding(k)
      PROVE  Holding(k + 1)
  <2> SUFFICES ASSUME NEW t \in Seq(Pieces), Calls(After(t, k + 1)) = {}
               PROVE  Becomes(Round(After(t, k + 1)), ResolvedStage) = Becomes(t, Unwound((k + 1) + 1))
    OBVIOUS
  <2>1. (k + 1) + 1 = k + 2 /\ k + 1 \in Nat
    OBVIOUS
  <2>2. After(t, k + 1) = After(Round(t), k)
    BY AfterFirst
  <2>3. Becomes(Round(After(t, k + 1)), ResolvedStage) = Becomes(Round(t), Unwound(k + 1))
    BY <1>2, <1>4, <2>2
  <2> DEFINE next == Unwound(k + 1)
             both == Then(Pieces, UnfoldedStage, next)
  <2>4. next \in [Pieces -> Seq(Pieces)]
    BY <1>1, <2>1
  <2>5. \A p \in Pieces : Becomes(UnfoldedStage[p], next) = Unwound(k + 2)[p]
    BY UnwoundFirst
  <2> HIDE DEF next
  <2>6. /\ Becomes(Becomes(t, UnfoldedStage), next) = Becomes(t, both)
        /\ \A p \in Pieces : both[p] = Becomes(UnfoldedStage[p], next)
    BY <1>1, <2>4, StagesThen
  <2> HIDE DEF both
  <2>7. \A i \in DOMAIN t : both[t[i]] = Unwound(k + 2)[t[i]]
    <3> SUFFICES ASSUME NEW i \in DOMAIN t PROVE both[t[i]] = Unwound(k + 2)[t[i]]
      OBVIOUS
    <3>1. t[i] \in Pieces
      OBVIOUS
    <3> QED BY <2>5, <2>6, <3>1
  <2>8. Becomes(t, both) = Becomes(t, Unwound(k + 2))
    BY <2>7, BecomesAlike
  <2> QED BY <1>2, <2>1, <2>3, <2>6, <2>8 DEF next
<1>5. Holding(n)
  <2> HIDE DEF Holding
  <2>1. 0 \in S /\ \A k \in Nat : k \in S => k + 1 \in S
    BY <1>3, <1>4
  <2> HIDE DEF S
  <2>2. n \in S
    BY <2>1, Cutting!SetInduction
  <2> QED BY <2>2 DEF S
<1> QED BY <1>5

\* The same where there are no macros.
LEMMA UnwoundPlain ==
  ASSUME Deployed, DOMAIN macros = {}, NEW s \in Seq(Pieces), NEW k \in Nat
  PROVE  Becomes(s, ResolvedStage) = Becomes(s, Unwound(k + 1))
<1>1. \A i \in DOMAIN s : ResolvedStage[s[i]] = Unwound(k + 1)[s[i]]
  <2> SUFFICES ASSUME NEW i \in DOMAIN s PROVE ResolvedStage[s[i]] = Unwound(k + 1)[s[i]]
    OBVIOUS
  <2>1. s[i] \in Pieces /\ ~IsCall(s[i])
    BY DEF IsCall
  <2>2. ResolvedStage[s[i]] = IF s[i].raw THEN <<s[i]>> ELSE Resolved(s[i])
    BY <2>1 DEF ResolvedStage
  <2>3. \A p \in Pieces : ~IsCall(p) => Unwound(k + 1)[p] = IF p.raw THEN <<p>> ELSE Resolved(p)
    BY UnwoundIs
  <2> QED BY <2>1, <2>2, <2>3
<1> QED BY <1>1, BecomesAlike

-----------------------------------------------------------------------------
\* What the pieces stand for, one nesting after another.
StandingOne(c, acc, k) == [p \in Pieces |-> StandsFor(p, acc)]
Standings == INSTANCE FoldInduction WITH Op <- StandingOne, Holds <- Anything

\* The recursion of Standing has a solution, and Standing is it.
LEMMA StandingIs ==
  /\ Standing[0] = ErrorStage
  /\ \A k \in Nat : Standing[k + 1] = [p \in Pieces |-> StandsFor(p, Standing[k])]
<1> DEFINE R == Standings!Recursion(0, ErrorStage)
           g == [k \in Nat |-> R[k]]
           Means(h, k) == [p \in Pieces |-> IF k = 0 THEN <<Error>> ELSE StandsFor(p, h[k - 1])]
<1>1. R[0] = ErrorStage /\ \A k \in Nat : R[k + 1] = [p \in Pieces |-> StandsFor(p, R[k])]
  BY Standings!RecursionRecurs DEF Standings!Recurs, StandingOne
<1> HIDE DEF R
<1>2. g = [k \in Nat |-> Means(g, k)]
  <2> SUFFICES ASSUME NEW k \in Nat PROVE R[k] = Means(g, k)
    OBVIOUS
  <2>1. CASE k = 0
    BY <1>1, <2>1 DEF ErrorStage
  <2>2. CASE k # 0
    <3>1. k - 1 \in Nat /\ (k - 1) + 1 = k
      BY <2>2
    <3>2. R[k] = [p \in Pieces |-> StandsFor(p, R[k - 1])] /\ g[k - 1] = R[k - 1]
      BY <1>1, <3>1
    <3> QED BY <2>2, <3>2
  <2> QED BY <2>1, <2>2
<1>3. Standing = CHOOSE h : h = [k \in Nat |-> Means(h, k)]
  BY DEF Standing
<1>4. Standing = [k \in Nat |-> Means(Standing, k)]
  <2> HIDE DEF g, Means
  <2> QED BY <1>2, <1>3
<1>5. Standing[0] = ErrorStage
  <2>1. Standing[0] = Means(Standing, 0)
    <3> HIDE DEF Means
    <3>1. 0 \in Nat
      OBVIOUS
    <3> QED BY <1>4, <3>1
  <2> QED BY <2>1 DEF ErrorStage
<1>6. ASSUME NEW k \in Nat
      PROVE  Standing[k + 1] = [p \in Pieces |-> StandsFor(p, Standing[k])]
  <2>1. k + 1 \in Nat /\ k + 1 # 0 /\ (k + 1) - 1 = k
    OBVIOUS
  <2>2. Standing[k + 1] = Means(Standing, k + 1)
    <3> HIDE DEF Means
    <3> QED BY <1>4, <2>1
  <2> QED BY <2>1, <2>2
<1> QED BY <1>5, <1>6

\* What it says of each kind of piece.
LEMMA StandingKinds ==
  ASSUME Deployed, NEW p \in Pieces, NEW k \in Nat
  PROVE  /\ Standing[0][p] = <<Error>>
         /\ p.kind = "this" /\ p.braced => Standing[k + 1][p] = <<Piece("table", "this", <<>>, FALSE)>>
         /\ p.kind = "var" => Standing[k + 1][p] = <<context.vars[p.of]>>
         /\ p.kind = "builtin" => Standing[k + 1][p] = <<Now>>
         /\ IsCall(p) => Standing[k + 1][p] = Becomes(Expanded(p), Standing[k])
         /\ p.kind \notin {"var", "builtin"} /\ ~(p.kind = "this" /\ p.braced) /\ ~IsCall(p) =>
              Standing[k + 1][p] = Resolved(p)
<1>1. Standing[0][p] = <<Error>> /\ Standing[k + 1][p] = StandsFor(p, Standing[k])
  BY StandingIs DEF ErrorStage
<1>2. Becomes(Expanded(p), Standing[k]) =
        (LET text == Expanded(p) IN FlattenSeq([i \in DOMAIN text |-> Standing[k][text[i]]]))
  BY DEF Becomes, Images
<1>3. p.kind = "this" => p.kind # "var" /\ p.kind # "builtin" /\ ~IsCall(p)
  BY DEF IsCall
<1>4. p.kind = "var" => p.kind # "this" /\ p.kind # "builtin" /\ ~IsCall(p)
  BY DEF IsCall
<1>5. p.kind = "builtin" => p.kind # "this" /\ p.kind # "var" /\ ~IsCall(p)
  BY DEF IsCall
<1>6. IsCall(p) => p.kind # "this" /\ p.kind # "var" /\ p.kind # "builtin"
  BY DEF IsCall
<1>7. p.kind = "this" /\ p.braced => StandsFor(p, Standing[k]) = <<Piece("table", "this", <<>>, FALSE)>>
  BY <1>3 DEF StandsFor
<1>8. p.kind = "var" => StandsFor(p, Standing[k]) = <<context.vars[p.of]>>
  BY <1>4 DEF StandsFor
<1>9. p.kind = "builtin" => StandsFor(p, Standing[k]) = <<Now>>
  BY <1>5 DEF StandsFor
<1>10. IsCall(p) => StandsFor(p, Standing[k]) = Becomes(Expanded(p), Standing[k])
  BY <1>2, <1>6 DEF StandsFor
<1>11. p.kind \notin {"var", "builtin"} /\ ~(p.kind = "this" /\ p.braced) /\ ~IsCall(p) =>
         StandsFor(p, Standing[k]) = Resolved(p)
  BY DEF StandsFor
<1> QED BY <1>1, <1>7, <1>8, <1>9, <1>10, <1>11

-----------------------------------------------------------------------------
\* Raw regions are put back.
Unmarked(p) == [p EXCEPT !.raw = FALSE]
RestoreStage == [p \in Pieces |-> <<Unmarked(p)>>]

\* restore_raw_regions, piece by piece.
LEMMA RestoreIs ==
  /\ RestoreStage \in [Pieces -> Seq(Pieces)]
  /\ \A s \in Seq(Pieces) : RestoreRaw(s) = Becomes(s, RestoreStage)
  /\ \A p \in Pieces : RestoreStage[p] = <<Unmarked(p)>> /\ (~p.raw => Unmarked(p) = p)
<1>1. \A p \in Pieces : Unmarked(p) \in Pieces /\ (~p.raw => Unmarked(p) = p)
  BY DEF Unmarked, Pieces
<1>2. RestoreStage \in [Pieces -> Seq(Pieces)] /\ \A p \in Pieces : RestoreStage[p] = <<Unmarked(p)>>
  BY <1>1, LastPiece DEF RestoreStage
<1>3. ASSUME NEW s \in Seq(Pieces)
      PROVE  RestoreRaw(s) = Becomes(s, RestoreStage)
  <2>1. PICK h \in [Pieces -> Pieces] : \A p \in Pieces : h[p] = Unmarked(p)
    <3>1. [p \in Pieces |-> Unmarked(p)] \in [Pieces -> Pieces]
      BY <1>1
    <3> QED BY <3>1
  <2>2. Becomes(s, RestoreStage) = Mapped(s, h)
    <3>1. \A p \in Pieces : RestoreStage[p] = <<h[p]>>
      BY <1>2, <2>1
    <3> QED BY <3>1, BecomesEach
  <2>3. \A i \in DOMAIN s : h[s[i]] = [s[i] EXCEPT !.raw = FALSE]
    <3> SUFFICES ASSUME NEW i \in DOMAIN s PROVE h[s[i]] = [s[i] EXCEPT !.raw = FALSE]
      OBVIOUS
    <3>1. h[s[i]] = Unmarked(s[i])
      BY <2>1
    <3> QED BY <3>1 DEF Unmarked
  <2>4. RestoreRaw(s) = Mapped(s, h)
    BY <2>3 DEF RestoreRaw, Mapped
  <2> QED BY <2>2, <2>4
<1> QED BY <1>1, <1>2, <1>3

\* What is resolved is not raw.
LEMMA ResolvedUnmarked ==
  ASSUME NEW p \in Pieces, ~p.raw
  PROVE  Becomes(Resolved(p), RestoreStage) = Resolved(p)
<1>1. \A x \in Pieces : ~x.raw => Becomes(<<x>>, RestoreStage) = <<x>>
  BY RestoreIs, BecomesOne
<1> DEFINE a == Piece("cte", p.of, <<>>, FALSE)
           b == Piece("table", p.of, <<>>, FALSE)
           c == Piece("table", p.of, p.args, FALSE)
<1>2. Becomes(<<>>, RestoreStage) = <<>>
  BY BecomesNone
<1>3. /\ a \in Pieces /\ b \in Pieces /\ c \in Pieces /\ Error \in Pieces
      /\ ~a.raw /\ ~b.raw /\ ~c.raw /\ ~Error.raw
  <2>1. "table" \in Kinds \cup Made /\ "cte" \in Kinds \cup Made
    BY DEF Made
  <2>2. p.of \in Names /\ p.args \in Seq(Arguments) /\ <<>> \in Seq(Arguments) /\ FALSE \in BOOLEAN
    BY PiecesAre, EmptySeq
  <2>3. a \in Pieces /\ b \in Pieces /\ c \in Pieces
    BY <2>1, <2>2, MadePieces
  <2>4. ~a.raw /\ ~b.raw /\ ~c.raw
    BY DEF Piece
  <2> QED BY <2>3, <2>4, PiecesAre
<1>4. Scanned(p) \in Pieces /\ ~Scanned(p).raw
  BY ScannedIs
<1>5. \/ Resolved(p) = <<>> \/ Resolved(p) = <<a>> \/ Resolved(p) = <<b>>
      \/ Resolved(p) = <<c>> \/ Resolved(p) = <<Error>> \/ Resolved(p) = <<Scanned(p)>>
  BY DEF Resolved, Reference, SourceTable
<1> HIDE DEF a, b, c
<1> QED BY <1>1, <1>2, <1>3, <1>4, <1>5

\* What a piece becomes to the very end.
Ending(k) == Then(Pieces, Unwound(k), RestoreStage)

\* With no round left, with some, for a raw piece, a call and any other.
LEMMA EndingIs ==
  ASSUME Deployed, NEW k \in Nat
  PROVE  /\ Ending(k) \in [Pieces -> Seq(Pieces)]
         /\ \A s \in Seq(Pieces) : Becomes(Becomes(s, Unwound(k)), RestoreStage) = Becomes(s, Ending(k))
         /\ \A p \in Pieces :
              /\ Ending(0)[p] = <<Error>>
              /\ p.raw => Ending(k + 1)[p] = <<Unmarked(p)>>
              /\ IsCall(p) => Ending(k + 1)[p] = Becomes(Expanded(p), Ending(k))
              /\ ~p.raw /\ ~IsCall(p) => Ending(k + 1)[p] = Resolved(p)
<1>1. \A m \in Nat :
        /\ Ending(m) \in [Pieces -> Seq(Pieces)]
        /\ \A s \in Seq(Pieces) : Becomes(Becomes(s, Unwound(m)), RestoreStage) = Becomes(s, Ending(m))
        /\ \A p \in Pieces : Ending(m)[p] = Becomes(Unwound(m)[p], RestoreStage)
  <2> SUFFICES ASSUME NEW m \in Nat
               PROVE  /\ Ending(m) \in [Pieces -> Seq(Pieces)]
                      /\ \A s \in Seq(Pieces) :
                           Becomes(Becomes(s, Unwound(m)), RestoreStage) = Becomes(s, Ending(m))
                      /\ \A p \in Pieces : Ending(m)[p] = Becomes(Unwound(m)[p], RestoreStage)
    OBVIOUS
  <2>1. Unwound(m) \in [Pieces -> Seq(Pieces)] /\ RestoreStage \in [Pieces -> Seq(Pieces)]
    BY UnwoundIs, RestoreIs
  <2> QED BY <2>1, StagesThen DEF Ending
<1> SUFFICES ASSUME NEW p \in Pieces
             PROVE  /\ Ending(0)[p] = <<Error>>
                    /\ p.raw => Ending(k + 1)[p] = <<Unmarked(p)>>
                    /\ IsCall(p) => Ending(k + 1)[p] = Becomes(Expanded(p), Ending(k))
                    /\ ~p.raw /\ ~IsCall(p) => Ending(k + 1)[p] = Resolved(p)
  BY <1>1
<1>2. \A x \in Pieces : Becomes(<<x>>, RestoreStage) = <<Unmarked(x)>>
  BY RestoreIs, BecomesOne
<1>3. Ending(0)[p] = <<Error>>
  <2>1. Ending(0)[p] = Becomes(Unwound(0)[p], RestoreStage)
    BY <1>1
  <2>2. Unwound(0)[p] = <<Error>>
    BY UnwoundIs DEF ErrorStage
  <2>3. Error \in Pieces /\ ~Error.raw
    BY PiecesAre
  <2> QED BY <1>2, <2>1, <2>2, <2>3, RestoreIs
<1>4. Ending(k + 1)[p] = Becomes(Unwound(k + 1)[p], RestoreStage)
  BY <1>1
<1>5. Unwound(k + 1)[p] = IF p.raw THEN <<p>>
                          ELSE IF IsCall(p) THEN Becomes(Expanded(p), Unwound(k))
                          ELSE Resolved(p)
  BY UnwoundIs
<1>6. IsCall(p) => ~p.raw /\ Expanded(p) \in Seq(Pieces)
  BY ExpandedIs DEF IsCall
<1>7. IsCall(p) => Becomes(Becomes(Expanded(p), Unwound(k)), RestoreStage) = Becomes(Expanded(p), Ending(k))
  BY <1>1, <1>6
<1>8. ~p.raw => Becomes(Resolved(p), RestoreStage) = Resolved(p)
  BY ResolvedUnmarked
<1> QED BY <1>2, <1>3, <1>4, <1>5, <1>6, <1>7, <1>8

-----------------------------------------------------------------------------
\* A piece that no stage before the macros touches, and no call; macros of such pieces,
\* and of calls whose arguments are such.
Still(p) == ~p.raw /\ p.kind \notin {"var", "builtin", "call"} /\ ~(p.kind = "this" /\ p.braced)
StillMacros ==
  \A name \in DOMAIN macros : \A i \in DOMAIN macros[name].body :
    LET p == macros[name].body[i]
    IN  (p.kind = "call" \/ Still(p)) /\ \A j \in DOMAIN p.args : Still(p.args[j])

\* It ends as what it stands for.
LEMMA StillEnds ==
  ASSUME Deployed, NEW p \in Pieces, Still(p), NEW k \in Nat
  PROVE  Ending(k)[p] = Standing[k][p]
<1>1. CASE k = 0
  BY <1>1, EndingIs, StandingKinds
<1>2. CASE k # 0
  <2>1. PICK m \in Nat : k = m + 1
    <3>1. k - 1 \in Nat /\ k = (k - 1) + 1
      BY <1>2
    <3> QED BY <3>1
  <2>2. /\ ~p.raw /\ ~IsCall(p) /\ p.kind \notin {"var", "builtin"}
        /\ ~(p.kind = "this" /\ p.braced)
    BY DEF Still, IsCall
  <2>3. Ending(m + 1)[p] = Resolved(p)
    BY <2>2, EndingIs
  <2>4. Standing[m + 1][p] = Resolved(p)
    BY <2>2, StandingKinds
  <2> QED BY <2>1, <2>3, <2>4
<1> QED BY <1>1, <1>2

\* Of two texts, place by place.
LEMMA BecomesLockstep ==
  ASSUME NEW s, NEW t, DOMAIN s = DOMAIN t, NEW f, NEW g, \A i \in DOMAIN s : f[s[i]] = g[t[i]]
  PROVE  Becomes(s, f) = Becomes(t, g)
BY DEF Becomes, Images

-----------------------------------------------------------------------------
\* A use whose value is text, and no builtin between braces.
Simple(p) ==
  /\ p.kind = "var" => p.of \in DOMAIN context.vars /\ context.vars[p.of].kind = "text"
  /\ ~(p.kind = "builtin" /\ p.braced)

\* Text is what it is, without its braces.
LEMMA TextEnds ==
  ASSUME Deployed, NEW p \in Pieces, p.kind \in {"text", "table"}, ~p.raw, NEW k \in Nat
  PROVE  /\ Ending(k + 1)[p] = <<[p EXCEPT !.braced = FALSE]>>
         /\ ~p.braced => Ending(k + 1)[p] = <<p>>
<1>1. ~IsCall(p)
  BY DEF IsCall
<1>2. Ending(k + 1)[p] = Resolved(p)
  BY <1>1, EndingIs
<1>3. Resolved(p) = <<[p EXCEPT !.braced = FALSE]>>
  BY DEF Resolved, Scanned
<1>4. ~p.braced => [p EXCEPT !.braced = FALSE] = p
  BY DEF Pieces
<1> QED BY <1>2, <1>3, <1>4

\* The value of such a variable.
LEMMA TextValue ==
  ASSUME Deployed, context # <<>>, NEW p \in Pieces, p.kind = "var", Simple(p)
  PROVE  LET value == context.vars[p.of]
         IN  /\ value \in Pieces /\ value.kind = "text" /\ value.args = <<>>
             /\ value.braced = FALSE /\ value.raw = FALSE
             /\ ValueOf(p) = [value EXCEPT !.braced = p.braced]
<1> DEFINE value == context.vars[p.of]
<1>1. p.of \in DOMAIN context.vars /\ value.kind = "text" /\ value \in Authored
  BY DEF Simple, Deployed
<1>2. value \in Pieces /\ value.args = <<>> /\ ~value.raw /\ ~value.braced
  BY <1>1 DEF Authored
<1>3. value.raw = FALSE /\ value.braced = FALSE /\ p.braced \in BOOLEAN
  BY <1>2, PiecesAre
<1>4. ValueOf(p) = [value EXCEPT !.braced = p.braced \/ value.braced]
  <2>1. ValueOf(p) = IF p.braced /\ value.braced THEN Template("call", "{{", <<>>)
                     ELSE [value EXCEPT !.braced = p.braced \/ value.braced]
    BY <1>1 DEF ValueOf
  <2> HIDE DEF value
  <2> QED BY <1>3, <2>1
<1>5. (p.braced \/ value.braced) = p.braced
  <2> HIDE DEF value
  <2> QED BY <1>3
<1> HIDE DEF value
<1>6. ValueOf(p) = [value EXCEPT !.braced = p.braced]
  BY <1>4, <1>5
<1> QED BY <1>1, <1>2, <1>3, <1>6 DEF value

\* An argument ends as what it stands for.
Became(p) == IF p.kind = "var" THEN ValueOf(p) ELSE IF p.kind = "builtin" THEN Now ELSE p

\* It is text, and ends as the argument stands.
LEMMA ArgumentEnds ==
  ASSUME Deployed, context # <<>>, NEW p \in Arguments, ~p.braced,
         p.kind \in {"text", "var", "builtin"}, Simple(p), NEW k \in Nat
  PROVE  /\ Became(p) \in Pieces /\ Became(p).kind = "text" /\ Became(p).braced = FALSE
         /\ Ending(k)[Became(p)] = Standing[k][p]
<1> DEFINE q == Became(p)
           value == context.vars[p.of]
<1>1. p \in Pieces /\ p.braced = FALSE
  BY PiecesAre DEF Arguments
<1>2. Now \in Pieces /\ Now.kind = "text" /\ Now.braced = FALSE /\ Now.raw = FALSE
  BY TheMade, PiecesAre DEF Now, Plain, Piece
<1>3. p.kind = "var" => /\ value \in Pieces /\ value.kind = "text" /\ value.braced = FALSE
                        /\ value.raw = FALSE /\ ValueOf(p) = value
  <2> SUFFICES ASSUME p.kind = "var"
               PROVE  /\ value \in Pieces /\ value.kind = "text" /\ value.braced = FALSE
                      /\ value.raw = FALSE /\ ValueOf(p) = value
    OBVIOUS
  <2>1. /\ value \in Pieces /\ value.kind = "text" /\ value.braced = FALSE /\ value.raw = FALSE
        /\ ValueOf(p) = [value EXCEPT !.braced = p.braced]
    BY <1>1, TextValue
  <2> HIDE DEF value
  <2>2. [value EXCEPT !.braced = p.braced] = value
    BY <1>1, <2>1 DEF Pieces
  <2> QED BY <2>1, <2>2
<1>4. p.raw = FALSE
  BY DEF Arguments
<1> HIDE DEF value
<1>5. q \in Pieces /\ q.kind = "text" /\ q.braced = FALSE /\ q.raw = FALSE
  BY <1>1, <1>2, <1>3, <1>4 DEF Became
<1>6. CASE k = 0
  <2> HIDE DEF q
  <2>1. Ending(0)[q] = <<Error>> /\ Standing[0][p] = <<Error>>
    BY <1>1, <1>5, EndingIs, StandingKinds
  <2> QED BY <1>5, <1>6, <2>1 DEF q
<1>7. CASE k # 0
  <2>1. PICK m \in Nat : k = m + 1
    <3>1. k - 1 \in Nat /\ k = (k - 1) + 1
      BY <1>7
    <3> QED BY <3>1
  <2>2. Ending(m + 1)[q] = <<q>>
    <3> HIDE DEF q
    <3> QED BY <1>5, TextEnds
  <2>3. Standing[m + 1][p] = <<q>>
    <3>1. CASE p.kind = "text"
      <4>1. Still(p)
        BY <1>4, <3>1 DEF Still
      <4>2. Ending(m + 1)[p] = Standing[m + 1][p]
        BY <1>1, <4>1, StillEnds
      <4>3. q = p
        BY <3>1 DEF Became
      <4> QED BY <2>2, <4>2, <4>3
    <3>2. CASE p.kind = "var"
      <4>1. Standing[m + 1][p] = <<value>>
        BY <1>1, <3>2, StandingKinds DEF value
      <4> QED BY <1>3, <3>2, <4>1 DEF Became
    <3>3. CASE p.kind = "builtin"
      <4>1. Standing[m + 1][p] = <<Now>>
        BY <1>1, <3>3, StandingKinds
      <4> QED BY <3>3, <4>1 DEF Became
    <3> QED BY <3>1, <3>2, <3>3
  <2> HIDE DEF q
  <2> QED BY <1>5, <2>1, <2>2, <2>3 DEF q
<1> QED BY <1>6, <1>7

\* So do the arguments of a call, which stays a call.
LEMMA ArgumentsEnd ==
  ASSUME Deployed, context # <<>>, NEW args \in Seq(Arguments),
         \A i \in DOMAIN args :
           args[i].kind \in {"text", "var", "builtin"} /\ ~args[i].braced /\ Simple(args[i])
  PROVE  /\ ~Fails(Filled(args)) /\ ~Nested(Filled(args))
         /\ Timed(Filled(args)) \in Seq(Arguments) /\ Len(Timed(Filled(args))) = Len(args)
         /\ DOMAIN Timed(Filled(args)) = DOMAIN args
         /\ \A k \in Nat, i \in DOMAIN args :
              Ending(k)[Timed(Filled(args))[i]] = Standing[k][args[i]]
         /\ \A i \in DOMAIN args : Timed(Filled(args))[i].braced = args[i].braced
<1>1. \A i \in DOMAIN args : args[i] \in Arguments
  OBVIOUS
<1>2. \A k \in Nat, i \in DOMAIN args :
        /\ Became(args[i]).kind = "text" /\ Became(args[i]).braced = FALSE
        /\ Ending(k)[Became(args[i])] = Standing[k][args[i]]
  <2> SUFFICES ASSUME NEW k \in Nat, NEW i \in DOMAIN args
               PROVE  /\ Became(args[i]).kind = "text" /\ Became(args[i]).braced = FALSE
                      /\ Ending(k)[Became(args[i])] = Standing[k][args[i]]
    OBVIOUS
  <2> DEFINE p == args[i]
  <2>1. p \in Arguments /\ ~p.braced /\ p.kind \in {"text", "var", "builtin"} /\ Simple(p)
    BY <1>1
  <2> HIDE DEF p
  <2>2. /\ Became(p).kind = "text" /\ Became(p).braced = FALSE
        /\ Ending(k)[Became(p)] = Standing[k][p]
    BY <2>1, ArgumentEnds
  <2> QED BY <2>2 DEF p
<1>3. /\ Filled(args) \in Seq(Pieces) /\ Len(Filled(args)) = Len(args)
      /\ DOMAIN Filled(args) = DOMAIN args
      /\ ~Fails(Filled(args)) /\ ~Nested(Filled(args)) => Filled(args) \in Seq(Arguments)
  BY FilledIs
<1>4. ASSUME NEW i \in DOMAIN args
      PROVE  /\ Filled(args)[i] = IF args[i].kind = "var" THEN ValueOf(args[i]) ELSE args[i]
             /\ ~Filled(args)[i].braced /\ Filled(args)[i].kind # "error"
             /\ args[i].kind = "var" => Filled(args)[i].kind = "text"
  <2>1. Filled(args)[i] = IF args[i].kind = "var" THEN ValueOf(args[i]) ELSE args[i]
    BY DEF Filled
  <2>2. Became(args[i]).kind = "text" /\ Became(args[i]).braced = FALSE
    <3>1. 0 \in Nat
      OBVIOUS
    <3> QED BY <1>2, <3>1
  <2>3. args[i].braced = FALSE /\ args[i].kind # "error"
    BY <1>1 DEF Arguments, Kinds
  <2> QED BY <2>1, <2>2, <2>3 DEF Became
<1>5. ~Fails(Filled(args))
  <2>1. Error.kind = "error"
    BY PiecesAre
  <2> QED BY <1>3, <1>4, <2>1 DEF Fails, ToSet
<1>6. ~Nested(Filled(args)) /\ Filled(args) \in Seq(Arguments)
  <2>1. ~Nested(Filled(args))
    BY <1>3, <1>4 DEF Nested
  <2> QED BY <1>3, <1>5, <2>1
<1>7. /\ Timed(Filled(args)) \in Seq(Arguments) /\ Len(Timed(Filled(args))) = Len(args)
      /\ DOMAIN Timed(Filled(args)) = DOMAIN args
      /\ \A i \in DOMAIN args : Timed(Filled(args))[i] =
           IF Filled(args)[i].kind = "builtin" THEN Now ELSE Filled(args)[i]
  BY <1>3, <1>6, TimedIs
<1>8. ASSUME NEW i \in DOMAIN args
      PROVE  Timed(Filled(args))[i] = Became(args[i])
  BY <1>4, <1>7 DEF Became
<1>9. \A i \in DOMAIN args : Timed(Filled(args))[i].braced = args[i].braced
  <2>1. \A i \in DOMAIN args : args[i].braced \in BOOLEAN
    BY <1>1 DEF Arguments
  <2>2. 0 \in Nat
    OBVIOUS
  <2> QED BY <1>2, <1>8, <2>1, <2>2
<1> QED BY <1>2, <1>5, <1>6, <1>7, <1>8, <1>9

\* A set of pieces with all that expansion brings in, in which every call is known.
Complete(R) ==
  /\ R \subseteq Pieces
  /\ \A p \in R : /\ p.kind = "call" => Nested(p.args) \/ p.of \in DOMAIN macros
                  /\ IsCall(p) => ToSet(Expanded(p)) \subseteq R

\* The same call, with other arguments that end as these stand.
SameCall(q, p) ==
  /\ q.kind = "call" /\ p.kind = "call" /\ q.of = p.of /\ ~q.raw /\ ~p.raw
  /\ Len(q.args) = Len(p.args)
  /\ \A i \in DOMAIN p.args : q.args[i].braced = p.args[i].braced
  /\ \A k \in Nat, i \in DOMAIN p.args : Ending(k)[q.args[i]] = Standing[k][p.args[i]]

\* A call of a body, handed arguments that end as others stand, is such a call.
LEMMA HandedSame ==
  ASSUME Deployed, NEW p \in Bodies, NEW params \in Seq(Names),
         NEW a \in Seq(Arguments), Len(a) = Len(params),
         NEW b \in Seq(Arguments), Len(b) = Len(params),
         \A i \in DOMAIN a : b[i].braced = a[i].braced,
         \A k \in Nat, i \in DOMAIN a : Ending(k)[b[i]] = Standing[k][a[i]],
         \A j \in DOMAIN p.args : Still(p.args[j])
  PROVE  /\ p.kind = "call" => SameCall(Handed(params, b, p), Handed(params, a, p))
         /\ p.kind # "call" => Handed(params, b, p) = p /\ Handed(params, a, p) = p
<1> DEFINE q == Handed(params, b, p)
           r == Handed(params, a, p)
<1>1. p \in Pieces /\ ~p.raw /\ p.args \in Seq(Arguments)
  BY AuthoredLike, PiecesAre
<1>2. /\ q.kind = p.kind /\ q.of = p.of /\ q.raw = p.raw
      /\ Len(q.args) = Len(p.args) /\ DOMAIN q.args = DOMAIN p.args
      /\ \A j \in DOMAIN p.args : q.args[j] = Put(params, b, p.args[j])
  BY <1>1, HandedIs
<1>3. /\ r.kind = p.kind /\ r.of = p.of /\ r.raw = p.raw
      /\ Len(r.args) = Len(p.args) /\ DOMAIN r.args = DOMAIN p.args
      /\ \A j \in DOMAIN p.args : r.args[j] = Put(params, a, p.args[j])
  BY <1>1, HandedIs
<1> HIDE DEF q, r
<1>4. ASSUME p.kind = "call"
      PROVE  SameCall(q, r)
  <2>1. ASSUME NEW j \in DOMAIN p.args
        PROVE  /\ q.args[j].braced = r.args[j].braced
               /\ \A k \in Nat : Ending(k)[q.args[j]] = Standing[k][r.args[j]]
    <3> DEFINE n == Position(params, p.args[j])
    <3>1. /\ n = 0 => Put(params, b, p.args[j]) = p.args[j] /\ Put(params, a, p.args[j]) = p.args[j]
          /\ n # 0 => /\ n \in DOMAIN a
                      /\ Put(params, b, p.args[j]) = b[n] /\ Put(params, a, p.args[j]) = a[n]
      BY PutIs
    <3>2. p.args[j] \in Pieces /\ Still(p.args[j])
      BY <1>1, PiecesAre
    <3>3. \A k \in Nat : Ending(k)[p.args[j]] = Standing[k][p.args[j]]
      BY <3>2, StillEnds
    <3> HIDE DEF n
    <3> QED BY <1>2, <1>3, <3>1, <3>3
  <2> QED BY <1>1, <1>2, <1>3, <1>4, <2>1 DEF SameCall
<1>5. ASSUME p.kind # "call"
      PROVE  Handed(params, b, p) = p /\ Handed(params, a, p) = p
  <2>1. \A j \in DOMAIN p.args : p.args[j].kind # "param"
    <3>1. p \in Authored
      BY <1>5 DEF Bodies
    <3> QED BY <3>1 DEF Authored
  <2>2. \A j \in DOMAIN p.args : /\ Put(params, b, p.args[j]) = p.args[j]
                                /\ Put(params, a, p.args[j]) = p.args[j]
    BY <2>1, PositionIs DEF Put
  <2>3. [j \in DOMAIN p.args |-> Put(params, b, p.args[j])] = p.args
        /\ [j \in DOMAIN p.args |-> Put(params, a, p.args[j])] = p.args
    BY <1>1, <2>2
  <2>4. [p EXCEPT !.args = p.args] = p
    BY <1>1 DEF Pieces
  <2> QED BY <2>3, <2>4 DEF Handed
<1> QED BY <1>4, <1>5 DEF q, r

\* The same calls end as they stand, however deep their macros call others.
LEMMA CallEnds ==
  ASSUME Deployed, StillMacros, NEW R, Complete(R), NEW n \in Nat
  PROVE  \A p \in R, q \in Pieces : SameCall(q, p) => Ending(n)[q] = Standing[n][p]
<1> DEFINE Holding(k) == \A p \in R, q \in Pieces : SameCall(q, p) => Ending(k)[q] = Standing[k][p]
           S == {k \in Nat : Holding(k)}
<1>1. Holding(0)
  BY EndingIs, StandingKinds DEF Complete
<1>2. ASSUME NEW k \in Nat, Holding(k)
      PROVE  Holding(k + 1)
  <2> SUFFICES ASSUME NEW p \in R, NEW q \in Pieces, SameCall(q, p)
               PROVE  Ending(k + 1)[q] = Standing[k + 1][p]
    OBVIOUS
  <2>1. /\ p \in Pieces /\ ~p.raw /\ ~q.raw /\ q.kind = "call" /\ p.kind = "call" /\ q.of = p.of
        /\ Len(q.args) = Len(p.args)
        /\ p.args \in Seq(Arguments) /\ q.args \in Seq(Arguments) /\ DOMAIN p.args = DOMAIN q.args
        /\ \A i \in DOMAIN p.args : q.args[i].braced = p.args[i].braced
        /\ \A m \in Nat, i \in DOMAIN p.args : Ending(m)[q.args[i]] = Standing[m][p.args[i]]
    <3>1. p \in Pieces /\ p.args \in Seq(Arguments) /\ q.args \in Seq(Arguments)
      BY PiecesAre DEF Complete
    <3> QED BY <3>1 DEF SameCall
  <2>2. (IsCall(q) <=> IsCall(p)) /\ (Nested(q.args) <=> Nested(p.args))
    <3>1. q.raw = p.raw
      BY <2>1, PiecesAre
    <3> QED BY <2>1, <3>1, CallsAlike
  <2>3. CASE ~IsCall(p)
    <3>1. Nested(p.args)
      BY <2>1, <2>3 DEF Complete, IsCall
    <3>2. Resolved(p) = <<Plain("{{")>> /\ Resolved(q) = <<Plain("{{")>>
      BY <2>1, <2>2, <3>1, ScannedIs DEF Resolved
    <3>3. Ending(k + 1)[q] = Resolved(q)
      BY <2>1, <2>2, <2>3, EndingIs
    <3>4. Standing[k + 1][p] = Resolved(p)
      BY <2>1, <2>3, StandingKinds
    <3> QED BY <3>2, <3>3, <3>4
  <2>4. CASE IsCall(p)
    <3> DEFINE macro == macros[p.of]
    <3>1. /\ Ending(k + 1)[q] = Becomes(Expanded(q), Ending(k))
          /\ Standing[k + 1][p] = Becomes(Expanded(p), Standing[k])
      BY <2>1, <2>2, <2>4, EndingIs, StandingKinds
    <3>2. p.of \in DOMAIN macros /\ macro.params \in Seq(Names) /\ macro.body \in Seq(Bodies)
      BY <2>4 DEF IsCall, Deployed
    <3>3. CASE Len(p.args) # Len(macro.params)
      <4>1. Expanded(p) = <<Error>> /\ Expanded(q) = <<Error>>
        BY <2>1, <2>2, <2>4, <3>3, ExpandedIs
      <4>2. Error \in Pieces /\ Still(Error)
        BY PiecesAre DEF Still
      <4>3. Ending(k)[Error] = Standing[k][Error]
        BY <4>2, StillEnds
      <4>4. \A i \in DOMAIN <<Error>> : <<Error>>[i] = Error
        OBVIOUS
      <4>5. Becomes(<<Error>>, Ending(k)) = Becomes(<<Error>>, Standing[k])
        BY <4>3, <4>4, BecomesAlike
      <4> QED BY <3>1, <4>1, <4>5
    <3>4. CASE Len(p.args) = Len(macro.params)
      <4> DEFINE before == p.args
                 after == q.args
                 s == Substituted(macro, after)
                 t == Substituted(macro, before)
      <4>1. Expanded(p) = t /\ Expanded(q) = s /\ ToSet(t) \subseteq R
        <5>1. Expanded(p) = t /\ Expanded(q) = s
          BY <2>1, <2>2, <2>4, <3>4, ExpandedIs
        <5>2. ToSet(Expanded(p)) \subseteq R
          BY <2>4 DEF Complete
        <5> QED BY <5>1, <5>2
      <4>2. /\ before \in Seq(Arguments) /\ Len(before) = Len(macro.params)
            /\ after \in Seq(Arguments) /\ Len(after) = Len(macro.params)
            /\ \A i \in DOMAIN before : after[i].braced = before[i].braced
            /\ \A m \in Nat, i \in DOMAIN before : Ending(m)[after[i]] = Standing[m][before[i]]
        BY <2>1, <3>4
      <4>3. \A i \in DOMAIN macro.body :
              /\ macro.body[i].kind = "call" \/ Still(macro.body[i])
              /\ \A j \in DOMAIN macro.body[i].args : Still(macro.body[i].args[j])
        BY <3>2 DEF StillMacros
      <4> HIDE DEF before, after, macro
      <4>4. /\ DOMAIN s = DOMAIN macro.body /\ s \in Seq(Pieces)
            /\ \A i \in DOMAIN macro.body :
                 LET m == Position(macro.params, macro.body[i])
                 IN  /\ m = 0 => s[i] = Handed(macro.params, after, macro.body[i])
                     /\ m # 0 => m \in DOMAIN after /\ s[i] = after[m]
        BY <3>2, <4>2, SubstitutedIs
      <4>5. /\ DOMAIN t = DOMAIN macro.body
            /\ \A i \in DOMAIN macro.body :
                 LET m == Position(macro.params, macro.body[i])
                 IN  /\ m = 0 => t[i] = Handed(macro.params, before, macro.body[i])
                     /\ m # 0 => m \in DOMAIN before /\ t[i] = before[m]
        BY <3>2, <4>2, SubstitutedIs
      <4> HIDE DEF s, t
      <4>6. ASSUME NEW i \in DOMAIN macro.body
            PROVE  Ending(k)[s[i]] = Standing[k][t[i]]
        <5> DEFINE m == Position(macro.params, macro.body[i])
                   b == macro.body[i]
        <5>1. b \in Bodies /\ (b.kind = "call" \/ Still(b)) /\ \A j \in DOMAIN b.args : Still(b.args[j])
          BY <3>2, <4>3
        <5>2. m = 0 => /\ s[i] = Handed(macro.params, after, b)
                       /\ t[i] = Handed(macro.params, before, b)
          BY <4>4, <4>5
        <5>3. m # 0 => m \in DOMAIN before /\ s[i] = after[m] /\ t[i] = before[m]
          BY <4>4, <4>5
        <5>4. s[i] \in Pieces /\ t[i] \in R
          BY <4>1, <4>4, <4>5 DEF ToSet
        <5> HIDE DEF m, b
        <5>5. /\ b.kind = "call" => SameCall(Handed(macro.params, after, b), Handed(macro.params, before, b))
              /\ b.kind # "call" => /\ Handed(macro.params, after, b) = b
                                    /\ Handed(macro.params, before, b) = b
          BY <3>2, <4>2, <5>1, HandedSame
        <5>6. b.kind # "call" => Ending(k)[b] = Standing[k][b]
          BY <5>1, AuthoredLike, StillEnds
        <5>7. CASE m # 0
          BY <4>2, <5>3, <5>7
        <5>8. CASE m = 0 /\ b.kind = "call"
          BY <1>2, <5>2, <5>4, <5>5, <5>8
        <5>9. CASE m = 0 /\ b.kind # "call"
          BY <5>2, <5>5, <5>6, <5>9
        <5> QED BY <5>7, <5>8, <5>9
      <4>7. Becomes(s, Ending(k)) = Becomes(t, Standing[k])
        <5> DEFINE f == Ending(k)
                   g == Standing[k]
        <5>1. DOMAIN s = DOMAIN t /\ \A i \in DOMAIN s : f[s[i]] = g[t[i]]
          BY <4>4, <4>5, <4>6
        <5> HIDE DEF f, g
        <5>2. Becomes(s, f) = Becomes(t, g)
          BY <5>1, BecomesLockstep
        <5> QED BY <5>2 DEF f, g
      <4> QED BY <3>1, <4>1, <4>7
    <3> QED BY <3>3, <3>4
  <2> QED BY <2>3, <2>4
<1>3. Holding(n)
  <2> HIDE DEF Holding
  <2>1. 0 \in S /\ \A k \in Nat : k \in S => k + 1 \in S
    BY <1>1, <1>2
  <2> HIDE DEF S
  <2>2. n \in S
    BY <2>1, Cutting!SetInduction
  <2> QED BY <2>2 DEF S
<1> QED BY <1>3

\* What preprocess makes of a piece ends as what the piece stands for.
LEMMA PieceEnds ==
  ASSUME Deployed, context # <<>>, StillMacros, NEW R, Complete(R), NEW p \in Authored, p \in R,
         Simple(p), \A i \in DOMAIN p.args : Simple(p.args[i]), NEW k \in Nat
  PROVE  Becomes(Replaced[p], Ending(k + 1)) = Standing[k + 1][p]
<1> DEFINE q == Built(Valued(p))
<1>1. p \in Pieces /\ ~p.raw /\ p.kind \in Kinds /\ p.args \in Seq(Arguments)
  BY PiecesAre DEF Authored
<1>2. /\ p.kind = "this" /\ p.braced =>
           Replaced[p] = <<Built(Valued(Piece("table", "this", <<>>, FALSE)))>>
      /\ ~(p.kind = "this" /\ p.braced) => Replaced[p] = <<q>>
  BY <1>1, ReplacedIs
<1>3. \A x \in Pieces : Becomes(<<x>>, Ending(k + 1)) = Ending(k + 1)[x]
  <2>1. Ending(k + 1) \in [Pieces -> Seq(Pieces)]
    BY EndingIs
  <2> QED BY <2>1, BecomesOne
<1>4. /\ Filled(<<>>) = <<>> /\ Timed(<<>>) = <<>> /\ ~Fails(<<>>) /\ DOMAIN <<>> = {}
      /\ ~Nested(<<>>)
  <2>1. DOMAIN <<>> = {}
    OBVIOUS
  <2> QED BY <2>1 DEF Filled, Timed, Fails, ToSet, Nested
<1>5. \A x \in Pieces : x.args = <<>> /\ x.kind \notin {"var", "builtin"} => Valued(x) = x /\ Built(x) = x
  <2> SUFFICES ASSUME NEW x \in Pieces, x.args = <<>>, x.kind \notin {"var", "builtin"}
               PROVE  Valued(x) = x /\ Built(x) = x
    OBVIOUS
  <2>1. [x EXCEPT !.args = x.args] = x
    BY DEF Pieces
  <2>2. Valued(x) = [x EXCEPT !.args = Filled(x.args)]
    BY <1>4 DEF Valued
  <2>3. Built(x) = [x EXCEPT !.args = Timed(x.args)]
    BY DEF Built
  <2> QED BY <1>4, <2>1, <2>2, <2>3
<1>6. CASE p.kind = "this" /\ p.braced
  <2> DEFINE table == Piece("table", "this", <<>>, FALSE)
  <2>1. /\ table \in Pieces /\ table.kind = "table" /\ table.args = <<>>
        /\ table.braced = FALSE /\ table.raw = FALSE
    BY TheMade
  <2> HIDE DEF table
  <2>2. Built(Valued(table)) = table
    BY <1>5, <2>1
  <2>3. Ending(k + 1)[table] = <<table>>
    BY <2>1, TextEnds
  <2>4. Becomes(Replaced[p], Ending(k + 1)) = <<table>>
    BY <1>2, <1>3, <1>6, <2>1, <2>2, <2>3 DEF table
  <2> QED BY <1>1, <1>6, <2>4, StandingKinds DEF table
<1>7. CASE p.kind = "var"
  <2> DEFINE value == context.vars[p.of]
             x == ValueOf(p)
  <2>1. /\ value \in Pieces /\ value.kind = "text" /\ value.args = <<>>
        /\ value.braced = FALSE /\ value.raw = FALSE
        /\ x = [value EXCEPT !.braced = p.braced]
    BY <1>1, <1>7, TextValue
  <2> HIDE DEF value
  <2>2. x \in Pieces /\ x.kind = "text" /\ x.args = <<>> /\ ~x.raw
    <3>1. p.braced \in BOOLEAN
      BY <1>1, PiecesAre
    <3>2. x \in Pieces
      BY <2>1, <3>1, MadePieces
    <3> QED BY <2>1, <3>2 DEF Pieces
  <2>3. [x EXCEPT !.braced = FALSE] = value
    BY <2>1 DEF Pieces
  <2>4. q = x
    <3>1. Valued(p) = x
      BY <1>7 DEF Valued
    <3> QED BY <1>5, <2>2, <3>1
  <2> HIDE DEF x, q
  <2>5. Ending(k + 1)[x] = <<value>>
    BY <2>2, <2>3, TextEnds
  <2>6. Standing[k + 1][p] = <<value>>
    BY <1>1, <1>7, StandingKinds DEF value
  <2> QED BY <1>2, <1>3, <1>7, <2>2, <2>4, <2>5, <2>6
<1>8. CASE p.kind = "builtin"
  <2>1. p.args = <<>> /\ ~p.braced
    BY <1>8 DEF Authored, Simple
  <2>2. Valued(p) = p
    <3>1. Valued(p) = [p EXCEPT !.args = Filled(p.args)]
      BY <1>4, <1>8, <2>1 DEF Valued
    <3>2. [p EXCEPT !.args = p.args] = p
      BY <1>1 DEF Pieces
    <3> QED BY <1>4, <2>1, <3>1, <3>2
  <2>3. q = Now
    BY <1>8, <2>1, <2>2 DEF Built
  <2>4. Now \in Pieces /\ Now.kind = "text" /\ ~Now.braced /\ ~Now.raw
    BY TheMade, PiecesAre DEF Now, Plain, Piece
  <2>5. Ending(k + 1)[Now] = <<Now>>
    BY <2>4, TextEnds
  <2>6. Standing[k + 1][p] = <<Now>>
    BY <1>1, <1>8, StandingKinds
  <2> QED BY <1>2, <1>3, <1>8, <2>3, <2>4, <2>5, <2>6
<1>9. CASE p.kind \notin {"var", "builtin"} /\ ~(p.kind = "this" /\ p.braced)
  <2> DEFINE args == p.args
             new == Timed(Filled(args))
  <2>1. args \in Seq(Arguments)
        /\ \A i \in DOMAIN args :
             args[i].kind \in {"text", "var", "builtin"} /\ ~args[i].braced /\ Simple(args[i])
    BY <1>1 DEF Authored
  <2>2. p.kind \notin {"call", "source"} => args = <<>>
    BY DEF Authored
  <2> HIDE DEF args
  <2>3. /\ ~Fails(Filled(args)) /\ ~Nested(Filled(args))
        /\ new \in Seq(Arguments) /\ Len(new) = Len(args) /\ DOMAIN new = DOMAIN args
        /\ \A m \in Nat, i \in DOMAIN args : Ending(m)[new[i]] = Standing[m][args[i]]
        /\ \A i \in DOMAIN args : new[i].braced = args[i].braced
    BY <2>1, ArgumentsEnd
  <2>4. q = [p EXCEPT !.args = new]
    <3>1. Valued(p) = [p EXCEPT !.args = Filled(p.args)]
      BY <1>9, <2>3 DEF Valued, args
    <3>2. Valued(p).kind # "builtin" /\ Valued(p).args = Filled(p.args)
      BY <1>1, <1>9, <3>1 DEF Pieces
    <3>3. q = [Valued(p) EXCEPT !.args = Timed(Filled(p.args))]
      BY <3>2 DEF Built
    <3>4. [[p EXCEPT !.args = Filled(p.args)] EXCEPT !.args = Timed(Filled(p.args))]
            = [p EXCEPT !.args = Timed(Filled(p.args))]
      BY <1>1 DEF Pieces
    <3> QED BY <3>1, <3>3, <3>4 DEF args
  <2> HIDE DEF q
  <2>5. /\ q \in Pieces /\ q.kind = p.kind /\ q.of = p.of /\ q.raw = p.raw /\ q.args = new
    <3>1. q \in Pieces
      BY <1>1, <2>3, <2>4, MadePieces
    <3> HIDE DEF new
    <3> QED BY <1>1, <2>4, <3>1 DEF Pieces
  <2>6. Becomes(Replaced[p], Ending(k + 1)) = Ending(k + 1)[q]
    BY <1>2, <1>3, <1>9, <2>5
  <2> HIDE DEF new
  <2>7. CASE p.kind = "call"
    <3>1. SameCall(q, p)
      BY <1>1, <2>3, <2>5, <2>7 DEF args, SameCall
    <3>2. Ending(k + 1)[q] = Standing[k + 1][p]
      BY <2>5, <3>1, CallEnds
    <3> QED BY <2>6, <3>2
  <2>8. CASE p.kind # "call"
    <3>1. \A i \in DOMAIN args : args[i].kind = "text"
      BY <1>4, <2>2, <2>8 DEF Authored, args
    <3>2. q = p
      <4>1. new = args
        <5>1. Filled(args) = args
          BY <2>1, <3>1 DEF Filled
        <5>2. Timed(args) = args
          BY <2>1, <3>1 DEF Timed
        <5> QED BY <5>1, <5>2 DEF new
      <4>2. [p EXCEPT !.args = p.args] = p
        BY <1>1 DEF Pieces
      <4> QED BY <2>4, <4>1, <4>2 DEF args
    <3>3. ~IsCall(p)
      BY <2>8 DEF IsCall
    <3>4. Ending(k + 1)[p] = Resolved(p) /\ Standing[k + 1][p] = Resolved(p)
      BY <1>1, <1>9, <3>3, EndingIs, StandingKinds
    <3> QED BY <2>6, <3>2, <3>4
  <2> QED BY <2>7, <2>8
<1> QED BY <1>6, <1>7, <1>8, <1>9

-----------------------------------------------------------------------------
\* A call nobody knows stays in the text through a round.
LEMMA CallStays ==
  ASSUME Deployed, NEW s \in Seq(Pieces), NEW p \in ToSet(s),
         p.kind = "call", p.of \notin DOMAIN macros, ~Nested(p.args)
  PROVE  p \in ToSet(Round(s))
<1>1. p \in Pieces /\ ~IsCall(p)
  BY DEF ToSet, IsCall
<1>2. Scanned(p) = p
  BY DEF Scanned
<1>3. UnfoldedStage[p] = <<p>>
  BY <1>1, <1>2 DEF UnfoldedStage, Unfolded
<1>4. ToSet(<<p>>) = {p}
  BY DEF ToSet
<1>5. ToSet(Round(s)) = UNION {ToSet(UnfoldedStage[x]) : x \in ToSet(s)}
  BY RoundPieces
<1> QED BY <1>3, <1>4, <1>5

\* Accepted sees the expanded text: every call on the way to it is known.
LEMMA AcceptedReaches ==
  ASSUME Deployed, NEW s \in Seq(Authored), Accepted(s)
  PROVE  \E R : ToSet(s) \subseteq R /\ Complete(R)
<1>1. s \in Seq(Pieces) /\ ToSet(s) \subseteq Pieces
  <2>1. s \in Seq(Pieces)
    BY PiecesAre
  <2> QED BY <2>1 DEF ToSet
<1>2. /\ ~Fails(ExpandMacros(s)) /\ ~TooLong(s)
      /\ \A p \in ToSet(ExpandMacros(s)) : Known(p)
  <2>1. ~TooLong(s)
    BY DEF Accepted, ExpandMacros, Fails, ToSet
  <2> QED BY <2>1 DEF Accepted, ToSet
<1>3. \A p : Known(p) /\ p.kind = "call" => p.of \in DOMAIN macros
  BY DEF Known
<1>4. CASE DOMAIN macros = {}
  <2>1. ExpandMacros(s) = s
    BY <1>2, <1>4 DEF ExpandMacros
  <2>2. \A p \in ToSet(s) : p.kind # "call" /\ ~IsCall(p)
    BY <1>2, <1>3, <1>4, <2>1 DEF IsCall
  <2> QED BY <1>1, <2>2 DEF Complete
<1>5. CASE DOMAIN macros # {}
  <2> DEFINE n == MaxIterations - 1
             R == UNION {ToSet(After(s, k)) : k \in 0..n}
  <2>1. /\ n \in Nat
        /\ Calls(After(s, n)) = {} => Rounds(s) = Round(After(s, n))
        /\ Calls(After(s, n)) # {} => Rounds(s) = <<Error>>
    BY RoundsAre
  <2>2. ExpandMacros(s) = Rounds(s)
    BY <1>2, <1>5 DEF ExpandMacros
  <2>3. Fails(<<Error>>)
    BY DEF Fails, ToSet
  <2> HIDE DEF n
  <2>4. ExpandMacros(s) = Round(After(s, n)) /\ Calls(After(s, n)) = {}
    BY <1>2, <2>1, <2>2, <2>3
  <2>5. \A k \in Nat : After(s, k) \in Seq(Pieces) /\ After(s, k + 1) = Round(After(s, k))
    BY <1>1, AfterIs, AfterType
  <2>6. ToSet(s) \subseteq R
    <3>1. 0 \in 0..n /\ After(s, 0) = s
      BY <2>1, AfterIs
    <3> QED BY <3>1
  <2>7. R \subseteq Pieces
    <3> SUFFICES ASSUME NEW k \in 0..n, NEW p \in ToSet(After(s, k)) PROVE p \in Pieces
      OBVIOUS
    <3>1. After(s, k) \in Seq(Pieces)
      BY <2>1, <2>5
    <3> QED BY <3>1 DEF ToSet
  <2>8. ASSUME NEW k \in 0..n, NEW p \in ToSet(After(s, k)), p.kind = "call"
        PROVE  Nested(p.args) \/ p.of \in DOMAIN macros
    <3> SUFFICES ASSUME ~Nested(p.args), p.of \notin DOMAIN macros PROVE FALSE
      OBVIOUS
    <3> DEFINE S == {j \in Nat : p \in ToSet(After(s, k + j))}
    <3>1. k \in Nat /\ n - k \in Nat /\ k + (n - k) = n
      BY <2>1
    <3>2. 0 \in S
      BY <3>1
    <3>3. \A j \in Nat : j \in S => j + 1 \in S
      <4> SUFFICES ASSUME NEW j \in S PROVE p \in ToSet(After(s, k + (j + 1)))
        OBVIOUS
      <4>1. k + j \in Nat /\ k + (j + 1) = (k + j) + 1 /\ p \in ToSet(After(s, k + j))
        BY <3>1
      <4>2. After(s, k + j) \in Seq(Pieces) /\ After(s, (k + j) + 1) = Round(After(s, k + j))
        BY <2>5, <4>1
      <4>3. p \in ToSet(Round(After(s, k + j)))
        BY <2>8, <4>1, <4>2, CallStays
      <4> QED BY <4>1, <4>2, <4>3
    <3> HIDE DEF S
    <3>4. n - k \in S
      BY <3>1, <3>2, <3>3, Cutting!SetInduction
    <3>5. p \in ToSet(After(s, n)) /\ After(s, n) \in Seq(Pieces)
      BY <2>1, <2>5, <3>1, <3>4 DEF S
    <3>6. p \in ToSet(ExpandMacros(s))
      BY <2>4, <2>8, <3>5, CallStays
    <3> QED BY <1>2, <1>3, <2>8, <3>6
  <2>9. ASSUME NEW k \in 0..n, NEW p \in ToSet(After(s, k)), IsCall(p)
        PROVE  ToSet(Expanded(p)) \subseteq R
    <3>1. k # n
      BY <2>4, <2>9 DEF Calls, ToSet
    <3>2. k \in Nat /\ k + 1 \in 0..n
      BY <2>1, <3>1
    <3>3. After(s, k) \in Seq(Pieces) /\ After(s, k + 1) = Round(After(s, k))
      BY <2>5, <3>2
    <3>4. p \in Pieces /\ ToSet(UnfoldedStage[p]) \subseteq ToSet(After(s, k + 1))
      <4>1. p \in Pieces
        BY <2>9, <3>3 DEF ToSet
      <4>2. ToSet(Round(After(s, k))) = UNION {ToSet(UnfoldedStage[x]) : x \in ToSet(After(s, k))}
        BY <3>3, RoundPieces
      <4> QED BY <2>9, <3>3, <4>1, <4>2
    <3>5. UnfoldedStage[p] = Expanded(p)
      BY <2>9, <3>4 DEF UnfoldedStage, Unfolded, IsCall
    <3> QED BY <3>2, <3>4, <3>5
  <2>10. Complete(R)
    BY <2>7, <2>8, <2>9 DEF Complete
  <2> QED BY <2>6, <2>10
<1> QED BY <1>4, <1>5

\* What Ordinary says of the pieces of a text and of the macros.
LEMMA OrdinaryIs ==
  ASSUME Deployed, context # <<>>, NEW s \in Seq(Authored), VarsKnown(s), Ordinary(s)
  PROVE  StillMacros /\ \A p \in Uses(s) : Simple(p) /\ Safe(p)
<1>1. StillMacros
  <2> SUFFICES ASSUME NEW name \in DOMAIN macros, NEW i \in DOMAIN macros[name].body
               PROVE  LET p == macros[name].body[i]
                      IN  (p.kind = "call" \/ Still(p)) /\ \A j \in DOMAIN p.args : Still(p.args[j])
    BY DEF StillMacros
  <2> DEFINE body == macros[name].body
             p == body[i]
  <2>1. p \in Bodies
    <3>1. body \in Seq(Bodies)
      BY DEF Deployed
    <3>2. i \in DOMAIN body
      OBVIOUS
    <3> HIDE DEF body
    <3> QED BY <3>1, <3>2
  <2>2. \A x \in Uses(body) : x.kind \notin {"this", "var", "builtin"}
    BY DEF Ordinary
  <2>3. p \in Uses(body) /\ \A j \in DOMAIN p.args : p.args[j] \in Uses(body)
    BY DEF Uses, ToSet
  <2> HIDE DEF p, body
  <2>4. p \in Pieces /\ ~p.raw
    BY <2>1, AuthoredLike
  <2>5. \A j \in DOMAIN p.args : p.args[j] \in Arguments
    BY <2>4, PiecesAre
  <2>6. ASSUME NEW j \in DOMAIN p.args
        PROVE  Still(p.args[j])
    <3>1. p.args[j].kind \notin {"this", "var", "builtin"} /\ p.args[j] \in Arguments
      BY <2>2, <2>3, <2>5
    <3>2. ~p.args[j].raw /\ p.args[j].kind # "call"
      BY <3>1 DEF Arguments
    <3> QED BY <3>1, <3>2 DEF Still
  <2>7. p.kind = "call" \/ Still(p)
    BY <2>2, <2>3, <2>4 DEF Still
  <2> QED BY <2>6, <2>7 DEF p, body
<1>2. ASSUME NEW p \in Uses(s)
      PROVE  Simple(p) /\ Safe(p)
  <2>1. /\ p.kind = "var" => p.of \in DOMAIN context.vars /\ context.vars[p.of].kind = "text"
        /\ ~(p.kind = "builtin" /\ p.braced)
    BY DEF VarsKnown, Ordinary
  <2>2. ASSUME p.kind = "var"
        PROVE  ~Fails(Resolved(context.vars[p.of]))
    <3> DEFINE value == context.vars[p.of]
    <3>1. value.kind = "text"
      BY <2>1, <2>2
    <3> HIDE DEF value
    <3>2. Resolved(value) = <<[value EXCEPT !.braced = FALSE]>>
      BY <3>1 DEF Resolved, Scanned
    <3>3. [value EXCEPT !.braced = FALSE] # Error
      <4>1. value \in Pieces
        BY <2>1, <2>2, PiecesAre DEF Deployed, value
      <4>2. [value EXCEPT !.braced = FALSE].kind = "text"
        BY <3>1, <4>1 DEF Pieces
      <4>3. Error.kind = "error"
        BY PiecesAre
      <4> QED BY <4>2, <4>3
    <3> QED BY <3>2, <3>3 DEF Fails, ToSet, value
  <2> QED BY <2>1, <2>2 DEF Simple, Safe
<1> QED BY <1>1, <1>2

\* Meaning, with its places named.
LEMMA MeaningPlaces ==
  ASSUME NEW s, NEW keep
  PROVE  Meaning(s, keep) =
           FlattenSeq([i \in DOMAIN s |->
             IF GoneAt(s, keep, i) THEN <<>> ELSE IF RawAt(s, i) THEN <<s[i]>>
             ELSE Standing[MaxIterations][s[i]]])
BY DEF Meaning, GoneAt, RawEdge, RawAt, OutOfRaw, TagsAt

\* Every stage from the replacement of {{ this }} to the end, in one.
Whole(k) == Then(Pieces, Replaced, Ending(k))

\* create_dbt_model, for a text that was accepted: all stages at once on each place.
LEMMA CreatedByPlace ==
  ASSUME Deployed, context # <<>>, NEW s \in Seq(Authored), Accepted(s),
         \A p \in Uses(s) : Safe(p), NEW keep, ~Refused(s, keep)
  PROVE  /\ Whole(MaxIterations) \in [Pieces -> Seq(Pieces)]
         /\ Created(s, keep) = Becomes(FlattenSeq(Blocked(s, keep)), Whole(MaxIterations))
<1> DEFINE u == FlattenSeq(Blocked(s, keep))
           t == Preprocess(s, keep)
           e == ExpandMacros(t)
<1>0. ~HasNul(s) /\ ~TooLong(t)
  BY DEF Refused
<1>1. u = IncrementalBlocks(ProtectRaw(s), keep) /\ u \in Seq(Pieces)
  <2>1. u = IncrementalBlocks(ProtectRaw(s), keep)
    BY <1>0, IncrementalPlaces
  <2>2. IncrementalBlocks(ProtectRaw(s), keep) \in Seq(ToSet(s) \cup {Marked(x) : x \in ToSet(s)})
    BY <1>0, BlocksPieces
  <2>3. ToSet(s) \cup {Marked(x) : x \in ToSet(s)} \subseteq Pieces
    BY PiecesAre, MadePieces DEF ToSet
  <2> HIDE DEF u
  <2> QED BY <2>1, <2>2, <2>3
<1>2. t = Becomes(u, Replaced) /\ Replaced \in [Pieces -> Seq(Pieces)]
  BY <1>1, ReplacedIs DEF Preprocess
<1>3. /\ t \in Seq(Pieces) /\ e \in Seq(Pieces)
      /\ \A d \in ToSet(e) : d.kind # "error" /\ (d.raw \/ ~Fails(Resolved(d)))
      /\ DOMAIN macros # {} =>
           LET n == MaxIterations - 1
           IN  Calls(After(t, n)) = {} /\ e = Round(After(t, n))
  BY AcceptedCreates
<1>4. PICK m \in Nat : MaxIterations = m + 1 /\ m = MaxIterations - 1
  <2>1. MaxIterations \in Nat \ {0}
    BY TextAssumption
  <2>2. MaxIterations - 1 \in Nat /\ MaxIterations = (MaxIterations - 1) + 1
    BY <2>1
  <2> QED BY <2>2
<1>5. Created(s, keep) = RestoreRaw(Becomes(e, ResolvedStage)) /\ Becomes(e, ResolvedStage) \in Seq(Pieces)
  BY <1>3, CreatedIs
<1> HIDE DEF u, t
<1>6. Becomes(e, ResolvedStage) = Becomes(t, Unwound(m + 1))
  <2>1. CASE DOMAIN macros = {}
    <3>1. e = t
      BY <1>0, <2>1 DEF ExpandMacros
    <3> QED BY <1>3, <2>1, <3>1, UnwoundPlain
  <2>2. CASE DOMAIN macros # {}
    <3>1. Calls(After(t, m)) = {} /\ e = Round(After(t, m))
      BY <1>3, <1>4, <2>2
    <3> QED BY <1>3, <3>1, UnwoundText
  <2> QED BY <2>1, <2>2
<1>7. RestoreRaw(Becomes(e, ResolvedStage)) = Becomes(Becomes(e, ResolvedStage), RestoreStage)
  BY <1>5, RestoreIs
<1> DEFINE k == m + 1
<1>8. k \in Nat /\ k = MaxIterations
  BY <1>4
<1>9. /\ Becomes(Becomes(t, Unwound(k)), RestoreStage) = Becomes(t, Ending(k))
      /\ Ending(k) \in [Pieces -> Seq(Pieces)]
  <2> HIDE DEF k
  <2> QED BY <1>3, <1>8, EndingIs
<1>10. /\ Whole(k) \in [Pieces -> Seq(Pieces)]
       /\ Becomes(Becomes(u, Replaced), Ending(k)) = Becomes(u, Whole(k))
  <2> HIDE DEF k
  <2> QED BY <1>1, <1>2, <1>9, StagesThen DEF Whole
<1> QED BY <1>2, <1>5, <1>6, <1>7, <1>8, <1>9, <1>10 DEF u

\* Each place of the query is what the place of the text means.
LEMMA PlacesEnd ==
  ASSUME Deployed, context # <<>>, NEW s \in Seq(Authored), Accepted(s),
         StillMacros, \A p \in Uses(s) : Simple(p), NEW keep, NEW i \in 1..Len(s)
  PROVE  Becomes(Blocked(s, keep)[i], Whole(MaxIterations)) =
           IF GoneAt(s, keep, i) THEN <<>> ELSE IF RawAt(s, i) THEN <<s[i]>>
           ELSE Standing[MaxIterations][s[i]]
<1> DEFINE p == s[i]
<1>1. p \in Authored /\ p \in Pieces /\ p \in ToSet(s)
  BY PiecesAre DEF ToSet
<1>2. Simple(p) /\ \A j \in DOMAIN p.args : Simple(p.args[j])
  <2>1. p \in Uses(s) /\ \A j \in DOMAIN p.args : p.args[j] \in Uses(s)
    BY DEF Uses, ToSet
  <2> QED BY <2>1
<1>3. PICK R : ToSet(s) \subseteq R /\ Complete(R)
  BY AcceptedReaches
<1>4. Blocked(s, keep)[i] =
        IF GoneAt(s, keep, i) THEN <<>> ELSE IF RawAt(s, i) THEN <<Marked(p)>> ELSE <<p>>
  BY DEF Blocked
<1> HIDE DEF p
<1>5. PICK m \in Nat : MaxIterations = m + 1
  <2>1. MaxIterations \in Nat \ {0}
    BY TextAssumption
  <2>2. MaxIterations - 1 \in Nat /\ MaxIterations = (MaxIterations - 1) + 1
    BY <2>1
  <2> QED BY <2>2
<1> DEFINE k == m + 1
<1>6. /\ Ending(k) \in [Pieces -> Seq(Pieces)] /\ Replaced \in [Pieces -> Seq(Pieces)]
  <2>1. k \in Nat
    OBVIOUS
  <2> HIDE DEF k
  <2> QED BY <2>1, EndingIs, ReplacedIs
<1>7. /\ Whole(k) \in [Pieces -> Seq(Pieces)]
      /\ \A x \in Pieces : Whole(k)[x] = Becomes(Replaced[x], Ending(k))
  <2> HIDE DEF k
  <2> QED BY <1>6, StagesThen DEF Whole
<1>8. \A x \in Pieces : Becomes(<<x>>, Whole(k)) = Becomes(Replaced[x], Ending(k))
  <2> HIDE DEF k
  <2> QED BY <1>7, BecomesOne
<1>9. Becomes(<<p>>, Whole(k)) = Standing[k][p]
  <2>1. Becomes(Replaced[p], Ending(m + 1)) = Standing[m + 1][p]
    BY <1>1, <1>2, <1>3, PieceEnds
  <2> QED BY <1>1, <1>8, <2>1
<1>10. Becomes(<<Marked(p)>>, Whole(k)) = <<p>>
  <2> DEFINE q == Marked(p)
  <2>1. q \in Pieces /\ q.raw = TRUE /\ Unmarked(q) = p
    <3>1. p.raw = FALSE
      BY <1>1, PiecesAre DEF Authored
    <3>2. q \in Pieces
      BY <1>1, MadePieces
    <3> QED BY <1>1, <3>1, <3>2 DEF Marked, Unmarked, Pieces
  <2> HIDE DEF q
  <2>2. Replaced[q] = <<q>>
    BY <2>1, ReplacedIs
  <2>3. Ending(m + 1)[q] = <<p>>
    BY <2>1, EndingIs
  <2>4. Becomes(<<q>>, Ending(k)) = Ending(k)[q]
    <3> HIDE DEF k
    <3> QED BY <1>6, <2>1, BecomesOne
  <2> QED BY <1>8, <2>1, <2>2, <2>3, <2>4 DEF q
<1>11. Becomes(<<>>, Whole(k)) = <<>>
  BY BecomesNone
<1>12. k = MaxIterations
  BY <1>5
<1> HIDE DEF k
<1> QED BY <1>4, <1>9, <1>10, <1>11, <1>12 DEF p

\* One text, place by place.
LEMMA CreatedAsMeant ==
  ASSUME Deployed, context # <<>>, NEW s \in Seq(Authored), Accepted(s),
         VarsKnown(s), Ordinary(s), NEW keep, ~Refused(s, keep)
  PROVE  Created(s, keep) = Meaning(s, keep)
<1> DEFINE n == Len(s)
           b == Blocked(s, keep)
           W == Whole(MaxIterations)
           Place(i) == IF GoneAt(s, keep, i) THEN <<>> ELSE IF RawAt(s, i) THEN <<s[i]>>
                       ELSE Standing[MaxIterations][s[i]]
<1>1. StillMacros /\ \A p \in Uses(s) : Simple(p) /\ Safe(p)
  BY OrdinaryIs
<1>2. /\ W \in [Pieces -> Seq(Pieces)]
      /\ Created(s, keep) = Becomes(FlattenSeq(b), W)
  BY <1>1, CreatedByPlace
<1>3. n \in Nat /\ DOMAIN s = 1..n
  OBVIOUS
<1>4. \A i \in 1..n : Becomes(b[i], W) = Place(i)
  BY <1>1, PlacesEnd
<1>5. b \in [1..n -> Texts]
  BY IncrementalPlaces DEF Refused
<1>6. Meaning(s, keep) = FlattenSeq([i \in 1..n |-> Place(i)])
  BY <1>3, MeaningPlaces
<1> HIDE DEF n, b, W, Place
<1>7. DOMAIN b = 1..n /\ \A i \in 1..n : b[i] \in Seq(Pieces)
  <2>1. \A x \in Texts : x \in Seq(Pieces)
    <3>1. \A x \in Pieces : <<x>> \in Seq(Pieces)
      OBVIOUS
    <3> QED BY <3>1, EmptySeq DEF Texts
  <2> QED BY <1>5, <2>1
<1>8. b \in Seq(Seq(Pieces))
  <2>1. b = [i \in 1..n |-> b[i]]
    BY <1>5
  <2> QED BY <1>3, <1>7, <2>1, SequenceOf
<1>9. Becomes(FlattenSeq(b), W) = Becomes(b, OnTexts(Pieces, W))
  BY <1>2, <1>8, BecomesFlat
<1>10. Images(b, OnTexts(Pieces, W)) = [i \in 1..n |-> Place(i)]
  <2>1. \A i \in 1..n : OnTexts(Pieces, W)[b[i]] = Place(i)
    BY <1>4, <1>7 DEF OnTexts
  <2> QED BY <1>7, <2>1 DEF Images
<1> QED BY <1>2, <1>6, <1>9, <1>10 DEF Becomes

\* The query sent is what the text means (create_dbt_model in handlers.rs, over preprocess.rs,
\* macros.rs and scanner.rs), unless NUL or the length after preprocessing is refused: whatever
\* the text, the project and the macros, those that hand their parameters on to other macros
\* included, as long as variables are text, no builtin stands between braces and no macro
\* uses this, a variable or a builtin.
THEOREM RendersAsMeantHolds == TextSpec => []RendersAsMeant
<1>1. TextType => RendersAsMeant
  <2> SUFFICES ASSUME TextType, context # <<>>, Accepted(sql), VarsKnown(sql), Ordinary(sql),
                      NEW keep \in BOOLEAN, ~Refused(sql, keep)
               PROVE  Created(sql, keep) = Meaning(sql, keep)
    BY DEF RendersAsMeant
  <2>1. Deployed /\ sql \in Seq(Authored)
    BY DEF TextType
  <2> QED BY <2>1, CreatedAsMeant
<1> QED BY <1>1, TextTyped, PTL
=============================================================================
