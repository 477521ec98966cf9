------------------------- MODULE SchemaEvolutionProofs -------------------------
(***************************************************************************)
(* ReapplyIsNoop, OnlyDeletedLost, SuccessIsApplied and Recoverable of      *)
(* SchemaEvolution, for any columns, tables, numbers of updates and        *)
(* faults, and any programs in which every name has one role.  The folds   *)
(* of the diff and of BigQuery's script are reasoned about by              *)
(* FoldInduction.                                                          *)
(***************************************************************************)
EXTENDS SchemaEvolution, SequenceTheorems, WellFoundedInduction, TLAPS

\* No program uses a name for two things.
OneRoles == \A p \in Programs : OneRole(p)

\* Nothing is shown of every result of a fold by itself: its walk is followed.
Anything(c, k, acc) == TRUE

DeclaredNames(p) == NamesOf(Declared(p))
Of(p, alter) == { f \in ToSet(p) : f.alter = alter }

-----------------------------------------------------------------------------
\* What the sequences of a script are made of.

\* The fold of Renames, and of Redescribed, over the fields of a program.
KeepRename(old, s, f) ==
  IF f.alter = "rename" /\ f.from \in DOMAIN old THEN Append(s, f) ELSE s
KeepDescribed(old, s, f) ==
  IF f.alter = "none" /\ f.name \in DOMAIN old /\ old[f.name] # f.desc THEN Append(s, f) ELSE s
Renaming == INSTANCE FoldInduction WITH Op <- KeepRename, Holds <- Anything
Describing == INSTANCE FoldInduction WITH Op <- KeepDescribed, Holds <- Anything

ToRename(old, p) == { f \in ToSet(p) : f.alter = "rename" /\ f.from \in DOMAIN old }
ToDescribe(old, p) ==
  { f \in ToSet(p) : f.alter = "none" /\ f.name \in DOMAIN old /\ old[f.name] # f.desc }

\* One more element.
LEMMA OneMore ==
  ASSUME NEW S, NEW s \in Seq(S), NEW e \in S
  PROVE  /\ Append(s, e) \in Seq(S) /\ ToSet(Append(s, e)) = ToSet(s) \union {e}
         /\ \A i \in DOMAIN Append(s, e) :
              \/ i \in DOMAIN s /\ Append(s, e)[i] = s[i]
              \/ i = Len(s) + 1 /\ Append(s, e)[i] = e
<1> DEFINE t == Append(s, e)
<1>1. /\ t \in Seq(S) /\ Len(s) \in Nat /\ DOMAIN s = 1..Len(s) /\ DOMAIN t = 1..(Len(s) + 1)
      /\ \A i \in 1..Len(s) : t[i] = s[i]
      /\ t[Len(s) + 1] = e
  OBVIOUS
<1> HIDE DEF t
<1>2. \A i \in DOMAIN t : (i \in DOMAIN s /\ t[i] = s[i]) \/ (i = Len(s) + 1 /\ t[i] = e)
  BY <1>1
<1>3. \A i \in DOMAIN s : i \in DOMAIN t /\ t[i] = s[i]
  BY <1>1
<1>4. Len(s) + 1 \in DOMAIN t
  BY <1>1
<1>5. ToSet(t) = ToSet(s) \union {e}
  <2>1. ToSet(t) \subseteq ToSet(s) \union {e}
    BY <1>2 DEF ToSet
  <2>2. ToSet(s) \union {e} \subseteq ToSet(t)
    BY <1>1, <1>3, <1>4 DEF ToSet
  <2> QED BY <2>1, <2>2
<1> QED BY <1>1, <1>2, <1>5 DEF t

\* The renames of an update are the fields of the program that rename a known column;
\* when every name has one role, no two of them rename the same.
LEMMA RenamesAre ==
  ASSUME NEW p \in Seq(Fields), NEW old
  PROVE  /\ Renames(old, p) \in Seq(ToRename(old, p))
         /\ ToSet(Renames(old, p)) = ToRename(old, p)
         /\ OneRole(p) => \A i, j \in DOMAIN Renames(old, p) :
                            i # j => Renames(old, p)[i].from # Renames(old, p)[j].from
<1> DEFINE n == Len(p)
           Fine(s, k) ==
             /\ s \in Seq(ToRename(old, p))
             /\ \A i \in 1..k : p[i] \in ToRename(old, p) => p[i] \in ToSet(s)
             /\ \A i \in DOMAIN s : \E m \in 1..k : s[i] = p[m]
             /\ OneRole(p) => \A i, j \in DOMAIN s : i # j => s[i].from # s[j].from
<1>1. Renames(old, p) = Renaming!Fold(old, << >>, p)
  BY DEF Renames, Those, FoldLeft, MapThenFoldSet, Renaming!Fold, Renaming!Step, KeepRename, Max,
         Renaming!Largest
<1>2. n \in Nat /\ DOMAIN p = 1..n /\ \A k \in 1..n : p[k] \in ToSet(p)
  BY DEF ToSet
<1>3. ToSet(p) = { p[k] : k \in 1..n }
  BY <1>2 DEF ToSet
<1> HIDE DEF n
<1>4. PICK g : Renaming!Fold(old, << >>, p) = g[n] /\ Renaming!Walks(g, old, << >>, p, n)
  BY <1>2, Renaming!FoldWalk
<1> DEFINE S == { k \in Nat : k <= n => Fine(g[k], k) }
<1>5. 0 \in S
  <2>1. g[0] = << >>
    BY <1>4 DEF Renaming!Walks
  <2>2. Fine(<< >>, 0)
    OBVIOUS
  <2> QED BY <2>1, <2>2
<1>6. ASSUME NEW k \in S
      PROVE  k + 1 \in S
  <2>1. SUFFICES ASSUME k + 1 <= n PROVE Fine(g[k + 1], k + 1)
    OBVIOUS
  <2>2. k \in Nat /\ k + 1 \in 1..n /\ (k + 1) - 1 = k /\ Fine(g[k], k)
    BY <1>2, <2>1
  <2> DEFINE s == g[k]
             f == p[k + 1]
  <2>3. g[k + 1] = KeepRename(old, s, f)
    BY <1>4, <2>2 DEF Renaming!Walks
  <2>4. f \in ToSet(p) /\ \A i \in 1..(k + 1) : i \in 1..k \/ i = k + 1
    BY <1>2, <2>2
  <2>5. \A i \in 1..k : i \in 1..(k + 1) /\ i # k + 1 /\ i \in DOMAIN p /\ k + 1 \in DOMAIN p
    BY <1>2, <2>2
  <2>6. k + 1 \in 1..(k + 1)
    BY <2>2
  <2>7. Fine(s, k)
    BY <2>2
  <2> HIDE DEF s
  <2>8. CASE f \in ToRename(old, p)
    <3> DEFINE t == Append(s, f)
    <3>1. g[k + 1] = t
      BY <2>3, <2>8 DEF KeepRename, ToRename
    <3>2. /\ t \in Seq(ToRename(old, p)) /\ ToSet(t) = ToSet(s) \union {f}
          /\ \A i \in DOMAIN t :
               \/ i \in DOMAIN s /\ t[i] = s[i]
               \/ i = Len(s) + 1 /\ t[i] = f
      BY <2>7, <2>8, OneMore
    <3> HIDE DEF t
    <3>3. \A i \in 1..(k + 1) : p[i] \in ToRename(old, p) => p[i] \in ToSet(t)
      BY <2>4, <2>7, <3>2
    <3>4. \A i \in DOMAIN t : \E m \in 1..(k + 1) : t[i] = p[m]
      BY <2>5, <2>6, <2>7, <3>2
    <3>5. ASSUME OneRole(p), NEW i \in DOMAIN t, NEW j \in DOMAIN t, i # j
          PROVE  t[i].from # t[j].from
      <4>1. \A m \in 1..k : p[m] \in ToRename(old, p) => p[m].from # f.from
        BY <2>5, <2>8, <3>5 DEF OneRole, ToRename
      <4>2. \A l \in DOMAIN s : s[l] \in ToRename(old, p)
        BY <2>7
      <4>3. \A l \in DOMAIN s : s[l].from # f.from
        BY <2>7, <4>1, <4>2
      <4> QED BY <2>7, <3>2, <3>5, <4>3
    <3> QED BY <3>1, <3>2, <3>3, <3>4, <3>5
  <2>9. CASE f \notin ToRename(old, p)
    <3>1. g[k + 1] = s
      BY <2>3, <2>4, <2>9 DEF KeepRename, ToRename
    <3>2. \A i \in 1..(k + 1) : p[i] \in ToRename(old, p) => p[i] \in ToSet(s)
      BY <2>4, <2>7, <2>9
    <3>3. \A i \in DOMAIN s : \E m \in 1..(k + 1) : s[i] = p[m]
      BY <2>5, <2>7
    <3> QED BY <2>7, <3>1, <3>2, <3>3
  <2> QED BY <2>8, <2>9
<1>7. n \in S
  <2> HIDE DEF S
  <2>1. S \in SUBSET Nat
    BY DEF S
  <2> QED BY <1>2, <1>5, <1>6, <2>1, Renaming!SetInduction
<1>8. Fine(Renames(old, p), n)
  BY <1>1, <1>2, <1>4, <1>7
<1>9. ToRename(old, p) \subseteq ToSet(Renames(old, p))
  BY <1>3, <1>8 DEF ToRename
<1>10. ToSet(Renames(old, p)) \subseteq ToRename(old, p)
  BY <1>8 DEF ToSet
<1> QED BY <1>8, <1>9, <1>10

\* The changed descriptions are the fields of the program that change one.
LEMMA RedescribedAre ==
  ASSUME NEW p \in Seq(Fields), NEW old
  PROVE  /\ Redescribed(old, p) \in Seq(ToDescribe(old, p))
         /\ ToSet(Redescribed(old, p)) = ToDescribe(old, p)
<1> DEFINE n == Len(p)
           Fine(s, k) ==
             /\ s \in Seq(ToDescribe(old, p))
             /\ \A i \in 1..k : p[i] \in ToDescribe(old, p) => p[i] \in ToSet(s)
<1>1. Redescribed(old, p) = Describing!Fold(old, << >>, p)
  BY DEF Redescribed, Those, FoldLeft, MapThenFoldSet, Describing!Fold, Describing!Step,
         KeepDescribed, Max, Describing!Largest
<1>2. n \in Nat /\ DOMAIN p = 1..n /\ \A k \in 1..n : p[k] \in ToSet(p)
  BY DEF ToSet
<1>3. ToSet(p) = { p[k] : k \in 1..n }
  BY <1>2 DEF ToSet
<1> HIDE DEF n
<1>4. PICK g : Describing!Fold(old, << >>, p) = g[n] /\ Describing!Walks(g, old, << >>, p, n)
  BY <1>2, Describing!FoldWalk
<1> DEFINE S == { k \in Nat : k <= n => Fine(g[k], k) }
<1>5. 0 \in S
  <2>1. g[0] = << >>
    BY <1>4 DEF Describing!Walks
  <2>2. Fine(<< >>, 0)
    OBVIOUS
  <2> QED BY <2>1, <2>2
<1>6. ASSUME NEW k \in S
      PROVE  k + 1 \in S
  <2>1. SUFFICES ASSUME k + 1 <= n PROVE Fine(g[k + 1], k + 1)
    OBVIOUS
  <2>2. k \in Nat /\ k + 1 \in 1..n /\ (k + 1) - 1 = k /\ Fine(g[k], k)
    BY <1>2, <2>1
  <2> DEFINE s == g[k]
             f == p[k + 1]
  <2>3. g[k + 1] = KeepDescribed(old, s, f)
    BY <1>4, <2>2 DEF Describing!Walks
  <2>4. f \in ToSet(p) /\ \A i \in 1..(k + 1) : i \in 1..k \/ i = k + 1
    BY <1>2, <2>2
  <2>5. Fine(s, k)
    BY <2>2
  <2> HIDE DEF s
  <2>6. CASE f \in ToDescribe(old, p)
    <3>1. g[k + 1] = Append(s, f)
      BY <2>3, <2>6 DEF KeepDescribed, ToDescribe
    <3>2. Append(s, f) \in Seq(ToDescribe(old, p)) /\ ToSet(Append(s, f)) = ToSet(s) \union {f}
      BY <2>5, <2>6, OneMore
    <3> QED BY <2>4, <2>5, <3>1, <3>2
  <2>7. CASE f \notin ToDescribe(old, p)
    <3>1. g[k + 1] = s
      BY <2>3, <2>4, <2>7 DEF KeepDescribed, ToDescribe
    <3> QED BY <2>4, <2>5, <2>7, <3>1
  <2> QED BY <2>6, <2>7
<1>7. n \in S
  <2> HIDE DEF S
  <2>1. S \in SUBSET Nat
    BY DEF S
  <2> QED BY <1>2, <1>5, <1>6, <2>1, Describing!SetInduction
<1>8. Fine(Redescribed(old, p), n)
  BY <1>1, <1>2, <1>4, <1>7
<1>9. ToDescribe(old, p) \subseteq ToSet(Redescribed(old, p))
  BY <1>3, <1>8 DEF ToDescribe
<1>10. ToSet(Redescribed(old, p)) \subseteq ToDescribe(old, p)
  BY <1>8 DEF ToSet
<1> QED BY <1>8, <1>9, <1>10

\* Of some numbers there is a least one.
LEMMA LeastIsOne ==
  ASSUME NEW S \in SUBSET Nat, S # {}
  PROVE  Min(S) \in S
<1>1. IsWellFoundedOn(OpToRel(<, Nat), Nat)
  BY NatLessThanWellFounded
<1>2. PICK x \in S : \A y \in S : << y, x >> \notin OpToRel(<, Nat)
  BY <1>1, WFMin
<1>3. ASSUME NEW y \in S
      PROVE  x <= y
  <2>1. x \in Nat /\ y \in Nat
    OBVIOUS
  <2>2. ~(y < x)
    BY <1>2, <2>1 DEF OpToRel
  <2> QED BY <2>1, <2>2
<1> QED BY <1>3 DEF Min

\* No new name is an old one.
Apart(renames) ==
  \A i, j \in DOMAIN renames : renames[i].name \in Columns /\ renames[i].from # renames[j].name

\* A walk that finds no rename of its target stays where it is.
LEMMA FollowStays ==
  ASSUME NEW renames, NEW n \in Nat, DOMAIN renames = 1..n, Apart(renames),
         NEW start \in [seen : SUBSET DOMAIN renames, target : Columns],
         \A i \in DOMAIN renames : renames[i].from # start.target
  PROVE  Follow(renames, start) = start
<1> DEFINE Walks == [seen : SUBSET DOMAIN renames, target : Columns]
           Next1(walk) == [seen |-> walk.seen \union {Min(Onward(renames, walk))},
                           target |-> renames[Min(Onward(renames, walk))].name]
           Walk == CHOOSE Walk : Walk =
             [walk \in Walks |->
                IF Onward(renames, walk) = {} THEN walk
                ELSE LET i == Min(Onward(renames, walk))
                     IN  Walk[[seen |-> walk.seen \union {i}, target |-> renames[i].name]]]
           w == [walk \in Walks |-> IF Onward(renames, walk) = {} THEN walk ELSE Next1(walk)]
<1>1. ASSUME NEW walk \in Walks, Onward(renames, walk) # {}
      PROVE  Next1(walk) \in Walks /\ Onward(renames, Next1(walk)) = {}
  <2> DEFINE i == Min(Onward(renames, walk))
  <2>1. Onward(renames, walk) \in SUBSET Nat
    BY DEF Onward
  <2>2. i \in Onward(renames, walk)
    BY <1>1, <2>1, LeastIsOne
  <2> HIDE DEF i
  <2>3. i \in DOMAIN renames /\ walk.seen \in SUBSET DOMAIN renames
    BY <2>2 DEF Onward
  <2>4. [seen |-> walk.seen \union {i}, target |-> renames[i].name] \in Walks
    BY <2>3 DEF Apart
  <2>5. Onward(renames, [seen |-> walk.seen \union {i}, target |-> renames[i].name]) = {}
    BY <2>3 DEF Apart, Onward
  <2> QED BY <2>4, <2>5 DEF i
<1> HIDE DEF Next1
<1>2. w = [walk \in Walks |-> IF Onward(renames, walk) = {} THEN walk ELSE w[Next1(walk)]]
  <2>1. ASSUME NEW walk \in Walks, Onward(renames, walk) # {}
        PROVE  w[Next1(walk)] = Next1(walk)
    BY <1>1, <2>1
  <2> QED BY <2>1
<1> HIDE DEF w
<1>3. w = [walk \in Walks |->
             IF Onward(renames, walk) = {} THEN walk
             ELSE LET i == Min(Onward(renames, walk))
                  IN  w[[seen |-> walk.seen \union {i}, target |-> renames[i].name]]]
  BY <1>2 DEF Next1
<1>4. Walk = [walk \in Walks |->
                IF Onward(renames, walk) = {} THEN walk
                ELSE LET i == Min(Onward(renames, walk))
                     IN  Walk[[seen |-> walk.seen \union {i}, target |-> renames[i].name]]]
  <2> HIDE DEF Walks
  <2> QED BY <1>3
<1>5. Follow(renames, start) = Walk[start]
  BY DEF Follow
<1> HIDE DEF Walk
<1>6. Onward(renames, start) = {} /\ start \in Walks
  BY DEF Onward
<1> HIDE DEF Walks
<1>7. Walk[start] = start
  BY <1>4, <1>6
<1> QED BY <1>5, <1>7

\* The fold of BreakCycles, over the numbers of the renames.
BreakOne(renames, found, i) ==
  LET walk == Follow(renames, [seen |-> found.seen \union {i}, target |-> renames[i].name])
      spare == Temps[(Len(found.ops) \div 2) + 1]
  IN IF i \in found.seen THEN found
     ELSE [seen |-> walk.seen,
           ops |-> IF walk.target = renames[i].from /\ walk.seen # found.seen \union {i}
                   THEN found.ops \o << Rename(renames[i].from, spare),
                                        Rename(spare, renames[i].name) >>
                   ELSE found.ops]
Breaking == INSTANCE FoldInduction WITH Op <- BreakOne, Holds <- Anything

\* Renames that do not touch form no cycles.
LEMMA NoCycles ==
  ASSUME NEW renames \in Seq(Fields), Apart(renames)
  PROVE  BreakCycles(renames) = << >>
<1> DEFINE n == Len(renames)
           all == [i \in DOMAIN renames |-> i]
           X == [seen : SUBSET DOMAIN renames, ops : {<< >>}]
           base == [seen |-> {}, ops |-> << >>]
<1>1. BreakCycles(renames) = Breaking!Fold(renames, base, all).ops
  BY DEF BreakCycles, FoldLeftDomain, FoldLeft, MapThenFoldSet, Breaking!Fold, Breaking!Step,
         BreakOne, Max, Breaking!Largest
<1>2. n \in Nat /\ DOMAIN renames = 1..n /\ DOMAIN all = 1..n /\ \A k \in 1..n : all[k] = k
  OBVIOUS
<1> HIDE DEF n, all
<1>3. base \in X
  OBVIOUS
<1>4. ASSUME NEW k \in 1..n, NEW found \in X
      PROVE  BreakOne(renames, found, all[k]) \in X
  <2> DEFINE start == [seen |-> found.seen \union {k}, target |-> renames[k].name]
  <2>1. /\ k \in DOMAIN renames /\ all[k] = k
        /\ found.seen \in SUBSET DOMAIN renames /\ found.ops = << >>
    BY <1>2
  <2>2. start \in [seen : SUBSET DOMAIN renames, target : Columns]
    BY <2>1 DEF Apart
  <2>3. start.seen = found.seen \union {k} /\ start.target = renames[k].name
    OBVIOUS
  <2>4. \A i \in DOMAIN renames : renames[i].from # start.target
    BY <2>1, <2>3 DEF Apart
  <2> HIDE DEF start
  <2>5. Follow(renames, start) = start
    BY <1>2, <2>2, <2>4, FollowStays
  <2>6. Follow(renames, [seen |-> found.seen \union {k}, target |-> renames[k].name]) = start
    BY <2>5 DEF start
  <2>7. BreakOne(renames, found, k) \in {found, [seen |-> start.seen, ops |-> << >>]}
    BY <2>1, <2>3, <2>4, <2>6 DEF BreakOne
  <2>8. start.seen \in SUBSET DOMAIN renames
    BY <2>2
  <2> QED BY <2>1, <2>7, <2>8
<1> HIDE DEF X, base
<1>5. Breaking!Fold(renames, base, all) \in X
  BY <1>2, <1>3, <1>4, Breaking!FoldStays
<1> QED BY <1>1, <1>5 DEF X

\* In a program that gives every name one role the renames do not touch.
LEMMA RenamesApart ==
  ASSUME NEW p \in Seq(Fields), OneRole(p), NEW old
  PROVE  Apart(Renames(old, p)) /\ BreakCycles(Renames(old, p)) = << >>
<1> DEFINE renames == Renames(old, p)
<1>1. renames \in Seq(ToRename(old, p))
  BY RenamesAre
<1> HIDE DEF renames
<1>2. ToRename(old, p) \subseteq Fields /\ ToRename(old, p) \subseteq ToSet(p)
  BY DEF ToRename, ToSet
<1>3. renames \in Seq(Fields)
  BY <1>1, <1>2
<1>4. \A i \in DOMAIN renames : renames[i] \in ToRename(old, p)
  BY <1>1
<1>5. \A f \in ToRename(old, p) : f.from \in Sources(p) /\ f.name \in NamesOf(ToSet(p)) /\ f.name \in Columns
  BY <1>2 DEF ToRename, Sources, NamesOf, Fields
<1>6. Apart(renames)
  BY <1>4, <1>5 DEF OneRole, Apart
<1> QED BY <1>3, <1>6, NoCycles DEF renames

-----------------------------------------------------------------------------
\* The statements a program may lead to, and what is to be known of a script.
Statements(p) ==
  { Drop(names) : names \in SUBSET Deleted(p) }
    \union { Rename(f.from, f.name) : f \in Of(p, "rename") }
    \union { Add(cols) : cols \in UNION { [names -> Descs] : names \in SUBSET NamesOf(Of(p, "insert")) } }
    \union { Describe(f.name, f.desc) : f \in Of(p, "none") }

\* Once columns are added, only descriptions are left.
AddLast(s) == \A i, j \in DOMAIN s : i < j /\ s[i].op = "add" => s[j].op = "describe"

\* The elements of two sequences are those of their concatenation.
LEMMA ElementsOfBoth ==
  ASSUME NEW S, NEW s \in Seq(S), NEW t \in Seq(S)
  PROVE  s \o t \in Seq(S) /\ ToSet(s \o t) = ToSet(s) \union ToSet(t)
<1>1. s \o t \in Seq(S) /\ Len(s \o t) = Len(s) + Len(t)
  OBVIOUS
<1>2. \A i \in 1..Len(s) : (s \o t)[i] = s[i]
  OBVIOUS
<1>3. \A i \in 1..Len(t) : i + Len(s) \in 1..(Len(s) + Len(t)) /\ (s \o t)[i + Len(s)] = t[i]
  OBVIOUS
<1>4. \A i \in 1..(Len(s) + Len(t)) :
        i \in 1..Len(s) \/ (i - Len(s) \in 1..Len(t) /\ (i - Len(s)) + Len(s) = i)
  OBVIOUS
<1>5. /\ DOMAIN s = 1..Len(s) /\ DOMAIN t = 1..Len(t)
      /\ DOMAIN (s \o t) = 1..(Len(s) + Len(t)) /\ Len(s) \in Nat /\ Len(t) \in Nat
  OBVIOUS
<1>6. ASSUME NEW i \in DOMAIN (s \o t)
      PROVE  (s \o t)[i] \in ToSet(s) \union ToSet(t)
  <2>1. CASE i \in 1..Len(s)
    BY <1>2, <1>5, <2>1 DEF ToSet
  <2>2. CASE i - Len(s) \in 1..Len(t) /\ (i - Len(s)) + Len(s) = i
    <3>1. (s \o t)[i] = t[i - Len(s)]
      BY <1>3, <2>2
    <3> QED BY <1>5, <2>2, <3>1 DEF ToSet
  <2> QED BY <1>4, <1>5, <2>1, <2>2
<1>7. ASSUME NEW i \in DOMAIN s
      PROVE  s[i] \in ToSet(s \o t)
  <2>1. i \in DOMAIN (s \o t) /\ (s \o t)[i] = s[i]
    BY <1>2, <1>5
  <2> QED BY <2>1 DEF ToSet
<1>8. ASSUME NEW i \in DOMAIN t
      PROVE  t[i] \in ToSet(s \o t)
  <2>1. i + Len(s) \in DOMAIN (s \o t) /\ (s \o t)[i + Len(s)] = t[i]
    BY <1>3, <1>5
  <2> QED BY <2>1 DEF ToSet
<1>9. ToSet(s \o t) \subseteq ToSet(s) \union ToSet(t)
  BY <1>6 DEF ToSet
<1>10. ToSet(s) \subseteq ToSet(s \o t)
  BY <1>7 DEF ToSet
<1>11. ToSet(t) \subseteq ToSet(s \o t)
  BY <1>8 DEF ToSet
<1> QED BY <1>1, <1>9, <1>10, <1>11

\* A script of statements that add nothing, at most one other, and descriptions.
LEMMA AddLastOfThree ==
  ASSUME NEW S, NEW a \in Seq(S), NEW b \in Seq(S), NEW c \in Seq(S),
         \A i \in DOMAIN a : a[i].op # "add", Len(b) <= 1, \A i \in DOMAIN c : c[i].op = "describe"
  PROVE  AddLast((a \o b) \o c)
<1> DEFINE s == (a \o b) \o c
<1>1. s \in Seq(S) /\ DOMAIN s = 1..(Len(a) + Len(b) + Len(c))
  OBVIOUS
<1>2. \A i \in DOMAIN s : i <= Len(a) => s[i] = a[i]
  OBVIOUS
<1>3. \A i \in DOMAIN s : i > Len(a) + Len(b) => s[i] = c[i - (Len(a) + Len(b))]
  OBVIOUS
<1>4. \A i \in DOMAIN s : i > Len(a) + Len(b) => i - (Len(a) + Len(b)) \in DOMAIN c
  BY <1>1
<1> HIDE DEF s
<1>5. ASSUME NEW i \in DOMAIN s, NEW j \in DOMAIN s, i < j, s[i].op = "add"
      PROVE  s[j].op = "describe"
  <2>1. ~(i <= Len(a))
    BY <1>1, <1>2, <1>5
  <2>2. j > Len(a) + Len(b)
    BY <1>1, <1>5, <2>1
  <2> QED BY <1>3, <1>4, <2>2
<1> QED BY <1>5 DEF AddLast, s

\* In a program that gives every name one role a name is one field's.
LEMMA OneField ==
  ASSUME NEW p \in Seq(Fields), OneRole(p), NEW f \in ToSet(p), NEW g \in ToSet(p), f.name = g.name
  PROVE  f = g
BY DEF OneRole, ToSet

\* The fields that a program does not delete.
LEMMA FieldsAre ==
  ASSUME NEW p \in Seq(Fields)
  PROVE  /\ \A f \in Of(p, "rename") : f.from \in Sources(p) /\ f.name \in DeclaredNames(p)
         /\ \A f \in Of(p, "insert") : f.name \in DeclaredNames(p)
         /\ \A f \in Of(p, "none") : f.name \in DeclaredNames(p) /\ f.desc \in Descs
         /\ \A f \in Declared(p) : f \in Of(p, "rename") \/ f \in Of(p, "insert") \/ f \in Of(p, "none")
         /\ ToSet(p) \subseteq Fields
<1>1. ToSet(p) \subseteq Fields
  BY DEF ToSet
<1>2. \A f \in ToSet(p) : f.desc \in Descs /\ f.alter \in Alters
  BY <1>1 DEF Fields
<1> QED BY <1>1, <1>2 DEF Of, Sources, DeclaredNames, NamesOf, Declared, Alters

\* What the kinds of statements of a program are about.
LEMMA StatementIs ==
  ASSUME NEW p, NEW q \in Statements(p)
  PROVE  \/ q.op = "drop" /\ q.names \in SUBSET Deleted(p)
         \/ q.op = "rename" /\ \E f \in Of(p, "rename") : q.from = f.from /\ q.to = f.name
         \/ q.op = "add" /\ DOMAIN q.cols \subseteq NamesOf(Of(p, "insert"))
         \/ q.op = "describe" /\ \E f \in Of(p, "none") : q.name = f.name /\ q.desc = f.desc
<1>1. CASE \E names \in SUBSET Deleted(p) : q = Drop(names)
  BY <1>1 DEF Drop
<1>2. CASE \E f \in Of(p, "rename") : q = Rename(f.from, f.name)
  BY <1>2 DEF Rename
<1>3. CASE \E cols \in UNION { [names -> Descs] : names \in SUBSET NamesOf(Of(p, "insert")) } : q = Add(cols)
  BY <1>3 DEF Add
<1>4. CASE \E f \in Of(p, "none") : q = Describe(f.name, f.desc)
  BY <1>4 DEF Describe
<1> QED BY <1>1, <1>2, <1>3, <1>4 DEF Statements

\* A sequence with no elements to take is empty.
LEMMA NothingToTake ==
  ASSUME NEW S, S = {}, NEW s \in Seq(S)
  PROVE  s = << >>
<1>1. Len(s) = 0
  <2>1. SUFFICES ASSUME Len(s) # 0 PROVE FALSE
    OBVIOUS
  <2>2. 1 \in DOMAIN s /\ s[1] \in S
    BY <2>1
  <2> QED BY <2>2
<1> QED BY <1>1

\* What a program declares has its names, and what it deletes has none of them.
LEMMA NamesApart ==
  ASSUME NEW p \in Seq(Fields), OneRole(p)
  PROVE  /\ DOMAIN Clean(p) = DeclaredNames(p) /\ DeclaredNames(p) \subseteq Columns
         /\ Deleted(p) \intersect DeclaredNames(p) = {}
         /\ Sources(p) \intersect DeclaredNames(p) = {} /\ Sources(p) \intersect Deleted(p) = {}
         /\ \A f \in Declared(p) : Clean(p)[f.name] = f.desc
         /\ \A n \in DeclaredNames(p) : Clean(p)[n] \in Descs
<1>1. ToSet(p) \subseteq Fields
  BY DEF ToSet
<1>2. Declared(p) \subseteq ToSet(p) /\ DeclaredNames(p) \subseteq NamesOf(ToSet(p))
  BY DEF Declared, DeclaredNames, NamesOf
<1>3. Deleted(p) \subseteq NamesOf(ToSet(p))
  BY DEF Deleted, NamesOf
<1>4. Deleted(p) \intersect DeclaredNames(p) = {}
  BY OneField DEF Deleted, DeclaredNames, NamesOf, Declared
<1>5. ASSUME NEW f \in Declared(p)
      PROVE  Clean(p)[f.name] = f.desc
  <2>1. f.name \in NamesOf(Declared(p))
    BY DEF NamesOf
  <2>2. \A g \in Declared(p) : g.name = f.name => g = f
    BY <1>2, OneField
  <2>3. (CHOOSE g \in Declared(p) : g.name = f.name) = f
    BY <2>2
  <2> QED BY <2>1, <2>3 DEF Clean
<1>6. DOMAIN Clean(p) = DeclaredNames(p)
  BY DEF Clean, DeclaredNames
<1>7. \A n \in DeclaredNames(p) : n \in Columns /\ Clean(p)[n] \in Descs
  BY <1>1, <1>2, <1>5 DEF DeclaredNames, NamesOf, Fields
<1> QED BY <1>2, <1>3, <1>4, <1>5, <1>6, <1>7 DEF OneRole

\* An update of a program that is recorded as applied has nothing to do.
LEMMA AppliedIsNothing ==
  ASSUME NEW p \in Seq(Fields), OneRole(p)
  PROVE  Drops(Clean(p), p) = {} /\ Script(Clean(p), p) = << >>
<1>1. Drops(Clean(p), p) = {}
  BY NamesApart DEF Drops
<1>2. Renames(Clean(p), p) = << >>
  <2>1. ToRename(Clean(p), p) = {}
    BY NamesApart DEF ToRename, Sources
  <2> QED BY <2>1, RenamesAre, NothingToTake
<1>3. Adds(Clean(p), p) = {}
  BY NamesApart DEF Adds, DeclaredNames, NamesOf, Declared
<1>4. Redescribed(Clean(p), p) = << >>
  <2>1. ToDescribe(Clean(p), p) = {}
    BY NamesApart DEF ToDescribe, Declared
  <2> QED BY <2>1, RedescribedAre, NothingToTake
<1>5. BreakCycles(Renames(Clean(p), p)) = << >>
  BY RenamesApart
<1>6. [i \in DOMAIN << >> |-> Rename((<< >>)[i].from, (<< >>)[i].name)] = << >>
  OBVIOUS
<1>7. [i \in DOMAIN << >> |-> Describe((<< >>)[i].name, (<< >>)[i].desc)] = << >>
  OBVIOUS
<1>8. (((<< >> \o << >>) \o << >>) \o << >>) \o << >> = << >>
  OBVIOUS
<1> QED BY <1>1, <1>2, <1>3, <1>4, <1>5, <1>6, <1>7, <1>8 DEF Script

\* The parts of a script.
DropPart(old, p) == IF Drops(old, p) = {} THEN << >> ELSE << Drop(Drops(old, p)) >>
RenamePart(old, p) ==
  [i \in DOMAIN Renames(old, p) |-> Rename(Renames(old, p)[i].from, Renames(old, p)[i].name)]
Added(old, p) == [n \in NamesOf(Adds(old, p)) |-> Clean(p)[n]]
AddPart(old, p) == IF Adds(old, p) = {} THEN << >> ELSE << Add(Added(old, p)) >>
DescribePart(old, p) ==
  [i \in DOMAIN Redescribed(old, p) |->
     Describe(Redescribed(old, p)[i].name, Redescribed(old, p)[i].desc)]

\* The column a statement takes away is renamed by no other one.
RenamesOnce(s) ==
  \A i, j \in DOMAIN s : i # j /\ s[i].op = "rename" /\ s[j].op = "rename" => s[i].from # s[j].from

\* At most one statement drops columns.
LEMMA DropPartIs ==
  ASSUME NEW p, NEW old
  PROVE  LET a == DropPart(old, p) IN
         /\ a \in Seq(Statements(p)) /\ Len(a) <= 1
         /\ ToSet(a) = IF Drops(old, p) = {} THEN {} ELSE {Drop(Drops(old, p))}
<1> DEFINE St == Statements(p)
           q == Drop(Drops(old, p))
<1>1. q \in St
  BY DEF Statements, Drops
<1> HIDE DEF St, q
<1>2. /\ << >> \in Seq(St) /\ Len(<< >>) <= 1 /\ ToSet(<< >>) = {}
      /\ << q >> \in Seq(St) /\ Len(<< q >>) <= 1 /\ ToSet(<< q >>) = {q}
  BY <1>1 DEF ToSet
<1> QED BY <1>2 DEF DropPart, St, q

\* A rename for each field to rename, and no column is renamed twice.
LEMMA RenamePartIs ==
  ASSUME NEW p \in Seq(Fields), OneRole(p), NEW old
  PROVE  LET b == RenamePart(old, p) IN
         /\ b \in Seq(Statements(p)) /\ RenamesOnce(b)
         /\ ToSet(b) = { Rename(f.from, f.name) : f \in ToRename(old, p) }
<1> DEFINE renames == Renames(old, p)
           b == RenamePart(old, p)
           St == Statements(p)
<1>1. /\ renames \in Seq(ToRename(old, p)) /\ ToSet(renames) = ToRename(old, p)
      /\ \A i, j \in DOMAIN renames : i # j => renames[i].from # renames[j].from
  BY RenamesAre
<1>2. b = [i \in DOMAIN renames |-> Rename(renames[i].from, renames[i].name)]
  BY DEF RenamePart
<1>3. \A f \in ToRename(old, p) : Rename(f.from, f.name) \in St
  BY DEF ToRename, Of, Statements
<1> HIDE DEF renames, b, St
<1>4. DOMAIN renames = 1..Len(renames) /\ Len(renames) \in Nat
  BY <1>1
<1>5. DOMAIN b = DOMAIN renames /\ \A i \in DOMAIN b : b[i] = Rename(renames[i].from, renames[i].name)
  BY <1>2
<1>6. \A i \in DOMAIN b : b[i] \in St
  BY <1>1, <1>3, <1>5
<1>7. b \in Seq(St)
  BY <1>2, <1>4, <1>5, <1>6
<1>8. RenamesOnce(b)
  BY <1>1, <1>5 DEF RenamesOnce, Rename
<1>9. ToSet(b) = { Rename(f.from, f.name) : f \in ToSet(renames) }
  <2>1. ToSet(b) \subseteq { Rename(f.from, f.name) : f \in ToSet(renames) }
    BY <1>5 DEF ToSet
  <2>2. { Rename(f.from, f.name) : f \in ToSet(renames) } \subseteq ToSet(b)
    BY <1>5 DEF ToSet
  <2> QED BY <2>1, <2>2
<1> QED BY <1>1, <1>7, <1>8, <1>9 DEF b, St

\* At most one statement adds columns: all that are to be added.
LEMMA AddPartIs ==
  ASSUME NEW p \in Seq(Fields), OneRole(p), NEW old
  PROVE  LET c == AddPart(old, p) IN
         /\ c \in Seq(Statements(p)) /\ Len(c) <= 1
         /\ ToSet(c) = IF Adds(old, p) = {} THEN {} ELSE {Add(Added(old, p))}
<1> DEFINE St == Statements(p)
           cols == Added(old, p)
           q == Add(cols)
<1>1. NamesOf(Adds(old, p)) \in SUBSET NamesOf(Of(p, "insert"))
  BY DEF Adds, NamesOf, Of
<1>2. NamesOf(Adds(old, p)) \in SUBSET DeclaredNames(p)
  BY DEF Adds, DeclaredNames, NamesOf, Declared
<1>3. cols \in [NamesOf(Adds(old, p)) -> Descs]
  BY <1>2, NamesApart DEF Added
<1> HIDE DEF cols
<1>4. q \in St
  BY <1>1, <1>3 DEF Statements
<1> HIDE DEF St, q
<1>5. /\ << >> \in Seq(St) /\ Len(<< >>) <= 1 /\ ToSet(<< >>) = {}
      /\ << q >> \in Seq(St) /\ Len(<< q >>) <= 1 /\ ToSet(<< q >>) = {q}
  BY <1>4 DEF ToSet
<1> QED BY <1>5 DEF AddPart, St, q, cols

\* A description for each field that changes one.
LEMMA DescribePartIs ==
  ASSUME NEW p \in Seq(Fields), NEW old
  PROVE  LET d == DescribePart(old, p) IN
         /\ d \in Seq(Statements(p)) /\ \A i \in DOMAIN d : d[i].op = "describe"
         /\ ToSet(d) = { Describe(f.name, f.desc) : f \in ToDescribe(old, p) }
<1> DEFINE described == Redescribed(old, p)
           d == DescribePart(old, p)
           St == Statements(p)
<1>1. described \in Seq(ToDescribe(old, p)) /\ ToSet(described) = ToDescribe(old, p)
  BY RedescribedAre
<1>2. d = [i \in DOMAIN described |-> Describe(described[i].name, described[i].desc)]
  BY DEF DescribePart
<1>3. \A f \in ToDescribe(old, p) : Describe(f.name, f.desc) \in St
  BY DEF ToDescribe, Of, Statements
<1> HIDE DEF described, d, St
<1>4. DOMAIN described = 1..Len(described) /\ Len(described) \in Nat
  BY <1>1
<1>5. /\ DOMAIN d = DOMAIN described
      /\ \A i \in DOMAIN d : d[i] = Describe(described[i].name, described[i].desc)
  BY <1>2
<1>6. \A i \in DOMAIN d : d[i] \in St
  BY <1>1, <1>3, <1>5
<1>7. d \in Seq(St)
  BY <1>2, <1>4, <1>5, <1>6
<1>8. \A i \in DOMAIN d : d[i].op = "describe"
  BY <1>5 DEF Describe
<1>9. ToSet(d) = { Describe(f.name, f.desc) : f \in ToSet(described) }
  <2>1. ToSet(d) \subseteq { Describe(f.name, f.desc) : f \in ToSet(described) }
    BY <1>5 DEF ToSet
  <2>2. { Describe(f.name, f.desc) : f \in ToSet(described) } \subseteq ToSet(d)
    BY <1>5 DEF ToSet
  <2> QED BY <2>1, <2>2
<1> QED BY <1>1, <1>7, <1>8, <1>9 DEF d, St

\* No column is renamed twice by two sequences of which only one renames any.
LEMMA OnceOfTwo ==
  ASSUME NEW S, NEW s \in Seq(S), NEW t \in Seq(S), RenamesOnce(s), RenamesOnce(t),
         (\A q \in ToSet(s) : q.op # "rename") \/ (\A q \in ToSet(t) : q.op # "rename")
  PROVE  RenamesOnce(s \o t)
<1> DEFINE u == s \o t
           m == Len(s)
           n == Len(t)
<1>1. /\ m \in Nat /\ n \in Nat /\ DOMAIN s = 1..m /\ DOMAIN t = 1..n /\ DOMAIN u = 1..(m + n)
      /\ \A i \in 1..m : u[i] = s[i]
      /\ \A i \in DOMAIN u : i > m => u[i] = t[i - m]
  OBVIOUS
<1> HIDE DEF u, m, n
<1>2. \A i \in DOMAIN u : i \in DOMAIN s \/ (i > m /\ i - m \in DOMAIN t)
  BY <1>1
<1>3. (\A i \in DOMAIN s : s[i].op # "rename") \/ (\A i \in DOMAIN t : t[i].op # "rename")
  BY DEF ToSet
<1>4. ASSUME NEW i \in DOMAIN u, NEW j \in DOMAIN u, i # j, u[i].op = "rename", u[j].op = "rename"
      PROVE  u[i].from # u[j].from
  <2>1. CASE i \in DOMAIN s /\ j \in DOMAIN s
    BY <1>1, <1>4, <2>1 DEF RenamesOnce
  <2>2. CASE i > m /\ i - m \in DOMAIN t /\ j > m /\ j - m \in DOMAIN t
    <3>1. i - m # j - m
      BY <1>1, <1>4
    <3>2. u[i] = t[i - m] /\ u[j] = t[j - m]
      BY <1>1, <2>2
    <3> QED BY <1>4, <2>2, <3>1, <3>2 DEF RenamesOnce
  <2>3. CASE i \in DOMAIN s /\ j > m /\ j - m \in DOMAIN t
    BY <1>1, <1>3, <1>4, <2>3
  <2>4. CASE j \in DOMAIN s /\ i > m /\ i - m \in DOMAIN t
    BY <1>1, <1>3, <1>4, <2>4
  <2> QED BY <1>2, <2>1, <2>2, <2>3, <2>4
<1> QED BY <1>4 DEF RenamesOnce, u

\* The script of an update is made of statements of its program, all that Drops,
\* Renames, Adds and Redescribed ask for; it adds columns after what drops and renames
\* them.
LEMMA ScriptIs ==
  ASSUME NEW p \in Seq(Fields), OneRole(p), NEW old
  PROVE  /\ Script(old, p) \in Seq(Statements(p)) /\ AddLast(Script(old, p))
         /\ RenamesOnce(Script(old, p))
         /\ ToSet(Script(old, p)) =
              (IF Drops(old, p) = {} THEN {} ELSE {Drop(Drops(old, p))})
                \union { Rename(f.from, f.name) : f \in ToRename(old, p) }
                \union (IF Adds(old, p) = {} THEN {} ELSE {Add(Added(old, p))})
                \union { Describe(f.name, f.desc) : f \in ToDescribe(old, p) }
<1> DEFINE St == Statements(p)
           a == DropPart(old, p)
           b == RenamePart(old, p)
           c == AddPart(old, p)
           d == DescribePart(old, p)
           ab == a \o b
           abc == ab \o c
<1>1. Script(old, p) = abc \o d
  <2>1. BreakCycles(Renames(old, p)) = << >>
    BY RenamesApart
  <2>2. Script(old, p) = (((a \o << >>) \o b) \o c) \o d
    BY <2>1 DEF Script, DropPart, RenamePart, AddPart, DescribePart, Added
  <2>3. a \in Seq(St)
    BY DropPartIs
  <2> HIDE DEF a, b, c, d
  <2>4. a \o << >> = a
    BY <2>3
  <2> QED BY <2>2, <2>4
<1>2. /\ a \in Seq(St) /\ b \in Seq(St) /\ c \in Seq(St) /\ d \in Seq(St) /\ RenamesOnce(b)
      /\ Len(c) <= 1 /\ \A i \in DOMAIN d : d[i].op = "describe"
  BY DropPartIs, RenamePartIs, AddPartIs, DescribePartIs
<1>3. /\ ToSet(a) = IF Drops(old, p) = {} THEN {} ELSE {Drop(Drops(old, p))}
      /\ ToSet(b) = { Rename(f.from, f.name) : f \in ToRename(old, p) }
      /\ ToSet(c) = IF Adds(old, p) = {} THEN {} ELSE {Add(Added(old, p))}
      /\ ToSet(d) = { Describe(f.name, f.desc) : f \in ToDescribe(old, p) }
  BY DropPartIs, RenamePartIs, AddPartIs, DescribePartIs
<1>4. /\ \A q \in ToSet(a) : q.op = "drop"
      /\ \A q \in ToSet(b) : q.op = "rename"
      /\ \A q \in ToSet(c) : q.op = "add"
      /\ \A q \in ToSet(d) : q.op = "describe"
  BY <1>3 DEF Drop, Rename, Add, Describe
<1> HIDE DEF St, a, b, c, d
<1>5. ab \in Seq(St) /\ ToSet(ab) = ToSet(a) \union ToSet(b)
  BY <1>2, ElementsOfBoth
<1> HIDE DEF ab
<1>6. abc \in Seq(St) /\ ToSet(abc) = ToSet(ab) \union ToSet(c)
  BY <1>2, <1>5, ElementsOfBoth
<1> HIDE DEF abc
<1>7. abc \o d \in Seq(St) /\ ToSet(abc \o d) = ToSet(abc) \union ToSet(d)
  BY <1>2, <1>6, ElementsOfBoth
<1>8. AddLast(abc \o d)
  <2>1. \A i \in DOMAIN ab : ab[i].op # "add"
    BY <1>4, <1>5 DEF ToSet
  <2> QED BY <1>2, <1>5, <2>1, AddLastOfThree DEF abc
<1>9. RenamesOnce(abc \o d)
  <2>1. RenamesOnce(a) /\ RenamesOnce(c) /\ RenamesOnce(d)
    BY <1>4 DEF RenamesOnce, ToSet
  <2>2. RenamesOnce(ab)
    BY <1>2, <1>4, <2>1, OnceOfTwo DEF ab
  <2>3. RenamesOnce(abc)
    BY <1>2, <1>4, <1>5, <2>1, <2>2, OnceOfTwo DEF abc
  <2> QED BY <1>2, <1>4, <1>6, <2>1, <2>3, OnceOfTwo
<1>10. ToSet(abc \o d) = ((ToSet(a) \union ToSet(b)) \union ToSet(c)) \union ToSet(d)
  BY <1>5, <1>6, <1>7
<1> QED BY <1>1, <1>3, <1>7, <1>8, <1>9, <1>10 DEF St

\* It drops nothing but Drops.
LEMMA ScriptDrops ==
  ASSUME NEW p \in Seq(Fields), OneRole(p), NEW old, NEW q \in ToSet(Script(old, p)), q.op = "drop"
  PROVE  q.names = Drops(old, p)
BY ScriptIs DEF Drop, Rename, Add, Describe

-----------------------------------------------------------------------------
\* A table is a function from the names of its columns to their data and description.
Table(t) ==
  /\ t = [n \in DOMAIN t |-> t[n]]
  /\ \A n \in DOMAIN t : t[n] = [data |-> t[n].data, desc |-> t[n].desc]

\* Has the statement brought the column it is for?
Done(q, t) ==
  /\ q.op = "rename" => q.to \in DOMAIN t
  /\ q.op = "add" => DOMAIN q.cols \subseteq DOMAIN t

\* What the statement q of the program p, which makes u of t, leaves alone: the
\* declared columns that are there, the deleted ones that stay, and all data but that
\* of the columns it drops.  Done again it brings no declared column.
Keeps(p, q, t, u) ==
  /\ \A n \in DeclaredNames(p) \intersect DOMAIN t : n \in DOMAIN u /\ u[n].data = t[n].data
  /\ \A n \in Deleted(p) \intersect DOMAIN u : n \in DOMAIN t /\ u[n].data = t[n].data
  /\ Done(q, t) => DeclaredNames(p) \intersect DOMAIN u \subseteq DOMAIN t
  /\ \A n \in DOMAIN t : t[n].data \in Data(u) \/ (q.op = "drop" /\ n \in q.names)

\* What a statement does to a table.
LEMMA EffectIs ==
  ASSUME NEW p \in Seq(Fields), OneRole(p), NEW q \in Statements(p), NEW t, Table(t),
         Possible(q, t), NEW fresh
  PROVE  /\ Table(Effect(q, t, fresh)) /\ Keeps(p, q, t, Effect(q, t, fresh))
         /\ Done(q, Effect(q, t, fresh))
<1> DEFINE u == Effect(q, t, fresh)
<1>1. CASE q.op = "drop" /\ q.names \in SUBSET Deleted(p)
  <2> DEFINE names == q.names
  <2>1. names \in SUBSET Deleted(p)
    BY <1>1
  <2>2. q.op = "drop" /\ q.names = names
    BY <1>1
  <2>3. u = [n \in DOMAIN t \ names |-> t[n]]
    BY <2>2 DEF Effect, Restrict
  <2> HIDE DEF u
  <2>4. DOMAIN u = DOMAIN t \ names /\ \A n \in DOMAIN u : u[n] = t[n]
    BY <2>3
  <2>5. Table(u)
    BY <2>3, <2>4 DEF Table
  <2>6. Keeps(p, q, t, u)
    BY <2>1, <2>2, <2>4, NamesApart DEF Keeps, Data
  <2>7. Done(q, u)
    BY <2>2 DEF Done
  <2> QED BY <2>5, <2>6, <2>7 DEF u
<1>2. CASE q.op = "rename" /\ \E f \in Of(p, "rename") : q.from = f.from /\ q.to = f.name
  <2>1. PICK from \in Sources(p), to \in DeclaredNames(p) : q.from = from /\ q.to = to
    BY <1>2, FieldsAre
  <2>2. q.op = "rename" /\ q.from = from /\ q.to = to
    BY <1>2, <2>1
  <2>3. u = [n \in (DOMAIN t \ {from}) \union {to} |-> IF n = to THEN t[from] ELSE t[n]]
    BY <2>2 DEF Effect
  <2>4. from \in DOMAIN t /\ to \notin DOMAIN t
    BY <2>2 DEF Possible
  <2> HIDE DEF u
  <2>5. /\ DOMAIN u = (DOMAIN t \ {from}) \union {to} /\ u[to] = t[from]
        /\ \A n \in DOMAIN t \ {from} : u[n] = t[n]
    BY <2>3, <2>4
  <2>6. Table(u)
    <3>1. \A n \in DOMAIN u : u[n] = [data |-> u[n].data, desc |-> u[n].desc]
      BY <2>4, <2>5 DEF Table
    <3> QED BY <2>3, <3>1 DEF Table
  <2>7. from \notin DeclaredNames(p) /\ to \notin Deleted(p)
    BY <2>1, NamesApart
  <2>8. \A n \in DOMAIN t : t[n].data \in Data(u)
    BY <2>4, <2>5 DEF Data
  <2>9. Keeps(p, q, t, u)
    BY <2>1, <2>2, <2>4, <2>5, <2>7, <2>8 DEF Keeps, Done
  <2>10. Done(q, u)
    BY <2>2, <2>5 DEF Done
  <2> QED BY <2>6, <2>9, <2>10 DEF u
<1>3. CASE q.op = "add" /\ DOMAIN q.cols \subseteq NamesOf(Of(p, "insert"))
  <2> DEFINE cols == q.cols
  <2>1. \A f \in Of(p, "insert") : f.name \in DeclaredNames(p)
    BY FieldsAre
  <2>2. DOMAIN cols \subseteq DeclaredNames(p)
    BY <1>3, <2>1 DEF NamesOf
  <2>3. q.op = "add" /\ q.cols = cols
    BY <1>3
  <2>4. u = [n \in DOMAIN t \union DOMAIN cols |->
               IF n \in DOMAIN t THEN t[n] ELSE [data |-> << n, fresh >>, desc |-> cols[n]]]
    BY <2>3 DEF Effect
  <2> HIDE DEF u, cols
  <2>5. /\ DOMAIN u = DOMAIN t \union DOMAIN cols
        /\ \A n \in DOMAIN t : u[n] = t[n]
        /\ \A n \in DOMAIN cols \ DOMAIN t : u[n] = [data |-> << n, fresh >>, desc |-> cols[n]]
    BY <2>4
  <2>6. Table(u)
    <3>1. \A n \in DOMAIN u : u[n] = [data |-> u[n].data, desc |-> u[n].desc]
      BY <2>5 DEF Table
    <3> QED BY <2>4, <3>1 DEF Table
  <2>7. \A n \in DOMAIN t : t[n].data \in Data(u)
    BY <2>5 DEF Data
  <2>8. Keeps(p, q, t, u)
    BY <2>2, <2>3, <2>5, <2>7, NamesApart DEF Keeps, Done
  <2>9. Done(q, u)
    BY <2>3, <2>5 DEF Done
  <2> QED BY <2>6, <2>8, <2>9 DEF u
<1>4. CASE q.op = "describe" /\ \E f \in Of(p, "none") : q.name = f.name /\ q.desc = f.desc
  <2> DEFINE n == q.name
             d == q.desc
  <2>2. q.op = "describe" /\ q.name = n /\ q.desc = d
    BY <1>4
  <2>3. u = [t EXCEPT ![n].desc = d] /\ n \in DOMAIN t
    BY <2>2 DEF Effect, Possible
  <2>4. t[n] = [data |-> t[n].data, desc |-> t[n].desc]
    BY <2>3 DEF Table
  <2> HIDE DEF u
  <2>5. /\ DOMAIN u = DOMAIN t /\ \A m \in DOMAIN t \ {n} : u[m] = t[m]
        /\ u[n] = [data |-> t[n].data, desc |-> d] /\ u = [m \in DOMAIN t |-> u[m]]
    BY <2>3, <2>4
  <2>6. Table(u)
    BY <2>5 DEF Table
  <2>7. \A m \in DOMAIN t : m \in DOMAIN u /\ u[m].data = t[m].data
    BY <2>5
  <2>8. Keeps(p, q, t, u)
    BY <2>5, <2>7 DEF Keeps, Data
  <2>9. Done(q, u)
    BY <2>2 DEF Done
  <2> QED BY <2>6, <2>8, <2>9 DEF u
<1> QED BY <1>1, <1>2, <1>3, <1>4, StatementIs

-----------------------------------------------------------------------------
\* The fold of Run, over the statements of a script.
RunOne(fresh, r, q) ==
  IF r.done /\ Possible(q, r.t)
  THEN [done |-> TRUE, t |-> Effect(q, r.t, fresh)]
  ELSE [done |-> FALSE, t |-> r.t]
Running == INSTANCE FoldInduction WITH Op <- RunOne, Holds <- Anything

\* Run, for new columns with the given data.
RunFrom(fresh, s, t) == Running!Fold(fresh, [done |-> TRUE, t |-> t], s)

\* Run is RunFrom for the data of columns that are added now.
LEMMA RunIs ==
  ASSUME NEW s, NEW t
  PROVE  Run(s, t) = RunFrom(born, s, t)
BY DEF Run, FoldLeft, MapThenFoldSet, RunFrom, Running!Fold, Running!Step, RunOne, Max, Running!Largest

\* A script that has ended leaves the table as it is.
LEMMA RunOfNone ==
  ASSUME NEW fresh, NEW t
  PROVE  RunFrom(fresh, << >>, t) = [done |-> TRUE, t |-> t]
<1>1. DOMAIN << >> = 1..0
  OBVIOUS
<1> QED BY <1>1, Running!FoldOfNone DEF RunFrom

\* When its first statement takes effect, the rest makes the same of the new table.
LEMMA RunOnward ==
  ASSUME NEW S, NEW s \in Seq(S), s # << >>, NEW t, Possible(Head(s), t), NEW fresh
  PROVE  RunFrom(fresh, s, t) = RunFrom(fresh, Tail(s), Effect(Head(s), t, fresh))
<1> DEFINE n == Len(s) - 1
           base == [done |-> TRUE, t |-> t]
           rest == Tail(s)
<1>1. /\ n \in Nat /\ DOMAIN s = 1..(n + 1) /\ DOMAIN rest = 1..n
      /\ \A k \in 1..n : rest[k] = s[k + 1]
  BY HeadTailProperties, LenProperties, EmptySeq
<1>2. s[1] = Head(s)
  OBVIOUS
<1>3. RunOne(fresh, base, s[1]) = [done |-> TRUE, t |-> Effect(Head(s), t, fresh)]
  BY <1>2 DEF RunOne
<1> HIDE DEF n, base, rest
<1>4. Running!Fold(fresh, base, s) = Running!Fold(fresh, RunOne(fresh, base, s[1]), rest)
  BY <1>1, Running!FoldFromHead
<1> QED BY <1>3, <1>4 DEF RunFrom, base, rest

\* The data of new columns makes no difference to a script that adds none.
LEMMA RunAlike ==
  ASSUME NEW s, NEW n \in Nat, DOMAIN s = 1..n,
         \A k \in 1..n : s[k].op \in {"drop", "rename", "describe"},
         NEW fresh, NEW other, NEW t
  PROVE  RunFrom(fresh, s, t) = RunFrom(other, s, t)
<1> DEFINE base == [done |-> TRUE, t |-> t]
<1>1. ASSUME NEW k \in 1..n, NEW r
      PROVE  RunOne(fresh, r, s[k]) = RunOne(other, r, s[k])
  <2>1. s[k].op \in {"drop", "rename", "describe"}
    OBVIOUS
  <2>2. Effect(s[k], r.t, fresh) = Effect(s[k], r.t, other)
    BY <2>1 DEF Effect
  <2> QED BY <2>2 DEF RunOne
<1> HIDE DEF base
<1>2. Running!Fold(fresh, base, s) = Running!Fold(other, base, s)
  BY <1>1, Running!FoldAlike
<1> QED BY <1>2 DEF RunFrom, base

\* What a script of a program leaves alone: the declared columns that are there; and
\* it brings none when each of its statements has already been done.
LEMMA RunKeeps ==
  ASSUME NEW p \in Seq(Fields), OneRole(p), NEW s \in Seq(Statements(p)), NEW t, Table(t), NEW fresh
  PROVE  LET u == RunFrom(fresh, s, t).t IN
         /\ \A n \in DeclaredNames(p) \intersect DOMAIN t : n \in DOMAIN u /\ u[n].data = t[n].data
         /\ (\A q \in ToSet(s) : Done(q, t)) => DeclaredNames(p) \intersect DOMAIN u \subseteq DOMAIN t
<1> DEFINE len == Len(s)
           base == [done |-> TRUE, t |-> t]
           Fine(u) ==
             /\ Table(u)
             /\ \A n \in DeclaredNames(p) \intersect DOMAIN t : n \in DOMAIN u /\ u[n].data = t[n].data
             /\ (\A q \in ToSet(s) : Done(q, t)) =>
                  DeclaredNames(p) \intersect DOMAIN u \subseteq DOMAIN t
<1>1. /\ len \in Nat /\ DOMAIN s = 1..len
      /\ \A k \in 1..len : s[k] \in Statements(p) /\ s[k] \in ToSet(s)
  BY DEF ToSet
<1> HIDE DEF len
<1>2. ASSUME NEW u, Fine(u), NEW q \in ToSet(s), q \in Statements(p), Possible(q, u)
      PROVE  Fine(Effect(q, u, fresh))
  <2> DEFINE v == Effect(q, u, fresh)
  <2>1. Table(v) /\ Keeps(p, q, u, v)
    BY <1>2, EffectIs
  <2> HIDE DEF v
  <2>2. \A n \in DeclaredNames(p) \intersect DOMAIN t : n \in DOMAIN v /\ v[n].data = t[n].data
    BY <1>2, <2>1 DEF Keeps
  <2>3. ASSUME \A x \in ToSet(s) : Done(x, t)
        PROVE  DeclaredNames(p) \intersect DOMAIN v \subseteq DOMAIN t
    <3>1. Done(q, t)
      BY <2>3
    <3>2. q.op = "rename" => q.to \in DeclaredNames(p)
      BY <1>2, StatementIs, FieldsAre
    <3>3. q.op = "add" => DOMAIN q.cols \subseteq DeclaredNames(p)
      BY <1>2, StatementIs, FieldsAre DEF NamesOf
    <3>4. Done(q, u)
      BY <1>2, <3>1, <3>2, <3>3 DEF Done
    <3> QED BY <1>2, <2>1, <2>3, <3>4 DEF Keeps
  <2> QED BY <2>1, <2>2, <2>3 DEF v
<1> HIDE DEF base
<1>3. PICK g : RunFrom(fresh, s, t) = g[len] /\ Running!Walks(g, fresh, base, s, len)
  BY <1>1, Running!FoldWalk DEF RunFrom, base
<1> DEFINE S == { k \in Nat : k <= len => Fine(g[k].t) }
<1>4. 0 \in S
  <2>1. g[0] = base
    BY <1>3 DEF Running!Walks
  <2>2. g[0].t = t
    BY <2>1 DEF base
  <2> QED BY <2>2
<1> HIDE DEF Fine
<1>5. ASSUME NEW k \in S
      PROVE  k + 1 \in S
  <2>1. SUFFICES ASSUME k + 1 <= len PROVE Fine(g[k + 1].t)
    OBVIOUS
  <2>2. k + 1 \in 1..len /\ (k + 1) - 1 = k /\ Fine(g[k].t)
    BY <1>1, <2>1
  <2>3. g[k + 1] = RunOne(fresh, g[k], s[k + 1])
    BY <1>3, <2>2 DEF Running!Walks
  <2>4. s[k + 1] \in ToSet(s) /\ s[k + 1] \in Statements(p)
    BY <1>1, <2>2
  <2>5. CASE g[k].done /\ Possible(s[k + 1], g[k].t)
    <3>1. g[k + 1].t = Effect(s[k + 1], g[k].t, fresh)
      BY <2>3, <2>5 DEF RunOne
    <3> QED BY <1>2, <2>2, <2>4, <2>5, <3>1
  <2>6. CASE ~(g[k].done /\ Possible(s[k + 1], g[k].t))
    <3>1. g[k + 1].t = g[k].t
      BY <2>3, <2>6 DEF RunOne
    <3> QED BY <2>2, <3>1
  <2> QED BY <2>5, <2>6
<1>6. len \in S
  <2> HIDE DEF S
  <2>1. S \in SUBSET Nat
    BY DEF S
  <2> QED BY <1>1, <1>4, <1>5, <2>1, Running!SetInduction
<1>7. Fine(RunFrom(fresh, s, t).t)
  BY <1>1, <1>3, <1>6
<1> QED BY <1>7 DEF Fine

-----------------------------------------------------------------------------
\* The invariant that both theorems rest on.

\* The program is one, and gives every name one role; the table is one; and what is
\* left of the scripts are statements of the program.
ShapesOK ==
  /\ news \in Seq(Fields) /\ OneRole(news) /\ Table(live)
  /\ script \in Seq(Statements(news)) /\ AddLast(script)
  /\ orphan \in Seq(Statements(news)) /\ AddLast(orphan)

\* The script that is waited for is the update's, and nothing is left of it outside of
\* its stage; no other one is under way when an update begins.
StagesOK ==
  /\ stage = "sent" => ToSet(script) \subseteq ToSet(Script(outputs, news))
  /\ stage # "sent" => script = << >>
  /\ stage = "update" => orphan = << >>

\* After a success the record is the program's.
AppliedOK ==
  \/ stage = "idle" /\ last = "ok"
  \/ stage = "update" /\ last = "again"
  => outputs = Clean(news)

RInv == ShapesOK /\ StagesOK /\ AppliedOK

\* No field is no program, and a program is one that the proofs are about.
LEMMA ProgramsAre ==
  ASSUME OneRoles
  PROVE  /\ << >> \in Seq(Fields) /\ OneRole(<< >>)
         /\ \A p \in Programs : p \in Seq(Fields) /\ OneRole(p)
         /\ \A S : << >> \in Seq(S) /\ AddLast(<< >>)
<1>1. << >> \in Seq(Fields) /\ \A S : << >> \in Seq(S)
  OBVIOUS
<1>2. DOMAIN << >> = {}
  OBVIOUS
<1>3. OneRole(<< >>)
  BY <1>2 DEF OneRole, Sources, ToSet, NamesOf
<1>4. AddLast(<< >>)
  BY <1>2 DEF AddLast
<1> QED BY <1>1, <1>3, <1>4, SchemaAssumption DEF OneRoles

\* A sequence is its first element and the rest.
LEMMA RestIs ==
  ASSUME NEW S, NEW q \in Seq(S), q # << >>
  PROVE  /\ Head(q) \in S /\ Tail(q) \in Seq(S) /\ ToSet(q) = {Head(q)} \union ToSet(Tail(q))
         /\ AddLast(q) => AddLast(Tail(q))
         /\ AddLast(q) /\ Head(q).op = "add" => \A i \in DOMAIN Tail(q) : Tail(q)[i].op = "describe"
<1> DEFINE rest == Tail(q)
           n == Len(q) - 1
<1>1. /\ rest \in Seq(S) /\ n \in Nat /\ DOMAIN q = 1..(n + 1) /\ DOMAIN rest = 1..n
      /\ Head(q) \in S /\ q[1] = Head(q)
      /\ \A i \in 1..n : rest[i] = q[i + 1]
  BY HeadTailProperties, LenProperties, EmptySeq
<1> HIDE DEF rest, n
<1>2. \A i \in DOMAIN rest : i + 1 \in DOMAIN q /\ rest[i] = q[i + 1] /\ 1 \in DOMAIN q /\ 1 < i + 1
  BY <1>1
<1>3. \A i \in DOMAIN q : i = 1 \/ (i - 1 \in DOMAIN rest /\ q[i] = rest[i - 1])
  BY <1>1
<1>4. 1 \in DOMAIN q
  BY <1>1
<1>5. ToSet(q) = {Head(q)} \union ToSet(rest)
  <2>1. ToSet(q) \subseteq {Head(q)} \union ToSet(rest)
    BY <1>1, <1>3 DEF ToSet
  <2>2. {Head(q)} \union ToSet(rest) \subseteq ToSet(q)
    BY <1>1, <1>2, <1>4 DEF ToSet
  <2> QED BY <2>1, <2>2
<1>6. ASSUME AddLast(q)
      PROVE  AddLast(rest)
  <2>1. \A i, j \in DOMAIN rest : i < j => i + 1 < j + 1
    BY <1>1
  <2> QED BY <1>2, <1>6, <2>1 DEF AddLast
<1>7. ASSUME AddLast(q), Head(q).op = "add"
      PROVE  \A i \in DOMAIN rest : rest[i].op = "describe"
  BY <1>1, <1>2, <1>7 DEF AddLast
<1> QED BY <1>1, <1>5, <1>6, <1>7 DEF rest

\* A statement of the program takes effect.
LEMMA ExecuteIs ==
  ASSUME ShapesOK, NEW q \in Seq(Statements(news)), Execute(q)
  PROVE  /\ Table(live') /\ Keeps(news, Head(q), live, live') /\ Done(Head(q), live')
         /\ live' = Effect(Head(q), live, born) /\ Possible(Head(q), live) /\ q # << >>
<1>1. live' = Effect(Head(q), live, born) /\ Possible(Head(q), live) /\ q # << >>
  BY DEF Execute
<1>2. Head(q) \in Statements(news)
  BY <1>1, RestIs
<1> QED BY <1>1, <1>2, EffectIs DEF ShapesOK

\* At first there is no program.
LEMMA ShapesStart ==
  ASSUME OneRoles, Init
  PROVE  RInv
<1>1. PICK S \in Initial, d \in Descs : live = [n \in S |-> [data |-> << n, 0 >>, desc |-> d]]
  BY DEF Init
<1>2. Table(live)
  BY <1>1 DEF Table
<1> QED BY <1>2, ProgramsAre DEF Init, RInv, ShapesOK, StagesOK, AppliedOK

\* Creating a table adds the columns of the program to it.
LEMMA CreateShapes ==
  ASSUME OneRoles, RInv, NEW p \in Programs, Create(p)
  PROVE  RInv'
<1>1. p \in Seq(Fields) /\ OneRole(p)
  BY ProgramsAre
<1>2. /\ stage = "idle" /\ orphan = << >> /\ news' = p /\ orphan' = orphan /\ script' = script
      /\ live' = [n \in DOMAIN Clean(p) |->
                    [data |-> IF n \in DOMAIN live THEN live[n].data ELSE << n, born >>,
                     desc |-> Clean(p)[n]]]
      /\ \/ Record(p, live')
         \/ Reject
  BY DEF Create, Patch
<1>3. Table(live')
  BY <1>2 DEF Table
<1>4. script' = << >> /\ orphan' = << >>
  BY <1>2 DEF RInv, StagesOK
<1>5. ShapesOK'
  BY <1>1, <1>2, <1>3, <1>4, ProgramsAre DEF ShapesOK
<1>6. stage' = "idle" /\ (last' = "ok" => outputs' = Clean(p))
  BY <1>2 DEF Record, Reject
<1>7. StagesOK' /\ AppliedOK'
  BY <1>2, <1>4, <1>6 DEF StagesOK, AppliedOK
<1> QED BY <1>5, <1>7 DEF RInv

\* A preview finds nothing under way.
LEMMA PreviewShapes ==
  ASSUME OneRoles, RInv, NEW p \in Programs, Preview(p)
  PROVE  RInv'
<1>1. p \in Seq(Fields) /\ OneRole(p)
  BY ProgramsAre
<1>2. /\ stage = "idle" /\ orphan = << >> /\ news' = p /\ UNCHANGED << live, script, orphan, outputs >>
      /\ \/ stage' = "update" /\ last' = IF last = "ok" /\ p = news THEN "again" ELSE "none"
         \/ stage' = stage /\ last' = "same"
  BY DEF Preview, service
<1>3. script' = << >> /\ orphan' = << >>
  BY <1>2 DEF RInv, StagesOK
<1>4. ShapesOK'
  BY <1>1, <1>2, <1>3, ProgramsAre DEF RInv, ShapesOK
<1>5. StagesOK' /\ AppliedOK'
  BY <1>2, <1>3 DEF RInv, StagesOK, AppliedOK
<1> QED BY <1>4, <1>5 DEF RInv

\* An update sends the script of its program, or nothing.
LEMMA UpdateShapes ==
  ASSUME RInv, Update
  PROVE  RInv'
<1>1. /\ stage = "update" /\ UNCHANGED << live, orphan, news >>
      /\ \/ script' = script /\ Record(news, live)
         \/ script' = Script(outputs, news) /\ stage' = "sent" /\ outputs' = outputs
         \/ script' = script /\ Reject
  BY DEF Update, record
<1>2. orphan' = << >> /\ script = << >>
  BY <1>1 DEF RInv, StagesOK
<1>3. script' \in Seq(Statements(news)) /\ AddLast(script')
  BY <1>1, ScriptIs DEF RInv, ShapesOK
<1>4. ShapesOK'
  BY <1>1, <1>3 DEF RInv, ShapesOK
<1>5. StagesOK' /\ AppliedOK'
  BY <1>1, <1>2 DEF StagesOK, AppliedOK, Record, Reject
<1> QED BY <1>4, <1>5 DEF RInv

\* The script goes on, or is over.
LEMMA WorkShapes ==
  ASSUME RInv, Work
  PROVE  RInv'
<1>1. stage = "sent" /\ UNCHANGED << orphan, news >>
  BY DEF Work, intent
<1>2. CASE Execute(script) /\ script' = Tail(script) /\ UNCHANGED << stage, outputs >>
  <2>1. Table(live') /\ script # << >>
    BY <1>2, ExecuteIs DEF RInv, ShapesOK
  <2>2. /\ Tail(script) \in Seq(Statements(news)) /\ AddLast(Tail(script))
        /\ ToSet(Tail(script)) \subseteq ToSet(script)
    BY <2>1, RestIs DEF RInv, ShapesOK
  <2>3. ShapesOK'
    BY <1>1, <1>2, <2>1, <2>2 DEF RInv, ShapesOK
  <2>4. ToSet(script') \subseteq ToSet(Script(outputs', news'))
    BY <1>1, <1>2, <2>2 DEF RInv, StagesOK
  <2> QED BY <1>1, <1>2, <2>3, <2>4 DEF RInv, StagesOK, AppliedOK
<1>3. CASE live' = live /\ script' = << >> /\ stage' = "idle" /\ last' = "failed"
  <2>1. << >> \in Seq(Statements(news)) /\ AddLast(<< >>)
    BY DEF AddLast
  <2> QED BY <1>1, <1>3, <2>1 DEF RInv, ShapesOK, StagesOK, AppliedOK
<1> QED BY <1>2, <1>3 DEF Work, Fails, Reject, record

\* So does a script that nobody waits for, which changes the table only.
LEMMA WorkOnShapes ==
  ASSUME RInv, WorkOn
  PROVE  RInv' /\ stage # "update" /\ orphan # << >>
<1>1. UNCHANGED << script, outputs, news, stage, last >>
  BY DEF WorkOn, intent, record
<1>2. orphan # << >>
  BY DEF WorkOn, Execute, Fails
<1>3. CASE Execute(orphan) /\ orphan' = Tail(orphan)
  <2>1. Table(live')
    BY <1>3, ExecuteIs DEF RInv, ShapesOK
  <2>2. Tail(orphan) \in Seq(Statements(news)) /\ AddLast(Tail(orphan))
    BY <1>2, RestIs DEF RInv, ShapesOK
  <2> QED BY <1>1, <1>2, <1>3, <2>1, <2>2 DEF RInv, ShapesOK, StagesOK, AppliedOK
<1>4. CASE live' = live /\ orphan' = << >>
  <2>1. << >> \in Seq(Statements(news)) /\ AddLast(<< >>)
    BY DEF AddLast
  <2> QED BY <1>1, <1>2, <1>4, <2>1 DEF RInv, ShapesOK, StagesOK, AppliedOK
<1> QED BY <1>3, <1>4 DEF WorkOn, Fails

\* The handler's wait ends, or its request is sent once more.
LEMMA WaitShapes ==
  ASSUME RInv, Answer \/ GiveUp \/ Resend \/ Outlive
  PROVE  RInv'
<1>1. stage = "sent" /\ UNCHANGED << live, news >>
  BY DEF Answer, GiveUp, Resend, Outlive, intent, service
<1>2. << >> \in Seq(Statements(news)) /\ AddLast(<< >>)
  BY DEF AddLast
<1>3. CASE Answer
  BY <1>1, <1>3 DEF Answer, Record, service, RInv, ShapesOK, StagesOK, AppliedOK
<1>4. CASE GiveUp
  BY <1>1, <1>2, <1>4 DEF GiveUp, Reject, RInv, ShapesOK, StagesOK, AppliedOK
<1>5. CASE Resend
  <2>1. script' = Script(outputs, news) /\ orphan' = script /\ UNCHANGED << outputs, stage >>
    BY <1>5 DEF Resend, record
  <2> QED BY <1>1, <2>1, ScriptIs DEF RInv, ShapesOK, StagesOK, AppliedOK
<1>6. CASE Outlive
  BY <1>1, <1>2, <1>6 DEF Outlive, Record, RInv, ShapesOK, StagesOK, AppliedOK
<1> QED BY <1>3, <1>4, <1>5, <1>6

\* A refresh and a delete forget the program.
LEMMA ForgetShapes ==
  ASSUME OneRoles, RInv, Refresh \/ Delete
  PROVE  RInv'
<1>1. /\ stage = "idle" /\ orphan = << >> /\ news' = << >> /\ last' = "none"
      /\ UNCHANGED << live, script, orphan, stage >>
  BY DEF Refresh, Delete, service
<1>2. script' = << >> /\ orphan' = << >>
  BY <1>1 DEF RInv, StagesOK
<1> QED BY <1>1, <1>2, ProgramsAre DEF RInv, ShapesOK, StagesOK, AppliedOK

\* The shapes of the state, by induction over the steps.
LEMMA ShapesKeep ==
  ASSUME OneRoles, RInv, [Next]_vars
  PROVE  RInv'
<1>1. CASE UNCHANGED vars
  BY <1>1 DEF vars, service, record, intent, RInv, ShapesOK, StagesOK, AppliedOK
<1>2. CASE Next
  BY <1>2, CreateShapes, PreviewShapes, UpdateShapes, WorkShapes, WorkOnShapes, WaitShapes,
     ForgetShapes DEF Next
<1> QED BY <1>1, <1>2

\* ReapplyIsNoop, for any columns and programs in which every name has one role: what
\* the record of a success describes leaves the diff nothing to do, so that the
\* program that has just succeeded, annotations and all, sends no script when it is
\* applied again (diff.rs:37, 47 and 57).
THEOREM ReapplyIsNoopHolds ==
  ASSUME OneRoles
  PROVE  Spec => ReapplyIsNoop
<1>1. Init => RInv
  BY ShapesStart
<1>2. RInv /\ [Next]_vars => RInv'
  BY ShapesKeep
<1>3. RInv /\ [Next]_vars => [stage = "update" /\ last = "again" => stage' = "idle"]_vars
  <2> SUFFICES ASSUME RInv, Next, stage = "update", last = "again"
               PROVE  stage' = "idle"
    OBVIOUS
  <2>1. Update \/ WorkOn
    BY DEF Next, Create, Preview, Work, Answer, GiveUp, Resend, Outlive, Refresh, Delete
  <2>2. CASE Update
    <3>1. outputs = Clean(news) /\ news \in Seq(Fields) /\ OneRole(news)
      BY DEF RInv, AppliedOK, ShapesOK
    <3>2. Drops(outputs, news) = {} /\ Script(outputs, news) = << >>
      BY <3>1, AppliedIsNothing
    <3>3. Safe(Drops(outputs, news))
      BY <3>2 DEF Safe
    <3> QED BY <2>2, <3>2, <3>3 DEF Update, Record
  <2>3. CASE WorkOn
    BY <2>3, WorkOnShapes
  <2> QED BY <2>1, <2>2, <2>3
<1> QED BY <1>1, <1>2, <1>3, PTL DEF Spec, ReapplyIsNoop

-----------------------------------------------------------------------------
\* What is dropped is what the record describes.

\* The columns of these names may be dropped.
Doomed(names) == \A n \in names \intersect DOMAIN live : live[n].data \in condemned

\* A drop that is under way, or may be sent once more, destroys condemned data only.
CondemnedOK ==
  /\ \A q \in ToSet(orphan) : q.op = "drop" => Doomed(q.names)
  /\ stage = "sent" => Doomed(Drops(outputs, news))

\* What a script that was sent before has not done is still to come in the one that is
\* waited for.
SentOK == stage = "sent" => \A q \in ToSet(orphan) : Done(q, live) \/ q \in ToSet(script)

\* The record has the data of the recorded columns of the table t.
Agrees(t) == \A n \in DOMAIN outputs \intersect DOMAIN t : n \in DOMAIN held /\ held[n] = t[n].data

\* After a success the record agrees with what the scripts still under way make of the
\* table.
ForetoldOK == stage = "idle" /\ last # "failed" => Agrees(RunFrom(born, orphan, live).t)

\* Until an update succeeds, there is something for its program to do, and the record
\* has the data of the columns it deletes.
SyncedOK ==
  stage \in {"update", "sent"} \/ (last = "failed" /\ created) =>
    /\ Script(inputs, news) # << >>
    /\ \A n \in Deleted(news) \intersect DOMAIN outputs \intersect DOMAIN live :
         n \in DOMAIN held /\ held[n] = live[n].data

\* Nothing is recorded of a resource that does not exist, and a script outlives its
\* update only when that has failed or succeeded.
EndsOK ==
  /\ ~created => outputs = << >>
  /\ stage = "idle" /\ orphan # << >> /\ last # "failed" => last = "ok"

LInv == RInv /\ CondemnedOK /\ SentOK /\ ForetoldOK /\ SyncedOK /\ EndsOK

\* A success records the data the declared columns have in the table t.
LEMMA RecordIs ==
  ASSUME NEW p, NEW t, Record(p, t)
  PROVE  /\ outputs' = Clean(p) /\ created' /\ stage' = "idle" /\ last' = "ok"
         /\ \A n \in DOMAIN outputs' \intersect DOMAIN t : n \in DOMAIN held' /\ held'[n] = t[n].data
<1>1. /\ outputs' = Clean(p) /\ created' /\ stage' = "idle" /\ last' = "ok"
      /\ held' = DataOf(Restrict(t, DOMAIN t \intersect DOMAIN Clean(p)))
  BY DEF Record
<1> QED BY <1>1 DEF DataOf, Restrict

\* Without a script under way, agreeing with the table is enough.
LEMMA ForetoldWithout ==
  ASSUME orphan' = << >>, Agrees(live)'
  PROVE  ForetoldOK'
<1>1. RunFrom(born', << >>, live').t = live'
  BY RunOfNone
<1> QED BY <1>1 DEF ForetoldOK, Agrees

\* ... and it is what the invariant says then.
LEMMA AgreesWithout ==
  ASSUME ForetoldOK, orphan = << >>, stage = "idle", last # "failed"
  PROVE  Agrees(live)
<1>1. RunFrom(born, << >>, live).t = live
  BY RunOfNone
<1> QED BY <1>1 DEF ForetoldOK

\* A statement of the program leaves a column it deletes alone, or drops it.
LEMMA DoomedStays ==
  ASSUME NEW q, Keeps(news, q, live, live'), NEW names \in SUBSET Deleted(news), Doomed(names),
         UNCHANGED condemned
  PROVE  Doomed(names)'
BY DEF Doomed, Keeps

\* What has been done stays done.
LEMMA DoneStays ==
  ASSUME ShapesOK, NEW q, Keeps(news, q, live, live'), NEW r \in Statements(news), Done(r, live)
  PROVE  Done(r, live')
<1>1. r.op = "rename" => r.to \in DeclaredNames(news)
  BY StatementIs, FieldsAre DEF ShapesOK
<1>2. r.op = "add" => DOMAIN r.cols \subseteq DeclaredNames(news)
  BY StatementIs, FieldsAre DEF ShapesOK, NamesOf
<1> QED BY <1>1, <1>2 DEF Done, Keeps

\* A statement that drops something drops what the program deletes.
LEMMA DropsDeleted ==
  ASSUME NEW p, NEW q \in Statements(p), q.op = "drop"
  PROVE  q.names \in SUBSET Deleted(p)
BY StatementIs

\* The effect of a statement leaves the parts of the invariant that are about the
\* columns of the table.
LEMMA StatementLeaves ==
  ASSUME LInv, NEW q, Keeps(news, q, live, live'),
         UNCHANGED << inputs, outputs, held, created, news, condemned, stage, last >>
  PROVE  /\ \A r \in ToSet(orphan) : r.op = "drop" => Doomed(r.names)'
         /\ stage = "sent" => Doomed(Drops(outputs, news))'
         /\ \A r \in ToSet(orphan) : Done(r, live) => Done(r, live')
         /\ SyncedOK'
<1>1. ToSet(orphan) \subseteq Statements(news)
  BY DEF LInv, RInv, ShapesOK, ToSet
<1>2. \A r \in ToSet(orphan) : r.op = "drop" => Doomed(r.names)'
  BY <1>1, DropsDeleted, DoomedStays DEF LInv, CondemnedOK
<1>3. Drops(outputs, news) \in SUBSET Deleted(news)
  BY DEF Drops
<1>4. stage = "sent" => Doomed(Drops(outputs, news))'
  <2> DEFINE names == Drops(outputs, news)
  <2>1. ASSUME stage = "sent" PROVE Doomed(names)
    BY <2>1 DEF LInv, CondemnedOK
  <2>2. ASSUME Doomed(names)
        PROVE  \A n \in names \intersect DOMAIN live' : live'[n].data \in condemned
    BY <1>3, <2>2 DEF Doomed, Keeps
  <2>3. names' = names
    BY DEF Drops
  <2> HIDE DEF names
  <2>4. stage = "sent" => Doomed(names)'
    BY <2>1, <2>2, <2>3 DEF Doomed
  <2> QED BY <2>4 DEF names
<1>5. \A r \in ToSet(orphan) : Done(r, live) => Done(r, live')
  BY <1>1, DoneStays DEF LInv, RInv
<1>6. SyncedOK'
  BY DEF LInv, SyncedOK, Keeps
<1> QED BY <1>2, <1>4, <1>5, <1>6

\* Nobody waits and nothing is under way at first.
LEMMA LossStarts ==
  ASSUME OneRoles, Init
  PROVE  LInv
<1>1. RInv
  BY ShapesStart
<1>2. /\ orphan = << >> /\ stage = "idle" /\ last = "none" /\ outputs = << >> /\ ~created
      /\ ToSet(<< >>) = {}
  BY DEF Init, ToSet
<1>3. Agrees(RunFrom(born, orphan, live).t)
  BY <1>2 DEF Agrees
<1> QED BY <1>1, <1>2, <1>3 DEF LInv, CondemnedOK, SentOK, ForetoldOK, SyncedOK, EndsOK

\* A created table is recorded as it is.
LEMMA CreateLoses ==
  ASSUME OneRoles, LInv, NEW p \in Programs, Create(p)
  PROVE  LInv' /\ Data(live) \subseteq Data(live')
<1>1. RInv'
  BY CreateShapes DEF LInv
<1>2. /\ stage = "idle" /\ ~created /\ orphan = << >> /\ orphan' = << >>
      /\ DOMAIN live \subseteq DOMAIN Clean(p)
      /\ live' = [n \in DOMAIN Clean(p) |->
                    [data |-> IF n \in DOMAIN live THEN live[n].data ELSE << n, born >>,
                     desc |-> Clean(p)[n]]]
      /\ Record(p, live') \/ Reject
  BY DEF Create, Patch
<1>3. \A n \in DOMAIN live : n \in DOMAIN live' /\ live'[n].data = live[n].data
  BY <1>2
<1>4. ToSet(orphan') = {}
  BY <1>2 DEF ToSet
<1>5. CASE Record(p, live')
  <2>1. Agrees(live)'
    BY <1>5, RecordIs DEF Agrees
  <2>2. ForetoldOK'
    BY <1>2, <2>1, ForetoldWithout
  <2> QED BY <1>1, <1>2, <1>3, <1>4, <1>5, <2>2, RecordIs
          DEF LInv, CondemnedOK, SentOK, SyncedOK, EndsOK, Data
<1>6. CASE Reject
  BY <1>1, <1>2, <1>3, <1>4, <1>6
     DEF LInv, CondemnedOK, SentOK, ForetoldOK, SyncedOK, EndsOK, Data, Reject, record
<1> QED BY <1>2, <1>5, <1>6

\* A preview begins an update of what the record agrees with: after a failure the
\* program is the same.
LEMMA PreviewLoses ==
  ASSUME OneRoles, Disciplined, LInv, NEW p \in Programs, Preview(p)
  PROVE  LInv'
<1>1. RInv'
  BY PreviewShapes DEF LInv
<1>2. /\ stage = "idle" /\ created /\ orphan = << >> /\ news' = p /\ created' = created
      /\ UNCHANGED << live, orphan, born, outputs, held >>
      /\ last = "failed" => p = news
      /\ IF Script(inputs, p) # << >>
         THEN stage' = "update" /\ inputs' = inputs /\ last' \in {"again", "none"}
         ELSE stage' = stage /\ last' = "same"
  BY DEF Preview, service
<1>3. ToSet(orphan') = {}
  BY <1>2 DEF ToSet
<1>4. last # "failed" => Agrees(live)
  BY <1>2, AgreesWithout DEF LInv
<1>5. CASE Script(inputs, p) # << >>
  <2>1. \A n \in Deleted(p) \intersect DOMAIN outputs \intersect DOMAIN live :
          n \in DOMAIN held /\ held[n] = live[n].data
    <3>1. CASE last = "failed"
      BY <1>2, <3>1 DEF LInv, SyncedOK
    <3>2. CASE last # "failed"
      BY <1>4, <3>2 DEF Agrees
    <3> QED BY <3>1, <3>2
  <2>2. SyncedOK'
    BY <1>2, <1>5, <2>1 DEF SyncedOK
  <2> QED BY <1>1, <1>2, <1>3, <1>5, <2>2 DEF LInv, CondemnedOK, SentOK, ForetoldOK, EndsOK
<1>6. CASE Script(inputs, p) = << >>
  <2>1. last # "failed"
    BY <1>2, <1>6 DEF LInv, SyncedOK
  <2>2. Agrees(live)'
    BY <1>2, <1>4, <2>1 DEF Agrees
  <2>3. ForetoldOK'
    BY <1>2, <2>2, ForetoldWithout
  <2> QED BY <1>1, <1>2, <1>3, <1>6, <2>3 DEF LInv, CondemnedOK, SentOK, SyncedOK, EndsOK
<1> QED BY <1>5, <1>6

\* An update condemns what the record says its script drops.
LEMMA UpdateLoses ==
  ASSUME LInv, Update
  PROVE  LInv'
<1>1. RInv'
  BY UpdateShapes DEF LInv
<1>2. /\ stage = "update" /\ orphan = << >> /\ UNCHANGED << live, orphan, born, news >>
      /\ \/ Record(news, live)
         \/ script' = Script(outputs, news) /\ stage' = "sent" /\ UNCHANGED << record, last >>
         \/ Reject
      /\ condemned' = { held[n] : n \in Deleted(news) \intersect DOMAIN held }
  BY DEF Update, LInv, RInv, StagesOK
<1>3. ToSet(orphan') = {}
  BY <1>2 DEF ToSet
<1>4. /\ Script(inputs, news) # << >>
      /\ \A n \in Deleted(news) \intersect DOMAIN outputs \intersect DOMAIN live :
           n \in DOMAIN held /\ held[n] = live[n].data
  BY <1>2 DEF LInv, SyncedOK
<1>5. CASE Record(news, live)
  <2>1. Agrees(live)'
    BY <1>2, <1>5, RecordIs DEF Agrees
  <2>2. ForetoldOK'
    BY <1>2, <2>1, ForetoldWithout
  <2> QED BY <1>1, <1>2, <1>3, <1>5, <2>2, RecordIs DEF LInv, CondemnedOK, SentOK, SyncedOK, EndsOK
<1>6. CASE script' = Script(outputs, news) /\ stage' = "sent" /\ UNCHANGED << record, last >>
  <2>1. UNCHANGED << inputs, outputs, held, created, last >>
    BY <1>6 DEF record
  <2>2. \A n \in Drops(outputs, news) \intersect DOMAIN live : live[n].data \in condemned'
    BY <1>2, <1>4 DEF Drops
  <2>3. CondemnedOK'
    BY <1>2, <1>3, <2>1, <2>2 DEF CondemnedOK, Doomed
  <2>4. SentOK'
    BY <1>2, <1>3, <1>6, <2>1 DEF SentOK
  <2>5. SyncedOK'
    BY <1>2, <1>4, <2>1 DEF SyncedOK
  <2>6. ForetoldOK' /\ EndsOK'
    BY <1>2, <1>6, <2>1 DEF LInv, ForetoldOK, EndsOK
  <2> QED BY <1>1, <2>3, <2>4, <2>5, <2>6 DEF LInv
<1>7. CASE Reject
  <2>1. UNCHANGED << inputs, outputs, held, created >> /\ stage' = "idle" /\ last' = "failed"
    BY <1>7 DEF Reject, record
  <2>2. SyncedOK'
    BY <1>2, <1>4, <2>1 DEF SyncedOK
  <2>3. CondemnedOK' /\ SentOK' /\ ForetoldOK' /\ EndsOK'
    BY <1>2, <1>3, <2>1 DEF LInv, CondemnedOK, SentOK, ForetoldOK, EndsOK
  <2> QED BY <1>1, <2>2, <2>3 DEF LInv
<1> QED BY <1>2, <1>5, <1>6, <1>7

\* A script that is waited for destroys what it drops.
LEMMA WorkLoses ==
  ASSUME LInv, Work
  PROVE  LInv' /\ Data(live) \ Data(live') \subseteq condemned
<1>1. RInv'
  BY WorkShapes DEF LInv
<1>2. stage = "sent" /\ UNCHANGED << orphan, news, condemned >>
  BY DEF Work, intent
<1>3. CASE Execute(script) /\ script' = Tail(script) /\ UNCHANGED << record, stage, last >>
  <2>1. /\ Keeps(news, Head(script), live, live') /\ Done(Head(script), live') /\ script # << >>
    BY <1>3, ExecuteIs DEF LInv, RInv, ShapesOK
  <2>2. UNCHANGED << inputs, outputs, held, created, news, condemned, stage, last >>
    BY <1>2, <1>3 DEF record
  <2>3. ToSet(script) = {Head(script)} \union ToSet(Tail(script))
    BY <2>1, RestIs DEF LInv, RInv, ShapesOK
  <2> DEFINE q == Head(script)
  <2> HIDE DEF q
  <2>4. Keeps(news, q, live, live') /\ Done(q, live')
    BY <2>1 DEF q
  <2>5. /\ \A r \in ToSet(orphan) : r.op = "drop" => Doomed(r.names)'
        /\ Doomed(Drops(outputs, news))'
        /\ \A r \in ToSet(orphan) : Done(r, live) => Done(r, live')
        /\ SyncedOK'
    BY <1>2, <2>2, <2>4, StatementLeaves
  <2>6. CondemnedOK'
    BY <1>2, <2>5 DEF CondemnedOK
  <2>7. SentOK'
    <3>1. \A r \in ToSet(orphan) : Done(r, live) \/ r = q \/ r \in ToSet(script')
      BY <1>2, <1>3, <2>3 DEF LInv, SentOK, q
    <3> QED BY <1>2, <2>4, <2>5, <3>1 DEF SentOK
  <2>8. ForetoldOK' /\ EndsOK'
    BY <1>2, <2>2 DEF LInv, ForetoldOK, EndsOK
  <2>9. Data(live) \ Data(live') \subseteq condemned
    <3>1. q \in ToSet(Script(outputs, news))
      BY <1>2, <2>3 DEF LInv, RInv, StagesOK, q
    <3>2. q.op = "drop" => q.names = Drops(outputs, news)
      BY <3>1, ScriptDrops DEF LInv, RInv, ShapesOK
    <3>3. \A n \in DOMAIN live : live[n].data \in Data(live') \/ (q.op = "drop" /\ n \in q.names)
      BY <2>4 DEF Keeps
    <3> QED BY <1>2, <3>2, <3>3 DEF Data, LInv, CondemnedOK, Doomed
  <2> QED BY <1>1, <2>5, <2>6, <2>7, <2>8, <2>9 DEF LInv
<1>4. CASE live' = live /\ Reject
  <2>1. /\ UNCHANGED << inputs, outputs, held, created, live >> /\ stage' = "idle" /\ last' = "failed"
    BY <1>4 DEF Reject, record
  <2>2. SyncedOK'
    BY <1>2, <2>1 DEF LInv, SyncedOK
  <2>3. CondemnedOK'
    BY <1>2, <2>1 DEF LInv, CondemnedOK, Doomed
  <2>4. SentOK' /\ ForetoldOK' /\ EndsOK'
    BY <1>2, <2>1 DEF LInv, SentOK, ForetoldOK, EndsOK
  <2> QED BY <1>1, <2>1, <2>2, <2>3, <2>4 DEF LInv, Data
<1> QED BY <1>3, <1>4 DEF Work, Fails

\* The data of new columns changes with a statement that adds some only.
LEMMA BornAnew ==
  ASSUME ShapesOK, NEW q \in Seq(Statements(news)), Execute(q), born' # born
  PROVE  Head(q).op = "add"
<1>1. /\ live' = Effect(Head(q), live, born) /\ q # << >>
      /\ ~(DOMAIN live' \subseteq DOMAIN live) /\ Head(q).op # "rename"
  BY DEF Execute
<1>2. Head(q) \in Statements(news)
  BY <1>1, RestIs
<1> DEFINE s == Head(q)
<1> HIDE DEF s
<1>3. s.op \in {"drop", "rename", "add", "describe"}
  BY <1>2, StatementIs DEF s
<1>4. live' = Effect(s, live, born) /\ ~(DOMAIN live' \subseteq DOMAIN live) /\ s.op # "rename"
  BY <1>1 DEF s
<1>5. CASE s.op = "drop"
  BY <1>4, <1>5 DEF Effect, Restrict
<1>6. CASE s.op = "describe"
  BY <1>4, <1>6 DEF Effect
<1> QED BY <1>3, <1>4, <1>5, <1>6 DEF s

\* A script that nobody waits for makes what it was foretold to make.
LEMMA ForetoldOnward ==
  ASSUME LInv, Execute(orphan), orphan' = Tail(orphan)
  PROVE  RunFrom(born', orphan', live') = RunFrom(born, orphan, live)
<1>1. /\ live' = Effect(Head(orphan), live, born) /\ Possible(Head(orphan), live) /\ orphan # << >>
      /\ orphan \in Seq(Statements(news)) /\ AddLast(orphan)
  BY ExecuteIs DEF LInv, RInv, ShapesOK
<1>2. RunFrom(born, orphan, live) = RunFrom(born, Tail(orphan), live')
  <2> DEFINE s == orphan
             t == live
             fresh == born
  <2>1. s \in Seq(Statements(news)) /\ s # << >> /\ Possible(Head(s), t)
    BY <1>1
  <2>2. RunFrom(fresh, s, t) = RunFrom(fresh, Tail(s), Effect(Head(s), t, fresh))
    <3> HIDE DEF s, t, fresh
    <3> QED BY <2>1, RunOnward
  <2> QED BY <1>1, <2>2
<1>3. CASE born' = born
  BY <1>2, <1>3
<1>4. CASE born' # born
  <2> DEFINE rest == Tail(orphan)
             n == Len(rest)
  <2>1. Head(orphan).op = "add"
    BY <1>1, <1>4, BornAnew DEF LInv, RInv
  <2>2. \A i \in DOMAIN rest : rest[i].op = "describe"
    BY <1>1, <2>1, RestIs
  <2>3. rest \in Seq(Statements(news))
    BY <1>1, RestIs
  <2> HIDE DEF rest
  <2>4. n \in Nat /\ DOMAIN rest = 1..n
    BY <2>3
  <2> HIDE DEF n
  <2>5. \A k \in 1..n : rest[k].op \in {"drop", "rename", "describe"}
    BY <2>2, <2>4
  <2>6. RunFrom(born', rest, live') = RunFrom(born, rest, live')
    BY <2>4, <2>5, RunAlike
  <2> QED BY <1>2, <2>6 DEF rest
<1> QED BY <1>3, <1>4

\* A script that nobody waits for destroys what it drops, too; when it stops, what has
\* been done agrees with the record.
LEMMA WorkOnLoses ==
  ASSUME LInv, WorkOn
  PROVE  LInv' /\ Data(live) \ Data(live') \subseteq condemned
<1>1. RInv' /\ orphan # << >>
  BY WorkOnShapes DEF LInv
<1>2. UNCHANGED << script, inputs, outputs, held, created, news, condemned, stage, last >>
  BY DEF WorkOn, intent, record
<1>4. CASE Execute(orphan) /\ orphan' = Tail(orphan)
  <2> DEFINE q == Head(orphan)
  <2>1. ToSet(orphan) = {q} \union ToSet(orphan')
    BY <1>1, <1>4, RestIs DEF LInv, RInv, ShapesOK
  <2>2. Keeps(news, q, live, live')
    BY <1>4, ExecuteIs DEF LInv, RInv, ShapesOK
  <2> HIDE DEF q
  <2>3. /\ \A r \in ToSet(orphan) : r.op = "drop" => Doomed(r.names)'
        /\ stage = "sent" => Doomed(Drops(outputs, news))'
        /\ \A r \in ToSet(orphan) : Done(r, live) => Done(r, live')
        /\ SyncedOK'
    BY <1>2, <2>2, StatementLeaves
  <2>4. CondemnedOK'
    BY <1>2, <2>1, <2>3 DEF CondemnedOK
  <2>5. SentOK'
    BY <1>2, <2>1, <2>3 DEF LInv, SentOK
  <2>6. ForetoldOK'
    BY <1>2, <1>4, ForetoldOnward DEF LInv, ForetoldOK, Agrees
  <2>7. EndsOK'
    BY <1>1, <1>2 DEF LInv, EndsOK
  <2>8. Data(live) \ Data(live') \subseteq condemned
    <3>1. q.op = "drop" => Doomed(q.names)
      BY <2>1 DEF LInv, CondemnedOK
    <3>2. \A n \in DOMAIN live : live[n].data \in Data(live') \/ (q.op = "drop" /\ n \in q.names)
      BY <2>2 DEF Keeps
    <3> QED BY <3>1, <3>2 DEF Data, Doomed
  <2> QED BY <1>1, <2>3, <2>4, <2>5, <2>6, <2>7, <2>8 DEF LInv
<1>5. CASE UNCHANGED << live, born >> /\ orphan' = << >>
  <2>1. ToSet(orphan') = {}
    BY <1>5 DEF ToSet
  <2>2. CondemnedOK'
    BY <1>2, <1>5, <2>1 DEF LInv, CondemnedOK, Doomed, Drops
  <2>3. SentOK'
    BY <1>2, <1>5, <2>1 DEF LInv, SentOK
  <2>4. SyncedOK' /\ EndsOK'
    BY <1>2, <1>5 DEF LInv, SyncedOK, EndsOK
  <2>5. ForetoldOK'
    <3> SUFFICES ASSUME stage = "idle", last # "failed" PROVE ForetoldOK'
      BY <1>2 DEF ForetoldOK
    <3> DEFINE u == RunFrom(born, orphan, live).t
    <3>1. DOMAIN outputs = DeclaredNames(news)
      BY <1>1, NamesApart DEF LInv, EndsOK, RInv, AppliedOK, ShapesOK
    <3>2. \A n \in DeclaredNames(news) \intersect DOMAIN live : n \in DOMAIN u /\ u[n].data = live[n].data
      BY RunKeeps DEF LInv, RInv, ShapesOK
    <3>3. Agrees(u)
      BY DEF LInv, ForetoldOK
    <3> HIDE DEF u
    <3>4. Agrees(live)'
      BY <1>2, <1>5, <3>1, <3>2, <3>3 DEF Agrees
    <3> QED BY <1>5, <3>4, ForetoldWithout
  <2> QED BY <1>1, <1>5, <2>2, <2>3, <2>4, <2>5 DEF LInv, Data
<1> QED BY <1>4, <1>5 DEF WorkOn, Fails

\* What is left of an update's script drops no other columns than the update.
LEMMA RestDrops ==
  ASSUME LInv, stage = "sent"
  PROVE  \A q \in ToSet(script) : q.op = "drop" => Doomed(q.names)
<1>1. \A q \in ToSet(script) : q.op = "drop" => q.names = Drops(outputs, news)
  BY ScriptDrops DEF LInv, RInv, StagesOK, ShapesOK
<1> QED BY <1>1 DEF LInv, CondemnedOK

\* An answer comes when nothing is left to do, not even for a script sent before.
LEMMA AnswerLoses ==
  ASSUME LInv, Answer
  PROVE  LInv'
<1>1. RInv'
  BY WaitShapes DEF LInv
<1>2. /\ stage = "sent" /\ script = << >> /\ Record(news, live)
      /\ UNCHANGED << live, script, orphan, born, news, condemned >>
  BY DEF Answer, service, intent
<1>3. outputs' = Clean(news) /\ created' /\ stage' = "idle" /\ last' = "ok" /\ Agrees(live)'
  BY <1>2, RecordIs DEF Agrees
<1>4. CondemnedOK' /\ SentOK' /\ SyncedOK' /\ EndsOK'
  BY <1>2, <1>3 DEF LInv, CondemnedOK, Doomed, SentOK, SyncedOK, EndsOK
<1>5. ForetoldOK'
  <2> DEFINE u == RunFrom(born, orphan, live).t
  <2>1. \A q \in ToSet(orphan) : Done(q, live)
    BY <1>2 DEF LInv, SentOK, ToSet
  <2>2. /\ \A n \in DeclaredNames(news) \intersect DOMAIN live : n \in DOMAIN u /\ u[n].data = live[n].data
        /\ DeclaredNames(news) \intersect DOMAIN u \subseteq DOMAIN live
    BY <2>1, RunKeeps DEF LInv, RInv, ShapesOK
  <2>3. DOMAIN Clean(news) = DeclaredNames(news)
    BY NamesApart DEF LInv, RInv, ShapesOK
  <2>4. RunFrom(born', orphan', live').t = u
    BY <1>2
  <2> HIDE DEF u
  <2>5. \A n \in DOMAIN outputs' \intersect DOMAIN u : n \in DOMAIN held' /\ held'[n] = u[n].data
    BY <1>2, <1>3, <2>2, <2>3 DEF Agrees
  <2> QED BY <2>4, <2>5 DEF ForetoldOK, Agrees
<1> QED BY <1>1, <1>4, <1>5 DEF LInv

\* A script that the handler no longer waits for goes on.
LEMMA LeaveLoses ==
  ASSUME LInv, GiveUp \/ Resend \/ Outlive
  PROVE  LInv'
<1>1. RInv'
  BY WaitShapes DEF LInv
<1>2. stage = "sent" /\ orphan' = script /\ UNCHANGED << live, born, news, condemned >>
  BY DEF GiveUp, Resend, Outlive, intent
<1>3. \A q \in ToSet(script) : q.op = "drop" => \A n \in q.names \intersect DOMAIN live : live[n].data \in condemned
  BY <1>2, RestDrops DEF Doomed
<1>4. \A q \in ToSet(orphan') : q.op = "drop" => Doomed(q.names)'
  BY <1>2, <1>3 DEF Doomed
<1>5. CASE GiveUp
  <2>1. UNCHANGED << inputs, outputs, held, created >> /\ stage' = "idle" /\ last' = "failed"
    BY <1>5 DEF GiveUp, Reject, record
  <2>2. SyncedOK'
    BY <1>2, <2>1 DEF LInv, SyncedOK
  <2> QED BY <1>1, <1>2, <1>4, <2>1, <2>2 DEF LInv, CondemnedOK, SentOK, ForetoldOK, EndsOK
<1>6. CASE Resend
  <2>1. /\ UNCHANGED << inputs, outputs, held, created, stage, last >> /\ script' = Script(outputs, news)
    BY <1>6 DEF Resend, record
  <2>2. SyncedOK'
    BY <1>2, <2>1 DEF LInv, SyncedOK
  <2>3. Doomed(Drops(outputs, news))'
    BY <1>2, <2>1 DEF LInv, CondemnedOK, Doomed, Drops
  <2>5. SentOK'
    BY <1>2, <2>1 DEF LInv, RInv, StagesOK, SentOK
  <2> QED BY <1>1, <1>2, <1>4, <2>1, <2>2, <2>3, <2>5 DEF LInv, CondemnedOK, ForetoldOK, EndsOK
<1>7. CASE Outlive
  <2>1. Record(news, Run(script, live).t)
    BY <1>7 DEF Outlive
  <2>2. RunFrom(born', orphan', live').t = Run(script, live).t
    BY <1>2, RunIs
  <2> DEFINE u == Run(script, live).t
  <2>3. Record(news, u)
    BY <2>1
  <2> HIDE DEF u
  <2>4. /\ outputs' = Clean(news) /\ created' /\ stage' = "idle" /\ last' = "ok"
        /\ \A n \in DOMAIN outputs' \intersect DOMAIN u : n \in DOMAIN held' /\ held'[n] = u[n].data
    BY <2>3, RecordIs
  <2>5. ForetoldOK'
    BY <2>2, <2>4 DEF ForetoldOK, Agrees, u
  <2> QED BY <1>1, <1>4, <2>4, <2>5 DEF LInv, CondemnedOK, SentOK, SyncedOK, EndsOK
<1> QED BY <1>5, <1>6, <1>7

\* A refresh records the table as it is, and a delete nothing.
LEMMA ForgetLoses ==
  ASSUME OneRoles, LInv, Refresh \/ Delete
  PROVE  LInv'
<1>1. RInv'
  BY ForgetShapes DEF LInv
<1>2. /\ stage = "idle" /\ orphan = << >> /\ last' = "none"
      /\ UNCHANGED << live, script, orphan, born, stage >>
  BY DEF Refresh, Delete, service
<1>3. ToSet(orphan') = {}
  BY <1>2 DEF ToSet
<1>4. Agrees(live)' /\ (~created' => outputs' = << >>)
  <2>1. CASE Refresh
    BY <1>2, <2>1 DEF Refresh, Agrees, DescsOf, DataOf
  <2>2. CASE Delete
    BY <2>2 DEF Delete, Agrees
  <2> QED BY <2>1, <2>2
<1>5. ForetoldOK'
  BY <1>2, <1>4, ForetoldWithout
<1> QED BY <1>1, <1>2, <1>3, <1>4, <1>5 DEF LInv, CondemnedOK, SentOK, SyncedOK, EndsOK

\* No step loses more than is condemned.
LEMMA StepLoses ==
  ASSUME OneRoles, Disciplined, LInv, [Next]_vars
  PROVE  LInv' /\ Data(live) \ Data(live') \subseteq condemned
<1>1. CASE UNCHANGED vars
  <2>1. UNCHANGED << live, script, orphan, born, inputs, outputs, held, created, news, condemned,
                     stage, last >>
    BY <1>1 DEF vars, service, record, intent
  <2>2. RInv'
    BY ShapesKeep DEF LInv
  <2>3. SyncedOK' /\ SentOK'
    BY <2>1 DEF LInv, SyncedOK, SentOK
  <2>4. CondemnedOK' /\ EndsOK'
    BY <2>1 DEF LInv, CondemnedOK, Doomed, EndsOK, Drops
  <2>5. ForetoldOK'
    BY <2>1 DEF LInv, ForetoldOK, Agrees
  <2> QED BY <2>1, <2>2, <2>3, <2>4, <2>5 DEF LInv, Data
<1>2. CASE \E p \in Programs : Create(p)
  BY <1>2, CreateLoses
<1>3. CASE \E p \in Programs : Preview(p)
  <2>1. live' = live
    BY <1>3 DEF Preview, service
  <2> QED BY <1>3, <2>1, PreviewLoses DEF Data
<1>4. CASE Update
  <2>1. live' = live
    BY <1>4 DEF Update
  <2> QED BY <1>4, <2>1, UpdateLoses DEF Data
<1>5. CASE Work
  BY <1>5, WorkLoses
<1>6. CASE WorkOn
  BY <1>6, WorkOnLoses
<1>7. CASE Answer
  <2>1. live' = live
    BY <1>7 DEF Answer, service
  <2> QED BY <1>7, <2>1, AnswerLoses DEF Data
<1>8. CASE GiveUp \/ Resend \/ Outlive
  <2>1. live' = live
    BY <1>8 DEF GiveUp, Resend, Outlive
  <2> QED BY <1>8, <2>1, LeaveLoses DEF Data
<1>9. CASE Refresh \/ Delete
  <2>1. live' = live
    BY <1>9 DEF Refresh, Delete, service
  <2> QED BY <1>9, <2>1, ForgetLoses DEF Data
<1> QED BY <1>1, <1>2, <1>3, <1>4, <1>5, <1>6, <1>7, <1>8, <1>9 DEF Next

\* OnlyDeletedLost, for any columns, tables, numbers of updates and faults, when every
\* name of a program has one role and a program that failed is changed only after a
\* refresh: whatever is lost, sent twice, cut short or outlives its handler, the drops
\* of diff.rs:36-44 and ddl.rs:23-41 destroy no other data than that of the recorded
\* columns the program deletes (handlers.rs:267-338).
THEOREM OnlyDeletedLostHolds ==
  ASSUME OneRoles, Disciplined
  PROVE  Spec => OnlyDeletedLost
<1>1. Init => LInv
  BY LossStarts
<1>2. LInv /\ [Next]_vars => LInv'
  BY StepLoses
<1>3. LInv /\ [Next]_vars => [Data(live) \ Data(live') \subseteq condemned]_vars
  BY StepLoses
<1> QED BY <1>1, <1>2, <1>3, PTL DEF Spec, OnlyDeletedLost

-----------------------------------------------------------------------------
\* How far the statements of a program have changed the table it found.

\* The table t, which the program p found as first, has got no columns but the
\* declared ones, has kept the columns p does not touch, and each column p renames
\* under one of its two names.
Partial(p, first, t) ==
  /\ DOMAIN t \subseteq DOMAIN first \union DeclaredNames(p)
  /\ \A n \in DOMAIN first \ (Deleted(p) \union Sources(p)) :
       n \in DOMAIN t /\ t[n].data = first[n].data
  /\ \A f \in Of(p, "rename") : f.from \in DOMAIN first =>
       \/ f.from \in DOMAIN t /\ f.name \notin DOMAIN t /\ t[f.from].data = first[f.from].data
       \/ f.from \notin DOMAIN t /\ f.name \in DOMAIN t /\ t[f.name].data = first[f.from].data

\* What is not done yet is pending.
Progress(p, first, t, pending) ==
  /\ Partial(p, first, t)
  /\ \A n \in Deleted(p) \intersect DOMAIN t : \E q \in pending : q.op = "drop" /\ n \in q.names
  /\ \A f \in Of(p, "rename") : f.from \in DOMAIN t => Rename(f.from, f.name) \in pending
  /\ \A f \in Of(p, "insert") : f.name \notin DOMAIN t =>
       \E q \in pending : q.op = "add" /\ f.name \in DOMAIN q.cols
  /\ \A f \in Of(p, "none") : f.name \in DOMAIN t =>
       t[f.name].desc = f.desc \/ Describe(f.name, f.desc) \in pending

\* The columns of a table after a statement: t before, and u then.
After(q, t, u) ==
  /\ q.op = "drop" => /\ DOMAIN u = DOMAIN t \ q.names
                      /\ \A n \in DOMAIN u : u[n] = t[n]
  /\ q.op = "rename" => /\ q.from \in DOMAIN t /\ q.to \notin DOMAIN t
                        /\ DOMAIN u = (DOMAIN t \ {q.from}) \union {q.to}
                        /\ u[q.to] = t[q.from]
                        /\ \A n \in DOMAIN t \ {q.from} : u[n] = t[n]
  /\ q.op = "add" => /\ DOMAIN u = DOMAIN t \union DOMAIN q.cols
                     /\ \A n \in DOMAIN t : u[n] = t[n]
  /\ q.op = "describe" => /\ DOMAIN u = DOMAIN t
                          /\ \A n \in DOMAIN t : u[n].data = t[n].data
                          /\ \A n \in DOMAIN t \ {q.name} : u[n] = t[n]
                          /\ u[q.name].desc = q.desc

\* A statement that is possible has its effect.
LEMMA ColumnsAre ==
  ASSUME NEW p, NEW q \in Statements(p), NEW t, Table(t), Possible(q, t), NEW fresh
  PROVE  After(q, t, Effect(q, t, fresh))
<1> DEFINE u == Effect(q, t, fresh)
<1>1. ASSUME q.op = "drop"
      PROVE  /\ DOMAIN u = DOMAIN t \ q.names
             /\ \A n \in DOMAIN u : u[n] = t[n]
  BY <1>1 DEF Effect, Restrict
<1>2. ASSUME q.op = "rename"
      PROVE  /\ q.from \in DOMAIN t /\ q.to \notin DOMAIN t
             /\ DOMAIN u = (DOMAIN t \ {q.from}) \union {q.to}
             /\ u[q.to] = t[q.from]
             /\ \A n \in DOMAIN t \ {q.from} : u[n] = t[n]
  <2>1. q.from \in DOMAIN t /\ q.to \notin DOMAIN t
    BY <1>2 DEF Possible
  <2>2. u = [n \in (DOMAIN t \ {q.from}) \union {q.to} |-> IF n = q.to THEN t[q.from] ELSE t[n]]
    BY <1>2 DEF Effect
  <2> QED BY <2>1, <2>2
<1>3. ASSUME q.op = "add"
      PROVE  /\ DOMAIN u = DOMAIN t \union DOMAIN q.cols
             /\ \A n \in DOMAIN t : u[n] = t[n]
  BY <1>3 DEF Effect
<1>4. ASSUME q.op = "describe"
      PROVE  /\ DOMAIN u = DOMAIN t
             /\ \A n \in DOMAIN t : u[n].data = t[n].data
             /\ \A n \in DOMAIN t \ {q.name} : u[n] = t[n]
             /\ u[q.name].desc = q.desc
  <2>1. u = [t EXCEPT ![q.name].desc = q.desc] /\ q.name \in DOMAIN t
    BY <1>4 DEF Effect, Possible
  <2>2. t[q.name] = [data |-> t[q.name].data, desc |-> t[q.name].desc]
    BY <2>1 DEF Table
  <2>3. u[q.name] = [data |-> t[q.name].data, desc |-> q.desc]
    BY <2>1, <2>2
  <2>4. DOMAIN u = DOMAIN t /\ \A n \in DOMAIN t \ {q.name} : u[n] = t[n]
    BY <2>1
  <2> QED BY <2>1, <2>3, <2>4
<1> HIDE DEF u
<1> QED BY <1>1, <1>2, <1>3, <1>4 DEF After, u

\* A statement of the program goes on from there.
LEMMA PartialStays ==
  ASSUME NEW p \in Seq(Fields), OneRole(p), NEW q \in Statements(p),
         NEW first, Feasible(p, first), NEW t, Table(t), Partial(p, first, t),
         Possible(q, t), NEW fresh
  PROVE  Partial(p, first, Effect(q, t, fresh))
<1> DEFINE u == Effect(q, t, fresh)
<1> SUFFICES Partial(p, first, u)
  OBVIOUS
<1>11. After(q, t, u)
  BY ColumnsAre
<1> HIDE DEF u
<1>1. /\ Deleted(p) \intersect DeclaredNames(p) = {} /\ Sources(p) \intersect DeclaredNames(p) = {}
      /\ Sources(p) \intersect Deleted(p) = {}
  BY NamesApart
<1>2. \A f \in Of(p, "rename") : f.from \in Sources(p) /\ f.name \in DeclaredNames(p)
  BY FieldsAre
<1>3. \A f \in Of(p, "insert") : f.name \in DeclaredNames(p)
  BY FieldsAre
<1>4. \A f, g \in ToSet(p) : f.name = g.name => f = g
  BY OneField
<1>5. \A f, g \in Of(p, "rename") : f.from = g.from => f = g
  BY DEF Of, OneRole, ToSet
<1>6. \A f \in Of(p, "rename") : f.from \in DOMAIN first => f.name \notin DOMAIN first
  BY DEF Feasible, Of
<1>7. CASE q.op = "drop" /\ q.names \in SUBSET Deleted(p)
  <2>1. DOMAIN u = DOMAIN t \ q.names /\ \A n \in DOMAIN u : u[n] = t[n]
    BY <1>7, <1>11 DEF After
  <2> QED BY <1>1, <1>2, <1>7, <2>1 DEF Partial
<1>8. CASE q.op = "rename" /\ \E f \in Of(p, "rename") : q.from = f.from /\ q.to = f.name
  <2>1. PICK g \in Of(p, "rename") : q.from = g.from /\ q.to = g.name
    BY <1>8
  <2>2. /\ g.from \in DOMAIN t /\ g.name \notin DOMAIN t
        /\ DOMAIN u = (DOMAIN t \ {g.from}) \union {g.name}
        /\ u[g.name] = t[g.from] /\ \A n \in DOMAIN t \ {g.from} : u[n] = t[n]
    BY <1>8, <2>1, <1>11 DEF After
  <2>3. DOMAIN u \subseteq DOMAIN first \union DeclaredNames(p)
    BY <1>2, <2>1, <2>2 DEF Partial
  <2>4. ASSUME NEW n \in DOMAIN first \ (Deleted(p) \union Sources(p))
        PROVE  n \in DOMAIN u /\ u[n].data = first[n].data
    BY <1>2, <2>1, <2>2 DEF Partial
  <2>5. ASSUME NEW f \in Of(p, "rename"), f.from \in DOMAIN first
        PROVE  \/ f.from \in DOMAIN u /\ f.name \notin DOMAIN u /\ u[f.from].data = first[f.from].data
               \/ f.from \notin DOMAIN u /\ f.name \in DOMAIN u /\ u[f.name].data = first[f.from].data
    <3>1. CASE f = g
      <4>1. f.from # f.name
        BY <1>1, <1>2
      <4> QED BY <2>2, <2>5, <3>1, <4>1 DEF Partial
    <3>2. CASE f # g
      <4>1. f.from # g.from /\ f.name # g.name /\ f.from # g.name /\ g.from # f.name
        BY <1>1, <1>2, <1>4, <1>5, <3>2 DEF Of
      <4> QED BY <2>2, <2>5, <4>1 DEF Partial
    <3> QED BY <3>1, <3>2
  <2> QED BY <2>3, <2>4, <2>5 DEF Partial
<1>9. CASE q.op = "add" /\ DOMAIN q.cols \subseteq NamesOf(Of(p, "insert"))
  <2>1. DOMAIN u = DOMAIN t \union DOMAIN q.cols /\ \A n \in DOMAIN t : u[n] = t[n]
    BY <1>9, <1>11 DEF After
  <2>2. DOMAIN q.cols \subseteq DeclaredNames(p)
    BY <1>3, <1>9 DEF NamesOf
  <2>3. \A f \in Of(p, "rename") : f.name \notin DOMAIN q.cols /\ f.from \notin DOMAIN q.cols
    <3>1. \A f \in Of(p, "rename"), g \in Of(p, "insert") : f.name # g.name
      BY <1>4 DEF Of
    <3> QED BY <1>1, <1>2, <1>9, <2>2, <3>1 DEF NamesOf
  <2> QED BY <2>1, <2>2, <2>3 DEF Partial
<1>10. CASE q.op = "describe"
  <2>1. DOMAIN u = DOMAIN t /\ \A n \in DOMAIN t : u[n].data = t[n].data
    BY <1>10, <1>11 DEF After
  <2> QED BY <2>1 DEF Partial
<1> QED BY <1>7, <1>8, <1>9, <1>10, StatementIs

\* ... and what it has done is no longer pending.
LEMMA ProgressStays ==
  ASSUME NEW p \in Seq(Fields), OneRole(p), NEW q \in Statements(p),
         NEW first, Feasible(p, first), NEW t, Table(t), NEW pending,
         Progress(p, first, t, pending), Possible(q, t), NEW fresh
  PROVE  Progress(p, first, Effect(q, t, fresh), pending \ {q})
<1> DEFINE u == Effect(q, t, fresh)
<1> SUFFICES Progress(p, first, u, pending \ {q})
  OBVIOUS
<1>1. Partial(p, first, u)
  BY PartialStays DEF Progress
<1>2. After(q, t, u)
  BY ColumnsAre
<1> HIDE DEF u
<1>3. /\ Deleted(p) \intersect DeclaredNames(p) = {} /\ Sources(p) \intersect DeclaredNames(p) = {}
      /\ Sources(p) \intersect Deleted(p) = {}
  BY NamesApart
<1>4. /\ \A f \in Of(p, "rename") : f.from \in Sources(p) /\ f.name \in DeclaredNames(p)
      /\ \A f \in Of(p, "insert") : f.name \in DeclaredNames(p)
      /\ \A f \in Of(p, "none") : f.name \in DeclaredNames(p)
  BY FieldsAre
<1>5. \A f, g \in ToSet(p) : f.name = g.name => f = g
  BY OneField
<1>6. \A f, g \in Of(p, "rename") : f.from = g.from => f = g
  BY DEF Of, OneRole, ToSet
<1>7. /\ \A f \in Of(p, "rename"), g \in Of(p, "none") : f.name # g.name
      /\ \A f \in Of(p, "insert"), g \in Of(p, "none") : f.name # g.name
      /\ \A f \in Of(p, "insert"), g \in Of(p, "rename") : f.name # g.name
      /\ \A f, g \in Of(p, "none") : f.name = g.name => f = g
  BY <1>5 DEF Of
<1>8. CASE q.op = "drop" /\ q.names \in SUBSET Deleted(p)
  <2>1. DOMAIN u = DOMAIN t \ q.names /\ \A n \in DOMAIN u : u[n] = t[n]
    BY <1>2, <1>8 DEF After
  <2>2. \A n \in Deleted(p) \intersect DOMAIN u :
          \E r \in pending \ {q} : r.op = "drop" /\ n \in r.names
    BY <2>1 DEF Progress
  <2>3. \A f \in Of(p, "rename") : f.from \in DOMAIN u => Rename(f.from, f.name) \in pending \ {q}
    BY <1>8, <2>1 DEF Progress, Rename
  <2>4. \A f \in Of(p, "insert") : f.name \notin DOMAIN u =>
          \E r \in pending \ {q} : r.op = "add" /\ f.name \in DOMAIN r.cols
    BY <1>3, <1>4, <1>8, <2>1 DEF Progress
  <2>5. \A f \in Of(p, "none") : f.name \in DOMAIN u =>
          u[f.name].desc = f.desc \/ Describe(f.name, f.desc) \in pending \ {q}
    BY <1>8, <2>1 DEF Progress, Describe
  <2> QED BY <1>1, <2>2, <2>3, <2>4, <2>5 DEF Progress
<1>9. CASE q.op = "rename" /\ \E f \in Of(p, "rename") : q.from = f.from /\ q.to = f.name
  <2>1. PICK g \in Of(p, "rename") : q.from = g.from /\ q.to = g.name
    BY <1>9
  <2>2. /\ g.from \in DOMAIN t /\ g.name \notin DOMAIN t
        /\ DOMAIN u = (DOMAIN t \ {g.from}) \union {g.name}
        /\ u[g.name] = t[g.from] /\ \A n \in DOMAIN t \ {g.from} : u[n] = t[n]
    BY <1>2, <1>9, <2>1 DEF After
  <2>3. \A n \in Deleted(p) \intersect DOMAIN u :
          \E r \in pending \ {q} : r.op = "drop" /\ n \in r.names
    <3>1. \A n \in Deleted(p) \intersect DOMAIN u : n \in DOMAIN t
      BY <1>3, <1>4, <2>1, <2>2
    <3> QED BY <1>9, <3>1 DEF Progress
  <2>4. ASSUME NEW f \in Of(p, "rename"), f.from \in DOMAIN u
        PROVE  Rename(f.from, f.name) \in pending \ {q}
    <3>1. f.from # g.name /\ f.from # g.from /\ f.from \in DOMAIN t
      BY <1>3, <1>4, <2>1, <2>2, <2>4
    <3>2. Rename(f.from, f.name).from = f.from
      BY DEF Rename
    <3> QED BY <2>1, <3>1, <3>2 DEF Progress
  <2>5. \A f \in Of(p, "insert") : f.name \notin DOMAIN u =>
          \E r \in pending \ {q} : r.op = "add" /\ f.name \in DOMAIN r.cols
    <3>1. \A f \in Of(p, "insert") : f.name \notin DOMAIN u => f.name \notin DOMAIN t
      BY <1>3, <1>4, <2>1, <2>2
    <3> QED BY <1>9, <3>1 DEF Progress
  <2>6. \A f \in Of(p, "none") : f.name \in DOMAIN u =>
          u[f.name].desc = f.desc \/ Describe(f.name, f.desc) \in pending \ {q}
    <3>1. \A f \in Of(p, "none") : f.name \in DOMAIN u => f.name \in DOMAIN t /\ u[f.name] = t[f.name]
      BY <1>3, <1>4, <1>7, <2>1, <2>2
    <3> QED BY <1>9, <3>1 DEF Progress, Describe
  <2> QED BY <1>1, <2>3, <2>4, <2>5, <2>6 DEF Progress
<1>10. CASE q.op = "add" /\ DOMAIN q.cols \subseteq NamesOf(Of(p, "insert"))
  <2>1. DOMAIN u = DOMAIN t \union DOMAIN q.cols /\ \A n \in DOMAIN t : u[n] = t[n]
    BY <1>2, <1>10 DEF After
  <2>2. \A n \in DOMAIN q.cols : \E f \in Of(p, "insert") : n = f.name
    BY <1>10 DEF NamesOf
  <2>3. \A n \in Deleted(p) \intersect DOMAIN u :
          \E r \in pending \ {q} : r.op = "drop" /\ n \in r.names
    <3>1. \A n \in Deleted(p) \intersect DOMAIN u : n \in DOMAIN t
      BY <1>3, <1>4, <2>1, <2>2
    <3> QED BY <1>10, <3>1 DEF Progress
  <2>4. \A f \in Of(p, "rename") : f.from \in DOMAIN u => Rename(f.from, f.name) \in pending \ {q}
    <3>1. \A f \in Of(p, "rename") : f.from \in DOMAIN u => f.from \in DOMAIN t
      BY <1>3, <1>4, <2>1, <2>2
    <3> QED BY <1>10, <3>1 DEF Progress, Rename
  <2>5. \A f \in Of(p, "insert") : f.name \notin DOMAIN u =>
          \E r \in pending \ {q} : r.op = "add" /\ f.name \in DOMAIN r.cols
    BY <2>1 DEF Progress
  <2>6. \A f \in Of(p, "none") : f.name \in DOMAIN u =>
          u[f.name].desc = f.desc \/ Describe(f.name, f.desc) \in pending \ {q}
    <3>1. \A f \in Of(p, "none") : f.name \in DOMAIN u => f.name \in DOMAIN t /\ u[f.name] = t[f.name]
      BY <1>7, <2>1, <2>2
    <3> QED BY <1>10, <3>1 DEF Progress, Describe
  <2> QED BY <1>1, <2>3, <2>4, <2>5, <2>6 DEF Progress
<1>11. CASE q.op = "describe" /\ \E f \in Of(p, "none") : q.name = f.name /\ q.desc = f.desc
  <2>1. PICK g \in Of(p, "none") : q.name = g.name /\ q.desc = g.desc
    BY <1>11
  <2>2. /\ DOMAIN u = DOMAIN t /\ u[g.name].desc = g.desc
        /\ \A n \in DOMAIN t \ {g.name} : u[n] = t[n]
    BY <1>2, <1>11, <2>1 DEF After
  <2>3. \A n \in Deleted(p) \intersect DOMAIN u :
          \E r \in pending \ {q} : r.op = "drop" /\ n \in r.names
    BY <1>11, <2>2 DEF Progress
  <2>4. \A f \in Of(p, "rename") : f.from \in DOMAIN u => Rename(f.from, f.name) \in pending \ {q}
    BY <1>11, <2>2 DEF Progress, Rename
  <2>5. \A f \in Of(p, "insert") : f.name \notin DOMAIN u =>
          \E r \in pending \ {q} : r.op = "add" /\ f.name \in DOMAIN r.cols
    BY <1>11, <2>2 DEF Progress
  <2>6. ASSUME NEW f \in Of(p, "none"), f.name \in DOMAIN u
        PROVE  u[f.name].desc = f.desc \/ Describe(f.name, f.desc) \in pending \ {q}
    <3>1. CASE f = g
      BY <2>2, <3>1
    <3>2. CASE f # g
      <4>1. f.name # g.name
        BY <1>7, <3>2
      <4>2. Describe(f.name, f.desc).name = f.name
        BY DEF Describe
      <4> QED BY <2>1, <2>2, <2>6, <4>1, <4>2 DEF Progress
    <3> QED BY <3>1, <3>2
  <2> QED BY <1>1, <2>3, <2>4, <2>5, <2>6 DEF Progress
<1> QED BY <1>8, <1>9, <1>10, <1>11, StatementIs

\* A program that can be carried out on a table has done nothing of it yet.
LEMMA PartialStarts ==
  ASSUME NEW p, NEW t, Feasible(p, t)
  PROVE  Partial(p, t, t)
BY DEF Partial, Feasible, Of

\* It can be carried out on what it has made of the table so far.
LEMMA FeasibleStays ==
  ASSUME NEW p \in Seq(Fields), OneRole(p), NEW first, Feasible(p, first), NEW t, Partial(p, first, t)
  PROVE  Feasible(p, t)
<1>1. /\ Deleted(p) \intersect DeclaredNames(p) = {} /\ Sources(p) \intersect DeclaredNames(p) = {}
      /\ Sources(p) \intersect Deleted(p) = {}
  BY NamesApart
<1>2. /\ \A f \in Of(p, "rename") : f.from \in Sources(p) /\ f.name \in DeclaredNames(p)
      /\ \A f \in Of(p, "none") : f.name \in DeclaredNames(p)
      /\ \A n \in Sources(p) : \E f \in Of(p, "rename") : f.from = n
  BY FieldsAre DEF Sources, Of
<1>3. ASSUME NEW f \in ToSet(p), f.alter = "none"
      PROVE  f.name \in DOMAIN t
  <2>1. f \in Of(p, "none") /\ f.name \in DOMAIN first
    BY <1>3 DEF Feasible, Of
  <2> QED BY <1>1, <1>2, <2>1 DEF Partial
<1>4. ASSUME NEW f \in ToSet(p), f.alter = "rename"
      PROVE  (f.from \in DOMAIN t) # (f.name \in DOMAIN t)
  <2>1. f \in Of(p, "rename") /\ (f.from \in DOMAIN first) # (f.name \in DOMAIN first)
    BY <1>4 DEF Feasible, Of
  <2>2. CASE f.from \in DOMAIN first
    BY <2>1, <2>2 DEF Partial
  <2>3. CASE f.from \notin DOMAIN first /\ f.name \in DOMAIN first
    <3>1. f.name \in DOMAIN t
      BY <1>1, <1>2, <2>1, <2>3 DEF Partial
    <3>2. f.from \notin DOMAIN t
      BY <1>1, <1>2, <2>1, <2>3 DEF Partial
    <3> QED BY <3>1, <3>2
  <2> QED BY <2>1, <2>2, <2>3
<1>5. ASSUME DOMAIN t \subseteq Deleted(p)
      PROVE  DOMAIN t \intersect Deleted(p) = {}
  <2>1. DOMAIN first \subseteq Deleted(p)
    <3> SUFFICES ASSUME NEW n \in DOMAIN first, n \notin Deleted(p) PROVE FALSE
      OBVIOUS
    <3>1. CASE n \in Sources(p)
      <4>1. PICK f \in Of(p, "rename") : f.from = n
        BY <1>2, <3>1
      <4>2. f.from \in DOMAIN t \/ f.name \in DOMAIN t
        BY <4>1 DEF Partial
      <4> QED BY <1>1, <1>2, <1>5, <4>1, <4>2
    <3>2. CASE n \notin Sources(p)
      BY <1>5, <3>2 DEF Partial
    <3> QED BY <3>1, <3>2
  <2>2. DOMAIN first = {}
    BY <2>1 DEF Feasible
  <2> QED BY <1>1, <1>5, <2>2 DEF Partial
<1> QED BY <1>3, <1>4, <1>5 DEF Feasible

\* When nothing is pending, the program is applied.
LEMMA ProgressEnds ==
  ASSUME NEW p \in Seq(Fields), OneRole(p), NEW first, Feasible(p, first), NEW t,
         Progress(p, first, t, {})
  PROVE  Applied(p, first, t)
<1>1. /\ Deleted(p) \intersect DeclaredNames(p) = {} /\ Sources(p) \intersect DeclaredNames(p) = {}
      /\ Sources(p) \intersect Deleted(p) = {}
  BY NamesApart
<1>2. /\ \A f \in Of(p, "rename") : f.from \in Sources(p) /\ f.name \in DeclaredNames(p)
      /\ \A f \in Declared(p) : f \in Of(p, "rename") \/ f \in Of(p, "insert") \/ f \in Of(p, "none")
      /\ \A n \in Sources(p) : \E f \in Of(p, "rename") : f.from = n
      /\ \A f \in Declared(p) : f.name \in DeclaredNames(p)
      /\ \A n \in DeclaredNames(p) : \E f \in Declared(p) : n = f.name
  BY FieldsAre DEF Sources, Of, DeclaredNames, NamesOf
<1>3. Partial(p, first, t)
  BY DEF Progress
<1>4. \A f \in Of(p, "rename") : (f.from \in DOMAIN first) # (f.name \in DOMAIN first)
  BY DEF Feasible, Of
<1>5. \A f \in Of(p, "none") : f.name \in DOMAIN first
  BY DEF Feasible, Of
<1>6. Deleted(p) \intersect DOMAIN t = {} /\ Sources(p) \intersect DOMAIN t = {}
  BY <1>2 DEF Progress
<1>7. \A n \in DeclaredNames(p) \intersect DOMAIN first : n \in DOMAIN t /\ t[n].data = first[n].data
  BY <1>1, <1>3 DEF Partial
<1>8. \A f \in Of(p, "rename") : f.from \in DOMAIN first =>
        f.name \in DOMAIN t /\ t[f.name].data = first[f.from].data
  BY <1>2, <1>3, <1>6 DEF Partial
<1>9. \A f \in Declared(p) : f.name \in DOMAIN t
  BY <1>2, <1>4, <1>5, <1>7, <1>8 DEF Progress
<1>10. DOMAIN t = (DOMAIN first \ (Deleted(p) \union Sources(p))) \union DeclaredNames(p)
  <2>1. DOMAIN t \subseteq (DOMAIN first \ (Deleted(p) \union Sources(p))) \union DeclaredNames(p)
    BY <1>3, <1>6 DEF Partial
  <2>2. DeclaredNames(p) \subseteq DOMAIN t
    BY <1>2, <1>9
  <2>3. DOMAIN first \ (Deleted(p) \union Sources(p)) \subseteq DOMAIN t
    BY <1>3 DEF Partial
  <2> QED BY <2>1, <2>2, <2>3
<1>11. ASSUME NEW f \in Declared(p), Source(f, DOMAIN first) \in DOMAIN first
       PROVE  t[f.name].data = first[Source(f, DOMAIN first)].data
  <2>1. CASE f.alter = "rename" /\ f.from \in DOMAIN first
    <3>1. f \in Of(p, "rename")
      BY <2>1 DEF Of, Declared
    <3> QED BY <1>8, <2>1, <3>1 DEF Source
  <2>2. CASE ~(f.alter = "rename" /\ f.from \in DOMAIN first)
    <3>1. Source(f, DOMAIN first) = f.name
      BY <2>2 DEF Source
    <3> QED BY <1>2, <1>7, <1>11, <3>1
  <2> QED BY <2>1, <2>2
<1>12. ASSUME NEW f \in Declared(p), f.alter = "none"
       PROVE  t[f.name].desc = f.desc
  <2>1. f \in Of(p, "none")
    BY <1>12 DEF Of, Declared
  <2> QED BY <1>9, <2>1 DEF Progress
<1> QED BY <1>10, <1>11, <1>12 DEF Applied, DeclaredNames

\* A program that is applied to what it has made of the table so far is applied to the
\* table.
LEMMA AppliedOnward ==
  ASSUME NEW p \in Seq(Fields), OneRole(p), NEW first, Feasible(p, first),
         NEW t, Partial(p, first, t), NEW u, Applied(p, t, u)
  PROVE  Applied(p, first, u)
<1>1. /\ Deleted(p) \intersect DeclaredNames(p) = {} /\ Sources(p) \intersect DeclaredNames(p) = {}
      /\ Sources(p) \intersect Deleted(p) = {}
  BY NamesApart
<1>2. /\ \A f \in Of(p, "rename") : f.from \in Sources(p) /\ f.name \in DeclaredNames(p)
      /\ \A f \in Declared(p) : f.name \in DeclaredNames(p)
  BY FieldsAre DEF DeclaredNames, NamesOf
<1>3. DOMAIN t \ (Deleted(p) \union Sources(p)) \subseteq
        (DOMAIN first \ (Deleted(p) \union Sources(p))) \union DeclaredNames(p)
  BY DEF Partial
<1>4. DOMAIN first \ (Deleted(p) \union Sources(p)) \subseteq DOMAIN t \ (Deleted(p) \union Sources(p))
  BY DEF Partial
<1>5. DOMAIN u = (DOMAIN first \ (Deleted(p) \union Sources(p))) \union DeclaredNames(p)
  BY <1>3, <1>4 DEF Applied, DeclaredNames
<1>6. ASSUME NEW f \in Declared(p), Source(f, DOMAIN first) \in DOMAIN first
      PROVE  u[f.name].data = first[Source(f, DOMAIN first)].data
  <2>1. CASE f.alter = "rename" /\ f.from \in DOMAIN first
    <3>1. f \in Of(p, "rename") /\ Source(f, DOMAIN first) = f.from
      BY <2>1 DEF Of, Declared, Source
    <3>2. CASE f.from \in DOMAIN t /\ t[f.from].data = first[f.from].data
      <4>1. Source(f, DOMAIN t) = f.from
        BY <2>1, <3>2 DEF Source
      <4> QED BY <3>1, <3>2, <4>1 DEF Applied
    <3>3. CASE f.from \notin DOMAIN t /\ f.name \in DOMAIN t /\ t[f.name].data = first[f.from].data
      <4>1. Source(f, DOMAIN t) = f.name
        BY <3>3 DEF Source
      <4> QED BY <3>1, <3>3, <4>1 DEF Applied
    <3> QED BY <2>1, <3>1, <3>2, <3>3 DEF Partial
  <2>2. CASE ~(f.alter = "rename" /\ f.from \in DOMAIN first)
    <3>1. Source(f, DOMAIN first) = f.name
      BY <2>2 DEF Source
    <3>2. f.name \in DOMAIN t /\ t[f.name].data = first[f.name].data
      BY <1>1, <1>2, <1>6, <3>1 DEF Partial
    <3>3. ~(f.alter = "rename" /\ f.from \in DOMAIN t)
      <4>1. ASSUME f.alter = "rename" PROVE f.from \notin DOMAIN t
        <5>1. f \in Of(p, "rename")
          BY <4>1 DEF Of, Declared
        <5> QED BY <1>1, <1>2, <2>2, <4>1, <5>1 DEF Partial
      <4> QED BY <4>1
    <3>4. Source(f, DOMAIN t) = f.name
      BY <3>3 DEF Source
    <3> QED BY <3>1, <3>2, <3>4 DEF Applied
  <2> QED BY <2>1, <2>2
<1> QED BY <1>5, <1>6 DEF Applied, DeclaredNames

\* The script of a program on the table it found asks for all there is to do.
LEMMA ProgressStarts ==
  ASSUME NEW p \in Seq(Fields), OneRole(p), NEW t, Feasible(p, t)
  PROVE  Progress(p, t, t, ToSet(Script(DescsOf(t), p)))
<1> DEFINE old == DescsOf(t)
           pending == ToSet(Script(old, p))
<1>1. DOMAIN old = DOMAIN t /\ \A n \in DOMAIN t : old[n] = t[n].desc
  BY DEF DescsOf
<1> HIDE DEF old
<1>2. pending = (IF Drops(old, p) = {} THEN {} ELSE {Drop(Drops(old, p))})
                  \union { Rename(f.from, f.name) : f \in ToRename(old, p) }
                  \union (IF Adds(old, p) = {} THEN {} ELSE {Add(Added(old, p))})
                  \union { Describe(f.name, f.desc) : f \in ToDescribe(old, p) }
  BY ScriptIs
<1> HIDE DEF pending
<1>3. Partial(p, t, t)
  BY PartialStarts
<1>4. ASSUME NEW n \in Deleted(p) \intersect DOMAIN t
      PROVE  \E q \in pending : q.op = "drop" /\ n \in q.names
  <2>1. n \in Drops(old, p)
    BY <1>1 DEF Drops
  <2>2. Drop(Drops(old, p)) \in pending
    BY <1>2, <2>1
  <2> QED BY <2>1, <2>2 DEF Drop
<1>5. ASSUME NEW f \in Of(p, "rename"), f.from \in DOMAIN t
      PROVE  Rename(f.from, f.name) \in pending
  <2>1. f \in ToRename(old, p)
    BY <1>1, <1>5 DEF ToRename, Of
  <2> QED BY <1>2, <2>1
<1>6. ASSUME NEW f \in Of(p, "insert"), f.name \notin DOMAIN t
      PROVE  \E q \in pending : q.op = "add" /\ f.name \in DOMAIN q.cols
  <2>1. f \in Adds(old, p)
    BY <1>1, <1>6 DEF Adds, Of
  <2>2. Add(Added(old, p)) \in pending
    BY <1>2, <2>1
  <2>3. f.name \in DOMAIN Added(old, p)
    BY <2>1 DEF Added, NamesOf
  <2> QED BY <2>2, <2>3 DEF Add
<1>7. ASSUME NEW f \in Of(p, "none"), f.name \in DOMAIN t, t[f.name].desc # f.desc
      PROVE  Describe(f.name, f.desc) \in pending
  <2>1. f \in ToDescribe(old, p)
    BY <1>1, <1>7 DEF ToDescribe, Of
  <2> QED BY <1>2, <2>1
<1> QED BY <1>3, <1>4, <1>5, <1>6, <1>7 DEF Progress, pending, old

\* More may be pending than has to.
LEMMA ProgressMore ==
  ASSUME NEW p, NEW first, NEW t, NEW less, Progress(p, first, t, less), NEW more, less \subseteq more
  PROVE  Progress(p, first, t, more)
<1>1. \A n \in Deleted(p) \intersect DOMAIN t : \E q \in more : q.op = "drop" /\ n \in q.names
  BY DEF Progress
<1>2. \A f \in Of(p, "insert") : f.name \notin DOMAIN t =>
        \E q \in more : q.op = "add" /\ f.name \in DOMAIN q.cols
  BY DEF Progress
<1> QED BY <1>1, <1>2 DEF Progress

-----------------------------------------------------------------------------
\* What a success stands for.

\* An update begins on the table it was previewed on.
BeforeOK == stage = "update" => live = before

\* What a script that is waited for has not done yet is still to come in it.
ProgressOK ==
  stage = "sent" /\ outputs = DescsOf(before) /\ Feasible(news, before) =>
    Progress(news, before, live, ToSet(script))

\* While an update is under way its end is open.
OpenOK == stage \in {"update", "sent"} => last \notin {"ok", "failed"}

SInv == RInv /\ BeforeOK /\ ProgressOK /\ OpenOK

\* The script is sent.
LEMMA UpdateSucceeds ==
  ASSUME SInv, Update
  PROVE  SInv'
<1>1. RInv'
  BY UpdateShapes DEF SInv
<1>2. /\ stage = "update" /\ live = before /\ UNCHANGED << live, news, before >>
      /\ \/ stage' = "idle"
         \/ script' = Script(outputs, news) /\ stage' = "sent" /\ UNCHANGED << outputs, last >>
  BY DEF Update, SInv, BeforeOK, record, Record, Reject
<1>3. CASE stage' = "idle"
  BY <1>1, <1>3 DEF SInv, BeforeOK, ProgressOK, OpenOK
<1>4. CASE script' = Script(outputs, news) /\ stage' = "sent" /\ UNCHANGED << outputs, last >>
  <2>1. ASSUME outputs = DescsOf(before), Feasible(news, before)
        PROVE  Progress(news, before, live, ToSet(Script(outputs, news)))
    BY <1>2, <2>1, ProgressStarts DEF SInv, RInv, ShapesOK
  <2>2. ProgressOK'
    BY <1>2, <1>4, <2>1 DEF ProgressOK
  <2> QED BY <1>1, <1>2, <1>4, <2>2 DEF SInv, BeforeOK, OpenOK
<1> QED BY <1>2, <1>3, <1>4

\* A statement takes effect, of one script or the other.
LEMMA StatementSucceeds ==
  ASSUME SInv, stage = "sent", outputs = DescsOf(before), Feasible(news, before),
         NEW q \in Seq(Statements(news)), Execute(q), NEW rest,
         ToSet(script) \ {Head(q)} \subseteq rest
  PROVE  Progress(news, before, live', rest)
<1>1. Progress(news, before, live, ToSet(script)) /\ ShapesOK
  BY DEF SInv, ProgressOK, RInv
<1>2. live' = Effect(Head(q), live, born) /\ Possible(Head(q), live) /\ q # << >>
  BY <1>1, ExecuteIs
<1>3. Head(q) \in Statements(news)
  BY <1>2, RestIs
<1>4. Progress(news, before, live', ToSet(script) \ {Head(q)})
  BY <1>1, <1>2, <1>3, ProgressStays DEF ShapesOK
<1> QED BY <1>4, ProgressMore

\* The script goes on, or is over.
LEMMA WorkSucceeds ==
  ASSUME SInv, Work
  PROVE  SInv'
<1>1. RInv'
  BY WorkShapes DEF SInv
<1>2. stage = "sent" /\ UNCHANGED << news, before >>
  BY DEF Work, intent
<1>3. CASE Execute(script) /\ script' = Tail(script) /\ UNCHANGED << outputs, stage, last >>
  <2>1. script \in Seq(Statements(news)) /\ script # << >>
    BY <1>3 DEF SInv, RInv, ShapesOK, Execute
  <2>2. ToSet(script) \ {Head(script)} \subseteq ToSet(Tail(script))
    BY <2>1, RestIs
  <2>3. ASSUME outputs = DescsOf(before), Feasible(news, before)
        PROVE  Progress(news, before, live', ToSet(Tail(script)))
    BY <1>2, <1>3, <2>1, <2>2, <2>3, StatementSucceeds
  <2>4. ProgressOK'
    BY <1>2, <1>3, <2>3 DEF ProgressOK
  <2> QED BY <1>1, <1>2, <1>3, <2>4 DEF SInv, BeforeOK, OpenOK
<1>4. CASE stage' = "idle"
  BY <1>1, <1>4 DEF SInv, BeforeOK, ProgressOK, OpenOK
<1> QED BY <1>3, <1>4 DEF Work, Reject, record

\* So does the other one.
LEMMA WorkOnSucceeds ==
  ASSUME SInv, WorkOn
  PROVE  SInv'
<1>1. RInv' /\ stage # "update"
  BY WorkOnShapes DEF SInv
<1>2. UNCHANGED << script, outputs, news, before, stage, last >>
  BY DEF WorkOn, record, intent
<1>3. CASE Execute(orphan)
  <2>1. orphan \in Seq(Statements(news))
    BY DEF SInv, RInv, ShapesOK
  <2>2. ASSUME stage = "sent", outputs = DescsOf(before), Feasible(news, before)
        PROVE  Progress(news, before, live', ToSet(script))
    BY <1>3, <2>1, <2>2, StatementSucceeds
  <2>3. ProgressOK'
    BY <1>2, <2>2 DEF ProgressOK
  <2> QED BY <1>1, <1>2, <2>3 DEF SInv, BeforeOK, OpenOK
<1>4. CASE live' = live
  BY <1>1, <1>2, <1>4 DEF SInv, BeforeOK, ProgressOK, OpenOK
<1> QED BY <1>3, <1>4 DEF WorkOn, Fails

\* The request is sent once more.
LEMMA ResendSucceeds ==
  ASSUME SInv, Resend
  PROVE  SInv'
<1>1. RInv'
  BY WaitShapes DEF SInv
<1>2. /\ stage = "sent" /\ script' = Script(outputs, news)
      /\ UNCHANGED << live, outputs, news, before, stage, last >>
  BY DEF Resend, record, intent
<1>3. ToSet(script) \subseteq ToSet(Script(outputs, news))
  BY <1>2 DEF SInv, RInv, StagesOK
<1>4. ASSUME outputs = DescsOf(before), Feasible(news, before)
      PROVE  Progress(news, before, live, ToSet(Script(outputs, news)))
  BY <1>2, <1>3, <1>4, ProgressMore DEF SInv, ProgressOK
<1>5. ProgressOK'
  BY <1>2, <1>4 DEF ProgressOK
<1> QED BY <1>1, <1>2, <1>5 DEF SInv, BeforeOK, OpenOK

\* The invariant, by induction over the steps.
LEMMA StepSucceeds ==
  ASSUME OneRoles, SInv, [Next]_vars
  PROVE  SInv'
<1>1. RInv'
  BY ShapesKeep DEF SInv
<1>2. CASE UNCHANGED vars
  BY <1>1, <1>2 DEF vars, service, record, intent, SInv, BeforeOK, ProgressOK, OpenOK
<1>3. ASSUME NEW p \in Programs, Create(p)
      PROVE  SInv'
  <2>1. stage' = "idle"
    BY <1>3 DEF Create, Record, Reject
  <2> QED BY <1>1, <2>1 DEF SInv, BeforeOK, ProgressOK, OpenOK
<1>4. ASSUME NEW p \in Programs, Preview(p)
      PROVE  SInv'
  <2>1. stage' # "sent" /\ before' = live /\ live' = live
    BY <1>4 DEF Preview, service
  <2>2. stage' = "update" => last' \in {"again", "none"}
    BY <1>4 DEF Preview
  <2> QED BY <1>1, <2>1, <2>2 DEF SInv, BeforeOK, ProgressOK, OpenOK
<1>5. CASE Answer \/ GiveUp \/ Outlive \/ Refresh \/ Delete
  <2>1. stage' = "idle"
    BY <1>5 DEF Answer, GiveUp, Outlive, Refresh, Delete, Record, Reject
  <2> QED BY <1>1, <2>1 DEF SInv, BeforeOK, ProgressOK, OpenOK
<1> QED BY <1>2, <1>3, <1>4, <1>5, UpdateSucceeds, WorkSucceeds, WorkOnSucceeds, ResendSucceeds
        DEF Next

\* SuccessIsApplied, for any columns, tables, programs in which every name has one
\* role, numbers of updates and faults: the handler that is told that its script has
\* ended, alone or while the same script runs a second time, reports a table that has
\* the columns and the data its program asks for (handlers.rs:254-349).
THEOREM SuccessIsAppliedHolds ==
  ASSUME OneRoles
  PROVE  Spec => SuccessIsApplied
<1>1. Init => SInv
  <2> SUFFICES ASSUME Init PROVE SInv
    OBVIOUS
  <2> QED BY ShapesStart DEF Init, SInv, BeforeOK, ProgressOK, OpenOK
<1>2. SInv /\ [Next]_vars => SInv'
  BY StepSucceeds
<1>3. SInv /\ [Next]_vars =>
        [stage = "sent" /\ script = << >> /\ last' = "ok"
           /\ outputs = DescsOf(before) /\ Feasible(news, before)
         => Applied(news, before, live')]_vars
  <2> SUFFICES ASSUME SInv, Next, stage = "sent", script = << >>, last' = "ok",
                      outputs = DescsOf(before), Feasible(news, before)
               PROVE  Applied(news, before, live')
    OBVIOUS
  <2>1. last # "ok"
    BY DEF SInv, OpenOK
  <2>2. live' = live
    BY <2>1 DEF Next, Create, Preview, Update, Work, WorkOn, Answer, GiveUp, Resend, Outlive,
           Refresh, Delete, Execute, Fails, Reject, service
  <2>3. ToSet(script) = {}
    BY DEF ToSet
  <2>4. Progress(news, before, live, {})
    BY <2>3 DEF SInv, ProgressOK
  <2> QED BY <2>2, <2>4, ProgressEnds DEF SInv, RInv, ShapesOK
<1> QED BY <1>1, <1>2, <1>3, PTL DEF Spec, SuccessIsApplied
-----------------------------------------------------------------------------
\* What can be recovered from a failure.

\* A statement that finds its column can be executed.
LEMMA StatementPossible ==
  ASSUME NEW p \in Seq(Fields), OneRole(p), NEW q \in Statements(p), NEW t, Table(t),
         Feasible(p, t), q.op = "rename" => q.from \in DOMAIN t
  PROVE  Possible(q, t)
<1>1. CASE q.op = "drop" /\ q.names \in SUBSET Deleted(p)
  <2>1. ASSUME DOMAIN t \subseteq q.names
        PROVE  t = << >>
    <3>1. DOMAIN t = {}
      BY <1>1, <2>1 DEF Feasible
    <3>2. t = [n \in {} |-> t[n]]
      BY <3>1 DEF Table
    <3> QED BY <3>2
  <2> QED BY <1>1, <2>1 DEF Possible
<1>2. CASE q.op = "rename" /\ \E f \in Of(p, "rename") : q.from = f.from /\ q.to = f.name
  <2>1. PICK f \in Of(p, "rename") : q.from = f.from /\ q.to = f.name
    BY <1>2
  <2>2. (f.from \in DOMAIN t) # (f.name \in DOMAIN t)
    BY DEF Feasible, Of
  <2>3. q.from \in DOMAIN t /\ q.to \notin DOMAIN t
    BY <1>2, <2>1, <2>2
  <2> QED BY <1>2, <2>3 DEF Possible
<1>3. CASE q.op = "add"
  BY <1>3 DEF Possible
<1>4. CASE q.op = "describe" /\ \E f \in Of(p, "none") : q.name = f.name
  <2>1. q.name \in DOMAIN t
    BY <1>4 DEF Feasible, Of
  <2> QED BY <1>4, <2>1 DEF Possible
<1> QED BY <1>1, <1>2, <1>3, <1>4, StatementIs

\* A statement leaves a column that another one renames.
LEMMA SourceStays ==
  ASSUME NEW p \in Seq(Fields), OneRole(p), NEW q \in Statements(p), NEW t, NEW u, After(q, t, u),
         NEW n \in Sources(p), n \in DOMAIN t, q.op = "rename" => q.from # n
  PROVE  n \in DOMAIN u
<1>1. n \notin Deleted(p)
  BY NamesApart
<1> QED BY <1>1, StatementIs DEF After

\* The script of a program that can be carried out is executed to its end, and then the
\* program is applied.
LEMMA ScriptApplies ==
  ASSUME NEW p \in Seq(Fields), OneRole(p), NEW t, Table(t), Feasible(p, t), NEW fresh
  PROVE  LET r == RunFrom(fresh, Script(DescsOf(t), p), t) IN r.done /\ Applied(p, t, r.t)
<1> DEFINE old == DescsOf(t)
           s == Script(old, p)
           n == Len(s)
           base == [done |-> TRUE, t |-> t]
           Left(k) == { s[i] : i \in { j \in 1..n : j > k } }
           Fine(r, k) ==
             /\ r.done /\ Table(r.t) /\ Progress(p, t, r.t, Left(k))
             /\ \A i \in 1..n : i > k /\ s[i].op = "rename" => s[i].from \in DOMAIN r.t
<1>1. s \in Seq(Statements(p)) /\ RenamesOnce(s)
  BY ScriptIs
<1>2. \A q \in ToSet(s) : q.op = "rename" => q.from \in DOMAIN t
  <2>1. \A q \in ToSet(s) : q.op = "rename" => \E f \in ToRename(old, p) : q = Rename(f.from, f.name)
    <3> HIDE DEF old
    <3> QED BY ScriptIs DEF Drop, Add, Describe
  <2>2. \A f \in ToRename(old, p) : f.from \in DOMAIN t
    BY DEF ToRename, DescsOf
  <2> QED BY <2>1, <2>2 DEF Rename
<1>3. Progress(p, t, t, ToSet(s))
  BY ProgressStarts
<1> HIDE DEF s, old
<1>4. /\ n \in Nat /\ DOMAIN s = 1..n
      /\ \A i \in 1..n : s[i] \in Statements(p) /\ s[i] \in ToSet(s)
  BY <1>1 DEF ToSet
<1>5. ToSet(s) = { s[i] : i \in 1..n }
  BY <1>4 DEF ToSet
<1> HIDE DEF n, base
<1>6. ASSUME NEW k \in Nat, k + 1 \in 1..n, NEW r, Fine(r, k)
      PROVE  Fine(RunOne(fresh, r, s[k + 1]), k + 1)
  <2> DEFINE q == s[k + 1]
             u == r.t
             v == Effect(q, u, fresh)
             pending == Left(k)
  <2>1. q \in Statements(p)
    BY <1>4, <1>6
  <2>2. Table(u) /\ Progress(p, t, u, pending) /\ (q.op = "rename" => q.from \in DOMAIN u)
    BY <1>4, <1>6
  <2>3. pending \ {q} \subseteq Left(k + 1)
    BY <1>4, <1>6
  <2>4. \A i \in 1..n : i > k + 1 /\ s[i].op = "rename" =>
          s[i].from \in DOMAIN u /\ (q.op = "rename" => q.from # s[i].from)
    BY <1>1, <1>4, <1>6 DEF RenamesOnce
  <2>5. \A i \in 1..n : s[i].op = "rename" => s[i].from \in Sources(p)
    BY <1>4, StatementIs, FieldsAre
  <2>6. r.done
    BY <1>6
  <2>7. RunOne(fresh, r, q) = IF Possible(q, u) THEN [done |-> TRUE, t |-> v] ELSE [done |-> FALSE, t |-> u]
    BY <2>6 DEF RunOne
  <2> DEFINE left == Left(k + 1)
  <2> HIDE DEF q, u, pending, left
  <2>8. Possible(q, u)
    <3>1. Feasible(p, u)
      BY <2>2, FeasibleStays DEF Progress
    <3> QED BY <2>1, <2>2, <3>1, StatementPossible
  <2>9. Table(v) /\ After(q, u, v)
    BY <2>1, <2>2, <2>8, EffectIs, ColumnsAre
  <2>10. Progress(p, t, v, pending \ {q})
    BY <2>1, <2>2, <2>8, ProgressStays
  <2> HIDE DEF v
  <2>11. Progress(p, t, v, left)
    BY <2>3, <2>10, ProgressMore DEF left
  <2>12. \A i \in 1..n : i > k + 1 /\ s[i].op = "rename" => s[i].from \in DOMAIN v
    BY <2>1, <2>4, <2>5, <2>9, SourceStays
  <2>13. RunOne(fresh, r, q) = [done |-> TRUE, t |-> v]
    BY <2>7, <2>8
  <2> QED BY <2>9, <2>11, <2>12, <2>13 DEF q, left
<1>7. PICK g : RunFrom(fresh, s, t) = g[n] /\ Running!Walks(g, fresh, base, s, n)
  BY <1>4, Running!FoldWalk DEF RunFrom, base
<1>8. Fine(base, 0)
  <2>1. { j \in 1..n : j > 0 } = 1..n
    BY <1>4
  <2>2. Left(0) = ToSet(s)
    BY <1>5, <2>1
  <2>3. base.done /\ base.t = t
    BY DEF base
  <2> QED BY <1>2, <1>3, <1>4, <2>2, <2>3
<1>9. ASSUME NEW r, Fine(r, n)
      PROVE  r.done /\ Applied(p, t, r.t)
  <2>1. { j \in 1..n : j > n } = {}
    BY <1>4
  <2>2. Left(n) = {}
    BY <2>1
  <2>3. Progress(p, t, r.t, {})
    BY <1>9, <2>2
  <2> QED BY <1>9, <2>3, ProgressEnds
<1> HIDE DEF Fine
<1> DEFINE S == { k \in Nat : k <= n => Fine(g[k], k) }
<1>10. 0 \in S
  BY <1>7, <1>8 DEF Running!Walks
<1>11. ASSUME NEW k \in S
       PROVE  k + 1 \in S
  <2>1. SUFFICES ASSUME k + 1 <= n PROVE Fine(g[k + 1], k + 1)
    OBVIOUS
  <2>2. k \in Nat /\ k + 1 \in 1..n /\ (k + 1) - 1 = k /\ Fine(g[k], k)
    BY <1>4, <2>1
  <2>3. g[k + 1] = RunOne(fresh, g[k], s[k + 1])
    BY <1>7, <2>2 DEF Running!Walks
  <2> QED BY <1>6, <2>2, <2>3
<1>12. n \in S
  <2> HIDE DEF S
  <2>1. S \in SUBSET Nat
    BY DEF S
  <2> QED BY <1>4, <1>10, <1>11, <2>1, Running!SetInduction
<1> QED BY <1>4, <1>7, <1>9, <1>12 DEF s, old

\* A program has been begun and has not succeeded.
Begun == stage \in {"update", "sent"} \/ (last = "failed" /\ created)

\* It has done some of its work on the table it was previewed on.
PartialOK == Begun /\ Feasible(news, before) => Partial(news, before, live)

\* It has been checked.
CheckedOK == Begun => news # << >> /\ Safe(Deleted(news))

\* A resource that exists, or is updated, has columns.
MadeOK == created \/ stage \in {"update", "sent"} => DOMAIN live # {}

PInv == RInv /\ BeforeOK /\ PartialOK /\ CheckedOK /\ MadeOK

\* A statement takes effect, of one script or the other.
LEMMA StatementRecovers ==
  ASSUME PInv, NEW q \in Seq(Statements(news)), Execute(q)
  PROVE  /\ Begun /\ Feasible(news, before) => Partial(news, before, live')
         /\ DOMAIN live # {} => DOMAIN live' # {}
<1>1. ShapesOK
  BY DEF PInv, RInv
<1>2. live' = Effect(Head(q), live, born) /\ Possible(Head(q), live) /\ q # << >>
  BY <1>1, ExecuteIs
<1>3. Head(q) \in Statements(news)
  BY <1>2, RestIs
<1>4. ASSUME Begun, Feasible(news, before)
      PROVE  Partial(news, before, live')
  <2>1. Partial(news, before, live)
    BY <1>4 DEF PInv, PartialOK
  <2> QED BY <1>1, <1>2, <1>3, <1>4, <2>1, PartialStays DEF ShapesOK
<1>5. ASSUME DOMAIN live # {}
      PROVE  DOMAIN live' # {}
  <2>1. After(Head(q), live, live')
    BY <1>1, <1>2, <1>3, ColumnsAre DEF ShapesOK
  <2> DEFINE r == Head(q)
  <2>2. r \in Statements(news) /\ Possible(r, live) /\ After(r, live, live')
    BY <1>2, <1>3, <2>1
  <2> HIDE DEF r
  <2>3. CASE r.op = "drop"
    <3>1. live # << >>
      BY <1>5
    <3>2. ~(DOMAIN live \subseteq r.names)
      BY <2>2, <2>3, <3>1 DEF Possible
    <3> QED BY <2>2, <2>3, <3>2 DEF After
  <2>4. CASE r.op \in {"rename", "add", "describe"}
    BY <1>5, <2>2, <2>4 DEF After
  <2> QED BY <2>2, <2>3, <2>4, StatementIs
<1> QED BY <1>4, <1>5

\* Scripts go on, or are over.
LEMMA WorkRecovers ==
  ASSUME PInv, Work \/ WorkOn
  PROVE  PInv'
<1>1. RInv' /\ stage # "update" /\ stage' # "update"
  BY WorkShapes, WorkOnShapes DEF PInv, Work, WorkOn, Reject
<1>2. UNCHANGED << news, before, created >>
  BY DEF Work, WorkOn, intent, record, Reject
<1>3. /\ Begun' => Begun
      /\ stage' \in {"update", "sent"} => stage \in {"update", "sent"}
  BY <1>2 DEF Work, WorkOn, Reject, Begun
<1>4. CASE \E q \in {script, orphan} : Execute(q)
  <2>1. PICK q \in {script, orphan} : Execute(q)
    BY <1>4
  <2>2. q \in Seq(Statements(news))
    BY DEF PInv, RInv, ShapesOK
  <2>3. /\ Begun /\ Feasible(news, before) => Partial(news, before, live')
        /\ DOMAIN live # {} => DOMAIN live' # {}
    BY <2>1, <2>2, StatementRecovers
  <2>4. PartialOK' /\ CheckedOK' /\ MadeOK'
    BY <1>2, <1>3, <2>3 DEF PInv, PartialOK, CheckedOK, MadeOK
  <2> QED BY <1>1, <2>4 DEF PInv, BeforeOK
<1>5. CASE live' = live
  <2>1. PartialOK' /\ CheckedOK' /\ MadeOK'
    BY <1>2, <1>3, <1>5 DEF PInv, PartialOK, CheckedOK, MadeOK
  <2> QED BY <1>1, <2>1 DEF PInv, BeforeOK
<1> QED BY <1>4, <1>5 DEF Work, WorkOn, Fails

\* Creating a table gives it the columns of the program.
LEMMA CreateRecovers ==
  ASSUME OneRoles, PInv, NEW p \in Programs, Create(p)
  PROVE  PInv'
<1>1. RInv'
  BY CreateShapes DEF PInv
<1>2. /\ stage' = "idle" /\ (last' = "failed" => ~created') /\ Check(p, << >>)
      /\ DOMAIN live' = DOMAIN Clean(p)
  BY DEF Create, Record, Reject, record, Patch
<1>3. DOMAIN Clean(p) # {}
  <2>1. p \in Seq(Fields) /\ p # << >> /\ \A f \in ToSet(p) : f.alter \in {"none", "insert"}
    BY <1>2, ProgramsAre DEF Check, Valid
  <2>2. p[1] \in ToSet(p)
    <3>1. 1 \in DOMAIN p
      BY <2>1
    <3> QED BY <3>1 DEF ToSet
  <2>3. p[1] \in Declared(p)
    BY <2>1, <2>2 DEF Declared
  <2>4. DOMAIN Clean(p) = NamesOf(Declared(p))
    BY DEF Clean
  <2> QED BY <2>3, <2>4 DEF NamesOf
<1> QED BY <1>1, <1>2, <1>3 DEF PInv, BeforeOK, PartialOK, CheckedOK, MadeOK, Begun

\* A preview is of a program that is checked.
LEMMA PreviewRecovers ==
  ASSUME OneRoles, PInv, NEW p \in Programs, Preview(p)
  PROVE  PInv'
<1>1. RInv'
  BY PreviewShapes DEF PInv
<1>2. /\ stage = "idle" /\ created /\ news' = p /\ before' = live /\ UNCHANGED << live, created >>
      /\ p # << >> /\ Safe(Deleted(p))
      /\ stage' = "update" \/ (stage' = stage /\ last' = "same")
  BY DEF Preview, service, Check, Valid
<1>3. PartialOK'
  BY <1>2, PartialStarts DEF PartialOK
<1> QED BY <1>1, <1>2, <1>3 DEF PInv, BeforeOK, CheckedOK, MadeOK, Begun

\* The invariant, by induction over the steps.
LEMMA StepRecovers ==
  ASSUME OneRoles, PInv, [Next]_vars
  PROVE  PInv'
<1>1. RInv'
  BY ShapesKeep DEF PInv
<1>2. CASE UNCHANGED vars
  BY <1>1, <1>2 DEF vars, service, record, intent, PInv, BeforeOK, PartialOK, CheckedOK, MadeOK, Begun
<1>3. CASE Update
  <2>1. stage = "update" /\ stage' # "update" /\ UNCHANGED << live, news, before >>
    BY <1>3 DEF Update, Record, Reject
  <2>2. Begun /\ DOMAIN live # {}
    BY <2>1 DEF Begun, PInv, MadeOK
  <2> QED BY <1>1, <2>1, <2>2 DEF PInv, BeforeOK, PartialOK, CheckedOK, MadeOK
<1>4. CASE Answer \/ GiveUp \/ Resend \/ Outlive
  <2>1. stage = "sent" /\ stage' # "update" /\ UNCHANGED << live, news, before >>
    BY <1>4 DEF Answer, GiveUp, Resend, Outlive, Record, Reject, intent, service
  <2>2. Begun /\ DOMAIN live # {}
    BY <2>1 DEF Begun, PInv, MadeOK
  <2> QED BY <1>1, <2>1, <2>2 DEF PInv, BeforeOK, PartialOK, CheckedOK, MadeOK
<1>5. CASE Refresh \/ Delete
  <2>1. stage' = "idle" /\ last' = "none" /\ live' = live /\ (created' => created)
    BY <1>5 DEF Refresh, Delete, service
  <2> QED BY <1>1, <2>1 DEF PInv, BeforeOK, PartialOK, CheckedOK, MadeOK, Begun
<1> QED BY <1>2, <1>3, <1>4, <1>5, CreateRecovers, PreviewRecovers, WorkRecovers DEF Next

\* Recoverable, for any columns, tables, programs in which every name has one role,
\* numbers of updates and faults: whatever part of a failed update's statements took
\* effect, in one script or two, the table is one on which the same program passes its
\* check and whose script runs to its end, with the columns and the data the program
\* asked of the table it found first (handlers.rs:189-229, validate.rs:54-81,
\* diff.rs:34-87).
THEOREM RecoverableHolds ==
  ASSUME OneRoles
  PROVE  Spec => []Recoverable
<1>1. Init => PInv
  <2> SUFFICES ASSUME Init PROVE PInv
    OBVIOUS
  <2> QED BY ShapesStart DEF Init, PInv, BeforeOK, PartialOK, CheckedOK, MadeOK, Begun
<1>2. PInv /\ [Next]_vars => PInv'
  BY StepRecovers
<1>3. PInv => Recoverable
  <2> SUFFICES ASSUME PInv, stage = "idle", last = "failed", created, Feasible(news, before)
               PROVE  LET result == Run(Script(DescsOf(live), news), live) IN
                      /\ Check(news, DescsOf(live))
                      /\ result.done /\ Applied(news, before, result.t)
    BY DEF Recoverable
  <2>1. /\ news \in Seq(Fields) /\ OneRole(news) /\ Table(live) /\ Partial(news, before, live)
        /\ news # << >> /\ Safe(Deleted(news)) /\ DOMAIN live # {}
    BY DEF PInv, RInv, ShapesOK, PartialOK, CheckedOK, MadeOK, Begun
  <2>2. Feasible(news, live)
    BY <2>1, FeasibleStays
  <2>3. Valid(news, DescsOf(live))
    <3> DEFINE olds == DescsOf(live)
    <3>1. DOMAIN olds = DOMAIN live
      BY DEF DescsOf
    <3> HIDE DEF olds
    <3>2. olds # << >>
      BY <2>1, <3>1
    <3>3. \A f \in ToSet(news) : f.alter = "none" => f.name \in DOMAIN olds
      BY <2>2, <3>1 DEF Feasible
    <3>4. \A i, j \in DOMAIN news :
            news[i].alter # "delete" /\ news[j].alter # "delete" /\ news[i].name = news[j].name => i = j
      BY <2>1 DEF OneRole
    <3> QED BY <2>1, <3>2, <3>3, <3>4 DEF Valid, olds
  <2> DEFINE result == RunFrom(born, Script(DescsOf(live), news), live)
  <2>4. result.done /\ Applied(news, live, result.t)
    BY <2>1, <2>2, ScriptApplies
  <2>5. Run(Script(DescsOf(live), news), live) = result
    BY RunIs
  <2> HIDE DEF result
  <2>6. Applied(news, before, result.t)
    BY <2>1, <2>4, AppliedOnward
  <2> QED BY <2>1, <2>3, <2>4, <2>5, <2>6 DEF Check
<1> QED BY <1>1, <1>2, <1>3, PTL DEF Spec
=============================================================================
