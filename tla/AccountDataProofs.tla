------------------------- MODULE AccountDataProofs -------------------------
(***************************************************************************)
(* Fields keep their place over every history of creations, stores,        *)
(* closings, upgrades and rollbacks, for any number of accounts and any    *)
(* values.  First the layouts, which are tables: that every release and    *)
(* every client struct carries the fields where the newest release has     *)
(* them (LayoutsHold).  Then what follows for data that outlives releases. *)
(***************************************************************************)
EXTENDS AccountData, SequenceTheorems, WellFoundedInduction, TLAPS

-----------------------------------------------------------------------------
(* Where fields start *)

\* A set of numbers has a least one: what inductions below are made of.
LEMMA Least ==
    ASSUME NEW S \in SUBSET Nat, S # {}
    PROVE  \E n \in S : \A m \in S : n <= m
<1> DEFINE R == OpToRel(<, Nat)
<1>1. \E x \in S : \A y \in S : ~(<<y, x>> \in R)
  BY NatLessThanWellFounded, WFMin
<1>2. \A x, y \in Nat : y < x => <<y, x>> \in R
  BY DEF OpToRel
<1> HIDE DEF R
<1>3. PICK x \in S : \A y \in S : ~(<<y, x>> \in R)
  BY <1>1
<1>4. \A y \in S : ~(y < x)
  BY <1>2, <1>3
<1> QED BY <1>4

\* f adds up the widths of the first n fields of w.
Adds(f, n, w) ==
    f = [i \in 1..(n + 1) |-> IF i = 1 THEN DiscriminatorLen ELSE f[i - 1] + w[i - 1].width]

LEMMA AddsExists ==
    ASSUME NEW w, NEW n \in Nat
    PROVE  \E f : Adds(f, n, w)
<1> DEFINE S == {m \in Nat : ~\E f : Adds(f, m, w)}
<1> SUFFICES ASSUME S # {} PROVE FALSE
  OBVIOUS
<1>1. PICK m \in S : \A j \in S : m <= j
  BY Least
<1>2. CASE m = 0
  <2>1. Adds([i \in 1..1 |-> DiscriminatorLen], 0, w)
    BY DEF Adds
  <2> QED BY <1>2, <2>1
<1>3. CASE m # 0
  <2>1. m - 1 \in Nat /\ m - 1 \notin S
    BY <1>1, <1>3
  <2>2. PICK f : Adds(f, m - 1, w)
    BY <2>1
  <2> DEFINE g == [i \in 1..(m + 1) |-> IF i <= m THEN f[i] ELSE f[m] + w[m].width]
  <2>3. DOMAIN f = 1..m /\ \A i \in 1..m :
            f[i] = IF i = 1 THEN DiscriminatorLen ELSE f[i - 1] + w[i - 1].width
    BY <1>1, <2>2 DEF Adds
  <2>4. \A i \in 1..(m + 1) :
            g[i] = IF i = 1 THEN DiscriminatorLen ELSE g[i - 1] + w[i - 1].width
    BY <1>1, <1>3, <2>3
  <2>5. Adds(g, m, w)
    BY <2>4 DEF Adds
  <2> QED BY <1>1, <2>5
<1> QED BY <1>2, <1>3

LEMMA StartsAdd ==
    ASSUME NEW layout, Len(layout) \in Nat
    PROVE  \A i \in 1..(Len(layout) + 1) :
               Starts(layout)[i] = IF i = 1 THEN DiscriminatorLen
                                   ELSE Starts(layout)[i - 1] + layout[i - 1].width
<1>1. Adds(Starts(layout), Len(layout), layout)
  BY AddsExists DEF Starts, Adds
<1> QED BY <1>1 DEF Adds

\* A table of fields that each have a name of their own and at least one byte.
Sound(layout) ==
    /\ Len(layout) \in Nat /\ DOMAIN layout = 1..Len(layout)
    /\ \A i \in 1..Len(layout) : layout[i].width \in Nat \ {0}
    /\ \A i, j \in 1..Len(layout) : layout[i].name = layout[j].name => i = j

\* A field ends before the next one starts.
LEMMA InOrder ==
    ASSUME NEW layout, Sound(layout)
    PROVE  LET at == Starts(layout)
           IN  /\ \A i \in 1..(Len(layout) + 1) : at[i] \in Nat
               /\ \A i, j \in 1..(Len(layout) + 1) :
                      i < j => at[i] + layout[i].width <= at[j]
<1> DEFINE at == Starts(layout)
           n == Len(layout)
<1>1. \A i \in 1..(n + 1) : at[i] = IF i = 1 THEN 8 ELSE at[i - 1] + layout[i - 1].width
  BY StartsAdd DEF DiscriminatorLen, Sound
<1>0. n \in Nat /\ \A i \in 1..n : layout[i].width \in Nat
  BY DEF Sound
<1> HIDE DEF at, n
<1> DEFINE Good(k) == /\ at[k] \in Nat
                      /\ \A i \in 1..(n + 1) : i < k => at[i] + layout[i].width <= at[k]
           S == {k \in 1..(n + 1) : ~Good(k)}
<1>2. S = {}
  <2> SUFFICES ASSUME S # {} PROVE FALSE
    OBVIOUS
  <2>1. PICK k \in S : \A j \in S : k <= j
    <3>1. S \in SUBSET Nat
      BY <1>0
    <3> QED BY <3>1, Least
  <2>2. CASE k = 1
    <3>1. Good(1)
      BY <1>0, <1>1
    <3> QED BY <2>1, <2>2, <3>1
  <2>3. CASE k # 1
    <3>1. k - 1 \in 1..n /\ k - 1 \notin S /\ k \in 1..(n + 1)
      BY <1>0, <2>1, <2>3
    <3>2. Good(k - 1)
      BY <1>0, <3>1
    <3>3. at[k] = at[k - 1] + layout[k - 1].width /\ layout[k - 1].width \in Nat
      BY <1>0, <1>1, <2>3, <3>1
    <3>4. ASSUME NEW i \in 1..(n + 1), i < k
          PROVE  at[i] + layout[i].width <= at[k]
      <4>1. CASE i = k - 1
        BY <3>2, <3>3, <4>1
      <4>2. CASE i # k - 1
        <5>1. i \in 1..n /\ i < k - 1 /\ i \notin S
          BY <1>0, <2>1, <3>1, <3>4, <4>2
        <5>2. at[i] \in Nat /\ layout[i].width \in Nat
          BY <1>0, <5>1
        <5>3. at[i] + layout[i].width <= at[k - 1]
          BY <3>1, <3>2, <3>4, <5>1
        <5> QED BY <3>2, <3>3, <5>2, <5>3
      <4> QED BY <4>1, <4>2
    <3>5. Good(k)
      BY <3>2, <3>3, <3>4
    <3> QED BY <2>1, <3>5
  <2> QED BY <2>2, <2>3
<1> QED BY <1>2 DEF at, n

\* A field starts where all before it end.
LEMMA Placed ==
    ASSUME NEW layout, Sound(layout), NEW i \in 1..Len(layout)
    PROVE  /\ Place(layout, layout[i].name) = i
           /\ At(layout, layout[i].name) = Starts(layout)[i]
           /\ Room(layout, layout[i].name) = layout[i].width
<1>1. Place(layout, layout[i].name) = i
  BY DEF Sound, Place
<1> QED BY <1>1 DEF At, Room

\* Distinct fields share no byte.
LEMMA Apart ==
    ASSUME NEW layout, Sound(layout), NEW m \in Names(layout), NEW n \in Names(layout)
    PROVE  /\ At(layout, m) \in Nat /\ Room(layout, m) \in Nat \ {0}
           /\ Overlap(At(layout, m), Room(layout, m), At(layout, n), Room(layout, n)) => m = n
<1>1. PICK i, j \in 1..Len(layout) : layout[i].name = m /\ layout[j].name = n
  BY DEF Sound, Names
<1>2. /\ At(layout, m) = Starts(layout)[i] /\ Room(layout, m) = layout[i].width
      /\ At(layout, n) = Starts(layout)[j] /\ Room(layout, n) = layout[j].width
  BY <1>1, Placed
<1>3. /\ Starts(layout)[i] \in Nat /\ layout[i].width \in Nat \ {0}
      /\ Starts(layout)[j] \in Nat /\ layout[j].width \in Nat \ {0}
      /\ i < j => Starts(layout)[i] + layout[i].width <= Starts(layout)[j]
      /\ j < i => Starts(layout)[j] + layout[j].width <= Starts(layout)[i]
  <2>1. i \in 1..(Len(layout) + 1) /\ j \in 1..(Len(layout) + 1)
    BY DEF Sound
  <2>2. layout[i].width \in Nat \ {0} /\ layout[j].width \in Nat \ {0}
    BY DEF Sound
  <2>3. Starts(layout)[i] \in Nat /\ Starts(layout)[j] \in Nat
    BY <2>1, InOrder
  <2>4. /\ i < j => Starts(layout)[i] + layout[i].width <= Starts(layout)[j]
        /\ j < i => Starts(layout)[j] + layout[j].width <= Starts(layout)[i]
    BY <2>1, InOrder
  <2> QED BY <2>2, <2>3, <2>4
<1>4. i < j \/ j < i \/ i = j
  BY DEF Sound
<1> HIDE DEF Overlap
<1>5. CASE i = j
  BY <1>1, <1>2, <1>3, <1>5
<1>6. CASE i # j
  <2>1. ~Overlap(Starts(layout)[i], layout[i].width, Starts(layout)[j], layout[j].width)
    BY <1>3, <1>4, <1>6 DEF Overlap
  <2> QED BY <1>2, <1>3, <2>1
<1> QED BY <1>5, <1>6

\* Layouts that begin alike have the fields they share in the same places.
LEMMA SameStarts ==
    ASSUME NEW a, NEW b, Len(a) \in Nat, Len(b) \in Nat,
           NEW k \in Nat, k <= Len(a), k <= Len(b), \A i \in 1..k : a[i] = b[i]
    PROVE  \A i \in 1..(k + 1) : Starts(a)[i] = Starts(b)[i]
<1> DEFINE S == {i \in 1..(k + 1) : Starts(a)[i] # Starts(b)[i]}
<1> SUFFICES ASSUME S # {} PROVE FALSE
  OBVIOUS
<1>1. PICK m \in S : \A j \in S : m <= j
  <2>1. S \in SUBSET Nat
    OBVIOUS
  <2> QED BY <2>1, Least
<1>2. m \in 1..(Len(a) + 1) /\ m \in 1..(Len(b) + 1)
  BY <1>1
<1>3. CASE m = 1
  BY <1>1, <1>2, <1>3, StartsAdd
<1>4. CASE m # 1
  <2>1. m - 1 \in 1..k /\ m - 1 \notin S
    BY <1>1, <1>4
  <2>2. Starts(a)[m - 1] = Starts(b)[m - 1] /\ a[m - 1] = b[m - 1]
    BY <2>1
  <2>3. Starts(a)[m] = Starts(a)[m - 1] + a[m - 1].width
    BY <1>2, <1>4, StartsAdd
  <2>4. Starts(b)[m] = Starts(b)[m - 1] + b[m - 1].width
    BY <1>2, <1>4, StartsAdd
  <2> QED BY <1>1, <2>2, <2>3, <2>4
<1> QED BY <1>3, <1>4

-----------------------------------------------------------------------------
(* The releases of VaultState *)

\* The first release's fields have names of their own.
LEMMA BaseFields ==
    LET b == P!VaultStateBase
    IN  /\ Len(b) = 13 /\ DOMAIN b = 1..13
        /\ \A i, j \in 1..13 : b[i].name = b[j].name => i = j
        /\ \A i \in 1..13 : b[i].name # "padding" /\ b[i].width \in Nat \ {0}
<1>1. \A i, j \in 1..13 : P!VaultStateBase[i].name = P!VaultStateBase[j].name => i = j
  BY SMTT(60) DEF P!VaultStateBase, P!Key, P!U64, P!U32, P!U8, P!Field
<1>2. \A i \in 1..13 : P!VaultStateBase[i].name # "padding"
  BY SMTT(60) DEF P!VaultStateBase, P!Key, P!U64, P!U32, P!U8, P!Field
<1>3. \A i \in 1..13 : P!VaultStateBase[i].width \in Nat \ {0}
  BY SMTT(60) DEF P!VaultStateBase, P!Key, P!U64, P!U32, P!U8, P!Field
<1>4. Len(P!VaultStateBase) = 13 /\ DOMAIN P!VaultStateBase = 1..13
  BY DEF P!VaultStateBase
<1> QED BY <1>1, <1>2, <1>3, <1>4

\* So have the carved ones, apart from each other and from those.
LEMMA CarvedFields ==
    LET c == P!Carved
    IN  /\ Len(c) = 4 /\ DOMAIN c = 1..4
        /\ \A i, j \in 1..4 : c[i].name = c[j].name => i = j
        /\ \A i \in 1..4 : c[i].name # "padding" /\ c[i].width \in Nat \ {0}
        /\ \A i \in 1..13, j \in 1..4 : P!VaultStateBase[i].name # c[j].name
<1>1. \A i, j \in 1..4 : P!Carved[i].name = P!Carved[j].name => i = j
  BY SMTT(60) DEF P!Carved, P!Key, P!U64, P!Field
<1>2. \A i \in 1..4 : P!Carved[i].name # "padding" /\ P!Carved[i].width \in Nat \ {0}
  BY SMTT(60) DEF P!Carved, P!Key, P!U64, P!Field
<1>3. \A i \in 1..13, j \in 1..4 : P!VaultStateBase[i].name # P!Carved[j].name
  BY SMTT(60) DEF P!VaultStateBase, P!Carved, P!Key, P!U64, P!U32, P!U8, P!Field
<1>4. Len(P!Carved) = 4 /\ DOMAIN P!Carved = 1..4
  BY DEF P!Carved
<1> QED BY <1>1, <1>2, <1>3, <1>4

\* The members of a concatenation.
LEMMA Joined ==
    ASSUME NEW S, NEW s \in Seq(S), NEW t \in Seq(S)
    PROVE  /\ s \o t \in Seq(S)
           /\ Len(s \o t) = Len(s) + Len(t) /\ DOMAIN (s \o t) = 1..(Len(s) + Len(t))
           /\ \A i \in 1..Len(s) : (s \o t)[i] = s[i]
           /\ \A i \in 1..Len(t) : (s \o t)[Len(s) + i] = t[i]
<1> DEFINE u == s \o t
<1>1. /\ u \in Seq(S) /\ Len(u) = Len(s) + Len(t)
      /\ \A i \in 1..(Len(s) + Len(t)) :
             u[i] = IF i <= Len(s) THEN s[i] ELSE t[i - Len(s)]
  BY ConcatProperties
<1>2. Len(s) \in Nat /\ Len(t) \in Nat /\ DOMAIN u = 1..Len(u)
  BY <1>1, LenProperties
<1> HIDE DEF u
<1>3. \A i \in 1..Len(s) : u[i] = s[i]
  BY <1>1, <1>2
<1>4. \A i \in 1..Len(t) : u[Len(s) + i] = t[i]
  <2> TAKE i \in 1..Len(t)
  <2>1. Len(s) + i \in 1..(Len(s) + Len(t)) /\ ~(Len(s) + i <= Len(s)) /\ Len(s) + i - Len(s) = i
    BY <1>2
  <2> QED BY <1>1, <2>1
<1> QED BY <1>1, <1>2, <1>3, <1>4 DEF u

\* Three in a row, the last of them a single one.
LEMMA Joined3 ==
    ASSUME NEW D, NEW b \in Seq(D), NEW c \in Seq(D), NEW p \in Seq(D),
           Len(p) = 1
    PROVE  /\ Len((b \o c) \o p) = Len(b) + 1 + Len(c)
           /\ DOMAIN ((b \o c) \o p) = 1..(Len(b) + 1 + Len(c))
           /\ \A i \in 1..Len(b) : ((b \o c) \o p)[i] = b[i]
           /\ \A i \in 1..Len(c) : ((b \o c) \o p)[Len(b) + i] = c[i]
           /\ ((b \o c) \o p)[Len(b) + 1 + Len(c)] = p[1]
<1> DEFINE d == b \o c
           l == d \o p
<1>0. Len(b) \in Nat /\ Len(c) \in Nat
  BY LenProperties
<1>1. d \in Seq(D)
  BY Joined
<1>2. Len(d) = Len(b) + Len(c)
  BY Joined
<1>3. \A i \in 1..Len(b) : d[i] = b[i]
  BY Joined
<1>4. \A i \in 1..Len(c) : d[Len(b) + i] = c[i]
  BY Joined
<1> HIDE DEF d
<1>5. Len(l) = Len(d) + Len(p)
  BY <1>1, Joined
<1>6. DOMAIN l = 1..(Len(d) + Len(p))
  BY <1>1, Joined
<1>7. \A i \in 1..Len(d) : l[i] = d[i]
  BY <1>1, Joined
<1>8. \A i \in 1..(Len(d) + Len(p)) : l[i] = IF i <= Len(d) THEN d[i] ELSE p[i - Len(d)]
  BY <1>1, ConcatProperties
<1> HIDE DEF l
<1>9. \A i \in 1..Len(b) : l[i] = b[i]
  BY <1>0, <1>2, <1>3, <1>7
<1>10. \A i \in 1..Len(c) : l[Len(b) + i] = c[i]
  <2> TAKE i \in 1..Len(c)
  <2>1. Len(b) + i \in 1..Len(d)
    BY <1>0, <1>2
  <2> QED BY <1>0, <1>4, <1>7, <2>1
<1>11. l[Len(b) + 1 + Len(c)] = p[1]
  <2>1. /\ Len(b) + 1 + Len(c) \in 1..(Len(d) + Len(p)) /\ ~(Len(b) + 1 + Len(c) <= Len(d))
        /\ Len(b) + 1 + Len(c) - Len(d) = 1
    BY <1>0, <1>2
  <2> QED BY <1>8, <2>1
<1>12. Len(l) = Len(b) + 1 + Len(c) /\ DOMAIN l = 1..(Len(b) + 1 + Len(c))
  BY <1>0, <1>2, <1>5, <1>6
<1> QED BY <1>9, <1>10, <1>11, <1>12 DEF l, d

\* Every release leaves some padding.
LEMMA PaddingFits == \A r \in 0..4 : P!PaddingWords[r + 1] \in Nat \ {0}
  BY DEF P!PaddingWords

\* Release r: the base, r carved fields, and what is left of the padding.
LEMMA VaultStateFields ==
    ASSUME NEW r \in Releases
    PROVE  LET l == P!VaultState(r)
           IN  /\ Len(l) = 14 + r /\ DOMAIN l = 1..(14 + r)
               /\ l = [i \in 1..(14 + r) |-> l[i]]
               /\ \A i \in 1..13 : l[i] = P!VaultStateBase[i]
               /\ \A i \in 1..r : l[13 + i] = P!Carved[i]
               /\ l[14 + r] = P!Words(P!PaddingWords[r + 1])
<1> DEFINE b == P!VaultStateBase
           c == SubSeq(P!Carved, 1, r)
           p == <<P!Words(P!PaddingWords[r + 1])>>
           D == {b[i] : i \in 1..13} \cup {P!Carved[i] : i \in 1..4} \cup {p[1]}
<1>1. r \in Nat /\ r <= 4 /\ 1 \in Int /\ r \in Int
  BY DEF Releases
<1>2. b \in Seq(D) /\ Len(b) = 13
  <2>1. b \in Seq({P!VaultStateBase[i] : i \in 1..13})
    BY DEF P!VaultStateBase
  <2>2. {P!VaultStateBase[i] : i \in 1..13} \subseteq D
    OBVIOUS
  <2> QED BY <2>1, <2>2, BaseFields, SeqMonotonic
<1>3. c \in Seq(D) /\ Len(c) = r /\ \A i \in 1..r : c[i] = P!Carved[i]
  <2>1. \A i \in 1..r : P!Carved[i] \in D
    BY <1>1
  <2> HIDE DEF D
  <2>2. /\ c \in Seq(D) /\ Len(c) = IF 1 <= r THEN r - 1 + 1 ELSE 0
        /\ \A i \in 1..(r - 1 + 1) : c[i] = P!Carved[1 + i - 1]
    BY <1>1, <2>1, SubSeqProperties
  <2> QED BY <1>1, <2>2
<1>4. p \in Seq(D) /\ Len(p) = 1 /\ p[1] = P!Words(P!PaddingWords[r + 1])
  OBVIOUS
<1>5. P!VaultState(r) = b \o c \o p
  BY DEF P!VaultState
<1> HIDE DEF b, c, p, D
<1> DEFINE l == (b \o c) \o p
<1>12. b \in Seq(D) /\ c \in Seq(D) /\ p \in Seq(D) /\ Len(p) = 1
  BY <1>2, <1>3, <1>4
<1>6. Len(l) = Len(b) + 1 + Len(c)
  BY <1>12, Joined3
<1>7. DOMAIN l = 1..(Len(b) + 1 + Len(c))
  BY <1>12, Joined3
<1>8. \A i \in 1..Len(b) : l[i] = b[i]
  BY <1>12, Joined3
<1>9. \A i \in 1..Len(c) : l[Len(b) + i] = c[i]
  BY <1>12, Joined3
<1>10. l[Len(b) + 1 + Len(c)] = p[1]
  BY <1>12, Joined3
<1>13. l = [i \in DOMAIN l |-> l[i]]
  <2>1. b \o c \in Seq(D)
    BY <1>12, Joined
  <2> HIDE DEF b, c, p
  <2>2. l \in Seq(D)
    BY <1>12, <2>1, Joined
  <2> HIDE DEF l
  <2>3. l \in [1..Len(l) -> D]
    BY <2>2, LenProperties
  <2> QED BY <2>3
<1>11. Len(b) + 1 + Len(c) = 14 + r /\ Len(b) = 13 /\ Len(c) = r
  BY <1>1, <1>2, <1>3
<1> HIDE DEF l
<1> QED BY <1>3, <1>4, <1>5, <1>6, <1>7, <1>8, <1>9, <1>10, <1>11, <1>13 DEF b, l

\* Each release is a table with names of its own, of which padding is the last.
LEMMA VaultStateSound ==
    ASSUME NEW r \in Releases
    PROVE  /\ Sound(P!VaultState(r))
           /\ \A i \in 1..(13 + r) : P!VaultState(r)[i].name # "padding"
           /\ P!VaultState(r)[14 + r].name = "padding"
           /\ P!VaultState(r)[14 + r].width = 8 * P!PaddingWords[r + 1]
<1> DEFINE l == P!VaultState(r)
<1>1. /\ r \in 0..4 /\ Len(l) = 14 + r /\ DOMAIN l = 1..(14 + r)
      /\ \A i \in 1..13 : l[i] = P!VaultStateBase[i]
      /\ \A i \in 1..r : l[13 + i] = P!Carved[i]
  BY VaultStateFields DEF Releases
<1>2. l[14 + r].name = "padding" /\ l[14 + r].width = 8 * P!PaddingWords[r + 1]
  <2>1. l[14 + r] = P!Words(P!PaddingWords[r + 1])
    BY VaultStateFields
  <2> HIDE DEF l
  <2> QED BY <2>1 DEF P!Words, P!Field
<1>3. \A i \in 1..13 : P!VaultStateBase[i].width \in Nat \ {0}
  BY BaseFields
<1>4. \A i \in 1..4 : P!Carved[i].width \in Nat \ {0}
  BY CarvedFields
<1>5. P!PaddingWords[r + 1] \in Nat \ {0}
  BY <1>1, PaddingFits
<1> HIDE DEF l
<1>6. ASSUME NEW i \in 1..(14 + r)
      PROVE  i \in 1..13 \/ (\E j \in 1..r : i = 13 + j) \/ i = 14 + r
  <2>1. i > 13 /\ i < 14 + r => i - 13 \in 1..r /\ i = 13 + (i - 13)
    BY <1>1
  <2> QED BY <1>1, <2>1
<1>7. \A i \in 1..(14 + r) : l[i].width \in Nat \ {0}
  <2> TAKE i \in 1..(14 + r)
  <2>1. CASE i \in 1..13
    BY <1>1, <1>3, <2>1
  <2>2. CASE \E j \in 1..r : i = 13 + j
    <3>1. PICK j \in 1..r : i = 13 + j
      BY <2>2
    <3>2. l[i] = P!Carved[j] /\ j \in 1..4
      BY <1>1, <3>1
    <3> QED BY <1>4, <3>2
  <2>3. CASE i = 14 + r
    <3>1. \A w : w \in Nat \ {0} => 8 * w \in Nat \ {0}
      OBVIOUS
    <3> QED BY <1>2, <1>5, <2>3, <3>1
  <2> QED BY <1>6, <2>1, <2>2, <2>3
<1>8. ASSUME NEW i \in 1..(13 + r)
      PROVE  \/ i \in 1..13 /\ l[i] = P!VaultStateBase[i]
             \/ \E j \in 1..4 : i = 13 + j /\ l[i] = P!Carved[j]
  <2>1. i \in 1..13 \/ \E j \in 1..r : i = 13 + j
    BY <1>1, <1>6
  <2>2. CASE i \in 1..13
    BY <1>1, <2>2
  <2>3. CASE \E j \in 1..r : i = 13 + j
    <3>1. PICK j \in 1..r : i = 13 + j
      BY <2>3
    <3>2. l[i] = P!Carved[j] /\ j \in 1..4
      BY <1>1, <3>1
    <3> QED BY <3>1, <3>2
  <2> QED BY <2>1, <2>2, <2>3
<1>9. \A i \in 1..(13 + r) : l[i].name # "padding"
  BY <1>8, BaseFields, CarvedFields
<1>10. ASSUME NEW i \in 1..(13 + r), NEW j \in 1..(13 + r), l[i].name = l[j].name
       PROVE  i = j
  <2>1. CASE i \in 1..13 /\ l[i] = P!VaultStateBase[i]
    <3>1. ~\E h \in 1..4 : j = 13 + h /\ l[j] = P!Carved[h]
      BY <1>10, <2>1, CarvedFields
    <3>2. j \in 1..13 /\ l[j] = P!VaultStateBase[j]
      BY <1>8, <3>1
    <3> QED BY <1>10, <2>1, <3>2, BaseFields
  <2>2. CASE \E g \in 1..4 : i = 13 + g /\ l[i] = P!Carved[g]
    <3>1. PICK g \in 1..4 : i = 13 + g /\ l[i] = P!Carved[g]
      BY <2>2
    <3>2. ~(j \in 1..13 /\ l[j] = P!VaultStateBase[j])
      BY <1>10, <3>1, CarvedFields
    <3>3. PICK h \in 1..4 : j = 13 + h /\ l[j] = P!Carved[h]
      BY <1>8, <3>2
    <3>4. P!Carved[g].name = P!Carved[h].name
      BY <1>10, <3>1, <3>3
    <3>5. g = h
      BY <3>4, CarvedFields
    <3> QED BY <3>1, <3>3, <3>5
  <2> QED BY <1>8, <2>1, <2>2
<1>11. \A i, j \in 1..(14 + r) : l[i].name = l[j].name => i = j
  <2>1. \A i \in 1..(14 + r) : i \in 1..(13 + r) \/ i = 14 + r
    BY <1>1
  <2> QED BY <1>2, <1>9, <1>10, <2>1
<1> QED BY <1>1, <1>2, <1>7, <1>9, <1>11 DEF Sound, l

\* The first release's fields end at byte 199.
LEMMA BaseEnds == Starts(P!VaultStateBase)[14] = 199
<1> DEFINE b == P!VaultStateBase
           at == Starts(b)
<1>1. \A i \in 1..14 : at[i] = IF i = 1 THEN 8 ELSE at[i - 1] + b[i - 1].width
  <2>1. Len(b) = 13 /\ Len(b) \in Nat /\ Len(b) + 1 = 14
    BY BaseFields
  <2> QED BY <2>1, StartsAdd DEF DiscriminatorLen
<1>2. /\ b[1].width = 32 /\ b[2].width = 32 /\ b[3].width = 32 /\ b[4].width = 32
      /\ b[5].width = 32 /\ b[6].width = 4 /\ b[7].width = 8 /\ b[8].width = 8
      /\ b[9].width = 4 /\ b[10].width = 4 /\ b[11].width = 1 /\ b[12].width = 1
      /\ b[13].width = 1
  BY DEF P!VaultStateBase, P!Key, P!U64, P!U32, P!U8, P!Field
<1> HIDE DEF at, b
<1>3. at[1] = 8
  BY <1>1
<1>4. at[2] = 40 /\ at[3] = 72 /\ at[4] = 104 /\ at[5] = 136 /\ at[6] = 168
  <2>1. at[2] = at[1] + b[1].width /\ at[3] = at[2] + b[2].width
    BY <1>1
  <2>2. at[4] = at[3] + b[3].width /\ at[5] = at[4] + b[4].width
    BY <1>1
  <2>3. at[6] = at[5] + b[5].width
    BY <1>1
  <2> QED BY <1>2, <1>3, <2>1, <2>2, <2>3
<1>5. at[7] = 172 /\ at[8] = 180 /\ at[9] = 188 /\ at[10] = 192
  <2>1. at[7] = at[6] + b[6].width /\ at[8] = at[7] + b[7].width
    BY <1>1
  <2>2. at[9] = at[8] + b[8].width /\ at[10] = at[9] + b[9].width
    BY <1>1
  <2> QED BY <1>2, <1>4, <2>1, <2>2
<1>6. at[14] = 199
  <2>1. at[11] = at[10] + b[10].width /\ at[12] = at[11] + b[11].width
    BY <1>1
  <2>2. at[13] = at[12] + b[12].width /\ at[14] = at[13] + b[13].width
    BY <1>1
  <2> QED BY <1>2, <1>5, <2>1, <2>2
<1> QED BY <1>6 DEF at, b

\* Every release fills the 455 bytes: what is carved is taken from the padding.
LEMMA VaultStateEnds ==
    ASSUME NEW r \in Releases
    PROVE  Starts(P!VaultState(r))[15 + r] = 455
<1> DEFINE l == P!VaultState(r)
           at == Starts(l)
<1>1. r \in 0..4
  BY DEF Releases
<1>2. Len(l) = 14 + r /\ Len(l) \in Nat
  BY <1>1, VaultStateFields
<1>3. \A i \in 1..13 : l[i] = P!VaultStateBase[i]
  BY VaultStateFields
<1>4. \A i \in 1..(15 + r) : at[i] = IF i = 1 THEN 8 ELSE at[i - 1] + l[i - 1].width
  <2>1. Len(l) + 1 = 15 + r
    BY <1>1, <1>2
  <2>2. \A i \in 1..(Len(l) + 1) : at[i] = IF i = 1 THEN 8 ELSE at[i - 1] + l[i - 1].width
    BY <1>2, StartsAdd DEF DiscriminatorLen
  <2> QED BY <2>1, <2>2
<1>5. at[14] = 199
  <2>1. 13 \in Nat /\ 13 <= Len(l) /\ 13 <= Len(P!VaultStateBase) /\ Len(P!VaultStateBase) \in Nat
    BY <1>1, <1>2, BaseFields
  <2>2. \A i \in 1..(13 + 1) : Starts(l)[i] = Starts(P!VaultStateBase)[i]
    BY <1>2, <1>3, <2>1, SameStarts
  <2>3. 14 \in 1..(13 + 1)
    OBVIOUS
  <2> QED BY <2>2, <2>3, BaseEnds
<1>6. \A i \in 1..r : l[13 + i].width = P!Carved[i].width
  BY VaultStateFields
<1>7. l[14 + r].width = 8 * P!PaddingWords[r + 1]
  BY VaultStateSound
<1>8. /\ P!Carved[1].width = 8 /\ P!Carved[2].width = 32
      /\ P!Carved[3].width = 8 /\ P!Carved[4].width = 8
  BY DEF P!Carved, P!Key, P!U64, P!Field
<1>9. /\ P!PaddingWords[1] = 32 /\ P!PaddingWords[2] = 31 /\ P!PaddingWords[3] = 27
      /\ P!PaddingWords[4] = 26 /\ P!PaddingWords[5] = 25
  BY DEF P!PaddingWords
<1> HIDE DEF at, l
<1>10. CASE r = 0
  <2>1. at[15] = at[14] + l[14].width
    BY <1>4, <1>10
  <2> QED BY <1>5, <1>7, <1>9, <1>10, <2>1 DEF at, l
<1>11. CASE r = 1
  <2>1. at[15] = at[14] + l[14].width /\ at[16] = at[15] + l[15].width
    BY <1>4, <1>11
  <2>2. l[14].width = 8 /\ l[15].width = 248
    <3>1. l[13 + 1].width = P!Carved[1].width
      BY <1>6, <1>11
    <3> QED BY <1>7, <1>8, <1>9, <1>11, <3>1
  <2> QED BY <1>5, <1>11, <2>1, <2>2 DEF at, l
<1>12. CASE r = 2
  <2>1. /\ at[15] = at[14] + l[14].width /\ at[16] = at[15] + l[15].width
        /\ at[17] = at[16] + l[16].width
    BY <1>4, <1>12
  <2>2. l[14].width = 8 /\ l[15].width = 32 /\ l[16].width = 216
    <3>1. l[13 + 1].width = P!Carved[1].width /\ l[13 + 2].width = P!Carved[2].width
      BY <1>6, <1>12
    <3> QED BY <1>7, <1>8, <1>9, <1>12, <3>1
  <2> QED BY <1>5, <1>12, <2>1, <2>2 DEF at, l
<1>13. CASE r = 3
  <2>1. /\ at[15] = at[14] + l[14].width /\ at[16] = at[15] + l[15].width
        /\ at[17] = at[16] + l[16].width /\ at[18] = at[17] + l[17].width
    BY <1>4, <1>13
  <2>2. l[14].width = 8 /\ l[15].width = 32 /\ l[16].width = 8 /\ l[17].width = 208
    <3>1. /\ l[13 + 1].width = P!Carved[1].width /\ l[13 + 2].width = P!Carved[2].width
          /\ l[13 + 3].width = P!Carved[3].width
      BY <1>6, <1>13
    <3> QED BY <1>7, <1>8, <1>9, <1>13, <3>1
  <2> QED BY <1>5, <1>13, <2>1, <2>2 DEF at, l
<1>14. CASE r = 4
  <2>1. /\ at[15] = at[14] + l[14].width /\ at[16] = at[15] + l[15].width
        /\ at[17] = at[16] + l[16].width /\ at[18] = at[17] + l[17].width
        /\ at[19] = at[18] + l[18].width
    BY <1>4, <1>14
  <2>2. /\ l[14].width = 8 /\ l[15].width = 32 /\ l[16].width = 8 /\ l[17].width = 8
        /\ l[18].width = 200
    <3>1. /\ l[13 + 1].width = P!Carved[1].width /\ l[13 + 2].width = P!Carved[2].width
          /\ l[13 + 3].width = P!Carved[3].width /\ l[13 + 4].width = P!Carved[4].width
      BY <1>6, <1>14
    <3> QED BY <1>7, <1>8, <1>9, <1>14, <3>1
  <2> QED BY <1>5, <1>14, <2>1, <2>2 DEF at, l
<1> QED BY <1>1, <1>10, <1>11, <1>12, <1>13, <1>14

-----------------------------------------------------------------------------
(* The other account types, of which there is one layout *)

\* A table that fills an account of the given length.
Fills(layout, length) == Sound(layout) /\ Starts(layout)[Len(layout) + 1] = length

\* ProgramConfig fills the account Anchor allocates for it.
LEMMA FillsConfig == Fills(P!ProgramConfig, 169)
<1> DEFINE l == P!ProgramConfig
           at == Starts(l)
<1>1. Len(l) = 3 /\ DOMAIN l = 1..3 /\ Len(l) \in Nat /\ Len(l) + 1 = 4
  BY DEF P!ProgramConfig
<1>2. \A i \in 1..3 : l[i].width \in Nat \ {0}
  BY DEF P!ProgramConfig, P!Key, P!U8, P!Words, P!Field
<1>3. \A i, j \in 1..3 : l[i].name = l[j].name => i = j
  BY DEF P!ProgramConfig, P!Key, P!U8, P!Words, P!Field
<1>4. l[1].width = 32 /\ l[2].width = 1 /\ l[3].width = 128
  BY DEF P!ProgramConfig, P!Key, P!U8, P!Words, P!Field
<1> HIDE DEF l
<1>5. \A i \in 1..4 : at[i] = IF i = 1 THEN 8 ELSE at[i - 1] + l[i - 1].width
  BY <1>1, StartsAdd DEF DiscriminatorLen
<1> HIDE DEF at
<1>6. at[4] = 169
  <2>1. at[1] = 8 /\ at[2] = at[1] + l[1].width
    BY <1>5
  <2>2. at[3] = at[2] + l[2].width /\ at[4] = at[3] + l[3].width
    BY <1>5
  <2> QED BY <1>4, <2>1, <2>2
<1> QED BY <1>1, <1>2, <1>3, <1>6 DEF Fills, Sound, l, at

\* NominatedAdmin fills the account Anchor allocates for it.
LEMMA FillsNominated == Fills(P!NominatedAdmin, 48)
<1> DEFINE l == P!NominatedAdmin
           at == Starts(l)
<1>1. Len(l) = 2 /\ DOMAIN l = 1..2 /\ Len(l) \in Nat /\ Len(l) + 1 = 3
  BY DEF P!NominatedAdmin
<1>2. \A i \in 1..2 : l[i].width \in Nat \ {0}
  BY DEF P!NominatedAdmin, P!Key, P!U64, P!Field
<1>3. \A i, j \in 1..2 : l[i].name = l[j].name => i = j
  BY DEF P!NominatedAdmin, P!Key, P!U64, P!Field
<1>4. l[1].width = 32 /\ l[2].width = 8
  BY DEF P!NominatedAdmin, P!Key, P!U64, P!Field
<1> HIDE DEF l
<1>5. \A i \in 1..3 : at[i] = IF i = 1 THEN 8 ELSE at[i - 1] + l[i - 1].width
  BY <1>1, StartsAdd DEF DiscriminatorLen
<1> HIDE DEF at
<1>6. at[3] = 48
  <2>1. at[1] = 8 /\ at[2] = at[1] + l[1].width /\ at[3] = at[2] + l[2].width
    BY <1>5
  <2> QED BY <1>4, <2>1
<1> QED BY <1>1, <1>2, <1>3, <1>6 DEF Fills, Sound, l, at

\* Subaccount fills the account Anchor allocates for it.
LEMMA FillsSubaccount == Fills(P!Subaccount, 145)
<1> DEFINE l == P!Subaccount
           at == Starts(l)
<1>1. Len(l) = 5 /\ DOMAIN l = 1..5 /\ Len(l) \in Nat /\ Len(l) + 1 = 6
  BY DEF P!Subaccount
<1>2. \A i \in 1..5 : l[i].width \in Nat \ {0}
  BY DEF P!Subaccount, P!Key, P!U64, P!U8, P!Words, P!Field
<1>3. \A i, j \in 1..5 : l[i].name = l[j].name => i = j
  BY DEF P!Subaccount, P!Key, P!U64, P!U8, P!Words, P!Field
<1>4. /\ l[1].width = 32 /\ l[2].width = 32 /\ l[3].width = 8 /\ l[4].width = 1
      /\ l[5].width = 64
  BY DEF P!Subaccount, P!Key, P!U64, P!U8, P!Words, P!Field
<1> HIDE DEF l
<1>5. \A i \in 1..6 : at[i] = IF i = 1 THEN 8 ELSE at[i - 1] + l[i - 1].width
  BY <1>1, StartsAdd DEF DiscriminatorLen
<1> HIDE DEF at
<1>6. at[6] = 145
  <2>1. at[1] = 8 /\ at[2] = at[1] + l[1].width /\ at[3] = at[2] + l[2].width
    BY <1>5
  <2>2. /\ at[4] = at[3] + l[3].width /\ at[5] = at[4] + l[4].width
        /\ at[6] = at[5] + l[5].width
    BY <1>5
  <2> QED BY <1>4, <2>1, <2>2
<1> QED BY <1>1, <1>2, <1>3, <1>6 DEF Fills, Sound, l, at

\* WithdrawalQueue fills the account Anchor allocates for it.
LEMMA FillsQueue == Fills(P!WithdrawalQueue, 369)
<1> DEFINE l == P!WithdrawalQueue
           at == Starts(l)
<1>1. Len(l) = 12 /\ DOMAIN l = 1..12 /\ Len(l) \in Nat /\ Len(l) + 1 = 13
  BY DEF P!WithdrawalQueue
<1>2. \A i \in 1..12 : l[i].width \in Nat \ {0}
  BY SMTT(60) DEF P!WithdrawalQueue, P!Key, P!U64, P!U8, P!Words, P!Field
<1>3. \A i, j \in 1..12 : l[i].name = l[j].name => i = j
  BY SMTT(60) DEF P!WithdrawalQueue, P!Key, P!U64, P!U8, P!Words, P!Field
<1>4. /\ l[1].width = 32 /\ l[2].width = 32 /\ l[3].width = 32 /\ l[4].width = 32
      /\ l[5].width = 32 /\ l[6].width = 8 /\ l[7].width = 8 /\ l[8].width = 8
      /\ l[9].width = 8 /\ l[10].width = 8 /\ l[11].width = 1 /\ l[12].width = 160
  BY SMTT(60) DEF P!WithdrawalQueue, P!Key, P!U64, P!U8, P!Words, P!Field
<1> HIDE DEF l
<1>5. \A i \in 1..13 : at[i] = IF i = 1 THEN 8 ELSE at[i - 1] + l[i - 1].width
  BY <1>1, StartsAdd DEF DiscriminatorLen
<1> HIDE DEF at
<1>6. at[13] = 369
  <2>1. /\ at[1] = 8 /\ at[2] = at[1] + l[1].width /\ at[3] = at[2] + l[2].width
        /\ at[4] = at[3] + l[3].width
    BY <1>5
  <2>2. /\ at[5] = at[4] + l[4].width /\ at[6] = at[5] + l[5].width
        /\ at[7] = at[6] + l[6].width /\ at[8] = at[7] + l[7].width
    BY <1>5
  <2>3. /\ at[9] = at[8] + l[8].width /\ at[10] = at[9] + l[9].width
        /\ at[11] = at[10] + l[10].width /\ at[12] = at[11] + l[11].width
        /\ at[13] = at[12] + l[12].width
    BY <1>5
  <2> QED BY <1>4, <2>1, <2>2, <2>3
<1> QED BY <1>1, <1>2, <1>3, <1>6 DEF Fills, Sound, l, at

\* WithdrawalRequest fills the account Anchor allocates for it.
LEMMA FillsRequest == Fills(P!WithdrawalRequest, 265)
<1> DEFINE l == P!WithdrawalRequest
           at == Starts(l)
<1>1. Len(l) = 14 /\ DOMAIN l = 1..14 /\ Len(l) \in Nat /\ Len(l) + 1 = 15
  BY DEF P!WithdrawalRequest
<1>2. \A i \in 1..14 : l[i].width \in Nat \ {0}
  BY SMTT(60) DEF P!WithdrawalRequest, P!Key, P!U64, P!U8, P!Words, P!Field
<1>3. \A i, j \in 1..14 : l[i].name = l[j].name => i = j
  BY SMTT(60) DEF P!WithdrawalRequest, P!Key, P!U64, P!U8, P!Words, P!Field
<1>4. /\ l[1].width = 32 /\ l[2].width = 32 /\ l[3].width = 32 /\ l[4].width = 32
      /\ l[5].width = 8 /\ l[6].width = 8 /\ l[7].width = 8 /\ l[8].width = 8
      /\ l[9].width = 8 /\ l[10].width = 8 /\ l[11].width = 8 /\ l[12].width = 1
      /\ l[13].width = 8 /\ l[14].width = 64
  BY SMTT(60) DEF P!WithdrawalRequest, P!Key, P!U64, P!U8, P!Words, P!Field
<1> HIDE DEF l
<1>5. \A i \in 1..15 : at[i] = IF i = 1 THEN 8 ELSE at[i - 1] + l[i - 1].width
  BY <1>1, StartsAdd DEF DiscriminatorLen
<1> HIDE DEF at
<1>6. at[15] = 265
  <2>1. /\ at[1] = 8 /\ at[2] = at[1] + l[1].width /\ at[3] = at[2] + l[2].width
        /\ at[4] = at[3] + l[3].width /\ at[5] = at[4] + l[4].width
    BY <1>5
  <2>2. /\ at[6] = at[5] + l[5].width /\ at[7] = at[6] + l[6].width
        /\ at[8] = at[7] + l[7].width /\ at[9] = at[8] + l[8].width
        /\ at[10] = at[9] + l[9].width
    BY <1>5
  <2>3. /\ at[11] = at[10] + l[10].width /\ at[12] = at[11] + l[11].width
        /\ at[13] = at[12] + l[12].width /\ at[14] = at[13] + l[13].width
        /\ at[15] = at[14] + l[14].width
    BY <1>5
  <2> QED BY <1>4, <2>1, <2>2, <2>3
<1> QED BY <1>1, <1>2, <1>3, <1>6 DEF Fills, Sound, l, at

-----------------------------------------------------------------------------
(* The clients' copies *)

\* Both clients carry the vault as the code has it.
LEMMA VaultStateCopy ==
    C!VaultState = P!VaultState(4) /\ C!QueueClientVaultState = P!VaultState(4)
<1> DEFINE l == P!VaultState(4)
           c == C!VaultState
<1>1. /\ Len(l) = 18 /\ l = [i \in 1..18 |-> l[i]]
      /\ \A i \in 1..13 : l[i] = P!VaultStateBase[i]
  <2>1. 4 \in Releases /\ 14 + 4 = 18
    BY DEF Releases
  <2>2. Len(l) = 14 + 4 /\ l = [i \in 1..(14 + 4) |-> l[i]]
    BY <2>1, VaultStateFields
  <2>3. \A i \in 1..13 : l[i] = P!VaultStateBase[i]
    BY <2>1, VaultStateFields
  <2> QED BY <2>1, <2>2, <2>3
<1>2. /\ l[14] = P!Carved[1] /\ l[15] = P!Carved[2] /\ l[16] = P!Carved[3]
      /\ l[17] = P!Carved[4]
  <2>1. \A i \in 1..4 : l[13 + i] = P!Carved[i]
    BY VaultStateFields DEF Releases
  <2> HIDE DEF l
  <2>2. l[13 + 1] = P!Carved[1] /\ l[13 + 2] = P!Carved[2]
    BY <2>1
  <2>3. l[13 + 3] = P!Carved[3] /\ l[13 + 4] = P!Carved[4]
    BY <2>1
  <2> QED BY <2>2, <2>3
<1>3. l[18] = P!Words(25)
  <2>1. l[14 + 4] = P!Words(P!PaddingWords[4 + 1])
    BY VaultStateFields DEF Releases
  <2> HIDE DEF l
  <2> QED BY <2>1 DEF P!PaddingWords
<1> HIDE DEF l
<1>4. \A i \in 1..13 : l[i] = c[i]
  BY <1>1, SMTT(60) DEF P!VaultStateBase, P!Key, P!U64, P!U32, P!U8, P!Field,
                        C!VaultState, C!Field
<1>5. /\ l[14] = c[14] /\ l[15] = c[15] /\ l[16] = c[16] /\ l[17] = c[17] /\ l[18] = c[18]
  BY <1>2, <1>3, SMTT(60) DEF P!Carved, P!Key, P!U64, P!Words, P!Field,
                              C!VaultState, C!Field
<1>6. c = [i \in 1..18 |-> c[i]]
  BY SMTT(60) DEF C!VaultState
<1> HIDE DEF c
<1>7. \A i \in 1..18 : l[i] = c[i]
  <2>1. \A i \in 1..18 : \/ i \in 1..13
                         \/ i = 14 \/ i = 15 \/ i = 16 \/ i = 17 \/ i = 18
    OBVIOUS
  <2> QED BY <1>4, <1>5, <2>1
<1>8. l = c
  BY <1>1, <1>6, <1>7
<1>9. C!QueueClientVaultState = C!VaultState
  BY DEF C!QueueClientVaultState, C!VaultState
<1> QED BY <1>8, <1>9 DEF l, c

\* A client reads every account type with the struct of the code's release.
LEMMA ClientCopies == \A k \in DOMAIN P!LEN : C!Structs[k] = {P!Layout(k, 4)}
<1>1. C!ProgramConfig = P!ProgramConfig
  BY DEF C!ProgramConfig, P!ProgramConfig, P!Key, P!U8, P!Words, P!Field, C!Field
<1>2. C!NominatedAdmin = P!NominatedAdmin
  BY DEF C!NominatedAdmin, P!NominatedAdmin, P!Key, P!U64, P!Field, C!Field
<1>3. C!Subaccount = P!Subaccount
  BY DEF C!Subaccount, P!Subaccount, P!Key, P!U64, P!U8, P!Words, P!Field, C!Field
<1>4. C!WithdrawalQueue = P!WithdrawalQueue
  BY SMTT(60) DEF C!WithdrawalQueue, P!WithdrawalQueue, P!Key, P!U64, P!U8, P!Words, P!Field, C!Field
<1>5. C!WithdrawalRequest = P!WithdrawalRequest
  BY SMTT(60) DEF C!WithdrawalRequest, P!WithdrawalRequest, P!Key, P!U64, P!U8, P!Words, P!Field, C!Field
<1> QED BY <1>1, <1>2, <1>3, <1>4, <1>5, VaultStateCopy DEF C!Structs, P!Layout, P!LEN

-----------------------------------------------------------------------------
(* Layouts agree *)

\* A layout has its fields where the newest release has them, and padding over
\* all the others and over none of its own.
Carries(k, layout) ==
    LET newest == P!Layout(k, 4)
        known  == Names(layout) \ {"padding"}
    IN  /\ known \subseteq FieldsOf(k)
        /\ known # FieldsOf(k) => "padding" \in Names(layout)
        /\ \A n \in known : At(layout, n) = At(newest, n) /\ Room(layout, n) = Room(newest, n)
        /\ "padding" \in Names(layout) =>
               /\ At(layout, "padding") \in Nat /\ Room(layout, "padding") \in Nat
               /\ \A n \in FieldsOf(k) :
                      Overlap(At(newest, n), Room(newest, n),
                              At(layout, "padding"), Room(layout, "padding")) <=> n \notin known

\* The tables of the two programs and their clients, compared: what the proofs
\* use of them.
LayoutsAgree(k) ==
    LET newest == P!Layout(k, 4)
    IN  /\ \A n \in FieldsOf(k) : At(newest, n) \in Nat /\ Room(newest, n) \in Nat \ {0}
        /\ \A m, n \in FieldsOf(k) :
               Overlap(At(newest, m), Room(newest, m), At(newest, n), Room(newest, n)) => m = n
        /\ \A r \in Releases : Carries(k, P!Layout(k, r)) /\ Fits(P!Layout(k, r), P!LEN[k])
        /\ \A struct \in C!Structs[k] :
               /\ Carries(k, struct) /\ Fits(struct, P!LEN[k])
               /\ FieldsOf(k) \subseteq Names(struct)
        /\ "padding" \notin P!Stored[k] /\ P!LEN[k] \in Nat
        /\ k = "VaultState" => \A r \in Releases : ~Fits(P!Layout(k, r), WrittenOff.size)

\* The newest layout carries its own fields.
LEMMA CarriesItself ==
    ASSUME NEW k, Sound(P!Layout(k, 4))
    PROVE  Carries(k, P!Layout(k, 4))
<1> DEFINE l == P!Layout(k, 4)
<1>1. \A m, n \in Names(l) :
          /\ At(l, m) \in Nat /\ Room(l, m) \in Nat \ {0}
          /\ Overlap(At(l, m), Room(l, m), At(l, n), Room(l, n)) => m = n
  BY Apart
<1>2. FieldsOf(k) = Names(l) \ {"padding"}
  BY DEF FieldsOf
<1> HIDE DEF l
<1>3. ASSUME "padding" \in Names(l)
      PROVE  /\ At(l, "padding") \in Nat /\ Room(l, "padding") \in Nat
             /\ \A n \in FieldsOf(k) :
                    ~Overlap(At(l, n), Room(l, n), At(l, "padding"), Room(l, "padding"))
  BY <1>1, <1>2, <1>3
<1>4. /\ Names(l) \ {"padding"} \subseteq FieldsOf(k)
      /\ ~(Names(l) \ {"padding"} # FieldsOf(k))
      /\ \A n \in FieldsOf(k) : n \in Names(l) \ {"padding"}
  BY <1>2
<1> HIDE DEF Overlap
<1> QED BY <1>3, <1>4 DEF Carries, l

\* A release has the fields it knows where the newest has them, and padding over
\* all those that later ones carved.
LEMMA CarriesRelease ==
    ASSUME NEW r \in Releases
    PROVE  Carries("VaultState", P!VaultState(r))
<1> DEFINE l == P!VaultState(r)
           w == P!VaultState(4)
           known == Names(l) \ {"padding"}
           fields == FieldsOf("VaultState")
           pad == Starts(w)[14 + r]
<1>1. r \in 0..4 /\ 4 \in Releases
  BY DEF Releases
<1>2. /\ Len(l) = 14 + r /\ DOMAIN l = 1..(14 + r) /\ Sound(l)
      /\ \A i \in 1..(13 + r) : l[i].name # "padding"
      /\ l[14 + r].name = "padding"
  BY VaultStateFields, VaultStateSound
<1>3. /\ Len(w) = 18 /\ DOMAIN w = 1..18 /\ Sound(w)
      /\ \A i \in 1..17 : w[i].name # "padding"
      /\ w[18].name = "padding"
  <2>1. 14 + 4 = 18 /\ 13 + 4 = 17
    OBVIOUS
  <2>2. Len(w) = 14 + 4 /\ DOMAIN w = 1..(14 + 4)
    BY <1>1, VaultStateFields
  <2>3. Sound(w) /\ (\A i \in 1..(13 + 4) : w[i].name # "padding") /\ w[14 + 4].name = "padding"
    BY <1>1, VaultStateSound
  <2> HIDE DEF w
  <2> QED BY <2>1, <2>2, <2>3
<1>4. \A i \in 1..(13 + r) : l[i] = w[i]
  <2> TAKE i \in 1..(13 + r)
  <2>1. CASE i <= 13
    <3>1. i \in 1..13
      BY <1>1, <2>1
    <3> QED BY <1>1, <3>1, VaultStateFields
  <2>2. CASE i > 13
    <3>1. i - 13 \in 1..r /\ i - 13 \in 1..4 /\ 13 + (i - 13) = i
      BY <1>1, <2>2
    <3>2. l[13 + (i - 13)] = P!Carved[i - 13]
      BY <3>1, VaultStateFields
    <3>3. w[13 + (i - 13)] = P!Carved[i - 13]
      BY <1>1, <3>1, VaultStateFields
    <3> HIDE DEF l, w
    <3> QED BY <3>1, <3>2, <3>3
  <2> QED BY <1>1, <2>1, <2>2
<1>5. \A i \in 1..(14 + r) : Starts(l)[i] = Starts(w)[i]
  <2>1. 13 + r \in Nat /\ 13 + r <= Len(l) /\ 13 + r <= Len(w) /\ 13 + r + 1 = 14 + r
        /\ Len(l) \in Nat /\ Len(w) \in Nat
    BY <1>1, <1>2, <1>3
  <2>2. \A i \in 1..(13 + r + 1) : Starts(l)[i] = Starts(w)[i]
    BY <1>4, <2>1, SameStarts
  <2> QED BY <2>1, <2>2
<1>6. /\ Starts(l)[15 + r] = 455 /\ Starts(w)[19] = 455
      /\ l[14 + r].width \in Nat \ {0} /\ pad + l[14 + r].width = 455
  <2>1. Starts(l)[15 + r] = 455
    BY VaultStateEnds
  <2>2. Starts(w)[15 + 4] = 455
    BY <1>1, VaultStateEnds
  <2>3. 15 + r \in 1..(Len(l) + 1) /\ 15 + r # 1 /\ 15 + r - 1 = 14 + r /\ Len(l) \in Nat
    BY <1>1, <1>2
  <2>4. Starts(l)[15 + r] = Starts(l)[14 + r] + l[14 + r].width
    <3> HIDE DEF l
    <3>1. \A i \in 1..(Len(l) + 1) :
              i # 1 => Starts(l)[i] = Starts(l)[i - 1] + l[i - 1].width
      BY <2>3, StartsAdd
    <3>2. PICK m \in 1..(Len(l) + 1) : m = 15 + r
      BY <2>3
    <3>3. Starts(l)[m] = Starts(l)[m - 1] + l[m - 1].width
      BY <2>3, <3>1, <3>2
    <3>4. m - 1 = 14 + r
      BY <1>1, <3>2
    <3> QED BY <3>2, <3>3, <3>4
  <2>5. 14 + r \in 1..(14 + r) /\ 14 + r \in 1..Len(l)
    BY <1>1, <1>2
  <2>6. l[14 + r].width \in Nat \ {0}
    BY <1>2, <2>5 DEF Sound
  <2>7. Starts(l)[14 + r] = pad
    BY <1>5, <2>5
  <2> HIDE DEF l, w, pad
  <2> QED BY <2>1, <2>2, <2>3, <2>4, <2>6, <2>7
<1> HIDE DEF l, w
<1>7. known = {w[i].name : i \in 1..(13 + r)}
  <2>1. \A i \in 1..(14 + r) : i \in 1..(13 + r) \/ i = 14 + r
    BY <1>1
  <2>2. \A i \in 1..(13 + r) : i \in 1..(14 + r)
    BY <1>1
  <2> QED BY <1>2, <1>4, <2>1, <2>2 DEF Names
<1>8. fields = {w[i].name : i \in 1..17}
  <2>1. fields = Names(w) \ {"padding"}
    BY DEF FieldsOf, P!Layout, w
  <2>2. \A i \in 1..18 : i \in 1..17 \/ i = 18
    OBVIOUS
  <2>3. \A i \in 1..17 : i \in 1..18
    OBVIOUS
  <2> QED BY <1>3, <2>1, <2>2, <2>3 DEF Names
<1>9. ASSUME NEW i \in 1..(13 + r)
      PROVE  /\ At(l, w[i].name) = At(w, w[i].name)
             /\ Room(l, w[i].name) = Room(w, w[i].name)
  <2>1. i \in 1..Len(l) /\ i \in 1..Len(w) /\ i \in 1..(14 + r)
    BY <1>1, <1>2, <1>3
  <2>2. At(l, l[i].name) = Starts(l)[i] /\ Room(l, l[i].name) = l[i].width
    BY <1>2, <2>1, Placed
  <2>3. At(w, w[i].name) = Starts(w)[i] /\ Room(w, w[i].name) = w[i].width
    BY <1>3, <2>1, Placed
  <2> QED BY <1>4, <1>5, <2>1, <2>2, <2>3
<1>10. At(l, "padding") = pad /\ Room(l, "padding") = l[14 + r].width /\ pad \in Nat
  <2>1. 14 + r \in 1..Len(l) /\ 14 + r \in 1..(14 + r) /\ 14 + r \in 1..(Len(w) + 1)
    BY <1>1, <1>2, <1>3
  <2>2. At(l, l[14 + r].name) = Starts(l)[14 + r] /\ Room(l, l[14 + r].name) = l[14 + r].width
    BY <1>2, <2>1, Placed
  <2>3. pad \in Nat
    BY <1>3, <2>1, InOrder
  <2> QED BY <1>2, <1>5, <2>1, <2>2, <2>3
<1>11. ASSUME NEW i \in 1..17
       PROVE  LET n == w[i].name
              IN  Overlap(At(w, n), Room(w, n), pad, l[14 + r].width) <=> n \notin known
  <2>1. /\ i \in 1..Len(w) /\ i \in 1..(Len(w) + 1) /\ 14 + r \in 1..(Len(w) + 1)
        /\ 18 \in 1..(Len(w) + 1) /\ 19 \in 1..(Len(w) + 1)
    BY <1>1, <1>3
  <2>2. At(w, w[i].name) = Starts(w)[i] /\ Room(w, w[i].name) = w[i].width
    BY <1>3, <2>1, Placed
  <2>3. w[i].width \in Nat \ {0}
    BY <1>3, <2>1 DEF Sound
  <2>4. Starts(w)[i] \in Nat /\ Starts(w)[18] \in Nat /\ Starts(w)[19] \in Nat
    BY <1>3, <2>1, InOrder
  <2>5. CASE i < 14 + r
    <3>1. Starts(w)[i] + w[i].width <= pad
      BY <1>3, <2>1, <2>5, InOrder
    <3>2. ~Overlap(Starts(w)[i], w[i].width, pad, l[14 + r].width)
      BY <1>6, <1>10, <2>3, <2>4, <3>1 DEF Overlap
    <3>3. i \in 1..(13 + r)
      BY <1>1, <2>5
    <3> QED BY <1>7, <2>2, <3>2, <3>3
  <2>6. CASE ~(i < 14 + r)
    <3>1. pad <= Starts(w)[i]
      <4>1. CASE i = 14 + r
        BY <1>10, <4>1
      <4>2. CASE i # 14 + r
        <5>1. 14 + r < i /\ 14 + r \in 1..Len(w)
          BY <1>1, <1>3, <2>6, <4>2
        <5>2. pad + w[14 + r].width <= Starts(w)[i]
          BY <1>3, <2>1, <5>1, InOrder
        <5>3. w[14 + r].width \in Nat
          BY <1>3, <5>1 DEF Sound
        <5> QED BY <1>10, <2>4, <5>2, <5>3
      <4> QED BY <4>1, <4>2
    <3>2. Starts(w)[i] + w[i].width <= 455
      <4>1. i < 19
        OBVIOUS
      <4>2. Starts(w)[i] + w[i].width <= Starts(w)[19]
        BY <1>3, <2>1, <4>1, InOrder
      <4> QED BY <1>6, <4>2
    <3>3. Overlap(Starts(w)[i], w[i].width, pad, l[14 + r].width)
      BY <1>6, <1>10, <2>3, <2>4, <3>1, <3>2 DEF Overlap
    <3>4. w[i].name \notin known
      <4> SUFFICES ASSUME NEW j \in 1..(13 + r), w[j].name = w[i].name
                   PROVE  FALSE
        BY <1>7
      <4>1. j \in 1..Len(w) /\ j # i
        BY <1>1, <1>3, <2>6
      <4> QED BY <1>3, <2>1, <4>1 DEF Sound
    <3> QED BY <2>2, <3>3, <3>4
  <2> QED BY <2>5, <2>6
<1> HIDE DEF known, fields, pad, Overlap
<1>12. known \subseteq fields
  <2>1. \A i \in 1..(13 + r) : i \in 1..17
    BY <1>1
  <2> QED BY <1>7, <1>8, <2>1
<1>13. "padding" \in Names(l)
  <2>1. 14 + r \in DOMAIN l
    BY <1>1, <1>2
  <2> QED BY <1>2, <2>1 DEF Names
<1>14. \A n \in known : At(l, n) = At(w, n) /\ Room(l, n) = Room(w, n)
  BY <1>7, <1>9
<1>15. \A n \in fields :
           Overlap(At(w, n), Room(w, n), At(l, "padding"), Room(l, "padding")) <=> n \notin known
  BY <1>8, <1>10, <1>11
<1>16. At(l, "padding") \in Nat /\ Room(l, "padding") \in Nat
  BY <1>6, <1>10
<1>17. P!Layout("VaultState", 4) = w
  BY DEF P!Layout, w
<1> QED BY <1>12, <1>13, <1>14, <1>15, <1>16, <1>17 DEF Carries, known, fields, l

\* Creation stores nothing in the padding.
LEMMA StoredHasNoPadding ==
    \A k \in DOMAIN P!LEN : "padding" \notin P!Stored[k] /\ P!LEN[k] \in Nat
<1>1. \A k \in DOMAIN P!LEN : P!LEN[k] \in Nat
  BY DEF P!LEN
<1>2. "padding" \notin P!Stored["VaultState"] /\ "padding" \notin P!Stored["ProgramConfig"]
  BY DEF P!Stored
<1>3. "padding" \notin P!Stored["NominatedAdmin"] /\ "padding" \notin P!Stored["Subaccount"]
  BY DEF P!Stored
<1>4. /\ "padding" \notin P!Stored["WithdrawalQueue"]
      /\ "padding" \notin P!Stored["WithdrawalRequest"]
  BY DEF P!Stored
<1> QED BY <1>1, <1>2, <1>3, <1>4 DEF P!LEN

\* A type with a single layout, which fills the account.
LEMMA SingleLayout ==
    ASSUME NEW k \in DOMAIN P!LEN, k # "VaultState", NEW l, Fills(l, P!LEN[k]),
           \A r : P!Layout(k, r) = l
    PROVE  LayoutsAgree(k)
<1>1. Sound(l) /\ Starts(l)[Len(l) + 1] = P!LEN[k]
  BY DEF Fills
<1>2. Carries(k, l)
  <2>1. P!Layout(k, 4) = l
    OBVIOUS
  <2>2. Carries(k, P!Layout(k, 4))
    BY <1>1, <2>1, CarriesItself
  <2> QED BY <2>1, <2>2
<1>3. P!LEN[k] \in Nat /\ "padding" \notin P!Stored[k] /\ C!Structs[k] = {l}
  BY StoredHasNoPadding, ClientCopies
<1>4. Fits(l, P!LEN[k])
  BY <1>1, <1>3 DEF Fits
<1>5. \A m, n \in Names(l) :
          /\ At(l, m) \in Nat /\ Room(l, m) \in Nat \ {0}
          /\ Overlap(At(l, m), Room(l, m), At(l, n), Room(l, n)) => m = n
  BY <1>1, Apart
<1>6. FieldsOf(k) \subseteq Names(l)
  BY DEF FieldsOf
<1> HIDE DEF Overlap
<1> QED BY <1>2, <1>3, <1>4, <1>5, <1>6 DEF LayoutsAgree

\* VaultState's five releases and its client structs.
LEMMA VaultStateLayouts == LayoutsAgree("VaultState")
<1> DEFINE w == P!VaultState(4)
<1>1. 4 \in Releases /\ \A r : P!Layout("VaultState", r) = P!VaultState(r)
  BY DEF Releases, P!Layout
<1>2. P!LEN["VaultState"] = 455 /\ "VaultState" \in DOMAIN P!LEN
  BY DEF P!LEN
<1>3. ASSUME NEW r \in Releases
      PROVE  /\ Carries("VaultState", P!VaultState(r))
             /\ Fits(P!VaultState(r), 455) /\ ~Fits(P!VaultState(r), 454)
  <2>1. Carries("VaultState", P!VaultState(r))
    BY CarriesRelease
  <2>2. Len(P!VaultState(r)) = 14 + r
    BY VaultStateFields
  <2>3. Starts(P!VaultState(r))[15 + r] = 455
    BY VaultStateEnds
  <2>4. 14 + r + 1 = 15 + r
    BY DEF Releases
  <2>5. Starts(P!VaultState(r))[Len(P!VaultState(r)) + 1] = 455
    BY <2>2, <2>3, <2>4
  <2> QED BY <2>1, <2>5 DEF Fits
<1>4. /\ C!Structs["VaultState"] = {w} /\ "padding" \notin P!Stored["VaultState"]
      /\ P!LEN["VaultState"] \in Nat
  BY <1>1, <1>2, ClientCopies, StoredHasNoPadding
<1>5. \A m, n \in Names(w) :
          /\ At(w, m) \in Nat /\ Room(w, m) \in Nat \ {0}
          /\ Overlap(At(w, m), Room(w, m), At(w, n), Room(w, n)) => m = n
  <2>1. Sound(w)
    BY <1>1, VaultStateSound
  <2> QED BY <2>1, Apart
<1>6. FieldsOf("VaultState") \subseteq Names(w)
  BY <1>1 DEF FieldsOf
<1>7. WrittenOff.size = 454
  BY DEF WrittenOff
<1>8. Carries("VaultState", w) /\ Fits(w, 455)
  BY <1>1, <1>3
<1> HIDE DEF Overlap, w
<1>9. \A r \in Releases :
          /\ Carries("VaultState", P!Layout("VaultState", r))
          /\ Fits(P!Layout("VaultState", r), 455) /\ ~Fits(P!Layout("VaultState", r), 454)
  BY <1>1, <1>3
<1>10. P!Layout("VaultState", 4) = w
  BY <1>1 DEF w
<1> QED BY <1>2, <1>4, <1>5, <1>6, <1>7, <1>8, <1>9, <1>10 DEF LayoutsAgree

\* The tables of the two programs and of their clients agree, for every type.
THEOREM LayoutsHold == \A k \in Kinds : LayoutsAgree(k)
<1>1. Kinds \subseteq DOMAIN P!LEN
  BY AccountDataAssumption
<1>2. LayoutsAgree("ProgramConfig")
  <2>1. Fills(P!ProgramConfig, P!LEN["ProgramConfig"])
    BY FillsConfig DEF P!LEN
  <2>2. \A r : P!Layout("ProgramConfig", r) = P!ProgramConfig
    BY DEF P!Layout
  <2>3. "ProgramConfig" \in DOMAIN P!LEN
    BY DEF P!LEN
  <2> QED BY <2>1, <2>2, <2>3, SingleLayout
<1>3. LayoutsAgree("NominatedAdmin")
  <2>1. Fills(P!NominatedAdmin, P!LEN["NominatedAdmin"])
    BY FillsNominated DEF P!LEN
  <2>2. \A r : P!Layout("NominatedAdmin", r) = P!NominatedAdmin
    BY DEF P!Layout
  <2>3. "NominatedAdmin" \in DOMAIN P!LEN
    BY DEF P!LEN
  <2> QED BY <2>1, <2>2, <2>3, SingleLayout
<1>4. LayoutsAgree("Subaccount")
  <2>1. Fills(P!Subaccount, P!LEN["Subaccount"])
    BY FillsSubaccount DEF P!LEN
  <2>2. \A r : P!Layout("Subaccount", r) = P!Subaccount
    BY DEF P!Layout
  <2>3. "Subaccount" \in DOMAIN P!LEN
    BY DEF P!LEN
  <2> QED BY <2>1, <2>2, <2>3, SingleLayout
<1>5. LayoutsAgree("WithdrawalQueue")
  <2>1. Fills(P!WithdrawalQueue, P!LEN["WithdrawalQueue"])
    BY FillsQueue DEF P!LEN
  <2>2. \A r : P!Layout("WithdrawalQueue", r) = P!WithdrawalQueue
    BY DEF P!Layout
  <2>3. "WithdrawalQueue" \in DOMAIN P!LEN
    BY DEF P!LEN
  <2> QED BY <2>1, <2>2, <2>3, SingleLayout
<1>6. LayoutsAgree("WithdrawalRequest")
  <2>1. Fills(P!WithdrawalRequest, P!LEN["WithdrawalRequest"])
    BY FillsRequest DEF P!LEN
  <2>2. \A r : P!Layout("WithdrawalRequest", r) = P!WithdrawalRequest
    BY DEF P!Layout
  <2>3. "WithdrawalRequest" \in DOMAIN P!LEN
    BY DEF P!LEN
  <2> QED BY <2>1, <2>2, <2>3, SingleLayout
<1>7. \A k \in DOMAIN P!LEN : \/ k = "VaultState" \/ k = "ProgramConfig"
                             \/ k = "NominatedAdmin" \/ k = "Subaccount"
                             \/ k = "WithdrawalQueue" \/ k = "WithdrawalRequest"
  BY DEF P!LEN
<1> QED BY <1>1, <1>2, <1>3, <1>4, <1>5, <1>6, <1>7, VaultStateLayouts

-----------------------------------------------------------------------------
(* What an account holds *)

Newest(k) == P!Layout(k, 4)

\* A field's value where the newest release has the field.
Cell(k, n, v) == Segment(At(Newest(k), n), Room(Newest(k), n), v)

\* The data that holds exactly the stored values of the fields ns.
Cells(k, s, ns) == {Cell(k, n, s[n]) : n \in {m \in ns : s[m] # 0}}

Stores(k) == [FieldsOf(k) -> Values \cup {0}]

AccountOK(a) ==
    \/ accounts[a] = NoAccount
    \/ kind = "VaultState" /\ accounts[a] = WrittenOff
    \/ accounts[a].size = P!LEN[kind]

\* Data is what was stored, each value in its field's place.
DInv ==
    /\ kind \in Kinds /\ release \in Releases
    /\ stored \in [Addresses -> Stores(kind)]
    /\ DOMAIN accounts = Addresses
    /\ \A a \in Addresses :
           /\ accounts[a] = [size |-> accounts[a].size,
                             data |-> Cells(kind, stored[a], FieldsOf(kind))]
           /\ AccountOK(a)

-----------------------------------------------------------------------------
(* Segments *)

LEMMA ReadBack ==
    ASSUME NEW v \in Values \cup {0}, NEW w
    PROVE  Read(Content(v, w), w) = v
<1>1. CASE v = 0
  BY <1>1 DEF Content, Read
<1>2. CASE v # 0
  <2>1. Content(v, w) = {Segment(0, w, v)} /\ v \in Values
    BY <1>2 DEF Content
  <2>2. ASSUME NEW x \in Values, Content(x, w) = Content(v, w) PROVE x = v
    <3>1. Content(x, w) = {Segment(0, w, x)}
      BY AccountDataAssumption DEF Content
    <3>2. Segment(0, w, x) = Segment(0, w, v)
      BY <2>1, <2>2, <3>1
    <3> QED BY <3>2 DEF Segment
  <2> QED BY <2>1, <2>2 DEF Read
<1> QED BY <1>1, <1>2

LEMMA CellFacts ==
    ASSUME NEW k \in Kinds, NEW n \in FieldsOf(k), NEW v
    PROVE  /\ At(Newest(k), n) \in Nat /\ Room(Newest(k), n) \in Nat \ {0}
           /\ Cell(k, n, v).at = At(Newest(k), n)
           /\ Cell(k, n, v).width = Room(Newest(k), n)
           /\ Cell(k, n, v).value = v
<1>1. At(Newest(k), n) \in Nat /\ Room(Newest(k), n) \in Nat \ {0}
  BY LayoutsHold DEF LayoutsAgree, Newest
<1> QED BY <1>1 DEF Cell, Segment

\* Moving there and back.
LEMMA MovedBack ==
    ASSUME NEW k \in Kinds, NEW s, NEW ns \in SUBSET FieldsOf(k), NEW at \in Nat
    PROVE  Moved(Moved(Cells(k, s, ns), -at), at) = Cells(k, s, ns)
<1>1. ASSUME NEW n \in FieldsOf(k), NEW v
      PROVE  LET c == Cell(k, n, v)
                 d == [c EXCEPT !.at = @ + (-at)]
             IN  [d EXCEPT !.at = @ + at] = c
  <2> DEFINE w == Room(Newest(k), n)
             x == At(Newest(k), n) + (-at)
  <2>1. At(Newest(k), n) \in Nat /\ x + at = At(Newest(k), n)
    BY CellFacts
  <2>2. [Cell(k, n, v) EXCEPT !.at = @ + (-at)] = Segment(x, w, v)
    BY DEF Cell, Segment
  <2>3. [Segment(x, w, v) EXCEPT !.at = @ + at] = Segment(x + at, w, v)
    BY DEF Segment
  <2>4. Segment(x + at, w, v) = Cell(k, n, v)
    BY <2>1 DEF Cell
  <2> HIDE DEF x, w
  <2> QED BY <2>2, <2>3, <2>4
<1>2. \A c \in Cells(k, s, ns) :
          [[c EXCEPT !.at = @ + (-at)] EXCEPT !.at = @ + at] = c
  BY <1>1 DEF Cells
<1> QED BY <1>2 DEF Moved

\* A field moved out of its place is its content.
LEMMA FieldMoved ==
    ASSUME NEW k \in Kinds, NEW s, NEW n \in FieldsOf(k)
    PROVE  /\ Moved(Cells(k, s, {n}), -At(Newest(k), n)) = Content(s[n], Room(Newest(k), n))
           /\ Moved(Content(s[n], Room(Newest(k), n)), At(Newest(k), n)) = Cells(k, s, {n})
<1>1. At(Newest(k), n) \in Nat
  BY CellFacts
<1>2. CASE s[n] = 0
  BY <1>2 DEF Cells, Moved, Content
<1>3. CASE s[n] # 0
  <2>1. Cells(k, s, {n}) = {Cell(k, n, s[n])}
    BY <1>3 DEF Cells
  <2>2. Content(s[n], Room(Newest(k), n)) = {Segment(0, Room(Newest(k), n), s[n])}
    BY <1>3 DEF Content
  <2>3. [Cell(k, n, s[n]) EXCEPT !.at = @ + (-At(Newest(k), n))] =
            Segment(0, Room(Newest(k), n), s[n])
    BY <1>1 DEF Cell, Segment
  <2>4. [Segment(0, Room(Newest(k), n), s[n]) EXCEPT !.at = @ + At(Newest(k), n)] =
            Cell(k, n, s[n])
    BY <1>1 DEF Cell, Segment
  <2> QED BY <2>1, <2>2, <2>3, <2>4 DEF Moved
<1> QED BY <1>2, <1>3

-----------------------------------------------------------------------------
(* Loading and writing back *)

\* A layout that carries the fields finds each in its place.
LEMMA FieldLoaded ==
    ASSUME NEW k \in Kinds, NEW layout, Carries(k, layout), NEW s,
           NEW n \in Names(layout) \ {"padding"}
    PROVE  /\ n \in FieldsOf(k) /\ At(layout, n) = At(Newest(k), n)
           /\ Room(layout, n) = Room(Newest(k), n)
           /\ Bytes(Cells(k, s, FieldsOf(k)), At(layout, n), Room(layout, n)) =
                  Content(s[n], Room(layout, n))
<1>1. /\ n \in FieldsOf(k) /\ At(layout, n) = At(Newest(k), n)
      /\ Room(layout, n) = Room(Newest(k), n)
  BY DEF Carries, Newest
<1>2. \A m \in FieldsOf(k) :
          Overlap(At(Newest(k), m), Room(Newest(k), m), At(Newest(k), n), Room(Newest(k), n))
              <=> m = n
  <2>1. \A m \in FieldsOf(k) :
          Overlap(At(Newest(k), m), Room(Newest(k), m), At(Newest(k), n), Room(Newest(k), n))
              => m = n
    BY <1>1, LayoutsHold DEF LayoutsAgree, Newest
  <2>2. At(Newest(k), n) \in Nat /\ Room(Newest(k), n) \in Nat \ {0}
    BY <1>1, CellFacts
  <2>3. Overlap(At(Newest(k), n), Room(Newest(k), n), At(Newest(k), n), Room(Newest(k), n))
    BY <2>2 DEF Overlap
  <2> QED BY <1>1, <2>1, <2>3
<1>3. {c \in Cells(k, s, FieldsOf(k)) :
           Overlap(c.at, c.width, At(Newest(k), n), Room(Newest(k), n))} = Cells(k, s, {n})
  BY <1>1, <1>2, CellFacts DEF Cells
<1> QED BY <1>1, <1>3, FieldMoved DEF Bytes

\* The padding holds the fields a release has no name for, and nothing else.
LEMMA PaddingLoaded ==
    ASSUME NEW k \in Kinds, NEW layout, Carries(k, layout), NEW s, "padding" \in Names(layout)
    PROVE  Bytes(Cells(k, s, FieldsOf(k)), At(layout, "padding"), Room(layout, "padding")) =
               Moved(Cells(k, s, FieldsOf(k) \ Names(layout)), -At(layout, "padding"))
<1>1. \A n \in FieldsOf(k) :
          Overlap(At(Newest(k), n), Room(Newest(k), n),
                  At(layout, "padding"), Room(layout, "padding")) <=> n \notin Names(layout)
  <2>1. \A n \in FieldsOf(k) : n # "padding"
    BY DEF FieldsOf
  <2> QED BY <2>1 DEF Carries, Newest
<1>2. {c \in Cells(k, s, FieldsOf(k)) :
           Overlap(c.at, c.width, At(layout, "padding"), Room(layout, "padding"))} =
      Cells(k, s, FieldsOf(k) \ Names(layout))
  BY <1>1, CellFacts DEF Cells
<1> QED BY <1>2 DEF Bytes

\* A struct as release after release hands it on: the known fields by content,
\* the unknown ones inside the padding.
LEMMA WrittenBack ==
    ASSUME NEW k \in Kinds, NEW layout, Carries(k, layout), NEW s, NEW struct,
           \A n \in Names(layout) \ {"padding"} : struct[n] = Content(s[n], Room(layout, n)),
           "padding" \in Names(layout) =>
               struct["padding"] =
                   Moved(Cells(k, s, FieldsOf(k) \ Names(layout)), -At(layout, "padding"))
    PROVE  Serialize(layout, struct) = Cells(k, s, FieldsOf(k))
<1> DEFINE known == Names(layout) \ {"padding"}
           rest  == FieldsOf(k) \ Names(layout)
<1>1. known \subseteq FieldsOf(k) /\ (rest # {} => "padding" \in Names(layout))
  <2>1. "padding" \notin FieldsOf(k)
    BY DEF FieldsOf
  <2> QED BY <2>1 DEF Carries
<1>2. ASSUME NEW n \in known PROVE Moved(struct[n], At(layout, n)) = Cells(k, s, {n})
  <2>1. /\ n \in FieldsOf(k) /\ At(layout, n) = At(Newest(k), n)
        /\ Room(layout, n) = Room(Newest(k), n)
    BY FieldLoaded
  <2>2. struct[n] = Content(s[n], Room(Newest(k), n))
    BY <2>1
  <2>3. Moved(Content(s[n], Room(Newest(k), n)), At(Newest(k), n)) = Cells(k, s, {n})
    BY <2>1, FieldMoved
  <2> QED BY <2>1, <2>2, <2>3
<1>3. "padding" \in Names(layout) =>
          Moved(struct["padding"], At(layout, "padding")) = Cells(k, s, rest)
  <2> SUFFICES ASSUME "padding" \in Names(layout)
               PROVE  Moved(struct["padding"], At(layout, "padding")) = Cells(k, s, rest)
    OBVIOUS
  <2>1. At(layout, "padding") \in Nat
    BY DEF Carries
  <2> QED BY <2>1, MovedBack
<1>4. FieldsOf(k) = known \cup rest
  <2>1. "padding" \notin FieldsOf(k)
    BY DEF FieldsOf
  <2> QED BY <1>1, <2>1
<1>5. Cells(k, s, FieldsOf(k)) = (UNION {Cells(k, s, {n}) : n \in known}) \cup Cells(k, s, rest)
  BY <1>4 DEF Cells
<1>6. Serialize(layout, struct) =
          (UNION {Moved(struct[n], At(layout, n)) : n \in known}) \cup
          (IF "padding" \in Names(layout) THEN Moved(struct["padding"], At(layout, "padding"))
           ELSE {})
  BY DEF Serialize
<1>7. UNION {Moved(struct[n], At(layout, n)) : n \in known} =
          UNION {Cells(k, s, {n}) : n \in known}
  BY <1>2
<1>8. "padding" \notin Names(layout) => Cells(k, s, rest) = {}
  BY <1>1 DEF Cells
<1> HIDE DEF known, rest
<1> QED BY <1>3, <1>5, <1>6, <1>7, <1>8

\* Every reader whose layout carries the fields reads what was stored.
LEMMA ReadsStored ==
    ASSUME NEW k \in Kinds, NEW layout, Carries(k, layout), NEW s \in Stores(k)
    PROVE  ReadAll(layout, Cells(k, s, FieldsOf(k))) =
               [n \in Names(layout) \ {"padding"} |-> s[n]]
<1>1. ASSUME NEW n \in Names(layout) \ {"padding"}
      PROVE  Read(Deserialize(layout, Cells(k, s, FieldsOf(k)))[n], Room(layout, n)) = s[n]
  <2>1. n \in FieldsOf(k)
    BY FieldLoaded
  <2>2. Deserialize(layout, Cells(k, s, FieldsOf(k)))[n] = Content(s[n], Room(layout, n))
    BY FieldLoaded DEF Deserialize
  <2>3. s[n] \in Values \cup {0}
    BY <2>1 DEF Stores
  <2> QED BY <2>2, <2>3, ReadBack
<1> QED BY <1>1 DEF ReadAll

-----------------------------------------------------------------------------
LEMMA AInitInvariant == AInit => DInv
<1> SUFFICES ASSUME AInit PROVE DInv
  OBVIOUS
<1>1. kind \in Kinds /\ release \in Releases
  BY DEF AInit, Releases
<1>2. stored \in [Addresses -> Stores(kind)]
  BY DEF AInit, Zeroes, Stores
<1>3. ASSUME NEW a \in Addresses
      PROVE  /\ accounts[a] = [size |-> accounts[a].size,
                               data |-> Cells(kind, stored[a], FieldsOf(kind))]
             /\ AccountOK(a)
  <2>1. \A n \in FieldsOf(kind) : stored[a][n] = 0
    BY DEF AInit, Zeroes
  <2>2. Cells(kind, stored[a], FieldsOf(kind)) = {}
    BY <2>1 DEF Cells
  <2>3. accounts[a] = NoAccount \/ (kind = "VaultState" /\ accounts[a] = WrittenOff)
    BY DEF AInit
  <2> QED BY <2>2, <2>3 DEF AccountOK, NoAccount, WrittenOff
<1>4. DOMAIN accounts = Addresses
  BY DEF AInit
<1> QED BY <1>1, <1>2, <1>3, <1>4 DEF DInv

\* Steps replace one account: its data and what is stored in it together.
LEMMA AccountReplaced ==
    ASSUME DInv, NEW a \in Addresses, NEW s \in Stores(kind), NEW acc,
           acc = [size |-> acc.size, data |-> Cells(kind, s, FieldsOf(kind))],
           \/ acc = NoAccount \/ acc.size = P!LEN[kind],
           accounts' = [accounts EXCEPT ![a] = acc], stored' = [stored EXCEPT ![a] = s],
           UNCHANGED <<kind, release>>
    PROVE  DInv'
<1>1. kind' \in Kinds /\ release' \in Releases /\ DOMAIN accounts' = Addresses
  BY DEF DInv
<1>2. stored' \in [Addresses -> Stores(kind')]
  BY DEF DInv
<1>3. ASSUME NEW b \in Addresses
      PROVE  /\ accounts'[b] = [size |-> accounts'[b].size,
                                data |-> Cells(kind', stored'[b], FieldsOf(kind'))]
             /\ AccountOK(b)'
  <2>1. CASE b = a
    <3>1. accounts'[b] = acc /\ stored'[b] = s
      BY <2>1 DEF DInv
    <3> QED BY <3>1 DEF AccountOK
  <2>2. CASE b # a
    <3>1. accounts'[b] = accounts[b] /\ stored'[b] = stored[b]
      BY <2>2 DEF DInv
    <3> QED BY <3>1 DEF DInv, AccountOK
  <2> QED BY <2>1, <2>2
<1> QED BY <1>1, <1>2, <1>3 DEF DInv

LEMMA CarriedByReleases ==
    ASSUME DInv
    PROVE  /\ Carries(kind, P!Layout(kind, release))
           /\ "padding" \notin P!Stored[kind]
           /\ kind = "VaultState" => ~Fits(P!Layout(kind, release), WrittenOff.size)
<1>1. LayoutsAgree(kind) /\ release \in Releases
  BY LayoutsHold DEF DInv
<1> QED BY <1>1 DEF LayoutsAgree

LEMMA CreateKeeps ==
    ASSUME DInv, NEW a \in Addresses, Create(a)
    PROVE  DInv'
<1> DEFINE layout == P!Layout(kind, release)
           opened == [n \in Names(layout) |->
                         IF n \in P!Stored[kind]
                         THEN Content(FirstValue, Room(layout, n)) ELSE {}]
           s == [n \in FieldsOf(kind) |->
                    IF n \in P!Stored[kind] \cap Names(layout) THEN FirstValue ELSE 0]
           acc == [size |-> P!LEN[kind], data |-> Serialize(layout, opened)]
<1>1. /\ accounts' = [accounts EXCEPT ![a] = acc] /\ stored' = [stored EXCEPT ![a] = s]
      /\ UNCHANGED <<kind, release>>
  BY DEF Create
<1>2. kind \in Kinds /\ Carries(kind, layout) /\ "padding" \notin P!Stored[kind]
  BY CarriedByReleases DEF DInv
<1>3. FirstValue \in Values /\ FirstValue # 0
  BY AccountDataAssumption DEF FirstValue
<1>4. s \in Stores(kind)
  BY <1>3 DEF Stores
<1>5. ASSUME NEW n \in Names(layout) \ {"padding"}
      PROVE  opened[n] = Content(s[n], Room(layout, n))
  <2>1. n \in FieldsOf(kind)
    BY <1>2, FieldLoaded
  <2>2. CASE n \in P!Stored[kind]
    BY <2>1, <2>2
  <2>3. CASE n \notin P!Stored[kind]
    BY <2>1, <2>3 DEF Content
  <2> QED BY <2>2, <2>3
<1>6. Cells(kind, s, FieldsOf(kind) \ Names(layout)) = {}
  BY DEF Cells
<1>7. "padding" \in Names(layout) =>
          opened["padding"] =
              Moved(Cells(kind, s, FieldsOf(kind) \ Names(layout)), -At(layout, "padding"))
  BY <1>2, <1>6 DEF Moved
<1> HIDE DEF layout, opened, s
<1>8. Serialize(layout, opened) = Cells(kind, s, FieldsOf(kind))
  BY <1>2, <1>5, <1>7, WrittenBack
<1>9. acc = [size |-> acc.size, data |-> Cells(kind, s, FieldsOf(kind))]
      /\ acc.size = P!LEN[kind]
  BY <1>8
<1> HIDE DEF acc
<1> QED BY <1>1, <1>4, <1>9, AccountReplaced

LEMMA StoreKeeps ==
    ASSUME DInv, NEW a \in Addresses, NEW n \in FieldsOf(kind), NEW v \in Values \cup {0},
           Store(a, n, v)
    PROVE  DInv'
<1> DEFINE layout == P!Layout(kind, release)
           data   == accounts[a].data
           loaded == Deserialize(layout, data)
           struct == [loaded EXCEPT ![n] = Content(v, Room(layout, n))]
           s      == [stored[a] EXCEPT ![n] = v]
           acc    == [size |-> accounts[a].size, data |-> Serialize(layout, struct)]
<1>0. /\ kind \in Kinds /\ stored \in [Addresses -> Stores(kind)] /\ DOMAIN accounts = Addresses
      /\ accounts[a] = [size |-> accounts[a].size,
                        data |-> Cells(kind, stored[a], FieldsOf(kind))]
      /\ AccountOK(a)
  BY DEF DInv
<1>1. /\ accounts[a] # NoAccount /\ Fits(layout, accounts[a].size)
      /\ n \in Names(layout) \ {"padding"}
      /\ accounts' = [accounts EXCEPT ![a].data = Serialize(layout, struct)]
      /\ stored' = [stored EXCEPT ![a][n] = v]
      /\ UNCHANGED <<kind, release>>
  BY DEF Store
<1>2. Carries(kind, layout)
  BY CarriedByReleases
<1>3. accounts[a].size = P!LEN[kind]
  BY <1>0, <1>1, CarriedByReleases DEF AccountOK
<1>4. stored' = [stored EXCEPT ![a] = s] /\ s \in Stores(kind)
  BY <1>0, <1>1 DEF Stores
<1>5. accounts' = [accounts EXCEPT ![a] = acc]
  <2>1. PICK d : d = Serialize(layout, struct)
    OBVIOUS
  <2>2. accounts' = [accounts EXCEPT ![a] = [@ EXCEPT !.data = d]]
    BY <1>1, <2>1
  <2>3. [accounts[a] EXCEPT !.data = d] = [size |-> accounts[a].size, data |-> d]
    BY <1>0
  <2> QED BY <2>1, <2>2, <2>3
<1>6. data = Cells(kind, stored[a], FieldsOf(kind))
  BY <1>0
<1>7. ASSUME NEW m \in Names(layout) \ {"padding"}
      PROVE  struct[m] = Content(s[m], Room(layout, m))
  <2>1. /\ m \in FieldsOf(kind)
        /\ Bytes(data, At(layout, m), Room(layout, m)) = Content(stored[a][m], Room(layout, m))
    BY <1>0, <1>2, <1>6, FieldLoaded
  <2>2. loaded[m] = Content(stored[a][m], Room(layout, m)) /\ DOMAIN loaded = Names(layout)
    BY <2>1 DEF Deserialize
  <2>3. s[m] = IF m = n THEN v ELSE stored[a][m]
    BY <1>0, <2>1 DEF Stores
  <2> HIDE DEF loaded, s, layout
  <2> QED BY <2>2, <2>3
<1>8. "padding" \in Names(layout) =>
          struct["padding"] =
              Moved(Cells(kind, s, FieldsOf(kind) \ Names(layout)), -At(layout, "padding"))
  <2> SUFFICES ASSUME "padding" \in Names(layout)
               PROVE  struct["padding"] =
                  Moved(Cells(kind, s, FieldsOf(kind) \ Names(layout)), -At(layout, "padding"))
    OBVIOUS
  <2>1. struct["padding"] = loaded["padding"]
    BY <1>1 DEF Deserialize
  <2>2. loaded["padding"] =
          Moved(Cells(kind, stored[a], FieldsOf(kind) \ Names(layout)), -At(layout, "padding"))
    BY <1>0, <1>2, <1>6, PaddingLoaded DEF Deserialize
  <2>3. \A m \in FieldsOf(kind) \ Names(layout) : s[m] = stored[a][m]
    BY <1>0, <1>1 DEF Stores
  <2>4. Cells(kind, s, FieldsOf(kind) \ Names(layout)) =
            Cells(kind, stored[a], FieldsOf(kind) \ Names(layout))
    BY <2>3 DEF Cells
  <2> QED BY <2>1, <2>2, <2>4
<1> HIDE DEF layout, struct, s
<1>9. Serialize(layout, struct) = Cells(kind, s, FieldsOf(kind))
  BY <1>0, <1>2, <1>7, <1>8, WrittenBack
<1>10. acc = [size |-> acc.size, data |-> Cells(kind, s, FieldsOf(kind))]
       /\ acc.size = P!LEN[kind]
  BY <1>3, <1>9
<1> HIDE DEF acc
<1> QED BY <1>1, <1>4, <1>5, <1>10, AccountReplaced

LEMMA CloseKeeps ==
    ASSUME DInv, NEW a \in Addresses, Close(a)
    PROVE  DInv'
<1>1. PICK s : s = Zeroes(kind)
  OBVIOUS
<1>2. s \in Stores(kind) /\ Cells(kind, s, FieldsOf(kind)) = {}
  BY <1>1 DEF Zeroes, Stores, Cells
<1>3. NoAccount = [size |-> NoAccount.size, data |-> Cells(kind, s, FieldsOf(kind))]
  BY <1>2 DEF NoAccount
<1>4. /\ accounts' = [accounts EXCEPT ![a] = NoAccount] /\ stored' = [stored EXCEPT ![a] = s]
      /\ UNCHANGED <<kind, release>>
  BY <1>1 DEF Close
<1> QED BY <1>2, <1>3, <1>4, AccountReplaced

LEMMA DInvariance == ASpec => []DInv
<1>1. AInit => DInv
  BY AInitInvariant
<1>2. ASSUME DInv, [ANext]_avars PROVE DInv'
  <2>1. ASSUME NEW r \in Releases, Deploy(r) PROVE DInv'
    BY <1>2, <2>1 DEF Deploy, DInv, AccountOK
  <2>2. CASE UNCHANGED avars
    BY <1>2, <2>2 DEF avars, DInv, AccountOK
  <2> QED BY <1>2, <2>1, <2>2, CreateKeeps, CloseKeeps, StoreKeeps DEF ANext
<1> QED BY <1>1, <1>2, PTL DEF ASpec

-----------------------------------------------------------------------------
\* The same of the accounts of a state.
LEMMA StoredRead ==
    ASSUME DInv, NEW a \in Addresses, NEW layout, Carries(kind, layout)
    PROVE  ReadAll(layout, accounts[a].data) = [n \in Names(layout) \ {"padding"} |-> stored[a][n]]
<1>1. PICK k, s : k = kind /\ s = stored[a]
  OBVIOUS
<1>2. /\ k \in Kinds /\ Carries(k, layout) /\ s \in Stores(k)
      /\ accounts[a].data = Cells(k, s, FieldsOf(k))
  BY <1>1 DEF DInv
<1>3. ReadAll(layout, Cells(k, s, FieldsOf(k))) = [n \in Names(layout) \ {"padding"} |-> s[n]]
  BY <1>2, ReadsStored
<1> QED BY <1>1, <1>2, <1>3

\* What a fetch returns is what was stored.
LEMMA FetchedAsStored ==
    ASSUME DInv, NEW struct \in C!Structs[kind], NEW batch \in SUBSET Addresses,
           NEW got \in Fetch(struct, batch)
    PROVE  got.address \in Addresses /\ got.data = stored[got.address]
<1>1. kind \in Kinds /\ Carries(kind, struct) /\ FieldsOf(kind) \subseteq Names(struct)
  BY LayoutsHold DEF DInv, LayoutsAgree
<1>2. PICK a \in Addresses : got = [address |-> a, data |-> ReadAll(struct, accounts[a].data)]
  BY DEF Fetch
<1>3. stored[a] \in Stores(kind) /\ accounts[a].data = Cells(kind, stored[a], FieldsOf(kind))
  BY DEF DInv
<1>4. got.data = [n \in Names(struct) \ {"padding"} |-> stored[a][n]]
  BY <1>1, <1>2, StoredRead
<1>5. Names(struct) \ {"padding"} = FieldsOf(kind)
  BY <1>1 DEF Carries, FieldsOf
<1> QED BY <1>2, <1>3, <1>4, <1>5 DEF Stores

\* Every reader finds in every field what was last stored there, over every
\* history of upgrades, rollbacks and reused addresses.
THEOREM PlacesKept == ASpec => []FieldsKeepTheirPlace
<1>1. DInv => FieldsKeepTheirPlace
  <2> SUFFICES ASSUME DInv PROVE FieldsKeepTheirPlace
    OBVIOUS
  <2>1. ASSUME NEW a \in Addresses, NEW r \in Releases,
               NEW n \in DOMAIN ReadAll(P!Layout(kind, r), accounts[a].data)
        PROVE  ReadAll(P!Layout(kind, r), accounts[a].data)[n] = stored[a][n]
    <3>1. kind \in Kinds /\ Carries(kind, P!Layout(kind, r))
      BY LayoutsHold DEF DInv, LayoutsAgree
    <3>2. stored[a] \in Stores(kind) /\ accounts[a].data = Cells(kind, stored[a], FieldsOf(kind))
      BY DEF DInv
    <3>3. ReadAll(P!Layout(kind, r), accounts[a].data) =
              [m \in Names(P!Layout(kind, r)) \ {"padding"} |-> stored[a][m]]
      BY <3>1, <3>2, StoredRead
    <3> QED BY <2>1, <3>3
  <2> QED BY <2>1, FetchedAsStored DEF FieldsKeepTheirPlace
<1> QED BY <1>1, DInvariance, PTL

\* No upgrade and no rollback locks an account out.
THEOREM AllReadable == ASpec => []NeverLockedOut
<1>1. DInv => NeverLockedOut
  <2> SUFFICES ASSUME DInv, NEW a \in Addresses, accounts[a] \notin {NoAccount, WrittenOff}
               PROVE  /\ \A r \in Releases : Fits(P!Layout(kind, r), accounts[a].size)
                      /\ \A struct \in C!Structs[kind] : Fetch(struct, {a}) # {}
    BY DEF NeverLockedOut
  <2>1. accounts[a].size = P!LEN[kind] /\ LayoutsAgree(kind)
    BY LayoutsHold DEF DInv, AccountOK
  <2>2. \A r \in Releases : Fits(P!Layout(kind, r), accounts[a].size)
    BY <2>1 DEF LayoutsAgree
  <2>3. ASSUME NEW struct \in C!Structs[kind] PROVE Fetch(struct, {a}) # {}
    <3>1. Fits(struct, accounts[a].size)
      BY <2>1 DEF LayoutsAgree
    <3>2. [address |-> a, data |-> ReadAll(struct, accounts[a].data)] \in Fetch(struct, {a})
      BY <3>1 DEF Fetch
    <3> QED BY <3>2
  <2> QED BY <2>2, <2>3
<1> QED BY <1>1, DInvariance, PTL

\* The client's helpers decide as the program does, from equal fields.
LEMMA HelpersAgree ==
    ASSUME NEW s, NEW d
    PROVE  C!Advice(s, d) = P!Decisions(s, d)
<1>1. C!EXTRA_SHARES = P!EXTRA_SHARES /\ C!MIN_SUPPLY_MULTIPLE = P!MIN_SUPPLY_MULTIPLE
  BY SMT DEF C!EXTRA_SHARES, P!EXTRA_SHARES, C!MIN_SUPPLY_MULTIPLE, P!MIN_SUPPLY_MULTIPLE
<1>2. \A x : C!resolved_share_offset(x) = P!share_offset(x)
  BY <1>1 DEF C!resolved_share_offset, P!share_offset
<1>3. \A x : C!min_first_deposit(d, x) = P!min_first_deposit(d, x)
  BY <1>1, <1>2 DEF C!min_first_deposit, P!min_first_deposit, P!MinFirstDeposit,
                    P!MinOpeningSupply, P!Larger
<1> QED BY <1>2, <1>3 DEF C!Advice, P!Decisions, C!withdrawal_queue, P!withdrawal_queue,
                        C!requires_subaccount, P!requires_subaccount

\* What the hand-written helpers advise is what the deployed program decides.
THEOREM AdviceIsDecision == ASpec => []AdviceHolds
<1>1. DInv => AdviceHolds
  <2> SUFFICES ASSUME DInv, kind = "VaultState", release = 4,
                      NEW struct \in C!Structs[kind], NEW a \in Addresses, NEW d \in Decimals,
                      NEW got \in Fetch(struct, {a})
               PROVE  C!Advice(got.data, d) =
                          P!Decisions(ReadAll(P!Layout(kind, release), accounts[a].data), d)
    BY DEF AdviceHolds
  <2>1. got.address = a
    BY DEF Fetch
  <2>2. got.data = stored[a]
    BY <2>1, FetchedAsStored
  <2>3. kind \in Kinds /\ Carries(kind, P!Layout(kind, release))
    BY CarriedByReleases DEF DInv
  <2>4. stored[a] \in Stores(kind) /\ accounts[a].data = Cells(kind, stored[a], FieldsOf(kind))
    BY DEF DInv
  <2>5. ReadAll(P!Layout(kind, release), accounts[a].data) = [n \in FieldsOf(kind) |-> stored[a][n]]
    BY <2>3, <2>4, StoredRead DEF FieldsOf
  <2>6. stored[a] = [n \in FieldsOf(kind) |-> stored[a][n]]
    BY <2>4 DEF Stores
  <2> QED BY <2>2, <2>5, <2>6, HelpersAgree
<1> QED BY <1>1, DInvariance, PTL
=============================================================================
