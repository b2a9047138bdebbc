------------------------- MODULE EspSchedulerProofs -------------------------
(***************************************************************************)
(* Proofs about the scheduler, for every number of tasks and timers, every *)
(* interval and every width of the word.  The list of timers is sorted     *)
(* when a timer is set and never while time passes; that it stays sorted,  *)
(* and that its words stay exact across the wrap, rests on EspTimeProofs.  *)
(***************************************************************************)
EXTENDS EspScheduler, EspTimeProofs, SequenceTheorems, FiniteSetTheorems,
        WellFoundedInduction

Entries == [id : Ids, at : Word]

\* No timer is twice in a list.
Unique(list) == \A i, j \in DOMAIN list : list[i].id = list[j].id => i = j

\* A list in which the words say how late its timers are.
Exact(list) == \A i \in DOMAIN list : Overdue(list[i]) = late[list[i].id]
Sorted(list) == \A i, j \in DOMAIN list : i < j => Overdue(list[i]) >= Overdue(list[j])
IdsOf(list) == {list[i].id : i \in DOMAIN list}
ListOf(list) == list \in Seq(Entries) /\ Unique(list) /\ Exact(list) /\ Sorted(list)

\* Inductive, with the types below: the list and the clock.
Lates == -HalfMax .. MaxLag
ListInv == now \in Word /\ late \in [Ids -> Lates] /\ ListOf(timers)

\* RemoveAt at a position of the list leaves the others in their order.
LEMMA RemoveAtProperties ==
  ASSUME NEW S, NEW s \in Seq(S), NEW i \in 1 .. Len(s)
  PROVE  /\ RemoveAt(s, i) \in Seq(S)
         /\ Len(RemoveAt(s, i)) = Len(s) - 1
         /\ \A j \in 1 .. Len(s) - 1 :
              RemoveAt(s, i)[j] = IF j < i THEN s[j] ELSE s[j + 1]
<1> DEFINE u == SubSeq(s, 1, i - 1)
           v == SubSeq(s, i + 1, Len(s))
<1>1. Len(s) \in Nat /\ \A j \in 1 .. Len(s) : s[j] \in S
  BY LenProperties, ElementOfSeq
<1>2. /\ u \in Seq(S) /\ Len(u) = i - 1
      /\ \A j \in 1 .. i - 1 : u[j] = s[j]
  <2>1. \A j \in 1 .. i - 1 : s[j] \in S
    BY <1>1
  <2> QED BY <1>1, <2>1, SubSeqProperties
<1>3. /\ v \in Seq(S) /\ Len(v) = Len(s) - i
      /\ \A j \in 1 .. Len(s) - i : v[j] = s[j + i]
  <2>1. \A j \in i + 1 .. Len(s) : s[j] \in S
    BY <1>1
  <2>2. Len(s) \in Int /\ i + 1 \in Int
    BY <1>1
  <2>3. /\ v \in Seq(S) /\ Len(v) = (IF i + 1 <= Len(s) THEN Len(s) - (i + 1) + 1 ELSE 0)
        /\ \A j \in 1 .. Len(s) - (i + 1) + 1 : v[j] = s[(i + 1) + j - 1]
    BY <2>1, <2>2, SubSeqProperties
  <2> QED BY <1>1, <2>3
<1>4. RemoveAt(s, i) = u \o v
  BY DEF RemoveAt
<1> HIDE DEF u, v
<1>5. /\ u \o v \in Seq(S) /\ Len(u \o v) = Len(s) - 1
      /\ \A j \in 1 .. Len(s) - 1 : (u \o v)[j] = IF j <= i - 1 THEN u[j] ELSE v[j - (i - 1)]
  <2>1. /\ u \o v \in Seq(S) /\ Len(u \o v) = Len(u) + Len(v)
        /\ \A j \in 1 .. Len(u) + Len(v) :
             (u \o v)[j] = IF j <= Len(u) THEN u[j] ELSE v[j - Len(u)]
    BY <1>2, <1>3, ConcatProperties
  <2>2. Len(u) + Len(v) = Len(s) - 1
    BY <1>1, <1>2, <1>3
  <2> QED BY <2>1, <2>2, <1>2
<1>6. ASSUME NEW j \in 1 .. Len(s) - 1
      PROVE  (u \o v)[j] = IF j < i THEN s[j] ELSE s[j + 1]
  <2>1. CASE j < i
    BY <1>1, <1>2, <1>5, <2>1
  <2>2. CASE ~(j < i)
    <3>1. j - (i - 1) \in 1 .. Len(s) - i
      BY <1>1, <2>2
    <3> QED BY <1>1, <1>3, <1>5, <2>2, <3>1
  <2> QED BY <2>1, <2>2
<1> QED BY <1>4, <1>5, <1>6

\* RemoveAt at no position leaves the list as it is.
LEMMA RemoveAtNone ==
  ASSUME NEW S, NEW s \in Seq(S)
  PROVE  RemoveAt(s, 0) = s
<1>1. Len(s) \in Nat
  BY LenProperties
<1>2. SubSeq(s, 1, 0 - 1) = <<>>
  BY SubSeqEmpty
<1>3. SubSeq(s, 0 + 1, Len(s)) = s
  BY SubSeqFull
<1> QED BY <1>2, <1>3, ConcatEmptySeq DEF RemoveAt

\* InsertAt puts one element between others that keep their order.
LEMMA InsertAtProperties ==
  ASSUME NEW S, NEW s \in Seq(S), NEW e \in S, NEW i \in 1 .. Len(s) + 1
  PROVE  /\ InsertAt(s, i, e) \in Seq(S)
         /\ Len(InsertAt(s, i, e)) = Len(s) + 1
         /\ \A j \in 1 .. Len(s) + 1 :
              InsertAt(s, i, e)[j] = IF j < i THEN s[j] ELSE IF j = i THEN e ELSE s[j - 1]
<1> DEFINE u == SubSeq(s, 1, i - 1)
           v == SubSeq(s, i, Len(s))
           w == <<e>>
<1>1. Len(s) \in Nat /\ \A j \in 1 .. Len(s) : s[j] \in S
  BY LenProperties, ElementOfSeq
<1>2. /\ u \in Seq(S) /\ Len(u) = i - 1
      /\ \A j \in 1 .. i - 1 : u[j] = s[j]
  <2>1. \A j \in 1 .. i - 1 : s[j] \in S
    BY <1>1
  <2> QED BY <1>1, <2>1, SubSeqProperties
<1>3. /\ v \in Seq(S) /\ Len(v) = Len(s) - i + 1
      /\ \A j \in 1 .. Len(s) - i + 1 : v[j] = s[j + i - 1]
  <2>1. \A j \in i .. Len(s) : s[j] \in S
    BY <1>1
  <2>2. Len(s) \in Int /\ i \in Int
    BY <1>1
  <2>3. /\ v \in Seq(S) /\ Len(v) = (IF i <= Len(s) THEN Len(s) - i + 1 ELSE 0)
        /\ \A j \in 1 .. Len(s) - i + 1 : v[j] = s[i + j - 1]
    BY <2>1, <2>2, SubSeqProperties
  <2> QED BY <1>1, <2>3
<1>4. w \in Seq(S) /\ Len(w) = 1 /\ w[1] = e
  OBVIOUS
<1> DEFINE x == u \o w
<1>5. InsertAt(s, i, e) = x \o v
  BY DEF InsertAt
<1> HIDE DEF u, v, w, x
<1>6. /\ x \in Seq(S) /\ Len(x) = i
      /\ \A j \in 1 .. i : x[j] = IF j <= i - 1 THEN u[j] ELSE w[j - (i - 1)]
  <2>1. /\ x \in Seq(S) /\ Len(x) = Len(u) + Len(w)
        /\ \A j \in 1 .. Len(u) + Len(w) : x[j] = IF j <= Len(u) THEN u[j] ELSE w[j - Len(u)]
    BY <1>2, <1>4, ConcatProperties DEF x
  <2>2. Len(u) + Len(w) = i
    BY <1>1, <1>2, <1>4
  <2> QED BY <2>1, <2>2, <1>2
<1>7. /\ x \o v \in Seq(S) /\ Len(x \o v) = Len(s) + 1
      /\ \A j \in 1 .. Len(s) + 1 : (x \o v)[j] = IF j <= i THEN x[j] ELSE v[j - i]
  <2>1. /\ x \o v \in Seq(S) /\ Len(x \o v) = Len(x) + Len(v)
        /\ \A j \in 1 .. Len(x) + Len(v) :
             (x \o v)[j] = IF j <= Len(x) THEN x[j] ELSE v[j - Len(x)]
    BY <1>6, <1>3, ConcatProperties
  <2>2. Len(x) + Len(v) = Len(s) + 1
    BY <1>1, <1>3, <1>6
  <2> QED BY <2>1, <2>2, <1>6
<1>8. ASSUME NEW j \in 1 .. Len(s) + 1
      PROVE  (x \o v)[j] = IF j < i THEN s[j] ELSE IF j = i THEN e ELSE s[j - 1]
  <2>0. (x \o v)[j] = IF j <= i THEN x[j] ELSE v[j - i]
    BY <1>7
  <2>1. CASE j < i
    <3>1. j \in 1 .. i /\ j \in 1 .. i - 1 /\ j <= i /\ j <= i - 1
      BY <1>1, <2>1
    <3>2. x[j] = u[j] /\ u[j] = s[j]
      BY <3>1, <1>2, <1>6
    <3> QED BY <2>0, <2>1, <3>1, <3>2
  <2>2. CASE j = i
    <3>1. j \in 1 .. i /\ ~(j <= i - 1) /\ j - (i - 1) = 1 /\ j <= i /\ ~(j < i)
      BY <1>1, <2>2
    <3>2. x[j] = e
      BY <3>1, <1>4, <1>6
    <3> QED BY <2>0, <2>2, <3>1, <3>2
  <2>3. CASE j > i
    <3>1. j - i \in 1 .. Len(s) - i + 1 /\ (j - i) + i - 1 = j - 1
          /\ ~(j <= i) /\ ~(j < i) /\ j # i
      BY <1>1, <2>3
    <3>2. v[j - i] = s[j - 1]
      BY <3>1, <1>3
    <3> QED BY <2>0, <3>1, <3>2
  <2>4. j < i \/ j = i \/ j > i
    BY <1>1
  <2> QED BY <2>1, <2>2, <2>3, <2>4
<1> QED BY <1>5, <1>7, <1>8
-----------------------------------------------------------------------------
\* TimeDiff of two words is an integer.
LEMMA OverdueIsInt ==
  ASSUME now \in Word, NEW e \in Entries
  PROVE  Overdue(e) \in Int
BY HalfIsNatural DEF Entries, Overdue, TimeDiff, ToLong, Negate, Word, HalfMax

\* The position of a timer in a list, or 0.
LEMMA PositionIs ==
  ASSUME NEW list \in Seq(Entries), NEW id
  PROVE  \/ /\ Position(list, id) \in DOMAIN list
            /\ list[Position(list, id)].id = id
         \/ /\ Position(list, id) = 0
            /\ \A i \in DOMAIN list : list[i].id # id
BY DEF Position

\* remove_if: the timer is gone, the others are there in their order.
LEMMA RestIs ==
  ASSUME now \in Word, NEW list \in Seq(Entries), Unique(list), Sorted(list), NEW id,
         NEW rest, rest = RemoveAt(list, Position(list, id))
  PROVE  /\ rest \in Seq(Entries) /\ Unique(rest) /\ Sorted(rest)
         /\ \A i \in DOMAIN rest : \E j \in DOMAIN list : rest[i] = list[j] /\ list[j].id # id
         /\ \A j \in DOMAIN list : list[j].id # id => \E i \in DOMAIN rest : rest[i] = list[j]
<1> DEFINE p == Position(list, id)
<1>0. DOMAIN list = 1 .. Len(list) /\ Len(list) \in Nat
  BY LenProperties
<1>1. CASE p = 0 /\ \A i \in DOMAIN list : list[i].id # id
  <2>1. rest = list
    BY <1>1, RemoveAtNone
  <2> QED BY <2>1, <1>1
<1>2. CASE p \in DOMAIN list /\ list[p].id = id
  <2> HIDE DEF p
  <2>1. /\ rest \in Seq(Entries) /\ Len(rest) = Len(list) - 1
        /\ \A j \in 1 .. Len(list) - 1 : rest[j] = IF j < p THEN list[j] ELSE list[j + 1]
    BY <1>0, <1>2, RemoveAtProperties DEF p
  <2>2. DOMAIN rest = 1 .. Len(list) - 1
    BY <2>1, LenProperties
  <2> DEFINE old(j) == IF j < p THEN j ELSE j + 1
  <2>3. \A j \in DOMAIN rest : /\ old(j) \in DOMAIN list /\ old(j) # p
                               /\ rest[j] = list[old(j)]
    BY <1>0, <1>2, <2>1, <2>2
  <2>4. \A i, j \in DOMAIN rest : (i < j => old(i) < old(j)) /\ (old(i) = old(j) => i = j)
    BY <1>0, <1>2, <2>2
  <2>5. \A k \in DOMAIN list : k # p => \E j \in DOMAIN rest : old(j) = k
    <3> SUFFICES ASSUME NEW k \in DOMAIN list, k # p
                 PROVE  \E j \in DOMAIN rest : old(j) = k
      OBVIOUS
    <3>1. CASE k < p
      BY <1>0, <1>2, <2>2, <3>1
    <3>2. CASE k > p
      <4>1. k - 1 \in DOMAIN rest /\ old(k - 1) = k
        BY <1>0, <1>2, <2>2, <3>2
      <4> QED BY <4>1
    <3> QED BY <1>0, <1>2, <3>1, <3>2
  <2> HIDE DEF old
  <2>6. Unique(rest)
    BY <2>3, <2>4 DEF Unique
  <2>7. Sorted(rest)
    BY <2>3, <2>4 DEF Sorted
  <2>8. \A i \in DOMAIN rest : \E j \in DOMAIN list : rest[i] = list[j] /\ list[j].id # id
    BY <2>3, <1>2 DEF Unique
  <2>9. \A j \in DOMAIN list : list[j].id # id => \E i \in DOMAIN rest : rest[i] = list[j]
    BY <2>3, <2>5, <1>2
  <2> QED BY <2>1, <2>6, <2>7, <2>8, <2>9
<1> QED BY <1>1, <1>2, PositionIs

\* A set of natural numbers that is not empty has a least one.
LEMMA NatMinimum ==
  ASSUME NEW T \in SUBSET Nat, T # {}
  PROVE  \E n \in T : \A m \in T : n <= m
<1> DEFINE R == {ss \in Nat \X Nat : ss[1] < ss[2]}
<1>1. IsWellFoundedOn(R, Nat)
  BY NatLessThanWellFounded DEF OpToRel
<1>2. PICK x \in T : \A y \in T : <<y, x>> \notin R
  <2>1. T \subseteq Nat /\ T # {}
    OBVIOUS
  <2> HIDE DEF R
  <2> QED BY <1>1, <2>1, WFMin
<1>3. ASSUME NEW y \in T PROVE x <= y
  <2>1. x \in Nat /\ y \in Nat
    OBVIOUS
  <2>2. y < x => <<y, x>> \in R
    BY <2>1
  <2> QED BY <1>2, <2>1, <2>2
<1> QED BY <1>3

\* In a sorted list the timers more overdue than a new one are its first ones.
LEMMA BeforeIsPrefix ==
  ASSUME NEW rest \in Seq(Entries), Sorted(rest), now \in Word, NEW e \in Entries
  PROVE  \E n \in 0 .. Len(rest) :
           {i \in DOMAIN rest : Overdue(rest[i]) > Overdue(e)} = 1 .. n
<1> DEFINE before == {i \in DOMAIN rest : Overdue(rest[i]) > Overdue(e)}
<1>1. DOMAIN rest = 1 .. Len(rest) /\ Len(rest) \in Nat
  BY LenProperties
<1>2. Overdue(e) \in Int /\ \A i \in DOMAIN rest : Overdue(rest[i]) \in Int
  BY <1>1, ElementOfSeq, OverdueIsInt
<1>3. ASSUME NEW i \in before, NEW j \in 1 .. i PROVE j \in before
  <2>1. i \in 1 .. Len(rest) /\ j \in DOMAIN rest /\ i \in DOMAIN rest
    BY <1>1
  <2>2. j = i \/ j < i
    BY <2>1
  <2>3. j < i => Overdue(rest[j]) >= Overdue(rest[i])
    BY <2>1 DEF Sorted
  <2> QED BY <1>2, <2>1, <2>2, <2>3
<1>4. before \subseteq 1 .. Len(rest)
  BY <1>1
<1> HIDE DEF before
<1> DEFINE T == {n \in 0 .. Len(rest) : \A i \in before : i <= n}
<1>5. PICK n \in T : \A m \in T : n <= m
  <2>1. Len(rest) \in T /\ T \subseteq Nat
    BY <1>1, <1>4
  <2> HIDE DEF T
  <2> QED BY <2>1, NatMinimum
<1>6. 1 .. n \subseteq before
  <2>1. CASE n = 0
    BY <2>1
  <2>2. CASE n > 0
    <3>1. n - 1 \notin T
      BY <1>5, <2>2
    <3>2. PICK i \in before : ~(i <= n - 1)
      BY <1>1, <3>1, <2>2
    <3>3. i = n
      BY <1>1, <1>4, <3>2
    <3> QED BY <1>3, <3>3
  <2> QED BY <2>1, <2>2
<1>7. before \subseteq 1 .. n
  BY <1>1, <1>4
<1> QED BY <1>6, <1>7 DEF before

\* The list new is list with the entry e in it, once, at its place.
IsInserted(new, list, e) ==
  /\ new \in Seq(Entries) /\ Unique(new) /\ Sorted(new)
  /\ \A i \in DOMAIN new : new[i] = e \/ \E j \in DOMAIN list : new[i] = list[j] /\ list[j].id # e.id
  /\ \E i \in DOMAIN new : new[i] = e
  /\ \A j \in DOMAIN list : list[j].id # e.id => \E i \in DOMAIN new : new[i] = list[j]

\* What registerAt makes of a list: sorted again, with the new timer in it once
\* and the other timers as they were.
LEMMA InsertIs ==
  ASSUME now \in Word, NEW list \in Seq(Entries), Unique(list), Sorted(list),
         NEW e \in Entries
  PROVE  IsInserted(Insert(list, e), list, e)
<1> DEFINE rest == RemoveAt(list, Position(list, e.id))
           before == {i \in DOMAIN rest : Overdue(rest[i]) > Overdue(e)}
           new == Insert(list, e)
<1>1. /\ rest \in Seq(Entries) /\ Unique(rest) /\ Sorted(rest)
      /\ \A i \in DOMAIN rest : \E j \in DOMAIN list : rest[i] = list[j] /\ list[j].id # e.id
      /\ \A j \in DOMAIN list : list[j].id # e.id => \E i \in DOMAIN rest : rest[i] = list[j]
  <2>1. rest = RemoveAt(list, Position(list, e.id))
    OBVIOUS
  <2> HIDE DEF rest
  <2> QED BY <2>1, RestIs
<1>2. new = InsertAt(rest, Cardinality(before) + 1, e)
  BY DEF Insert
<1> HIDE DEF rest, new
<1>3. PICK n \in 0 .. Len(rest) : before = 1 .. n
  BY <1>1, BeforeIsPrefix
<1>4. DOMAIN rest = 1 .. Len(rest) /\ Len(rest) \in Nat
  BY <1>1, LenProperties
<1>5. Cardinality(before) = n
  <2>1. n \in Nat
    BY <1>4
  <2>2. Cardinality(1 .. n) = IF 1 > n THEN 0 ELSE n - 1 + 1
    BY <2>1, FS_Interval
  <2>3. Cardinality(1 .. n) = n
    BY <2>1, <2>2
  <2> QED BY <1>3, <2>3
<1>6. Overdue(e) \in Int /\ \A i \in DOMAIN rest : Overdue(rest[i]) \in Int
  BY <1>1, <1>4, ElementOfSeq, OverdueIsInt
<1>7. \A i \in DOMAIN rest : (i <= n => Overdue(rest[i]) >= Overdue(e))
                            /\ (i > n => Overdue(e) >= Overdue(rest[i]))
  <2> SUFFICES ASSUME NEW i \in DOMAIN rest
               PROVE  (i <= n => Overdue(rest[i]) >= Overdue(e))
                      /\ (i > n => Overdue(e) >= Overdue(rest[i]))
    OBVIOUS
  <2>1. i \in before <=> i <= n
    BY <1>3, <1>4
  <2>2. i \in before <=> Overdue(rest[i]) > Overdue(e)
    OBVIOUS
  <2> QED BY <1>4, <1>6, <2>1, <2>2
<1> HIDE DEF before
<1>8. /\ new \in Seq(Entries) /\ Len(new) = Len(rest) + 1
      /\ \A j \in 1 .. Len(rest) + 1 :
           new[j] = IF j < n + 1 THEN rest[j] ELSE IF j = n + 1 THEN e ELSE rest[j - 1]
  <2>1. n + 1 \in 1 .. Len(rest) + 1
    BY <1>4
  <2> QED BY <1>1, <1>2, <1>5, <2>1, InsertAtProperties
<1>9. DOMAIN new = 1 .. Len(rest) + 1
  BY <1>8, LenProperties
<1> DEFINE old(j) == IF j <= n THEN j ELSE j - 1
<1>10. n + 1 \in DOMAIN new /\ new[n + 1] = e
  BY <1>4, <1>8, <1>9
<1>11. \A j \in DOMAIN new : j # n + 1 => old(j) \in DOMAIN rest /\ new[j] = rest[old(j)]
  BY <1>4, <1>8, <1>9
<1>12. \A k \in DOMAIN rest : \E j \in DOMAIN new : j # n + 1 /\ old(j) = k
  <2> SUFFICES ASSUME NEW k \in DOMAIN rest
               PROVE  \E j \in DOMAIN new : j # n + 1 /\ old(j) = k
    OBVIOUS
  <2>1. CASE k <= n
    BY <1>4, <1>9, <2>1
  <2>2. CASE k > n
    <3>1. k + 1 \in DOMAIN new /\ k + 1 # n + 1 /\ old(k + 1) = k
      BY <1>4, <1>9, <2>2
    <3> QED BY <3>1
  <2> QED BY <1>4, <2>1, <2>2
<1>13. \A i, j \in DOMAIN new : i # n + 1 /\ j # n + 1 =>
         (i < j => old(i) < old(j)) /\ (old(i) = old(j) => i = j)
  BY <1>4, <1>9
<1>14. \A j \in DOMAIN new : (j < n + 1 => old(j) <= n) /\ (j > n + 1 => old(j) > n)
  BY <1>4, <1>9
<1>15. DOMAIN new \subseteq Nat
  BY <1>4, <1>9
<1> HIDE DEF old
<1>16. Unique(new)
  <2> SUFFICES ASSUME NEW i \in DOMAIN new, NEW j \in DOMAIN new, new[i].id = new[j].id
               PROVE  i = j
    BY DEF Unique
  <2>1. \A k \in DOMAIN rest : rest[k].id # e.id
    BY <1>1
  <2>2. CASE i = n + 1 \/ j = n + 1
    BY <1>10, <1>11, <2>1, <2>2
  <2>3. CASE i # n + 1 /\ j # n + 1
    BY <1>1, <1>11, <1>13, <2>3 DEF Unique
  <2> QED BY <2>2, <2>3
<1>17. Sorted(new)
  <2> SUFFICES ASSUME NEW i \in DOMAIN new, NEW j \in DOMAIN new, i < j
               PROVE  Overdue(new[i]) >= Overdue(new[j])
    BY DEF Sorted
  <2>1. CASE i = n + 1
    <3>1. j # n + 1 /\ old(j) > n
      BY <1>14, <1>15, <2>1
    <3> QED BY <1>7, <1>10, <1>11, <2>1, <3>1
  <2>2. CASE j = n + 1
    <3>1. i # n + 1 /\ old(i) <= n
      BY <1>14, <1>15, <2>2
    <3> QED BY <1>7, <1>10, <1>11, <2>2, <3>1
  <2>3. CASE i # n + 1 /\ j # n + 1
    BY <1>1, <1>11, <1>13, <2>3 DEF Sorted
  <2> QED BY <2>1, <2>2, <2>3
<1>18. \A i \in DOMAIN new : new[i] = e \/ \E j \in DOMAIN list : new[i] = list[j] /\ list[j].id # e.id
  BY <1>1, <1>10, <1>11
<1>19. \A j \in DOMAIN list : list[j].id # e.id => \E i \in DOMAIN new : new[i] = list[j]
  BY <1>1, <1>11, <1>12
<1> QED BY <1>8, <1>10, <1>16, <1>17, <1>18, <1>19 DEF IsInserted, new
-----------------------------------------------------------------------------
\* The bounds of the assumptions, as integers.
LEMMA Bounds ==
  /\ HalfMax \in Nat /\ MaxLag \in 0 .. HalfMax /\ Words = 2 * HalfMax + 2
  /\ 0 .. HalfMax \subseteq Word /\ Soon \in 0 .. HalfMax
  /\ Step \in [Periodic -> 1 .. HalfMax] /\ StartDelay \in [Ids -> 0 .. HalfMax]
  /\ Intervals \subseteq 0 .. HalfMax /\ PulseTimes \subseteq 0 .. HalfMax
  /\ Mqtt \in Periodic
<1>1. HalfMax \in Nat /\ Words = 2 * HalfMax + 2
  BY HalfIsNatural DEF HalfMax
<1>2. 0 .. HalfMax \subseteq Word
  BY <1>1 DEF Word
<1> QED BY <1>1, <1>2, SchedulerAssumption

\* Timers of different kinds have different ids.
LEMMA IdsDiffer ==
  /\ \A t \in Tasks : TaskId(t) \in Ids
  /\ \A i \in Periodic : IntervalId(i) \in Ids
  /\ \A k \in Keys : PluginId(k) \in Ids
  /\ \A id \in Ids : id # Loop /\ id # Event
  /\ \A t, u : TaskId(t) = TaskId(u) => t = u
  /\ \A t, i : TaskId(t) # IntervalId(i) /\ TaskId(t) # PluginId(i)
  /\ Loop # Event
BY DEF Ids, TaskId, IntervalId, PluginId, Loop, Event

\* Setting a timer in a list that is in order.
LEMMA ScheduleKeeps ==
  ASSUME now \in Word, late \in [Ids -> Lates], NEW list, ListOf(list),
         NEW id \in Ids, NEW at \in Word, NEW l \in Lates, TimeDiff(at, now) = l,
         Schedule(list, id, at, l), now' = now
  PROVE  ListInv' /\ Queued' = IdsOf(list) \union {id}
<1>1. PICK e \in [id : {id}, at : {at}] : timers' = Insert(list, e)
  BY DEF Schedule
<1>2. e.id = id /\ e.at = at /\ e \in Entries
  BY DEF Entries
<1>3. late' = [late EXCEPT ![id] = l]
  BY DEF Schedule
<1>4. /\ timers' \in Seq(Entries) /\ Unique(timers') /\ Sorted(timers')
      /\ \A i \in DOMAIN timers' :
           timers'[i] = e \/ \E j \in DOMAIN list : timers'[i] = list[j] /\ list[j].id # e.id
      /\ \E i \in DOMAIN timers' : timers'[i] = e
      /\ \A j \in DOMAIN list : list[j].id # e.id => \E i \in DOMAIN timers' : timers'[i] = list[j]
  <2>1. list \in Seq(Entries) /\ Unique(list) /\ Sorted(list)
    BY DEF ListOf
  <2>2. IsInserted(Insert(list, e), list, e)
    BY <1>2, <2>1, InsertIs
  <2>3. IsInserted(timers', list, e)
    BY <1>1, <2>2
  <2> QED BY <2>3 DEF IsInserted
<1>5. ASSUME NEW i \in DOMAIN timers' PROVE TimeDiff(timers'[i].at, now) = late'[timers'[i].id]
  <2>1. CASE timers'[i] = e
    BY <1>2, <1>3, <2>1
  <2>2. CASE \E j \in DOMAIN list : timers'[i] = list[j] /\ list[j].id # e.id
    <3>1. PICK j \in DOMAIN list : timers'[i] = list[j] /\ list[j].id # e.id
      BY <2>2
    <3>2. TimeDiff(list[j].at, now) = late[list[j].id]
      BY DEF ListOf, Exact, Overdue
    <3>3. list[j].id \in Ids
      <4>1. list \in Seq(Entries)
        BY DEF ListOf
      <4>2. list[j] \in Entries
        BY <3>1, <4>1, LenProperties, ElementOfSeq
      <4> QED BY <4>2 DEF Entries
    <3> QED BY <1>2, <1>3, <3>1, <3>2, <3>3
  <2> QED BY <1>4, <2>1, <2>2
<1>6. ListOf(timers)'
  BY <1>4, <1>5 DEF ListOf, Exact, Sorted, Unique, Overdue
<1>7. Queued' = IdsOf(list) \union {id}
  BY <1>2, <1>4 DEF Queued, IdsOf
<1>8. late' \in [Ids -> Lates]
  BY <1>3
<1> QED BY <1>6, <1>7, <1>8 DEF ListInv

\* Setting a timer from the present moment.
LEMMA SetTimerKeeps ==
  ASSUME ListInv, NEW id \in Ids, NEW delay \in 0 .. HalfMax, SetTimer(id, delay), now' = now
  PROVE  ListInv' /\ Queued' = Queued \union {id}
<1>1. Plus(now, delay) \in Word
  BY Bounds, PlusIsWord DEF ListInv
<1>2. TimeDiff(Plus(now, delay), now) = -delay
  BY NewTimerIsNotDue DEF ListInv
<1>3. -delay \in Lates
  BY Bounds DEF Lates
<1> QED BY <1>1, <1>2, <1>3, ScheduleKeeps DEF SetTimer, ListInv, Queued, IdsOf

\* The list without the timer that is handled.
LEMMA TailKeeps ==
  ASSUME ListInv, timers # <<>>
  PROVE  /\ ListOf(Tail(timers))
         /\ IdsOf(Tail(timers)) = Queued \ {Head(timers).id}
         /\ Head(timers) \in Entries
         /\ Overdue(Head(timers)) = late[Head(timers).id]
<1>1. timers \in Seq(Entries) /\ Unique(timers) /\ Exact(timers) /\ Sorted(timers)
  BY DEF ListInv, ListOf
<1>2. /\ Tail(timers) \in Seq(Entries) /\ Len(Tail(timers)) = Len(timers) - 1
      /\ \A i \in 1 .. Len(Tail(timers)) : Tail(timers)[i] = timers[i + 1]
      /\ Head(timers) \in Entries
  BY <1>1, HeadTailProperties
<1>3. DOMAIN timers = 1 .. Len(timers) /\ Len(timers) \in Nat \ {0}
  BY <1>1, LenProperties, EmptySeq
<1>4. DOMAIN Tail(timers) = 1 .. Len(timers) - 1
  BY <1>2, LenProperties
<1>5. Head(timers) = timers[1]
  BY <1>1
<1> DEFINE rest == Tail(timers)
<1>6. \A i \in DOMAIN rest : i + 1 \in DOMAIN timers /\ rest[i] = timers[i + 1] /\ i + 1 # 1 /\ i \in Int
  BY <1>2, <1>3, <1>4
<1>7. \A k \in DOMAIN timers : k # 1 => k - 1 \in DOMAIN rest /\ rest[k - 1] = timers[k]
  BY <1>2, <1>3, <1>4
<1> HIDE DEF rest
<1>8. Unique(rest)
  <2> SUFFICES ASSUME NEW i \in DOMAIN rest, NEW j \in DOMAIN rest, rest[i].id = rest[j].id
               PROVE  i = j
    BY DEF Unique
  <2>1. i + 1 = j + 1
    BY <1>1, <1>6 DEF Unique
  <2> QED BY <1>6, <2>1
<1>9. Exact(rest)
  BY <1>1, <1>6 DEF Exact
<1>10. Sorted(rest)
  <2> SUFFICES ASSUME NEW i \in DOMAIN rest, NEW j \in DOMAIN rest, i < j
               PROVE  Overdue(rest[i]) >= Overdue(rest[j])
    BY DEF Sorted
  <2>1. i + 1 < j + 1
    BY <1>6
  <2> QED BY <1>1, <1>6, <2>1 DEF Sorted
<1>11. IdsOf(rest) = Queued \ {Head(timers).id}
  <2>1. \A i \in DOMAIN rest : rest[i].id \in Queued /\ rest[i].id # Head(timers).id
    BY <1>1, <1>3, <1>5, <1>6 DEF Unique, Queued
  <2>2. \A k \in DOMAIN timers : timers[k].id # Head(timers).id => timers[k].id \in IdsOf(rest)
    BY <1>5, <1>7 DEF IdsOf
  <2> QED BY <2>1, <2>2 DEF IdsOf, Queued
<1>12. Overdue(Head(timers)) = late[Head(timers).id]
  BY <1>1, <1>3, <1>5 DEF Exact
<1> QED BY <1>2, <1>8, <1>9, <1>10, <1>11, <1>12 DEF ListOf, rest
-----------------------------------------------------------------------------
(* The variables besides the list.                                           *)

SettingsInv ==
  /\ enabled \in [Tasks -> BOOLEAN]
  /\ interval \in [Tasks -> Intervals \union {0}]
  /\ device \in [Tasks -> Plugins] /\ remote \in [Tasks -> BOOLEAN]
  /\ data \in [Keys -> Data]

\* An event that is being handled is still in the queue.
EventsInv ==
  /\ pokes \in 0 .. MaxPokes /\ events \in 0 .. pokes
  /\ running = Event => events > 0

RanInv == ran \in 0 .. MaxRun + MaxLag
LoopInv ==
  /\ starting \subseteq Ids /\ firstLoop \in BOOLEAN
  /\ running \in Ids \union {Loop, Event}
  /\ called \in Plugins \union {NoPlugin}
  /\ stalled \in BOOLEAN /\ RanInv

\* The inductive invariant.
Inv == ListInv /\ SettingsInv /\ EventsInv /\ LoopInv /\ ChainAlive

\* The task setup() comes to next.
FirstTask == CHOOSE u \in TasksLeft : \A v \in TasksLeft : u <= v

\* It is one of those left.
LEMMA FirstTaskIsLeft == ASSUME TasksLeft # {} PROVE FirstTask \in TasksLeft
<1>1. TasksLeft \subseteq Nat
  BY SchedulerAssumption DEF TasksLeft
<1>2. \E u \in TasksLeft : \A v \in TasksLeft : u <= v
  BY <1>1, NatMinimum
<1> QED BY <1>2 DEF FirstTask

\* The task a command is offered to first, or none.
LEMMA TaskOfCommandIsData == ASSUME NEW p PROVE TaskOfCommand(p) \in Data
<1>1. CASE Takers(p) = {}
  BY <1>1 DEF TaskOfCommand, Data
<1>2. CASE Takers(p) # {}
  <2>1. Takers(p) \subseteq Nat /\ Takers(p) \subseteq Tasks
    BY SchedulerAssumption DEF Takers
  <2>2. \E t \in Takers(p) : \A u \in Takers(p) : t <= u
    BY <1>2, <2>1, NatMinimum
  <2>3. (CHOOSE t \in Takers(p) : \A u \in Takers(p) : t <= u) \in Takers(p)
    BY <2>2
  <2> QED BY <1>2, <2>1, <2>3 DEF TaskOfCommand, Data
<1> QED BY <1>1, <1>2

\* The initial states.
LEMMA InvInit == ASSUME Init PROVE Inv
<1>1. ListInv
  <2>1. now \in Word /\ late \in [Ids -> Lates]
    BY Bounds DEF Init, Lates, Word
  <2>2. timers = <<>> /\ DOMAIN timers = {}
    BY DEF Init
  <2>3. timers \in Seq(Entries)
    BY <2>2, EmptySeq
  <2> QED BY <2>1, <2>2, <2>3 DEF ListInv, ListOf, Unique, Exact, Sorted
<1>2. SettingsInv
  BY DEF Init, SettingsInv, Data
<1>3. EventsInv
  BY SchedulerAssumption, IdsDiffer DEF Init, EventsInv
<1>4. LoopInv
  <2>1. RanInv
    BY Bounds, SchedulerAssumption DEF Init, RanInv
  <2>2. starting \subseteq Ids
    BY IdsDiffer DEF Init
  <2>3. firstLoop \in BOOLEAN /\ stalled \in BOOLEAN
    BY DEF Init
  <2> QED BY <2>1, <2>2, <2>3 DEF Init, LoopInv
<1>5. ChainAlive
  BY DEF Init, ChainAlive, Served
<1> QED BY <1>1, <1>2, <1>3, <1>4, <1>5 DEF Inv
-----------------------------------------------------------------------------
(* Steps that leave the list alone, or set one timer from the present.       *)

\* A list and a clock that do not change.
LEMMA ListUnchanged ==
  ASSUME ListInv, UNCHANGED <<now, timers, late>>
  PROVE  ListInv' /\ Queued' = Queued
BY DEF ListInv, ListOf, Unique, Exact, Sorted, Overdue, Queued

\* setup(), and schedule_all_task_device_timers.
LEMMA InvStart == ASSUME Inv, Start PROVE Inv'
<1>1. CASE StartTask
  <2> DEFINE t == FirstTask
  <2>1. t \in TasksLeft
    BY <1>1, FirstTaskIsLeft DEF StartTask
  <2>2. /\ IF Served(t) THEN SetTimer(TaskId(t), StartDelay[TaskId(t)]) ELSE KeepTimers
        /\ starting' = starting \ {TaskId(t)}
        /\ UNCHANGED <<now, settings, data, events, firstLoop, running, called, ran,
                       stalled, pokes>>
    BY <1>1 DEF StartTask, FirstTask
  <2> HIDE DEF t
  <2>3. t \in Tasks /\ TaskId(t) \in Ids /\ TaskId(t) \in starting
    BY <2>1, IdsDiffer DEF TasksLeft
  <2>4. /\ ListInv' /\ Queued \subseteq Queued'
        /\ Served(t) => TaskId(t) \in Queued'
    <3>1. CASE Served(t)
      <4>1. StartDelay[TaskId(t)] \in 0 .. HalfMax
        BY <2>3, Bounds
      <4> QED BY <2>2, <2>3, <3>1, <4>1, SetTimerKeeps DEF Inv
    <3>2. CASE ~Served(t)
      BY <2>2, <3>2, ListUnchanged DEF Inv, KeepTimers
    <3> QED BY <3>1, <3>2
  <2>5. SettingsInv' /\ EventsInv' /\ LoopInv'
    BY <2>2 DEF Inv, SettingsInv, EventsInv, LoopInv, RanInv, settings
  <2>6. ChainAlive'
    BY <2>2, <2>3, <2>4, IdsDiffer DEF Inv, ChainAlive, Served, settings
  <2> QED BY <2>4, <2>5, <2>6 DEF Inv
<1>2. CASE StartInterval
  <2>1. PICK i \in Periodic :
          /\ IntervalId(i) \in starting
          /\ SetTimer(IntervalId(i), StartDelay[IntervalId(i)])
          /\ starting' = starting \ {IntervalId(i)}
    BY <1>2 DEF StartInterval
  <2>2. UNCHANGED <<now, settings, data, events, firstLoop, running, called, ran,
                    stalled, pokes>>
    BY <1>2 DEF StartInterval
  <2>3. IntervalId(i) \in Ids /\ StartDelay[IntervalId(i)] \in 0 .. HalfMax
    BY IdsDiffer, Bounds
  <2>4. ListInv' /\ Queued \subseteq Queued'
    BY <2>1, <2>2, <2>3, SetTimerKeeps DEF Inv
  <2>5. SettingsInv' /\ EventsInv' /\ LoopInv'
    BY <2>1, <2>2 DEF Inv, SettingsInv, EventsInv, LoopInv, RanInv, settings
  <2>6. ChainAlive'
    BY <2>1, <2>2, <2>4, IdsDiffer DEF Inv, ChainAlive, Served, settings
  <2> QED BY <2>4, <2>5, <2>6 DEF Inv
<1> QED BY <1>1, <1>2 DEF Start

\* The first connection, and the steps of loop() that handle no timer.
LEMMA InvLoop ==
  ASSUME Inv, FirstConnection \/ ProcessEvent \/ IdlePass \/ End
  PROVE  Inv'
<1>1. UNCHANGED <<now, timers, late, settings, pokes>>
  BY DEF FirstConnection, ProcessEvent, IdlePass, End, EndHandler, EndEvent, EndPluginTimer
<1>2. ListInv' /\ Queued' = Queued
  BY <1>1, ListUnchanged DEF Inv
<1>3. SettingsInv'
  BY <1>1 DEF Inv, SettingsInv, settings, FirstConnection, ProcessEvent, IdlePass, End,
              EndHandler, EndEvent, EndPluginTimer, Data
<1>4. EventsInv'
  BY <1>1, IdsDiffer DEF Inv, EventsInv, FirstConnection, ProcessEvent, IdlePass, End,
              EndHandler, EndEvent, EndPluginTimer
<1>5. LoopInv'
  <2>1. ran' = ran \/ ran' = 0
    BY DEF FirstConnection, ProcessEvent, IdlePass, End, EndHandler, EndEvent, EndPluginTimer
  <2>2. RanInv'
    BY <2>1, Bounds, SchedulerAssumption DEF Inv, LoopInv, RanInv
  <2>3. starting' \subseteq Ids
    BY IdsDiffer DEF Inv, LoopInv, FirstConnection, ProcessEvent, IdlePass, End,
                     EndHandler, EndEvent, EndPluginTimer
  <2>4. firstLoop' \in BOOLEAN /\ stalled' \in BOOLEAN
    BY DEF Inv, LoopInv, FirstConnection, ProcessEvent, IdlePass, End,
           EndHandler, EndEvent, EndPluginTimer
  <2>5. running' \in Ids \union {Loop, Event} /\ called' \in Plugins \union {NoPlugin}
    BY DEF Inv, LoopInv, FirstConnection, ProcessEvent, IdlePass, End,
           EndHandler, EndEvent, EndPluginTimer
  <2> QED BY <2>2, <2>3, <2>4, <2>5 DEF LoopInv
<1>6. \/ starting \subseteq starting' /\ firstLoop' = firstLoop
      \/ \A t \in Tasks : TaskId(t) \in starting'
  BY DEF FirstConnection, ProcessEvent, IdlePass, End, EndHandler, EndEvent, EndPluginTimer
<1>7. ChainAlive'
  BY <1>1, <1>2, <1>6 DEF Inv, ChainAlive, Served, settings
<1> QED BY <1>2, <1>3, <1>4, <1>5, <1>7 DEF Inv
-----------------------------------------------------------------------------
(* Time and the handlers of timers.                                          *)

\* A millisecond: every timer of the list gets one more overdue, the one at
\* which millis() wraps included.
LEMMA InvTick == ASSUME Inv, Tick PROVE Inv'
<1>1. /\ now' = Plus(now, 1) /\ ran' = ran + 1 /\ timers' = timers
      /\ ran < MaxRun \/ ran < MaxLag
      /\ \A id \in Queued : late[id] < MaxLag
      /\ late' = [id \in Ids |-> IF id \in Queued THEN late[id] + 1 ELSE late[id]]
      /\ UNCHANGED <<settings, data, events, starting, firstLoop, running, called, stalled, pokes>>
  BY DEF Tick
<1>2. /\ now \in Word /\ late \in [Ids -> Lates] /\ timers \in Seq(Entries)
      /\ Exact(timers) /\ Sorted(timers) /\ Unique(timers)
  BY DEF Inv, ListInv, ListOf
<1>3. now' \in Word
  <2>1. 1 \in Word
    BY HalfIsNatural DEF Word
  <2> QED BY <1>1, <1>2, <2>1, PlusIsWord
<1>4. late' \in [Ids -> Lates]
  <2> SUFFICES ASSUME NEW id \in Ids PROVE late'[id] \in Lates
    BY <1>1
  <2>1. late[id] \in Lates /\ (id \in Queued => late[id] < MaxLag)
    BY <1>1, <1>2
  <2>2. late'[id] = IF id \in Queued THEN late[id] + 1 ELSE late[id]
    BY <1>1
  <2> QED BY <2>1, <2>2, Bounds DEF Lates
<1>5. ASSUME NEW i \in DOMAIN timers
      PROVE  /\ TimeDiff(timers[i].at, now') = late'[timers[i].id]
             /\ TimeDiff(timers[i].at, now') = TimeDiff(timers[i].at, now) + 1
             /\ TimeDiff(timers[i].at, now) \in Int
  <2>1. timers[i] \in Entries
    BY <1>2, LenProperties, ElementOfSeq
  <2>2. timers[i].id \in Ids /\ timers[i].at \in Word /\ timers[i].id \in Queued
    BY <2>1 DEF Entries, Queued
  <2>3. TimeDiff(timers[i].at, now) = late[timers[i].id]
    BY <1>2 DEF Exact, Overdue
  <2>4. late[timers[i].id] \in -HalfMax .. HalfMax - 1
    <3>1. late[timers[i].id] \in Lates /\ late[timers[i].id] < MaxLag
      BY <1>1, <1>2, <2>2
    <3> QED BY <3>1, Bounds DEF Lates
  <2>5. TimeDiff(timers[i].at, Plus(now, 1)) = TimeDiff(timers[i].at, now) + 1
    BY <1>2, <2>2, <2>3, <2>4, DeadlinesAgeTogether
  <2>6. late'[timers[i].id] = late[timers[i].id] + 1
    BY <1>1, <2>2
  <2> QED BY <1>1, <2>3, <2>4, <2>5, <2>6
<1>6. ListOf(timers)'
  <2>1. Sorted(timers)'
    <3> SUFFICES ASSUME NEW i \in DOMAIN timers, NEW k \in DOMAIN timers, i < k
                 PROVE  TimeDiff(timers[i].at, now') >= TimeDiff(timers[k].at, now')
      BY <1>1 DEF Sorted, Overdue
    <3>1. TimeDiff(timers[i].at, now) >= TimeDiff(timers[k].at, now)
      BY <1>2 DEF Sorted, Overdue
    <3> QED BY <1>5, <3>1
  <2>2. Exact(timers)'
    BY <1>1, <1>5 DEF Exact, Overdue
  <2> QED BY <1>1, <1>2, <2>1, <2>2 DEF ListOf, Unique
<1>7. ListInv'
  BY <1>3, <1>4, <1>6 DEF ListInv
<1>8. RanInv'
  BY <1>1, Bounds, SchedulerAssumption DEF Inv, LoopInv, RanInv
<1>9. SettingsInv' /\ EventsInv' /\ LoopInv'
  BY <1>1, <1>8 DEF Inv, SettingsInv, EventsInv, LoopInv, settings
<1>10. ChainAlive'
  BY <1>1 DEF Inv, ChainAlive, Served, Queued, settings
<1> QED BY <1>7, <1>9, <1>10 DEF Inv

\* What setNextTimeInterval computes in words is what NextLate says.
LEMMA NextIsExact ==
  ASSUME now \in Word, NEW timer \in Word, NEW step \in 1 .. HalfMax,
         TimeDiff(timer, now) \in 0 .. HalfMax
  PROVE  LET l == TimeDiff(timer, now)
             next == NextTimeInterval(timer, step, now)
         IN  /\ next \in Word /\ TimeDiff(next, now) = NextLate(l, step)
             /\ NextLate(l, step) \in -step .. 0
             /\ l <= 2 * step => NextLate(l, step) \in {l - step, l - 2 * step}
<1> DEFINE l == TimeDiff(timer, now)
           nextTimer == Plus(timer, step)
<1>1. TimeDiff(nextTimer, now) = l - step /\ nextTimer \in Word
  BY ChainKeepsItsGrid, PlusIsWord, Bounds
<1>2. l \in Int /\ l >= 0 /\ step \in Int /\ step >= 1 /\ step <= HalfMax
  BY Bounds
<1>3. CASE l < step
  <2>1. NextTimeInterval(timer, step, now) = nextTimer
    BY <1>1, <1>2, <1>3 DEF NextTimeInterval
  <2> HIDE DEF l, nextTimer
  <2>2. NextLate(l, step) = l - step
    BY <1>2, <1>3 DEF NextLate
  <2> QED BY <2>1, <2>2, <1>1, <1>2, <1>3 DEF l
<1>4. CASE l > 2 * step
  <2>1. NextTimeInterval(timer, step, now) = Plus(now, step)
    BY <1>1, <1>2, <1>4 DEF NextTimeInterval
  <2>2. TimeDiff(Plus(now, step), now) = -step /\ Plus(now, step) \in Word
    BY NewTimerIsNotDue, PlusIsWord, Bounds
  <2> HIDE DEF l, nextTimer
  <2>3. NextLate(l, step) = -step
    BY <1>2, <1>4 DEF NextLate
  <2> QED BY <2>1, <2>2, <2>3, <1>2, <1>4 DEF l
<1>5. CASE step <= l /\ l <= 2 * step
  <2>1. NextTimeInterval(timer, step, now) = Plus(now, 2 * step - l)
    BY <1>1, <1>2, <1>5 DEF NextTimeInterval
  <2>2. /\ TimeDiff(Plus(now, 2 * step - l), now) = -(2 * step - l)
        /\ Plus(now, 2 * step - l) \in Word
    <3>1. 2 * step - l \in 0 .. HalfMax
      BY <1>2, <1>5, Bounds
    <3> HIDE DEF l
    <3> QED BY <3>1, NewTimerIsNotDue, PlusIsWord, Bounds
  <2> HIDE DEF l, nextTimer
  <2>3. NextLate(l, step) = l - 2 * step
    BY <1>2, <1>5 DEF NextLate
  <2> QED BY <2>1, <2>2, <2>3, <1>2, <1>5 DEF l
<1> QED BY <1>2, <1>3, <1>4, <1>5

\* What handle_schedule found at the head of the list.
LEMMA DispatchedIs ==
  ASSUME Inv, NEW id \in Ids, Dispatches(id)
  PROVE  /\ timers # <<>> /\ Head(timers).id = id /\ Head(timers).at \in Word
         /\ TimeDiff(Head(timers).at, now) = late[id] /\ late[id] \in 0 .. MaxLag
         /\ ListOf(Tail(timers)) /\ IdsOf(Tail(timers)) = Queued \ {id}
         /\ starting = {} /\ running' = id /\ ran' = 0 /\ stalled' = FALSE
         /\ UNCHANGED <<starting, firstLoop>>
<1>1. /\ timers # <<>> /\ TimeDiff(Head(timers).at, now) >= 0 /\ Head(timers).id = id
      /\ starting = {} /\ running' = id /\ ran' = 0 /\ stalled' = FALSE
      /\ UNCHANGED <<starting, firstLoop>>
  BY DEF Dispatches, Due, TimeOutReached
<1>2. /\ ListOf(Tail(timers)) /\ IdsOf(Tail(timers)) = Queued \ {id}
      /\ Head(timers).at \in Word /\ TimeDiff(Head(timers).at, now) = late[id]
  BY <1>1, TailKeeps DEF Inv, Entries, Overdue
<1>3. late[id] \in Lates
  BY DEF Inv, ListInv
<1>4. late[id] \in 0 .. MaxLag
  BY <1>1, <1>2, <1>3, Bounds DEF Lates
<1> QED BY <1>1, <1>2, <1>4

\* A timer that is taken out of the list and not set again.
LEMMA DropKeeps ==
  ASSUME Inv, NEW id \in Ids, ListOf(Tail(timers)), IdsOf(Tail(timers)) = Queued \ {id},
         timers' = Tail(timers), late' = [late EXCEPT ![id] = 0], now' = now
  PROVE  ListInv' /\ Queued' = Queued \ {id}
<1> DEFINE rest == Tail(timers)
<1>1. now \in Word /\ late \in [Ids -> Lates]
  BY DEF Inv, ListInv
<1>2. late' \in [Ids -> Lates]
  <2>1. 0 \in Lates
    BY Bounds DEF Lates
  <2> QED BY <1>1, <2>1
<1>3. rest \in Seq(Entries) /\ Unique(rest) /\ Exact(rest) /\ Sorted(rest) /\ timers' = rest
  BY DEF ListOf
<1>4. \A i \in DOMAIN rest : rest[i].id # id /\ rest[i].id \in IdsOf(rest)
  BY DEF IdsOf
<1> HIDE DEF rest
<1>5. \A i \in DOMAIN rest : late'[rest[i].id] = late[rest[i].id]
  <2> SUFFICES ASSUME NEW i \in DOMAIN rest PROVE late'[rest[i].id] = late[rest[i].id]
    OBVIOUS
  <2>1. rest[i] \in Entries
    BY <1>3, LenProperties, ElementOfSeq
  <2>2. rest[i].id \in Ids
    BY <2>1 DEF Entries
  <2> QED BY <1>1, <1>4, <2>2
<1>6. ListOf(timers)'
  BY <1>3, <1>5 DEF ListOf, Unique, Exact, Sorted, Overdue
<1>7. Queued' = IdsOf(rest)
  BY <1>3 DEF Queued, IdsOf
<1> QED BY <1>1, <1>2, <1>6, <1>7 DEF ListInv, rest

\* The loop variables after a timer was taken.
LEMMA LoopDispatched ==
  ASSUME Inv, NEW id \in Ids, Dispatches(id), called' \in Plugins \union {NoPlugin}
  PROVE  LoopInv'
<1>1. starting' = starting /\ firstLoop' = firstLoop /\ running' = id /\ ran' = 0 /\ stalled' = FALSE
  BY DEF Dispatches
<1>2. RanInv'
  BY <1>1, Bounds, SchedulerAssumption DEF RanInv
<1>3. firstLoop' \in BOOLEAN /\ stalled' \in BOOLEAN /\ starting' \subseteq Ids
  BY <1>1 DEF Inv, LoopInv
<1> QED BY <1>1, <1>2, <1>3 DEF LoopInv

\* An interval timer: the deadline set is the true one of NextLate.
LEMMA IntervalHandled ==
  ASSUME Inv, NEW i \in Periodic, Dispatches(IntervalId(i)), now' = now,
         Schedule(Tail(timers), IntervalId(i),
                  NextTimeInterval(Head(timers).at, Step[i], now),
                  NextLate(late[IntervalId(i)], Step[i]))
  PROVE  /\ ListInv' /\ Queued' = Queued \union {IntervalId(i)}
         /\ late'[IntervalId(i)] = NextLate(late[IntervalId(i)], Step[i])
         /\ late'[IntervalId(i)] \in -Step[i] .. 0
         /\ late[IntervalId(i)] <= 2 * Step[i] =>
              late'[IntervalId(i)] \in {late[IntervalId(i)] - Step[i], late[IntervalId(i)] - 2 * Step[i]}
<1> DEFINE id == IntervalId(i)
           h == Head(timers).at
           l == late[id]
           at == NextTimeInterval(h, Step[i], now)
           next == NextLate(l, Step[i])
<1>0. id \in Ids /\ Step[i] \in 1 .. HalfMax /\ now \in Word /\ late \in [Ids -> Lates]
  BY IdsDiffer, Bounds DEF Inv, ListInv
<1>1. /\ h \in Word /\ TimeDiff(h, now) = l /\ l \in 0 .. MaxLag /\ timers # <<>>
      /\ ListOf(Tail(timers)) /\ IdsOf(Tail(timers)) = Queued \ {id} /\ Head(timers).id = id
  BY <1>0, DispatchedIs
<1>2. l \in 0 .. HalfMax
  BY <1>1, Bounds
<1>3. Schedule(Tail(timers), id, at, next)
  OBVIOUS
<1> HIDE DEF h, l, id
<1>4. /\ at \in Word /\ TimeDiff(at, now) = next /\ next \in -Step[i] .. 0
      /\ l <= 2 * Step[i] => next \in {l - Step[i], l - 2 * Step[i]}
  BY <1>0, <1>1, <1>2, NextIsExact
<1> HIDE DEF at, next
<1>5. next \in Lates
  BY <1>0, <1>4, Bounds DEF Lates
<1>6. ListInv' /\ Queued' = (Queued \ {id}) \union {id}
  BY <1>0, <1>1, <1>3, <1>4, <1>5, ScheduleKeeps
<1>7. id \in Queued
  <2>1. timers \in Seq(Entries)
    BY DEF Inv, ListInv, ListOf
  <2>2. 1 \in DOMAIN timers /\ Head(timers) = timers[1]
    BY <1>1, <2>1, EmptySeq, LenProperties
  <2> QED BY <1>1, <2>2 DEF Queued
<1>8. late'[id] = next
  BY <1>0, <1>3 DEF Schedule
<1> QED BY <1>4, <1>6, <1>7, <1>8 DEF id, l, next

\* TIMER_... of ESPEasy.
LEMMA InvInterval == ASSUME Inv, ProcessIntervalTimer PROVE Inv'
<1>1. PICK i \in Periodic :
        /\ Dispatches(IntervalId(i))
        /\ Schedule(Tail(timers), IntervalId(i),
                    NextTimeInterval(Head(timers).at, Step[i], now),
                    NextLate(late[IntervalId(i)], Step[i]))
  BY DEF ProcessIntervalTimer
<1>2. UNCHANGED <<now, settings, data, events, called, pokes>>
  BY DEF ProcessIntervalTimer
<1>3. ListInv' /\ Queued \subseteq Queued'
  BY <1>1, <1>2, IntervalHandled
<1>4. /\ IntervalId(i) \in Ids /\ called' \in Plugins \union {NoPlugin}
      /\ running' = IntervalId(i) /\ starting' = starting /\ firstLoop' = firstLoop
  BY <1>1, <1>2, IdsDiffer DEF Inv, LoopInv, Dispatches
<1>5. LoopInv'
  BY <1>1, <1>4, LoopDispatched
<1>6. SettingsInv' /\ EventsInv'
  BY <1>2, <1>4, IdsDiffer DEF Inv, SettingsInv, EventsInv, settings
<1>7. ChainAlive'
  BY <1>2, <1>3, <1>4 DEF Inv, ChainAlive, Served, settings
<1> QED BY <1>3, <1>5, <1>6, <1>7 DEF Inv

\* A task's timer: the chain goes on from the old deadline, or the task has none.
LEMMA InvTask == ASSUME Inv, ProcessTaskTimer PROVE Inv'
<1>1. PICK t \in Tasks :
        /\ Dispatches(TaskId(t))
        /\ IF interval[t] # 0
             THEN ScheduleTask(Tail(timers), t, Plus(Head(timers).at, interval[t]),
                               late[TaskId(t)] - interval[t])
             ELSE /\ timers' = Tail(timers)
                  /\ late' = [late EXCEPT ![TaskId(t)] = 0]
  BY DEF ProcessTaskTimer
<1>2. UNCHANGED <<now, settings, data, events, called, pokes>>
  BY DEF ProcessTaskTimer
<1> DEFINE id == TaskId(t)
           h == Head(timers).at
           l == late[id]
<1>3. id \in Ids /\ now \in Word /\ late \in [Ids -> Lates]
  BY IdsDiffer DEF Inv, ListInv
<1>4. /\ h \in Word /\ TimeDiff(h, now) = l /\ l \in 0 .. MaxLag
      /\ ListOf(Tail(timers)) /\ IdsOf(Tail(timers)) = Queued \ {id}
  BY <1>1, <1>3, DispatchedIs
<1>5. ListInv' /\ Queued \ {id} \subseteq Queued' /\ (enabled[t] /\ interval[t] # 0 => id \in Queued')
  <2>1. CASE enabled[t] /\ interval[t] # 0
    <3> DEFINE n == interval[t]
    <3>1. n \in 0 .. HalfMax
      <4>1. interval[t] \in Intervals
        BY <2>1 DEF Inv, SettingsInv
      <4> QED BY <4>1, Bounds
    <3>2. Schedule(Tail(timers), id, Plus(h, n), l - n)
      BY <1>1, <2>1 DEF ScheduleTask
    <3> HIDE DEF h, l, id, n
    <3>3. l - n \in -HalfMax .. HalfMax /\ l \in -HalfMax .. HalfMax /\ l - n \in Lates
      BY <1>4, <3>1, Bounds DEF Lates
    <3>4. TimeDiff(Plus(h, n), now) = l - n /\ Plus(h, n) \in Word
      BY <1>3, <1>4, <3>1, <3>3, Bounds, ChainKeepsItsGrid, PlusIsWord
    <3>5. ListInv' /\ Queued' = (Queued \ {id}) \union {id}
      BY <1>2, <1>3, <1>4, <3>2, <3>3, <3>4, ScheduleKeeps
    <3> QED BY <3>5
  <2>2. CASE ~(enabled[t] /\ interval[t] # 0)
    <3>1. timers' = Tail(timers) /\ late' = [late EXCEPT ![id] = 0]
      BY <1>1, <2>2 DEF ScheduleTask
    <3> HIDE DEF id
    <3>2. ListInv' /\ Queued' = Queued \ {id}
      BY <1>2, <1>3, <1>4, <3>1, DropKeeps
    <3> QED BY <2>2, <3>2
  <2> QED BY <2>1, <2>2
<1>6. running' = id /\ starting' = starting /\ firstLoop' = firstLoop
      /\ called' \in Plugins \union {NoPlugin}
  BY <1>1, <1>2 DEF Dispatches, Inv, LoopInv
<1>7. LoopInv'
  BY <1>1, <1>3, <1>6, LoopDispatched
<1>8. SettingsInv' /\ EventsInv'
  BY <1>2, <1>3, <1>6, IdsDiffer DEF Inv, SettingsInv, EventsInv, settings
<1>9. ChainAlive'
  <2> SUFFICES ASSUME NEW u \in Tasks, enabled[u], Served(u), interval[u] # 0
               PROVE  TaskId(u) \in Queued' \union starting
    BY <1>2, <1>6 DEF ChainAlive, Served, settings
  <2>1. TaskId(u) \in Queued \union starting
    BY DEF Inv, ChainAlive, Served
  <2>2. CASE u = t
    BY <1>5, <2>2
  <2>3. CASE u # t
    <3>1. TaskId(u) # id
      BY <2>3, IdsDiffer
    <3> QED BY <1>5, <2>1, <3>1
  <2> QED BY <2>2, <2>3
<1> QED BY <1>5, <1>7, <1>8, <1>9 DEF Inv

\* A plugin's timer is not set again.
LEMMA InvPlugin == ASSUME Inv, ProcessPluginTimer PROVE Inv'
<1>1. PICK k \in Keys :
        /\ Dispatches(PluginId(k))
        /\ timers' = Tail(timers) /\ late' = [late EXCEPT ![PluginId(k)] = 0]
        /\ called' = PluginFor(data[k])
  BY DEF ProcessPluginTimer
<1>2. UNCHANGED <<now, settings, data, events, pokes>>
  BY DEF ProcessPluginTimer
<1>3. PluginId(k) \in Ids
  BY IdsDiffer
<1>4. ListOf(Tail(timers)) /\ IdsOf(Tail(timers)) = Queued \ {PluginId(k)}
  BY <1>1, <1>3, DispatchedIs
<1>5. ListInv' /\ Queued' = Queued \ {PluginId(k)}
  BY <1>1, <1>2, <1>3, <1>4, DropKeeps
<1>6. called' \in Plugins \union {NoPlugin}
  BY <1>1 DEF PluginFor, Inv, SettingsInv
<1>7. running' = PluginId(k) /\ starting' = starting /\ firstLoop' = firstLoop
  BY <1>1 DEF Dispatches
<1>8. LoopInv'
  BY <1>1, <1>3, <1>6, LoopDispatched
<1>9. SettingsInv' /\ EventsInv'
  BY <1>2, <1>3, <1>7, IdsDiffer DEF Inv, SettingsInv, EventsInv, settings
<1>10. ChainAlive'
  BY <1>2, <1>5, <1>7, IdsDiffer DEF Inv, ChainAlive, Served, settings
<1> QED BY <1>5, <1>8, <1>9, <1>10 DEF Inv
-----------------------------------------------------------------------------
(* Calls from outside.                                                       *)

\* A call counts, and leaves the handler that is running where it is.
LEMMA PokeKeeps ==
  ASSUME Inv, Outside, events' \in {events, events + 1},
         UNCHANGED <<starting, firstLoop, running, called, ran>>, stalled' \in BOOLEAN
  PROVE  EventsInv' /\ LoopInv'
<1>1. EventsInv'
  BY SchedulerAssumption DEF Inv, EventsInv, Outside
<1>2. LoopInv'
  BY DEF Inv, LoopInv, RanInv
<1> QED BY <1>1, <1>2

\* The page of a device is saved; whether or not its reading is under way, an
\* enabled task has a timer afterwards.
LEMMA InvSaveTask ==
  ASSUME Inv, NEW t \in Tasks, NEW on \in BOOLEAN, NEW time \in Intervals, SaveTask(t, on, time)
  PROVE  Inv'
<1>1. /\ Outside /\ starting = {}
      /\ enabled' = [enabled EXCEPT ![t] = on] /\ interval' = [interval EXCEPT ![t] = time]
      /\ IF on THEN SetTimer(TaskId(t), StartDelay[TaskId(t)]) ELSE KeepTimers
      /\ UNCHANGED <<now, device, remote, data, events, starting, firstLoop, running, called, ran, stalled>>
  BY DEF SaveTask, Background, loopVars
<1>2. TaskId(t) \in Ids /\ StartDelay[TaskId(t)] \in 0 .. HalfMax
  BY IdsDiffer, Bounds
<1>3. ListInv' /\ Queued \subseteq Queued' /\ (on => TaskId(t) \in Queued')
  <2>1. CASE on
    BY <1>1, <1>2, <2>1, SetTimerKeeps DEF Inv
  <2>2. CASE ~on
    BY <1>1, <2>2, ListUnchanged DEF Inv, KeepTimers
  <2> QED BY <2>1, <2>2
<1>4. stalled' \in BOOLEAN
  BY <1>1 DEF Inv, LoopInv
<1>5. EventsInv' /\ LoopInv'
  BY <1>1, <1>4, PokeKeeps
<1>6. SettingsInv'
  <2>1. enabled' \in [Tasks -> BOOLEAN]
    BY <1>1 DEF Inv, SettingsInv
  <2>2. interval' \in [Tasks -> Intervals \union {0}]
    BY <1>1 DEF Inv, SettingsInv
  <2> QED BY <1>1, <2>1, <2>2 DEF Inv, SettingsInv
<1>7. ChainAlive'
  <2> SUFFICES ASSUME NEW u \in Tasks, enabled'[u], remote'[u] => ~firstLoop', interval'[u] # 0
               PROVE  TaskId(u) \in Queued'
    BY <1>1 DEF ChainAlive, Served
  <2>1. CASE u = t
    BY <1>1, <1>3, <2>1 DEF Inv, SettingsInv
  <2>2. CASE u # t
    <3>1. enabled'[u] = enabled[u] /\ interval'[u] = interval[u]
      BY <1>1, <2>2 DEF Inv, SettingsInv
    <3> QED BY <1>1, <1>3, <3>1 DEF Inv, ChainAlive, Served
  <2> QED BY <2>1, <2>2
<1> QED BY <1>3, <1>5, <1>6, <1>7 DEF Inv

\* Another device: the task is off.
LEMMA InvChangeDevice ==
  ASSUME Inv, NEW t \in Tasks, NEW p \in Plugins, ChangeDevice(t, p)
  PROVE  Inv'
<1>1. /\ Outside /\ starting = {}
      /\ device' = [device EXCEPT ![t] = p]
      /\ enabled' = [enabled EXCEPT ![t] = FALSE] /\ interval' = [interval EXCEPT ![t] = 0]
      /\ remote' = [remote EXCEPT ![t] = FALSE]
      /\ KeepTimers
      /\ UNCHANGED <<now, data, events, starting, firstLoop, running, called, ran, stalled>>
  BY DEF ChangeDevice, Background, loopVars
<1>2. ListInv' /\ Queued' = Queued
  BY <1>1, ListUnchanged DEF Inv, KeepTimers
<1>3. stalled' \in BOOLEAN
  BY <1>1 DEF Inv, LoopInv
<1>4. EventsInv' /\ LoopInv'
  BY <1>1, <1>3, PokeKeeps
<1>5. SettingsInv'
  <2>1. enabled' \in [Tasks -> BOOLEAN]
    BY <1>1 DEF Inv, SettingsInv
  <2>2. interval' \in [Tasks -> Intervals \union {0}] /\ device' \in [Tasks -> Plugins]
        /\ remote' \in [Tasks -> BOOLEAN]
    BY <1>1 DEF Inv, SettingsInv
  <2> QED BY <1>1, <2>1, <2>2 DEF Inv, SettingsInv
<1>6. ChainAlive'
  <2> SUFFICES ASSUME NEW u \in Tasks, enabled'[u], remote'[u] => ~firstLoop', interval'[u] # 0
               PROVE  TaskId(u) \in Queued'
    BY <1>1 DEF ChainAlive, Served
  <2>1. u # t
    BY <1>1 DEF Inv, SettingsInv
  <2>2. enabled'[u] = enabled[u] /\ interval'[u] = interval[u] /\ remote'[u] = remote[u]
    BY <1>1, <2>1 DEF Inv, SettingsInv
  <2> QED BY <1>1, <1>2, <2>2 DEF Inv, ChainAlive, Served
<1> QED BY <1>2, <1>4, <1>5, <1>6 DEF Inv

\* Calls that set one timer and leave the settings alone.
LEMMA InvHurry ==
  ASSUME Inv, NEW id \in Ids, NEW delay \in 0 .. HalfMax, SetTimer(id, delay),
         Background, data' \in [Keys -> Data],
         UNCHANGED <<now, settings, events, loopVars>>
  PROVE  Inv'
<1>1. ListInv' /\ Queued' = Queued \union {id}
  BY SetTimerKeeps DEF Inv
<1>2. stalled' \in BOOLEAN /\ Outside
  BY DEF Inv, LoopInv, loopVars, Background
<1>3. EventsInv' /\ LoopInv'
  BY <1>2, PokeKeeps DEF loopVars
<1>4. SettingsInv'
  BY DEF Inv, SettingsInv, settings
<1>5. ChainAlive'
  BY <1>1 DEF Inv, ChainAlive, Served, settings, loopVars
<1> QED BY <1>1, <1>3, <1>4, <1>5 DEF Inv

\* All calls from outside.
LEMMA InvPoke == ASSUME Inv, Poke PROVE Inv'
<1>1. CASE \E t \in Tasks, on \in BOOLEAN, time \in Intervals : SaveTask(t, on, time)
  BY <1>1, InvSaveTask
<1>2. CASE \E t \in Tasks, p \in Plugins : ChangeDevice(t, p)
  BY <1>2, InvChangeDevice
<1>3. CASE \E t \in Tasks : HurryTask(t)
  <2>1. PICK t \in Tasks : HurryTask(t)
    BY <1>3
  <2>2. /\ SetTimer(TaskId(t), Soon) /\ Background
        /\ UNCHANGED <<now, settings, events, loopVars>> /\ data' = data
    BY <2>1 DEF HurryTask
  <2>3. TaskId(t) \in Ids /\ Soon \in 0 .. HalfMax /\ data' \in [Keys -> Data]
    BY <2>2, IdsDiffer, Bounds DEF Inv, SettingsInv
  <2> QED BY <2>2, <2>3, InvHurry
<1>4. CASE \E delay \in {Soon, Step[Mqtt]} : SetMqttTimer(delay)
  <2>1. PICK delay \in {Soon, Step[Mqtt]} : SetMqttTimer(delay)
    BY <1>4
  <2>2. /\ SetTimer(IntervalId(Mqtt), delay) /\ Background
        /\ UNCHANGED <<now, settings, events, loopVars>> /\ data' = data
    BY <2>1 DEF SetMqttTimer
  <2>3. delay \in 0 .. HalfMax
    BY Bounds
  <2>4. IntervalId(Mqtt) \in Ids /\ data' \in [Keys -> Data]
    BY <2>2, IdsDiffer, Bounds DEF Inv, SettingsInv
  <2> QED BY <2>2, <2>3, <2>4, InvHurry
<1>5. CASE \E k \in Keys, delay \in PulseTimes : SetPluginTimer(k, delay)
  <2>1. PICK k \in Keys, delay \in PulseTimes : SetPluginTimer(k, delay)
    BY <1>5
  <2>2. /\ SetTimer(PluginId(k), delay) /\ Background
        /\ UNCHANGED <<now, settings, events, loopVars>>
        /\ data' = [data EXCEPT ![k] = TaskOfCommand(PluginOf[k])]
    BY <2>1 DEF SetPluginTimer
  <2>3. PluginId(k) \in Ids /\ delay \in 0 .. HalfMax
    BY IdsDiffer, Bounds
  <2>4. TaskOfCommand(PluginOf[k]) \in Data
    BY TaskOfCommandIsData
  <2>5. data' \in [Keys -> Data]
    BY <2>2, <2>4 DEF Inv, SettingsInv
  <2> QED BY <2>2, <2>3, <2>5, InvHurry
<1>6. CASE ScheduleEvent \/ Stall
  <2>1. /\ Outside /\ events' \in {events, events + 1}
        /\ UNCHANGED <<now, timers, late, settings, data, starting, firstLoop, running, called, ran>>
    BY <1>6 DEF ScheduleEvent, Stall, KeepTimers, loopVars
  <2>2. stalled' \in BOOLEAN
    BY <1>6 DEF ScheduleEvent, Stall, loopVars, Inv, LoopInv
  <2>3. ListInv' /\ Queued' = Queued
    BY <2>1, ListUnchanged DEF Inv
  <2>4. EventsInv' /\ LoopInv'
    BY <2>1, <2>2, PokeKeeps
  <2>5. SettingsInv' /\ ChainAlive'
    BY <2>1, <2>3 DEF Inv, SettingsInv, ChainAlive, Served, settings
  <2> QED BY <2>3, <2>4, <2>5 DEF Inv
<1> QED BY <1>1, <1>2, <1>3, <1>4, <1>5, <1>6 DEF Poke
-----------------------------------------------------------------------------
\* Every step.
LEMMA InvNext == ASSUME Inv, [Next]_vars PROVE Inv'
<1>1. CASE Next
  BY <1>1, InvStart, InvLoop, InvTick, InvInterval, InvTask, InvPlugin, InvPoke DEF Next, Pass
<1>2. CASE UNCHANGED vars
  <2>1. ListInv' /\ Queued' = Queued
    BY <1>2, ListUnchanged DEF Inv, vars
  <2>2. SettingsInv' /\ ChainAlive'
    BY <1>2, <2>1 DEF Inv, SettingsInv, ChainAlive, Served, settings, loopVars, vars
  <2>3. EventsInv' /\ LoopInv'
    BY <1>2 DEF Inv, EventsInv, LoopInv, RanInv, loopVars, vars
  <2> QED BY <2>1, <2>2, <2>3 DEF Inv
<1> QED BY <1>1, <1>2

\* The invariant holds in every run of the scheduler.
LEMMA InvAlways == Spec => []Inv
<1>1. Init => Inv
  BY InvInit
<1>2. Inv /\ [Next]_vars => Inv'
  BY InvNext
<1> QED BY <1>1, <1>2, PTL DEF Spec

\* The types, with no timer queued twice.
THEOREM TypeCorrect == Spec => []TypeOK
<1>1. Inv => TypeOK
  <2> SUFFICES ASSUME Inv PROVE TypeOK
    OBVIOUS
  <2>1. now \in Word /\ late \in [Ids -> -HalfMax .. MaxLag] /\ timers \in Seq([id : Ids, at : Word])
    BY DEF Inv, ListInv, ListOf, Entries, Lates
  <2>2. \A i, j \in DOMAIN timers : timers[i].id = timers[j].id => i = j
    BY DEF Inv, ListInv, ListOf, Unique
  <2>3. events \in 0 .. MaxPokes /\ pokes \in 0 .. MaxPokes
    BY SchedulerAssumption DEF Inv, EventsInv
  <2>4. /\ enabled \in [Tasks -> BOOLEAN] /\ interval \in [Tasks -> Intervals \union {0}]
        /\ device \in [Tasks -> Plugins] /\ remote \in [Tasks -> BOOLEAN]
        /\ data \in [Keys -> Data]
    BY DEF Inv, SettingsInv
  <2>5. /\ starting \subseteq Ids /\ firstLoop \in BOOLEAN
        /\ running \in Ids \union {Loop, Event} /\ called \in Plugins \union {NoPlugin}
        /\ ran \in 0 .. MaxRun + MaxLag /\ stalled \in BOOLEAN
    BY DEF Inv, LoopInv, RanInv
  <2> QED BY <2>1, <2>2, <2>3, <2>4, <2>5 DEF TypeOK
<1> QED BY <1>1, InvAlways, PTL

\* Across every wrap of millis() the words of the queued timers and the clock
\* give the true distance of their deadlines (timePassedSince, getNextId).
THEOREM WrapIsSafe == Spec => []DeadlinesSurviveWrap
<1>1. Inv => DeadlinesSurviveWrap
  BY DEF Inv, ListInv, ListOf, Exact, DeadlinesSurviveWrap
<1> QED BY <1>1, InvAlways, PTL

\* The head of the list, which is all handle_schedule looks at, is the timer
\* whose deadline passed first.
THEOREM HeadIsFirst == Spec => []MostOverdueFirst
<1>1. Inv => MostOverdueFirst
  <2> SUFFICES ASSUME Inv, NEW i \in DOMAIN timers, NEW j \in DOMAIN timers, i < j
               PROVE  late[timers[i].id] >= late[timers[j].id]
    BY DEF MostOverdueFirst
  <2> QED BY DEF Inv, ListInv, ListOf, Exact, Sorted
<1> QED BY <1>1, InvAlways, PTL

\* An enabled task with an interval keeps a timer, whatever pages are saved while
\* it is read and whatever connection makes setup set all timers again.
THEOREM ChainsStayAlive == Spec => []ChainAlive
<1>1. Inv => ChainAlive
  BY DEF Inv
<1> QED BY <1>1, InvAlways, PTL
-----------------------------------------------------------------------------
\* A handler of a timer only starts when handle_schedule took the timer.
LEMMA HandlersAreDispatched ==
  ASSUME Next, NEW id \in Ids, running' = id, running # id
  PROVE  Dispatches(id) /\ (ProcessIntervalTimer \/ ProcessTaskTimer \/ ProcessPluginTimer)
<1>1. id # Loop /\ id # Event
  BY IdsDiffer
<1>2. ~(Start \/ Tick \/ FirstConnection \/ IdlePass)
  BY DEF Start, StartTask, StartInterval, Tick, FirstConnection, IdlePass
<1>3. ~(End \/ ProcessEvent)
  BY <1>1 DEF End, EndHandler, EndEvent, EndPluginTimer, ProcessEvent
<1>4. ~Poke
  BY DEF Poke, SaveTask, ChangeDevice, HurryTask, SetMqttTimer, SetPluginTimer,
         ScheduleEvent, Stall, loopVars
<1>5. ProcessIntervalTimer \/ ProcessTaskTimer \/ ProcessPluginTimer
  BY <1>2, <1>3, <1>4 DEF Next, Pass
<1>6. \E x : Dispatches(x)
  BY <1>5 DEF ProcessIntervalTimer, ProcessTaskTimer, ProcessPluginTimer
<1>7. Dispatches(id)
  BY <1>6 DEF Dispatches
<1> QED BY <1>5, <1>7

\* No handler starts before the true deadline of its timer.
THEOREM NoTimerIsEarly == Spec => NeverEarly
<1>1. ASSUME Inv, [Next]_vars
      PROVE  [\A id \in Ids : running' = id /\ running # id => late[id] >= 0]_vars
  <2> SUFFICES ASSUME Next, NEW id \in Ids, running' = id, running # id PROVE late[id] >= 0
    BY <1>1
  <2>1. Dispatches(id)
    BY HandlersAreDispatched
  <2>2. late[id] \in 0 .. MaxLag
    BY <1>1, <2>1, DispatchedIs
  <2> QED BY <2>2, Bounds
<1> QED BY <1>1, InvAlways, PTL DEF Spec, NeverEarly

\* A multiple of the step leaves no rest.
LEMMA StepsLeaveNoRest ==
  ASSUME NEW step \in Nat \ {0}
  PROVE  step % step = 0 /\ (2 * step) % step = 0
<1>1. step % step = 0
  OBVIOUS
<1>2. (2 * step) % step = 0
  OBVIOUS
<1> QED BY <1>1, <1>2

\* setIntervalTimer: however late an interval timer is handled its next deadline
\* has not passed, is at most a step away, and stays on the grid of the old ones
\* unless more than a whole interval was missed.
THEOREM IntervalTimersKeepPace == Spec => KeepsPace
<1>1. ASSUME Inv, [Next]_vars
      PROVE  [\A i \in Periodic :
               running' = IntervalId(i) /\ running # running' =>
                 LET before == late[IntervalId(i)]
                     entry  == CHOOSE e \in {timers'[n] : n \in DOMAIN timers'} : e.id = IntervalId(i)
                     after  == TimeDiff(entry.at, now)
                 IN  /\ -Step[i] <= after /\ after <= 0
                     /\ before <= 2 * Step[i] => (before - after) % Step[i] = 0]_vars
  <2> SUFFICES ASSUME Next, NEW i \in Periodic, running' = IntervalId(i), running # running'
               PROVE  LET before == late[IntervalId(i)]
                          entry  == CHOOSE e \in {timers'[n] : n \in DOMAIN timers'} : e.id = IntervalId(i)
                          after  == TimeDiff(entry.at, now)
                      IN  /\ -Step[i] <= after /\ after <= 0
                          /\ before <= 2 * Step[i] => (before - after) % Step[i] = 0
    BY <1>1
  <2> DEFINE id == IntervalId(i)
             before == late[id]
             entry == CHOOSE e \in {timers'[n] : n \in DOMAIN timers'} : e.id = id
             after == TimeDiff(entry.at, now)
  <2>1. id \in Ids /\ Step[i] \in 1 .. HalfMax
    BY IdsDiffer, Bounds
  <2>2. Dispatches(id) /\ (ProcessIntervalTimer \/ ProcessTaskTimer \/ ProcessPluginTimer)
    BY <2>1, HandlersAreDispatched
  <2>3. ProcessIntervalTimer
    <3>1. ~ProcessTaskTimer /\ ~ProcessPluginTimer
      BY DEF ProcessTaskTimer, ProcessPluginTimer, Dispatches, TaskId, PluginId, IntervalId
    <3> QED BY <2>2, <3>1
  <2>4. PICK j \in Periodic :
          /\ Dispatches(IntervalId(j))
          /\ Schedule(Tail(timers), IntervalId(j),
                      NextTimeInterval(Head(timers).at, Step[j], now),
                      NextLate(late[IntervalId(j)], Step[j]))
    BY <2>3 DEF ProcessIntervalTimer
  <2>5. j = i
    BY <2>4 DEF Dispatches, IntervalId
  <2>6. now' = now
    BY <2>3 DEF ProcessIntervalTimer
  <2>7. /\ ListInv' /\ Queued' = Queued \union {id} /\ late'[id] \in -Step[i] .. 0
        /\ before <= 2 * Step[i] => late'[id] \in {before - Step[i], before - 2 * Step[i]}
    BY <1>1, <2>4, <2>5, <2>6, IntervalHandled
  <2>8. before \in 0 .. MaxLag
    BY <1>1, <2>1, <2>2, DispatchedIs
  <2>9. after = late'[id]
    <3>1. \E e \in {timers'[n] : n \in DOMAIN timers'} : e.id = id
      BY <2>7 DEF Queued
    <3>2. entry \in {timers'[n] : n \in DOMAIN timers'} /\ entry.id = id
      BY <3>1
    <3> HIDE DEF entry, id
    <3>3. PICK n \in DOMAIN timers' : entry = timers'[n]
      BY <3>2
    <3>4. TimeDiff(timers'[n].at, now') = late'[timers'[n].id]
      BY <2>7 DEF ListInv, ListOf, Exact, Overdue
    <3> QED BY <2>6, <3>2, <3>3, <3>4
  <2> HIDE DEF id, before, entry, after
  <2>10. -Step[i] <= after /\ after <= 0
    BY <2>1, <2>7, <2>9
  <2>11. ASSUME before <= 2 * Step[i] PROVE (before - after) % Step[i] = 0
    <3>1. before - after = Step[i] \/ before - after = 2 * Step[i]
      BY <2>1, <2>7, <2>8, <2>9, <2>11, Bounds
    <3>2. Step[i] \in Nat \ {0}
      BY <2>1, Bounds
    <3> QED BY <3>1, <3>2, StepsLeaveNoRest
  <2> QED BY <2>10, <2>11 DEF id, before, entry, after
<1> QED BY <1>1, InvAlways, PTL DEF Spec, KeepsPace
-----------------------------------------------------------------------------
(* The words of the list implement timers on a clock that never wraps.       *)

\* Lateness, computed from words, is the history of true times.
LatenessIsTrue == Lateness = [id \in Queued |-> late[id]]
LEMMA LatenessIs == ListInv => LatenessIsTrue
<1> SUFFICES ASSUME ListInv, NEW id \in Queued
             PROVE  Overdue(timers[Position(timers, id)]) = late[id]
  BY DEF LatenessIsTrue, Lateness
<1>1. timers \in Seq(Entries) /\ Exact(timers)
  BY DEF ListInv, ListOf
<1>2. Position(timers, id) \in DOMAIN timers /\ timers[Position(timers, id)].id = id
  BY <1>1, PositionIs DEF Queued
<1> QED BY <1>1, <1>2 DEF Exact

\* The same in the next state.
LEMMA LatenessNext == ListInv' => LatenessIsTrue'
BY LatenessIs, PTL

\* All timers that can be queued.
LEMMA QueuedAreIds == ASSUME ListInv PROVE Queued \subseteq Ids
<1>1. timers \in Seq(Entries)
  BY DEF ListInv, ListOf
<1>2. \A i \in DOMAIN timers : timers[i] \in Entries
  BY <1>1, LenProperties, ElementOfSeq
<1> QED BY <1>2 DEF Queued, Entries

\* Steps that change neither the list nor the clock.
LEMMA SameLateness == ASSUME UNCHANGED <<now, timers>> PROVE Lateness' = Lateness
BY DEF Lateness, Queued, Overdue, Position

\* Setting a timer from the present.
LEMMA SettingImplements ==
  ASSUME ListInv, NEW id \in Ids, NEW delay \in 0 .. HalfMax, SetTimer(id, delay),
         now' = now, running' = running
  PROVE  Timers!Set
<1>1. ListInv' /\ Queued' = Queued \union {id}
  BY SetTimerKeeps
<1>2. late' = [late EXCEPT ![id] = -delay] /\ late \in [Ids -> Lates]
  BY DEF SetTimer, Schedule, ListInv
<1>3. Queued \subseteq Ids
  BY QueuedAreIds
<1>4. /\ Lateness = [i \in Queued |-> late[i]]
      /\ Lateness' = [i \in Queued \union {id} |-> late'[i]]
  BY <1>1, LatenessIs, LatenessNext DEF LatenessIsTrue
<1>5. late'[id] = -delay /\ \A i \in Queued : i # id => late'[i] = late[i]
  BY <1>2, <1>3
<1>6. id \in DOMAIN Lateness' /\ Lateness'[id] = -delay
  BY <1>4, <1>5
<1>7. Lateness' = [i \in DOMAIN Lateness \union {id} |-> IF i = id THEN Lateness'[id] ELSE Lateness[i]]
  BY <1>4, <1>5, <1>6
<1>8. -Lateness'[id] \in 0 .. HalfMax
  BY <1>6, Bounds
<1>9. id \in {TaskId(t) : t \in Tasks} \union {IntervalId(i) : i \in Periodic}
               \union {PluginId(k) : k \in Keys}
  BY DEF Ids
<1> QED BY <1>6, <1>7, <1>8, <1>9 DEF Timers!Set, Timers!With

\* The head of the list is the timer whose deadline passed first.
LEMMA DispatchIsHandled ==
  ASSUME Inv, NEW id \in Ids, Dispatches(id)
  PROVE  /\ Timers!Handled(id) /\ id \in Queued
         /\ Lateness = [i \in Queued |-> late[i]] /\ late[id] \in 0 .. MaxLag
<1>1. /\ timers # <<>> /\ Head(timers).id = id /\ late[id] \in 0 .. MaxLag
  BY DispatchedIs
<1>2. timers \in Seq(Entries) /\ Exact(timers) /\ Sorted(timers)
  BY DEF Inv, ListInv, ListOf
<1>3. /\ DOMAIN timers = 1 .. Len(timers) /\ 1 \in DOMAIN timers /\ Head(timers) = timers[1]
      /\ Len(timers) \in Nat
  BY <1>1, <1>2, EmptySeq, LenProperties
<1>4. Lateness = [i \in Queued |-> late[i]]
  BY LatenessIs DEF LatenessIsTrue, Inv
<1>5. id \in Queued
  BY <1>1, <1>3 DEF Queued
<1>6. ASSUME NEW i \in Queued PROVE late[i] <= late[id]
  <2>1. PICK j \in DOMAIN timers : timers[j].id = i
    BY DEF Queued
  <2>2. CASE j = 1
    BY <1>1, <1>3, <2>1, <2>2, Bounds
  <2>3. CASE j # 1
    <3>1. 1 < j
      BY <1>3, <2>3
    <3>2. Overdue(timers[1]) >= Overdue(timers[j])
      BY <1>2, <1>3, <3>1 DEF Sorted
    <3>3. Overdue(timers[1]) = late[id] /\ Overdue(timers[j]) = late[i]
      BY <1>1, <1>2, <1>3, <2>1 DEF Exact
    <3> QED BY <3>2, <3>3
  <2> QED BY <2>2, <2>3
<1>7. running = Loop /\ running' = id
  BY DEF Dispatches
<1>8. Lateness[id] >= 0 /\ \A i \in DOMAIN Lateness : Lateness[i] <= Lateness[id]
  BY <1>1, <1>4, <1>5, <1>6, Bounds
<1> QED BY <1>1, <1>4, <1>5, <1>7, <1>8 DEF Timers!Handled

\* A timer that is handled and set again, l after the present.
LEMMA SetAgain ==
  ASSUME Inv, Inv', NEW id \in Queued, NEW l, Queued' = Queued \union {id},
         late' = [late EXCEPT ![id] = l]
  PROVE  Lateness' = Timers!With(id, l)
<1>1. late \in [Ids -> Lates] /\ Queued \subseteq Ids
  BY QueuedAreIds DEF Inv, ListInv
<1>2. /\ Lateness = [i \in Queued |-> late[i]]
      /\ Lateness' = [i \in Queued' |-> late'[i]]
  BY LatenessIs, LatenessNext DEF LatenessIsTrue, Inv
<1>3. late'[id] = l /\ \A i \in Queued : i # id => late'[i] = late[i]
  BY <1>1
<1>4. Lateness' = [i \in DOMAIN Lateness \union {id} |-> IF i = id THEN l ELSE Lateness[i]]
  BY <1>2, <1>3
<1> QED BY <1>4 DEF Timers!With

\* A timer that is handled and ends.
LEMMA NotAgain ==
  ASSUME Inv, Inv', NEW id \in Queued, Queued' = Queued \ {id},
         late' = [late EXCEPT ![id] = 0]
  PROVE  Lateness' = Timers!Without(id)
<1>1. late \in [Ids -> Lates] /\ Queued \subseteq Ids
  BY QueuedAreIds DEF Inv, ListInv
<1>2. /\ Lateness = [i \in Queued |-> late[i]]
      /\ Lateness' = [i \in Queued' |-> late'[i]]
  BY LatenessIs, LatenessNext DEF LatenessIsTrue, Inv
<1>3. \A i \in Queued : i # id => late'[i] = late[i]
  BY <1>1
<1>4. Lateness' = [i \in DOMAIN Lateness \ {id} |-> Lateness[i]]
  BY <1>2, <1>3
<1> QED BY <1>4 DEF Timers!Without

\* A millisecond, the one of the wrap included.
LEMMA TickImplements == ASSUME Inv, Inv', Tick PROVE Timers!Age
<1>1. /\ late' = [i \in Ids |-> IF i \in Queued THEN late[i] + 1 ELSE late[i]]
      /\ timers' = timers /\ running' = running
  BY DEF Tick
<1>2. Queued' = Queued /\ Queued \subseteq Ids
  BY <1>1, QueuedAreIds DEF Queued, Inv
<1>3. /\ Lateness = [i \in Queued |-> late[i]]
      /\ Lateness' = [i \in Queued' |-> late'[i]]
  BY LatenessIs, LatenessNext DEF LatenessIsTrue, Inv
<1>4. Lateness' = [i \in DOMAIN Lateness |-> Lateness[i] + 1]
  BY <1>1, <1>2, <1>3
<1> QED BY <1>1, <1>4 DEF Timers!Age

\* An interval timer.
LEMMA IntervalImplements == ASSUME Inv, Inv', ProcessIntervalTimer PROVE Timers!HandlePaced
<1>1. PICK i \in Periodic :
        /\ Dispatches(IntervalId(i))
        /\ Schedule(Tail(timers), IntervalId(i),
                    NextTimeInterval(Head(timers).at, Step[i], now),
                    NextLate(late[IntervalId(i)], Step[i]))
  BY DEF ProcessIntervalTimer
<1> DEFINE id == IntervalId(i)
           l == NextLate(late[id], Step[i])
           pace == [j \in {IntervalId(n) : n \in Periodic} |-> Step[j[2]]]
<1>2. now' = now
  BY DEF ProcessIntervalTimer
<1>3. /\ id \in Ids /\ id \in {IntervalId(n) : n \in Periodic} /\ pace[id] = Step[i]
      /\ Step[i] \in 1 .. HalfMax
  BY IdsDiffer, Bounds DEF IntervalId
<1>4. /\ Timers!Handled(id) /\ id \in Queued
      /\ Lateness = [j \in Queued |-> late[j]] /\ late[id] \in 0 .. MaxLag
  BY <1>1, <1>3, DispatchIsHandled
<1>5. /\ Queued' = Queued \union {id} /\ l \in -Step[i] .. 0
      /\ late[id] <= 2 * Step[i] => l \in {late[id] - Step[i], late[id] - 2 * Step[i]}
  BY <1>1, <1>2, IntervalHandled
<1>6. late[id] > 2 * Step[i] => l = -Step[i]
  <2>1. late[id] > 2 * Step[i] =>
          ~(late[id] < Step[i]) /\ late[id] \notin Step[i] .. 2 * Step[i]
    BY <1>3, <1>4, Bounds
  <2> QED BY <2>1 DEF NextLate
<1>7. late' = [late EXCEPT ![id] = l]
  BY <1>1 DEF Schedule
<1>8. Lateness' = Timers!With(id, l)
  <2> HIDE DEF l, id
  <2> QED BY <1>4, <1>5, <1>7, SetAgain
<1>9. Lateness[id] = late[id]
  BY <1>4
<1>10. l \in (-pace[id] .. 0) \intersect
              (IF Lateness[id] > 2 * pace[id] THEN {-pace[id]}
               ELSE {Lateness[id] - pace[id], Lateness[id] - 2 * pace[id]})
  <2> HIDE DEF l, id, pace
  <2> QED BY <1>3, <1>4, <1>5, <1>6, <1>9, Bounds
<1> HIDE DEF l, id, pace
<1>11. \E n \in {IntervalId(j) : j \in Periodic} :
         /\ Timers!Handled(n)
         /\ \E m \in (-pace[n] .. 0) \intersect
                      (IF Lateness[n] > 2 * pace[n] THEN {-pace[n]}
                       ELSE {Lateness[n] - pace[n], Lateness[n] - 2 * pace[n]}) :
              Lateness' = Timers!With(n, m)
  BY <1>3, <1>4, <1>8, <1>10
<1> QED BY <1>11 DEF Timers!HandlePaced, pace

\* A task's timer: its chain goes on from the old deadline, or ends.
LEMMA TaskImplements ==
  ASSUME Inv, Inv', ProcessTaskTimer PROVE Timers!HandleChained \/ Timers!HandleLast
<1>1. PICK t \in Tasks :
        /\ Dispatches(TaskId(t))
        /\ IF interval[t] # 0
             THEN ScheduleTask(Tail(timers), t, Plus(Head(timers).at, interval[t]),
                               late[TaskId(t)] - interval[t])
             ELSE /\ timers' = Tail(timers)
                  /\ late' = [late EXCEPT ![TaskId(t)] = 0]
  BY DEF ProcessTaskTimer
<1> DEFINE id == TaskId(t)
           h == Head(timers).at
           l == late[id]
           n == interval[t]
<1>2. now' = now
  BY DEF ProcessTaskTimer
<1>3. id \in Ids /\ id \in {TaskId(u) : u \in Tasks} /\ now \in Word /\ late \in [Ids -> Lates]
  BY IdsDiffer DEF Inv, ListInv
<1>4. /\ Timers!Handled(id) /\ id \in Queued
      /\ Lateness = [j \in Queued |-> late[j]] /\ l \in 0 .. MaxLag
  BY <1>1, <1>3, DispatchIsHandled
<1>5. /\ h \in Word /\ TimeDiff(h, now) = l
      /\ ListOf(Tail(timers)) /\ IdsOf(Tail(timers)) = Queued \ {id}
  BY <1>1, <1>3, DispatchedIs
<1>6. CASE enabled[t] /\ n # 0
  <2>1. n \in Intervals \ {0}
    BY <1>6 DEF Inv, SettingsInv
  <2>2. n \in 0 .. HalfMax
    BY <2>1, Bounds
  <2>3. Schedule(Tail(timers), id, Plus(h, n), l - n)
    BY <1>1, <1>6 DEF ScheduleTask
  <2> HIDE DEF h, l, id, n
  <2>4. l - n \in -HalfMax .. HalfMax /\ l \in -HalfMax .. HalfMax /\ l - n \in Lates
    BY <1>4, <2>2, Bounds DEF Lates
  <2>5. TimeDiff(Plus(h, n), now) = l - n /\ Plus(h, n) \in Word
    BY <1>3, <1>5, <2>2, <2>4, Bounds, ChainKeepsItsGrid, PlusIsWord
  <2>6. Queued' = Queued \union {id}
    BY <1>2, <1>3, <1>5, <2>3, <2>4, <2>5, <1>4, ScheduleKeeps
  <2>7. late' = [late EXCEPT ![id] = l - n]
    BY <2>3 DEF Schedule
  <2>8. Lateness' = Timers!With(id, l - n)
    BY <1>4, <2>6, <2>7, SetAgain
  <2>9. Lateness[id] = l
    BY <1>4 DEF l
  <2>10. Timers!HandleChained
    BY <1>3, <1>4, <2>1, <2>8, <2>9 DEF Timers!HandleChained
  <2> QED BY <2>10
<1>7. CASE ~(enabled[t] /\ n # 0)
  <2>1. timers' = Tail(timers) /\ late' = [late EXCEPT ![id] = 0]
    BY <1>1, <1>7 DEF ScheduleTask
  <2> HIDE DEF id
  <2>2. Queued' = Queued \ {id}
    BY <1>2, <1>3, <1>5, <2>1, DropKeeps
  <2>3. Lateness' = Timers!Without(id)
    BY <1>4, <2>1, <2>2, NotAgain
  <2>4. Timers!HandleLast
    BY <1>3, <1>4, <2>3 DEF Timers!HandleLast
  <2> QED BY <2>4
<1> QED BY <1>6, <1>7

\* A plugin's timer.
LEMMA PluginImplements == ASSUME Inv, Inv', ProcessPluginTimer PROVE Timers!HandleLast
<1>1. PICK k \in Keys :
        /\ Dispatches(PluginId(k))
        /\ timers' = Tail(timers) /\ late' = [late EXCEPT ![PluginId(k)] = 0]
  BY DEF ProcessPluginTimer
<1> DEFINE id == PluginId(k)
<1>2. now' = now /\ id \in Ids /\ id \in {PluginId(j) : j \in Keys}
  BY IdsDiffer DEF ProcessPluginTimer
<1>3. Timers!Handled(id) /\ id \in Queued
  BY <1>1, <1>2, DispatchIsHandled
<1>4. Queued' = Queued \ {id}
  <2>1. ListOf(Tail(timers)) /\ IdsOf(Tail(timers)) = Queued \ {id}
    BY <1>1, <1>2, DispatchedIs
  <2> HIDE DEF id
  <2> QED BY <1>1, <1>2, <2>1, DropKeeps DEF id
<1>5. Lateness' = Timers!Without(id)
  BY <1>1, <1>3, <1>4, NotAgain
<1> QED BY <1>2, <1>3, <1>5 DEF Timers!HandleLast

\* An event is only handled when no timer is due.
LEMMA EventImplements == ASSUME Inv, ProcessEvent PROVE Timers!HandleEvent
<1>1. running = Loop /\ running' = Event /\ ~Due /\ UNCHANGED <<now, timers>>
  BY DEF ProcessEvent
<1>2. Lateness' = Lateness
  BY <1>1, SameLateness
<1>3. Lateness = [i \in Queued |-> late[i]]
  BY LatenessIs DEF LatenessIsTrue, Inv
<1>4. timers \in Seq(Entries) /\ Exact(timers) /\ Sorted(timers) /\ late \in [Ids -> Lates]
  BY DEF Inv, ListInv, ListOf
<1>5. ASSUME NEW i \in Queued PROVE late[i] < 0
  <2>1. PICK j \in DOMAIN timers : timers[j].id = i
    BY DEF Queued
  <2>2. /\ DOMAIN timers = 1 .. Len(timers) /\ 1 \in DOMAIN timers /\ Head(timers) = timers[1]
        /\ timers # <<>>
    <3>1. DOMAIN timers = 1 .. Len(timers) /\ Len(timers) \in Nat
      BY <1>4, LenProperties
    <3>2. 1 \in DOMAIN timers
      BY <2>1, <3>1
    <3> QED BY <1>4, <3>1, <3>2, EmptySeq
  <2>3. i \in Ids /\ timers[1].id \in Ids
    <3>1. timers[j] \in Entries /\ timers[1] \in Entries
      BY <1>4, <2>1, <2>2, LenProperties, ElementOfSeq
    <3> QED BY <2>1, <3>1 DEF Entries
  <2>4. late[i] \in Int /\ late[timers[1].id] \in Int
    BY <1>4, <2>3, Bounds DEF Lates
  <2>5. ~(late[timers[1].id] >= 0)
    <3>1. Overdue(timers[1]) = late[timers[1].id]
      BY <1>4, <2>2 DEF Exact
    <3> QED BY <1>1, <2>2, <3>1 DEF Due, TimeOutReached, Overdue
  <2>6. late[timers[1].id] >= late[i]
    <3>1. CASE j = 1
      BY <2>1, <2>4, <3>1
    <3>2. CASE j # 1
      <4>1. 1 < j
        BY <2>2, <3>2
      <4> QED BY <1>4, <2>1, <2>2, <4>1 DEF Sorted, Exact
    <3> QED BY <3>1, <3>2
  <2> QED BY <2>4, <2>5, <2>6
<1>6. \A i \in DOMAIN Lateness : Lateness[i] < 0
  BY <1>3, <1>5
<1> QED BY <1>1, <1>2, <1>6 DEF Timers!HandleEvent

\* Calls from outside.
LEMMA PokeImplements == ASSUME Inv, Poke PROVE Timers!Set \/ UNCHANGED Timers!vars
<1>0. ListInv
  BY DEF Inv
<1>1. CASE \E t \in Tasks, on \in BOOLEAN, time \in Intervals : SaveTask(t, on, time)
  <2>1. PICK t \in Tasks, on \in BOOLEAN, time \in Intervals : SaveTask(t, on, time)
    BY <1>1
  <2>2. /\ IF on THEN SetTimer(TaskId(t), StartDelay[TaskId(t)]) ELSE KeepTimers
        /\ now' = now /\ running' = running
    BY <2>1 DEF SaveTask, loopVars
  <2>3. TaskId(t) \in Ids /\ StartDelay[TaskId(t)] \in 0 .. HalfMax
    BY IdsDiffer, Bounds
  <2>4. CASE on
    BY <1>0, <2>2, <2>3, <2>4, SettingImplements
  <2>5. CASE ~on
    BY <2>2, <2>5, SameLateness DEF KeepTimers, Timers!vars
  <2> QED BY <2>4, <2>5
<1>2. CASE \E t \in Tasks, p \in Plugins : ChangeDevice(t, p)
  BY <1>2, SameLateness DEF ChangeDevice, KeepTimers, loopVars, Timers!vars
<1>3. CASE \E t \in Tasks : HurryTask(t)
  <2>1. PICK t \in Tasks : HurryTask(t)
    BY <1>3
  <2>2. SetTimer(TaskId(t), Soon) /\ now' = now /\ running' = running
    BY <2>1 DEF HurryTask, loopVars
  <2>3. TaskId(t) \in Ids /\ Soon \in 0 .. HalfMax
    BY IdsDiffer, Bounds
  <2> QED BY <1>0, <2>2, <2>3, SettingImplements
<1>4. CASE \E delay \in {Soon, Step[Mqtt]} : SetMqttTimer(delay)
  <2>1. PICK delay \in {Soon, Step[Mqtt]} : SetMqttTimer(delay)
    BY <1>4
  <2>2. SetTimer(IntervalId(Mqtt), delay) /\ now' = now /\ running' = running
    BY <2>1 DEF SetMqttTimer, loopVars
  <2>3. IntervalId(Mqtt) \in Ids /\ delay \in 0 .. HalfMax
    BY IdsDiffer, Bounds
  <2> QED BY <1>0, <2>2, <2>3, SettingImplements
<1>5. CASE \E k \in Keys, delay \in PulseTimes : SetPluginTimer(k, delay)
  <2>1. PICK k \in Keys, delay \in PulseTimes : SetPluginTimer(k, delay)
    BY <1>5
  <2>2. SetTimer(PluginId(k), delay) /\ now' = now /\ running' = running
    BY <2>1 DEF SetPluginTimer, loopVars
  <2>3. PluginId(k) \in Ids /\ delay \in 0 .. HalfMax
    BY IdsDiffer, Bounds
  <2> QED BY <1>0, <2>2, <2>3, SettingImplements
<1>6. CASE ScheduleEvent \/ Stall
  BY <1>6, SameLateness DEF ScheduleEvent, Stall, KeepTimers, loopVars, Timers!vars
<1> QED BY <1>1, <1>2, <1>3, <1>4, <1>5, <1>6 DEF Poke

\* setup(), and the timers of the first connection.
LEMMA StartImplements == ASSUME Inv, Start PROVE Timers!Set \/ UNCHANGED Timers!vars
<1>0. ListInv
  BY DEF Inv
<1>1. CASE StartTask
  <2> DEFINE t == FirstTask
  <2>1. t \in TasksLeft
    BY <1>1, FirstTaskIsLeft DEF StartTask
  <2>2. /\ IF Served(t) THEN SetTimer(TaskId(t), StartDelay[TaskId(t)]) ELSE KeepTimers
        /\ now' = now /\ running' = running
    BY <1>1 DEF StartTask, FirstTask
  <2> HIDE DEF t
  <2>3. TaskId(t) \in Ids /\ StartDelay[TaskId(t)] \in 0 .. HalfMax
    BY <2>1, IdsDiffer, Bounds DEF TasksLeft
  <2>4. CASE Served(t)
    BY <1>0, <2>2, <2>3, <2>4, SettingImplements
  <2>5. CASE ~Served(t)
    BY <2>2, <2>5, SameLateness DEF KeepTimers, Timers!vars
  <2> QED BY <2>4, <2>5
<1>2. CASE StartInterval
  <2>1. PICK i \in Periodic : SetTimer(IntervalId(i), StartDelay[IntervalId(i)])
    BY <1>2 DEF StartInterval
  <2>2. now' = now /\ running' = running
    BY <1>2 DEF StartInterval
  <2>3. IntervalId(i) \in Ids /\ StartDelay[IntervalId(i)] \in 0 .. HalfMax
    BY IdsDiffer, Bounds
  <2> QED BY <1>0, <2>1, <2>2, <2>3, SettingImplements
<1> QED BY <1>1, <1>2 DEF Start

\* The remaining steps of loop(): a handler returns, or nothing is handled.
LEMMA LoopImplements ==
  ASSUME Inv, FirstConnection \/ IdlePass \/ End
  PROVE  Timers!Return \/ UNCHANGED Timers!vars
<1>1. UNCHANGED <<now, timers>>
  BY DEF FirstConnection, IdlePass, End, EndHandler, EndEvent, EndPluginTimer
<1>2. Lateness' = Lateness
  BY <1>1, SameLateness
<1>3. running' = running \/ running' = Loop
  BY DEF FirstConnection, IdlePass, End, EndHandler, EndEvent, EndPluginTimer
<1> QED BY <1>2, <1>3 DEF Timers!Return, Timers!vars

\* The scheduler, with words that wrap and one list that is sorted only when a
\* timer is set, implements timers on a clock that does not wrap.
THEOREM Implementation == Spec => ImplementsTimers
<1>1. Init => Timers!Init
  <2> SUFFICES ASSUME Init PROVE Lateness = [i \in {} |-> 0] /\ running = Loop
    BY DEF Timers!Init
  <2>1. Queued = {}
    BY DEF Init, Queued
  <2> QED BY <2>1 DEF Init, Lateness
<1>2. Inv /\ Inv' /\ [Next]_vars => [Timers!Next]_(Timers!vars)
  <2> SUFFICES ASSUME Inv, Inv', [Next]_vars PROVE Timers!Next \/ UNCHANGED Timers!vars
    OBVIOUS
  <2>1. CASE Start
    BY <2>1, StartImplements DEF Timers!Next
  <2>2. CASE Pass
    BY <2>2, IntervalImplements, TaskImplements, PluginImplements, EventImplements,
       LoopImplements DEF Pass, Timers!Next
  <2>3. CASE End \/ FirstConnection
    BY <2>3, LoopImplements DEF Timers!Next
  <2>4. CASE Tick
    BY <2>4, TickImplements DEF Timers!Next
  <2>5. CASE Poke
    BY <2>5, PokeImplements DEF Timers!Next
  <2>6. CASE UNCHANGED vars
    BY <2>6, SameLateness DEF vars, loopVars, Timers!vars
  <2> QED BY <2>1, <2>2, <2>3, <2>4, <2>5, <2>6 DEF Next
<1> QED BY <1>1, <1>2, InvAlways, PTL DEF Spec, ImplementsTimers, Timers!Spec
=============================================================================
