--------------------------- MODULE LiveListProofs ---------------------------
(***************************************************************************)
(* Two components keep a view of a list that others change meanwhile.      *)
(*                                                                         *)
(* A dispatch of the hook registry iterates by index over the live list of *)
(* handlers (Hooks): what it misses and repeats is counted against what    *)
(* was registered and unregistered, for any handlers, priorities and       *)
(* number of dispatches.                                                   *)
(*                                                                         *)
(* The dashboard draws cached lines of the manager's list                  *)
(* (AgentDashboard): they lie between the last refresh and now, for any    *)
(* agents and keys.                                                        *)
(***************************************************************************)
EXTENDS Hooks, AgentDashboard, FiniteSetTheorems, SequenceTheorems, WellFoundedInduction, TLAPS

-----------------------------------------------------------------------------
(* Sequences of which one element is inserted or removed.                  *)

\* InsertAt: e is at k, what was there and after it one place further.
LEMMA InsertAtProperties ==
    ASSUME NEW S, NEW s \in Seq(S), NEW e \in S, NEW k \in 1..(Len(s) + 1)
    PROVE  /\ InsertAt(s, k, e) \in Seq(S)
           /\ Len(InsertAt(s, k, e)) = Len(s) + 1
           /\ \A j \in 1..(Len(s) + 1) :
                 InsertAt(s, k, e)[j] = IF j < k THEN s[j] ELSE IF j = k THEN e ELSE s[j - 1]
<1> DEFINE before == SubSeq(s, 1, k - 1)
           after == SubSeq(s, k, Len(s))
<1>1. Len(s) \in Nat
  OBVIOUS
<1>2. /\ before \in Seq(S) /\ Len(before) = k - 1
      /\ \A j \in 1..(k - 1) : before[j] = s[j]
  BY <1>1, SubSeqProperties
<1>3. /\ after \in Seq(S) /\ Len(after) = Len(s) - k + 1
      /\ \A j \in 1..(Len(s) - k + 1) : after[j] = s[k + j - 1]
  BY <1>1, SubSeqProperties
<1>4. /\ <<e>> \in Seq(S) /\ Len(<<e>>) = 1 /\ <<e>>[1] = e
  OBVIOUS
<1> HIDE DEF before, after
<1>5. /\ before \o <<e>> \in Seq(S) /\ Len(before \o <<e>>) = k
      /\ \A j \in 1..k : (before \o <<e>>)[j] = IF j < k THEN s[j] ELSE e
  BY <1>1, <1>2, <1>4, ConcatProperties
<1> DEFINE front == before \o <<e>>
<1> HIDE DEF front
<1>6. /\ front \o after \in Seq(S)
      /\ Len(front \o after) = Len(s) + 1
      /\ \A j \in 1..(Len(s) + 1) :
            (front \o after)[j] = IF j <= k THEN front[j] ELSE after[j - k]
  <2>1. front \in Seq(S) /\ Len(front) = k /\ after \in Seq(S)
    BY <1>3, <1>5 DEF front
  <2>2. /\ front \o after \in Seq(S)
        /\ Len(front \o after) = Len(front) + Len(after)
        /\ \A j \in 1..(Len(front) + Len(after)) :
              (front \o after)[j] = IF j <= Len(front) THEN front[j] ELSE after[j - Len(front)]
    BY <2>1, ConcatProperties
  <2>3. Len(front) + Len(after) = Len(s) + 1
    BY <1>1, <1>3, <2>1
  <2>4. QED
    BY <2>1, <2>2, <2>3
<1>7. \A j \in (k + 1)..(Len(s) + 1) : j - k \in 1..(Len(s) - k + 1) /\ k + (j - k) - 1 = j - 1
  BY <1>1
<1>8. InsertAt(s, k, e) = front \o after
  BY DEF InsertAt, before, after, front
<1>9. QED
  BY <1>1, <1>3, <1>5, <1>6, <1>7, <1>8 DEF front

\* RemoveAt: what was after k is one place nearer.
LEMMA RemoveAtProperties ==
    ASSUME NEW S, NEW s \in Seq(S), NEW k \in 1..Len(s)
    PROVE  /\ RemoveAt(s, k) \in Seq(S)
           /\ Len(RemoveAt(s, k)) = Len(s) - 1
           /\ \A j \in 1..(Len(s) - 1) : RemoveAt(s, k)[j] = IF j < k THEN s[j] ELSE s[j + 1]
<1> DEFINE before == SubSeq(s, 1, k - 1)
           after == SubSeq(s, k + 1, Len(s))
<1>1. Len(s) \in Nat
  OBVIOUS
<1>2. /\ before \in Seq(S) /\ Len(before) = k - 1
      /\ \A j \in 1..(k - 1) : before[j] = s[j]
  BY <1>1, SubSeqProperties
<1>3. /\ after \in Seq(S) /\ Len(after) = Len(s) - k
      /\ \A j \in 1..(Len(s) - k) : after[j] = s[k + j]
  BY <1>1, SubSeqProperties
<1> HIDE DEF before, after
<1>4. /\ before \o after \in Seq(S)
      /\ Len(before \o after) = Len(s) - 1
      /\ \A j \in 1..(Len(s) - 1) :
            (before \o after)[j] = IF j < k THEN before[j] ELSE after[j - (k - 1)]
  <2>1. before \in Seq(S) /\ Len(before) = k - 1 /\ after \in Seq(S)
    BY <1>2, <1>3
  <2>2. /\ before \o after \in Seq(S)
        /\ Len(before \o after) = Len(before) + Len(after)
        /\ \A j \in 1..(Len(before) + Len(after)) :
              (before \o after)[j] = IF j <= Len(before) THEN before[j]
                                      ELSE after[j - Len(before)]
    BY <2>1, ConcatProperties
  <2>3. Len(before) + Len(after) = Len(s) - 1
    BY <1>1, <1>3, <2>1
  <2>4. \A j \in 1..(Len(s) - 1) : j <= k - 1 <=> j < k
    BY <1>1
  <2>5. QED
    BY <2>1, <2>2, <2>3, <2>4
<1>5. \A j \in k..(Len(s) - 1) : j - (k - 1) \in 1..(Len(s) - k) /\ k + (j - (k - 1)) = j + 1
  BY <1>1
<1>6. RemoveAt(s, k) = before \o after
  BY DEF RemoveAt, before, after
<1> DEFINE both == before \o after
<1> HIDE DEF both
<1>7. \A j \in 1..(Len(s) - 1) : both[j] = IF j < k THEN s[j] ELSE s[j + 1]
  <2>1. ASSUME NEW j \in 1..(k - 1)
        PROVE  j < k /\ j \in 1..(Len(s) - 1) /\ both[j] = s[j]
    BY <1>1, <1>2, <1>4 DEF both
  <2>2. ASSUME NEW j \in k..(Len(s) - 1)
        PROVE  ~(j < k) /\ both[j] = s[j + 1]
    <3>1. j \in 1..(Len(s) - 1) /\ ~(j < k)
      BY <1>1
    <3>2. both[j] = after[j - (k - 1)]
      BY <1>4, <3>1 DEF both
    <3>3. after[j - (k - 1)] = s[k + (j - (k - 1))] /\ k + (j - (k - 1)) = j + 1
      BY <1>3, <1>5
    <3> QED BY <3>1, <3>2, <3>3
  <2>3. \A j \in 1..(Len(s) - 1) : j \in 1..(k - 1) \/ j \in k..(Len(s) - 1)
    BY <1>1
  <2> QED BY <2>1, <2>2, <2>3
<1>8. RemoveAt(s, k) = both
  BY <1>6 DEF both
<1> QED BY <1>4, <1>7, <1>8 DEF both

\* The elements of a sequence.
LEMMA ElementsAppend ==
    ASSUME NEW S, NEW s \in Seq(S), NEW e \in S
    PROVE  ToSet(Append(s, e)) = ToSet(s) \cup {e}
<1>1. Len(s) \in Nat /\ DOMAIN s = 1..Len(s)
  OBVIOUS
<1>2. /\ DOMAIN Append(s, e) = 1..(Len(s) + 1)
      /\ \A i \in 1..Len(s) : Append(s, e)[i] = s[i]
      /\ Append(s, e)[Len(s) + 1] = e
  BY AppendProperties
<1>3. \A x : x \in ToSet(Append(s, e)) <=> \E i \in 1..(Len(s) + 1) : x = Append(s, e)[i]
  BY <1>2 DEF ToSet
<1>4. \A x : x \in ToSet(s) <=> \E i \in 1..Len(s) : x = s[i]
  BY <1>1 DEF ToSet
<1>5. 1..(Len(s) + 1) = 1..Len(s) \cup {Len(s) + 1}
  BY <1>1
<1> QED BY <1>2, <1>3, <1>4, <1>5

\* A set of positions without gaps below it is as large as its last position.
LEMMA PrefixSize ==
    ASSUME NEW n \in Nat, NEW B \in SUBSET (1..n),
           \A i \in B : \A j \in 1..n : j < i => j \in B
    PROVE  Cardinality(B) \in 0..n /\ B = 1..Cardinality(B)
<1> DEFINE C == (1..(n + 1)) \ B
           R == OpToRel(<, Nat)
<1>1. C \subseteq Nat /\ C # {}
  <2>1. n + 1 \in C
    OBVIOUS
  <2> QED BY <2>1
<1>2. IsWellFoundedOn(R, Nat) /\ \A x, y \in Nat : y < x => <<y, x>> \in R
  BY NatLessThanWellFounded DEF OpToRel
<1> HIDE DEF R
<1>3. PICK m \in C : \A j \in C : ~ (<<j, m>> \in R)
  <2> HIDE DEF C
  <2> QED BY <1>1, <1>2, WFMin
<1>4. m \in 1..(n + 1) /\ m \notin B
  OBVIOUS
<1>5. ASSUME NEW j \in 1..(m - 1) PROVE j \in B
  <2>1. j \in Nat /\ m \in Nat /\ j < m /\ j \in 1..(n + 1)
    BY <1>4
  <2>2. j \notin C
    BY <1>2, <1>3, <2>1
  <2> QED BY <2>1, <2>2
<1>6. ASSUME NEW j \in B PROVE j \in 1..(m - 1)
  BY <1>4
<1>7. B = 1..(m - 1)
  BY <1>5, <1>6
<1>8. Cardinality(1..(m - 1)) = m - 1
  BY <1>4, FS_Interval
<1> QED BY <1>4, <1>7, <1>8

-----------------------------------------------------------------------------
(* The list of the registry and what register and unregister make of it.   *)

\* A list by priority.
Sorted(s) == \A i, j \in DOMAIN s : i < j => Priority[s[i]] <= Priority[s[j]]

\* What register's sort and its test of the id keep of the list.
ListOK(l) ==
    /\ l \in Seq(Handlers) /\ IsFiniteSet(ToSet(l))
    /\ \A i, j \in DOMAIN l : l[i] = l[j] => i = j
    /\ Sorted(l)

\* The handlers an iteration at position n has in front of it.
After(l, n) == {l[j] : j \in {i \in DOMAIN l : i > n}}

\* h goes in at k.
Place(l, h, k) ==
    /\ k \in 1..(Len(l) + 1)
    /\ \A i \in 1..Len(l) : IF i < k THEN Priority[l[i]] <= Priority[h]
                            ELSE Priority[h] <= Priority[l[i]]

\* register finds the place for a handler.
LEMMA RegisterFindsPlace ==
    ASSUME ListOK(list), NEW h \in Handlers
    PROVE  \E k \in Nat : Place(list, h, k) /\ Inserted(h) = InsertAt(list, k, h)
<1> DEFINE B == {i \in DOMAIN list : Priority[list[i]] <= Priority[h]}
           n == Len(list)
<1>1. n \in Nat /\ DOMAIN list = 1..n /\ \A i \in 1..n : list[i] \in Handlers
  BY DEF ListOK
<1>2. \A g \in Handlers : Priority[g] \in Nat
  BY PriorityAssumption
<1>3. ASSUME NEW i \in B, NEW j \in 1..n, j < i PROVE j \in B
  <2>1. Priority[list[j]] <= Priority[list[i]] /\ Priority[list[i]] <= Priority[h]
    BY <1>1, <1>3 DEF ListOK, Sorted
  <2>2. Priority[list[j]] \in Nat /\ Priority[list[i]] \in Nat /\ Priority[h] \in Nat
    BY <1>1, <1>2
  <2> QED BY <1>1, <2>1, <2>2
<1>4. Cardinality(B) \in 0..n /\ B = 1..Cardinality(B)
  <2>1. B \in SUBSET (1..n)
    BY <1>1
  <2> HIDE DEF B, n
  <2> QED BY <1>1, <1>3, <2>1, PrefixSize
<1> DEFINE k == Cardinality(B) + 1
<1>5. Inserted(h) = InsertAt(list, k, h)
  BY DEF Inserted
<1>6. ASSUME NEW i \in 1..n
      PROVE  IF i < k THEN Priority[list[i]] <= Priority[h] ELSE Priority[h] <= Priority[list[i]]
  <2>1. i < k <=> i \in B
    <3> HIDE DEF B, n
    <3> QED BY <1>1, <1>4
  <2>2. Priority[list[i]] \in Nat /\ Priority[h] \in Nat
    BY <1>1, <1>2
  <2> HIDE DEF k
  <2> QED BY <1>1, <2>1, <2>2
<1> HIDE DEF B, n
<1>7. Place(list, h, k) /\ k \in Nat
  BY <1>1, <1>4, <1>6 DEF Place, n
<1> QED BY <1>5, <1>7

\* The list with one more handler.
LEMMA InsertShape ==
    ASSUME NEW l, ListOK(l), NEW h \in Handlers, NEW k \in Nat, Place(l, h, k)
    PROVE  /\ Len(l) \in Nat /\ DOMAIN l = 1..Len(l) /\ l \in Seq(Handlers) /\ k \in 1..(Len(l) + 1)
           /\ InsertAt(l, k, h) \in Seq(Handlers)
           /\ DOMAIN InsertAt(l, k, h) = 1..(Len(l) + 1)
           /\ \A j \in 1..(Len(l) + 1) :
                 InsertAt(l, k, h)[j] = IF j < k THEN l[j] ELSE IF j = k THEN h ELSE l[j - 1]
<1>1. Len(l) \in Nat /\ DOMAIN l = 1..Len(l) /\ l \in Seq(Handlers) /\ k \in 1..(Len(l) + 1)
  BY DEF ListOK, Place
<1> QED BY <1>1, InsertAtProperties

\* The list with one handler less.
LEMMA RemoveShape ==
    ASSUME NEW l, ListOK(l), NEW k \in DOMAIN l
    PROVE  /\ Len(l) \in Nat /\ DOMAIN l = 1..Len(l) /\ l \in Seq(Handlers) /\ k \in 1..Len(l)
           /\ RemoveAt(l, k) \in Seq(Handlers)
           /\ DOMAIN RemoveAt(l, k) = 1..(Len(l) - 1)
           /\ \A j \in 1..(Len(l) - 1) : RemoveAt(l, k)[j] = IF j < k THEN l[j] ELSE l[j + 1]
<1>1. Len(l) \in Nat /\ DOMAIN l = 1..Len(l) /\ l \in Seq(Handlers) /\ k \in 1..Len(l)
  BY DEF ListOK
<1>2. /\ RemoveAt(l, k) \in Seq(Handlers) /\ Len(RemoveAt(l, k)) = Len(l) - 1
      /\ \A j \in 1..(Len(l) - 1) : RemoveAt(l, k)[j] = IF j < k THEN l[j] ELSE l[j + 1]
  BY <1>1, RemoveAtProperties, Zenon
<1>3. DOMAIN RemoveAt(l, k) = 1..(Len(l) - 1)
  BY <1>2
<1> QED BY <1>1, <1>2, <1>3

\* The list with one more handler, in its place, is still in order.
LEMMA InsertKeepsList ==
    ASSUME NEW l, ListOK(l), NEW h \in Handlers, h \notin ToSet(l), NEW k \in Nat, Place(l, h, k)
    PROVE  /\ ListOK(InsertAt(l, k, h))
           /\ ToSet(InsertAt(l, k, h)) = ToSet(l) \cup {h}
<1> DEFINE m == InsertAt(l, k, h)
           n == Len(l)
<1>1. n \in Nat /\ DOMAIN l = 1..n /\ l \in Seq(Handlers) /\ k \in 1..(n + 1)
  BY InsertShape
<1>2. /\ m \in Seq(Handlers) /\ DOMAIN m = 1..(n + 1)
      /\ \A j \in 1..(n + 1) : m[j] = IF j < k THEN l[j] ELSE IF j = k THEN h ELSE l[j - 1]
  BY InsertShape
<1> HIDE DEF m
<1>3. \A i \in 1..n : l[i] \in Handlers /\ l[i] # h
  BY <1>1 DEF ToSet
<1>4. ToSet(m) = ToSet(l) \cup {h}
  <2>1. ASSUME NEW i \in 1..n PROVE l[i] \in ToSet(m)
    <3>1. CASE i < k
      BY <1>1, <1>2, <3>1 DEF ToSet
    <3>2. CASE i >= k
      <4>1. i + 1 \in 1..(n + 1) /\ i + 1 > k /\ (i + 1) - 1 = i
        BY <1>1, <3>2
      <4>2. m[i + 1] = l[i]
        BY <1>1, <1>2, <4>1
      <4> QED BY <1>2, <4>1, <4>2 DEF ToSet
    <3> QED BY <1>1, <3>1, <3>2
  <2>2. h \in ToSet(m)
    BY <1>1, <1>2 DEF ToSet
  <2>3. ASSUME NEW j \in 1..(n + 1) PROVE m[j] \in ToSet(l) \cup {h}
    BY <1>1, <1>2 DEF ToSet
  <2> QED BY <1>1, <1>2, <2>1, <2>2, <2>3 DEF ToSet
<1>5. ASSUME NEW i \in DOMAIN m, NEW j \in DOMAIN m, m[i] = m[j] PROVE i = j
  <2>1. \A x, y \in 1..n : l[x] = l[y] => x = y
    BY <1>1 DEF ListOK
  <2> QED BY <1>1, <1>2, <1>3, <1>5, <2>1
<1>6. ASSUME NEW i \in DOMAIN m, NEW j \in DOMAIN m, i < j PROVE Priority[m[i]] <= Priority[m[j]]
  <2>1. \A x, y \in 1..n : x < y => Priority[l[x]] <= Priority[l[y]]
    BY <1>1 DEF ListOK, Sorted
  <2>2. \A x \in 1..n : IF x < k THEN Priority[l[x]] <= Priority[h] ELSE Priority[h] <= Priority[l[x]]
    BY DEF Place
  <2> QED BY <1>1, <1>2, <1>6, <2>1, <2>2
<1>7. IsFiniteSet(ToSet(m))
  BY <1>4, FS_AddElement DEF ListOK
<1> QED BY <1>2, <1>4, <1>5, <1>6, <1>7 DEF ListOK, Sorted, m

\* So is the list with one handler less.
LEMMA RemoveKeepsList ==
    ASSUME NEW l, ListOK(l), NEW k \in DOMAIN l
    PROVE  /\ ListOK(RemoveAt(l, k))
           /\ ToSet(RemoveAt(l, k)) = ToSet(l) \ {l[k]}
<1> DEFINE m == RemoveAt(l, k)
           n == Len(l)
<1>1. n \in Nat /\ DOMAIN l = 1..n /\ l \in Seq(Handlers) /\ k \in 1..n
  BY RemoveShape
<1>2. /\ m \in Seq(Handlers) /\ DOMAIN m = 1..(n - 1)
      /\ \A j \in 1..(n - 1) : m[j] = IF j < k THEN l[j] ELSE l[j + 1]
  BY RemoveShape
<1> HIDE DEF m
<1>3. \A x, y \in 1..n : l[x] = l[y] => x = y
  BY <1>1 DEF ListOK
<1>4. ToSet(m) = ToSet(l) \ {l[k]}
  <2>1. ASSUME NEW i \in 1..n, i # k PROVE l[i] \in ToSet(m)
    <3>1. CASE i < k
      BY <1>1, <1>2, <3>1 DEF ToSet
    <3>2. CASE i > k
      <4>1. i - 1 \in 1..(n - 1) /\ i - 1 >= k /\ (i - 1) + 1 = i
        BY <1>1, <3>2
      <4>2. m[i - 1] = l[i]
        BY <1>1, <1>2, <4>1
      <4> QED BY <1>2, <4>1, <4>2 DEF ToSet
    <3> QED BY <1>1, <2>1, <3>1, <3>2
  <2>2. ASSUME NEW j \in 1..(n - 1) PROVE m[j] \in ToSet(l) \ {l[k]}
    <3>1. j \in 1..n /\ j + 1 \in 1..n
      BY <1>1
    <3> QED BY <1>1, <1>2, <1>3, <3>1 DEF ToSet
  <2> QED BY <1>1, <1>2, <2>1, <2>2 DEF ToSet
<1>5. ASSUME NEW i \in DOMAIN m, NEW j \in DOMAIN m, m[i] = m[j] PROVE i = j
  BY <1>1, <1>2, <1>3, <1>5
<1>6. ASSUME NEW i \in DOMAIN m, NEW j \in DOMAIN m, i < j PROVE Priority[m[i]] <= Priority[m[j]]
  <2>1. \A x, y \in 1..n : x < y => Priority[l[x]] <= Priority[l[y]]
    BY <1>1 DEF ListOK, Sorted
  <2> QED BY <1>1, <1>2, <1>6, <2>1
<1>7. IsFiniteSet(ToSet(m))
  BY <1>4, FS_RemoveElement DEF ListOK
<1> QED BY <1>2, <1>4, <1>5, <1>6, <1>7 DEF ListOK, Sorted, m

\* What an iteration has in front of it grows by at most one handler ...
LEMMA AfterInsert ==
    ASSUME NEW l, ListOK(l), NEW h \in Handlers, NEW k \in Nat, Place(l, h, k), NEW n \in Nat
    PROVE  \E e : /\ After(l, n) \subseteq After(InsertAt(l, k, h), n)
                  /\ After(InsertAt(l, k, h), n) \subseteq After(l, n) \cup {e}
<1> DEFINE m == InsertAt(l, k, h)
           z == Len(l)
<1>1. z \in Nat /\ DOMAIN l = 1..z /\ l \in Seq(Handlers) /\ k \in 1..(z + 1)
  BY InsertShape
<1>2. /\ m \in Seq(Handlers) /\ DOMAIN m = 1..(z + 1)
      /\ \A j \in 1..(z + 1) : m[j] = IF j < k THEN l[j] ELSE IF j = k THEN h ELSE l[j - 1]
  BY InsertShape
<1> HIDE DEF m, z
<1>3. After(l, n) \subseteq After(m, n)
  <2>1. ASSUME NEW i \in 1..z, i > n PROVE \E j \in 1..(z + 1) : j > n /\ m[j] = l[i]
    <3>1. CASE i < k
      BY <1>1, <1>2, <2>1, <3>1
    <3>2. CASE i >= k
      <4>1. i + 1 \in 1..(z + 1) /\ i + 1 > n /\ i + 1 > k /\ (i + 1) - 1 = i
        BY <1>1, <2>1, <3>2
      <4>2. m[i + 1] = l[i]
        BY <1>1, <1>2, <4>1
      <4> QED BY <4>1, <4>2
    <3> QED BY <1>1, <3>1, <3>2
  <2>2. ASSUME NEW x \in After(l, n) PROVE x \in After(m, n)
    <3>1. PICK i \in 1..z : i > n /\ x = l[i]
      BY <1>1 DEF After
    <3>2. PICK j \in 1..(z + 1) : j > n /\ m[j] = l[i]
      BY <2>1, <3>1
    <3> QED BY <1>2, <3>1, <3>2 DEF After
  <2> QED BY <2>2
<1> DEFINE e == IF k > n THEN h ELSE l[n]
<1>4. ASSUME NEW j \in 1..(z + 1), j > n PROVE m[j] \in After(l, n) \cup {e}
  <2>1. CASE j < k
    BY <1>1, <1>2, <1>4, <2>1 DEF After
  <2>2. CASE j = k
    BY <1>1, <1>2, <1>4, <2>2
  <2>3. CASE j > k
    <3>1. m[j] = l[j - 1] /\ j - 1 \in 1..z
      BY <1>1, <1>2, <2>3
    <3>2. CASE j - 1 > n
      BY <1>1, <3>1, <3>2 DEF After
    <3>3. CASE j - 1 = n
      <4>1. ~ (k > n)
        BY <1>1, <2>3, <3>3
      <4> QED BY <3>1, <3>3, <4>1
    <3>4. j - 1 >= n
      BY <1>4
    <3> QED BY <3>2, <3>3, <3>4
  <2> QED BY <1>1, <2>1, <2>2, <2>3
<1>5. After(m, n) \subseteq After(l, n) \cup {e}
  BY <1>2, <1>4 DEF After
<1> QED BY <1>3, <1>5 DEF m

\* ... and shrinks by at most one.
LEMMA AfterRemove ==
    ASSUME NEW l, ListOK(l), NEW k \in DOMAIN l, NEW n \in Nat
    PROVE  \E e : /\ After(RemoveAt(l, k), n) \subseteq After(l, n)
                  /\ After(l, n) \subseteq After(RemoveAt(l, k), n) \cup {e}
<1> DEFINE m == RemoveAt(l, k)
           z == Len(l)
<1>1. z \in Nat /\ DOMAIN l = 1..z /\ l \in Seq(Handlers) /\ k \in 1..z
  BY RemoveShape
<1>2. /\ m \in Seq(Handlers) /\ DOMAIN m = 1..(z - 1)
      /\ \A j \in 1..(z - 1) : m[j] = IF j < k THEN l[j] ELSE l[j + 1]
  BY RemoveShape
<1> HIDE DEF m, z
<1>3. After(m, n) \subseteq After(l, n)
  <2>1. ASSUME NEW j \in 1..(z - 1), j > n PROVE \E i \in 1..z : i > n /\ m[j] = l[i]
    <3>1. j \in 1..z /\ j + 1 \in 1..z /\ j + 1 > n
      BY <1>1, <2>1
    <3>2. m[j] = l[j] \/ m[j] = l[j + 1]
      BY <1>2
    <3> QED BY <2>1, <3>1, <3>2
  <2>2. \A j \in 1..(z - 1) : j > n => \E i \in 1..z : i > n /\ m[j] = l[i]
    BY <2>1
  <2>3. ASSUME NEW x \in After(m, n) PROVE x \in After(l, n)
    <3>1. PICK j \in 1..(z - 1) : j > n /\ x = m[j]
      BY <1>2 DEF After
    <3>2. PICK i \in 1..z : i > n /\ m[j] = l[i]
      BY <2>2, <3>1
    <3> QED BY <1>1, <3>1, <3>2 DEF After
  <2> QED BY <2>3
<1> DEFINE e == IF k > n THEN l[k] ELSE l[n + 1]
<1>4. ASSUME NEW i \in 1..z, i > n PROVE l[i] \in After(m, n) \cup {e}
  <2>1. CASE i < k
    <3>1. i \in 1..(z - 1) /\ m[i] = l[i]
      BY <1>1, <1>2, <2>1
    <3> QED BY <1>2, <1>4, <3>1 DEF After
  <2>2. CASE i = k
    BY <1>1, <1>4, <2>2
  <2>3. CASE i > k
    <3>1. i - 1 \in 1..(z - 1) /\ i - 1 >= k /\ (i - 1) + 1 = i
      BY <1>1, <2>3
    <3>2. m[i - 1] = l[i]
      BY <1>1, <1>2, <3>1
    <3>3. CASE i - 1 > n
      BY <1>2, <3>1, <3>2, <3>3 DEF After
    <3>4. CASE i - 1 = n
      <4>1. i = n + 1 /\ ~ (k > n)
        BY <1>1, <2>3, <3>4
      <4> QED BY <4>1
    <3>5. i - 1 >= n
      BY <1>4
    <3> QED BY <3>3, <3>4, <3>5
  <2> QED BY <1>1, <2>1, <2>2, <2>3
<1>5. After(l, n) \subseteq After(m, n) \cup {e}
  BY <1>1, <1>4 DEF After
<1> QED BY <1>3, <1>5 DEF m

-----------------------------------------------------------------------------
(* A dispatch between two of its steps.                                    *)

\* The dispatches there can be, but for the order and the count of what they ask.
Dispatching ==
    [pc : {"idle", "asking", "done"}, index : Nat, dropped : BOOLEAN, hasModify : BOOLEAN,
     result : {"none", "allow", "modify", "block"}, asked : Seq(Handlers),
     since : SUBSET Handlers, added : Nat, removed : Nat]

\* How often a handler was asked again.
Repeats(s) == Len(s.asked) - Cardinality(ToSet(s.asked))

\* Of an iteration over the list l.  The handlers that are asked already and in
\* front of it once more will be repeats; those that were there all the time, are
\* neither asked nor in front of it, have been missed.  What it has asked is not
\* behind what is in front of it, the handler at its place included unless one
\* has registered and may have pushed an earlier one there.
Goes(s, l) ==
    /\ s.index >= 1
    /\ s.since \subseteq ToSet(l)
    /\ Repeats(s) + Cardinality(After(l, s.index) \cap ToSet(s.asked)) <= s.added
    /\ Cardinality((s.since \ ToSet(s.asked)) \ After(l, s.index)) <= s.removed
    /\ s.added <= 1 =>
          \A i \in DOMAIN s.asked, j \in DOMAIN l :
              j > s.index \/ (j = s.index /\ s.added = 0)
                  => Priority[s.asked[i]] <= Priority[l[j]]

\* What holds of the dispatch s while the registry has the list l.
DispatchOK(s, l) ==
    /\ s \in Dispatching /\ IsFiniteSet(ToSet(s.asked))
    /\ s.pc = "idle" => s = NewDispatch
    /\ s.pc = "asking" => s.result = "none" /\ IF s.dropped THEN s.since = {} ELSE Goes(s, l)
    /\ Repeats(s) <= s.added
    /\ s.result \in {"allow", "modify"} => Cardinality(s.since \ ToSet(s.asked)) <= s.removed
    /\ s.added <= 1 => Sorted(s.asked)

\* The inductive invariant of the registry.
IInv ==
    /\ ListOK(list) /\ DOMAIN dispatch = Dispatches
    /\ \A d \in Dispatches : DispatchOK(dispatch[d], list)

\* Repeats, in numbers.
LEMMA RepeatsValue ==
    ASSUME NEW s, NEW n \in Nat, NEW c \in Nat, Len(s.asked) = n, Cardinality(ToSet(s.asked)) = c
    PROVE  Repeats(s) = n - c
BY DEF Repeats

\* t is s after a handler has left the list.
LeftOf(t, s, removed, since, dropped) ==
    /\ t \in Dispatching /\ t.pc = s.pc /\ t.result = s.result /\ t.index = s.index
    /\ t.asked = s.asked /\ t.added = s.added
    /\ t.removed = removed /\ t.since = since /\ t.dropped = dropped

\* Unregister changes three fields of a dispatch.
LEMMA FieldsAfterUnregister ==
    ASSUME NEW s, s \in Dispatching, NEW dropped \in BOOLEAN,
           NEW since \in SUBSET Handlers, NEW removed \in Nat
    PROVE  LeftOf([s EXCEPT !.removed = removed, !.since = since, !.dropped = dropped],
                  s, removed, since, dropped)
BY DEF Dispatching, LeftOf

\* t is s after the handler asked has answered and the iteration goes on.
GoneOn(t, s, index, names) ==
    /\ t \in Dispatching /\ t.pc = s.pc /\ t.result = s.result /\ t.dropped = s.dropped
    /\ t.since = s.since /\ t.added = s.added /\ t.removed = s.removed
    /\ t.index = index /\ t.asked = names

\* An answer that does not end the dispatch changes three others.
LEMMA FieldsAfterAnswer ==
    ASSUME NEW s, s \in Dispatching, NEW index \in Nat, NEW hasModify \in BOOLEAN,
           NEW names \in Seq(Handlers)
    PROVE  GoneOn([s EXCEPT !.index = index, !.hasModify = hasModify, !.asked = names],
                  s, index, names)
BY DEF Dispatching, GoneOn

\* A finite set and one that has at most one element more.
LEMMA OneMore ==
    ASSUME NEW A, IsFiniteSet(A), NEW B, NEW e, B \subseteq A \cup {e}
    PROVE  /\ IsFiniteSet(B)
           /\ Cardinality(A) \in Nat /\ Cardinality(B) \in Nat
           /\ Cardinality(B) <= Cardinality(A) + 1
<1>1. /\ IsFiniteSet(A \cup {e}) /\ Cardinality(A) \in Nat
      /\ Cardinality(A \cup {e}) \in {Cardinality(A), Cardinality(A) + 1}
  BY FS_AddElement, FS_CardinalityType
<1>2. IsFiniteSet(B) /\ Cardinality(B) <= Cardinality(A \cup {e})
  BY <1>1, FS_Subset
<1>3. Cardinality(B) \in Nat
  BY <1>2, FS_CardinalityType
<1> QED BY <1>1, <1>2, <1>3

\* What a dispatch has found is counted in numbers.
LEMMA FoundIsCounted ==
    ASSUME NEW s, s \in Dispatching, IsFiniteSet(ToSet(s.asked)), NEW l, ListOK(l), Goes(s, l), NEW n \in Nat
    PROVE  /\ Repeats(s) \in Int /\ Len(s.asked) \in Nat
           /\ IsFiniteSet(After(l, n) \cap ToSet(s.asked))
           /\ Cardinality(After(l, n) \cap ToSet(s.asked)) \in Nat
           /\ IsFiniteSet((s.since \ ToSet(s.asked)) \ After(l, n))
           /\ Cardinality((s.since \ ToSet(s.asked)) \ After(l, n)) \in Nat
<1>1. Len(s.asked) \in Nat /\ Cardinality(ToSet(s.asked)) \in Nat
  BY FS_CardinalityType DEF Dispatching
<1>2. IsFiniteSet(After(l, n) \cap ToSet(s.asked))
  BY FS_Subset
<1>3. IsFiniteSet((s.since \ ToSet(s.asked)) \ After(l, n))
  BY FS_Subset DEF Goes, ListOK
<1> QED BY <1>1, <1>2, <1>3, FS_CardinalityType DEF Repeats

\* A handler registers under an iteration.
LEMMA GoesOnAfterRegister ==
    ASSUME NEW s, s \in Dispatching, IsFiniteSet(ToSet(s.asked)), NEW l, ListOK(l), Goes(s, l),
           NEW h \in Handlers, h \notin ToSet(l), NEW k \in Nat, Place(l, h, k)
    PROVE  Goes([s EXCEPT !.added = @ + 1], InsertAt(l, k, h))
<1> DEFINE m == InsertAt(l, k, h)
           t == [s EXCEPT !.added = @ + 1]
           n == s.index
           z == Len(l)
<1>1. /\ t.index = s.index /\ t.since = s.since /\ t.asked = s.asked /\ t.removed = s.removed
      /\ t.added = s.added + 1 /\ s.added \in Nat /\ n \in Nat /\ s.removed \in Nat
      /\ s.asked \in Seq(Handlers)
  BY DEF Dispatching
<1>2. ToSet(m) = ToSet(l) \cup {h}
  BY InsertKeepsList
<1>3. PICK e : After(l, n) \subseteq After(m, n) /\ After(m, n) \subseteq After(l, n) \cup {e}
  BY <1>1, AfterInsert, Zenon
<1>4. /\ z \in Nat /\ DOMAIN l = 1..z /\ l \in Seq(Handlers) /\ k \in 1..(z + 1)
      /\ m \in Seq(Handlers) /\ DOMAIN m = 1..(z + 1)
      /\ \A j \in 1..(z + 1) : m[j] = IF j < k THEN l[j] ELSE IF j = k THEN h ELSE l[j - 1]
  BY InsertShape
<1> HIDE DEF m, t, z
<1>5. Repeats(t) = Repeats(s)
  BY <1>1 DEF Repeats
<1>6. Cardinality(After(m, n) \cap ToSet(s.asked)) <= Cardinality(After(l, n) \cap ToSet(s.asked)) + 1
      /\ Cardinality(After(m, n) \cap ToSet(s.asked)) \in Nat
  <2> DEFINE A == After(l, n) \cap ToSet(s.asked)
             B == After(m, n) \cap ToSet(s.asked)
  <2>1. B \subseteq A \cup {e}
    BY <1>3
  <2>2. IsFiniteSet(A)
    BY <1>1, FoundIsCounted
  <2> HIDE DEF A, B
  <2>3. Cardinality(B) \in Nat /\ Cardinality(B) <= Cardinality(A) + 1
    BY <2>1, <2>2, OneMore
  <2> QED BY <2>3 DEF A, B
<1>7. /\ Cardinality((s.since \ ToSet(s.asked)) \ After(m, n))
            <= Cardinality((s.since \ ToSet(s.asked)) \ After(l, n))
      /\ Cardinality((s.since \ ToSet(s.asked)) \ After(m, n)) \in Nat
  <2>1. (s.since \ ToSet(s.asked)) \ After(m, n) \subseteq (s.since \ ToSet(s.asked)) \ After(l, n)
    BY <1>3
  <2> QED BY <1>1, <2>1, FoundIsCounted, FS_Subset, FS_CardinalityType
<1>8. ASSUME t.added <= 1, NEW i \in DOMAIN s.asked, NEW j \in DOMAIN m, j > n
      PROVE  Priority[s.asked[i]] <= Priority[m[j]]
  <2>1. s.added = 0
    BY <1>1, <1>8
  <2>2. ASSUME NEW x \in 1..z, x >= n PROVE Priority[s.asked[i]] <= Priority[l[x]]
    <3>1. x > s.index \/ (x = s.index /\ s.added = 0)
      BY <1>1, <1>4, <2>1, <2>2
    <3>2. \A y \in DOMAIN s.asked, x1 \in DOMAIN l :
             x1 > s.index \/ (x1 = s.index /\ s.added = 0) => Priority[s.asked[y]] <= Priority[l[x1]]
      BY <2>1 DEF Goes
    <3> QED BY <1>4, <3>1, <3>2
  <2>3. CASE j < k
    <3>1. j \in 1..z /\ j >= n /\ m[j] = l[j]
      BY <1>1, <1>4, <1>8, <2>3
    <3> QED BY <2>2, <3>1
  <2>4. CASE j > k
    <3>1. j - 1 \in 1..z /\ j - 1 >= n /\ m[j] = l[j - 1]
      BY <1>1, <1>4, <1>8, <2>4
    <3> QED BY <2>2, <3>1
  <2>5. CASE j = k
    <3>1. m[j] = h /\ j - 1 \in 1..z /\ j - 1 >= n /\ j - 1 < k
      BY <1>1, <1>4, <1>8, <2>5 DEF Goes
    <3>2. Priority[s.asked[i]] <= Priority[l[j - 1]] /\ Priority[l[j - 1]] <= Priority[h]
      BY <2>2, <3>1 DEF Place, z
    <3>3. Priority[s.asked[i]] \in Nat /\ Priority[l[j - 1]] \in Nat /\ Priority[h] \in Nat
      BY <1>1, <1>4, <3>1, PriorityAssumption
    <3> QED BY <3>1, <3>2, <3>3
  <2> QED BY <1>4, <2>3, <2>4, <2>5
<1>9. Repeats(t) + Cardinality(After(m, n) \cap ToSet(t.asked)) <= t.added
  <2>1. Repeats(s) + Cardinality(After(l, n) \cap ToSet(s.asked)) <= s.added
    BY DEF Goes
  <2>2. Repeats(s) \in Int /\ Cardinality(After(l, n) \cap ToSet(s.asked)) \in Nat
    BY <1>1, FoundIsCounted
  <2> QED BY <1>1, <1>5, <1>6, <2>1, <2>2
<1>10. Cardinality((t.since \ ToSet(t.asked)) \ After(m, n)) <= t.removed
  <2>1. Cardinality((s.since \ ToSet(s.asked)) \ After(l, n)) <= s.removed
    BY DEF Goes
  <2>2. Cardinality((s.since \ ToSet(s.asked)) \ After(l, n)) \in Nat
    BY <1>1, FoundIsCounted
  <2> QED BY <1>1, <1>7, <2>1, <2>2
<1>11. t.index >= 1 /\ t.since \subseteq ToSet(m)
  BY <1>1, <1>2 DEF Goes
<1>12. ASSUME t.added <= 1, NEW i \in DOMAIN t.asked, NEW j \in DOMAIN m,
              j > t.index \/ (j = t.index /\ t.added = 0)
       PROVE  Priority[t.asked[i]] <= Priority[m[j]]
  BY <1>1, <1>8, <1>12
<1> QED BY <1>1, <1>9, <1>10, <1>11, <1>12 DEF Goes, m, t

\* A handler leaves under an iteration, and others stay.
LEMMA GoesOnAfterUnregister ==
    ASSUME NEW s, s \in Dispatching, IsFiniteSet(ToSet(s.asked)), NEW l, ListOK(l), Goes(s, l),
           NEW k \in DOMAIN l, NEW t, t.index = s.index, t.since = s.since \ {l[k]},
           t.asked = s.asked, t.added = s.added, t.removed = s.removed + 1
    PROVE  Goes(t, RemoveAt(l, k))
<1> DEFINE m == RemoveAt(l, k)
           h == l[k]
           n == s.index
           z == Len(l)
<1>1. /\ t.index = s.index /\ t.since = s.since \ {h} /\ t.asked = s.asked /\ t.added = s.added
      /\ t.removed = s.removed + 1 /\ s.added \in Nat /\ n \in Nat /\ s.removed \in Nat
      /\ s.asked \in Seq(Handlers)
  BY DEF Dispatching
<1>2. ToSet(m) = ToSet(l) \ {h}
  BY RemoveKeepsList
<1>3. PICK e : After(m, n) \subseteq After(l, n) /\ After(l, n) \subseteq After(m, n) \cup {e}
  <2>1. \A i \in Nat : \E e : After(m, i) \subseteq After(l, i) /\ After(l, i) \subseteq After(m, i) \cup {e}
    BY AfterRemove
  <2>2. n \in Nat
    BY <1>1
  <2> HIDE DEF m, n
  <2> QED BY <2>1, <2>2
<1>4. /\ z \in Nat /\ DOMAIN l = 1..z /\ l \in Seq(Handlers) /\ k \in 1..z
  BY RemoveShape
<1>5. /\ DOMAIN m = 1..(z - 1)
      /\ \A j \in 1..(z - 1) : m[j] = IF j < k THEN l[j] ELSE l[j + 1]
  BY RemoveShape
<1> HIDE DEF m, z, h
<1>6. Repeats(t) = Repeats(s)
  BY <1>1 DEF Repeats
<1>7. /\ Cardinality(After(m, n) \cap ToSet(s.asked)) <= Cardinality(After(l, n) \cap ToSet(s.asked))
      /\ Cardinality(After(m, n) \cap ToSet(s.asked)) \in Nat
  <2>1. After(m, n) \cap ToSet(s.asked) \subseteq After(l, n) \cap ToSet(s.asked)
    BY <1>3
  <2> QED BY <1>1, <2>1, FoundIsCounted, FS_Subset, FS_CardinalityType
<1>8. /\ Cardinality((t.since \ ToSet(s.asked)) \ After(m, n))
            <= Cardinality((s.since \ ToSet(s.asked)) \ After(l, n)) + 1
      /\ Cardinality((t.since \ ToSet(s.asked)) \ After(m, n)) \in Nat
  <2> DEFINE A == (s.since \ ToSet(s.asked)) \ After(l, n)
             B == (t.since \ ToSet(s.asked)) \ After(m, n)
  <2>1. B \subseteq A \cup {e}
    BY <1>1, <1>3
  <2>2. IsFiniteSet(A)
    BY <1>1, FoundIsCounted
  <2> HIDE DEF A, B
  <2>3. Cardinality(B) \in Nat /\ Cardinality(B) <= Cardinality(A) + 1
    BY <2>1, <2>2, OneMore
  <2> QED BY <2>3 DEF A, B
<1>9. Repeats(t) + Cardinality(After(m, n) \cap ToSet(t.asked)) <= t.added
  <2>1. Repeats(s) + Cardinality(After(l, n) \cap ToSet(s.asked)) <= s.added
    BY DEF Goes
  <2>2. Repeats(s) \in Int /\ Cardinality(After(l, n) \cap ToSet(s.asked)) \in Nat
    BY <1>1, FoundIsCounted
  <2> QED BY <1>1, <1>6, <1>7, <2>1, <2>2
<1>10. Cardinality((t.since \ ToSet(t.asked)) \ After(m, n)) <= t.removed
  <2>1. Cardinality((s.since \ ToSet(s.asked)) \ After(l, n)) <= s.removed
    BY DEF Goes
  <2>2. Cardinality((s.since \ ToSet(s.asked)) \ After(l, n)) \in Nat
    BY <1>1, FoundIsCounted
  <2> QED BY <1>1, <1>8, <2>1, <2>2
<1>11. t.index >= 1 /\ t.since \subseteq ToSet(m)
  BY <1>1, <1>2 DEF Goes
<1>12. ASSUME t.added <= 1, NEW i \in DOMAIN t.asked, NEW j \in DOMAIN m,
              j > t.index \/ (j = t.index /\ t.added = 0)
       PROVE  Priority[t.asked[i]] <= Priority[m[j]]
  <2>1. \A x \in 1..z : x > n \/ (x = n /\ s.added = 0) => Priority[s.asked[i]] <= Priority[l[x]]
    BY <1>1, <1>4, <1>12 DEF Goes
  <2>2. j \in 1..z /\ j + 1 \in 1..z /\ j + 1 > n /\ (m[j] = l[j] \/ m[j] = l[j + 1])
    BY <1>1, <1>4, <1>5, <1>12
  <2> QED BY <1>1, <1>12, <2>1, <2>2
<1> QED BY <1>1, <1>9, <1>10, <1>11, <1>12 DEF Goes, m, h

\* The handler in front of an iteration is asked next.
LEMMA GoesOnAfterAnswer ==
    ASSUME NEW s, s \in Dispatching, IsFiniteSet(ToSet(s.asked)), NEW l, ListOK(l), Goes(s, l),
           s.added <= 1 => Sorted(s.asked),
           s.index + 1 \in DOMAIN l, NEW t, t.index = s.index + 1, t.since = s.since,
           t.asked = Append(s.asked, l[s.index + 1]), t.added = s.added, t.removed = s.removed
    PROVE  /\ Goes(t, l) /\ IsFiniteSet(ToSet(t.asked)) /\ t.asked \in Seq(Handlers)
           /\ Repeats(t) <= t.added /\ (t.added <= 1 => Sorted(t.asked))
<1> DEFINE n == s.index
           x == l[n + 1]
           z == Len(s.asked)
           A == ToSet(s.asked)
<1>1. /\ t.index = n + 1 /\ t.since = s.since /\ t.asked = Append(s.asked, x) /\ t.added = s.added
      /\ t.removed = s.removed /\ s.added \in Nat /\ n \in Nat /\ s.removed \in Nat
      /\ s.asked \in Seq(Handlers) /\ n >= 1
  BY DEF Dispatching, Goes
<1>2. /\ DOMAIN l \subseteq Nat \ {0} /\ \A i \in DOMAIN l : l[i] \in Handlers
      /\ \A i, j \in DOMAIN l : l[i] = l[j] => i = j
      /\ \A i, j \in DOMAIN l : i < j => Priority[l[i]] <= Priority[l[j]]
  BY DEF ListOK, Sorted
<1>3. n + 1 \in DOMAIN l /\ x \in Handlers
  BY <1>2
<1>4. /\ z \in Nat /\ DOMAIN s.asked = 1..z
      /\ t.asked \in Seq(Handlers) /\ Len(t.asked) = z + 1 /\ DOMAIN t.asked = 1..(z + 1)
      /\ \A i \in 1..z : t.asked[i] = s.asked[i]
      /\ t.asked[z + 1] = x
  <2>1. z \in Nat /\ DOMAIN s.asked = 1..z
    BY <1>1
  <2>2. /\ Append(s.asked, x) \in Seq(Handlers) /\ Len(Append(s.asked, x)) = z + 1
        /\ \A i \in 1..z : Append(s.asked, x)[i] = s.asked[i]
        /\ Append(s.asked, x)[z + 1] = x
    BY <1>1, <1>3, AppendProperties
  <2> HIDE DEF x
  <2> QED BY <1>1, <2>1, <2>2
<1>5. ToSet(t.asked) = A \cup {x}
  BY <1>1, <1>3, ElementsAppend
<1> HIDE DEF z, A
<1>6. After(l, n) = After(l, n + 1) \cup {x} /\ x \notin After(l, n + 1)
  <2>1. \A y : y \in After(l, n) <=> \E j \in DOMAIN l : j > n /\ y = l[j]
    BY DEF After
  <2>2. \A y : y \in After(l, n + 1) <=> \E j \in DOMAIN l : j > n + 1 /\ y = l[j]
    BY DEF After
  <2>3. \A j \in DOMAIN l : j > n <=> j > n + 1 \/ j = n + 1
    BY <1>1, <1>2
  <2>4. x \notin After(l, n + 1)
    BY <1>1, <1>2, <1>3, <2>2
  <2> QED BY <1>3, <2>1, <2>2, <2>3, <2>4
<1> HIDE DEF x
<1>7. IsFiniteSet(A) /\ Cardinality(A) \in Nat
  BY FS_CardinalityType DEF A
<1> DEFINE P == After(l, n + 1) \cap A
<1>8. IsFiniteSet(P) /\ Cardinality(P) \in Nat
  BY <1>7, FS_Subset, FS_CardinalityType
<1>9. After(l, n + 1) \cap ToSet(t.asked) = P
  BY <1>5, <1>6
<1>10. Cardinality(ToSet(t.asked)) = (IF x \in A THEN Cardinality(A) ELSE Cardinality(A) + 1)
       /\ IsFiniteSet(ToSet(t.asked))
  <2>1. Cardinality(A \cup {x}) = (IF x \in A THEN Cardinality(A) ELSE Cardinality(A) + 1)
        /\ IsFiniteSet(A \cup {x})
    BY <1>7, FS_AddElement
  <2> QED BY <1>5, <2>1
<1>11. Cardinality(After(l, n) \cap A) = IF x \in A THEN Cardinality(P) + 1 ELSE Cardinality(P)
  <2>1. CASE x \in A
    <3>1. After(l, n) \cap A = P \cup {x} /\ x \notin P
      BY <1>6, <2>1
    <3> HIDE DEF P
    <3> QED BY <1>8, <2>1, <3>1, FS_AddElement
  <2>2. CASE x \notin A
    <3>1. After(l, n) \cap A = P
      BY <1>6, <2>2
    <3> QED BY <2>2, <3>1
  <2> QED BY <2>1, <2>2
<1>12. Repeats(t) + Cardinality(After(l, n + 1) \cap ToSet(t.asked)) <= t.added
  <2>1. Repeats(s) + Cardinality(After(l, n) \cap A) <= s.added
    BY DEF Goes, A
  <2>2. Repeats(s) = z - Cardinality(A)
    BY DEF Repeats, z, A
  <2>3. Repeats(t) = z + 1 - Cardinality(ToSet(t.asked))
    <3>1. Len(t.asked) = z + 1 /\ z \in Nat
      BY <1>4
    <3>2. Cardinality(ToSet(t.asked)) \in Nat
      BY <1>10, FS_CardinalityType
    <3> QED BY <3>1, <3>2 DEF Repeats
  <2> DEFINE cA == Cardinality(A)
             cP == Cardinality(P)
             cAfter == Cardinality(After(l, n) \cap A)
             cT == Cardinality(ToSet(t.asked))
  <2>4. /\ cA \in Nat /\ cP \in Nat /\ z \in Nat /\ s.added \in Nat
        /\ z - cA + cAfter <= s.added
        /\ IF x \in A THEN cT = cA /\ cAfter = cP + 1 ELSE cT = cA + 1 /\ cAfter = cP
    BY <1>1, <1>4, <1>7, <1>8, <1>10, <1>11, <2>1, <2>2
  <2> HIDE DEF cA, cP, cAfter, cT
  <2>5. z + 1 - cT + cP <= s.added
    BY <2>4
  <2> QED BY <1>1, <1>9, <2>3, <2>5 DEF cT, cP
<1>13. Repeats(t) <= t.added
  <2> DEFINE c == Cardinality(P)
  <2>1. Repeats(t) \in Int
    <3>1. Cardinality(ToSet(t.asked)) \in Nat
      BY <1>10, FS_CardinalityType
    <3> QED BY <1>4, <3>1 DEF Repeats
  <2>2. c \in Nat /\ Repeats(t) + c <= t.added /\ t.added \in Nat
    BY <1>1, <1>8, <1>9, <1>12
  <2> HIDE DEF c
  <2> QED BY <2>1, <2>2
<1>14. Cardinality((t.since \ ToSet(t.asked)) \ After(l, n + 1)) <= t.removed
  <2>1. (t.since \ ToSet(t.asked)) \ After(l, n + 1) = (s.since \ A) \ After(l, n)
    BY <1>1, <1>5, <1>6
  <2> QED BY <1>1, <2>1 DEF Goes, A
<1>15. ASSUME t.added <= 1, NEW i \in 1..z, NEW j \in DOMAIN l, j >= n + 1
       PROVE  Priority[s.asked[i]] <= Priority[l[j]]
  <2>1. j > s.index
    BY <1>1, <1>2, <1>15
  <2> QED BY <1>1, <1>4, <1>15, <2>1 DEF Goes
<1>16. ASSUME t.added <= 1, NEW i \in DOMAIN t.asked, NEW j \in DOMAIN l, j >= n + 1
       PROVE  Priority[t.asked[i]] <= Priority[l[j]]
  <2>1. CASE i \in 1..z
    BY <1>4, <1>15, <1>16, <2>1
  <2>2. CASE i = z + 1
    <3>1. t.asked[i] = l[n + 1]
      BY <1>4, <2>2 DEF x
    <3>2. CASE j = n + 1
      <4>1. Priority[l[j]] \in Nat
        BY <1>2, PriorityAssumption
      <4> QED BY <3>1, <3>2, <4>1
    <3>3. CASE j > n + 1
      BY <1>2, <1>3, <3>1, <3>3
    <3> QED BY <1>1, <1>2, <1>16, <3>2, <3>3
  <2> QED BY <1>4, <2>1, <2>2
<1>17. ASSUME t.added <= 1 PROVE Sorted(t.asked)
  <2>1. \A i, j \in 1..z : i < j => Priority[s.asked[i]] <= Priority[s.asked[j]]
    BY <1>1, <1>4, <1>17 DEF Sorted
  <2>2. ASSUME NEW i \in 1..z PROVE Priority[s.asked[i]] <= Priority[x]
    <3>1. n + 1 >= n + 1
      BY <1>1
    <3> QED BY <1>3, <1>15, <1>17, <3>1 DEF x
  <2>3. ASSUME NEW i \in 1..(z + 1), NEW j \in 1..(z + 1), i < j
        PROVE  Priority[t.asked[i]] <= Priority[t.asked[j]]
    <3>1. i \in 1..z
      BY <1>4, <2>3
    <3>2. CASE j \in 1..z
      BY <1>4, <2>1, <2>3, <3>1, <3>2
    <3>3. CASE j = z + 1
      BY <1>4, <2>2, <3>1, <3>3
    <3> QED BY <1>4, <3>2, <3>3
  <2> QED BY <1>4, <2>3 DEF Sorted
<1>18. ASSUME t.added <= 1, NEW i \in DOMAIN t.asked, NEW j \in DOMAIN l,
              j > t.index \/ (j = t.index /\ t.added = 0)
       PROVE  Priority[t.asked[i]] <= Priority[l[j]]
  <2>1. j >= n + 1
    BY <1>1, <1>2, <1>18
  <2> QED BY <1>16, <1>18, <2>1
<1>19. Goes(t, l)
  <2>1. t.index >= 1 /\ t.since \subseteq ToSet(l)
    BY <1>1 DEF Goes
  <2> HIDE DEF P, n
  <2> QED BY <1>1, <1>12, <1>14, <1>18, <2>1 DEF Goes
<1> QED BY <1>4, <1>10, <1>13, <1>17, <1>19

-----------------------------------------------------------------------------
(* The invariant.                                                          *)

\* The registry starts empty, with no dispatch.
LEMMA NothingDispatched == Init => IInv
<1> SUFFICES ASSUME Init PROVE IInv
  OBVIOUS
<1>1. NewDispatch \in Dispatching
  BY DEF NewDispatch, Dispatching
<1>2. ToSet(<<>>) = {} /\ IsFiniteSet({}) /\ Cardinality({}) = 0
  BY FS_EmptySet DEF ToSet
<1>3. ListOK(list)
  <2>1. list = <<>> /\ <<>> \in Seq(Handlers) /\ DOMAIN <<>> = {}
    BY DEF Init
  <2> QED BY <1>2, <2>1 DEF ListOK, Sorted
<1>4. Repeats(NewDispatch) = 0
  <2>1. NewDispatch.asked = <<>> /\ Len(<<>>) = 0
    BY DEF NewDispatch
  <2>2. Len(NewDispatch.asked) = 0 /\ Cardinality(ToSet(NewDispatch.asked)) = 0
    BY <1>2, <2>1
  <2>3. Repeats(NewDispatch) = 0 - 0
    BY <2>2, RepeatsValue
  <2> QED BY <2>3
<1>5. DispatchOK(NewDispatch, list)
  BY <1>1, <1>2, <1>4 DEF DispatchOK, NewDispatch, Sorted
<1> QED BY <1>3, <1>5 DEF Init, IInv

\* What does not concern a dispatch that is not iterating, or whose array has
\* been dropped, is whatever happens to the list.
LEMMA OthersListNoMatter ==
    ASSUME NEW s, NEW l, NEW m, DispatchOK(s, l), s.pc # "asking" \/ s.dropped
    PROVE  DispatchOK(s, m)
BY DEF DispatchOK

\* Registering: one more is added, and no more than one is pushed behind an index.
LEMMA RegisterKeeps ==
    ASSUME IInv, NEW h \in Handlers, Register(h)
    PROVE  IInv'
<1>1. ListOK(list) /\ h \notin ToSet(list) /\ list' = Inserted(h)
  BY DEF IInv, Register
<1>2. PICK k \in Nat : Place(list, h, k) /\ list' = InsertAt(list, k, h)
  BY <1>1, RegisterFindsPlace
<1>3. ListOK(list')
  BY <1>1, <1>2, InsertKeepsList
<1>4. ASSUME NEW d \in Dispatches PROVE DispatchOK(dispatch'[d], list')
  <2> DEFINE s == dispatch[d]
             t == [s EXCEPT !.added = @ + 1]
  <2>1. DispatchOK(s, list)
    BY DEF IInv
  <2>2. CASE s.pc = "asking" /\ ~s.dropped
    <3>1. dispatch'[d] = t
      BY <2>2 DEF Register, Iterating
    <3>2. s \in Dispatching /\ IsFiniteSet(ToSet(s.asked)) /\ Goes(s, list) /\ Repeats(s) <= s.added
          /\ s.result = "none" /\ (s.added <= 1 => Sorted(s.asked))
      BY <2>1, <2>2 DEF DispatchOK
    <3>3. Goes(t, list')
      BY <1>1, <1>2, <3>2, GoesOnAfterRegister
    <3>4. /\ t \in Dispatching /\ t.pc = "asking" /\ ~t.dropped /\ t.asked = s.asked
          /\ t.result = "none" /\ t.added = s.added + 1 /\ s.added \in Nat
      BY <2>2, <3>2 DEF Dispatching
    <3>5. Repeats(t) = Repeats(s) /\ Repeats(s) \in Int
      BY <1>1, <3>2, <3>4, FoundIsCounted DEF Repeats
    <3> HIDE DEF s, t
    <3>6. Repeats(t) <= t.added
      BY <3>2, <3>4, <3>5
    <3> QED BY <3>1, <3>2, <3>3, <3>4, <3>6 DEF DispatchOK
  <2>3. CASE s.pc # "asking" \/ s.dropped
    <3>1. dispatch'[d] = s
      BY <2>3 DEF Register, Iterating
    <3> QED BY <2>1, <2>3, <3>1, OthersListNoMatter
  <2> QED BY <2>2, <2>3
<1>5. DOMAIN dispatch' = Dispatches
  BY DEF Register
<1> QED BY <1>3, <1>4, <1>5 DEF IInv

\* Unregistering: one more is removed, and no more than one slips past an index.
LEMMA UnregisterKeeps ==
    ASSUME IInv, NEW h \in Handlers, Unregister(h)
    PROVE  IInv'
<1>1. ListOK(list)
  BY DEF IInv
<1>2. PICK k \in DOMAIN list : list[k] = h /\ list' = RemoveAt(list, k)
  BY Zenon DEF Unregister
<1>3. ListOK(list') /\ ToSet(list') = ToSet(list) \ {h}
  BY <1>1, <1>2, RemoveKeepsList
<1>4. ASSUME NEW d \in Dispatches PROVE DispatchOK(dispatch'[d], list')
  <2> DEFINE s == dispatch[d]
             t == dispatch'[d]
  <2>1. DispatchOK(s, list)
    BY DEF IInv
  <2>2. CASE s.pc = "asking" /\ ~s.dropped
    <3>1. PICK b \in BOOLEAN : /\ t = [s EXCEPT !.removed = @ + 1, !.since = @ \ {h}, !.dropped = b]
                               /\ b => list' = <<>>
      BY <2>2, Zenon DEF Unregister, Iterating
    <3>2. s \in Dispatching /\ IsFiniteSet(ToSet(s.asked)) /\ Goes(s, list) /\ Repeats(s) <= s.added
          /\ s.result = "none" /\ (s.added <= 1 => Sorted(s.asked))
      BY <2>1, <2>2 DEF DispatchOK
    <3>3. /\ t \in Dispatching /\ t.pc = "asking" /\ t.dropped = b /\ t.asked = s.asked
          /\ t.result = "none" /\ t.added = s.added /\ t.since = s.since \ {h}
          /\ t.index = s.index /\ t.removed = s.removed + 1
      <4>1. s.removed + 1 \in Nat /\ s.since \ {h} \in SUBSET Handlers
        BY <3>2 DEF Dispatching
      <4>2. LeftOf([s EXCEPT !.removed = s.removed + 1, !.since = s.since \ {h}, !.dropped = b],
                   s, s.removed + 1, s.since \ {h}, b)
        <5> HIDE DEF s
        <5> QED BY <3>2, <4>1, FieldsAfterUnregister, Zenon
      <4>3. LeftOf(t, s, s.removed + 1, s.since \ {h}, b)
        BY <3>1, <4>2, Zenon
      <4> HIDE DEF s, t
      <4> QED BY <2>2, <3>2, <4>3 DEF LeftOf
    <3> HIDE DEF s, t
    <3>4. Goes(t, list')
      <4>1. t.since = s.since \ {list[k]}
        BY <1>2, <3>3
      <4>2. Goes(t, RemoveAt(list, k))
        BY <1>1, <1>2, <3>2, <3>3, <4>1, GoesOnAfterUnregister
      <4> QED BY <1>2, <4>2
    <3>5. Repeats(t) = Repeats(s)
      BY <3>3 DEF Repeats
    <3>6. t.dropped => t.since = {}
      <4>1. s.since \subseteq ToSet(list)
        BY <3>2 DEF Goes
      <4>2. ToSet(<<>>) = {}
        BY DEF ToSet
      <4> QED BY <1>3, <3>1, <3>3, <4>1, <4>2
    <3> QED BY <3>2, <3>3, <3>4, <3>5, <3>6 DEF DispatchOK, t
  <2>3. CASE s.pc # "asking" \/ s.dropped
    <3>1. dispatch'[d] = s
      BY <2>3, Zenon DEF Unregister, Iterating
    <3> QED BY <2>1, <2>3, <3>1, OthersListNoMatter
  <2> QED BY <2>2, <2>3
<1>5. DOMAIN dispatch' = Dispatches
  BY Zenon DEF Unregister
<1> QED BY <1>3, <1>4, <1>5 DEF IInv

\* A dispatch begins before the whole list.
LEMMA DispatchKeeps ==
    ASSUME IInv, NEW d \in Dispatches, Dispatch(d)
    PROVE  IInv'
<1>1. ListOK(list) /\ list' = list /\ DOMAIN dispatch = Dispatches
  BY DEF IInv, Dispatch
<1>2. dispatch[d] = NewDispatch
  BY DEF IInv, DispatchOK, Dispatch
<1> DEFINE s == dispatch'[d]
<1>3. ToSet(<<>>) = {} /\ IsFiniteSet({}) /\ Cardinality({}) = 0
  BY FS_EmptySet DEF ToSet
<1>4. CASE list = <<>>
  <2>1. s = [NewDispatch EXCEPT !.pc = "done", !.result = "allow"]
    BY <1>1, <1>2, <1>4 DEF Dispatch
  <2>2. /\ s \in Dispatching /\ s.pc = "done" /\ s.result = "allow" /\ s.asked = <<>>
        /\ s.since = {} /\ s.added = 0 /\ s.removed = 0
    <3>1. NewDispatch \in Dispatching
      BY DEF NewDispatch, Dispatching
    <3> HIDE DEF s
    <3> QED BY <2>1, <3>1 DEF NewDispatch, Dispatching
  <2> HIDE DEF s
  <2>3. Repeats(s) = 0 /\ Cardinality(s.since \ ToSet(s.asked)) = 0
    <3>1. Len(<<>>) = 0 /\ {} \ {} = {}
      OBVIOUS
    <3>2. Len(s.asked) = 0 /\ Cardinality(ToSet(s.asked)) = 0
      BY <1>3, <2>2, <3>1
    <3>3. Repeats(s) = 0 - 0
      BY <3>2, RepeatsValue
    <3>4. s.since \ ToSet(s.asked) = {}
      BY <2>2
    <3>5. Cardinality(s.since \ ToSet(s.asked)) = 0
      BY <1>3, <3>4
    <3> QED BY <3>3, <3>5
  <2>4. DispatchOK(s, list')
    <3>1. ToSet(s.asked) = {} /\ DOMAIN s.asked = {}
      BY <1>3, <2>2
    <3>2. Sorted(s.asked)
      BY <3>1 DEF Sorted
    <3>3. IsFiniteSet(ToSet(s.asked))
      BY <1>3, <3>1
    <3>4. Repeats(s) <= s.added /\ Cardinality(s.since \ ToSet(s.asked)) <= s.removed
      BY <2>2, <2>3
    <3>5. s \in Dispatching /\ s.pc = "done"
      BY <2>2
    <3> QED BY <3>2, <3>3, <3>4, <3>5 DEF DispatchOK
  <2> QED BY <1>1, <2>4 DEF IInv, Dispatch, s
<1>5. CASE list # <<>>
  <2> DEFINE x == list[1]
  <2>1. 1 \in DOMAIN list /\ x \in Handlers /\ list \in Seq(Handlers) /\ Len(list) \in Nat
        /\ DOMAIN list = 1..Len(list)
    BY <1>1, <1>5 DEF ListOK
  <2>2. s = [NewDispatch EXCEPT !.pc = "asking", !.index = 1, !.asked = <<x>>, !.since = ToSet(list)]
    BY <1>1, <1>2, <1>5 DEF Dispatch
  <2>3. ToSet(list) \subseteq Handlers
    BY <2>1 DEF ToSet
  <2>4. <<x>> \in Seq(Handlers) /\ Len(<<x>>) = 1 /\ DOMAIN <<x>> = {1} /\ <<x>>[1] = x
    BY <2>1
  <2>5. ToSet(<<x>>) = {x} /\ IsFiniteSet({x}) /\ Cardinality({x}) = 1
    <3>1. {<<x>>[i] : i \in {1}} = {<<x>>[1]}
      OBVIOUS
    <3>2. ToSet(<<x>>) = {x}
      BY <2>4, <3>1, Zenon DEF ToSet
    <3> QED BY <3>2, FS_Singleton
  <2>6. /\ s \in Dispatching /\ s.pc = "asking" /\ s.result = "none" /\ s.asked = <<x>>
        /\ s.since = ToSet(list) /\ s.added = 0 /\ s.removed = 0 /\ s.index = 1 /\ ~s.dropped
    <3>1. NewDispatch \in Dispatching
      BY DEF NewDispatch, Dispatching
    <3> HIDE DEF s, x
    <3> QED BY <2>2, <2>3, <2>4, <3>1 DEF NewDispatch, Dispatching
  <2> HIDE DEF s
  <2>7. Repeats(s) = 0
    <3>1. Len(s.asked) = 1 /\ Cardinality(ToSet(s.asked)) = 1
      BY <2>4, <2>5, <2>6
    <3>2. Repeats(s) = 1 - 1
      BY <3>1, RepeatsValue
    <3> QED BY <3>2
  <2>8. x \notin After(list, 1)
    BY <1>1, <2>1 DEF After, ListOK
  <2>9. Repeats(s) + Cardinality(After(list, s.index) \cap ToSet(s.asked)) <= s.added
    <3>1. After(list, s.index) \cap ToSet(s.asked) = {}
      BY <2>5, <2>6, <2>8
    <3>2. Cardinality(After(list, s.index) \cap ToSet(s.asked)) = 0
      BY <1>3, <3>1
    <3> QED BY <2>6, <2>7, <3>2
  <2>10. Cardinality((s.since \ ToSet(s.asked)) \ After(list, s.index)) <= s.removed
    <3>1. ASSUME NEW i \in 1..Len(list), list[i] # x PROVE list[i] \in After(list, 1)
      BY <2>1, <3>1 DEF After
    <3>2. ASSUME NEW y \in ToSet(list), y # x PROVE y \in After(list, 1)
      BY <2>1, <3>1, <3>2 DEF ToSet
    <3>3. (s.since \ ToSet(s.asked)) \ After(list, s.index) = {}
      <4> HIDE DEF x
      <4> QED BY <2>5, <2>6, <3>2
    <3>4. Cardinality((s.since \ ToSet(s.asked)) \ After(list, s.index)) = 0
      BY <1>3, <3>3
    <3> QED BY <2>6, <3>4
  <2>11. ASSUME NEW i \in DOMAIN s.asked, NEW j \in DOMAIN list
         PROVE  Priority[s.asked[i]] <= Priority[list[j]]
    <3>1. s.asked[i] = list[1]
      BY <2>4, <2>6
    <3>2. CASE j = 1
      <4>1. Priority[x] \in Nat
        BY <2>1, PriorityAssumption
      <4> QED BY <3>1, <3>2, <4>1
    <3>3. CASE j > 1
      BY <1>1, <2>1, <3>1, <3>3 DEF ListOK, Sorted
    <3> QED BY <2>1, <3>2, <3>3
  <2>12. Goes(s, list)
    BY <2>6, <2>9, <2>10, <2>11 DEF Goes
  <2>13. Sorted(s.asked)
    BY <2>4, <2>6 DEF Sorted
  <2>14. DispatchOK(s, list')
    BY <1>1, <2>5, <2>6, <2>7, <2>12, <2>13 DEF DispatchOK
  <2> QED BY <1>1, <2>14 DEF IInv, Dispatch, s
<1> QED BY <1>4, <1>5

\* The handler at the index answers, and the index moves by one.
LEMMA AnswerKeeps ==
    ASSUME IInv, NEW d \in Dispatches, NEW answer \in Answers, Answer(d, answer)
    PROVE  IInv'
<1> DEFINE s == dispatch[d]
           t == dispatch'[d]
           modified == s.hasModify \/ answer = "modify"
           next == s.index + 1
<1>1. ListOK(list) /\ list' = list /\ DOMAIN dispatch = Dispatches
  BY DEF IInv, Answer
<1>2. /\ s \in Dispatching /\ IsFiniteSet(ToSet(s.asked)) /\ s.pc = "asking"
      /\ s.result = "none" /\ Repeats(s) <= s.added /\ (s.added <= 1 => Sorted(s.asked))
      /\ IF s.dropped THEN s.since = {} ELSE Goes(s, list)
  BY DEF IInv, DispatchOK, Answer, Iterating
<1>3. modified \in BOOLEAN /\ s.index \in Nat /\ s.removed \in Nat
  BY <1>2 DEF Dispatching
<1>4. ASSUME answer = "block" PROVE DispatchOK(t, list')
  <2>1. t = [s EXCEPT !.pc = "done", !.result = "block"]
    BY <1>1, <1>4 DEF Answer
  <2>2. /\ t \in Dispatching /\ t.pc = "done" /\ t.result = "block" /\ t.asked = s.asked
        /\ t.added = s.added
    BY <1>2, <2>1 DEF Dispatching
  <2> HIDE DEF s, t
  <2> QED BY <1>2, <2>2 DEF DispatchOK, Repeats
<1>5. ASSUME answer # "block", next \in DOMAIN Array(d) PROVE DispatchOK(t, list')
  <2>1. /\ t = [s EXCEPT !.index = next, !.hasModify = modified, !.asked = Append(@, list[next])]
        /\ ~s.dropped /\ next \in DOMAIN list
    <3>1. ~s.dropped
      BY <1>5 DEF Array
    <3> QED BY <1>1, <1>5, <3>1 DEF Answer, Array
  <2>2. /\ t.index = s.index + 1 /\ t.since = s.since /\ t.added = s.added /\ t.removed = s.removed
        /\ t.asked = Append(s.asked, list[s.index + 1])
        /\ t.pc = "asking" /\ t.result = "none" /\ ~t.dropped /\ t \in Dispatching
    <3>1. Append(s.asked, list[next]) \in Seq(Handlers)
      BY <1>1, <1>2, <2>1 DEF Dispatching, ListOK
    <3>2. next \in Nat
      BY <1>3
    <3>3. GoneOn([s EXCEPT !.index = next, !.hasModify = modified, !.asked = Append(s.asked, list[next])],
                 s, next, Append(s.asked, list[next]))
      <4> HIDE DEF s, modified, next
      <4> QED BY <1>2, <1>3, <3>1, <3>2, FieldsAfterAnswer, Zenon
    <3>4. GoneOn(t, s, next, Append(s.asked, list[next]))
      <4> HIDE DEF modified
      <4> QED BY <2>1, <3>3, Zenon
    <3> HIDE DEF modified, s, t
    <3> QED BY <1>2, <2>1, <3>4 DEF GoneOn
  <2>3. /\ Goes(t, list) /\ IsFiniteSet(ToSet(t.asked)) /\ t.asked \in Seq(Handlers)
        /\ Repeats(t) <= t.added /\ (t.added <= 1 => Sorted(t.asked))
    <3> HIDE DEF modified
    <3>1. Goes(s, list)
      BY <1>2, <2>1
    <3> HIDE DEF s, t
    <3>2. s.index + 1 \in DOMAIN list
      BY <2>1
    <3> QED BY <1>1, <1>2, <2>2, <3>1, <3>2, GoesOnAfterAnswer
  <2> HIDE DEF s, t
  <2> QED BY <1>1, <2>2, <2>3 DEF DispatchOK
<1>6. ASSUME answer # "block", next \notin DOMAIN Array(d) PROVE DispatchOK(t, list')
  <2>1. t = [s EXCEPT !.pc = "done", !.result = Verdict(modified)]
    BY <1>1, <1>6 DEF Answer
  <2>2. /\ t \in Dispatching /\ t.pc = "done" /\ t.asked = s.asked
        /\ t.added = s.added /\ t.since = s.since /\ t.removed = s.removed
    BY <1>2, <2>1 DEF Dispatching, Verdict
  <2>3. Cardinality(s.since \ ToSet(s.asked)) <= s.removed
    <3>1. CASE s.dropped
      <4>1. s.since \ ToSet(s.asked) = {}
        BY <1>2, <3>1
      <4> QED BY <1>3, <4>1, FS_EmptySet
    <3>2. CASE ~s.dropped
      <4>1. Goes(s, list)
        BY <1>2, <3>2
      <4>2. next \notin DOMAIN list
        BY <1>6, <3>2 DEF Array
      <4>3. DOMAIN list = 1..Len(list) /\ Len(list) \in Nat
        BY <1>1 DEF ListOK
      <4>4. After(list, s.index) = {}
        BY <1>3, <4>2, <4>3 DEF After
      <4>5. (s.since \ ToSet(s.asked)) \ After(list, s.index) = s.since \ ToSet(s.asked)
        BY <4>4
      <4> QED BY <4>1, <4>5 DEF Goes
    <3> QED BY <3>1, <3>2
  <2> HIDE DEF s, t
  <2> QED BY <1>2, <2>2, <2>3 DEF DispatchOK, Repeats
<1>7. DispatchOK(t, list')
  BY <1>1, <1>4, <1>5, <1>6
<1>8. ASSUME NEW e \in Dispatches, e # d PROVE DispatchOK(dispatch'[e], list')
  <2>1. dispatch'[e] = dispatch[e]
    BY <1>1, <1>8 DEF Answer
  <2> QED BY <1>1, <2>1 DEF IInv
<1>9. DOMAIN dispatch' = Dispatches
  BY <1>1 DEF Answer
<1> QED BY <1>1, <1>7, <1>8, <1>9 DEF IInv

\* Every dispatch counts its misses and repeats (runHandlers, register, unregister).
THEOREM DispatchesCount == Spec => []IInv
<1>1. IInv /\ [Next]_vars => IInv'
  <2> SUFFICES ASSUME IInv, [Next]_vars PROVE IInv'
    OBVIOUS
  <2>1. CASE UNCHANGED vars
    BY <2>1 DEF vars, IInv
  <2> QED BY <2>1, RegisterKeeps, UnregisterKeeps, DispatchKeeps, AnswerKeeps DEF Next
<1> QED BY <1>1, NothingDispatched, PTL DEF Spec

\* OrderIsKept: a dispatch (runHandlers) keeps to the priorities while at most one
\* handler registers, for any list and any number that unregister.
THEOREM HandlersInOrder == Spec => []OrderIsKept
<1>1. IInv => OrderIsKept
  BY DEF IInv, DispatchOK, Sorted, OrderIsKept
<1> QED BY <1>1, DispatchesCount, PTL

\* MissesAreRemovals: a dispatch misses no more handlers than have unregistered
\* (findIndex and splice under the iteration), and repeats no more than have
\* registered.
THEOREM MissesCounted == Spec => []MissesAreRemovals
<1>1. IInv => MissesAreRemovals
  BY DEF IInv, DispatchOK, Repeats, MissesAreRemovals
<1> QED BY <1>1, DispatchesCount, PTL

-----------------------------------------------------------------------------
(* The dashboard.                                                          *)

\* A record that is not resumed is never again what it has been before.
Rank == [none |-> 0, queued |-> 1, running |-> 2, completed |-> 3, stopped |-> 4]

\* The statuses of records, and what a snapshot has of one.
Statuses == {"none", "queued", "running", "completed", "stopped"}
Entries == Agents \X Statuses

\* The records of a snapshot, as they are now.
Now(snapshot, st) == [i \in DOMAIN snapshot |-> <<snapshot[i][1], st[snapshot[i][1]]>>]

\* The one is a snapshot of the records of the other, taken no later, as far as
\* the records that are not free show it.
NoLater(free, old, new) ==
    /\ DOMAIN old = DOMAIN new
    /\ \A i \in DOMAIN old :
          /\ old[i][1] = new[i][1]
          /\ old[i][1] \notin free => Rank[old[i][2]] <= Rank[new[i][2]]

\* Every record that is not free is as far as it was, or further.
Further(free, before, after) ==
    \A a \in Agents : a \notin free => Rank[before[a]] <= Rank[after[a]]

\* What would be taken from the cache as it is.
Reused == Showing = "list" /\ "schedules" \notin views /\ ~dirty /\ cache # NoBody

\* The types the argument needs.
BoardTypes == status \in [Agents -> Statuses] /\ order \in Seq(Agents) /\ hash \in Seq(Entries)

\* A record that a call of resume may still change is loose.
PendingIsLoose == {a \in Agents : pending[a] > 0} \subseteq loose

\* The cached list was built after the last refresh that changed anything.
CacheFits ==
    /\ cache.cursor = cursor
    /\ cache.marks = marks \/ (marks = {} /\ loose # {})
    /\ cache.list \in Seq(Entries)
    /\ NoLater(loose, hash, cache.list) /\ NoLater(loose, cache.list, Now(hash, status))

\* The inductive invariant of the dashboard.
BoardInv ==
    /\ BoardTypes
    /\ pending \in [Agents -> Nat] /\ PendingIsLoose
    /\ NoLater(loose, hash, Now(hash, status))
    /\ Reused => CacheFits

\* Ranks tell statuses apart.
LEMMA RankIsStatus ==
    /\ \A s \in Statuses : Rank[s] \in Nat
    /\ \A s, t \in Statuses : Rank[s] = Rank[t] => s = t
BY DEF Rank, Statuses

\* A snapshot is a list of records and statuses.
LEMMA SnapshotType ==
    ASSUME NEW l \in Seq(Agents), NEW st \in [Agents -> Statuses]
    PROVE  /\ Snapshot(l, st) \in Seq(Entries)
           /\ DOMAIN Snapshot(l, st) = DOMAIN l
           /\ \A i \in DOMAIN l : Snapshot(l, st)[i] = <<l[i], st[l[i]]>>
<1>1. Len(l) \in Nat /\ DOMAIN l = 1..Len(l) /\ \A i \in 1..Len(l) : l[i] \in Agents
  OBVIOUS
<1>2. Snapshot(l, st) = [i \in 1..Len(l) |-> <<l[i], st[l[i]]>>]
  BY <1>1 DEF Snapshot
<1>3. \A i \in 1..Len(l) : <<l[i], st[l[i]]>> \in Entries
  BY <1>1 DEF Entries
<1>4. Snapshot(l, st) \in Seq(Entries)
  BY <1>1, <1>2, <1>3, IsASeq
<1> QED BY <1>1, <1>2, <1>4

\* The elements of a snapshot.
LEMMA EntryOf ==
    ASSUME NEW h \in Seq(Entries), NEW i \in DOMAIN h
    PROVE  h[i][1] \in Agents /\ h[i][2] \in Statuses /\ h[i] = <<h[i][1], h[i][2]>>
<1>1. h[i] \in Entries
  OBVIOUS
<1> QED BY <1>1 DEF Entries

\* A snapshot stays one as its records change.
LEMMA NowType ==
    ASSUME NEW h \in Seq(Entries), NEW st \in [Agents -> Statuses]
    PROVE  Now(h, st) \in Seq(Entries)
<1>1. Len(h) \in Nat /\ DOMAIN h = 1..Len(h)
  OBVIOUS
<1>2. Now(h, st) = [i \in 1..Len(h) |-> <<h[i][1], st[h[i][1]]>>]
  BY <1>1 DEF Now
<1>3. \A i \in 1..Len(h) : <<h[i][1], st[h[i][1]]>> \in Entries
  BY <1>1, EntryOf DEF Entries
<1> QED BY <1>1, <1>2, <1>3, IsASeq

\* The live records of the last refresh.
LEMMA ListedNow ==
    ASSUME BoardTypes
    PROVE  listed \in Seq(Agents) /\ Snapshot(listed, status) = Now(hash, status)
<1>1. Len(hash) \in Nat /\ DOMAIN hash = 1..Len(hash)
  BY DEF BoardTypes
<1>2. listed = [i \in 1..Len(hash) |-> hash[i][1]]
  BY <1>1 DEF listed
<1>3. \A i \in 1..Len(hash) : hash[i][1] \in Agents
  BY <1>1, EntryOf DEF BoardTypes
<1>4. listed \in Seq(Agents)
  BY <1>1, <1>2, <1>3, IsASeq
<1>5. Snapshot(listed, status) = Now(hash, status)
  BY <1>1, <1>2 DEF Snapshot, Now
<1> QED BY <1>4, <1>5

\* A snapshot just taken shows its records as they are.
LEMMA SnapshotIsNow ==
    ASSUME NEW l \in Seq(Agents), NEW st \in [Agents -> Statuses]
    PROVE  Now(Snapshot(l, st), st) = Snapshot(l, st)
<1>1. DOMAIN Snapshot(l, st) = DOMAIN l
  BY SnapshotType
<1>2. \A i \in DOMAIN l : Snapshot(l, st)[i][1] = l[i]
  BY SnapshotType
<1> QED BY <1>1, <1>2 DEF Now, Snapshot

\* A snapshot is no later than itself.
LEMMA NoLaterReflexive ==
    ASSUME NEW free, NEW h \in Seq(Entries)
    PROVE  NoLater(free, h, h)
<1>1. \A i \in DOMAIN h : Rank[h[i][2]] \in Nat
  BY EntryOf, RankIsStatus
<1>2. \A i \in DOMAIN h : Rank[h[i][2]] <= Rank[h[i][2]]
  BY <1>1
<1> QED BY <1>2 DEF NoLater

\* It can be followed along snapshots.
LEMMA NoLaterTransitive ==
    ASSUME NEW free, NEW f \in Seq(Entries), NEW g \in Seq(Entries), NEW h \in Seq(Entries),
           NoLater(free, f, g), NoLater(free, g, h)
    PROVE  NoLater(free, f, h)
<1>1. DOMAIN f = DOMAIN g /\ DOMAIN g = DOMAIN h
  BY DEF NoLater
<1>2. ASSUME NEW i \in DOMAIN f
      PROVE  f[i][1] = h[i][1] /\ (f[i][1] \notin free => Rank[f[i][2]] <= Rank[h[i][2]])
  <2>1. f[i][1] = g[i][1] /\ g[i][1] = h[i][1]
    BY <1>1 DEF NoLater
  <2>2. Rank[f[i][2]] \in Nat /\ Rank[g[i][2]] \in Nat /\ Rank[h[i][2]] \in Nat
    BY <1>1, EntryOf, RankIsStatus
  <2>3. \A x, y, z \in Nat : x <= y /\ y <= z => x <= z
    OBVIOUS
  <2>4. ASSUME f[i][1] \notin free
        PROVE  Rank[f[i][2]] <= Rank[h[i][2]]
    <3>1. Rank[f[i][2]] <= Rank[g[i][2]] /\ Rank[g[i][2]] <= Rank[h[i][2]]
      BY <1>1, <2>1, <2>4 DEF NoLater
    <3> QED BY <3>1, <2>2, <2>3, Zenon
  <2> QED BY <2>1, <2>4
<1> QED BY <1>1, <1>2 DEF NoLater

\* It holds of fewer records when more are free.
LEMMA NoLaterOfFewer ==
    ASSUME NEW free, NEW more, free \subseteq more, NEW g, NEW h, NoLater(free, g, h)
    PROVE  NoLater(more, g, h)
BY DEF NoLater

\* Two snapshots that are no later than each other show the same of the records
\* that are not loose.
LEMMA NoLaterAgrees ==
    ASSUME NEW g \in Seq(Entries), NEW h \in Seq(Entries),
           NoLater(loose, g, h), NoLater(loose, h, g)
    PROVE  Agrees(g, h)
<1>1. DOMAIN g = DOMAIN h
  BY DEF NoLater
<1>2. ASSUME NEW i \in DOMAIN h
      PROVE  g[i] = h[i] \/ (g[i][1] = h[i][1] /\ h[i][1] \in loose)
  <2>1. g[i][1] = h[i][1]
    BY <1>1 DEF NoLater
  <2>2. Rank[g[i][2]] \in Nat /\ Rank[h[i][2]] \in Nat
    BY <1>1, EntryOf, RankIsStatus
  <2>3. ASSUME h[i][1] \notin loose
        PROVE  g[i] = h[i]
    <3>1. Rank[g[i][2]] <= Rank[h[i][2]] /\ Rank[h[i][2]] <= Rank[g[i][2]]
      BY <1>1, <2>1, <2>3 DEF NoLater
    <3>2. Rank[g[i][2]] = Rank[h[i][2]]
      BY <3>1, <2>2
    <3>3. g[i][2] = h[i][2]
      BY <1>1, <3>2, EntryOf, RankIsStatus
    <3> QED BY <1>1, <2>1, <3>3, EntryOf
  <2> QED BY <2>1, <2>3
<1> QED BY <1>1, <1>2 DEF Agrees

\* As records get further, a list of them gets no earlier.
LEMMA FurtherIsLater ==
    ASSUME NEW h \in Seq(Entries), NEW before \in [Agents -> Statuses],
           NEW after \in [Agents -> Statuses], NEW free, Further(free, before, after)
    PROVE  NoLater(free, Now(h, before), Now(h, after))
<1>1. DOMAIN Now(h, before) = DOMAIN h /\ DOMAIN Now(h, after) = DOMAIN h
  BY DEF Now
<1>2. ASSUME NEW i \in DOMAIN h
      PROVE  /\ Now(h, before)[i][1] = Now(h, after)[i][1]
             /\ Now(h, before)[i][1] \notin free =>
                   Rank[Now(h, before)[i][2]] <= Rank[Now(h, after)[i][2]]
  <2>1. /\ Now(h, before)[i] = <<h[i][1], before[h[i][1]]>>
        /\ Now(h, after)[i] = <<h[i][1], after[h[i][1]]>>
    BY DEF Now
  <2>2. h[i][1] \notin free => Rank[before[h[i][1]]] <= Rank[after[h[i][1]]]
    BY EntryOf DEF Further
  <2> QED BY <2>1, <2>2
<1> QED BY <1>1, <1>2 DEF NoLater

-----------------------------------------------------------------------------
(* What a step does to the invariant.                                      *)

\* A list without a record is a list.
LEMMA WithoutType ==
    ASSUME BoardTypes, NEW a
    PROVE  Without(a) \in Seq(Agents)
<1>1. CASE a \in ToSet(order)
  <2> DEFINE k == CHOOSE i \in DOMAIN order : order[i] = a
  <2>1. \E i \in DOMAIN order : order[i] = a
    BY <1>1 DEF ToSet
  <2>2. k \in DOMAIN order
    BY <2>1
  <2>3. order \in Seq(Agents) /\ k \in 1..Len(order)
    BY <2>2 DEF BoardTypes
  <2>4. RemoveAt(order, k) \in Seq(Agents)
    BY <2>3, RemoveAtProperties
  <2>5. Without(a) = RemoveAt(order, k)
    BY <1>1 DEF Without
  <2> QED BY <2>4, <2>5
<1>2. CASE a \notin ToSet(order)
  BY <1>2 DEF Without, BoardTypes
<1> QED BY <1>1, <1>2

\* Putting a record first leaves a list.
LEMMA FirstType ==
    ASSUME BoardTypes, NEW a \in Agents
    PROVE  First(a) \in Seq(Agents)
<1>1. Without(a) \in Seq(Agents) /\ <<a>> \in Seq(Agents)
  BY WithoutType
<1>2. <<a>> \o Without(a) \in Seq(Agents)
  BY <1>1, ConcatProperties
<1> QED BY <1>2 DEF First

\* Records that change while the snapshot stays: none goes back that is not loose.
LEMMA RecordsMove ==
    ASSUME BoardInv, order' \in Seq(Agents), status' \in [Agents -> Statuses],
           loose \subseteq loose', Further(loose', status, status'),
           pending' \in [Agents -> Nat], PendingIsLoose',
           UNCHANGED <<hash, cursor, views, scheduling, cache>>, dirty => dirty',
           marks' = marks \/ (marks' = {} /\ loose' # {})
    PROVE  BoardInv'
<1>2. BoardTypes /\ BoardTypes'
  BY DEF BoardInv, BoardTypes
<1>3. NoLater(loose', Now(hash, status), Now(hash, status'))
  BY <1>2, FurtherIsLater DEF BoardTypes
<1>4. Now(hash, status) \in Seq(Entries) /\ Now(hash, status') \in Seq(Entries)
  BY <1>2, NowType DEF BoardTypes
<1>5. NoLater(loose', hash, Now(hash, status'))
  <2>1. NoLater(loose', hash, Now(hash, status))
    BY NoLaterOfFewer DEF BoardInv
  <2> QED BY <1>2, <1>3, <1>4, <2>1, NoLaterTransitive DEF BoardTypes
<1>6. ASSUME Reused'
      PROVE  CacheFits'
  <2>1. Reused
    BY <1>6 DEF Reused, Showing, listed, NoBody
  <2>2. CacheFits
    BY <2>1 DEF BoardInv
  <2>3. NoLater(loose', hash, cache.list) /\ NoLater(loose', cache.list, Now(hash, status))
    BY <2>2, NoLaterOfFewer DEF CacheFits
  <2>4. NoLater(loose', cache.list, Now(hash, status'))
    BY <1>3, <1>4, <2>2, <2>3, NoLaterTransitive DEF CacheFits
  <2>5. cache.marks = marks' \/ (marks' = {} /\ loose' # {})
    BY <2>2 DEF CacheFits
  <2> QED BY <2>2, <2>3, <2>4, <2>5 DEF CacheFits
<1>7. NoLater(loose', hash', Now(hash', status'))
  BY <1>5
<1>8. Reused' => CacheFits'
  BY <1>6
<1> QED BY <1>2, <1>7, <1>8 DEF BoardInv

\* Steps that change neither records nor snapshot, and mark the frame dirty.
LEMMA Repainted ==
    ASSUME BoardInv, UNCHANGED <<status, order, pending, loose, hash>>, dirty'
    PROVE  BoardInv'
<1>1. BoardTypes' /\ pending' \in [Agents -> Nat] /\ PendingIsLoose'
  BY DEF BoardInv, BoardTypes, PendingIsLoose
<1>2. NoLater(loose', hash', Now(hash', status'))
  BY DEF BoardInv
<1>3. ~Reused'
  BY DEF Reused
<1> QED BY <1>1, <1>2, <1>3 DEF BoardInv

\* Steps that keep what the list is made of, and what is shown instead of it.
LEMMA Kept ==
    ASSUME BoardInv,
           UNCHANGED <<status, order, pending, loose, hash, cursor, marks, cache>>,
           Reused' => Reused
    PROVE  BoardInv'
<1>1. BoardTypes' /\ pending' \in [Agents -> Nat] /\ PendingIsLoose'
  BY DEF BoardInv, BoardTypes, PendingIsLoose
<1>2. NoLater(loose', hash', Now(hash', status'))
  BY DEF BoardInv
<1>3. Reused' => CacheFits'
  BY DEF BoardInv, CacheFits
<1> QED BY <1>1, <1>2, <1>3 DEF BoardInv

\* A refresh that finds something changed marks the frame dirty.
LEMMA Refreshed ==
    ASSUME BoardInv, order' \in Seq(Agents), status' \in [Agents -> Statuses],
           pending' = pending, loose' = {a \in Agents : pending[a] > 0},
           hash' = Snapshot(order', status'), dirty'
    PROVE  BoardInv'
<1>1. hash' \in Seq(Entries)
  BY SnapshotType
<1>2. Now(hash', status') = hash'
  BY SnapshotIsNow
<1>3. NoLater(loose', hash', Now(hash', status'))
  BY <1>1, <1>2, NoLaterReflexive
<1>4. ~Reused'
  BY DEF Reused
<1>5. BoardTypes' /\ pending' \in [Agents -> Nat] /\ PendingIsLoose'
  BY <1>1 DEF BoardInv, BoardTypes, PendingIsLoose
<1> QED BY <1>3, <1>4, <1>5 DEF BoardInv

\* The timer and the r key.
LEMMA RefreshesKeep ==
    ASSUME BoardInv, RefreshesList(status, marks),
           dirty \/ Snapshot(order, status) # hash => dirty',
           UNCHANGED <<status, order, pending, views, scheduling, cache>>
    PROVE  BoardInv'
<1>1. hash' = Snapshot(order, status)
  BY DEF RefreshesList
<1>2. BoardTypes
  BY DEF BoardInv
<1>3. CASE Snapshot(order, status) = hash
  <2>1. UNCHANGED <<hash, cursor, marks, loose>>
    BY <1>1, <1>3 DEF RefreshesList
  <2>2. dirty => dirty'
    OBVIOUS
  <2>3. Reused' => Reused
    BY <2>1, <2>2 DEF Reused, Showing, listed, NoBody
  <2> QED BY <2>1, <2>3, Kept
<1>4. CASE Snapshot(order, status) # hash
  <2>1. dirty' /\ loose' = {a \in Agents : pending[a] > 0}
    BY <1>4 DEF RefreshesList
  <2>2. order' \in Seq(Agents) /\ status' \in [Agents -> Statuses]
    BY <1>2 DEF BoardTypes
  <2>3. hash' = Snapshot(order', status')
    BY <1>1
  <2> QED BY <2>1, <2>2, <2>3, Refreshed
<1> QED BY <1>3, <1>4

-----------------------------------------------------------------------------
(* Every step keeps it.                                                    *)

\* What the steps of the manager leave alone.
LEMMA OnlyRecordsMove ==
    ASSUME BoardInv, OnlyRecords, order' \in Seq(Agents), status' \in [Agents -> Statuses],
           loose \subseteq loose', Further(loose', status, status'),
           pending' \in [Agents -> Nat], PendingIsLoose'
    PROVE  BoardInv'
<1>1. /\ UNCHANGED <<hash, cursor, views, scheduling, cache>> /\ marks' = marks
      /\ dirty => dirty'
  BY DEF OnlyRecords
<1> QED BY <1>1, RecordsMove

\* A record changes its status: not back, unless it is loose.
LEMMA OneMoves ==
    ASSUME BoardTypes, NEW a \in Agents, NEW new \in Statuses, NEW free,
           status' = [status EXCEPT ![a] = new],
           a \in free \/ Rank[status[a]] <= Rank[new]
    PROVE  status' \in [Agents -> Statuses] /\ Further(free, status, status')
<1>1. status' \in [Agents -> Statuses]
  BY DEF BoardTypes
<1>2. ASSUME NEW b \in Agents, b \notin free
      PROVE  Rank[status[b]] <= Rank[status'[b]]
  <2>1. CASE b = a
    BY <1>2, <2>1 DEF BoardTypes
  <2>2. CASE b # a
    <3>1. status'[b] = status[b] /\ status[b] \in Statuses
      BY <2>2 DEF BoardTypes
    <3>2. Rank[status[b]] \in Nat
      BY <3>1, RankIsStatus
    <3> QED BY <3>1, <3>2
  <2> QED BY <2>1, <2>2
<1> QED BY <1>1, <1>2 DEF Further

\* Steps of the manager that leave the statuses alone.
LEMMA SameStatus ==
    ASSUME BoardTypes, status' = status, NEW free
    PROVE  status' \in [Agents -> Statuses] /\ Further(free, status, status')
<1>1. \A b \in Agents : Rank[status[b]] \in Nat
  BY RankIsStatus DEF BoardTypes
<1> QED BY <1>1 DEF Further, BoardTypes

\* Starts: what is queued was not there, what runs was not there or queued.
LEMMA StartsKeeps ==
    ASSUME BoardInv, NEW a \in Agents, Starts(a)
    PROVE  BoardInv'
<1>1. BoardTypes /\ OnlyRecords /\ UNCHANGED <<pending, loose>>
  BY DEF BoardInv, Starts
<1>2. order' \in Seq(Agents)
  BY <1>1, FirstType DEF Starts
<1>3. status' \in [Agents -> Statuses] /\ Further(loose, status, status')
  <2>1. CASE status[a] = "none" /\ status' = [status EXCEPT ![a] = "queued"]
    <3>1. "queued" \in Statuses /\ Rank[status[a]] <= Rank["queued"]
      BY <2>1 DEF Statuses, Rank
    <3> QED BY <1>1, <2>1, <3>1, OneMoves
  <2>2. CASE status[a] \in {"none", "queued"} /\ status' = [status EXCEPT ![a] = "running"]
    <3>1. "running" \in Statuses /\ Rank[status[a]] <= Rank["running"]
      BY <2>2 DEF Statuses, Rank
    <3> QED BY <1>1, <2>2, <3>1, OneMoves
  <2> QED BY <2>1, <2>2, Zenon DEF Starts
<1>4. pending' \in [Agents -> Nat] /\ PendingIsLoose' /\ loose \subseteq loose'
  BY <1>1 DEF BoardInv, PendingIsLoose
<1> QED BY <1>1, <1>2, <1>3, <1>4, OnlyRecordsMove

\* Ends: a record that is not stopped becomes completed.
LEMMA EndsKeeps ==
    ASSUME BoardInv, NEW a \in Agents, Ends(a)
    PROVE  BoardInv'
<1> DEFINE new == IF status[a] = "stopped" THEN status[a] ELSE "completed"
<1>1. BoardTypes /\ OnlyRecords /\ UNCHANGED <<order, pending, loose>>
  BY DEF BoardInv, Ends
<1>2. status' = [status EXCEPT ![a] = new]
  BY DEF Ends
<1>3. status[a] \in Statuses
  BY <1>1 DEF BoardTypes
<1>4. new \in Statuses /\ Rank[status[a]] <= Rank[new]
  BY <1>3 DEF Statuses, Rank
<1> HIDE DEF new
<1>5. status' \in [Agents -> Statuses] /\ Further(loose, status, status')
  BY <1>1, <1>2, <1>4, OneMoves
<1>6. pending' \in [Agents -> Nat] /\ PendingIsLoose' /\ loose \subseteq loose'
  BY <1>1 DEF BoardInv, PendingIsLoose
<1>7. order' \in Seq(Agents)
  BY <1>1 DEF BoardTypes
<1> QED BY <1>1, <1>5, <1>6, <1>7, OnlyRecordsMove

\* Stops: a live record goes on to the last status.
LEMMA StopsKeeps ==
    ASSUME BoardInv, NEW a \in Agents, Stops(a)
    PROVE  BoardInv'
<1>1. BoardTypes /\ OnlyRecords /\ UNCHANGED <<order, pending, loose>>
  BY DEF BoardInv, Stops
<1>2. status' = [status EXCEPT ![a] = "stopped"] /\ status[a] \in {"queued", "running"}
  BY DEF Stops, Live
<1>3. "stopped" \in Statuses /\ Rank[status[a]] <= Rank["stopped"]
  BY <1>2 DEF Statuses, Rank
<1>4. status' \in [Agents -> Statuses] /\ Further(loose, status, status')
  BY <1>1, <1>2, <1>3, OneMoves
<1>5. pending' \in [Agents -> Nat] /\ PendingIsLoose' /\ loose \subseteq loose'
  BY <1>1 DEF BoardInv, PendingIsLoose
<1>6. order' \in Seq(Agents)
  BY <1>1 DEF BoardTypes
<1> QED BY <1>1, <1>4, <1>5, <1>6, OnlyRecordsMove

\* Resumes: the record is loose from now on.
LEMMA ResumesKeeps ==
    ASSUME BoardInv, NEW a \in Agents, Resumes(a)
    PROVE  BoardInv'
<1>1. /\ BoardTypes /\ OnlyRecords /\ pending \in [Agents -> Nat] /\ PendingIsLoose
      /\ loose' = loose \cup {a} /\ pending' = [pending EXCEPT ![a] = @ + 1]
      /\ status' = [status EXCEPT ![a] = "running"]
  BY DEF BoardInv, Resumes
<1>2. order' \in Seq(Agents)
  BY <1>1, FirstType DEF Resumes
<1>3. "running" \in Statuses
  BY DEF Statuses
<1>4. status' \in [Agents -> Statuses] /\ Further(loose', status, status')
  BY <1>1, <1>3, OneMoves
<1>5. pending' \in [Agents -> Nat] /\ PendingIsLoose'
  BY <1>1 DEF PendingIsLoose
<1> QED BY <1>1, <1>2, <1>4, <1>5, OnlyRecordsMove

\* ResumeEnds: the record has been loose since, for the call was not answered.
LEMMA ResumeEndsKeeps ==
    ASSUME BoardInv, NEW a \in Agents, ResumeEnds(a)
    PROVE  BoardInv'
<1>1. /\ BoardTypes /\ OnlyRecords /\ pending \in [Agents -> Nat] /\ PendingIsLoose
      /\ order' = order /\ loose' = loose /\ pending[a] > 0
      /\ pending' = [pending EXCEPT ![a] = @ - 1]
      /\ status' = [status EXCEPT ![a] = "completed"]
  BY DEF BoardInv, ResumeEnds
<1>2. a \in loose /\ "completed" \in Statuses
  BY <1>1 DEF PendingIsLoose, Statuses
<1>3. status' \in [Agents -> Statuses] /\ Further(loose', status, status')
  BY <1>1, <1>2, OneMoves
<1>4. pending' \in [Agents -> Nat] /\ PendingIsLoose'
  BY <1>1 DEF PendingIsLoose
<1>5. order' \in Seq(Agents) /\ loose \subseteq loose'
  BY <1>1 DEF BoardTypes
<1> QED BY <1>1, <1>3, <1>4, <1>5, OnlyRecordsMove

\* Removed: the list gets shorter, the snapshot keeps the record.
LEMMA RemovedKeeps ==
    ASSUME BoardInv, NEW a \in Agents, Removed(a)
    PROVE  BoardInv'
<1>1. /\ BoardTypes /\ order' = Without(a) /\ status' = status /\ OnlyRecords
      /\ UNCHANGED <<pending, loose>>
  BY DEF BoardInv, Removed
<1>2. order' \in Seq(Agents)
  BY <1>1, WithoutType
<1>3. pending' \in [Agents -> Nat] /\ PendingIsLoose' /\ loose \subseteq loose'
  BY <1>1 DEF BoardInv, PendingIsLoose
<1>4. status' \in [Agents -> Statuses] /\ Further(loose', status, status')
  BY <1>1, SameStatus
<1> QED BY <1>1, <1>2, <1>3, <1>4, OnlyRecordsMove

\* The schedules give way to the list, which is not taken from the cache then.
LEMMA SchedulerStopsKeeps ==
    ASSUME BoardInv, SchedulerStops
    PROVE  BoardInv'
<1>1. /\ UNCHANGED <<status, order, pending, loose, hash, cursor, marks, cache>>
      /\ UNCHANGED <<views, dirty>>
  BY DEF SchedulerStops, records, selection
<1>2. Reused' => Reused
  BY <1>1 DEF Reused, Showing, listed, NoBody
<1> QED BY <1>1, <1>2, Kept

\* The refresh timer.
LEMMA RefreshTickKeeps ==
    ASSUME BoardInv, RefreshTick
    PROVE  BoardInv'
<1>1. /\ UNCHANGED <<status, order, pending, views, scheduling, cache>>
      /\ RefreshesList(status, marks) /\ dirty' = (dirty \/ Snapshot(order, status) # hash)
  BY DEF RefreshTick, Refreshes, records
<1>2. dirty \/ Snapshot(order, status) # hash => dirty'
  BY <1>1, Zenon
<1> QED BY <1>1, <1>2, RefreshesKeep

\* The r key.
LEMMA RefreshKeyKeeps ==
    ASSUME BoardInv, RefreshKey
    PROVE  BoardInv'
<1>1. /\ UNCHANGED <<status, order, pending, views, scheduling, cache>>
      /\ RefreshesList(status, marks) /\ dirty'
  BY DEF RefreshKey, records
<1> QED BY <1>1, RefreshesKeep

\* A frame uses up the dirty flag: it rebuilds the lines, could reuse them, or
\* shows something else.
LEMMA RenderKeeps ==
    ASSUME BoardInv, Render
    PROVE  BoardInv'
<1>1. /\ UNCHANGED <<status, order, pending, loose, hash, cursor, marks, views, scheduling>>
  BY DEF Render, records, selection
<1>2. BoardTypes
  BY DEF BoardInv
<1>3. Showing' = Showing
  BY <1>1 DEF Showing, listed
<1>4. CASE cache' = [list |-> Snapshot(listed, status), cursor |-> cursor, marks |-> marks]
  <2>1. cache'.cursor = cursor /\ cache'.marks = marks /\ cache'.list = Now(hash, status)
    BY <1>2, <1>4, ListedNow
  <2>2. Now(hash, status) \in Seq(Entries)
    BY <1>2, NowType DEF BoardTypes
  <2>3. /\ NoLater(loose, hash, Now(hash, status))
        /\ NoLater(loose, Now(hash, status), Now(hash, status))
    BY <2>2, NoLaterReflexive DEF BoardInv
  <2>4. CacheFits'
    BY <1>1, <2>1, <2>2, <2>3 DEF CacheFits
  <2>5. BoardTypes' /\ NoLater(loose', hash', Now(hash', status'))
    BY <1>1, <1>2 DEF BoardTypes, BoardInv
  <2>6. pending' \in [Agents -> Nat] /\ PendingIsLoose'
    BY <1>1 DEF BoardInv, PendingIsLoose
  <2> QED BY <2>4, <2>5, <2>6 DEF BoardInv
<1>5. CASE ~(Showing = "list" /\ MustRebuild) /\ UNCHANGED cache
  <2>1. Reused' => Reused
    BY <1>1, <1>3, <1>5 DEF Reused, MustRebuild, NoBody
  <2> QED BY <1>1, <1>5, <2>1, Kept
<1> QED BY <1>4, <1>5 DEF Render

\* What all keys that change the views do.
LEMMA ShowsKeeps ==
    ASSUME BoardInv, NEW flags, Shows(flags)
    PROVE  BoardInv'
<1>1. UNCHANGED <<status, order, pending, loose, hash>> /\ dirty'
  BY DEF Shows, records, selection
<1> QED BY <1>1, Repainted

\* K stops the live ones of the marked agents, or the one under the cursor.  A
\* refresh that finds nothing changed has seen one of them stopped before.
LEMMA KillKeeps ==
    ASSUME BoardInv, Kill
    PROVE  BoardInv'
<1> DEFINE targets == IF marks # {} THEN marks ELSE UnderCursor
           hit == {a \in targets : a \in ToSet(order) /\ status[a] \in Live}
           after == [a \in Agents |-> IF a \in hit THEN "stopped" ELSE status[a]]
<1>1. /\ hit # {} /\ status' = after /\ RefreshesList(after, {})
      /\ dirty' = (dirty \/ Snapshot(order, after) # hash)
      /\ UNCHANGED <<order, pending, views, scheduling, cache>>
  BY DEF Kill, Refreshes
<1>2. BoardTypes /\ pending \in [Agents -> Nat] /\ PendingIsLoose
  BY DEF BoardInv
<1>3. \A a \in hit : a \in ToSet(order) /\ status[a] \in {"queued", "running"}
  BY DEF Live
<1>4. \A a \in Agents : after[a] = IF a \in hit THEN "stopped" ELSE status[a]
  OBVIOUS
<1>5. after \in [Agents -> Statuses]
  BY <1>2 DEF BoardTypes, Statuses
<1> HIDE DEF hit, after
<1>6. Further(loose, status, after)
  <2>1. ASSUME NEW b \in Agents
        PROVE  Rank[status[b]] <= Rank[after[b]]
    <3>1. status[b] \in Statuses /\ after[b] \in {"stopped", status[b]}
      BY <1>2, <1>4 DEF BoardTypes
    <3>2. Rank[status[b]] \in 0..4 /\ Rank["stopped"] = 4
      BY <3>1 DEF Rank, Statuses
    <3> QED BY <3>1, <3>2
  <2> QED BY <2>1 DEF Further
<1>7. CASE Snapshot(order, after) = hash
  <2>1. UNCHANGED <<hash, cursor, loose>> /\ marks' = {}
    BY <1>1, <1>7 DEF RefreshesList
  <2>2. dirty => dirty'
    BY <1>1, Zenon
  <2>3. loose # {}
    <3>1. PICK a \in hit : TRUE
      BY <1>1
    <3>2. a \in ToSet(order) /\ status[a] \in {"queued", "running"}
      BY <1>3, <3>1
    <3>3. PICK i \in DOMAIN order : order[i] = a
      BY <3>2 DEF ToSet
    <3>4. a \in Agents
      BY <1>2, <3>3 DEF BoardTypes
    <3>5. i \in DOMAIN hash /\ hash[i] = <<a, "stopped">>
      BY <1>2, <1>4, <1>5, <1>7, <3>1, <3>3, <3>4, SnapshotType DEF BoardTypes
    <3>6. Now(hash, status)[i] = <<a, status[a]>>
      BY <3>5 DEF Now
    <3>7. a \notin loose => Rank["stopped"] <= Rank[status[a]]
      BY <3>5, <3>6 DEF BoardInv, NoLater
    <3>8. Rank["stopped"] = 4 /\ Rank[status[a]] \in {1, 2}
      BY <3>2 DEF Rank
    <3> QED BY <3>7, <3>8
  <2>4. order' \in Seq(Agents) /\ pending' \in [Agents -> Nat] /\ PendingIsLoose'
    BY <1>1, <1>2, <2>1 DEF BoardTypes, PendingIsLoose
  <2> QED BY <1>1, <1>5, <1>6, <2>1, <2>2, <2>3, <2>4, RecordsMove
<1>8. CASE Snapshot(order, after) # hash
  <2>1. loose' = {a \in Agents : pending[a] > 0} /\ hash' = Snapshot(order', status')
    BY <1>1, <1>8 DEF RefreshesList
  <2>2. dirty'
    BY <1>1, <1>8
  <2>3. order' \in Seq(Agents) /\ status' \in [Agents -> Statuses] /\ pending' = pending
    BY <1>1, <1>2, <1>5 DEF BoardTypes
  <2> QED BY <2>1, <2>2, <2>3, Refreshed
<1> QED BY <1>7, <1>8

\* A key of the user.
LEMMA InputKeeps ==
    ASSUME BoardInv, Input
    PROVE  BoardInv'
<1>1. CASE \E flags : Shows(flags)
  BY <1>1, ShowsKeeps
<1>2. CASE Types \/ Slash \/ Submit \/ Swallowed
  BY <1>1, <1>2 DEF Types, Slash, Submit, Swallowed
<1>3. CASE Back \/ LeaveTop \/ OnOverlay \/ SortKey
  BY <1>1, <1>3 DEF Back, LeaveTop, OnOverlay, SortKey
<1>4. CASE Help \/ Top \/ Tree \/ Schedules
  BY <1>1, <1>4 DEF Help, Top, Tree, Schedules
<1>5. CASE Quit
  <2>1. UNCHANGED <<status, order, pending, loose, hash, cursor, marks, cache, views, scheduling, dirty>>
    BY <1>5 DEF Quit, Close, records, selection
  <2>2. Reused' => Reused
    BY <2>1 DEF Reused, Showing, listed, NoBody
  <2> QED BY <2>1, <2>2, Kept
<1>6. CASE Move
  <2>1. UNCHANGED <<status, order, pending, loose, hash>> /\ dirty'
    BY <1>6 DEF Move, records
  <2> QED BY <2>1, Repainted
<1>7. CASE ToggleSelect
  <2>1. UNCHANGED <<status, order, pending, loose, hash>> /\ dirty'
    BY <1>7 DEF ToggleSelect, records
  <2> QED BY <2>1, Repainted
<1>8. CASE OtherKey
  <2>1. /\ UNCHANGED <<status, order, pending, loose, hash, cursor, marks, cache>>
        /\ UNCHANGED <<scheduling, dirty>> /\ views' = views \ {"command"}
    BY <1>8 DEF OtherKey, records, selection
  <2>2. \A v \in {"tree", "schedules", "help", "perf", "top"} : v \in views' <=> v \in views
    BY <2>1
  <2>3. Reused' => Reused
    BY <2>1, <2>2 DEF Reused, Showing, listed, NoBody
  <2> QED BY <2>1, <2>3, Kept
<1> QED
  BY <1>2, <1>3, <1>4, <1>5, <1>6, <1>7, <1>8, KillKeeps, RefreshKeyKeeps DEF Input

\* Steps without the user.
LEMMA BackgroundKeeps ==
    ASSUME BoardInv, Background
    PROVE  BoardInv'
<1>1. CASE \E a \in Agents :
             Starts(a) \/ Ends(a) \/ Stops(a) \/ Resumes(a) \/ ResumeEnds(a) \/ Removed(a)
  BY <1>1, StartsKeeps, EndsKeeps, StopsKeeps, ResumesKeeps, ResumeEndsKeeps, RemovedKeeps
<1>2. CASE CoalesceFires
  <2>1. UNCHANGED <<status, order, pending, loose, hash, cursor, marks, cache, views, scheduling, dirty>>
    BY <1>2 DEF CoalesceFires, OnlyRequests, records, selection
  <2>2. Reused' => Reused
    BY <2>1 DEF Reused, Showing, listed, NoBody
  <2> QED BY <2>1, <2>2, Kept
<1> QED
  BY <1>1, <1>2, SchedulerStopsKeeps, RefreshTickKeeps, RenderKeeps DEF Background

\* Steps of nobody.
LEMMA BoardStutters ==
    ASSUME BoardInv, UNCHANGED boardVars
    PROVE  BoardInv'
<1>1. UNCHANGED <<status, order, pending, loose, hash, cursor, marks, cache, views, scheduling, dirty>>
  BY DEF boardVars, records, selection
<1>2. Reused' => Reused
  BY <1>1 DEF Reused, Showing, listed, NoBody
<1> QED BY <1>1, <1>2, Kept

\* The constructor takes the first snapshot, and nothing is drawn yet.
LEMMA BoardStarts ==
    ASSUME BoardInit
    PROVE  BoardInv
<1>1. status \in [Agents -> Statuses] /\ order \in Seq(Agents) /\ hash = Snapshot(order, status)
  BY AgentsAssumption DEF BoardInit, Statuses
<1>2. hash \in Seq(Entries) /\ Now(hash, status) = hash
  BY <1>1, SnapshotType, SnapshotIsNow
<1>3. NoLater(loose, hash, Now(hash, status))
  BY <1>2, NoLaterReflexive
<1>4. ~Reused
  BY DEF BoardInit, Reused
<1>5. pending \in [Agents -> Nat] /\ PendingIsLoose
  BY DEF BoardInit, PendingIsLoose
<1> QED BY <1>1, <1>2, <1>3, <1>4, <1>5 DEF BoardInv, BoardTypes

\* The cache lies between the last refresh and now: when they are the same, it
\* is that too, but for what is loose.
LEMMA BoardInvImplies ==
    ASSUME BoardInv
    PROVE  CacheIsCurrent
<1>1. CASE ~Reused
  BY <1>1 DEF Reused, CacheIsCurrent, MustRebuild
<1>2. CASE Reused
  <2>1. CacheFits /\ BoardTypes
    BY <1>2 DEF BoardInv
  <2>2. ASSUME hash = Snapshot(listed, status)
        PROVE  Agrees(cache.list, hash)
    <3>1. Now(hash, status) = hash
      BY <2>1, <2>2, ListedNow
    <3>2. NoLater(loose, hash, cache.list) /\ NoLater(loose, cache.list, hash)
      BY <2>1, <3>1 DEF CacheFits
    <3>3. hash \in Seq(Entries) /\ cache.list \in Seq(Entries)
      BY <2>1 DEF BoardTypes, CacheFits
    <3> QED BY <3>2, <3>3, NoLaterAgrees
  <2> QED BY <2>1, <2>2 DEF CacheFits, CacheIsCurrent
<1> QED BY <1>1, <1>2

\* CacheIsCurrent: a list drawn from cachedBodyLines shows what the last refresh
\* found (render, refreshAgents, handleInput), whatever views have been opened
\* and left since, but for the status of records resumed since the last change
\* it found; for any agents, keys and resumes.
THEOREM CacheStaysCurrent == BoardSpec => []CacheIsCurrent
<1>1. BoardInit => BoardInv
  BY BoardStarts
<1>2. BoardInv /\ [BoardNext]_boardVars => BoardInv'
  BY InputKeeps, BackgroundKeeps, BoardStutters DEF BoardNext
<1>3. BoardInv => CacheIsCurrent
  BY BoardInvImplies
<1> QED BY <1>1, <1>2, <1>3, PTL DEF BoardSpec
=============================================================================
