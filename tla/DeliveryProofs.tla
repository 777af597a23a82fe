---------------------------- MODULE DeliveryProofs ----------------------------
(***************************************************************************)
(* Proofs about Delivery, for every finite set of agents, all join modes,  *)
(* numbers of batches and waiters and every rate limit.                    *)
(*                                                                         *)
(* The first part is about the desk alone: what each function that posts,  *)
(* routes or finalises keeps (DeskOK), where it leaves the results it was  *)
(* given (Covered), and that it never puts one of them in two places       *)
(* (Nowhere, Once).  The second part is the inductive invariant.           *)
(***************************************************************************)
EXTENDS Delivery, FiniteSetTheorems, WellFoundedInduction, TLAPS

\* Types of the desk; keys are unique and say what a message carries, and what
\* a swarm has sent it has recorded.
DeskTypes(d) ==
    /\ d \in Desks
    /\ \A m, n \in d.pending : m.key = n.key => m = n
    /\ \A m \in d.pending, a \in Agents : m.key = <<"agent", a>> => m.recs = {a}
    /\ \A b \in Batches : d.swarms[b].sent \subseteq d.swarms[b].done

\* Swarms and their messages are about agents of S only.
SwarmsOf(d, S) ==
    /\ \A b \in Batches : d.swarms[b].tracked \cup d.swarms[b].agents \cup d.swarms[b].done \subseteq S
    /\ \A b \in Batches, m \in d.pending : m.key = <<"swarm", b>> => m.recs \subseteq S

\* HeldHasTimer for one group, one swarm, a desk.
GroupTimed(g) == g.open /\ g.done # {} => g.timer /\ g.members \ g.done # {}
SwarmTimed(s) == s.open /\ s.done \ s.sent # {} => s.timer /\ s.agents \ s.done # {}
Timed(d) == \A b \in Batches : GroupTimed(d.groups[b]) /\ SwarmTimed(d.swarms[b])

\* Groups and swarms of batches above n do not exist yet.
Unused(d, n) == \A b \in Batches : b > n => d.groups[b] = NoGroup /\ d.swarms[b] = NoSwarm

DeskOK(d, S, n) == DeskTypes(d) /\ SwarmsOf(d, S) /\ Timed(d) /\ Unused(d, n)

\* The results on the desk: waiting to be sent, or given up in one of the two
\* ways that NothingForgotten excepts.
Covered(d) ==
    {a \in Agents :
        \/ \E m \in d.pending : a \in m.recs
        \/ \E b \in Batches : a \in d.groups[b].done
                           \/ a \in d.swarms[b].done \ d.swarms[b].sent
        \/ a \in d.refused \cup d.overtaken}

\* No message and no group has the result of x.
Nowhere(d, x) ==
    /\ \A m \in d.pending : x \notin m.recs
    /\ \A b \in Batches : x \notin d.groups[b].done

\* At most one message or group has it.
Once(d, x) ==
    /\ \A m, n \in d.pending : x \in m.recs /\ x \in n.recs => m = n
    /\ \A b, c \in Batches : x \in d.groups[b].done /\ x \in d.groups[c].done => b = c
    /\ \A m \in d.pending, b \in Batches : ~ (x \in m.recs /\ x \in d.groups[b].done)

\* From d to e nothing changes for the worse about x, who was not handled.
Keeps(d, e, x) == (Nowhere(d, x) => Nowhere(e, x)) /\ (Once(d, x) => Once(e, x))

\* The way from d to e took the results of A in: nothing is lost, and whom no
\* swarm is about has one place more if it is in A, and none if not.
TakesIn(d, e, A, S, n) ==
    /\ DeskOK(e, S, n)
    /\ Covered(d) \cup A \subseteq Covered(e)
    /\ \A x \in Agents \ S : /\ x \notin A => Keeps(d, e, x)
                             /\ Nowhere(d, x) => Once(e, x)

-----------------------------------------------------------------------------
(* Lemmas about the desk.                                                  *)

LEMMA KeepsIsTransitive ==
    ASSUME NEW d, NEW e, NEW f, NEW x, Keeps(d, e, x), Keeps(e, f, x)
    PROVE  Keeps(d, f, x)
BY DEF Keeps

LEMMA NowhereIsOnce ==
    ASSUME NEW d, NEW x, Nowhere(d, x)
    PROVE  Once(d, x)
BY DEF Nowhere, Once

\* What a key stands for limits what may be posted under it.
Fits(key, R, S) ==
    /\ key \in Keys /\ R \subseteq Agents
    /\ \A a \in Agents : key = <<"agent", a>> => R = {a}
    /\ \A b \in Batches : key = <<"swarm", b>> => R \subseteq S

\* Posting leaves groups and swarms alone and loses no result.
LEMMA PostIsOK ==
    ASSUME NEW S, NEW n, NEW d, DeskOK(d, S, n), NEW key, NEW R, Fits(key, R, S)
    PROVE  /\ DeskOK(Post(d, key, R), S, n)
           /\ Covered(d) \cup R \subseteq Covered(Post(d, key, R))
           /\ Post(d, key, R).groups = d.groups /\ Post(d, key, R).swarms = d.swarms
<1> DEFINE msg == [key |-> key, recs |-> R]
           p == Post(d, key, R)
<1>1. d \in Desks
  BY DEF DeskOK, DeskTypes
<1>2. Held(d, key) \subseteq d.pending /\ \A m \in Held(d, key) : m.key = key
  BY DEF Held
<1>3. msg \in [key : Keys, recs : SUBSET Agents] /\ msg.key = key /\ msg.recs = R
  BY DEF Fits
<1>4. /\ p.pending = (d.pending \ Held(d, key)) \cup {msg}
      /\ p.groups = d.groups /\ p.swarms = d.swarms /\ p.refused = d.refused
      /\ p.overtaken = d.overtaken \cup ((UNION {m.recs : m \in Held(d, key)}) \ R)
      /\ p \in Desks
  <2> DEFINE P == (d.pending \ Held(d, key)) \cup {msg}
             O == d.overtaken \cup ((UNION {m.recs : m \in Held(d, key)}) \ R)
  <2>1. P \subseteq [key : Keys, recs : SUBSET Agents]
    BY <1>1, <1>3 DEF Desks
  <2>2. UNION {m.recs : m \in Held(d, key)} \subseteq Agents
    BY <1>1, <1>2 DEF Desks
  <2>3. O \subseteq Agents
    BY <1>1, <2>2 DEF Desks
  <2>4. p = [d EXCEPT !.pending = P, !.overtaken = O]
    BY Zenon DEF Post
  <2> HIDE DEF P, O, msg, p
  <2>5. /\ p.pending = P /\ p.overtaken = O /\ p \in Desks
        /\ p.groups = d.groups /\ p.swarms = d.swarms /\ p.refused = d.refused
    BY <1>1, <2>1, <2>3, <2>4 DEF Desks
  <2> QED BY <2>5 DEF P, O
<1>7. \A m \in p.pending : m = msg \/ (m \in d.pending /\ m.key # key)
  BY <1>4 DEF Held
<1> HIDE DEF msg, p
<1>8. DeskTypes(p)
  BY <1>3, <1>4, <1>7 DEF DeskOK, DeskTypes, Fits
<1>9. SwarmsOf(p, S) /\ Timed(p) /\ Unused(p, n)
  BY <1>3, <1>4, <1>7 DEF DeskOK, SwarmsOf, Timed, Unused, Fits
<1>10. Covered(d) \cup R \subseteq Covered(p)
  <2>1. R \subseteq Covered(p)
    BY <1>3, <1>4 DEF Covered, Fits
  <2>2. ASSUME NEW a \in Covered(d) PROVE a \in Covered(p) \cup R
    <3>1. CASE \E m \in d.pending : a \in m.recs
      BY <1>4, <3>1 DEF Covered
    <3>2. CASE ~ \E m \in d.pending : a \in m.recs
      BY <1>4, <3>2 DEF Covered
    <3> QED BY <3>1, <3>2
  <2> QED BY <2>1, <2>2
<1> QED BY <1>4, <1>8, <1>9, <1>10 DEF p, DeskOK

\* Posting puts what is posted in one place more.
LEMMA PostPlaces ==
    ASSUME NEW d \in Desks, NEW key, NEW R, NEW x
    PROVE  /\ x \notin R => Keeps(d, Post(d, key, R), x)
           /\ Nowhere(d, x) => Once(Post(d, key, R), x)
<1> DEFINE msg == [key |-> key, recs |-> R]
           p == Post(d, key, R)
<1>1. p.groups = d.groups /\ \A m \in p.pending : m = msg \/ m \in d.pending
  BY DEF Post, Desks, Held
<1>2. msg.recs = R
  OBVIOUS
<1> HIDE DEF msg, p
<1>3. x \notin R => Keeps(d, p, x)
  BY <1>1, <1>2 DEF Keeps, Nowhere, Once
<1>4. Nowhere(d, x) => Once(p, x)
  BY <1>1, <1>2 DEF Nowhere, Once
<1> QED BY <1>3, <1>4 DEF p

\* Posting takes in what it posts.
LEMMA PostTakesIn ==
    ASSUME NEW S, NEW n, NEW d, DeskOK(d, S, n), NEW key, NEW R, Fits(key, R, S)
    PROVE  TakesIn(d, Post(d, key, R), R, S, n)
BY PostIsOK, PostPlaces DEF TakesIn, DeskOK, DeskTypes

\* Two ways, one after the other, that take different agents in.
LEMMA TakesInBoth ==
    ASSUME NEW S, NEW n, NEW d, NEW e, NEW f, NEW A, NEW B, TakesIn(d, e, A, S, n),
           TakesIn(e, f, B, S, n), A \cap B \subseteq S
    PROVE  TakesIn(d, f, A \cup B, S, n)
<1>1. Covered(d) \cup (A \cup B) \subseteq Covered(f)
  BY DEF TakesIn
<1>2. ASSUME NEW x \in Agents \ S
      PROVE  (x \notin A \cup B => Keeps(d, f, x)) /\ (Nowhere(d, x) => Once(f, x))
  <2>1. CASE x \notin A
    BY <2>1 DEF TakesIn, Keeps
  <2>2. CASE x \in A
    <3>1. x \notin B
      BY <2>2
    <3> QED BY <2>2, <3>1 DEF TakesIn, Keeps
  <2> QED BY <2>1, <2>2
<1> QED BY <1>1, <1>2 DEF TakesIn

\* One group or one swarm of a desk replaced.
SetGroup(d, b, g) == [d EXCEPT !.groups[b] = g]
SetSwarm(d, b, s) == [d EXCEPT !.swarms[b] = s]

\* What holds of desk e, that is d with g as group b.
GroupMoved(d, e, b, g, S, n) ==
    /\ DeskOK(e, S, n) /\ e.swarms = d.swarms
    /\ Covered(d) \subseteq Covered(e) \cup d.groups[b].done
    /\ g.done \subseteq Covered(e)
    /\ \A x : /\ x \notin g.done => Keeps(d, e, x)
              /\ x \notin g.done /\ x \in d.groups[b].done /\ Once(d, x) => Nowhere(e, x)
              /\ Nowhere(d, x) => Once(e, x)
              /\ x \in d.groups[b].done /\ Once(d, x) => Once(e, x)

LEMMA GroupChange ==
    ASSUME NEW S, NEW n \in Nat, NEW d, DeskOK(d, S, n), NEW b \in Batches, b <= n,
           NEW g \in GroupState(Agents), GroupTimed(g), NEW e, e = SetGroup(d, b, g)
    PROVE  GroupMoved(d, e, b, g, S, n)
<1>1. d \in Desks
  BY DEF DeskOK, DeskTypes
<1>2. /\ e \in Desks /\ e.swarms = d.swarms /\ e.pending = d.pending
      /\ e.refused = d.refused /\ e.overtaken = d.overtaken
      /\ e.groups[b] = g /\ \A c \in Batches : c # b => e.groups[c] = d.groups[c]
  BY <1>1 DEF Desks, SetGroup, SetSwarm
<1>3. DeskOK(e, S, n)
  <2>1. DeskTypes(e) /\ SwarmsOf(e, S)
    BY <1>2 DEF DeskOK, DeskTypes, SwarmsOf
  <2>2. Timed(e)
    BY <1>2 DEF DeskOK, Timed
  <2>3. Unused(e, n)
    BY <1>2 DEF DeskOK, Unused, Batches
  <2> QED BY <2>1, <2>2, <2>3 DEF DeskOK
<1>4. Covered(d) \subseteq Covered(e) \cup d.groups[b].done
  BY <1>2 DEF Covered
<1>5. g.done \subseteq Covered(e)
  BY <1>2 DEF Covered, GroupState
<1>6. ASSUME NEW x
      PROVE  /\ x \notin g.done => Keeps(d, e, x)
             /\ x \notin g.done /\ x \in d.groups[b].done /\ Once(d, x) => Nowhere(e, x)
             /\ Nowhere(d, x) => Once(e, x)
             /\ x \in d.groups[b].done /\ Once(d, x) => Once(e, x)
  BY <1>2 DEF Keeps, Nowhere, Once
<1> QED BY <1>2, <1>3, <1>4, <1>5, <1>6 DEF GroupMoved

\* What holds of desk e, that is d with s as swarm b: no place of an agent changes.
SwarmMoved(d, e, b, s, S, n) ==
    /\ DeskOK(e, S, n) /\ e.groups = d.groups
    /\ Covered(d) \subseteq Covered(e) \cup (d.swarms[b].done \ d.swarms[b].sent)
    /\ s.done \ s.sent \subseteq Covered(e)
    /\ \A x : Keeps(d, e, x)

LEMMA SwarmChange ==
    ASSUME NEW S, NEW n \in Nat, NEW d, DeskOK(d, S, n), NEW b \in Batches, b <= n,
           NEW s \in SwarmState(Agents), SwarmTimed(s), s.sent \subseteq s.done,
           s.tracked \cup s.agents \cup s.done \subseteq S, NEW e, e = SetSwarm(d, b, s)
    PROVE  SwarmMoved(d, e, b, s, S, n)
<1>1. d \in Desks
  BY DEF DeskOK, DeskTypes
<1>2. /\ e \in Desks /\ e.groups = d.groups /\ e.pending = d.pending
      /\ e.refused = d.refused /\ e.overtaken = d.overtaken
      /\ e.swarms[b] = s /\ \A c \in Batches : c # b => e.swarms[c] = d.swarms[c]
  BY <1>1 DEF Desks, SetGroup, SetSwarm
<1>3. DeskOK(e, S, n)
  <2>1. DeskTypes(e) /\ SwarmsOf(e, S)
    BY <1>2 DEF DeskOK, DeskTypes, SwarmsOf
  <2>2. Timed(e)
    BY <1>2 DEF DeskOK, Timed
  <2>3. Unused(e, n)
    BY <1>2 DEF DeskOK, Unused, Batches
  <2> QED BY <2>1, <2>2, <2>3 DEF DeskOK
<1>4. Covered(d) \subseteq Covered(e) \cup (d.swarms[b].done \ d.swarms[b].sent)
  BY <1>2 DEF Covered
<1>5. s.done \ s.sent \subseteq Covered(e)
  BY <1>2 DEF Covered, SwarmState
<1>6. ASSUME NEW x PROVE Keeps(d, e, x)
  BY <1>2 DEF Keeps, Nowhere, Once
<1> QED BY <1>2, <1>3, <1>4, <1>5, <1>6 DEF SwarmMoved

\* A group that is told of A: it delivers or holds, and loses nobody.
LEMMA GroupHandlesIsOK ==
    ASSUME NEW S, NEW n \in Nat, NEW d, DeskOK(d, S, n), NEW b \in Batches, b <= n,
           NEW A \in SUBSET Agents
    PROVE  /\ TakesIn(d, GroupHandles(d, b, A), A, S, n)
           /\ GroupHandles(d, b, A).swarms = d.swarms
<1> DEFINE g == d.groups[b]
           R == g.done \cup A
<1>1. d \in Desks /\ g \in GroupState(Agents)
  BY DEF DeskOK, DeskTypes, Desks
<1>2. R \in SUBSET Agents
  BY <1>1 DEF GroupState
<1>3. CASE GroupFull(g, A)
  <2> DEFINE h == NoGroup
             e == SetGroup(d, b, h)
             p == Post(e, <<"group", R>>, R)
  <2>1. GroupHandles(d, b, A) = p
    BY <1>3, Zenon DEF GroupHandles, SetGroup
  <2>2. h \in GroupState(Agents) /\ GroupTimed(h) /\ h.done = {}
    BY DEF NoGroup, GroupState, GroupTimed
  <2> HIDE DEF R
  <2>3. Fits(<<"group", R>>, R, S)
    BY <1>2 DEF Fits, Keys
  <2> HIDE DEF h, e
  <2>4. /\ DeskOK(e, S, n) /\ e.swarms = d.swarms
        /\ Covered(d) \subseteq Covered(e) \cup g.done
        /\ \A x : /\ x \notin h.done => Keeps(d, e, x)
                  /\ x \notin h.done /\ x \in g.done /\ Once(d, x) => Nowhere(e, x)
    <3>1. e = SetGroup(d, b, h)
      BY DEF e
    <3>2. DeskOK(d, S, n) /\ n \in Nat /\ b \in Batches /\ b <= n
      OBVIOUS
    <3>3. GroupMoved(d, e, b, h, S, n)
      BY ONLY <2>2, <3>1, <3>2, GroupChange
    <3> QED BY <3>3 DEF GroupMoved, g
  <2>5. TakesIn(e, p, R, S, n) /\ p.swarms = e.swarms
    BY <2>3, <2>4, PostTakesIn, PostIsOK
  <2> HIDE DEF p
  <2>6. DeskOK(p, S, n) /\ Covered(d) \cup A \subseteq Covered(p)
    BY <2>4, <2>5 DEF TakesIn, R
  <2>7. ASSUME NEW x \in Agents \ S
        PROVE  (x \notin A => Keeps(d, p, x)) /\ (Nowhere(d, x) => Once(p, x))
    <3>1. Nowhere(d, x) => x \notin g.done
      BY DEF Nowhere
    <3>2. CASE x \in g.done
      BY <3>1, <3>2, <2>2, <2>4, <2>5 DEF TakesIn, Keeps
    <3>3. CASE x \notin g.done
      BY <3>3, <2>2, <2>4, <2>5 DEF TakesIn, Keeps, R
    <3> QED BY <3>2, <3>3
  <2> QED BY <2>1, <2>4, <2>5, <2>6, <2>7 DEF TakesIn
<1>4. CASE ~ GroupFull(g, A)
  <2> DEFINE h == GroupHolds(g, A)
             e == SetGroup(d, b, h)
  <2>1. GroupHandles(d, b, A) = e
    BY <1>4, Zenon DEF GroupHandles, SetGroup
  <2>2. h \in GroupState(Agents) /\ h.done = R /\ h.timer /\ h.members = g.members
    BY <1>1 DEF GroupHolds, GroupState
  <2>3. g.members \ R # {}
    <3>1. g.members \in SUBSET Agents /\ IsFiniteSet(g.members) /\ IsFiniteSet(R)
      BY <1>1, <1>2, AgentsAssumption, FS_Subset DEF GroupState
    <3>2. g.members \subseteq R => Cardinality(g.members) <= Cardinality(R)
      BY <3>1, FS_Subset
    <3>3. Cardinality(g.members) \in Nat /\ Cardinality(R) \in Nat
      BY <3>1, FS_CardinalityType
    <3> HIDE DEF R, g
    <3> QED BY <1>4, <3>2, <3>3 DEF GroupFull, R
  <2>4. GroupTimed(h)
    BY <2>2, <2>3 DEF GroupTimed
  <2> HIDE DEF h, e
  <2>5. /\ DeskOK(e, S, n) /\ e.swarms = d.swarms
        /\ Covered(d) \subseteq Covered(e) \cup g.done
        /\ h.done \subseteq Covered(e)
        /\ \A x : /\ x \notin h.done => Keeps(d, e, x)
                  /\ Nowhere(d, x) => Once(e, x)
                  /\ x \in g.done /\ Once(d, x) => Once(e, x)
    <3>1. e = SetGroup(d, b, h)
      BY DEF e
    <3>2. DeskOK(d, S, n) /\ n \in Nat /\ b \in Batches /\ b <= n
      OBVIOUS
    <3>3. GroupMoved(d, e, b, h, S, n)
      BY ONLY <2>2, <2>4, <3>1, <3>2, GroupChange
    <3> QED BY <3>3 DEF GroupMoved, g
  <2>6. Covered(d) \cup A \subseteq Covered(e)
    BY <2>2, <2>5
  <2>7. ASSUME NEW x \in Agents \ S
        PROVE  (x \notin A => Keeps(d, e, x)) /\ (Nowhere(d, x) => Once(e, x))
    <3>1. Nowhere(d, x) => x \notin g.done
      BY DEF Nowhere
    <3> QED BY <2>2, <2>5, <3>1 DEF Keeps
  <2> QED BY <2>1, <2>5, <2>6, <2>7 DEF TakesIn
<1> QED BY <1>3, <1>4

\* A delivery of R: the swarm has recorded R and sent it.
LEMMA DeliverBatchIs ==
    ASSUME NEW s \in SwarmState(Agents), NEW R \in SUBSET Agents, NEW u,
           u = DeliverBatch(s, R, TRUE) \/ u = DeliverBatch(s, R, FALSE)
    PROVE  /\ u \in SwarmState(Agents) /\ u.done = R /\ u.sent = s.sent \cup R
           /\ u.tracked = s.tracked /\ u.agents = s.agents
<1> DEFINE T == s.sent \cup R
           r == s.recent + 1
<1>1. T \in SUBSET Agents /\ r \in Nat
  BY DEF SwarmState
<1>2. PICK f \in BOOLEAN :
        u = [s EXCEPT !.done = R, !.sent = T, !.recent = r, !.timer = FALSE, !.delivered = f]
  <2>1. ASSUME NEW partly \in BOOLEAN, u = DeliverBatch(s, R, partly)
        PROVE  \E f \in BOOLEAN :
                 u = [s EXCEPT !.done = R, !.sent = T, !.recent = r, !.timer = FALSE, !.delivered = f]
    <3> DEFINE f == s.delivered \/ ~ partly
    <3>1. f \in BOOLEAN
      OBVIOUS
    <3>2. u = [s EXCEPT !.done = R, !.sent = T, !.recent = r, !.timer = FALSE, !.delivered = f]
      BY <2>1, Zenon DEF DeliverBatch
    <3> QED BY <3>1, <3>2, Zenon
  <2> QED BY <2>1, Zenon
<1> HIDE DEF T, r
<1>3. /\ u \in SwarmState(Agents) /\ u.done = R /\ u.sent = T
      /\ u.tracked = s.tracked /\ u.agents = s.agents
  BY <1>1, <1>2 DEF SwarmState
<1> QED BY <1>3 DEF T

\* A swarm after the completion of a: it holds a, and a timer runs for what it
\* has not delivered.
LEMMA SwarmAfterIs ==
    ASSUME NEW s \in SwarmState(Agents), s.sent \subseteq s.done, NEW a \in Agents, SwarmTakes(s, a),
           NEW t, t = SwarmAfter(s, a, RateLimit)
    PROVE  /\ t \in SwarmState(Agents) /\ t.done = s.done \cup {a} /\ t.sent \subseteq t.done
           /\ t.tracked = s.tracked /\ t.agents = s.agents /\ SwarmTimed(t)
           /\ IF SwarmDelivers(s, a, RateLimit) THEN t.sent = t.done ELSE t.sent = s.sent
<1>1. s.recent \in Nat /\ s.done \in SUBSET Agents /\ s.agents \in SUBSET Agents
  BY DEF SwarmState
<1>2. ~ SwarmFull(s, a) => s.agents \ (s.done \cup {a}) # {}
  <2> DEFINE R == s.done \cup {a}
  <2>1. IsFiniteSet(s.agents) /\ IsFiniteSet(R)
    BY <1>1, AgentsAssumption, FS_Subset
  <2>2. s.agents \subseteq R => Cardinality(s.agents) <= Cardinality(R)
    BY <2>1, FS_Subset
  <2>3. Cardinality(s.agents) \in Nat /\ Cardinality(R) \in Nat
    BY <2>1, FS_CardinalityType
  <2> QED BY <2>2, <2>3 DEF SwarmFull
<1> DEFINE R == s.done \cup {a}
<1>9. R \in SUBSET Agents
  BY <1>1
<1>6. t = IF SwarmFull(s, a) THEN DeliverBatch(s, R, FALSE)
          ELSE IF SwarmDelivers(s, a, RateLimit) THEN [DeliverBatch(s, R, TRUE) EXCEPT !.timer = TRUE]
          ELSE [s EXCEPT !.done = R, !.timer = TRUE]
  BY <1>1, Zenon DEF SwarmAfter
<1>7. ~ SwarmFull(s, a) => s.agents \ R # {}
  BY <1>2
<1>8. s.sent \subseteq R /\ R = s.done \cup {a}
  OBVIOUS
<1> HIDE DEF R
<1>3. CASE SwarmFull(s, a)
  <2> DEFINE u == DeliverBatch(s, R, FALSE)
  <2>1. t = u
    BY <1>3, <1>6
  <2>2. /\ u \in SwarmState(Agents) /\ u.done = R /\ u.sent = s.sent \cup R
        /\ u.tracked = s.tracked /\ u.agents = s.agents
    BY <1>9, DeliverBatchIs
  <2> HIDE DEF u
  <2>3. SwarmDelivers(s, a, RateLimit)
    BY <1>3 DEF SwarmDelivers
  <2> QED BY <1>8, <2>1, <2>2, <2>3 DEF SwarmTimed
<1>4. CASE ~ SwarmFull(s, a) /\ SwarmDelivers(s, a, RateLimit)
  <2> DEFINE u == DeliverBatch(s, R, TRUE)
  <2>1. t = [u EXCEPT !.timer = TRUE]
    BY <1>4, <1>6
  <2>2. /\ u \in SwarmState(Agents) /\ u.done = R /\ u.sent = s.sent \cup R
        /\ u.tracked = s.tracked /\ u.agents = s.agents
    BY <1>9, DeliverBatchIs
  <2> HIDE DEF u
  <2>3. /\ t \in SwarmState(Agents) /\ t.done = R /\ t.sent = s.sent \cup R
        /\ t.tracked = s.tracked /\ t.agents = s.agents
    BY <1>9, <2>1, <2>2 DEF SwarmState
  <2> QED BY <1>4, <1>7, <1>8, <2>3 DEF SwarmTimed
<1>5. CASE ~ SwarmFull(s, a) /\ ~ SwarmDelivers(s, a, RateLimit)
  <2>1. t = [s EXCEPT !.done = R, !.timer = TRUE]
    BY <1>5, <1>6
  <2>2. /\ t \in SwarmState(Agents) /\ t.done = R /\ t.sent = s.sent /\ t.timer
        /\ t.tracked = s.tracked /\ t.agents = s.agents
    BY <1>9, <2>1 DEF SwarmState
  <2> QED BY <1>5, <1>7, <1>8, <2>2 DEF SwarmTimed
<1> QED BY <1>3, <1>4, <1>5

\* A swarm that takes the completion of a: it delivers or holds, and loses nobody.
LEMMA SwarmHandlesIsOK ==
    ASSUME NEW S, NEW n \in Nat, NEW d, DeskOK(d, S, n), NEW b \in Batches, b <= n,
           NEW a \in Agents, SwarmTakes(d.swarms[b], a)
    PROVE  /\ TakesIn(d, SwarmHandles(d, b, a), {a}, S, n) /\ a \in S
           /\ SwarmHandles(d, b, a).groups = d.groups
<1> DEFINE s == d.swarms[b]
           t == SwarmAfter(s, a, RateLimit)
           e == SetSwarm(d, b, t)
           R == s.done \cup {a}
           p == Post(e, <<"swarm", b>>, R)
<1>1. /\ d \in Desks /\ s \in SwarmState(Agents) /\ s.sent \subseteq s.done
      /\ s.tracked \cup s.agents \cup s.done \subseteq S
  BY DEF DeskOK, DeskTypes, Desks, SwarmsOf
<1>2. a \in S /\ a \notin s.done /\ R \subseteq S /\ R \in SUBSET Agents
  BY <1>1 DEF SwarmTakes, SwarmState
<1>3. SwarmHandles(d, b, a) = IF SwarmDelivers(s, a, RateLimit) THEN p ELSE e
  BY Zenon DEF SwarmHandles, SetSwarm
<1> HIDE DEF s, t, e, R, p
<1>4. /\ t \in SwarmState(Agents) /\ t.done = R /\ t.sent \subseteq t.done
      /\ t.tracked = s.tracked /\ t.agents = s.agents /\ SwarmTimed(t)
      /\ IF SwarmDelivers(s, a, RateLimit) THEN t.sent = t.done ELSE t.sent = s.sent
  BY <1>1, SwarmAfterIs DEF s, t, R
<1>5. t.tracked \cup t.agents \cup t.done \subseteq S
  BY <1>1, <1>2, <1>4
<1>6. /\ DeskOK(e, S, n) /\ e.groups = d.groups
      /\ Covered(d) \subseteq Covered(e) \cup (s.done \ s.sent)
      /\ t.done \ t.sent \subseteq Covered(e)
      /\ \A x : Keeps(d, e, x)
  <2>1. t \in SwarmState(Agents) /\ SwarmTimed(t) /\ t.sent \subseteq t.done
    BY <1>4
  <2>2. e = SetSwarm(d, b, t)
    BY DEF e
  <2>3. DeskOK(d, S, n) /\ n \in Nat /\ b \in Batches /\ b <= n
    OBVIOUS
  <2>4. SwarmMoved(d, e, b, t, S, n)
    BY ONLY <1>5, <2>1, <2>2, <2>3, SwarmChange
  <2> QED BY <2>4 DEF SwarmMoved, s
<1>7. CASE SwarmDelivers(s, a, RateLimit)
  <2>1. Fits(<<"swarm", b>>, R, S)
    BY <1>2 DEF Fits, Keys
  <2>2. TakesIn(e, p, R, S, n) /\ p.groups = e.groups
    BY <1>6, <2>1, PostTakesIn, PostIsOK DEF p
  <2>3. Covered(d) \cup {a} \subseteq Covered(p)
    BY <1>6, <2>2 DEF TakesIn, R
  <2>4. \A x \in Agents \ S : Keeps(d, p, x) /\ (Nowhere(d, x) => Once(p, x))
    BY <1>2, <1>6, <2>2 DEF TakesIn, Keeps
  <2> QED BY <1>2, <1>3, <1>6, <1>7, <2>2, <2>3, <2>4 DEF TakesIn, s
<1>8. CASE ~ SwarmDelivers(s, a, RateLimit)
  <2>1. s.sent \subseteq s.done /\ a \notin s.sent
    BY <1>1, <1>2
  <2>2. Covered(d) \cup {a} \subseteq Covered(e)
    BY <1>4, <1>6, <1>8, <2>1 DEF R
  <2>3. \A x \in Agents \ S : Keeps(d, e, x) /\ (Nowhere(d, x) => Once(e, x))
    BY <1>6, NowhereIsOnce DEF Keeps
  <2> QED BY <1>2, <1>3, <1>6, <1>8, <2>2, <2>3 DEF TakesIn, s
<1> QED BY <1>7, <1>8

\* The end of onComplete takes its agent in, whoever handles it.
LEMMA RouteIsOK ==
    ASSUME NEW S, NEW n \in Nat, NEW d, DeskOK(d, S, n), NEW a \in Agents
    PROVE  TakesIn(d, Route(d, a), {a}, S, n)
<1> DEFINE inGroup == {b \in Batches : GroupTakes(d.groups[b], a)}
           inSwarm == {b \in Batches : SwarmTakes(d.swarms[b], a)}
<1>1. \A b \in inGroup \cup inSwarm : b \in Batches /\ b <= n
  <2>1. \A b \in Batches : b \in Nat
    BY DEF Batches
  <2> QED BY <2>1 DEF GroupTakes, SwarmTakes, DeskOK, Unused, NoGroup, NoSwarm
<1>2. CASE inGroup # {}
  <2> DEFINE b == CHOOSE b \in inGroup : TRUE
  <2>1. b \in inGroup /\ Route(d, a) = GroupHandles(d, b, {a})
    BY <1>2, Zenon DEF Route
  <2> HIDE DEF b, inGroup, inSwarm
  <2>2. b \in Batches /\ b <= n /\ {a} \in SUBSET Agents
    BY <1>1, <2>1
  <2> QED BY <2>1, <2>2, GroupHandlesIsOK
<1>3. CASE inGroup = {} /\ inSwarm # {}
  <2> DEFINE b == CHOOSE b \in inSwarm : TRUE
  <2>1. b \in inSwarm /\ Route(d, a) = SwarmHandles(d, b, a)
    BY <1>3, Zenon DEF Route
  <2>2. SwarmTakes(d.swarms[b], a)
    BY <2>1
  <2> HIDE DEF b, inGroup, inSwarm
  <2>3. b \in Batches /\ b <= n
    BY <1>1, <2>1
  <2> QED BY <2>1, <2>2, <2>3, SwarmHandlesIsOK
<1>4. CASE inGroup = {} /\ inSwarm = {}
  <2>1. Route(d, a) = Post(d, <<"agent", a>>, {a})
    BY <1>4, Zenon DEF Route, PostIndividual
  <2>2. Fits(<<"agent", a>>, {a}, S)
    BY DEF Fits, Keys
  <2> QED BY <2>1, <2>2, PostTakesIn
<1> QED BY <1>2, <1>3, <1>4

\* Messages of their own replace only such messages.
LEMMA PostIndividualsIsOK ==
    ASSUME NEW S, NEW n \in Nat, NEW d, DeskOK(d, S, n), NEW R \in SUBSET Agents
    PROVE  TakesIn(d, PostIndividuals(d, R), R, S, n)
<1> DEFINE kept == {m \in d.pending : \A a \in R : m.key # <<"agent", a>>}
           own == {[key |-> <<"agent", a>>, recs |-> {a}] : a \in R}
           P == kept \cup own
           p == PostIndividuals(d, R)
<1>1. d \in Desks /\ \A m \in d.pending, a \in Agents : m.key = <<"agent", a>> => m.recs = {a}
  BY DEF DeskOK, DeskTypes
<1>2. p = [d EXCEPT !.pending = P]
  BY Zenon DEF PostIndividuals
<1>3. /\ \A m \in own : \E a \in R : m.key = <<"agent", a>> /\ m.recs = {a}
      /\ \A a \in R : \E m \in own : m.key = <<"agent", a>> /\ m.recs = {a}
      /\ \A m, k \in own : m.key = k.key => m = k
  <2>1. ASSUME NEW a \in R
        PROVE  \E m \in own : m.key = <<"agent", a>> /\ m.recs = {a}
    <3> DEFINE m == [key |-> <<"agent", a>>, recs |-> {a}]
    <3>1. m \in own /\ m.key = <<"agent", a>> /\ m.recs = {a}
      OBVIOUS
    <3> HIDE DEF m, own
    <3> QED BY <3>1
  <2>2. ASSUME NEW m \in own
        PROVE  \E a \in R : m = [key |-> <<"agent", a>>, recs |-> {a}]
    OBVIOUS
  <2> HIDE DEF own
  <2>3. ASSUME NEW m \in own, NEW k \in own, m.key = k.key PROVE m = k
    <3>1. PICK a \in R : m = [key |-> <<"agent", a>>, recs |-> {a}]
      BY <2>2
    <3>2. PICK c \in R : k = [key |-> <<"agent", c>>, recs |-> {c}]
      BY <2>2
    <3>3. a = c
      BY <2>3, <3>1, <3>2
    <3> QED BY <3>1, <3>2, <3>3
  <2>4. ASSUME NEW m \in own
        PROVE  \E a \in R : m.key = <<"agent", a>> /\ m.recs = {a}
    BY <2>2
  <2> QED BY <2>1, <2>3, <2>4
<1>4. own \subseteq [key : Keys, recs : SUBSET Agents]
  BY DEF Keys
<1>5. /\ kept \subseteq d.pending
      /\ \A m \in kept, a \in R : m.key # <<"agent", a>>
      /\ \A m \in d.pending \ kept : \E a \in R : m.key = <<"agent", a>> /\ m.recs = {a}
  BY <1>1
<1> HIDE DEF kept, own
<1>6. P \subseteq [key : Keys, recs : SUBSET Agents]
  BY <1>1, <1>4, <1>5 DEF Desks
<1>7. \A m \in P : m \in kept \/ m \in own
  OBVIOUS
<1>8. kept \subseteq P /\ own \subseteq P
  OBVIOUS
<1> HIDE DEF P, p
<1>9. /\ p \in Desks /\ p.pending = P /\ p.groups = d.groups /\ p.swarms = d.swarms
      /\ p.refused = d.refused /\ p.overtaken = d.overtaken
  BY <1>1, <1>2, <1>6 DEF Desks
<1>10. DeskTypes(p)
  <2>1. ASSUME NEW m \in P, NEW k \in P, m.key = k.key PROVE m = k
    BY <1>3, <1>5, <1>7, <2>1 DEF DeskOK, DeskTypes
  <2>2. ASSUME NEW m \in P, NEW a \in Agents, m.key = <<"agent", a>> PROVE m.recs = {a}
    BY <1>1, <1>3, <1>5, <1>7, <2>2
  <2> QED BY <1>9, <2>1, <2>2 DEF DeskOK, DeskTypes
<1>11. SwarmsOf(p, S)
  <2>1. ASSUME NEW b \in Batches, NEW m \in P, m.key = <<"swarm", b>> PROVE m \in d.pending
    BY <1>3, <1>5, <1>7, <2>1
  <2> QED BY <1>9, <2>1 DEF DeskOK, SwarmsOf
<1>12. Timed(p) /\ Unused(p, n)
  BY <1>9 DEF DeskOK, Timed, Unused
<1>13. Covered(d) \cup R \subseteq Covered(p)
  <2>1. R \subseteq Covered(p)
    BY <1>3, <1>8, <1>9 DEF Covered
  <2>2. ASSUME NEW x \in Covered(d), x \notin R PROVE x \in Covered(p)
    <3>1. \A m \in d.pending : x \in m.recs => m \in P
      BY <1>5, <1>8, <2>2
    <3> QED BY <1>9, <3>1 DEF Covered
  <2> QED BY <2>1, <2>2
<1>14. ASSUME NEW x \in Agents \ S
       PROVE  (x \notin R => Keeps(d, p, x)) /\ (Nowhere(d, x) => Once(p, x))
  <2>1. x \notin R => \A m \in P : x \in m.recs => m \in d.pending
    BY <1>3, <1>5, <1>7
  <2>2. x \notin R => Keeps(d, p, x)
    BY <1>9, <2>1 DEF Keeps, Nowhere, Once
  <2>3. ASSUME Nowhere(d, x), NEW m \in P, NEW k \in P, x \in m.recs, x \in k.recs PROVE m = k
    <3>1. m \in own /\ k \in own
      BY <1>5, <1>7, <2>3 DEF Nowhere
    <3> QED BY <1>3, <2>3, <3>1
  <2>4. Nowhere(d, x) => Once(p, x)
    BY <1>9, <2>3 DEF Nowhere, Once
  <2> QED BY <2>2, <2>4
<1> QED BY <1>10, <1>11, <1>12, <1>13, <1>14 DEF TakesIn, DeskOK, p

-----------------------------------------------------------------------------
(* Lemmas about the end of a batch.                                        *)

\* The swarm members of the batch, one after the other.
LEMMA JoinSwarmIsOK ==
    ASSUME NEW S \in SUBSET Agents, NEW n \in Nat, NEW d, DeskOK(d, S, n), NEW b \in Batches,
           b <= n, NEW a \in S
    PROVE  /\ TakesIn(d, JoinSwarm(d, b, a), {x \in {a} : Due(x)}, S, n)
           /\ JoinSwarm(d, b, a).groups = d.groups
<1> DEFINE s == d.swarms[b]
           t == AddToSwarm(s, a)
           e == SetSwarm(d, b, t)
           f == [e EXCEPT !.refused = @ \cup {a}]
           A == {x \in {a} : Due(x)}
<1>1. /\ d \in Desks /\ s \in SwarmState(Agents) /\ s.sent \subseteq s.done
      /\ s.tracked \cup s.agents \cup s.done \subseteq S /\ SwarmTimed(s)
  BY DEF DeskOK, DeskTypes, Desks, SwarmsOf, Timed
<1>2. JoinSwarm(d, b, a) = IF ~ Due(a) THEN e
                           ELSE IF SwarmTakes(e.swarms[b], a) THEN SwarmHandles(e, b, a) ELSE f
  BY Zenon DEF JoinSwarm, SetSwarm
<1>3. /\ t \in SwarmState(Agents) /\ t.done = s.done /\ t.sent = s.sent
      /\ t.tracked \cup t.agents \cup t.done \subseteq S /\ SwarmTimed(t)
  <2>1. CASE s.delivered
    BY <1>1, <2>1 DEF AddToSwarm
  <2>2. CASE ~ s.delivered
    <3> DEFINE ags == s.agents \cup {a}
               trs == s.tracked \cup {a}
    <3>1. ags \in SUBSET Agents /\ trs \in SUBSET Agents
      BY <1>1 DEF SwarmState
    <3>2. t = [s EXCEPT !.agents = ags, !.tracked = trs]
      BY <2>2, Zenon DEF AddToSwarm
    <3> HIDE DEF ags, trs, t, s
    <3>3. /\ t \in SwarmState(Agents) /\ t.done = s.done /\ t.sent = s.sent
          /\ t.open = s.open /\ t.timer = s.timer /\ t.agents = ags /\ t.tracked = trs
      BY <1>1, <3>1, <3>2 DEF SwarmState
    <3> QED BY <1>1, <3>3 DEF SwarmTimed, ags, trs
  <2> QED BY <2>1, <2>2
<1>4. t.sent \subseteq t.done
  BY <1>1, <1>3
<1> HIDE DEF s, t, e, f, A
<1>5. /\ DeskOK(e, S, n) /\ e.groups = d.groups
      /\ Covered(d) \subseteq Covered(e) \cup (s.done \ s.sent)
      /\ t.done \ t.sent \subseteq Covered(e)
      /\ \A x : Keeps(d, e, x)
  <2>1. e = SetSwarm(d, b, t)
    BY DEF e
  <2>2. t.tracked \cup t.agents \cup t.done \subseteq S /\ t \in SwarmState(Agents) /\ SwarmTimed(t)
    BY <1>3
  <2>3. DeskOK(d, S, n) /\ n \in Nat /\ b \in Batches /\ b <= n
    OBVIOUS
  <2>4. SwarmMoved(d, e, b, t, S, n)
    BY ONLY <1>4, <2>1, <2>2, <2>3, SwarmChange
  <2> QED BY <2>4 DEF SwarmMoved, s
<1>6. TakesIn(d, e, {}, S, n)
  BY <1>3, <1>5, NowhereIsOnce DEF TakesIn, Keeps
<1>7. CASE ~ Due(a)
  BY <1>2, <1>5, <1>6, <1>7 DEF A
<1>8. CASE Due(a) /\ SwarmTakes(e.swarms[b], a)
  <2>1. TakesIn(e, SwarmHandles(e, b, a), {a}, S, n) /\ SwarmHandles(e, b, a).groups = e.groups
    BY <1>5, <1>8, SwarmHandlesIsOK
  <2>2. TakesIn(d, SwarmHandles(e, b, a), {} \cup {a}, S, n)
    BY <1>6, <2>1, TakesInBoth
  <2>3. A = {} \cup {a}
    BY <1>8 DEF A
  <2> QED BY <1>2, <1>5, <1>8, <2>1, <2>2, <2>3 DEF A
<1>9. CASE Due(a) /\ ~ SwarmTakes(e.swarms[b], a)
  <2> DEFINE R == e.refused \cup {a}
  <2>1. e \in Desks
    BY <1>5 DEF DeskOK, DeskTypes
  <2>2. R \in SUBSET Agents /\ f = [e EXCEPT !.refused = R]
    BY <2>1 DEF Desks, f
  <2> HIDE DEF R
  <2>3. /\ f \in Desks /\ f.groups = e.groups /\ f.swarms = e.swarms /\ f.pending = e.pending
        /\ f.refused = R /\ f.overtaken = e.overtaken
    BY <2>1, <2>2 DEF Desks
  <2>4. DeskOK(f, S, n)
    BY <1>5, <2>3 DEF DeskOK, DeskTypes, SwarmsOf, Timed, Unused
  <2>5. Covered(e) \cup {a} \subseteq Covered(f)
    BY <2>3 DEF Covered, R
  <2>6. \A x : Keeps(e, f, x)
    BY <2>3 DEF Keeps, Nowhere, Once
  <2>7. TakesIn(e, f, {a}, S, n)
    BY <2>4, <2>5, <2>6, NowhereIsOnce DEF TakesIn, Keeps
  <2>8. TakesIn(d, f, {} \cup {a}, S, n)
    BY <1>6, <2>7, TakesInBoth
  <2>9. A = {} \cup {a}
    BY <1>9 DEF A
  <2> QED BY <1>2, <1>5, <1>9, <2>3, <2>8, <2>9 DEF A
<1> QED BY <1>7, <1>8, <1>9

\* Induction over the numbers up to n, for membership in a set.
LEMMA SetInduction ==
    ASSUME NEW n \in Nat, NEW X, 0 \in X, \A i \in 1 .. n : i - 1 \in X => i \in X
    PROVE  \A i \in 0 .. n : i \in X
<1> DEFINE T == {i \in 0 .. n : i \notin X}
           R == OpToRel(<, Nat)
<1> SUFFICES ASSUME T # {} PROVE FALSE
  OBVIOUS
<1>1. IsWellFoundedOn(R, Nat)
  BY NatLessThanWellFounded
<1>2. \A x, y \in Nat : y < x => <<y, x>> \in R
  BY DEF OpToRel
<1> HIDE DEF R
<1>3. PICK x \in T : \A y \in T : ~ (<<y, x>> \in R)
  <2>1. T \subseteq Nat
    OBVIOUS
  <2> HIDE DEF T
  <2> QED BY <1>1, <2>1, WFMin
<1>4. x # 0 /\ x \in 1 .. n
  OBVIOUS
<1>5. x - 1 \in T
  BY <1>4
<1>6. ~ (<<x - 1, x>> \in R)
  BY <1>3, <1>5
<1>7. x - 1 \in Nat /\ x \in Nat /\ x - 1 < x
  BY <1>4
<1> QED BY <1>2, <1>6, <1>7

\* f[i] is the desk after the first i members of q.
SwarmLoop(d, b, q, m, f) ==
    /\ f[0] = SetSwarm(d, b, CreateSwarm)
    /\ \A i \in 1 .. Len(q) :
          f[i] = IF m[q[i]] = "swarm" THEN JoinSwarm(f[i - 1], b, q[i]) ELSE f[i - 1]

\* WithSwarm really is the desk after the last of the steps it describes: the
\* recursion has a solution.
LEMMA WithSwarmIsLoop ==
    ASSUME NEW d, NEW b, NEW q \in Seq(Agents), NEW m
    PROVE  \E f : WithSwarm(d, b, q, m) = f[Len(q)] /\ SwarmLoop(d, b, q, m, f)
<1> DEFINE n == Len(q)
           start == SetSwarm(d, b, CreateSwarm)
           St(e, i) == IF m[q[i]] = "swarm" THEN JoinSwarm(e, b, q[i]) ELSE e
           Good(k, f) == f[0] = start /\ \A i \in 1 .. k : f[i] = St(f[i - 1], i)
           X == {k \in 0 .. n : \E f : Good(k, f)}
           Eq(g) == g = [i \in 0 .. n |-> IF i = 0 THEN start ELSE St(g[i - 1], i)]
           h == CHOOSE g : Eq(g)
<1>1. WithSwarm(d, b, q, m) = h[n]
  BY Zenon DEF WithSwarm, SetSwarm
<1>2. n \in Nat
  OBVIOUS
<1> HIDE DEF n, start, St, Eq, h
<1>3. 0 \in X
  <2> DEFINE f == [i \in 0 .. 0 |-> start]
  <2>1. Good(0, f)
    OBVIOUS
  <2> HIDE DEF f, Good
  <2> QED BY <1>2, <2>1
<1>4. ASSUME NEW i \in 1 .. n, i - 1 \in X
      PROVE  i \in X
  <2>1. PICK g : Good(i - 1, g)
    BY <1>4
  <2> DEFINE f == [j \in 0 .. i |-> IF j = i THEN St(g[i - 1], i) ELSE g[j]]
  <2>2. f[0] = start
    BY <1>2, <2>1
  <2>3. ASSUME NEW j \in 1 .. i PROVE f[j] = St(f[j - 1], j)
    <3>1. j \in 0 .. i /\ j - 1 \in 0 .. i /\ j - 1 # i
      BY <1>2
    <3>2. f[j - 1] = g[j - 1]
      BY <3>1
    <3>3. CASE j = i
      BY <3>1, <3>2, <3>3
    <3>4. CASE j # i
      <4>1. j \in 1 .. i - 1
        BY <1>2, <3>4
      <4>2. g[j] = St(g[j - 1], j)
        BY <2>1, <4>1
      <4> QED BY <3>1, <3>2, <3>4, <4>2
    <3> QED BY <3>3, <3>4
  <2> HIDE DEF f
  <2>4. Good(i, f)
    BY <2>2, <2>3
  <2>5. i \in 0 .. n
    BY <1>2
  <2> HIDE DEF Good
  <2> QED BY <2>4, <2>5
<1>5. \A i \in 1 .. n : i - 1 \in X => i \in X
  BY <1>4
<1>6. n \in X
  <2> HIDE DEF X
  <2>1. \A i \in 0 .. n : i \in X
    BY <1>2, <1>3, <1>5, SetInduction
  <2> QED BY <1>2, <2>1
<1>7. PICK f : Good(n, f)
  BY <1>6
<1> DEFINE g == [i \in 0 .. n |-> f[i]]
<1>8. Eq(g)
  <2>1. ASSUME NEW i \in 0 .. n
        PROVE  f[i] = IF i = 0 THEN start ELSE St(g[i - 1], i)
    <3>1. CASE i = 0
      BY <1>7, <3>1
    <3>2. CASE i # 0
      <4>1. i \in 1 .. n /\ i - 1 \in 0 .. n
        BY <1>2, <3>2
      <4>2. g[i - 1] = f[i - 1]
        BY <4>1
      <4> QED BY <1>7, <3>2, <4>1, <4>2
    <3> QED BY <3>1, <3>2
  <2> QED BY <2>1 DEF Eq
<1>9. Eq(h)
  <2> HIDE DEF g
  <2> QED BY <1>8, Zenon DEF h
<1>10. h[0] = start
  BY <1>2, <1>9 DEF Eq
<1>11. ASSUME NEW i \in 1 .. n PROVE h[i] = St(h[i - 1], i)
  <2>1. i \in 0 .. n /\ i # 0
    BY <1>2
  <2> QED BY <1>9, <2>1 DEF Eq
<1>12. SwarmLoop(d, b, q, m, h)
  BY <1>10, <1>11 DEF SwarmLoop, n, start, St
<1> QED BY <1>1, <1>12 DEF n

\* A desk to which only a swarm without members is added.
LEMMA CreateSwarmIsOK ==
    ASSUME NEW S \in SUBSET Agents, NEW n \in Nat, NEW d, DeskOK(d, S, n), NEW b \in Batches,
           b <= n, d.swarms[b] = NoSwarm
    PROVE  LET e == SetSwarm(d, b, CreateSwarm)
           IN  TakesIn(d, e, {}, S, n) /\ e.groups = d.groups
<1> DEFINE s == CreateSwarm
           e == SetSwarm(d, b, s)
<1>1. /\ s \in SwarmState(Agents) /\ SwarmTimed(s) /\ s.done = {} /\ s.sent = {}
      /\ s.tracked = {} /\ s.agents = {}
  BY DEF CreateSwarm, NoSwarm, SwarmState, SwarmTimed
<1>2. d.swarms[b].done = {}
  BY DEF NoSwarm
<1> HIDE DEF s
<1>3. s.sent \subseteq s.done /\ s.tracked \cup s.agents \cup s.done \subseteq S
  BY <1>1
<1>4. e = SetSwarm(d, b, s)
  OBVIOUS
<1> HIDE DEF e
<1>5. /\ DeskOK(e, S, n) /\ e.groups = d.groups
      /\ Covered(d) \subseteq Covered(e) \cup (d.swarms[b].done \ d.swarms[b].sent)
      /\ \A x : Keeps(d, e, x)
  <2>1. s \in SwarmState(Agents) /\ SwarmTimed(s) /\ s.sent \subseteq s.done
    BY <1>1, <1>3
  <2>2. s.tracked \cup s.agents \cup s.done \subseteq S
    BY <1>3
  <2>3. DeskOK(d, S, n) /\ n \in Nat /\ b \in Batches /\ b <= n
    OBVIOUS
  <2>4. SwarmMoved(d, e, b, s, S, n)
    BY ONLY <2>1, <2>2, <2>3, <1>4, SwarmChange
  <2> QED BY <2>4 DEF SwarmMoved
<1>6. TakesIn(d, e, {}, S, n)
  BY <1>2, <1>5, NowhereIsOnce DEF TakesIn, Keeps
<1> QED BY <1>5, <1>6 DEF e, s

\* The swarm members who have completed are taken in.
LEMMA WithSwarmIsOK ==
    ASSUME NEW S \in SUBSET Agents, NEW n \in Nat, NEW d, DeskOK(d, S, n), NEW b \in Batches,
           b <= n, d.swarms[b] = NoSwarm, NEW q \in Seq(Agents), NEW m,
           \A a \in Agents : m[a] = "swarm" => a \in S
    PROVE  LET A == {a \in ToSet(q) : m[a] = "swarm" /\ Due(a)}
           IN  /\ TakesIn(d, WithSwarm(d, b, q, m), A, S, n)
               /\ WithSwarm(d, b, q, m).groups = d.groups
<1>0. PICK f : WithSwarm(d, b, q, m) = f[Len(q)] /\ SwarmLoop(d, b, q, m, f)
  BY WithSwarmIsLoop
<1>1. /\ WithSwarm(d, b, q, m) = f[Len(q)]
      /\ f[0] = SetSwarm(d, b, CreateSwarm)
      /\ \A i \in 1 .. Len(q) :
            f[i] = IF m[q[i]] = "swarm" THEN JoinSwarm(f[i - 1], b, q[i]) ELSE f[i - 1]
  BY <1>0 DEF SwarmLoop
<1> DEFINE A(i) == {a \in S : m[a] = "swarm" /\ Due(a) /\ \E j \in 1 .. i : q[j] = a}
           Taken(i) == TakesIn(d, f[i], A(i), S, n) /\ f[i].groups = d.groups
           X == {i \in 0 .. Len(q) : Taken(i)}
<1>2. Len(q) \in Nat /\ \A i \in 1 .. Len(q) : q[i] \in Agents
  OBVIOUS
<1>3. 0 \in X
  <2>1. A(0) = {}
    OBVIOUS
  <2>2. TakesIn(d, f[0], {}, S, n) /\ f[0].groups = d.groups
    BY <1>1, CreateSwarmIsOK
  <2>3. Taken(0)
    BY <2>1, <2>2
  <2> HIDE DEF Taken
  <2> QED BY <1>2, <2>3
<1>4. ASSUME NEW i \in 1 .. Len(q), i - 1 \in X
      PROVE  i \in X
  <2> DEFINE B == {x \in {q[i]} : Due(x)}
  <2>1. Taken(i - 1)
    BY <1>4
  <2>2. q[i] \in Agents
    BY <1>2
  <2>3. CASE m[q[i]] = "swarm"
    <3>1. f[i] = JoinSwarm(f[i - 1], b, q[i]) /\ q[i] \in S
      BY <1>1, <2>2, <2>3
    <3>2. DeskOK(f[i - 1], S, n)
      BY <2>1 DEF TakesIn
    <3>3. TakesIn(f[i - 1], f[i], B, S, n) /\ f[i].groups = f[i - 1].groups
      BY <3>1, <3>2, JoinSwarmIsOK
    <3>4. A(i) = A(i - 1) \cup B
      <4>1. \A j : j \in 1 .. i <=> j \in 1 .. i - 1 \/ j = i
        BY <1>2
      <4> QED BY <2>3, <3>1, <4>1
    <3>5. A(i - 1) \cap B \subseteq S
      OBVIOUS
    <3>6. TakesIn(d, f[i - 1], A(i - 1), S, n)
      BY <2>1
    <3> HIDE DEF A, B
    <3>7. TakesIn(d, f[i], A(i), S, n)
      BY <3>3, <3>4, <3>5, <3>6, TakesInBoth
    <3>8. Taken(i)
      BY <2>1, <3>3, <3>7
    <3> HIDE DEF Taken
    <3> QED BY <1>2, <3>8
  <2>4. CASE m[q[i]] # "swarm"
    <3>1. f[i] = f[i - 1]
      BY <1>1, <2>4
    <3>2. A(i) = A(i - 1)
      <4>1. \A j : j \in 1 .. i <=> j \in 1 .. i - 1 \/ j = i
        BY <1>2
      <4> QED BY <2>4, <4>1
    <3> HIDE DEF A
    <3>3. Taken(i)
      BY <2>1, <3>1, <3>2
    <3> HIDE DEF Taken
    <3> QED BY <1>2, <3>3
  <2> QED BY <2>3, <2>4
<1>5. \A i \in 1 .. Len(q) : i - 1 \in X => i \in X
  BY <1>4
<1>6. Taken(Len(q))
  <2> HIDE DEF X
  <2>1. \A i \in 0 .. Len(q) : i \in X
    BY <1>2, <1>3, <1>5, SetInduction
  <2>2. Len(q) \in 0 .. Len(q)
    BY <1>2
  <2>3. Len(q) \in X
    BY <2>1, <2>2
  <2> QED BY <2>3, Zenon DEF X
<1>7. A(Len(q)) = {a \in ToSet(q) : m[a] = "swarm" /\ Due(a)}
  BY <1>2 DEF ToSet
<1> HIDE DEF A, X
<1> QED BY <1>1, <1>6, <1>7

\* The members of a new group who have completed are taken in.
LEMMA WithGroupIsOK ==
    ASSUME NEW S \in SUBSET Agents, NEW n \in Nat, NEW d, DeskOK(d, S, n), NEW b \in Batches,
           b <= n, d.groups[b] = NoGroup, NEW T \in SUBSET Agents,
           NEW f, f = WithGroup(d, b, T)
    PROVE  TakesIn(d, f, {a \in T : Due(a)}, S, n) /\ f.swarms = d.swarms
<1> DEFINE g == RegisterGroup(T)
           e == SetGroup(d, b, g)
           A == {a \in T : Due(a)}
<1>1. f = IF A = {} THEN e ELSE GroupHandles(e, b, A)
  BY Zenon DEF WithGroup, SetGroup
<1>2. g \in GroupState(Agents) /\ GroupTimed(g) /\ g.done = {}
  BY DEF RegisterGroup, GroupState, GroupTimed
<1>3. d.groups[b].done = {}
  BY DEF NoGroup
<1>4. A \in SUBSET Agents
  OBVIOUS
<1> HIDE DEF g, e, A
<1>5. /\ DeskOK(e, S, n) /\ e.swarms = d.swarms
      /\ Covered(d) \subseteq Covered(e) \cup d.groups[b].done
      /\ \A x : x \notin g.done => Keeps(d, e, x)
  <2>1. e = SetGroup(d, b, g)
    BY DEF e
  <2>2. g \in GroupState(Agents) /\ GroupTimed(g)
    BY <1>2
  <2>3. DeskOK(d, S, n) /\ n \in Nat /\ b \in Batches /\ b <= n
    OBVIOUS
  <2>4. GroupMoved(d, e, b, g, S, n)
    BY ONLY <2>1, <2>2, <2>3, GroupChange
  <2> QED BY <2>4 DEF GroupMoved
<1>6. TakesIn(d, e, {}, S, n)
  BY <1>2, <1>3, <1>5, NowhereIsOnce DEF TakesIn, Keeps
<1>7. CASE A = {}
  BY <1>1, <1>5, <1>6, <1>7 DEF A
<1>8. CASE A # {}
  <2>1. TakesIn(e, GroupHandles(e, b, A), A, S, n) /\ GroupHandles(e, b, A).swarms = e.swarms
    BY <1>4, <1>5, GroupHandlesIsOK
  <2>2. TakesIn(d, GroupHandles(e, b, A), {} \cup A, S, n)
    BY <1>6, <2>1, TakesInBoth
  <2>3. {} \cup A = A
    OBVIOUS
  <2> QED BY <1>1, <1>5, <1>8, <2>1, <2>2, <2>3 DEF A
<1> QED BY <1>7, <1>8

\* finalizeBatch takes in those of its members who have completed.
LEMMA FinalizeIsOK ==
    ASSUME NEW S \in SUBSET Agents, NEW n \in Nat, DeskOK(desk, S, n), NEW b \in Batches,
           b = n + 1, NEW q \in Seq(Agents), NEW m, NEW missing \in BOOLEAN,
           \A a \in Agents : m[a] = "swarm" => a \in S,
           \A a \in ToSet(q) : m[a] \in {"smart", "group", "swarm"}
    PROVE  TakesIn(desk, Finalize(q, m, missing, b), {a \in ToSet(q) : Due(a)}, S, b)
<1> DEFINE smart == {a \in ToSet(q) : m[a] \in {"smart", "group"}}
           grouped == Cardinality(smart) >= 2 \/ (missing /\ smart # {})
           d == IF grouped THEN WithGroup(desk, b, smart) ELSE desk
           e == IF \E a \in ToSet(q) : m[a] = "swarm" THEN WithSwarm(d, b, q, m) ELSE d
           A == {a \in smart : Due(a)}
           B == {a \in ToSet(q) : m[a] = "swarm" /\ Due(a)}
           f == Finalize(q, m, missing, b)
<1>1. f = IF grouped THEN e ELSE PostIndividuals(e, A)
  BY Zenon DEF Finalize
<1>2. ToSet(q) \subseteq Agents
  BY DEF ToSet
<1>3. /\ smart \in SUBSET Agents /\ A \in SUBSET Agents
      /\ A \cap B = {} /\ A \cup B = {a \in ToSet(q) : Due(a)}
      /\ (\E a \in ToSet(q) : m[a] = "swarm") \/ B = {}
  BY <1>2
<1>4. b \in Nat /\ b <= b
  BY DEF Batches
<1>5. DeskOK(desk, S, b) /\ desk.groups[b] = NoGroup /\ desk.swarms[b] = NoSwarm
  BY <1>4 DEF DeskOK, Unused, Batches
<1> HIDE DEF smart, grouped, A, B, f
<1>6. TakesIn(desk, desk, {}, S, b)
  BY <1>5, NowhereIsOnce DEF TakesIn, Keeps
<1>7. TakesIn(desk, d, IF grouped THEN A ELSE {}, S, b) /\ d.swarms = desk.swarms
  <2>1. CASE grouped
    <3>1. d = WithGroup(desk, b, smart)
      BY <2>1
    <3> HIDE DEF d
    <3>2. TakesIn(desk, d, {a \in smart : Due(a)}, S, b) /\ d.swarms = desk.swarms
      <4>1. smart \in SUBSET Agents
        BY <1>3
      <4>2. b \in Nat /\ b <= b /\ S \in SUBSET Agents /\ b \in Batches
        BY <1>4
      <4>3. DeskOK(desk, S, b) /\ desk.groups[b] = NoGroup
        BY <1>5
      <4> QED BY ONLY <4>1, <4>2, <4>3, <3>1, WithGroupIsOK
    <3> QED BY <2>1, <3>2 DEF A
  <2>2. CASE ~ grouped
    BY <1>6, <2>2
  <2> QED BY <2>1, <2>2
<1>8. DeskOK(d, S, b) /\ d.swarms[b] = NoSwarm
  BY <1>5, <1>7 DEF TakesIn
<1> HIDE DEF d
<1>9. TakesIn(d, e, B, S, b)
  <2>1. CASE \E a \in ToSet(q) : m[a] = "swarm"
    BY <1>4, <1>8, <2>1, WithSwarmIsOK DEF B
  <2>2. CASE ~ \E a \in ToSet(q) : m[a] = "swarm"
    BY <1>3, <1>8, <2>2, NowhereIsOnce DEF TakesIn, Keeps
  <2> QED BY <2>1, <2>2
<1> HIDE DEF e
<1>10. CASE grouped
  <2>1. TakesIn(desk, e, A \cup B, S, b)
    BY <1>3, <1>7, <1>9, <1>10, TakesInBoth
  <2> QED BY <1>1, <1>3, <1>10, <2>1 DEF f
<1>11. CASE ~ grouped
  <2>1. TakesIn(desk, e, {} \cup B, S, b)
    BY <1>7, <1>9, <1>11, TakesInBoth
  <2>2. TakesIn(e, PostIndividuals(e, A), A, S, b)
    BY <1>3, <1>4, <1>9, PostIndividualsIsOK DEF TakesIn
  <2>3. TakesIn(desk, PostIndividuals(e, A), ({} \cup B) \cup A, S, b)
    BY <1>3, <2>1, <2>2, TakesInBoth
  <2>4. ({} \cup B) \cup A = {a \in ToSet(q) : Due(a)}
    BY <1>3
  <2> QED BY <1>1, <1>11, <2>3, <2>4 DEF f
<1> QED BY <1>10, <1>11

-----------------------------------------------------------------------------
(* Lemmas about reading, sending and the timers.                           *)

\* A desk where swarms are about agents of S is one for more agents, too.
LEMMA DeskOKGrows ==
    ASSUME NEW S, NEW T, S \subseteq T, NEW n, NEW d, DeskOK(d, S, n)
    PROVE  DeskOK(d, T, n)
BY DEF DeskOK, SwarmsOf

\* What is known of a group, a swarm and their number.
LEMMA DeskParts ==
    ASSUME NEW S, NEW n \in Nat, NEW d, DeskOK(d, S, n), NEW b \in Batches
    PROVE  /\ d \in Desks /\ d.groups[b] \in GroupState(Agents) /\ d.swarms[b] \in SwarmState(Agents)
           /\ SwarmTimed(d.swarms[b]) /\ d.swarms[b].sent \subseteq d.swarms[b].done
           /\ d.swarms[b].tracked \cup d.swarms[b].agents \cup d.swarms[b].done \subseteq S
           /\ d.groups[b].timer \/ d.swarms[b].timer \/ d.swarms[b].recent > 0 => b <= n
<1>1. d \in Desks /\ d.groups[b] \in GroupState(Agents) /\ d.swarms[b] \in SwarmState(Agents)
  BY DEF DeskOK, DeskTypes, Desks
<1>2. SwarmTimed(d.swarms[b]) /\ d.swarms[b].sent \subseteq d.swarms[b].done
  BY DEF DeskOK, DeskTypes, Timed
<1>3. d.swarms[b].tracked \cup d.swarms[b].agents \cup d.swarms[b].done \subseteq S
  BY DEF DeskOK, SwarmsOf
<1>4. b > n => d.groups[b] = NoGroup /\ d.swarms[b] = NoSwarm
  BY DEF DeskOK, Unused
<1>5. b \in Nat
  BY DEF Batches
<1>6. ~ NoGroup.timer /\ ~ NoSwarm.timer /\ ~ NoSwarm.recent > 0
  BY DEF NoGroup, NoSwarm
<1>7. d.groups[b].timer \/ d.swarms[b].timer \/ d.swarms[b].recent > 0 => b <= n
  BY <1>4, <1>5, <1>6
<1> QED BY <1>1, <1>2, <1>3, <1>7

\* A desk without the messages of M.
Without(d, M) == [d EXCEPT !.pending = @ \ M]

\* Messages are taken from the desk: only what they carry leaves it.
LEMMA RemovalIsOK ==
    ASSUME NEW S, NEW n, NEW d, DeskOK(d, S, n), NEW M \in SUBSET d.pending,
           NEW e, e = Without(d, M)
    PROVE  /\ DeskOK(e, S, n)
           /\ \A x \in Covered(d) : (\A m \in M : x \notin m.recs) => x \in Covered(e)
           /\ \A x : Keeps(d, e, x)
           /\ \A x, m : M = {m} /\ x \in m.recs /\ Once(d, x) => Nowhere(e, x)
<1> DEFINE P == d.pending \ M
<1>1. d \in Desks
  BY DEF DeskOK, DeskTypes
<1>2. e = [d EXCEPT !.pending = P]
  BY Zenon DEF Without
<1>3. P \subseteq d.pending /\ \A m \in d.pending : m \in P \/ m \in M
  OBVIOUS
<1>4. \A m \in P : m \notin M
  OBVIOUS
<1> HIDE DEF P
<1>5. /\ e \in Desks /\ e.pending = P /\ e.groups = d.groups /\ e.swarms = d.swarms
      /\ e.refused = d.refused /\ e.overtaken = d.overtaken
  BY <1>1, <1>2, <1>3 DEF Desks
<1>6. DeskOK(e, S, n)
  BY <1>3, <1>5 DEF DeskOK, DeskTypes, SwarmsOf, Timed, Unused
<1>7. \A x \in Covered(d) : (\A m \in M : x \notin m.recs) => x \in Covered(e)
  BY <1>3, <1>5 DEF Covered
<1>8. \A x : Keeps(d, e, x)
  BY <1>3, <1>5 DEF Keeps, Nowhere, Once
<1>9. ASSUME NEW x, NEW m, M = {m}, x \in m.recs, Once(d, x)
      PROVE  Nowhere(e, x)
  BY <1>3, <1>4, <1>5, <1>9 DEF Nowhere, Once
<1> QED BY <1>6, <1>7, <1>8, <1>9

\* A read cancels the message of its agent's own.
LEMMA CancelIsOK ==
    ASSUME NEW S, NEW n, NEW d, DeskOK(d, S, n), NEW a \in Agents,
           NEW e, e = Cancel(d, <<"agent", a>>)
    PROVE  /\ DeskOK(e, S, n)
           /\ Covered(d) \subseteq Covered(e) \cup {a}
           /\ \A x : Keeps(d, e, x)
<1> DEFINE M == Held(d, <<"agent", a>>)
<1>1. M \in SUBSET d.pending /\ \A m \in M : m.recs = {a}
  BY DEF Held, DeskOK, DeskTypes
<1>2. e = Without(d, M)
  BY Zenon DEF Cancel, Without
<1> HIDE DEF M
<1>3. /\ DeskOK(e, S, n)
      /\ \A x \in Covered(d) : (\A m \in M : x \notin m.recs) => x \in Covered(e)
      /\ \A x : Keeps(d, e, x)
  BY <1>1, <1>2, RemovalIsOK
<1> QED BY <1>1, <1>3

\* What the two timers do to the desk.
GroupTimerFires(d, b) ==
    LET g == d.groups[b]
    IN  Post(SetGroup(d, b, GroupTimesOut(g)), <<"group", g.done>>, g.done)

SwarmTimerFires(d, b) ==
    LET s == d.swarms[b]
        e == SetSwarm(d, b, SwarmTimesOut(s))
    IN  IF TimeoutDelivers(s) THEN Post(e, <<"swarm", b>>, s.done) ELSE e

\* A group that times out delivers what it holds.
LEMMA GroupTimeoutIsOK ==
    ASSUME NEW S, NEW n \in Nat, NEW d, DeskOK(d, S, n), NEW b \in Batches, d.groups[b].timer,
           NEW p, p = GroupTimerFires(d, b)
    PROVE  TakesIn(d, p, {}, S, n)
<1> DEFINE g == d.groups[b]
           h == GroupTimesOut(g)
           e == SetGroup(d, b, h)
           R == g.done
<1>1. d \in Desks /\ g \in GroupState(Agents) /\ R \in SUBSET Agents /\ b <= n
  BY DeskParts DEF GroupState
<1>2. p = Post(e, <<"group", R>>, R) /\ e = SetGroup(d, b, h)
  BY Zenon DEF GroupTimerFires
<1>3. h \in GroupState(Agents) /\ h.done = {}
  <2> DEFINE mem == g.members \ g.done
             trk == g.tracked \ g.done
  <2>1. mem \in SUBSET Agents /\ trk \in SUBSET Agents
    BY <1>1 DEF GroupState
  <2>2. h = [g EXCEPT !.members = mem, !.tracked = trk, !.done = {}, !.timer = FALSE]
    BY Zenon DEF GroupTimesOut
  <2> HIDE DEF mem, trk, h
  <2> QED BY <1>1, <2>1, <2>2 DEF GroupState
<1>4. GroupTimed(h)
  BY <1>3 DEF GroupTimed
<1>5. Fits(<<"group", R>>, R, S)
  BY <1>1 DEF Fits, Keys
<1> HIDE DEF g, h, e, R
<1>6. /\ DeskOK(e, S, n)
      /\ Covered(d) \subseteq Covered(e) \cup R
      /\ \A x : /\ x \notin h.done => Keeps(d, e, x)
                /\ x \notin h.done /\ x \in R /\ Once(d, x) => Nowhere(e, x)
  <2>1. e = SetGroup(d, b, h) /\ h \in GroupState(Agents) /\ GroupTimed(h)
    BY <1>2, <1>3, <1>4
  <2>2. DeskOK(d, S, n) /\ n \in Nat /\ b \in Batches /\ b <= n
    BY <1>1
  <2>3. GroupMoved(d, e, b, h, S, n)
    BY ONLY <2>1, <2>2, GroupChange
  <2> QED BY <2>3 DEF GroupMoved, R, g
<1>7. TakesIn(e, p, R, S, n)
  BY <1>2, <1>5, <1>6, PostTakesIn
<1>8. ASSUME NEW x \in Agents \ S
      PROVE  Keeps(d, p, x) /\ (Nowhere(d, x) => Once(p, x))
  <2>1. Nowhere(d, x) => x \notin R
    BY DEF Nowhere, R, g
  <2>2. CASE x \in R
    BY <1>3, <1>6, <1>7, <2>1, <2>2 DEF TakesIn, Keeps
  <2>3. CASE x \notin R
    BY <1>3, <1>6, <1>7, <2>3 DEF TakesIn, Keeps
  <2> QED BY <2>2, <2>3
<1> QED BY <1>6, <1>7, <1>8 DEF TakesIn

\* A swarm that times out delivers what it has not delivered.
LEMMA SwarmTimeoutIsOK ==
    ASSUME NEW S, NEW n \in Nat, NEW d, DeskOK(d, S, n), NEW b \in Batches, d.swarms[b].timer,
           NEW p, p = SwarmTimerFires(d, b)
    PROVE  TakesIn(d, p, {}, S, n)
<1> DEFINE s == d.swarms[b]
           t == SwarmTimesOut(s)
           e == SetSwarm(d, b, t)
           R == s.done
<1>1. /\ d \in Desks /\ s \in SwarmState(Agents) /\ R \in SUBSET Agents /\ b <= n
      /\ s.tracked \cup s.agents \cup s.done \subseteq S
  BY DeskParts DEF SwarmState
<1>2. p = (IF s.done \ s.sent # {} THEN Post(e, <<"swarm", b>>, R) ELSE e) /\ e = SetSwarm(d, b, t)
  BY Zenon DEF SwarmTimerFires, TimeoutDelivers
<1>3. /\ t \in SwarmState(Agents) /\ t.done = {} /\ t.sent = {}
      /\ t.tracked = s.agents \ s.done /\ t.agents = s.agents \ s.done
  <2> DEFINE rem == s.agents \ s.done
             opn == rem # {}
             rec == IF TimeoutDelivers(s) THEN s.recent + 1 ELSE s.recent
  <2>1. rem \in SUBSET Agents /\ rec \in Nat /\ opn \in BOOLEAN
    BY <1>1 DEF SwarmState
  <2>2. t = [s EXCEPT !.open = opn, !.agents = rem, !.tracked = rem, !.done = {}, !.sent = {},
                      !.timer = FALSE, !.recent = rec]
    BY Zenon DEF SwarmTimesOut
  <2> HIDE DEF rem, opn, rec, t
  <2>3. /\ t \in SwarmState(Agents) /\ t.done = {} /\ t.sent = {} /\ t.tracked = rem /\ t.agents = rem
    BY <1>1, <2>1, <2>2 DEF SwarmState
  <2> QED BY <2>3 DEF rem
<1>4. SwarmTimed(t) /\ t.sent \subseteq t.done /\ t.tracked \cup t.agents \cup t.done \subseteq S
  BY <1>1, <1>3 DEF SwarmTimed
<1>5. Fits(<<"swarm", b>>, R, S)
  BY <1>1 DEF Fits, Keys
<1> HIDE DEF s, t, e, R
<1>6. /\ DeskOK(e, S, n)
      /\ Covered(d) \subseteq Covered(e) \cup (s.done \ s.sent)
      /\ \A x : Keeps(d, e, x)
  <2>1. t \in SwarmState(Agents) /\ DeskOK(d, S, n) /\ n \in Nat /\ b \in Batches /\ b <= n
    BY <1>1, <1>3
  <2>2. e = SetSwarm(d, b, t)
    BY <1>2
  <2>3. SwarmMoved(d, e, b, t, S, n)
    BY ONLY <1>4, <2>1, <2>2, SwarmChange
  <2> QED BY <2>3 DEF SwarmMoved, s
<1>7. CASE s.done \ s.sent # {}
  <2>1. TakesIn(e, p, R, S, n) /\ R \subseteq S
    BY <1>1, <1>2, <1>5, <1>6, <1>7, PostTakesIn DEF R
  <2> QED BY <1>6, <2>1 DEF TakesIn, Keeps, R
<1>8. CASE s.done \ s.sent = {}
  BY <1>2, <1>6, <1>8, NowhereIsOnce DEF TakesIn, Keeps
<1> QED BY <1>7, <1>8

\* The rate window of a swarm slides.
WindowSlid(d, b) == SetSwarm(d, b, [d.swarms[b] EXCEPT !.recent = 0])

LEMMA WindowIsOK ==
    ASSUME NEW S, NEW n \in Nat, NEW d, DeskOK(d, S, n), NEW b \in Batches, d.swarms[b].recent > 0,
           NEW e, e = WindowSlid(d, b)
    PROVE  TakesIn(d, e, {}, S, n)
<1> DEFINE s == d.swarms[b]
           t == [s EXCEPT !.recent = 0]
<1>1. /\ d \in Desks /\ s \in SwarmState(Agents) /\ b <= n /\ SwarmTimed(s)
      /\ s.tracked \cup s.agents \cup s.done \subseteq S /\ s.sent \subseteq s.done
  BY DeskParts
<1>2. e = SetSwarm(d, b, t)
  BY DEF WindowSlid
<1> HIDE DEF s
<1>3. /\ t \in SwarmState(Agents) /\ t.done = s.done /\ t.sent = s.sent /\ t.open = s.open
      /\ t.tracked = s.tracked /\ t.agents = s.agents /\ t.timer = s.timer
  BY <1>1 DEF SwarmState
<1> HIDE DEF t
<1>4. SwarmTimed(t) /\ t.sent \subseteq t.done /\ t.tracked \cup t.agents \cup t.done \subseteq S
  BY <1>1, <1>3 DEF SwarmTimed
<1>5. /\ DeskOK(e, S, n)
      /\ Covered(d) \subseteq Covered(e) \cup (s.done \ s.sent)
      /\ t.done \ t.sent \subseteq Covered(e)
      /\ \A x : Keeps(d, e, x)
  <2>1. t \in SwarmState(Agents) /\ n \in Nat /\ b \in Batches /\ b <= n
    BY <1>1, <1>3
  <2>2. SwarmMoved(d, e, b, t, S, n)
    BY ONLY DeskOK(d, S, n), <1>2, <1>4, <2>1, SwarmChange
  <2> QED BY <2>2 DEF SwarmMoved, s
<1> QED BY <1>3, <1>5, NowhereIsOnce DEF TakesIn, Keeps

-----------------------------------------------------------------------------
(* The inductive invariant.                                                *)

Swarmers == {a \in Agents : mode[a] = "swarm"}

\* Types of all but the desk.
Types ==
    /\ run \in [Agents -> Runs]
    /\ mode \in [Agents -> {"async", "smart", "group", "swarm"}]
    /\ batch \in Seq(Agents) /\ IsInjective(batch)
    /\ partial \in BOOLEAN /\ batches \in 0 .. MaxBatches
    /\ consumed \in [Agents -> BOOLEAN] /\ waiting \in [Agents -> 0 .. MaxWaiters]
    /\ announced \in [Agents -> Nat]
    /\ settled \subseteq Agents /\ \A a \in settled : waiting[a] > 0
    /\ answered \subseteq Agents /\ lingered \subseteq Agents /\ recovered \subseteq Agents

DeskInv == DeskOK(desk, Swarmers, batches)

\* Who has not been spawned is nowhere, who is in the batch has been spawned to
\* be there, and only stopped agents end before they report.
Spawned ==
    /\ \A a \in Agents :
          /\ run[a] = "none" => /\ mode[a] = "async" /\ announced[a] = 0 /\ waiting[a] = 0
                                /\ Nowhere(desk, a)
          /\ a \in ToSet(batch) => run[a] # "none" /\ mode[a] # "async"
          /\ run[a] = "ended" => a \in lingered
    /\ batch # <<>> => batches < MaxBatches

\* A result that a call has returned stays consumed: the waiters that are left
\* know that one of them has got it.
Quiet ==
    \A a \in answered \ lingered :
        run[a] = "reported" /\ consumed[a] /\ (waiting[a] = 0 \/ a \in settled)

\* Neither a message nor a group has the result yet.
Early(a) == run[a] \in {"none", "live"} \/ a \in ToSet(batch)

\* Whom AnnouncedOnce is about: whoever has been announced, or cannot be yet, is
\* nowhere on the desk, and nobody is in two places of it.
Ordinary == Agents \ (lingered \cup recovered \cup Swarmers)
Single ==
    \A a \in Ordinary :
        /\ announced[a] <= 1 /\ Once(desk, a)
        /\ Early(a) => announced[a] = 0
        /\ Early(a) \/ announced[a] # 0 => Nowhere(desk, a)

\* NothingForgotten, with the two exceptions as places.
Remembered ==
    \A a \in Agents :
        run[a] = "reported" /\ ~consumed[a] /\ announced[a] = 0 => a \in ToSet(batch) \cup Covered(desk)

IInv == Types /\ DeskInv /\ Spawned /\ Quiet /\ Single /\ Remembered

-----------------------------------------------------------------------------
(* Lemmas about the batch.                                                 *)

LEMMA Appended ==
    ASSUME NEW s \in Seq(Agents), IsInjective(s), NEW a \in Agents, a \notin ToSet(s)
    PROVE  /\ Append(s, a) \in Seq(Agents) /\ IsInjective(Append(s, a))
           /\ ToSet(Append(s, a)) = ToSet(s) \cup {a} /\ Append(s, a) # <<>>
<1> DEFINE t == Append(s, a)
<1>1. /\ Len(s) \in Nat /\ DOMAIN s = 1 .. Len(s) /\ DOMAIN t = 1 .. Len(s) + 1
      /\ t \in Seq(Agents) /\ t[Len(s) + 1] = a /\ \A i \in 1 .. Len(s) : t[i] = s[i]
  OBVIOUS
<1> HIDE DEF t
<1>2. \A i \in DOMAIN s : s[i] # a
  BY DEF ToSet
<1>3. \A i \in DOMAIN t : i \in DOMAIN s \/ i = Len(s) + 1
  BY <1>1
<1>4. IsInjective(t)
  BY <1>1, <1>2, <1>3 DEF IsInjective
<1>5. ToSet(t) = ToSet(s) \cup {a}
  BY <1>1, <1>3 DEF ToSet
<1>6. t # <<>>
  BY <1>1
<1> QED BY <1>1, <1>4, <1>5, <1>6 DEF t

LEMMA Concatenated ==
    ASSUME NEW s \in Seq(Agents), IsInjective(s), NEW q \in Seq(Agents), IsInjective(q),
           ToSet(s) \cap ToSet(q) = {}
    PROVE  /\ s \o q \in Seq(Agents) /\ IsInjective(s \o q)
           /\ ToSet(s \o q) = ToSet(s) \cup ToSet(q)
<1> DEFINE t == s \o q
           k == Len(s)
           n == Len(q)
<1>1. /\ k \in Nat /\ n \in Nat /\ DOMAIN s = 1 .. k /\ DOMAIN q = 1 .. n
      /\ DOMAIN t = 1 .. k + n /\ t \in Seq(Agents)
      /\ \A i \in 1 .. k : t[i] = s[i]
      /\ \A i \in k + 1 .. k + n : t[i] = q[i - k]
  OBVIOUS
<1> HIDE DEF t, k, n
<1>2. \A i \in DOMAIN t : i \in DOMAIN s \/ (i - k \in DOMAIN q /\ i \in k + 1 .. k + n)
  BY <1>1
<1>3. \A i \in DOMAIN t : t[i] \in ToSet(s) \cup ToSet(q)
  BY <1>1, <1>2 DEF ToSet
<1>4. \A i \in DOMAIN s, j \in DOMAIN q : s[i] # q[j]
  BY DEF ToSet
<1>5. ASSUME NEW i \in DOMAIN t, NEW j \in DOMAIN t, t[i] = t[j] PROVE i = j
  <2>1. CASE i \in DOMAIN s /\ j \in DOMAIN s
    BY <1>1, <1>5, <2>1 DEF IsInjective
  <2>2. CASE i \in DOMAIN s /\ j \notin DOMAIN s
    BY <1>1, <1>2, <1>4, <1>5, <2>2
  <2>3. CASE i \notin DOMAIN s /\ j \in DOMAIN s
    BY <1>1, <1>2, <1>4, <1>5, <2>3
  <2>4. CASE i \notin DOMAIN s /\ j \notin DOMAIN s
    <3>1. t[i] = q[i - k] /\ t[j] = q[j - k] /\ i - k \in DOMAIN q /\ j - k \in DOMAIN q
      BY <1>1, <1>2, <2>4
    <3>2. i - k = j - k
      BY <1>5, <3>1 DEF IsInjective
    <3> QED BY <1>1, <3>2
  <2> QED BY <2>1, <2>2, <2>3, <2>4
<1>6. IsInjective(t)
  BY <1>5 DEF IsInjective
<1>7. ToSet(s) \cup ToSet(q) \subseteq ToSet(t)
  <2>1. ASSUME NEW i \in DOMAIN s PROVE s[i] \in ToSet(t)
    <3>1. i \in DOMAIN t /\ t[i] = s[i]
      BY <1>1
    <3> QED BY <3>1 DEF ToSet
  <2>2. ASSUME NEW i \in DOMAIN q PROVE q[i] \in ToSet(t)
    <3>1. k + i \in DOMAIN t /\ t[k + i] = q[i]
      BY <1>1
    <3> QED BY <3>1 DEF ToSet
  <2> QED BY <2>1, <2>2 DEF ToSet
<1>8. ToSet(t) \subseteq ToSet(s) \cup ToSet(q)
  BY <1>3 DEF ToSet
<1> QED BY <1>1, <1>6, <1>7, <1>8 DEF t

\* The members of a crew or swarm: agents, each once.
LEMMA OrdersAreSequences ==
    ASSUME NEW q \in Orders
    PROVE  q \in Seq(Agents) /\ IsInjective(q)
<1>1. PICK S \in SUBSET Agents : q \in SetToSeqs(S)
  BY DEF Orders
<1> DEFINE D == 1 .. Cardinality(S)
<1>2. q \in [D -> S] /\ \A i, j \in D : i # j => q[i] # q[j]
  BY <1>1 DEF SetToSeqs
<1>3. Cardinality(S) \in Nat
  BY AgentsAssumption, FS_Subset, FS_CardinalityType
<1>4. q \in Seq(Agents)
  BY <1>2, <1>3
<1>5. DOMAIN q = D
  BY <1>2
<1> HIDE DEF D
<1>6. IsInjective(q)
  BY <1>2, <1>5 DEF IsInjective
<1> QED BY <1>4, <1>6

LEMMA EmptyBatch == ToSet(<<>>) = {} /\ <<>> \in Seq(Agents) /\ IsInjective(<<>>)
BY DEF ToSet, IsInjective

-----------------------------------------------------------------------------
(* The initial states.                                                     *)

LEMMA InitHolds == Init => IInv
<1> SUFFICES ASSUME Init PROVE IInv
  OBVIOUS
<1>1. ToSet(batch) = {} /\ batch \in Seq(Agents) /\ IsInjective(batch)
  BY EmptyBatch DEF Init
<1>2. Types
  <2>1. /\ run \in [Agents -> Runs] /\ mode \in [Agents -> {"async", "smart", "group", "swarm"}]
        /\ batches \in 0 .. MaxBatches
    BY BoundsAssumption DEF Init, Runs
  <2>2. partial \in BOOLEAN
    BY Zenon DEF Init
  <2>3. /\ consumed \in [Agents -> BOOLEAN] /\ waiting \in [Agents -> 0 .. MaxWaiters]
        /\ announced \in [Agents -> Nat]
    BY BoundsAssumption DEF Init
  <2>4. settled = {} /\ answered = {} /\ lingered = {} /\ recovered = {}
    BY DEF Init
  <2> QED BY <1>1, <2>1, <2>2, <2>3, <2>4 DEF Types
<1>3. /\ desk.groups = [b \in Batches |-> NoGroup] /\ desk.swarms = [b \in Batches |-> NoSwarm]
      /\ desk.pending = {} /\ desk.refused = {} /\ desk.overtaken = {}
  BY DEF Init
<1>4. NoGroup \in GroupState(Agents) /\ NoSwarm \in SwarmState(Agents)
  BY DEF NoGroup, NoSwarm, GroupState, SwarmState
<1>5. desk \in Desks
  BY <1>4 DEF Init, Desks
<1>6. DeskTypes(desk) /\ SwarmsOf(desk, Swarmers)
  BY <1>3, <1>5 DEF DeskTypes, SwarmsOf, NoSwarm
<1>7. Timed(desk) /\ Unused(desk, batches)
  BY <1>3 DEF Timed, Unused, GroupTimed, SwarmTimed, NoGroup, NoSwarm
<1>8. \A a : Nowhere(desk, a)
  BY <1>3 DEF Nowhere, NoGroup
<1>9. Spawned
  BY <1>1, <1>8 DEF Init, Spawned
<1>10. Quiet /\ Remembered
  BY DEF Init, Quiet, Remembered
<1>11. Single
  <2>1. \A a \in Agents : announced[a] = 0 /\ Nowhere(desk, a)
    BY <1>8 DEF Init
  <2>2. \A a \in Agents : Once(desk, a) /\ announced[a] <= 1
    BY <2>1, NowhereIsOnce
  <2> QED BY <2>1, <2>2 DEF Single, Ordinary
<1> QED BY <1>2, <1>6, <1>7, <1>9, <1>10, <1>11 DEF IInv, DeskInv, DeskOK

-----------------------------------------------------------------------------
(* The steps that leave everything but the desk as it is.                  *)

LEMMA OnlyDeskKeeps ==
    ASSUME IInv, OnlyDesk, TakesIn(desk, desk', {}, Swarmers, batches)
    PROVE  IInv'
<1>1. /\ run' = run /\ mode' = mode /\ batch' = batch /\ partial' = partial /\ batches' = batches
      /\ consumed' = consumed /\ waiting' = waiting /\ settled' = settled /\ announced' = announced
      /\ answered' = answered /\ lingered' = lingered /\ recovered' = recovered
  BY DEF OnlyDesk, batching, reading, history
<1>2. /\ DeskOK(desk', Swarmers, batches) /\ Covered(desk) \subseteq Covered(desk')
      /\ \A x \in Agents \ Swarmers : Keeps(desk, desk', x)
  BY DEF TakesIn
<1>3. Swarmers' = Swarmers /\ Ordinary' = Ordinary /\ \A a : Early(a)' <=> Early(a)
  BY <1>1 DEF Swarmers, Ordinary, Early
<1>4. Types'
  BY <1>1 DEF IInv, Types
<1>5. DeskInv'
  BY <1>1, <1>2, <1>3 DEF DeskInv
<1>6. Spawned'
  <2>1. \A a \in Agents : run[a] = "none" => Nowhere(desk', a)
    BY <1>2 DEF IInv, Spawned, Swarmers, Keeps
  <2> QED BY <1>1, <2>1 DEF IInv, Spawned
<1>7. Quiet'
  BY <1>1 DEF IInv, Quiet
<1>8. Single'
  BY <1>1, <1>2, <1>3 DEF IInv, Single, Ordinary, Keeps
<1>9. Remembered'
  BY <1>1, <1>2 DEF IInv, Remembered
<1> QED BY <1>4, <1>5, <1>6, <1>7, <1>8, <1>9 DEF IInv

LEMMA TimersKeep ==
    ASSUME IInv, NEW b \in Batches, GroupTimeout(b) \/ SwarmTimeout(b) \/ WindowSlides(b)
    PROVE  IInv'
<1>1. DeskOK(desk, Swarmers, batches) /\ batches \in Nat
  BY DEF IInv, DeskInv, Types
<1>2. CASE GroupTimeout(b)
  <2>1. desk.groups[b].timer /\ OnlyDesk /\ desk' = GroupTimerFires(desk, b)
    BY <1>2, Zenon DEF GroupTimeout, GroupTimerFires, SetGroup
  <2> QED BY <1>1, <2>1, GroupTimeoutIsOK, OnlyDeskKeeps
<1>3. CASE SwarmTimeout(b)
  <2>1. desk.swarms[b].timer /\ OnlyDesk /\ desk' = SwarmTimerFires(desk, b)
    BY <1>3, Zenon DEF SwarmTimeout, SwarmTimerFires, SetSwarm
  <2> QED BY <1>1, <2>1, SwarmTimeoutIsOK, OnlyDeskKeeps
<1>4. CASE WindowSlides(b)
  <2>1. desk.swarms[b].recent > 0 /\ OnlyDesk
    BY <1>4 DEF WindowSlides
  <2>2. desk' = WindowSlid(desk, b)
    <3>1. desk \in Desks
      BY <1>1 DEF DeskOK, DeskTypes
    <3> QED BY <1>4, <3>1 DEF WindowSlides, WindowSlid, SetSwarm, Desks
  <2> QED BY <1>1, <2>1, <2>2, WindowIsOK, OnlyDeskKeeps
<1> QED BY <1>2, <1>3, <1>4

-----------------------------------------------------------------------------
(* Spawning.                                                               *)

\* One agent is spawned: as nothing is known of it, nothing can be lost.
LEMMA SpawnOneKeeps ==
    ASSUME IInv, NEW a \in Agents, NEW m \in SingleModes, SpawnOne(a, m)
    PROVE  IInv'
<1>1. /\ run[a] = "none" /\ (m = "async" \/ batches < MaxBatches)
      /\ run' = [run EXCEPT ![a] = "live"] /\ mode' = [mode EXCEPT ![a] = m]
      /\ batch' = IF m = "async" THEN batch ELSE Append(batch, a)
      /\ partial' = partial /\ batches' = batches /\ desk' = desk
      /\ consumed' = consumed /\ waiting' = waiting /\ settled' = settled /\ announced' = announced
      /\ answered' = answered /\ lingered' = lingered /\ recovered' = recovered
  BY DEF SpawnOne, reading, history
<1>2. Types
  BY DEF IInv
<1>3. /\ run'[a] = "live" /\ mode'[a] = m
      /\ \A x \in Agents : x # a => run'[x] = run[x] /\ mode'[x] = mode[x]
  BY <1>1, <1>2 DEF Types
<1>4. /\ a \notin ToSet(batch) /\ announced[a] = 0 /\ waiting[a] = 0 /\ mode[a] = "async"
      /\ Nowhere(desk, a)
  BY <1>1 DEF IInv, Spawned
<1>5. /\ batch' \in Seq(Agents) /\ IsInjective(batch')
      /\ ToSet(batch') = IF m = "async" THEN ToSet(batch) ELSE ToSet(batch) \cup {a}
  <2>1. batch \in Seq(Agents) /\ IsInjective(batch)
    BY <1>2 DEF Types
  <2> QED BY <1>1, <1>4, <2>1, Appended
<1>6. m \in {"async", "smart", "group", "swarm"}
  BY ModesAssumption
<1>7. Swarmers \subseteq Swarmers' /\ Swarmers' \subseteq Swarmers \cup {a}
  BY <1>3, <1>4 DEF Swarmers
<1>8. Types'
  <2>1. run' \in [Agents -> Runs] /\ mode' \in [Agents -> {"async", "smart", "group", "swarm"}]
    BY <1>1, <1>2, <1>6 DEF Types, Runs
  <2> QED BY <1>1, <1>2, <1>5, <2>1 DEF Types
<1>9. DeskInv'
  BY <1>1, <1>7, DeskOKGrows DEF IInv, DeskInv
<1>10. Spawned'
  <2>1. batch' # <<>> => batches' < MaxBatches
    BY <1>1 DEF IInv, Spawned
  <2>2. ASSUME NEW x \in Agents
        PROVE  /\ run'[x] = "none" => /\ mode'[x] = "async" /\ announced'[x] = 0 /\ waiting'[x] = 0
                                      /\ Nowhere(desk', x)
               /\ x \in ToSet(batch') => run'[x] # "none" /\ mode'[x] # "async"
               /\ run'[x] = "ended" => x \in lingered'
    <3>1. CASE x = a
      BY <1>1, <1>3, <1>4, <1>5, <3>1
    <3>2. CASE x # a
      BY <1>1, <1>3, <1>5, <3>2 DEF IInv, Spawned
    <3> QED BY <3>1, <3>2
  <2> QED BY <2>1, <2>2 DEF Spawned
<1>11. Quiet'
  <2>1. a \notin answered \ lingered
    BY <1>1 DEF IInv, Quiet
  <2> QED BY <1>1, <1>2, <1>3, <2>1 DEF IInv, Quiet, Types
<1>12. Single'
  <2>1. ASSUME NEW x \in Ordinary'
        PROVE  /\ announced'[x] <= 1 /\ Once(desk', x)
               /\ Early(x)' => announced'[x] = 0
               /\ Early(x)' \/ announced'[x] # 0 => Nowhere(desk', x)
    <3>1. CASE x = a
      BY <1>1, <1>4, <3>1, NowhereIsOnce
    <3>2. CASE x # a
      <4>1. x \in Ordinary
        BY <1>1, <1>7, <2>1 DEF Ordinary
      <4>2. Early(x)' <=> Early(x)
        BY <1>3, <1>5, <3>2, <4>1 DEF Early, Ordinary
      <4> QED BY <1>1, <4>1, <4>2 DEF IInv, Single
    <3> QED BY <3>1, <3>2
  <2> QED BY <2>1 DEF Single
<1>13. Remembered'
  BY <1>1, <1>3, <1>5 DEF IInv, Remembered
<1> QED BY <1>8, <1>9, <1>10, <1>11, <1>12, <1>13 DEF IInv

\* A crew or swarm of which not everybody could be spawned stays in the batch.
LEMMA DispatchFailsKeeps ==
    ASSUME IInv, NEW q \in Orders, NEW m \in DispatchModes, DispatchFails(q, m)
    PROVE  IInv'
<1>1. PICK running \in SUBSET ToSet(q) :
        /\ run' = [a \in Agents |-> IF a \in running THEN "ended"
                                    ELSE IF a \in ToSet(q) THEN "reported" ELSE run[a]]
        /\ lingered' = lingered \cup running
  BY DEF DispatchFails
<1>2. /\ New(q) /\ batches < MaxBatches
      /\ mode' = [a \in Agents |-> IF a \in ToSet(q) THEN m ELSE mode[a]]
      /\ batch' = batch \o q /\ partial' = TRUE /\ batches' = batches /\ desk' = desk
      /\ consumed' = consumed /\ waiting' = waiting /\ settled' = settled /\ announced' = announced
      /\ answered' = answered /\ recovered' = recovered
  BY DEF DispatchFails, reading
<1>3. Types
  BY DEF IInv
<1>4. q \in Seq(Agents) /\ IsInjective(q) /\ ToSet(q) \subseteq Agents
  BY OrdersAreSequences DEF ToSet
<1>5. \A x \in Agents :
        /\ run'[x] = IF x \in running THEN "ended" ELSE IF x \in ToSet(q) THEN "reported" ELSE run[x]
        /\ mode'[x] = IF x \in ToSet(q) THEN m ELSE mode[x]
  BY <1>1, <1>2
<1>6. \A x \in ToSet(q) : /\ run[x] = "none" /\ x \notin ToSet(batch) /\ announced[x] = 0
                          /\ waiting[x] = 0 /\ mode[x] = "async" /\ Nowhere(desk, x)
  BY <1>2, <1>4 DEF New, IInv, Spawned
<1>7. /\ batch' \in Seq(Agents) /\ IsInjective(batch')
      /\ ToSet(batch') = ToSet(batch) \cup ToSet(q)
  <2>1. batch \in Seq(Agents) /\ IsInjective(batch) /\ ToSet(batch) \cap ToSet(q) = {}
    BY <1>3, <1>6 DEF Types
  <2> QED BY <1>2, <1>4, <2>1, Concatenated
<1>8. m \in {"smart", "group", "swarm"}
  BY ModesAssumption
<1>9. Swarmers \subseteq Swarmers' /\ Swarmers' \subseteq Swarmers \cup ToSet(q)
  BY <1>5, <1>6 DEF Swarmers
<1>10. Types'
  <2>1. /\ run' \in [Agents -> Runs] /\ mode' \in [Agents -> {"async", "smart", "group", "swarm"}]
        /\ lingered' \subseteq Agents /\ partial' \in BOOLEAN
    <3>1. run' \in [Agents -> Runs]
      BY <1>1, <1>3 DEF Types, Runs
    <3>2. mode' \in [Agents -> {"async", "smart", "group", "swarm"}]
      BY <1>2, <1>3, <1>8 DEF Types
    <3>3. lingered' \subseteq Agents
      BY <1>1, <1>3, <1>4 DEF Types
    <3>4. partial' \in BOOLEAN
      BY <1>2, Zenon
    <3> QED BY <3>1, <3>2, <3>3, <3>4
  <2> QED BY <1>2, <1>3, <1>7, <2>1 DEF Types
<1>11. DeskInv'
  BY <1>2, <1>9, DeskOKGrows DEF IInv, DeskInv
<1>12. Spawned'
  <2>1. ASSUME NEW x \in Agents
        PROVE  /\ run'[x] = "none" => /\ mode'[x] = "async" /\ announced'[x] = 0 /\ waiting'[x] = 0
                                      /\ Nowhere(desk', x)
               /\ x \in ToSet(batch') => run'[x] # "none" /\ mode'[x] # "async"
               /\ run'[x] = "ended" => x \in lingered'
    <3>1. CASE x \in ToSet(q)
      BY <1>1, <1>5, <1>8, <3>1
    <3>2. CASE x \notin ToSet(q)
      BY <1>1, <1>2, <1>5, <1>7, <3>2 DEF IInv, Spawned
    <3> QED BY <3>1, <3>2
  <2> QED BY <1>2, <2>1 DEF Spawned
<1>13. Quiet'
  <2>1. \A x \in answered' \ lingered' : x \in answered \ lingered /\ x \in Agents
    BY <1>1, <1>2, <1>3 DEF Types
  <2>2. \A x \in answered \ lingered : run[x] = "reported" /\ x \notin ToSet(q)
    BY <1>6 DEF IInv, Quiet
  <2>3. \A x \in answered' \ lingered' : run'[x] = "reported"
    BY <1>1, <1>5, <2>1, <2>2
  <2> QED BY <1>2, <2>1, <2>3 DEF IInv, Quiet
<1>14. Single'
  <2>1. ASSUME NEW x \in Ordinary'
        PROVE  /\ announced'[x] <= 1 /\ Once(desk', x)
               /\ Early(x)' => announced'[x] = 0
               /\ Early(x)' \/ announced'[x] # 0 => Nowhere(desk', x)
    <3>1. CASE x \in ToSet(q)
      BY <1>2, <1>6, <3>1, NowhereIsOnce
    <3>2. CASE x \notin ToSet(q)
      <4>1. x \in Ordinary
        BY <1>1, <1>2, <1>9, <2>1 DEF Ordinary
      <4>2. Early(x)' <=> Early(x)
        BY <1>1, <1>5, <1>7, <3>2, <4>1 DEF Early, Ordinary
      <4> QED BY <1>2, <4>1, <4>2 DEF IInv, Single
    <3> QED BY <3>1, <3>2
  <2> QED BY <2>1 DEF Single
<1>15. Remembered'
  BY <1>1, <1>2, <1>5, <1>7 DEF IInv, Remembered
<1> QED BY <1>10, <1>11, <1>12, <1>13, <1>14, <1>15 DEF IInv

-----------------------------------------------------------------------------
(* The end of a batch.                                                     *)

\* The batch is finalised together with the agents Q that are spawned for it.
\* Those of its members who have completed were nowhere before.
LEMMA FlushKeeps ==
    ASSUME IInv, NEW Q \in SUBSET Agents, \A x \in Q : run[x] = "none",
           NEW k \in Seq(Agents), ToSet(k) = ToSet(batch) \cup Q, batches < MaxBatches,
           desk' = Finalize(k, mode', partial, batches + 1),
           batch' = <<>>, partial' = FALSE, batches' = batches + 1,
           run' \in [Agents -> Runs], mode' \in [Agents -> {"async", "smart", "group", "swarm"}],
           \A x \in Agents : /\ run'[x] = IF x \in Q THEN "live" ELSE run[x]
                             /\ x \notin Q => mode'[x] = mode[x]
                             /\ x \in Q => mode'[x] # "async",
           UNCHANGED <<reading, announced, history>>
    PROVE  IInv'
<1> DEFINE A == {a \in ToSet(k) : Due(a)}
           b == batches + 1
<1>1. /\ consumed' = consumed /\ waiting' = waiting /\ settled' = settled /\ announced' = announced
      /\ answered' = answered /\ lingered' = lingered /\ recovered' = recovered
  BY DEF reading, history
<1>2. Types
  BY DEF IInv
<1>3. batches \in Nat /\ b \in Batches
  BY <1>2, BoundsAssumption DEF Types, Batches
<1>4. \A x \in Q : /\ x \notin ToSet(batch) /\ announced[x] = 0 /\ waiting[x] = 0
                   /\ mode[x] = "async" /\ Nowhere(desk, x)
  BY DEF IInv, Spawned
<1>5. Swarmers \subseteq Swarmers' /\ Swarmers' \subseteq Swarmers \cup Q /\ Swarmers' \in SUBSET Agents
  BY <1>4 DEF Swarmers
<1>6. ToSet(batch') = {} /\ batch' \in Seq(Agents) /\ IsInjective(batch')
  BY EmptyBatch
<1>7. TakesIn(desk, desk', A, Swarmers', b)
  <2>1. DeskOK(desk, Swarmers', batches)
    BY <1>5, DeskOKGrows DEF IInv, DeskInv
  <2>2. \A a \in Agents : mode'[a] = "swarm" => a \in Swarmers'
    BY DEF Swarmers
  <2>3. \A a \in ToSet(k) : mode'[a] \in {"smart", "group", "swarm"}
    <3>1. \A a \in ToSet(k) : a \in Agents /\ mode'[a] # "async"
      BY DEF IInv, Spawned, ToSet
    <3> QED BY <3>1
  <2>4. partial \in BOOLEAN
    BY <1>2 DEF Types
  <2> HIDE DEF A, b
  <2>5. b = batches + 1
    BY DEF b
  <2>6. TakesIn(desk, Finalize(k, mode', partial, b), {a \in ToSet(k) : Due(a)}, Swarmers', b)
    BY <1>3, <1>5, <2>1, <2>2, <2>3, <2>4, <2>5, FinalizeIsOK
  <2> QED BY <2>6 DEF A, b
<1>8. \A x \in A : /\ x \in ToSet(batch) /\ x \notin Q
                   /\ run[x] \in {"ended", "reported"} /\ ~ consumed[x]
  BY DEF Due
<1>9. \A x \in Agents : x \in ToSet(batch) /\ run[x] = "reported" /\ ~ consumed[x] => x \in A
  BY DEF Due
<1> HIDE DEF A
<1>10. /\ DeskOK(desk', Swarmers', b) /\ Covered(desk) \cup A \subseteq Covered(desk')
       /\ \A x \in Agents \ Swarmers' : /\ x \notin A => Keeps(desk, desk', x)
                                        /\ Nowhere(desk, x) => Once(desk', x)
  BY <1>7 DEF TakesIn
<1>11. Types'
  <2>1. partial' \in BOOLEAN
    BY Zenon
  <2>2. batches' \in 0 .. MaxBatches
    BY <1>3, BoundsAssumption
  <2> QED BY <1>1, <1>2, <1>6, <2>1, <2>2 DEF Types
<1>12. DeskInv'
  BY <1>10 DEF DeskInv
<1>13. Spawned'
  <2>1. ASSUME NEW x \in Agents, run'[x] = "none"
        PROVE  /\ mode'[x] = "async" /\ announced'[x] = 0 /\ waiting'[x] = 0
               /\ Nowhere(desk', x)
    <3>1. x \notin Q /\ run[x] = "none"
      BY <2>1
    <3>2. mode'[x] = "async" /\ announced[x] = 0 /\ waiting[x] = 0 /\ Nowhere(desk, x)
      BY <3>1 DEF IInv, Spawned
    <3>3. x \notin A /\ x \notin Swarmers'
      BY <1>8, <3>1, <3>2 DEF Swarmers
    <3> QED BY <1>1, <1>10, <3>2, <3>3 DEF Keeps
  <2>2. \A x \in Agents : run'[x] = "ended" => x \in lingered'
    BY <1>1 DEF IInv, Spawned
  <2> QED BY <1>6, <2>1, <2>2 DEF Spawned
<1>14. Quiet'
  <2>1. \A x \in answered \ lingered : x \in Agents /\ x \notin Q
    BY <1>2 DEF IInv, Quiet, Types
  <2> QED BY <1>1, <2>1 DEF IInv, Quiet
<1>15. Single'
  <2>1. ASSUME NEW x \in Ordinary'
        PROVE  /\ announced'[x] <= 1 /\ Once(desk', x)
               /\ Early(x)' => announced'[x] = 0
               /\ Early(x)' \/ announced'[x] # 0 => Nowhere(desk', x)
    <3>1. x \in Ordinary /\ x \in Agents \ Swarmers'
      BY <1>1, <1>5, <2>1 DEF Ordinary
    <3>2. Early(x)' => x \in Q \/ run[x] \in {"none", "live"}
      BY <1>6, <3>1 DEF Early
    <3>3. /\ announced[x] <= 1 /\ Once(desk, x)
          /\ Early(x) => announced[x] = 0
          /\ Early(x) \/ announced[x] # 0 => Nowhere(desk, x)
      BY <3>1 DEF IInv, Single
    <3>4. CASE x \in A
      <4>1. Early(x) /\ ~ Early(x)'
        BY <1>8, <3>2, <3>4 DEF Early
      <4> QED BY <1>1, <1>10, <3>1, <3>3, <4>1
    <3>5. CASE x \notin A
      <4>1. Early(x)' => Early(x)
        BY <3>2 DEF Early
      <4> QED BY <1>1, <1>10, <3>1, <3>3, <3>5, <4>1 DEF Keeps
    <3> QED BY <3>4, <3>5
  <2> QED BY <2>1 DEF Single
<1>16. Remembered'
  <2>1. ASSUME NEW x \in Agents, run'[x] = "reported", ~ consumed'[x], announced'[x] = 0
        PROVE  x \in Covered(desk')
    <3>1. run[x] = "reported" /\ ~ consumed[x] /\ announced[x] = 0
      BY <1>1, <2>1
    <3>2. x \in ToSet(batch) \cup Covered(desk)
      BY <3>1 DEF IInv, Remembered
    <3> QED BY <1>9, <1>10, <3>1, <3>2
  <2> QED BY <2>1 DEF Remembered
<1> QED BY <1>11, <1>12, <1>13, <1>14, <1>15, <1>16 DEF IInv

LEMMA DispatchKeeps ==
    ASSUME IInv, NEW q \in Orders, NEW m \in DispatchModes, Dispatch(q, m)
    PROVE  IInv'
<1> DEFINE modes == [a \in Agents |-> IF a \in ToSet(q) THEN m ELSE mode[a]]
           Q == ToSet(q)
           k == batch \o q
<1>1. /\ New(q) /\ batches < MaxBatches
      /\ run' = [a \in Agents |-> IF a \in ToSet(q) THEN "live" ELSE run[a]]
      /\ mode' = modes
      /\ desk' = Finalize(k, mode', partial, batches + 1)
      /\ batch' = <<>> /\ partial' = FALSE /\ batches' = batches + 1
      /\ UNCHANGED <<reading, announced, history>>
  BY Zenon DEF Dispatch
<1>2. Types
  BY DEF IInv
<1>3. q \in Seq(Agents) /\ IsInjective(q) /\ Q \in SUBSET Agents /\ \A x \in Q : run[x] = "none"
  BY <1>1, OrdersAreSequences DEF ToSet, New
<1>4. k \in Seq(Agents) /\ ToSet(k) = ToSet(batch) \cup Q
  <2>1. \A x \in Q : x \notin ToSet(batch)
    BY <1>3 DEF IInv, Spawned
  <2>2. batch \in Seq(Agents) /\ IsInjective(batch) /\ ToSet(batch) \cap ToSet(q) = {}
    BY <1>2, <2>1 DEF Types
  <2> QED BY <1>3, <2>2, Concatenated
<1>5. m \in {"smart", "group", "swarm"}
  BY ModesAssumption
<1>6. run' \in [Agents -> Runs] /\ mode' \in [Agents -> {"async", "smart", "group", "swarm"}]
  BY <1>1, <1>2, <1>5 DEF Types, Runs
<1>7. \A x \in Agents : /\ run'[x] = IF x \in Q THEN "live" ELSE run[x]
                        /\ x \notin Q => mode'[x] = mode[x]
                        /\ x \in Q => mode'[x] # "async"
  BY <1>1, <1>5
<1> HIDE DEF modes, Q, k
<1> QED BY <1>1, <1>3, <1>4, <1>6, <1>7, FlushKeeps

LEMMA FinalizeBatchKeeps ==
    ASSUME IInv, FinalizeBatch
    PROVE  IInv'
<1>1. /\ batch # <<>> /\ desk' = Finalize(batch, mode', partial, batches + 1)
      /\ batch' = <<>> /\ partial' = FALSE /\ batches' = batches + 1
      /\ run' = run /\ mode' = mode
      /\ UNCHANGED <<reading, announced, history>>
  BY Zenon DEF FinalizeBatch
<1>2. batch \in Seq(Agents) /\ ToSet(batch) = ToSet(batch) \cup {} /\ {} \in SUBSET Agents
  BY DEF IInv, Types
<1>3. batches < MaxBatches
  BY <1>1 DEF IInv, Spawned
<1>4. run' \in [Agents -> Runs] /\ mode' \in [Agents -> {"async", "smart", "group", "swarm"}]
  BY <1>1 DEF IInv, Types
<1>5. \A x \in Agents : /\ run'[x] = IF x \in {} THEN "live" ELSE run[x]
                        /\ x \notin {} => mode'[x] = mode[x]
                        /\ x \in {} => mode'[x] # "async"
  BY <1>1
<1> QED BY <1>1, <1>2, <1>3, <1>4, <1>5, FlushKeeps

-----------------------------------------------------------------------------
(* The end of an agent.                                                    *)

\* An agent reports: its completion is consumed, left to its batch, or routed.
LEMMA ReportedKeeps ==
    ASSUME IInv, NEW a \in Agents, Finish(a) \/ Report(a)
    PROVE  IInv'
<1> DEFINE silent == consumed[a] \/ a \in ToSet(batch)
           A == IF silent THEN {} ELSE {a}
<1>1. /\ run[a] \in {"live", "ended"} /\ run' = [run EXCEPT ![a] = "reported"] /\ mode' = mode
      /\ batch' = batch /\ partial' = partial /\ batches' = batches
      /\ consumed' = consumed /\ waiting' = waiting /\ settled' = settled /\ announced' = announced
      /\ answered' = answered /\ lingered' = lingered /\ recovered' = recovered
      /\ desk' = OnComplete(a)
  BY DEF Finish, Report, Reported, batching, reading, history
<1>2. Types /\ DeskOK(desk, Swarmers, batches) /\ batches \in Nat
  BY DEF IInv, DeskInv, Types
<1>3. run'[a] = "reported" /\ \A x \in Agents : x # a => run'[x] = run[x]
  BY <1>1, <1>2 DEF Types
<1>4. IF silent THEN desk' = desk ELSE desk' = Route(desk, a)
  BY <1>1 DEF OnComplete
<1>5. /\ DeskOK(desk', Swarmers, batches) /\ Covered(desk) \cup A \subseteq Covered(desk')
      /\ \A x \in Agents \ Swarmers : /\ x \notin A => Keeps(desk, desk', x)
                                      /\ Nowhere(desk, x) => Once(desk', x)
  <2>1. CASE silent
    BY <1>2, <1>4, <2>1, NowhereIsOnce DEF Keeps
  <2>2. CASE ~ silent
    <3>1. TakesIn(desk, Route(desk, a), {a}, Swarmers, batches)
      BY <1>2, RouteIsOK
    <3> QED BY <1>4, <2>2, <3>1 DEF TakesIn
  <2> QED BY <2>1, <2>2
<1> HIDE DEF A
<1>6. Swarmers' = Swarmers /\ Ordinary' = Ordinary
  BY <1>1 DEF Swarmers, Ordinary
<1>7. Types'
  <2>1. run' \in [Agents -> Runs]
    BY <1>1, <1>2 DEF Types, Runs
  <2> QED BY <1>1, <1>2, <2>1 DEF Types
<1>8. DeskInv'
  BY <1>1, <1>5, <1>6 DEF DeskInv
<1>9. Spawned'
  <2>1. ASSUME NEW x \in Agents
        PROVE  /\ run'[x] = "none" => /\ mode'[x] = "async" /\ announced'[x] = 0 /\ waiting'[x] = 0
                                      /\ Nowhere(desk', x)
               /\ x \in ToSet(batch') => run'[x] # "none" /\ mode'[x] # "async"
               /\ run'[x] = "ended" => x \in lingered'
    <3>1. CASE x = a
      BY <1>1, <1>3, <3>1 DEF IInv, Spawned
    <3>2. CASE x # a
      <4>1. run[x] = "none" => x \notin Swarmers /\ x \notin A
        BY <3>2 DEF IInv, Spawned, Swarmers, A
      <4>2. run[x] = "none" => Nowhere(desk', x)
        BY <1>5, <4>1 DEF IInv, Spawned, Keeps
      <4> QED BY <1>1, <1>3, <3>2, <4>2 DEF IInv, Spawned
    <3> QED BY <3>1, <3>2
  <2> QED BY <1>1, <2>1 DEF IInv, Spawned
<1>10. Quiet'
  <2>1. \A x \in answered \ lingered : x \in Agents /\ run'[x] = "reported"
    BY <1>2, <1>3 DEF IInv, Quiet, Types
  <2> QED BY <1>1, <2>1 DEF IInv, Quiet
<1>11. Single'
  <2>1. ASSUME NEW x \in Ordinary
        PROVE  /\ announced[x] <= 1 /\ Once(desk', x)
               /\ Early(x)' => announced[x] = 0
               /\ Early(x)' \/ announced[x] # 0 => Nowhere(desk', x)
    <3>1. /\ announced[x] <= 1 /\ Once(desk, x)
          /\ Early(x) => announced[x] = 0
          /\ Early(x) \/ announced[x] # 0 => Nowhere(desk, x)
      BY DEF IInv, Single
    <3>2. x \in Agents \ Swarmers /\ x \notin lingered
      BY DEF Ordinary
    <3>3. Early(x)' => Early(x)
      BY <1>1, <1>3, <3>2 DEF Early
    <3>4. CASE x \notin A
      BY <1>5, <3>1, <3>2, <3>3, <3>4 DEF Keeps
    <3>5. CASE x \in A
      <4>1. x = a /\ a \notin ToSet(batch)
        BY <3>5 DEF A
      <4>2. run[a] = "live" /\ Early(x)
        BY <1>1, <3>2, <4>1 DEF IInv, Spawned, Early
      <4>3. ~ Early(x)'
        BY <1>1, <1>3, <4>1 DEF Early
      <4> QED BY <1>5, <3>1, <3>2, <4>2, <4>3
    <3> QED BY <3>4, <3>5
  <2> QED BY <1>1, <1>6, <2>1 DEF Single
<1>12. Remembered'
  <2>1. ASSUME NEW x \in Agents, run'[x] = "reported", ~ consumed[x], announced[x] = 0
        PROVE  x \in ToSet(batch) \cup Covered(desk')
    <3>1. CASE x = a
      BY <1>5, <2>1, <3>1 DEF A
    <3>2. CASE x # a
      BY <1>3, <1>5, <2>1, <3>2 DEF IInv, Remembered
    <3> QED BY <3>1, <3>2
  <2> QED BY <1>1, <2>1 DEF Remembered
<1> QED BY <1>7, <1>8, <1>9, <1>10, <1>11, <1>12 DEF IInv

LEMMA StopKeeps ==
    ASSUME IInv, NEW a \in Agents, Stop(a)
    PROVE  IInv'
<1>1. /\ run[a] = "live" /\ run' = [run EXCEPT ![a] = "ended"] /\ lingered' = lingered \cup {a}
      /\ mode' = mode /\ desk' = desk
      /\ batch' = batch /\ partial' = partial /\ batches' = batches
      /\ consumed' = consumed /\ waiting' = waiting /\ settled' = settled /\ announced' = announced
      /\ answered' = answered /\ recovered' = recovered
  BY DEF Stop, batching, reading
<1>2. Types
  BY DEF IInv
<1>3. run'[a] = "ended" /\ \A x \in Agents : x # a => run'[x] = run[x]
  BY <1>1, <1>2 DEF Types
<1>4. Types'
  <2>1. run' \in [Agents -> Runs] /\ lingered' \subseteq Agents
    BY <1>1, <1>2 DEF Types, Runs
  <2> QED BY <1>1, <1>2, <2>1 DEF Types
<1>5. DeskInv'
  BY <1>1 DEF IInv, DeskInv, Swarmers
<1>6. Spawned'
  BY <1>1, <1>3 DEF IInv, Spawned
<1>7. Quiet'
  <2>1. \A x \in answered' \ lingered' : x \in answered \ lingered /\ x \in Agents /\ x # a
    BY <1>1, <1>2 DEF Types
  <2> QED BY <1>1, <1>3, <2>1 DEF IInv, Quiet
<1>8. Single'
  <2>1. \A x \in Ordinary' : x \in Ordinary /\ x \in Agents /\ x # a
    BY <1>1 DEF Ordinary, Swarmers
  <2>2. \A x \in Ordinary' : Early(x)' => Early(x)
    BY <1>1, <1>3, <2>1 DEF Early
  <2> QED BY <1>1, <2>1, <2>2 DEF IInv, Single
<1>9. Remembered'
  BY <1>1, <1>3 DEF IInv, Remembered
<1> QED BY <1>4, <1>5, <1>6, <1>7, <1>8, <1>9 DEF IInv

-----------------------------------------------------------------------------
(* get_subagent_result.                                                    *)

\* The desk and what is said of it when a call consumes the result of a.
LEMMA ConsumingKeeps ==
    ASSUME IInv, NEW a \in Agents, run[a] # "none",
           consumed' = [consumed EXCEPT ![a] = TRUE], desk' = Cancel(desk, <<"agent", a>>),
           \A x \in Agents : x # a => waiting'[x] = waiting[x],
           UNCHANGED <<run, mode, batching, announced, lingered, recovered>>
    PROVE  DeskInv' /\ Spawned' /\ Single' /\ Remembered'
<1>1. /\ run' = run /\ mode' = mode /\ announced' = announced /\ batch' = batch
      /\ batches' = batches /\ lingered' = lingered /\ recovered' = recovered
  BY DEF batching
<1>2. Types /\ DeskOK(desk, Swarmers, batches)
  BY DEF IInv, DeskInv
<1>3. consumed'[a] /\ \A x \in Agents : x # a => consumed'[x] = consumed[x]
  BY <1>2 DEF Types
<1>4. /\ DeskOK(desk', Swarmers, batches)
      /\ Covered(desk) \subseteq Covered(desk') \cup {a}
      /\ \A x : Keeps(desk, desk', x)
  BY <1>2, CancelIsOK
<1>5. Swarmers' = Swarmers /\ Ordinary' = Ordinary /\ \A x : Early(x)' <=> Early(x)
  BY <1>1 DEF Swarmers, Ordinary, Early
<1>6. DeskInv'
  BY <1>1, <1>4, <1>5 DEF DeskInv
<1>7. Spawned'
  BY <1>1, <1>4 DEF IInv, Spawned, Keeps
<1>8. Single'
  BY <1>1, <1>4, <1>5 DEF IInv, Single, Keeps
<1>9. Remembered'
  BY <1>1, <1>3, <1>4 DEF IInv, Remembered
<1> QED BY <1>6, <1>7, <1>8, <1>9

LEMMA WaitKeeps ==
    ASSUME IInv, NEW a \in Agents, Wait(a)
    PROVE  IInv'
<1>1. /\ run[a] = "live" /\ waiting[a] < MaxWaiters
      /\ waiting' = [waiting EXCEPT ![a] = @ + 1]
      /\ consumed' = [consumed EXCEPT ![a] = TRUE]
      /\ desk' = Cancel(desk, <<"agent", a>>)
      /\ UNCHANGED <<run, mode, batching, settled, announced, history>>
  BY DEF Wait
<1>2. /\ batch' = batch /\ partial' = partial /\ batches' = batches /\ run' = run /\ mode' = mode
      /\ settled' = settled /\ announced' = announced
      /\ answered' = answered /\ lingered' = lingered /\ recovered' = recovered
  BY <1>1 DEF batching, history
<1>3. Types
  BY DEF IInv
<1>4. /\ waiting[a] \in 0 .. MaxWaiters /\ waiting'[a] = waiting[a] + 1
      /\ \A x \in Agents : x # a => waiting'[x] = waiting[x] /\ consumed'[x] = consumed[x]
  BY <1>1, <1>3 DEF Types
<1>5. DeskInv' /\ Spawned' /\ Single' /\ Remembered'
  BY <1>1, <1>2, <1>4, ConsumingKeeps DEF batching
<1>6. Types'
  <2>1. waiting[a] + 1 \in 0 .. MaxWaiters
    BY <1>1, <1>4, BoundsAssumption
  <2>2. waiting' \in [Agents -> 0 .. MaxWaiters]
    BY <1>1, <1>3, <2>1 DEF Types
  <2>3. consumed' \in [Agents -> BOOLEAN]
    BY <1>1, <1>3 DEF Types
  <2>4. \A x \in settled' : waiting'[x] > 0
    BY <1>2, <1>3, <1>4 DEF Types
  <2> QED BY <1>2, <1>3, <2>2, <2>3, <2>4 DEF Types
<1>7. Quiet'
  <2>1. \A x \in answered \ lingered : x \in Agents /\ x # a
    BY <1>1, <1>3 DEF IInv, Quiet, Types
  <2> QED BY <1>2, <1>4, <2>1 DEF IInv, Quiet
<1> QED BY <1>5, <1>6, <1>7 DEF IInv

LEMMA WaitReturnsKeeps ==
    ASSUME IInv, NEW a \in Agents, WaitReturns(a)
    PROVE  IInv'
<1>1. /\ run[a] = "reported" /\ waiting[a] > 0
      /\ waiting' = [waiting EXCEPT ![a] = @ - 1]
      /\ settled' = IF waiting[a] = 1 THEN settled \ {a} ELSE settled \cup {a}
      /\ consumed' = [consumed EXCEPT ![a] = TRUE]
      /\ desk' = Cancel(desk, <<"agent", a>>)
      /\ answered' = answered \cup {a}
      /\ UNCHANGED <<run, mode, batching, announced, lingered, recovered>>
  BY DEF WaitReturns, LastWaiter
<1>2. /\ batch' = batch /\ partial' = partial /\ batches' = batches /\ run' = run /\ mode' = mode
      /\ announced' = announced /\ lingered' = lingered /\ recovered' = recovered
  BY <1>1 DEF batching
<1>3. Types
  BY DEF IInv
<1>4. /\ waiting[a] \in 0 .. MaxWaiters /\ waiting'[a] = waiting[a] - 1 /\ consumed'[a]
      /\ \A x \in Agents : x # a => waiting'[x] = waiting[x] /\ consumed'[x] = consumed[x]
  BY <1>1, <1>3 DEF Types
<1>5. DeskInv' /\ Spawned' /\ Single' /\ Remembered'
  BY <1>1, <1>4, ConsumingKeeps
<1>6. Types'
  <2>1. waiting[a] - 1 \in 0 .. MaxWaiters
    BY <1>1, <1>4, BoundsAssumption
  <2>2. waiting' \in [Agents -> 0 .. MaxWaiters]
    BY <1>1, <1>3, <2>1 DEF Types
  <2>3. consumed' \in [Agents -> BOOLEAN] /\ answered' \subseteq Agents /\ settled' \subseteq Agents
    BY <1>1, <1>3 DEF Types
  <2>4. \A x \in settled' : waiting'[x] > 0
    <3>1. ASSUME NEW x \in settled' PROVE waiting'[x] > 0
      <4>1. CASE x = a
        BY <1>1, <1>4, <3>1, <4>1
      <4>2. CASE x # a
        BY <1>1, <1>3, <1>4, <3>1, <4>2 DEF Types
      <4> QED BY <4>1, <4>2
    <3> QED BY <3>1
  <2> QED BY <1>2, <1>3, <2>2, <2>3, <2>4 DEF Types
<1>7. Quiet'
  <2>1. ASSUME NEW x \in answered' \ lingered'
        PROVE  run'[x] = "reported" /\ consumed'[x] /\ (waiting'[x] = 0 \/ x \in settled')
    <3>1. CASE x = a
      BY <1>1, <1>2, <1>4, <3>1
    <3>2. CASE x # a
      <4>1. x \in answered \ lingered /\ x \in Agents
        BY <1>1, <1>2, <1>3, <2>1, <3>2 DEF Types
      <4>2. x \in settled => x \in settled'
        BY <1>1, <3>2
      <4> QED BY <1>2, <1>4, <3>2, <4>1, <4>2 DEF IInv, Quiet
    <3> QED BY <3>1, <3>2
  <2> QED BY <2>1 DEF Quiet
<1> QED BY <1>5, <1>6, <1>7 DEF IInv

LEMMA ReadKeeps ==
    ASSUME IInv, NEW a \in Agents, Read(a)
    PROVE  IInv'
<1>1. /\ NewTurn /\ run[a] \in {"ended", "reported"}
      /\ consumed' = [consumed EXCEPT ![a] = TRUE]
      /\ desk' = Cancel(desk, <<"agent", a>>)
      /\ answered' = answered \cup {a}
      /\ UNCHANGED <<run, mode, batching, waiting, settled, announced, lingered, recovered>>
  BY DEF Read
<1>2. /\ batch' = batch /\ partial' = partial /\ batches' = batches /\ run' = run /\ mode' = mode
      /\ waiting' = waiting /\ settled' = settled
      /\ announced' = announced /\ lingered' = lingered /\ recovered' = recovered
  BY <1>1 DEF batching
<1>3. Types
  BY DEF IInv
<1>4. consumed'[a] /\ \A x \in Agents : x # a => consumed'[x] = consumed[x]
  BY <1>1, <1>3 DEF Types
<1>5. DeskInv' /\ Spawned' /\ Single' /\ Remembered'
  BY <1>1, <1>2, ConsumingKeeps
<1>6. Types'
  <2>1. consumed' \in [Agents -> BOOLEAN] /\ answered' \subseteq Agents
    BY <1>1, <1>3 DEF Types
  <2> QED BY <1>2, <1>3, <2>1 DEF Types
<1>7. Quiet'
  <2>1. a \notin lingered => run[a] = "reported" /\ waiting[a] = 0
    BY <1>1 DEF IInv, Spawned, NewTurn
  <2>2. \A x \in answered : x \in Agents
    BY <1>3 DEF Types
  <2> QED BY <1>1, <1>2, <1>4, <2>1, <2>2 DEF IInv, Quiet
<1> QED BY <1>5, <1>6, <1>7 DEF IInv

\* The last waiter leaves and nobody got the result: what ended meanwhile is
\* posted, whatever onComplete did with it.
LEMMA CancelWaitKeeps ==
    ASSUME IInv, NEW a \in Agents, CancelWait(a)
    PROVE  IInv'
<1> DEFINE posts == Restores(a) /\ Recovers(a)
           A == IF posts THEN {a} ELSE {}
<1>1. /\ waiting[a] > 0 /\ waiting' = [waiting EXCEPT ![a] = @ - 1]
      /\ settled' = IF waiting[a] = 1 THEN settled \ {a} ELSE settled
      /\ consumed' = [consumed EXCEPT ![a] = ~ Restores(a)]
      /\ IF posts THEN desk' = Post(desk, <<"agent", a>>, {a}) /\ recovered' = recovered \cup {a}
         ELSE desk' = desk /\ recovered' = recovered
      /\ UNCHANGED <<run, mode, batching, announced, answered, lingered>>
  BY DEF CancelWait, PostIndividual, LastWaiter
<1>2. /\ batch' = batch /\ partial' = partial /\ batches' = batches /\ run' = run /\ mode' = mode
      /\ announced' = announced /\ answered' = answered /\ lingered' = lingered
  BY <1>1 DEF batching
<1>3. Types /\ DeskOK(desk, Swarmers, batches)
  BY DEF IInv, DeskInv
<1>4. /\ waiting[a] \in 0 .. MaxWaiters /\ waiting'[a] = waiting[a] - 1
      /\ consumed'[a] = ~ Restores(a)
      /\ \A x \in Agents : x # a => waiting'[x] = waiting[x] /\ consumed'[x] = consumed[x]
  BY <1>1, <1>3 DEF Types
<1>5. /\ DeskOK(desk', Swarmers, batches) /\ Covered(desk) \cup A \subseteq Covered(desk')
      /\ \A x \in Agents \ Swarmers : x \notin A => Keeps(desk, desk', x)
  <2>1. CASE posts
    <3>1. Fits(<<"agent", a>>, {a}, Swarmers)
      BY DEF Fits, Keys
    <3>2. TakesIn(desk, desk', {a}, Swarmers, batches)
      BY <1>1, <1>3, <2>1, <3>1, PostTakesIn
    <3> QED BY <2>1, <3>2 DEF TakesIn
  <2>2. CASE ~ posts
    BY <1>1, <1>3, <2>2 DEF Keeps
  <2> QED BY <2>1, <2>2
<1>6. run[a] # "none"
  BY <1>1 DEF IInv, Spawned
<1> HIDE DEF posts
<1>7. Swarmers' = Swarmers /\ (\A x : Early(x)' <=> Early(x)) /\ \A x \in Ordinary' : x \in Ordinary /\ x \notin A
  BY <1>1, <1>2 DEF Swarmers, Ordinary, Early
<1>8. Types'
  <2>1. waiting[a] - 1 \in 0 .. MaxWaiters
    BY <1>1, <1>4, BoundsAssumption
  <2>2. waiting' \in [Agents -> 0 .. MaxWaiters]
    BY <1>1, <1>3, <2>1 DEF Types
  <2>3. consumed' \in [Agents -> BOOLEAN]
    BY <1>1, <1>3 DEF Types, Restores
  <2>4. settled' \subseteq Agents /\ recovered' \subseteq Agents
    BY <1>1, <1>3 DEF Types
  <2>5. \A x \in settled' : waiting'[x] > 0
    <3>1. ASSUME NEW x \in settled' PROVE waiting'[x] > 0
      <4>1. CASE x = a
        BY <1>1, <1>4, <3>1, <4>1
      <4>2. CASE x # a
        BY <1>1, <1>3, <1>4, <3>1, <4>2 DEF Types
      <4> QED BY <4>1, <4>2
    <3> QED BY <3>1
  <2> QED BY <1>2, <1>3, <2>2, <2>3, <2>4, <2>5 DEF Types
<1>9. DeskInv'
  BY <1>2, <1>5, <1>7 DEF DeskInv
<1>10. Spawned'
  <2>1. ASSUME NEW x \in Agents, run[x] = "none"
        PROVE  mode[x] = "async" /\ announced[x] = 0 /\ waiting'[x] = 0 /\ Nowhere(desk', x)
    <3>1. x # a /\ x \notin A
      BY <1>6, <2>1
    <3>2. mode[x] = "async" /\ announced[x] = 0 /\ waiting[x] = 0 /\ Nowhere(desk, x)
      BY <2>1 DEF IInv, Spawned
    <3>3. x \notin Swarmers
      BY <3>2 DEF Swarmers
    <3> QED BY <1>4, <1>5, <3>1, <3>2, <3>3 DEF Keeps
  <2> QED BY <1>2, <2>1 DEF IInv, Spawned
<1>11. Quiet'
  <2>1. ASSUME NEW x \in answered \ lingered
        PROVE  run[x] = "reported" /\ consumed'[x] /\ (waiting'[x] = 0 \/ x \in settled')
    <3>1. x \in Agents /\ run[x] = "reported" /\ consumed[x] /\ (waiting[x] = 0 \/ x \in settled)
      BY <1>3 DEF IInv, Quiet, Types
    <3>2. CASE x = a
      <4>1. a \in settled /\ ~ Restores(a)
        BY <1>1, <3>1, <3>2 DEF Restores
      <4>2. consumed'[a]
        BY <1>4, <4>1, Zenon
      <4>3. waiting'[a] = 0 \/ a \in settled'
        BY <1>1, <1>4, <4>1
      <4> QED BY <3>1, <3>2, <4>2, <4>3
    <3>3. CASE x # a
      BY <1>1, <1>4, <3>1, <3>3
    <3> QED BY <3>2, <3>3
  <2> QED BY <1>2, <2>1 DEF Quiet
<1>12. Single'
  <2>1. \A x \in Ordinary' : x \in Ordinary /\ x \in Agents \ Swarmers /\ Keeps(desk, desk', x)
    BY <1>5, <1>7 DEF Ordinary
  <2> QED BY <1>2, <1>7, <2>1 DEF IInv, Single, Keeps
<1>13. Remembered'
  <2>1. ASSUME NEW x \in Agents, run[x] = "reported", ~ consumed'[x], announced[x] = 0
        PROVE  x \in ToSet(batch) \cup Covered(desk')
    <3>1. CASE x = a
      <4>1. Restores(a) /\ Recovers(a)
        BY <1>4, <2>1, <3>1 DEF Recovers
      <4> QED BY <1>5, <3>1, <4>1 DEF posts
    <3>2. CASE x # a
      BY <1>4, <1>5, <2>1, <3>2 DEF IInv, Remembered
    <3> QED BY <3>1, <3>2
  <2> QED BY <1>2, <2>1 DEF Remembered
<1> QED BY <1>8, <1>9, <1>10, <1>11, <1>12, <1>13 DEF IInv

-----------------------------------------------------------------------------
(* A message is sent.                                                      *)

LEMMA SendKeeps ==
    ASSUME IInv, NEW m \in desk.pending, Send(m)
    PROVE  IInv'
<1> DEFINE told == {a \in Agents : a \in m.recs /\ ~ consumed[a]}
<1>1. /\ desk' = Without(desk, {m})
      /\ announced' = [a \in Agents |->
                          announced[a] + IF a \in m.recs /\ ~ consumed[a] THEN 1 ELSE 0]
      /\ UNCHANGED <<run, mode, batching, reading, history>>
  BY Zenon DEF Send, Without
<1>2. /\ run' = run /\ mode' = mode /\ batch' = batch /\ partial' = partial /\ batches' = batches
      /\ consumed' = consumed /\ waiting' = waiting /\ settled' = settled
      /\ answered' = answered /\ lingered' = lingered /\ recovered' = recovered
  BY <1>1 DEF batching, reading, history
<1>3. Types /\ DeskOK(desk, Swarmers, batches)
  BY DEF IInv, DeskInv
<1>4. \A x \in Agents : /\ announced[x] \in Nat /\ announced'[x] \in Nat
                        /\ x \in told => announced'[x] = announced[x] + 1
                        /\ x \notin told => announced'[x] = announced[x]
  BY <1>1, <1>3 DEF Types
<1>5. /\ DeskOK(desk', Swarmers, batches)
      /\ \A x \in Covered(desk) : x \notin m.recs => x \in Covered(desk')
      /\ \A x : Keeps(desk, desk', x)
      /\ \A x : x \in m.recs /\ Once(desk, x) => Nowhere(desk', x)
  <2> DEFINE M == {m}
  <2>1. M \in SUBSET desk.pending /\ M = {m} /\ desk' = Without(desk, M)
    BY <1>1
  <2> HIDE DEF M
  <2>2. /\ DeskOK(desk', Swarmers, batches)
        /\ \A x \in Covered(desk) : (\A k \in M : x \notin k.recs) => x \in Covered(desk')
        /\ \A x : Keeps(desk, desk', x)
        /\ \A x, k : M = {k} /\ x \in k.recs /\ Once(desk, x) => Nowhere(desk', x)
    BY <1>3, <2>1, RemovalIsOK
  <2> QED BY <2>1, <2>2
<1>6. Swarmers' = Swarmers /\ Ordinary' = Ordinary /\ \A x : Early(x)' <=> Early(x)
  BY <1>2 DEF Swarmers, Ordinary, Early
<1>7. \A x \in told : x \in m.recs /\ ~ Nowhere(desk, x)
  BY DEF Nowhere
<1>8. Types'
  <2>1. announced' \in [Agents -> Nat]
    BY <1>1, <1>4
  <2> QED BY <1>2, <1>3, <2>1 DEF Types
<1>9. DeskInv'
  BY <1>2, <1>5, <1>6 DEF DeskInv
<1> HIDE DEF told
<1>10. Spawned'
  BY <1>2, <1>4, <1>5, <1>7 DEF IInv, Spawned, Keeps
<1>11. Quiet'
  BY <1>2 DEF IInv, Quiet
<1>12. Single'
  <2>1. ASSUME NEW x \in Ordinary
        PROVE  /\ announced'[x] <= 1 /\ Once(desk', x)
               /\ Early(x) => announced'[x] = 0
               /\ Early(x) \/ announced'[x] # 0 => Nowhere(desk', x)
    <3>1. /\ announced[x] <= 1 /\ Once(desk, x)
          /\ Early(x) => announced[x] = 0
          /\ Early(x) \/ announced[x] # 0 => Nowhere(desk, x)
      BY DEF IInv, Single
    <3>2. x \in Agents
      BY DEF Ordinary
    <3>3. CASE x \in told
      <4>1. ~ Early(x) /\ announced[x] = 0 /\ Nowhere(desk', x)
        BY <1>5, <1>7, <3>1, <3>3
      <4> QED BY <1>4, <3>2, <3>3, <4>1, NowhereIsOnce
    <3>4. CASE x \notin told
      BY <1>4, <1>5, <3>1, <3>2, <3>4 DEF Keeps
    <3> QED BY <3>3, <3>4
  <2> QED BY <1>6, <2>1 DEF Single
<1>13. Remembered'
  <2>1. ASSUME NEW x \in Agents, run[x] = "reported", ~ consumed[x], announced'[x] = 0
        PROVE  x \in ToSet(batch) \cup Covered(desk')
    <3>1. x \notin told /\ announced[x] = 0
      BY <1>4, <2>1
    <3>2. x \notin m.recs
      BY <2>1, <3>1 DEF told
    <3> QED BY <1>5, <2>1, <3>1, <3>2 DEF IInv, Remembered
  <2> QED BY <1>2, <2>1 DEF Remembered
<1> QED BY <1>8, <1>9, <1>10, <1>11, <1>12, <1>13 DEF IInv

-----------------------------------------------------------------------------
(* The theorems.                                                           *)

LEMMA StepKeeps == IInv /\ [Next]_vars => IInv'
<1> SUFFICES ASSUME IInv, [Next]_vars PROVE IInv'
  OBVIOUS
<1>1. CASE \E a \in Agents, m \in SingleModes : SpawnOne(a, m)
  BY <1>1, SpawnOneKeeps
<1>2. CASE \E a \in Agents : Finish(a) \/ Report(a)
  BY <1>2, ReportedKeeps
<1>3. CASE \E a \in Agents : Stop(a)
  BY <1>3, StopKeeps
<1>4. CASE \E a \in Agents : Wait(a) \/ WaitReturns(a) \/ CancelWait(a) \/ Read(a)
  BY <1>4, WaitKeeps, WaitReturnsKeeps, CancelWaitKeeps, ReadKeeps
<1>5. CASE \E q \in Orders, m \in DispatchModes : Dispatch(q, m) \/ DispatchFails(q, m)
  BY <1>5, DispatchKeeps, DispatchFailsKeeps
<1>6. CASE FinalizeBatch
  BY <1>6, FinalizeBatchKeeps
<1>7. CASE \E m \in desk.pending : Send(m)
  BY <1>7, SendKeeps
<1>8. CASE \E b \in Batches : GroupTimeout(b) \/ SwarmTimeout(b) \/ WindowSlides(b)
  BY <1>8, TimersKeep
<1>9. CASE UNCHANGED vars
  <2>1. OnlyDesk /\ desk' = desk
    BY <1>9 DEF vars, OnlyDesk, batching, reading, history
  <2>2. TakesIn(desk, desk', {}, Swarmers, batches)
    BY <2>1, NowhereIsOnce DEF IInv, DeskInv, TakesIn, Keeps
  <2> QED BY <2>1, <2>2, OnlyDeskKeeps
<1> QED BY <1>1, <1>2, <1>3, <1>4, <1>5, <1>6, <1>7, <1>8, <1>9 DEF Next

LEMMA Invariance == Spec => []IInv
BY InitHolds, StepKeeps, PTL DEF Spec

\* Every variable of the delivery of results has its type, a key of the hub holds
\* one message and nobody is twice in the batch.
THEOREM DeliveryTypes == Spec => []TypeOK
<1>1. IInv => TypeOK
  <2> SUFFICES ASSUME IInv PROVE TypeOK
    OBVIOUS
  <2>1. DeskTypes(desk)
    BY DEF IInv, DeskInv, DeskOK
  <2>2. desk \in Desks /\ \A m \in desk.pending : Held(desk, m.key) = {m}
    BY <2>1 DEF DeskTypes, Held
  <2> QED BY <2>2 DEF IInv, Types, TypeOK
<1> QED BY <1>1, Invariance, PTL

\* onComplete, finalizeBatch, GroupJoinManager, SwarmCoordinator and NotificationHub
\* lose no finished result between them: one that nobody has read has been announced,
\* or it is in the batch, in a message that is held, or with a group or swarm that has
\* not delivered it; except if its delivered swarm refused it, or if a message with
\* the same key replaced the one it was in.
THEOREM NothingIsForgotten == Spec => []NothingForgotten
<1>1. IInv => NothingForgotten
  <2> SUFFICES ASSUME IInv, NEW a \in Agents \ (desk.refused \cup desk.overtaken),
                      run[a] = "reported", ~ consumed[a], announced[a] = 0
               PROVE  OnItsWay(a)
    BY DEF NothingForgotten
  <2>1. a \in ToSet(batch) \cup Covered(desk)
    BY DEF IInv, Remembered
  <2> QED BY <2>1 DEF Covered, OnItsWay
<1> QED BY <1>1, Invariance, PTL

\* The result of an agent that is in no swarm is announced at most once, in
\* whatever order it completes, its batch is finalised, its group times out and the
\* hold of a message ends; unless it was stopped while it ran, or all its waiters
\* were cancelled as it ended.
THEOREM AnnouncedAtMostOnce == Spec => []AnnouncedOnce
<1>1. IInv => AnnouncedOnce
  BY DEF IInv, Single, Ordinary, Swarmers, AnnouncedOnce
<1> QED BY <1>1, Invariance, PTL

\* A group or a swarm that holds results back has its timer running and waits for
\* a member that has not completed: it can neither be full and silent, nor keep
\* results for ever.
THEOREM HeldResultsHaveTimer == Spec => []HeldHasTimer
<1>1. IInv => HeldHasTimer
  BY DEF IInv, DeskInv, DeskOK, Timed, GroupTimed, SwarmTimed, HeldHasTimer
<1> QED BY <1>1, Invariance, PTL

\* No step announces a result that get_subagent_result has returned, wherever the
\* result was held when the call returned; except for an agent stopped while it ran:
\* its record can be read while a wait for it is open, and when that wait is
\* cancelled the result counts as unread again.
THEOREM AnswersStayQuiet == Spec => AnsweredIsQuiet
<1>1. IInv /\ [Next]_vars => [\A a \in answered \ lingered : announced'[a] = announced[a]]_vars
  <2> SUFFICES ASSUME IInv, Next, NEW a \in answered \ lingered
               PROVE  announced'[a] = announced[a]
    OBVIOUS
  <2>1. a \in Agents /\ consumed[a] /\ announced[a] \in Nat
    BY DEF IInv, Types, Quiet
  <2>2. ASSUME NEW m \in desk.pending, Send(m) PROVE announced'[a] = announced[a]
    BY <2>1, <2>2 DEF Send
  <2>3. announced' = announced \/ \E m \in desk.pending : Send(m)
    BY DEF Next, SpawnOne, Finish, Stop, Report, Reported, Wait, WaitReturns, CancelWait, Read,
           Dispatch, DispatchFails, FinalizeBatch, GroupTimeout, SwarmTimeout, WindowSlides, OnlyDesk
  <2> QED BY <2>2, <2>3
<1> QED BY <1>1, Invariance, PTL DEF Spec, AnsweredIsQuiet
=============================================================================
