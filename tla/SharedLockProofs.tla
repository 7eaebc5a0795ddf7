---------------------------- MODULE SharedLockProofs ----------------------------
(***************************************************************************)
(* Mutual exclusion of the shared lock and the absence of lost wakeups,    *)
(* for any threads, priorities and timeouts.                               *)
(***************************************************************************)
EXTENDS SharedLock, SequenceTheorems, WellFoundedInduction, TLAPS

\* The conditions of the queues; somebody waits on each of them.
Cond == [shared : BOOLEAN, open : BOOLEAN, waiters : (SUBSET Threads) \ {{}}]
Call == [st : {"out", "wait", "woken", "expired"}, shared : BOOLEAN,
         prio : Nat, timed : BOOLEAN, del : BOOLEAN]
Queues == [Prios -> Seq(Cond)]

Typed == /\ exc \in Threads \union {None} /\ shr \in SUBSET Threads
         /\ deleted \in BOOLEAN /\ pending \in Queues
         /\ th \in [Threads -> Call]

\* t waits on some condition of priority p.
In(queues, t, p) == \E i \in 1..Len(queues[p]) : t \in queues[p][i].waiters

\* Whoever waits does so on a condition of the call's priority, and a deletion
\* asks for the exclusive mode.
Queued == \A t \in Threads :
  /\ Waiting(t) => th[t].prio \in Prios /\ In(pending, t, th[t].prio)
  /\ th[t].del => ~th[t].shared

IInv == Typed /\ Queued /\ Exclusion /\ NoLostWakeup

-------------------------------------------------------------------------------
(* The queues.                                                             *)

\* What RemoveAt leaves.
LEMMA Removed ==
  ASSUME NEW S, NEW s \in Seq(S), NEW i \in 1..Len(s)
  PROVE  /\ RemoveAt(s, i) \in Seq(S)
         /\ Len(RemoveAt(s, i)) = Len(s) - 1
         /\ \A j \in 1..Len(s) - 1 :
              RemoveAt(s, i)[j] = IF j < i THEN s[j] ELSE s[j + 1]
<1> DEFINE a == SubSeq(s, 1, i - 1)
           b == SubSeq(s, i + 1, Len(s))
<1>0. Len(s) \in Nat /\ \A j \in 1..Len(s) : s[j] \in S
  BY Zenon, LenProperties, ElementOfSeq
<1>1. /\ a \in Seq(S) /\ Len(a) = i - 1
      /\ \A j \in 1..i - 1 : a[j] = s[j]
  <2>1. 1 \in Int /\ i - 1 \in Int /\ \A j \in 1..i - 1 : s[j] \in S
    BY <1>0
  <2>2. /\ a \in Seq(S) /\ Len(a) = IF 1 <= i - 1 THEN (i - 1) - 1 + 1 ELSE 0
        /\ \A j \in 1..(i - 1) - 1 + 1 : a[j] = s[1 + j - 1]
    BY <2>1, SubSeqProperties
  <2> HIDE DEF a
  <2> QED  BY <1>0, <2>2
<1>2. /\ b \in Seq(S) /\ Len(b) = Len(s) - i
      /\ \A j \in 1..Len(s) - i : b[j] = s[i + j]
  <2>1. i + 1 \in Int /\ Len(s) \in Int /\ \A j \in i + 1..Len(s) : s[j] \in S
    BY <1>0
  <2>2. /\ b \in Seq(S) /\ Len(b) = IF i + 1 <= Len(s) THEN Len(s) - (i + 1) + 1 ELSE 0
        /\ \A j \in 1..Len(s) - (i + 1) + 1 : b[j] = s[(i + 1) + j - 1]
    BY <2>1, SubSeqProperties
  <2> HIDE DEF b
  <2>3. Len(b) = Len(s) - i
    BY <1>0, <2>2
  <2>4. ASSUME NEW j \in 1..Len(s) - i
        PROVE  b[j] = s[i + j]
    <3>1. j \in 1..Len(s) - (i + 1) + 1 /\ (i + 1) + j - 1 = i + j
      BY <1>0
    <3> QED  BY Zenon, <2>2, <3>1
  <2> QED  BY Zenon, <2>2, <2>3, <2>4
<1> HIDE DEF a, b
<1>3. /\ a \o b \in Seq(S) /\ Len(a \o b) = Len(a) + Len(b)
      /\ \A j \in 1..Len(a) + Len(b) :
           (a \o b)[j] = IF j <= Len(a) THEN a[j] ELSE b[j - Len(a)]
  BY ZenonT(60), <1>1, <1>2, ConcatProperties
<1>4. ASSUME NEW j \in 1..Len(s) - 1
      PROVE  (a \o b)[j] = IF j < i THEN s[j] ELSE s[j + 1]
  <2>1. CASE j < i
    BY <1>0, <1>1, <1>2, <1>3, <2>1
  <2>2. CASE j >= i
    <3>1. (a \o b)[j] = b[j - (i - 1)]
      BY SMTT(30), <1>0, <1>1, <1>2, <1>3, <2>2
    <3>2. j - (i - 1) \in 1..Len(s) - i /\ i + (j - (i - 1)) = j + 1
      BY <1>0, <2>2
    <3> QED  BY <1>2, <2>2, <3>1, <3>2
  <2>3. i \in Int /\ j \in Int
    BY <1>0
  <2>4. j < i \/ j >= i
    BY <2>3
  <2> QED  BY Zenon, <2>1, <2>2, <2>4
<1>5. Len(a \o b) = Len(s) - 1
  BY SMTT(30), <1>0, <1>1, <1>2, <1>3
<1> QED  BY Zenon, <1>3, <1>4, <1>5 DEF RemoveAt, a, b

\* A nonempty set of priorities has a first.
LEMMA LeastPrio ==
  ASSUME NEW S, S \subseteq Prios, S # {}
  PROVE  \E p \in S : \A q \in S : p <= q
<1>1. S \subseteq Nat
  BY Zenon, Parameters
<1>2. \E p \in S : \A q \in S : ~(<<q, p>> \in OpToRel(<, Nat))
  BY Zenon, <1>1, NatLessThanWellFounded, WFMin
<1>3. PICK p \in S : \A q \in S : ~(<<q, p>> \in OpToRel(<, Nat))
  BY Zenon, <1>2
<1>4. \A x, y \in Nat : x < y => <<x, y>> \in OpToRel(<, Nat)
  BY Zenon DEF OpToRel
<1>5. \A q \in S : ~(q < p)
  BY <1>1, <1>3, <1>4, Zenon
<1> QED  BY <1>1, <1>5

\* The first of the pending priorities.
LEMMA FirstPending ==
  ASSUME NEW queues, Nonempty(queues) # {}
  PROVE  /\ First(queues) \in Nonempty(queues)
         /\ \A q \in Nonempty(queues) : First(queues) <= q
<1>1. \E p \in Nonempty(queues) : \A q \in Nonempty(queues) : p <= q
  BY Zenon, LeastPrio DEF Nonempty
<1> QED  BY Zenon, <1>1 DEF First

\* Queues with the same waiters in the same places.
Same(q1, q2) == \A p \in Prios :
  /\ Len(q1[p]) = Len(q2[p])
  /\ \A i \in 1..Len(q1[p]) : q1[p][i].waiters = q2[p][i].waiters

LEMMA NonemptyLen ==
  ASSUME NEW queues \in Queues
  PROVE  /\ Nonempty(queues) = {p \in Prios : Len(queues[p]) >= 1}
         /\ \A p \in Prios : Len(queues[p]) >= 1 => Head(queues[p]) = queues[p][1]
<1>1. \A p \in Prios : /\ queues[p] \in Seq(Cond) /\ Len(queues[p]) \in Nat
                       /\ queues[p] # <<>> <=> Len(queues[p]) >= 1
  BY EmptySeq, LenProperties DEF Queues
<1>2. \A p \in Prios : Len(queues[p]) >= 1 => Head(queues[p]) = queues[p][1]
  BY <1>1, HeadTailProperties
<1> QED  BY Zenon, <1>1, <1>2 DEF Nonempty

LEMMA TopWaits ==
  ASSUME NEW queues \in Queues, Nonempty(queues) # {}
  PROVE  /\ First(queues) \in Prios /\ Len(queues[First(queues)]) >= 1
         /\ Top(queues) = queues[First(queues)][1]
         /\ Top(queues) \in Cond
         /\ Top(queues).waiters \in SUBSET Threads /\ Top(queues).waiters # {}
<1>1. First(queues) \in Prios /\ Len(queues[First(queues)]) >= 1
  BY Zenon, FirstPending, NonemptyLen
<1>2. Top(queues) = queues[First(queues)][1]
  BY Zenon, <1>1, NonemptyLen DEF Top
<1>3. queues[First(queues)][1] \in Cond
  BY <1>1, ElementOfSeq, LenProperties DEF Queues
<1> QED  BY Zenon, <1>1, <1>2, <1>3 DEF Cond

\* The first priority and its first condition are determined by the waiters.
LEMMA FirstUnique ==
  ASSUME NEW queues \in Queues, NEW p \in Prios, Len(queues[p]) >= 1,
         \A q \in Prios : Len(queues[q]) >= 1 => p <= q
  PROVE  Nonempty(queues) # {} /\ First(queues) = p
<1>1. p \in Nonempty(queues) /\ \A q \in Nonempty(queues) : p <= q
  BY Zenon, NonemptyLen
<1>2. First(queues) \in Prios /\ First(queues) <= p /\ p <= First(queues)
  BY Zenon, <1>1, FirstPending, NonemptyLen
<1>3. First(queues) \in Nat /\ p \in Nat
  BY Zenon, <1>2, Parameters
<1>4. First(queues) = p
  BY <1>2, <1>3
<1> QED  BY Zenon, <1>1, <1>4

\* PopShared changes no waiters.
LEMMA Popped ==
  ASSUME NEW queues \in Queues, NEW p \in Prios
  PROVE  PopShared(queues, p) \in Queues /\ Same(queues, PopShared(queues, p))
<1> DEFINE new == [i \in DOMAIN queues[p] |-> [queues[p][i] EXCEPT !.open = FALSE]]
<1>1. /\ queues[p] \in Seq(Cond) /\ Len(queues[p]) \in Nat
      /\ DOMAIN queues[p] = 1..Len(queues[p])
      /\ \A i \in 1..Len(queues[p]) : queues[p][i] \in Cond
  BY Zenon, LenProperties, ElementOfSeq DEF Queues
<1>2. new \in [1..Len(queues[p]) -> Cond]
  BY Zenon, <1>1 DEF Cond
<1>3. new \in Seq(Cond) /\ Len(new) = Len(queues[p])
  <2> HIDE DEF new
  <2>1. new \in Seq(Cond)
    BY Zenon, <1>1, <1>2, SeqDef
  <2>2. DOMAIN new = 1..Len(new) /\ Len(new) \in Nat /\ DOMAIN new = 1..Len(queues[p])
    BY Zenon, <1>2, <2>1, LenProperties
  <2> QED  BY <1>1, <2>1, <2>2
<1>4. \A i \in 1..Len(queues[p]) : new[i].waiters = queues[p][i].waiters
  BY Zenon, <1>1 DEF Cond
<1>5. PopShared(queues, p) = [queues EXCEPT ![p] = new]
  BY Zenon DEF PopShared, Queues
<1> HIDE DEF new
<1>6. \A q \in Prios : [queues EXCEPT ![p] = new][q] = IF q = p THEN new ELSE queues[q]
  BY Zenon DEF Queues
<1>7. Same(queues, [queues EXCEPT ![p] = new])
  BY <1>3, <1>4, <1>6 DEF Same
<1>8. [queues EXCEPT ![p] = new] \in Queues
  BY Zenon, <1>3 DEF Queues
<1> QED  BY Zenon, <1>5, <1>7, <1>8

LEMMA SameTop ==
  ASSUME NEW q1 \in Queues, NEW q2 \in Queues, Same(q1, q2)
  PROVE  /\ Nonempty(q1) = Nonempty(q2)
         /\ \A t \in Threads, p \in Prios : In(q1, t, p) => In(q2, t, p)
         /\ Nonempty(q1) # {} => Top(q1).waiters = Top(q2).waiters
<1>1. Nonempty(q1) = Nonempty(q2)
  BY ZenonT(40), NonemptyLen DEF Same
<1>2. First(q1) = First(q2)
  BY Zenon, <1>1 DEF First
<1>3. ASSUME Nonempty(q1) # {} PROVE Top(q1).waiters = Top(q2).waiters
  <2>1. /\ First(q1) \in Prios /\ Len(q1[First(q1)]) >= 1
        /\ Top(q1) = q1[First(q1)][1] /\ Top(q2) = q2[First(q1)][1]
    BY Zenon, <1>1, <1>2, <1>3, TopWaits
  <2>2. 1 \in 1..Len(q1[First(q1)])
    BY <2>1, LenProperties DEF Queues
  <2> QED  BY Zenon, <2>1, <2>2 DEF Same
<1> QED  BY Zenon, <1>1, <1>3 DEF Same, In

\* Enqueue: t waits at p, nobody is lost, and the top is as it was unless t is
\* part of it now.
LEMMA Enqueued ==
  ASSUME NEW queues \in Queues, NEW t \in Threads, NEW shared \in BOOLEAN,
         NEW p \in Prios
  PROVE  LET new == Enqueue(queues, t, shared, p) IN
         /\ new \in Queues /\ In(new, t, p)
         /\ \A u \in Threads, q \in Prios : In(queues, u, q) => In(new, u, q)
         /\ Nonempty(new) # {}
         /\ Nonempty(queues) # {} /\ t \notin Top(new).waiters
              => Top(new).waiters = Top(queues).waiters
<1> DEFINE new == Enqueue(queues, t, shared, p)
           cond == [shared |-> shared, open |-> shared, waiters |-> {t}]
           joins == shared /\ \E i \in DOMAIN queues[p] : queues[p][i].open
           joined == [i \in DOMAIN queues[p] |->
             IF queues[p][i].open
             THEN [queues[p][i] EXCEPT !.waiters = @ \union {t}] ELSE queues[p][i]]
           at == IF joins THEN joined ELSE Append(queues[p], cond)
<1>1. /\ queues[p] \in Seq(Cond) /\ Len(queues[p]) \in Nat
      /\ DOMAIN queues[p] = 1..Len(queues[p])
      /\ \A i \in 1..Len(queues[p]) : queues[p][i] \in Cond
  BY Zenon, LenProperties, ElementOfSeq DEF Queues
<1>2. new = [queues EXCEPT ![p] = at]
  BY Zenon DEF Enqueue, Queues
<1>3. /\ at \in Seq(Cond) /\ Len(at) \in Nat
      /\ Len(at) >= Len(queues[p]) /\ Len(at) >= 1
      /\ \E i \in 1..Len(at) : t \in at[i].waiters
      /\ \A i \in 1..Len(queues[p]) : \/ at[i].waiters = queues[p][i].waiters
                                     \/ at[i].waiters = queues[p][i].waiters \union {t}
      /\ Len(queues[p]) = 0 => t \in at[1].waiters
  <2>1. CASE joins
    <3>1. joined \in [1..Len(queues[p]) -> Cond]
      BY Zenon, <1>1 DEF Cond
    <3>2. \A i \in 1..Len(queues[p]) :
            joined[i].waiters = IF queues[p][i].open THEN queues[p][i].waiters \union {t}
                                                   ELSE queues[p][i].waiters
      BY Zenon, <1>1 DEF Cond
    <3>3. \E i \in 1..Len(queues[p]) : queues[p][i].open
      BY Zenon, <1>1, <2>1
    <3>4. at = joined
      BY Zenon, <2>1
    <3> HIDE DEF joined, at
    <3>5. joined \in Seq(Cond)
      BY SMTT(30), <1>1, <3>1, SeqDef
    <3>6. DOMAIN joined = 1..Len(joined) /\ Len(joined) \in Nat
          /\ DOMAIN joined = 1..Len(queues[p])
      BY Zenon, <3>1, <3>5, LenProperties
    <3>7. Len(joined) = Len(queues[p]) /\ Len(joined) >= 1
      BY <1>1, <3>3, <3>6
    <3>8. \E i \in 1..Len(at) : t \in at[i].waiters
      BY Zenon, <3>2, <3>3, <3>4, <3>7
    <3>9. \A i \in 1..Len(queues[p]) : \/ at[i].waiters = queues[p][i].waiters
                                     \/ at[i].waiters = queues[p][i].waiters \union {t}
      BY Zenon, <3>2, <3>4
    <3>10. /\ Len(at) = Len(queues[p]) /\ Len(queues[p]) >= 1
      BY Zenon, <3>4, <3>7
    <3> QED  BY <1>1, <3>4, <3>5, <3>8, <3>9, <3>10
  <2>2. CASE ~joins
    <3>1. cond \in Cond
      BY Zenon DEF Cond
    <3>2. cond.waiters = {t}
      BY Zenon
    <3>3. at = Append(queues[p], cond)
      BY Zenon, <2>2
    <3> HIDE DEF cond, at
    <3>4. /\ at \in Seq(Cond) /\ Len(at) = Len(queues[p]) + 1
          /\ \A i \in 1..Len(queues[p]) : at[i] = queues[p][i]
          /\ at[Len(queues[p]) + 1] = cond
      BY <1>1, <3>1, <3>3, AppendProperties
    <3> QED  BY SMTT(30), <1>1, <3>2, <3>4
  <2> QED  BY Zenon, <2>1, <2>2
<1> HIDE DEF at
<1>4. \A q \in Prios : new[q] = IF q = p THEN at ELSE queues[q]
  BY Zenon, <1>2 DEF Queues
<1>5. new \in Queues
  BY Zenon, <1>2, <1>3 DEF Queues
<1> HIDE DEF new
<1>6. In(new, t, p)
  BY Zenon, <1>3, <1>4 DEF In
<1>7. ASSUME NEW u \in Threads, NEW q \in Prios, In(queues, u, q)
      PROVE  In(new, u, q)
  <2>1. PICK i \in 1..Len(queues[q]) : u \in queues[q][i].waiters
    BY Zenon, <1>7 DEF In
  <2>2. CASE q = p
    <3>1. i \in 1..Len(at) /\ u \in at[i].waiters
      BY SMTT(30), <1>1, <1>3, <2>1, <2>2
    <3> QED  BY Zenon, <1>4, <2>2, <3>1 DEF In
  <2>3. CASE q # p
    BY Zenon, <1>4, <2>1, <2>3 DEF In
  <2> QED  BY Zenon, <2>2, <2>3
<1>8. Nonempty(new) # {}
  BY <1>3, <1>4, <1>5, NonemptyLen
<1>9. ASSUME Nonempty(queues) # {}, t \notin Top(new).waiters
      PROVE  Top(new).waiters = Top(queues).waiters
  <2> DEFINE f == First(queues)
  <2>1. /\ f \in Prios /\ Len(queues[f]) >= 1 /\ Top(queues) = queues[f][1]
        /\ \A q \in Prios : Len(queues[q]) >= 1 => f <= q
    BY Zenon, <1>9, TopWaits, FirstPending, NonemptyLen
  <2>2. /\ First(new) \in Prios /\ Len(new[First(new)]) >= 1
        /\ Top(new) = new[First(new)][1]
        /\ \A q \in Prios : Len(new[q]) >= 1 => First(new) <= q
    BY Zenon, <1>5, <1>8, TopWaits, FirstPending, NonemptyLen
  <2>3. Len(new[f]) >= 1 /\ f \in Nat /\ First(new) \in Nat
    BY Zenon, <1>3, <1>4, <2>1, <2>2, Parameters
  <2>4. ASSUME First(new) # f PROVE FALSE
    <3>1. First(new) < f
      BY <2>1, <2>2, <2>3, <2>4
    <3>2. ~(Len(queues[First(new)]) >= 1)
      BY <2>1, <2>2, <2>3, <3>1
    <3>3. First(new) = p /\ Len(queues[p]) = 0
      BY <1>1, <1>4, <2>2, <3>2
    <3> QED  BY ZenonT(60), <1>3, <1>4, <1>9, <2>2, <3>3
  <2>5. Top(new) = new[f][1] /\ 1 \in 1..Len(queues[f])
    BY <2>1, <2>2, <2>4, LenProperties DEF Queues
  <2>6. CASE f = p
    BY <1>3, <1>4, <1>9, <2>1, <2>5, <2>6
  <2>7. CASE f # p
    BY Zenon, <1>4, <2>1, <2>5, <2>7
  <2> QED  BY Zenon, <2>6, <2>7
<1> QED  BY Zenon, <1>5, <1>6, <1>7, <1>8, <1>9 DEF new

\* new is queues without condition c of priority p: everybody who waits elsewhere
\* still does.
Lacks(queues, p, c, new) ==
  /\ new \in Queues
  /\ \A u \in Threads, q \in Prios :
       In(queues, u, q) /\ u \notin queues[p][c].waiters => In(new, u, q)
  /\ c # 1 => Len(new[p]) >= 1 /\ new[p][1] = queues[p][1]
  /\ \A q \in Prios : Len(new[q]) >= 1 => Len(queues[q]) >= 1
  /\ \A q \in Prios : q # p => new[q] = queues[q]

LEMMA Without ==
  ASSUME NEW queues \in Queues, NEW p \in Prios, NEW c \in 1..Len(queues[p]),
         NEW new, new = [queues EXCEPT ![p] = RemoveAt(queues[p], c)]
  PROVE  Lacks(queues, p, c, new)
<1> DEFINE rest == RemoveAt(queues[p], c)
<1>1. queues[p] \in Seq(Cond) /\ Len(queues[p]) \in Nat
  BY Zenon, LenProperties DEF Queues
<1>2. /\ rest \in Seq(Cond) /\ Len(rest) = Len(queues[p]) - 1
      /\ \A j \in 1..Len(queues[p]) - 1 :
           rest[j] = IF j < c THEN queues[p][j] ELSE queues[p][j + 1]
  BY Zenon, <1>1, Removed
<1>0. new = [queues EXCEPT ![p] = rest]
  BY Zenon
<1> HIDE DEF rest
<1>3. new \in Queues
  BY Zenon, <1>0, <1>2 DEF Queues
<1>4. \A q \in Prios : new[q] = IF q = p THEN rest ELSE queues[q]
  BY Zenon, <1>0 DEF Queues
<1>5. ASSUME NEW u \in Threads, NEW q \in Prios, In(queues, u, q),
             u \notin queues[p][c].waiters
      PROVE  In(new, u, q)
  <2>1. PICK i \in 1..Len(queues[q]) : u \in queues[q][i].waiters
    BY Zenon, <1>5 DEF In
  <2>2. CASE q # p
    BY Zenon, <1>4, <2>1, <2>2 DEF In
  <2>3. CASE q = p /\ i < c
    <3>1. i \in 1..Len(rest) /\ rest[i] = queues[p][i]
      BY <1>1, <1>2, <2>1, <2>3
    <3> QED  BY Zenon, <1>4, <2>1, <2>3, <3>1 DEF In
  <2>4. CASE q = p /\ i > c
    <3>1. i - 1 \in 1..Len(rest) /\ rest[i - 1] = queues[p][i]
      BY <1>1, <1>2, <2>1, <2>4
    <3> QED  BY <1>4, <2>1, <2>4, <3>1 DEF In
  <2>5. q = p => i # c
    BY Zenon, <1>5, <2>1
  <2>6. i \in Int /\ c \in Int
    BY <1>1, <2>1
  <2> QED  BY <2>2, <2>3, <2>4, <2>5, <2>6
<1>6. ASSUME c # 1 PROVE Len(new[p]) >= 1 /\ new[p][1] = queues[p][1]
  BY <1>1, <1>2, <1>4, <1>6
<1>7. \A q \in Prios : /\ Len(new[q]) >= 1 => Len(queues[q]) >= 1
                       /\ q # p => new[q] = queues[q]
  BY <1>1, <1>2, <1>4
<1> QED  BY Zenon, <1>3, <1>5, <1>6, <1>7 DEF Lacks

\* Leave: nobody but t is lost, and the top stays unless t was part of it.
LEMMA Left ==
  ASSUME NEW queues \in Queues, NEW t \in Threads, NEW p \in Prios, In(queues, t, p)
  PROVE  LET new == Leave(queues, t, p) IN
         /\ new \in Queues
         /\ \A u \in Threads \ {t}, q \in Prios : In(queues, u, q) => In(new, u, q)
         /\ Nonempty(queues) # {} /\ t \notin Top(queues).waiters
              => Nonempty(new) # {} /\ Top(new).waiters = Top(queues).waiters
<1> DEFINE c == CHOOSE i \in DOMAIN queues[p] : t \in queues[p][i].waiters
           cond == queues[p][c]
           less == [queues EXCEPT ![p][c].waiters = @ \ {t}]
           gone == [queues EXCEPT ![p] = RemoveAt(queues[p], c)]
           new == Leave(queues, t, p)
           f == First(queues)
<1>1. /\ queues[p] \in Seq(Cond) /\ Len(queues[p]) \in Nat
      /\ DOMAIN queues[p] = 1..Len(queues[p])
  BY Zenon, LenProperties DEF Queues
<1>2. c \in 1..Len(queues[p]) /\ t \in cond.waiters
  BY Zenon, <1>1 DEF In
<1>3. cond \in Cond
  BY Zenon, <1>1, <1>2, ElementOfSeq
<1>4. new = CASE cond.waiters # {t} -> less
              [] cond.waiters = {t} /\ cond.shared -> PopShared(gone, p)
              [] OTHER -> gone
  BY Zenon DEF Leave
<1> HIDE DEF c
<1>5. ASSUME cond.waiters # {t}
      PROVE  /\ less \in Queues
             /\ \A u \in Threads \ {t}, q \in Prios : In(queues, u, q) => In(less, u, q)
             /\ \A q \in Prios : Len(less[q]) = Len(queues[q])
             /\ \A q \in Prios : Len(queues[q]) >= 1 /\ t \notin queues[q][1].waiters
                               => less[q][1].waiters = queues[q][1].waiters
  <2> DEFINE lc == [cond EXCEPT !.waiters = @ \ {t}]
             lp == [queues[p] EXCEPT ![c] = lc]
  <2>1. lc \in Cond /\ lc.waiters = cond.waiters \ {t}
    BY Zenon, <1>2, <1>3, <1>5 DEF Cond
  <2> HIDE DEF lc
  <2>2. lp \in Seq(Cond) /\ Len(lp) = Len(queues[p])
        /\ \A i \in 1..Len(queues[p]) : lp[i] = IF i = c THEN lc ELSE queues[p][i]
    BY <1>1, <1>2, <2>1, ExceptSeq
  <2>3. less = [queues EXCEPT ![p] = lp]
    BY Zenon DEF lc, Queues
  <2> HIDE DEF lp, less
  <2>4. \A q \in Prios : less[q] = IF q = p THEN lp ELSE queues[q]
    BY Zenon, <2>3 DEF Queues
  <2>5. less \in Queues
    BY Zenon, <2>2, <2>3 DEF Queues
  <2>6. ASSUME NEW u \in Threads \ {t}, NEW q \in Prios, In(queues, u, q)
        PROVE  In(less, u, q)
    <3>1. PICK i \in 1..Len(queues[q]) : u \in queues[q][i].waiters
      BY Zenon, <2>6 DEF In
    <3>2. CASE q = p
      <4>1. i \in 1..Len(lp) /\ u \in lp[i].waiters
        BY Zenon, <2>1, <2>2, <3>1, <3>2
      <4> QED  BY Zenon, <2>4, <3>2, <4>1 DEF In
    <3>3. CASE q # p
      BY Zenon, <2>4, <3>1, <3>3 DEF In
    <3> QED  BY Zenon, <3>2, <3>3
  <2>7. ASSUME NEW q \in Prios, Len(queues[q]) >= 1, t \notin queues[q][1].waiters
        PROVE  less[q][1].waiters = queues[q][1].waiters
    <3>1. CASE q = p
      <4>1. c # 1 /\ 1 \in 1..Len(queues[p])
        BY <1>1, <1>2, <2>7, <3>1
      <4> QED  BY ZenonT(60), <2>2, <2>4, <3>1, <4>1
    <3>2. CASE q # p
      BY Zenon, <2>4, <3>2
    <3> QED  BY Zenon, <3>1, <3>2
  <2> QED  BY ZenonT(60), <2>2, <2>4, <2>5, <2>6, <2>7
<1>g. gone = [queues EXCEPT ![p] = RemoveAt(queues[p], c)]
  BY Zenon
<1> HIDE DEF less, gone, new
<1>6. Lacks(queues, p, c, gone)
  BY Zenon, <1>2, <1>g, Without
<1>7. CASE cond.waiters # {t}
  <2>1. new = less
    BY Zenon, <1>4, <1>7
  <2>2. ASSUME Nonempty(queues) # {}, t \notin Top(queues).waiters
        PROVE  Nonempty(less) # {} /\ Top(less).waiters = Top(queues).waiters
    <3>1. /\ f \in Prios /\ Len(queues[f]) >= 1 /\ Top(queues) = queues[f][1]
      BY Zenon, <2>2, TopWaits
    <3>2. Nonempty(less) = Nonempty(queues)
      BY ZenonT(40), <1>5, <1>7, NonemptyLen
    <3>3. First(less) = f
      BY Zenon, <3>2 DEF First
    <3>4. Top(less) = less[f][1]
      BY Zenon, <1>5, <1>7, <2>2, <3>2, <3>3, TopWaits
    <3> QED  BY ZenonT(60), <1>5, <1>7, <2>2, <3>1, <3>2, <3>4
  <2> QED  BY Zenon, <1>5, <1>7, <2>1, <2>2 DEF new
<1>8. CASE cond.waiters = {t}
  <2>1. ASSUME Nonempty(queues) # {}, t \notin Top(queues).waiters
        PROVE  Nonempty(gone) # {} /\ Top(gone).waiters = Top(queues).waiters
    <3>1. /\ f \in Prios /\ Len(queues[f]) >= 1 /\ Top(queues) = queues[f][1]
          /\ \A q \in Prios : Len(queues[q]) >= 1 => f <= q
      BY Zenon, <2>1, TopWaits, FirstPending, NonemptyLen
    <3>2. f = p => c # 1
      BY Zenon, <1>2, <2>1, <3>1
    <3>3. Len(gone[f]) >= 1 /\ gone[f][1] = queues[f][1]
      BY Zenon, <1>6, <3>1, <3>2 DEF Lacks
    <3>4. Nonempty(gone) # {} /\ First(gone) = f
      <4>1. \A q \in Prios : Len(gone[q]) >= 1 => f <= q
        BY Zenon, <1>6, <3>1 DEF Lacks
      <4> QED  BY ZenonT(60), <1>6, <3>1, <3>3, <4>1, FirstUnique DEF Lacks
    <3> QED  BY <1>6, <3>1, <3>3, <3>4, TopWaits DEF Lacks
  <2>2. \A u \in Threads \ {t}, q \in Prios : In(queues, u, q) => In(gone, u, q)
    BY Zenon, <1>6, <1>8 DEF Lacks
  <2>3. CASE cond.shared
    <3>1. new = PopShared(gone, p)
      BY Zenon, <1>4, <1>8, <2>3
    <3>2. new \in Queues /\ Same(gone, new)
      BY Zenon, <1>6, <3>1, Popped DEF Lacks
    <3> QED  BY ZenonT(60), <1>6, <2>1, <2>2, <3>2, SameTop DEF new, Lacks
  <2>4. CASE ~cond.shared
    <3>1. new = gone
      BY Zenon, <1>4, <1>8, <2>4
    <3> QED  BY ZenonT(60), <1>6, <2>1, <2>2, <3>1 DEF new, Lacks
  <2> QED  BY ZenonT(60), <2>3, <2>4
<1> QED  BY Zenon, <1>7, <1>8

-------------------------------------------------------------------------------
(* The calls.                                                              *)

\* notify_all wakes up the threads it is meant for and touches nothing else.
LEMMA Notified ==
  ASSUME NEW threads \in [Threads -> Call], NEW S
  PROVE  LET new == Notify(threads, S) IN
         /\ new \in [Threads -> Call]
         /\ \A t \in Threads :
              /\ new[t].prio = threads[t].prio /\ new[t].shared = threads[t].shared
              /\ new[t].del = threads[t].del
              /\ new[t].st # "out" => threads[t].st # "out"
              /\ new[t].st = "wait" => threads[t].st = "wait" /\ t \notin S
  BY DEF Notify, Call

\* The invariant after a step in which nobody loses its place, for the parts that
\* say nothing of the wakeups.
LEMMA StaysQueued ==
  ASSUME Queued, NEW threads \in [Threads -> Call], NEW queues \in Queues,
         \A u \in Threads :
           /\ threads[u].del => ~threads[u].shared
           /\ threads[u].st # "out" =>
                \/ th[u].st # "out" /\ threads[u].prio = th[u].prio
                   /\ \A q \in Prios : In(pending, u, q) => In(queues, u, q)
                \/ threads[u].prio \in Prios /\ In(queues, u, threads[u].prio),
         th' = threads, pending' = queues
  PROVE  Queued'
  BY ZenonT(60) DEF Queued, Waiting, In

LEMMA ObtainStep ==
  ASSUME IInv, NEW t \in Threads, NEW shared \in BOOLEAN, NEW del \in BOOLEAN,
         del => ~shared, ~deleted, CanAcquire(shared), NEW queues \in Queues,
         \A u \in Threads \ {t}, q \in Prios : In(pending, u, q) => In(queues, u, q),
         Obtain(t, shared, del, queues)
  PROVE  IInv'
<1> DEFINE out == [th EXCEPT ![t] = Outside]
<1>1. Typed /\ Queued /\ pending' = queues
  BY Zenon DEF IInv, Obtain
<1>2. out \in [Threads -> Call] /\ out[t] = Outside
      /\ \A u \in Threads \ {t} : out[u] = th[u]
  BY Zenon, <1>1 DEF Typed, Outside, Call
<1> HIDE DEF out
<1>3. CASE del
  <2>1. /\ exc' = None /\ shr' = {} /\ deleted' = TRUE
        /\ th' = Notify(out, Threads)
    BY Zenon, <1>3 DEF Obtain, MarkDeleted, CanAcquire, out
  <2>2. /\ th' \in [Threads -> Call]
        /\ \A u \in Threads :
             /\ th'[u].prio = out[u].prio /\ th'[u].shared = out[u].shared
             /\ th'[u].del = out[u].del
             /\ th'[u].st # "out" => out[u].st # "out"
             /\ th'[u].st # "wait"
    BY <1>2, <2>1, Notified
  <2>3. Typed'
    BY ZenonT(60), <1>1, <2>1, <2>2 DEF Typed
  <2>4. Queued'
    BY SMTT(30), <1>1, <1>2, <2>2, StaysQueued DEF Queued, Outside
  <2>5. Exclusion' /\ NoLostWakeup'
    BY ZenonT(60), <2>1, <2>2 DEF Exclusion, Free, NoLostWakeup, Asleep
  <2> QED  BY Zenon, <2>3, <2>4, <2>5 DEF IInv
<1>4. CASE ~del
  <2>1. /\ exc' = IF shared THEN exc ELSE t
        /\ shr' = IF shared THEN shr \union {t} ELSE shr
        /\ th' = out /\ deleted' = deleted
    BY Zenon, <1>4 DEF Obtain, out
  <2>2. Typed'
    BY ZenonT(60), <1>1, <1>2, <2>1 DEF Typed
  <2>3. Queued'
    BY SMTT(30), <1>1, <1>2, <2>1, StaysQueued DEF Queued, Outside
  <2>4. Exclusion' /\ NoLostWakeup'
    BY Zenon, <2>1, Parameters DEF Exclusion, Free, NoLostWakeup, Asleep, CanAcquire
  <2> QED  BY Zenon, <2>2, <2>3, <2>4 DEF IInv
<1> QED  BY Zenon, <1>3, <1>4

\* A free lock can be taken in either mode.
LEMMA FreeIsTakeable ==
  ASSUME Free, NEW shared PROVE CanAcquire(shared)
  BY Zenon DEF Free, CanAcquire

LEMMA AcquireStep ==
  ASSUME IInv, NEW t \in Threads, Acquire(t)
  PROVE  IInv'
<1>1. PICK shared \in BOOLEAN, timeout \in Timeouts, p \in Prios, del \in BOOLEAN :
        LET queues == Enqueue(pending, t, shared, p) IN
        /\ ~deleted /\ ~Waiting(t) /\ ~Owns(t)
        /\ del => ~shared
        /\ IF Nonempty(pending) = {} /\ CanAcquire(shared)
           THEN Obtain(t, shared, del, pending)
           ELSE IF t \in Top(queues).waiters /\ CanAcquire(shared)
           THEN Obtain(t, shared, del, Leave(queues, t, p))
           ELSE /\ pending' = queues
                /\ th' = [th EXCEPT ![t] = [st |-> "wait", shared |-> shared, prio |-> p,
                                            timed |-> timeout # "none", del |-> del]]
                /\ UNCHANGED <<exc, shr, deleted>>
  BY Zenon DEF Acquire
<1> DEFINE queues == Enqueue(pending, t, shared, p)
           call == [st |-> "wait", shared |-> shared, prio |-> p,
                    timed |-> timeout # "none", del |-> del]
<1>2. Typed /\ Queued /\ Exclusion /\ NoLostWakeup /\ pending \in Queues
  BY Zenon DEF IInv, Typed
<1>3. /\ queues \in Queues /\ In(queues, t, p)
      /\ \A u \in Threads, q \in Prios : In(pending, u, q) => In(queues, u, q)
      /\ Nonempty(queues) # {}
      /\ Nonempty(pending) # {} /\ t \notin Top(queues).waiters
           => Top(queues).waiters = Top(pending).waiters
  BY <1>2, Enqueued
<1> HIDE DEF queues, call
<1>4. CASE Nonempty(pending) = {} /\ CanAcquire(shared)
  BY ZenonT(60), <1>1, <1>2, <1>4, ObtainStep
<1>5. CASE ~(Nonempty(pending) = {} /\ CanAcquire(shared))
           /\ t \in Top(queues).waiters /\ CanAcquire(shared)
  <2>1. /\ Leave(queues, t, p) \in Queues
        /\ \A u \in Threads \ {t}, q \in Prios :
             In(queues, u, q) => In(Leave(queues, t, p), u, q)
    BY Zenon, <1>3, Left
  <2>2. Obtain(t, shared, del, Leave(queues, t, p))
    BY Zenon, <1>1, <1>5 DEF queues
  <2> QED  BY ZenonT(60), <1>1, <1>3, <1>5, <2>1, <2>2, ObtainStep
<1>6. CASE ~(Nonempty(pending) = {} /\ CanAcquire(shared))
           /\ ~(t \in Top(queues).waiters /\ CanAcquire(shared))
  <2>1. /\ pending' = queues /\ th' = [th EXCEPT ![t] = call]
        /\ exc' = exc /\ shr' = shr /\ deleted' = deleted
    BY Zenon, <1>1, <1>6 DEF queues, call
  <2>2. call \in Call /\ call.prio = p /\ call.del = del /\ call.shared = shared
    BY Zenon, Parameters DEF call, Call
  <2>3. /\ th' \in [Threads -> Call] /\ th'[t] = call
        /\ \A u \in Threads \ {t} : th'[u] = th[u]
    BY Zenon, <1>2, <2>1, <2>2 DEF Typed
  <2>4. Typed'
    BY ZenonT(60), <1>2, <1>3, <2>1, <2>3 DEF Typed
  <2>5. Queued'
    <3>1. \A u \in Threads \ {t} : (th[u].del => ~th[u].shared) /\ th'[u] = th[u]
      BY Zenon, <1>2, <2>3 DEF Queued
    <3>2. \A u \in Threads :
            /\ th'[u].del => ~th'[u].shared
            /\ th'[u].st # "out" =>
                 \/ th[u].st # "out" /\ th'[u].prio = th[u].prio
                    /\ \A q \in Prios : In(pending, u, q) => In(queues, u, q)
                 \/ th'[u].prio \in Prios /\ In(queues, u, th'[u].prio)
      BY ZenonT(60), <1>1, <1>3, <2>2, <2>3, <3>1
    <3> QED  BY ZenonT(40), <1>2, <1>3, <2>1, <2>3, <3>2, StaysQueued
  <2>6. Exclusion'
    BY Zenon, <1>2, <2>1 DEF Exclusion, Free
  <2>7. ASSUME Free' PROVE \E u \in Top(pending').waiters : th'[u].st # "wait"
    <3>1. Free
      BY Zenon, <2>1, <2>7 DEF Free
    <3>2. Nonempty(pending) # {} /\ t \notin Top(queues).waiters
      BY Zenon, <1>6, <3>1, FreeIsTakeable
    <3>3. PICK u \in Top(pending).waiters : ~Asleep(u)
      BY ZenonT(60), <1>1, <1>2, <3>1, <3>2 DEF NoLostWakeup
    <3>4. u \in Threads /\ u # t
      BY ZenonT(60), <1>2, <1>3, <3>2, <3>3, TopWaits
    <3> QED  BY ZenonT(60), <1>3, <2>1, <2>3, <3>2, <3>3, <3>4 DEF Asleep
  <2>8. NoLostWakeup'
    BY Zenon, <1>1, <2>1, <2>7 DEF NoLostWakeup, Asleep
  <2> QED  BY ZenonT(60), <2>4, <2>5, <2>6, <2>8 DEF IInv
<1> QED  BY Zenon, <1>4, <1>5, <1>6

LEMMA ExpireStep ==
  ASSUME IInv, NEW t \in Threads, Expire(t)
  PROVE  IInv'
<1>1. Typed /\ Queued /\ Exclusion /\ NoLostWakeup /\ pending \in Queues
  BY Zenon DEF IInv, Typed
<1>2. /\ th[t].st # "out" /\ th' = [th EXCEPT ![t].st = "expired"]
      /\ exc' = exc /\ shr' = shr /\ deleted' = deleted /\ pending' = pending
  BY Zenon DEF Expire
<1>3. /\ th' \in [Threads -> Call]
      /\ th'[t].prio = th[t].prio /\ th'[t].shared = th[t].shared
      /\ th'[t].del = th[t].del /\ th'[t].st = "expired"
      /\ \A u \in Threads \ {t} : th'[u] = th[u]
  BY <1>1, <1>2 DEF Typed, Call
<1>4. Typed'
  BY ZenonT(60), <1>1, <1>2, <1>3 DEF Typed
<1>5. Queued'
  <2>1. \A u \in Threads : /\ th'[u].del => ~th'[u].shared
                           /\ th'[u].st # "out" => th[u].st # "out"
                           /\ th'[u].prio = th[u].prio
    BY Zenon, <1>1, <1>2, <1>3 DEF Queued
  <2> QED  BY ZenonT(40), <1>1, <1>2, <1>3, <2>1, StaysQueued
<1>6. Exclusion'
  BY Zenon, <1>1, <1>2 DEF Exclusion, Free
<1>7. NoLostWakeup'
  <2>1. \A u \in Threads : th[u].st # "wait" => th'[u].st # "wait"
    BY Zenon, <1>3
  <2>2. ASSUME Free, ~deleted, Nonempty(pending) # {}
        PROVE  \E u \in Top(pending).waiters : th'[u].st # "wait"
    <3>1. PICK u \in Top(pending).waiters : ~Asleep(u)
      BY Zenon, <1>1, <2>2 DEF NoLostWakeup
    <3> QED  BY ZenonT(60), <1>1, <2>1, <2>2, <3>1, TopWaits DEF Asleep
  <2> QED  BY ZenonT(60), <1>1, <1>2, <2>1, <2>2 DEF NoLostWakeup, Asleep, Free
<1> QED  BY Zenon, <1>4, <1>5, <1>6, <1>7 DEF IInv

LEMMA ResumeStep ==
  ASSUME IInv, NEW t \in Threads, Resume(t)
  PROVE  IInv'
<1> DEFINE left == Leave(pending, t, th[t].prio)
<1>1. Typed /\ Queued /\ Exclusion /\ NoLostWakeup /\ pending \in Queues
  BY Zenon DEF IInv, Typed
<1>2. th[t].st # "out" /\ th[t].prio \in Prios /\ In(pending, t, th[t].prio)
      /\ th[t] \in Call /\ (th[t].del => ~th[t].shared)
  BY Zenon, <1>1 DEF Resume, Queued, Waiting, Typed
<1>3. /\ left \in Queues
      /\ \A u \in Threads \ {t}, q \in Prios : In(pending, u, q) => In(left, u, q)
      /\ Nonempty(pending) # {} /\ t \notin Top(pending).waiters
           => Nonempty(left) # {} /\ Top(left).waiters = Top(pending).waiters
  BY ZenonT(60), <1>1, <1>2, Left
<1>4. Nonempty(pending) # {}
  BY SMTT(30), <1>1, <1>2, NonemptyLen, LenProperties DEF In, Queues
<1>5. CASE ~deleted /\ t \in Top(pending).waiters /\ CanAcquire(th[t].shared)
  <2>1. Obtain(t, th[t].shared, th[t].del, left)
    BY Zenon, <1>5 DEF Resume
  <2> HIDE DEF left
  <2> QED  BY <1>2, <1>3, <1>5, <2>1, ObtainStep DEF Call
<1>6. CASE ~(~deleted /\ t \in Top(pending).waiters /\ CanAcquire(th[t].shared))
  <2>1. Free /\ ~deleted => t \notin Top(pending).waiters
    BY Zenon, <1>6, FreeIsTakeable
  <2>2. ASSUME Free, ~deleted
        PROVE  \E u \in Top(pending).waiters : u \in Threads \ {t} /\ th[u].st # "wait"
    BY ZenonT(60), <1>1, <1>4, <2>1, <2>2, TopWaits DEF NoLostWakeup, Asleep
  <2>3. CASE deleted \/ th[t].st = "expired"
    <3>1. /\ pending' = left /\ th' = [th EXCEPT ![t] = Outside]
          /\ exc' = exc /\ shr' = shr /\ deleted' = deleted
      BY Zenon, <1>6, <2>3 DEF Resume
    <3> HIDE DEF left
    <3>2. /\ th' \in [Threads -> Call] /\ th'[t] = Outside
          /\ \A u \in Threads \ {t} : th'[u] = th[u]
      BY Zenon, <1>1, <3>1 DEF Typed, Outside, Call
    <3>3. Typed'
      BY ZenonT(60), <1>1, <1>3, <3>1, <3>2 DEF Typed
    <3>a. \A u \in Threads : /\ th'[u].del => ~th'[u].shared
                             /\ th'[u].st # "out" => u # t /\ th'[u] = th[u]
      BY SMTT(30), <1>1, <3>2 DEF Queued, Outside
    <3>b. \A u \in Threads :
            /\ th'[u].del => ~th'[u].shared
            /\ th'[u].st # "out" =>
                 \/ th[u].st # "out" /\ th'[u].prio = th[u].prio
                    /\ \A q \in Prios : In(pending, u, q) => In(left, u, q)
                 \/ th'[u].prio \in Prios /\ In(left, u, th'[u].prio)
      BY Zenon, <1>3, <3>a
    <3>4. Queued'
      BY ZenonT(40), <1>1, <1>3, <3>1, <3>2, <3>b, StaysQueued
    <3>5. Exclusion'
      BY Zenon, <1>1, <3>1 DEF Exclusion, Free
    <3>6. ASSUME Free, ~deleted
          PROVE  \E u \in Top(left).waiters : th'[u].st # "wait"
      BY ZenonT(60), <1>3, <1>4, <2>1, <2>2, <3>2, <3>6
    <3>7. deleted => \A u \in Threads : th'[u].st # "wait"
      BY <1>1, <3>2 DEF NoLostWakeup, Asleep, Outside
    <3>8. NoLostWakeup'
      BY ZenonT(60), <3>1, <3>6, <3>7 DEF NoLostWakeup, Asleep, Free
    <3> QED  BY Zenon, <3>3, <3>4, <3>5, <3>8 DEF IInv
  <2>4. CASE ~(deleted \/ th[t].st = "expired")
    <3>1. /\ pending' = pending /\ th' = [th EXCEPT ![t].st = "wait"]
          /\ exc' = exc /\ shr' = shr /\ deleted' = deleted
      BY Zenon, <1>6, <2>4 DEF Resume
    <3>2. /\ th' \in [Threads -> Call]
          /\ th'[t].prio = th[t].prio /\ th'[t].shared = th[t].shared
          /\ th'[t].del = th[t].del
          /\ \A u \in Threads \ {t} : th'[u] = th[u]
      BY <1>1, <3>1 DEF Typed, Call
    <3>3. Typed'
      BY Zenon, <1>1, <3>1, <3>2 DEF Typed
    <3>a. \A u \in Threads : /\ th'[u].del => ~th'[u].shared
                             /\ th'[u].st # "out" =>
                                  th[u].st # "out" /\ th'[u].prio = th[u].prio
      BY Zenon, <1>1, <1>2, <3>2 DEF Queued
    <3>b. \A u \in Threads :
            /\ th'[u].del => ~th'[u].shared
            /\ th'[u].st # "out" =>
                 \/ th[u].st # "out" /\ th'[u].prio = th[u].prio
                    /\ \A q \in Prios : In(pending, u, q) => In(pending, u, q)
                 \/ th'[u].prio \in Prios /\ In(pending, u, th'[u].prio)
      BY Zenon, <3>a
    <3>4. Queued'
      BY ZenonT(60), <1>1, <3>1, <3>2, <3>b, StaysQueued
    <3>5. Exclusion'
      BY Zenon, <1>1, <3>1 DEF Exclusion, Free
    <3>6. ASSUME Free
          PROVE  \E u \in Top(pending).waiters : th'[u].st # "wait"
      BY ZenonT(60), <2>2, <2>4, <3>2, <3>6
    <3>7. NoLostWakeup'
      BY ZenonT(60), <2>4, <3>1, <3>6 DEF NoLostWakeup, Asleep, Free
    <3> QED  BY Zenon, <3>3, <3>4, <3>5, <3>7 DEF IInv
  <2> QED  BY Zenon, <2>3, <2>4
<1> QED  BY Zenon, <1>5, <1>6

\* Waking threads keeps everybody in the queue.
LEMMA NotifyKeeps ==
  ASSUME Typed, Queued, NEW S, NEW queues \in Queues,
         \A u \in Threads, q \in Prios : In(pending, u, q) => In(queues, u, q),
         th' = Notify(th, S), pending' = queues
  PROVE  /\ Queued' /\ th' \in [Threads -> Call]
         /\ \A u \in Threads : th'[u].st = "wait" => th[u].st = "wait" /\ u \notin S
<1>1. /\ th' \in [Threads -> Call]
      /\ \A u \in Threads :
           /\ th'[u].prio = th[u].prio /\ th'[u].shared = th[u].shared
           /\ th'[u].del = th[u].del
           /\ th'[u].st # "out" => th[u].st # "out"
           /\ th'[u].st = "wait" => th[u].st = "wait" /\ u \notin S
  BY Notified DEF Typed
<1>2. \A u \in Threads : th'[u].del => ~th'[u].shared
  BY Zenon, <1>1 DEF Queued
<1> QED  BY <1>1, <1>2, StaysQueued

LEMMA ReleaseStep ==
  ASSUME IInv, NEW t \in Threads, Release(t)
  PROVE  IInv'
<1>1. Typed /\ Queued /\ Exclusion /\ NoLostWakeup /\ pending \in Queues
      /\ th \in [Threads -> Call]
  BY Zenon DEF IInv, Typed
<1>2. /\ exc' = (IF t = exc THEN None ELSE exc) /\ shr' = shr \ {t}
      /\ deleted' = deleted /\ ~deleted
  BY Zenon, <1>1, Parameters DEF Release, Exclusion, Owns, Free
<1>3. exc' \in Threads \union {None} /\ shr' \in SUBSET Threads /\ deleted' \in BOOLEAN
  BY Zenon, <1>1, <1>2 DEF Typed
<1>4. Exclusion'
  BY Zenon, <1>1, <1>2 DEF Exclusion, Free
<1>5. CASE shr' = {} /\ Nonempty(pending) # {}
  <2>1. PICK queues \in Queues :
          /\ pending' = queues /\ Nonempty(queues) # {}
          /\ \A u \in Threads, q \in Prios : In(pending, u, q) => In(queues, u, q)
          /\ Top(queues).waiters = Top(pending).waiters
    <3>1. First(pending) \in Prios
      BY Zenon, <1>1, <1>5, TopWaits
    <3>2. pending' = pending \/ pending' = PopShared(pending, First(pending))
      BY Zenon, <1>5 DEF Release, NotifyTopmost
    <3>3. CASE pending' = pending
      BY Zenon, <1>1, <1>5, <3>3
    <3>4. CASE pending' = PopShared(pending, First(pending))
      BY ZenonT(60), <1>1, <1>5, <3>1, <3>4, Popped, SameTop
    <3> QED  BY Zenon, <3>2, <3>3, <3>4
  <2>2. th' = Notify(th, Top(pending).waiters)
    BY Zenon, <1>5 DEF Release, NotifyTopmost
  <2>3. /\ Queued' /\ th' \in [Threads -> Call]
        /\ \A u \in Threads : th'[u].st = "wait" => u \notin Top(pending).waiters
    BY ZenonT(60), <1>1, <2>1, <2>2, NotifyKeeps
  <2>4. PICK u \in Top(pending).waiters : u \in Threads
    BY Zenon, <1>1, <1>5, TopWaits
  <2>5. NoLostWakeup'
    BY ZenonT(60), <1>2, <2>1, <2>3, <2>4 DEF NoLostWakeup, Asleep
  <2> QED  BY ZenonT(60), <1>3, <1>4, <2>1, <2>3, <2>5 DEF IInv, Typed
<1>6. CASE ~(shr' = {} /\ Nonempty(pending) # {})
  <2>1. pending' = pending /\ th' = th
    BY Zenon, <1>6 DEF Release, NotifyTopmost
  <2>2. Typed' /\ Queued'
    BY Zenon, <1>1, <1>3, <2>1 DEF Typed, Queued, Waiting, In
  <2>3. NoLostWakeup'
    BY Zenon, <1>2, <1>6, <2>1 DEF NoLostWakeup, Free
  <2> QED  BY Zenon, <1>4, <2>2, <2>3 DEF IInv
<1> QED  BY Zenon, <1>5, <1>6

LEMMA DeleteStep ==
  ASSUME IInv, NEW t \in Threads, Delete(t)
  PROVE  IInv'
<1>1. Typed /\ Queued /\ Exclusion /\ pending \in Queues
  BY Zenon DEF IInv, Typed
<1>2. /\ exc' = None /\ shr' = {} /\ deleted' = TRUE /\ pending' = pending
      /\ th' = Notify(th, Threads)
  BY Zenon, <1>1, Parameters DEF Delete, MarkDeleted, Exclusion
<1>3. /\ Queued' /\ th' \in [Threads -> Call]
      /\ \A u \in Threads : th'[u].st # "wait"
  BY Zenon, <1>1, <1>2, NotifyKeeps
<1>4. Typed'
  BY Zenon, <1>1, <1>2, <1>3 DEF Typed
<1>5. Exclusion' /\ NoLostWakeup'
  BY Zenon, <1>2, <1>3 DEF Exclusion, NoLostWakeup, Free, Asleep
<1> QED  BY Zenon, <1>3, <1>4, <1>5 DEF IInv

\* Moving a condition to the front of its queue loses none.
LEMMA MovedFirst ==
  ASSUME NEW S, NEW s \in Seq(S), NEW c \in 1..Len(s)
  PROVE  LET new == <<s[c]>> \o RemoveAt(s, c) IN
         /\ new \in Seq(S)
         /\ \A i \in 1..Len(s) : \E j \in 1..Len(new) : new[j] = s[i]
<1> DEFINE one == <<s[c]>>
           rest == RemoveAt(s, c)
           new == one \o rest
<1>1. Len(s) \in Nat /\ s[c] \in S
  BY Zenon, LenProperties, ElementOfSeq
<1>2. one \in Seq(S) /\ Len(one) = 1 /\ one[1] = s[c]
  BY <1>1
<1>3. /\ rest \in Seq(S) /\ Len(rest) = Len(s) - 1
      /\ \A j \in 1..Len(s) - 1 : rest[j] = IF j < c THEN s[j] ELSE s[j + 1]
  BY Zenon, Removed
<1> HIDE DEF one, rest
<1>4. /\ new \in Seq(S) /\ Len(new) = Len(one) + Len(rest)
      /\ \A j \in 1..Len(one) + Len(rest) :
           new[j] = IF j <= Len(one) THEN one[j] ELSE rest[j - Len(one)]
  BY ZenonT(40), <1>2, <1>3, ConcatProperties
<1> HIDE DEF new
<1>5. ASSUME NEW i \in 1..Len(s) PROVE \E j \in 1..Len(new) : new[j] = s[i]
  <2>0. i \in Int /\ c \in Int /\ Len(new) = Len(s)
        /\ \A j \in 1..Len(s) : new[j] = IF j <= 1 THEN one[j] ELSE rest[j - 1]
    BY <1>1, <1>2, <1>3, <1>4
  <2>1. CASE i = c
    <3>1. 1 \in 1..Len(new) /\ new[1] = s[i]
      BY <1>1, <1>2, <2>0, <2>1
    <3> QED  BY Zenon, <3>1
  <2>2. CASE i < c
    <3>1. i + 1 \in 1..Len(new) /\ new[i + 1] = rest[i] /\ i \in 1..Len(s) - 1
      BY <1>1, <2>0, <2>2
    <3>2. rest[i] = s[i]
      BY Zenon, <1>3, <2>2, <3>1
    <3> QED  BY Zenon, <3>1, <3>2
  <2>3. CASE i > c
    <3>1. i \in 1..Len(new) /\ new[i] = rest[i - 1] /\ i - 1 \in 1..Len(s) - 1
      BY <1>1, <2>0, <2>3
    <3>2. ~(i - 1 < c) /\ (i - 1) + 1 = i
      BY <2>0, <2>3
    <3>3. rest[i - 1] = s[i]
      BY Zenon, <1>3, <3>1, <3>2
    <3> QED  BY Zenon, <3>1, <3>3
  <2> QED  BY <2>0, <2>1, <2>2, <2>3
<1> QED  BY Zenon, <1>4, <1>5 DEF new, one, rest

LEMMA DowngradeStep ==
  ASSUME IInv, NEW t \in Threads, Downgrade(t)
  PROVE  IInv'
<1> DEFINE p == First(pending)
           c == CHOOSE i \in DOMAIN pending[p] : pending[p][i].open
           moved == <<pending[p][c]>> \o RemoveAt(pending[p], c)
           new == [pending EXCEPT ![p] = moved]
<1>1. Typed /\ Queued /\ Exclusion /\ NoLostWakeup /\ pending \in Queues
      /\ th \in [Threads -> Call]
  BY Zenon DEF IInv, Typed
<1>2. exc = t /\ exc' = None /\ shr' = {t} /\ deleted' = deleted /\ ~deleted
  BY Zenon, <1>1, Parameters DEF Downgrade, Exclusion, Free
<1>3. Exclusion' /\ NoLostWakeup'
  BY Zenon, <1>2 DEF Exclusion, NoLostWakeup, Free
<1>4. exc' \in Threads \union {None} /\ shr' \in SUBSET Threads /\ deleted' \in BOOLEAN
  BY Zenon, <1>1, <1>2 DEF Typed
<1>5. CASE Nonempty(pending) # {} /\ \E i \in DOMAIN pending[p] : pending[p][i].open
  <2>1. p \in Prios /\ pending[p] \in Seq(Cond)
    BY Zenon, <1>1, <1>5, TopWaits DEF Queues
  <2>2. c \in 1..Len(pending[p])
    BY Zenon, <1>5, <2>1, LenProperties
  <2>3. /\ pending' = PopShared(new, p)
        /\ th' = Notify(th, pending[p][c].waiters)
    BY Zenon, <1>5 DEF Downgrade
  <2> HIDE DEF p, c
  <2>4. /\ moved \in Seq(Cond)
        /\ \A i \in 1..Len(pending[p]) : \E j \in 1..Len(moved) : moved[j] = pending[p][i]
    BY ZenonT(40), <2>1, <2>2, MovedFirst
  <2> HIDE DEF moved
  <2>5. new \in Queues /\ \A q \in Prios : new[q] = IF q = p THEN moved ELSE pending[q]
    BY Zenon, <1>1, <2>1, <2>4 DEF Queues
  <2> HIDE DEF new
  <2>6. \A u \in Threads, q \in Prios : In(pending, u, q) => In(new, u, q)
    BY SMTT(30), <2>4, <2>5 DEF In
  <2>7. /\ pending' \in Queues
        /\ \A u \in Threads, q \in Prios : In(new, u, q) => In(pending', u, q)
    BY Zenon, <2>1, <2>3, <2>5, Popped, SameTop
  <2>8. Queued' /\ th' \in [Threads -> Call]
    BY Zenon, <1>1, <2>3, <2>6, <2>7, NotifyKeeps
  <2> QED  BY ZenonT(60), <1>3, <1>4, <2>7, <2>8 DEF IInv, Typed
<1>6. CASE ~(Nonempty(pending) # {} /\ \E i \in DOMAIN pending[p] : pending[p][i].open)
  <2>1. pending' = pending /\ th' = th
    BY Zenon, <1>6 DEF Downgrade
  <2> QED  BY ZenonT(60), <1>1, <1>3, <1>4, <2>1 DEF IInv, Typed, Queued, Waiting, In
<1> QED  BY Zenon, <1>5, <1>6

LEMMA Invariance == Spec => []IInv
<1>1. Init => IInv
  <2> SUFFICES ASSUME Init PROVE IInv  BY Zenon
  <2>1. Typed
    BY Zenon, EmptySeq DEF Init, Typed, Queues, Call, Outside
  <2>2. Nonempty(pending) = {} /\ ~deleted /\ \A u \in Threads : th[u].st = "out" /\ ~th[u].del
    BY Zenon DEF Init, Nonempty, Outside
  <2> QED  BY Zenon, <2>1, <2>2 DEF Init, IInv, Queued, Waiting, Exclusion, Free, NoLostWakeup, Asleep
<1>2. IInv /\ [Next]_vars => IInv'
  <2> SUFFICES ASSUME IInv, [Next]_vars PROVE IInv'  BY Zenon
  <2>1. ASSUME NEW t \in Threads,
               \/ Acquire(t) \/ Expire(t) \/ Resume(t)
               \/ Release(t) \/ Downgrade(t) \/ Delete(t)
        PROVE  IInv'
    BY ZenonT(60), <2>1, AcquireStep, ExpireStep, ResumeStep, ReleaseStep, DowngradeStep, DeleteStep
  <2>2. CASE UNCHANGED vars
    BY Zenon, <2>2 DEF vars, IInv, Typed, Queued, Waiting, In, Exclusion, Free, NoLostWakeup, Asleep
  <2> QED  BY Zenon, <2>1, <2>2 DEF Next
<1> QED  BY <1>1, <1>2, PTL DEF Spec

\* Never two owners of which one is exclusive, and none after the deletion: what
\* the mode argument of acquire and the asserts of delete promise, with any
\* number of threads and priorities.
THEOREM SharedLockExcludes == Spec => []Exclusion
<1>1. IInv => Exclusion
  BY Zenon DEF IInv
<1> QED  BY <1>1, Invariance, PTL

\* Whenever the lock is free and threads wait for it, one that release or
\* downgrade notified, or whose wait ended, is at the top of the queue; after a
\* deletion nobody sleeps.
THEOREM NoWakeupIsLost == Spec => []NoLostWakeup
<1>1. IInv => NoLostWakeup
  BY Zenon DEF IInv
<1> QED  BY <1>1, Invariance, PTL

===============================================================================
