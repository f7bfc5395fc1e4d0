------------------------- MODULE ProviderGateProofs -------------------------
(***************************************************************************)
(* No idle slot, no leaked permit, no overtaking and no permit beyond the   *)
(* limit, for any number of requests, limits and reloads.  The counter of   *)
(* the gate is tied to the permits that are out (Counted); that nobody is   *)
(* overtaken needs to know that each queue holds only its class, everybody  *)
(* once (Sound), in the order of their arrival (Order).                     *)
(***************************************************************************)
EXTENDS ProviderGate, FunctionTheorems, FiniteSetTheorems, TLAPS

Slot == [capacity : Nat, inUse : Nat, waiters : [1..3 -> Seq(Request)]]

\* Each queue holds requests of its class, and nobody twice.
Sound(s) ==
    /\ s \in Slot
    /\ \A c \in 1..3 : \A i \in 1..Size(s, c) : ClassOf[s.waiters[c][i]] = c
    /\ \A c \in 1..3 : \A i, j \in 1..Size(s, c) :
          s.waiters[c][i] = s.waiters[c][j] => i = j

\* Who is to be served before a waiter waits, is of no lower class, and stands before it.
Order ==
    /\ \A r \in Request : \A q \in ahead[r] :
          call[r] = "waiting" /\ call[q] = "waiting" /\ ClassOf[q] <= ClassOf[r]
    /\ \A c \in 1..3 : \A i, j \in 1..Size(slot, c) :
          slot.waiters[c][i] \in ahead[slot.waiters[c][j]] => i < j

\* The permits counted are out, and they are all unless the gate was removed meanwhile.
Counted ==
    /\ IsFiniteSet(Permits)
    /\ slot.inUse <= Cardinality(Permits)
    /\ ~uncounted => slot.inUse = Cardinality(Permits)

Inv == TypeOK /\ Sound(slot) /\ (Gated \/ slot = NoSlot) /\ NoIdleSlot /\ Order /\ Counted

-----------------------------------------------------------------------------
(* dispatch *)

\* A set of numbers that is not empty has a least one: else what lies below all of
\* them would be a finite set as large as a part of it.
LEMMA Least ==
    ASSUME NEW S \in SUBSET Nat, S # {}
    PROVE  \E m \in S : \A n \in S : m <= n
<1> SUFFICES ASSUME \A m \in S : \E n \in S : n < m
             PROVE  FALSE
  OBVIOUS
<1>1. PICK k \in S : TRUE  OBVIOUS
<1> DEFINE T == {n \in 0..k : \A m \in S : n <= m}
           f == [n \in T |-> n + 1]
<1>2. 0 \in T  BY <1>1
<1>3. \A n \in T : n + 1 \in T
  <2> SUFFICES ASSUME NEW n \in T PROVE n + 1 \in T  OBVIOUS
  <2>1. n \notin S  OBVIOUS
  <2>2. \A m \in S : n < m  BY <2>1
  <2> QED  BY <1>1, <2>2
<1>4. f \in Injection(T, T)  BY <1>3 DEF Injection, IsInjective
<1>5. IsFiniteSet(T)
  <2>1. IsFiniteSet(0..k)  BY <1>1, FS_Interval
  <2> QED  BY <2>1, FS_Subset
<1>6. f \in Surjection(T, T)  BY <1>4, <1>5, FS_Injection
<1>7. \A n \in T : f[n] = n + 1 /\ n \in Nat  OBVIOUS
<1> HIDE DEF f, T
<1>8. PICK n \in T : f[n] = 0  BY <1>2, <1>6 DEF Surjection
<1> QED  BY <1>7, <1>8

\* How many waiters there are of each class, and of the first n.
LEMMA Lengths ==
    ASSUME NEW s \in Slot, Sound(s)
    PROVE  /\ Size(s, 1) \in Nat /\ Size(s, 2) \in Nat /\ Size(s, 3) \in Nat
           /\ \A c \in 1..3 : Size(s, c) \in Nat /\ s.waiters[c] \in Seq(Request)
           /\ Senders(s) \in Nat
           /\ \A c \in 1..3 : \A n \in Nat : From(s, n, c) \in Nat /\ From(s, n, c) <= Size(s, c)
<1>1. ASSUME NEW c \in 1..3
      PROVE  Size(s, c) \in Nat /\ s.waiters[c] \in Seq(Request)
  <2>1. s.waiters[c] \in Seq(Request)  BY DEF Slot
  <2> QED  BY <2>1 DEF Size
<1>2. Size(s, 1) \in Nat /\ Size(s, 2) \in Nat /\ Size(s, 3) \in Nat
  <2>1. 1 \in 1..3 /\ 2 \in 1..3 /\ 3 \in 1..3  OBVIOUS
  <2> QED  BY <1>1, <2>1, Zenon
<1>3. ASSUME NEW c \in 1..3, NEW n \in Nat
      PROVE  From(s, n, c) \in Nat /\ From(s, n, c) <= Size(s, c)
  <2>1. Before(s, c) \in Nat  BY <1>2 DEF Before
  <2> QED  BY <1>1, <2>1 DEF From
<1>4. Senders(s) \in Nat  BY <1>2 DEF Senders
<1> QED  BY <1>1, <1>2, <1>3, <1>4

\* Nobody is before the first, and all are before the last.
LEMMA Ends ==
    ASSUME NEW s \in Slot, Sound(s), NEW c \in 1..3
    PROVE  From(s, 0, c) = 0 /\ From(s, Senders(s), c) = Size(s, c)
<1>1. Size(s, 1) \in Nat /\ Size(s, 2) \in Nat /\ Size(s, 3) \in Nat
  BY Lengths
<1>2. CASE c = 1  BY <1>1, <1>2 DEF From, Before, Senders
<1>3. CASE c = 2  BY <1>1, <1>3 DEF From, Before, Senders
<1>4. CASE c = 3  BY <1>1, <1>4 DEF From, Before, Senders
<1> QED  BY <1>2, <1>3, <1>4

\* One more waiter is one more of one class.
LEMMA OneMore ==
    ASSUME NEW s \in Slot, Sound(s), NEW n \in Nat, n < Senders(s)
    PROVE  \E c \in 1..3 : /\ From(s, n + 1, c) = From(s, n, c) + 1
                           /\ \A d \in 1..3 \ {c} : From(s, n + 1, d) = From(s, n, d)
<1> DEFINE a == Size(s, 1)
           b == Size(s, 2)
           e == Size(s, 3)
<1>1. a \in Nat /\ b \in Nat /\ e \in Nat /\ Senders(s) = a + b + e
  BY Lengths DEF Senders
<1>2. \A m \in Nat : /\ From(s, m, 1) = IF m > a THEN a ELSE m
                     /\ From(s, m, 2) = IF m - a < 0 THEN 0 ELSE IF m - a > b THEN b ELSE m - a
                     /\ From(s, m, 3) = IF m - (a + b) < 0 THEN 0
                                        ELSE IF m - (a + b) > e THEN e ELSE m - (a + b)
  BY <1>1 DEF From, Before
<1> HIDE DEF a, b, e
<1>3. CASE n < a
  <2>1. /\ From(s, n + 1, 1) = From(s, n, 1) + 1
        /\ From(s, n + 1, 2) = From(s, n, 2) /\ From(s, n + 1, 3) = From(s, n, 3)
    BY <1>1, <1>2, <1>3
  <2> QED  BY <2>1
<1>4. CASE n >= a /\ n < a + b
  <2>1. /\ From(s, n + 1, 2) = From(s, n, 2) + 1
        /\ From(s, n + 1, 1) = From(s, n, 1) /\ From(s, n + 1, 3) = From(s, n, 3)
    BY <1>1, <1>2, <1>4
  <2> QED  BY <2>1
<1>5. CASE n >= a + b
  <2>1. /\ From(s, n + 1, 3) = From(s, n, 3) + 1
        /\ From(s, n + 1, 1) = From(s, n, 1) /\ From(s, n + 1, 2) = From(s, n, 2)
    BY <1>1, <1>2, <1>5
  <2> QED  BY <2>1
<1> QED  BY <1>1, <1>3, <1>4, <1>5

\* A class is looked at when the classes above it have nobody left.
LEMMA HighestFirst ==
    ASSUME NEW s \in Slot, Sound(s), NEW n \in Nat, NEW c \in 1..3, NEW d \in 1..3,
           From(s, n, c) > 0, d < c
    PROVE  From(s, n, d) = Size(s, d)
<1> DEFINE a == Size(s, 1)
           b == Size(s, 2)
           e == Size(s, 3)
<1>1. a \in Nat /\ b \in Nat /\ e \in Nat  BY Lengths
<1>2. /\ From(s, n, 1) = IF n > a THEN a ELSE n
      /\ From(s, n, 2) = IF n - a < 0 THEN 0 ELSE IF n - a > b THEN b ELSE n - a
      /\ From(s, n, 3) = IF n - (a + b) < 0 THEN 0
                         ELSE IF n - (a + b) > e THEN e ELSE n - (a + b)
  BY <1>1 DEF From, Before
<1>3. c \in {2, 3} /\ d \in {1, 2}  OBVIOUS
<1> HIDE DEF a, b, e
<1>4. CASE c = 2
  <2>1. d = 1 /\ From(s, n, 1) = a  BY <1>1, <1>2, <1>3, <1>4
  <2> QED  BY <2>1 DEF a
<1>5. CASE c = 3
  <2>1. From(s, n, 1) = a /\ From(s, n, 2) = b  BY <1>1, <1>2, <1>5
  <2> QED  BY <1>3, <2>1 DEF a, b
<1> QED  BY <1>3, <1>4, <1>5

\* Who has a sender, and who of the first n.
LEMMA Members ==
    ASSUME NEW s \in Slot, Sound(s), NEW n \in Nat
    PROVE  /\ First(s, n) \subseteq Queued(s)
           /\ Queued(s) = {r \in Request : \E c \in 1..3 : \E i \in 1..Size(s, c) : s.waiters[c][i] = r}
<1>1. \A c \in 1..3 : DOMAIN s.waiters[c] = 1..Size(s, c)
  <2> SUFFICES ASSUME NEW c \in 1..3 PROVE DOMAIN s.waiters[c] = 1..Size(s, c)  OBVIOUS
  <2>1. s.waiters[c] \in Seq(Request)  BY Lengths
  <2> QED  BY <2>1 DEF Size
<1>2. Queued(s) = {r \in Request : \E c \in 1..3 : \E i \in 1..Size(s, c) : s.waiters[c][i] = r}
  BY <1>1 DEF Queued
<1>3. \A c \in 1..3 : From(s, n, c) \in Nat /\ From(s, n, c) <= Size(s, c) /\ Size(s, c) \in Nat
  BY Lengths
<1>4. \A c \in 1..3 : \A i \in 1..From(s, n, c) : i \in 1..Size(s, c)  BY <1>3
<1>5. First(s, n) \subseteq Queued(s)  BY <1>2, <1>4 DEF First
<1> QED  BY <1>2, <1>5

\* Those of one class among the first n are finitely many.
LEMMA FewOfClass ==
    ASSUME NEW s \in Slot, Sound(s), NEW n \in Nat, NEW c \in 1..3
    PROVE  IsFiniteSet({s.waiters[c][i] : i \in 1..From(s, n, c)})
<1> DEFINE T == {s.waiters[c][i] : i \in 1..From(s, n, c)}
           f == [i \in 1..From(s, n, c) |-> s.waiters[c][i]]
<1>1. f \in Surjection(1..From(s, n, c), T)  BY DEF Surjection
<1>2. From(s, n, c) \in Nat  BY Lengths
<1>3. IsFiniteSet(1..From(s, n, c))  BY <1>2, FS_Interval
<1> QED  BY <1>1, <1>3, FS_Surjection

\* So are those who are sent a permit.
LEMMA FewAreSent ==
    ASSUME NEW s \in Slot, Sound(s), NEW n \in Nat
    PROVE  IsFiniteSet(Sent(s, n)) /\ Cardinality(Sent(s, n)) \in Nat
<1> DEFINE T(c) == {s.waiters[c][i] : i \in 1..From(s, n, c)}
<1>1. IsFiniteSet(T(1)) /\ IsFiniteSet(T(2)) /\ IsFiniteSet(T(3))
  <2>1. \A c \in 1..3 : IsFiniteSet(T(c))  BY FewOfClass
  <2>2. 1 \in 1..3 /\ 2 \in 1..3 /\ 3 \in 1..3  OBVIOUS
  <2> HIDE DEF T
  <2> QED  BY <2>1, <2>2
<1>2. Sent(s, n) \subseteq T(1) \cup T(2) \cup T(3)
  <2> SUFFICES ASSUME NEW r \in Sent(s, n) PROVE r \in T(1) \cup T(2) \cup T(3)  OBVIOUS
  <2>1. PICK c \in 1..3 : \E i \in 1..From(s, n, c) : s.waiters[c][i] = r  BY DEF Sent, First
  <2>2. r \in T(c)  BY <2>1
  <2>3. c = 1 \/ c = 2 \/ c = 3  OBVIOUS
  <2> HIDE DEF T
  <2> QED  BY <2>2, <2>3
<1> HIDE DEF T
<1>3. IsFiniteSet(T(1) \cup T(2))  BY <1>1, FS_Union
<1>4. IsFiniteSet(T(1) \cup T(2) \cup T(3))  BY <1>1, <1>3, FS_Union
<1>5. IsFiniteSet(Sent(s, n))  BY <1>2, <1>4, FS_Subset
<1> QED  BY <1>5, FS_CardinalityType

\* One more pop sends at most one more permit.
LEMMA OneMoreSent ==
    ASSUME NEW s \in Slot, Sound(s), NEW n \in Nat, n < Senders(s)
    PROVE  Cardinality(Sent(s, n + 1)) <= Cardinality(Sent(s, n)) + 1
<1>1. PICK c \in 1..3 : /\ From(s, n + 1, c) = From(s, n, c) + 1
                        /\ \A d \in 1..3 \ {c} : From(s, n + 1, d) = From(s, n, d)
  BY OneMore
<1> DEFINE x == s.waiters[c][From(s, n, c) + 1]
<1>2. Sent(s, n + 1) \subseteq Sent(s, n) \cup {x}
  <2> SUFFICES ASSUME NEW r \in Sent(s, n + 1), r # x PROVE r \in Sent(s, n)  OBVIOUS
  <2>1. r \in Request /\ call[r] = "waiting"  BY DEF Sent, First
  <2>2. PICK d \in 1..3 : \E i \in 1..From(s, n + 1, d) : s.waiters[d][i] = r  BY DEF Sent, First
  <2>3. PICK i \in 1..From(s, n + 1, d) : s.waiters[d][i] = r  BY <2>2
  <2>4. From(s, n, d) \in Nat  BY Lengths
  <2>5. i \in 1..From(s, n, d)  BY <1>1, <2>3, <2>4
  <2> QED  BY <2>1, <2>3, <2>5 DEF Sent, First
<1>3. IsFiniteSet(Sent(s, n)) /\ Cardinality(Sent(s, n)) \in Nat  BY FewAreSent
<1>4. IsFiniteSet(Sent(s, n + 1)) /\ Cardinality(Sent(s, n + 1)) \in Nat  BY FewAreSent
<1> HIDE DEF x
<1>5. /\ IsFiniteSet(Sent(s, n) \cup {x})
      /\ Cardinality(Sent(s, n) \cup {x}) \in {Cardinality(Sent(s, n)), Cardinality(Sent(s, n)) + 1}
  BY <1>3, FS_AddElement
<1>6. Cardinality(Sent(s, n + 1)) <= Cardinality(Sent(s, n) \cup {x})  BY <1>2, <1>5, FS_Subset
<1> QED  BY <1>3, <1>4, <1>5, <1>6

\* The loop ends: it pops as many as it goes on for, and no more.
LEMMA PoppedIs ==
    ASSUME NEW s \in Slot, Sound(s)
    PROVE  /\ Popped(s) \in Nat /\ Popped(s) <= Senders(s)
           /\ ~GoesOn(s, Popped(s))
           /\ \A m \in Nat : m < Popped(s) => GoesOn(s, m)
<1>1. Senders(s) \in Nat  BY Lengths
<1> DEFINE S == {n \in Nat : ~GoesOn(s, n)}
<1>2. Senders(s) \in S  BY <1>1 DEF GoesOn
<1>3. PICK n \in S : \A m \in S : n <= m  BY <1>2, Least
<1>4. n \in 0..Senders(s) /\ ~GoesOn(s, n) /\ \A m \in 0..(n - 1) : GoesOn(s, m)  BY <1>1, <1>2, <1>3
<1>5. /\ Popped(s) \in 0..Senders(s)
      /\ ~GoesOn(s, Popped(s)) /\ \A m \in 0..(Popped(s) - 1) : GoesOn(s, m)
  BY <1>4 DEF Popped
<1> QED  BY <1>1, <1>5

\* What dispatch leaves: each queue without those popped.
LEMMA Left ==
    ASSUME NEW s \in Slot, Sound(s)
    PROVE  /\ Dispatch(s) \in Slot
           /\ Dispatch(s).capacity = s.capacity
           /\ Dispatch(s).inUse = s.inUse + Cardinality(Sent(s, Popped(s)))
           /\ \A c \in 1..3 :
                 /\ Size(Dispatch(s), c) = Size(s, c) - From(s, Popped(s), c)
                 /\ \A i \in 1..Size(Dispatch(s), c) :
                       Dispatch(s).waiters[c][i] = s.waiters[c][From(s, Popped(s), c) + i]
<1> DEFINE n == Popped(s)
           d == Dispatch(s)
           w == [c \in 1..3 |-> SubSeq(s.waiters[c], From(s, n, c) + 1, Size(s, c))]
<1>1. n \in Nat  BY PoppedIs
<1> HIDE DEF n
<1>2. Cardinality(Sent(s, n)) \in Nat  BY <1>1, FewAreSent
<1>3. ASSUME NEW c \in 1..3
      PROVE  /\ w[c] \in Seq(Request)
             /\ Len(w[c]) = Size(s, c) - From(s, n, c)
             /\ \A i \in 1..Len(w[c]) : w[c][i] = s.waiters[c][From(s, n, c) + i]
  <2>1. From(s, n, c) \in Nat /\ From(s, n, c) <= Size(s, c) /\ Size(s, c) \in Nat
        /\ s.waiters[c] \in Seq(Request)
    BY <1>1, Lengths
  <2> DEFINE q == s.waiters[c]
             k == From(s, n, c)
  <2>2. q \in Seq(Request) /\ k \in Nat /\ k <= Len(q) /\ Len(q) = Size(s, c)  BY <2>1 DEF Size
  <2>3. w[c] = SubSeq(q, k + 1, Len(q))  BY <2>2
  <2> HIDE DEF q, k, w
  <2>4. /\ SubSeq(q, k + 1, Len(q)) \in Seq(Request)
        /\ Len(SubSeq(q, k + 1, Len(q))) = Len(q) - k
        /\ \A i \in 1..(Len(q) - k) : SubSeq(q, k + 1, Len(q))[i] = q[k + i]
    BY <2>2
  <2>5. w[c] \in Seq(Request) /\ Len(w[c]) = Len(q) - k /\ \A i \in 1..Len(w[c]) : w[c][i] = q[k + i]
    BY <2>3, <2>4
  <2> QED  BY <2>2, <2>5 DEF q, k
<1>4. w \in [1..3 -> Seq(Request)]
  <2>1. w = [c \in 1..3 |-> w[c]]  OBVIOUS
  <2> HIDE DEF w
  <2> QED  BY <1>3, <2>1
<1>5. d = [s EXCEPT !.inUse = @ + Cardinality(Sent(s, n)), !.waiters = w]
  BY DEF Dispatch, n
<1> HIDE DEF w, d
<1>6. d \in Slot /\ d.capacity = s.capacity /\ d.waiters = w
      /\ d.inUse = s.inUse + Cardinality(Sent(s, n))
  <2>1. s.inUse \in Nat  BY DEF Slot
  <2>2. PICK x \in Nat : x = s.inUse + Cardinality(Sent(s, n))  BY <1>2, <2>1
  <2>3. d = [s EXCEPT !.inUse = x, !.waiters = w]  BY <1>5, <2>2
  <2>4. d \in Slot /\ d.capacity = s.capacity /\ d.waiters = w /\ d.inUse = x
    BY <1>4, <2>2, <2>3 DEF Slot
  <2> QED  BY <2>2, <2>4
<1>7. \A c \in 1..3 : /\ Size(d, c) = Size(s, c) - From(s, n, c)
                      /\ \A i \in 1..Size(d, c) : d.waiters[c][i] = s.waiters[c][From(s, n, c) + i]
  BY <1>3, <1>6 DEF Size
<1> QED  BY <1>6, <1>7 DEF n, d

\* The numbers of those who are left lie behind those popped.
LEMMA Behind ==
    ASSUME NEW s \in Slot, Sound(s), NEW c \in 1..3
    PROVE  /\ \A i \in 1..Size(Dispatch(s), c) :
                 From(s, Popped(s), c) + i \in 1..Size(s, c)
           /\ \A j \in 1..Size(s, c) : j > From(s, Popped(s), c) =>
                 j - From(s, Popped(s), c) \in 1..Size(Dispatch(s), c)
<1>1. Popped(s) \in Nat  BY PoppedIs
<1>2. From(s, Popped(s), c) \in Nat /\ From(s, Popped(s), c) <= Size(s, c) /\ Size(s, c) \in Nat
  BY <1>1, Lengths
<1>3. Size(Dispatch(s), c) = Size(s, c) - From(s, Popped(s), c)  BY Left
<1> QED  BY <1>2, <1>3

LEMMA LeftSound ==
    ASSUME NEW s \in Slot, Sound(s)
    PROVE  Sound(Dispatch(s))
<1> DEFINE d == Dispatch(s)
<1>1. d \in Slot  BY Left
<1>2. ASSUME NEW c \in 1..3
      PROVE  /\ \A i \in 1..Size(d, c) : ClassOf[d.waiters[c][i]] = c
             /\ \A i, j \in 1..Size(d, c) : d.waiters[c][i] = d.waiters[c][j] => i = j
  <2> DEFINE k == From(s, Popped(s), c)
  <2>1. k \in Nat
    <3>1. Popped(s) \in Nat  BY PoppedIs
    <3> QED  BY <3>1, Lengths
  <2>2. \A i \in 1..Size(d, c) : k + i \in 1..Size(s, c)  BY Behind
  <2>3. \A i \in 1..Size(d, c) : d.waiters[c][i] = s.waiters[c][k + i]  BY Left
  <2>4. /\ \A i \in 1..Size(s, c) : ClassOf[s.waiters[c][i]] = c
        /\ \A i, j \in 1..Size(s, c) : s.waiters[c][i] = s.waiters[c][j] => i = j
    BY DEF Sound
  <2> HIDE DEF k, d
  <2>5. ASSUME NEW i \in 1..Size(d, c), NEW j \in 1..Size(d, c), d.waiters[c][i] = d.waiters[c][j]
        PROVE  i = j
    <3>1. k + i = k + j  BY <2>2, <2>3, <2>4, <2>5
    <3> QED  BY <2>1, <3>1
  <2> QED  BY <2>2, <2>3, <2>4, <2>5
<1> HIDE DEF d
<1>3. Sound(d)  BY <1>1, <1>2 DEF Sound
<1> QED  BY <1>3 DEF d

\* Who is left is who was not popped.
LEMMA LeftQueued ==
    ASSUME NEW s \in Slot, Sound(s)
    PROVE  Queued(Dispatch(s)) = Queued(s) \ First(s, Popped(s))
<1> DEFINE d == Dispatch(s)
           n == Popped(s)
<1>1. n \in Nat /\ d \in Slot /\ Sound(d)  BY PoppedIs, Left, LeftSound
<1>2. /\ Queued(s) = {r \in Request : \E c \in 1..3 : \E i \in 1..Size(s, c) : s.waiters[c][i] = r}
      /\ Queued(d) = {r \in Request : \E c \in 1..3 : \E i \in 1..Size(d, c) : d.waiters[c][i] = r}
  <2>1. 0 \in Nat  OBVIOUS
  <2> QED  BY <1>1, <2>1, Members
<1>3. \A c \in 1..3 : From(s, n, c) \in Nat /\ From(s, n, c) <= Size(s, c) /\ Size(s, c) \in Nat
  BY <1>1, Lengths
<1>4. \A c \in 1..3 : \A i \in 1..Size(d, c) :
         From(s, n, c) + i \in 1..Size(s, c) /\ d.waiters[c][i] = s.waiters[c][From(s, n, c) + i]
  BY Left, Behind
<1>5. \A c \in 1..3 : \A j \in 1..Size(s, c) : j > From(s, n, c) => j - From(s, n, c) \in 1..Size(d, c)
  BY Behind
<1> HIDE DEF d, n
<1>6. ASSUME NEW r \in Queued(d)
      PROVE  r \in Queued(s) /\ r \notin First(s, n)
  <2>1. PICK c \in 1..3 : \E i \in 1..Size(d, c) : d.waiters[c][i] = r  BY <1>2
  <2>2. PICK i \in 1..Size(d, c) : d.waiters[c][i] = r  BY <2>1
  <2>3. From(s, n, c) + i \in 1..Size(s, c) /\ s.waiters[c][From(s, n, c) + i] = r  BY <1>4, <2>2
  <2>4. r \in Queued(s)  BY <1>2, <2>3
  <2>5. ASSUME NEW b \in 1..3, NEW j \in 1..From(s, n, b), s.waiters[b][j] = r
        PROVE  FALSE
    <3>1. j \in 1..Size(s, b)  BY <1>3
    <3>2. b = c  BY <2>3, <2>5, <3>1 DEF Sound
    <3>3. j = From(s, n, c) + i  BY <2>3, <2>5, <3>1, <3>2 DEF Sound
    <3> QED  BY <1>3, <3>2, <3>3
  <2> QED  BY <2>4, <2>5 DEF First
<1>7. ASSUME NEW r \in Queued(s), r \notin First(s, n)
      PROVE  r \in Queued(d)
  <2>1. PICK c \in 1..3 : \E i \in 1..Size(s, c) : s.waiters[c][i] = r  BY <1>2
  <2>2. PICK j \in 1..Size(s, c) : s.waiters[c][j] = r  BY <2>1
  <2>3. r \in Request  BY <1>2
  <2>4. j > From(s, n, c)
    <3>1. j \notin 1..From(s, n, c)  BY <1>7, <2>2, <2>3 DEF First
    <3> QED  BY <1>3, <3>1
  <2>5. j - From(s, n, c) \in 1..Size(d, c)  BY <1>5, <2>4
  <2>6. From(s, n, c) + (j - From(s, n, c)) = j  BY <1>3
  <2>7. d.waiters[c][j - From(s, n, c)] = r  BY <1>4, <2>2, <2>5, <2>6
  <2> QED  BY <1>2, <2>3, <2>5, <2>7
<1>8. Queued(d) = Queued(s) \ First(s, n)  BY <1>6, <1>7
<1> QED  BY <1>8 DEF d, n

\* A permit that dispatch leaves free is left because nobody waits.
LEMMA LeftFull ==
    ASSUME NEW s \in Slot, Sound(s), Dispatch(s).inUse < Dispatch(s).capacity
    PROVE  Queued(Dispatch(s)) = {}
<1> DEFINE d == Dispatch(s)
           n == Popped(s)
<1>1. n \in Nat /\ n <= Senders(s) /\ ~GoesOn(s, n)  BY PoppedIs
<1>2. Senders(s) \in Nat  BY Lengths
<1>3. n = Senders(s)
  <2>1. s.inUse + Cardinality(Sent(s, n)) < s.capacity  BY Left
  <2> QED  BY <1>1, <1>2, <2>1 DEF GoesOn
<1>4. ASSUME NEW c \in 1..3 PROVE Size(d, c) = 0
  <2>1. From(s, n, c) = Size(s, c)  BY <1>3, Ends
  <2>2. Size(d, c) = Size(s, c) - From(s, n, c) /\ Size(s, c) \in Nat  BY Left, Lengths
  <2> QED  BY <2>1, <2>2
<1>5. d \in Slot /\ Sound(d) /\ 0 \in Nat  BY Left, LeftSound
<1>6. Queued(d) = {r \in Request : \E c \in 1..3 : \E i \in 1..Size(d, c) : d.waiters[c][i] = r}
  BY <1>5, Members
<1> HIDE DEF d
<1>7. Queued(d) = {}  BY <1>4, <1>6
<1> QED  BY <1>7 DEF d

\* No permit is sent beyond the capacity.
LEMMA LeftWithin ==
    ASSUME NEW s \in Slot, Sound(s), Sent(s, Popped(s)) # {}
    PROVE  Dispatch(s).inUse <= Dispatch(s).capacity
<1> DEFINE n == Popped(s)
<1>1. n \in Nat /\ n <= Senders(s) /\ \A m \in Nat : m < n => GoesOn(s, m)  BY PoppedIs
<1>2. Senders(s) \in Nat /\ s.inUse \in Nat /\ s.capacity \in Nat  BY Lengths DEF Slot
<1>3. /\ Dispatch(s).capacity = s.capacity
      /\ Dispatch(s).inUse = s.inUse + Cardinality(Sent(s, n))
  BY Left
<1>4. n # 0
  <2>1. \A c \in 1..3 : From(s, 0, c) = 0  BY Ends
  <2>2. Sent(s, 0) = {}  BY <2>1 DEF Sent, First
  <2> QED  BY <2>2
<1> HIDE DEF n
<1>5. n - 1 \in Nat /\ n - 1 < n /\ (n - 1) + 1 = n /\ n - 1 < Senders(s)  BY <1>1, <1>2, <1>4
<1>6. s.inUse + Cardinality(Sent(s, n - 1)) < s.capacity  BY <1>1, <1>5 DEF GoesOn
<1>7. Cardinality(Sent(s, n)) <= Cardinality(Sent(s, n - 1)) + 1
  <2>1. Cardinality(Sent(s, (n - 1) + 1)) <= Cardinality(Sent(s, n - 1)) + 1  BY <1>5, OneMoreSent
  <2> QED  BY <1>5, <2>1
<1>8. Cardinality(Sent(s, n)) \in Nat /\ Cardinality(Sent(s, n - 1)) \in Nat
  BY <1>1, <1>5, FewAreSent
<1>9. s.inUse + Cardinality(Sent(s, n)) <= s.capacity  BY <1>2, <1>6, <1>7, <1>8
<1> QED  BY <1>3, <1>9

\* Who is popped is of no lower class than who is left, and stands before it.
LEMMA PoppedFirst ==
    ASSUME NEW s \in Slot, Sound(s), NEW r \in First(s, Popped(s)), NEW q \in Queued(Dispatch(s))
    PROVE  /\ ClassOf[q] >= ClassOf[r]
           /\ ClassOf[q] = ClassOf[r] => \E c \in 1..3 : \E i, j \in 1..Size(s, c) :
                 s.waiters[c][i] = r /\ s.waiters[c][j] = q /\ i < j
<1> DEFINE n == Popped(s)
<1>1. n \in Nat  BY PoppedIs
<1>2. PICK c \in 1..3 : \E i \in 1..From(s, n, c) : s.waiters[c][i] = r  BY DEF First
<1>3. PICK i \in 1..From(s, n, c) : s.waiters[c][i] = r  BY <1>2
<1>4. q \in Queued(s) /\ q \notin First(s, n)  BY LeftQueued
<1>5. PICK b \in 1..3 : \E j \in 1..Size(s, b) : s.waiters[b][j] = q  BY <1>1, <1>4, Members
<1>6. PICK j \in 1..Size(s, b) : s.waiters[b][j] = q  BY <1>5
<1>7. \A k \in 1..3 : From(s, n, k) \in Nat /\ From(s, n, k) <= Size(s, k) /\ Size(s, k) \in Nat
  BY <1>1, Lengths
<1>8. q \in Request
  BY <1>1, <1>4, Members
<1> HIDE DEF n
<1>9. j > From(s, n, b)
  <2>1. j \notin 1..From(s, n, b)  BY <1>4, <1>6, <1>8 DEF First
  <2> QED  BY <1>7, <2>1
<1>10. i \in 1..Size(s, c)  BY <1>7
<1>11. ClassOf[r] = c /\ ClassOf[q] = b  BY <1>3, <1>6, <1>10 DEF Sound
<1>12. b >= c
  <2> SUFFICES ASSUME b < c PROVE FALSE  OBVIOUS
  <2>1. From(s, n, c) > 0  BY <1>7
  <2>2. From(s, n, b) = Size(s, b)  BY <1>1, <2>1, HighestFirst
  <2> QED  BY <1>7, <1>9, <2>2
<1>13. b = c => i < j  BY <1>7, <1>9
<1> QED  BY <1>3, <1>6, <1>10, <1>11, <1>12, <1>13

-----------------------------------------------------------------------------
(* Steps that dispatch *)

\* What the invariant says of the slot, and of what has its queues.
LEMMA SlotIs ==
    ASSUME Inv
    PROVE  /\ slot \in Slot /\ Sound(slot)
           /\ \A r \in Request : call[r] \in {"waiting", "gone"} <=> r \in Queued(slot)
           /\ \A r \in Request : call[r] \in CallPc /\ ClassOf[r] \in 1..3 /\ ahead[r] \subseteq Request
           /\ Queued(slot) \subseteq Request
BY GateAssumption DEF Inv, TypeOK, Sound, Queued

LEMMA SameQueues ==
    ASSUME NEW s \in Slot, NEW t \in Slot, Sound(t), s.waiters = t.waiters
    PROVE  /\ Sound(s) /\ Queued(s) = Queued(t)
           /\ \A c \in 1..3 : Size(s, c) = Size(t, c)
BY DEF Sound, Size, Queued

\* A dispatch hands a permit to each waiter it pops, and forgets who has gone.
LEMMA WhoIsServed ==
    ASSUME Inv, NEW s \in Slot, s.waiters = slot.waiters, NEW done \in SUBSET Permits,
           slot' = Dispatch(s), Answered(done, "idle")
    PROVE  /\ \A q \in Request : call'[q] =
                 IF q \in done THEN "idle"
                 ELSE IF q \in Sent(s, Popped(s)) THEN "handed"
                 ELSE IF q \in First(s, Popped(s)) THEN "idle"
                 ELSE call[q]
           /\ \A q \in First(s, Popped(s)) : q \in Request /\ call[q] \in {"waiting", "gone"}
           /\ call' \in [Request -> CallPc]
           /\ Queued(slot') = Queued(slot) \ First(s, Popped(s))
           /\ \A q \in Request : call'[q] \in {"waiting", "gone"} <=> q \in Queued(slot')
<1> DEFINE F == First(s, Popped(s))
<1>1. Sound(s) /\ Queued(s) = Queued(slot)  BY SlotIs, SameQueues
<1>2. Queued(slot') = Queued(slot) \ F  BY <1>1, LeftQueued
<1>3. F \subseteq Queued(slot)
  <2>1. Popped(s) \in Nat  BY <1>1, PoppedIs
  <2> QED  BY <1>1, <2>1, Members
<1>4. \A q \in F : q \in Request /\ call[q] \in {"waiting", "gone"}  BY <1>3, SlotIs
<1>5. \A q \in done : call[q] \in {"handed", "holding"}  BY DEF Permits
<1>6. Sent(s, Popped(s)) = {q \in F : call[q] = "waiting"}  BY DEF Sent
<1> HIDE DEF F
<1>7. \A q \in Request : call'[q] =
        IF q \in done THEN "idle"
        ELSE IF call[q] = "waiting" /\ q \notin Queued(slot') THEN "handed"
        ELSE IF call[q] = "gone" /\ q \notin Queued(slot') THEN "idle"
        ELSE call[q]
  BY DEF Answered
<1>8. \A q \in Request : call[q] \in {"waiting", "gone"} <=> q \in Queued(slot)  BY SlotIs
<1>9. ASSUME NEW q \in Request
      PROVE  call'[q] = IF q \in done THEN "idle"
                        ELSE IF q \in Sent(s, Popped(s)) THEN "handed"
                        ELSE IF q \in F THEN "idle"
                        ELSE call[q]
  BY <1>2, <1>3, <1>4, <1>5, <1>6, <1>7, <1>8
<1>10. \A q \in Request : call'[q] \in CallPc
  <2>1. \A q \in Request : call[q] \in CallPc  BY SlotIs
  <2> QED  BY <1>9, <2>1 DEF CallPc
<1>11. call' \in [Request -> CallPc]  BY <1>10 DEF Answered
<1>12. ASSUME NEW q \in Request
       PROVE  call'[q] \in {"waiting", "gone"} <=> q \in Queued(slot')
  BY <1>2, <1>4, <1>5, <1>6, <1>8, <1>9
<1> QED  BY <1>2, <1>4, <1>9, <1>11, <1>12 DEF F

\* What is remembered of who was first stays typed.
LEMMA AheadTyped ==
    ASSUME TypeOK, Overtakes
    PROVE  ahead' \in [Request -> SUBSET Request]
BY DEF Overtakes, TypeOK, Waiting

\* Everybody who waits keeps its place.
LEMMA OrderServed ==
    ASSUME Inv, NEW s \in Slot, s.waiters = slot.waiters, NEW done \in SUBSET Permits,
           slot' = Dispatch(s), Answered(done, "idle"), Overtakes
    PROVE  Order'
<1>1. Sound(s) /\ \A c \in 1..3 : Size(s, c) = Size(slot, c)  BY SlotIs, SameQueues
<1>2. \A q \in Request : call'[q] = "waiting" => call[q] = "waiting"
  BY WhoIsServed
<1>3. \A r \in Request : call'[r] = "waiting" => ahead'[r] = {q \in ahead[r] : call'[q] = "waiting"}
  BY <1>2 DEF Overtakes
<1>4. \A r \in Request : call'[r] # "waiting" => ahead'[r] = {}
  BY DEF Overtakes
<1>5. ASSUME NEW r \in Request, NEW q \in ahead'[r]
      PROVE  call'[r] = "waiting" /\ call'[q] = "waiting" /\ ClassOf[q] <= ClassOf[r]
  <2>1. call'[r] = "waiting"  BY <1>4, <1>5
  <2>2. q \in ahead[r] /\ call'[q] = "waiting"  BY <1>3, <1>5, <2>1
  <2> QED  BY <2>1, <2>2 DEF Inv, Order
<1>6. ASSUME NEW c \in 1..3, NEW i \in 1..Size(slot', c), NEW j \in 1..Size(slot', c),
             slot'.waiters[c][i] \in ahead'[slot'.waiters[c][j]]
      PROVE  i < j
  <2> DEFINE k == From(s, Popped(s), c)
  <2>1. k \in Nat
    <3>1. Popped(s) \in Nat  BY <1>1, PoppedIs
    <3> QED  BY <1>1, <3>1, Lengths
  <2>2. k + i \in 1..Size(slot, c) /\ k + j \in 1..Size(slot, c)  BY <1>1, Behind
  <2>3. /\ slot'.waiters[c][i] = slot.waiters[c][k + i]
        /\ slot'.waiters[c][j] = slot.waiters[c][k + j]
    BY <1>1, Left
  <2> HIDE DEF k
  <2>4. slot.waiters[c][k + j] \in Request
    <3>1. slot.waiters[c] \in Seq(Request) /\ Size(slot, c) = Len(slot.waiters[c])
      BY SlotIs, Lengths DEF Size
    <3> QED  BY <2>2, <3>1
  <2>5. slot.waiters[c][k + i] \in ahead[slot.waiters[c][k + j]]
    <3>1. call'[slot.waiters[c][k + j]] = "waiting"  BY <1>4, <1>6, <2>3, <2>4
    <3> QED  BY <1>3, <1>6, <2>3, <2>4, <3>1
  <2>6. k + i < k + j  BY <2>2, <2>5 DEF Inv, Order
  <2> QED  BY <2>1, <2>6
<1> QED  BY <1>5, <1>6 DEF Order, Size

\* The permits sent are counted.
LEMMA CountedServed ==
    ASSUME Inv, NEW s \in Slot, s.waiters = slot.waiters, NEW done \in SUBSET Permits,
           slot' = Dispatch(s), Answered(done, "idle"),
           s.inUse <= Cardinality(Permits \ done),
           ~uncounted => s.inUse = Cardinality(Permits \ done)
    PROVE  /\ Permits' = (Permits \ done) \cup Sent(s, Popped(s))
           /\ IsFiniteSet(Permits') /\ Cardinality(Permits') \in Nat
           /\ slot'.inUse <= Cardinality(Permits')
           /\ ~uncounted => slot'.inUse = Cardinality(Permits')
<1> DEFINE N == Sent(s, Popped(s))
           K == Permits \ done
<1>1. Sound(s)  BY SlotIs, SameQueues
<1>2. IsFiniteSet(N) /\ Cardinality(N) \in Nat  BY <1>1, PoppedIs, FewAreSent
<1>3. IsFiniteSet(K) /\ Cardinality(K) \in Nat
  <2>1. IsFiniteSet(Permits)  BY DEF Inv, Counted
  <2>2. IsFiniteSet(K)  BY <2>1, FS_Subset
  <2> QED  BY <2>2, FS_CardinalityType
<1>4. N \cap K = {}  BY DEF Sent, Permits
<1>5. N \cap done = {}  BY DEF Sent, Permits
<1>6. Permits' = K \cup N
  <2>1. \A q \in Request : call'[q] =
          IF q \in done THEN "idle"
          ELSE IF q \in N THEN "handed"
          ELSE IF q \in First(s, Popped(s)) THEN "idle"
          ELSE call[q]
    BY WhoIsServed
  <2>2. \A q \in First(s, Popped(s)) : q \in Request /\ call[q] \in {"waiting", "gone"}  BY WhoIsServed
  <2>3. N \subseteq First(s, Popped(s))  BY DEF Sent
  <2> HIDE DEF N
  <2>4. \A q \in Request : q \in Permits' <=> q \in K \/ q \in N
    BY <1>5, <2>1, <2>2, <2>3 DEF Permits
  <2>5. Permits' \subseteq Request /\ K \subseteq Request /\ N \subseteq Request
    BY <2>2, <2>3 DEF Permits
  <2> QED  BY <2>4, <2>5
<1> HIDE DEF N, K
<1>7. IsFiniteSet(K \cup N) /\ Cardinality(K \cup N) = Cardinality(K) + Cardinality(N)
  <2>1. Cardinality(K \cap N) = 0
    <3>1. K \cap N = {}  BY <1>4
    <3> QED  BY <3>1, FS_EmptySet
  <2>2. /\ IsFiniteSet(K \cup N)
        /\ Cardinality(K \cup N) = Cardinality(K) + Cardinality(N) - Cardinality(K \cap N)
    BY <1>2, <1>3, FS_Union
  <2> QED  BY <1>2, <1>3, <2>1, <2>2
<1>8. slot'.inUse = s.inUse + Cardinality(N) /\ s.inUse \in Nat
  BY <1>1, Left DEF N, Slot
<1>9. slot'.inUse <= Cardinality(K \cup N)  BY <1>2, <1>3, <1>7, <1>8 DEF K
<1>10. ~uncounted => slot'.inUse = Cardinality(K \cup N)  BY <1>2, <1>3, <1>7, <1>8 DEF K
<1>11. Cardinality(K \cup N) \in Nat  BY <1>2, <1>3, <1>7
<1> QED  BY <1>6, <1>7, <1>9, <1>10, <1>11 DEF N, K

\* No permit goes to somebody who has another to let pass.
InTurn == \A r, q \in Request :
    /\ call[r] \notin {"handed", "holding"} /\ call'[r] \in {"handed", "holding"}
    /\ call[q] = "waiting" /\ call'[q] = "waiting"
    => ClassOf[q] >= ClassOf[r] /\ q \notin ahead[r] /\ call[r] # "idle"

\* What every step does.
Kept == Inv' /\ InTurn /\ (uncounted \/ WithinLimit)

\* Who is sent a permit overtakes nobody.
LEMMA InTurnServed ==
    ASSUME Inv, NEW s \in Slot, s.waiters = slot.waiters, NEW done \in SUBSET Permits,
           slot' = Dispatch(s), Answered(done, "idle")
    PROVE  InTurn
<1> SUFFICES ASSUME NEW r \in Request, NEW q \in Request,
                    call[r] \notin {"handed", "holding"}, call'[r] \in {"handed", "holding"},
                    call[q] = "waiting", call'[q] = "waiting"
             PROVE  ClassOf[q] >= ClassOf[r] /\ q \notin ahead[r] /\ call[r] # "idle"
  BY DEF InTurn
<1>1. Sound(s) /\ \A c \in 1..3 : Size(s, c) = Size(slot, c)  BY SlotIs, SameQueues
<1>2. r \in Sent(s, Popped(s))  BY WhoIsServed
<1>3. r \in First(s, Popped(s)) /\ call[r] = "waiting"  BY <1>2 DEF Sent
<1>4. q \in Queued(Dispatch(s))  BY WhoIsServed
<1>5. ClassOf[q] >= ClassOf[r]  BY <1>1, <1>3, <1>4, PoppedFirst
<1>6. ASSUME q \in ahead[r] PROVE FALSE
  <2>1. ClassOf[q] <= ClassOf[r]  BY <1>6 DEF Inv, Order
  <2>2. ClassOf[q] \in 1..3 /\ ClassOf[r] \in 1..3  BY SlotIs
  <2>3. ClassOf[q] = ClassOf[r]  BY <1>5, <2>1, <2>2
  <2>4. PICK c \in 1..3 : \E i, j \in 1..Size(s, c) :
              s.waiters[c][i] = r /\ s.waiters[c][j] = q /\ i < j
    BY <1>1, <1>3, <1>4, <2>3, PoppedFirst
  <2>5. PICK i \in 1..Size(slot, c), j \in 1..Size(slot, c) :
              slot.waiters[c][i] = r /\ slot.waiters[c][j] = q /\ i < j
    BY <1>1, <2>4
  <2>6. j < i  BY <1>6, <2>5 DEF Inv, Order
  <2> QED  BY <2>5, <2>6
<1> QED  BY <1>3, <1>5, <1>6

\* A step that dispatches keeps the invariant, overtakes nobody, and sends no permit
\* beyond the limit.
LEMMA Serves ==
    ASSUME Inv, NEW s \in Slot, s.waiters = slot.waiters, s.capacity > 0,
           NEW done \in SUBSET Permits,
           slot' = Dispatch(s), Answered(done, "idle"), Overtakes, uncounted' = uncounted,
           s.inUse <= Cardinality(Permits \ done),
           ~uncounted => s.inUse = Cardinality(Permits \ done)
    PROVE  Kept
<1>1. Sound(s)  BY SlotIs, SameQueues
<1>2. slot' \in Slot /\ Sound(slot') /\ slot'.capacity = s.capacity  BY <1>1, Left, LeftSound
<1>3. Sound(slot)'  BY <1>2 DEF Sound, Size
<1>4. Gated'  BY <1>2 DEF Gated
<1>5. slot'.inUse < slot'.capacity => Queued(slot') = {}  BY <1>1, LeftFull
<1>6. NoIdleSlot'  BY <1>5 DEF NoIdleSlot, Queued
<1>7. TypeOK'
  <2>1. slot'.capacity \in Nat /\ slot'.inUse \in Nat /\ slot'.waiters \in [1..3 -> Seq(Request)]
    BY <1>2 DEF Slot
  <2>2. call' \in [Request -> CallPc]  BY WhoIsServed
  <2>3. ahead' \in [Request -> SUBSET Request]  BY AheadTyped DEF Inv
  <2>4. uncounted' \in BOOLEAN  BY DEF Inv, TypeOK
  <2>5. \A q \in Request : call'[q] \in {"waiting", "gone"} <=> q \in Queued(slot')  BY WhoIsServed
  <2>6. \A q \in Request : (call[q] \in {"waiting", "gone"} <=> q \in Queued(slot))'
    BY <2>5 DEF Queued
  <2> QED  BY <2>1, <2>2, <2>3, <2>4, <2>6 DEF TypeOK
<1>8. /\ Permits' = (Permits \ done) \cup Sent(s, Popped(s))
      /\ IsFiniteSet(Permits') /\ Cardinality(Permits') \in Nat
      /\ slot'.inUse <= Cardinality(Permits')
      /\ ~uncounted => slot'.inUse = Cardinality(Permits')
  BY CountedServed
<1>9. ~uncounted' => slot'.inUse = Cardinality(Permits')  BY <1>8, Zenon
<1>10. Counted'  BY <1>8, <1>9 DEF Counted
<1>11. Inv'  BY <1>3, <1>4, <1>6, <1>7, <1>10, OrderServed DEF Inv
<1>12. ASSUME ~uncounted PROVE WithinLimit
  <2>1. CASE Sent(s, Popped(s)) = {}
    BY <1>8, <2>1 DEF WithinLimit
  <2>2. CASE Sent(s, Popped(s)) # {}
    <3>1. slot'.inUse <= slot'.capacity  BY <1>1, <2>2, LeftWithin
    <3>2. slot'.inUse = Cardinality(Permits')  BY <1>8, <1>12
    <3> QED  BY <3>1, <3>2 DEF WithinLimit
  <2> QED  BY <2>1, <2>2
<1> QED  BY <1>11, <1>12, InTurnServed DEF Kept

-----------------------------------------------------------------------------
(* Steps that do not *)

\* A request that moves on its own: nobody else's place changes.
LEMMA OneAnswered ==
    ASSUME Inv, NEW r \in Request, NEW pc \in CallPc, Answered({r}, pc),
           Queued(slot') \ {r} = Queued(slot) \ {r}
    PROVE  /\ call'[r] = pc
           /\ \A q \in Request : q # r => call'[q] = call[q]
           /\ call' \in [Request -> CallPc]
<1>1. \A q \in Request : call[q] \in {"waiting", "gone"} <=> q \in Queued(slot)  BY SlotIs
<1>2. \A q \in Request : call[q] \in CallPc  BY SlotIs
<1>3. call' = [q \in Request |-> call'[q]] /\ call'[r] = pc  BY DEF Answered
<1>4. ASSUME NEW q \in Request, q # r PROVE call'[q] = call[q]
  <2>1. call[q] \in {"waiting", "gone"} => q \in Queued(slot')  BY <1>1, <1>4
  <2> QED  BY <1>4, <2>1 DEF Answered
<1>5. \A q \in Request : call'[q] \in CallPc  BY <1>2, <1>3, <1>4
<1>6. call' \in [Request -> CallPc]  BY <1>3, <1>5
<1> QED  BY <1>3, <1>4, <1>6

\* It keeps the queues, gets no permit and is not counted again.
LEMMA StillKept ==
    ASSUME Inv, NEW r \in Request, NEW pc \in CallPc \ {"waiting"}, Answered({r}, pc), slot' = slot,
           call[r] \in {"waiting", "gone"} <=> pc \in {"waiting", "gone"},
           pc \in {"handed", "holding"} => call[r] \in {"handed", "holding"},
           Overtakes, uncounted' = uncounted,
           call[r] \in {"handed", "holding"} =>
              pc \in {"handed", "holding"} \/ (slot.inUse = 0 /\ uncounted)
    PROVE  Kept
<1>1. /\ call'[r] = pc /\ \A q \in Request : q # r => call'[q] = call[q]
      /\ call' \in [Request -> CallPc]
  BY OneAnswered
<1>2. Sound(slot)' /\ (Gated \/ slot = NoSlot)' /\ NoIdleSlot'
  BY DEF Inv, Sound, Slot, Size, Gated, NoSlot, NoIdleSlot, Queued, NoWaiters
<1>3. TypeOK'
  <2>1. ahead' \in [Request -> SUBSET Request]  BY AheadTyped DEF Inv
  <2>2. uncounted' \in BOOLEAN  BY DEF Inv, TypeOK
  <2>3. \A q \in Request : call'[q] \in {"waiting", "gone"} <=> q \in Queued(slot)
    BY <1>1, SlotIs
  <2>4. \A q \in Request : (call[q] \in {"waiting", "gone"} <=> q \in Queued(slot))'
    BY <2>3 DEF Queued
  <2>5. slot'.capacity \in Nat /\ slot'.inUse \in Nat /\ slot'.waiters \in [1..3 -> Seq(Request)]
    BY DEF Inv, TypeOK
  <2> QED  BY <1>1, <2>1, <2>2, <2>4, <2>5 DEF TypeOK
<1>4. Order'
  <2>1. \A q \in Request : call'[q] = "waiting" => call[q] = "waiting"  BY <1>1
  <2>2. \A q \in Request : call'[q] = "waiting" => ahead'[q] = {p \in ahead[q] : call'[p] = "waiting"}
    BY <2>1 DEF Overtakes
  <2>3. \A q \in Request : call'[q] # "waiting" => ahead'[q] = {}  BY DEF Overtakes
  <2>4. \A q \in Request : ahead'[q] \subseteq ahead[q]  BY <2>2, <2>3
  <2>5. ASSUME NEW q \in Request, NEW p \in ahead'[q]
        PROVE  call'[q] = "waiting" /\ call'[p] = "waiting" /\ ClassOf[p] <= ClassOf[q]
    <3>1. call'[q] = "waiting"  BY <2>3, <2>5
    <3>2. p \in ahead[q] /\ call'[p] = "waiting"  BY <2>2, <2>5, <3>1
    <3> QED  BY <3>1, <3>2 DEF Inv, Order
  <2>6. ASSUME NEW c \in 1..3, NEW i \in 1..Size(slot, c), NEW j \in 1..Size(slot, c),
               slot.waiters[c][i] \in ahead'[slot.waiters[c][j]]
        PROVE  i < j
    <3>1. slot.waiters[c][j] \in Request
      <4>1. slot.waiters[c] \in Seq(Request) /\ Size(slot, c) = Len(slot.waiters[c])
        BY SlotIs, Lengths DEF Size
      <4> QED  BY <4>1
    <3> QED  BY <2>4, <2>6, <3>1 DEF Inv, Order
  <2> QED  BY <2>5, <2>6 DEF Order, Size
<1>5. Permits' \subseteq Permits /\ Permits \ {r} \subseteq Permits'
  BY <1>1 DEF Permits
<1>6. IsFiniteSet(Permits) /\ IsFiniteSet(Permits') /\ Cardinality(Permits') \in Nat
  <2>1. IsFiniteSet(Permits)  BY DEF Inv, Counted
  <2>2. IsFiniteSet(Permits')  BY <1>5, <2>1, FS_Subset
  <2> QED  BY <2>1, <2>2, FS_CardinalityType
<1>7. CASE Permits' = Permits
  <2>1. slot'.inUse <= Cardinality(Permits')  BY <1>7 DEF Inv, Counted
  <2>2. ~uncounted => slot'.inUse = Cardinality(Permits')  BY <1>7 DEF Inv, Counted
  <2>3. ~uncounted' => slot'.inUse = Cardinality(Permits')  BY <2>2, Zenon
  <2>4. Counted'  BY <1>6, <2>1, <2>3 DEF Counted
  <2>5. Inv'  BY <1>2, <1>3, <1>4, <2>4 DEF Inv
  <2> QED  BY <1>1, <1>7, <2>5 DEF Kept, InTurn, WithinLimit
<1>8. CASE Permits' # Permits
  <2>1. r \in Permits /\ r \notin Permits'  BY <1>5, <1>8
  <2>2. pc \notin {"handed", "holding"} /\ call[r] \in {"handed", "holding"}
    BY <1>1, <2>1 DEF Permits
  <2>3. slot.inUse = 0 /\ uncounted  BY <2>2, Zenon
  <2>4. slot'.inUse <= Cardinality(Permits')  BY <1>6, <2>3
  <2>5. ~uncounted' => slot'.inUse = Cardinality(Permits')  BY <2>3, Zenon
  <2>6. Counted'  BY <1>6, <2>4, <2>5 DEF Counted
  <2>7. Inv'  BY <1>2, <1>3, <1>4, <2>6 DEF Inv
  <2> QED  BY <1>1, <1>5, <2>7 DEF Kept, InTurn, WithinLimit
<1> QED  BY <1>7, <1>8

\* A request finds a permit free, and nobody waiting for it.
LEMMA TakesKept ==
    ASSUME Inv, NEW r \in Request, call[r] = "idle", Gated,
           slot.inUse < slot.capacity, Queued(slot) = {},
           slot' = [slot EXCEPT !.inUse = @ + 1], Answered({r}, "holding"),
           Overtakes, uncounted' = uncounted
    PROVE  Kept
<1>1. slot \in Slot /\ Sound(slot) /\ slot.inUse \in Nat /\ slot.capacity \in Nat
  BY SlotIs DEF Slot
<1>2. PICK x \in Nat : x = slot.inUse + 1  BY <1>1
<1>3. slot' = [slot EXCEPT !.inUse = x]  BY <1>2
<1>4. slot' \in Slot /\ slot'.capacity = slot.capacity /\ slot'.inUse = x
      /\ slot'.waiters = slot.waiters
  BY <1>1, <1>3 DEF Slot
<1>5. Sound(slot') /\ Queued(slot') = {}  BY <1>1, <1>4, SameQueues
<1>6. "holding" \in CallPc  BY DEF CallPc
<1>7. /\ call'[r] = "holding" /\ \A q \in Request : q # r => call'[q] = call[q]
      /\ call' \in [Request -> CallPc]
  BY <1>5, <1>6, OneAnswered
<1>8. \A q \in Request : call'[q] \notin {"waiting", "gone"}
  <2>1. \A q \in Request : call[q] \notin {"waiting", "gone"}  BY SlotIs
  <2> QED  BY <1>7, <2>1
<1>9. Sound(slot)' /\ Gated' /\ NoIdleSlot'
  BY <1>4, <1>5 DEF Sound, Size, Gated, NoIdleSlot, Queued
<1>10. TypeOK'
  <2>1. ahead' \in [Request -> SUBSET Request]  BY AheadTyped DEF Inv
  <2>2. uncounted' \in BOOLEAN  BY DEF Inv, TypeOK
  <2>3. \A q \in Request : (call[q] \in {"waiting", "gone"} <=> q \in Queued(slot))'
    BY <1>5, <1>8 DEF Queued
  <2>4. slot'.capacity \in Nat /\ slot'.inUse \in Nat /\ slot'.waiters \in [1..3 -> Seq(Request)]
    BY <1>4 DEF Slot
  <2> QED  BY <1>7, <2>1, <2>2, <2>3, <2>4 DEF TypeOK
<1>11. Order'
  <2>1. \A q \in Request : ahead'[q] = {}  BY <1>8 DEF Overtakes
  <2>2. ASSUME NEW c \in 1..3, NEW i \in 1..Size(slot', c), NEW j \in 1..Size(slot', c)
        PROVE  slot'.waiters[c][i] \notin ahead'[slot'.waiters[c][j]]
    <3>1. slot'.waiters[c] \in Seq(Request) /\ Size(slot', c) = Len(slot'.waiters[c])
      BY <1>4, <1>5, Lengths DEF Size
    <3>2. slot'.waiters[c][j] \in Request  BY <3>1
    <3> QED  BY <2>1, <3>2
  <2> QED  BY <2>1, <2>2 DEF Order, Size
<1>12. r \notin Permits /\ Permits' = Permits \cup {r}  BY <1>7 DEF Permits
<1>13. IsFiniteSet(Permits) /\ Cardinality(Permits) \in Nat
  BY FS_CardinalityType DEF Inv, Counted
<1>14. IsFiniteSet(Permits') /\ Cardinality(Permits') = Cardinality(Permits) + 1
  BY <1>12, <1>13, FS_AddElement
<1>15. slot'.inUse <= Cardinality(Permits')
  <2>1. slot.inUse <= Cardinality(Permits)  BY DEF Inv, Counted
  <2> QED  BY <1>1, <1>2, <1>4, <1>13, <1>14, <2>1
<1>16. ~uncounted => slot'.inUse = Cardinality(Permits')
  <2>1. ~uncounted => slot.inUse = Cardinality(Permits)  BY DEF Inv, Counted
  <2> QED  BY <1>2, <1>4, <1>14, <2>1
<1>17. ~uncounted' => slot'.inUse = Cardinality(Permits')  BY <1>16, Zenon
<1>18. Counted'  BY <1>14, <1>15, <1>17 DEF Counted
<1>19. Inv'  BY <1>9, <1>10, <1>11, <1>18 DEF Inv
<1>20. InTurn  BY <1>8 DEF InTurn
<1>21. ASSUME ~uncounted PROVE WithinLimit
  <2>1. Cardinality(Permits') = x  BY <1>4, <1>16, <1>21
  <2>2. x <= slot'.capacity  BY <1>1, <1>2, <1>4
  <2> QED  BY <2>1, <2>2 DEF WithinLimit
<1> QED  BY <1>19, <1>20, <1>21 DEF Kept

\* A request joins the queue of its class.
LEMMA Joined ==
    ASSUME Inv, NEW r \in Request, call[r] = "idle",
           slot' = [slot EXCEPT !.waiters[ClassOf[r]] = Append(@, r)]
    PROVE  /\ slot' \in Slot /\ slot'.capacity = slot.capacity /\ slot'.inUse = slot.inUse
           /\ \A c \in 1..3 : c # ClassOf[r] => slot'.waiters[c] = slot.waiters[c]
           /\ slot'.waiters[ClassOf[r]] = Append(slot.waiters[ClassOf[r]], r)
           /\ \A c \in 1..3 : \A i \in 1..Size(slot', c) :
                 \/ i \in 1..Size(slot, c) /\ slot'.waiters[c][i] = slot.waiters[c][i]
                 \/ /\ c = ClassOf[r] /\ i = Size(slot, c) + 1 /\ slot'.waiters[c][i] = r
                    /\ Size(slot, c) \in Nat
           /\ Queued(slot') = Queued(slot) \cup {r}
<1>1. slot \in Slot /\ ClassOf[r] \in 1..3 /\ slot.waiters \in [1..3 -> Seq(Request)]
  BY SlotIs DEF Slot
<1> DEFINE k == ClassOf[r]
           w == [slot.waiters EXCEPT ![k] = Append(@, r)]
<1>2. w \in [1..3 -> Seq(Request)]  BY <1>1
<1>3. (\A c \in 1..3 : c # k => w[c] = slot.waiters[c]) /\ w[k] = Append(slot.waiters[k], r)
  BY <1>1
<1>4. slot' = [slot EXCEPT !.waiters = w]  BY <1>1 DEF Slot
<1>5. k \in 1..3  BY <1>1
<1> HIDE DEF w, k
<1>6. slot' \in Slot /\ slot'.capacity = slot.capacity /\ slot'.inUse = slot.inUse
      /\ slot'.waiters = w
  BY <1>1, <1>2, <1>4 DEF Slot
<1>7. ASSUME NEW c \in 1..3, NEW i \in 1..Size(slot', c)
      PROVE  \/ i \in 1..Size(slot, c) /\ slot'.waiters[c][i] = slot.waiters[c][i]
             \/ /\ c = k /\ i = Size(slot, c) + 1 /\ slot'.waiters[c][i] = r
                /\ Size(slot, c) \in Nat
  <2>1. CASE c # k
    BY <1>3, <1>6, <1>7, <2>1 DEF Size
  <2>2. CASE c = k
    <3> DEFINE q == slot.waiters[k]
    <3>1. q \in Seq(Request)  BY <1>1, <1>5
    <3>2. slot'.waiters[c] = Append(q, r)  BY <1>3, <1>6, <2>2
    <3>3. Size(slot, c) = Len(q) /\ Size(slot', c) = Len(Append(q, r))  BY <2>2, <3>2 DEF Size
    <3> HIDE DEF q
    <3>4. /\ Len(q) \in Nat /\ Len(Append(q, r)) = Len(q) + 1 /\ Append(q, r)[Len(q) + 1] = r
          /\ \A j \in 1..Len(q) : Append(q, r)[j] = q[j]
      BY <3>1
    <3>5. CASE i = Len(q) + 1  BY <2>2, <3>2, <3>3, <3>4, <3>5
    <3>6. CASE i \in 1..Len(q)  BY <2>2, <3>2, <3>3, <3>4, <3>6 DEF q
    <3>7. i \in 1..Len(Append(q, r))  BY <3>3
    <3>8. i \in 1..(Len(q) + 1)  BY <3>4, <3>7
    <3>9. i = Len(q) + 1 \/ i \in 1..Len(q)  BY <3>4, <3>8
    <3> QED  BY <3>5, <3>6, <3>9
  <2> QED  BY <2>1, <2>2
<1>8. \A c \in 1..3 : \A i \in 1..Size(slot, c) :
         i \in 1..Size(slot', c) /\ slot'.waiters[c][i] = slot.waiters[c][i]
  <2> SUFFICES ASSUME NEW c \in 1..3, NEW i \in 1..Size(slot, c)
               PROVE  i \in 1..Size(slot', c) /\ slot'.waiters[c][i] = slot.waiters[c][i]
    OBVIOUS
  <2>1. CASE c # k
    BY <1>3, <1>6, <2>1 DEF Size
  <2>2. CASE c = k
    <3> DEFINE q == slot.waiters[k]
    <3>1. q \in Seq(Request)  BY <1>1, <1>5
    <3>2. slot'.waiters[c] = Append(q, r)  BY <1>3, <1>6, <2>2
    <3>3. Size(slot, c) = Len(q) /\ Size(slot', c) = Len(Append(q, r))  BY <2>2, <3>2 DEF Size
    <3>4. slot.waiters[c] = q  BY <2>2
    <3> HIDE DEF q
    <3>5. /\ Len(q) \in Nat /\ Len(Append(q, r)) = Len(q) + 1
          /\ \A j \in 1..Len(q) : Append(q, r)[j] = q[j]
      BY <3>1
    <3> QED  BY <3>2, <3>3, <3>4, <3>5
  <2> QED  BY <2>1, <2>2
<1>9. Size(slot, k) + 1 \in 1..Size(slot', k) /\ slot'.waiters[k][Size(slot, k) + 1] = r
  <2> DEFINE q == slot.waiters[k]
  <2>1. q \in Seq(Request)  BY <1>1, <1>5
  <2>2. slot'.waiters[k] = Append(q, r) /\ Size(slot, k) = Len(q) /\ Size(slot', k) = Len(Append(q, r))
    BY <1>3, <1>6 DEF Size
  <2> HIDE DEF q
  <2> QED  BY <2>1, <2>2
<1>10. /\ Queued(slot) = {q \in Request : \E c \in 1..3 : \E i \in 1..Size(slot, c) : slot.waiters[c][i] = q}
       /\ Queued(slot') = {q \in Request : \E c \in 1..3 : \E i \in 1..Size(slot', c) : slot'.waiters[c][i] = q}
  <2>1. \A t \in Slot : \A c \in 1..3 : DOMAIN t.waiters[c] = 1..Size(t, c)
    <3> SUFFICES ASSUME NEW t \in Slot, NEW c \in 1..3 PROVE DOMAIN t.waiters[c] = 1..Size(t, c)
      OBVIOUS
    <3>1. t.waiters[c] \in Seq(Request)  BY DEF Slot
    <3> QED  BY <3>1 DEF Size
  <2> QED  BY <1>1, <1>6, <2>1 DEF Queued
<1>11. ASSUME NEW q \in Queued(slot') PROVE q \in Queued(slot) \/ q = r
  <2>1. PICK c \in 1..3 : \E i \in 1..Size(slot', c) : slot'.waiters[c][i] = q  BY <1>10
  <2>2. PICK i \in 1..Size(slot', c) : slot'.waiters[c][i] = q  BY <2>1
  <2> QED  BY <1>7, <1>10, <2>2
<1>12. ASSUME NEW q \in Queued(slot) PROVE q \in Queued(slot')
  <2>1. PICK c \in 1..3 : \E i \in 1..Size(slot, c) : slot.waiters[c][i] = q  BY <1>10
  <2>2. PICK i \in 1..Size(slot, c) : slot.waiters[c][i] = q  BY <2>1
  <2>3. i \in 1..Size(slot', c) /\ slot'.waiters[c][i] = q  BY <1>8, <2>2
  <2>4. q \in Request  BY <1>10
  <2> QED  BY <1>10, <2>3, <2>4
<1>13. r \in Queued(slot')  BY <1>5, <1>9, <1>10
<1>14. Queued(slot') = Queued(slot) \cup {r}  BY <1>11, <1>12, <1>13
<1> QED  BY <1>3, <1>6, <1>7, <1>14 DEF k

LEMMA WaitsKept ==
    ASSUME Inv, NEW r \in Request, call[r] = "idle", Gated,
           ~(slot.inUse < slot.capacity /\ Queued(slot) = {}),
           slot' = [slot EXCEPT !.waiters[ClassOf[r]] = Append(@, r)], Answered({r}, "waiting"),
           Overtakes, uncounted' = uncounted
    PROVE  Kept
<1>1. /\ slot' \in Slot /\ slot'.capacity = slot.capacity /\ slot'.inUse = slot.inUse
      /\ \A c \in 1..3 : \A i \in 1..Size(slot', c) :
            \/ i \in 1..Size(slot, c) /\ slot'.waiters[c][i] = slot.waiters[c][i]
            \/ /\ c = ClassOf[r] /\ i = Size(slot, c) + 1 /\ slot'.waiters[c][i] = r
               /\ Size(slot, c) \in Nat
      /\ Queued(slot') = Queued(slot) \cup {r}
  BY Joined
<1>2. "waiting" \in CallPc  BY DEF CallPc
<1>3. /\ call'[r] = "waiting" /\ \A q \in Request : q # r => call'[q] = call[q]
      /\ call' \in [Request -> CallPc]
  BY <1>1, <1>2, OneAnswered
<1>4. r \notin Queued(slot)  BY SlotIs
<1>5. \A c \in 1..3 : \A i \in 1..Size(slot, c) :
         slot.waiters[c][i] \in Queued(slot) /\ slot.waiters[c][i] \in Request
  <2> SUFFICES ASSUME NEW c \in 1..3, NEW i \in 1..Size(slot, c)
               PROVE  slot.waiters[c][i] \in Queued(slot) /\ slot.waiters[c][i] \in Request
    OBVIOUS
  <2>1. slot.waiters[c] \in Seq(Request) /\ Size(slot, c) = Len(slot.waiters[c])
    BY SlotIs, Lengths DEF Size
  <2>2. slot.waiters[c][i] \in Request /\ i \in DOMAIN slot.waiters[c]  BY <2>1
  <2> QED  BY <2>2 DEF Queued
<1>6. Sound(slot')
  <2>1. ASSUME NEW c \in 1..3, NEW i \in 1..Size(slot', c)
        PROVE  ClassOf[slot'.waiters[c][i]] = c
    <3>1. CASE i \in 1..Size(slot, c) /\ slot'.waiters[c][i] = slot.waiters[c][i]
      BY <3>1, SlotIs DEF Sound
    <3>2. CASE c = ClassOf[r] /\ slot'.waiters[c][i] = r
      BY <3>2
    <3> QED  BY <1>1, <3>1, <3>2
  <2>2. ASSUME NEW c \in 1..3, NEW i \in 1..Size(slot', c), NEW j \in 1..Size(slot', c),
               slot'.waiters[c][i] = slot'.waiters[c][j]
        PROVE  i = j
    <3>1. CASE i \in 1..Size(slot, c) /\ slot'.waiters[c][i] = slot.waiters[c][i]
               /\ j \in 1..Size(slot, c) /\ slot'.waiters[c][j] = slot.waiters[c][j]
      BY <2>2, <3>1, SlotIs DEF Sound
    <3>2. CASE slot'.waiters[c][i] = r /\ slot'.waiters[c][j] = r
      <4>1. i \notin 1..Size(slot, c) \/ slot'.waiters[c][i] # slot.waiters[c][i]  BY <1>4, <1>5, <3>2
      <4>2. j \notin 1..Size(slot, c) \/ slot'.waiters[c][j] # slot.waiters[c][j]  BY <1>4, <1>5, <3>2
      <4>3. i = Size(slot, c) + 1 /\ j = Size(slot, c) + 1  BY <1>1, <4>1, <4>2
      <4> QED  BY <4>3
    <3>3. \/ i \in 1..Size(slot, c) /\ slot'.waiters[c][i] = slot.waiters[c][i]
          \/ slot'.waiters[c][i] = r
      BY <1>1
    <3>4. \/ j \in 1..Size(slot, c) /\ slot'.waiters[c][j] = slot.waiters[c][j]
          \/ slot'.waiters[c][j] = r
      BY <1>1
    <3>5. slot'.waiters[c][i] = r <=> slot'.waiters[c][j] = r  BY <2>2
    <3> QED  BY <1>4, <1>5, <3>1, <3>2, <3>3, <3>4, <3>5
  <2> QED  BY <1>1, <2>1, <2>2 DEF Sound
<1>7. Sound(slot)' /\ Gated'  BY <1>1, <1>6 DEF Sound, Size, Gated
<1>8. NoIdleSlot'
  <2>1. ~(slot.inUse < slot.capacity)  BY DEF Inv, NoIdleSlot
  <2> QED  BY <1>1, <2>1 DEF NoIdleSlot
<1>9. TypeOK'
  <2>1. ahead' \in [Request -> SUBSET Request]  BY AheadTyped DEF Inv
  <2>2. uncounted' \in BOOLEAN  BY DEF Inv, TypeOK
  <2>3. \A q \in Request : call'[q] \in {"waiting", "gone"} <=> q \in Queued(slot')
    <3>1. \A q \in Request : call[q] \in {"waiting", "gone"} <=> q \in Queued(slot)  BY SlotIs
    <3> QED  BY <1>1, <1>3, <3>1
  <2>4. \A q \in Request : (call[q] \in {"waiting", "gone"} <=> q \in Queued(slot))'
    BY <2>3 DEF Queued
  <2>5. slot'.capacity \in Nat /\ slot'.inUse \in Nat /\ slot'.waiters \in [1..3 -> Seq(Request)]
    BY <1>1 DEF Slot
  <2> QED  BY <1>3, <2>1, <2>2, <2>4, <2>5 DEF TypeOK
<1>10. Order'
  <2>1. ahead'[r] = {q \in Waiting : ClassOf[q] <= ClassOf[r]}  BY <1>3 DEF Overtakes
  <2>2. \A q \in Request : q # r => ahead'[q] \subseteq ahead[q]
    <3> SUFFICES ASSUME NEW q \in Request, q # r PROVE ahead'[q] \subseteq ahead[q]  OBVIOUS
    <3>1. CASE call'[q] # "waiting"  BY <3>1 DEF Overtakes
    <3>2. CASE call'[q] = "waiting"
      <4>1. call[q] = "waiting"  BY <1>3, <3>2
      <4> QED  BY <3>2, <4>1 DEF Overtakes
    <3> QED  BY <3>1, <3>2
  <2>3. ASSUME NEW q \in Request, NEW p \in ahead'[q]
        PROVE  call'[q] = "waiting" /\ call'[p] = "waiting" /\ ClassOf[p] <= ClassOf[q]
    <3>1. CASE q = r
      <4>1. p \in Request /\ call[p] = "waiting" /\ ClassOf[p] <= ClassOf[r]
        BY <2>1, <2>3, <3>1 DEF Waiting
      <4> QED  BY <1>3, <3>1, <4>1
    <3>2. CASE q # r
      <4>1. p \in ahead[q]  BY <2>2, <2>3, <3>2
      <4>2. call[q] = "waiting" /\ call[p] = "waiting" /\ ClassOf[p] <= ClassOf[q] /\ p \in Request
        BY <4>1, SlotIs DEF Inv, Order
      <4> QED  BY <1>3, <4>2
    <3> QED  BY <3>1, <3>2
  <2>4. r \notin ahead'[r] /\ \A q \in Request : r \notin ahead[q]
    BY <2>1 DEF Inv, Order, Waiting
  <2>5. ASSUME NEW c \in 1..3, NEW i \in 1..Size(slot', c), NEW j \in 1..Size(slot', c),
               slot'.waiters[c][i] \in ahead'[slot'.waiters[c][j]]
        PROVE  i < j
    <3>1. CASE i \in 1..Size(slot, c) /\ slot'.waiters[c][i] = slot.waiters[c][i]
               /\ j \in 1..Size(slot, c) /\ slot'.waiters[c][j] = slot.waiters[c][j]
      <4>1. slot.waiters[c][j] # r /\ slot.waiters[c][j] \in Request  BY <1>4, <1>5, <3>1
      <4>2. slot.waiters[c][i] \in ahead[slot.waiters[c][j]]  BY <2>2, <2>5, <3>1, <4>1
      <4> QED  BY <3>1, <4>2 DEF Inv, Order
    <3>2. CASE i \in 1..Size(slot, c) /\ j = Size(slot, c) + 1 /\ Size(slot, c) \in Nat
      BY <3>2
    <3>3. CASE slot'.waiters[c][i] = r
      <4>1. slot'.waiters[c][j] \in Request  BY <1>1, <1>5
      <4> QED  BY <2>2, <2>4, <2>5, <3>3, <4>1
    <3>4. \/ i \in 1..Size(slot, c) /\ slot'.waiters[c][i] = slot.waiters[c][i]
          \/ slot'.waiters[c][i] = r
      BY <1>1
    <3>5. \/ j \in 1..Size(slot, c) /\ slot'.waiters[c][j] = slot.waiters[c][j]
          \/ j = Size(slot, c) + 1 /\ Size(slot, c) \in Nat
      BY <1>1
    <3> QED  BY <3>1, <3>2, <3>3, <3>4, <3>5
  <2> QED  BY <2>3, <2>5 DEF Order, Size
<1>11. Permits' = Permits  BY <1>3 DEF Permits
<1>12. Counted'
  <2>1. IsFiniteSet(Permits') /\ slot'.inUse <= Cardinality(Permits')  BY <1>1, <1>11 DEF Inv, Counted
  <2>2. ~uncounted => slot'.inUse = Cardinality(Permits')  BY <1>1, <1>11 DEF Inv, Counted
  <2>3. ~uncounted' => slot'.inUse = Cardinality(Permits')  BY <2>2, Zenon
  <2> QED  BY <2>1, <2>3 DEF Counted
<1>13. Inv'  BY <1>7, <1>8, <1>9, <1>10, <1>12 DEF Inv
<1> QED  BY <1>3, <1>11, <1>13 DEF Kept, InTurn, WithinLimit

-----------------------------------------------------------------------------
(* Every step *)

\* A permit comes back: the slot it was counted in is free for the next.
LEMMA ReleaseKept ==
    ASSUME Inv, NEW r \in Permits, Release(r), Remember
    PROVE  Kept
<1>1. r \in Request /\ call[r] \in {"handed", "holding"} /\ "idle" \in CallPc \ {"waiting"}
  BY DEF Permits, CallPc
<1>2. Answered({r}, "idle") /\ Overtakes /\ uncounted' = uncounted  BY DEF Release, Remember
<1>3. slot \in Slot /\ slot.inUse \in Nat /\ slot.capacity \in Nat  BY SlotIs DEF Slot
<1>4. IsFiniteSet(Permits) /\ Cardinality(Permits) \in Nat /\ slot.inUse <= Cardinality(Permits)
      /\ (~uncounted => slot.inUse = Cardinality(Permits))
  BY FS_CardinalityType DEF Inv, Counted
<1>5. Cardinality(Permits \ {r}) = Cardinality(Permits) - 1 /\ Cardinality(Permits) # 0
  BY <1>4, FS_RemoveElement, FS_EmptySet
<1>6. CASE Gated
  <2>1. PICK x \in Nat : x = IF slot.inUse = 0 THEN 0 ELSE slot.inUse - 1  BY <1>3
  <2>2. Freed(slot) = [slot EXCEPT !.inUse = x]  BY <2>1 DEF Freed
  <2> DEFINE s == Freed(slot)
  <2>3. s \in Slot /\ s.waiters = slot.waiters /\ s.capacity = slot.capacity /\ s.inUse = x
    BY <1>3, <2>1, <2>2 DEF Slot
  <2>4. slot' = Dispatch(s)  BY <1>6 DEF Release
  <2> HIDE DEF s
  <2>5. s.inUse <= Cardinality(Permits \ {r})  BY <1>3, <1>4, <1>5, <2>1, <2>3
  <2>6. ~uncounted => s.inUse = Cardinality(Permits \ {r})
    <3>1. ASSUME slot.inUse = Cardinality(Permits) PROVE s.inUse = Cardinality(Permits \ {r})
      BY <1>3, <1>4, <1>5, <2>1, <2>3, <3>1
    <3> QED  BY <1>4, <3>1, Zenon
  <2>7. s.capacity > 0  BY <1>6, <2>3 DEF Gated
  <2>8. {r} \in SUBSET Permits  OBVIOUS
  <2> QED  BY <1>2, <2>3, <2>4, <2>5, <2>6, <2>7, <2>8, Serves
<1>7. CASE ~Gated
  <2>1. slot' = slot  BY <1>7 DEF Release
  <2>2. slot.inUse = 0  BY <1>7 DEF Inv, NoSlot
  <2>3. slot.inUse # Cardinality(Permits)  BY <1>4, <1>5, <2>2
  <2>4. uncounted  BY <1>4, <2>3, Zenon
  <2> QED  BY <1>1, <1>2, <2>1, <2>2, <2>4, StillKept
<1> QED  BY <1>6, <1>7

LEMMA ArriveKept ==
    ASSUME Inv, NEW r \in Request, Arrive(r)
    PROVE  Kept
<1>1. Overtakes /\ uncounted' = uncounted /\ call[r] = "idle"  BY DEF Arrive, Remember
<1>2. CASE ~Gated /\ slot' = slot /\ Answered({r}, "ungated")
  <2>1. "ungated" \in CallPc \ {"waiting"}  BY DEF CallPc
  <2> QED  BY <1>1, <1>2, <2>1, StillKept
<1>3. CASE /\ Gated /\ slot.inUse < slot.capacity /\ Queued(slot) = {}
           /\ slot' = [slot EXCEPT !.inUse = @ + 1] /\ Answered({r}, "holding")
  BY <1>1, <1>3, TakesKept
<1>4. CASE /\ Gated /\ ~(slot.inUse < slot.capacity /\ Queued(slot) = {})
           /\ slot' = [slot EXCEPT !.waiters[ClassOf[r]] = Append(@, r)] /\ Answered({r}, "waiting")
  BY <1>1, <1>4, WaitsKept
<1> QED  BY <1>2, <1>3, <1>4 DEF Arrive

LEMMA GoesOnKept ==
    ASSUME Inv, NEW r \in Request, Receive(r) \/ Finish(r) \/ GiveUp(r)
    PROVE  Kept
<1>1. "holding" \in CallPc \ {"waiting"} /\ "idle" \in CallPc \ {"waiting"}
      /\ "gone" \in CallPc \ {"waiting"}
  BY DEF CallPc
<1>2. CASE Receive(r)
  <2>1. /\ call[r] = "handed" /\ slot' = slot /\ Answered({r}, "holding")
        /\ Overtakes /\ uncounted' = uncounted
    BY <1>2 DEF Receive, Remember
  <2> QED  BY <1>1, <2>1, StillKept
<1>3. CASE Remember /\ r \in Permits /\ Release(r)
  BY <1>3, ReleaseKept
<1>4. CASE Remember /\ call[r] = "ungated" /\ slot' = slot /\ Answered({r}, "idle")
  <2>1. Overtakes /\ uncounted' = uncounted  BY <1>4 DEF Remember
  <2> QED  BY <1>1, <1>4, <2>1, StillKept
<1>5. CASE Remember /\ call[r] = "waiting" /\ slot' = slot /\ Answered({r}, "gone")
  <2>1. Overtakes /\ uncounted' = uncounted  BY <1>5 DEF Remember
  <2> QED  BY <1>1, <1>5, <2>1, StillKept
<1> QED  BY <1>2, <1>3, <1>4, <1>5 DEF Finish, GiveUp, Permits

\* A reload resizes the gate and serves whoever there is room for.
LEMMA ConfigureKept ==
    ASSUME Inv, NEW limit \in Limits, Configure(limit)
    PROVE  Kept
<1>1. limit \in Nat  BY GateAssumption
<1>2. PICK x \in Nat : x = (IF limit = 0 THEN 1 ELSE limit) /\ x > 0  BY <1>1
<1> DEFINE s == [slot EXCEPT !.capacity = x]
<1>3. slot' = Dispatch(s) /\ Answered({}, "idle") /\ Overtakes /\ uncounted' = uncounted
  BY <1>2 DEF Configure, Configured, Remember
<1>4. s \in Slot /\ s.waiters = slot.waiters /\ s.capacity = x /\ s.inUse = slot.inUse
  BY SlotIs DEF Slot
<1> HIDE DEF s
<1>5. Permits \ {} = Permits  OBVIOUS
<1>6. s.inUse <= Cardinality(Permits \ {}) /\ (~uncounted => s.inUse = Cardinality(Permits \ {}))
  BY <1>4, <1>5 DEF Inv, Counted
<1>7. {} \in SUBSET Permits  OBVIOUS
<1> QED  BY <1>2, <1>3, <1>4, <1>6, <1>7, Serves

\* A reload removes the gate: nobody waits any more, and permits that are out are said
\* to be uncounted.
LEMMA UngateKept ==
    ASSUME Inv, Ungate
    PROVE  Kept
<1>1. slot' = NoSlot  BY DEF Ungate
<1>2. \A q \in Request : call'[q] = IF call[q] = "waiting" THEN "ungated"
                                    ELSE IF call[q] = "gone" THEN "idle" ELSE call[q]
  BY DEF Ungate
<1>3. \A q \in Request : call'[q] \in CallPc /\ call'[q] \notin {"waiting", "gone"}
  <2>1. \A q \in Request : call[q] \in CallPc  BY SlotIs
  <2> QED  BY <1>2, <2>1 DEF CallPc
<1>4. call' \in [Request -> CallPc]  BY <1>3 DEF Ungate
<1>5. NoWaiters \in [1..3 -> Seq(Request)] /\ \A c \in 1..3 : NoWaiters[c] = <<>>
  BY DEF NoWaiters
<1>6. /\ NoSlot \in Slot /\ NoSlot.capacity = 0 /\ NoSlot.inUse = 0
      /\ \A c \in 1..3 : NoSlot.waiters[c] = <<>>
  BY <1>5 DEF NoSlot, Slot
<1>7. \A c \in 1..3 : Size(NoSlot, c) = 0  BY <1>6 DEF Size
<1>8. Sound(NoSlot) /\ Queued(NoSlot) = {}  BY <1>6, <1>7 DEF Sound, Queued
<1>9. Sound(slot)' /\ (slot = NoSlot)' /\ NoIdleSlot'
  <2>1. Sound(slot') /\ ~(slot'.inUse < slot'.capacity)  BY <1>1, <1>6, <1>8
  <2> QED  BY <1>1, <2>1 DEF Sound, Size, NoIdleSlot, NoSlot, NoWaiters
<1>10. TypeOK'
  <2>1. ahead' \in [Request -> SUBSET Request]
    BY AheadTyped DEF Inv, Ungate
  <2>2. uncounted' \in BOOLEAN  BY DEF Ungate
  <2>3. \A q \in Request : call'[q] \in {"waiting", "gone"} <=> q \in Queued(slot')
    BY <1>1, <1>3, <1>8
  <2>4. \A q \in Request : (call[q] \in {"waiting", "gone"} <=> q \in Queued(slot))'
    BY <2>3 DEF Queued
  <2>5. slot'.capacity \in Nat /\ slot'.inUse \in Nat /\ slot'.waiters \in [1..3 -> Seq(Request)]
    BY <1>1, <1>6 DEF Slot
  <2> QED  BY <1>4, <2>1, <2>2, <2>4, <2>5 DEF TypeOK
<1>11. Order'
  <2>1. \A q \in Request : ahead'[q] = {}  BY <1>3 DEF Ungate, Overtakes
  <2>2. \A c \in 1..3 : Size(slot', c) = 0  BY <1>1, <1>7
  <2> QED  BY <2>1, <2>2 DEF Order, Size
<1>12. Permits' = Permits  BY <1>2 DEF Permits
<1>13. IsFiniteSet(Permits) /\ Cardinality(Permits) \in Nat  BY FS_CardinalityType DEF Inv, Counted
<1>14. Counted'
  <2>1. slot'.inUse = 0  BY <1>1, <1>6
  <2>2. Permits = {} => slot'.inUse = Cardinality(Permits')  BY <1>12, <2>1, FS_EmptySet
  <2>3. ~uncounted' => Permits = {}  BY Zenon DEF Ungate
  <2>4. ~uncounted' => slot'.inUse = Cardinality(Permits')  BY <2>2, <2>3, Zenon
  <2>5. IsFiniteSet(Permits') /\ slot'.inUse <= Cardinality(Permits')  BY <1>12, <1>13, <2>1
  <2> QED  BY <2>4, <2>5 DEF Counted
<1>15. Inv'  BY <1>9, <1>10, <1>11, <1>14 DEF Inv
<1>16. InTurn  BY <1>3 DEF InTurn
<1> QED  BY <1>12, <1>15, <1>16 DEF Kept, WithinLimit

LEMMA InvStarts == Init => Inv
<1> SUFFICES ASSUME Init PROVE Inv  OBVIOUS
<1>1. slot = NoSlot /\ call = [r \in Request |-> "idle"] /\ ahead = [r \in Request |-> {}]
  BY DEF Init
<1>2. NoWaiters \in [1..3 -> Seq(Request)] /\ \A c \in 1..3 : NoWaiters[c] = <<>>
  BY DEF NoWaiters
<1>3. /\ slot \in Slot /\ slot.capacity = 0 /\ slot.inUse = 0
      /\ \A c \in 1..3 : slot.waiters[c] = <<>>
  BY <1>1, <1>2 DEF NoSlot, Slot
<1>4. \A c \in 1..3 : Size(slot, c) = 0  BY <1>3 DEF Size
<1>5. Sound(slot) /\ Queued(slot) = {}  BY <1>3, <1>4 DEF Sound, Queued
<1>6. Permits = {}  BY <1>1 DEF Permits
<1>7. Counted  BY <1>3, <1>6, FS_EmptySet DEF Counted
<1>8. Order  BY <1>1, <1>4 DEF Order
<1>9. TypeOK
  <2>1. call \in [Request -> CallPc] /\ ahead \in [Request -> SUBSET Request]  BY <1>1 DEF CallPc
  <2>2. uncounted \in BOOLEAN  BY DEF Init
  <2>3. \A r \in Request : call[r] \in {"waiting", "gone"} <=> r \in Queued(slot)  BY <1>1, <1>5
  <2> QED  BY <1>3, <2>1, <2>2, <2>3 DEF TypeOK, Slot
<1> QED  BY <1>1, <1>3, <1>5, <1>7, <1>8, <1>9 DEF Inv, NoIdleSlot

LEMMA StepKept ==
    ASSUME Inv, [Next]_vars
    PROVE  Kept
<1>1. CASE Next
  BY <1>1, ArriveKept, GoesOnKept, ConfigureKept, UngateKept DEF Next
<1>2. CASE UNCHANGED vars
  <2>1. slot' = slot /\ call' = call /\ ahead' = ahead /\ uncounted' = uncounted  BY <1>2 DEF vars
  <2>2. Permits' = Permits  BY <2>1 DEF Permits
  <2>3. TypeOK' /\ Sound(slot)' /\ (Gated \/ slot = NoSlot)' /\ NoIdleSlot' /\ Order'
    BY <2>1 DEF Inv, TypeOK, Sound, Size, Slot, Gated, NoSlot, NoWaiters, NoIdleSlot, Queued, Order
  <2>4. IsFiniteSet(Permits') /\ slot'.inUse <= Cardinality(Permits')
    BY <2>1, <2>2 DEF Inv, Counted
  <2>5. ~uncounted => slot'.inUse = Cardinality(Permits')
    BY <2>1, <2>2 DEF Inv, Counted
  <2>6. ~uncounted' => slot'.inUse = Cardinality(Permits')  BY <2>1, <2>5, Zenon
  <2>7. Inv'  BY <2>3, <2>4, <2>6 DEF Inv, Counted
  <2> QED  BY <2>1, <2>2, <2>7 DEF Kept, InTurn, WithinLimit
<1> QED  BY <1>1, <1>2

\* The inductive invariant holds in every reachable state.
LEMMA InvHolds == Spec => []Inv
<1>1. Init => Inv  BY InvStarts
<1>2. Inv /\ [Next]_vars => Inv'  BY StepKept DEF Kept
<1> QED  BY <1>1, <1>2, PTL DEF Spec

-----------------------------------------------------------------------------
(* The theorems *)

\* The slot and the calls keep their types, and who has a sender in a queue is who
\* waits or has given up waiting (provider_gate.rs:52-62).
THEOREM TypesHold == Spec => []TypeOK
<1>1. Inv => TypeOK  BY DEF Inv
<1> QED  BY <1>1, InvHolds, PTL

\* Nobody waits while a permit is free (provider_gate.rs:164-185), for any number of
\* requests, whoever gives up, and however the gate is resized, removed and restored.
THEOREM NoIdleSlotHolds == Spec => []NoIdleSlot
<1>1. Inv => NoIdleSlot  BY DEF Inv
<1> QED  BY <1>1, InvHolds, PTL

\* No permit is counted that nobody holds (provider_gate.rs:23), so that no slot of a
\* provider is lost for good.
THEOREM NoLeakHolds == Spec => []NoLeak
<1>1. Inv => NoLeak  BY DEF Inv, Counted, NoLeak
<1> QED  BY <1>1, InvHolds, PTL

\* A permit goes to nobody while a request of a higher class waits, or one of the same
\* class that came earlier (provider_gate.rs:16-19).
THEOREM NoOvertakingHolds == Spec => NoOvertaking
<1>1. Inv /\ [Next]_vars => InTurn  BY StepKept DEF Kept
<1> QED  BY <1>1, InvHolds, PTL DEF Spec, NoOvertaking, InTurn

\* No permit is given out beyond the limit of the moment (provider_gate.rs:3-6), unless
\* the gate was removed while permits were out.
THEOREM LimitUnlessRemovedHolds == Spec => LimitUnlessRemoved
<1>1. Inv /\ [Next]_vars => uncounted \/ WithinLimit  BY StepKept DEF Kept
<1> QED  BY <1>1, InvHolds, PTL DEF Spec, LimitUnlessRemoved
=============================================================================
