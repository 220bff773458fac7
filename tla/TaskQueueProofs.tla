--------------------------- MODULE TaskQueueProofs ---------------------------
(* What TaskQueue guarantees for any number of tasks, workers and failures.  *)
EXTENDS TaskQueue, SequenceTheorems, FiniteSetTheorems, WellFoundedInduction, TLAPS

(* ------------------------------- numbers -------------------------------- *)

\* A set of numbers has a least one: what a CHOOSE of it finds.
LEMMA LeastNat ==
    ASSUME NEW T \in SUBSET Nat, T # {}
    PROVE  \E x \in T : \A y \in T : x <= y
  <1> DEFINE R == {p \in Nat \X Nat : p[1] < p[2]}
  <1>1. IsWellFoundedOn(R, Nat)
    BY NatLessThanWellFounded DEF OpToRel
  <1>2. \A x, y \in Nat : <<y, x>> \in R <=> y < x
    OBVIOUS
  <1> HIDE DEF R
  <1>3. PICK x \in T : \A y \in T : ~ (<<y, x>> \in R)
    BY <1>1, WFMin
  <1>4. \A y \in T : ~ (y < x)
    BY <1>2, <1>3
  <1> QED
    BY <1>4

(* ------------------------------ sequences ------------------------------- *)

LEMMA SetOfSeq ==
    ASSUME NEW S, NEW s \in Seq(S)
    PROVE  ToSet(s) \subseteq S /\ ToSet(<<>>) = {}
  BY ElementOfSeq, LenProperties DEF ToSet

\* What a single LPUSH leaves in a list.
LEMMA SetOfPushed ==
    ASSUME NEW S, NEW s \in Seq(S), NEW e \in S
    PROVE  <<e>> \o s \in Seq(S) /\ ToSet(<<e>> \o s) = {e} \union ToSet(s)
  <1>1. <<e>> \in Seq(S) /\ Len(<<e>>) = 1 /\ <<e>>[1] = e
    OBVIOUS
  <1>2. /\ <<e>> \o s \in Seq(S) /\ Len(<<e>> \o s) = Len(s) + 1
        /\ DOMAIN (<<e>> \o s) = 1..(Len(s) + 1) /\ DOMAIN s = 1..Len(s) /\ Len(s) \in Nat
        /\ \A i \in 1..(Len(s) + 1) : (<<e>> \o s)[i] = IF i <= 1 THEN e ELSE s[i - 1]
    BY <1>1, ConcatProperties, LenProperties
  <1>3. ASSUME NEW x \in {e} \union ToSet(s) PROVE x \in ToSet(<<e>> \o s)
    <2>1. CASE x = e
      BY <2>1, <1>2 DEF ToSet
    <2>2. CASE x \in ToSet(s)
      <3>1. PICK i \in 1..Len(s) : x = s[i]
        BY <2>2, <1>2 DEF ToSet
      <3>2. i + 1 \in 1..(Len(s) + 1) /\ (<<e>> \o s)[i + 1] = x
        BY <3>1, <1>2
      <3> QED
        BY <3>2, <1>2 DEF ToSet
    <2> QED
      BY <1>3, <2>1, <2>2
  <1>4. ToSet(<<e>> \o s) \subseteq {e} \union ToSet(s)
    BY <1>2 DEF ToSet
  <1> QED
    BY <1>2, <1>3, <1>4

\* What the LPUSH of a batch leaves in a list.
LEMMA SetOfReversed ==
    ASSUME NEW S, NEW b \in Seq(S), NEW s \in Seq(S)
    PROVE  Reverse(b) \o s \in Seq(S) /\ ToSet(Reverse(b) \o s) = ToSet(b) \union ToSet(s)
  <1> DEFINE r == Reverse(b)
  <1>1. /\ Len(b) \in Nat /\ DOMAIN b = 1..Len(b)
        /\ Len(s) \in Nat /\ DOMAIN s = 1..Len(s)
    BY LenProperties
  <1>2. r = [i \in 1..Len(b) |-> b[(Len(b) - i) + 1]]
    BY DEF Reverse
  <1>3. r \in Seq(S)
    <2>1. \A i \in 1..Len(b) : b[(Len(b) - i) + 1] \in S
      BY <1>1, ElementOfSeq
    <2> QED
      BY <1>1, <1>2, <2>1, SeqDef
  <1>4. Len(r) = Len(b)
    BY <1>1, <1>2, <1>3, LenProperties
  <1> HIDE DEF r
  <1>5. /\ r \o s \in Seq(S) /\ Len(r \o s) = Len(b) + Len(s)
        /\ DOMAIN (r \o s) = 1..(Len(b) + Len(s))
        /\ \A i \in 1..(Len(b) + Len(s)) :
              (r \o s)[i] = IF i <= Len(b) THEN r[i] ELSE s[i - Len(b)]
    <2>1. /\ r \o s \in Seq(S) /\ Len(r \o s) = Len(b) + Len(s)
          /\ \A i \in 1..(Len(b) + Len(s)) :
                (r \o s)[i] = IF i <= Len(b) THEN r[i] ELSE s[i - Len(b)]
      <3>1. /\ r \o s \in Seq(S) /\ Len(r \o s) = Len(r) + Len(s)
            /\ \A i \in 1..(Len(r) + Len(s)) :
                  (r \o s)[i] = IF i <= Len(r) THEN r[i] ELSE s[i - Len(r)]
        BY <1>3, ConcatProperties
      <3> QED
        BY <1>4, <3>1
    <2> QED
      BY <2>1, LenProperties
  <1>6. ASSUME NEW x \in ToSet(b) \union ToSet(s) PROVE x \in ToSet(r \o s)
    <2>1. CASE x \in ToSet(b)
      <3>1. PICK i \in 1..Len(b) : x = b[i]
        BY <2>1, <1>1 DEF ToSet
      <3>2. Len(b) - i + 1 \in 1..Len(b) /\ r[Len(b) - i + 1] = x
        BY <3>1, <1>1, <1>2
      <3>3. Len(b) - i + 1 \in 1..(Len(b) + Len(s)) /\ Len(b) - i + 1 <= Len(b)
        BY <3>1, <1>1
      <3>4. (r \o s)[Len(b) - i + 1] = x
        BY <3>2, <3>3, <1>5
      <3> QED
        BY <3>3, <3>4, <1>5 DEF ToSet
    <2>2. CASE x \in ToSet(s)
      <3>1. PICK i \in 1..Len(s) : x = s[i]
        BY <2>2, <1>1 DEF ToSet
      <3>2. i + Len(b) \in 1..(Len(b) + Len(s)) /\ (r \o s)[i + Len(b)] = x
        BY <3>1, <1>1, <1>5
      <3> QED
        BY <3>2, <1>5 DEF ToSet
    <2> QED
      BY <1>6, <2>1, <2>2
  <1>7. ASSUME NEW x \in ToSet(r \o s) PROVE x \in ToSet(b) \union ToSet(s)
    <2>1. PICK i \in 1..(Len(b) + Len(s)) : x = (r \o s)[i]
      BY <1>5 DEF ToSet
    <2>2. CASE i <= Len(b)
      <3>1. i \in 1..Len(b) /\ (Len(b) - i) + 1 \in 1..Len(b) /\ x = b[(Len(b) - i) + 1]
        BY <2>1, <2>2, <1>1, <1>2, <1>5
      <3> QED
        BY <3>1, <1>1 DEF ToSet
    <2>3. CASE i > Len(b)
      <3>1. i - Len(b) \in 1..Len(s) /\ x = s[i - Len(b)]
        BY <2>1, <2>3, <1>1, <1>5
      <3> QED
        BY <3>1, <1>1 DEF ToSet
    <2>4. i <= Len(b) \/ i > Len(b)
      BY <2>1, <1>1
    <2> QED
      BY <2>2, <2>3, <2>4
  <1> QED
    BY <1>5, <1>6, <1>7 DEF r

LEMMA UpTo ==
    ASSUME NEW n \in Nat \ {0}
    PROVE  \A i \in 1..n : i \in 1..(n - 1) \/ i = n
  OBVIOUS

LEMMA FrontProperties ==
    ASSUME NEW S, NEW s \in Seq(S), s # <<>>
    PROVE  /\ Len(s) \in Nat \ {0} /\ DOMAIN s = 1..Len(s) /\ Front(s) \in Seq(S)
           /\ DOMAIN Front(s) = 1..(Len(s) - 1)
           /\ \A i \in 1..(Len(s) - 1) : Front(s)[i] = s[i]
  <1>1. Len(s) \in Nat \ {0} /\ DOMAIN s = 1..Len(s)
    BY EmptySeq, LenProperties
  <1>2. \A i \in 1..(Len(s) - 1) : s[i] \in S
    BY <1>1, ElementOfSeq
  <1>3. /\ Front(s) \in Seq(S)
        /\ Len(Front(s)) = IF 1 <= Len(s) - 1 THEN Len(s) - 1 ELSE 0
        /\ \A i \in 1..(Len(s) - 1) : Front(s)[i] = s[1 + i - 1]
    <2>1. (Len(s) - 1) - 1 + 1 = Len(s) - 1 /\ Len(s) - 1 \in Int
      BY <1>1
    <2> QED
      BY <1>2, <2>1, SubSeqProperties DEF Front
  <1>4. /\ DOMAIN Front(s) = 1..(Len(s) - 1)
        /\ \A i \in 1..(Len(s) - 1) : Front(s)[i] = s[i]
    <2>1. Len(Front(s)) = Len(s) - 1
      <3>1. CASE Len(s) = 1
        BY <3>1, <1>3
      <3>2. CASE Len(s) # 1
        <4>1. 1 <= Len(s) - 1
          BY <3>2, <1>1
        <4> QED
          BY <4>1, <1>3
      <3> QED
        BY <3>1, <3>2
    <2>2. DOMAIN Front(s) = 1..Len(Front(s))
      BY <1>3, LenProperties
    <2>3. \A i \in 1..(Len(s) - 1) : 1 + i - 1 = i
      OBVIOUS
    <2> QED
      BY <1>3, <2>1, <2>2, <2>3
  <1> QED
    BY <1>1, <1>3, <1>4

\* What BRPOP takes from a list and leaves.
LEMMA SetOfPopped ==
    ASSUME NEW S, NEW s \in Seq(S), s # <<>>
    PROVE  /\ Last(s) \in S /\ Front(s) \in Seq(S)
           /\ ToSet(s) = ToSet(Front(s)) \union {Last(s)}
  <1>1. Len(s) \in Nat \ {0} /\ DOMAIN s = 1..Len(s)
    BY FrontProperties
  <1>5. Last(s) \in S
    BY <1>1, ElementOfSeq DEF Last
  <1>6. \A i \in 1..Len(s) : i \in 1..(Len(s) - 1) \/ i = Len(s)
    BY <1>1, UpTo
  <1>7. 1..(Len(s) - 1) \subseteq 1..Len(s) /\ Len(s) \in 1..Len(s)
    BY <1>1
  <1>8. ToSet(Front(s)) = {s[i] : i \in 1..(Len(s) - 1)}
    BY FrontProperties DEF ToSet
  <1>9. ToSet(s) = {s[i] : i \in 1..(Len(s) - 1)} \union {s[Len(s)]}
    BY <1>1, <1>6, <1>7 DEF ToSet
  <1> QED
    BY FrontProperties, <1>5, <1>8, <1>9 DEF Last

(* ------------------------------ the types ------------------------------- *)

\* The sorted set is finite, so that a drain reads a sequence.
Finite == IsFiniteSet(DOMAIN sched)

Types == TypeOK /\ Finite

LEMMA FirstType ==
    ASSUME NEW t \in Task
    PROVE  First(t) \in Envelope /\ First(t).task = t /\ First(t).attempts = 0
           /\ First(t).stamp = 0
  BY DEF First, Envelope

LEMMA ZaddType ==
    ASSUME Types, NEW e \in Envelope, NEW score \in Nat, Zadd(e, score)
    PROVE  /\ DOMAIN sched' = DOMAIN sched \union {e}
           /\ DOMAIN sched' \subseteq Envelope /\ \A x \in DOMAIN sched' : sched'[x] \in Nat
           /\ Finite'
  BY FS_AddElement DEF Types, TypeOK, Finite, Zadd

\* What a drain reads are different members of the sorted set that are due, and something
\* if anything is due.
LEMMA BatchType ==
    ASSUME Types, NEW t, NEW s \in Ranges(Due(t)), NEW n \in Nat
    PROVE  LET b == SubSeq(s, 1, Least(n, Len(s)))
           IN  /\ b \in Seq(Envelope) /\ ToSet(b) \subseteq DOMAIN sched
               /\ \A e \in ToSet(b) : sched[e] <= t
               /\ \A i, j \in DOMAIN b : b[i] = b[j] => i = j
               /\ n # 0 /\ b = <<>> => Due(t) = {}
  <1> DEFINE D == DOMAIN sched
             m == Least(n, Len(s))
  <1>1. Due(t) \subseteq D /\ D \subseteq Envelope /\ IsFiniteSet(Due(t))
    BY FS_Subset DEF Due, Types, TypeOK, Finite
  <1>2. Cardinality(Due(t)) \in Nat
    BY <1>1, FS_CardinalityType
  <1>3. s \in [1..Cardinality(Due(t)) -> Due(t)]
    BY DEF Ranges
  <1>4. s \in Seq(Due(t))
    BY <1>2, <1>3, SeqDef
  <1>5. Len(s) \in Nat /\ m \in Nat /\ m <= Len(s)
    BY <1>4, LenProperties DEF Least
  <1>6. \A i \in 1..m : s[i] \in Due(t)
    BY <1>4, <1>5, ElementOfSeq
  <1>7. /\ SubSeq(s, 1, m) \in Seq(Due(t))
        /\ Len(SubSeq(s, 1, m)) = IF 1 <= m THEN m - 1 + 1 ELSE 0
        /\ \A i \in 1..m - 1 + 1 : SubSeq(s, 1, m)[i] = s[1 + i - 1]
    BY <1>5, <1>6, SubSeqProperties
  <1>8. SubSeq(s, 1, m) \in Seq(Envelope)
    BY <1>1, <1>7, SeqMonotonic
  <1>9. DOMAIN SubSeq(s, 1, m) = 1..m /\ \A i \in 1..m : SubSeq(s, 1, m)[i] = s[i]
    <2>1. Len(SubSeq(s, 1, m)) = m /\ 1..m - 1 + 1 = 1..m /\ \A i \in 1..m : 1 + i - 1 = i
      BY <1>5, <1>7
    <2> QED
      BY <1>7, <2>1, LenProperties
  <1>10. \A i, j \in 1..m : s[i] = s[j] => i = j
    <2>1. \A i, j \in DOMAIN s : i < j => s[i] # s[j]
      BY DEF Ranges
    <2>2. 1..m \subseteq DOMAIN s
      BY <1>4, <1>5, LenProperties
    <2> QED
      BY <1>5, <2>1, <2>2
  <1>11. ASSUME n # 0, SubSeq(s, 1, m) = <<>> PROVE Due(t) = {}
    <2>1. m = 0
      <3>1. DOMAIN <<>> = {}
        OBVIOUS
      <3> QED
        BY <1>5, <1>9, <1>11, <3>1
    <2>2. Len(s) = 0
      BY <1>5, <1>11, <2>1 DEF Least
    <2>3. Cardinality(Due(t)) = 0
      BY <1>2, <1>3, <1>4, <2>2, LenProperties
    <2> QED
      BY <1>1, <2>3, FS_EmptySet
  <1>12. \A e \in ToSet(SubSeq(s, 1, m)) : sched[e] <= t
    <2>1. ToSet(SubSeq(s, 1, m)) \subseteq Due(t)
      BY <1>7, SetOfSeq
    <2> QED
      BY <2>1 DEF Due
  <1> QED
    BY <1>1, <1>7, <1>8, <1>9, <1>10, <1>11, <1>12, SetOfSeq, ZenonT(40)

\* BRPOP's timeout is not negative, at most Block, and ends by the next due time; it is
\* endless only if something is due at this very time.
LEMMA TimeoutType ==
    ASSUME Types, NEW t \in Nat
    PROVE  /\ Timeout(t) \in Nat /\ Timeout(t) <= Block
           /\ \A e \in DOMAIN sched : sched[e] >= t => Timeout(t) <= sched[e] - t
           /\ (\A e \in DOMAIN sched : sched[e] # t) => Timeout(t) # 0
  <1>1. CASE Coming(t) = {}
    BY <1>1, QueueAssumption DEF Timeout, Coming, Types, TypeOK
  <1>2. CASE Coming(t) # {}
    <2> DEFINE c == CHOOSE s \in Coming(t) : \A r \in Coming(t) : s <= r
    <2>1. Coming(t) \in SUBSET Nat /\ \A s \in Coming(t) : s >= t
      BY DEF Coming, Types, TypeOK
    <2>2. c \in Coming(t) /\ \A r \in Coming(t) : c <= r
      BY <1>2, <2>1, LeastNat
    <2>3. Timeout(t) = Least(Block, c - t)
      BY <1>2 DEF Timeout
    <2> HIDE DEF c
    <2>4. c \in Nat /\ c >= t
      BY <2>1, <2>2
    <2>5. \A e \in DOMAIN sched : sched[e] >= t => sched[e] \in Coming(t)
      BY DEF Coming
    <2>6. ASSUME NEW e \in DOMAIN sched, sched[e] >= t PROVE Timeout(t) <= sched[e] - t
      <3>1. c <= sched[e] /\ sched[e] \in Nat
        BY <2>2, <2>5, <2>6 DEF Types, TypeOK
      <3> QED
        BY <2>3, <2>4, <3>1, QueueAssumption DEF Least
    <2>7. Timeout(t) \in Nat /\ Timeout(t) <= Block
      BY <2>3, <2>4, QueueAssumption DEF Least
    <2>8. ASSUME \A e \in DOMAIN sched : sched[e] # t PROVE Timeout(t) # 0
      <3>1. c # t
        BY <2>2, <2>8 DEF Coming
      <3> QED
        BY <2>3, <2>4, <3>1, QueueAssumption DEF Least
    <2> QED
      BY <2>6, <2>7, <2>8
  <1> QED
    BY <1>1, <1>2

LEMMA TypesInit == Init => Types
  <1> SUFFICES ASSUME Init PROVE Types
    OBVIOUS
  <1>1. DOMAIN <<>> = {} /\ <<>> \in Seq(Envelope) /\ <<>> \in Seq(Webhook)
    OBVIOUS
  <1>2. IsFiniteSet({})
    BY FS_EmptySet
  <1> QED
    BY <1>1, <1>2 DEF Init, Types, TypeOK, Finite

LEMMA ProducersType ==
    ASSUME Types, NEW t \in Task, Produce(t) \/ EnqueueFails(t) \/ IngestCrash(t)
    PROVE  Types'
  <1>1. CASE Store(t)
    BY <1>1 DEF Types, TypeOK, Finite, Store, worker, outcome
  <1>2. CASE EnqueueOk(t)
    <2>1. CASE t \in Webhook /\ Lpush(First(t)) /\ order' = Append(order, t) /\ UNCHANGED <<sched, notBefore>>
      <3>1. ready' \in Seq(Envelope) /\ order' \in Seq(Webhook)
        BY <2>1, FirstType, SetOfPushed, AppendProperties DEF Lpush, Types, TypeOK
      <3> QED
        BY <1>2, <2>1, <3>1 DEF Types, TypeOK, Finite, EnqueueOk, worker
    <2>2. CASE /\ t \in Lifecycle /\ Zadd(First(t), now + Delay)
               /\ notBefore' = [notBefore EXCEPT ![t] = now + Delay]
               /\ UNCHANGED <<ready, order>>
      <3>1. now + Delay \in Nat
        BY QueueAssumption DEF Types, TypeOK
      <3>2. /\ DOMAIN sched' \subseteq Envelope /\ \A x \in DOMAIN sched' : sched'[x] \in Nat
            /\ Finite'
        BY <2>2, <3>1, FirstType, ZaddType
      <3> QED
        BY <1>2, <2>2, <3>1, <3>2 DEF Types, TypeOK, EnqueueOk, worker
    <2> QED
      BY <1>2, <2>1, <2>2 DEF EnqueueOk
  <1>3. CASE EnqueueFails(t) \/ IngestCrash(t)
    <2>1. /\ \/ produced' = [produced EXCEPT ![t] = "notified"]
             \/ produced' = [produced EXCEPT ![t] = "refused"]
          /\ faults' = faults + 1
          /\ UNCHANGED <<now, ready, sched, worker, defers, outcome, notBefore>>
      BY <1>3 DEF EnqueueFails, IngestCrash, Fails
    <2>2. produced' \in [Task -> {"new", "stored", "accepted", "refused", "notified"}]
      BY <2>1 DEF Types, TypeOK
    <2> QED
      BY <2>1, <2>2 DEF Types, TypeOK, Finite, worker, outcome
  <1> QED
    BY <1>1, <1>2, <1>3 DEF Produce

LEMMA DequeueType ==
    ASSUME Types, NEW w \in Worker, Dequeue(w)
    PROVE  Types'
  <1> USE DEF Types, TypeOK, Finite, Goto
  <1>1. CASE DrainRead(w)
    <2>1. PICK s \in Ranges(Due(now)) :
             batch' = [batch EXCEPT ![w] = SubSeq(s, 1, Least(Batch, Len(s)))]
      BY <1>1 DEF DrainRead
    <2>2. batch' \in [Worker -> Seq(Envelope)]
      BY <2>1, BatchType, QueueAssumption
    <2> QED
      BY <1>1, <2>2 DEF DrainRead, outcome
  <1>2. CASE DrainPush(w)
    <2>1. ready' \in Seq(Envelope)
      BY <1>2, SetOfReversed DEF DrainPush
    <2> QED
      BY <1>2, <2>1 DEF DrainPush, outcome
  <1>3. CASE DrainRemove(w)
    <2>1. DOMAIN sched' \subseteq DOMAIN sched /\ \A x \in DOMAIN sched' : sched'[x] = sched[x]
      BY <1>3 DEF DrainRemove, Zrem
    <2>2. Finite'
      BY <2>1, FS_Subset
    <2>3. batch' \in [Worker -> Seq(Envelope)]
      BY <1>3 DEF DrainRemove
    <2> QED
      BY <1>3, <2>1, <2>2, <2>3 DEF DrainRemove, outcome
  <1>4. CASE DrainNext(w)
    <2>1. Timeout(clock[w]) \in Nat
      BY TimeoutType
    <2>2. PICK d \in Nat, where \in {"read", "block"} :
             /\ pc' = [pc EXCEPT ![w] = where] /\ until' = [until EXCEPT ![w] = d]
      <3>1. CASE trailing[w]
        BY <1>4, <3>1 DEF DrainNext
      <3>2. CASE ~trailing[w]
        <4> DEFINE d == IF Timeout(clock[w]) = 0 THEN 0 ELSE now + Timeout(clock[w])
        <4>1. d \in Nat
          BY <2>1
        <4>2. pc' = [pc EXCEPT ![w] = "block"] /\ until' = [until EXCEPT ![w] = d]
          BY <1>4, <3>2 DEF DrainNext
        <4> QED
          BY <4>1, <4>2
      <3> QED
        BY <3>1, <3>2
    <2> QED
      BY <1>4, <2>2 DEF DrainNext, outcome
  <1>5. CASE Pop(w)
    <2>1. Last(ready) \in Envelope /\ Front(ready) \in Seq(Envelope)
      BY <1>5, SetOfPopped DEF Pop
    <2> QED
      BY <1>5, <2>1 DEF Pop, outcome
  <1>6. CASE PopTimeout(w)
    BY <1>6 DEF PopTimeout, outcome
  <1> QED
    BY <1>1, <1>2, <1>3, <1>4, <1>5, <1>6 DEF Dequeue

LEMMA ReleasedType ==
    ASSUME Types, NEW w \in Worker, Released(w)
    PROVE  /\ hand' \in [Worker -> Envelope \union {Nothing}]
           /\ batch' \in [Worker -> Seq(Envelope)]
           /\ pc' \in [Worker -> {"read", "push", "remove", "next", "block", "handling", "failed"}]
  BY DEF Types, TypeOK, Released, Goto

\* What a worker holds while it handles a task, or has failed to.
HoldsTask == \A w \in Worker : pc[w] \in {"handling", "failed"} => hand[w] \in Envelope

\* The prover knows powers of two only as numbers of subsets.
LEMMA BackoffType ==
    ASSUME NEW n \in Nat
    PROVE  Backoff(n) \in Nat
  <1>1. IsFiniteSet(1..n) /\ Cardinality(1..n) = n
    BY FS_Interval
  <1>2. IsFiniteSet(SUBSET (1..n)) /\ Cardinality(SUBSET (1..n)) = 2 ^ n
    BY <1>1, FS_SUBSET
  <1>3. 2 ^ n \in Nat
    BY <1>2, FS_CardinalityType
  <1>4. Base * 2 ^ n \in Nat
    BY <1>3, QueueAssumption
  <1> QED
    BY <1>4, QueueAssumption DEF Backoff, Least

\* The envelopes that a deferral and a retry queue.
LEMMA NextEnvelope ==
    ASSUME NEW e \in Envelope, NEW n \in Nat
    PROVE  /\ e.task \in Task /\ e.attempts \in Nat /\ e.stamp \in Nat
           /\ LET d == [e EXCEPT !.stamp = n]
              IN  d \in Envelope /\ d.task = e.task /\ d.attempts = e.attempts /\ d.stamp = n
           /\ LET d == [e EXCEPT !.attempts = @ + 1]
              IN  /\ d \in Envelope /\ d.task = e.task /\ d.stamp = e.stamp
                  /\ d.attempts = e.attempts + 1
  BY DEF Envelope

LEMMA FlushType ==
    ASSUME Types, HoldsTask, NEW w \in Worker, Flush(w) \/ Crash(w)
    PROVE  Types'
  <1> USE DEF Types, TypeOK, Finite
  <1>1. CASE Succeed(w)
    BY <1>1, ReleasedType DEF Succeed, HoldsTask, Envelope
  <1>2. CASE Defer(w)
    <2> DEFINE e == [hand[w] EXCEPT !.stamp = defers']
    <2>0. hand[w] \in Envelope /\ defers' = defers + 1 /\ defers' \in Nat
      BY <1>2 DEF Defer, HoldsTask
    <2>1. e \in Envelope /\ now + Delay \in Nat /\ hand[w].task \in Task
      <3>1. e \in Envelope /\ hand[w].task \in Task
        BY <2>0, NextEnvelope
      <3>2. now + Delay \in Nat
        BY QueueAssumption
      <3> QED
        BY <3>1, <3>2
    <2>2. Zadd(e, now + Delay)
      BY <1>2 DEF Defer
    <2> HIDE DEF e
    <2>3. /\ DOMAIN sched' \subseteq Envelope /\ \A x \in DOMAIN sched' : sched'[x] \in Nat
          /\ Finite'
      BY <2>1, <2>2, ZaddType
    <2>4. /\ notBefore' = [notBefore EXCEPT ![hand[w].task] = now + Delay]
          /\ UNCHANGED <<now, produced, ready, clock, trailing, until, outcome, faults>>
          /\ Released(w)
      BY <1>2 DEF Defer
    <2> QED
      BY <2>0, <2>1, <2>3, <2>4, ReleasedType DEF outcome
  <1>3. CASE Fail(w)
    <2>1. hand[w].task \in Task
      BY <1>3, NextEnvelope DEF Fail, HoldsTask
    <2>2. fails' \in [Task -> Nat]
      BY <1>3, <2>1 DEF Fail
    <2> QED
      BY <1>3, <2>2 DEF Fail, Goto
  <1>4. CASE Requeue(w)
    <2>1. PICK j \in 0..Jitter :
             LET score == now + Backoff(hand[w].attempts) + j IN
             /\ Zadd([hand[w] EXCEPT !.attempts = @ + 1], score)
             /\ notBefore' = [notBefore EXCEPT ![hand[w].task] = score]
      BY <1>4 DEF Requeue
    <2> DEFINE e == [hand[w] EXCEPT !.attempts = @ + 1]
               score == now + Backoff(hand[w].attempts) + j
    <2>2. e \in Envelope /\ hand[w].attempts \in Nat /\ hand[w].task \in Task
      BY <1>4, NextEnvelope DEF Requeue, HoldsTask
    <2>3. score \in Nat
      <3>1. Backoff(hand[w].attempts) \in Nat
        BY <2>2, BackoffType
      <3>2. j \in Nat
        BY QueueAssumption
      <3> QED
        BY <3>1, <3>2
    <2> HIDE DEF e, score
    <2>4. Zadd(e, score) /\ notBefore' = [notBefore EXCEPT ![hand[w].task] = score]
      BY <2>1 DEF e, score
    <2>5. /\ DOMAIN sched' \subseteq Envelope /\ \A x \in DOMAIN sched' : sched'[x] \in Nat
          /\ Finite'
      BY <2>2, <2>3, <2>4, ZaddType
    <2> QED
      BY <1>4, <2>2, <2>3, <2>4, <2>5, ReleasedType DEF Requeue, outcome
  <1>5. CASE GiveUp(w)
    BY <1>5, ReleasedType DEF GiveUp, HoldsTask, Envelope
  <1>6. CASE Crash(w)
    <2>1. faults' = faults + 1 /\ hurt' \subseteq Task
      BY <1>6 DEF Crash, Fails, HoldsTask, Envelope
    <2> QED
      BY <1>6, <2>1, ReleasedType, SMTT(20) DEF Crash
  <1> QED
    BY <1>1, <1>2, <1>3, <1>4, <1>5, <1>6 DEF Flush

LEMMA TypesStep ==
    ASSUME Types, HoldsTask, [Next]_vars
    PROVE  Types'
  <1>1. CASE Tick
    BY <1>1 DEF Types, TypeOK, Finite, Tick, worker, outcome
  <1>2. CASE UNCHANGED vars
    BY <1>2 DEF Types, TypeOK, Finite, vars
  <1> QED
    BY <1>1, <1>2, ProducersType, DequeueType, FlushType DEF Next

(* ------------------------- where the copies are ------------------------- *)

\* Envelopes that a worker popped and has not settled.
Carried == {hand[w] : w \in {x \in Worker : pc[x] \in {"handling", "failed"}}}

\* The copies that count: in the list, scheduled, or with a worker.
Copies == Waiting \union Carried

\* What drains have read and not yet removed from the sorted set.
Drained == UNION {ToSet(batch[w]) : w \in {x \in Worker : pc[x] \in {"push", "remove"}}}

Settled(t) == t \in done \union dropped \union hurt

\* f is the same task as e, retried or deferred at least as often.
Follows(f, e) ==
    /\ f.task = e.task
    /\ f.attempts > e.attempts \/ (f.attempts = e.attempts /\ f.stamp >= e.stamp)

Traced(e) == Settled(e.task) \/ \E f \in Copies : Follows(f, e)

\* Only accepted tasks are anywhere; a copy is not ahead of the failures of its task,
\* and its stamp not of the deferrals.
Places ==
    /\ HoldsTask
    /\ \A e \in Copies \union Drained :
          produced[e.task] = "accepted" /\ e.stamp <= defers /\ e.attempts <= fails[e.task]
    /\ \A w \in Worker : pc[w] = "failed" => hand[w].attempts < fails[hand[w].task]
    /\ \A t \in done \union dropped \union hurt : produced[t] = "accepted"

\* What a drain is about to push or to remove has gone on elsewhere, unless it is
\* still there: so nothing depends on the drain, and removing loses nothing.
AllTraced == \A e \in Drained : Traced(e)

\* An accepted task is settled, or there is a copy that counts.
Kept ==
    \A t \in Task : produced[t] = "accepted" => Settled(t) \/ \E f \in Copies : f.task = t

QueueInv == Types /\ Places /\ AllTraced /\ Kept

\* What drains have read and not yet pushed.
Pushing == UNION {ToSet(batch[w]) : w \in {x \in Worker : pc[x] = "push"}}

\* The same sets, worker by worker, in a state and in the next one.
LEMMA Members ==
    ASSUME NEW e
    PROVE  /\ e \in Moving <=> \E w \in Worker : pc[w] = "remove" /\ e \in ToSet(batch[w])
           /\ e \in Pushing <=> \E w \in Worker : pc[w] = "push" /\ e \in ToSet(batch[w])
           /\ e \in Drained <=> e \in Moving \/ e \in Pushing
           /\ e \in Carried <=> \E w \in Worker : pc[w] \in {"handling", "failed"} /\ e = hand[w]
           /\ e \in Copies <=> (\/ e \in ToSet(ready) \/ e \in Carried
                               \/ (e \in DOMAIN sched /\ e \notin Moving))
  BY DEF Moving, Pushing, Drained, Carried, Copies, Waiting

LEMMA MembersNext ==
    ASSUME NEW e
    PROVE  /\ e \in Moving' <=> \E w \in Worker : pc'[w] = "remove" /\ e \in ToSet(batch'[w])
           /\ e \in Pushing' <=> \E w \in Worker : pc'[w] = "push" /\ e \in ToSet(batch'[w])
           /\ e \in Drained' <=> e \in Moving' \/ e \in Pushing'
           /\ e \in Carried' <=> \E w \in Worker : pc'[w] \in {"handling", "failed"} /\ e = hand'[w]
           /\ e \in Copies' <=> (\/ e \in ToSet(ready') \/ e \in Carried'
                                \/ (e \in DOMAIN sched' /\ e \notin Moving'))
  BY DEF Moving, Pushing, Drained, Carried, Copies, Waiting

LEMMA CopiesType ==
    ASSUME Types, HoldsTask
    PROVE  Copies \subseteq Envelope /\ Drained \subseteq Envelope /\ Moving \subseteq Envelope
           /\ DOMAIN sched \subseteq Copies \union Drained
  <1>1. ToSet(ready) \subseteq Envelope /\ DOMAIN sched \subseteq Envelope
        /\ \A w \in Worker : ToSet(batch[w]) \subseteq Envelope
    BY SetOfSeq DEF Types, TypeOK
  <1> QED
    BY <1>1, Members DEF HoldsTask

\* Steps that neither move an envelope nor change what a drain has read.
LEMMA StillSets ==
    ASSUME Types, UNCHANGED <<ready, sched>>,
           \A x \in Worker : \/ pc'[x] = pc[x] /\ batch'[x] = batch[x] /\ hand'[x] = hand[x]
                             \/ /\ pc[x] \notin {"push", "remove", "handling", "failed"}
                                /\ pc'[x] \notin {"push", "remove", "handling", "failed"}
                             \/ /\ pc[x] \in {"handling", "failed"} /\ hand'[x] = hand[x]
                                /\ pc'[x] \in {"handling", "failed"}
    PROVE  Copies' = Copies /\ Drained' = Drained /\ Pushing' = Pushing /\ Moving' = Moving
  <1>1. ASSUME NEW e
        PROVE  (e \in Moving' <=> e \in Moving) /\ (e \in Pushing' <=> e \in Pushing)
               /\ (e \in Carried' <=> e \in Carried)
    BY Members, MembersNext
  <1> QED
    BY <1>1, Members, MembersNext

LEMMA PushSets ==
    ASSUME Types, NEW w \in Worker, DrainPush(w)
    PROVE  /\ Copies' = Copies \union ToSet(batch[w]) /\ Drained' = Drained
           /\ Pushing' \subseteq Pushing /\ Pushing \subseteq Pushing' \union ToSet(batch[w])
  <1>1. ToSet(ready') = ToSet(batch[w]) \union ToSet(ready)
    BY SetOfReversed DEF DrainPush, Types, TypeOK
  <1>2. /\ pc' = [pc EXCEPT ![w] = "remove"] /\ pc[w] = "push"
        /\ UNCHANGED <<sched, batch, hand>> /\ DOMAIN pc = Worker
    BY DEF DrainPush, Goto, Types, TypeOK
  <1>3. ASSUME NEW e
        PROVE  /\ e \in Moving' <=> e \in Moving \/ e \in ToSet(batch[w])
               /\ e \in Pushing' => e \in Pushing
               /\ e \in Pushing => e \in Pushing' \/ e \in ToSet(batch[w])
               /\ e \in Carried' <=> e \in Carried
               /\ e \in ToSet(batch[w]) => e \in Pushing
    BY <1>2, Members, MembersNext
  <1> QED
    BY <1>1, <1>2, <1>3, Members, MembersNext

LEMMA ReadSets ==
    ASSUME Types, NEW w \in Worker, DrainRead(w)
    PROVE  /\ Copies' = Copies /\ Moving' = Moving
           /\ Pushing \subseteq Pushing' /\ Pushing' \subseteq Pushing \union DOMAIN sched
  <1>1. PICK s \in Ranges(Due(now)) :
           batch' = [batch EXCEPT ![w] = SubSeq(s, 1, Least(Batch, Len(s)))]
    BY DEF DrainRead
  <1>2. ToSet(batch'[w]) \subseteq DOMAIN sched
    BY <1>1, BatchType, QueueAssumption DEF Types, TypeOK
  <1>3. /\ pc[w] = "read" /\ pc'[w] \in {"next", "push"} /\ UNCHANGED <<ready, sched, hand>>
        /\ \A x \in Worker : x # w => pc'[x] = pc[x] /\ batch'[x] = batch[x]
    BY <1>1 DEF DrainRead, Goto, Types, TypeOK
  <1>4. ASSUME NEW e
        PROVE  /\ e \in Moving' <=> e \in Moving
               /\ e \in Pushing => e \in Pushing'
               /\ e \in Pushing' => e \in Pushing \/ e \in DOMAIN sched
               /\ e \in Carried' <=> e \in Carried
    BY <1>2, <1>3, Members, MembersNext
  <1> QED
    BY <1>3, <1>4, Members, MembersNext

LEMMA RemoveSets ==
    ASSUME Types, NEW w \in Worker, DrainRemove(w)
    PROVE  Copies' = Copies /\ Drained' \subseteq Drained /\ Pushing' = Pushing
  <1>1. DOMAIN sched' = DOMAIN sched \ ToSet(batch[w])
    BY DEF DrainRemove, Zrem
  <1>2. /\ pc[w] = "remove" /\ pc'[w] = "next" /\ UNCHANGED <<ready, hand>>
        /\ \A x \in Worker : x # w => pc'[x] = pc[x] /\ batch'[x] = batch[x]
    BY DEF DrainRemove, Goto, Types, TypeOK
  <1>3. ASSUME NEW e
        PROVE  /\ e \in Moving <=> e \in Moving' \/ e \in ToSet(batch[w])
               /\ e \in Pushing' <=> e \in Pushing
               /\ e \in Carried' <=> e \in Carried
    BY <1>2, Members, MembersNext
  <1> QED
    BY <1>1, <1>2, <1>3, Members, MembersNext

LEMMA PopSets ==
    ASSUME Types, NEW w \in Worker, Pop(w)
    PROVE  /\ Copies' = Copies /\ Drained' = Drained /\ Pushing' = Pushing
           /\ hand'[w] \in Copies /\ hand'[w] \in Envelope
  <1>1. ToSet(ready) = ToSet(ready') \union {hand'[w]} /\ hand'[w] \in Envelope
    BY SetOfPopped DEF Pop, Types, TypeOK
  <1>2. /\ pc[w] = "block" /\ pc'[w] = "handling" /\ UNCHANGED <<sched, batch>>
        /\ \A x \in Worker : x # w => pc'[x] = pc[x] /\ hand'[x] = hand[x]
    BY DEF Pop, Goto, Types, TypeOK
  <1>3. ASSUME NEW e
        PROVE  /\ e \in Moving' <=> e \in Moving
               /\ e \in Pushing' <=> e \in Pushing
               /\ e \in Carried' <=> e \in Carried \/ e = hand'[w]
    BY <1>2, Members, MembersNext
  <1> QED
    BY <1>1, <1>2, <1>3, Members, MembersNext

\* A worker that held a task lets it go.
LEMMA ReleaseSets ==
    ASSUME Types, NEW w \in Worker, pc[w] \in {"handling", "failed"}, Released(w)
    PROVE  /\ Moving' = Moving /\ Pushing' = Pushing /\ Drained' = Drained
           /\ Carried' \subseteq Carried /\ Carried \subseteq Carried' \union {hand[w]}
           /\ hand[w] \in Carried /\ hand[w] \in Copies
  <1>1. /\ pc'[w] = "read"
        /\ \A x \in Worker : x # w => /\ pc'[x] = pc[x] /\ hand'[x] = hand[x]
                                       /\ batch'[x] = batch[x]
    BY DEF Released, Goto, Types, TypeOK
  <1>2. ASSUME NEW e
        PROVE  /\ e \in Moving' <=> e \in Moving
               /\ e \in Pushing' <=> e \in Pushing
               /\ e \in Carried' => e \in Carried
               /\ e \in Carried => e \in Carried' \/ e = hand[w]
    BY <1>1, Members, MembersNext
  <1> QED
    BY <1>2, Members, MembersNext

\* A worker dies that was draining or waiting.
LEMMA CrashSets ==
    ASSUME Types, NEW w \in Worker, pc[w] \notin {"handling", "failed"}, Released(w),
           UNCHANGED <<ready, sched>>
    PROVE  /\ Copies \subseteq Copies' /\ Copies' \subseteq Copies \union Drained
           /\ Drained' \subseteq Drained /\ Pushing' \subseteq Pushing
  <1>1. /\ pc'[w] = "read"
        /\ \A x \in Worker : x # w => /\ pc'[x] = pc[x] /\ hand'[x] = hand[x]
                                       /\ batch'[x] = batch[x]
    BY DEF Released, Goto, Types, TypeOK
  <1>2. ASSUME NEW e
        PROVE  /\ e \in Moving' => e \in Moving
               /\ e \in Pushing' => e \in Pushing
               /\ e \in Carried' <=> e \in Carried
    BY <1>1, Members, MembersNext
  <1> QED
    BY <1>2, Members, MembersNext

(* ---------------------------- the invariant ----------------------------- *)

\* Nothing that was settled or accepted, and no count, is taken back.
Grows ==
    /\ \A t \in Task : produced[t] = "accepted" => produced'[t] = "accepted"
    /\ done \subseteq done' /\ dropped \subseteq dropped' /\ hurt \subseteq hurt'
    /\ \A t \in done' \union dropped' \union hurt' :
          t \in done \union dropped \union hurt \/ produced'[t] = "accepted"
    /\ defers <= defers' /\ \A t \in Task : fails[t] <= fails'[t]

\* A copy that a step makes.
Made(e) ==
    produced'[e.task] = "accepted" /\ e.stamp <= defers' /\ e.attempts <= fails'[e.task]

LEMMA FollowsOrder ==
    ASSUME NEW e \in Envelope, NEW f \in Envelope, NEW g \in Envelope
    PROVE  Follows(e, e) /\ (Follows(f, e) /\ Follows(g, f) => Follows(g, e))
  BY DEF Follows, Envelope

\* A step preserves the invariant if it leaves a trace of every copy.
LEMMA Preserved ==
    ASSUME QueueInv, Types', Grows, HoldsTask',
           \A w \in Worker : pc'[w] = "failed" => hand'[w].attempts < fails'[hand'[w].task],
           \A e \in Copies' : e \in Copies \union Drained \/ Made(e),
           Drained' \subseteq Copies \union Drained,
           \A f \in Copies : Traced(f)',
           \A t \in Task : /\ produced'[t] = "accepted" /\ produced[t] # "accepted"
                          => \E f \in Copies' : f.task = t
    PROVE  QueueInv'
  <1>1. /\ Copies \subseteq Envelope /\ Drained \subseteq Envelope
        /\ Copies' \subseteq Envelope /\ Drained' \subseteq Envelope
    <2>1. Copies \subseteq Envelope /\ Drained \subseteq Envelope
      BY CopiesType DEF QueueInv, Places
    <2>2. /\ ToSet(ready') \subseteq Envelope /\ DOMAIN sched' \subseteq Envelope
          /\ \A w \in Worker : ToSet(batch'[w]) \subseteq Envelope
      BY SetOfSeq DEF Types, TypeOK
    <2> QED
      BY <2>1, <2>2, MembersNext DEF HoldsTask
  <1>2. Places'
    <2>1. ASSUME NEW e \in Copies' \union Drained' PROVE Made(e)
      <3>1. CASE e \in Copies \union Drained
        <4>1. /\ e.task \in Task /\ e.stamp \in Nat /\ e.attempts \in Nat
              /\ produced[e.task] = "accepted" /\ e.stamp <= defers
              /\ e.attempts <= fails[e.task]
          BY <3>1, <1>1, NextEnvelope DEF QueueInv, Places
        <4>2. /\ defers \in Nat /\ defers' \in Nat /\ fails[e.task] \in Nat
              /\ fails'[e.task] \in Nat
          BY <4>1 DEF QueueInv, Types, TypeOK
        <4> QED
          BY <4>1, <4>2 DEF Made, Grows
      <3> QED
        BY <3>1
    <2>2. \A t \in done' \union dropped' \union hurt' : produced'[t] = "accepted"
      <3>1. done \union dropped \union hurt \subseteq Task
        BY DEF QueueInv, Types, TypeOK
      <3> QED
        BY <3>1 DEF QueueInv, Places, Grows
    <2> QED
      BY <2>1, <2>2 DEF Places, Made
  <1>3. ASSUME NEW e \in Copies \union Drained PROVE Traced(e)'
    <2>1. CASE e \in Copies
      BY <2>1
    <2>2. CASE e \in Drained
      <3>1. CASE Settled(e.task)
        BY <3>1 DEF Grows, Settled, Traced
      <3>2. CASE ~Settled(e.task)
        <4>1. PICK f \in Copies : Follows(f, e)
          BY <2>2, <3>2 DEF QueueInv, AllTraced, Traced
        <4>2. Traced(f)'
          BY <4>1
        <4>3. CASE Settled(f.task)'
          BY <4>1, <4>3 DEF Traced, Follows
        <4>4. CASE ~Settled(f.task)'
          <5>1. PICK g \in Copies' : Follows(g, f)
            BY <4>2, <4>4 DEF Traced
          <5>2. Follows(g, e)
            BY <2>2, <4>1, <5>1, <1>1, FollowsOrder
          <5> QED
            BY <5>1, <5>2 DEF Traced
        <4> QED
          BY <4>3, <4>4
      <3> QED
        BY <3>1, <3>2
    <2> QED
      BY <2>1, <2>2
  <1>4. AllTraced'
    BY <1>3 DEF AllTraced
  <1>5. Kept'
    <2> SUFFICES ASSUME NEW t \in Task, produced'[t] = "accepted", produced[t] = "accepted",
                        ~Settled(t)'
                 PROVE  \E f \in Copies' : f.task = t
      BY DEF Kept
    <2>1. ~Settled(t)
      BY DEF Grows, Settled
    <2>2. PICK f \in Copies : f.task = t
      BY <2>1 DEF QueueInv, Kept
    <2>3. PICK g \in Copies' : Follows(g, f)
      BY <2>2 DEF Traced
    <2> QED
      BY <2>2, <2>3 DEF Follows
  <1> QED
    BY <1>2, <1>4, <1>5 DEF QueueInv

LEMMA InvInit == Init => QueueInv
  <1> SUFFICES ASSUME Init PROVE QueueInv
    OBVIOUS
  <1>1. ToSet(<<>>) = {} /\ DOMAIN sched = {} /\ ready = <<>>
    BY DEF Init, ToSet
  <1>2. Copies = {} /\ Drained = {}
    BY <1>1, Members DEF Init
  <1> QED
    BY <1>2, TypesInit DEF Init, QueueInv, Places, HoldsTask, AllTraced, Kept

\* Steps that leave every copy where it is.
LEMMA InvStill ==
    ASSUME QueueInv, Types', Grows, HoldsTask', UNCHANGED produced,
           \A w \in Worker : pc'[w] = "failed" => hand'[w].attempts < fails'[hand'[w].task],
           Copies \subseteq Copies', Copies' \subseteq Copies \union Drained,
           Drained' \subseteq Copies \union Drained
    PROVE  QueueInv'
  <1>1. Copies \subseteq Envelope
    BY CopiesType DEF QueueInv, Places
  <1>2. \A f \in Copies : Traced(f)'
    BY <1>1, FollowsOrder DEF Traced
  <1> QED
    BY <1>2, Preserved

LEMMA InvProducers ==
    ASSUME QueueInv, NEW t \in Task, Produce(t) \/ EnqueueFails(t) \/ IngestCrash(t)
    PROVE  /\ QueueInv'
           /\ ~EnqueueOk(t) => Copies' = Copies /\ Pushing' = Pushing
           /\ EnqueueOk(t) => Copies' = Copies \union {First(t)} /\ Pushing' = Pushing
  <1>0. Types'
    BY ProducersType DEF QueueInv
  <1>1. CASE ~EnqueueOk(t)
    <2>1. /\ produced[t] # "accepted" /\ \E x : produced' = [produced EXCEPT ![t] = x] /\ x # "accepted"
          /\ UNCHANGED <<ready, sched, worker, defers, outcome>>
      BY <1>1 DEF Produce, Store, EnqueueFails, IngestCrash
    <2>2. Copies' = Copies /\ Drained' = Drained /\ Pushing' = Pushing
      BY <2>1, StillSets DEF worker, QueueInv
    <2>3. Grows
      BY <2>1 DEF Grows, outcome, QueueInv, Types, TypeOK
    <2>4. /\ HoldsTask' /\ Copies \subseteq Envelope
          /\ \A w \in Worker : pc'[w] = "failed" => hand'[w].attempts < fails'[hand'[w].task]
      BY <2>1, CopiesType DEF worker, outcome, QueueInv, Places, HoldsTask
    <2>5. \A f \in Copies : Traced(f)'
      BY <2>2, <2>4, FollowsOrder DEF Traced
    <2>6. \A u \in Task : produced'[u] = "accepted" => produced[u] = "accepted"
      BY <2>1 DEF QueueInv, Types, TypeOK
    <2> QED
      BY <1>0, <1>1, <2>2, <2>3, <2>4, <2>5, <2>6, Preserved
  <1>2. CASE EnqueueOk(t)
    <2>1. /\ produced[t] = "stored" /\ produced' = [produced EXCEPT ![t] = "accepted"]
          /\ UNCHANGED <<worker, defers, done, dropped, fails, hurt>>
      BY <1>2 DEF EnqueueOk
    <2>2. First(t) \notin Moving
      BY <2>1, FirstType, Members DEF QueueInv, Places
    <2>3. Moving' = Moving /\ Drained' = Drained /\ Carried' = Carried /\ Pushing' = Pushing
      BY <2>1 DEF worker, Moving, Drained, Carried, Pushing
    <2>4. Copies' = Copies \union {First(t)}
      <3>1. CASE Lpush(First(t)) /\ UNCHANGED sched
        <4>1. ToSet(ready') = ToSet(ready) \union {First(t)}
          BY <3>1, FirstType, SetOfPushed DEF Lpush, QueueInv, Types, TypeOK
        <4> QED
          BY <3>1, <4>1, <2>3, Members, MembersNext
      <3>2. CASE Zadd(First(t), now + Delay) /\ UNCHANGED ready
        <4>1. DOMAIN sched' = DOMAIN sched \union {First(t)}
          BY <3>2 DEF Zadd
        <4> QED
          BY <3>2, <4>1, <2>2, <2>3, Members, MembersNext
      <3> QED
        BY <1>2, <3>1, <3>2 DEF EnqueueOk
    <2>5. Grows
      BY <2>1 DEF Grows, QueueInv, Types, TypeOK
    <2>6. /\ HoldsTask' /\ Copies \subseteq Envelope
          /\ \A w \in Worker : pc'[w] = "failed" => hand'[w].attempts < fails'[hand'[w].task]
      BY <2>1, CopiesType DEF worker, QueueInv, Places, HoldsTask
    <2>7. \A f \in Copies : Traced(f)'
      BY <2>4, <2>6, FollowsOrder DEF Traced
    <2>8. Made(First(t))
      BY <2>1, FirstType DEF Made, QueueInv, Types, TypeOK
    <2>9. \A u \in Task : produced'[u] = "accepted" /\ produced[u] # "accepted" => u = t
      BY <2>1 DEF QueueInv, Types, TypeOK
    <2>10. QueueInv'
      BY <1>0, <2>3, <2>4, <2>5, <2>6, <2>7, <2>8, <2>9, FirstType, Preserved
    <2> QED
      BY <1>2, <2>3, <2>4, <2>10
  <1> QED
    BY <1>1, <1>2

LEMMA InvDequeue ==
    ASSUME QueueInv, NEW w \in Worker, Dequeue(w)
    PROVE  QueueInv'
  <1>0. Types' /\ Types /\ Places
    BY DequeueType DEF QueueInv
  <1>1. /\ UNCHANGED <<produced, defers, done, dropped, fails, hurt>>
        /\ \A x \in Worker : x # w => pc'[x] = pc[x] /\ hand'[x] = hand[x]
        /\ pc'[w] # "failed"
        /\ pc'[w] = "handling" => Pop(w)
    BY <1>0, ZenonT(40) DEF Dequeue, DrainRead, DrainPush, DrainRemove, DrainNext, Pop, PopTimeout, Goto,
                outcome, Types, TypeOK
  <1>2. Grows
    BY <1>0, <1>1 DEF Grows, Types, TypeOK
  <1>3. HoldsTask'
    BY <1>0, <1>1, PopSets DEF HoldsTask, Places
  <1>4. \A x \in Worker : pc'[x] = "failed" => hand'[x].attempts < fails'[hand'[x].task]
    BY <1>0, <1>1 DEF Places
  <1>5. DOMAIN sched \subseteq Copies \union Drained
    BY <1>0, CopiesType DEF Places
  <1>6. /\ Copies \subseteq Copies' /\ Copies' \subseteq Copies \union Drained
        /\ Drained' \subseteq Copies \union Drained
    <2>1. CASE DrainRead(w)
      BY <2>1, <1>0, <1>5, ReadSets, Members, MembersNext
    <2>2. CASE DrainPush(w)
      <3>1. pc[w] = "push"
        BY <2>2 DEF DrainPush
      <3>2. ToSet(batch[w]) \subseteq Drained
        BY <3>1, Members
      <3> QED
        BY <2>2, <3>2, <1>0, PushSets
    <2>3. CASE DrainRemove(w)
      BY <2>3, <1>0, RemoveSets
    <2>4. CASE DrainNext(w) \/ PopTimeout(w)
      <3>1. /\ UNCHANGED <<ready, sched, batch, hand>> /\ pc[w] \in {"next", "block"}
            /\ pc'[w] \in {"read", "block"} /\ \A x \in Worker : x # w => pc'[x] = pc[x]
        BY <2>4, <1>0 DEF DrainNext, PopTimeout, Goto, Types, TypeOK
      <3> QED
        BY <3>1, <1>0, StillSets
    <2>5. CASE Pop(w)
      BY <2>5, <1>0, PopSets
    <2> QED
      BY <2>1, <2>2, <2>3, <2>4, <2>5 DEF Dequeue
  <1> QED
    BY <1>0, <1>1, <1>2, <1>3, <1>4, <1>6, InvStill

\* A worker that lets a settled or lost task go.
LEMMA InvSettles ==
    ASSUME QueueInv, NEW w \in Worker, Types', pc[w] \in {"handling", "failed"}, Released(w),
           Succeed(w) \/ GiveUp(w) \/ Crash(w)
    PROVE  /\ QueueInv' /\ Pushing' = Pushing
           /\ Copies' \subseteq Copies /\ Copies \subseteq Copies' \union {hand[w]}
  <1>0. Types /\ Places /\ hand[w] \in Envelope
    BY DEF QueueInv, Places, HoldsTask
  <1>1. /\ UNCHANGED <<produced, ready, sched, defers, fails>>
        /\ done \subseteq done' /\ dropped \subseteq dropped' /\ hurt \subseteq hurt'
        /\ done' \union dropped' \union hurt' = done \union dropped \union hurt \union {hand[w].task}
    BY DEF Succeed, GiveUp, Crash, outcome
  <1>2. /\ Copies' \subseteq Copies /\ Copies \subseteq Copies' \union {hand[w]}
        /\ Drained' = Drained /\ Pushing' = Pushing /\ hand[w] \in Copies
    BY <1>0, <1>1, ReleaseSets, Members, MembersNext
  <1>3. produced[hand[w].task] = "accepted"
    BY <1>0, <1>2 DEF Places
  <1>4. Grows
    BY <1>0, <1>1, <1>3, SMTT(20) DEF Grows, Types, TypeOK
  <1>5. /\ HoldsTask'
        /\ \A x \in Worker : pc'[x] = "failed" => hand'[x].attempts < fails'[hand'[x].task]
    BY <1>0, <1>1 DEF Released, Goto, Types, TypeOK, Places, HoldsTask
  <1>6. \A f \in Copies : Traced(f)'
    <2>1. Copies \subseteq Envelope
      BY <1>0, CopiesType DEF Places
    <2> SUFFICES ASSUME NEW f \in Copies PROVE Traced(f)'
      OBVIOUS
    <2>2. CASE f = hand[w]
      BY <2>2, <1>1 DEF Traced, Settled
    <2>3. CASE f \in Copies'
      BY <2>1, <2>3, FollowsOrder DEF Traced
    <2> QED
      BY <1>2, <2>2, <2>3
  <1>7. QueueInv'
    BY <1>1, <1>2, <1>4, <1>5, <1>6, Preserved
  <1> QED
    BY <1>2, <1>7

\* A worker that replaces its copy by a later one. If that is being removed from the
\* sorted set at this moment, its own trace remains.
LEMMA InvReplaces ==
    ASSUME QueueInv, NEW w \in Worker, Types', pc[w] \in {"handling", "failed"}, Released(w),
           NEW e \in Envelope, NEW score, Zadd(e, score), Follows(e, hand[w]), e # hand[w],
           Made(e), UNCHANGED <<produced, ready, outcome>>, defers <= defers',
           ~Follows(hand[w], e)
    PROVE  QueueInv'
  <1>0. Types /\ Places /\ hand[w] \in Envelope
    BY DEF QueueInv, Places, HoldsTask
  <1>1. DOMAIN sched' = DOMAIN sched \union {e}
    BY DEF Zadd
  <1>2. /\ Copies' \subseteq Copies \union {e} /\ Copies \subseteq Copies' \union {hand[w]}
        /\ Drained' = Drained /\ Pushing' = Pushing /\ hand[w] \in Copies
        /\ e \in Copies' \/ e \in Moving
    BY <1>0, <1>1, ReleaseSets, Members, MembersNext
  <1>3. Copies \subseteq Envelope
    BY <1>0, CopiesType DEF Places
  <1>4. Grows
    BY <1>0 DEF Grows, Types, TypeOK, outcome
  <1>5. /\ HoldsTask'
        /\ \A x \in Worker : pc'[x] = "failed" => hand'[x].attempts < fails'[hand'[x].task]
    BY <1>0 DEF Released, Goto, Types, TypeOK, Places, HoldsTask, outcome
  <1>6. Traced(e)'
    <2>1. CASE e \in Copies'
      BY <2>1, FollowsOrder DEF Traced
    <2>2. CASE e \in Moving
      <3>1. Traced(e)
        BY <2>2, Members DEF QueueInv, AllTraced
      <3>2. CASE Settled(e.task)
        BY <3>2 DEF Traced, Settled, outcome
      <3>3. CASE ~Settled(e.task)
        <4>1. PICK f \in Copies : Follows(f, e)
          BY <3>1, <3>3 DEF Traced
        <4>2. f # hand[w]
          BY <4>1
        <4>3. f \in Copies'
          BY <4>2, <1>2
        <4> QED
          BY <4>1, <4>3 DEF Traced
      <3> QED
        BY <3>2, <3>3
    <2> QED
      BY <1>2, <2>1, <2>2
  <1>7. \A f \in Copies : Traced(f)'
    <2> SUFFICES ASSUME NEW f \in Copies PROVE Traced(f)'
      OBVIOUS
    <2>1. CASE f \in Copies'
      BY <1>3, <2>1, FollowsOrder DEF Traced
    <2>2. CASE f = hand[w]
      <3>1. e.task = f.task
        BY <2>2 DEF Follows
      <3>2. CASE Settled(e.task)'
        BY <3>1, <3>2 DEF Traced
      <3>3. CASE ~Settled(e.task)'
        <4>1. PICK g \in Copies' : Follows(g, e)
          BY <3>3, <1>6 DEF Traced
        <4>2. Follows(g, f)
          BY <4>1, <2>2, <1>0, <1>2, <1>3, FollowsOrder
        <4> QED
          BY <4>1, <4>2 DEF Traced
      <3> QED
        BY <3>2, <3>3
    <2> QED
      BY <1>2, <2>1, <2>2
  <1> QED
    BY <1>2, <1>4, <1>5, <1>7, Preserved

\* A deferral has a new stamp, a retry one attempt more.
LEMMA InvRequeues ==
    ASSUME QueueInv, NEW w \in Worker, Defer(w) \/ Requeue(w)
    PROVE  QueueInv'
  <1>0. /\ Types /\ Places /\ HoldsTask /\ Types'
        /\ hand[w] \in Envelope /\ pc[w] \in {"handling", "failed"}
    BY FlushType DEF QueueInv, Places, HoldsTask, Flush, Defer, Requeue
  <1>1. hand[w] \in Copies
    BY <1>0, Members
  <1>2. /\ produced[hand[w].task] = "accepted" /\ hand[w].stamp <= defers
        /\ hand[w].attempts <= fails[hand[w].task]
        /\ hand[w].task \in Task /\ hand[w].attempts \in Nat /\ hand[w].stamp \in Nat
        /\ fails[hand[w].task] \in Nat /\ defers \in Nat
    BY <1>0, <1>1, NextEnvelope DEF Places, Types, TypeOK
  <1>3. CASE Defer(w)
    <2>0. PICK e : e = [hand[w] EXCEPT !.stamp = defers']
      OBVIOUS
    <2>1. e = [hand[w] EXCEPT !.stamp = defers'] /\ defers' = defers + 1
      BY <1>3, <2>0 DEF Defer
    <2>2. defers' \in Nat
      BY <1>2, <2>1
    <2>3. /\ e \in Envelope /\ e.task = hand[w].task /\ e.attempts = hand[w].attempts
          /\ e.stamp = defers'
      <3>1. PICK n \in Nat : n = defers'
        BY <2>2
      <3>2. e = [hand[w] EXCEPT !.stamp = n]
        BY <2>1, <3>1
      <3>3. hand[w] \in Envelope
        BY <1>0
      <3>4. /\ e \in Envelope /\ e.task = hand[w].task /\ e.attempts = hand[w].attempts
            /\ e.stamp = n
        BY <3>2, <3>3 DEF Envelope
      <3> QED
        BY <3>1, <3>4
    <2>4. /\ Zadd(e, now + Delay) /\ Released(w) /\ defers <= defers'
          /\ UNCHANGED <<produced, ready, outcome>>
      BY <1>2, <1>3, <2>1 DEF Defer
    <2>5. hand[w].stamp < e.stamp
      BY <1>2, <2>1, <2>3
    <2>6. Follows(e, hand[w]) /\ ~Follows(hand[w], e) /\ e # hand[w]
      BY <1>2, <2>2, <2>3, <2>5 DEF Follows
    <2>7. Made(e)
      BY <1>2, <2>1, <2>2, <2>3, <2>4 DEF Made, outcome
    <2> QED
      BY <1>0, <1>1, <2>3, <2>4, <2>6, <2>7, InvReplaces
  <1>4. CASE Requeue(w)
    <2>0. PICK e : e = [hand[w] EXCEPT !.attempts = @ + 1]
      OBVIOUS
    <2>1. /\ e = [hand[w] EXCEPT !.attempts = @ + 1] /\ defers' = defers
          /\ pc[w] = "failed" /\ Released(w) /\ UNCHANGED <<produced, ready, outcome>>
      BY <1>4, <2>0 DEF Requeue
    <2>2. /\ e \in Envelope /\ e.task = hand[w].task /\ e.stamp = hand[w].stamp
          /\ e.attempts = hand[w].attempts + 1
      BY <1>0, <2>1, NextEnvelope
    <2>3. PICK score : Zadd(e, score)
      BY <1>4, <2>1 DEF Requeue
    <2>4. Follows(e, hand[w]) /\ ~Follows(hand[w], e) /\ e # hand[w]
      BY <1>2, <2>2 DEF Follows
    <2>5. e.attempts <= fails[hand[w].task]
      <3>1. hand[w].attempts < fails[hand[w].task]
        BY <1>0, <2>1 DEF Places
      <3> QED
        BY <1>2, <2>2, <3>1
    <2>6. Made(e)
      BY <1>2, <2>1, <2>2, <2>5 DEF Made, outcome
    <2>7. defers <= defers'
      BY <1>2, <2>1
    <2> QED
      BY <1>0, <1>1, <2>1, <2>2, <2>3, <2>4, <2>6, <2>7, InvReplaces
  <1> QED
    BY <1>3, <1>4

LEMMA InvFails ==
    ASSUME QueueInv, NEW w \in Worker, Fail(w)
    PROVE  QueueInv' /\ Copies' = Copies /\ Pushing' = Pushing /\ hand[w] \in Copies
  <1>0. Types /\ Places /\ HoldsTask /\ Types'
    BY FlushType DEF QueueInv, Places, Flush
  <1>1. /\ pc[w] = "handling" /\ pc' = [pc EXCEPT ![w] = "failed"]
        /\ fails' = [fails EXCEPT ![hand[w].task] = @ + 1]
        /\ UNCHANGED <<produced, ready, sched, batch, hand, defers, done, dropped, hurt>>
    BY DEF Fail, Goto
  <1>2. /\ pc'[w] = "failed" /\ \A x \in Worker : x # w => pc'[x] = pc[x]
        /\ hand[w] \in Envelope
    BY <1>0, <1>1 DEF Types, TypeOK, HoldsTask
  <1>3. Copies' = Copies /\ Drained' = Drained /\ Pushing' = Pushing /\ hand[w] \in Copies
    BY <1>0, <1>1, <1>2, StillSets, Members
  <1>4. /\ hand[w].task \in Task /\ hand[w].attempts \in Nat
        /\ hand[w].attempts <= fails[hand[w].task]
    BY <1>0, <1>2, <1>3, NextEnvelope DEF Places
  <1>5. /\ fails'[hand[w].task] = fails[hand[w].task] + 1
        /\ \A t \in Task : fails[t] \in Nat /\ fails[t] <= fails'[t]
    <2>1. fails \in [Task -> Nat]
      BY <1>0 DEF Types, TypeOK
    <2>2. /\ fails'[hand[w].task] = fails[hand[w].task] + 1
          /\ \A t \in Task : t # hand[w].task => fails'[t] = fails[t]
      BY <1>1, <1>4, <2>1
    <2> QED
      BY <2>1, <2>2
  <1>6. Grows
    BY <1>0, <1>1, <1>5 DEF Grows, Types, TypeOK
  <1>7. HoldsTask'
    BY <1>0, <1>1, <1>2 DEF HoldsTask
  <1>8. ASSUME NEW x \in Worker, pc'[x] = "failed"
        PROVE  hand'[x].attempts < fails'[hand'[x].task]
    <2>1. CASE x = w
      BY <2>1, <1>1, <1>4, <1>5
    <2>2. CASE x # w
      <3>1. pc[x] = "failed" /\ hand[x].attempts < fails[hand[x].task] /\ hand[x] \in Envelope
        BY <2>2, <1>0, <1>2, <1>8 DEF Places, HoldsTask
      <3>2. /\ hand[x].task \in Task /\ hand[x].attempts \in Nat
            /\ fails[hand[x].task] \in Nat /\ fails'[hand[x].task] \in Nat
        BY <3>1, <1>0, NextEnvelope DEF Types, TypeOK
      <3>3. fails[hand[x].task] <= fails'[hand[x].task] /\ hand'[x] = hand[x]
        BY <3>2, <1>1, <1>5
      <3> QED
        BY <3>1, <3>2, <3>3
    <2> QED
      BY <2>1, <2>2
  <1>9. QueueInv'
    BY <1>0, <1>1, <1>3, <1>6, <1>7, <1>8, InvStill
  <1> QED
    BY <1>3, <1>9

LEMMA InvCrash ==
    ASSUME QueueInv, NEW w \in Worker, Crash(w), pc[w] \notin {"handling", "failed"}
    PROVE  /\ QueueInv' /\ Copies \subseteq Copies' /\ Copies' \subseteq Copies \union Drained
           /\ Pushing' \subseteq Pushing
  <1>0. Types /\ Places /\ HoldsTask /\ Types'
    BY FlushType DEF QueueInv, Places
  <1>1. /\ UNCHANGED <<produced, ready, sched, defers, done, dropped, hurt, fails>>
        /\ Released(w)
    BY DEF Crash
  <1>2. /\ Copies \subseteq Copies' /\ Copies' \subseteq Copies \union Drained
        /\ Drained' \subseteq Drained /\ Pushing' \subseteq Pushing
    BY <1>0, <1>1, CrashSets
  <1>3. Grows
    BY <1>0, <1>1 DEF Grows, Types, TypeOK
  <1>4. /\ HoldsTask'
        /\ \A x \in Worker : pc'[x] = "failed" => hand'[x].attempts < fails'[hand'[x].task]
    BY <1>0, <1>1, SMTT(20) DEF Released, Goto, Types, TypeOK, Places, HoldsTask
  <1>5. QueueInv'
    BY <1>0, <1>1, <1>2, <1>3, <1>4, InvStill
  <1> QED
    BY <1>2, <1>5

LEMMA InvTick ==
    ASSUME QueueInv, Tick \/ UNCHANGED vars
    PROVE  QueueInv' /\ Copies' = Copies /\ Pushing' = Pushing
  <1>0. Types /\ Places /\ HoldsTask /\ Types'
    BY TypesStep DEF QueueInv, Places, Next
  <1>1. UNCHANGED <<produced, ready, sched, worker, defers, outcome>>
    BY DEF Tick, vars, worker, outcome
  <1>2. Copies' = Copies /\ Drained' = Drained /\ Pushing' = Pushing
    BY <1>0, <1>1, StillSets DEF worker
  <1>3. Grows
    BY <1>0, <1>1 DEF Grows, Types, TypeOK, outcome
  <1>4. /\ HoldsTask'
        /\ \A x \in Worker : pc'[x] = "failed" => hand'[x].attempts < fails'[hand'[x].task]
    BY <1>0, <1>1 DEF worker, outcome, Places, HoldsTask
  <1>5. QueueInv'
    BY <1>0, <1>1, <1>2, <1>3, <1>4, InvStill
  <1> QED
    BY <1>2, <1>5

LEMMA InvFlush ==
    ASSUME QueueInv, NEW w \in Worker, Flush(w) \/ Crash(w)
    PROVE  QueueInv'
  <1>0. Types'
    BY FlushType DEF QueueInv, Places
  <1>1. CASE Succeed(w) \/ GiveUp(w) \/ (Crash(w) /\ pc[w] \in {"handling", "failed"})
    <2>1. pc[w] \in {"handling", "failed"} /\ Released(w)
      BY <1>1 DEF Succeed, GiveUp, Crash
    <2> QED
      BY <1>0, <1>1, <2>1, InvSettles
  <1> QED
    BY <1>1, InvRequeues, InvFails, InvCrash DEF Flush

LEMMA InvStep == QueueInv /\ [Next]_vars => QueueInv'
  <1> SUFFICES ASSUME QueueInv, [Next]_vars PROVE QueueInv'
    OBVIOUS
  <1> QED
    BY InvProducers, InvDequeue, InvFlush, InvTick DEF Next

LEMMA QueueInvariant == Spec => []QueueInv
  BY InvInit, InvStep, PTL DEF Spec

\* The list, the sorted set and what workers hold consist of envelopes of the queue's
\* tasks, with scores and counts that are numbers, for any workers and any failures.
THEOREM QueueTypeCorrect == Spec => []TypeOK
  <1>1. QueueInv => TypeOK
    BY DEF QueueInv, Types
  <1> QED
    BY <1>1, QueueInvariant, PTL

(* ------------------------------ the contract ----------------------------- *)

\* A copy of t that counts, or that a drain has yet to push.
Somewhere(t) == \E e \in Copies \union Pushing : e.task = t

\* Under the invariant a task is new until it is accepted, and lost only if a failure
\* took it from a worker.
FateOf(t) ==
    /\ Fate(t) = IF t \in done THEN "done" ELSE IF t \in dropped THEN "dropped"
                 ELSE IF produced[t] # "accepted" THEN "new"
                 ELSE IF Somewhere(t) THEN "pending" ELSE "lost"
    /\ Fate(t) = "lost" => t \in hurt

Fated == \A t \in Task : FateOf(t)

LEMMA FateIs == QueueInv => Fated
  <1> SUFFICES ASSUME QueueInv, NEW t \in Task PROVE FateOf(t)
    BY DEF Fated
  <1>1. t \in Queued \union Pushed \union Held <=> Somewhere(t)
    BY DEF Queued, Pushed, Held, Somewhere, Copies, Carried, Pushing
  <1>2. Somewhere(t) => produced[t] = "accepted"
    BY Members DEF Somewhere, QueueInv, Places
  <1>3. produced[t] = "accepted" => Settled(t) \/ Somewhere(t)
    BY DEF Somewhere, QueueInv, Kept
  <1> QED
    BY <1>1, <1>2, <1>3 DEF FateOf, Fate, Settled

LEMMA FateIsNext == QueueInv' => Fated'
  BY FateIs, PTL

Fates == [t \in Task |-> Fate(t)]

\* Whatever moves, a step that settles nothing and accepts nothing changes the fate of
\* a task only if a failure took it.
LEMMA FatesWander ==
    ASSUME QueueInv, QueueInv', UNCHANGED <<done, dropped>>, hurt \subseteq hurt',
           \A t \in Task : produced'[t] = "accepted" <=> produced[t] = "accepted"
    PROVE  Contract!Wanders(hurt')
  <1>1. \A t \in Task : FateOf(t) /\ FateOf(t)'
    BY FateIs, FateIsNext DEF Fated
  <1>2. ASSUME NEW t \in Task
        PROVE  /\ Fate(t)' \in {"new", "pending", "done", "dropped", "lost"}
               /\ \/ Fate(t)' = Fate(t)
                  \/ t \in hurt' /\ {Fate(t), Fate(t)'} = {"pending", "lost"}
    BY <1>1 DEF FateOf
  <1>3. /\ Fates' \in [Task -> {"new", "pending", "done", "dropped", "lost"}]
        /\ \A t \in Task : Fates[t] = Fate(t) /\ Fates'[t] = Fate(t)'
    BY <1>2 DEF Fates
  <1> QED
    BY <1>2, <1>3 DEF Contract!Wanders, Fates

\* The fates after a step that decides the fate of one task.
LEMMA FatesBecome ==
    ASSUME NEW t \in Task, NEW what, Fate(t)' = what,
           \A u \in Task : u # t => Fate(u)' = Fate(u)
    PROVE  Contract!Becomes(t, what)
  <1>1. \A u \in Task : Fates[u] = Fate(u) /\ Fates'[u] = Fate(u)'
    BY DEF Fates
  <1>2. Fates' = [Fates EXCEPT ![t] = what]
    BY <1>1 DEF Fates
  <1> QED
    BY <1>2 DEF Contract!Becomes, Fates

\* A task's fate depends on nothing that happens to others.
LEMMA FateSame ==
    ASSUME QueueInv, QueueInv', NEW t \in Task, t \in done' <=> t \in done,
           t \in dropped' <=> t \in dropped,
           produced'[t] = "accepted" <=> produced[t] = "accepted",
           Somewhere(t)' <=> Somewhere(t)
    PROVE  Fate(t)' = Fate(t)
  BY FateIs, FateIsNext DEF Fated, FateOf

contractVars == <<Fates, fails, hurt, faults>>

LEMMA ContractWanders ==
    ASSUME QueueInv, QueueInv', UNCHANGED <<done, dropped, fails, hurt, faults>>,
           \A t \in Task : produced'[t] = "accepted" <=> produced[t] = "accepted"
    PROVE  Contract!Next
  BY FatesWander DEF Contract!Next, Contract!Wander

LEMMA ContractDisrupts ==
    ASSUME QueueInv, QueueInv', UNCHANGED <<done, dropped, fails>>, faults' = faults + 1,
           \/ hurt' = hurt
           \/ \E t \in Task : produced[t] = "accepted" /\ hurt' = hurt \union {t},
           \A t \in Task : produced'[t] = "accepted" <=> produced[t] = "accepted"
    PROVE  Contract!Next
  <1>1. Contract!Wanders(hurt')
    BY FatesWander
  <1>2. ASSUME NEW t \in Task, produced[t] = "accepted"
        PROVE  Fates[t] # "new"
    BY <1>2, FateIs DEF Fated, FateOf, Fates
  <1>3. hurt' = hurt \/ \E t \in Task : Fates[t] # "new" /\ hurt' = hurt \union {t}
    BY <1>2
  <1> QED
    BY <1>1, <1>3 DEF Contract!Next, Contract!Disrupt, Fates

LEMMA ContractProducers ==
    ASSUME QueueInv, QueueInv', NEW t \in Task, Produce(t) \/ EnqueueFails(t) \/ IngestCrash(t)
    PROVE  Contract!Next
  <1>0. produced \in [Task -> {"new", "stored", "accepted", "refused", "notified"}]
    BY DEF QueueInv, Types, TypeOK
  <1>1. CASE Store(t)
    BY <1>0, <1>1, ContractWanders DEF Store, outcome
  <1>2. CASE EnqueueFails(t)
    BY <1>0, <1>2, ContractDisrupts DEF EnqueueFails, Fails, outcome
  <1>3. CASE IngestCrash(t)
    BY <1>0, <1>3, ContractDisrupts DEF IngestCrash, Fails, outcome
  <1>4. CASE EnqueueOk(t)
    <2>1. /\ produced[t] = "stored" /\ produced' = [produced EXCEPT ![t] = "accepted"]
          /\ UNCHANGED <<done, dropped, fails, hurt, faults>>
      BY <1>4 DEF EnqueueOk
    <2>2. /\ t \notin done \union dropped \union hurt
          /\ Copies' = Copies \union {First(t)} /\ Pushing' = Pushing
      BY <1>4, <2>1, InvProducers DEF QueueInv, Places
    <2>3. Fate(t) = "new" /\ Fate(t)' = "pending"
      BY <1>0, <2>1, <2>2, FateIs, FateIsNext DEF Fated, FateOf
    <2>4. ASSUME NEW u \in Task, u # t PROVE Fate(u)' = Fate(u)
      <3>1. Somewhere(u)' <=> Somewhere(u)
        BY <2>2, <2>4, FirstType DEF Somewhere
      <3> QED
        BY <1>0, <2>1, <2>4, <3>1, FateSame
    <2>5. Contract!Becomes(t, "pending")
      BY <2>3, <2>4, FatesBecome
    <2>6. Fates[t] = "new"
      BY <2>3 DEF Fates
    <2>7. Contract!Accept(t)
      BY <2>1, <2>5, <2>6 DEF Contract!Accept, Fates
    <2> QED
      BY <2>7 DEF Contract!Next
  <1> QED
    BY <1>1, <1>2, <1>3, <1>4 DEF Produce

\* The handler succeeds, or the worker gives the task up.
LEMMA ContractSettles ==
    ASSUME QueueInv, QueueInv', NEW w \in Worker, Succeed(w) \/ GiveUp(w)
    PROVE  [Contract!Next]_contractVars
  <1>0. /\ Types /\ Types' /\ Places /\ hand[w] \in Envelope /\ hand[w].task \in Task
        /\ pc[w] \in {"handling", "failed"} /\ hand[w] \in Copies
        /\ Released(w) /\ UNCHANGED <<produced, fails, hurt, faults>>
    <2>1. hand[w] \in Envelope /\ pc[w] \in {"handling", "failed"}
      BY DEF QueueInv, Places, HoldsTask, Succeed, GiveUp
    <2> QED
      BY <2>1, Members DEF QueueInv, Envelope, Succeed, GiveUp
  <1> PICK t \in Task : t = hand[w].task
    BY <1>0
  <1>1. /\ Pushing' = Pushing /\ Copies' \subseteq Copies
        /\ Copies \subseteq Copies' \union {hand[w]}
    BY <1>0, InvSettles
  <1>2. /\ produced[t] = "accepted" /\ Somewhere(t)
        /\ \A u \in Task : u # t => (Somewhere(u)' <=> Somewhere(u))
    BY <1>0, <1>1 DEF Somewhere, Places
  <1>3. /\ done \subseteq done' /\ done' \subseteq done \union {t}
        /\ dropped \subseteq dropped' /\ dropped' \subseteq dropped \union {t}
    BY DEF Succeed, GiveUp
  <1>4. \A u \in Task : u # t => Fate(u)' = Fate(u)
    BY <1>0, <1>2, <1>3, FateSame
  <1>5. FateOf(t) /\ FateOf(t)' /\ Fates[t] = Fate(t)
    BY <1>0, FateIs, FateIsNext DEF Fated, Fates
  <1>6. CASE Fate(t)' = Fate(t)
    BY <1>0, <1>4, <1>6 DEF contractVars, Fates
  <1>7. CASE Fate(t)' # Fate(t) /\ Succeed(w)
    <2>1. t \in done' /\ dropped' = dropped
      BY <1>7 DEF Succeed
    <2>2. Fate(t)' = "done" /\ Fate(t) \in {"pending", "dropped"}
      BY <1>2, <1>5, <1>7, <2>1 DEF FateOf
    <2>3. Contract!Becomes(t, "done")
      BY <1>0, <1>4, <2>2, FatesBecome
    <2>4. Contract!Succeed(t)
      BY <1>0, <1>5, <2>2, <2>3 DEF Contract!Succeed, Fates
    <2> QED
      BY <1>0, <2>4 DEF Contract!Next
  <1>8. CASE Fate(t)' # Fate(t) /\ GiveUp(w)
    <2>1. done' = done /\ t \in dropped' /\ pc[w] = "failed" /\ Exhausted(hand[w])
      BY <1>8 DEF GiveUp
    <2>2. Fate(t)' = "dropped" /\ Fate(t) = "pending"
      BY <1>2, <1>5, <1>8, <2>1 DEF FateOf
    <2>3. fails[t] > MaxRetries
      <3>1. hand[w].attempts < fails[t] /\ hand[w].attempts + 1 > MaxRetries
        BY <1>0, <2>1 DEF Places, Exhausted
      <3>2. hand[w].attempts \in Nat /\ fails[t] \in Nat /\ MaxRetries \in Nat
        BY <1>0, QueueAssumption DEF Types, TypeOK, Envelope
      <3> QED
        BY <3>1, <3>2
    <2>4. Contract!Becomes(t, "dropped")
      BY <1>0, <1>4, <2>2, FatesBecome
    <2>5. Contract!Drop(t)
      BY <1>0, <1>5, <2>2, <2>3, <2>4 DEF Contract!Drop, Fates
    <2> QED
      BY <1>0, <2>5 DEF Contract!Next
  <1> QED
    BY <1>6, <1>7, <1>8

\* The handler raises.
LEMMA ContractFails ==
    ASSUME QueueInv, QueueInv', NEW w \in Worker, Fail(w)
    PROVE  Contract!Next
  <1> DEFINE t == hand[w].task
  <1>1. /\ Copies' = Copies /\ Pushing' = Pushing /\ hand[w] \in Copies
    BY InvFails
  <1>2. /\ UNCHANGED <<produced, done, dropped, hurt, faults>>
        /\ fails' = [fails EXCEPT ![t] = @ + 1]
    BY DEF Fail
  <1>3. produced[t] = "accepted" /\ t \in Task
    BY <1>1, CopiesType DEF QueueInv, Places, Envelope
  <1>4. \A u \in Task : Fate(u)' = Fate(u)
    BY <1>1, <1>2, FateSame DEF Somewhere
  <1>5. Fates' = Fates /\ Fates[t] # "new"
    BY <1>3, <1>4, FateIs DEF Fates, Fated, FateOf
  <1>6. Contract!Fail(t)
    BY <1>2, <1>5 DEF Contract!Fail, Fates
  <1> QED
    BY <1>3, <1>6 DEF Contract!Next

LEMMA ContractCrash ==
    ASSUME QueueInv, QueueInv', NEW w \in Worker, Crash(w)
    PROVE  Contract!Next
  <1>1. UNCHANGED <<produced, done, dropped, fails>> /\ faults' = faults + 1
    BY DEF Crash, Fails
  <1>2. CASE pc[w] \in {"handling", "failed"}
    <2>1. hand[w] \in Copies /\ hurt' = hurt \union {hand[w].task}
      BY <1>2, Members DEF Crash
    <2>2. produced[hand[w].task] = "accepted" /\ hand[w].task \in Task
      BY <2>1, CopiesType DEF QueueInv, Places, Envelope
    <2> QED
      BY <1>1, <2>1, <2>2, ContractDisrupts
  <1>3. CASE pc[w] \notin {"handling", "failed"}
    BY <1>1, <1>3, ContractDisrupts DEF Crash
  <1> QED
    BY <1>2, <1>3

LEMMA ContractStep == QueueInv /\ QueueInv' /\ [Next]_vars => [Contract!Next]_contractVars
  <1> SUFFICES ASSUME QueueInv, QueueInv', [Next]_vars PROVE [Contract!Next]_contractVars
    OBVIOUS
  <1>1. ASSUME NEW w \in Worker, Dequeue(w) \/ Defer(w) \/ Requeue(w)
        PROVE  Contract!Next
    <2>1. UNCHANGED <<produced, done, dropped, fails, hurt, faults>>
      BY <1>1 DEF Dequeue, DrainRead, DrainPush, DrainRemove, DrainNext, Pop, PopTimeout,
                  Defer, Requeue, outcome
    <2> QED
      BY <2>1, ContractWanders
  <1>2. CASE Tick \/ UNCHANGED vars
    <2>1. UNCHANGED <<produced, done, dropped, fails, hurt, faults>>
      BY <1>2 DEF Tick, vars, outcome
    <2> QED
      BY <2>1, ContractWanders
  <1> QED
    BY <1>1, <1>2, ContractProducers, ContractSettles, ContractFails, ContractCrash
    DEF Next, Flush

\* The queue keeps its contract, for any tasks, workers, batches, delays and failures: a
\* task once accepted is neither lost between the list and the sorted set nor dropped
\* before more runs of it failed than MaxRetries, unless a crash or a Redis error took it
\* from a worker, and each of those takes one task at most.
THEOREM QueueKeepsContract == Spec => KeepsContract
  <1>1. Init => Contract!Init
    <2>1. ASSUME Init PROVE \A t \in Task : Fate(t) = "new"
      <3>1. QueueInv /\ done = {} /\ dropped = {} /\ \A t \in Task : produced[t] = "new"
        BY <2>1, InvInit DEF Init
      <3> QED
        BY <3>1, FateIs DEF Fated, FateOf
    <2> QED
      BY <2>1 DEF Init, Contract!Init
  <1>2. QueueInv /\ QueueInv' /\ [Next]_vars => [Contract!Next]_contractVars
    BY ContractStep
  <1> QED
    BY <1>1, <1>2, QueueInvariant, PTL DEF Spec, KeepsContract, Contract!Spec, contractVars, Fates

(* --------------------------------- order -------------------------------- *)

\* An untried webhook payload is only in the list, with those queued after it to its
\* left: what drains push there has been tried.
OrderInv ==
    /\ \A e \in DOMAIN sched \union Drained : e.task \in Webhook => e.attempts > 0
    /\ \A i \in DOMAIN order : produced[order[i]] = "accepted"
    /\ \A i, j \in DOMAIN order : i < j =>
          \A p \in DOMAIN ready : ready[p] = First(order[i]) =>
              \E q \in DOMAIN ready : q < p /\ ready[q] = First(order[j])

\* What a step may add to the sorted set, and drains to what they have read.
LEMMA DrainedStep ==
    ASSUME QueueInv, [Next]_vars
    PROVE  Drained' \subseteq Drained \union DOMAIN sched
  <1>0. Types
    BY DEF QueueInv
  <1>1. CASE \E w \in Worker : DrainRead(w)
    BY <1>0, <1>1, ReadSets, Members, MembersNext
  <1>2. CASE \E w \in Worker : DrainPush(w)
    BY <1>0, <1>2, PushSets
  <1>3. CASE ~ \E w \in Worker : DrainRead(w) \/ DrainPush(w)
    <2>1. ASSUME NEW x \in Worker, pc'[x] \in {"push", "remove"}
          PROVE  pc'[x] = pc[x] /\ batch'[x] = batch[x]
      <3>1. pc \in [Worker -> {"read", "push", "remove", "next", "block", "handling", "failed"}]
            /\ DOMAIN batch = Worker
        BY <1>0 DEF Types, TypeOK
      <3>2. CASE \E w \in Worker : Dequeue(w)
        BY <2>1, <3>1, <3>2, <1>3
        DEF Dequeue, DrainRemove, DrainNext, Pop, PopTimeout, Goto
      <3>3. CASE \E w \in Worker : Flush(w) \/ Crash(w)
        BY <2>1, <3>1, <3>3
        DEF Flush, Crash, Succeed, Defer, Fail, Requeue, GiveUp, Released, Goto
      <3>4. CASE UNCHANGED worker
        BY <3>4 DEF worker
      <3>5. CASE ~ \E w \in Worker : Dequeue(w) \/ Flush(w) \/ Crash(w)
        <4>1. UNCHANGED worker
          BY <3>5 DEF Next, vars, worker, Produce, Store, EnqueueOk, EnqueueFails,
                      IngestCrash, Tick
        <4> QED
          BY <3>4, <4>1
      <3> QED
        BY <3>2, <3>3, <3>5
    <2> QED
      BY <2>1, Members, MembersNext
  <1> QED
    BY <1>1, <1>2, <1>3

\* Steps that neither queue a payload nor change the list.
LEMMA OrderStill ==
    ASSUME OrderInv, UNCHANGED <<ready, order>>,
           \A t \in Task : produced[t] = "accepted" => produced'[t] = "accepted",
           order \in Seq(Webhook),
           \A e \in DOMAIN sched' \union Drained' :
               e \in DOMAIN sched \union Drained \/ (e.task \in Webhook => e.attempts > 0)
    PROVE  OrderInv'
  <1>1. \A i \in DOMAIN order : order[i] \in Task
    BY ElementOfSeq, LenProperties DEF Task
  <1> QED
    BY <1>1 DEF OrderInv

\* The list after an LPUSH of b.
LEMMA Shifted ==
    ASSUME NEW S, NEW b \in Seq(S), NEW s \in Seq(S)
    PROVE  /\ \A p \in DOMAIN s : /\ p + Len(b) \in DOMAIN (b \o s)
                                  /\ (b \o s)[p + Len(b)] = s[p]
           /\ \A p \in DOMAIN (b \o s) :
                 \/ p \in DOMAIN b /\ (b \o s)[p] = b[p]
                 \/ p - Len(b) \in DOMAIN s /\ (b \o s)[p] = s[p - Len(b)]
  <1>1. /\ Len(b) \in Nat /\ Len(s) \in Nat /\ Len(b \o s) = Len(b) + Len(s)
        /\ DOMAIN b = 1..Len(b) /\ DOMAIN s = 1..Len(s) /\ DOMAIN (b \o s) = 1..(Len(b) + Len(s))
        /\ \A i \in 1..(Len(b) + Len(s)) :
              (b \o s)[i] = IF i <= Len(b) THEN b[i] ELSE s[i - Len(b)]
    BY ConcatProperties, LenProperties
  <1> QED
    BY <1>1

LEMMA OrderPush ==
    ASSUME QueueInv, OrderInv, NEW w \in Worker, DrainPush(w)
    PROVE  OrderInv'
  <1>0. /\ Types /\ ready \in Seq(Envelope) /\ batch[w] \in Seq(Envelope)
        /\ order \in Seq(Webhook) /\ pc[w] = "push"
        /\ UNCHANGED <<produced, sched, order>> /\ ready' = Reverse(batch[w]) \o ready
    BY DEF QueueInv, Types, TypeOK, DrainPush, outcome
  <1>1. Drained' = Drained
    BY <1>0, PushSets
  <1> DEFINE b == Reverse(batch[w])
  <1>2. /\ b \in Seq(Envelope) /\ Len(b) \in Nat
        /\ \A p \in DOMAIN b : b[p] \in ToSet(batch[w])
    <2>1. Len(batch[w]) \in Nat /\ DOMAIN batch[w] = 1..Len(batch[w])
          /\ \A i \in 1..Len(batch[w]) : batch[w][i] \in Envelope
      BY <1>0, LenProperties, ElementOfSeq
    <2>2. b = [i \in 1..Len(batch[w]) |-> batch[w][(Len(batch[w]) - i) + 1]]
      BY DEF Reverse
    <2>3. \A i \in 1..Len(batch[w]) : (Len(batch[w]) - i) + 1 \in 1..Len(batch[w])
      BY <2>1
    <2>4. b \in [1..Len(batch[w]) -> Envelope]
      BY <2>1, <2>2, <2>3
    <2>5. b \in Seq(Envelope) /\ Len(b) = Len(batch[w])
      BY <2>1, <2>4, SeqDef, LenProperties
    <2> QED
      BY <2>1, <2>2, <2>3, <2>5 DEF ToSet
  <1>3. \A e \in ToSet(batch[w]) : e.task \in Webhook => e.attempts > 0
    BY <1>0, Members DEF OrderInv
  <1> HIDE DEF b
  <1>4. /\ \A p \in DOMAIN ready : p + Len(b) \in DOMAIN ready' /\ ready'[p + Len(b)] = ready[p]
        /\ \A p \in DOMAIN ready' : \/ p \in DOMAIN b /\ ready'[p] = b[p]
                                    \/ /\ p - Len(b) \in DOMAIN ready
                                       /\ ready'[p] = ready[p - Len(b)]
    BY <1>0, <1>2, Shifted DEF b
  <1>5. \A i \in DOMAIN order : order[i] \in Webhook
    BY <1>0, ElementOfSeq, LenProperties
  <1>6. ASSUME NEW i \in DOMAIN order, NEW j \in DOMAIN order, i < j,
               NEW p \in DOMAIN ready', ready'[p] = First(order[i])
        PROVE  \E q \in DOMAIN ready' : q < p /\ ready'[q] = First(order[j])
    <2>1. First(order[i]).task \in Webhook /\ First(order[i]).attempts = 0
      BY <1>5, FirstType DEF Task
    <2>2. p - Len(b) \in DOMAIN ready /\ ready[p - Len(b)] = First(order[i])
      BY <1>2, <1>3, <1>4, <1>6, <2>1
    <2>3. PICK q \in DOMAIN ready : q < p - Len(b) /\ ready[q] = First(order[j])
      BY <1>6, <2>2 DEF OrderInv
    <2>4. DOMAIN ready \subseteq Nat /\ p \in Int
      BY <1>0, <1>2, <2>2, LenProperties DEF Types, TypeOK
    <2> QED
      BY <1>2, <1>4, <2>3, <2>4
  <1> QED
    BY <1>0, <1>1, <1>6 DEF OrderInv

LEMMA OrderEnqueue ==
    ASSUME QueueInv, OrderInv, NEW t \in Task, EnqueueOk(t)
    PROVE  OrderInv'
  <1>0. /\ Types /\ ready \in Seq(Envelope) /\ order \in Seq(Webhook)
        /\ produced[t] = "stored" /\ produced' = [produced EXCEPT ![t] = "accepted"]
        /\ produced \in [Task -> {"new", "stored", "accepted", "refused", "notified"}]
    BY DEF QueueInv, Types, TypeOK, EnqueueOk
  <1>1. Drained' = Drained
    BY DEF EnqueueOk, worker, Drained
  <1>2. \A u \in Task : produced[u] = "accepted" => produced'[u] = "accepted"
    BY <1>0
  <1>3. CASE t \in Lifecycle /\ Zadd(First(t), now + Delay) /\ UNCHANGED <<ready, order>>
    <2>1. t \notin Webhook /\ First(t).task = t
      BY <1>3, QueueAssumption, FirstType
    <2>2. DOMAIN sched' = DOMAIN sched \union {First(t)}
      BY <1>3 DEF Zadd
    <2> QED
      BY <1>0, <1>1, <1>2, <1>3, <2>1, <2>2, OrderStill
  <1>4. CASE t \in Webhook /\ Lpush(First(t)) /\ order' = Append(order, t) /\ UNCHANGED sched
    <2>1. First(t) \in Envelope /\ First(t).task = t
      BY FirstType
    <2>2. <<First(t)>> \in Seq(Envelope) /\ Len(<<First(t)>>) = 1
          /\ <<First(t)>>[1] = First(t) /\ DOMAIN <<First(t)>> = {1}
      BY <2>1
    <2>3. ready' = <<First(t)>> \o ready
      BY <1>4 DEF Lpush
    <2>4. /\ \A p \in DOMAIN ready : p + 1 \in DOMAIN ready' /\ ready'[p + 1] = ready[p]
          /\ \A p \in DOMAIN ready' : \/ p = 1 /\ ready'[p] = First(t)
                                      \/ p - 1 \in DOMAIN ready /\ ready'[p] = ready[p - 1]
          /\ DOMAIN ready \subseteq Nat
      BY <1>0, <2>2, <2>3, Shifted, LenProperties
    <2>5. 1 \in DOMAIN ready' /\ ready'[1] = First(t)
      <3>1. DOMAIN ready' = 1..(Len(ready) + 1) /\ Len(ready) \in Nat /\ ready'[1] = First(t)
        BY <1>0, <2>2, <2>3, ConcatProperties, LenProperties
      <3> QED
        BY <3>1
    <2>6. /\ Len(order) \in Nat /\ DOMAIN order = 1..Len(order)
          /\ DOMAIN order' = 1..(Len(order) + 1)
          /\ order'[Len(order) + 1] = t /\ \A i \in DOMAIN order : order'[i] = order[i]
          /\ \A i \in DOMAIN order : order[i] \in Webhook
      BY <1>0, <1>4, AppendProperties, LenProperties, ElementOfSeq
    <2>7. \A i \in DOMAIN order' : produced'[order'[i]] = "accepted"
      BY <1>0, <1>2, <2>6 DEF OrderInv, Task
    <2>8. ASSUME NEW i \in DOMAIN order', NEW j \in DOMAIN order', i < j,
                 NEW p \in DOMAIN ready', ready'[p] = First(order'[i])
          PROVE  \E q \in DOMAIN ready' : q < p /\ ready'[q] = First(order'[j])
      <3>1. i \in DOMAIN order /\ order'[i] = order[i] /\ produced[order[i]] = "accepted"
            /\ First(order[i]).task = order[i]
        <4>1. i \in 1..Len(order)
          BY <2>6, <2>8
        <4> QED
          BY <4>1, <2>6, FirstType DEF OrderInv, Task
      <3>2. First(order[i]) # First(t)
        BY <1>0, <2>1, <3>1
      <3>3. p - 1 \in DOMAIN ready /\ ready[p - 1] = First(order[i])
        BY <2>4, <2>8, <3>1, <3>2
      <3>4. CASE j \in DOMAIN order
        <4>1. PICK q \in DOMAIN ready : q < p - 1 /\ ready[q] = First(order[j])
          BY <3>1, <3>3, <3>4, <2>8 DEF OrderInv
        <4>2. q \in Nat /\ p - 1 \in Nat /\ p \in DOMAIN ready'
          BY <2>4, <3>3
        <4>3. p \in Int
          BY <1>0, <2>2, <2>3, ConcatProperties, LenProperties
        <4> QED
          BY <2>4, <2>6, <3>4, <4>1, <4>2, <4>3
      <3>5. CASE j = Len(order) + 1
        <4>1. p - 1 \in 1..Len(ready) /\ p \in Int /\ Len(ready) \in Nat
          BY <1>0, <2>2, <2>3, <3>3, ConcatProperties, LenProperties
        <4> QED
          BY <2>5, <2>6, <3>5, <4>1
      <3> QED
        BY <2>6, <3>4, <3>5
    <2> QED
      BY <1>1, <1>4, <2>7, <2>8 DEF OrderInv
  <1> QED
    BY <1>3, <1>4 DEF EnqueueOk

LEMMA OrderPop ==
    ASSUME QueueInv, OrderInv, NEW w \in Worker, Pop(w)
    PROVE  OrderInv'
  <1>0. /\ Types /\ ready \in Seq(Envelope) /\ ready # <<>> /\ ready' = Front(ready)
        /\ UNCHANGED <<produced, sched, order>>
    BY DEF QueueInv, Types, TypeOK, Pop, outcome
  <1>1. Drained' = Drained
    BY <1>0, PopSets
  <1>2. /\ Len(ready) \in Nat /\ DOMAIN ready = 1..Len(ready)
        /\ DOMAIN ready' = 1..(Len(ready) - 1) /\ \A p \in DOMAIN ready' : ready'[p] = ready[p]
    BY <1>0, FrontProperties, LenProperties
  <1>3. ASSUME NEW i \in DOMAIN order, NEW j \in DOMAIN order, i < j,
               NEW p \in DOMAIN ready', ready'[p] = First(order[i])
        PROVE  \E q \in DOMAIN ready' : q < p /\ ready'[q] = First(order[j])
    <2>1. p \in DOMAIN ready /\ ready[p] = First(order[i])
      BY <1>2, <1>3
    <2>2. PICK q \in DOMAIN ready : q < p /\ ready[q] = First(order[j])
      BY <1>3, <2>1 DEF OrderInv
    <2> QED
      BY <1>2, <2>2
  <1> QED
    BY <1>0, <1>1, <1>3 DEF OrderInv

LEMMA OrderStep == QueueInv /\ OrderInv /\ [Next]_vars => OrderInv'
  <1> SUFFICES ASSUME QueueInv, OrderInv, [Next]_vars PROVE OrderInv'
    OBVIOUS
  <1>0. /\ Drained' \subseteq Drained \union DOMAIN sched /\ order \in Seq(Webhook)
        /\ Types /\ HoldsTask
    BY DrainedStep DEF QueueInv, Types, TypeOK, Places
  <1>1. ASSUME UNCHANGED <<produced, ready, order>>, DOMAIN sched' \subseteq DOMAIN sched
        PROVE  OrderInv'
    BY <1>0, <1>1, OrderStill
  <1>2. ASSUME NEW t \in Task, Store(t) \/ EnqueueFails(t) \/ IngestCrash(t)
        PROVE  OrderInv'
    <2>1. /\ UNCHANGED <<ready, sched, order>>
          /\ produced[t] = "new" \/ produced[t] = "stored"
          /\ \E x : produced' = [produced EXCEPT ![t] = x]
      BY <1>2 DEF Store, EnqueueFails, IngestCrash, outcome
    <2>2. \A u \in Task : produced[u] = "accepted" => produced'[u] = "accepted"
      BY <1>0, <2>1 DEF Types, TypeOK
    <2> QED
      BY <1>0, <1>2, <2>1, <2>2, OrderStill DEF Store, EnqueueFails, IngestCrash, outcome
  <1>3. ASSUME NEW w \in Worker, DrainRead(w) \/ DrainRemove(w) \/ DrainNext(w) \/ PopTimeout(w)
        PROVE  OrderInv'
    BY <1>1, <1>3 DEF DrainRead, DrainRemove, DrainNext, PopTimeout, Zrem, outcome
  <1>4. ASSUME NEW w \in Worker, Succeed(w) \/ Fail(w) \/ GiveUp(w) \/ Crash(w)
        PROVE  OrderInv'
    BY <1>1, <1>4 DEF Succeed, Fail, GiveUp, Crash
  <1>5. ASSUME NEW w \in Worker, Defer(w)
        PROVE  OrderInv'
    <2>1. PICK e : e = [hand[w] EXCEPT !.stamp = defers']
      OBVIOUS
    <2>2. DOMAIN sched' = DOMAIN sched \union {e} /\ UNCHANGED <<produced, ready, order>>
      BY <1>5, <2>1 DEF Defer, Zadd, outcome
    <2>3. e.task = hand[w].task /\ hand[w].task \in Lifecycle
      BY <1>0, <1>5, <2>1 DEF Defer, HoldsTask, Envelope
    <2> QED
      BY <1>0, <2>2, <2>3, QueueAssumption, OrderStill
  <1>6. ASSUME NEW w \in Worker, Requeue(w)
        PROVE  OrderInv'
    <2>1. PICK e : e = [hand[w] EXCEPT !.attempts = @ + 1]
      OBVIOUS
    <2>2. DOMAIN sched' = DOMAIN sched \union {e} /\ UNCHANGED <<produced, ready, order>>
      BY <1>6, <2>1 DEF Requeue, Zadd, outcome
    <2>3. e.attempts = hand[w].attempts + 1 /\ hand[w].attempts \in Nat
      BY <1>0, <1>6, <2>1 DEF Requeue, HoldsTask, Envelope
    <2>4. e.attempts > 0
      BY <2>3
    <2> QED
      BY <1>0, <2>2, <2>4, OrderStill
  <1>7. CASE Tick \/ UNCHANGED vars
    BY <1>1, <1>7 DEF Tick, vars, outcome
  <1> QED
    BY <1>2, <1>3, <1>4, <1>5, <1>6, <1>7, OrderEnqueue, OrderPush, OrderPop
    DEF Next, Produce, Dequeue, Flush

\* Untried webhook payloads leave the list in the order they were queued, for any number
\* of workers, whatever is retried, deferred or lost meanwhile.
THEOREM QueueInOrder == Spec => []InOrder
  <1>1. Init => OrderInv
    <2>1. ASSUME Init PROVE DOMAIN sched = {} /\ Drained = {} /\ DOMAIN order = {}
      BY <2>1, Members DEF Init
    <2> QED
      BY <2>1 DEF OrderInv
  <1>2. QueueInv /\ OrderInv /\ [Next]_vars => OrderInv'
    BY OrderStep
  <1>3. QueueInv /\ OrderInv => InOrder
    BY LenProperties DEF OrderInv, InOrder, ToSet, QueueInv, Types, TypeOK
  <1> QED
    BY <1>1, <1>2, <1>3, QueueInvariant, PTL DEF Spec

(* ------------------------------- waking up ------------------------------ *)

\* With a single worker w: what was due when the drain took the time is in the list when
\* the worker goes on to wait, so that it never waits for ever while a task is scheduled.
WakeInv(w) ==
    /\ pc[w] \in {"push", "remove", "next"} => clock[w] = now
    /\ pc[w] = "push" => batch[w] # <<>>
    /\ pc[w] = "remove" => ready # <<>>
    /\ pc[w] = "next" /\ ready = <<>> => \A e \in DOMAIN sched : sched[e] > now
    /\ pc[w] = "block" /\ ready = <<>> =>
          /\ until[w] # 0 /\ now <= until[w] /\ until[w] <= now + Block
          /\ \A e \in DOMAIN sched : until[w] <= sched[e] + Block

LEMMA WakeEnqueue ==
    ASSUME Types, NEW w \in Worker, WakeInv(w), NEW t \in Task, EnqueueOk(t)
    PROVE  WakeInv(w)'
  <1>0. /\ now \in Nat /\ until[w] \in Nat /\ ready \in Seq(Envelope)
        /\ \A e \in DOMAIN sched : sched[e] \in Nat
        /\ Delay \in Nat /\ Delay > 0 /\ Block \in Nat
    BY QueueAssumption DEF Types, TypeOK
  <1>1. UNCHANGED <<now, pc, clock, batch, until>>
    BY DEF EnqueueOk, worker
  <1>2. CASE Lpush(First(t)) /\ UNCHANGED sched
    <2>1. ready' # <<>>
      BY <1>0, <1>2, FirstType, ConcatProperties, EmptySeq, LenProperties DEF Lpush
    <2> QED
      BY <1>1, <1>2, <2>1 DEF WakeInv
  <1>3. CASE Zadd(First(t), now + Delay) /\ UNCHANGED ready
    <2>1. \A e \in DOMAIN sched' : \/ e \in DOMAIN sched /\ sched'[e] = sched[e]
                                   \/ sched'[e] = now + Delay
      BY <1>3 DEF Zadd
    <2> QED
      BY <1>0, <1>1, <1>3, <2>1 DEF WakeInv
  <1> QED
    BY <1>2, <1>3 DEF EnqueueOk

LEMMA WakeDequeue ==
    ASSUME Types, NEW w \in Worker, WakeInv(w), Dequeue(w)
    PROVE  WakeInv(w)'
  <1>0. /\ now \in Nat /\ until \in [Worker -> Nat] /\ ready \in Seq(Envelope)
        /\ batch \in [Worker -> Seq(Envelope)] /\ clock \in [Worker -> Nat]
        /\ pc \in [Worker -> {"read", "push", "remove", "next", "block", "handling", "failed"}]
        /\ \A e \in DOMAIN sched : sched[e] \in Nat
        /\ Block \in Nat /\ Batch \in Nat /\ Batch # 0
    BY QueueAssumption DEF Types, TypeOK
  <1>1. CASE DrainRead(w)
    <2>1. PICK s \in Ranges(Due(now)) :
             batch' = [batch EXCEPT ![w] = SubSeq(s, 1, Least(Batch, Len(s)))]
      BY <1>1 DEF DrainRead
    <2>2. batch'[w] = <<>> => Due(now) = {}
      BY <1>0, <2>1, BatchType
    <2>3. batch'[w] = <<>> => \A e \in DOMAIN sched : sched[e] > now
      BY <1>0, <2>2 DEF Due
    <2> QED
      BY <1>0, <1>1, <2>3 DEF DrainRead, Goto, WakeInv
  <1>2. CASE DrainPush(w)
    <2>1. batch[w] # <<>> /\ batch[w] \in Seq(Envelope)
      BY <1>0, <1>2 DEF DrainPush, WakeInv
    <2>2. Len(Reverse(batch[w])) > 0 /\ Reverse(batch[w]) \in Seq(Envelope)
      <3>1. Len(batch[w]) \in Nat \ {0} /\ DOMAIN batch[w] = 1..Len(batch[w])
            /\ \A i \in 1..Len(batch[w]) : batch[w][i] \in Envelope
        BY <2>1, EmptySeq, LenProperties, ElementOfSeq
      <3>2. \A i \in 1..Len(batch[w]) : (Len(batch[w]) - i) + 1 \in 1..Len(batch[w])
        BY <3>1
      <3>3. Reverse(batch[w]) \in [1..Len(batch[w]) -> Envelope]
        BY <3>1, <3>2 DEF Reverse
      <3> QED
        BY <3>1, <3>3, SeqDef, LenProperties
    <2>3. ready' # <<>>
      <3>1. ready' = Reverse(batch[w]) \o ready
        BY <1>2 DEF DrainPush
      <3>2. Len(ready') > 0
        BY <1>0, <2>2, <3>1, ConcatProperties, LenProperties
      <3> QED
        BY <3>2, EmptySeq
    <2> QED
      BY <1>0, <1>2, <2>3 DEF DrainPush, Goto, WakeInv
  <1>3. CASE DrainRemove(w)
    BY <1>0, <1>3 DEF DrainRemove, Goto, WakeInv
  <1>4. CASE DrainNext(w)
    <2>1. CASE trailing[w]
      BY <1>0, <1>4, <2>1 DEF DrainNext, Goto, WakeInv
    <2>2. CASE ~trailing[w]
      <3>1. /\ pc[w] = "next" /\ clock[w] = now /\ pc'[w] = "block"
            /\ UNCHANGED <<now, ready, sched>>
            /\ until'[w] = IF Timeout(now) = 0 THEN 0 ELSE now + Timeout(now)
        BY <1>0, <1>4, <2>2 DEF DrainNext, Goto, WakeInv
      <3>2. Timeout(now) \in Nat /\ Timeout(now) <= Block
        BY <1>0, TimeoutType
      <3>3. CASE ready = <<>>
        <4>1. \A e \in DOMAIN sched : sched[e] > now
          BY <3>1, <3>3 DEF WakeInv
        <4>2. Timeout(now) # 0
          BY <1>0, <4>1, TimeoutType
        <4> QED
          BY <1>0, <3>1, <3>2, <4>1, <4>2 DEF WakeInv
      <3> QED
        BY <3>1, <3>3 DEF WakeInv
    <2> QED
      BY <2>1, <2>2
  <1>5. CASE Pop(w) \/ PopTimeout(w)
    BY <1>0, <1>5 DEF Pop, PopTimeout, Goto, WakeInv
  <1> QED
    BY <1>1, <1>2, <1>3, <1>4, <1>5 DEF Dequeue

LEMMA WakeStep ==
    ASSUME Types, NEW w \in Worker, Worker = {w}, WakeInv(w), [Next]_vars
    PROVE  WakeInv(w)'
  <1>0. /\ now \in Nat /\ until[w] \in Nat /\ DOMAIN pc = Worker /\ Block \in Nat
        /\ \A e \in DOMAIN sched : sched[e] \in Nat
    BY QueueAssumption DEF Types, TypeOK
  <1>1. CASE Flush(w) \/ Crash(w)
    BY <1>0, <1>1 DEF Flush, Crash, Succeed, Defer, Fail, Requeue, GiveUp, Released, Goto, WakeInv
  <1>2. CASE Tick
    <2>1. /\ pc[w] = "handling" \/ (pc[w] = "block" /\ ready = <<>>
                                    /\ (until[w] = 0 \/ now < until[w]))
          /\ now' = now + 1 /\ UNCHANGED <<ready, sched, pc, clock, batch, until>>
      BY <1>2 DEF Tick, worker
    <2> QED
      BY <1>0, <2>1 DEF WakeInv
  <1>3. ASSUME UNCHANGED <<now, ready, sched, worker>> PROVE WakeInv(w)'
    BY <1>3 DEF worker, WakeInv
  <1>4. CASE \E t \in Task : Store(t) \/ EnqueueFails(t) \/ IngestCrash(t)
    BY <1>3, <1>4 DEF Store, EnqueueFails, IngestCrash
  <1>5. CASE UNCHANGED vars
    BY <1>3, <1>5 DEF vars, worker
  <1> QED
    BY <1>1, <1>2, <1>4, <1>5, WakeEnqueue, WakeDequeue DEF Next, Produce

\* A queue with one worker wakes it up within Block seconds of the time of a scheduled
\* task, whatever fails and whenever the task was scheduled. (With two workers BRPOP may
\* wait for ever: the other one may take what the drain left due at this very second.)
THEOREM QueueWakesInTime ==
    ASSUME NEW w, Worker = {w}
    PROVE  Spec => []WakesInTime
  <1>1. Init => WakeInv(w)
    BY DEF Init, WakeInv
  <1>2. QueueInv /\ WakeInv(w) /\ [Next]_vars => WakeInv(w)'
    BY WakeStep DEF QueueInv
  <1>3. QueueInv /\ WakeInv(w) => WakesInTime
    <2> SUFFICES ASSUME QueueInv, WakeInv(w), pc[w] = "block", ready = <<>>,
                        NEW e \in DOMAIN sched
                 PROVE  now <= sched[e] + Block
      BY DEF WakesInTime
    <2>1. now \in Nat /\ until[w] \in Nat /\ sched[e] \in Nat /\ Block \in Nat
      BY QueueAssumption DEF QueueInv, Types, TypeOK
    <2> QED
      BY <2>1 DEF WakeInv
  <1> QED
    BY <1>1, <1>2, <1>3, QueueInvariant, PTL DEF Spec

(* ------------------------- one worker, no failure ----------------------- *)

Holding(w) == pc[w] \in {"handling", "failed"}

\* With a single worker w and no failure a task is in one place, except between the two
\* steps of a drain, and where it is it waits for its time.
OneCopy(w) ==
    /\ \A i, j \in DOMAIN ready : ready[i].task = ready[j].task => i = j
    /\ \A e, f \in DOMAIN sched : e.task = f.task => e = f
    /\ \A e \in ToSet(ready), f \in DOMAIN sched :
          e.task = f.task => pc[w] = "remove" /\ e = f /\ f \in ToSet(batch[w])
    /\ pc[w] = "push" =>
          /\ \A i, j \in DOMAIN batch[w] : batch[w][i] = batch[w][j] => i = j
          /\ ToSet(batch[w]) \subseteq DOMAIN sched
          /\ \A e \in ToSet(batch[w]) : sched[e] <= now
    /\ Holding(w) => \A e \in ToSet(ready) \union DOMAIN sched : e.task # hand[w].task

OneSettled(w) ==
    /\ \A e \in ToSet(ready) \union DOMAIN sched : e.task \notin done \union dropped
    /\ Holding(w) => hand[w].task \notin done \union dropped

InTime(w) ==
    /\ \A e \in ToSet(ready) : notBefore[e.task] <= now
    /\ \A e \in DOMAIN sched : notBefore[e.task] <= sched[e]
    /\ Holding(w) => notBefore[hand[w].task] <= now
    /\ \A t \in Task : produced[t] # "accepted" => notBefore[t] = 0

OneInv(w) == OneCopy(w) /\ OneSettled(w) /\ InTime(w)

\* What the prover needs to know of a state about its sequences and sets.
LEMMA Shapes ==
    ASSUME Types, HoldsTask, NEW w \in Worker
    PROVE  /\ ready \in Seq(Envelope) /\ batch[w] \in Seq(Envelope)
           /\ ToSet(ready) \subseteq Envelope /\ DOMAIN sched \subseteq Envelope
           /\ \A i \in DOMAIN ready : ready[i] \in ToSet(ready)
           /\ \A e \in ToSet(ready) : \E i \in DOMAIN ready : e = ready[i]
           /\ now \in Nat /\ \A e \in DOMAIN sched : sched[e] \in Nat
           /\ notBefore \in [Task -> Nat] /\ DOMAIN pc = Worker
           /\ Holding(w) => hand[w] \in Envelope
           /\ \A e \in Envelope : e.task \in Task
  <1>1. ready \in Seq(Envelope) /\ batch[w] \in Seq(Envelope)
    BY DEF Types, TypeOK
  <1>2. ToSet(ready) \subseteq Envelope
    BY <1>1, SetOfSeq
  <1>3. /\ \A i \in DOMAIN ready : ready[i] \in ToSet(ready)
        /\ \A e \in ToSet(ready) : \E i \in DOMAIN ready : e = ready[i]
    BY DEF ToSet
  <1>4. \A e \in Envelope : e.task \in Task
    BY DEF Envelope
  <1> QED
    BY <1>1, <1>2, <1>3, <1>4 DEF Types, TypeOK, HoldsTask, Holding

LEMMA OneEnqueue ==
    ASSUME QueueInv, NEW w \in Worker, OneInv(w), NEW t \in Task, EnqueueOk(t)
    PROVE  OneInv(w)'
  <1>0. /\ Types /\ HoldsTask /\ produced[t] = "stored"
        /\ produced' = [produced EXCEPT ![t] = "accepted"]
        /\ UNCHANGED <<now, pc, batch, hand, done, dropped>>
        /\ produced \in [Task -> {"new", "stored", "accepted", "refused", "notified"}]
        /\ Delay \in Nat
    BY QueueAssumption DEF QueueInv, Places, Types, TypeOK, EnqueueOk, worker
  <1>1. /\ \A e \in ToSet(ready) \union DOMAIN sched : e.task # t
        /\ Holding(w) => hand[w].task # t
        /\ t \notin done \union dropped /\ notBefore[t] = 0
    <2>1. ToSet(ready) \union DOMAIN sched \subseteq Copies \union Drained
      BY <1>0, CopiesType, Members
    <2>2. Holding(w) => hand[w] \in Copies
      BY Members DEF Holding
    <2> QED
      BY <1>0, <2>1, <2>2 DEF QueueInv, Places, OneInv, InTime
  <1>2. First(t) \in Envelope /\ First(t).task = t
    BY FirstType
  <1>3. CASE Lpush(First(t)) /\ UNCHANGED <<sched, notBefore>>
    <2>1. ready' = <<First(t)>> \o ready /\ ToSet(ready') = {First(t)} \union ToSet(ready)
      BY <1>0, <1>2, <1>3, Shapes, SetOfPushed DEF Lpush
    <2>2. /\ <<First(t)>> \in Seq(Envelope) /\ Len(<<First(t)>>) = 1
          /\ <<First(t)>>[1] = First(t) /\ DOMAIN <<First(t)>> = {1}
      BY <1>2
    <2>3. /\ \A p \in DOMAIN ready' : \/ p = 1 /\ ready'[p] = First(t)
                                      \/ /\ p - 1 \in DOMAIN ready /\ ready'[p] = ready[p - 1]
                                         /\ ready'[p] \in ToSet(ready)
          /\ DOMAIN ready' \subseteq Int /\ 0 \notin DOMAIN ready
      BY <1>0, <2>1, <2>2, Shapes, Shifted, ConcatProperties, LenProperties
    <2>4. ASSUME NEW i \in DOMAIN ready', NEW j \in DOMAIN ready',
                 ready'[i].task = ready'[j].task
          PROVE  i = j
      <3>1. CASE i = 1 \/ j = 1
        <4>1. \A p \in DOMAIN ready' : p = 1 <=> ready'[p].task = t
          <5>1. 1 - 1 \notin DOMAIN ready
            BY <2>3
          <5> QED
            BY <1>1, <1>2, <2>3, <5>1
        <4> QED
          BY <2>4, <3>1, <4>1
      <3>2. CASE i # 1 /\ j # 1
        <4>1. i - 1 = j - 1
          BY <2>3, <2>4, <3>2 DEF OneInv, OneCopy
        <4> QED
          BY <2>3, <4>1
      <3> QED
        BY <3>1, <3>2
    <2>5. OneCopy(w)'
      <3>1. \A e \in ToSet(ready'), f \in DOMAIN sched' : e.task = f.task =>
                pc'[w] = "remove" /\ e = f /\ f \in ToSet(batch'[w])
        BY <1>0, <1>1, <1>2, <1>3, <2>1 DEF OneInv, OneCopy
      <3>2. Holding(w)' => \A e \in ToSet(ready') \union DOMAIN sched' : e.task # hand'[w].task
        BY <1>0, <1>1, <1>2, <1>3, <2>1 DEF OneInv, OneCopy, Holding
      <3> QED
        BY <1>0, <1>3, <2>4, <3>1, <3>2 DEF OneInv, OneCopy
    <2>6. OneSettled(w)'
      BY <1>0, <1>1, <1>2, <1>3, <2>1 DEF OneInv, OneSettled, Holding
    <2>7. InTime(w)'
      <3>1. \A e \in ToSet(ready') : notBefore'[e.task] <= now'
        BY <1>0, <1>1, <1>2, <1>3, <2>1, Shapes DEF OneInv, InTime
      <3>2. \A e \in DOMAIN sched' : notBefore'[e.task] <= sched'[e]
        BY <1>3 DEF OneInv, InTime
      <3>3. Holding(w)' => notBefore'[hand'[w].task] <= now'
        BY <1>0, <1>3 DEF OneInv, InTime, Holding
      <3>4. \A u \in Task : produced'[u] # "accepted" => notBefore'[u] = 0
        BY <1>0, <1>3, Shapes DEF OneInv, InTime
      <3> QED
        BY <3>1, <3>2, <3>3, <3>4 DEF InTime
    <2> QED
      BY <2>5, <2>6, <2>7 DEF OneInv
  <1>4. CASE /\ Zadd(First(t), now + Delay) /\ UNCHANGED ready
             /\ notBefore' = [notBefore EXCEPT ![t] = now + Delay]
    <2>1. /\ DOMAIN sched' = DOMAIN sched \union {First(t)}
          /\ sched'[First(t)] = now + Delay
          /\ \A e \in DOMAIN sched : e.task # t /\ sched'[e] = sched[e]
      BY <1>1, <1>2, <1>4 DEF Zadd
    <2>2. OneCopy(w)'
      BY <1>0, <1>1, <1>2, <1>4, <2>1 DEF OneInv, OneCopy, Holding
    <2>3. OneSettled(w)'
      BY <1>0, <1>1, <1>2, <1>4, <2>1 DEF OneInv, OneSettled, Holding
    <2>4. /\ notBefore'[t] = now + Delay
          /\ \A u \in Task : u # t => notBefore'[u] = notBefore[u]
      BY <1>0, <1>4, Shapes
    <2>5. InTime(w)'
      BY <1>0, <1>1, <1>2, <1>4, <2>1, <2>4, Shapes DEF OneInv, InTime, Holding
    <2> QED
      BY <2>2, <2>3, <2>5 DEF OneInv
  <1> QED
    BY <1>3, <1>4 DEF EnqueueOk

LEMMA OneDequeue ==
    ASSUME QueueInv, NEW w \in Worker, OneInv(w), Dequeue(w)
    PROVE  OneInv(w)'
  <1>0. /\ Types /\ HoldsTask /\ now \in Nat
        /\ pc \in [Worker -> {"read", "push", "remove", "next", "block", "handling", "failed"}]
        /\ batch \in [Worker -> Seq(Envelope)] /\ hand \in [Worker -> Envelope \union {Nothing}]
        /\ Batch \in Nat
    BY QueueAssumption DEF QueueInv, Places, Types, TypeOK
  <1>1. CASE DrainRead(w)
    <2>1. PICK s \in Ranges(Due(now)) :
             batch' = [batch EXCEPT ![w] = SubSeq(s, 1, Least(Batch, Len(s)))]
      BY <1>1 DEF DrainRead
    <2>2. /\ ToSet(batch'[w]) \subseteq DOMAIN sched
          /\ \A e \in ToSet(batch'[w]) : sched[e] <= now
          /\ \A i, j \in DOMAIN batch'[w] : batch'[w][i] = batch'[w][j] => i = j
      <3>1. PICK b : b = SubSeq(s, 1, Least(Batch, Len(s)))
        OBVIOUS
      <3>2. /\ ToSet(b) \subseteq DOMAIN sched /\ \A e \in ToSet(b) : sched[e] <= now
            /\ \A i, j \in DOMAIN b : b[i] = b[j] => i = j
        BY <1>0, <3>1, BatchType
      <3>3. batch'[w] = b
        BY <1>0, <2>1, <3>1
      <3> QED
        BY <3>2, <3>3
    <2>3. /\ pc[w] = "read" /\ pc'[w] \in {"push", "next"}
          /\ UNCHANGED <<now, ready, sched, hand, produced, notBefore, done, dropped>>
      BY <1>0, <1>1 DEF DrainRead, Goto, outcome
    <2>4. OneCopy(w)'
      BY <2>2, <2>3 DEF OneInv, OneCopy, Holding
    <2> QED
      BY <2>3, <2>4 DEF OneInv, OneSettled, InTime, Holding
  <1>2. CASE DrainPush(w)
    <2>1. /\ pc[w] = "push" /\ pc'[w] = "remove" /\ ready' = Reverse(batch[w]) \o ready
          /\ UNCHANGED <<now, sched, batch, hand, produced, notBefore, done, dropped>>
      BY <1>0, <1>2 DEF DrainPush, Goto, outcome
    <2>2. ToSet(ready') = ToSet(batch[w]) \union ToSet(ready)
      BY <1>0, <2>1, Shapes, SetOfReversed
    <2>3. /\ \A i, j \in DOMAIN batch[w] : batch[w][i] = batch[w][j] => i = j
          /\ ToSet(batch[w]) \subseteq DOMAIN sched
          /\ \A e \in ToSet(batch[w]) : sched[e] <= now
          /\ \A e, f \in DOMAIN sched : e.task = f.task => e = f
          /\ \A e \in ToSet(ready), f \in DOMAIN sched : e.task # f.task
      BY <2>1 DEF OneInv, OneCopy
    <2> DEFINE b == Reverse(batch[w])
    <2>4. /\ b \in Seq(Envelope) /\ Len(b) \in Nat
          /\ \A i \in DOMAIN b : b[i] \in ToSet(batch[w])
          /\ \A i, j \in DOMAIN b : b[i] = b[j] => i = j
      <3>1. Len(batch[w]) \in Nat /\ DOMAIN batch[w] = 1..Len(batch[w])
            /\ \A i \in 1..Len(batch[w]) : batch[w][i] \in Envelope
        BY <1>0, Shapes, LenProperties, ElementOfSeq
      <3>2. \A i \in 1..Len(batch[w]) : (Len(batch[w]) - i) + 1 \in 1..Len(batch[w])
        BY <3>1
      <3>3. b = [i \in 1..Len(batch[w]) |-> batch[w][(Len(batch[w]) - i) + 1]]
        BY DEF Reverse
      <3>4. b \in [1..Len(batch[w]) -> Envelope]
        BY <3>1, <3>2, <3>3
      <3>5. b \in Seq(Envelope) /\ Len(b) \in Nat
        BY <3>1, <3>4, SeqDef, LenProperties
      <3>6. \A i \in DOMAIN b : b[i] \in ToSet(batch[w])
        BY <3>1, <3>2, <3>3 DEF ToSet
      <3>7. ASSUME NEW i \in DOMAIN b, NEW j \in DOMAIN b, b[i] = b[j] PROVE i = j
        <4>1. i \in 1..Len(batch[w]) /\ j \in 1..Len(batch[w])
          BY <3>3
        <4>2. (Len(batch[w]) - i) + 1 = (Len(batch[w]) - j) + 1
          BY <2>3, <3>1, <3>2, <3>3, <3>7, <4>1
        <4> QED
          BY <3>1, <4>1, <4>2
      <3> QED
        BY <3>5, <3>6, <3>7
    <2> HIDE DEF b
    <2>5. /\ \A p \in DOMAIN ready' : \/ /\ p \in DOMAIN b /\ ready'[p] = b[p]
                                         /\ ready'[p] \in ToSet(batch[w])
                                      \/ /\ p - Len(b) \in DOMAIN ready
                                         /\ ready'[p] = ready[p - Len(b)]
                                         /\ ready'[p] \in ToSet(ready)
          /\ DOMAIN ready' \subseteq Int
      <3>1. ready' = b \o ready
        BY <2>1 DEF b
      <3>2. ready \in Seq(Envelope) /\ \A i \in DOMAIN ready : ready[i] \in ToSet(ready)
        BY <1>0, Shapes
      <3>3. DOMAIN ready' = 1..(Len(b) + Len(ready)) /\ Len(ready) \in Nat
        BY <2>4, <3>1, <3>2, ConcatProperties, LenProperties
      <3> QED
        BY <2>4, <3>1, <3>2, <3>3, Shifted
    <2>6. ASSUME NEW i \in DOMAIN ready', NEW j \in DOMAIN ready',
                 ready'[i].task = ready'[j].task
          PROVE  i = j
      <3>1. CASE ready'[i] \in ToSet(batch[w]) /\ ready'[j] \in ToSet(batch[w])
        <4>1. ready'[i] = ready'[j]
          BY <2>3, <2>6, <3>1
        <4>2. i \in DOMAIN b /\ j \in DOMAIN b /\ b[i] = ready'[i] /\ b[j] = ready'[j]
          BY <2>3, <2>5, <3>1
        <4> QED
          BY <2>4, <4>1, <4>2
      <3>2. CASE ready'[i] \in ToSet(ready) /\ ready'[j] \in ToSet(ready)
        <4>1. /\ i - Len(b) \in DOMAIN ready /\ ready'[i] = ready[i - Len(b)]
              /\ j - Len(b) \in DOMAIN ready /\ ready'[j] = ready[j - Len(b)]
          BY <2>3, <2>5, <3>2
        <4>2. i - Len(b) = j - Len(b)
          BY <2>6, <4>1 DEF OneInv, OneCopy
        <4> QED
          BY <2>4, <2>5, <4>2
      <3> QED
        BY <2>3, <2>5, <2>6, <3>1, <3>2
    <2>7. OneCopy(w)'
      <3>1. \A e \in ToSet(ready'), f \in DOMAIN sched' : e.task = f.task =>
                pc'[w] = "remove" /\ e = f /\ f \in ToSet(batch'[w])
        BY <2>1, <2>2, <2>3
      <3> QED
        BY <2>1, <2>3, <2>6, <3>1 DEF OneCopy, Holding
    <2>8. OneSettled(w)'
      BY <2>1, <2>2, <2>3 DEF OneInv, OneSettled, Holding
    <2>9. InTime(w)'
      <3>1. \A e \in ToSet(batch[w]) : notBefore[e.task] <= now
        <4>1. \A e \in ToSet(batch[w]) : /\ notBefore[e.task] <= sched[e] /\ sched[e] <= now
                                         /\ sched[e] \in Nat /\ e \in Envelope
          BY <1>0, <2>3, Shapes DEF OneInv, InTime
        <4>2. \A e \in ToSet(batch[w]) : notBefore[e.task] \in Nat
          BY <1>0, <4>1, Shapes
        <4> QED
          BY <1>0, <4>1, <4>2
      <3> QED
        BY <2>1, <2>2, <3>1 DEF OneInv, InTime, Holding
    <2> QED
      BY <2>7, <2>8, <2>9 DEF OneInv
  <1>3. CASE DrainRemove(w)
    <2>1. /\ pc[w] = "remove" /\ pc'[w] = "next"
          /\ DOMAIN sched' = DOMAIN sched \ ToSet(batch[w])
          /\ \A e \in DOMAIN sched' : sched'[e] = sched[e]
          /\ UNCHANGED <<now, ready, hand, produced, notBefore, done, dropped>>
      BY <1>0, <1>3 DEF DrainRemove, Goto, Zrem, outcome
    <2>2. OneCopy(w)'
      BY <2>1 DEF OneInv, OneCopy, Holding
    <2> QED
      BY <2>1, <2>2 DEF OneInv, OneSettled, InTime, Holding
  <1>4. CASE DrainNext(w) \/ PopTimeout(w)
    <2>1. /\ pc[w] \in {"next", "block"} /\ pc'[w] \in {"read", "block"}
          /\ UNCHANGED <<now, ready, sched, hand, produced, notBefore, done, dropped>>
      BY <1>0, <1>4 DEF DrainNext, PopTimeout, Goto, outcome
    <2>2. OneCopy(w)'
      BY <2>1 DEF OneInv, OneCopy, Holding
    <2> QED
      BY <2>1, <2>2 DEF OneInv, OneSettled, InTime, Holding
  <1>5. CASE Pop(w)
    <2>1. /\ pc[w] = "block" /\ pc'[w] = "handling" /\ hand'[w] = Last(ready)
          /\ ready # <<>> /\ ready' = Front(ready)
          /\ UNCHANGED <<now, sched, produced, notBefore, done, dropped>>
      BY <1>0, <1>5 DEF Pop, Goto, outcome
    <2>2. /\ Len(ready) \in Nat \ {0} /\ DOMAIN ready = 1..Len(ready)
          /\ DOMAIN ready' = 1..(Len(ready) - 1)
          /\ \A i \in DOMAIN ready' : i \in DOMAIN ready /\ ready'[i] = ready[i] /\ i # Len(ready)
      <3>1. ready \in Seq(Envelope)
        BY <1>0, Shapes
      <3> QED
        BY <2>1, <3>1, FrontProperties
    <2>3. /\ hand'[w] = ready[Len(ready)] /\ Len(ready) \in DOMAIN ready
          /\ hand'[w] \in ToSet(ready) /\ ToSet(ready') \subseteq ToSet(ready)
          /\ \A e \in ToSet(ready') : e.task # hand'[w].task
      <3>1. hand'[w] = ready[Len(ready)] /\ Len(ready) \in DOMAIN ready
        BY <2>1, <2>2 DEF Last
      <3>2. \A i \in DOMAIN ready' : ready'[i] \in ToSet(ready) /\ ready'[i].task # hand'[w].task
        BY <2>2, <3>1 DEF OneInv, OneCopy, ToSet
      <3> QED
        BY <3>1, <3>2 DEF ToSet
    <2>4. OneCopy(w)'
      <3>1. \A e \in ToSet(ready), f \in DOMAIN sched : e.task # f.task
        BY <2>1 DEF OneInv, OneCopy
      <3>2. \A i, j \in DOMAIN ready' : ready'[i].task = ready'[j].task => i = j
        BY <2>2 DEF OneInv, OneCopy
      <3> QED
        BY <2>1, <2>3, <3>1, <3>2 DEF OneInv, OneCopy, Holding
    <2> QED
      BY <2>1, <2>3, <2>4 DEF OneInv, OneSettled, InTime, Holding
  <1> QED
    BY <1>1, <1>2, <1>3, <1>4, <1>5 DEF Dequeue

\* The worker lets its task go, or goes on with it.
LEMMA OneFlush ==
    ASSUME QueueInv, NEW w \in Worker, OneInv(w), Succeed(w) \/ Fail(w) \/ GiveUp(w)
    PROVE  OneInv(w)'
  <1>1. /\ Holding(w) /\ UNCHANGED <<now, ready, sched, produced, notBefore>>
        /\ done' \union dropped' \subseteq done \union dropped \union {hand[w].task}
        /\ Fail(w) => done' \union dropped' = done \union dropped
    BY DEF Succeed, Fail, GiveUp, Holding
  <1>2. \/ pc'[w] = "read"
        \/ Fail(w) /\ pc'[w] = "failed" /\ hand' = hand
    BY DEF Succeed, Fail, GiveUp, Released, Goto, QueueInv, Types, TypeOK
  <1>3. OneCopy(w)'
    BY <1>1, <1>2 DEF OneInv, OneCopy, Holding
  <1>4. OneSettled(w)'
    BY <1>1, <1>2 DEF OneInv, OneCopy, OneSettled, Holding
  <1>5. InTime(w)'
    BY <1>1, <1>2 DEF OneInv, InTime, Holding
  <1> QED
    BY <1>3, <1>4, <1>5 DEF OneInv

\* The worker queues its task again for a later time.
LEMMA OneRequeue ==
    ASSUME QueueInv, NEW w \in Worker, OneInv(w), Defer(w) \/ Requeue(w)
    PROVE  OneInv(w)'
  <1>0. /\ Types /\ Types' /\ HoldsTask /\ Holding(w) /\ hand[w] \in Envelope /\ pc'[w] = "read"
        /\ hand[w].task \in Task
        /\ UNCHANGED <<now, ready, produced, done, dropped>>
    <2>1. Holding(w) /\ Released(w) /\ UNCHANGED <<now, ready, produced, done, dropped>>
      BY DEF Defer, Requeue, Holding, outcome
    <2>2. Types /\ HoldsTask /\ pc'[w] = "read" /\ hand[w] \in Envelope
      BY <2>1 DEF Released, Goto, QueueInv, Places, Types, TypeOK, HoldsTask, Holding
    <2> QED
      BY <2>1, <2>2, FlushType DEF Flush, Envelope
  <1>1. PICK e : /\ e.task = hand[w].task
                 /\ \E score : /\ Zadd(e, score)
                               /\ notBefore' = [notBefore EXCEPT ![hand[w].task] = score]
    <2>1. CASE Defer(w)
      <3>1. PICK e : e = [hand[w] EXCEPT !.stamp = defers']
        OBVIOUS
      <3>2. e.task = hand[w].task
        BY <1>0, <3>1 DEF Envelope
      <3> QED
        BY <2>1, <3>1, <3>2 DEF Defer
    <2>2. CASE Requeue(w)
      <3>1. PICK e : e = [hand[w] EXCEPT !.attempts = @ + 1]
        OBVIOUS
      <3>2. e.task = hand[w].task
        BY <1>0, <3>1 DEF Envelope
      <3> QED
        BY <2>2, <3>1, <3>2 DEF Requeue
    <2> QED
      BY <2>1, <2>2
  <1>2. PICK score : /\ Zadd(e, score)
                     /\ notBefore' = [notBefore EXCEPT ![hand[w].task] = score]
    BY <1>1
  <1>3. /\ \A f \in ToSet(ready) \union DOMAIN sched : f.task # e.task
        /\ e.task \notin done \union dropped
    BY <1>0, <1>1 DEF OneInv, OneCopy, OneSettled
  <1>4. /\ DOMAIN sched' = DOMAIN sched \union {e} /\ sched'[e] = score
        /\ \A f \in DOMAIN sched : sched'[f] = sched[f]
    BY <1>2, <1>3 DEF Zadd
  <1>5. OneCopy(w)'
    BY <1>0, <1>3, <1>4 DEF OneInv, OneCopy, Holding
  <1>6. OneSettled(w)'
    BY <1>0, <1>3, <1>4 DEF OneInv, OneSettled, Holding
  <1>7. InTime(w)'
    <2>1. /\ notBefore'[e.task] = score /\ \A t \in Task : t # e.task => notBefore'[t] = notBefore[t]
          /\ score \in Nat
      <3>1. score \in Nat
        BY <1>0, <1>4 DEF Types, TypeOK
      <3> QED
        BY <1>0, <1>1, <1>2, <3>1, Shapes
    <2>2. produced[e.task] = "accepted"
      <3>1. hand[w] \in Copies
        BY <1>0, Members DEF Holding
      <3> QED
        BY <1>1, <3>1 DEF QueueInv, Places
    <2>3. \A f \in ToSet(ready) \union DOMAIN sched : f.task \in Task
      BY <1>0, Shapes
    <2>4. \A f \in ToSet(ready') : notBefore'[f.task] <= now'
      BY <1>0, <1>3, <2>1, <2>3 DEF OneInv, InTime
    <2>5. \A f \in DOMAIN sched' : notBefore'[f.task] <= sched'[f]
      BY <1>3, <1>4, <2>1, <2>3 DEF OneInv, InTime
    <2>6. \A t \in Task : produced'[t] # "accepted" => notBefore'[t] = 0
      BY <1>0, <2>1, <2>2 DEF OneInv, InTime
    <2> QED
      BY <1>0, <2>4, <2>5, <2>6 DEF InTime, Holding
  <1> QED
    BY <1>5, <1>6, <1>7 DEF OneInv

LEMMA OneStep ==
    ASSUME QueueInv, NEW w \in Worker, Worker = {w}, Fault = {}, OneInv(w), [Next]_vars
    PROVE  OneInv(w)'
  <1>0. Types /\ HoldsTask
    BY DEF QueueInv, Places
  <1>1. \A t \in Task : ~EnqueueFails(t) /\ ~IngestCrash(t)
    BY DEF EnqueueFails, IngestCrash, Fails
  <1>2. ~Crash(w)
    BY DEF Crash, Fails
  <1>3. ASSUME UNCHANGED <<ready, sched, pc, batch, hand, done, dropped, notBefore>>,
               now' = now \/ now' = now + 1,
               \A t \in Task : produced[t] = "accepted" => produced'[t] = "accepted"
        PROVE  OneInv(w)'
    <2>1. /\ now \in Nat /\ \A e \in DOMAIN sched : sched[e] \in Nat
          /\ \A e \in ToSet(ready) : notBefore[e.task] \in Nat
          /\ Holding(w) => notBefore[hand[w].task] \in Nat
      BY <1>0, Shapes
    <2>2. now' \in Nat /\ now <= now'
      BY <1>3, <2>1
    <2>3. OneCopy(w)'
      <3>1. pc[w] = "push" => \A e \in ToSet(batch[w]) : sched[e] <= now'
        <4> SUFFICES ASSUME pc[w] = "push", NEW e \in ToSet(batch[w]) PROVE sched[e] <= now'
          OBVIOUS
        <4>1. sched[e] <= now /\ sched[e] \in Nat
          BY <2>1 DEF OneInv, OneCopy
        <4> QED
          BY <2>1, <2>2, <4>1
      <3> QED
        BY <1>3, <3>1 DEF OneInv, OneCopy, Holding
    <2>4. OneSettled(w)'
      BY <1>3 DEF OneInv, OneSettled, Holding
    <2>5. InTime(w)'
      <3>1. \A n \in Nat : n <= now => n <= now'
        BY <2>1, <2>2
      <3> QED
        BY <1>3, <2>1, <3>1 DEF OneInv, InTime, Holding
    <2> QED
      BY <2>3, <2>4, <2>5 DEF OneInv
  <1>4. CASE \E t \in Task : Store(t)
    <2>1. PICK t \in Task : Store(t)
      BY <1>4
    <2>2. \A u \in Task : produced[u] = "accepted" => produced'[u] = "accepted"
      BY <1>0, <2>1 DEF Store, Types, TypeOK
    <2> QED
      BY <1>3, <2>1, <2>2 DEF Store, worker, outcome
  <1>5. CASE Tick
    BY <1>3, <1>5 DEF Tick, worker, outcome
  <1>6. CASE UNCHANGED vars
    BY <1>3, <1>6 DEF vars
  <1> QED
    BY <1>1, <1>2, <1>4, <1>5, <1>6, OneEnqueue, OneDequeue, OneFlush, OneRequeue
    DEF Next, Produce, Flush

LEMMA OneInvariant ==
    ASSUME NEW w, Worker = {w}, Fault = {}
    PROVE  Spec => [](QueueInv /\ OneInv(w))
  <1>1. Init => OneInv(w)
    <2> SUFFICES ASSUME Init PROVE OneInv(w)
      OBVIOUS
    <2>1. ToSet(ready) = {} /\ DOMAIN sched = {} /\ DOMAIN ready = {} /\ pc[w] = "read"
      BY DEF Init, ToSet
    <2>2. \A t \in Task : notBefore[t] = 0
      BY DEF Init
    <2> QED
      BY <2>1, <2>2 DEF OneInv, OneCopy, OneSettled, InTime, Holding
  <1>2. QueueInv /\ OneInv(w) /\ [Next]_vars => OneInv(w)'
    BY OneStep
  <1> QED
    BY <1>1, <1>2, QueueInvariant, PTL DEF Spec

\* A list without repetitions is as long as it has members.
LEMMA ListLength ==
    ASSUME NEW S, NEW s \in Seq(S), \A i, j \in DOMAIN s : s[i] = s[j] => i = j
    PROVE  Cardinality(ToSet(s)) = Len(s)
  <1>1. Len(s) \in Nat /\ DOMAIN s = 1..Len(s) /\ s \in [1..Len(s) -> S]
    BY LenProperties
  <1>2. s \in [1..Len(s) -> ToSet(s)] /\ \A x \in ToSet(s) : \E i \in 1..Len(s) : s[i] = x
    BY <1>1 DEF ToSet
  <1>3. s \in Bijection(1..Len(s), ToSet(s))
    BY <1>1, <1>2 DEF Bijection, Injection, Surjection, IsInjective
  <1>4. IsFiniteSet(1..Len(s)) /\ Cardinality(1..Len(s)) = Len(s)
    BY <1>1, FS_Interval
  <1> QED
    BY <1>3, <1>4, FS_Bijection DEF ExistsBijection

\* A queue with one worker and no failure has a task in one place at a time: no handler
\* runs twice for one attempt, and none for a task that is settled.
THEOREM QueueNoDuplicate ==
    ASSUME NEW w, Worker = {w}, Fault = {}
    PROVE  Spec => []NoDuplicate
  <1>1. QueueInv /\ OneInv(w) => NoDuplicate
    <2> SUFFICES ASSUME QueueInv, OneInv(w) PROVE NoDuplicate
      OBVIOUS
    <2>0. Types /\ HoldsTask /\ w \in Worker
      BY DEF QueueInv, Places
    <2>1. Cardinality(ToSet(ready)) = Len(ready)
      BY <2>0, Shapes, ListLength DEF OneInv, OneCopy
    <2>2. \A e \in Moving : pc[w] = "remove" /\ e \in ToSet(batch[w])
      BY Members
    <2>3. \A e \in ToSet(batch[w]) : pc[w] = "remove" => e \in Moving
      BY Members
    <2>4. \A e \in ToSet(ready), f \in DOMAIN sched \ Moving : e.task # f.task
      BY <2>3 DEF OneInv, OneCopy
    <2>5. \A e, f \in ToSet(ready) \union DOMAIN sched : e.task = f.task => e = f
      <3>1. \A e, f \in ToSet(ready) : e.task = f.task => e = f
        BY DEF OneInv, OneCopy, ToSet
      <3> QED
        BY <3>1 DEF OneInv, OneCopy
    <2>6. Held \intersect Queued = {} /\ (done \union dropped) \intersect (Queued \union Held) = {}
      <3>1. \A t \in Queued : \E e \in ToSet(ready) \union DOMAIN sched : t = e.task
        BY DEF Queued, Waiting
      <3>2. \A t \in Held : Holding(w) /\ t = hand[w].task
        BY DEF Held, Holding
      <3> QED
        BY <3>1, <3>2 DEF OneInv, OneCopy, OneSettled
    <2> QED
      BY <2>1, <2>4, <2>5, <2>6 DEF NoDuplicate, Waiting
  <1> QED
    BY <1>1, OneInvariant, PTL

\* With one worker and no failure no handler runs before the time its task was put off to.
THEOREM QueueNeverEarly ==
    ASSUME NEW w, Worker = {w}, Fault = {}
    PROVE  Spec => []NeverEarly
  <1>1. QueueInv /\ OneInv(w) => NeverEarly
    BY Shapes DEF OneInv, InTime, NeverEarly, Holding, QueueInv, Places
  <1> QED
    BY <1>1, OneInvariant, PTL

=============================================================================
