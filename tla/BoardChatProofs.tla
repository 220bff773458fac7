-------------------------- MODULE BoardChatProofs ---------------------------
(* No chat message is announced twice and none of one's own is announced, the *)
(* page shows every message once and in order, and its badge counts those     *)
(* nobody has seen, for any number of messages and of lost connections.       *)
EXTENDS BoardChat, FiniteSetTheorems, SequenceTheorems, WellFoundedInduction, TLAPS

(* Why it holds: what the stream brings has been written by somebody, and     *)
(* whatever was announced is in notifiedChatIdsRef. Whose a message is never  *)
(* changes, since a new one is stamped after all the others.                  *)

Stamped == {m \in Msg : author[m] # "nobody"}

ChatTypes ==
    /\ author \in [Msg -> {"me", "other", "nobody"}]
    /\ toasts \in [Msg -> Nat]
StampedInOrder == \E k \in Nat : Stamped = 1 .. k
SentIsStored == wire \subseteq stored /\ stored \subseteq Stamped
AnnouncedIsNotified ==
    \A m \in Msg : \/ toasts[m] = 0
                   \/ toasts[m] = 1 /\ m \in notified /\ author[m] = "other"

ChatInv == ChatTypes /\ StampedInOrder /\ SentIsStored /\ AnnouncedIsNotified

\* A new message gets the number after all the others.
LEMMA NowIsNext ==
    ASSUME StampedInOrder
    PROVE  \E k \in Nat : Stamped = 1 .. k /\ Now = k + 1
<1>1. PICK k \in Nat : Stamped = 1 .. k
  BY DEF StampedInOrder
<1>2. Cardinality(1 .. k) = k
  BY <1>1, FS_Interval
<1> QED
  BY <1>1, <1>2 DEF Now, Stamped

LEMMA ChatInit == Init => ChatInv
<1> SUFFICES ASSUME Init PROVE ChatInv
  OBVIOUS
<1>1. PICK old \in SUBSET (Msg \intersect {1}) :
         /\ author = [m \in Msg |-> IF m \in old THEN "other" ELSE "nobody"]
         /\ stored = old
  BY DEF Init
<1>2. ChatTypes /\ AnnouncedIsNotified
  BY <1>1 DEF Init, ChatTypes, AnnouncedIsNotified
<1>3. Stamped = old
  BY <1>1 DEF Stamped
<1>4. old = 1 .. 0 \/ old = 1 .. 1
  <2>1. 1 .. 0 = {} /\ 1 .. 1 = {1}
    OBVIOUS
  <2> QED
    BY <1>1, <2>1
<1>5. StampedInOrder
  BY <1>3, <1>4 DEF StampedInOrder
<1> QED
  BY <1>1, <1>2, <1>3, <1>5 DEF Init, ChatInv, SentIsStored

\* A message is stamped: nothing is known of it before.
LEMMA StampStep ==
    ASSUME ChatInv, Now \in Msg, NEW who \in {"me", "other"},
           author' = [author EXCEPT ![Now] = who],
           UNCHANGED <<stored, wire, notified, toasts>>
    PROVE  ChatInv'
<1>1. PICK k \in Nat : Stamped = 1 .. k /\ Now = k + 1
  BY NowIsNext DEF ChatInv
<1>2. author[Now] = "nobody"
  BY <1>1 DEF Stamped, ChatInv, ChatTypes
<1>3. Stamped' = Stamped \union {Now}
  BY DEF Stamped, ChatInv, ChatTypes
<1>4. Stamped' = 1 .. k + 1
  BY <1>1, <1>3
<1>5. StampedInOrder'
  BY <1>4 DEF StampedInOrder
<1>6. ChatTypes'
  BY DEF ChatInv, ChatTypes
<1>7. SentIsStored'
  BY <1>3 DEF ChatInv, SentIsStored
<1>8. AnnouncedIsNotified'
  BY <1>2 DEF ChatInv, ChatTypes, AnnouncedIsNotified
<1> QED
  BY <1>5, <1>6, <1>7, <1>8 DEF ChatInv

\* Every step keeps the invariant.
LEMMA ChatStep ==
    ASSUME ChatInv, [Next]_chatVars
    PROVE  ChatInv'
<1>1. CASE Write
  BY <1>1, StampStep DEF Write, stream, page
<1>2. CASE Receive
  BY <1>2, StampStep DEF Receive, stream, page
<1>3. ASSUME NEW m \in Msg, Commit(m) PROVE ChatInv'
  <2>1. /\ stored' = stored \union {m} /\ m \in Stamped
        /\ UNCHANGED <<author, wire, notified, toasts>>
    BY <1>3 DEF Commit, Stamped, stream, page
  <2> QED
    BY <2>1 DEF ChatInv, ChatTypes, StampedInOrder, SentIsStored, AnnouncedIsNotified,
                Stamped
<1>4. CASE Emit
  <2>1. wire' \subseteq stored /\ UNCHANGED <<author, stored, notified, toasts>>
    BY <1>4 DEF Emit, Rows, server, page
  <2> QED
    BY <2>1 DEF ChatInv, ChatTypes, StampedInOrder, SentIsStored, AnnouncedIsNotified,
                Stamped
<1>5. CASE Connect \/ Drop
  <2>1. wire' = {} /\ UNCHANGED <<author, stored, notified, toasts>>
    BY <1>5 DEF Connect, Drop, server, page
  <2> QED
    BY <2>1 DEF ChatInv, ChatTypes, StampedInOrder, SentIsStored, AnnouncedIsNotified,
                Stamped
<1>6. CASE Read
  <2>1. PICK m \in wire :
          /\ wire' = wire \ {m}
          /\ IF m \in ref THEN UNCHANGED <<notified, toasts>>
             ELSE /\ notified' = notified \union {m}
                  /\ toasts' = [toasts EXCEPT ![m] = IF Announced(m) THEN @ + 1 ELSE @]
    BY <1>6 DEF Read
  <2>2. UNCHANGED <<author, stored>>
    BY <1>6 DEF Read, server
  <2>3. ChatTypes' /\ StampedInOrder' /\ SentIsStored'
    BY <2>1, <2>2 DEF ChatInv, ChatTypes, StampedInOrder, SentIsStored, Stamped
  <2>4. m \in Msg /\ author[m] \in {"me", "other"}
    BY DEF ChatInv, ChatTypes, SentIsStored, Stamped
  <2>5. AnnouncedIsNotified'
    BY <2>1, <2>2, <2>4 DEF Announced, ChatInv, ChatTypes, AnnouncedIsNotified
  <2> QED
    BY <2>3, <2>5 DEF ChatInv
<1>7. CASE Return \/ SyncRef \/ Send \/ SendFails \/ OpenChat \/ CloseChat
  <2>1. UNCHANGED <<author, stored, wire, notified, toasts>>
    BY <1>7 DEF Return, SyncRef, Send, SendFails, OpenChat, CloseChat, server, stream, page
  <2> QED
    BY <2>1 DEF ChatInv, ChatTypes, StampedInOrder, SentIsStored, AnnouncedIsNotified,
                Stamped
<1>8. CASE Sent
  <2>1. notified' = notified \union {post} /\ UNCHANGED <<author, stored, wire, toasts>>
    BY <1>8 DEF Sent, stream
  <2> QED
    BY <2>1 DEF ChatInv, ChatTypes, StampedInOrder, SentIsStored, AnnouncedIsNotified,
                Stamped
<1>9. CASE UNCHANGED chatVars
  BY <1>9 DEF chatVars, ChatInv, ChatTypes, StampedInOrder, SentIsStored,
              AnnouncedIsNotified, Stamped
<1> QED
  BY <1>1, <1>2, <1>3, <1>4, <1>5, <1>6, <1>7, <1>8, <1>9 DEF Next

\* A message is announced at most once and one's own never, however often the stream
\* sends it and whichever of the stream and the response brings it first
\* (notifyIncomingBoardChat, postBoardChatMessage).
THEOREM AnnouncedOnce == Spec => []NotifiedOnce
<1>1. ChatInv /\ [Next]_chatVars => ChatInv'
  BY ChatStep
<1>2. ChatInv => NotifiedOnce
  BY DEF ChatInv, ChatTypes, AnnouncedIsNotified, NotifiedOnce
<1> QED
  BY <1>1, <1>2, ChatInit, PTL DEF Spec

(* --------------- a message is put where its time belongs ---------------- *)

Ordered(s) == \A i, j \in 1 .. Len(s) : i < j => s[i] < s[j]

\* What a sequence of messages is made of.
LEMMA Elements ==
    ASSUME NEW s \in Seq(Msg)
    PROVE  /\ Len(s) \in Nat /\ DOMAIN s = 1 .. Len(s) /\ ToSet(s) \subseteq Msg
           /\ \A i \in 1 .. Len(s) : s[i] \in Int /\ s[i] \in ToSet(s)
<1>1. Len(s) \in Nat /\ DOMAIN s = 1 .. Len(s)
  BY LenProperties
<1>2. \A i \in 1 .. Len(s) : s[i] \in Msg
  BY ElementOfSeq
<1>3. \A m \in Msg : m \in Int
  BY DEF Msg
<1>4. \A i \in 1 .. Len(s) : s[i] \in ToSet(s)
  BY <1>1 DEF ToSet
<1>5. ToSet(s) \subseteq Msg
  BY <1>1, <1>2 DEF ToSet
<1> QED
  BY <1>1, <1>2, <1>3, <1>4, <1>5

\* The first message later than m, or the end.
LEMMA PlaceOf ==
    ASSUME NEW s \in Seq(Msg), Ordered(s), NEW m \in Msg, m \notin ToSet(s)
    PROVE  \E k \in 1 .. Len(s) + 1 :
              /\ \A i \in 1 .. Len(s) : i < k => s[i] < m
              /\ \A i \in 1 .. Len(s) : k <= i => m < s[i]
<1> DEFINE n == Len(s)
           Later == {i \in 1 .. n : m < s[i]} \union {n + 1}
           R == {p \in Nat \X Nat : p[1] < p[2]}
<1>1. /\ n \in Nat /\ m \in Int
      /\ \A i \in 1 .. n : s[i] \in Int /\ s[i] # m
      /\ \A i, j \in 1 .. n : i < j => s[i] < s[j]
  BY Elements DEF Ordered, Msg
<1> HIDE DEF n
<1>2. IsWellFoundedOn(R, Nat)
  BY NatLessThanWellFounded DEF OpToRel
<1>3. \A x, y \in Nat : <<y, x>> \in R <=> y < x
  OBVIOUS
<1>4. Later \in SUBSET Nat /\ n + 1 \in Later /\ Later \subseteq 1 .. n + 1
  BY <1>1
<1>5. \A i \in 1 .. n : i \in Later <=> m < s[i]
  BY <1>1
<1> HIDE DEF R, Later
<1>6. PICK k \in Later : \A y \in Later : ~ (<<y, k>> \in R)
  BY <1>2, <1>4, WFMin
<1>7. k \in 1 .. n + 1 /\ k \in Int /\ \A y \in Later : ~ (y < k)
  <2>1. k \in 1 .. n + 1 /\ k \in Nat
    BY <1>4
  <2>2. \A y \in Later : y \in Nat
    BY <1>4
  <2>3. \A y \in Later : ~ (y < k)
    BY <1>3, <1>6, <2>1, <2>2
  <2> QED
    BY <2>1, <2>3
<1>8. \A i \in 1 .. n : i < k => s[i] < m
  <2> SUFFICES ASSUME NEW i \in 1 .. n, i < k PROVE s[i] < m
    OBVIOUS
  <2>1. ~ (m < s[i])
    BY <1>5, <1>7
  <2> QED
    BY <1>1, <2>1
<1>9. \A i \in 1 .. n : k <= i => m < s[i]
  <2> SUFFICES ASSUME NEW i \in 1 .. n, k <= i PROVE m < s[i]
    OBVIOUS
  <2>1. k \in 1 .. n
    BY <1>1, <1>7
  <2>2. m < s[k] /\ (k = i \/ k < i)
    BY <1>5, <1>6, <1>7, <2>1
  <2>3. k = i \/ s[k] < s[i]
    BY <1>1, <2>1, <2>2
  <2> QED
    BY <1>1, <2>1, <2>2, <2>3
<1> QED
  BY <1>7, <1>8, <1>9 DEF n

\* So the messages can be brought in order, and a sort does nothing else.
LEMMA ByTimeOrders ==
    ASSUME NEW s \in Seq(Msg), Ordered(s), NEW m \in Msg, m \notin ToSet(s),
           NEW t, t = ByTime(Append(s, m))
    PROVE  t \in Seq(Msg) /\ ToSet(t) = ToSet(s) \union {m} /\ Ordered(t)
<1> DEFINE n == Len(s)
           a == Append(s, m)
           All == ToSet(s) \union {m}
<1>1. /\ n \in Nat /\ Msg \subseteq Int /\ m \in Int
      /\ DOMAIN s = 1 .. n
      /\ \A i \in 1 .. n : s[i] \in Msg /\ s[i] \in Int /\ s[i] \in ToSet(s)
  BY Elements, ElementOfSeq DEF Msg
<1>2. \A i, j \in 1 .. n : i < j => s[i] < s[j]
  BY DEF Ordered
<1>3. Len(a) = n + 1 /\ ToSet(a) = All
  <2>1. /\ a \in Seq(Msg) /\ Len(a) = n + 1 /\ DOMAIN a = 1 .. n + 1
        /\ a[n + 1] = m /\ \A i \in 1 .. n : a[i] = s[i]
    BY <1>1, AppendProperties, LenProperties
  <2>2. \A x \in ToSet(a) : x \in All
    <3> SUFFICES ASSUME NEW i \in 1 .. n + 1 PROVE a[i] \in All
      BY <2>1 DEF ToSet
    <3> QED
      BY <1>1, <2>1
  <2>3. \A x \in All : x \in ToSet(a)
    <3>1. m \in ToSet(a)
      <4>1. n + 1 \in DOMAIN a /\ a[n + 1] = m
        BY <1>1, <2>1
      <4> QED
        BY <4>1 DEF ToSet
    <3>2. \A i \in 1 .. n : s[i] \in ToSet(a)
      BY <1>1, <2>1 DEF ToSet
    <3> QED
      BY <1>1, <3>1, <3>2 DEF ToSet
  <2> QED
    BY <2>1, <2>2, <2>3
<1>4. \E k \in 1 .. n + 1 : /\ \A i \in 1 .. n : i < k => s[i] < m
                           /\ \A i \in 1 .. n : k <= i => m < s[i]
  BY PlaceOf
<1>5. ToSet(s) \subseteq Msg /\ All \subseteq Msg
  BY <1>1 DEF ToSet
<1>6. t = CHOOSE u \in [1 .. n + 1 -> All] :
            ToSet(u) = All /\ \A i, j \in 1 .. n + 1 : i < j => u[i] <= u[j]
  BY <1>3 DEF ByTime
<1> HIDE DEF n
<1> DEFINE Times(u) == /\ u \in [1 .. n + 1 -> All] /\ ToSet(u) = All
                       /\ \A i, j \in 1 .. n + 1 : i < j => u[i] <= u[j]
<1>7. \E u : Times(u)
  <2>1. PICK k \in 1 .. n + 1 : /\ \A i \in 1 .. n : i < k => s[i] < m
                                /\ \A i \in 1 .. n : k <= i => m < s[i]
    BY <1>4
  <2> DEFINE u == [i \in 1 .. n + 1 |->
                     IF i < k THEN s[i] ELSE IF i = k THEN m ELSE s[i - 1]]
  <2>2. u \in [1 .. n + 1 -> All]
    BY <1>1
  <2>3. ASSUME NEW x \in All PROVE \E i \in 1 .. n + 1 : u[i] = x
    <3>1. CASE x = m
      <4>1. u[k] = m
        BY <1>1
      <4> QED
        BY <3>1, <4>1
    <3>2. CASE x \in ToSet(s)
      <4>1. PICK i \in 1 .. n : s[i] = x
        BY <1>1, <3>2 DEF ToSet
      <4>2. IF i < k THEN u[i] = x ELSE u[i + 1] = x
        BY <1>1, <4>1
      <4>3. i \in 1 .. n + 1 /\ i + 1 \in 1 .. n + 1
        BY <1>1
      <4> QED
        BY <4>2, <4>3
    <3> QED
      BY <3>1, <3>2
  <2>4. ToSet(u) = All
    <3> HIDE DEF All
    <3>1. DOMAIN u = 1 .. n + 1
      OBVIOUS
    <3> HIDE DEF u
    <3> QED
      BY <2>2, <2>3, <3>1 DEF ToSet
  <2>5. /\ \A i \in 1 .. n : i < k => u[i] = s[i]
        /\ u[k] = m
        /\ \A i \in 1 .. n + 1 : k < i => u[i] = s[i - 1] /\ i - 1 \in 1 .. n /\ k <= i - 1
    BY <1>1
  <2>6. ASSUME NEW i \in 1 .. n + 1, NEW j \in 1 .. n + 1, i < j PROVE u[i] <= u[j]
    <3> HIDE DEF u
    <3>1. i \in 1 .. n /\ i \in Int /\ j \in Int /\ k \in Int
      BY <1>1, <2>6
    <3>2. CASE j < k
      <4>1. j \in 1 .. n /\ i < k
        BY <1>1, <2>6, <3>1, <3>2
      <4> QED
        BY <1>2, <1>1, <2>5, <2>6, <3>1, <3>2, <4>1
    <3>3. CASE i < k /\ j = k
      BY <1>1, <2>1, <2>5, <3>1, <3>3
    <3>4. CASE i < k /\ k < j
      <4>1. s[i] < m /\ m < s[j - 1] /\ j - 1 \in 1 .. n
        BY <2>1, <2>5, <3>1, <3>4
      <4>2. u[i] = s[i] /\ u[j] = s[j - 1]
        BY <2>5, <3>1, <3>4
      <4> QED
        BY <1>1, <3>1, <4>1, <4>2
    <3>5. CASE i = k /\ k < j
      BY <1>1, <2>1, <2>5, <3>1, <3>5
    <3>6. CASE k < i
      <4>1. k < j /\ i - 1 \in 1 .. n /\ j - 1 \in 1 .. n /\ i - 1 < j - 1
        BY <2>5, <2>6, <3>1, <3>6
      <4>2. u[i] = s[i - 1] /\ u[j] = s[j - 1]
        BY <2>5, <3>6, <4>1
      <4> QED
        BY <1>2, <1>1, <4>1, <4>2
    <3> QED
      BY <2>6, <3>1, <3>2, <3>3, <3>4, <3>5, <3>6
  <2> HIDE DEF u
  <2> QED
    BY <2>2, <2>4, <2>6
<1>8. Times(t)
  <2> HIDE DEF All
  <2> QED
    BY <1>7, <1>6
<1>9. t \in Seq(Msg) /\ Len(t) = n + 1 /\ DOMAIN t = 1 .. n + 1
  <2> HIDE DEF All
  <2>1. t \in [1 .. n + 1 -> All]
    BY <1>8
  <2>2. t \in [1 .. n + 1 -> Msg] /\ n + 1 \in Nat /\ DOMAIN t = 1 .. n + 1
    <3>1. All \subseteq Msg
      BY <1>5
    <3>2. DOMAIN t = 1 .. n + 1 /\ \A i \in 1 .. n + 1 : t[i] \in All
      BY <2>1
    <3>3. t = [i \in 1 .. n + 1 |-> t[i]]
      BY <2>1
    <3>4. n + 1 \in Nat
      BY <1>1
    <3> QED
      BY <3>1, <3>2, <3>3, <3>4, Zenon
  <2>3. t \in Seq(Msg)
    BY <2>2, IsASeq
  <2> QED
    BY <1>1, <2>2, <2>3, LenProperties
<1>10. IsFiniteSet(All) /\ Cardinality(All) = n + 1
  <2>1. s \in Surjection(1 .. n, ToSet(s)) /\ s \in Injection(1 .. n, ToSet(s))
    <3>1. s \in [1 .. n -> ToSet(s)]
      BY <1>1, LenProperties
    <3>2. \A x \in ToSet(s) : \E i \in 1 .. n : s[i] = x
      BY <1>1 DEF ToSet
    <3>3. \A i, j \in 1 .. n : s[i] = s[j] => i = j
      <4> SUFFICES ASSUME NEW i \in 1 .. n, NEW j \in 1 .. n, i # j PROVE s[i] # s[j]
        OBVIOUS
      <4>1. i < j \/ j < i
        BY <1>1
      <4> QED
        BY <1>2, <1>1, <4>1
    <3> QED
      BY <1>1, <3>1, <3>2, <3>3 DEF Surjection, Injection, IsInjective
  <2>2. IsFiniteSet(1 .. n) /\ Cardinality(1 .. n) = n
    BY <1>1, FS_Interval
  <2>3. IsFiniteSet(ToSet(s)) /\ Cardinality(ToSet(s)) = n
    BY <2>1, <2>2, FS_Surjection
  <2> QED
    BY <2>3, FS_AddElement
<1>11. \A i, j \in 1 .. n + 1 : t[i] = t[j] => i = j
  <2>1. IsFiniteSet(1 .. n + 1) /\ Cardinality(1 .. n + 1) = n + 1
    BY <1>1, FS_Interval
  <2> HIDE DEF All
  <2>2. t \in Surjection(1 .. n + 1, All)
    BY <1>8, <1>9 DEF Surjection, ToSet
  <2>3. t \in Injection(1 .. n + 1, All)
    BY <1>10, <2>1, <2>2, FS_SurjSameCardinalityImpliesInj
  <2> QED
    BY <1>9, <2>3 DEF Injection, IsInjective
<1>12. Ordered(t)
  <2>1. \A i \in 1 .. n + 1 : t[i] \in Int
    BY <1>1, <1>9, ElementOfSeq
  <2> HIDE DEF All
  <2> QED
    BY <1>1, <1>8, <1>9, <1>11, <2>1 DEF Ordered
<1> QED
  BY <1>8, <1>9, <1>12

\* What both callers of setChatMessages leave behind.
LEMMA InsertedOrders ==
    ASSUME chat \in Seq(Msg), InOrder, NEW m \in Msg
    PROVE  /\ Inserted(m) \in Seq(Msg) /\ ToSet(Inserted(m)) = Shown \union {m}
           /\ Ordered(Inserted(m))
<1>1. Ordered(chat)
  BY DEF InOrder, Ordered
<1>2. CASE m \in Shown
  BY <1>1, <1>2 DEF Inserted, Shown
<1>3. CASE m \notin Shown
  <2>1. Inserted(m) = ByTime(Append(chat, m))
    BY <1>3 DEF Inserted
  <2> QED
    BY <1>1, <1>3, <2>1, ByTimeOrders DEF Shown
<1> QED
  BY <1>2, <1>3

(* ------------------ what the page shows, and its badge ------------------ *)

(* Every message the page knows of in one way or another is one it shows, and *)
(* others' messages are shown only if the ref or the set of announced ones    *)
(* has them: so the page counts a message exactly when it first appears.      *)
ShownOnce == chat \in Seq(Msg) /\ InOrder
ShownIsStored == Shown \subseteq stored
KnownIsShown == ref \subseteq Shown /\ read \subseteq Shown /\ notified \subseteq Shown
ShownIsKnown == \A m \in Shown : author[m] = "other" => m \in ref \union notified
OwnAreMine ==
    /\ \A m \in local : m \in Msg /\ author[m] = "me"
    /\ post \in Msg => author[post] = "me"
OpenIsRead == open \in BOOLEAN /\ (open => Shown \subseteq read)

PageInv ==
    /\ ChatInv
    /\ ShownOnce /\ ShownIsStored /\ KnownIsShown /\ ShownIsKnown /\ OwnAreMine
    /\ OpenIsRead /\ UnreadRight

Unseen == {m \in Shown \ read : author[m] = "other"}

LEMMA PageInit == Init => PageInv
<1> SUFFICES ASSUME Init PROVE PageInv
  OBVIOUS
<1>1. PICK old \in SUBSET (Msg \intersect {1}) :
         /\ author = [m \in Msg |-> IF m \in old THEN "other" ELSE "nobody"]
         /\ stored = old /\ read = old /\ ref = old
         /\ chat = SetToSeq(old)
  BY DEF Init
<1>2. old = {} \/ (old = {1} /\ 1 \in Msg)
  BY <1>1
<1>3. chat \in Seq(Msg) /\ Shown = old /\ InOrder
  <2>1. ASSUME NEW n \in Nat, Cardinality(old) = n, (n = 0 /\ old = {}) \/ (n = 1 /\ old = {1})
        PROVE  SetToSeq(old) \in [1 .. n -> old]
    <3>1. SetToSeq(old) = CHOOSE f \in [1 .. n -> old] : IsInjective(f)
      BY <2>1 DEF SetToSeq
    <3>2. \E f \in [1 .. n -> old] : IsInjective(f)
      <4> DEFINE f == [i \in 1 .. n |-> 1]
      <4>1. f \in [1 .. n -> old] /\ IsInjective(f)
        BY <2>1 DEF IsInjective
      <4> QED
        BY <4>1
    <3> QED
      BY <3>1, <3>2
  <2>2. CASE old = {}
    <3>1. Cardinality(old) = 0
      BY <2>2, FS_EmptySet
    <3>2. chat \in [1 .. 0 -> old]
      <4>1. 0 \in Nat /\ ((0 = 0 /\ old = {}) \/ (0 = 1 /\ old = {1}))
        BY <2>2
      <4> QED
        BY <1>1, <2>1, <3>1, <4>1
    <3>3. chat = << >>
      BY <3>2
    <3> QED
      BY <2>2, <3>3 DEF Shown, ToSet, InOrder
  <2>3. CASE old = {1} /\ 1 \in Msg
    <3>1. Cardinality(old) = 1
      BY <2>3, FS_Singleton
    <3>2. chat \in [1 .. 1 -> old]
      BY <1>1, <2>1, <2>3, <3>1
    <3>3. chat = <<1>>
      BY <2>3, <3>2
    <3> QED
      BY <2>3, <3>3 DEF Shown, ToSet, InOrder
  <2> QED
    BY <1>2, <2>2, <2>3
<1>4. ShownOnce /\ ShownIsStored /\ KnownIsShown /\ ShownIsKnown
  BY <1>1, <1>3 DEF Init, ShownOnce, ShownIsStored, KnownIsShown, ShownIsKnown
<1>5. OwnAreMine /\ OpenIsRead
  <2>1. local = {} /\ post = 0 /\ open = FALSE
    BY DEF Init, Idle
  <2>2. 0 \notin Msg
    BY DEF Msg
  <2> QED
    BY <2>1, <2>2 DEF OwnAreMine, OpenIsRead
<1>6. UnreadRight
  <2>1. {m \in Shown \ read : author[m] = "other"} = {}
    BY <1>1, <1>3
  <2> QED
    BY <2>1, FS_EmptySet DEF Init, UnreadRight
<1> QED
  BY <1>4, <1>5, <1>6, ChatInit DEF PageInv

LEMMA ShownFacts ==
    ASSUME PageInv
    PROVE  /\ Shown \subseteq Msg /\ \A m \in Shown : author[m] \in {"me", "other"}
           /\ IsFiniteSet(Shown) /\ IsFiniteSet(Unseen) /\ Cardinality(Unseen) \in Nat
<1>1. Shown \subseteq Stamped
  BY DEF PageInv, ShownIsStored, ChatInv, SentIsStored
<1>2. PICK k \in Nat : Stamped = 1 .. k
  BY DEF PageInv, ChatInv, StampedInOrder
<1>3. IsFiniteSet(Stamped)
  BY <1>2, FS_Interval
<1>4. IsFiniteSet(Shown)
  BY <1>1, <1>3, FS_Subset
<1>5. Unseen \in SUBSET Shown
  BY DEF Unseen
<1>6. IsFiniteSet(Unseen) /\ Cardinality(Unseen) \in Nat
  BY <1>4, <1>5, FS_Subset, FS_CardinalityType
<1>7. \A m \in Stamped : m \in Msg /\ author[m] \in {"me", "other"}
  BY DEF Stamped, PageInv, ChatInv, ChatTypes
<1> QED
  BY <1>1, <1>4, <1>6, <1>7

\* A message is stamped that nobody can have seen.
LEMMA StampIsUnseen ==
    ASSUME PageInv, ChatInv', Now \in Msg, NEW who \in {"me", "other"},
           author' = [author EXCEPT ![Now] = who],
           UNCHANGED <<stored, page>>,
           post' = post \/ (post' = Now /\ who = "me")
    PROVE  PageInv'
<1>1. author \in [Msg -> {"me", "other", "nobody"}] /\ author[Now] = "nobody"
  <2>1. PICK k \in Nat : Stamped = 1 .. k /\ Now = k + 1
    BY NowIsNext DEF PageInv, ChatInv
  <2> QED
    BY <2>1 DEF Stamped, PageInv, ChatInv, ChatTypes
<1>2. \A m \in Msg : m # Now => author'[m] = author[m]
  BY <1>1
<1>3. author'[Now] = who
  BY <1>1
<1>4. Shown' = Shown /\ Now \notin Shown
  BY <1>1, ShownFacts DEF Shown, page
<1>5. \A m \in Shown : author'[m] = author[m]
  BY <1>2, <1>4, ShownFacts
<1>6. UNCHANGED <<chat, ref, local, notified, open, unread, read>>
  BY DEF page
<1>7. ShownOnce'
  BY <1>6 DEF PageInv, ShownOnce, InOrder
<1>8. ShownIsStored' /\ KnownIsShown' /\ OpenIsRead'
  BY <1>4, <1>6 DEF PageInv, ShownIsStored, KnownIsShown, OpenIsRead
<1>9. ShownIsKnown'
  BY <1>4, <1>5, <1>6 DEF PageInv, ShownIsKnown
<1>10. OwnAreMine'
  <2>1. \A m \in local : m \in Msg /\ m # Now /\ author'[m] = "me"
    BY <1>1, <1>2 DEF PageInv, OwnAreMine
  <2>2. post' \in Msg => author'[post'] = "me"
    <3>1. CASE post' = post
      BY <1>1, <1>2, <3>1 DEF PageInv, OwnAreMine
    <3>2. CASE post' = Now /\ who = "me"
      BY <1>3, <3>2
    <3> QED
      BY <3>1, <3>2
  <2> QED
    BY <1>6, <2>1, <2>2 DEF OwnAreMine
<1>11. UnreadRight'
  <2>1. {m \in Shown' \ read' : author'[m] = "other"} = {m \in Shown \ read : author[m] = "other"}
    BY <1>4, <1>5, <1>6
  <2> QED
    BY <1>6, <2>1 DEF PageInv, UnreadRight
<1> QED
  BY <1>7, <1>8, <1>9, <1>10, <1>11 DEF PageInv

\* Nothing of what the page shows or counts changes.
LEMMA PageStays ==
    ASSUME PageInv, ChatInv', stored \subseteq stored',
           UNCHANGED <<author, chat, local, notified, open, unread, read>>,
           ref' = ref \/ ref' = Shown,
           post' = post \/ post' \notin Msg
    PROVE  PageInv'
<1>1. Shown' = Shown
  BY DEF Shown
<1>2. ShownOnce' /\ ShownIsStored' /\ KnownIsShown' /\ ShownIsKnown'
  BY <1>1 DEF PageInv, ShownOnce, InOrder, ShownIsStored, KnownIsShown, ShownIsKnown
<1>3. OwnAreMine' /\ OpenIsRead'
  BY <1>1 DEF PageInv, OwnAreMine, OpenIsRead
<1>4. UnreadRight'
  BY <1>1 DEF PageInv, UnreadRight
<1> QED
  BY <1>2, <1>3, <1>4 DEF PageInv

\* An event of the stream: it is counted exactly if it is new, somebody else's, and
\* the chat is closed.
LEMMA ReadCounts ==
    ASSUME PageInv, ChatInv', Read
    PROVE  PageInv'
<1>1. PICK m \in wire :
         /\ chat' = Inserted(m)
         /\ IF m \in ref THEN UNCHANGED <<notified, toasts, unread>>
            ELSE /\ notified' = notified \union {m}
                 /\ unread' = IF Announced(m) /\ ~open THEN unread + 1 ELSE unread
         /\ read' = IF open THEN read \union {m} ELSE read
  BY DEF Read
<1>2. UNCHANGED <<author, stored, post, ref, local, open>>
  BY DEF Read, server
<1>3. m \in Msg /\ m \in stored
  BY DEF PageInv, ChatInv, SentIsStored, Stamped
<1>4. chat' \in Seq(Msg) /\ Shown' = Shown \union {m} /\ InOrder'
  BY <1>1, <1>3, InsertedOrders DEF PageInv, ShownOnce, Shown, InOrder, Ordered
<1>5. ShownOnce' /\ ShownIsStored'
  BY <1>2, <1>3, <1>4 DEF PageInv, ShownOnce, ShownIsStored
<1>6. m \in ref => m \in Shown
  BY DEF PageInv, KnownIsShown
<1>7. KnownIsShown' /\ ShownIsKnown'
  BY <1>1, <1>2, <1>4, <1>6 DEF PageInv, KnownIsShown, ShownIsKnown
<1>8. OwnAreMine' /\ OpenIsRead'
  BY <1>1, <1>2, <1>4 DEF PageInv, OwnAreMine, OpenIsRead
<1>9. UnreadRight'
  <2>1. Unseen' = IF ~open /\ m \notin Shown /\ author[m] = "other"
                  THEN Unseen \union {m} ELSE Unseen
    <3>1. CASE open
      <4>1. Unseen' = {} /\ Unseen = {}
        BY <1>1, <1>2, <1>4, <3>1 DEF Unseen, PageInv, OpenIsRead
      <4> QED
        BY <3>1, <4>1
    <3>2. CASE ~open
      <4>1. read' = read /\ (m \notin Shown => m \notin read)
        BY <1>1, <3>2 DEF PageInv, KnownIsShown
      <4> QED
        BY <1>2, <1>4, <3>2, <4>1 DEF Unseen
    <3> QED
      BY <3>1, <3>2
  <2>2. unread' = IF ~open /\ m \notin Shown /\ author[m] = "other"
                  THEN unread + 1 ELSE unread
    <3>1. CASE m \in ref
      BY <1>1, <1>6, <3>1
    <3>2. CASE m \notin ref
      <4>1. author[m] = "other" => (Announced(m) <=> m \notin Shown)
        <5>1. author[m] = "other" => m \notin local
          BY DEF PageInv, OwnAreMine
        <5> QED
          BY <3>2, <5>1 DEF Announced, PageInv, KnownIsShown, ShownIsKnown
      <4>2. Announced(m) => author[m] = "other"
        <5>1. author[m] \in {"me", "other"}
          BY DEF PageInv, ChatInv, ChatTypes, SentIsStored, Stamped
        <5> QED
          BY <5>1 DEF Announced
      <4> QED
        BY <1>1, <3>2, <4>1, <4>2
    <3> QED
      BY <3>1, <3>2
  <2>3. unread = (IF open THEN 0 ELSE Cardinality(Unseen)) /\ (m \notin Shown => m \notin Unseen)
    BY DEF PageInv, UnreadRight, Unseen
  <2>4. unread' = IF open' THEN 0 ELSE Cardinality(Unseen')
    <3>1. CASE ~open /\ m \notin Shown /\ author[m] = "other"
      <4>1. Unseen' = Unseen \union {m} /\ unread' = Cardinality(Unseen) + 1
        BY <2>1, <2>2, <2>3, <3>1
      <4>2. Cardinality(Unseen \union {m}) = Cardinality(Unseen) + 1
        BY <2>3, <3>1, ShownFacts, FS_AddElement
      <4> QED
        BY <1>2, <3>1, <4>1, <4>2
    <3>2. CASE ~(~open /\ m \notin Shown /\ author[m] = "other")
      <4>1. Unseen' = Unseen /\ unread' = unread
        BY <2>1, <2>2, <3>2
      <4> QED
        BY <1>2, <2>3, <4>1
    <3> QED
      BY <3>1, <3>2
  <2> QED
    BY <2>4 DEF UnreadRight, Unseen
<1> QED
  BY <1>5, <1>7, <1>8, <1>9 DEF PageInv

\* The answer to the page's own request: shown, and never counted.
LEMMA SentIsUncounted ==
    ASSUME PageInv, ChatInv', Sent
    PROVE  PageInv'
<1>1. /\ post \in stored
      /\ local' = local \union {post} /\ notified' = notified \union {post}
      /\ chat' = Inserted(post)
      /\ read' = IF open THEN read \union {post} ELSE read
      /\ post' = Idle
      /\ UNCHANGED <<author, stored, ref, open, unread>>
  BY DEF Sent
<1>2. post \in Msg /\ author[post] = "me" /\ Idle \notin Msg
  BY <1>1 DEF PageInv, ChatInv, SentIsStored, Stamped, OwnAreMine, Idle, Msg
<1>3. chat' \in Seq(Msg) /\ Shown' = Shown \union {post} /\ InOrder'
  BY <1>1, <1>2, InsertedOrders DEF PageInv, ShownOnce, Shown, InOrder, Ordered
<1>4. ShownOnce' /\ ShownIsStored'
  BY <1>1, <1>3 DEF PageInv, ShownOnce, ShownIsStored
<1>5. KnownIsShown' /\ ShownIsKnown'
  BY <1>1, <1>3 DEF PageInv, KnownIsShown, ShownIsKnown
<1>6. OwnAreMine' /\ OpenIsRead'
  BY <1>1, <1>2, <1>3 DEF PageInv, OwnAreMine, OpenIsRead
<1>7. UnreadRight'
  <2>1. {m \in Shown' \ read' : author'[m] = "other"} = {m \in Shown \ read : author[m] = "other"}
    BY <1>1, <1>2, <1>3
  <2> QED
    BY <1>1, <2>1 DEF PageInv, UnreadRight
<1> QED
  BY <1>4, <1>5, <1>6, <1>7 DEF PageInv

LEMMA PageStep ==
    ASSUME PageInv, [Next]_chatVars
    PROVE  PageInv'
<1>1. ChatInv'
  BY ChatStep DEF PageInv
<1>2. CASE Write
  BY <1>1, <1>2, StampIsUnseen DEF Write
<1>3. CASE Receive
  BY <1>1, <1>3, StampIsUnseen DEF Receive
<1>4. ASSUME NEW m \in Msg, Commit(m) PROVE PageInv'
  BY <1>1, <1>4, PageStays DEF Commit, page
<1>5. CASE Emit \/ Connect \/ Drop \/ Return \/ SyncRef
  BY <1>1, <1>5, PageStays DEF Emit, Connect, Drop, Return, SyncRef, server, page
<1>6. CASE Send \/ SendFails
  <2>1. Idle \notin Msg /\ Sending \notin Msg
    BY DEF Idle, Sending, Msg
  <2> QED
    BY <1>1, <1>6, <2>1, PageStays DEF Send, SendFails, page
<1>7. CASE Read
  BY <1>1, <1>7, ReadCounts
<1>8. CASE Sent
  BY <1>1, <1>8, SentIsUncounted
<1>9. CASE OpenChat \/ CloseChat
  <2>1. UNCHANGED <<author, stored, post, chat, ref, local, notified>> /\ Shown' = Shown
    BY <1>9 DEF OpenChat, CloseChat, server, Shown
  <2>2. ShownOnce' /\ ShownIsStored' /\ ShownIsKnown' /\ OwnAreMine'
    BY <2>1 DEF PageInv, ShownOnce, InOrder, ShownIsStored, ShownIsKnown, OwnAreMine
  <2>3. KnownIsShown' /\ OpenIsRead'
    BY <1>9, <2>1 DEF OpenChat, CloseChat, PageInv, KnownIsShown, OpenIsRead
  <2>4. UnreadRight'
    <3>1. CASE OpenChat
      BY <3>1 DEF OpenChat, UnreadRight
    <3>2. CASE CloseChat
      <4>1. Unseen' = {}
        BY <2>1, <3>2 DEF CloseChat, Unseen, PageInv, OpenIsRead
      <4>2. unread' = 0 /\ open' = FALSE
        BY <3>2 DEF CloseChat, PageInv, UnreadRight
      <4> QED
        BY <4>1, <4>2, FS_EmptySet DEF UnreadRight, Unseen
    <3> QED
      BY <1>9, <3>1, <3>2
  <2> QED
    BY <1>1, <2>2, <2>3, <2>4 DEF PageInv
<1>10. CASE UNCHANGED chatVars
  BY <1>1, <1>10, PageStays DEF chatVars
<1> QED
  BY <1>2, <1>3, <1>4, <1>5, <1>6, <1>7, <1>8, <1>9, <1>10 DEF Next

LEMMA PageHolds == Spec => []PageInv
<1>1. PageInv /\ [Next]_chatVars => PageInv'
  BY PageStep
<1> QED
  BY <1>1, PageInit, PTL DEF Spec

\* The badge counts the messages of others that arrived while the chat was closed:
\* none twice however often the stream sends it, none of one's own whichever of the
\* stream and the response brings it first (notifyIncomingBoardChat).
THEOREM BadgeIsRight == Spec => []UnreadRight
<1>1. PageInv => UnreadRight
  BY DEF PageInv
<1> QED
  BY <1>1, PageHolds, PTL

\* No message is shown twice and the order is that of the timestamps, although the
\* stream and the response to the page's own request both insert (setChatMessages).
THEOREM ChatIsInOrder == Spec => []InOrder
<1>1. PageInv => InOrder
  BY DEF PageInv, ShownOnce
<1> QED
  BY <1>1, PageHolds, PTL


(* ------------------------------- the types ------------------------------ *)

\* The newest of some messages, and the time after all of them.
LEMMA LatestIsOne ==
    ASSUME NEW k \in Nat, NEW S \in SUBSET (1 .. k), S # {}
    PROVE  Latest(S) \in S
<1> DEFINE Above == {x \in Nat : \A m \in S : m <= x}
           R == {p \in Nat \X Nat : p[1] < p[2]}
<1>1. IsWellFoundedOn(R, Nat)
  BY NatLessThanWellFounded DEF OpToRel
<1>2. \A x, y \in Nat : <<y, x>> \in R <=> y < x
  OBVIOUS
<1>3. k \in Above /\ Above \in SUBSET Nat
  OBVIOUS
<1>4. \A x \in Nat : x \in Above <=> \A m \in S : m <= x
  OBVIOUS
<1> HIDE DEF R, Above
<1>5. PICK x \in Above : \A y \in Above : ~ (<<y, x>> \in R)
  BY <1>1, <1>3, WFMin
<1>6. x \in Nat /\ \A m \in S : m <= x
  BY <1>3, <1>4, <1>5
<1>7. x \in S
  <2> SUFFICES ASSUME x \notin S PROVE FALSE
    OBVIOUS
  <2>1. \A m \in S : m \in Nat /\ m >= 1 /\ m < x
    BY <1>6
  <2>2. x - 1 \in Nat /\ x - 1 < x /\ \A m \in S : m <= x - 1
    <3>1. PICK m \in S : m \in Nat /\ m >= 1 /\ m < x
      BY <2>1
    <3>2. x - 1 \in Nat /\ x - 1 < x
      BY <1>6, <3>1
    <3>3. ASSUME NEW n \in S PROVE n <= x - 1
      BY <1>6, <2>1
    <3> QED
      BY <3>2, <3>3
  <2>3. x - 1 \in Above
    BY <1>4, <2>2
  <2> QED
    BY <1>2, <1>5, <1>6, <2>2, <2>3
<1>8. \E m \in S : \A y \in S : y <= m
  BY <1>6, <1>7
<1> QED
  BY <1>8 DEF Latest

LEMMA TimesAreTimes ==
    ASSUME MaxMsgs \in Nat, PageInv
    PROVE  /\ Now \in 1 .. MaxMsgs + 1
           /\ \A S \in SUBSET stored : S # {} => Latest(S) \in 1 .. MaxMsgs + 1
<1>1. PICK k \in Nat : Stamped = 1 .. k /\ Now = k + 1
  BY NowIsNext DEF PageInv, ChatInv
<1>2. k <= MaxMsgs
  <2> SUFFICES ASSUME k > MaxMsgs PROVE FALSE
    BY <1>1
  <2>1. k \in 1 .. k
    BY <1>1
  <2>2. k \in Msg
    BY <1>1, <2>1 DEF Stamped
  <2> QED
    BY <1>1, <2>2 DEF Msg
<1>3. ASSUME NEW S \in SUBSET stored, S # {} PROVE Latest(S) \in 1 .. MaxMsgs + 1
  <2>1. S \in SUBSET (1 .. k)
    BY <1>1 DEF PageInv, ChatInv, SentIsStored
  <2>2. Latest(S) \in 1 .. k
    BY <1>3, <2>1, LatestIsOne
  <2> QED
    BY <1>1, <1>2, <2>2
<1> QED
  BY <1>1, <1>2, <1>3

LEMMA TypeInit ==
    ASSUME MaxMsgs \in Nat, MaxDrops \in Nat, Init
    PROVE  TypeOK
<1>1. PageInv
  BY PageInit
<1>2. chat \in Seq(Msg) /\ stored \subseteq Msg /\ read \subseteq Msg /\ ref \subseteq Msg
  BY <1>1 DEF PageInv, ShownOnce, Init
<1>3. visible \in BOOLEAN /\ link \in {"up", "down"}
  BY DEF Init, LinkInit
<1>4. author \in [Msg -> {"me", "other", "nobody"}] /\ toasts \in [Msg -> Nat]
  BY <1>1 DEF PageInv, ChatInv, ChatTypes
<1>5. /\ post = Idle /\ cursor = 1 /\ wire = {} /\ local = {} /\ notified = {}
      /\ open = FALSE /\ unread = 0 /\ drops = 0
  BY DEF Init
<1>6. 1 \in 1 .. MaxMsgs + 1 /\ 0 \in 0 .. MaxDrops
  OBVIOUS
<1> QED
  BY <1>2, <1>3, <1>4, <1>5, <1>6 DEF TypeOK

\* Every step keeps the types; a poll and a reconnect set the cursor to a time there is.
LEMMA TypeStep ==
    ASSUME MaxMsgs \in Nat, MaxDrops \in Nat, TypeOK, PageInv, [Next]_chatVars
    PROVE  TypeOK'
<1>1. PageInv'
  BY PageStep
<1>2. /\ author' \in [Msg -> {"me", "other", "nobody"}] /\ toasts' \in [Msg -> Nat]
      /\ chat' \in Seq(Msg) /\ open' \in BOOLEAN
      /\ stored' \subseteq Msg /\ wire' \subseteq Msg
  BY <1>1 DEF PageInv, ChatInv, ChatTypes, SentIsStored, Stamped, ShownOnce, OpenIsRead
<1>3. ref' \subseteq Msg /\ read' \subseteq Msg /\ notified' \subseteq Msg /\ local' \subseteq Msg
  <2>1. Shown' \subseteq Msg
    BY <1>1, <1>2 DEF PageInv, ShownIsStored
  <2> QED
    BY <1>1, <2>1 DEF PageInv, KnownIsShown, OwnAreMine
<1>4. unread' \in Nat
  <2>1. CASE Read
    <3>1. unread' \in {unread, unread + 1}
      BY <2>1 DEF Read
    <3> QED
      BY <3>1 DEF TypeOK
  <2>2. CASE ~Read
    <3>1. unread' \in {unread, 0}
      BY <2>2 DEF Next, Write, Receive, Commit, Emit, Connect, Drop, Return, SyncRef, Send,
                  Sent, SendFails, OpenChat, CloseChat, page, chatVars
    <3> QED
      BY <3>1 DEF TypeOK
  <2> QED
    BY <2>1, <2>2
<1>5. post' \in {Idle, Sending} \union Msg
  BY DEF TypeOK, Next, Write, Receive, Commit, Emit, Connect, Drop, Return, Read, SyncRef,
         Send, Sent, SendFails, OpenChat, CloseChat, server, chatVars
<1>6. cursor' \in 1 .. MaxMsgs + 1
  <2>1. CASE Emit
    <3>1. Rows \in SUBSET stored /\ Rows # {} /\ cursor' = Latest(Rows)
      BY <2>1 DEF Emit, Rows
    <3> QED
      BY <3>1, TimesAreTimes
  <2>2. CASE Connect
    <3>1. ref \in SUBSET stored /\ cursor' = IF ref = {} THEN Now ELSE Latest(ref)
      BY <2>2 DEF Connect, Since, PageInv, KnownIsShown, ShownIsStored
    <3> QED
      BY <3>1, TimesAreTimes
  <2>3. CASE ~Emit /\ ~Connect
    <3>1. cursor' \in {cursor, 1}
      BY <2>3 DEF Next, Write, Receive, Commit, Drop, Return, Read, SyncRef, Send, Sent,
                  SendFails, OpenChat, CloseChat, stream, chatVars
    <3> QED
      BY <3>1 DEF TypeOK
  <2> QED
    BY <2>1, <2>2, <2>3
<1>7. visible' \in BOOLEAN /\ link' \in {"up", "down"}
  BY DEF TypeOK, Next, Write, Receive, Commit, Emit, Connect, Drop, Return, Read, SyncRef,
         Send, Sent, SendFails, OpenChat, CloseChat, chatVars, linkVars, LinkUp, LinkBreak,
         Hide, Show
<1>8. drops' \in 0 .. MaxDrops
  <2>1. CASE Drop
    BY <2>1 DEF Drop, TypeOK
  <2>2. CASE ~Drop
    <3>1. drops' = drops
      BY <2>2 DEF Next, Write, Receive, Commit, Emit, Connect, Return, Read, SyncRef, Send,
                  Sent, SendFails, OpenChat, CloseChat, chatVars
    <3> QED
      BY <3>1 DEF TypeOK
  <2> QED
    BY <2>1, <2>2
<1> QED
  BY <1>2, <1>3, <1>4, <1>5, <1>6, <1>7, <1>8 DEF TypeOK

\* Every reachable state of the chat is well typed, and the cursor a time that was or
\* will be stamped.
THEOREM ChatTypeCorrect ==
    ASSUME MaxMsgs \in Nat, MaxDrops \in Nat
    PROVE  Spec => []TypeOK
<1>1. Init => TypeOK
  BY TypeInit
<1>2. TypeOK /\ PageInv /\ [Next]_chatVars => TypeOK'
  BY TypeStep
<1> QED
  BY <1>1, <1>2, PageHolds, PTL DEF Spec
=============================================================================
