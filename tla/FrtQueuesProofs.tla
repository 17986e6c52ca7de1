--------------------------- MODULE FrtQueuesProofs --------------------------
(***************************************************************************)
(* Proofs about FrtQueues.  For any number of tasks, any capacity and any  *)
(* sequence of calls, an accepted item is received once, dropped by a      *)
(* reset or a deletion once, or still in the ring; a call reports what     *)
(* became of it; nobody sleeps for an item or a slot that is there; and    *)
(* the ring buffer with its wrapping indices implements a FIFO queue.      *)
(* The four parts: the ring and its contents, the account of the items,    *)
(* the scheduler's steps seen from the queue, and one lemma per operation. *)
(***************************************************************************)
EXTENDS FrtQueues, FrtSchedProofs, SequenceTheorems

\* The queue_t as its fields are declared, and consistent: the tail follows the
\* items, and every slot in use holds an item.
Rings == [head : 0 .. Cap - 1, tail : 0 .. Cap - 1, count : 0 .. Cap,
          buf : [0 .. Cap - 1 -> {NoItem} \cup Items]]

RingOK(r) ==
    /\ r \in Rings
    /\ r.tail = (r.head + r.count) % Cap
    /\ Contents(r) \in Seq(Items)

-----------------------------------------------------------------------------
\* Where the tail lies: n items behind the head, around the end of the ring.
LEMMA Wrap ==
    ASSUME NEW b \in Nat, b > 0, NEW h \in Nat, h < b, NEW n \in Nat, n <= b
    PROVE  (h + n) % b = IF h + n < b THEN h + n ELSE h + n - b
<1>1. CASE h + n < b
  BY <1>1
<1>2. CASE h + n >= b
  BY <1>2
<1> QED BY <1>1, <1>2

\* Stepping an index back around the ring.
LEMMA StepBack ==
    ASSUME NEW b \in Nat, b > 0, NEW h \in Nat, h < b
    PROVE  (h + b - 1) % b = IF h = 0 THEN b - 1 ELSE h - 1
<1>1. CASE h = 0
  BY <1>1
<1>2. CASE h > 0
  BY <1>2
<1> QED BY <1>1, <1>2

\* The fields of a ring.
LEMMA RingFields ==
    ASSUME NEW r \in Rings
    PROVE  /\ Cap \in Nat /\ Cap > 0
           /\ r.head \in Nat /\ r.head < Cap
           /\ r.tail \in Nat /\ r.tail < Cap
           /\ r.count \in Nat /\ r.count <= Cap
           /\ r.buf \in [0 .. Cap - 1 -> {NoItem} \cup Items]
  BY QueueAssumption DEF Rings

\* The items of a ring, one by one.
Slot(h, k) == IF h + k - 1 < Cap THEN h + k - 1 ELSE h + k - 1 - Cap

\* What Contents() reads from each slot, without the modulo of the indices.
LEMMA ContentsAt ==
    ASSUME NEW r \in Rings
    PROVE  /\ Contents(r) = [k \in 1 .. r.count |-> r.buf[Slot(r.head, k)]]
           /\ \A k \in 1 .. r.count : Slot(r.head, k) \in 0 .. Cap - 1
           /\ Contents(r) \in Seq({NoItem} \cup Items)
           /\ Len(Contents(r)) = r.count
<1>1. /\ Cap \in Nat /\ Cap > 0 /\ r.head \in Nat /\ r.head < Cap
      /\ r.count \in Nat /\ r.count <= Cap
      /\ r.buf \in [0 .. Cap - 1 -> {NoItem} \cup Items]
  BY RingFields
<1>2. ASSUME NEW k \in 1 .. r.count
      PROVE  (r.head + k - 1) % Cap = Slot(r.head, k) /\ Slot(r.head, k) \in 0 .. Cap - 1
  <2> DEFINE h == r.head
             m == k - 1
  <2>1. h \in Nat /\ h < Cap /\ m \in Nat /\ m <= Cap /\ m < Cap /\ k = m + 1
    BY <1>1
  <2> HIDE DEF h, m
  <2>2. (h + m) % Cap = IF h + m < Cap THEN h + m ELSE h + m - Cap
    BY <1>1, <2>1, Wrap
  <2>3. h + k - 1 = h + m
    BY <2>1
  <2>4. (h + k - 1) % Cap = Slot(h, k) /\ Slot(h, k) \in 0 .. Cap - 1
    BY <1>1, <2>1, <2>2, <2>3 DEF Slot
  <2> QED BY <2>4 DEF h
<1>3. Contents(r) = [k \in 1 .. r.count |-> r.buf[Slot(r.head, k)]]
  BY <1>2 DEF Contents
<1>4. Contents(r) \in [1 .. r.count -> {NoItem} \cup Items]
  BY <1>1, <1>2, <1>3
<1>5. Contents(r) \in Seq({NoItem} \cup Items) /\ Len(Contents(r)) = r.count
  BY <1>1, <1>4
<1> QED BY <1>2, <1>3, <1>5

\* Two rings hold the same items when they agree slot by slot.
LEMMA EqualContents ==
    ASSUME NEW r \in Rings, NEW s \in Seq({NoItem} \cup Items), Len(s) = r.count,
           \A k \in 1 .. r.count : r.buf[Slot(r.head, k)] = s[k]
    PROVE  Contents(r) = s
<1>1. /\ Contents(r) \in Seq({NoItem} \cup Items) /\ Len(Contents(r)) = Len(s)
      /\ Contents(r) = [k \in 1 .. r.count |-> r.buf[Slot(r.head, k)]]
  BY ContentsAt
<1>2. \A k \in 1 .. Len(Contents(r)) : Contents(r)[k] = s[k]
  BY <1>1
<1> QED BY <1>1, <1>2, SeqEqual

\* queue_enqueue_locked() at the back of a ring with room appends.
LEMMA EnqueueBack ==
    ASSUME NEW r, RingOK(r), NEW i \in Items, NEW pos \in Positions,
           r.count < Cap, pos # "front"
    PROVE  /\ RingOK(Enqueue(r, i, pos))
           /\ Contents(Enqueue(r, i, pos)) = Append(Contents(r), i)
<1> DEFINE q == Enqueue(r, i, pos)
           C == Contents(r)
<1>1. r \in Rings /\ C \in Seq(Items) /\ r.tail = (r.head + r.count) % Cap
  BY DEF RingOK
<1>2. /\ Cap \in Nat /\ Cap > 0 /\ r.head \in Nat /\ r.head < Cap
      /\ r.tail \in Nat /\ r.tail < Cap /\ r.count \in Nat
      /\ r.buf \in [0 .. Cap - 1 -> {NoItem} \cup Items]
  BY <1>1, RingFields
<1> DEFINE h == r.head
           n == r.count
           t == r.tail
<1>h. /\ h \in Nat /\ n \in Nat /\ t \in Nat /\ Cap \in Nat /\ Cap > 0
      /\ h < Cap /\ n < Cap /\ t < Cap /\ t = (h + n) % Cap
  BY <1>1, <1>2
<1> HIDE DEF h, n, t
<1>3. t = IF h + n < Cap THEN h + n ELSE h + n - Cap
  BY <1>h, Wrap
<1>4. (t + 1) % Cap = IF t + 1 < Cap THEN t + 1 ELSE t + 1 - Cap
  BY <1>h, Wrap
<1>5. q = [r EXCEPT !.buf = [r.buf EXCEPT ![r.tail] = i],
                    !.tail = (r.tail + 1) % Cap, !.count = r.count + 1]
  <2>1. ~(Overwrites(pos) /\ r.count # 0)
    BY <1>2 DEF Overwrites
  <2> QED BY <1>1, <2>1 DEF Enqueue, Rings
<1>6. (r.tail + 1) % Cap \in 0 .. Cap - 1 /\ r.count + 1 \in 0 .. Cap
  BY <1>2, <1>4
<1>7. [r.buf EXCEPT ![r.tail] = i] \in [0 .. Cap - 1 -> {NoItem} \cup Items]
  BY <1>2
<1>8. /\ q \in Rings /\ q.head = r.head /\ q.count = r.count + 1
      /\ q.tail = (r.tail + 1) % Cap
      /\ q.buf = [r.buf EXCEPT ![r.tail] = i]
  BY <1>1, <1>5, <1>6, <1>7 DEF Rings
<1> HIDE DEF q
<1>9. q.tail = (q.head + q.count) % Cap
  <2>1. n + 1 \in Nat /\ n + 1 <= Cap
    BY <1>h
  <2>2. (h + (n + 1)) % Cap = IF h + (n + 1) < Cap THEN h + (n + 1) ELSE h + (n + 1) - Cap
    BY <1>h, <2>1, Wrap
  <2>3. (t + 1) % Cap = (h + (n + 1)) % Cap
    BY <1>h, <1>3, <1>4, <2>2
  <2> QED BY <1>8, <2>3 DEF h, n, t
<1>10. Contents(q) = Append(C, i)
  <2>1. Len(C) = r.count
    BY <1>1, ContentsAt
  <2>2. /\ Append(C, i) \in Seq({NoItem} \cup Items) /\ Len(Append(C, i)) = q.count
        /\ Append(C, i)[r.count + 1] = i
        /\ \A k \in 1 .. r.count : Append(C, i)[k] = C[k]
    BY <1>1, <1>8, <2>1, AppendProperties, SeqMonotonic
  <2>3. ASSUME NEW k \in 1 .. q.count
        PROVE  q.buf[Slot(q.head, k)] = Append(C, i)[k]
    <3>1. Slot(q.head, k) = Slot(h, k)
      BY <1>8 DEF h
    <3>2. CASE k = n + 1
      <4>1. Slot(h, k) = t
        BY <1>h, <1>3, <3>2 DEF Slot
      <4> QED BY <1>2, <1>8, <2>2, <3>1, <3>2, <4>1 DEF n, t
    <3>3. CASE k \in 1 .. n
      <4>1. Slot(h, k) # t /\ Slot(h, k) \in 0 .. Cap - 1
        BY <1>h, <1>3, <3>3 DEF Slot
      <4>2. C[k] = r.buf[Slot(h, k)]
        BY <1>1, <3>3, ContentsAt DEF h, n
      <4>3. Append(C, i)[k] = C[k]
        BY <2>2, <3>3 DEF n
      <4> QED BY <1>2, <1>8, <3>1, <4>1, <4>2, <4>3 DEF t
    <3>4. k = n + 1 \/ k \in 1 .. n
      BY <1>h, <1>8 DEF n
    <3> QED BY <3>2, <3>3, <3>4
  <2> HIDE DEF C
  <2> QED BY <1>8, <2>2, <2>3, EqualContents
<1>11. Append(C, i) \in Seq(Items)
  BY <1>1, AppendProperties
<1> QED BY <1>8, <1>9, <1>10, <1>11 DEF RingOK, q

\* At the front of a ring with room it puts the item before all others.
LEMMA EnqueueFront ==
    ASSUME NEW r, RingOK(r), NEW i \in Items, r.count < Cap
    PROVE  /\ RingOK(Enqueue(r, i, "front"))
           /\ Contents(Enqueue(r, i, "front")) = <<i>> \o Contents(r)
<1> DEFINE q == Enqueue(r, i, "front")
           C == Contents(r)
           h == r.head
           n == r.count
           t == r.tail
           g == (h + Cap - 1) % Cap
           b == [r.buf EXCEPT ![g] = i]
<1>1. r \in Rings /\ C \in Seq(Items) /\ r.tail = (r.head + r.count) % Cap
  BY DEF RingOK
<1>2. r.buf \in [0 .. Cap - 1 -> {NoItem} \cup Items]
  BY <1>1, RingFields
<1>3. /\ h \in Nat /\ n \in Nat /\ t \in Nat /\ Cap \in Nat /\ Cap > 0
      /\ h < Cap /\ n < Cap /\ t < Cap /\ t = (h + n) % Cap
  BY <1>1, RingFields
<1>4. q = [r EXCEPT !.head = g, !.buf = b, !.count = n + 1]
  BY <1>1 DEF Enqueue, Rings, Overwrites
<1> HIDE DEF h, n, t
<1>5. /\ t = IF h + n < Cap THEN h + n ELSE h + n - Cap
      /\ g = IF h = 0 THEN Cap - 1 ELSE h - 1
      /\ n + 1 \in 0 .. Cap
  BY <1>3, Wrap, StepBack
<1> HIDE DEF g
<1>6. g \in Nat /\ g < Cap /\ g \in 0 .. Cap - 1
  BY <1>3, <1>5
<1>7. b \in [0 .. Cap - 1 -> {NoItem} \cup Items]
  BY <1>2
<1>8. b[g] = i /\ \A k \in 0 .. Cap - 1 : k # g => b[k] = r.buf[k]
  BY <1>2, <1>6
<1> HIDE DEF b
<1>9. /\ q \in Rings /\ q.head = g /\ q.count = n + 1 /\ q.tail = t /\ q.buf = b
  BY <1>1, <1>4, <1>5, <1>6, <1>7 DEF Rings, t
<1> HIDE DEF q
<1>10. q.tail = (q.head + q.count) % Cap
  <2>1. n + 1 \in Nat /\ n + 1 <= Cap
    BY <1>3
  <2>2. (g + (n + 1)) % Cap = IF g + (n + 1) < Cap THEN g + (n + 1) ELSE g + (n + 1) - Cap
    BY <1>3, <1>6, <2>1, Wrap
  <2>3. t = (g + (n + 1)) % Cap
    BY <1>3, <1>5, <2>2
  <2> QED BY <1>9, <2>3
<1> DEFINE D == <<i>> \o C
<1>11. /\ D \in Seq(Items) /\ Len(D) = n + 1 /\ D[1] = i
       /\ \A k \in 2 .. n + 1 : D[k] = C[k - 1]
  <2>1. Len(C) = n /\ <<i>> \in Seq(Items) /\ Len(<<i>>) = 1 /\ <<i>>[1] = i
    BY <1>1, ContentsAt DEF n
  <2> HIDE DEF C
  <2>2. /\ D \in Seq(Items) /\ Len(D) = 1 + n
        /\ \A k \in 1 .. 1 + n : D[k] = IF k <= 1 THEN <<i>>[k] ELSE C[k - 1]
    BY <1>1, <2>1, ConcatProperties
  <2> QED BY <1>3, <2>1, <2>2
<1>12. Contents(q) = D
  <2>1. D \in Seq({NoItem} \cup Items) /\ Len(D) = q.count
    BY <1>9, <1>11, SeqMonotonic
  <2>2. ASSUME NEW k \in 1 .. q.count
        PROVE  q.buf[Slot(q.head, k)] = D[k]
    <3>1. CASE k = 1
      <4>1. Slot(g, 1) = g
        BY <1>3, <1>6 DEF Slot
      <4> QED BY <1>8, <1>9, <1>11, <3>1, <4>1
    <3>2. CASE k \in 2 .. n + 1
      <4>1. k - 1 \in 1 .. n
        BY <1>3, <3>2
      <4>2. /\ Slot(g, k) = Slot(h, k - 1) /\ Slot(g, k) # g
            /\ Slot(g, k) \in 0 .. Cap - 1
        BY <1>3, <1>5, <1>6, <3>2 DEF Slot
      <4>3. C[k - 1] = r.buf[Slot(h, k - 1)]
        BY <1>1, <4>1, ContentsAt DEF h, n
      <4> HIDE DEF C, D
      <4> QED BY <1>8, <1>9, <1>11, <3>2, <4>2, <4>3
    <3>3. k = 1 \/ k \in 2 .. n + 1
      BY <1>3, <1>9
    <3> QED BY <3>1, <3>2, <3>3
  <2> HIDE DEF D
  <2> QED BY <1>9, <2>1, <2>2, EqualContents
<1> QED BY <1>9, <1>10, <1>11, <1>12 DEF RingOK, q

\* Taking the head leaves the rest.
LEMMA DequeueHead ==
    ASSUME NEW r, RingOK(r), r.count > 0
    PROVE  /\ RingOK(Dequeue(r))
           /\ Contents(r) # <<>>
           /\ HeadItem(r) = Head(Contents(r))
           /\ Contents(Dequeue(r)) = Tail(Contents(r))
           /\ Dequeue(r).count = r.count - 1
<1> DEFINE q == Dequeue(r)
           C == Contents(r)
           h == r.head
           n == r.count
           t == r.tail
           g == (h + 1) % Cap
<1>1. r \in Rings /\ C \in Seq(Items) /\ r.tail = (r.head + r.count) % Cap
  BY DEF RingOK
<1>2. r.buf \in [0 .. Cap - 1 -> {NoItem} \cup Items]
  BY <1>1, RingFields
<1>3. /\ h \in Nat /\ n \in Nat /\ t \in Nat /\ Cap \in Nat /\ Cap > 0
      /\ h < Cap /\ 0 < n /\ n <= Cap /\ t < Cap /\ t = (h + n) % Cap
  BY <1>1, RingFields
<1>4. q = [r EXCEPT !.head = g, !.count = n - 1]
  BY <1>1 DEF Dequeue, Rings
<1>5. C = [k \in 1 .. n |-> r.buf[Slot(h, k)]] /\ Len(C) = n
  BY <1>1, ContentsAt
<1>6. HeadItem(r) = r.buf[h]
  BY DEF HeadItem
<1> HIDE DEF h, n, t
<1>7. /\ t = IF h + n < Cap THEN h + n ELSE h + n - Cap
      /\ g = IF h + 1 < Cap THEN h + 1 ELSE h + 1 - Cap
      /\ n - 1 \in 0 .. Cap
  BY <1>3, Wrap
<1> HIDE DEF g
<1>8. g \in Nat /\ g < Cap /\ g \in 0 .. Cap - 1
  BY <1>3, <1>7
<1>9. /\ q \in Rings /\ q.head = g /\ q.count = n - 1 /\ q.tail = t /\ q.buf = r.buf
  BY <1>1, <1>4, <1>7, <1>8 DEF Rings, t
<1> HIDE DEF q
<1>10. q.tail = (q.head + q.count) % Cap
  <2>1. n - 1 \in Nat /\ n - 1 <= Cap
    BY <1>3
  <2>2. (g + (n - 1)) % Cap = IF g + (n - 1) < Cap THEN g + (n - 1) ELSE g + (n - 1) - Cap
    BY <1>3, <1>8, <2>1, Wrap
  <2>3. t = (g + (n - 1)) % Cap
    BY <1>3, <1>7, <2>2
  <2> QED BY <1>9, <2>3
<1> HIDE DEF C
<1>11. C # <<>> /\ Head(C) = C[1]
  BY <1>1, <1>3, <1>5
<1>12. /\ Tail(C) \in Seq(Items) /\ Len(Tail(C)) = n - 1
       /\ \A k \in 1 .. n - 1 : Tail(C)[k] = C[k + 1]
  BY <1>1, <1>3, <1>5, <1>11, HeadTailProperties
<1>13. HeadItem(r) = Head(C)
  <2>1. Slot(h, 1) = h
    BY <1>3 DEF Slot
  <2>2. C[1] = r.buf[Slot(h, 1)]
    BY <1>3, <1>5
  <2> QED BY <1>6, <1>11, <2>1, <2>2
<1>14. Contents(q) = Tail(C)
  <2>1. Tail(C) \in Seq({NoItem} \cup Items) /\ Len(Tail(C)) = q.count
    BY <1>9, <1>12, SeqMonotonic
  <2>2. ASSUME NEW k \in 1 .. q.count
        PROVE  q.buf[Slot(q.head, k)] = Tail(C)[k]
    <3>1. k \in 1 .. n - 1 /\ k + 1 \in 1 .. n
      BY <1>3, <1>9
    <3>2. Slot(g, k) = Slot(h, k + 1)
      BY <1>3, <1>7, <1>8, <3>1 DEF Slot
    <3>3. C[k + 1] = r.buf[Slot(h, k + 1)]
      BY <1>5, <3>1
    <3> QED BY <1>9, <1>12, <3>1, <3>2, <3>3
  <2> QED BY <1>9, <2>1, <2>2, EqualContents
<1> QED BY <1>9, <1>10, <1>11, <1>12, <1>13, <1>14 DEF RingOK, q, C, n

\* xQueueOverwrite on a full mailbox replaces its one item.
LEMMA OverwriteOnly ==
    ASSUME NEW r, RingOK(r), NEW i \in Items, Cap = 1, r.count = 1
    PROVE  /\ RingOK(Enqueue(r, i, "overwrite"))
           /\ Contents(Enqueue(r, i, "overwrite")) = <<i>>
           /\ Contents(r) = <<HeadItem(r)>>
           /\ Enqueue(r, i, "overwrite").count = 1
<1> DEFINE q == Enqueue(r, i, "overwrite")
<1>1. r \in Rings /\ r.tail = (r.head + r.count) % Cap
  BY DEF RingOK
<1>2. r.head = 0 /\ r.buf \in [0 .. Cap - 1 -> {NoItem} \cup Items]
  BY <1>1, RingFields
<1>3. q = [r EXCEPT !.buf = [r.buf EXCEPT ![r.head] = i]]
  BY <1>1 DEF Enqueue, Overwrites, Rings
<1>4. q \in Rings /\ q.head = 0 /\ q.count = 1 /\ q.tail = r.tail /\ q.buf[0] = i
  BY <1>1, <1>2, <1>3 DEF Rings
<1> HIDE DEF q
<1>5. \A s \in Rings : s.head = 0 /\ s.count = 1 => Contents(s) = <<s.buf[0]>>
  <2> SUFFICES ASSUME NEW s \in Rings, s.head = 0, s.count = 1
               PROVE  Contents(s) = <<s.buf[0]>>
    OBVIOUS
  <2>1. s.buf[0] \in {NoItem} \cup Items
    BY RingFields
  <2>2. <<s.buf[0]>> \in Seq({NoItem} \cup Items) /\ Len(<<s.buf[0]>>) = s.count
    BY <2>1
  <2>3. \A k \in 1 .. s.count : s.buf[Slot(s.head, k)] = <<s.buf[0]>>[k]
    BY DEF Slot
  <2> QED BY <2>2, <2>3, EqualContents
<1>6. Contents(q) = <<i>> /\ <<i>> \in Seq(Items)
  BY <1>4, <1>5
<1>7. Contents(r) = <<HeadItem(r)>>
  BY <1>1, <1>2, <1>5 DEF HeadItem
<1> QED BY <1>1, <1>2, <1>4, <1>6, <1>7 DEF RingOK, q

\* A ring without items.
LEMMA EmptyContents ==
    ASSUME NEW r \in Rings, r.count = 0, r.tail = r.head
    PROVE  RingOK(r) /\ Contents(r) = <<>>
<1>1. Contents(r) = <<>>
  BY EmptySeq DEF Contents
<1>2. (r.head + r.count) % Cap = r.head
  BY RingFields
<1> QED BY <1>1, <1>2, EmptySeq DEF RingOK

-----------------------------------------------------------------------------
\* The account of ExactlyOnce, over the sequences themselves.
Once(T, C, D, A) ==
    /\ IsInjective(T \o C)
    /\ Range(T \o C) \cup D = A
    /\ Range(T \o C) \cap D = {}

\* The same account without the concatenation.
Apart(T, C, D, A) ==
    /\ \A a, b \in 1 .. Len(T) : T[a] = T[b] => a = b
    /\ \A a, b \in 1 .. Len(C) : C[a] = C[b] => a = b
    /\ \A a \in 1 .. Len(T), b \in 1 .. Len(C) : T[a] # C[b]
    /\ \A x : x \in A <=> \/ x \in D
                          \/ \E a \in 1 .. Len(T) : T[a] = x
                          \/ \E b \in 1 .. Len(C) : C[b] = x
    /\ \A a \in 1 .. Len(T) : T[a] \notin D
    /\ \A b \in 1 .. Len(C) : C[b] \notin D

\* The bag equation of ExactlyOnce, item by item: no item stands in two places.
LEMMA OnceIsApart ==
    ASSUME NEW T \in Seq(Items), NEW C \in Seq(Items), NEW D, NEW A
    PROVE  Once(T, C, D, A) <=> Apart(T, C, D, A)
<1> DEFINE U == T \o C
           m == Len(T)
           n == Len(C)
<1>1. /\ m \in Nat /\ n \in Nat /\ U \in Seq(Items) /\ Len(U) = m + n
      /\ DOMAIN U = 1 .. m + n
      /\ \A k \in 1 .. m + n : U[k] = IF k <= m THEN T[k] ELSE C[k - m]
  BY ConcatProperties, LenProperties
<1> HIDE DEF U, m, n
<1>2. /\ \A k \in 1 .. m : k \in 1 .. m + n /\ U[k] = T[k]
      /\ \A k \in 1 .. n : m + k \in 1 .. m + n /\ U[m + k] = C[k]
      /\ \A k \in 1 .. m + n : \/ k \in 1 .. m /\ U[k] = T[k]
                               \/ k - m \in 1 .. n /\ U[k] = C[k - m] /\ k = m + (k - m)
  BY <1>1
<1>3. \A x : x \in Range(U) <=> \/ \E a \in 1 .. m : T[a] = x
                                \/ \E b \in 1 .. n : C[b] = x
  <2>1. \A x : x \in Range(U) <=> \E k \in 1 .. m + n : U[k] = x
    BY <1>1 DEF Range
  <2> SUFFICES ASSUME NEW x
               PROVE  (\E k \in 1 .. m + n : U[k] = x) <=>
                         (\/ \E a \in 1 .. m : T[a] = x
                          \/ \E b \in 1 .. n : C[b] = x)
    BY <2>1
  <2>2. ASSUME NEW k \in 1 .. m + n, U[k] = x
        PROVE  (\E a \in 1 .. m : T[a] = x) \/ (\E b \in 1 .. n : C[b] = x)
    BY <1>2, <2>2
  <2>3. ASSUME NEW a \in 1 .. m, T[a] = x
        PROVE  \E k \in 1 .. m + n : U[k] = x
    BY <1>2, <2>3
  <2>4. ASSUME NEW b \in 1 .. n, C[b] = x
        PROVE  \E k \in 1 .. m + n : U[k] = x
    BY <1>2, <2>4
  <2> QED BY <2>2, <2>3, <2>4
<1>4. IsInjective(U) <=> /\ \A a, b \in 1 .. m : T[a] = T[b] => a = b
                         /\ \A a, b \in 1 .. n : C[a] = C[b] => a = b
                         /\ \A a \in 1 .. m, b \in 1 .. n : T[a] # C[b]
  <2>1. ASSUME IsInjective(U)
        PROVE  /\ \A a, b \in 1 .. m : T[a] = T[b] => a = b
               /\ \A a, b \in 1 .. n : C[a] = C[b] => a = b
               /\ \A a \in 1 .. m, b \in 1 .. n : T[a] # C[b]
    <3>1. \A a, b \in 1 .. m + n : U[a] = U[b] => a = b
      BY <1>1, <2>1 DEF IsInjective
    <3>2. \A a, b \in 1 .. m : T[a] = T[b] => a = b
      BY <1>2, <3>1
    <3>3. \A a, b \in 1 .. n : C[a] = C[b] => a = b
      <4> TAKE a, b \in 1 .. n
      <4>1. C[a] = C[b] => m + a = m + b
        BY <1>2, <3>1
      <4> QED BY <1>1, <4>1
    <3>4. ASSUME NEW a \in 1 .. m, NEW b \in 1 .. n
          PROVE  T[a] # C[b]
      <4>1. T[a] = C[b] => a = m + b
        BY <1>2, <3>1
      <4> QED BY <1>1, <4>1
    <3> QED BY <3>2, <3>3, <3>4
  <2>2. ASSUME \A a, b \in 1 .. m : T[a] = T[b] => a = b,
               \A a, b \in 1 .. n : C[a] = C[b] => a = b,
               \A a \in 1 .. m, b \in 1 .. n : T[a] # C[b]
        PROVE  IsInjective(U)
    <3> SUFFICES ASSUME NEW a \in 1 .. m + n, NEW b \in 1 .. m + n, U[a] = U[b]
                 PROVE  a = b
      BY <1>1 DEF IsInjective
    <3>1. CASE a \in 1 .. m /\ b \in 1 .. m
      BY <1>2, <2>2, <3>1
    <3>2. CASE a - m \in 1 .. n /\ b - m \in 1 .. n
      <4>1. U[a] = C[a - m] /\ U[b] = C[b - m]
        BY <1>1, <3>2
      <4>2. a - m = b - m
        BY <2>2, <3>2, <4>1
      <4> QED BY <1>1, <4>2
    <3>3. CASE a \in 1 .. m /\ b - m \in 1 .. n
      BY <1>1, <2>2, <3>3
    <3>4. CASE a - m \in 1 .. n /\ b \in 1 .. m
      BY <1>1, <2>2, <3>4
    <3> QED BY <1>2, <3>1, <3>2, <3>3, <3>4
  <2> QED BY <2>1, <2>2
<1>5. (Range(U) \cup D = A) <=>
        (\A x : x \in A <=> \/ x \in D
                            \/ \E a \in 1 .. m : T[a] = x
                            \/ \E b \in 1 .. n : C[b] = x)
  BY <1>3
<1>6. (Range(U) \cap D = {}) <=> /\ \A a \in 1 .. m : T[a] \notin D
                                 /\ \A b \in 1 .. n : C[b] \notin D
  BY <1>3
<1> QED BY <1>4, <1>5, <1>6 DEF Once, Apart, U, m, n

\* A new item enters at either end.
LEMMA PutOnce ==
    ASSUME NEW T \in Seq(Items), NEW C \in Seq(Items), NEW D, NEW A,
           Once(T, C, D, A), NEW i \in Items, i \notin A
    PROVE  /\ Once(T, Append(C, i), D, A \cup {i})
           /\ Once(T, <<i>> \o C, D, A \cup {i})
<1>1. Apart(T, C, D, A)
  BY OnceIsApart
<1> DEFINE n == Len(C)
           E == Append(C, i)
           F == <<i>> \o C
<1>2. n \in Nat
  OBVIOUS
<1>3. /\ E \in Seq(Items) /\ Len(E) = n + 1 /\ E[n + 1] = i
      /\ \A k \in 1 .. n : E[k] = C[k]
  BY AppendProperties
<1>4. /\ F \in Seq(Items) /\ Len(F) = n + 1 /\ F[1] = i
      /\ \A k \in 1 .. n : F[k + 1] = C[k]
  <2>1. <<i>> \in Seq(Items) /\ Len(<<i>>) = 1 /\ <<i>>[1] = i
    OBVIOUS
  <2>2. /\ F \in Seq(Items) /\ Len(F) = 1 + n
        /\ \A k \in 1 .. 1 + n : F[k] = IF k <= 1 THEN <<i>>[k] ELSE C[k - 1]
    BY <2>1, ConcatProperties
  <2> HIDE DEF F, n
  <2> QED BY <1>2, <2>1, <2>2
<1> HIDE DEF n, E, F
<1>5. /\ \A a \in 1 .. Len(T) : T[a] \in A
      /\ \A b \in 1 .. n : C[b] \in A
      /\ i \notin D
  BY <1>1 DEF Apart, n
<1>6. Apart(T, E, D, A \cup {i})
  <2>1. \A k \in 1 .. n + 1 : k \in 1 .. n \/ k = n + 1
    BY <1>2
  <2>2. \A k \in 1 .. n : k \in 1 .. n + 1
    BY <1>2
  <2>3. n + 1 \in 1 .. n + 1
    BY <1>2
  <2>4. \A a, b \in 1 .. n + 1 : E[a] = E[b] => a = b
    BY <1>1, <1>3, <1>5, <2>1 DEF Apart, n
  <2>5. \A a \in 1 .. Len(T), b \in 1 .. n + 1 : T[a] # E[b]
    BY <1>1, <1>3, <1>5, <2>1 DEF Apart, n
  <2>6. \A x : (\E b \in 1 .. n + 1 : E[b] = x) <=> (x = i \/ \E b \in 1 .. n : C[b] = x)
    BY <1>3, <2>1, <2>2, <2>3
  <2>7. \A b \in 1 .. n + 1 : E[b] \notin D
    BY <1>1, <1>3, <1>5, <2>1 DEF Apart, n
  <2> QED BY <1>1, <1>3, <2>4, <2>5, <2>6, <2>7 DEF Apart, n
<1>7. Apart(T, F, D, A \cup {i})
  <2>1. \A k \in 1 .. n + 1 : k = 1 \/ (k - 1 \in 1 .. n /\ F[k] = C[k - 1])
    <3> TAKE k \in 1 .. n + 1
    <3>1. k = 1 \/ (k - 1 \in 1 .. n /\ k = (k - 1) + 1)
      BY <1>2
    <3> QED BY <1>4, <3>1
  <2>2. \A k \in 1 .. n : k + 1 \in 1 .. n + 1 /\ F[k + 1] = C[k]
    BY <1>2, <1>4
  <2>3. 1 \in 1 .. n + 1
    BY <1>2
  <2>4. ASSUME NEW a \in 1 .. n + 1, NEW b \in 1 .. n + 1, F[a] = F[b]
        PROVE  a = b
    <3>1. a - 1 \in 1 .. n /\ b - 1 \in 1 .. n => a - 1 = b - 1
      BY <1>1, <2>1, <2>4 DEF Apart, n
    <3>2. F[1] = i /\ \A k \in 1 .. n : C[k] # i
      BY <1>4, <1>5
    <3> QED BY <1>2, <2>1, <2>4, <3>1, <3>2
  <2>5. ASSUME NEW a \in 1 .. Len(T), NEW b \in 1 .. n + 1
        PROVE  T[a] # F[b]
    <3>1. T[a] # i /\ \A k \in 1 .. n : T[a] # C[k]
      BY <1>1, <1>5 DEF Apart, n
    <3> QED BY <1>4, <2>1, <3>1
  <2>6. \A x : (\E b \in 1 .. n + 1 : F[b] = x) <=> (x = i \/ \E b \in 1 .. n : C[b] = x)
    BY <1>4, <2>1, <2>2, <2>3
  <2>7. \A b \in 1 .. n + 1 : F[b] \notin D
    BY <1>1, <1>4, <1>5, <2>1 DEF Apart, n
  <2> QED BY <1>1, <1>4, <2>4, <2>5, <2>6, <2>7 DEF Apart, n
<1> QED BY <1>3, <1>4, <1>6, <1>7, OnceIsApart DEF E, F

\* The head of the queue goes to a receiver.
LEMMA MoveOnce ==
    ASSUME NEW T \in Seq(Items), NEW C \in Seq(Items), NEW D, NEW A,
           Once(T, C, D, A), C # <<>>
    PROVE  Once(Append(T, Head(C)), Tail(C), D, A)
<1> DEFINE U == Append(T, Head(C))
           V == Tail(C)
<1>1. Head(C) \in Items /\ V \in Seq(Items)
  OBVIOUS
<1>2. U = T \o <<Head(C)>> /\ <<Head(C)>> \in Seq(Items)
  BY <1>1, AppendIsConcat
<1>3. U \o V = T \o (<<Head(C)>> \o V)
  BY <1>1, <1>2, ConcatAssociative
<1>4. <<Head(C)>> \o V = C
  <2> DEFINE W == <<Head(C)>> \o V
  <2>1. Len(C) \in Nat /\ Len(C) > 0 /\ Len(V) = Len(C) - 1 /\ Head(C) = C[1]
        /\ \A k \in 1 .. Len(V) : V[k] = C[k + 1]
    BY EmptySeq, HeadTailProperties
  <2>2. Len(<<Head(C)>>) = 1 /\ <<Head(C)>>[1] = C[1]
    BY <2>1
  <2>3. /\ W \in Seq(Items) /\ Len(W) = 1 + Len(V)
        /\ \A k \in 1 .. 1 + Len(V) : W[k] = IF k <= 1 THEN <<Head(C)>>[k] ELSE V[k - 1]
    BY <1>1, <1>2, <2>2, ConcatProperties
  <2> HIDE DEF W, V
  <2>4. \A k \in 1 .. Len(C) : W[k] = C[k]
    BY <2>1, <2>2, <2>3
  <2>5. Len(W) = Len(C)
    BY <2>1, <2>3
  <2>6. W = C
    BY <2>3, <2>4, <2>5, SeqEqual
  <2> QED BY <2>6 DEF W
<1> QED BY <1>3, <1>4 DEF Once

\* Everything queued is discarded.
LEMMA DropOnce ==
    ASSUME NEW T \in Seq(Items), NEW C \in Seq(Items), NEW D, NEW A,
           Once(T, C, D, A)
    PROVE  Once(T, <<>>, D \cup Range(C), A)
<1>1. Apart(T, C, D, A)
  BY OnceIsApart
<1>2. <<>> \in Seq(Items) /\ Len(<<>>) = 0 /\ 1 .. 0 = {}
  BY EmptySeq
<1>3. \A x : x \in Range(C) <=> \E b \in 1 .. Len(C) : C[b] = x
  BY LenProperties DEF Range
<1>4. Apart(T, <<>>, D \cup Range(C), A)
  BY <1>1, <1>2, <1>3 DEF Apart
<1> QED BY <1>2, <1>4, OnceIsApart

-----------------------------------------------------------------------------
\* The inductive invariant.  First the scheduler's part: a current application
\* task runs, on one core only (CurrentRuns), and a task that waits on the queue is
\* blocked, or was deleted while it was.
WaitersBlocked ==
    \A i \in AppTasks : "q" \in waits[i] =>
       \/ state[i] \in {"queue", "sleeping"}
       \/ state[i] = "unused" /\ "delete_blocked" \in Guest

\* A task is marked as a sender only while it waits.
SenderWaits == \A i \in Tasks : "sender" \in waits[i] => "q" \in waits[i]

\* The scheduler's part as a whole.
SchedInv ==
    SchedTypeOK /\ Settled /\ CurrentRuns /\ WaitersBlocked /\ SenderWaits

\* Then the queue's: the flags say which call is waiting; every item has its own
\* number; a call reports what happened; and, if the firmware neither blocks in
\* xQueuePeek nor resets or deletes a queue others wait on, nobody waits in vain.
Flags ==
    \A i \in Tasks : "q" \in waits[i] =>
       call[i].op # "none" /\ ("sender" \in waits[i] <=> call[i].op = "send")

\* Items are numbered as they are sent, so two calls never carry the same one.
Numbered ==
    /\ accepted \subseteq 1 .. sent
    /\ \A i \in Tasks : call[i].op = "send" => call[i].item \in 1 .. sent
    /\ \A i, j \in Tasks : i # j /\ call[i].op = "send" /\ call[j].op = "send"
                              => call[i].item # call[j].item

\* What a call reports is what became of its item.
Truthful ==
    \A i \in Tasks :
       /\ call[i].op = "send" => (ret[i] <=> call[i].item \in accepted)
       /\ call[i].op \in {"receive", "peek"} => (ret[i] <=> got[i] # NoItem)
       /\ "q" \in waits[i] => ~ret[i]

\* Nobody is blocked in xQueuePeek unless the firmware does that.
NoPeek == "peek_wait" \notin Guest => \A i \in Tasks : call[i].op # "peek"

\* The firmware avoids the three usages that strand waiters.
Careful == {"peek_wait", "reset_full", "strand"} \cap Guest = {}

\* Nobody waits for what is there.
Served ==
    Careful => /\ ring.count > 0 => Receivers = {}
               /\ alive /\ ring.count < Cap => Senders = {}
               /\ ~alive => Receivers = {} /\ Senders = {}

\* A deleted queue is empty.
GoneEmpty == ~alive => ring.count = 0

\* Every accepted item was taken, is in the ring, or was dropped, and once.
Account == Once(taken, Contents(ring), dropped, accepted)

\* The inductive invariant.
QInv ==
    /\ TypeOK /\ SchedInv /\ RingOK(ring)
    /\ Flags /\ Numbered /\ Truthful /\ NoPeek /\ Served /\ GoneEmpty /\ Account

-----------------------------------------------------------------------------
\* A step of the scheduler adds no wait of task i: it keeps the flags of the queue
\* or clears them.
Eased(i) ==
    \/ /\ "q" \in waits'[i] <=> "q" \in waits[i]
       /\ "sender" \in waits'[i] <=> "sender" \in waits[i]
    \/ "q" \notin waits'[i] /\ "sender" \notin waits'[i]

\* Application tasks have a slot of the task table.
LEMMA AppIsTask == AppTasks \subseteq Tasks /\ MaxTasks \in Nat
  BY SchedAssumption DEF AppTasks, Tasks

\* Whatever the scheduler moves, its invariant holds and no wait begins.
LEMMA MovesStep ==
    ASSUME SchedInv, SchedTypeOK', Settled', CurrentRuns', \A i \in Tasks : Moves(i)
    PROVE  SchedInv' /\ DeletedStep /\ \A i \in Tasks : Eased(i)
<1>1. \A i \in Tasks : Eased(i)
  BY DEF SchedInv, SenderWaits, Moves, Eased
<1>2. SenderWaits'
  BY <1>1 DEF SchedInv, SenderWaits, Eased
<1>3. WaitersBlocked'
  <2> SUFFICES ASSUME NEW i \in AppTasks, "q" \in waits'[i]
               PROVE  \/ state'[i] \in {"queue", "sleeping"}
                      \/ state'[i] = "unused" /\ "delete_blocked" \in Guest
    BY DEF WaitersBlocked
  <2>1. i \in Tasks /\ Moves(i)
    BY AppIsTask
  <2> QED BY <2>1 DEF SchedInv, WaitersBlocked, Moves
<1>4. DeletedStep
  BY AppIsTask DEF DeletedStep, Moves
<1> QED BY <1>1, <1>2, <1>3, <1>4 DEF SchedInv

\* A call blocks on the queue.
LEMMA BlockStep ==
    ASSUME SchedInv, NEW c \in Cores, NEW timeout \in Timeouts,
           NEW flags \in {{"q"}, {"q", "sender"}},
           SchedSwitch(c, WaitFor(c, "queue", flags, timeout, SaveContext(c, Tcbs))),
           UNCHANGED <<scheduler_started, guest_call>>
    PROVE  /\ SchedInv' /\ DeletedStep
           /\ current[c] \in Tasks
           /\ waits'[current[c]] = waits[current[c]] \cup flags
           /\ current[c] \in AppTasks => waits[current[c]] \cap {"q", "sender"} = {}
           /\ \A i \in Tasks : i # current[c] => Eased(i)
<1> DEFINE me == current[c]
<1>1. /\ SchedTypeOK /\ Settled /\ CurrentRuns /\ SenderWaits /\ WaitersBlocked
      /\ "queue" \in States \ {"ready", "running", "sleeping", "unused"}
      /\ flags \in SUBSET WaitKinds
  BY DEF SchedInv, States, WaitKinds
<1>2. /\ SchedTypeOK' /\ Settled' /\ CurrentRuns'
      /\ me \in Tasks
      /\ waits'[me] = waits[me] \cup flags
      /\ me \in AppTasks => state'[me] \in {"queue", "sleeping"}
      /\ \A i \in Tasks : i # me => Moves(i)
  BY <1>1, BlockEffect
<1> HIDE DEF me
<1>3. me \in AppTasks => state[me] = "running" /\ waits[me] \cap {"q", "sender"} = {}
  BY <1>1, <1>2 DEF CurrentRuns, WaitersBlocked, SenderWaits, me
<1>4. \A i \in Tasks : i # me => Eased(i)
  BY <1>1, <1>2 DEF SenderWaits, Moves, Eased
<1>5. SenderWaits'
  <2> SUFFICES ASSUME NEW i \in Tasks, "sender" \in waits'[i]
               PROVE  "q" \in waits'[i]
    BY DEF SenderWaits
  <2>1. CASE i = me
    BY <1>2, <2>1
  <2>2. CASE i # me
    BY <1>1, <1>4, <2>2 DEF SenderWaits, Eased
  <2> QED BY <2>1, <2>2
<1>6. WaitersBlocked'
  <2> SUFFICES ASSUME NEW i \in AppTasks, "q" \in waits'[i]
               PROVE  \/ state'[i] \in {"queue", "sleeping"}
                      \/ state'[i] = "unused" /\ "delete_blocked" \in Guest
    BY DEF WaitersBlocked
  <2>1. CASE i = me
    BY <1>2, <2>1
  <2>2. CASE i # me
    <3>1. Moves(i)
      BY <1>2, <2>2, AppIsTask
    <3> QED BY <1>1, <3>1 DEF WaitersBlocked, Moves
  <2> QED BY <2>1, <2>2
<1>7. DeletedStep
  <2> SUFFICES ASSUME NEW i \in AppTasks, state[i] = "unused"
               PROVE  state'[i] = "unused"
    BY DEF DeletedStep
  <2>1. i # me
    BY <1>3
  <2>2. Moves(i)
    BY <1>2, <2>1, AppIsTask
  <2> QED BY <2>2 DEF Moves
<1> QED BY <1>2, <1>3, <1>4, <1>5, <1>6, <1>7 DEF SchedInv, me

\* The TCB of a task is edited so that it does not wait on the queue any more.
LEMMA EditStep ==
    ASSUME SchedInv, NEW j \in Tasks, NEW st \in States, NEW w \in SUBSET WaitKinds,
           Edited(j, st, w),
           UNCHANGED <<tableVars, current, exec, slice, scheduler_started, guest_call>>,
           running' \in [Cores -> BOOLEAN], halted' \in [Cores -> BOOLEAN],
           st # "running" => \A c \in Cores : current[c] # j,
           "sender" \in w => "q" \in w,
           "q" \in w /\ j \in AppTasks => st = "unused" /\ "delete_blocked" \in Guest
    PROVE  /\ SchedInv'
           /\ state' = [state EXCEPT ![j] = st]
           /\ waits' = [waits EXCEPT ![j] = w]
<1>1. SchedTypeOK /\ Settled /\ CurrentRuns /\ SenderWaits /\ WaitersBlocked
  BY DEF SchedInv
<1>2. /\ SchedTypeOK' /\ Settled' /\ CurrentRuns'
      /\ state' = [state EXCEPT ![j] = st]
      /\ waits' = [waits EXCEPT ![j] = w]
  BY <1>1, EditEffect
<1>3. \A i \in Tasks : /\ state'[i] = IF i = j THEN st ELSE state[i]
                       /\ waits'[i] = IF i = j THEN w ELSE waits[i]
  BY <1>1, <1>2 DEF SchedTypeOK
<1>4. SenderWaits'
  BY <1>1, <1>3 DEF SenderWaits
<1>5. WaitersBlocked'
  BY <1>1, <1>3, AppIsTask DEF WaitersBlocked
<1> QED BY <1>2, <1>4, <1>5 DEF SchedInv

\* The blocked call of task i is completed.
LEMMA ReleaseStep ==
    ASSUME SchedInv, NEW i \in Tasks, NEW flags, Release(i, flags),
           "q" \in waits[i], "q" \in flags, "sender" \in waits[i] => "sender" \in flags
    PROVE  /\ SchedInv'
           /\ waits' = [waits EXCEPT ![i] = waits[i] \ flags]
           /\ ret' = [ret EXCEPT ![i] = TRUE]
           /\ "delete_blocked" \notin Guest => DeletedStep
<1> DEFINE st == ReleasedState(i)
           w  == waits[i] \ flags
<1>1. /\ st \in States
      /\ st # "running" => \A c \in Cores : current[c] # i
  BY DEF ReleasedState, CurrentOn, States
<1>2. /\ state \in [Tasks -> States] /\ waits \in [Tasks -> SUBSET WaitKinds]
      /\ w \in SUBSET WaitKinds /\ "q" \notin w /\ "sender" \notin w
  BY DEF SchedInv, SchedTypeOK
<1>3. Edited(i, st, w)
  BY DEF Release, Edited, Tcbs
<1>4. running' \in [Cores -> BOOLEAN] /\ halted' \in [Cores -> BOOLEAN]
  <2>1. /\ running' = [c \in Cores |-> running[c] \/ current[c] = i]
        /\ halted' = [c \in Cores |-> halted[c] /\ current[c] # i]
    BY DEF Release, Unparked
  <2>2. \A c \in Cores : /\ (running[c] \/ current[c] = i) \in BOOLEAN
                         /\ (halted[c] /\ current[c] # i) \in BOOLEAN
    OBVIOUS
  <2> QED BY <2>1, <2>2
<1>5. UNCHANGED <<tableVars, current, exec, slice, scheduler_started, guest_call>>
  BY DEF Release
<1> HIDE DEF st, w
<1>6. /\ SchedInv' /\ state' = [state EXCEPT ![i] = st] /\ waits' = [waits EXCEPT ![i] = w]
  BY <1>1, <1>2, <1>3, <1>4, <1>5, EditStep
<1>7. "delete_blocked" \notin Guest => DeletedStep
  BY <1>2, <1>6, AppIsTask DEF DeletedStep, SchedInv, WaitersBlocked
<1> QED BY <1>6, <1>7 DEF Release, w

-----------------------------------------------------------------------------
\* What one step of the abstract queue makes of its content.
FifoMove(C, D) ==
    \/ D = C
    \/ \E i \in Items : Len(C) < Cap /\ D \in {Append(C, i), <<i>> \o C}
    \/ C # <<>> /\ D = Tail(C)
    \/ \E i \in Items : C # <<>> /\ D \in {Append(Tail(C), i), <<i>> \o Tail(C)}
    \/ \E i \in Items : Cap = 1 /\ D = <<i>>
    \/ D = <<>>

\* A FifoMove of the contents is a step of the abstract queue.
LEMMA FifoMoves == FifoMove(Contents(ring), Contents(ring')) => FifoStep
<1> SUFFICES ASSUME FifoMove(Contents(ring), Contents(ring'))
             PROVE  FifoStep
  OBVIOUS
<1>1. Contents(ring)' = Contents(ring')
  BY DEF Contents
<1> QED BY <1>1 DEF FifoMove, FifoStep, Fifo!Next, Fifo!Put, Fifo!Take, Fifo!TakePut,
                    Fifo!Overwrite, Fifo!Clear

\* The waiting tasks, in a settled system, are found in the whole table.
LEMMA Waiters ==
    ASSUME Settled
    PROVE  /\ \A i : i \in Receivers <=>
                       i \in Tasks /\ "q" \in waits[i] /\ "sender" \notin waits[i]
           /\ \A i : i \in Senders <=>
                       i \in Tasks /\ "q" \in waits[i] /\ "sender" \in waits[i]
  BY DEF Receivers, Senders, Settled, Tasks

\* The search of the table finds a waiting task when there is one.
LEMMA FirstIsIn ==
    ASSUME NEW S \in SUBSET Tasks, S # {}
    PROVE  First(S) \in S
<1>1. S \in SUBSET Nat
  BY SchedAssumption DEF Tasks
<1>2. \E i \in S : \A j \in S : i <= j
  BY <1>1, LeastNat
<1> QED BY <1>2 DEF First

\* The parts of the invariant that only a change of the flags can disturb.
LEMMA EasedKeeps ==
    ASSUME SchedInv, SchedInv', \A i \in Tasks : Eased(i)
    PROVE  /\ Flags /\ call' = call => Flags'
           /\ Receivers = {} => Receivers' = {}
           /\ Senders = {} => Senders' = {}
           /\ \A i \in Tasks : "q" \in waits'[i] => "q" \in waits[i]
<1>1. Settled /\ Settled' /\ SenderWaits
  BY DEF SchedInv
<1>2. \A i \in Tasks : "q" \in waits'[i] =>
           "q" \in waits[i] /\ ("sender" \in waits'[i] <=> "sender" \in waits[i])
  BY DEF Eased
<1>3. Flags /\ call' = call => Flags'
  BY <1>2 DEF Flags
<1>4. /\ \A i : i \in Receivers' <=>
                  i \in Tasks /\ "q" \in waits'[i] /\ "sender" \notin waits'[i]
      /\ \A i : i \in Senders' <=>
                  i \in Tasks /\ "q" \in waits'[i] /\ "sender" \in waits'[i]
  BY <1>1 DEF Receivers, Senders, Settled, Tasks
<1>5. Receivers' \subseteq Receivers /\ Senders' \subseteq Senders
  BY <1>1, <1>2, <1>4, Waiters
<1> QED BY <1>2, <1>3, <1>5

\* A step that leaves the queue alone and begins no wait.
LEMMA QuietStep ==
    ASSUME QInv, SchedInv', \A i \in Tasks : Eased(i), UNCHANGED queueVars
    PROVE  QInv' /\ FifoMove(Contents(ring), Contents(ring'))
<1>1. /\ alive' = alive /\ ring' = ring /\ call' = call /\ ret' = ret /\ got' = got
      /\ sent' = sent /\ accepted' = accepted /\ taken' = taken /\ dropped' = dropped
  BY DEF queueVars
<1>2. SchedInv
  BY DEF QInv
<1>3. /\ Flags /\ call' = call => Flags'
      /\ Receivers = {} => Receivers' = {}
      /\ Senders = {} => Senders' = {}
      /\ \A i \in Tasks : "q" \in waits'[i] => "q" \in waits[i]
  BY <1>2, EasedKeeps
<1>4. TypeOK'
  BY <1>1 DEF QInv, TypeOK, SchedInv
<1>5. RingOK(ring')
  BY <1>1 DEF QInv
<1>6. Flags' /\ Numbered' /\ NoPeek' /\ GoneEmpty'
  BY <1>1, <1>3 DEF QInv, Numbered, NoPeek, GoneEmpty
<1>7. Truthful'
  BY <1>1, <1>3 DEF QInv, Truthful
<1>8. Served'
  BY <1>1, <1>3 DEF QInv, Served, Careful
<1>9. Account'
  <2>1. Contents(ring)' = Contents(ring)
    BY <1>1 DEF Contents
  <2> QED BY <1>1, <2>1 DEF QInv, Account, Once
<1>10. RingOK(ring)'
  BY <1>5 DEF RingOK, Contents, Rings
<1>11. FifoMove(Contents(ring), Contents(ring'))
  BY <1>1 DEF FifoMove
<1> QED BY <1>4, <1>6, <1>7, <1>8, <1>9, <1>10, <1>11 DEF QInv

\* A stub that neither switches nor touches any task.
LEMMA NoSwitchStep ==
    ASSUME SchedInv, NoSwitch
    PROVE  SchedInv' /\ DeletedStep /\ \A i \in Tasks : Eased(i)
<1>1. SchedInv' /\ DeletedStep /\ waits' = waits
  BY DEF NoSwitch, schedVars, SchedInv, SchedTypeOK, Settled, CurrentRuns, WaitersBlocked,
         SenderWaits, DeletedStep
<1> QED BY <1>1 DEF Eased

\* wake_queue_waiter_locked(): nobody waits and the item stays, or one receiver j is
\* completed with the head item.
LEMMA HandOverStep ==
    ASSUME SchedInv, NEW r, HandOver(r)
    PROVE  /\ SchedInv' /\ \A i \in Tasks : Eased(i)
           /\ "delete_blocked" \notin Guest => DeletedStep
           /\ \/ /\ Receivers = {}
                 /\ ring' = r
                 /\ UNCHANGED <<waits, ret, got, taken>>
              \/ \E j \in Tasks :
                    /\ j \in Receivers
                    /\ "q" \in waits[j] /\ "sender" \notin waits[j]
                    /\ "q" \notin waits'[j]
                    /\ ret' = [ret EXCEPT ![j] = TRUE]
                    /\ got' = [got EXCEPT ![j] = HeadItem(r)]
                    /\ \/ /\ call[j].op = "peek"
                          /\ ring' = r
                          /\ taken' = taken
                       \/ /\ call[j].op # "peek"
                          /\ ring' = Dequeue(r)
                          /\ taken' = Append(taken, HeadItem(r))
<1>1. CASE Receivers = {}
  <2>1. ring' = r /\ NoSwitch /\ UNCHANGED <<ret, got, taken>>
    BY <1>1 DEF HandOver
  <2>2. SchedInv' /\ DeletedStep /\ \A i \in Tasks : Eased(i)
    BY <2>1, NoSwitchStep
  <2> QED BY <1>1, <2>1, <2>2 DEF NoSwitch, schedVars
<1>2. CASE Receivers # {}
  <2> DEFINE j == First(Receivers)
  <2>1. /\ Release(j, {"q"})
        /\ got' = [got EXCEPT ![j] = HeadItem(r)]
        /\ IF call[j].op = "peek"
           THEN ring' = r /\ UNCHANGED taken
           ELSE ring' = Dequeue(r) /\ taken' = Append(taken, HeadItem(r))
    BY <1>2 DEF HandOver
  <2>2. Settled /\ waits \in [Tasks -> SUBSET WaitKinds]
    BY DEF SchedInv, SchedTypeOK
  <2>3. j \in Receivers /\ Receivers \in SUBSET Tasks
    <3>1. Receivers \in SUBSET Tasks
      BY <2>2, Waiters
    <3> QED BY <1>2, <3>1, FirstIsIn
  <2> HIDE DEF j
  <2>4. j \in Tasks /\ "q" \in waits[j] /\ "sender" \notin waits[j]
    BY <2>2, <2>3, Waiters
  <2>5. /\ SchedInv' /\ waits' = [waits EXCEPT ![j] = waits[j] \ {"q"}]
        /\ ret' = [ret EXCEPT ![j] = TRUE]
        /\ "delete_blocked" \notin Guest => DeletedStep
    BY <2>1, <2>4, ReleaseStep
  <2>6. \A i \in Tasks : Eased(i)
    BY <2>2, <2>4, <2>5 DEF Eased
  <2>7. "q" \notin waits'[j]
    BY <2>2, <2>4, <2>5
  <2> QED BY <2>1, <2>3, <2>4, <2>5, <2>6, <2>7
<1> QED BY <1>1, <1>2

\* wake_queue_sender_locked(): nobody waits, or the send of task j is completed.
LEMMA AdmitStep ==
    ASSUME SchedInv, NEW r, AdmitSender(r)
    PROVE  /\ SchedInv' /\ \A i \in Tasks : Eased(i)
           /\ "delete_blocked" \notin Guest => DeletedStep
           /\ \/ /\ Senders = {}
                 /\ ring' = r
                 /\ UNCHANGED <<waits, ret, accepted>>
              \/ \E j \in Tasks :
                    /\ j \in Senders
                    /\ "q" \in waits[j] /\ "sender" \in waits[j]
                    /\ "q" \notin waits'[j]
                    /\ ret' = [ret EXCEPT ![j] = TRUE]
                    /\ ring' = Enqueue(r, call[j].item, call[j].pos)
                    /\ accepted' = accepted \cup {call[j].item}
<1>1. CASE Senders = {}
  <2>1. ring' = r /\ NoSwitch /\ UNCHANGED <<ret, accepted>>
    BY <1>1 DEF AdmitSender
  <2>2. SchedInv' /\ DeletedStep /\ \A i \in Tasks : Eased(i)
    BY <2>1, NoSwitchStep
  <2> QED BY <1>1, <2>1, <2>2 DEF NoSwitch, schedVars
<1>2. CASE Senders # {}
  <2> DEFINE j == First(Senders)
  <2>1. /\ Release(j, {"q", "sender"})
        /\ ring' = Enqueue(r, call[j].item, call[j].pos)
        /\ accepted' = accepted \cup {call[j].item}
    BY <1>2 DEF AdmitSender
  <2>2. Settled /\ waits \in [Tasks -> SUBSET WaitKinds]
    BY DEF SchedInv, SchedTypeOK
  <2>3. j \in Senders /\ Senders \in SUBSET Tasks
    <3>1. Senders \in SUBSET Tasks
      BY <2>2, Waiters
    <3> QED BY <1>2, <3>1, FirstIsIn
  <2> HIDE DEF j
  <2>4. j \in Tasks /\ "q" \in waits[j] /\ "sender" \in waits[j]
    BY <2>2, <2>3, Waiters
  <2>5. /\ SchedInv' /\ waits' = [waits EXCEPT ![j] = waits[j] \ {"q", "sender"}]
        /\ ret' = [ret EXCEPT ![j] = TRUE]
        /\ "delete_blocked" \notin Guest => DeletedStep
    BY <2>1, <2>4, ReleaseStep
  <2>6. \A i \in Tasks : Eased(i)
    BY <2>2, <2>4, <2>5 DEF Eased
  <2>7. "q" \notin waits'[j]
    BY <2>2, <2>4, <2>5
  <2> QED BY <2>1, <2>3, <2>4, <2>5, <2>6, <2>7
<1> QED BY <1>1, <1>2

-----------------------------------------------------------------------------
\* What every step has to show.
Good ==
    /\ QInv'
    /\ FifoMove(Contents(ring), Contents(ring'))
    /\ "delete_blocked" \notin Guest => DeletedStep

\* A new item has a number that no call and no accepted item has.
LEMMA NewNumber ==
    ASSUME TypeOK, Numbered, NEW i, NewItem(i), call' = call,
           accepted' \in {accepted, accepted \cup {i}}
    PROVE  /\ Numbered' /\ i \in Items /\ i \notin accepted
           /\ sent' \in 0 .. MaxItems /\ sent' = i /\ accepted' \subseteq Items
           /\ \A k \in Tasks : call[k].op = "send" =>
                 (call[k].item \in accepted' <=> call[k].item \in accepted)
<1>1. /\ i = sent + 1 /\ i \in 1 .. MaxItems /\ sent' = i
      /\ sent \in 0 .. MaxItems /\ MaxItems \in Nat /\ accepted \subseteq 1 .. MaxItems
  BY QueueAssumption DEF NewItem, TypeOK, Items
<1>2. /\ accepted \subseteq 1 .. sent
      /\ \A k \in Tasks : call[k].op = "send" => call[k].item \in 1 .. sent
      /\ \A k, j \in Tasks : k # j /\ call[k].op = "send" /\ call[j].op = "send"
                                => call[k].item # call[j].item
  BY DEF Numbered
<1>3. i \notin 1 .. sent /\ \A x \in 1 .. sent : x \in 1 .. i /\ x # i
  BY <1>1
<1>4. accepted' \subseteq 1 .. i
  BY <1>1, <1>2, <1>3
<1>5. Numbered'
  BY <1>1, <1>2, <1>3, <1>4 DEF Numbered
<1>6. /\ i \in Items /\ accepted' \subseteq Items /\ sent' \in 0 .. MaxItems
  BY <1>1 DEF Items
<1> QED BY <1>1, <1>2, <1>3, <1>5, <1>6

\* The ring after a send: one more item, or the mailbox overwritten.
LEMMA PutRing ==
    ASSUME NEW r, RingOK(r), NEW i \in Items, NEW pos \in Positions,
           r.count < Cap \/ Overwrites(pos),
           NEW T \in Seq(Items), NEW D, NEW A, Once(T, Contents(r), D, A), i \notin A
    PROVE  LET q == Enqueue(r, i, pos)
               full == Overwrites(pos) /\ r.count # 0
           IN  /\ RingOK(q) /\ q.count > 0 /\ Contents(q) # <<>>
               /\ q.count = IF full THEN Cap ELSE r.count + 1
               /\ Once(T, Contents(q), IF full THEN D \cup {HeadItem(r)} ELSE D, A \cup {i})
               /\ FifoMove(Contents(r), Contents(q))
               /\ FifoMove(Contents(r), Tail(Contents(q)))
<1> DEFINE q == Enqueue(r, i, pos)
           C == Contents(r)
           full == Overwrites(pos) /\ r.count # 0
<1>1. /\ r \in Rings /\ C \in Seq(Items) /\ Len(C) = r.count
      /\ r.count \in Nat /\ r.count <= Cap /\ Cap \in Nat /\ Cap > 0
  BY RingFields, ContentsAt DEF RingOK
<1>2. CASE full
  <2>1. Cap = 1 /\ r.count = 1 /\ pos = "overwrite"
    BY <1>1, <1>2 DEF Overwrites
  <2>2. RingOK(q) /\ Contents(q) = <<i>> /\ C = <<HeadItem(r)>> /\ q.count = 1
    BY <2>1, OverwriteOnly
  <2>3. Range(C) = {HeadItem(r)}
    BY <2>2 DEF Range
  <2>4. Once(T, <<>>, D \cup {HeadItem(r)}, A)
    BY <1>1, <2>3, DropOnce
  <2>5. Append(<<>>, i) = <<i>> /\ <<>> \in Seq(Items)
    OBVIOUS
  <2>6. Once(T, <<i>>, D \cup {HeadItem(r)}, A \cup {i})
    <3> DEFINE E == <<>>
               D2 == D \cup {HeadItem(r)}
    <3>1. E \in Seq(Items) /\ Once(T, E, D2, A)
      BY <2>4, <2>5
    <3> HIDE DEF E, D2
    <3>2. Once(T, Append(E, i), D2, A \cup {i})
      BY <3>1, PutOnce
    <3> QED BY <2>5, <3>2 DEF E, D2
  <2>7. Tail(<<i>>) = <<>> /\ <<i>> # <<>>
    OBVIOUS
  <2>8. FifoMove(C, Contents(q)) /\ FifoMove(C, Tail(Contents(q)))
    BY <2>1, <2>2, <2>7 DEF FifoMove
  <2>9. /\ (IF full THEN D \cup {HeadItem(r)} ELSE D) = D \cup {HeadItem(r)}
        /\ (IF full THEN Cap ELSE r.count + 1) = 1
    BY <1>2, <2>1
  <2>10. q.count > 0 /\ Contents(q) # <<>>
    BY <2>2, <2>7
  <2> HIDE DEF q, full, C
  <2>11. Once(T, Contents(q), IF full THEN D \cup {HeadItem(r)} ELSE D, A \cup {i})
    BY <2>2, <2>6, <2>9
  <2> QED BY <2>2, <2>8, <2>9, <2>10, <2>11 DEF q, full, C
<1>3. CASE ~full
  <2>1. r.count < Cap
    BY <1>1, <1>3 DEF Overwrites
  <2>2. CASE pos # "front"
    <3>1. RingOK(q) /\ Contents(q) = Append(C, i)
      BY <2>1, <2>2, EnqueueBack
    <3>2. Once(T, Append(C, i), D, A \cup {i})
      BY <1>1, PutOnce
    <3>3. /\ Append(C, i) # <<>> /\ Len(Append(C, i)) = r.count + 1
          /\ Tail(Append(C, i)) = IF C = <<>> THEN <<>> ELSE Append(Tail(C), i)
      BY <1>1, AppendProperties, HeadTailAppend
    <3>4. q.count = r.count + 1
      BY <3>1, <3>3, ContentsAt DEF RingOK
    <3>5. FifoMove(C, Append(C, i)) /\ FifoMove(C, Tail(Append(C, i)))
      BY <1>1, <2>1, <3>3 DEF FifoMove
    <3> QED BY <1>1, <1>3, <3>1, <3>2, <3>3, <3>4, <3>5
  <2>3. CASE pos = "front"
    <3> DEFINE F == <<i>> \o C
    <3>1. RingOK(q) /\ Contents(q) = F
      BY <2>1, <2>3, EnqueueFront
    <3>2. Once(T, F, D, A \cup {i})
      BY <1>1, PutOnce
    <3>3. /\ F \in Seq(Items) /\ Len(F) = r.count + 1
          /\ \A k \in 1 .. r.count : F[k + 1] = C[k]
      <4>1. <<i>> \in Seq(Items) /\ Len(<<i>>) = 1
        OBVIOUS
      <4>2. /\ F \in Seq(Items) /\ Len(F) = 1 + r.count
            /\ \A k \in 1 .. 1 + r.count : F[k] = IF k <= 1 THEN <<i>>[k] ELSE C[k - 1]
        BY <1>1, <4>1, ConcatProperties
      <4> DEFINE m == r.count
      <4> HIDE DEF F, C, m
      <4>3. \A k \in 1 .. m : k + 1 \in 1 .. 1 + m /\ ~(k + 1 <= 1) /\ (k + 1) - 1 = k
        BY <1>1 DEF m
      <4>4. \A k \in 1 .. m : F[k + 1] = C[k]
        BY <4>2, <4>3 DEF m
      <4>5. 1 + r.count = r.count + 1
        BY <1>1
      <4>6. Len(F) = r.count + 1
        BY <4>2, <4>5
      <4> QED BY <4>2, <4>4, <4>6 DEF m
    <3>4. F # <<>> /\ Tail(F) = C
      <4> HIDE DEF F, C
      <4>1. F # <<>>
        BY <1>1, <3>3
      <4>2. /\ Tail(F) \in Seq(Items) /\ Len(Tail(F)) = Len(C)
            /\ \A k \in 1 .. Len(Tail(F)) : Tail(F)[k] = F[k + 1]
        BY <1>1, <3>3, <4>1, HeadTailProperties
      <4>3. \A k \in 1 .. Len(Tail(F)) : Tail(F)[k] = C[k]
        BY <1>1, <3>3, <4>2
      <4> QED BY <1>1, <4>1, <4>2, <4>3, SeqEqual
    <3>5. q.count = r.count + 1
      BY <3>1, <3>3, ContentsAt DEF RingOK
    <3>6. FifoMove(C, F) /\ FifoMove(C, Tail(F))
      BY <1>1, <2>1, <3>4 DEF FifoMove
    <3> QED BY <1>1, <1>3, <3>1, <3>2, <3>4, <3>5, <3>6
  <2> QED BY <2>2, <2>3
<1> QED BY <1>2, <1>3

\* stub_queue_send() with room in the queue.
LEMMA SendNowStep ==
    ASSUME QInv, NEW i \in Items, NEW pos \in Positions, SendNow(i, pos)
    PROVE  Good
<1> DEFINE r == Enqueue(ring, i, pos)
           C == Contents(ring)
           full == Overwrites(pos) /\ ring.count # 0
<1>1. /\ alive /\ alive' = alive /\ call' = call /\ NewItem(i)
      /\ accepted' = accepted \cup {i} /\ HandOver(r)
      /\ dropped' = IF full THEN dropped \cup {HeadItem(ring)} ELSE dropped
      /\ ring.count < Cap \/ Overwrites(pos)
  BY DEF SendNow
<1>2. /\ SchedInv /\ TypeOK /\ RingOK(ring) /\ Flags /\ Numbered /\ Truthful /\ NoPeek
      /\ Served /\ Once(taken, C, dropped, accepted)
  BY DEF QInv, Account
<1>3. /\ Numbered' /\ i \notin accepted
      /\ sent' \in 0 .. MaxItems /\ accepted' \subseteq Items
      /\ \A k \in Tasks : call[k].op = "send" =>
            (call[k].item \in accepted' <=> call[k].item \in accepted)
  BY <1>1, <1>2, NewNumber
<1>4. /\ ring \in Rings /\ ring.count \in Nat /\ ring.count <= Cap /\ Cap \in Nat /\ Cap > 0
      /\ taken \in Seq(Items) /\ dropped \subseteq Items /\ accepted \subseteq Items
      /\ ret \in [Tasks -> BOOLEAN] /\ got \in [Tasks -> {NoItem} \cup Items]
      /\ alive \in BOOLEAN /\ call \in [Tasks -> Calls]
  BY <1>2, RingFields DEF TypeOK, RingOK
<1>5. /\ RingOK(r) /\ r.count > 0 /\ Contents(r) # <<>>
      /\ r.count = IF full THEN Cap ELSE ring.count + 1
      /\ Once(taken, Contents(r), dropped', accepted')
      /\ FifoMove(C, Contents(r))
      /\ FifoMove(C, Tail(Contents(r)))
  BY <1>1, <1>2, <1>3, <1>4, PutRing
<1>6. full => Cap = 1 /\ ring.count = 1
  BY <1>4 DEF Overwrites
<1> HIDE DEF r, C, full
<1>7. /\ SchedInv' /\ \A k \in Tasks : Eased(k)
      /\ "delete_blocked" \notin Guest => DeletedStep
      /\ \/ /\ Receivers = {}
            /\ ring' = r
            /\ UNCHANGED <<waits, ret, got, taken>>
         \/ \E j \in Tasks :
               /\ j \in Receivers
               /\ "q" \in waits[j] /\ "sender" \notin waits[j]
               /\ "q" \notin waits'[j]
               /\ ret' = [ret EXCEPT ![j] = TRUE]
               /\ got' = [got EXCEPT ![j] = HeadItem(r)]
               /\ \/ /\ call[j].op = "peek"
                     /\ ring' = r
                     /\ taken' = taken
                  \/ /\ call[j].op # "peek"
                     /\ ring' = Dequeue(r)
                     /\ taken' = Append(taken, HeadItem(r))
  BY <1>1, <1>2, HandOverStep
<1>8. /\ Flags'
      /\ Receivers = {} => Receivers' = {}
      /\ Senders = {} => Senders' = {}
      /\ \A k \in Tasks : "q" \in waits'[k] => "q" \in waits[k]
  BY <1>1, <1>2, <1>7, EasedKeeps
<1>9. NoPeek' /\ GoneEmpty'
  BY <1>1, <1>2 DEF NoPeek, GoneEmpty
<1>10. dropped' \subseteq Items /\ HeadItem(r) \in Items /\ HeadItem(r) # NoItem
       /\ RingOK(Dequeue(r)) /\ Dequeue(r).count = r.count - 1
       /\ Contents(Dequeue(r)) = Tail(Contents(r)) /\ HeadItem(r) = Head(Contents(r))
  <2>1. /\ HeadItem(r) = Head(Contents(r)) /\ RingOK(Dequeue(r))
        /\ Contents(Dequeue(r)) = Tail(Contents(r))
        /\ Dequeue(r).count = r.count - 1
    BY <1>5, DequeueHead
  <2>2. Contents(r) \in Seq(Items) /\ Head(Contents(r)) \in Items
    BY <1>5, HeadTailProperties DEF RingOK
  <2>3. full => HeadItem(ring) \in Items
    <3> SUFFICES ASSUME full PROVE HeadItem(ring) \in Items
      OBVIOUS
    <3>1. ring.count > 0
      BY <1>6
    <3>2. HeadItem(ring) = Head(Contents(ring)) /\ Contents(ring) # <<>>
      BY <1>2, <3>1, DequeueHead
    <3>3. Contents(ring) \in Seq(Items)
      BY <1>2 DEF RingOK
    <3> QED BY <3>2, <3>3, HeadTailProperties
  <2>4. dropped' \subseteq Items
    BY <1>1, <1>4, <2>3
  <2>5. \A x \in Items : x # NoItem
    BY QueueAssumption DEF Items, NoItem
  <2> QED BY <2>1, <2>2, <2>4, <2>5
<1>11. CASE /\ ring' = r /\ taken' = taken /\ Receivers = {}
            /\ UNCHANGED <<waits, ret, got>>
  <2>1. TypeOK' /\ RingOK(ring)'
    BY <1>1, <1>3, <1>4, <1>5, <1>7, <1>10, <1>11
       DEF TypeOK, RingOK, Rings, SchedInv, Contents
  <2>2. Truthful'
    BY <1>1, <1>2, <1>3, <1>11 DEF Truthful
  <2>3. Served'
    BY <1>1, <1>2, <1>4, <1>5, <1>8, <1>11 DEF Served, Careful
  <2>4. Account' /\ FifoMove(C, Contents(ring'))
    BY <1>5, <1>11 DEF Account, Once, Contents
  <2> QED BY <1>3, <1>7, <1>8, <1>9, <2>1, <2>2, <2>3, <2>4 DEF Good, QInv, C
<1>12. ASSUME NEW j \in Tasks, j \in Receivers,
              "q" \in waits[j], "sender" \notin waits[j], "q" \notin waits'[j],
              ret' = [ret EXCEPT ![j] = TRUE], got' = [got EXCEPT ![j] = HeadItem(r)],
              \/ /\ call[j].op = "peek" /\ ring' = r /\ taken' = taken
              \/ /\ call[j].op # "peek" /\ ring' = Dequeue(r)
                 /\ taken' = Append(taken, HeadItem(r))
       PROVE  Good
  <2>1. call[j].op # "send" /\ call[j].op # "none"
    BY <1>2, <1>12 DEF Flags
  <2>2. /\ ret' \in [Tasks -> BOOLEAN] /\ got' \in [Tasks -> {NoItem} \cup Items]
        /\ \A k \in Tasks : ret'[k] = (IF k = j THEN TRUE ELSE ret[k])
        /\ \A k \in Tasks : got'[k] = (IF k = j THEN HeadItem(r) ELSE got[k])
    BY <1>4, <1>10, <1>12
  <2>3. Truthful'
    <3> SUFFICES ASSUME NEW k \in Tasks
                 PROVE  /\ call'[k].op = "send" => (ret'[k] <=> call'[k].item \in accepted')
                        /\ call'[k].op \in {"receive", "peek"} => (ret'[k] <=> got'[k] # NoItem)
                        /\ "q" \in waits'[k] => ~ret'[k]
      BY DEF Truthful
    <3>1. CASE k = j
      BY <1>1, <1>10, <1>12, <2>1, <2>2, <3>1
    <3>2. CASE k # j
      BY <1>1, <1>2, <1>3, <1>8, <2>2, <3>2 DEF Truthful
    <3> QED BY <3>1, <3>2
  <2>4. /\ RingOK(ring') /\ taken' \in Seq(Items)
        /\ Once(taken', Contents(ring'), dropped', accepted')
        /\ FifoMove(C, Contents(ring'))
    <3>1. CASE ring' = r /\ taken' = taken
      BY <1>4, <1>5, <3>1
    <3>2. CASE ring' = Dequeue(r) /\ taken' = Append(taken, HeadItem(r))
      <4>1. Contents(r) \in Seq(Items)
        BY <1>5 DEF RingOK
      <4>2. Once(Append(taken, Head(Contents(r))), Tail(Contents(r)), dropped', accepted')
        BY <1>4, <1>5, <4>1, MoveOnce
      <4> QED BY <1>4, <1>5, <1>10, <3>2, <4>2, AppendProperties
    <3> QED BY <1>12, <3>1, <3>2
  <2>5. TypeOK' /\ RingOK(ring)'
    BY <1>1, <1>3, <1>4, <1>7, <1>10, <2>2, <2>4
       DEF TypeOK, RingOK, Rings, SchedInv, Contents
  <2>6. Account'
    BY <2>4 DEF Account, Once, Contents
  <2>7. Served'
    <3> SUFFICES ASSUME Careful
                 PROVE  /\ ring'.count > 0 => Receivers' = {}
                        /\ alive' /\ ring'.count < Cap => Senders' = {}
                        /\ ~alive' => Receivers' = {} /\ Senders' = {}
      BY DEF Served, Careful
    <3>1. ~(ring.count > 0) /\ (ring.count < Cap => Senders = {})
      BY <1>1, <1>2, <1>12 DEF Served
    <3>2. ring.count = 0 /\ Senders = {} /\ ~full
      BY <1>4, <1>6, <3>1
    <3>3. call[j].op # "peek"
      BY <1>2 DEF NoPeek, Careful
    <3>4. ring'.count = 0
      BY <1>5, <1>10, <1>12, <3>2, <3>3
    <3> QED BY <1>1, <1>8, <3>2, <3>4
  <2> QED BY <1>3, <1>7, <1>8, <1>9, <2>3, <2>4, <2>5, <2>6, <2>7 DEF Good, QInv, C
<1> QED BY <1>7, <1>11, <1>12

\* queue_receive() with an item in the queue.
LEMMA TakeFrontStep ==
    ASSUME QInv, TakeFront
    PROVE  Good
<1> DEFINE C == Contents(ring)
           r == Dequeue(ring)
<1>1. /\ alive /\ ring.count > 0 /\ taken' = Append(taken, HeadItem(ring))
      /\ AdmitSender(r)
      /\ alive' = alive /\ call' = call /\ got' = got /\ sent' = sent /\ dropped' = dropped
  BY DEF TakeFront
<1>2. /\ SchedInv /\ TypeOK /\ RingOK(ring) /\ Flags /\ Numbered /\ Truthful /\ NoPeek
      /\ Served /\ Once(taken, C, dropped, accepted)
  BY DEF QInv, Account
<1>3. /\ ring.count \in Nat /\ ring.count <= Cap /\ Cap \in Nat /\ Cap > 0
      /\ C \in Seq(Items) /\ taken \in Seq(Items) /\ accepted \subseteq Items
      /\ ret \in [Tasks -> BOOLEAN] /\ call \in [Tasks -> Calls] /\ sent \in 0 .. MaxItems
  BY <1>2, RingFields DEF TypeOK, RingOK
<1>4. /\ RingOK(r) /\ C # <<>> /\ HeadItem(ring) = Head(C) /\ Contents(r) = Tail(C)
      /\ r.count = ring.count - 1
  BY <1>1, <1>2, DequeueHead
<1>5. /\ taken' \in Seq(Items)
      /\ Tail(C) \in Seq(Items)
      /\ Once(taken', Tail(C), dropped, accepted)
  BY <1>1, <1>2, <1>3, <1>4, MoveOnce, HeadTailProperties, AppendProperties
<1> HIDE DEF C, r
<1>6. /\ SchedInv' /\ \A k \in Tasks : Eased(k)
      /\ "delete_blocked" \notin Guest => DeletedStep
      /\ \/ /\ Senders = {}
            /\ ring' = r
            /\ UNCHANGED <<waits, ret, accepted>>
         \/ \E j \in Tasks :
               /\ j \in Senders
               /\ "q" \in waits[j] /\ "sender" \in waits[j]
               /\ "q" \notin waits'[j]
               /\ ret' = [ret EXCEPT ![j] = TRUE]
               /\ ring' = Enqueue(r, call[j].item, call[j].pos)
               /\ accepted' = accepted \cup {call[j].item}
  BY <1>1, <1>2, AdmitStep
<1>7. /\ Flags'
      /\ Receivers = {} => Receivers' = {}
      /\ Senders = {} => Senders' = {}
      /\ \A k \in Tasks : "q" \in waits'[k] => "q" \in waits[k]
  BY <1>1, <1>2, <1>6, EasedKeeps
<1>8. NoPeek' /\ GoneEmpty'
  BY <1>1, <1>2 DEF NoPeek, GoneEmpty
<1>9. CASE Senders = {} /\ ring' = r /\ UNCHANGED <<waits, ret, accepted>>
  <2>1. TypeOK' /\ RingOK(ring)'
    BY <1>1, <1>2, <1>4, <1>5, <1>6, <1>9
       DEF TypeOK, RingOK, Rings, SchedInv, Contents
  <2>2. Truthful' /\ Numbered'
    BY <1>1, <1>2, <1>9 DEF Truthful, Numbered
  <2>3. Served'
    BY <1>1, <1>2, <1>3, <1>4, <1>7, <1>9 DEF Served, Careful
  <2>4. Account'
    BY <1>1, <1>4, <1>5, <1>9 DEF Account, Once, Contents
  <2>5. FifoMove(C, Contents(ring'))
    BY <1>4, <1>9 DEF FifoMove
  <2> QED BY <1>6, <1>7, <1>8, <2>1, <2>2, <2>3, <2>4, <2>5 DEF Good, QInv, C
<1>10. ASSUME NEW j \in Tasks, j \in Senders,
              "q" \in waits[j], "sender" \in waits[j], "q" \notin waits'[j],
              ret' = [ret EXCEPT ![j] = TRUE],
              ring' = Enqueue(r, call[j].item, call[j].pos),
              accepted' = accepted \cup {call[j].item}
       PROVE  Good
  <2> DEFINE x == call[j].item
             p == call[j].pos
  <2>1. call[j].op = "send" /\ ~ret[j] /\ x \notin accepted /\ x \in 1 .. sent
    BY <1>2, <1>10 DEF Flags, Truthful, Numbered
  <2>2. x \in Items /\ p \in Positions
    <3>1. p \in Positions
      BY <1>3 DEF Calls
    <3> QED BY <1>3, <2>1, <3>1, QueueAssumption DEF Items
  <2>3. \A k \in Tasks : ret'[k] = (IF k = j THEN TRUE ELSE ret[k])
    BY <1>3, <1>10
  <2>4. ret' \in [Tasks -> BOOLEAN]
    BY <1>3, <1>10
  <2>5. ring' = Enqueue(r, x, p) /\ accepted' = accepted \cup {x}
    BY <1>10
  <2> HIDE DEF x, p
  <2>6. r.count < Cap /\ ~(Overwrites(p) /\ r.count # 0)
    BY <1>1, <1>3, <1>4 DEF Overwrites
  <2>7. /\ RingOK(ring') /\ ring'.count = r.count + 1
        /\ Once(taken', Contents(ring'), dropped, accepted')
    <3> DEFINE q == Enqueue(r, x, p)
               full == Overwrites(p) /\ r.count # 0
    <3>1. Once(taken', Contents(r), dropped, accepted) /\ x \notin accepted
      BY <1>4, <1>5, <2>1 DEF x
    <3>2. /\ RingOK(q) /\ q.count = IF full THEN Cap ELSE r.count + 1
          /\ Once(taken', Contents(q),
                  IF full THEN dropped \cup {HeadItem(r)} ELSE dropped, accepted \cup {x})
      BY <1>4, <1>5, <2>2, <2>6, <3>1, PutRing
    <3>3. ~full
      BY <2>6
    <3> HIDE DEF q, full
    <3> QED BY <2>5, <3>2, <3>3 DEF q
  <2>8. FifoMove(C, Contents(ring'))
    <3>1. CASE p = "front"
      <4>1. Contents(ring') = <<x>> \o Tail(C)
        BY <1>4, <2>2, <2>5, <2>6, <3>1, EnqueueFront
      <4> QED BY <1>4, <2>2, <4>1 DEF FifoMove
    <3>2. CASE p # "front"
      <4>1. Contents(ring') = Append(Tail(C), x)
        BY <1>4, <2>2, <2>5, <2>6, <3>2, EnqueueBack
      <4> QED BY <1>4, <2>2, <4>1 DEF FifoMove
    <3> QED BY <3>1, <3>2
  <2>9. TypeOK' /\ RingOK(ring)'
    BY <1>1, <1>2, <1>5, <1>6, <2>2, <2>4, <2>5, <2>7
       DEF TypeOK, RingOK, Rings, SchedInv, Contents
  <2>10. Numbered'
    BY <1>1, <1>2, <2>1, <2>5 DEF Numbered
  <2>11. Truthful'
    <3> SUFFICES ASSUME NEW k \in Tasks
                 PROVE  /\ call'[k].op = "send" => (ret'[k] <=> call'[k].item \in accepted')
                        /\ call'[k].op \in {"receive", "peek"} => (ret'[k] <=> got'[k] # NoItem)
                        /\ "q" \in waits'[k] => ~ret'[k]
      BY DEF Truthful
    <3>1. CASE k = j
      BY <1>1, <1>10, <2>1, <2>3, <2>5, <3>1 DEF x
    <3>2. CASE k # j
      <4>1. call[k].op = "send" => call[k].item # x
        BY <1>2, <2>1, <3>2 DEF Numbered, x
      <4> QED BY <1>1, <1>2, <1>7, <2>3, <2>5, <3>2, <4>1 DEF Truthful
    <3> QED BY <3>1, <3>2
  <2>12. Served'
    <3> SUFFICES ASSUME Careful
                 PROVE  /\ ring'.count > 0 => Receivers' = {}
                        /\ alive' /\ ring'.count < Cap => Senders' = {}
                        /\ ~alive' => Receivers' = {} /\ Senders' = {}
      BY DEF Served, Careful
    <3>1. Receivers = {} /\ ~(ring.count < Cap)
      BY <1>1, <1>2, <1>10 DEF Served
    <3>2. ring'.count = ring.count
      BY <1>3, <1>4, <2>7
    <3> QED BY <1>1, <1>7, <3>1, <3>2
  <2>13. Account'
    BY <1>1, <2>7 DEF Account, Once, Contents
  <2> QED BY <1>6, <1>7, <1>8, <2>8, <2>9, <2>10, <2>11, <2>12, <2>13 DEF Good, QInv, C
<1> QED BY <1>6, <1>9, <1>10

\* A call blocks: the caller's flags and its record of the call are set, nothing
\* else of the queue changes.
LEMMA WaitsKeep ==
    ASSUME QInv, SchedInv', NEW me \in Tasks, NEW flags, NEW k \in Calls,
           waits'[me] = waits[me] \cup flags,
           \A i \in Tasks : i # me => Eased(i),
           call' = [call EXCEPT ![me] = k], ret' = [ret EXCEPT ![me] = FALSE],
           UNCHANGED <<alive, ring, accepted, taken, dropped>>,
           sent' \in 0 .. MaxItems, sent' >= sent,
           got' \in [Tasks -> {NoItem} \cup Items],
           \A i \in Tasks : i # me => got'[i] = got[i],
           Flags', Served',
           k.op = "send" => k.item \in 1 .. sent' /\ k.item \notin 1 .. sent,
           k.op \in {"receive", "peek"} => got'[me] = NoItem,
           "peek_wait" \notin Guest => k.op # "peek"
    PROVE  QInv' /\ FifoMove(Contents(ring), Contents(ring'))
<1>1. /\ SchedInv /\ TypeOK /\ RingOK(ring) /\ Flags /\ Numbered /\ Truthful /\ NoPeek
      /\ Account
  BY DEF QInv
<1>2. /\ call \in [Tasks -> Calls] /\ ret \in [Tasks -> BOOLEAN] /\ sent \in 0 .. MaxItems
      /\ MaxItems \in Nat
  BY <1>1, QueueAssumption DEF TypeOK
<1>3. /\ \A i \in Tasks : call'[i] = IF i = me THEN k ELSE call[i]
      /\ \A i \in Tasks : ret'[i] = IF i = me THEN FALSE ELSE ret[i]
      /\ call' \in [Tasks -> Calls] /\ ret' \in [Tasks -> BOOLEAN]
  BY <1>2
<1>4. TypeOK'
  BY <1>1, <1>3 DEF TypeOK, SchedInv
<1>5. \A x \in 1 .. sent : x \in 1 .. sent'
  BY <1>2
<1>6. Numbered'
  BY <1>1, <1>3, <1>5 DEF Numbered
<1>7. Truthful'
  <2> SUFFICES ASSUME NEW i \in Tasks
               PROVE  /\ call'[i].op = "send" => (ret'[i] <=> call'[i].item \in accepted')
                      /\ call'[i].op \in {"receive", "peek"} => (ret'[i] <=> got'[i] # NoItem)
                      /\ "q" \in waits'[i] => ~ret'[i]
    BY DEF Truthful
  <2>1. CASE i = me
    <3>1. k.op = "send" => k.item \notin accepted
      BY <1>1 DEF Numbered
    <3> QED BY <1>3, <2>1, <3>1
  <2>2. CASE i # me
    BY <1>1, <1>3, <2>2 DEF Truthful, Eased
  <2> QED BY <2>1, <2>2
<1>8. NoPeek' /\ GoneEmpty'
  BY <1>1, <1>3 DEF QInv, NoPeek, GoneEmpty
<1>9. RingOK(ring)' /\ Account'
  BY <1>1 DEF RingOK, Rings, Contents, Account, Once
<1>10. FifoMove(Contents(ring), Contents(ring'))
  BY DEF FifoMove
<1> QED BY <1>4, <1>6, <1>7, <1>8, <1>9, <1>10 DEF QInv

\* The queue is full: the send waits for room.
LEMMA SendWaitsStep ==
    ASSUME QInv, NEW c \in Cores, NEW i \in Items, NEW pos \in Positions,
           NEW timeout \in Timeouts, SendWaits(c, i, pos, timeout)
    PROVE  Good
<1> DEFINE me == current[c]
           k == [op |-> "send", item |-> i, pos |-> pos]
<1>1. /\ alive /\ ring.count >= Cap /\ NewItem(i)
      /\ call' = [call EXCEPT ![me] = k] /\ ret' = [ret EXCEPT ![me] = FALSE]
      /\ SchedSwitch(c, WaitFor(c, "queue", {"q", "sender"}, timeout, SaveContext(c, Tcbs)))
      /\ UNCHANGED <<scheduler_started, guest_call>>
      /\ UNCHANGED <<alive, ring, accepted, taken, dropped>> /\ got' = got
  BY DEF SendWaits
<1>2. SchedInv /\ TypeOK /\ Flags /\ RingOK(ring) /\ Served
  BY DEF QInv
<1>3. /\ SchedInv' /\ DeletedStep /\ me \in Tasks
      /\ waits'[me] = waits[me] \cup {"q", "sender"}
      /\ \A j \in Tasks : j # me => Eased(j)
  <2>1. {"q", "sender"} \in {{"q"}, {"q", "sender"}}
    OBVIOUS
  <2> QED BY <1>1, <1>2, <2>1, BlockStep
<1>4. k \in Calls /\ k.op = "send" /\ k.item = i
  BY DEF Calls
<1>5. /\ sent' \in 0 .. MaxItems /\ sent' >= sent
      /\ k.item \in 1 .. sent' /\ k.item \notin 1 .. sent
  <2>1. i = sent + 1 /\ i \in 1 .. MaxItems /\ sent' = i
    BY <1>1 DEF NewItem, Items
  <2>2. sent \in 0 .. MaxItems /\ MaxItems \in Nat
    BY <1>2, QueueAssumption DEF TypeOK
  <2> QED BY <1>4, <2>1, <2>2
<1>6. call \in [Tasks -> Calls] /\ got' \in [Tasks -> {NoItem} \cup Items]
  BY <1>1, <1>2 DEF TypeOK
<1> HIDE DEF me, k
<1>7. \A j \in Tasks : call'[j] = IF j = me THEN k ELSE call[j]
  BY <1>1, <1>6
<1>8. Flags'
  <2> SUFFICES ASSUME NEW j \in Tasks, "q" \in waits'[j]
               PROVE  call'[j].op # "none" /\ ("sender" \in waits'[j] <=> call'[j].op = "send")
    BY DEF Flags
  <2>1. CASE j = me
    BY <1>3, <1>4, <1>7, <2>1
  <2>2. CASE j # me
    BY <1>2, <1>3, <1>7, <2>2 DEF Flags, Eased
  <2> QED BY <2>1, <2>2
<1>9. Receivers = {} => Receivers' = {}
  <2>1. Settled /\ Settled'
    BY <1>2, <1>3 DEF SchedInv
  <2>2. \A j \in Receivers' : j \in Tasks /\ "q" \in waits'[j] /\ "sender" \notin waits'[j]
    BY <2>1 DEF Receivers, Settled, Tasks
  <2>3. \A j \in Receivers' : j \in Receivers
    BY <1>3, <2>1, <2>2, Waiters DEF Eased
  <2> QED BY <2>3
<1>10. Served'
  BY <1>1, <1>2, <1>9, RingFields DEF Served, Careful, RingOK
<1>11. QInv' /\ FifoMove(Contents(ring), Contents(ring'))
  BY <1>1, <1>3, <1>4, <1>5, <1>6, <1>8, <1>10, WaitsKeep
<1> QED BY <1>3, <1>11 DEF Good

\* The queue is empty: the receive, or the peek, of an application task waits.
LEMMA ReceiveWaitsStep ==
    ASSUME QInv, NEW c \in Cores, NEW op \in {"receive", "peek"},
           NEW timeout \in Timeouts, ReceiveWaits(c, op, timeout),
           current[c] \in AppTasks, op = "peek" => "peek_wait" \in Guest
    PROVE  Good
<1> DEFINE me == current[c]
           k == [Idle EXCEPT !.op = op]
<1>1. /\ alive /\ ring.count = 0
      /\ call' = [call EXCEPT ![me] = k] /\ ret' = [ret EXCEPT ![me] = FALSE]
      /\ got' = [got EXCEPT ![me] = NoItem]
      /\ SchedSwitch(c, WaitFor(c, "queue", {"q"}, timeout, SaveContext(c, Tcbs)))
      /\ UNCHANGED <<scheduler_started, guest_call>>
      /\ UNCHANGED <<alive, ring, accepted, taken, dropped>> /\ sent' = sent
  BY DEF ReceiveWaits
<1>2. SchedInv /\ TypeOK /\ Flags /\ RingOK(ring) /\ Served
  BY DEF QInv
<1>3. /\ SchedInv' /\ DeletedStep /\ me \in Tasks
      /\ waits'[me] = waits[me] \cup {"q"}
      /\ waits[me] \cap {"q", "sender"} = {}
      /\ \A j \in Tasks : j # me => Eased(j)
  <2>1. {"q"} \in {{"q"}, {"q", "sender"}}
    OBVIOUS
  <2> QED BY <1>1, <1>2, <2>1, BlockStep
<1>4. k \in Calls /\ k.op = op
  BY DEF Calls, Idle, Positions
<1>5. /\ call \in [Tasks -> Calls] /\ got \in [Tasks -> {NoItem} \cup Items]
      /\ sent' \in 0 .. MaxItems /\ sent' >= sent
  BY <1>1, <1>2, QueueAssumption DEF TypeOK
<1> HIDE DEF me, k
<1>6. /\ \A j \in Tasks : call'[j] = IF j = me THEN k ELSE call[j]
      /\ \A j \in Tasks : got'[j] = IF j = me THEN NoItem ELSE got[j]
      /\ got' \in [Tasks -> {NoItem} \cup Items]
  BY <1>1, <1>5
<1>7. Flags'
  <2> SUFFICES ASSUME NEW j \in Tasks, "q" \in waits'[j]
               PROVE  call'[j].op # "none" /\ ("sender" \in waits'[j] <=> call'[j].op = "send")
    BY DEF Flags
  <2>1. CASE j = me
    BY <1>3, <1>4, <1>6, <2>1
  <2>2. CASE j # me
    BY <1>2, <1>3, <1>6, <2>2 DEF Flags, Eased
  <2> QED BY <2>1, <2>2
<1>8. Senders = {} => Senders' = {}
  <2>1. Settled /\ Settled'
    BY <1>2, <1>3 DEF SchedInv
  <2>2. \A j \in Senders' : j \in Tasks /\ "q" \in waits'[j] /\ "sender" \in waits'[j]
    BY <2>1 DEF Senders, Settled, Tasks
  <2>3. \A j \in Senders' : j \in Senders
    BY <1>3, <2>1, <2>2, Waiters DEF Eased
  <2> QED BY <2>3
<1>9. Served'
  BY <1>1, <1>2, <1>8, QueueAssumption DEF Served, Careful
<1>10. QInv' /\ FifoMove(Contents(ring), Contents(ring'))
  BY <1>1, <1>3, <1>4, <1>5, <1>6, <1>7, <1>9, WaitsKeep
<1> QED BY <1>3, <1>10 DEF Good

\* A step without a switch that leaves the calls alone.
LEMMA StillStep ==
    ASSUME QInv, NoSwitch, UNCHANGED <<call, ret, got>>,
           alive' \in BOOLEAN, RingOK(ring'), Numbered', sent' \in 0 .. MaxItems,
           accepted' \subseteq Items, taken' \in Seq(Items), dropped' \subseteq Items,
           \A j \in Tasks : call[j].op = "send" =>
              (call[j].item \in accepted' <=> call[j].item \in accepted),
           Once(taken', Contents(ring'), dropped', accepted'),
           FifoMove(Contents(ring), Contents(ring')),
           ~alive' => ring'.count = 0,
           Careful => /\ ring'.count > 0 => Receivers = {}
                      /\ alive' /\ ring'.count < Cap => Senders = {}
                      /\ ~alive' => Receivers = {} /\ Senders = {}
    PROVE  Good
<1>1. SchedInv /\ TypeOK /\ Flags /\ Truthful /\ NoPeek
  BY DEF QInv
<1>2. SchedInv' /\ DeletedStep /\ \A i \in Tasks : Eased(i)
  BY <1>1, NoSwitchStep
<1>3. /\ Flags'
      /\ Receivers = {} => Receivers' = {}
      /\ Senders = {} => Senders' = {}
      /\ \A j \in Tasks : "q" \in waits'[j] => "q" \in waits[j]
  BY <1>1, <1>2, EasedKeeps
<1>4. TypeOK' /\ RingOK(ring)'
  BY <1>1, <1>2 DEF TypeOK, RingOK, Rings, SchedInv, Contents
<1>5. Truthful' /\ NoPeek' /\ GoneEmpty'
  BY <1>1, <1>3 DEF Truthful, NoPeek, GoneEmpty
<1>6. Served'
  BY <1>3 DEF Served, Careful
<1>7. Account'
  BY DEF Account, Once, Contents
<1> QED BY <1>2, <1>3, <1>4, <1>5, <1>6, <1>7 DEF Good, QInv

\* A send that does not wait on a full queue, or to a handle that is not known.
LEMMA SendRefusedStep ==
    ASSUME QInv, NEW i, NewItem(i), NoSwitch,
           UNCHANGED <<alive, ring, call, ret, got, accepted, taken, dropped>>
    PROVE  Good
<1>1. /\ TypeOK /\ RingOK(ring) /\ Numbered /\ Account /\ GoneEmpty /\ Served
  BY DEF QInv
<1>2. /\ Numbered' /\ sent' \in 0 .. MaxItems
  BY <1>1, NewNumber
<1>3. /\ alive' \in BOOLEAN /\ accepted' \subseteq Items /\ taken' \in Seq(Items)
      /\ dropped' \subseteq Items
  BY <1>1 DEF TypeOK
<1>4. Once(taken', Contents(ring'), dropped', accepted') /\ RingOK(ring')
  BY <1>1 DEF Account
<1>5. FifoMove(Contents(ring), Contents(ring'))
  BY DEF FifoMove
<1>6. ~alive' => ring'.count = 0
  BY <1>1 DEF GoneEmpty
<1> QED BY <1>1, <1>2, <1>3, <1>4, <1>5, <1>6, StillStep DEF Served

\* A device callback sends while the receive is about to wait.
LEMMA PumpedStep ==
    ASSUME QInv, NEW c, NEW i, ReceivePumped(c, i)
    PROVE  Good
<1> DEFINE r == Enqueue(ring, i, "back")
           C == Contents(ring)
<1>1. /\ alive /\ ring.count = 0 /\ Receivers = {} /\ NewItem(i)
      /\ accepted' = accepted \cup {i} /\ ring' = Dequeue(r) /\ taken' = Append(taken, i)
      /\ NoSwitch /\ UNCHANGED <<alive, call, ret, got, dropped>>
  BY DEF ReceivePumped
<1>2. /\ TypeOK /\ RingOK(ring) /\ Numbered /\ Once(taken, C, dropped, accepted) /\ Served
      /\ taken \in Seq(Items) /\ dropped \subseteq Items
  BY DEF QInv, Account, TypeOK
<1>3. /\ Numbered' /\ i \in Items /\ i \notin accepted
      /\ sent' \in 0 .. MaxItems /\ accepted' \subseteq Items
      /\ \A j \in Tasks : call[j].op = "send" =>
            (call[j].item \in accepted' <=> call[j].item \in accepted)
  BY <1>1, <1>2, NewNumber
<1>4. ring.count < Cap /\ "back" \in Positions /\ ~Overwrites("back")
  BY <1>1, QueueAssumption DEF Positions, Overwrites
<1>5. /\ RingOK(r) /\ r.count > 0 /\ Contents(r) # <<>> /\ r.count = ring.count + 1
      /\ Once(taken, Contents(r), dropped, accepted')
      /\ FifoMove(C, Tail(Contents(r)))
  BY <1>1, <1>2, <1>3, <1>4, PutRing
<1>6. Contents(r) = Append(C, i) /\ C = <<>> /\ Contents(r) \in Seq(Items)
  <2>1. Contents(r) = Append(C, i)
    BY <1>2, <1>3, <1>4, EnqueueBack
  <2>2. C = <<>>
    BY <1>1, EmptySeq DEF Contents
  <2> QED BY <1>5, <2>1, <2>2 DEF RingOK
<1> HIDE DEF r, C
<1>7. Head(Contents(r)) = i
  BY <1>6
<1>8. /\ RingOK(ring') /\ Contents(ring') = Tail(Contents(r)) /\ ring'.count = 0
  BY <1>1, <1>5, DequeueHead
<1>9. /\ taken' \in Seq(Items)
      /\ Once(taken', Contents(ring'), dropped', accepted')
      /\ FifoMove(Contents(ring), Contents(ring'))
  <2>1. Once(Append(taken, Head(Contents(r))), Tail(Contents(r)), dropped, accepted')
    BY <1>2, <1>5, <1>6, MoveOnce
  <2> QED BY <1>1, <1>2, <1>3, <1>5, <1>7, <1>8, <2>1, AppendProperties DEF C
<1>10. alive' \in BOOLEAN /\ dropped' \subseteq Items
  BY <1>1, <1>2 DEF TypeOK
<1>11. Careful => /\ ring'.count > 0 => Receivers = {}
                  /\ alive' /\ ring'.count < Cap => Senders = {}
                  /\ ~alive' => Receivers = {} /\ Senders = {}
  BY <1>1, <1>2, <1>4 DEF Served
<1> QED BY <1>1, <1>3, <1>8, <1>9, <1>10, <1>11, StillStep

\* xQueueReset, vQueueDelete and a new queue at the same handle: the ring is empty
\* afterwards and what it held is discarded.
LEMMA ClearStep ==
    ASSUME QInv, NoSwitch, UNCHANGED <<call, ret, got, sent, accepted, taken>>,
           alive' \in BOOLEAN, ring' \in Rings, ring'.count = 0, ring'.tail = ring'.head,
           dropped' = dropped \cup Range(Contents(ring)),
           Careful => /\ alive' => Senders = {}
                      /\ ~alive' => Receivers = {} /\ Senders = {}
    PROVE  Good
<1>1. /\ TypeOK /\ RingOK(ring) /\ Numbered
      /\ Once(taken, Contents(ring), dropped, accepted)
      /\ Contents(ring) \in Seq(Items)
  BY DEF QInv, Account, RingOK
<1>2. RingOK(ring') /\ Contents(ring') = <<>>
  BY EmptyContents
<1>3. /\ taken \in Seq(Items) /\ dropped \subseteq Items /\ accepted \subseteq Items
      /\ sent \in 0 .. MaxItems
  BY <1>1 DEF TypeOK
<1>4. Range(Contents(ring)) \subseteq Items
  BY <1>1, LenProperties DEF Range
<1>5. Once(taken', Contents(ring'), dropped', accepted')
  BY <1>1, <1>2, <1>3, DropOnce
<1>6. FifoMove(Contents(ring), Contents(ring'))
  BY <1>2 DEF FifoMove
<1>7. Numbered'
  BY <1>1 DEF Numbered
<1>8. /\ accepted' \subseteq Items /\ taken' \in Seq(Items) /\ dropped' \subseteq Items
      /\ sent' \in 0 .. MaxItems
  BY <1>3, <1>4
<1> QED BY <1>2, <1>5, <1>6, <1>7, <1>8, StillStep

\* The ring of a queue just created.
LEMMA EmptyRingOK == EmptyRing \in Rings /\ EmptyRing.count = 0 /\ EmptyRing.tail = EmptyRing.head
<1>1. [k \in 0 .. Cap - 1 |-> NoItem] \in [0 .. Cap - 1 -> {NoItem} \cup Items]
  OBVIOUS
<1>2. 0 \in 0 .. Cap - 1 /\ 0 \in 0 .. Cap
  BY QueueAssumption
<1> QED BY <1>1, <1>2 DEF EmptyRing, Rings

\* xQueueReset drops every item and keeps the rest of the invariant.
LEMMA ResetStep == ASSUME QInv, NEW c, XQueueReset(c) PROVE Good
<1>1. /\ alive
      /\ Senders = {} \/ "reset_full" \in Guest
      /\ ring' = [ring EXCEPT !.head = 0, !.tail = 0, !.count = 0]
      /\ dropped' = dropped \cup Range(Contents(ring))
      /\ NoSwitch /\ UNCHANGED <<call, ret, got, sent, accepted, taken>> /\ alive' = alive
  BY DEF XQueueReset
<1>2. ring \in Rings /\ 0 \in 0 .. Cap - 1 /\ 0 \in 0 .. Cap
  BY QueueAssumption DEF QInv, RingOK
<1>3. ring' \in Rings /\ ring'.count = 0 /\ ring'.tail = ring'.head
  BY <1>1, <1>2 DEF Rings
<1>4. Careful => Senders = {}
  BY <1>1 DEF Careful
<1>5. alive' \in BOOLEAN /\ alive'
  BY <1>1 DEF QInv, TypeOK
<1> QED BY <1>1, <1>3, <1>4, <1>5, ClearStep

\* vQueueDelete, after which the handle is unknown.
LEMMA DeleteStep == ASSUME QInv, NEW c, VQueueDelete(c) PROVE Good
<1>1. /\ alive
      /\ Receivers \cup Senders = {} \/ "strand" \in Guest
      /\ ring' = EmptyRing
      /\ dropped' = dropped \cup Range(Contents(ring))
      /\ NoSwitch /\ UNCHANGED <<call, ret, got, sent, accepted, taken>> /\ alive' = FALSE
  BY DEF VQueueDelete
<1>2. Careful => Receivers = {} /\ Senders = {}
  BY <1>1 DEF Careful
<1> QED BY <1>1, <1>2, EmptyRingOK, ClearStep

\* xQueueCreateStatic, which takes the handle again with an empty ring.
LEMMA CreateStep == ASSUME QInv, NEW c, XQueueCreateStatic(c) PROVE Good
<1>1. /\ ~alive /\ ring' = EmptyRing /\ alive' = TRUE
      /\ NoSwitch /\ UNCHANGED <<call, ret, got, sent, accepted, taken>> /\ dropped' = dropped
  BY DEF XQueueCreateStatic
<1>2. Contents(ring) = <<>>
  BY <1>1, EmptySeq DEF QInv, GoneEmpty, Contents
<1>3. dropped' = dropped \cup Range(Contents(ring))
  BY <1>1, <1>2 DEF Range
<1>4. Careful => Senders = {}
  BY <1>1 DEF QInv, Served
<1> QED BY <1>1, <1>3, <1>4, EmptyRingOK, ClearStep

\* vTaskSuspend, vTaskResume and vTaskDelete of another task.
LEMMA TaskOpStep ==
    ASSUME QInv, "suspend_sender" \notin Guest, NEW c \in Cores, NEW j \in AppTasks,
           VTaskSuspend(c, j) \/ VTaskResume(c, j) \/ VTaskDelete(c, j)
    PROVE  Good
<1>1. /\ SchedInv /\ SchedTypeOK /\ Settled /\ j \in Tasks /\ SenderWaits /\ WaitersBlocked
      /\ state \in [Tasks -> States] /\ waits \in [Tasks -> SUBSET WaitKinds]
      /\ running \in [Cores -> BOOLEAN] /\ halted \in [Cores -> BOOLEAN]
  BY AppIsTask DEF QInv, SchedInv, SchedTypeOK
<1>2. ASSUME NEW st \in States \ {"running"}, NEW w \in SUBSET WaitKinds,
             Edited(j, st, w),
             UNCHANGED <<tableVars, coreVars, scheduler_started, guest_call, queueVars>>,
             \A k \in Cores : current[k] # j,
             "sender" \in w => "q" \in w,
             "q" \in w => "q" \in waits[j] /\ ("sender" \in w <=> "sender" \in waits[j]),
             "q" \in w => st = "unused" /\ "delete_blocked" \in Guest,
             state[j] = "unused" => st = "unused"
      PROVE  Good
  <2>1. /\ UNCHANGED <<tableVars, current, exec, slice, scheduler_started, guest_call>>
        /\ running' \in [Cores -> BOOLEAN] /\ halted' \in [Cores -> BOOLEAN]
        /\ UNCHANGED queueVars
    BY <1>1, <1>2 DEF coreVars
  <2>2. /\ SchedInv' /\ state' = [state EXCEPT ![j] = st]
        /\ waits' = [waits EXCEPT ![j] = w]
    BY <1>1, <1>2, <2>1, EditStep
  <2>3. \A i \in Tasks : Eased(i)
    BY <1>1, <1>2, <2>2 DEF Eased
  <2>4. DeletedStep
    BY <1>1, <1>2, <2>2, AppIsTask DEF DeletedStep
  <2>5. QInv' /\ FifoMove(Contents(ring), Contents(ring'))
    BY <2>1, <2>2, <2>3, QuietStep
  <2> QED BY <2>4, <2>5 DEF Good
<1>3. CASE VTaskSuspend(c, j)
  <2> DEFINE w == waits[j] \ {"q", "eg", "notify"}
  <2>1. /\ Edited(j, "suspended", w)
        /\ UNCHANGED <<tableVars, coreVars, scheduler_started, guest_call, queueVars>>
        /\ \A k \in Cores : current[k] # j
        /\ state[j] # "unused" /\ j \notin Senders
    BY <1>3 DEF VTaskSuspend, Other, Edited, Tcbs
  <2>2. "sender" \notin waits[j]
    BY <1>1, <2>1, Waiters DEF SenderWaits
  <2>3. w \in SUBSET WaitKinds /\ "q" \notin w /\ "sender" \notin w
        /\ "suspended" \in States \ {"running"}
    BY <1>1, <2>2 DEF States
  <2> HIDE DEF w
  <2> QED BY <1>2, <2>1, <2>3
<1>4. ASSUME NEW st, Commit([Tcbs EXCEPT !.state[j] = st])
      PROVE  Edited(j, st, waits[j])
  BY <1>1, <1>4, StateEdited DEF SchedInv
<1>5. CASE VTaskResume(c, j)
  <2>1. /\ Commit([Tcbs EXCEPT !.state[j] = "ready"])
        /\ UNCHANGED <<tableVars, coreVars, scheduler_started, guest_call, queueVars>>
        /\ \A k \in Cores : current[k] # j
        /\ state[j] = "suspended"
    BY <1>5 DEF VTaskResume, Other
  <2>2. "q" \notin waits[j] /\ "sender" \notin waits[j]
    BY <1>1, <2>1 DEF SenderWaits, WaitersBlocked
  <2>3. "ready" \in States \ {"running"} /\ waits[j] \in SUBSET WaitKinds
    BY <1>1 DEF States
  <2>4. Edited(j, "ready", waits[j])
    BY <1>4, <2>1, <2>3
  <2> QED BY <1>2, <2>1, <2>2, <2>3, <2>4
<1>6. CASE VTaskDelete(c, j)
  <2>1. /\ Commit([Tcbs EXCEPT !.state[j] = "unused"])
        /\ UNCHANGED <<tableVars, coreVars, scheduler_started, guest_call, queueVars>>
        /\ \A k \in Cores : current[k] # j
        /\ "q" \in waits[j] => "delete_blocked" \in Guest
    BY <1>6 DEF VTaskDelete, Other
  <2>2. "sender" \in waits[j] => "q" \in waits[j]
    BY <1>1 DEF SenderWaits
  <2>3. "unused" \in States \ {"running"} /\ waits[j] \in SUBSET WaitKinds
    BY <1>1 DEF States
  <2>4. Edited(j, "unused", waits[j])
    BY <1>4, <2>1, <2>3
  <2> QED BY <1>2, <2>1, <2>2, <2>3, <2>4
<1> QED BY <1>3, <1>5, <1>6

\* A batch boundary: preemption on one core, or the passing of a tick.
LEMMA BoundaryStep ==
    ASSUME QInv, (\E c \in Cores : CheckPreempt(c)) \/ Tick
    PROVE  Good
<1>1. SchedInv /\ SchedTypeOK /\ Settled /\ CurrentRuns
  BY DEF QInv, SchedInv
<1>2. ASSUME NEW c \in Cores, CheckPreempt(c)
      PROVE  /\ SchedTypeOK' /\ Settled' /\ CurrentRuns' /\ \A i \in Tasks : Moves(i)
             /\ UNCHANGED queueVars
  <2>1. Preempt(c) /\ UNCHANGED <<scheduler_started, guest_call>> /\ UNCHANGED queueVars
    BY <1>2 DEF CheckPreempt
  <2> QED BY <1>1, <2>1, PreemptMoves
<1>3. ASSUME Tick
      PROVE  /\ SchedTypeOK' /\ Settled' /\ CurrentRuns' /\ \A i \in Tasks : Moves(i)
             /\ UNCHANGED queueVars
  <2>1. SchedTick /\ UNCHANGED guest_call /\ UNCHANGED queueVars
    BY <1>3 DEF Tick
  <2> QED BY <1>1, <2>1, TickMoves
<1>4. /\ SchedTypeOK' /\ Settled' /\ CurrentRuns' /\ \A i \in Tasks : Moves(i)
      /\ UNCHANGED queueVars
  BY <1>2, <1>3
<1>5. SchedInv' /\ DeletedStep /\ \A i \in Tasks : Eased(i)
  BY <1>1, <1>4, MovesStep
<1>6. QInv' /\ FifoMove(Contents(ring), Contents(ring'))
  BY <1>4, <1>5, QuietStep
<1> QED BY <1>5, <1>6 DEF Good

-----------------------------------------------------------------------------
\* The invariant holds of a queue nobody has used.
LEMMA QInit == Init => QInv
<1> SUFFICES ASSUME Init PROVE QInv
  OBVIOUS
<1> DEFINE A == [i \in Tasks |-> [prio |-> 1, affinity |-> NoAffinity, is_idle |-> FALSE]]
<1>1. \A i \in Tasks : A[i] \in Attrs
  BY QueueAssumption DEF Attrs, NoAffinity
<1>2. RunningInit(A) /\ MaxTasks >= 2
  BY QueueAssumption DEF Init
<1> HIDE DEF A
<1>3. /\ SchedTypeOK /\ Settled
      /\ \A i \in Tasks : waits[i] = {} /\ state[i] \in {"running", "ready"}
  BY <1>1, <1>2, RunningSettled
<1>4. \A c \in Cores : current[c] \notin AppTasks
  <2>1. current = [c \in Cores |-> MaxTasks - 1 + c]
    BY <1>2 DEF RunningInit
  <2> QED BY <2>1, SchedAssumption DEF Cores, AppTasks
<1>5. SchedInv
  BY <1>3, <1>4, AppIsTask DEF SchedInv, CurrentRuns, WaitersBlocked, SenderWaits
<1>6. /\ alive = TRUE /\ ring = EmptyRing /\ call = [i \in Tasks |-> Idle]
      /\ ret = [i \in Tasks |-> FALSE] /\ got = [i \in Tasks |-> NoItem]
      /\ sent = 0 /\ accepted = {} /\ taken = <<>> /\ dropped = {}
  BY DEF Init
<1>7. RingOK(ring) /\ Contents(ring) = <<>> /\ ring \in Rings /\ ring.count = 0
  BY <1>6, EmptyRingOK, EmptyContents
<1>8. Idle \in Calls /\ Idle.op = "none"
  BY DEF Idle, Calls, Positions
<1>9. TypeOK
  BY <1>3, <1>6, <1>7, <1>8, QueueAssumption DEF TypeOK, Rings
<1>10. Flags /\ Numbered /\ Truthful /\ NoPeek /\ GoneEmpty
  BY <1>3, <1>6, <1>8 DEF Flags, Numbered, Truthful, NoPeek, GoneEmpty
<1>11. Served
  <2>1. Receivers = {} /\ Senders = {}
    BY <1>3, Waiters
  <2> QED BY <2>1 DEF Served
<1>12. Account
  <2>1. Apart(<<>>, <<>>, {}, {}) /\ <<>> \in Seq(Items)
    BY EmptySeq DEF Apart
  <2> QED BY <1>6, <1>7, <2>1, OnceIsApart DEF Account
<1> QED BY <1>5, <1>7, <1>9, <1>10, <1>11, <1>12 DEF QInv

\* Every step keeps the invariant, refines the abstract queue and leaves deleted
\* tasks alone.
LEMMA QNext ==
    ASSUME "suspend_sender" \notin Guest, QInv, [Next]_vars
    PROVE  Good
<1>1. CASE UNCHANGED vars
  <2>1. NoSwitch /\ UNCHANGED queueVars
    BY <1>1 DEF vars, NoSwitch, schedVars, queueVars
  <2>2. SchedInv
    BY DEF QInv
  <2>3. SchedInv' /\ DeletedStep /\ \A i \in Tasks : Eased(i)
    BY <2>1, <2>2, NoSwitchStep
  <2>4. QInv' /\ FifoMove(Contents(ring), Contents(ring'))
    BY <2>1, <2>3, QuietStep
  <2> QED BY <2>3, <2>4 DEF Good
<1>2. ASSUME NEW c \in Cores, NEW i \in Items, NEW pos \in Positions, XQueueSend(c, i, pos)
      PROVE  Good
  <2>1. CASE SendNow(i, pos)
    BY <2>1, SendNowStep
  <2>2. CASE SendFull(i, pos)
    BY <2>2, SendRefusedStep DEF SendFull
  <2>3. ASSUME NEW timeout \in Timeouts, SendWaits(c, i, pos, timeout)
        PROVE  Good
    BY <2>3, SendWaitsStep
  <2> QED BY <1>2, <2>1, <2>2, <2>3 DEF XQueueSend
<1>3. ASSUME NEW c \in Cores, NEW i \in Items, XQueueSendFromISR(c, i)
      PROVE  Good
  <2>1. "back" \in Positions /\ MaxDelay \in Timeouts
    BY SchedAssumption DEF Positions, Timeouts
  <2> QED BY <1>3, <2>1, SendNowStep, SendWaitsStep DEF XQueueSendFromISR
<1>4. ASSUME NEW c \in Cores, NEW i \in Items, SendUnknown(c, i)
      PROVE  Good
  BY <1>4, SendRefusedStep DEF SendUnknown
<1>5. ASSUME NEW c \in Cores, XQueueReceive(c)
      PROVE  Good
  <2>1. current[c] \in AppTasks
    BY <1>5 DEF XQueueReceive, AppCall
  <2>2. ASSUME NEW op \in {"receive", "peek"}, NEW timeout \in Timeouts,
               op = "peek" => "peek_wait" \in Guest, ReceiveWaits(c, op, timeout)
        PROVE  Good
    BY <2>1, <2>2, ReceiveWaitsStep
  <2>3. ASSUME NEW i \in Items, ReceivePumped(c, i)
        PROVE  Good
    BY <2>3, PumpedStep
  <2> QED BY <1>5, <2>2, <2>3, TakeFrontStep DEF XQueueReceive
<1>6. ASSUME NEW c \in Cores, XQueueReceiveFromISR(c)
      PROVE  Good
  BY <1>6, TakeFrontStep DEF XQueueReceiveFromISR
<1>7. ASSUME NEW c \in Cores, XQueueReset(c) \/ VQueueDelete(c) \/ XQueueCreateStatic(c)
      PROVE  Good
  BY <1>7, ResetStep, DeleteStep, CreateStep
<1>8. ASSUME NEW c \in Cores, NEW j \in AppTasks,
             VTaskSuspend(c, j) \/ VTaskResume(c, j) \/ VTaskDelete(c, j)
      PROVE  Good
  BY <1>8, TaskOpStep
<1>9. CASE (\E c \in Cores : CheckPreempt(c)) \/ Tick
  BY <1>9, BoundaryStep
<1> QED BY <1>1, <1>2, <1>3, <1>4, <1>5, <1>6, <1>7, <1>8, <1>9 DEF Next

\* A careful firmware's tasks wait for what is not there.
LEMMA QPrompt == ASSUME QInv, Careful PROVE NoLostWakeup
<1> SUFFICES ASSUME alive
             PROVE  /\ ring.count > 0 => \A i \in AppTasks :
                          call[i].op \in {"receive", "peek"} => "q" \notin waits[i]
                    /\ ring.count < Cap => \A i \in AppTasks :
                          call[i].op = "send" => "q" \notin waits[i]
  BY DEF NoLostWakeup
<1>1. /\ \A i \in Tasks : "q" \in waits[i] =>
            ("sender" \in waits[i] <=> call[i].op = "send")
      /\ ring.count > 0 => Receivers = {}
      /\ ring.count < Cap => Senders = {}
      /\ Settled
  BY DEF QInv, Flags, Served, SchedInv
<1> QED BY <1>1, Waiters, AppIsTask

-----------------------------------------------------------------------------
\* For any capacity, number of tasks, items and time-outs, and whatever else the
\* firmware does, as long as it suspends no task that is blocked in a send
\* (q_is_sender stays behind, see "suspend_sender"), the invariant holds.
THEOREM QueueInvariant == "suspend_sender" \notin Guest => (Spec => []QInv)
<1> SUFFICES ASSUME "suspend_sender" \notin Guest PROVE Spec => []QInv
  OBVIOUS
<1>1. Init => QInv
  BY QInit
<1>2. QInv /\ [Next]_vars => QInv'
  BY QNext DEF Good
<1> QED BY <1>1, <1>2, PTL DEF Spec

\* Every item accepted by stub_queue_send() is queued once, went to one receiver or
\* was discarded on purpose.
THEOREM NothingLostOrTwice == "suspend_sender" \notin Guest => (Spec => []ExactlyOnce)
<1> SUFFICES ASSUME "suspend_sender" \notin Guest PROVE Spec => []ExactlyOnce
  OBVIOUS
<1>1. QInv => ExactlyOnce
  BY DEF QInv, Account, Once, ExactlyOnce
<1> QED BY <1>1, QueueInvariant, PTL

\* A blocked xQueueSend or xQueueReceive reports exactly what happened to its item.
THEOREM CallsTruthful == "suspend_sender" \notin Guest => (Spec => []CallsTellTruth)
<1> SUFFICES ASSUME "suspend_sender" \notin Guest PROVE Spec => []CallsTellTruth
  OBVIOUS
<1>1. QInv => CallsTellTruth
  BY AppIsTask DEF QInv, Truthful, CallsTellTruth
<1> QED BY <1>1, QueueInvariant, PTL

\* Nobody waits for an item while there is one, or for room while there is room,
\* if the firmware also does not block in xQueuePeek, reset a queue senders wait on
\* or delete a queue anybody waits on.
THEOREM WakeupsNotLost ==
    "suspend_sender" \notin Guest /\ Careful => (Spec => []NoLostWakeup)
<1> SUFFICES ASSUME "suspend_sender" \notin Guest, Careful
             PROVE  Spec => []NoLostWakeup
  OBVIOUS
<1>1. QInv => NoLostWakeup
  BY QPrompt
<1> QED BY <1>1, QueueInvariant, PTL

\* The ring, with its wrap-around, its wake paths and its ISR entry points, implements
\* the sequence of at most Cap items that FifoQueue specifies.
THEOREM RingIsFifo == "suspend_sender" \notin Guest => (Spec => IsFifo)
<1> SUFFICES ASSUME "suspend_sender" \notin Guest PROVE Spec => IsFifo
  OBVIOUS
<1>1. Init => Fifo!Init
  <2> SUFFICES ASSUME Init PROVE Contents(ring) = <<>>
    BY DEF Fifo!Init
  <2>1. ring.count = 0
    BY EmptyRingOK DEF Init
  <2> QED BY <2>1, EmptySeq DEF Contents
<1>2. QInv /\ [Next]_vars => [Fifo!Next]_(Contents(ring))
  BY QNext, FifoMoves DEF Good, FifoStep
<1> QED BY <1>1, <1>2, QueueInvariant, PTL DEF Spec, IsFifo, Fifo!Spec
=============================================================================
