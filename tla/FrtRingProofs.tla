---------------------------- MODULE FrtRingProofs ----------------------------
(***************************************************************************)
(* Proofs about FrtRing: for any sizes, capacity and number of receivers,  *)
(* bytes arrive once and in order, a loan stays in place until it is       *)
(* returned and is a whole item of an item buffer; a single receiver does  *)
(* not sleep beside data; and a suspended task stays suspended.            *)
(***************************************************************************)
EXTENDS FrtRing, FrtSchedProofs

-----------------------------------------------------------------------------
\* The bytes numbered from a + 1 to b.
Run(a, b) == [k \in 1 .. (b - a) |-> a + k]

\* The lengths L cut the bytes from a + 1 to b into items, and the bytes of E among
\* them are the ones that end an item.
Cuts(L, a, b, E) ==
    \E p \in [0 .. Len(L) -> 0 .. MaxBytes] :
       /\ p[0] = a /\ p[Len(L)] = b
       /\ \A k \in 1 .. Len(L) : p[k] = p[k - 1] + L[k]
       /\ \A j, k \in 0 .. Len(L) : j < k => p[j] < p[k]
       /\ \A e \in 0 .. MaxBytes :
             a < e => (e \in E <=> \E k \in 1 .. Len(L) : e = p[k])

\* The stored lengths agree with the stored bytes.
Itemized(L, a, b, E) == IF Type = "items" THEN Cuts(L, a, b, E) ELSE L = <<>>

\* The inductive invariant.  Who waits is a receiver, and is blocked unless somebody
\* may suspend it while it waits.
Unusual == "suspend_waiter" \in Guest

WaitersBlocked ==
    \A i \in Tasks : Waiting(i) =>
       i \in Receivers /\ (Unusual \/ state[i] \in {"queue", "sleeping"})

SchedInv == SchedTypeOK /\ Settled /\ CurrentRuns /\ WaitersBlocked

\* What is stored was sent and is not consumed.
InOrder == consumed <= sent /\ data = Run(consumed, sent)

\* There is room for what is reserved.
Reserved ==
    acquired # 0 => /\ Type = "items"
                    /\ acquired + Len(data) <= Capacity
                    /\ Len(item_len) < MaxRingItems

\* What is lent is at the start of what is stored, and a whole item of an item buffer.
Lent ==
    /\ holder \in {None} \cup Receivers
    /\ borrowed # 0 <=> holder # None
    /\ borrowed <= Len(data)
    /\ borrowed # 0 => /\ lent = Run(consumed, consumed + borrowed)
                       /\ Type = "items" => item_len # <<>> /\ borrowed = item_len[1]

\* A single receiver that waits has nothing, and there is nothing for it.
OneReceiver == ~Unusual /\ \A i, j \in Receivers : i = j

Prompt == OneReceiver => \A i \in Tasks : Waiting(i) => data = <<>> /\ borrowed = 0

RInv ==
    /\ TypeOK /\ SchedInv /\ InOrder /\ Reserved /\ Lent /\ Prompt
    /\ Itemized(item_len, consumed, sent, ends)

\* No task begins to wait.
Eased == \A i \in Tasks : Waiting(i)' => Waiting(i)

\* No task leaves its suspension; or, unless somebody suspends tasks that wait, only
\* by being resumed.
Revives(i) == state[i] = "suspended" /\ state'[i] # "suspended"

NoneRevived == \A i \in AppTasks : ~Revives(i)

Obeyed == ~Unusual => \A i \in AppTasks : Revives(i) => \E c \in Cores : VTaskResume(c, i)

\* What is proved of every step.
GoodStep == RInv' /\ Obeyed

-----------------------------------------------------------------------------
\* Application tasks have a slot of the task table.
LEMMA AppIsTask == AppTasks \subseteq Tasks /\ MaxTasks \in Nat
  BY SchedAssumption DEF AppTasks, Tasks

\* What the assumption says of the sizes.
LEMMA Known ==
    ASSUME RingAssumption
    PROVE  /\ Capacity \in Nat /\ MaxRingItems \in Nat /\ MaxBytes \in Nat
           /\ \A n \in Sizes : n \in Nat /\ n > 0
           /\ Receivers \subseteq AppTasks /\ Receivers \subseteq Tasks
           /\ Type \in {"items", "bytes"}
  BY AppIsTask DEF RingAssumption

-----------------------------------------------------------------------------
\* Runs of numbered bytes: their length, and what appending to one and cutting one
\* gives.
LEMMA RunTyped ==
    ASSUME NEW a \in Nat, NEW b \in Nat, a <= b, NEW M \in Nat, b <= M
    PROVE  /\ Run(a, b) \in Seq(1 .. M) /\ Len(Run(a, b)) = b - a
           /\ Run(a, b) = <<>> <=> a = b
<1>1. b - a \in Nat
  OBVIOUS
<1>2. \A k \in 1 .. (b - a) : a + k \in 1 .. M
  OBVIOUS
<1>3. Run(a, b) \in Seq(1 .. M) /\ Len(Run(a, b)) = b - a
  BY <1>1, <1>2 DEF Run
<1>4. Run(a, b) = <<>> <=> a = b
  BY <1>3
<1> QED BY <1>3, <1>4

LEMMA RunMore ==
    ASSUME NEW a \in Nat, NEW b \in Nat, a <= b, NEW n \in Nat
    PROVE  Run(a, b) \o [k \in 1 .. n |-> b + k] = Run(a, b + n)
<1> DEFINE s == Run(a, b)
           t == [k \in 1 .. n |-> b + k]
           u == Run(a, b + n)
<1>1. s \in Seq(Nat) /\ t \in Seq(Nat) /\ u \in Seq(Nat)
      /\ Len(s) = b - a /\ Len(t) = n /\ Len(u) = b - a + n
  <2>1. b - a \in Nat /\ (b + n) - a \in Nat /\ (b + n) - a = (b - a) + n
    OBVIOUS
  <2> QED BY <2>1 DEF Run
<1>2. /\ \A k \in 1 .. Len(s) : s[k] = a + k
      /\ \A k \in 1 .. n : t[k] = b + k
      /\ \A k \in 1 .. Len(u) : u[k] = a + k
  BY <1>1 DEF Run
<1> HIDE DEF s, t, u
<1>3. s \o t \in Seq(Nat) /\ Len(s \o t) = Len(u)
  BY <1>1
<1>4. ASSUME NEW k \in 1 .. Len(u) PROVE (s \o t)[k] = u[k]
  <2>1. CASE k <= Len(s)
    BY <1>1, <1>2, <2>1
  <2>2. CASE k > Len(s)
    BY <1>1, <1>2, <2>2
  <2> QED BY <1>1, <2>1, <2>2
<1>5. s \o t = u
  <2> DEFINE r == s \o t
  <2>1. r \in Seq(Nat) /\ Len(r) = Len(u) /\ Len(u) \in Nat
    BY <1>1, <1>3
  <2> HIDE DEF r
  <2>2. /\ r = [k \in 1 .. Len(u) |-> r[k]]
        /\ u = [k \in 1 .. Len(u) |-> u[k]]
    BY <1>1, <2>1
  <2>3. \A k \in 1 .. Len(u) : r[k] = u[k]
    BY <1>4 DEF r
  <2>4. [k \in 1 .. Len(u) |-> r[k]] = [k \in 1 .. Len(u) |-> u[k]]
    BY <2>3
  <2> QED BY <2>2, <2>4 DEF r
<1> QED BY <1>5 DEF s, t, u

LEMMA RunCut ==
    ASSUME NEW a \in Nat, NEW b \in Nat, a <= b, NEW m \in 0 .. (b - a)
    PROVE  /\ SubSeq(Run(a, b), 1, m) = Run(a, a + m)
           /\ SubSeq(Run(a, b), m + 1, Len(Run(a, b))) = Run(a + m, b)
<1> DEFINE s == Run(a, b)
<1>1. s \in Seq(Nat) /\ Len(s) = b - a /\ \A k \in 1 .. (b - a) : s[k] = a + k
  <2>1. b - a \in Nat
    OBVIOUS
  <2> QED BY <2>1 DEF Run
<1> HIDE DEF s
<1>2. SubSeq(s, 1, m) = [k \in 1 .. m |-> s[k]]
  BY <1>1
<1>3. SubSeq(s, m + 1, Len(s)) = [k \in 1 .. (b - a) - m |-> s[m + k]]
  BY <1>1
<1>4. [k \in 1 .. m |-> s[k]] = [k \in 1 .. m |-> a + k]
  BY <1>1
<1>5. [k \in 1 .. (b - a) - m |-> s[m + k]] = [k \in 1 .. (b - a) - m |-> (a + m) + k]
  BY <1>1
<1>6. (a + m) - a = m /\ b - (a + m) = (b - a) - m
  OBVIOUS
<1> QED BY <1>2, <1>3, <1>4, <1>5, <1>6 DEF s, Run

-----------------------------------------------------------------------------
\* What the cuts of a buffer say of its first item: it is there if bytes are, it is
\* within them, and its last byte and no other one of it ends an item.
LEMMA CutsFirst ==
    ASSUME RingAssumption, NEW L \in Seq(Sizes), NEW a \in 0 .. MaxBytes,
           NEW b \in 0 .. MaxBytes, NEW E, Cuts(L, a, b, E)
    PROVE  /\ a <= b
           /\ L = <<>> <=> a = b
           /\ L # <<>> => /\ L[1] \in Sizes /\ L[1] <= b - a
                          /\ \A k \in 1 .. L[1] : a + k \in E <=> k = L[1]
<1>1. PICK p \in [0 .. Len(L) -> 0 .. MaxBytes] :
         /\ p[0] = a /\ p[Len(L)] = b
         /\ \A k \in 1 .. Len(L) : p[k] = p[k - 1] + L[k]
         /\ \A j, k \in 0 .. Len(L) : j < k => p[j] < p[k]
         /\ \A e \in 0 .. MaxBytes :
               a < e => (e \in E <=> \E k \in 1 .. Len(L) : e = p[k])
  BY DEF Cuts
<1>2. Len(L) \in Nat /\ MaxBytes \in Nat /\ (L = <<>> <=> Len(L) = 0)
  BY Known
<1>3. CASE L = <<>>
  BY <1>1, <1>2, <1>3
<1>4. CASE L # <<>>
  <2>1. 0 < Len(L) /\ 0 \in 0 .. Len(L) /\ Len(L) \in 0 .. Len(L) /\ 1 \in 1 .. Len(L)
        /\ 1 \in 0 .. Len(L)
    BY <1>2, <1>4
  <2>2. a < b
    BY <1>1, <2>1
  <2>3. L[1] \in Sizes /\ L[1] \in Nat /\ L[1] > 0
    BY <2>1, Known
  <2>4. p[1] = a + L[1] /\ p[1] \in 0 .. MaxBytes
    BY <1>1, <2>1
  <2>5. p[1] <= b
    <3>1. CASE Len(L) = 1
      BY <1>1, <2>4, <3>1
    <3>2. CASE Len(L) # 1
      <4>1. 1 < Len(L)
        BY <1>2, <2>1, <3>2
      <4> QED BY <1>1, <2>1, <2>4, <4>1
    <3> QED BY <3>1, <3>2
  <2>6. ASSUME NEW k \in 1 .. L[1] PROVE a + k \in E <=> k = L[1]
    <3>1. a + k \in 0 .. MaxBytes /\ a < a + k
      BY <1>2, <2>3, <2>4
    <3>2. a + k \in E <=> \E m \in 1 .. Len(L) : a + k = p[m]
      BY <1>1, <3>1
    <3>3. k = L[1] => \E m \in 1 .. Len(L) : a + k = p[m]
      BY <2>1, <2>4
    <3>4. ASSUME NEW m \in 1 .. Len(L), a + k = p[m] PROVE k = L[1]
      <4>1. CASE m = 1
        BY <2>3, <2>4, <3>4, <4>1
      <4>2. CASE m # 1
        <5>1. 1 < m /\ m \in 0 .. Len(L)
          BY <1>2, <4>2
        <5>2. p[1] < p[m]
          BY <1>1, <2>1, <5>1
        <5> QED BY <2>3, <2>4, <3>4, <5>2
      <4> QED BY <4>1, <4>2
    <3> QED BY <3>2, <3>3, <3>4
  <2>7. L[1] <= b - a
    BY <2>3, <2>4, <2>5
  <2> QED BY <1>4, <2>2, <2>3, <2>6, <2>7
<1> QED BY <1>3, <1>4

\* An empty buffer, whose consumed bytes include every end.
LEMMA CutsNone ==
    ASSUME RingAssumption, NEW b \in 0 .. MaxBytes, NEW E,
           \A e \in 0 .. MaxBytes : b < e => e \notin E
    PROVE  Cuts(<<>>, b, b, E)
<1> DEFINE p == [k \in 0 .. 0 |-> b]
<1>1. p \in [0 .. Len(<<>>) -> 0 .. MaxBytes] /\ p[0] = b /\ Len(<<>>) = 0
  OBVIOUS
<1> HIDE DEF p
<1> QED BY <1>1 DEF Cuts

\* One item more at the end.
LEMMA CutsMore ==
    ASSUME RingAssumption, NEW L \in Seq(Sizes), NEW a \in 0 .. MaxBytes,
           NEW b \in 0 .. MaxBytes, NEW E, Cuts(L, a, b, E),
           NEW n \in Sizes, b + n <= MaxBytes
    PROVE  Cuts(Append(L, n), a, b + n, E \cup {b + n})
<1>1. PICK p \in [0 .. Len(L) -> 0 .. MaxBytes] :
         /\ p[0] = a /\ p[Len(L)] = b
         /\ \A k \in 1 .. Len(L) : p[k] = p[k - 1] + L[k]
         /\ \A j, k \in 0 .. Len(L) : j < k => p[j] < p[k]
         /\ \A e \in 0 .. MaxBytes :
               a < e => (e \in E <=> \E k \in 1 .. Len(L) : e = p[k])
  BY DEF Cuts
<1>2. Len(L) \in Nat /\ MaxBytes \in Nat /\ n \in Nat /\ n > 0 /\ b + n \in 0 .. MaxBytes
  BY Known
<1> DEFINE m == Len(L) + 1
           M == Append(L, n)
           q == [k \in 0 .. m |-> IF k = m THEN b + n ELSE p[k]]
<1>3. /\ M \in Seq(Sizes) /\ Len(M) = m /\ m \in Nat /\ m > 0 /\ m - 1 = Len(L)
      /\ M[m] = n /\ \A k \in 1 .. Len(L) : M[k] = L[k]
  BY <1>2
<1>4. q \in [0 .. m -> 0 .. MaxBytes]
  BY <1>1, <1>2, <1>3
<1>5. q[m] = b + n /\ \A k \in 0 .. Len(L) : q[k] = p[k]
  BY <1>2, <1>3
<1> HIDE DEF q, M, m
<1>6. \A k \in 0 .. m : k = m \/ k \in 0 .. Len(L)
  BY <1>2, <1>3
<1>7. q[0] = a /\ 0 \in 0 .. Len(L) /\ Len(L) \in 0 .. Len(L) /\ m \in 1 .. m
  BY <1>1, <1>2, <1>3, <1>5
<1>8. ASSUME NEW k \in 1 .. m PROVE q[k] = q[k - 1] + M[k]
  <2>1. CASE k = m
    BY <1>1, <1>3, <1>5, <1>7, <2>1
  <2>2. CASE k # m
    <3>1. k \in 1 .. Len(L) /\ k \in 0 .. Len(L) /\ k - 1 \in 0 .. Len(L)
      BY <1>2, <1>3, <2>2
    <3> QED BY <1>1, <1>3, <1>5, <3>1
  <2> QED BY <2>1, <2>2
<1>9. \A k \in 0 .. Len(L) : p[k] \in 0 .. MaxBytes /\ p[k] <= b
  <2> TAKE k \in 0 .. Len(L)
  <2>1. CASE k = Len(L)
    BY <1>1, <2>1
  <2>2. CASE k # Len(L)
    <3>1. k < Len(L)
      BY <1>2, <2>2
    <3>2. p[k] < p[Len(L)]
      BY <1>1, <1>7, <3>1
    <3> QED BY <1>1, <3>2
  <2> QED BY <2>1, <2>2
<1>10. ASSUME NEW j \in 0 .. m, NEW k \in 0 .. m, j < k PROVE q[j] < q[k]
  <2>1. j \in 0 .. Len(L)
    BY <1>2, <1>3, <1>10
  <2>2. CASE k = m
    BY <1>2, <1>5, <1>9, <2>1, <2>2
  <2>3. CASE k # m
    <3>1. k \in 0 .. Len(L)
      BY <1>6, <2>3
    <3> QED BY <1>1, <1>5, <1>10, <2>1, <3>1
  <2> QED BY <2>2, <2>3
<1>11. ASSUME NEW e \in 0 .. MaxBytes, a < e
       PROVE  e \in E \cup {b + n} <=> \E k \in 1 .. m : e = q[k]
  <2>1. e \in E <=> \E k \in 1 .. Len(L) : e = p[k]
    BY <1>1, <1>11
  <2>2. ASSUME NEW k \in 1 .. Len(L) PROVE k \in 1 .. m /\ q[k] = p[k]
    BY <1>2, <1>3, <1>5
  <2>3. ASSUME NEW k \in 1 .. m PROVE k = m \/ k \in 1 .. Len(L)
    BY <1>2, <1>3
  <2> QED BY <1>5, <1>7, <2>1, <2>2, <2>3
<1>12. q \in [0 .. Len(M) -> 0 .. MaxBytes] /\ q[Len(M)] = b + n
  BY <1>3, <1>4, <1>5
<1>13. Cuts(M, a, b + n, E \cup {b + n})
  BY <1>3, <1>7, <1>8, <1>10, <1>11, <1>12 DEF Cuts
<1> QED BY <1>13 DEF M

\* The first item goes.
LEMMA CutsLess ==
    ASSUME RingAssumption, NEW L \in Seq(Sizes), L # <<>>, NEW a \in 0 .. MaxBytes,
           NEW b \in 0 .. MaxBytes, NEW E, Cuts(L, a, b, E)
    PROVE  Cuts(Tail(L), a + L[1], b, E)
<1>1. PICK p \in [0 .. Len(L) -> 0 .. MaxBytes] :
         /\ p[0] = a /\ p[Len(L)] = b
         /\ \A k \in 1 .. Len(L) : p[k] = p[k - 1] + L[k]
         /\ \A j, k \in 0 .. Len(L) : j < k => p[j] < p[k]
         /\ \A e \in 0 .. MaxBytes :
               a < e => (e \in E <=> \E k \in 1 .. Len(L) : e = p[k])
  BY DEF Cuts
<1>2. Len(L) \in Nat /\ Len(L) > 0 /\ MaxBytes \in Nat
  BY Known
<1> DEFINE m == Len(L) - 1
           M == Tail(L)
           q == [k \in 0 .. m |-> p[k + 1]]
<1>3. /\ M \in Seq(Sizes) /\ Len(M) = m /\ m \in Nat /\ m + 1 = Len(L)
      /\ \A k \in 1 .. m : M[k] = L[k + 1]
  BY <1>2
<1>4. /\ q \in [0 .. m -> 0 .. MaxBytes] /\ \A k \in 0 .. m : q[k] = p[k + 1]
      /\ 0 \in 0 .. m /\ m \in 0 .. m
  BY <1>1, <1>3
<1> HIDE DEF q, M, m
<1>5. q[0] = a + L[1] /\ q[m] = b /\ a < a + L[1] /\ q[0] \in 0 .. MaxBytes
  <2>1. 1 \in 1 .. Len(L) /\ L[1] \in Sizes
    BY <1>2
  <2>2. p[1] = a + L[1] /\ L[1] \in Nat /\ L[1] > 0
    BY <1>1, <2>1, Known
  <2> QED BY <1>1, <1>3, <1>4, <2>2
<1>6. ASSUME NEW k \in 1 .. m PROVE q[k] = q[k - 1] + M[k]
  <2>1. k + 1 \in 1 .. Len(L) /\ k \in 0 .. m /\ k - 1 \in 0 .. m
        /\ (k + 1) - 1 = k /\ (k - 1) + 1 = k
    BY <1>3
  <2>2. p[k + 1] = p[k] + L[k + 1]
    BY <1>1, <2>1
  <2> QED BY <1>3, <1>4, <2>1, <2>2
<1>7. ASSUME NEW j \in 0 .. m, NEW k \in 0 .. m, j < k PROVE q[j] < q[k]
  <2>1. j + 1 \in 0 .. Len(L) /\ k + 1 \in 0 .. Len(L) /\ j + 1 < k + 1
    BY <1>3, <1>7
  <2>2. p[j + 1] < p[k + 1]
    BY <1>1, <2>1
  <2> QED BY <1>4, <2>2
<1>8. ASSUME NEW e \in 0 .. MaxBytes, q[0] < e
      PROVE  e \in E <=> \E k \in 1 .. m : e = q[k]
  <2>1. a < e
    BY <1>5, <1>8
  <2>2. e \in E <=> \E k \in 1 .. Len(L) : e = p[k]
    BY <1>1, <2>1
  <2>3. ASSUME NEW k \in 1 .. Len(L), e = p[k] PROVE \E j \in 1 .. m : e = q[j]
    <3>1. k # 1
      BY <1>4, <1>8, <2>3
    <3>2. k - 1 \in 1 .. m /\ k - 1 \in 0 .. m /\ (k - 1) + 1 = k
      BY <1>3, <3>1
    <3>3. e = q[k - 1]
      BY <1>4, <2>3, <3>2
    <3> QED BY <3>2, <3>3
  <2>4. ASSUME NEW k \in 1 .. m, e = q[k] PROVE \E j \in 1 .. Len(L) : e = p[j]
    <3>1. k + 1 \in 1 .. Len(L) /\ k \in 0 .. m
      BY <1>3
    <3> QED BY <1>4, <2>4, <3>1
  <2> QED BY <2>2, <2>3, <2>4
<1>9. q \in [0 .. Len(M) -> 0 .. MaxBytes] /\ q[Len(M)] = b
  BY <1>3, <1>4, <1>5
<1>10. Cuts(M, q[0], b, E)
  BY <1>3, <1>6, <1>7, <1>8, <1>9 DEF Cuts
<1> QED BY <1>5, <1>10 DEF M

\* No end lies beyond what was sent.
LEMMA CutsBound ==
    ASSUME RingAssumption, NEW L \in Seq(Sizes), NEW a \in 0 .. MaxBytes,
           NEW b \in 0 .. MaxBytes, NEW E, Cuts(L, a, b, E)
    PROVE  \A e \in 0 .. MaxBytes : b < e => e \notin E
<1>1. PICK p \in [0 .. Len(L) -> 0 .. MaxBytes] :
         /\ p[0] = a /\ p[Len(L)] = b
         /\ \A j, k \in 0 .. Len(L) : j < k => p[j] < p[k]
         /\ \A e \in 0 .. MaxBytes :
               a < e => (e \in E <=> \E k \in 1 .. Len(L) : e = p[k])
  BY DEF Cuts
<1>2. Len(L) \in Nat /\ MaxBytes \in Nat /\ a <= b
  BY Known, CutsFirst
<1> SUFFICES ASSUME NEW e \in 0 .. MaxBytes, b < e PROVE e \notin E
  OBVIOUS
<1>3. a < e
  BY <1>2
<1>4. ASSUME NEW k \in 1 .. Len(L) PROVE e # p[k]
  <2>1. k \in 0 .. Len(L) /\ Len(L) \in 0 .. Len(L)
    BY <1>2
  <2>2. CASE k = Len(L)
    BY <1>1, <2>2
  <2>3. CASE k # Len(L)
    <3>1. k < Len(L)
      BY <1>2, <2>3
    <3>2. p[k] < b /\ p[k] \in 0 .. MaxBytes
      BY <1>1, <2>1, <3>1
    <3> QED BY <3>2
  <2> QED BY <2>2, <2>3
<1> QED BY <1>1, <1>3, <1>4

-----------------------------------------------------------------------------
\* Whatever the scheduler moves, its invariant holds, no wait begins and no task
\* is revived.
LEMMA MovesStep ==
    ASSUME RingAssumption, SchedInv, SchedTypeOK', Settled', CurrentRuns',
           \A i \in Tasks : Moves(i)
    PROVE  SchedInv' /\ Eased /\ NoneRevived
<1>1. \A i \in Tasks : Waiting(i)' => Waiting(i)
  BY DEF Moves, Waiting
<1>2. WaitersBlocked'
  <2> SUFFICES ASSUME NEW i \in Tasks, Waiting(i)'
               PROVE  i \in Receivers /\ (Unusual \/ state'[i] \in {"queue", "sleeping"})
    BY DEF WaitersBlocked
  <2>1. Moves(i) /\ Waiting(i)
    BY <1>1
  <2>2. i \in Receivers /\ i \in AppTasks
    BY <2>1, Known DEF SchedInv, WaitersBlocked
  <2> QED BY <2>1, <2>2 DEF SchedInv, WaitersBlocked, Moves, Waiting
<1>3. NoneRevived
  BY AppIsTask DEF NoneRevived, Revives, Moves
<1> QED BY <1>1, <1>2, <1>3 DEF SchedInv, Eased

\* A step that touches no task.
LEMMA NoSwitchStep ==
    ASSUME SchedInv, NoSwitch
    PROVE  SchedInv' /\ Eased /\ NoneRevived /\ UNCHANGED <<waits, state>>
  BY DEF NoSwitch, schedVars, SchedInv, SchedTypeOK, Settled, CurrentRuns,
         WaitersBlocked, Waiting, Eased, NoneRevived, Revives

\* The TCB of an application task is edited so that no wait begins.
LEMMA EditStep ==
    ASSUME SchedInv, NEW j \in AppTasks, NEW st \in States, NEW w \in SUBSET waits[j],
           Edited(j, st, w),
           UNCHANGED <<tableVars, current, exec, slice, scheduler_started, guest_call>>,
           running' \in [Cores -> BOOLEAN], halted' \in [Cores -> BOOLEAN],
           st # "running" => \A c \in Cores : current[c] # j,
           "rb" \in w => Unusual
    PROVE  /\ SchedInv' /\ Eased
           /\ state' = [state EXCEPT ![j] = st]
           /\ waits' = [waits EXCEPT ![j] = w]
<1>1. /\ SchedTypeOK /\ Settled /\ CurrentRuns /\ WaitersBlocked /\ j \in Tasks
      /\ waits \in [Tasks -> SUBSET WaitKinds] /\ state \in [Tasks -> States]
  BY AppIsTask DEF SchedInv, SchedTypeOK
<1>2. w \in SUBSET WaitKinds
  BY <1>1
<1>3. /\ SchedTypeOK' /\ Settled' /\ CurrentRuns'
      /\ state' = [state EXCEPT ![j] = st]
      /\ waits' = [waits EXCEPT ![j] = w]
  BY <1>1, <1>2, EditEffect
<1>4. \A i \in Tasks : /\ state'[i] = IF i = j THEN st ELSE state[i]
                       /\ waits'[i] = IF i = j THEN w ELSE waits[i]
  BY <1>1, <1>3
<1>5. WaitersBlocked' /\ Eased
  BY <1>1, <1>4 DEF WaitersBlocked, Waiting, Eased
<1> QED BY <1>3, <1>4, <1>5 DEF SchedInv

\* The wake: nothing changes, or the first receiver that waits is lent something.
LEMMA ServeStep ==
    ASSUME RingAssumption, SchedInv, NEW d, NEW L, ServeWaiter(d, L),
           UNCHANGED <<tableVars, current, exec, slice, scheduler_started, guest_call>>
    PROVE  /\ SchedInv' /\ Eased /\ (~Unusual => NoneRevived)
           /\ \/ /\ UNCHANGED <<borrowed, holder, lent, waits>>
                 /\ \A i \in Candidates : Loan(d, L, max_size[i]) = 0
              \/ \E i \in Receivers :
                    /\ Waiting(i) /\ ~Waiting(i)'
                    /\ Loan(d, L, max_size[i]) # 0
                    /\ LentTo(i, Loan(d, L, max_size[i]), d)
<1>1. CASE /\ \A i \in Candidates : Loan(d, L, max_size[i]) = 0
           /\ UNCHANGED <<taskVars, running, halted, borrowed, holder, lent>>
  <2>1. NoSwitch /\ UNCHANGED waits
    BY <1>1 DEF NoSwitch, schedVars, tableVars, taskVars
  <2> QED BY <1>1, <2>1, NoSwitchStep
<1>2. ASSUME NEW i \in Candidates,
             Loan(d, L, max_size[i]) # 0, LentTo(i, Loan(d, L, max_size[i]), d),
             Commit([Tcbs EXCEPT !.state[i] = ReleasedState(i),
                                 !.waits[i] = @ \ {"rb"}]),
             Unparked(i)
      PROVE  /\ SchedInv' /\ Eased /\ (~Unusual => NoneRevived)
             /\ i \in Receivers /\ Waiting(i) /\ ~Waiting(i)'
  <2> DEFINE st == ReleasedState(i)
             w  == waits[i] \ {"rb"}
  <2>1. i \in Tasks /\ Waiting(i)
    BY <1>2, SchedAssumption DEF Candidates, SchedInv, Settled, Tasks
  <2>2. i \in Receivers /\ i \in AppTasks /\ (Unusual \/ state[i] # "suspended")
    BY <2>1, Known DEF SchedInv, WaitersBlocked
  <2>3. Edited(i, st, w)
    BY <1>2 DEF Edited, Tcbs
  <2>4. /\ st \in States /\ w \in SUBSET waits[i] /\ "rb" \notin w
        /\ st # "running" => \A k \in Cores : current[k] # i
    BY DEF ReleasedState, CurrentOn, States
  <2>5. running' \in [Cores -> BOOLEAN] /\ halted' \in [Cores -> BOOLEAN]
    <3>1. /\ running' = [k \in Cores |-> running[k] \/ current[k] = i]
          /\ halted' = [k \in Cores |-> halted[k] /\ current[k] # i]
      BY <1>2 DEF Unparked
    <3>2. \A k \in Cores : /\ (running[k] \/ current[k] = i) \in BOOLEAN
                           /\ (halted[k] /\ current[k] # i) \in BOOLEAN
      OBVIOUS
    <3> QED BY <3>1, <3>2
  <2> HIDE DEF st, w
  <2>6. /\ SchedInv' /\ Eased
        /\ state' = [state EXCEPT ![i] = st] /\ waits' = [waits EXCEPT ![i] = w]
    BY <2>2, <2>3, <2>4, <2>5, EditStep
  <2>7. ~Waiting(i)' /\ \A k \in Tasks : k # i => state'[k] = state[k]
    BY <2>1, <2>4, <2>6 DEF Waiting, SchedInv, SchedTypeOK
  <2>8. ~Unusual => NoneRevived
    BY <2>2, <2>7, AppIsTask DEF NoneRevived, Revives
  <2> QED BY <2>1, <2>2, <2>6, <2>7, <2>8
<1> QED BY <1>1, <1>2 DEF ServeWaiter

-----------------------------------------------------------------------------
\* What can be lent of a buffer is at its start, is there as soon as bytes are and
\* nothing is lent, and of an item buffer it is the first item.
LEMMA LoanFits ==
    ASSUME RingAssumption, NEW a \in 0 .. MaxBytes, NEW b \in 0 .. MaxBytes, a <= b,
           b - a <= Capacity, NEW L \in Seq(Sizes), NEW E, Itemized(L, a, b, E),
           NEW limit \in Amounts
    PROVE  LET n == Loan(Run(a, b), L, limit)
           IN  /\ n \in 0 .. (b - a)
               /\ n # 0 => borrowed = 0
               /\ borrowed = 0 /\ a # b => n # 0
               /\ n # 0 /\ Type = "items" => L # <<>> /\ n = L[1]
<1>1. /\ Len(Run(a, b)) = b - a /\ (Run(a, b) = <<>> <=> a = b)
      /\ MaxBytes \in Nat /\ Capacity \in Nat
  BY Known, RunTyped
<1>2. limit \in Nat /\ (a # b => limit > 0)
  BY <1>1, Known DEF Amounts
<1> DEFINE d == Run(a, b)
<1> HIDE DEF d
<1>3. Len(d) = b - a /\ (d = <<>> <=> a = b)
  BY <1>1 DEF d
<1>4. CASE borrowed # 0 \/ a = b
  BY <1>1, <1>3, <1>4 DEF Loan, d
<1>5. CASE ~(borrowed # 0 \/ a = b) /\ Type = "items"
  <2>1. L # <<>> /\ L[1] \in Sizes /\ L[1] <= b - a
    BY <1>5, CutsFirst DEF Itemized
  <2>2. Loan(d, L, limit) = L[1] /\ L[1] \in Nat /\ L[1] > 0
    BY <1>3, <1>5, <2>1, Known DEF Loan
  <2> QED BY <1>1, <1>5, <2>1, <2>2 DEF d
<1>6. CASE ~(borrowed # 0 \/ a = b) /\ Type # "items"
  <2>1. Loan(d, L, limit) = IF b - a < limit THEN b - a ELSE limit
    BY <1>3, <1>6 DEF Loan
  <2> QED BY <1>1, <1>2, <1>6, <2>1 DEF d
<1> QED BY <1>4, <1>5, <1>6

\* The invariant from its parts.
LEMMA Assemble ==
    ASSUME RingAssumption, SchedInv', InOrder', Reserved', Lent', Prompt',
           Itemized(item_len', consumed', sent', ends'),
           alive' \in BOOLEAN,
           item_len' \in Seq(Sizes), Len(item_len') <= MaxRingItems,
           sent' \in 0 .. MaxBytes, consumed' \in 0 .. MaxBytes,
           sent' - consumed' <= Capacity,
           borrowed' \in Nat, acquired' \in {0} \cup Sizes, slot' \in 0 .. Capacity,
           max_size' \in [Tasks -> Amounts], lent' \in Seq(1 .. MaxBytes),
           ends' \subseteq 1 .. MaxBytes
    PROVE  RInv'
<1>1. /\ Capacity \in Nat /\ MaxBytes \in Nat /\ Receivers \subseteq AppTasks
      /\ sent' \in Nat /\ consumed' \in Nat /\ sent' <= MaxBytes
  <2>1. Capacity \in Nat /\ MaxBytes \in Nat /\ Receivers \subseteq AppTasks
    BY Known
  <2> QED BY <2>1
<1>2. consumed' <= sent' /\ data' = Run(consumed', sent')
  BY DEF InOrder
<1>3. /\ data' \in Seq(1 .. MaxBytes) /\ Len(data') = sent' - consumed'
  <2>1. /\ Run(consumed', sent') \in Seq(1 .. MaxBytes)
        /\ Len(Run(consumed', sent')) = sent' - consumed'
    BY <1>1, <1>2, RunTyped
  <2> QED BY <1>2, <2>1
<1>4. borrowed' <= Len(data') /\ holder' \in {None} \cup Receivers
  BY DEF Lent
<1>5. borrowed' \in 0 .. Capacity /\ holder' \in {None} \cup AppTasks
  <2>1. borrowed' <= sent' - consumed'
    BY <1>3, <1>4
  <2>2. ASSUME NEW x \in Nat, NEW y \in Int, NEW z \in Nat, x <= y, y <= z
        PROVE  x \in 0 .. z
    BY <2>2
  <2>3. sent' - consumed' \in Int
    BY <1>1
  <2>4. borrowed' \in 0 .. Capacity
    BY <1>1, <2>1, <2>2, <2>3
  <2> QED BY <1>1, <1>4, <2>4
<1>6. Len(data') <= Capacity
  BY <1>3
<1>7. TypeOK'
  BY <1>1, <1>3, <1>5, <1>6 DEF TypeOK, SchedInv
<1> QED BY <1>7 DEF RInv

-----------------------------------------------------------------------------
\* What the invariant says of the numbers.
LEMMA Facts ==
    ASSUME RingAssumption, RInv
    PROVE  /\ sent \in 0 .. MaxBytes /\ consumed \in 0 .. MaxBytes /\ consumed <= sent
           /\ data = Run(consumed, sent) /\ Len(data) = sent - consumed
           /\ data = <<>> <=> consumed = sent
           /\ sent - consumed <= Capacity
           /\ item_len \in Seq(Sizes) /\ Len(item_len) <= MaxRingItems
           /\ borrowed \in Nat /\ borrowed <= sent - consumed
           /\ Itemized(item_len, consumed, sent, ends)
           /\ max_size \in [Tasks -> Amounts]
<1>1. /\ sent \in 0 .. MaxBytes /\ consumed \in 0 .. MaxBytes /\ consumed <= sent
      /\ data = Run(consumed, sent) /\ Len(data) <= Capacity
      /\ item_len \in Seq(Sizes) /\ Len(item_len) <= MaxRingItems
      /\ borrowed \in 0 .. Capacity /\ borrowed <= Len(data)
      /\ Itemized(item_len, consumed, sent, ends)
      /\ max_size \in [Tasks -> Amounts]
  BY DEF RInv, TypeOK, InOrder, Lent
<1>2. MaxBytes \in Nat /\ sent \in Nat /\ consumed \in Nat /\ sent <= MaxBytes
      /\ borrowed \in Nat
  <2>1. MaxBytes \in Nat /\ Capacity \in Nat
    BY Known
  <2> QED BY <1>1, <2>1
<1>3. /\ Len(Run(consumed, sent)) = sent - consumed
      /\ Run(consumed, sent) = <<>> <=> consumed = sent
  BY <1>1, <1>2, RunTyped
<1> QED BY <1>1, <1>2, <1>3

\* Bytes are stored and the first receiver that waits is served.
LEMMA StoreStep ==
    ASSUME RingAssumption, RInv, NEW n \in Sizes, sent + n <= MaxBytes,
           n <= Capacity - Len(data), Type = "items" => Len(item_len) < MaxRingItems,
           Stored(n), ServeWaiter(More(n), MoreItems(n)), acquired' = 0,
           UNCHANGED <<tableVars, current, exec, slice, scheduler_started, guest_call>>,
           UNCHANGED <<alive, slot, max_size, consumed>>
    PROVE  GoodStep
<1>1. /\ Capacity \in Nat /\ MaxBytes \in Nat /\ MaxRingItems \in Nat
      /\ n \in Nat /\ n > 0 /\ Receivers \subseteq Tasks
  BY Known
<1>2. /\ sent \in Nat /\ consumed \in Nat /\ consumed <= sent /\ sent - consumed <= Capacity
      /\ consumed \in 0 .. MaxBytes /\ sent \in 0 .. MaxBytes
      /\ sent' = sent + n /\ sent + n \in 0 .. MaxBytes /\ consumed' = consumed
      /\ (sent + n) - consumed <= Capacity
      /\ borrowed \in Nat /\ borrowed <= sent - consumed
  BY <1>1, Facts DEF Stored
<1>3. data' = Run(consumed, sent + n) /\ More(n) = Run(consumed, sent + n)
  <2>1. Run(consumed, sent) \o [k \in 1 .. n |-> sent + k] = Run(consumed, sent + n)
    BY <1>1, <1>2, RunMore
  <2>2. data = Run(consumed, sent)
    BY Facts
  <2>3. data' = More(n)
    BY DEF Stored
  <2> QED BY <2>1, <2>2, <2>3 DEF More
<1>4. /\ MoreItems(n) \in Seq(Sizes) /\ Len(MoreItems(n)) <= MaxRingItems
      /\ item_len' = MoreItems(n)
      /\ item_len # <<>> => MoreItems(n) # <<>> /\ MoreItems(n)[1] = item_len[1]
  <2>1. item_len \in Seq(Sizes) /\ Len(item_len) <= MaxRingItems /\ Len(item_len) \in Nat
    BY Facts
  <2>2. item_len' = MoreItems(n)
    BY DEF Stored
  <2>3. CASE Type = "items"
    <3>1. MoreItems(n) = Append(item_len, n) /\ Len(item_len) < MaxRingItems
      BY <2>3 DEF MoreItems
    <3>2. /\ Append(item_len, n) \in Seq(Sizes)
          /\ Len(Append(item_len, n)) = Len(item_len) + 1
          /\ item_len # <<>> => Append(item_len, n)[1] = item_len[1]
      BY <2>1
    <3>3. Append(item_len, n) # <<>>
      BY <2>1, <3>2
    <3> QED BY <1>1, <2>1, <2>2, <3>1, <3>2, <3>3
  <2>4. CASE Type # "items"
    BY <2>1, <2>2, <2>4 DEF MoreItems
  <2> QED BY <2>3, <2>4
<1>5. Itemized(MoreItems(n), consumed, sent + n, ends \cup {sent + n})
  <2>1. CASE Type = "items"
    <3>1. Cuts(item_len, consumed, sent, ends) /\ item_len \in Seq(Sizes)
      BY <2>1, Facts DEF Itemized
    <3>2. Cuts(Append(item_len, n), consumed, sent + n, ends \cup {sent + n})
      BY <1>2, <3>1, CutsMore
    <3> QED BY <2>1, <3>2 DEF Itemized, MoreItems
  <2>2. CASE Type # "items"
    BY <2>2, Facts DEF Itemized, MoreItems
  <2> QED BY <2>1, <2>2
<1>6. consumed <= sent + n
  BY <1>1, <1>2
<1>7. InOrder' /\ Reserved'
  BY <1>2, <1>3, <1>6 DEF InOrder, Reserved
<1>8. SchedInv
  BY DEF RInv
<1>9. /\ SchedInv' /\ Eased /\ (~Unusual => NoneRevived)
      /\ \/ /\ UNCHANGED <<borrowed, holder, lent, waits>>
            /\ \A i \in Candidates : Loan(More(n), MoreItems(n), max_size[i]) = 0
         \/ \E i \in Receivers :
               /\ Waiting(i) /\ ~Waiting(i)'
               /\ Loan(More(n), MoreItems(n), max_size[i]) # 0
               /\ LentTo(i, Loan(More(n), MoreItems(n), max_size[i]), More(n))
  BY <1>8, ServeStep
<1> DEFINE m(i) == Loan(More(n), MoreItems(n), max_size[i])
<1>10. ASSUME NEW i \in Tasks
       PROVE  /\ m(i) \in 0 .. ((sent + n) - consumed)
              /\ m(i) # 0 => borrowed = 0
              /\ borrowed = 0 => m(i) # 0
              /\ m(i) # 0 /\ Type = "items" =>
                    MoreItems(n) # <<>> /\ m(i) = MoreItems(n)[1]
  <2>1. max_size[i] \in Amounts
    BY Facts
  <2>2. consumed <= sent + n /\ consumed # sent + n
    BY <1>1, <1>2
  <2> QED BY <1>2, <1>3, <1>4, <1>5, <2>1, <2>2, LoanFits
<1> HIDE DEF m
<1>11. Len(data') = (sent + n) - consumed
  <2>1. sent + n \in Nat /\ sent + n <= MaxBytes
    BY <1>1, <1>2
  <2>2. Len(Run(consumed, sent + n)) = (sent + n) - consumed
    BY <1>1, <1>2, <1>6, <2>1, RunTyped
  <2> QED BY <1>3, <2>2
<1>12. /\ Lent' /\ borrowed' \in Nat /\ lent' \in Seq(1 .. MaxBytes)
  <2>1. CASE UNCHANGED <<borrowed, holder, lent, waits>>
    <3>1. Lent /\ lent \in Seq(1 .. MaxBytes)
      BY DEF RInv, TypeOK
    <3>2. borrowed' <= Len(data')
      BY <1>1, <1>2, <1>11, <2>1
    <3> QED BY <1>2, <1>4, <2>1, <3>1, <3>2 DEF Lent
  <2>2. ASSUME NEW i \in Receivers, m(i) # 0, LentTo(i, m(i), More(n))
        PROVE  /\ Lent' /\ borrowed' \in Nat /\ lent' \in Seq(1 .. MaxBytes)
    <3>1. i \in Tasks /\ i # None
      BY <1>1 DEF Tasks, None
    <3>2. m(i) \in 0 .. ((sent + n) - consumed) /\ m(i) \in Nat
          /\ borrowed' = m(i) /\ holder' = i /\ lent' = SubSeq(More(n), 1, m(i))
      BY <1>2, <1>10, <2>2, <3>1 DEF LentTo
    <3>3. lent' = Run(consumed, consumed + m(i))
      <4>1. sent + n \in Nat
        BY <1>1, <1>2
      <4>2. SubSeq(Run(consumed, sent + n), 1, m(i)) = Run(consumed, consumed + m(i))
        BY <1>2, <1>6, <3>2, <4>1, RunCut
      <4> QED BY <1>3, <3>2, <4>2
    <3>4. lent' \in Seq(1 .. MaxBytes)
      <4>1. consumed + m(i) \in Nat /\ consumed <= consumed + m(i)
            /\ consumed + m(i) <= MaxBytes
        BY <1>1, <1>2, <3>2
      <4> QED BY <1>1, <1>2, <3>3, <4>1, RunTyped
    <3>5. Type = "items" => item_len' # <<>> /\ borrowed' = item_len'[1]
      BY <1>4, <1>10, <2>2, <3>1, <3>2
    <3> QED BY <1>2, <1>11, <2>2, <3>1, <3>2, <3>3, <3>4, <3>5 DEF Lent
  <2> QED BY <1>9, <2>1, <2>2 DEF m
<1>13. Prompt'
  <2> SUFFICES ASSUME OneReceiver, NEW i \in Tasks, Waiting(i)' PROVE FALSE
    BY DEF Prompt
  <2>1. Waiting(i) /\ i \in Receivers /\ borrowed = 0
    BY <1>8, <1>9 DEF Eased, RInv, Prompt, SchedInv, WaitersBlocked
  <2>2. \A j \in Tasks : Waiting(j) => j = i
    BY <1>8, <2>1 DEF OneReceiver, SchedInv, WaitersBlocked
  <2>3. i \in Candidates
    <3>1. i \in 1 .. task_count /\ task_count \in 0 .. MaxTasks
      BY <1>8, <2>1, SchedAssumption DEF SchedInv, SchedTypeOK, Settled, Tasks, Waiting
    <3>2. \A j \in 1 .. (i - 1) : j \in Tasks /\ j # i
      BY <3>1, SchedAssumption DEF Tasks
    <3> QED BY <2>1, <2>2, <3>1, <3>2 DEF Candidates
  <2>4. m(i) # 0
    BY <1>10, <2>1
  <2>5. \E j \in Receivers : ~Waiting(j)'
    BY <1>9, <2>3, <2>4 DEF m
  <2> QED BY <2>1, <2>5 DEF OneReceiver
<1>14. RInv'
  <2>1. /\ alive' \in BOOLEAN /\ slot' \in 0 .. Capacity
        /\ max_size' \in [Tasks -> Amounts]
    BY DEF RInv, TypeOK
  <2>2. ends' = ends \cup {sent + n} /\ ends' \subseteq 1 .. MaxBytes
    BY <1>1, <1>2 DEF RInv, TypeOK, Stored
  <2>3. Itemized(item_len', consumed', sent', ends')
    BY <1>2, <1>4, <1>5, <2>2
  <2>4. /\ sent' \in 0 .. MaxBytes /\ consumed' \in 0 .. MaxBytes
        /\ sent' - consumed' <= Capacity
    BY <1>2
  <2> QED BY <1>4, <1>7, <1>9, <1>12, <1>13, <2>1, <2>2, <2>3, <2>4, Assemble
<1> QED BY <1>9, <1>14 DEF GoodStep, Obeyed, NoneRevived

LEMMA SendStep ==
    ASSUME RingAssumption, RInv, NEW c \in Cores, NEW n \in Sizes, XRingbufferSend(c, n)
    PROVE  GoodStep
<1>1. /\ sent + n <= MaxBytes /\ ~Refuses(n) /\ Stored(n)
      /\ ServeWaiter(More(n), MoreItems(n))
      /\ UNCHANGED <<tableVars, current, exec, slice, scheduler_started, guest_call>>
      /\ UNCHANGED <<alive, slot, max_size, consumed>> /\ acquired' = acquired
  BY DEF XRingbufferSend
<1>2. n \in Int /\ Capacity - Len(data) \in Int /\ MaxRingItems \in Nat /\ Len(item_len) \in Nat
  BY Known, Facts
<1>3. /\ acquired = 0 /\ n <= Capacity - Len(data)
      /\ Type = "items" => Len(item_len) < MaxRingItems
  BY <1>1, <1>2 DEF Refuses
<1> QED BY <1>1, <1>3, StoreStep

LEMMA CompleteStep ==
    ASSUME RingAssumption, RInv, NEW c \in Cores, XRingbufferSendComplete(c)
    PROVE  GoodStep
<1> DEFINE n == acquired
<1>1. /\ n # 0 /\ sent + n <= MaxBytes /\ Stored(n) /\ acquired' = 0
      /\ ServeWaiter(More(n), MoreItems(n))
      /\ UNCHANGED <<tableVars, current, exec, slice, scheduler_started, guest_call>>
      /\ UNCHANGED <<alive, slot, max_size, consumed>>
  BY DEF XRingbufferSendComplete
<1>2. n \in Sizes /\ n \in Nat
  BY <1>1, Known DEF RInv, TypeOK
<1>3. /\ n + Len(data) <= Capacity /\ Len(item_len) < MaxRingItems
  BY <1>1 DEF RInv, Reserved
<1>4. n <= Capacity - Len(data)
  <2>1. Len(data) \in Int /\ Capacity \in Nat
    BY Known, Facts
  <2> QED BY <1>2, <1>3, <2>1
<1> HIDE DEF n
<1> QED BY <1>1, <1>2, <1>3, <1>4, StoreStep

\* A call that touches no task.
LEMMA CallStep ==
    ASSUME RInv, NoSwitch
    PROVE  /\ SchedInv' /\ NoneRevived /\ Obeyed
           /\ \A i \in Tasks : Waiting(i)' <=> Waiting(i)
<1>1. SchedInv
  BY DEF RInv
<1>2. SchedInv' /\ NoneRevived /\ waits' = waits
  BY <1>1, NoSwitchStep
<1> QED BY <1>2 DEF Obeyed, NoneRevived, Waiting

\* Room is reserved at the end.
LEMMA AcquireStep ==
    ASSUME RingAssumption, RInv, NEW c \in Cores, NEW n \in Sizes,
           XRingbufferSendAcquire(c, n)
    PROVE  GoodStep
<1>1. /\ Type = "items" /\ ~Refuses(n) /\ acquired' = n /\ slot' = Len(data) /\ NoSwitch
      /\ UNCHANGED <<alive, data, item_len, borrowed, max_size, holder, lent, sent,
                     consumed, ends>>
  BY DEF XRingbufferSendAcquire
<1>2. /\ SchedInv' /\ Obeyed /\ \A i \in Tasks : Waiting(i)' <=> Waiting(i)
  BY <1>1, CallStep
<1>3. n \in Nat /\ Capacity \in Nat /\ MaxRingItems \in Nat /\ MaxBytes \in Nat
  BY Known
<1>4. /\ Len(data) = sent - consumed /\ Len(data) <= Capacity /\ Len(data) \in Nat
      /\ Len(item_len) \in Nat
  BY <1>3, Facts
<1>5. n + Len(data) <= Capacity /\ Len(item_len) < MaxRingItems
  BY <1>1, <1>3, <1>4 DEF Refuses
<1>6. Reserved'
  BY <1>1, <1>5 DEF Reserved
<1>7. InOrder' /\ Lent' /\ Prompt'
  BY <1>1, <1>2 DEF RInv, InOrder, Lent, Prompt
<1>8. /\ alive' \in BOOLEAN /\ item_len' \in Seq(Sizes) /\ Len(item_len') <= MaxRingItems
      /\ sent' \in 0 .. MaxBytes /\ consumed' \in 0 .. MaxBytes
      /\ sent' - consumed' <= Capacity /\ borrowed' \in Nat
      /\ max_size' \in [Tasks -> Amounts] /\ lent' \in Seq(1 .. MaxBytes)
      /\ ends' \subseteq 1 .. MaxBytes
      /\ Itemized(item_len', consumed', sent', ends')
  BY <1>1, Facts DEF RInv, TypeOK
<1>9. acquired' \in {0} \cup Sizes /\ slot' \in 0 .. Capacity
  BY <1>1, <1>3, <1>4
<1> QED BY <1>2, <1>6, <1>7, <1>8, <1>9, Assemble DEF GoodStep

\* The caller is lent what is there.
LEMMA ReceiveNowStep ==
    ASSUME RingAssumption, RInv, NEW c \in Cores, NEW limit \in Amounts,
           current[c] \in Receivers, ReceiveNow(c, limit)
    PROVE  GoodStep
<1> DEFINE n == Loan(data, item_len, limit)
<1>1. /\ n # 0 /\ LentTo(current[c], n, data) /\ NoSwitch
      /\ UNCHANGED <<alive, data, item_len, acquired, slot, max_size, sent, consumed, ends>>
  BY DEF ReceiveNow
<1>2. /\ SchedInv' /\ Obeyed /\ \A i \in Tasks : Waiting(i)' <=> Waiting(i)
  BY <1>1, CallStep
<1>3. /\ data = Run(consumed, sent) /\ consumed \in 0 .. MaxBytes /\ sent \in 0 .. MaxBytes
      /\ consumed <= sent /\ sent - consumed <= Capacity /\ Len(data) = sent - consumed
      /\ Itemized(item_len, consumed, sent, ends) /\ item_len \in Seq(Sizes)
      /\ data = <<>> <=> consumed = sent
  BY Facts
<1>4. Capacity \in Nat /\ MaxBytes \in Nat
  BY Known
<1>5. /\ n \in 0 .. (sent - consumed) /\ borrowed = 0
      /\ Type = "items" => item_len # <<>> /\ n = item_len[1]
  BY <1>1, <1>3, LoanFits
<1> HIDE DEF n
<1>6. borrowed' = n /\ holder' = current[c] /\ lent' = SubSeq(data, 1, n)
  BY <1>1 DEF LentTo
<1>7. n \in Nat /\ n <= sent - consumed /\ consumed \in Nat /\ sent \in Nat
      /\ consumed + n \in Nat /\ consumed + n <= MaxBytes /\ consumed <= consumed + n
  BY <1>3, <1>4, <1>5
<1>8. lent' = Run(consumed, consumed + n)
  <2>1. SubSeq(Run(consumed, sent), 1, n) = Run(consumed, consumed + n)
    BY <1>3, <1>5, <1>7, RunCut
  <2> QED BY <1>3, <1>6, <2>1
<1>9. lent' \in Seq(1 .. MaxBytes)
  BY <1>4, <1>7, <1>8, RunTyped
<1>10. current[c] # None
  BY Known DEF Tasks, None
<1>11. Lent'
  BY <1>1, <1>3, <1>5, <1>6, <1>7, <1>8, <1>10 DEF Lent
<1>12. Prompt'
  <2> SUFFICES ASSUME OneReceiver, NEW i \in Tasks, Waiting(i)' PROVE FALSE
    BY DEF Prompt
  <2>1. data = <<>>
    BY <1>2 DEF RInv, Prompt
  <2> QED BY <1>1, <1>3, <1>5, <1>7, <2>1
<1>13. InOrder' /\ Reserved'
  BY <1>1 DEF RInv, InOrder, Reserved
<1>14. /\ alive' \in BOOLEAN /\ item_len' \in Seq(Sizes) /\ Len(item_len') <= MaxRingItems
       /\ sent' \in 0 .. MaxBytes /\ consumed' \in 0 .. MaxBytes
       /\ sent' - consumed' <= Capacity
       /\ acquired' \in {0} \cup Sizes /\ slot' \in 0 .. Capacity
       /\ max_size' \in [Tasks -> Amounts]
       /\ ends' \subseteq 1 .. MaxBytes
       /\ Itemized(item_len', consumed', sent', ends')
  BY <1>1, Facts DEF RInv, TypeOK
<1> QED BY <1>2, <1>6, <1>7, <1>9, <1>11, <1>12, <1>13, <1>14, Assemble DEF GoodStep

\* Nothing of the buffer changes but the limit of a task.
LEMMA KeptStep ==
    ASSUME RingAssumption, RInv, SchedInv', Prompt', alive' \in BOOLEAN,
           max_size' \in [Tasks -> Amounts],
           UNCHANGED <<data, item_len, borrowed, acquired, slot, holder, lent, sent,
                       consumed, ends>>
    PROVE  RInv'
<1>1. InOrder' /\ Reserved' /\ Lent'
  BY DEF RInv, InOrder, Reserved, Lent
<1>2. /\ item_len' \in Seq(Sizes) /\ Len(item_len') <= MaxRingItems
      /\ sent' \in 0 .. MaxBytes /\ consumed' \in 0 .. MaxBytes
      /\ sent' - consumed' <= Capacity /\ borrowed' \in Nat
      /\ acquired' \in {0} \cup Sizes /\ slot' \in 0 .. Capacity
      /\ lent' \in Seq(1 .. MaxBytes) /\ ends' \subseteq 1 .. MaxBytes
      /\ Itemized(item_len', consumed', sent', ends')
  BY Facts DEF RInv, TypeOK
<1> QED BY <1>1, <1>2, Assemble

\* The caller waits: there is nothing that could be lent.
LEMMA ReceiveWaitsStep ==
    ASSUME RingAssumption, RInv, NEW c \in Cores, NEW limit \in Amounts,
           NEW timeout \in Timeouts, current[c] \in Receivers,
           ReceiveWaits(c, limit, timeout)
    PROVE  GoodStep
<1> DEFINE me == current[c]
<1>1. /\ Loan(data, item_len, limit) = 0 /\ borrowed = 0
      /\ max_size' = [max_size EXCEPT ![me] = limit]
      /\ SchedSwitch(c, WaitFor(c, "queue", {"rb"}, timeout, SaveContext(c, Tcbs)))
      /\ UNCHANGED <<scheduler_started, guest_call>>
      /\ UNCHANGED <<data, item_len, borrowed, acquired, slot, holder, lent, sent,
                     consumed, ends>>
      /\ alive' = alive
  BY DEF ReceiveWaits
<1>2. /\ SchedInv /\ me \in Receivers /\ me \in AppTasks /\ me \in Tasks
      /\ state[me] = "running" /\ Prompt
  BY Known DEF RInv, SchedInv, CurrentRuns
<1>3. data = <<>>
  <2>1. /\ data = Run(consumed, sent) /\ consumed \in 0 .. MaxBytes /\ sent \in 0 .. MaxBytes
        /\ consumed <= sent /\ sent - consumed <= Capacity
        /\ Itemized(item_len, consumed, sent, ends) /\ item_len \in Seq(Sizes)
        /\ data = <<>> <=> consumed = sent
    BY Facts
  <2> QED BY <1>1, <2>1, LoanFits
<1>4. /\ SchedTypeOK' /\ Settled' /\ CurrentRuns'
      /\ waits'[me] = waits[me] \cup {"rb"}
      /\ state'[me] \in {"queue", "sleeping"}
      /\ \A i \in Tasks : i # me => Moves(i)
  <2>1. /\ "queue" \in States \ {"ready", "running", "sleeping", "unused"}
        /\ {"rb"} \in SUBSET WaitKinds
    BY DEF States, WaitKinds
  <2>2. SchedTypeOK /\ Settled /\ CurrentRuns
    BY <1>2 DEF SchedInv
  <2> QED BY <1>1, <1>2, <2>1, <2>2, BlockEffect
<1>5. max_size' \in [Tasks -> Amounts]
  BY <1>1, Facts
<1> HIDE DEF me
<1>6. \A i \in Tasks : i # me /\ Waiting(i)' => Waiting(i)
  BY <1>4 DEF Moves, Waiting
<1>7. SchedInv'
  <2>1. WaitersBlocked'
    <3> SUFFICES ASSUME NEW i \in Tasks, Waiting(i)'
                 PROVE  i \in Receivers /\ (Unusual \/ state'[i] \in {"queue", "sleeping"})
      BY DEF WaitersBlocked
    <3>1. CASE i = me
      BY <1>2, <1>4, <3>1
    <3>2. CASE i # me
      <4>1. Moves(i) /\ Waiting(i)
        BY <1>4, <1>6, <3>2
      <4>2. i \in Receivers /\ i \in AppTasks
        BY <1>2, <4>1, Known DEF SchedInv, WaitersBlocked
      <4> QED BY <1>2, <4>1, <4>2 DEF SchedInv, WaitersBlocked, Moves, Waiting
    <3> QED BY <3>1, <3>2
  <2> QED BY <1>4, <2>1 DEF SchedInv
<1>8. Prompt'
  BY <1>1, <1>3 DEF Prompt
<1>9. Obeyed
  <2> SUFFICES ASSUME NEW i \in AppTasks, Revives(i) PROVE FALSE
    BY DEF Obeyed
  <2>1. i \in Tasks /\ i # me
    BY <1>2, AppIsTask DEF Revives
  <2> QED BY <1>4, <2>1 DEF Revives, Moves
<1>10. alive' \in BOOLEAN
  BY <1>1 DEF RInv, TypeOK
<1>11. RInv'
  BY <1>1, <1>5, <1>7, <1>8, <1>10, KeptStep
<1> QED BY <1>9, <1>11 DEF GoodStep

\* What was lent is given back, and the rest moves down.
LEMMA ReturnStep ==
    ASSUME RingAssumption, RInv, NEW c \in Cores, VRingbufferReturnItem(c)
    PROVE  GoodStep
<1>1. /\ current[c] \in AppTasks /\ holder = current[c]
      /\ data' = SubSeq(data, borrowed + 1, Len(data))
      /\ item_len' = (IF item_len = <<>> THEN <<>> ELSE Tail(item_len))
      /\ consumed' = consumed + borrowed
      /\ borrowed' = 0 /\ holder' = None /\ lent' = <<>> /\ NoSwitch
      /\ UNCHANGED <<alive, acquired, slot, max_size, sent, ends>>
  BY DEF VRingbufferReturnItem, AppCall
<1>2. /\ SchedInv' /\ Obeyed /\ \A i \in Tasks : Waiting(i)' <=> Waiting(i)
  BY <1>1, CallStep
<1>3. /\ Capacity \in Nat /\ MaxBytes \in Nat /\ MaxRingItems \in Nat
      /\ Receivers \subseteq Tasks
  BY Known
<1>4. /\ data = Run(consumed, sent) /\ consumed \in 0 .. MaxBytes /\ sent \in 0 .. MaxBytes
      /\ consumed <= sent /\ sent - consumed <= Capacity /\ Len(data) = sent - consumed
      /\ Itemized(item_len, consumed, sent, ends)
      /\ item_len \in Seq(Sizes) /\ Len(item_len) <= MaxRingItems
      /\ borrowed \in Nat /\ borrowed <= sent - consumed
  BY Facts
<1>5. /\ holder \in Receivers /\ borrowed # 0
      /\ Type = "items" => item_len # <<>> /\ borrowed = item_len[1]
  <2>1. current[c] # None
    BY <1>1, AppIsTask DEF Tasks, None
  <2> QED BY <1>1, <2>1 DEF RInv, Lent
<1>6. /\ consumed \in Nat /\ sent \in Nat /\ consumed + borrowed \in 0 .. MaxBytes
      /\ consumed + borrowed <= sent /\ sent - (consumed + borrowed) <= Capacity
      /\ borrowed \in 0 .. (sent - consumed)
  BY <1>3, <1>4
<1>7. data' = Run(consumed + borrowed, sent)
  <2>1. SubSeq(Run(consumed, sent), borrowed + 1, Len(Run(consumed, sent)))
          = Run(consumed + borrowed, sent)
    BY <1>4, <1>6, RunCut
  <2> QED BY <1>1, <1>4, <2>1
<1>8. InOrder'
  BY <1>1, <1>6, <1>7 DEF InOrder
<1>9. Len(data') = sent - (consumed + borrowed)
  <2>1. consumed + borrowed \in Nat /\ sent <= MaxBytes
    BY <1>3, <1>4, <1>6
  <2>2. Len(Run(consumed + borrowed, sent)) = sent - (consumed + borrowed)
    BY <1>3, <1>6, <2>1, RunTyped
  <2> QED BY <1>7, <2>2
<1>10. Itemized(item_len', consumed', sent', ends')
  <2>1. CASE Type = "items"
    <3>1. Cuts(item_len, consumed, sent, ends) /\ item_len # <<>>
      BY <1>4, <1>5, <2>1 DEF Itemized
    <3>2. Cuts(Tail(item_len), consumed + item_len[1], sent, ends)
      BY <1>4, <3>1, CutsLess
    <3> QED BY <1>1, <1>5, <2>1, <3>1, <3>2 DEF Itemized
  <2>2. CASE Type # "items"
    BY <1>1, <1>4, <2>2 DEF Itemized
  <2> QED BY <2>1, <2>2
<1>11. /\ item_len' \in Seq(Sizes) /\ Len(item_len') <= Len(item_len)
       /\ Len(item_len') \in Nat /\ Len(item_len) \in Nat
  <2>1. CASE item_len = <<>>
    BY <1>1, <1>4, <2>1
  <2>2. CASE item_len # <<>>
    BY <1>1, <1>4, <2>2
  <2> QED BY <2>1, <2>2
<1>12. Reserved'
  <2>1. Reserved /\ Len(data') <= Len(data) /\ Len(data) \in Int /\ Len(data') \in Int
    BY <1>4, <1>6, <1>9 DEF RInv
  <2>2. acquired \in Int
    BY Known DEF RInv, TypeOK
  <2>3. acquired' = acquired
    BY <1>1
  <2>4. ASSUME acquired # 0
        PROVE  /\ Type = "items" /\ acquired + Len(data') <= Capacity
               /\ Len(item_len') < MaxRingItems
    <3>1. /\ Type = "items" /\ acquired + Len(data) <= Capacity
          /\ Len(item_len) < MaxRingItems
      BY <2>1, <2>4 DEF Reserved
    <3>2. acquired + Len(data') <= Capacity
      BY <1>3, <2>1, <2>2, <3>1
    <3>3. Len(item_len') < MaxRingItems
      BY <1>3, <1>11, <3>1
    <3> QED BY <3>1, <3>2, <3>3
  <2> QED BY <2>3, <2>4 DEF Reserved
<1>13. Lent'
  <2>1. 0 <= Len(data')
    BY <1>6, <1>9
  <2> QED BY <1>1, <2>1 DEF Lent
<1>14. Prompt'
  <2> SUFFICES ASSUME OneReceiver, NEW i \in Tasks, Waiting(i)' PROVE FALSE
    BY DEF Prompt
  <2>1. borrowed = 0
    BY <1>2 DEF RInv, Prompt
  <2> QED BY <1>5, <2>1
<1>15. Len(item_len') <= MaxRingItems
  BY <1>3, <1>4, <1>11
<1>16. /\ alive' \in BOOLEAN
       /\ sent' \in 0 .. MaxBytes /\ consumed' \in 0 .. MaxBytes
       /\ sent' - consumed' <= Capacity /\ borrowed' \in Nat
       /\ acquired' \in {0} \cup Sizes /\ slot' \in 0 .. Capacity
       /\ max_size' \in [Tasks -> Amounts] /\ lent' \in Seq(1 .. MaxBytes)
       /\ ends' \subseteq 1 .. MaxBytes
  BY <1>1, <1>4, <1>6 DEF RInv, TypeOK
<1> QED BY <1>2, <1>8, <1>10, <1>11, <1>12, <1>13, <1>14, <1>15, <1>16, Assemble DEF GoodStep

\* The buffer is deleted with what it stores.
LEMMA DeleteStep ==
    ASSUME RingAssumption, RInv, NEW c \in Cores, VRingbufferDelete(c)
    PROVE  GoodStep
<1>1. /\ borrowed = 0 /\ alive' = FALSE /\ data' = <<>> /\ item_len' = <<>>
      /\ acquired' = 0 /\ consumed' = sent /\ NoSwitch
      /\ \A i \in Tasks : ~Waiting(i)
      /\ UNCHANGED <<slot, borrowed, max_size, holder, lent, sent, ends>>
  BY DEF VRingbufferDelete
<1>2. /\ SchedInv' /\ Obeyed /\ \A i \in Tasks : Waiting(i)' <=> Waiting(i)
  BY <1>1, CallStep
<1>3. /\ Capacity \in Nat /\ MaxBytes \in Nat /\ MaxRingItems \in Nat
  BY Known
<1>4. /\ sent \in 0 .. MaxBytes /\ consumed \in 0 .. MaxBytes
      /\ Itemized(item_len, consumed, sent, ends) /\ item_len \in Seq(Sizes)
  BY Facts
<1>5. sent \in Nat /\ sent <= MaxBytes /\ sent - sent = 0
  BY <1>3, <1>4
<1>6. Run(sent, sent) = <<>>
  BY <1>3, <1>5, RunTyped
<1>7. InOrder' /\ Reserved' /\ Prompt'
  BY <1>1, <1>2, <1>5, <1>6 DEF InOrder, Reserved, Prompt
<1>8. Lent'
  <2>1. 0 <= Len(data')
    BY <1>1
  <2> QED BY <1>1, <2>1 DEF RInv, Lent
<1>9. Itemized(item_len', consumed', sent', ends')
  <2>1. CASE Type = "items"
    <3>1. \A e \in 0 .. MaxBytes : sent < e => e \notin ends
      BY <1>4, <2>1, CutsBound DEF Itemized
    <3>2. Cuts(<<>>, sent, sent, ends)
      BY <1>4, <3>1, CutsNone
    <3> QED BY <1>1, <2>1, <3>2 DEF Itemized
  <2>2. CASE Type # "items"
    BY <1>1, <2>2 DEF Itemized
  <2> QED BY <2>1, <2>2
<1>10. /\ alive' \in BOOLEAN /\ item_len' \in Seq(Sizes) /\ Len(item_len') <= MaxRingItems
       /\ sent' \in 0 .. MaxBytes /\ consumed' \in 0 .. MaxBytes
       /\ sent' - consumed' <= Capacity
  <2>1. item_len' \in Seq(Sizes) /\ Len(item_len') = 0
    BY <1>1
  <2>2. /\ sent' \in 0 .. MaxBytes /\ consumed' \in 0 .. MaxBytes
        /\ sent' - consumed' <= Capacity
    BY <1>1, <1>3, <1>4, <1>5
  <2>3. Len(item_len') <= MaxRingItems
    BY <1>3, <2>1
  <2> QED BY <1>1, <2>1, <2>2, <2>3
<1>11. /\ borrowed' \in Nat
       /\ acquired' \in {0} \cup Sizes /\ slot' \in 0 .. Capacity
       /\ max_size' \in [Tasks -> Amounts] /\ lent' \in Seq(1 .. MaxBytes)
       /\ ends' \subseteq 1 .. MaxBytes
  BY <1>1 DEF RInv, TypeOK
<1> QED BY <1>2, <1>7, <1>8, <1>9, <1>10, <1>11, Assemble DEF GoodStep

\* It is created anew in the same slot.
LEMMA CreateStep ==
    ASSUME RingAssumption, RInv, NEW c \in Cores, XRingbufferCreate(c)
    PROVE  GoodStep
<1>1. /\ alive' = TRUE /\ NoSwitch
      /\ UNCHANGED <<data, item_len, borrowed, acquired, slot, max_size, holder, lent,
                     sent, consumed, ends>>
  BY DEF XRingbufferCreate
<1>2. /\ SchedInv' /\ Obeyed /\ \A i \in Tasks : Waiting(i)' <=> Waiting(i)
  BY <1>1, CallStep
<1>3. Prompt'
  BY <1>1, <1>2 DEF RInv, Prompt
<1>4. max_size' \in [Tasks -> Amounts]
  BY <1>1, Facts
<1> QED BY <1>1, <1>2, <1>3, <1>4, KeptStep DEF GoodStep

\* The buffer is left alone, and no wait begins.
LEMMA QuietStep ==
    ASSUME RingAssumption, RInv, UNCHANGED ringVars, SchedInv', Eased
    PROVE  RInv'
<1>1. Prompt'
  BY DEF RInv, Prompt, Eased, ringVars
<1>2. alive' \in BOOLEAN /\ max_size' \in [Tasks -> Amounts]
  BY Facts DEF RInv, TypeOK, ringVars
<1> QED BY <1>1, <1>2, KeptStep DEF ringVars

\* vTaskSuspend of another task; one that waits only if the firmware does that.
LEMMA SuspendStep ==
    ASSUME RingAssumption, RInv, NEW c \in Cores, NEW j \in Receivers, VTaskSuspend(c, j)
    PROVE  GoodStep
<1> DEFINE w == waits[j] \ {"q", "eg", "notify"}
<1>1. /\ SchedInv /\ j \in AppTasks /\ j \in Tasks
      /\ state \in [Tasks -> States] /\ waits \in [Tasks -> SUBSET WaitKinds]
      /\ running \in [Cores -> BOOLEAN] /\ halted \in [Cores -> BOOLEAN]
  BY Known DEF RInv, SchedInv, SchedTypeOK
<1>2. /\ Edited(j, "suspended", w)
      /\ UNCHANGED <<tableVars, current, exec, slice, scheduler_started, guest_call>>
      /\ UNCHANGED <<running, halted>> /\ UNCHANGED ringVars
      /\ CurrentOn(j) = {} /\ (Waiting(j) => Unusual)
  BY DEF VTaskSuspend, Other, Edited, Tcbs, coreVars, Unusual
<1>3. /\ "suspended" \in States \ {"running"} /\ w \in SUBSET waits[j]
      /\ "rb" \in w => Unusual
      /\ \A k \in Cores : current[k] # j
  BY <1>2 DEF States, Waiting, CurrentOn
<1> HIDE DEF w
<1>4. SchedInv' /\ Eased /\ state' = [state EXCEPT ![j] = "suspended"]
  BY <1>1, <1>2, <1>3, EditStep
<1>5. Obeyed
  BY <1>1, <1>4, AppIsTask DEF Obeyed, Revives
<1>6. RInv'
  BY <1>2, <1>4, QuietStep
<1> QED BY <1>5, <1>6 DEF GoodStep

\* vTaskResume of a suspended task.
LEMMA ResumeStep ==
    ASSUME RingAssumption, RInv, NEW c \in Cores, NEW j \in Receivers, VTaskResume(c, j)
    PROVE  GoodStep
<1>1. /\ SchedInv /\ SchedTypeOK /\ WaitersBlocked /\ j \in AppTasks /\ j \in Tasks
      /\ state \in [Tasks -> States] /\ waits \in [Tasks -> SUBSET WaitKinds]
      /\ running \in [Cores -> BOOLEAN] /\ halted \in [Cores -> BOOLEAN]
  BY Known DEF RInv, SchedInv, SchedTypeOK
<1>2. /\ Commit([Tcbs EXCEPT !.state[j] = "ready"])
      /\ UNCHANGED <<tableVars, current, exec, slice, scheduler_started, guest_call>>
      /\ UNCHANGED <<running, halted>> /\ UNCHANGED ringVars
      /\ CurrentOn(j) = {} /\ state[j] = "suspended"
  BY DEF VTaskResume, Other, coreVars
<1>3. Edited(j, "ready", waits[j])
  BY <1>1, <1>2, StateEdited
<1>4. /\ "ready" \in States \ {"running"} /\ ("rb" \in waits[j] => Unusual)
      /\ \A k \in Cores : current[k] # j
  BY <1>1, <1>2 DEF States, Waiting, WaitersBlocked, CurrentOn
<1>5. SchedInv' /\ Eased /\ state' = [state EXCEPT ![j] = "ready"]
  BY <1>1, <1>2, <1>3, <1>4, EditStep
<1>6. Obeyed
  <2> SUFFICES ASSUME NEW i \in AppTasks, Revives(i) PROVE i = j
    BY DEF Obeyed
  <2> QED BY <1>1, <1>5, AppIsTask DEF Revives
<1>7. RInv'
  BY <1>2, <1>5, QuietStep
<1> QED BY <1>6, <1>7 DEF GoodStep

\* A batch boundary: preemption on one core, or the passing of a tick.
LEMMA BoundaryStep ==
    ASSUME RingAssumption, RInv, (\E c \in Cores : CheckPreempt(c)) \/ Tick
    PROVE  GoodStep
<1>1. SchedInv /\ SchedTypeOK /\ Settled /\ CurrentRuns
  BY DEF RInv, SchedInv
<1>2. ASSUME NEW c \in Cores, CheckPreempt(c)
      PROVE  /\ SchedTypeOK' /\ Settled' /\ CurrentRuns' /\ \A i \in Tasks : Moves(i)
             /\ UNCHANGED ringVars
  <2>1. Preempt(c) /\ UNCHANGED <<scheduler_started, guest_call>> /\ UNCHANGED ringVars
    BY <1>2 DEF CheckPreempt
  <2> QED BY <1>1, <2>1, PreemptMoves
<1>3. ASSUME Tick
      PROVE  /\ SchedTypeOK' /\ Settled' /\ CurrentRuns' /\ \A i \in Tasks : Moves(i)
             /\ UNCHANGED ringVars
  <2>1. SchedTick /\ UNCHANGED guest_call /\ UNCHANGED ringVars
    BY <1>3 DEF Tick
  <2> QED BY <1>1, <2>1, TickMoves
<1>4. /\ SchedTypeOK' /\ Settled' /\ CurrentRuns' /\ \A i \in Tasks : Moves(i)
      /\ UNCHANGED ringVars
  BY <1>2, <1>3
<1>5. SchedInv' /\ Eased /\ NoneRevived
  BY <1>1, <1>4, MovesStep
<1>6. RInv'
  BY <1>4, <1>5, QuietStep
<1> QED BY <1>5, <1>6 DEF GoodStep, Obeyed, NoneRevived

-----------------------------------------------------------------------------
\* The invariant holds of the empty buffer.
LEMMA RInit == RingAssumption /\ Init => RInv
<1> SUFFICES ASSUME RingAssumption, Init PROVE RInv
  OBVIOUS
<1> DEFINE A == [i \in Tasks |-> [prio |-> 1, affinity |-> NoAffinity, is_idle |-> FALSE]]
<1>1. \A i \in Tasks : A[i] \in Attrs
  BY DEF Attrs, NoAffinity, RingAssumption
<1>2. RunningInit(A) /\ MaxTasks >= 2
  BY DEF Init, RingAssumption
<1> HIDE DEF A
<1>3. /\ SchedTypeOK /\ Settled
      /\ \A i \in Tasks : waits[i] = {} /\ state[i] \in {"running", "ready"}
  BY <1>1, <1>2, RunningSettled
<1>4. \A c \in Cores : current[c] \notin AppTasks
  <2>1. current = [c \in Cores |-> MaxTasks - 1 + c]
    BY <1>2 DEF RunningInit
  <2> QED BY <2>1, SchedAssumption DEF Cores, AppTasks
<1>5. SchedInv
  BY <1>3, <1>4 DEF SchedInv, CurrentRuns, WaitersBlocked, Waiting
<1>6. /\ Capacity \in Nat /\ MaxRingItems \in Nat /\ MaxBytes \in Nat
      /\ 0 \in 0 .. MaxBytes /\ 0 \in 0 .. Capacity
  <2>1. Capacity \in Nat /\ MaxRingItems \in Nat /\ MaxBytes \in Nat
    BY Known
  <2> QED BY <2>1
<1>7. TypeOK
  <2>1. Len(<<>>) = 0 /\ 0 <= Capacity /\ 0 <= MaxRingItems
    BY <1>6
  <2>2. max_size \in [Tasks -> Amounts]
    BY DEF Init, Amounts
  <2> QED BY <1>3, <1>6, <2>1, <2>2 DEF Init, TypeOK
<1>8. InOrder
  <2>1. Run(0, 0) = <<>>
    BY <1>6, RunTyped
  <2> QED BY <2>1 DEF Init, InOrder
<1>9. Reserved
  BY DEF Init, Reserved
<1>10. Lent
  <2>1. 0 <= Len(<<>>)
    OBVIOUS
  <2> QED BY <2>1 DEF Init, Lent
<1>11. Prompt
  BY DEF Init, Prompt
<1>12. Itemized(item_len, consumed, sent, ends)
  BY <1>6, CutsNone DEF Init, Itemized
<1> QED BY <1>5, <1>7, <1>8, <1>9, <1>10, <1>11, <1>12 DEF RInv

\* Every step keeps the invariant, and revives nobody who was not resumed.
LEMMA RNext ==
    ASSUME RingAssumption, RInv, [Next]_vars
    PROVE  RInv' /\ (UNCHANGED vars \/ GoodStep)
<1>1. CASE UNCHANGED vars
  <2>1. NoSwitch /\ UNCHANGED ringVars
    BY <1>1 DEF vars, NoSwitch
  <2>2. SchedInv' /\ Eased
    BY <2>1, NoSwitchStep DEF RInv
  <2> QED BY <1>1, <2>1, <2>2, QuietStep
<1>2. ASSUME NEW c \in Cores, NEW n \in Sizes,
             XRingbufferSend(c, n) \/ XRingbufferSendAcquire(c, n)
      PROVE  GoodStep
  BY <1>2, SendStep, AcquireStep
<1>3. ASSUME NEW c \in Cores, NEW limit \in Amounts, XRingbufferReceive(c, limit)
      PROVE  GoodStep
  BY <1>3, ReceiveNowStep, ReceiveWaitsStep DEF XRingbufferReceive
<1>4. ASSUME NEW c \in Cores,
             \/ XRingbufferSendComplete(c) \/ VRingbufferReturnItem(c)
             \/ VRingbufferDelete(c) \/ XRingbufferCreate(c)
      PROVE  GoodStep
  BY <1>4, CompleteStep, ReturnStep, DeleteStep, CreateStep
<1>5. ASSUME NEW c \in Cores, NEW j \in Receivers, VTaskSuspend(c, j) \/ VTaskResume(c, j)
      PROVE  GoodStep
  BY <1>5, SuspendStep, ResumeStep
<1>6. ASSUME (\E c \in Cores : CheckPreempt(c)) \/ Tick
      PROVE  GoodStep
  BY <1>6, BoundaryStep
<1>7. CASE Next
  <2>1. GoodStep
    BY <1>2, <1>3, <1>4, <1>5, <1>6, <1>7 DEF Next
  <2> QED BY <2>1 DEF GoodStep
<1> QED BY <1>1, <1>7

\* What the invariant says of bytes, loans and items.
LEMMA RPromises ==
    ASSUME RingAssumption, RInv
    PROVE  StreamPreserved /\ LoanStable /\ ItemsWhole
<1>1. StreamPreserved
  BY DEF RInv, InOrder, StreamPreserved, Run
<1>2. LoanStable
  <2>1. /\ data = Run(consumed, sent) /\ consumed \in 0 .. MaxBytes /\ sent \in 0 .. MaxBytes
        /\ consumed <= sent /\ Len(data) = sent - consumed
        /\ borrowed \in Nat /\ borrowed <= sent - consumed
    BY Facts
  <2>2. consumed \in Nat /\ sent \in Nat /\ borrowed \in 0 .. (sent - consumed)
    <3>1. MaxBytes \in Nat
      BY Known
    <3> QED BY <2>1, <3>1
  <2>3. SubSeq(data, 1, borrowed) = Run(consumed, consumed + borrowed)
    BY <2>1, <2>2, RunCut
  <2>4. Len(data) >= borrowed
    BY <2>1, <2>2
  <2> QED BY <2>3, <2>4 DEF RInv, Lent, LoanStable
<1>3. ItemsWhole
  <2> SUFFICES ASSUME Type = "items", borrowed # 0, NEW k \in 1 .. borrowed
               PROVE  data[k] \in ends <=> k = borrowed
    BY DEF ItemsWhole
  <2>1. /\ data = Run(consumed, sent) /\ consumed \in 0 .. MaxBytes /\ sent \in 0 .. MaxBytes
        /\ borrowed \in Nat /\ borrowed <= sent - consumed
        /\ item_len \in Seq(Sizes) /\ Cuts(item_len, consumed, sent, ends)
    BY Facts DEF Itemized
  <2>2. item_len # <<>> /\ borrowed = item_len[1]
    BY DEF RInv, Lent
  <2>3. consumed + k \in ends <=> k = borrowed
    BY <2>1, <2>2, CutsFirst
  <2>4. data[k] = consumed + k
    <3>1. MaxBytes \in Nat
      BY Known
    <3> QED BY <2>1, <3>1 DEF Run
  <2> QED BY <2>3, <2>4
<1> QED BY <1>1, <1>2, <1>3

-----------------------------------------------------------------------------
\* For any capacity, sizes, number of bytes and receivers, the invariant holds.
THEOREM RingInvariant == RingAssumption => (Spec => []RInv)
<1> SUFFICES ASSUME RingAssumption PROVE Spec => []RInv
  OBVIOUS
<1>1. Init => RInv
  BY RInit
<1>2. RInv /\ [Next]_vars => RInv'
  BY RNext
<1> QED BY <1>1, <1>2, PTL DEF Spec

\* What is stored is exactly what was sent and not returned, in the order sent,
\* whatever is borrowed, reserved, returned or deleted in between
\* (ringbuffer_append_locked, vRingbufferReturnItem).
THEOREM BytesArriveInOrder == RingAssumption => (Spec => []StreamPreserved)
<1> SUFFICES ASSUME RingAssumption PROVE Spec => []StreamPreserved
  OBVIOUS
<1>1. RInv => StreamPreserved
  BY RPromises
<1> QED BY <1>1, RingInvariant, PTL

\* A pointer that a receive returned stays usable until it is given back: nothing
\* moves or overwrites what is lent (rb->borrowed).
THEOREM LoansStayPut == RingAssumption => (Spec => []LoanStable)
<1> SUFFICES ASSUME RingAssumption PROVE Spec => []LoanStable
  OBVIOUS
<1>1. RInv => LoanStable
  BY RPromises
<1> QED BY <1>1, RingInvariant, PTL

\* A loan from an item buffer is one whole item, from its first byte to its last
\* (rb->item_len, ringbuffer_borrow_locked).
THEOREM LoansAreItems == RingAssumption => (Spec => []ItemsWhole)
<1> SUFFICES ASSUME RingAssumption PROVE Spec => []ItemsWhole
  OBVIOUS
<1>1. RInv => ItemsWhole
  BY RPromises
<1> QED BY <1>1, RingInvariant, PTL

\* A single receiver that nobody suspends while it waits never sleeps beside data that
\* it could be lent (wake_ringbuffer_waiter_locked).
THEOREM ReceiverNotForgotten ==
    RingAssumption /\ OneReceiver => (Spec => []NoLostWakeup)
<1> SUFFICES ASSUME RingAssumption, OneReceiver PROVE Spec => []NoLostWakeup
  OBVIOUS
<1>1. RInv => NoLostWakeup
  BY AppIsTask DEF RInv, Prompt, NoLostWakeup
<1> QED BY <1>1, RingInvariant, PTL

\* Unless a task that waits for data is suspended, a suspended task stays so until it
\* is resumed (vTaskSuspend leaves rb_waiting set).
THEOREM SuspensionObeyed ==
    RingAssumption /\ ~Unusual => (Spec => SuspendedStays)
<1> SUFFICES ASSUME RingAssumption, ~Unusual PROVE Spec => SuspendedStays
  OBVIOUS
<1>1. RInv /\ [Next]_vars =>
        [\A i \in AppTasks :
            state[i] = "suspended" /\ state'[i] # "suspended" =>
               \E c \in Cores : VTaskResume(c, i)]_vars
  BY RNext DEF GoodStep, Obeyed, Revives
<1> QED BY <1>1, RingInvariant, PTL DEF Spec, SuspendedStays
=============================================================================
