----------------------------- MODULE RingLemmas -----------------------------
(* Facts about ring positions, for every ring length. *)
EXTENDS Ring, TLAPS

\* Euclidean division by the ring length.
LEMMA Division ==
  ASSUME NEW k \in Int
  PROVE  /\ k \div QLen \in Int
         /\ k % QLen \in 0..(QLen - 1)
         /\ k = QLen * (k \div QLen) + (k % QLen)
BY QLenAssumption, Z3

\* A positive multiple of a length is at least that length.
LEMMA MulPos ==
  ASSUME NEW L \in Nat, L >= 2, NEW d \in Int, d >= 1
  PROVE  L * d >= L
OBVIOUS

\* Multiplication distributes over subtraction.
LEMMA MulSub ==
  ASSUME NEW L \in Nat, NEW q \in Int, NEW p \in Int
  PROVE  L * q - L * p = L * (q - p)
OBVIOUS

\* Quotient and remainder are determined by their defining equation.
LEMMA Unique ==
  ASSUME NEW k \in Int, NEW q \in Int, NEW r \in 0..(QLen - 1), k = QLen * q + r
  PROVE  k \div QLen = q /\ k % QLen = r
<1> DEFINE p == k \div QLen
<1> DEFINE s == k % QLen
<1>1. p \in Int /\ s \in 0..(QLen-1) /\ k = QLen * p + s
  BY Division
<1> QED
  <2> HIDE DEF p, s
  <2>1. QLen * q - QLen * p = s - r
    BY <1>1, QLenAssumption
  <2>2. QLen * q - QLen * p = QLen * (q-p) /\ QLen * p - QLen * q = QLen * (p-q)
    BY <1>1, QLenAssumption, MulSub
  <2>3. ~(q - p >= 1)
    <3> SUFFICES ASSUME q - p >= 1 PROVE FALSE OBVIOUS
    <3>1. QLen * (q-p) >= QLen BY <1>1, QLenAssumption, MulPos
    <3> QED BY <3>1, <2>1, <2>2, <1>1, QLenAssumption
  <2>4. ~(p - q >= 1)
    <3> SUFFICES ASSUME p - q >= 1 PROVE FALSE OBVIOUS
    <3>1. QLen * (p-q) >= QLen BY <1>1, QLenAssumption, MulPos
    <3> QED BY <3>1, <2>1, <2>2, <1>1, QLenAssumption
  <2>5. p = q BY <2>3, <2>4, <1>1
  <2>6. s = r BY <2>5, <1>1, QLenAssumption
  <2> QED BY <2>5, <2>6 DEF p, s

\* Every position has a slot.
LEMMA SlotType == ASSUME NEW k \in Int PROVE Slot(k) \in Slots
BY Division DEF Slot, Slots

\* Advancing a head or tail index by i modulo the length, as submit, complete
\* and complete_n of queues.rs do, advances the position by i, and the phase
\* flips exactly when the index wraps.
LEMMA SlotAdd ==
  ASSUME NEW k \in Int, NEW i \in 0..QLen
  PROVE  /\ (Slot(k) + i) % QLen = Slot(k + i)
         /\ Phase(k + i) = IF Slot(k) + i >= QLen THEN ~Phase(k) ELSE Phase(k)
<1> DEFINE q == k \div QLen
<1> DEFINE r == k % QLen
<1>1. q \in Int /\ r \in 0..(QLen-1) /\ k = QLen * q + r
  BY Division
<1> HIDE DEF q, r
<1>2. CASE r + i < QLen
  <2>1. k + i = QLen * q + (r + i) /\ r + i \in 0..(QLen-1)
    BY <1>1, <1>2, QLenAssumption
  <2>2. (k + i) \div QLen = q /\ (k + i) % QLen = r + i
    BY <2>1, <1>1, Unique
  <2>3. r + i = QLen * 0 + (r + i)
    BY <1>1, QLenAssumption
  <2>4. (r + i) % QLen = r + i
    BY <2>1, <2>3, <1>1, Unique
  <2> QED BY <2>2, <2>4, <1>1, <1>2, QLenAssumption DEF Slot, Phase, q, r
<1>3. CASE r + i >= QLen
  <2>1. /\ k + i = QLen * (q + 1) + (r + i - QLen) /\ r + i - QLen \in 0..(QLen-1)
    BY <1>1, <1>3, QLenAssumption
  <2>2. (k + i) \div QLen = q + 1 /\ (k + i) % QLen = r + i - QLen
    BY <2>1, <1>1, Unique
  <2>3. r + i = QLen * 1 + (r + i - QLen)
    BY <1>1, QLenAssumption
  <2>4. (r + i) % QLen = r + i - QLen
    BY <2>1, <2>3, <1>1, Unique
  <2>5. ((q + 1) % 2 = 0) = ~(q % 2 = 0)
    BY <1>1
  <2> QED BY <2>2, <2>4, <2>5, <1>1, <1>3, QLenAssumption DEF Slot, Phase, q, r
<1> QED BY <1>1, <1>2, <1>3, QLenAssumption

\* An index that is advanced by one reads 0 exactly when it wraps.
LEMMA WrapsToZero ==
  ASSUME NEW k \in Int
  PROVE  Slot(k) + 1 >= QLen <=> (Slot(k) + 1) % QLen = 0
<1>1. Slot(k) \in 0..(QLen - 1)
  BY SlotType DEF Slots
<1> HIDE DEF Slot
<1> QED BY <1>1, QLenAssumption

\* One lap later the slot is the same and the phase the opposite.
LEMMA SlotLap ==
  ASSUME NEW k \in Int
  PROVE  Slot(k + QLen) = Slot(k) /\ Phase(k + QLen) = ~Phase(k)
<1>1. Slot(k) \in 0..(QLen-1)
  BY SlotType DEF Slots
<1>2. (Slot(k) + QLen) % QLen = Slot(k)
  <2>1. Slot(k) + QLen = QLen * 1 + Slot(k)
    BY <1>1, QLenAssumption
  <2> QED BY <1>1, <2>1, QLenAssumption, Unique
<1> QED BY <1>1, <1>2, SlotAdd, QLenAssumption

\* Positions less than one lap apart have different slots.
LEMMA SlotDistinct ==
  ASSUME NEW k \in Int, NEW j \in Int, k < j, j < k + QLen
  PROVE  Slot(k) # Slot(j)
<1> DEFINE i == j - k
<1>1. i \in 0..QLen /\ i > 0 /\ i < QLen /\ k + i = j
  BY QLenAssumption
<1>2. Slot(k) \in 0..(QLen-1)
  BY SlotType DEF Slots
<1> HIDE DEF i
<1>3. (Slot(k) + i) % QLen = Slot(j)
  BY <1>1, SlotAdd
<1>4. CASE Slot(k) + i < QLen
  <2>1. /\ Slot(k) + i \in 0..(QLen - 1)
        /\ Slot(k) + i = QLen * 0 + (Slot(k) + i)
    BY <1>1, <1>2, <1>4, QLenAssumption
  <2>2. (Slot(k) + i) % QLen = Slot(k) + i
    BY <2>1, QLenAssumption, Unique
  <2> QED BY <1>1, <1>2, <1>3, <2>2, QLenAssumption
<1>5. CASE Slot(k) + i >= QLen
  <2>1. /\ Slot(k) + i \in Int
        /\ Slot(k) + i - QLen \in 0..(QLen - 1)
        /\ Slot(k) + i = QLen * 1 + (Slot(k) + i - QLen)
    BY <1>1, <1>2, <1>5, QLenAssumption
  <2>2. (Slot(k) + i) % QLen = Slot(k) + i - QLen
    BY <2>1, Unique
  <2> QED BY <1>1, <1>2, <1>3, <2>2, QLenAssumption
<1> QED BY <1>1, <1>2, <1>4, <1>5, QLenAssumption
=============================================================================
