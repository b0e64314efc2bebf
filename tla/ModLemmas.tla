----------------------------- MODULE ModLemmas -----------------------------
(***************************************************************************)
(* Arithmetic of cyclic indices: facts about a % n that the ring of message *)
(* lengths and the virtqueue rings rest on.                                *)
(***************************************************************************)
EXTENDS Integers, TLAPS

\* A remainder is what is left below n, and it is the only such number.
LEMMA ModUnique ==
  ASSUME NEW n \in Nat \ {0}, NEW q \in Int, NEW r \in 0 .. n - 1
  PROVE  (n * q + r) % n = r
<1> DEFINE a == n * q + r
<1>1. a \in Int
  OBVIOUS
<1>2. a = n * (a \div n) + (a % n) /\ (a % n) \in 0 .. n - 1 /\ (a \div n) \in Int
  BY <1>1
<1>3. PICK d \in Int, m \in 0 .. n - 1 : a = n * d + m /\ m = a % n
  BY <1>2
<1>4. n * (q - d) = m - r
  BY <1>3
<1>5. q - d = 0
  <2>1. CASE q - d >= 1
    <3>1. n * (q - d) >= n
      BY <2>1
    <3>2. QED
      BY <3>1, <1>4, <1>3
  <2>2. CASE q - d <= -1
    <3>1. n * (q - d) <= -n
      BY <2>2
    <3>2. QED
      BY <3>1, <1>4, <1>3
  <2>3. QED
    BY <2>1, <2>2
<1>6. QED
  BY <1>3, <1>4, <1>5

\* Every integer splits into a multiple of n and its remainder.
LEMMA ModSplit ==
  ASSUME NEW n \in Nat \ {0}, NEW a \in Int
  PROVE  \E q \in Int : a = n * q + (a % n) /\ (a % n) \in 0 .. n - 1
<1>1. a = n * (a \div n) + (a % n) /\ (a % n) \in 0 .. n - 1 /\ (a \div n) \in Int
  OBVIOUS
<1>2. QED
  BY <1>1

\* Advancing a cyclic index by k is advancing the count by k.
LEMMA ModAdd ==
  ASSUME NEW n \in Nat \ {0}, NEW a \in Int, NEW k \in Int
  PROVE  ((a % n) + k) % n = (a + k) % n
<1>1. PICK q \in Int : a = n * q + (a % n) /\ (a % n) \in 0 .. n - 1
  BY ModSplit
<1> DEFINE b == (a % n) + k
<1>2. PICK p \in Int : b = n * p + (b % n) /\ (b % n) \in 0 .. n - 1
  <2>1. b \in Int
    BY <1>1
  <2>2. QED
    BY <2>1, ModSplit
<1>3. a + k = n * (q + p) + (b % n)
  <2>1. n * (q + p) = n * q + n * p
    OBVIOUS
  <2>2. QED
    BY <2>1, <1>1, <1>2
<1>4. (n * (q + p) + (b % n)) % n = b % n
  BY <1>2, ModUnique
<1>5. QED
  BY <1>3, <1>4

\* n further is the same slot.
LEMMA ModWrap ==
  ASSUME NEW n \in Nat \ {0}, NEW a \in Int
  PROVE  (a + n) % n = a % n
<1>1. PICK q \in Int : a = n * q + (a % n) /\ (a % n) \in 0 .. n - 1
  BY ModSplit
<1>2. a + n = n * (q + 1) + (a % n)
  BY <1>1
<1>3. (n * (q + 1) + (a % n)) % n = a % n
  <2>1. \A p \in Int : (n * p + (a % n)) % n = a % n
    BY <1>1, ModUnique
  <2>2. q + 1 \in Int
    OBVIOUS
  <2>3. QED
    BY <2>1, <2>2
<1>4. QED
  BY <1>2, <1>3

\* Two counts less than n apart have different slots.
LEMMA ModDistinct ==
  ASSUME NEW n \in Nat \ {0}, NEW a \in Int, NEW b \in Int, a < b, b - a < n
  PROVE  a % n # b % n
<1>1. PICK q \in Int : a = n * q + (a % n) /\ (a % n) \in 0 .. n - 1
  BY ModSplit
<1>2. PICK p \in Int : b = n * p + (b % n) /\ (b % n) \in 0 .. n - 1
  BY ModSplit
<1>3. SUFFICES ASSUME a % n = b % n PROVE FALSE
  OBVIOUS
<1>4. n * (p - q) = b - a
  BY <1>1, <1>2, <1>3
<1>5. CASE p - q >= 1
  <2>1. n * (p - q) >= n
    BY <1>5
  <2>2. QED
    BY <2>1, <1>4
<1>6. CASE p - q <= 0
  <2>1. n * (p - q) <= 0
    BY <1>6
  <2>2. QED
    BY <2>1, <1>4
<1>7. QED
  BY <1>5, <1>6

\* A remainder for a multiple of n leaves the remainder for n as it is.
LEMMA ModCoarser ==
  ASSUME NEW n \in Nat \ {0}, NEW m \in Nat \ {0}, m % n = 0, NEW a \in Int
  PROVE  (a % m) % n = a % n
<1>1. PICK k \in Int : m = n * k
  <2>1. m \in Int /\ n \in Nat \ {0}
    OBVIOUS
  <2>2. PICK j \in Int : m = n * j + (m % n)
    BY <2>1, ModSplit
  <2>3. n * j + 0 = n * j
    OBVIOUS
  <2>4. QED
    BY <2>2, <2>3
<1>2. PICK q \in Int : a = m * q + (a % m) /\ (a % m) \in 0 .. m - 1
  BY ModSplit
<1>3. PICK p \in Int : a = n * p + (a % n) /\ (a % n) \in 0 .. n - 1
  BY ModSplit
<1>4. m * q = n * (k * q)
  BY <1>1
<1>5. a % m = n * (p - k * q) + (a % n)
  <2>1. n * (p - k * q) = n * p - n * (k * q)
    OBVIOUS
  <2>2. a % m \in Int /\ a % n \in Int /\ m * q \in Int /\ n * p \in Int
    BY <1>2, <1>3
  <2>3. a % m = a - m * q
    BY <1>2, <2>2
  <2>4. a % m = (n * p + (a % n)) - n * (k * q)
    BY <2>3, <1>3, <1>4
  <2>5. QED
    BY <2>1, <2>2, <2>4
<1>6. p - k * q \in Int
  OBVIOUS
<1>7. (n * (p - k * q) + (a % n)) % n = a % n
  <2> DEFINE d == p - k * q
  <2> HIDE DEF d
  <2>1. d \in Int
    BY <1>6 DEF d
  <2>2. (n * d + (a % n)) % n = a % n
    BY <1>3, <2>1, ModUnique
  <2>3. QED
    BY <2>2 DEF d
<1>8. QED
  BY <1>5, <1>7

\* The difference of two remainders is the difference of the counts.
LEMMA ModDifference ==
  ASSUME NEW n \in Nat \ {0}, NEW a \in Int, NEW b \in Int, a <= b, b - a < n
  PROVE  ((b % n) - (a % n)) % n = b - a
<1>1. PICK q \in Int : a = n * q + (a % n) /\ (a % n) \in 0 .. n - 1
  BY ModSplit
<1>2. PICK p \in Int : b = n * p + (b % n) /\ (b % n) \in 0 .. n - 1
  BY ModSplit
<1>3. (b % n) - (a % n) = n * (q - p) + (b - a)
  <2>1. n * (q - p) = n * q - n * p
    OBVIOUS
  <2>2. QED
    BY <2>1, <1>1, <1>2
<1>4. \A j \in Int : (n * j + (b - a)) % n = b - a
  BY ModUnique
<1>5. q - p \in Int
  OBVIOUS
<1>6. (n * (q - p) + (b - a)) % n = b - a
  BY <1>4, <1>5
<1>7. QED
  BY <1>3, <1>6

\* A number below the modulus is its own remainder.
LEMMA ModSmall ==
  ASSUME NEW n \in Nat \ {0}, NEW x \in 0 .. n - 1
  PROVE  x % n = x
<1>1. n * 0 + x = x
  OBVIOUS
<1>2. (n * 0 + x) % n = x
  BY ModUnique
<1>3. QED
  BY <1>1, <1>2
=============================================================================
