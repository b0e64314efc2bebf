--------------------------- MODULE PruRpmsgProofs ---------------------------
(***************************************************************************)
(* RPMsg over two virtqueues, proved for rings of any size, counters of    *)
(* any width that is a multiple of it, and any number of messages.         *)
(*                                                                         *)
(* The free-running indices are remainders of counts: of the buffers       *)
(* offered (o), taken (t), returned (r), filled in (f) and collected (c).  *)
(* Since each side hands buffers on in the order it got them, the x-th     *)
(* buffer is always descriptor x % NUM, and both rings say so.             *)
(***************************************************************************)
EXTENDS PruRpmsg, ModLemmas, FiniteSetTheorems

----------------------------------------------------------------------------
(* The operators of PruVirtqueue, on a queue whose counts are known.       *)

Counts(c, f, r, t, o) ==
  /\ c \in Nat /\ f \in Nat /\ r \in Nat /\ t \in Nat /\ o \in Nat
  /\ c <= f /\ f <= r /\ r <= t /\ t <= o /\ o <= c + NUM

\* The descriptors of the buffers from a up to, not including, b.
Buffers(a, b) == {x % NUM : x \in a .. b - 1}

Ring(v, c, f, r, t, o) ==
  /\ v.avail.idx = o % IDX_MOD
  /\ v.last_avail_idx = t % IDX_MOD
  /\ v.used.idx = r % IDX_MOD
  /\ v.last_used_idx = c % IDX_MOD
  /\ v.out = Buffers(c, o)
  /\ ~v.broken
  /\ \A x \in t .. o - 1 : v.avail.ring[x % NUM] = x % NUM
  /\ \A x \in c .. f - 1 : v.used.ring[x % NUM] = x % NUM

LEMMA Sizes ==
  /\ NUM \in Nat \ {0}
  /\ IDX_MOD \in Nat \ {0}
  /\ NUM < IDX_MOD
  /\ IDX_MOD % NUM = 0
  BY VirtqueueAssumption

\* The slot of an index is the slot of its count.
LEMMA SlotOfCount == ASSUME NEW x \in Int PROVE Slot(x % IDX_MOD) = x % NUM
  BY Sizes, ModCoarser DEF Slot

LEMMA SlotIsDesc == ASSUME NEW x \in Int PROVE x % NUM \in Desc
<1>1. x % NUM \in 0 .. NUM - 1
  BY Sizes, ModSplit
<1>2. QED
  BY <1>1 DEF Desc

LEMMA AddToIndex ==
  ASSUME NEW x \in Int, NEW k \in Int
  PROVE  ((x % IDX_MOD) + k) % IDX_MOD = (x + k) % IDX_MOD
  BY Sizes, ModAdd

LEMMA NextOfCount == ASSUME NEW x \in Int PROVE Next16(x % IDX_MOD) = (x + 1) % IDX_MOD
<1>1. 1 \in Int
  OBVIOUS
<1>2. QED
  BY <1>1, AddToIndex DEF Next16

\* Indices are equal only if their counts are, as counts are at most NUM apart.
LEMMA EqualIndices ==
  ASSUME NEW a \in Nat, NEW b \in Nat, a <= b, b <= a + NUM, a % IDX_MOD = b % IDX_MOD
  PROVE  a = b
<1>1. CASE a < b
  <2>1. b - a < IDX_MOD /\ a \in Int /\ b \in Int
    BY Sizes
  <2>2. a % IDX_MOD # b % IDX_MOD
    BY <1>1, <2>1, Sizes, ModDistinct
  <2>3. QED
    BY <2>2
<1>2. QED
  BY <1>1

\* NUM buffers in a row have different descriptors.
LEMMA DistinctBuffers ==
  ASSUME NEW c \in Nat, NEW o \in Nat, o <= c + NUM,
         NEW x \in c .. o - 1, NEW y \in c .. o - 1, x % NUM = y % NUM
  PROVE  x = y
<1>1. x \in Int /\ y \in Int /\ y - x < NUM /\ x - y < NUM
  BY Sizes
<1>2. ~(x < y)
  BY <1>1, Sizes, ModDistinct
<1>3. ~(y < x)
  BY <1>1, Sizes, ModDistinct
<1>4. QED
  BY <1>1, <1>2, <1>3

\* The PRU takes the oldest buffer it was offered.
LEMMA TakeRing ==
  ASSUME NEW v \in Virtqueue, NEW c, NEW t, NEW o,
         Counts(c, t, t, t, o), Ring(v, c, t, t, t, o), ~NoBufAvailable(v)
  PROVE  /\ t < o
         /\ AvailHead(v) = t % NUM
         /\ Counts(c, t, t, t + 1, o)
         /\ Ring(pru_virtqueue_get_avail_buf(v), c, t, t, t + 1, o)
<1> USE DEF Counts
<1>1. t < o
  BY DEF Ring, NoBufAvailable
<1>2. AvailHead(v) = t % NUM
  <2>1. t \in t .. o - 1
    BY <1>1
  <2>2. AvailHead(v) = v.avail.ring[t % NUM]
    BY SlotOfCount DEF Ring, AvailHead
  <2>3. QED
    BY <2>1, <2>2 DEF Ring
<1>3. Ring(pru_virtqueue_get_avail_buf(v), c, t, t, t + 1, o)
  <2> DEFINE w == pru_virtqueue_get_avail_buf(v)
  <2>1. /\ w.avail = v.avail /\ w.used = v.used /\ w.last_used_idx = v.last_used_idx
        /\ w.out = v.out /\ w.broken = v.broken
        /\ w.last_avail_idx = Next16(v.last_avail_idx)
    BY DEF pru_virtqueue_get_avail_buf, Virtqueue
  <2>2. w.last_avail_idx = (t + 1) % IDX_MOD
    BY <2>1, NextOfCount DEF Ring
  <2> HIDE DEF w
  <2>3. Ring(w, c, t, t, t + 1, o)
    BY <2>1, <2>2 DEF Ring
  <2>4. QED
    BY <2>3 DEF w
<1>4. QED
  BY <1>1, <1>2, <1>3

\* No buffer is available exactly when all that were offered are taken.
LEMMA NoneToTake ==
  ASSUME NEW v, NEW c, NEW f, NEW r, NEW t, NEW o,
         Counts(c, f, r, t, o), Ring(v, c, f, r, t, o), NoBufAvailable(v)
  PROVE  t = o
<1>1. t \in Nat /\ o \in Nat /\ t <= o /\ o <= t + NUM
  BY Sizes DEF Counts
<1>2. t % IDX_MOD = o % IDX_MOD
  BY DEF Ring, NoBufAvailable
<1>3. QED
  BY <1>1, <1>2, EqualIndices

\* The first store of pru_virtqueue_add_used_buf publishes the next entry ...
LEMMA PublishRing ==
  ASSUME NEW v \in Virtqueue, NEW c, NEW r, NEW t, NEW o,
         Counts(c, r, r, t, o), Ring(v, c, r, r, t, o), r < t
  PROVE  /\ UsedElem(v) = r % NUM
         /\ Counts(c, r, r + 1, t, o)
         /\ Ring(PublishUsed(v), c, r, r + 1, t, o)
<1> USE DEF Counts
<1>1. UsedElem(v) = r % NUM
  BY SlotOfCount DEF Ring, UsedElem
<1> DEFINE w == PublishUsed(v)
<1>2. /\ w.avail = v.avail /\ w.last_avail_idx = v.last_avail_idx
      /\ w.last_used_idx = v.last_used_idx /\ w.out = v.out /\ w.broken = v.broken
      /\ w.used.ring = v.used.ring /\ w.used.idx = Next16(v.used.idx)
  BY DEF PublishUsed, Virtqueue
<1>3. w.used.idx = (r + 1) % IDX_MOD
  BY <1>2, NextOfCount DEF Ring
<1> HIDE DEF w
<1>4. Ring(w, c, r, r + 1, t, o)
  BY <1>2, <1>3 DEF Ring
<1>5. QED
  BY <1>1, <1>4 DEF w

\* ... and the second fills it in.
LEMMA FillRing ==
  ASSUME NEW v \in Virtqueue, NEW c, NEW f, NEW t, NEW o,
         Counts(c, f, f + 1, t, o), Ring(v, c, f, f + 1, t, o)
  PROVE  /\ Counts(c, f + 1, f + 1, t, o)
         /\ Ring(FillUsed(v, f % NUM, f % NUM), c, f + 1, f + 1, t, o)
<1> USE DEF Counts
<1> DEFINE w == FillUsed(v, f % NUM, f % NUM)
<1>1. f % NUM \in Desc
  BY SlotIsDesc
<1>2. /\ w.avail = v.avail /\ w.last_avail_idx = v.last_avail_idx
      /\ w.last_used_idx = v.last_used_idx /\ w.out = v.out /\ w.broken = v.broken
      /\ w.used.idx = v.used.idx
      /\ w.used.ring = [v.used.ring EXCEPT ![f % NUM] = f % NUM]
  BY DEF FillUsed, Virtqueue
<1>3. ASSUME NEW x \in c .. f PROVE w.used.ring[x % NUM] = x % NUM
  <2>1. x % NUM \in Desc
    BY SlotIsDesc
  <2>2. v.used.ring \in [Desc -> Desc]
    BY DEF Virtqueue
  <2>3. CASE x = f
    BY <2>3, <2>1, <2>2, <1>2
  <2>4. CASE x # f
    <3>1. x % NUM # f % NUM
      BY <2>4, DistinctBuffers
    <3>2. v.used.ring[x % NUM] = x % NUM
      BY <2>4 DEF Ring
    <3>3. QED
      BY <3>1, <3>2, <2>1, <2>2, <1>2, <1>1
  <2>5. QED
    BY <2>3, <2>4
<1> HIDE DEF w
<1>4. Ring(w, c, f + 1, f + 1, t, o)
  BY <1>2, <1>3 DEF Ring
<1>5. QED
  BY <1>4 DEF w

\* The ARM sees an entry exactly when it has not collected all that came back.
LEMMA SeesReturned ==
  ASSUME NEW v, NEW c, NEW f, NEW r, NEW t, NEW o,
         Counts(c, f, r, t, o), Ring(v, c, f, r, t, o)
  PROVE  MoreUsed(v) <=> c < r
<1>1. c \in Nat /\ r \in Nat /\ c <= r /\ r <= c + NUM
  BY Sizes DEF Counts
<1>2. MoreUsed(v) <=> c % IDX_MOD # r % IDX_MOD
  BY DEF Ring, MoreUsed
<1>3. c % IDX_MOD = r % IDX_MOD => c = r
  BY <1>1, EqualIndices
<1>4. QED
  BY <1>1, <1>2, <1>3

\* What the ARM collects is the oldest buffer that came back.
LEMMA CollectRing ==
  ASSUME NEW v \in Virtqueue, NEW c, NEW r, NEW t, NEW o,
         Counts(c, r, r, t, o), Ring(v, c, r, r, t, o), MoreUsed(v)
  PROVE  /\ c < r
         /\ UsedHead(v) = c % NUM
         /\ UsedHead(v) \in v.out
         /\ Counts(c + 1, r, r, t, o)
         /\ Ring(virtqueue_get_buf(v), c + 1, r, r, t, o)
<1> USE DEF Counts
<1>1. c < r
  BY SeesReturned
<1>2. UsedHead(v) = c % NUM
  <2>1. UsedHead(v) = v.used.ring[c % NUM]
    BY SlotOfCount DEF Ring, UsedHead
  <2>2. c \in c .. r - 1
    BY <1>1
  <2>3. QED
    BY <2>1, <2>2 DEF Ring
<1>3. UsedHead(v) \in v.out
  BY <1>1, <1>2 DEF Ring, Buffers
<1> DEFINE w == virtqueue_get_buf(v)
<1>4. /\ w.avail = v.avail /\ w.last_avail_idx = v.last_avail_idx
      /\ w.used = v.used /\ w.broken = v.broken
      /\ w.out = v.out \ {c % NUM}
      /\ w.last_used_idx = Next16(v.last_used_idx)
  BY <1>2, <1>3 DEF virtqueue_get_buf, Virtqueue
<1>5. w.last_used_idx = (c + 1) % IDX_MOD
  BY <1>4, NextOfCount DEF Ring
<1>6. w.out = Buffers(c + 1, o)
  <2>1. \A x \in c + 1 .. o - 1 : x % NUM # c % NUM
    BY <1>1, DistinctBuffers
  <2>2. Buffers(c, o) \ {c % NUM} = Buffers(c + 1, o)
    BY <2>1, <1>1 DEF Buffers
  <2>3. QED
    BY <2>2, <1>4 DEF Ring
<1> HIDE DEF w
<1>7. Ring(w, c + 1, r, r, t, o)
  BY <1>4, <1>5, <1>6 DEF Ring
<1>8. QED
  BY <1>1, <1>2, <1>3, <1>7, Sizes DEF w

\* The ARM offers the next buffer in turn.
LEMMA AddRing ==
  ASSUME NEW v \in Virtqueue, NEW c, NEW f, NEW r, NEW t, NEW o,
         Counts(c, f, r, t, o), Ring(v, c, f, r, t, o), o < c + NUM
  PROVE  /\ Counts(c, f, r, t, o + 1)
         /\ Ring(virtqueue_add(v, o % NUM), c, f, r, t, o + 1)
<1> USE DEF Counts
<1> DEFINE w == virtqueue_add(v, o % NUM)
<1>1. o % NUM \in Desc /\ Slot(v.avail.idx) = o % NUM
  BY SlotIsDesc, SlotOfCount DEF Ring
<1>2. /\ w.used = v.used /\ w.last_avail_idx = v.last_avail_idx
      /\ w.last_used_idx = v.last_used_idx /\ w.broken = v.broken
      /\ w.out = v.out \union {o % NUM}
      /\ w.avail.idx = Next16(v.avail.idx)
      /\ w.avail.ring = [v.avail.ring EXCEPT ![o % NUM] = o % NUM]
  BY <1>1 DEF virtqueue_add, Virtqueue
<1>3. w.avail.idx = (o + 1) % IDX_MOD
  BY <1>2, NextOfCount DEF Ring
<1>4. w.out = Buffers(c, o + 1)
  BY <1>2 DEF Ring, Buffers
<1>5. ASSUME NEW x \in t .. o PROVE w.avail.ring[x % NUM] = x % NUM
  <2>1. x % NUM \in Desc
    BY SlotIsDesc
  <2>2. v.avail.ring \in [Desc -> Desc]
    BY DEF Virtqueue
  <2>3. x # o => v.avail.ring[x % NUM] = x % NUM
    BY DEF Ring
  <2>4. QED
    BY <2>1, <2>2, <2>3, <1>2
<1> HIDE DEF w
<1>6. Ring(w, c, f, r, t, o + 1)
  BY <1>2, <1>3, <1>4, <1>5 DEF Ring
<1>7. QED
  BY <1>6, Sizes DEF w

\* The flag is not part of it.
LEMMA FlagRing ==
  ASSUME NEW v \in Virtqueue, NEW c, NEW f, NEW r, NEW t, NEW o, Ring(v, c, f, r, t, o)
  PROVE  /\ Ring(virtqueue_enable_cb(v), c, f, r, t, o)
         /\ Ring(virtqueue_disable_cb(v), c, f, r, t, o)
  BY DEF Ring, virtqueue_enable_cb, virtqueue_disable_cb, Virtqueue

\* pru_rpmsg_init finds the index of nothing taken.
LEMMA InitRing ==
  ASSUME NEW v \in Virtqueue, NEW c, NEW f, NEW r, NEW o, Ring(v, c, f, r, 0, o)
  PROVE  Ring(pru_virtqueue_init(v), c, f, r, 0, o)
<1>1. 0 % IDX_MOD = 0
  BY Sizes, ModSmall
<1>2. QED
  BY <1>1 DEF Ring, pru_virtqueue_init, Virtqueue

LEMMA EmptyRing ==
  /\ Counts(0, 0, 0, 0, 0)
  /\ Ring(vring_init, 0, 0, 0, 0, 0)
<1>1. 0 % IDX_MOD = 0
  BY Sizes, ModSmall
<1>2. QED
  BY <1>1, Sizes DEF Counts, Ring, Buffers, vring_init

\* The host offers all buffers, in order.
LEMMA AddAllRing ==
  ASSUME NEW v \in Virtqueue, Ring(v, 0, 0, 0, 0, 0)
  PROVE  /\ Counts(0, 0, 0, 0, NUM)
         /\ Ring(virtqueue_add_all(v), 0, 0, 0, 0, NUM)
<1> DEFINE w == virtqueue_add_all(v)
<1>1. NUM % IDX_MOD = NUM
  BY Sizes, ModSmall
<1>2. \A x \in 0 .. NUM - 1 : x % NUM = x
  BY Sizes, ModSmall
<1>3. Buffers(0, NUM) = Desc
  BY <1>2 DEF Buffers, Desc
<1>4. /\ w.used = v.used /\ w.last_avail_idx = v.last_avail_idx
      /\ w.last_used_idx = v.last_used_idx /\ w.broken = v.broken
      /\ w.out = Desc /\ w.avail.idx = NUM /\ w.avail.ring = [d \in Desc |-> d]
  BY DEF virtqueue_add_all, Virtqueue
<1> HIDE DEF w
<1>5. Ring(w, 0, 0, 0, 0, NUM)
  BY <1>1, <1>2, <1>3, <1>4, Sizes DEF Ring, Desc
<1>6. QED
  BY <1>5, Sizes DEF Counts, w

----------------------------------------------------------------------------
(* Who owns a descriptor, in terms of the counts.                          *)

LEMMA BetweenCounts ==
  ASSUME NEW a \in Nat, NEW b \in Nat, a <= b, b <= a + NUM
  PROVE  Between(a % IDX_MOD, b % IDX_MOD) = {x % IDX_MOD : x \in a .. b - 1}
<1>1. ((b % IDX_MOD) - (a % IDX_MOD)) % IDX_MOD = b - a
  <2>1. a \in Int /\ b \in Int /\ b - a < IDX_MOD
    BY Sizes
  <2>2. QED
    BY <2>1, Sizes, ModDifference
<1>2. Between(a % IDX_MOD, b % IDX_MOD) = {((a % IDX_MOD) + k) % IDX_MOD : k \in 0 .. (b - a) - 1}
  BY <1>1 DEF Between
<1>3. \A k \in 0 .. (b - a) - 1 : ((a % IDX_MOD) + k) % IDX_MOD = (a + k) % IDX_MOD
  <2>1. a \in Int /\ \A k \in 0 .. (b - a) - 1 : k \in Int
    OBVIOUS
  <2>2. QED
    BY <2>1, AddToIndex
<1>4. \A x \in a .. b - 1 : x - a \in 0 .. (b - a) - 1 /\ x = a + (x - a)
  OBVIOUS
<1>5. \A k \in 0 .. (b - a) - 1 : a + k \in a .. b - 1
  OBVIOUS
<1>6. QED
  BY <1>2, <1>3, <1>4, <1>5

\* The entries of a ring that hold descriptor d, and the buffers that have it.
Entries(ring, i, j, d) == {k \in Between(i, j) : ring[Slot(k)] = d}
Having(a, b, d) == {x \in a .. b - 1 : x % NUM = d}
Indices(S) == {x % IDX_MOD : x \in S}

LEMMA EntriesOf ==
  ASSUME NEW a \in Nat, NEW b \in Nat, a <= b, b <= a + NUM,
         NEW ring, \A x \in a .. b - 1 : ring[x % NUM] = x % NUM, NEW d
  PROVE  Entries(ring, a % IDX_MOD, b % IDX_MOD, d) = Indices(Having(a, b, d))
<1>1. \A x \in a .. b - 1 : Slot(x % IDX_MOD) = x % NUM
  <2>1. \A x \in a .. b - 1 : x \in Int
    OBVIOUS
  <2>2. QED
    BY <2>1, SlotOfCount
<1>2. Between(a % IDX_MOD, b % IDX_MOD) = {x % IDX_MOD : x \in a .. b - 1}
  BY BetweenCounts
<1>3. QED
  BY <1>1, <1>2 DEF Entries, Having, Indices

\* Each descriptor is in one place, or in none if it was not handed out. The
\* PRU holds the buffer it has taken and not returned, if there is one.
LEMMA RingOwnedOnce ==
  ASSUME NEW v \in Virtqueue, NEW c, NEW r, NEW t, NEW o,
         Counts(c, r, r, t, o), Ring(v, c, r, r, t, o), t <= r + 1, NEW d \in Desc
  PROVE  OwnedOnce(v, {x % NUM : x \in r .. t - 1}, d)
<1> USE DEF Counts
<1> DEFINE O == Having(t, o, d)
           R == Having(c, r, d)
           H == {x % NUM : x \in r .. t - 1} \intersect {d}
<1>1. Offers(v, d) = Indices(O)
  <2>1. t \in Nat /\ o \in Nat /\ t <= o /\ o <= t + NUM
    BY Sizes
  <2>2. \A x \in t .. o - 1 : v.avail.ring[x % NUM] = x % NUM
    BY DEF Ring
  <2>3. Offers(v, d) = Entries(v.avail.ring, t % IDX_MOD, o % IDX_MOD, d)
    BY DEF Offers, Entries, Ring
  <2>4. QED
    BY <2>1, <2>2, <2>3, EntriesOf
<1>2. Returns(v, d) = Indices(R)
  <2>1. c \in Nat /\ r \in Nat /\ c <= r /\ r <= c + NUM
    BY Sizes
  <2>2. \A x \in c .. r - 1 : v.used.ring[x % NUM] = x % NUM
    BY DEF Ring
  <2>3. Returns(v, d) = Entries(v.used.ring, c % IDX_MOD, r % IDX_MOD, d)
    BY DEF Returns, Entries, Ring
  <2>4. QED
    BY <2>1, <2>2, <2>3, EntriesOf
<1>3. d \in v.out <=> \E x \in c .. o - 1 : x % NUM = d
  BY DEF Ring, Buffers
<1>4. ASSUME d \notin v.out PROVE OwnedOnce(v, {x % NUM : x \in r .. t - 1}, d)
  <2>1. O = {} /\ R = {} /\ H = {}
    BY <1>3, <1>4 DEF Having
  <2>2. Offers(v, d) = {} /\ Returns(v, d) = {}
    BY <2>1, <1>1, <1>2 DEF Indices
  <2>3. Cardinality(Offers(v, d)) = 0 /\ Cardinality(Returns(v, d)) = 0 /\ Cardinality(H) = 0
    BY <2>1, <2>2, FS_EmptySet
  <2>4. QED
    BY <2>3, <1>4 DEF OwnedOnce
<1>5. ASSUME d \in v.out PROVE OwnedOnce(v, {x % NUM : x \in r .. t - 1}, d)
  <2>1. PICK x \in c .. o - 1 : x % NUM = d
    BY <1>3, <1>5
  <2>2. \A y \in c .. o - 1 : y % NUM = d => y = x
    BY <2>1, DistinctBuffers
  <2>3. CASE x < r
    <3>1. R = {x} /\ O = {} /\ H = {}
      BY <2>1, <2>2, <2>3 DEF Having
    <3>2. Offers(v, d) = {} /\ Returns(v, d) = {x % IDX_MOD}
      BY <3>1, <1>1, <1>2 DEF Indices
    <3>3. Cardinality(Offers(v, d)) = 0 /\ Cardinality(Returns(v, d)) = 1 /\ Cardinality(H) = 0
      BY <3>1, <3>2, FS_EmptySet, FS_Singleton
    <3>4. QED
      BY <3>3, <1>5 DEF OwnedOnce
  <2>4. CASE r <= x /\ x < t
    <3>1. R = {} /\ O = {} /\ H = {d}
      BY <2>1, <2>2, <2>4 DEF Having
    <3>2. Offers(v, d) = {} /\ Returns(v, d) = {}
      BY <3>1, <1>1, <1>2 DEF Indices
    <3>3. Cardinality(Offers(v, d)) = 0 /\ Cardinality(Returns(v, d)) = 0 /\ Cardinality(H) = 1
      BY <3>1, <3>2, FS_EmptySet, FS_Singleton
    <3>4. QED
      BY <3>3, <1>5 DEF OwnedOnce
  <2>5. CASE t <= x
    <3>1. R = {} /\ O = {x} /\ H = {}
      BY <2>1, <2>2, <2>5 DEF Having
    <3>2. Offers(v, d) = {x % IDX_MOD} /\ Returns(v, d) = {}
      BY <3>1, <1>1, <1>2 DEF Indices
    <3>3. Cardinality(Offers(v, d)) = 1 /\ Cardinality(Returns(v, d)) = 0 /\ Cardinality(H) = 0
      BY <3>1, <3>2, FS_EmptySet, FS_Singleton
    <3>4. QED
      BY <3>3, <1>5 DEF OwnedOnce
  <2>6. x < r \/ (r <= x /\ x < t) \/ t <= x
    BY DEF Counts
  <2>7. QED
    BY <2>3, <2>4, <2>5, <2>6, Zenon
<1>6. QED
  BY <1>4, <1>5

----------------------------------------------------------------------------
(* The shape of the state: nothing is assumed of the order of the stores.  *)

LEMMA IndexTypes ==
  ASSUME NEW i \in Index
  PROVE  Next16(i) \in Index /\ Slot(i) \in Desc
<1>1. i \in Int /\ i + 1 \in Int
  BY Sizes DEF Index
<1>2. (i + 1) % IDX_MOD \in 0 .. IDX_MOD - 1
  BY <1>1, Sizes, ModSplit
<1>3. QED
  BY <1>1, <1>2, SlotIsDesc DEF Next16, Slot, Index

\* The operators give back virtqueues.
LEMMA VirtqueueTypes ==
  ASSUME NEW v \in Virtqueue
  PROVE  /\ pru_virtqueue_init(v) \in Virtqueue
         /\ AvailHead(v) \in Desc
         /\ pru_virtqueue_get_avail_buf(v) \in Virtqueue
         /\ UsedElem(v) \in Desc
         /\ PublishUsed(v) \in Virtqueue
         /\ UsedHead(v) \in Desc
         /\ virtqueue_get_buf(v) \in Virtqueue
         /\ \A e \in Desc, d \in Desc : FillUsed(v, e, d) \in Virtqueue
         /\ \A d \in Desc : virtqueue_add(v, d) \in Virtqueue
         /\ virtqueue_add_all(v) \in Virtqueue
         /\ virtqueue_enable_cb(v) \in Virtqueue
         /\ virtqueue_disable_cb(v) \in Virtqueue
<1> USE DEF Virtqueue
<1>1. v.avail.idx \in Index /\ v.last_avail_idx \in Index
      /\ v.used.idx \in Index /\ v.last_used_idx \in Index
  OBVIOUS
<1>2. 0 \in Index
  BY Sizes DEF Index
<1>3. pru_virtqueue_init(v) \in Virtqueue
  BY <1>2 DEF pru_virtqueue_init
<1>4. AvailHead(v) \in Desc /\ UsedElem(v) \in Desc /\ UsedHead(v) \in Desc
  BY <1>1, IndexTypes DEF AvailHead, UsedElem, UsedHead
<1>5. pru_virtqueue_get_avail_buf(v) \in Virtqueue
  BY <1>1, IndexTypes DEF pru_virtqueue_get_avail_buf
<1>6. PublishUsed(v) \in Virtqueue
  BY <1>1, IndexTypes DEF PublishUsed
<1>7. virtqueue_get_buf(v) \in Virtqueue
  BY <1>1, IndexTypes DEF virtqueue_get_buf
<1>8. ASSUME NEW e \in Desc, NEW d \in Desc PROVE FillUsed(v, e, d) \in Virtqueue
  BY DEF FillUsed
<1>9. ASSUME NEW d \in Desc PROVE virtqueue_add(v, d) \in Virtqueue
  BY <1>1, IndexTypes DEF virtqueue_add
<1>10. virtqueue_add_all(v) \in Virtqueue
  <2>1. NUM \in Index
    BY Sizes DEF Index
  <2>2. QED
    BY <2>1 DEF virtqueue_add_all
<1>11. virtqueue_enable_cb(v) \in Virtqueue
  BY DEF virtqueue_enable_cb
<1>12. virtqueue_disable_cb(v) \in Virtqueue
  BY DEF virtqueue_disable_cb
<1>13. QED
  BY <1>3, <1>4, <1>5, <1>6, <1>7, <1>8, <1>9, <1>10, <1>11, <1>12

\* Only a call is in the middle of something.
StepOK == fw.step # "call" => fw.op \in Calls

LEMMA InitTypes == Init => TypeOK /\ StepOK
<1> SUFFICES ASSUME Init PROVE TypeOK /\ StepOK
  OBVIOUS
<1>1. 0 \in Desc /\ 0 \in Index /\ 0 \in Message
  BY Sizes, RpmsgAssumption DEF Desc, Index, Message
<1>2. vring_init \in Virtqueue
  BY <1>1 DEF vring_init, Virtqueue
<1>3. QED
  BY <1>1, <1>2 DEF Init, TypeOK, StepOK, Ops, Steps, Calls

LEMMA QueueTypes == TypeOK => Queue \in 0 .. 1 /\ vq[Queue] \in Virtqueue
  BY DEF TypeOK, Queue

\* A step of the firmware that changes op and step, and nothing of the data.
LEMMA FirmwareTypes ==
  ASSUME TypeOK, NEW o \in Ops, NEW s \in Steps,
         fw' = [fw EXCEPT !.op = o, !.step = s] \/ (s = fw.step /\ fw' = [fw EXCEPT !.op = o])
  PROVE  /\ fw' \in [op : Ops, step : Steps, head : Desc, elem : Desc, payload : Message]
         /\ fw'.op = o /\ fw'.step = s
  BY DEF TypeOK

LEMMA MainTypes == ASSUME TypeOK, StepOK, main PROVE TypeOK' /\ StepOK'
<1> USE DEF TypeOK, rings, host, history
<1>1. Queue \in 0 .. 1 /\ vq[Queue] \in Virtqueue /\ vq[0] \in Virtqueue /\ vq[1] \in Virtqueue
  BY QueueTypes
<1>2. /\ {"boot", "status", "poll", "clear", "announce", "receive", "reply"} \subseteq Ops
      /\ {"call", "publish", "fill", "kick"} \subseteq Steps
      /\ Calls = {"announce", "receive", "reply"}
      /\ fw.op \in Ops /\ fw.step \in Steps
  BY DEF Ops, Steps, Calls
<1>3. CASE main_boot
  <2>1. fw.step = "call"
    BY <1>3, <1>2 DEF main_boot, StepOK
  <2>2. fw' \in [op : Ops, step : Steps, head : Desc, elem : Desc, payload : Message]
        /\ fw'.step = "call"
    BY <1>3, <1>2, <2>1, FirmwareTypes DEF main_boot
  <2>3. TypeOK'
    BY <1>3, <2>2 DEF main_boot
  <2>4. QED
    BY <2>2, <2>3 DEF StepOK
<1>4. CASE main_status
  <2>1. fw.step = "call"
    BY <1>4, <1>2 DEF main_status, StepOK
  <2>2. fw' \in [op : Ops, step : Steps, head : Desc, elem : Desc, payload : Message]
        /\ fw'.step = "call"
    BY <1>4, <1>2, <2>1, FirmwareTypes DEF main_status
  <2>3. vq' \in [0 .. 1 -> Virtqueue]
    BY <1>4, <1>1, VirtqueueTypes DEF main_status
  <2>4. TypeOK'
    BY <1>4, <2>2, <2>3 DEF main_status
  <2>5. QED
    BY <2>2, <2>4 DEF StepOK
<1>5. CASE main_poll
  <2>1. fw.step = "call"
    BY <1>5, <1>2 DEF main_poll, StepOK
  <2>2. fw' \in [op : Ops, step : Steps, head : Desc, elem : Desc, payload : Message]
        /\ fw'.step = "call"
    BY <1>5, <1>2, <2>1, FirmwareTypes DEF main_poll
  <2>3. TypeOK'
    BY <1>5, <2>2 DEF main_poll
  <2>4. QED
    BY <2>2, <2>3 DEF StepOK
<1>6. CASE main_clear
  <2>1. fw.step = "call"
    BY <1>6, <1>2 DEF main_clear, StepOK
  <2>2. fw' \in [op : Ops, step : Steps, head : Desc, elem : Desc, payload : Message]
        /\ fw'.step = "call"
    BY <1>6, <1>2, <2>1, FirmwareTypes DEF main_clear
  <2>3. TypeOK'
    BY <1>6, <2>2 DEF main_clear
  <2>4. QED
    BY <2>2, <2>3 DEF StepOK
<1>7. CASE pru_rpmsg_no_buf
  <2>1. fw.step = "call" /\ OnFailure[fw.op] \in Ops
    BY <1>7, <1>2 DEF pru_rpmsg_no_buf, OnFailure
  <2>2. fw' \in [op : Ops, step : Steps, head : Desc, elem : Desc, payload : Message]
        /\ fw'.step = "call"
    BY <1>7, <1>2, <2>1, FirmwareTypes DEF pru_rpmsg_no_buf
  <2>3. TypeOK'
    BY <1>7, <2>2 DEF pru_rpmsg_no_buf
  <2>4. QED
    BY <2>2, <2>3 DEF StepOK
<1>8. CASE pru_rpmsg_send
  <2>1. fw.op \in Calls /\ Queue = 0 /\ fw.payload \in Message
    BY <1>8, <1>2 DEF pru_rpmsg_send, Call, Queue
  <2>2. AvailHead(vq[0]) \in Desc /\ pru_virtqueue_get_avail_buf(vq[0]) \in Virtqueue
    BY <1>1, VirtqueueTypes
  <2>3. fw' \in [op : Ops, step : Steps, head : Desc, elem : Desc, payload : Message]
        /\ fw'.op = fw.op
    BY <1>8, <1>2, <2>1, <2>2 DEF pru_rpmsg_send, Took
  <2>4. TypeOK'
    BY <1>8, <2>1, <2>2, <2>3 DEF pru_rpmsg_send
  <2>5. QED
    BY <2>1, <2>3, <2>4 DEF StepOK
<1>9. CASE pru_rpmsg_receive
  <2>1. fw.op \in Calls /\ Queue = 1
    BY <1>9, <1>2 DEF pru_rpmsg_receive, Call, Queue
  <2>2. AvailHead(vq[1]) \in Desc /\ pru_virtqueue_get_avail_buf(vq[1]) \in Virtqueue
    BY <1>1, VirtqueueTypes
  <2>3. buf[1][AvailHead(vq[1])] \in Message
    BY <2>2
  <2>4. fw' \in [op : Ops, step : Steps, head : Desc, elem : Desc, payload : Message]
        /\ fw'.op = fw.op
    BY <1>9, <1>2, <2>1, <2>2, <2>3 DEF pru_rpmsg_receive, Took
  <2>5. TypeOK'
    BY <1>9, <2>2, <2>3, <2>4 DEF pru_rpmsg_receive
  <2>6. QED
    BY <2>1, <2>4, <2>5 DEF StepOK
<1>10. CASE add_used_publish
  <2>1. UsedElem(vq[Queue]) \in Desc /\ PublishUsed(vq[Queue]) \in Virtqueue
    BY <1>1, VirtqueueTypes
  <2>2. fw' \in [op : Ops, step : Steps, head : Desc, elem : Desc, payload : Message]
        /\ fw'.op = fw.op
    BY <1>10, <1>2, <2>1 DEF add_used_publish
  <2>3. TypeOK'
    BY <1>10, <1>1, <2>1, <2>2 DEF add_used_publish
  <2>4. QED
    BY <1>10, <1>2, <2>2, <2>3 DEF StepOK, add_used_publish
<1>11. CASE add_used_fill
  <2>1. FillUsed(vq[Queue], fw.elem, fw.head) \in Virtqueue
    BY <1>1, VirtqueueTypes
  <2>2. fw' \in [op : Ops, step : Steps, head : Desc, elem : Desc, payload : Message]
        /\ fw'.op = fw.op
    BY <1>11, <1>2 DEF add_used_fill
  <2>3. TypeOK'
    BY <1>11, <1>1, <2>1, <2>2 DEF add_used_fill
  <2>4. QED
    BY <1>11, <1>2, <2>2, <2>3 DEF StepOK, add_used_fill
<1>12. CASE pru_virtqueue_kick
  <2>1. OnSuccess[fw.op] \in Ops
    BY <1>12, <1>2 DEF pru_virtqueue_kick, StepOK, OnSuccess
  <2>2. fw' \in [op : Ops, step : Steps, head : Desc, elem : Desc, payload : Message]
        /\ fw'.step = "call"
    BY <1>12, <1>2, <2>1, FirmwareTypes DEF pru_virtqueue_kick
  <2>3. to_arm' \in BOOLEAN
    BY <1>12 DEF pru_virtqueue_kick
  <2>4. TypeOK'
    BY <1>12, <2>2, <2>3 DEF pru_virtqueue_kick
  <2>5. QED
    BY <2>2, <2>4 DEF StepOK
<1>13. QED
  BY <1>3, <1>4, <1>5, <1>6, <1>7, <1>8, <1>9, <1>10, <1>11, <1>12 DEF main

LEMMA ArmTypes ==
  ASSUME TypeOK, StepOK, rpmsg_probe \/ Interrupt \/ Sender PROVE TypeOK' /\ StepOK'
<1> USE DEF TypeOK, StepOK, rings, history
<1>1. vq[0] \in Virtqueue /\ vq[1] \in Virtqueue
  OBVIOUS
<1>2. ASSUME NEW v \in Virtqueue, NEW d \in Desc, Sends(v, d), sent < MaxSends
      PROVE  /\ vq' \in [0 .. 1 -> Virtqueue]
             /\ buf' \in [0 .. 1 -> [Desc -> Message]]
             /\ sent' \in Message
             /\ tx' = "kick"
  <2>1. virtqueue_add(v, d) \in Virtqueue
    BY VirtqueueTypes
  <2>2. virtqueue_disable_cb(virtqueue_add(v, d)) \in Virtqueue
    BY <2>1, VirtqueueTypes
  <2>3. sent + 1 \in Message
    BY <1>2, RpmsgAssumption DEF Message
  <2>4. QED
    BY <1>2, <2>2, <2>3 DEF Sends
<1>3. CASE rpmsg_probe
  <2>1. virtqueue_add_all(vq[0]) \in Virtqueue /\ virtqueue_disable_cb(vq[1]) \in Virtqueue
    BY <1>1, VirtqueueTypes
  <2>2. vq' \in [0 .. 1 -> Virtqueue]
    BY <1>3, <2>1 DEF rpmsg_probe
  <2>3. QED
    BY <1>3, <2>2 DEF rpmsg_probe
<1>4. CASE rpmsg_send_fresh
  <2>1. sent \in Desc
    BY <1>4, Sizes DEF rpmsg_send_fresh, Desc, Message
  <2>2. QED
    BY <1>4, <2>1, <1>1, <1>2 DEF rpmsg_send_fresh, MaySend
<1>5. CASE rpmsg_send_reuse
  <2>1. virtqueue_get_buf(vq[1]) \in Virtqueue /\ UsedHead(vq[1]) \in Desc
    BY <1>1, VirtqueueTypes
  <2>2. QED
    BY <1>5, <2>1, <1>2 DEF rpmsg_send_reuse, MaySend
<1>6. CASE rpmsg_send_kick
  BY <1>6 DEF rpmsg_send_kick
<1>7. CASE rpmsg_send_wait
  BY <1>7, <1>1, VirtqueueTypes DEF rpmsg_send_wait
<1>8. CASE rpmsg_send_sleep
  BY <1>8 DEF rpmsg_send_sleep
<1>9. CASE vring_interrupt
  BY <1>9 DEF vring_interrupt
<1>10. CASE rpmsg_recv_done
  <2>1. virtqueue_get_buf(vq[0]) \in Virtqueue /\ UsedHead(vq[0]) \in Desc
    BY <1>1, VirtqueueTypes
  <2>2. virtqueue_add(virtqueue_get_buf(vq[0]), UsedHead(vq[0])) \in Virtqueue
    BY <2>1, VirtqueueTypes
  <2>3. vq' \in [0 .. 1 -> Virtqueue]
    BY <1>10, <2>1, <2>2 DEF rpmsg_recv_done
  <2>4. buf[0][UsedHead(vq[0])] \in Message
    BY <2>1
  <2>5. got' \in Seq(Message) /\ irq' \in {"idle", "look", "drain"}
    <3>1. CASE virtqueue_get_buf(vq[0]).broken
      BY <1>10, <3>1 DEF rpmsg_recv_done
    <3>2. CASE ~virtqueue_get_buf(vq[0]).broken
      <4>1. got' = Append(got, buf[0][UsedHead(vq[0])]) /\ irq' = "drain"
        BY <1>10, <3>2 DEF rpmsg_recv_done
      <4>2. QED
        BY <4>1, <2>4
    <3>3. QED
      BY <3>1, <3>2
  <2>6. QED
    BY <1>10, <2>3, <2>5 DEF rpmsg_recv_done
<1>11. CASE rpmsg_recv_end
  BY <1>11 DEF rpmsg_recv_end
<1>12. QED
  BY <1>3, <1>4, <1>5, <1>6, <1>7, <1>8, <1>9, <1>10, <1>11 DEF Interrupt, Sender

LEMMA TypesStep == TypeOK /\ StepOK /\ [Next]_vars => (TypeOK /\ StepOK)'
<1> SUFFICES ASSUME TypeOK, StepOK, [Next]_vars PROVE (TypeOK /\ StepOK)'
  OBVIOUS
<1>1. CASE UNCHANGED vars
  BY <1>1 DEF vars, rings, host, history, TypeOK, StepOK
<1>2. QED
  BY <1>1, MainTypes, ArmTypes DEF Next

(* The state keeps its shape, whatever the ARM sees of the PRU's stores: in    *)
(* particular every index stays below IDX_MOD and every head is a descriptor.  *)
THEOREM TypeCorrect == Spec => []TypeOK
  BY InitTypes, TypesStep, PTL DEF Spec

----------------------------------------------------------------------------
(* The rings, when the ARM sees the PRU's two stores as one.               *)

InOrder == ~TornUsed

\* The counts of queue q, from the histories and from where the firmware is.
Offered(q) == IF q = 1 THEN sent ELSE IF driver_ok THEN NUM + Len(got) ELSE 0
Taken(q) == IF q = 1 THEN Len(consumed) ELSE Len(echoed)
Returned(q) == IF q = Queue /\ fw.step = "publish" THEN Taken(q) - 1 ELSE Taken(q)
Filled(q) == IF q = Queue /\ fw.step \in {"publish", "fill"} THEN Taken(q) - 1 ELSE Taken(q)
Collected(q) == IF q = 1 THEN (IF sent < NUM THEN 0 ELSE sent - NUM) ELSE Len(got)

RingInv(q) ==
  /\ Counts(Collected(q), Filled(q), Returned(q), Taken(q), Offered(q))
  /\ Ring(vq[q], Collected(q), Filled(q), Returned(q), Taken(q), Offered(q))

\* What the firmware remembers of the buffer it holds, and what cannot have
\* happened before the host is ready.
HoldInv ==
  /\ fw.step \in {"publish", "fill"} => fw.head = Filled(Queue) % NUM
  /\ fw.step = "fill" => fw.elem = Filled(Queue) % NUM
  /\ fw.op \in {"boot", "status"} => Len(consumed) = 0 /\ Len(echoed) = 0
  /\ fw.op \notin {"boot", "status"} => driver_ok

\* A buffer on its way holds its message: the next ones in number to the PRU,
\* the ones the firmware sent to the ARM.
BufferInv ==
  /\ \A x \in Taken(1) .. Offered(1) - 1 : buf[1][x % NUM] = x + 1
  /\ \A x \in Collected(0) .. Taken(0) - 1 : buf[0][x % NUM] = echoed[x + 1]

RpmsgInv == RingInv(0) /\ RingInv(1) /\ HoldInv /\ BufferInv

LEMMA CountTypes ==
  ASSUME TypeOK
  PROVE  /\ Len(consumed) \in Nat /\ Len(echoed) \in Nat /\ Len(got) \in Nat /\ sent \in Nat
         /\ vq[0] \in Virtqueue /\ vq[1] \in Virtqueue /\ Queue \in {0, 1}
  BY DEF TypeOK, Message, Queue

LEMMA InitRings == Init => RpmsgInv
<1> SUFFICES ASSUME Init PROVE RpmsgInv
  OBVIOUS
<1>1. \A q \in {0, 1} :
        /\ Collected(q) = 0 /\ Filled(q) = 0 /\ Returned(q) = 0 /\ Taken(q) = 0 /\ Offered(q) = 0
        /\ vq[q] = vring_init
  BY Sizes DEF Init, Collected, Filled, Returned, Taken, Offered
<1>2. RingInv(0) /\ RingInv(1)
  BY <1>1, EmptyRing DEF RingInv
<1>3. HoldInv
  BY DEF Init, HoldInv
<1>4. BufferInv
  BY <1>1 DEF BufferInv
<1>5. QED
  BY <1>2, <1>3, <1>4 DEF RpmsgInv

\* Between its calls, and on the queue it is not using, the firmware holds nothing.
LEMMA NothingHeld ==
  ASSUME NEW q, fw.step \notin {"publish", "fill"} \/ q # Queue
  PROVE  Returned(q) = Taken(q) /\ Filled(q) = Taken(q)
  BY DEF Returned, Filled

\* A queue that a step leaves alone.
LEMMA RingUntouched ==
  ASSUME NEW q, RingInv(q), vq'[q] = vq[q], Offered(q)' = Offered(q), Taken(q)' = Taken(q),
         Returned(q)' = Returned(q), Filled(q)' = Filled(q), Collected(q)' = Collected(q)
  PROVE  RingInv(q)'
  BY DEF RingInv

\* A step that moves no buffer.
LEMMA RingStutter ==
  ASSUME RpmsgInv, UNCHANGED <<rings, driver_ok, history>>,
         fw' = fw \/ (fw.step \notin {"publish", "fill"} /\ fw'.step \notin {"publish", "fill"}),
         fw'.op \in {"boot", "status"} => fw.op \in {"boot", "status"},
         fw'.op \notin {"boot", "status"} => driver_ok
  PROVE  RpmsgInv'
<1>1. ASSUME NEW q \in {0, 1} PROVE
        /\ vq'[q] = vq[q] /\ Offered(q)' = Offered(q) /\ Taken(q)' = Taken(q)
        /\ Returned(q)' = Returned(q) /\ Filled(q)' = Filled(q) /\ Collected(q)' = Collected(q)
  BY DEF rings, history, Offered, Taken, Returned, Filled, Collected, Queue
<1>2. RingInv(0)' /\ RingInv(1)'
  BY <1>1, RingUntouched DEF RpmsgInv
<1>3. HoldInv'
  BY DEF RpmsgInv, HoldInv, history, Filled, Taken, Queue
<1>4. BufferInv'
  BY <1>1 DEF RpmsgInv, BufferInv, rings, history
<1>5. QED
  BY <1>2, <1>3, <1>4 DEF RpmsgInv

LEMMA MainStutterKeeps ==
  ASSUME TypeOK, StepOK, RpmsgInv,
         main_boot \/ main_poll \/ main_clear \/ pru_rpmsg_no_buf \/ pru_virtqueue_kick
  PROVE  RpmsgInv'
<1> USE DEF TypeOK, rings, host
<1>1. HoldInv
  BY DEF RpmsgInv
<1>2. CASE main_boot
  <2>1. fw.step = "call"
    BY <1>2 DEF main_boot, StepOK, Calls
  <2>2. UNCHANGED <<rings, driver_ok, history>> /\ fw'.step = "call" /\ fw'.op = "status"
    BY <1>2, <2>1 DEF main_boot
  <2>3. QED
    BY <2>1, <2>2, <1>2, RingStutter DEF main_boot
<1>3. CASE main_poll
  <2>1. fw.step = "call"
    BY <1>3 DEF main_poll, StepOK, Calls
  <2>2. UNCHANGED <<rings, driver_ok, history>> /\ fw'.step = "call" /\ fw'.op = "clear"
    BY <1>3, <2>1 DEF main_poll
  <2>3. driver_ok
    BY <1>1, <1>3 DEF HoldInv, main_poll
  <2>4. QED
    BY <2>1, <2>2, <2>3, RingStutter
<1>4. CASE main_clear
  <2>1. fw.step = "call"
    BY <1>4 DEF main_clear, StepOK, Calls
  <2>2. UNCHANGED <<rings, driver_ok, history>> /\ fw'.step = "call" /\ fw'.op = "receive"
    BY <1>4, <2>1 DEF main_clear
  <2>3. driver_ok
    BY <1>1, <1>4 DEF HoldInv, main_clear
  <2>4. QED
    BY <2>1, <2>2, <2>3, RingStutter
<1>5. CASE pru_rpmsg_no_buf
  <2>1. fw.step = "call" /\ fw.op \in Calls
    BY <1>5 DEF pru_rpmsg_no_buf
  <2>2. UNCHANGED <<rings, driver_ok, history>> /\ fw'.step = "call"
    BY <1>5, <2>1 DEF pru_rpmsg_no_buf
  <2>3. fw'.op \notin {"boot", "status"}
    BY <1>5, <2>1 DEF pru_rpmsg_no_buf, OnFailure, Calls
  <2>4. driver_ok
    BY <1>1, <2>1 DEF HoldInv, Calls
  <2>5. QED
    BY <2>1, <2>2, <2>3, <2>4, RingStutter
<1>6. CASE pru_virtqueue_kick
  <2>1. fw.step = "kick" /\ fw.op \in Calls
    BY <1>6 DEF pru_virtqueue_kick, StepOK
  <2>2. UNCHANGED <<rings, driver_ok, history>> /\ fw'.step = "call"
    BY <1>6, <2>1 DEF pru_virtqueue_kick
  <2>3. fw'.op \notin {"boot", "status"}
    BY <1>6, <2>1 DEF pru_virtqueue_kick, OnSuccess, Calls
  <2>4. driver_ok
    BY <1>1, <2>1 DEF HoldInv, Calls
  <2>5. QED
    BY <2>1, <2>2, <2>3, <2>4, RingStutter
<1>7. QED
  BY <1>2, <1>3, <1>4, <1>5, <1>6

\* pru_rpmsg_init resets an index that is still that of nothing taken.
LEMMA StatusKeeps == ASSUME TypeOK, StepOK, RpmsgInv, main_status PROVE RpmsgInv'
<1> USE DEF rings, host
<1>1. fw.step = "call" /\ fw.op = "status" /\ driver_ok
  BY DEF main_status, StepOK, Calls
<1>2. fw'.step = "call" /\ fw'.op = "announce" /\ UNCHANGED <<buf, driver_ok, history>>
  BY <1>1 DEF main_status, TypeOK
<1>3. ASSUME NEW q \in {0, 1} PROVE
        /\ Offered(q)' = Offered(q) /\ Taken(q)' = Taken(q)
        /\ Returned(q)' = Returned(q) /\ Filled(q)' = Filled(q) /\ Collected(q)' = Collected(q)
  BY <1>1, <1>2 DEF history, Offered, Taken, Returned, Filled, Collected, Queue
<1>4. ASSUME NEW q \in {0, 1}, RingInv(q) PROVE RingInv(q)'
  <2>1. Taken(q) = 0 /\ vq[q] \in Virtqueue
    BY <1>1, CountTypes DEF RpmsgInv, HoldInv, Taken
  <2>2. Ring(vq[q], Collected(q), Filled(q), Returned(q), 0, Offered(q))
    BY <1>4, <2>1 DEF RingInv
  <2>3. Ring(pru_virtqueue_init(vq[q]), Collected(q), Filled(q), Returned(q), 0, Offered(q))
    BY <2>1, <2>2, InitRing
  <2>4. vq'[q] = pru_virtqueue_init(vq[q])
    BY DEF main_status
  <2>5. QED
    BY <1>3, <1>4, <2>1, <2>3, <2>4 DEF RingInv
<1>5. HoldInv'
  BY <1>1, <1>2 DEF HoldInv
<1>6. BufferInv'
  BY <1>2, <1>3 DEF RpmsgInv, BufferInv, history
<1>7. QED
  BY <1>4, <1>5, <1>6 DEF RpmsgInv

\* pru_rpmsg_send takes the next buffer of virtqueue 0 and puts the message in it.
LEMMA SendKeeps == ASSUME TypeOK, StepOK, RpmsgInv, pru_rpmsg_send PROVE RpmsgInv'
<1> USE DEF host
<1> DEFINE c == Collected(0)
           t == Taken(0)
           o == Offered(0)
           w == pru_virtqueue_get_avail_buf(vq[0])
<1>1. /\ fw.op \in {"announce", "reply"} /\ fw.step = "call" /\ Queue = 0
      /\ ~NoBufAvailable(vq[0])
      /\ UNCHANGED <<driver_ok, sent, consumed, got>>
      /\ echoed' = Append(echoed, fw.payload)
  BY DEF pru_rpmsg_send, Call, Queue
<1>2. /\ fw'.op = fw.op /\ fw'.step = "publish" /\ Queue' = 0
      /\ fw'.head = AvailHead(vq[0])
  BY <1>1 DEF pru_rpmsg_send, Took, Queue, TypeOK
<1>3. vq'[0] = w /\ vq'[1] = vq[1]
  BY DEF pru_rpmsg_send, TypeOK
<1>4. /\ Len(echoed') = t + 1 /\ t = Len(echoed) /\ t \in Nat
      /\ \A x \in 1 .. t : echoed'[x] = echoed[x]
      /\ echoed'[t + 1] = fw.payload
  BY <1>1 DEF Taken, TypeOK
<1>5. Counts(c, t, t, t, o) /\ Ring(vq[0], c, t, t, t, o)
  BY <1>1, NothingHeld DEF RpmsgInv, RingInv
<1>6. /\ t < o /\ AvailHead(vq[0]) = t % NUM
      /\ Counts(c, t, t, t + 1, o) /\ Ring(w, c, t, t, t + 1, o)
  BY <1>1, <1>5, CountTypes, TakeRing
<1>7. /\ Collected(0)' = c /\ Filled(0)' = t /\ Returned(0)' = t
      /\ Taken(0)' = t + 1 /\ Offered(0)' = o
  BY <1>1, <1>2, <1>4 DEF Collected, Filled, Returned, Taken, Offered
<1>8. RingInv(0)'
  BY <1>3, <1>6, <1>7 DEF RingInv
<1>9. RingInv(1)'
  <2>1. /\ Offered(1)' = Offered(1) /\ Taken(1)' = Taken(1) /\ Returned(1)' = Returned(1)
        /\ Filled(1)' = Filled(1) /\ Collected(1)' = Collected(1)
    BY <1>1, <1>2 DEF Offered, Taken, Returned, Filled, Collected
  <2>2. QED
    BY <2>1, <1>3, RingUntouched DEF RpmsgInv
<1>10. HoldInv'
  BY <1>1, <1>2, <1>6, <1>7 DEF RpmsgInv, HoldInv
<1>11. BufferInv'
  <2>1. t % NUM \in Desc
    BY <1>4, SlotIsDesc
  <2>2. /\ buf'[1] = buf[1]
        /\ buf'[0] = [buf[0] EXCEPT ![t % NUM] = fw.payload]
        /\ buf[0] \in [Desc -> Message]
    BY <1>6 DEF pru_rpmsg_send, TypeOK
  <2>3. ASSUME NEW x \in c .. t PROVE buf'[0][x % NUM] = echoed'[x + 1]
    <3>1. x \in Nat /\ c \in Nat /\ o \in Nat /\ o <= c + NUM
      BY <1>5, <1>4 DEF Counts
    <3>2. CASE x = t
      <4>1. buf'[0][t % NUM] = fw.payload
        BY <2>1, <2>2
      <4>2. QED
        BY <4>1, <1>4, <3>2
    <3>3. CASE x # t
      <4>1. x % NUM # t % NUM
        BY <3>1, <3>3, <1>4, <1>6, DistinctBuffers
      <4>2. x % NUM \in Desc
        BY <3>1, SlotIsDesc
      <4>3. buf[0][x % NUM] = echoed[x + 1] /\ x + 1 \in 1 .. t
        BY <3>1, <3>3, <1>4 DEF RpmsgInv, BufferInv
      <4>4. QED
        BY <4>1, <4>2, <4>3, <2>1, <2>2, <1>4
    <3>4. QED
      BY <3>2, <3>3
  <2>4. ASSUME NEW x \in Taken(1)' .. Offered(1)' - 1 PROVE buf'[1][x % NUM] = x + 1
    BY <2>2, <1>1 DEF RpmsgInv, BufferInv, Taken, Offered
  <2>5. Taken(0)' - 1 = t
    BY <1>7, <1>4
  <2>6. QED
    BY <2>3, <2>4, <2>5, <1>7 DEF BufferInv
<1>12. QED
  BY <1>8, <1>9, <1>10, <1>11 DEF RpmsgInv

\* pru_rpmsg_receive takes the next buffer of virtqueue 1 with its message.
LEMMA ReceiveKeeps == ASSUME TypeOK, StepOK, RpmsgInv, pru_rpmsg_receive PROVE RpmsgInv'
<1> USE DEF host
<1> DEFINE c == Collected(1)
           t == Taken(1)
           o == Offered(1)
           w == pru_virtqueue_get_avail_buf(vq[1])
<1>1. /\ fw.op = "receive" /\ fw.step = "call" /\ Queue = 1
      /\ ~NoBufAvailable(vq[1])
      /\ UNCHANGED <<buf, driver_ok, sent, echoed, got>>
      /\ Len(consumed') = Len(consumed) + 1
  BY DEF pru_rpmsg_receive, Call, Queue, TypeOK
<1>2. /\ fw'.op = "receive" /\ fw'.step = "publish" /\ Queue' = 1
      /\ fw'.head = AvailHead(vq[1])
  BY <1>1 DEF pru_rpmsg_receive, Took, Queue, TypeOK
<1>3. vq'[1] = w /\ vq'[0] = vq[0]
  BY DEF pru_rpmsg_receive, TypeOK
<1>4. Counts(c, t, t, t, o) /\ Ring(vq[1], c, t, t, t, o)
  BY <1>1, NothingHeld DEF RpmsgInv, RingInv
<1>5. /\ t < o /\ AvailHead(vq[1]) = t % NUM
      /\ Counts(c, t, t, t + 1, o) /\ Ring(w, c, t, t, t + 1, o)
  BY <1>1, <1>4, CountTypes, TakeRing
<1>6. /\ Collected(1)' = c /\ Filled(1)' = t /\ Returned(1)' = t
      /\ Taken(1)' = t + 1 /\ Offered(1)' = o /\ t \in Nat
  BY <1>1, <1>2, CountTypes DEF Collected, Filled, Returned, Taken, Offered
<1>7. RingInv(1)'
  BY <1>3, <1>5, <1>6 DEF RingInv
<1>8. /\ Offered(0)' = Offered(0) /\ Taken(0)' = Taken(0) /\ Returned(0)' = Returned(0)
      /\ Filled(0)' = Filled(0) /\ Collected(0)' = Collected(0)
  BY <1>1, <1>2 DEF Offered, Taken, Returned, Filled, Collected
<1>9. RingInv(0)'
  BY <1>8, <1>3, RingUntouched DEF RpmsgInv
<1>10. HoldInv'
  BY <1>1, <1>2, <1>5, <1>6 DEF RpmsgInv, HoldInv
<1>11. BufferInv'
  BY <1>1, <1>6, <1>8 DEF RpmsgInv, BufferInv
<1>12. QED
  BY <1>7, <1>9, <1>10, <1>11 DEF RpmsgInv

\* The queue a step of the firmware does not use.
LEMMA OtherRing ==
  ASSUME TypeOK, RpmsgInv, NEW q \in {0, 1}, q # Queue, Queue' = Queue, vq'[q] = vq[q],
         UNCHANGED <<driver_ok, history>>
  PROVE  RingInv(q)'
<1>1. /\ Offered(q)' = Offered(q) /\ Taken(q)' = Taken(q) /\ Returned(q)' = Returned(q)
      /\ Filled(q)' = Filled(q) /\ Collected(q)' = Collected(q)
  BY DEF Offered, Taken, Returned, Filled, Collected, history
<1>2. QED
  BY <1>1, RingUntouched DEF RpmsgInv

LEMMA PublishKeeps == ASSUME TypeOK, StepOK, RpmsgInv, add_used_publish PROVE RpmsgInv'
<1> USE DEF host
<1> DEFINE q == Queue
           c == Collected(q)
           f == Filled(q)
           t == Taken(q)
           o == Offered(q)
<1>1. /\ fw.step = "publish" /\ fw'.step = "fill" /\ fw'.op = fw.op /\ fw'.head = fw.head
      /\ fw'.elem = UsedElem(vq[q]) /\ Queue' = q
      /\ vq' = [vq EXCEPT ![q] = PublishUsed(@)]
      /\ UNCHANGED <<buf, driver_ok, history>>
  BY DEF add_used_publish, TypeOK, Queue
<1>2. q \in {0, 1} /\ vq[q] \in Virtqueue /\ t \in Nat
  BY CountTypes DEF Taken
<1>3. Returned(q) = f /\ f = t - 1
  BY <1>1 DEF Returned, Filled
<1>4. Counts(c, f, f, t, o) /\ Ring(vq[q], c, f, f, t, o)
  BY <1>2, <1>3 DEF RpmsgInv, RingInv
<1>5. /\ UsedElem(vq[q]) = f % NUM
      /\ Counts(c, f, f + 1, t, o)
      /\ Ring(PublishUsed(vq[q]), c, f, f + 1, t, o)
  <2>1. f < t
    BY <1>2, <1>3
  <2>2. QED
    BY <1>2, <1>4, <2>1, PublishRing
<1>6. /\ Collected(q)' = c /\ Filled(q)' = f /\ Returned(q)' = f + 1
      /\ Taken(q)' = t /\ Offered(q)' = o
  BY <1>1, <1>2, <1>3 DEF Collected, Filled, Returned, Taken, Offered, history
<1>7. vq'[q] = PublishUsed(vq[q]) /\ \A k \in {0, 1} : k # q => vq'[k] = vq[k]
  BY <1>1, <1>2 DEF TypeOK
<1>8. RingInv(q)'
  BY <1>1, <1>5, <1>6, <1>7 DEF RingInv
<1>9. \A k \in {0, 1} : k # q => RingInv(k)'
  BY <1>1, <1>7, OtherRing
<1>10. HoldInv'
  BY <1>1, <1>5, <1>6 DEF RpmsgInv, HoldInv, history
<1>11. BufferInv'
  <2>1. /\ Taken(0)' = Taken(0) /\ Taken(1)' = Taken(1)
        /\ Offered(1)' = Offered(1) /\ Collected(0)' = Collected(0) /\ echoed' = echoed
    BY <1>1 DEF history, Taken, Offered, Collected
  <2>2. BufferInv /\ buf' = buf
    BY <1>1 DEF RpmsgInv
  <2>3. ASSUME NEW x \in Taken(1)' .. Offered(1)' - 1 PROVE buf'[1][x % NUM] = x + 1
    BY <2>1, <2>2 DEF BufferInv
  <2>4. ASSUME NEW x \in Collected(0)' .. Taken(0)' - 1 PROVE buf'[0][x % NUM] = echoed'[x + 1]
    BY <2>1, <2>2 DEF BufferInv
  <2>5. QED
    BY <2>3, <2>4 DEF BufferInv
<1>12. QED
  BY <1>1, <1>2, <1>8, <1>9, <1>10, <1>11 DEF RpmsgInv

LEMMA FillKeeps == ASSUME TypeOK, StepOK, RpmsgInv, add_used_fill PROVE RpmsgInv'
<1> USE DEF host
<1> DEFINE q == Queue
           c == Collected(q)
           f == Filled(q)
           t == Taken(q)
           o == Offered(q)
<1>1. /\ fw.step = "fill" /\ fw'.step = "kick" /\ fw'.op = fw.op /\ Queue' = q
      /\ vq' = [vq EXCEPT ![q] = FillUsed(@, fw.elem, fw.head)]
      /\ UNCHANGED <<buf, driver_ok, history>>
  BY DEF add_used_fill, TypeOK, Queue
<1>2. q \in {0, 1} /\ vq[q] \in Virtqueue /\ t \in Nat
  BY CountTypes DEF Taken
<1>3. Returned(q) = f + 1 /\ t = f + 1
  BY <1>1, <1>2 DEF Returned, Filled
<1>4. Counts(c, f, f + 1, t, o) /\ Ring(vq[q], c, f, f + 1, t, o)
  BY <1>2, <1>3 DEF RpmsgInv, RingInv
<1>5. fw.elem = f % NUM /\ fw.head = f % NUM
  BY <1>1 DEF RpmsgInv, HoldInv
<1>6. /\ Counts(c, f + 1, f + 1, t, o)
      /\ Ring(FillUsed(vq[q], f % NUM, f % NUM), c, f + 1, f + 1, t, o)
  BY <1>2, <1>4, FillRing
<1>7. /\ Collected(q)' = c /\ Filled(q)' = f + 1 /\ Returned(q)' = f + 1
      /\ Taken(q)' = t /\ Offered(q)' = o
  BY <1>1, <1>2, <1>3 DEF Collected, Filled, Returned, Taken, Offered, history
<1>8. vq'[q] = FillUsed(vq[q], f % NUM, f % NUM) /\ \A k \in {0, 1} : k # q => vq'[k] = vq[k]
  BY <1>1, <1>2, <1>5 DEF TypeOK
<1>9. RingInv(q)'
  BY <1>1, <1>6, <1>7, <1>8 DEF RingInv
<1>10. \A k \in {0, 1} : k # q => RingInv(k)'
  BY <1>1, <1>8, OtherRing
<1>11. HoldInv'
  BY <1>1 DEF RpmsgInv, HoldInv, history
<1>12. BufferInv'
  <2>1. /\ Taken(0)' = Taken(0) /\ Taken(1)' = Taken(1)
        /\ Offered(1)' = Offered(1) /\ Collected(0)' = Collected(0) /\ echoed' = echoed
    BY <1>1 DEF history, Taken, Offered, Collected
  <2>2. BufferInv /\ buf' = buf
    BY <1>1 DEF RpmsgInv
  <2>3. ASSUME NEW x \in Taken(1)' .. Offered(1)' - 1 PROVE buf'[1][x % NUM] = x + 1
    BY <2>1, <2>2 DEF BufferInv
  <2>4. ASSUME NEW x \in Collected(0)' .. Taken(0)' - 1 PROVE buf'[0][x % NUM] = echoed'[x + 1]
    BY <2>1, <2>2 DEF BufferInv
  <2>5. QED
    BY <2>3, <2>4 DEF BufferInv
<1>13. QED
  BY <1>1, <1>2, <1>9, <1>10, <1>11, <1>12 DEF RpmsgInv

\* The host makes all its receive buffers available before the firmware looks.
LEMMA ProbeKeeps == ASSUME TypeOK, StepOK, RpmsgInv, rpmsg_probe PROVE RpmsgInv'
<1>1. /\ ~driver_ok /\ driver_ok' /\ UNCHANGED <<buf, fw, history>>
      /\ vq'[0] = virtqueue_add_all(vq[0]) /\ vq'[1] = virtqueue_disable_cb(vq[1])
  BY DEF rpmsg_probe, TypeOK
<1>2. /\ fw.op \in {"boot", "status"} /\ fw.step = "call"
      /\ Len(consumed) = 0 /\ Len(echoed) = 0
  BY <1>1 DEF RpmsgInv, HoldInv, StepOK, Calls
<1>3. /\ Taken(0) = 0 /\ Returned(0) = 0 /\ Filled(0) = 0 /\ Offered(0) = 0
      /\ Collected(0) = Len(got)
  BY <1>1, <1>2 DEF Taken, Returned, Filled, Offered, Collected
<1>4. Len(got) = 0
  BY <1>3, CountTypes DEF RpmsgInv, RingInv, Counts
<1>5. /\ Taken(0)' = 0 /\ Returned(0)' = 0 /\ Filled(0)' = 0 /\ Offered(0)' = NUM
      /\ Collected(0)' = 0
  BY <1>1, <1>2, <1>4, Sizes DEF Taken, Returned, Filled, Offered, Collected, history
<1>6. RingInv(0)'
  <2>1. Ring(vq[0], 0, 0, 0, 0, 0)
    BY <1>3, <1>4 DEF RpmsgInv, RingInv
  <2>2. Counts(0, 0, 0, 0, NUM) /\ Ring(vq'[0], 0, 0, 0, 0, NUM)
    BY <1>1, <2>1, CountTypes, AddAllRing
  <2>3. QED
    BY <1>5, <2>2 DEF RingInv
<1>7. /\ Offered(1)' = Offered(1) /\ Taken(1)' = Taken(1) /\ Returned(1)' = Returned(1)
      /\ Filled(1)' = Filled(1) /\ Collected(1)' = Collected(1)
  BY <1>1 DEF Offered, Taken, Returned, Filled, Collected, Queue, history
<1>8. RingInv(1)'
  <2>1. Ring(vq'[1], Collected(1), Filled(1), Returned(1), Taken(1), Offered(1))
    BY <1>1, CountTypes, FlagRing DEF RpmsgInv, RingInv
  <2>2. QED
    BY <1>7, <2>1 DEF RpmsgInv, RingInv
<1>9. HoldInv'
  BY <1>1, <1>2 DEF HoldInv, history
<1>10. BufferInv'
  BY <1>1, <1>5, <1>7 DEF RpmsgInv, BufferInv
<1>11. QED
  BY <1>6, <1>8, <1>9, <1>10 DEF RpmsgInv

\* The ARM finds an entry that is filled in.
LEMMA ArmSees ==
  ASSUME TypeOK, InOrder, ArmLooks, NEW q \in {0, 1}
  PROVE  Filled(q) = Returned(q)
  BY DEF InOrder, ArmLooks, Filled, Returned

\* The next message goes to the PRU in the next buffer in turn.
LEMMA SendsKeeps ==
  ASSUME TypeOK, RpmsgInv, InOrder, ArmLooks, NEW v \in Virtqueue, NEW c, NEW d,
         Counts(c, Filled(1), Returned(1), Taken(1), sent),
         Ring(v, c, Filled(1), Returned(1), Taken(1), sent),
         sent < c + NUM, d = sent % NUM, Collected(1)' = c, Sends(v, d),
         UNCHANGED <<fw, driver_ok, consumed, echoed, got>>
  PROVE  RpmsgInv'
<1>1. /\ vq'[1] = virtqueue_disable_cb(virtqueue_add(v, d)) /\ vq'[0] = vq[0]
      /\ buf' = [buf EXCEPT ![1][d] = sent + 1] /\ sent' = sent + 1
  BY DEF Sends, TypeOK
<1>2. /\ Filled(1)' = Filled(1) /\ Returned(1)' = Returned(1) /\ Taken(1)' = Taken(1)
      /\ Offered(1)' = sent + 1 /\ Offered(1) = sent
      /\ sent \in Nat /\ Taken(1) \in Nat
  BY <1>1, CountTypes DEF Filled, Returned, Taken, Offered, Queue
<1>3. RingInv(1)'
  <2>1. /\ Counts(c, Filled(1), Returned(1), Taken(1), sent + 1)
        /\ Ring(virtqueue_add(v, sent % NUM), c, Filled(1), Returned(1), Taken(1), sent + 1)
    BY AddRing
  <2>2. sent % NUM \in Desc
    BY <1>2, SlotIsDesc
  <2>3. virtqueue_add(v, sent % NUM) \in Virtqueue
    BY <2>2, VirtqueueTypes
  <2>4. Ring(vq'[1], c, Filled(1), Returned(1), Taken(1), sent + 1)
    BY <1>1, <2>1, <2>3, FlagRing
  <2>5. QED
    BY <1>2, <2>1, <2>4 DEF RingInv
<1>4. /\ Offered(0)' = Offered(0) /\ Taken(0)' = Taken(0) /\ Returned(0)' = Returned(0)
      /\ Filled(0)' = Filled(0) /\ Collected(0)' = Collected(0)
  BY DEF Offered, Taken, Returned, Filled, Collected, Queue
<1>5. RingInv(0)'
  BY <1>1, <1>4, RingUntouched DEF RpmsgInv
<1>6. HoldInv'
  BY <1>2, <1>4 DEF RpmsgInv, HoldInv, Queue
<1>7. BufferInv'
  <2>1. /\ buf'[0] = buf[0] /\ buf[1] \in [Desc -> Message]
        /\ buf'[1] = [buf[1] EXCEPT ![d] = sent + 1]
    BY <1>1 DEF TypeOK
  <2>2. ASSUME NEW x \in Taken(1) .. sent PROVE buf'[1][x % NUM] = x + 1
    <3>1. x \in Nat /\ Taken(1) \in Nat /\ c <= Taken(1) /\ c \in Nat /\ x % NUM \in Desc
      BY <1>2, SlotIsDesc DEF Counts
    <3>2. CASE x = sent
      BY <3>1, <3>2, <2>1
    <3>3. CASE x # sent
      <4>1. x % NUM # d
        <5>1. x \in c .. (sent + 1) - 1 /\ sent \in c .. (sent + 1) - 1
              /\ sent + 1 \in Nat /\ sent + 1 <= c + NUM
          BY <3>1, <1>2, Sizes
        <5>2. QED
          BY <5>1, <3>1, <3>3, DistinctBuffers
      <4>2. buf[1][x % NUM] = x + 1
        BY <3>1, <3>3, <1>2 DEF RpmsgInv, BufferInv
      <4>3. QED
        BY <4>1, <4>2, <3>1, <2>1
    <3>4. QED
      BY <3>2, <3>3
  <2>3. ASSUME NEW x \in Collected(0)' .. Taken(0)' - 1 PROVE buf'[0][x % NUM] = echoed'[x + 1]
    BY <1>4, <2>1 DEF RpmsgInv, BufferInv
  <2>4. Offered(1)' - 1 = sent
    BY <1>2
  <2>5. QED
    BY <2>2, <2>3, <2>4, <1>2 DEF BufferInv
<1>8. QED
  BY <1>3, <1>5, <1>6, <1>7 DEF RpmsgInv

\* In a fresh buffer while there is one ...
LEMMA FreshKeeps == ASSUME TypeOK, RpmsgInv, InOrder, rpmsg_send_fresh PROVE RpmsgInv'
<1>1. /\ ArmLooks /\ sent < NUM /\ Sends(vq[1], sent)
      /\ UNCHANGED <<fw, driver_ok, consumed, echoed, got>>
  BY DEF rpmsg_send_fresh, MaySend
<1>2. sent % NUM = sent
  BY <1>1, CountTypes, Sizes, ModSmall
<1>3. Collected(1) = 0 /\ Offered(1) = sent /\ Collected(1)' = 0
  <2>1. sent' = sent + 1
    BY <1>1 DEF Sends
  <2>2. QED
    BY <1>1, <2>1, CountTypes, Sizes DEF Collected, Offered
<1>4. /\ Counts(0, Filled(1), Returned(1), Taken(1), sent)
      /\ Ring(vq[1], 0, Filled(1), Returned(1), Taken(1), sent)
  BY <1>3 DEF RpmsgInv, RingInv
<1>5. sent < 0 + NUM
  BY <1>1, Sizes
<1>6. QED
  BY <1>1, <1>2, <1>3, <1>4, <1>5, CountTypes, SendsKeeps

\* ... and later in the oldest that came back, which is the next in turn.
LEMMA ReuseKeeps == ASSUME TypeOK, RpmsgInv, InOrder, rpmsg_send_reuse PROVE RpmsgInv'
<1> DEFINE c == Collected(1)
           r == Returned(1)
           t == Taken(1)
           v == virtqueue_get_buf(vq[1])
<1>1. /\ ArmLooks /\ sent >= NUM /\ MoreUsed(vq[1])
      /\ UNCHANGED <<fw, driver_ok, consumed, echoed, got>>
  BY DEF rpmsg_send_reuse, MaySend
<1>2. c = sent - NUM /\ c \in Nat /\ Offered(1) = sent
  BY <1>1, CountTypes, Sizes DEF Collected, Offered
<1>3. Filled(1) = r
  BY <1>1, ArmSees
<1>4. Counts(c, r, r, t, sent) /\ Ring(vq[1], c, r, r, t, sent)
  BY <1>2, <1>3 DEF RpmsgInv, RingInv
<1>5. /\ UsedHead(vq[1]) = c % NUM
      /\ Counts(c + 1, r, r, t, sent) /\ Ring(v, c + 1, r, r, t, sent)
  BY <1>1, <1>4, CountTypes, CollectRing
<1>6. Sends(v, UsedHead(vq[1]))
  BY <1>5 DEF rpmsg_send_reuse, Ring
<1>7. UsedHead(vq[1]) = sent % NUM
  <2>1. c \in Int /\ sent = c + NUM
    BY <1>2, CountTypes, Sizes
  <2>2. (c + NUM) % NUM = c % NUM
    BY <2>1, Sizes, ModWrap
  <2>3. QED
    BY <1>5, <2>1, <2>2
<1>8. Collected(1)' = c + 1
  <2>1. sent' = sent + 1
    BY <1>6 DEF Sends
  <2>2. QED
    BY <1>1, <1>2, <2>1, CountTypes, Sizes DEF Collected
<1>9. sent < (c + 1) + NUM
  BY <1>2, CountTypes, Sizes
<1>10. v \in Virtqueue
  BY CountTypes, VirtqueueTypes
<1>11. QED
  BY <1>1, <1>3, <1>5, <1>6, <1>7, <1>8, <1>9, <1>10, SendsKeeps

\* A message is taken out of the oldest buffer that came back, and the buffer
\* offered again.
LEMMA RecvKeeps == ASSUME TypeOK, RpmsgInv, InOrder, rpmsg_recv_done PROVE RpmsgInv'
<1> DEFINE c == Collected(0)
           r == Returned(0)
           t == Taken(0)
           o == Offered(0)
           v == virtqueue_get_buf(vq[0])
           d == UsedHead(vq[0])
<1>1. ArmLooks /\ MoreUsed(vq[0]) /\ UNCHANGED <<buf, fw, driver_ok, sent, consumed, echoed>>
  BY DEF rpmsg_recv_done
<1>2. Filled(0) = r
  BY <1>1, ArmSees
<1>3. Counts(c, r, r, t, o) /\ Ring(vq[0], c, r, r, t, o)
  BY <1>2 DEF RpmsgInv, RingInv
<1>4. /\ c < r /\ d = c % NUM
      /\ Counts(c + 1, r, r, t, o) /\ Ring(v, c + 1, r, r, t, o)
  BY <1>1, <1>3, CountTypes, CollectRing
<1>5. driver_ok /\ c = Len(got) /\ o = NUM + c /\ c \in Nat
  <2>1. t = Len(echoed) /\ c = Len(got)
    BY DEF Taken, Collected
  <2>2. t # 0 /\ c \in Nat
    BY <1>3, <1>4, <2>1, CountTypes DEF Counts
  <2>3. driver_ok
    BY <2>1, <2>2 DEF RpmsgInv, HoldInv
  <2>4. QED
    BY <2>1, <2>2, <2>3, Sizes DEF Offered
<1>6. d = o % NUM
  <2>1. c \in Int /\ c + NUM = NUM + c
    BY <1>5, Sizes
  <2>2. (c + NUM) % NUM = c % NUM
    BY <2>1, Sizes, ModWrap
  <2>3. QED
    BY <1>4, <1>5, <2>1, <2>2
<1>7. v \in Virtqueue
  BY CountTypes, VirtqueueTypes
<1>8. /\ Counts(c + 1, r, r, t, o + 1)
      /\ Ring(virtqueue_add(v, o % NUM), c + 1, r, r, t, o + 1)
  <2>1. o < (c + 1) + NUM
    BY <1>5, Sizes
  <2>2. QED
    BY <2>1, <1>4, <1>7, AddRing
<1>9. ~v.broken
  BY <1>4 DEF Ring
<1>10. vq'[0] = virtqueue_add(v, d) /\ vq'[1] = vq[1] /\ Len(got') = Len(got) + 1
  BY <1>9 DEF rpmsg_recv_done, TypeOK
<1>11. /\ Collected(0)' = c + 1 /\ Filled(0)' = r /\ Returned(0)' = r
       /\ Taken(0)' = t /\ Offered(0)' = o + 1
  BY <1>1, <1>2, <1>5, <1>10, Sizes DEF Collected, Filled, Returned, Taken, Offered, Queue
<1>12. RingInv(0)'
  BY <1>6, <1>8, <1>10, <1>11 DEF RingInv
<1>13. /\ Offered(1)' = Offered(1) /\ Taken(1)' = Taken(1) /\ Returned(1)' = Returned(1)
       /\ Filled(1)' = Filled(1) /\ Collected(1)' = Collected(1)
  BY <1>1 DEF Offered, Taken, Returned, Filled, Collected, Queue
<1>14. RingInv(1)'
  BY <1>10, <1>13, RingUntouched DEF RpmsgInv
<1>15. HoldInv'
  BY <1>1, <1>2, <1>11, <1>13 DEF RpmsgInv, HoldInv, Queue
<1>16. BufferInv'
  <2>1. ASSUME NEW x \in c + 1 .. t - 1 PROVE buf[0][x % NUM] = echoed[x + 1]
    BY <1>5 DEF RpmsgInv, BufferInv
  <2>2. QED
    BY <1>1, <1>11, <1>13, <2>1 DEF RpmsgInv, BufferInv
<1>17. QED
  BY <1>12, <1>14, <1>15, <1>16 DEF RpmsgInv

\* The sender asks for an interrupt: only the flag changes.
LEMMA WaitKeeps == ASSUME TypeOK, RpmsgInv, rpmsg_send_wait PROVE RpmsgInv'
<1>1. /\ vq'[0] = vq[0] /\ vq'[1] = virtqueue_enable_cb(vq[1])
      /\ UNCHANGED <<buf, fw, driver_ok, history>>
  BY DEF rpmsg_send_wait, TypeOK
<1>2. ASSUME NEW q \in {0, 1} PROVE
        /\ Offered(q)' = Offered(q) /\ Taken(q)' = Taken(q)
        /\ Returned(q)' = Returned(q) /\ Filled(q)' = Filled(q) /\ Collected(q)' = Collected(q)
  BY <1>1 DEF history, Offered, Taken, Returned, Filled, Collected, Queue
<1>3. RingInv(0)'
  BY <1>1, <1>2, RingUntouched DEF RpmsgInv
<1>4. RingInv(1)'
  <2>1. Ring(vq'[1], Collected(1), Filled(1), Returned(1), Taken(1), Offered(1))
    BY <1>1, CountTypes, FlagRing DEF RpmsgInv, RingInv
  <2>2. QED
    BY <1>2, <2>1 DEF RpmsgInv, RingInv
<1>5. HoldInv'
  BY <1>1 DEF RpmsgInv, HoldInv, history, Filled, Taken, Queue
<1>6. BufferInv'
  BY <1>1, <1>2 DEF RpmsgInv, BufferInv, history
<1>7. QED
  BY <1>3, <1>4, <1>5, <1>6 DEF RpmsgInv

LEMMA RingsStep == InOrder /\ TypeOK /\ StepOK /\ RpmsgInv /\ [Next]_vars => RpmsgInv'
<1> SUFFICES ASSUME InOrder, TypeOK, StepOK, RpmsgInv, [Next]_vars PROVE RpmsgInv'
  OBVIOUS
<1>1. ASSUME UNCHANGED <<rings, driver_ok, history, fw>> PROVE RpmsgInv'
  BY <1>1, RingStutter DEF RpmsgInv, HoldInv
<1>2. CASE UNCHANGED vars
  BY <1>1, <1>2 DEF vars, host
<1>3. CASE main
  BY <1>3, MainStutterKeeps, StatusKeeps, SendKeeps, ReceiveKeeps, PublishKeeps, FillKeeps
     DEF main
<1>4. CASE rpmsg_send_kick \/ rpmsg_send_sleep \/ vring_interrupt \/ rpmsg_recv_end
  BY <1>1, <1>4 DEF rpmsg_send_kick, rpmsg_send_sleep, vring_interrupt, rpmsg_recv_end
<1>5. CASE rpmsg_probe \/ rpmsg_send_fresh \/ rpmsg_send_reuse \/ rpmsg_send_wait \/ rpmsg_recv_done
  BY <1>5, ProbeKeeps, FreshKeeps, ReuseKeeps, WaitKeeps, RecvKeeps
<1>6. QED
  BY <1>2, <1>3, <1>4, <1>5 DEF Next, Interrupt, Sender

(* The descriptors of each virtqueue circulate in order: the buffer that is   *)
(* the x-th to be offered is descriptor x % NUM, in the avail ring as in the  *)
(* used ring, the five free-running indices are the counts modulo IDX_MOD,    *)
(* never more than NUM apart, the host never finds an id it did not hand out, *)
(* and every buffer on its way holds its own message.                         *)
THEOREM RingsInOrder == InOrder => (Spec => []RpmsgInv)
<1> SUFFICES ASSUME InOrder PROVE Spec => []RpmsgInv
  OBVIOUS
<1>1. Init => TypeOK /\ StepOK /\ RpmsgInv
  BY InitTypes, InitRings
<1>2. (TypeOK /\ StepOK /\ RpmsgInv) /\ [Next]_vars => (TypeOK /\ StepOK /\ RpmsgInv)'
  BY TypesStep, RingsStep
<1>3. QED
  BY <1>1, <1>2, PTL DEF Spec

----------------------------------------------------------------------------
(* What follows for the library's users.                                   *)

LEMMA HeldBuffers ==
  ASSUME TypeOK, RpmsgInv, NEW q \in {0, 1}, fw.step # "fill"
  PROVE  /\ Filled(q) = Returned(q)
         /\ Taken(q) <= Returned(q) + 1
         /\ Held(q) = {x % NUM : x \in Returned(q) .. Taken(q) - 1}
<1>1. Taken(q) \in Nat
  BY CountTypes DEF Taken
<1>2. Filled(q) = Returned(q) /\ Taken(q) <= Returned(q) + 1
  BY <1>1 DEF Filled, Returned
<1>3. CASE Queue = q /\ fw.step = "publish"
  <2>1. Returned(q) = Taken(q) - 1 /\ fw.head = Returned(q) % NUM
    BY <1>2, <1>3 DEF Returned, RpmsgInv, HoldInv
  <2>2. Returned(q) .. Taken(q) - 1 = {Returned(q)}
    BY <1>1, <2>1
  <2>3. QED
    BY <1>2, <1>3, <2>1, <2>2 DEF Held
<1>4. CASE ~(Queue = q /\ fw.step = "publish")
  <2>1. Returned(q) = Taken(q) /\ Held(q) = {}
    BY <1>4 DEF Returned, Held
  <2>2. Returned(q) .. Taken(q) - 1 = {}
    BY <1>1, <2>1
  <2>3. QED
    BY <1>2, <2>1, <2>2
<1>5. QED
  BY <1>3, <1>4

LEMMA OneOwnerHolds == TypeOK /\ RpmsgInv => OneOwner
<1> SUFFICES ASSUME TypeOK, RpmsgInv, fw.step # "fill", NEW q \in {0, 1}, NEW d \in Desc
             PROVE  OwnedOnce(vq[q], Held(q), d)
  BY DEF OneOwner
<1>1. /\ Counts(Collected(q), Returned(q), Returned(q), Taken(q), Offered(q))
      /\ Ring(vq[q], Collected(q), Returned(q), Returned(q), Taken(q), Offered(q))
  BY HeldBuffers DEF RpmsgInv, RingInv
<1>2. OwnedOnce(vq[q], {x % NUM : x \in Returned(q) .. Taken(q) - 1}, d)
  BY <1>1, HeldBuffers, CountTypes, RingOwnedOnce
<1>3. QED
  BY <1>2, HeldBuffers

(* No descriptor is leaked and none has two owners, however often the        *)
(* free-running indices wrap: what the host handed out is offered, held by   *)
(* the PRU or returned, exactly once.                                        *)
THEOREM DescriptorsOwnedOnce == InOrder => (Spec => []OneOwner)
<1> SUFFICES ASSUME InOrder PROVE Spec => []OneOwner
  OBVIOUS
<1>1. QED
  BY OneOwnerHolds, TypeCorrect, RingsInOrder, PTL

LEMMA DroppedHolds == TypeOK /\ RpmsgInv => DroppedOnlyWhenFull
<1> SUFFICES ASSUME TypeOK, RpmsgInv, Call("reply"), NoBufAvailable(vq[0])
             PROVE  Len(echoed) - Len(got) = NUM
  BY DEF DroppedOnlyWhenFull
<1>1. Taken(0) = Offered(0)
  BY NoneToTake DEF RpmsgInv, RingInv
<1>2. driver_ok
  BY DEF RpmsgInv, HoldInv, Call
<1>3. Len(echoed) = NUM + Len(got)
  BY <1>1, <1>2 DEF Taken, Offered
<1>4. QED
  BY <1>3, CountTypes, Sizes

(* An answer that finds no buffer, and is dropped, finds all NUM buffers     *)
(* full of messages the host has not collected.                              *)
THEOREM DropsOnlyWhenFull == InOrder => (Spec => []DroppedOnlyWhenFull)
<1> SUFFICES ASSUME InOrder PROVE Spec => []DroppedOnlyWhenFull
  OBVIOUS
<1>1. QED
  BY DroppedHolds, TypeCorrect, RingsInOrder, PTL

----------------------------------------------------------------------------
(* Each direction implements the bounded queue of MessageFifo.             *)

\* The messages the host has sent, in order.
Numbered(n) == [i \in 1 .. n |-> i]

LEMMA NumberedNext ==
  ASSUME NEW n \in Nat
  PROVE  /\ Numbered(n) \in Seq(Nat)
         /\ Len(Numbered(n)) = n
         /\ Numbered(n + 1) = Append(Numbered(n), n + 1)
         /\ Numbered(n + 1)[n + 1] = n + 1
<1>1. Numbered(n) \in Seq(Nat) /\ Len(Numbered(n)) = n
  BY DEF Numbered
<1>2. Numbered(n + 1) \in Seq(Nat) /\ Len(Numbered(n + 1)) = n + 1
  BY DEF Numbered
<1>3. Append(Numbered(n), n + 1) \in Seq(Nat) /\ Len(Append(Numbered(n), n + 1)) = n + 1
  BY <1>1
<1>4. ASSUME NEW i \in 1 .. n + 1 PROVE Numbered(n + 1)[i] = Append(Numbered(n), n + 1)[i]
  BY <1>1 DEF Numbered
<1>5. Numbered(n + 1) = Append(Numbered(n), n + 1)
  BY <1>2, <1>3, <1>4
<1>6. QED
  BY <1>1, <1>5 DEF Numbered

LEMMA InboundStep ==
  InOrder /\ TypeOK /\ RpmsgInv /\ [Next]_vars => [Inbound!Next]_(Inbound!vars)
<1> SUFFICES ASSUME InOrder, TypeOK, RpmsgInv, [Next]_vars
             PROVE  [Inbound!Next]_(Inbound!vars)
  OBVIOUS
<1> DEFINE t == Taken(1)
<1>1. t = Len(consumed) /\ t \in Nat /\ sent \in Nat /\ Offered(1) = sent
  BY CountTypes DEF Taken, Offered
<1>2. Len(Numbered(sent)) = sent
  BY <1>1, NumberedNext
<1>3. ASSUME UNCHANGED <<sent, consumed>> PROVE UNCHANGED Inbound!vars
  BY <1>3 DEF Inbound!vars
<1>4. ASSUME sent' = sent + 1, sent + 1 \in Message, sent - t < NUM, UNCHANGED consumed
      PROVE  Inbound!Put
  <2>1. Numbered(sent') = Append(Numbered(sent), sent + 1)
        /\ Numbered(sent')[sent + 1] = sent + 1 /\ Len(Numbered(sent')) = sent + 1
    <3>1. sent + 1 \in Nat
      BY <1>1
    <3>2. QED
      BY <1>1, <1>4, <3>1, NumberedNext
  <2>2. QED
    BY <1>1, <1>2, <1>4, <2>1 DEF Inbound!Put, Numbered
<1>5. CASE rpmsg_send_fresh
  <2>1. sent' = sent + 1 /\ sent < NUM /\ sent < MaxSends /\ UNCHANGED consumed
    BY <1>5 DEF rpmsg_send_fresh, Sends, MaySend
  <2>2. sent + 1 \in Message /\ sent - t < NUM
    BY <2>1, <1>1, Sizes, RpmsgAssumption DEF Message
  <2>3. QED
    BY <1>4, <2>1, <2>2 DEF Inbound!Next
<1>6. CASE rpmsg_send_reuse
  <2> DEFINE c == Collected(1)
             r == Returned(1)
  <2>1. ArmLooks /\ sent >= NUM /\ sent < MaxSends /\ MoreUsed(vq[1]) /\ UNCHANGED consumed
    BY <1>6 DEF rpmsg_send_reuse, MaySend
  <2>2. c = sent - NUM
    BY <2>1, <1>1, Sizes DEF Collected
  <2>3. Counts(c, r, r, t, sent) /\ Ring(vq[1], c, r, r, t, sent)
    BY <1>1, <2>1, ArmSees DEF RpmsgInv, RingInv
  <2>4. c < r /\ ~virtqueue_get_buf(vq[1]).broken
    <3>1. c < r /\ Ring(virtqueue_get_buf(vq[1]), c + 1, r, r, t, sent)
      BY <2>1, <2>3, CountTypes, CollectRing
    <3>2. QED
      BY <3>1 DEF Ring
  <2>5. sent' = sent + 1
    BY <1>6, <2>4 DEF rpmsg_send_reuse, Sends
  <2>6. sent + 1 \in Message
    BY <2>1, <1>1, RpmsgAssumption DEF Message
  <2>7. sent - t < NUM
    BY <1>1, <2>2, <2>3, <2>4, Sizes DEF Counts
  <2>8. QED
    BY <1>4, <2>1, <2>5, <2>6, <2>7 DEF Inbound!Next
<1>7. CASE pru_rpmsg_receive
  <2> DEFINE c == Collected(1)
  <2>1. Queue = 1 /\ fw.step = "call" /\ ~NoBufAvailable(vq[1]) /\ UNCHANGED sent
        /\ consumed' = Append(consumed, buf[1][AvailHead(vq[1])])
    BY <1>7 DEF pru_rpmsg_receive, Call, Queue
  <2>2. Counts(c, t, t, t, sent) /\ Ring(vq[1], c, t, t, t, sent)
    BY <1>1, <2>1, NothingHeld DEF RpmsgInv, RingInv
  <2>3. t < sent /\ AvailHead(vq[1]) = t % NUM
    BY <2>1, <2>2, CountTypes, TakeRing
  <2>4. buf[1][t % NUM] = t + 1
    BY <1>1, <2>3 DEF RpmsgInv, BufferInv
  <2>5. consumed' = Append(consumed, Numbered(sent)[Len(consumed) + 1])
    BY <1>1, <2>1, <2>3, <2>4 DEF Numbered
  <2>6. Inbound!Get
    BY <1>1, <1>2, <2>1, <2>3, <2>5 DEF Inbound!Get, Numbered
  <2>7. QED
    BY <2>6 DEF Inbound!Next
<1>8. CASE UNCHANGED vars
  BY <1>3, <1>8 DEF vars, history
<1>9. CASE main_boot \/ main_status \/ main_poll \/ main_clear \/ pru_rpmsg_no_buf
           \/ pru_rpmsg_send \/ add_used_publish \/ add_used_fill \/ pru_virtqueue_kick
  BY <1>3, <1>9 DEF main_boot, main_status, main_poll, main_clear, pru_rpmsg_no_buf,
     pru_rpmsg_send, add_used_publish, add_used_fill, pru_virtqueue_kick, history
<1>10. CASE rpmsg_probe \/ Interrupt \/ rpmsg_send_kick \/ rpmsg_send_wait \/ rpmsg_send_sleep
  BY <1>3, <1>10 DEF rpmsg_probe, Interrupt, vring_interrupt, rpmsg_recv_done, rpmsg_recv_end,
     rpmsg_send_kick, rpmsg_send_wait, rpmsg_send_sleep, history
<1>11. QED
  BY <1>5, <1>6, <1>7, <1>8, <1>9, <1>10 DEF Next, main, Sender

(* The PRU receives the messages that were sent to it, each once, whole and  *)
(* in order, and at most NUM wait: the buffer of a message that has not been *)
(* received is not used for another.                                         *)
THEOREM InboundRefinement == InOrder => (Spec => InboundSpec)
<1> SUFFICES ASSUME InOrder PROVE Spec => InboundSpec
  OBVIOUS
<1>1. Init => Inbound!Init
  BY DEF Init, Inbound!Init
<1>2. QED
  BY <1>1, InboundStep, TypeCorrect, RingsInOrder, PTL DEF Spec, InboundSpec, Inbound!Spec

LEMMA OutboundStep ==
  InOrder /\ TypeOK /\ RpmsgInv /\ [Next]_vars => [Outbound!Next]_(Outbound!vars)
<1> SUFFICES ASSUME InOrder, TypeOK, RpmsgInv, [Next]_vars
             PROVE  [Outbound!Next]_(Outbound!vars)
  OBVIOUS
<1> DEFINE c == Collected(0)
           r == Returned(0)
           t == Taken(0)
           o == Offered(0)
<1>1. /\ t = Len(echoed) /\ c = Len(got) /\ t \in Nat /\ c \in Nat
      /\ echoed \in Seq(Message) /\ got \in Seq(Message)
  BY CountTypes DEF Taken, Collected, TypeOK
<1>2. ASSUME UNCHANGED <<echoed, got>> PROVE UNCHANGED Outbound!vars
  BY <1>2 DEF Outbound!vars
<1>3. CASE pru_rpmsg_send
  <2>1. Queue = 0 /\ fw.step = "call" /\ ~NoBufAvailable(vq[0]) /\ UNCHANGED got
        /\ echoed' = Append(echoed, fw.payload) /\ fw.payload \in Message
        /\ fw.op \in {"announce", "reply"}
    BY <1>3 DEF pru_rpmsg_send, Call, Queue, TypeOK
  <2>2. Counts(c, t, t, t, o) /\ Ring(vq[0], c, t, t, t, o)
    BY <2>1, NothingHeld DEF RpmsgInv, RingInv
  <2>3. t < o
    BY <2>1, <2>2, CountTypes, TakeRing
  <2>4. o = NUM + c
    BY <2>1, <1>1 DEF RpmsgInv, HoldInv, Offered
  <2>5. Len(echoed) - Len(got) < NUM
    BY <1>1, <2>3, <2>4, Sizes
  <2>6. Len(echoed') = Len(echoed) + 1 /\ echoed'[Len(echoed) + 1] = fw.payload
    BY <1>1, <2>1
  <2>7. Outbound!Put
    BY <2>1, <2>5, <2>6 DEF Outbound!Put
  <2>8. QED
    BY <2>7 DEF Outbound!Next
<1>4. CASE rpmsg_recv_done
  <2>1. ArmLooks /\ MoreUsed(vq[0]) /\ UNCHANGED echoed
    BY <1>4 DEF rpmsg_recv_done
  <2>2. Counts(c, r, r, t, o) /\ Ring(vq[0], c, r, r, t, o)
    BY <2>1, ArmSees DEF RpmsgInv, RingInv
  <2>3. c < r /\ UsedHead(vq[0]) = c % NUM /\ ~virtqueue_get_buf(vq[0]).broken
    <3>1. c < r /\ UsedHead(vq[0]) = c % NUM
          /\ Ring(virtqueue_get_buf(vq[0]), c + 1, r, r, t, o)
      BY <2>1, <2>2, CountTypes, CollectRing
    <3>2. QED
      BY <3>1 DEF Ring
  <2>4. c < t
    BY <1>1, <2>2, <2>3 DEF Counts
  <2>5. buf[0][c % NUM] = echoed[c + 1]
    BY <1>1, <2>4 DEF RpmsgInv, BufferInv
  <2>6. got' = Append(got, echoed[Len(got) + 1])
    BY <1>1, <1>4, <2>3, <2>5 DEF rpmsg_recv_done
  <2>7. Outbound!Get
    BY <1>1, <2>1, <2>4, <2>6 DEF Outbound!Get
  <2>8. QED
    BY <2>7 DEF Outbound!Next
<1>5. CASE UNCHANGED vars
  BY <1>2, <1>5 DEF vars, history
<1>6. CASE main_boot \/ main_status \/ main_poll \/ main_clear \/ pru_rpmsg_no_buf
           \/ pru_rpmsg_receive \/ add_used_publish \/ add_used_fill \/ pru_virtqueue_kick
  BY <1>2, <1>6 DEF main_boot, main_status, main_poll, main_clear, pru_rpmsg_no_buf,
     pru_rpmsg_receive, add_used_publish, add_used_fill, pru_virtqueue_kick, history
<1>7. CASE rpmsg_probe \/ Sender \/ vring_interrupt \/ rpmsg_recv_end
  BY <1>2, <1>7 DEF rpmsg_probe, vring_interrupt, rpmsg_recv_end, Sender, rpmsg_send_fresh,
     rpmsg_send_reuse, rpmsg_send_kick, rpmsg_send_wait, rpmsg_send_sleep, history
<1>8. QED
  BY <1>3, <1>4, <1>5, <1>6, <1>7 DEF Next, main, Interrupt

(* The host receives what the firmware sent, each message once, whole and in *)
(* order, and the firmware never sends with NUM messages uncollected.        *)
THEOREM OutboundRefinement == InOrder => (Spec => OutboundSpec)
<1> SUFFICES ASSUME InOrder PROVE Spec => OutboundSpec
  OBVIOUS
<1>1. Init => Outbound!Init
  BY DEF Init, Outbound!Init
<1>2. QED
  BY <1>1, OutboundStep, TypeCorrect, RingsInOrder, PTL DEF Spec, OutboundSpec, Outbound!Spec
=============================================================================
