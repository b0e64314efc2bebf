---------------------------- MODULE PruVirtqueue ----------------------------
(***************************************************************************)
(* One virtqueue of the RPMsg transport (examples/lib/src/pru_virtqueue.c, *)
(* examples/include/pru_virtio_ring.h), as operators on a record: the ring *)
(* in shared memory and the private indices of its two users.              *)
(*                                                                         *)
(* The ARM host offers buffers in `avail', the PRU hands them back in      *)
(* `used'.  The indices are free-running 16-bit counters (modulo IDX_MOD   *)
(* here); the slot of an index is its lower bits, which is the index       *)
(* modulo NUM since NUM is a power of two.                                 *)
(***************************************************************************)
EXTENDS Integers, FiniteSets

CONSTANTS
  NUM,      \* vring.num: descriptors, and slots in each of the two rings
  IDX_MOD   \* the free-running indices wrap here: 2^16 in the code

ASSUME VirtqueueAssumption ==
  /\ NUM \in Nat \ {0}
  /\ IDX_MOD \in Nat
  /\ NUM < IDX_MOD
  /\ IDX_MOD % NUM = 0

Desc == 0 .. NUM - 1
Index == 0 .. IDX_MOD - 1

\* Mutant: a counter wider than 16 bits.
NextUnwrapped(i) == i + 1
Next16(i) == (i + 1) % IDX_MOD
Slot(i) == i % NUM

Virtqueue == [
  avail : [idx : Index, ring : [Desc -> Desc], no_interrupt : BOOLEAN],
  used  : [idx : Index, ring : [Desc -> Desc]],
  last_avail_idx : Index,   \* private to the PRU
  last_used_idx : Index,    \* private to the ARM host, as are the next two
  out : SUBSET Desc,        \* descriptors offered and not yet taken back
  broken : BOOLEAN ]        \* the host found an id it had not handed out

\* The ring as the host lays it out in zeroed memory.
vring_init == [
  avail |-> [idx |-> 0, ring |-> [d \in Desc |-> 0], no_interrupt |-> FALSE],
  used |-> [idx |-> 0, ring |-> [d \in Desc |-> 0]],
  last_avail_idx |-> 0, last_used_idx |-> 0, out |-> {}, broken |-> FALSE ]

----------------------------------------------------------------------------
(* The PRU's side.                                                         *)

pru_virtqueue_init(vq) == [vq EXCEPT !.last_avail_idx = 0]

\* Mutant: off by one, the last buffer offered is left.
OneLeft(vq) == Next16(vq.last_avail_idx) = vq.avail.idx
NoBufAvailable(vq) == vq.last_avail_idx = vq.avail.idx
\* Mutant: the newest offer instead of the oldest.
NewestHead(vq) == vq.avail.ring[Slot(vq.avail.idx + NUM - 1)]
AvailHead(vq) == vq.avail.ring[Slot(vq.last_avail_idx)]

\* Mutant: the PRU's index is not advanced.
get_avail_again(vq) == vq
pru_virtqueue_get_avail_buf(vq) == [vq EXCEPT !.last_avail_idx = Next16(@)]

\* pru_virtqueue_add_used_buf: used->idx is advanced first, the entry it
\* covers is written after.  (INVALID_HEAD cannot come back: the head was
\* read from the avail ring, where the host writes descriptors only.)
UsedElem(vq) == Slot(vq.used.idx)
\* Mutant: the entry after the one that was published.
FillNext(vq, elem, head) == [vq EXCEPT !.used.ring[Slot(elem + 1)] = head]
PublishUsed(vq) == [vq EXCEPT !.used.idx = Next16(@)]
FillUsed(vq, elem, head) == [vq EXCEPT !.used.ring[elem] = head]

\* Mutant: the flag is read the wrong way round.
KickIfSuppressed(vq) == vq.avail.no_interrupt
KickWanted(vq) == ~vq.avail.no_interrupt

----------------------------------------------------------------------------
(* The ARM host's side: virtio_ring.c of the Linux kernel.                 *)

virtqueue_add(vq, d) ==
  [vq EXCEPT !.avail.ring[Slot(vq.avail.idx)] = d,
             !.avail.idx = Next16(@),
             !.out = @ \union {d}]

\* All buffers at once, in order, as probe does with virtqueue_add.
virtqueue_add_all(vq) ==
  [vq EXCEPT !.avail.ring = [d \in Desc |-> d], !.avail.idx = NUM, !.out = Desc]

virtqueue_enable_cb(vq) == [vq EXCEPT !.avail.no_interrupt = FALSE]
virtqueue_disable_cb(vq) == [vq EXCEPT !.avail.no_interrupt = TRUE]

MoreUsed(vq) == ~vq.broken /\ vq.last_used_idx # vq.used.idx
UsedHead(vq) == vq.used.ring[Slot(vq.last_used_idx)]

\* An id that was not handed out ("is not a head!") stops the queue for good.
virtqueue_get_buf(vq) ==
  IF UsedHead(vq) \in vq.out
    THEN [vq EXCEPT !.last_used_idx = Next16(@), !.out = @ \ {UsedHead(vq)}]
    ELSE [vq EXCEPT !.broken = TRUE]

----------------------------------------------------------------------------
(* Who owns a descriptor.                                                  *)

\* The free-running indices from i up to, not including, j.
Between(i, j) == {(i + k) % IDX_MOD : k \in 0 .. ((j - i) % IDX_MOD) - 1}

\* The entries of the two rings that still hand descriptor d over.
Offers(vq, d) == {i \in Between(vq.last_avail_idx, vq.avail.idx) : vq.avail.ring[Slot(i)] = d}
Returns(vq, d) == {i \in Between(vq.last_used_idx, vq.used.idx) : vq.used.ring[Slot(i)] = d}

\* The descriptor is where it should be exactly once, if the host handed it
\* out, and nowhere otherwise; `held' are those the PRU is working on.
OwnedOnce(vq, held, d) ==
  Cardinality(Offers(vq, d)) + Cardinality(Returns(vq, d)) + Cardinality(held \intersect {d})
    = IF d \in vq.out THEN 1 ELSE 0
=============================================================================
