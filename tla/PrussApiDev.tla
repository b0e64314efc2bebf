---------------------------- MODULE PrussApiDev ----------------------------
(***************************************************************************)
(* The receive path of one /dev/pruss_api_pruN device                      *)
(* (drivers/pruss_api.c): open, release, read and poll, called by user     *)
(* processes, and the rpmsg callback that queues what the PRU sends.       *)
(*                                                                         *)
(* The driver keeps the bytes in a kfifo and the length of each message in *)
(* the table msg_len, indexed cyclically by msg_idx_rd and msg_idx_wr.     *)
(* Only `locked' is protected by the mutex, so the callback and read() are *)
(* split where the other one can run.                                      *)
(*                                                                         *)
(* Bytes are named by their position in the stream the PRU sends: a        *)
(* message is a stretch [at, len] of it, and the kfifo holds the positions *)
(* msg_fifo.out .. msg_fifo.in - 1 (its 32-bit counters are only ever      *)
(* subtracted, so their wrap-around is not modelled).                      *)
(***************************************************************************)
EXTENDS Integers, Sequences

CONSTANTS
  Procs,         \* user processes that use the device file
  MAX_FIFO_MSG,  \* slots of the length table
  FIFO_MSG_SIZE, \* kfifo bytes per slot, no message is longer
  MsgLens,       \* the lengths of the messages the PRU sends
  Preempt,       \* may a reader run between kfifo_in and the index update?
  CanFault,      \* may copying to the user's buffer fail part-way?
  MaxMsgs,       \* bound: messages the PRU sends
  MaxReads       \* bound: reads that consume a slot

ASSUME DevAssumption ==
  /\ MAX_FIFO_MSG \in Nat \ {0}
  /\ FIFO_MSG_SIZE \in Nat
  /\ MsgLens \subseteq 0 .. FIFO_MSG_SIZE
  /\ Preempt \in BOOLEAN
  /\ CanFault \in BOOLEAN
  /\ MaxMsgs \in Nat
  /\ MaxReads \in Nat

VARIABLES
  locked,      \* the device file is in use
  opened,      \* the processes whose open() succeeded and that have not closed
  msg_fifo,    \* [in, out]: stream positions written to and read from the kfifo
  msg_len,     \* the length table
  msg_idx_rd,  \* slot of the next message to read
  msg_idx_wr,  \* slot of the next message to queue
  cb,          \* [pc, len]: the rpmsg callback in progress
  call,        \* [Procs -> [pc, len, ret]]: each process's read() or poll()
  accepted,    \* history: the messages put into the kfifo
  returned     \* history: the stretches read() took out of it

file == <<locked, opened>>
queue == <<msg_fifo, msg_len, msg_idx_rd, msg_idx_wr>>
history == <<accepted, returned>>
vars == <<file, queue, cb, call, history>>

Slots == 0 .. MAX_FIFO_MSG - 1
\* Mutant: the index is not taken modulo the table.
NextSlotUnwrapped(i) == i + 1
NextSlot(i) == (i + 1) % MAX_FIFO_MSG
CbStages == {"idle", "check", "store", "len", "idx", "wake"}
CallStages == {"idle", "wait", "asleep", "len", "copy", "idx", "poll", "pollasleep"}
Returns == {"none", "data", "EAGAIN", "EINTR", "EFAULT", "POLLIN", "0"}

\* A process with no call in progress and no result it still relies on.
NoCall == [pc |-> "idle", len |-> 0, ret |-> "none"]

Init ==
  /\ locked = FALSE
  /\ opened = {}
  /\ msg_fifo = [in |-> 0, out |-> 0]
  /\ msg_len = [i \in Slots |-> 0]
  /\ msg_idx_rd = 0
  /\ msg_idx_wr = 0
  /\ cb = [pc |-> "idle", len |-> 0]
  /\ call = [p \in Procs |-> NoCall]
  /\ accepted = << >>
  /\ returned = << >>

----------------------------------------------------------------------------
(* kfifo, a library of the kernel, as this driver uses it.                 *)

\* Mutant: one byte per slot is allocated.
FifoSizeInSlots == MAX_FIFO_MSG
FifoSize == MAX_FIFO_MSG * FIFO_MSG_SIZE
kfifo_len == msg_fifo.in - msg_fifo.out
kfifo_is_empty == msg_fifo.in = msg_fifo.out
kfifo_avail == FifoSize - kfifo_len

\* kfifo_in queues what fits; kfifo_to_user hands out what is there.
kfifo_in_count(len) == IF len <= kfifo_avail THEN len ELSE kfifo_avail
\* Mutant: read() takes all there is.
kfifo_out_all(len) == kfifo_len
kfifo_out_count(len) == IF len <= kfifo_len THEN len ELSE kfifo_len

----------------------------------------------------------------------------
(* open and release, under pruss_api_lock.                                 *)

\* Mutant: the flag is not tested.
open_unchecked(p) ==
  /\ p \notin opened
  /\ locked' = TRUE
  /\ opened' = opened \union {p}
  /\ UNCHANGED <<queue, cb, call, history>>

pruss_api_open(p) ==
  /\ p \notin opened
  /\ ~locked
  /\ locked' = TRUE
  /\ opened' = opened \union {p}
  /\ UNCHANGED <<queue, cb, call, history>>

\* The file is released when its last user is gone, never under a call.
pruss_api_release(p) ==
  /\ p \in opened
  /\ call[p].pc = "idle"
  /\ locked' = FALSE
  /\ opened' = opened \ {p}
  /\ call' = [call EXCEPT ![p] = NoCall]
  /\ UNCHANGED <<queue, cb, history>>

----------------------------------------------------------------------------
(* read and poll, which take no lock.                                      *)

\* Without preemption the callback queues a message in one piece.
ReaderRuns == Preempt \/ cb.pc \notin {"len", "idx"}

Advance(p, from, c) ==
  /\ ReaderRuns
  /\ call[p].pc = from
  /\ call' = [call EXCEPT ![p] = c]
  /\ UNCHANGED <<file, queue, cb, history>>

Step(p, from, to) == Advance(p, from, [call[p] EXCEPT !.pc = to])
Finish(p, from, ret) == Advance(p, from, [call[p] EXCEPT !.pc = "idle", !.ret = ret])

pruss_api_read_start(p) ==
  /\ p \in opened
  /\ Len(returned) < MaxReads
  /\ Advance(p, "idle", [NoCall EXCEPT !.pc = "wait"])

\* O_NONBLOCK on an empty fifo.
pruss_api_read_again(p) == p \in opened /\ kfifo_is_empty /\ Finish(p, "idle", "EAGAIN")

\* wait_event_interruptible: the condition is looked at before a signal is.
pruss_api_read_ready(p) == ~kfifo_is_empty /\ Step(p, "wait", "len")
pruss_api_read_sleep(p) == kfifo_is_empty /\ Step(p, "wait", "asleep")
pruss_api_read_intr(p) ==
  /\ kfifo_is_empty
  /\ Finish(p, "wait", "EINTR") \/ Finish(p, "asleep", "EINTR")

\* The argument msg_len[msg_idx_rd] is loaded ...
pruss_api_read_len(p) ==
  Advance(p, "len", [call[p] EXCEPT !.pc = "copy", !.len = msg_len[msg_idx_rd]])

\* ... and kfifo_to_user copies and consumes n bytes.
TakeOut(p, n, ret) ==
  /\ ReaderRuns
  /\ call[p].pc = "copy"
  /\ msg_fifo' = [msg_fifo EXCEPT !.out = @ + n]
  /\ returned' = Append(returned, [at |-> msg_fifo.out, len |-> n])
  /\ call' = [call EXCEPT ![p].pc = "idx", ![p].ret = ret]
  /\ UNCHANGED <<file, msg_len, msg_idx_rd, msg_idx_wr, cb, accepted>>

pruss_api_read_copy(p) == TakeOut(p, kfifo_out_count(call[p].len), "data")

\* A fault while copying: what was copied before it is consumed all the same.
pruss_api_read_fault(p) ==
  /\ CanFault
  /\ \E n \in 0 .. FIFO_MSG_SIZE : n < kfifo_out_count(call[p].len) /\ TakeOut(p, n, "EFAULT")

\* Mutant: the read index stays.
return_in_place(p) == Step(p, "idx", "idle")

\* The read index moves on whether or not the copy succeeded.
pruss_api_read_return(p) ==
  /\ ReaderRuns
  /\ call[p].pc = "idx"
  /\ msg_idx_rd' = NextSlot(msg_idx_rd)
  /\ call' = [call EXCEPT ![p].pc = "idle"]
  /\ UNCHANGED <<file, msg_fifo, msg_len, msg_idx_wr, cb, history>>

\* select()/poll(): the process is on wait_list before the fifo is looked at.
pruss_api_poll_start(p) == p \in opened /\ Advance(p, "idle", [NoCall EXCEPT !.pc = "poll"])

\* Mutant: POLLIN is always reported.
poll_ready_always(p) == Finish(p, "poll", "POLLIN")

pruss_api_poll_ready(p) == ~kfifo_is_empty /\ Finish(p, "poll", "POLLIN")
pruss_api_poll_sleep(p) == kfifo_is_empty /\ Step(p, "poll", "pollasleep")
pruss_api_poll_timeout(p) == kfifo_is_empty /\ Finish(p, "pollasleep", "0")

----------------------------------------------------------------------------
(* The rpmsg callback.  The bus calls it for one message at a time.        *)

CbStep(from, to) == cb.pc = from /\ cb' = [cb EXCEPT !.pc = to]

pruss_api_cb_start(len) ==
  /\ Len(accepted) < MaxMsgs
  /\ cb.pc = "idle"
  /\ cb' = [pc |-> "check", len |-> len]
  /\ UNCHANGED <<file, queue, call, history>>

NoSpace == kfifo_avail < cb.len
\* Mutant: the table is not tested.
TableNeverFull == FALSE

TableFull == NextSlot(msg_idx_wr) = msg_idx_rd

\* -ENOSPC: the message is dropped.
pruss_api_cb_drop ==
  /\ NoSpace \/ TableFull
  /\ CbStep("check", "idle")
  /\ UNCHANGED <<file, queue, call, history>>

pruss_api_cb_accept ==
  /\ ~NoSpace
  /\ ~TableFull
  /\ CbStep("check", "store")
  /\ UNCHANGED <<file, queue, call, history>>

\* kfifo_in: from here on a reader sees a non-empty fifo.
pruss_api_cb_store ==
  LET length == kfifo_in_count(cb.len) IN
  /\ cb.pc = "store"
  /\ msg_fifo' = [msg_fifo EXCEPT !.in = @ + length]
  /\ accepted' = Append(accepted, [at |-> msg_fifo.in, len |-> length])
  /\ cb' = [pc |-> "len", len |-> length]
  /\ UNCHANGED <<file, msg_len, msg_idx_rd, msg_idx_wr, call, returned>>

\* Mutant: the length goes to the slot of the reader.
cb_len_at_rd ==
  /\ CbStep("len", "idx")
  /\ msg_len' = [msg_len EXCEPT ![msg_idx_rd] = cb.len]
  /\ UNCHANGED <<file, msg_fifo, msg_idx_rd, msg_idx_wr, call, history>>

pruss_api_cb_len ==
  /\ CbStep("len", "idx")
  /\ msg_len' = [msg_len EXCEPT ![msg_idx_wr] = cb.len]
  /\ UNCHANGED <<file, msg_fifo, msg_idx_rd, msg_idx_wr, call, history>>

pruss_api_cb_idx ==
  /\ CbStep("idx", "wake")
  /\ msg_idx_wr' = NextSlot(msg_idx_wr)
  /\ UNCHANGED <<file, msg_fifo, msg_len, msg_idx_rd, call, history>>

\* Mutant: poll() did not put the process on wait_list.
WokenReaders(c) == [c EXCEPT !.pc = IF @ = "asleep" THEN "wait" ELSE @]

Woken(c) ==
  [c EXCEPT !.pc = CASE @ = "asleep" -> "wait" [] @ = "pollasleep" -> "poll" [] OTHER -> @]

pruss_api_cb_wake ==
  /\ CbStep("wake", "idle")
  /\ call' = [p \in Procs |-> Woken(call[p])]
  /\ UNCHANGED <<file, queue, history>>

----------------------------------------------------------------------------
pruss_api_read(p) ==
  \/ pruss_api_read_ready(p)
  \/ pruss_api_read_sleep(p)
  \/ pruss_api_read_len(p)
  \/ pruss_api_read_copy(p)
  \/ pruss_api_read_fault(p)
  \/ pruss_api_read_return(p)

pruss_api_poll(p) ==
  \/ pruss_api_poll_ready(p)
  \/ pruss_api_poll_sleep(p)

User(p) ==
  \/ pruss_api_open(p)
  \/ pruss_api_release(p)
  \/ pruss_api_read_start(p)
  \/ pruss_api_read_again(p)
  \/ pruss_api_read_intr(p)
  \/ pruss_api_poll_start(p)
  \/ pruss_api_poll_timeout(p)

pruss_api_cb ==
  \/ pruss_api_cb_drop
  \/ pruss_api_cb_accept
  \/ pruss_api_cb_store
  \/ pruss_api_cb_len
  \/ pruss_api_cb_idx
  \/ pruss_api_cb_wake

Next ==
  \/ \E p \in Procs : User(p) \/ pruss_api_read(p) \/ pruss_api_poll(p)
  \/ \E len \in MsgLens : pruss_api_cb_start(len)
  \/ pruss_api_cb

Spec == Init /\ [][Next]_vars

\* A system call or a callback that has begun keeps running; nobody is forced
\* to begin one, no signal and no timeout need ever come.
Fairness ==
  /\ WF_vars(pruss_api_cb)
  /\ \A p \in Procs : WF_vars(pruss_api_read(p)) /\ WF_vars(pruss_api_poll(p))

FairSpec == Spec /\ Fairness

----------------------------------------------------------------------------
Stretches == [at : Nat, len : Nat]

\* The shape of the state; the fifo never holds more than was allocated.
TypeOK ==
  /\ locked \in BOOLEAN
  /\ opened \subseteq Procs
  /\ msg_fifo \in [in : Nat, out : Nat]
  /\ msg_fifo.out <= msg_fifo.in
  /\ kfifo_len <= FifoSize
  /\ msg_len \in [Slots -> Nat]
  /\ msg_idx_rd \in Slots
  /\ msg_idx_wr \in Slots
  /\ cb \in [pc : CbStages, len : Nat]
  /\ call \in [Procs -> [pc : CallStages, len : Nat, ret : Returns]]
  /\ accepted \in Seq(Stretches)
  /\ returned \in Seq(Stretches)

\* open() admits one process at a time (`locked: boolean used to determine
\* whether or not the device file is in use'), and only a process that is
\* inside has a call in progress or a result to rely on.
ExclusiveOpen ==
  /\ \A p, q \in opened : p = q
  /\ \A p \in Procs \ opened : call[p] = NoCall

\* What poll() reported stays true until the process acts on it: a read()
\* after POLLIN finds a message and does not block.  This is what the daemon
\* relies on when it selects with timeout 0 before it reads.
ReadableDoesNotBlock ==
  \A p \in Procs : call[p].ret = "POLLIN" => ~kfifo_is_empty

\* Nothing is under way: the length table and the fifo can be compared.
Quiet == cb.pc = "idle" /\ \A p \in Procs : call[p].pc # "idx"

\* msg_len holds the lengths of the messages in the kfifo: the next message
\* to read begins at the first byte of the fifo, the slots from msg_idx_rd to
\* msg_idx_wr hold the lengths of the accepted messages not yet read, and
\* there are as many of them as such messages.
LengthTableMatchesFifo ==
  Quiet =>
    LET pending == Len(accepted) - Len(returned) IN
    /\ Len(returned) <= Len(accepted)
    /\ (msg_idx_rd + pending) % MAX_FIFO_MSG = msg_idx_wr
    /\ pending < MAX_FIFO_MSG
    /\ msg_fifo.out = IF pending = 0 THEN msg_fifo.in ELSE accepted[Len(returned) + 1].at
    /\ \A k \in 0 .. pending - 1 :
         msg_len[(msg_idx_rd + k) % MAX_FIFO_MSG] = accepted[Len(returned) + 1 + k].len

\* When a message that passed both checks is stored, all of it fits: no
\* message is ever truncated by kfifo_in, and the byte check never rejects.
StoredWhole == cb.pc \in {"check", "store"} => kfifo_avail >= cb.len

\* Messages wait unseen (the fifo looks empty although slots are taken) only
\* if every one of them has length 0.
UnseenAreEmpty ==
  (Quiet /\ kfifo_is_empty) =>
    \A k \in Len(returned) + 1 .. Len(accepted) : accepted[k].len = 0

\* A blocked read() returns once there is a message (no wake-up is lost
\* between the test of the fifo and going to sleep), and so does a poll().
BlockedCallReturns ==
  \A p \in Procs :
    (call[p].pc \in {"wait", "asleep", "poll", "pollasleep"} /\ ~kfifo_is_empty)
      ~> call[p].pc = "idle"

----------------------------------------------------------------------------
(* The argument for the two properties above: how the counters of the two  *)
(* histories, the cyclic indices, the table and the kfifo fit together at  *)
(* every step of the callback and of read().                               *)

InIdx == \E p \in Procs : call[p].pc = "idx"
Written == Len(accepted) - (IF cb.pc \in {"len", "idx"} THEN 1 ELSE 0)
Read == Len(returned) - (IF InIdx THEN 1 ELSE 0)

IndexInv ==
  /\ 0 <= Read
  /\ Len(returned) <= Written
  /\ Len(accepted) - Read < MAX_FIFO_MSG
  /\ cb.pc = "store" => Written - Read < MAX_FIFO_MSG - 1
  /\ msg_idx_rd = Read % MAX_FIFO_MSG
  /\ msg_idx_wr = Written % MAX_FIFO_MSG

TableInv ==
  /\ \A k \in Read .. Written - 1 : msg_len[k % MAX_FIFO_MSG] = accepted[k + 1].len
  /\ cb.pc \in {"len", "idx"} => cb.len = accepted[Len(accepted)].len
  /\ cb.pc = "idx" => msg_len[msg_idx_wr] = cb.len

StreamInv ==
  /\ \A j, k \in 1 .. Len(accepted) : j < k => accepted[j].at + accepted[j].len <= accepted[k].at
  /\ \A k \in 1 .. Len(accepted) - 1 : accepted[k + 1].at = accepted[k].at + accepted[k].len
  /\ Len(accepted) > 0 =>
       msg_fifo.in = accepted[Len(accepted)].at + accepted[Len(accepted)].len
  /\ msg_fifo.out = IF Len(returned) < Len(accepted) THEN accepted[Len(returned) + 1].at
                                                     ELSE msg_fifo.in

CallInv ==
  \A p \in Procs :
    /\ call[p].pc \in {"len", "copy"} => Len(returned) < Written
    /\ call[p].pc = "copy" => call[p].len = accepted[Len(returned) + 1].len

\* With no reader inside the callback and no fault while copying, read() takes
\* out of the fifo what the callback put in, message by message.
FrameInv == IndexInv /\ TableInv /\ StreamInv /\ CallInv

\* Seen from the outside the device is a queue of whole messages.
Fifo == INSTANCE MessageFifo
          WITH Message <- Stretches, Capacity <- MAX_FIFO_MSG - 1
FifoSpec == Fifo!Spec
=============================================================================
