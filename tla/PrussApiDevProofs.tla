------------------------- MODULE PrussApiDevProofs -------------------------
(***************************************************************************)
(* What holds of PrussApiDev for every number of processes, slots, message *)
(* lengths and bounds; and the device as a queue of whole messages, for a  *)
(* driver whose callback no reader interrupts and whose copies to user     *)
(* space succeed.                                                          *)
(***************************************************************************)
EXTENDS PrussApiDev, ModLemmas

USE DEF file, queue, history, Advance

\* The kfifo is large enough for what it is said to hold.
LEMMA SizeNat == FifoSize \in Nat
  BY DevAssumption DEF FifoSize

\* The successor of a slot is a slot.
LEMMA NextInSlots ==
  ASSUME NEW i \in Slots
  PROVE  NextSlot(i) \in Slots
<1>1. MAX_FIFO_MSG \in Nat \ {0} /\ i + 1 \in Int
  BY DevAssumption DEF Slots
<1>2. QED
  BY <1>1, ModSplit DEF Slots, NextSlot

\* A step is a step of exactly one of these actions.
LEMMA NextCases ==
  ASSUME [Next]_vars
  PROVE  \/ \E p \in Procs : \/ pruss_api_open(p)
                             \/ pruss_api_release(p)
                             \/ pruss_api_read_start(p)
                             \/ pruss_api_read_again(p)
                             \/ pruss_api_read_ready(p)
                             \/ pruss_api_read_sleep(p)
                             \/ pruss_api_read_intr(p)
                             \/ pruss_api_read_len(p)
                             \/ pruss_api_read_copy(p)
                             \/ pruss_api_read_fault(p)
                             \/ pruss_api_read_return(p)
                             \/ pruss_api_poll_start(p)
                             \/ pruss_api_poll_ready(p)
                             \/ pruss_api_poll_sleep(p)
                             \/ pruss_api_poll_timeout(p)
         \/ \E len \in MsgLens : pruss_api_cb_start(len)
         \/ pruss_api_cb_drop
         \/ pruss_api_cb_accept
         \/ pruss_api_cb_store
         \/ pruss_api_cb_len
         \/ pruss_api_cb_idx
         \/ pruss_api_cb_wake
         \/ UNCHANGED vars
  BY DEF Next, User, pruss_api_read, pruss_api_poll, pruss_api_cb

----------------------------------------------------------------------------
\* Type correctness, with preemption and faults: whatever the interleaving,
\* the indices stay inside the table and the fifo inside its buffer.
THEOREM TypeCorrect == Spec => []TypeOK
<1>1. Init => TypeOK
  <2> SUFFICES ASSUME Init PROVE TypeOK
    OBVIOUS
  <2>1. 0 \in Slots
    BY DevAssumption DEF Slots
  <2>2. /\ cb \in [pc : CbStages, len : Nat]
        /\ call \in [Procs -> [pc : CallStages, len : Nat, ret : Returns]]
        /\ accepted \in Seq(Stretches)
        /\ returned \in Seq(Stretches)
    BY DEF Init, NoCall, CbStages, CallStages, Returns
  <2>3. /\ msg_fifo \in [in : Nat, out : Nat]
        /\ msg_fifo.out <= msg_fifo.in
        /\ kfifo_len <= FifoSize
    BY SizeNat DEF Init, kfifo_len
  <2>4. QED
    BY <2>1, <2>2, <2>3 DEF Init, TypeOK
<1>2. TypeOK /\ [Next]_vars => TypeOK'
  <2> SUFFICES ASSUME TypeOK, [Next]_vars PROVE TypeOK'
    OBVIOUS
  <2> USE DEF TypeOK, kfifo_len
  <2>1. ASSUME NEW p \in Procs, pruss_api_open(p) PROVE TypeOK'
    BY <2>1 DEF pruss_api_open
  <2>2. ASSUME NEW p \in Procs, pruss_api_release(p) PROVE TypeOK'
    BY <2>2 DEF pruss_api_release, NoCall, CallStages, Returns
  <2>3. ASSUME NEW p \in Procs, NEW from, NEW to \in CallStages, Step(p, from, to)
        PROVE  TypeOK'
    BY <2>3 DEF Step, Returns
  <2>4. ASSUME NEW p \in Procs, NEW from, NEW ret \in Returns, Finish(p, from, ret)
        PROVE  TypeOK'
    BY <2>4 DEF Finish, CallStages
  <2>5. ASSUME NEW p \in Procs, pruss_api_read_start(p) PROVE TypeOK'
    BY <2>5 DEF pruss_api_read_start, NoCall, CallStages, Returns
  <2>6. ASSUME NEW p \in Procs, pruss_api_poll_start(p) PROVE TypeOK'
    BY <2>6 DEF pruss_api_poll_start, NoCall, CallStages, Returns
  <2>7. ASSUME NEW p \in Procs, pruss_api_read_len(p) PROVE TypeOK'
    <3>1. msg_len[msg_idx_rd] \in Nat
      OBVIOUS
    <3>2. QED
      BY <2>7, <3>1 DEF pruss_api_read_len, CallStages
  <2>8. ASSUME NEW p \in Procs, NEW n \in Nat, NEW ret \in Returns,
               n <= kfifo_out_count(call[p].len), TakeOut(p, n, ret)
        PROVE  TypeOK'
    <3>1. n <= msg_fifo.in - msg_fifo.out
      BY <2>8 DEF kfifo_out_count
    <3>a. msg_fifo' = [in |-> msg_fifo.in, out |-> msg_fifo.out + n]
      BY <2>8 DEF TakeOut
    <3>2. msg_fifo' \in [in : Nat, out : Nat] /\ msg_fifo'.out <= msg_fifo'.in
          /\ msg_fifo'.in - msg_fifo'.out <= FifoSize
      BY <3>a, <3>1, SizeNat
    <3>3. returned' \in Seq(Stretches)
      BY <2>8 DEF TakeOut, Stretches
    <3>4. QED
      BY <2>8, <3>2, <3>3, ZenonT(30) DEF TakeOut, CallStages, Returns
  <2>9. ASSUME NEW p \in Procs, pruss_api_read_return(p) PROVE TypeOK'
    <3>1. msg_idx_rd' \in Slots
      BY <2>9, NextInSlots DEF pruss_api_read_return
    <3>2. QED
      BY <2>9, <3>1 DEF pruss_api_read_return, CallStages, Returns
  <2>10. ASSUME NEW len \in MsgLens, pruss_api_cb_start(len) PROVE TypeOK'
    BY <2>10, DevAssumption DEF pruss_api_cb_start, CbStages
  <2>11. CASE pruss_api_cb_drop
    BY <2>11 DEF pruss_api_cb_drop, CbStep, CbStages
  <2>12. CASE pruss_api_cb_accept
    BY <2>12 DEF pruss_api_cb_accept, CbStep, CbStages
  <2>13. CASE pruss_api_cb_store
    <3> DEFINE n == kfifo_in_count(cb.len)
    <3>1. n \in Nat /\ n + (msg_fifo.in - msg_fifo.out) <= FifoSize
      BY SizeNat DEF kfifo_in_count, kfifo_avail
    <3>a. msg_fifo' = [in |-> msg_fifo.in + n, out |-> msg_fifo.out]
      BY <2>13 DEF pruss_api_cb_store
    <3>2. msg_fifo' \in [in : Nat, out : Nat] /\ msg_fifo'.out <= msg_fifo'.in
          /\ msg_fifo'.in - msg_fifo'.out <= FifoSize
      BY <3>a, <3>1, SizeNat
    <3>3. accepted' \in Seq(Stretches)
      BY <2>13, <3>1 DEF pruss_api_cb_store, Stretches
    <3>4. QED
      BY <2>13, <3>1, <3>2, <3>3 DEF pruss_api_cb_store, CbStages
  <2>14. CASE pruss_api_cb_len
    BY <2>14 DEF pruss_api_cb_len, CbStep, CbStages
  <2>15. CASE pruss_api_cb_idx
    <3>1. msg_idx_wr' \in Slots
      BY <2>15, NextInSlots DEF pruss_api_cb_idx
    <3>2. QED
      BY <2>15, <3>1 DEF pruss_api_cb_idx, CbStep, CbStages
  <2>16. CASE pruss_api_cb_wake
    <3>1. ASSUME NEW p \in Procs
          PROVE  Woken(call[p]) \in [pc : CallStages, len : Nat, ret : Returns]
      BY DEF Woken, CallStages, Returns
    <3>2. QED
      BY <2>16, <3>1 DEF pruss_api_cb_wake, CbStep, CbStages
  <2>17. CASE UNCHANGED vars
    BY <2>17 DEF vars
  <2>18. ASSUME NEW p \in Procs, pruss_api_read_copy(p) PROVE TypeOK'
    <3> DEFINE n == kfifo_out_count(call[p].len)
    <3>1. n \in Nat
      BY DEF kfifo_out_count
    <3>2. TakeOut(p, n, "data") /\ n <= kfifo_out_count(call[p].len)
      BY <2>18, <3>1 DEF pruss_api_read_copy
    <3> HIDE DEF n
    <3>3. QED
      BY <2>8, <3>1, <3>2 DEF Returns
  <2>19. ASSUME NEW p \in Procs, pruss_api_read_fault(p) PROVE TypeOK'
    <3>1. PICK n \in 0 .. FIFO_MSG_SIZE :
            n < kfifo_out_count(call[p].len) /\ TakeOut(p, n, "EFAULT")
      BY <2>19 DEF pruss_api_read_fault
    <3>2. n \in Nat /\ n <= kfifo_out_count(call[p].len)
      BY <3>1, DevAssumption DEF kfifo_out_count
    <3>3. QED
      BY <2>8, <3>1, <3>2 DEF Returns
  <2>20. ASSUME NEW p \in Procs,
                \/ pruss_api_read_again(p) \/ pruss_api_read_intr(p)
                \/ pruss_api_poll_ready(p) \/ pruss_api_poll_timeout(p)
         PROVE  TypeOK'
    BY <2>20, <2>4 DEF pruss_api_read_again, pruss_api_read_intr, pruss_api_poll_ready,
                       pruss_api_poll_timeout, Returns
  <2>21. ASSUME NEW p \in Procs,
                pruss_api_read_ready(p) \/ pruss_api_read_sleep(p) \/ pruss_api_poll_sleep(p)
         PROVE  TypeOK'
    BY <2>21, <2>3 DEF pruss_api_read_ready, pruss_api_read_sleep, pruss_api_poll_sleep,
                       CallStages
  <2>22. QED
    BY NextCases, <2>1, <2>2, <2>5, <2>6, <2>7, <2>9, <2>10, <2>11, <2>12, <2>13, <2>14,
       <2>15, <2>16, <2>17, <2>18, <2>19, <2>20, <2>21
<1>3. QED
  BY <1>1, <1>2, PTL DEF Spec

----------------------------------------------------------------------------
(* Exclusive use.  The invariant adds that an opened device is locked.      *)

OpenInv == ExclusiveOpen /\ (opened # {} => locked)

\* Only a process that has the device open has a call to go on with.
LEMMA CallerHasOpened ==
  ASSUME OpenInv, NEW p \in Procs, call[p].pc # "idle"
  PROVE  p \in opened /\ \A q \in Procs \ {p} : q \notin opened /\ call[q] = NoCall
  BY DEF OpenInv, ExclusiveOpen, NoCall

LEMMA OpenStep == TypeOK /\ OpenInv /\ [Next]_vars => OpenInv'
<1> SUFFICES ASSUME TypeOK, OpenInv, [Next]_vars PROVE OpenInv'
  OBVIOUS
<1>1. ASSUME NEW p \in Procs, pruss_api_open(p) PROVE OpenInv'
  BY <1>1 DEF pruss_api_open, OpenInv, ExclusiveOpen
<1>2. ASSUME NEW p \in Procs, pruss_api_release(p) PROVE OpenInv'
  BY <1>2 DEF pruss_api_release, OpenInv, ExclusiveOpen, TypeOK
<1>3. ASSUME NEW p \in Procs, p \in opened, UNCHANGED <<locked, opened>>,
             \A q \in Procs \ {p} : call'[q] = call[q]
      PROVE  OpenInv'
  BY <1>3 DEF OpenInv, ExclusiveOpen
<1>4. ASSUME NEW p \in Procs, NEW from, NEW to, from # "idle", Step(p, from, to)
      PROVE  OpenInv'
  BY <1>4, <1>3, CallerHasOpened DEF Step, TypeOK
<1>5. ASSUME NEW p \in Procs, NEW from, NEW ret, from # "idle" \/ p \in opened,
             Finish(p, from, ret)
      PROVE  OpenInv'
  BY <1>5, <1>3, CallerHasOpened DEF Finish, TypeOK
<1>6. ASSUME NEW p \in Procs, NEW n, NEW ret, TakeOut(p, n, ret) PROVE OpenInv'
  BY <1>6, <1>3, CallerHasOpened DEF TakeOut, TypeOK
<1>7. ASSUME NEW p \in Procs,
             \/ pruss_api_read_start(p) \/ pruss_api_poll_start(p)
             \/ pruss_api_read_len(p) \/ pruss_api_read_return(p)
      PROVE  OpenInv'
  BY <1>7, <1>3, CallerHasOpened
     DEF pruss_api_read_start, pruss_api_poll_start, pruss_api_read_len,
         pruss_api_read_return, TypeOK
<1>8. ASSUME NEW p \in Procs,
             \/ pruss_api_read_again(p) \/ pruss_api_read_intr(p)
             \/ pruss_api_poll_ready(p) \/ pruss_api_poll_timeout(p)
      PROVE  OpenInv'
  BY <1>8, <1>5 DEF pruss_api_read_again, pruss_api_read_intr, pruss_api_poll_ready,
                    pruss_api_poll_timeout
<1>9. ASSUME NEW p \in Procs,
             pruss_api_read_ready(p) \/ pruss_api_read_sleep(p) \/ pruss_api_poll_sleep(p)
      PROVE  OpenInv'
  BY <1>9, <1>4 DEF pruss_api_read_ready, pruss_api_read_sleep, pruss_api_poll_sleep
<1>10. ASSUME NEW p \in Procs, pruss_api_read_copy(p) \/ pruss_api_read_fault(p)
       PROVE  OpenInv'
  BY <1>10, <1>6 DEF pruss_api_read_copy, pruss_api_read_fault
<1>11. ASSUME UNCHANGED <<locked, opened, call>> PROVE OpenInv'
  BY <1>11 DEF OpenInv, ExclusiveOpen
<1>12. ASSUME NEW len \in MsgLens, pruss_api_cb_start(len) PROVE OpenInv'
  BY <1>12, <1>11 DEF pruss_api_cb_start
<1>13. CASE pruss_api_cb_drop \/ pruss_api_cb_accept \/ pruss_api_cb_store
            \/ pruss_api_cb_len \/ pruss_api_cb_idx \/ UNCHANGED vars
  BY <1>13, <1>11 DEF pruss_api_cb_drop, pruss_api_cb_accept, pruss_api_cb_store,
                      pruss_api_cb_len, pruss_api_cb_idx, vars
<1>14. CASE pruss_api_cb_wake
  BY <1>14 DEF pruss_api_cb_wake, Woken, NoCall, OpenInv, ExclusiveOpen
<1>15. QED
  BY NextCases, <1>1, <1>2, <1>7, <1>8, <1>9, <1>10, <1>12, <1>13, <1>14

LEMMA OpenInvariant == Spec => []OpenInv
<1>1. Init => OpenInv
  BY DEF Init, OpenInv, ExclusiveOpen
<1>2. QED
  BY <1>1, OpenStep, TypeCorrect, PTL DEF Spec

\* At most one process has the device open (`locked'), whatever runs when.
THEOREM Exclusive == Spec => []ExclusiveOpen
<1>1. OpenInv => ExclusiveOpen
  BY DEF OpenInv
<1>2. QED
  BY <1>1, OpenInvariant, PTL

----------------------------------------------------------------------------
(* A poll() result stays true: only the process that got it can take       *)
(* anything out of the fifo, and a new call of its own clears it.          *)

PollInv ==
  \A p \in Procs : call[p].ret = "POLLIN" => call[p].pc = "idle" /\ ~kfifo_is_empty

LEMMA PollStep == TypeOK /\ OpenInv /\ PollInv /\ [Next]_vars => PollInv'
<1> SUFFICES ASSUME TypeOK, OpenInv, PollInv, [Next]_vars PROVE PollInv'
  OBVIOUS
<1> USE DEF PollInv, kfifo_is_empty
<1>1. ASSUME UNCHANGED msg_fifo, NEW p \in Procs, call'[p].ret # "POLLIN",
             \A q \in Procs \ {p} : call'[q] = call[q]
      PROVE  PollInv'
  BY <1>1
<1>2. ASSUME UNCHANGED <<msg_fifo, call>> PROVE PollInv'
  BY <1>2
<1>3. ASSUME NEW p \in Procs,
             pruss_api_release(p) \/ pruss_api_read_start(p) \/ pruss_api_poll_start(p)
      PROVE  PollInv'
  <2>1. UNCHANGED msg_fifo /\ \A q \in Procs \ {p} : call'[q] = call[q]
    BY <1>3 DEF pruss_api_release, pruss_api_read_start, pruss_api_poll_start, TypeOK
  <2>2. call'[p].ret = "none"
    BY <1>3 DEF pruss_api_release, pruss_api_read_start, pruss_api_poll_start, NoCall, TypeOK
  <2>3. QED
    BY <2>1, <2>2, <1>1
<1>4. ASSUME NEW p \in Procs, NEW from, NEW to, from # "idle", Step(p, from, to)
      PROVE  PollInv'
  BY <1>4, <1>1 DEF Step, TypeOK
<1>5. ASSUME NEW p \in Procs, NEW from, NEW ret, ret # "POLLIN", Finish(p, from, ret)
      PROVE  PollInv'
  BY <1>5, <1>1 DEF Finish, TypeOK
<1>6. ASSUME NEW p \in Procs, NEW n, NEW ret, ret # "POLLIN", TakeOut(p, n, ret)
      PROVE  PollInv'
  <2>1. call[p].pc # "idle" /\ call'[p].ret # "POLLIN"
        /\ \A q \in Procs \ {p} : call'[q] = call[q]
    BY <1>6 DEF TakeOut, TypeOK
  <2>2. \A q \in Procs \ {p} : call[q].ret # "POLLIN"
    BY <2>1, CallerHasOpened DEF NoCall
  <2>3. QED
    BY <2>1, <2>2
<1>7. ASSUME NEW p \in Procs, pruss_api_read_len(p) \/ pruss_api_read_return(p)
      PROVE  PollInv'
  <2>1. UNCHANGED msg_fifo /\ \A q \in Procs \ {p} : call'[q] = call[q]
    BY <1>7 DEF pruss_api_read_len, pruss_api_read_return, TypeOK
  <2>2. CASE pruss_api_read_len(p)
    <3>1. call[p].pc = "len" /\ call'[p].ret = call[p].ret
      BY <2>2 DEF pruss_api_read_len, TypeOK
    <3>2. QED
      BY <2>1, <3>1, <1>1
  <2>3. CASE pruss_api_read_return(p)
    <3>1. call[p].pc = "idx" /\ call'[p].ret = call[p].ret
      BY <2>3 DEF pruss_api_read_return, TypeOK
    <3>2. QED
      BY <2>1, <3>1, <1>1
  <2>4. QED
    BY <1>7, <2>2, <2>3
<1>8. ASSUME NEW p \in Procs,
             \/ pruss_api_read_again(p) \/ pruss_api_read_intr(p)
             \/ pruss_api_poll_timeout(p)
      PROVE  PollInv'
  BY <1>8, <1>5 DEF pruss_api_read_again, pruss_api_read_intr, pruss_api_poll_timeout
<1>9. ASSUME NEW p \in Procs, pruss_api_poll_ready(p) PROVE PollInv'
  BY <1>9 DEF pruss_api_poll_ready, Finish, TypeOK
<1>10. ASSUME NEW p \in Procs,
              pruss_api_read_ready(p) \/ pruss_api_read_sleep(p) \/ pruss_api_poll_sleep(p)
       PROVE  PollInv'
  BY <1>10, <1>4 DEF pruss_api_read_ready, pruss_api_read_sleep, pruss_api_poll_sleep
<1>11. ASSUME NEW p \in Procs, pruss_api_read_copy(p) \/ pruss_api_read_fault(p)
       PROVE  PollInv'
  BY <1>11, <1>6 DEF pruss_api_read_copy, pruss_api_read_fault
<1>12. ASSUME NEW p \in Procs, pruss_api_open(p) PROVE PollInv'
  BY <1>12, <1>2 DEF pruss_api_open
<1>13. ASSUME NEW len \in MsgLens, pruss_api_cb_start(len) PROVE PollInv'
  BY <1>13, <1>2 DEF pruss_api_cb_start
<1>14. CASE pruss_api_cb_drop \/ pruss_api_cb_accept \/ pruss_api_cb_len
            \/ pruss_api_cb_idx \/ UNCHANGED vars
  BY <1>14, <1>2 DEF pruss_api_cb_drop, pruss_api_cb_accept, pruss_api_cb_len,
                     pruss_api_cb_idx, vars
<1>15. CASE pruss_api_cb_store
  <2> DEFINE n == kfifo_in_count(cb.len)
  <2>1. n \in Nat
    BY SizeNat DEF TypeOK, kfifo_in_count, kfifo_avail, kfifo_len
  <2>2. msg_fifo' = [in |-> msg_fifo.in + n, out |-> msg_fifo.out] /\ call' = call
    BY <1>15 DEF pruss_api_cb_store, TypeOK
  <2> HIDE DEF n
  <2>3. msg_fifo.in # msg_fifo.out => msg_fifo'.in # msg_fifo'.out
    BY <2>1, <2>2 DEF TypeOK
  <2>4. QED
    BY <2>2, <2>3
<1>16. CASE pruss_api_cb_wake
  BY <1>16 DEF pruss_api_cb_wake, Woken, TypeOK
<1>17. QED
  BY NextCases, <1>3, <1>7, <1>8, <1>9, <1>10, <1>11, <1>12, <1>13, <1>14, <1>15, <1>16

\* After POLLIN a read() does not block, with preemption and faults: what the
\* daemon's select() told it cannot be undone by another process.
THEOREM PollTruth == Spec => []ReadableDoesNotBlock
<1>1. Init => PollInv
  BY DEF Init, PollInv, NoCall
<1>2. PollInv => ReadableDoesNotBlock
  BY DEF PollInv, ReadableDoesNotBlock
<1>3. QED
  BY <1>1, <1>2, PollStep, OpenInvariant, TypeCorrect, PTL DEF Spec

----------------------------------------------------------------------------
(* The framing of the messages. FrameInv of PrussApiDev is the inductive   *)
(* invariant.                                                              *)

NoRace == ~Preempt /\ ~CanFault

\* The counts are integers, and the slots are counted modulo their number.
LEMMA CountTypes ==
  ASSUME TypeOK
  PROVE  /\ Written \in Int /\ Read \in Int
         /\ MAX_FIFO_MSG \in Nat \ {0}
         /\ Len(accepted) \in Nat /\ Len(returned) \in Nat
  BY DevAssumption DEF TypeOK, Written, Read

\* NextSlot advances the count behind a slot by one.
LEMMA NextSlotCounts ==
  ASSUME NEW a \in Int
  PROVE  NextSlot(a % MAX_FIFO_MSG) = (a + 1) % MAX_FIFO_MSG
<1>1. MAX_FIFO_MSG \in Nat \ {0} /\ 1 \in Int
  BY DevAssumption
<1>2. ((a % MAX_FIFO_MSG) + 1) % MAX_FIFO_MSG = (a + 1) % MAX_FIFO_MSG
  BY <1>1, ModAdd
<1>3. QED
  BY <1>2 DEF NextSlot

\* The elements of the histories are stretches.
LEMMA AcceptedTypes ==
  ASSUME TypeOK, NEW k \in 1 .. Len(accepted)
  PROVE  accepted[k] \in Stretches /\ accepted[k].at \in Nat /\ accepted[k].len \in Nat
<1>1. accepted[k] \in Stretches
  BY DEF TypeOK
<1>2. QED
  BY <1>1 DEF Stretches

\* A step that moves no data and enters no data-moving stage.
LEMMA FrameStutter ==
  ASSUME TypeOK, FrameInv,
         UNCHANGED <<msg_fifo, msg_len, msg_idx_rd, msg_idx_wr, accepted, returned>>,
         cb' = cb \/ (cb.pc \notin {"len", "idx"} /\ cb'.pc \notin {"len", "idx", "store"}),
         \A p \in Procs : (call'[p].pc = "idx") <=> (call[p].pc = "idx"),
         \A p \in Procs : call'[p].pc \in {"len", "copy"} =>
           call'[p].pc = call[p].pc /\ call'[p].len = call[p].len
  PROVE  FrameInv'
<1>1. InIdx' <=> InIdx
  BY DEF InIdx
<1>2. Written' = Written /\ Read' = Read
  BY <1>1 DEF Written, Read
<1>3. IndexInv'
  BY <1>2 DEF FrameInv, IndexInv
<1>4. TableInv'
  BY <1>2 DEF FrameInv, TableInv
<1>5. StreamInv'
  BY DEF FrameInv, StreamInv
<1>6. CallInv'
  BY <1>2 DEF FrameInv, CallInv
<1>7. QED
  BY <1>3, <1>4, <1>5, <1>6 DEF FrameInv

\* While one process is inside read(), no other is past its copy.
LEMMA OneReader ==
  ASSUME TypeOK, OpenInv, NEW p \in Procs, call[p].pc # "idle"
  PROVE  \A q \in Procs \ {p} : call[q].pc = "idle"
  BY CallerHasOpened DEF NoCall

\* Without preemption a non-empty fifo means a message that is in the table.
LEMMA ReadyStep ==
  ASSUME TypeOK, OpenInv, FrameInv, NoRace, NEW p \in Procs, pruss_api_read_ready(p)
  PROVE  FrameInv'
<1>1. /\ call[p].pc = "wait"
      /\ call'[p].pc = "len"
      /\ \A q \in Procs \ {p} : call'[q] = call[q]
      /\ UNCHANGED <<msg_fifo, msg_len, msg_idx_rd, msg_idx_wr, cb, accepted, returned>>
  BY DEF pruss_api_read_ready, Step, TypeOK
<1>2. Written = Len(accepted)
  BY DEF pruss_api_read_ready, Step, ReaderRuns, NoRace, Written, TypeOK
<1>3. Len(returned) < Written
  <2>1. Len(returned) >= Len(accepted) => msg_fifo.out = msg_fifo.in
    BY CountTypes DEF FrameInv, StreamInv
  <2>2. QED
    BY <1>2, <2>1, CountTypes DEF pruss_api_read_ready, kfifo_is_empty
<1>4. InIdx' <=> InIdx
  BY <1>1 DEF InIdx
<1>5. Written' = Written /\ Read' = Read
  BY <1>1, <1>4 DEF Written, Read
<1>6. CallInv'
  BY <1>1, <1>3, <1>5 DEF FrameInv, CallInv
<1>7. IndexInv' /\ TableInv' /\ StreamInv'
  BY <1>1, <1>5 DEF FrameInv, IndexInv, TableInv, StreamInv
<1>8. QED
  BY <1>6, <1>7 DEF FrameInv

\* The length read() loads is that of the message at the head of the queue.
LEMMA LenStep ==
  ASSUME TypeOK, OpenInv, FrameInv, NoRace, NEW p \in Procs, pruss_api_read_len(p)
  PROVE  FrameInv'
<1>1. /\ call[p].pc = "len"
      /\ call'[p].pc = "copy"
      /\ call'[p].len = msg_len[msg_idx_rd]
      /\ \A q \in Procs \ {p} : call'[q] = call[q]
      /\ UNCHANGED <<msg_fifo, msg_len, msg_idx_rd, msg_idx_wr, cb, accepted, returned>>
  BY DEF pruss_api_read_len, TypeOK
<1>2. ~InIdx /\ ~InIdx'
  BY <1>1, OneReader DEF InIdx
<1>3. Written' = Written /\ Read' = Read /\ Read = Len(returned)
  BY <1>1, <1>2, CountTypes DEF Written, Read
<1>4. msg_len[msg_idx_rd] = accepted[Len(returned) + 1].len /\ Len(returned) < Written
  <2>1. Len(returned) < Written
    BY <1>1 DEF FrameInv, CallInv
  <2>2. Read \in Read .. Written - 1
    BY <2>1, <1>3, CountTypes
  <2>3. msg_len[Read % MAX_FIFO_MSG] = accepted[Read + 1].len
    BY <2>2 DEF FrameInv, TableInv
  <2>4. QED
    BY <2>1, <2>3, <1>3 DEF FrameInv, IndexInv
<1>5. CallInv'
  BY <1>1, <1>3, <1>4 DEF FrameInv, CallInv
<1>6. IndexInv' /\ TableInv' /\ StreamInv'
  BY <1>1, <1>3 DEF FrameInv, IndexInv, TableInv, StreamInv
<1>7. QED
  BY <1>5, <1>6 DEF FrameInv

\* The fifo holds the whole of the next message, so all of it is copied.
LEMMA HeadIsWhole ==
  ASSUME TypeOK, FrameInv, Len(returned) < Len(accepted)
  PROVE  LET m == accepted[Len(returned) + 1] IN
         /\ msg_fifo.out = m.at
         /\ m.len <= kfifo_len
<1> DEFINE k == Len(returned) + 1
           z == Len(accepted)
<1>1. k \in 1 .. z /\ z \in 1 .. z
  BY CountTypes
<1>2. msg_fifo.out = accepted[k].at
  BY DEF FrameInv, StreamInv
<1>3. msg_fifo.in = accepted[z].at + accepted[z].len
  BY <1>1 DEF FrameInv, StreamInv
<1>4. k < z => accepted[k].at + accepted[k].len <= accepted[z].at
  BY <1>1 DEF FrameInv, StreamInv
<1>5. accepted[k].at + accepted[k].len <= msg_fifo.in
  <2>1. CASE k = z
    BY <2>1, <1>3, <1>1, AcceptedTypes
  <2>2. CASE k < z
    BY <2>2, <1>3, <1>4, <1>1, AcceptedTypes
  <2>3. QED
    BY <2>1, <2>2, <1>1
<1>6. accepted[k].at \in Nat /\ accepted[k].len \in Nat /\ msg_fifo.in \in Nat
  BY <1>1, AcceptedTypes DEF TypeOK
<1>7. accepted[k].len <= msg_fifo.in - msg_fifo.out
  BY <1>2, <1>5, <1>6
<1>8. QED
  BY <1>2, <1>7 DEF kfifo_len

\* read() takes exactly the head message out of the fifo.
LEMMA CopyTakesHead ==
  ASSUME TypeOK, OpenInv, FrameInv, NEW p \in Procs, pruss_api_read_copy(p)
  PROVE  LET m == accepted[Len(returned) + 1] IN
         /\ Len(returned) < Written
         /\ Written <= Len(accepted)
         /\ returned' = Append(returned, m)
         /\ msg_fifo' = [in |-> msg_fifo.in, out |-> m.at + m.len]
         /\ call[p].pc = "copy" /\ call'[p].pc = "idx"
         /\ \A q \in Procs \ {p} : call'[q] = call[q]
         /\ UNCHANGED <<msg_len, msg_idx_rd, msg_idx_wr, cb, accepted>>
<1> DEFINE m == accepted[Len(returned) + 1]
<1>1. call[p].pc = "copy" /\ TakeOut(p, kfifo_out_count(call[p].len), "data")
  BY DEF pruss_api_read_copy, TakeOut
<1>2. Len(returned) < Written /\ call[p].len = m.len
  BY <1>1 DEF FrameInv, CallInv
<1>3. Written <= Len(accepted) /\ Len(returned) < Len(accepted)
  BY <1>2, CountTypes DEF Written
<1>4. msg_fifo.out = m.at /\ m.len <= kfifo_len
  BY <1>3, HeadIsWhole
<1>5. kfifo_out_count(call[p].len) = m.len
  BY <1>2, <1>4 DEF kfifo_out_count
<1>6. TakeOut(p, m.len, "data")
  BY <1>1, <1>5
<1>7. m = [at |-> m.at, len |-> m.len]
  BY <1>3, CountTypes, AcceptedTypes DEF Stretches
<1>8. returned' = Append(returned, m)
  BY <1>4, <1>6, <1>7 DEF TakeOut
<1>9. msg_fifo' = [in |-> msg_fifo.in, out |-> m.at + m.len]
  BY <1>4, <1>6 DEF TakeOut, TypeOK
<1>10. call'[p].pc = "idx" /\ \A q \in Procs \ {p} : call'[q] = call[q]
  BY <1>6 DEF TakeOut, TypeOK
<1>11. QED
  BY <1>1, <1>2, <1>3, <1>6, <1>8, <1>9, <1>10 DEF TakeOut

LEMMA CopyStep ==
  ASSUME TypeOK, OpenInv, FrameInv, NEW p \in Procs, pruss_api_read_copy(p)
  PROVE  FrameInv'
<1> DEFINE r == Len(returned)
           z == Len(accepted)
           m == accepted[r + 1]
<1>1. /\ r < Written /\ Written <= z
      /\ returned' = Append(returned, m)
      /\ msg_fifo' = [in |-> msg_fifo.in, out |-> m.at + m.len]
      /\ call[p].pc = "copy" /\ call'[p].pc = "idx"
      /\ \A q \in Procs \ {p} : call'[q] = call[q]
      /\ UNCHANGED <<msg_len, msg_idx_rd, msg_idx_wr, cb, accepted>>
  BY CopyTakesHead
<1>2. ~InIdx /\ InIdx'
  BY <1>1, OneReader DEF InIdx
<1>3. Len(returned') = r + 1
  BY <1>1 DEF TypeOK
<1>4. Written' = Written /\ Read' = Read
  BY <1>1, <1>2, <1>3, CountTypes DEF Written, Read
<1>5. IndexInv'
  BY <1>1, <1>3, <1>4, CountTypes DEF FrameInv, IndexInv
<1>6. TableInv'
  BY <1>1, <1>4 DEF FrameInv, TableInv
<1>7. StreamInv'
  <2>1. r + 1 < z => accepted[r + 2].at = m.at + m.len
    BY CountTypes, <1>1 DEF FrameInv, StreamInv
  <2>2. r + 1 = z => msg_fifo.in = m.at + m.len
    BY CountTypes DEF FrameInv, StreamInv
  <2>3. msg_fifo'.out = IF r + 1 < z THEN accepted[r + 2].at ELSE msg_fifo.in
    BY <1>1, <2>1, <2>2, CountTypes
  <2>4. QED
    BY <1>1, <1>3, <2>3, CountTypes DEF FrameInv, StreamInv
<1>8. CallInv'
  <2>1. \A q \in Procs : call'[q].pc \notin {"len", "copy"}
    BY <1>1, OneReader
  <2>2. QED
    BY <2>1 DEF CallInv
<1>9. QED
  BY <1>5, <1>6, <1>7, <1>8 DEF FrameInv

\* The read index catches up with the message taken out.
LEMMA ReturnStep ==
  ASSUME TypeOK, OpenInv, FrameInv, NEW p \in Procs, pruss_api_read_return(p)
  PROVE  FrameInv'
<1>1. /\ call[p].pc = "idx" /\ call'[p].pc = "idle"
      /\ \A q \in Procs \ {p} : call'[q] = call[q]
      /\ msg_idx_rd' = NextSlot(msg_idx_rd)
      /\ UNCHANGED <<msg_fifo, msg_len, msg_idx_wr, cb, accepted, returned>>
  BY DEF pruss_api_read_return, TypeOK
<1>2. InIdx /\ ~InIdx'
  BY <1>1, OneReader DEF InIdx
<1>3. Written' = Written /\ Read' = Read + 1 /\ Read' = Len(returned)
  BY <1>1, <1>2, CountTypes DEF Written, Read
<1>4. IndexInv'
  <2>1. msg_idx_rd' = (Read + 1) % MAX_FIFO_MSG
    BY <1>1, CountTypes, NextSlotCounts DEF FrameInv, IndexInv
  <2>2. QED
    BY <1>1, <1>3, <2>1, CountTypes DEF FrameInv, IndexInv
<1>5. TableInv'
  BY <1>1, <1>3, CountTypes DEF FrameInv, TableInv
<1>6. StreamInv'
  BY <1>1 DEF FrameInv, StreamInv
<1>7. CallInv'
  BY <1>1, <1>3 DEF FrameInv, CallInv
<1>8. QED
  BY <1>4, <1>5, <1>6, <1>7 DEF FrameInv

\* The test for a full table leaves a slot free between the two indices.
LEMMA AcceptStep ==
  ASSUME TypeOK, FrameInv, pruss_api_cb_accept
  PROVE  FrameInv'
<1>1. /\ cb.pc = "check" /\ cb'.pc = "store" /\ ~TableFull
      /\ UNCHANGED <<msg_fifo, msg_len, msg_idx_rd, msg_idx_wr, call, accepted, returned>>
  BY DEF pruss_api_cb_accept, CbStep, TypeOK
<1>2. InIdx' <=> InIdx
  BY <1>1 DEF InIdx
<1>3. Written' = Written /\ Read' = Read /\ Written = Len(accepted)
  BY <1>1, <1>2, CountTypes DEF Written, Read
<1>4. Written - Read < MAX_FIFO_MSG - 1
  <2>1. SUFFICES ASSUME Written - Read >= MAX_FIFO_MSG - 1 PROVE FALSE
    BY CountTypes
  <2>2. Written + 1 = Read + MAX_FIFO_MSG
    BY <2>1, <1>3, CountTypes DEF FrameInv, IndexInv
  <2>3. NextSlot(msg_idx_wr) = (Written + 1) % MAX_FIFO_MSG
    BY CountTypes, NextSlotCounts DEF FrameInv, IndexInv
  <2>4. (Read + MAX_FIFO_MSG) % MAX_FIFO_MSG = msg_idx_rd
    BY CountTypes, ModWrap DEF FrameInv, IndexInv
  <2>5. QED
    BY <2>2, <2>3, <2>4, <1>1 DEF TableFull
<1>5. IndexInv'
  BY <1>1, <1>3, <1>4 DEF FrameInv, IndexInv
<1>6. TableInv' /\ StreamInv' /\ CallInv'
  BY <1>1, <1>3 DEF FrameInv, TableInv, StreamInv, CallInv
<1>7. QED
  BY <1>5, <1>6 DEF FrameInv

\* A stored message extends the stream and is not yet counted as written.
LEMMA StoreStep ==
  ASSUME TypeOK, FrameInv, pruss_api_cb_store
  PROVE  FrameInv'
<1> DEFINE n == kfifo_in_count(cb.len)
           z == Len(accepted)
           r == Len(returned)
           new == [at |-> msg_fifo.in, len |-> n]
<1>1. n \in Nat
  BY SizeNat DEF TypeOK, kfifo_in_count, kfifo_avail, kfifo_len
<1>2. /\ cb.pc = "store" /\ cb'.pc = "len" /\ cb'.len = n
      /\ msg_fifo' = [in |-> msg_fifo.in + n, out |-> msg_fifo.out]
      /\ accepted' = Append(accepted, new)
      /\ UNCHANGED <<msg_len, msg_idx_rd, msg_idx_wr, call, returned>>
  BY DEF pruss_api_cb_store, TypeOK
<1> HIDE DEF n
<1>3. /\ Len(accepted') = z + 1 /\ z \in Nat /\ r \in Nat
      /\ accepted'[z + 1] = new
      /\ \A k \in 1 .. z : accepted'[k] = accepted[k]
  BY <1>2 DEF TypeOK
<1>4. InIdx' <=> InIdx
  BY <1>2 DEF InIdx
<1>5. Written' = Written /\ Read' = Read /\ Written = z
  BY <1>2, <1>3, <1>4 DEF Written, Read
<1>6. IndexInv'
  BY <1>2, <1>3, <1>5, CountTypes DEF FrameInv, IndexInv
<1>7. TableInv'
  <2>1. \A k \in Read .. Written - 1 : k + 1 \in 1 .. z
    BY <1>5, CountTypes DEF FrameInv, IndexInv
  <2>2. \A k \in Read .. Written - 1 : msg_len[k % MAX_FIFO_MSG] = accepted'[k + 1].len
    BY <1>3, <2>1 DEF FrameInv, TableInv
  <2>3. cb'.len = accepted'[Len(accepted')].len
    BY <1>2, <1>3
  <2>4. QED
    BY <1>2, <1>5, <2>2, <2>3 DEF TableInv
<1>8. StreamInv'
  <2>1. \A k \in 1 .. z : accepted[k].at + accepted[k].len <= msg_fifo.in
    <3> TAKE k \in 1 .. z
    <3>1. z \in 1 .. z
      BY <1>3
    <3>2. msg_fifo.in = accepted[z].at + accepted[z].len
      BY <1>3, <3>1 DEF FrameInv, StreamInv
    <3>3. k < z => accepted[k].at + accepted[k].len <= accepted[z].at
      BY <3>1 DEF FrameInv, StreamInv
    <3>4. accepted[k].at \in Nat /\ accepted[k].len \in Nat
          /\ accepted[z].at \in Nat /\ accepted[z].len \in Nat
      BY <3>1, AcceptedTypes
    <3>5. CASE k = z
      BY <3>5, <3>2, <3>4
    <3>6. CASE k < z
      BY <3>6, <3>2, <3>3, <3>4
    <3>7. QED
      BY <3>5, <3>6
  <2>2. \A j, k \in 1 .. z + 1 :
          j < k => accepted'[j].at + accepted'[j].len <= accepted'[k].at
    <3> SUFFICES ASSUME NEW j \in 1 .. z + 1, NEW k \in 1 .. z + 1, j < k
                 PROVE  accepted'[j].at + accepted'[j].len <= accepted'[k].at
      OBVIOUS
    <3>1. j \in 1 .. z /\ accepted'[j] = accepted[j]
      BY <1>3
    <3>2. CASE k = z + 1
      BY <3>1, <3>2, <1>3, <2>1
    <3>3. CASE k \in 1 .. z
      BY <3>1, <3>3, <1>3 DEF FrameInv, StreamInv
    <3>4. QED
      BY <3>2, <3>3
  <2>3. \A k \in 1 .. z : accepted'[k + 1].at = accepted'[k].at + accepted'[k].len
    <3> TAKE k \in 1 .. z
    <3>1. CASE k = z
      BY <3>1, <1>3 DEF FrameInv, StreamInv
    <3>2. CASE k \in 1 .. z - 1
      BY <3>2, <1>3 DEF FrameInv, StreamInv
    <3>3. QED
      BY <3>1, <3>2, <1>3
  <2>4. msg_fifo'.in = accepted'[z + 1].at + accepted'[z + 1].len
    BY <1>2, <1>3
  <2>5. msg_fifo'.out = IF r < z + 1 THEN accepted'[r + 1].at ELSE msg_fifo'.in
    <3>1. r <= z
      BY <1>5, <1>3 DEF FrameInv, IndexInv
    <3>2. CASE r = z
      BY <3>2, <1>2, <1>3 DEF FrameInv, StreamInv
    <3>3. CASE r < z
      BY <3>3, <1>2, <1>3 DEF FrameInv, StreamInv
    <3>4. QED
      BY <3>1, <3>2, <3>3, <1>3
  <2>6. QED
    BY <1>2, <1>3, <2>2, <2>3, <2>4, <2>5 DEF StreamInv
<1>9. CallInv'
  <2>1. r < Written => accepted'[r + 1] = accepted[r + 1]
    BY <1>3, <1>5
  <2>2. QED
    BY <1>2, <1>5, <2>1 DEF FrameInv, CallInv
<1>10. QED
  BY <1>6, <1>7, <1>8, <1>9 DEF FrameInv

\* Storing a length touches no slot that a reader may look at.
LEMMA TableStep ==
  ASSUME TypeOK, FrameInv, pruss_api_cb_len
  PROVE  FrameInv'
<1>1. /\ cb.pc = "len" /\ cb'.pc = "idx" /\ cb'.len = cb.len
      /\ msg_len' = [msg_len EXCEPT ![msg_idx_wr] = cb.len]
      /\ UNCHANGED <<msg_fifo, msg_idx_rd, msg_idx_wr, call, accepted, returned>>
  BY DEF pruss_api_cb_len, CbStep, TypeOK
<1>2. InIdx' <=> InIdx
  BY <1>1 DEF InIdx
<1>3. Written' = Written /\ Read' = Read
  BY <1>1, <1>2 DEF Written, Read
<1>4. TableInv'
  <2>1. \A k \in Read .. Written - 1 : msg_len'[k % MAX_FIFO_MSG] = msg_len[k % MAX_FIFO_MSG]
    <3> TAKE k \in Read .. Written - 1
    <3>1. k \in Int /\ k < Written /\ Written - k < MAX_FIFO_MSG
      BY CountTypes, <1>1, SMTT(30) DEF FrameInv, IndexInv, Written
    <3>2. k % MAX_FIFO_MSG # Written % MAX_FIFO_MSG
      BY <3>1, CountTypes, ModDistinct
    <3>3. QED
      BY <3>2, <1>1 DEF FrameInv, IndexInv, TypeOK
  <2>2. msg_len'[msg_idx_wr] = cb.len
    BY <1>1 DEF TypeOK
  <2>3. QED
    BY <1>1, <1>3, <2>1, <2>2 DEF FrameInv, TableInv
<1>5. IndexInv' /\ StreamInv' /\ CallInv'
  BY <1>1, <1>3 DEF FrameInv, IndexInv, StreamInv, CallInv
<1>6. QED
  BY <1>4, <1>5 DEF FrameInv

\* The write index takes the stored message in.
LEMMA IdxStep ==
  ASSUME TypeOK, FrameInv, pruss_api_cb_idx
  PROVE  FrameInv'
<1>1. /\ cb.pc = "idx" /\ cb'.pc = "wake"
      /\ msg_idx_wr' = NextSlot(msg_idx_wr)
      /\ UNCHANGED <<msg_fifo, msg_len, msg_idx_rd, call, accepted, returned>>
  BY DEF pruss_api_cb_idx, CbStep, TypeOK
<1>2. InIdx' <=> InIdx
  BY <1>1 DEF InIdx
<1>3. Written' = Written + 1 /\ Read' = Read /\ Written' = Len(accepted)
  BY <1>1, <1>2, CountTypes DEF Written, Read
<1>4. IndexInv'
  <2>1. msg_idx_wr' = (Written + 1) % MAX_FIFO_MSG
    BY <1>1, CountTypes, NextSlotCounts DEF FrameInv, IndexInv
  <2>2. QED
    BY <1>1, <1>3, <2>1, CountTypes DEF FrameInv, IndexInv
<1>5. TableInv'
  <2>1. msg_len[Written % MAX_FIFO_MSG] = accepted[Written + 1].len
    BY <1>1, <1>3 DEF FrameInv, IndexInv, TableInv
  <2>2. \A k \in Read .. Written : k = Written \/ k \in Read .. Written - 1
    BY CountTypes
  <2>3. \A k \in Read .. Written : msg_len[k % MAX_FIFO_MSG] = accepted[k + 1].len
    BY <2>1, <2>2 DEF FrameInv, TableInv
  <2>4. Written' - 1 = Written
    BY <1>3, CountTypes
  <2>5. QED
    BY <1>1, <1>3, <2>3, <2>4 DEF TableInv
<1>6. StreamInv' /\ CallInv'
  BY <1>1, <1>3, CountTypes DEF FrameInv, StreamInv, CallInv
<1>7. QED
  BY <1>4, <1>5, <1>6 DEF FrameInv

----------------------------------------------------------------------------
LEMMA FrameStep ==
  ASSUME NoRace
  PROVE  TypeOK /\ OpenInv /\ FrameInv /\ [Next]_vars => FrameInv'
<1> SUFFICES ASSUME TypeOK, OpenInv, FrameInv, [Next]_vars PROVE FrameInv'
  OBVIOUS
<1>1. ASSUME NEW p \in Procs, pruss_api_open(p) PROVE FrameInv'
  BY <1>1, FrameStutter DEF pruss_api_open
<1>2. ASSUME NEW p \in Procs, pruss_api_release(p) PROVE FrameInv'
  BY <1>2, FrameStutter DEF pruss_api_release, NoCall, TypeOK
<1>3. ASSUME NEW p \in Procs, pruss_api_read_start(p) \/ pruss_api_poll_start(p)
      PROVE  FrameInv'
  <2>1. /\ UNCHANGED <<msg_fifo, msg_len, msg_idx_rd, msg_idx_wr, accepted, returned, cb>>
        /\ call[p].pc = "idle"
        /\ \A q \in Procs \ {p} : call'[q] = call[q]
    BY <1>3 DEF pruss_api_read_start, pruss_api_poll_start, TypeOK
  <2>2. call'[p].pc \in {"wait", "poll"}
    BY <1>3 DEF pruss_api_read_start, pruss_api_poll_start, NoCall, TypeOK
  <2>3. QED
    BY <2>1, <2>2, FrameStutter
<1>4. ASSUME NEW p \in Procs, NEW from, NEW to \in {"asleep", "pollasleep"}, from # "idx",
             Step(p, from, to)
      PROVE  FrameInv'
  BY <1>4, FrameStutter DEF Step, TypeOK
<1>5. ASSUME NEW p \in Procs, NEW from, NEW ret, from # "idx", Finish(p, from, ret)
      PROVE  FrameInv'
  BY <1>5, FrameStutter DEF Finish, TypeOK
<1>6. ASSUME NEW p \in Procs,
             \/ pruss_api_read_again(p) \/ pruss_api_read_intr(p)
             \/ pruss_api_poll_ready(p) \/ pruss_api_poll_timeout(p)
      PROVE  FrameInv'
  BY <1>6, <1>5 DEF pruss_api_read_again, pruss_api_read_intr, pruss_api_poll_ready,
                    pruss_api_poll_timeout
<1>7. ASSUME NEW p \in Procs, pruss_api_read_sleep(p) \/ pruss_api_poll_sleep(p)
      PROVE  FrameInv'
  BY <1>7, <1>4 DEF pruss_api_read_sleep, pruss_api_poll_sleep
<1>8. ASSUME NEW p \in Procs, pruss_api_read_fault(p) PROVE FrameInv'
  BY <1>8 DEF pruss_api_read_fault, NoRace
<1>9. ASSUME NEW len \in MsgLens, pruss_api_cb_start(len) PROVE FrameInv'
  BY <1>9, FrameStutter DEF pruss_api_cb_start
<1>10. CASE pruss_api_cb_drop
  BY <1>10, FrameStutter DEF pruss_api_cb_drop, CbStep, TypeOK
<1>11. CASE pruss_api_cb_wake
  <2>1. \A p \in Procs : call'[p] = Woken(call[p])
    BY <1>11 DEF pruss_api_cb_wake
  <2>2. \A p \in Procs : (call'[p].pc = "idx") <=> (call[p].pc = "idx")
    BY <2>1, ZenonT(30) DEF Woken, TypeOK
  <2>3. \A p \in Procs : call'[p].pc \in {"len", "copy"} =>
          call'[p].pc = call[p].pc /\ call'[p].len = call[p].len
    BY <2>1, ZenonT(30) DEF Woken, TypeOK
  <2>4. QED
    BY <1>11, <2>2, <2>3, FrameStutter DEF pruss_api_cb_wake, CbStep, TypeOK
<1>12. CASE UNCHANGED vars
  BY <1>12, FrameStutter DEF vars
<1>13. QED
  BY NextCases, <1>1, <1>2, <1>3, <1>6, <1>7, <1>8, <1>9, <1>10, <1>11, <1>12, ReadyStep,
     LenStep, CopyStep, ReturnStep, AcceptStep, StoreStep, TableStep, IdxStep

LEMMA FrameInit == Init => FrameInv
<1> SUFFICES ASSUME Init PROVE FrameInv
  OBVIOUS
<1>1. ~InIdx
  BY DEF Init, InIdx, NoCall
<1>2. Written = 0 /\ Read = 0
  BY <1>1 DEF Init, Written, Read
<1>3. 0 % MAX_FIFO_MSG = 0
  <2>1. MAX_FIFO_MSG \in Nat \ {0} /\ 0 \in Int /\ 0 \in 0 .. MAX_FIFO_MSG - 1
    BY DevAssumption
  <2>2. (MAX_FIFO_MSG * 0 + 0) % MAX_FIFO_MSG = 0
    BY <2>1, ModUnique
  <2>3. QED
    BY <2>1, <2>2
<1>4. IndexInv
  BY <1>2, <1>3, DevAssumption DEF Init, IndexInv
<1>5. TableInv /\ StreamInv /\ CallInv
  BY <1>2 DEF Init, TableInv, StreamInv, CallInv, NoCall
<1>6. QED
  BY <1>4, <1>5 DEF FrameInv

\* The indices, the length table, the kfifo and the calls in progress agree at
\* every step, for a callback that no reader interrupts and copies that succeed.
THEOREM Framing == NoRace => (Spec => []FrameInv)
<1> SUFFICES ASSUME NoRace PROVE Spec => []FrameInv
  OBVIOUS
<1>1. QED
  BY FrameInit, FrameStep, TypeCorrect, OpenInvariant, PTL DEF Spec

----------------------------------------------------------------------------
LEMMA FrameLengths == TypeOK /\ FrameInv => LengthTableMatchesFifo
<1> SUFFICES ASSUME TypeOK, FrameInv, Quiet PROVE LengthTableMatchesFifo
  BY DEF LengthTableMatchesFifo
<1> DEFINE z == Len(accepted)
           r == Len(returned)
<1>1. Written = z /\ Read = r
  BY CountTypes DEF Quiet, Written, Read, InIdx
<1>2. /\ z \in Nat /\ r \in Nat /\ r <= z /\ z - r < MAX_FIFO_MSG
      /\ MAX_FIFO_MSG \in Nat \ {0}
  BY <1>1, CountTypes DEF FrameInv, IndexInv
<1>3. ASSUME NEW k \in Nat
      PROVE  (msg_idx_rd + k) % MAX_FIFO_MSG = (r + k) % MAX_FIFO_MSG
  <2>1. msg_idx_rd = r % MAX_FIFO_MSG
    BY <1>1 DEF FrameInv, IndexInv
  <2>2. MAX_FIFO_MSG \in Nat \ {0} /\ r \in Int /\ k \in Int
    BY <1>2
  <2>3. ((r % MAX_FIFO_MSG) + k) % MAX_FIFO_MSG = (r + k) % MAX_FIFO_MSG
    BY <2>2, ModAdd
  <2>4. QED
    BY <2>1, <2>3
<1>4. (msg_idx_rd + (z - r)) % MAX_FIFO_MSG = msg_idx_wr
  <2>1. z - r \in Nat /\ r + (z - r) = z
    BY <1>2
  <2>2. QED
    BY <2>1, <1>1, <1>3 DEF FrameInv, IndexInv
<1>5. msg_fifo.out = IF z - r = 0 THEN msg_fifo.in ELSE accepted[r + 1].at
  BY <1>2 DEF FrameInv, StreamInv
<1>6. ASSUME NEW k \in 0 .. (z - r) - 1
      PROVE  msg_len[(msg_idx_rd + k) % MAX_FIFO_MSG] = accepted[r + 1 + k].len
  <2>1. k \in Nat /\ r + k \in Read .. Written - 1 /\ (r + k) + 1 = r + 1 + k
    BY <1>1, <1>2
  <2>2. msg_len[(r + k) % MAX_FIFO_MSG] = accepted[(r + k) + 1].len
    BY <2>1 DEF FrameInv, TableInv
  <2>3. QED
    BY <2>1, <2>2, <1>3
<1>7. QED
  BY <1>2, <1>4, <1>5, <1>6 DEF LengthTableMatchesFifo

\* `msg_len: array storing the lengths of each message in the kernel fifo'.
THEOREM TableCorrect == NoRace => (Spec => []LengthTableMatchesFifo)
<1> SUFFICES ASSUME NoRace PROVE Spec => []LengthTableMatchesFifo
  OBVIOUS
<1>1. QED
  BY Framing, TypeCorrect, FrameLengths, PTL

LEMMA FrameUnseen == TypeOK /\ FrameInv => UnseenAreEmpty
<1> SUFFICES ASSUME TypeOK, FrameInv, Quiet, kfifo_is_empty,
                    NEW k \in Len(returned) + 1 .. Len(accepted)
             PROVE  accepted[k].len = 0
  BY DEF UnseenAreEmpty
<1> DEFINE z == Len(accepted)
           h == Len(returned) + 1
<1>1. h \in 1 .. z /\ k \in 1 .. z /\ z \in 1 .. z /\ h <= k /\ k <= z
  BY CountTypes
<1>2. /\ accepted[h].at \in Nat /\ accepted[h].len \in Nat
      /\ accepted[k].at \in Nat /\ accepted[k].len \in Nat
      /\ accepted[z].at \in Nat /\ accepted[z].len \in Nat
  BY <1>1, AcceptedTypes
<1>3. accepted[h].at = msg_fifo.in
  BY <1>1, CountTypes DEF FrameInv, StreamInv, kfifo_is_empty
<1>4. h < k => accepted[h].at + accepted[h].len <= accepted[k].at
  BY <1>1 DEF FrameInv, StreamInv
<1>5. k < z => accepted[k].at + accepted[k].len <= accepted[z].at
  BY <1>1 DEF FrameInv, StreamInv
<1>6. msg_fifo.in = accepted[z].at + accepted[z].len
  BY <1>1 DEF FrameInv, StreamInv
<1>7. accepted[h].at <= accepted[k].at
  BY <1>1, <1>2, <1>4
<1>8. accepted[k].at + accepted[k].len <= accepted[z].at + accepted[z].len
  BY <1>1, <1>2, <1>5
<1>9. QED
  BY <1>2, <1>3, <1>6, <1>7, <1>8

\* Queued messages are invisible to read() and poll() only if they are empty.
THEOREM UnseenEmpty == NoRace => (Spec => []UnseenAreEmpty)
<1> SUFFICES ASSUME NoRace PROVE Spec => []UnseenAreEmpty
  OBVIOUS
<1>1. QED
  BY Framing, TypeCorrect, FrameUnseen, PTL

----------------------------------------------------------------------------
LEMMA FifoStep ==
  ASSUME NoRace
  PROVE  TypeOK /\ OpenInv /\ FrameInv /\ [Next]_vars => [Fifo!Next]_Fifo!vars
<1> SUFFICES ASSUME TypeOK, OpenInv, FrameInv, [Next]_vars PROVE [Fifo!Next]_Fifo!vars
  OBVIOUS
<1>1. ASSUME UNCHANGED <<accepted, returned>> PROVE [Fifo!Next]_Fifo!vars
  BY <1>1 DEF Fifo!vars
<1>2. ASSUME NEW p \in Procs,
             \/ pruss_api_open(p) \/ pruss_api_release(p)
             \/ pruss_api_read_start(p) \/ pruss_api_poll_start(p)
             \/ pruss_api_read_len(p) \/ pruss_api_read_return(p)
      PROVE  UNCHANGED <<accepted, returned>>
  BY <1>2 DEF pruss_api_open, pruss_api_release, pruss_api_read_start, pruss_api_poll_start,
              pruss_api_read_len, pruss_api_read_return
<1>3. ASSUME NEW p \in Procs,
             \/ pruss_api_read_again(p) \/ pruss_api_read_intr(p)
             \/ pruss_api_poll_ready(p) \/ pruss_api_poll_timeout(p)
      PROVE  UNCHANGED <<accepted, returned>>
  BY <1>3 DEF pruss_api_read_again, pruss_api_read_intr, pruss_api_poll_ready,
              pruss_api_poll_timeout, Finish
<1>4. ASSUME NEW p \in Procs,
             pruss_api_read_ready(p) \/ pruss_api_read_sleep(p) \/ pruss_api_poll_sleep(p)
      PROVE  UNCHANGED <<accepted, returned>>
  BY <1>4 DEF pruss_api_read_ready, pruss_api_read_sleep, pruss_api_poll_sleep, Step
<1>5. ASSUME NEW p \in Procs, pruss_api_read_copy(p) PROVE Fifo!Next
  <2>1. /\ returned' = Append(returned, accepted[Len(returned) + 1])
        /\ Len(returned) < Len(accepted)
        /\ UNCHANGED accepted
    BY <1>5, CopyTakesHead, CountTypes
  <2>2. QED
    BY <2>1 DEF Fifo!Next, Fifo!Get
<1>6. ASSUME NEW p \in Procs, pruss_api_read_fault(p) PROVE FALSE
  BY <1>6 DEF pruss_api_read_fault, NoRace
<1>7. CASE pruss_api_cb_store
  <2> DEFINE new == [at |-> msg_fifo.in, len |-> kfifo_in_count(cb.len)]
  <2>1. new \in Stretches
    BY SizeNat DEF TypeOK, kfifo_in_count, kfifo_avail, kfifo_len, Stretches
  <2>2. cb.pc = "store" /\ accepted' = Append(accepted, new) /\ UNCHANGED returned
    BY <1>7 DEF pruss_api_cb_store
  <2> HIDE DEF new
  <2>3. Len(accepted') = Len(accepted) + 1 /\ accepted'[Len(accepted) + 1] = new
    BY <2>2 DEF TypeOK
  <2>4. Len(accepted) - Len(returned) < MAX_FIFO_MSG - 1
    BY <2>2, CountTypes DEF FrameInv, IndexInv, Written, Read
  <2>5. QED
    BY <2>1, <2>2, <2>3, <2>4 DEF Fifo!Next, Fifo!Put
<1>8. ASSUME NEW len \in MsgLens, pruss_api_cb_start(len) PROVE UNCHANGED <<accepted, returned>>
  BY <1>8 DEF pruss_api_cb_start
<1>9. CASE pruss_api_cb_drop \/ pruss_api_cb_accept \/ pruss_api_cb_len
           \/ pruss_api_cb_idx \/ pruss_api_cb_wake \/ UNCHANGED vars
  BY <1>1, <1>9 DEF pruss_api_cb_drop, pruss_api_cb_accept, pruss_api_cb_len,
                    pruss_api_cb_idx, pruss_api_cb_wake, vars
<1>10. QED
  BY NextCases, <1>1, <1>2, <1>3, <1>4, <1>5, <1>6, <1>7, <1>8, <1>9

\* The driver implements the abstract queue of whole messages: every accepted
\* message is returned by exactly one read(), whole and in order, and one less
\* than MAX_FIFO_MSG of them can wait.
THEOREM Refinement == NoRace => (Spec => FifoSpec)
<1> SUFFICES ASSUME NoRace PROVE Spec => FifoSpec
  OBVIOUS
<1>1. Init => Fifo!Init
  BY DEF Init, Fifo!Init
<1>2. QED
  BY <1>1, FifoStep, Framing, TypeCorrect, OpenInvariant, PTL DEF Spec, FifoSpec, Fifo!Spec

----------------------------------------------------------------------------
(* No message is cut: a bound on the bytes that the waiting messages take.  *)

SizeInv ==
  /\ cb.pc \in {"check", "store"} => cb.len <= FIFO_MSG_SIZE
  /\ \A k \in 1 .. Len(accepted) :
       msg_fifo.in - accepted[k].at <= (Len(accepted) - k + 1) * FIFO_MSG_SIZE

LEMMA SizeStep == TypeOK /\ SizeInv /\ [Next]_vars => SizeInv'
<1> SUFFICES ASSUME TypeOK, SizeInv, [Next]_vars PROVE SizeInv'
  OBVIOUS
<1>1. ASSUME UNCHANGED <<accepted, cb>>, msg_fifo'.in = msg_fifo.in PROVE SizeInv'
  BY <1>1 DEF SizeInv
<1>2. ASSUME NEW p \in Procs,
             \/ pruss_api_open(p) \/ pruss_api_release(p)
             \/ pruss_api_read_start(p) \/ pruss_api_poll_start(p)
             \/ pruss_api_read_len(p) \/ pruss_api_read_return(p)
      PROVE  SizeInv'
  BY <1>1, <1>2 DEF pruss_api_open, pruss_api_release, pruss_api_read_start,
       pruss_api_poll_start, pruss_api_read_len, pruss_api_read_return
<1>3. ASSUME NEW p \in Procs,
             \/ pruss_api_read_again(p) \/ pruss_api_read_intr(p)
             \/ pruss_api_poll_ready(p) \/ pruss_api_poll_timeout(p)
      PROVE  SizeInv'
  BY <1>1, <1>3 DEF pruss_api_read_again, pruss_api_read_intr, pruss_api_poll_ready,
                    pruss_api_poll_timeout, Finish
<1>4. ASSUME NEW p \in Procs,
             pruss_api_read_ready(p) \/ pruss_api_read_sleep(p) \/ pruss_api_poll_sleep(p)
      PROVE  SizeInv'
  BY <1>1, <1>4 DEF pruss_api_read_ready, pruss_api_read_sleep, pruss_api_poll_sleep, Step
<1>5. ASSUME NEW p \in Procs, pruss_api_read_copy(p) \/ pruss_api_read_fault(p)
      PROVE  SizeInv'
  BY <1>1, <1>5 DEF pruss_api_read_copy, pruss_api_read_fault, TakeOut, TypeOK
<1>6. ASSUME NEW len \in MsgLens, pruss_api_cb_start(len) PROVE SizeInv'
  BY <1>6, DevAssumption DEF pruss_api_cb_start, SizeInv
<1>7. CASE pruss_api_cb_drop \/ pruss_api_cb_accept \/ pruss_api_cb_idx \/ pruss_api_cb_wake
           \/ pruss_api_cb_len
  BY <1>7 DEF pruss_api_cb_drop, pruss_api_cb_accept, pruss_api_cb_len,
              pruss_api_cb_idx, pruss_api_cb_wake, CbStep, SizeInv, TypeOK
<1>8. CASE pruss_api_cb_store
  <2> DEFINE n == kfifo_in_count(cb.len)
             z == Len(accepted)
             new == [at |-> msg_fifo.in, len |-> n]
  <2>1. n \in Nat /\ n <= FIFO_MSG_SIZE /\ FIFO_MSG_SIZE \in Nat
    <3>1. cb.len \in Nat /\ cb.len <= FIFO_MSG_SIZE
      BY <1>8 DEF pruss_api_cb_store, SizeInv, TypeOK
    <3>2. kfifo_avail \in Nat
      BY SizeNat DEF TypeOK, kfifo_avail, kfifo_len
    <3>3. QED
      BY <3>1, <3>2, DevAssumption DEF kfifo_in_count
  <2>2. /\ msg_fifo' = [in |-> msg_fifo.in + n, out |-> msg_fifo.out]
        /\ accepted' = Append(accepted, new)
        /\ cb'.pc = "len"
    BY <1>8 DEF pruss_api_cb_store, TypeOK
  <2> HIDE DEF n
  <2>3. /\ Len(accepted') = z + 1 /\ z \in Nat
        /\ accepted'[z + 1] = new
        /\ \A k \in 1 .. z : accepted'[k] = accepted[k]
    BY <2>2 DEF TypeOK
  <2>4. ASSUME NEW k \in 1 .. z
        PROVE  msg_fifo'.in - accepted'[k].at <= (z + 1 - k + 1) * FIFO_MSG_SIZE
    <3>1. msg_fifo.in - accepted[k].at <= (z - k + 1) * FIFO_MSG_SIZE
      BY DEF SizeInv
    <3>2. (z + 1 - k + 1) * FIFO_MSG_SIZE = (z - k + 1) * FIFO_MSG_SIZE + FIFO_MSG_SIZE
      BY <2>1, <2>3
    <3>3. (z - k + 1) * FIFO_MSG_SIZE \in Int
      BY <2>1, <2>3
    <3>4. accepted[k].at \in Nat /\ msg_fifo.in \in Nat
      BY AcceptedTypes DEF TypeOK
    <3>5. msg_fifo'.in = msg_fifo.in + n /\ accepted'[k] = accepted[k]
      BY <2>2, <2>3
    <3>6. QED
      BY <3>1, <3>2, <3>3, <3>4, <3>5, <2>1
  <2>5. msg_fifo'.in - accepted'[z + 1].at <= (z + 1 - (z + 1) + 1) * FIFO_MSG_SIZE
    <3>1. msg_fifo'.in - accepted'[z + 1].at = n
      BY <2>1, <2>2, <2>3 DEF TypeOK
    <3>2. (z + 1 - (z + 1) + 1) * FIFO_MSG_SIZE = FIFO_MSG_SIZE
      BY <2>1, <2>3
    <3>3. QED
      BY <3>1, <3>2, <2>1
  <2>6. \A k \in 1 .. z + 1 :
          msg_fifo'.in - accepted'[k].at <= (z + 1 - k + 1) * FIFO_MSG_SIZE
    BY <2>3, <2>4, <2>5
  <2>7. QED
    BY <2>2, <2>3, <2>6 DEF SizeInv
<1>9. CASE UNCHANGED vars
  BY <1>1, <1>9 DEF vars
<1>10. QED
  BY NextCases, <1>2, <1>3, <1>4, <1>5, <1>6, <1>7, <1>8, <1>9

LEMMA WaitingFits == TypeOK /\ FrameInv /\ SizeInv => StoredWhole
<1> SUFFICES ASSUME TypeOK, FrameInv, SizeInv, cb.pc \in {"check", "store"}
             PROVE  kfifo_avail >= cb.len
  BY DEF StoredWhole
<1> DEFINE z == Len(accepted)
           r == Len(returned)
           S == FIFO_MSG_SIZE
<1>1. z \in Nat /\ r \in Nat /\ r <= z /\ z - r <= MAX_FIFO_MSG - 1
  BY CountTypes DEF FrameInv, IndexInv, Written, Read
<1>2. S \in Nat /\ MAX_FIFO_MSG \in Nat \ {0} /\ cb.len <= S /\ cb.len \in Nat
  BY DevAssumption DEF SizeInv, TypeOK
<1>3. kfifo_len <= (z - r) * S
  <2>1. CASE r = z
    <3>1. kfifo_len = 0
      BY <2>1, <1>1 DEF FrameInv, StreamInv, kfifo_len, TypeOK
    <3>2. (z - r) * S = 0
      BY <2>1, <1>1, <1>2
    <3>3. QED
      BY <3>1, <3>2
  <2>2. CASE r < z
    <3>1. r + 1 \in 1 .. z /\ z - (r + 1) + 1 = z - r
      BY <2>2, <1>1
    <3>2. msg_fifo.out = accepted[r + 1].at
      BY <2>2, <1>1 DEF FrameInv, StreamInv
    <3>3. QED
      BY <3>1, <3>2 DEF SizeInv, kfifo_len
  <2>3. QED
    BY <2>1, <2>2, <1>1
<1>4. (z - r) * S <= (MAX_FIFO_MSG - 1) * S
  <2>1. (MAX_FIFO_MSG - 1) - (z - r) \in Nat
    BY <1>1, <1>2
  <2>2. ((MAX_FIFO_MSG - 1) - (z - r)) * S \in Nat
    BY <2>1, <1>2
  <2>3. QED
    BY <2>2, <1>1, <1>2
<1>5. FifoSize = (MAX_FIFO_MSG - 1) * S + S
  BY <1>2 DEF FifoSize
<1>6. kfifo_len \in Int /\ (z - r) * S \in Int /\ (MAX_FIFO_MSG - 1) * S \in Int
  BY <1>1, <1>2 DEF TypeOK, kfifo_len
<1> HIDE DEF z, r, S
<1>7. QED
  BY <1>2, <1>3, <1>4, <1>5, <1>6 DEF kfifo_avail

\* Every accepted message is stored whole, and the test of the free bytes never
\* rejects one: the length table is what limits the queue.
THEOREM NothingCut == NoRace => (Spec => []StoredWhole)
<1> SUFFICES ASSUME NoRace PROVE Spec => []StoredWhole
  OBVIOUS
<1>1. Init => SizeInv
  BY DEF Init, SizeInv
<1>2. QED
  BY <1>1, SizeStep, WaitingFits, Framing, TypeCorrect, PTL DEF Spec
=============================================================================
