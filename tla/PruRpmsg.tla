------------------------------ MODULE PruRpmsg ------------------------------
(***************************************************************************)
(* RPMsg between a PRU and the ARM host: the library                       *)
(* examples/lib/src/pru_rpmsg.c over two virtqueues, driven by the echo    *)
(* loop of firmware example 2, against Linux's virtio_rpmsg_bus.           *)
(*                                                                         *)
(* vq[0] carries messages from the PRU to the ARM, vq[1] the other way.    *)
(* The PRU and the ARM share memory and two system events and nothing      *)
(* else; the PRU's stores are steps of their own where the ARM can look.   *)
(*                                                                         *)
(* The ARM's messages are numbered 1, 2, ...; the channel announcement is  *)
(* message 0, and an answer carries the number of the message it answers.  *)
(***************************************************************************)
EXTENDS PruVirtqueue, Sequences

CONSTANTS
  TornUsed,   \* may the ARM look between used->idx++ and the entry's write?
  MaxSends    \* bound: messages the ARM sends

ASSUME RpmsgAssumption == TornUsed \in BOOLEAN /\ MaxSends \in Nat

VARIABLES
  vq,         \* [0 .. 1 -> Virtqueue]
  buf,        \* [0 .. 1 -> [Desc -> message in the descriptor's buffer]]
  to_arm,     \* the system event TO_ARM_HOST is pending
  from_arm,   \* the system event FROM_ARM_HOST is pending
  driver_ok,  \* VIRTIO_CONFIG_S_DRIVER_OK in the status byte
  fw,         \* the firmware: [op, step, head, elem, payload]
  tx,         \* the host's thread in rpmsg_send()
  irq,        \* the host's receive interrupt
  sent,       \* history: how many messages the ARM sent
  consumed,   \* history: the messages the firmware received
  echoed,     \* history: the messages the firmware sent
  got         \* history: the messages the ARM received

rings == <<vq, buf>>
host == <<driver_ok, tx, irq>>
history == <<sent, consumed, echoed, got>>
vars == <<rings, to_arm, from_arm, fw, host, history>>

Message == 0 .. MaxSends
Calls == {"announce", "receive", "reply"}
Ops == {"boot", "status", "poll", "clear"} \union Calls
Steps == {"call", "publish", "fill", "kick"}

Init ==
  /\ vq = [q \in 0 .. 1 |-> vring_init]
  /\ buf = [q \in 0 .. 1 |-> [d \in Desc |-> 0]]
  /\ to_arm = FALSE
  /\ from_arm = FALSE
  /\ driver_ok = FALSE
  /\ fw = [op |-> "boot", step |-> "call", head |-> 0, elem |-> 0, payload |-> 0]
  /\ tx = "idle"
  /\ irq = "idle"
  /\ sent = 0
  /\ consumed = << >>
  /\ echoed = << >>
  /\ got = << >>

----------------------------------------------------------------------------
(* The library's calls, one step for each access the ARM can tell apart.   *)

\* pru_rpmsg_send takes buffers from virtqueue0, pru_rpmsg_receive from 1.
Queue == IF fw.op = "receive" THEN 1 ELSE 0

\* Where main() goes when the call fails (no buffer) or has succeeded; the
\* result of the answer is not looked at.
OnFailure == [announce |-> "announce", receive |-> "poll", reply |-> "receive"]
OnSuccess == [announce |-> "poll", receive |-> "reply", reply |-> "receive"]

Call(op) == fw.op = op /\ fw.step = "call"
Took(payload) ==
  fw' = [fw EXCEPT !.step = "publish", !.head = AvailHead(vq[Queue]), !.payload = payload]

pru_rpmsg_no_buf ==
  /\ fw.op \in Calls
  /\ fw.step = "call"
  /\ NoBufAvailable(vq[Queue])
  /\ fw' = [fw EXCEPT !.op = OnFailure[@]]
  /\ UNCHANGED <<rings, to_arm, from_arm, host, history>>

pru_rpmsg_send ==
  /\ Call("announce") \/ Call("reply")
  /\ ~NoBufAvailable(vq[0])
  /\ vq' = [vq EXCEPT ![0] = pru_virtqueue_get_avail_buf(@)]
  /\ buf' = [buf EXCEPT ![0][AvailHead(vq[0])] = fw.payload]
  /\ Took(fw.payload)
  /\ echoed' = Append(echoed, fw.payload)
  /\ UNCHANGED <<to_arm, from_arm, host, sent, consumed, got>>

pru_rpmsg_receive ==
  /\ Call("receive")
  /\ ~NoBufAvailable(vq[1])
  /\ vq' = [vq EXCEPT ![1] = pru_virtqueue_get_avail_buf(@)]
  /\ Took(buf[1][AvailHead(vq[1])])
  /\ consumed' = Append(consumed, buf[1][AvailHead(vq[1])])
  /\ UNCHANGED <<buf, to_arm, from_arm, host, sent, echoed, got>>

add_used_publish ==
  /\ fw.step = "publish"
  /\ vq' = [vq EXCEPT ![Queue] = PublishUsed(@)]
  /\ fw' = [fw EXCEPT !.step = "fill", !.elem = UsedElem(vq[Queue])]
  /\ UNCHANGED <<buf, to_arm, from_arm, host, history>>

add_used_fill ==
  /\ fw.step = "fill"
  /\ vq' = [vq EXCEPT ![Queue] = FillUsed(@, fw.elem, fw.head)]
  /\ fw' = [fw EXCEPT !.step = "kick"]
  /\ UNCHANGED <<buf, to_arm, from_arm, host, history>>

\* Mutant: buffers are handed back to the ARM without a kick.
kick_for_sends ==
  /\ fw.step = "kick"
  /\ to_arm' = (to_arm \/ (Queue = 0 /\ KickWanted(vq[0])))
  /\ fw' = [fw EXCEPT !.op = OnSuccess[@], !.step = "call"]
  /\ UNCHANGED <<rings, from_arm, host, history>>

pru_virtqueue_kick ==
  /\ fw.step = "kick"
  /\ to_arm' = (to_arm \/ KickWanted(vq[Queue]))
  /\ fw' = [fw EXCEPT !.op = OnSuccess[@], !.step = "call"]
  /\ UNCHANGED <<rings, from_arm, host, history>>

----------------------------------------------------------------------------
(* main() of the firmware.                                                 *)

main_boot ==
  /\ fw.op = "boot"
  /\ from_arm' = FALSE
  /\ fw' = [fw EXCEPT !.op = "status"]
  /\ UNCHANGED <<rings, to_arm, host, history>>

\* The host is ready: pru_rpmsg_init, then the channel is announced.
main_status ==
  /\ fw.op = "status"
  /\ driver_ok
  /\ vq' = [q \in 0 .. 1 |-> pru_virtqueue_init(vq[q])]
  /\ fw' = [fw EXCEPT !.op = "announce"]
  /\ UNCHANGED <<buf, to_arm, from_arm, host, history>>

main_poll ==
  /\ fw.op = "poll"
  /\ from_arm
  /\ fw' = [fw EXCEPT !.op = "clear"]
  /\ UNCHANGED <<rings, to_arm, from_arm, host, history>>

main_clear ==
  /\ fw.op = "clear"
  /\ from_arm' = FALSE
  /\ fw' = [fw EXCEPT !.op = "receive"]
  /\ UNCHANGED <<rings, to_arm, host, history>>

main ==
  \/ main_boot
  \/ main_status
  \/ main_poll
  \/ main_clear
  \/ pru_rpmsg_no_buf
  \/ pru_rpmsg_send
  \/ pru_rpmsg_receive
  \/ add_used_publish
  \/ add_used_fill
  \/ pru_virtqueue_kick

----------------------------------------------------------------------------
(* The ARM host: virtio_rpmsg_bus of the Linux kernel, as this firmware    *)
(* and the pruss_api driver use it.                                        *)

ArmLooks == TornUsed \/ fw.step # "fill"

\* All receive buffers are offered in order, the interrupt for sent buffers
\* is suppressed, DRIVER_OK is set and the PRU is kicked.
rpmsg_probe ==
  /\ ~driver_ok
  /\ vq' = [vq EXCEPT ![0] = virtqueue_add_all(@), ![1] = virtqueue_disable_cb(@)]
  /\ driver_ok' = TRUE
  /\ from_arm' = TRUE
  /\ UNCHANGED <<buf, to_arm, fw, tx, irq, history>>

\* The next message goes out in descriptor d of the queue as it is in v.
Sends(v, d) ==
  /\ vq' = [vq EXCEPT ![1] = virtqueue_disable_cb(virtqueue_add(v, d))]
  /\ buf' = [buf EXCEPT ![1][d] = sent + 1]
  /\ sent' = sent + 1
  /\ tx' = "kick"

\* The channel exists once its announcement has arrived.
MaySend == Len(got) > 0 /\ sent < MaxSends /\ ArmLooks

\* The first NUM messages use fresh buffers.
rpmsg_send_fresh ==
  /\ MaySend
  /\ tx = "idle"
  /\ sent < NUM
  /\ Sends(vq[1], sent)
  /\ UNCHANGED <<to_arm, from_arm, fw, driver_ok, irq, consumed, echoed, got>>

\* Later ones reuse a buffer the PRU has handed back.
rpmsg_send_reuse ==
  /\ MaySend
  /\ tx \in {"idle", "look"}
  /\ sent >= NUM
  /\ MoreUsed(vq[1])
  /\ LET v == virtqueue_get_buf(vq[1]) IN
       IF v.broken
         THEN /\ vq' = [vq EXCEPT ![1] = v]
              /\ tx' = "failed"
              /\ UNCHANGED <<buf, sent>>
         ELSE Sends(v, UsedHead(vq[1]))
  /\ UNCHANGED <<to_arm, from_arm, fw, driver_ok, irq, consumed, echoed, got>>

rpmsg_send_kick ==
  /\ tx = "kick"
  /\ from_arm' = TRUE
  /\ tx' = "idle"
  /\ UNCHANGED <<rings, to_arm, fw, driver_ok, irq, history>>

\* No buffer: ask for the interrupt, look once more, and sleep.
rpmsg_send_wait ==
  /\ MaySend
  /\ tx = "idle"
  /\ sent >= NUM
  /\ ~MoreUsed(vq[1])
  /\ vq' = [vq EXCEPT ![1] = virtqueue_enable_cb(@)]
  /\ tx' = "look"
  /\ UNCHANGED <<buf, to_arm, from_arm, fw, driver_ok, irq, history>>

rpmsg_send_sleep ==
  /\ tx = "look"
  /\ ArmLooks
  /\ ~MoreUsed(vq[1])
  /\ tx' = "asleep"
  /\ UNCHANGED <<rings, to_arm, from_arm, fw, driver_ok, irq, history>>

\* One interrupt serves both queues: it wakes the sender if a buffer came
\* back, and starts to drain the received messages.
vring_interrupt ==
  /\ to_arm
  /\ irq = "idle"
  /\ ArmLooks
  /\ to_arm' = FALSE
  /\ irq' = "look"
  /\ tx' = IF tx = "asleep" /\ MoreUsed(vq[1]) THEN "look" ELSE tx
  /\ UNCHANGED <<rings, from_arm, fw, driver_ok, history>>

\* A message is passed on and its buffer is offered again.
rpmsg_recv_done ==
  /\ irq \in {"look", "drain"}
  /\ ArmLooks
  /\ MoreUsed(vq[0])
  /\ LET v == virtqueue_get_buf(vq[0])
         d == UsedHead(vq[0])
     IN  IF v.broken
           THEN vq' = [vq EXCEPT ![0] = v] /\ UNCHANGED <<irq, got>>
           ELSE /\ vq' = [vq EXCEPT ![0] = virtqueue_add(v, d)]
                /\ got' = Append(got, buf[0][d])
                /\ irq' = "drain"
  /\ UNCHANGED <<buf, to_arm, from_arm, fw, driver_ok, tx, sent, consumed, echoed>>

\* The PRU is kicked after a drain that found something.
rpmsg_recv_end ==
  /\ irq \in {"look", "drain"}
  /\ ArmLooks
  /\ ~MoreUsed(vq[0])
  /\ from_arm' = (from_arm \/ irq = "drain")
  /\ irq' = "idle"
  /\ UNCHANGED <<rings, to_arm, fw, driver_ok, tx, history>>

Interrupt == vring_interrupt \/ rpmsg_recv_done \/ rpmsg_recv_end
Sender ==
  \/ rpmsg_send_fresh
  \/ rpmsg_send_reuse
  \/ rpmsg_send_kick
  \/ rpmsg_send_wait
  \/ rpmsg_send_sleep

Next == main \/ rpmsg_probe \/ Interrupt \/ Sender

Spec == Init /\ [][Next]_vars

\* The PRU runs all the time, interrupts are served, and a thread that is
\* inside rpmsg_send() goes on; nobody is forced to send.
Fairness ==
  /\ WF_vars(main)
  /\ WF_vars(Interrupt)
  /\ WF_vars(tx # "idle" /\ Sender)

FairSpec == Spec /\ Fairness

----------------------------------------------------------------------------
\* The shape of the state.
TypeOK ==
  /\ vq \in [0 .. 1 -> Virtqueue]
  /\ buf \in [0 .. 1 -> [Desc -> Message]]
  /\ to_arm \in BOOLEAN
  /\ from_arm \in BOOLEAN
  /\ driver_ok \in BOOLEAN
  /\ fw \in [op : Ops, step : Steps, head : Desc, elem : Desc, payload : Message]
  /\ tx \in {"idle", "kick", "look", "asleep", "failed"}
  /\ irq \in {"idle", "look", "drain"}
  /\ sent \in Message
  /\ consumed \in Seq(Message)
  /\ echoed \in Seq(Message)
  /\ got \in Seq(Message)

\* The descriptors the PRU has taken and not yet handed back.
Held(q) == IF Queue = q /\ fw.step \in {"publish", "fill"} THEN {fw.head} ELSE {}

\* Every descriptor the ARM has handed out is in exactly one place: offered
\* and not taken, held by the PRU, or handed back and not collected.  So no
\* buffer is leaked and none is written by both sides, however often the
\* free-running indices wrap.
OneOwner ==
  fw.step # "fill" =>
    \A q \in 0 .. 1 : \A d \in Desc : OwnedOnce(vq[q], Held(q), d)

\* What the ARM finds where used->idx says there is an entry is the head of a
\* used buffer, never of one that still waits for the PRU to take it, however
\* far the ARM lags behind. False where the ARM may look between the PRU's two
\* stores (TornUsed), and the code counts the entry before it writes it: "If the
\* index is valid, then the buffer is added to the used list" (pru_virtqueue.h:174).
UsedHeadsAreUsed ==
  ArmLooks => \A q \in 0 .. 1 :
    MoreUsed(vq[q]) =>
      LET d == UsedHead(vq[q]) IN
      d \in vq[q].out /\ Offers(vq[q], d) = {}

\* An answer is dropped (main() does not look at the result of its send) only
\* when all NUM receive buffers are full of messages the ARM has not collected.
DroppedOnlyWhenFull ==
  (Call("reply") /\ NoBufAvailable(vq[0])) => Len(echoed) - Len(got) = NUM

\* The firmware never misses a kick: it receives every message sent.
EveryMessageConsumed ==
  \A n \in 1 .. MaxSends : sent >= n ~> Len(consumed) >= n

\* What the firmware could send arrives: no interrupt to the ARM is lost.
EveryEchoArrives ==
  \A n \in 1 .. MaxSends + 1 : Len(echoed) >= n ~> Len(got) >= n

\* A sender without a buffer is woken by the PRU handing one back: it never
\* needs the 15 s timeout of its wait.
SleeperWakes == tx = "asleep" ~> tx # "asleep"

\* Each direction is a queue of at most NUM messages, first in first out,
\* nothing lost, repeated or overwritten.
Inbound == INSTANCE MessageFifo
  WITH Capacity <- NUM, accepted <- [i \in 1 .. sent |-> i], returned <- consumed
Outbound == INSTANCE MessageFifo
  WITH Capacity <- NUM, accepted <- echoed, returned <- got
InboundSpec == Inbound!Spec
OutboundSpec == Outbound!Spec
=============================================================================
