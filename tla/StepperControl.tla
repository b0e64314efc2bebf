--------------------------- MODULE StepperControl ---------------------------
(***************************************************************************)
(* The stepper motor driver (example 7): the user's process (driver_lib),  *)
(* PRU1, which receives three numbers and stores them in the shared RAM,   *)
(* and PRU0, which reads them and sends the pulses.  PRU0 tells PRU1 that  *)
(* it has finished by system event 16, and PRU1 tells the process by the   *)
(* message "done".  The process can be killed at any time: the PRUs go on. *)
(***************************************************************************)
EXTENDS Integers, Sequences, SequencesExt

CONSTANTS
  Word,       \* numbers of a 32-bit register: 0 .. Word - 1
  Commands,   \* the moves asked for: cycles, number of pulses, GPIO pins
  Pins,       \* settings of the mode and direction pins
  DefaultPins,
  Prompt      \* is PRU1 faster than a command to the daemon?

\* The moves for which driver_lib's arithmetic gives a pulse and a duty cycle.
ASSUME StepperAssumption ==
  /\ Word \in Nat \ {0}
  /\ DefaultPins \in Pins
  /\ Commands \subseteq [on : Nat, total : Nat, pulses : Nat, pins : Pins]
  /\ \A c \in Commands : 0 < c.on /\ c.on < c.total /\ c.total < Word
                         /\ 0 < c.pulses /\ c.pulses < Word
  /\ Prompt \in BOOLEAN

VARIABLES
  alive,    \* the user's process exists
  todo,     \* the steps left of the call it is in
  cmd,      \* the last command given to activateMotor
  pins,     \* MS1, MS2 and DIR
  awake,    \* SLP
  node,     \* /dev/pruss_api_pru1 exists
  inbox,    \* numbers on their way to PRU1
  outbox,   \* messages "done" nobody has read
  pru1,     \* where PRU1 is
  i,        \* PRU1's index into the shared RAM
  sram,     \* the first words of the shared RAM
  event,    \* system event 16 is pending
  pru0,     \* where PRU0 is
  R,        \* its registers R6 (on), R7 (total), R8 (pulses)
  R10,      \* the pulses it has counted
  made,     \* history: the pulses the motor got since the last command
  failed    \* history: a SENDMSG has failed

call == <<alive, todo, cmd>>
process == <<call, failed>>
gpio == <<pins, awake>>
channel == <<node, inbox, outbox>>
receiver == <<pru1, i, sram>>
pulser == <<pru0, R, R10, made>>
vars == <<process, gpio, channel, receiver, event, pulser>>

Number == 0 .. Word - 1
Cells == 0 .. 2
Zeros == [c \in Cells |-> 0]

\* A pulse as the motor sees it.
Pulse(high, low) == [high |-> high, low |-> low, pins |-> pins]

\* The shared RAM holds anything.
Init ==
  /\ alive = FALSE
  /\ todo = << >>
  /\ cmd \in Commands
  /\ pins \in Pins /\ awake \in BOOLEAN
  /\ node = FALSE /\ inbox = << >> /\ outbox = 0
  /\ pru1 = "off" /\ i = 0
  /\ sram \in [Cells -> Number]
  /\ event = FALSE
  /\ pru0 = "off" /\ R = Zeros /\ R10 = 0
  /\ made = << >>
  /\ failed = FALSE

----------------------------------------------------------------------------
(* PRU1.                                                                   *)

\* The channel is announced and the kernel makes the device node.
pru1_boots ==
  /\ pru1 = "boot"
  /\ pru1' = "receive"
  /\ node' = TRUE
  /\ UNCHANGED <<process, gpio, inbox, outbox, i, sram, event, pulser>>

\* Mutant: PRU1 waits for PRU0 one number too late.
pru1_stores_four ==
  /\ pru1 = "receive"
  /\ inbox # << >>
  /\ inbox' = Tail(inbox)
  /\ sram' = [sram EXCEPT ![i] = Head(inbox)]
  /\ i' = i + 1
  /\ pru1' = IF i' = 4 THEN "wait" ELSE "receive"
  /\ UNCHANGED <<process, gpio, node, outbox, event, pulser>>

pru1_stores ==
  /\ pru1 = "receive"
  /\ inbox # << >>
  /\ inbox' = Tail(inbox)
  /\ sram' = [sram EXCEPT ![i] = Head(inbox)]
  /\ i' = i + 1
  /\ pru1' = IF i' = 3 THEN "wait" ELSE "receive"
  /\ UNCHANGED <<process, gpio, node, outbox, event, pulser>>

\* Mutant: the event is left pending.
pru1_done_keeps_event ==
  /\ pru1 = "wait"
  /\ event
  /\ outbox' = outbox + 1
  /\ pru1' = "receive"
  /\ UNCHANGED <<process, gpio, node, inbox, i, sram, event, pulser>>

\* Bit 30 of R31 is set: clear the event, send "done".
pru1_done ==
  /\ pru1 = "wait"
  /\ event
  /\ event' = FALSE
  /\ outbox' = outbox + 1
  /\ pru1' = "receive"
  /\ UNCHANGED <<process, gpio, node, inbox, i, sram, pulser>>

PRU1 == pru1_boots \/ pru1_stores \/ pru1_done

\* PRU1 has dealt with all it has been sent.  A command to the daemon takes
\* a connection, a handler thread and a write to a file; PRU1 some cycles.
Settled == Prompt => /\ pru1 = "receive" => inbox = << >>
                     /\ ~(pru1 = "wait" /\ event)

----------------------------------------------------------------------------
(* PRU0.                                                                   *)

configIntc ==
  /\ pru0 = "config"
  /\ event' = FALSE
  /\ pru0' = "load"
  /\ UNCHANGED <<process, gpio, channel, receiver, R, R10, made>>

\* `start': three LBBO.
load ==
  /\ pru0 = "load"
  /\ R' = sram
  /\ R10' = 0
  /\ pru0' = "pulse"
  /\ UNCHANGED <<process, gpio, channel, receiver, event, made>>

\* Iterations of a loop that ends when a register has gone up to a value.
Turns(from, to) == IF from = to THEN Word ELSE (to - from) % Word

\* Mutant: the pulse count is tested before it is advanced.
sample_one_more ==
  /\ pru0 = "pulse"
  /\ made' = IF awake THEN Append(made, Pulse(Turns(0, R[0]), Turns(R[0], R[1]))) ELSE made
  /\ R10' = (R10 + 1) % Word
  /\ pru0' = IF R10 = R[2] THEN "trigger" ELSE "pulse"
  /\ UNCHANGED <<process, gpio, channel, receiver, event, R>>

\* sample_high, sample_low and count_check.  A sleeping motor does not turn.
sample ==
  /\ pru0 = "pulse"
  /\ made' = IF awake THEN Append(made, Pulse(Turns(0, R[0]), Turns(R[0], R[1]))) ELSE made
  /\ R10' = (R10 + 1) % Word
  /\ pru0' = IF R10' = R[2] THEN "trigger" ELSE "pulse"
  /\ UNCHANGED <<process, gpio, channel, receiver, event, R>>

trigger ==
  /\ pru0 = "trigger"
  /\ event' = TRUE
  /\ pru0' = "halt"
  /\ UNCHANGED <<process, gpio, channel, receiver, R, R10, made>>

PRU0 == configIntc \/ load \/ sample \/ trigger

----------------------------------------------------------------------------
(* driver_lib: one step of the call in progress.                           *)

Step(name) ==
  /\ alive
  /\ todo # << >>
  /\ Head(todo) = name
  /\ Settled
  /\ todo' = Tail(todo)
  /\ UNCHANGED <<alive, cmd>>

set_pins ==
  /\ Step("set_pins")
  /\ pins' = cmd.pins
  /\ UNCHANGED <<failed, awake, channel, receiver, event, pulser>>

default_pins ==
  /\ Step("default_pins")
  /\ pins' = DefaultPins
  /\ UNCHANGED <<failed, awake, channel, receiver, event, pulser>>

set_SLP(name, value) ==
  /\ Step(name)
  /\ awake' = value
  /\ UNCHANGED <<failed, pins, channel, receiver, event, pulser>>

p0_disable ==
  /\ Step("p0.disable")
  /\ pru0' = "off" /\ R' = Zeros /\ R10' = 0
  /\ UNCHANGED <<failed, gpio, channel, receiver, event, made>>

\* The channel goes away with the core, and with it what is under way.
p1_disable ==
  /\ Step("p1.disable")
  /\ pru1' = "off" /\ i' = 0
  /\ node' = FALSE /\ inbox' = << >> /\ outbox' = 0
  /\ UNCHANGED <<failed, gpio, sram, event, pulser>>

p1_enable ==
  /\ Step("p1.enable")
  /\ pru1' = IF pru1 = "off" THEN "boot" ELSE pru1
  /\ UNCHANGED <<failed, gpio, channel, i, sram, event, pulser>>

p0_enable ==
  /\ Step("p0.enable")
  /\ pru0' = IF pru0 = "off" THEN "config" ELSE pru0
  /\ UNCHANGED <<failed, gpio, channel, receiver, event, R, R10, made>>

Send(name, x) ==
  /\ Step(name)
  /\ node
  /\ inbox' = Append(inbox, x)
  /\ UNCHANGED <<failed, gpio, node, outbox, receiver, event, pulser>>

sendMsg_raw ==
  \/ Send("send_on", cmd.on)
  \/ Send("send_total", cmd.total)
  \/ Send("send_pulses", cmd.pulses)

\* The device is taken or missing, or there is no buffer: sendMsg_raw drops
\* the reply of the daemon, and the caller goes on.
sendMsg_fails ==
  /\ Step("send_on") \/ Step("send_total") \/ Step("send_pulses")
  /\ failed' = TRUE
  /\ UNCHANGED <<gpio, channel, receiver, event, pulser>>

\* getMsg returns "done\n" and ends the loop; any other answer repeats it.
getMsg_done ==
  /\ Step("poll")
  /\ outbox = 1
  /\ outbox' = 0
  /\ UNCHANGED <<failed, gpio, node, inbox, receiver, event, pulser>>

Driver_step ==
  \/ set_pins \/ default_pins
  \/ set_SLP("SLP_low", FALSE) \/ set_SLP("SLP_high", TRUE)
  \/ p0_disable \/ p1_disable \/ p1_enable \/ p0_enable
  \/ sendMsg_raw \/ sendMsg_fails \/ getMsg_done

----------------------------------------------------------------------------
(* Its calls, made by one thread.                                          *)

Idle == alive /\ todo = << >>

Rest == <<failed, gpio, channel, receiver, event, pru0, R, R10>>

\* The constructors of PRUSS and Driver.
Driver ==
  /\ ~alive
  /\ alive' = TRUE
  /\ todo' = <<"p0.disable", "p1.disable", "default_pins">>
  /\ UNCHANGED <<cmd, made, Rest>>

\* Mutant: PRU0 is started with PRU1.
MoveTooSoon ==
  <<"set_pins", "p0.disable", "p1.disable", "p1.enable", "p0.enable",
    "send_on", "send_total", "send_pulses", "poll">>

\* isMotorBusy is FALSE whenever the only thread gets here.
Move ==
  <<"set_pins", "p0.disable", "p1.disable", "p1.enable",
    "send_on", "send_total", "send_pulses", "p0.enable", "poll">>

activateMotor(c) ==
  /\ Idle
  /\ todo' = Move
  /\ cmd' = c
  /\ made' = << >>
  /\ UNCHANGED <<alive, Rest>>

Call(steps) == Idle /\ todo' = steps /\ UNCHANGED <<alive, cmd, made, Rest>>

sleep == Call(<<"SLP_low">>)
wake == Call(<<"SLP_high">>)

setMode(v) ==
  /\ Idle
  /\ pins' = v
  /\ UNCHANGED <<process, awake, channel, receiver, event, pulser>>

\* The destructor, and shutDown.
exit == Call(<<"SLP_low", "p0.disable", "p1.disable", "exit">>)

gone ==
  /\ alive
  /\ todo = <<"exit">>
  /\ alive' = FALSE
  /\ todo' = << >>
  /\ UNCHANGED <<cmd, made, Rest>>

killed ==
  /\ alive
  /\ alive' = FALSE
  /\ todo' = << >>
  /\ UNCHANGED <<cmd, made, Rest>>

Next ==
  \/ PRU0
  \/ PRU1
  \/ Driver_step
  \/ Driver
  \/ \E c \in Commands : activateMotor(c)
  \/ \E v \in Pins : setMode(v)
  \/ sleep \/ wake \/ exit \/ gone \/ killed

Spec == Init /\ [][Next]_vars

\* The cores and the process run, and the process is served by the daemon.
FairSpec == Spec /\ WF_vars(PRU0) /\ WF_vars(PRU1) /\ WF_vars(Driver_step)

----------------------------------------------------------------------------
StepNames == {"set_pins", "default_pins", "SLP_low", "SLP_high", "p0.disable", "p1.disable",
  "p1.enable", "p0.enable", "send_on", "send_total", "send_pulses", "poll", "exit"}

\* The shape of the state; PRU1 is never sent a fourth number, and has
\* never more than one message "done" unread.
TypeOK ==
  /\ alive \in BOOLEAN
  /\ todo \in Seq(StepNames)
  /\ cmd \in Commands
  /\ pins \in Pins /\ awake \in BOOLEAN
  /\ node \in BOOLEAN /\ inbox \in Seq(Number) /\ outbox \in 0 .. 1
  /\ pru1 \in {"off", "boot", "receive", "wait"}
  /\ i \in 0 .. 3
  /\ sram \in [Cells -> Number]
  /\ event \in BOOLEAN
  /\ pru0 \in {"off", "config", "load", "pulse", "trigger", "halt"}
  /\ R \in [Cells -> Number]
  /\ R10 \in Number
  /\ made \in Seq([high : 0 .. Word, low : 0 .. Word, pins : Pins])
  /\ failed \in BOOLEAN

\* The pulses a command asks for.
Asked(c) == [p \in 1 .. c.pulses |->
              [high |-> c.on, low |-> c.total - c.on, pins |-> c.pins]]

\* The motor never gets a pulse that the last command did not ask for: not
\* from numbers of an earlier move, not one too many, and not in another
\* mode or direction, also when the process is killed and started again.
\* True as long as no SENDMSG has failed.
StepsAsAsked == failed \/ IsPrefix(made, Asked(cmd))

Returns == todo = <<"poll">> /\ alive' /\ todo' = << >>

\* When activateMotor returns, the motor has made exactly its move ("Sends
\* out precise amount of pulses"), unless it was put to sleep.
MoveIsExact == [][Returns /\ awake /\ ~failed => made = Asked(cmd)]_vars

\* A pending event is from the PRU0 that has just halted: PRU1 cannot take
\* an old one for the end of a new move.
EventIsFresh == failed \/ (event => pru0 = "halt")

\* activateMotor returns, unless its process is killed.
MoveEnds == (alive /\ todo = Move) ~> (todo = << >> \/ failed)

\* "PRU1 sends back "done\n" on RPMsg channel, once PRU0 interrupts it after
\* it is done sending all its pulses": PRU0 is through with the move when
\* activateMotor returns, also when a SENDMSG has failed before.
DoneWhenSent == [][Returns => pru0 = "halt"]_vars
=============================================================================
