------------------------------- MODULE Prussd -------------------------------
(***************************************************************************)
(* The daemon's message commands (prussd/prussd.py): GETMSG, SENDMSG and   *)
(* EVENTWAIT on the device of one RPMsg channel.  Every connection has a   *)
(* handler thread of its own; they meet at the device, which admits one    *)
(* opener at a time.                                                       *)
(*                                                                         *)
(* The device is a bounded queue of messages (MessageFifo, which the       *)
(* driver's model is shown to implement).  A message is a sequence of      *)
(* lines, each [id, nl]: its number in the PRU's stream and whether a      *)
(* newline ends it.                                                        *)
(*                                                                         *)
(* The device comes and goes with the firmware (another connection's       *)
(* ENABLE and DISABLE) at any moment, also between a command's look at the *)
(* node and its open, and while the device is open.  The file that a       *)
(* thread then has leads to freed memory: what it answers is anybody's     *)
(* guess, and what it does to that memory is not followed (PrussApiBus).   *)
(***************************************************************************)
EXTENDS Integers, Sequences, SequencesExt

CONSTANTS
  Threads,    \* handler threads
  Shapes,     \* what the PRU sends: sequences of nl flags, one for each line
  Capacity,   \* messages the device can hold
  MaxMsgs     \* bound: messages the device accepts

ASSUME PrussdAssumption ==
  /\ Shapes \subseteq Seq(BOOLEAN)
  /\ Capacity \in Nat
  /\ MaxMsgs \in Nat
  /\ "nobody" \notin Threads

VARIABLES
  node,       \* what is at the path: nothing, the device, or a regular file
  accepted,   \* the messages the device has queued so far
  returned,   \* the messages its read() has handed out so far
  holder,     \* the thread that has the device open, or "nobody"
  thread,     \* [Threads -> the command, where it is, and its reply]
  chunk,      \* lines read from the device that readline() has not returned
  reply,      \* the lines the GETMSG under way has collected
  delivered   \* history: the lines of this device sent to clients

device == <<node, accepted, returned>>
vars == <<device, holder, thread, chunk, reply, delivered>>

Lines == [id : 1 .. MaxMsgs, nl : BOOLEAN]
Message == UNION {[1 .. k -> Lines] : k \in {Len(s) : s \in Shapes}}
Dev == INSTANCE MessageFifo

Commands == {"GETMSG", "SENDMSG_s", "SENDMSG_r", "EVENTWAIT", "EVENTWAIT_timeout"}
Stages == {"idle", "args", "node", "open", "select", "readline", "write", "wait", "close",
           "file", "gone"}
Replies == {"none", "0", "None", "lines", "empty",
            "EINVAL", "EPERM", "ENODEV", "ENOENT", "EACCES", "EIO", "ETIME"}
TimeToWait == 3

NoCommand == [cmd |-> "GETMSG", pc |-> "idle", slept |-> 0, ret |-> "none"]
Readable == Len(returned) < Len(accepted)

Init ==
  /\ node = "none"
  /\ Dev!Init
  /\ holder = "nobody"
  /\ thread = [t \in Threads |-> NoCommand]
  /\ chunk = << >>
  /\ reply = << >>
  /\ delivered = << >>

----------------------------------------------------------------------------
(* The device.                                                             *)

\* The firmware has announced its channel. A regular file stays where it is, and
\* the device is out of reach.
probed ==
  /\ node = "none"
  /\ node' = "device"
  /\ UNCHANGED <<accepted, returned, holder, thread, chunk, reply, delivered>>

\* The firmware is stopped. The thread that has the device open is left with a
\* file of nothing; the histories begin again with the next device.
removed ==
  /\ node = "device"
  /\ node' = "none"
  /\ accepted' = << >>
  /\ returned' = << >>
  /\ holder' = "nobody"
  /\ thread' = [t \in Threads |->
                  IF t = holder THEN [thread[t] EXCEPT !.pc = "gone"] ELSE thread[t]]
  /\ chunk' = << >>
  /\ reply' = << >>
  /\ delivered' = << >>

\* The PRU sends a message of this shape, and it is not dropped.
arrives(shape) ==
  /\ node = "device"
  /\ Len(accepted) < MaxMsgs
  /\ accepted' = Append(accepted, [i \in DOMAIN shape |-> [id |-> Len(accepted) + 1, nl |-> shape[i]]])
  /\ Dev!Put
  /\ UNCHANGED <<node, holder, thread, chunk, reply, delivered>>

----------------------------------------------------------------------------
(* Every command: arguments, device node, open.                            *)

Goto(t, from, to) ==
  /\ thread[t].pc = from
  /\ thread' = [thread EXCEPT ![t].pc = to]

Answers(t, from, r) ==
  /\ thread[t].pc = from
  /\ thread' = [thread EXCEPT ![t].pc = "idle", ![t].ret = r]

\* The file is closed, and with it go the lines that were read ahead.
Closes(t, r) ==
  /\ thread' = [thread EXCEPT ![t].pc = "idle", ![t].ret = r]
  /\ holder' = "nobody"
  /\ chunk' = << >>

Rest == <<device, chunk, reply, delivered>>
IsSend(t) == thread[t].cmd \in {"SENDMSG_s", "SENDMSG_r"}
Opened == [c \in Commands |->
  IF c = "GETMSG" THEN "select" ELSE IF c \in {"SENDMSG_s", "SENDMSG_r"} THEN "write" ELSE "wait"]

handle(t, cmd) ==
  /\ thread[t].pc = "idle"
  /\ thread' = [thread EXCEPT ![t] = [NoCommand EXCEPT !.cmd = cmd, !.pc = "args"]]
  /\ UNCHANGED <<Rest, holder>>

\* The arguments are well formed and name one of RPMSG_CHANNELS, or not.
args_accepted(t) == Goto(t, "args", "node") /\ UNCHANGED <<Rest, holder>>
args_refused(t) ==
  /\ \E err \in {"EINVAL", "EPERM"} : Answers(t, "args", err)
  /\ UNCHANGED <<Rest, holder>>

\* os.path.exists tells no file from a device.
node_there(t) == node # "none" /\ Goto(t, "node", "open") /\ UNCHANGED <<Rest, holder>>

\* GETMSG and EVENTWAIT fail at once, SENDMSG after the node has been missed
\* three times a second apart.
node_missing(t) ==
  /\ node = "none"
  /\ ~IsSend(t) \/ thread[t].slept = TimeToWait - 1
  /\ Answers(t, "node", "ENODEV")
  /\ UNCHANGED <<Rest, holder>>

node_sleep(t) ==
  /\ node = "none"
  /\ IsSend(t)
  /\ thread[t].pc = "node"
  /\ thread[t].slept < TimeToWait - 1
  /\ thread' = [thread EXCEPT ![t].slept = @ + 1]
  /\ UNCHANGED <<Rest, holder>>

open_denied(t) ==
  /\ node = "device"
  /\ holder # "nobody"
  /\ Answers(t, "open", "EACCES")
  /\ UNCHANGED <<Rest, holder>>

open_ok(t) ==
  /\ node = "device"
  /\ holder = "nobody"
  /\ Goto(t, "open", Opened[thread[t].cmd])
  /\ holder' = t
  /\ reply' = << >>
  /\ UNCHANGED <<device, chunk, delivered>>

\* The device has gone since the look at the node: mode 'r' finds no file.
open_missing(t) ==
  /\ node = "none"
  /\ ~IsSend(t)
  /\ Answers(t, "open", "ENOENT")
  /\ UNCHANGED <<Rest, holder>>

\* ... and the modes 'w' and 'wb' make one.
open_creates(t) ==
  /\ node = "none"
  /\ IsSend(t)
  /\ Goto(t, "open", "file")
  /\ node' = "file"
  /\ UNCHANGED <<accepted, returned, chunk, reply, delivered, holder>>

\* A regular file admits everybody.
open_file(t) ==
  /\ node = "file"
  /\ Goto(t, "open", "file")
  /\ UNCHANGED <<Rest, holder>>

\* It takes what is written to it, and is readable for select().
file_ends(t) ==
  /\ thread[t].cmd # "GETMSG"
  /\ Answers(t, "file", IF thread[t].cmd = "SENDMSG_r" THEN "None" ELSE "0")
  /\ UNCHANGED <<Rest, holder>>

\* So get_msg's loop goes on at the end of the file, where readline() gives ''.
file_loops(t) ==
  /\ thread[t].cmd = "GETMSG"
  /\ thread[t].pc = "file"
  /\ UNCHANGED vars

\* What a command may answer whose device was removed under it.
Endings == [c \in Commands |->
  CASE c = "GETMSG" -> {"lines", "empty", "EIO"}
    [] c = "SENDMSG_s" -> {"0", "EIO"}
    [] c = "SENDMSG_r" -> {"None", "EIO"}
    [] c = "EVENTWAIT" -> {"0", "EIO"}
    [] c = "EVENTWAIT_timeout" -> {"0", "ETIME", "EIO"}]

gone_ends(t) ==
  /\ \E r \in Endings[thread[t].cmd] : Answers(t, "gone", r)
  /\ UNCHANGED <<Rest, holder>>

----------------------------------------------------------------------------
(* get_msg: as long as the device is readable, append what readline()      *)
(* returns.                                                                *)

HasLine == \E i \in DOMAIN chunk : chunk[i].nl
LineEnd == CHOOSE i \in DOMAIN chunk : chunk[i].nl /\ \A j \in 1 .. i - 1 : ~chunk[j].nl

\* Mutant: no select before the first readline().
select_skipped(t) ==
  /\ Readable \/ reply = << >>
  /\ Goto(t, "select", "readline")
  /\ UNCHANGED <<Rest, holder>>

\* select() with timeout 0 looks at the device, not at what is in the chunk.
select_ready(t) ==
  /\ Readable
  /\ Goto(t, "select", "readline")
  /\ UNCHANGED <<Rest, holder>>

select_empty(t) ==
  /\ thread[t].pc = "select"
  /\ ~Readable
  /\ Closes(t, IF reply = << >> THEN "empty" ELSE "lines")
  /\ delivered' = delivered \o reply
  /\ UNCHANGED <<device, reply>>

\* The wrapper fills its chunk by one read(), which blocks on an empty device.
readline_read(t) ==
  /\ thread[t].pc = "readline"
  /\ ~HasLine
  /\ Dev!Get
  /\ chunk' = chunk \o Last(returned')
  /\ UNCHANGED <<node, holder, thread, reply, delivered>>

\* Mutant: the chunk is not advanced past the line.
line_kept(t) ==
  /\ HasLine
  /\ Goto(t, "readline", "select")
  /\ reply' = reply \o SubSeq(chunk, 1, LineEnd)
  /\ UNCHANGED <<device, holder, chunk, delivered>>

readline_line(t) ==
  /\ HasLine
  /\ Goto(t, "readline", "select")
  /\ reply' = reply \o SubSeq(chunk, 1, LineEnd)
  /\ chunk' = SubSeq(chunk, LineEnd + 1, Len(chunk))
  /\ UNCHANGED <<device, holder, delivered>>

----------------------------------------------------------------------------
(* send_msg and event_wait.                                                *)

\* The message goes out when the file is closed.  In mode `r' send_msg ends
\* without a return statement: the client gets the string "None".
write(t) ==
  /\ thread[t].pc = "write"
  /\ Closes(t, IF thread[t].cmd = "SENDMSG_s" THEN "0" ELSE "None")
  /\ UNCHANGED <<device, reply, delivered>>

\* The driver refuses a message that is too long, or rpmsg_send() fails.
write_fails(t) ==
  /\ thread[t].pc = "write"
  /\ Closes(t, "EIO")
  /\ UNCHANGED <<device, reply, delivered>>

\* Mutant: an event is reported when the wait is over for any reason.
event_any(t) ==
  /\ thread[t].pc = "wait"
  /\ Closes(t, "0")
  /\ UNCHANGED <<device, reply, delivered>>

\* Mutant: only a wait with a timeout looks for the event.
event_timed(t) ==
  /\ thread[t].pc = "wait"
  /\ thread[t].cmd = "EVENTWAIT_timeout"
  /\ Readable
  /\ Closes(t, "0")
  /\ UNCHANGED <<device, reply, delivered>>

event_comes(t) ==
  /\ thread[t].pc = "wait"
  /\ Readable
  /\ Closes(t, "0")
  /\ UNCHANGED <<device, reply, delivered>>

event_timeout(t) ==
  /\ thread[t].pc = "wait"
  /\ thread[t].cmd = "EVENTWAIT_timeout"
  /\ ~Readable
  /\ Closes(t, "ETIME")
  /\ UNCHANGED <<device, reply, delivered>>

----------------------------------------------------------------------------
serve(t) ==
  \/ args_accepted(t)
  \/ args_refused(t)
  \/ node_there(t)
  \/ node_missing(t)
  \/ node_sleep(t)
  \/ open_denied(t)
  \/ open_ok(t)
  \/ open_missing(t)
  \/ open_creates(t)
  \/ open_file(t)
  \/ file_ends(t)
  \/ file_loops(t)
  \/ select_ready(t)
  \/ select_empty(t)
  \/ readline_read(t)
  \/ readline_line(t)
  \/ write(t)
  \/ write_fails(t)
  \/ event_comes(t)

Next ==
  \/ probed
  \/ removed
  \/ \E shape \in Shapes : arrives(shape)
  \/ \E t \in Threads, cmd \in Commands : handle(t, cmd)
  \/ \E t \in Threads : serve(t) \/ event_timeout(t) \/ gone_ends(t)

Spec == Init /\ [][Next]_vars

\* Handler threads run; no client need send a command, no message need come, and
\* nobody knows what a read or a wait on freed memory comes to.
FairSpec == Spec /\ \A t \in Threads : WF_vars(serve(t))

----------------------------------------------------------------------------
\* The shape of the state.
TypeOK ==
  /\ node \in {"none", "device", "file"}
  /\ accepted \in Seq(Seq(Lines))
  /\ returned \in Seq(Seq(Lines))
  /\ holder \in Threads \union {"nobody"}
  /\ thread \in [Threads -> [cmd : Commands, pc : Stages, slept : 0 .. TimeToWait - 1, ret : Replies]]
  /\ chunk \in Seq(Lines)
  /\ reply \in Seq(Lines)
  /\ delivered \in Seq(Lines)

\* The lines of the messages that left the device, in order.
Read == FlattenSeq(returned)

\* No line that left the device is lost, repeated or reordered, whichever
\* threads read them: as long as the device is there, all were sent to a client,
\* or are with the holder. It takes messages of one line each.
NothingLost ==
  Read = delivered \o (IF \E t \in Threads : thread[t].pc \in {"select", "readline"}
                        THEN reply \o chunk ELSE << >>)

\* get_msg is "Non-Blocking": a GETMSG is answered, unless its device goes away
\* while it reads or a regular file has taken the device's place.
GetMsgReturns ==
  \A t \in Threads :
    (thread[t].cmd = "GETMSG" /\ thread[t].pc # "idle") ~> thread[t].pc \in {"idle", "gone", "file"}

\* A client that waits for an event is told of a message that has come, while
\* the device is there.
EventReported ==
  \A t \in Threads : (thread[t].pc = "wait" /\ Readable) ~> thread[t].pc \in {"idle", "gone"}

\* When a wait on the device answers 0 there is a message, and it stays until
\* some thread opens the device again: nobody can have taken it behind the
\* waiter's back.
EventIsTrue ==
  [][\A t \in Threads : (thread[t].pc = "wait" /\ thread'[t].ret = "0") => Readable']_vars

\* A SENDMSG that answers 0 has not written to a regular file: send_msg "Sends a
\* message on the specified rpmsg channel" (157), and pruss.cpp:407 returns "0 if
\* the message is written to the RPMsg channel successfully". It does not hold:
\* see open_creates.
SentOnChannel ==
  [][\A t \in Threads :
       thread[t].cmd = "SENDMSG_s" /\ thread[t].pc = "file" => thread'[t].ret # "0"]_vars
=============================================================================
