----------------------------- MODULE PwmFirmware -----------------------------
(***************************************************************************)
(* The four examples that make pulses of numbers from a user program       *)
(* (examples/firmware_examples):                                           *)
(*   "pwm"          example 3, one channel, two words: on and total;       *)
(*   "analog"       example 4, one channel, a wave of n samples;           *)
(*   "multichannel" example 5, on and off of every channel;                *)
(*   "waveform"     example 9, a wave for every channel, interleaved.      *)
(* The user program sends its numbers one by one to PRU1 through the       *)
(* daemon; PRU1 stores them in the shared RAM; the assembly of PRU0 reads  *)
(* them there and toggles the pins.  Programs are started one after        *)
(* another, are killed, and leave the PRUs running when they end.          *)
(*                                                                         *)
(* PRU0 is modelled a pulse at a time: a pair of the turns its loops make  *)
(* with the pin high and low.  Sends succeed where the firmware has the    *)
(* channel the program sends to (example 7 treats other failures).         *)
(***************************************************************************)
EXTENDS Naturals, SequencesExt

CONSTANTS
  Channels,   \* 1 .. the number of pins of examples 5 and 9
  Jobs,       \* Jobs[e]: what a user may ask of example e, channel by channel
  PULSES,     \* the constant pulses of a sample are counted to (R12, R15)
  TERM,       \* ends a wave of example 9
  Word,       \* turns a loop makes before its 32-bit counter wraps
  Top,        \* size of the shared RAM
  Prompt,     \* PRU1 stores a number before the next command comes
  None

Examples == DOMAIN Jobs
NCH == Cardinality(Channels)

ASSUME PwmAssumption ==
  /\ Channels = 1 .. NCH
  /\ NCH > 0
  /\ Examples \subseteq {"pwm", "analog", "multichannel", "waveform"}
  /\ PULSES \in Nat \ {0, 1}
  /\ TERM \in Nat /\ Word \in Nat /\ Top \in Nat
  /\ Prompt \in BOOLEAN

VARIABLES
  ex,       \* the example in use
  job,      \* what its program was asked for
  todo,     \* the steps the program has left
  p1,       \* PRU1 is enabled
  inbox,    \* messages PRU1 has not received
  i,        \* PRU1's variable i
  sram,     \* the shared RAM: bytes, words in example 3; the word at the start
            \* of example 9 is at 0
  p0,       \* "off", "setup", "fetch", "play": PRU0
  ptr,      \* ptr[c]: the offset register of channel c
  k,        \* R11 of example 4, the samples taken
  width,    \* width[c]: the counts in hand, <<high, low>>
  cnt,      \* the pulse counter
  out       \* out[c]: the last pulse on channel c's pin

arm  == <<ex, job, todo>>
pru1 == <<p1, inbox, i, sram>>
pru0 == <<p0, ptr, k, width, cnt, out>>
vars == <<arm, pru1, pru0>>

-----------------------------------------------------------------------------
(* The user programs                                                       *)

Longest(j) == CHOOSE n \in {Len(j[c]) : c \in Channels} :
                \A c \in Channels : Len(j[c]) <= n

\* Row r of the interleaved waves; a wave that is over gives TERM.
Row(j, r) == [c \in Channels |-> IF r <= Len(j[c]) THEN j[c][r] ELSE TERM]

\* The numbers in the order they are sent.
Numbers(e, j) ==
  CASE e = "pwm" -> j[1]
    [] e = "analog" -> <<1, Len(j[1])>> \o j[1]
    [] e = "multichannel" -> FlattenSeq([c \in Channels |-> j[c]])
    [] e = "waveform" ->
         <<NCH * Longest(j)>> \o FlattenSeq([r \in 1 .. Longest(j) + 1 |-> Row(j, r)])

Send(v) == <<"send", v>>
Sends(e, j) == [n \in DOMAIN Numbers(e, j) |-> Send(Numbers(e, j)[n])]

\* main() of the program: examples 4 and 9 stop PRU1 before they start PRU0.
Program(e, j) ==
  <<<<"p1.enable">>>> \o Sends(e, j)
    \o (IF e \in {"analog", "waveform"} THEN <<<<"p1.disable">>>> ELSE << >>)
    \o <<<<"p0.enable">>>>

Silent == [c \in Channels |-> None]
AllZero == [c \in Channels |-> 0]

Init ==
  /\ ex \in Examples
  /\ job = None
  /\ todo = << >>
  /\ p1 = FALSE
  /\ inbox = << >>
  /\ i = 0
  /\ sram = [o \in 0 .. Top |-> 0]
  /\ p0 = "off"
  /\ ptr = AllZero
  /\ k = 0
  /\ width = [c \in Channels |-> <<0, 0>>]
  /\ cnt = 0
  /\ out = Silent

\* A program starts, whether or not the last one was through: the constructor
\* of PRUSS stops both PRUs. The shared RAM keeps what it holds; the registers
\* of PRU0 do too, but are all set before they are read (cleared here, to have
\* fewer states).
main(j) ==
  /\ job' = j
  /\ todo' = Program(ex, j)
  /\ p1' = FALSE
  /\ inbox' = << >>
  /\ p0' = "off"
  /\ ptr' = AllZero
  /\ k' = 0
  /\ width' = [c \in Channels |-> <<0, 0>>]
  /\ cnt' = 0
  /\ out' = Silent
  /\ UNCHANGED <<ex, i, sram>>

\* The program is killed. (One that returns leaves the PRUs alone as well: it
\* used copies of the handles.)
killed ==
  /\ todo # << >>
  /\ todo' = << >>
  /\ UNCHANGED <<ex, job, pru1, pru0>>

Does(step) ==
  /\ todo # << >>
  /\ Prompt => inbox = << >>
  /\ Head(todo)[1] = step
  /\ todo' = Tail(todo)
  /\ UNCHANGED <<ex, job>>

p1_enable ==
  /\ Does("p1.enable")
  /\ p1' = TRUE
  /\ i' = 0
  /\ UNCHANGED <<inbox, sram, pru0>>

\* The program sends to /dev/pruss_api_pru1. Example 5's PRU1 announces the
\* channel "rpmsg-pru" on port 31, which the driver does not bind: there is no
\* such device, SENDMSG answers -ENODEV, and the program does not look at it.
HasChannel == ex # "multichannel"

sendMsg_raw ==
  /\ Does("send")
  /\ inbox' = IF HasChannel THEN Append(inbox, Head(todo)[2]) ELSE inbox
  /\ UNCHANGED <<p1, i, sram, pru0>>

p1_disable ==
  /\ Does("p1.disable")
  /\ p1' = FALSE
  /\ inbox' = << >>
  /\ UNCHANGED <<i, sram, pru0>>

p0_enable ==
  /\ Does("p0.enable")
  /\ p0' = "setup"
  /\ out' = Silent
  /\ UNCHANGED <<pru1, ptr, k, width, cnt>>

-----------------------------------------------------------------------------
(* PRU1: main() of PRU1/main.c                                             *)

\* In example 9 the first number is a word, and the rest are bytes.
NextOffset(o) == IF ex = "waveform" /\ o = 0 THEN 4 ELSE o + 1

pru1_stores ==
  /\ p1
  /\ inbox # << >>
  /\ sram' = [sram EXCEPT ![i] = Head(inbox)]
  /\ i' = NextOffset(i)
  /\ inbox' = Tail(inbox)
  /\ UNCHANGED <<arm, p1, pru0>>

-----------------------------------------------------------------------------
(* PRU0                                                                    *)

\* Turns of a loop that adds 1 to a counter at a and ends when it equals b.
Turns(a, b) == IF a < b THEN b - a ELSE Word - (a - b)

\* Sample values are forced into 1 .. 99.
Clamp(v) == IF v <= 1 THEN 1 ELSE IF v >= 99 THEN 99 ELSE v

Pulse(v) == <<Clamp(v), 100 - Clamp(v)>>

\* Mutant: example 3 reads its words in the wrong order.
SetupWidthSwapped(c) ==
  CASE ex = "pwm" -> <<Turns(0, sram[1]), Turns(sram[1], sram[0])>>
    [] ex = "multichannel" -> <<sram[c - 1], sram[NCH + c - 1] + 1>>
    [] OTHER -> width[c]

\* The counts that are read once. Example 5 keeps the pin low for one more round
\* of its loop, in which it loads the counters again.
SetupWidth(c) ==
  CASE ex = "pwm" -> <<Turns(0, sram[0]), Turns(sram[0], sram[1])>>
    [] ex = "multichannel" -> <<sram[c - 1], sram[NCH + c - 1] + 1>>
    [] OTHER -> width[c]

\* start, setup.
pru0_setup ==
  /\ p0 = "setup"
  /\ width' = [c \in Channels |-> SetupWidth(c)]
  /\ ptr' = [c \in Channels |-> IF ex = "waveform" THEN 3 + c ELSE 1]
  /\ k' = 1
  /\ p0' = IF ex \in {"analog", "waveform"} THEN "fetch" ELSE "play"
  /\ UNCHANGED <<arm, pru1, cnt, out>>

\* Example 4: R11 counts the samples up to the number at offset 1, R12 is the
\* offset of the last one taken.
fetch_analog ==
  /\ p0 = "fetch"
  /\ ex = "analog"
  /\ LET more == k < sram[1]
         at   == (IF more THEN ptr[1] ELSE 1) + 1 IN
       /\ k' = (IF more THEN k ELSE 1) + 1
       /\ ptr' = [ptr EXCEPT ![1] = at]
       /\ width' = [width EXCEPT ![1] = Pulse(sram[at])]
  /\ cnt' = 1
  /\ p0' = "play"
  /\ UNCHANGED <<arm, pru1, out>>

\* Mutant: the terminator is played.
AtEndNever(c) == FALSE
AtEnd(c) == sram[ptr[c]] = TERM

\* Example 9: every channel takes its next sample, or its first when it finds
\* TERM; the offset then stays on the first.
fetch_waveform ==
  /\ p0 = "fetch"
  /\ ex = "waveform"
  /\ ptr' = [c \in Channels |-> IF AtEnd(c) THEN 3 + c ELSE ptr[c] + NCH]
  /\ width' = [c \in Channels |-> Pulse(sram[IF AtEnd(c) THEN 3 + c ELSE ptr[c]])]
  /\ cnt' = 1
  /\ p0' = "play"
  /\ UNCHANGED <<arm, pru1, k, out>>

\* The channels' pulses follow each other within a round; examples 4 and 9 count
\* the rounds, examples 3 and 5 go on for ever.
pulse ==
  /\ p0 = "play"
  /\ out' = [c \in Channels |->
               IF c = 1 \/ ex \in {"multichannel", "waveform"} THEN width[c] ELSE None]
  /\ IF ex \in {"analog", "waveform"}
       THEN /\ cnt' = cnt + 1
            /\ p0' = IF cnt + 1 = PULSES THEN "fetch" ELSE "play"
       ELSE UNCHANGED <<cnt, p0>>
  /\ UNCHANGED <<arm, pru1, ptr, k, width>>

-----------------------------------------------------------------------------

PRU0 == pru0_setup \/ fetch_analog \/ fetch_waveform \/ pulse

Next ==
  \/ \E j \in Jobs[ex] : main(j)
  \/ killed \/ p1_enable \/ sendMsg_raw \/ p1_disable \/ p0_enable
  \/ pru1_stores
  \/ PRU0

\* PRUs that are enabled run. Nothing makes a user start a program.
FairSpec == Init /\ [][Next]_vars /\ WF_vars(pru1_stores) /\ WF_vars(PRU0)

Spec == Init /\ [][Next]_vars

-----------------------------------------------------------------------------
(* Properties                                                              *)

\* The pulses that channel c is asked for, in order (examples 3, 4 and 9).
Asked(c) ==
  CASE ex = "pwm" /\ c = 1 -> <<<<job[1][1], job[1][2] - job[1][1]>>>>
    [] ex = "analog" /\ c = 1 -> [n \in DOMAIN job[1] |-> Pulse(job[1][n])]
    [] ex = "waveform" -> [n \in DOMAIN job[c] |-> Pulse(job[c][n])]
    [] OTHER -> << >>

\* Channel c changes to the next pulse it was asked for, or to the first one: at
\* the start, and after the pulses in ends.
Advances(c, ends) ==
  out'[c] \in {None, out[c]} \/
    \E n \in DOMAIN Asked(c) :
      /\ out'[c] = Asked(c)[n]
      /\ out[c] \in IF n = 1 THEN {None} \union ends ELSE {Asked(c)[n - 1]}

\* A channel begins with the first pulse it was asked for and goes from one to
\* the next, from the last to the first again: no byte of a number's header, of
\* another channel or of what an earlier program left in the shared RAM is ever
\* played (userspace.cpp, PRU1/main.c and the assembly of examples 3, 4 and 9
\* agree on the offsets). Example 4 may go back before the last: see WholeWave.
SamplesInOrder ==
  [][\A c \in Channels :
       /\ ex \in {"pwm", "waveform"} => Advances(c, {Last(Asked(c))})
       /\ ex = "analog" => Advances(c, Range(Asked(c)))]_vars

\* Example 4 goes back to the first sample after the last: "Check if all samples
\* have been worked on. If yes, then go back to 1st sample" (single-channel-
\* waveform.asm:22). It does not hold: R11 counts the sample that comes next, and
\* the test is R11 < R7, so the last sample of a wave is never played.
WholeWave ==
  [][ex = "analog" => Advances(1, {Last(Asked(1))})]_vars

Longer == {Len(j[c]) : j \in UNION {Jobs[e] : e \in Examples}, c \in Channels}

\* While PRU0 runs examples 3 and 9, every sample of every channel comes again and
\* again: a fetch that stays on a sample or loses its end never gets there.
EverySamplePlayed ==
  \A c \in Channels, n \in 1 .. Max(Longer) :
    ex \in {"pwm", "waveform"} /\ p0 # "off" /\ n \in DOMAIN Asked(c)
      ~> \/ p0 = "off"
         \/ n \in DOMAIN Asked(c) /\ out[c] = Asked(c)[n]

\* Example 5: every channel gets the on and off counts its user gave (one more
\* turn with the pin low). The assembly reads the "on_samples of channel 1" and
\* the others "from PRU SRAM" (PRU0/pru-asm-pwm.asm:47-52). It does not hold:
\* PRU1 has stored none of them there (see HasChannel).
MultichannelDuty ==
  ex = "multichannel" =>
    \A c \in Channels : out[c] # None => out[c] = <<job[c][1], job[c][2] + 1>>
=============================================================================
