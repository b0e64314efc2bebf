------------------------ MODULE StepperControlProofs ------------------------
(***************************************************************************)
(* The stepper driver, proved for registers of any width, any set of moves *)
(* that fit them, and any number of moves, kills and restarts.             *)
(*                                                                         *)
(* The argument goes by where the program is: the step k of the call q     *)
(* that it does next, which the proofs carry along as a witness.           *)
(***************************************************************************)
EXTENDS StepperControl, ModLemmas

----------------------------------------------------------------------------
(* The calls as sequences of steps.                                        *)

Names == {"move", "ctor", "exit", "low", "high"}

Programs ==
  [q \in Names |->
    CASE q = "move" -> Move
      [] q = "ctor" -> <<"p0.disable", "p1.disable", "default_pins">>
      [] q = "exit" -> <<"SLP_low", "p0.disable", "p1.disable", "exit">>
      [] q = "low"  -> <<"SLP_low">>
      [] q = "high" -> <<"SLP_high">>]

\* What is left of call q from step k on.
From(q, k) == SubSeq(Programs[q], k, Len(Programs[q]))

----------------------------------------------------------------------------
(* The invariant.                                                          *)

\* No SENDMSG has failed, and PRU1 keeps up.
Undisturbed == Prompt /\ ~failed

\* PRU0 has been started and has not finished.
Running == pru0 \in {"config", "load", "pulse", "trigger"}

\* The n-th number of the move.
Asking(n) == IF n = 0 THEN cmd.on ELSE IF n = 1 THEN cmd.total ELSE cmd.pulses

\* What PRU1 has received and what is on its way is at most three numbers; it
\* waits for PRU0 after the third, and has told nobody before.
CountInv ==
  /\ i + Len(inbox) <= 3
  /\ node <=> pru1 \in {"receive", "wait"}
  /\ ~node => i = 0 /\ inbox = << >>
  /\ pru1 = "wait" => i = 3 /\ outbox = 0
  /\ outbox = 1 => i = 3

\* The numbers that have been sent before step k of a move.
SentBefore(k) == IF k <= 5 THEN 0 ELSE k - 5

\* They are the numbers asked for, in the shared RAM or on their way.
Loading(k) ==
  /\ i + Len(inbox) = SentBefore(k)
  /\ \A n \in 0 .. i - 1 : sram[n] = Asking(n)
  /\ \A n \in 1 .. Len(inbox) : inbox[n] = Asking(i + n - 1)
  /\ pru1 = "receive" => i < 3

\* PRU0 works only while its program waits for it, or has been killed and the
\* next one has not stopped it yet.
MoveAt(k) ==
  /\ k >= 2 => pins = cmd.pins
  /\ k <= 8 => made = << >>
  /\ k \in 3 .. 8 => pru0 = "off"
  /\ k \in 4 .. 8 => Loading(k)
  /\ k = 9 => pru0 # "off" /\ (pru0 = "halt" /\ awake => Len(made) = cmd.pulses)

At(q, k) ==
  /\ q = "move" /\ k \in 4 .. 8 => i + Len(inbox) <= SentBefore(k)
  /\ Undisturbed =>
       /\ Running => (q = "ctor" /\ k = 1) \/ (q = "move" /\ k = 9)
       /\ q = "move" => MoveAt(k)

Calm == Undisturbed => ~Running

PlaceInv ==
  \/ todo = << >> /\ (alive => Calm)
  \/ alive /\ \E q \in Names : \E k \in 1 .. Len(Programs[q]) : todo = From(q, k) /\ At(q, k)

\* What the motor got is a part of the move.
MadeInv ==
  /\ Len(made) <= cmd.pulses
  /\ \A p \in 1 .. Len(made) :
       made[p] = [high |-> cmd.on, low |-> cmd.total - cmd.on, pins |-> cmd.pins]

PulseInv ==
  Undisturbed =>
    /\ MadeInv
    /\ Running => pru1 = "wait"
    /\ event => pru0 = "halt" /\ pru1 = "wait"
    /\ pru0 \in {"config", "load"} =>
         made = << >> /\ pins = cmd.pins /\ \A n \in Cells : sram[n] = Asking(n)
    /\ pru0 = "pulse" =>
         /\ pins = cmd.pins
         /\ \A n \in Cells : R[n] = Asking(n)
         /\ R10 < cmd.pulses
         /\ Len(made) <= R10
         /\ awake => Len(made) = R10
    /\ pru0 = "trigger" /\ awake => Len(made) = cmd.pulses

StepperInv == TypeOK /\ CountInv /\ PlaceInv /\ PulseInv

----------------------------------------------------------------------------
(* Where the program is.                                                   *)

LEMMA ProgramsAre ==
  /\ Programs["move"] = Move
  /\ Programs["ctor"] = <<"p0.disable", "p1.disable", "default_pins">>
  /\ Programs["exit"] = <<"SLP_low", "p0.disable", "p1.disable", "exit">>
  /\ Programs["low"] = <<"SLP_low">>
  /\ Programs["high"] = <<"SLP_high">>
  BY DEF Programs, Names

LEMMA Lengths ==
  /\ Len(Programs["move"]) = 9
  /\ Len(Programs["ctor"]) = 3
  /\ Len(Programs["exit"]) = 4
  /\ Len(Programs["low"]) = 1
  /\ Len(Programs["high"]) = 1
  /\ \A q \in Names : Len(Programs[q]) \in Nat \ {0}
<1>1. Len(Move) = 9
  BY DEF Move
<1>2. Len(<<"p0.disable", "p1.disable", "default_pins">>) = 3
  OBVIOUS
<1>3. Len(<<"SLP_low", "p0.disable", "p1.disable", "exit">>) = 4
  OBVIOUS
<1>4. Len(<<"SLP_low">>) = 1 /\ Len(<<"SLP_high">>) = 1
  OBVIOUS
<1>5. /\ Len(Programs["move"]) = 9
      /\ Len(Programs["ctor"]) = 3
      /\ Len(Programs["exit"]) = 4
      /\ Len(Programs["low"]) = 1
      /\ Len(Programs["high"]) = 1
  BY <1>1, <1>2, <1>3, <1>4, ProgramsAre, Zenon
<1>6. QED
  BY <1>5 DEF Names

LEMMA ProgramTypes == \A q \in Names : Programs[q] \in Seq(StepNames)
<1>1. Move \in Seq(StepNames)
  BY DEF Move, StepNames
<1>2. <<"p0.disable", "p1.disable", "default_pins">> \in Seq(StepNames)
  BY DEF StepNames
<1>3. <<"SLP_low", "p0.disable", "p1.disable", "exit">> \in Seq(StepNames)
  BY DEF StepNames
<1>4. <<"SLP_low">> \in Seq(StepNames) /\ <<"SLP_high">> \in Seq(StepNames)
  BY DEF StepNames
<1>5. QED
  BY <1>1, <1>2, <1>3, <1>4, ProgramsAre, Zenon DEF Names

LEMMA FromIs ==
  ASSUME NEW q \in Names, NEW k \in 1 .. Len(Programs[q])
  PROVE  /\ From(q, k) # << >>
         /\ From(q, k) \in Seq(StepNames)
         /\ Head(From(q, k)) = Programs[q][k]
         /\ Tail(From(q, k)) = From(q, k + 1)
         /\ From(q, 1) = Programs[q]
         /\ From(q, Len(Programs[q]) + 1) = << >>
<1> DEFINE s == Programs[q]
<1>1. s \in Seq(StepNames)
  BY ProgramTypes
<1> HIDE DEF s
<1>2. k \in 1 .. Len(s)
  BY DEF s
<1>3. SubSeq(s, k, Len(s)) # << >> /\ SubSeq(s, k, Len(s)) \in Seq(StepNames)
  <2>1. SubSeq(s, k, Len(s)) \in Seq(StepNames)
    BY <1>1, <1>2
  <2>2. Len(SubSeq(s, k, Len(s))) = Len(s) - k + 1
    BY <1>1, <1>2
  <2>3. Len(s) \in Nat /\ Len(s) - k + 1 # 0 /\ Len(<< >>) = 0
    BY <1>1, <1>2
  <2>4. QED
    BY <2>1, <2>2, <2>3
<1>4. Head(SubSeq(s, k, Len(s))) = s[k]
  BY <1>1, <1>2
<1>5. Tail(SubSeq(s, k, Len(s))) = SubSeq(s, k + 1, Len(s))
  BY <1>1, <1>2
<1>6. SubSeq(s, 1, Len(s)) = s
  BY <1>1
<1>7. SubSeq(s, Len(s) + 1, Len(s)) = << >>
  BY <1>1
<1>8. QED
  BY <1>3, <1>4, <1>5, <1>6, <1>7 DEF s, From

\* Where each step stands.
Stands(x, q, k) ==
    /\ x = "set_pins" => q = "move" /\ k = 1
    /\ x = "p0.disable" =>
         (q = "move" /\ k = 2) \/ (q = "ctor" /\ k = 1) \/ (q = "exit" /\ k = 2)
    /\ x = "p1.disable" =>
         (q = "move" /\ k = 3) \/ (q = "ctor" /\ k = 2) \/ (q = "exit" /\ k = 3)
    /\ x = "p1.enable" => q = "move" /\ k = 4
    /\ x = "send_on" => q = "move" /\ k = 5
    /\ x = "send_total" => q = "move" /\ k = 6
    /\ x = "send_pulses" => q = "move" /\ k = 7
    /\ x = "p0.enable" => q = "move" /\ k = 8
    /\ x = "poll" => q = "move" /\ k = 9
    /\ x = "default_pins" => q = "ctor" /\ k = 3
    /\ x = "SLP_low" => (q = "exit" /\ k = 1) \/ (q = "low" /\ k = 1)
    /\ x = "SLP_high" => q = "high" /\ k = 1

LEMMA StepStands ==
  ASSUME NEW q \in Names, NEW k \in 1 .. Len(Programs[q])
  PROVE  Stands(Programs[q][k], q, k)
<1>1. ASSUME q = "move" PROVE Stands(Programs[q][k], q, k)
  <2>1. k = 1 \/ k = 2 \/ k = 3 \/ k = 4 \/ k = 5 \/ k = 6 \/ k = 7 \/ k = 8 \/ k = 9
    BY <1>1, Lengths
  <2>2. Stands(Move[k], q, k)
    <3>1. CASE k = 1
      BY <1>1, <3>1 DEF Move, Stands
    <3>2. CASE k = 2
      BY <1>1, <3>2 DEF Move, Stands
    <3>3. CASE k = 3
      BY <1>1, <3>3 DEF Move, Stands
    <3>4. CASE k = 4
      BY <1>1, <3>4 DEF Move, Stands
    <3>5. CASE k = 5
      BY <1>1, <3>5 DEF Move, Stands
    <3>6. CASE k = 6
      BY <1>1, <3>6 DEF Move, Stands
    <3>7. CASE k = 7
      BY <1>1, <3>7 DEF Move, Stands
    <3>8. CASE k = 8
      BY <1>1, <3>8 DEF Move, Stands
    <3>9. CASE k = 9
      BY <1>1, <3>9 DEF Move, Stands
    <3>10. QED
      BY <2>1, <3>1, <3>2, <3>3, <3>4, <3>5, <3>6, <3>7, <3>8, <3>9, Zenon
  <2>3. QED
    BY <1>1, <2>2, ProgramsAre, Zenon
<1>2. ASSUME q = "ctor" PROVE Stands(Programs[q][k], q, k)
  <2>1. k = 1 \/ k = 2 \/ k = 3
    BY <1>2, Lengths
  <2>2. Stands(<<"p0.disable", "p1.disable", "default_pins">>[k], q, k)
    <3>1. CASE k = 1
      BY <1>2, <3>1 DEF Stands
    <3>2. CASE k = 2
      BY <1>2, <3>2 DEF Stands
    <3>3. CASE k = 3
      BY <1>2, <3>3 DEF Stands
    <3>4. QED
      BY <2>1, <3>1, <3>2, <3>3, Zenon
  <2>3. QED
    BY <1>2, <2>2, ProgramsAre, Zenon
<1>3. ASSUME q = "exit" PROVE Stands(Programs[q][k], q, k)
  <2>1. k = 1 \/ k = 2 \/ k = 3 \/ k = 4
    BY <1>3, Lengths
  <2>2. Stands(<<"SLP_low", "p0.disable", "p1.disable", "exit">>[k], q, k)
    <3>1. CASE k = 1
      BY <1>3, <3>1 DEF Stands
    <3>2. CASE k = 2
      BY <1>3, <3>2 DEF Stands
    <3>3. CASE k = 3
      BY <1>3, <3>3 DEF Stands
    <3>4. CASE k = 4
      BY <1>3, <3>4 DEF Stands
    <3>5. QED
      BY <2>1, <3>1, <3>2, <3>3, <3>4, Zenon
  <2>3. QED
    BY <1>3, <2>2, ProgramsAre, Zenon
<1>4. ASSUME q = "low" PROVE Stands(Programs[q][k], q, k)
  <2>1. k = 1
    BY <1>4, Lengths
  <2>2. Stands(<<"SLP_low">>[k], q, k)
    BY <1>4, <2>1 DEF Stands
  <2>3. QED
    BY <1>4, <2>2, ProgramsAre, Zenon
<1>5. ASSUME q = "high" PROVE Stands(Programs[q][k], q, k)
  <2>1. k = 1
    BY <1>5, Lengths
  <2>2. Stands(<<"SLP_high">>[k], q, k)
    BY <1>5, <2>1 DEF Stands
  <2>3. QED
    BY <1>5, <2>2, ProgramsAre, Zenon
<1>6. QED
  BY <1>1, <1>2, <1>3, <1>4, <1>5 DEF Names

\* The last step of each call that the lemmas below can take.
Ends(q, k) == (q = "move" /\ k = 9) \/ (q = "ctor" /\ k = 3) \/ q \in {"low", "high"}

\* The program takes a step: it is at the next one then, or through.
LEMMA StepPlace ==
  ASSUME PlaceInv, NEW x, x # "exit", Step(x)
  PROVE  \E q \in Names : \E k \in Nat :
           /\ At(q, k)
           /\ Stands(x, q, k)
           /\ (Ends(q, k) => Calm') /\ (~Ends(q, k) => At(q, k + 1)') => PlaceInv'
<1>0. PICK q \in Names : \E k \in 1 .. Len(Programs[q]) : todo = From(q, k) /\ At(q, k)
  BY DEF PlaceInv, Step
<1>1. PICK k \in 1 .. Len(Programs[q]) : todo = From(q, k) /\ At(q, k)
  BY <1>0
<1>2. Head(todo) = Programs[q][k] /\ Tail(todo) = From(q, k + 1)
  BY <1>1, FromIs
<1>3. x = Programs[q][k] /\ todo' = From(q, k + 1) /\ alive'
  BY <1>2 DEF Step
<1>4. Stands(x, q, k)
  BY <1>3, StepStands
<1>5. k \in Nat /\ k >= 1 /\ Len(Programs[q]) \in Nat
  BY Lengths
<1>6. ASSUME Ends(q, k) => Calm', ~Ends(q, k) => At(q, k + 1)' PROVE PlaceInv'
  <2>1. CASE k < Len(Programs[q])
    <3>1. k + 1 \in 1 .. Len(Programs[q])
      BY <2>1, <1>5
    <3>2. ~Ends(q, k)
      <4> DEFINE n == Len(Programs[q])
      <4>1. (q = "move" => n = 9) /\ (q = "ctor" => n = 3) /\ (q = "low" => n = 1) /\ (q = "high" => n = 1)
        BY Lengths, Zenon
      <4>2. n \in Nat /\ k \in Nat /\ k >= 1 /\ k < n
        BY <1>5, <2>1
      <4> HIDE DEF n
      <4>3. QED
        BY <4>1, <4>2 DEF Ends
    <3>3. QED
      BY <1>3, <1>6, <3>1, <3>2 DEF PlaceInv
  <2>2. CASE k = Len(Programs[q])
    <3>1. todo' = << >>
      BY <1>3, <2>2, FromIs
    <3>2. q # "exit"
      <4>1. <<"SLP_low", "p0.disable", "p1.disable", "exit">>[4] = "exit"
        OBVIOUS
      <4>2. q = "exit" => k = 4
        BY <2>2, Lengths
      <4>3. Programs["exit"][4] = "exit"
        BY <4>1, ProgramsAre, Zenon
      <4>4. QED
        BY <1>3, <4>2, <4>3
    <3>3. Ends(q, k)
      BY <2>2, <3>2, Lengths DEF Ends, Names
    <3>4. QED
      BY <3>1, <3>3, <1>6 DEF PlaceInv
  <2>3. QED
    BY <2>1, <2>2, <1>5
<1>7. QED
  BY <1>1, <1>4, <1>5, <1>6

\* It is at the first step of a call.
LEMMA PlaceFirst ==
  ASSUME NEW q \in Names, alive', todo' = Programs[q], At(q, 1)'
  PROVE  PlaceInv'
<1>1. 1 \in 1 .. Len(Programs[q])
  BY Lengths
<1>2. QED
  BY <1>1, FromIs DEF PlaceInv

\* It waits while another actor takes a step.
LEMMA PlaceStays ==
  ASSUME PlaceInv, UNCHANGED <<alive, todo>>, Calm => Calm',
         \A q \in Names : \A k \in Nat : At(q, k) => At(q, k)'
  PROVE  PlaceInv'
<1>1. CASE todo = << >> /\ (alive => Calm)
  BY <1>1 DEF PlaceInv
<1>2. CASE alive /\ \E q \in Names : \E k \in 1 .. Len(Programs[q]) : todo = From(q, k) /\ At(q, k)
  <2>1. PICK q \in Names : \E k \in 1 .. Len(Programs[q]) : todo = From(q, k) /\ At(q, k)
    BY <1>2
  <2>2. PICK k \in 1 .. Len(Programs[q]) : todo = From(q, k) /\ At(q, k)
    BY <2>1
  <2>3. k \in Nat
    BY Lengths
  <2>4. At(q, k)'
    BY <2>2, <2>3
  <2>5. QED
    BY <1>2, <2>2, <2>4 DEF PlaceInv
<1>3. QED
  BY <1>1, <1>2 DEF PlaceInv

LEMMA AtCalm ==
  ASSUME NEW q \in Names, NEW k \in Nat, At(q, k)
  PROVE  /\ ~(q = "ctor" /\ k = 1) /\ ~(q = "move" /\ k = 9) => Calm
         /\ q = "move" /\ Undisturbed => MoveAt(k)
         /\ q = "move" /\ k \in 4 .. 8 => i + Len(inbox) <= SentBefore(k)
  BY DEF At, Calm

LEMMA IdlePlace == PlaceInv /\ Idle => Calm
  BY FromIs DEF PlaceInv, Idle

----------------------------------------------------------------------------
(* Arithmetic: a loop of the firmware turns as often as the registers say. *)

\* A loop on a register ends after at most Word turns.
LEMMA TurnsType == \A a, b \in Number : Turns(a, b) \in 0 .. Word
  BY StepperAssumption DEF Turns, Number

\* The high and the low part of a pulse last as long as they should.
LEMMA TurnsOfMove ==
  ASSUME cmd \in Commands
  PROVE  /\ Turns(0, cmd.on) = cmd.on
         /\ Turns(cmd.on, cmd.total) = cmd.total - cmd.on
<1>1. /\ Word \in Nat \ {0} /\ cmd.on \in Nat /\ cmd.total \in Nat
      /\ 0 < cmd.on /\ cmd.on < cmd.total /\ cmd.total < Word
  BY StepperAssumption
<1> DEFINE x == cmd.on
           y == cmd.total
<1> HIDE DEF x, y
<1>2. x \in Nat /\ y \in Nat /\ 0 < x /\ x < y /\ y < Word
  BY <1>1 DEF x, y
<1>3. (x - 0) \in 0 .. Word - 1 /\ (y - x) \in 0 .. Word - 1
  BY <1>1, <1>2
<1>4. (x - 0) % Word = x - 0 /\ (y - x) % Word = y - x
  BY <1>1, <1>3, ModSmall
<1>5. Turns(0, x) = x /\ Turns(x, y) = y - x
  BY <1>2, <1>4 DEF Turns
<1>6. QED
  BY <1>5 DEF x, y

\* The numbers asked for change only with the command.
LEMMA AskingStays == ASSUME UNCHANGED cmd PROVE \A n : Asking(n)' = Asking(n)
  BY DEF Asking

----------------------------------------------------------------------------
LEMMA InitInv == Init => StepperInv
<1> SUFFICES ASSUME Init PROVE StepperInv
  OBVIOUS
<1>1. TypeOK
  <2>1. Word \in Nat \ {0}
    BY StepperAssumption
  <2>2. 0 \in Number /\ Zeros \in [Cells -> Number]
    BY <2>1 DEF Number, Zeros
  <2>3. << >> \in Seq(StepNames) /\ << >> \in Seq(Number)
        /\ << >> \in Seq([high : 0 .. Word, low : 0 .. Word, pins : Pins])
    OBVIOUS
  <2>4. 0 \in 0 .. 3 /\ 0 \in 0 .. 1
    OBVIOUS
  <2>5. QED
    BY <2>2, <2>3, <2>4, Zenon DEF Init, TypeOK
<1>2. CountInv /\ PlaceInv
  BY DEF Init, CountInv, PlaceInv
<1>3. PulseInv
  BY StepperAssumption DEF Init, PulseInv, MadeInv, Running
<1>4. QED
  BY <1>1, <1>2, <1>3 DEF StepperInv

----------------------------------------------------------------------------
(* PRU1.                                                                   *)

LEMMA BootsStep == ASSUME StepperInv, pru1_boots PROVE StepperInv'
<1> USE DEF StepperInv, pru1_boots, process, call, gpio, pulser
<1>1. TypeOK'
  BY DEF TypeOK
<1>2. CountInv'
  BY DEF CountInv, TypeOK
<1>3. PlaceInv'
  <2>1. SUFFICES ASSUME NEW q \in Names, NEW k \in Nat, At(q, k) PROVE At(q, k)'
    BY PlaceStays DEF Calm, Undisturbed, Running
  <2>2. i = 0
    BY DEF CountInv
  <2>3. QED
    BY <2>1, <2>2 DEF At, MoveAt, Loading, Asking, Undisturbed, Running
<1>4. PulseInv'
  BY DEF PulseInv, MadeInv, Running, Undisturbed, Asking
<1>5. QED
  BY <1>1, <1>2, <1>3, <1>4

LEMMA StoresStep == ASSUME StepperInv, pru1_stores PROVE StepperInv'
<1> USE DEF StepperInv, pru1_stores, process, call, gpio, pulser
<1>0. i \in 0 .. 2 /\ outbox = 0 /\ inbox \in Seq(Number) /\ inbox # << >>
  BY DEF TypeOK, CountInv
<1>1. TypeOK'
  BY <1>0 DEF TypeOK, Cells
<1>2. CountInv'
  BY <1>0 DEF CountInv
<1>3. PlaceInv'
  <2>1. SUFFICES ASSUME NEW q \in Names, NEW k \in Nat, At(q, k) PROVE At(q, k)'
    BY PlaceStays DEF Calm, Undisturbed, Running
  <2>2. ASSUME Loading(k) PROVE Loading(k)'
    <3>1. i' + Len(inbox') = i + Len(inbox)
      BY <1>0
    <3>2. ASSUME NEW n \in 0 .. i' - 1 PROVE sram'[n] = Asking(n)'
      <4>1. Head(inbox) = inbox[1] /\ 1 \in 1 .. Len(inbox)
        BY <1>0
      <4>2. Head(inbox) = Asking(i)
        BY <1>0, <2>2, <4>1 DEF Loading
      <4>3. sram \in [Cells -> Number] /\ n \in Cells
        BY <1>0 DEF TypeOK, Cells
      <4>4. CASE n = i
        BY <4>2, <4>3, <4>4 DEF Asking
      <4>5. CASE n # i
        BY <1>0, <2>2, <4>3, <4>5 DEF Asking, Loading
      <4>6. QED
        BY <4>4, <4>5
    <3>3. ASSUME NEW n \in 1 .. Len(inbox') PROVE inbox'[n] = Asking(i + n - 1)'
      <4>1. inbox'[n] = inbox[n + 1] /\ n + 1 \in 1 .. Len(inbox)
        BY <1>0
      <4>2. i' + n - 1 = i + (n + 1) - 1
        BY <1>0
      <4>3. inbox[n + 1] = Asking(i + (n + 1) - 1)
        BY <2>2, <4>1 DEF Loading
      <4>4. Asking(i + n - 1)' = Asking(i + (n + 1) - 1)
        BY <4>2 DEF Asking
      <4>5. QED
        BY <4>1, <4>2, <4>3, <4>4
    <3>4. pru1' = "receive" => i' < 3
      BY <1>0
    <3>5. QED
      BY <2>2, <3>1, <3>2, <3>3, <3>4, Zenon DEF Loading, SentBefore
  <2>3. i' + Len(inbox') = i + Len(inbox)
    BY <1>0
  <2>4. QED
    BY <2>1, <2>2, <2>3 DEF At, MoveAt, Undisturbed, Running, SentBefore
<1>4. PulseInv'
  BY DEF PulseInv, MadeInv, Running, Undisturbed
<1>5. QED
  BY <1>1, <1>2, <1>3, <1>4

LEMMA DoneStep == ASSUME StepperInv, pru1_done PROVE StepperInv'
<1> USE DEF StepperInv, pru1_done, process, call, gpio, pulser
<1>1. TypeOK'
  <2>1. outbox' \in 0 .. 1
    BY DEF CountInv
  <2>2. QED
    BY <2>1 DEF TypeOK
<1>2. CountInv'
  BY DEF CountInv, TypeOK
<1>3. PlaceInv'
  <2>1. SUFFICES ASSUME NEW q \in Names, NEW k \in Nat, At(q, k) PROVE At(q, k)'
    BY PlaceStays DEF Calm, Undisturbed, Running
  <2>2. Undisturbed => pru0 = "halt"
    BY DEF PulseInv
  <2>3. QED
    BY <2>1, <2>2 DEF At, MoveAt, Undisturbed, Running
<1>4. PulseInv'
  BY DEF PulseInv, MadeInv, Running, Undisturbed, Asking
<1>5. QED
  BY <1>1, <1>2, <1>3, <1>4

----------------------------------------------------------------------------
(* PRU0.                                                                   *)

LEMMA ConfigStep == ASSUME StepperInv, configIntc PROVE StepperInv'
<1> USE DEF StepperInv, configIntc, process, call, gpio, channel, receiver
<1>1. TypeOK'
  BY DEF TypeOK
<1>2. CountInv'
  BY DEF CountInv
<1>3. PlaceInv'
  <2>1. SUFFICES ASSUME NEW q \in Names, NEW k \in Nat, At(q, k) PROVE At(q, k)'
    BY PlaceStays DEF Calm, Undisturbed, Running
  <2>2. QED
    BY <2>1 DEF At, MoveAt, Loading, Asking, Undisturbed, Running
<1>4. PulseInv'
  BY DEF PulseInv, MadeInv, Running, Undisturbed, Asking
<1>5. QED
  BY <1>1, <1>2, <1>3, <1>4

LEMMA LoadStep == ASSUME StepperInv, load PROVE StepperInv'
<1> USE DEF StepperInv, load, process, call, gpio, channel, receiver
<1>0. cmd \in Commands /\ 0 < cmd.pulses /\ Word \in Nat \ {0}
  BY StepperAssumption DEF TypeOK
<1>1. TypeOK'
  BY <1>0 DEF TypeOK, Number
<1>2. CountInv'
  BY DEF CountInv
<1>3. PlaceInv'
  <2>1. SUFFICES ASSUME NEW q \in Names, NEW k \in Nat, At(q, k) PROVE At(q, k)'
    BY PlaceStays DEF Calm, Undisturbed, Running
  <2>2. QED
    BY <2>1 DEF At, MoveAt, Loading, Asking, Undisturbed, Running
<1>4. PulseInv'
  BY <1>0 DEF PulseInv, MadeInv, Running, Undisturbed, Asking, Cells
<1>5. QED
  BY <1>1, <1>2, <1>3, <1>4

LEMMA SampleStep == ASSUME StepperInv, sample PROVE StepperInv'
<1> USE DEF StepperInv, sample, process, call, gpio, channel, receiver
<1> DEFINE p == Pulse(Turns(0, R[0]), Turns(R[0], R[1]))
           Pulses == [high : 0 .. Word, low : 0 .. Word, pins : Pins]
<1>0. cmd \in Commands /\ cmd.pulses \in Nat /\ cmd.pulses < Word /\ Word \in Nat \ {0}
  BY StepperAssumption DEF TypeOK
<1>1. R10' \in Number
  BY <1>0 DEF TypeOK, Number
<1>2. p \in Pulses
  <2>1. 0 \in Number /\ R[0] \in Number /\ R[1] \in Number
    BY <1>0 DEF TypeOK, Number, Cells
  <2>2. Turns(0, R[0]) \in 0 .. Word /\ Turns(R[0], R[1]) \in 0 .. Word
    BY <2>1, TurnsType
  <2>3. QED
    BY <2>2 DEF Pulse, TypeOK
<1> HIDE DEF p
<1>3. made' = IF awake THEN Append(made, p) ELSE made
  BY DEF p
<1>4. made \in Seq(Pulses) /\ made' \in Seq(Pulses)
  <2>1. made \in Seq(Pulses)
    BY DEF TypeOK
  <2>2. \A P : \A x \in P, s \in Seq(P) : Append(s, x) \in Seq(P)
    OBVIOUS
  <2> HIDE DEF Pulses
  <2>3. QED
    BY <1>2, <1>3, <2>1, <2>2
<1> HIDE DEF Pulses
<1>5. TypeOK'
  BY <1>1, <1>4 DEF TypeOK, Pulses
<1>6. CountInv'
  BY DEF CountInv
<1>7. PlaceInv'
  <2>1. SUFFICES ASSUME NEW q \in Names, NEW k \in Nat, At(q, k) PROVE At(q, k)'
    BY PlaceStays DEF Calm, Undisturbed, Running
  <2>2. QED
    BY <2>1 DEF At, MoveAt, Loading, Asking, Undisturbed, Running
<1>8. ASSUME Undisturbed PROVE PulseInv'
  <2>1. /\ MadeInv /\ pru1 = "wait" /\ ~event /\ pins = cmd.pins
        /\ \A n \in Cells : R[n] = Asking(n)
        /\ R10 < cmd.pulses /\ Len(made) <= R10
        /\ awake => Len(made) = R10
    BY <1>8 DEF PulseInv, Running
  <2>2. R10' = R10 + 1
    <3>1. R10 + 1 \in 0 .. Word - 1
      BY <1>0, <2>1, SMTT(30) DEF TypeOK, Number
    <3>2. QED
      BY <1>0, <3>1, ModSmall
  <2>3. R[0] = cmd.on /\ R[1] = cmd.total /\ R[2] = cmd.pulses
    BY <2>1 DEF Cells, Asking
  <2>4. p = [high |-> cmd.on, low |-> cmd.total - cmd.on, pins |-> cmd.pins]
    BY <1>0, <2>1, <2>3, TurnsOfMove DEF p, Pulse
  <2>5. R10 \in Nat /\ Len(made) \in Nat
    BY <1>4 DEF TypeOK, Number
  <2>6. MadeInv' /\ Len(made') <= R10' /\ (awake' => Len(made') = R10')
    <3>1. CASE awake
      <4>1. /\ made' = Append(made, p)
            /\ Len(made') = Len(made) + 1
            /\ \A n \in 1 .. Len(made) : made'[n] = made[n]
            /\ made'[Len(made) + 1] = p
        BY <3>1, <1>2, <1>3, <1>4
      <4>2. \A n \in 1 .. Len(made') : n \in 1 .. Len(made) \/ n = Len(made) + 1
        BY <4>1, <2>5
      <4>3. QED
        BY <2>1, <2>2, <2>4, <2>5, <1>0, <4>1, <4>2 DEF MadeInv
    <3>2. CASE ~awake
      BY <3>2, <2>1, <2>2, <2>5, <1>3 DEF MadeInv
    <3>3. QED
      BY <3>1, <3>2
  <2>7. CASE R10' = R[2]
    BY <2>1, <2>3, <2>6, <2>7 DEF PulseInv, Running
  <2>8. CASE R10' # R[2]
    <3>1. R10' < cmd.pulses
      BY <1>0, <2>1, <2>2, <2>3, <2>5, <2>8
    <3>2. \A n \in Cells : R'[n] = Asking(n)'
      BY <2>1 DEF Asking
    <3>3. QED
      BY <2>1, <2>6, <2>8, <3>1, <3>2 DEF PulseInv, Running
  <2>9. QED
    BY <2>7, <2>8
<1>9. ~Undisturbed => PulseInv'
  BY DEF PulseInv, Undisturbed
<1>10. QED
  BY <1>5, <1>6, <1>7, <1>8, <1>9

LEMMA TriggerStep == ASSUME StepperInv, trigger PROVE StepperInv'
<1> USE DEF StepperInv, trigger, process, call, gpio, channel, receiver
<1>1. TypeOK'
  BY DEF TypeOK
<1>2. CountInv'
  BY DEF CountInv
<1>3. PlaceInv'
  <2>1. SUFFICES ASSUME NEW q \in Names, NEW k \in Nat, At(q, k) PROVE At(q, k)'
    BY PlaceStays DEF Calm, Undisturbed, Running
  <2>2. Undisturbed /\ awake => Len(made) = cmd.pulses
    BY DEF PulseInv
  <2>3. QED
    BY <2>1, <2>2 DEF At, MoveAt, Loading, Asking, Undisturbed, Running
<1>4. PulseInv'
  BY DEF PulseInv, MadeInv, Running, Undisturbed, Asking
<1>5. QED
  BY <1>1, <1>2, <1>3, <1>4

----------------------------------------------------------------------------
(* The steps of the program.                                               *)

\* A step that leaves TypeOK's sequences and the PRUs alone.
LEMMA TodoType == ASSUME TypeOK, NEW x, Step(x) PROVE todo' \in Seq(StepNames)
  BY DEF TypeOK, Step

LEMMA SetPinsStep == ASSUME StepperInv, set_pins PROVE StepperInv'
<1>0. /\ cmd \in Commands /\ cmd.pins \in Pins /\ Step("set_pins")
      /\ pins' = cmd.pins
      /\ UNCHANGED <<alive, cmd, failed, awake, node, inbox, outbox, pru1, i, sram, event, pru0, R, R10, made>>
  BY StepperAssumption DEF StepperInv, set_pins, TypeOK, Step, channel, receiver, pulser
<1>1. PICK q \in Names : \E k \in Nat :
        /\ At(q, k)
        /\ Stands("set_pins", q, k)
        /\ (Ends(q, k) => Calm') /\ (~Ends(q, k) => At(q, k + 1)') => PlaceInv'
  BY <1>0, StepPlace DEF StepperInv
<1>2. PICK k \in Nat :
        /\ At(q, k)
        /\ Stands("set_pins", q, k)
        /\ (Ends(q, k) => Calm') /\ (~Ends(q, k) => At(q, k + 1)') => PlaceInv'
  BY <1>1
<1>3. ~Ends(q, k) /\ q # "ctor" /\ (q = "move" => k <= 1)
  BY <1>2 DEF Stands, Ends
<1>4. Undisturbed => ~Running
  <2>1. ~(q = "ctor" /\ k = 1) /\ ~(q = "move" /\ k = 9)
    BY <1>3
  <2>2. QED
    BY <1>2, <2>1, AtCalm, Zenon DEF Calm
<1>5. TypeOK'
  BY <1>0, TodoType DEF StepperInv, TypeOK
<1>6. CountInv'
  BY <1>0 DEF StepperInv, CountInv
<1>7. PlaceInv'
  <2>1. q = "move" /\ Undisturbed => MoveAt(k)
    BY <1>2, AtCalm, Zenon
  <2>2. q = "move" /\ Undisturbed => made = << >>
    BY <1>3, <2>1 DEF MoveAt
  <2>3. pins' = cmd'.pins /\ UNCHANGED <<failed, made, pru0>>
    BY <1>0
  <2> DEFINE j == k + 1
  <2>4. j \in Nat /\ (q = "move" => j <= 2)
    BY <1>3
  <2> HIDE DEF j
  <2>5. At(q, j)'
    BY <1>4, <2>2, <2>3, <2>4 DEF At, MoveAt, Undisturbed, Running
  <2>6. QED
    BY <1>2, <1>3, <2>5 DEF j
<1>8. PulseInv'
  BY <1>0, <1>4 DEF StepperInv, PulseInv, MadeInv, Running, Undisturbed
<1>9. QED
  BY <1>5, <1>6, <1>7, <1>8 DEF StepperInv

LEMMA DefaultPinsStep == ASSUME StepperInv, default_pins PROVE StepperInv'
<1>0. DefaultPins \in Pins /\ Step("default_pins") /\ UNCHANGED <<alive, cmd>>
  BY StepperAssumption DEF StepperInv, default_pins, Step
<1>1. PICK q \in Names : \E k \in Nat :
        /\ At(q, k)
        /\ Stands("default_pins", q, k)
        /\ (Ends(q, k) => Calm') /\ (~Ends(q, k) => At(q, k + 1)') => PlaceInv'
  BY <1>0, StepPlace DEF StepperInv
<1>2. PICK k \in Nat :
        /\ At(q, k)
        /\ Stands("default_pins", q, k)
        /\ (Ends(q, k) => Calm') /\ (~Ends(q, k) => At(q, k + 1)') => PlaceInv'
  BY <1>1
<1>3. Ends(q, k) /\ q # "move" /\ k > 1
  BY <1>2 DEF Stands, Ends
<1>4. Calm
  <2>1. ~(q = "ctor" /\ k = 1) /\ ~(q = "move" /\ k = 9)
    BY <1>3
  <2>2. QED
    BY <1>2, <2>1, AtCalm, Zenon
<1> USE DEF StepperInv, default_pins, channel, receiver, pulser
<1>5. TypeOK'
  BY <1>0, TodoType DEF TypeOK
<1>6. CountInv'
  BY DEF CountInv
<1>7. PlaceInv'
  BY <1>2, <1>3, <1>4 DEF Calm, Undisturbed, Running
<1>8. PulseInv'
  BY <1>0, <1>4 DEF Calm, PulseInv, MadeInv, Running, Undisturbed
<1>9. QED
  BY <1>5, <1>6, <1>7, <1>8

LEMMA SlpStep ==
  ASSUME StepperInv, set_SLP("SLP_low", FALSE) \/ set_SLP("SLP_high", TRUE)
  PROVE  StepperInv'
<1>0. PICK x \in {"SLP_low", "SLP_high"} :
        /\ Step(x) /\ awake' \in BOOLEAN
        /\ UNCHANGED <<alive, cmd, failed, pins, channel, receiver, event, pulser>>
  BY DEF StepperInv, channel, receiver, pulser, set_SLP, Step
<1>1. PICK q \in Names : \E k \in Nat :
        /\ At(q, k)
        /\ Stands(x, q, k)
        /\ (Ends(q, k) => Calm') /\ (~Ends(q, k) => At(q, k + 1)') => PlaceInv'
  BY <1>0, StepPlace DEF StepperInv
<1>2. PICK k \in Nat :
        /\ At(q, k)
        /\ Stands(x, q, k)
        /\ (Ends(q, k) => Calm') /\ (~Ends(q, k) => At(q, k + 1)') => PlaceInv'
  BY <1>1
<1>3. q # "move" /\ q # "ctor"
  BY <1>0, <1>2 DEF Stands
<1>4. Calm
  BY <1>2, <1>3, AtCalm
<1> USE DEF StepperInv, channel, receiver, pulser
<1>5. TypeOK'
  BY <1>0, TodoType DEF TypeOK
<1>6. CountInv'
  BY <1>0 DEF CountInv
<1>7. PlaceInv'
  BY <1>0, <1>2, <1>3, <1>4 DEF At, Calm, Undisturbed, Running
<1>8. PulseInv'
  BY <1>0, <1>4 DEF Calm, PulseInv, MadeInv, Running, Undisturbed
<1>9. QED
  BY <1>5, <1>6, <1>7, <1>8

LEMMA P0DisableStep == ASSUME StepperInv, p0_disable PROVE StepperInv'
<1>0. Step("p0.disable") /\ UNCHANGED <<alive, cmd>>
  BY DEF StepperInv, p0_disable, Step
<1>1. PICK q \in Names : \E k \in Nat :
        /\ At(q, k)
        /\ Stands("p0.disable", q, k)
        /\ (Ends(q, k) => Calm') /\ (~Ends(q, k) => At(q, k + 1)') => PlaceInv'
  BY <1>0, StepPlace DEF StepperInv
<1>2. PICK k \in Nat :
        /\ At(q, k)
        /\ Stands("p0.disable", q, k)
        /\ (Ends(q, k) => Calm') /\ (~Ends(q, k) => At(q, k + 1)') => PlaceInv'
  BY <1>1
<1>3. ~Ends(q, k) /\ (q = "move" => k = 2)
  BY <1>2 DEF Stands, Ends
<1>4. 0 \in Number
  BY StepperAssumption DEF Number
<1> USE DEF StepperInv, p0_disable, gpio, channel, receiver
<1>5. TypeOK'
  BY <1>0, <1>4, TodoType DEF Calm, TypeOK, Zeros
<1>6. CountInv'
  BY DEF CountInv
<1>7. PlaceInv'
  BY <1>0, <1>2, <1>3 DEF At, MoveAt, Undisturbed, Running
<1>8. PulseInv'
  <2>1. Undisturbed => ~event
    BY <1>0 DEF Step, Settled, PulseInv, Undisturbed
  <2>2. QED
    BY <1>0, <2>1 DEF PulseInv, MadeInv, Running, Undisturbed
<1>9. QED
  BY <1>5, <1>6, <1>7, <1>8

LEMMA P1DisableStep == ASSUME StepperInv, p1_disable PROVE StepperInv'
<1>0. Step("p1.disable") /\ UNCHANGED <<alive, cmd>>
  BY DEF StepperInv, p1_disable, Step
<1>1. PICK q \in Names : \E k \in Nat :
        /\ At(q, k)
        /\ Stands("p1.disable", q, k)
        /\ (Ends(q, k) => Calm') /\ (~Ends(q, k) => At(q, k + 1)') => PlaceInv'
  BY <1>0, StepPlace DEF StepperInv
<1>2. PICK k \in Nat :
        /\ At(q, k)
        /\ Stands("p1.disable", q, k)
        /\ (Ends(q, k) => Calm') /\ (~Ends(q, k) => At(q, k + 1)') => PlaceInv'
  BY <1>1
<1>3. ~Ends(q, k) /\ (q = "move" => k = 3) /\ (q = "ctor" => k = 2)
  BY <1>2 DEF Stands, Ends
<1>4. Calm
  BY <1>2, <1>3, AtCalm
<1> USE DEF StepperInv, p1_disable, gpio, pulser
<1>5. TypeOK'
  <2>1. inbox' \in Seq(Number) /\ i' \in 0 .. 3 /\ outbox' \in 0 .. 1
    OBVIOUS
  <2>2. QED
    BY <1>0, <2>1, TodoType DEF TypeOK
<1>6. CountInv'
  BY DEF CountInv
<1>7. PlaceInv'
  BY <1>0, <1>2, <1>3, <1>4 DEF Calm, At, MoveAt, Loading, SentBefore, Undisturbed, Running
<1>8. PulseInv'
  <2>1. Undisturbed => ~event
    BY <1>0 DEF Step, Settled, PulseInv, Undisturbed
  <2>2. QED
    BY <1>0, <1>4, <2>1 DEF Calm, PulseInv, MadeInv, Running, Undisturbed
<1>9. QED
  BY <1>5, <1>6, <1>7, <1>8

LEMMA P1EnableStep == ASSUME StepperInv, p1_enable PROVE StepperInv'
<1>0. /\ Step("p1.enable")
      /\ pru1' = IF pru1 = "off" THEN "boot" ELSE pru1
      /\ UNCHANGED <<alive, cmd, failed, pins, awake, node, inbox, outbox, i, sram, event, pru0, R, R10, made>>
  BY DEF p1_enable, Step, gpio, channel, pulser
<1>1. PICK q \in Names : \E k \in Nat :
        /\ At(q, k)
        /\ Stands("p1.enable", q, k)
        /\ (Ends(q, k) => Calm') /\ (~Ends(q, k) => At(q, k + 1)') => PlaceInv'
  BY <1>0, StepPlace DEF StepperInv
<1>2. PICK k \in Nat :
        /\ At(q, k)
        /\ Stands("p1.enable", q, k)
        /\ (Ends(q, k) => Calm') /\ (~Ends(q, k) => At(q, k + 1)') => PlaceInv'
  BY <1>1
<1>3. ~Ends(q, k) /\ q = "move" /\ k = 4
  BY <1>2 DEF Stands, Ends
<1>4. Undisturbed => MoveAt(k) /\ ~Running
  <2>1. ~(q = "ctor" /\ k = 1) /\ ~(q = "move" /\ k = 9)
    BY <1>3
  <2>2. q = "move"
    BY <1>3
  <2>3. QED
    BY <1>2, <2>1, <2>2, AtCalm, Zenon DEF Calm
<1>5. TypeOK'
  BY <1>0, TodoType DEF StepperInv, TypeOK
<1>6. CountInv'
  BY <1>0 DEF StepperInv, CountInv
<1>7. PlaceInv'
  <2>1. Undisturbed => made = << >> /\ pins = cmd.pins /\ pru0 = "off" /\ Loading(4)
    BY <1>3, <1>4 DEF MoveAt
  <2>2. i + Len(inbox) = 0
    <3>1. q = "move" /\ k \in 4 .. 8
      BY <1>3
    <3>2. i + Len(inbox) <= SentBefore(k)
      BY <1>2, <3>1, AtCalm, Zenon
    <3>3. i \in 0 .. 3 /\ Len(inbox) \in Nat
      BY DEF StepperInv, TypeOK
    <3>4. QED
      BY <1>3, <3>2, <3>3 DEF SentBefore
  <2>3. Loading(4) => Loading(5)'
    BY <1>0 DEF Loading, SentBefore, Asking
  <2>4. At(q, 5)'
    BY <1>0, <1>3, <1>4, <2>1, <2>2, <2>3 DEF At, MoveAt, SentBefore, Undisturbed, Running
  <2>5. QED
    BY <1>2, <1>3, <2>4
<1>8. PulseInv'
  BY <1>0, <1>4 DEF StepperInv, PulseInv, MadeInv, Running, Undisturbed
<1>9. QED
  BY <1>5, <1>6, <1>7, <1>8 DEF StepperInv

LEMMA SendStep == ASSUME StepperInv, sendMsg_raw PROVE StepperInv'
<1>0. PICK x \in {"send_on", "send_total", "send_pulses"} :
        /\ Step(x) /\ node
        /\ x = "send_on" => inbox' = Append(inbox, cmd.on)
        /\ x = "send_total" => inbox' = Append(inbox, cmd.total)
        /\ x = "send_pulses" => inbox' = Append(inbox, cmd.pulses)
        /\ UNCHANGED <<alive, cmd, failed, pins, awake, node, outbox, pru1, i, sram, event, pru0, R, R10, made>>
  BY DEF sendMsg_raw, Send, Step, gpio, receiver, pulser
<1>1. PICK q \in Names : \E k \in Nat :
        /\ At(q, k)
        /\ Stands(x, q, k)
        /\ (Ends(q, k) => Calm') /\ (~Ends(q, k) => At(q, k + 1)') => PlaceInv'
  BY <1>0, StepPlace DEF StepperInv
<1>2. PICK k \in Nat :
        /\ At(q, k)
        /\ Stands(x, q, k)
        /\ (Ends(q, k) => Calm') /\ (~Ends(q, k) => At(q, k + 1)') => PlaceInv'
  BY <1>1
<1>3. /\ ~Ends(q, k) /\ q = "move" /\ 5 <= k /\ k <= 7
      /\ x = "send_on" => k = 5
      /\ x = "send_total" => k = 6
      /\ x = "send_pulses" => k = 7
  BY <1>0, <1>2 DEF Stands, Ends
<1>4. Undisturbed => MoveAt(k) /\ ~Running
  <2>1. ~(q = "ctor" /\ k = 1) /\ ~(q = "move" /\ k = 9)
    BY <1>3
  <2>2. q = "move"
    BY <1>3
  <2>3. QED
    BY <1>2, <2>1, <2>2, AtCalm, Zenon DEF Calm
<1>5. inbox' = Append(inbox, Asking(k - 5))
  BY <1>0, <1>3 DEF Asking
<1>6. /\ inbox \in Seq(Number) /\ Asking(k - 5) \in Number /\ i \in 0 .. 3 /\ Len(inbox) \in Nat
      /\ Word \in Nat \ {0}
  <2>1. cmd \in Commands
    BY DEF StepperInv, TypeOK
  <2>2. cmd.on \in Number /\ cmd.total \in Number /\ cmd.pulses \in Number
    BY <2>1, StepperAssumption DEF Number
  <2>3. QED
    BY <2>2, StepperAssumption DEF StepperInv, TypeOK, Asking
<1>7. i + Len(inbox) <= k - 5
  <2>1. q = "move" /\ k \in 4 .. 8
    BY <1>3
  <2>2. i + Len(inbox) <= SentBefore(k)
    BY <1>2, <2>1, AtCalm, Zenon
  <2>3. QED
    BY <1>3, <2>2 DEF SentBefore
<1>8. /\ inbox' \in Seq(Number)
      /\ Len(inbox') = Len(inbox) + 1
      /\ \A n \in 1 .. Len(inbox) : inbox'[n] = inbox[n]
      /\ inbox'[Len(inbox) + 1] = Asking(k - 5)
  BY <1>5, <1>6
<1>9. TypeOK'
  BY <1>0, <1>8, TodoType DEF StepperInv, TypeOK
<1>10. CountInv'
  BY <1>0, <1>3, <1>6, <1>7, <1>8 DEF StepperInv, CountInv
<1>11. PlaceInv'
  <2>1. 6 <= k + 1 /\ k + 1 <= 8 /\ SentBefore(k) = k - 5 /\ SentBefore(k + 1) = k - 4
    BY <1>3 DEF SentBefore
  <2>2. i + Len(inbox') <= SentBefore(k + 1)
    BY <1>3, <1>6, <1>7, <1>8, <2>1
  <2>3. Undisturbed => made = << >> /\ pins = cmd.pins /\ pru0 = "off" /\ Loading(k)
    BY <1>3, <1>4 DEF MoveAt
  <2>4. ASSUME Undisturbed PROVE Loading(k + 1)'
    <3>1. i + Len(inbox) = k - 5
      BY <2>1, <2>3, <2>4 DEF Loading
    <3>2. i' + Len(inbox') = SentBefore(k + 1)
      BY <1>0, <1>3, <1>6, <1>8, <2>1, <3>1
    <3>3. \A n \in 0 .. i' - 1 : sram'[n] = Asking(n)'
      BY <1>0, <2>3, <2>4 DEF Loading, Asking
    <3>4. ASSUME NEW n \in 1 .. Len(inbox') PROVE inbox'[n] = Asking(i + n - 1)'
      <4>1. Asking(i + n - 1)' = Asking(i + n - 1)
        BY <1>0 DEF Asking
      <4>2. CASE n \in 1 .. Len(inbox)
        BY <1>8, <2>3, <2>4, <4>1, <4>2 DEF Loading
      <4>3. CASE n = Len(inbox) + 1
        <5>1. i + n - 1 = k - 5
          BY <1>3, <1>6, <3>1, <4>3
        <5>2. QED
          BY <1>8, <4>1, <4>3, <5>1
      <4>4. QED
        BY <1>6, <1>8, <4>2, <4>3
    <3>5. pru1' = "receive" => i' < 3
      BY <1>0, <2>3, <2>4 DEF Loading
    <3>6. SentBefore(k + 1)' = SentBefore(k + 1)
      BY DEF SentBefore
    <3>7. QED
      BY <3>2, <3>3, <3>4, <3>5, <3>6 DEF Loading
  <2> DEFINE j == k + 1
  <2>5. 6 <= j /\ j <= 8 /\ j \in Nat /\ i' + Len(inbox') <= SentBefore(j)'
    BY <1>0, <2>1, <2>2 DEF SentBefore
  <2>6. Undisturbed => Loading(j)'
    BY <2>4
  <2> HIDE DEF j
  <2>7. At(q, j)'
    BY <1>0, <1>4, <2>3, <2>5, <2>6 DEF At, MoveAt, Undisturbed, Running
  <2>8. QED
    BY <1>2, <1>3, <2>7 DEF j
<1>12. PulseInv'
  BY <1>0, <1>4 DEF StepperInv, PulseInv, MadeInv, Running, Undisturbed
<1>13. QED
  BY <1>9, <1>10, <1>11, <1>12 DEF StepperInv

LEMMA SendFailsStep == ASSUME StepperInv, sendMsg_fails PROVE StepperInv'
<1>0. PICK x \in {"send_on", "send_total", "send_pulses"} :
        /\ Step(x) /\ failed'
        /\ UNCHANGED <<alive, cmd, pins, awake, node, inbox, outbox, pru1, i, sram, event, pru0, R, R10, made>>
        /\ failed' = TRUE
  BY DEF sendMsg_fails, Step, gpio, channel, receiver, pulser
<1>1. PICK q \in Names : \E k \in Nat :
        /\ At(q, k)
        /\ Stands(x, q, k)
        /\ (Ends(q, k) => Calm') /\ (~Ends(q, k) => At(q, k + 1)') => PlaceInv'
  BY <1>0, StepPlace DEF StepperInv
<1>2. PICK k \in Nat :
        /\ At(q, k)
        /\ Stands(x, q, k)
        /\ (Ends(q, k) => Calm') /\ (~Ends(q, k) => At(q, k + 1)') => PlaceInv'
  BY <1>1
<1>3. ~Ends(q, k) /\ q = "move" /\ 5 <= k /\ k <= 7
  BY <1>0, <1>2 DEF Stands, Ends
<1>4. i + Len(inbox) <= k - 5
  <2>1. q = "move" /\ k \in 4 .. 8
    BY <1>3
  <2>2. i + Len(inbox) <= SentBefore(k)
    BY <1>2, <2>1, AtCalm, Zenon
  <2>3. QED
    BY <1>3, <2>2 DEF SentBefore
<1>5. i \in 0 .. 3 /\ Len(inbox) \in Nat
  BY DEF StepperInv, TypeOK
<1>6. TypeOK'
  BY <1>0, TodoType DEF StepperInv, TypeOK
<1>7. CountInv'
  BY <1>0 DEF StepperInv, CountInv
<1>8. PlaceInv'
  <2> DEFINE j == k + 1
  <2>1. 6 <= j /\ j <= 8 /\ j \in Nat /\ i + Len(inbox) <= j - 5
    BY <1>3, <1>4, <1>5
  <2> HIDE DEF j
  <2>2. At(q, j)'
    BY <1>0, <2>1 DEF At, SentBefore, Undisturbed
  <2>3. QED
    BY <1>2, <1>3, <2>2 DEF j
<1>9. PulseInv'
  BY <1>0 DEF PulseInv, Undisturbed
<1>10. QED
  BY <1>6, <1>7, <1>8, <1>9 DEF StepperInv

LEMMA P0EnableStep == ASSUME StepperInv, p0_enable PROVE StepperInv'
<1>0. /\ Step("p0.enable")
      /\ pru0' = IF pru0 = "off" THEN "config" ELSE pru0
      /\ UNCHANGED <<alive, cmd, failed, pins, awake, node, inbox, outbox, pru1, i, sram, event, R, R10, made>>
  BY DEF p0_enable, Step, gpio, channel, receiver
<1>1. PICK q \in Names : \E k \in Nat :
        /\ At(q, k)
        /\ Stands("p0.enable", q, k)
        /\ (Ends(q, k) => Calm') /\ (~Ends(q, k) => At(q, k + 1)') => PlaceInv'
  BY <1>0, StepPlace DEF StepperInv
<1>2. PICK k \in Nat :
        /\ At(q, k)
        /\ Stands("p0.enable", q, k)
        /\ (Ends(q, k) => Calm') /\ (~Ends(q, k) => At(q, k + 1)') => PlaceInv'
  BY <1>1
<1>3. ~Ends(q, k) /\ q = "move" /\ k = 8
  BY <1>2 DEF Stands, Ends
<1>4. Undisturbed => MoveAt(8)
  BY <1>2, <1>3, AtCalm
<1>5. Undisturbed => pru1 = "wait" /\ i = 3
  <2>1. SUFFICES ASSUME Undisturbed PROVE pru1 = "wait" /\ i = 3
    OBVIOUS
  <2>2. /\ i \in 0 .. 3 /\ Len(inbox) \in Nat
        /\ pru1 \in {"off", "boot", "receive", "wait"}
        /\ pru1 \in {"off", "boot"} => i = 0 /\ inbox = << >>
        /\ pru1 = "wait" => i = 3
    BY DEF StepperInv, TypeOK, CountInv
  <2>3. i + Len(inbox) = 3 /\ (pru1 = "receive" => i < 3)
    BY <1>4, <2>1 DEF MoveAt, Loading, SentBefore
  <2>4. pru1 = "receive" => inbox = << >>
    BY <1>0, <2>1 DEF Step, Settled, Undisturbed
  <2>5. inbox = << >> => Len(inbox) = 0
    OBVIOUS
  <2>6. QED
    BY <2>2, <2>3, <2>4, <2>5
<1>6. TypeOK'
  BY <1>0, TodoType DEF StepperInv, TypeOK
<1>7. CountInv'
  BY <1>0 DEF StepperInv, CountInv
<1>8. PlaceInv'
  <2>1. Undisturbed => pins = cmd.pins
    BY <1>4 DEF MoveAt
  <2>2. pru0' # "off" /\ (Undisturbed => pru0' # "halt")
    BY <1>0, <1>4 DEF MoveAt
  <2>3. At(q, 9)'
    BY <1>0, <1>3, <2>1, <2>2 DEF At, MoveAt, Undisturbed
  <2>4. QED
    BY <1>2, <1>3, <2>3
<1>9. PulseInv'
  <2>1. SUFFICES ASSUME Undisturbed PROVE PulseInv'
    BY <1>0 DEF PulseInv, Undisturbed
  <2>2. made = << >> /\ pins = cmd.pins /\ pru0 = "off"
    BY <1>4, <2>1 DEF MoveAt
  <2>3. \A n \in Cells : sram[n] = Asking(n)
    BY <1>4, <1>5, <2>1 DEF MoveAt, Loading, Cells
  <2>4. (\A n \in Cells : sram[n] = Asking(n))'
    BY <1>0, <2>3 DEF Asking
  <2>5. MadeInv' /\ ~event'
    BY <1>0, <2>1, <2>2 DEF StepperInv, PulseInv, MadeInv
  <2>6. QED
    BY <1>0, <1>5, <2>1, <2>2, <2>4, <2>5 DEF PulseInv, Running
<1>10. QED
  BY <1>6, <1>7, <1>8, <1>9 DEF StepperInv

LEMMA DoneReadStep == ASSUME StepperInv, getMsg_done PROVE StepperInv'
<1>0. /\ Step("poll") /\ outbox = 1 /\ outbox' = 0
      /\ UNCHANGED <<alive, cmd, failed, pins, awake, node, inbox, pru1, i, sram, event, pru0, R, R10, made>>
  BY DEF getMsg_done, Step, gpio, receiver, pulser
<1>1. PICK q \in Names : \E k \in Nat :
        /\ At(q, k)
        /\ Stands("poll", q, k)
        /\ (Ends(q, k) => Calm') /\ (~Ends(q, k) => At(q, k + 1)') => PlaceInv'
  BY <1>0, StepPlace DEF StepperInv
<1>2. PICK k \in Nat :
        /\ At(q, k)
        /\ Stands("poll", q, k)
        /\ (Ends(q, k) => Calm') /\ (~Ends(q, k) => At(q, k + 1)') => PlaceInv'
  BY <1>1
<1>3. Ends(q, k)
  BY <1>2 DEF Stands, Ends
<1>4. Calm
  BY <1>0 DEF StepperInv, CountInv, PulseInv, Calm, Undisturbed, Running
<1>5. TypeOK'
  BY <1>0, TodoType DEF StepperInv, TypeOK
<1>6. CountInv'
  BY <1>0 DEF StepperInv, CountInv
<1>7. PlaceInv'
  BY <1>0, <1>2, <1>3, <1>4 DEF Calm, Undisturbed, Running
<1>8. PulseInv'
  BY <1>0, <1>4 DEF Calm, StepperInv, PulseInv, MadeInv, Running, Undisturbed
<1>9. QED
  BY <1>5, <1>6, <1>7, <1>8 DEF StepperInv

----------------------------------------------------------------------------
(* The calls.                                                              *)

LEMMA ConstructorStep == ASSUME StepperInv, Driver PROVE StepperInv'
<1>0. /\ alive' /\ alive' = TRUE /\ todo' = Programs["ctor"]
      /\ UNCHANGED <<cmd, failed, pins, awake, node, inbox, outbox, pru1, i, sram, event, pru0, R, R10, made>>
  BY ProgramsAre DEF Driver, Rest, gpio, channel, receiver
<1>1. "ctor" \in Names
  BY DEF Names
<1>2. TypeOK'
  BY <1>0, <1>1, ProgramTypes DEF StepperInv, TypeOK
<1>3. CountInv'
  BY <1>0 DEF StepperInv, CountInv
<1>4. PlaceInv'
  <2>1. At("ctor", 1)'
    BY DEF At
  <2>2. QED
    BY <1>0, <1>1, <2>1, PlaceFirst
<1>5. PulseInv'
  BY <1>0 DEF StepperInv, PulseInv, MadeInv, Running, Undisturbed, Asking
<1>6. QED
  BY <1>2, <1>3, <1>4, <1>5 DEF StepperInv

LEMMA ActivateStep == ASSUME StepperInv, NEW c \in Commands, activateMotor(c) PROVE StepperInv'
<1>0. /\ Idle /\ alive' /\ todo' = Programs["move"] /\ cmd' = c /\ made' = << >>
      /\ UNCHANGED <<alive, failed, pins, awake, node, inbox, outbox, pru1, i, sram, event, pru0, R, R10>>
  BY ProgramsAre DEF activateMotor, Idle, Rest, gpio, channel, receiver
<1>1. "move" \in Names
  BY DEF Names
<1>2. Undisturbed => ~Running
  BY <1>0, IdlePlace DEF StepperInv, Calm
<1>3. TypeOK'
  <2>1. << >> \in Seq([high : 0 .. Word, low : 0 .. Word, pins : Pins])
    OBVIOUS
  <2>2. QED
    BY <1>0, <1>1, <2>1, ProgramTypes DEF StepperInv, TypeOK
<1>4. CountInv'
  BY <1>0 DEF StepperInv, CountInv
<1>5. PlaceInv'
  <2>1. At("move", 1)'
    BY <1>0, <1>2 DEF At, MoveAt, Undisturbed, Running
  <2>2. QED
    BY <1>0, <1>1, <2>1, PlaceFirst
<1>6. PulseInv'
  <2>1. MadeInv'
    BY <1>0, StepperAssumption DEF MadeInv
  <2>2. QED
    BY <1>0, <1>2, <2>1 DEF StepperInv, PulseInv, Running, Undisturbed
<1>7. QED
  BY <1>3, <1>4, <1>5, <1>6 DEF StepperInv

LEMMA CallStep == ASSUME StepperInv, sleep \/ wake \/ exit PROVE StepperInv'
<1>0. PICK q \in {"low", "high", "exit"} :
        /\ Idle /\ alive' /\ todo' = Programs[q]
        /\ UNCHANGED <<alive, cmd, failed, pins, awake, node, inbox, outbox, pru1, i, sram, event, pru0, R, R10, made>>
  BY ProgramsAre DEF sleep, wake, exit, Call, Idle, Rest, gpio, channel, receiver
<1>1. q \in Names
  BY DEF Names
<1>2. Undisturbed => ~Running
  BY <1>0, IdlePlace DEF StepperInv, Calm
<1>3. TypeOK'
  BY <1>0, <1>1, ProgramTypes DEF StepperInv, TypeOK
<1>4. CountInv'
  BY <1>0 DEF StepperInv, CountInv
<1>5. PlaceInv'
  <2>1. q # "move"
    OBVIOUS
  <2>2. At(q, 1)'
    BY <1>0, <1>2, <2>1 DEF At, Undisturbed, Running
  <2>3. QED
    BY <1>0, <1>1, <2>2, PlaceFirst
<1>6. PulseInv'
  BY <1>0, <1>2 DEF StepperInv, PulseInv, MadeInv, Running, Undisturbed
<1>7. QED
  BY <1>3, <1>4, <1>5, <1>6 DEF StepperInv

LEMMA SetModeStep == ASSUME StepperInv, NEW v \in Pins, setMode(v) PROVE StepperInv'
<1>0. /\ Idle /\ pins' = v
      /\ UNCHANGED <<alive, todo, cmd, failed, awake, node, inbox, outbox, pru1, i, sram, event, pru0, R, R10, made>>
  BY DEF setMode, Idle, process, call, channel, receiver, pulser
<1>1. Undisturbed => ~Running
  BY <1>0, IdlePlace DEF StepperInv, Calm
<1>2. TypeOK'
  BY <1>0 DEF StepperInv, TypeOK
<1>3. CountInv'
  BY <1>0 DEF StepperInv, CountInv
<1>4. PlaceInv'
  BY <1>0, <1>1 DEF PlaceInv, Idle, Calm, Undisturbed, Running
<1>5. PulseInv'
  BY <1>0, <1>1 DEF StepperInv, PulseInv, MadeInv, Running, Undisturbed
<1>6. QED
  BY <1>2, <1>3, <1>4, <1>5 DEF StepperInv

LEMMA EndStep == ASSUME StepperInv, gone \/ killed PROVE StepperInv'
<1>0. /\ alive' = FALSE /\ todo' = << >>
      /\ UNCHANGED <<cmd, failed, pins, awake, node, inbox, outbox, pru1, i, sram, event, pru0, R, R10, made>>
  BY DEF gone, killed, Rest, gpio, channel, receiver
<1>1. TypeOK'
  <2>1. << >> \in Seq(StepNames)
    OBVIOUS
  <2>2. QED
    BY <1>0, <2>1 DEF StepperInv, TypeOK
<1>2. CountInv'
  BY <1>0 DEF StepperInv, CountInv
<1>3. PlaceInv'
  BY <1>0 DEF PlaceInv
<1>4. PulseInv'
  BY <1>0 DEF StepperInv, PulseInv, MadeInv, Running, Undisturbed, Asking
<1>5. QED
  BY <1>1, <1>2, <1>3, <1>4 DEF StepperInv

LEMMA StutterStep == ASSUME StepperInv, UNCHANGED vars PROVE StepperInv'
<1>0. UNCHANGED <<alive, todo, cmd, failed, pins, awake, node, inbox, outbox, pru1, i, sram, event, pru0, R, R10, made>>
  BY DEF vars, process, call, gpio, channel, receiver, pulser
<1>1. TypeOK' /\ CountInv'
  BY <1>0 DEF StepperInv, TypeOK, CountInv
<1>2. PlaceInv'
  <2>1. SUFFICES ASSUME NEW q \in Names, NEW k \in Nat, At(q, k) PROVE At(q, k)'
    BY <1>0, PlaceStays DEF StepperInv, Calm, Undisturbed, Running
  <2>2. QED
    BY <1>0, <2>1 DEF At, MoveAt, Loading, Asking, SentBefore, Undisturbed, Running
<1>3. PulseInv'
  BY <1>0 DEF StepperInv, PulseInv, MadeInv, Running, Undisturbed, Asking
<1>4. QED
  BY <1>1, <1>2, <1>3 DEF StepperInv

----------------------------------------------------------------------------
LEMMA NextInv == StepperInv /\ [Next]_vars => StepperInv'
<1> SUFFICES ASSUME StepperInv, [Next]_vars PROVE StepperInv'
  OBVIOUS
<1>1. CASE PRU0
  BY <1>1, ConfigStep, LoadStep, SampleStep, TriggerStep DEF PRU0
<1>2. CASE PRU1
  BY <1>2, BootsStep, StoresStep, DoneStep DEF PRU1
<1>3. CASE Driver_step
  BY <1>3, SetPinsStep, DefaultPinsStep, SlpStep, P0DisableStep, P1DisableStep, P1EnableStep,
     P0EnableStep, SendStep, SendFailsStep, DoneReadStep DEF Driver_step
<1>4. CASE Driver \/ sleep \/ wake \/ exit \/ gone \/ killed
  BY <1>4, ConstructorStep, CallStep, EndStep
<1>5. CASE \E c \in Commands : activateMotor(c)
  BY <1>5, ActivateStep
<1>6. CASE \E v \in Pins : setMode(v)
  BY <1>6, SetModeStep
<1>7. CASE UNCHANGED vars
  BY <1>7, StutterStep
<1>8. QED
  BY <1>1, <1>2, <1>3, <1>4, <1>5, <1>6, <1>7 DEF Next

LEMMA Invariance == Spec => []StepperInv
  BY InitInv, NextInv, PTL DEF Spec

\* PRU1 is never sent a fourth number and never writes past the third word of
\* the shared RAM, at most one message "done" is unread, and the registers
\* stay within their width, also when a SENDMSG fails, when the process is
\* killed, and however slow PRU1 is.
THEOREM TypeCorrect == Spec => []TypeOK
<1>1. StepperInv => TypeOK
  BY DEF StepperInv
<1>2. QED
  BY <1>1, Invariance, PTL

\* A pending system event 16 is from the PRU0 that has just halted, so PRU1
\* never sends "done" for a move that is not over.
THEOREM EventFresh == ASSUME Prompt PROVE Spec => []EventIsFresh
<1>1. StepperInv => EventIsFresh
  BY DEF StepperInv, PulseInv, Undisturbed, EventIsFresh
<1>2. QED
  BY <1>1, Invariance, PTL

\* Only the answer "done" ends a move.
LEMMA OnlyDoneReturns == ASSUME [Next]_vars, Returns PROVE getMsg_done
<1>1. alive' /\ todo = <<"poll">> /\ todo' = << >> /\ todo # << >> /\ Head(todo) = "poll"
  BY DEF Returns
<1>2. todo' # todo
  BY <1>1
<1>3. ~UNCHANGED vars /\ ~PRU0 /\ ~PRU1
  BY <1>2 DEF vars, process, call, PRU0, PRU1, configIntc, load, sample, trigger,
              pru1_boots, pru1_stores, pru1_done
<1>4. ~Driver
  <2>1. <<"p0.disable", "p1.disable", "default_pins">> # << >>
    OBVIOUS
  <2>2. QED
    BY <1>1, <2>1 DEF Driver
<1>5. ~(\E c \in Commands : activateMotor(c)) /\ ~(\E v \in Pins : setMode(v))
      /\ ~sleep /\ ~wake /\ ~exit
  BY <1>1 DEF activateMotor, setMode, sleep, wake, exit, Call, Idle
<1>6. ~gone /\ ~killed
  BY <1>1 DEF gone, killed
<1>7. Driver_step
  BY <1>3, <1>4, <1>5, <1>6 DEF Next
<1>8. ASSUME NEW x, Step(x) PROVE x = "poll"
  BY <1>1, <1>8 DEF Step
<1>9. /\ ~set_pins /\ ~default_pins /\ ~p0_disable /\ ~p1_disable /\ ~p1_enable /\ ~p0_enable
      /\ ~set_SLP("SLP_low", FALSE) /\ ~set_SLP("SLP_high", TRUE)
      /\ ~sendMsg_raw /\ ~sendMsg_fails
  BY <1>8 DEF set_pins, default_pins, p0_disable, p1_disable, p1_enable, p0_enable, set_SLP,
              sendMsg_raw, Send, sendMsg_fails
<1>10. QED
  BY <1>7, <1>9 DEF Driver_step

\* What a command asks for is a sequence of its pulses.
LEMMA AskedIs ==
  ASSUME NEW c \in Commands
  PROVE  /\ c.pulses \in Nat
         /\ Asked(c) \in Seq([high : Nat, low : Int, pins : Pins])
         /\ Len(Asked(c)) = c.pulses
         /\ \A n \in 1 .. c.pulses :
              Asked(c)[n] = [high |-> c.on, low |-> c.total - c.on, pins |-> c.pins]
<1> DEFINE p == [high |-> c.on, low |-> c.total - c.on, pins |-> c.pins]
           S == [high : Nat, low : Int, pins : Pins]
           l == c.pulses
<1>1. l \in Nat /\ p \in S
  BY StepperAssumption
<1>2. Asked(c) = [n \in 1 .. l |-> p]
  BY DEF Asked
<1> HIDE DEF p, S, l
<1>3. [n \in 1 .. l |-> p] \in Seq(S) /\ Len([n \in 1 .. l |-> p]) = l
  BY <1>1
<1>4. \A n \in 1 .. l : [m \in 1 .. l |-> p][n] = p
  OBVIOUS
<1>5. QED
  BY <1>1, <1>2, <1>3, <1>4 DEF p, S, l

\* The motor never gets a pulse that the last command did not ask for: not
\* from numbers of an earlier move, not one too many, not in another mode or
\* direction, through any number of moves, kills and restarts in which PRU1
\* is done with what it was sent before the next command of the driver.
THEOREM PulsesAsAsked == ASSUME Prompt PROVE Spec => []StepsAsAsked
<1>1. ASSUME StepperInv PROVE StepsAsAsked
  <2>1. SUFFICES ASSUME ~failed PROVE IsPrefix(made, Asked(cmd))
    BY DEF StepsAsAsked
  <2>2. MadeInv /\ cmd \in Commands /\ Len(made) \in Nat
    BY <1>1, <2>1 DEF StepperInv, PulseInv, Undisturbed, TypeOK
  <2> DEFINE a == Asked(cmd)
             l == Len(made)
             S == [high : Nat, low : Int, pins : Pins]
  <2>3. a \in Seq(S) /\ l <= Len(a) /\ \A n \in 1 .. l : n \in 1 .. Len(a) /\ made[n] = a[n]
    <3>1. a \in Seq(S) /\ Len(a) = cmd.pulses /\ cmd.pulses \in Nat
      BY <2>2, AskedIs
    <3>2. \A n \in 1 .. cmd.pulses : a[n] = [high |-> cmd.on, low |-> cmd.total - cmd.on, pins |-> cmd.pins]
      BY <2>2, AskedIs
    <3>3. l \in Nat /\ l <= cmd.pulses
          /\ \A n \in 1 .. l : made[n] = [high |-> cmd.on, low |-> cmd.total - cmd.on, pins |-> cmd.pins]
      BY <2>2 DEF MadeInv
    <3> HIDE DEF a, l, S
    <3>4. \A n \in 1 .. l : n \in 1 .. cmd.pulses
      BY <3>1, <3>3
    <3>5. QED
      BY <3>1, <3>2, <3>3, <3>4
  <2>4. made \in Seq([high : 0 .. Word, low : 0 .. Word, pins : Pins])
    BY <1>1 DEF StepperInv, TypeOK
  <2>5. l \in Nat /\ l = Len(made)
    BY <2>2
  <2> HIDE DEF a, l, S
  <2>6. SubSeq(made, 1, l) = [n \in 1 .. l |-> made[n]]
    BY <2>4, <2>5
  <2>7. SubSeq(a, 1, l) = [n \in 1 .. l |-> a[n]]
    BY <2>3, <2>5
  <2>8. [n \in 1 .. l |-> made[n]] = [n \in 1 .. l |-> a[n]]
    BY <2>3
  <2>9. QED
    BY <2>3, <2>6, <2>7, <2>8 DEF IsPrefix, a, l
<1>2. QED
  BY <1>1, Invariance, PTL

\* When activateMotor returns, the motor has made exactly the pulses asked
\* for, each with its length, in the mode and direction set, unless it sleeps.
THEOREM MovesAreExact == ASSUME Prompt PROVE Spec => MoveIsExact
<1>1. ASSUME StepperInv, [Next]_vars, Returns, awake, ~failed PROVE made = Asked(cmd)
  <2>1. Step("poll") /\ outbox = 1
    BY <1>1, OnlyDoneReturns DEF getMsg_done
  <2>2. PICK q \in Names : \E k \in Nat : At(q, k) /\ Stands("poll", q, k)
    BY <1>1, <2>1, StepPlace DEF StepperInv
  <2>3. At("move", 9)
    BY <2>2 DEF Stands
  <2>4. pru0 # "off" /\ (pru0 = "halt" => Len(made) = cmd.pulses)
    BY <1>1, <2>3 DEF At, MoveAt, Undisturbed
  <2>5. pru0 = "halt"
    BY <1>1, <2>1, <2>4 DEF StepperInv, TypeOK, CountInv, PulseInv, Undisturbed, Running
  <2>6. MadeInv /\ cmd \in Commands
    BY <1>1 DEF StepperInv, PulseInv, Undisturbed, TypeOK
  <2> DEFINE a == Asked(cmd)
             S == [high : 0 .. Word, low : 0 .. Word, pins : Pins]
             T == [high : Nat, low : Int, pins : Pins]
  <2>7. a \in Seq(T) /\ Len(made) = Len(a) /\ \A n \in 1 .. Len(made) : made[n] = a[n]
    BY <2>4, <2>5, <2>6, AskedIs DEF MadeInv
  <2>8. made \in Seq(S)
    BY <1>1 DEF StepperInv, TypeOK
  <2> HIDE DEF a, S, T
  <2>9. made = [n \in 1 .. Len(made) |-> made[n]] /\ a = [n \in 1 .. Len(a) |-> a[n]]
    BY <2>7, <2>8
  <2>10. QED
    BY <2>7, <2>9 DEF a
<1>2. StepperInv /\ [Next]_vars => [Returns /\ awake /\ ~failed => made = Asked(cmd)]_vars
  BY <1>1
<1>3. QED
  BY <1>2, Invariance, PTL DEF Spec, MoveIsExact
=============================================================================
