------------------------- MODULE PrussControlProofs -------------------------
(***************************************************************************)
(* The control calls, proved: the shape of the state for any number of     *)
(* clients; and for a client that has the PRUs to itself, through any      *)
(* number of calls, kills and restarts, what the handles and the comments  *)
(* of the bindings promise.                                                *)
(***************************************************************************)
EXTENDS PrussControl, Integers, TLAPS

----------------------------------------------------------------------------
(* The invariant.                                                          *)

\* A command is for the first step of a call.
CallInv ==
  /\ \A c \in Clients : req[c] # "none" => todo[c] # << >>
  /\ \A c \in Clients : phase[c] \in {"absent", "exited"} => todo[c] = << >>

\* Only cores of a loaded module run.
CoreInv == ~probed => \A n \in PRUs : core[n] = "off"

\* A command outlives only the process that has sent it.
OrphanInv(c) == orphans # {} => phase[c] = "absent"

\* The daemon has carried out the command, and the client is still to hear.
Served(c) == req[c] \in {"0", "err"}

AllOff == \A n \in PRUs : core[n] = "off"
CoreVerbs == {"ENABLE", "DISABLE", "PAUSE", "RESUME", "LOAD"}

\* What a command that has been carried out has done: after a DISABLE the core
\* is off, whatever the answer.
ServedInv(c) ==
  Served(c) =>
    LET s == Head(todo[c]) IN s.verb = "DISABLE" => core[s.n] = "off"

\* The last steps of the constructor.
Starting(t) ==
  \/ t = <<Step("DISABLE", 0, "pruss"), Step("DISABLE", 1, "pruss")>> \o BootUp
  \/ t = <<Step("DISABLE", 1, "pruss")>> \o BootUp /\ core[0] = "off"
  \/ t = BootUp /\ AllOff

\* The last steps of shutDown, and what follows it.
Stopping(t, after) ==
  \/ t = ShutDown \o after
  \/ t = <<Step("DISABLE", 1, "own"), Step("UNPROBE_RPROC", 0, "pruss")>> \o after /\ core[0] = "off"
  \/ t = <<Step("UNPROBE_RPROC", 0, "pruss")>> \o after /\ AllOff

\* The steps of a call of a PRU, through PRUSS's handle.
OwnSteps == [verb : CoreVerbs, n : PRUs, k : {"own"}]

NoHandles(c) == \A n \in PRUs : state[c]["own"][n] = "NONE"

\* The constructor has not turned anything on.
StartInv(c) == phase[c] = "starting" => ~on[c] /\ NoHandles(c) /\ Starting(todo[c])

\* PRUSS is on, and a handle that says STOPPED tells the truth until the
\* daemon has enabled the core.
IsOn(c) ==
  /\ on[c]
  /\ \A n \in PRUs :
       /\ state[c]["own"][n] # "NONE"
       /\ state[c]["own"][n] = "STOPPED" =>
            core[n] = "off" \/ (req[c] = "0" /\ Head(todo[c]) = Step("ENABLE", n, "own"))

\* It is off, and so are the cores: the module may still be loaded, but the
\* handles let no command through that starts a core.
IsOff(c) ==
  /\ ~on[c]
  /\ AllOff
  /\ NoHandles(c)
  /\ req[c] # "none" => Head(todo[c]).verb \in {"LOAD", "PROBE_RPROC"}

\* Where a client is that makes no calls through copies: in a call of a PRU,
\* in bootUp, in shutDown or the destructor, or in restart.
Going(c) ==
  \/ todo[c] \in Seq(OwnSteps) /\ (phase[c] = "exiting" => AllOff /\ todo[c] = << >>)
  \/ todo[c] = BootUp /\ AllOff /\ phase[c] = "alive"
  \/ \E after \in {<< >>, BootUp} :
       on[c] /\ (after = << >> \/ phase[c] = "alive") /\ Stopping(todo[c], after)

OwnInv(c) ==
  c \notin strayed =>
    /\ phase[c] \in {"alive", "exiting"} => (IsOn(c) \/ IsOff(c)) /\ Going(c)
    /\ phase[c] = "exited" => Down

\* A client that has the PRUs to itself.
SoloInv(c) == OrphanInv(c) /\ ServedInv(c) /\ StartInv(c) /\ OwnInv(c)
Alone(c) == Clients = {c} /\ ~LateThreads

----------------------------------------------------------------------------
(* The daemon: what a command does to the cores.                           *)

LEMMA AcceptsIs ==
  /\ DOMAIN Accepts["ENABLE"] = {"off"} /\ Accepts["ENABLE"]["off"] = "run"
  /\ DOMAIN Accepts["DISABLE"] = {"run", "halt"}
  /\ Accepts["DISABLE"]["run"] = "off" /\ Accepts["DISABLE"]["halt"] = "off"
  /\ DOMAIN Accepts["PAUSE"] = {"off", "run", "halt"} /\ Accepts["PAUSE"]["off"] = "off"
  /\ Accepts["PAUSE"]["run"] = "halt" /\ Accepts["PAUSE"]["halt"] = "halt"
  /\ DOMAIN Accepts["RESUME"] = {"off", "run", "halt"} /\ Accepts["RESUME"]["off"] = "off"
  /\ Accepts["RESUME"]["run"] = "run" /\ Accepts["RESUME"]["halt"] = "run"
  /\ DOMAIN Accepts["LOAD"] = {"off"} /\ Accepts["LOAD"]["off"] = "off"
<1>1. /\ Accepts["ENABLE"] = [off |-> "run"]
      /\ Accepts["DISABLE"] = [run |-> "off", halt |-> "off"]
      /\ Accepts["PAUSE"] = [off |-> "off", run |-> "halt", halt |-> "halt"]
      /\ Accepts["RESUME"] = [off |-> "off", run |-> "run", halt |-> "run"]
      /\ Accepts["LOAD"] = [off |-> "off"]
  BY DEF Accepts
<1>2. DOMAIN [off |-> "run"] = {"off"} /\ [off |-> "run"]["off"] = "run"
  OBVIOUS
<1>3. /\ DOMAIN [run |-> "off", halt |-> "off"] = {"run", "halt"}
      /\ [run |-> "off", halt |-> "off"]["run"] = "off"
      /\ [run |-> "off", halt |-> "off"]["halt"] = "off"
  OBVIOUS
<1>4. /\ DOMAIN [off |-> "off", run |-> "halt", halt |-> "halt"] = {"off", "run", "halt"}
      /\ [off |-> "off", run |-> "halt", halt |-> "halt"]["off"] = "off"
      /\ [off |-> "off", run |-> "halt", halt |-> "halt"]["run"] = "halt"
      /\ [off |-> "off", run |-> "halt", halt |-> "halt"]["halt"] = "halt"
  OBVIOUS
<1>5. /\ DOMAIN [off |-> "off", run |-> "run", halt |-> "run"] = {"off", "run", "halt"}
      /\ [off |-> "off", run |-> "run", halt |-> "run"]["off"] = "off"
      /\ [off |-> "off", run |-> "run", halt |-> "run"]["run"] = "run"
      /\ [off |-> "off", run |-> "run", halt |-> "run"]["halt"] = "run"
  OBVIOUS
<1>6. DOMAIN [off |-> "off"] = {"off"} /\ [off |-> "off"]["off"] = "off"
  OBVIOUS
<1>7. QED
  BY <1>1, <1>2, <1>3, <1>4, <1>5, <1>6, Zenon

\* A command for one core leaves the module and the other core alone; a
\* core that is off stays off unless it is enabled; after a DISABLE it is off.
LEMMA CoreCommand ==
  ASSUME core \in [PRUs -> CoreStates], CoreInv,
         NEW v \in CoreVerbs, NEW n \in PRUs, NEW reply, handle(v, n, reply)
  PROVE  /\ core' \in [PRUs -> CoreStates]
         /\ probed' = probed
         /\ \A m \in PRUs : m # n => core'[m] = core[m]
         /\ v # "ENABLE" /\ core[n] = "off" => core'[n] = "off"
         /\ v = "DISABLE" => core'[n] = "off"
         /\ ~probed => core' = core
         /\ reply \in {"0", "err"}
         /\ reply # "0" => core' = core
<1>1. v \notin {"PROBE_RPROC", "UNPROBE_RPROC"}
  BY DEF CoreVerbs
<1>2. /\ probed' = probed
      /\ \/ Written(v, n) /\ reply = "0" /\ core' = [core EXCEPT ![n] = Accepts[v][core[n]]]
         \/ (~Written(v, n) \/ v \in {"ENABLE", "LOAD"}) /\ reply = "err" /\ core' = core
  BY <1>1, Zenon DEF handle, sysfs_write
<1>3. CASE (~Written(v, n) \/ v \in {"ENABLE", "LOAD"}) /\ reply = "err" /\ core' = core
  <2>1. v = "DISABLE" => core[n] = "off"
    BY <1>3, AcceptsIs DEF Written, CoreInv, CoreStates
  <2>2. QED
    BY <1>2, <1>3, <2>1
<1>4. CASE Written(v, n) /\ reply = "0" /\ core' = [core EXCEPT ![n] = Accepts[v][core[n]]]
  <2>1. probed /\ core' = [core EXCEPT ![n] = Accepts[v][core[n]]] /\ core[n] \in DOMAIN Accepts[v]
    BY <1>4 DEF Written
  <2> DEFINE x == Accepts[v][core[n]]
  <2>2. x \in CoreStates /\ (v # "ENABLE" /\ core[n] = "off" => x = "off") /\ (v = "DISABLE" => x = "off")
    <3>1. CASE v = "ENABLE"
      BY <2>1, <3>1, AcceptsIs DEF CoreStates
    <3>2. CASE v = "DISABLE"
      BY <2>1, <3>2, AcceptsIs DEF CoreStates
    <3>3. CASE v = "PAUSE"
      BY <2>1, <3>3, AcceptsIs DEF CoreStates
    <3>4. CASE v = "RESUME"
      BY <2>1, <3>4, AcceptsIs DEF CoreStates
    <3>5. CASE v = "LOAD"
      BY <2>1, <3>5, AcceptsIs DEF CoreStates
    <3>6. QED
      BY <3>1, <3>2, <3>3, <3>4, <3>5 DEF CoreVerbs
  <2> HIDE DEF x
  <2>3. core' = [core EXCEPT ![n] = x]
    BY <2>1 DEF x
  <2>4. QED
    BY <1>2, <1>4, <2>1, <2>2, <2>3
<1>5. QED
  BY <1>2, <1>3, <1>4, Zenon

\* The two commands about the module: they leave the cores alone, and a
\* module whose core runs is not removed, whatever they answer.
LEMMA ModuleCommand ==
  ASSUME NEW v \in {"PROBE_RPROC", "UNPROBE_RPROC"}, NEW n, NEW reply, handle(v, n, reply),
         probed \in BOOLEAN, CoreInv
  PROVE  core' = core /\ reply \in {"0", "err"} /\ probed' \in BOOLEAN /\ CoreInv'
<1>1. mod_probe(v, reply)
  BY Zenon DEF handle
<1>2. core' = core /\ reply \in {"0", "err"}
  BY <1>1, Zenon DEF mod_probe
<1>3. probed' = probed \/ probed' = TRUE \/ (probed' = FALSE /\ \A k \in PRUs : core[k] = "off")
  BY <1>1, Zenon DEF mod_probe
<1>4. probed' \in BOOLEAN
  BY <1>3
<1>5. CoreInv'
  <2>1. CASE probed' = probed
    BY <1>2, <2>1, Zenon DEF CoreInv
  <2>2. CASE probed' = TRUE
    BY <2>2, Zenon DEF CoreInv
  <2>3. CASE \A k \in PRUs : core[k] = "off"
    BY <1>2, <2>3, Zenon DEF CoreInv
  <2>4. QED
    BY <1>3, <2>1, <2>2, <2>3
<1>6. QED
  BY <1>2, <1>4, <1>5

LEMMA AnyCommand ==
  ASSUME probed \in BOOLEAN, core \in [PRUs -> CoreStates], CoreInv,
         NEW v \in Verbs, NEW n \in PRUs, NEW reply, handle(v, n, reply)
  PROVE  /\ probed' \in BOOLEAN
         /\ core' \in [PRUs -> CoreStates]
         /\ CoreInv'
         /\ reply \in {"0", "err"}
<1>1. CASE v \in CoreVerbs
  BY <1>1, CoreCommand DEF CoreInv
<1>2. CASE v \in {"PROBE_RPROC", "UNPROBE_RPROC"}
  BY <1>2, ModuleCommand
<1>3. QED
  BY <1>1, <1>2 DEF Verbs, CoreVerbs

----------------------------------------------------------------------------
(* The shape of the state, for any number of clients.                      *)

TypeInv == TypeOK /\ CallInv /\ CoreInv

\* The calls are lists of steps.
LEMMA CallsAreSteps ==
  /\ \A v \in Verbs : \A n \in PRUs : \A k \in Kinds \union {"pruss"} : Step(v, n, k) \in Steps
  /\ BootUp \in Seq(Steps) /\ ShutDown \in Seq(Steps) /\ ShutDown \o BootUp \in Seq(Steps)
  /\ (<<Step("DISABLE", 0, "pruss"), Step("DISABLE", 1, "pruss")>> \o BootUp) \in Seq(Steps)
  /\ BootUp # << >> /\ ShutDown # << >>
<1>1. \A v \in Verbs : \A n \in PRUs : \A k \in Kinds \union {"pruss"} : Step(v, n, k) \in Steps
  BY DEF Steps, Step
<1>2. /\ Step("PROBE_RPROC", 0, "pruss") \in Steps /\ Step("UNPROBE_RPROC", 0, "pruss") \in Steps
      /\ Step("DISABLE", 0, "pruss") \in Steps /\ Step("DISABLE", 1, "pruss") \in Steps
      /\ Step("DISABLE", 0, "own") \in Steps /\ Step("DISABLE", 1, "own") \in Steps
  BY <1>1, ControlAssumption DEF Verbs, PRUs
<1>3. \A S : \A a, b, c \in S : <<a>> \in Seq(S) /\ <<a, b>> \in Seq(S) /\ <<a, b, c>> \in Seq(S)
  OBVIOUS
<1>4. BootUp \in Seq(Steps) /\ ShutDown \in Seq(Steps)
      /\ <<Step("DISABLE", 0, "pruss"), Step("DISABLE", 1, "pruss")>> \in Seq(Steps)
  BY <1>2, <1>3, Zenon DEF BootUp, ShutDown
<1>5. \A S : \A s, t \in Seq(S) : s \o t \in Seq(S)
  OBVIOUS
<1>6. \A a, b, c : <<a>> # << >> /\ <<a, b, c>> # << >>
  OBVIOUS
<1>7. BootUp # << >> /\ ShutDown # << >>
  BY <1>6, Zenon DEF BootUp, ShutDown
<1>8. QED
  BY <1>1, <1>4, <1>5, <1>7, Zenon

\* The first step of a call, and the others.
LEMMA HeadAndTail ==
  ASSUME NEW S, NEW t \in Seq(S), t # << >>
  PROVE  Head(t) \in S /\ Tail(t) \in Seq(S)
  OBVIOUS

LEMMA TypeInit == Init => TypeInv
<1> SUFFICES ASSUME Init PROVE TypeInv
  OBVIOUS
<1>1. << >> \in Seq(Steps)
  OBVIOUS
<1>2. TypeOK
  BY <1>1 DEF Init, TypeOK, CoreStates, Phases, Requests, Handles, State
<1>3. CallInv /\ CoreInv
  BY DEF Init, CallInv, CoreInv
<1>4. QED
  BY <1>2, <1>3 DEF TypeInv

LEMMA TypeServes == ASSUME TypeInv, NEW c \in Clients, daemon_serves(c) PROVE TypeInv'
<1>0. todo[c] # << >> /\ todo[c] \in Seq(Steps)
  BY DEF daemon_serves, TypeInv, TypeOK, CallInv
<1>1. Head(todo[c]) \in Steps
  BY <1>0, HeadAndTail
<1> DEFINE v == Head(todo[c]).verb
           n == Head(todo[c]).n
<1>2. v \in Verbs /\ n \in PRUs
  BY <1>1 DEF Steps
<1>3a. PICK r \in {"0", "err"} : handle(v, n, r) /\ req' = [req EXCEPT ![c] = r]
  BY Zenon DEF daemon_serves
<1>3. handle(v, n, r) /\ req' = [req EXCEPT ![c] = r]
      /\ UNCHANGED <<orphans, phase, on, state, todo, strayed>>
  BY <1>3a DEF daemon_serves, local
<1> HIDE DEF v, n
<1>4. probed' \in BOOLEAN /\ core' \in [PRUs -> CoreStates] /\ CoreInv' /\ r \in {"0", "err"}
  BY <1>2, <1>3, AnyCommand DEF TypeInv, TypeOK
<1>5. TypeOK'
  BY <1>3, <1>4 DEF TypeInv, TypeOK, Requests
<1>6. CallInv'
  BY <1>0, <1>3 DEF TypeInv, TypeOK, CallInv
<1>7. QED
  BY <1>4, <1>5, <1>6 DEF TypeInv

LEMMA TypeServesOrphan ==
  ASSUME TypeInv, NEW s \in orphans, daemon_serves_orphan(s) PROVE TypeInv'
<1>1. s.verb \in Verbs /\ s.n \in PRUs
  BY DEF TypeInv, TypeOK, Steps
<1>2a. PICK r \in {"0", "err"} : handle(s.verb, s.n, r)
  BY Zenon DEF daemon_serves_orphan
<1>2. handle(s.verb, s.n, r) /\ orphans' = orphans \ {s} /\ UNCHANGED <<phase, on, state, todo, req, strayed>>
  BY <1>2a DEF daemon_serves_orphan, local
<1>3. probed' \in BOOLEAN /\ core' \in [PRUs -> CoreStates] /\ CoreInv'
  BY <1>1, <1>2, AnyCommand DEF TypeInv, TypeOK
<1>4. TypeOK'
  BY <1>2, <1>3 DEF TypeInv, TypeOK
<1>5. QED
  BY <1>2, <1>3, <1>4 DEF TypeInv, CallInv

LEMMA TypeEarly == ASSUME TypeInv, NEW c \in Clients, returns_early(c) PROVE TypeInv'
<1>1. todo[c] \in Seq(Steps) /\ todo[c] # << >> /\ req[c] = "none"
      /\ todo' = [todo EXCEPT ![c] = Tail(todo[c])]
      /\ UNCHANGED <<probed, core, orphans, phase, on, state, req, strayed>>
  BY DEF returns_early, TypeInv, TypeOK, rproc, local
<1>2. Tail(todo[c]) \in Seq(Steps)
  BY <1>1, HeadAndTail
<1>3. TypeOK'
  BY <1>1, <1>2 DEF TypeInv, TypeOK
<1>4. CallInv' /\ CoreInv'
  BY <1>1, <1>2 DEF TypeInv, TypeOK, CallInv, CoreInv
<1>5. QED
  BY <1>3, <1>4 DEF TypeInv

LEMMA TypeSends == ASSUME TypeInv, NEW c \in Clients, sendcmd(c) PROVE TypeInv'
<1>1. todo[c] # << >> /\ req' = [req EXCEPT ![c] = "sent"]
      /\ UNCHANGED <<probed, core, orphans, phase, on, state, todo, strayed>>
  BY DEF sendcmd, rproc, local
<1>2. TypeOK'
  BY <1>1 DEF TypeInv, TypeOK, Requests
<1>3. CallInv' /\ CoreInv'
  BY <1>1 DEF TypeInv, TypeOK, CallInv, CoreInv
<1>4. QED
  BY <1>2, <1>3 DEF TypeInv

\* What a handle becomes.
LEMMA BecomesIs ==
  /\ Becomes["ENABLE"] = "RUNNING" /\ Becomes["DISABLE"] = "STOPPED"
  /\ Becomes["PAUSE"] = "HALTED" /\ Becomes["RESUME"] = "RUNNING"
  BY DEF Becomes

\* What a result 0 does to PRUSS and the handles.
LEMMA SucceedsIs ==
  ASSUME NEW c, NEW s, succeeds(c, s)
  PROVE  /\ s.verb = "PROBE_RPROC" =>
              on' = [on EXCEPT ![c] = TRUE] /\ SetOwn(c, "STOPPED")
         /\ s.verb = "UNPROBE_RPROC" =>
              on' = [on EXCEPT ![c] = FALSE] /\ SetOwn(c, "NONE")
         /\ s.verb \in {"ENABLE", "DISABLE", "PAUSE", "RESUME"} /\ s.k # "pruss" =>
              state' = [state EXCEPT ![c][s.k][s.n] = Becomes[s.verb]] /\ on' = on
         /\ s.verb = "LOAD" \/ (s.k = "pruss" /\ s.verb \in CoreVerbs) =>
              state' = state /\ on' = on
<1>0. DOMAIN Becomes = {"ENABLE", "DISABLE", "PAUSE", "RESUME"}
  BY DEF Becomes
<1>1. CASE s.verb = "PROBE_RPROC"
  <2>1. s.verb # "UNPROBE_RPROC" /\ s.verb \notin DOMAIN Becomes /\ s.verb \notin CoreVerbs /\ s.verb # "LOAD"
    BY <1>0, <1>1 DEF CoreVerbs
  <2>2. on' = [on EXCEPT ![c] = TRUE] /\ SetOwn(c, "STOPPED")
    BY <1>1, <2>1, Zenon DEF succeeds
  <2>3. QED
    BY <1>0, <1>1, <2>1, <2>2, Zenon
<1>2. CASE s.verb = "UNPROBE_RPROC"
  <2>1. s.verb # "PROBE_RPROC" /\ s.verb \notin DOMAIN Becomes /\ s.verb \notin CoreVerbs /\ s.verb # "LOAD"
    BY <1>0, <1>2 DEF CoreVerbs
  <2>2. on' = [on EXCEPT ![c] = FALSE] /\ SetOwn(c, "NONE")
    BY <1>2, <2>1, Zenon DEF succeeds
  <2>3. QED
    BY <1>0, <1>2, <2>1, <2>2, Zenon
<1>3. CASE s.verb \in DOMAIN Becomes /\ s.k # "pruss"
  <2>1. s.verb # "PROBE_RPROC" /\ s.verb # "UNPROBE_RPROC" /\ s.verb # "LOAD"
    BY <1>0, <1>3
  <2>2. state' = [state EXCEPT ![c][s.k][s.n] = Becomes[s.verb]] /\ on' = on
    BY <1>3, <2>1, Zenon DEF succeeds
  <2>3. QED
    BY <1>3, <2>1, <2>2, Zenon
<1>4. CASE s.verb \notin {"PROBE_RPROC", "UNPROBE_RPROC"} /\ ~(s.verb \in DOMAIN Becomes /\ s.k # "pruss")
  <2>1. s.verb # "PROBE_RPROC" /\ s.verb # "UNPROBE_RPROC"
    BY <1>4
  <2>2. UNCHANGED <<on, state>>
    BY <1>4, <2>1, Zenon DEF succeeds, local
  <2>3. QED
    BY <1>0, <1>4, <2>1, <2>2, Zenon
<1>5. QED
  BY <1>1, <1>2, <1>3, <1>4

LEMMA TypeReply == ASSUME TypeInv, NEW c \in Clients, got_reply(c) PROVE TypeInv'
<1>0. req[c] # "none" /\ todo[c] # << >> /\ todo[c] \in Seq(Steps)
  BY DEF got_reply, TypeInv, TypeOK, CallInv
<1> DEFINE s == Head(todo[c])
<1>1. s \in Steps /\ Tail(todo[c]) \in Seq(Steps)
  BY <1>0, HeadAndTail
<1> HIDE DEF s
<1>2. /\ IF req[c] = "0" THEN succeeds(c, s) ELSE UNCHANGED <<on, state>>
      /\ todo' = [todo EXCEPT ![c] = Tail(todo[c])]
      /\ req' = [req EXCEPT ![c] = "none"]
      /\ phase' = IF phase[c] = "starting" /\ Tail(todo[c]) = << >>
                    THEN [phase EXCEPT ![c] = "alive"] ELSE phase
      /\ UNCHANGED <<probed, core, orphans, strayed>>
  BY DEF got_reply, rproc, local, s
<1>3. on' \in [Clients -> BOOLEAN] /\ state' \in [Clients -> [Kinds -> [PRUs -> State]]]
  <2>0. on \in [Clients -> BOOLEAN] /\ state \in [Clients -> [Kinds -> [PRUs -> State]]] /\ "own" \in Kinds
    BY ControlAssumption DEF TypeInv, TypeOK
  <2>1. CASE req[c] # "0"
    BY <1>2, <2>0, <2>1
  <2>2. CASE req[c] = "0" /\ s.verb = "PROBE_RPROC"
    <3>1. on' = [on EXCEPT ![c] = TRUE] /\ state' = [state EXCEPT ![c]["own"] = [n \in PRUs |-> "STOPPED"]]
      BY <1>2, <2>2, SucceedsIs, Zenon DEF SetOwn
    <3>2. [n \in PRUs |-> "STOPPED"] \in [PRUs -> State]
      BY DEF State
    <3>3. QED
      BY <2>0, <3>1, <3>2
  <2>3. CASE req[c] = "0" /\ s.verb = "UNPROBE_RPROC"
    <3>1. on' = [on EXCEPT ![c] = FALSE] /\ state' = [state EXCEPT ![c]["own"] = [n \in PRUs |-> "NONE"]]
      BY <1>2, <2>3, SucceedsIs, Zenon DEF SetOwn
    <3>2. [n \in PRUs |-> "NONE"] \in [PRUs -> State]
      BY DEF State
    <3>3. QED
      BY <2>0, <3>1, <3>2
  <2>4. CASE req[c] = "0" /\ s.verb \in CoreVerbs
    <3>1. CASE s.k # "pruss" /\ s.verb # "LOAD"
      <4>1. s.k \in Kinds /\ s.n \in PRUs /\ s.verb \in {"ENABLE", "DISABLE", "PAUSE", "RESUME"}
        BY <1>1, <2>4, <3>1 DEF Steps, CoreVerbs
      <4>2. Becomes[s.verb] \in State
        BY <4>1, BecomesIs DEF State
      <4>3. state' = [state EXCEPT ![c][s.k][s.n] = Becomes[s.verb]] /\ on' = on
        BY <1>2, <2>4, <3>1, <4>1, SucceedsIs, Zenon
      <4>4. QED
        BY <2>0, <4>1, <4>2, <4>3
    <3>2. CASE ~(s.k # "pruss" /\ s.verb # "LOAD")
      <4>1. state' = state /\ on' = on
        BY <1>2, <2>4, <3>2, SucceedsIs, Zenon
      <4>2. QED
        BY <2>0, <4>1
    <3>3. QED
      BY <3>1, <3>2
  <2>5. QED
    BY <1>1, <2>1, <2>2, <2>3, <2>4 DEF Steps, Verbs, CoreVerbs
<1>4. TypeOK'
  BY <1>1, <1>2, <1>3 DEF TypeInv, TypeOK, Phases, Requests
<1>5. CallInv' /\ CoreInv'
  <2>1. \A d \in Clients : phase'[d] \in {"absent", "exited"} => phase'[d] = phase[d]
    BY <1>2 DEF TypeInv, TypeOK
  <2>2. phase[c] \notin {"absent", "exited"}
    BY <1>0 DEF TypeInv, CallInv
  <2>3. QED
    BY <1>2, <2>1, <2>2 DEF TypeInv, TypeOK, CallInv, CoreInv
<1>6. QED
  BY <1>4, <1>5 DEF TypeInv

LEMMA TypeCall ==
  ASSUME TypeInv, NEW c \in Clients, NEW steps \in Seq(Steps), Call(c, steps) PROVE TypeInv'
<1>1. /\ phase[c] = "alive" /\ todo' = [todo EXCEPT ![c] = steps]
      /\ strayed' \subseteq strayed \union {c} /\ todo[c] = << >>
      /\ UNCHANGED <<probed, core, orphans, phase, on, state, req>>
  BY DEF Call, Idle, rproc, local
<1>2. TypeOK'
  BY <1>1 DEF TypeInv, TypeOK
<1>3. CallInv' /\ CoreInv'
  BY <1>1 DEF TypeInv, TypeOK, CallInv, CoreInv
<1>4. QED
  BY <1>2, <1>3 DEF TypeInv

\* The calls of a PRU.
PruCall(c) ==
  \E n \in PRUs, k \in Kinds :
    enable(c, n, k) \/ disable(c, n, k) \/ reset(c, n, k) \/ pause(c, n, k)
    \/ resume(c, n, k) \/ load(c, n, k)

\* They are lists of one to three commands through one handle.
LEMMA PruCallIs ==
  ASSUME NEW c, PruCall(c)
  PROVE  \E k \in Kinds : \E steps \in Seq([verb : CoreVerbs, n : PRUs, k : {k}]) :
           Call(c, steps) /\ steps # << >>
<1>1. PICK n \in PRUs, k \in Kinds :
        enable(c, n, k) \/ disable(c, n, k) \/ reset(c, n, k) \/ pause(c, n, k)
        \/ resume(c, n, k) \/ load(c, n, k)
  BY DEF PruCall
<1> DEFINE S == [verb : CoreVerbs, n : PRUs, k : {k}]
<1>2. /\ Step("ENABLE", n, k) \in S /\ Step("DISABLE", n, k) \in S /\ Step("PAUSE", n, k) \in S
      /\ Step("RESUME", n, k) \in S /\ Step("LOAD", n, k) \in S
  BY DEF Step, CoreVerbs
<1> HIDE DEF S
<1>3. \A a, b, d \in S : /\ <<a>> \in Seq(S) /\ <<a, b>> \in Seq(S) /\ <<a, b, d>> \in Seq(S)
                        /\ <<a>> # << >> /\ <<a, b>> # << >> /\ <<a, b, d>> # << >>
  OBVIOUS
<1>4. \E steps \in Seq(S) : Call(c, steps) /\ steps # << >>
  BY <1>1, <1>2, <1>3, Zenon DEF enable, disable, reset, pause, resume, load
<1>5. QED
  BY <1>4 DEF S

LEMMA TypeCalls ==
  ASSUME TypeInv, NEW c \in Clients,
         PruCall(c) \/ bootUp(c) \/ shutDown(c) \/ restart(c)
  PROVE  TypeInv'
<1>1. CASE PruCall(c)
  <2>1. PICK k \in Kinds : \E steps \in Seq([verb : CoreVerbs, n : PRUs, k : {k}]) : Call(c, steps)
    BY <1>1, PruCallIs
  <2> DEFINE S == [verb : CoreVerbs, n : PRUs, k : {k}]
  <2>2. PICK steps \in Seq(S) : Call(c, steps)
    BY <2>1
  <2>3. S \subseteq Steps
    BY DEF Steps, CoreVerbs, Verbs
  <2>4. steps \in Seq(Steps)
    <3> HIDE DEF S
    <3>1. \A A, B : A \subseteq B => \A t \in Seq(A) : t \in Seq(B)
      OBVIOUS
    <3>2. QED
      BY <2>2, <2>3, <3>1, Zenon
  <2>5. QED
    BY <2>2, <2>4, TypeCall
<1>2. CASE bootUp(c)
  BY <1>2, TypeCall, CallsAreSteps, Zenon DEF bootUp
<1>3. CASE shutDown(c)
  BY <1>3, TypeCall, CallsAreSteps, Zenon DEF shutDown
<1>4. CASE restart(c)
  <2>1. Call(c, ShutDown \o BootUp) \/ Call(c, << >> \o BootUp)
    BY <1>4, Zenon DEF restart
  <2>2. << >> \o BootUp \in Seq(Steps)
    BY CallsAreSteps
  <2>3. QED
    BY <2>1, <2>2, TypeCall, CallsAreSteps, Zenon
<1>5. QED
  BY <1>1, <1>2, <1>3, <1>4

LEMMA TypeProcess ==
  ASSUME TypeInv, NEW c \in Clients,
         PRUSS(c) \/ (\E n \in PRUs : copy(c, n)) \/ exit(c) \/ exited(c) \/ killed(c)
  PROVE  TypeInv'
<1>0. << >> \in Seq(Steps)
  OBVIOUS
<1>1. CASE PRUSS(c)
  <2> DEFINE t == <<Step("DISABLE", 0, "pruss"), Step("DISABLE", 1, "pruss")>> \o BootUp
             h == Handles("NONE")
  <2>1. t \in Seq(Steps)
    BY CallsAreSteps
  <2>2. h \in [Kinds -> [PRUs -> State]]
    BY DEF Handles, State
  <2>3. /\ phase' = [phase EXCEPT ![c] = "starting"] /\ on' = [on EXCEPT ![c] = FALSE]
        /\ state' = [state EXCEPT ![c] = h] /\ strayed' = strayed \ {c}
        /\ todo' = [todo EXCEPT ![c] = t] /\ phase[c] \in {"absent", "exited"}
        /\ UNCHANGED <<probed, core, orphans, req>>
    BY <1>1 DEF PRUSS, rproc
  <2> HIDE DEF t, h
  <2>4. TypeOK'
    BY <2>1, <2>2, <2>3 DEF TypeInv, TypeOK, Phases
  <2>5. CallInv' /\ CoreInv'
    BY <2>3 DEF TypeInv, TypeOK, CallInv, CoreInv
  <2>6. QED
    BY <2>4, <2>5 DEF TypeInv
<1>2. CASE \E n \in PRUs : copy(c, n)
  <2>1. PICK n \in PRUs : copy(c, n)
    BY <1>2
  <2>2. /\ state' = [state EXCEPT ![c]["copy"][n] = state[c]["own"][n]]
        /\ "copy" \in Kinds /\ "own" \in Kinds
        /\ UNCHANGED <<probed, core, orphans, phase, on, todo, req, strayed>>
    BY <2>1, ControlAssumption DEF copy, rproc
  <2>3. TypeOK'
    BY <2>2 DEF TypeInv, TypeOK
  <2>4. QED
    BY <2>2, <2>3 DEF TypeInv, CallInv, CoreInv
<1>3. CASE exit(c)
  <2>1. /\ phase' = [phase EXCEPT ![c] = "exiting"]
        /\ todo' = [todo EXCEPT ![c] = IF on[c] THEN ShutDown ELSE << >>]
        /\ phase[c] = "alive" /\ todo[c] = << >>
        /\ UNCHANGED <<probed, core, orphans, on, state, req, strayed>>
    BY <1>3 DEF exit, Idle, rproc, local
  <2>2. (IF on[c] THEN ShutDown ELSE << >>) \in Seq(Steps)
    BY <1>0, CallsAreSteps
  <2>3. TypeOK'
    BY <2>1, <2>2 DEF TypeInv, TypeOK, Phases
  <2>4. CallInv' /\ CoreInv'
    BY <2>1 DEF TypeInv, TypeOK, CallInv, CoreInv
  <2>5. QED
    BY <2>3, <2>4 DEF TypeInv
<1>4. CASE exited(c)
  <2>1. /\ phase' = [phase EXCEPT ![c] = "exited"] /\ todo[c] = << >>
        /\ UNCHANGED <<probed, core, orphans, on, state, todo, req, strayed>>
    BY <1>4 DEF exited, rproc, local
  <2>2. TypeOK'
    BY <2>1 DEF TypeInv, TypeOK, Phases
  <2>3. QED
    BY <2>1, <2>2 DEF TypeInv, TypeOK, CallInv, CoreInv
<1>5. CASE killed(c)
  <2>1. /\ phase' = [phase EXCEPT ![c] = "absent"]
        /\ orphans' = IF req[c] = "sent" THEN orphans \union {Head(todo[c])} ELSE orphans
        /\ todo' = [todo EXCEPT ![c] = << >>] /\ req' = [req EXCEPT ![c] = "none"]
        /\ UNCHANGED <<probed, core, on, state, strayed>>
    BY <1>5 DEF killed, rproc, local
  <2>2. req[c] = "sent" => Head(todo[c]) \in Steps
    BY HeadAndTail DEF TypeInv, TypeOK, CallInv
  <2>3. orphans' \subseteq Steps
    BY <2>1, <2>2 DEF TypeInv, TypeOK
  <2>4. TypeOK'
    BY <1>0, <2>1, <2>3 DEF TypeInv, TypeOK, Phases, Requests
  <2>5. CallInv' /\ CoreInv'
    BY <2>1 DEF TypeInv, TypeOK, CallInv, CoreInv
  <2>6. QED
    BY <2>4, <2>5 DEF TypeInv
<1>6. QED
  BY <1>1, <1>2, <1>3, <1>4, <1>5

\* The steps of the system, with the calls of a PRU in one.
LEMMA NextIs ==
  ASSUME Next
  PROVE  \/ \E s \in orphans : daemon_serves_orphan(s)
         \/ \E c \in Clients :
              \/ daemon_serves(c) \/ returns_early(c) \/ sendcmd(c) \/ got_reply(c)
              \/ PRUSS(c) \/ (\E n \in PRUs : copy(c, n)) \/ exit(c) \/ exited(c) \/ killed(c)
              \/ PruCall(c) \/ bootUp(c) \/ shutDown(c) \/ restart(c)
  BY Zenon DEF Next, PruCall

LEMMA TypeNext == TypeInv /\ [Next]_vars => TypeInv'
<1> SUFFICES ASSUME TypeInv, [Next]_vars PROVE TypeInv'
  OBVIOUS
<1>1. CASE Next
  BY <1>1, NextIs, TypeServes, TypeServesOrphan, TypeEarly, TypeSends, TypeReply, TypeProcess,
     TypeCalls, Zenon
<1>2. CASE UNCHANGED vars
  BY <1>2 DEF vars, rproc, local, TypeInv, TypeOK, CallInv, CoreInv
<1>3. QED
  BY <1>1, <1>2

\* The state keeps its shape, and every command in flight is the first step
\* of a call, with any number of processes, kills and late handler threads.
THEOREM TypeCorrect == Spec => []TypeOK
<1>1. TypeInv => TypeOK
  BY DEF TypeInv
<1>2. QED
  BY <1>1, TypeInit, TypeNext, PTL DEF Spec

----------------------------------------------------------------------------
(* Where the lists of steps are.                                           *)

\* The first step of a list that another one follows, and what is left.
LEMMA FirstOf == ASSUME NEW S, NEW r \in Seq(S), NEW t \in Seq(S), r # << >>
  PROVE Head(r \o t) = Head(r) /\ Tail(r \o t) = Tail(r) \o t /\ r \o t # << >>
<1> DEFINE q == r \o t
<1>0. Head(r) \in S /\ Tail(r) \in Seq(S) /\ Len(Tail(r)) = Len(r) - 1 /\ Len(r) > 0
      /\ \A i \in 1..(Len(r) - 1) : Tail(r)[i] = r[i+1]
  OBVIOUS
<1>1. q \in Seq(S) /\ Len(q) = Len(r) + Len(t) 
      /\ (\A i \in 1..Len(r) : q[i] = r[i])
      /\ (\A i \in 1..Len(t) : q[i+Len(r)] = t[i])
  OBVIOUS
<1>2. Head(q) = Head(r) /\ q # << >>
  BY <1>0, <1>1
<1> DEFINE u == Tail(r) \o t
<1>3. u \in Seq(S) /\ Len(u) = Len(r) - 1 + Len(t) 
      /\ (\A i \in 1..(Len(r)-1) : u[i] = Tail(r)[i])
      /\ (\A i \in 1..Len(t) : u[i+(Len(r)-1)] = t[i])
  BY <1>0
<1>4. Tail(q) \in Seq(S) /\ Len(Tail(q)) = Len(r) - 1 + Len(t) /\ \A i \in 1..(Len(r) - 1 + Len(t)) : Tail(q)[i] = q[i+1]
  BY <1>0, <1>1, <1>2
<1>5. \A i \in 1..(Len(r) - 1 + Len(t)) : Tail(q)[i] = u[i]
  <2> HIDE DEF q, u
  <2> TAKE i \in 1..(Len(r) - 1 + Len(t))
  <2>2. CASE i \in 1..(Len(r) - 1)
    BY <2>2, <1>0, <1>1, <1>3, <1>4
  <2>3. CASE i \notin 1..(Len(r) - 1)
    <3> DEFINE j == i - (Len(r) - 1)
    <3>1. j \in 1..Len(t) /\ i = j + (Len(r) - 1) /\ i + 1 = j + Len(r)
      BY <2>3, <1>0
    <3>2. Tail(q)[i] = t[j]
      BY <3>1, <1>1, <1>4
    <3>3. u[i] = t[j]
      BY <3>1, <1>3
    <3>4. QED
      BY <3>2, <3>3
  <2>4. QED BY <2>2, <2>3
<1>6. Tail(q) = u
  <2> HIDE DEF q, u
  <2> QED BY <1>3, <1>4, <1>5
<1>7. QED BY <1>2, <1>6

\* The steps of the constructor, one by one.
LEMMA StartLists ==
  /\ Head(<<Step("DISABLE", 0, "pruss"), Step("DISABLE", 1, "pruss")>> \o BootUp) = Step("DISABLE", 0, "pruss")
  /\ Tail(<<Step("DISABLE", 0, "pruss"), Step("DISABLE", 1, "pruss")>> \o BootUp)
       = <<Step("DISABLE", 1, "pruss")>> \o BootUp
  /\ Head(<<Step("DISABLE", 1, "pruss")>> \o BootUp) = Step("DISABLE", 1, "pruss")
  /\ Tail(<<Step("DISABLE", 1, "pruss")>> \o BootUp) = BootUp
  /\ <<Step("DISABLE", 1, "pruss")>> \o BootUp # << >>
  /\ Head(BootUp) = Step("PROBE_RPROC", 0, "pruss") /\ Tail(BootUp) = << >> /\ BootUp # << >>
<1> DEFINE a == Step("DISABLE", 0, "pruss")
           b == Step("DISABLE", 1, "pruss")
<1>0. a \in Steps /\ b \in Steps /\ BootUp \in Seq(Steps) /\ BootUp # << >>
  BY CallsAreSteps DEF Verbs, PRUs
<1> HIDE DEF a, b
<1>1. Head(<<a, b>>) = a /\ Tail(<<a, b>>) = <<b>> /\ Head(<<b>>) = b /\ Tail(<<b>>) = << >>
      /\ <<a, b>> # << >> /\ <<b>> # << >> /\ <<a, b>> \in Seq(Steps) /\ <<b>> \in Seq(Steps)
  BY <1>0
<1>2. << >> \o BootUp = BootUp
  BY <1>0
<1>9. \A r, t1 \in Seq(Steps) : r # << >> => Head(r \o t1) = Head(r) /\ Tail(r \o t1) = Tail(r) \o t1 /\ r \o t1 # << >>
  BY FirstOf
<1>3. Head(<<a, b>> \o BootUp) = a /\ Tail(<<a, b>> \o BootUp) = <<b>> \o BootUp
  <2>1. /\ Head(<<a, b>> \o BootUp) = Head(<<a, b>>)
        /\ Tail(<<a, b>> \o BootUp) = Tail(<<a, b>>) \o BootUp
    BY <1>0, <1>1, <1>9, Zenon
  <2>2. QED
    BY <1>1, <2>1, Zenon
<1>4. Head(<<b>> \o BootUp) = b /\ Tail(<<b>> \o BootUp) = BootUp /\ <<b>> \o BootUp # << >>
  BY <1>0, <1>1, <1>2, <1>9, Zenon
<1>5. Head(BootUp) = Step("PROBE_RPROC", 0, "pruss") /\ Tail(BootUp) = << >>
  BY DEF BootUp
<1>6. QED
  BY <1>0, <1>3, <1>4, <1>5, Zenon DEF a, b

\* What is left of the constructor.
LEMMA StartingSteps ==
  ASSUME NEW t, Starting(t)
  PROVE  \/ /\ Head(t) = Step("DISABLE", 0, "pruss")
            /\ Tail(t) = <<Step("DISABLE", 1, "pruss")>> \o BootUp /\ Tail(t) # << >>
         \/ /\ Head(t) = Step("DISABLE", 1, "pruss") /\ core[0] = "off"
            /\ Tail(t) = BootUp /\ Tail(t) # << >>
         \/ Head(t) = Step("PROBE_RPROC", 0, "pruss") /\ Tail(t) = << >> /\ AllOff
  BY StartLists, Zenon DEF Starting

\* The steps of shutDown, one by one.
LEMMA StopLists ==
  ASSUME NEW after \in {<< >>, BootUp}
  PROVE  /\ Head(ShutDown \o after) = Step("DISABLE", 0, "own")
         /\ Tail(ShutDown \o after)
              = <<Step("DISABLE", 1, "own"), Step("UNPROBE_RPROC", 0, "pruss")>> \o after
         /\ ShutDown \o after # << >>
         /\ Head(<<Step("DISABLE", 1, "own"), Step("UNPROBE_RPROC", 0, "pruss")>> \o after)
              = Step("DISABLE", 1, "own")
         /\ Tail(<<Step("DISABLE", 1, "own"), Step("UNPROBE_RPROC", 0, "pruss")>> \o after)
              = <<Step("UNPROBE_RPROC", 0, "pruss")>> \o after
         /\ <<Step("DISABLE", 1, "own"), Step("UNPROBE_RPROC", 0, "pruss")>> \o after # << >>
         /\ Head(<<Step("UNPROBE_RPROC", 0, "pruss")>> \o after) = Step("UNPROBE_RPROC", 0, "pruss")
         /\ Tail(<<Step("UNPROBE_RPROC", 0, "pruss")>> \o after) = after
         /\ <<Step("UNPROBE_RPROC", 0, "pruss")>> \o after # << >>
         /\ ShutDown \o << >> = ShutDown
<1> DEFINE a == Step("DISABLE", 0, "own")
           b == Step("DISABLE", 1, "own")
           d == Step("UNPROBE_RPROC", 0, "pruss")
<1>0. a \in Steps /\ b \in Steps /\ d \in Steps /\ after \in Seq(Steps) /\ ShutDown = <<a, b, d>>
  <2>1. "own" \in Kinds \union {"pruss"} /\ "pruss" \in Kinds \union {"pruss"}
    BY ControlAssumption
  <2>2. "DISABLE" \in Verbs /\ "UNPROBE_RPROC" \in Verbs /\ 0 \in PRUs /\ 1 \in PRUs
    BY DEF Verbs, PRUs
  <2>3. a \in Steps /\ b \in Steps /\ d \in Steps
    BY <2>1, <2>2, CallsAreSteps, Zenon
  <2>4. after \in Seq(Steps)
    <3>1. << >> \in Seq(Steps)
      OBVIOUS
    <3>2. QED
      BY <3>1, CallsAreSteps, Zenon
  <2>5. ShutDown = <<a, b, d>>
    BY DEF ShutDown
  <2>6. QED
    BY <2>3, <2>4, <2>5
<1> HIDE DEF a, b, d
<1>1. /\ Head(<<a, b, d>>) = a /\ Tail(<<a, b, d>>) = <<b, d>> /\ Head(<<b, d>>) = b
      /\ Tail(<<b, d>>) = <<d>> /\ Head(<<d>>) = d /\ Tail(<<d>>) = << >>
      /\ <<a, b, d>> # << >> /\ <<b, d>> # << >> /\ <<d>> # << >>
      /\ <<a, b, d>> \in Seq(Steps) /\ <<b, d>> \in Seq(Steps) /\ <<d>> \in Seq(Steps)
  BY <1>0
<1>2. << >> \o after = after
  BY <1>0
<1>9. \A r, t1 \in Seq(Steps) : r # << >> => Head(r \o t1) = Head(r) /\ Tail(r \o t1) = Tail(r) \o t1 /\ r \o t1 # << >>
  BY FirstOf
<1>3. /\ Head(<<a, b, d>> \o after) = a /\ Tail(<<a, b, d>> \o after) = <<b, d>> \o after
      /\ <<a, b, d>> \o after # << >>
  BY <1>0, <1>1, <1>9, ZenonT(30)
<1>4. /\ Head(<<b, d>> \o after) = b /\ Tail(<<b, d>> \o after) = <<d>> \o after
      /\ <<b, d>> \o after # << >>
  BY <1>0, <1>1, <1>9, Zenon
<1>5. Head(<<d>> \o after) = d /\ Tail(<<d>> \o after) = after /\ <<d>> \o after # << >>
  BY <1>0, <1>1, <1>2, <1>9, Zenon
<1>6. ShutDown \o << >> = ShutDown
  BY CallsAreSteps
<1>7. QED
  BY <1>0, <1>3, <1>4, <1>5, <1>6, Zenon DEF a, b, d

\* What is left of shutDown.
LEMMA StoppingSteps ==
  ASSUME NEW after \in {<< >>, BootUp}, NEW t, Stopping(t, after)
  PROVE  /\ t # << >>
         /\ \/ /\ Head(t) = Step("DISABLE", 0, "own")
               /\ Tail(t) = <<Step("DISABLE", 1, "own"), Step("UNPROBE_RPROC", 0, "pruss")>> \o after
            \/ /\ Head(t) = Step("DISABLE", 1, "own") /\ core[0] = "off"
               /\ Tail(t) = <<Step("UNPROBE_RPROC", 0, "pruss")>> \o after
            \/ Head(t) = Step("UNPROBE_RPROC", 0, "pruss") /\ Tail(t) = after /\ AllOff
  BY StopLists, Zenon DEF Stopping

\* Where a client is in the middle of a call.
LEMMA GoingSteps ==
  ASSUME NEW c, Going(c), todo[c] # << >>
  PROVE  \/ Head(todo[c]) \in OwnSteps /\ Tail(todo[c]) \in Seq(OwnSteps) /\ phase[c] # "exiting"
         \/ /\ Head(todo[c]) = Step("PROBE_RPROC", 0, "pruss") /\ Tail(todo[c]) = << >>
            /\ AllOff /\ phase[c] = "alive"
         \/ \E after \in {<< >>, BootUp} :
              /\ on[c] /\ (after = << >> \/ phase[c] = "alive")
              /\ \/ /\ Head(todo[c]) = Step("DISABLE", 0, "own")
                    /\ Tail(todo[c]) = <<Step("DISABLE", 1, "own"), Step("UNPROBE_RPROC", 0, "pruss")>> \o after
                 \/ /\ Head(todo[c]) = Step("DISABLE", 1, "own") /\ core[0] = "off"
                    /\ Tail(todo[c]) = <<Step("UNPROBE_RPROC", 0, "pruss")>> \o after
                 \/ Head(todo[c]) = Step("UNPROBE_RPROC", 0, "pruss") /\ Tail(todo[c]) = after /\ AllOff
<1>1. CASE todo[c] \in Seq(OwnSteps) /\ (phase[c] = "exiting" => AllOff /\ todo[c] = << >>)
  BY <1>1, HeadAndTail
<1>2. CASE todo[c] = BootUp /\ AllOff /\ phase[c] = "alive"
  <2>1. Head(BootUp) = Step("PROBE_RPROC", 0, "pruss") /\ Tail(BootUp) = << >>
    BY DEF BootUp
  <2>2. QED
    BY <1>2, <2>1
<1>3. CASE \E after \in {<< >>, BootUp} :
             on[c] /\ (after = << >> \/ phase[c] = "alive") /\ Stopping(todo[c], after)
  BY <1>3, StoppingSteps, Zenon
<1>4. QED
  BY <1>1, <1>2, <1>3, Zenon DEF Going

----------------------------------------------------------------------------
(* A client that has the PRUs to itself.                                   *)

LEMMA SoloInit == ASSUME Init, NEW c \in Clients PROVE SoloInv(c)
  BY DEF Init, SoloInv, OrphanInv, ServedInv, Served, StartInv, OwnInv

\* The first step of the call in progress.
LEMMA FirstStep ==
  ASSUME TypeInv, NEW c \in Clients, todo[c] # << >>
  PROVE  /\ Head(todo[c]) \in Steps /\ Head(todo[c]).verb \in Verbs /\ Head(todo[c]).n \in PRUs
         /\ Tail(todo[c]) \in Seq(Steps)
         /\ phase[c] \in {"starting", "alive", "exiting"}
<1>1. todo[c] \in Seq(Steps) /\ phase[c] \in Phases
  BY DEF TypeInv, TypeOK
<1>2. Head(todo[c]) \in Steps /\ Tail(todo[c]) \in Seq(Steps)
  BY <1>1, HeadAndTail
<1>3. phase[c] \in {"starting", "alive", "exiting"}
  BY <1>1 DEF TypeInv, CallInv, Phases
<1>4. QED
  BY <1>2, <1>3 DEF Steps

LEMMA StepIs ==
  ASSUME NEW v, NEW n, NEW k
  PROVE  Step(v, n, k).verb = v /\ Step(v, n, k).n = n /\ Step(v, n, k).k = k
  BY DEF Step

\* What the command of a call leaves of the module and the cores.
LEMMA Command ==
  ASSUME TypeInv, NEW c \in Clients, daemon_serves(c)
  PROVE  LET s == Head(todo[c]) IN
         /\ s.verb \in CoreVerbs =>
              /\ probed' = probed
              /\ \A m \in PRUs : m # s.n => core'[m] = core[m]
              /\ s.verb # "ENABLE" /\ core[s.n] = "off" => core'[s.n] = "off"
              /\ s.verb = "DISABLE" => core'[s.n] = "off"
              /\ ~probed => core' = core
              /\ req'[c] # "0" => core' = core
         /\ s.verb \in {"PROBE_RPROC", "UNPROBE_RPROC"} => core' = core
         /\ req'[c] \in {"0", "err"}
         /\ req[c] = "sent" /\ todo[c] # << >>
         /\ UNCHANGED <<orphans, phase, on, state, todo, strayed>>
<1> DEFINE s == Head(todo[c])
<1>0. todo[c] # << >> /\ req[c] = "sent"
  BY DEF daemon_serves, TypeInv, TypeOK, CallInv
<1>1. s.verb \in Verbs /\ s.n \in PRUs
  BY <1>0, FirstStep
<1> HIDE DEF s
<1>2a. PICK r \in {"0", "err"} : handle(s.verb, s.n, r) /\ req' = [req EXCEPT ![c] = r]
  BY Zenon DEF daemon_serves, s
<1>2. handle(s.verb, s.n, r) /\ UNCHANGED <<orphans, phase, on, state, todo, strayed>>
  BY <1>2a DEF daemon_serves, local
<1>3. req'[c] = r
  BY <1>2a DEF TypeInv, TypeOK
<1>4. s.verb \in CoreVerbs \/ s.verb \in {"PROBE_RPROC", "UNPROBE_RPROC"}
  BY <1>1 DEF Verbs, CoreVerbs
<1>5. "PROBE_RPROC" \notin CoreVerbs /\ "UNPROBE_RPROC" \notin CoreVerbs
  BY DEF CoreVerbs
<1>6. CASE s.verb \in CoreVerbs
  BY <1>0, <1>1, <1>2, <1>3, <1>5, <1>6, CoreCommand DEF TypeInv, TypeOK, s
<1>7. CASE s.verb \in {"PROBE_RPROC", "UNPROBE_RPROC"}
  <2>1. core' = core
    BY <1>2, <1>7, ModuleCommand DEF TypeInv, TypeOK
  <2>2. QED
    BY <1>0, <1>2, <1>3, <1>5, <1>7, <2>1 DEF s
<1>8. QED
  BY <1>4, <1>6, <1>7, Zenon

LEMMA SoloServes ==
  ASSUME TypeInv, NEW c \in Clients, SoloInv(c), daemon_serves(c) PROVE SoloInv(c)'
<1> DEFINE s == Head(todo[c])
<1>0. /\ req[c] = "sent" /\ todo[c] # << >> /\ s.n \in PRUs /\ s.verb \in Verbs
      /\ phase[c] \in {"starting", "alive", "exiting"} /\ orphans = {}
      /\ UNCHANGED <<orphans, phase, on, state, todo, strayed>>
  <2>1. req[c] = "sent" /\ todo[c] # << >> /\ UNCHANGED <<orphans, phase, on, state, todo, strayed>>
    BY Command, Zenon
  <2>2. QED
    BY <2>1, FirstStep DEF SoloInv, OrphanInv
<1>1. s.verb \in CoreVerbs =>
        /\ probed' = probed
        /\ \A m \in PRUs : m # s.n => core'[m] = core[m]
        /\ s.verb # "ENABLE" /\ core[s.n] = "off" => core'[s.n] = "off"
        /\ s.verb = "DISABLE" => core'[s.n] = "off"
        /\ ~probed => core' = core
        /\ req'[c] # "0" => core' = core
  BY Command, Zenon
<1>2. s.verb \in {"PROBE_RPROC", "UNPROBE_RPROC"} => core' = core
  BY Command, Zenon
<1>4. req'[c] \in {"0", "err"} /\ s' = s
  BY <1>0, Command, Zenon
<1>5. s.verb \in CoreVerbs \/ s.verb = "PROBE_RPROC" \/ s.verb = "UNPROBE_RPROC"
  BY <1>0 DEF Verbs, CoreVerbs
<1> HIDE DEF s
<1>6. OrphanInv(c)'
  BY <1>0 DEF OrphanInv
<1>7. ServedInv(c)'
  <2>1. s.verb = "DISABLE" => core'[s.n] = "off"
    BY <1>1 DEF CoreVerbs
  <2>2. QED
    BY <1>4, <2>1, Zenon DEF ServedInv, s
<1>8. StartInv(c)'
  <2>1. ASSUME Starting(todo[c]) PROVE Starting(todo[c])'
    <3>1. CASE todo[c] = <<Step("DISABLE", 0, "pruss"), Step("DISABLE", 1, "pruss")>> \o BootUp
      BY <1>0, <3>1, Zenon DEF Starting
    <3>2. CASE todo[c] = <<Step("DISABLE", 1, "pruss")>> \o BootUp /\ core[0] = "off"
      <4>1. s = Step("DISABLE", 1, "pruss")
        BY <3>2, StartLists, Zenon DEF s
      <4>2. s.verb = "DISABLE" /\ s.n = 1
        BY <4>1, StepIs
      <4>3. core'[0] = "off"
        BY <1>1, <3>2, <4>2 DEF CoreVerbs, PRUs
      <4>4. QED
        BY <1>0, <3>2, <4>3, Zenon DEF Starting
    <3>3. CASE todo[c] = BootUp /\ AllOff
      <4>0. s = Step("PROBE_RPROC", 0, "pruss")
        BY <3>3, StartLists, Zenon DEF s
      <4>1. s.verb = "PROBE_RPROC"
        BY <4>0, StepIs
      <4>2. AllOff'
        BY <1>2, <3>3, <4>1 DEF AllOff
      <4>3. QED
        BY <1>0, <3>3, <4>2, Zenon DEF Starting
    <3>4. QED
      BY <2>1, <3>1, <3>2, <3>3, Zenon DEF Starting
  <2>2. QED
    BY <1>0, <2>1 DEF SoloInv, StartInv, NoHandles
<1>9. ASSUME Going(c) PROVE Going(c)'
  <2>1. ASSUME NEW after \in {<< >>, BootUp}, Stopping(todo[c], after) PROVE Stopping(todo[c], after)'
    <3>1. CASE todo[c] = ShutDown \o after
      BY <1>0, <3>1, Zenon DEF Stopping
    <3>2. CASE /\ todo[c] = <<Step("DISABLE", 1, "own"), Step("UNPROBE_RPROC", 0, "pruss")>> \o after
               /\ core[0] = "off"
      <4>1. s = Step("DISABLE", 1, "own")
        BY <3>2, StopLists, Zenon DEF s
      <4>2. s.verb = "DISABLE" /\ s.n = 1
        BY <4>1, StepIs
      <4>3. core'[0] = "off"
        BY <1>1, <3>2, <4>2 DEF CoreVerbs, PRUs
      <4>4. QED
        BY <1>0, <3>2, <4>3, Zenon DEF Stopping
    <3>3. CASE todo[c] = <<Step("UNPROBE_RPROC", 0, "pruss")>> \o after /\ AllOff
      <4>0. s = Step("UNPROBE_RPROC", 0, "pruss")
        BY <3>3, StopLists, Zenon DEF s
      <4>1. s.verb = "UNPROBE_RPROC"
        BY <4>0, StepIs
      <4>2. AllOff'
        BY <1>2, <3>3, <4>1 DEF AllOff
      <4>3. QED
        BY <1>0, <3>3, <4>2, Zenon DEF Stopping
    <3>4. QED
      BY <2>1, <3>1, <3>2, <3>3, Zenon DEF Stopping
  <2>2. CASE \E after \in {<< >>, BootUp} :
               on[c] /\ (after = << >> \/ phase[c] = "alive") /\ Stopping(todo[c], after)
    BY <1>0, <2>1, <2>2, Zenon DEF Going
  <2>3. CASE todo[c] \in Seq(OwnSteps) /\ (phase[c] = "exiting" => AllOff /\ todo[c] = << >>)
    BY <1>0, <2>3, Zenon DEF Going
  <2>4. CASE todo[c] = BootUp /\ AllOff /\ phase[c] = "alive"
    <3>1. s = Step("PROBE_RPROC", 0, "pruss")
      BY <2>4, StartLists, Zenon DEF s
    <3>2. s.verb = "PROBE_RPROC"
      BY <3>1, StepIs
    <3>3. AllOff'
      BY <1>2, <2>4, <3>2 DEF AllOff
    <3>4. QED
      BY <1>0, <2>4, <3>3, Zenon DEF Going
  <2>5. QED
    BY <1>9, <2>2, <2>3, <2>4, Zenon DEF Going
<1>10. ASSUME IsOn(c), Going(c) PROVE IsOn(c)'
  <2>1. on[c] /\ on'[c] /\ ~IsOff(c)
    BY <1>0, <1>10 DEF IsOn, IsOff
  <2>3. ASSUME NEW n \in PRUs, state[c]["own"][n] = "STOPPED"
        PROVE  core'[n] = "off" \/ (req'[c] = "0" /\ s' = Step("ENABLE", n, "own"))
    <3>1. core[n] = "off"
      BY <1>0, <1>10, <2>3 DEF IsOn
    <3>2. CASE s.verb = "ENABLE"
      <4>1. s \in OwnSteps
        <5>1. s \notin {Step("PROBE_RPROC", 0, "pruss"), Step("DISABLE", 0, "own"),
                        Step("DISABLE", 1, "own"), Step("UNPROBE_RPROC", 0, "pruss")}
          BY <3>2, StepIs
        <5>2. QED
          BY <1>0, <1>10, <5>1, GoingSteps, Zenon DEF s
      <4>2. s = Step("ENABLE", s.n, "own")
        BY <3>2, <4>1 DEF OwnSteps, Step
      <4>3. CASE n = s.n
        BY <1>1, <1>4, <3>1, <3>2, <4>2, <4>3 DEF CoreVerbs
      <4>4. CASE n # s.n
        BY <1>1, <3>1, <3>2, <4>4 DEF CoreVerbs
      <4>5. QED
        BY <4>3, <4>4
    <3>3. CASE s.verb # "ENABLE"
      BY <1>0, <1>1, <1>2, <1>5, <3>1, <3>3
    <3>4. QED
      BY <3>2, <3>3
  <2>4. QED
    BY <1>0, <1>10, <2>1, <2>3 DEF IsOn, s
<1>11. ASSUME IsOff(c) PROVE IsOff(c)'
  <2>1. AllOff /\ s.verb \in {"LOAD", "PROBE_RPROC"}
    BY <1>0, <1>11 DEF IsOff, s
  <2>2. AllOff'
    BY <1>0, <1>1, <1>2, <2>1 DEF AllOff, CoreVerbs
  <2>3. QED
    BY <1>0, <1>4, <1>11, <2>1, <2>2 DEF IsOff, NoHandles, s
<1>12. OwnInv(c)'
  BY <1>0, <1>9, <1>10, <1>11 DEF SoloInv, OwnInv
<1>13. QED
  BY <1>6, <1>7, <1>8, <1>12 DEF SoloInv

LEMMA SoloEarly ==
  ASSUME TypeInv, NEW c \in Clients, SoloInv(c), returns_early(c) PROVE SoloInv(c)'
<1> DEFINE s == Head(todo[c])
<1>0. /\ todo[c] # << >> /\ req[c] = "none" /\ ~Goes(c, s)
      /\ todo'[c] = Tail(todo[c]) /\ req'[c] = "none"
      /\ UNCHANGED <<probed, core, orphans, phase, on, state, req, strayed>>
  BY DEF returns_early, rproc, local, TypeInv, TypeOK
<1>1. s.verb \in Verbs /\ s.n \in PRUs /\ phase[c] \in {"starting", "alive", "exiting"}
  BY <1>0, FirstStep
<1>2. /\ s.k # "pruss" => state[c][s.k][s.n] \notin Sends[s.verb]
      /\ s.k = "pruss" => s.verb = "PROBE_RPROC" /\ on[c]
  <2>1. CASE s.k # "pruss"
    BY <1>0, <2>1, Zenon DEF Goes
  <2>2. CASE s.k = "pruss" /\ s.verb = "PROBE_RPROC"
    BY <1>0, <2>2, Zenon DEF Goes
  <2>3. CASE s.k = "pruss" /\ s.verb # "PROBE_RPROC"
    BY <1>0, <2>3, Zenon DEF Goes
  <2>4. QED
    BY <2>1, <2>2, <2>3
<1>3. OrphanInv(c)' /\ ServedInv(c)'
  BY <1>0 DEF SoloInv, OrphanInv, ServedInv, Served
\* The steps of the constructor all send their commands.
<1>4. StartInv(c)'
  <2> SUFFICES ASSUME phase[c] = "starting" PROVE FALSE
    BY <1>0 DEF StartInv
  <2>1. Starting(todo[c]) /\ ~on[c]
    BY DEF SoloInv, StartInv
  <2>2. s \in {Step("DISABLE", 0, "pruss"), Step("DISABLE", 1, "pruss"), Step("PROBE_RPROC", 0, "pruss")}
    BY <2>1, StartingSteps, Zenon
  <2>3. s.k = "pruss"
    BY <2>2, StepIs
  <2>4. QED
    BY <1>2, <2>1, <2>3
<1> HIDE DEF s
\* A handle that refuses to disable its core says STOPPED: the core is off.
<1>5. ASSUME IsOn(c) \/ IsOff(c), Going(c) PROVE Going(c)'
  <2>1. CASE s \in OwnSteps /\ Tail(todo[c]) \in Seq(OwnSteps) /\ phase[c] # "exiting"
    BY <1>0, <2>1 DEF Going
  <2>2. CASE s = Step("PROBE_RPROC", 0, "pruss") /\ Tail(todo[c]) = << >> /\ phase[c] = "alive"
    <3>1. << >> \in Seq(OwnSteps)
      OBVIOUS
    <3>2. QED
      BY <1>0, <2>2, <3>1 DEF Going
  <2>3. ASSUME NEW n \in PRUs, s = Step("DISABLE", n, "own"), on[c] PROVE core[n] = "off"
    <3>1. s.k = "own" /\ s.n = n /\ s.verb = "DISABLE"
      BY <2>3, StepIs
    <3>2. Sends["DISABLE"] = {"RUNNING", "HALTED"}
      BY DEF Sends
    <3>3. state[c]["own"][n] \in State
      BY ControlAssumption DEF TypeInv, TypeOK
    <3>4. state[c]["own"][n] \in {"NONE", "STOPPED"}
      BY <1>2, <3>1, <3>2, <3>3 DEF State
    <3>5. QED
      BY <1>0, <1>5, <2>3, <3>4 DEF IsOn, IsOff
  <2>4. ASSUME NEW after \in {<< >>, BootUp}, on[c] /\ (after = << >> \/ phase[c] = "alive"),
               s = Step("DISABLE", 0, "own"),
               Tail(todo[c]) = <<Step("DISABLE", 1, "own"), Step("UNPROBE_RPROC", 0, "pruss")>> \o after
        PROVE  Going(c)'
    <3>1. core'[0] = "off"
      BY <1>0, <2>3, <2>4 DEF PRUs
    <3>2. Stopping(todo[c], after)'
      BY <1>0, <2>4, <3>1, Zenon DEF Stopping
    <3>3. QED
      BY <1>0, <2>4, <3>2, Zenon DEF Going
  <2>5. ASSUME NEW after \in {<< >>, BootUp}, on[c] /\ (after = << >> \/ phase[c] = "alive"),
               s = Step("DISABLE", 1, "own"), core[0] = "off",
               Tail(todo[c]) = <<Step("UNPROBE_RPROC", 0, "pruss")>> \o after
        PROVE  Going(c)'
    <3>1. AllOff'
      BY <1>0, <2>3, <2>5 DEF AllOff, PRUs
    <3>2. Stopping(todo[c], after)'
      BY <1>0, <2>5, <3>1, Zenon DEF Stopping
    <3>3. QED
      BY <1>0, <2>5, <3>2, Zenon DEF Going
  <2>6. CASE s = Step("UNPROBE_RPROC", 0, "pruss")
    BY <1>2, <2>6, StepIs
  <2>7. QED
    BY <1>0, <1>5, <2>1, <2>2, <2>4, <2>5, <2>6, GoingSteps, Zenon DEF s
<1>6. (IsOn(c) => IsOn(c)') /\ (IsOff(c) => IsOff(c)')
  BY <1>0 DEF IsOn, IsOff, AllOff, NoHandles
<1>7. OwnInv(c)'
  BY <1>0, <1>1, <1>5, <1>6 DEF SoloInv, OwnInv, Down
<1>8. QED
  BY <1>3, <1>4, <1>7 DEF SoloInv

LEMMA SoloSends ==
  ASSUME TypeInv, NEW c \in Clients, SoloInv(c), sendcmd(c) PROVE SoloInv(c)'
<1> DEFINE s == Head(todo[c])
<1>0. /\ req[c] = "none" /\ req'[c] = "sent" /\ todo[c] # << >> /\ Goes(c, s)
      /\ UNCHANGED <<probed, core, orphans, phase, on, state, todo, strayed>>
  BY DEF sendcmd, rproc, local, TypeInv, TypeOK
<1>1. OrphanInv(c)' /\ ServedInv(c)'
  BY <1>0 DEF SoloInv, OrphanInv, ServedInv, Served
<1>2. StartInv(c)'
  BY <1>0 DEF SoloInv, StartInv, NoHandles, Starting, AllOff
<1>3. IsOn(c) => IsOn(c)'
  BY <1>0 DEF IsOn
<1>4. Going(c) => Going(c)'
  BY <1>0, Zenon DEF Going, Stopping, AllOff
\* A handle that says NONE lets only LOAD through.
<1>5. ASSUME IsOff(c), Going(c) PROVE IsOff(c)'
  <2>1. CASE s \in OwnSteps
    <3>1. s.k = "own" /\ s.n \in PRUs /\ s.verb \in CoreVerbs
      BY <2>1 DEF OwnSteps
    <3> HIDE DEF s
    <3>2. state[c]["own"][s.n] \in Sends[s.verb]
      <4>1. s.k # "pruss"
        BY <3>1
      <4>2. QED
        BY <1>0, <3>1, <4>1, Zenon DEF Goes
    <3>3. state[c]["own"][s.n] = "NONE"
      BY <1>5, <3>1 DEF IsOff, NoHandles
    <3>4. /\ "NONE" \notin Sends["ENABLE"] /\ "NONE" \notin Sends["DISABLE"]
          /\ "NONE" \notin Sends["PAUSE"] /\ "NONE" \notin Sends["RESUME"]
      BY DEF Sends
    <3>5. s.verb = "LOAD"
      BY <3>1, <3>2, <3>3, <3>4 DEF CoreVerbs
    <3>6. QED
      BY <1>0, <1>5, <3>5 DEF IsOff, AllOff, NoHandles, s
  <2>2. CASE s = Step("PROBE_RPROC", 0, "pruss")
    <3>1. s.verb = "PROBE_RPROC"
      BY <2>2, StepIs
    <3>2. QED
      BY <1>0, <1>5, <3>1 DEF IsOff, AllOff, NoHandles
  <2>3. ~on[c]
    BY <1>5 DEF IsOff
  <2>4. QED
    BY <1>0, <1>5, <2>1, <2>2, <2>3, GoingSteps, Zenon
<1>6. OwnInv(c)'
  BY <1>0, <1>3, <1>4, <1>5 DEF SoloInv, OwnInv, Down
<1>7. QED
  BY <1>1, <1>2, <1>6 DEF SoloInv

\* What the answer to a command leaves: the results of ServedInv have come
\* true, and the handles say so.
LEMMA SoloReply ==
  ASSUME TypeInv, NEW c \in Clients, SoloInv(c), got_reply(c)
  PROVE  /\ SoloInv(c)'
         /\ phase[c] = "starting" /\ phase'[c] = "alive" =>
              \A n \in PRUs :
                core'[n] = "off" /\ state'[c]["own"][n] = IF on'[c] THEN "STOPPED" ELSE "NONE"
<1> DEFINE s == Head(todo[c])
<1>0. /\ todo[c] # << >> /\ Served(c) /\ todo'[c] = Tail(todo[c]) /\ req'[c] = "none"
      /\ IF req[c] = "0" THEN succeeds(c, s) ELSE UNCHANGED <<on, state>>
      /\ phase'[c] = IF phase[c] = "starting" /\ Tail(todo[c]) = << >> THEN "alive" ELSE phase[c]
      /\ UNCHANGED <<probed, core, orphans, strayed>>
  BY DEF got_reply, rproc, local, TypeInv, TypeOK, CallInv, Served
<1>1. s.verb \in Verbs /\ s.n \in PRUs /\ s \in Steps /\ phase[c] \in {"starting", "alive", "exiting"}
  BY <1>0, FirstStep
<1>2. s.verb = "DISABLE" => core[s.n] = "off"
  BY <1>0 DEF SoloInv, ServedInv
<1>3. OrphanInv(c)' /\ ServedInv(c)'
  BY <1>0, <1>1 DEF SoloInv, OrphanInv, ServedInv, Served
<1>4. "own" \in Kinds /\ on \in [Clients -> BOOLEAN] /\ state \in [Clients -> [Kinds -> [PRUs -> State]]]
  BY ControlAssumption DEF TypeInv, TypeOK
<1> HIDE DEF s
\* What the handles become.
<1>5. ASSUME s.verb = "PROBE_RPROC", req[c] = "0"
      PROVE  on'[c] /\ \A n \in PRUs : state'[c]["own"][n] = "STOPPED"
  <2>1. on' = [on EXCEPT ![c] = TRUE] /\ state' = [state EXCEPT ![c]["own"] = [n \in PRUs |-> "STOPPED"]]
    BY <1>0, <1>5, SucceedsIs, Zenon DEF SetOwn
  <2>2. QED
    BY <1>4, <2>1
<1>6. ASSUME s.verb = "UNPROBE_RPROC", req[c] = "0" PROVE ~on'[c] /\ NoHandles(c)'
  <2>1. on' = [on EXCEPT ![c] = FALSE] /\ state' = [state EXCEPT ![c]["own"] = [n \in PRUs |-> "NONE"]]
    BY <1>0, <1>6, SucceedsIs, Zenon DEF SetOwn
  <2>2. QED
    BY <1>4, <2>1 DEF NoHandles
<1>7. ASSUME s.verb \in CoreVerbs, s.k = "pruss" PROVE on' = on /\ state' = state
  BY <1>0, <1>7, SucceedsIs, Zenon
<1>8. ASSUME req[c] # "0" PROVE on' = on /\ state' = state
  BY <1>0, <1>8
<1>9. ASSUME s.verb \in CoreVerbs, s.k = "own", req[c] = "0"
      PROVE  /\ on' = on
             /\ \A n \in PRUs : n # s.n => state'[c]["own"][n] = state[c]["own"][n]
             /\ s.verb = "LOAD" => state' = state
             /\ s.verb # "LOAD" => state'[c]["own"][s.n] = Becomes[s.verb]
  <2>1. CASE s.verb = "LOAD"
    BY <1>0, <1>9, <2>1, SucceedsIs, Zenon
  <2>2. CASE s.verb # "LOAD"
    <3>1. s.verb \in {"ENABLE", "DISABLE", "PAUSE", "RESUME"} /\ s.k # "pruss"
      BY <1>9, <2>2 DEF CoreVerbs
    <3>2. state' = [state EXCEPT ![c][s.k][s.n] = Becomes[s.verb]] /\ on' = on
      BY <1>0, <1>9, <3>1, SucceedsIs, Zenon
    <3> DEFINE x == Becomes[s.verb]
    <3>3. state' = [state EXCEPT ![c]["own"][s.n] = x]
      BY <1>9, <3>2
    <3> HIDE DEF x
    <3>4. state'[c]["own"][s.n] = x /\ \A n \in PRUs : n # s.n => state'[c]["own"][n] = state[c]["own"][n]
      BY <1>1, <1>4, <3>3
    <3>5. QED
      BY <2>2, <3>2, <3>4 DEF x
  <2>3. QED
    BY <2>1, <2>2

<1>10. ASSUME s.verb \in CoreVerbs, s.k = "own", IsOn(c) PROVE IsOn(c)'
  <2>0. on'[c]
    BY <1>8, <1>9, <1>10 DEF IsOn
  <2>1. ASSUME NEW n \in PRUs
        PROVE  /\ state'[c]["own"][n] # "NONE"
               /\ state'[c]["own"][n] = "STOPPED" => core[n] = "off"
    <3>1. /\ state[c]["own"][n] # "NONE"
          /\ state[c]["own"][n] = "STOPPED" =>
               core[n] = "off" \/ (req[c] = "0" /\ s = Step("ENABLE", n, "own"))
      BY <1>10 DEF IsOn, s
    <3>2. s = Step("ENABLE", n, "own") => s.verb = "ENABLE" /\ s.n = n
      BY StepIs
    <3>3. CASE req[c] # "0"
      BY <1>8, <1>10, <3>1, <3>3
    <3>4. CASE req[c] = "0" /\ n # s.n
      BY <1>9, <1>10, <3>1, <3>2, <3>4
    <3>5. CASE req[c] = "0" /\ n = s.n /\ s.verb = "LOAD"
      BY <1>9, <1>10, <3>1, <3>2, <3>5
    <3>6. CASE req[c] = "0" /\ n = s.n /\ s.verb # "LOAD"
      <4>1. state'[c]["own"][n] = Becomes[s.verb]
        BY <1>9, <1>10, <3>6
      <4>2. s.verb \in {"ENABLE", "DISABLE", "PAUSE", "RESUME"}
        BY <1>10, <3>6 DEF CoreVerbs
      <4>3. Becomes[s.verb] # "NONE" /\ (Becomes[s.verb] = "STOPPED" => s.verb = "DISABLE")
        BY <4>2, BecomesIs
      <4>4. QED
        BY <1>2, <3>6, <4>1, <4>3
    <3>7. QED
      BY <3>3, <3>4, <3>5, <3>6
  <2>2. QED
    BY <1>0, <2>0, <2>1 DEF IsOn
\* A PRUSS that is off has sent a LOAD, which changes no handle.
<1>11. ASSUME s.verb \in CoreVerbs, s.k = "own", IsOff(c) PROVE IsOff(c)'
  <2>1. s.verb = "LOAD"
    BY <1>0, <1>11 DEF IsOff, Served, CoreVerbs, s
  <2>2. on' = on /\ state' = state
    BY <1>8, <1>9, <1>11, <2>1
  <2>3. QED
    BY <1>0, <1>11, <2>2 DEF IsOff, AllOff, NoHandles
\* A command that has failed leaves PRUSS on or off as it was.
<1>12. ASSUME req[c] # "0", IsOn(c) \/ IsOff(c) PROVE (IsOn(c) \/ IsOff(c))'
  BY <1>0, <1>8, <1>12 DEF IsOn, IsOff, AllOff, NoHandles
<1>13. ASSUME AllOff PROVE AllOff'
  BY <1>0, <1>13 DEF AllOff
<1>13a. ASSUME s.verb = "PROBE_RPROC", req[c] = "0", AllOff PROVE IsOn(c)'
  BY <1>0, <1>5, <1>13, <1>13a DEF IsOn, AllOff
<1>13b. ASSUME s.verb = "UNPROBE_RPROC", req[c] = "0", AllOff PROVE IsOff(c)'
  BY <1>0, <1>6, <1>13, <1>13b DEF IsOff, NoHandles
<1>14. << >> \in Seq(OwnSteps) /\ (\A v \in {"DISABLE", "ENABLE"} : v \in CoreVerbs)
  BY DEF CoreVerbs
\* The constructor.
<1>15. CASE phase[c] = "starting"
  <2>1. Starting(todo[c]) /\ ~on[c] /\ NoHandles(c)
    BY <1>15 DEF SoloInv, StartInv
  <2>2. CASE /\ s = Step("DISABLE", 0, "pruss")
             /\ Tail(todo[c]) = <<Step("DISABLE", 1, "pruss")>> \o BootUp /\ Tail(todo[c]) # << >>
    <3>1. s.verb = "DISABLE" /\ s.k = "pruss" /\ s.n = 0
      BY <2>2, StepIs
    <3>2. on' = on /\ state' = state /\ core'[0] = "off" /\ phase'[c] = "starting"
      BY <1>0, <1>2, <1>7, <1>14, <1>15, <2>2, <3>1
    <3>3. Starting(todo[c])'
      BY <1>0, <2>2, <3>2, Zenon DEF Starting
    <3>4. StartInv(c)' /\ OwnInv(c)'
      BY <2>1, <3>2, <3>3 DEF StartInv, OwnInv, NoHandles
    <3>5. QED
      BY <1>3, <3>2, <3>4 DEF SoloInv
  <2>3. CASE /\ s = Step("DISABLE", 1, "pruss") /\ core[0] = "off"
             /\ Tail(todo[c]) = BootUp /\ Tail(todo[c]) # << >>
    <3>1. s.verb = "DISABLE" /\ s.k = "pruss" /\ s.n = 1
      BY <2>3, StepIs
    <3>2. on' = on /\ state' = state /\ AllOff' /\ phase'[c] = "starting"
      BY <1>0, <1>2, <1>7, <1>14, <1>15, <2>3, <3>1 DEF AllOff, PRUs
    <3>3. Starting(todo[c])'
      BY <1>0, <2>3, <3>2, Zenon DEF Starting
    <3>4. StartInv(c)' /\ OwnInv(c)'
      BY <2>1, <3>2, <3>3 DEF StartInv, OwnInv, NoHandles
    <3>5. QED
      BY <1>3, <3>2, <3>4 DEF SoloInv
  <2>4. CASE s = Step("PROBE_RPROC", 0, "pruss") /\ Tail(todo[c]) = << >> /\ AllOff
    <3>1. s.verb = "PROBE_RPROC"
      BY <2>4, StepIs
    <3>2. AllOff' /\ phase'[c] = "alive"
      BY <1>0, <1>13, <1>15, <2>4
    <3>3. Going(c)'
      BY <1>0, <1>14, <2>4, <3>2 DEF Going
    <3>4. CASE req[c] = "0"
      <4>1. IsOn(c)'
        BY <1>13a, <2>4, <3>1, <3>4
      <4>2. StartInv(c)' /\ OwnInv(c)'
        BY <3>2, <3>3, <4>1 DEF StartInv, OwnInv
      <4>3. QED
        BY <1>3, <1>5, <3>1, <3>2, <3>4, <4>2 DEF SoloInv, AllOff
    <3>5. CASE req[c] # "0"
      <4>1. IsOff(c)' /\ NoHandles(c)' /\ ~on'[c]
        BY <1>0, <1>8, <2>1, <3>2, <3>5 DEF IsOff, NoHandles
      <4>2. StartInv(c)' /\ OwnInv(c)'
        BY <3>2, <3>3, <4>1 DEF StartInv, OwnInv
      <4>3. QED
        BY <1>3, <3>2, <4>1, <4>2 DEF SoloInv, AllOff, NoHandles
    <3>6. QED
      BY <3>4, <3>5
  <2>5. QED
    BY <2>1, <2>2, <2>3, <2>4, StartingSteps, Zenon DEF s
\* The calls.
<1>16. CASE phase[c] # "starting"
  <2>0. phase'[c] = phase[c] /\ phase[c] \in {"alive", "exiting"}
    BY <1>0, <1>1, <1>16
  <2>1. ASSUME IsOn(c) \/ IsOff(c), Going(c) PROVE (IsOn(c) \/ IsOff(c))' /\ Going(c)'
    <3>1. CASE s \in OwnSteps /\ Tail(todo[c]) \in Seq(OwnSteps) /\ phase[c] # "exiting"
      <4>1. s.verb \in CoreVerbs /\ s.k = "own"
        BY <3>1 DEF OwnSteps
      <4>2. (IsOn(c) \/ IsOff(c))'
        BY <1>10, <1>11, <2>1, <4>1
      <4>3. Going(c)'
        BY <1>0, <2>0, <3>1 DEF Going
      <4>4. QED
        BY <4>2, <4>3
    <3>2. CASE /\ s = Step("PROBE_RPROC", 0, "pruss") /\ Tail(todo[c]) = << >>
               /\ AllOff /\ phase[c] = "alive"
      <4>1. s.verb = "PROBE_RPROC"
        BY <3>2, StepIs
      <4>2. (IsOn(c) \/ IsOff(c))'
        BY <1>12, <1>13a, <2>1, <3>2, <4>1
      <4>3. Going(c)'
        BY <1>0, <1>14, <2>0, <3>2 DEF Going
      <4>4. QED
        BY <4>2, <4>3
    <3>3. ASSUME NEW after \in {<< >>, BootUp}, on[c] /\ (after = << >> \/ phase[c] = "alive"),
                 s = Step("DISABLE", 0, "own"),
                 Tail(todo[c]) = <<Step("DISABLE", 1, "own"), Step("UNPROBE_RPROC", 0, "pruss")>> \o after
          PROVE  (IsOn(c) \/ IsOff(c))' /\ Going(c)'
      <4>1. s.verb = "DISABLE" /\ s.k = "own" /\ s.n = 0
        BY <3>3, StepIs
      <4>2. IsOn(c)' /\ core'[0] = "off"
        BY <1>0, <1>2, <1>10, <1>14, <2>1, <3>3, <4>1 DEF IsOff
      <4>3. Stopping(todo[c], after)'
        BY <1>0, <3>3, <4>2, Zenon DEF Stopping
      <4>4. Going(c)'
        BY <2>0, <3>3, <4>2, <4>3, Zenon DEF Going, IsOn
      <4>5. QED
        BY <4>2, <4>4
    <3>4. ASSUME NEW after \in {<< >>, BootUp}, on[c] /\ (after = << >> \/ phase[c] = "alive"),
                 s = Step("DISABLE", 1, "own"), core[0] = "off",
                 Tail(todo[c]) = <<Step("UNPROBE_RPROC", 0, "pruss")>> \o after
          PROVE  (IsOn(c) \/ IsOff(c))' /\ Going(c)'
      <4>1. s.verb = "DISABLE" /\ s.k = "own" /\ s.n = 1
        BY <3>4, StepIs
      <4>2. IsOn(c)' /\ AllOff'
        BY <1>0, <1>2, <1>10, <1>14, <2>1, <3>4, <4>1 DEF IsOff, AllOff, PRUs
      <4>3. Stopping(todo[c], after)'
        BY <1>0, <3>4, <4>2, Zenon DEF Stopping
      <4>4. Going(c)'
        BY <2>0, <3>4, <4>2, <4>3, Zenon DEF Going, IsOn
      <4>5. QED
        BY <4>2, <4>4
    <3>5. ASSUME NEW after \in {<< >>, BootUp}, on[c] /\ (after = << >> \/ phase[c] = "alive"),
                 s = Step("UNPROBE_RPROC", 0, "pruss"), Tail(todo[c]) = after, AllOff
          PROVE  (IsOn(c) \/ IsOff(c))' /\ Going(c)'
      <4>1. s.verb = "UNPROBE_RPROC"
        BY <3>5, StepIs
      <4>2. (IsOn(c) \/ IsOff(c))' /\ AllOff'
        BY <1>12, <1>13, <1>13b, <2>1, <3>5, <4>1
      <4>3. Going(c)'
        BY <1>0, <1>14, <2>0, <3>5, <4>2 DEF Going
      <4>4. QED
        BY <4>2, <4>3
    <3>6. todo[c] # << >>
      BY <1>0
    <3>7. QED
      BY <2>1, <3>1, <3>2, <3>3, <3>4, <3>5, <3>6, GoingSteps, Zenon DEF s
  <2>2. StartInv(c)' /\ OwnInv(c)'
    BY <1>0, <2>0, <2>1 DEF SoloInv, StartInv, OwnInv
  <2>3. QED
    BY <1>3, <1>16, <2>2 DEF SoloInv
<1>17. QED
  BY <1>15, <1>16

\* A command of a killed process: the client is not there.
LEMMA SoloServesOrphan ==
  ASSUME TypeInv, NEW c \in Clients, SoloInv(c), NEW s \in orphans, daemon_serves_orphan(s)
  PROVE  SoloInv(c)'
<1>1. phase[c] = "absent" /\ UNCHANGED <<phase, on, state, todo, req, strayed>>
  BY DEF SoloInv, OrphanInv, daemon_serves_orphan, local
<1>2. req[c] = "none"
  BY <1>1 DEF TypeInv, TypeOK, CallInv, Requests
<1>3. QED
  BY <1>1, <1>2 DEF SoloInv, OrphanInv, ServedInv, Served, StartInv, OwnInv

\* A new call, when the client is on or off and has no call in progress.
LEMMA SoloCall ==
  ASSUME TypeInv, NEW c \in Clients, SoloInv(c), NEW steps, Call(c, steps),
         \/ \E i \in DOMAIN steps : steps[i].k = "copy"
         \/ steps \in Seq(OwnSteps)
         \/ steps = BootUp /\ ~on[c]
         \/ \E after \in {<< >>, BootUp} : steps = ShutDown \o after /\ on[c]
  PROVE  SoloInv(c)'
<1>0. /\ phase[c] = "alive" /\ todo[c] = << >> /\ todo'[c] = steps
      /\ strayed' = IF \E i \in DOMAIN steps : steps[i].k = "copy" THEN strayed \union {c} ELSE strayed
      /\ UNCHANGED <<probed, core, orphans, phase, on, state, req>>
  BY DEF Call, Idle, rproc, local, TypeInv, TypeOK
<1>1. req[c] = "none" /\ req'[c] = "none"
  BY <1>0 DEF TypeInv, TypeOK, CallInv, Requests
<1>2. OrphanInv(c)' /\ ServedInv(c)' /\ StartInv(c)'
  BY <1>0, <1>1 DEF SoloInv, OrphanInv, ServedInv, Served, StartInv
<1>3. (IsOn(c) => IsOn(c)') /\ (IsOff(c) => IsOff(c)')
  BY <1>0, <1>1 DEF IsOn, IsOff, AllOff, NoHandles
<1>4. ASSUME IsOn(c) \/ IsOff(c)
      PROVE  (\E i \in DOMAIN steps : steps[i].k = "copy") \/ Going(c)'
  <2>1. CASE steps \in Seq(OwnSteps)
    BY <1>0, <2>1 DEF Going
  <2>2. CASE steps = BootUp /\ ~on[c]
    BY <1>0, <1>4, <2>2 DEF Going, IsOn, IsOff, AllOff
  <2>3. CASE \E after \in {<< >>, BootUp} : steps = ShutDown \o after /\ on[c]
    <3>1. PICK after \in {<< >>, BootUp} : steps = ShutDown \o after /\ on[c]
      BY <2>3
    <3>2. Stopping(todo[c], after)'
      BY <1>0, <3>1, Zenon DEF Stopping
    <3>3. QED
      BY <1>0, <3>1, <3>2, Zenon DEF Going
  <2>4. QED
    BY <2>1, <2>2, <2>3
<1>5. OwnInv(c)'
  BY <1>0, <1>3, <1>4 DEF SoloInv, OwnInv
<1>6. QED
  BY <1>2, <1>5 DEF SoloInv

LEMMA SoloCalls ==
  ASSUME TypeInv, NEW c \in Clients, SoloInv(c),
         PruCall(c) \/ bootUp(c) \/ shutDown(c) \/ restart(c)
  PROVE  SoloInv(c)'
<1>1. CASE PruCall(c)
  <2>1. PICK k \in Kinds : \E steps \in Seq([verb : CoreVerbs, n : PRUs, k : {k}]) :
          Call(c, steps) /\ steps # << >>
    BY <1>1, PruCallIs
  <2>2. PICK steps \in Seq([verb : CoreVerbs, n : PRUs, k : {k}]) : Call(c, steps) /\ steps # << >>
    BY <2>1
  <2>3. CASE k = "own"
    BY <2>2, <2>3, SoloCall DEF OwnSteps
  <2>4. CASE k = "copy"
    <3>1. 1 \in DOMAIN steps /\ steps[1].k = "copy"
      <4> DEFINE S == [verb : CoreVerbs, n : PRUs, k : {k}]
      <4>1. \A s \in S : s.k = "copy"
        BY <2>4
      <4>2. steps \in Seq(S) /\ steps # << >>
        BY <2>2
      <4> HIDE DEF S
      <4>3. 1 \in DOMAIN steps /\ steps[1] \in S
        BY <4>2
      <4>4. QED
        BY <4>1, <4>3
    <3>2. QED
      BY <2>2, <3>1, SoloCall, Zenon
  <2>5. QED
    BY <2>1, <2>3, <2>4, ControlAssumption
<1>2. CASE bootUp(c)
  BY <1>2, SoloCall, Zenon DEF bootUp
<1>3. CASE shutDown(c)
  <2>1. ShutDown = ShutDown \o << >>
    BY StopLists
  <2>2. Call(c, ShutDown \o << >>) /\ on[c]
    BY <1>3, <2>1, Zenon DEF shutDown
  <2>3. QED
    BY <2>2, SoloCall, Zenon
<1>4. CASE restart(c)
  <2>1. << >> \o BootUp = BootUp
    BY CallsAreSteps
  <2>2. CASE on[c]
    <3>1. Call(c, ShutDown \o BootUp)
      BY <1>4, <2>2, Zenon DEF restart
    <3>2. QED
      BY <2>2, <3>1, SoloCall, Zenon
  <2>3. CASE ~on[c]
    <3>1. Call(c, << >> \o BootUp)
      BY <1>4, <2>3, Zenon DEF restart
    <3>2. QED
      BY <2>1, <2>3, <3>1, SoloCall, Zenon
  <2>4. QED
    BY <2>2, <2>3
<1>5. QED
  BY <1>1, <1>2, <1>3, <1>4

\* A process starts, copies a handle, leaves main(), is gone or is killed.
LEMMA SoloProcess ==
  ASSUME TypeInv, NEW c \in Clients, ~LateThreads, SoloInv(c),
         PRUSS(c) \/ (\E n \in PRUs : copy(c, n)) \/ exit(c) \/ exited(c) \/ killed(c)
  PROVE  /\ SoloInv(c)'
         /\ phase'[c] # "alive" \/ phase[c] = "alive"
<1>0. todo[c] = << >> => req[c] = "none"
  BY DEF TypeInv, TypeOK, CallInv, Requests
<1>1. CASE PRUSS(c)
  <2>1. /\ phase[c] \in {"absent", "exited"} /\ orphans' = {} /\ phase'[c] = "starting" /\ ~on'[c]
        /\ req' = req
        /\ todo'[c] = <<Step("DISABLE", 0, "pruss"), Step("DISABLE", 1, "pruss")>> \o BootUp
    BY <1>1 DEF PRUSS, TypeInv, TypeOK
  <2>2. NoHandles(c)'
    <3>1. state'[c] = Handles("NONE") /\ "own" \in Kinds
      BY <1>1, ControlAssumption DEF PRUSS, TypeInv, TypeOK
    <3>2. QED
      BY <3>1 DEF NoHandles, Handles
  <2>3. req'[c] = "none"
    BY <1>0, <2>1 DEF TypeInv, CallInv
  <2>4. Starting(todo[c])'
    BY <2>1, Zenon DEF Starting
  <2>5. QED
    BY <2>1, <2>2, <2>3, <2>4 DEF SoloInv, OrphanInv, ServedInv, Served, StartInv, OwnInv
<1>2. CASE \E n \in PRUs : copy(c, n)
  <2>1. PICK n \in PRUs : copy(c, n)
    BY <1>2
  <2>2. /\ phase[c] = "alive" /\ todo[c] = << >>
        /\ UNCHANGED <<probed, core, orphans, phase, on, todo, req, strayed>>
    BY <2>1 DEF copy, Idle, rproc
  <2>3. state'[c]["own"] = state[c]["own"]
    BY <2>1, ControlAssumption DEF copy, TypeInv, TypeOK
  <2>4. (IsOn(c) => IsOn(c)') /\ (IsOff(c) => IsOff(c)')
    BY <1>0, <2>2, <2>3 DEF IsOn, IsOff, AllOff, NoHandles
  <2>5. Going(c)'
    <3>1. << >> \in Seq(OwnSteps)
      OBVIOUS
    <3>2. QED
      BY <2>2, <3>1 DEF Going
  <2>6. QED
    BY <1>0, <2>2, <2>4, <2>5 DEF SoloInv, OrphanInv, ServedInv, Served, StartInv, OwnInv
<1>3. CASE exit(c)
  <2>1. /\ phase[c] = "alive" /\ todo[c] = << >> /\ phase'[c] = "exiting"
        /\ todo'[c] = (IF on[c] THEN ShutDown ELSE << >>)
        /\ UNCHANGED <<probed, core, orphans, on, state, req, strayed>>
    BY <1>3 DEF exit, Idle, rproc, local, TypeInv, TypeOK
  <2>2. (IsOn(c) => IsOn(c)') /\ (IsOff(c) => IsOff(c)')
    BY <1>0, <2>1 DEF IsOn, IsOff, AllOff, NoHandles
  <2>3. ASSUME IsOn(c) \/ IsOff(c) PROVE Going(c)'
    <3>1. CASE on[c]
      <4>1. todo'[c] = ShutDown \o << >>
        BY <2>1, <3>1, StopLists
      <4>2. Stopping(todo[c], << >>)'
        BY <4>1, Zenon DEF Stopping
      <4>3. on'[c]
        BY <2>1, <3>1
      <4>4. QED
        BY <4>2, <4>3, Zenon DEF Going
    <3>2. CASE ~on[c] /\ AllOff
      <4>1. << >> \in Seq(OwnSteps)
        OBVIOUS
      <4>2. QED
        BY <2>1, <3>2, <4>1 DEF Going, AllOff
    <3>3. QED
      BY <2>3, <3>1, <3>2 DEF IsOn, IsOff
  <2>4. QED
    BY <1>0, <2>1, <2>2, <2>3 DEF SoloInv, OrphanInv, ServedInv, Served, StartInv, OwnInv
<1>4. CASE exited(c)
  <2>1. /\ phase[c] = "exiting" /\ todo[c] = << >> /\ phase'[c] = "exited"
        /\ UNCHANGED <<probed, core, orphans, on, state, todo, req, strayed>>
    BY <1>4 DEF exited, rproc, local, TypeInv, TypeOK
  \* The destructor has nothing left to do only when the cores are off.
  <2>2. ASSUME IsOn(c) \/ IsOff(c), Going(c) PROVE Down
    <3>1. BootUp # << >>
      BY CallsAreSteps
    <3>2. \A after \in {<< >>, BootUp} : ~Stopping(todo[c], after)
      BY <2>1, StoppingSteps, Zenon
    <3>3. QED
      BY <2>1, <2>2, <3>1, <3>2 DEF Going, Down, AllOff
  <2>3. Down => Down'
    BY <2>1 DEF Down
  <2>4. OwnInv(c)'
    BY <2>1, <2>2, <2>3 DEF SoloInv, OwnInv
  <2>5. QED
    BY <1>0, <2>1, <2>4 DEF SoloInv, OrphanInv, ServedInv, Served, StartInv
<1>5. CASE killed(c)
  <2>1. phase'[c] = "absent" /\ req'[c] = "none"
    BY <1>5 DEF killed, TypeInv, TypeOK
  <2>2. QED
    BY <2>1 DEF SoloInv, OrphanInv, ServedInv, Served, StartInv, OwnInv
<1>6. QED
  BY <1>1, <1>2, <1>3, <1>4, <1>5

LEMMA SoloStutter ==
  ASSUME NEW c, SoloInv(c), UNCHANGED vars PROVE SoloInv(c)'
<1>0. UNCHANGED <<probed, core, orphans, phase, on, state, todo, req, strayed>>
  BY DEF vars, rproc, local
<1>1. OrphanInv(c)' /\ ServedInv(c)'
  BY <1>0 DEF SoloInv, OrphanInv, ServedInv, Served, AllOff
<1>2. StartInv(c)'
  BY <1>0, Zenon DEF SoloInv, StartInv, NoHandles, Starting, AllOff
<1>3. (IsOn(c) => IsOn(c)') /\ (IsOff(c) => IsOff(c)')
  BY <1>0 DEF IsOn, IsOff, AllOff, NoHandles
<1>4. Going(c) => Going(c)'
  BY <1>0, Zenon DEF Going, Stopping, AllOff
<1>5. OwnInv(c)'
  BY <1>0, <1>3, <1>4 DEF SoloInv, OwnInv, Down
<1>6. QED
  BY <1>1, <1>2, <1>5 DEF SoloInv

\* A process comes to life with what its constructor promises.
ComesUp(c) ==
  (phase[c] = "starting" /\ phase'[c] = "alive") =>
    \A n \in PRUs :
      core'[n] = "off" /\ state'[c]["own"][n] = IF on'[c] THEN "STOPPED" ELSE "NONE"

LEMMA SoloNext ==
  ASSUME NEW c, Alone(c), TypeInv, SoloInv(c), [Next]_vars
  PROVE  SoloInv(c)' /\ ComesUp(c)
<1>0. c \in Clients /\ Clients = {c} /\ ~LateThreads
  BY DEF Alone
<1>1. ASSUME UNCHANGED phase PROVE ComesUp(c)
  BY <1>1 DEF ComesUp
<1>2. CASE UNCHANGED vars
  BY <1>1, <1>2, SoloStutter DEF vars
<1>3. CASE Next
  <2>1. CASE \E s \in orphans : daemon_serves_orphan(s)
    BY <1>0, <1>1, <2>1, SoloServesOrphan DEF daemon_serves_orphan
  <2>2. CASE daemon_serves(c)
    BY <1>0, <1>1, <2>2, SoloServes DEF daemon_serves
  <2>3. CASE returns_early(c)
    BY <1>0, <1>1, <2>3, SoloEarly DEF returns_early
  <2>4. CASE sendcmd(c)
    BY <1>0, <1>1, <2>4, SoloSends DEF sendcmd
  <2>5. CASE got_reply(c)
    BY <1>0, <2>5, SoloReply, Zenon DEF ComesUp
  <2>6. CASE PRUSS(c) \/ (\E n \in PRUs : copy(c, n)) \/ exit(c) \/ exited(c) \/ killed(c)
    BY <1>0, <2>6, SoloProcess DEF ComesUp
  <2>7. CASE PruCall(c) \/ bootUp(c) \/ shutDown(c) \/ restart(c)
    <3>1. UNCHANGED phase
      BY <2>7, PruCallIs, Zenon DEF bootUp, shutDown, restart, Call
    <3>2. QED
      BY <1>0, <1>1, <2>7, <3>1, SoloCalls
  <2>8. QED
    BY <1>0, <1>3, <2>1, <2>2, <2>3, <2>4, <2>5, <2>6, <2>7, NextIs
<1>4. QED
  BY <1>2, <1>3

\* What a process that has the PRUs to itself keeps true, through any number
\* of calls, early returns, kills and restarts.
LEMMA Solo ==
  ASSUME NEW c, Alone(c) PROVE Spec => [](TypeInv /\ SoloInv(c))
<1>1. c \in Clients
  BY DEF Alone
<1>2. Init => TypeInv /\ SoloInv(c)
  BY <1>1, TypeInit, SoloInit
<1>3. TypeInv /\ SoloInv(c) /\ [Next]_vars => (TypeInv /\ SoloInv(c))'
  BY TypeNext, SoloNext
<1>4. QED
  BY <1>2, <1>3, PTL DEF Spec

\* A handle of PRUSS that says STOPPED tells the truth: the core is off, and
\* enable() will start it from its first instruction, after any sequence of
\* calls, failed commands, restarts and kills of a process that has the PRUs
\* to itself and makes no calls through copies.
THEOREM StoppedHandlesTellTheTruth ==
  ASSUME NEW c, Alone(c) PROVE Spec => []StoppedMeansOff
<1>1. TypeInv /\ SoloInv(c) => StoppedMeansOff
  <2> SUFFICES ASSUME TypeInv, SoloInv(c), c \notin strayed, NEW n \in PRUs,
                      phase[c] = "alive", req[c] = "none", state[c]["own"][n] = "STOPPED"
               PROVE  core[n] = "off"
    BY DEF StoppedMeansOff, Alone
  <2>1. IsOn(c) \/ IsOff(c)
    BY DEF SoloInv, OwnInv
  <2>2. QED
    BY <2>1 DEF IsOn, IsOff, NoHandles
<1>2. Spec => [](TypeInv /\ SoloInv(c))
  BY Solo
<1>3. QED
  BY <1>1, <1>2, PTL

\* shutDown() and the destructor do what they say: when the one has returned 0
\* or the other has run, both cores are off, for such a process, whichever of
\* the commands failed and whatever modprobe did.
THEOREM ShutDownStopsTheCores ==
  ASSUME NEW c, Alone(c) PROVE Spec => []OwnShutDownStops
<1>1. TypeInv /\ SoloInv(c) => OwnShutDownStops
  <2> SUFFICES ASSUME TypeInv, SoloInv(c), c \notin strayed, IsDown(c) PROVE Down
    BY DEF OwnShutDownStops, Alone
  <2>1. CASE phase[c] = "exited"
    BY <2>1 DEF SoloInv, OwnInv
  <2>2. CASE phase[c] = "alive" /\ todo[c] = << >> /\ ~on[c]
    BY <2>2 DEF SoloInv, OwnInv, IsOn, IsOff, Down, AllOff
  <2>3. QED
    BY <2>1, <2>2 DEF IsDown, Idle
<1>2. Spec => [](TypeInv /\ SoloInv(c))
  BY Solo
<1>3. QED
  BY <1>1, <1>2, PTL

\* A new process finds both cores stopped when its constructor has returned,
\* whatever the ones before it left behind (cores started through copies, or
\* commands the daemon carried out after a kill) and whatever modprobe did; its
\* handles say so, unless the PROBE failed and it stays off.
THEOREM ConstructorStopsTheCores ==
  ASSUME NEW client, Alone(client) PROVE Spec => ConstructorStops
<1> DEFINE Comes == \A c \in Clients :
                      (phase[c] = "starting" /\ phase'[c] = "alive") =>
                        \A n \in PRUs :
                          /\ core'[n] = "off"
                          /\ state'[c]["own"][n] = IF on'[c] THEN "STOPPED" ELSE "NONE"
<1>1. TypeInv /\ SoloInv(client) /\ [Next]_vars => [Comes]_vars
  BY SoloNext DEF ComesUp, Alone
<1>2. ConstructorStops <=> [][Comes]_vars
  BY DEF ConstructorStops
<1> HIDE DEF Comes
<1>3. Spec => [](TypeInv /\ SoloInv(client))
  BY Solo
<1>4. QED
  BY <1>1, <1>2, <1>3, PTL DEF Spec
=============================================================================
