-------------------------- MODULE NodeControlProofs --------------------------
(***************************************************************************)
(* The Node.js bindings, proved: for a program that has one call at a time *)
(* about a PRU, with any number of calls under way, the cached states are  *)
(* the states of the cores and a firmware meets a stopped core, in         *)
(* whatever order commands are carried out and replies handled.            *)
(***************************************************************************)
EXTENDS NodeControl, TLAPS

----------------------------------------------------------------------------
(* The invariant.                                                          *)

\* Only cores of a loaded module run.
CoreInv == ~probed => \A n \in PRUs : core[n] = "off"

\* Commands are with the daemon alone only while there is no process.
AliveInv ==
  /\ alive => orphans = {}
  /\ ~alive => \A a \in Calls : conns[a] = {}

\* What is known of the core of a connection before its command is carried
\* out, and of the reply and the core after.
ConnOK(c) ==
  /\ c.verb = "PROBE_RPROC" => c.then = "bootUp"
  /\ c.verb = "UNPROBE_RPROC" => c.then = "shutDown"
  /\ c.verb = "ENABLE" =>
       /\ c.then = "set"
       /\ c.reply = "0" => core[c.n] = "run"
       /\ c.reply # "0" => core[c.n] = "off" /\ state[c.n] = "STOPPED"
  /\ c.verb = "PAUSE" =>
       c.then = "set" /\ c.reply # "err" /\ core[c.n] = IF c.reply = "0" THEN "halt" ELSE "run"
  /\ c.verb = "RESUME" =>
       c.then = "set" /\ c.reply # "err" /\ core[c.n] = IF c.reply = "0" THEN "run" ELSE "halt"
  /\ c.verb = "DISABLE" =>
       /\ c.then \in {"set", "reset", "load", "booted"}
       /\ c.reply # "none" => core[c.n] = "off"
       /\ c.then # "booted" => c.reply # "err" /\ (c.reply = "none" => core[c.n] # "off")
  /\ c.verb = "LOAD" =>
       /\ c.then = "loaded"
       /\ state[c.n] # "NONE" => core[c.n] = "off" /\ state[c.n] = "STOPPED"

ConnInv == \A a \in Calls : \A c \in conns[a] : ConnOK(c)

\* A PRU has one connection; PRUSS's commands are alone, except for the
\* disables of shutDown.
OneInv ==
  \A a, b \in Calls : \A c \in conns[a] : \A d \in conns[b] :
    (c.n = d.n /\ ~IsPruss(c) /\ ~IsPruss(d)) => a = b /\ c = d

PrussInv ==
  \A a \in Calls : \A c \in conns[a] : IsPruss(c) =>
    /\ \A b \in Calls : b # a => conns[b] = {}
    /\ \A d \in conns[a] : d # c => c.verb = "UNPROBE_RPROC" /\ d.verb = "DISABLE" /\ d.then = "set"

\* A command for PRU n is under way.
Busy(n) == \E a \in Calls : \E c \in conns[a] : ~IsPruss(c) /\ c.n = n

\* The handle knows nothing of the core, or its state.
Agrees(n) ==
  state[n] # "NONE" =>
    /\ core[n] = "run" <=> state[n] = "RUNNING"
    /\ core[n] = "halt" <=> state[n] = "HALTED"

AgreeInv == alive => \A n \in PRUs : Busy(n) \/ Agrees(n)

NodeInv == TypeOK /\ CoreInv /\ AliveInv /\ ConnInv /\ OneInv /\ PrussInv /\ AgreeInv

\* One call at a time about a PRU, and no command outlives its process for long.
Orderly == ~Overlap /\ ~LateThreads

----------------------------------------------------------------------------
(* The daemon: what a command does to the cores.                           *)

CoreVerbs == {"ENABLE", "DISABLE", "PAUSE", "RESUME", "LOAD"}

LEMMA AcceptsIs ==
  /\ DOMAIN Accepts["ENABLE"] = {"off"} /\ Accepts["ENABLE"]["off"] = "run"
  /\ DOMAIN Accepts["DISABLE"] = {"run", "halt"}
  /\ Accepts["DISABLE"]["run"] = "off" /\ Accepts["DISABLE"]["halt"] = "off"
  /\ DOMAIN Accepts["PAUSE"] = {"off", "run", "halt"} /\ Accepts["PAUSE"]["off"] = "off"
  /\ Accepts["PAUSE"]["run"] = "halt" /\ Accepts["PAUSE"]["halt"] = "halt"
  /\ DOMAIN Accepts["RESUME"] = {"off", "run", "halt"} /\ Accepts["RESUME"]["off"] = "off"
  /\ Accepts["RESUME"]["run"] = "run" /\ Accepts["RESUME"]["halt"] = "run"
  /\ DOMAIN Accepts["LOAD"] = {"off"} /\ Accepts["LOAD"]["off"] = "off"
<1>1. /\ Accepts["ENABLE"] = [off |-> "run"]
      /\ Accepts["DISABLE"] = [run |-> "off", halt |-> "off"]
      /\ Accepts["PAUSE"] = [off |-> "off", run |-> "halt", halt |-> "halt"]
      /\ Accepts["RESUME"] = [off |-> "off", run |-> "run", halt |-> "run"]
      /\ Accepts["LOAD"] = [off |-> "off"]
  BY DEF Accepts
<1>2. DOMAIN [off |-> "run"] = {"off"} /\ [off |-> "run"]["off"] = "run"
  OBVIOUS
<1>3. /\ DOMAIN [run |-> "off", halt |-> "off"] = {"run", "halt"}
      /\ [run |-> "off", halt |-> "off"]["run"] = "off"
      /\ [run |-> "off", halt |-> "off"]["halt"] = "off"
  OBVIOUS
<1>4. /\ DOMAIN [off |-> "off", run |-> "halt", halt |-> "halt"] = {"off", "run", "halt"}
      /\ [off |-> "off", run |-> "halt", halt |-> "halt"]["off"] = "off"
      /\ [off |-> "off", run |-> "halt", halt |-> "halt"]["run"] = "halt"
      /\ [off |-> "off", run |-> "halt", halt |-> "halt"]["halt"] = "halt"
  OBVIOUS
<1>5. /\ DOMAIN [off |-> "off", run |-> "run", halt |-> "run"] = {"off", "run", "halt"}
      /\ [off |-> "off", run |-> "run", halt |-> "run"]["off"] = "off"
      /\ [off |-> "off", run |-> "run", halt |-> "run"]["run"] = "run"
      /\ [off |-> "off", run |-> "run", halt |-> "run"]["halt"] = "run"
  OBVIOUS
<1>6. DOMAIN [off |-> "off"] = {"off"} /\ [off |-> "off"]["off"] = "off"
  OBVIOUS
<1>7. QED
  BY <1>1, <1>2, <1>3, <1>4, <1>5, <1>6, Zenon

\* A command for one core, with the reply, from what its sender knows.
LEMMA CoreCommand ==
  ASSUME core \in [PRUs -> CoreStates], CoreInv,
         NEW v \in CoreVerbs, NEW n \in PRUs, NEW r, handle(v, n, r)
  PROVE  /\ core' \in [PRUs -> CoreStates]
         /\ probed' = probed
         /\ \A m \in PRUs : m # n => core'[m] = core[m]
         /\ ~probed => core' = core
         /\ r \in {"0", "err"}
         /\ v = "ENABLE" /\ core[n] = "off" => core'[n] = IF r = "0" THEN "run" ELSE "off"
         /\ v = "PAUSE" /\ core[n] = "run" => core'[n] = "halt" /\ r = "0"
         /\ v = "RESUME" /\ core[n] = "halt" => core'[n] = "run" /\ r = "0"
         /\ v = "DISABLE" => core'[n] = "off" /\ (core[n] # "off" => r = "0")
         /\ v = "LOAD" /\ core[n] = "off" => core'[n] = "off"
<1>1. v \notin {"PROBE_RPROC", "UNPROBE_RPROC"}
  BY DEF CoreVerbs
<1>2. /\ probed' = probed
      /\ \/ Written(v, n) /\ r = "0" /\ core' = [core EXCEPT ![n] = Accepts[v][core[n]]]
         \/ (~Written(v, n) \/ v \in {"ENABLE", "LOAD"}) /\ r = "err" /\ core' = core
  BY <1>1, Zenon DEF handle, sysfs_write
<1>3. CASE (~Written(v, n) \/ v \in {"ENABLE", "LOAD"}) /\ r = "err" /\ core' = core
  <2>1. v = "DISABLE" => core[n] = "off"
    BY <1>3, AcceptsIs DEF Written, CoreInv, CoreStates
  <2>2. v = "PAUSE" => core[n] # "run"
    BY <1>3, AcceptsIs DEF Written, CoreInv, CoreStates
  <2>3. v = "RESUME" => core[n] # "halt"
    BY <1>3, AcceptsIs DEF Written, CoreInv, CoreStates
  <2>4. QED
    BY <1>2, <1>3, <2>1, <2>2, <2>3
<1>4. CASE Written(v, n) /\ r = "0" /\ core' = [core EXCEPT ![n] = Accepts[v][core[n]]]
  <2>1. probed /\ core' = [core EXCEPT ![n] = Accepts[v][core[n]]] /\ core[n] \in DOMAIN Accepts[v]
    BY <1>4 DEF Written
  <2> DEFINE x == Accepts[v][core[n]]
  <2>2. /\ x \in CoreStates
        /\ v = "ENABLE" => x = "run"
        /\ v = "DISABLE" => x = "off"
        /\ v = "PAUSE" /\ core[n] = "run" => x = "halt"
        /\ v = "RESUME" /\ core[n] = "halt" => x = "run"
        /\ v = "LOAD" => x = "off"
    <3>1. CASE v = "ENABLE"
      BY <2>1, <3>1, AcceptsIs DEF CoreStates
    <3>2. CASE v = "DISABLE"
      BY <2>1, <3>2, AcceptsIs DEF CoreStates
    <3>3. CASE v = "PAUSE"
      BY <2>1, <3>3, AcceptsIs DEF CoreStates
    <3>4. CASE v = "RESUME"
      BY <2>1, <3>4, AcceptsIs DEF CoreStates
    <3>5. CASE v = "LOAD"
      BY <2>1, <3>5, AcceptsIs DEF CoreStates
    <3>6. QED
      BY <3>1, <3>2, <3>3, <3>4, <3>5 DEF CoreVerbs
  <2> HIDE DEF x
  <2>3. core' = [core EXCEPT ![n] = x]
    BY <2>1 DEF x
  <2>4. core'[n] = x /\ (\A m \in PRUs : m # n => core'[m] = core[m]) /\ core' \in [PRUs -> CoreStates]
    BY <2>2, <2>3
  <2>5. QED
    BY <1>2, <1>4, <2>1, <2>2, <2>4
<1>5. QED
  BY <1>2, <1>3, <1>4, Zenon

\* The two commands about the module: they leave the cores alone, and a
\* module whose core runs is not removed, whatever they answer.
LEMMA ModuleCommand ==
  ASSUME probed \in BOOLEAN, CoreInv,
         NEW v \in {"PROBE_RPROC", "UNPROBE_RPROC"}, NEW n, NEW r, handle(v, n, r)
  PROVE  core' = core /\ probed' \in BOOLEAN /\ r \in {"0", "err"} /\ CoreInv'
<1>1. mod_probe(v, r)
  BY Zenon DEF handle
<1>2. core' = core /\ r \in {"0", "err"}
  BY <1>1, Zenon DEF mod_probe
<1>3. probed' = probed \/ probed' = TRUE \/ (probed' = FALSE /\ \A k \in PRUs : core[k] = "off")
  BY <1>1, Zenon DEF mod_probe
<1>4. probed' \in BOOLEAN
  BY <1>3
<1>5. CoreInv'
  <2>1. CASE probed' = probed
    BY <1>2, <2>1, Zenon DEF CoreInv
  <2>2. CASE probed' = TRUE
    BY <2>2, Zenon DEF CoreInv
  <2>3. CASE \A k \in PRUs : core[k] = "off"
    BY <1>2, <2>3, Zenon DEF CoreInv
  <2>4. QED
    BY <1>3, <2>1, <2>2, <2>3
<1>6. QED
  BY <1>2, <1>4, <1>5

LEMMA AnyCommand ==
  ASSUME probed \in BOOLEAN, core \in [PRUs -> CoreStates], CoreInv,
         NEW v \in Verbs, NEW n \in PRUs, NEW r, handle(v, n, r)
  PROVE  probed' \in BOOLEAN /\ core' \in [PRUs -> CoreStates] /\ CoreInv'
<1>1. v \in CoreVerbs \/ v \in {"PROBE_RPROC", "UNPROBE_RPROC"}
  BY DEF Verbs, CoreVerbs
<1>2. CASE v \in CoreVerbs
  BY <1>2, CoreCommand DEF CoreInv
<1>3. CASE v \in {"PROBE_RPROC", "UNPROBE_RPROC"}
  BY <1>3, ModuleCommand
<1>4. QED
  BY <1>1, <1>2, <1>3

----------------------------------------------------------------------------
(* Steps that no connection takes.                                         *)

LEMMA NodeInit == Init => NodeInv
<1> SUFFICES ASSUME Init PROVE NodeInv
  OBVIOUS
<1>1. TypeOK
  BY DEF Init, TypeOK, State, CoreStates
<1>2. CoreInv
  BY DEF Init, CoreInv
<1>3. AliveInv /\ ConnInv /\ OneInv /\ PrussInv /\ AgreeInv
  BY DEF Init, AliveInv, ConnInv, OneInv, PrussInv, AgreeInv
<1>4. QED
  BY <1>1, <1>2, <1>3 DEF NodeInv

\* A command of a dead process.
LEMMA NodeServesOrphan ==
  ASSUME NodeInv, NEW o \in orphans, daemon_serves_orphan(o) PROVE NodeInv'
<1>1. o[1] \in Verbs /\ o[2] \in PRUs
  BY DEF NodeInv, TypeOK
<1>2a. PICK r \in {"0", "err"} : handle(o[1], o[2], r)
  BY Zenon DEF daemon_serves_orphan
<1>2. handle(o[1], o[2], r) /\ orphans' = orphans \ {o} /\ UNCHANGED <<alive, on, state, conns>>
  BY <1>2a DEF daemon_serves_orphan, local
<1>3. ~alive /\ \A a \in Calls : conns[a] = {}
  BY DEF NodeInv, AliveInv
<1>4. TypeOK' /\ CoreInv'
  BY <1>1, <1>2, AnyCommand DEF NodeInv, TypeOK
<1>5. AliveInv' /\ ConnInv' /\ OneInv' /\ PrussInv' /\ AgreeInv'
  BY <1>2, <1>3 DEF AliveInv, ConnInv, OneInv, PrussInv, AgreeInv
<1>6. QED
  BY <1>4, <1>5 DEF NodeInv

\* A connection that has just been opened.
LEMMA ConnIs ==
  ASSUME NEW v, NEW n, NEW h
  PROVE  /\ Conn(v, n, h).verb = v /\ Conn(v, n, h).n = n /\ Conn(v, n, h).then = h
         /\ Conn(v, n, h).reply = "none"
         /\ v \in Verbs /\ n \in PRUs /\ h \in Handlers => Conn(v, n, h) \in Conns
  BY DEF Conn, Conns

LEMMA NodeStart == ASSUME NodeInv, Orderly, start PROVE NodeInv'
<1> DEFINE p == Conn("PROBE_RPROC", 0, "bootUp")
<1>1. PICK a \in Calls : conns' = [conns EXCEPT ![a] = {p}]
  BY DEF start, Booting
<1>2. /\ p.verb = "PROBE_RPROC" /\ p.then = "bootUp" /\ p.reply = "none" /\ p \in Conns
  BY ConnIs DEF Verbs, PRUs, Handlers
<1> HIDE DEF p
<1>3. /\ ~alive /\ orphans = {} /\ alive' = TRUE /\ on' = FALSE /\ state' = [n \in PRUs |-> "NONE"]
      /\ UNCHANGED <<probed, core, orphans>>
  BY DEF start, rproc, Orderly
<1>4. \A b \in Calls : conns'[b] = IF b = a THEN {p} ELSE {}
  BY <1>1, <1>3 DEF NodeInv, TypeOK, AliveInv
<1>5. TypeOK' /\ CoreInv'
  BY <1>1, <1>2, <1>3 DEF NodeInv, TypeOK, CoreInv, State
<1>6. AliveInv' /\ ConnInv'
  BY <1>2, <1>3, <1>4 DEF AliveInv, ConnInv, ConnOK
<1>7. IsPruss(p)
  BY <1>2 DEF IsPruss
<1>8. OneInv' /\ PrussInv' /\ AgreeInv'
  BY <1>2, <1>3, <1>4, <1>7 DEF OneInv, PrussInv, AgreeInv, Agrees
<1>9. QED
  BY <1>5, <1>6, <1>8 DEF NodeInv

LEMMA NodeDies == ASSUME NodeInv, dies PROVE NodeInv'
<1> DEFINE all == UNION {conns[a] : a \in Calls}
           unserved == {c \in all : c.reply = "none"}
<1>1. PICK reached \in SUBSET unserved : orphans' = orphans \cup {<<c.verb, c.n>> : c \in reached}
  BY DEF dies
<1>2. \A c \in all : c \in Conns
  BY DEF NodeInv, TypeOK
<1>3. \A c \in reached : <<c.verb, c.n>> \in Verbs \X PRUs
  BY <1>2 DEF Conns
<1> HIDE DEF all, unserved
<1>4. alive' = FALSE /\ conns' = [a \in Calls |-> {}] /\ UNCHANGED <<probed, core, on, state>>
  BY DEF dies, rproc
<1>5. TypeOK' /\ CoreInv'
  BY <1>1, <1>3, <1>4 DEF NodeInv, TypeOK, CoreInv
<1>6. AliveInv' /\ ConnInv' /\ OneInv' /\ PrussInv' /\ AgreeInv'
  BY <1>4 DEF AliveInv, ConnInv, OneInv, PrussInv, AgreeInv
<1>7. QED
  BY <1>5, <1>6 DEF NodeInv

----------------------------------------------------------------------------
(* The daemon's threads.                                                   *)

\* What is known of a connection.
LEMMA ConnFacts ==
  ASSUME NodeInv, NEW a \in Calls, NEW c \in conns[a]
  PROVE  /\ c \in Conns /\ ConnOK(c) /\ alive /\ orphans = {}
         /\ c.verb \in CoreVerbs <=> ~IsPruss(c)
         /\ c.n \in PRUs /\ c.verb \in Verbs /\ c.reply \in {"none", "0", "err"}
<1>1. c \in Conns /\ ConnOK(c) /\ alive /\ orphans = {}
  BY DEF NodeInv, TypeOK, ConnInv, AliveInv
<1>2. QED
  BY <1>1 DEF Conns, IsPruss, Verbs, CoreVerbs

\* The reply of its command keeps what is known true.
LEMMA ServedConn ==
  ASSUME NodeInv, NEW a \in Calls, NEW c \in conns[a], daemon_serves(a, c),
         NEW r \in {"0", "err"}, handle(c.verb, c.n, r)
  PROVE  LET d == [c EXCEPT !.reply = r] IN
         /\ d \in Conns /\ ConnOK(d)' /\ d.verb = c.verb /\ d.n = c.n /\ d.then = c.then
<1> DEFINE d == [c EXCEPT !.reply = r]
<1>0. /\ c \in Conns /\ ConnOK(c) /\ handle(c.verb, c.n, r) /\ c.reply = "none" /\ state' = state
      /\ c.n \in PRUs /\ c.verb \in Verbs
  BY ConnFacts DEF daemon_serves, local
<1>1. core \in [PRUs -> CoreStates] /\ CoreInv /\ probed \in BOOLEAN
  BY DEF NodeInv, TypeOK
<1>2. r \in {"0", "err"}
  OBVIOUS
<1>3. d \in Conns /\ d.verb = c.verb /\ d.n = c.n /\ d.then = c.then /\ d.reply = r
  BY <1>0, <1>2 DEF Conns
<1> HIDE DEF d
<1>4. ASSUME c.verb \in {"PROBE_RPROC", "UNPROBE_RPROC"} PROVE ConnOK(d)'
  BY <1>0, <1>1, <1>2, <1>3, <1>4, ModuleCommand DEF ConnOK
<1>5. ASSUME c.verb \in CoreVerbs PROVE ConnOK(d)'
  <2>1. /\ c.verb = "ENABLE" /\ core[c.n] = "off" =>
             core'[c.n] = IF r = "0" THEN "run" ELSE "off"
        /\ c.verb = "PAUSE" /\ core[c.n] = "run" => core'[c.n] = "halt" /\ r = "0"
        /\ c.verb = "RESUME" /\ core[c.n] = "halt" => core'[c.n] = "run" /\ r = "0"
        /\ c.verb = "DISABLE" => core'[c.n] = "off" /\ (core[c.n] # "off" => r = "0")
        /\ c.verb = "LOAD" /\ core[c.n] = "off" => core'[c.n] = "off"
    BY <1>0, <1>1, <1>5, CoreCommand
  <2>2. CASE c.verb = "ENABLE"
    BY <1>0, <1>2, <1>3, <2>1, <2>2 DEF ConnOK
  <2>3. CASE c.verb = "PAUSE"
    BY <1>0, <1>2, <1>3, <2>1, <2>3 DEF ConnOK
  <2>4. CASE c.verb = "RESUME"
    BY <1>0, <1>2, <1>3, <2>1, <2>4 DEF ConnOK
  <2>5. CASE c.verb = "DISABLE"
    BY <1>0, <1>2, <1>3, <2>1, <2>5 DEF ConnOK
  <2>6. CASE c.verb = "LOAD"
    BY <1>0, <1>2, <1>3, <2>1, <2>6 DEF ConnOK
  <2>7. QED
    BY <1>5, <2>2, <2>3, <2>4, <2>5, <2>6 DEF CoreVerbs
<1>6. c.verb \in CoreVerbs \/ c.verb \in {"PROBE_RPROC", "UNPROBE_RPROC"}
  BY <1>0 DEF Verbs, CoreVerbs
<1>7. QED
  BY <1>3, <1>4, <1>5, <1>6, Zenon DEF d

LEMMA NodeServes ==
  ASSUME NodeInv, NEW a \in Calls, NEW c \in conns[a], daemon_serves(a, c) PROVE NodeInv'
<1>1. PICK r \in {"0", "err"} :
        /\ handle(c.verb, c.n, r)
        /\ conns' = [conns EXCEPT ![a] = (conns[a] \ {c}) \cup {[c EXCEPT !.reply = r]}]
  BY DEF daemon_serves
<1> DEFINE d == [c EXCEPT !.reply = r]
<1>2. d \in Conns /\ ConnOK(d)' /\ d.verb = c.verb /\ d.n = c.n /\ d.then = c.then
  BY <1>1, ServedConn, Zenon
<1>3. conns' = [conns EXCEPT ![a] = (conns[a] \ {c}) \cup {d}]
  BY <1>1
<1> HIDE DEF d
<1>4. /\ c.n \in PRUs /\ c.verb \in Verbs /\ handle(c.verb, c.n, r) /\ alive /\ orphans = {}
      /\ UNCHANGED <<alive, on, state, orphans>>
  BY <1>1, ConnFacts DEF daemon_serves, local
<1>5. TypeOK' /\ CoreInv'
  BY <1>2, <1>3, <1>4, AnyCommand DEF NodeInv, TypeOK
<1>6. conns'[a] = (conns[a] \ {c}) \cup {d} /\ \A b \in Calls : b # a => conns'[b] = conns[b]
  BY <1>3 DEF NodeInv, TypeOK
\* Only the core of the command changes.
<1>7. /\ \A m \in PRUs : m # c.n => core'[m] = core[m]
      /\ IsPruss(c) => core' = core
      /\ c.verb = "DISABLE" => core'[c.n] = "off"
      /\ IsPruss(d) <=> IsPruss(c)
  <2>1. CASE IsPruss(c)
    BY <1>2, <1>4, <2>1, ModuleCommand DEF IsPruss, NodeInv, TypeOK
  <2>2. CASE ~IsPruss(c)
    <3>1. c.verb \in CoreVerbs
      BY <2>2, ConnFacts
    <3>2. QED
      BY <1>2, <1>4, <2>2, <3>1, CoreCommand DEF IsPruss, NodeInv, TypeOK
  <2>3. QED
    BY <2>1, <2>2
<1>8. AliveInv'
  BY <1>4 DEF NodeInv, AliveInv
\* Every connection after the step is d or was there before.
<1>9. ASSUME NEW b \in Calls, NEW e \in conns'[b]
      PROVE  (b = a /\ e = d) \/ (e \in conns[b] /\ (b # a \/ e # c))
  BY <1>6
<1>10. ASSUME NEW b \in Calls, NEW e \in conns[b], b # a \/ e # c, ~IsPruss(e), ~IsPruss(c)
       PROVE  e.n # c.n /\ e.n \in PRUs
  <2>1. e.n \in PRUs
    BY ConnFacts
  <2>2. QED
    BY <1>10, <2>1 DEF NodeInv, OneInv
<1>11. ConnInv'
  <2> SUFFICES ASSUME NEW b \in Calls, NEW e \in conns'[b] PROVE ConnOK(e)'
    BY DEF ConnInv
  <2>1. CASE e \in conns[b] /\ (b # a \/ e # c)
    <3>1. ConnOK(e)
      BY <2>1, ConnFacts
    <3>2. core'[e.n] = core[e.n] \/ IsPruss(e)
      <4>1. CASE IsPruss(c)
        BY <1>7, <4>1
      <4>2. CASE ~IsPruss(c)
        BY <1>7, <1>10, <2>1, <4>2
      <4>3. QED
        BY <4>1, <4>2
    <3>3. QED
      BY <1>4, <3>1, <3>2 DEF ConnOK, IsPruss
  <2>2. QED
    BY <1>2, <1>9, <2>1
<1>12. OneInv'
  <2> SUFFICES ASSUME NEW b1 \in Calls, NEW b2 \in Calls, NEW e1 \in conns'[b1], NEW e2 \in conns'[b2],
                      e1.n = e2.n, ~IsPruss(e1), ~IsPruss(e2)
               PROVE  b1 = b2 /\ e1 = e2
    BY Zenon DEF OneInv, IsPruss
  <2>1. CASE e1 = d /\ b1 = a
    BY <1>2, <1>7, <1>9, <1>10, <2>1
  <2>2. CASE e2 = d /\ b2 = a
    BY <1>2, <1>7, <1>9, <1>10, <2>2
  <2>3. CASE e1 \in conns[b1] /\ e2 \in conns[b2]
    BY <2>3 DEF NodeInv, OneInv
  <2>4. QED
    BY <1>9, <2>1, <2>2, <2>3
<1>13. PrussInv'
  <2> SUFFICES ASSUME NEW b \in Calls, NEW e \in conns'[b], IsPruss(e)
               PROVE  /\ \A b2 \in Calls : b2 # b => conns'[b2] = {}
                      /\ \A x \in conns'[b] : x # e =>
                           e.verb = "UNPROBE_RPROC" /\ x.verb = "DISABLE" /\ x.then = "set"
    BY Zenon DEF PrussInv, IsPruss
  \* PRUSS's connection as it was before the step.
  <2> DEFINE e0 == IF e = d /\ b = a THEN c ELSE e
  <2>1. e0 \in conns[b] /\ IsPruss(e0) /\ e0.verb = e.verb
    BY <1>2, <1>7, <1>9 DEF IsPruss
  <2>2. /\ \A b2 \in Calls : b2 # b => conns[b2] = {}
        /\ \A x \in conns[b] : x # e0 => e.verb = "UNPROBE_RPROC" /\ x.verb = "DISABLE" /\ x.then = "set"
    BY <2>1 DEF NodeInv, PrussInv
  <2>3. b = a
    BY <2>2
  <2>4. \A b2 \in Calls : b2 # b => conns'[b2] = {}
    BY <1>6, <2>2, <2>3
  <2>5. ASSUME NEW x \in conns'[b], x # e
        PROVE  e.verb = "UNPROBE_RPROC" /\ x.verb = "DISABLE" /\ x.then = "set"
    <3>1. CASE x = d
      <4>1. e # d /\ e0 = e
        BY <2>5, <3>1
      <4>2. c # e0
        BY <1>9, <2>3, <4>1
      <4>3. QED
        BY <1>2, <2>2, <2>3, <3>1, <4>2
    <3>2. CASE x # d
      <4>1. x \in conns[b] /\ x # c
        BY <1>9, <2>3, <3>2
      <4>2. x # e0
        BY <2>5, <4>1
      <4>3. QED
        BY <2>2, <4>1, <4>2
    <3>3. QED
      BY <3>1, <3>2
  <2>6. QED
    BY <2>4, <2>5
<1>14. AgreeInv'
  <2> SUFFICES ASSUME NEW n \in PRUs, ~Busy(n)' PROVE Agrees(n)'
    BY DEF AgreeInv
  <2>1. d \in conns'[a]
    BY <1>6
  <2>2. IsPruss(d) \/ d.n # n
    BY <2>1, Zenon DEF Busy, IsPruss
  <2>3. ~Busy(n)
    <3> SUFFICES ASSUME NEW b \in Calls, NEW e \in conns[b], ~IsPruss(e), e.n = n PROVE FALSE
      BY DEF Busy
    <3>1. b # a \/ e # c
      BY <1>2, <1>7, <2>2
    <3>2. e \in conns'[b]
      BY <1>6, <3>1
    <3>3. QED
      BY <3>2, Zenon DEF Busy, IsPruss
  <2>4. Agrees(n)
    BY <1>4, <2>3 DEF NodeInv, AgreeInv
  <2>5. core'[n] = core[n]
    BY <1>2, <1>7, <2>2
  <2>6. QED
    BY <1>4, <2>4, <2>5 DEF Agrees
<1>15. QED
  BY <1>5, <1>8, <1>11, <1>12, <1>13, <1>14 DEF NodeInv

----------------------------------------------------------------------------
(* The handlers of the replies.                                            *)

\* A handler that closes the connection of a PRU, sets the PRU's state, and
\* leaves it idle with the state of its core or opens its next connection.
LEMMA Handled ==
  ASSUME NodeInv, NEW a \in Calls, NEW c \in conns[a], NEW opened,
         ~IsPruss(c), c.reply # "none",
         conns' = [conns EXCEPT ![a] = (conns[a] \ {c}) \cup opened],
         UNCHANGED <<probed, core, alive, orphans, on>>,
         state' \in [PRUs -> State], \A m \in PRUs : m # c.n => state'[m] = state[m],
         \/ opened = {} /\ Agrees(c.n)'
         \/ /\ c.then # "set"
            /\ \E d \in Conns : opened = {d} /\ d.n = c.n /\ ~IsPruss(d) /\ ConnOK(d)'
  PROVE  NodeInv'
<1>0. c.n \in PRUs /\ ConnOK(c)
  BY ConnFacts
<1>1. conns'[a] = (conns[a] \ {c}) \cup opened /\ \A b \in Calls : b # a => conns'[b] = conns[b]
  BY DEF NodeInv, TypeOK
<1>2. \A d \in opened : d \in Conns /\ d.n = c.n /\ ~IsPruss(d) /\ ConnOK(d)' /\ c.then # "set" /\ opened = {d}
  OBVIOUS
<1>3. TypeOK' /\ CoreInv' /\ AliveInv'
  BY <1>2 DEF NodeInv, TypeOK, CoreInv, AliveInv
<1>4. ASSUME NEW b \in Calls, NEW e \in conns'[b]
      PROVE  (b = a /\ e \in opened) \/ (e \in conns[b] /\ (b # a \/ e # c))
  BY <1>1
<1>5. ASSUME NEW b \in Calls, NEW e \in conns[b], b # a \/ e # c, ~IsPruss(e)
      PROVE  e.n # c.n /\ e.n \in PRUs
  <2>1. e.n \in PRUs
    BY ConnFacts
  <2>2. QED
    BY <1>5, <2>1 DEF NodeInv, OneInv
<1>6. ConnInv'
  <2> SUFFICES ASSUME NEW b \in Calls, NEW e \in conns'[b] PROVE ConnOK(e)'
    BY DEF ConnInv
  <2>1. CASE e \in conns[b] /\ (b # a \/ e # c)
    <3>1. ConnOK(e)
      BY <2>1, ConnFacts
    <3>2. IsPruss(e) \/ state'[e.n] = state[e.n]
      BY <1>5, <2>1
    <3>3. QED
      BY <3>1, <3>2 DEF ConnOK, IsPruss
  <2>2. QED
    BY <1>2, <1>4, <2>1
<1>7. OneInv'
  <2> SUFFICES ASSUME NEW b1 \in Calls, NEW b2 \in Calls, NEW e1 \in conns'[b1], NEW e2 \in conns'[b2],
                      e1.n = e2.n, ~IsPruss(e1), ~IsPruss(e2)
               PROVE  b1 = b2 /\ e1 = e2
    BY ZenonT(30) DEF OneInv, IsPruss
  <2>1. CASE e1 \in opened /\ b1 = a
    BY <1>2, <1>4, <1>5, <2>1
  <2>2. CASE e2 \in opened /\ b2 = a
    BY <1>2, <1>4, <1>5, <2>2
  <2>3. CASE e1 \in conns[b1] /\ e2 \in conns[b2]
    BY <2>3 DEF NodeInv, OneInv
  <2>4. QED
    BY <1>4, <2>1, <2>2, <2>3
<1>8. PrussInv'
  <2> SUFFICES ASSUME NEW b \in Calls, NEW e \in conns'[b], IsPruss(e)
               PROVE  /\ \A b2 \in Calls : b2 # b => conns'[b2] = {}
                      /\ \A x \in conns'[b] : x # e =>
                           e.verb = "UNPROBE_RPROC" /\ x.verb = "DISABLE" /\ x.then = "set"
    BY Zenon DEF PrussInv, IsPruss
  <2>1. e \in conns[b] /\ e # c
    BY <1>2, <1>4
  <2>2. /\ \A b2 \in Calls : b2 # b => conns[b2] = {}
        /\ \A x \in conns[b] : x # e => e.verb = "UNPROBE_RPROC" /\ x.verb = "DISABLE" /\ x.then = "set"
    BY <2>1 DEF NodeInv, PrussInv
  <2>3. b = a /\ c.verb = "DISABLE" /\ c.then = "set" /\ opened = {}
    BY <2>1, <2>2
  <2>4. QED
    BY <1>1, <2>1, <2>2, <2>3
<1>9. AgreeInv'
  <2> SUFFICES ASSUME NEW n \in PRUs, ~Busy(n)' PROVE Agrees(n)'
    BY DEF AgreeInv
  <2>1. CASE n = c.n
    <3>1. opened = {}
      <4> SUFFICES ASSUME NEW d \in opened PROVE FALSE
        OBVIOUS
      <4>1. d \in conns'[a] /\ d.n = n
        BY <1>1, <1>2, <2>1
      <4>2. QED
        BY <4>1, Zenon DEF Busy, IsPruss
    <3>2. QED
      BY <1>2, <2>1, <3>1
  <2>2. CASE n # c.n
    <3>1. ~Busy(n)
      <4> SUFFICES ASSUME NEW b \in Calls, NEW e \in conns[b], ~IsPruss(e), e.n = n PROVE FALSE
        BY DEF Busy
      <4>1. e \in conns'[b]
        BY <1>1, <2>2
      <4>2. QED
        BY <4>1, Zenon DEF Busy, IsPruss
    <3>2. Agrees(n)
      BY <3>1, ConnFacts DEF NodeInv, AgreeInv
    <3>3. QED
      BY <2>2, <3>2 DEF Agrees
  <2>3. QED
    BY <2>1, <2>2
<1>10. QED
  BY <1>3, <1>6, <1>7, <1>8, <1>9 DEF NodeInv

\* What a reply leaves of the state of its PRU.
LEMMA AfterIs ==
  ASSUME NodeInv, NEW a \in Calls, NEW c \in conns[a], c.reply # "none", c.then \in {"set", "reset", "load"}
  PROVE  /\ After(c) \in State
         /\ core[c.n] = "run" <=> After(c) = "RUNNING"
         /\ core[c.n] = "halt" <=> After(c) = "HALTED"
         /\ c.then # "set" => After(c) = "STOPPED" /\ core[c.n] = "off"
<1>0. ConnOK(c) /\ c.verb \in Verbs /\ c.n \in PRUs /\ c.reply \in {"0", "err"}
      /\ state[c.n] \in State /\ core[c.n] \in CoreStates
  BY ConnFacts DEF NodeInv, TypeOK
<1>1. /\ Becomes["ENABLE"] = "RUNNING" /\ Becomes["DISABLE"] = "STOPPED"
      /\ Becomes["PAUSE"] = "HALTED" /\ Becomes["RESUME"] = "RUNNING"
  BY DEF Becomes
<1>2. c.verb \in {"ENABLE", "DISABLE", "PAUSE", "RESUME"}
  BY <1>0 DEF ConnOK, Verbs
<1>3. After(c) = IF c.reply = "0" THEN Becomes[c.verb] ELSE state[c.n]
  BY <1>2 DEF After
<1>4. CASE c.verb = "ENABLE"
  BY <1>0, <1>1, <1>3, <1>4 DEF ConnOK, State
<1>5. CASE c.verb = "DISABLE"
  BY <1>0, <1>1, <1>3, <1>5 DEF ConnOK, State
<1>6. CASE c.verb = "PAUSE"
  BY <1>0, <1>1, <1>3, <1>6 DEF ConnOK, State
<1>7. CASE c.verb = "RESUME"
  BY <1>0, <1>1, <1>3, <1>7 DEF ConnOK, State
<1>8. QED
  BY <1>2, <1>4, <1>5, <1>6, <1>7

\* A connection for enable, when the state says STOPPED.
LEMMA SentIs ==
  ASSUME NEW n \in PRUs, NEW s
  PROVE  /\ s = "STOPPED" => Sent("ENABLE", n, s, "set") = {Conn("ENABLE", n, "set")}
         /\ s # "STOPPED" => Sent("ENABLE", n, s, "set") = {}
  BY DEF Sent, Sends

\* The replies about a PRU.
LEMMA NodePruReply ==
  ASSUME NodeInv, NEW a \in Calls, NEW c \in conns[a], c.reply # "none",
         UNCHANGED <<probed, core, alive, orphans>>,
         booted_reply(a, c) \/ set_reply(a, c) \/ reset_reply(a, c) \/ load_reply(a, c) \/ loaded_reply(a, c)
  PROVE  NodeInv'
<1>0. /\ c \in Conns /\ ConnOK(c) /\ c.n \in PRUs /\ c.reply \in {"0", "err"} /\ c.verb \in Verbs
      /\ c.then \notin {"bootUp", "shutDown"} => ~IsPruss(c)
      /\ state \in [PRUs -> State] /\ core[c.n] \in CoreStates
  BY ConnFacts DEF ConnOK, IsPruss, NodeInv, TypeOK
<1>1. CASE booted_reply(a, c)
  <2>1. /\ c.then = "booted" /\ state' = [state EXCEPT ![c.n] = "STOPPED"] /\ on' = on
        /\ conns' = [conns EXCEPT ![a] = (conns[a] \ {c}) \cup {}]
    BY <1>1 DEF booted_reply, Set, Closes
  <2>2. core[c.n] = "off"
    BY <1>0, <2>1 DEF ConnOK, Verbs
  <2>3. Agrees(c.n)' /\ state' \in [PRUs -> State] /\ \A m \in PRUs : m # c.n => state'[m] = state[m]
    BY <1>0, <2>1, <2>2 DEF Agrees, State
  <2>4. QED
    BY <1>0, <2>1, <2>3, Handled
<1>2. CASE set_reply(a, c)
  <2>1. /\ c.then = "set" /\ state' = [state EXCEPT ![c.n] = After(c)] /\ on' = on
        /\ conns' = [conns EXCEPT ![a] = (conns[a] \ {c}) \cup {}]
    BY <1>2 DEF set_reply, Set, Closes
  <2>2. /\ After(c) \in State /\ (core[c.n] = "run" <=> After(c) = "RUNNING")
        /\ core[c.n] = "halt" <=> After(c) = "HALTED"
    BY <2>1, AfterIs
  <2>3. Agrees(c.n)' /\ state' \in [PRUs -> State] /\ \A m \in PRUs : m # c.n => state'[m] = state[m]
    BY <1>0, <2>1, <2>2 DEF Agrees
  <2>4. QED
    BY <1>0, <2>1, <2>3, Handled
<1>3. CASE reset_reply(a, c)
  <2>1. /\ c.then = "reset" /\ state' = [state EXCEPT ![c.n] = After(c)] /\ on' = on
        /\ conns' = [conns EXCEPT ![a] = (conns[a] \ {c}) \cup Sent("ENABLE", c.n, After(c), "set")]
    BY <1>3 DEF reset_reply, Set, Closes
  <2>2. After(c) = "STOPPED" /\ core[c.n] = "off"
    BY <2>1, AfterIs
  <2> DEFINE d == Conn("ENABLE", c.n, "set")
  <2>3. Sent("ENABLE", c.n, After(c), "set") = {d}
    BY <1>0, <2>2, SentIs
  <2>4. /\ d \in Conns /\ d.n = c.n /\ d.verb = "ENABLE" /\ d.then = "set" /\ d.reply = "none"
    BY <1>0, ConnIs DEF Verbs, Handlers
  <2> HIDE DEF d
  <2>5. state' \in [PRUs -> State] /\ state'[c.n] = "STOPPED" /\ \A m \in PRUs : m # c.n => state'[m] = state[m]
    BY <1>0, <2>1, <2>2 DEF State
  <2>6. ConnOK(d)' /\ ~IsPruss(d)
    BY <2>2, <2>4, <2>5 DEF ConnOK, IsPruss
  <2>7. QED
    BY <1>0, <2>1, <2>3, <2>4, <2>5, <2>6, Handled
<1>4. CASE load_reply(a, c)
  <2> DEFINE d == Conn("LOAD", c.n, "loaded")
  <2>1. /\ c.then = "load" /\ state' = [state EXCEPT ![c.n] = After(c)] /\ on' = on
        /\ conns' = [conns EXCEPT ![a] = (conns[a] \ {c}) \cup {d}]
    BY <1>4 DEF load_reply, Set, Closes
  <2>2. After(c) = "STOPPED" /\ core[c.n] = "off"
    BY <2>1, AfterIs
  <2>3. /\ d \in Conns /\ d.n = c.n /\ d.verb = "LOAD" /\ d.then = "loaded" /\ d.reply = "none"
    BY <1>0, ConnIs DEF Verbs, Handlers
  <2> HIDE DEF d
  <2>4. state' \in [PRUs -> State] /\ state'[c.n] = "STOPPED" /\ \A m \in PRUs : m # c.n => state'[m] = state[m]
    BY <1>0, <2>1, <2>2 DEF State
  <2>5. ConnOK(d)' /\ ~IsPruss(d)
    BY <2>2, <2>3, <2>4 DEF ConnOK, IsPruss
  <2>6. QED
    BY <1>0, <2>1, <2>3, <2>4, <2>5, Handled
<1>5. CASE loaded_reply(a, c)
  <2>1. /\ c.then = "loaded" /\ state' = state /\ on' = on
        /\ conns' = [conns EXCEPT ![a] = (conns[a] \ {c}) \cup
                       (IF c.reply = "0" THEN Sent("ENABLE", c.n, state[c.n], "set") ELSE {})]
    BY <1>5 DEF loaded_reply, Closes
  <2>2. state[c.n] # "NONE" => core[c.n] = "off" /\ state[c.n] = "STOPPED"
    BY <1>0, <2>1 DEF ConnOK, Verbs
  <2>3. CASE c.reply = "0" /\ state[c.n] = "STOPPED"
    <3> DEFINE d == Conn("ENABLE", c.n, "set")
    <3>1. conns' = [conns EXCEPT ![a] = (conns[a] \ {c}) \cup {d}]
      BY <1>0, <2>1, <2>3, SentIs
    <3>2. /\ d \in Conns /\ d.n = c.n /\ d.verb = "ENABLE" /\ d.then = "set" /\ d.reply = "none"
      BY <1>0, ConnIs DEF Verbs, Handlers
    <3> HIDE DEF d
    <3>3. ConnOK(d)' /\ ~IsPruss(d)
      BY <2>1, <2>2, <2>3, <3>2 DEF ConnOK, IsPruss
    <3>4. QED
      BY <1>0, <2>1, <3>1, <3>2, <3>3, Handled
  <2>4. CASE ~(c.reply = "0" /\ state[c.n] = "STOPPED")
    <3>1. conns' = [conns EXCEPT ![a] = (conns[a] \ {c}) \cup {}]
      BY <1>0, <2>1, <2>4, SentIs
    <3>2. Agrees(c.n)'
      BY <2>1, <2>2 DEF Agrees
    <3>3. QED
      BY <1>0, <2>1, <3>1, <3>2, Handled
  <2>5. QED
    BY <2>3, <2>4
<1>6. QED
  BY <1>1, <1>2, <1>3, <1>4, <1>5

\* The reply to PROBE has come and PRUSS stays off.
LEMMA NodeBootFails ==
  ASSUME NodeInv, NEW a \in Calls, NEW c \in conns[a], c.verb = "PROBE_RPROC",
         UNCHANGED <<probed, core, alive, orphans, on, state>>,
         conns' = [conns EXCEPT ![a] = (conns[a] \ {c}) \cup {}]
  PROVE  NodeInv'
<1>1. /\ \A b \in Calls : b # a => conns[b] = {}
      /\ \A d \in conns[a] : d = c
  BY DEF NodeInv, PrussInv, IsPruss
<1>2. \A b \in Calls : conns'[b] = {}
  BY <1>1 DEF NodeInv, TypeOK
<1>3. TypeOK' /\ CoreInv' /\ AliveInv'
  BY <1>2 DEF NodeInv, TypeOK, CoreInv, AliveInv
<1>4. ConnInv' /\ OneInv' /\ PrussInv'
  BY <1>2 DEF ConnInv, OneInv, PrussInv
<1>5. \A n \in PRUs : ~Busy(n)
  BY <1>1 DEF Busy, IsPruss
<1>6. AgreeInv'
  BY <1>5 DEF NodeInv, AgreeInv, Agrees
<1>7. QED
  BY <1>3, <1>4, <1>6 DEF NodeInv

\* The reply to PROBE: both PRUs are told to stop.
LEMMA NodeBootReply ==
  ASSUME NodeInv, NEW a \in Calls, NEW c \in conns[a], c.reply = "0",
         UNCHANGED <<probed, core, alive, orphans>>, bootUp_reply(a, c)
  PROVE  NodeInv'
<1>0. c.verb = "PROBE_RPROC" /\ alive /\ orphans = {}
  BY ConnFacts DEF bootUp_reply, ConnOK, Verbs
<1>1. /\ \A b \in Calls : b # a => conns[b] = {}
      /\ \A d \in conns[a] : d = c
  BY <1>0 DEF NodeInv, PrussInv, IsPruss
<1>2. conns' = [conns EXCEPT ![a] = (conns[a] \ {c}) \cup Disables] /\ on' = TRUE /\ state' = state
  BY <1>0 DEF bootUp_reply, Closes
<1>3. \A b \in Calls : conns'[b] = IF b = a THEN Disables ELSE {}
  BY <1>1, <1>2 DEF NodeInv, TypeOK
<1>4. \A d \in Disables :
        /\ d \in Conns /\ d.verb = "DISABLE" /\ d.then = "booted" /\ d.reply = "none"
        /\ d = Conn("DISABLE", d.n, "booted")
  <2>1. \A n \in PRUs : LET d == Conn("DISABLE", n, "booted") IN
          d \in Conns /\ d.verb = "DISABLE" /\ d.then = "booted" /\ d.reply = "none" /\ d.n = n
    BY ConnIs DEF Verbs, Handlers
  <2>2. QED
    BY <2>1 DEF Disables
<1>5. \A n \in PRUs : \E d \in Disables : d.n = n
  <2>1. \A n \in PRUs : Conn("DISABLE", n, "booted").n = n
    BY ConnIs
  <2>2. \A n \in PRUs : Conn("DISABLE", n, "booted") \in Disables
    BY DEF Disables
  <2>3. QED
    BY <2>1, <2>2
<1>6. TypeOK' /\ CoreInv' /\ AliveInv'
  BY <1>0, <1>2, <1>4 DEF NodeInv, TypeOK, CoreInv, AliveInv
<1>7. ConnInv' /\ PrussInv'
  BY <1>3, <1>4 DEF ConnInv, ConnOK, PrussInv, IsPruss
<1>8. OneInv'
  <2> SUFFICES ASSUME NEW b1 \in Calls, NEW b2 \in Calls, NEW e1 \in conns'[b1], NEW e2 \in conns'[b2],
                      e1.n = e2.n
               PROVE  b1 = b2 /\ e1 = e2
    BY Zenon DEF OneInv, IsPruss
  <2>1. b1 = a /\ b2 = a /\ e1 \in Disables /\ e2 \in Disables
    BY <1>3
  <2>2. QED
    BY <1>4, <2>1
<1>9. AgreeInv'
  <2>1. \A n \in PRUs : \E d \in conns'[a] : d.n = n /\ d.verb = "DISABLE"
    BY <1>3, <1>4, <1>5
  <2>2. \A n \in PRUs : Busy(n)'
    BY <2>1 DEF Busy, IsPruss
  <2>3. QED
    BY <2>2 DEF AgreeInv
<1>10. QED
  BY <1>6, <1>7, <1>8, <1>9 DEF NodeInv

\* The reply to UNPROBE: the handles say NONE, or what they said before.
LEMMA NodeShutReply ==
  ASSUME NodeInv, NEW a \in Calls, NEW c \in conns[a], c.reply # "none",
         UNCHANGED <<probed, core, alive, orphans>>, shutDown_reply(a, c)
  PROVE  NodeInv'
<1>0. c.verb = "UNPROBE_RPROC" /\ alive /\ orphans = {}
  BY ConnFacts DEF shutDown_reply, ConnOK, Verbs
<1>1. /\ \A b \in Calls : b # a => conns[b] = {}
      /\ \A d \in conns[a] : d # c => d.verb = "DISABLE" /\ d.then = "set"
  BY <1>0 DEF NodeInv, PrussInv, IsPruss
<1>2. /\ conns' = [conns EXCEPT ![a] = conns[a] \ {c}] /\ on' \in BOOLEAN
      /\ state' = [n \in PRUs |-> "NONE"] \/ state' = state
  BY <1>0 DEF shutDown_reply, Closes, NodeInv, TypeOK
<1>3. \A b \in Calls : conns'[b] = IF b = a THEN conns[a] \ {c} ELSE {}
  BY <1>1, <1>2 DEF NodeInv, TypeOK
<1>4. TypeOK' /\ CoreInv' /\ AliveInv'
  BY <1>0, <1>2 DEF NodeInv, TypeOK, CoreInv, AliveInv, State
<1>5. ConnInv'
  <2> SUFFICES ASSUME NEW b \in Calls, NEW e \in conns'[b] PROVE ConnOK(e)'
    BY DEF ConnInv
  <2>1. e \in conns[b] /\ e.verb = "DISABLE"
    BY <1>1, <1>3
  <2>2. ConnOK(e)
    BY <2>1, ConnFacts
  <2>3. QED
    BY <2>1, <2>2 DEF ConnOK
<1>6. OneInv'
  BY <1>3 DEF NodeInv, OneInv, IsPruss
<1>7. PrussInv'
  BY <1>1, <1>3 DEF PrussInv, IsPruss
<1>8. AgreeInv'
  <2> SUFFICES ASSUME NEW n \in PRUs, ~Busy(n)' PROVE Agrees(n)'
    BY DEF AgreeInv
  <2>1. CASE state' = [m \in PRUs |-> "NONE"]
    BY <2>1 DEF Agrees
  <2>2. CASE state' = state
    <3>1. ~Busy(n)
      <4> SUFFICES ASSUME NEW b \in Calls, NEW e \in conns[b], ~IsPruss(e), e.n = n PROVE FALSE
        BY DEF Busy
      <4>1. e # c
        BY <1>0 DEF IsPruss
      <4>2. e \in conns'[b]
        BY <1>1, <1>3, <4>1
      <4>3. QED
        BY <4>2, Zenon DEF Busy, IsPruss
    <3>2. QED
      BY <1>0, <2>2, <3>1 DEF NodeInv, AgreeInv, Agrees
  <2>3. QED
    BY <1>2, <2>1, <2>2
<1>9. QED
  BY <1>4, <1>5, <1>6, <1>7, <1>8 DEF NodeInv

LEMMA NodeReply ==
  ASSUME NodeInv, NEW a \in Calls, NEW c \in conns[a], got_reply(a, c) PROVE NodeInv'
<1>1. c.reply # "none" /\ UNCHANGED <<probed, core, alive, orphans>>
  BY DEF got_reply, rproc
<1>2. CASE bootUp_reply(a, c)
  <2>1. CASE c.reply = "0"
    BY <1>1, <1>2, <2>1, NodeBootReply
  <2>2. CASE c.reply # "0"
    <3>1. c.verb = "PROBE_RPROC"
      BY <1>2, ConnFacts DEF bootUp_reply, ConnOK, Verbs
    <3>2. conns' = [conns EXCEPT ![a] = (conns[a] \ {c}) \cup {}] /\ UNCHANGED <<on, state>>
      BY <1>2, <2>2 DEF bootUp_reply, Closes
    <3>3. QED
      BY <1>1, <3>1, <3>2, NodeBootFails
  <2>3. QED
    BY <2>1, <2>2
<1>3. QED
  BY <1>1, <1>2, NodeShutReply, NodePruReply DEF got_reply

----------------------------------------------------------------------------
(* The calls.                                                              *)

\* The PRUs of calls under way.
LEMMA InUseIs ==
  \A n \in PRUs : n \in InUse <=>
    \E a \in Calls : \E c \in conns[a] : IsPruss(c) \/ c.n = n
<1>1. \A n \in PRUs : n \in InUse <=> \E c \in UNION {conns[a] : a \in Calls} :
                                        n \in IF IsPruss(c) THEN PRUs ELSE {c.n}
  BY DEF InUse
<1>2. \A c : c \in UNION {conns[a] : a \in Calls} <=> \E a \in Calls : c \in conns[a]
  OBVIOUS
<1>3. QED
  BY <1>1, <1>2

\* A call that opens good connections about PRUs that no other call is about.
LEMMA NodeOpens ==
  ASSUME NodeInv, Orderly, NEW prus \in SUBSET PRUs, NEW opened, Opens(opened, prus),
         alive /\ (\A n \in prus : Agrees(n)) =>
           /\ \A c \in opened : c \in Conns /\ c.n \in prus /\ ConnOK(c)
           /\ \A c \in opened : \A d \in opened :
                c.n = d.n /\ ~IsPruss(c) /\ ~IsPruss(d) => c = d
           /\ \A c \in opened : IsPruss(c) =>
                /\ prus = PRUs
                /\ \A d \in opened : d # c =>
                     c.verb = "UNPROBE_RPROC" /\ d.verb = "DISABLE" /\ d.then = "set"
  PROVE  NodeInv'
<1>0. alive /\ orphans = {} /\ opened # {} /\ InUse \cap prus = {}
      /\ UNCHANGED <<probed, core, alive, on, state, orphans>>
  BY DEF Opens, Orderly, rproc, local, NodeInv, AliveInv
<1>1. PICK a \in Calls : conns[a] = {} /\ conns' = [conns EXCEPT ![a] = opened]
  BY DEF Opens
<1>2. ASSUME NEW n \in prus
      PROVE  Agrees(n) /\ \A b \in Calls : \A e \in conns[b] : ~IsPruss(e) /\ e.n # n
  <2>1. \A b \in Calls : \A e \in conns[b] : ~IsPruss(e) /\ e.n # n
    BY <1>0, InUseIs
  <2>2. ~Busy(n)
    BY <2>1, Zenon DEF Busy, IsPruss
  <2>3. QED
    BY <1>0, <2>1, <2>2 DEF NodeInv, AgreeInv
<1>3. /\ \A c \in opened : c \in Conns /\ c.n \in prus /\ ConnOK(c)
      /\ \A c \in opened : \A d \in opened :
           c.n = d.n /\ ~IsPruss(c) /\ ~IsPruss(d) => c = d
      /\ \A c \in opened : IsPruss(c) =>
           /\ prus = PRUs
           /\ \A d \in opened : d # c =>
                c.verb = "UNPROBE_RPROC" /\ d.verb = "DISABLE" /\ d.then = "set"
  BY <1>0, <1>2
<1>4. conns'[a] = opened /\ \A b \in Calls : b # a => conns'[b] = conns[b]
  BY <1>1 DEF NodeInv, TypeOK
\* No other call is PRUSS's, and none is about these PRUs.
<1>5. ASSUME NEW b \in Calls, NEW e \in conns[b]
      PROVE  ~IsPruss(e) /\ e.n \notin prus /\ e.n \in PRUs
  <2>1. PICK c \in opened : c.n \in prus
    BY <1>0, <1>3
  <2>2. e.n \in PRUs
    BY ConnFacts
  <2>3. QED
    BY <1>2, <2>1, <2>2
<1>6. TypeOK' /\ CoreInv' /\ AliveInv'
  BY <1>0, <1>1, <1>3 DEF NodeInv, TypeOK, CoreInv, AliveInv
<1>7. ConnInv'
  <2> SUFFICES ASSUME NEW b \in Calls, NEW e \in conns'[b] PROVE ConnOK(e)'
    BY DEF ConnInv
  <2>1. ConnOK(e)
    BY <1>3, <1>4, ConnFacts
  <2>2. QED
    BY <1>0, <2>1 DEF ConnOK
<1>8. OneInv'
  <2> SUFFICES ASSUME NEW b1 \in Calls, NEW b2 \in Calls, NEW e1 \in conns'[b1], NEW e2 \in conns'[b2],
                      e1.n = e2.n, ~IsPruss(e1), ~IsPruss(e2)
               PROVE  b1 = b2 /\ e1 = e2
    BY Zenon DEF OneInv, IsPruss
  <2>1. CASE b1 = a /\ b2 = a
    BY <1>3, <1>4, <2>1
  <2>2. CASE b1 # a /\ b2 # a
    BY <1>4, <2>2 DEF NodeInv, OneInv
  <2>3. CASE (b1 = a) # (b2 = a)
    BY <1>3, <1>4, <1>5, <2>3
  <2>4. QED
    BY <2>1, <2>2, <2>3
<1>9. PrussInv'
  <2> SUFFICES ASSUME NEW b \in Calls, NEW e \in conns'[b], IsPruss(e)
               PROVE  /\ \A b2 \in Calls : b2 # b => conns'[b2] = {}
                      /\ \A x \in conns'[b] : x # e =>
                           e.verb = "UNPROBE_RPROC" /\ x.verb = "DISABLE" /\ x.then = "set"
    BY Zenon DEF PrussInv, IsPruss
  <2>1. b = a /\ e \in opened
    BY <1>4, <1>5
  <2>2. \A b2 \in Calls : b2 # a => conns'[b2] = {}
    BY <1>3, <1>4, <1>5, <2>1
  <2>3. QED
    BY <1>0, <1>3, <1>4, <2>1, <2>2
<1>10. AgreeInv'
  <2> SUFFICES ASSUME NEW n \in PRUs, ~Busy(n)' PROVE Agrees(n)'
    BY DEF AgreeInv
  <2>1. ~Busy(n)
    <3> SUFFICES ASSUME NEW b \in Calls, NEW e \in conns[b], ~IsPruss(e), e.n = n PROVE FALSE
      BY DEF Busy
    <3>1. e \in conns'[b]
      BY <1>1, <1>4
    <3>2. QED
      BY <3>1, Zenon DEF Busy, IsPruss
  <2>2. Agrees(n)
    BY <1>0, <2>1 DEF NodeInv, AgreeInv
  <2>3. QED
    BY <1>0, <2>2 DEF Agrees
<1>11. QED
  BY <1>6, <1>7, <1>8, <1>9, <1>10 DEF NodeInv

\* Where the cached state is that of the core, what the calls of a PRU open
\* is good.
LEMMA Verbatim ==
  ASSUME NodeInv, NEW n \in PRUs, NEW v \in {"ENABLE", "DISABLE", "PAUSE", "RESUME"},
         NEW h \in {"set", "reset", "load"}, v # "DISABLE" => h = "set",
         NEW d \in Sent(v, n, state[n], h), Agrees(n)
  PROVE  /\ d = Conn(v, n, h) /\ d \in Conns /\ d.n = n /\ d.verb = v /\ d.then = h
         /\ ConnOK(d) /\ ~IsPruss(d)
<1>1. d = Conn(v, n, h) /\ state[n] \in Sends[v]
  BY DEF Sent
<1>2. v \in Verbs /\ h \in Handlers
  BY DEF Verbs, Handlers
<1>3. d \in Conns /\ d.verb = v /\ d.n = n /\ d.then = h /\ d.reply = "none"
  BY <1>1, <1>2, ConnIs
<1>4. /\ Sends["ENABLE"] = {"STOPPED"} /\ Sends["DISABLE"] = {"RUNNING", "HALTED"}
      /\ Sends["PAUSE"] = {"RUNNING"} /\ Sends["RESUME"] = {"HALTED"}
  BY DEF Sends
<1>5. core[n] \in CoreStates
  BY DEF NodeInv, TypeOK
<1>6. ~IsPruss(d)
  BY <1>3 DEF IsPruss
<1>7. CASE v = "ENABLE"
  BY <1>1, <1>3, <1>4, <1>5, <1>6, <1>7 DEF ConnOK, Agrees, CoreStates
<1>8. CASE v = "DISABLE"
  BY <1>1, <1>3, <1>4, <1>5, <1>6, <1>8 DEF ConnOK, Agrees, CoreStates
<1>9. CASE v = "PAUSE"
  BY <1>1, <1>3, <1>4, <1>5, <1>6, <1>9 DEF ConnOK, Agrees, CoreStates
<1>10. CASE v = "RESUME"
  BY <1>1, <1>3, <1>4, <1>5, <1>6, <1>10 DEF ConnOK, Agrees, CoreStates
<1>11. QED
  BY <1>7, <1>8, <1>9, <1>10

\* A call about one PRU opens at most one connection, a good one.
GoodOne(opened, n, x) ==
  \A c \in opened : c = x /\ c \in Conns /\ c.n = n /\ ConnOK(c) /\ ~IsPruss(c)

LEMMA NodeOpensOne ==
  ASSUME NodeInv, Orderly, NEW n \in PRUs, NEW opened, Opens(opened, {n}),
         NEW x, Agrees(n) => GoodOne(opened, n, x)
  PROVE  NodeInv'
  BY NodeOpens DEF GoodOne

LEMMA NodePruCall ==
  ASSUME NodeInv, Orderly, NEW n \in PRUs,
         enable(n) \/ disable(n) \/ pause(n) \/ resume(n) \/ reset(n) \/ load(n)
  PROVE  NodeInv'
<1>1. CASE enable(n)
  <2>1. Agrees(n) => GoodOne(Sent("ENABLE", n, state[n], "set"), n, Conn("ENABLE", n, "set"))
    BY Verbatim DEF GoodOne
  <2>2. QED
    BY <1>1, <2>1, NodeOpensOne, Zenon DEF enable
<1>2. CASE disable(n)
  <2>1. Agrees(n) => GoodOne(Sent("DISABLE", n, state[n], "set"), n, Conn("DISABLE", n, "set"))
    BY Verbatim DEF GoodOne
  <2>2. QED
    BY <1>2, <2>1, NodeOpensOne, Zenon DEF disable
<1>3. CASE pause(n)
  <2>1. Agrees(n) => GoodOne(Sent("PAUSE", n, state[n], "set"), n, Conn("PAUSE", n, "set"))
    BY Verbatim DEF GoodOne
  <2>2. QED
    BY <1>3, <2>1, NodeOpensOne, Zenon DEF pause
<1>4. CASE resume(n)
  <2>1. Agrees(n) => GoodOne(Sent("RESUME", n, state[n], "set"), n, Conn("RESUME", n, "set"))
    BY Verbatim DEF GoodOne
  <2>2. QED
    BY <1>4, <2>1, NodeOpensOne, Zenon DEF resume
<1>5. CASE reset(n)
  <2>1. CASE state[n] \in Sends.DISABLE
    <3>1. Agrees(n) => GoodOne(Sent("DISABLE", n, state[n], "reset"), n, Conn("DISABLE", n, "reset"))
      BY Verbatim DEF GoodOne
    <3>2. Sent("DISABLE", n, state[n], "reset") = {Conn("DISABLE", n, "reset")}
      BY <2>1 DEF Sent
    <3>3. Opens({Conn("DISABLE", n, "reset")}, {n})
      BY <1>5, <2>1, Zenon DEF reset
    <3>4. QED
      BY <3>1, <3>2, <3>3, NodeOpensOne, Zenon
  <2>2. CASE state[n] \notin Sends.DISABLE
    <3>1. Agrees(n) => GoodOne(Sent("ENABLE", n, state[n], "set"), n, Conn("ENABLE", n, "set"))
      BY Verbatim DEF GoodOne
    <3>2. Opens(Sent("ENABLE", n, state[n], "set"), {n})
      BY <1>5, <2>2, Zenon DEF reset
    <3>3. QED
      BY <3>1, <3>2, NodeOpensOne, Zenon
  <2>3. QED
    BY <2>1, <2>2
<1>6. CASE load(n)
  <2>1. CASE state[n] \in Sends.DISABLE
    <3>1. Agrees(n) => GoodOne(Sent("DISABLE", n, state[n], "load"), n, Conn("DISABLE", n, "load"))
      BY Verbatim DEF GoodOne
    <3>2. Sent("DISABLE", n, state[n], "load") = {Conn("DISABLE", n, "load")}
      BY <2>1 DEF Sent
    <3>3. Opens({Conn("DISABLE", n, "load")}, {n})
      BY <1>6, <2>1, Zenon DEF load
    <3>4. QED
      BY <3>1, <3>2, <3>3, NodeOpensOne, Zenon
  <2>2. CASE state[n] \notin Sends.DISABLE
    <3> DEFINE d == Conn("LOAD", n, "loaded")
    <3>1. Opens({d}, {n})
      BY <1>6, <2>2, Zenon DEF load
    <3>2. d \in Conns /\ d.n = n /\ d.verb = "LOAD" /\ d.then = "loaded" /\ d.reply = "none"
      BY ConnIs DEF Verbs, Handlers
    <3> HIDE DEF d
    <3>3. state[n] \in {"NONE", "STOPPED"}
      BY <2>2 DEF Sends, NodeInv, TypeOK, State
    <3>4. core[n] \in CoreStates
      BY DEF NodeInv, TypeOK
    <3>5. Agrees(n) => ConnOK(d) /\ ~IsPruss(d)
      BY <3>2, <3>3, <3>4 DEF ConnOK, IsPruss, Agrees, CoreStates
    <3>6. Agrees(n) => GoodOne({d}, n, d)
      BY <3>2, <3>5 DEF GoodOne
    <3>7. QED
      BY <3>1, <3>6, NodeOpensOne, Zenon
  <2>3. QED
    BY <2>1, <2>2
<1>7. QED
  BY <1>1, <1>2, <1>3, <1>4, <1>5, <1>6

LEMMA NodePrussCall ==
  ASSUME NodeInv, Orderly, bootUp \/ shutDown PROVE NodeInv'
<1>1. CASE bootUp
  <2> DEFINE d == Conn("PROBE_RPROC", 0, "bootUp")
  <2>1. Opens({d}, PRUs)
    BY <1>1 DEF bootUp, Booting
  <2>2. d \in Conns /\ d.n = 0 /\ d.verb = "PROBE_RPROC" /\ d.then = "bootUp" /\ d.reply = "none"
    BY ConnIs DEF Verbs, PRUs, Handlers
  <2> HIDE DEF d
  <2>3. ConnOK(d) /\ d.n \in PRUs
    BY <2>2 DEF ConnOK, PRUs
  <2>4. QED
    BY <2>1, <2>2, <2>3, NodeOpens
<1>2. CASE shutDown
  <2> DEFINE u == Conn("UNPROBE_RPROC", 0, "shutDown")
  <2> DEFINE dis == UNION {Sent("DISABLE", n, state[n], "set") : n \in PRUs}
  <2>1. Opens(dis \cup {u}, PRUs)
    BY <1>2, Zenon DEF shutDown
  <2>2. u \in Conns /\ u.n = 0 /\ u.verb = "UNPROBE_RPROC" /\ u.then = "shutDown" /\ u.reply = "none"
    BY ConnIs DEF Verbs, PRUs, Handlers
  <2>3. \A d : d \in dis <=> \E n \in PRUs : d \in Sent("DISABLE", n, state[n], "set")
    OBVIOUS
  <2> HIDE DEF u, dis
  <2> DEFINE opened == dis \cup {u}
  <2>4. ConnOK(u) /\ u.n \in PRUs
    BY <2>2 DEF ConnOK, PRUs
  <2> SUFFICES ASSUME \A n \in PRUs : Agrees(n)
               PROVE  /\ \A c \in opened : c \in Conns /\ c.n \in PRUs /\ ConnOK(c)
                      /\ \A c \in opened : \A d \in opened :
                           c.n = d.n /\ ~IsPruss(c) /\ ~IsPruss(d) => c = d
                      /\ \A c \in opened : IsPruss(c) =>
                           /\ \A d \in opened : d # c =>
                                c.verb = "UNPROBE_RPROC" /\ d.verb = "DISABLE" /\ d.then = "set"
    BY <2>1, NodeOpens
  <2>5. ASSUME NEW d \in dis
        PROVE  /\ d \in Conns /\ d.n \in PRUs /\ d = Conn("DISABLE", d.n, "set") /\ ConnOK(d) /\ ~IsPruss(d)
               /\ d.verb = "DISABLE" /\ d.then = "set"
    <3>1. PICK n \in PRUs : d \in Sent("DISABLE", n, state[n], "set")
      BY <2>3
    <3>2. QED
      BY <3>1, Verbatim
  <2>7. IsPruss(u)
    BY <2>2 DEF IsPruss
  <2>8. QED
    BY <2>2, <2>4, <2>5, <2>7
<1>3. QED
  BY <1>1, <1>2

----------------------------------------------------------------------------
(* The theorems.                                                           *)

LEMMA NodeNext == ASSUME Orderly PROVE NodeInv /\ [Next]_vars => NodeInv'
<1> SUFFICES ASSUME NodeInv, [Next]_vars PROVE NodeInv'
  OBVIOUS
<1>1. CASE UNCHANGED vars
  <2>1. UNCHANGED <<probed, core, alive, on, state, conns, orphans>>
    BY <1>1 DEF vars, rproc, local
  <2>2. TypeOK' /\ CoreInv' /\ AliveInv'
    BY <2>1 DEF NodeInv, TypeOK, CoreInv, AliveInv
  <2>3. ConnInv' /\ OneInv' /\ PrussInv' /\ AgreeInv'
    BY <2>1 DEF NodeInv, ConnInv, ConnOK, OneInv, PrussInv, IsPruss, AgreeInv, Agrees, Busy
  <2>4. QED
    BY <2>2, <2>3 DEF NodeInv
<1>2. CASE Daemon
  BY <1>2, NodeServes, NodeServesOrphan DEF Daemon
<1>3. CASE Process
  BY <1>3, NodeReply, NodePruCall, NodePrussCall DEF Process
<1>4. CASE start
  BY <1>4, NodeStart
<1>5. CASE dies
  BY <1>5, NodeDies
<1>6. QED
  BY <1>1, <1>2, <1>3, <1>4, <1>5 DEF Next

LEMMA NodeAlways == ASSUME Orderly PROVE Spec => []NodeInv
  BY NodeInit, NodeNext, PTL DEF Spec

\* The cached state of a PRU that no call under way is about is the state of
\* its core, whatever number of calls are under way and in whatever order
\* their commands are carried out and their replies handled, restarts and
\* deaths of the process included.  For a program that has one call at a
\* time about a PRU.
THEOREM CachedStateIsCurrent == Orderly => (Spec => []StateAgrees)
<1> SUFFICES ASSUME Orderly PROVE Spec => []StateAgrees
  OBVIOUS
<1>1. NodeInv => StateAgrees
  <2> SUFFICES ASSUME NodeInv, alive, NEW n \in PRUs, n \notin InUse PROVE Agrees(n)
    BY DEF StateAgrees, Agrees
  <2>1. ~Busy(n)
    BY InUseIs DEF Busy
  <2>2. QED
    BY <2>1 DEF NodeInv, AgreeInv
<1>2. Spec => []NodeInv
  BY NodeAlways
<1>3. QED
  BY <1>1, <1>2, PTL

\* A LOAD of a PRU whose state is known is with the daemon, or its answer on the
\* way, only while the core is off, although load neither tests the state nor
\* looks at the result of its disable.
THEOREM FirmwareMeetsStoppedCore == Orderly => (Spec => []LoadsIntoStoppedCore)
<1> SUFFICES ASSUME Orderly PROVE Spec => []LoadsIntoStoppedCore
  OBVIOUS
<1>1. NodeInv => LoadsIntoStoppedCore
  BY DEF NodeInv, ConnInv, ConnOK, LoadsIntoStoppedCore
<1>2. Spec => []NodeInv
  BY NodeAlways
<1>3. QED
  BY <1>1, <1>2, PTL
=============================================================================
