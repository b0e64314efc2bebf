----------------------------- MODULE NodeControl -----------------------------
(***************************************************************************)
(* The Node.js bindings (node-bindings/pruss.js, pru.js, util/sock.js):    *)
(* asynchronous calls over the daemon and remoteproc.                      *)
(*                                                                         *)
(* A call looks at the cached state, opens a connection for every command  *)
(* it sends and returns; the handler of the reply updates the cached state *)
(* and may go on with a further command.  Every connection has a thread of *)
(* the daemon of its own, so commands are carried out, and replies handled,*)
(* in any order.  The Node.js process has one thread, so a handler runs     *)
(* in one step.                                                            *)
(*                                                                         *)
(* Left out because they change nothing: restart(), which calls shutDown   *)
(* where only this.shutDown exists and throws; the 'exit' handler of the   *)
(* process, whose disables open sockets that the exiting process no longer *)
(* serves; errno.EALREADY and the results passed to the callbacks.         *)
(***************************************************************************)
EXTENDS FiniteSets, Remoteproc

CONSTANTS
  Calls,        \* calls under way at the same time, at most
  Overlap,      \* may two of them be about the same PRU?
  LateThreads   \* may a dead process's command be carried out when the next
                \* process has started?

ASSUME NodeAssumption ==
  /\ Calls # {}
  /\ IsFiniteSet(Calls)
  /\ Overlap \in BOOLEAN
  /\ LateThreads \in BOOLEAN

VARIABLES
  alive,    \* the Node.js process runs
  on,       \* PRUSS._on
  state,    \* [PRUs -> State]: PRU._state
  conns,    \* [Calls -> the open connections of the call]
  orphans   \* commands of dead processes that the daemon still holds

local == <<alive, on, state>>
vars == <<rproc, local, conns, orphans>>

State == {"NONE", "STOPPED", "RUNNING", "HALTED"}

\* What the handler of a reply does, named for the function it is in; "set"
\* is the plain handler of enable, disable, pause and resume.
Handlers == {"bootUp", "booted", "shutDown", "set", "reset", "load", "loaded"}

Conns == [verb : Verbs, n : PRUs, then : Handlers, reply : {"none", "0", "err"}]

Conn(verb, n, then) == [verb |-> verb, n |-> n, then |-> then, reply |-> "none"]

TypeOK ==
  /\ probed \in BOOLEAN
  /\ core \in [PRUs -> CoreStates]
  /\ alive \in BOOLEAN
  /\ on \in BOOLEAN
  /\ state \in [PRUs -> State]
  /\ conns \in [Calls -> SUBSET Conns]
  /\ orphans \subseteq (Verbs \X PRUs)

----------------------------------------------------------------------------

\* Mutant: pause lets a stopped PRU through, as the C++ bindings do.
SendsAsCpp ==
  [ ENABLE  |-> {"STOPPED"},
    DISABLE |-> {"RUNNING", "HALTED"},
    PAUSE   |-> {"STOPPED", "RUNNING"},
    RESUME  |-> {"HALTED"} ]

\* The states in which a call does not return early.
Sends ==
  [ ENABLE  |-> {"STOPPED"},
    DISABLE |-> {"RUNNING", "HALTED"},
    PAUSE   |-> {"RUNNING"},
    RESUME  |-> {"HALTED"} ]

Becomes == [ENABLE |-> "RUNNING", DISABLE |-> "STOPPED", PAUSE |-> "HALTED", RESUME |-> "RUNNING"]

\* this.<verb>(cb) of PRU n when its state is s: the connection it opens.
Sent(verb, n, s, then) == IF s \in Sends[verb] THEN {Conn(verb, n, then)} ELSE {}

\* The constructors: reset() finds state NONE twice, then PRUSS boots up.
Booting == {Conn("PROBE_RPROC", 0, "bootUp")}

Init ==
  /\ probed \in BOOLEAN
  /\ core \in [PRUs -> IF probed THEN CoreStates ELSE {"off"}]
  /\ alive = FALSE
  /\ on = FALSE
  /\ state = [n \in PRUs |-> "NONE"]
  /\ conns = [a \in Calls |-> {}]
  /\ orphans = {}

start ==
  /\ ~alive
  /\ LateThreads \/ orphans = {}
  /\ alive' = TRUE
  /\ on' = FALSE
  /\ state' = [n \in PRUs |-> "NONE"]
  /\ \E a \in Calls : conns' = [conns EXCEPT ![a] = Booting]
  /\ UNCHANGED <<rproc, orphans>>

\* The process exits or is killed. Of its commands some have reached the daemon.
dies ==
  /\ alive
  /\ alive' = FALSE
  /\ LET unserved == {c \in UNION {conns[a] : a \in Calls} : c.reply = "none"} IN
       \E reached \in SUBSET unserved :
         orphans' = orphans \cup {<<c.verb, c.n>> : c \in reached}
  /\ conns' = [a \in Calls |-> {}]
  /\ UNCHANGED <<rproc, on, state>>

----------------------------------------------------------------------------
(* The daemon's handler threads.                                           *)

daemon_serves(a, c) ==
  /\ c \in conns[a]
  /\ c.reply = "none"
  /\ \E r \in {"0", "err"} :
       /\ handle(c.verb, c.n, r)
       /\ conns' = [conns EXCEPT ![a] = (@ \ {c}) \cup {[c EXCEPT !.reply = r]}]
  /\ UNCHANGED <<local, orphans>>

daemon_serves_orphan(o) ==
  /\ o \in orphans
  /\ \E r \in {"0", "err"} : handle(o[1], o[2], r)
  /\ orphans' = orphans \ {o}
  /\ UNCHANGED <<local, conns>>

----------------------------------------------------------------------------
(* The handlers of the replies.                                            *)

\* The connection closes, and the handler opens others.
Closes(a, c, opened) == conns' = [conns EXCEPT ![a] = (@ \ {c}) \cup opened]

Set(n, s) == state' = [state EXCEPT ![n] = s]

\* Mutant: PRU1 is not told to stop.
DisablesFirst == {Conn("DISABLE", 0, "booted")}

\* The PROBE succeeded: both PRUs are told to stop.
Disables == {Conn("DISABLE", n, "booted") : n \in PRUs}

bootUp_reply(a, c) ==
  /\ c.then = "bootUp"
  /\ IF c.reply = "0"
       THEN on' = TRUE /\ Closes(a, c, Disables)
       ELSE Closes(a, c, {}) /\ UNCHANGED on
  /\ UNCHANGED state

\* Whatever the daemon answered.
booted_reply(a, c) ==
  /\ c.then = "booted"
  /\ Set(c.n, "STOPPED")
  /\ Closes(a, c, {})
  /\ UNCHANGED on

shutDown_reply(a, c) ==
  /\ c.then = "shutDown"
  /\ IF c.reply = "0"
       THEN on' = FALSE /\ state' = [n \in PRUs |-> "NONE"]
       ELSE UNCHANGED <<on, state>>
  /\ Closes(a, c, {})

\* enable, disable, pause and resume, the first two also on the way through
\* reset and load.
After(c) == IF c.reply = "0" /\ c.verb # "LOAD" THEN Becomes[c.verb] ELSE state[c.n]

set_reply(a, c) ==
  /\ c.then = "set"
  /\ Set(c.n, After(c))
  /\ Closes(a, c, {})
  /\ UNCHANGED on

\* The callback of reset's disable calls enable, with the state of now.
reset_reply(a, c) ==
  /\ c.then = "reset"
  /\ Set(c.n, After(c))
  /\ Closes(a, c, Sent("ENABLE", c.n, After(c), "set"))
  /\ UNCHANGED on

\* The callback of load's disable sends LOAD whatever the disable returned.
load_reply(a, c) ==
  /\ c.then = "load"
  /\ Set(c.n, After(c))
  /\ Closes(a, c, {Conn("LOAD", c.n, "loaded")})
  /\ UNCHANGED on

loaded_reply(a, c) ==
  /\ c.then = "loaded"
  /\ Closes(a, c, IF c.reply = "0" THEN Sent("ENABLE", c.n, state[c.n], "set") ELSE {})
  /\ UNCHANGED <<on, state>>

got_reply(a, c) ==
  /\ c \in conns[a]
  /\ c.reply # "none"
  /\ \/ bootUp_reply(a, c) \/ booted_reply(a, c) \/ shutDown_reply(a, c)
     \/ set_reply(a, c) \/ reset_reply(a, c) \/ load_reply(a, c) \/ loaded_reply(a, c)
  /\ UNCHANGED <<rproc, alive, orphans>>

----------------------------------------------------------------------------
(* The calls.  One that returns early changes nothing.                     *)

IsPruss(c) == c.verb \in {"PROBE_RPROC", "UNPROBE_RPROC"}

\* The PRUs that calls under way are about.
InUse == UNION {IF IsPruss(c) THEN PRUs ELSE {c.n} : c \in UNION {conns[a] : a \in Calls}}

\* A call opens its connections.
Opens(opened, prus) ==
  /\ alive
  /\ Overlap \/ InUse \cap prus = {}
  /\ opened # {}
  /\ \E a \in Calls :
       /\ conns[a] = {}
       /\ conns' = [conns EXCEPT ![a] = opened]
  /\ UNCHANGED <<rproc, local, orphans>>

enable(n) == Opens(Sent("ENABLE", n, state[n], "set"), {n})
disable(n) == Opens(Sent("DISABLE", n, state[n], "set"), {n})
pause(n) == Opens(Sent("PAUSE", n, state[n], "set"), {n})
resume(n) == Opens(Sent("RESUME", n, state[n], "set"), {n})

\* a disable that returns early calls its callback at once
reset(n) ==
  Opens(IF state[n] \in Sends.DISABLE THEN {Conn("DISABLE", n, "reset")}
        ELSE Sent("ENABLE", n, state[n], "set"), {n})

\* Mutant: LOAD does not wait for the reply of the disable.
load_at_once(n) ==
  Opens(Sent("DISABLE", n, state[n], "set") \cup {Conn("LOAD", n, "loaded")}, {n})

\* load looks at this.state, which does not exist, for NONE
load(n) ==
  Opens(IF state[n] \in Sends.DISABLE THEN {Conn("DISABLE", n, "load")}
        ELSE {Conn("LOAD", n, "loaded")}, {n})

bootUp == ~on /\ Opens(Booting, PRUs)

\* The disables and the UNPROBE go out together.
shutDown ==
  /\ on
  /\ Opens((UNION {Sent("DISABLE", n, state[n], "set") : n \in PRUs})
             \cup {Conn("UNPROBE_RPROC", 0, "shutDown")}, PRUs)

Daemon == \/ \E a \in Calls : \E c \in conns[a] : daemon_serves(a, c)
          \/ \E o \in orphans : daemon_serves_orphan(o)

Process == \/ \E a \in Calls : \E c \in conns[a] : got_reply(a, c)
           \/ \E n \in PRUs : enable(n) \/ disable(n) \/ pause(n) \/ resume(n)
                              \/ reset(n) \/ load(n)
           \/ bootUp \/ shutDown

Next == Daemon \/ Process \/ start \/ dies

Spec == Init /\ [][Next]_vars

\* The daemon starts a thread for every connection, and Node.js handles every
\* reply.
FairSpec ==
  /\ Spec
  /\ \A a \in Calls, n \in PRUs :
       /\ WF_vars(\E c \in conns[a] : c.n = n /\ daemon_serves(a, c))
       /\ WF_vars(\E c \in conns[a] : c.n = n /\ got_reply(a, c))

----------------------------------------------------------------------------

\* Once no call about a PRU is under way, its cached state is the state of the
\* core, in whatever order the daemon's threads and the handlers of the replies
\* ran (shutDown's disables race its UNPROBE, line 43) and whichever commands
\* failed. The guards of pru.js rest on it; NONE says nothing of the core, and
\* they let nothing through. For a program that has one call at a time about a
\* PRU; two that overlap both pass the guard on the old state (Overlap).
StateAgrees ==
  \A n \in PRUs \ InUse : (alive /\ state[n] # "NONE") =>
    /\ core[n] = "run" <=> state[n] = "RUNNING"
    /\ core[n] = "halt" <=> state[n] = "HALTED"

\* load sends LOAD when the core is off, where remoteproc takes a firmware,
\* although its own test of the state (line 83) tests nothing and it does not
\* look at the result of its disable (85-86). For a PRU that has been booted:
\* that test should have kept the others out.
LoadsIntoStoppedCore ==
  \A a \in Calls : \A c \in conns[a] :
    (c.verb = "LOAD" /\ state[c.n] # "NONE") => core[c.n] = "off"

BootConns == {c \in UNION {conns[a] : a \in Calls} : c.then = "bootUp"}

\* Whatever an earlier process left running, booting up (line 24, from the
\* constructor or after a shutDown) ends with each core off at some point,
\* unless the process dies first or the daemon cannot run modprobe.
BootStopsCores ==
  \A n \in PRUs :
    BootConns # {} ~>
      (core[n] = "off" \/ ~alive \/ \E c \in BootConns : c.reply = "err")
=============================================================================
