---------------------------- MODULE PrussControl ----------------------------
(***************************************************************************)
(* Starting and stopping the PRUs through the C++ bindings                 *)
(* (cpp-bindings/pruss.cpp, PRUSS and PRU), the daemon (prussd/prussd.py)  *)
(* and remoteproc.  The C bindings (c-bindings/pruss.c) are the same       *)
(* machine.                                                                *)
(*                                                                         *)
(* A call of the API is a list of steps.  A step first looks at the state  *)
(* cached in its handle, and unless that makes it return early it sends    *)
(* one command; the daemon's handler thread carries the command out, and   *)
(* the reply updates the handle.  The daemon serves every client, and a    *)
(* client may copy a handle (`PRU p1 = p.pru1;').                          *)
(***************************************************************************)
EXTENDS Sequences, Remoteproc

CONSTANTS
  Clients,      \* processes that use the bindings
  Kinds,        \* the PRU objects of a process: "own" (PRUSS's) and "copy"
  LateThreads   \* may a killed process's command be carried out when a new
                \* process has started?

ASSUME ControlAssumption ==
  /\ "own" \in Kinds
  /\ Kinds \subseteq {"own", "copy"}
  /\ LateThreads \in BOOLEAN

VARIABLES
  orphans,  \* commands of killed processes that the daemon still holds
  phase,    \* [Clients -> Phases]
  on,       \* PRUSS::on of each process
  state,    \* [Clients -> [Kinds -> [PRUs -> State]]]: PRU::state
  todo,     \* [Clients -> the steps left of the call in progress]
  req,      \* [Clients -> where the first of them is]
  strayed   \* history: the processes that have made a call through a copy

local == <<on, state>>
vars == <<rproc, orphans, phase, local, todo, req, strayed>>

State == {"NONE", "STOPPED", "RUNNING", "HALTED"}
Phases == {"absent", "starting", "alive", "exiting", "exited"}
Requests == {"none", "sent", "0", "err"}

\* A step: a command for PRU n, sent through handle k ("pruss": by PRUSS).
Steps == [verb : Verbs, n : PRUs, k : Kinds \union {"pruss"}]
Step(verb, n, k) == [verb |-> verb, n |-> n, k |-> k]

Handles(v) == [k \in Kinds |-> [n \in PRUs |-> v]]

Init ==
  /\ probed = FALSE
  /\ core = [n \in PRUs |-> "off"]
  /\ orphans = {}
  /\ phase = [c \in Clients |-> "absent"]
  /\ on = [c \in Clients |-> FALSE]
  /\ state = [c \in Clients |-> Handles("NONE")]
  /\ todo = [c \in Clients |-> << >>]
  /\ req = [c \in Clients |-> "none"]
  /\ strayed = {}

----------------------------------------------------------------------------
(* The daemon's handler threads.                                           *)

daemon_serves(c) ==
  /\ req[c] = "sent"
  /\ \E reply \in {"0", "err"} :
       /\ handle(Head(todo[c]).verb, Head(todo[c]).n, reply)
       /\ req' = [req EXCEPT ![c] = reply]
  /\ UNCHANGED <<orphans, phase, local, todo, strayed>>

\* Nobody is left to read the reply.
daemon_serves_orphan(s) ==
  /\ s \in orphans
  /\ \E reply \in {"0", "err"} : handle(s.verb, s.n, reply)
  /\ orphans' = orphans \ {s}
  /\ UNCHANGED <<phase, local, todo, req, strayed>>

----------------------------------------------------------------------------
(* One step of a call.                                                     *)

\* Mutant: only a running core is disabled.
SendsUnlessHalted ==
  [ ENABLE  |-> {"STOPPED"},
    DISABLE |-> {"RUNNING"},
    PAUSE   |-> {"STOPPED", "RUNNING"},
    RESUME  |-> {"HALTED"},
    LOAD    |-> State ]

\* The states of the handle in which a call does not return early.
Sends ==
  [ ENABLE  |-> {"STOPPED"},
    DISABLE |-> {"RUNNING", "HALTED"},
    PAUSE   |-> {"STOPPED", "RUNNING"},
    RESUME  |-> {"HALTED"},
    LOAD    |-> State ]

Goes(c, s) ==
  CASE s.k # "pruss"                           -> state[c][s.k][s.n] \in Sends[s.verb]
    [] s.k = "pruss" /\ s.verb = "PROBE_RPROC" -> ~on[c]
    [] OTHER                                   -> TRUE

\* The first step returns EALREADY or ENODEV without a command.
returns_early(c) ==
  /\ todo[c] # << >>
  /\ req[c] = "none"
  /\ ~Goes(c, Head(todo[c]))
  /\ todo' = [todo EXCEPT ![c] = Tail(@)]
  /\ UNCHANGED <<rproc, orphans, phase, local, req, strayed>>

sendcmd(c) ==
  /\ todo[c] # << >>
  /\ req[c] = "none"
  /\ Goes(c, Head(todo[c]))
  /\ req' = [req EXCEPT ![c] = "sent"]
  /\ UNCHANGED <<rproc, orphans, phase, local, todo, strayed>>

\* Mutant: the handle takes remoteproc's name of the state.
BecomesCore == [ENABLE |-> "run", DISABLE |-> "off", PAUSE |-> "halt", RESUME |-> "run"]
\* What a handle becomes after a command that succeeded.
Becomes == [ENABLE |-> "RUNNING", DISABLE |-> "STOPPED", PAUSE |-> "HALTED", RESUME |-> "RUNNING"]

SetOwn(c, v) == state' = [state EXCEPT ![c]["own"] = [n \in PRUs |-> v]]

\* The result 0 is recorded in the handle, or in PRUSS and its own handles.
succeeds(c, s) ==
  CASE s.verb = "PROBE_RPROC" ->
         on' = [on EXCEPT ![c] = TRUE] /\ SetOwn(c, "STOPPED")
    [] s.verb = "UNPROBE_RPROC" ->
         on' = [on EXCEPT ![c] = FALSE] /\ SetOwn(c, "NONE")
    [] s.k # "pruss" /\ s.verb \in DOMAIN Becomes ->
         state' = [state EXCEPT ![c][s.k][s.n] = Becomes[s.verb]] /\ UNCHANGED on
    [] OTHER ->
         UNCHANGED local

got_reply(c) ==
  /\ req[c] \in {"0", "err"}
  /\ IF req[c] = "0" THEN succeeds(c, Head(todo[c])) ELSE UNCHANGED local
  /\ todo' = [todo EXCEPT ![c] = Tail(@)]
  /\ req' = [req EXCEPT ![c] = "none"]
  /\ phase' = IF phase[c] = "starting" /\ Tail(todo[c]) = << >>
                THEN [phase EXCEPT ![c] = "alive"] ELSE phase
  /\ UNCHANGED <<rproc, orphans, strayed>>

----------------------------------------------------------------------------
(* The calls.                                                              *)

Idle(c) == phase[c] = "alive" /\ todo[c] = << >>

Call(c, steps) ==
  /\ Idle(c)
  /\ todo' = [todo EXCEPT ![c] = steps]
  /\ strayed' = IF \E i \in DOMAIN steps : steps[i].k = "copy" THEN strayed \union {c} ELSE strayed
  /\ UNCHANGED <<rproc, orphans, phase, local, req>>

\* Mutant: PRU1 is not disabled.
ShutDownFirst == <<Step("DISABLE", 0, "own"), Step("UNPROBE_RPROC", 0, "pruss")>>
ShutDown == <<Step("DISABLE", 0, "own"), Step("DISABLE", 1, "own"),
              Step("UNPROBE_RPROC", 0, "pruss")>>
BootUp == <<Step("PROBE_RPROC", 0, "pruss")>>

\* Mutant: PRUSS relies on its PRUs having been stopped.
PRUSS_boots_only(c) ==
  /\ phase[c] \in {"absent", "exited"}
  /\ LateThreads \/ orphans = {}
  /\ phase' = [phase EXCEPT ![c] = "starting"]
  /\ on' = [on EXCEPT ![c] = FALSE]
  /\ state' = [state EXCEPT ![c] = Handles("NONE")]
  /\ strayed' = strayed \ {c}
  /\ todo' = [todo EXCEPT ![c] = BootUp]
  /\ UNCHANGED <<rproc, orphans, req>>

\* A process starts.  The PRU constructors find state NONE and do nothing;
\* PRUSS stops both cores, whatever the answer, and boots up.
PRUSS(c) ==
  /\ phase[c] \in {"absent", "exited"}
  /\ LateThreads \/ orphans = {}
  /\ phase' = [phase EXCEPT ![c] = "starting"]
  /\ on' = [on EXCEPT ![c] = FALSE]
  /\ state' = [state EXCEPT ![c] = Handles("NONE")]
  /\ strayed' = strayed \ {c}
  /\ todo' = [todo EXCEPT ![c] =
       <<Step("DISABLE", 0, "pruss"), Step("DISABLE", 1, "pruss")>> \o BootUp]
  /\ UNCHANGED <<rproc, orphans, req>>

\* PRU p = pruss.pru<n>: a copy, with the state of this moment.
copy(c, n) ==
  /\ "copy" \in Kinds
  /\ Idle(c)
  /\ state' = [state EXCEPT ![c]["copy"][n] = state[c]["own"][n]]
  /\ UNCHANGED <<rproc, orphans, phase, on, todo, req, strayed>>

enable(c, n, k) == Call(c, <<Step("ENABLE", n, k)>>)
disable(c, n, k) == Call(c, <<Step("DISABLE", n, k)>>)
reset(c, n, k) == Call(c, <<Step("DISABLE", n, k), Step("ENABLE", n, k)>>)
pause(c, n, k) == Call(c, <<Step("PAUSE", n, k)>>)
resume(c, n, k) == Call(c, <<Step("RESUME", n, k)>>)
load(c, n, k) == Call(c, <<Step("DISABLE", n, k), Step("LOAD", n, k), Step("ENABLE", n, k)>>)

bootUp(c) == ~on[c] /\ Call(c, BootUp)
shutDown(c) == on[c] /\ Call(c, ShutDown)
restart(c) == Call(c, (IF on[c] THEN ShutDown ELSE << >>) \o BootUp)

\* main() returns: the destructor of PRUSS runs, then the process is gone.
exit(c) ==
  /\ Idle(c)
  /\ phase' = [phase EXCEPT ![c] = "exiting"]
  /\ todo' = [todo EXCEPT ![c] = IF on[c] THEN ShutDown ELSE << >>]
  /\ UNCHANGED <<rproc, orphans, local, req, strayed>>

exited(c) ==
  /\ phase[c] = "exiting"
  /\ todo[c] = << >>
  /\ phase' = [phase EXCEPT ![c] = "exited"]
  /\ UNCHANGED <<rproc, orphans, local, todo, req, strayed>>

\* A process is killed; a command it has sent stays with the daemon.
killed(c) ==
  /\ phase[c] \in {"starting", "alive", "exiting"}
  /\ phase' = [phase EXCEPT ![c] = "absent"]
  /\ orphans' = IF req[c] = "sent" THEN orphans \union {Head(todo[c])} ELSE orphans
  /\ todo' = [todo EXCEPT ![c] = << >>]
  /\ req' = [req EXCEPT ![c] = "none"]
  /\ UNCHANGED <<rproc, local, strayed>>

Next ==
  \/ \E s \in orphans : daemon_serves_orphan(s)
  \/ \E c \in Clients :
       \/ daemon_serves(c)
       \/ returns_early(c)
       \/ sendcmd(c)
       \/ got_reply(c)
       \/ PRUSS(c)
       \/ bootUp(c)
       \/ shutDown(c)
       \/ restart(c)
       \/ exit(c)
       \/ exited(c)
       \/ killed(c)
       \/ \E n \in PRUs : copy(c, n)
       \/ \E n \in PRUs, k \in Kinds :
            \/ enable(c, n, k)
            \/ disable(c, n, k)
            \/ reset(c, n, k)
            \/ pause(c, n, k)
            \/ resume(c, n, k)
            \/ load(c, n, k)

Spec == Init /\ [][Next]_vars

----------------------------------------------------------------------------
\* The shape of the state.
TypeOK ==
  /\ probed \in BOOLEAN
  /\ core \in [PRUs -> CoreStates]
  /\ orphans \subseteq Steps
  /\ phase \in [Clients -> Phases]
  /\ on \in [Clients -> BOOLEAN]
  /\ state \in [Clients -> [Kinds -> [PRUs -> State]]]
  /\ todo \in [Clients -> Seq(Steps)]
  /\ req \in [Clients -> Requests]
  /\ strayed \subseteq Clients

\* A core whose handle says STOPPED is off, through every sequence of calls,
\* early returns, restarts and kills: enable() will start it from its first
\* instruction ("PRU Cores are disabled after bootup").  True of the process
\* that has the PRUs to itself and does not call through copies.
StoppedMeansOff ==
  \A c \in Clients \ strayed, n \in PRUs :
    (phase[c] = "alive" /\ req[c] = "none" /\ state[c]["own"][n] = "STOPPED") => core[n] = "off"

\* When shutDown() has returned 0, or the process has run its destructors.
IsDown(c) == phase[c] = "exited" \/ (Idle(c) /\ ~on[c])
Down == \A n \in PRUs : core[n] = "off"

\* shutDown() "stops both the PRUs", and so does the destructor: both cores are
\* off, whatever the handles believed and whichever of the commands on the way
\* failed (the module may still be there: modprobe's status is ignored).  For
\* such a process as above.
OwnShutDownStops == \A c \in Clients \ strayed : IsDown(c) => Down

\* The same for every process, as the comment says. False, and in no run: a core
\* started through a copy outlives shutDown() (Kinds = {"own", "copy"}).
ShutDownStops == \A c \in Clients : IsDown(c) => Down

\* Whatever earlier processes left behind (cores started through a copied
\* handle, or by a process that was killed), a new one finds both cores
\* stopped when its constructor returns, as the comment of the constructor
\* says: whether the driver was loaded before, and whether PROBE worked or not.
\* Its handles say so (STOPPED) if PRUSS believes to be on, else nothing (NONE).
ConstructorStops ==
  [][\A c \in Clients :
       (phase[c] = "starting" /\ phase'[c] = "alive") =>
         \A n \in PRUs :
           /\ core'[n] = "off"
           /\ state'[c]["own"][n] = IF on'[c] THEN "STOPPED" ELSE "NONE"]_vars

\* isOn() returns "true if the pru_rproc driver has been probed" (pruss.cpp:128).
OnMeansProbed == \A c \in Clients : (Idle(c) /\ on[c]) => probed

\* getState() "returns the current state of the PRU".
StateIsCurrent ==
  \A c \in Clients, n \in PRUs :
    (Idle(c) /\ on[c]) =>
      core[n] = [NONE |-> "off", STOPPED |-> "off", RUNNING |-> "run", HALTED |-> "halt"]
                  [state[c]["own"][n]]
=============================================================================
