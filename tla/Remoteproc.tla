----------------------------- MODULE Remoteproc -----------------------------
(***************************************************************************)
(* The control commands of the daemon (prussd/prussd.py, the handler and   *)
(* its sysfs_write and mod_probe) with remoteproc behind the files they    *)
(* write.  Every language's bindings end here.                             *)
(***************************************************************************)
VARIABLES
  probed,   \* the pru_rproc module is loaded
  core      \* [PRUs -> CoreStates]: the cores

rproc == <<probed, core>>

PRUs == {0, 1}
CoreStates == {"off", "run", "halt"}
Verbs == {"PROBE_RPROC", "UNPROBE_RPROC", "ENABLE", "DISABLE", "PAUSE", "RESUME", "LOAD"}

\* The states of a core in which remoteproc accepts a write, and what the
\* core does then.  Single-stepping a core that is off leaves it off.
Accepts ==
  [ ENABLE  |-> [off |-> "run"],
    DISABLE |-> [run |-> "off", halt |-> "off"],
    PAUSE   |-> [off |-> "off", run |-> "halt", halt |-> "halt"],
    RESUME  |-> [off |-> "off", run |-> "run", halt |-> "run"],
    LOAD    |-> [off |-> "off"] ]

\* The file is there and remoteproc takes the value.
Written(verb, n) == probed /\ core[n] \in DOMAIN Accepts[verb]

\* What the writes of sysfs_write and load_firmware answer and do.  Starting a
\* core also fails for want of a firmware, and LOAD for want of the file.
sysfs_write(verb, n, reply) ==
  /\ \/ /\ Written(verb, n)
        /\ reply = "0"
        /\ core' = [core EXCEPT ![n] = Accepts[verb][@]]
     \/ /\ ~Written(verb, n) \/ verb \in {"ENABLE", "LOAD"}
        /\ reply = "err"
        /\ UNCHANGED core
  /\ UNCHANGED probed

\* mod_probe answers 0 whatever modprobe's exit status, and an error when it
\* cannot run modprobe.  A module whose core is running cannot be removed.
mod_probe(verb, reply) ==
  /\ reply \in {"0", "err"}
  /\ \/ UNCHANGED probed
     \/ reply = "0" /\ verb = "PROBE_RPROC" /\ probed' = TRUE
     \/ /\ reply = "0" /\ verb = "UNPROBE_RPROC" /\ probed' = FALSE
        /\ \A k \in PRUs : core[k] = "off"
  /\ UNCHANGED core

\* A handler thread carries out a command for PRU n and answers.
handle(verb, n, reply) ==
  IF verb \in {"PROBE_RPROC", "UNPROBE_RPROC"}
    THEN mod_probe(verb, reply) ELSE sysfs_write(verb, n, reply)
=============================================================================
