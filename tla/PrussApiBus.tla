----------------------------- MODULE PrussApiBus -----------------------------
(***************************************************************************)
(* The bus side of the pruss_api driver (src/drivers/pruss_api.c): module  *)
(* init and exit, the probe and the remove of an rpmsg channel one step at *)
(* a time, and the file operations as far as they use what probe set up.   *)
(* The message fifo itself is in PrussApiDev.                              *)
(*                                                                         *)
(* Nothing keeps a device from being opened before its probe is over, or   *)
(* from being removed while its file is open: the file then leads to a     *)
(* prudev that the bus has freed, and what a call does with it is for the  *)
(* memory it finds to decide.                                              *)
(*                                                                         *)
(* Channels are announced and withdrawn by the kernel in any order and at  *)
(* the same time, since every PRU has a virtio device of its own.          *)
(***************************************************************************)
EXTENDS Naturals, FiniteSets

CONSTANTS
  Chans,            \* rpmsg channels named "pruss-api", one per PRU
  Ports,            \* the numbers in the names of the device nodes
  Port,             \* Port[c]: rpdev->dst of channel c
  Procs,            \* processes that use the device nodes
  PRU_MAX_DEVICES,  \* minors
  None,
  Freed             \* memory that was a prudev and is one no more

Minors == 0 .. PRU_MAX_DEVICES - 1

ASSUME BusAssumption ==
  /\ Port \in [Chans -> Ports]
  /\ PRU_MAX_DEVICES \in Nat \ {0}
  /\ None \notin Chans
  /\ None \notin Procs
  /\ None \notin Minors
  /\ Freed \notin Chans \cup {None}

VARIABLES
  module,   \* what the module holds: its class, its region, its registration
  at,       \* at[c]: the next step of probe or remove on channel c
  minor,    \* minor[c]: the minor of prudev->devt, while it is c's
  idr,      \* idr[m]: the channel whose prudev has minor m
  cdevs,    \* cdevs[m]: the channel whose cdev answers to minor m
  nodes,    \* nodes[n]: the minor of /dev/pruss_api_pru<n>
  parts,    \* parts[c]: the parts of prudev that are set up
  locked,   \* locked[c]: prudev->locked
  file,     \* file[p]: the prudev in the private_data of p's open file
  call,     \* call[p]: the file operation p is in
  buf,      \* whose message is in the static write buffer
  sent,     \* sent[p]: whose message p's last write sent (p before the first)
  callback  \* channels whose pruss_api_cb is running

kernel == <<module, at, minor, idr, cdevs, nodes, parts>>
files  == <<locked, file, call, buf, sent>>
vars   == <<kernel, files, callback>>

ProbeSteps  == {"cdev", "node", "rpdev", "fifo", "queue", "drvdata"}
UndoSteps   == {"undo_fifo", "undo_node", "undo_cdev", "undo_minor", "free"}
ModuleParts == {"class", "region", "driver"}
DevParts    == {"dev", "rpdev", "fifo", "queue", "drvdata"}

TypeOK ==
  /\ module \subseteq ModuleParts
  /\ at \in [Chans -> ProbeSteps \cup UndoSteps \cup {"unbound", "bound"}]
  /\ minor \in [Chans -> Minors \cup {None}]
  /\ idr \in [Minors -> Chans \cup {None}]
  /\ cdevs \in [Minors -> Chans \cup {None}]
  /\ nodes \in [Ports -> Minors \cup {None}]
  /\ parts \in [Chans -> SUBSET DevParts]
  /\ locked \in [Chans -> BOOLEAN]
  /\ file \in [Procs -> Chans \cup {Freed, None}]
  /\ call \in [Procs -> {"idle", "read", "write"}]
  /\ buf \in Procs \cup {None}
  /\ sent \in [Procs -> Procs \cup {None}]
  /\ callback \subseteq Chans

Init ==
  /\ module = {}
  /\ at = [c \in Chans |-> "unbound"]
  /\ minor = [c \in Chans |-> None]
  /\ idr = [m \in Minors |-> None]
  /\ cdevs = [m \in Minors |-> None]
  /\ nodes = [n \in Ports |-> None]
  /\ parts = [c \in Chans |-> {}]
  /\ locked = [c \in Chans |-> FALSE]
  /\ file = [p \in Procs |-> None]
  /\ call = [p \in Procs |-> "idle"]
  /\ buf = None
  /\ sent = [p \in Procs |-> p]
  /\ callback = {}

-----------------------------------------------------------------------------
(* Module init and exit                                                    *)

\* What the labels of pruss_api_init give back when taking x fails.
Undone(x) ==
  CASE x = "class"  -> {}
    [] x = "region" -> {"class"}
    [] x = "driver" -> {"region", "class"}

\* What it holds by then.
HeldBefore(x) ==
  CASE x = "class"  -> {}
    [] x = "region" -> {"class"}
    [] x = "driver" -> {"class", "region"}

\* pruss_api_init fails while it takes x. No channel is probed meanwhile, so
\* taking and giving back is one step.
InitFails(x) ==
  /\ module = {}
  /\ module' = HeldBefore(x) \ Undone(x)
  /\ UNCHANGED <<at, minor, idr, cdevs, nodes, parts, files, callback>>

InitModule ==
  /\ module = {}
  /\ module' = ModuleParts
  /\ UNCHANGED <<at, minor, idr, cdevs, nodes, parts, files, callback>>

\* .owner = THIS_MODULE: an open file pins the module.
Pinned == \E p \in Procs : file[p] # None

\* unregister_rpmsg_driver: from here no channel is probed, and the bus removes
\* the devices that are bound.
ExitModule ==
  /\ "driver" \in module
  /\ ~Pinned
  /\ module' = module \ {"driver"}
  /\ UNCHANGED <<at, minor, idr, cdevs, nodes, parts, files, callback>>

\* ... until none is left; then exit drops the minors, the class and the region.
ExitDone ==
  /\ module = {"class", "region"}
  /\ \A c \in Chans : at[c] = "unbound"
  /\ idr' = [m \in Minors |-> None]
  /\ module' = {}
  /\ UNCHANGED <<at, minor, cdevs, nodes, parts, files, callback>>

-----------------------------------------------------------------------------
(* pruss_api_probe: a failing step goes to its label; a failure before the *)
(* minor is taken changes nothing                                          *)

Goto(c, step) == at' = [at EXCEPT ![c] = step]

\* Mutant: the minor is the number of devices, as if none ever went away.
AllocMinorByCount(c) ==
  /\ "driver" \in module
  /\ at[c] = "unbound"
  /\ LET m == Cardinality({k \in Minors : idr[k] # None}) IN
       /\ m \in Minors
       /\ idr' = [idr EXCEPT ![m] = c]
       /\ minor' = [minor EXCEPT ![c] = m]
  /\ parts' = [parts EXCEPT ![c] = {"dev"}]
  /\ locked' = [locked EXCEPT ![c] = FALSE]
  /\ Goto(c, "cdev")
  /\ UNCHANGED <<module, cdevs, nodes, file, call, buf, sent, callback>>

\* idr_alloc returns the lowest free minor.
AllocMinor(c) ==
  /\ "driver" \in module
  /\ at[c] = "unbound"
  /\ \E m \in Minors :
       /\ idr[m] = None
       /\ \A k \in Minors : k < m => idr[k] # None
       /\ idr' = [idr EXCEPT ![m] = c]
       /\ minor' = [minor EXCEPT ![c] = m]
  /\ parts' = [parts EXCEPT ![c] = {"dev"}]
  /\ locked' = [locked EXCEPT ![c] = FALSE]
  /\ Goto(c, "cdev")
  /\ UNCHANGED <<module, cdevs, nodes, file, call, buf, sent, callback>>

\* Mutant: the map of devices is given the minor where the cdev belongs.
AddCdevSwapped(c) ==
  /\ at[c] = "cdev"
  /\ cdevs' = [cdevs EXCEPT ![minor[c]] = minor[c]]
  /\ Goto(c, "node")
  /\ UNCHANGED <<module, minor, idr, nodes, parts, files, callback>>

AddCdev(c) ==
  /\ at[c] = "cdev"
  /\ \/ /\ cdevs' = [cdevs EXCEPT ![minor[c]] = c]
        /\ Goto(c, "node")
     \/ /\ Goto(c, "undo_minor")
        /\ UNCHANGED cdevs
  /\ UNCHANGED <<module, minor, idr, nodes, parts, files, callback>>

\* device_create refuses a name that is taken.
CreateNode(c) ==
  /\ at[c] = "node"
  /\ \/ /\ nodes[Port[c]] = None
        /\ nodes' = [nodes EXCEPT ![Port[c]] = minor[c]]
        /\ Goto(c, "rpdev")
     \/ /\ Goto(c, "undo_cdev")
        /\ UNCHANGED nodes
  /\ UNCHANGED <<module, minor, idr, cdevs, parts, files, callback>>

SetUp(c, part, next) ==
  /\ parts' = [parts EXCEPT ![c] = @ \cup {part}]
  /\ Goto(c, next)

SetRpdev(c) ==
  /\ at[c] = "rpdev"
  /\ SetUp(c, "rpdev", "fifo")
  /\ UNCHANGED <<module, minor, idr, cdevs, nodes, files, callback>>

\* Mutant: a failure goes to the label one too far down.
AllocFifoSkipsLabel(c) ==
  /\ at[c] = "fifo"
  /\ \/ SetUp(c, "fifo", "queue")
     \/ Goto(c, "undo_cdev") /\ UNCHANGED parts
  /\ UNCHANGED <<module, minor, idr, cdevs, nodes, files, callback>>

AllocFifo(c) ==
  /\ at[c] = "fifo"
  /\ \/ SetUp(c, "fifo", "queue")
     \/ Goto(c, "undo_node") /\ UNCHANGED parts
  /\ UNCHANGED <<module, minor, idr, cdevs, nodes, files, callback>>

InitQueue(c) ==
  /\ at[c] = "queue"
  /\ SetUp(c, "queue", "drvdata")
  /\ UNCHANGED <<module, minor, idr, cdevs, nodes, files, callback>>

SetDrvdata(c) ==
  /\ at[c] = "drvdata"
  /\ SetUp(c, "drvdata", "bound")
  /\ UNCHANGED <<module, minor, idr, cdevs, nodes, files, callback>>

-----------------------------------------------------------------------------
(* pruss_api_remove, which after kfifo_free undoes the same three things,  *)
(* in the same order, as the labels of probe                               *)

\* The channel is withdrawn (its PRU is disabled), or the module exits; its file
\* may be open and a call in the middle of it.
Remove(c) ==
  /\ at[c] = "bound"
  /\ Goto(c, "undo_fifo")
  /\ UNCHANGED <<module, minor, idr, cdevs, nodes, parts, files, callback>>

FreeFifo(c) ==
  /\ at[c] = "undo_fifo"
  /\ parts' = [parts EXCEPT ![c] = @ \ {"fifo"}]
  /\ Goto(c, "undo_node")
  /\ UNCHANGED <<module, minor, idr, cdevs, nodes, files, callback>>

\* device_destroy finds the node by its device number.
DestroyNode(c) ==
  /\ at[c] = "undo_node"
  /\ nodes' = [n \in Ports |-> IF nodes[n] = minor[c] THEN None ELSE nodes[n]]
  /\ Goto(c, "undo_cdev")
  /\ UNCHANGED <<module, minor, idr, cdevs, parts, files, callback>>

DelCdev(c) ==
  /\ at[c] = "undo_cdev"
  /\ cdevs' = [cdevs EXCEPT ![minor[c]] = None]
  /\ Goto(c, "undo_minor")
  /\ UNCHANGED <<module, minor, idr, nodes, parts, files, callback>>

FreeMinor(c) ==
  /\ at[c] = "undo_minor"
  /\ idr' = [idr EXCEPT ![minor[c]] = None]
  /\ minor' = [minor EXCEPT ![c] = None]
  /\ Goto(c, "free")
  /\ UNCHANGED <<module, cdevs, nodes, parts, files, callback>>

\* The bus destroys the endpoint, which waits for its callback, and frees prudev
\* (devm_kzalloc).
FreeDev(c) ==
  /\ at[c] = "free"
  /\ c \notin callback
  /\ parts' = [parts EXCEPT ![c] = {}]
  /\ file' = [p \in Procs |-> IF file[p] = c THEN Freed ELSE file[p]]
  /\ Goto(c, "unbound")
  /\ UNCHANGED <<module, minor, idr, cdevs, nodes, locked, call, buf, sent, callback>>

-----------------------------------------------------------------------------
(* The file operations                                                     *)

\* A node leads to a minor, the minor to a cdev, the cdev to its prudev. The
\* kernel opens no file of a module that is on its way out.
Open(p, n) ==
  /\ "driver" \in module
  /\ file[p] = None
  /\ nodes[n] # None
  /\ LET c == cdevs[nodes[n]] IN
       /\ c # None
       /\ ~locked[c]
       /\ locked' = [locked EXCEPT ![c] = TRUE]
       /\ file' = [file EXCEPT ![p] = c]
  /\ UNCHANGED <<kernel, call, buf, sent, callback>>

\* The store of a release whose prudev is gone lands where that was: in nothing
\* that matters, or in a device that has the memory now.
Release(p) ==
  /\ file[p] # None
  /\ call[p] = "idle"
  /\ \/ \E c \in Chans :
          /\ file[p] \in {c, Freed}
          /\ locked' = [locked EXCEPT ![c] = FALSE]
     \/ /\ file[p] = Freed
        /\ UNCHANGED locked
  /\ file' = [file EXCEPT ![p] = None]
  /\ UNCHANGED <<kernel, call, buf, sent, callback>>

\* read and poll, which test the fifo and use the wait queue.
BeginRead(p) ==
  /\ file[p] # None
  /\ call[p] = "idle"
  /\ call' = [call EXCEPT ![p] = "read"]
  /\ UNCHANGED <<kernel, locked, file, buf, sent, callback>>

EndRead(p) ==
  /\ call[p] = "read"
  /\ call' = [call EXCEPT ![p] = "idle"]
  /\ UNCHANGED <<kernel, locked, file, buf, sent, callback>>

\* copy_from_user into the one static buffer; it may fault part-way, which ends
\* the call and leaves the buffer with nobody's message.
WriteCopy(p) ==
  /\ file[p] # None
  /\ call[p] = "idle"
  /\ \/ /\ buf' = p
        /\ call' = [call EXCEPT ![p] = "write"]
     \/ /\ buf' = None
        /\ UNCHANGED call
  /\ UNCHANGED <<kernel, locked, file, sent, callback>>

\* rpmsg_send, which waits for a transmit buffer before it copies the message; it
\* fails when it gets none or the channel is gone, and comes to nothing when the
\* device has no channel yet (a NULL rpdev).
WriteSend(p) ==
  /\ call[p] = "write"
  /\ \/ /\ file[p] \in Chans => "rpdev" \in parts[file[p]]
        /\ sent' = [sent EXCEPT ![p] = buf]
     \/ UNCHANGED sent
  /\ call' = [call EXCEPT ![p] = "idle"]
  /\ UNCHANGED <<kernel, locked, file, buf, callback>>

\* The endpoint of a channel exists from before probe to after remove.
BeginCallback(c) ==
  /\ at[c] # "unbound"
  /\ c \notin callback
  /\ callback' = callback \cup {c}
  /\ UNCHANGED <<kernel, files>>

EndCallback(c) ==
  /\ c \in callback
  /\ callback' = callback \ {c}
  /\ UNCHANGED <<kernel, files>>

-----------------------------------------------------------------------------

Probe(c) ==
  \/ AllocMinor(c) \/ AddCdev(c) \/ CreateNode(c) \/ SetRpdev(c)
  \/ AllocFifo(c) \/ InitQueue(c) \/ SetDrvdata(c)

Undo(c) ==
  FreeFifo(c) \/ DestroyNode(c) \/ DelCdev(c) \/ FreeMinor(c) \/ FreeDev(c)

Calls(p) ==
  \/ \E n \in Ports : Open(p, n)
  \/ Release(p) \/ BeginRead(p) \/ EndRead(p) \/ WriteCopy(p) \/ WriteSend(p)

Next ==
  \/ \E x \in ModuleParts : InitFails(x)
  \/ InitModule \/ ExitModule \/ ExitDone
  \/ \E c \in Chans :
       Probe(c) \/ Remove(c) \/ Undo(c) \/ BeginCallback(c) \/ EndCallback(c)
  \/ \E p \in Procs : Calls(p)

Spec == Init /\ [][Next]_vars

-----------------------------------------------------------------------------
(* Properties                                                              *)

(***************************************************************************)
(* A device node leads to the PRU it is named after: while channels come   *)
(* and go at the same time and reuse each other's minors, opening          *)
(* /dev/pruss_api_pru<n> reaches the prudev of a channel with number n     *)
(* that holds the minor (the order of 247, 253 and of 280-285, 298-301).   *)
(***************************************************************************)
NodeIsOurs ==
  \A n \in Ports : nodes[n] # None =>
    LET c == cdevs[nodes[n]] IN
      /\ c \in Chans
      /\ Port[c] = n
      /\ idr[nodes[n]] = c

(***************************************************************************)
(* A probe that failed at any step, a remove and a module exit leave       *)
(* nothing behind: no minor, cdev, node or part of the device (the labels  *)
(* 279-288, remove 291-303, exit 354-361).                                 *)
(***************************************************************************)
Unwound ==
  /\ \A c \in Chans : at[c] = "unbound" =>
       /\ parts[c] = {}
       /\ \A m \in Minors : idr[m] # c /\ cdevs[m] # c
  /\ \A m \in Minors : idr[m] = None => \A n \in Ports : nodes[n] # m
  /\ module = {} => \A m \in Minors : idr[m] = None

(***************************************************************************)
(* A read finds the fifo and the wait queue of its device: "pruss_api_read *)
(* is called whenever we read from the character device file" and "pulls   *)
(* messages from the kernel fifo" (107, 109). It does not hold: probe      *)
(* makes the node (253) before the fifo (263) and the wait queue (270).    *)
(***************************************************************************)
ReadsFromFifo ==
  \A p \in Procs :
    call[p] = "read" /\ file[p] \in Chans => {"fifo", "queue"} \subseteq parts[file[p]]

(***************************************************************************)
(* A read that began with a fifo keeps it until it returns: "pulls         *)
(* messages from the kernel fifo" (109), "used to buffer the messages" (45)*)
(* It does not hold: remove frees the fifo (297), and the bus then prudev, *)
(* whoever is in the middle of a read.                                     *)
(***************************************************************************)
ReadKeepsItsFifo ==
  [][\A p \in Procs : \A c \in Chans :
       /\ call[p] = "read" /\ file[p] = c /\ "fifo" \in parts[c]
       /\ call'[p] = "read"
       => "fifo" \in parts'[c]]_vars

(***************************************************************************)
(* The message a write() sends is the one it was given ("takes the message *)
(* and passes it to the PRU core", line 137). It does not hold: the buffer *)
(* it is copied to is one for all devices (143), and a write to the device *)
(* of the other PRU overwrites it before rpmsg_send.                       *)
(***************************************************************************)
WriteSendsItsMessage == \A p \in Procs : sent[p] = p
=============================================================================
